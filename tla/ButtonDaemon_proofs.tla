------------------------ MODULE ButtonDaemon_proofs ------------------------
(***************************************************************************)
(* What holds of the daemon's loop for any printers, any intervals, any    *)
(* capacity of the filter and any number of presses, retransmits, edits    *)
(* and moves.  Types first; then four invariants, one for each thing the   *)
(* loop carries from one pass to the next: its caches, its two deadlines,  *)
(* the filter's memory, and the identity of a press.                       *)
(***************************************************************************)
EXTENDS ButtonDaemon, TLAPS

Hosts == Printers \cup {NoHost}
Addresses == Printers \X Nat
PressEvent == [from : Addresses \cup {NoAddress}, regid : RegIds \cup {NoHost}, seq : Nat]
Cache == [host : Printers, endpoint : Addresses \cup {NoAddress}, local : Hosts,
          allowed : SUBSET Addresses]

LoopType ==
    /\ pc \in {"top", "reload", "reloaded", "register", "send", "receive", "check", "dedupe",
               "connect", "scan", "exit"}
    /\ cfg \in Printers /\ loaded \in Hosts
    /\ cache \in Cache
    /\ nextRegister \in Nat /\ nextRefresh \in Int
    /\ unsent \subseteq Funcs /\ event \in PressEvent
    /\ recent \in Seq((RegIds \cup {NoHost}) \X Nat)
    /\ acked \subseteq PressEvent /\ handled \in Seq(PressEvent)

WorldType ==
    /\ file \in Hosts
    /\ moves \in [Printers -> Nat] /\ pending \in [Printers -> PressEvent]
    /\ presses \in [Printers -> Nat] /\ queue \in Seq(PressEvent)
    /\ lease \in [Printers -> [Funcs -> Nat]] /\ arrived \subseteq Printers \X Funcs

\* Types of what the properties speak of.
TypeOK == LoopType /\ WorldType

-----------------------------------------------------------------------------

\* What the loop has looked up belongs to the printer it is configured for; after a reload
\* only until the registration that follows at once, which looks everything up anew.
Follows ==
    /\ cache.local \in {cfg, NoHost}
    /\ \A address \in cache.allowed : HostOf(address) = cfg

Caches ==
    /\ cache.host = cfg
    /\ HostOf(cache.endpoint) \in {cfg, NoHost}
    /\ Follows \/ (pc = "register" /\ needsResolve /\ nextRegister = 0)

\* A press that got past the sender check came from an address on the list.
Sender ==
    pc \in {"dedupe", "connect", "scan"} /\ cache.allowed # {} => event.from \in cache.allowed

\* The leases of the last cycle and the addresses outlive the next registration's deadline,
\* however the time passes, until that deadline is missed; then the loop registers before it
\* waits again.
Outlives ==
    /\ nextRefresh > nextRegister - ReregisterSec
    /\ \A r \in arrived : lease[r[1]][r[2]] > nextRegister

Deadlines ==
    /\ pc = "send" => /\ nextRegister = 0 /\ nextRefresh > 0
                      /\ \A r \in arrived : lease[r[1]][r[2]] = DurationSec
    /\ pc = "receive" \/ nextRegister > 0 => Outlives

\* The filter remembers the keys of the last Capacity presses it let through, or of all.
Memory ==
    /\ Len(recent) = IF Len(handled) < Capacity THEN Len(handled) ELSE Capacity
    /\ \A i \in 1 .. Len(recent) :
          recent[i] = KeyFor(handled[Len(handled) - Len(recent) + i])

\* Every press there is or was, wherever its notification is.
Known(e) ==
    \/ e = NoEvent \/ e = event \/ e \in acked
    \/ \E h \in Printers : e = pending[h]
    \/ \E i \in DOMAIN queue : e = queue[i]
    \/ \E i \in DOMAIN handled : e = handled[i]

\* SEQ tells the presses of one printer apart.
SamePress(e, f) == HostOf(e.from) = HostOf(f.from) /\ e.seq = f.seq

Identity ==
    /\ \A e \in PressEvent : Known(e) /\ e # NoEvent =>
          HostOf(e.from) \in Printers /\ e.seq <= presses[HostOf(e.from)]
    /\ \A e, f \in PressEvent : Known(e) /\ Known(f) /\ SamePress(e, f) => e = f

-----------------------------------------------------------------------------
(* Types.                                                                   *)

LEMMA NoEventType == NoEvent \in PressEvent /\ NoAddress \in Addresses \cup {NoAddress}
BY DEF NoEvent, PressEvent, NoHost

LEMMA AddressType ==
    ASSUME NEW h \in Printers, moves \in [Printers -> Nat]
    PROVE  Address(h) \in Addresses /\ HostOf(Address(h)) = h
BY DEF Address, Addresses, HostOf

LEMMA HostOfType ==
    ASSUME NEW a \in Addresses PROVE HostOf(a) \in Printers /\ a # NoAddress
BY DaemonAssumption DEF HostOf, Addresses, NoAddress, NoHost

LEMMA KeyType == ASSUME NEW e \in PressEvent PROVE KeyFor(e) \in (RegIds \cup {NoHost}) \X Nat
BY DEF KeyFor, PressEvent

LEMMA RemoveAtType ==
    ASSUME NEW S, NEW s \in Seq(S), NEW i \in DOMAIN s
    PROVE  /\ RemoveAt(s, i) \in Seq(S)
           /\ \A j \in DOMAIN RemoveAt(s, i) : \E k \in DOMAIN s : RemoveAt(s, i)[j] = s[k]
<1>1. SubSeq(s, 1, i - 1) \in Seq(S) /\ SubSeq(s, i + 1, Len(s)) \in Seq(S)
  OBVIOUS
<1>2. \A j \in DOMAIN SubSeq(s, 1, i - 1) : j \in DOMAIN s /\ SubSeq(s, 1, i - 1)[j] = s[j]
  OBVIOUS
<1>3. \A j \in DOMAIN SubSeq(s, i + 1, Len(s)) :
         i + j \in DOMAIN s /\ SubSeq(s, i + 1, Len(s))[j] = s[i + j]
  OBVIOUS
<1> DEFINE front == SubSeq(s, 1, i - 1)
           rest == SubSeq(s, i + 1, Len(s))
<1>4. ASSUME NEW j \in DOMAIN (front \o rest)
      PROVE  \E k \in DOMAIN s : (front \o rest)[j] = s[k]
  <2>1. front \in Seq(S) /\ rest \in Seq(S)
    BY <1>1
  <2>2. \A k \in DOMAIN front : \E l \in DOMAIN s : front[k] = s[l]
    BY <1>2
  <2>3. \A k \in DOMAIN rest : \E l \in DOMAIN s : rest[k] = s[l]
    BY <1>3
  <2> HIDE DEF front, rest
  <2>4. CASE j \in DOMAIN front
    BY <2>1, <2>2, <2>4
  <2>5. CASE j \notin DOMAIN front
    <3>1. j - Len(front) \in DOMAIN rest /\ (front \o rest)[j] = rest[j - Len(front)]
      BY <2>1, <2>5
    <3> QED BY <2>3, <3>1
  <2> QED BY <2>4, <2>5
<1>5. RemoveAt(s, i) = front \o rest /\ front \o rest \in Seq(S)
  BY <1>1 DEF RemoveAt
<1> HIDE DEF front, rest
<1> QED BY <1>4, <1>5

LEMMA RememberedType ==
    ASSUME NEW S, NEW s \in Seq(S), NEW x \in S
    PROVE  Remembered(Append(s, x)) \in Seq(S)
BY DaemonAssumption DEF Remembered

LEMMA InitType == Init => TypeOK
<1> SUFFICES ASSUME Init PROVE TypeOK
  OBVIOUS
<1>1. cfg \in Printers /\ cache \in Cache
  <2>1. cfg \in Printers
    BY DaemonAssumption DEF Init
  <2> QED BY <2>1, NoEventType DEF Init, NotResolved, Cache, Hosts
<1>2. LoopType
  BY <1>1, NoEventType DEF Init, LoopType, Hosts
<1>3. WorldType
  BY <1>1, NoEventType DEF Init, WorldType, Hosts
<1> QED BY <1>2, <1>3 DEF TypeOK

LEMMA ConfiguringType == TypeOK /\ Configuring => TypeOK'
<1> SUFFICES ASSUME TypeOK, Configuring PROVE TypeOK'
  OBVIOUS
<1> USE DEF TypeOK, LoopType, WorldType, lookupVars, userVars, printerVars, leaseVars,
            handledVars, Configuring
<1>1. CASE CheckStop
  BY <1>1 DEF CheckStop
<1>2. CASE CheckReload
  BY <1>2 DEF CheckReload
<1>3. CASE TryReloadConfig
  BY <1>3 DEF TryReloadConfig
<1>4. CASE ReloadFails
  BY <1>4 DEF ReloadFails
<1>5. CASE Reload
  <2>1. loaded \in Printers /\ NoHost \in Hosts
    BY <1>5 DEF Reload, Hosts
  <2>2. RegistrarFor(loaded) \in Cache
    BY <2>1, NoEventType DEF RegistrarFor, Cache
  <2> QED BY <1>5, <2>1, <2>2 DEF Reload
<1> QED BY <1>1, <1>2, <1>3, <1>4, <1>5

LEMMA RegisteringType == TypeOK /\ Registering => TypeOK'
<1> SUFFICES ASSUME TypeOK, Registering PROVE TypeOK'
  OBVIOUS
<1> USE DEF TypeOK, LoopType, WorldType, lookupVars, userVars, printerVars, leaseVars,
            handledVars, Registering
<1>1. CASE RegisterNotDue
  BY <1>1 DEF RegisterNotDue
<1>2. CASE BeginRegistration
  <2>1. cache' \in Cache
    <3>1. CASE \E local \in {cfg, NoHost}, allowed \in {{Address(cfg)}, {}} :
                  cache' = [cache EXCEPT !.endpoint = NoAddress, !.local = local,
                                         !.allowed = allowed]
      <4>1. Address(cfg) \in Addresses
        BY AddressType
      <4>2. PICK local \in {cfg, NoHost}, allowed \in {{Address(cfg)}, {}} :
                  cache' = [cache EXCEPT !.endpoint = NoAddress, !.local = local,
                                         !.allowed = allowed]
        BY <3>1
      <4>3. local \in Hosts /\ allowed \in SUBSET Addresses
        BY <4>1 DEF Hosts
      <4> QED BY <4>2, <4>3 DEF Cache
    <3> QED BY <1>2, <3>1 DEF BeginRegistration
  <2>2. nextRefresh' \in Int
    BY <1>2, DaemonAssumption DEF BeginRegistration
  <2> QED BY <1>2, <2>1, <2>2 DEF BeginRegistration
<1>3. CASE SendSet
  <2> DEFINE to == IF cache.endpoint = NoAddress THEN Address(cache.host) ELSE cache.endpoint
  <2>1. to \in Addresses /\ HostOf(to) \in Printers
    <3>1. cache.host \in Printers /\ cache.endpoint \in Addresses \cup {NoAddress}
      BY DEF Cache
    <3> QED BY <3>1, AddressType, HostOfType
  <2>2. PICK f \in unsent :
          /\ unsent' = unsent \ {f}
          /\ \/ cache' = [cache EXCEPT !.endpoint = NoAddress] /\ UNCHANGED leaseVars
             \/ /\ cache' = [cache EXCEPT !.endpoint = to]
                /\ \/ UNCHANGED leaseVars
                   \/ /\ lease' = [lease EXCEPT ![HostOf(to)][f] = DurationSec]
                      /\ arrived' = arrived \cup {<<HostOf(to), f>>}
    BY <1>3 DEF SendSet
  <2> HIDE DEF to
  <2>3. cache' \in Cache
    BY <2>1, <2>2, NoEventType DEF Cache
  <2>4. lease' \in [Printers -> [Funcs -> Nat]] /\ arrived' \subseteq Printers \X Funcs
    <3>1. f \in Funcs /\ DurationSec \in Nat
      BY DaemonAssumption
    <3>2. CASE UNCHANGED leaseVars
      BY <3>2
    <3>3. CASE /\ lease' = [lease EXCEPT ![HostOf(to)][f] = DurationSec]
               /\ arrived' = arrived \cup {<<HostOf(to), f>>}
      BY <2>1, <3>1, <3>3
    <3> QED BY <2>2, <3>2, <3>3
  <2>5. unsent' \subseteq Funcs
    BY <2>2
  <2> QED BY <1>3, <2>3, <2>4, <2>5 DEF SendSet
<1>4. CASE EndRegistration
  BY <1>4, DaemonAssumption DEF EndRegistration
<1> QED BY <1>1, <1>2, <1>3, <1>4

LEMMA HandlingType == TypeOK /\ Handling => TypeOK'
<1> SUFFICES ASSUME TypeOK, Handling PROVE TypeOK'
  OBVIOUS
<1> USE DEF TypeOK, LoopType, WorldType, lookupVars, userVars, leaseVars, handledVars, Handling
<1>1. CASE ReceiveNothing
  BY <1>1 DEF ReceiveNothing
<1>2. CASE Receive
  <2>1. PICK i \in DOMAIN queue :
          queue' = RemoveAt(queue, i) /\ event' = IF stop THEN NoEvent ELSE queue[i]
    BY <1>2 DEF Receive
  <2>2. queue' \in Seq(PressEvent) /\ event' \in PressEvent
    BY <2>1, RemoveAtType, NoEventType
  <2> QED BY <1>2, <2>2 DEF Receive
<1>3. CASE DropUnexpected
  BY <1>3, NoEventType DEF DropUnexpected
<1>4. CASE Ack
  <2>1. pending' \in [Printers -> PressEvent]
    <3>1. \/ pending' = pending
          \/ pending' = [pending EXCEPT ![HostOf(event.from)] = NoEvent]
      BY <1>4 DEF Ack
    <3> QED BY <3>1, NoEventType
  <2> QED BY <1>4, <2>1 DEF Ack
<1>5. CASE Duplicate
  BY <1>5, NoEventType DEF Duplicate
<1>6. CASE NewPress
  <2>1. recent' \in Seq((RegIds \cup {NoHost}) \X Nat)
    BY <1>6, KeyType, RememberedType DEF NewPress
  <2> QED BY <1>6, <2>1 DEF NewPress
<1>7. CASE Connect
  BY <1>7, NoEventType DEF Connect
<1>8. CASE ScanEnds
  BY <1>8, NoEventType DEF ScanEnds
<1> QED BY <1>1, <1>2, <1>3, <1>4, <1>5, <1>6, <1>7, <1>8

LEMMA WorldStepType == TypeOK /\ (User \/ Printer \/ Tick) => TypeOK'
<1> SUFFICES ASSUME TypeOK, User \/ Printer \/ Tick PROVE TypeOK'
  OBVIOUS
<1> USE DEF TypeOK, LoopType, WorldType, lookupVars, userVars, printerVars, leaseVars,
            handledVars
<1>1. CASE User
  <2>1. file' \in Hosts /\ UNCHANGED <<moves, pending, presses, queue>>
    BY <1>1 DEF User, SaveFile, SignalReload, SignalStop, Hosts
  <2> QED BY <1>1, <2>1 DEF User
<1>2. ASSUME NEW h \in Printers, Press(h) \/ Transmit(h) \/ Forget(h), Printer PROVE TypeOK'
  <2>1. CASE Press(h)
    <3>1. PICK r \in RegIds :
            pending' = [pending EXCEPT ![h] = [from |-> Address(h), regid |-> r,
                                               seq |-> presses[h] + 1]]
      BY <2>1 DEF Press
    <3>2. presses' \in [Printers -> Nat] /\ presses[h] + 1 \in Nat
      BY <2>1 DEF Press
    <3>3. [from |-> Address(h), regid |-> r, seq |-> presses[h] + 1] \in PressEvent
      BY <3>2, AddressType DEF PressEvent
    <3> QED BY <1>2, <2>1, <3>1, <3>2, <3>3 DEF Printer, Press
  <2>2. CASE Transmit(h)
    <3>1. UNCHANGED <<moves, pending, presses>>
      BY <2>2 DEF Transmit
    <3>2. pending[h] \in PressEvent
      BY <2>2 DEF Transmit
    <3>3. queue' = Append(queue, pending[h])
      BY <2>2 DEF Transmit
    <3>4. queue' \in Seq(PressEvent)
      BY <3>2, <3>3
    <3> QED BY <1>2, <3>1, <3>4 DEF Printer
  <2>3. CASE Forget(h)
    <3>1. pending' \in [Printers -> PressEvent]
      BY <2>3, NoEventType DEF Forget
    <3>2. moves' = moves \/ moves' = [moves EXCEPT ![h] = @ + 1]
      BY <2>3 DEF Forget
    <3>3. moves' \in [Printers -> Nat]
      <4>1. moves \in [Printers -> Nat]
        BY DEF TypeOK, WorldType
      <4> HIDE DEF TypeOK, LoopType, WorldType
      <4> QED BY <3>2, <4>1
    <3> QED BY <1>2, <2>3, <3>1, <3>3 DEF Printer, Forget
  <2> QED BY <1>2, <2>1, <2>2, <2>3
<1>3. CASE Tick
  <2>1. nextRegister' \in Nat /\ nextRefresh' \in Int
    BY <1>3 DEF Tick
  <2>2. lease' \in [Printers -> [Funcs -> Nat]]
    BY <1>3 DEF Tick
  <2> QED BY <1>3, <2>1, <2>2 DEF Tick
<1> QED BY <1>1, <1>2, <1>3 DEF Printer

LEMMA TypeStep == TypeOK /\ [Next]_vars => TypeOK'
<1>1. ASSUME TypeOK, UNCHANGED vars PROVE TypeOK'
  BY <1>1 DEF TypeOK, LoopType, WorldType, vars, lookupVars, userVars, printerVars, leaseVars,
              handledVars
<1> QED BY <1>1, ConfiguringType, RegisteringType, HandlingType, WorldStepType
        DEF Next, Daemon

(* Every variable keeps its type: in particular the two deadlines stay      *)
(* numbers a printer's moves and the daemon's reloads cannot confuse, and   *)
(* nothing but presses is ever in the socket, the filter or a scan.         *)
THEOREM TypeCorrect == Spec => []TypeOK
BY InitType, TypeStep, PTL DEF Spec

-----------------------------------------------------------------------------
(* The caches and the sender check.                                         *)

LEMMA NoAddressHost == HostOf(NoAddress) = NoHost
BY DEF HostOf, NoAddress

LEMMA CachesInit == Init => Caches
BY NoAddressHost DEF Init, Caches, Follows, NotResolved

\* A reload for another printer leaves addresses of the old one behind, but not for long: the
\* registration that looks them up again is due at once, and nothing comes in between.
LEMMA CachesConfiguring == TypeOK /\ Caches /\ Configuring => Caches'
<1> SUFFICES ASSUME TypeOK, Caches, Configuring PROVE Caches'
  OBVIOUS
<1>1. CASE CheckStop \/ CheckReload \/ TryReloadConfig \/ ReloadFails
  <2>1. UNCHANGED <<cfg, cache>> /\ pc # "register"
    BY <1>1 DEF CheckStop, CheckReload, TryReloadConfig, ReloadFails, lookupVars
  <2> QED BY <2>1 DEF Caches, Follows
<1>2. CASE Reload
  <2>1. /\ cfg' = loaded /\ cache' = RegistrarFor(loaded)
        /\ pc' = "register" /\ needsResolve' = TRUE /\ nextRegister' = 0
    BY <1>2 DEF Reload
  <2>2. cache'.host = loaded /\ HostOf(cache'.endpoint) \in {loaded, NoHost}
    <3>1. CASE cache.host = loaded
      BY <2>1, <3>1 DEF RegistrarFor, Caches
    <3>2. CASE cache.host # loaded
      BY <2>1, <3>2, NoAddressHost DEF RegistrarFor, TypeOK, LoopType, Cache
    <3> QED BY <3>1, <3>2
  <2> QED BY <2>1, <2>2 DEF Caches
<1> QED BY <1>1, <1>2 DEF Configuring

LEMMA CachesRegistering == TypeOK /\ Caches /\ Registering => Caches'
<1> SUFFICES ASSUME TypeOK, Caches, Registering PROVE Caches'
  OBVIOUS
<1>1. cache \in Cache /\ cfg \in Printers /\ moves \in [Printers -> Nat] /\ nextRegister \in Nat
  BY DEF TypeOK, LoopType, WorldType
<1>2. CASE RegisterNotDue
  BY <1>1, <1>2 DEF RegisterNotDue, RegisterDue, Caches, Follows, lookupVars
<1>3. CASE BeginRegistration
  <2>1. cfg' = cfg
    BY <1>3 DEF BeginRegistration
  <2>2. CASE \E local \in {cfg, NoHost}, allowed \in {{Address(cfg)}, {}} :
                cache' = [cache EXCEPT !.endpoint = NoAddress, !.local = local,
                                       !.allowed = allowed]
    <3>1. PICK local \in {cfg, NoHost}, allowed \in {{Address(cfg)}, {}} :
                cache' = [cache EXCEPT !.endpoint = NoAddress, !.local = local,
                                       !.allowed = allowed]
      BY <2>2
    <3>2. /\ cache'.host = cache.host /\ cache'.endpoint = NoAddress
          /\ cache'.local = local /\ cache'.allowed = allowed
      BY <1>1, <3>1 DEF Cache
    <3>3. \A address \in allowed : HostOf(address) = cfg
      BY <1>1, AddressType
    <3> QED BY <2>1, <3>2, <3>3, NoAddressHost DEF Caches, Follows
  <2>3. CASE ~ResolveDue /\ UNCHANGED cache
    BY <2>1, <2>3 DEF Caches, Follows, ResolveDue
  <2> QED BY <1>3, <2>2, <2>3 DEF BeginRegistration
<1>4. CASE SendSet
  <2>1. /\ cfg' = cfg /\ pc = "send"
        /\ \/ cache' = [cache EXCEPT !.endpoint = NoAddress]
           \/ cache' = [cache EXCEPT !.endpoint = IF cache.endpoint = NoAddress
                                                  THEN Address(cache.host) ELSE cache.endpoint]
    BY <1>4 DEF SendSet
  <2>2. HostOf(Address(cache.host)) = cache.host
    BY <1>1, AddressType DEF Cache
  <2>3. /\ cache'.host = cache.host /\ cache'.local = cache.local
        /\ cache'.allowed = cache.allowed
        /\ cache'.endpoint \in {NoAddress, Address(cache.host), cache.endpoint}
    BY <1>1, <2>1 DEF Cache
  <2> QED BY <2>1, <2>2, <2>3, NoAddressHost DEF Caches, Follows
<1>5. CASE EndRegistration
  BY <1>5 DEF EndRegistration, Caches, Follows
<1> QED BY <1>2, <1>3, <1>4, <1>5 DEF Registering

LEMMA CachesElsewhere == TypeOK /\ Caches /\ (Handling \/ User \/ Printer \/ Tick) => Caches'
<1> SUFFICES ASSUME TypeOK, Caches, Handling \/ User \/ Printer \/ Tick PROVE Caches'
  OBVIOUS
<1>1. CASE Handling
  <2>1. UNCHANGED <<cfg, cache>> /\ pc # "register"
    BY <1>1 DEF Handling, lookupVars, ReceiveNothing, Receive, DropUnexpected, Ack, Duplicate,
                NewPress, Connect, ScanEnds
  <2> QED BY <2>1 DEF Caches, Follows
<1>2. CASE User \/ Printer
  BY <1>2 DEF User, Printer, lookupVars, Caches, Follows
<1>3. CASE Tick
  BY <1>3 DEF Tick, Caches, Follows
<1> QED BY <1>1, <1>2, <1>3

LEMMA CachesStep == TypeOK /\ Caches /\ [Next]_vars => Caches'
<1>1. ASSUME Caches, UNCHANGED vars PROVE Caches'
  BY <1>1 DEF Caches, Follows, vars, lookupVars
<1> QED BY <1>1, CachesConfiguring, CachesRegistering, CachesElsewhere DEF Next, Daemon

(* Whatever is reloaded, whenever the lookups fail and wherever printers    *)
(* move, the loop registers and waits with the addresses of the printer it  *)
(* is configured for (the reload block of brscan-scand.mm, InvalidateCache, *)
(* cached_local_ip, allowed_sender_ips).                                    *)
THEOREM CachesFollow == Spec => []CachesFollowConfig
<1>1. Caches => CachesFollowConfig
  BY DEF Caches, Follows, CachesFollowConfig
<1> QED BY CachesInit, CachesStep, TypeCorrect, <1>1, PTL DEF Spec

LEMMA SenderStep == Sender /\ [Next]_vars => Sender'
<1> SUFFICES ASSUME Sender, [Next]_vars PROVE Sender'
  OBVIOUS
<1>1. CASE Configuring \/ Registering
  <2>1. pc' \notin {"dedupe", "connect", "scan"}
    BY <1>1 DEF Configuring, CheckStop, CheckReload, TryReloadConfig, ReloadFails, Reload,
                Registering, RegisterNotDue, BeginRegistration, SendSet, EndRegistration
  <2> QED BY <2>1 DEF Sender
<1>2. CASE Ack /\ Handling
  BY <1>2 DEF Ack, Handling, lookupVars, Sender, IsAllowedSender
<1>3. CASE Handling /\ ~Ack
  BY <1>3 DEF Handling, lookupVars, Sender, ReceiveNothing, Receive, DropUnexpected, Duplicate,
              NewPress, Connect, ScanEnds
<1>4. CASE User \/ Printer \/ Tick \/ UNCHANGED vars
  BY <1>4 DEF User, Printer, Tick, vars, lookupVars, Sender
<1> QED BY <1>1, <1>2, <1>3, <1>4 DEF Next, Daemon

(* A scan is of the printer whose button was pressed, unless the sender     *)
(* check had no addresses to go by: no reload and no move comes between the *)
(* check and the scan (IsAllowedSender, HandleButtonEvent).                 *)
THEOREM PressScansItsPrinter == Spec => []ScansThePressedPrinter
<1>1. Init => Sender
  BY DEF Init, Sender
<1>2. Caches /\ Sender => ScansThePressedPrinter
  BY DEF Caches, Follows, Sender, ScansThePressedPrinter
<1> QED BY <1>1, <1>2, CachesInit, CachesStep, SenderStep, TypeCorrect, PTL DEF Spec

-----------------------------------------------------------------------------
(* The deadlines.                                                           *)

LEMMA DeadlinesInit == Init => Deadlines
BY DEF Init, Deadlines

LEMMA DeadlinesConfiguring == TypeOK /\ Deadlines /\ Configuring => Deadlines'
<1> SUFFICES ASSUME TypeOK, Deadlines, Configuring PROVE Deadlines'
  OBVIOUS
<1>1. pc' \notin {"send", "receive"} /\ UNCHANGED <<nextRefresh, lease, arrived>>
  BY DEF Configuring, CheckStop, CheckReload, TryReloadConfig, ReloadFails, Reload, lookupVars,
         leaseVars
<1>2. nextRegister' \in {0, nextRegister}
  BY DEF Configuring, CheckStop, CheckReload, TryReloadConfig, ReloadFails, Reload, lookupVars
<1>3. CASE nextRegister' = 0
  BY <1>1, <1>3 DEF Deadlines
<1>4. CASE nextRegister' = nextRegister
  BY <1>1, <1>4 DEF Deadlines, Outlives
<1> QED BY <1>2, <1>3, <1>4

\* A cycle begins with nothing arrived and fresh lookups, takes no time, and ends with the next
\* deadline closer than any lease it renewed.
LEMMA DeadlinesRegistering == TypeOK /\ Deadlines /\ Registering => Deadlines'
<1> SUFFICES ASSUME TypeOK, Deadlines, Registering PROVE Deadlines'
  OBVIOUS
<1>1. /\ nextRegister \in Nat /\ nextRefresh \in Int /\ cache \in Cache /\ unsent \subseteq Funcs
      /\ lease \in [Printers -> [Funcs -> Nat]] /\ arrived \subseteq Printers \X Funcs
      /\ moves \in [Printers -> Nat]
  BY DEF TypeOK, LoopType, WorldType
<1>2. CASE RegisterNotDue
  <2>1. nextRegister > 0 /\ pc' = "receive"
        /\ UNCHANGED <<nextRegister, nextRefresh, lease, arrived>>
    BY <1>1, <1>2 DEF RegisterNotDue, RegisterDue, lookupVars, leaseVars
  <2> QED BY <2>1 DEF Deadlines, Outlives
<1>3. CASE BeginRegistration
  <2>1. nextRegister' = 0 /\ pc' = "send" /\ arrived' = {}
    BY <1>1, <1>3 DEF BeginRegistration, RegisterDue
  <2>2. nextRefresh' > 0
    BY <1>1, <1>3, DaemonAssumption DEF BeginRegistration, ResolveDue
  <2> QED BY <2>1, <2>2 DEF Deadlines
<1>4. CASE SendSet
  <2> DEFINE to == IF cache.endpoint = NoAddress THEN Address(cache.host) ELSE cache.endpoint
  <2>1. HostOf(to) \in Printers
    BY <1>1, AddressType, HostOfType DEF Cache
  <2>2. PICK f \in unsent :
          \/ UNCHANGED leaseVars
          \/ /\ lease' = [lease EXCEPT ![HostOf(to)][f] = DurationSec]
             /\ arrived' = arrived \cup {<<HostOf(to), f>>}
    BY <1>4 DEF SendSet
  <2>3. pc = "send" /\ pc' = "send" /\ UNCHANGED <<nextRegister, nextRefresh>>
    BY <1>4 DEF SendSet
  <2> HIDE DEF to
  <2>4. \A r \in arrived' : lease'[r[1]][r[2]] = DurationSec
    <3>1. CASE UNCHANGED leaseVars
      BY <2>3, <3>1 DEF leaseVars, Deadlines
    <3>2. CASE /\ lease' = [lease EXCEPT ![HostOf(to)][f] = DurationSec]
               /\ arrived' = arrived \cup {<<HostOf(to), f>>}
      <4> SUFFICES ASSUME NEW r \in arrived' PROVE lease'[r[1]][r[2]] = DurationSec
        OBVIOUS
      <4>1. f \in Funcs
        BY <1>1
      <4>2. CASE r = <<HostOf(to), f>>
        BY <1>1, <2>1, <3>2, <4>1, <4>2
      <4>3. CASE r \in arrived
        <5>1. r[1] \in Printers /\ r[2] \in Funcs /\ lease[r[1]][r[2]] = DurationSec
          BY <1>1, <2>3, <4>3 DEF Deadlines
        <5> QED BY <1>1, <2>1, <3>2, <4>1, <5>1
      <4> QED BY <3>2, <4>2, <4>3
    <3> QED BY <2>2, <3>1, <3>2
  <2> QED BY <2>3, <2>4 DEF Deadlines
<1>5. CASE EndRegistration
  <2>1. /\ pc = "send" /\ pc' = "receive" /\ nextRegister' = ReregisterSec
        /\ UNCHANGED <<nextRefresh, lease, arrived>>
    BY <1>5 DEF EndRegistration, leaseVars
  <2> QED BY <1>1, <2>1, DaemonAssumption DEF Deadlines, Outlives
<1> QED BY <1>2, <1>3, <1>4, <1>5 DEF Registering

LEMMA DeadlinesTick == TypeOK /\ Deadlines /\ Tick => Deadlines'
<1> SUFFICES ASSUME TypeOK, Deadlines, Tick PROVE Deadlines'
  OBVIOUS
<1>1. /\ nextRegister \in Nat /\ nextRefresh \in Int /\ ReregisterSec \in Nat
      /\ lease \in [Printers -> [Funcs -> Nat]] /\ arrived \subseteq Printers \X Funcs
  BY DaemonAssumption DEF TypeOK, LoopType, WorldType
<1>2. /\ nextRegister' = IF nextRegister > 0 THEN nextRegister - 1 ELSE 0
      /\ nextRefresh' = IF nextRefresh > -ReregisterSec THEN nextRefresh - 1 ELSE nextRefresh
      /\ lease' = [h \in Printers |-> [f \in Funcs |-> IF lease[h][f] > 0
                                                        THEN lease[h][f] - 1 ELSE 0]]
      /\ UNCHANGED <<pc, arrived>>
      /\ pc # "send" /\ (pc = "receive" => nextRegister > 0)
  BY <1>1 DEF Tick, RegisterDue
<1>3. CASE nextRegister = 0
  BY <1>2, <1>3 DEF Deadlines
<1>4. CASE nextRegister > 0
  <2>1. Outlives
    BY <1>4 DEF Deadlines
  <2>2. nextRefresh' > nextRegister' - ReregisterSec
    BY <1>1, <1>2, <1>4, <2>1 DEF Outlives
  <2>3. ASSUME NEW r \in arrived' PROVE lease'[r[1]][r[2]] > nextRegister'
    <3>1. r[1] \in Printers /\ r[2] \in Funcs /\ lease[r[1]][r[2]] > nextRegister
      BY <1>1, <1>2, <2>1 DEF Outlives
    <3>2. lease[r[1]][r[2]] \in Nat
      BY <1>1, <3>1
    <3>3. lease'[r[1]][r[2]] = IF lease[r[1]][r[2]] > 0 THEN lease[r[1]][r[2]] - 1 ELSE 0
      BY <1>2, <3>1
    <3> QED BY <1>1, <1>2, <1>4, <3>1, <3>2, <3>3
  <2> QED BY <1>2, <2>2, <2>3 DEF Deadlines, Outlives
<1> QED BY <1>1, <1>3, <1>4

LEMMA DeadlinesElsewhere == Deadlines /\ (Handling \/ User \/ Printer) => Deadlines'
<1> SUFFICES ASSUME Deadlines, Handling \/ User \/ Printer PROVE Deadlines'
  OBVIOUS
<1>1. UNCHANGED <<nextRegister, nextRefresh, lease, arrived>>
  BY DEF Handling, User, Printer, lookupVars, leaseVars
<1>2. pc' = pc \/ pc' \notin {"send", "receive"}
  BY DEF Handling, User, Printer, ReceiveNothing, Receive, DropUnexpected, Ack, Duplicate,
         NewPress, Connect, ScanEnds
<1> QED BY <1>1, <1>2 DEF Deadlines, Outlives

LEMMA DeadlinesStep == TypeOK /\ Deadlines /\ [Next]_vars => Deadlines'
<1>1. ASSUME Deadlines, UNCHANGED vars PROVE Deadlines'
  BY <1>1 DEF Deadlines, Outlives, vars, lookupVars, leaseVars
<1> QED BY <1>1, DeadlinesConfiguring, DeadlinesRegistering, DeadlinesTick, DeadlinesElsewhere
        DEF Next, Daemon

(* The daemon never waits for a press at a printer where its registration   *)
(* has run out, for any intervals in the order of the code's                *)
(* (kReregisterIntervalSec before kDefaultRegistrationDurationSec).         *)
THEOREM RegisteredWhileWaiting == Spec => []WaitsRegistered
<1>1. TypeOK /\ Deadlines => WaitsRegistered
  <2> SUFFICES ASSUME TypeOK, Deadlines, pc = "receive", NEW r \in arrived
               PROVE  lease[r[1]][r[2]] > 0
    BY DEF WaitsRegistered
  <2>1. lease[r[1]][r[2]] > nextRegister /\ nextRegister \in Nat
    BY DEF Deadlines, Outlives, TypeOK, LoopType
  <2>2. lease[r[1]][r[2]] \in Nat
    BY DEF TypeOK, WorldType
  <2> QED BY <2>1, <2>2
<1> QED BY DeadlinesInit, DeadlinesStep, TypeCorrect, <1>1, PTL DEF Spec

(* Nor on addresses that are older than the refresh interval and the cycle  *)
(* it ended in (kResolveRefreshSec).                                        *)
THEOREM WaitsOnFreshAddresses == Spec => []AddressesAreFresh
<1>1. TypeOK /\ Deadlines => AddressesAreFresh
  BY DaemonAssumption DEF Deadlines, Outlives, AddressesAreFresh, TypeOK, LoopType
<1> QED BY DeadlinesInit, DeadlinesStep, TypeCorrect, <1>1, PTL DEF Spec

-----------------------------------------------------------------------------
(* The retransmit filter.                                                   *)

LEMMA MemoryLength ==
    ASSUME Memory
    PROVE  \/ Len(recent) = Len(handled) /\ Len(handled) < Capacity
           \/ Len(recent) = Capacity /\ ~(Len(handled) < Capacity)
BY DEF Memory

LEMMA RememberedLast ==
    ASSUME NEW S, NEW s \in Seq(S), NEW x \in S, Len(s) <= Capacity,
           NEW r, r = Remembered(Append(s, x))
    PROVE  /\ Len(r) = IF Len(s) < Capacity THEN Len(s) + 1 ELSE Capacity
           /\ r[Len(r)] = x
           /\ \A i \in 1 .. Len(r) - 1 : r[i] = s[Len(s) - (Len(r) - 1) + i]
<1> DEFINE t == Append(s, x)
<1>1. /\ t \in Seq(S) /\ Len(t) = Len(s) + 1 /\ t[Len(t)] = x
      /\ \A i \in 1 .. Len(s) : t[i] = s[i]
  OBVIOUS
<1>2. Capacity \in Nat \ {0} /\ Len(s) \in Nat /\ r = Remembered(t)
  BY DaemonAssumption
<1> HIDE DEF t
<1>3. CASE Len(s) < Capacity
  <2>1. r = t
    BY <1>1, <1>2, <1>3 DEF Remembered
  <2>2. /\ Len(r) = Len(s) + 1 /\ r[Len(r)] = x
        /\ \A i \in 1 .. Len(r) - 1 : r[i] = s[i] /\ Len(s) - (Len(r) - 1) + i = i
    BY <1>1, <1>2, <2>1
  <2> QED BY <1>3, <2>2
<1>4. CASE Len(s) = Capacity
  <2>1. r = Tail(t)
    BY <1>1, <1>2, <1>4 DEF Remembered
  <2>2. Len(r) = Len(s) /\ \A i \in 1 .. Len(r) : r[i] = t[i + 1]
    BY <1>1, <1>2, <2>1
  <2>3. /\ r[Len(r)] = x
        /\ \A i \in 1 .. Len(r) - 1 : r[i] = s[i + 1] /\ Len(s) - (Len(r) - 1) + i = i + 1
    BY <1>1, <1>2, <1>4, <2>2
  <2> QED BY <1>2, <1>4, <2>2, <2>3
<1> QED BY <1>2, <1>3, <1>4

\* A press that is let through takes the place of the oldest one.
LEMMA MemoryNewPress == TypeOK /\ Memory /\ NewPress => Memory'
<1> SUFFICES ASSUME TypeOK, Memory, NewPress PROVE Memory'
  OBVIOUS
<1> DEFINE Key == (RegIds \cup {NoHost}) \X Nat
<1>1. /\ event \in PressEvent /\ KeyFor(event) \in Key
      /\ recent \in Seq(Key) /\ handled \in Seq(PressEvent)
      /\ Capacity \in Nat \ {0} /\ Len(recent) \in Nat /\ Len(handled) \in Nat
  BY KeyType, DaemonAssumption DEF TypeOK, LoopType
<1>2. recent' = Remembered(Append(recent, KeyFor(event))) /\ handled' = Append(handled, event)
  BY DEF NewPress
<1>3. /\ Len(handled') = Len(handled) + 1 /\ handled'[Len(handled')] = event
      /\ \A i \in 1 .. Len(handled) : handled'[i] = handled[i]
  BY <1>1, <1>2
<1>4. /\ Len(recent') = IF Len(recent) < Capacity THEN Len(recent) + 1 ELSE Capacity
      /\ recent'[Len(recent')] = KeyFor(event)
      /\ \A i \in 1 .. Len(recent') - 1 : recent'[i] = recent[Len(recent) - (Len(recent') - 1) + i]
  <2>1. Len(recent) <= Capacity
    BY <1>1 DEF Memory
  <2> HIDE DEF Key
  <2> QED BY <1>1, <1>2, <2>1, RememberedLast
<1>5. /\ Len(recent') \in Nat /\ Len(recent') <= Len(handled) + 1
      /\ Len(recent') = IF Len(handled') < Capacity THEN Len(handled') ELSE Capacity
  BY <1>1, <1>3, <1>4 DEF Memory
<1>6. ASSUME NEW i \in 1 .. Len(recent')
      PROVE  recent'[i] = KeyFor(handled'[Len(handled') - Len(recent') + i])
  <2>1. CASE i = Len(recent')
    <3>1. Len(handled') - Len(recent') + i = Len(handled')
      BY <1>1, <1>3, <1>5, <2>1
    <3> QED BY <1>3, <1>4, <2>1, <3>1
  <2>2. CASE i # Len(recent')
    <3> DEFINE j == Len(recent) - (Len(recent') - 1) + i
    <3>1. i \in 1 .. Len(recent') - 1
      BY <1>5, <2>2
    <3>2. recent'[i] = recent[j]
      BY <1>4, <3>1
    <3>3. j \in 1 .. Len(recent)
      BY <1>1, <1>4, <1>5, <3>1
    <3>4. recent[j] = KeyFor(handled[Len(handled) - Len(recent) + j])
      BY <3>3 DEF Memory
    <3>5. /\ Len(handled) - Len(recent) + j = Len(handled') - Len(recent') + i
          /\ Len(handled) - Len(recent) + j \in 1 .. Len(handled)
      BY <1>1, <1>3, <1>5, <3>1, <3>3, MemoryLength
    <3> HIDE DEF j
    <3> QED BY <1>3, <3>2, <3>4, <3>5
  <2> QED BY <2>1, <2>2
<1> QED BY <1>5, <1>6 DEF Memory, KeyFor

LEMMA RestOfStep == [Next]_vars /\ ~NewPress => UNCHANGED <<recent, handled>>
BY DEF Next, Daemon, Configuring, Registering, Handling, User, Printer, Tick, vars, handledVars,
       ReceiveNothing, Receive, DropUnexpected, Ack, Duplicate, Connect, ScanEnds

LEMMA MemoryStep == TypeOK /\ Memory /\ [Next]_vars => Memory'
<1> SUFFICES ASSUME TypeOK, Memory, [Next]_vars PROVE Memory'
  OBVIOUS
<1>1. CASE NewPress
  BY <1>1, MemoryNewPress
<1>2. CASE ~NewPress
  BY <1>2, RestOfStep DEF Memory, KeyFor
<1> QED BY <1>1, <1>2

LEMMA OnceStep == TypeOK /\ Memory /\ OncePerPress /\ [Next]_vars => OncePerPress'
<1> SUFFICES ASSUME TypeOK, Memory, OncePerPress, [Next]_vars PROVE OncePerPress'
  OBVIOUS
<1>1. CASE NewPress
  <2>1. /\ event \in PressEvent /\ handled \in Seq(PressEvent) /\ Capacity \in Nat \ {0}
        /\ Len(handled) \in Nat /\ Len(recent) \in Nat /\ DOMAIN recent = 1 .. Len(recent)
        /\ handled' = Append(handled, event)
    BY <1>1, DaemonAssumption DEF NewPress, TypeOK, LoopType
  <2>2. /\ DOMAIN handled = 1 .. Len(handled) /\ DOMAIN handled' = 1 .. Len(handled) + 1
        /\ handled'[Len(handled) + 1] = event
        /\ \A i \in 1 .. Len(handled) : handled'[i] = handled[i]
    BY <2>1
  <2>3. ASSUME NEW i \in 1 .. Len(handled), handled[i] = event
        PROVE  Len(handled) + 1 - i > Capacity
    <3> SUFFICES ASSUME Len(handled) + 1 - i <= Capacity PROVE FALSE
      BY <2>1
    <3> DEFINE j == i - (Len(handled) - Len(recent))
    <3>1. j \in 1 .. Len(recent) /\ Len(handled) - Len(recent) + j = i
      <4>1. /\ i \in Int /\ i >= 1 /\ i <= Len(handled) /\ Len(handled) + 1 - i <= Capacity
            /\ Len(handled) \in Int /\ Len(recent) \in Int /\ Capacity \in Int
        BY <2>1
      <4>2. CASE Len(recent) = Len(handled)
        BY <4>1, <4>2
      <4>3. CASE Len(recent) = Capacity
        BY <4>1, <4>3
      <4> QED BY <4>2, <4>3, MemoryLength
    <3>2. recent[j] = KeyFor(event)
      BY <3>1, <2>3 DEF Memory
    <3> QED BY <1>1, <2>1, <3>1, <3>2 DEF NewPress
  <2>4. ASSUME NEW i \in DOMAIN handled', NEW j \in DOMAIN handled', i < j, handled'[i] = handled'[j]
        PROVE  j - i > Capacity
    <3>1. CASE j = Len(handled) + 1
      BY <2>1, <2>2, <2>3, <2>4, <3>1
    <3>2. CASE j # Len(handled) + 1
      BY <2>1, <2>2, <2>4, <3>2 DEF OncePerPress
    <3> QED BY <3>1, <3>2
  <2> QED BY <2>4 DEF OncePerPress
<1>2. CASE ~NewPress
  BY <1>2, RestOfStep DEF OncePerPress
<1> QED BY <1>1, <1>2

(* A press is scanned again only after Capacity other presses were, however *)
(* often and however late its printer repeats it, for every capacity of the *)
(* filter (NotificationDeduper::IsDuplicate).                               *)
THEOREM ScannedOncePerPress == Spec => []OncePerPress
<1>1. Init => Memory /\ OncePerPress
  BY DaemonAssumption DEF Init, Memory, OncePerPress
<1> QED BY <1>1, MemoryStep, OnceStep, TypeCorrect, PTL DEF Spec

-----------------------------------------------------------------------------
(* A press's identity.                                                      *)

\* Nothing but a press makes a press.
LEMMA KnownHandling == TypeOK /\ Handling => \A e : Known(e)' => Known(e)
<1> SUFFICES ASSUME TypeOK, Handling, NEW e, Known(e)' PROVE Known(e)
  OBVIOUS
<1>1. CASE Receive
  <2>1. PICK i \in DOMAIN queue : /\ queue' = RemoveAt(queue, i)
                                  /\ event' = NoEvent \/ event' = queue[i]
    BY <1>1 DEF Receive
  <2>2. \A j \in DOMAIN queue' : \E k \in DOMAIN queue : queue'[j] = queue[k]
    <3>1. queue \in Seq(PressEvent)
      BY DEF TypeOK, WorldType
    <3> QED BY <2>1, <3>1, RemoveAtType
  <2>3. UNCHANGED <<pending, acked, handled>>
    BY <1>1 DEF Receive, handledVars
  <2> QED BY <2>1, <2>2, <2>3 DEF Known
<1>2. CASE Ack
  <2>1. /\ pending \in [Printers -> PressEvent]
        /\ pending' = pending \/ \E h \in Printers \cup {NoHost} : pending' = [pending EXCEPT ![h] = NoEvent]
    <3>1. HostOf(event.from) \in Printers \cup {NoHost}
      BY HostOfType DEF TypeOK, LoopType, PressEvent, HostOf, NoAddress
    <3> QED BY <1>2, <3>1 DEF Ack, TypeOK, WorldType
  <2>2. \A h \in Printers : pending'[h] = pending[h] \/ pending'[h] = NoEvent
    BY <2>1
  <2>3. acked' = acked \cup {event} /\ UNCHANGED <<event, queue, handled>>
    BY <1>2 DEF Ack
  <2> QED BY <2>2, <2>3 DEF Known
<1>3. CASE NewPress
  <2>1. /\ handled' = Append(handled, event) /\ handled \in Seq(PressEvent) /\ event \in PressEvent
        /\ UNCHANGED <<event, queue, pending, acked>>
    BY <1>3 DEF NewPress, TypeOK, LoopType
  <2>2. \A i \in DOMAIN handled' : handled'[i] = event \/ \E k \in DOMAIN handled : handled'[i] = handled[k]
    BY <2>1
  <2> QED BY <2>1, <2>2 DEF Known
<1>4. CASE ReceiveNothing \/ DropUnexpected \/ Duplicate \/ Connect \/ ScanEnds
  <2>1. (event' = event \/ event' = NoEvent) /\ UNCHANGED <<queue, pending, acked, handled>>
    BY <1>4 DEF ReceiveNothing, DropUnexpected, Duplicate, Connect, ScanEnds, handledVars
  <2> QED BY <2>1 DEF Known
<1> QED BY <1>1, <1>2, <1>3, <1>4 DEF Handling

LEMMA KnownTransmit ==
    TypeOK /\ (\E h \in Printers : Transmit(h)) /\ UNCHANGED <<event, handledVars>>
        => \A e : Known(e)' => Known(e)
<1> SUFFICES ASSUME TypeOK, NEW h \in Printers, Transmit(h), UNCHANGED <<event, handledVars>>,
                    NEW e, Known(e)'
             PROVE  Known(e)
  OBVIOUS
<1>1. /\ queue' = Append(queue, pending[h]) /\ queue \in Seq(PressEvent) /\ pending[h] \in PressEvent
      /\ UNCHANGED <<event, pending, acked, handled>>
  BY DEF Transmit, TypeOK, WorldType, handledVars
<1>2. \A i \in DOMAIN queue' : queue'[i] = pending[h] \/ \E k \in DOMAIN queue : queue'[i] = queue[k]
  BY <1>1
<1> QED BY <1>1, <1>2 DEF Known

LEMMA KnownForget ==
    TypeOK /\ (\E h \in Printers : Forget(h)) /\ UNCHANGED <<event, handledVars>>
        => \A e : Known(e)' => Known(e)
<1> SUFFICES ASSUME TypeOK, NEW h \in Printers, Forget(h), UNCHANGED <<event, handledVars>>,
                    NEW e, Known(e)'
             PROVE  Known(e)
  OBVIOUS
<1>1. /\ pending' = [pending EXCEPT ![h] = NoEvent] /\ pending \in [Printers -> PressEvent]
      /\ UNCHANGED <<event, queue, acked, handled>>
  BY DEF Forget, TypeOK, WorldType, handledVars
<1>2. \A g \in Printers : pending'[g] = pending[g] \/ pending'[g] = NoEvent
  BY <1>1
<1> QED BY <1>1, <1>2 DEF Known

\* A press has a number no press of its printer had before it.
LEMMA KnownPress ==
    ASSUME TypeOK, NEW h \in Printers, Press(h), UNCHANGED <<event, handledVars>>
    PROVE  /\ presses' = [presses EXCEPT ![h] = @ + 1]
           /\ pending'[h].seq = presses[h] + 1 /\ HostOf(pending'[h].from) = h
           /\ \A e : Known(e)' => Known(e) \/ e = pending'[h]
<1>1. /\ presses' = [presses EXCEPT ![h] = @ + 1] /\ UNCHANGED <<event, queue, acked, handled>>
      /\ \E r \in RegIds :
            pending' = [pending EXCEPT ![h] = [from |-> Address(h), regid |-> r,
                                               seq |-> presses[h] + 1]]
      /\ pending \in [Printers -> PressEvent] /\ moves \in [Printers -> Nat]
  BY DEF Press, TypeOK, WorldType, handledVars
<1>2. /\ pending'[h].seq = presses[h] + 1 /\ pending'[h].from = Address(h)
      /\ \A g \in Printers : g # h => pending'[g] = pending[g]
  BY <1>1
<1>3. HostOf(pending'[h].from) = h
  BY <1>1, <1>2, AddressType
<1> QED BY <1>1, <1>2, <1>3 DEF Known

LEMMA IdentityPress ==
    TypeOK /\ Identity /\ (\E h \in Printers : Press(h)) /\ UNCHANGED <<event, handledVars>>
        => Identity'
<1> SUFFICES ASSUME TypeOK, Identity, NEW h \in Printers, Press(h), UNCHANGED <<event, handledVars>>
             PROVE  Identity'
  OBVIOUS
<1> DEFINE n == pending'[h]
<1>1. /\ presses' = [presses EXCEPT ![h] = @ + 1] /\ presses \in [Printers -> Nat]
      /\ n.seq = presses[h] + 1 /\ HostOf(n.from) = h
      /\ \A e : Known(e)' => Known(e) \/ e = n
  BY KnownPress DEF TypeOK, WorldType
<1> HIDE DEF n
<1>2. ASSUME NEW e \in PressEvent, Known(e)', e # NoEvent
      PROVE  HostOf(e.from) \in Printers /\ e.seq <= presses'[HostOf(e.from)]
  <2>1. CASE e = n
    BY <1>1, <2>1
  <2>2. CASE Known(e)
    <3>1. HostOf(e.from) \in Printers /\ e.seq <= presses[HostOf(e.from)] /\ e.seq \in Nat
      BY <1>2, <2>2 DEF Identity, PressEvent
    <3>2. presses[HostOf(e.from)] \in Nat
      BY <1>1, <3>1
    <3>3. presses'[HostOf(e.from)] \in {presses[HostOf(e.from)], presses[HostOf(e.from)] + 1}
      BY <1>1, <3>1
    <3> QED BY <3>1, <3>2, <3>3
  <2> QED BY <1>1, <1>2, <2>1, <2>2
<1>3. ASSUME NEW e \in PressEvent, Known(e), SamePress(e, n) PROVE FALSE
  <2>1. HostOf(e.from) = h /\ e.seq = presses[h] + 1 /\ presses[h] \in Nat
    BY <1>1, <1>3 DEF SamePress
  <2>2. e # NoEvent
    <3>1. HostOf(NoEvent.from) \notin Printers
      BY DaemonAssumption DEF NoEvent, NoAddress, HostOf, NoHost
    <3> QED BY <2>1, <3>1
  <2>3. e.seq <= presses[h]
    BY <1>3, <2>1, <2>2 DEF Identity
  <2> QED BY <2>1, <2>3
<1>4. ASSUME NEW e \in PressEvent, NEW f \in PressEvent, Known(e)', Known(f)', SamePress(e, f)
      PROVE  e = f
  <2>1. CASE Known(e) /\ Known(f)
    BY <1>4, <2>1 DEF Identity
  <2>2. CASE Known(e) /\ f = n
    BY <1>3, <1>4, <2>2
  <2>3. CASE Known(f) /\ e = n
    <3>1. SamePress(f, n)
      BY <1>4, <2>3 DEF SamePress
    <3> QED BY <1>3, <2>3, <3>1
  <2> QED BY <1>1, <1>4, <2>1, <2>2, <2>3
<1>5. (\A e \in PressEvent : Known(e)' /\ e # NoEvent =>
          HostOf(e.from) \in Printers /\ e.seq <= presses'[HostOf(e.from)])
  BY <1>2
<1> QED BY <1>4, <1>5 DEF Identity, SamePress

LEMMA IdentityStep == TypeOK /\ Identity /\ [Next]_vars => Identity'
<1> SUFFICES ASSUME TypeOK, Identity, [Next]_vars PROVE Identity'
  OBVIOUS
<1>1. ASSUME \A e : Known(e)' => Known(e), presses' = presses PROVE Identity'
  BY <1>1 DEF Identity
<1>2. CASE UNCHANGED vars \/ Configuring \/ Registering \/ User \/ Tick
  <2>1. UNCHANGED <<event, pending, presses, queue, acked, handled>>
    BY <1>2 DEF vars, Configuring, Registering, User, Tick, printerVars, handledVars
  <2> QED BY <1>1, <2>1 DEF Known
<1>3. CASE Handling
  BY <1>1, <1>3, KnownHandling DEF Handling
<1>4. CASE Printer
  <2>1. UNCHANGED <<event, handledVars>>
    BY <1>4 DEF Printer
  <2>2. (\E h \in Printers : Transmit(h)) => presses' = presses
    BY DEF Transmit
  <2>3. (\E h \in Printers : Forget(h)) => presses' = presses
    BY DEF Forget
  <2> QED BY <1>1, <1>4, <2>1, <2>2, <2>3, KnownTransmit, KnownForget, IdentityPress DEF Printer
<1> QED BY <1>2, <1>3, <1>4 DEF Next, Daemon

\* What the filter takes for a retransmit of a press of its printer is one; or a press of
\* another printer has its REGID and SEQ.
LEMMA DuplicateWasHandled ==
    TypeOK /\ Memory /\ Identity /\ Duplicate =>
        \E i \in DOMAIN handled : handled[i] = event \/ SameNumberElsewhere(handled[i], event)
<1> SUFFICES ASSUME TypeOK, Memory, Identity, Duplicate
             PROVE  \E i \in DOMAIN handled :
                       handled[i] = event \/ SameNumberElsewhere(handled[i], event)
  OBVIOUS
<1>1. /\ recent \in Seq((RegIds \cup {NoHost}) \X Nat) /\ handled \in Seq(PressEvent)
      /\ event \in PressEvent /\ Len(recent) \in Nat /\ Len(handled) \in Nat /\ Capacity \in Nat
  BY DaemonAssumption DEF TypeOK, LoopType
<1>2. PICK i \in DOMAIN recent : recent[i] = KeyFor(event)
  BY DEF Duplicate
<1> DEFINE k == Len(handled) - Len(recent) + i
<1>3. recent[i] = KeyFor(handled[k])
  <2>1. i \in 1 .. Len(recent)
    BY <1>1
  <2> QED BY <2>1 DEF Memory
<1>4. k \in DOMAIN handled
  <2>1. i \in Nat /\ 1 <= i /\ i <= Len(recent) /\ DOMAIN handled = 1 .. Len(handled)
    BY <1>1
  <2> QED BY <1>1, <2>1, MemoryLength
<1> HIDE DEF k
<1>5. handled[k] \in PressEvent /\ Known(handled[k]) /\ Known(event)
  BY <1>1, <1>4 DEF Known
<1>6. handled[k].seq = event.seq /\ handled[k].regid = event.regid
  BY <1>2, <1>3 DEF KeyFor
<1>7. CASE HostOf(handled[k].from) = HostOf(event.from)
  BY <1>1, <1>4, <1>5, <1>6, <1>7 DEF Identity, SamePress
<1>8. CASE HostOf(handled[k].from) # HostOf(event.from)
  BY <1>4, <1>6, <1>8 DEF SameNumberElsewhere
<1> QED BY <1>7, <1>8

LEMMA AckedStep ==
    TypeOK /\ Memory /\ Identity /\ AckedIsHandled /\ [Next]_vars => AckedIsHandled'
<1> SUFFICES ASSUME TypeOK, Memory, Identity, AckedIsHandled, [Next]_vars PROVE AckedIsHandled'
  OBVIOUS
<1>1. CASE Ack
  <2>1. acked' = acked \cup {event} /\ pc' = "dedupe" /\ pc = "check" /\ UNCHANGED <<event, handled>>
    BY <1>1 DEF Ack
  <2> QED BY <2>1 DEF AckedIsHandled
<1>2. CASE NewPress
  <2>1. /\ handled' = Append(handled, event) /\ handled \in Seq(PressEvent) /\ acked' = acked
        /\ Len(handled) \in Nat
    BY <1>2 DEF NewPress, TypeOK, LoopType
  <2>2. /\ \A i \in DOMAIN handled : i \in DOMAIN handled' /\ handled'[i] = handled[i]
        /\ Len(handled) + 1 \in DOMAIN handled' /\ handled'[Len(handled) + 1] = event
    BY <2>1
  <2> QED BY <2>1, <2>2 DEF AckedIsHandled
<1>3. CASE Duplicate
  <2>1. UNCHANGED <<acked, handled>>
    BY <1>3 DEF Duplicate, handledVars
  <2> QED BY <1>3, <2>1, DuplicateWasHandled DEF AckedIsHandled
<1>4. CASE ~Ack /\ ~NewPress /\ ~Duplicate
  <2>1. UNCHANGED <<acked, handled>> /\ (pc = "dedupe" => UNCHANGED <<pc, event>>)
    BY <1>4 DEF Next, Daemon, Configuring, Registering, Handling, User, Printer, Tick, vars,
                handledVars, CheckStop, CheckReload, TryReloadConfig, ReloadFails, Reload,
                RegisterNotDue, BeginRegistration, SendSet, EndRegistration,
                ReceiveNothing, Receive, DropUnexpected, Connect, ScanEnds
  <2> QED BY <2>1 DEF AckedIsHandled
<1> QED BY <1>1, <1>2, <1>3, <1>4

(* A press the daemon has acknowledged was let through, or is at the filter *)
(* now, or shares REGID and SEQ with one that was let through of another    *)
(* printer: what NotificationDeduper::IsDuplicate drops is never another    *)
(* press of the printer it takes it for, for every capacity, and whatever   *)
(* is reloaded, repeated, reordered or lost.                                *)
THEOREM AcknowledgedPressIsHandled == Spec => []AckedIsHandled
<1>1. Init => Memory /\ Identity /\ AckedIsHandled
  <2>1. Init => Memory
    BY DaemonAssumption DEF Init, Memory
  <2>2. Init => \A e : Known(e) => e = NoEvent
    BY DEF Init, Known
  <2>3. Init => acked = {}
    BY DEF Init
  <2> QED BY <2>1, <2>2, <2>3 DEF Identity, AckedIsHandled
<1> QED BY <1>1, MemoryStep, IdentityStep, AckedStep, TypeCorrect, PTL DEF Spec

=============================================================================
