---------------------------- MODULE ButtonDaemon ----------------------------
(***************************************************************************)
(* tools/brscan-scand.mm, the Scan-button daemon: one loop that reloads    *)
(* its configuration, keeps this Mac registered in the printer's Scan menu *)
(* and turns button notifications into scans, with the registrar           *)
(* (daemon/snmp_register.cpp), the sender check (daemon/sender_check.cpp)  *)
(* and the retransmit filter (daemon/notification_deduper.cpp) it calls.   *)
(*                                                                         *)
(* Around the loop: printers that expire registrations, retransmit presses *)
(* and change address, a user who edits the file and signals, a network    *)
(* that loses datagrams and name lookups.  Time is counted in ticks.       *)
(***************************************************************************)
EXTENDS Integers, Sequences, SequencesExt

CONSTANTS
    Printers,       \* printer host names
    FirstHosts,     \* those the daemon may start with
    Funcs,          \* cfg.register_funcs
    ReregisterSec,  \* kReregisterIntervalSec
    DurationSec,    \* kDefaultRegistrationDurationSec
    RefreshSec,     \* kResolveRefreshSec
    Capacity,       \* NotificationDeduper's capacity
    RegIds,         \* REGIDs a printer tags its presses with
    MaxPresses, MaxCopies, MaxQueue, MaxEdits, MaxMoves,    \* bounds on the environment,
    MaxEvents       \* and on presses, edits and moves together, of which an edit or a
                    \* move counts as two presses

ASSUME DaemonAssumption ==
    /\ "none" \notin Printers /\ FirstHosts \subseteq Printers
    /\ ReregisterSec \in Nat \ {0} /\ DurationSec \in Nat /\ RefreshSec \in Nat \ {0}
    /\ ReregisterSec < DurationSec
    /\ Capacity \in Nat \ {0}
    /\ MaxPresses \in Nat /\ MaxCopies \in Nat /\ MaxQueue \in Nat
    /\ MaxEdits \in Nat /\ MaxMoves \in Nat /\ MaxEvents \in Nat

VARIABLES
    pc,
    cfg, cache, needsResolve, nextRegister, nextRefresh,    \* the loop's locals; the two
                                                            \* deadlines count down
    loaded, unsent, recent, event,          \* the config just read, Sets of this cycle,
                                            \* recent_, the press at hand
    file, owed, hup, stop, edits,           \* the config file, SIGHUP still to come, flags
    moves, pending, presses, copies, queue, \* printers' addresses and presses, the UDP socket
    lease, arrived,                         \* registrations; those of the last cycle
    acked, handled                          \* what became of the presses

lookupVars == <<cfg, cache, needsResolve, nextRegister, nextRefresh>>
userVars == <<file, owed, hup, stop, edits>>
printerVars == <<moves, pending, presses, copies>>
leaseVars == <<lease, arrived>>
handledVars == <<recent, acked, handled>>
vars == <<pc, loaded, lookupVars, unsent, event, userVars, printerVars, queue, leaseVars,
          handledVars>>

-----------------------------------------------------------------------------

Address(h) == <<h, moves[h]>>
HostOf(address) == address[1]

NoHost == "none"
NoAddress == <<NoHost, 0>>
NoEvent == [from |-> NoAddress, regid |-> NoHost, seq |-> 0]

\* SnmpRegistrar's host and endpoint, cached_local_ip (as the host it was looked up for) and
\* allowed_sender_ips.
NotResolved(h) == [host |-> h, endpoint |-> NoAddress, local |-> NoHost, allowed |-> {}]

-----------------------------------------------------------------------------
(* The loop: stop and reload.                                               *)

\* while (g_stop_requested == 0)
CheckStop ==
    /\ pc = "top" /\ stop
    /\ pc' = "exit"
    /\ UNCHANGED <<loaded, lookupVars, userVars>>

\* The reload flag is cleared before the file is read.
CheckReload ==
    /\ pc = "top" /\ ~stop
    /\ pc' = IF hup THEN "reload" ELSE "register"
    /\ hup' = FALSE
    /\ UNCHANGED <<loaded, lookupVars, file, owed, stop, edits>>

\* LoadConfig reads the file; the loop goes on with what it read, NoHost if that has no usable
\* printer_host.
TryReloadConfig ==
    /\ pc = "reload"
    /\ loaded' = file
    /\ pc' = "reloaded"
    /\ UNCHANGED <<lookupVars, userVars>>

\* The previous settings stay.
ReloadFails ==
    /\ pc = "reloaded" /\ loaded = NoHost
    /\ pc' = "register"
    /\ UNCHANGED <<loaded, lookupVars, userVars>>

\* A changed host gets a registrar of its own.
RegistrarFor(h) ==
    IF cache.host = h THEN cache ELSE [cache EXCEPT !.host = h, !.endpoint = NoAddress]

\* Mutant: a new printer waits for the next cycle to be looked up.
ReloadWithoutResolve ==
    /\ pc = "reloaded" /\ loaded # NoHost
    /\ cfg' = loaded
    /\ loaded' = NoHost
    /\ pc' = "register"
    /\ UNCHANGED <<cache, needsResolve, nextRegister, nextRefresh, userVars>>

\* Mutant: the flag is cleared once the new settings are in force.
ReloadThenClear ==
    /\ pc = "reloaded" /\ loaded # NoHost
    /\ cfg' = loaded /\ cache' = RegistrarFor(loaded)
    /\ needsResolve' = TRUE /\ nextRegister' = 0
    /\ loaded' = NoHost /\ pc' = "register"
    /\ hup' = FALSE
    /\ UNCHANGED <<nextRefresh, file, owed, stop, edits>>

\* The new settings are looked up and registered at once.
Reload ==
    /\ pc = "reloaded" /\ loaded # NoHost
    /\ cfg' = loaded
    /\ cache' = RegistrarFor(loaded)
    /\ needsResolve' = TRUE
    /\ nextRegister' = 0
    /\ loaded' = NoHost
    /\ pc' = "register"
    /\ UNCHANGED <<nextRefresh, userVars>>

Configuring ==
    /\ CheckStop \/ CheckReload \/ TryReloadConfig \/ ReloadFails \/ Reload
    /\ UNCHANGED <<unsent, event, printerVars, queue, leaseVars, handledVars>>

-----------------------------------------------------------------------------
(* The loop: registration.                                                  *)

RegisterDue == nextRegister <= 0

RegisterNotDue ==
    /\ pc = "register" /\ ~RegisterDue
    /\ pc' = "receive"
    /\ UNCHANGED <<lookupVars, unsent, leaseVars>>

\* Mutant: the lookups are refreshed only after a failure.
ResolveDueOnFailure == needsResolve

ResolveDue == needsResolve \/ nextRefresh <= 0

\* InvalidateCache, LocalIpForPeer, ResolveHostIps; either lookup may fail by itself.
BeginRegistration ==
    /\ pc = "register" /\ RegisterDue
    /\ \/ /\ ResolveDue
          /\ \E local \in {cfg, NoHost}, allowed \in {{Address(cfg)}, {}} :
                cache' = [cache EXCEPT !.endpoint = NoAddress, !.local = local,
                                       !.allowed = allowed]
          /\ nextRefresh' = RefreshSec
          /\ needsResolve' = FALSE
       \/ /\ ~ResolveDue
          /\ UNCHANGED <<cache, nextRefresh, needsResolve>>
    /\ pc' = "send"
    /\ unsent' = Funcs
    /\ arrived' = {}
    /\ UNCHANGED <<cfg, nextRegister, lease>>

\* SnmpRegistrar::Send of one FUNC: resolve if the endpoint is not cached, send, and drop the
\* endpoint if either fails.  A Set that left counts as sent whether or not it arrives.
SendSet ==
    /\ pc = "send" /\ cache.local # NoHost
    /\ \E f \in unsent :
          /\ unsent' = unsent \ {f}
          /\ \/ /\ cache' = [cache EXCEPT !.endpoint = NoAddress]
                /\ needsResolve' = TRUE
                /\ UNCHANGED leaseVars
             \/ LET to == IF cache.endpoint = NoAddress
                          THEN Address(cache.host) ELSE cache.endpoint
                IN /\ cache' = [cache EXCEPT !.endpoint = to]
                   /\ \/ UNCHANGED leaseVars
                      \/ /\ to = Address(HostOf(to))
                         /\ lease' = [lease EXCEPT ![HostOf(to)][f] = DurationSec]
                         /\ arrived' = arrived \cup {<<HostOf(to), f>>}
                   /\ UNCHANGED needsResolve
    /\ UNCHANGED <<pc, cfg, nextRegister, nextRefresh>>

\* Mutant: the next registration is due when this one runs out.
EndRegistrationAtExpiry ==
    /\ pc = "send"
    /\ cache.local = NoHost \/ unsent = {}
    /\ needsResolve' = (needsResolve \/ cache.local = NoHost)
    /\ nextRegister' = DurationSec /\ pc' = "receive" /\ unsent' = {}
    /\ UNCHANGED <<cfg, cache, nextRefresh, leaseVars>>

\* No local address to advertise skips the round.  The next one is kReregisterIntervalSec
\* away whatever became of this one.
EndRegistration ==
    /\ pc = "send"
    /\ cache.local = NoHost \/ unsent = {}
    /\ needsResolve' = (needsResolve \/ cache.local = NoHost)
    /\ nextRegister' = ReregisterSec
    /\ pc' = "receive"
    /\ unsent' = {}
    /\ UNCHANGED <<cfg, cache, nextRefresh, leaseVars>>

Registering ==
    /\ RegisterNotDue \/ BeginRegistration \/ SendSet \/ EndRegistration
    /\ UNCHANGED <<loaded, event, userVars, printerVars, queue, handledVars>>

-----------------------------------------------------------------------------
(* The loop: one notification.                                              *)

\* Mutant: Receive waits until something comes.
ReceiveNothingBlocks ==
    /\ pc = "receive" /\ RegisterDue
    /\ pc' = IF stop THEN "exit" ELSE "top"
    /\ UNCHANGED <<event, queue, pending, handledVars>>

\* A datagram that does not parse, an I/O error or a second without any; the stop flag is
\* looked at whenever Receive returns.
ReceiveNothing ==
    /\ pc = "receive"
    /\ pc' = IF stop THEN "exit" ELSE "top"
    /\ UNCHANGED <<event, queue, pending, handledVars>>

\* UDP keeps no order.  With no time left before the next registration Receive does not look
\* at the socket.
Receive ==
    /\ pc = "receive" /\ ~RegisterDue
    /\ \E i \in DOMAIN queue :
          /\ queue' = RemoveAt(queue, i)
          /\ event' = IF stop THEN NoEvent ELSE queue[i]
    /\ pc' = IF stop THEN "exit" ELSE "check"
    /\ UNCHANGED <<pending, handledVars>>

\* An empty list means the lookup failed, and lets every sender through.
IsAllowedSender == cache.allowed = {} \/ event.from \in cache.allowed

DropUnexpected ==
    /\ pc = "check" /\ ~IsAllowedSender
    /\ pc' = "top"
    /\ event' = NoEvent
    /\ UNCHANGED <<queue, pending, handledVars>>

\* The echo stops the printer's retransmits, if it arrives.
Ack ==
    /\ pc = "check" /\ IsAllowedSender
    /\ LET h == HostOf(event.from) IN
       pending' \in {pending} \cup
           IF Address(h) = event.from /\ pending[h] = event
           THEN {[pending EXCEPT ![h] = NoEvent]} ELSE {}
    /\ acked' = acked \cup {event}
    /\ pc' = "dedupe"
    /\ UNCHANGED <<event, queue, recent, handled>>

\* Mutant: REGID alone identifies a press.
KeyForRegidOnly(e) == <<e.regid>>

KeyFor(e) == <<e.regid, e.seq>>

Duplicate ==
    /\ pc = "dedupe"
    /\ \E i \in DOMAIN recent : recent[i] = KeyFor(event)
    /\ pc' = "top"
    /\ event' = NoEvent
    /\ UNCHANGED <<queue, pending, handledVars>>

\* Mutant: the oldest press is forgotten one too early.
RememberedTooFew(s) == IF Len(s) >= Capacity THEN Tail(s) ELSE s

\* push_back, then pop_front past the capacity.
Remembered(s) == IF Len(s) > Capacity THEN Tail(s) ELSE s

\* A press is recorded before the connection is tried.
NewPress ==
    /\ pc = "dedupe"
    /\ \A i \in DOMAIN recent : recent[i] # KeyFor(event)
    /\ recent' = Remembered(Append(recent, KeyFor(event)))
    /\ handled' = Append(handled, event)
    /\ pc' = "connect"
    /\ UNCHANGED <<event, queue, pending, acked>>

Connect ==
    /\ pc = "connect"
    /\ \/ pc' = "scan" /\ UNCHANGED event
       \/ pc' = "top" /\ event' = NoEvent
    /\ UNCHANGED <<queue, pending, handledVars>>

\* HandleButtonEvent returns or throws; the loop carries on either way.
ScanEnds ==
    /\ pc = "scan"
    /\ pc' = "top"
    /\ event' = NoEvent
    /\ UNCHANGED <<queue, pending, handledVars>>

Handling ==
    /\ \/ ReceiveNothing \/ Receive \/ DropUnexpected \/ Ack
       \/ Duplicate \/ NewPress \/ Connect \/ ScanEnds
    /\ UNCHANGED <<loaded, lookupVars, unsent, userVars, moves, presses, copies, leaseVars>>

Daemon == Configuring \/ Registering \/ Handling

-----------------------------------------------------------------------------
(* Around the loop.                                                         *)

EventsLeft(n) ==
    FoldFunction(+, 0, presses) + 2 * (edits + FoldFunction(+, 0, moves)) + n <= MaxEvents

\* The file is replaced as a whole, then the daemon is signalled.
SaveFile ==
    /\ edits < MaxEdits /\ EventsLeft(2)
    /\ edits' = edits + 1
    /\ file' \in Printers \cup {NoHost}
    /\ owed' = TRUE
    /\ UNCHANGED <<hup, stop>>

\* HandleReloadSignal
SignalReload ==
    /\ owed
    /\ hup' = TRUE
    /\ owed' = FALSE
    /\ UNCHANGED <<file, stop, edits>>

\* HandleStopSignal
SignalStop ==
    /\ ~stop
    /\ stop' = TRUE
    /\ UNCHANGED <<file, owed, hup, edits>>

User ==
    /\ SaveFile \/ SignalReload \/ SignalStop
    /\ UNCHANGED <<pc, loaded, lookupVars, unsent, event, printerVars, queue, leaseVars,
                   handledVars>>

\* Registrations run out while the daemon waits for a press or is busy with one.
Tick ==
    /\ \/ pc = "receive" /\ ~RegisterDue
       \/ pc \in {"connect", "scan"}
    /\ nextRegister' = IF nextRegister > 0 THEN nextRegister - 1 ELSE 0
    /\ nextRefresh' = IF nextRefresh > -ReregisterSec THEN nextRefresh - 1 ELSE nextRefresh
    /\ lease' = [h \in Printers |-> [f \in Funcs |-> IF lease[h][f] > 0 THEN lease[h][f] - 1
                                                      ELSE 0]]
    /\ UNCHANGED <<pc, loaded, cfg, cache, needsResolve, unsent, event, userVars, printerVars,
                   queue, arrived, handledVars>>

\* The button is pressed on a printer whose menu lists this Mac.  SEQ increments per press,
\* and each printer counts its own: two printers may well send the same REGID and SEQ.
Press(h) ==
    /\ \E f \in Funcs : lease[h][f] > 0
    /\ pending[h] = NoEvent /\ presses[h] < MaxPresses /\ EventsLeft(1)
    /\ presses' = [presses EXCEPT ![h] = @ + 1]
    /\ \E r \in RegIds :
          pending' = [pending EXCEPT
                        ![h] = [from |-> Address(h), regid |-> r, seq |-> presses[h] + 1]]
    /\ copies' = 0
    /\ UNCHANGED <<moves, queue>>

Transmit(h) ==
    /\ pending[h] # NoEvent
    /\ copies < MaxCopies /\ Len(queue) < MaxQueue
    /\ copies' = copies + 1
    /\ queue' = Append(queue, pending[h])
    /\ UNCHANGED <<moves, pending, presses>>

\* The printer gives up on the press, or comes back under a new address without it.
Forget(h) ==
    /\ pending[h] # NoEvent \/ (moves[h] < MaxMoves /\ EventsLeft(2))
    /\ pending' = [pending EXCEPT ![h] = NoEvent]
    /\ \/ UNCHANGED moves
       \/ moves[h] < MaxMoves /\ EventsLeft(2) /\ moves' = [moves EXCEPT ![h] = @ + 1]
    /\ UNCHANGED <<presses, copies, queue>>

Printer ==
    /\ \E h \in Printers : Press(h) \/ Transmit(h) \/ Forget(h)
    /\ UNCHANGED <<pc, loaded, lookupVars, unsent, event, userVars, leaseVars, handledVars>>

-----------------------------------------------------------------------------

Init ==
    /\ pc = "top"
    /\ cfg \in FirstHosts /\ file = cfg
    /\ cache = NotResolved(cfg) /\ needsResolve = TRUE
    /\ nextRegister = 0 /\ nextRefresh = 0
    /\ loaded = NoHost /\ unsent = {} /\ recent = <<>> /\ event = NoEvent
    /\ owed = FALSE /\ hup = FALSE /\ stop = FALSE /\ edits = 0
    /\ moves = [h \in Printers |-> 0] /\ pending = [h \in Printers |-> NoEvent]
    /\ presses = [h \in Printers |-> 0] /\ copies = 0 /\ queue = <<>>
    /\ lease = [h \in Printers |-> [f \in Funcs |-> 0]] /\ arrived = {}
    /\ acked = {} /\ handled = <<>>

Next == Daemon \/ User \/ Printer \/ Tick

\* The loop keeps running, a lookup and a scan return, a saved file is signalled.
Spec == Init /\ [][Next]_vars /\ WF_vars(Daemon) /\ WF_vars(SignalReload /\ User)

-----------------------------------------------------------------------------

\* Everything the loop has looked up belongs to the printer it is configured for, from the
\* moment it registers or waits for a press, whatever was reloaded before.
CachesFollowConfig ==
    pc \in {"send", "receive", "check", "dedupe", "connect", "scan"} =>
        /\ cache.host = cfg
        /\ cache.local \in {cfg, NoHost}
        /\ HostOf(cache.endpoint) \in {cfg, NoHost}
        /\ \A address \in cache.allowed : HostOf(address) = cfg

\* A registration that reached a printer is still alive whenever the daemon sits waiting for
\* a press: however long the last scan took, it registers anew before it waits.
WaitsRegistered == pc = "receive" => \A r \in arrived : lease[r[1]][r[2]] > 0

\* The daemon never waits on addresses older than the refresh interval and one cycle, so a
\* printer's move that fails no send is noticed.
AddressesAreFresh == pc = "receive" => nextRefresh > -ReregisterSec

\* A press scans the printer it was made on, unless the sender check was without addresses.
ScansThePressedPrinter == pc = "scan" /\ cache.allowed # {} => HostOf(event.from) = cfg

\* Presses of two printers with one REGID and SEQ.
SameNumberElsewhere(e, f) ==
    /\ HostOf(e.from) # HostOf(f.from)
    /\ e.regid = f.regid /\ e.seq = f.seq

\* A press is handled again only after Capacity other presses: its retransmits, whenever they
\* arrive, are not scans of their own.
OncePerPress ==
    \A i, j \in DOMAIN handled : i < j /\ handled[i] = handled[j] => j - i > Capacity

\* A press is acknowledged only to be handled: the filter never takes a press for a
\* retransmit of another press of its printer.  Between printers it can: KeyFor leaves the
\* sender out and the filter outlives a reload, so the press that has the REGID and SEQ of one
\* the printer before it made is acknowledged and dropped.
AckedIsHandled ==
    \A e \in acked :
        \/ \E i \in DOMAIN handled : handled[i] = e
        \/ pc = "dedupe" /\ event = e
        \/ \E i \in DOMAIN handled : SameNumberElsewhere(handled[i], e)

\* A configuration saved and signalled is the one the daemon ends up with, also when it is
\* saved while an earlier one is being reloaded or during a scan.
ReloadTakesEffect == <>[](pc = "exit" \/ file = NoHost \/ cfg = file)

\* SIGTERM ends the daemon, a press at hand or not.
StopExits == stop ~> pc = "exit"

=============================================================================
