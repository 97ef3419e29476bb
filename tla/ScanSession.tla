---------------------------- MODULE ScanSession -----------------------------
(***************************************************************************)
(* libbrscan/scanner.cpp, RunScan and RunButtonScan: one scan over an open *)
(* connection, from the greeting (session.cpp) through the commands and    *)
(* their replies to the readout (RunReadout) and the return.  Two replies  *)
(* have no length; the framer reads them until the stream goes quiet.      *)
(*                                                                         *)
(* A reply is a sequence of parts, which TCP delivers in any groups.  The  *)
(* readouts proper are their contract (PageDelivery), as a single step.    *)
(***************************************************************************)
EXTENDS Integers, Sequences, SequencesExt

CONSTANT SplitGreeting  \* may the greeting's line end come apart from its first 7 bytes?

ASSUME SessionAssumption == SplitGreeting \in BOOLEAN

VARIABLES
    entry, source,      \* RunScan or RunButtonScan; params.source
    usable,             \* does params_from_config accept the configuration?
    manners, busy, feeder,              \* the device, see Init
    link, toSend, wire,                 \* the connection: parts not sent, parts not read
    pc, cmds, buf, status, out          \* the caller's thread; out counts pages

call == <<entry, source, usable>>
device == <<manners, busy, feeder>>
vars == <<call, device, link, toSend, wire, pc, cmds, buf, status, out>>

-----------------------------------------------------------------------------
(* The device and the connection.                                           *)

\* first: no part of this reply precedes it.
Part(reply, what, first) == [reply |-> reply, what |-> what, first |-> first]
Reply(reply, what) == <<Part(reply, what, TRUE), Part(reply, "rest", FALSE)>>
Lone(reply, what) == <<Part(reply, what, TRUE)>>

\* "hello" is the first seven bytes, "rest" the end of the line.
Greeting(what) ==
    IF SplitGreeting THEN Reply("greeting", what) ELSE Lone("greeting", what)

Replies == {"greeting", "caps", "config", "ack", "offer", "image"}
Whats == {"ok", "busy", "rest", "loaded", "empty", "jam", "stop", "junk"}
StreamPart == [reply : Replies, what : Whats, first : BOOLEAN]

\* A feeder that jams or is stopped sends a lone byte in place of an image; an image may begin
\* with the same byte.
Image ==
    IF source = "adf" /\ feeder \in {"jam", "stop"} THEN {Lone("image", feeder)}
    ELSE {Reply("image", lead) : lead \in {"ok", "jam", "stop"}}

\* What a command is answered with; a garbled device may send something else.
Answer(cmd) ==
    LET proper ==
          CASE cmd = "Q" -> Reply("caps", "ok")
            [] cmd = "K" -> Reply("config", "ok")
            [] cmd = "S" -> Reply("ack", "ok")
            [] cmd = "D" -> IF feeder = "empty" THEN Lone("ack", "empty")
                            ELSE Reply("ack", "loaded")
            [] OTHER -> Reply("offer", "ok")
        junk == Lone(Head(proper).reply, "junk")
    IN IF cmd = "X" THEN Image ELSE {proper} \cup IF manners = "garbled" THEN {junk} ELSE {}

Deliver ==
    /\ link = "up"
    /\ \E n \in 1 .. Len(toSend) :
          /\ wire' = wire \o SubSeq(toSend, 1, n)
          /\ toSend' = SubSeq(toSend, n + 1, Len(toSend))
    /\ UNCHANGED link

LinkFails ==
    /\ link = "up"
    /\ link' \in {"silent", "closed"}
    /\ UNCHANGED <<wire, toSend>>

Device ==
    /\ Deliver \/ LinkFails
    /\ UNCHANGED <<call, device, pc, cmds, buf, status, out>>

-----------------------------------------------------------------------------
(* The framer.                                                              *)

\* Transport::Read returns what has arrived.
Fill ==
    /\ wire # <<>>
    /\ buf' = buf \o wire
    /\ wire' = <<>>
    /\ UNCHANGED <<pc, cmds, toSend, status, out>>

Closed == wire = <<>> /\ link = "closed"

\* A read with kAckTimeoutMs or kScanTimeoutMs times out only if nothing is to come.
TimesOut == wire = <<>> /\ (link = "silent" \/ (link = "up" /\ toSend = <<>>))

\* One with a short window also before the first part of a reply, and with a late device
\* anywhere.
GoesQuiet ==
    \/ TimesOut
    \/ /\ wire = <<>> /\ link = "up" /\ toSend # <<>>
       /\ Head(toSend).first \/ manners = "late"

-----------------------------------------------------------------------------
(* The caller's thread.                                                     *)

Return(s) ==
    /\ pc' = "return"
    /\ status' = s
    /\ UNCHANGED <<cmds, toSend, wire, buf, out>>

\* A read fails: the connection closed, or a deadline passed.
ReadFails ==
    \/ Closed /\ Return("io")
    \/ TimesOut /\ Return("timeout")

\* Bytes of another reply, or garbled ones, where a framed reply should be do not parse; when
\* they hold a length that never comes the read fails.
Misread(reply) == buf # <<>> /\ Head(buf) # Part(reply, "ok", TRUE) /\ Return("protocol")

\* send(); a closed connection may fail the write.
SendCommand(cmd, next) ==
    \/ link = "closed" /\ Return("io")
    \/ /\ cmds' = Append(cmds, cmd)
       /\ \E answer \in Answer(cmd) : toSend' = toSend \o answer
       /\ pc' = next
       /\ UNCHANGED <<wire, buf, status, out>>

\* Mutant: the greeting is waited for without a deadline.
OpenWaits ==
    /\ pc = "open" /\ wire # <<>>
    /\ wire' = <<>>
    /\ \/ Head(wire).what = "ok" /\ pc' = "query" /\ UNCHANGED status
       \/ Head(wire).what = "busy" /\ pc' = "return" /\ status' = "busy"
       \/ Head(wire).what = "junk" /\ pc' = "return" /\ status' = "protocol"
    /\ UNCHANGED <<cmds, toSend, buf, out>>

\* Session::Open stops at a line end or seven bytes, and keeps nothing of what it read.
Open ==
    /\ pc = "open"
    /\ \/ ReadFails
       \/ /\ wire # <<>>
          /\ wire' = <<>>
          /\ \/ Head(wire).what = "ok" /\ pc' = "query" /\ UNCHANGED status
             \/ Head(wire).what = "busy" /\ pc' = "return" /\ status' = "busy"
             \/ Head(wire).what = "junk" /\ pc' = "return" /\ status' = "protocol"
          /\ UNCHANGED <<cmds, toSend, buf, out>>

Query ==
    /\ pc = "query"
    /\ IF entry = "scan" THEN SendCommand("Q", "capsFirst") ELSE SendCommand("K", "config")

\* DrainQuiet: the first part is waited for, further ones until the stream goes quiet.
DrainFirst(at, next) ==
    /\ pc = at
    /\ \/ ReadFails
       \/ /\ wire # <<>>
          /\ buf' = buf \o wire
          /\ wire' = <<>>
          /\ pc' = next
          /\ UNCHANGED <<cmds, toSend, status, out>>

DrainRest(at, next) ==
    /\ pc = at
    /\ \/ Fill
       \/ Closed /\ Return("io")
       \/ /\ GoesQuiet
          /\ buf' = <<>>
          /\ pc' = next
          /\ UNCHANGED <<cmds, toSend, wire, status, out>>

DrainCaps == DrainFirst("capsFirst", "capsRest") \/ DrainRest("capsRest", "select")

\* Mutant: the flatbed is always selected first.
SelectSourceTwice ==
    /\ pc = "select"
    /\ cmds' = cmds \o (IF source = "adf" THEN <<"S", "D">> ELSE <<"S">>)
    /\ \E answer \in Answer(Last(cmds')) : toSend' = toSend \o answer
    /\ pc' = IF source = "adf" THEN "feederAck" ELSE "ackFirst"
    /\ UNCHANGED <<wire, buf, status, out>>

\* Exactly one of ESC S and ESC D.
SelectSource ==
    /\ pc = "select"
    /\ IF source = "adf" THEN SendCommand("D", "feederAck") ELSE SendCommand("S", "ackFirst")

\* Mutant: the acknowledgement is drained without a look at it.
FeederAckUnread ==
    /\ pc = "feederAck"
    /\ \/ Fill
       \/ Closed /\ Return("io")
       \/ buf = <<>> /\ TimesOut /\ Return("noPaper")
       \/ buf # <<>> /\ pc' = "ackRest" /\ UNCHANGED <<cmds, toSend, wire, buf, status, out>>

\* Peek(1) of the feeder's acknowledgement: none at all counts as no paper.
FeederAck ==
    /\ pc = "feederAck"
    /\ \/ buf = <<>> /\ Fill
       \/ buf = <<>> /\ Closed /\ Return("io")
       \/ buf = <<>> /\ TimesOut /\ Return("noPaper")
       \/ buf # <<>> /\ Head(buf).what \in {"empty", "rest", "junk"} /\ Return("noPaper")
       \/ buf # <<>> /\ Head(buf).what # "empty" /\ pc' = "ackRest"
          /\ UNCHANGED <<cmds, toSend, wire, buf, status, out>>

\* DrainQuiet for the flatbed, DrainBufferedQuiet for the feeder.
DrainAck == DrainFirst("ackFirst", "ackRest") \/ DrainRest("ackRest", "info")

\* The button's configuration frame carries its length; the callback may reject it.
Config ==
    /\ pc = "config"
    /\ \/ Fill
       \/ Len(buf) < 2 /\ ReadFails
       \/ Misread("config")
       \/ buf = Reply("config", "ok") /\ ~usable /\ Return("protocol")
       \/ /\ buf = Reply("config", "ok") /\ usable
          /\ buf' = <<>>
          /\ pc' = "info"
          /\ UNCHANGED <<cmds, toSend, wire, status, out>>

Info == pc = "info" /\ SendCommand("I", "offer")

\* Mutant: the text behind the length is left for later.
OfferUnread ==
    /\ pc = "offer"
    /\ \/ Fill
       \/ /\ buf # <<>> /\ Head(buf) = Part("offer", "ok", TRUE)
          /\ buf' = Tail(buf)
          /\ pc' = "execute"
          /\ UNCHANGED <<cmds, toSend, wire, status, out>>

\* ReadOfferReply: status, length and text, read by count.
Offer ==
    /\ pc = "offer"
    /\ \/ Fill
       \/ buf # Reply("offer", "ok") /\ ReadFails
       \/ Misread("offer")
       \/ /\ buf = Reply("offer", "ok")
          /\ buf' = <<>>
          /\ pc' = "execute"
          /\ UNCHANGED <<cmds, toSend, wire, status, out>>

Execute ==
    /\ pc = "execute"
    /\ SendCommand("X", IF source = "adf" THEN "lead" ELSE "readout")

\* RunReadout looks at the first byte of a feeder job.
Lead ==
    /\ pc = "lead"
    /\ \/ buf = <<>> /\ (Fill \/ ReadFails)
       \/ /\ buf # <<>>
          /\ pc' = IF Head(buf).what \in {"jam", "stop"} THEN "confirm" ELSE "readout"
          /\ UNCHANGED <<cmds, toSend, wire, buf, status, out>>

\* Mutant: the value of the byte is enough.
ConfirmAtOnce ==
    /\ pc = "confirm"
    /\ Return(IF Head(buf).what = "jam" THEN "paperJam" ELSE "cancelled")

\* Peek(2): only a byte that stays alone is a jam or a stop.
Confirm ==
    /\ pc = "confirm"
    /\ \/ Len(buf) = 1 /\ (Fill \/ (Closed /\ Return("io")))
       \/ /\ Len(buf) = 1 /\ GoesQuiet
          /\ Return(IF Head(buf).what = "jam" THEN "paperJam" ELSE "cancelled")
       \/ Len(buf) > 1 /\ pc' = "readout" /\ UNCHANGED <<cmds, toSend, wire, buf, status, out>>

\* RunColorScan, RunRlengthScan or the raw gray loop, which collects pages as it reads them.
\* Only RunScan has a callback that can cancel.
Readout ==
    /\ pc = "readout"
    /\ \/ status' = "ok" /\ out' = 1
       \/ status' = "cancelled" /\ entry = "scan" /\ out' \in {0, 1}
       \/ status' \in {"timeout", "io", "protocol"} /\ out' \in {0, 1}
    /\ pc' = "return"
    /\ UNCHANGED <<cmds, toSend, wire, buf>>

\* What is kept of the results.
ReturnToCaller ==
    /\ pc = "return"
    /\ pc' = "done"
    /\ out' = IF status = "ok" \/ (status = "cancelled" /\ entry = "scan") THEN out ELSE 0
    /\ UNCHANGED <<cmds, toSend, wire, buf, status>>

Caller ==
    /\ \/ Open \/ Query \/ DrainCaps \/ SelectSource \/ FeederAck \/ DrainAck \/ Config
       \/ Info \/ Offer \/ Execute \/ Lead \/ Confirm \/ Readout \/ ReturnToCaller
    /\ UNCHANGED <<call, device, link>>

-----------------------------------------------------------------------------

\* A device with good manners sends a reply without a pause as long as the idle window; a late
\* one does not, a garbled one may send other bytes.  A job of the button starts with paper in
\* the feeder.
Init ==
    /\ entry \in {"scan", "button"} /\ source \in {"flatbed", "adf"} /\ usable \in BOOLEAN
    /\ manners \in {"good", "late", "garbled"} /\ busy \in BOOLEAN
    /\ feeder \in {"loaded", "empty", "jam", "stop"}
    /\ source = "flatbed" => feeder = "loaded"
    /\ entry = "button" => feeder # "empty"
    /\ entry = "scan" => usable
    /\ link = "up" /\ wire = <<>>
    /\ toSend \in {Greeting(IF busy THEN "busy" ELSE "ok")}
         \cup (IF manners = "garbled" THEN {Greeting("junk")} ELSE {})
    /\ pc = "open" /\ cmds = <<>> /\ buf = <<>> /\ status = "running" /\ out = 0

Next == (pc # "done" /\ Device) \/ Caller

\* Every read has a deadline; the connection delivers what is sent, or fails.
Spec == Init /\ [][Next]_vars /\ WF_vars(Caller) /\ WF_vars(pc # "done" /\ Device)

-----------------------------------------------------------------------------

Flows == {<<"Q", "S", "I", "X">>, <<"Q", "D", "I", "X">>, <<"K", "I", "X">>}

\* Types of every variable; the commands are those of one of the three flows.
TypeOK ==
    /\ entry \in {"scan", "button"} /\ source \in {"flatbed", "adf"} /\ usable \in BOOLEAN
    /\ manners \in {"good", "late", "garbled"} /\ busy \in BOOLEAN
    /\ feeder \in {"loaded", "empty", "jam", "stop"}
    /\ link \in {"up", "silent", "closed"}
    /\ toSend \in Seq(StreamPart) /\ wire \in Seq(StreamPart) /\ buf \in Seq(StreamPart)
    /\ pc \in {"open", "query", "capsFirst", "capsRest", "select", "feederAck", "ackFirst",
               "ackRest", "config", "info", "offer", "execute", "lead", "confirm", "readout",
               "return", "done"}
    /\ \E flow \in Flows : IsPrefix(cmds, flow)
    /\ status \in {"running", "ok", "io", "protocol", "busy", "noPaper", "cancelled", "timeout",
                   "paperJam"}
    /\ out \in {0, 1}

\* From ESC X on, nothing of an earlier reply stands in front of the image data, also when a
\* device pauses for longer than the idle window and replies run into each other.
ReadoutStartsClean ==
    pc \in {"lead", "confirm", "readout"} =>
        \A s \in {buf, wire, toSend} : \A i \in DOMAIN s : s[i].reply = "image"

\* An empty feeder is never scanned: the device would scan the glass instead.
EmptyFeederIsLeftAlone ==
    manners = "good" /\ source = "adf" /\ feeder = "empty" => ~Contains(cmds, "X")

\* On a device with good manners and a connection that stays up the status is what the device
\* said: busy, no paper, a jam, a stop, an unusable configuration, or how the readout went.
StatusIsTheDevices ==
    pc = "done" /\ manners = "good" /\ link = "up" =>
        CASE busy -> status = "busy"
          [] ~busy /\ ~usable -> status = "protocol"
          [] ~busy /\ usable /\ source = "adf" /\ feeder = "empty" -> status = "noPaper"
          [] ~busy /\ usable /\ source = "adf" /\ feeder \in {"jam", "stop"} ->
                status = (IF feeder = "jam" THEN "paperJam" ELSE "cancelled")
          [] OTHER -> /\ Contains(cmds, "X") /\ status \notin {"busy", "noPaper", "paperJam"}
                      /\ status = "cancelled" => entry = "scan"

\* The scan returns, whatever the device does.
SessionEnds == <>(pc = "done")

=============================================================================
