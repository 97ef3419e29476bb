------------------------- MODULE ScanSession_proofs -------------------------
(***************************************************************************)
(* What holds of one scan over an open connection, whatever the device and *)
(* the connection do.  The argument is about one sequence, the parts on    *)
(* their way to the caller in the order they were sent: TCP and the framer *)
(* move parts along it, a command adds its reply at the end, and a drain   *)
(* drops some of the front.                                                *)
(***************************************************************************)
EXTENDS ScanSession, SequenceTheorems, TLAPS

-----------------------------------------------------------------------------
(* Parts and replies.                                                       *)

LEMMA ReplyIs ==
    ASSUME NEW r \in Replies, NEW w \in Whats
    PROVE  /\ Reply(r, w) \in Seq(StreamPart) /\ Len(Reply(r, w)) = 2
           /\ Reply(r, w)[1] = Part(r, w, TRUE) /\ Reply(r, w)[2] = Part(r, "rest", FALSE)
           /\ Reply(r, w)[1].reply = r /\ Reply(r, w)[2].reply = r
           /\ Reply(r, w)[1].what = w /\ ~Reply(r, w)[2].first
           /\ Lone(r, w) \in Seq(StreamPart) /\ Len(Lone(r, w)) = 1
           /\ Lone(r, w)[1] = Part(r, w, TRUE)
           /\ Lone(r, w)[1].reply = r /\ Lone(r, w)[1].what = w
<1>1. Part(r, w, TRUE) \in StreamPart /\ Part(r, "rest", FALSE) \in StreamPart
  BY DEF Part, StreamPart, Whats
<1>2. /\ Part(r, w, TRUE).reply = r /\ Part(r, w, TRUE).what = w
      /\ Part(r, "rest", FALSE).reply = r /\ ~Part(r, "rest", FALSE).first
  BY DEF Part
<1>3. \A p, q \in StreamPart :
        /\ <<p, q>> \in Seq(StreamPart) /\ Len(<<p, q>>) = 2 /\ <<p, q>>[1] = p /\ <<p, q>>[2] = q
        /\ <<p>> \in Seq(StreamPart) /\ Len(<<p>>) = 1 /\ <<p>>[1] = p
  OBVIOUS
<1> QED BY <1>1, <1>2, <1>3 DEF Reply, Lone

DeviceType ==
    /\ entry \in {"scan", "button"} /\ source \in {"flatbed", "adf"} /\ usable \in BOOLEAN
    /\ manners \in {"good", "late", "garbled"} /\ busy \in BOOLEAN
    /\ feeder \in {"loaded", "empty", "jam", "stop"}

\* What a device with manners answers, and one without.
LEMMA AnswerIs ==
    ASSUME DeviceType, NEW cmd, NEW a \in Answer(cmd)
    PROVE  /\ cmd = "Q" => a = Reply("caps", "ok") \/ (manners = "garbled" /\ a = Lone("caps", "junk"))
           /\ cmd = "K" => a = Reply("config", "ok") \/ (manners = "garbled" /\ a = Lone("config", "junk"))
           /\ cmd = "S" => a = Reply("ack", "ok") \/ (manners = "garbled" /\ a = Lone("ack", "junk"))
           /\ cmd = "D" => \/ feeder = "empty" /\ a = Lone("ack", "empty")
                           \/ feeder # "empty" /\ a = Reply("ack", "loaded")
                           \/ manners = "garbled" /\ a = Lone("ack", "junk")
           /\ cmd = "I" => a = Reply("offer", "ok") \/ (manners = "garbled" /\ a = Lone("offer", "junk"))
           /\ cmd = "X" => a \in Image
<1>1. \A r, w : Head(Reply(r, w)).reply = r /\ Head(Lone(r, w)).reply = r
  BY DEF Reply, Lone, Part
<1> QED BY <1>1 DEF Answer

LEMMA ImageIs ==
    ASSUME DeviceType, NEW a \in Image
    PROVE  \/ source = "adf" /\ feeder \in {"jam", "stop"} /\ a = Lone("image", feeder)
           \/ /\ ~(source = "adf" /\ feeder \in {"jam", "stop"})
              /\ \E lead \in {"ok", "jam", "stop"} : a = Reply("image", lead)
BY DEF Image

\* An answer is one part or two, all of the reply asked for.
LEMMA AnswerType ==
    ASSUME DeviceType, NEW cmd \in {"Q", "K", "S", "D", "I", "X"}, NEW a \in Answer(cmd)
    PROVE  /\ a \in Seq(StreamPart) /\ Len(a) \in {1, 2}
           /\ cmd \in {"Q", "K", "S", "D"} => \A i \in DOMAIN a : a[i].reply \notin {"offer", "image"}
           /\ cmd = "X" => \A i \in DOMAIN a : a[i].reply = "image"
<1>1. PICK r \in Replies, w \in Whats :
        /\ a = Reply(r, w) \/ a = Lone(r, w)
        /\ cmd \in {"Q", "K", "S", "D"} => r \notin {"offer", "image"}
        /\ cmd = "X" => r = "image"
  <2>1. /\ {"caps", "config", "ack", "offer", "image"} \subseteq Replies
        /\ {"ok", "loaded", "empty", "jam", "stop", "junk"} \subseteq Whats
    BY DEF Replies, Whats
  <2>2. CASE cmd = "X"
    BY <2>1, <2>2, AnswerIs, ImageIs
  <2>3. CASE cmd # "X"
    BY <2>1, <2>3, AnswerIs
  <2> QED BY <2>2, <2>3
<1>2. a \in Seq(StreamPart) /\ Len(a) \in {1, 2} /\ \A i \in DOMAIN a : a[i].reply = r
  <2>1. CASE a = Reply(r, w)
    <3>1. a \in Seq(StreamPart) /\ Len(a) = 2 /\ a[1].reply = r /\ a[2].reply = r
      BY <2>1, ReplyIs
    <3>2. \A i \in DOMAIN a : i = 1 \/ i = 2
      BY <3>1
    <3> QED BY <3>1, <3>2
  <2>2. CASE a = Lone(r, w)
    <3>1. a \in Seq(StreamPart) /\ Len(a) = 1 /\ a[1].reply = r
      BY <2>2, ReplyIs
    <3>2. \A i \in DOMAIN a : i = 1
      BY <3>1
    <3> QED BY <3>1, <3>2
  <2> QED BY <1>1, <2>1, <2>2
<1> QED BY <1>1, <1>2

-----------------------------------------------------------------------------
(* The stream.                                                              *)

\* The parts on their way to the caller, in their order.
Stream == buf \o (wire \o toSend)

StreamType == buf \in Seq(StreamPart) /\ wire \in Seq(StreamPart) /\ toSend \in Seq(StreamPart)

LEMMA Associative ==
    \A b, w, t \in Seq(StreamPart) : (b \o w) \o t = b \o (w \o t) /\ w \o t \in Seq(StreamPart)
<1> SUFFICES ASSUME NEW b \in Seq(StreamPart), NEW w \in Seq(StreamPart), NEW t \in Seq(StreamPart)
             PROVE  (b \o w) \o t = b \o (w \o t) /\ w \o t \in Seq(StreamPart)
  OBVIOUS
<1>1. (b \o w) \o t = b \o (w \o t)
  BY ConcatAssociative
<1> QED BY <1>1

LEMMA Joined ==
    ASSUME NEW b \in Seq(StreamPart), NEW w \in Seq(StreamPart), NEW t \in Seq(StreamPart),
           NEW s, s = b \o (w \o t)
    PROVE  /\ s \in Seq(StreamPart) /\ Len(s) = Len(b) + Len(w) + Len(t)
           /\ \A i \in 1 .. Len(b) : s[i] = b[i]
           /\ \A i \in 1 .. Len(w) : s[Len(b) + i] = w[i]
           /\ \A i \in 1 .. Len(t) : s[Len(b) + Len(w) + i] = t[i]
<1> DEFINE r == w \o t
<1>1. /\ r \in Seq(StreamPart) /\ Len(r) = Len(w) + Len(t)
      /\ \A i \in 1 .. Len(w) : r[i] = w[i]
      /\ \A i \in 1 .. Len(t) : r[Len(w) + i] = t[i]
  OBVIOUS
<1>2. /\ s \in Seq(StreamPart) /\ Len(s) = Len(b) + Len(r)
      /\ \A i \in 1 .. Len(b) : s[i] = b[i]
      /\ \A i \in 1 .. Len(r) : s[Len(b) + i] = r[i]
  <2>1. s = b \o r
    OBVIOUS
  <2>2. r \in Seq(StreamPart)
    BY <1>1
  <2> HIDE DEF r
  <2> QED BY <2>1, <2>2
<1>3. Len(b) \in Nat /\ Len(w) \in Nat /\ Len(t) \in Nat
  OBVIOUS
<1> HIDE DEF r
<1>4. \A i \in 1 .. Len(w) : s[Len(b) + i] = w[i]
  BY <1>1, <1>2, <1>3
<1>5. ASSUME NEW i \in 1 .. Len(t) PROVE s[Len(b) + Len(w) + i] = t[i]
  <2>1. Len(w) + i \in 1 .. Len(r) /\ Len(b) + (Len(w) + i) = Len(b) + Len(w) + i
    BY <1>1, <1>3
  <2>2. s[Len(b) + (Len(w) + i)] = r[Len(w) + i]
    BY <1>2, <2>1
  <2>3. \A k \in 1 .. Len(t) : r[Len(w) + k] = t[k]
    BY <1>1
  <2>4. r[Len(w) + i] = t[i]
    BY <2>3, Zenon
  <2> QED BY <2>1, <2>2, <2>4, Zenon
<1> QED BY <1>1, <1>2, <1>3, <1>4, <1>5

\* Delivering, and filling the buffer, keep the stream.
LEMMA DeliverKeeps ==
    ASSUME StreamType, Deliver, UNCHANGED buf
    PROVE  StreamType' /\ Stream' = Stream
<1>1. PICK n \in 1 .. Len(toSend) : /\ wire' = wire \o SubSeq(toSend, 1, n)
                                    /\ toSend' = SubSeq(toSend, n + 1, Len(toSend))
  BY DEF Deliver
<1> DEFINE front == SubSeq(toSend, 1, n)
           back == SubSeq(toSend, n + 1, Len(toSend))
<1>2. front \in Seq(StreamPart) /\ back \in Seq(StreamPart)
  BY DEF StreamType
<1>3. front \o back = toSend
  <2>1. /\ 1 \in 1 .. Len(toSend) + 1 /\ n \in 1 - 1 .. Len(toSend)
        /\ Len(toSend) \in n .. Len(toSend) /\ toSend \in Seq(StreamPart)
    BY DEF StreamType
  <2>2. front \o back = SubSeq(toSend, 1, Len(toSend))
    BY <2>1, ConcatAdjacentSubSeq
  <2> QED BY <2>1, <2>2, SubSeqFull
<1> HIDE DEF front, back
<1>4. wire' = wire \o front /\ toSend' = back
  BY <1>1 DEF front, back
<1>5. (wire \o front) \o back = wire \o toSend
  <2>1. wire \in Seq(StreamPart)
    BY DEF StreamType
  <2>2. (wire \o front) \o back = wire \o (front \o back)
    BY <1>2, <2>1, Associative, Zenon
  <2> QED BY <1>3, <2>2
<1>6. StreamType'
  BY <1>2, <1>4 DEF StreamType
<1> QED BY <1>4, <1>5, <1>6 DEF Stream

LEMMA FillKeeps ==
    ASSUME StreamType, buf' = buf \o wire, wire' = <<>>, UNCHANGED toSend
    PROVE  StreamType' /\ Stream' = Stream
<1>1. <<>> \o toSend = toSend /\ (buf \o wire) \o toSend = buf \o (wire \o toSend)
  <2>1. buf \in Seq(StreamPart) /\ wire \in Seq(StreamPart) /\ toSend \in Seq(StreamPart)
    BY DEF StreamType
  <2>2. <<>> \o toSend = toSend
    BY <2>1, ConcatEmptySeq
  <2> QED BY <2>1, <2>2, Associative, Zenon
<1>2. StreamType'
  BY DEF StreamType
<1> QED BY <1>1, <1>2 DEF Stream

\* What stays when the buffer is dropped was in the stream.
LEMMA DropKeeps ==
    ASSUME StreamType, buf' = <<>>, UNCHANGED <<wire, toSend>>
    PROVE  /\ StreamType' /\ Stream' = wire \o toSend
           /\ \A i \in DOMAIN Stream' : \E j \in DOMAIN Stream : Stream'[i] = Stream[j]
<1> DEFINE rest == wire \o toSend
<1>1. StreamType' /\ rest \in Seq(StreamPart) /\ buf \in Seq(StreamPart) /\ Stream = buf \o rest
  BY DEF StreamType, Stream
<1>2. Stream' = rest
  BY <1>1, ConcatEmptySeq DEF Stream
<1> HIDE DEF rest
<1>3. \A i \in DOMAIN rest : Len(buf) + i \in DOMAIN (buf \o rest) /\ (buf \o rest)[Len(buf) + i] = rest[i]
  BY <1>1
<1> QED BY <1>1, <1>2, <1>3 DEF rest

\* A reply comes after everything that was sent before it.
LEMMA SendAppends ==
    ASSUME StreamType, NEW a \in Seq(StreamPart), toSend' = toSend \o a, UNCHANGED <<wire, buf>>
    PROVE  StreamType' /\ Stream \in Seq(StreamPart) /\ Stream' = Stream \o a
<1>0. wire \in Seq(StreamPart) /\ toSend \in Seq(StreamPart)
  BY DEF StreamType
<1>1. wire \o (toSend \o a) = (wire \o toSend) \o a
  BY <1>0, Associative, Zenon
<1>2. buf \o ((wire \o toSend) \o a) = (buf \o (wire \o toSend)) \o a
  <2>1. wire \o toSend \in Seq(StreamPart) /\ buf \in Seq(StreamPart)
    BY DEF StreamType
  <2> QED BY <2>1, Associative, Zenon
<1>3. StreamType' /\ Stream \in Seq(StreamPart)
  BY DEF StreamType, Stream
<1> QED BY <1>1, <1>2, <1>3 DEF Stream

-----------------------------------------------------------------------------
(* The caller's thread: where it is and what it has sent.                   *)

Points == {"open", "query", "capsFirst", "capsRest", "select", "feederAck", "ackFirst", "ackRest",
           "config", "info", "offer", "execute", "lead", "confirm", "readout", "return", "done"}
Statuses == {"running", "ok", "io", "protocol", "busy", "noPaper", "cancelled", "timeout", "paperJam"}
Begun == {<<>>, <<"Q">>, <<"K">>, <<"Q", "S">>, <<"Q", "D">>, <<"Q", "S", "I">>, <<"Q", "D", "I">>,
          <<"K", "I">>}

ThreadType ==
    /\ DeviceType /\ link \in {"up", "silent", "closed"}
    /\ pc \in Points /\ cmds \in Begun \cup Flows /\ status \in Statuses /\ out \in {0, 1}

\* What has been sent, by where the thread is.
Sent ==
    /\ pc \in {"open", "query"} => cmds = <<>>
    /\ pc \in {"capsFirst", "capsRest", "select"} => entry = "scan" /\ cmds = <<"Q">>
    /\ pc = "feederAck" => source = "adf" /\ cmds = <<"Q", "D">>
    /\ pc = "ackFirst" => source = "flatbed" /\ cmds = <<"Q", "S">>
    /\ pc = "config" => cmds = <<"K">>
    /\ pc \in {"ackRest", "info"} => cmds \in {<<"Q", "S">>, <<"Q", "D">>, <<"K">>}
    /\ pc \in {"offer", "execute"} => cmds \in {<<"Q", "S", "I">>, <<"Q", "D", "I">>, <<"K", "I">>}
    /\ pc \in {"lead", "confirm", "readout"} => cmds \in Flows
    /\ pc \in {"lead", "confirm"} => source = "adf"

LEMMA TupleAppended ==
    ASSUME NEW a, NEW b, NEW c, NEW d
    PROVE  /\ Append(<<>>, a) = <<a>> /\ Append(<<a>>, b) = <<a, b>>
           /\ Append(<<a, b>>, c) = <<a, b, c>> /\ Append(<<a, b, c>>, d) = <<a, b, c, d>>
<1> DEFINE S == {a, b, c, d}
<1>1. <<>> \in Seq(S) /\ Append(<<>>, a) = <<a>>
  OBVIOUS
<1>2. <<a>> \in Seq(S) /\ Len(<<a>>) = 1 /\ <<a>>[1] = a
  OBVIOUS
<1>3. <<a, b>> \in Seq(S) /\ Len(<<a, b>>) = 2 /\ <<a, b>>[1] = a /\ <<a, b>>[2] = b
  OBVIOUS
<1>4. /\ <<a, b, c>> \in Seq(S) /\ Len(<<a, b, c>>) = 3
      /\ <<a, b, c>>[1] = a /\ <<a, b, c>>[2] = b /\ <<a, b, c>>[3] = c
  OBVIOUS
<1>5. /\ <<a, b, c, d>> \in Seq(S) /\ Len(<<a, b, c, d>>) = 4 /\ <<a, b, c, d>>[1] = a
      /\ <<a, b, c, d>>[2] = b /\ <<a, b, c, d>>[3] = c /\ <<a, b, c, d>>[4] = d
  OBVIOUS
<1>6. b \in S /\ c \in S /\ d \in S
  OBVIOUS
<1> HIDE DEF S
<1>7. ASSUME NEW s \in Seq(S), NEW t \in Seq(S), NEW x \in S,
             Len(t) = Len(s) + 1, t[Len(s) + 1] = x, \A i \in 1 .. Len(s) : t[i] = s[i]
      PROVE  Append(s, x) = t
  <2> DEFINE u == Append(s, x)
  <2>1. u \in Seq(S) /\ Len(u) = Len(t) /\ \A i \in 1 .. Len(u) : u[i] = t[i]
    BY <1>7
  <2> HIDE DEF u
  <2>2. u = t
    BY <2>1, SeqEqual
  <2> QED BY <2>2 DEF u
<1>8. Append(<<a>>, b) = <<a, b>>
  <2>1. /\ Len(<<a, b>>) = Len(<<a>>) + 1 /\ <<a, b>>[Len(<<a>>) + 1] = b
        /\ \A i \in 1 .. Len(<<a>>) : <<a, b>>[i] = <<a>>[i]
    BY <1>2, <1>3
  <2> QED BY <1>2, <1>3, <1>6, <1>7, <2>1, Zenon
<1>9. Append(<<a, b>>, c) = <<a, b, c>>
  <2>1. /\ Len(<<a, b, c>>) = Len(<<a, b>>) + 1 /\ <<a, b, c>>[Len(<<a, b>>) + 1] = c
        /\ \A i \in 1 .. Len(<<a, b>>) : <<a, b, c>>[i] = <<a, b>>[i]
    BY <1>3, <1>4
  <2> QED BY <1>3, <1>4, <1>6, <1>7, <2>1, Zenon
<1>10. Append(<<a, b, c>>, d) = <<a, b, c, d>>
  <2>1. /\ Len(<<a, b, c, d>>) = Len(<<a, b, c>>) + 1 /\ <<a, b, c, d>>[Len(<<a, b, c>>) + 1] = d
        /\ \A i \in 1 .. Len(<<a, b, c>>) : <<a, b, c, d>>[i] = <<a, b, c>>[i]
    BY <1>4, <1>5
  <2> QED BY <1>4, <1>5, <1>6, <1>7, <2>1, Zenon
<1> QED BY <1>1, <1>8, <1>9, <1>10

LEMMA Appended ==
    /\ Append(<<>>, "Q") = <<"Q">> /\ Append(<<>>, "K") = <<"K">>
    /\ Append(<<"Q">>, "S") = <<"Q", "S">> /\ Append(<<"Q">>, "D") = <<"Q", "D">>
    /\ Append(<<"K">>, "I") = <<"K", "I">>
    /\ Append(<<"Q", "S">>, "I") = <<"Q", "S", "I">> /\ Append(<<"Q", "D">>, "I") = <<"Q", "D", "I">>
    /\ Append(<<"Q", "S", "I">>, "X") = <<"Q", "S", "I", "X">>
    /\ Append(<<"Q", "D", "I">>, "X") = <<"Q", "D", "I", "X">>
    /\ Append(<<"K", "I">>, "X") = <<"K", "I", "X">>
<1>1. \A a, b, c, d :
        /\ Append(<<>>, a) = <<a>> /\ Append(<<a>>, b) = <<a, b>>
        /\ Append(<<a, b>>, c) = <<a, b, c>> /\ Append(<<a, b, c>>, d) = <<a, b, c, d>>
  BY TupleAppended
<1>2. Append(<<>>, "Q") = <<"Q">> /\ Append(<<>>, "K") = <<"K">>
  BY <1>1, Zenon
<1>3. /\ Append(<<"Q">>, "S") = <<"Q", "S">> /\ Append(<<"Q">>, "D") = <<"Q", "D">>
      /\ Append(<<"K">>, "I") = <<"K", "I">>
  BY <1>1, Zenon
<1>4. /\ Append(<<"Q", "S">>, "I") = <<"Q", "S", "I">> /\ Append(<<"Q", "D">>, "I") = <<"Q", "D", "I">>
      /\ Append(<<"K", "I">>, "X") = <<"K", "I", "X">>
  BY <1>1, Zenon
<1>5. /\ Append(<<"Q", "S", "I">>, "X") = <<"Q", "S", "I", "X">>
      /\ Append(<<"Q", "D", "I">>, "X") = <<"Q", "D", "I", "X">>
  <2>1. \A a, b, c, d : Append(<<a, b, c>>, d) = <<a, b, c, d>>
    BY <1>1, Zenon
  <2> QED BY <2>1, Zenon
<1> QED BY <1>2, <1>3, <1>4, <1>5

LEMMA PrefixOfFlow == \A c \in Begun \cup Flows : \E flow \in Flows : IsPrefix(c, flow)
<1>1. \A flow \in Flows : IsPrefix(flow, flow)
  BY DEF IsPrefix, Flows
<1>2. IsPrefix(<<>>, <<"K", "I", "X">>) /\ IsPrefix(<<"K">>, <<"K", "I", "X">>) /\ IsPrefix(<<"K", "I">>, <<"K", "I", "X">>)
  BY DEF IsPrefix
<1>3. IsPrefix(<<"Q">>, <<"Q", "S", "I", "X">>) /\ IsPrefix(<<"Q", "S">>, <<"Q", "S", "I", "X">>) /\ IsPrefix(<<"Q", "S", "I">>, <<"Q", "S", "I", "X">>)
  BY DEF IsPrefix
<1>4. IsPrefix(<<"Q", "D">>, <<"Q", "D", "I", "X">>) /\ IsPrefix(<<"Q", "D", "I">>, <<"Q", "D", "I", "X">>)
  BY DEF IsPrefix
<1> QED BY <1>1, <1>2, <1>3, <1>4 DEF Flows, Begun

\* Between the commands the thread moves on, fails, or stays.
LEMMA ThreadElsewhere ==
    ASSUME ThreadType, Sent, UNCHANGED <<call, device, link>>,
           Open \/ DrainCaps \/ FeederAck \/ DrainAck \/ Config \/ Offer \/ Lead \/ Confirm
           \/ Readout \/ ReturnToCaller
    PROVE  ThreadType' /\ Sent'
<1>1. DeviceType' /\ link' \in {"up", "silent", "closed"}
  BY DEF ThreadType, DeviceType, call, device
<1>2. cmds' = cmds /\ entry' = entry /\ source' = source
  BY DEF Open, DrainCaps, FeederAck, DrainAck, Config, Offer, Lead, Confirm, Readout, ReturnToCaller,
         DrainFirst, DrainRest, ReadFails, Return, Fill, Misread, call
<1>3. status' \in Statuses /\ out' \in {0, 1}
  BY DEF Open, DrainCaps, FeederAck, DrainAck, Config, Offer, Lead, Confirm, Readout, ReturnToCaller,
         DrainFirst, DrainRest, ReadFails, Return, Fill, Misread, ThreadType, Statuses
<1>4. \/ pc' \in {pc, "return"}
      \/ pc = "open" /\ pc' = "query"
      \/ pc = "capsFirst" /\ pc' = "capsRest"
      \/ pc = "capsRest" /\ pc' = "select"
      \/ pc = "feederAck" /\ pc' = "ackRest"
      \/ pc = "ackFirst" /\ pc' = "ackRest"
      \/ pc \in {"ackRest", "config"} /\ pc' = "info"
      \/ pc = "offer" /\ pc' = "execute"
      \/ pc = "lead" /\ pc' \in {"confirm", "readout"}
      \/ pc = "confirm" /\ pc' = "readout"
      \/ pc = "return" /\ pc' = "done"
  <2>1. CASE Open
    BY <2>1 DEF Open, ReadFails, Return
  <2>2. CASE DrainCaps \/ DrainAck
    BY <2>2 DEF DrainCaps, DrainAck, DrainFirst, DrainRest, ReadFails, Return, Fill
  <2>3. CASE FeederAck \/ Config \/ Offer
    BY <2>3 DEF FeederAck, Config, Offer, ReadFails, Return, Fill, Misread
  <2>4. CASE Lead \/ Confirm \/ Readout \/ ReturnToCaller
    BY <2>4 DEF Lead, Confirm, Readout, ReturnToCaller, ReadFails, Return, Fill, Misread
  <2> QED BY <2>1, <2>2, <2>3, <2>4
<1>5. pc' \in Points /\ pc \in Points
  BY <1>4 DEF ThreadType, Points
<1>6. ThreadType'
  BY <1>1, <1>2, <1>3, <1>5 DEF ThreadType
<1>7. Sent'
  BY <1>2, <1>4 DEF Sent
<1> QED BY <1>6, <1>7

LEMMA ThreadSends ==
    ASSUME ThreadType, Sent, UNCHANGED <<call, device, link>>, Query \/ SelectSource \/ Info \/ Execute
    PROVE  ThreadType' /\ Sent'
<1>1. DeviceType' /\ link' \in {"up", "silent", "closed"} /\ entry' = entry /\ source' = source
  BY DEF ThreadType, DeviceType, call, device
<1>2. status' \in Statuses /\ out' = out
  BY DEF Query, SelectSource, Info, Execute, SendCommand, Return, ThreadType, Statuses
<1>3. CASE pc' = "return" /\ cmds' = cmds
  BY <1>1, <1>2, <1>3 DEF ThreadType, Sent, Points
<1>4. CASE Query /\ pc' # "return"
  <2>1. \/ entry = "scan" /\ cmds' = Append(<<>>, "Q") /\ pc' = "capsFirst"
        \/ entry # "scan" /\ cmds' = Append(<<>>, "K") /\ pc' = "config"
    BY <1>4 DEF Query, SendCommand, Return, Sent
  <2> QED BY <1>1, <1>2, <2>1, Appended DEF ThreadType, Sent, Points, Begun
<1>5. CASE SelectSource /\ pc' # "return"
  <2>1. \/ source = "adf" /\ cmds' = Append(<<"Q">>, "D") /\ pc' = "feederAck"
        \/ source = "flatbed" /\ cmds' = Append(<<"Q">>, "S") /\ pc' = "ackFirst"
    BY <1>5 DEF SelectSource, SendCommand, Return, Sent, ThreadType, DeviceType
  <2> QED BY <1>1, <1>2, <2>1, Appended DEF ThreadType, Sent, Points, Begun
<1>6. CASE Info /\ pc' # "return"
  <2>1. cmds' = Append(cmds, "I") /\ pc' = "offer" /\ cmds \in {<<"Q", "S">>, <<"Q", "D">>, <<"K">>}
    BY <1>6 DEF Info, SendCommand, Return, Sent
  <2>2. cmds' \in {<<"Q", "S", "I">>, <<"Q", "D", "I">>, <<"K", "I">>}
    BY <2>1, Appended
  <2> QED BY <1>1, <1>2, <2>1, <2>2 DEF ThreadType, Sent, Points, Begun
<1>7. CASE Execute /\ pc' # "return"
  <2>1. /\ cmds' = Append(cmds, "X") /\ pc' = (IF source = "adf" THEN "lead" ELSE "readout")
        /\ cmds \in {<<"Q", "S", "I">>, <<"Q", "D", "I">>, <<"K", "I">>}
    BY <1>7 DEF Execute, SendCommand, Return, Sent
  <2>2. cmds' \in Flows
    BY <2>1, Appended DEF Flows
  <2> QED BY <1>1, <1>2, <2>1, <2>2 DEF ThreadType, Sent, Points
<1>8. pc' = "return" => cmds' = cmds
  BY DEF Query, SelectSource, Info, Execute, SendCommand, Return
<1> QED BY <1>3, <1>4, <1>5, <1>6, <1>7, <1>8

LEMMA ThreadStep == ThreadType /\ Sent /\ [Next]_vars => ThreadType' /\ Sent'
<1> SUFFICES ASSUME ThreadType, Sent, [Next]_vars PROVE ThreadType' /\ Sent'
  OBVIOUS
<1>1. CASE UNCHANGED vars
  BY <1>1 DEF ThreadType, DeviceType, Sent, vars, call, device
<1>2. CASE Device
  <2>1. /\ UNCHANGED <<call, device, pc, cmds, status, out>>
        /\ link' \in {"up", "silent", "closed"}
    BY <1>2 DEF Device, Deliver, LinkFails, ThreadType
  <2> QED BY <2>1 DEF ThreadType, DeviceType, Sent, call, device
<1>3. CASE Caller
  BY <1>3, ThreadElsewhere, ThreadSends DEF Caller
<1> QED BY <1>1, <1>2, <1>3 DEF Next

-----------------------------------------------------------------------------
(* The order of the replies.                                                *)

\* What is left in the stream while the commands before the offer are answered may be of any
\* of their replies, late or out of step.  The offer is asked for last, so an offer that is
\* read whole leaves nothing behind; until then what is read in its place is a misread.
InOrder ==
    /\ pc \in {"open", "query", "capsFirst", "capsRest", "select", "feederAck", "ackFirst", "ackRest",
               "config", "info"} => \A i \in DOMAIN Stream : Stream[i].reply \notin {"offer", "image"}
    /\ pc = "execute" => Stream = <<>>
    /\ pc = "offer" => \A i \in 1 .. Len(Stream) - 2 : Stream[i].reply # "offer"
    /\ pc \in {"lead", "confirm", "readout"} => \A i \in DOMAIN Stream : Stream[i].reply = "image"

\* A greeting that comes in one piece is read as a whole.
Greeted ==
    /\ pc = "open" => buf = <<>> /\ Len(Stream) <= 1
    /\ pc = "query" => Stream = <<>>

Kept == StreamType' /\ (InOrder => InOrder') /\ (Greeted => Greeted')

\* The thread reads on, stays, or gives up.
LEMMA KeptInPlace ==
    ASSUME StreamType', Stream' = Stream,
           \/ pc' = pc /\ (pc # "open" \/ UNCHANGED buf)
           \/ pc = "capsFirst" /\ pc' = "capsRest"
           \/ pc \in {"feederAck", "ackFirst"} /\ pc' = "ackRest"
           \/ pc = "lead" /\ pc' \in {"confirm", "readout"}
           \/ pc = "confirm" /\ pc' = "readout"
           \/ pc' \in {"return", "done"}
    PROVE  Kept
BY DEF Kept, InOrder, Greeted

LEMMA KeptUnmoved ==
    ASSUME StreamType, UNCHANGED <<buf, wire, toSend>>,
           \/ pc' = pc
           \/ pc = "feederAck" /\ pc' = "ackRest"
           \/ pc = "lead" /\ pc' \in {"confirm", "readout"}
           \/ pc = "confirm" /\ pc' = "readout"
           \/ pc' \in {"return", "done"}
    PROVE  Kept
<1>1. StreamType' /\ Stream' = Stream
  BY DEF StreamType, Stream
<1> QED BY <1>1, KeptInPlace

LEMMA KeptReturning ==
    ASSUME StreamType, NEW s, Return(s)
    PROVE  Kept
BY KeptUnmoved DEF Return

LEMMA KeptFilling ==
    ASSUME StreamType, Fill, pc # "open"
    PROVE  Kept
BY FillKeeps, KeptInPlace DEF Fill

LEMMA KeptReadFailing == ASSUME StreamType, ReadFails PROVE Kept
BY KeptReturning DEF ReadFails

LEMMA KeptOpen == ASSUME StreamType, Open PROVE Kept
<1>1. CASE ReadFails
  BY <1>1, KeptReadFailing
<1>2. CASE pc = "open" /\ wire # <<>> /\ wire' = <<>> /\ pc' \in {"query", "return"} /\ UNCHANGED <<toSend, buf>>
  <2>1. StreamType'
    BY <1>2 DEF StreamType
  <2>2. Greeted => Stream' = <<>>
    <3> SUFFICES ASSUME Greeted PROVE Stream' = <<>>
      OBVIOUS
    <3>1. buf = <<>> /\ Len(Stream) <= 1
      BY <1>2 DEF Greeted
    <3>2. Len(Stream) = Len(buf) + Len(wire) + Len(toSend)
      BY Joined DEF StreamType, Stream
    <3>3. toSend = <<>>
      BY <1>2, <3>1, <3>2 DEF StreamType
    <3> QED BY <1>2, <3>1, <3>3 DEF Stream
  <2>3. \A i \in DOMAIN Stream' : \E j \in DOMAIN Stream : Stream'[i] = Stream[j]
    <3>1. /\ Stream \in Seq(StreamPart) /\ Len(Stream) = Len(buf) + Len(wire) + Len(toSend)
          /\ \A i \in 1 .. Len(buf) : Stream[i] = buf[i]
          /\ \A i \in 1 .. Len(toSend) : Stream[Len(buf) + Len(wire) + i] = toSend[i]
      BY Joined DEF StreamType, Stream
    <3>2. Stream' = buf \o toSend
      BY <1>2, ConcatEmptySeq DEF Stream, StreamType
    <3>3. Len(buf) \in Nat /\ Len(wire) \in Nat /\ Len(toSend) \in Nat
      BY DEF StreamType
    <3>4. ASSUME NEW i \in DOMAIN (buf \o toSend)
          PROVE  \E j \in DOMAIN Stream : (buf \o toSend)[i] = Stream[j]
      <4>1. CASE i \in 1 .. Len(buf)
        <5>1. (buf \o toSend)[i] = buf[i] /\ i \in DOMAIN Stream
          BY <3>1, <3>3, <4>1 DEF StreamType
        <5> QED BY <3>1, <4>1, <5>1
      <4>2. CASE i \notin 1 .. Len(buf)
        <5>1. PICK k \in 1 .. Len(toSend) : k = i - Len(buf) /\ (buf \o toSend)[i] = toSend[k]
          BY <3>3, <4>2 DEF StreamType
        <5>2. Len(buf) + Len(wire) + k \in DOMAIN Stream
          BY <3>1, <3>3
        <5> QED BY <3>1, <5>1, <5>2
      <4> QED BY <4>1, <4>2
    <3> QED BY <3>2, <3>4
  <2>4. InOrder => \A i \in DOMAIN Stream' : Stream'[i].reply \notin {"offer", "image"}
    BY <1>2, <2>3 DEF InOrder
  <2> QED BY <1>2, <2>1, <2>2, <2>4 DEF Kept, InOrder, Greeted
<1> QED BY <1>1, <1>2 DEF Open

LEMMA KeptDrainFirst ==
    ASSUME StreamType, NEW at, NEW next, DrainFirst(at, next),
           \/ at = "capsFirst" /\ next = "capsRest"
           \/ at = "ackFirst" /\ next = "ackRest"
    PROVE  Kept
<1>1. CASE ReadFails
  BY <1>1, KeptReadFailing
<1>2. CASE buf' = buf \o wire /\ wire' = <<>> /\ pc' = next /\ UNCHANGED toSend /\ pc = at
  BY <1>2, FillKeeps, KeptInPlace
<1> QED BY <1>1, <1>2 DEF DrainFirst

LEMMA KeptDropping ==
    ASSUME StreamType, buf' = <<>>, UNCHANGED <<wire, toSend>>,
           \/ pc = "capsRest" /\ pc' = "select"
           \/ pc \in {"ackRest", "config"} /\ pc' = "info"
    PROVE  Kept
BY DropKeeps DEF Kept, InOrder, Greeted

LEMMA KeptDrainRest ==
    ASSUME StreamType, NEW at, NEW next, DrainRest(at, next),
           \/ at = "capsRest" /\ next = "select"
           \/ at = "ackRest" /\ next = "info"
    PROVE  Kept
<1>1. CASE Fill
  BY <1>1, KeptFilling DEF DrainRest
<1>2. CASE Return("io")
  BY <1>2, KeptReturning
<1>3. CASE buf' = <<>> /\ pc = at /\ pc' = next /\ UNCHANGED <<wire, toSend>>
  BY <1>3, KeptDropping
<1> QED BY <1>1, <1>2, <1>3 DEF DrainRest

LEMMA KeptFeederAck == ASSUME StreamType, FeederAck PROVE Kept
<1>1. CASE Fill
  BY <1>1, KeptFilling DEF FeederAck
<1>2. CASE Return("io") \/ Return("noPaper")
  BY <1>2, KeptReturning
<1>3. CASE pc = "feederAck" /\ pc' = "ackRest" /\ UNCHANGED <<toSend, wire, buf>>
  BY <1>3, KeptUnmoved
<1> QED BY <1>1, <1>2, <1>3 DEF FeederAck

LEMMA KeptConfig == ASSUME StreamType, Config PROVE Kept
<1>1. CASE Fill
  BY <1>1, KeptFilling DEF Config
<1>2. CASE ReadFails \/ Misread("config") \/ Return("protocol")
  BY <1>2, KeptReadFailing, KeptReturning DEF Misread
<1>3. CASE pc = "config" /\ buf' = <<>> /\ pc' = "info" /\ UNCHANGED <<toSend, wire>>
  BY <1>3, KeptDropping
<1> QED BY <1>1, <1>2, <1>3 DEF Config

\* Both parts of the offer are at the front, and no part of it but the last two is anywhere.
LEMMA KeptOffer == ASSUME StreamType, Offer PROVE Kept
<1>1. CASE Fill
  BY <1>1, KeptFilling DEF Offer
<1>2. CASE ReadFails \/ Misread("offer")
  BY <1>2, KeptReadFailing, KeptReturning DEF Misread
<1>3. CASE /\ buf = Reply("offer", "ok") /\ buf' = <<>> /\ pc' = "execute"
           /\ UNCHANGED <<toSend, wire>>
  <2>1. /\ Len(buf) = 2 /\ buf[1].reply = "offer"
    BY <1>3, ReplyIs DEF Replies, Whats
  <2>2. /\ Len(Stream) = Len(buf) + Len(wire) + Len(toSend)
        /\ \A i \in 1 .. Len(buf) : Stream[i] = buf[i]
    BY Joined DEF StreamType, Stream
  <2>3. InOrder => wire = <<>> /\ toSend = <<>>
    <3> SUFFICES ASSUME InOrder PROVE wire = <<>> /\ toSend = <<>>
      OBVIOUS
    <3>1. Len(wire) \in Nat /\ Len(toSend) \in Nat
      BY DEF StreamType
    <3>2. Stream[1].reply = "offer"
      BY <2>1, <2>2
    <3>3. 1 \notin 1 .. Len(Stream) - 2
      BY <3>2 DEF InOrder, Offer
    <3>4. Len(wire) = 0 /\ Len(toSend) = 0
      BY <2>1, <2>2, <3>1, <3>3
    <3> QED BY <3>4 DEF StreamType
  <2>4. StreamType' /\ Stream' = wire \o toSend
    BY <1>3, DropKeeps
  <2> QED BY <1>3, <2>3, <2>4 DEF Kept, InOrder, Greeted
<1> QED BY <1>1, <1>2, <1>3 DEF Offer

LEMMA KeptSends ==
    ASSUME ThreadType, StreamType, Query \/ SelectSource \/ Info \/ Execute
    PROVE  Kept
<1>1. CASE Return("io")
  BY <1>1, KeptReturning
<1>2. CASE \E cmd \in {"Q", "K", "S", "D", "I", "X"} :
             /\ \E answer \in Answer(cmd) : toSend' = toSend \o answer
             /\ UNCHANGED <<wire, buf>>
             /\ \/ pc = "query" /\ pc' \in {"capsFirst", "config"} /\ cmd \in {"Q", "K"}
                \/ pc = "select" /\ pc' \in {"feederAck", "ackFirst"} /\ cmd \in {"S", "D"}
                \/ pc = "info" /\ pc' = "offer" /\ cmd = "I"
                \/ pc = "execute" /\ pc' \in {"lead", "readout"} /\ cmd = "X"
  <2>0. PICK cmd \in {"Q", "K", "S", "D", "I", "X"} :
             /\ \E answer \in Answer(cmd) : toSend' = toSend \o answer
             /\ UNCHANGED <<wire, buf>>
             /\ \/ pc = "query" /\ pc' \in {"capsFirst", "config"} /\ cmd \in {"Q", "K"}
                \/ pc = "select" /\ pc' \in {"feederAck", "ackFirst"} /\ cmd \in {"S", "D"}
                \/ pc = "info" /\ pc' = "offer" /\ cmd = "I"
                \/ pc = "execute" /\ pc' \in {"lead", "readout"} /\ cmd = "X"
    BY <1>2
  <2>1. PICK a \in Answer(cmd) : toSend' = toSend \o a
    BY <2>0
  <2>2. /\ a \in Seq(StreamPart) /\ Len(a) \in {1, 2}
        /\ cmd \in {"Q", "K", "S", "D"} => \A i \in DOMAIN a : a[i].reply \notin {"offer", "image"}
        /\ cmd = "X" => \A i \in DOMAIN a : a[i].reply = "image"
    BY AnswerType DEF ThreadType
  <2>3. StreamType' /\ Stream \in Seq(StreamPart) /\ Stream' = Stream \o a
    BY <2>0, <2>1, <2>2, SendAppends
  <2>4. /\ Len(Stream') = Len(Stream) + Len(a) /\ Len(Stream) \in Nat
        /\ \A i \in 1 .. Len(Stream) : Stream'[i] = Stream[i]
        /\ \A i \in DOMAIN Stream' : i \in DOMAIN Stream \/ \E j \in DOMAIN a : Stream'[i] = a[j]
    <3>1. Stream \o a \in Seq(StreamPart) /\ DOMAIN Stream = 1 .. Len(Stream) /\ DOMAIN a = 1 .. Len(a)
      BY <2>2, <2>3
    <3>2. \A i \in 1 .. Len(Stream) + Len(a) :
             (Stream \o a)[i] = IF i <= Len(Stream) THEN Stream[i] ELSE a[i - Len(Stream)]
      BY <2>2, <2>3
    <3>3. ASSUME NEW i \in DOMAIN (Stream \o a), i \notin DOMAIN Stream
          PROVE  i - Len(Stream) \in DOMAIN a /\ (Stream \o a)[i] = a[i - Len(Stream)]
      BY <2>2, <2>3, <3>3
    <3> QED BY <2>2, <2>3, <3>1, <3>2, <3>3
  <2>5. CASE pc \in {"query", "select"}
    <3>1. pc' \in {"capsFirst", "config", "feederAck", "ackFirst"} /\ cmd \in {"Q", "K", "S", "D"}
      BY <2>0, <2>5
    <3>2. InOrder => \A i \in DOMAIN Stream : Stream[i].reply \notin {"offer", "image"}
      BY <2>5 DEF InOrder
    <3>3. DOMAIN Stream = 1 .. Len(Stream)
      BY <2>3
    <3>4. InOrder => \A i \in DOMAIN Stream' : Stream'[i].reply \notin {"offer", "image"}
      BY <2>2, <2>4, <3>1, <3>2, <3>3
    <3> QED BY <2>3, <3>1, <3>4 DEF Kept, InOrder, Greeted
  <2>6. CASE pc = "info"
    <3>1. pc' = "offer" /\ DOMAIN Stream = 1 .. Len(Stream)
      BY <2>0, <2>3, <2>6
    <3>2. InOrder => \A i \in DOMAIN Stream : Stream[i].reply # "offer"
      BY <2>6 DEF InOrder
    <3>3. \A i \in 1 .. Len(Stream') - 2 : i \in 1 .. Len(Stream)
      <4>1. CASE Len(a) = 1
        BY <2>4, <4>1
      <4>2. CASE Len(a) = 2
        BY <2>4, <4>2
      <4> QED BY <2>2, <4>1, <4>2
    <3>4. InOrder => \A i \in 1 .. Len(Stream') - 2 : Stream'[i].reply # "offer"
      BY <2>4, <3>1, <3>2, <3>3
    <3> QED BY <2>3, <3>1, <3>4 DEF Kept, InOrder, Greeted
  <2>7. CASE pc = "execute"
    <3>1. pc' \in {"lead", "readout"} /\ cmd = "X"
      BY <2>0, <2>7
    <3>2. InOrder => Stream = <<>>
      BY <2>7 DEF InOrder
    <3>3. InOrder => \A i \in DOMAIN Stream' : Stream'[i].reply = "image"
      BY <2>2, <2>4, <3>1, <3>2
    <3> QED BY <2>3, <3>1, <3>3 DEF Kept, InOrder, Greeted
  <2> QED BY <2>0, <2>5, <2>6, <2>7
<1> QED BY <1>1, <1>2 DEF Query, SelectSource, Info, Execute, SendCommand

LEMMA KeptLeadConfirm == ASSUME StreamType, Lead \/ Confirm PROVE Kept
<1>1. CASE Fill
  BY <1>1, KeptFilling DEF Lead, Confirm
<1>2. CASE ReadFails \/ Return("io") \/ Return("paperJam") \/ Return("cancelled")
  BY <1>2, KeptReadFailing, KeptReturning
<1>3. CASE /\ \/ pc = "lead" /\ pc' \in {"confirm", "readout"}
              \/ pc = "confirm" /\ pc' = "readout"
           /\ UNCHANGED <<toSend, wire, buf>>
  BY <1>3, KeptUnmoved
<1>4. CASE Lead
  BY <1>1, <1>2, <1>3, <1>4 DEF Lead
<1>5. CASE Confirm
  BY <1>1, <1>2, <1>3, <1>5 DEF Confirm
<1> QED BY <1>4, <1>5

LEMMA KeptEnding == ASSUME StreamType, Readout \/ ReturnToCaller PROVE Kept
BY KeptUnmoved DEF Readout, ReturnToCaller

LEMMA StreamStep == ThreadType /\ StreamType /\ [Next]_vars => Kept
<1> SUFFICES ASSUME ThreadType, StreamType, [Next]_vars PROVE Kept
  OBVIOUS
<1>1. CASE UNCHANGED vars
  BY <1>1, KeptUnmoved DEF vars
<1>2. CASE Device
  <2>1. pc' = pc /\ buf' = buf
    BY <1>2 DEF Device
  <2>2. CASE Deliver
    BY <2>1, <2>2, DeliverKeeps, KeptInPlace
  <2>3. CASE LinkFails
    BY <2>1, <2>3, KeptUnmoved DEF LinkFails
  <2> QED BY <1>2, <2>2, <2>3 DEF Device
<1>3. CASE DrainCaps \/ DrainAck
  BY <1>3, KeptDrainFirst, KeptDrainRest DEF DrainCaps, DrainAck
<1>4. CASE Caller /\ ~(DrainCaps \/ DrainAck)
  BY <1>4, KeptOpen, KeptFeederAck, KeptConfig, KeptOffer, KeptSends, KeptLeadConfirm, KeptEnding
     DEF Caller
<1> QED BY <1>1, <1>2, <1>3, <1>4 DEF Next

LEMMA ThreadInit == Init => ThreadType /\ Sent
<1> SUFFICES ASSUME Init PROVE ThreadType /\ Sent
  OBVIOUS
<1>1. DeviceType /\ link = "up" /\ pc = "open" /\ cmds = <<>> /\ status = "running" /\ out = 0
  BY DEF Init, DeviceType
<1> QED BY <1>1 DEF ThreadType, Sent, Points, Statuses, Begun

LEMMA StreamInit == Init => StreamType /\ InOrder /\ (~SplitGreeting => Greeted)
<1> SUFFICES ASSUME Init PROVE StreamType /\ InOrder /\ (~SplitGreeting => Greeted)
  OBVIOUS
<1>1. /\ wire = <<>> /\ buf = <<>> /\ pc = "open"
      /\ \E what \in {"ok", "busy", "junk"} : toSend = Greeting(what)
  BY DEF Init
<1>2. PICK what \in {"ok", "busy", "junk"} : toSend = Greeting(what)
  BY <1>1
<1>3. /\ Reply("greeting", what) \in Seq(StreamPart) /\ Lone("greeting", what) \in Seq(StreamPart)
      /\ Len(Lone("greeting", what)) = 1
  <2>1. "greeting" \in Replies /\ what \in Whats
    BY DEF Replies, Whats
  <2>2. \A r \in Replies, w \in Whats : /\ Reply(r, w) \in Seq(StreamPart)
                                         /\ Lone(r, w) \in Seq(StreamPart) /\ Len(Lone(r, w)) = 1
    <3>1. \A r \in Replies, w \in Whats : Reply(r, w) \in Seq(StreamPart)
      BY ReplyIs
    <3>2. \A r \in Replies, w \in Whats : Lone(r, w) \in Seq(StreamPart)
      BY ReplyIs
    <3>3. \A r \in Replies, w \in Whats : Len(Lone(r, w)) = 1
      BY DEF Lone
    <3> QED BY <3>1, <3>2, <3>3
  <2> QED BY <2>1, <2>2, Zenon
<1>4. StreamType
  BY <1>1, <1>2, <1>3 DEF StreamType, Greeting
<1>5. ~SplitGreeting => Len(Stream) <= 1
  <2>1. Len(Stream) = Len(buf) + Len(wire) + Len(toSend)
    BY <1>4, Joined DEF StreamType, Stream
  <2>2. ~SplitGreeting => Len(toSend) = 1
    BY <1>2, <1>3 DEF Greeting
  <2>3. Len(buf) = 0 /\ Len(wire) = 0
    BY <1>1
  <2>4. Len(toSend) = 1 => Len(Stream) <= 1
    BY <2>1, <2>3
  <2> QED BY <2>2, <2>4, Zenon
<1>6. \A i \in DOMAIN Stream : Stream[i].reply \notin {"offer", "image"}
  <2>1. Stream = toSend
    BY <1>1, <1>4, ConcatEmptySeq DEF Stream, StreamType
  <2>2. Reply("greeting", what)[1].reply = "greeting" /\ Reply("greeting", what)[2].reply = "greeting"
        /\ Lone("greeting", what)[1].reply = "greeting"
        /\ Len(Reply("greeting", what)) = 2
    BY DEF Reply, Lone, Part
  <2>3. \A i \in DOMAIN Reply("greeting", what) : i = 1 \/ i = 2
    BY <1>3, <2>2
  <2>4. \A i \in DOMAIN Lone("greeting", what) : i = 1
    BY <1>3
  <2> QED BY <1>2, <2>1, <2>2, <2>3, <2>4 DEF Greeting
<1> QED BY <1>1, <1>4, <1>5, <1>6 DEF InOrder, Greeted

(* Every variable keeps its type, and the commands sent are a beginning of  *)
(* one of the three flows: in particular one ESC S or one ESC D, and ESC X  *)
(* last (RunScan, RunButtonScan).                                           *)
THEOREM TypeCorrect == Spec => []TypeOK
<1>1. ThreadType /\ StreamType => TypeOK
  BY PrefixOfFlow DEF ThreadType, DeviceType, StreamType, TypeOK, Points, Statuses
<1>2. StreamType /\ ThreadType /\ [Next]_vars => StreamType'
  BY StreamStep DEF Kept
<1> QED BY ThreadInit, ThreadStep, StreamInit, <1>1, <1>2, PTL DEF Spec

(* From ESC X on nothing of an earlier reply stands in front of the image   *)
(* data, whatever the device sends and however late, a split greeting       *)
(* included (ReadOfferReply, DrainQuiet, Session::Open).                    *)
THEOREM ImageComesFirst == Spec => []ReadoutStartsClean
<1>1. StreamType /\ InOrder => ReadoutStartsClean
  <2> SUFFICES ASSUME StreamType, InOrder, pc \in {"lead", "confirm", "readout"},
                      NEW s \in {buf, wire, toSend}, NEW i \in DOMAIN s
               PROVE  s[i].reply = "image"
    BY DEF ReadoutStartsClean
  <2>1. \A j \in DOMAIN Stream : Stream[j].reply = "image"
    BY DEF InOrder
  <2>2. /\ Stream \in Seq(StreamPart) /\ Len(Stream) = Len(buf) + Len(wire) + Len(toSend)
        /\ \A j \in 1 .. Len(buf) : Stream[j] = buf[j]
        /\ \A j \in 1 .. Len(wire) : Stream[Len(buf) + j] = wire[j]
        /\ \A j \in 1 .. Len(toSend) : Stream[Len(buf) + Len(wire) + j] = toSend[j]
    BY Joined DEF StreamType, Stream
  <2>3. Len(buf) \in Nat /\ Len(wire) \in Nat /\ Len(toSend) \in Nat /\ i \in 1 .. Len(s)
    BY DEF StreamType
  <2>4. \E j \in 1 .. Len(Stream) : Stream[j] = s[i]
    <3>1. CASE s = buf
      <4>1. i \in 1 .. Len(Stream)
        BY <2>2, <2>3, <3>1
      <4> QED BY <2>2, <2>3, <3>1, <4>1
    <3>2. CASE s = wire
      <4>1. Len(buf) + i \in 1 .. Len(Stream)
        BY <2>2, <2>3, <3>2
      <4> QED BY <2>2, <2>3, <3>2, <4>1
    <3>3. CASE s = toSend
      <4>1. Len(buf) + Len(wire) + i \in 1 .. Len(Stream)
        BY <2>2, <2>3, <3>3
      <4> QED BY <2>2, <2>3, <3>3, <4>1
    <3> QED BY <3>1, <3>2, <3>3
  <2> QED BY <2>1, <2>2, <2>4
<1>2. StreamType /\ ThreadType /\ [Next]_vars => StreamType'
  BY StreamStep DEF Kept
<1>3. StreamType /\ ThreadType /\ InOrder /\ [Next]_vars => InOrder'
  BY StreamStep DEF Kept
<1>4. Init => InOrder
  BY StreamInit
<1> QED BY ThreadInit, ThreadStep, StreamInit, <1>1, <1>2, <1>3, <1>4, PTL DEF Spec
-----------------------------------------------------------------------------
(* An empty feeder.                                                         *)

NoPaper == manners = "good" /\ source = "adf" /\ feeder = "empty"

\* A device with manners sends nothing but the two parts of its capabilities, which are both
\* drained, and then the acknowledgement that says the feeder is empty.
NeverScanned ==
    NoPaper =>
    /\ entry = "scan" /\ cmds \in {<<>>, <<"Q">>, <<"Q", "D">>}
    /\ pc \in {"open", "query", "capsFirst", "capsRest", "select", "feederAck", "return", "done"}
    /\ pc = "capsFirst" => Stream = Reply("caps", "ok") /\ buf = <<>>
    /\ pc = "capsRest" => \A i \in 1 .. Len(toSend) : ~toSend[i].first
    /\ pc = "select" => buf = <<>> /\ wire = <<>> /\ (link = "up" => toSend = <<>>)
    /\ pc = "feederAck" => /\ \A i \in 1 .. Len(buf) : buf[i].what = "empty"
                           /\ \A i \in 1 .. Len(wire) : wire[i].what = "empty"
                           /\ link = "up" => \A i \in 1 .. Len(toSend) : toSend[i].what = "empty"

LEMMA NothingInStream == StreamType /\ Stream = <<>> => buf = <<>> /\ wire = <<>> /\ toSend = <<>>
<1> SUFFICES ASSUME StreamType, Stream = <<>> PROVE buf = <<>> /\ wire = <<>> /\ toSend = <<>>
  OBVIOUS
<1>1. Len(Stream) = Len(buf) + Len(wire) + Len(toSend)
  BY Joined DEF StreamType, Stream
<1>2. Len(Stream) = 0
  OBVIOUS
<1>3. Len(buf) \in Nat /\ Len(wire) \in Nat /\ Len(toSend) \in Nat
  BY DEF StreamType
<1>4. Len(buf) = 0 /\ Len(wire) = 0 /\ Len(toSend) = 0
  BY <1>1, <1>2, <1>3
<1> QED BY <1>4 DEF StreamType

\* What is delivered was sent, and what stays is sent later.
LEMMA DeliverMoves ==
    ASSUME StreamType, Deliver
    PROVE  /\ \A i \in 1 .. Len(toSend') : \E j \in 1 .. Len(toSend) : toSend'[i] = toSend[j]
           /\ \A i \in 1 .. Len(wire') : \/ i \in 1 .. Len(wire) /\ wire'[i] = wire[i]
                                         \/ \E j \in 1 .. Len(toSend) : wire'[i] = toSend[j]
<1>1. PICK n \in 1 .. Len(toSend) : /\ wire' = wire \o SubSeq(toSend, 1, n)
                                    /\ toSend' = SubSeq(toSend, n + 1, Len(toSend))
  BY DEF Deliver
<1> DEFINE front == SubSeq(toSend, 1, n)
           back == SubSeq(toSend, n + 1, Len(toSend))
<1>2. /\ front \in Seq(StreamPart) /\ Len(front) = n
      /\ \A i \in 1 .. Len(front) : front[i] = toSend[i] /\ i \in 1 .. Len(toSend)
  BY DEF StreamType
<1>3. \A i \in 1 .. Len(back) : n + i \in 1 .. Len(toSend) /\ back[i] = toSend[n + i]
  BY DEF StreamType
<1>4. wire' = wire \o front /\ toSend' = back
  BY <1>1
<1> HIDE DEF front, back
<1>5. /\ Len(wire') = Len(wire) + Len(front) /\ Len(wire) \in Nat /\ Len(front) \in Nat
      /\ \A i \in 1 .. Len(wire) : wire'[i] = wire[i]
      /\ \A i \in 1 .. Len(wire') : i \notin 1 .. Len(wire) =>
            i - Len(wire) \in 1 .. Len(front) /\ wire'[i] = front[i - Len(wire)]
  <2>1. \A s, t \in Seq(StreamPart) :
           /\ Len(s \o t) = Len(s) + Len(t) /\ Len(s) \in Nat /\ Len(t) \in Nat
           /\ \A i \in 1 .. Len(s) : (s \o t)[i] = s[i]
           /\ \A i \in 1 .. Len(s \o t) : i \notin 1 .. Len(s) =>
                 i - Len(s) \in 1 .. Len(t) /\ (s \o t)[i] = t[i - Len(s)]
    OBVIOUS
  <2> QED BY <1>2, <1>4, <2>1, Zenon DEF StreamType
<1>6. ASSUME NEW i \in 1 .. Len(wire'), i \notin 1 .. Len(wire)
      PROVE  \E j \in 1 .. Len(toSend) : wire'[i] = toSend[j]
  BY <1>2, <1>5, <1>6
<1>7. \A i \in 1 .. Len(toSend') : n + i \in 1 .. Len(toSend) /\ toSend'[i] = toSend[n + i]
  BY <1>3, <1>4
<1> QED BY <1>5, <1>6, <1>7

LEMMA FillMoves ==
    ASSUME StreamType, Fill
    PROVE  \A i \in 1 .. Len(buf') : \/ i \in 1 .. Len(buf) /\ buf'[i] = buf[i]
                                     \/ \E j \in 1 .. Len(wire) : buf'[i] = wire[j]
<1>1. /\ Len(buf') = Len(buf) + Len(wire) /\ Len(buf) \in Nat /\ Len(wire) \in Nat
      /\ \A i \in 1 .. Len(buf) : buf'[i] = buf[i]
      /\ \A i \in 1 .. Len(buf') : i \notin 1 .. Len(buf) =>
            i - Len(buf) \in 1 .. Len(wire) /\ buf'[i] = wire[i - Len(buf)]
  BY DEF StreamType, Fill
<1> QED BY <1>1

LEMMA NeverScannedDevice ==
    ASSUME ThreadType, StreamType, NeverScanned, Device
    PROVE  NeverScanned'
<1> SUFFICES ASSUME NoPaper' PROVE NeverScanned'
  BY DEF NeverScanned
<1>1. /\ NoPaper /\ UNCHANGED <<entry, source, feeder, manners, pc, cmds, buf>>
      /\ Deliver \/ LinkFails
  BY DEF Device, call, device, NoPaper
<1>2. CASE Deliver
  <2>1. link = "up" /\ link' = link /\ Stream' = Stream
    BY <1>1, <1>2, DeliverKeeps DEF Deliver
  <2>2. toSend = <<>> => FALSE
    BY <1>2 DEF Deliver
  <2> QED BY <1>1, <1>2, <2>1, <2>2, DeliverMoves DEF NeverScanned
<1>3. CASE LinkFails
  <2>1. UNCHANGED <<wire, toSend>> /\ link' # "up" /\ Stream' = Stream
    BY <1>1, <1>3 DEF LinkFails, Stream
  <2> QED BY <1>1, <2>1 DEF NeverScanned
<1> QED BY <1>1, <1>2, <1>3

LEMMA NeverScannedCaller ==
    ASSUME ThreadType, Sent, StreamType, Greeted, NeverScanned, Caller
    PROVE  NeverScanned'
<1> SUFFICES ASSUME NoPaper' PROVE NeverScanned'
  BY DEF NeverScanned
<1>1. NoPaper /\ UNCHANGED <<entry, source, feeder, manners, link>>
  BY DEF Caller, call, device, NoPaper
<1>2. /\ entry = "scan" /\ cmds \in {<<>>, <<"Q">>, <<"Q", "D">>}
      /\ pc \in {"open", "query", "capsFirst", "capsRest", "select", "feederAck", "return", "done"}
  BY <1>1 DEF NeverScanned
<1>3. \/ Open \/ Query \/ DrainFirst("capsFirst", "capsRest") \/ DrainRest("capsRest", "select")
      \/ SelectSource \/ FeederAck \/ ReturnToCaller
  BY <1>2 DEF Caller, Open, DrainCaps, DrainAck, DrainFirst, DrainRest, Config, Info, Offer, Execute,
     Lead, Confirm, Readout
<1>4. CASE pc' \in {"return", "done"} /\ cmds' = cmds
  BY <1>1, <1>2, <1>4 DEF NeverScanned
<1>5. CASE Open /\ pc' # "return"
  <2>1. pc' = "query" /\ cmds' = cmds
    BY <1>5 DEF Open, ReadFails, Return
  <2> QED BY <1>1, <1>2, <2>1 DEF NeverScanned
<1>6. CASE Query /\ pc' # "return"
  <2>1. PICK a \in Answer("Q") : toSend' = toSend \o a
    BY <1>2, <1>6 DEF Query, SendCommand, Return
  <2>2. pc' = "capsFirst" /\ UNCHANGED <<wire, buf>> /\ pc = "query" /\ cmds' = Append(cmds, "Q")
    BY <1>2, <1>6 DEF Query, SendCommand, Return
  <2>3. a = Reply("caps", "ok")
    BY <1>1, AnswerIs DEF ThreadType, NoPaper
  <2>4. a \in Seq(StreamPart)
    BY <2>3, ReplyIs DEF Replies, Whats
  <2>5. Stream' = Stream \o a /\ Stream = <<>>
    BY <2>1, <2>2, <2>4, SendAppends DEF Greeted
  <2>6. Stream' = Reply("caps", "ok") /\ buf' = <<>>
    BY <2>2, <2>3, <2>4, <2>5, NothingInStream
  <2>7. cmds' = <<"Q">>
    BY <2>2, Appended DEF Sent
  <2> QED BY <1>1, <1>2, <2>2, <2>6, <2>7 DEF NeverScanned
<1>7. CASE DrainFirst("capsFirst", "capsRest") /\ pc' # "return"
  <2>1. pc' = "capsRest" /\ pc = "capsFirst" /\ wire # <<>> /\ UNCHANGED <<toSend, cmds>>
    BY <1>7 DEF DrainFirst, ReadFails, Return
  <2>2. Stream = Reply("caps", "ok") /\ buf = <<>>
    BY <1>1, <2>1 DEF NeverScanned
  <2>3. /\ Len(Stream) = Len(buf) + Len(wire) + Len(toSend)
        /\ \A i \in 1 .. Len(toSend) : Stream[Len(buf) + Len(wire) + i] = toSend[i]
    BY Joined DEF StreamType, Stream
  <2>4. Len(Stream) = 2 /\ ~Stream[2].first
    BY <2>2, ReplyIs DEF Replies, Whats
  <2>5. Len(wire) \in Nat \ {0} /\ Len(buf) = 0 /\ Len(toSend) \in Nat
    BY <2>1, <2>2 DEF StreamType
  <2>6. \A i \in 1 .. Len(toSend) : Len(buf) + Len(wire) + i = 2
    <3>1. Len(wire) + Len(toSend) = 2
      <4>1. Len(Stream) = Len(buf) + Len(wire) + Len(toSend) /\ Len(Stream) = 2
        BY <2>3, <2>4, Zenon
      <4>2. 2 = 0 + Len(wire) + Len(toSend)
        BY <2>5, <4>1, Zenon
      <4> QED BY <2>5, <4>2
    <3> QED BY <2>5, <3>1
  <2>7. \A i \in 1 .. Len(toSend) : ~toSend[i].first
    BY <2>3, <2>4, <2>6
  <2> QED BY <1>1, <1>2, <2>1, <2>7 DEF NeverScanned
<1>8. CASE DrainRest("capsRest", "select") /\ pc' # "return"
  <2>1. CASE Fill
    <3>1. UNCHANGED <<pc, toSend, cmds>> /\ pc = "capsRest"
      BY <1>8, <2>1 DEF DrainRest, Fill
    <3> QED BY <1>1, <1>2, <3>1 DEF NeverScanned
  <2>2. CASE pc = "capsRest" /\ GoesQuiet /\ buf' = <<>> /\ pc' = "select" /\ UNCHANGED <<cmds, toSend, wire>>
    <3>1. toSend # <<>> => ~Head(toSend).first
      <4> SUFFICES ASSUME toSend # <<>> PROVE ~Head(toSend).first
        OBVIOUS
      <4>1. 1 \in 1 .. Len(toSend) /\ Head(toSend) = toSend[1]
        BY DEF StreamType
      <4> QED BY <1>1, <2>2, <4>1 DEF NeverScanned
    <3>2. wire = <<>> /\ (link = "up" => toSend = <<>>)
      BY <1>1, <2>2, <3>1 DEF GoesQuiet, TimesOut, NoPaper
    <3> QED BY <1>1, <1>2, <2>2, <3>2 DEF NeverScanned
  <2> QED BY <1>8, <2>1, <2>2 DEF DrainRest, Return
<1>9. CASE SelectSource /\ pc' # "return"
  <2>1. PICK a \in Answer("D") : toSend' = toSend \o a
    BY <1>1, <1>9 DEF SelectSource, SendCommand, Return, NoPaper
  <2>2. pc' = "feederAck" /\ UNCHANGED <<wire, buf>> /\ pc = "select" /\ cmds' = Append(cmds, "D")
    BY <1>1, <1>9 DEF SelectSource, SendCommand, Return, NoPaper
  <2>3. a = Lone("ack", "empty")
    BY <1>1, AnswerIs DEF ThreadType, NoPaper
  <2>4. a \in Seq(StreamPart) /\ Len(a) = 1 /\ a[1].what = "empty"
    BY <2>3, ReplyIs DEF Replies, Whats
  <2>5. buf = <<>> /\ wire = <<>> /\ (link = "up" => toSend = <<>>)
    BY <1>1, <2>2 DEF NeverScanned
  <2>6. link = "up" => \A i \in 1 .. Len(toSend') : toSend'[i].what = "empty"
    <3> SUFFICES ASSUME link = "up" PROVE \A i \in 1 .. Len(toSend') : toSend'[i].what = "empty"
      OBVIOUS
    <3>1. toSend' = a
      BY <2>1, <2>4, <2>5, ConcatEmptySeq
    <3>2. \A i \in 1 .. Len(a) : i = 1
      BY <2>4
    <3> QED BY <2>4, <3>1, <3>2
  <2>7. cmds' = <<"Q", "D">>
    BY <2>2, Appended DEF Sent
  <2>8. buf' = <<>> /\ wire' = <<>> /\ \A i \in 1 .. Len(<<>>) : FALSE
    BY <2>2, <2>5
  <2> QED BY <1>1, <1>2, <2>2, <2>6, <2>7, <2>8 DEF NeverScanned
<1>10. CASE FeederAck /\ pc' # "return"
  <2>1. CASE Fill
    <3>1. UNCHANGED <<pc, toSend, cmds>> /\ pc = "feederAck" /\ wire' = <<>>
      BY <1>10, <2>1 DEF FeederAck, Fill
    <3>2. \A i \in 1 .. Len(buf') : buf'[i].what = "empty"
      BY <1>1, <2>1, <3>1, FillMoves DEF NeverScanned
    <3> QED BY <1>1, <1>2, <3>1, <3>2 DEF NeverScanned
  <2>2. CASE buf # <<>> /\ Head(buf).what # "empty" /\ pc = "feederAck"
    <3>1. 1 \in 1 .. Len(buf) /\ Head(buf) = buf[1]
      BY <2>2 DEF StreamType
    <3> QED BY <1>1, <2>2, <3>1 DEF NeverScanned
  <2> QED BY <1>10, <2>1, <2>2 DEF FeederAck, Return
<1>11. pc' \in {"return", "done"} => cmds' = cmds
  BY <1>3 DEF Open, Query, DrainFirst, DrainRest, SelectSource, FeederAck, ReturnToCaller, ReadFails,
     Return, Fill, SendCommand
<1>12. ReturnToCaller => pc' = "done"
  BY DEF ReturnToCaller
<1> QED BY <1>3, <1>4, <1>5, <1>6, <1>7, <1>8, <1>9, <1>10, <1>11, <1>12

\* None of what is sent to such a device is ESC X.
LEMMA NotAsked == \A c \in {<<>>, <<"Q">>, <<"Q", "D">>} : ~Contains(c, "X")
BY DEF Contains

LEMMA NeverScannedInit == Init => NeverScanned
<1> SUFFICES ASSUME Init, NoPaper PROVE NeverScanned
  BY DEF NeverScanned
<1>1. pc = "open" /\ cmds = <<>> /\ entry = "scan"
  BY DEF Init, NoPaper
<1> QED BY <1>1 DEF NeverScanned

(* A device with manners that says its feeder is empty is never asked to    *)
(* scan, whatever the connection does (RunScan: ReadAdfAck before ESC X).   *)
THEOREM EmptyFeederIsNotScanned ==
    ASSUME SplitGreeting = FALSE PROVE Spec => []EmptyFeederIsLeftAlone
<1>1. NeverScanned => EmptyFeederIsLeftAlone
  BY NotAsked DEF NeverScanned, EmptyFeederIsLeftAlone, NoPaper
<1>2. StreamType /\ ThreadType /\ [Next]_vars => StreamType'
  BY StreamStep DEF Kept
<1>3. StreamType /\ ThreadType /\ Greeted /\ [Next]_vars => Greeted'
  BY StreamStep DEF Kept
<1>4. Init => Greeted
  BY StreamInit
<1>5. ThreadType /\ Sent /\ StreamType /\ Greeted /\ NeverScanned /\ [Next]_vars => NeverScanned'
  <2>1. UNCHANGED vars /\ NeverScanned => NeverScanned'
    BY DEF NeverScanned, NoPaper, Stream, vars, call, device
  <2> QED BY <2>1, NeverScannedDevice, NeverScannedCaller DEF Next
<1> QED BY ThreadInit, ThreadStep, StreamInit, NeverScannedInit, <1>1, <1>2, <1>3, <1>4, <1>5, PTL DEF Spec
-----------------------------------------------------------------------------
(* A device with manners on a connection that holds.                        *)

\* What the caller's job and the device can be, RunScan's parameters being valid.
Plausible ==
    /\ source = "flatbed" => feeder = "loaded"
    /\ entry = "button" => feeder # "empty"
    /\ entry = "scan" => usable

FeederStops == source = "adf" /\ feeder \in {"jam", "stop"}

\* The parts in the stream are exactly those of the reply that is being read.
Expected ==
    /\ pc = "open" => Stream = Lone("greeting", IF busy THEN "busy" ELSE "ok") /\ buf = <<>>
    /\ pc \in {"query", "select", "info", "execute"} => Stream = <<>>
    /\ pc = "capsFirst" => Stream = Reply("caps", "ok") /\ buf = <<>>
    /\ pc = "capsRest" => Stream = Reply("caps", "ok") /\ buf # <<>>
    /\ pc = "feederAck" =>
          \/ feeder = "empty" /\ Stream = Lone("ack", "empty")
          \/ feeder # "empty" /\ Stream = Reply("ack", "loaded")
    /\ pc = "ackFirst" => Stream = Reply("ack", "ok") /\ buf = <<>>
    /\ pc = "ackRest" => (Stream = Reply("ack", "ok") \/ Stream = Reply("ack", "loaded")) /\ buf # <<>>
    /\ pc = "config" => Stream = Reply("config", "ok")
    /\ pc = "offer" => Stream = Reply("offer", "ok")
    /\ pc = "lead" => Stream \in Image
    /\ pc = "confirm" => Stream \in Image /\ buf # <<>> /\ Stream[1].what \in {"jam", "stop"}

\* What the thread has come to know of the device.
Learned ==
    /\ pc \notin {"open", "return", "done"} => ~busy
    /\ pc \in {"capsFirst", "capsRest", "select", "feederAck", "ackFirst", "ackRest", "info", "offer",
               "execute", "lead", "confirm", "readout"} => usable
    /\ pc = "config" => entry = "button"
    /\ pc \in {"ackRest", "info", "offer", "execute", "lead", "confirm", "readout"} => ~NoPaper
    /\ pc = "readout" => ~FeederStops

\* The status the device's answers call for.
Deserved ==
    /\ busy => status = "busy"
    /\ ~busy /\ ~usable => status = "protocol"
    /\ ~busy /\ usable /\ source = "adf" /\ feeder = "empty" => status = "noPaper"
    /\ ~busy /\ usable /\ FeederStops => status = (IF feeder = "jam" THEN "paperJam" ELSE "cancelled")
    /\ ~busy /\ usable /\ ~FeederStops /\ ~(source = "adf" /\ feeder = "empty") =>
          /\ cmds \in Flows /\ status \notin {"busy", "noPaper", "paperJam"}
          /\ status = "cancelled" => entry = "scan"

Good == manners = "good" /\ link = "up"

Told == Good => Expected /\ Learned /\ (pc \in {"return", "done"} => Deserved)

LEMMA StreamJoined ==
    ASSUME StreamType
    PROVE  /\ Stream \in Seq(StreamPart) /\ Len(Stream) = Len(buf) + Len(wire) + Len(toSend)
           /\ \A i \in 1 .. Len(buf) : Stream[i] = buf[i]
           /\ \A i \in 1 .. Len(toSend) : Stream[Len(buf) + Len(wire) + i] = toSend[i]
BY Joined DEF StreamType, Stream

\* While something is to come no read fails, and a drain does not end between two parts.
LEMMA NothingFails == ASSUME StreamType, Good, buf # Stream PROVE ~Closed /\ ~TimesOut
<1>1. <<>> \o <<>> = <<>> /\ buf \o <<>> = buf
  BY ConcatEmptySeq DEF StreamType
<1>2. wire = <<>> /\ toSend = <<>> => buf = Stream
  BY <1>1, Zenon DEF Stream
<1> QED BY <1>2 DEF Closed, TimesOut, Good

LEMMA FrontOfStream ==
    ASSUME StreamType, buf # <<>>
    PROVE  Stream # <<>> /\ Head(buf) = Stream[1] /\ Len(buf) \in 1 .. Len(Stream)
<1>1. /\ Stream \in Seq(StreamPart) /\ Len(Stream) = Len(buf) + Len(wire) + Len(toSend)
      /\ \A i \in 1 .. Len(buf) : Stream[i] = buf[i]
  BY Joined DEF StreamType, Stream
<1>2. Len(buf) \in Nat \ {0} /\ Len(wire) \in Nat /\ Len(toSend) \in Nat /\ Head(buf) = buf[1]
  BY DEF StreamType
<1>3. Len(Stream) # 0
  BY <1>1, <1>2
<1> QED BY <1>1, <1>2, <1>3

\* A buffer as long as the stream is all of it.
LEMMA AllThere ==
    ASSUME StreamType, Len(buf) = Len(Stream)
    PROVE  buf = Stream /\ wire = <<>> /\ toSend = <<>>
<1>1. /\ Stream \in Seq(StreamPart) /\ Len(Stream) = Len(buf) + Len(wire) + Len(toSend)
      /\ \A i \in 1 .. Len(buf) : Stream[i] = buf[i]
  BY Joined DEF StreamType, Stream
<1>2. Len(buf) \in Nat /\ Len(wire) \in Nat /\ Len(toSend) \in Nat
  BY DEF StreamType
<1>3. Len(wire) = 0 /\ Len(toSend) = 0
  BY <1>1, <1>2
<1>4. wire = <<>> /\ toSend = <<>>
  BY <1>3 DEF StreamType
<1>5. buf = Stream
  BY <1>1, SeqEqual DEF StreamType
<1> QED BY <1>4, <1>5

\* A reply with two parts is quiet only at its end: what is left of it is its second part.
LEMMA QuietAtTheEnd ==
    ASSUME StreamType, Good, buf # <<>>, GoesQuiet, NEW r \in Replies, NEW w \in Whats, Stream = Reply(r, w)
    PROVE  buf = Stream /\ wire = <<>> /\ toSend = <<>>
<1>1. wire = <<>> /\ (toSend # <<>> => Head(toSend).first)
  BY DEF GoesQuiet, TimesOut, Good
<1>2. /\ Len(Stream) = Len(buf) + Len(wire) + Len(toSend)
      /\ \A i \in 1 .. Len(toSend) : Stream[Len(buf) + Len(wire) + i] = toSend[i]
  BY StreamJoined
<1>3. Len(Stream) = 2 /\ ~Stream[2].first
  BY ReplyIs
<1>4. Len(buf) \in Nat \ {0} /\ Len(wire) = 0 /\ Len(toSend) \in Nat
  BY <1>1 DEF StreamType
<1>5. 2 = Len(buf) + Len(toSend)
  <2>1. 2 = Len(buf) + Len(wire) + Len(toSend)
    BY <1>2, <1>3, Zenon
  <2> QED BY <1>4, <2>1
<1>6. CASE Len(toSend) = 0
  <2>1. Len(buf) = 2
    BY <1>4, <1>5, <1>6
  <2> QED BY <1>3, <2>1, AllThere
<1>7. CASE Len(toSend) # 0
  <2>1. Len(buf) + Len(wire) + 1 = 2 /\ 1 \in 1 .. Len(toSend)
    BY <1>4, <1>5, <1>7
  <2>2. Stream[2] = toSend[1]
    BY <1>2, <2>1
  <2>3. toSend # <<>> /\ Head(toSend) = toSend[1]
    BY <1>7 DEF StreamType
  <2> QED BY <1>1, <1>3, <2>2, <2>3
<1> QED BY <1>6, <1>7

\* Of an image there is at least the first part.
LEMMA ImageLead ==
    ASSUME ThreadType, Stream \in Image
    PROVE  /\ Stream # <<>>
           /\ FeederStops => Len(Stream) = 1 /\ Stream[1].what = feeder
           /\ ~FeederStops => \E lead \in Whats : Stream = Reply("image", lead)
<1>1. {"ok", "jam", "stop"} \subseteq Whats /\ "image" \in Replies
  BY DEF Whats, Replies
<1>2. CASE FeederStops
  <2>1. Stream = Lone("image", feeder) /\ feeder \in Whats
    BY <1>1, <1>2, ImageIs DEF ThreadType, FeederStops
  <2>2. Len(Stream) = 1 /\ Stream[1].what = feeder
    <3>1. \A r, w : Len(Lone(r, w)) = 1 /\ Lone(r, w)[1].what = w
      BY DEF Lone, Part
    <3> QED BY <1>1, <2>1, <3>1, Zenon
  <2> QED BY <1>2, <2>2
<1>3. CASE ~FeederStops
  <2>1. PICK lead \in Whats : Stream = Reply("image", lead)
    BY <1>1, <1>3, ImageIs DEF ThreadType, FeederStops
  <2>2. Len(Stream) = 2
    <3>1. \A r, w : Len(Reply(r, w)) = 2
      BY DEF Reply
    <3> QED BY <1>1, <2>1, <3>1, Zenon
  <2> QED BY <1>3, <2>1, <2>2
<1> QED BY <1>2, <1>3
\* A step of the thread while all this holds.
Going ==
    /\ ThreadType /\ Sent /\ StreamType /\ Plausible /\ Good /\ Expected /\ Learned
    /\ UNCHANGED <<call, device, link>>

ToldNext == Expected' /\ Learned' /\ (pc' \in {"return", "done"} => Deserved')

LEMMA Named ==
    /\ {"greeting", "caps", "config", "ack", "offer", "image"} \subseteq Replies
    /\ {"ok", "loaded", "empty", "jam", "stop"} \subseteq Whats
BY DEF Replies, Whats

LEMMA Sizes ==
    \A r, w : /\ Len(Reply(r, w)) = 2 /\ Reply(r, w) # <<>> /\ Reply(r, w)[1] = Part(r, w, TRUE)
              /\ Len(Lone(r, w)) = 1 /\ Lone(r, w) # <<>> /\ Lone(r, w)[1] = Part(r, w, TRUE)
              /\ Part(r, w, TRUE).what = w
BY DEF Reply, Lone, Part

LEMMA Unchanged ==
    ASSUME UNCHANGED <<call, device, link>>
    PROVE  /\ UNCHANGED <<entry, source, usable, manners, busy, feeder, link>>
           /\ Image' = Image /\ NoPaper' = NoPaper /\ FeederStops' = FeederStops
BY DEF call, device, Image, NoPaper, FeederStops

LEMMA Standing ==
    ASSUME Going
    PROVE  /\ UNCHANGED <<entry, source, usable, manners, busy, feeder, link>>
           /\ Image' = Image /\ NoPaper' = NoPaper /\ FeederStops' = FeederStops
BY Unchanged DEF Going

LEMMA ToldReturns ==
    ASSUME pc' \in {"return", "done"}, Deserved'
    PROVE  ToldNext
BY DEF ToldNext, Expected, Learned

LEMMA ToldFills ==
    ASSUME Going, Fill, pc \notin {"open", "capsFirst", "ackFirst", "return", "done"}
    PROVE  ToldNext
<1>1. Stream' = Stream /\ StreamType' /\ pc' = pc
  BY FillKeeps DEF Fill, Going
<1>2. buf' # <<>>
  <2>1. \A s, t \in Seq(StreamPart) : t # <<>> => s \o t # <<>>
    OBVIOUS
  <2> QED BY <2>1, Zenon DEF Fill, Going, StreamType
<1>3. Expected'
  BY <1>1, <1>2, Unchanged DEF Going, Expected
<1>4. Learned'
  BY <1>1, Unchanged DEF Going, Learned
<1> QED BY <1>1, <1>3, <1>4 DEF ToldNext

LEMMA ToldOpen == ASSUME Going, Open PROVE ToldNext
<1>1. pc = "open" /\ buf = <<>> /\ Stream = Lone("greeting", IF busy THEN "busy" ELSE "ok")
  BY DEF Open, Going, Expected
<1>2. ~ReadFails
  BY <1>1, Sizes, NothingFails DEF Going, ReadFails
<1>3. /\ wire # <<>> /\ wire' = <<>> /\ UNCHANGED <<toSend, buf>>
      /\ \/ Head(wire).what = "ok" /\ pc' = "query" /\ UNCHANGED status
         \/ Head(wire).what = "busy" /\ pc' = "return" /\ status' = "busy"
         \/ Head(wire).what = "junk" /\ pc' = "return" /\ status' = "protocol"
  BY <1>2 DEF Open
<1>4. wire = Stream /\ toSend = <<>>
  <2>1. Len(Stream) = Len(wire) + Len(toSend)
    <3>1. Len(Stream) = Len(buf) + Len(wire) + Len(toSend) /\ Len(buf) = 0
      BY <1>1, StreamJoined DEF Going
    <3> QED BY <3>1 DEF Going, StreamType
  <2>2. Len(Stream) = 1
    BY <1>1, Sizes, Zenon
  <2>3. Len(wire) \in Nat \ {0} /\ Len(toSend) \in Nat
    BY <1>3 DEF Going, StreamType
  <2>4. Len(toSend) = 0
    <3>1. 1 = Len(wire) + Len(toSend)
      BY <2>1, <2>2, Zenon
    <3> QED BY <2>3, <3>1
  <2>5. toSend = <<>>
    BY <2>4 DEF Going, StreamType
  <2>6. wire \o <<>> = wire /\ <<>> \o wire = wire
    BY ConcatEmptySeq DEF Going, StreamType
  <2> QED BY <1>1, <2>5, <2>6, Zenon DEF Stream
<1>5. Head(wire).what = (IF busy THEN "busy" ELSE "ok")
  <2>1. Head(wire) = wire[1]
    BY <1>3 DEF Going, StreamType
  <2>2. \A what : Lone("greeting", what)[1].what = what
    BY DEF Lone, Part
  <2> QED BY <1>1, <1>4, <2>1, <2>2, Zenon
<1>6. Stream' = <<>>
  BY <1>1, <1>3, <1>4 DEF Stream
<1>7. CASE busy
  BY <1>3, <1>5, <1>7, Unchanged, ToldReturns DEF Deserved, Going
<1>8. CASE ~busy
  <2>1. pc' = "query"
    BY <1>3, <1>5, <1>8
  <2> QED BY <1>6, <1>8, <2>1, Unchanged DEF ToldNext, Expected, Learned, Going
<1> QED BY <1>7, <1>8

\* A command's reply is all that is in the stream.
LEMMA ReplyFollows ==
    ASSUME StreamType, Stream = <<>>, NEW a \in Seq(StreamPart), toSend' = toSend \o a, UNCHANGED <<wire, buf>>
    PROVE  Stream' = a /\ buf' = <<>>
<1>1. Stream' = Stream \o a
  BY SendAppends
<1>2. <<>> \o a = a
  BY ConcatEmptySeq
<1> QED BY <1>1, <1>2, NothingInStream

LEMMA Answers ==
    ASSUME Going, Stream = <<>>, NEW cmd \in {"Q", "K", "S", "D", "I", "X"}, NEW next, SendCommand(cmd, next)
    PROVE  pc' = next /\ Stream' \in Answer(cmd) /\ buf' = <<>>
<1>1. link = "up"
  BY DEF Going, Good
<1>2. PICK a \in Answer(cmd) : toSend' = toSend \o a
  BY <1>1 DEF SendCommand
<1>3. a \in Seq(StreamPart)
  BY AnswerType DEF Going, ThreadType
<1> QED BY <1>1, <1>2, <1>3, ReplyFollows DEF SendCommand, Going

LEMMA ToldSends == ASSUME Going, Query \/ SelectSource \/ Info \/ Execute PROVE ToldNext
<1>1. manners = "good" /\ DeviceType /\ pc \in {"query", "select", "info", "execute"} /\ Stream = <<>>
  BY DEF Going, Good, Expected, ThreadType, Query, SelectSource, Info, Execute
<1> USE <1>1
<1>2. CASE Query /\ entry = "scan"
  <2>1. pc' = "capsFirst" /\ Stream' \in Answer("Q") /\ buf' = <<>>
    BY <1>2, Answers DEF Query
  <2>2. Stream' = Reply("caps", "ok")
    BY <2>1, AnswerIs
  <2>3. ~busy /\ usable
    BY <1>2 DEF Query, Going, Learned, Plausible
  <2> QED BY <2>1, <2>2, <2>3, Unchanged DEF ToldNext, Expected, Learned, Going
<1>3. CASE Query /\ entry # "scan"
  <2>1. pc' = "config" /\ Stream' \in Answer("K") /\ buf' = <<>>
    BY <1>3, Answers DEF Query
  <2>2. Stream' = Reply("config", "ok")
    BY <2>1, AnswerIs
  <2>3. ~busy /\ entry = "button"
    BY <1>3 DEF Query, Going, Learned, ThreadType, DeviceType
  <2> QED BY <2>1, <2>2, <2>3, Unchanged DEF ToldNext, Expected, Learned, Going
<1>4. CASE SelectSource /\ source = "adf"
  <2>1. pc' = "feederAck" /\ Stream' \in Answer("D") /\ buf' = <<>>
    BY <1>4, Answers DEF SelectSource
  <2>2. \/ feeder = "empty" /\ Stream' = Lone("ack", "empty")
        \/ feeder # "empty" /\ Stream' = Reply("ack", "loaded")
    BY <2>1, AnswerIs
  <2>3. ~busy /\ usable
    BY <1>4 DEF SelectSource, Going, Learned
  <2> QED BY <2>1, <2>2, <2>3, Unchanged DEF ToldNext, Expected, Learned, Going
<1>5. CASE SelectSource /\ source # "adf"
  <2>1. pc' = "ackFirst" /\ Stream' \in Answer("S") /\ buf' = <<>>
    BY <1>5, Answers DEF SelectSource
  <2>2. Stream' = Reply("ack", "ok")
    BY <2>1, AnswerIs
  <2>3. ~busy /\ usable
    BY <1>5 DEF SelectSource, Going, Learned
  <2> QED BY <2>1, <2>2, <2>3, Unchanged DEF ToldNext, Expected, Learned, Going
<1>6. CASE Info
  <2>1. pc' = "offer" /\ Stream' \in Answer("I") /\ buf' = <<>>
    BY <1>6, Answers DEF Info
  <2>2. Stream' = Reply("offer", "ok")
    BY <2>1, AnswerIs
  <2>3. ~busy /\ usable /\ ~NoPaper
    BY <1>6 DEF Info, Going, Learned
  <2> QED BY <2>1, <2>2, <2>3, Unchanged DEF ToldNext, Expected, Learned, Going
<1>7. CASE Execute
  <2>1. pc' = (IF source = "adf" THEN "lead" ELSE "readout") /\ Stream' \in Answer("X") /\ buf' = <<>>
    BY <1>7, Answers DEF Execute
  <2>2. Stream' \in Image
    BY <2>1, AnswerIs
  <2>3. ~busy /\ usable /\ ~NoPaper
    BY <1>7 DEF Execute, Going, Learned
  <2> QED BY <2>1, <2>2, <2>3, Unchanged DEF ToldNext, Expected, Learned, Going, FeederStops
<1> QED BY <1>2, <1>3, <1>4, <1>5, <1>6, <1>7

LEMMA ToldDrainFirst ==
    ASSUME Going, DrainFirst("capsFirst", "capsRest") \/ DrainFirst("ackFirst", "ackRest")
    PROVE  ToldNext
<1>1. /\ buf = <<>> /\ Stream # <<>>
      /\ pc = "capsFirst" => Stream = Reply("caps", "ok") /\ usable /\ ~busy
      /\ pc = "ackFirst" => Stream = Reply("ack", "ok") /\ usable /\ ~busy /\ ~NoPaper
  BY Sizes DEF DrainFirst, Going, Expected, Learned, Sent, NoPaper
<1>2. ~ReadFails
  BY <1>1, NothingFails DEF Going, ReadFails
<1>3. /\ wire # <<>> /\ buf' = buf \o wire /\ wire' = <<>> /\ UNCHANGED toSend
      /\ \/ pc = "capsFirst" /\ pc' = "capsRest"
         \/ pc = "ackFirst" /\ pc' = "ackRest"
  BY <1>2 DEF DrainFirst
<1>4. Stream' = Stream
  BY <1>3, FillKeeps DEF Going
<1>5. buf' # <<>>
  BY <1>1, <1>3, ConcatEmptySeq DEF Going, StreamType
<1> QED BY <1>1, <1>3, <1>4, <1>5, Unchanged DEF ToldNext, Expected, Learned, Going

LEMMA ToldDrainRest ==
    ASSUME Going, DrainRest("capsRest", "select") \/ DrainRest("ackRest", "info")
    PROVE  ToldNext
<1>1. /\ buf # <<>> /\ usable /\ ~busy /\ pc \in {"capsRest", "ackRest"}
      /\ pc = "ackRest" => ~NoPaper
      /\ Stream = Reply("caps", "ok") \/ Stream = Reply("ack", "ok") \/ Stream = Reply("ack", "loaded")
  BY DEF DrainRest, Going, Expected, Learned
<1>2. CASE Fill
  BY <1>1, <1>2, ToldFills
<1>3. CASE Closed
  <2>1. buf = Stream
    BY <1>3, NothingFails DEF Going
  <2> QED BY <1>3 DEF Closed, Going, Good
<1>4. CASE /\ GoesQuiet /\ buf' = <<>> /\ UNCHANGED <<wire, toSend>>
           /\ \/ pc = "capsRest" /\ pc' = "select"
              \/ pc = "ackRest" /\ pc' = "info"
  <2>1. wire = <<>> /\ toSend = <<>>
    BY <1>1, <1>4, QuietAtTheEnd, Named DEF Going
  <2>2. Stream' = <<>>
    BY <1>4, <2>1 DEF Stream
  <2> QED BY <1>1, <1>4, <2>2, Unchanged DEF ToldNext, Expected, Learned, Going
<1> QED BY <1>2, <1>3, <1>4 DEF DrainRest
LEMMA ToldFeederAck == ASSUME Going, FeederAck PROVE ToldNext
<1>1. /\ usable /\ ~busy /\ source = "adf" /\ pc = "feederAck"
      /\ \/ feeder = "empty" /\ Stream = Lone("ack", "empty")
         \/ feeder # "empty" /\ Stream = Reply("ack", "loaded")
  BY DEF FeederAck, Going, Expected, Learned, Sent
<1>2. CASE Fill
  BY <1>1, <1>2, ToldFills
<1>3. CASE buf = <<>> /\ (Closed \/ TimesOut)
  BY <1>1, <1>3, Sizes, NothingFails DEF Going
<1>4. CASE buf # <<>>
  <2>1. /\ feeder = "empty" => Head(buf).what = "empty"
        /\ feeder # "empty" => Head(buf).what = "loaded"
    <3>1. Head(buf) = Stream[1]
      BY <1>4, FrontOfStream DEF Going
    <3>2. Lone("ack", "empty")[1].what = "empty" /\ Reply("ack", "loaded")[1].what = "loaded"
      BY DEF Lone, Reply, Part
    <3> QED BY <1>1, <3>1, <3>2, Zenon
  <2>2. CASE feeder = "empty"
    <3>1. pc' = "return" /\ status' = "noPaper"
      BY <1>4, <2>1, <2>2 DEF FeederAck, Fill, Return
    <3> QED BY <1>1, <2>2, <3>1, Standing, ToldReturns DEF Deserved, FeederStops
  <2>3. CASE feeder # "empty"
    <3>1. pc' = "ackRest" /\ UNCHANGED <<toSend, wire, buf>>
      BY <1>4, <2>1, <2>3 DEF FeederAck, Fill, Return
    <3>2. Stream' = Stream
      BY <3>1 DEF Stream
    <3> QED BY <1>1, <1>4, <2>3, <3>1, <3>2, Standing DEF ToldNext, Expected, Learned, NoPaper
  <2> QED BY <2>2, <2>3
<1> QED BY <1>2, <1>3, <1>4 DEF FeederAck

\* A framed reply is read whole.
LEMMA FramedReply ==
    ASSUME Going, NEW r \in Replies, Stream = Reply(r, "ok")
    PROVE  /\ ~Misread(r) /\ (buf # Reply(r, "ok") => ~ReadFails)
           /\ Len(buf) < 2 => ~ReadFails
           /\ buf = Reply(r, "ok") => wire = <<>> /\ toSend = <<>>
<1>1. ~Misread(r)
  <2>1. buf # <<>> => Head(buf) = Part(r, "ok", TRUE)
    BY FrontOfStream, Sizes DEF Going
  <2> QED BY <2>1 DEF Misread
<1>2. buf # Reply(r, "ok") => ~ReadFails
  BY NothingFails DEF Going, ReadFails
<1>3. Len(buf) < 2 => buf # Reply(r, "ok")
  <2>1. Len(Reply(r, "ok")) = 2
    BY Sizes
  <2> QED BY <2>1
<1>4. buf = Reply(r, "ok") => wire = <<>> /\ toSend = <<>>
  BY AllThere DEF Going
<1> QED BY <1>1, <1>2, <1>3, <1>4

LEMMA ToldConfig == ASSUME Going, Config PROVE ToldNext
<1>1. entry = "button" /\ ~busy /\ pc = "config" /\ Stream = Reply("config", "ok") /\ ~NoPaper
  BY DEF Config, Going, Expected, Learned, Plausible, NoPaper
<1>2. ~Misread("config") /\ ~(Len(buf) < 2 /\ ReadFails)
  BY <1>1, FramedReply, Named
<1>3. CASE Fill
  BY <1>1, <1>3, ToldFills
<1>4. CASE ~usable /\ Return("protocol")
  BY <1>1, <1>4, Standing, ToldReturns DEF Return, Deserved
<1>5. CASE buf = Reply("config", "ok") /\ usable /\ buf' = <<>> /\ pc' = "info" /\ UNCHANGED <<wire, toSend>>
  <2>1. Stream' = <<>>
    BY <1>1, <1>5, FramedReply, Named DEF Stream
  <2> QED BY <1>1, <1>5, <2>1, Standing DEF ToldNext, Expected, Learned
<1> QED BY <1>2, <1>3, <1>4, <1>5 DEF Config

LEMMA ToldOffer == ASSUME Going, Offer PROVE ToldNext
<1>1. usable /\ ~busy /\ pc = "offer" /\ Stream = Reply("offer", "ok") /\ ~NoPaper
  BY DEF Offer, Going, Expected, Learned
<1>2. ~Misread("offer") /\ ~(buf # Reply("offer", "ok") /\ ReadFails)
  BY <1>1, FramedReply, Named
<1>3. CASE Fill
  BY <1>1, <1>3, ToldFills
<1>4. CASE buf = Reply("offer", "ok") /\ buf' = <<>> /\ pc' = "execute" /\ UNCHANGED <<wire, toSend>>
  <2>1. Stream' = <<>>
    BY <1>1, <1>4, FramedReply, Named DEF Stream
  <2> QED BY <1>1, <1>4, <2>1, Standing DEF ToldNext, Expected, Learned
<1> QED BY <1>2, <1>3, <1>4 DEF Offer

LEMMA ToldLead == ASSUME Going, Lead PROVE ToldNext
<1>1. usable /\ ~busy /\ pc = "lead" /\ ~NoPaper /\ Stream \in Image
  BY DEF Lead, Going, Expected, Learned
<1>2. CASE Fill
  BY <1>1, <1>2, ToldFills
<1>3. CASE buf = <<>> /\ ReadFails
  <2>1. Stream # <<>>
    BY <1>1, ImageLead DEF Going
  <2> QED BY <1>3, <2>1, NothingFails DEF Going, ReadFails
<1>4. CASE /\ buf # <<>> /\ UNCHANGED <<toSend, wire, buf>>
           /\ pc' = IF Head(buf).what \in {"jam", "stop"} THEN "confirm" ELSE "readout"
  <2>1. Head(buf) = Stream[1] /\ Stream' = Stream
    BY <1>4, FrontOfStream DEF Stream, Going
  <2>2. FeederStops => Stream[1].what \in {"jam", "stop"}
    BY <1>1, ImageLead DEF Going, FeederStops
  <2> QED BY <1>1, <1>4, <2>1, <2>2, Standing DEF ToldNext, Expected, Learned
<1> QED BY <1>2, <1>3, <1>4 DEF Lead

LEMMA ToldConfirm == ASSUME Going, Confirm PROVE ToldNext
<1>1. /\ usable /\ ~busy /\ pc = "confirm" /\ ~NoPaper /\ Stream \in Image
      /\ buf # <<>> /\ Stream[1].what \in {"jam", "stop"}
  BY DEF Confirm, Going, Expected, Learned
<1>2. CASE Fill
  BY <1>1, <1>2, ToldFills
<1>3. CASE Len(buf) = 1 /\ Closed
  BY <1>3 DEF Closed, Going, Good
<1>4. CASE Len(buf) = 1 /\ GoesQuiet /\ Return(IF Head(buf).what = "jam" THEN "paperJam" ELSE "cancelled")
  <2>1. FeederStops
    <3> SUFFICES ASSUME ~FeederStops PROVE FALSE
      OBVIOUS
    <3>1. PICK lead \in Whats : Stream = Reply("image", lead)
      BY <1>1, ImageLead DEF Going
    <3>2. buf = Reply("image", lead)
      BY <1>1, <1>4, <3>1, QuietAtTheEnd, Named DEF Going
    <3>3. Len(buf) = 2
      BY <3>2, Sizes, Zenon
    <3> QED BY <1>4, <3>3
  <2>2. Head(buf).what = feeder
    BY <1>1, <2>1, FrontOfStream, ImageLead DEF Going
  <2> QED BY <1>1, <1>4, <2>1, <2>2, Standing, ToldReturns
         DEF Return, Deserved, FeederStops, NoPaper, Going, Good
<1>5. CASE Len(buf) > 1 /\ pc' = "readout" /\ UNCHANGED <<toSend, wire, buf>>
  <2>1. ~FeederStops
    <3> SUFFICES ASSUME FeederStops PROVE FALSE
      OBVIOUS
    <3>1. Len(Stream) = 1
      BY <1>1, ImageLead DEF Going
    <3>2. Len(buf) \in 1 .. Len(Stream)
      BY <1>1, FrontOfStream DEF Going
    <3>3. Len(buf) \in 1 .. 1
      BY <3>1, <3>2, Zenon
    <3> QED BY <1>5, <3>3
  <2> QED BY <1>1, <1>5, <2>1, Standing DEF ToldNext, Expected, Learned
<1> QED BY <1>2, <1>3, <1>4, <1>5 DEF Confirm

LEMMA ToldReadout == ASSUME Going, Readout PROVE ToldNext
<1>1. /\ usable /\ ~busy /\ ~NoPaper /\ ~FeederStops /\ cmds \in Flows /\ manners = "good"
      /\ cmds' = cmds /\ pc' = "return" /\ status' \in {"ok", "cancelled", "timeout", "io", "protocol"}
      /\ status' = "cancelled" => entry = "scan"
  BY DEF Readout, Going, Learned, Sent, Good
<1> QED BY <1>1, Standing, ToldReturns DEF Deserved, NoPaper

LEMMA ToldCaller == ASSUME Going, pc \notin {"return", "done"}, Caller PROVE ToldNext
<1>1. CASE Open \/ Query \/ SelectSource \/ Info \/ Execute \/ DrainCaps \/ DrainAck
  BY <1>1, ToldOpen, ToldSends, ToldDrainFirst, ToldDrainRest DEF DrainCaps, DrainAck
<1>2. CASE FeederAck \/ Config \/ Offer \/ Lead \/ Confirm \/ Readout
  BY <1>2, ToldFeederAck, ToldConfig, ToldOffer, ToldLead, ToldConfirm, ToldReadout
<1>3. ~ReturnToCaller
  BY DEF ReturnToCaller
<1> QED BY <1>1, <1>2, <1>3 DEF Caller

LEMMA ToldStep ==
    ASSUME ThreadType, Sent, StreamType, Plausible, Told, [Next]_vars
    PROVE  Told'
<1> SUFFICES ASSUME Good' PROVE Told'
  BY DEF Told
<1>1. CASE UNCHANGED vars
  <2>1. UNCHANGED <<call, device, link, pc, buf, cmds, status>> /\ Stream' = Stream /\ Good
    BY <1>1 DEF vars, Stream, Good, call, device
  <2> QED BY <2>1, Unchanged DEF Told, Expected, Learned, Deserved
<1>2. CASE Device
  <2>1. UNCHANGED <<call, device, pc, buf, cmds, status>> /\ Deliver
    BY <1>2 DEF Device, LinkFails, Good
  <2>2. UNCHANGED <<call, device, link>> /\ Stream' = Stream /\ Good
    BY <2>1, DeliverKeeps DEF Deliver, Good, device
  <2> QED BY <2>1, <2>2, Unchanged DEF Told, Expected, Learned, Deserved
<1>3. CASE Caller
  <2>1. UNCHANGED <<call, device, link>> /\ Good
    BY <1>3 DEF Caller, Good, device
  <2>2. CASE pc \in {"return", "done"}
    <3>1. pc' \in {"return", "done"} /\ UNCHANGED <<cmds, status>>
      BY <1>3, <2>2 DEF Caller, Open, Query, DrainCaps, SelectSource, FeederAck, DrainAck, DrainFirst,
         DrainRest, Config, Info, Offer, Execute, Lead, Confirm, Readout, ReturnToCaller
    <3>2. Deserved'
      BY <2>1, <2>2, <3>1, Unchanged DEF Told, Deserved
    <3> QED BY <3>1, <3>2, ToldReturns DEF Told, ToldNext
  <2>3. CASE pc \notin {"return", "done"}
    <3>1. Going
      BY <2>1 DEF Going, Told
    <3> QED BY <1>3, <2>3, <3>1, ToldCaller DEF Told, ToldNext
  <2> QED BY <2>2, <2>3
<1> QED BY <1>1, <1>2, <1>3 DEF Next

LEMMA ToldInit == SplitGreeting = FALSE /\ Init => Plausible /\ Told
<1> SUFFICES ASSUME SplitGreeting = FALSE, Init PROVE Plausible /\ Told
  OBVIOUS
<1>1. Plausible /\ pc = "open" /\ buf = <<>> /\ wire = <<>>
  BY DEF Init, Plausible
<1>2. Good => toSend = Lone("greeting", IF busy THEN "busy" ELSE "ok")
  BY DEF Init, Good, Greeting
<1>3. toSend \in Seq(StreamPart)
  BY StreamInit DEF StreamType
<1>4. Stream = toSend
  BY <1>1, <1>3, ConcatEmptySeq DEF Stream
<1> QED BY <1>1, <1>2, <1>4 DEF Told, Expected, Learned

LEMMA Asked == \A flow \in Flows : Contains(flow, "X")
BY DEF Contains, Flows

(* With a device with manners and a connection that holds the caller is     *)
(* told what the device said, busy, no paper, a jam, a stop, and no status  *)
(* of those otherwise (RunScan, RunButtonScan, RunReadout, Session::Open).  *)
THEOREM CallerIsToldTheTruth ==
    ASSUME SplitGreeting = FALSE PROVE Spec => []StatusIsTheDevices
<1>1. ThreadType /\ Told => StatusIsTheDevices
  <2> SUFFICES ASSUME ThreadType, Told, pc = "done", manners = "good", link = "up" PROVE StatusIsTheDevices
    BY DEF StatusIsTheDevices
  <2>1. Deserved /\ usable \in BOOLEAN /\ busy \in BOOLEAN
    BY DEF Told, Good, ThreadType, DeviceType
  <2> QED BY <2>1, Asked DEF StatusIsTheDevices, Deserved, FeederStops
<1>2. StreamType /\ ThreadType /\ [Next]_vars => StreamType'
  BY StreamStep DEF Kept
<1>3. Plausible /\ [Next]_vars => Plausible'
  BY DEF Plausible, Next, Device, Caller, vars, call, device
<1> QED BY ThreadInit, ThreadStep, StreamInit, ToldInit, ToldStep, <1>1, <1>2, <1>3, PTL DEF Spec


=============================================================================
