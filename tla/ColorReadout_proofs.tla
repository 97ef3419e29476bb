------------------------- MODULE ColorReadout_proofs ------------------------
(***************************************************************************)
(* What holds of the readout of a color job, whatever the device sends and *)
(* however its pages interleave: that finished pages are whole and their   *)
(* bands are the page, that kOk is a whole job, and that RunColorScan      *)
(* keeps the promise of PageDelivery.  The argument is about what has been *)
(* received of a page's JPEG at each element of the stream.                *)
(***************************************************************************)
EXTENDS ColorReadout, SequenceTheorems, TLAPS

-----------------------------------------------------------------------------
(* The invariants.                                                          *)

Loop == {"boundary", "feed", "finish", "tail"}

Unit == (Pages \X Nat) \cup {Eoi, Pad, Bad}
StreamElement == [kind : Kind, page : Pages \cup {0}, units : Seq(Unit), sentinel : BOOLEAN]

\* What a chunk or a marker is of.
Of(p, e) == e.kind \in {"chunk", "eop"} /\ e.page = p

DeviceType ==
    /\ streaming \in BOOLEAN /\ faults \in Nat
    /\ sent \in [Pages -> Seq(Unit)] /\ ended \subseteq Pages /\ jobFinal \in BOOLEAN
    /\ link \in {"up", "stalled", "closed"}
    /\ wire \in Seq(StreamElement)
    /\ \A i \in 1 .. Len(wire) : wire[i].kind \in {"chunk", "eop"} => wire[i].page \in Pages

ReadoutType ==
    /\ pc \in Loop \cup {"flush", "return", "done"}
    /\ status \in {"running", "ok", "cancelled", "timeout", "io", "protocol"}
    /\ open \subseteq Pages /\ jpeg \in [Pages -> Seq(Unit)]
    /\ cur \in Pages \cup {0} /\ (pc \in {"feed", "finish"} => cur \in Pages)
    /\ finished \subseteq Pages /\ image \in [Pages -> Seq(Unit)] /\ out \in Seq(Pages)
    /\ shown \in [Pages -> Seq(Unit)]

Types == DeviceType /\ ReadoutType

\* got[i]: what has been received of page p's JPEG when element i of the stream is reached.
Received(p, got) ==
    /\ got[1] = jpeg[p] /\ got[Len(wire) + 1] = sent[p]
    /\ \A i \in 1 .. Len(wire) :
          /\ Of(p, wire[i]) /\ wire[i].kind = "chunk" => got[i + 1] = got[i] \o wire[i].units
          /\ ~(Of(p, wire[i]) /\ wire[i].kind = "chunk") => got[i + 1] = got[i]
          /\ Of(p, wire[i]) /\ wire[i].kind = "eop" => got[i] = sent[p]

\* The chunks on their way are what is missing of a page, and its marker comes behind them.
Flow ==
    pc \in Loop =>
        \A p \in Pages \ Complete : \E got \in [1 .. Len(wire) + 1 -> Seq(Unit)] : Received(p, got)

\* Nothing of p is on its way.
Silent(p) == \A i \in 1 .. Len(wire) : ~Of(p, wire[i])

\* A page's marker is the last the device sends of it, and the job-final byte the last of all.
Markers ==
    pc \in Loop => \A i \in 1 .. Len(wire) :
        /\ wire[i].kind = "eop" => /\ wire[i].page \in ended
                                   /\ \A j \in i + 1 .. Len(wire) : ~Of(wire[i].page, wire[j])
        /\ wire[i].kind = "final" => jobFinal /\ i = Len(wire)

\* A page whose marker has been read is over.
Over ==
    /\ Complete \subseteq ended
    /\ pc \in Loop => \A p \in Complete : Silent(p)
    /\ pc \in {"feed", "finish"} => cur \notin Complete
    /\ pc = "finish" => /\ cur \in ended /\ Silent(cur)
                        /\ jpeg[cur] = sent[cur] /\ EndsInEoi(sent[cur])

\* A buffer is that of an open page, and a complete page is not open.
Buffers == \A p \in Pages : p \notin open => jpeg[p] = <<>>

WholeImages == \A p \in Complete : EndsInEoi(sent[p]) /\ image[p] = Decoded(sent[p])

\* The bands of a page are the beginning of what its decoder can make of it.
Bands ==
    \A p \in Pages :
        /\ ~streaming => shown[p] = <<>>
        /\ streaming /\ p \in Complete => shown[p] = image[p]
        /\ streaming /\ p \notin Complete =>
              /\ Len(shown[p]) <= Produced(p)
              /\ \A k \in 1 .. Len(shown[p]) : shown[p][k] = Decoded(jpeg[p])[k]

Order ==
    /\ pc \in Loop => out = <<>> /\ status = "running"
    /\ pc \notin Loop => status # "running"
    /\ \A i, j \in 1 .. Len(out) : i < j => out[i] < out[j]
    /\ \A i \in 1 .. Len(out) : \A p \in finished : out[i] < p
    /\ pc # "done" \/ status \in {"ok", "cancelled"} => Complete = finished \cup Listed(out)
    /\ pc \in {"return", "done"} /\ status \in {"ok", "cancelled"} => finished = {}
    /\ pc = "done" /\ status \notin {"ok", "cancelled"} => out = <<>>

\* When the readout says that the job is done, it is.
WholeJob == status = "ok" => jobFinal /\ Begun = Complete /\ open = {}

-----------------------------------------------------------------------------
(* JPEGs.                                                                   *)

\* The assumptions on the constants, as the provers use them.
LEMMA HeightIs == Height \in Nat \ {0} /\ MaxChunk \in Nat \ {0} /\ MaxFaults \in Nat
BY ColorAssumption

\* Page indices are positive numbers.
LEMMA PageIs == \A p \in Pages : p \in Nat \ {0}
BY ColorAssumption

\* The three marked units are units.
LEMMA MarksAreUnits == Eoi \in Unit /\ Pad \in Unit /\ Bad \in Unit
BY DEF Unit

\* The elements of a concatenation.
LEMMA Concatenated ==
    ASSUME NEW s \in Seq(Unit), NEW t \in Seq(Unit)
    PROVE  /\ s \o t \in Seq(Unit) /\ Len(s \o t) = Len(s) + Len(t)
           /\ Len(s) \in Nat /\ Len(t) \in Nat
           /\ \A i \in 1 .. Len(s) : (s \o t)[i] = s[i]
           /\ \A i \in 1 .. Len(t) : (s \o t)[Len(s) + i] = t[i]
OBVIOUS

\* What a decoder makes of a JPEG, row by row.
LEMMA DecodedIs ==
    ASSUME NEW s \in Seq(Unit)
    PROVE  /\ Decoded(s) \in Seq(Unit) /\ Len(Decoded(s)) = Height
           /\ \A k \in 1 .. Height :
                 Decoded(s)[k] = IF k <= Len(s) /\ \A i \in 1 .. k : s[i] # Eoi THEN s[k] ELSE Pad
<1>1. ASSUME NEW k \in 1 .. Height, k <= Len(s)
      PROVE  Contains(SubSeq(s, 1, k), Eoi) <=> \E i \in 1 .. k : s[i] = Eoi
  <2>1. Len(SubSeq(s, 1, k)) = k /\ \A i \in 1 .. k : SubSeq(s, 1, k)[i] = s[i]
    BY <1>1, HeightIs
  <2> QED BY <2>1 DEF Contains
<1>2. ASSUME NEW k \in 1 .. Height
      PROVE  Decoded(s)[k] = IF k <= Len(s) /\ \A i \in 1 .. k : s[i] # Eoi THEN s[k] ELSE Pad
  <2>1. Decoded(s)[k] = IF k <= Len(s) /\ ~Contains(SubSeq(s, 1, k), Eoi) THEN s[k] ELSE Pad
    BY DEF Decoded
  <2> QED BY <1>1, <2>1
<1>3. \A k \in 1 .. Height : k <= Len(s) => s[k] \in Unit
  BY HeightIs
<1>4. Decoded(s) \in [1 .. Height -> Unit]
  BY <1>3, MarksAreUnits DEF Decoded
<1>5. Decoded(s) \in Seq(Unit) /\ Len(Decoded(s)) = Height
  <2>1. \A f \in [1 .. Height -> Unit] : f \in Seq(Unit) /\ Len(f) = Height
    BY HeightIs
  <2> QED BY <1>4, <2>1
<1> QED BY <1>2, <1>5

\* How much of a JPEG the decoder can make bands of (Produced).
Yield(s) == IF Contains(s, Eoi) THEN Height ELSE LeastOf(Len(s), Height)

\* The rows decoded so far, as a function of the JPEG alone.
LEMMA ProducedIs == \A p \in Pages : Produced(p) = Yield(jpeg[p])
BY DEF Produced, Yield

\* A decoder never yields more rows than the page has.
LEMMA YieldRange == \A s \in Seq(Unit) : Yield(s) \in 0 .. Height
BY HeightIs DEF Yield, LeastOf

\* More of a JPEG adds bands and changes none.
LEMMA DecodedGrows ==
    ASSUME NEW s \in Seq(Unit), NEW t \in Seq(Unit)
    PROVE  /\ Yield(s) <= Yield(s \o t)
           /\ \A k \in 1 .. Yield(s) : Decoded(s \o t)[k] = Decoded(s)[k]
<1>1. s \o t \in Seq(Unit) /\ Len(s \o t) = Len(s) + Len(t) /\ Len(s) \in Nat /\ Len(t) \in Nat
  BY Concatenated
<1>2. \A i \in 1 .. Len(s) : (s \o t)[i] = s[i]
  BY Concatenated
<1>0. ASSUME NEW k \in 1 .. Height
      PROVE  /\ Decoded(s \o t)[k] = IF k <= Len(s \o t) /\ \A i \in 1 .. k : (s \o t)[i] # Eoi
                                     THEN (s \o t)[k] ELSE Pad
             /\ Decoded(s)[k] = IF k <= Len(s) /\ \A i \in 1 .. k : s[i] # Eoi THEN s[k] ELSE Pad
  <2>1. \A r \in Seq(Unit) :
           Decoded(r)[k] = IF k <= Len(r) /\ \A i \in 1 .. k : r[i] # Eoi THEN r[k] ELSE Pad
    BY DecodedIs
  <2> QED BY <1>1, <2>1, Zenon
<1>3. CASE Contains(s, Eoi)
  <2>1. PICK e \in 1 .. Len(s) : s[e] = Eoi
    BY <1>3 DEF Contains
  <2>2. Contains(s \o t, Eoi)
    <3>1. e \in 1 .. Len(s \o t) /\ (s \o t)[e] = Eoi
      BY <1>1, <1>2, <2>1
    <3> QED BY <3>1 DEF Contains
  <2>3. Yield(s) = Height /\ Yield(s \o t) = Height
    BY <1>3, <2>2 DEF Yield
  <2>4. ASSUME NEW k \in 1 .. Height PROVE Decoded(s \o t)[k] = Decoded(s)[k]
    <3>1. CASE k <= Len(s)
      <4>1. \A i \in 1 .. k : (s \o t)[i] = s[i]
        BY <1>1, <1>2, <3>1, HeightIs
      <4>2. k \in 1 .. k /\ k <= Len(s \o t)
        BY <1>1, <3>1, HeightIs
      <4>3. (s \o t)[k] = s[k] /\ \A i \in 1 .. k : (s \o t)[i] # Eoi <=> s[i] # Eoi
        BY <4>1, <4>2
      <4> QED BY <1>0, <3>1, <4>2, <4>3, Zenon
    <3>2. CASE ~(k <= Len(s))
      <4>1. e \in 1 .. k /\ (s \o t)[e] = Eoi
        BY <1>1, <1>2, <2>1, <3>2, HeightIs
      <4>2. Decoded(s \o t)[k] = Pad
        BY <1>1, <4>1, DecodedIs
      <4>3. Decoded(s)[k] = Pad
        BY <3>2, DecodedIs
      <4> QED BY <4>2, <4>3
    <3> QED BY <3>1, <3>2
  <2> QED BY <2>3, <2>4, HeightIs
<1>4. CASE ~Contains(s, Eoi)
  <2>1. Yield(s) = LeastOf(Len(s), Height)
    BY <1>4 DEF Yield
  <2>2. Yield(s) <= Len(s) /\ Yield(s) <= Height /\ Yield(s) \in Nat
    BY <1>1, <2>1, HeightIs DEF LeastOf
  <2>3. Yield(s) <= Yield(s \o t)
    BY <1>1, <2>1, HeightIs DEF Yield, LeastOf
  <2>4. ASSUME NEW k \in 1 .. Yield(s) PROVE Decoded(s \o t)[k] = Decoded(s)[k]
    <3>1. k \in 1 .. Height /\ k <= Len(s) /\ k <= Len(s \o t) /\ k \in 1 .. k
      BY <1>1, <2>2, HeightIs
    <3>2. \A i \in 1 .. k : (s \o t)[i] = s[i]
      BY <1>1, <1>2, <3>1, HeightIs
    <3>3. (s \o t)[k] = s[k] /\ \A i \in 1 .. k : (s \o t)[i] # Eoi <=> s[i] # Eoi
      BY <3>1, <3>2
    <3> QED BY <1>0, <3>1, <3>3, Zenon
  <2> QED BY <2>3, <2>4
<1> QED BY <1>3, <1>4

\* A JPEG that ends in its EOI makes a whole page.
LEMMA WholeJpeg == \A s \in Seq(Unit) : EndsInEoi(s) => Yield(s) = Height
<1> SUFFICES ASSUME NEW s \in Seq(Unit), EndsInEoi(s) PROVE Contains(s, Eoi)
  BY DEF Yield
<1>1. Len(s) \in 1 .. Len(s) /\ s[Len(s)] = Eoi
  BY DEF EndsInEoi, Last
<1> QED BY <1>1 DEF Contains

\* What the device may put in a chunk is a sequence of units.
LEMMA UnitsType ==
    ASSUME Types, NEW p \in Pages, NEW units \in NextUnits(p) \cup StrayUnits(p)
    PROVE  units \in Seq(Unit)
<1> DEFINE got == Len(sent[p])
           bands == [k \in 1 .. MaxChunk |-> <<p, got + k>>]
<1>1. got \in Nat
  BY DEF Types, DeviceType
<1>2. \A k \in 1 .. MaxChunk : <<p, got + k>> \in Unit
  BY <1>1, HeightIs DEF Unit
<1>3. bands \in [1 .. MaxChunk -> Unit]
  BY <1>2
<1>4. bands \in Seq(Unit) /\ Len(bands) = MaxChunk
  <2> HIDE DEF bands
  <2>1. \A f \in [1 .. MaxChunk -> Unit] : f \in Seq(Unit) /\ Len(f) = MaxChunk
    BY HeightIs
  <2> QED BY <1>3, <2>1
<1>5. \A n \in 0 .. MaxChunk : SubSeq(bands, 1, n) \in Seq(Unit)
  <2> HIDE DEF bands
  <2> QED BY <1>4, HeightIs
<1>6. \A n \in 0 .. MaxChunk : Append(SubSeq(bands, 1, n), Eoi) \in Seq(Unit)
  <2> HIDE DEF bands
  <2>1. \A s \in Seq(Unit) : Append(s, Eoi) \in Seq(Unit)
    BY MarksAreUnits
  <2> QED BY <1>5, <2>1
<1>7. <<Bad>> \in Seq(Unit)
  BY MarksAreUnits
<1>8. \/ \E n \in 1 .. MaxChunk : units = SubSeq(bands, 1, n)
      \/ \E n \in 0 .. MaxChunk - 1 : units = Append(SubSeq(bands, 1, n), Eoi)
      \/ units = <<Bad>>
      \/ units = bands
  <2>1. CASE units \in NextUnits(p)
    <3>1. \/ units \in {SubSeq(bands, 1, n) : n \in {m \in 1 .. MaxChunk : got + m <= Height}}
          \/ units \in {Append(SubSeq(bands, 1, n), Eoi) :
                 n \in {m \in (IF got = 0 THEN 1 ELSE 0) .. MaxChunk - 1 : got + m <= Height}}
      BY <2>1 DEF NextUnits
    <3>2. (IF got = 0 THEN 1 ELSE 0) .. MaxChunk - 1 \subseteq 0 .. MaxChunk - 1
      BY HeightIs
    <3> HIDE DEF bands, got
    <3> QED BY <3>1, <3>2
  <2>2. CASE units \in StrayUnits(p)
    BY <2>2 DEF StrayUnits
  <2> QED BY <2>1, <2>2
<1>9. \A n \in 1 .. MaxChunk : n \in 0 .. MaxChunk
  BY HeightIs
<1>10. \A n \in 0 .. MaxChunk - 1 : n \in 0 .. MaxChunk
  BY HeightIs
<1> HIDE DEF bands
<1> QED BY <1>4, <1>5, <1>6, <1>7, <1>8, <1>9, <1>10

-----------------------------------------------------------------------------
(* The steps of the readout, by what they change.                           *)

Head1 == wire[1]

GivesUp ==
    /\ pc \in Loop /\ pc' = "return" /\ status' \in {"timeout", "io", "protocol"}
    /\ wire' = wire \/ (wire # <<>> /\ wire' = Tail(wire))
    /\ UNCHANGED <<open, jpeg, cur, resultVars, shown>>

Takes ==
    /\ pc = "boundary" /\ wire # <<>> /\ Head1.kind = "chunk"
    /\ wire' = Tail(wire)
    /\ open' = open \cup {Head1.page}
    /\ jpeg' = [jpeg EXCEPT ![Head1.page] = @ \o Head1.units]
    /\ \/ streaming /\ pc' = "feed" /\ cur' = Head1.page
       \/ pc' = "boundary" /\ cur' = cur
    /\ UNCHANGED <<status, resultVars, shown>>

Shows ==
    /\ pc \in {"feed", "finish"} /\ streaming /\ Len(shown[cur]) < Produced(cur)
    /\ shown' = [shown EXCEPT ![cur] = Append(@, NextBand)]
    /\ \/ UNCHANGED <<pc, status>>
       \/ pc' = "flush" /\ status' = "cancelled"
    /\ UNCHANGED <<wire, open, jpeg, cur, resultVars>>

Flushes ==
    /\ \/ pc \in Loop /\ status' = "protocol"
       \/ pc = "tail" /\ wire # <<>> /\ Head1.kind = "final" /\ open = {} /\ status' = "ok"
    /\ pc' = "flush"
    /\ UNCHANGED <<wire, open, jpeg, cur, resultVars, shown>>

Resumes ==
    /\ pc \in {"feed", "tail"} /\ pc' = "boundary"
    /\ pc = "tail" => wire # <<>> /\ Head1.kind # "final"
    /\ UNCHANGED <<wire, status, open, jpeg, cur, resultVars, shown>>

Marks ==
    /\ pc = "boundary" /\ wire # <<>> /\ Head1.kind = "eop"
    /\ wire' = Tail(wire)
    /\ cur' = Head1.page /\ cur' \in open /\ EndsInEoi(jpeg[Head1.page])
    /\ pc' = "finish"
    /\ UNCHANGED <<status, open, jpeg, resultVars, shown>>

\* The head of the stream is an element of it.
LEMMA HeadIs == ASSUME Types, wire # <<>> PROVE Head(wire) = Head1 /\ 1 \in 1 .. Len(wire) /\ Head1 \in StreamElement
BY DEF Types, DeviceType, Head1

\* A chunk taken at a boundary either ends the job or reaches its page.
LEMMA TakingIs == ASSUME Types, pc = "boundary", Arrived({"chunk"}), TakeChunk PROVE GivesUp \/ Takes
<1>1. wire # <<>> /\ Head(wire) = Head1 /\ Head1.kind = "chunk"
  BY HeadIs DEF Arrived
<1>2. CASE Return("protocol")
  BY <1>2 DEF TakeChunk, Return, GivesUp, Loop
<1>3. CASE ~Return("protocol")
  <2>1. /\ wire' = Tail(wire) /\ open' = open \cup {Head1.page}
        /\ jpeg' = [jpeg EXCEPT ![Head1.page] = jpeg[Head1.page] \o Head1.units]
        /\ IF streaming THEN pc' = "feed" /\ cur' = Head1.page ELSE UNCHANGED <<pc, cur>>
        /\ UNCHANGED <<status, resultVars, shown>>
    BY <1>1, <1>3 DEF TakeChunk, PageTag
  <2> QED BY <1>1, <2>1 DEF Takes
<1> QED BY <1>2, <1>3

\* The readout steps, by what they do to the stream and the pages.
LEMMA ReadoutIs ==
    ASSUME Types, Readout
    PROVE  /\ UNCHANGED <<streaming, deviceVars>>
           /\ \/ GivesUp \/ Takes \/ Shows \/ Flushes \/ Resumes \/ Marks \/ FinishPage
              \/ FlushOne \/ FlushDone \/ ReturnToCaller
<1>0. UNCHANGED <<streaming, deviceVars>>
  BY DEF Readout
<1> SUFFICES \/ GivesUp \/ Takes \/ Shows \/ Flushes \/ Resumes \/ Marks \/ FinishPage
             \/ FlushOne \/ FlushDone \/ ReturnToCaller
  BY <1>0
<1>1. CASE NothingMore
  BY <1>1 DEF NothingMore, Return, LinkError, GivesUp, Loop
<1>2. CASE ReadJunk \/ SentinelChunkCut \/ LookAheadClosed \/ WholePageFails
  BY <1>2 DEF ReadJunk, SentinelChunkCut, LookAheadClosed, WholePageFails, Return, LinkError, GivesUp, Loop
<1>3. CASE ReadHonestChunk \/ ReadSentinelChunk
  BY <1>3, TakingIs DEF ReadHonestChunk, ReadSentinelChunk
<1>4. CASE DecodeBand
  BY <1>4 DEF DecodeBand, BandDue, FlushAndReturn, Shows
<1>5. CASE DecoderFails
  BY <1>5 DEF DecoderFails, BandDue, FlushAndReturn, Flushes, Loop
<1>6. CASE Fed \/ BlockAtTail
  BY <1>6, HeadIs DEF Fed, BlockAtTail, Arrived, Resumes
<1>7. CASE ReadEndOfPage
  <2>1. wire # <<>> /\ Head(wire) = Head1 /\ Head1.kind = "eop" /\ pc = "boundary"
    BY <1>7, HeadIs DEF ReadEndOfPage, Arrived
  <2>2. CASE Return("protocol")
    BY <1>7, <2>1, <2>2 DEF ReadEndOfPage, Return, GivesUp, Loop
  <2>3. CASE ~Return("protocol")
    BY <1>7, <2>1, <2>3 DEF ReadEndOfPage, Marks
  <2> QED BY <2>2, <2>3
<1>8. CASE JobFinalLead
  <2>1. wire # <<>> /\ Head(wire) = Head1 /\ Head1.kind = "final" /\ pc = "tail"
    BY <1>8, HeadIs DEF JobFinalLead, Arrived
  <2> QED BY <1>8, <2>1 DEF JobFinalLead, Return, FlushAndReturn, GivesUp, Flushes, Loop
<1> QED BY <1>1, <1>2, <1>3, <1>4, <1>5, <1>6, <1>7, <1>8 DEF Readout

-----------------------------------------------------------------------------
(* Types.                                                                   *)

\* The elements the device sends.
LEMMA ElementType ==
    /\ \A p \in Pages, units \in Seq(Unit), sentinel \in BOOLEAN :
          /\ Chunk(p, units, sentinel) \in StreamElement
          /\ Chunk(p, units, sentinel).kind = "chunk" /\ Chunk(p, units, sentinel).page = p
          /\ Chunk(p, units, sentinel).units = units
    /\ \A kind \in {"eop", "final", "junk", "stub"}, p \in Pages \cup {0} :
          /\ Element(kind, p) \in StreamElement
          /\ Element(kind, p).kind = kind /\ Element(kind, p).page = p
BY DEF Chunk, Element, StreamElement, Kind

\* What the device sends next.
Sends(e) ==
    /\ MaySend \/ (link = "up" /\ ~jobFinal /\ e.kind = "stub")
    /\ wire' = Append(wire, e)
    /\ e \in StreamElement
    /\ e.kind \in {"chunk", "eop"} => e.page \in Pages \ ended
    /\ sent' = IF e.kind = "chunk" THEN [sent EXCEPT ![e.page] = @ \o e.units] ELSE sent
    /\ ended' = IF e.kind = "eop" THEN ended \cup {e.page} ELSE ended
    /\ jobFinal' = (IF e.kind = "final" THEN TRUE ELSE jobFinal)
    /\ faults' \in Nat /\ link' \in {"up", "stalled", "closed"}

\* The device steps: one element sent, or the link going down.
LEMMA DeviceIs ==
    ASSUME Types, Device
    PROVE  /\ UNCHANGED <<streaming, pc, status, open, jpeg, cur, resultVars, shown>>
           /\ \/ \E e \in StreamElement : Sends(e)
              \/ UNCHANGED <<wire, sent, ended, jobFinal, faults>> /\ link' \in {"up", "stalled", "closed"}
<1>0. /\ UNCHANGED <<streaming, pc, status, open, jpeg, cur, resultVars, shown>>
      /\ faults \in Nat /\ faults + 1 \in Nat /\ 0 \notin Pages
  BY PageIs DEF Device, Types, DeviceType
<1> SUFFICES \/ \E e \in StreamElement : Sends(e)
             \/ UNCHANGED <<wire, sent, ended, jobFinal, faults>> /\ link' \in {"up", "stalled", "closed"}
  BY <1>0
<1>1. ASSUME NEW p \in Pages, SendChunk(p) PROVE \E e \in StreamElement : Sends(e)
  <2>1. PICK kept \in BOOLEAN, sentinel \in BOOLEAN :
           /\ Framing(kept)
           /\ \E units \in (IF kept THEN NextUnits(p) ELSE StrayUnits(p)) :
                /\ wire' = Append(wire, Chunk(p, units, sentinel))
                /\ sent' = [sent EXCEPT ![p] = @ \o units]
    BY <1>1 DEF SendChunk
  <2>2. PICK units \in NextUnits(p) \cup StrayUnits(p) :
           /\ wire' = Append(wire, Chunk(p, units, sentinel))
           /\ sent' = [sent EXCEPT ![p] = @ \o units]
    BY <2>1
  <2>3. units \in Seq(Unit)
    BY UnitsType
  <2> DEFINE e == Chunk(p, units, sentinel)
  <2>4. e \in StreamElement /\ e.kind = "chunk" /\ e.page = p /\ e.units = units
    BY <2>3, ElementType
  <2>5. wire' = Append(wire, e) /\ sent' = [sent EXCEPT ![p] = @ \o units]
    BY <2>2
  <2> HIDE DEF e
  <2>6. faults' \in Nat /\ link' \in {"up", "stalled", "closed"}
    BY <1>0, <1>1, <2>1 DEF SendChunk, Framing, Types, DeviceType
  <2>7. MaySend /\ p \notin ended /\ UNCHANGED <<ended, jobFinal, link>>
    BY <1>1 DEF SendChunk
  <2>8. Sends(e)
    BY <2>4, <2>5, <2>6, <2>7 DEF Sends
  <2> QED BY <2>4, <2>8
<1>2. ASSUME NEW p \in Pages, SendEndOfPage(p) PROVE \E e \in StreamElement : Sends(e)
  <2> DEFINE e == Element("eop", p)
  <2>1. e \in StreamElement /\ e.kind = "eop" /\ e.page = p
    BY ElementType
  <2>2. MaySend /\ p \notin ended /\ wire' = Append(wire, e) /\ ended' = ended \cup {p} /\ UNCHANGED <<sent, jobFinal, link>>
    BY <1>2 DEF SendEndOfPage
  <2>3. faults' \in Nat /\ link' \in {"up", "stalled", "closed"}
    BY <1>0, <1>2 DEF SendEndOfPage, Framing, Types, DeviceType
  <2> HIDE DEF e
  <2>4. Sends(e)
    BY <2>1, <2>2, <2>3 DEF Sends
  <2> QED BY <2>1, <2>4
<1>3. CASE SendJunk
  <2> DEFINE e == Element("junk", 0)
  <2>1. e \in StreamElement /\ e.kind = "junk"
    BY ElementType
  <2>2. MaySend /\ wire' = Append(wire, e) /\ UNCHANGED <<sent, ended, jobFinal, link>>
    BY <1>3 DEF SendJunk
  <2>3. faults' \in Nat /\ link' \in {"up", "stalled", "closed"}
    BY <1>0, <1>3 DEF SendJunk, Framing, Types, DeviceType
  <2> HIDE DEF e
  <2>4. Sends(e)
    BY <2>1, <2>2, <2>3 DEF Sends
  <2> QED BY <2>1, <2>4
<1>4. CASE SendJobFinal
  <2> DEFINE e == Element("final", 0)
  <2>1. e \in StreamElement /\ e.kind = "final"
    BY ElementType
  <2>2. MaySend /\ wire' = Append(wire, e) /\ jobFinal' = TRUE /\ UNCHANGED <<sent, ended, link>>
    BY <1>4 DEF SendJobFinal
  <2>3. faults' \in Nat /\ link' \in {"up", "stalled", "closed"}
    BY <1>0, <1>4 DEF SendJobFinal, Framing, Types, DeviceType
  <2> HIDE DEF e
  <2>4. Sends(e)
    BY <2>1, <2>2, <2>3 DEF Sends
  <2> QED BY <2>1, <2>4
<1>5. CASE LinkFails /\ wire' = wire
  BY <1>5 DEF LinkFails
<1>6. CASE LinkFails /\ wire' # wire
  <2> DEFINE e == Element("stub", 0)
  <2>1. e \in StreamElement /\ e.kind = "stub"
    BY ElementType
  <2>2. link = "up" /\ ~jobFinal /\ wire' = Append(wire, e) /\ UNCHANGED <<faults, sent, ended, jobFinal>> /\ link' \in {"up", "stalled", "closed"}
    BY <1>6 DEF LinkFails
  <2> HIDE DEF e
  <2>3. Sends(e)
    BY <1>0, <2>1, <2>2 DEF Sends
  <2> QED BY <2>1, <2>3
<1> QED BY <1>0, <1>1, <1>2, <1>3, <1>4, <1>5, <1>6 DEF Device

\* Appending an element keeps a stream a stream.
LEMMA AppendedElement ==
    ASSUME NEW w \in Seq(StreamElement), NEW e \in StreamElement
    PROVE  /\ Append(w, e) \in Seq(StreamElement) /\ Len(Append(w, e)) = Len(w) + 1 /\ Len(w) \in Nat
           /\ \A i \in 1 .. Len(w) : Append(w, e)[i] = w[i]
           /\ Append(w, e)[Len(w) + 1] = e
OBVIOUS

\* So does taking its head.
LEMMA TailElements ==
    ASSUME NEW w \in Seq(StreamElement), w # <<>>
    PROVE  /\ Tail(w) \in Seq(StreamElement) /\ Len(Tail(w)) = Len(w) - 1 /\ Len(w) \in Nat \ {0}
           /\ \A i \in 1 .. Len(Tail(w)) : Tail(w)[i] = w[i + 1] /\ i + 1 \in 1 .. Len(w)
OBVIOUS

\* Sending keeps the device typed.
LEMMA SendsTypes == ASSUME Types, NEW e \in StreamElement, Sends(e), UNCHANGED streaming PROVE DeviceType'
<1>1. /\ streaming' \in BOOLEAN /\ faults' \in Nat /\ jobFinal' \in BOOLEAN /\ link' \in {"up", "stalled", "closed"}
      /\ ended' \subseteq Pages
  BY DEF Sends, Types, DeviceType
<1>2. sent' \in [Pages -> Seq(Unit)]
  <2>1. e.units \in Seq(Unit)
    BY DEF StreamElement
  <2>2. \A p \in Pages : sent[p] \o e.units \in Seq(Unit)
    BY <2>1, Concatenated DEF Types, DeviceType
  <2> QED BY <2>2 DEF Sends, Types, DeviceType
<1>3. wire' \in Seq(StreamElement) /\ \A i \in 1 .. Len(wire') : wire'[i].kind \in {"chunk", "eop"} => wire'[i].page \in Pages
  <2>1. /\ wire' \in Seq(StreamElement) /\ Len(wire') = Len(wire) + 1 /\ Len(wire) \in Nat
        /\ \A i \in 1 .. Len(wire) : wire'[i] = wire[i]
        /\ wire'[Len(wire) + 1] = e
    BY AppendedElement DEF Sends, Types, DeviceType
  <2>2. \A i \in 1 .. Len(wire') : i \in 1 .. Len(wire) \/ i = Len(wire) + 1
    BY <2>1
  <2> QED BY <2>1, <2>2 DEF Sends, Types, DeviceType
<1> QED BY <1>1, <1>2, <1>3 DEF DeviceType

\* So does reading.
LEMMA TailTypes ==
    ASSUME Types, wire' = wire \/ (wire # <<>> /\ wire' = Tail(wire)), UNCHANGED <<streaming, deviceVars>>
    PROVE  DeviceType'
<1>1. /\ wire' \in Seq(StreamElement)
      /\ \A i \in 1 .. Len(wire') : wire'[i].kind \in {"chunk", "eop"} => wire'[i].page \in Pages
  <2>1. CASE wire' = wire
    BY <2>1 DEF Types, DeviceType
  <2>2. CASE wire # <<>> /\ wire' = Tail(wire)
    BY <2>2, TailElements DEF Types, DeviceType
  <2> QED BY <2>1, <2>2
<1> QED BY <1>1 DEF Types, DeviceType, deviceVars

\* The next band is a row of the page not yet shown.
LEMMA NextBandIs ==
    ASSUME Types, cur \in Pages, Len(shown[cur]) < Produced(cur)
    PROVE  /\ NextBand \in Unit /\ Len(shown[cur]) + 1 \in 1 .. Height
           /\ Len(shown[cur]) \in Nat /\ Produced(cur) \in 0 .. Height
<1>1. jpeg[cur] \in Seq(Unit) /\ shown[cur] \in Seq(Unit)
  BY DEF Types, ReadoutType
<1>2. Produced(cur) \in 0 .. Height /\ Len(shown[cur]) \in Nat
  BY <1>1, ProducedIs, YieldRange
<1>3. Len(shown[cur]) + 1 \in 1 .. Height
  BY <1>2, HeightIs
<1>4. Decoded(jpeg[cur]) \in Seq(Unit) /\ Len(Decoded(jpeg[cur])) = Height
  BY <1>1, DecodedIs
<1> QED BY <1>2, <1>3, <1>4 DEF NextBand

\* The readout steps keep the readout typed.
LEMMA ReadoutTypes ==
    ASSUME Types, UNCHANGED <<streaming, deviceVars>>,
           \/ GivesUp \/ Takes \/ Shows \/ Flushes \/ Resumes \/ Marks \/ FinishPage
           \/ FlushOne \/ FlushDone \/ ReturnToCaller
    PROVE  Types'
<1>1. DeviceType'
  BY TailTypes DEF GivesUp, Takes, Shows, Flushes, Resumes, Marks, FinishPage, FlushOne, FlushDone, ReturnToCaller
<1>2. CASE GivesUp \/ Flushes \/ Resumes \/ FlushDone
  BY <1>1, <1>2 DEF GivesUp, Flushes, Resumes, FlushDone, Types, ReadoutType, Loop, resultVars
<1>3. CASE Takes
  <2>1. Head1.page \in Pages /\ Head1.units \in Seq(Unit)
    BY <1>3, HeadIs DEF Takes, Types, DeviceType, Head1, StreamElement
  <2>2. jpeg[Head1.page] \o Head1.units \in Seq(Unit)
    BY <2>1, Concatenated DEF Types, ReadoutType
  <2>3. jpeg' \in [Pages -> Seq(Unit)]
    BY <1>3, <2>1, <2>2 DEF Takes, Types, ReadoutType
  <2>4. open' \subseteq Pages /\ cur' \in Pages \cup {0} /\ (pc' \in {"feed", "finish"} => cur' \in Pages)
    BY <1>3, <2>1 DEF Takes, Types, ReadoutType
  <2>5. pc' \in Loop /\ UNCHANGED <<status, finished, image, out, shown>>
    BY <1>3 DEF Takes, Loop, resultVars
  <2> QED BY <1>1, <2>3, <2>4, <2>5 DEF Types, ReadoutType
<1>4. CASE Shows
  <2>1. cur \in Pages /\ NextBand \in Unit
    BY <1>4, NextBandIs DEF Shows, Types, ReadoutType
  <2>2. Append(shown[cur], NextBand) \in Seq(Unit)
    BY <2>1 DEF Types, ReadoutType
  <2>3. shown' \in [Pages -> Seq(Unit)]
    BY <1>4, <2>1, <2>2 DEF Shows, Types, ReadoutType
  <2>4. /\ pc' \in {pc, "flush"} /\ status' \in {status, "cancelled"}
        /\ UNCHANGED <<open, jpeg, cur, finished, image, out>>
    BY <1>4 DEF Shows, resultVars
  <2> QED BY <1>1, <2>3, <2>4 DEF Types, ReadoutType
<1>5. CASE Marks
  BY <1>1, <1>5 DEF Marks, Types, ReadoutType, Loop, resultVars
<1>6. CASE FinishPage
  <2>1. cur \in Pages
    BY <1>6 DEF FinishPage, Types, ReadoutType
  <2>2. Decoded(jpeg[cur]) \in Seq(Unit) /\ <<>> \in Seq(Unit)
    BY <2>1, DecodedIs DEF Types, ReadoutType
  <2>3. image' \in [Pages -> Seq(Unit)] /\ jpeg' \in [Pages -> Seq(Unit)]
    BY <1>6, <2>1, <2>2 DEF FinishPage, Types, ReadoutType
  <2>4. /\ finished' \subseteq Pages /\ open' \subseteq Pages /\ pc' = "tail"
        /\ UNCHANGED <<status, cur, out, shown>>
    BY <1>6, <2>1 DEF FinishPage, Types, ReadoutType
  <2> QED BY <1>1, <2>3, <2>4 DEF Types, ReadoutType, Loop
<1>7. CASE FlushOne
  <2>1. PICK p \in finished : out' = Append(out, p) /\ finished' = finished \ {p}
    BY <1>7 DEF FlushOne
  <2>2. out' \in Seq(Pages)
    BY <2>1 DEF Types, ReadoutType
  <2> QED BY <1>1, <1>7, <2>1, <2>2 DEF FlushOne, Types, ReadoutType
<1>8. CASE ReturnToCaller
  <2>1. out' \in Seq(Pages)
    <3>1. <<>> \in Seq(Pages)
      OBVIOUS
    <3> QED BY <1>8, <3>1 DEF ReturnToCaller, Types, ReadoutType
  <2> QED BY <1>1, <1>8, <2>1 DEF ReturnToCaller, Types, ReadoutType
<1> QED BY <1>2, <1>3, <1>4, <1>5, <1>6, <1>7, <1>8

\* The first state is typed.
LEMMA InitTypes == Init => Types
<1> SUFFICES ASSUME Init PROVE Types
  OBVIOUS
<1>1. <<>> \in Seq(Unit) /\ <<>> \in Seq(Pages) /\ <<>> \in Seq(StreamElement) /\ \A i \in 1 .. Len(<<>>) : FALSE
  OBVIOUS
<1>2. DeviceType
  BY <1>1 DEF Init, DeviceType
<1>3. ReadoutType
  BY <1>1 DEF Init, ReadoutType, Loop
<1> QED BY <1>2, <1>3 DEF Types

\* Every step keeps the types.
LEMMA NextTypes == Types /\ [Next]_vars => Types'
<1> SUFFICES ASSUME Types, [Next]_vars PROVE Types'
  OBVIOUS
<1>1. CASE UNCHANGED vars
  BY <1>1 DEF vars, deviceVars, resultVars, Types, DeviceType, ReadoutType
<1>2. CASE Device
  <2>1. ReadoutType'
    BY <1>2, DeviceIs DEF Types, ReadoutType, resultVars
  <2>2. ASSUME NEW e \in StreamElement, Sends(e) PROVE DeviceType'
    BY <1>2, <2>2, DeviceIs, SendsTypes
  <2>3. CASE UNCHANGED <<wire, sent, ended, jobFinal, faults>> /\ link' \in {"up", "stalled", "closed"}
    <3>1. streaming' = streaming
      BY <1>2, DeviceIs
    <3>2. wire' = wire /\ sent' = sent /\ ended' = ended /\ jobFinal' = jobFinal /\ faults' = faults
      BY <2>3
    <3>3. link' \in {"up", "stalled", "closed"}
      BY <2>3
    <3> QED BY <2>1, <3>1, <3>2, <3>3 DEF Types, DeviceType
  <2> QED BY <1>2, <2>1, <2>2, <2>3, DeviceIs DEF Types
<1>3. CASE Readout
  BY <1>3, ReadoutIs, ReadoutTypes
<1> QED BY <1>1, <1>2, <1>3 DEF Next

-----------------------------------------------------------------------------
(* What has been received.                                                  *)

Stream == Flow /\ Markers /\ Over /\ Buffers /\ WholeImages

\* Once the loop is left only what is complete matters.
LEMMA StreamLeft ==
    ASSUME Stream, pc' \notin Loop, UNCHANGED <<open, jpeg, image>>,
           ended \subseteq ended', \A p \in ended : sent'[p] = sent[p]
    PROVE  Stream'
<1>1. Complete' = Complete /\ Complete \subseteq ended
  BY DEF Complete, Stream, Over
<1>2. Flow' /\ Markers'
  BY DEF Flow, Markers
<1>3. Over'
  BY <1>1 DEF Over, Loop
<1>4. Buffers'
  BY DEF Stream, Buffers
<1>5. WholeImages'
  BY <1>1 DEF Stream, WholeImages
<1> QED BY <1>2, <1>3, <1>4, <1>5 DEF Stream

\* A step that touches neither the stream nor the pages keeps Stream.
LEMMA StreamStays ==
    ASSUME Stream, UNCHANGED <<wire, sent, ended, jobFinal, open, jpeg, image, cur>>,
           pc' \in Loop => pc \in Loop, pc' \in {"feed", "finish"} => pc' = pc
    PROVE  Stream'
<1>1. Complete' = Complete
  BY DEF Complete
<1>2. Flow'
  <2> SUFFICES ASSUME pc' \in Loop, NEW p \in Pages \ Complete
               PROVE  \E got \in [1 .. Len(wire') + 1 -> Seq(Unit)] : Received(p, got)'
    BY <1>1 DEF Flow
  <2>1. PICK got \in [1 .. Len(wire) + 1 -> Seq(Unit)] : Received(p, got)
    BY DEF Stream, Flow
  <2>2. Received(p, got)'
    BY <2>1 DEF Received, Of
  <2> QED BY <2>2
<1>3. Markers'
  BY DEF Stream, Markers, Of
<1>4. Over'
  BY <1>1 DEF Stream, Over, Silent, Of
<1>5. Buffers' /\ WholeImages'
  BY <1>1 DEF Stream, Buffers, WholeImages
<1> QED BY <1>2, <1>3, <1>4, <1>5 DEF Stream

\* The first element is taken off the stream.
LEMMA FlowTailed ==
    ASSUME Types, wire # <<>>, wire' = Tail(wire), sent' = sent,
           NEW p \in Pages, NEW got \in [1 .. Len(wire) + 1 -> Seq(Unit)], Received(p, got),
           jpeg'[p] = got[2]
    PROVE  \E g \in [1 .. Len(wire') + 1 -> Seq(Unit)] : Received(p, g)'
<1> DEFINE g == [i \in 1 .. Len(wire) |-> got[i + 1]]
<1>1. /\ Len(wire') = Len(wire) - 1 /\ Len(wire) \in Nat \ {0}
      /\ \A i \in 1 .. Len(wire') : wire'[i] = wire[i + 1] /\ i + 1 \in 1 .. Len(wire)
  BY TailElements DEF Types, DeviceType
<1>2. g \in [1 .. Len(wire') + 1 -> Seq(Unit)]
  <2>1. \A i \in 1 .. Len(wire) : got[i + 1] \in Seq(Unit)
    BY <1>1
  <2>2. Len(wire') + 1 = Len(wire)
    BY <1>1
  <2> QED BY <2>1, <2>2
<1>3. \A i \in 1 .. Len(wire) : g[i] = got[i + 1]
  OBVIOUS
<1> HIDE DEF g
<1>4. 1 \in 1 .. Len(wire) /\ Len(wire) \in 1 .. Len(wire) /\ Len(wire') + 1 = Len(wire)
  BY <1>1
<1>5. g[1] = jpeg'[p] /\ g[Len(wire') + 1] = sent'[p]
  BY <1>3, <1>4 DEF Received
<1>6. ASSUME NEW i \in 1 .. Len(wire')
      PROVE  /\ Of(p, wire'[i]) /\ wire'[i].kind = "chunk" => g[i + 1] = g[i] \o wire'[i].units
             /\ ~(Of(p, wire'[i]) /\ wire'[i].kind = "chunk") => g[i + 1] = g[i]
             /\ Of(p, wire'[i]) /\ wire'[i].kind = "eop" => g[i] = sent'[p]
  <2>1. i \in 1 .. Len(wire) /\ i + 1 \in 1 .. Len(wire) /\ wire'[i] = wire[i + 1]
    BY <1>1
  <2>2. g[i] = got[i + 1] /\ g[i + 1] = got[(i + 1) + 1]
    BY <1>3, <2>1
  <2> QED BY <2>1, <2>2 DEF Received
<1> QED BY <1>2, <1>5, <1>6 DEF Received, Of

\* One more element is sent.
LEMMA FlowAppended ==
    ASSUME Types, NEW e \in StreamElement, Sends(e), jpeg' = jpeg,
           NEW p \in Pages, NEW got \in [1 .. Len(wire) + 1 -> Seq(Unit)], Received(p, got),
           \A i \in 1 .. Len(wire) : Of(p, wire[i]) /\ wire[i].kind = "eop" => p \in ended
    PROVE  \E g \in [1 .. Len(wire') + 1 -> Seq(Unit)] : Received(p, g)'
<1> DEFINE n == Len(wire)
           g == [i \in 1 .. n + 2 |-> IF i <= n + 1 THEN got[i] ELSE sent'[p]]
<1>1. /\ Len(wire') = n + 1 /\ n \in Nat /\ wire'[n + 1] = e
      /\ \A i \in 1 .. n : wire'[i] = wire[i]
  BY AppendedElement DEF Sends, Types, DeviceType
<1>2. sent'[p] \in Seq(Unit)
  BY SendsTypes, Concatenated DEF Sends, Types, DeviceType, StreamElement
<1>3. g \in [1 .. n + 2 -> Seq(Unit)]
  <2>1. \A i \in 1 .. n + 2 : i <= n + 1 => i \in 1 .. n + 1
    BY <1>1
  <2> QED BY <1>2, <2>1
<1>4. (\A i \in 1 .. n + 1 : g[i] = got[i]) /\ g[n + 2] = sent'[p]
  <2>1. \A i \in 1 .. n + 1 : i \in 1 .. n + 2 /\ i <= n + 1
    BY <1>1
  <2>2. n + 2 \in 1 .. n + 2 /\ ~(n + 2 <= n + 1)
    BY <1>1
  <2> QED BY <2>1, <2>2
<1>5. got[1] = jpeg[p] /\ got[n + 1] = sent[p]
  BY DEF Received
<1>6. /\ Of(p, e) /\ e.kind = "chunk" => sent'[p] = sent[p] \o e.units
      /\ ~(Of(p, e) /\ e.kind = "chunk") => sent'[p] = sent[p]
      /\ p \in ended => sent'[p] = sent[p]
      /\ Of(p, e) => p \notin ended
  BY DEF Sends, Types, DeviceType, Of
<1> HIDE DEF g, n
<1>7. g[1] = jpeg'[p] /\ g[Len(wire') + 1] = sent'[p]
  <2>1. 1 \in 1 .. n + 1 /\ Len(wire') + 1 = n + 2
    BY <1>1
  <2> QED BY <1>4, <1>5, <2>1
<1>8. ASSUME NEW i \in 1 .. Len(wire')
      PROVE  /\ Of(p, wire'[i]) /\ wire'[i].kind = "chunk" => g[i + 1] = g[i] \o wire'[i].units
             /\ ~(Of(p, wire'[i]) /\ wire'[i].kind = "chunk") => g[i + 1] = g[i]
             /\ Of(p, wire'[i]) /\ wire'[i].kind = "eop" => g[i] = sent'[p]
  <2>1. CASE i \in 1 .. n
    <3>1. i \in 1 .. n + 1 /\ i + 1 \in 1 .. n + 1 /\ wire'[i] = wire[i] /\ i \in 1 .. Len(wire)
      BY <1>1, <2>1 DEF n
    <3>2. g[i] = got[i] /\ g[i + 1] = got[i + 1]
      BY <1>4, <3>1
    <3> QED BY <1>6, <3>1, <3>2 DEF Received
  <2>2. CASE i = n + 1
    <3>1. g[i] = sent[p] /\ g[i + 1] = sent'[p] /\ wire'[i] = e
      <4>1. n + 1 \in 1 .. n + 1 /\ i + 1 = n + 2
        BY <1>1, <2>2
      <4> QED BY <1>1, <1>4, <1>5, <2>2, <4>1
    <3>2. e.kind = "chunk" => e.kind # "eop"
      OBVIOUS
    <3> QED BY <1>6, <3>1, <3>2
  <2>3. i \in 1 .. n \/ i = n + 1
    BY <1>1
  <2> QED BY <2>1, <2>2, <2>3
<1>9. 1 .. Len(wire') + 1 = 1 .. n + 2
  BY <1>1
<1> QED BY <1>3, <1>7, <1>8, <1>9 DEF Received, Of

\* Sending an element keeps Stream.
LEMMA StreamSends ==
    ASSUME Types, Stream, NEW e \in StreamElement, Sends(e),
           UNCHANGED <<pc, status, open, jpeg, cur, resultVars, shown>>
    PROVE  Stream'
<1>1. Complete' = Complete /\ image' = image
  BY DEF Complete, resultVars
<1>2. /\ Len(wire') = Len(wire) + 1 /\ Len(wire) \in Nat /\ wire'[Len(wire) + 1] = e
      /\ \A i \in 1 .. Len(wire) : wire'[i] = wire[i]
      /\ \A i \in 1 .. Len(wire') : i \in 1 .. Len(wire) \/ i = Len(wire) + 1
  BY AppendedElement DEF Sends, Types, DeviceType
<1>3. ~jobFinal /\ ended \subseteq ended' /\ \A p \in ended : sent'[p] = sent[p] /\ ~Of(p, e)
  BY DEF Sends, MaySend, Types, DeviceType, Of
<1>4. CASE pc \notin Loop
  BY <1>1, <1>3, <1>4, StreamLeft
<1>5. CASE pc \in Loop
  <2>1. Flow'
    <3> SUFFICES ASSUME NEW p \in Pages \ Complete
                 PROVE  \E g \in [1 .. Len(wire') + 1 -> Seq(Unit)] : Received(p, g)'
      BY <1>1 DEF Flow
    <3>1. PICK got \in [1 .. Len(wire) + 1 -> Seq(Unit)] : Received(p, got)
      BY <1>5 DEF Stream, Flow
    <3>2. \A i \in 1 .. Len(wire) : Of(p, wire[i]) /\ wire[i].kind = "eop" => p \in ended
      BY <1>5 DEF Stream, Markers, Of
    <3> QED BY <3>1, <3>2, FlowAppended
  <2>2. Markers'
    <3> SUFFICES ASSUME NEW i \in 1 .. Len(wire')
                 PROVE  /\ wire'[i].kind = "eop" =>
                              /\ wire'[i].page \in ended'
                              /\ \A j \in i + 1 .. Len(wire') : ~Of(wire'[i].page, wire'[j])
                        /\ wire'[i].kind = "final" => jobFinal' /\ i = Len(wire')
      BY DEF Markers, Of
    <3>1. CASE i \in 1 .. Len(wire)
      <4>1. wire'[i] = wire[i] /\ wire[i].kind # "final"
        BY <1>2, <1>3, <1>5, <3>1 DEF Stream, Markers
      <4>2. wire[i].kind = "eop" => wire[i].page \in ended /\ \A j \in i + 1 .. Len(wire) : ~Of(wire[i].page, wire[j])
        BY <1>5, <3>1 DEF Stream, Markers
      <4>3. \A j \in i + 1 .. Len(wire') : \/ j \in i + 1 .. Len(wire) /\ wire'[j] = wire[j]
                                           \/ wire'[j] = e
        BY <1>2, <3>1
      <4> QED BY <1>3, <4>1, <4>2, <4>3
    <3>2. CASE i = Len(wire) + 1
      <4>1. wire'[i] = e /\ i = Len(wire') /\ \A j \in i + 1 .. Len(wire') : FALSE
        BY <1>2, <3>2
      <4> QED BY <4>1 DEF Sends
    <3> QED BY <1>2, <3>1, <3>2
  <2>3. \A p \in ended : Silent(p) => Silent(p)'
    BY <1>2, <1>3 DEF Silent, Of
  <2>4. Over'
    BY <1>1, <1>3, <1>5, <2>3 DEF Stream, Over
  <2>5. Buffers'
    BY DEF Stream, Buffers
  <2>6. WholeImages'
    BY <1>1, <1>3 DEF Stream, WholeImages, Over
  <2> QED BY <2>1, <2>2, <2>4, <2>5, <2>6 DEF Stream
<1> QED BY <1>4, <1>5


\* Reading an element keeps what Markers says of the markers left.
LEMMA MarkersTailed ==
    ASSUME Types, Markers, pc \in Loop, wire # <<>>, wire' = Tail(wire), UNCHANGED <<ended, jobFinal>>
    PROVE  Markers' /\ \A p \in Pages : Silent(p) => Silent(p)'
<1>1. /\ Len(wire') = Len(wire) - 1 /\ Len(wire) \in Nat \ {0}
      /\ \A i \in 1 .. Len(wire') : wire'[i] = wire[i + 1] /\ i + 1 \in 1 .. Len(wire)
  BY TailElements DEF Types, DeviceType
<1>2. \A i \in 1 .. Len(wire') : \A j \in i + 1 .. Len(wire') :
          wire'[j] = wire[j + 1] /\ j + 1 \in (i + 1) + 1 .. Len(wire)
  BY <1>1
<1>3. ASSUME NEW i \in 1 .. Len(wire')
      PROVE  /\ wire'[i].kind = "eop" => /\ wire'[i].page \in ended'
                                         /\ \A j \in i + 1 .. Len(wire') : ~Of(wire'[i].page, wire'[j])
             /\ wire'[i].kind = "final" => jobFinal' /\ i = Len(wire')
  <2>1. wire'[i] = wire[i + 1] /\ i + 1 \in 1 .. Len(wire)
    BY <1>1
  <2>2. /\ wire[i + 1].kind = "eop" =>
              /\ wire[i + 1].page \in ended
              /\ \A j \in (i + 1) + 1 .. Len(wire) : ~Of(wire[i + 1].page, wire[j])
        /\ wire[i + 1].kind = "final" => jobFinal /\ i + 1 = Len(wire)
    BY <2>1 DEF Markers
  <2>3. i + 1 = Len(wire) => i = Len(wire')
    <3>1. Len(wire) = Len(wire') + 1 /\ Len(wire') \in Nat /\ i \in Nat
      BY <1>1
    <3>2. \A m, n \in Nat : m + 1 = n + 1 => m = n
      OBVIOUS
    <3> QED BY <3>1, <3>2, Zenon
  <2> QED BY <1>2, <2>1, <2>2, <2>3
<1>4. Markers'
  BY <1>3 DEF Markers, Of
<1>5. \A p \in Pages : Silent(p) => Silent(p)'
  BY <1>1 DEF Silent, Of
<1> QED BY <1>4, <1>5

\* Taking a chunk keeps Stream: what was on its way is now in the page.
LEMMA StreamTakes ==
    ASSUME Types, Stream, Takes, UNCHANGED <<streaming, deviceVars>>
    PROVE  Stream' /\ Complete' = Complete /\ Head1.page \in Pages \ Complete
<1> DEFINE q == Head1.page
<1>1. /\ pc \in Loop /\ pc' \in {"boundary", "feed"} /\ pc' \in Loop
      /\ wire # <<>> /\ wire' = Tail(wire) /\ wire[1].kind = "chunk" /\ Head1 = wire[1]
      /\ 1 \in 1 .. Len(wire) /\ UNCHANGED <<sent, ended, jobFinal, image>>
  BY HeadIs DEF Takes, Loop, deviceVars, resultVars, Head1
<1>2. q \in Pages
  BY <1>1 DEF Types, DeviceType
<1>3. Complete' = Complete
  BY <1>1 DEF Complete
<1>4. Of(q, wire[1]) /\ \A p \in Pages : Of(p, wire[1]) => p = q
  BY <1>1 DEF Of
<1>5. q \notin Complete
  BY <1>1, <1>2, <1>4 DEF Stream, Over, Silent
<1>6. jpeg[q] \o Head1.units = jpeg'[q] /\ \A p \in Pages : p # q => jpeg'[p] = jpeg[p]
  BY <1>2 DEF Takes, Types, ReadoutType
<1>7. Flow'
  <2> SUFFICES ASSUME NEW p \in Pages \ Complete
               PROVE  \E g \in [1 .. Len(wire') + 1 -> Seq(Unit)] : Received(p, g)'
    BY <1>3 DEF Flow
  <2>1. PICK got \in [1 .. Len(wire) + 1 -> Seq(Unit)] : Received(p, got)
    BY <1>1 DEF Stream, Flow
  <2>2. got[2] = jpeg'[p]
    <3>1. got[1 + 1] = jpeg'[p]
      <4>1. CASE p = q
        <5>1. got[1] = jpeg[q] /\ got[1 + 1] = got[1] \o wire[1].units
          BY <1>1, <1>4, <2>1, <4>1 DEF Received
        <5> QED BY <1>1, <1>6, <4>1, <5>1
      <4>2. CASE p # q
        BY <1>1, <1>4, <1>6, <2>1, <4>2 DEF Received
      <4> QED BY <4>1, <4>2
    <3> QED BY <3>1
  <2> QED BY <1>1, <2>1, <2>2, FlowTailed
<1>8. Markers' /\ \A p \in Pages : Silent(p) => Silent(p)'
  BY <1>1, MarkersTailed DEF Stream
<1>9. Over'
  <2>1. pc' \in {"feed", "finish"} => cur' = q
    BY DEF Takes
  <2> QED BY <1>1, <1>3, <1>5, <1>8, <2>1 DEF Stream, Over, Complete
<1>10. Buffers'
  <2>1. open' = open \cup {q}
    BY DEF Takes
  <2> QED BY <1>6, <2>1 DEF Stream, Buffers
<1>11. WholeImages'
  BY <1>1, <1>3 DEF Stream, WholeImages
<1> QED BY <1>2, <1>3, <1>5, <1>7, <1>8, <1>9, <1>10, <1>11 DEF Stream

\* Taking a marker keeps Stream.
LEMMA StreamMarks ==
    ASSUME Types, Stream, Marks, UNCHANGED <<streaming, deviceVars>>
    PROVE  Stream' /\ Complete' = Complete
<1>1. /\ pc \in Loop /\ pc' = "finish" /\ pc' \in Loop
      /\ wire # <<>> /\ wire' = Tail(wire) /\ wire[1].kind = "eop" /\ Head1 = wire[1]
      /\ 1 \in 1 .. Len(wire) /\ UNCHANGED <<sent, ended, jobFinal, image, jpeg, open>>
  BY HeadIs DEF Marks, Loop, deviceVars, resultVars, Head1
<1>2. PICK q \in Pages : q = wire[1].page
  BY <1>1 DEF Types, DeviceType
<1>3. Complete' = Complete
  BY <1>1 DEF Complete
<1>4. Of(q, wire[1])
  BY <1>1, <1>2 DEF Of
<1>5. q \notin Complete
  BY <1>1, <1>2, <1>4 DEF Stream, Over, Silent
<1>6. Flow'
  <2> SUFFICES ASSUME NEW p \in Pages \ Complete
               PROVE  \E g \in [1 .. Len(wire') + 1 -> Seq(Unit)] : Received(p, g)'
    BY <1>3 DEF Flow
  <2>1. PICK got \in [1 .. Len(wire) + 1 -> Seq(Unit)] : Received(p, got)
    BY <1>1 DEF Stream, Flow
  <2>2. got[2] = jpeg'[p]
    <3>1. got[1 + 1] = got[1] /\ got[1] = jpeg'[p]
      BY <1>1, <2>1 DEF Received
    <3> QED BY <3>1
  <2> QED BY <1>1, <2>1, <2>2, FlowTailed
<1>7. Markers' /\ \A p \in Pages : Silent(p) => Silent(p)'
  BY <1>1, MarkersTailed DEF Stream
<1>8. q \in ended /\ Silent(q)'
  <2>1. q \in ended /\ \A j \in 1 + 1 .. Len(wire) : ~Of(q, wire[j])
    BY <1>1, <1>2 DEF Stream, Markers
  <2>2. \A i \in 1 .. Len(wire') : wire'[i] = wire[i + 1] /\ i + 1 \in 1 + 1 .. Len(wire)
    <3>1. /\ Len(wire') = Len(wire) - 1 /\ Len(wire) \in Nat \ {0}
          /\ \A i \in 1 .. Len(wire') : wire'[i] = wire[i + 1]
      BY <1>1, TailElements DEF Types, DeviceType
    <3> QED BY <3>1
  <2> QED BY <2>1, <2>2 DEF Silent, Of
<1>9. jpeg[q] = sent[q] /\ EndsInEoi(sent[q])
  <2>1. PICK got \in [1 .. Len(wire) + 1 -> Seq(Unit)] : Received(q, got)
    BY <1>1, <1>2, <1>5 DEF Stream, Flow
  <2>2. jpeg[q] = sent[q]
    BY <1>1, <1>4, <2>1 DEF Received
  <2> QED BY <1>1, <1>2, <2>2 DEF Marks
<1>10. Over'
  <2>1. cur' = q
    BY <1>1, <1>2 DEF Marks
  <2> QED BY <1>1, <1>3, <1>5, <1>7, <1>8, <1>9, <2>1 DEF Stream, Over, Complete
<1>11. Buffers' /\ WholeImages'
  BY <1>1, <1>3 DEF Stream, Buffers, WholeImages
<1> QED BY <1>3, <1>6, <1>7, <1>10, <1>11 DEF Stream

\* Finishing a page keeps Stream: nothing of that page is left on the way.
LEMMA StreamFinishes ==
    ASSUME Types, Stream, FinishPage, UNCHANGED <<streaming, deviceVars>>
    PROVE  /\ Stream' /\ Complete' = Complete \cup {cur} /\ cur \in Pages \ Complete
           /\ image'[cur] = Decoded(jpeg[cur]) /\ EndsInEoi(jpeg[cur])
           /\ \A p \in Pages \ {cur} : image'[p] = image[p] /\ jpeg'[p] = jpeg[p]
<1>1. /\ pc = "finish" /\ pc \in Loop /\ pc' = "tail" /\ pc' \in Loop /\ cur \in Pages
      /\ UNCHANGED <<wire, sent, ended, jobFinal, shown>>
  BY DEF FinishPage, Loop, Types, ReadoutType, deviceVars
<1>2. /\ image'[cur] = Decoded(jpeg[cur]) /\ jpeg'[cur] = <<>> /\ open' = open \ {cur}
      /\ \A p \in Pages \ {cur} : image'[p] = image[p] /\ jpeg'[p] = jpeg[p]
  BY <1>1 DEF FinishPage, Types, ReadoutType
<1>3. image'[cur] # <<>>
  <2>1. Decoded(jpeg[cur]) \in Seq(Unit) /\ Len(Decoded(jpeg[cur])) = Height
    BY <1>1, DecodedIs DEF Types, ReadoutType
  <2> QED BY <1>2, <2>1, HeightIs
<1>4. Complete' = Complete \cup {cur}
  BY <1>1, <1>2, <1>3 DEF Complete
<1>5. /\ cur \notin Complete /\ cur \in ended /\ Silent(cur)
      /\ jpeg[cur] = sent[cur] /\ EndsInEoi(sent[cur])
  BY <1>1 DEF Stream, Over
<1>6. Flow'
  <2> SUFFICES ASSUME NEW p \in Pages \ (Complete \cup {cur})
               PROVE  \E g \in [1 .. Len(wire') + 1 -> Seq(Unit)] : Received(p, g)'
    BY <1>4 DEF Flow
  <2>1. PICK got \in [1 .. Len(wire) + 1 -> Seq(Unit)] : Received(p, got)
    BY <1>1 DEF Stream, Flow
  <2>2. Received(p, got)'
    BY <1>1, <1>2, <2>1 DEF Received, Of
  <2> QED BY <1>1, <2>2
<1>7. Markers'
  BY <1>1 DEF Stream, Markers, Of
<1>8. Over'
  <2>1. \A p \in Pages : Silent(p) => Silent(p)'
    BY <1>1 DEF Silent, Of
  <2>2. Complete' \subseteq ended' /\ \A p \in Complete' : Silent(p)'
    BY <1>1, <1>4, <1>5, <2>1 DEF Stream, Over, Complete
  <2> QED BY <1>1, <2>2 DEF Over
<1>9. Buffers'
  BY <1>1, <1>2 DEF Stream, Buffers
<1>10. WholeImages'
  BY <1>1, <1>2, <1>4, <1>5 DEF Stream, WholeImages, Complete
<1> QED BY <1>1, <1>2, <1>4, <1>5, <1>6, <1>7, <1>8, <1>9, <1>10 DEF Stream

\* The first state has nothing on its way.
LEMMA InitStream == Init => Stream
<1> SUFFICES ASSUME Init PROVE Stream
  OBVIOUS
<1>1. Complete = {} /\ wire = <<>> /\ pc = "boundary"
  BY DEF Init, Complete
<1>2. Len(wire) = 0 /\ 1 .. Len(wire) = {} /\ 1 .. Len(wire) + 1 = {1}
  BY <1>1
<1>3. Flow
  <2> SUFFICES ASSUME NEW p \in Pages
               PROVE  \E got \in [1 .. Len(wire) + 1 -> Seq(Unit)] : Received(p, got)
    BY DEF Flow
  <2> DEFINE g == [i \in {1} |-> <<>>]
  <2>1. g \in [1 .. Len(wire) + 1 -> Seq(Unit)]
    <3>1. <<>> \in Seq(Unit)
      OBVIOUS
    <3> QED BY <1>2, <3>1
  <2>2. g[1] = jpeg[p] /\ g[Len(wire) + 1] = sent[p]
    BY <1>2 DEF Init
  <2>3. Received(p, g)
    BY <1>2, <2>2 DEF Received
  <2> QED BY <2>1, <2>3
<1>4. Markers
  BY <1>2 DEF Markers
<1>5. Over
  BY <1>1 DEF Over
<1>6. Buffers /\ WholeImages
  BY <1>1 DEF Buffers, WholeImages, Init
<1> QED BY <1>3, <1>4, <1>5, <1>6 DEF Stream

\* Every readout step keeps Stream.
LEMMA StreamReadout ==
    ASSUME Types, Stream, UNCHANGED <<streaming, deviceVars>>,
           \/ GivesUp \/ Takes \/ Shows \/ Flushes \/ Resumes \/ Marks \/ FinishPage
           \/ FlushOne \/ FlushDone \/ ReturnToCaller
    PROVE  Stream'
<1>0. UNCHANGED <<sent, ended, jobFinal>>
  BY DEF deviceVars
<1>1. CASE GivesUp \/ Flushes \/ FlushOne \/ FlushDone \/ ReturnToCaller
  <2>1. pc' \notin Loop /\ UNCHANGED <<open, jpeg, image>>
    BY <1>1 DEF GivesUp, Flushes, FlushOne, FlushDone, ReturnToCaller, Loop, resultVars
  <2> QED BY <1>0, <2>1, StreamLeft
<1>2. CASE Shows \/ Resumes
  <2>1. CASE pc' = "flush"
    <3>1. pc' \notin Loop /\ UNCHANGED <<open, jpeg, image>>
      BY <1>2, <2>1 DEF Shows, Resumes, Loop, resultVars
    <3> QED BY <1>0, <3>1, StreamLeft
  <2>2. CASE pc' # "flush"
    <3>1. UNCHANGED <<wire, open, jpeg, image, cur>> /\ pc \in Loop /\ (pc' \in {"feed", "finish"} => pc' = pc)
      BY <1>2, <2>2 DEF Shows, Resumes, Loop, resultVars
    <3> QED BY <1>0, <3>1, StreamStays
  <2> QED BY <2>1, <2>2
<1> QED BY <1>1, <1>2, StreamTakes, StreamMarks, StreamFinishes

\* Every step keeps Stream.
LEMMA NextStream == Types /\ Stream /\ [Next]_vars => Stream'
<1> SUFFICES ASSUME Types, Stream, [Next]_vars PROVE Stream'
  OBVIOUS
<1>1. CASE UNCHANGED vars
  BY <1>1, StreamStays DEF vars, deviceVars, resultVars
<1>2. CASE Device
  <2>1. UNCHANGED <<streaming, pc, status, open, jpeg, cur, resultVars, shown>>
    BY <1>2, DeviceIs
  <2>2. ASSUME NEW e \in StreamElement, Sends(e) PROVE Stream'
    BY <2>1, <2>2, StreamSends
  <2>3. CASE UNCHANGED <<wire, sent, ended, jobFinal, faults>>
    BY <2>1, <2>3, StreamStays DEF resultVars
  <2> QED BY <1>2, <2>2, <2>3, DeviceIs
<1>3. CASE Readout
  BY <1>3, ReadoutIs, StreamReadout
<1> QED BY <1>1, <1>2, <1>3 DEF Next

-----------------------------------------------------------------------------
(* The bands of a page.                                                     *)

\* A step that touches no page, image or band keeps Bands.
LEMMA BandsStay == ASSUME Bands, UNCHANGED <<streaming, jpeg, image, shown>> PROVE Bands'
BY DEF Bands, Complete, Produced

\* A chunk only adds rows, so the bands shown stay rows of the page.
LEMMA BandsTake ==
    ASSUME Types, Stream, Bands, Takes, UNCHANGED <<streaming, deviceVars>>
    PROVE  Bands'
<1>1. Stream' /\ Complete' = Complete /\ Head1.page \in Pages \ Complete
  BY StreamTakes
<1>2. PICK q \in Pages : q = Head1.page
  BY <1>1
<1>3. PICK units \in Seq(Unit) : units = Head1.units
  BY HeadIs DEF Takes, StreamElement
<1>4. /\ UNCHANGED <<streaming, shown, image>> /\ jpeg[q] \in Seq(Unit)
      /\ jpeg'[q] = jpeg[q] \o units /\ \A p \in Pages : p # q => jpeg'[p] = jpeg[p]
  BY <1>2, <1>3 DEF Takes, Types, ReadoutType, resultVars
<1>5. Produced(q) \in 0 .. Height /\ Produced(q)' \in 0 .. Height /\ Produced(q) <= Produced(q)'
  <2>1. jpeg'[q] \in Seq(Unit)
    BY <1>4, Concatenated
  <2>2. Produced(q) = Yield(jpeg[q]) /\ Produced(q)' = Yield(jpeg'[q])
    BY DEF Produced, Yield
  <2>3. Yield(jpeg[q]) <= Yield(jpeg[q] \o units)
    BY <1>4, DecodedGrows
  <2>4. Yield(jpeg[q]) \in 0 .. Height /\ Yield(jpeg'[q]) \in 0 .. Height
    BY <1>4, <2>1, YieldRange
  <2> QED BY <1>4, <2>2, <2>3, <2>4
<1>6. \A k \in 1 .. Produced(q) : Decoded(jpeg'[q])[k] = Decoded(jpeg[q])[k]
  BY <1>4, DecodedGrows, ProducedIs
<1>7. ASSUME NEW p \in Pages, p \notin Complete, streaming
      PROVE  /\ Len(shown[p]) <= Produced(p)'
             /\ \A k \in 1 .. Len(shown[p]) : shown[p][k] = Decoded(jpeg'[p])[k]
  <2>1. /\ Len(shown[p]) <= Produced(p) /\ Len(shown[p]) \in Nat
        /\ \A k \in 1 .. Len(shown[p]) : shown[p][k] = Decoded(jpeg[p])[k]
    BY <1>7 DEF Bands, Types, ReadoutType
  <2>2. CASE p = q
    <3>1. \A k \in 1 .. Len(shown[q]) : k \in 1 .. Produced(q)
      BY <1>5, <2>1, <2>2
    <3>2. Len(shown[q]) <= Produced(q)'
      BY <1>5, <2>1, <2>2
    <3> QED BY <1>6, <2>1, <2>2, <3>1, <3>2
  <2>3. CASE p # q
    <3>1. Produced(p)' = Produced(p)
      BY <1>4, <2>3 DEF Produced
    <3> QED BY <1>4, <2>1, <2>3, <3>1
  <2> QED BY <2>2, <2>3
<1>8. \A p \in Pages : shown'[p] = shown[p] /\ image'[p] = image[p]
  BY <1>4
<1> QED BY <1>1, <1>4, <1>7, <1>8 DEF Bands

\* A band is shown in order and from rows already decoded.
LEMMA BandsShow ==
    ASSUME Types, Stream, Bands, Shows, UNCHANGED <<streaming, deviceVars>>
    PROVE  Bands'
<1>1. /\ streaming /\ streaming' /\ cur \in Pages /\ cur \notin Complete
      /\ Len(shown[cur]) < Produced(cur)
  BY DEF Shows, Types, ReadoutType, Stream, Over
<1>2. /\ Complete' = Complete /\ UNCHANGED <<jpeg, image>>
      /\ \A p \in Pages : Produced(p)' = Produced(p)
  BY DEF Shows, resultVars, Complete, Produced
<1>3. NextBand \in Unit /\ Len(shown[cur]) \in Nat /\ Produced(cur) \in 0 .. Height
  BY <1>1, NextBandIs
<1>4. /\ shown'[cur] = Append(shown[cur], NextBand)
      /\ \A p \in Pages \ {cur} : shown'[p] = shown[p]
  BY <1>1 DEF Shows, Types, ReadoutType
<1>5. /\ Len(shown'[cur]) = Len(shown[cur]) + 1 /\ shown'[cur][Len(shown[cur]) + 1] = NextBand
      /\ \A k \in 1 .. Len(shown[cur]) : shown'[cur][k] = shown[cur][k]
  <2>1. shown[cur] \in Seq(Unit)
    BY <1>1 DEF Types, ReadoutType
  <2> QED BY <1>3, <1>4, <2>1
<1>6. Len(shown'[cur]) <= Produced(cur)
  BY <1>1, <1>3, <1>5
<1>7. ASSUME NEW k \in 1 .. Len(shown'[cur]) PROVE shown'[cur][k] = Decoded(jpeg[cur])[k]
  <2>1. CASE k \in 1 .. Len(shown[cur])
    BY <1>1, <1>5, <2>1 DEF Bands
  <2>2. CASE k = Len(shown[cur]) + 1
    BY <1>5, <2>2 DEF NextBand
  <2>3. k \in 1 .. Len(shown[cur]) \/ k = Len(shown[cur]) + 1
    BY <1>3, <1>5
  <2> QED BY <2>1, <2>2, <2>3
<1>8. ASSUME NEW p \in Pages
      PROVE  /\ ~streaming' => shown'[p] = <<>>
             /\ streaming' /\ p \in Complete' => shown'[p] = image'[p]
             /\ streaming' /\ p \notin Complete' =>
                   /\ Len(shown'[p]) <= Produced(p)'
                   /\ \A k \in 1 .. Len(shown'[p]) : shown'[p][k] = Decoded(jpeg'[p])[k]
  <2>1. CASE p = cur
    BY <1>1, <1>2, <1>6, <1>7, <2>1
  <2>2. CASE p # cur
    BY <1>1, <1>2, <1>4, <2>2 DEF Bands
  <2> QED BY <2>1, <2>2
<1> QED BY <1>8 DEF Bands

\* The drain completes the bands of the finished page.
LEMMA BandsFinish ==
    ASSUME Types, Stream, Bands, FinishPage, UNCHANGED <<streaming, deviceVars>>
    PROVE  Bands' /\ (streaming => image'[cur] = shown[cur])
<1>1. /\ Complete' = Complete \cup {cur} /\ cur \in Pages \ Complete
      /\ image'[cur] = Decoded(jpeg[cur]) /\ EndsInEoi(jpeg[cur])
      /\ \A p \in Pages \ {cur} : image'[p] = image[p] /\ jpeg'[p] = jpeg[p]
  BY StreamFinishes
<1>2. UNCHANGED <<streaming, shown>>
  BY DEF FinishPage
<1>3. jpeg[cur] \in Seq(Unit) /\ shown[cur] \in Seq(Unit) /\ Len(shown[cur]) \in Nat
  BY <1>1 DEF Types, ReadoutType
<1>4. Produced(cur) = Height
  BY <1>1, <1>3, ProducedIs, WholeJpeg
<1>5. ASSUME streaming PROVE image'[cur] = shown[cur]
  <2>1. ~(Len(shown[cur]) < Height)
    BY <1>4, <1>5 DEF FinishPage, BandDue
  <2>2. Len(shown[cur]) <= Height /\ \A k \in 1 .. Len(shown[cur]) : shown[cur][k] = Decoded(jpeg[cur])[k]
    BY <1>1, <1>4, <1>5 DEF Bands
  <2>3. Len(shown[cur]) = Height
    BY <1>3, <2>1, <2>2, HeightIs
  <2>4. Decoded(jpeg[cur]) \in Seq(Unit) /\ Len(Decoded(jpeg[cur])) = Height
    BY <1>3, DecodedIs
  <2>5. \A s, t \in Seq(Unit) : Len(s) = Len(t) /\ (\A k \in 1 .. Len(s) : s[k] = t[k]) => s = t
    BY SeqEqual
  <2> QED BY <1>1, <1>3, <2>2, <2>3, <2>4, <2>5
<1>6. \A p \in Pages \ {cur} : Produced(p)' = Produced(p)
  BY <1>1 DEF Produced
<1>7. ASSUME NEW p \in Pages
      PROVE  /\ ~streaming' => shown'[p] = <<>>
             /\ streaming' /\ p \in Complete' => shown'[p] = image'[p]
             /\ streaming' /\ p \notin Complete' =>
                   /\ Len(shown'[p]) <= Produced(p)'
                   /\ \A k \in 1 .. Len(shown'[p]) : shown'[p][k] = Decoded(jpeg'[p])[k]
  <2>1. CASE p = cur
    BY <1>1, <1>2, <1>5, <2>1 DEF Bands
  <2>2. CASE p # cur
    BY <1>1, <1>2, <1>6, <2>2 DEF Bands
  <2> QED BY <2>1, <2>2
<1> QED BY <1>5, <1>7 DEF Bands

\* No band has been shown at first.
LEMMA InitBands == Init => Bands
<1> SUFFICES ASSUME Init PROVE Bands
  OBVIOUS
<1>1. Complete = {} /\ \A p \in Pages : shown[p] = <<>> /\ jpeg[p] = <<>>
  BY DEF Init, Complete
<1>2. Len(<<>>) = 0 /\ 1 .. Len(<<>>) = {} /\ <<>> \in Seq(Unit)
  OBVIOUS
<1>3. \A p \in Pages : Produced(p) \in 0 .. Height
  BY <1>1, <1>2, ProducedIs, YieldRange
<1>4. \A p \in Pages : Len(shown[p]) <= Produced(p)
  BY <1>1, <1>2, <1>3
<1>5. \A p \in Pages : \A k \in 1 .. Len(shown[p]) : FALSE
  BY <1>1, <1>2
<1> QED BY <1>1, <1>4, <1>5 DEF Bands

\* Every step keeps Bands.
LEMMA NextBands == Types /\ Stream /\ Bands /\ [Next]_vars => Bands'
<1> SUFFICES ASSUME Types, Stream, Bands, [Next]_vars PROVE Bands'
  OBVIOUS
<1>1. CASE UNCHANGED vars
  BY <1>1, BandsStay DEF vars, resultVars
<1>2. CASE Device
  BY <1>2, DeviceIs, BandsStay DEF resultVars
<1>3. CASE Readout
  <2>1. UNCHANGED <<streaming, deviceVars>>
    BY <1>3, ReadoutIs
  <2>2. CASE GivesUp \/ Flushes \/ Resumes \/ Marks \/ FlushOne \/ FlushDone \/ ReturnToCaller
    BY <2>1, <2>2, BandsStay
       DEF GivesUp, Flushes, Resumes, Marks, FlushOne, FlushDone, ReturnToCaller, resultVars
  <2> QED BY <1>3, <2>1, <2>2, ReadoutIs, BandsTake, BandsShow, BandsFinish
<1> QED BY <1>1, <1>2, <1>3 DEF Next

\* Types, Stream and Bands hold throughout.
LEMMA StreamHolds == Spec => [](Types /\ Stream /\ Bands)
<1>1. Init => Types /\ Stream /\ Bands
  BY InitTypes, InitStream, InitBands
<1>2. (Types /\ Stream /\ Bands) /\ [Next]_vars => (Types /\ Stream /\ Bands)'
  BY NextTypes, NextStream, NextBands
<1> QED BY <1>1, <1>2, PTL DEF Spec

\* A finished page decodes from the whole JPEG the device sent for it, and the bands its caller
\* was shown are the page: RunColorScan's routing of chunks by page index, its end-of-page check
\* and the drain of the page's decoder, for any number of pages and any stream.
THEOREM PagesAreWhole == Spec => []FinishedPagesAreWhole
<1>1. Stream /\ Bands => FinishedPagesAreWhole
  BY DEF Stream, WholeImages, Bands, FinishedPagesAreWhole, Complete
<1> QED BY StreamHolds, <1>1, PTL

-----------------------------------------------------------------------------
(* The results.                                                             *)

\* A step that touches no finished page and no result keeps Order.
LEMMA OrderStays ==
    ASSUME Order, UNCHANGED <<finished, image, out>>, pc \in Loop,
           \/ pc' \in Loop /\ status' = status
           \/ pc' = "flush" /\ status' # "running"
           \/ pc' = "return" /\ status' \in {"timeout", "io", "protocol"}
    PROVE  Order'
<1>1. Complete' = Complete /\ Listed(out') = Listed(out)
  BY DEF Complete
<1> QED BY <1>1 DEF Order, Loop, Listed

\* A page that finishes joins the finished ones.
LEMMA OrderFinish ==
    ASSUME Types, Stream, Order, FinishPage, UNCHANGED <<streaming, deviceVars>>
    PROVE  Order'
<1>1. Complete' = Complete \cup {cur}
  BY StreamFinishes
<1>2. /\ pc \in Loop /\ pc' = "tail" /\ finished' = finished \cup {cur} /\ UNCHANGED <<status, out>>
  BY DEF FinishPage, Loop
<1>3. out = <<>> /\ status = "running" /\ Complete = finished \cup Listed(out)
  BY <1>2 DEF Order, Loop
<1>4. \A i \in 1 .. Len(out) : FALSE
  BY <1>3
<1> QED BY <1>1, <1>2, <1>3, <1>4 DEF Order, Loop, Listed

\* Flushing hands back the least finished page that is left.
LEMMA OrderFlush == ASSUME Types, Order, FlushOne PROVE Order'
<1>1. PICK p \in finished : /\ \A q \in finished : p <= q
                            /\ out' = Append(out, p) /\ finished' = finished \ {p}
  BY DEF FlushOne
<1>2. pc = "flush" /\ pc' = "flush" /\ UNCHANGED <<status, image>> /\ Complete' = Complete
  BY DEF FlushOne, Complete
<1>3. p \in Pages /\ out \in Seq(Pages) /\ \A q \in Pages : q \in Nat
  BY PageIs DEF Types, ReadoutType
<1>4. /\ Len(out') = Len(out) + 1 /\ Len(out) \in Nat /\ out'[Len(out) + 1] = p
      /\ \A i \in 1 .. Len(out) : out'[i] = out[i]
  BY <1>1, <1>3
<1>5. \A i \in 1 .. Len(out') : i \in 1 .. Len(out) \/ i = Len(out) + 1
  BY <1>4
<1>6. \A i, j \in 1 .. Len(out') : i < j => out'[i] < out'[j]
  <2> SUFFICES ASSUME NEW i \in 1 .. Len(out'), NEW j \in 1 .. Len(out'), i < j PROVE out'[i] < out'[j]
    OBVIOUS
  <2>1. i \in 1 .. Len(out)
    BY <1>4, <1>5
  <2>2. CASE j \in 1 .. Len(out)
    BY <1>4, <2>1, <2>2 DEF Order
  <2>3. CASE j = Len(out) + 1
    BY <1>1, <1>4, <2>1, <2>3 DEF Order
  <2> QED BY <1>5, <2>2, <2>3
<1>7. \A i \in 1 .. Len(out') : \A q \in finished' : out'[i] < q
  <2> SUFFICES ASSUME NEW i \in 1 .. Len(out'), NEW q \in finished' PROVE out'[i] < q
    OBVIOUS
  <2>1. CASE i \in 1 .. Len(out)
    BY <1>1, <1>4, <2>1 DEF Order
  <2>2. CASE i = Len(out) + 1
    <3>1. p <= q /\ p # q /\ q \in Nat /\ p \in Nat
      BY <1>1, <1>3 DEF Types, ReadoutType
    <3> QED BY <1>4, <2>2, <3>1
  <2> QED BY <1>5, <2>1, <2>2
<1>8. Listed(out') = Listed(out) \cup {p}
  <2>1. DOMAIN out' = 1 .. Len(out') /\ DOMAIN out = 1 .. Len(out)
    <3>1. out' \in Seq(Pages)
      BY <1>1, <1>3
    <3> QED BY <1>3, <3>1
  <2>2. DOMAIN out' = DOMAIN out \cup {Len(out) + 1}
    BY <1>4, <2>1
  <2> QED BY <1>4, <2>1, <2>2 DEF Listed
<1>9. Complete' = finished' \cup Listed(out')
  BY <1>1, <1>2, <1>8 DEF Order
<1>10. pc' \notin Loop /\ status' # "running" /\ pc' \notin {"return", "done"}
  BY <1>2 DEF Order, Loop
<1> QED BY <1>2, <1>6, <1>7, <1>9, <1>10 DEF Order

\* The end of the flush and the return to the caller keep Order.
LEMMA OrderReturn == ASSUME Types, Order, FlushDone \/ ReturnToCaller PROVE Order'
<1>1. CASE FlushDone
  <2>1. /\ pc = "flush" /\ pc' = "return" /\ finished = {}
        /\ UNCHANGED <<status, finished, image, out>> /\ Complete' = Complete
    BY <1>1 DEF FlushDone, resultVars, Complete
  <2> QED BY <2>1 DEF Order, Loop, Listed
<1>2. CASE ReturnToCaller
  <2>1. /\ pc = "return" /\ pc' = "done" /\ UNCHANGED <<status, finished, image>> /\ Complete' = Complete
        /\ out' = IF status \in {"ok", "cancelled"} THEN out ELSE <<>>
    BY <1>2 DEF ReturnToCaller, Complete
  <2>2. CASE status \in {"ok", "cancelled"}
    BY <2>1, <2>2 DEF Order, Loop, Listed
  <2>3. CASE status \notin {"ok", "cancelled"}
    <3>1. \A i \in 1 .. Len(<<>>) : FALSE
      OBVIOUS
    <3> QED BY <2>1, <2>3, <3>1 DEF Order, Loop
  <2> QED BY <2>2, <2>3
<1> QED BY <1>1, <1>2

\* Nothing is handed back at first.
LEMMA InitOrder == Init => Order
<1>1. \A i \in 1 .. Len(<<>>) : FALSE
  OBVIOUS
<1>2. Init => Complete = {} /\ finished = {} /\ Listed(out) = {}
  BY DEF Init, Complete, Listed
<1> QED BY <1>1, <1>2 DEF Init, Order, Loop

\* Every step keeps Order.
LEMMA NextOrder == Types /\ Stream /\ Order /\ [Next]_vars => Order'
<1> SUFFICES ASSUME Types, Stream, Order, [Next]_vars PROVE Order'
  OBVIOUS
<1>1. ASSUME UNCHANGED <<pc, status, finished, image, out>> PROVE Order'
  <2>1. Complete' = Complete
    BY <1>1 DEF Complete
  <2> QED BY <1>1, <2>1 DEF Order, Listed
<1>2. CASE UNCHANGED vars \/ Device
  BY <1>1, <1>2, DeviceIs DEF vars, resultVars
<1>3. CASE Readout
  <2>1. UNCHANGED <<streaming, deviceVars>>
    BY <1>3, ReadoutIs
  <2>2. CASE GivesUp \/ Takes \/ Shows \/ Flushes \/ Resumes \/ Marks
    <3>1. pc \in Loop /\ UNCHANGED <<finished, image, out>>
      BY <2>2 DEF GivesUp, Takes, Shows, Flushes, Resumes, Marks, resultVars, Loop
    <3>2. \/ pc' \in Loop /\ status' = status
          \/ pc' = "flush" /\ status' # "running"
          \/ pc' = "return" /\ status' \in {"timeout", "io", "protocol"}
      BY <2>2 DEF GivesUp, Takes, Shows, Flushes, Resumes, Marks, Loop
    <3> QED BY <3>1, <3>2, OrderStays
  <2> QED BY <1>3, <2>1, <2>2, ReadoutIs, OrderFinish, OrderFlush, OrderReturn
<1> QED BY <1>2, <1>3 DEF Next

-----------------------------------------------------------------------------
(* The end of the job.                                                      *)

\* With the job-final byte at hand nothing else is on its way.
LEMMA JobEnds ==
    ASSUME Types, Stream, pc \in Loop, wire # <<>>, Head1.kind = "final", open = {}
    PROVE  jobFinal /\ Begun = Complete
<1>1. /\ 1 \in 1 .. Len(wire) /\ wire[1].kind = "final" /\ jobFinal /\ Len(wire) = 1
  BY HeadIs DEF Stream, Markers, Head1
<1>2. \A p \in Complete : sent[p] # <<>>
  BY DEF Stream, WholeImages, EndsInEoi
<1>3. ASSUME NEW p \in Pages \ Complete PROVE sent[p] = <<>>
  <2>1. PICK got \in [1 .. Len(wire) + 1 -> Seq(Unit)] : Received(p, got)
    BY DEF Stream, Flow
  <2>2. got[1 + 1] = got[1] /\ got[1] = jpeg[p]
    BY <1>1, <2>1 DEF Received
  <2>3. got[1 + 1] = sent[p]
    BY <1>1, <2>1 DEF Received
  <2>4. jpeg[p] = <<>>
    BY DEF Stream, Buffers
  <2> QED BY <2>2, <2>3, <2>4
<1> QED BY <1>1, <1>2, <1>3 DEF Begun, Complete

\* The job has not ended at first.
LEMMA InitWholeJob == Init => WholeJob
BY DEF Init, WholeJob

\* Every step keeps WholeJob.
LEMMA NextWholeJob == Types /\ Stream /\ Order /\ WholeJob /\ [Next]_vars => WholeJob'
<1> SUFFICES ASSUME Types, Stream, Order, WholeJob, [Next]_vars PROVE WholeJob'
  OBVIOUS
<1>1. ASSUME UNCHANGED <<status, sent, jobFinal, image, open>> PROVE WholeJob'
  <2>1. Complete' = Complete /\ Begun' = Begun
    BY <1>1 DEF Complete, Begun
  <2> QED BY <1>1, <2>1 DEF WholeJob
<1>2. CASE UNCHANGED vars
  BY <1>1, <1>2 DEF vars, deviceVars, resultVars
<1>3. CASE Device
  <2>1. UNCHANGED <<status, open, image>>
    BY <1>3, DeviceIs DEF resultVars
  <2>2. ASSUME NEW e \in StreamElement, Sends(e) PROVE WholeJob'
    <3>1. ~jobFinal
      BY <2>2 DEF Sends, MaySend
    <3> QED BY <2>1, <3>1 DEF WholeJob
  <2> QED BY <1>1, <1>3, <2>1, <2>2, DeviceIs
<1>4. CASE Readout
  <2>1. UNCHANGED <<sent, jobFinal>>
    BY <1>4, ReadoutIs DEF deviceVars
  <2>2. CASE pc' = "flush" /\ Flushes /\ status' = "ok"
    <3>1. pc \in Loop /\ wire # <<>> /\ Head1.kind = "final" /\ open = {} /\ UNCHANGED <<open, image>>
      BY <2>2 DEF Flushes, Loop, resultVars
    <3>2. jobFinal /\ Begun = Complete
      BY <3>1, JobEnds
    <3>3. Complete' = Complete /\ Begun' = Begun
      BY <2>1, <3>1 DEF Complete, Begun
    <3> QED BY <2>1, <3>1, <3>2, <3>3 DEF WholeJob
  <2>3. CASE FlushOne \/ FlushDone \/ ReturnToCaller
    BY <1>1, <2>1, <2>3 DEF FlushOne, FlushDone, ReturnToCaller, resultVars
  <2>4. CASE \/ GivesUp \/ Takes \/ Shows \/ Resumes \/ Marks \/ FinishPage
             \/ Flushes /\ status' # "ok"
    <3>1. pc \in Loop /\ status' \in {status, "cancelled", "protocol", "timeout", "io"}
      BY <2>4 DEF GivesUp, Takes, Shows, Resumes, Marks, FinishPage, Flushes, Loop
    <3>2. status' # "ok"
      BY <2>4, <3>1 DEF Order, GivesUp, Takes, Shows, Resumes, Marks, FinishPage
    <3> QED BY <3>2 DEF WholeJob
  <2> QED BY <1>4, <2>2, <2>3, <2>4, ReadoutIs DEF Flushes
<1> QED BY <1>2, <1>3, <1>4 DEF Next

\* Order and WholeJob hold throughout.
LEMMA ResultsHold == Spec => [](Order /\ WholeJob)
<1>1. Init => Order /\ WholeJob
  BY InitOrder, InitWholeJob
<1>2. (Types /\ Stream /\ Bands) /\ (Order /\ WholeJob) /\ [Next]_vars => (Order /\ WholeJob)'
  BY NextOrder, NextWholeJob
<1> QED BY <1>1, <1>2, StreamHolds, PTL DEF Spec

\* kOk is a whole job: the job-final byte has been sent and every page of which a chunk was sent
\* is handed back, because a page still open at the final byte is a protocol error and a page
\* that is not open has nothing on its way.
THEOREM OkMeansWholeJob == Spec => []OkIsWholeJob
<1>1. Order /\ WholeJob => OkIsWholeJob
  BY DEF Order, WholeJob, OkIsWholeJob
<1> QED BY ResultsHold, <1>1, PTL

-----------------------------------------------------------------------------
(* The readout implements PageDelivery.                                     *)

Promise == Types /\ Stream /\ Bands /\ Order /\ WholeJob

\* The first state of the readout is one of RunScan.
LEMMA InitDelivers == Init => Delivery!Init
BY DEF Init, Delivery!Init, Complete

\* A step of the readout is a step of RunScan or a stutter of it.
LEMMA NextDelivers ==
    Promise /\ [Next]_vars => [Delivery!Next]_(Delivery!vars)
<1> SUFFICES ASSUME Promise, [Next]_vars PROVE [Delivery!Next]_(Delivery!vars)
  OBVIOUS
<1> USE DEF Promise
<1>1. ASSUME UNCHANGED <<streaming, shown, image>>,
             (pc # "done" /\ pc' # "done") \/ UNCHANGED <<pc, status, out>>
      PROVE  [Delivery!Next]_(Delivery!vars)
  <2>1. Complete' = Complete
    BY <1>1 DEF Complete
  <2> QED BY <1>1, <2>1 DEF Delivery!vars
<1>2. CASE Device \/ UNCHANGED vars
  BY <1>1, <1>2, DeviceIs DEF vars, resultVars
<1>3. ASSUME Readout PROVE UNCHANGED <<streaming, deviceVars>>
  BY <1>3, ReadoutIs
<1>4. CASE GivesUp \/ Takes \/ Flushes \/ Resumes \/ Marks \/ FlushOne \/ FlushDone
  <2>1. UNCHANGED <<shown, image>> /\ pc # "done" /\ pc' # "done"
    BY <1>4 DEF GivesUp, Takes, Flushes, Resumes, Marks, FlushOne, FlushDone, resultVars, Loop
  <2>2. CASE Readout
    BY <1>1, <1>3, <2>1, <2>2
  <2> QED BY <1>2, <2>2 DEF Next
<1>5. CASE Shows
  <2>1. /\ cur \in Pages /\ cur \notin Complete /\ streaming /\ pc # "done" /\ pc' # "done"
        /\ Len(shown[cur]) < Produced(cur)
    BY <1>5 DEF Shows, Types, ReadoutType, Stream, Over
  <2>2. /\ shown'[cur] = Append(shown[cur], NextBand) /\ NextBand \in Unit /\ shown[cur] \in Seq(Unit)
        /\ shown' = [shown EXCEPT ![cur] = shown'[cur]]
        /\ UNCHANGED <<image, out>> /\ Complete' = Complete
    BY <1>5, <2>1, NextBandIs DEF Shows, Types, ReadoutType, resultVars, Complete
  <2>3. Delivery!Extends(shown'[cur], shown[cur])
    <3>1. /\ Append(shown[cur], NextBand) \in Seq(Unit) /\ Len(shown[cur]) \in Nat
          /\ Len(Append(shown[cur], NextBand)) = Len(shown[cur]) + 1
      BY <2>2
    <3>2. SubSeq(Append(shown[cur], NextBand), 1, Len(shown[cur])) = shown[cur]
      BY <2>2, AppendProperties
    <3> QED BY <2>2, <3>1, <3>2 DEF Delivery!Extends
  <2>4. CASE Readout
    <3>1. streaming' = streaming
      BY <1>3, <2>4
    <3> QED BY <2>1, <2>2, <2>3, <3>1 DEF Delivery!Next, Delivery!ShowBand
  <2> QED BY <1>2, <2>4 DEF Next
<1>6. CASE FinishPage /\ Readout
  <2>1. /\ Complete' = Complete \cup {cur} /\ cur \in Pages \ Complete
        /\ (streaming => image'[cur] = shown[cur])
    BY <1>3, <1>6, StreamFinishes, BandsFinish
  <2>2. image'[cur] # <<>>
    BY <2>1 DEF Complete
  <2>3. /\ image' = [image EXCEPT ![cur] = image'[cur]] /\ pc # "done" /\ pc' # "done"
        /\ UNCHANGED <<streaming, shown, out>>
    BY <1>3, <1>6, <2>1 DEF FinishPage, Types, ReadoutType
  <2> QED BY <2>1, <2>2, <2>3 DEF Delivery!Next, Delivery!CompletePage
<1>7. CASE ReturnToCaller /\ Readout
  <2>1. /\ pc = "return" /\ pc' = "done" /\ Complete' = Complete
        /\ UNCHANGED <<streaming, shown, image, status, finished>>
        /\ out' = IF status \in {"ok", "cancelled"} THEN out ELSE <<>>
    BY <1>3, <1>7 DEF ReturnToCaller, Complete
  <2>2. status \in {"ok", "cancelled", "timeout", "io", "protocol"}
    BY <2>1 DEF Types, ReadoutType, Order, Loop
  <2>3. CASE status \in {"ok", "cancelled"}
    <3>1. finished = {} /\ Complete = Listed(out) /\ out' = out
      BY <2>1, <2>3 DEF Order
    <3>2. ASSUME status = "ok", NEW p \in Pages, p \notin Complete PROVE shown[p] = <<>>
      <4>1. jpeg[p] = <<>>
        BY <3>2 DEF WholeJob, Stream, Buffers
      <4>2. Produced(p) = 0
        <5>1. Len(<<>>) = 0 /\ ~Contains(<<>>, Eoi)
          BY DEF Contains
        <5> QED BY <4>1, <5>1, HeightIs DEF Produced, LeastOf
      <4>3. streaming => Len(shown[p]) <= 0
        BY <3>2, <4>2 DEF Bands
      <4>4. shown[p] \in Seq(Unit)
        BY DEF Types, ReadoutType
      <4>5. ~streaming => shown[p] = <<>>
        BY DEF Bands
      <4> QED BY <4>3, <4>4, <4>5
    <3>3. Delivery!Ascending(out) /\ Delivery!Listed(out) = Listed(out)
      <4>1. DOMAIN out = 1 .. Len(out)
        BY DEF Types, ReadoutType
      <4> QED BY <4>1 DEF Order, Delivery!Ascending, Delivery!Listed, Listed
    <3> QED BY <2>1, <2>3, <3>1, <3>2, <3>3 DEF Delivery!Next, Delivery!ReturnPages
  <2>4. CASE status \in {"timeout", "io", "protocol"}
    BY <2>1, <2>4 DEF Delivery!Next, Delivery!ReturnNothing, Delivery!Results
  <2> QED BY <2>2, <2>3, <2>4
<1> QED BY <1>2, <1>4, <1>5, <1>6, <1>7, ReadoutIs DEF Next

\* RunColorScan implements what RunScan promises its caller, whatever the pages, the stream and
\* the framing it keeps to: bands reproduce their page, pages come back whole and in document
\* order, and a scan that fails hands back none.
THEOREM ReadoutDelivers == Spec => DeliversPages
<1>1. Spec => []Promise
  BY StreamHolds, ResultsHold, PTL DEF Promise
<1> QED BY <1>1, InitDelivers, NextDelivers, PTL DEF Spec, DeliversPages, Delivery!Spec
-----------------------------------------------------------------------------
(* A device that keeps to the framing.                                      *)

\* What it sends of a page: its bands in order, and an EOI that may come a few early.
Sound(p, s) ==
    /\ Len(s) <= Height + 1
    /\ \A k \in 1 .. Len(s) : \/ k <= Height /\ s[k] = <<p, k>>
                              \/ k = Len(s) /\ s[k] = Eoi

Undamaged(s) == \A k \in 1 .. Len(s) : s[k] # Bad

\* What it has sent.
SentWell ==
    /\ \A p \in Pages : Sound(p, sent[p])
    /\ \A p \in ended : EndsInEoi(sent[p])
    /\ jobFinal => Begun = ended

\* What is on its way, and what of it has arrived.
Arriving ==
    /\ \A p \in Pages : Undamaged(jpeg[p])
    /\ \A i \in 1 .. Len(wire) :
          /\ wire[i].kind # "junk"
          /\ wire[i].kind = "stub" => link # "up"
          /\ wire[i].kind = "chunk" => Undamaged(wire[i].units) /\ wire[i].page \in Begun

\* The pages that are open, and where the marker of a page that is over can be.
Marked(p) ==
    \/ pc = "finish" /\ cur = p
    \/ \E i \in 1 .. Len(wire) : wire[i].kind = "eop" /\ wire[i].page = p
Placed ==
    /\ open \cap Complete = {} /\ open \subseteq Begun
    /\ \A p \in ended \ Complete : Marked(p)

\* The job-final byte comes right behind a marker, and last.
Final ==
    /\ jobFinal => wire # <<>> /\ wire[Len(wire)].kind = "final"
    /\ pc \in {"boundary", "feed"} /\ wire = <<>> => Begun = {} \/ Begun # ended
    /\ \A i \in 1 .. Len(wire) : wire[i].kind = "final" =>
          IF i = 1 THEN pc \in {"finish", "tail"} ELSE wire[i - 1].kind = "eop"

Framed == faults = 0 => SentWell /\ (pc \in Loop => Arriving /\ Placed /\ Final)

\* How its job ends.
Answered ==
    pc \notin Loop /\ faults = 0 =>
        /\ link = "up" => status \in {"ok", "cancelled"}
        /\ link = "stalled" => status \in {"ok", "cancelled", "timeout"}

\* The chunks that keep to the framing.
LEMMA NextUnitsAre ==
    ASSUME Types, NEW p \in Pages, NEW units \in NextUnits(p)
    PROVE  /\ units \in Seq(Unit) /\ Len(sent[p]) \in Nat
           /\ \E n \in 0 .. MaxChunk :
                 /\ Len(sent[p]) + n <= Height
                 /\ \/ n >= 1 /\ Len(units) = n
                    \/ Len(units) = n + 1 /\ units[n + 1] = Eoi
                 /\ \A k \in 1 .. n : units[k] = <<p, Len(sent[p]) + k>>
<1> DEFINE got == Len(sent[p])
           bands == [k \in 1 .. MaxChunk |-> <<p, got + k>>]
<1>0. units \in Seq(Unit) /\ got \in Nat
  BY UnitsType DEF Types, DeviceType
<1>1. \A k \in 1 .. MaxChunk : <<p, got + k>> \in Unit
  BY <1>0, HeightIs DEF Unit
<1>2. bands \in Seq(Unit) /\ Len(bands) = MaxChunk /\ \A k \in 1 .. MaxChunk : bands[k] = <<p, got + k>>
  <2>1. bands \in [1 .. MaxChunk -> Unit] /\ \A k \in 1 .. MaxChunk : bands[k] = <<p, got + k>>
    BY <1>1
  <2> HIDE DEF bands
  <2>2. \A f \in [1 .. MaxChunk -> Unit] : f \in Seq(Unit) /\ Len(f) = MaxChunk
    BY HeightIs
  <2> QED BY <2>1, <2>2
<1>3. ASSUME NEW n \in 0 .. MaxChunk
      PROVE  /\ SubSeq(bands, 1, n) \in Seq(Unit) /\ Len(SubSeq(bands, 1, n)) = n
             /\ \A k \in 1 .. n : SubSeq(bands, 1, n)[k] = <<p, got + k>>
  <2> HIDE DEF bands
  <2>1. \A k \in 1 .. n : k \in 1 .. MaxChunk
    BY HeightIs
  <2>2. SubSeq(bands, 1, n) \in Seq(Unit) /\ Len(SubSeq(bands, 1, n)) = n
        /\ \A k \in 1 .. n : SubSeq(bands, 1, n)[k] = bands[k]
    BY <1>2, HeightIs
  <2> QED BY <1>2, <2>1, <2>2
<1>4. \/ \E n \in 1 .. MaxChunk : got + n <= Height /\ units = SubSeq(bands, 1, n)
      \/ \E n \in 0 .. MaxChunk - 1 : got + n <= Height /\ units = Append(SubSeq(bands, 1, n), Eoi)
  <2>1. \/ units \in {SubSeq(bands, 1, n) : n \in {m \in 1 .. MaxChunk : got + m <= Height}}
        \/ units \in {Append(SubSeq(bands, 1, n), Eoi) :
               n \in {m \in (IF got = 0 THEN 1 ELSE 0) .. MaxChunk - 1 : got + m <= Height}}
    BY DEF NextUnits
  <2>2. (IF got = 0 THEN 1 ELSE 0) .. MaxChunk - 1 \subseteq 0 .. MaxChunk - 1
    BY HeightIs
  <2> HIDE DEF bands, got
  <2> QED BY <2>1, <2>2
<1> HIDE DEF bands
<1>5. ASSUME NEW n \in 1 .. MaxChunk, got + n <= Height, units = SubSeq(bands, 1, n)
      PROVE  n \in 0 .. MaxChunk /\ n >= 1 /\ Len(units) = n /\ \A k \in 1 .. n : units[k] = <<p, got + k>>
  <2>1. n \in 0 .. MaxChunk /\ n >= 1
    BY HeightIs
  <2> QED BY <1>3, <1>5, <2>1
<1>6. ASSUME NEW n \in 0 .. MaxChunk - 1, got + n <= Height, units = Append(SubSeq(bands, 1, n), Eoi)
      PROVE  /\ n \in 0 .. MaxChunk /\ Len(units) = n + 1 /\ units[n + 1] = Eoi
             /\ \A k \in 1 .. n : units[k] = <<p, got + k>>
  <2>1. n \in 0 .. MaxChunk
    BY HeightIs
  <2>2. \A s \in Seq(Unit) : /\ Len(Append(s, Eoi)) = Len(s) + 1 /\ Append(s, Eoi)[Len(s) + 1] = Eoi
                             /\ \A k \in 1 .. Len(s) : Append(s, Eoi)[k] = s[k]
    BY MarksAreUnits
  <2> QED BY <1>3, <1>6, <2>1, <2>2
<1> HIDE DEF got
<1>7. \E n \in 0 .. MaxChunk :
         /\ got + n <= Height
         /\ \/ n >= 1 /\ Len(units) = n
            \/ Len(units) = n + 1 /\ units[n + 1] = Eoi
         /\ \A k \in 1 .. n : units[k] = <<p, got + k>>
  BY <1>4, <1>5, <1>6
<1> QED BY <1>0, <1>7 DEF got

\* They leave what has been sent of their page sound.
LEMMA SoundGrows ==
    ASSUME Types, NEW p \in Pages, NEW units \in NextUnits(p), Sound(p, sent[p]), ~EndsInEoi(sent[p])
    PROVE  Sound(p, sent[p] \o units) /\ sent[p] \o units # <<>> /\ Undamaged(units)
<1>0. sent[p] \in Seq(Unit) /\ units \in Seq(Unit) /\ p # 0
  BY NextUnitsAre, PageIs DEF Types, DeviceType
<1>1. PICK got \in Nat : got = Len(sent[p])
  BY <1>0
<1>2. PICK n \in 0 .. MaxChunk :
         /\ got + n <= Height
         /\ \/ n >= 1 /\ Len(units) = n
            \/ Len(units) = n + 1 /\ units[n + 1] = Eoi
         /\ \A k \in 1 .. n : units[k] = <<p, got + k>>
  BY <1>1, NextUnitsAre
<1>3. \A k \in 1 .. got : k <= Height /\ sent[p][k] = <<p, k>>
  <2> SUFFICES ASSUME NEW k \in 1 .. got, k = got, sent[p][k] = Eoi PROVE FALSE
    BY <1>1 DEF Sound
  <2>1. sent[p] # <<>> /\ Last(sent[p]) = Eoi
    BY <1>0, <1>1 DEF Last
  <2> QED BY <2>1 DEF EndsInEoi
<1> DEFINE all == sent[p] \o units
<1>4. /\ Len(all) = got + Len(units) /\ Len(units) \in Nat
      /\ \A k \in 1 .. got : all[k] = sent[p][k]
      /\ \A k \in 1 .. Len(units) : all[got + k] = units[k]
  BY <1>0, <1>1, Concatenated
<1> HIDE DEF all
<1>5. n \in Nat /\ Height \in Nat /\ (Len(units) = n \/ Len(units) = n + 1)
  BY <1>2, HeightIs
<1>6. ASSUME NEW k \in 1 .. Len(all)
      PROVE  (k <= Height /\ all[k] = <<p, k>>) \/ (k = Len(all) /\ all[k] = Eoi)
  <2>1. CASE k \in 1 .. got
    BY <1>3, <1>4, <2>1
  <2>2. CASE k \in got + 1 .. got + n
    <3>1. k - got \in 1 .. n /\ k - got \in 1 .. Len(units) /\ got + (k - got) = k /\ k <= Height
      BY <1>2, <1>5, <2>2
    <3>2. all[k] = units[k - got] /\ units[k - got] = <<p, got + (k - got)>>
      BY <1>2, <1>4, <3>1
    <3> QED BY <3>1, <3>2
  <2>3. CASE k = got + n + 1 /\ Len(units) = n + 1
    <3>1. k = Len(all) /\ n + 1 \in 1 .. Len(units) /\ got + (n + 1) = k /\ units[n + 1] = Eoi
      BY <1>2, <1>4, <1>5, <2>3
    <3> QED BY <1>4, <3>1
  <2>4. k \in 1 .. got \/ k \in got + 1 .. got + n \/ (k = got + n + 1 /\ Len(units) = n + 1)
    BY <1>4, <1>5
  <2> QED BY <2>1, <2>2, <2>3, <2>4
<1>7. Len(all) <= Height + 1 /\ Len(all) >= 1
  BY <1>2, <1>4, <1>5
<1>8. Undamaged(units)
  <2>1. \A k \in 1 .. Len(units) : k \in 1 .. n \/ (k = n + 1 /\ units[k] = Eoi)
    <3>1. CASE Len(units) = n
      BY <3>1
    <3>2. CASE Len(units) = n + 1 /\ units[n + 1] = Eoi
      <4>1. \A k \in 1 .. Len(units) : k \in 1 .. n \/ k = n + 1
        BY <1>5, <3>2
      <4> QED BY <3>2, <4>1
    <3> QED BY <1>2, <3>1, <3>2
  <2>2. \A k \in 1 .. n : units[k] # Bad
    BY <1>0, <1>2 DEF Bad
  <2> QED BY <2>1, <2>2 DEF Undamaged, Bad, Eoi
<1>9. all # <<>>
  BY <1>7
<1> QED BY <1>6, <1>7, <1>8, <1>9 DEF Sound, all

\* What it sends next.
Keeps(e) ==
    /\ e.kind # "junk"
    /\ IF e.kind = "stub" THEN link' # "up" ELSE link = "up"
    /\ e.kind = "chunk" => e.units \in NextUnits(e.page) /\ ~EndsInEoi(sent[e.page])
    /\ e.kind = "eop" => EndsInEoi(sent[e.page])
    /\ e.kind = "final" => Begun # {} /\ Begun = ended

\* What a step of a device that has not departed from the framing may send.
LEMMA KeepsIs ==
    ASSUME Types, Device, faults' = 0
    PROVE  /\ faults = 0 /\ (link' = "up" => link = "up") /\ pc \in {"boundary", "tail"}
           /\ \/ \E e \in StreamElement : Sends(e) /\ Keeps(e)
              \/ UNCHANGED <<wire, sent, ended, jobFinal>>
<1>0. faults \in Nat /\ faults + 1 # 0 /\ 0 \notin Pages
  BY PageIs DEF Types, DeviceType
<1>1. ASSUME NEW p \in Pages, SendChunk(p)
      PROVE  faults = 0 /\ link' = link /\ MaySend /\ \E e \in StreamElement : Sends(e) /\ Keeps(e)
  <2>1. PICK kept \in BOOLEAN, sentinel \in BOOLEAN :
           /\ Framing(kept)
           /\ kept => ~EndsInEoi(sent[p])
           /\ \E units \in (IF kept THEN NextUnits(p) ELSE StrayUnits(p)) :
                /\ wire' = Append(wire, Chunk(p, units, sentinel))
                /\ sent' = [sent EXCEPT ![p] = @ \o units]
    BY <1>1 DEF SendChunk
  <2>2. kept /\ faults = 0 /\ link' = link /\ MaySend
    BY <1>0, <1>1, <2>1 DEF Framing, SendChunk
  <2>3. PICK units \in NextUnits(p) :
           /\ wire' = Append(wire, Chunk(p, units, sentinel))
           /\ sent' = [sent EXCEPT ![p] = @ \o units]
    BY <2>1, <2>2
  <2>4. units \in Seq(Unit)
    BY UnitsType
  <2> DEFINE e == Chunk(p, units, sentinel)
  <2>5. e \in StreamElement /\ e.kind = "chunk" /\ e.page = p /\ e.units = units
    BY <2>4, ElementType
  <2>6. wire' = Append(wire, e) /\ sent' = [sent EXCEPT ![p] = @ \o units]
    BY <2>3
  <2> HIDE DEF e
  <2>7. link' \in {"up", "stalled", "closed"} /\ p \notin ended /\ UNCHANGED <<ended, jobFinal, link>>
    BY <1>1, <2>2 DEF SendChunk, Types, DeviceType
  <2>8. Sends(e)
    BY <2>2, <2>5, <2>6, <2>7 DEF Sends
  <2>9. Keeps(e)
    BY <2>1, <2>2, <2>5 DEF Keeps, MaySend
  <2> QED BY <2>2, <2>5, <2>8, <2>9
<1>2. ASSUME NEW p \in Pages, SendEndOfPage(p)
      PROVE  faults = 0 /\ link' = link /\ MaySend /\ \E e \in StreamElement : Sends(e) /\ Keeps(e)
  <2> DEFINE e == Element("eop", p)
  <2>1. e \in StreamElement /\ e.kind = "eop" /\ e.page = p
    BY ElementType
  <2>2. /\ MaySend /\ p \notin ended /\ wire' = Append(wire, e) /\ ended' = ended \cup {p}
        /\ UNCHANGED <<sent, jobFinal, link>> /\ Framing(EndsInEoi(sent[p]))
    BY <1>2 DEF SendEndOfPage
  <2>3. faults = 0 /\ EndsInEoi(sent[p]) /\ link' \in {"up", "stalled", "closed"}
    BY <1>0, <2>2 DEF Framing, Types, DeviceType
  <2> HIDE DEF e
  <2>4. Sends(e)
    BY <2>1, <2>2, <2>3 DEF Sends
  <2>5. Keeps(e)
    BY <2>1, <2>2, <2>3 DEF Keeps, MaySend
  <2> QED BY <2>1, <2>2, <2>3, <2>4, <2>5
<1>3. ~SendJunk
  BY <1>0 DEF SendJunk, Framing
<1>4. ASSUME SendJobFinal
      PROVE  faults = 0 /\ link' = link /\ MaySend /\ \E e \in StreamElement : Sends(e) /\ Keeps(e)
  <2> DEFINE e == Element("final", 0)
  <2>1. e \in StreamElement /\ e.kind = "final"
    BY ElementType
  <2>2. /\ MaySend /\ wire' = Append(wire, e) /\ jobFinal' = TRUE /\ UNCHANGED <<sent, ended, link>>
        /\ Framing(Begun # {} /\ Begun = ended)
    BY <1>4 DEF SendJobFinal
  <2>3. faults = 0 /\ Begun # {} /\ Begun = ended /\ link' \in {"up", "stalled", "closed"}
    BY <1>0, <2>2 DEF Framing, Types, DeviceType
  <2> HIDE DEF e
  <2>4. Sends(e)
    BY <2>1, <2>2, <2>3 DEF Sends
  <2>5. Keeps(e)
    BY <2>1, <2>2, <2>3 DEF Keeps, MaySend
  <2> QED BY <2>1, <2>2, <2>3, <2>4, <2>5
<1>5. ASSUME LinkFails
      PROVE  /\ faults = 0 /\ link' # "up" /\ pc \in {"boundary", "tail"}
             /\ \/ \E e \in StreamElement : Sends(e) /\ Keeps(e)
                \/ UNCHANGED <<wire, sent, ended, jobFinal>>
  <2>0. faults = 0 /\ link' \in {"stalled", "closed"} /\ pc \in {"boundary", "tail"} /\ UNCHANGED <<sent, ended, jobFinal>>
    BY <1>5 DEF LinkFails
  <2>1. CASE wire' = wire
    BY <2>0, <2>1
  <2>2. CASE wire' # wire
    <3> DEFINE e == Element("stub", 0)
    <3>1. e \in StreamElement /\ e.kind = "stub"
      BY ElementType
    <3>2. link = "up" /\ ~jobFinal /\ wire' = Append(wire, e)
      BY <1>5, <2>2 DEF LinkFails
    <3> HIDE DEF e
    <3>3. Sends(e)
      BY <2>0, <3>1, <3>2 DEF Sends
    <3>4. Keeps(e)
      BY <2>0, <3>1 DEF Keeps
    <3> QED BY <2>0, <3>1, <3>3, <3>4
  <2> QED BY <2>1, <2>2
<1>6. MaySend => pc \in {"boundary", "tail"}
  BY DEF MaySend, Wanted
<1> QED BY <1>1, <1>2, <1>3, <1>4, <1>5, <1>6 DEF Device

\* One more element is sent.
LEMMA FramedSends ==
    ASSUME Types, Stream, SentWell, Arriving, Placed, Final, pc \in {"boundary", "tail"},
           NEW e \in StreamElement, Sends(e), Keeps(e), link' = "up" => link = "up",
           UNCHANGED <<pc, open, jpeg, cur, image>>
    PROVE  SentWell' /\ Arriving' /\ Placed' /\ Final'
<1>0. Complete' = Complete /\ pc \in Loop
  BY DEF Complete, Loop
<1>1. PICK n \in Nat : n = Len(wire)
  BY DEF Types, DeviceType
<1>2. /\ Len(wire') = n + 1 /\ wire'[n + 1] = e
      /\ \A i \in 1 .. n : wire'[i] = wire[i]
      /\ \A i \in 1 .. Len(wire') : i \in 1 .. n \/ i = n + 1
  BY <1>1, AppendedElement DEF Sends, Types, DeviceType
<1>3. ~jobFinal /\ (e.kind # "stub" => MaySend)
  BY DEF Sends, MaySend
<1>4. ASSUME e.kind = "chunk"
      PROVE  /\ e.page \in Pages \ ended /\ e.units \in NextUnits(e.page)
             /\ sent'[e.page] = sent[e.page] \o e.units /\ \A p \in Pages \ {e.page} : sent'[p] = sent[p]
             /\ Sound(e.page, sent'[e.page]) /\ sent'[e.page] # <<>> /\ Undamaged(e.units)
  <2>1. e.page \in Pages \ ended /\ e.units \in NextUnits(e.page) /\ ~EndsInEoi(sent[e.page])
    BY <1>4 DEF Sends, Keeps
  <2>2. sent'[e.page] = sent[e.page] \o e.units /\ \A p \in Pages \ {e.page} : sent'[p] = sent[p]
    BY <1>4, <2>1 DEF Sends, Types, DeviceType
  <2>3. Sound(e.page, sent[e.page])
    BY <2>1 DEF SentWell
  <2> QED BY <2>1, <2>2, <2>3, SoundGrows
<1>5. e.kind # "chunk" => sent' = sent
  BY DEF Sends
<1>6. Begun \subseteq Begun' /\ (e.kind = "chunk" => e.page \in Begun')
  BY <1>4, <1>5 DEF Begun
<1>7. SentWell'
  <2>1. \A p \in Pages : Sound(p, sent'[p])
    BY <1>4, <1>5 DEF SentWell
  <2>2. \A p \in ended' : EndsInEoi(sent'[p])
    BY <1>4, <1>5 DEF SentWell, Sends, Keeps, Types, DeviceType
  <2>3. jobFinal' => Begun' = ended'
    <3>1. CASE e.kind = "final"
      <4>1. Begun = ended /\ ended' = ended /\ sent' = sent
        BY <3>1 DEF Keeps, Sends
      <4> QED BY <4>1 DEF Begun
    <3>2. CASE e.kind # "final"
      BY <1>3, <3>2 DEF Sends
    <3> QED BY <3>1, <3>2
  <2> QED BY <2>1, <2>2, <2>3 DEF SentWell, Sound
<1>8. Arriving'
  <2>1. ASSUME NEW i \in 1 .. Len(wire')
        PROVE  /\ wire'[i].kind # "junk"
               /\ wire'[i].kind = "stub" => link' # "up"
               /\ wire'[i].kind = "chunk" => Undamaged(wire'[i].units) /\ wire'[i].page \in Begun'
    <3>1. CASE i \in 1 .. n
      BY <1>1, <1>2, <1>6, <3>1 DEF Arriving
    <3>2. CASE i = n + 1
      BY <1>2, <1>4, <1>6, <3>2 DEF Keeps
    <3> QED BY <1>2, <3>1, <3>2
  <2> QED BY <2>1 DEF Arriving, Undamaged
<1>9. Placed'
  <2>1. ASSUME NEW p \in ended' \ Complete PROVE Marked(p)'
    <3>1. CASE p \in ended
      <4>1. Marked(p)
        BY <2>1, <3>1 DEF Placed
      <4> QED BY <1>1, <1>2, <4>1 DEF Marked
    <3>2. CASE p \notin ended
      <4>1. e.kind = "eop" /\ e.page = p
        BY <2>1, <3>2 DEF Sends
      <4>2. n + 1 \in 1 .. Len(wire')
        BY <1>2
      <4> QED BY <1>2, <4>1, <4>2 DEF Marked
    <3> QED BY <3>1, <3>2
  <2> QED BY <1>0, <1>6, <2>1 DEF Placed
<1>10. Final'
  <2>1. jobFinal' => wire' # <<>> /\ wire'[Len(wire')].kind = "final"
    <3>1. jobFinal' => e.kind = "final"
      BY <1>3 DEF Sends
    <3>2. wire' # <<>>
      BY <1>2
    <3> QED BY <1>2, <3>1, <3>2
  <2>2. wire' # <<>>
    BY <1>2
  <2>3. ASSUME NEW i \in 1 .. Len(wire'), wire'[i].kind = "final"
        PROVE  IF i = 1 THEN pc \in {"finish", "tail"} ELSE wire'[i - 1].kind = "eop"
    <3>1. i = n + 1 /\ e.kind = "final"
      <4>1. i \notin 1 .. n
        BY <1>0, <1>1, <1>2, <1>3, <2>3 DEF Stream, Markers
      <4> QED BY <1>2, <2>3, <4>1
    <3>2. Begun # {} /\ Begun = ended /\ link = "up" /\ MaySend
      BY <1>3, <3>1 DEF Keeps
    <3>3. CASE n = 0
      <4>1. wire = <<>>
        <5>1. \A w \in Seq(StreamElement) : Len(w) = 0 => w = <<>>
          OBVIOUS
        <5> QED BY <1>1, <3>3, <5>1 DEF Types, DeviceType
      <4>2. pc # "boundary"
        BY <3>2, <4>1 DEF Final
      <4> QED BY <3>1, <3>3, <4>2
    <3>4. CASE n # 0
      <4>1. n \in 1 .. n /\ i - 1 = n /\ i # 1
        BY <3>1, <3>4
      <4>2. wire # <<>> /\ pc = "boundary"
        BY <1>1, <3>2, <4>1 DEF MaySend, Wanted
      <4>3. wire[n] \in StreamElement /\ wire[n].kind \in Kind
        <5>1. wire[n] \in StreamElement
          BY <1>1, <4>1 DEF Types, DeviceType
        <5> QED BY <5>1 DEF StreamElement
      <4>4. wire[n].kind \notin {"junk", "stub", "final"}
        BY <1>0, <1>1, <1>3, <3>2, <4>1 DEF Arriving, Stream, Markers
      <4>5. ASSUME wire[n].kind = "chunk" PROVE FALSE
        <5>1. PICK q \in Begun : q = wire[n].page
          BY <1>1, <4>1, <4>5 DEF Arriving
        <5>2. Of(q, wire[n]) /\ q \in ended
          BY <3>2, <4>5, <5>1 DEF Of
        <5>3. q \notin Complete
          BY <1>0, <1>1, <4>1, <5>2 DEF Stream, Over, Silent
        <5>4. PICK j \in 1 .. Len(wire) : wire[j].kind = "eop" /\ wire[j].page = q
          BY <4>2, <5>2, <5>3 DEF Placed, Marked
        <5>5. n \in j + 1 .. Len(wire)
          <6>1. j # n
            BY <4>5, <5>4
          <6> QED BY <1>1, <6>1
        <5> QED BY <1>0, <5>2, <5>4, <5>5 DEF Stream, Markers
      <4> QED BY <1>2, <4>1, <4>3, <4>4, <4>5 DEF Kind
    <3> QED BY <3>3, <3>4
  <2> QED BY <2>1, <2>2, <2>3 DEF Final
<1> QED BY <1>7, <1>8, <1>9, <1>10

\* The first element is taken off the stream.
LEMMA TailIs ==
    ASSUME Types, wire # <<>>, wire' = Tail(wire)
    PROVE  /\ Len(wire') = Len(wire) - 1 /\ Len(wire) \in Nat \ {0} /\ 1 \in 1 .. Len(wire)
           /\ \A i \in 1 .. Len(wire') : wire'[i] = wire[i + 1] /\ i + 1 \in 2 .. Len(wire)
           /\ \A i \in 2 .. Len(wire) : i - 1 \in 1 .. Len(wire') /\ wire'[i - 1] = wire[i]
           /\ \A i \in 1 .. Len(wire) : i = 1 \/ i \in 2 .. Len(wire)
<1>1. /\ Len(wire') = Len(wire) - 1 /\ Len(wire) \in Nat \ {0}
      /\ \A i \in 1 .. Len(wire') : wire'[i] = wire[i + 1]
  BY TailElements DEF Types, DeviceType
<1>2. \A i \in 2 .. Len(wire) : i - 1 \in 1 .. Len(wire') /\ (i - 1) + 1 = i
  BY <1>1
<1> QED BY <1>1, <1>2

\* Reading an element keeps what Final says of the job-final byte.
LEMMA FinalTailed ==
    ASSUME Types, Final, wire # <<>>, wire' = Tail(wire), jobFinal' = jobFinal,
           wire[1].kind # "final", wire[1].kind = "eop" => pc' \in {"finish", "tail"},
           pc' \in {"boundary", "feed"} /\ wire' = <<>> => Begun' = {} \/ Begun' # ended'
    PROVE  Final'
<1>1. /\ Len(wire') = Len(wire) - 1 /\ Len(wire) \in Nat \ {0} /\ 1 \in 1 .. Len(wire)
      /\ \A i \in 1 .. Len(wire') : wire'[i] = wire[i + 1] /\ i + 1 \in 2 .. Len(wire)
      /\ \A i \in 2 .. Len(wire) : i - 1 \in 1 .. Len(wire') /\ wire'[i - 1] = wire[i]
  BY TailIs
<1>2. ASSUME jobFinal PROVE wire' # <<>> /\ wire'[Len(wire')].kind = "final"
  <2>1. Len(wire) \in 2 .. Len(wire)
    <3>1. Len(wire) # 1
      BY <1>2 DEF Final
    <3> QED BY <1>1, <3>1
  <2>2. Len(wire) - 1 \in 1 .. Len(wire') /\ wire'[Len(wire) - 1].kind = "final"
    BY <1>1, <1>2, <2>1 DEF Final
  <2>3. wire' = <<>> => Len(wire') = 0
    OBVIOUS
  <2>4. Len(wire') # 0
    BY <1>1, <2>2
  <2> QED BY <1>1, <2>2, <2>3, <2>4
<1>3. ASSUME NEW i \in 1 .. Len(wire'), wire'[i].kind = "final"
      PROVE  IF i = 1 THEN pc' \in {"finish", "tail"} ELSE wire'[i - 1].kind = "eop"
  <2>1. wire[i + 1].kind = "final" /\ i + 1 \in 1 .. Len(wire) /\ i + 1 # 1 /\ (i + 1) - 1 = i
    BY <1>1, <1>3
  <2>2. wire[i].kind = "eop"
    BY <2>1, Zenon DEF Final
  <2>3. CASE i = 1
    BY <2>2, <2>3
  <2>4. CASE i # 1
    <3>1. i \in 2 .. Len(wire)
      BY <1>1, <2>4
    <3> QED BY <1>1, <2>2, <2>4, <3>1
  <2> QED BY <2>3, <2>4
<1> QED BY <1>2, <1>3 DEF Final

\* Taking a chunk keeps Framed.
LEMMA FramedTakes ==
    ASSUME Types, Stream, SentWell, Arriving, Placed, Final, Takes, UNCHANGED <<streaming, deviceVars>>
    PROVE  Arriving' /\ Placed' /\ Final'
<1> DEFINE q == Head1.page
<1>1. /\ pc = "boundary" /\ wire # <<>> /\ wire' = Tail(wire) /\ wire[1].kind = "chunk" /\ Head1 = wire[1]
      /\ pc' \in {"boundary", "feed"} /\ pc \in Loop
      /\ open' = open \cup {q} /\ UNCHANGED <<sent, ended, jobFinal, link, image>>
  BY HeadIs DEF Takes, Head1, deviceVars, resultVars, Loop
<1>2. /\ Len(wire') = Len(wire) - 1 /\ Len(wire) \in Nat \ {0} /\ 1 \in 1 .. Len(wire)
      /\ \A i \in 1 .. Len(wire') : wire'[i] = wire[i + 1] /\ i + 1 \in 2 .. Len(wire)
      /\ \A i \in 2 .. Len(wire) : i - 1 \in 1 .. Len(wire') /\ wire'[i - 1] = wire[i]
      /\ \A i \in 1 .. Len(wire) : i = 1 \/ i \in 2 .. Len(wire)
  BY <1>1, TailIs
<1>3. q \in Begun /\ Undamaged(Head1.units) /\ Begun' = Begun
  BY <1>1, <1>2 DEF Arriving, Begun
<1>4. Complete' = Complete /\ q \in Pages \ Complete
  BY StreamTakes
<1>5. ASSUME NEW p \in ended \ Complete
      PROVE  \E i \in 2 .. Len(wire) : wire[i].kind = "eop" /\ wire[i].page = p
  <2>1. PICK i \in 1 .. Len(wire) : wire[i].kind = "eop" /\ wire[i].page = p
    BY <1>1, <1>5 DEF Placed, Marked
  <2>2. i # 1
    BY <1>1, <2>1
  <2> QED BY <1>2, <2>1, <2>2
<1>6. Arriving'
  <2>1. ASSUME NEW p \in Pages PROVE Undamaged(jpeg'[p])
    <3>1. CASE p # q
      BY <3>1 DEF Takes, Types, ReadoutType, Arriving
    <3>2. CASE p = q
      <4>1. jpeg'[p] = jpeg[p] \o Head1.units /\ jpeg[p] \in Seq(Unit) /\ Undamaged(jpeg[p])
        BY <3>2 DEF Takes, Types, ReadoutType, Arriving
      <4>2. Head1.units \in Seq(Unit)
        BY <1>1, HeadIs DEF StreamElement
      <4>3. /\ Len(jpeg'[p]) = Len(jpeg[p]) + Len(Head1.units) /\ Len(jpeg[p]) \in Nat /\ Len(Head1.units) \in Nat
            /\ \A k \in 1 .. Len(jpeg[p]) : jpeg'[p][k] = jpeg[p][k]
            /\ \A k \in 1 .. Len(Head1.units) : jpeg'[p][Len(jpeg[p]) + k] = Head1.units[k]
        <5>1. PICK s \in Seq(Unit), t \in Seq(Unit) : s = jpeg[p] /\ t = Head1.units
          BY <4>1, <4>2
        <5>2. jpeg'[p] = s \o t
          BY <4>1, <5>1
        <5>3. /\ Len(s \o t) = Len(s) + Len(t) /\ Len(s) \in Nat /\ Len(t) \in Nat
              /\ \A k \in 1 .. Len(s) : (s \o t)[k] = s[k]
              /\ \A k \in 1 .. Len(t) : (s \o t)[Len(s) + k] = t[k]
          BY Concatenated
        <5> QED BY <5>1, <5>2, <5>3
      <4>4. PICK m \in Nat, n \in Nat : m = Len(jpeg[p]) /\ n = Len(Head1.units)
        BY <4>3
      <4>5. ASSUME NEW k \in 1 .. m + n PROVE jpeg'[p][k] # Bad
        <5>1. CASE k \in 1 .. m
          BY <4>1, <4>3, <4>4, <5>1 DEF Undamaged
        <5>2. CASE k \notin 1 .. m
          <6>1. k - m \in 1 .. n /\ m + (k - m) = k
            BY <5>2
          <6> QED BY <1>3, <4>3, <4>4, <6>1 DEF Undamaged
        <5> QED BY <5>1, <5>2
      <4> QED BY <4>3, <4>4, <4>5 DEF Undamaged
    <3> QED BY <3>1, <3>2
  <2> QED BY <1>1, <1>2, <1>3, <2>1 DEF Arriving, Undamaged
<1>7. Placed'
  <2>1. ASSUME NEW p \in ended \ Complete PROVE Marked(p)'
    <3>1. PICK i \in 2 .. Len(wire) : wire[i].kind = "eop" /\ wire[i].page = p
      BY <1>5
    <3>2. i - 1 \in 1 .. Len(wire') /\ wire'[i - 1] = wire[i]
      BY <1>2
    <3> QED BY <3>1, <3>2 DEF Marked
  <2> QED BY <1>1, <1>3, <1>4, <2>1 DEF Placed
<1>8. wire' = <<>> => Begun' # ended'
  <2>1. wire' = <<>> => 2 .. Len(wire) = {}
    <3>1. wire' = <<>> => Len(wire') = 0
      OBVIOUS
    <3>2. Len(wire') = 0 => Len(wire) = 1
      BY <1>2
    <3>3. 2 .. 1 = {}
      OBVIOUS
    <3> QED BY <3>1, <3>2, <3>3
  <2> QED BY <1>1, <1>3, <1>4, <1>5, <2>1
<1>9. Final'
  BY <1>1, <1>8, FinalTailed
<1> QED BY <1>6, <1>7, <1>9

\* Taking an end-of-page marker keeps Framed.
LEMMA FramedMarks ==
    ASSUME Types, Stream, SentWell, Arriving, Placed, Final, Marks, UNCHANGED <<streaming, deviceVars>>
    PROVE  Arriving' /\ Placed' /\ Final'
<1>1. /\ pc = "boundary" /\ wire # <<>> /\ wire' = Tail(wire) /\ wire[1].kind = "eop" /\ Head1 = wire[1]
      /\ pc' = "finish" /\ cur' = wire[1].page
      /\ UNCHANGED <<open, jpeg, sent, ended, jobFinal, link, image>>
  BY HeadIs DEF Marks, Head1, deviceVars, resultVars
<1>2. /\ Len(wire') = Len(wire) - 1 /\ Len(wire) \in Nat \ {0} /\ 1 \in 1 .. Len(wire)
      /\ \A i \in 1 .. Len(wire') : wire'[i] = wire[i + 1] /\ i + 1 \in 2 .. Len(wire)
      /\ \A i \in 2 .. Len(wire) : i - 1 \in 1 .. Len(wire') /\ wire'[i - 1] = wire[i]
      /\ \A i \in 1 .. Len(wire) : i = 1 \/ i \in 2 .. Len(wire)
  BY <1>1, TailIs
<1>3. Begun' = Begun /\ Complete' = Complete
  BY <1>1 DEF Begun, Complete
<1>4. Arriving'
  BY <1>1, <1>2, <1>3 DEF Arriving, Undamaged
<1>5. Placed'
  <2>1. ASSUME NEW p \in ended \ Complete PROVE Marked(p)'
    <3>1. PICK i \in 1 .. Len(wire) : wire[i].kind = "eop" /\ wire[i].page = p
      BY <1>1, <2>1 DEF Placed, Marked
    <3>2. CASE i = 1
      BY <1>1, <3>1, <3>2 DEF Marked
    <3>3. CASE i \in 2 .. Len(wire)
      <4>1. i - 1 \in 1 .. Len(wire') /\ wire'[i - 1] = wire[i]
        BY <1>2, <3>3
      <4> QED BY <3>1, <4>1 DEF Marked
    <3> QED BY <1>2, <3>2, <3>3
  <2> QED BY <1>1, <1>3, <2>1 DEF Placed
<1>6. Final'
  BY <1>1, FinalTailed
<1> QED BY <1>4, <1>5, <1>6

\* The steps that leave the stream alone.
LEMMA FramedFinishes ==
    ASSUME Types, Stream, SentWell, Arriving, Placed, Final, FinishPage, UNCHANGED <<streaming, deviceVars>>
    PROVE  Arriving' /\ Placed' /\ Final'
<1>1. /\ pc = "finish" /\ pc' = "tail" /\ cur \in Pages /\ UNCHANGED <<wire, sent, ended, jobFinal, link>>
      /\ open' = open \ {cur}
  BY DEF FinishPage, deviceVars, Types, ReadoutType
<1>2. Begun' = Begun /\ Complete' = Complete \cup {cur}
  BY <1>1, StreamFinishes DEF Begun
<1>3. Arriving'
  <2>1. \A p \in Pages : Undamaged(jpeg'[p])
    <3>1. Undamaged(<<>>)
      BY DEF Undamaged
    <3>2. jpeg' = [jpeg EXCEPT ![cur] = <<>>]
      BY DEF FinishPage
    <3> QED BY <1>1, <3>1, <3>2 DEF Arriving, Types, ReadoutType
  <2> QED BY <1>1, <1>2, <2>1 DEF Arriving, Undamaged
<1>4. Placed'
  BY <1>1, <1>2 DEF Placed, Marked
<1>5. Final'
  BY <1>1, <1>2 DEF Final
<1> QED BY <1>3, <1>4, <1>5

\* A step that leaves stream and pages alone keeps Framed.
LEMMA FramedStays ==
    ASSUME Arriving, Placed, Final, link' = "up" => link = "up",
           UNCHANGED <<wire, sent, ended, jobFinal, open, jpeg, image, cur>>,
           pc' = pc \/ Resumes
    PROVE  Arriving' /\ Placed' /\ Final'
<1>1. Begun' = Begun /\ Complete' = Complete
  BY DEF Begun, Complete
<1>2. Arriving'
  BY <1>1 DEF Arriving, Undamaged
<1>3. Placed'
  BY <1>1 DEF Placed, Marked, Resumes
<1>4. Final'
  <2>1. CASE pc' = pc
    BY <1>1, <2>1 DEF Final
  <2>2. CASE Resumes
    <3>1. pc \in {"feed", "tail"} /\ pc' = "boundary" /\ (pc = "tail" => wire # <<>> /\ wire[1].kind # "final")
      BY <2>2 DEF Resumes, Head1
    <3>2. \A i \in 1 .. Len(wire) : wire[i].kind = "final" => i # 1
      BY <3>1 DEF Final
    <3> QED BY <1>1, <3>1, <3>2 DEF Final
  <2> QED BY <2>1, <2>2
<1> QED BY <1>2, <1>3, <1>4

\* The first state keeps to the framing.
LEMMA InitFramed == Init => Framed
<1> SUFFICES ASSUME Init PROVE Framed
  OBVIOUS
<1>1. Len(<<>>) = 0 /\ 1 .. 0 = {}
  OBVIOUS
<1>2. Begun = {} /\ Complete = {}
  BY DEF Init, Begun, Complete
<1>3. SentWell
  BY <1>1, <1>2, HeightIs DEF Init, SentWell, Sound
<1>4. Arriving /\ Placed /\ Final
  BY <1>1, <1>2 DEF Init, Arriving, Undamaged, Placed, Final
<1> QED BY <1>3, <1>4 DEF Framed

\* Every step keeps Framed.
LEMMA NextFramed == Types /\ Stream /\ Framed /\ [Next]_vars => Framed'
<1> SUFFICES ASSUME Types, Stream, Framed, [Next]_vars, faults' = 0
             PROVE  SentWell' /\ (pc' \in Loop => Arriving' /\ Placed' /\ Final')
  BY DEF Framed, Loop
<1>1. ASSUME UNCHANGED <<sent, ended, jobFinal>>, SentWell PROVE SentWell'
  BY <1>1 DEF SentWell, Sound, Begun
<1>2. CASE UNCHANGED vars
  BY <1>1, <1>2, FramedStays DEF vars, deviceVars, resultVars, Framed
<1>3. CASE Device
  <2>1. faults = 0 /\ (link' = "up" => link = "up") /\ pc \in {"boundary", "tail"} /\ pc \in Loop
    BY <1>3, KeepsIs DEF Loop
  <2>2. UNCHANGED <<pc, open, jpeg, cur, image>>
    BY <1>3, DeviceIs DEF resultVars
  <2>3. SentWell /\ Arriving /\ Placed /\ Final
    BY <2>1 DEF Framed
  <2>4. ASSUME NEW e \in StreamElement, Sends(e), Keeps(e) PROVE SentWell' /\ Arriving' /\ Placed' /\ Final'
    BY <2>1, <2>2, <2>3, <2>4, FramedSends
  <2>5. CASE UNCHANGED <<wire, sent, ended, jobFinal>>
    BY <1>1, <2>1, <2>2, <2>3, <2>5, FramedStays
  <2> QED BY <1>3, <2>4, <2>5, KeepsIs
<1>4. CASE Readout
  <2>1. UNCHANGED <<streaming, deviceVars>> /\ UNCHANGED <<faults, sent, ended, jobFinal, link>>
    BY <1>4, ReadoutIs DEF deviceVars
  <2>2. SentWell'
    BY <1>1, <2>1 DEF Framed
  <2>3. ASSUME pc' \in Loop PROVE Arriving' /\ Placed' /\ Final'
    <3>1. \/ Takes \/ Marks \/ FinishPage \/ Resumes
          \/ Shows /\ UNCHANGED pc
      BY <1>4, <2>3, ReadoutIs DEF GivesUp, Shows, Flushes, FlushOne, FlushDone, ReturnToCaller, Loop
    <3>2. pc \in Loop /\ SentWell /\ Arriving /\ Placed /\ Final
      BY <2>1, <3>1 DEF Framed, Takes, Marks, FinishPage, Resumes, Shows, Loop
    <3>3. CASE Resumes \/ (Shows /\ UNCHANGED pc)
      BY <2>1, <3>2, <3>3, FramedStays DEF Resumes, Shows, resultVars
    <3> QED BY <2>1, <3>1, <3>2, <3>3, FramedTakes, FramedMarks, FramedFinishes
  <2> QED BY <2>2, <2>3
<1> QED BY <1>2, <1>3, <1>4 DEF Next

-----------------------------------------------------------------------------
(* How the job of such a device ends.                                       *)

AddSize(n, e) == n + Size(e)
Sizes == INSTANCE FoldFacts WITH op <- AddSize, Good <- EndsInEoi

\* What has been received is never more than what was sent.
LEMMA ReceivedFits ==
    ASSUME Types, NEW p \in Pages, NEW got \in [1 .. Len(wire) + 1 -> Seq(Unit)], Received(p, got)
    PROVE  \A i \in 1 .. Len(wire) + 1 : Len(got[i]) <= Len(sent[p])
<1>1. PICK n \in Nat : n = Len(wire)
  BY DEF Types, DeviceType
<1>2. \A i \in 1 .. n + 1 : Len(got[i]) \in Nat
  BY <1>1
<1>3. Len(sent[p]) \in Nat /\ got[n + 1] = sent[p]
  BY <1>1 DEF Types, DeviceType, Received
<1> DEFINE K == {k \in Nat : k <= n => Len(got[n + 1 - k]) <= Len(sent[p])}
<1>4. 0 \in K
  BY <1>3
<1>5. ASSUME NEW k \in K PROVE k + 1 \in K
  <2>1. k \in Nat /\ k + 1 \in Nat
    OBVIOUS
  <2>2. ASSUME k + 1 <= n PROVE Len(got[n + 1 - (k + 1)]) <= Len(sent[p])
    <3>1. PICK i \in 1 .. n : i = n + 1 - (k + 1) /\ i + 1 = n + 1 - k /\ i + 1 \in 1 .. n + 1 /\ i \in 1 .. n + 1
      <4>1. n - k \in 1 .. n /\ n - k = n + 1 - (k + 1) /\ n - k + 1 = n + 1 - k
            /\ n - k + 1 \in 1 .. n + 1 /\ n - k \in 1 .. n + 1
        <5> HIDE DEF K
        <5> QED BY <2>1, <2>2
      <4> QED BY <4>1
    <3>2. Len(got[i + 1]) <= Len(sent[p])
      BY <2>1, <2>2, <3>1
    <3>3. Len(got[i]) <= Len(got[i + 1])
      <4>1. got[i] \in Seq(Unit) /\ wire[i] \in StreamElement /\ wire[i].units \in Seq(Unit)
        <5>1. wire[i] \in StreamElement
          BY <1>1, <3>1 DEF Types, DeviceType
        <5>2. got[i] \in Seq(Unit)
          BY <1>1, <3>1
        <5> QED BY <5>1, <5>2 DEF StreamElement
      <4>2. got[i + 1] = got[i] \/ got[i + 1] = got[i] \o wire[i].units
        BY <1>1, <3>1 DEF Received
      <4>3. Len(got[i] \o wire[i].units) = Len(got[i]) + Len(wire[i].units) /\ Len(wire[i].units) \in Nat
        BY <4>1, Concatenated
      <4>4. Len(got[i]) \in Nat
        BY <4>1
      <4>5. PICK m \in Nat, l \in Nat : m = Len(got[i]) /\ l = Len(wire[i].units)
        BY <4>3, <4>4
      <4>6. CASE got[i + 1] = got[i]
        BY <4>4, <4>6
      <4>7. CASE got[i + 1] = got[i] \o wire[i].units
        <5>1. Len(got[i + 1]) = m + l
          BY <4>3, <4>5, <4>7
        <5>2. m <= m + l
          OBVIOUS
        <5> QED BY <4>5, <5>1, <5>2
      <4> QED BY <4>2, <4>6, <4>7
    <3> QED BY <1>2, <1>3, <3>1, <3>2, <3>3
  <2> QED BY <2>1, <2>2
<1>6. K = Nat
  <2> HIDE DEF K
  <2>1. K \in SUBSET Nat
    BY DEF K
  <2> QED BY <1>4, <1>5, <2>1, Sizes!Induction
<1>7. ASSUME NEW i \in 1 .. n + 1 PROVE Len(got[i]) <= Len(sent[p])
  <2>1. n + 1 - i \in Nat /\ n + 1 - i <= n /\ n + 1 - (n + 1 - i) = i
    BY <1>1
  <2>2. n + 1 - i \in K
    BY <1>6, <2>1
  <2> QED BY <2>1, <2>2
<1> QED BY <1>1, <1>7

\* A page that is not damaged decodes.
LEMMA NothingBad ==
    ASSUME Types, NEW p \in Pages, Undamaged(jpeg[p])
    PROVE  ~Contains(Decoded(jpeg[p]), Bad)
<1>1. /\ Len(Decoded(jpeg[p])) = Height
      /\ \A k \in 1 .. Height : Decoded(jpeg[p])[k] \in {Pad} \cup {jpeg[p][i] : i \in 1 .. Len(jpeg[p])}
  <2>1. Len(Decoded(jpeg[p])) = Height
    BY DecodedIs DEF Types, ReadoutType
  <2>2. ASSUME NEW k \in 1 .. Height
        PROVE  Decoded(jpeg[p])[k] \in {Pad} \cup {jpeg[p][i] : i \in 1 .. Len(jpeg[p])}
    <3>1. \/ Decoded(jpeg[p])[k] = Pad
          \/ k <= Len(jpeg[p]) /\ Decoded(jpeg[p])[k] = jpeg[p][k]
      BY DEF Decoded
    <3>2. k <= Len(jpeg[p]) => k \in 1 .. Len(jpeg[p])
      BY HeightIs DEF Types, ReadoutType
    <3> QED BY <3>1, <3>2
  <2> QED BY <2>1, <2>2
<1>2. Pad # Bad
  BY DEF Pad, Bad
<1>3. \A k \in 1 .. Height : Decoded(jpeg[p])[k] # Bad
  BY <1>1, <1>2 DEF Undamaged
<1> QED BY <1>1, <1>3 DEF Contains

\* The chunk that arrives fits.
LEMMA ChunkFits ==
    ASSUME Types, Stream, SentWell, pc = "boundary", Arrived({"chunk"}), TakeChunk
    PROVE  pc' \in Loop
<1>1. wire # <<>> /\ Head(wire) = Head1 /\ Head1 = wire[1] /\ wire[1].kind = "chunk" /\ 1 \in 1 .. Len(wire) /\ pc \in Loop
  BY HeadIs DEF Arrived, Head1, Loop
<1>2. PICK q \in Pages : q = wire[1].page
  BY <1>1 DEF Types, DeviceType
<1>3. Of(q, wire[1]) /\ q \notin Complete
  BY <1>1, <1>2 DEF Of, Stream, Over, Silent
<1>4. PICK got \in [1 .. Len(wire) + 1 -> Seq(Unit)] : Received(q, got)
  BY <1>1, <1>3 DEF Stream, Flow
<1>5. got[1 + 1] = jpeg[q] \o wire[1].units
  BY <1>1, <1>3, <1>4 DEF Received
<1>6. Len(jpeg[q] \o wire[1].units) <= Len(sent[q])
  <2>1. 1 + 1 \in 1 .. Len(wire) + 1
    BY <1>1
  <2>2. Len(got[1 + 1]) <= Len(sent[q])
    BY <1>4, <2>1, ReceivedFits
  <2> QED BY <1>5, <2>2
<1>7. Len(sent[q]) <= Height + 1 /\ Height + 1 <= PageCap /\ Len(sent[q]) \in Nat
      /\ Len(jpeg[q] \o wire[1].units) \in Nat /\ Height \in Nat /\ PageCap \in Nat
  <2>0. Len(sent[q]) <= Height + 1
    BY DEF SentWell, Sound
  <2>1. wire[1].units \in Seq(Unit) /\ jpeg[q] \in Seq(Unit) /\ Len(sent[q]) \in Nat
    <3>1. wire[1] \in StreamElement
      BY <1>1, HeadIs
    <3>2. wire[1].units \in Seq(Unit)
      BY <3>1 DEF StreamElement
    <3>3. jpeg[q] \in Seq(Unit) /\ sent[q] \in Seq(Unit)
      BY DEF Types, DeviceType, ReadoutType
    <3> QED BY <3>2, <3>3
  <2>2. Len(jpeg[q] \o wire[1].units) \in Nat
    BY <2>1, Concatenated
  <2>3. Height \in Nat /\ PageCap \in Nat /\ PageCap > Height
    BY ColorAssumption
  <2>4. Height + 1 <= PageCap
    BY <2>3
  <2> QED BY <2>0, <2>1, <2>2, <2>3, <2>4
<1>8. ~(Len(jpeg[q] \o wire[1].units) > PageCap)
  <2>1. \A l, m, h, c \in Nat : l <= m /\ m <= h + 1 /\ h + 1 <= c => ~(l > c)
    OBVIOUS
  <2> QED BY <1>6, <1>7, <2>1
<1>9. IF streaming THEN pc' = "feed" ELSE UNCHANGED pc
  BY <1>1, <1>2, <1>8 DEF TakeChunk, PageTag
<1> QED BY <1>1, <1>9 DEF Loop

\* With the job-final byte at hand no page is open.
LEMMA NoneOpen ==
    ASSUME Types, Stream, SentWell, Placed, pc = "tail", Arrived({"final"})
    PROVE  open = {}
<1>1. wire # <<>> /\ wire[1].kind = "final" /\ 1 \in 1 .. Len(wire) /\ pc \in Loop
  BY HeadIs DEF Arrived, Head1, Loop
<1>2. jobFinal /\ Len(wire) = 1
  BY <1>1 DEF Stream, Markers
<1>3. ASSUME NEW p \in open PROVE FALSE
  <2>1. p \in Begun /\ p \in ended /\ p \notin Complete
    BY <1>2, <1>3 DEF Placed, SentWell
  <2>2. Marked(p)
    BY <2>1 DEF Placed
  <2>3. PICK i \in 1 .. Len(wire) : wire[i].kind = "eop"
    BY <2>2 DEF Marked
  <2>4. i = 1
    BY <1>2
  <2> QED BY <1>1, <2>3, <2>4
<1> QED BY <1>3

\* A marker is of a page whose JPEG has arrived.
LEMMA MarkerFits ==
    ASSUME Types, Stream, SentWell, pc = "boundary", Arrived({"eop"})
    PROVE  Head(wire).page \in open /\ EndsInEoi(jpeg[Head(wire).page])
<1>1. wire # <<>> /\ Head(wire) = wire[1] /\ wire[1].kind = "eop" /\ 1 \in 1 .. Len(wire) /\ pc \in Loop
  BY HeadIs DEF Arrived, Head1, Loop
<1>2. PICK q \in Pages : q = wire[1].page
  BY <1>1 DEF Types, DeviceType
<1>3. Of(q, wire[1]) /\ q \notin Complete /\ q \in ended
  BY <1>1, <1>2 DEF Of, Stream, Over, Silent, Markers
<1>4. PICK got \in [1 .. Len(wire) + 1 -> Seq(Unit)] : Received(q, got)
  BY <1>1, <1>3 DEF Stream, Flow
<1>5. jpeg[q] = sent[q]
  BY <1>1, <1>3, <1>4 DEF Received
<1>6. EndsInEoi(jpeg[q])
  BY <1>3, <1>5 DEF SentWell
<1>7. q \in open
  BY <1>6 DEF Stream, Buffers, EndsInEoi
<1> QED BY <1>1, <1>2, <1>6, <1>7

\* Nothing fills no look-ahead.
LEMMA NothingBuffered == Buffered(<<>>) = 0
<1>1. <<>> \in Seq({}) /\ Len(<<>>) = 0
  OBVIOUS
<1>2. Sizes!Folded(0, <<>>) = 0
  <2> DEFINE g == [k \in {0} |-> 0]
  <2>1. g[0] = 0 /\ \A k \in 1 .. Len(<<>>) : g[k] = AddSize(g[k - 1], <<>>[k])
    BY <1>1
  <2> HIDE DEF g
  <2>2. Sizes!Folded(0, <<>>) = g[Len(<<>>)]
    BY <1>1, <2>1, Sizes!FoldIs
  <2> QED BY <1>1, <2>1, <2>2
<1> QED BY <1>2 DEF Buffered, AddSize, Sizes!Folded, FoldLeft, MapThenFoldSet,
           Sizes!FoldLeft, Sizes!MapThenFoldSet, Max, Sizes!Max

\* The readout of such a device only gives up when the link does.
LEMMA SoundAnswer ==
    ASSUME Types, Stream, SentWell, Arriving, Placed, Final, Readout, pc \in Loop, pc' \notin Loop
    PROVE  \/ status' \in {"ok", "cancelled"}
           \/ link = "closed"
           \/ link = "stalled" /\ status' = "timeout"
<1>0. link \in {"up", "stalled", "closed"} /\ (link = "stalled" => LinkError = "timeout")
  BY DEF Types, DeviceType, LinkError
<1>1. ASSUME NothingMore PROVE link # "up" /\ status' = LinkError
  <2>1. /\ status' = LinkError
        /\ link # "up" \/ jobFinal
        /\ \/ pc = "boundary" /\ (wire = <<>> \/ Arrived({"final", "stub"}))
           \/ pc = "tail" /\ wire = <<>>
    BY <1>1 DEF NothingMore, Return
  <2> SUFFICES ASSUME link = "up" PROVE FALSE
    BY <2>1
  <2>2. jobFinal /\ wire # <<>> /\ pc = "boundary" /\ Arrived({"final", "stub"})
    BY <2>1 DEF Final
  <2>3. wire[1].kind \in {"final", "stub"} /\ 1 \in 1 .. Len(wire)
    BY <2>2, HeadIs DEF Arrived, Head1
  <2>4. wire[1].kind # "stub"
    BY <2>3 DEF Arriving
  <2> QED BY <2>2, <2>3, <2>4 DEF Final
<1>2. ~ReadJunk
  <2> SUFFICES ASSUME ReadJunk PROVE FALSE
    OBVIOUS
  <2>1. wire[1].kind = "junk" /\ 1 \in 1 .. Len(wire)
    BY HeadIs DEF ReadJunk, Arrived, Head1
  <2> QED BY <2>1 DEF Arriving
<1>3. ~ReadHonestChunk /\ ~ReadSentinelChunk
  BY ChunkFits DEF ReadHonestChunk, ReadSentinelChunk
<1>4. ASSUME SentinelChunkCut PROVE link # "up" /\ status' = LinkError
  <2>1. /\ status' = LinkError /\ wire # <<>> /\ Head(wire) = wire[1] /\ wire[1].kind = "chunk"
        /\ LookAheadFull \/ Quiet
        /\ Len(wire[1].units) < MaxChunk
        /\ Len(wire) > 1 => wire[2].kind \in {"final", "stub"}
    BY <1>4, HeadIs DEF SentinelChunkCut, Return, Arrived, Head1
  <2> SUFFICES ASSUME link = "up" PROVE FALSE
    BY <2>1
  <2>2. Len(wire) \in Nat \ {0} /\ 1 \in 1 .. Len(wire)
    BY <2>1, TailElements DEF Types, DeviceType
  <2>3. Len(wire) = 1
    <3>0. PICK n \in Nat : n = Len(wire) /\ n # 0
      BY <2>2
    <3> SUFFICES ASSUME n > 1 PROVE FALSE
      BY <3>0
    <3>1. 2 \in 1 .. Len(wire) /\ wire[2].kind \in {"final", "stub"} /\ 2 - 1 = 1
      BY <2>1, <3>0
    <3>2. wire[2].kind = "final"
      BY <3>1 DEF Arriving
    <3>3. wire[1].kind = "eop"
      BY <3>1, <3>2 DEF Final
    <3> QED BY <2>1, <3>3
  <2>4. ~jobFinal
    BY <2>1, <2>3 DEF Final
  <2>5. LookAheadFull
    BY <2>1, <2>4 DEF Quiet
  <2>6. Tail(wire) = <<>>
    <3>1. Tail(wire) \in Seq(StreamElement) /\ Len(Tail(wire)) = 0
      BY <2>1, <2>3, TailElements DEF Types, DeviceType
    <3>2. \A w \in Seq(StreamElement) : Len(w) = 0 => w = <<>>
      OBVIOUS
    <3> QED BY <3>1, <3>2
  <2>7. Buffered(<<>>) = 0
    BY NothingBuffered
  <2>8. Len(wire[1].units) \in Nat
    <3>1. wire[1] \in StreamElement
      BY <2>2 DEF Types, DeviceType
    <3> QED BY <3>1 DEF StreamElement
  <2>9. Len(wire[1].units) + 0 >= MaxChunk + 4
    BY <2>1, <2>5, <2>6, <2>7 DEF LookAheadFull, Anchors
  <2>10. \A l, m \in Nat : l < m => ~(l + 0 >= m + 4)
    OBVIOUS
  <2> QED BY <2>1, <2>8, <2>9, <2>10, HeightIs
<1>5. LookAheadClosed => link = "closed"
  BY DEF LookAheadClosed
<1>6. ~DecoderFails
  <2> SUFFICES ASSUME DecoderFails PROVE FALSE
    OBVIOUS
  <2>1. cur \in Pages /\ NextBand = Bad /\ Len(shown[cur]) < Produced(cur)
    BY DEF DecoderFails, BandDue, Types, ReadoutType
  <2>2. Len(shown[cur]) + 1 \in 1 .. Height
    BY <2>1, NextBandIs
  <2>3. Decoded(jpeg[cur]) \in Seq(Unit) /\ Len(Decoded(jpeg[cur])) = Height
    BY <2>1, DecodedIs DEF Types, ReadoutType
  <2>4. Contains(Decoded(jpeg[cur]), Bad)
    BY <2>1, <2>2, <2>3 DEF NextBand, Contains
  <2> QED BY <2>1, <2>4, NothingBad DEF Arriving
<1>7. ~WholePageFails
  BY NothingBad DEF WholePageFails, Arriving, Types, ReadoutType
<1>8. ReadEndOfPage => pc' \in Loop
  <2> SUFFICES ASSUME ReadEndOfPage PROVE pc' = "finish"
    BY DEF Loop
  <2>1. pc = "boundary" /\ Arrived({"eop"})
    BY DEF ReadEndOfPage
  <2>2. Head(wire).page \in open /\ EndsInEoi(jpeg[Head(wire).page])
    BY <2>1, MarkerFits
  <2> QED BY <2>2 DEF ReadEndOfPage
<1>9. JobFinalLead => status' = "ok"
  BY NoneOpen DEF JobFinalLead, FlushAndReturn
<1>10. DecodeBand => status' = "cancelled"
  BY DEF DecodeBand, FlushAndReturn
<1>11. ~Fed /\ ~FinishPage /\ ~BlockAtTail /\ ~FlushOne /\ ~FlushDone /\ ~ReturnToCaller
  BY DEF Fed, FinishPage, BlockAtTail, FlushOne, FlushDone, ReturnToCaller, Loop
<1> QED BY <1>0, <1>1, <1>2, <1>3, <1>4, <1>5, <1>6, <1>7, <1>8, <1>9, <1>10, <1>11 DEF Readout

\* Every step keeps Answered.
LEMMA NextAnswered == Types /\ Stream /\ Framed /\ Answered /\ [Next]_vars => Answered'
<1> SUFFICES ASSUME Types, Stream, Framed, Answered, [Next]_vars, pc' \notin Loop, faults' = 0
             PROVE  /\ link' = "up" => status' \in {"ok", "cancelled"}
                    /\ link' = "stalled" => status' \in {"ok", "cancelled", "timeout"}
  BY DEF Answered
<1>1. CASE UNCHANGED vars
  BY <1>1 DEF vars, deviceVars, Answered
<1>2. CASE Device
  <2>1. pc \in Loop /\ pc' = pc
    BY <1>2, KeepsIs, DeviceIs DEF Loop
  <2> QED BY <2>1
<1>3. CASE Readout
  <2>1. UNCHANGED <<faults, link>> /\ faults = 0
    BY <1>3, ReadoutIs DEF deviceVars
  <2>2. CASE pc \in Loop
    BY <1>3, <2>1, <2>2, SoundAnswer DEF Framed
  <2>3. CASE pc \notin Loop
    <3>1. UNCHANGED status
      BY <1>3, <2>3, ReadoutIs DEF GivesUp, Takes, Shows, Flushes, Resumes, Marks, FinishPage, FlushOne, FlushDone,
         ReturnToCaller, Loop
    <3> QED BY <2>1, <2>3, <3>1 DEF Answered
  <2> QED BY <2>2, <2>3
<1> QED BY <1>1, <1>2, <1>3 DEF Next

\* A device that keeps to the framing is answered with its pages or the caller's cancel while the
\* link stays up, and with nothing worse than a timeout when it goes quiet, however the chunks of
\* any number of pages interleave and whether they declare their lengths.
THEOREM SoundJobsSucceed == Spec => []SoundJobSucceeds
<1>1. Init => Answered
  BY DEF Init, Answered, Loop
<1>2. Answered => SoundJobSucceeds
  BY DEF Answered, SoundJobSucceeds, Loop
<1>3. (Types /\ Stream /\ Bands) /\ (Framed /\ Answered) /\ [Next]_vars => (Framed /\ Answered)'
  BY NextFramed, NextAnswered
<1> QED BY InitFramed, StreamHolds, <1>1, <1>2, <1>3, PTL DEF Spec
=============================================================================
