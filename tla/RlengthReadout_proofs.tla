----------------------- MODULE RlengthReadout_proofs -----------------------
(***************************************************************************)
(* What holds of the readout for every number of pages, height, band size  *)
(* and slop ceiling.  The invariants are proved in layers: the buffers and *)
(* their cursors fit (Fit), the buffers hold what the device sent (Stream),*)
(* and then the promises made to the caller.                               *)
(***************************************************************************)
EXTENDS RlengthReadout, SequenceTheorems, TLAPS

Loop == pc \in {"boundary", "drain", "tail"}

\* The cursors of a page stay inside its buffer; a buffer holds exactly the rows that
\* arrived, except for the page being drained, which is padded to its final height.
Fit ==
    /\ \A p \in Pages :
          /\ rowsRead[p] <= Len(pixels[p])
          /\ Len(pixels[p]) <= Height
          /\ bandStart[p] <= Len(pixels[p])
    /\ \A p \in Pages :
          Loop /\ ~(pc = "drain" /\ p = cur) => Len(pixels[p]) = rowsRead[p]
    /\ pc = "drain" => Len(pixels[cur]) = EmitHeight(cur)

TypeFit == TypeOK /\ Fit

DeviceType ==
    /\ sent \in [Pages -> Nat] /\ ended \subseteq Pages /\ jobFinal \in BOOLEAN
    /\ link \in {"up", "stalled", "closed"}
    /\ wire \in StreamElement
    /\ wire.kind \in {"row", "eop"} => wire.page \in Pages

-----------------------------------------------------------------------------

LEMMA ElementType ==
           /\ \A kind \in Kind, p \in Pages \cup {0} :
                 Element(kind, p) \in StreamElement
           /\ \A p \in Pages, k \in Nat, payload \in Payload :
                 RowBlock(p, k, payload) \in StreamElement
BY DEF StreamElement, Element, RowBlock, Kind, Payload

LEMMA InitTypeFit == Init => TypeFit
<1> SUFFICES ASSUME Init PROVE TypeFit
  OBVIOUS
<1>1. TypeOK
  <2>1. <<>> \in Seq(Pages) /\ <<>> \in Seq(Row)
    OBVIOUS
  <2>2. wire \in StreamElement
        /\ wire.kind = "nothing"
    BY DEF Init, StreamElement, Nothing, Element, Kind, Payload
  <2> QED
    BY <2>1, <2>2 DEF Init, TypeOK
<1>2. Fit
  BY RlengthAssumption DEF Init, Fit, Loop
<1> QED
  BY <1>1, <1>2 DEF TypeFit

LEMMA DeviceTypeFit == TypeFit /\ Device => TypeFit'
<1> SUFFICES ASSUME TypeFit, Device PROVE TypeFit'
  OBVIOUS
<1> USE DEF TypeFit
<1>1. DeviceType'
  <2>1. ASSUME NEW p \in Pages, SendRow(p) PROVE DeviceType'
    <3>1. PICK payload \in Payload : wire' = RowBlock(p, sent[p] + 1, payload)
      BY <2>1 DEF SendRow, Payload
    <3>2. wire' \in StreamElement /\ wire'.page = p
      BY <3>1, ElementType DEF TypeOK, RowBlock
    <3> QED
      BY <2>1, <3>2 DEF SendRow, TypeOK, DeviceType
  <2>2. ASSUME NEW p \in Pages, SendEndOfPage(p) PROVE DeviceType'
    <3>1. wire' = Element("eop", p)
      BY <2>2 DEF SendEndOfPage
    <3>2. wire' \in StreamElement /\ wire'.page = p
      BY <3>1, ElementType DEF Element, Kind
    <3> QED
      BY <2>2, <3>2 DEF SendEndOfPage, TypeOK, DeviceType
  <2>3. CASE SendSlop
    <3>1. PICK kind \in {"slop", "x80"} : wire' = Element(kind, 0)
      BY <2>3 DEF SendSlop
    <3>2. wire' \in StreamElement /\ wire'.kind \notin {"row", "eop"}
      BY <3>1, ElementType DEF Element, Kind
    <3> QED
      BY <2>3, <3>2 DEF SendSlop, TypeOK, DeviceType, deviceVars
  <2>4. CASE SendJobFinal
    <3>1. wire' \in StreamElement /\ wire'.kind \notin {"row", "eop"}
      BY <2>4, ElementType DEF SendJobFinal, Element, Kind
    <3> QED
      BY <2>4, <3>1 DEF SendJobFinal, TypeOK, DeviceType
  <2>5. CASE LinkFails
    <3>1. \/ wire' = wire
          \/ \E kind \in {"stub", "stub80"} : wire' = Element(kind, 0)
          \/ \E p \in Pages : wire' = RowBlock(p, sent[p] + 1, "cut")
      BY <2>5 DEF LinkFails
    <3>2. wire' \in StreamElement /\ (wire'.kind \in {"row", "eop"} => wire'.page \in Pages)
      <4>1. \A kind \in {"stub", "stub80"} :
               Element(kind, 0) \in StreamElement /\ Element(kind, 0).kind = kind
        BY ElementType DEF Element, Kind
      <4>2. ASSUME NEW p \in Pages
            PROVE  /\ RowBlock(p, sent[p] + 1, "cut") \in StreamElement
                   /\ RowBlock(p, sent[p] + 1, "cut").page = p
        <5>1. sent[p] + 1 \in Nat /\ "cut" \in Payload
          BY DEF TypeOK, Payload
        <5> QED
          BY <5>1, ElementType DEF RowBlock
      <4> QED
        BY <3>1, <4>1, <4>2 DEF TypeOK
    <3> QED
      BY <2>5, <3>2 DEF LinkFails, TypeOK, DeviceType
  <2> QED
    BY <2>1, <2>2, <2>3, <2>4, <2>5 DEF Device
<1>2. UNCHANGED <<job, pc, status, pageVars, slop, cur, resultVars, shown>>
  BY DEF Device
<1>3. TypeOK'
  BY <1>1, <1>2 DEF DeviceType, TypeOK, job, pageVars, resultVars
<1>4. Fit'
  BY <1>2 DEF Fit, Loop, EmitHeight, job, pageVars
<1> QED
  BY <1>3, <1>4

-----------------------------------------------------------------------------
(* What the readout does to a buffer.                                       *)

LEMMA PadRows ==
    ASSUME NEW s \in Seq(Row), NEW n \in Nat
    PROVE  /\ Padded(s, n) \in Seq(Row)
           /\ Len(Padded(s, n)) = Len(s) + n
           /\ \A k \in 1 .. Len(s) : Padded(s, n)[k] = s[k]
           /\ \A k \in Len(s) + 1 .. Len(s) + n : Padded(s, n)[k] = Pad
<1> DEFINE fill == [k \in 1..n |-> Pad]
<1>1. fill \in Seq(Row) /\ Len(fill) = n
  BY DEF Row
<1>2. \A k \in 1..n : fill[k] = Pad
  OBVIOUS
<1> QED
  BY <1>1, <1>2, ConcatProperties, LenProperties DEF Padded

LEMMA BandOfRows ==
    ASSUME NEW s \in Seq(Row), NEW a \in Nat, NEW n \in Nat, a + n <= Len(s)
    PROVE  /\ SubSeq(s, a + 1, a + n) \in Seq(Row)
           /\ Len(SubSeq(s, a + 1, a + n)) = n
           /\ SubSeq(s, 1, a) \o SubSeq(s, a + 1, a + n) = SubSeq(s, 1, a + n)
<1>1. Len(s) \in Nat
  BY LenProperties
<1>2. \A i \in a + 1 .. a + n : s[i] \in Row
  BY <1>1, ElementOfSeq
<1>3. /\ SubSeq(s, a + 1, a + n) \in Seq(Row)
      /\ Len(SubSeq(s, a + 1, a + n)) = n
  BY <1>2, SubSeqProperties
<1>4. 1 \in 1 .. Len(s) + 1 /\ a \in 0 .. Len(s) /\ a + n \in a .. Len(s)
  BY <1>1
<1> QED
  BY <1>3, <1>4, ConcatAdjacentSubSeq

LEMMA EmitHeightRange ==
    ASSUME TypeOK, NEW p \in Pages, rowsRead[p] <= Height
    PROVE  EmitHeight(p) \in Nat /\ rowsRead[p] <= EmitHeight(p) /\ EmitHeight(p) <= Height
BY RlengthAssumption DEF TypeOK, EmitHeight

-----------------------------------------------------------------------------

LEMMA ReadRowTypeFit == TypeFit /\ ReadRow /\ UNCHANGED <<job, deviceVars>> => TypeFit'
<1> SUFFICES ASSUME TypeFit, ReadRow, UNCHANGED <<job, deviceVars>> PROVE TypeFit'
  OBVIOUS
<1> USE DEF TypeFit
<1>0. PICK p \in Pages : p = wire.page
  BY DEF ReadRow, AtBoundary, TypeOK
<1>1. /\ wire.row \in Nat /\ <<p, wire.row>> \in Row
      /\ pc = "boundary" /\ wire' \in StreamElement /\ wire'.kind = "nothing"
      /\ open' = open \cup {p} /\ slop' = 0
  BY <1>0, ElementType DEF ReadRow, AtBoundary, PageTag, TypeOK, StreamElement, Row, Nothing, Element, Kind
<1>2. Len(pixels[p]) = rowsRead[p] /\ pixels[p] \in Seq(Row) /\ Len(pixels[p]) \in Nat
  BY <1>1, LenProperties DEF Fit, Loop, TypeOK
<1>3. CASE UNCHANGED <<pixels, rowsRead, bandStart>> /\ \E s \in {"protocol", "timeout", "io"} : Return(s)
  <2>1. TypeOK'
    BY <1>1, <1>3 DEF TypeOK, Return, resultVars, job, deviceVars
  <2>2. Fit'
    BY <1>1, <1>3 DEF Fit, Loop, Return
  <2> QED
    BY <2>1, <2>2
<1>4. CASE /\ rowsRead[p] < Height
           /\ pixels' = [pixels EXCEPT ![p] = Append(@, <<p, wire.row>>)]
           /\ rowsRead' = [rowsRead EXCEPT ![p] = @ + 1]
           /\ UNCHANGED <<resultVars, cur>>
           /\ \/ UNCHANGED <<pc, status, bandStart, shown>>
              \/ /\ rowsRead[p] + 1 - bandStart[p] = BandRows
                 /\ EmitBand(p, BandRows)
                 /\ \/ bandStart' = [bandStart EXCEPT ![p] = rowsRead[p] + 1] /\ UNCHANGED <<pc, status>>
                    \/ FlushAndReturn("cancelled") /\ UNCHANGED bandStart
  <2>1. /\ pixels' \in [Pages -> Seq(Row)]
        /\ Len(pixels'[p]) = rowsRead'[p]
        /\ \A q \in Pages \ {p} : pixels'[q] = pixels[q] /\ rowsRead'[q] = rowsRead[q]
        /\ rowsRead' \in [Pages -> Nat] /\ rowsRead'[p] = rowsRead[p] + 1
    <3>1. LET t == Append(pixels[p], <<p, wire.row>>) IN
          t \in Seq(Row) /\ Len(t) = Len(pixels[p]) + 1
      BY <1>1, <1>2, AppendProperties
    <3> QED
      BY SMTT(30), <1>2, <1>4, <3>1 DEF TypeOK
  <2>2. bandStart' \in [Pages -> Nat] /\ \A q \in Pages : bandStart'[q] \in {bandStart[q], rowsRead'[q]}
    BY <1>1, <1>4, <2>1 DEF TypeOK
  <2>3. shown' \in [Pages -> Seq(Row)]
    <3>1. CASE EmitBand(p, BandRows) /\ rowsRead[p] + 1 - bandStart[p] = BandRows
      <4>1. SubSeq(pixels'[p], bandStart[p] + 1, bandStart[p] + BandRows) \in Seq(Row)
        <5>1. /\ bandStart[p] \in Nat /\ BandRows \in Nat /\ pixels'[p] \in Seq(Row)
              /\ bandStart[p] + BandRows <= Len(pixels'[p])
          BY <1>2, <2>1, <3>1, RlengthAssumption DEF TypeOK
        <5> QED
          BY <5>1, BandOfRows
      <4>2. shown[p] \o SubSeq(pixels'[p], bandStart[p] + 1, bandStart[p] + BandRows) \in Seq(Row)
        BY <4>1, ConcatProperties DEF TypeOK
      <4> QED
        BY <3>1, <4>2 DEF EmitBand, TypeOK
    <3> QED
      BY <1>4, <3>1 DEF TypeOK
  <2>4. pc' \in {"boundary", "flush"} /\ status' \in {status, "cancelled"}
    BY <1>1, <1>4 DEF FlushAndReturn
  <2>5. TypeOK'
    BY SMTT(30), <1>1, <1>4, <2>1, <2>2, <2>3, <2>4 DEF TypeOK, resultVars, job, deviceVars
  <2>6. Fit'
    <3>1. Len(pixels'[p]) <= Height /\ rowsRead'[p] <= Len(pixels'[p]) /\ bandStart'[p] <= Len(pixels'[p])
      <4>1. bandStart[p] <= rowsRead[p] /\ rowsRead[p] \in Nat /\ bandStart[p] \in Nat /\ Height \in Nat
        BY <1>2, RlengthAssumption DEF Fit, TypeOK
      <4>2. Len(pixels'[p]) = rowsRead[p] + 1 /\ rowsRead[p] < Height
        BY <1>4, <2>1
      <4> QED
        BY <2>1, <2>2, <4>1, <4>2
    <3>2. \A q \in Pages \ {p} : /\ Len(pixels'[q]) <= Height /\ rowsRead'[q] <= Len(pixels'[q])
                                /\ bandStart'[q] <= Len(pixels'[q]) /\ Len(pixels'[q]) = rowsRead'[q]
      BY <1>1, <2>1, <2>2 DEF Fit, Loop, TypeOK
    <3> QED
      BY <2>1, <2>4, <3>1, <3>2 DEF Fit, Loop
  <2> QED
    BY <2>5, <2>6
<1> QED
  BY <1>0, <1>3, <1>4 DEF ReadRow, PageTag, LinkError

LEMMA ReadEndOfPageTypeFit == TypeFit /\ ReadEndOfPage /\ UNCHANGED <<job, deviceVars>> => TypeFit'
<1> SUFFICES ASSUME TypeFit, ReadEndOfPage, UNCHANGED <<job, deviceVars>> PROVE TypeFit'
  OBVIOUS
<1> USE DEF TypeFit
<1>0. PICK p \in Pages : p = wire.page
  BY DEF ReadEndOfPage, AtBoundary, TypeOK
<1>1. pc = "boundary" /\ wire' \in StreamElement /\ wire'.kind = "nothing" /\ slop' = 0
  BY ElementType DEF ReadEndOfPage, AtBoundary, Nothing, Element, Kind
<1>2. CASE Return("protocol") /\ UNCHANGED pageVars
  <2>1. TypeOK'
    BY <1>1, <1>2 DEF TypeOK, Return, resultVars, pageVars, job, deviceVars
  <2>2. Fit'
    BY <1>1, <1>2 DEF Fit, Loop, Return, pageVars
  <2> QED
    BY <2>1, <2>2
<1>3. CASE /\ pixels' = [pixels EXCEPT ![p] = Padded(@, EmitHeight(p) - rowsRead[p])]
           /\ cur' = p /\ pc' = "drain"
           /\ UNCHANGED <<status, open, rowsRead, bandStart, resultVars, shown>>
  <2>1. Len(pixels[p]) = rowsRead[p] /\ pixels[p] \in Seq(Row) /\ rowsRead[p] \in Nat
    BY <1>1 DEF Fit, Loop, TypeOK
  <2>2. EmitHeight(p) \in Nat /\ rowsRead[p] <= EmitHeight(p) /\ EmitHeight(p) <= Height
    BY <2>1, EmitHeightRange DEF Fit
  <2>3. /\ pixels' \in [Pages -> Seq(Row)]
        /\ Len(pixels'[p]) = EmitHeight(p)
        /\ \A q \in Pages \ {p} : pixels'[q] = pixels[q]
    <3>1. PICK n \in Nat : n = EmitHeight(p) - rowsRead[p] /\ rowsRead[p] + n = EmitHeight(p)
      BY <2>1, <2>2
    <3>2. Padded(pixels[p], n) \in Seq(Row) /\ Len(Padded(pixels[p], n)) = EmitHeight(p)
      BY <2>1, <3>1, PadRows
    <3> QED
      BY <1>3, <3>1, <3>2 DEF TypeOK
  <2>4. EmitHeight(p)' = EmitHeight(p)
    BY <1>3 DEF EmitHeight, job
  <2>5. TypeOK'
    BY <1>1, <1>3, <2>3 DEF TypeOK, resultVars, job, deviceVars
  <2>6. Fit'
    BY SMTT(30), <1>1, <1>3, <2>1, <2>2, <2>3, <2>4 DEF Fit, Loop, TypeOK
  <2> QED
    BY <2>5, <2>6
<1> QED
  BY <1>0, <1>2, <1>3 DEF ReadEndOfPage

\* The next band of a page being drained is not empty and lies inside the page.
LEMMA DrainBandStep ==
    ASSUME TypeFit, DrainBand
    PROVE  \E n \in Nat : /\ n > 0 /\ n = LeastOf(BandRows, EmitHeight(cur) - bandStart[cur])
                         /\ bandStart[cur] + n <= EmitHeight(cur)
<1> USE DEF TypeFit
<1>1. /\ cur \in Pages /\ bandStart[cur] \in Nat /\ bandStart[cur] < EmitHeight(cur)
      /\ rowsRead[cur] <= Height
  <2>1. cur \in Pages /\ bandStart[cur] < EmitHeight(cur)
    BY DEF DrainBand, DrainDue, TypeOK
  <2>2. rowsRead[cur] \in Nat /\ bandStart[cur] \in Nat
    BY <2>1 DEF TypeOK
  <2>3. Len(pixels[cur]) \in Nat /\ rowsRead[cur] <= Len(pixels[cur]) /\ Len(pixels[cur]) <= Height
    BY <2>1, LenProperties DEF TypeOK, Fit
  <2> QED
    BY <2>1, <2>2, <2>3, RlengthAssumption
<1>2. EmitHeight(cur) \in Nat
  BY <1>1, EmitHeightRange
<1> QED
  BY <1>1, <1>2, RlengthAssumption DEF LeastOf

LEMMA DrainBandTypeFit == TypeFit /\ DrainBand /\ UNCHANGED <<job, deviceVars>> => TypeFit'
<1> SUFFICES ASSUME TypeFit, DrainBand, UNCHANGED <<job, deviceVars>> PROVE TypeFit'
  OBVIOUS
<1> USE DEF TypeFit
<1>0. PICK n \in Nat : /\ n = LeastOf(BandRows, EmitHeight(cur) - bandStart[cur])
                       /\ bandStart[cur] + n <= EmitHeight(cur)
  BY DrainBandStep
<1>1. /\ pc = "drain" /\ cur \in Pages /\ Len(pixels[cur]) = EmitHeight(cur)
      /\ EmitBand(cur, n)
      /\ UNCHANGED <<pixels, wire, open, rowsRead, slop, cur, resultVars>>
      /\ \/ bandStart' = [bandStart EXCEPT ![cur] = @ + n] /\ UNCHANGED <<pc, status>>
         \/ FlushAndReturn("cancelled") /\ UNCHANGED bandStart
  BY <1>0 DEF DrainBand, TypeOK, Fit
<1>2. shown' \in [Pages -> Seq(Row)]
  <2>1. SubSeq(pixels'[cur], bandStart[cur] + 1, bandStart[cur] + n) \in Seq(Row)
    BY <1>0, <1>1, BandOfRows DEF TypeOK
  <2>2. shown[cur] \o SubSeq(pixels'[cur], bandStart[cur] + 1, bandStart[cur] + n) \in Seq(Row)
    BY <1>1, <2>1, ConcatProperties DEF TypeOK
  <2> QED
    BY <1>1, <2>2 DEF EmitBand, TypeOK
<1>3. /\ bandStart' \in [Pages -> Nat]
      /\ \A q \in Pages : bandStart'[q] <= Len(pixels[q])
  <2>1. bandStart[cur] \in Nat /\ bandStart \in [Pages -> Nat] /\ \A q \in Pages : bandStart[q] <= Len(pixels[q])
    BY <1>1 DEF TypeOK, Fit
  <2> QED
    BY SMTT(30), <1>0, <1>1, <2>1
<1>4. pc' \in {"drain", "flush"} /\ status' \in {status, "cancelled"}
  BY <1>1 DEF FlushAndReturn
<1>5. TypeOK'
  BY <1>1, <1>2, <1>3, <1>4 DEF TypeOK, resultVars, job, deviceVars
<1>6. Fit'
  BY <1>1, <1>3, <1>4 DEF Fit, Loop, EmitHeight, job
<1> QED
  BY <1>5, <1>6

LEMMA FinishPageTypeFit == TypeFit /\ FinishPage /\ UNCHANGED <<job, deviceVars>> => TypeFit'
<1> SUFFICES ASSUME TypeFit, FinishPage, UNCHANGED <<job, deviceVars>> PROVE TypeFit'
  OBVIOUS
<1> USE DEF TypeFit
<1>1. pc = "drain" /\ cur \in Pages /\ pc' = "tail"
  BY DEF FinishPage, TypeOK
<1>2. /\ image' \in [Pages -> Seq(Row)] /\ pixels' \in [Pages -> Seq(Row)]
      /\ rowsRead' \in [Pages -> Nat] /\ bandStart' \in [Pages -> Nat]
      /\ pixels'[cur] = <<>> /\ rowsRead'[cur] = 0 /\ bandStart'[cur] = 0
      /\ \A q \in Pages \ {cur} : /\ pixels'[q] = pixels[q] /\ rowsRead'[q] = rowsRead[q]
                                  /\ bandStart'[q] = bandStart[q]
  BY <1>1 DEF FinishPage, TypeOK
<1>3. TypeOK'
  BY <1>1, <1>2 DEF FinishPage, TypeOK, job, deviceVars
<1>4. Fit'
  <2>1. \A q \in Pages : /\ rowsRead'[q] <= Len(pixels'[q]) /\ Len(pixels'[q]) <= Height
                          /\ bandStart'[q] <= Len(pixels'[q]) /\ Len(pixels'[q]) = rowsRead'[q]
    <3>1. Len(pixels'[cur]) = 0 /\ rowsRead'[cur] = 0 /\ bandStart'[cur] = 0 /\ 0 <= Height
      BY <1>2, RlengthAssumption
    <3>2. ASSUME NEW q \in Pages, q # cur
          PROVE  /\ rowsRead'[q] <= Len(pixels'[q]) /\ Len(pixels'[q]) <= Height
                 /\ bandStart'[q] <= Len(pixels'[q]) /\ Len(pixels'[q]) = rowsRead'[q]
      <4>1. pixels'[q] = pixels[q] /\ rowsRead'[q] = rowsRead[q] /\ bandStart'[q] = bandStart[q]
        BY <1>2, <3>2
      <4> QED
        BY <1>1, <3>2, <4>1 DEF Fit, Loop
    <3> QED
      BY <3>1, <3>2
  <2> QED
    BY <1>1, <2>1 DEF Fit
<1> QED
  BY <1>3, <1>4

LEMMA FlushOneTypeFit == TypeFit /\ FlushOne /\ UNCHANGED <<job, deviceVars>> => TypeFit'
<1> SUFFICES ASSUME TypeFit, FlushOne, UNCHANGED <<job, deviceVars>> PROVE TypeFit'
  OBVIOUS
<1> USE DEF TypeFit
<1>1. out' \in Seq(Pages) /\ finished' \subseteq Pages
  BY AppendProperties DEF FlushOne, TypeOK
<1>2. TypeOK'
  BY SMTT(30), <1>1 DEF FlushOne, TypeOK, pageVars, job, deviceVars
<1>3. Fit'
  BY DEF FlushOne, Fit, Loop, EmitHeight, pageVars, job
<1> QED
  BY <1>2, <1>3

\* Every other step of the readout leaves the buffers alone.
Aside ==
    LeadAtBoundary \/ LeadAtTail \/ BlockAtTail \/ SkipSlop \/ NothingMoreAtBoundary
    \/ ShortElementThenClosed \/ NothingMoreAtTail \/ FlushDone

LEMMA AsideTypeFit == TypeFit /\ Aside /\ UNCHANGED <<job, deviceVars>> => TypeFit'
<1> SUFFICES ASSUME TypeFit, Aside, UNCHANGED <<job, deviceVars>> PROVE TypeFit'
  OBVIOUS
<1> USE DEF TypeFit
<1>1. /\ UNCHANGED <<pageVars, cur, resultVars, shown>>
      /\ \/ pc \in {"boundary", "tail"} /\ pc' \in {"boundary", "flush", "done"}
         \/ pc = "flush" /\ pc' = "done"
  BY DEF Aside, LeadAtBoundary, LeadAtTail, JobFinalLead, BlockAtTail, SkipSlop,
         NothingMoreAtBoundary, ShortElementThenClosed, NothingMoreAtTail, FlushDone,
         AtBoundary, Return, FlushAndReturn, pageVars, resultVars
<1>2. status' \in {status, "ok", "timeout", "io", "protocol"} /\ slop' \in Nat
  BY SMTT(30) DEF Aside, LeadAtBoundary, LeadAtTail, JobFinalLead, BlockAtTail, SkipSlop,
         NothingMoreAtBoundary, ShortElementThenClosed, NothingMoreAtTail, FlushDone,
         AtBoundary, Return, FlushAndReturn, LinkError, TypeOK
<1>3. wire' \in StreamElement /\ (wire'.kind \in {"row", "eop"} => wire'.page \in Pages)
  <2>1. wire' \in {wire, Element("x80", 0), Nothing}
    BY DEF Aside, LeadAtBoundary, LeadAtTail, JobFinalLead, BlockAtTail, SkipSlop,
           NothingMoreAtBoundary, ShortElementThenClosed, NothingMoreAtTail, FlushDone
  <2> QED
    BY <2>1, ElementType DEF TypeOK, Nothing, Element, Kind
<1>4. TypeOK'
  BY <1>1, <1>2, <1>3 DEF TypeOK, pageVars, resultVars, job, deviceVars
<1>5. Fit'
  BY <1>1 DEF Fit, Loop, EmitHeight, pageVars, job
<1> QED
  BY <1>4, <1>5

LEMMA NextTypeFit == TypeFit /\ [Next]_vars => TypeFit'
<1> SUFFICES ASSUME TypeFit, [Next]_vars PROVE TypeFit'
  OBVIOUS
<1>1. CASE UNCHANGED vars
  BY <1>1 DEF TypeFit, TypeOK, Fit, Loop, EmitHeight, vars, job, deviceVars, pageVars, resultVars
<1>2. CASE Device
  BY <1>2, DeviceTypeFit
<1>3. CASE Readout
  BY <1>3, ReadRowTypeFit, ReadEndOfPageTypeFit, DrainBandTypeFit, FinishPageTypeFit,
     FlushOneTypeFit, AsideTypeFit DEF Readout, Aside
<1> QED
  BY <1>1, <1>2, <1>3 DEF Next

\* Type correctness, with the bounds on the buffers that it rests on.
THEOREM TypeFitHolds == Spec => []TypeFit
BY InitTypeFit, NextTypeFit, PTL DEF Spec

\* Every variable keeps its type.
THEOREM TypeCorrect == Spec => []TypeOK
<1>1. TypeFit => TypeOK
  BY DEF TypeFit
<1> QED
  BY TypeFitHolds, <1>1, PTL

-----------------------------------------------------------------------------
(* The buffers hold what the device sent.                                   *)

\* A whole row block is on the wire.
OnWire == wire.kind = "row" /\ wire.payload # "cut"

\* What is on the wire, and where the device is with the page it is about.
WireInv ==
    /\ wire.kind = "row" => wire.page \notin ended
    /\ OnWire => wire.row = sent[wire.page]
    /\ wire.kind = "eop" => wire.page \in ended
    /\ Loop /\ wire.kind = "eop" => /\ wire.page \notin Complete
                                    /\ ~(pc = "drain" /\ wire.page = cur)

\* A page is open until its end-of-page marker has been taken off the wire.
Place ==
    /\ Complete \subseteq ended
    /\ open \cap Complete = {}
    /\ \A p \in Pages \ open : rowsRead[p] = 0
    /\ pc = "drain" => cur \in open /\ cur \in ended

\* No row is lost between the device and the buffers.
Counts ==
    Loop => \A p \in Pages \ Complete :
                sent[p] = rowsRead[p] + IF OnWire /\ wire.page = p THEN 1 ELSE 0

\* A buffer holds the rows of its page in order, then the padding.
Rows ==
    /\ \A p \in Pages : \A k \in 1 .. rowsRead[p] : pixels[p][k] = <<p, k>>
    /\ pc = "drain" => \A k \in rowsRead[cur] + 1 .. Len(pixels[cur]) : pixels[cur][k] = Pad

Stream == WireInv /\ Place /\ Counts /\ Rows /\ FinishedPagesAreWhole

LEMMA ListedAppend ==
    ASSUME NEW S, NEW s \in Seq(S), NEW e \in S
    PROVE  Listed(Append(s, e)) = Listed(s) \cup {e}
<1>1. /\ Len(s) \in Nat /\ DOMAIN s = 1 .. Len(s)
      /\ DOMAIN Append(s, e) = 1 .. Len(s) + 1
      /\ \A i \in 1 .. Len(s) : Append(s, e)[i] = s[i]
      /\ Append(s, e)[Len(s) + 1] = e
  BY AppendProperties, LenProperties
<1> QED
  BY <1>1 DEF Listed

LEMMA CompleteArePages == TypeOK => Complete \subseteq Pages
<1> SUFFICES ASSUME TypeOK PROVE Complete \subseteq Pages
  OBVIOUS
<1>1. Listed(out) \subseteq Pages
  BY ElementOfSeq, LenProperties DEF Listed, TypeOK
<1> QED
  BY <1>1 DEF Complete, TypeOK

LEMMA InitStream == Init => Stream
<1> SUFFICES ASSUME Init PROVE Stream
  OBVIOUS
<1>1. Complete = {} /\ wire.kind = "nothing" /\ open = {} /\ pc = "boundary"
      /\ \A p \in Pages : sent[p] = 0 /\ rowsRead[p] = 0
  BY DEF Init, Complete, Listed, Nothing, Element
<1> QED
  BY <1>1 DEF Stream, WireInv, Place, Counts, Rows, FinishedPagesAreWhole, OnWire, Complete

LEMMA DeviceStream == TypeFit /\ Stream /\ Device => Stream'
<1> SUFFICES ASSUME TypeFit, Stream, Device PROVE Stream'
  OBVIOUS
<1>1. UNCHANGED <<job, pc, status, pageVars, slop, cur, resultVars, shown>>
  BY DEF Device
<1>2. Complete' = Complete /\ Loop' = Loop /\ Rows'
  BY <1>1 DEF Complete, Loop, Listed, resultVars, Stream, Rows, pageVars
<1>3. ASSUME UNCHANGED sent, ended \subseteq ended',
             ~OnWire, ~OnWire',
             wire'.kind = "row" => wire'.page \notin ended',
             wire'.kind = "eop" => wire'.page \in ended' /\ wire'.page \notin ended
      PROVE  Stream'
  <2>1. WireInv'
    BY <1>1, <1>2, <1>3 DEF Stream, WireInv, Place
  <2>2. Place' /\ Counts' /\ FinishedPagesAreWhole'
    BY <1>1, <1>2, <1>3 DEF Stream, Place, Counts, FinishedPagesAreWhole, WholePage, job,
       pageVars, resultVars
  <2> QED
    BY <1>2, <2>1, <2>2 DEF Stream
<1>4. CASE \E p \in Pages : SendRow(p)
  <2>0. PICK p \in Pages : SendRow(p)
    BY <1>4
  <2>1. /\ p \notin ended /\ ~OnWire /\ OnWire' /\ wire'.kind = "row"
        /\ wire'.page = p /\ wire'.row = sent[p] + 1
        /\ ended' = ended
    BY <2>0 DEF SendRow, MaySend, OnWire, Nothing, Element, RowBlock
  <2>2. sent'[p] = sent[p] + 1 /\ sent[p] \in Nat /\ \A q \in Pages \ {p} : sent'[q] = sent[q]
    BY <2>0 DEF SendRow, TypeFit, TypeOK
  <2>3. p \notin Complete
    BY <2>1 DEF Stream, Place
  <2>4. WireInv'
    BY <1>2, <2>1, <2>2 DEF WireInv, OnWire
  <2>5. Place'
    BY <1>1, <1>2, <2>1 DEF Stream, Place, pageVars
  <2>6. Counts'
    <3> SUFFICES ASSUME Loop, NEW q \in Pages \ Complete
                 PROVE  sent'[q] = rowsRead[q] + IF q = p THEN 1 ELSE 0
      BY <1>1, <1>2, <2>1 DEF Counts, pageVars
    <3>1. sent[q] = rowsRead[q] + 0 /\ rowsRead[q] \in Nat
      BY <2>1 DEF Stream, Counts, TypeFit, TypeOK
    <3> QED
      BY <2>2, <3>1
  <2>7. FinishedPagesAreWhole'
    <3>1. \A q \in Complete : image'[q] = image[q] /\ WholePage(q)' = WholePage(q)
      <4>1. \A q \in Complete : q \in Pages \ {p}
        BY <2>3, CompleteArePages DEF TypeFit
      <4> QED
        BY <1>1, <2>2, <4>1 DEF WholePage, job, resultVars
    <3> QED
      BY <1>2, <3>1 DEF Stream, FinishedPagesAreWhole
  <2> QED
    BY <1>2, <2>4, <2>5, <2>6, <2>7 DEF Stream
<1>5. CASE \E p \in Pages : SendEndOfPage(p)
  <2>1. PICK p \in Pages : SendEndOfPage(p)
    BY <1>5
  <2>2. /\ UNCHANGED sent /\ ended \subseteq ended' /\ ~OnWire /\ ~OnWire'
        /\ wire'.kind = "eop" /\ wire'.page \in ended' /\ wire'.page \notin ended
    BY <2>1 DEF SendEndOfPage, MaySend, OnWire, Nothing, Element
  <2> QED
    BY <1>3, <2>2
<1>6. CASE SendSlop \/ SendJobFinal
  <2>1. /\ UNCHANGED <<sent, ended>> /\ ~OnWire /\ ~OnWire' /\ wire'.kind \notin {"row", "eop"}
    BY <1>6 DEF SendSlop, SendJobFinal, MaySend, OnWire, Nothing, Element, deviceVars
  <2> QED
    BY <1>3, <2>1
<1>7. CASE LinkFails
  <2>1. CASE wire' = wire
    <3>1. UNCHANGED <<wire, sent, ended>>
      BY <1>7, <2>1 DEF LinkFails
    <3>2. WireInv' /\ Place' /\ Counts' /\ FinishedPagesAreWhole'
      BY <1>1, <1>2, <3>1 DEF Stream, WireInv, OnWire, Place, Counts, FinishedPagesAreWhole,
         WholePage, job, pageVars, resultVars
    <3> QED
      BY <1>2, <3>2 DEF Stream
  <2>2. CASE wire = Nothing /\ \E kind \in {"stub", "stub80"} : wire' = Element(kind, 0)
    <3>1. UNCHANGED <<sent, ended>> /\ ~OnWire /\ ~OnWire' /\ wire'.kind \notin {"row", "eop"}
      BY <1>7, <2>2 DEF LinkFails, OnWire, Nothing, Element
    <3> QED
      BY <1>3, <3>1
  <2>3. CASE wire = Nothing /\ \E p \in Pages \ ended : wire' = RowBlock(p, sent[p] + 1, "cut")
    <3>1. /\ UNCHANGED <<sent, ended>> /\ ~OnWire /\ ~OnWire'
          /\ wire'.kind = "row" /\ wire'.page \notin ended
      BY <1>7, <2>3 DEF LinkFails, OnWire, Nothing, Element, RowBlock
    <3> QED
      BY <1>3, <3>1
  <2> QED
    BY <1>7, <2>1, <2>2, <2>3 DEF LinkFails
<1> QED
  BY <1>4, <1>5, <1>6, <1>7 DEF Device

LEMMA ReadRowStream ==
    TypeFit /\ Stream /\ ReadRow /\ UNCHANGED <<job, deviceVars>> => Stream'
<1> SUFFICES ASSUME TypeFit, Stream, ReadRow, UNCHANGED <<job, deviceVars>> PROVE Stream'
  OBVIOUS
<1>0. PICK p \in Pages : p = wire.page
  BY DEF ReadRow, AtBoundary, TypeFit, TypeOK
<1>1. /\ pc = "boundary" /\ wire.kind = "row" /\ ~OnWire' /\ wire'.kind = "nothing"
      /\ open' = open \cup {p} /\ UNCHANGED <<adf, sent, ended, resultVars>>
      /\ pc' \in {"boundary", "flush", "done"}
  BY <1>0 DEF ReadRow, AtBoundary, PageTag, OnWire, Nothing, Element, Return, FlushAndReturn,
     job, deviceVars, resultVars
<1>2. p \notin ended /\ p \notin Complete /\ Complete' = Complete
  BY <1>0, <1>1 DEF Stream, WireInv, Place, Complete, Listed, resultVars
<1>3. WireInv'
  BY <1>1 DEF WireInv
<1>4. FinishedPagesAreWhole'
  BY <1>1, <1>2 DEF Stream, FinishedPagesAreWhole, WholePage, resultVars
<1>5. CASE UNCHANGED <<pixels, rowsRead>> /\ pc' = "done"
  <2>1. Place'
    BY <1>1, <1>2, <1>5 DEF Stream, Place
  <2>2. Counts' /\ Rows'
    BY <1>5 DEF Stream, Counts, Rows, Loop
  <2> QED
    BY <1>3, <1>4, <2>1, <2>2 DEF Stream
<1>6. CASE /\ wire.payload = "whole"
           /\ pixels' = [pixels EXCEPT ![p] = Append(@, <<p, wire.row>>)]
           /\ rowsRead' = [rowsRead EXCEPT ![p] = @ + 1]
  <2>1. /\ OnWire /\ wire.row = sent[p] /\ sent[p] = rowsRead[p] + 1
    BY <1>0, <1>1, <1>2, <1>6 DEF Stream, OnWire, WireInv, Counts, Loop
  <2>2. /\ pixels[p] \in Seq(Row) /\ Len(pixels[p]) = rowsRead[p] /\ rowsRead[p] \in Nat
        /\ <<p, sent[p]>> \in Row
    BY <1>1 DEF TypeFit, TypeOK, Fit, Loop, Row
  <2>3. /\ rowsRead'[p] = rowsRead[p] + 1
        /\ \A k \in 1 .. rowsRead[p] : pixels'[p][k] = pixels[p][k]
        /\ pixels'[p][rowsRead[p] + 1] = <<p, sent[p]>>
        /\ \A q \in Pages \ {p} : pixels'[q] = pixels[q] /\ rowsRead'[q] = rowsRead[q]
    <3>1. LET t == Append(pixels[p], <<p, sent[p]>>) IN
          /\ \A k \in 1 .. rowsRead[p] : t[k] = pixels[p][k]
          /\ t[rowsRead[p] + 1] = <<p, sent[p]>>
      BY <2>2, AppendProperties
    <3> QED
      BY <1>6, <2>1, <3>1 DEF TypeFit, TypeOK
  <2>4. Rows'
    <3>1. \A k \in 1 .. rowsRead'[p] : pixels'[p][k] = <<p, k>>
      <4>1. \A k \in 1 .. rowsRead[p] : pixels'[p][k] = <<p, k>>
        BY <2>3 DEF Stream, Rows
      <4>2. pixels'[p][rowsRead[p] + 1] = <<p, rowsRead[p] + 1>>
        BY <2>1, <2>3
      <4>3. 1 .. rowsRead'[p] = 1 .. rowsRead[p] \cup {rowsRead[p] + 1}
        BY <2>2, <2>3
      <4> QED
        BY <4>1, <4>2, <4>3
    <3>2. \A q \in Pages \ {p} : \A k \in 1 .. rowsRead'[q] : pixels'[q][k] = <<q, k>>
      BY <2>3 DEF Stream, Rows
    <3> QED
      BY <1>1, <3>1, <3>2 DEF Rows
  <2>5. Place'
    BY <1>1, <1>2, <2>3 DEF Stream, Place
  <2>6. Counts'
    <3> SUFFICES ASSUME NEW q \in Pages \ Complete PROVE sent[q] = rowsRead'[q] + 0
      BY <1>1, <1>2 DEF Counts
    <3>1. CASE q = p
      BY <2>1, <2>2, <2>3, <3>1
    <3>2. CASE q # p
      BY <1>0, <1>1, <2>3, <3>2 DEF Stream, Counts, Loop
    <3> QED
      BY <3>1, <3>2
  <2> QED
    BY <1>3, <1>4, <2>4, <2>5, <2>6 DEF Stream
<1> QED
  BY <1>0, <1>5, <1>6 DEF ReadRow, PageTag, Return

LEMMA ReadEndOfPageStream ==
    TypeFit /\ Stream /\ ReadEndOfPage /\ UNCHANGED <<job, deviceVars>> => Stream'
<1> SUFFICES ASSUME TypeFit, Stream, ReadEndOfPage, UNCHANGED <<job, deviceVars>> PROVE Stream'
  OBVIOUS
<1>0. PICK p \in Pages : p = wire.page
  BY DEF ReadEndOfPage, AtBoundary, TypeFit, TypeOK
<1>1. /\ pc = "boundary" /\ wire.kind = "eop" /\ ~OnWire /\ ~OnWire' /\ wire'.kind = "nothing"
      /\ UNCHANGED <<adf, sent, ended, open, rowsRead, resultVars>>
      /\ pc' \in {"drain", "done"}
  BY DEF ReadEndOfPage, AtBoundary, OnWire, Nothing, Element, Return, job, deviceVars, pageVars,
     resultVars
<1>2. p \in ended /\ p \notin Complete /\ Complete' = Complete
  BY <1>0, <1>1 DEF Stream, WireInv, Loop, Complete, Listed, resultVars
<1>3. WireInv'
  BY <1>1 DEF WireInv
<1>4. FinishedPagesAreWhole'
  BY <1>1, <1>2 DEF Stream, FinishedPagesAreWhole, WholePage, resultVars
<1>5. Counts'
  BY <1>1, <1>2 DEF Stream, Counts, Loop
<1>6. CASE pc' = "done" /\ UNCHANGED pixels
  BY <1>1, <1>2, <1>3, <1>4, <1>5, <1>6 DEF Stream, Place, Rows
<1>7. CASE /\ p \in open
           /\ pixels' = [pixels EXCEPT ![p] = Padded(@, EmitHeight(p) - rowsRead[p])]
           /\ cur' = p
  <2>1. Place'
    BY <1>1, <1>2, <1>7 DEF Stream, Place
  <2>2. /\ pixels[p] \in Seq(Row) /\ Len(pixels[p]) = rowsRead[p] /\ rowsRead[p] \in Nat
        /\ rowsRead[p] <= Height
    BY <1>1 DEF TypeFit, TypeOK, Fit, Loop
  <2>3. PICK n \in Nat : n = EmitHeight(p) - rowsRead[p]
    BY <2>2, EmitHeightRange DEF TypeFit
  <2>4. /\ Len(pixels'[p]) = rowsRead[p] + n
        /\ \A k \in 1 .. rowsRead[p] : pixels'[p][k] = pixels[p][k]
        /\ \A k \in rowsRead[p] + 1 .. rowsRead[p] + n : pixels'[p][k] = Pad
        /\ \A q \in Pages \ {p} : pixels'[q] = pixels[q]
    <3>1. /\ Len(Padded(pixels[p], n)) = rowsRead[p] + n
          /\ \A k \in 1 .. rowsRead[p] : Padded(pixels[p], n)[k] = pixels[p][k]
          /\ \A k \in rowsRead[p] + 1 .. rowsRead[p] + n : Padded(pixels[p], n)[k] = Pad
      BY <2>2, PadRows
    <3> QED
      BY <1>7, <2>3, <3>1 DEF TypeFit, TypeOK
  <2>5. Rows'
    BY <1>1, <1>7, <2>4 DEF Stream, Rows
  <2> QED
    BY <1>3, <1>4, <1>5, <2>1, <2>5 DEF Stream
<1> QED
  BY <1>0, <1>6, <1>7 DEF ReadEndOfPage, Return, pageVars

LEMMA DrainBandStream ==
    TypeFit /\ Stream /\ DrainBand /\ UNCHANGED <<job, deviceVars>> => Stream'
<1> SUFFICES ASSUME TypeFit, Stream, DrainBand, UNCHANGED <<job, deviceVars>> PROVE Stream'
  OBVIOUS
<1>1. /\ UNCHANGED <<wire, open, rowsRead, pixels, cur, resultVars, adf, sent, ended>>
      /\ pc = "drain" /\ pc' \in {"drain", "flush"}
  BY DEF DrainBand, FlushAndReturn, job, deviceVars
<1>2. Complete' = Complete /\ OnWire' = OnWire
  BY <1>1 DEF Complete, Listed, OnWire, resultVars
<1>3. WireInv' /\ Place' /\ Counts'
  BY <1>1, <1>2 DEF Stream, WireInv, Place, Counts, Loop
<1>4. Rows' /\ FinishedPagesAreWhole'
  BY <1>1, <1>2 DEF Stream, Rows, FinishedPagesAreWhole, WholePage, resultVars
<1> QED
  BY <1>3, <1>4 DEF Stream

LEMMA FinishPageStream ==
    TypeFit /\ Stream /\ FinishPage /\ UNCHANGED <<job, deviceVars>> => Stream'
<1> SUFFICES ASSUME TypeFit, Stream, FinishPage, UNCHANGED <<job, deviceVars>> PROVE Stream'
  OBVIOUS
<1>1. /\ pc = "drain" /\ cur \in Pages /\ cur \in open /\ cur \in ended /\ cur \notin Complete
      /\ pc' = "tail" /\ UNCHANGED <<wire, cur, adf, sent, ended>>
      /\ open' = open \ {cur}
  BY DEF FinishPage, TypeFit, TypeOK, Stream, Place, job, deviceVars
<1>2. Complete' = Complete \cup {cur} /\ OnWire' = OnWire
  BY DEF FinishPage, Complete, Listed, OnWire
<1>3. /\ pixels'[cur] = <<>> /\ rowsRead'[cur] = 0 /\ image'[cur] = pixels[cur]
      /\ \A q \in Pages \ {cur} : /\ pixels'[q] = pixels[q] /\ rowsRead'[q] = rowsRead[q]
                                  /\ image'[q] = image[q]
  BY <1>1 DEF FinishPage, TypeFit, TypeOK
<1>4. WireInv'
  BY <1>1, <1>2 DEF Stream, WireInv, OnWire, Loop
<1>5. Place'
  BY <1>1, <1>2, <1>3 DEF Stream, Place
<1>6. Counts'
  BY <1>1, <1>2, <1>3 DEF Stream, Counts, Loop
<1>7. Rows'
  BY <1>1, <1>3 DEF Stream, Rows
<1>8. sent[cur] = rowsRead[cur] /\ rowsRead[cur] \in Nat /\ rowsRead[cur] <= Height
  <2>1. ~(OnWire /\ wire.page = cur)
    BY <1>1 DEF Stream, WireInv, OnWire
  <2> QED
    <3>1. sent[cur] = rowsRead[cur] + 0 /\ rowsRead[cur] \in Nat
      BY <1>1, <2>1 DEF Stream, Counts, Loop, TypeFit, TypeOK
    <3>2. Len(pixels[cur]) \in Nat /\ rowsRead[cur] <= Len(pixels[cur]) /\ Len(pixels[cur]) <= Height
      BY <1>1, LenProperties DEF TypeFit, TypeOK, Fit
    <3> QED
      BY <3>1, <3>2, RlengthAssumption
<1>9. pixels[cur] = WholePage(cur)
  <2>1. /\ pixels[cur] = [k \in 1 .. Len(pixels[cur]) |-> pixels[cur][k]]
        /\ Len(pixels[cur]) = EmitHeight(cur)
    BY <1>1, LenProperties DEF TypeFit, TypeOK, Fit
  <2>2. EmitHeight(cur) = IF adf THEN sent[cur] ELSE Height
    BY <1>8, RlengthAssumption DEF EmitHeight
  <2>3. \A k \in 1 .. Len(pixels[cur]) :
           pixels[cur][k] = IF k <= sent[cur] THEN <<cur, k>> ELSE Pad
    <3>1. \A k \in 1 .. rowsRead[cur] : pixels[cur][k] = <<cur, k>>
      BY <1>1 DEF Stream, Rows
    <3>2. \A k \in rowsRead[cur] + 1 .. Len(pixels[cur]) : pixels[cur][k] = Pad
      BY <1>1 DEF Stream, Rows
    <3>3. \A k \in 1 .. Len(pixels[cur]) :
             \/ k <= sent[cur] /\ k \in 1 .. rowsRead[cur]
             \/ ~(k <= sent[cur]) /\ k \in rowsRead[cur] + 1 .. Len(pixels[cur])
      BY <1>8
    <3> QED
      BY <3>1, <3>2, <3>3
  <2>4. WholePage(cur) = [k \in 1 .. Len(pixels[cur]) |-> IF k <= sent[cur] THEN <<cur, k>> ELSE Pad]
    BY <2>1, <2>2 DEF WholePage
  <2>5. [k \in 1 .. Len(pixels[cur]) |-> pixels[cur][k]]
        = [k \in 1 .. Len(pixels[cur]) |-> IF k <= sent[cur] THEN <<cur, k>> ELSE Pad]
    BY <2>3
  <2> QED
    BY <2>1, <2>4, <2>5
<1>10. FinishedPagesAreWhole'
  <2>1. \A q \in Pages : WholePage(q)' = WholePage(q)
    BY <1>1 DEF WholePage
  <2>2. Complete \subseteq Pages
    BY CompleteArePages DEF TypeFit
  <2> QED
    BY <1>1, <1>2, <1>3, <1>9, <2>1, <2>2 DEF Stream, FinishedPagesAreWhole
<1> QED
  BY <1>4, <1>5, <1>6, <1>7, <1>10 DEF Stream

LEMMA FlushOneComplete == TypeOK /\ FlushOne => Complete' = Complete
<1> SUFFICES ASSUME TypeOK, FlushOne PROVE Complete' = Complete
  OBVIOUS
<1>1. PICK p \in finished : out' = Append(out, p) /\ finished' = finished \ {p}
  BY DEF FlushOne
<1>2. Listed(out') = Listed(out) \cup {p}
  BY <1>1, ListedAppend DEF TypeOK
<1> QED
  BY <1>1, <1>2 DEF Complete

LEMMA FlushOneStream ==
    TypeFit /\ Stream /\ FlushOne /\ UNCHANGED <<job, deviceVars>> => Stream'
<1> SUFFICES ASSUME TypeFit, Stream, FlushOne, UNCHANGED <<job, deviceVars>> PROVE Stream'
  OBVIOUS
<1>1. /\ UNCHANGED <<wire, open, rowsRead, pixels, cur, image, adf, sent, ended, pc>> /\ pc = "flush"
  BY DEF FlushOne, pageVars, job, deviceVars
<1>2. Complete' = Complete /\ OnWire' = OnWire
  BY <1>1, FlushOneComplete DEF OnWire, TypeFit
<1>3. WireInv' /\ Place' /\ Counts'
  BY <1>1, <1>2 DEF Stream, WireInv, Place, Counts, Loop
<1>4. Rows' /\ FinishedPagesAreWhole'
  BY <1>1, <1>2 DEF Stream, Rows, FinishedPagesAreWhole, WholePage
<1> QED
  BY <1>3, <1>4 DEF Stream

LEMMA AsideStream ==
    TypeFit /\ Stream /\ Aside /\ UNCHANGED <<job, deviceVars>> => Stream'
<1> SUFFICES ASSUME TypeFit, Stream, Aside, UNCHANGED <<job, deviceVars>> PROVE Stream'
  OBVIOUS
<1>1. /\ UNCHANGED <<open, rowsRead, pixels, cur, resultVars, adf, sent, ended>>
      /\ \/ pc \in {"boundary", "tail"} /\ pc' \in {"boundary", "flush", "done"}
         \/ pc = "flush" /\ pc' = "done"
  BY DEF Aside, LeadAtBoundary, LeadAtTail, JobFinalLead, BlockAtTail, SkipSlop,
         NothingMoreAtBoundary, ShortElementThenClosed, NothingMoreAtTail, FlushDone,
         AtBoundary, Return, FlushAndReturn, job, deviceVars, pageVars, resultVars
<1>2. \/ wire' = wire
      \/ ~OnWire /\ ~OnWire' /\ wire'.kind \notin {"row", "eop"}
  BY DEF Aside, LeadAtBoundary, LeadAtTail, JobFinalLead, BlockAtTail, SkipSlop,
         NothingMoreAtBoundary, ShortElementThenClosed, NothingMoreAtTail, FlushDone,
         AtBoundary, OnWire, Nothing, Element
<1>3. Complete' = Complete
  BY <1>1 DEF Complete, Listed, resultVars
<1>4. WireInv'
  BY <1>1, <1>2, <1>3 DEF Stream, WireInv, OnWire, Loop
<1>5. Place'
  BY <1>1, <1>3 DEF Stream, Place
<1>6. Counts'
  BY <1>1, <1>2, <1>3 DEF Stream, Counts, OnWire, Loop
<1>7. Rows' /\ FinishedPagesAreWhole'
  BY <1>1, <1>3 DEF Stream, Rows, FinishedPagesAreWhole, WholePage, resultVars
<1> QED
  BY <1>4, <1>5, <1>6, <1>7 DEF Stream

LEMMA NextStream == TypeFit /\ Stream /\ [Next]_vars => Stream'
<1> SUFFICES ASSUME TypeFit, Stream, [Next]_vars PROVE Stream'
  OBVIOUS
<1>1. CASE UNCHANGED vars
  BY <1>1 DEF Stream, WireInv, Place, Counts, Rows, FinishedPagesAreWhole, WholePage, Complete,
     Listed, OnWire, Loop, vars, job, deviceVars, pageVars, resultVars
<1>2. CASE Device
  BY <1>2, DeviceStream
<1>3. CASE Readout
  BY <1>3, ReadRowStream, ReadEndOfPageStream, DrainBandStream, FinishPageStream,
     FlushOneStream, AsideStream DEF Readout, Aside
<1> QED
  BY <1>1, <1>2, <1>3 DEF Next

\* Buffers hold their own page's rows, and what was sent has been read unless it is in flight.
THEOREM StreamHolds == Spec => []Stream
BY TypeFitHolds, InitStream, NextStream, PTL DEF Spec

\* De-interleaving, for any number of pages: a buffer holds its own page's rows in order.
THEOREM BuffersInPlace == Spec => []PixelsInPlace
<1>1. TypeFit /\ Stream => PixelsInPlace
  <2>1. ASSUME TypeFit, NEW p \in Pages PROVE Len(pixels[p]) \in rowsRead[p] .. Height
    <3>1. Len(pixels[p]) \in Nat /\ rowsRead[p] \in Nat
      BY <2>1, LenProperties DEF TypeFit, TypeOK
    <3> QED
      BY <2>1, <3>1, RlengthAssumption DEF TypeFit, Fit
  <2> QED
    BY <2>1 DEF Stream, Rows, PixelsInPlace
<1> QED
  BY TypeFitHolds, StreamHolds, <1>1, PTL

\* Every page handed back, or waiting to be, is the whole page the device sent.
THEOREM PagesAreWhole == Spec => []FinishedPagesAreWhole
<1>1. Stream => FinishedPagesAreWhole
  BY DEF Stream
<1> QED
  BY StreamHolds, <1>1, PTL

-----------------------------------------------------------------------------
(* The bands.                                                               *)

\* A page's bands are its rows up to the band cursor, and the whole page once it is complete.
Bands ==
    IF streaming
    THEN /\ \A p \in open : /\ Len(shown[p]) <= Len(pixels[p])
                            /\ shown[p] = SubSeq(pixels[p], 1, Len(shown[p]))
         /\ Loop => \A p \in open : Len(shown[p]) = bandStart[p]
         /\ \A p \in Pages \ (open \cup Complete) : shown[p] = <<>>
         /\ \A p \in Complete : shown[p] = image[p]
    ELSE \A p \in Pages : shown[p] = <<>>

LEMMA PrefixKept ==
    ASSUME NEW s \in Seq(Row), NEW t \in Seq(Row), NEW n \in Nat,
           n <= Len(s), n <= Len(t), \A k \in 1..n : t[k] = s[k]
    PROVE  SubSeq(t, 1, n) = SubSeq(s, 1, n)
<1>1. Len(s) \in Nat /\ Len(t) \in Nat
  BY LenProperties
<1>2. \A k \in 1..n : s[k] \in Row /\ t[k] \in Row
  BY <1>1, ElementOfSeq
<1>3. /\ SubSeq(s, 1, n) \in Seq(Row) /\ Len(SubSeq(s, 1, n)) = n
      /\ \A k \in 1..n : SubSeq(s, 1, n)[k] = s[k]
  BY <1>2, SubSeqProperties
<1>4. /\ SubSeq(t, 1, n) \in Seq(Row) /\ Len(SubSeq(t, 1, n)) = n
      /\ \A k \in 1..n : SubSeq(t, 1, n)[k] = t[k]
  BY <1>2, SubSeqProperties
<1> QED
  BY <1>3, <1>4, SeqEqual

LEMMA EmptyPrefix ==
    ASSUME NEW s \in Seq(Row)
    PROVE  SubSeq(s, 1, 0) = <<>>
BY SubSeqEmpty

LEMMA InitBands == Init => Bands
BY DEF Init, Bands, Complete, Listed

\* A page that is not open has nothing in its buffer.
LEMMA ClosedBuffer ==
    ASSUME TypeFit, Stream, Loop, NEW p \in Pages \ open
    PROVE  pixels[p] = <<>> /\ bandStart[p] = 0
<1>1. pixels[p] \in Seq(Row) /\ bandStart[p] \in Nat /\ rowsRead[p] = 0
  BY DEF TypeFit, TypeOK, Stream, Place
<1>2. Len(pixels[p]) = 0
  BY <1>1, LenProperties DEF TypeFit, TypeOK, Fit, Stream, Place
<1> QED
  BY <1>1, <1>2, EmptySeq DEF TypeFit, Fit

\* One band more, of n rows.
LEMMA BandExtends ==
    ASSUME NEW s \in Seq(Row), NEW a \in Nat, NEW n \in Nat, a + n <= Len(s)
    PROVE  /\ SubSeq(s, 1, a) \o SubSeq(s, a + 1, a + n) = SubSeq(s, 1, a + n)
           /\ Len(SubSeq(s, 1, a)) = a /\ Len(SubSeq(s, 1, a + n)) = a + n
           /\ SubSeq(SubSeq(s, 1, a + n), 1, a) = SubSeq(s, 1, a)
<1>0. Len(s) \in Nat
  BY LenProperties
<1>1. SubSeq(s, 1, a) \o SubSeq(s, a + 1, a + n) = SubSeq(s, 1, a + n)
  BY BandOfRows
<1>2. \A k \in 1 .. a + n : s[k] \in Row
  BY <1>0, ElementOfSeq
<1>3. /\ SubSeq(s, 1, a + n) \in Seq(Row) /\ Len(SubSeq(s, 1, a + n)) = a + n
      /\ \A k \in 1 .. a + n : SubSeq(s, 1, a + n)[k] = s[k]
  BY <1>2, SubSeqProperties
<1>4. Len(SubSeq(s, 1, a)) = a
  BY <1>2, SubSeqProperties
<1>5. SubSeq(SubSeq(s, 1, a + n), 1, a) = SubSeq(s, 1, a)
  BY <1>0, <1>3, PrefixKept
<1> QED
  BY <1>1, <1>3, <1>4, <1>5

LEMMA ReadRowBands ==
    TypeFit /\ TypeFit' /\ Stream /\ Bands /\ ReadRow /\ UNCHANGED <<job, deviceVars>> => Bands'
<1> SUFFICES ASSUME TypeFit, TypeFit', Stream, Bands, ReadRow, UNCHANGED <<job, deviceVars>>
             PROVE  Bands'
  OBVIOUS
<1>0. PICK p \in Pages : p = wire.page
  BY DEF ReadRow, AtBoundary, TypeFit, TypeOK
<1>1. /\ pc = "boundary" /\ Loop /\ wire.kind = "row" /\ open' = open \cup {p}
      /\ UNCHANGED <<streaming, finished, image, out>>
  BY <1>0 DEF ReadRow, AtBoundary, PageTag, job, resultVars, Return, Loop
<1>2. p \notin Complete /\ Complete' = Complete
  BY <1>0, <1>1 DEF Stream, WireInv, Place, Complete, Listed
<1>3. streaming => /\ Len(shown[p]) = bandStart[p] /\ Len(shown[p]) <= Len(pixels[p])
                   /\ shown[p] = SubSeq(pixels[p], 1, bandStart[p])
                   /\ bandStart[p] <= Len(pixels[p])
  <2>1. CASE p \in open
    BY <1>1, <2>1 DEF Bands, TypeFit, Fit
  <2>2. CASE p \notin open
    <3>1. pixels[p] = <<>> /\ bandStart[p] = 0
      BY <1>1, <2>2, ClosedBuffer
    <3>2. streaming => shown[p] = <<>>
      BY <1>2, <2>2 DEF Bands
    <3> QED
      BY <3>1, <3>2, EmptyPrefix DEF TypeFit, TypeOK
  <2> QED
    BY <2>1, <2>2
<1>4. CASE UNCHANGED <<pixels, rowsRead, bandStart, shown>>
  BY <1>1, <1>2, <1>3, <1>4 DEF Bands, Loop
<1>5. CASE /\ rowsRead[p] < Height
           /\ pixels' = [pixels EXCEPT ![p] = Append(@, <<p, wire.row>>)]
           /\ \/ UNCHANGED <<bandStart, shown>>
              \/ /\ streaming /\ rowsRead[p] + 1 - bandStart[p] = BandRows
                 /\ EmitBand(p, BandRows)
                 /\ \/ bandStart' = [bandStart EXCEPT ![p] = rowsRead[p] + 1]
                    \/ UNCHANGED bandStart /\ pc' = "flush"
  <2>1. /\ pixels[p] \in Seq(Row) /\ Len(pixels[p]) = rowsRead[p] /\ rowsRead[p] \in Nat
        /\ bandStart[p] \in Nat /\ <<p, wire.row>> \in Row
    BY <1>1 DEF TypeFit, TypeOK, Fit, Loop, Row, StreamElement
  <2>2. /\ pixels'[p] = Append(pixels[p], <<p, wire.row>>) /\ pixels'[p] \in Seq(Row)
        /\ Len(pixels'[p]) = rowsRead[p] + 1
        /\ \A k \in 1 .. rowsRead[p] : pixels'[p][k] = pixels[p][k]
        /\ \A q \in Pages \ {p} : pixels'[q] = pixels[q]
    <3>1. pixels'[p] = Append(pixels[p], <<p, wire.row>>)
      BY <1>5 DEF TypeFit, TypeOK
    <3>2. LET t == Append(pixels[p], <<p, wire.row>>) IN
          /\ t \in Seq(Row) /\ Len(t) = rowsRead[p] + 1
          /\ \A k \in 1 .. rowsRead[p] : t[k] = pixels[p][k]
      BY <2>1, AppendProperties
    <3>3. \A q \in Pages \ {p} : pixels'[q] = pixels[q]
      BY <1>5 DEF TypeFit, TypeOK
    <3> QED
      BY <3>1, <3>2, <3>3
  <2>3. streaming => shown[p] = SubSeq(pixels'[p], 1, bandStart[p])
    BY <1>3, <2>1, <2>2, PrefixKept
  <2>4. CASE UNCHANGED <<bandStart, shown>>
    <3>1. streaming => Len(shown[p]) <= Len(pixels'[p])
      BY <1>3, <2>1, <2>2
    <3> QED
      BY <1>1, <1>2, <1>3, <2>2, <2>3, <2>4, <3>1 DEF Bands, TypeFit, TypeOK
  <2>5. CASE /\ streaming /\ rowsRead[p] + 1 - bandStart[p] = BandRows
             /\ EmitBand(p, BandRows)
             /\ \/ bandStart' = [bandStart EXCEPT ![p] = rowsRead[p] + 1]
                \/ UNCHANGED bandStart /\ pc' = "flush"
    <3>1. BandRows \in Nat /\ bandStart[p] + BandRows = rowsRead[p] + 1
      BY <2>1, <2>5, RlengthAssumption
    <3>2. /\ shown'[p] = shown[p] \o SubSeq(pixels'[p], bandStart[p] + 1, bandStart[p] + BandRows)
          /\ \A q \in Pages \ {p} : shown'[q] = shown[q]
      BY <2>5 DEF EmitBand, TypeFit, TypeOK
    <3>3. shown'[p] = SubSeq(pixels'[p], 1, rowsRead[p] + 1) /\ Len(shown'[p]) = rowsRead[p] + 1
      <4>1. /\ SubSeq(pixels'[p], 1, bandStart[p])
               \o SubSeq(pixels'[p], bandStart[p] + 1, bandStart[p] + BandRows)
               = SubSeq(pixels'[p], 1, bandStart[p] + BandRows)
            /\ Len(SubSeq(pixels'[p], 1, bandStart[p] + BandRows)) = bandStart[p] + BandRows
        <5>1. /\ pixels'[p] \in Seq(Row) /\ bandStart[p] \in Nat /\ BandRows \in Nat
              /\ bandStart[p] + BandRows <= Len(pixels'[p])
          BY <2>1, <2>2, <3>1
        <5> QED
          BY <5>1, BandExtends
      <4> QED
        <5>1. shown'[p] = SubSeq(pixels'[p], 1, bandStart[p] + BandRows)
          BY <2>3, <2>5, <3>2, <4>1
        <5> QED
          BY <3>1, <4>1, <5>1
    <3>4. /\ (bandStart'[p] = rowsRead[p] + 1 \/ pc' = "flush")
          /\ \A q \in Pages \ {p} : bandStart'[q] = bandStart[q]
      BY <2>5 DEF TypeFit, TypeOK
    <3>5. \A q \in open' : /\ Len(shown'[q]) <= Len(pixels'[q])
                           /\ shown'[q] = SubSeq(pixels'[q], 1, Len(shown'[q]))
                           /\ Loop' => Len(shown'[q]) = bandStart'[q]
      <4>1. \A q \in open \ {p} : /\ Len(shown'[q]) <= Len(pixels'[q])
                                  /\ shown'[q] = SubSeq(pixels'[q], 1, Len(shown'[q]))
                                  /\ Len(shown'[q]) = bandStart'[q]
        BY <1>1, <2>2, <2>5, <3>2, <3>4 DEF Bands, TypeFit, TypeOK
      <4> QED
        <5>1. /\ Len(shown'[p]) <= Len(pixels'[p])
              /\ shown'[p] = SubSeq(pixels'[p], 1, Len(shown'[p]))
              /\ Loop' => Len(shown'[p]) = bandStart'[p]
          BY <2>1, <2>2, <3>3, <3>4 DEF Loop
        <5> QED
          BY <1>1, <4>1, <5>1
    <3>6. \A q \in Complete : q # p /\ q \in Pages
      BY <1>2, CompleteArePages DEF TypeFit
    <3> QED
      BY <1>1, <1>2, <2>5, <3>2, <3>5, <3>6 DEF Bands
  <2> QED
    BY <1>5, <2>4, <2>5
<1> QED
  BY <1>0, <1>4, <1>5 DEF ReadRow, PageTag, Return, FlushAndReturn

LEMMA ReadEndOfPageBands ==
    TypeFit /\ Stream /\ Bands /\ ReadEndOfPage /\ UNCHANGED <<job, deviceVars>> => Bands'
<1> SUFFICES ASSUME TypeFit, Stream, Bands, ReadEndOfPage, UNCHANGED <<job, deviceVars>>
             PROVE  Bands'
  OBVIOUS
<1>0. PICK p \in Pages : p = wire.page
  BY DEF ReadEndOfPage, AtBoundary, TypeFit, TypeOK
<1>1. /\ pc = "boundary" /\ Loop
      /\ UNCHANGED <<streaming, finished, image, out, shown, open, bandStart>>
      /\ Complete' = Complete
  BY DEF ReadEndOfPage, AtBoundary, job, resultVars, pageVars, Return, Loop, Complete, Listed
<1>2. CASE UNCHANGED pixels
  BY <1>1, <1>2 DEF Bands
<1>3. CASE pixels' = [pixels EXCEPT ![p] = Padded(@, EmitHeight(p) - rowsRead[p])]
  <2>1. /\ pixels[p] \in Seq(Row) /\ Len(pixels[p]) = rowsRead[p] /\ rowsRead[p] \in Nat
        /\ bandStart[p] \in Nat /\ bandStart[p] <= rowsRead[p] /\ rowsRead[p] <= Height
    BY <1>1 DEF TypeFit, TypeOK, Fit, Loop
  <2>2. PICK n \in Nat : n = EmitHeight(p) - rowsRead[p]
    BY <2>1, EmitHeightRange DEF TypeFit
  <2>3. /\ pixels'[p] = Padded(pixels[p], n)
        /\ \A q \in Pages \ {p} : pixels'[q] = pixels[q]
    BY <1>3, <2>2 DEF TypeFit, TypeOK
  <2>4. /\ pixels'[p] \in Seq(Row) /\ Len(pixels'[p]) = rowsRead[p] + n
        /\ \A k \in 1 .. rowsRead[p] : pixels'[p][k] = pixels[p][k]
    <3>1. /\ Padded(pixels[p], n) \in Seq(Row) /\ Len(Padded(pixels[p], n)) = Len(pixels[p]) + n
          /\ \A k \in 1 .. Len(pixels[p]) : Padded(pixels[p], n)[k] = pixels[p][k]
      BY <2>1, PadRows
    <3> QED
      BY <2>1, <2>3, <3>1
  <2>5. bandStart[p] <= Len(pixels'[p]) /\ \A k \in 1 .. bandStart[p] : pixels'[p][k] = pixels[p][k]
    <3>1. bandStart[p] <= Len(pixels'[p])
      BY <2>1, <2>4
    <3>2. \A k \in 1 .. bandStart[p] : k \in 1 .. rowsRead[p]
      BY <2>1
    <3> QED
      BY <2>4, <3>1, <3>2
  <2>6. SubSeq(pixels'[p], 1, bandStart[p]) = SubSeq(pixels[p], 1, bandStart[p])
    BY <2>1, <2>4, <2>5, PrefixKept
  <2> QED
    BY <1>1, <2>3, <2>5, <2>6 DEF Bands, TypeFit, TypeOK
<1> QED
  BY <1>0, <1>2, <1>3 DEF ReadEndOfPage, pageVars

LEMMA DrainBandBands ==
    TypeFit /\ Stream /\ Bands /\ DrainBand /\ UNCHANGED <<job, deviceVars>> => Bands'
<1> SUFFICES ASSUME TypeFit, Stream, Bands, DrainBand, UNCHANGED <<job, deviceVars>>
             PROVE  Bands'
  OBVIOUS
<1>0. PICK n \in Nat : /\ n = LeastOf(BandRows, EmitHeight(cur) - bandStart[cur])
                       /\ bandStart[cur] + n <= EmitHeight(cur)
  BY DrainBandStep
<1>1. /\ pc = "drain" /\ Loop /\ cur \in open /\ cur \in Pages /\ streaming
      /\ Len(pixels[cur]) = EmitHeight(cur)
      /\ UNCHANGED <<streaming, pixels, open, cur, resultVars>>
      /\ EmitBand(cur, n)
      /\ \/ bandStart' = [bandStart EXCEPT ![cur] = @ + n]
         \/ UNCHANGED bandStart /\ pc' = "flush"
  BY <1>0 DEF DrainBand, DrainDue, FlushAndReturn, Loop, TypeFit, TypeOK, Fit, Stream, Place, job
<1>2. cur \notin Complete /\ Complete' = Complete
  BY <1>1 DEF Stream, Place, Complete, Listed, resultVars
<1>3. /\ pixels[cur] \in Seq(Row) /\ bandStart[cur] \in Nat
      /\ shown[cur] = SubSeq(pixels[cur], 1, bandStart[cur])
  BY <1>1 DEF TypeFit, TypeOK, Bands
<1>4. /\ shown'[cur] = shown[cur] \o SubSeq(pixels[cur], bandStart[cur] + 1, bandStart[cur] + n)
      /\ \A q \in Pages \ {cur} : shown'[q] = shown[q]
  BY <1>1 DEF EmitBand, TypeFit, TypeOK
<1>5. /\ shown'[cur] = SubSeq(pixels[cur], 1, bandStart[cur] + n)
      /\ Len(shown'[cur]) = bandStart[cur] + n
  <2>1. /\ SubSeq(pixels[cur], 1, bandStart[cur])
           \o SubSeq(pixels[cur], bandStart[cur] + 1, bandStart[cur] + n)
           = SubSeq(pixels[cur], 1, bandStart[cur] + n)
        /\ Len(SubSeq(pixels[cur], 1, bandStart[cur] + n)) = bandStart[cur] + n
    BY <1>0, <1>1, <1>3, BandExtends
  <2> QED
    BY <1>3, <1>4, <2>1
<1>6. /\ bandStart'[cur] = bandStart[cur] + n \/ pc' = "flush"
      /\ \A q \in Pages \ {cur} : bandStart'[q] = bandStart[q]
  BY <1>1 DEF TypeFit, TypeOK
<1>7. \A q \in open : /\ Len(shown'[q]) <= Len(pixels[q])
                      /\ shown'[q] = SubSeq(pixels[q], 1, Len(shown'[q]))
                      /\ Loop' => Len(shown'[q]) = bandStart'[q]
  <2>1. \A q \in open \ {cur} : /\ Len(shown'[q]) <= Len(pixels[q])
                                /\ shown'[q] = SubSeq(pixels[q], 1, Len(shown'[q]))
                                /\ Len(shown'[q]) = bandStart'[q]
    BY <1>1, <1>4, <1>6 DEF Bands, TypeFit, TypeOK
  <2> QED
    BY <1>0, <1>1, <1>5, <1>6, <2>1 DEF Loop
<1>8. \A q \in Complete : q # cur /\ q \in Pages
  BY <1>2, CompleteArePages DEF TypeFit
<1> QED
  BY <1>1, <1>2, <1>4, <1>7, <1>8 DEF Bands, resultVars

LEMMA FinishPageBands ==
    TypeFit /\ Stream /\ Bands /\ FinishPage /\ UNCHANGED <<job, deviceVars>> => Bands'
<1> SUFFICES ASSUME TypeFit, Stream, Bands, FinishPage, UNCHANGED <<job, deviceVars>>
             PROVE  Bands'
  OBVIOUS
<1>1. /\ pc = "drain" /\ Loop /\ cur \in Pages /\ cur \in open
      /\ UNCHANGED <<streaming, shown>> /\ open' = open \ {cur} /\ ~DrainDue
  BY DEF FinishPage, TypeFit, TypeOK, Loop, Stream, Place, job
<1>2. Complete' = Complete \cup {cur} /\ cur \notin Complete /\ Complete \subseteq Pages
  BY <1>1, CompleteArePages DEF FinishPage, Complete, Stream, Place, TypeFit
<1>3. /\ image'[cur] = pixels[cur]
      /\ \A q \in Pages \ {cur} : /\ pixels'[q] = pixels[q] /\ bandStart'[q] = bandStart[q]
                                  /\ image'[q] = image[q]
  BY <1>1 DEF FinishPage, TypeFit, TypeOK
<1>4. streaming => shown[cur] = pixels[cur]
  <2>1. /\ pixels[cur] \in Seq(Row) /\ Len(pixels[cur]) = EmitHeight(cur) /\ Len(pixels[cur]) \in Nat
        /\ bandStart[cur] \in Nat /\ bandStart[cur] <= Len(pixels[cur])
    BY <1>1, LenProperties DEF TypeFit, TypeOK, Fit
  <2>2. streaming => bandStart[cur] = Len(pixels[cur])
    BY <1>1, <2>1 DEF DrainDue
  <2> QED
    BY <1>1, <2>1, <2>2, SubSeqFull DEF Bands
<1>5. CASE streaming
  <2>1. \A q \in open' : q \in Pages \ {cur}
    BY <1>1 DEF TypeFit, TypeOK
  <2>2. \A q \in open' : /\ Len(shown[q]) <= Len(pixels'[q])
                         /\ shown[q] = SubSeq(pixels'[q], 1, Len(shown[q]))
                         /\ Len(shown[q]) = bandStart'[q]
    BY <1>1, <1>3, <1>5, <2>1 DEF Bands
  <2> QED
    BY <1>1, <1>2, <1>3, <1>4, <1>5, <2>2 DEF Bands
<1>6. CASE ~streaming
  BY <1>1, <1>6 DEF Bands
<1> QED
  BY <1>5, <1>6

LEMMA NextBands == TypeFit /\ TypeFit' /\ Stream /\ Bands /\ [Next]_vars => Bands'
<1> SUFFICES ASSUME TypeFit, TypeFit', Stream, Bands, [Next]_vars PROVE Bands'
  OBVIOUS
<1>1. CASE UNCHANGED vars
  BY <1>1 DEF Bands, Complete, Listed, Loop, vars, job, pageVars, resultVars
<1>2. CASE Device
  BY <1>2 DEF Device, Bands, Complete, Listed, Loop, job, pageVars, resultVars
<1>3. CASE FlushOne /\ UNCHANGED <<job, deviceVars>>
  BY <1>3, FlushOneComplete DEF FlushOne, Bands, Loop, job, pageVars, TypeFit
<1>4. CASE Aside /\ UNCHANGED <<job, deviceVars>>
  <2>1. /\ UNCHANGED <<streaming, pageVars, resultVars, shown>>
        /\ \/ pc \in {"boundary", "tail"}
           \/ pc = "flush" /\ pc' = "done"
    BY <1>4 DEF Aside, LeadAtBoundary, LeadAtTail, JobFinalLead, BlockAtTail, SkipSlop,
         NothingMoreAtBoundary, ShortElementThenClosed, NothingMoreAtTail, FlushDone,
         AtBoundary, Return, FlushAndReturn, job, pageVars, resultVars
  <2> QED
    BY <2>1 DEF Bands, Complete, Listed, Loop, pageVars, resultVars
<1> QED
  BY <1>1, <1>2, <1>3, <1>4, ReadRowBands, ReadEndOfPageBands, DrainBandBands, FinishPageBands
     DEF Next, Readout, Aside

\* What was shown of an open page is its buffer up to the band cursor.
THEOREM BandsHold == Spec => []Bands
BY TypeFitHolds, StreamHolds, InitBands, NextBands, PTL DEF Spec

\* The ScanBand contract, for any band size: the bands of a page, concatenated, are the page.
THEOREM BandsAreThePage == Spec => []BandsReproducePage
<1>1. Bands => BandsReproducePage
  BY DEF Bands, BandsReproducePage
<1> QED
  BY BandsHold, <1>1, PTL

-----------------------------------------------------------------------------
(* The results.                                                             *)

Order == DocumentOrder /\ (Loop => out = <<>>)

LEMMA NextOrder == TypeFit /\ Order /\ [Next]_vars => Order'
<1> SUFFICES ASSUME TypeFit, Order, [Next]_vars PROVE Order'
  OBVIOUS
<1>1. CASE UNCHANGED <<out, finished>> /\ (Loop' => Loop)
  BY <1>1 DEF Order, DocumentOrder
<1>2. CASE FinishPage
  BY <1>2 DEF FinishPage, Order, DocumentOrder, Loop
<1>3. CASE FlushOne
  <2>1. PICK p \in finished : /\ \A q \in finished : p <= q
                              /\ out' = Append(out, p) /\ finished' = finished \ {p}
    BY <1>3 DEF FlushOne
  <2>2. /\ out \in Seq(Pages) /\ p \in Pages /\ finished \subseteq Pages /\ ~Loop'
    BY <1>3 DEF TypeFit, TypeOK, FlushOne, Loop
  <2>3. /\ Len(out) \in Nat /\ DOMAIN out = 1 .. Len(out) /\ DOMAIN out' = 1 .. Len(out) + 1
        /\ \A i \in 1 .. Len(out) : out'[i] = out[i] /\ out[i] \in Pages
        /\ out'[Len(out) + 1] = p
    <3>1. LET t == Append(out, p) IN
          /\ t \in Seq(Pages) /\ Len(t) = Len(out) + 1 /\ t[Len(out) + 1] = p
          /\ \A i \in 1 .. Len(out) : t[i] = out[i]
      BY <2>2, AppendProperties
    <3>2. /\ Len(out) \in Nat /\ DOMAIN out = 1 .. Len(out)
          /\ \A i \in 1 .. Len(out) : out[i] \in Pages
      BY <2>2, ElementOfSeq, LenProperties
    <3>3. DOMAIN out' = 1 .. Len(out) + 1
      BY <2>1, <3>1, LenProperties
    <3> QED
      BY <2>1, <3>1, <3>2, <3>3
  <2>4. \A i \in 1 .. Len(out) : out[i] < p
    BY <2>1, <2>3 DEF Order, DocumentOrder
  <2>5. \A i, j \in DOMAIN out' : i < j => out'[i] < out'[j]
    <3> SUFFICES ASSUME NEW i \in 1 .. Len(out) + 1, NEW j \in 1 .. Len(out) + 1, i < j
                 PROVE  out'[i] < out'[j]
      BY <2>3
    <3>1. CASE j = Len(out) + 1
      BY <2>3, <2>4, <3>1
    <3>2. CASE j # Len(out) + 1
      <4>1. i \in 1 .. Len(out) /\ j \in 1 .. Len(out)
        BY <2>3, <3>2
      <4> QED
        BY <2>3, <4>1 DEF Order, DocumentOrder
    <3> QED
      BY <3>1, <3>2
  <2>6. \A i \in DOMAIN out' : \A q \in finished' : out'[i] < q
    <3> SUFFICES ASSUME NEW i \in 1 .. Len(out) + 1, NEW q \in finished, q # p
                 PROVE  out'[i] < q
      BY <2>1, <2>3
    <3>1. p \in Nat /\ q \in Nat /\ p <= q
      BY <2>1, <2>2, RlengthAssumption
    <3>2. CASE i = Len(out) + 1
      BY <2>3, <3>1, <3>2
    <3>3. CASE i # Len(out) + 1
      <4>1. i \in 1 .. Len(out)
        BY <2>3, <3>3
      <4> QED
        BY <2>3, <4>1 DEF Order, DocumentOrder
    <3> QED
      BY <3>2, <3>3
  <2> QED
    BY <2>2, <2>5, <2>6 DEF Order, DocumentOrder
<1>4. CASE Device \/ UNCHANGED vars
  BY <1>1, <1>4 DEF Device, Loop, vars, resultVars
<1>5. CASE ReadRow \/ ReadEndOfPage \/ DrainBand
  <2>1. UNCHANGED <<out, finished>>
    BY <1>5 DEF ReadRow, ReadEndOfPage, DrainBand, Return, resultVars
  <2>2. Loop
    BY <1>5 DEF ReadRow, ReadEndOfPage, DrainBand, AtBoundary, Loop
  <2> QED
    BY <1>1, <2>1, <2>2
<1>6. CASE Aside
  <2>1. UNCHANGED <<out, finished>>
    BY <1>6 DEF Aside, LeadAtBoundary, LeadAtTail, JobFinalLead, BlockAtTail, SkipSlop,
         NothingMoreAtBoundary, ShortElementThenClosed, NothingMoreAtTail, FlushDone, Return,
         resultVars
  <2>2. Loop \/ pc' = "done"
    BY <1>6 DEF Aside, LeadAtBoundary, LeadAtTail, JobFinalLead, BlockAtTail, SkipSlop,
         NothingMoreAtBoundary, ShortElementThenClosed, NothingMoreAtTail, FlushDone,
         AtBoundary, Loop
  <2> QED
    BY <1>1, <2>1, <2>2 DEF Loop
<1> QED
  BY <1>2, <1>3, <1>4, <1>5, <1>6 DEF Next, Readout, Aside

\* Nothing is in out before the flush, and the flush goes upward.
THEOREM OrderHolds == Spec => []Order
<1>1. Init => Order
  BY DEF Init, Order, DocumentOrder
<1> QED
  BY TypeFitHolds, <1>1, NextOrder, PTL DEF Spec

\* Results come out by page index, each once, whatever order the pages completed in.
THEOREM ResultsInDocumentOrder == Spec => []DocumentOrder
<1>1. Order => DocumentOrder
  BY DEF Order
<1> QED
  BY OrderHolds, <1>1, PTL

-----------------------------------------------------------------------------
(* What the call returns.                                                   *)

\* The status is decided when the loop is left, and only a flush answers kOk or kCancelled.
Answer ==
    /\ Loop <=> status = "running"
    /\ pc = "flush" => status \in {"ok", "cancelled"}
    /\ pc = "done" /\ status \in {"ok", "cancelled"} => finished = {}
    /\ status = "ok" => open = {}
    /\ Loop => \A p \in open : rowsRead[p] > 0

LEMMA NextAnswer == TypeFit /\ Stream /\ Answer /\ [Next]_vars => Answer'
<1> SUFFICES ASSUME TypeFit, Stream, Answer, [Next]_vars PROVE Answer'
  OBVIOUS
<1>1. CASE Device \/ UNCHANGED vars
  BY <1>1 DEF Device, vars, Answer, Loop, pageVars, resultVars
<1>2. CASE ReadRow
  <2>1. PICK p \in Pages : p = wire.page
    BY <1>2 DEF ReadRow, AtBoundary, TypeFit, TypeOK
  <2>2. /\ pc = "boundary" /\ status = "running" /\ open' = open \cup {p}
    BY <1>2, <2>1 DEF ReadRow, AtBoundary, PageTag, Answer, Loop
  <2>3. \/ pc' = "done" /\ status' \in {"protocol", "timeout", "io"}
        \/ rowsRead' = [rowsRead EXCEPT ![p] = @ + 1] /\ \/ pc' = "boundary" /\ status' = "running"
                                                         \/ pc' = "flush" /\ status' = "cancelled"
    BY <1>2, <2>1, <2>2 DEF ReadRow, PageTag, Return, FlushAndReturn, LinkError
  <2>4. rowsRead \in [Pages -> Nat]
    BY DEF TypeFit, TypeOK
  <2>5. CASE pc' = "done"
    BY <2>2, <2>3, <2>5 DEF Answer, Loop
  <2>6. CASE pc' # "done"
    <3>1. /\ rowsRead'[p] = rowsRead[p] + 1 /\ rowsRead[p] \in Nat
          /\ \A q \in Pages \ {p} : rowsRead'[q] = rowsRead[q]
      BY <2>3, <2>4, <2>6
    <3>2. \A q \in open \ {p} : q \in Pages /\ rowsRead[q] > 0
      BY <2>2 DEF Answer, Loop, TypeFit, TypeOK
    <3>3. \A q \in open' : rowsRead'[q] > 0
      BY <2>2, <3>1, <3>2
    <3> QED
      BY <2>2, <2>3, <2>6, <3>3 DEF Answer, Loop
  <2> QED
    BY <2>5, <2>6
<1>3. CASE ReadEndOfPage \/ DrainBand
  <2>1. /\ pc \in {"boundary", "drain"} /\ status = "running" /\ UNCHANGED <<open, rowsRead>>
        /\ \/ pc' = "done" /\ status' = "protocol"
           \/ pc' = "drain" /\ status' = "running"
           \/ pc' = "flush" /\ status' = "cancelled"
    BY <1>3 DEF ReadEndOfPage, DrainBand, AtBoundary, Return, FlushAndReturn, Answer, Loop, pageVars
  <2> QED
    BY <2>1 DEF Answer, Loop
<1>4. CASE FinishPage
  <2>1. /\ pc = "drain" /\ pc' = "tail" /\ status = "running" /\ UNCHANGED status
        /\ open' = open \ {cur} /\ \A q \in Pages \ {cur} : rowsRead'[q] = rowsRead[q]
    BY <1>4 DEF FinishPage, Answer, Loop, TypeFit, TypeOK
  <2>2. \A q \in open' : q \in Pages \ {cur} /\ q \in open
    BY <2>1 DEF TypeFit, TypeOK
  <2> QED
    BY <2>1, <2>2 DEF Answer, Loop
<1>5. CASE FlushOne
  BY <1>5 DEF FlushOne, Answer, Loop, pageVars
<1>6. CASE Aside
  <2>1. UNCHANGED <<open, rowsRead>>
    BY <1>6 DEF Aside, LeadAtBoundary, LeadAtTail, JobFinalLead, BlockAtTail, SkipSlop,
         NothingMoreAtBoundary, ShortElementThenClosed, NothingMoreAtTail, FlushDone, pageVars
  <2>2. \/ Loop /\ Loop' /\ UNCHANGED status
        \/ Loop /\ pc' = "done" /\ status' \in {"timeout", "io", "protocol"}
        \/ Loop /\ pc' = "flush" /\ status' = "ok" /\ open = {}
        \/ pc = "flush" /\ pc' = "done" /\ UNCHANGED <<status, finished>> /\ finished = {}
    BY <1>6 DEF Aside, LeadAtBoundary, LeadAtTail, JobFinalLead, BlockAtTail, SkipSlop,
         NothingMoreAtBoundary, ShortElementThenClosed, NothingMoreAtTail, FlushDone,
         AtBoundary, Return, FlushAndReturn, LinkError, Loop, resultVars
  <2> QED
    BY <2>1, <2>2 DEF Answer, Loop
<1> QED
  BY <1>1, <1>2, <1>3, <1>4, <1>5, <1>6 DEF Next, Readout, Aside

\* A status other than "running" is set only on the way out, kOk only with no page open.
THEOREM AnswerHolds == Spec => []Answer
<1>1. Init => Answer
  BY DEF Init, Answer, Loop
<1> QED
  BY TypeFitHolds, StreamHolds, <1>1, NextAnswer, PTL DEF Spec

\* With no stray 0x80 in the stream, the job-final byte is the device's own.
WholeJob ==
    /\ wire.kind \notin {"x80", "stub80"}
    /\ wire.kind = "final" => jobFinal
    /\ status = "ok" => jobFinal /\ Begun \subseteq Complete

LEMMA NextWholeJob ==
    Lead80 = FALSE /\ TypeFit /\ Stream /\ Answer /\ WholeJob /\ [Next]_vars => WholeJob'
<1> SUFFICES ASSUME Lead80 = FALSE, TypeFit, Stream, Answer, WholeJob, [Next]_vars PROVE WholeJob'
  OBVIOUS
<1>1. CASE UNCHANGED vars
  BY <1>1 DEF vars, WholeJob, Begun, Complete, Listed, deviceVars, resultVars
<1>2. CASE Device
  <2>1. UNCHANGED status /\ Complete' = Complete
    BY <1>2 DEF Device, Complete, Listed, resultVars
  <2>2. /\ wire'.kind \notin {"x80", "stub80"}
        /\ wire'.kind = "final" => jobFinal'
        /\ jobFinal => jobFinal' /\ UNCHANGED sent
    BY <1>2 DEF Device, SendRow, SendEndOfPage, SendSlop, SendJobFinal, LinkFails, MaySend,
       RowBlock, Element, Nothing, WholeJob, deviceVars
  <2> QED
    BY <2>1, <2>2 DEF WholeJob, Begun
<1>3. CASE Readout
  <2>1. UNCHANGED <<sent, jobFinal>>
    BY <1>3 DEF Readout, deviceVars
  <2>2. wire' = wire \/ wire'.kind = "nothing"
    BY <1>3 DEF Readout, ReadRow, ReadEndOfPage, DrainBand, FinishPage, LeadAtBoundary, LeadAtTail,
       JobFinalLead, BlockAtTail, SkipSlop, NothingMoreAtBoundary, ShortElementThenClosed,
       NothingMoreAtTail, FlushOne, FlushDone, WholeJob, Nothing, Element
  <2>3. ASSUME status' = "ok" PROVE jobFinal /\ Begun \subseteq Complete'
    <3>1. CASE status = "ok"
      <4>1. ~Loop
        BY <3>1 DEF Answer
      <4>2. Complete' = Complete
        BY <1>3, <4>1, FlushOneComplete DEF Readout, ReadRow, ReadEndOfPage, DrainBand, FinishPage,
           LeadAtBoundary, LeadAtTail, BlockAtTail, SkipSlop, NothingMoreAtBoundary, AtBoundary,
           ShortElementThenClosed, NothingMoreAtTail, FlushDone, Complete, Listed, resultVars,
           Loop, TypeFit
      <4> QED
        BY <3>1, <4>2 DEF WholeJob
    <3>2. CASE status # "ok"
      <4>1. /\ Loop /\ wire.kind \in {"final", "x80"} /\ open = {} /\ UNCHANGED resultVars
        BY <1>3, <2>3, <3>2 DEF Readout, ReadRow, ReadEndOfPage, DrainBand, FinishPage,
           LeadAtBoundary, LeadAtTail, JobFinalLead, BlockAtTail, SkipSlop, NothingMoreAtBoundary,
           ShortElementThenClosed, NothingMoreAtTail, FlushOne, FlushDone, AtBoundary, Return,
           FlushAndReturn, LinkError, Loop
      <4>2. jobFinal /\ ~OnWire
        BY <4>1 DEF WholeJob, OnWire
      <4>3. \A p \in Pages \ Complete : sent[p] = 0
        <5>1. \A p \in Pages \ Complete : sent[p] = rowsRead[p] + 0 /\ rowsRead[p] = 0
          BY <4>1, <4>2 DEF Stream, Counts, Place
        <5> QED
          BY <5>1
      <4> QED
        BY <4>1, <4>2, <4>3 DEF Begun, Complete, Listed, resultVars
    <3> QED
      BY <3>1, <3>2
  <2> QED
    BY <2>1, <2>2, <2>3 DEF WholeJob, Begun
<1> QED
  BY <1>1, <1>2, <1>3 DEF Next

\* kOk is a whole job: where no stray or cut-off byte can be 0x80, the device has sent its
\* job-final byte and every page it began is in the results.
THEOREM OkMeansWholeJob == Lead80 = FALSE => (Spec => []OkIsWholeJob)
<1> SUFFICES ASSUME Lead80 = FALSE PROVE Spec => []OkIsWholeJob
  OBVIOUS
<1>1. Init => WholeJob
  BY DEF Init, WholeJob, Nothing, Element
<1>2. TypeFit /\ Stream /\ Answer /\ WholeJob /\ [Next]_vars => WholeJob'
  BY NextWholeJob
<1>3. Answer /\ WholeJob => OkIsWholeJob
  BY DEF Answer, WholeJob, OkIsWholeJob, Complete
<1> QED
  BY TypeFitHolds, StreamHolds, AnswerHolds, <1>1, <1>2, <1>3, PTL DEF Spec

-----------------------------------------------------------------------------
(* A device that keeps to the framing.                                      *)

\* What such a device has sent, and that nothing but its marker is missing of a page it ended.
Framed ==
    Loop =>
        /\ \A p \in ended \ Complete : \/ wire.kind = "eop" /\ wire.page = p
                                       \/ pc = "drain" /\ cur = p
        /\ sound =>
              /\ \A p \in Pages : sent[p] <= Height
              /\ ended \subseteq Begun
              /\ wire.kind = "final" => Begun \subseteq ended
              /\ link = "up" => /\ wire.kind \notin {"stub", "stub80"}
                                /\ wire.kind = "row" => wire.payload = "whole"
                                /\ wire.kind = "slop" => slop < MaxSlop

\* The device's steps.
LEMMA DeviceFramed == TypeFit /\ Framed /\ Device => Framed'
<1> SUFFICES ASSUME TypeFit, Framed, Device, Loop PROVE Framed'
  BY DEF Framed, Device, Loop
<1>1. /\ UNCHANGED <<sound, pc, slop, cur>> /\ Complete' = Complete
  BY DEF Device, job, resultVars, Complete, Listed
<1>2. sent \in [Pages -> Nat] /\ ended \subseteq Pages /\ Height \in Nat
  BY RlengthAssumption DEF TypeFit, TypeOK
<1>3. /\ \A p \in ended \ Complete : (wire.kind = "eop" /\ wire.page = p) \/ (pc = "drain" /\ cur = p)
      /\ sound => /\ \A p \in Pages : sent[p] <= Height
                  /\ ended \subseteq Begun
                  /\ wire.kind = "final" => Begun \subseteq ended
                  /\ link = "up" => /\ wire.kind \notin {"stub", "stub80"}
                                    /\ wire.kind = "row" => wire.payload = "whole"
                                    /\ wire.kind = "slop" => slop < MaxSlop
  BY DEF Framed
<1>4. wire = Nothing => wire.kind = "nothing"
  BY DEF Nothing, Element
<1>5. ASSUME NEW p \in Pages, SendRow(p) PROVE Framed'
  <2>1. PICK payload : /\ wire' = RowBlock(p, sent[p] + 1, payload) /\ (sound => payload = "whole")
    BY <1>5 DEF SendRow
  <2>2. wire'.kind = "row" /\ (sound => wire'.payload = "whole")
    BY <2>1 DEF RowBlock
  <2>3. /\ wire = Nothing /\ UNCHANGED <<ended, link>> /\ p \notin ended
        /\ sent' = [sent EXCEPT ![p] = @ + 1] /\ (sound => sent[p] < Height)
    BY <1>5 DEF SendRow, MaySend
  <2>4. sent'[p] = sent[p] + 1 /\ sent[p] \in Nat /\ \A q \in Pages \ {p} : sent'[q] = sent[q]
    BY <1>2, <2>3
  <2>5. sound => \A q \in Pages : sent'[q] <= Height
    BY <1>2, <1>3, <2>3, <2>4
  <2>6. Begun \subseteq Begun'
    BY <1>2, <2>4 DEF Begun
  <2> QED
    BY <1>1, <1>3, <1>4, <2>2, <2>3, <2>5, <2>6 DEF Framed
<1>6. ASSUME NEW p \in Pages, SendEndOfPage(p) PROVE Framed'
  <2>1. /\ wire = Nothing /\ wire' = Element("eop", p) /\ ended' = ended \cup {p}
        /\ UNCHANGED <<sent, link>> /\ (sound => p \in Begun)
    BY <1>6 DEF SendEndOfPage, MaySend
  <2>2. wire'.kind = "eop" /\ wire'.page = p
    BY <2>1 DEF Element
  <2>3. Begun' = Begun
    BY <2>1 DEF Begun
  <2> QED
    BY <1>1, <1>3, <1>4, <2>1, <2>2, <2>3 DEF Framed
<1>7. CASE SendSlop
  <2>1. /\ wire = Nothing /\ UNCHANGED <<sent, ended, link>> /\ (sound => slop < MaxSlop)
        /\ \E kind \in {"slop", "x80"} : wire' = Element(kind, 0)
    BY <1>7 DEF SendSlop, MaySend, deviceVars
  <2>2. wire'.kind \in {"slop", "x80"}
    BY <2>1 DEF Element
  <2>3. Begun' = Begun
    BY <2>1 DEF Begun
  <2> QED
    BY <1>1, <1>3, <1>4, <2>1, <2>2, <2>3 DEF Framed
<1>8. CASE SendJobFinal
  <2>1. /\ wire = Nothing /\ UNCHANGED <<sent, ended, link>> /\ wire' = Element("final", 0)
        /\ (sound => Begun = ended)
    BY <1>8 DEF SendJobFinal, MaySend
  <2>2. wire'.kind = "final"
    BY <2>1 DEF Element
  <2>3. Begun' = Begun
    BY <2>1 DEF Begun
  <2> QED
    BY <1>1, <1>3, <1>4, <2>1, <2>2, <2>3 DEF Framed
<1>9. CASE LinkFails
  <2>1. UNCHANGED <<sent, ended>> /\ link' # "up"
    BY <1>9 DEF LinkFails
  <2>2. wire' = wire \/ (wire = Nothing /\ wire'.kind \in {"stub", "stub80", "row"})
    <3>1. \/ wire' = wire
          \/ /\ wire = Nothing
             /\ \/ \E kind \in {"stub", "stub80"} : wire' = Element(kind, 0)
                \/ \E p \in Pages : wire' = RowBlock(p, sent[p] + 1, "cut")
      BY <1>9 DEF LinkFails
    <3> QED
      BY <3>1 DEF Element, RowBlock
  <2>3. Begun' = Begun
    BY <2>1 DEF Begun
  <2> QED
    BY <1>1, <1>3, <1>4, <2>1, <2>2, <2>3 DEF Framed
<1> QED
  BY <1>5, <1>6, <1>7, <1>8, <1>9 DEF Device

\* The readout's steps.
LEMMA ReadoutFramed == TypeFit /\ Framed /\ Readout => Framed'
<1> SUFFICES ASSUME TypeFit, Framed, Readout, Loop, Loop' PROVE Framed'
  <2>1. ASSUME Readout, ~Loop PROVE ~Loop'
    <3>1. FlushOne \/ FlushDone
      BY <2>1 DEF Readout, ReadRow, ReadEndOfPage, DrainBand, FinishPage, LeadAtBoundary,
         LeadAtTail, BlockAtTail, SkipSlop, NothingMoreAtBoundary, ShortElementThenClosed,
         NothingMoreAtTail, AtBoundary, Loop
    <3> QED
      BY <3>1 DEF FlushOne, FlushDone, Loop
  <2> QED
    BY <2>1 DEF Framed
<1>1. UNCHANGED <<sound, sent, ended, link>> /\ Begun' = Begun
  BY DEF Readout, job, deviceVars, Begun
<1>2. \/ wire' = wire /\ UNCHANGED slop
      \/ wire'.kind = "nothing"
      \/ wire.kind = "stub80" /\ wire'.kind = "x80"
  BY DEF Readout, ReadRow, ReadEndOfPage, DrainBand, FinishPage, LeadAtBoundary, LeadAtTail,
     JobFinalLead, BlockAtTail, SkipSlop, NothingMoreAtBoundary, ShortElementThenClosed,
     NothingMoreAtTail, FlushOne, FlushDone, Nothing, Element, Return, Loop
<1>3. \A p \in ended \ Complete' : \/ wire'.kind = "eop" /\ wire'.page = p
                                   \/ pc' = "drain" /\ cur' = p
  <2>0. \A p \in ended \ Complete : (wire.kind = "eop" /\ wire.page = p) \/ (pc = "drain" /\ cur = p)
    BY DEF Framed
  <2>1. CASE ReadEndOfPage
    <3>1. pc = "boundary" /\ pc' = "drain" /\ cur' = wire.page /\ UNCHANGED resultVars
      BY <2>1 DEF ReadEndOfPage, AtBoundary, Return, Loop, resultVars
    <3>2. Complete' = Complete
      BY <3>1 DEF Complete, Listed, resultVars
    <3> QED
      BY <2>0, <3>1, <3>2
  <2>2. CASE FinishPage
    <3>1. pc = "drain" /\ finished' = finished \cup {cur} /\ UNCHANGED <<wire, out>>
      BY <2>2 DEF FinishPage
    <3>2. Complete' = Complete \cup {cur}
      BY <3>1 DEF Complete, Listed
    <3> QED
      BY <2>0, <3>1, <3>2
  <2>3. CASE ~ReadEndOfPage /\ ~FinishPage
    <3>1. /\ UNCHANGED <<cur, finished, out>>
          /\ pc = "drain" => pc' = "drain" /\ UNCHANGED wire
          /\ wire.kind = "eop" => UNCHANGED wire
      BY <2>3 DEF Readout, ReadRow, DrainBand, LeadAtBoundary, LeadAtTail, JobFinalLead,
         BlockAtTail, SkipSlop, NothingMoreAtBoundary, ShortElementThenClosed, NothingMoreAtTail,
         FlushOne, FlushDone, AtBoundary, Return, FlushAndReturn, Loop, resultVars
    <3>2. Complete' = Complete
      BY <3>1 DEF Complete, Listed
    <3> QED
      BY <2>0, <3>1, <3>2
  <2> QED
    BY <2>1, <2>2, <2>3
<1> QED
  BY <1>1, <1>2, <1>3 DEF Framed

\* What is in flight is what a sound device can have sent, in every state.
THEOREM FramedHolds == Spec => []Framed
<1>1. Init => Framed
  BY RlengthAssumption DEF Init, Framed, Nothing, Element
<1>2. TypeFit /\ Framed /\ [Next]_vars => Framed'
  <2>1. Framed /\ UNCHANGED vars => Framed'
    BY DEF Framed, vars, job, deviceVars, resultVars, Loop, Complete, Listed, Begun
  <2> QED
    BY <2>1, DeviceFramed, ReadoutFramed DEF Next
<1> QED
  BY TypeFitHolds, <1>1, <1>2, PTL DEF Spec

\* The readout of such a device only gives up when the link does.
LEMMA GivesUp ==
    ASSUME TypeFit, Stream, Answer, WholeJob, Framed, sound, link = "up", Loop, Readout
    PROVE  pc' = "done" => status' \in {"ok", "cancelled"}
<1>0. /\ \A p \in ended \ Complete : (wire.kind = "eop" /\ wire.page = p) \/ (pc = "drain" /\ cur = p)
      /\ \A p \in Pages : sent[p] <= Height
      /\ ended \subseteq Begun
      /\ wire.kind = "final" => Begun \subseteq ended
      /\ wire.kind \notin {"stub", "stub80", "x80"}
      /\ wire.kind = "row" => wire.payload = "whole"
      /\ wire.kind = "slop" => slop < MaxSlop
  BY DEF Framed, WholeJob
<1>1. /\ sent \in [Pages -> Nat] /\ rowsRead \in [Pages -> Nat] /\ Height \in Nat /\ MaxSlop \in Nat
      /\ wire.kind \in {"row", "eop"} => wire.page \in Pages
      /\ slop \in Nat
      /\ open \subseteq Pages
  BY RlengthAssumption DEF TypeFit, TypeOK
<1>2. CASE ReadRow
  <2>1. wire.kind = "row" /\ wire.page \in Pages /\ OnWire /\ wire.page \notin Complete
    BY <1>0, <1>1, <1>2 DEF ReadRow, AtBoundary, OnWire, Stream, WireInv, Place
  <2>2. PICK p \in Pages : p = wire.page
    BY <2>1
  <2>3. sent[p] = rowsRead[p] + 1 /\ rowsRead[p] \in Nat /\ sent[p] <= Height
    BY <1>0, <1>1, <2>1, <2>2 DEF Stream, Counts
  <2>4. rowsRead[p] < Height
    BY <1>1, <2>3
  <2> QED
    BY <1>0, <1>1, <1>2, <2>1, <2>2, <2>3, <2>4 DEF ReadRow, PageTag, FlushAndReturn, Loop
<1>3. CASE ReadEndOfPage
  <2>1. PICK p \in Pages : p = wire.page
    BY <1>1, <1>3 DEF ReadEndOfPage, AtBoundary
  <2>2. p \in ended /\ p \notin Complete /\ ~OnWire
    BY <1>3, <2>1 DEF ReadEndOfPage, AtBoundary, OnWire, Stream, WireInv
  <2>3. sent[p] > 0 /\ sent[p] = rowsRead[p] + 0
    BY <1>0, <2>2 DEF Begun, Stream, Counts
  <2>4. p \in open
    BY <1>1, <2>3 DEF Stream, Place
  <2> QED
    BY <1>3, <2>1, <2>4 DEF ReadEndOfPage
<1>4. CASE LeadAtBoundary \/ LeadAtTail
  <2>1. wire.kind = "final" /\ JobFinalLead /\ pc \in {"boundary", "tail"}
    BY <1>0, <1>4 DEF LeadAtBoundary, LeadAtTail, AtBoundary
  <2>2. open = {}
    <3> SUFFICES ASSUME NEW p \in open PROVE FALSE
      OBVIOUS
    <3>1. p \in Pages /\ p \notin Complete /\ rowsRead[p] > 0 /\ ~OnWire
      BY <1>1, <2>1 DEF Answer, Stream, Place, OnWire
    <3>2. sent[p] = rowsRead[p] + 0
      BY <3>1 DEF Stream, Counts
    <3>3. p \in Begun
      BY <1>1, <3>1, <3>2 DEF Begun
    <3> QED
      BY <1>0, <2>1, <3>1, <3>3
  <2> QED
    BY <2>1, <2>2 DEF JobFinalLead, FlushAndReturn
<1>5. CASE SkipSlop
  <2>1. wire.kind = "slop" /\ ~SlopCeilingHit
    BY <1>0, <1>1, <1>5 DEF SkipSlop, AtBoundary, SlopCeilingHit
  <2> QED
    BY <1>5, <2>1 DEF SkipSlop, Loop
<1>6. CASE ~ReadRow /\ ~ReadEndOfPage /\ ~LeadAtBoundary /\ ~LeadAtTail /\ ~SkipSlop
  BY <1>6 DEF Readout, DrainBand, FinishPage, BlockAtTail, NothingMoreAtBoundary,
     ShortElementThenClosed, NothingMoreAtTail, FlushOne, FlushDone, FlushAndReturn, Loop
<1> QED
  BY <1>2, <1>3, <1>4, <1>5, <1>6

\* A device that keeps to the framing over a link that stays up is answered with its pages,
\* or with the caller's cancel, however many pages interleave in whatever order, when no stray
\* byte can be 0x80 (a stray 0x80 ends the job with kProtocolError while a page is open).
THEOREM SoundJobsSucceed == Lead80 = FALSE => (Spec => []SoundJobSucceeds)
<1> SUFFICES ASSUME Lead80 = FALSE PROVE Spec => []SoundJobSucceeds
  OBVIOUS
<1>1. Init => WholeJob /\ SoundJobSucceeds
  BY DEF Init, WholeJob, SoundJobSucceeds, Nothing, Element
<1>2. TypeFit /\ Stream /\ Answer /\ WholeJob /\ [Next]_vars => WholeJob'
  BY NextWholeJob
<1>3. TypeFit /\ Stream /\ Answer /\ WholeJob /\ Framed /\ SoundJobSucceeds /\ [Next]_vars
        => SoundJobSucceeds'
  <2> SUFFICES ASSUME TypeFit, Stream, Answer, WholeJob, Framed, SoundJobSucceeds, [Next]_vars,
                      pc' = "done", sound', link' = "up"
               PROVE  status' \in {"ok", "cancelled"}
    BY DEF SoundJobSucceeds
  <2>1. CASE UNCHANGED vars
    BY <2>1 DEF SoundJobSucceeds, vars, job, deviceVars
  <2>2. CASE pc # "done" /\ Device
    BY <2>2 DEF Device
  <2>3. CASE Readout
    <3>1. sound /\ link = "up"
      BY <2>3 DEF Readout, job, deviceVars
    <3>2. CASE Loop
      BY <2>3, <3>1, <3>2, GivesUp
    <3>3. CASE pc = "flush"
      BY <2>3, <3>3 DEF Readout, ReadRow, ReadEndOfPage, DrainBand, FinishPage, LeadAtBoundary,
         LeadAtTail, BlockAtTail, SkipSlop, NothingMoreAtBoundary, ShortElementThenClosed,
         NothingMoreAtTail, FlushOne, FlushDone, AtBoundary, Answer
    <3>4. CASE pc = "done"
      BY <2>3, <3>4 DEF Readout, ReadRow, ReadEndOfPage, DrainBand, FinishPage, LeadAtBoundary,
         LeadAtTail, BlockAtTail, SkipSlop, NothingMoreAtBoundary, ShortElementThenClosed,
         NothingMoreAtTail, FlushOne, FlushDone, AtBoundary
    <3> QED
      BY <3>2, <3>3, <3>4 DEF TypeFit, TypeOK, Loop
  <2> QED
    BY <2>1, <2>2, <2>3 DEF Next
<1> QED
  BY TypeFitHolds, StreamHolds, AnswerHolds, FramedHolds, <1>1, <1>2, <1>3, PTL DEF Spec

-----------------------------------------------------------------------------
(* The readout implements PageDelivery.                                     *)

Promise == TypeFit /\ Stream /\ Bands /\ Order /\ Answer

LEMMA InitDelivers == Init => Delivery!Init
BY DEF Init, Delivery!Init, Complete, Listed

LEMMA NextDelivers ==
    Promise /\ Promise' /\ [Next]_vars => [Delivery!Next]_(Delivery!vars)
<1> SUFFICES ASSUME Promise, Promise', [Next]_vars
             PROVE  [Delivery!Next]_(Delivery!vars)
  OBVIOUS
<1> USE DEF Promise
<1>1. ASSUME UNCHANGED <<streaming, shown, image>>, Complete' = Complete,
             (pc # "done" /\ pc' # "done") \/ UNCHANGED <<pc, status, out>>
      PROVE  [Delivery!Next]_(Delivery!vars)
  BY <1>1 DEF Delivery!vars
<1>2. ASSUME UNCHANGED <<streaming, shown, image, out>>, Complete' = Complete,
             Loop, pc' = "done", status' \in {"timeout", "io", "protocol"}
      PROVE  [Delivery!Next]_(Delivery!vars)
  BY <1>2 DEF Loop, Order, Delivery!Next, Delivery!ReturnNothing, Delivery!Results
<1>3. ASSUME NEW p \in Pages, NEW n \in Nat, n > 0, streaming, Loop, p \in open',
             shown' = [shown EXCEPT ![p] = @ \o SubSeq(pixels'[p], bandStart[p] + 1, bandStart[p] + n)],
             SubSeq(pixels'[p], bandStart[p] + 1, bandStart[p] + n) \in Seq(Row),
             Len(SubSeq(pixels'[p], bandStart[p] + 1, bandStart[p] + n)) = n,
             UNCHANGED <<streaming, finished, image, out>>, pc' # "done"
      PROVE  [Delivery!Next]_(Delivery!vars)
  <2>1. Complete' = Complete /\ p \notin Complete
    BY <1>3 DEF Complete, Listed, Stream, Place
  <2>2. Delivery!Extends(shown'[p], shown[p])
    <3> DEFINE band == SubSeq(pixels'[p], bandStart[p] + 1, bandStart[p] + n)
    <3>1. shown[p] \in Seq(Row) /\ Len(shown[p]) \in Nat /\ shown'[p] = shown[p] \o band
      BY <1>3, LenProperties DEF TypeFit, TypeOK
    <3>2. /\ shown[p] \o band \in Seq(Row) /\ Len(shown[p] \o band) = Len(shown[p]) + n
          /\ \A k \in 1 .. Len(shown[p]) : (shown[p] \o band)[k] = shown[p][k]
      BY <1>3, <3>1, ConcatProperties
    <3>3. Len(shown'[p]) > Len(shown[p])
      BY <1>3, <3>1, <3>2
    <3>4. SubSeq(shown[p] \o band, 1, Len(shown[p])) = SubSeq(shown[p], 1, Len(shown[p]))
      BY <1>3, <3>1, <3>2, PrefixKept
    <3> QED
      BY <3>1, <3>3, <3>4, SubSeqFull DEF Delivery!Extends
  <2>3. shown' = [shown EXCEPT ![p] = shown'[p]]
    BY <1>3 DEF TypeFit, TypeOK
  <2>4. pc # "done"
    BY <1>3 DEF Loop
  <2> QED
    BY <1>3, <2>1, <2>2, <2>3, <2>4 DEF Delivery!Next, Delivery!ShowBand
<1>4. CASE Device \/ UNCHANGED vars
  BY <1>1, <1>4 DEF Device, Next, vars, job, resultVars, Complete, Listed
<1>5. CASE ReadRow /\ UNCHANGED job
  <2>0. PICK p \in Pages : p = wire.page
    BY <1>5 DEF ReadRow, AtBoundary, TypeFit, TypeOK
  <2>1. /\ pc = "boundary" /\ Loop /\ p \in open' /\ UNCHANGED <<streaming, finished, image, out>>
    BY <1>5, <2>0 DEF ReadRow, AtBoundary, PageTag, Loop, job, resultVars, Return
  <2>2. Complete' = Complete
    BY <2>1 DEF Complete, Listed
  <2>3. CASE UNCHANGED shown /\ pc' = "done" /\ status' \in {"timeout", "io", "protocol"}
    BY <1>2, <2>1, <2>2, <2>3
  <2>4. CASE UNCHANGED <<shown, pc>>
    BY <1>1, <2>1, <2>2, <2>4
  <2>5. CASE /\ rowsRead[p] < Height
             /\ pixels' = [pixels EXCEPT ![p] = Append(@, <<p, wire.row>>)]
             /\ streaming /\ rowsRead[p] + 1 - bandStart[p] = BandRows
             /\ EmitBand(p, BandRows) /\ pc' \in {"boundary", "flush"}
    <3>1. /\ pixels[p] \in Seq(Row) /\ Len(pixels[p]) = rowsRead[p] /\ rowsRead[p] \in Nat
          /\ bandStart[p] \in Nat /\ <<p, wire.row>> \in Row
      BY <2>1 DEF TypeFit, TypeOK, Fit, Row, StreamElement
    <3>2. pixels'[p] = Append(pixels[p], <<p, wire.row>>) /\ pixels'[p] \in Seq(Row)
      BY <2>5 DEF TypeFit, TypeOK
    <3>3. Len(pixels'[p]) = rowsRead[p] + 1
      BY <3>1, <3>2, AppendProperties
    <3>4. /\ BandRows \in Nat /\ BandRows > 0 /\ bandStart[p] + BandRows <= Len(pixels'[p])
      BY <2>5, <3>1, <3>3, RlengthAssumption
    <3>5. /\ SubSeq(pixels'[p], bandStart[p] + 1, bandStart[p] + BandRows) \in Seq(Row)
          /\ Len(SubSeq(pixels'[p], bandStart[p] + 1, bandStart[p] + BandRows)) = BandRows
      BY <3>1, <3>2, <3>4, BandOfRows
    <3> QED
      BY <1>3, <2>1, <2>5, <3>4, <3>5 DEF EmitBand
  <2> QED
    BY <1>5, <2>0, <2>1, <2>3, <2>4, <2>5 DEF ReadRow, PageTag, Return, FlushAndReturn, LinkError
<1>6. CASE ReadEndOfPage /\ UNCHANGED job
  <2>1. /\ Loop /\ pc # "done" /\ UNCHANGED <<streaming, shown, finished, image, out>>
        /\ \/ pc' = "drain"
           \/ pc' = "done" /\ status' = "protocol"
    BY <1>6 DEF ReadEndOfPage, AtBoundary, Loop, job, resultVars, Return
  <2>2. Complete' = Complete
    BY <2>1 DEF Complete, Listed
  <2> QED
    BY <1>1, <1>2, <2>1, <2>2
<1>7. CASE DrainBand /\ UNCHANGED job
  <2>1. PICK n \in Nat : /\ n > 0 /\ n = LeastOf(BandRows, EmitHeight(cur) - bandStart[cur])
                         /\ bandStart[cur] + n <= EmitHeight(cur)
    BY <1>7, DrainBandStep
  <2>2. /\ pc = "drain" /\ Loop /\ cur \in open' /\ cur \in Pages /\ streaming
        /\ Len(pixels[cur]) = EmitHeight(cur)
        /\ UNCHANGED <<streaming, pixels, finished, image, out>>
        /\ EmitBand(cur, n) /\ pc' # "done"
    BY <1>7, <2>1 DEF DrainBand, DrainDue, FlushAndReturn, Loop, TypeFit, TypeOK, Fit, Stream,
       Place, job, resultVars
  <2>3. /\ SubSeq(pixels'[cur], bandStart[cur] + 1, bandStart[cur] + n) \in Seq(Row)
        /\ Len(SubSeq(pixels'[cur], bandStart[cur] + 1, bandStart[cur] + n)) = n
    <3>1. pixels[cur] \in Seq(Row) /\ bandStart[cur] \in Nat
      BY <2>2 DEF TypeFit, TypeOK
    <3> QED
      BY <2>1, <2>2, <3>1, BandOfRows
  <2> QED
    BY <1>3, <2>1, <2>2, <2>3 DEF EmitBand
<1>8. CASE FinishPage /\ UNCHANGED job
  <2>1. /\ pc = "drain" /\ Loop /\ pc' = "tail" /\ cur \in Pages /\ cur \in open /\ cur \notin Complete
        /\ UNCHANGED <<streaming, shown, out>> /\ Complete' = Complete \cup {cur}
        /\ image' = [image EXCEPT ![cur] = pixels[cur]] /\ image'[cur] = pixels[cur]
    BY <1>8 DEF FinishPage, Loop, TypeFit, TypeOK, Stream, Place, job, Complete
  <2>2. image'[cur] # <<>>
    <3>1. /\ rowsRead[cur] > 0 /\ rowsRead[cur] \in Nat /\ rowsRead[cur] <= Len(pixels[cur])
          /\ pixels[cur] \in Seq(Row)
      BY <2>1 DEF Answer, TypeFit, TypeOK, Fit
    <3>2. Len(pixels[cur]) # 0
      BY <3>1, LenProperties
    <3> QED
      BY <2>1, <3>2, EmptySeq
  <2>3. streaming => image'[cur] = shown[cur]
    BY <2>1 DEF Bands
  <2>4. image' = [image EXCEPT ![cur] = image'[cur]]
    BY <2>1
  <2> QED
    BY <2>1, <2>2, <2>3, <2>4 DEF Loop, Delivery!Next, Delivery!CompletePage
<1>9. CASE FlushOne /\ UNCHANGED job
  <2>1. UNCHANGED <<streaming, shown, image>> /\ pc # "done" /\ pc' # "done"
    BY <1>9 DEF FlushOne, job
  <2> QED
    BY <1>1, <1>9, <2>1, FlushOneComplete DEF TypeFit
<1>10. CASE FlushDone /\ UNCHANGED job
  <2>1. /\ pc = "flush" /\ pc' = "done" /\ finished = {}
        /\ UNCHANGED <<streaming, shown, image, status, finished, out>>
    BY <1>10 DEF FlushDone, job, resultVars
  <2>2. status \in {"ok", "cancelled"} /\ Complete' = Complete /\ Complete = Listed(out)
    BY <2>1 DEF Answer, Complete, Listed
  <2>3. status = "ok" => \A p \in Pages : shown[p] # <<>> => p \in Complete
    BY DEF Answer, Bands
  <2>4. Delivery!Ascending(out) /\ Delivery!Listed(out) = Listed(out)
    BY DEF Order, DocumentOrder, Delivery!Ascending, Delivery!Listed, Listed
  <2> QED
    BY <2>1, <2>2, <2>3, <2>4 DEF Delivery!Next, Delivery!ReturnPages
<1>11. CASE Aside /\ ~FlushDone /\ UNCHANGED job
  <2>1. /\ UNCHANGED <<streaming, shown, finished, image, out>> /\ Loop
        /\ \/ pc' # "done"
           \/ pc' = "done" /\ status' \in {"timeout", "io", "protocol"}
    BY <1>11 DEF Aside, LeadAtBoundary, LeadAtTail, JobFinalLead, BlockAtTail, SkipSlop,
         NothingMoreAtBoundary, ShortElementThenClosed, NothingMoreAtTail, AtBoundary, Return,
         FlushAndReturn, LinkError, Loop, job, resultVars
  <2>2. Complete' = Complete /\ pc # "done"
    BY <2>1 DEF Complete, Listed, Loop
  <2> QED
    BY <1>1, <1>2, <2>1, <2>2
<1>12. Readout => UNCHANGED job
  BY DEF Readout
<1> QED
  BY <1>4, <1>5, <1>6, <1>7, <1>8, <1>9, <1>10, <1>11, <1>12 DEF Next, Readout, Aside

\* RunRlengthScan implements what RunScan promises its caller, for every instance.
THEOREM ReadoutDelivers == Spec => DeliversPages
<1>1. Spec => []Promise
  BY TypeFitHolds, StreamHolds, BandsHold, OrderHolds, AnswerHolds, PTL DEF Promise
<1> QED
  BY <1>1, InitDelivers, NextDelivers, PTL DEF Spec, DeliversPages, Delivery!Spec

=============================================================================
