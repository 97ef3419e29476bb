---------------------------- MODULE ColorReadout ----------------------------
(***************************************************************************)
(* libbrscan/scanner.cpp, RunColorScan: the readout of a color job after   *)
(* ESC X.  A page is one JPEG cut into chunks; a duplex feed multiplexes   *)
(* the chunks of several pages.  A chunk declares its length, or "more     *)
(* data follows" (0xfff4, whatever it carries), and then the readout has   *)
(* to look ahead for its end.                                              *)
(*                                                                         *)
(* A JPEG is counted in units: one per band of rows, then its EOI.  The    *)
(* look-ahead is counted in sizes that keep the order of the real ones: a  *)
(* block header (12 bytes) and the smallest body fill the 13 bytes looked  *)
(* at behind a full chunk, a marker (10) and the job-final byte do not.    *)
(* A match of the anchors inside entropy-coded data is left out.           *)
(***************************************************************************)
EXTENDS Integers, Sequences, SequencesExt

CONSTANTS
    Pages,      \* page indices the device tags its chunks with (1-based)
    Height,     \* bands of a page
    MaxChunk,   \* kMaxChunkBytes
    PageCap,    \* ColorPageByteCap
    MaxFaults   \* bound: departures of the device from the framing

ASSUME ColorAssumption ==
    /\ Pages \subseteq Nat \ {0}
    /\ Height \in Nat \ {0}
    /\ MaxChunk \in Nat \ {0}
    /\ PageCap \in Nat /\ PageCap > Height
    /\ MaxFaults \in Nat

VARIABLES
    streaming,  \* on_band is non-empty
    faults,     \* departures from the framing so far (it may stall or close without one)
    sent, ended, jobFinal, link, wire,  \* the device and the stream
    pc, status, open, jpeg, cur,        \* the readout's locals
    finished, image, out,               \* finished pages, results
    shown                               \* bands on_band has been given

deviceVars == <<faults, sent, ended, jobFinal, link>>
resultVars == <<finished, image, out>>
vars == <<streaming, deviceVars, wire, pc, status, open, jpeg, cur, resultVars, shown>>

-----------------------------------------------------------------------------
(* The stream.                                                              *)

\* Unit k of page p's JPEG is <<p, k>>, the band it decodes to; Eoi ends it.
Eoi == <<0, 0>>
Pad == <<0, 1>>     \* a band the decoder fills in
Bad == <<0, 2>>     \* a unit that does not decode

\* A chunk with units of one page's JPEG; sentinel: it declares 0xfff4.
Chunk(p, units, sentinel) ==
    [kind |-> "chunk", page |-> p, units |-> units, sentinel |-> sentinel]
Element(kind, p) == [kind |-> kind, page |-> p, units |-> <<>>, sentinel |-> FALSE]

\* "junk": bytes RunColorScan cannot place; "stub": what the link left of an element.
Kind == {"chunk", "eop", "final", "junk", "stub"}

HeaderSize == 3
Anchors == 4

Size(e) ==
    CASE e.kind = "chunk" -> HeaderSize + Len(e.units)
      [] e.kind = "eop" -> 2
      [] e.kind = "junk" -> Anchors + MaxChunk
      [] OTHER -> 1

Buffered(s) == FoldLeft(LAMBDA n, e : n + Size(e), 0, s)

EndsInEoi(s) == s # <<>> /\ Last(s) = Eoi

\* The bands of a JPEG, those after its EOI filled in.
Decoded(s) ==
    [k \in 1 .. Height |->
        IF k <= Len(s) /\ ~Contains(SubSeq(s, 1, k), Eoi) THEN s[k] ELSE Pad]

LeastOf(a, b) == IF a <= b THEN a ELSE b

-----------------------------------------------------------------------------
(* The device.                                                              *)

Begun == {p \in Pages : sent[p] # <<>>}
\* The look-ahead of ReadOneChunkBody covers a full chunk and the anchors behind it.
LookAheadFull == Len(Head(wire).units) + Buffered(Tail(wire)) >= MaxChunk + Anchors

\* Elements go out when the readout looks for them: TCP keeps their order, so sending them
\* earlier would add no behaviour of the readout.
Wanted ==
    /\ pc \in {"boundary", "tail"}
    /\ wire # <<>> => pc = "boundary" /\ Head(wire).sentinel /\ ~LookAheadFull

MaySend == link = "up" /\ Wanted /\ ~jobFinal

\* A step of the device keeps to the framing or is one of its faults.
Framing(kept) ==
    /\ kept \/ faults < MaxFaults
    /\ faults' = IF kept THEN faults ELSE faults + 1

\* What may come next of page p's JPEG: more bands, and the EOI perhaps a few early.
NextUnits(p) ==
    LET got == Len(sent[p])
        bands == [k \in 1 .. MaxChunk |-> <<p, got + k>>]
        least == IF got = 0 THEN 1 ELSE 0
    IN {SubSeq(bands, 1, n) : n \in {m \in 1 .. MaxChunk : got + m <= Height}}
       \cup {Append(SubSeq(bands, 1, n), Eoi) :
                n \in {m \in least .. MaxChunk - 1 : got + m <= Height}}

\* What may not: data that does not decode, or more data than the page has.
StrayUnits(p) ==
    {<<Bad>>} \cup (IF EndsInEoi(sent[p]) \/ Len(sent[p]) + MaxChunk > Height
                     THEN {[k \in 1 .. MaxChunk |-> <<p, Len(sent[p]) + k>>]} ELSE {})

SendChunk(p) ==
    /\ MaySend
    /\ p \notin ended
    /\ \E kept, sentinel \in BOOLEAN :
          /\ Framing(kept)
          /\ kept => ~EndsInEoi(sent[p])
          /\ \E units \in (IF kept THEN NextUnits(p) ELSE StrayUnits(p)) :
                /\ Len(units) = MaxChunk => sentinel
                /\ wire' = Append(wire, Chunk(p, units, sentinel))
                /\ sent' = [sent EXCEPT ![p] = @ \o units]
    /\ UNCHANGED <<ended, jobFinal, link>>

SendEndOfPage(p) ==
    /\ MaySend
    /\ p \notin ended
    /\ Framing(EndsInEoi(sent[p]))
    /\ wire' = Append(wire, Element("eop", p))
    /\ ended' = ended \cup {p}
    /\ UNCHANGED <<sent, jobFinal, link>>

\* Not behind a chunk without a length of its own, which would swallow it.
SendJunk ==
    /\ MaySend
    /\ Framing(FALSE)
    /\ wire # <<>> => ~Last(wire).sentinel
    /\ wire' = Append(wire, Element("junk", 0))
    /\ UNCHANGED <<sent, ended, jobFinal, link>>

SendJobFinal ==
    /\ MaySend
    /\ Framing(Begun # {} /\ Begun = ended)
    /\ wire' = Append(wire, Element("final", 0))
    /\ jobFinal' = TRUE
    /\ UNCHANGED <<sent, ended, link>>

\* Stop is pressed, or the connection closes: what is in flight still arrives, and perhaps the
\* first bytes of one more element.
LinkFails ==
    /\ link = "up"
    /\ pc \in {"boundary", "tail"}
    /\ link' \in {"stalled", "closed"}
    /\ \/ wire' = wire
       \/ ~jobFinal /\ Wanted /\ wire' = Append(wire, Element("stub", 0))
    /\ UNCHANGED <<faults, sent, ended, jobFinal>>

Device ==
    /\ \/ \E p \in Pages : SendChunk(p) \/ SendEndOfPage(p)
       \/ SendJunk
       \/ SendJobFinal
       \/ LinkFails
    /\ UNCHANGED <<streaming, pc, status, open, jpeg, cur, resultVars, shown>>

-----------------------------------------------------------------------------
(* The readout.  pc = "boundary" is the top of its loop, "feed" and "finish" *)
(* the two calls of the page's decoder, "tail" the look at the byte after a  *)
(* marker, "flush" flush_finished, "return" RunScan after RunReadout.        *)

\* return s, everything local is dropped.
Return(s) ==
    /\ pc' = "return"
    /\ status' = s
    /\ UNCHANGED <<open, jpeg, cur, resultVars, shown>>

\* flush_finished(); return s.
FlushAndReturn(s) ==
    /\ pc' = "flush"
    /\ status' = s
    /\ UNCHANGED <<open, jpeg, cur, resultVars>>

\* A read that blocks on a link that is gone, or behind the end of the job.
LinkError == IF link = "closed" THEN "io" ELSE "timeout"
Quiet == link = "stalled" \/ (link = "up" /\ jobFinal)

Arrived(kinds) == wire # <<>> /\ Head(wire).kind \in kinds

\* Mutant: a read without a deadline.
NothingMoreWaits ==
    /\ pc \in {"boundary", "tail"} /\ (wire = <<>> \/ Arrived({"final", "stub"}))
    /\ link = "closed"
    /\ Return("io")
    /\ UNCHANGED wire

NothingMore ==
    /\ \/ pc = "boundary" /\ (wire = <<>> \/ Arrived({"final", "stub"}))
       \/ pc = "tail" /\ wire = <<>>
    /\ link # "up" \/ jobFinal
    /\ Return(LinkError)
    /\ UNCHANGED wire

\* Neither a marker nor a header.
ReadJunk ==
    /\ pc = "boundary" /\ Arrived({"junk"})
    /\ Return("protocol")
    /\ UNCHANGED wire

\* header.page_index
PageTag(chunk) == chunk.page

\* A chunk's body has arrived: route it by page index and feed it to the page's decoder.
TakeChunk ==
    LET chunk == Head(wire)
        p == PageTag(chunk)
        bytes == jpeg[p] \o chunk.units
    IN /\ wire' = Tail(wire)
       /\ \/ /\ Len(bytes) > PageCap
             /\ Return("protocol")
          \/ /\ Len(bytes) <= PageCap
             /\ open' = open \cup {p}
             /\ jpeg' = [jpeg EXCEPT ![p] = bytes]
             /\ IF streaming THEN pc' = "feed" /\ cur' = p ELSE UNCHANGED <<pc, cur>>
             /\ UNCHANGED <<status, resultVars, shown>>

\* FindChunkBoundary; of a stub there may or may not be enough.
BoundarySeen ==
    /\ Len(wire) > 1
    /\ wire[2].kind \in {"chunk", "eop", "stub"}

ReadHonestChunk ==
    /\ pc = "boundary" /\ Arrived({"chunk"})
    /\ ~Head(wire).sentinel
    /\ TakeChunk

\* PeekUpTo(kMaxChunkBytes + 13) returns when it has that much or times out.
ReadSentinelChunk ==
    /\ pc = "boundary" /\ Arrived({"chunk"})
    /\ Head(wire).sentinel
    /\ LookAheadFull \/ Quiet
    /\ BoundarySeen \/ Len(Head(wire).units) = MaxChunk
    /\ TakeChunk

\* No boundary, and not enough for a full chunk.
SentinelChunkCut ==
    /\ pc = "boundary" /\ Arrived({"chunk"})
    /\ Head(wire).sentinel
    /\ LookAheadFull \/ Quiet
    /\ Len(Head(wire).units) < MaxChunk
    /\ Len(wire) > 1 => wire[2].kind \in {"final", "stub"}
    /\ Return(LinkError)
    /\ UNCHANGED wire

\* PeekUpTo passes a closed connection on, whatever it has buffered.
LookAheadClosed ==
    /\ pc = "boundary" /\ Arrived({"chunk"})
    /\ Head(wire).sentinel
    /\ ~LookAheadFull /\ link = "closed"
    /\ Return("io")
    /\ UNCHANGED wire

\* The page's decoder: the next band it can produce.  It may lag behind what it was fed.
Produced(p) == IF Contains(jpeg[p], Eoi) THEN Height ELSE LeastOf(Len(jpeg[p]), Height)
BandDue ==
    /\ streaming
    /\ pc \in {"feed", "finish"}
    /\ Len(shown[cur]) < Produced(cur)
NextBand == Decoded(jpeg[cur])[Len(shown[cur]) + 1]

\* EmitBand, and the callback's answer.
DecodeBand ==
    /\ BandDue /\ NextBand # Bad
    /\ shown' = [shown EXCEPT ![cur] = Append(@, NextBand)]
    /\ \/ UNCHANGED <<pc, status, open, jpeg, cur, resultVars>>
       \/ FlushAndReturn("cancelled")
    /\ UNCHANGED wire

DecoderFails ==
    /\ BandDue /\ NextBand = Bad
    /\ FlushAndReturn("protocol")
    /\ UNCHANGED <<wire, shown>>

Fed ==
    /\ pc = "feed"
    /\ pc' = "boundary"
    /\ UNCHANGED <<wire, status, open, jpeg, cur, resultVars, shown>>

\* An end-of-page marker.
ReadEndOfPage ==
    /\ pc = "boundary" /\ Arrived({"eop"})
    /\ wire' = Tail(wire)
    /\ LET p == Head(wire).page IN
       \/ /\ p \notin open \/ ~EndsInEoi(jpeg[p])
          /\ Return("protocol")
       \/ /\ p \in open /\ EndsInEoi(jpeg[p])
          /\ cur' = p
          /\ pc' = "finish"
          /\ UNCHANGED <<status, open, jpeg, resultVars, shown>>

\* DecodeJpeg at the end of the page, without a callback.
WholePageFails ==
    /\ pc = "finish" /\ ~streaming
    /\ Contains(Decoded(jpeg[cur]), Bad)
    /\ Return("protocol")
    /\ UNCHANGED wire

\* Mutant: the decoder is not drained.
FinishPageUndrained ==
    /\ pc = "finish"
    /\ ~Contains(Decoded(jpeg[cur]), Bad)
    /\ image' = [image EXCEPT ![cur] = Decoded(jpeg[cur])]
    /\ finished' = finished \cup {cur}
    /\ open' = open \ {cur}
    /\ jpeg' = [jpeg EXCEPT ![cur] = <<>>]
    /\ pc' = "tail"
    /\ UNCHANGED <<wire, status, cur, out, shown>>

\* finished[pidx] = page; in_progress.erase(it).
FinishPage ==
    /\ pc = "finish" /\ ~BandDue
    /\ ~Contains(Decoded(jpeg[cur]), Bad)
    /\ image' = [image EXCEPT ![cur] = Decoded(jpeg[cur])]
    /\ finished' = finished \cup {cur}
    /\ open' = open \ {cur}
    /\ jpeg' = [jpeg EXCEPT ![cur] = <<>>]
    /\ pc' = "tail"
    /\ UNCHANGED <<wire, status, cur, out, shown>>

\* Mutants: pages still open are forgotten; a second 0x80 is waited for.
JobFinalForgetsOpen ==
    /\ pc = "tail" /\ Arrived({"final"})
    /\ FlushAndReturn("ok")
    /\ UNCHANGED <<wire, shown>>

JobFinalNeedsTwo ==
    /\ pc = "tail" /\ Arrived({"final"})
    /\ Return(LinkError)
    /\ UNCHANGED wire

\* The byte after a marker: 0x80 ends the job.
JobFinalLead ==
    /\ pc = "tail" /\ Arrived({"final"})
    /\ \/ open # {} /\ Return("protocol")
       \/ open = {} /\ FlushAndReturn("ok") /\ UNCHANGED shown
    /\ UNCHANGED wire

BlockAtTail ==
    /\ pc = "tail" /\ Arrived(Kind \ {"final"})
    /\ pc' = "boundary"
    /\ UNCHANGED <<wire, status, open, jpeg, cur, resultVars, shown>>

\* flush_finished walks the map in ascending page order.
FlushOne ==
    /\ pc = "flush"
    /\ \E p \in finished :
          /\ \A q \in finished : p <= q
          /\ out' = Append(out, p)
          /\ finished' = finished \ {p}
    /\ UNCHANGED <<wire, pc, status, open, jpeg, cur, image, shown>>

FlushDone ==
    /\ pc = "flush"
    /\ finished = {}
    /\ pc' = "return"
    /\ UNCHANGED <<wire, status, open, jpeg, cur, resultVars, shown>>

\* Mutant: the results of a failed scan are kept.
ReturnUncleared ==
    /\ pc = "return"
    /\ pc' = "done"
    /\ UNCHANGED <<wire, status, open, jpeg, cur, resultVars, shown>>

\* RunScan clears the results of a scan that failed.
ReturnToCaller ==
    /\ pc = "return"
    /\ pc' = "done"
    /\ out' = IF status \in {"ok", "cancelled"} THEN out ELSE <<>>
    /\ UNCHANGED <<wire, status, open, jpeg, cur, finished, image, shown>>

Readout ==
    /\ \/ NothingMore \/ ReadJunk \/ ReadHonestChunk \/ ReadSentinelChunk
       \/ SentinelChunkCut \/ LookAheadClosed \/ DecodeBand \/ DecoderFails \/ Fed
       \/ ReadEndOfPage \/ WholePageFails \/ FinishPage \/ JobFinalLead \/ BlockAtTail
       \/ FlushOne \/ FlushDone \/ ReturnToCaller
    /\ UNCHANGED <<streaming, deviceVars>>

-----------------------------------------------------------------------------

Init ==
    /\ streaming \in BOOLEAN /\ faults = 0
    /\ sent = [p \in Pages |-> <<>>] /\ ended = {} /\ jobFinal = FALSE
    /\ link = "up" /\ wire = <<>>
    /\ pc = "boundary" /\ status = "running" /\ cur = 0
    /\ open = {} /\ jpeg = [p \in Pages |-> <<>>]
    /\ finished = {} /\ image = [p \in Pages |-> <<>>] /\ out = <<>>
    /\ shown = [p \in Pages |-> <<>>]

Next == (pc # "done" /\ Device) \/ Readout

\* Every read has a deadline and a device either sends or goes quiet.
Spec == Init /\ [][Next]_vars /\ WF_vars(Readout) /\ WF_vars(pc # "done" /\ Device)

-----------------------------------------------------------------------------

Listed(s) == {s[i] : i \in DOMAIN s}

\* The pages that are complete, flushed or not; a failed scan's are still in image.
Complete == {p \in Pages : image[p] # <<>>}

\* A finished page decodes from the whole JPEG the device sent for it, and its bands, if any
\* were asked for, are the page.
FinishedPagesAreWhole ==
    \A p \in Complete :
        /\ EndsInEoi(sent[p]) /\ image[p] = Decoded(sent[p])
        /\ streaming => shown[p] = image[p]

\* kOk is a whole job: the device has sent its job-final byte, and every page of which a chunk
\* was sent is in the results.
OkIsWholeJob == pc = "done" /\ status = "ok" => jobFinal /\ Begun = Listed(out)

\* A device that keeps to the framing over a link that stays up is never answered with an
\* error, and one that goes quiet with a timeout and nothing else.
SoundJobSucceeds ==
    pc = "done" /\ faults = 0 =>
        /\ link = "up" => status \in {"ok", "cancelled"}
        /\ link = "stalled" => status \in {"ok", "cancelled", "timeout"}

\* Once the whole of a sound job has been sent, a connection that closes loses nothing.
SentJobSucceeds == pc = "done" /\ faults = 0 /\ jobFinal => status \in {"ok", "cancelled"}

\* RunScan returns: no stream, faulty or not, holds the readout for ever.
Termination == <>(pc = "done")

\* What a caller of RunScan is promised.
Delivery == INSTANCE PageDelivery WITH
    complete <- Complete,
    result <- IF pc = "done" THEN status ELSE "running",
    out <- IF pc = "done" THEN out ELSE <<>>

DeliversPages == Delivery!Spec

=============================================================================
