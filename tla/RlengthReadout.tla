--------------------------- MODULE RlengthReadout ---------------------------
(***************************************************************************)
(* libbrscan/scanner.cpp, RunRlengthScan: the readout of a Black & White,  *)
(* Error Diffusion or True Gray job after ESC X.  The device multiplexes   *)
(* the pages of a duplex feed on one stream, one row block at a time; the  *)
(* readout de-interleaves them, streams bands to the caller's callback and *)
(* hands back whole pages in document order.                               *)
(*                                                                         *)
(* One stream element (a row block, an end-of-page marker, an un-headered  *)
(* pixel byte, the job-final byte, or what is left of an element when the  *)
(* link dies) is in flight at a time: TCP keeps their order, so a longer   *)
(* queue would add no behaviour of the readout.                            *)
(***************************************************************************)
EXTENDS Integers, Sequences

CONSTANTS
    Pages,      \* page indices the device tags its blocks with (1-based)
    Height,     \* rows of the requested area
    BandRows,   \* kBandRows, rows of a full band
    MaxSlop,    \* kMaxRlengthSlopBytes
    Lead80      \* may an un-headered or cut-off byte be 0x80, the job-final byte?

ASSUME RlengthAssumption ==
    /\ Pages \subseteq Nat \ {0}
    /\ Height \in Nat \ {0}
    /\ BandRows \in Nat \ {0}
    /\ MaxSlop \in Nat
    /\ Lead80 \in BOOLEAN

VARIABLES
    adf, streaming,   \* params.source = kAdf; on_band is non-empty
    sound,            \* the device keeps to the framing (it may still stall or close)
    sent, ended, jobFinal, link, wire,                      \* the device and the stream
    pc, status, open, pixels, rowsRead, bandStart, slop, cur,   \* the readout's locals
    finished, image, out,                                   \* finished pages, results
    shown                                                   \* rows on_band has been given

job == <<adf, streaming, sound>>
deviceVars == <<sent, ended, jobFinal, link>>
pageVars == <<open, pixels, rowsRead, bandStart>>
resultVars == <<finished, image, out>>
vars == <<job, deviceVars, wire, pc, status, pageVars, slop, cur, resultVars, shown>>

-----------------------------------------------------------------------------
(* The stream.  A row of pixels is the pair of its page and its number; Pad *)
(* is a row of white the readout fills in.                                  *)

Pad == <<0, 0>>
Row == (Pages \X Nat) \cup {Pad}

Payload == {"whole", "bad", "cut"}
RowBlock(p, k, payload) == [kind |-> "row", page |-> p, row |-> k, payload |-> payload]
Element(kind, p) == [kind |-> kind, page |-> p, row |-> 0, payload |-> "whole"]
Nothing == Element("nothing", 0)

\* "slop": an un-headered byte; "x80": one that is 0x80; "stub", "stub80": the first bytes
\* of a block header the link cut off, the second with a 0x80 among them.
Kind == {"nothing", "row", "eop", "slop", "x80", "final", "stub", "stub80"}

StreamElement == [kind : Kind, page : Pages \cup {0}, row : Nat, payload : Payload]

\* The rows s followed by n rows of white.
Padded(s, n) == s \o [k \in 1..n |-> Pad]

LeastOf(a, b) == IF a <= b THEN a ELSE b

-----------------------------------------------------------------------------
(* The device.                                                              *)

Begun == {p \in Pages : sent[p] > 0}

MaySend == link = "up" /\ wire = Nothing /\ ~jobFinal

\* A page's rows go out in order and stop at its end-of-page marker; a device that is not
\* sound may deliver a row that does not decode, or one row more than was asked for.
SendRow(p) ==
    /\ MaySend
    /\ p \notin ended
    /\ sent[p] < IF sound THEN Height ELSE Height + 1
    /\ \E payload \in {"whole"} \cup IF sound THEN {} ELSE {"bad"} :
          wire' = RowBlock(p, sent[p] + 1, payload)
    /\ sent' = [sent EXCEPT ![p] = @ + 1]
    /\ UNCHANGED <<ended, jobFinal, link>>

SendEndOfPage(p) ==
    /\ MaySend
    /\ p \notin ended
    /\ sound => p \in Begun
    /\ wire' = Element("eop", p)
    /\ ended' = ended \cup {p}
    /\ UNCHANGED <<sent, jobFinal, link>>

\* The firmware's buffer flush: stray pixel bytes between two row blocks of a page.
SendSlop ==
    /\ MaySend
    /\ Begun \ ended # {}
    /\ sound => slop < MaxSlop
    /\ \E kind \in {"slop"} \cup IF Lead80 THEN {"x80"} ELSE {} : wire' = Element(kind, 0)
    /\ UNCHANGED deviceVars

SendJobFinal ==
    /\ MaySend
    /\ sound => Begun # {} /\ Begun = ended
    /\ wire' = Element("final", 0)
    /\ jobFinal' = TRUE
    /\ UNCHANGED <<sent, ended, link>>

\* Stop is pressed, or the connection closes: nothing more arrives but what is left of
\* the element being sent.
LinkFails ==
    /\ link = "up"
    /\ link' \in {"stalled", "closed"}
    /\ \/ wire' = wire
       \/ /\ wire = Nothing /\ ~jobFinal
          /\ \/ \E kind \in {"stub"} \cup IF Lead80 THEN {"stub80"} ELSE {} :
                   wire' = Element(kind, 0)
             \/ \E p \in Pages \ ended : wire' = RowBlock(p, sent[p] + 1, "cut")
    /\ UNCHANGED <<sent, ended, jobFinal>>

Device ==
    /\ \/ \E p \in Pages : SendRow(p) \/ SendEndOfPage(p)
       \/ SendSlop
       \/ SendJobFinal
       \/ LinkFails
    /\ UNCHANGED <<job, pc, status, pageVars, slop, cur, resultVars, shown>>

-----------------------------------------------------------------------------
(* The readout.  pc = "boundary" is the top of its loop, "drain" the band   *)
(* loop of the end-of-page branch, "tail" the look at the byte after a      *)
(* marker, "flush" flush_finished, "done" a return.                         *)

\* return s, everything local is dropped.
Return(s) ==
    /\ pc' = "done"
    /\ status' = s
    /\ UNCHANGED <<resultVars, shown, cur>>

\* Mutant: the finished pages are not flushed.
ReturnUnflushed(s) ==
    /\ pc' = "done"
    /\ status' = s

\* flush_finished(); return s.
FlushAndReturn(s) ==
    /\ pc' = "flush"
    /\ status' = s

\* A read that blocks when the link is gone.
LinkError == IF link = "stalled" THEN "timeout" ELSE "io"

\* EmitBand: the callback is handed n rows of p from its band cursor on.
EmitBand(p, n) ==
    shown' = [shown EXCEPT ![p] = @ \o SubSeq(pixels'[p], bandStart[p] + 1, bandStart[p] + n)]

\* PeekUpTo(11) swallows a timeout but not a closed link.
NothingMoreAtBoundary ==
    /\ pc = "boundary"
    /\ wire = Nothing
    /\ link # "up"
    /\ Return(IF link = "stalled" THEN "protocol" ELSE "io")
    /\ UNCHANGED <<wire, pageVars, slop>>

\* An element of fewer than 11 bytes at the end of a closed connection is never looked at.
ShortElementThenClosed ==
    /\ pc = "boundary"
    /\ link = "closed"
    /\ wire.kind \in {"eop", "slop", "x80", "final", "stub", "stub80"}
    /\ Return("io")
    /\ UNCHANGED <<wire, pageVars, slop>>

AtBoundary(kinds) ==
    /\ pc = "boundary"
    /\ wire.kind \in kinds
    /\ wire.kind = "row" \/ link # "closed"

\* header.page_index
PageTag(block) == block.page

\* A row block: route its one row by page index.
ReadRow ==
    /\ AtBoundary({"row"})
    /\ wire' = Nothing
    /\ slop' = 0
    /\ LET p == PageTag(wire) IN
       /\ open' = open \cup {p}
       /\ \/ /\ rowsRead[p] >= Height
             /\ Return("protocol")
             /\ UNCHANGED <<pixels, rowsRead, bandStart>>
          \/ /\ rowsRead[p] < Height
             /\ wire.payload # "whole"
             /\ Return(IF wire.payload = "bad" THEN "protocol" ELSE LinkError)
             /\ UNCHANGED <<pixels, rowsRead, bandStart>>
          \/ /\ rowsRead[p] < Height
             /\ wire.payload = "whole"
             /\ pixels' = [pixels EXCEPT ![p] = Append(@, <<p, wire.row>>)]
             /\ rowsRead' = [rowsRead EXCEPT ![p] = @ + 1]
             /\ \/ /\ ~(streaming /\ rowsRead[p] + 1 - bandStart[p] = BandRows)
                   /\ UNCHANGED <<pc, status, bandStart, shown>>
                \/ /\ streaming /\ rowsRead[p] + 1 - bandStart[p] = BandRows
                   /\ EmitBand(p, BandRows)
                   /\ \/ /\ bandStart' = [bandStart EXCEPT ![p] = rowsRead[p] + 1]
                         /\ UNCHANGED <<pc, status>>
                      \/ FlushAndReturn("cancelled") /\ UNCHANGED bandStart
             /\ UNCHANGED <<resultVars, cur>>

\* Mutant: the flatbed is cropped like the document feeder.
EmitHeightCropsAll(p) == LeastOf(rowsRead[p], Height)

\* The height a page is handed back with: a short ADF sheet is cropped to its rows.
EmitHeight(p) == IF adf /\ rowsRead[p] < Height THEN rowsRead[p] ELSE Height

\* Mutant: the marker's page is not remembered.
ReadEndOfPageForgets ==
    /\ AtBoundary({"eop"})
    /\ wire.page \in open
    /\ wire' = Nothing /\ slop' = 0 /\ pc' = "drain"
    /\ UNCHANGED <<status, pageVars, resultVars, shown, cur>>

\* An end-of-page marker: pad a short page to its height, then drain its bands.
ReadEndOfPage ==
    /\ AtBoundary({"eop"})
    /\ wire' = Nothing
    /\ slop' = 0
    /\ LET p == wire.page
           missing == EmitHeight(p) - rowsRead[p]
       IN \/ /\ p \notin open
             /\ Return("protocol")
             /\ UNCHANGED pageVars
          \/ /\ p \in open
             /\ pixels' = [pixels EXCEPT ![p] = Padded(@, missing)]
             /\ cur' = p
             /\ pc' = "drain"
             /\ UNCHANGED <<status, open, rowsRead, bandStart, resultVars, shown>>

\* Mutant: only the rows that arrived are drained, not the padding.
DrainDueRowsOnly == streaming /\ bandStart[cur] < rowsRead[cur]

DrainDue == streaming /\ bandStart[cur] < EmitHeight(cur)

DrainBand ==
    /\ pc = "drain"
    /\ DrainDue
    /\ UNCHANGED pixels
    /\ LET n == LeastOf(BandRows, EmitHeight(cur) - bandStart[cur]) IN
       /\ EmitBand(cur, n)
       /\ \/ /\ bandStart' = [bandStart EXCEPT ![cur] = @ + n]
             /\ UNCHANGED <<pc, status>>
          \/ FlushAndReturn("cancelled") /\ UNCHANGED bandStart
    /\ UNCHANGED <<wire, open, rowsRead, slop, cur, resultVars>>

\* finished[pidx] = result; in_progress.erase(pidx).
FinishPage ==
    /\ pc = "drain"
    /\ ~DrainDue
    /\ image' = [image EXCEPT ![cur] = pixels[cur]]
    /\ finished' = finished \cup {cur}
    /\ open' = open \ {cur}
    /\ pixels' = [pixels EXCEPT ![cur] = <<>>]
    /\ rowsRead' = [rowsRead EXCEPT ![cur] = 0]
    /\ bandStart' = [bandStart EXCEPT ![cur] = 0]
    /\ pc' = "tail"
    /\ UNCHANGED <<wire, status, slop, cur, out, shown>>

\* Mutant: the job-final byte is taken at its word with a page still open.
JobFinalLeadUnchecked ==
    /\ FlushAndReturn("ok")
    /\ UNCHANGED <<resultVars, shown, cur, wire, pageVars, slop>>

\* A 0x80 where a block should start ends the job.
JobFinalLead ==
    /\ \/ open # {} /\ Return("protocol")
       \/ open = {} /\ FlushAndReturn("ok") /\ UNCHANGED <<resultVars, shown, cur>>
    /\ UNCHANGED <<wire, pageVars, slop>>

LeadAtBoundary == AtBoundary({"final", "x80"}) /\ JobFinalLead

LeadAtTail ==
    /\ pc = "tail"
    /\ wire.kind \in {"final", "x80"}
    /\ JobFinalLead

\* Mutant: the read after a marker has no deadline.
NothingMoreAtTailWaits ==
    /\ pc = "tail" /\ wire = Nothing /\ link = "closed"
    /\ Return("io")
    /\ UNCHANGED <<wire, pageVars, slop>>

NothingMoreAtTail ==
    /\ pc = "tail"
    /\ wire = Nothing
    /\ link # "up"
    /\ Return(LinkError)
    /\ UNCHANGED <<wire, pageVars, slop>>

BlockAtTail ==
    /\ pc = "tail"
    /\ wire.kind \in {"row", "eop", "slop", "stub", "stub80"}
    /\ pc' = "boundary"
    /\ UNCHANGED <<wire, status, pageVars, slop, cur, resultVars, shown>>

\* Mutant: the ceiling is hit one byte early.
SlopCeilingHitEarly == slop + 1 >= MaxSlop

\* ++slop_skipped > kMaxRlengthSlopBytes
SlopCeilingHit == slop + 1 > MaxSlop

\* A byte that starts neither a block nor a marker: skip it, up to the ceiling.
SkipSlop ==
    /\ AtBoundary({"slop", "stub", "stub80"})
    /\ slop' = slop + 1
    /\ \/ SlopCeilingHit /\ Return("protocol") /\ UNCHANGED wire
       \/ /\ ~SlopCeilingHit
          /\ wire' = IF wire.kind = "stub80" THEN Element("x80", 0) ELSE Nothing
          /\ UNCHANGED <<pc, status, cur, resultVars, shown>>
    /\ UNCHANGED pageVars

\* flush_finished walks the map in ascending page order.
FlushOne ==
    /\ pc = "flush"
    /\ \E p \in finished :
          /\ \A q \in finished : p <= q
          /\ out' = Append(out, p)
          /\ finished' = finished \ {p}
    /\ UNCHANGED <<wire, pc, status, pageVars, slop, cur, image, shown>>

FlushDone ==
    /\ pc = "flush"
    /\ finished = {}
    /\ pc' = "done"
    /\ UNCHANGED <<wire, status, pageVars, slop, cur, resultVars, shown>>

Readout ==
    /\ \/ ReadRow \/ ReadEndOfPage \/ DrainBand \/ FinishPage
       \/ LeadAtBoundary \/ LeadAtTail \/ BlockAtTail \/ SkipSlop
       \/ NothingMoreAtBoundary \/ ShortElementThenClosed \/ NothingMoreAtTail
       \/ FlushOne \/ FlushDone
    /\ UNCHANGED <<job, deviceVars>>

-----------------------------------------------------------------------------

Init ==
    /\ adf \in BOOLEAN /\ streaming \in BOOLEAN /\ sound \in BOOLEAN
    /\ sent = [p \in Pages |-> 0] /\ ended = {} /\ jobFinal = FALSE
    /\ link = "up" /\ wire = Nothing
    /\ pc = "boundary" /\ status = "running" /\ slop = 0 /\ cur = 0
    /\ open = {}
    /\ pixels = [p \in Pages |-> <<>>]
    /\ rowsRead = [p \in Pages |-> 0]
    /\ bandStart = [p \in Pages |-> 0]
    /\ finished = {} /\ image = [p \in Pages |-> <<>>] /\ out = <<>>
    /\ shown = [p \in Pages |-> <<>>]

Next == (pc # "done" /\ Device) \/ Readout

\* Every read has a deadline and a device either sends or goes quiet.
Spec == Init /\ [][Next]_vars /\ WF_vars(Readout) /\ WF_vars(pc # "done" /\ Device)

-----------------------------------------------------------------------------

Listed(s) == {s[i] : i \in DOMAIN s}

\* The pages that are complete, flushed or not.
Complete == finished \cup Listed(out)

\* Types of every variable.
TypeOK ==
    /\ adf \in BOOLEAN /\ streaming \in BOOLEAN /\ sound \in BOOLEAN
    /\ sent \in [Pages -> Nat] /\ ended \subseteq Pages /\ jobFinal \in BOOLEAN
    /\ link \in {"up", "stalled", "closed"}
    /\ wire \in StreamElement
    /\ wire.kind \in {"row", "eop"} => wire.page \in Pages
    /\ pc \in {"boundary", "drain", "tail", "flush", "done"}
    /\ status \in {"running", "ok", "cancelled", "timeout", "io", "protocol"}
    /\ slop \in Nat
    /\ cur \in Pages \cup {0} /\ (pc = "drain" => cur \in Pages)
    /\ open \subseteq Pages /\ finished \subseteq Pages /\ out \in Seq(Pages)
    /\ rowsRead \in [Pages -> Nat] /\ bandStart \in [Pages -> Nat]
    /\ pixels \in [Pages -> Seq(Row)]
    /\ image \in [Pages -> Seq(Row)] /\ shown \in [Pages -> Seq(Row)]

\* De-interleaving (the in_progress map): the buffer of a page holds that page's rows and no
\* other's, in the order they were sent, and never outgrows the reserve the band pointers
\* rely on.
PixelsInPlace ==
    \A p \in Pages :
        /\ Len(pixels[p]) \in rowsRead[p] .. Height
        /\ \A k \in 1 .. rowsRead[p] : pixels[p][k] = <<p, k>>

\* The ScanBand contract: the bands of a page, concatenated in arrival order, are a prefix of
\* the page while it arrives and the page itself once it is finished.
BandsReproducePage ==
    streaming =>
        /\ \A p \in open : shown[p] = SubSeq(pixels[p], 1, Len(shown[p]))
                          /\ Len(shown[p]) <= Len(pixels[p])
        /\ \A p \in Complete : shown[p] = image[p]

WholePage(p) ==
    [k \in 1 .. (IF adf THEN sent[p] ELSE Height) |-> IF k <= sent[p] THEN <<p, k>> ELSE Pad]

\* Every finished page is whole: all the rows the device sent before its marker, then white
\* up to the requested height on the flatbed and nothing on the document feeder.
FinishedPagesAreWhole ==
    \A p \in Complete : image[p] = WholePage(p)

\* The results come out by page index whatever the order the pages completed in, each once.
DocumentOrder ==
    /\ \A i, j \in DOMAIN out : i < j => out[i] < out[j]
    /\ \A i \in DOMAIN out : \A p \in finished : out[i] < p

\* kOk is a whole job: the device has sent its job-final byte, and every page of which a row
\* arrived is in the results.
OkIsWholeJob == pc = "done" /\ status = "ok" => jobFinal /\ Begun \subseteq Listed(out)

\* A device that keeps to the framing over a link that stays up is never answered with an
\* error, however its pages interleave and whatever order they complete in.
SoundJobSucceeds == pc = "done" /\ sound /\ link = "up" => status \in {"ok", "cancelled"}

\* RunScan returns: no stream, sound or not, holds the readout for ever.
Termination == <>(pc = "done")

\* What a caller of RunScan is promised (PageDelivery); the pages being flushed are complete.
Delivery == INSTANCE PageDelivery WITH
    complete <- Complete,
    result <- IF pc = "done" THEN status ELSE "running",
    out <- IF pc = "done" THEN out ELSE <<>>

DeliversPages == Delivery!Spec

=============================================================================
