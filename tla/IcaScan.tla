------------------------------ MODULE IcaScan -------------------------------
(***************************************************************************)
(* ica-module/module_main.mm: the Image Capture module.  The host selects  *)
(* parameters and starts scans; a scan runs to its end inside              *)
(* ICD_ScannerStart (RunScanSynchronous), posting notifications to the     *)
(* host.  Bands are posted as they come; in a file transfer the pages      *)
(* RunScan hands back are then written one by one.                         *)
(*                                                                         *)
(* RunScan is its contract (PageDelivery, which the readouts implement):   *)
(* bands of the pages in any interleaving, then a status and the pages.    *)
(***************************************************************************)
EXTENDS Sequences, FiniteSets, ScanTranslate

CONSTANTS
    MaxPages,           \* pages of a job
    Bands,              \* bands of a page
    ConnectAttempts,    \* kConnectAttempts
    Selections,         \* what the host may select, see ScanTranslate
    MaxRequests         \* calls of SetParameters by the host

ASSUME IcaAssumption ==
    /\ MaxPages \in Nat /\ Bands \in Nat \ {0}
    /\ ConnectAttempts \in Nat \ {0} /\ MaxRequests \in Nat
    /\ \A sel \in Selections :
          DOMAIN sel \subseteq SelectionKeys /\ \A key \in DOMAIN sel : sel[key] \in Int

VARIABLES
    device,             \* "closed" or "open": is there a DeviceContext
    unit, staged,       \* its selectedFunctionalUnit, its params and transfer settings
    retained,           \* how many retains of security-scoped URLs are outstanding
    requests, asked,    \* the host: calls made, its last selection,
    selected,           \* the unit or units that may be what it wants
    pc, attempt, job,   \* the running Start: where it is, connects made, its settings
    bands, current,     \* bands per page given to on_band, InMemoryPageSplitter
    canceled, sendFailed, finalErr, status,     \* locals of RunScanSynchronous
    pages, idx,         \* what RunScan handed back, page being written
    notes,              \* notifications posted in this scan, the bands' left out
    files               \* pages whose file has been written in this scan

hostVars == <<requests, asked, selected>>
contextVars == <<device, unit, staged, retained>>
scanVars == <<bands, current, canceled, sendFailed, status, pages>>
vars == <<contextVars, hostVars, pc, attempt, job, scanVars, finalErr, idx, notes, files>>

-----------------------------------------------------------------------------

PageIds == 1 .. MaxPages
NoTransfer == [file |-> FALSE, folder |-> FALSE, scoped |-> FALSE]
Transfers == {NoTransfer} \cup [file : {TRUE}, folder : BOOLEAN, scoped : BOOLEAN]
NoSelection == [key \in {} |-> 0]
NoJob == [params |-> DefaultParams, transfer |-> NoTransfer]

Post(note) == notes' = Append(notes, note)

Completed == {p \in PageIds : bands[p] = Bands}
Begun == {p \in PageIds : bands[p] > 0}

-----------------------------------------------------------------------------
(* Callbacks between scans.                                                 *)

OpenTCPIPDevice ==
    /\ device = "closed" /\ pc = "idle"
    /\ device' = "open"
    /\ unit' = 0 /\ staged' = NoJob
    /\ asked' = NoSelection /\ selected' = {0}
    /\ UNCHANGED <<retained, requests, pc, attempt, job, scanVars, finalErr, idx, notes, files>>

\* ReleaseScopedURL
Releases(transfer) == IF transfer.scoped THEN 1 ELSE 0

\* CloseDevice, Cleanup
CloseDevice ==
    /\ device = "open" /\ pc = "idle"
    /\ device' = "closed"
    /\ retained' = retained - Releases(staged.transfer)
    /\ UNCHANGED <<unit, staged, hostVars, pc, attempt, job, scanVars, finalErr, idx, notes,
                   files>>

\* What the host wants: the unit it names; the feeder when it switches that on; and when it
\* only switches the feeder off, the glass or the unit it chose before, which the interface
\* leaves open.  A request with neither key leaves the choice as it was.
WantedUnits(sel, wanted) ==
    IF "functional_unit" \in DOMAIN sel THEN {sel["functional_unit"]}
    ELSE IF "feeder_enabled" \notin DOMAIN sel THEN wanted
    ELSE IF sel["feeder_enabled"] = 0 THEN wanted \cup {0} ELSE {kFeederFunctionalUnit}

\* The host's selection: parameters, unit and destination replace what was staged before.
SetParameters ==
    /\ device = "open" /\ pc = "idle"
    /\ requests < MaxRequests
    /\ requests' = requests + 1
    /\ \E sel \in Selections, transfer \in Transfers :
          /\ transfer.file => transfer.folder \/ transfer.scoped
          /\ staged' = [params |-> TranslateScanParams(sel, unit), transfer |-> transfer]
          /\ unit' = IF NamesUnit(sel) THEN FunctionalUnit(sel, unit) ELSE unit
          /\ asked' = sel /\ selected' = WantedUnits(sel, selected)
          /\ retained' = retained - Releases(staged.transfer) + Releases(transfer)
    /\ UNCHANGED <<device, pc, attempt, job, scanVars, finalErr, idx, notes, files>>

\* Mutant: the context keeps the URL that the scan now owns.
StagedAfterStartKeepsURL == staged

\* The URL moves out of the context, to be released when the scan is over.
StagedAfterStart == [staged EXCEPT !.transfer.scoped = FALSE]

\* ICD_ScannerStart takes the settings, whether or not they were used before.
Start ==
    /\ device = "open" /\ pc = "idle"
    /\ job' = staged
    /\ staged' = StagedAfterStart
    /\ pc' = "connect" /\ attempt' = 0
    /\ bands' = [p \in PageIds |-> 0] /\ current' = 0
    /\ canceled' = FALSE /\ sendFailed' = FALSE /\ finalErr' = "noErr" /\ status' = "running"
    /\ pages' = 0 /\ idx' = 1 /\ notes' = <<>> /\ files' = {}
    /\ UNCHANGED <<device, unit, retained, hostVars>>

Host == OpenTCPIPDevice \/ CloseDevice \/ SetParameters \/ Start

-----------------------------------------------------------------------------
(* RunScanSynchronous.                                                      *)

Fail(error) == Post("Alert") /\ finalErr' = error

\* Mutant: nothing but the log hears of a scanner that never accepts the connection.
ConnectGivesUp ==
    /\ pc = "connect"
    /\ attempt' = attempt + 1
    /\ \/ pc' = "scan" /\ UNCHANGED <<finalErr, notes, job, retained>>
       \/ /\ attempt' < ConnectAttempts
          /\ UNCHANGED <<pc, finalErr, notes, job, retained>>
       \/ /\ attempt' = ConnectAttempts
          /\ finalErr' = "internal" /\ notes' = notes /\ pc' = "idle" /\ UNCHANGED job
          /\ retained' = retained - Releases(job.transfer)
    /\ UNCHANGED <<scanVars, idx, files>>

Connect ==
    /\ pc = "connect"
    /\ attempt' = attempt + 1
    /\ \/ pc' = "scan" /\ UNCHANGED <<finalErr, notes>>
       \/ attempt' < ConnectAttempts /\ UNCHANGED <<pc, finalErr, notes>>
       \/ attempt' = ConnectAttempts /\ Fail("internal") /\ pc' = "finish"
    /\ UNCHANGED <<retained, job, scanVars, idx, files>>

\* InMemoryPageSplitter::Observe: any change of page is a boundary.
Boundary(p) == current # 0 /\ p # current

\* What the host makes of a band: accepted or dropped, refused by the user, or not delivered.
\* The last two make on_band return false, and RunScan returns kCancelled with the pages that
\* were complete.
OnBand(p) ==
    /\ pc = "scan" /\ bands[p] < Bands
    /\ job.params.source = "kFlatbed" => p = 1
    /\ bands' = [bands EXCEPT ![p] = @ + 1]
    /\ \/ job.transfer.file /\ UNCHANGED <<current, notes>>
       \/ /\ ~job.transfer.file
          /\ current' = p
          /\ IF Boundary(p) THEN Post("PageDone") ELSE UNCHANGED notes
    /\ \/ UNCHANGED <<pc, canceled, sendFailed, status, pages>>
       \/ /\ \/ canceled' = TRUE /\ UNCHANGED sendFailed
             \/ sendFailed' = TRUE /\ UNCHANGED canceled
          /\ status' = "cancelled"
          /\ pages' = Cardinality(Completed)
          /\ pc' = "outcome"
    /\ UNCHANGED <<retained, attempt, job, finalErr, idx, files>>

\* RunScan returns by itself: a whole job, which may be empty; a lone status byte before any
\* page; or a failure.
RunScanReturns ==
    /\ pc = "scan"
    /\ \/ status' = "ok" /\ Begun = Completed /\ pages' = Cardinality(Completed)
       \/ /\ status' \in {"timeout", "io", "protocol", "busy"} \cup
                (IF Begun = {} /\ job.params.source = "kAdf"
                 THEN {"cancelled", "noPaper", "paperJam"} ELSE {})
          /\ pages' = 0
    /\ pc' = "outcome"
    /\ UNCHANGED <<retained, attempt, job, bands, current, canceled, sendFailed, finalErr, idx,
                   notes, files>>

\* ClassifyScanOutcome
ScanOutcome ==
    CASE status = "ok" -> "ok"
      [] status = "cancelled" -> "canceled"
      [] status = "paperJam" -> "paperJam"
      [] job.params.source = "kAdf" /\ pages = 0 /\ status \in {"noPaper", "timeout"} -> "feederEmpty"
      [] OTHER -> "failed"

\* Mutant: only the host's cancel is remembered, not the one at the printer.
ConcludeForgetsCancel ==
    /\ pc = "outcome"
    /\ pc' = IF ScanOutcome = "ok" /\ job.transfer.file THEN "file" ELSE "guard"
    /\ \/ (sendFailed \/ ScanOutcome \notin {"canceled", "ok"}) /\ Fail("internal")
       \/ ~sendFailed /\ ScanOutcome = "canceled" /\ Post("TransactionCanceled")
          /\ UNCHANGED finalErr
       \/ ScanOutcome = "ok" /\ UNCHANGED <<finalErr, notes>>
    /\ UNCHANGED <<retained, attempt, job, scanVars, idx, files>>

\* A band that was not delivered overrides the kCancelled it led to.
Conclude ==
    /\ pc = "outcome"
    /\ \/ /\ sendFailed \/ ScanOutcome \notin {"canceled", "ok"}
          /\ Fail(IF ~sendFailed /\ ScanOutcome \in {"feederEmpty", "paperJam"}
                  THEN "didNotComplete" ELSE "internal")
          /\ UNCHANGED canceled
          /\ pc' = "guard"
       \/ /\ ~sendFailed /\ ScanOutcome = "canceled"
          /\ Post("TransactionCanceled")
          /\ canceled' = TRUE
          /\ UNCHANGED finalErr
          /\ pc' = "guard"
       \/ /\ ScanOutcome = "ok"
          /\ pc' = IF job.transfer.file THEN "file" ELSE "guard"
          /\ UNCHANGED <<canceled, finalErr, notes>>
    /\ UNCHANGED <<retained, attempt, job, bands, current, sendFailed, status, pages, idx,
                   files>>

\* Mutant: one page too many.
PageLeftOneMore == idx <= pages + 1

PageLeft == idx <= pages

\* A color page whose JPEG does not decode is left out, and the scan fails.
SkipPage ==
    /\ pc = "file" /\ PageLeft
    /\ finalErr' = "internal"
    /\ idx' = idx + 1
    /\ UNCHANGED <<retained, attempt, pc, job, scanVars, notes, files>>

\* Mutant: a page that could not be written does not stop the next.
PostFilePageCarriesOn ==
    /\ pc = "file" /\ PageLeft
    /\ idx' = idx + 1
    /\ \/ files' = files \cup {idx} /\ Post("PageDonePath") /\ UNCHANGED finalErr
       \/ Fail("internal") /\ UNCHANGED files
    /\ UNCHANGED <<retained, attempt, pc, job, scanVars>>

HasDestination == job.transfer.scoped \/ job.transfer.folder

\* PostFilePage: write the page, then announce it; a page that cannot be written is announced
\* without a path and ends the loop.
PostFilePage ==
    /\ pc = "file" /\ PageLeft
    /\ \/ /\ HasDestination
          /\ files' = files \cup {idx}
          /\ Post("PageDonePath")
          /\ idx' = idx + 1
          /\ UNCHANGED <<pc, finalErr>>
       \/ /\ notes' = notes \o (IF HasDestination THEN <<"PageDone", "Alert">>
                                ELSE <<"Alert">>)
          /\ finalErr' = "internal"
          /\ pc' = "guard"
          /\ UNCHANGED <<idx, files>>
    /\ UNCHANGED <<retained, attempt, job, scanVars>>

FilesDone ==
    /\ pc = "file" /\ ~PageLeft
    /\ pc' = "guard"
    /\ UNCHANGED <<retained, attempt, job, scanVars, finalErr, idx, notes, files>>

\* Mutant: without the guard.
NoGuard ==
    /\ pc = "guard" /\ pc' = "finish"
    /\ UNCHANGED <<retained, attempt, job, scanVars, finalErr, idx, notes, files>>

\* The anti-hang guard: a scan that ended well yet handed back no page is a failure.
AntiHangGuard ==
    /\ pc = "guard"
    /\ IF finalErr = "noErr" /\ ~canceled /\ pages = 0
       THEN Fail("internal") ELSE UNCHANGED <<finalErr, notes>>
    /\ pc' = "finish"
    /\ UNCHANGED <<retained, attempt, job, scanVars, idx, files>>

\* ScannerScanDone, then Start releases the URL.
Finish ==
    /\ pc = "finish"
    /\ Post(IF canceled \/ finalErr = "noErr" THEN "ScanDone" ELSE "ScanDoneError")
    /\ retained' = retained - Releases(job.transfer)
    /\ job' = [job EXCEPT !.transfer.scoped = FALSE]
    /\ pc' = "idle"
    /\ UNCHANGED <<attempt, scanVars, finalErr, idx, files>>

Scan ==
    /\ \/ Connect \/ (\E p \in PageIds : OnBand(p)) \/ RunScanReturns \/ Conclude
       \/ SkipPage \/ PostFilePage \/ FilesDone \/ AntiHangGuard \/ Finish
    /\ UNCHANGED <<device, unit, staged, hostVars>>

-----------------------------------------------------------------------------

Init ==
    /\ device = "closed" /\ unit = 0 /\ staged = NoJob /\ retained = 0
    /\ requests = 0 /\ asked = NoSelection /\ selected = {0}
    /\ pc = "idle" /\ attempt = 0 /\ job = NoJob
    /\ bands = [p \in PageIds |-> 0] /\ current = 0
    /\ canceled = FALSE /\ sendFailed = FALSE /\ finalErr = "noErr" /\ status = "running"
    /\ pages = 0 /\ idx = 1 /\ notes = <<>> /\ files = {}

Next == Host \/ Scan

\* A scan runs on the callback thread until it is over: RunScan always returns, the host
\* answers every band.
Spec == Init /\ [][Next]_vars /\ WF_vars(Scan)

-----------------------------------------------------------------------------

Last(s) == s[Len(s)]
Count(s, kind) == Cardinality({i \in DOMAIN s : s[i] = kind})
Ended == pc = "idle" /\ notes # <<>>

\* Types of every variable.
TypeOK ==
    /\ device \in {"closed", "open"} /\ unit \in Int
    /\ asked \in Selections \cup {NoSelection} /\ selected \subseteq Int
    /\ {staged, job} \subseteq
          [params : ScanParams, transfer : [file : BOOLEAN, folder : BOOLEAN, scoped : BOOLEAN]]
    /\ retained \in Nat /\ requests \in 0 .. MaxRequests
    /\ pc \in {"idle", "connect", "scan", "outcome", "file", "guard", "finish"}
    /\ attempt \in 0 .. ConnectAttempts
    /\ bands \in [PageIds -> 0 .. Bands] /\ current \in PageIds \cup {0}
    /\ canceled \in BOOLEAN /\ sendFailed \in BOOLEAN
    /\ finalErr \in {"noErr", "internal", "didNotComplete"}
    /\ status \in {"running", "ok", "cancelled", "noPaper", "paperJam", "timeout", "io",
                   "protocol", "busy"}
    /\ pages \in 0 .. MaxPages /\ idx \in 1 .. MaxPages + 1 /\ files \subseteq PageIds
    /\ notes \in Seq({"Alert", "PageDone", "PageDonePath", "TransactionCanceled", "ScanDone",
                      "ScanDoneError"})

\* A scan that is reported done without an error was cancelled by the user, or everything the
\* host asked for is with it: at least one page, and in a file transfer a file for each, all
\* of them announced.
DoneIsTrue ==
    Ended /\ Last(notes) = "ScanDone" =>
        \/ canceled /\ ~sendFailed
        \/ /\ pages > 0 /\ pages = Cardinality(Begun)
           /\ job.transfer.file => files = 1 .. pages /\ Count(notes, "PageDonePath") = pages

\* The host is alerted at most once in a scan, and never in one it hears no error of.
OneAlert ==
    /\ Count(notes, "Alert") <= 1
    /\ Ended /\ Last(notes) = "ScanDone" => Count(notes, "Alert") = 0

\* A cancel, by the host or at the printer, is signalled once, ends the scan without an alert
\* and writes no file.
CancelIsClean ==
    Ended /\ status = "cancelled" /\ ~sendFailed =>
        /\ Count(notes, "Alert") = 0 /\ files = {}
        /\ Len(notes) > 1 /\ notes[Len(notes) - 1] = "TransactionCanceled"
        /\ Count(notes, "TransactionCanceled") = 1
        /\ Last(notes) = "ScanDone"

\* Every retain of a security-scoped URL has one owner, the context or the running scan, and
\* none outlives the device: across requests that replace each other, scans that follow each
\* other without a request, and a close.
URLHasOneOwner ==
    retained = (IF device = "open" THEN Releases(staged.transfer) ELSE 0)
               + Releases(job.transfer)

\* A scan runs on the unit the host last chose, even if the request for it names none and
\* however many requests came in between; if all it has done since is to switch the feeder
\* off, the glass will do as well.  Whatever it asks, the parameters are well formed, and if it
\* keeps to what it was offered of that unit, the window lies on it (SetParameters,
\* scan_translate.cpp).
ScansSelectedUnit ==
    pc # "idle" =>
        /\ \E wanted \in selected : job.params.source = SourceOf(wanted)
        /\ WellFormed(job.params)
        /\ Offered(asked, job.params.source) => OnUnit(job.params)

\* Start returns, and not before the host has been told that the scan is done.
ScanIsReportedDone ==
    pc # "idle" ~> pc = "idle" /\ notes # <<>> /\ Last(notes) \in {"ScanDone", "ScanDoneError"}

=============================================================================
