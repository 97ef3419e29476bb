---------------------------- MODULE ButtonPress -----------------------------
(***************************************************************************)
(* One press of the scan button, from the event to its action:             *)
(* HandleButtonEvent (daemon/handle_event.mm), the writers it calls        *)
(* (output/output_writer.mm, output/page_writer.cpp) and PerformAction     *)
(* (daemon/actions.cpp).  RunButtonScan is its contract: it calls the plan *)
(* back once with the printer's frame, then returns a status, with the     *)
(* pages when that is kOk.                                                 *)
(***************************************************************************)
EXTENDS ButtonPlan

CONSTANTS
  Frames,        \* configuration commands the printer may push
  Configs,       \* texts of configuration files
  MaxPages       \* pages of a scan

ASSUME PressAssumption ==
  /\ MaxPages \in Nat
  /\ Frames \subseteq [framed: BOOLEAN, lines: Seq([key: STRING, value: STRING])]
  /\ Configs \subseteq Seq([key: STRING \X STRING, value: Seq(STRING)])

VARIABLES
  pc,
  func, cfg,     \* the event's FUNC and the configuration
  plan,          \* what PlanButtonScan decided
  pages,         \* the pages on their way to the writer
  scanned,       \* history: the pages as RunButtonScan returned them
  tempdir,       \* does EMAIL's temporary directory exist?
  armed,         \* is temp_dir_cleanup armed?
  files,         \* the files of this press that exist, by path
  written,       \* the paths the writer reports
  next,          \* index of the next document to write
  failed,        \* WritePages: has a page failed?
  handed,        \* history: the files given to the command of the action
  saved_path,
  status

vars == <<pc, func, cfg, plan, pages, scanned, tempdir, armed, files, written, next, failed,
          handed, saved_path, status>>

NoPath == <<"none", 0>>
Looks == {"printed", "blank", "unreadable"}
Page == [sheet: 1 .. MaxPages, look: Looks, rotated: BOOLEAN]
Statuses == {"none", "kOk", "kBusy", "kNoPaper", "kCancelled", "kTimeout", "kIoError", "kProtocolError"}
Readable(page) == page.look # "unreadable"
IsEmail == func = "EMAIL"

-----------------------------------------------------------------------------
(* The documents a format makes of the pages, and their paths. *)
PerPage(output) == output.format \in {"kNative", "kJpeg", "kPng", "kHeic", "kJpeg2000", "kGif", "kBmp"}
TextSink(output) == output.format \in {"kText", "kHtml", "kRtf"}

PagesPerDocument(output, total) ==
  CASE PerPage(output) -> 1
    [] ~PerPage(output) /\ ~TextSink(output) /\ output.separation # "kCombine" -> output.separate_n
    [] OTHER -> total

NumDocs(output, total) ==
  LET per == PagesPerDocument(output, total) IN (total + per - 1) \div per

Document(output, i) ==
  LET total == Len(pages)
      per == PagesPerDocument(output, total)
      last == i * per
  IN  SubSeq(pages, (i - 1) * per + 1, IF last > total THEN total ELSE last)

(* PagePath and DocPath: numbered only when there are several. *)
DocPath(output, i) ==
  <<IF IsEmail THEN "temp" ELSE "save_dir", IF NumDocs(output, Len(pages)) = 1 THEN 0 ELSE i>>

(* What writing one document may come to: a status, and the file it leaves. *)
Left(st, file) == [status |-> st, file |-> file]

WriteOutput ==
  {Left("kOk", "whole"), Left("kIoError", "none"), Left("kIoError", "broken")}

WriteSearchablePdf(output) ==
  {Left("kOk", "whole"), Left("kIoError", "none")}
    \cup (IF output.searchable THEN {Left("kProtocolError", "broken")} ELSE {})

(* A destination that is not finalized is unlinked (RemovePartialFile). *)
EncodeImages == {Left("kOk", "whole"), Left("kIoError", "none")}
WriteRecognizedText == EncodeImages \cup {Left("kProtocolError", "none")}

WriteDocument(output, doc) ==
  CASE output.format = "kNative" -> WriteOutput
    [] output.format # "kNative" /\ ~(\A i \in DOMAIN doc : Readable(doc[i])) ->
         {Left("kIoError", "none")}
    [] output.format = "kPdf" /\ (\A i \in DOMAIN doc : Readable(doc[i])) ->
         WriteSearchablePdf(output)
    [] TextSink(output) /\ (\A i \in DOMAIN doc : Readable(doc[i])) -> WriteRecognizedText
    [] OTHER -> EncodeImages

-----------------------------------------------------------------------------
\* Mutant: no guard.
ReturnUnguarded(st) ==
  /\ pc' = "done"
  /\ status' = st
  /\ UNCHANGED <<tempdir, armed, files>>

(* An early return: the guard removes the temporary directory.              *)
Return(st) ==
  /\ pc' = "done"
  /\ status' = st
  /\ tempdir' = IF armed THEN FALSE ELSE tempdir
  /\ files' = IF armed THEN <<>> ELSE files
  /\ armed' = FALSE

scanVars == <<func, cfg, plan, pages, scanned>>
writeVars == <<written, next, failed>>
actionVars == <<handed, saved_path>>
dirVars == <<tempdir, armed, files>>

Press(f, text) ==
  /\ pc = "idle"
  /\ func' = f /\ cfg' = ParseConfig(text)
  /\ pc' = IF IsKnownFunc(f) THEN "plan" ELSE "done"
  /\ status' = IF IsKnownFunc(f) THEN status ELSE "kProtocolError"
  /\ UNCHANGED <<plan, pages, scanned, dirVars, writeVars, actionVars>>

(* RunButtonScan fails before the printer has pushed its command.           *)
ScanFailsEarly(st) ==
  /\ pc = "plan"
  /\ Return(st)
  /\ UNCHANGED <<scanVars, writeVars, actionVars>>

(* The callback: without a plan RunButtonScan answers kProtocolError.       *)
Plan(frame) ==
  /\ pc = "plan"
  /\ plan' = PlanButtonScan(frame, func, cfg)
  /\ IF plan' = NoPlan
     THEN Return("kProtocolError")
     ELSE pc' = "scan" /\ UNCHANGED <<status, dirVars>>
  /\ UNCHANGED <<func, cfg, pages, scanned, writeVars, actionVars>>

ScanFails(st) ==
  /\ pc = "scan"
  /\ Return(st)
  /\ UNCHANGED <<scanVars, writeVars, actionVars>>

ScanEnds(looks) ==
  /\ pc = "scan"
  /\ pages' = [i \in DOMAIN looks |-> [sheet |-> i, look |-> looks[i], rotated |-> FALSE]]
  /\ scanned' = pages'
  /\ IF looks = <<>>
     THEN Return("kProtocolError")
     ELSE pc' = "pages" /\ UNCHANGED <<status, dirVars>>
  /\ UNCHANGED <<func, cfg, plan, writeVars, actionVars>>

(* Rotation and the blank filter: a page that cannot be decoded or rotated  *)
(* stays as it is, and one page is kept when all of them look blank.        *)
Rotate(page, fails) ==
  [page EXCEPT !.rotated = plan.high_speed /\ Readable(page) /\ page.sheet \notin fails]

\* Mutant: a page that cannot be decoded counts as blank.
IsBlankUnlessPrinted(page) == page.look # "printed"

IsBlankPage(page) == page.look = "blank"

(* Kept one after the other, as the loop over the pages does. *)
Filtered(seq, Keep(_)) ==
  FoldLeft(LAMBDA kept, page : IF Keep(page) THEN Append(kept, page) ELSE kept, <<>>, seq)

SkipBlank(seq) ==
  LET kept == Filtered(seq, LAMBDA page : ~IsBlankPage(page))
  IN  IF ~plan.skip_blank THEN seq ELSE IF kept = <<>> THEN <<seq[1]>> ELSE kept

ProcessPages(fails) ==
  /\ pc = "pages"
  /\ pages' = SkipBlank([i \in DOMAIN pages |-> Rotate(pages[i], fails)])
  /\ pc' = IF IsEmail THEN "tempdir" ELSE "path"
  /\ UNCHANGED <<func, cfg, plan, scanned, dirVars, writeVars, actionVars, status>>

NoTempDir ==
  /\ pc = "tempdir"
  /\ Return("kIoError")
  /\ UNCHANGED <<scanVars, writeVars, actionVars>>

MakeTempDir ==
  /\ pc = "tempdir"
  /\ tempdir' = TRUE /\ armed' = TRUE
  /\ pc' = "path"
  /\ UNCHANGED <<scanVars, files, writeVars, actionVars, status>>

(* A path that cannot be resolved is refused, before and after the write.   *)
Refuse ==
  /\ pc \in {"path", "check"}
  /\ Return("kIoError")
  /\ UNCHANGED <<scanVars, writeVars, actionVars>>

PathAccepted ==
  /\ pc = "path"
  /\ pc' = "write"
  /\ UNCHANGED <<scanVars, dirVars, writeVars, actionVars, status>>

-----------------------------------------------------------------------------
(* WriteConfiguredOutput, one document a step.  WritePages goes on after a  *)
(* page that failed and reports all or none; the others stop there.         *)
StopsAtFailure == plan.output.format # "kNative"

WriteNext ==
  /\ pc = "write" /\ next <= NumDocs(plan.output, Len(pages))
  /\ LET doc == Document(plan.output, next)
         path == DocPath(plan.output, next)
     IN  \E left \in WriteDocument(plan.output, doc) :
           LET there == IF left.file = "none" THEN files
                        ELSE [p \in DOMAIN files \cup {path} |->
                                IF p = path THEN [pages |-> doc, whole |-> left.file = "whole"]
                                ELSE files[p]]
           IN  IF left.status # "kOk" /\ StopsAtFailure
               THEN /\ pc' = "unwind" /\ status' = left.status
                    /\ files' = there
                    /\ UNCHANGED writeVars
               ELSE /\ next' = next + 1
                    /\ failed' = (failed \/ left.status # "kOk")
                    /\ written' = Append(written, path)
                    /\ files' = there
                    /\ UNCHANGED <<pc, status>>
  /\ UNCHANGED <<scanVars, tempdir, armed, actionVars>>

(* The writer's failure, returned through HandleButtonEvent.                *)
Unwind ==
  /\ pc = "unwind"
  /\ Return(status)
  /\ UNCHANGED <<scanVars, writeVars, actionVars>>

\* Mutant: the result of WritePages is ignored.
WriteEndsUnchecked ==
  /\ pc = "write" /\ next > NumDocs(plan.output, Len(pages))
  /\ pc' = "check"
  /\ UNCHANGED <<scanVars, dirVars, writeVars, actionVars, status>>

WriteEnds ==
  /\ pc = "write" /\ next > NumDocs(plan.output, Len(pages))
  /\ IF failed
     THEN Return("kIoError")
     ELSE pc' = "check" /\ UNCHANGED <<dirVars, status>>
  /\ UNCHANGED <<scanVars, writeVars, actionVars>>

(* From here the action decides what becomes of the temporary directory.    *)
HandOver ==
  /\ pc = "check"
  /\ saved_path' = IF IsEmail THEN saved_path ELSE written[1]
  /\ armed' = FALSE
  /\ pc' = "action"
  /\ UNCHANGED <<scanVars, tempdir, files, writeVars, handed, status>>

-----------------------------------------------------------------------------
(* PerformAction.  FILE and OCR have their deliverable already.             *)
NoAction ==
  /\ pc = "action" /\ func \in {"FILE", "OCR"}
  /\ status' = "kOk" /\ pc' = "done"
  /\ UNCHANGED <<scanVars, dirVars, writeVars, actionVars>>

PerformImageAction(rc) ==
  /\ pc = "action" /\ func = "IMAGE"
  /\ handed' = written
  /\ status' = IF rc = 0 THEN "kOk" ELSE "kIoError"
  /\ pc' = "done"
  /\ UNCHANGED <<scanVars, dirVars, writeVars, saved_path>>

(* Mail has its copies once osascript succeeds; otherwise the files stay.   *)
PerformEmailAction(rc) ==
  /\ pc = "action" /\ IsEmail
  /\ handed' = written
  /\ status' = IF rc = 0 THEN "kOk" ELSE "kIoError"
  /\ files' = IF rc = 0 THEN Restrict(files, DOMAIN files \ Range(written)) ELSE files
  /\ pc' = "cleanup"
  /\ UNCHANGED <<scanVars, tempdir, armed, writeVars, saved_path>>

EmailCleanup ==
  /\ pc = "cleanup"
  /\ IF status = "kOk"
     THEN tempdir' = FALSE /\ files' = <<>> /\ UNCHANGED saved_path
     ELSE saved_path' = written[1] /\ UNCHANGED <<tempdir, files>>
  /\ pc' = "done"
  /\ UNCHANGED <<scanVars, armed, writeVars, handed, status>>

-----------------------------------------------------------------------------

Init ==
  /\ pc = "idle" /\ func = "FILE" /\ cfg = DefaultConfig /\ plan = NoPlan
  /\ pages = <<>> /\ scanned = <<>>
  /\ tempdir = FALSE /\ armed = FALSE /\ files = <<>>
  /\ written = <<>> /\ next = 1 /\ failed = FALSE
  /\ handed = <<>> /\ saved_path = NoPath /\ status = "none"

ScanErrors == {"kBusy", "kNoPaper", "kCancelled", "kTimeout", "kIoError", "kProtocolError"}

Next ==
  \/ \E f \in Range(Funcs) \cup {"FAX"}, text \in Configs : Press(f, text)
  \/ \E st \in ScanErrors : ScanFailsEarly(st) \/ ScanFails(st)
  \/ \E frame \in Frames : Plan(frame)
  \/ \E n \in 0 .. MaxPages : \E looks \in [1 .. n -> Looks] : ScanEnds(looks)
  \/ \E fails \in SUBSET (1 .. MaxPages) : ProcessPages(fails)
  \/ NoTempDir \/ MakeTempDir \/ Refuse \/ PathAccepted
  \/ WriteNext \/ Unwind \/ WriteEnds \/ HandOver
  \/ NoAction \/ (\E rc \in {0, 1} : PerformImageAction(rc) \/ PerformEmailAction(rc))
  \/ EmailCleanup

Spec == Init /\ [][Next]_vars

-----------------------------------------------------------------------------
(* Properties. *)

Sheets(seq) == [i \in DOMAIN seq |-> seq[i].sheet]
Delivered == FlattenSeq([i \in DOMAIN written |-> Sheets(files[written[i]].pages)])
Printed(seq) == Filtered(seq, LAMBDA page : page.look # "blank")
Kept ==
  LET printed == Printed(scanned)
  IN  IF ~plan.skip_blank THEN scanned ELSE IF printed = <<>> THEN <<scanned[1]>> ELSE printed

(* The fields of a press have their types. *)
TypeOK ==
  /\ pc \in {"idle", "plan", "scan", "pages", "tempdir", "path", "write", "unwind", "check",
             "action", "cleanup", "done"}
  /\ func \in Range(Funcs) \cup {"FAX"}
  /\ \A f \in Range(Funcs) : cfg.dest[f] \in Settings
  /\ Range(pages) \cup Range(scanned) \subseteq Page
  /\ tempdir \in BOOLEAN /\ armed \in BOOLEAN /\ failed \in BOOLEAN
  /\ \A path \in DOMAIN files : files[path].whole \in BOOLEAN /\ Range(files[path].pages) \subseteq Page
  /\ next \in 1 .. MaxPages + 1
  /\ status \in Statuses

(* The action runs on the scan and nothing else: when the hand-over is made *)
(* (handle_event.mm:473) the written files are the files that exist, they   *)
(* are whole, and one after the other they hold every sheet that was        *)
(* scanned, in order, minus the blank ones when those are to be skipped and *)
(* never minus all of them, whatever failed to decode or to rotate and      *)
(* however the format cuts the scan into documents.                         *)
ActsOnWholeScan ==
  pc = "action" =>
    /\ Range(written) = DOMAIN files
    /\ IsInjective(written)
    /\ \A path \in DOMAIN files : files[path].whole
    /\ Delivered = Sheets(Kept)

(* A press of EMAIL keeps no copy: when it is over its temporary directory  *)
(* and the files in it are gone, unless Mail did not take them; then the    *)
(* scan is still there, and saved_path says where                           *)
(* (handle_event.mm:342-352, 484-491; issue #20).                           *)
EmailLeavesNothing ==
  pc = "done" /\ IsEmail =>
    IF handed # <<>> /\ status # "kOk"
    THEN tempdir /\ saved_path = handed[1] /\ Delivered = Sheets(Kept)
    ELSE ~tempdir /\ files = <<>> /\ saved_path = NoPath

(* saved_path names a whole file of this press, or nothing: it is set when  *)
(* the press kept its output, and a press whose write failed points its     *)
(* caller at none of the files it left behind (handle_event.h, *saved_path).*)
SavedPathIsThere ==
  pc = "done" =>
    /\ saved_path # NoPath => saved_path \in DOMAIN files /\ files[saved_path].whole
    /\ saved_path # NoPath <=> IF IsEmail THEN handed # <<>> /\ status # "kOk"
                                          ELSE handed # <<>> \/ status = "kOk"

(* Whatever the printer pushes and the file says, what is scanned and       *)
(* written can be: the area is not empty (the offer of a feeder has no      *)
(* height to fall back on, button_plan.cpp:170-176), recognized text is     *)
(* only asked for OCR, and the text layer only in a PDF of OCR.             *)
PlanIsScannable ==
  plan # NoPlan =>
    /\ plan.params.dpi > 0
    /\ plan.params.area.x0 < plan.params.area.x1
    /\ plan.params.area.y0 < plan.params.area.y1
    /\ TextSink(plan.output) => func = "OCR"
    /\ plan.output.searchable <=> func = "OCR" /\ plan.output.format = "kPdf"

(* "A failed encode must not leave a broken/empty file behind in save_dir"  *)
(* (output_writer.mm:143-146): no encoded file that remains is broken.      *)
NoBrokenFileLeft ==
  pc = "done" /\ plan # NoPlan /\ plan.output.format # "kNative" =>
    \A path \in DOMAIN files : files[path].whole
=============================================================================
