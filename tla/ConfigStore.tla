---------------------------- MODULE ConfigStore -----------------------------
(***************************************************************************)
(* The configuration app's side of the configuration file: ConfigStore     *)
(* (BrscanConfigApp), which loads the file, edits it and saves it, and the *)
(* line-preserving ConfigDocument and DaemonConfig (BrscanConfigCore) it   *)
(* does that with.  The file is also written by an editor, and what it     *)
(* means is what the daemon reads in it (DaemonConfig!ParseConfig).        *)
(*                                                                         *)
(* The app keeps a value for each key it owns, in the spelling it writes;  *)
(* the keys and the lines are those of DaemonConfig.                       *)
(***************************************************************************)
EXTENDS DaemonConfig

CONSTANTS
  Versions,      \* what an editor may make of the file: [lines, readable]
  Edits,         \* what a user may change in the app: [key, value]
  MaxEdits,      \* bound on the changes in the app,
  MaxVersions,   \* on the writes of the editor
  MaxCrashes     \* and on the crashes of the app

ASSUME StoreAssumption ==
  /\ MaxEdits \in Nat /\ MaxVersions \in Nat /\ MaxCrashes \in Nat
  /\ \A version \in Versions : version.lines \in Seq([key : STRING \X STRING, value : Seq(STRING)])

VARIABLES
  file,        \* the configuration file, or NoFile
  temp,        \* the temporary file of the save at hand, or NoFile
  pc,
  loadState, document, view, lastSaved,
  job,         \* what the save at hand writes
  outcome,     \* of the last save
  saved,       \* history: is the file one the app saved?
  edited,      \* history: has the file changed since the app last read or wrote it?
  edits, versions, crashes

vars == <<file, temp, pc, loadState, document, view, lastSaved, job, outcome, saved, edited,
          edits, versions, crashes>>

-----------------------------------------------------------------------------
(* ConfigDocument: the lines of a file and the last one of a key.           *)
Active(lines, key) == {i \in DOMAIN lines : lines[i].key = key}
LastOf(S) == CHOOSE i \in S : \A j \in S : j <= i

Line(key, value) == [key |-> key, value |-> value]

\* Mutant: the first line of a key is the one that is replaced.
SetFirstValue(lines, key, value) ==
  IF Active(lines, key) = {} THEN Append(lines, Line(key, value))
  ELSE [lines EXCEPT ![CHOOSE i \in Active(lines, key) : \A j \in Active(lines, key) : i <= j] =
          Line(key, value)]

SetValue(lines, key, value) ==
  IF Active(lines, key) = {} THEN Append(lines, Line(key, value))
  ELSE [lines EXCEPT ![LastOf(Active(lines, key))] = Line(key, value)]

Without(lines, keys) ==
  FoldLeft(LAMBDA kept, line : IF line.key \in keys THEN kept ELSE Append(kept, line), <<>>, lines)

RemoveValue(lines, key) == Without(lines, {key})

-----------------------------------------------------------------------------
(* The keys the app owns, their defaults and their spellings.               *)
GeneralKeys ==
  <<<<"", "printer_host">>, <<"", "display_name">>, <<"", "save_dir">>, <<"", "image_app">>,
    <<"", "email_to">>>>
RouteFields(dest) ==
  <<"mode", "source", "dpi", "format", "tiff_compression", "separation", "paper">>
    \o (IF dest = "ocr" THEN <<"ocr_format">> ELSE <<>>)
    \o <<"high_speed", "skip_blank", "jpeg_quality">>
RouteKeys(dest) == [i \in DOMAIN RouteFields(dest) |-> <<dest, RouteFields(dest)[i]>>]
OwnedKeys ==
  GeneralKeys \o RouteKeys("file") \o RouteKeys("image") \o RouteKeys("ocr") \o RouteKeys("email")

FieldDefault ==
  [printer_host |-> <<>>, display_name |-> <<>>, save_dir |-> <<"~", "Scans">>,
   image_app |-> <<>>, email_to |-> <<>>,
   mode |-> <<"color">>, source |-> <<"flatbed">>, dpi |-> <<"300">>, format |-> <<"native">>,
   tiff_compression |-> <<"lzw">>, separation |-> <<"combine">>, paper |-> <<>>,
   ocr_format |-> <<"pdf">>, high_speed |-> <<"off">>, skip_blank |-> <<"off">>,
   jpeg_quality |-> <<"90">>]
DefaultView == [key \in Range(OwnedKeys) |-> FieldDefault[key[2]]]

OptionSets ==
  [mode |-> {"color", "gray", "bw", "errdiff", "truegray"},
   source |-> {"flatbed", "adf", "adf-duplex"},
   format |-> {"native", "pdf", "tiff", "jpeg", "png", "heic", "jp2", "gif", "bmp"},
   tiff_compression |-> {"lzw", "g3", "g4"},
   ocr_format |-> {"pdf", "txt", "html", "rtf"},
   dpi |-> {w \in DOMAIN Literal : Literal[w] > 0}]

Spelled(n) == CHOOSE w \in DOMAIN Literal : Literal[w] = n
Clamp(n) == IF n < 0 THEN 0 ELSE IF n > 100 THEN 100 ELSE n

(* A value as the app takes it over; one it cannot read gives the default. *)
SeparationCodec(value) ==
  CASE value \in {<<"combine">>, <<"off">>} -> <<"combine">>
    [] /\ Len(value) = 2 /\ value[1] \in {"image", "page", "every"}
       /\ value[2] \in OptionSets.dpi ->
         <<IF value[1] = "page" THEN "page" ELSE "image", value[2]>>
    [] OTHER -> FieldDefault.separation

BoolToken(value, default) ==
  CASE value \in {<<"on">>, <<"true">>, <<"yes">>, <<"1">>} -> <<"on">>
    [] value \in {<<"off">>, <<"false">>, <<"no">>, <<"0">>} -> <<"off">>
    [] OTHER -> default

JpegToken(value, default) ==
  IF Len(value) = 1 /\ value[1] \in DOMAIN Literal THEN <<Spelled(Clamp(Literal[value[1]]))>>
  ELSE default

FromValue(field, value) ==
  CASE field \in DOMAIN OptionSets ->
         IF Len(value) = 1 /\ value[1] \in OptionSets[field] THEN value ELSE FieldDefault[field]
    [] field = "separation" -> SeparationCodec(value)
    [] field \in {"high_speed", "skip_blank"} -> BoolToken(value, FieldDefault[field])
    [] field = "jpeg_quality" -> JpegToken(value, FieldDefault[field])
    [] OTHER -> value

(* The defaults are spelled as numbers are, a quality that is clamped has a *)
(* spelling, and the controls of the app offer values it would take over.   *)
ASSUME SpellingAssumption ==
  /\ "300" \in OptionSets.dpi
  /\ "90" \in DOMAIN Literal /\ Literal["90"] = 90 /\ Spelled(90) = "90"
  /\ \A w \in DOMAIN Literal : \E u \in DOMAIN Literal : Literal[u] = Clamp(Literal[w])
ASSUME EditAssumption ==
  \A change \in Edits : /\ change.key \in Range(OwnedKeys)
                         /\ FromValue(change.key[2], change.value) = change.value

From(lines) ==
  [key \in Range(OwnedKeys) |->
     IF Active(lines, key) = {} THEN FieldDefault[key[2]]
     ELSE FromValue(key[2], lines[LastOf(Active(lines, key))].value)]

-----------------------------------------------------------------------------
(* The view models: the formats a mode excludes, and what OCR pins.         *)
AllowedFormats(mode) ==
  OptionSets.format \ (CASE mode \in {<<"gray">>, <<"truegray">>} -> {"heic"}
                         [] mode \in {<<"bw">>, <<"errdiff">>} -> {"heic", "jpeg", "jp2"}
                         [] OTHER -> {})

CoerceFormat(v) ==
  [key \in DOMAIN v |->
     IF key[2] = "format" /\ v[key][1] \notin AllowedFormats(v[<<key[1], "mode">>])
     THEN <<"pdf">> ELSE v[key]]

OcrRoute(v) ==
  [v EXCEPT ![<<"ocr", "format">>] = <<"pdf">>,
            ![<<"ocr", "tiff_compression">>] = FieldDefault.tiff_compression,
            ![<<"ocr", "jpeg_quality">>] = FieldDefault.jpeg_quality]

ViewOf(lines) == OcrRoute(CoerceFormat(From(lines)))

(* DaemonConfig.apply: an empty display_name is left out, so that the       *)
(* daemon falls back to the name of the host.                               *)
ApplyValue(v, doc, key) ==
  IF key = <<"", "display_name">> /\ v[key] = <<>> THEN RemoveValue(doc, key)
  ELSE SetValue(doc, key, v[key])
Apply(v, lines) == FoldLeft(LAMBDA doc, key : ApplyValue(v, doc, key), lines, OwnedKeys)

-----------------------------------------------------------------------------
NoFile == [lines |-> <<>>, readable |-> FALSE, whole |-> FALSE]
NoJob == [lines |-> <<>>, config |-> <<>>, starter |-> FALSE]
Whole(lines) == [lines |-> lines, readable |-> TRUE, whole |-> TRUE]
StarterHeader == <<Line(NoKey, <<"# created by the Brscan Config app">>), Line(NoKey, <<>>)>>

historyVars == <<saved, edited>>
bounds == <<edits, versions, crashes>>
appVars == <<loadState, document, view, lastSaved>>

isDirty == view # lastSaved

(* A new process: an empty document and the default values; the default     *)
(* OCR tab already differs from the default configuration.                  *)
Fresh ==
  /\ loadState' = "notLoaded" /\ document' = <<>>
  /\ view' = OcrRoute(DefaultView) /\ lastSaved' = DefaultView

Launch ==
  /\ pc = "closed"
  /\ Fresh
  /\ pc' = "load"
  /\ outcome' = "none"
  /\ UNCHANGED <<file, temp, job, historyVars, bounds>>

(* The window appears again, or Retry.                                      *)
Reload ==
  /\ pc = "idle"
  /\ pc' = "load"
  /\ UNCHANGED <<file, temp, appVars, job, outcome, historyVars, bounds>>

LoadMissing ==
  /\ pc = "load" /\ file = NoFile
  /\ loadState' = "missing"
  /\ pc' = "idle" /\ edited' = FALSE
  /\ UNCHANGED <<file, temp, document, view, lastSaved, job, outcome, saved, bounds>>

LoadFails ==
  /\ pc = "load" /\ file # NoFile /\ ~file.readable
  /\ loadState' = "loadFailed"
  /\ pc' = "idle"
  /\ UNCHANGED <<file, temp, document, view, lastSaved, job, outcome, historyVars, bounds>>

Load ==
  /\ pc = "load" /\ file # NoFile /\ file.readable
  /\ document' = file.lines
  /\ view' = ViewOf(file.lines) /\ lastSaved' = view'
  /\ loadState' = "loaded"
  /\ pc' = "idle" /\ edited' = FALSE
  /\ UNCHANGED <<file, temp, job, outcome, saved, bounds>>

(* A field of a tab; a format is picked from those its mode allows, and a   *)
(* change of mode coerces the format.                                       *)
Edit(change) ==
  /\ pc = "idle" /\ edits < MaxEdits
  /\ change.key[2] = "format" => change.value[1] \in AllowedFormats(view[<<change.key[1], "mode">>])
  /\ view' = OcrRoute(CoerceFormat([view EXCEPT ![change.key] = change.value]))
  /\ edits' = edits + 1
  /\ UNCHANGED <<file, temp, pc, loadState, document, lastSaved, job, outcome, historyVars,
                 versions, crashes>>

CreateStarter ==
  /\ pc = "idle" /\ loadState = "missing"
  /\ file = NoFile
  /\ job' = [lines |-> Apply(DefaultView, StarterHeader), config |-> DefaultView, starter |-> TRUE]
  /\ pc' = "write"
  /\ UNCHANGED <<file, temp, appVars, outcome, historyVars, bounds>>

SaveRefused ==
  /\ pc = "idle" /\ isDirty
  /\ loadState # "loaded" /\ file # NoFile
  /\ outcome' = "refused"
  /\ UNCHANGED <<file, temp, pc, appVars, job, historyVars, bounds>>

\* Mutant: a save does not look at how the load went.
SaveAnyway ==
  /\ pc = "idle" /\ isDirty
  /\ job' = [lines |-> Apply(view, document), config |-> view, starter |-> FALSE]
  /\ pc' = "write"
  /\ UNCHANGED <<file, temp, appVars, outcome, historyVars, bounds>>

Save ==
  /\ pc = "idle" /\ isDirty
  /\ ~(loadState # "loaded" /\ file # NoFile)
  /\ job' = [lines |-> Apply(view, document), config |-> view, starter |-> FALSE]
  /\ pc' = "write"
  /\ UNCHANGED <<file, temp, appVars, outcome, historyVars, bounds>>

\* Mutant: the file itself is written.
WriteInPlace ==
  /\ pc = "write"
  /\ \/ /\ file' = [lines |-> <<>>, readable |-> TRUE, whole |-> FALSE]
        /\ temp' = Whole(job.lines) /\ pc' = "rename"
        /\ UNCHANGED <<job, outcome>>
     \/ /\ file' = [lines |-> <<>>, readable |-> TRUE, whole |-> FALSE]
        /\ UNCHANGED temp /\ pc' = "idle" /\ job' = NoJob /\ outcome' = "failed"
  /\ UNCHANGED <<appVars, historyVars, bounds>>

(* writeAtomically.  A write that fails leaves what it wrote behind, under  *)
(* a name no later save uses.                                               *)
WriteTemp ==
  /\ pc = "write"
  /\ \/ temp' = Whole(job.lines) /\ pc' = "rename" /\ UNCHANGED <<job, outcome>>
     \/ UNCHANGED temp /\ pc' = "idle" /\ job' = NoJob /\ outcome' = "failed"
  /\ UNCHANGED <<file, appVars, historyVars, bounds>>

RenameFails ==
  /\ pc = "rename"
  /\ temp' = NoFile
  /\ pc' = "idle" /\ job' = NoJob /\ outcome' = "failed"
  /\ UNCHANGED <<file, appVars, historyVars, bounds>>

(* A starter is loaded once it is in place; a save keeps its load state.    *)
Rename ==
  /\ pc = "rename"
  /\ file' = temp /\ temp' = NoFile
  /\ saved' = TRUE /\ edited' = FALSE
  /\ job' = NoJob
  /\ IF job.starter
     THEN pc' = "load" /\ UNCHANGED <<appVars, outcome>>
     ELSE /\ document' = job.lines /\ lastSaved' = job.config
          /\ pc' = "idle" /\ outcome' = "saved"
          /\ UNCHANGED <<loadState, view>>
  /\ UNCHANGED bounds

-----------------------------------------------------------------------------
(* The rest of the world.                                                   *)
Crash ==
  /\ pc # "closed" /\ crashes < MaxCrashes
  /\ Fresh
  /\ pc' = "closed" /\ temp' = NoFile /\ job' = NoJob /\ outcome' = "none"
  /\ crashes' = crashes + 1
  /\ UNCHANGED <<file, historyVars, edits, versions>>

EditorWrites(version) ==
  /\ versions < MaxVersions
  /\ file' = [lines |-> version.lines, readable |-> version.readable, whole |-> TRUE]
  /\ saved' = FALSE /\ edited' = TRUE
  /\ versions' = versions + 1
  /\ UNCHANGED <<temp, pc, appVars, job, outcome, edits, crashes>>

Init ==
  /\ file \in {NoFile} \cup {[lines |-> v.lines, readable |-> v.readable, whole |-> TRUE] : v \in Versions}
  /\ temp = NoFile /\ pc = "closed"
  /\ loadState = "notLoaded" /\ document = <<>>
  /\ view = OcrRoute(DefaultView) /\ lastSaved = DefaultView
  /\ job = NoJob /\ outcome = "none" /\ saved = FALSE /\ edited = FALSE
  /\ edits = 0 /\ versions = 0 /\ crashes = 0

Next ==
  \/ Launch \/ Reload \/ LoadMissing \/ LoadFails \/ Load
  \/ \E change \in Edits : Edit(change)
  \/ CreateStarter \/ SaveRefused \/ Save \/ WriteTemp \/ RenameFails \/ Rename
  \/ Crash
  \/ \E version \in Versions : EditorWrites(version)

Spec == Init /\ [][Next]_vars

-----------------------------------------------------------------------------
(* Properties. *)

Foreign(lines) == Without(lines, Range(OwnedKeys))

(* What the tabs show of a configuration of the daemon.  The image format  *)
(* of OCR and what belongs to it is not shown and, but for the quality a   *)
(* rotated page is written with (handle_event.mm:287), not used.           *)
Shown(cfg) ==
  [cfg EXCEPT !.register_funcs = <<>>,
              !.dest = [f \in DOMAIN @ |->
                          IF f = "OCR"
                          THEN [@[f] EXCEPT !.level = 0, !.format = "kNative", !.tiff = "kLzw",
                                            !.jpeg_quality = 90]
                          ELSE [@[f] EXCEPT !.level = 0]]]

(* The daemon reads what the app saved: whatever else stands in the file,   *)
(* duplicates of a key, lines it cannot read and keys the app knows nothing *)
(* of, in every order, each setting of the app has the value the app shows  *)
(* after the save, and after the next load, and an empty display name is    *)
(* the name of the host (DaemonConfig.apply, ParseConfig).                  *)
DaemonReadsWhatIsSaved ==
  saved /\ loadState # "notLoaded" /\ pc # "load" =>
    Shown(ParseConfig(file.lines)) = Shown(ParseConfig(Apply(lastSaved, <<>>)))

(* A save keeps every comment, blank line and key the app does not own, in  *)
(* its place among the others, of a file nobody changed since the app read  *)
(* it, also when that file could not be read (ConfigStore.save).            *)
SaveKeepsTheRest ==
  [][pc = "rename" /\ pc' \in {"idle", "load"} /\ file # NoFile /\ ~edited =>
       Foreign(file'.lines) = Foreign(file.lines)]_vars

(* Whenever the daemon reads the file, in the middle of a save, after a     *)
(* write or a rename that failed or after a crash, it is one that was       *)
(* written whole, and once there is a file it never goes away               *)
(* (ConfigStore.writeAtomically).                                           *)
FileIsWhole ==
  /\ file = NoFile \/ file.whole
  /\ saved => file # NoFile

(* "Refuses to run at all ... when `configURL` exists but `document` was    *)
(* never safely seeded from it" (ConfigStore.swift:219-221): a save that    *)
(* is refused is not refused because of the very file the app wrote and     *)
(* whose lines it holds.                                                    *)
RefusesOnlyUnread ==
  [][outcome' = "refused" /\ outcome # "refused" => ~(saved /\ file.lines = document)]_vars
=============================================================================
