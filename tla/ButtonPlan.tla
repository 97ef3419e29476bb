----------------------------- MODULE ButtonPlan -----------------------------
(***************************************************************************)
(* What a button press scans and writes: the configuration command the     *)
(* printer pushes (daemon/button_config.cpp), the paper sizes              *)
(* (daemon/paper_size.cpp) and PlanButtonScan (daemon/button_plan.cpp),    *)
(* which lets the printer's panel settings override the daemon's.          *)
(*                                                                         *)
(* A frame is [framed, lines]: framed says that its magic, its length byte *)
(* and its reserved byte are right, and a line is [key, value] with two    *)
(* strings; a blank line or one without "=" has the key "".                *)
(***************************************************************************)
EXTENDS DaemonConfig

(* The largest dpi at which the longest paper still has its rows in 32      *)
(* bits.  Beyond it ScaleCoord's cast to int wraps, nothing in the code     *)
(* rejects such a dpi, and this model says nothing of it.                   *)
MaxDpi == 127497544

ASSUME DpiAssumption == \A w \in DOMAIN Literal : Literal[w] <= MaxDpi

NoPlan == [nothing |-> TRUE]

-----------------------------------------------------------------------------
(* The configuration command. *)
ButtonConfig ==
  [func |-> "", duplex |-> FALSE, duplex_edge |-> "", dpi |-> 0, mode |-> "", paper |-> "",
   area_flag |-> 0, output_type |-> "", skip_blank |-> FALSE, remove_background |-> FALSE,
   remove_background_level |-> 0, high_speed |-> FALSE]

FieldOf == [F |-> "func", D |-> "duplex", E |-> "duplex_edge", R |-> "dpi", M |-> "mode",
            P |-> "paper", A |-> "area_flag", T |-> "output_type", W |-> "skip_blank",
            G |-> "remove_background", L |-> "remove_background_level", X |-> "high_speed"]

ParseIntOr0(word) == IF word \in DOMAIN Literal /\ Literal[word] > 0 THEN Literal[word] ELSE 0

ApplyButtonKey(parsed, key, word) ==
  LET value == CASE key = "D" -> word = "DUP"
                 [] key \in {"R", "A", "L"} -> ParseIntOr0(word)
                 [] key \in {"W", "G", "X"} -> word = "1"
                 [] OTHER -> word
  IN  IF key \in DOMAIN FieldOf THEN [parsed EXCEPT ![FieldOf[key]] = value] ELSE parsed

ParsePayload(lines) ==
  FoldLeft(LAMBDA parsed, line : ApplyButtonKey(parsed, line.key, line.value), ButtonConfig, lines)

(* Only a frame that is whole and names a destination is a command. *)
ParseButtonConfig(frame) ==
  LET parsed == ParsePayload(frame.lines)
  IN  IF frame.framed /\ parsed.func # "" THEN parsed ELSE NoPlan

-----------------------------------------------------------------------------
(* Paper sizes, at 300 dpi, and their area at another resolution. *)
PaperTable ==
  [LETTER |-> <<478, 2990, 3253>>, LEGAL |-> <<478, 2990, 4153>>, A4 |-> <<513, 2961, 3461>>,
   LEDGER |-> <<103, 3367, 5053>>, A3 |-> <<0, 3472, 4913>>, A5 |-> <<0, 1712, 2433>>,
   EXECUTIVE |-> <<0, 2128, 3103>>, PHOTO |-> <<0, 1168, 1753>>, BCARD |-> <<0, 1024, 661>>]

IsKnownPaper(token) == token \in DOMAIN PaperTable
ScaleCoord(coord, dpi) == (2 * coord * dpi + 300) \div 600
AreaForPaper(token, dpi) ==
  LET row == PaperTable[token]
  IN  [x0 |-> ScaleCoord(row[1], dpi), y0 |-> 0,
       x1 |-> ScaleCoord(row[2], dpi), y1 |-> ScaleCoord(row[3], dpi)]

NoArea == [x0 |-> 0, y0 |-> 0, x1 |-> 0, y1 |-> 0]
AreaOr(area, paper, dpi) ==
  IF dpi > 0 /\ Len(paper) = 1 /\ IsKnownPaper(paper[1]) THEN AreaForPaper(paper[1], dpi) ELSE area

-----------------------------------------------------------------------------
(* The plan. *)
DefaultAutoPaper == <<"LETTER">>

ModeForToken(token) == IF token = "TEXT" THEN "kBlackWhite" ELSE "kColor"

FormatForToken(token) ==
  CASE token = "MULTI-TIFF" -> "kTiff" [] token = "JPEG" -> "kJpeg" [] OTHER -> "kPdf"

OcrFormatForToken(token) ==
  CASE token = "TXT" -> "kText" [] token = "HTML" -> "kHtml" [] token = "RTF" -> "kRtf"
    [] OTHER -> "kPdf"

(* Touch-Panel-ON: the panel's own settings. *)
PanelParams(parsed) ==
  [dpi |-> parsed.dpi, mode |-> ModeForToken(parsed.mode), duplex |-> parsed.duplex,
   remove_background |-> parsed.remove_background, level |-> parsed.remove_background_level,
   area |-> AreaOr(NoArea, <<parsed.paper>>, parsed.dpi)]

(* Touch-Panel-OFF: the daemon's, except the 2-sided setting, which the     *)
(* panel always sends.                                                     *)
ConfigParams(parsed, settings) ==
  [dpi |-> settings.dpi, mode |-> settings.mode, duplex |-> parsed.duplex,
   remove_background |-> settings.level # 0, level |-> settings.level,
   area |-> AreaOr(NoArea, IF settings.paper = <<>> THEN DefaultAutoPaper ELSE settings.paper,
                   settings.dpi)]

\* Mutant: an area left at zero is sent.
WithAreaAsIs(params) == params

(* Never a zero area: the offer it would fall back on has no height. *)
WithArea(params) ==
  IF params.area = NoArea
  THEN [params EXCEPT !.area = AreaOr(@, DefaultAutoPaper, params.dpi)]
  ELSE params

OutputSettingsForFunc(cfg, func) ==
  LET settings == ForFunc(cfg, func)
  IN  [format |-> settings.format, tiff |-> settings.tiff, separation |-> settings.separation,
       separate_n |-> settings.separate_n, searchable |-> FALSE]

PlanOutput(parsed, func, cfg, panel) ==
  CASE func = "OCR" ->
         LET format == IF panel THEN OcrFormatForToken(parsed.output_type) ELSE cfg.ocr_text_format
         IN  [OutputSettingsForFunc(cfg, func) EXCEPT !.format = format,
                                                      !.searchable = format = "kPdf"]
    [] func # "OCR" /\ panel ->
         [format |-> FormatForToken(parsed.output_type), tiff |-> "kLzw",
          separation |-> "kCombine", separate_n |-> 1, searchable |-> FALSE]
    [] OTHER -> OutputSettingsForFunc(cfg, func)

(* R= is in the panel's command exactly when its settings were opened. *)
PlanButtonScan(frame, func, cfg) ==
  LET parsed == ParseButtonConfig(frame)
      settings == ForFunc(cfg, func)
      panel == parsed.dpi > 0
  IN  IF parsed = NoPlan THEN NoPlan
      ELSE [params |-> WithArea(IF panel THEN PanelParams(parsed) ELSE ConfigParams(parsed, settings)),
            output |-> PlanOutput(parsed, func, cfg, panel),
            touch_panel_on |-> panel,
            high_speed |-> IF panel THEN parsed.high_speed ELSE settings.high_speed,
            skip_blank |-> IF panel THEN parsed.skip_blank ELSE settings.skip_blank]
=============================================================================
