------------------------- MODULE ButtonPress_proofs -------------------------
(***************************************************************************)
(* Proofs about a button press (ButtonPress), for every frame, every       *)
(* configuration file, every decimal literal and any number of pages.      *)
(***************************************************************************)
EXTENDS ButtonPress, SequenceTheorems, TLAPS

-----------------------------------------------------------------------------
(* Configuration files.  Good is what every line keeps, whatever it says.  *)

ApplyLine(c, line) == IF line.key = NoKey THEN c ELSE ApplyKey(c, line.key, line.value)

Lines == [key: STRING \X STRING, value: Seq(STRING)]

GoodConfig(c) ==
  /\ "dest" \in DOMAIN c /\ "ocr_text_format" \in DOMAIN c
  /\ c.ocr_text_format \in Range(OcrFormatWords)
  /\ c.dest \in [Range(Funcs) -> Settings]

ConfigFold == INSTANCE FoldFacts WITH op <- ApplyLine, Good <- GoodConfig

\* Reading a file is the fold of its lines over the defaults.
LEMMA ParseConfigFolds == \A text : ParseConfig(text) = ConfigFold!Folded(DefaultConfig, text)
BY DEF ParseConfig, ConfigFold!Folded, FoldLeft, MapThenFoldSet, ApplyLine,
       ConfigFold!FoldLeft, ConfigFold!MapThenFoldSet, Max, ConfigFold!Max

\* The defaults are what every configuration must stay.
LEMMA DefaultIsGood == GoodConfig(DefaultConfig)
<1>1. DefaultSettings \in Settings
  <2>1. /\ "kColor" \in Range(ModeWords) /\ "kNative" \in Range(FormatWords)
        /\ "kLzw" \in Range(TiffWords) /\ 0 \in Range(BackgroundWords)
    BY DEF Range, ModeWords, FormatWords, TiffWords, BackgroundWords
  <2>2. <<>> \in Seq(STRING)
    OBVIOUS
  <2> QED BY <2>1, <2>2 DEF DefaultSettings, Settings
<1>2. "kPdf" \in Range(OcrFormatWords)
  BY DEF Range, OcrFormatWords
<1> HIDE DEF DefaultSettings
<1> QED BY <1>1, <1>2 DEF GoodConfig, DefaultConfig

\* A value that is not one of the words leaves the field.
LEMMA ParsedType ==
  ASSUME NEW words, NEW value, NEW T, NEW old \in T, Range(words) \subseteq T
  PROVE  Parsed(words, value, old) \in T
BY DEF Parsed, Range

\* The words of the fields, and the literals, stand for values of the fields' types.
LEMMA WordTypes ==
  /\ Range(SourceWords) \subseteq [source: {"kFlatbed", "kAdf"}, duplex: BOOLEAN]
  /\ Range(BoolWords) \subseteq BOOLEAN
  /\ Range(PositiveInt) \subseteq Nat \ {0}
  /\ Range(JpegQuality) \subseteq 0 .. 100
<1>1. Range(SourceWords) \subseteq [source: {"kFlatbed", "kAdf"}, duplex: BOOLEAN]
  <2> SUFFICES ASSUME NEW w \in DOMAIN SourceWords
               PROVE  SourceWords[w] \in [source: {"kFlatbed", "kAdf"}, duplex: BOOLEAN]
    BY DEF Range
  <2>1. SourceWords[w] = [source |-> IF w = "flatbed" THEN "kFlatbed" ELSE "kAdf", duplex |-> w = "adf-duplex"]
    BY DEF SourceWords
  <2>2. (w = "adf-duplex") \in BOOLEAN
    OBVIOUS
  <2> QED BY <2>1, <2>2
<1>2. Range(BoolWords) \subseteq BOOLEAN
  <2> SUFFICES ASSUME NEW w \in DOMAIN BoolWords PROVE BoolWords[w] \in BOOLEAN
    BY DEF Range
  <2>1. BoolWords[w] = (w \in {"on", "true", "yes", "1"})
    BY DEF BoolWords
  <2>2. (w \in {"on", "true", "yes", "1"}) \in BOOLEAN
    OBVIOUS
  <2> QED BY <2>1, <2>2
<1>3. Range(PositiveInt) \subseteq Nat \ {0}
  <2> SUFFICES ASSUME NEW w \in DOMAIN PositiveInt PROVE PositiveInt[w] \in Nat \ {0}
    BY DEF Range
  <2>1. w \in DOMAIN Literal /\ Literal[w] > 0 /\ PositiveInt[w] = Literal[w]
    BY DEF PositiveInt, Restrict
  <2> QED BY <2>1, LiteralAssumption
<1>4. Range(JpegQuality) \subseteq 0 .. 100
  BY LiteralAssumption DEF Range, JpegQuality
<1> QED BY <1>1, <1>2, <1>3, <1>4

\* A separation that is read is one of the three, of at least one page.
LEMMA SeparationType ==
  ASSUME NEW s \in Settings, NEW value
  PROVE  /\ ParseSeparation(value, s).separation \in {"kCombine", "kEveryImage", "kEveryPage"}
         /\ ParseSeparation(value, s).separate_n \in Nat \ {0}
<1>1. s.separation \in {"kCombine", "kEveryImage", "kEveryPage"} /\ s.separate_n \in Nat \ {0}
  BY DEF Settings
<1>2. \A w \in DOMAIN PositiveInt : PositiveInt[w] \in Nat \ {0}
  BY WordTypes DEF Range
<1>3. \A w \in DOMAIN SeparationWords : SeparationWords[w] \in {"kEveryImage", "kEveryPage"}
  BY DEF SeparationWords
<1>4. 1 \in Nat \ {0}
  OBVIOUS
<1> QED BY <1>1, <1>2, <1>3, <1>4 DEF ParseSeparation

\* A line of a destination leaves its settings typed, whatever its value.
LEMMA FieldType ==
  ASSUME NEW s \in Settings, NEW field, NEW value \in Seq(STRING)
  PROVE  ApplyField(s, field, value) \in Settings
<1>0. /\ s = [mode |-> s.mode, dpi |-> s.dpi, source |-> s.source, duplex |-> s.duplex,
              format |-> s.format, tiff |-> s.tiff, separation |-> s.separation,
              separate_n |-> s.separate_n, paper |-> s.paper, level |-> s.level,
              high_speed |-> s.high_speed, skip_blank |-> s.skip_blank,
              jpeg_quality |-> s.jpeg_quality]
      /\ s.mode \in Range(ModeWords) /\ s.dpi \in Nat \ {0} /\ s.source \in {"kFlatbed", "kAdf"}
      /\ s.duplex \in BOOLEAN /\ s.format \in Range(FormatWords) /\ s.tiff \in Range(TiffWords)
      /\ s.paper \in Seq(STRING) /\ s.level \in Range(BackgroundWords)
      /\ s.high_speed \in BOOLEAN /\ s.skip_blank \in BOOLEAN /\ s.jpeg_quality \in 0 .. 100
  BY DEF Settings
<1>1. CASE field = "mode"
  <2>1. Parsed(ModeWords, value, s.mode) \in Range(ModeWords)
    BY <1>0, ParsedType
  <2> QED BY <1>1, <2>1 DEF ApplyField, Settings
<1>2. CASE field = "dpi"
  <2>1. Parsed(PositiveInt, value, s.dpi) \in Nat \ {0}
    BY <1>0, ParsedType, WordTypes
  <2> QED BY <1>2, <2>1 DEF ApplyField, Settings
<1>3. CASE field = "source"
  <2>1. /\ Parsed(SourceWords, value, s).source \in {"kFlatbed", "kAdf"}
        /\ Parsed(SourceWords, value, s).duplex \in BOOLEAN
    <3>1. \A w \in DOMAIN SourceWords : SourceWords[w] \in [source: {"kFlatbed", "kAdf"}, duplex: BOOLEAN]
      BY WordTypes DEF Range
    <3> QED BY <1>0, <3>1 DEF Parsed
  <2> QED BY <1>3, <2>1 DEF ApplyField, Settings
<1>4. CASE field = "format"
  <2>1. Parsed(FormatWords, value, s.format) \in Range(FormatWords)
    BY <1>0, ParsedType
  <2> QED BY <1>4, <2>1 DEF ApplyField, Settings
<1>5. CASE field = "tiff_compression"
  <2>1. Parsed(TiffWords, value, s.tiff) \in Range(TiffWords)
    BY <1>0, ParsedType
  <2> QED BY <1>5, <2>1 DEF ApplyField, Settings
<1>6. CASE field = "separation"
  BY <1>6, SeparationType DEF ApplyField, Settings
<1>7. CASE field = "paper"
  BY <1>7 DEF ApplyField, Settings
<1>8. CASE field = "remove_background"
  <2>1. Parsed(BackgroundWords, value, s.level) \in Range(BackgroundWords)
    BY <1>0, ParsedType
  <2> QED BY <1>8, <2>1 DEF ApplyField, Settings
<1>9. CASE field = "high_speed"
  <2>1. Parsed(BoolWords, value, s.high_speed) \in BOOLEAN
    BY <1>0, ParsedType, WordTypes
  <2> QED BY <1>9, <2>1 DEF ApplyField, Settings
<1>10. CASE field = "skip_blank"
  <2>1. Parsed(BoolWords, value, s.skip_blank) \in BOOLEAN
    BY <1>0, ParsedType, WordTypes
  <2> QED BY <1>10, <2>1 DEF ApplyField, Settings
<1>11. CASE field = "jpeg_quality"
  <2>1. Parsed(JpegQuality, value, s.jpeg_quality) \in 0 .. 100
    <3>1. s.jpeg_quality \in 0 .. 100 /\ \A w \in DOMAIN JpegQuality : JpegQuality[w] \in 0 .. 100
      BY <1>0, WordTypes DEF Range
    <3> QED BY <3>1, Zenon DEF Parsed
  <2>2. PICK q \in 0 .. 100 : q = Parsed(JpegQuality, value, s.jpeg_quality)
    BY <2>1
  <2>3. ApplyField(s, field, value) = [s EXCEPT !.jpeg_quality = q]
    BY <1>11, <2>2 DEF ApplyField
  <2> QED BY <2>3 DEF Settings
<1>12. CASE field \notin {"mode", "dpi", "source", "format", "tiff_compression", "separation", "paper",
                          "remove_background", "high_speed", "skip_blank", "jpeg_quality"}
  BY <1>12 DEF ApplyField
<1> QED BY <1>1, <1>2, <1>3, <1>4, <1>5, <1>6, <1>7, <1>8, <1>9, <1>10, <1>11, <1>12

\* So does a line of the file.
LEMMA LineKeepsGood ==
  ASSUME NEW c, GoodConfig(c), NEW line \in Lines
  PROVE  GoodConfig(ApplyLine(c, line))
<1> DEFINE key == line.key
           value == line.value
<1>1. value \in Seq(STRING)
  BY DEF Lines
<1> HIDE DEF key, value
<1>2. CASE key[1] = "" /\ key[2] \in {"printer_host", "display_name", "image_app", "email_to"}
  <2>1. ApplyKey(c, key, value) = [c EXCEPT ![key[2]] = value]
    <3>1. key[1] \notin DOMAIN DestPrefix
      BY <1>2 DEF DestPrefix
    <3>2. key \notin {<<"", "save_dir">>, <<"", "register_funcs">>, <<"ocr", "ocr_format">>}
      <4>1. /\ <<"", "save_dir">>[2] = "save_dir" /\ <<"", "register_funcs">>[2] = "register_funcs"
            /\ <<"ocr", "ocr_format">>[1] = "ocr"
        OBVIOUS
      <4>2. key[2] # "save_dir" /\ key[2] # "register_funcs" /\ key[1] # "ocr"
        BY <1>2
      <4> QED BY <4>1, <4>2, Zenon
    <3> QED BY <1>2, <3>1, <3>2 DEF ApplyKey
  <2>2. GoodConfig(ApplyKey(c, key, value))
    BY <1>2, <2>1 DEF GoodConfig
  <2> QED BY <2>2 DEF ApplyLine, key, value
<1>3. CASE ~(key[1] = "" /\ key[2] \in {"printer_host", "display_name", "image_app", "email_to"})
  <2>1. \/ ApplyKey(c, key, value) \in {c, [c EXCEPT !.save_dir = ExpandHome(value)],
                              [c EXCEPT !.register_funcs = ParseRegisterFuncs(value, @)]}
        \/ ApplyKey(c, key, value)
             = [c EXCEPT !.ocr_text_format = Parsed(OcrFormatWords, value, @)]
        \/ /\ key[1] \in DOMAIN DestPrefix
           /\ ApplyKey(c, key, value)
                = [c EXCEPT !.dest[DestPrefix[key[1]]] = ApplyField(@, key[2], value)]
    <3>1. CASE key = <<"", "save_dir">>
      BY <3>1 DEF ApplyKey, DestPrefix
    <3>2. CASE key = <<"", "register_funcs">>
      BY <3>2 DEF ApplyKey, DestPrefix
    <3>3. CASE key = <<"ocr", "ocr_format">>
      BY <3>3 DEF ApplyKey
    <3>4. CASE key \notin {<<"", "save_dir">>, <<"", "register_funcs">>, <<"ocr", "ocr_format">>}
      BY <1>3, <3>4 DEF ApplyKey
    <3> QED BY <3>1, <3>2, <3>3, <3>4
  <2>2. Parsed(OcrFormatWords, value, c.ocr_text_format) \in Range(OcrFormatWords)
    BY ParsedType DEF GoodConfig
  <2>3. ASSUME key[1] \in DOMAIN DestPrefix
        PROVE  [c.dest EXCEPT ![DestPrefix[key[1]]] = ApplyField(@, key[2], value)]
                 \in [Range(Funcs) -> Settings]
    <3>1. \A f \in Range(Funcs) : ApplyField(c.dest[f], key[2], value) \in Settings
      BY <1>1, FieldType DEF GoodConfig
    <3> QED BY <3>1 DEF GoodConfig
  <2>4. GoodConfig(ApplyKey(c, key, value))
    BY <2>1, <2>2, <2>3 DEF GoodConfig
  <2> QED BY <2>4 DEF ApplyLine, key, value
<1> QED BY <1>2, <1>3

\* Any file gives a good configuration.
LEMMA ConfigIsGood == \A text \in Configs : GoodConfig(ParseConfig(text))
<1> SUFFICES ASSUME NEW text \in Configs PROVE GoodConfig(ParseConfig(text))
  OBVIOUS
<1>1. text \in Seq(Lines)
  BY PressAssumption DEF Lines
<1>2. \A line \in Lines : \A c : GoodConfig(c) => GoodConfig(ApplyLine(c, line))
  BY LineKeepsGood
<1>3. GoodConfig(ConfigFold!Folded(DefaultConfig, text))
  BY <1>1, <1>2, DefaultIsGood, ConfigFold!FoldKeeps
<1> QED BY <1>3, ParseConfigFolds

-----------------------------------------------------------------------------
(* The command the printer pushes, and the plan made of it.                *)

ApplyFrameLine(parsed, line) == ApplyButtonKey(parsed, line.key, line.value)

GoodCommand(parsed) ==
  /\ DOMAIN parsed = DOMAIN ButtonConfig
  /\ parsed.dpi \in Nat
  /\ parsed.high_speed \in BOOLEAN /\ parsed.skip_blank \in BOOLEAN

FrameFold == INSTANCE FoldFacts WITH op <- ApplyFrameLine, Good <- GoodCommand

\* Reading a frame is the fold of its lines.
LEMMA ParsePayloadFolds == \A lines : ParsePayload(lines) = FrameFold!Folded(ButtonConfig, lines)
BY DEF ParsePayload, FrameFold!Folded, FoldLeft, MapThenFoldSet, ApplyFrameLine,
       FrameFold!FoldLeft, FrameFold!MapThenFoldSet, Max, FrameFold!Max

\* A line of a frame leaves a good command, whatever its value.
LEMMA FrameLineKeepsGood ==
  ASSUME NEW parsed, GoodCommand(parsed), NEW key \in STRING, NEW word \in STRING
  PROVE  GoodCommand(ApplyButtonKey(parsed, key, word))
<1>1. ParseIntOr0(word) \in Nat
  <2>1. CASE word \in DOMAIN Literal /\ Literal[word] > 0
    <3>1. ParseIntOr0(word) = Literal[word]
      BY <2>1 DEF ParseIntOr0
    <3>2. PICK n \in Int : n = Literal[word]
      BY <2>1, LiteralAssumption
    <3>3. n > 0
      BY <2>1, <3>2
    <3>4. n \in Nat
      BY <3>3
    <3> QED BY <3>1, <3>2, <3>4, Zenon
  <2>2. CASE ~(word \in DOMAIN Literal /\ Literal[word] > 0)
    BY <2>2 DEF ParseIntOr0
  <2> QED BY <2>1, <2>2
<1>2. CASE key = "R"
  <2>1. ApplyButtonKey(parsed, key, word) = [parsed EXCEPT !.dpi = ParseIntOr0(word)]
    BY <1>2 DEF ApplyButtonKey, FieldOf
  <2> QED BY <1>1, <2>1 DEF GoodCommand, ButtonConfig
<1>3. CASE key \in {"W", "X"}
  <2>1. \/ ApplyButtonKey(parsed, key, word) = [parsed EXCEPT !.skip_blank = (word = "1")]
        \/ ApplyButtonKey(parsed, key, word) = [parsed EXCEPT !.high_speed = (word = "1")]
    BY <1>3 DEF ApplyButtonKey, FieldOf
  <2>2. (word = "1") \in BOOLEAN
    OBVIOUS
  <2> QED BY <2>1, <2>2 DEF GoodCommand, ButtonConfig
<1>4. CASE key \notin {"R", "W", "X"}
  <2>1. \/ ApplyButtonKey(parsed, key, word) = parsed
        \/ \E field \in DOMAIN parsed \ {"dpi", "skip_blank", "high_speed"} : \E value :
             ApplyButtonKey(parsed, key, word) = [parsed EXCEPT ![field] = value]
    <3>1. CASE key \notin DOMAIN FieldOf
      BY <3>1 DEF ApplyButtonKey
    <3>2. CASE key \in DOMAIN FieldOf
      <4>1. FieldOf[key] \in DOMAIN parsed \ {"dpi", "skip_blank", "high_speed"}
        BY <1>4, <3>2 DEF FieldOf, GoodCommand, ButtonConfig
      <4>2. \E value : ApplyButtonKey(parsed, key, word) = [parsed EXCEPT ![FieldOf[key]] = value]
        BY <3>2 DEF ApplyButtonKey
      <4> QED BY <4>1, <4>2
    <3> QED BY <3>1, <3>2
  <2>2. ASSUME NEW field \in DOMAIN parsed \ {"dpi", "skip_blank", "high_speed"}, NEW value
        PROVE  GoodCommand([parsed EXCEPT ![field] = value])
    <3>1. {"dpi", "skip_blank", "high_speed"} \subseteq DOMAIN parsed
      BY DEF GoodCommand, ButtonConfig
    <3> QED BY <3>1 DEF GoodCommand
  <2> QED BY <2>1, <2>2
<1> QED BY <1>2, <1>3, <1>4

\* Any frame gives a good command or none.
LEMMA CommandIsGood ==
  ASSUME NEW frame \in Frames
  PROVE  ParseButtonConfig(frame) = NoPlan \/ GoodCommand(ParseButtonConfig(frame))
<1> DEFINE S == [key: STRING, value: STRING]
<1>1. frame.lines \in Seq(S)
  BY PressAssumption
<1>2. GoodCommand(ButtonConfig)
  BY DEF GoodCommand, ButtonConfig
<1>3. \A line \in S : \A c : GoodCommand(c) => GoodCommand(ApplyFrameLine(c, line))
  BY FrameLineKeepsGood DEF ApplyFrameLine
<1> HIDE DEF S
<1>4. GoodCommand(FrameFold!Folded(ButtonConfig, frame.lines))
  BY <1>1, <1>2, <1>3, FrameFold!FoldKeeps
<1>5. GoodCommand(ParsePayload(frame.lines))
  BY <1>4, ParsePayloadFolds
<1> QED BY <1>5 DEF ParseButtonConfig

\* At any resolution a paper has an area.
LEMMA PaperHasArea ==
  ASSUME NEW dpi \in Nat \ {0}, NEW paper \in DOMAIN PaperTable
  PROVE  /\ AreaForPaper(paper, dpi).x0 < AreaForPaper(paper, dpi).x1
         /\ AreaForPaper(paper, dpi).y0 < AreaForPaper(paper, dpi).y1
<1>1. ASSUME NEW a \in Nat, NEW b \in Nat, a + 300 <= b
      PROVE  ScaleCoord(a, dpi) < ScaleCoord(b, dpi)
  <2>1. 2 * a * dpi + 600 <= 2 * b * dpi
    <3>1. dpi \in Nat /\ dpi >= 1 /\ b - a \in Nat /\ b - a >= 300
      BY <1>1
    <3>2. (b - a) * dpi >= 300
      BY <3>1
    <3>3. (b - a) * dpi = b * dpi - a * dpi
      BY <3>1
    <3> QED BY <3>1, <3>2, <3>3
  <2> DEFINE p == 2 * a * dpi
             q == 2 * b * dpi
  <2>2. p \in Nat /\ q \in Nat
    OBVIOUS
  <2> HIDE DEF p, q
  <2>3. (p + 300) \div 600 < (q + 300) \div 600
    BY <2>1, <2>2 DEF p, q
  <2> QED BY <2>3 DEF ScaleCoord, p, q
<1>2. /\ \E a, b \in Nat : a + 300 <= b /\ PaperTable[paper][1] = a /\ PaperTable[paper][2] = b
      /\ PaperTable[paper][3] \in Nat /\ PaperTable[paper][3] >= 300
  BY DEF PaperTable
<1>3. ScaleCoord(PaperTable[paper][1], dpi) < ScaleCoord(PaperTable[paper][2], dpi)
  BY <1>1, <1>2
<1>4. 0 < ScaleCoord(PaperTable[paper][3], dpi)
  <2>1. ScaleCoord(0, dpi) < ScaleCoord(PaperTable[paper][3], dpi)
    BY <1>1, <1>2
  <2>2. ScaleCoord(0, dpi) = 0
    BY DEF ScaleCoord
  <2> QED BY <2>1, <2>2
<1> QED BY <1>3, <1>4 DEF AreaForPaper

GoodPlan(p, f) ==
  /\ p.params.dpi > 0
  /\ p.params.area.x0 < p.params.area.x1 /\ p.params.area.y0 < p.params.area.y1
  /\ TextSink(p.output) => f = "OCR"
  /\ p.output.searchable <=> f = "OCR" /\ p.output.format = "kPdf"
  /\ p.output.separate_n \in Nat \ {0}
  /\ p.high_speed \in BOOLEAN /\ p.skip_blank \in BOOLEAN

\* Areas that are sent are those of a paper, whatever paper was asked for.
LEMMA AreaIsSent ==
  ASSUME NEW params, "area" \in DOMAIN params, params.dpi \in Nat \ {0},
         NEW paper, params.area = AreaOr(NoArea, paper, params.dpi)
  PROVE  /\ WithArea(params).dpi = params.dpi
         /\ WithArea(params).area.x0 < WithArea(params).area.x1
         /\ WithArea(params).area.y0 < WithArea(params).area.y1
<1>1. \A known \in DOMAIN PaperTable : LET area == AreaForPaper(known, params.dpi)
                                       IN  area.x0 < area.x1 /\ area.y0 < area.y1
  BY PaperHasArea
<1>2. AreaOr(NoArea, DefaultAutoPaper, params.dpi) = AreaForPaper("LETTER", params.dpi)
      /\ "LETTER" \in DOMAIN PaperTable
  BY DEF AreaOr, DefaultAutoPaper, IsKnownPaper, PaperTable
<1>3. params.area = NoArea \/ \E known \in DOMAIN PaperTable : params.area = AreaForPaper(known, params.dpi)
  BY DEF AreaOr, IsKnownPaper
<1>4. CASE params.area = NoArea
  <2>1. WithArea(params) = [params EXCEPT !.area = AreaForPaper("LETTER", params.dpi)]
    BY <1>2, <1>4 DEF WithArea
  <2>2. WithArea(params).area = AreaForPaper("LETTER", params.dpi) /\ WithArea(params).dpi = params.dpi
    BY <2>1
  <2> QED BY <1>1, <1>2, <2>2
<1>5. CASE params.area # NoArea
  BY <1>1, <1>3, <1>5 DEF WithArea
<1> QED BY <1>4, <1>5

\* The output a plan asks for is one the function can make.
LEMMA OutputIsGood ==
  ASSUME NEW parsed, NEW f \in Range(Funcs), NEW c, GoodConfig(c), NEW panel \in BOOLEAN
  PROVE  LET output == PlanOutput(parsed, f, c, panel)
         IN  /\ TextSink(output) => f = "OCR"
             /\ output.searchable <=> f = "OCR" /\ output.format = "kPdf"
             /\ output.separate_n \in Nat \ {0}
<1> DEFINE settings == ForFunc(c, f)
<1>1. settings \in Settings
  BY DEF ForFunc, GoodConfig, Range, Funcs
<1>2. settings.separate_n \in Nat \ {0} /\ settings.format \in Range(FormatWords)
  BY <1>1 DEF Settings
<1>3. settings.format \notin {"kText", "kHtml", "kRtf"}
  BY <1>2 DEF Range, FormatWords
<1>4. OutputSettingsForFunc(c, f) =
        [format |-> settings.format, tiff |-> settings.tiff, separation |-> settings.separation,
         separate_n |-> settings.separate_n, searchable |-> FALSE]
  BY DEF OutputSettingsForFunc
<1> HIDE DEF settings
<1>5. CASE f = "OCR"
  <2>1. PICK format : PlanOutput(parsed, f, c, panel) =
          [OutputSettingsForFunc(c, f) EXCEPT !.format = format, !.searchable = (format = "kPdf")]
    BY <1>5 DEF PlanOutput
  <2>2. PICK output : output = PlanOutput(parsed, f, c, panel)
    OBVIOUS
  <2>3. /\ output.format = format /\ output.searchable = (format = "kPdf")
        /\ output.separate_n = settings.separate_n
    BY <1>4, <2>1, <2>2
  <2>4. output.searchable <=> f = "OCR" /\ output.format = "kPdf"
    BY <1>5, <2>3
  <2> QED BY <1>2, <1>5, <2>2, <2>3, <2>4
<1>6. CASE f # "OCR" /\ panel
  BY <1>6 DEF PlanOutput, FormatForToken, TextSink
<1>7. CASE f # "OCR" /\ ~panel
  BY <1>2, <1>3, <1>4, <1>7 DEF PlanOutput, TextSink
<1> QED BY <1>5, <1>6, <1>7

\* A plan is good for every command and every configuration.
LEMMA PlanIsGood ==
  ASSUME NEW frame \in Frames, NEW f \in Range(Funcs), NEW c, GoodConfig(c),
         PlanButtonScan(frame, f, c) # NoPlan
  PROVE  GoodPlan(PlanButtonScan(frame, f, c), f)
<1> DEFINE parsed == ParseButtonConfig(frame)
           settings == ForFunc(c, f)
           panel == parsed.dpi > 0
           params == IF panel THEN PanelParams(parsed) ELSE ConfigParams(parsed, settings)
           p == PlanButtonScan(frame, f, c)
<1>1. parsed # NoPlan
  BY DEF PlanButtonScan
<1>2. /\ p.params = WithArea(params) /\ p.output = PlanOutput(parsed, f, c, panel)
      /\ p.high_speed = (IF panel THEN parsed.high_speed ELSE settings.high_speed)
      /\ p.skip_blank = (IF panel THEN parsed.skip_blank ELSE settings.skip_blank)
  BY <1>1 DEF PlanButtonScan
<1>3. GoodCommand(parsed)
  BY <1>1, CommandIsGood
<1>4. settings \in Settings
  BY DEF ForFunc, GoodConfig, Range, Funcs
<1>5. settings.dpi \in Nat \ {0} /\ settings.high_speed \in BOOLEAN /\ settings.skip_blank \in BOOLEAN
  BY <1>4 DEF Settings
<1>6. "area" \in DOMAIN params /\ params.dpi \in Nat \ {0}
      /\ \E paper : params.area = AreaOr(NoArea, paper, params.dpi)
  <2>1. CASE panel
    BY <1>3, <2>1 DEF PanelParams, GoodCommand
  <2>2. CASE ~panel
    BY <1>5, <2>2 DEF ConfigParams
  <2> QED BY <2>1, <2>2
<1>7. panel \in BOOLEAN
  OBVIOUS
<1>8. PICK area : area = p.params.area
  OBVIOUS
<1> HIDE DEF params, parsed, panel, settings, p
<1>9. /\ WithArea(params).dpi = params.dpi
      /\ WithArea(params).area.x0 < WithArea(params).area.x1
      /\ WithArea(params).area.y0 < WithArea(params).area.y1
  BY <1>6, AreaIsSent
<1>10. /\ TextSink(p.output) => f = "OCR"
       /\ p.output.searchable <=> f = "OCR" /\ p.output.format = "kPdf"
       /\ p.output.separate_n \in Nat \ {0}
  BY <1>2, <1>7, OutputIsGood
<1>11. p.high_speed \in BOOLEAN /\ p.skip_blank \in BOOLEAN
  BY <1>2, <1>3, <1>5 DEF GoodCommand
<1>12. GoodPlan(p, f)
  BY <1>2, <1>6, <1>9, <1>10, <1>11 DEF GoodPlan
<1> QED BY <1>12 DEF p

-----------------------------------------------------------------------------
(* The invariants: the types; what the writer has written; the temporary   *)
(* directory and what has been handed over, by where the press is.         *)

PressTypes ==
  /\ TypeOK
  /\ GoodConfig(cfg)
  /\ plan = NoPlan \/ GoodPlan(plan, func)
  /\ pages \in Seq(Page) /\ scanned \in Seq(Page) /\ Len(pages) <= MaxPages
  /\ pc \notin {"idle", "done"} => func \in Range(Funcs)
  /\ pc \in {"idle", "plan"} => plan = NoPlan
  /\ pc \notin {"idle", "plan", "done"} => plan # NoPlan
  /\ pc \notin {"idle", "plan", "scan", "done"} => pages # <<>>

Before == {"idle", "plan", "scan", "pages", "tempdir"}
Writing == {"path", "write", "unwind", "check"}

Marks ==
  /\ pc \in Before \cup {"path"} => files = <<>> /\ written = <<>> /\ next = 1 /\ ~failed
  /\ pc \in Before => ~tempdir /\ ~armed
  /\ pc = "tempdir" => IsEmail
  /\ pc \in Writing => (tempdir <=> IsEmail) /\ (armed <=> IsEmail)
  /\ pc \in {"action", "cleanup"} => (tempdir <=> IsEmail) /\ ~armed
  /\ pc \in Before \cup Writing => handed = <<>> /\ saved_path = NoPath
  /\ pc = "unwind" => status \in {"kIoError", "kProtocolError"}
  /\ pc = "action" => handed = <<>> /\ saved_path = IF IsEmail THEN NoPath ELSE written[1]
  /\ pc = "cleanup" => IsEmail /\ handed = written /\ saved_path = NoPath

\* The first n documents are written, and nothing else.
Wrote(n) ==
  /\ written \in Seq({"temp", "save_dir"} \X Nat) /\ Len(written) = n
  /\ \A i \in 1 .. n : written[i] = DocPath(plan.output, i)
  /\ DOMAIN files = Range(written)
  /\ \A i \in 1 .. n : files[written[i]] = [pages |-> Document(plan.output, i), whole |-> TRUE]

Documents == NumDocs(plan.output, Len(pages))

Writes ==
  /\ pc = "write" => next <= Documents + 1 /\ (~failed => Wrote(next - 1))
  /\ pc \in {"check", "action"} => Wrote(Documents)
  /\ pc = "cleanup" /\ status # "kOk" => Wrote(Documents)

\* The pages are those to keep, once they have been processed.
Keeps ==
  /\ pc = "pages" => pages = scanned
  /\ pc \in {"tempdir", "action", "cleanup"} \cup Writing => Sheets(pages) = Sheets(Kept)

-----------------------------------------------------------------------------
(* The documents a writer cuts the pages into, and the filter.             *)

\* A scan is cut into at least one document, and the last one is not empty.
LEMMA Cut ==
  ASSUME NEW output, output.separate_n \in Nat \ {0}, NEW total \in Nat \ {0}
  PROVE  LET per == PagesPerDocument(output, total)
             n == NumDocs(output, total)
         IN  /\ per \in Nat \ {0} /\ n \in 1 .. total
             /\ (n - 1) * per < total /\ total <= n * per
<1> DEFINE per == PagesPerDocument(output, total)
           n == (total + per - 1) \div per
<1>1. per \in Nat \ {0}
  BY DEF PagesPerDocument
<1>2. n = NumDocs(output, total)
  BY DEF NumDocs
<1> HIDE DEF per
<1>3. total + per - 1 \in Nat
  BY <1>1
<1>4. n \in Nat /\ n * per <= total + per - 1 /\ total + per - 1 < n * per + per
  BY <1>1, <1>3
<1> HIDE DEF n
<1>5. (n - 1) * per = n * per - per
  BY <1>1, <1>4
<1>6. total <= n * per /\ (n - 1) * per < total
  BY <1>1, <1>4, <1>5
<1>7. n # 0
  BY <1>1, <1>6
<1>8. n <= total
  <2>1. PICK k : k = (n - 1) * per
    OBVIOUS
  <2>2. n - 1 \in Nat /\ k \in Nat /\ n - 1 <= k
    BY <1>1, <1>4, <1>7, <2>1
  <2>3. k < total
    BY <1>6, <2>1
  <2> QED BY <1>4, <2>2, <2>3
<1> QED BY <1>1, <1>2, <1>4, <1>6, <1>7, <1>8 DEF per

\* Partial concatenations lead to the flattened sequence.
LEMMA FlattenIs ==
  ASSUME NEW n \in Nat \ {0}, NEW docs, Len(docs) = n,
         NEW g, \A i \in 1 .. n : g[i] = IF i = 1 THEN docs[i] ELSE g[i - 1] \o docs[i]
  PROVE  FlattenSeq(docs) = g[n]
<1> DEFINE Flattens(f) == f = [i \in 1 .. n |-> IF i = 1 THEN docs[i] ELSE f[i - 1] \o docs[i]]
           flatten == CHOOSE f : Flattens(f)
<1>1. FlattenSeq(docs) = flatten[n]
  BY DEF FlattenSeq
<1>2. Flattens(flatten)
  <2> DEFINE h == [i \in 1 .. n |-> g[i]]
  <2>1. \A i \in 1 .. n : i # 1 => i - 1 \in 1 .. n
    OBVIOUS
  <2>2. \A i \in 1 .. n : h[i] = IF i = 1 THEN docs[i] ELSE h[i - 1] \o docs[i]
    BY <2>1
  <2>3. h = [i \in 1 .. n |-> h[i]]
    OBVIOUS
  <2> HIDE DEF h
  <2>4. Flattens(h)
    BY <2>2, <2>3
  <2> HIDE DEF Flattens
  <2> QED BY <2>4
<1> HIDE DEF flatten
<1> DEFINE N == {k \in Nat : k + 1 <= n => flatten[k + 1] = g[k + 1]}
<1>3. 0 \in N
  <2>1. 1 \in 1 .. n
    OBVIOUS
  <2> QED BY <1>2, <2>1
<1>4. ASSUME NEW k \in N PROVE k + 1 \in N
  <2>1. k \in Nat /\ k + 1 \in Nat /\ (k + 2) - 1 = k + 1 /\ (k + 1) + 1 = k + 2 /\ k + 2 # 1
    OBVIOUS
  <2>2. ASSUME k + 2 <= n PROVE flatten[k + 2] = g[k + 2]
    <3>1. k + 1 \in 1 .. n /\ k + 2 \in 1 .. n
      BY <2>1, <2>2
    <3>2. flatten[k + 1] = g[k + 1]
      BY <3>1
    <3>3. flatten[k + 2] = flatten[k + 1] \o docs[k + 2]
      <4>1. \A i \in 1 .. n : flatten[i] = IF i = 1 THEN docs[i] ELSE flatten[i - 1] \o docs[i]
        BY <1>2
      <4> QED BY <2>1, <3>1, <4>1, Zenon
    <3>4. g[k + 2] = g[k + 1] \o docs[k + 2]
      BY <2>1, <3>1
    <3> QED BY <3>2, <3>3, <3>4, Zenon
  <2> QED BY <2>1, <2>2
<1>5. N = Nat
  <2> HIDE DEF N
  <2>1. N \in SUBSET Nat
    BY DEF N
  <2> QED BY <1>3, <1>4, <2>1, ConfigFold!Induction
<1>6. n - 1 \in N /\ (n - 1) + 1 = n
  <2> HIDE DEF N
  <2> QED BY <1>5
<1> QED BY <1>1, <1>6

\* The sheets of a document are those of its pages.
LEMMA SheetsOf ==
  ASSUME NEW S, NEW seq \in Seq(S), NEW a \in 1 .. Len(seq) + 1, NEW b \in a - 1 .. Len(seq)
  PROVE  /\ Sheets(seq) \in Seq({Sheets(seq)[i] : i \in 1 .. Len(seq)}) /\ Len(Sheets(seq)) = Len(seq)
         /\ Sheets(SubSeq(seq, a, b)) = SubSeq(Sheets(seq), a, b)
<1> DEFINE T == {Sheets(seq)[i] : i \in 1 .. Len(seq)}
           cut == SubSeq(seq, a, b)
           sub == SubSeq(Sheets(seq), a, b)
<1>0. Len(seq) \in Nat /\ DOMAIN seq = 1 .. Len(seq) /\ a \in Int /\ b \in Int
  OBVIOUS
<1>1. Sheets(seq) = [i \in 1 .. Len(seq) |-> seq[i].sheet]
  BY <1>0 DEF Sheets
<1>2. Sheets(seq) \in Seq(T) /\ Len(Sheets(seq)) = Len(seq)
  BY <1>0, <1>1
<1>3. cut \in Seq(S) /\ Len(cut) = b - a + 1 /\ \A i \in 1 .. b - a + 1 : cut[i] = seq[a + i - 1]
  BY <1>0, SubSeqProperties
<1>4. sub \in Seq(T) /\ Len(sub) = b - a + 1 /\ \A i \in 1 .. b - a + 1 : sub[i] = Sheets(seq)[a + i - 1]
  <2>1. \A i \in a .. b : Sheets(seq)[i] \in T
    BY <1>0
  <2> QED BY <1>0, <2>1, SubSeqProperties
<1>5. Sheets(cut) = [i \in 1 .. b - a + 1 |-> cut[i].sheet]
  BY <1>3 DEF Sheets
<1>6. sub = [i \in 1 .. b - a + 1 |-> sub[i]]
  BY <1>4
<1>7. \A i \in 1 .. b - a + 1 : cut[i].sheet = sub[i]
  <2> TAKE i \in 1 .. b - a + 1
  <2>1. a + i - 1 \in 1 .. Len(seq)
    BY <1>0
  <2> QED BY <1>1, <1>3, <1>4, <2>1
<1> HIDE DEF cut, sub
<1>8. Sheets(cut) = sub
  BY <1>5, <1>6, <1>7
<1> QED BY <1>2, <1>8 DEF cut, sub

\* What the documents hold, one after the other, is the pages.
LEMMA DeliveredIs ==
  ASSUME NEW S, pages \in Seq(S), pages # <<>>, plan.output.separate_n \in Nat \ {0}, Wrote(Documents)
  PROVE  Delivered = Sheets(pages)
<1> DEFINE total == Len(pages)
           per == PagesPerDocument(plan.output, total)
           n == NumDocs(plan.output, total)
           upto(i) == IF i * per > total THEN total ELSE i * per
           sheets == Sheets(pages)
           docs == [i \in DOMAIN written |-> Sheets(files[written[i]].pages)]
           g == [i \in 1 .. n |-> SubSeq(sheets, 1, upto(i))]
<1>1. total \in Nat \ {0}
  OBVIOUS
<1>2. per \in Nat \ {0} /\ n \in 1 .. total /\ (n - 1) * per < total /\ total <= n * per
  BY <1>1, Cut
<1>3. DOMAIN written = 1 .. n /\ \A i \in 1 .. n : files[written[i]].pages = Document(plan.output, i)
  <2>1. n = Documents /\ n \in Nat
    BY <1>1, <1>2 DEF Documents
  <2> HIDE DEF n
  <2>2. /\ written \in Seq({"temp", "save_dir"} \X Nat) /\ Len(written) = n
        /\ \A i \in 1 .. n : files[written[i]] = [pages |-> Document(plan.output, i), whole |-> TRUE]
    BY <2>1 DEF Wrote
  <2>3. DOMAIN written = 1 .. n
    BY <2>2
  <2>4. ASSUME NEW i \in 1 .. n PROVE files[written[i]].pages = Document(plan.output, i)
    <3>1. PICK f : f = files[written[i]]
      OBVIOUS
    <3>2. f = [pages |-> Document(plan.output, i), whole |-> TRUE]
      BY <2>2, <3>1, Zenon
    <3>3. f.pages = Document(plan.output, i)
      BY <3>2
    <3> QED BY <3>1, <3>3
  <2> QED BY <2>3, <2>4
<1>4. \A i \in 1 .. n : Document(plan.output, i) = SubSeq(pages, (i - 1) * per + 1, upto(i))
  BY DEF Document
<1>5. \E T : sheets \in Seq(T) /\ Len(sheets) = total
  <2>1. 1 \in 1 .. total + 1 /\ 0 \in 1 - 1 .. total
    BY <1>1
  <2> QED BY <2>1, SheetsOf
<1>6. Delivered = FlattenSeq(docs)
  BY DEF Delivered
<1> HIDE DEF per, n, sheets
<1>7. ASSUME NEW i \in 1 .. n
      PROVE  /\ (i - 1) * per \in 0 .. total /\ upto(i) \in (i - 1) * per .. total
             /\ i # 1 => upto(i - 1) = (i - 1) * per
  <2>1. /\ (i - 1) * per \in Nat /\ i * per = (i - 1) * per + per
        /\ (i - 1) * per <= (n - 1) * per
    BY <1>2
  <2>2. PICK k \in Nat, m \in Int : k = (i - 1) * per /\ m = (n - 1) * per
    BY <1>2, <2>1
  <2> QED BY <1>1, <1>2, <2>1, <2>2
<1>8. ASSUME NEW i \in 1 .. n
      PROVE  docs[i] = SubSeq(sheets, (i - 1) * per + 1, upto(i))
  <2>1. docs[i] = Sheets(SubSeq(pages, (i - 1) * per + 1, upto(i)))
    BY <1>3, <1>4
  <2>2. PICK a : a = (i - 1) * per + 1
    OBVIOUS
  <2>3. PICK b : b = upto(i)
    OBVIOUS
  <2>4. a \in 1 .. total + 1 /\ b \in a - 1 .. total
    BY <1>1, <1>7, <2>2, <2>3
  <2>5. Sheets(SubSeq(pages, a, b)) = SubSeq(Sheets(pages), a, b)
    BY <2>4, SheetsOf
  <2> QED BY <2>1, <2>2, <2>3, <2>5 DEF sheets
<1>9. ASSUME NEW i \in 1 .. n
      PROVE  g[i] = IF i = 1 THEN docs[i] ELSE g[i - 1] \o docs[i]
  <2>1. CASE i = 1
    <3>1. (i - 1) * per + 1 = 1
      BY <1>2, <2>1
    <3> QED BY <1>8, <2>1, <3>1
  <2>2. CASE i # 1
    <3>1. PICK T : sheets \in Seq(T) /\ Len(sheets) = total
      BY <1>5
    <3>2. PICK k : k = (i - 1) * per
      OBVIOUS
    <3>3. PICK b : b = upto(i)
      OBVIOUS
    <3>4. 1 \in 1 .. total + 1 /\ k \in 1 - 1 .. total /\ b \in k .. total
      BY <1>1, <1>7, <3>2, <3>3
    <3>5. SubSeq(sheets, 1, k) \o SubSeq(sheets, k + 1, b) = SubSeq(sheets, 1, b)
      BY <3>1, <3>4, ConcatAdjacentSubSeq
    <3>6. i - 1 \in 1 .. n /\ upto(i - 1) = k
      BY <1>2, <1>7, <2>2, <3>2
    <3>7. g[i - 1] = SubSeq(sheets, 1, k)
      BY <3>6
    <3>8. g[i] = SubSeq(sheets, 1, b) /\ docs[i] = SubSeq(sheets, k + 1, b)
      BY <1>8, <3>2, <3>3
    <3> QED BY <2>2, <3>5, <3>7, <3>8
  <2> QED BY <2>1, <2>2
<1>10. FlattenSeq(docs) = g[n]
  <2>1. n \in Nat \ {0} /\ Len(docs) = n
    BY <1>1, <1>2, <1>3
  <2> HIDE DEF g, docs
  <2> QED BY <1>9, <2>1, FlattenIs
<1>11. g[n] = sheets
  <2>1. n \in 1 .. n /\ upto(n) = total
    BY <1>1, <1>2
  <2>2. PICK T : sheets \in Seq(T) /\ Len(sheets) = total
    BY <1>5
  <2>3. SubSeq(sheets, 1, total) = sheets
    BY <2>2, SubSeqFull
  <2> QED BY <2>1, <2>3
<1> QED BY <1>6, <1>10, <1>11 DEF sheets

\* Filtering: the step of the fold, and what pages that differ in their rotation have in common.
KeepPrinted(kept, page) == IF page.look # "blank" THEN Append(kept, page) ELSE kept

ArePages(seq) == seq \in Seq(Page)

PageFold == INSTANCE FoldFacts WITH op <- KeepPrinted, Good <- ArePages

\* The filter is a fold, one page after the other.
LEMMA FilterFolds ==
  \A seq : /\ Filtered(seq, LAMBDA page : ~IsBlankPage(page)) = PageFold!Folded(<<>>, seq)
           /\ Printed(seq) = PageFold!Folded(<<>>, seq)
BY DEF Filtered, Printed, IsBlankPage, PageFold!Folded, FoldLeft, MapThenFoldSet, KeepPrinted,
       PageFold!FoldLeft, PageFold!MapThenFoldSet, Max, PageFold!Max

SameSheets(a, b) ==
  /\ a \in Seq(Page) /\ b \in Seq(Page) /\ Len(a) = Len(b)
  /\ \A i \in 1 .. Len(a) : a[i].look = b[i].look /\ a[i].sheet = b[i].sheet

\* Rotating pages first keeps what the filter keeps.
LEMMA FilterKeepsSheets ==
  ASSUME NEW a, NEW b, SameSheets(a, b)
  PROVE  /\ SameSheets(PageFold!Folded(<<>>, a), PageFold!Folded(<<>>, b))
         /\ Len(PageFold!Folded(<<>>, a)) <= Len(a)
<1>0. a \in Seq(Page) /\ b \in Seq(Page) /\ Len(a) = Len(b) /\ Len(a) \in Nat
  BY DEF SameSheets
<1>1. PICK f : /\ f[0] = <<>> /\ f[Len(a)] = PageFold!Folded(<<>>, a)
               /\ \A k \in 1 .. Len(a) : f[k] = KeepPrinted(f[k - 1], a[k])
  BY <1>0, PageFold!FoldSteps
<1>2. PICK g : /\ g[0] = <<>> /\ g[Len(b)] = PageFold!Folded(<<>>, b)
               /\ \A k \in 1 .. Len(b) : g[k] = KeepPrinted(g[k - 1], b[k])
  BY <1>0, PageFold!FoldSteps
<1> DEFINE N == {n \in Nat : n <= Len(a) => SameSheets(f[n], g[n]) /\ Len(f[n]) <= n}
<1>3. 0 \in N
  <2>1. <<>> \in Seq(Page) /\ Len(<<>>) = 0 /\ 1 .. 0 = {}
    OBVIOUS
  <2>2. SameSheets(<<>>, <<>>) /\ Len(<<>>) <= 0
    BY <2>1 DEF SameSheets
  <2>3. SameSheets(f[0], g[0]) /\ Len(f[0]) <= 0
    BY <1>1, <1>2, <2>2
  <2> QED BY <2>3
<1>4. ASSUME NEW n \in N PROVE n + 1 \in N
  <2>1. n \in Nat /\ n + 1 \in Nat /\ (n + 1) - 1 = n
    OBVIOUS
  <2>2. ASSUME n + 1 <= Len(a) PROVE SameSheets(f[n + 1], g[n + 1]) /\ Len(f[n + 1]) <= n + 1
    <3>1. n + 1 \in 1 .. Len(a) /\ n + 1 \in 1 .. Len(b) /\ n <= Len(a)
      BY <1>0, <2>1, <2>2
    <3>2. PICK s, t : s = f[n] /\ t = g[n]
      OBVIOUS
    <3>3. SameSheets(s, t) /\ Len(s) <= n
      BY <3>1, <3>2
    <3>4. PICK x, y : x = a[n + 1] /\ y = b[n + 1]
      OBVIOUS
    <3>5. x \in Page /\ y \in Page /\ x.look = y.look /\ x.sheet = y.sheet
      BY <1>0, <3>1, <3>4 DEF SameSheets
    <3>6. f[n + 1] = KeepPrinted(s, x) /\ g[n + 1] = KeepPrinted(t, y)
      BY <1>1, <1>2, <2>1, <3>1, <3>2, <3>4, Zenon
    <3>7. SameSheets(Append(s, x), Append(t, y)) /\ Len(Append(s, x)) <= n + 1
      BY <2>1, <3>3, <3>5 DEF SameSheets
    <3>8. CASE x.look = "blank"
      BY <2>1, <3>3, <3>5, <3>6, <3>8 DEF KeepPrinted, SameSheets
    <3>9. CASE x.look # "blank"
      BY <3>5, <3>6, <3>7, <3>9 DEF KeepPrinted
    <3> QED BY <3>8, <3>9
  <2> QED BY <2>1, <2>2
<1>5. N = Nat
  <2> HIDE DEF N
  <2>1. N \in SUBSET Nat
    BY DEF N
  <2> QED BY <1>3, <1>4, <2>1, ConfigFold!Induction
<1>6. Len(a) <= Len(a)
  BY <1>0
<1> QED BY <1>0, <1>1, <1>2, <1>5, <1>6

\* The processed pages hold the sheets to keep.
LEMMA SkipKeepsSheets ==
  ASSUME scanned \in Seq(Page), scanned # <<>>, NEW turned, SameSheets(turned, scanned)
  PROVE  /\ SkipBlank(turned) \in Seq(Page) /\ SkipBlank(turned) # <<>>
         /\ Len(SkipBlank(turned)) <= Len(turned)
         /\ Sheets(SkipBlank(turned)) = Sheets(Kept)
<1> DEFINE kept == PageFold!Folded(<<>>, turned)
           printed == PageFold!Folded(<<>>, scanned)
<1>1. SameSheets(kept, printed) /\ Len(kept) <= Len(turned)
  BY FilterKeepsSheets
<1>2. SkipBlank(turned) = IF ~plan.skip_blank THEN turned ELSE IF kept = <<>> THEN <<turned[1]>> ELSE kept
  <2>1. Filtered(turned, LAMBDA page : ~IsBlankPage(page)) = kept
    BY FilterFolds
  <2> QED BY <2>1 DEF SkipBlank
<1>3. Kept = IF ~plan.skip_blank THEN scanned ELSE IF printed = <<>> THEN <<scanned[1]>> ELSE printed
  <2>1. Printed(scanned) = printed
    BY FilterFolds
  <2> QED BY <2>1 DEF Kept
<1> HIDE DEF kept, printed
<1>4. kept = <<>> <=> printed = <<>>
  BY <1>1 DEF SameSheets
<1>5. turned \in Seq(Page) /\ Len(turned) = Len(scanned) /\ Len(turned) \in Nat \ {0}
      /\ turned[1] \in Page /\ scanned[1] \in Page /\ turned[1].sheet = scanned[1].sheet
  BY DEF SameSheets
<1>6. \A s, t : SameSheets(s, t) => Sheets(s) = Sheets(t)
  BY DEF SameSheets, Sheets
<1>7. CASE ~plan.skip_blank
  <2>1. SkipBlank(turned) = turned /\ Kept = scanned
    BY <1>2, <1>3, <1>7
  <2> QED BY <1>5, <1>6, <2>1
<1>8. CASE plan.skip_blank /\ kept = <<>>
  <2>1. SkipBlank(turned) = <<turned[1]>> /\ Kept = <<scanned[1]>>
    BY <1>2, <1>3, <1>4, <1>8
  <2>2. Sheets(<<turned[1]>>) = Sheets(<<scanned[1]>>)
    BY <1>5 DEF Sheets
  <2>3. <<turned[1]>> \in Seq(Page) /\ <<turned[1]>> # <<>> /\ Len(<<turned[1]>>) = 1
    BY <1>5
  <2> QED BY <1>5, <2>1, <2>2, <2>3
<1>9. CASE plan.skip_blank /\ kept # <<>>
  <2>1. SkipBlank(turned) = kept /\ Kept = printed
    BY <1>2, <1>3, <1>4, <1>9
  <2> QED BY <1>1, <1>6, <1>9, <2>1 DEF SameSheets
<1> QED BY <1>7, <1>8, <1>9

-----------------------------------------------------------------------------
(* The steps.                                                              *)

IInv == PressTypes /\ Marks /\ Writes /\ Keeps /\ EmailLeavesNothing /\ SavedPathIsThere

\* The invariant holds before the press.
LEMMA InitHolds == Init => IInv
<1> SUFFICES ASSUME Init PROVE IInv
  OBVIOUS
<1>1. func \in Range(Funcs)
  BY DEF Init, Range, Funcs
<1>2. <<>> \in Seq(Page) /\ Len(<<>>) = 0 /\ Range(<<>>) = {} /\ DOMAIN <<>> = {}
  BY DEF Range
<1>3. MaxPages \in Nat
  BY PressAssumption
<1>4. \A f \in Range(Funcs) : cfg.dest[f] \in Settings
  BY DefaultIsGood DEF Init, GoodConfig
<1>5. TypeOK
  <2>1. Range(pages) \cup Range(scanned) \subseteq Page /\ DOMAIN files = {}
    BY <1>2 DEF Init
  <2>2. next \in 1 .. MaxPages + 1
    BY <1>3 DEF Init
  <2>3. tempdir \in BOOLEAN /\ armed \in BOOLEAN /\ failed \in BOOLEAN /\ status \in Statuses
    BY DEF Init, Statuses
  <2>4. pc = "idle"
    BY DEF Init
  <2> QED BY <1>1, <1>4, <2>1, <2>2, <2>3, <2>4 DEF TypeOK
<1>6. PressTypes
  BY <1>1, <1>2, <1>3, <1>5, DefaultIsGood DEF Init, PressTypes
<1> QED BY <1>6 DEF Init, IInv, Marks, Writes, Keeps, EmailLeavesNothing, SavedPathIsThere, Before, Writing

\* An early return leaves nothing of an EMAIL press, and names no path.
LEMMA EarlyReturn ==
  ASSUME IInv, pc \in (Before \cup Writing) \ {"idle"}, NEW st \in ScanErrors, Return(st),
         UNCHANGED <<func, cfg, plan, writeVars, actionVars>>,
         pages' \in Seq(Page), Len(pages') <= MaxPages, scanned' \in Seq(Page)
  PROVE  IInv'
<1>1. /\ pc' = "done" /\ status' = st /\ armed' = FALSE
      /\ tempdir' = (IF armed THEN FALSE ELSE tempdir) /\ files' = (IF armed THEN <<>> ELSE files)
      /\ func' = func /\ cfg' = cfg /\ plan' = plan /\ next' = next /\ failed' = failed
      /\ handed' = handed /\ saved_path' = saved_path
  BY DEF Return, writeVars, actionVars
<1>2. st \in Statuses /\ st # "kOk"
  BY DEF ScanErrors, Statuses
<1>3. handed = <<>> /\ saved_path = NoPath
  BY DEF IInv, Marks, Before, Writing
<1>4. TypeOK'
  <2>1. TypeOK
    BY DEF IInv, PressTypes
  <2>2. \A path \in DOMAIN files' : files'[path].whole \in BOOLEAN /\ Range(files'[path].pages) \subseteq Page
    BY <1>1, <2>1 DEF TypeOK
  <2>3. Range(pages') \cup Range(scanned') \subseteq Page
    BY DEF Range
  <2>4. tempdir' \in BOOLEAN /\ armed' \in BOOLEAN
    BY <1>1, <2>1 DEF TypeOK
  <2> QED BY <1>1, <1>2, <2>1, <2>2, <2>3, <2>4 DEF TypeOK
<1>5. PressTypes'
  BY <1>1, <1>4 DEF IInv, PressTypes
<1>6. Marks' /\ Writes' /\ Keeps'
  BY <1>1 DEF Marks, Writes, Keeps, Before, Writing
<1>7. IsEmail => ~tempdir' /\ files' = <<>>
  <2>1. pc \in Before \cup {"path"} => files = <<>>
    BY DEF IInv, Marks
  <2>2. pc \in Before => ~tempdir
    BY DEF IInv, Marks
  <2>3. pc \in Writing /\ IsEmail => armed
    BY DEF IInv, Marks
  <2> QED BY <1>1, <2>1, <2>2, <2>3
<1>8. EmailLeavesNothing'
  BY <1>1, <1>3, <1>7 DEF EmailLeavesNothing, IsEmail
<1>9. SavedPathIsThere'
  BY <1>1, <1>2, <1>3 DEF SavedPathIsThere, IsEmail
<1> QED BY <1>5, <1>6, <1>8, <1>9 DEF IInv

\* The event arrives: the configuration is read.
LEMMA PressHolds ==
  ASSUME IInv, NEW f \in Range(Funcs) \cup {"FAX"}, NEW text \in Configs, Press(f, text)
  PROVE  IInv'
<1>1. /\ pc = "idle" /\ func' = f /\ cfg' = ParseConfig(text) /\ pc' \in {"plan", "done"}
      /\ pc' = "plan" => f \in Range(Funcs) /\ status' = status
      /\ pc' = "done" => f \notin Range(Funcs) /\ status' = "kProtocolError"
      /\ UNCHANGED <<plan, pages, scanned, tempdir, armed, files, written, next, failed, handed, saved_path>>
  BY DEF Press, IsKnownFunc, dirVars, writeVars, actionVars
<1>2. plan = NoPlan /\ handed = <<>> /\ saved_path = NoPath
  BY <1>1 DEF IInv, PressTypes, Marks, Before
<1>3. GoodConfig(cfg')
  BY <1>1, ConfigIsGood
<1>4. TypeOK'
  <2>1. \A g \in Range(Funcs) : cfg'.dest[g] \in Settings
    BY <1>3 DEF GoodConfig
  <2>2. status' \in Statuses
    BY <1>1 DEF IInv, PressTypes, TypeOK, Statuses
  <2> QED BY <1>1, <2>1, <2>2 DEF IInv, PressTypes, TypeOK
<1>5. PressTypes'
  BY <1>1, <1>2, <1>3, <1>4 DEF IInv, PressTypes
<1>6. Marks' /\ Writes' /\ Keeps'
  BY <1>1 DEF IInv, Marks, Writes, Keeps, Before, Writing
<1>7. EmailLeavesNothing' /\ SavedPathIsThere'
  <2>1. f \notin Range(Funcs) => f # "EMAIL"
    BY DEF Range, Funcs
  <2> QED BY <1>1, <1>2, <2>1 DEF EmailLeavesNothing, SavedPathIsThere, IsEmail
<1> QED BY <1>5, <1>6, <1>7 DEF IInv

\* The printer pushes its command.
LEMMA PlanHolds ==
  ASSUME IInv, NEW frame \in Frames, Plan(frame)
  PROVE  IInv'
<1>1. /\ pc = "plan" /\ plan' = PlanButtonScan(frame, func, cfg)
      /\ UNCHANGED <<func, cfg, pages, scanned, writeVars, actionVars>>
  BY DEF Plan
<1>2. plan = NoPlan /\ func \in Range(Funcs) /\ GoodConfig(cfg)
  BY <1>1 DEF IInv, PressTypes
<1>3. CASE plan' = NoPlan
  <2>1. Return("kProtocolError") /\ plan' = plan
    BY <1>2, <1>3 DEF Plan
  <2>2. pages' \in Seq(Page) /\ Len(pages') <= MaxPages /\ scanned' \in Seq(Page)
    BY <1>1 DEF IInv, PressTypes
  <2> QED BY <1>1, <2>1, <2>2, EarlyReturn DEF Before, ScanErrors
<1>4. CASE plan' # NoPlan
  <2>1. pc' = "scan" /\ UNCHANGED <<status, tempdir, armed, files, written, next, failed, handed, saved_path>>
    BY <1>1, <1>4 DEF Plan, dirVars, writeVars, actionVars
  <2>2. GoodPlan(plan', func)
    BY <1>1, <1>2, <1>4, PlanIsGood
  <2>3. TypeOK'
    BY <1>1, <2>1 DEF IInv, PressTypes, TypeOK
  <2>4. PressTypes'
    BY <1>1, <1>2, <1>4, <2>1, <2>2, <2>3 DEF IInv, PressTypes
  <2> QED BY <1>1, <2>1, <2>4
          DEF IInv, Marks, Writes, Keeps, Before, Writing, EmailLeavesNothing, SavedPathIsThere
<1> QED BY <1>3, <1>4

\* The pages arrive; without one the press fails.
LEMMA ScanEndsHolds ==
  ASSUME IInv, NEW n \in 0 .. MaxPages, NEW looks \in [1 .. n -> Looks], ScanEnds(looks)
  PROVE  IInv'
<1>0. n \in Nat /\ n <= MaxPages
  BY PressAssumption
<1>1. /\ pc = "scan" /\ scanned' = pages'
      /\ pages' = [i \in 1 .. n |-> [sheet |-> i, look |-> looks[i], rotated |-> FALSE]]
      /\ UNCHANGED <<func, cfg, plan, writeVars, actionVars>>
  BY DEF ScanEnds
<1>2. pages' \in Seq(Page) /\ Len(pages') = n
  <2>1. \A i \in 1 .. n : [sheet |-> i, look |-> looks[i], rotated |-> FALSE] \in Page
    BY <1>0, PressAssumption DEF Page
  <2> QED BY <1>0, <1>1, <2>1
<1>3. CASE looks = <<>>
  <2>1. Return("kProtocolError")
    BY <1>3 DEF ScanEnds
  <2> QED BY <1>0, <1>1, <1>2, <2>1, EarlyReturn DEF Before, ScanErrors
<1>4. CASE looks # <<>>
  <2>1. pc' = "pages" /\ UNCHANGED <<status, tempdir, armed, files, written, next, failed, handed, saved_path>>
    BY <1>1, <1>4 DEF ScanEnds, dirVars, writeVars, actionVars
  <2>2. n # 0
    <3>1. n = 0 => looks = <<>>
      OBVIOUS
    <3> QED BY <1>4, <3>1
  <2>3. TypeOK'
    <3>1. Range(pages') \cup Range(scanned') \subseteq Page
      <4>1. \A i \in 1 .. n : pages'[i] \in Page
        BY <1>2
      <4> QED BY <1>1, <4>1 DEF Range
    <3> QED BY <1>1, <2>1, <3>1 DEF IInv, PressTypes, TypeOK
  <2>4. pages' # <<>>
    BY <1>0, <1>2, <2>2
  <2>5. PressTypes'
    BY <1>0, <1>1, <1>2, <2>1, <2>3, <2>4 DEF IInv, PressTypes
  <2> QED BY <1>1, <2>1, <2>5
          DEF IInv, Marks, Writes, Keeps, Before, Writing, EmailLeavesNothing, SavedPathIsThere
<1> QED BY <1>3, <1>4

\* Pages are rotated and filtered: the sheets to keep are kept.
LEMMA ProcessHolds ==
  ASSUME IInv, NEW fails, ProcessPages(fails)
  PROVE  IInv'
<1> DEFINE turned == [i \in DOMAIN pages |-> Rotate(pages[i], fails)]
<1>1. /\ pc = "pages" /\ pages' = SkipBlank(turned) /\ pc' \in {"tempdir", "path"}
      /\ pc' = "tempdir" <=> IsEmail
      /\ UNCHANGED <<func, cfg, plan, scanned, tempdir, armed, files, written, next, failed,
                     handed, saved_path, status>>
  BY DEF ProcessPages, dirVars, writeVars, actionVars
<1>2. pages \in Seq(Page) /\ Len(pages) <= MaxPages /\ Len(pages) \in Nat /\ pages = scanned /\ pages # <<>>
      /\ GoodPlan(plan, func)
  BY <1>1 DEF IInv, PressTypes, Keeps
<1>3. SameSheets(turned, scanned)
  <2>1. ASSUME NEW page \in Page
        PROVE  /\ Rotate(page, fails) \in Page
               /\ Rotate(page, fails).look = page.look /\ Rotate(page, fails).sheet = page.sheet
    <3>1. (plan.high_speed /\ Readable(page) /\ page.sheet \notin fails) \in BOOLEAN
      OBVIOUS
    <3> QED BY <3>1 DEF Rotate, Page
  <2>2. turned = [i \in 1 .. Len(pages) |-> Rotate(pages[i], fails)]
    BY <1>2
  <2>3. \A i \in 1 .. Len(pages) : pages[i] \in Page
    BY <1>2
  <2>4. turned \in Seq(Page) /\ Len(turned) = Len(pages)
    BY <1>2, <2>1, <2>2, <2>3
  <2>5. \A i \in 1 .. Len(pages) : turned[i].look = pages[i].look /\ turned[i].sheet = pages[i].sheet
    BY <2>1, <2>2, <2>3
  <2> HIDE DEF turned
  <2> QED BY <1>2, <2>4, <2>5 DEF SameSheets
<1> HIDE DEF turned
<1>4. /\ pages' \in Seq(Page) /\ pages' # <<>> /\ Len(pages') <= Len(turned)
      /\ Sheets(pages') = Sheets(Kept)
  BY <1>1, <1>2, <1>3, SkipKeepsSheets
<1>5. Len(pages') <= MaxPages
  <2>1. Len(turned) = Len(pages) /\ Len(pages') \in Nat
    BY <1>2, <1>3, <1>4 DEF SameSheets
  <2> QED BY <1>2, <1>4, <2>1, PressAssumption
<1>6. TypeOK'
  <2>1. Range(pages') \cup Range(scanned') \subseteq Page
    BY <1>1, <1>4 DEF Range, IInv, PressTypes
  <2> QED BY <1>1, <2>1 DEF IInv, PressTypes, TypeOK
<1>7. PressTypes'
  BY <1>1, <1>4, <1>5, <1>6 DEF IInv, PressTypes
<1>8. Keeps'
  <2>1. Kept' = Kept
    BY <1>1 DEF Kept
  <2>2. Sheets(pages)' = Sheets(Kept)'
    BY <1>4, <2>1 DEF Sheets
  <2> QED BY <1>1, <2>2 DEF Keeps
<1>9. Marks'
  BY <1>1 DEF IInv, Marks, Before, Writing, IsEmail
<1> QED BY <1>1, <1>7, <1>8, <1>9
        DEF IInv, Writes, EmailLeavesNothing, SavedPathIsThere

\* The two ways on to the writer: the temporary directory is made, the path is accepted.
LEMMA OnToTheWriterHolds ==
  ASSUME IInv, MakeTempDir \/ PathAccepted
  PROVE  IInv'
<1>1. UNCHANGED <<func, cfg, plan, pages, scanned, files, written, next, failed, handed, saved_path, status>>
  BY DEF MakeTempDir, PathAccepted, scanVars, dirVars, writeVars, actionVars
<1>2. \/ pc = "tempdir" /\ pc' = "path" /\ tempdir' = TRUE /\ armed' = TRUE
      \/ pc = "path" /\ pc' = "write" /\ UNCHANGED <<tempdir, armed>>
  BY DEF MakeTempDir, PathAccepted, dirVars
<1>3. TypeOK'
  BY <1>1, <1>2 DEF IInv, PressTypes, TypeOK
<1>4. PressTypes'
  BY <1>1, <1>2, <1>3 DEF IInv, PressTypes
<1>5. Marks'
  BY <1>1, <1>2 DEF IInv, Marks, Before, Writing, IsEmail
<1>6. Keeps'
  <2>1. Sheets(pages)' = Sheets(pages) /\ Sheets(Kept)' = Sheets(Kept)
    BY <1>1 DEF Sheets, Kept
  <2> QED BY <1>2, <2>1 DEF IInv, Keeps, Writing
<1>7. Writes'
  <2> SUFFICES ASSUME pc' = "write" PROVE next' <= Documents' + 1 /\ Wrote(next - 1)'
    BY <1>2 DEF Writes
  <2>1. next = 1 /\ files = <<>> /\ written = <<>>
    BY <1>2 DEF IInv, Marks
  <2>2. Documents \in 1 .. Len(pages)
    <3>1. Len(pages) \in Nat \ {0} /\ plan.output.separate_n \in Nat \ {0}
      BY <1>2 DEF IInv, PressTypes, GoodPlan
    <3> QED BY <3>1, Cut DEF Documents
  <2>3. Documents' = Documents
    BY <1>1 DEF Documents
  <2>4. next' <= Documents' + 1
    <3>1. Len(pages) \in Nat
      BY DEF IInv, PressTypes
    <3> QED BY <1>1, <2>1, <2>2, <2>3, <3>1
  <2>5. Wrote(next - 1)'
    <3>1. next' - 1 = 0 /\ 1 .. 0 = {} /\ <<>> \in Seq({"temp", "save_dir"} \X Nat) /\ Len(<<>>) = 0
      BY <1>1, <2>1
    <3>2. Range(<<>>) = {} /\ DOMAIN <<>> = {}
      BY DEF Range
    <3>3. written' = <<>> /\ files' = <<>>
      BY <1>1, <2>1
    <3> QED BY <3>1, <3>2, <3>3 DEF Wrote
  <2> QED BY <2>4, <2>5
<1> QED BY <1>1, <1>2, <1>4, <1>5, <1>6, <1>7
        DEF IInv, EmailLeavesNothing, SavedPathIsThere

\* What is written of a document is reported, and is whole, unless there is an error.
LEMMA DocumentResults ==
  ASSUME NEW output, NEW doc, NEW left \in WriteDocument(output, doc)
  PROVE  /\ left.status \in {"kOk", "kIoError", "kProtocolError"}
         /\ left.status = "kOk" => left.file = "whole"
BY DEF WriteDocument, WriteOutput, WriteSearchablePdf, EncodeImages, WriteRecognizedText, Left

\* A document's path is its own.
LEMMA PathsDiffer ==
  ASSUME NEW output, NEW i \in Nat, NEW j \in Nat, i < j, j <= NumDocs(output, Len(pages)),
         NumDocs(output, Len(pages)) \in Nat, i >= 1
  PROVE  DocPath(output, i) # DocPath(output, j)
<1>1. NumDocs(output, Len(pages)) # 1
  OBVIOUS
<1>2. PICK place : DocPath(output, i) = <<place, i>> /\ DocPath(output, j) = <<place, j>>
  BY <1>1 DEF DocPath
<1> QED BY <1>2

\* A path is in one of the two directories.
LEMMA PathIs ==
  ASSUME NEW output, NEW i \in Nat
  PROVE  DocPath(output, i) \in {"temp", "save_dir"} \X Nat /\ DocPath(output, i) # NoPath
<1>1. PICK place, k : DocPath(output, i) = <<place, k>> /\ place \in {"temp", "save_dir"} /\ k \in Nat
  BY DEF DocPath
<1> QED BY <1>1 DEF NoPath

\* A document is a part of the pages.
LEMMA DocumentIsOfPages ==
  ASSUME PressTypes, plan # NoPlan, NEW i \in 1 .. Documents, pages # <<>>
  PROVE  Range(Document(plan.output, i)) \subseteq Page
<1> DEFINE total == Len(pages)
           per == PagesPerDocument(plan.output, total)
<1>1. total \in Nat \ {0} /\ plan.output.separate_n \in Nat \ {0}
  BY DEF PressTypes, GoodPlan
<1>2. per \in Nat \ {0} /\ Documents \in 1 .. total /\ (Documents - 1) * per < total
  BY <1>1, Cut DEF Documents
<1>3. PICK from, last : /\ from = (i - 1) * per + 1 /\ last = i * per
                        /\ Document(plan.output, i) = SubSeq(pages, from, IF last > total THEN total ELSE last)
  BY DEF Document
<1> HIDE DEF per
<1>4. from \in Nat \ {0} /\ last \in Nat
  BY <1>2, <1>3
<1> HIDE DEF total
<1>5. PICK to \in Int : to = IF last > total THEN total ELSE last
  BY <1>1, <1>4
<1>6. \A k \in from .. to : pages[k] \in Page
  <2>1. pages \in Seq(Page)
    BY DEF PressTypes
  <2>2. \A k \in from .. to : k \in 1 .. total
    BY <1>1, <1>4, <1>5
  <2> QED BY <2>1, <2>2 DEF total
<1>7. SubSeq(pages, from, to) \in Seq(Page)
  BY <1>4, <1>5, <1>6, SubSeqProperties
<1>8. \A s \in Seq(Page) : Range(s) \subseteq Page
  BY DEF Range
<1> QED BY <1>3, <1>5, <1>7, <1>8

\* One document is written, or the writer gives up.
LEMMA WriteNextHolds ==
  ASSUME IInv, WriteNext
  PROVE  IInv'
<1> DEFINE doc == Document(plan.output, next)
           path == DocPath(plan.output, next)
           kept(left) == [p \in DOMAIN files \cup {path} |->
                            IF p = path THEN [pages |-> doc, whole |-> left.file = "whole"] ELSE files[p]]
<1>1. PICK left \in WriteDocument(plan.output, doc) :
        /\ files' = (IF left.file = "none" THEN files ELSE kept(left))
        /\ IF left.status # "kOk" /\ StopsAtFailure
           THEN pc' = "unwind" /\ status' = left.status /\ UNCHANGED writeVars
           ELSE /\ next' = next + 1
                /\ failed' = (failed \/ left.status # "kOk")
                /\ written' = Append(written, path)
                /\ UNCHANGED <<pc, status>>
  BY DEF WriteNext
<1>2. /\ pc = "write" /\ next <= Documents
      /\ UNCHANGED <<func, cfg, plan, pages, scanned, tempdir, armed, handed, saved_path>>
  BY DEF WriteNext, Documents, scanVars, actionVars
<1>3. /\ PressTypes /\ TypeOK /\ plan # NoPlan /\ pages # <<>> /\ GoodPlan(plan, func)
      /\ pages \in Seq(Page) /\ Len(pages) \in Nat \ {0} /\ Len(pages) <= MaxPages
  BY <1>2 DEF IInv, PressTypes
<1>4. Documents \in 1 .. Len(pages) /\ next \in 1 .. Documents /\ Documents \in Nat /\ next \in Nat
  <2>1. Documents \in 1 .. Len(pages)
    BY <1>3, Cut DEF Documents, GoodPlan
  <2>2. next \in 1 .. MaxPages + 1 /\ MaxPages \in Nat
    BY <1>3, PressAssumption DEF TypeOK
  <2> QED BY <1>2, <1>3, <2>1, <2>2
<1>5. \A p \in DOMAIN files' : files'[p].whole \in BOOLEAN /\ Range(files'[p].pages) \subseteq Page
  <2>1. \A p \in DOMAIN files : files[p].whole \in BOOLEAN /\ Range(files[p].pages) \subseteq Page
    BY <1>3 DEF TypeOK
  <2>2. Range(doc) \subseteq Page
    BY <1>3, <1>4, DocumentIsOfPages
  <2>3. (left.file = "whole") \in BOOLEAN
    OBVIOUS
  <2> HIDE DEF doc, path
  <2>4. CASE left.file = "none"
    BY <1>1, <2>1, <2>4
  <2>5. CASE left.file # "none"
    <3>1. ASSUME NEW p \in DOMAIN files'
          PROVE  files'[p].whole \in BOOLEAN /\ Range(files'[p].pages) \subseteq Page
      <4>1. CASE p = path
        <5>1. files'[p] = [pages |-> doc, whole |-> left.file = "whole"]
          BY <1>1, <2>5, <4>1
        <5> QED BY <2>2, <2>3, <5>1
      <4>2. CASE p # path
        <5>1. p \in DOMAIN files /\ files'[p] = files[p]
          BY <1>1, <2>5, <4>2
        <5> QED BY <2>1, <5>1
      <4> QED BY <4>1, <4>2
    <3> QED BY <3>1
  <2> QED BY <2>4, <2>5
<1>6. left.status \in {"kOk", "kIoError", "kProtocolError"} /\ (left.status = "kOk" => left.file = "whole")
  BY DocumentResults
<1> HIDE DEF doc, path, kept
<1>7. Keeps'
  <2>1. Sheets(pages)' = Sheets(pages) /\ Sheets(Kept)' = Sheets(Kept)
    BY <1>2 DEF Sheets, Kept
  <2>2. pc' \in {"write", "unwind"}
    BY <1>1, <1>2
  <2> QED BY <1>2, <2>1, <2>2 DEF IInv, Keeps, Writing
<1>8. CASE left.status # "kOk" /\ StopsAtFailure
  <2>1. pc' = "unwind" /\ status' = left.status /\ UNCHANGED <<written, next, failed>>
    BY <1>1, <1>8 DEF writeVars
  <2>2. TypeOK'
    BY <1>2, <1>3, <1>5, <1>6, <2>1 DEF TypeOK, Statuses
  <2>3. PressTypes'
    BY <1>2, <2>1, <2>2 DEF IInv, PressTypes
  <2>4. Marks'
    BY <1>2, <1>6, <1>8, <2>1 DEF IInv, Marks, Before, Writing, IsEmail
  <2> QED BY <1>7, <2>1, <2>3, <2>4 DEF IInv, Writes, EmailLeavesNothing, SavedPathIsThere
<1>9. CASE ~(left.status # "kOk" /\ StopsAtFailure)
  <2>1. /\ next' = next + 1 /\ failed' = (failed \/ left.status # "kOk")
        /\ written' = Append(written, path) /\ pc' = "write" /\ status' = status
    BY <1>1, <1>2, <1>9
  <2>2. next' \in 1 .. MaxPages + 1 /\ failed' \in BOOLEAN
    BY <1>3, <1>4, <2>1, PressAssumption
  <2>3. TypeOK'
    BY <1>2, <1>3, <1>5, <2>1, <2>2 DEF TypeOK
  <2>4. PressTypes'
    BY <1>2, <2>1, <2>3 DEF IInv, PressTypes
  <2>5. Marks'
    BY <1>2, <2>1 DEF IInv, Marks, Before, Writing, IsEmail
  <2>6. Documents' = Documents /\ next' - 1 = next /\ next' <= Documents + 1
    BY <1>2, <1>4, <2>1 DEF Documents
  <2>7. ASSUME ~failed' PROVE Wrote(next - 1)'
    <3>1. ~failed /\ left.status = "kOk" /\ left.file = "whole"
      BY <1>6, <2>1, <2>7
    <3>2. Wrote(next - 1)
      BY <1>2, <3>1 DEF IInv, Writes
    <3>3. /\ written \in Seq({"temp", "save_dir"} \X Nat) /\ Len(written) = next - 1
          /\ \A i \in 1 .. next - 1 : written[i] = DocPath(plan.output, i)
          /\ DOMAIN files = Range(written)
          /\ \A i \in 1 .. next - 1 :
               files[written[i]] = [pages |-> Document(plan.output, i), whole |-> TRUE]
      BY <3>2 DEF Wrote
    <3>4. path \in {"temp", "save_dir"} \X Nat
      BY <1>4, PathIs DEF path
    <3>5. /\ written' \in Seq({"temp", "save_dir"} \X Nat) /\ Len(written') = next /\ written'[next] = path
          /\ \A i \in 1 .. next - 1 : written'[i] = written[i]
      <4>1. Len(written) + 1 = next /\ written' = Append(written, path)
        BY <1>4, <2>1, <3>3
      <4>2. /\ written' \in Seq({"temp", "save_dir"} \X Nat) /\ Len(written') = Len(written) + 1
            /\ written'[Len(written) + 1] = path
            /\ \A i \in 1 .. Len(written) : written'[i] = written[i]
        BY <3>3, <3>4, <4>1
      <4> QED BY <3>3, <4>1, <4>2
    <3>6. files' = [p \in DOMAIN files \cup {path} |->
                      IF p = path THEN [pages |-> doc, whole |-> TRUE] ELSE files[p]]
      BY <1>1, <3>1 DEF kept
    <3>7. ASSUME NEW i \in 1 .. next
          PROVE  /\ written'[i] = DocPath(plan.output, i)
                 /\ files'[written'[i]] = [pages |-> Document(plan.output, i), whole |-> TRUE]
      <4>1. CASE i = next
        BY <3>5, <3>6, <4>1 DEF path, doc
      <4>2. CASE i # next
        <5>1. i \in 1 .. next - 1 /\ i \in Nat /\ i >= 1 /\ i < next
          BY <1>4, <4>2
        <5>2. written'[i] = written[i] /\ written[i] = DocPath(plan.output, i)
              /\ files[written[i]] = [pages |-> Document(plan.output, i), whole |-> TRUE]
          BY <3>3, <3>5, <5>1
        <5>3. DocPath(plan.output, i) # path
          BY <1>4, <5>1, PathsDiffer DEF path, Documents
        <5>4. written[i] \in DOMAIN files
          <6>1. i \in DOMAIN written
            BY <3>3, <5>1
          <6> QED BY <3>3, <6>1 DEF Range
        <5> QED BY <3>6, <5>2, <5>3, <5>4
      <4> QED BY <4>1, <4>2
    <3>8. DOMAIN files' = Range(written')
      <4>1. DOMAIN files' = Range(written) \cup {path}
        BY <3>3, <3>6
      <4>2. DOMAIN written = 1 .. next - 1 /\ DOMAIN written' = (1 .. next - 1) \cup {next}
        BY <1>4, <3>3, <3>5
      <4> QED BY <3>5, <4>1, <4>2 DEF Range
    <3>9. \A i \in 1 .. next : /\ DocPath(plan.output, i)' = DocPath(plan.output, i)
                               /\ Document(plan.output, i)' = Document(plan.output, i)
      BY <1>2 DEF DocPath, Document, IsEmail
    <3>10. PICK n : n = next /\ n = next' - 1
      BY <2>6
    <3>11. /\ Len(written') = n /\ \A i \in 1 .. n : written'[i] = DocPath(plan.output, i)'
           /\ \A i \in 1 .. n : files'[written'[i]] = [pages |-> Document(plan.output, i)', whole |-> TRUE]
      <4>1. Len(written') = n /\ \A i \in 1 .. n : written'[i] = DocPath(plan.output, i)'
        BY <3>5, <3>7, <3>9, <3>10
      <4>2. \A i \in 1 .. n : files'[written'[i]] = [pages |-> Document(plan.output, i)', whole |-> TRUE]
        BY <3>7, <3>9, <3>10
      <4> QED BY <4>1, <4>2
    <3> QED BY <3>5, <3>8, <3>10, <3>11 DEF Wrote
  <2>8. Writes'
    BY <1>2, <2>1, <2>6, <2>7 DEF Writes
  <2> QED BY <1>7, <2>1, <2>4, <2>5, <2>8 DEF IInv, EmailLeavesNothing, SavedPathIsThere
<1> QED BY <1>8, <1>9

\* What has been written stays written while nothing of it is touched.
LEMMA WroteStays ==
  ASSUME UNCHANGED <<func, plan, pages, scanned, written, files>>
  PROVE  /\ Documents' = Documents /\ Wrote(Documents)' = Wrote(Documents)
         /\ Sheets(pages)' = Sheets(pages) /\ Sheets(Kept)' = Sheets(Kept) /\ Delivered' = Delivered
<1>1. Documents' = Documents
  BY DEF Documents
<1>2. \A i : DocPath(plan.output, i)' = DocPath(plan.output, i)
  BY DEF DocPath, IsEmail
<1>3. \A i : Document(plan.output, i)' = Document(plan.output, i)
  BY DEF Document
<1>4. \A n : (Wrote(n))' = Wrote(n)
  BY <1>2, <1>3 DEF Wrote
<1>5. Wrote(Documents)' = Wrote(Documents)
  BY <1>1, <1>2, <1>3 DEF Wrote
<1>6. Sheets(pages)' = Sheets(pages) /\ Sheets(Kept)' = Sheets(Kept) /\ Delivered' = Delivered
  BY DEF Sheets, Kept, Delivered
<1> QED BY <1>1, <1>5, <1>6

\* The whole scan stands written where the first path says.
LEMMA WroteWhole ==
  ASSUME PressTypes, pages # <<>>, plan # NoPlan, Wrote(Documents), Sheets(pages) = Sheets(Kept)
  PROVE  /\ written # <<>> /\ written[1] \in DOMAIN files /\ files[written[1]].whole
         /\ written[1] # NoPath
         /\ Range(written) = DOMAIN files /\ IsInjective(written)
         /\ \A path \in DOMAIN files : files[path].whole
         /\ Delivered = Sheets(Kept)
<1>1. pages \in Seq(Page) /\ Len(pages) \in Nat \ {0} /\ plan.output.separate_n \in Nat \ {0}
  BY DEF PressTypes, GoodPlan
<1>2. Documents \in 1 .. Len(pages) /\ Documents \in Nat
  BY <1>1, Cut DEF Documents
<1>3. PICK n : n = Documents
  OBVIOUS
<1>4. /\ written \in Seq({"temp", "save_dir"} \X Nat) /\ Len(written) = n
      /\ \A i \in 1 .. n : written[i] = DocPath(plan.output, i)
      /\ DOMAIN files = Range(written)
      /\ \A i \in 1 .. n : files[written[i]] = [pages |-> Document(plan.output, i), whole |-> TRUE]
  BY <1>3 DEF Wrote
<1>5. DOMAIN written = 1 .. n /\ 1 \in 1 .. n
  BY <1>2, <1>3, <1>4
<1>6. written # <<>> /\ written[1] \in DOMAIN files /\ written[1] # NoPath
  BY <1>4, <1>5, PathIs DEF Range
<1>7. ASSUME NEW i \in 1 .. n PROVE files[written[i]].whole
  <2>1. PICK f : f = files[written[i]]
    OBVIOUS
  <2>2. f = [pages |-> Document(plan.output, i), whole |-> TRUE]
    BY <1>4, <2>1, Zenon
  <2>3. f.whole = TRUE
    BY <2>2
  <2> QED BY <2>1, <2>3
<1>8. \A path \in DOMAIN files : files[path].whole
  BY <1>4, <1>5, <1>7 DEF Range
<1>9. IsInjective(written)
  <2> SUFFICES ASSUME NEW i \in 1 .. n, NEW j \in 1 .. n, written[i] = written[j] PROVE i = j
    BY <1>5 DEF IsInjective
  <2>1. \A a, b \in 1 .. n : a < b => DocPath(plan.output, a) # DocPath(plan.output, b)
    BY <1>2, <1>3, PathsDiffer DEF Documents
  <2>2. DocPath(plan.output, i) = DocPath(plan.output, j)
    BY <1>4
  <2>3. i < j \/ j < i \/ i = j
    BY <1>2, <1>3
  <2> QED BY <2>1, <2>2, <2>3
<1>10. Delivered = Sheets(Kept)
  BY <1>1, DeliveredIs
<1> QED BY <1>4, <1>5, <1>6, <1>7, <1>8, <1>9, <1>10

\* The writer is done: what it reports are all the documents.
LEMMA WriteEndsHolds ==
  ASSUME IInv, WriteEnds \/ HandOver
  PROVE  IInv'
<1>1. pc \in {"write", "check"} /\ UNCHANGED <<func, cfg, plan, pages, scanned, written, next, failed, handed>>
  BY DEF WriteEnds, HandOver, scanVars, writeVars, actionVars
<1>2. CASE WriteEnds /\ failed
  <2>1. Return("kIoError") /\ UNCHANGED <<func, cfg, plan, writeVars, actionVars>> /\ pc = "write"
    BY <1>2 DEF WriteEnds, scanVars
  <2>2. pages' \in Seq(Page) /\ Len(pages') <= MaxPages /\ scanned' \in Seq(Page)
    BY <1>1 DEF IInv, PressTypes
  <2> QED BY <2>1, <2>2, EarlyReturn DEF Writing, Before, ScanErrors
<1>3. CASE (WriteEnds /\ ~failed) \/ HandOver
  <2>1. /\ UNCHANGED <<tempdir, files, status>>
        /\ \/ pc = "write" /\ pc' = "check" /\ next > Documents /\ ~failed /\ UNCHANGED <<armed, saved_path>>
           \/ /\ pc = "check" /\ pc' = "action" /\ armed' = FALSE
              /\ saved_path' = IF IsEmail THEN saved_path ELSE written[1]
    BY <1>3 DEF WriteEnds, HandOver, dirVars, actionVars, Documents
  <2>2. PressTypes /\ Marks /\ Writes /\ Keeps
    BY DEF IInv
  <2>3. TypeOK'
    BY <1>1, <2>1, <2>2 DEF PressTypes, TypeOK
  <2>4. PressTypes'
    BY <1>1, <2>1, <2>2, <2>3 DEF PressTypes
  <2>5. Marks'
    <3>1. IsEmail' = IsEmail
      BY <1>1 DEF IsEmail
    <3>2. saved_path = NoPath /\ handed = <<>> /\ (tempdir <=> IsEmail) /\ (armed <=> IsEmail)
      BY <2>1, <2>2 DEF Marks, Writing
    <3> QED BY <1>1, <2>1, <3>1, <3>2 DEF Marks, Before, Writing
  <2>6. Keeps'
    BY <1>1, <2>1, <2>2, WroteStays DEF Keeps, Writing
  <2>7. Wrote(Documents)
    <3>1. CASE pc = "check"
      BY <2>2, <3>1 DEF Writes
    <3>2. CASE pc = "write"
      <4>1. Documents \in Nat
        <5>1. Len(pages) \in Nat \ {0} /\ plan.output.separate_n \in Nat \ {0}
          BY <2>2, <3>2 DEF PressTypes, GoodPlan
        <5>2. Documents \in 1 .. Len(pages)
          BY <5>1, Cut DEF Documents
        <5> QED BY <5>1, <5>2
      <4>2. next \in Nat /\ next > Documents /\ next <= Documents + 1
        BY <2>1, <2>2, <3>2, PressAssumption DEF PressTypes, TypeOK, Writes
      <4>3. next - 1 = Documents
        BY <4>1, <4>2
      <4>4. Wrote(next - 1)
        BY <2>1, <2>2, <3>2 DEF Writes
      <4> QED BY <4>3, <4>4
    <3> QED BY <1>1, <3>1, <3>2
  <2>8. Writes'
    <3>1. Wrote(Documents)'
      BY <1>1, <2>1, <2>7, WroteStays
    <3> QED BY <2>1, <3>1 DEF Writes
  <2>9. pc' # "done"
    BY <2>1
  <2> QED BY <2>4, <2>5, <2>6, <2>8, <2>9 DEF IInv, EmailLeavesNothing, SavedPathIsThere
<1> QED BY <1>2, <1>3

\* The failures: of the scan, of the temporary directory, of a path, of the writer.
LEMMA FailureHolds ==
  ASSUME IInv,
         \/ \E st \in ScanErrors : ScanFailsEarly(st) \/ ScanFails(st)
         \/ NoTempDir \/ Refuse \/ Unwind
  PROVE  IInv'
<1>1. PICK st \in ScanErrors : Return(st)
  <2>1. CASE \E st \in ScanErrors : ScanFailsEarly(st) \/ ScanFails(st)
    BY <2>1 DEF ScanFailsEarly, ScanFails
  <2>2. CASE NoTempDir \/ Refuse
    BY <2>2 DEF NoTempDir, Refuse, ScanErrors
  <2>3. CASE Unwind
    BY <2>3 DEF Unwind, IInv, Marks, ScanErrors
  <2> QED BY <2>1, <2>2, <2>3
<1>2. pc \in (Before \cup Writing) \ {"idle"} /\ UNCHANGED <<scanVars, writeVars, actionVars>>
  BY DEF ScanFailsEarly, ScanFails, NoTempDir, Refuse, Unwind, Before, Writing
<1>3. UNCHANGED <<func, cfg, plan, pages, scanned, writeVars, actionVars>>
  BY <1>2 DEF scanVars
<1>4. pages' \in Seq(Page) /\ Len(pages') <= MaxPages /\ scanned' \in Seq(Page)
  BY <1>3 DEF IInv, PressTypes
<1> QED BY <1>1, <1>2, <1>3, <1>4, EarlyReturn

\* The actions that are not EMAIL's: the files stay, and saved_path keeps the first.
LEMMA ActionHolds ==
  ASSUME IInv, NoAction \/ \E rc \in {0, 1} : PerformImageAction(rc)
  PROVE  IInv'
<1>1. /\ pc = "action" /\ pc' = "done" /\ func \in {"FILE", "OCR", "IMAGE"}
      /\ status' \in {"kOk", "kIoError"}
      /\ (handed' = handed /\ status' = "kOk") \/ handed' = written
      /\ UNCHANGED <<func, cfg, plan, pages, scanned, tempdir, armed, files, written, next, failed,
                     saved_path>>
  BY DEF NoAction, PerformImageAction, scanVars, dirVars, writeVars, actionVars
<1>2. ~IsEmail /\ ~IsEmail'
  BY <1>1 DEF IsEmail
<1>3. PressTypes /\ TypeOK /\ pages # <<>> /\ plan # NoPlan
  BY <1>1 DEF IInv, PressTypes
<1>4. Wrote(Documents) /\ Sheets(pages) = Sheets(Kept)
  BY <1>1 DEF IInv, Writes, Keeps
<1>5. written # <<>> /\ written[1] \in DOMAIN files /\ files[written[1]].whole /\ written[1] # NoPath
  BY <1>3, <1>4, WroteWhole
<1>6. saved_path = written[1] /\ handed = <<>> /\ ~armed
  BY <1>1, <1>2 DEF IInv, Marks
<1>7. TypeOK'
  BY <1>1, <1>3 DEF TypeOK, Statuses
<1>8. PressTypes'
  BY <1>1, <1>3, <1>7 DEF PressTypes
<1>9. Marks' /\ Writes' /\ Keeps'
  BY <1>1 DEF Marks, Writes, Keeps, Before, Writing
<1>10. EmailLeavesNothing'
  BY <1>2 DEF EmailLeavesNothing
<1>11. SavedPathIsThere'
  BY <1>1, <1>2, <1>5, <1>6 DEF SavedPathIsThere
<1> QED BY <1>8, <1>9, <1>10, <1>11 DEF IInv

\* Mail takes the copies, or they stay.
LEMMA EmailActionHolds ==
  ASSUME IInv, NEW rc \in {0, 1}, PerformEmailAction(rc)
  PROVE  IInv'
<1>1. /\ pc = "action" /\ pc' = "cleanup" /\ IsEmail /\ handed' = written
      /\ status' = (IF rc = 0 THEN "kOk" ELSE "kIoError")
      /\ files' = (IF rc = 0 THEN Restrict(files, DOMAIN files \ Range(written)) ELSE files)
      /\ UNCHANGED <<func, cfg, plan, pages, scanned, tempdir, armed, written, next, failed, saved_path>>
  BY DEF PerformEmailAction, scanVars, writeVars
<1>2. PressTypes /\ TypeOK
  BY DEF IInv, PressTypes
<1>3. \A path \in DOMAIN files' : path \in DOMAIN files /\ files'[path] = files[path]
  BY <1>1 DEF Restrict
<1>4. TypeOK'
  <2>1. \A path \in DOMAIN files' :
          files'[path].whole \in BOOLEAN /\ Range(files'[path].pages) \subseteq Page
    BY <1>2, <1>3 DEF TypeOK
  <2>2. status' \in Statuses
    BY <1>1 DEF Statuses
  <2> QED BY <1>1, <1>2, <2>1, <2>2 DEF TypeOK
<1>5. PressTypes'
  BY <1>1, <1>2, <1>4 DEF PressTypes
<1>6. Marks'
  BY <1>1 DEF IInv, Marks, Before, Writing, IsEmail
<1>7. Writes'
  <2> SUFFICES ASSUME status' # "kOk" PROVE Wrote(Documents)'
    BY <1>1 DEF Writes
  <2>1. Wrote(Documents) /\ UNCHANGED files
    BY <1>1 DEF IInv, Writes
  <2> QED BY <1>1, <2>1, WroteStays
<1>8. Keeps'
  <2>1. Sheets(pages)' = Sheets(pages) /\ Sheets(Kept)' = Sheets(Kept)
    BY <1>1 DEF Sheets, Kept
  <2> QED BY <1>1, <2>1 DEF IInv, Keeps
<1> QED BY <1>1, <1>5, <1>6, <1>7, <1>8 DEF IInv, EmailLeavesNothing, SavedPathIsThere

\* The temporary directory goes with the copies Mail took.
LEMMA EmailCleanupHolds ==
  ASSUME IInv, EmailCleanup
  PROVE  IInv'
<1>1. /\ pc = "cleanup" /\ pc' = "done"
      /\ UNCHANGED <<func, cfg, plan, pages, scanned, armed, written, next, failed, handed, status>>
      /\ status = "kOk" => tempdir' = FALSE /\ files' = <<>> /\ UNCHANGED saved_path
      /\ status # "kOk" => saved_path' = written[1] /\ UNCHANGED <<tempdir, files>>
  BY DEF EmailCleanup, scanVars, writeVars
<1>2. PressTypes /\ TypeOK /\ pages # <<>> /\ plan # NoPlan
  BY <1>1 DEF IInv, PressTypes
<1>3. IsEmail /\ IsEmail' /\ handed = written /\ saved_path = NoPath /\ tempdir = TRUE
  BY <1>1, <1>2 DEF IInv, Marks, IsEmail, TypeOK
<1>4. PressTypes'
  <2>1. \A path \in DOMAIN files' :
          files'[path].whole \in BOOLEAN /\ Range(files'[path].pages) \subseteq Page
    <3>1. CASE status = "kOk"
      <4>1. DOMAIN files' = {}
        BY <1>1, <3>1
      <4> QED BY <4>1
    <3>2. CASE status # "kOk"
      BY <1>1, <1>2, <3>2 DEF TypeOK
    <3> QED BY <3>1, <3>2
  <2>2. tempdir' \in BOOLEAN
    BY <1>1, <1>2 DEF TypeOK
  <2>3. TypeOK'
    BY <1>1, <1>2, <2>1, <2>2 DEF TypeOK
  <2> QED BY <1>1, <1>2, <2>3 DEF PressTypes
<1>5. Marks' /\ Writes' /\ Keeps'
  BY <1>1 DEF Marks, Writes, Keeps, Before, Writing
<1>6. EmailLeavesNothing' /\ SavedPathIsThere'
  <2>1. CASE status = "kOk"
    <3>1. status' = "kOk" /\ tempdir' = FALSE /\ files' = <<>> /\ saved_path' = NoPath
      BY <1>1, <1>3, <2>1
    <3> QED BY <1>3, <3>1 DEF EmailLeavesNothing, SavedPathIsThere
  <2>2. CASE status # "kOk"
    <3>1. Wrote(Documents) /\ Sheets(pages) = Sheets(Kept)
      BY <1>1, <2>2 DEF IInv, Writes, Keeps
    <3>2. /\ written # <<>> /\ written[1] \in DOMAIN files /\ files[written[1]].whole
          /\ written[1] # NoPath /\ Delivered = Sheets(Kept)
      BY <1>2, <3>1, WroteWhole
    <3>3. Delivered' = Delivered /\ Sheets(Kept)' = Sheets(Kept)
      BY <1>1, <2>2, WroteStays
    <3>4. /\ status' # "kOk" /\ handed' = written /\ tempdir' = TRUE /\ files' = files
          /\ saved_path' = written[1] /\ handed' # <<>> /\ saved_path' = handed'[1]
      BY <1>1, <1>3, <2>2, <3>2
    <3>5. EmailLeavesNothing'
      BY <3>2, <3>3, <3>4 DEF EmailLeavesNothing
    <3>6. SavedPathIsThere'
      BY <1>3, <3>2, <3>4 DEF SavedPathIsThere
    <3> QED BY <3>5, <3>6
  <2> QED BY <2>1, <2>2
<1> QED BY <1>4, <1>5, <1>6 DEF IInv

\* A stuttering step keeps the invariant.
LEMMA StutterHolds ==
  ASSUME IInv, UNCHANGED vars
  PROVE  IInv'
<1>1. UNCHANGED <<pc, func, cfg, plan, pages, scanned, tempdir, armed, files, written, next, failed,
                  handed, saved_path, status>>
  BY DEF vars
<1>2. PressTypes' /\ Marks'
  <2>1. TypeOK' <=> TypeOK
    BY <1>1 DEF TypeOK
  <2> QED BY <1>1, <2>1 DEF IInv, PressTypes, Marks, IsEmail
<1>3. Documents' = Documents /\ (Wrote(Documents)' <=> Wrote(Documents))
      /\ Sheets(pages)' = Sheets(pages) /\ Sheets(Kept)' = Sheets(Kept) /\ Delivered' = Delivered
  BY <1>1, WroteStays
<1>4. Wrote(next - 1)' <=> Wrote(next - 1)
  <2>1. \A i : DocPath(plan.output, i)' = DocPath(plan.output, i)
    BY <1>1 DEF DocPath, IsEmail
  <2>2. \A i : Document(plan.output, i)' = Document(plan.output, i)
    BY <1>1 DEF Document
  <2> QED BY <1>1, <2>1, <2>2 DEF Wrote
<1>5. Writes' /\ Keeps'
  BY <1>1, <1>3, <1>4 DEF IInv, Writes, Keeps
<1>6. EmailLeavesNothing' /\ SavedPathIsThere'
  BY <1>1, <1>3 DEF IInv, EmailLeavesNothing, SavedPathIsThere, IsEmail
<1> QED BY <1>2, <1>5, <1>6 DEF IInv

\* One step of a press keeps the invariant.
LEMMA NextHolds == IInv /\ [Next]_vars => IInv'
<1> SUFFICES ASSUME IInv, [Next]_vars PROVE IInv'
  OBVIOUS
<1>1. CASE \E f \in Range(Funcs) \cup {"FAX"}, text \in Configs : Press(f, text)
  BY <1>1, PressHolds
<1>2. CASE \E frame \in Frames : Plan(frame)
  BY <1>2, PlanHolds
<1>3. CASE \E n \in 0 .. MaxPages : \E looks \in [1 .. n -> Looks] : ScanEnds(looks)
  BY <1>3, ScanEndsHolds
<1>4. CASE \E fails \in SUBSET (1 .. MaxPages) : ProcessPages(fails)
  BY <1>4, ProcessHolds
<1>5. CASE MakeTempDir \/ PathAccepted
  BY <1>5, OnToTheWriterHolds
<1>6. CASE WriteNext
  BY <1>6, WriteNextHolds
<1>7. CASE WriteEnds \/ HandOver
  BY <1>7, WriteEndsHolds
<1>8. CASE NoAction \/ \E rc \in {0, 1} : PerformImageAction(rc)
  BY <1>8, ActionHolds
<1>9. CASE \E rc \in {0, 1} : PerformEmailAction(rc)
  BY <1>9, EmailActionHolds
<1>10. CASE EmailCleanup
  BY <1>10, EmailCleanupHolds
<1>11. CASE \/ \E st \in ScanErrors : ScanFailsEarly(st) \/ ScanFails(st)
            \/ NoTempDir \/ Refuse \/ Unwind
  BY <1>11, FailureHolds
<1>12. CASE UNCHANGED vars
  BY <1>12, StutterHolds
<1> QED BY <1>1, <1>2, <1>3, <1>4, <1>5, <1>6, <1>7, <1>8, <1>9, <1>10, <1>11, <1>12 DEF Next

(* Every state of a press satisfies the invariant.                         *)
LEMMA Invariance == Spec => []IInv
BY InitHolds, NextHolds, PTL DEF Spec

-----------------------------------------------------------------------------
(* The theorems.                                                           *)

(* The fields of a press keep their types whatever the printer pushes and  *)
(* whatever a line of the file says: every value a config line sets is one *)
(* the fields can hold (daemon/config.h, ApplyConfig).                     *)
THEOREM TypeCorrect == Spec => []TypeOK
<1>1. IInv => TypeOK
  BY DEF IInv, PressTypes
<1> QED BY <1>1, Invariance, PTL

(* No plan asks for an empty area or for an output the function cannot     *)
(* make, for every command and every file (daemon/button_plan.cpp).        *)
THEOREM PlansAreScannable == Spec => []PlanIsScannable
<1>1. IInv => PlanIsScannable
  BY DEF IInv, PressTypes, GoodPlan, PlanIsScannable
<1> QED BY <1>1, Invariance, PTL

(* What the action gets is the whole scan, for any number of pages, any    *)
(* division into documents and any pages that failed to decode or rotate   *)
(* (handle_event.mm:280-473).                                              *)
THEOREM ActsOnTheWholeScan == Spec => []ActsOnWholeScan
<1>1. ASSUME IInv PROVE ActsOnWholeScan
  <2> SUFFICES ASSUME pc = "action"
               PROVE  /\ Range(written) = DOMAIN files /\ IsInjective(written)
                      /\ \A path \in DOMAIN files : files[path].whole
                      /\ Delivered = Sheets(Kept)
    BY DEF ActsOnWholeScan
  <2>1. PressTypes /\ pages # <<>> /\ plan # NoPlan /\ Wrote(Documents) /\ Sheets(pages) = Sheets(Kept)
    BY <1>1 DEF IInv, PressTypes, Writes, Keeps
  <2> QED BY <2>1, WroteWhole
<1> QED BY <1>1, Invariance, PTL

(* A press of EMAIL that is over keeps no copy, unless Mail did not take   *)
(* it (handle_event.mm:342-352, 484-491).                                  *)
THEOREM EmailIsNotKept == Spec => []EmailLeavesNothing
<1>1. IInv => EmailLeavesNothing
  BY DEF IInv
<1> QED BY <1>1, Invariance, PTL

(* The path a press reports is a whole file of that press                  *)
(* (handle_event.h, *saved_path).                                          *)
THEOREM ReportedPathIsThere == Spec => []SavedPathIsThere
<1>1. IInv => SavedPathIsThere
  BY DEF IInv
<1> QED BY <1>1, Invariance, PTL
=============================================================================
