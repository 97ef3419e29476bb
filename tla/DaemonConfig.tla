---------------------------- MODULE DaemonConfig ----------------------------
(***************************************************************************)
(* How brscan-scand reads its configuration file (daemon/config.cpp).      *)
(*                                                                         *)
(* A file is a sequence of lines.  A line is [key, value]: a key is the    *)
(* pair <<dest, field>>, with dest = "" for the keys that belong to no     *)
(* destination, and a value is the sequence of the words it is made of     *)
(* ("image:2" is <<"image", "2">>, an empty value is <<>>).  A comment, a  *)
(* blank line and a line without "=" carry NoKey.  Blanks around keys and  *)
(* values and the case of letters are left out.                            *)
(***************************************************************************)
EXTENDS Integers, Sequences, FiniteSets, SequencesExt, Functions, TLC

CONSTANTS
  Literal,     \* the decimal literals that occur, with their values
  HostName,    \* what gethostname() answers, "" when it fails
  Home         \* the words of $HOME, <<>> when it is unset

ASSUME LiteralAssumption == \A s \in DOMAIN Literal : Literal[s] \in Int

NoKey == <<"", "">>

(* The FUNCs a destination prefix and a button press name. *)
Funcs == <<"FILE", "IMAGE", "OCR", "EMAIL">>
DestPrefix == [file |-> "FILE", image |-> "IMAGE", ocr |-> "OCR", email |-> "EMAIL"]
IsKnownFunc(func) == func \in Range(Funcs)

-----------------------------------------------------------------------------
(* The words each kind of value is spelled with. *)
ModeWords == [color |-> "kColor", gray |-> "kGray", bw |-> "kBlackWhite",
              errdiff |-> "kErrorDiffusion", truegray |-> "kTrueGray"]
SourceWords == [w \in {"flatbed", "adf", "adf-duplex"} |->
                  [source |-> IF w = "flatbed" THEN "kFlatbed" ELSE "kAdf", duplex |-> w = "adf-duplex"]]
FormatWords == [pdf |-> "kPdf", tiff |-> "kTiff", jpeg |-> "kJpeg", png |-> "kPng",
                heic |-> "kHeic", jp2 |-> "kJpeg2000", gif |-> "kGif", bmp |-> "kBmp",
                native |-> "kNative"]
OcrFormatWords == [pdf |-> "kPdf", txt |-> "kText", html |-> "kHtml", rtf |-> "kRtf"]
TiffWords == [lzw |-> "kLzw", g3 |-> "kG3", g4 |-> "kG4"]
BackgroundWords == [off |-> 0, low |-> 64, medium |-> 128, high |-> 192]
BoolWords == [w \in {"on", "true", "yes", "1", "off", "false", "no", "0"} |->
                w \in {"on", "true", "yes", "1"}]
PositiveInt == Restrict(Literal, {w \in DOMAIN Literal : Literal[w] > 0})
\* Mutant: the quality is taken as it is spelled.
JpegQualityUnclamped == Literal

JpegQuality == [w \in DOMAIN Literal |->
                  CASE Literal[w] < 0 -> 0 [] Literal[w] > 100 -> 100 [] OTHER -> Literal[w]]

(* A value that is not one of the words leaves the field as it was. *)
Parsed(words, value, old) ==
  IF Len(value) = 1 /\ value[1] \in DOMAIN words THEN words[value[1]] ELSE old

(* <dest>.separation, the two fields of OutputSettings it sets. *)
SeparationWords == [image |-> "kEveryImage", page |-> "kEveryPage", every |-> "kEveryImage"]
ParseSeparation(value, old) ==
  CASE value \in {<<"combine">>, <<"off">>} ->
         [separation |-> "kCombine", separate_n |-> 1]
    [] /\ Len(value) = 2
       /\ value[1] \in DOMAIN SeparationWords
       /\ value[2] \in DOMAIN PositiveInt ->
         [separation |-> SeparationWords[value[1]], separate_n |-> PositiveInt[value[2]]]
    [] OTHER -> old

(* register_funcs: the known FUNCs, in their canonical order, never none. *)
ParseRegisterFuncs(value, old) ==
  LET named == {DestPrefix[w] : w \in Range(value) \cap DOMAIN DestPrefix}
  IN  IF named = {} THEN old ELSE SelectSeq(Funcs, LAMBDA f : f \in named)

ExpandHome(path) ==
  IF path # <<>> /\ path[1] = "~" THEN Home \o (IF Home = <<>> THEN path ELSE Tail(path))
  ELSE path

DefaultDisplayName == <<IF HostName = "" THEN "Mac" ELSE HostName>>

-----------------------------------------------------------------------------
(* The configuration.  What a destination has is one record, so that the   *)
(* eight ...ForDestPrefix and the seven ...ForFunc functions are the       *)
(* choice of that record.                                                  *)
Settings ==
  [mode: Range(ModeWords), dpi: Nat \ {0}, source: {"kFlatbed", "kAdf"}, duplex: BOOLEAN,
   format: Range(FormatWords), tiff: Range(TiffWords),
   separation: {"kCombine", "kEveryImage", "kEveryPage"}, separate_n: Nat \ {0},
   paper: Seq(STRING), level: Range(BackgroundWords),
   high_speed: BOOLEAN, skip_blank: BOOLEAN, jpeg_quality: 0..100]

DefaultSettings ==
  [mode |-> "kColor", dpi |-> 300, source |-> "kFlatbed", duplex |-> FALSE,
   format |-> "kNative", tiff |-> "kLzw", separation |-> "kCombine", separate_n |-> 1,
   paper |-> <<>>, level |-> 0, high_speed |-> FALSE, skip_blank |-> FALSE,
   jpeg_quality |-> 90]

DefaultConfig ==
  [printer_host |-> <<>>, display_name |-> DefaultDisplayName,
   save_dir |-> ExpandHome(<<"~", "Scans">>), image_app |-> <<>>, email_to |-> <<>>,
   register_funcs |-> Funcs, ocr_text_format |-> "kPdf",
   dest |-> [f \in Range(Funcs) |-> DefaultSettings]]

(* What ...ForFunc(cfg, func) choose from, FILE for anything unknown. *)
ForFunc(cfg, func) == cfg.dest[IF func \in {"IMAGE", "OCR", "EMAIL"} THEN func ELSE "FILE"]

(* The keys <dest>.<field> of one destination. *)
ApplyField(s, field, value) ==
  LET scan == Parsed(SourceWords, value, s)
      cut == ParseSeparation(value, s)
  IN  CASE field = "mode"   -> [s EXCEPT !.mode = Parsed(ModeWords, value, @)]
        [] field = "dpi"    -> [s EXCEPT !.dpi = Parsed(PositiveInt, value, @)]
        [] field = "source" -> [s EXCEPT !.source = scan.source, !.duplex = scan.duplex]
        [] field = "format" -> [s EXCEPT !.format = Parsed(FormatWords, value, @)]
        [] field = "tiff_compression"  -> [s EXCEPT !.tiff = Parsed(TiffWords, value, @)]
        [] field = "separation"        -> [s EXCEPT !.separation = cut.separation, !.separate_n = cut.separate_n]
        [] field = "paper"             -> [s EXCEPT !.paper = value]
        [] field = "remove_background" -> [s EXCEPT !.level = Parsed(BackgroundWords, value, @)]
        [] field = "high_speed"        -> [s EXCEPT !.high_speed = Parsed(BoolWords, value, @)]
        [] field = "skip_blank"        -> [s EXCEPT !.skip_blank = Parsed(BoolWords, value, @)]
        [] field = "jpeg_quality"      -> [s EXCEPT !.jpeg_quality = Parsed(JpegQuality, value, @)]
        [] OTHER -> s

(* A key the daemon does not know changes nothing. *)
ApplyKey(cfg, key, value) ==
  LET dest == key[1]
      field == key[2]
  IN  CASE dest = "" /\ field \in {"printer_host", "display_name", "image_app", "email_to"} ->
             [cfg EXCEPT ![field] = value]
        [] key = <<"", "save_dir">> -> [cfg EXCEPT !.save_dir = ExpandHome(value)]
        [] key = <<"", "register_funcs">> ->
             [cfg EXCEPT !.register_funcs = ParseRegisterFuncs(value, @)]
        [] key = <<"ocr", "ocr_format">> ->
             [cfg EXCEPT !.ocr_text_format = Parsed(OcrFormatWords, value, @)]
        [] dest \in DOMAIN DestPrefix /\ key # <<"ocr", "ocr_format">> ->
             [cfg EXCEPT !.dest[DestPrefix[dest]] = ApplyField(@, field, value)]
        [] OTHER -> cfg

(* A line without a key is skipped, the others apply in file order. *)
ParseConfig(text) ==
  FoldLeft(LAMBDA cfg, line : IF line.key = NoKey THEN cfg ELSE ApplyKey(cfg, line.key, line.value),
           DefaultConfig, text)

(* TryReloadConfig swaps in a configuration only if it names a printer. *)
Usable(cfg) == cfg.printer_host # <<>>
=============================================================================
