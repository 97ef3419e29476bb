-------------------------- MODULE MCButtonPress ----------------------------
(* Frames of the short form and of the LCD-set form, with known and unknown *)
(* tokens, one that is malformed, and four configuration files.             *)
EXTENDS ButtonPress

MCLiteral == ("0" :> 0) @@ ("1" :> 1) @@ ("2" :> 2) @@ ("-3" :> -3) @@ ("300" :> 300) @@ ("9999" :> 9999)

MCHome == <<"home">>

Lcd(dpi, paper, type, x) ==
  [framed |-> TRUE,
   lines |-> <<[key |-> "F", value |-> "FILE"], [key |-> "R", value |-> dpi],
               [key |-> "M", value |-> "CGRAY"], [key |-> "P", value |-> paper],
               [key |-> "T", value |-> type], [key |-> "W", value |-> x],
               [key |-> "X", value |-> x]>>]
Auto == [framed |-> TRUE, lines |-> <<[key |-> "F", value |-> "FILE"], [key |-> "D", value |-> "DUP"]>>]

MCFrames ==
  {Auto, [Auto EXCEPT !.framed = FALSE], [Auto EXCEPT !.lines = Tail(@)],
   Lcd("300", "A4", "MULTI-TIFF", "0"), Lcd("1", "POSTER", "TXT", "1"),
   Lcd("300", "LETTER", "JPEG", "1"), Lcd("-3", "A4", "PDF(Image)", "0")}

Line(dest, field, value) == [key |-> <<dest, field>>, value |-> value]
All(field, value) == [i \in 1 .. 4 |-> Line(<<"file", "image", "ocr", "email">>[i], field, value)]

MCConfigs ==
  {<<>>,
   All("format", <<"tiff">>) \o All("separation", <<"image", "2">>)
     \o <<Line("ocr", "ocr_format", <<"html">>), [key |-> NoKey, value |-> <<>>]>>,
   All("format", <<"pdf">>) \o All("paper", <<"POSTER">>) \o All("separation", <<"page", "0">>),
   All("format", <<"jpeg">>) \o All("skip_blank", <<"yes">>) \o All("high_speed", <<"on">>)
     \o All("dpi", <<"9999">>) \o All("jpeg_quality", <<"-3">>)}
=============================================================================
