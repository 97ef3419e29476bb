-------------------------- MODULE MCConfigStore ----------------------------
(* Files an editor may leave: with comments and keys the app does not own   *)
(* between its own, with a key more than once and the last one unreadable,  *)
(* with a format its mode excludes, and one that is not UTF-8.              *)
EXTENDS ConfigStore

MCLiteral == ("0" :> 0) @@ ("1" :> 1) @@ ("2" :> 2) @@ ("-3" :> -3) @@ ("90" :> 90)
          @@ ("100" :> 100) @@ ("300" :> 300) @@ ("600" :> 600)

MCHome == <<"home">>

L(dest, field, value) == [key |-> <<dest, field>>, value |-> value]
Comment(text) == [key |-> NoKey, value |-> <<text>>]

MCVersions ==
  {[lines |-> <<Comment("# mine"), L("", "printer_host", <<"p1">>), L("", "display_name", <<>>),
                L("file", "remove_background", <<"high">>), L("file", "mode", <<"bw">>),
                L("", "register_funcs", <<"file", "ocr">>), L("file", "format", <<"heic">>),
                L("ocr", "format", <<"tiff">>), L("ocr", "jpeg_quality", <<"-3">>)>>,
    readable |-> TRUE],
   [lines |-> <<L("", "printer_host", <<"p1">>), L("file", "dpi", <<"600">>),
                L("file", "separation", <<"every", "2">>), Comment("# again"),
                L("", "printer_host", <<"p2">>), L("file", "dpi", <<"0">>),
                L("image", "high_speed", <<"yes">>), L("email", "jpeg_quality", <<"600">>),
                L("", "display_name", <<"den">>), L("", "display_name", <<"attic">>)>>,
    readable |-> TRUE],
   [lines |-> <<Comment("not UTF-8"), L("", "printer_host", <<"p1">>)>>, readable |-> FALSE]}

Change(dest, field, value) == [key |-> <<dest, field>>, value |-> value]

MCEdits ==
  {Change("", "printer_host", <<"p3">>), Change("", "display_name", <<>>),
   Change("", "display_name", <<"hall">>), Change("file", "mode", <<"bw">>),
   Change("file", "format", <<"heic">>), Change("ocr", "ocr_format", <<"html">>),
   Change("email", "separation", <<"page", "2">>)}
=============================================================================
