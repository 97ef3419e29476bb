------------------------- MODULE ConfigStore_proofs -------------------------
(***************************************************************************)
(* What holds of the configuration file whatever the app, its crashes and  *)
(* an editor do to it, for any files, changes and bounds.                  *)
(***************************************************************************)
EXTENDS ConfigStore, TLAPS

\* A rename is only reached with the temporary file written in full.
TempIsWhole == pc = "rename" => temp = Whole(job.lines)

\* A file written to its end is not the absence of one.
LEMMA WholeIsNotNoFile == \A lines : Whole(lines).whole = TRUE /\ Whole(lines) # NoFile
<1> SUFFICES ASSUME NEW lines PROVE Whole(lines).whole = TRUE /\ Whole(lines) # NoFile
  OBVIOUS
<1>1. Whole(lines).whole = TRUE /\ NoFile.whole = FALSE
  BY DEF Whole, NoFile
<1> QED BY <1>1

\* Initially.
LEMMA InitFile == Init => FileIsWhole /\ TempIsWhole
BY DEF Init, FileIsWhole, TempIsWhole

\* No step leaves a file that is not whole, or a saved one missing.
LEMMA NextFile == FileIsWhole /\ TempIsWhole /\ [Next]_vars => FileIsWhole' /\ TempIsWhole'
<1> SUFFICES ASSUME FileIsWhole, TempIsWhole, [Next]_vars PROVE FileIsWhole' /\ TempIsWhole'
  OBVIOUS
<1>1. ASSUME UNCHANGED <<file, saved>>, pc' # "rename" \/ temp' = Whole(job'.lines)
      PROVE  FileIsWhole' /\ TempIsWhole'
  BY <1>1 DEF FileIsWhole, TempIsWhole
<1>2. CASE UNCHANGED vars
  BY <1>1, <1>2 DEF vars, TempIsWhole
<1>3. CASE Launch \/ Reload \/ LoadMissing \/ LoadFails \/ Load
  BY <1>1, <1>3 DEF Launch, Reload, LoadMissing, LoadFails, Load, historyVars
<1>4. ASSUME NEW change \in Edits, Edit(change) PROVE FileIsWhole' /\ TempIsWhole'
  BY <1>1, <1>4 DEF Edit, historyVars
<1>5. CASE CreateStarter \/ SaveRefused \/ Save
  BY <1>1, <1>5 DEF CreateStarter, SaveRefused, Save, historyVars
<1>6. CASE WriteTemp
  BY <1>1, <1>6 DEF WriteTemp, historyVars
<1>7. CASE RenameFails \/ Crash
  BY <1>1, <1>7 DEF RenameFails, Crash, historyVars
<1>8. CASE Rename
  <2>1. file' = Whole(job.lines) /\ pc' # "rename"
    BY <1>8 DEF Rename, TempIsWhole
  <2>2. file'.whole /\ file' # NoFile
    BY <2>1, WholeIsNotNoFile
  <2> QED BY <2>1, <2>2 DEF FileIsWhole, TempIsWhole
<1>9. ASSUME NEW version \in Versions, EditorWrites(version) PROVE FileIsWhole' /\ TempIsWhole'
  <2>1. file'.whole = TRUE /\ saved' = FALSE /\ UNCHANGED <<temp, pc, job>>
    BY <1>9 DEF EditorWrites
  <2> QED BY <2>1 DEF FileIsWhole, TempIsWhole
<1> QED BY <1>2, <1>3, <1>4, <1>5, <1>6, <1>7, <1>8, <1>9 DEF Next

\* At any moment, in the middle of a save, after a failed write or rename or a crash, the file
\* the daemon finds is one that was written in full, and a saved file stays
\* (ConfigStore.writeAtomically), whatever an editor makes of it in between.
THEOREM FileStaysWhole == Spec => []FileIsWhole
<1>1. FileIsWhole /\ TempIsWhole /\ [Next]_vars => (FileIsWhole /\ TempIsWhole)'
  BY NextFile
<1> QED BY InitFile, <1>1, PTL DEF Spec

-----------------------------------------------------------------------------
(* The keys of the app.                                                     *)

Owned == Range(OwnedKeys)
NameKey == <<"", "display_name">>
Dests == {"file", "image", "ocr", "email"}
TabFields == {"mode", "source", "dpi", "format", "tiff_compression", "separation", "paper",
              "high_speed", "skip_blank", "jpeg_quality"}
GeneralFields == {"printer_host", "display_name", "save_dir", "image_app", "email_to"}
General == {<<"", "printer_host">>, NameKey, <<"", "save_dir">>, <<"", "image_app">>, <<"", "email_to">>}
TabKeys == {<<dest, field>> : dest \in Dests, field \in TabFields}
OcrKey == <<"ocr", "ocr_format">>

\* Seven elements of a set are a sequence over it.
LEMMA Seven ==
  ASSUME NEW S, NEW a \in S, NEW b \in S, NEW c \in S, NEW d \in S, NEW e \in S, NEW f \in S, NEW g \in S
  PROVE  <<a, b, c, d, e, f, g>> \in Seq(S)
OBVIOUS

\* Three elements.
LEMMA Three == ASSUME NEW S, NEW a \in S, NEW b \in S, NEW c \in S PROVE <<a, b, c>> \in Seq(S)
OBVIOUS

\* One element, and none.
LEMMA OneOrNone == ASSUME NEW S, NEW a \in S PROVE <<a>> \in Seq(S) /\ <<>> \in Seq(S)
OBVIOUS

\* Two sequences, one after the other.
LEMMA Joined == \A S : \A a, b \in Seq(S) : a \o b \in Seq(S)
OBVIOUS

\* The elements of short sequences, and of one after another.
LEMMA RangeOf ==
  /\ Range(<<>>) = {} /\ \A a : Range(<<a>>) = {a}
  /\ \A a, b, c : Range(<<a, b, c>>) = {a, b, c}
  /\ \A a, b, c, d, e : Range(<<a, b, c, d, e>>) = {a, b, c, d, e}
  /\ \A a, b, c, d, e, f, g : Range(<<a, b, c, d, e, f, g>>) = {a, b, c, d, e, f, g}
<1>1. Range(<<>>) = {} /\ \A a : Range(<<a>>) = {a}
  BY DEF Range
<1>2. \A a, b, c : Range(<<a, b, c>>) = {a, b, c}
  BY DEF Range
<1>3. \A a, b, c, d, e : Range(<<a, b, c, d, e>>) = {a, b, c, d, e}
  BY DEF Range
<1>4. \A a, b, c, d, e, f, g : Range(<<a, b, c, d, e, f, g>>) = {a, b, c, d, e, f, g}
  BY DEF Range
<1> QED BY <1>1, <1>2, <1>3, <1>4

\* The elements of two sequences are those of one after the other.
LEMMA RangeJoined == \A S : \A a, b \in Seq(S) : Range(a \o b) = Range(a) \cup Range(b)
<1> SUFFICES ASSUME NEW S, NEW a \in Seq(S), NEW b \in Seq(S) PROVE Range(a \o b) = Range(a) \cup Range(b)
  OBVIOUS
<1>1. /\ DOMAIN a = 1 .. Len(a) /\ DOMAIN b = 1 .. Len(b) /\ DOMAIN (a \o b) = 1 .. Len(a) + Len(b)
      /\ Len(a) \in Nat /\ Len(b) \in Nat
      /\ \A i \in 1 .. Len(a) + Len(b) : (a \o b)[i] = IF i <= Len(a) THEN a[i] ELSE b[i - Len(a)]
  OBVIOUS
<1>2. ASSUME NEW x \in Range(a) PROVE x \in Range(a \o b)
  <2>1. PICK i \in 1 .. Len(a) : x = a[i]
    BY <1>1 DEF Range
  <2>2. i \in 1 .. Len(a) + Len(b) /\ (a \o b)[i] = x
    BY <1>1, <2>1
  <2> QED BY <1>1, <2>2 DEF Range
<1>3. ASSUME NEW x \in Range(b) PROVE x \in Range(a \o b)
  <2>1. PICK i \in 1 .. Len(b) : x = b[i]
    BY <1>1 DEF Range
  <2>2. Len(a) + i \in 1 .. Len(a) + Len(b) /\ (a \o b)[Len(a) + i] = x
    BY <1>1, <2>1
  <2> QED BY <1>1, <2>2 DEF Range
<1>4. ASSUME NEW x \in Range(a \o b) PROVE x \in Range(a) \cup Range(b)
  <2>1. PICK i \in 1 .. Len(a) + Len(b) : x = (a \o b)[i]
    BY <1>1 DEF Range
  <2>2. CASE i <= Len(a)
    BY <1>1, <2>1, <2>2 DEF Range
  <2>3. CASE i > Len(a)
    <3>1. i - Len(a) \in 1 .. Len(b) /\ x = b[i - Len(a)]
      BY <1>1, <2>1, <2>3
    <3> QED BY <1>1, <3>1 DEF Range
  <2> QED BY <1>1, <2>1, <2>2, <2>3
<1> QED BY <1>2, <1>3, <1>4

\* The keys of a tab.
LEMMA RouteKeysAre ==
  ASSUME NEW dest
  PROVE  /\ RouteKeys(dest) \in Seq(Range(RouteKeys(dest)))
         /\ Range(RouteKeys(dest)) =
              {<<dest, field>> : field \in TabFields \cup (IF dest = "ocr" THEN {"ocr_format"} ELSE {})}
<1> DEFINE first == <<"mode", "source", "dpi", "format", "tiff_compression", "separation", "paper">>
           ocr == IF dest = "ocr" THEN <<"ocr_format">> ELSE <<>>
           last == <<"high_speed", "skip_blank", "jpeg_quality">>
           all == TabFields \cup {"ocr_format"}
<1>1. first \in Seq(all) /\ Range(first) = {"mode", "source", "dpi", "format", "tiff_compression", "separation", "paper"}
  <2>1. {"mode", "source", "dpi", "format", "tiff_compression", "separation", "paper"} \subseteq all
    BY DEF TabFields
  <2> HIDE DEF all
  <2> QED BY <2>1, Seven, RangeOf
<1>2. last \in Seq(all) /\ Range(last) = {"high_speed", "skip_blank", "jpeg_quality"}
  <2>1. {"high_speed", "skip_blank", "jpeg_quality"} \subseteq all
    BY DEF TabFields
  <2> HIDE DEF all
  <2> QED BY <2>1, Three, RangeOf
<1>3. ocr \in Seq(all) /\ Range(ocr) = IF dest = "ocr" THEN {"ocr_format"} ELSE {}
  <2>1. "ocr_format" \in all
    OBVIOUS
  <2> HIDE DEF all
  <2> QED BY <2>1, OneOrNone, RangeOf
<1> HIDE DEF first, ocr, last, all
<1>4. first \o ocr \in Seq(all) /\ first \o ocr \o last \in Seq(all)
  BY <1>1, <1>2, <1>3, Joined
<1>5. RouteFields(dest) = first \o ocr \o last
  BY DEF RouteFields, first, ocr, last
<1>6. Range(RouteFields(dest)) = TabFields \cup (IF dest = "ocr" THEN {"ocr_format"} ELSE {})
  <2>1. Range(RouteFields(dest)) = Range(first) \cup Range(ocr) \cup Range(last)
    <3>0. \A a, b \in Seq(all) : Range(a \o b) = Range(a) \cup Range(b)
      BY RangeJoined, Zenon
    <3>1. Range(first \o ocr) = Range(first) \cup Range(ocr)
      <4>1. first \in Seq(all) /\ ocr \in Seq(all)
        BY <1>1, <1>3
      <4> QED BY <3>0, <4>1, Zenon
    <3>2. Range((first \o ocr) \o last) = Range(first \o ocr) \cup Range(last)
      <4>1. first \o ocr \in Seq(all) /\ last \in Seq(all)
        BY <1>2, <1>4
      <4> QED BY <3>0, <4>1, Zenon
    <3> QED BY <1>5, <3>1, <3>2
  <2> QED BY <1>1, <1>2, <1>3, <2>1 DEF TabFields
<1>7. PICK fields \in Seq(all) : fields = RouteFields(dest)
  BY <1>4, <1>5
<1>8. RouteKeys(dest) = [i \in DOMAIN fields |-> <<dest, fields[i]>>]
  BY <1>7 DEF RouteKeys
<1>9. RouteKeys(dest) \in Seq(Range(RouteKeys(dest)))
  BY <1>8 DEF Range
<1>10. Range(RouteKeys(dest)) = {<<dest, field>> : field \in Range(fields)}
  BY <1>8 DEF Range
<1> QED BY <1>6, <1>7, <1>9, <1>10

\* The general keys belong to no tab.
LEMMA GeneralAre == \A key \in General : \E field \in GeneralFields : key = <<"", field>> /\ key[2] = field
<1> SUFFICES ASSUME NEW key \in General PROVE \E field \in GeneralFields : key = <<"", field>> /\ key[2] = field
  OBVIOUS
<1>1. PICK field \in GeneralFields : key = <<"", field>>
  BY DEF General, NameKey, GeneralFields
<1> QED BY <1>1

\* The keys of the app are those of the tabs and the general ones.
LEMMA OwnedAre ==
  /\ OwnedKeys \in Seq(Owned)
  /\ Owned = General \cup TabKeys \cup {OcrKey}
  /\ NameKey \in Owned /\ \A key \in Owned : key = <<key[1], key[2]>>
<1> DEFINE r(dest) == RouteKeys(dest)
           All == Range(GeneralKeys) \cup Range(r("file")) \cup Range(r("image")) \cup Range(r("ocr"))
                    \cup Range(r("email"))
<1>1. Range(GeneralKeys) = General
  <2> DEFINE host == <<"", "printer_host">>
             dir == <<"", "save_dir">>
             app == <<"", "image_app">>
             to == <<"", "email_to">>
  <2>1. GeneralKeys = <<host, NameKey, dir, app, to>> /\ General = {host, NameKey, dir, app, to}
    BY DEF GeneralKeys, General, NameKey
  <2> HIDE DEF host, dir, app, to
  <2> QED BY <2>1, RangeOf
<1>2. GeneralKeys \in Seq(All)
  <2>1. \A a, b, c, d, e : <<a, b, c, d, e>> \in Seq({a, b, c, d, e})
    OBVIOUS
  <2>2. GeneralKeys \in Seq(General)
    BY <2>1, Zenon DEF GeneralKeys, General, NameKey
  <2> HIDE DEF r
  <2> QED BY <1>1, <2>2
<1>3. r("file") \in Seq(All) /\ r("image") \in Seq(All) /\ r("ocr") \in Seq(All) /\ r("email") \in Seq(All)
  <2>1. \A dest : r(dest) \in Seq(Range(r(dest)))
    BY RouteKeysAre
  <2> HIDE DEF r
  <2> QED BY <2>1
<1> HIDE DEF All, r
<1>4. Owned = All /\ OwnedKeys \in Seq(All)
  <2>1. OwnedKeys = GeneralKeys \o r("file") \o r("image") \o r("ocr") \o r("email")
    BY DEF OwnedKeys, r
  <2>0. \A a, b \in Seq(All) : Range(a \o b) = Range(a) \cup Range(b)
    BY RangeJoined, Zenon
  <2>2. /\ GeneralKeys \o r("file") \in Seq(All)
        /\ GeneralKeys \o r("file") \o r("image") \in Seq(All)
        /\ GeneralKeys \o r("file") \o r("image") \o r("ocr") \in Seq(All)
    BY <1>2, <1>3, Joined
  <2>7. GeneralKeys \o r("file") \o r("image") \o r("ocr") \in Seq(All)
    BY <1>3, <2>2, Joined
  <2>8. PICK most \in Seq(All) : most = GeneralKeys \o r("file") \o r("image") \o r("ocr")
    BY <2>7
  <2>9. most \o r("email") \in Seq(All)
    BY <1>3, Joined
  <2>3. Range(GeneralKeys \o r("file")) = Range(GeneralKeys) \cup Range(r("file"))
    BY <1>2, <1>3, <2>0, Zenon
  <2>4. Range(GeneralKeys \o r("file") \o r("image"))
          = Range(GeneralKeys \o r("file")) \cup Range(r("image"))
    BY <1>3, <2>0, <2>2, Zenon
  <2>5. Range(GeneralKeys \o r("file") \o r("image") \o r("ocr"))
          = Range(GeneralKeys \o r("file") \o r("image")) \cup Range(r("ocr"))
    BY <1>3, <2>0, <2>2, Zenon
  <2>6. Range(GeneralKeys \o r("file") \o r("image") \o r("ocr") \o r("email"))
          = Range(GeneralKeys \o r("file") \o r("image") \o r("ocr")) \cup Range(r("email"))
    <3>1. Range(most \o r("email")) = Range(most) \cup Range(r("email"))
      BY <1>3, <2>0, Zenon
    <3> QED BY <2>8, <3>1
  <2> QED BY <2>1, <2>3, <2>4, <2>5, <2>6, <2>8, <2>9 DEF Owned, All
<1>5. /\ Range(r("file")) = {<<"file", field>> : field \in TabFields}
      /\ Range(r("image")) = {<<"image", field>> : field \in TabFields}
      /\ Range(r("email")) = {<<"email", field>> : field \in TabFields}
      /\ Range(r("ocr")) = {<<"ocr", field>> : field \in TabFields} \cup {OcrKey}
  <2>1. \A dest : Range(r(dest)) =
          {<<dest, field>> : field \in TabFields \cup (IF dest = "ocr" THEN {"ocr_format"} ELSE {})}
    BY RouteKeysAre DEF r
  <2> HIDE DEF r
  <2>2. Range(r("ocr")) = {<<"ocr", field>> : field \in TabFields \cup {"ocr_format"}}
    BY <2>1
  <2>3. {<<"ocr", field>> : field \in TabFields \cup {"ocr_format"}}
          = {<<"ocr", field>> : field \in TabFields} \cup {OcrKey}
    BY DEF OcrKey
  <2>4. \A dest : dest # "ocr" => Range(r(dest)) = {<<dest, field>> : field \in TabFields}
    BY <2>1
  <2> QED BY <2>2, <2>3, <2>4
<1>6. TabKeys
        = {<<"file", field>> : field \in TabFields} \cup {<<"image", field>> : field \in TabFields}
            \cup {<<"ocr", field>> : field \in TabFields} \cup {<<"email", field>> : field \in TabFields}
  BY DEF Dests, TabKeys
<1>7. Owned = General \cup TabKeys \cup {OcrKey}
  BY <1>1, <1>4, <1>5, <1>6 DEF All
<1>8. NameKey \in Owned
  <2>1. NameKey \in General
    BY DEF General
  <2> QED BY <1>7, <2>1
<1>9. ASSUME NEW key \in Owned PROVE key = <<key[1], key[2]>>
  <2>1. CASE key \in General
    <3>1. PICK field \in GeneralFields : key = <<"", field>>
      BY <2>1, GeneralAre
    <3> QED BY <3>1
  <2>2. CASE key \in TabKeys
    BY <2>2 DEF TabKeys
  <2>3. CASE key = OcrKey
    BY <2>3 DEF OcrKey
  <2> QED BY <1>7, <2>1, <2>2, <2>3
<1> QED BY <1>4, <1>7, <1>8, <1>9

\* The three kinds of keys.
LEMMA KindsOfKeys ==
  ASSUME NEW key \in Owned
  PROVE  \/ \E field \in GeneralFields : key = <<"", field>> /\ key[1] = "" /\ key[2] = field
         \/ \E dest \in Dests, field \in TabFields :
              key = <<dest, field>> /\ key[1] = dest /\ key[2] = field /\ key[1] # "" /\ key # OcrKey
         \/ key = OcrKey
<1>1. CASE key \in General
  <2>1. PICK field \in GeneralFields : key = <<"", field>>
    BY <1>1, GeneralAre
  <2> QED BY <2>1
<1>2. CASE key \in TabKeys
  <2>1. PICK dest \in Dests, field \in TabFields : key = <<dest, field>>
    BY <1>2 DEF TabKeys
  <2>2. key[1] = dest /\ key[2] = field
    BY <2>1
  <2>3. dest # ""
    BY DEF Dests
  <2>4. OcrKey[2] \notin TabFields
    BY DEF TabFields, OcrKey
  <2> QED BY <2>1, <2>2, <2>3, <2>4
<1>3. key \in General \/ key \in TabKeys \/ key = OcrKey
  BY OwnedAre
<1> QED BY <1>1, <1>2, <1>3

-----------------------------------------------------------------------------
(* What a save does with the lines that are not the app's.                  *)

Paired(line) == line.key = <<line.key[1], line.key[2]>>
IsLines(doc) == doc \in Seq(Range(doc)) /\ \A line \in Range(doc) : Paired(line)
DropOwned(kept, line) == IF line.key \in Owned THEN kept ELSE Append(kept, line)

ForeignFold == INSTANCE FoldFacts WITH op <- DropOwned, Good <- IsLines

\* What is left of a document without the app's lines is a fold of its lines.
LEMMA ForeignFolds == \A doc : Foreign(doc) = ForeignFold!Folded(<<>>, doc)
BY DEF Foreign, Without, Owned, ForeignFold!Folded, FoldLeft, MapThenFoldSet, DropOwned,
       ForeignFold!FoldLeft, ForeignFold!MapThenFoldSet, Max, ForeignFold!Max

\* The fold has steps.
LEMMA ForeignSteps ==
  ASSUME NEW doc, IsLines(doc)
  PROVE  \E g : /\ g[0] = <<>> /\ g[Len(doc)] = Foreign(doc)
                /\ \A k \in 1 .. Len(doc) : g[k] = DropOwned(g[k - 1], doc[k])
<1>1. doc \in Seq(Range(doc))
  BY DEF IsLines
<1> QED BY <1>1, ForeignFolds, ForeignFold!FoldSteps

\* Steps of the fold from the empty document end at what is left.
LEMMA ForeignIs ==
  ASSUME NEW doc, IsLines(doc), NEW g, g[0] = <<>>,
         \A k \in 1 .. Len(doc) : g[k] = DropOwned(g[k - 1], doc[k])
  PROVE  Foreign(doc) = g[Len(doc)]
<1>1. doc \in Seq(Range(doc))
  BY DEF IsLines
<1>2. ForeignFold!Folded(<<>>, doc) = g[Len(doc)]
  BY <1>1, ForeignFold!FoldIs
<1> QED BY <1>2, ForeignFolds

\* A sequence of lines that have keys is a document.
LEMMA LinesOf == \A S : (\A line \in S : Paired(line)) => \A doc \in Seq(S) : IsLines(doc)
<1> SUFFICES ASSUME NEW S, \A line \in S : Paired(line), NEW doc \in Seq(S) PROVE IsLines(doc)
  OBVIOUS
<1>1. doc \in Seq(Range(doc)) /\ \A line \in Range(doc) : line \in S
  BY DEF Range
<1> QED BY <1>1 DEF IsLines

\* An empty document has no lines to keep.
LEMMA NoLines == IsLines(<<>>) /\ Foreign(<<>>) = <<>>
<1>1. IsLines(<<>>)
  <2>1. <<>> \in Seq({})
    OBVIOUS
  <2> QED BY <2>1, LinesOf
<1> DEFINE g == [k \in {0} |-> <<>>]
<1>2. Foreign(<<>>) = g[Len(<<>>)]
  <2>1. g[0] = <<>> /\ \A k \in 1 .. Len(<<>>) : g[k] = DropOwned(g[k - 1], <<>>[k])
    OBVIOUS
  <2> HIDE DEF g
  <2> QED BY <1>1, <2>1, ForeignIs
<1> QED BY <1>1, <1>2

\* A line at the end.
LEMMA ForeignAppend ==
  ASSUME NEW doc, IsLines(doc), NEW line, Paired(line)
  PROVE  IsLines(Append(doc, line)) /\ Foreign(Append(doc, line)) = DropOwned(Foreign(doc), line)
<1>1. Append(doc, line) \in Seq(Range(doc) \cup {line})
  BY DEF IsLines
<1>2. IsLines(Append(doc, line))
  BY <1>1, LinesOf DEF IsLines
<1>3. PICK g : /\ g[0] = <<>> /\ g[Len(doc)] = Foreign(doc)
               /\ \A k \in 1 .. Len(doc) : g[k] = DropOwned(g[k - 1], doc[k])
  BY ForeignSteps
<1> DEFINE h == [k \in 0 .. Len(doc) + 1 |-> IF k = Len(doc) + 1 THEN DropOwned(g[Len(doc)], line) ELSE g[k]]
<1>4. /\ Len(doc) \in Nat /\ Len(Append(doc, line)) = Len(doc) + 1
      /\ Append(doc, line)[Len(doc) + 1] = line
      /\ \A k \in 1 .. Len(doc) : Append(doc, line)[k] = doc[k]
  BY DEF IsLines
<1>5. h[0] = <<>>
  BY <1>3, <1>4
<1>6. ASSUME NEW k \in 1 .. Len(doc) + 1 PROVE h[k] = DropOwned(h[k - 1], Append(doc, line)[k])
  <2>1. CASE k = Len(doc) + 1
    <3>1. h[k] = DropOwned(g[Len(doc)], line) /\ h[k - 1] = g[Len(doc)]
      BY <1>4, <2>1
    <3> QED BY <1>4, <2>1, <3>1
  <2>2. CASE k # Len(doc) + 1
    <3>1. k \in 1 .. Len(doc) /\ h[k] = g[k] /\ h[k - 1] = g[k - 1]
      BY <1>4, <2>2
    <3> QED BY <1>3, <1>4, <3>1
  <2> QED BY <2>1, <2>2
<1>7. h[Len(doc) + 1] = DropOwned(Foreign(doc), line)
  BY <1>3, <1>4
<1> HIDE DEF h
<1>8. Foreign(Append(doc, line)) = h[Len(doc) + 1]
  BY <1>2, <1>4, <1>5, <1>6, ForeignIs
<1> QED BY <1>2, <1>7, <1>8

\* A line of the app in the place of one of the app's.
LEMMA ForeignReplace ==
  ASSUME NEW doc, IsLines(doc), NEW i \in 1 .. Len(doc), NEW line,
         doc[i].key \in Owned, line.key \in Owned, Paired(line)
  PROVE  IsLines([doc EXCEPT ![i] = line]) /\ Foreign([doc EXCEPT ![i] = line]) = Foreign(doc)
<1> DEFINE new == [doc EXCEPT ![i] = line]
<1>1. /\ new \in Seq(Range(doc) \cup {line}) /\ Len(new) = Len(doc) /\ Len(doc) \in Nat
      /\ new[i] = line /\ \A k \in 1 .. Len(doc) : k # i => new[k] = doc[k]
  BY DEF IsLines
<1> HIDE DEF new
<1>2. IsLines(new)
  BY <1>1, LinesOf DEF IsLines
<1>3. PICK g : /\ g[0] = <<>> /\ g[Len(doc)] = Foreign(doc)
               /\ \A k \in 1 .. Len(doc) : g[k] = DropOwned(g[k - 1], doc[k])
  BY ForeignSteps
<1>4. ASSUME NEW k \in 1 .. Len(new) PROVE g[k] = DropOwned(g[k - 1], new[k])
  BY <1>1, <1>3 DEF DropOwned
<1>5. Foreign(new) = g[Len(new)]
  BY <1>2, <1>3, <1>4, ForeignIs
<1> QED BY <1>1, <1>2, <1>3, <1>5 DEF new

\* The last of the lines of a key is one of them.
LEMMA LastIsOne ==
  ASSUME NEW n \in Nat, NEW S \in SUBSET (1 .. n), S # {}
  PROVE  LastOf(S) \in S /\ \A j \in S : j <= LastOf(S)
<1> DEFINE N == {k \in Nat : \A T \in SUBSET (1 .. k) : T # {} => \E i \in T : \A j \in T : j <= i}
<1>1. 0 \in N
  <2>1. 1 .. 0 = {}
    OBVIOUS
  <2> QED BY <2>1
<1>2. ASSUME NEW k \in N PROVE k + 1 \in N
  <2>1. k \in Nat /\ k + 1 \in Nat /\ \A T \in SUBSET (1 .. k) : T # {} => \E i \in T : \A j \in T : j <= i
    OBVIOUS
  <2>2. ASSUME NEW T \in SUBSET (1 .. k + 1), T # {} PROVE \E i \in T : \A j \in T : j <= i
    <3>1. CASE k + 1 \in T
      <4>1. \A j \in T : j <= k + 1
        OBVIOUS
      <4> QED BY <3>1, <4>1
    <3>2. CASE k + 1 \notin T
      <4>1. \A j \in 1 .. k + 1 : j \in 1 .. k \/ j = k + 1
        BY <2>1
      <4>2. T \in SUBSET (1 .. k)
        BY <3>2, <4>1, Zenon
      <4> QED BY <2>1, <2>2, <4>2
    <3> QED BY <3>1, <3>2
  <2> QED BY <2>1, <2>2
<1>3. N = Nat
  <2> HIDE DEF N
  <2>1. N \in SUBSET Nat
    BY DEF N
  <2> QED BY <1>1, <1>2, <2>1, ForeignFold!Induction
<1>4. \E i \in S : \A j \in S : j <= i
  BY <1>3
<1> QED BY <1>4 DEF LastOf

\* A value of the app is set.
LEMMA SetKeepsForeign ==
  ASSUME NEW doc, IsLines(doc), NEW key \in Owned, NEW value
  PROVE  IsLines(SetValue(doc, key, value)) /\ Foreign(SetValue(doc, key, value)) = Foreign(doc)
<1>1. Line(key, value).key \in Owned /\ Paired(Line(key, value))
  BY OwnedAre DEF Line, Paired
<1>2. CASE Active(doc, key) = {}
  BY <1>1, <1>2, ForeignAppend DEF SetValue, DropOwned
<1>3. CASE Active(doc, key) # {}
  <2>1. Active(doc, key) \in SUBSET (1 .. Len(doc)) /\ Len(doc) \in Nat
    BY DEF Active, IsLines
  <2>2. LastOf(Active(doc, key)) \in Active(doc, key)
    BY <1>3, <2>1, LastIsOne
  <2>3. LastOf(Active(doc, key)) \in 1 .. Len(doc) /\ doc[LastOf(Active(doc, key))].key \in Owned
    BY <2>1, <2>2 DEF Active
  <2> QED BY <1>1, <1>3, <2>3, ForeignReplace DEF SetValue
<1> QED BY <1>2, <1>3

DropName(kept, line) == IF line.key \in {NameKey} THEN kept ELSE Append(kept, line)

NameFold == INSTANCE FoldFacts WITH op <- DropName, Good <- IsLines

\* A value is taken out by a fold of the lines.
LEMMA RemoveFolds == \A doc : RemoveValue(doc, NameKey) = NameFold!Folded(<<>>, doc)
BY DEF RemoveValue, Without, NameFold!Folded, FoldLeft, MapThenFoldSet, DropName,
       NameFold!FoldLeft, NameFold!MapThenFoldSet, Max, NameFold!Max

\* That fold has steps.
LEMMA RemoveSteps ==
  ASSUME NEW doc, IsLines(doc)
  PROVE  \E h : /\ h[0] = <<>> /\ h[Len(doc)] = RemoveValue(doc, NameKey)
                /\ \A k \in 1 .. Len(doc) : h[k] = DropName(h[k - 1], doc[k])
<1>1. doc \in Seq(Range(doc))
  BY DEF IsLines
<1>2. PICK h : /\ h[0] = <<>> /\ h[Len(doc)] = NameFold!Folded(<<>>, doc)
               /\ \A k \in 1 .. Len(doc) : h[k] = DropName(h[k - 1], doc[k])
  BY <1>1, NameFold!FoldSteps
<1>3. NameFold!Folded(<<>>, doc) = RemoveValue(doc, NameKey)
  BY RemoveFolds, Zenon
<1> QED BY <1>2, <1>3, Zenon

\* The value is taken out.
LEMMA RemoveKeepsForeign ==
  ASSUME NEW doc, IsLines(doc)
  PROVE  IsLines(RemoveValue(doc, NameKey)) /\ Foreign(RemoveValue(doc, NameKey)) = Foreign(doc)
<1>1. doc \in Seq(Range(doc)) /\ Len(doc) \in Nat
  BY DEF IsLines
<1>2. PICK g : /\ g[0] = <<>> /\ g[Len(doc)] = Foreign(doc)
               /\ \A k \in 1 .. Len(doc) : g[k] = DropOwned(g[k - 1], doc[k])
  BY ForeignSteps
<1>3. PICK h : /\ h[0] = <<>> /\ h[Len(doc)] = RemoveValue(doc, NameKey)
               /\ \A k \in 1 .. Len(doc) : h[k] = DropName(h[k - 1], doc[k])
  BY RemoveSteps, Zenon
<1> DEFINE N == {n \in Nat : n <= Len(doc) => IsLines(h[n]) /\ Foreign(h[n]) = g[n]}
<1>4. 0 \in N
  BY <1>2, <1>3, NoLines
<1>5. ASSUME NEW n \in N PROVE n + 1 \in N
  <2>1. n \in Nat /\ n + 1 \in Nat /\ (n + 1) - 1 = n
    OBVIOUS
  <2>2. ASSUME n + 1 <= Len(doc) PROVE IsLines(h[n + 1]) /\ Foreign(h[n + 1]) = g[n + 1]
    <3>1. n + 1 \in 1 .. Len(doc) /\ IsLines(h[n]) /\ Foreign(h[n]) = g[n]
      BY <1>1, <2>1, <2>2
    <3>2. h[n + 1] = DropName(h[n], doc[n + 1]) /\ g[n + 1] = DropOwned(g[n], doc[n + 1])
      BY <1>2, <1>3, <2>1, <3>1, Zenon
    <3>3. CASE doc[n + 1].key = NameKey
      BY <3>1, <3>2, <3>3, OwnedAre DEF DropName, DropOwned, General
    <3>4. CASE doc[n + 1].key # NameKey
      <4>1. Paired(doc[n + 1])
        BY <1>1, <3>1 DEF IsLines, Range
      <4> QED BY <3>1, <3>2, <3>4, <4>1, ForeignAppend DEF DropName
    <3> QED BY <3>3, <3>4
  <2> QED BY <2>1, <2>2
<1>6. N = Nat
  <2> HIDE DEF N
  <2>1. N \in SUBSET Nat
    BY DEF N
  <2> QED BY <1>4, <1>5, <2>1, ForeignFold!Induction
<1>7. Len(doc) \in N
  BY <1>1, <1>6
<1> QED BY <1>1, <1>3, <1>7, <1>2

\* A value of the app is set or taken out.
LEMMA ValueKeepsForeign ==
  ASSUME NEW v, NEW doc, IsLines(doc), NEW key \in Owned
  PROVE  IsLines(ApplyValue(v, doc, key)) /\ Foreign(ApplyValue(v, doc, key)) = Foreign(doc)
<1>1. CASE key = NameKey /\ v[key] = <<>>
  BY <1>1, RemoveKeepsForeign DEF ApplyValue, NameKey
<1>2. CASE ~(key = NameKey /\ v[key] = <<>>)
  BY <1>2, SetKeepsForeign DEF ApplyValue, NameKey
<1> QED BY <1>1, <1>2

ApplyShown(doc, key) == ApplyValue(view, doc, key)
OthersOfDocument(doc) == IsLines(doc) /\ Foreign(doc) = Foreign(document)
ShownFold == INSTANCE FoldFacts WITH op <- ApplyShown, Good <- OthersOfDocument

\* A save writes the values shown, and leaves the other lines of the document.
LEMMA SaveKeepsForeign ==
  ASSUME IsLines(document)
  PROVE  IsLines(Apply(view, document)) /\ Foreign(Apply(view, document)) = Foreign(document)
<1>1. Apply(view, document) = ShownFold!Folded(document, OwnedKeys)
  BY DEF Apply, ApplyShown, ShownFold!Folded, FoldLeft, MapThenFoldSet,
         ShownFold!FoldLeft, ShownFold!MapThenFoldSet, Max, ShownFold!Max
<1>2. OthersOfDocument(document)
  BY DEF OthersOfDocument
<1>3. \A key \in Owned : \A doc : OthersOfDocument(doc) => OthersOfDocument(ApplyShown(doc, key))
  BY ValueKeepsForeign DEF OthersOfDocument, ApplyShown
<1>4. OthersOfDocument(ShownFold!Folded(document, OwnedKeys))
  BY <1>2, <1>3, OwnedAre, ShownFold!FoldKeeps
<1> QED BY <1>1, <1>4 DEF OthersOfDocument

ApplyDefault(doc, key) == ApplyValue(DefaultView, doc, key)
DefaultFold == INSTANCE FoldFacts WITH op <- ApplyDefault, Good <- IsLines

\* A starter is a file.
LEMMA StarterIsLines == IsLines(Apply(DefaultView, StarterHeader))
<1>1. Apply(DefaultView, StarterHeader) = DefaultFold!Folded(StarterHeader, OwnedKeys)
  BY DEF Apply, ApplyDefault, DefaultFold!Folded, FoldLeft, MapThenFoldSet,
         DefaultFold!FoldLeft, DefaultFold!MapThenFoldSet, Max, DefaultFold!Max
<1>2. IsLines(StarterHeader)
  <2>1. StarterHeader \in Seq({StarterHeader[1], StarterHeader[2]})
    BY DEF StarterHeader
  <2>2. Paired(StarterHeader[1]) /\ Paired(StarterHeader[2])
    BY DEF StarterHeader, Line, NoKey, Paired
  <2> QED BY <2>1, <2>2, LinesOf
<1>3. \A key \in Owned : \A doc : IsLines(doc) => IsLines(ApplyDefault(doc, key))
  BY ValueKeepsForeign DEF ApplyDefault
<1>4. IsLines(DefaultFold!Folded(StarterHeader, OwnedKeys))
  BY <1>2, <1>3, OwnedAre, DefaultFold!FoldKeeps
<1> QED BY <1>1, <1>4

-----------------------------------------------------------------------------
(* What the app knows of the file.                                          *)

\* A file nobody changed since the app read it is the document the app holds, and only such a
\* file is saved over; a starter is only written where there was none.
Read ==
  /\ IsLines(document) /\ IsLines(file.lines)
  /\ loadState = "loaded" /\ ~edited => file.lines = document
  /\ pc \in {"write", "rename"} =>
       /\ IsLines(job.lines)
       /\ IF job.starter THEN loadState = "missing" ELSE Foreign(job.lines) = Foreign(document)
       /\ ~edited /\ file # NoFile => loadState = "loaded"

\* What an editor makes of the file is lines.
LEMMA VersionIsLines == \A version \in Versions : IsLines(version.lines)
<1>1. \A line \in [key : STRING \X STRING, value : Seq(STRING)] : Paired(line)
  BY DEF Paired
<1> QED BY <1>1, StoreAssumption, LinesOf

\* Initially.
LEMMA InitRead == Init => Read
<1> SUFFICES ASSUME Init PROVE Read
  OBVIOUS
<1>1. IsLines(<<>>)
  BY NoLines
<1>2. IsLines(file.lines)
  <2>1. CASE file = NoFile
    BY <1>1, <2>1 DEF NoFile
  <2>2. CASE file # NoFile
    <3>1. PICK v \in Versions : file = [lines |-> v.lines, readable |-> v.readable, whole |-> TRUE]
      BY <2>2 DEF Init
    <3> QED BY <3>1, VersionIsLines
  <2> QED BY <2>1, <2>2
<1> QED BY <1>1, <1>2 DEF Init, Read

\* Every step keeps what the app knows of the file.
LEMMA NextRead == TempIsWhole /\ Read /\ [Next]_vars => Read'
<1> SUFFICES ASSUME TempIsWhole, Read, [Next]_vars PROVE Read'
  OBVIOUS
<1>1. CASE UNCHANGED vars
  <2>1. UNCHANGED <<file, document, loadState, edited, pc, job>>
    BY <1>1 DEF vars
  <2>2. Foreign(job'.lines) = Foreign(job.lines) /\ Foreign(document') = Foreign(document)
    BY <2>1
  <2> QED BY <2>1, <2>2 DEF Read
<1>2. CASE Launch \/ Crash
  <2>1. UNCHANGED file /\ document' = <<>> /\ loadState' = "notLoaded" /\ pc' \in {"load", "closed"}
    BY <1>2 DEF Launch, Crash, Fresh
  <2> QED BY <2>1, NoLines DEF Read
<1>3. CASE Reload \/ LoadMissing \/ LoadFails \/ SaveRefused
  <2>1. /\ UNCHANGED <<file, document, job>> /\ pc' \in {"load", "idle"}
        /\ UNCHANGED <<loadState, edited>> \/ loadState' # "loaded"
    BY <1>3 DEF Reload, LoadMissing, LoadFails, SaveRefused, appVars, historyVars
  <2> QED BY <2>1 DEF Read, IsLines
<1>4. CASE Load
  <2>1. UNCHANGED file /\ document' = file.lines /\ pc' = "idle"
    BY <1>4 DEF Load
  <2> QED BY <2>1 DEF Read
<1>5. ASSUME NEW change \in Edits, Edit(change) PROVE Read'
  <2>1. UNCHANGED <<file, document, loadState, edited>> /\ pc = "idle" /\ UNCHANGED pc
    BY <1>5 DEF Edit, historyVars
  <2> QED BY <2>1 DEF Read
<1>6. CASE CreateStarter
  <2>1. /\ UNCHANGED <<file, document, loadState, edited>> /\ loadState = "missing" /\ file = NoFile
        /\ job' = [lines |-> Apply(DefaultView, StarterHeader), config |-> DefaultView, starter |-> TRUE]
    BY <1>6 DEF CreateStarter, appVars, historyVars
  <2>2. job'.lines = Apply(DefaultView, StarterHeader) /\ job'.starter = TRUE /\ file' = NoFile
    BY <2>1
  <2> QED BY <2>1, <2>2, StarterIsLines DEF Read
<1>7. CASE Save
  <2>1. /\ UNCHANGED <<file, document, loadState, edited>> /\ (loadState = "loaded" \/ file = NoFile)
        /\ job' = [lines |-> Apply(view, document), config |-> view, starter |-> FALSE]
    BY <1>7 DEF Save, appVars, historyVars
  <2>2. job'.lines = Apply(view, document) /\ job'.starter = FALSE
    BY <2>1
  <2>3. IsLines(job'.lines) /\ Foreign(job'.lines) = Foreign(document)
    BY <2>2, SaveKeepsForeign DEF Read
  <2>4. Foreign(document') = Foreign(document)
    BY <2>1
  <2> QED BY <2>1, <2>2, <2>3, <2>4 DEF Read
<1>8. CASE WriteTemp \/ RenameFails
  <2>1. /\ UNCHANGED <<file, document, loadState, edited>> /\ pc \in {"write", "rename"}
        /\ pc' = "idle" \/ (UNCHANGED job /\ pc' = "rename")
    BY <1>8 DEF WriteTemp, RenameFails, appVars, historyVars
  <2> QED BY <2>1 DEF Read
<1>9. CASE Rename
  <2>1. /\ pc = "rename" /\ pc' \in {"load", "idle"} /\ file'.lines = job.lines
        /\ IF job.starter THEN UNCHANGED <<document, loadState>> ELSE document' = job.lines /\ UNCHANGED loadState
    BY <1>9 DEF Rename, TempIsWhole, Whole, appVars
  <2> QED BY <2>1 DEF Read
<1>10. ASSUME NEW version \in Versions, EditorWrites(version) PROVE Read'
  <2>1. /\ file' = [lines |-> version.lines, readable |-> version.readable, whole |-> TRUE]
        /\ edited' /\ UNCHANGED <<document, loadState, job, pc>>
    BY <1>10 DEF EditorWrites, appVars
  <2>2. IsLines(file'.lines)
    BY <2>1, VersionIsLines
  <2>3. Foreign(job'.lines) = Foreign(job.lines) /\ Foreign(document') = Foreign(document)
    BY <2>1
  <2> QED BY <2>1, <2>2, <2>3 DEF Read
<1> QED BY <1>1, <1>2, <1>3, <1>4, <1>5, <1>6, <1>7, <1>8, <1>9, <1>10 DEF Next

\* A step that ends a save keeps the lines that are not the app's.
LEMMA SaveStep ==
  TempIsWhole /\ Read /\ [Next]_vars
    => [pc = "rename" /\ pc' \in {"idle", "load"} /\ file # NoFile /\ ~edited
          => Foreign(file'.lines) = Foreign(file.lines)]_vars
<1> SUFFICES ASSUME TempIsWhole, Read, Next, pc = "rename", pc' \in {"idle", "load"}, file # NoFile, ~edited
             PROVE  Foreign(file'.lines) = Foreign(file.lines)
  OBVIOUS
<1>1. CASE Rename
  <2>1. file'.lines = job.lines
    BY <1>1 DEF Rename, TempIsWhole, Whole
  <2>2. Foreign(job.lines) = Foreign(document) /\ document = file.lines
    BY DEF Read
  <2> QED BY <2>1, <2>2
<1>2. CASE ~Rename
  <2>1. UNCHANGED file
    BY <1>2 DEF Next, Launch, Reload, LoadMissing, LoadFails, Load, Edit, CreateStarter, SaveRefused,
       Save, WriteTemp, RenameFails, Crash, EditorWrites
  <2> QED BY <2>1
<1> QED BY <1>1, <1>2

\* Whatever stands in the file besides the app's keys, comments, blank lines and unknown keys
\* among them, a save keeps it in its place and order, unless somebody else changed the file
\* since the app read it (ConfigStore.save, ConfigDocument).
THEOREM SavesKeepTheRest == Spec => SaveKeepsTheRest
<1>1. FileIsWhole /\ TempIsWhole /\ [Next]_vars => (FileIsWhole /\ TempIsWhole)'
  BY NextFile
<1> QED BY InitFile, InitRead, <1>1, NextRead, SaveStep, PTL DEF Spec, SaveKeepsTheRest


-----------------------------------------------------------------------------
(* What a file says of a key: the value of its last line.                   *)

Found(lines, key) ==
  IF Active(lines, key) = {} THEN <<>> ELSE <<lines[LastOf(Active(lines, key))].value>>

\* What a save writes of a key, and a file that has it for every key.
Wanted(v, key) == IF key = NameKey /\ v[key] = <<>> THEN <<>> ELSE <<v[key]>>
Carries(v, lines) == \A key \in Owned : Found(lines, key) = Wanted(v, key)

\* The last line of a key is the one no other comes after.
LEMMA LastIs ==
  ASSUME NEW n \in Nat, NEW S \in SUBSET (1 .. n), NEW i \in S, \A j \in S : j <= i
  PROVE  LastOf(S) = i
<1>1. LastOf(S) \in S /\ \A j \in S : j <= LastOf(S)
  BY LastIsOne
<1>2. LastOf(S) <= i /\ i <= LastOf(S)
  BY <1>1
<1>3. \A k \in S : k \in Nat
  OBVIOUS
<1>4. i \in Nat /\ LastOf(S) \in Nat
  BY <1>1, <1>3
<1> QED BY <1>2, <1>4

\* The lines of a key are lines of the document.
LEMMA ActiveIn ==
  ASSUME NEW doc, IsLines(doc), NEW key
  PROVE  /\ Len(doc) \in Nat /\ Active(doc, key) \in SUBSET (1 .. Len(doc))
         /\ Active(doc, key) # {} => LastOf(Active(doc, key)) \in Active(doc, key)
<1>1. Len(doc) \in Nat /\ Active(doc, key) \in SUBSET (1 .. Len(doc))
  BY DEF Active, IsLines
<1> QED BY <1>1, LastIsOne

\* A line at the end.
LEMMA FoundAppend ==
  ASSUME NEW doc, IsLines(doc), NEW line, NEW key
  PROVE  Found(Append(doc, line), key) = IF line.key = key THEN <<line.value>> ELSE Found(doc, key)
<1> DEFINE new == Append(doc, line)
           end == Len(doc) + 1
<1>1. /\ Len(doc) \in Nat /\ DOMAIN doc = 1 .. Len(doc) /\ DOMAIN new = 1 .. end /\ new[end] = line
      /\ \A k \in 1 .. Len(doc) : new[k] = doc[k]
  BY DEF IsLines
<1> HIDE DEF new
<1>2. end \in Nat /\ end \in 1 .. end /\ end \notin 1 .. Len(doc) /\ (\A k \in 1 .. end : k <= end)
      /\ 1 .. end = 1 .. Len(doc) \cup {end}
  BY <1>1
<1> HIDE DEF end
<1>3. CASE line.key = key
  <2>1. end \in Active(new, key) /\ Active(new, key) \in SUBSET (1 .. end)
    BY <1>1, <1>2, <1>3 DEF Active
  <2>2. LastOf(Active(new, key)) = end
    BY <1>2, <2>1, LastIs
  <2> QED BY <1>1, <1>3, <2>1, <2>2 DEF Found, new
<1>4. CASE line.key # key
  <2>1. Active(new, key) = Active(doc, key)
    BY <1>1, <1>2, <1>4 DEF Active
  <2>2. Active(doc, key) # {} => LastOf(Active(doc, key)) \in 1 .. Len(doc)
    BY ActiveIn
  <2> QED BY <1>1, <1>4, <2>1, <2>2 DEF Found, new
<1> QED BY <1>3, <1>4

\* A value that is set, and the other keys.
LEMMA FoundSet ==
  ASSUME NEW doc, IsLines(doc), NEW set, NEW value, NEW key
  PROVE  Found(SetValue(doc, set, value), key) = IF key = set THEN <<value>> ELSE Found(doc, key)
<1>0. Line(set, value).key = set /\ Line(set, value).value = value
  BY DEF Line
<1>1. CASE Active(doc, set) = {}
  <2>1. SetValue(doc, set, value) = Append(doc, Line(set, value))
    BY <1>1 DEF SetValue
  <2> QED BY <1>0, <2>1, FoundAppend
<1>2. CASE Active(doc, set) # {}
  <2> DEFINE i == LastOf(Active(doc, set))
             new == [doc EXCEPT ![i] = Line(set, value)]
  <2>1. i \in Active(doc, set) /\ i \in DOMAIN doc /\ doc[i].key = set
    BY <1>2, ActiveIn DEF Active
  <2>2. /\ DOMAIN new = DOMAIN doc /\ new[i].key = set /\ new[i].value = value
        /\ \A k \in DOMAIN doc : k # i => new[k] = doc[k]
    BY <1>0, <2>1
  <2>3. SetValue(doc, set, value) = new
    BY <1>2 DEF SetValue
  <2> HIDE DEF i, new
  <2>4. Active(new, key) = Active(doc, key)
    BY <2>1, <2>2 DEF Active
  <2>5. CASE key = set
    BY <1>2, <2>1, <2>2, <2>3, <2>4, <2>5 DEF Found, i
  <2>6. CASE key # set
    <3>1. CASE Active(doc, key) = {}
      BY <2>3, <2>4, <2>6, <3>1 DEF Found
    <3>2. CASE Active(doc, key) # {}
      <4>1. LastOf(Active(doc, key)) \in DOMAIN doc /\ doc[LastOf(Active(doc, key))].key = key
        BY <3>2, ActiveIn DEF Active
      <4>2. new[LastOf(Active(doc, key))] = doc[LastOf(Active(doc, key))]
        BY <2>1, <2>2, <2>6, <4>1
      <4> QED BY <2>3, <2>4, <2>6, <4>2 DEF Found
    <3> QED BY <3>1, <3>2
  <2> QED BY <2>5, <2>6
<1> QED BY <1>1, <1>2

\* A document and its beginnings.
LEMMA Beginnings ==
  ASSUME NEW doc, IsLines(doc)
  PROVE  /\ SubSeq(doc, 1, 0) = <<>> /\ SubSeq(doc, 1, Len(doc)) = doc
         /\ \A n \in Nat : n + 1 <= Len(doc) =>
              /\ IsLines(SubSeq(doc, 1, n))
              /\ SubSeq(doc, 1, n + 1) = Append(SubSeq(doc, 1, n), doc[n + 1])
<1>1. PICK S : doc \in Seq(S) /\ \A line \in S : Paired(line)
  BY DEF IsLines
<1>2. ASSUME NEW n \in Nat, n + 1 <= Len(doc)
      PROVE  /\ SubSeq(doc, 1, n) \in Seq(S)
             /\ SubSeq(doc, 1, n + 1) = Append(SubSeq(doc, 1, n), doc[n + 1])
  BY <1>1, <1>2
<1>3. SubSeq(doc, 1, 0) = <<>>
  BY <1>1
<1>4. SubSeq(doc, 1, Len(doc)) = doc
  BY <1>1
<1>5. \A begin \in Seq(S) : IsLines(begin)
  BY <1>1, LinesOf
<1> QED BY <1>2, <1>3, <1>4, <1>5

\* No lines say nothing.
LEMMA FoundNothing == \A key : Found(<<>>, key) = <<>>
BY DEF Found, Active

\* The value that is taken out, and the other keys.
LEMMA FoundRemove ==
  ASSUME NEW doc, IsLines(doc), NEW key
  PROVE  Found(RemoveValue(doc, NameKey), key) = IF key = NameKey THEN <<>> ELSE Found(doc, key)
<1>1. doc \in Seq(Range(doc)) /\ Len(doc) \in Nat
  BY DEF IsLines
<1>2. PICK h : /\ h[0] = <<>> /\ h[Len(doc)] = RemoveValue(doc, NameKey)
               /\ \A k \in 1 .. Len(doc) : h[k] = DropName(h[k - 1], doc[k])
  BY RemoveSteps, Zenon
<1> DEFINE begin(n) == SubSeq(doc, 1, n)
           left(n) == /\ IsLines(h[n])
                      /\ Found(h[n], key) = IF key = NameKey THEN <<>> ELSE Found(begin(n), key)
           N == {n \in Nat : n <= Len(doc) => left(n)}
<1>3. /\ begin(0) = <<>> /\ begin(Len(doc)) = doc
      /\ \A n \in Nat : n + 1 <= Len(doc) =>
           IsLines(begin(n)) /\ begin(n + 1) = Append(begin(n), doc[n + 1])
  <2>1. /\ SubSeq(doc, 1, 0) = <<>> /\ SubSeq(doc, 1, Len(doc)) = doc
        /\ \A n \in Nat : n + 1 <= Len(doc) =>
             /\ IsLines(SubSeq(doc, 1, n))
             /\ SubSeq(doc, 1, n + 1) = Append(SubSeq(doc, 1, n), doc[n + 1])
    BY Beginnings, Zenon
  <2> QED BY <2>1, Zenon
<1> HIDE DEF begin
<1>4. 0 \in N
  BY <1>2, <1>3, NoLines, FoundNothing
<1>5. ASSUME NEW n \in N PROVE n + 1 \in N
  <2>1. n \in Nat /\ n + 1 \in Nat /\ (n + 1) - 1 = n
    OBVIOUS
  <2>2. ASSUME n + 1 <= Len(doc) PROVE left(n + 1)
    <3>1. n + 1 \in 1 .. Len(doc) /\ left(n)
      BY <1>1, <2>1, <2>2
    <3>2. h[n + 1] = DropName(h[n], doc[n + 1])
      BY <1>2, <2>1, <3>1, Zenon
    <3>3. IsLines(begin(n)) /\ begin(n + 1) = Append(begin(n), doc[n + 1])
      BY <1>3, <2>1, <2>2
    <3>4. Found(begin(n + 1), key) =
            IF doc[n + 1].key = key THEN <<doc[n + 1].value>> ELSE Found(begin(n), key)
      <4>1. ASSUME NEW b, IsLines(b), NEW line
            PROVE  Found(Append(b, line), key) = IF line.key = key THEN <<line.value>> ELSE Found(b, key)
        BY <4>1, FoundAppend
      <4> QED BY <3>3, <4>1, Zenon
    <3>5. CASE doc[n + 1].key = NameKey
      BY <3>1, <3>2, <3>4, <3>5 DEF DropName
    <3>6. CASE doc[n + 1].key # NameKey
      <4>1. h[n + 1] = Append(h[n], doc[n + 1])
        BY <3>2, <3>6 DEF DropName
      <4>2. IsLines(h[n + 1])
        <5>1. Paired(doc[n + 1])
          BY <1>1, <3>1 DEF IsLines, Range
        <5> QED BY <3>1, <4>1, <5>1, ForeignAppend
      <4>3. Found(h[n + 1], key) = IF doc[n + 1].key = key THEN <<doc[n + 1].value>> ELSE Found(h[n], key)
        BY <3>1, <4>1, FoundAppend
      <4> QED BY <3>1, <3>4, <3>6, <4>2, <4>3
    <3> QED BY <3>5, <3>6
  <2> QED BY <2>1, <2>2
<1>6. N = Nat
  <2> HIDE DEF N
  <2>1. N \in SUBSET Nat
    BY DEF N
  <2> QED BY <1>4, <1>5, <2>1, ForeignFold!Induction
<1>7. Len(doc) \in N
  BY <1>1, <1>6
<1> QED BY <1>1, <1>2, <1>3, <1>7

\* One key of a save.
LEMMA FoundValue ==
  ASSUME NEW v, NEW doc, IsLines(doc), NEW set \in Owned, NEW key
  PROVE  Found(ApplyValue(v, doc, set), key) = IF key = set THEN Wanted(v, key) ELSE Found(doc, key)
<1>1. CASE set = NameKey /\ v[set] = <<>>
  BY <1>1, FoundRemove DEF ApplyValue, NameKey, Wanted
<1>2. CASE ~(set = NameKey /\ v[set] = <<>>)
  <2>1. ApplyValue(v, doc, set) = SetValue(doc, set, v[set])
    BY <1>2 DEF ApplyValue, NameKey
  <2> QED BY <1>2, <2>1, FoundSet DEF Wanted
<1> QED BY <1>1, <1>2

\* All of them, in the order of the keys.
LEMMA FoundAll ==
  ASSUME NEW v, NEW doc, IsLines(doc), NEW g, g[0] = doc,
         \A k \in 1 .. Len(OwnedKeys) : g[k] = ApplyValue(v, g[k - 1], OwnedKeys[k])
  PROVE  Carries(v, g[Len(OwnedKeys)])
<1> DEFINE key(k) == OwnedKeys[k]
           upTo(n) == IsLines(g[n]) /\ \A k \in 1 .. n : Found(g[n], key(k)) = Wanted(v, key(k))
           N == {n \in Nat : n <= Len(OwnedKeys) => upTo(n)}
<1>1. Len(OwnedKeys) \in Nat /\ \A k \in 1 .. Len(OwnedKeys) : key(k) \in Owned
  BY OwnedAre
<1>2. 0 \in N
  OBVIOUS
<1>3. ASSUME NEW n \in N PROVE n + 1 \in N
  <2>1. n \in Nat /\ n + 1 \in Nat /\ (n + 1) - 1 = n
    OBVIOUS
  <2>2. ASSUME n + 1 <= Len(OwnedKeys) PROVE upTo(n + 1)
    <3>1. n + 1 \in 1 .. Len(OwnedKeys) /\ upTo(n)
      BY <1>1, <2>1, <2>2
    <3>2. g[n + 1] = ApplyValue(v, g[n], key(n + 1)) /\ key(n + 1) \in Owned
      BY <1>1, <2>1, <3>1, Zenon
    <3> HIDE DEF key
    <3>3. IsLines(g[n + 1])
      BY <3>1, <3>2, ValueKeepsForeign
    <3>4. ASSUME NEW k \in 1 .. n + 1 PROVE Found(g[n + 1], key(k)) = Wanted(v, key(k))
      <4>1. Found(g[n + 1], key(k)) =
              IF key(k) = key(n + 1) THEN Wanted(v, key(k)) ELSE Found(g[n], key(k))
        BY <3>1, <3>2, FoundValue
      <4>2. k = n + 1 \/ k \in 1 .. n
        BY <2>1
      <4> QED BY <3>1, <4>1, <4>2
    <3> QED BY <3>3, <3>4
  <2> QED BY <2>1, <2>2
<1>4. N = Nat
  <2> HIDE DEF N
  <2>1. N \in SUBSET Nat
    BY DEF N
  <2> QED BY <1>2, <1>3, <2>1, ForeignFold!Induction
<1>5. upTo(Len(OwnedKeys))
  BY <1>1, <1>4
<1>6. ASSUME NEW owned \in Owned PROVE Found(g[Len(OwnedKeys)], owned) = Wanted(v, owned)
  <2>1. PICK k \in 1 .. Len(OwnedKeys) : owned = key(k)
    BY OwnedAre DEF Owned, Range
  <2> QED BY <1>5, <2>1
<1> QED BY <1>6 DEF Carries

\* What a save writes says what it took from the app.
LEMMA SaveCarries == ASSUME IsLines(document) PROVE Carries(view, Apply(view, document))
<1>1. Apply(view, document) = ShownFold!Folded(document, OwnedKeys)
  BY DEF Apply, ApplyShown, ShownFold!Folded, FoldLeft, MapThenFoldSet,
         ShownFold!FoldLeft, ShownFold!MapThenFoldSet, Max, ShownFold!Max
<1>2. PICK g : /\ g[0] = document /\ g[Len(OwnedKeys)] = Apply(view, document)
               /\ \A k \in 1 .. Len(OwnedKeys) : g[k] = ApplyShown(g[k - 1], OwnedKeys[k])
  BY <1>1, OwnedAre, ShownFold!FoldSteps
<1>3. \A k \in 1 .. Len(OwnedKeys) : g[k] = ApplyValue(view, g[k - 1], OwnedKeys[k])
  BY <1>2 DEF ApplyShown
<1> QED BY <1>2, <1>3, FoundAll

\* So does a starter.
LEMMA StarterCarries == Carries(DefaultView, Apply(DefaultView, StarterHeader))
<1>1. Apply(DefaultView, StarterHeader) = DefaultFold!Folded(StarterHeader, OwnedKeys)
  BY DEF Apply, ApplyDefault, DefaultFold!Folded, FoldLeft, MapThenFoldSet,
         DefaultFold!FoldLeft, DefaultFold!MapThenFoldSet, Max, DefaultFold!Max
<1>2. IsLines(StarterHeader)
  <2>1. StarterHeader \in Seq({StarterHeader[1], StarterHeader[2]})
    BY DEF StarterHeader
  <2>2. Paired(StarterHeader[1]) /\ Paired(StarterHeader[2])
    BY DEF StarterHeader, Line, NoKey, Paired
  <2> QED BY <2>1, <2>2, LinesOf
<1>3. PICK g : /\ g[0] = StarterHeader /\ g[Len(OwnedKeys)] = Apply(DefaultView, StarterHeader)
               /\ \A k \in 1 .. Len(OwnedKeys) : g[k] = ApplyDefault(g[k - 1], OwnedKeys[k])
  BY <1>1, OwnedAre, DefaultFold!FoldSteps
<1>4. \A k \in 1 .. Len(OwnedKeys) : g[k] = ApplyValue(DefaultView, g[k - 1], OwnedKeys[k])
  BY <1>3 DEF ApplyDefault
<1> QED BY <1>2, <1>3, <1>4, FoundAll

ApplySaved(doc, key) == ApplyValue(lastSaved, doc, key)
SavedFold == INSTANCE FoldFacts WITH op <- ApplySaved, Good <- IsLines

\* So does a file of nothing but the values last saved.
LEMMA SavedCarries == IsLines(Apply(lastSaved, <<>>)) /\ Carries(lastSaved, Apply(lastSaved, <<>>))
<1>1. Apply(lastSaved, <<>>) = SavedFold!Folded(<<>>, OwnedKeys)
  BY DEF Apply, ApplySaved, SavedFold!Folded, FoldLeft, MapThenFoldSet,
         SavedFold!FoldLeft, SavedFold!MapThenFoldSet, Max, SavedFold!Max
<1>2. IsLines(<<>>)
  BY NoLines
<1>3. PICK g : /\ g[0] = <<>> /\ g[Len(OwnedKeys)] = Apply(lastSaved, <<>>)
               /\ \A k \in 1 .. Len(OwnedKeys) : g[k] = ApplySaved(g[k - 1], OwnedKeys[k])
  BY <1>1, OwnedAre, SavedFold!FoldSteps
<1>4. \A k \in 1 .. Len(OwnedKeys) : g[k] = ApplyValue(lastSaved, g[k - 1], OwnedKeys[k])
  BY <1>3 DEF ApplySaved
<1>5. Carries(lastSaved, Apply(lastSaved, <<>>))
  BY <1>2, <1>3, <1>4, FoundAll
<1>6. \A key \in Owned : \A doc : IsLines(doc) => IsLines(ApplySaved(doc, key))
  BY ValueKeepsForeign DEF ApplySaved
<1>7. IsLines(SavedFold!Folded(<<>>, OwnedKeys))
  BY <1>2, <1>6, OwnedAre, SavedFold!FoldKeeps
<1> QED BY <1>1, <1>5, <1>7

-----------------------------------------------------------------------------
(* The values of the app.                                                   *)

FieldsOfApp == TabFields \cup GeneralFields \cup {"ocr_format"}
Canonical(field, value) == FromValue(field, value) = value

\* Every key of the app has one of its fields.
LEMMA FieldOfKey == \A key \in Owned : key[2] \in FieldsOfApp
<1> SUFFICES ASSUME NEW key \in Owned PROVE key[2] \in FieldsOfApp
  OBVIOUS
<1>1. CASE \E field \in GeneralFields : key[2] = field
  BY <1>1 DEF FieldsOfApp
<1>2. CASE \E field \in TabFields : key[2] = field
  BY <1>2 DEF FieldsOfApp
<1>3. CASE key = OcrKey
  BY <1>3 DEF OcrKey, FieldsOfApp
<1> QED BY <1>1, <1>2, <1>3, KindsOfKeys

\* An option.
LEMMA OptionTaken ==
  \A field \in DOMAIN OptionSets : \A value :
    FromValue(field, value) =
      IF Len(value) = 1 /\ value[1] \in OptionSets[field] THEN value ELSE FieldDefault[field]
<1>1. \A field \in DOMAIN OptionSets :
        field \notin {"separation", "high_speed", "skip_blank", "jpeg_quality"}
  BY DEF OptionSets
<1> QED BY <1>1 DEF FromValue

\* The defaults are in the app's own spelling.
LEMMA DefaultIsCanonical == \A field \in FieldsOfApp : Canonical(field, FieldDefault[field])
<1> SUFFICES ASSUME NEW field \in FieldsOfApp PROVE Canonical(field, FieldDefault[field])
  OBVIOUS
<1>1. CASE field \in DOMAIN OptionSets
  BY <1>1, OptionTaken DEF Canonical
<1>2. CASE field = "separation"
  BY <1>2 DEF Canonical, FromValue, FieldDefault, SeparationCodec, OptionSets
<1>3. CASE field \in {"high_speed", "skip_blank"}
  BY <1>3 DEF Canonical, FromValue, FieldDefault, BoolToken, OptionSets
<1>4. CASE field = "jpeg_quality"
  <2>1. FieldDefault[field] = <<"90">>
    BY <1>4 DEF FieldDefault
  <2>2. JpegToken(<<"90">>, <<"90">>) = <<"90">>
    BY SpellingAssumption DEF JpegToken, Clamp
  <2> QED BY <1>4, <2>1, <2>2 DEF Canonical, FromValue, OptionSets
<1>5. CASE field \notin DOMAIN OptionSets \cup {"separation", "high_speed", "skip_blank", "jpeg_quality"}
  BY <1>5 DEF Canonical, FromValue
<1> QED BY <1>1, <1>2, <1>3, <1>4, <1>5

\* A value the app has taken over is in its own spelling.
LEMMA TakenIsCanonical == \A field \in FieldsOfApp : \A value : Canonical(field, FromValue(field, value))
<1> SUFFICES ASSUME NEW field \in FieldsOfApp, NEW value PROVE Canonical(field, FromValue(field, value))
  OBVIOUS
<1>0. Canonical(field, FieldDefault[field])
  BY DefaultIsCanonical
<1>1. CASE field \in DOMAIN OptionSets
  BY <1>0, <1>1, OptionTaken DEF Canonical
<1>2. CASE field = "separation"
  <2>1. FromValue(field, value) = SeparationCodec(value) /\ FieldDefault[field] = <<"combine">>
        /\ \A w : FromValue(field, w) = SeparationCodec(w)
    BY <1>2 DEF FromValue, OptionSets, FieldDefault
  <2>2. CASE /\ value \notin {<<"combine">>, <<"off">>}
             /\ Len(value) = 2 /\ value[1] \in {"image", "page", "every"} /\ value[2] \in OptionSets.dpi
    <3>1. SeparationCodec(value) = <<IF value[1] = "page" THEN "page" ELSE "image", value[2]>>
      BY <2>2 DEF SeparationCodec
    <3>2. \A a, b : a \in {"image", "page"} /\ b \in OptionSets.dpi => SeparationCodec(<<a, b>>) = <<a, b>>
      BY DEF SeparationCodec
    <3>3. PICK a, b : a \in {"image", "page"} /\ b \in OptionSets.dpi /\ SeparationCodec(value) = <<a, b>>
      BY <2>2, <3>1
    <3> QED BY <2>1, <3>2, <3>3 DEF Canonical
  <2>3. CASE value \in {<<"combine">>, <<"off">>}
    BY <1>0, <2>1, <2>3 DEF Canonical, SeparationCodec
  <2>4. CASE /\ value \notin {<<"combine">>, <<"off">>}
             /\ ~(Len(value) = 2 /\ value[1] \in {"image", "page", "every"} /\ value[2] \in OptionSets.dpi)
    <3>1. SeparationCodec(value) = FieldDefault.separation
      BY <2>4 DEF SeparationCodec
    <3> QED BY <1>0, <1>2, <2>1, <3>1 DEF Canonical
  <2> QED BY <2>2, <2>3, <2>4
<1>3. CASE field \in {"high_speed", "skip_blank"}
  BY <1>0, <1>3 DEF Canonical, FromValue, BoolToken, OptionSets
<1>4. CASE field = "jpeg_quality"
  <2>1. \A w : FromValue(field, w) = JpegToken(w, FieldDefault[field])
    BY <1>4 DEF FromValue, OptionSets
  <2>2. CASE Len(value) = 1 /\ value[1] \in DOMAIN Literal
    <3> DEFINE n == Clamp(Literal[value[1]])
    <3>1. n \in Int /\ Clamp(n) = n
      BY <2>2, LiteralAssumption DEF Clamp
    <3>2. Spelled(n) \in DOMAIN Literal /\ Literal[Spelled(n)] = n
      BY <2>2, SpellingAssumption DEF Spelled
    <3>3. JpegToken(value, FieldDefault[field]) = <<Spelled(n)>>
      BY <2>2 DEF JpegToken
    <3> HIDE DEF n
    <3>4. JpegToken(<<Spelled(n)>>, FieldDefault[field]) = <<Spelled(n)>>
      BY <3>1, <3>2 DEF JpegToken
    <3> QED BY <2>1, <3>3, <3>4 DEF Canonical
  <2>3. CASE ~(Len(value) = 1 /\ value[1] \in DOMAIN Literal)
    BY <1>0, <2>1, <2>3 DEF Canonical, JpegToken
  <2> QED BY <2>2, <2>3
<1>5. CASE field \notin DOMAIN OptionSets \cup {"separation", "high_speed", "skip_blank", "jpeg_quality"}
  BY <1>5 DEF Canonical, FromValue
<1> QED BY <1>1, <1>2, <1>3, <1>4, <1>5

-----------------------------------------------------------------------------
(* The views.                                                               *)

\* A view that has a value in the app's spelling for each key, one whose formats the modes allow,
\* and both.
TakenOver(v) == v = [key \in Owned |-> v[key]] /\ \A key \in Owned : Canonical(key[2], v[key])
Settled(v) == \A dest \in Dests : v[<<dest, "format">>][1] \in AllowedFormats(v[<<dest, "mode">>])
GoodView(v) == TakenOver(v) /\ Settled(v)

\* Views that differ in nothing the tabs show.
Hidden == {<<"ocr", "format">>, <<"ocr", "tiff_compression">>, <<"ocr", "jpeg_quality">>}
SameTabs(v, w) == \A key \in Owned \ Hidden : v[key] = w[key]

\* The keys the view models look at are keys of the app, and the tabs' formats the only ones.
LEMMA FormatKeys ==
  /\ \A dest \in Dests : <<dest, "format">> \in Owned /\ <<dest, "mode">> \in Owned
  /\ Hidden \subseteq Owned
  /\ \A key \in Owned : key[2] = "format" => \E dest \in Dests : key = <<dest, "format">>
<1>1. \A dest \in Dests : \A field \in TabFields : <<dest, field>> \in Owned
  BY OwnedAre DEF TabKeys
<1>2. \A dest \in Dests : <<dest, "format">> \in Owned /\ <<dest, "mode">> \in Owned
  BY <1>1 DEF TabFields
<1>3. Hidden \subseteq Owned
  BY <1>1 DEF TabFields, Hidden, Dests
<1>4. ASSUME NEW key \in Owned, key[2] = "format" PROVE \E dest \in Dests : key = <<dest, "format">>
  <2>1. CASE \E field \in GeneralFields : key[2] = field
    BY <1>4, <2>1 DEF GeneralFields
  <2>2. CASE \E dest \in Dests, field \in TabFields : key = <<dest, field>> /\ key[2] = field
    BY <1>4, <2>2
  <2>3. CASE key = OcrKey
    BY <1>4, <2>3 DEF OcrKey
  <2> QED BY <2>1, <2>2, <2>3, KindsOfKeys
<1> QED BY <1>2, <1>3, <1>4

\* Every mode allows PDF, which is in the app's spelling, as is what OCR pins.
LEMMA PdfIsAllowed ==
  /\ \A mode : "pdf" \in AllowedFormats(mode)
  /\ Canonical("format", <<"pdf">>)
  /\ Canonical("tiff_compression", FieldDefault.tiff_compression)
  /\ Canonical("jpeg_quality", FieldDefault.jpeg_quality)
<1>1. \A mode : "pdf" \in AllowedFormats(mode)
  <2> SUFFICES ASSUME NEW mode PROVE "pdf" \in AllowedFormats(mode)
    OBVIOUS
  <2> DEFINE without == CASE mode \in {<<"gray">>, <<"truegray">>} -> {"heic"}
                          [] mode \in {<<"bw">>, <<"errdiff">>} -> {"heic", "jpeg", "jp2"}
                          [] OTHER -> {}
  <2>1. without \in {{"heic"}, {"heic", "jpeg", "jp2"}, {}}
    <3>1. CASE mode \in {<<"gray">>, <<"truegray">>}
      BY <3>1
    <3>2. CASE mode \in {<<"bw">>, <<"errdiff">>}
      BY <3>2
    <3>3. CASE mode \notin {<<"gray">>, <<"truegray">>} /\ mode \notin {<<"bw">>, <<"errdiff">>}
      BY <3>3
    <3> QED BY <3>1, <3>2, <3>3
  <2>2. AllowedFormats(mode) = OptionSets.format \ without
    BY DEF AllowedFormats
  <2> HIDE DEF without
  <2> QED BY <2>1, <2>2 DEF OptionSets
<1>2. Canonical("format", <<"pdf">>)
  <2>1. "format" \in DOMAIN OptionSets /\ "pdf" \in OptionSets["format"]
    BY DEF OptionSets
  <2>2. Len(<<"pdf">>) = 1 /\ <<"pdf">>[1] = "pdf"
    OBVIOUS
  <2> QED BY <2>1, <2>2, OptionTaken DEF Canonical
<1>3. Canonical("tiff_compression", FieldDefault["tiff_compression"]) /\ Canonical("jpeg_quality", FieldDefault["jpeg_quality"])
  BY DefaultIsCanonical DEF FieldsOfApp, TabFields
<1> QED BY <1>1, <1>2, <1>3

\* What is read of a file, and the defaults.
LEMMA FromIsTaken == \A lines : TakenOver(From(lines))
<1> SUFFICES ASSUME NEW lines PROVE TakenOver(From(lines))
  OBVIOUS
<1>1. From(lines) = [key \in Owned |-> From(lines)[key]]
  BY DEF From, Owned
<1>2. ASSUME NEW key \in Owned PROVE Canonical(key[2], From(lines)[key])
  <2>1. From(lines)[key] = IF Active(lines, key) = {} THEN FieldDefault[key[2]]
                           ELSE FromValue(key[2], lines[LastOf(Active(lines, key))].value)
    BY DEF From, Owned
  <2> QED BY <2>1, FieldOfKey, DefaultIsCanonical, TakenIsCanonical
<1> QED BY <1>1, <1>2 DEF TakenOver

\* The defaults are a view in order.
LEMMA DefaultIsGood == GoodView(DefaultView)
<1>1. \A key \in Owned : DefaultView[key] = FieldDefault[key[2]]
  BY DEF DefaultView, Owned
<1>2. TakenOver(DefaultView)
  <2>1. DefaultView = [key \in Owned |-> DefaultView[key]]
    BY DEF DefaultView, Owned
  <2> QED BY <1>1, <2>1, FieldOfKey, DefaultIsCanonical DEF TakenOver
<1>3. ASSUME NEW dest \in Dests
      PROVE  DefaultView[<<dest, "format">>][1] \in AllowedFormats(DefaultView[<<dest, "mode">>])
  <2>1. DefaultView[<<dest, "format">>] = <<"native">> /\ DefaultView[<<dest, "mode">>] = <<"color">>
    BY <1>1, FormatKeys DEF FieldDefault
  <2>2. "native" \in AllowedFormats(<<"color">>)
    BY DEF AllowedFormats, OptionSets
  <2> QED BY <2>1, <2>2
<1> QED BY <1>2, <1>3 DEF GoodView, Settled

\* A format the mode excludes becomes PDF.
LEMMA CoerceIsGood == \A v : TakenOver(v) => GoodView(CoerceFormat(v))
<1> SUFFICES ASSUME NEW v, TakenOver(v) PROVE GoodView(CoerceFormat(v))
  OBVIOUS
<1>1. /\ DOMAIN v = Owned /\ CoerceFormat(v) = [key \in Owned |-> CoerceFormat(v)[key]]
      /\ \A key \in Owned : CoerceFormat(v)[key] =
           IF key[2] = "format" /\ v[key][1] \notin AllowedFormats(v[<<key[1], "mode">>])
           THEN <<"pdf">> ELSE v[key]
  BY DEF TakenOver, CoerceFormat
<1>2. TakenOver(CoerceFormat(v))
  BY <1>1, PdfIsAllowed DEF TakenOver
<1>3. ASSUME NEW dest \in Dests
      PROVE  CoerceFormat(v)[<<dest, "format">>][1] \in AllowedFormats(CoerceFormat(v)[<<dest, "mode">>])
  <2> DEFINE f == <<dest, "format">>
             m == <<dest, "mode">>
  <2>1. f \in Owned /\ m \in Owned /\ f[2] = "format" /\ f[1] = dest /\ m[2] = "mode"
    BY FormatKeys
  <2>2. CoerceFormat(v)[m] = v[m]
    BY <1>1, <2>1
  <2>3. CoerceFormat(v)[f] = IF v[f][1] \notin AllowedFormats(v[m]) THEN <<"pdf">> ELSE v[f]
    BY <1>1, <2>1
  <2> QED BY <2>2, <2>3, PdfIsAllowed
<1> QED BY <1>2, <1>3 DEF GoodView, Settled

\* Formats the modes allow stay.
LEMMA CoerceKeepsGood == \A v : GoodView(v) => CoerceFormat(v) = v
<1> SUFFICES ASSUME NEW v, GoodView(v) PROVE CoerceFormat(v) = v
  OBVIOUS
<1>1. v = [key \in Owned |-> v[key]] /\ DOMAIN v = Owned
  BY DEF GoodView, TakenOver
<1>2. ASSUME NEW key \in Owned, key[2] = "format" PROVE v[key][1] \in AllowedFormats(v[<<key[1], "mode">>])
  <2>1. PICK dest \in Dests : key = <<dest, "format">>
    BY <1>2, FormatKeys
  <2> QED BY <2>1 DEF GoodView, Settled
<1>3. CoerceFormat(v) = [key \in Owned |-> v[key]]
  BY <1>1, <1>2 DEF CoerceFormat
<1> QED BY <1>1, <1>3

\* What OCR pins is not shown.
LEMMA OcrIsGood == \A v : GoodView(v) => GoodView(OcrRoute(v)) /\ SameTabs(OcrRoute(v), v)
<1> SUFFICES ASSUME NEW v, GoodView(v) PROVE GoodView(OcrRoute(v)) /\ SameTabs(OcrRoute(v), v)
  OBVIOUS
<1> DEFINE f == <<"ocr", "format">>
           t == <<"ocr", "tiff_compression">>
           j == <<"ocr", "jpeg_quality">>
           w == OcrRoute(v)
<1>1. f \in Owned /\ t \in Owned /\ j \in Owned /\ f # t /\ f # j /\ t # j
  BY FormatKeys DEF Hidden
<1>2. DOMAIN v = Owned /\ v = [key \in Owned |-> v[key]]
  BY DEF GoodView, TakenOver
<1>3. /\ w = [key \in Owned |-> w[key]]
      /\ w[f] = <<"pdf">> /\ w[t] = FieldDefault.tiff_compression /\ w[j] = FieldDefault.jpeg_quality
      /\ \A key \in Owned \ Hidden : w[key] = v[key]
  <2> HIDE DEF f, t, j
  <2>1. w = [v EXCEPT ![f] = <<"pdf">>, ![t] = FieldDefault.tiff_compression,
                      ![j] = FieldDefault.jpeg_quality]
    BY DEF OcrRoute, f, t, j
  <2> HIDE DEF w
  <2>2. Hidden = {f, t, j}
    BY DEF Hidden, f, t, j
  <2> QED BY <1>1, <1>2, <2>1, <2>2
<1>4. f[2] = "format" /\ t[2] = "tiff_compression" /\ j[2] = "jpeg_quality"
  OBVIOUS
<1>5. Hidden = {f, t, j}
  BY DEF Hidden
<1>6. TakenOver(w)
  <2>1. ASSUME NEW key \in Owned PROVE Canonical(key[2], w[key])
    <3> HIDE DEF f, t, j, w
    <3>1. CASE key \in Hidden
      BY <1>3, <1>4, <1>5, <3>1, PdfIsAllowed
    <3>2. CASE key \notin Hidden
      BY <1>3, <3>2 DEF GoodView, TakenOver
    <3> QED BY <3>1, <3>2
  <2> HIDE DEF w
  <2> QED BY <1>3, <2>1 DEF TakenOver
<1>7. ASSUME NEW dest \in Dests PROVE w[<<dest, "format">>][1] \in AllowedFormats(w[<<dest, "mode">>])
  <2>1. CASE dest = "ocr"
    <3> HIDE DEF w
    <3> QED BY <1>3, <2>1, PdfIsAllowed
  <2>2. CASE dest # "ocr"
    <3>1. <<dest, "format">> \in Owned \ Hidden /\ <<dest, "mode">> \in Owned \ Hidden
      BY <2>2, FormatKeys DEF Hidden
    <3> HIDE DEF w
    <3> QED BY <1>3, <3>1 DEF GoodView, Settled
  <2> QED BY <2>1, <2>2
<1> QED BY <1>3, <1>6, <1>7 DEF GoodView, Settled, SameTabs

\* A change of one field.
LEMMA EditIsTaken ==
  ASSUME NEW v, GoodView(v), NEW change \in Edits
  PROVE  TakenOver([v EXCEPT ![change.key] = change.value])
<1> DEFINE w == [v EXCEPT ![change.key] = change.value]
<1>1. change.key \in Owned /\ Canonical(change.key[2], change.value)
  BY EditAssumption DEF Owned, Canonical
<1>2. DOMAIN v = Owned /\ v = [key \in Owned |-> v[key]] /\ \A key \in Owned : Canonical(key[2], v[key])
  BY DEF GoodView, TakenOver
<1>3. w = [key \in Owned |-> w[key]] /\ \A key \in Owned : w[key] = IF key = change.key THEN change.value ELSE v[key]
  BY <1>2
<1> HIDE DEF w
<1>4. TakenOver(w)
  BY <1>1, <1>2, <1>3 DEF TakenOver
<1> QED BY <1>4 DEF w

\* A file that says what a view shows is read as that view.
LEMMA ReadAsCarried == \A v, lines : TakenOver(v) /\ Carries(v, lines) => From(lines) = v
<1> SUFFICES ASSUME NEW v, NEW lines, TakenOver(v), Carries(v, lines) PROVE From(lines) = v
  OBVIOUS
<1>1. ASSUME NEW key \in Owned PROVE From(lines)[key] = v[key]
  <2>1. From(lines)[key] = IF Active(lines, key) = {} THEN FieldDefault[key[2]]
                           ELSE FromValue(key[2], lines[LastOf(Active(lines, key))].value)
    BY DEF From, Owned
  <2>2. Found(lines, key) = Wanted(v, key) /\ Canonical(key[2], v[key])
    BY DEF Carries, TakenOver
  <2>3. \A x, y : <<x>> # <<>> /\ (<<x>> = <<y>> => x = y)
    OBVIOUS
  <2>4. CASE Active(lines, key) = {}
    <3>1. Wanted(v, key) = <<>>
      BY <2>2, <2>4 DEF Found
    <3>2. key = NameKey /\ v[key] = <<>>
      BY <2>3, <3>1 DEF Wanted
    <3>3. FieldDefault[key[2]] = <<>>
      BY <3>2 DEF FieldDefault, NameKey
    <3> QED BY <2>1, <2>4, <3>2, <3>3
  <2>5. CASE Active(lines, key) # {}
    <3>1. Found(lines, key) = <<lines[LastOf(Active(lines, key))].value>>
      BY <2>5 DEF Found
    <3>2. Wanted(v, key) = <<v[key]>>
      BY <2>2, <2>3, <3>1 DEF Wanted
    <3>3. lines[LastOf(Active(lines, key))].value = v[key]
      BY <2>2, <2>3, <3>1, <3>2
    <3> QED BY <2>1, <2>2, <2>5, <3>3 DEF Canonical
  <2> QED BY <2>4, <2>5
<1>2. From(lines) = [key \in Owned |-> From(lines)[key]] /\ v = [key \in Owned |-> v[key]]
  BY FromIsTaken DEF TakenOver
<1> QED BY <1>1, <1>2

-----------------------------------------------------------------------------
(* What the daemon makes of a key.                                          *)

SettingNames == {"mode", "dpi", "source", "duplex", "format", "tiff", "separation", "separate_n", "paper",
                 "level", "high_speed", "skip_blank", "jpeg_quality"}
ConfigNames == {"printer_host", "display_name", "save_dir", "image_app", "email_to", "register_funcs",
                "ocr_text_format", "dest"}

\* The fields of a configuration.
ShapedSettings(s) == s = [x \in SettingNames |-> s[x]]
Shaped(c) ==
  /\ c = [x \in ConfigNames |-> c[x]]
  /\ c["dest"] = [f \in Range(Funcs) |-> c["dest"][f]]
  /\ \A f \in Range(Funcs) : ShapedSettings(c["dest"][f])

\* What a field of a tab sets.
SetBy == [mode |-> {"mode"}, source |-> {"source", "duplex"}, dpi |-> {"dpi"}, format |-> {"format"},
          tiff_compression |-> {"tiff"}, separation |-> {"separation", "separate_n"}, paper |-> {"paper"},
          high_speed |-> {"high_speed"}, skip_blank |-> {"skip_blank"}, jpeg_quality |-> {"jpeg_quality"}]

\* The level is set by a field the app knows nothing of, and no other setting is.
Sets(field) == IF field \in TabFields THEN SetBy[field] ELSE {"level"}

\* Settings a change of some fields leaves alone.
SameBut(s, t, names) == ShapedSettings(t) /\ \A x \in SettingNames \ names : t[x] = s[x]

Put(s, x, value) == [s EXCEPT ![x] = value]

\* Replacing one setting leaves the others.
LEMMA PutOne ==
  ASSUME NEW s, ShapedSettings(s), NEW x \in SettingNames, NEW value
  PROVE  /\ SameBut(s, Put(s, x, value), {x}) /\ ShapedSettings(Put(s, x, value))
         /\ Put(s, x, value)[x] = value
<1> DEFINE t == Put(s, x, value)
<1>1. DOMAIN s = SettingNames
  BY DEF ShapedSettings
<1> HIDE DEF SettingNames
<1>2. t = [y \in SettingNames |-> t[y]] /\ t[x] = value /\ \A y \in SettingNames \ {x} : t[y] = s[y]
  BY <1>1 DEF Put
<1> QED BY <1>2 DEF SameBut, ShapedSettings

\* So does replacing two.
LEMMA PutTwo ==
  ASSUME NEW s, ShapedSettings(s), NEW x \in SettingNames, NEW y \in SettingNames, x # y, NEW a, NEW b
  PROVE  /\ SameBut(s, Put(Put(s, x, a), y, b), {x, y})
         /\ Put(Put(s, x, a), y, b)[x] = a /\ Put(Put(s, x, a), y, b)[y] = b
<1>1. SameBut(s, Put(s, x, a), {x}) /\ ShapedSettings(Put(s, x, a)) /\ Put(s, x, a)[x] = a
  BY PutOne
<1>2. /\ SameBut(Put(s, x, a), Put(Put(s, x, a), y, b), {y})
      /\ Put(Put(s, x, a), y, b)[y] = b
  BY <1>1, PutOne
<1> QED BY <1>1, <1>2 DEF SameBut

\* Each field, in turn.
LEMMA FieldIs ==
  ASSUME NEW s, NEW value
  PROVE  /\ ApplyField(s, "mode", value) = Put(s, "mode", Parsed(ModeWords, value, s["mode"]))
         /\ ApplyField(s, "dpi", value) = Put(s, "dpi", Parsed(PositiveInt, value, s["dpi"]))
         /\ ApplyField(s, "format", value) = Put(s, "format", Parsed(FormatWords, value, s["format"]))
         /\ ApplyField(s, "tiff_compression", value) = Put(s, "tiff", Parsed(TiffWords, value, s["tiff"]))
         /\ ApplyField(s, "remove_background", value) = Put(s, "level", Parsed(BackgroundWords, value, s["level"]))
         /\ ApplyField(s, "high_speed", value) = Put(s, "high_speed", Parsed(BoolWords, value, s["high_speed"]))
         /\ ApplyField(s, "skip_blank", value) = Put(s, "skip_blank", Parsed(BoolWords, value, s["skip_blank"]))
         /\ ApplyField(s, "jpeg_quality", value) = Put(s, "jpeg_quality", Parsed(JpegQuality, value, s["jpeg_quality"]))
         /\ ApplyField(s, "paper", value) = Put(s, "paper", value)
         /\ ApplyField(s, "source", value)
              = Put(Put(s, "source", Parsed(SourceWords, value, s).source),
                    "duplex", Parsed(SourceWords, value, s).duplex)
         /\ ApplyField(s, "separation", value)
              = Put(Put(s, "separation", ParseSeparation(value, s).separation),
                    "separate_n", ParseSeparation(value, s).separate_n)
<1>1. ApplyField(s, "mode", value) = Put(s, "mode", Parsed(ModeWords, value, s["mode"]))
  BY DEF ApplyField, Put
<1>2. ApplyField(s, "dpi", value) = Put(s, "dpi", Parsed(PositiveInt, value, s["dpi"]))
  BY DEF ApplyField, Put
<1>3. ApplyField(s, "format", value) = Put(s, "format", Parsed(FormatWords, value, s["format"]))
  BY DEF ApplyField, Put
<1>4. ApplyField(s, "tiff_compression", value) = Put(s, "tiff", Parsed(TiffWords, value, s["tiff"]))
  BY DEF ApplyField, Put
<1>5. ApplyField(s, "remove_background", value) = Put(s, "level", Parsed(BackgroundWords, value, s["level"]))
  BY DEF ApplyField, Put
<1>6. ApplyField(s, "high_speed", value) = Put(s, "high_speed", Parsed(BoolWords, value, s["high_speed"]))
  BY DEF ApplyField, Put
<1>7. ApplyField(s, "skip_blank", value) = Put(s, "skip_blank", Parsed(BoolWords, value, s["skip_blank"]))
  BY DEF ApplyField, Put
<1>8. ApplyField(s, "jpeg_quality", value) = Put(s, "jpeg_quality", Parsed(JpegQuality, value, s["jpeg_quality"]))
  BY DEF ApplyField, Put
<1>9. ApplyField(s, "paper", value) = Put(s, "paper", value)
  BY DEF ApplyField, Put
<1>10. ApplyField(s, "source", value)
              = Put(Put(s, "source", Parsed(SourceWords, value, s).source),
                    "duplex", Parsed(SourceWords, value, s).duplex)
  BY DEF ApplyField, Put
<1>11. ApplyField(s, "separation", value)
              = Put(Put(s, "separation", ParseSeparation(value, s).separation),
                    "separate_n", ParseSeparation(value, s).separate_n)
  BY DEF ApplyField, Put
<1> QED BY <1>1, <1>2, <1>3, <1>4, <1>5, <1>6, <1>7, <1>8, <1>9, <1>10, <1>11, Zenon

\* A field of a tab sets its settings and no others.
LEMMA FieldSets ==
  ASSUME NEW s, ShapedSettings(s), NEW field, NEW value
  PROVE  SameBut(s, ApplyField(s, field, value), Sets(field))
<1>1. CASE field = "mode"
  BY <1>1, FieldIs, PutOne DEF Sets, SetBy, TabFields, SettingNames
<1>2. CASE field = "dpi"
  BY <1>2, FieldIs, PutOne DEF Sets, SetBy, TabFields, SettingNames
<1>3. CASE field = "format"
  BY <1>3, FieldIs, PutOne DEF Sets, SetBy, TabFields, SettingNames
<1>4. CASE field = "tiff_compression"
  BY <1>4, FieldIs, PutOne DEF Sets, SetBy, TabFields, SettingNames
<1>5. CASE field = "remove_background"
  BY <1>5, FieldIs, PutOne DEF Sets, SetBy, TabFields, SettingNames
<1>6. CASE field = "high_speed"
  BY <1>6, FieldIs, PutOne DEF Sets, SetBy, TabFields, SettingNames
<1>7. CASE field = "skip_blank"
  BY <1>7, FieldIs, PutOne DEF Sets, SetBy, TabFields, SettingNames
<1>8. CASE field = "jpeg_quality"
  BY <1>8, FieldIs, PutOne DEF Sets, SetBy, TabFields, SettingNames
<1>9. CASE field = "paper"
  BY <1>9, FieldIs, PutOne DEF Sets, SetBy, TabFields, SettingNames
<1>10. CASE field = "source"
  BY <1>10, FieldIs, PutTwo DEF Sets, SetBy, TabFields, SettingNames
<1>11. CASE field = "separation"
  BY <1>11, FieldIs, PutTwo DEF Sets, SetBy, TabFields, SettingNames
<1>12. CASE field \notin TabFields \cup {"remove_background"}
  <2>1. ApplyField(s, field, value) = s
    BY <1>12 DEF ApplyField, TabFields
  <2> QED BY <2>1 DEF SameBut
<1> QED BY <1>1, <1>2, <1>3, <1>4, <1>5, <1>6, <1>7, <1>8, <1>9, <1>10, <1>11, <1>12 DEF TabFields

\* No two fields of the tabs set the same.
LEMMA SetsApart == \A field \in TabFields : \A other : other # field => Sets(field) \cap Sets(other) = {}
BY DEF Sets, SetBy, TabFields

\* An option in the app's spelling is one of its words.
LEMMA CanonicalOption ==
  \A field \in DOMAIN OptionSets : \A value :
    Canonical(field, value) => Len(value) = 1 /\ value[1] \in OptionSets[field]
<1> SUFFICES ASSUME NEW field \in DOMAIN OptionSets, NEW value, Canonical(field, value)
             PROVE  Len(value) = 1 /\ value[1] \in OptionSets[field]
  OBVIOUS
<1>1. CASE ~(Len(value) = 1 /\ value[1] \in OptionSets[field])
  <2>1. value = FieldDefault[field]
    BY <1>1, OptionTaken DEF Canonical
  <2>2. FieldDefault[field] = <<FieldDefault[field][1]>> /\ FieldDefault[field][1] \in OptionSets[field]
    BY SpellingAssumption DEF OptionSets, FieldDefault
  <2>3. \A w : Len(<<w>>) = 1 /\ <<w>>[1] = w
    OBVIOUS
  <2> QED BY <1>1, <2>1, <2>2, <2>3
<1> QED BY <1>1

\* So is a switch, a quality a literal, and a separation one of three forms.
LEMMA CanonicalOthers ==
  /\ \A field \in {"high_speed", "skip_blank"} : \A value :
       Canonical(field, value) => value \in {<<"on">>, <<"off">>}
  /\ \A value : Canonical("jpeg_quality", value) => Len(value) = 1 /\ value[1] \in DOMAIN Literal
  /\ \A value : Canonical("separation", value) =>
       \/ value = <<"combine">>
       \/ \E w \in {"image", "page"}, n \in OptionSets.dpi : value = <<w, n>>
<1>1. ASSUME NEW field \in {"high_speed", "skip_blank"}, NEW value, Canonical(field, value)
      PROVE  value \in {<<"on">>, <<"off">>}
  BY <1>1 DEF Canonical, FromValue, BoolToken, OptionSets, FieldDefault
<1>2. ASSUME NEW value, Canonical("jpeg_quality", value)
      PROVE  Len(value) = 1 /\ value[1] \in DOMAIN Literal
  <2>1. JpegToken(value, <<"90">>) = value
    BY <1>2 DEF Canonical, FromValue, OptionSets, FieldDefault
  <2>2. CASE ~(Len(value) = 1 /\ value[1] \in DOMAIN Literal)
    <3>1. value = <<"90">>
      BY <2>1, <2>2 DEF JpegToken
    <3> QED BY <3>1, SpellingAssumption
  <2> QED BY <2>2
<1>3. ASSUME NEW value, Canonical("separation", value)
      PROVE  \/ value = <<"combine">>
             \/ \E w \in {"image", "page"}, n \in OptionSets.dpi : value = <<w, n>>
  <2>1. SeparationCodec(value) = value
    BY <1>3 DEF Canonical, FromValue, OptionSets
  <2>2. FieldDefault.separation = <<"combine">>
    BY DEF FieldDefault
  <2>3. CASE value \in {<<"combine">>, <<"off">>}
    BY <2>1, <2>3 DEF SeparationCodec
  <2>4. CASE /\ value \notin {<<"combine">>, <<"off">>}
             /\ Len(value) = 2 /\ value[1] \in {"image", "page", "every"} /\ value[2] \in OptionSets.dpi
    <3>1. value = <<IF value[1] = "page" THEN "page" ELSE "image", value[2]>>
      BY <2>1, <2>4 DEF SeparationCodec
    <3> QED BY <2>4, <3>1
  <2>5. CASE /\ value \notin {<<"combine">>, <<"off">>}
             /\ ~(Len(value) = 2 /\ value[1] \in {"image", "page", "every"} /\ value[2] \in OptionSets.dpi)
    BY <2>1, <2>2, <2>5 DEF SeparationCodec
  <2> QED BY <2>3, <2>4, <2>5
<1> QED BY <1>1, <1>2, <1>3

\* A value in the app's spelling is one the daemon reads, whatever it had before.
LEMMA ReadsCanonical ==
  /\ \A value, a, b : Canonical("mode", value) => Parsed(ModeWords, value, a) = Parsed(ModeWords, value, b)
  /\ \A value, a, b : Canonical("source", value) => Parsed(SourceWords, value, a) = Parsed(SourceWords, value, b)
  /\ \A value, a, b : Canonical("dpi", value) => Parsed(PositiveInt, value, a) = Parsed(PositiveInt, value, b)
  /\ \A value, a, b : Canonical("format", value) => Parsed(FormatWords, value, a) = Parsed(FormatWords, value, b)
  /\ \A value, a, b :
       Canonical("tiff_compression", value) => Parsed(TiffWords, value, a) = Parsed(TiffWords, value, b)
  /\ \A value, a, b :
       Canonical("ocr_format", value) => Parsed(OcrFormatWords, value, a) = Parsed(OcrFormatWords, value, b)
  /\ \A field \in {"high_speed", "skip_blank"} : \A value, a, b :
       Canonical(field, value) => Parsed(BoolWords, value, a) = Parsed(BoolWords, value, b)
  /\ \A value, a, b :
       Canonical("jpeg_quality", value) => Parsed(JpegQuality, value, a) = Parsed(JpegQuality, value, b)
  /\ \A value, a, b : Canonical("separation", value) => ParseSeparation(value, a) = ParseSeparation(value, b)
<1>0. ASSUME NEW words, NEW value, Len(value) = 1, value[1] \in DOMAIN words, NEW a, NEW b
      PROVE  Parsed(words, value, a) = Parsed(words, value, b)
  BY <1>0 DEF Parsed
<1>1. /\ DOMAIN ModeWords = OptionSets["mode"] /\ DOMAIN SourceWords = OptionSets["source"]
      /\ DOMAIN FormatWords = OptionSets["format"] /\ DOMAIN TiffWords = OptionSets["tiff_compression"]
      /\ DOMAIN OcrFormatWords = OptionSets["ocr_format"]
  BY DEF ModeWords, SourceWords, FormatWords, TiffWords, OcrFormatWords, OptionSets
<1>2. DOMAIN PositiveInt = OptionSets["dpi"]
  BY DEF PositiveInt, Restrict, OptionSets
<1>3. {"mode", "source", "dpi", "format", "tiff_compression", "ocr_format"} \subseteq DOMAIN OptionSets
  BY DEF OptionSets
<1>4. \A field \in DOMAIN OptionSets : \A value, words, a, b :
        DOMAIN words = OptionSets[field] /\ Canonical(field, value)
          => Parsed(words, value, a) = Parsed(words, value, b)
  BY <1>0, CanonicalOption
<1>5. ASSUME NEW field \in {"high_speed", "skip_blank"}, NEW value, NEW a, NEW b, Canonical(field, value)
      PROVE  Parsed(BoolWords, value, a) = Parsed(BoolWords, value, b)
  <2>1. value \in {<<"on">>, <<"off">>}
    BY <1>5, CanonicalOthers
  <2>2. Len(value) = 1 /\ value[1] \in {"on", "off"}
    BY <2>1
  <2>3. {"on", "off"} \subseteq DOMAIN BoolWords
    BY DEF BoolWords
  <2> QED BY <1>0, <2>2, <2>3
<1>6. ASSUME NEW value, NEW a, NEW b, Canonical("jpeg_quality", value)
      PROVE  Parsed(JpegQuality, value, a) = Parsed(JpegQuality, value, b)
  <2>1. Len(value) = 1 /\ value[1] \in DOMAIN JpegQuality
    BY <1>6, CanonicalOthers DEF JpegQuality
  <2> QED BY <1>0, <2>1
<1>7. ASSUME NEW value, NEW a, NEW b, Canonical("separation", value)
      PROVE  ParseSeparation(value, a) = ParseSeparation(value, b)
  <2>1. CASE value = <<"combine">>
    BY <2>1 DEF ParseSeparation
  <2>2. CASE \E w \in {"image", "page"}, n \in OptionSets.dpi : value = <<w, n>>
    <3>1. PICK w \in {"image", "page"}, n \in DOMAIN PositiveInt : value = <<w, n>>
      BY <1>2, <2>2
    <3>2. /\ Len(value) = 2 /\ value[1] \in DOMAIN SeparationWords /\ value[2] \in DOMAIN PositiveInt
          /\ value \notin {<<"combine">>, <<"off">>}
      BY <3>1 DEF SeparationWords
    <3> QED BY <3>2 DEF ParseSeparation
  <2> QED BY <1>7, <2>1, <2>2, CanonicalOthers
<1> QED BY <1>1, <1>2, <1>3, <1>4, <1>5, <1>6, <1>7

\* What a field sets to a value in the app's spelling does not depend on what was set before.
LEMMA FieldMeans ==
  ASSUME NEW s, ShapedSettings(s), NEW t, ShapedSettings(t), NEW field \in TabFields, NEW value,
         Canonical(field, value)
  PROVE  \A x \in SetBy[field] : ApplyField(s, field, value)[x] = ApplyField(t, field, value)[x]
<1>1. CASE field = "mode"
  BY <1>1, FieldIs, PutOne, ReadsCanonical DEF SetBy, SettingNames
<1>2. CASE field = "dpi"
  BY <1>2, FieldIs, PutOne, ReadsCanonical DEF SetBy, SettingNames
<1>3. CASE field = "format"
  BY <1>3, FieldIs, PutOne, ReadsCanonical DEF SetBy, SettingNames
<1>4. CASE field = "tiff_compression"
  BY <1>4, FieldIs, PutOne, ReadsCanonical DEF SetBy, SettingNames
<1>5. CASE field = "high_speed"
  BY <1>5, FieldIs, PutOne, ReadsCanonical DEF SetBy, SettingNames
<1>6. CASE field = "skip_blank"
  BY <1>6, FieldIs, PutOne, ReadsCanonical DEF SetBy, SettingNames
<1>7. CASE field = "jpeg_quality"
  BY <1>7, FieldIs, PutOne, ReadsCanonical DEF SetBy, SettingNames
<1>8. CASE field = "paper"
  BY <1>8, FieldIs, PutOne DEF SetBy, SettingNames
<1>9. CASE field = "source"
  BY <1>9, FieldIs, PutTwo, ReadsCanonical DEF SetBy, SettingNames
<1>10. CASE field = "separation"
  BY <1>10, FieldIs, PutTwo, ReadsCanonical DEF SetBy, SettingNames
<1> QED BY <1>1, <1>2, <1>3, <1>4, <1>5, <1>6, <1>7, <1>8, <1>9, <1>10 DEF TabFields

PutDest(c, f, s) == Put(c, "dest", Put(c["dest"], f, s))

\* Replacing a field of a configuration that belongs to no destination.
LEMMA PutTop ==
  ASSUME NEW c, Shaped(c), NEW x \in ConfigNames \ {"dest"}, NEW value
  PROVE  /\ Shaped(Put(c, x, value)) /\ Put(c, x, value)[x] = value
         /\ \A y \in ConfigNames \ {x} : Put(c, x, value)[y] = c[y]
<1> DEFINE new == Put(c, x, value)
<1>1. DOMAIN c = ConfigNames /\ "dest" \in ConfigNames
  BY DEF Shaped, ConfigNames
<1>2. /\ new = [y \in ConfigNames |-> new[y]] /\ new[x] = value
      /\ \A y \in ConfigNames \ {x} : new[y] = c[y]
  <2> HIDE DEF ConfigNames
  <2> QED BY <1>1 DEF Put
<1> HIDE DEF new
<1>3. new["dest"] = c["dest"]
  BY <1>1, <1>2
<1>4. Shaped(new)
  BY <1>2, <1>3 DEF Shaped
<1> QED BY <1>2, <1>4 DEF new

\* Replacing the settings of a destination.
LEMMA PutTab ==
  ASSUME NEW c, Shaped(c), NEW f \in Range(Funcs), NEW s, ShapedSettings(s)
  PROVE  /\ Shaped(PutDest(c, f, s)) /\ PutDest(c, f, s)["dest"][f] = s
         /\ \A other \in Range(Funcs) \ {f} : PutDest(c, f, s)["dest"][other] = c["dest"][other]
         /\ \A y \in ConfigNames \ {"dest"} : PutDest(c, f, s)[y] = c[y]
<1> DEFINE dest == Put(c["dest"], f, s)
           new == PutDest(c, f, s)
<1>1. DOMAIN c = ConfigNames /\ "dest" \in ConfigNames /\ DOMAIN c["dest"] = Range(Funcs)
  BY DEF Shaped, ConfigNames
<1>2. /\ dest = [y \in Range(Funcs) |-> dest[y]] /\ dest[f] = s
      /\ \A y \in Range(Funcs) \ {f} : dest[y] = c["dest"][y]
  BY <1>1 DEF Put
<1> HIDE DEF dest
<1>3. /\ new = [y \in ConfigNames |-> new[y]] /\ new["dest"] = dest
      /\ \A y \in ConfigNames \ {"dest"} : new[y] = c[y]
  <2> HIDE DEF ConfigNames
  <2>1. new = [c EXCEPT !["dest"] = dest]
    BY DEF PutDest, Put, dest
  <2> HIDE DEF new
  <2> QED BY <1>1, <2>1
<1> HIDE DEF new
<1>4. \A y \in Range(Funcs) : ShapedSettings(dest[y])
  BY <1>2 DEF Shaped
<1>5. Shaped(new)
  BY <1>2, <1>3, <1>4 DEF Shaped
<1> QED BY <1>2, <1>3, <1>5 DEF new

\* The destinations of the tabs.
LEMMA TabsAre ==
  /\ DOMAIN DestPrefix = Dests /\ \A dest \in Dests : DestPrefix[dest] \in Range(Funcs)
  /\ \A d, e \in Dests : DestPrefix[d] = DestPrefix[e] => d = e
<1>1. DOMAIN DestPrefix = Dests /\ \A dest \in Dests : DestPrefix[dest] \in {"FILE", "IMAGE", "OCR", "EMAIL"}
  BY DEF DestPrefix, Dests
<1>2. {"FILE", "IMAGE", "OCR", "EMAIL"} \subseteq Range(Funcs)
  BY DEF Funcs, Range
<1>3. \A d, e \in Dests : DestPrefix[d] = DestPrefix[e] => d = e
  BY DEF DestPrefix, Dests
<1> QED BY <1>1, <1>2, <1>3

\* What a general key puts into its field.
TopValue(field, value) == IF field = "save_dir" THEN ExpandHome(value) ELSE value

\* A general key replaces the field of its name.
LEMMA GeneralKey ==
  ASSUME NEW c, NEW value, NEW field \in GeneralFields
  PROVE  ApplyKey(c, <<"", field>>, value) = Put(c, field, TopValue(field, value))
<1>1. CASE field # "save_dir"
  <2>1. <<"", field>>[1] = "" /\ <<"", field>>[2] = field
        /\ field \in {"printer_host", "display_name", "image_app", "email_to"}
    BY <1>1 DEF GeneralFields
  <2>2. /\ <<"", field>> # <<"", "save_dir">> /\ <<"", field>> # <<"", "register_funcs">>
        /\ <<"", field>> # <<"ocr", "ocr_format">> /\ "" \notin DOMAIN DestPrefix
    BY <2>1, TabsAre DEF Dests
  <2> QED BY <1>1, <2>1, <2>2 DEF ApplyKey, Put, TopValue
<1>2. CASE field = "save_dir"
  BY <1>2, TabsAre DEF ApplyKey, Put, Dests, TopValue
<1> QED BY <1>1, <1>2

\* register_funcs is parsed against what stood before.
LEMMA RegisterKey ==
  ASSUME NEW c, NEW value
  PROVE  ApplyKey(c, <<"", "register_funcs">>, value)
           = Put(c, "register_funcs", ParseRegisterFuncs(value, c["register_funcs"]))
BY TabsAre DEF ApplyKey, Put, Dests

\* ocr_format belongs to no destination.
LEMMA OcrFormatKey ==
  ASSUME NEW c, NEW value
  PROVE  ApplyKey(c, OcrKey, value)
           = Put(c, "ocr_text_format", Parsed(OcrFormatWords, value, c["ocr_text_format"]))
BY TabsAre DEF ApplyKey, Put, Dests, OcrKey

\* Every other key of a tab replaces settings of its destination.
LEMMA TabKey ==
  ASSUME NEW c, NEW value, NEW dest \in Dests, NEW field, <<dest, field>> # OcrKey
  PROVE  ApplyKey(c, <<dest, field>>, value)
           = PutDest(c, DestPrefix[dest], ApplyField(c["dest"][DestPrefix[dest]], field, value))
<1>1. /\ <<dest, field>>[1] = dest /\ <<dest, field>>[2] = field /\ dest # "" /\ dest \in DOMAIN DestPrefix
      /\ <<dest, field>> # <<"", "save_dir">> /\ <<dest, field>> # <<"", "register_funcs">>
      /\ <<dest, field>> # <<"ocr", "ocr_format">>
  BY TabsAre DEF Dests, OcrKey
<1> QED BY <1>1 DEF ApplyKey, PutDest, Put

-----------------------------------------------------------------------------
(* What a configuration says of a key of the app.                           *)

Says(c, key) ==
  IF key[1] = "" THEN c[key[2]]
  ELSE IF key = OcrKey THEN c["ocr_text_format"]
  ELSE [x \in SetBy[key[2]] |-> c["dest"][DestPrefix[key[1]]][x]]

\* What a key does to a configuration: it replaces a field, or settings of a tab, or nothing.
LEMMA KeyChanges ==
  ASSUME NEW c, Shaped(c), NEW key, key = <<key[1], key[2]>>, NEW value
  PROVE  \/ \E field \in GeneralFields \cup {"register_funcs"} : \E x :
              key = <<"", field>> /\ ApplyKey(c, key, value) = Put(c, field, x)
         \/ \E x : key = OcrKey /\ ApplyKey(c, key, value) = Put(c, "ocr_text_format", x)
         \/ \E dest \in Dests : \E field, s :
              /\ key = <<dest, field>> /\ key # OcrKey
              /\ ApplyKey(c, key, value) = PutDest(c, DestPrefix[dest], s)
              /\ SameBut(c["dest"][DestPrefix[dest]], s, Sets(field))
         \/ ApplyKey(c, key, value) = c
<1>1. CASE key[1] = "" /\ key[2] \in GeneralFields
  <2>1. PICK field \in GeneralFields : key = <<"", field>>
    BY <1>1
  <2>2. ApplyKey(c, key, value) = Put(c, field, TopValue(field, value))
    BY <2>1, GeneralKey
  <2> QED BY <2>1, <2>2
<1>2. CASE key = <<"", "register_funcs">>
  <2>1. ApplyKey(c, key, value) = Put(c, "register_funcs", ParseRegisterFuncs(value, c["register_funcs"]))
    BY <1>2, RegisterKey
  <2> QED BY <1>2, <2>1
<1>3. CASE key = OcrKey
  <2>1. ApplyKey(c, key, value) = Put(c, "ocr_text_format", Parsed(OcrFormatWords, value, c["ocr_text_format"]))
    BY <1>3, OcrFormatKey
  <2> QED BY <1>3, <2>1
<1>4. CASE key # OcrKey /\ key[1] \in Dests
  <2>1. PICK dest \in Dests : key[1] = dest
    BY <1>4
  <2>0. PICK field : key = <<dest, field>>
    BY <2>1
  <2> DEFINE s == ApplyField(c["dest"][DestPrefix[dest]], field, value)
  <2>2. ShapedSettings(c["dest"][DestPrefix[dest]])
    BY TabsAre DEF Shaped
  <2>3. SameBut(c["dest"][DestPrefix[dest]], s, Sets(field))
    BY <2>2, FieldSets
  <2>4. ApplyKey(c, key, value) = PutDest(c, DestPrefix[dest], s)
    <3>1. <<dest, field>> # OcrKey
      BY <1>4, <2>0
    <3>2. ApplyKey(c, <<dest, field>>, value) = PutDest(c, DestPrefix[dest], s)
      BY <3>1, TabKey
    <3> QED BY <2>0, <3>2
  <2> HIDE DEF s
  <2> QED BY <1>4, <2>0, <2>3, <2>4
<1>5. CASE /\ key # OcrKey /\ key[1] \notin Dests /\ key # <<"", "register_funcs">>
           /\ ~(key[1] = "" /\ key[2] \in GeneralFields)
  <2>1. key # <<"", "save_dir">> /\ key # <<"ocr", "ocr_format">> /\ key[1] \notin DOMAIN DestPrefix
    <3>1. CASE key = <<"", "save_dir">>
      <4>1. key[1] = "" /\ key[2] = "save_dir"
        BY <3>1
      <4> QED BY <1>5, <4>1 DEF GeneralFields
    <3> QED BY <1>5, <3>1, TabsAre DEF OcrKey
  <2>2. ~(key[1] = "" /\ key[2] \in {"printer_host", "display_name", "image_app", "email_to"})
    BY <1>5 DEF GeneralFields
  <2>3. ApplyKey(c, key, value) = c
    BY <1>5, <2>1, <2>2 DEF ApplyKey
  <2> QED BY <2>3
<1> QED BY <1>1, <1>2, <1>3, <1>4, <1>5

\* A key leaves a configuration a configuration, and what it says of the app's other keys.
LEMMA OtherKeys ==
  ASSUME NEW c, Shaped(c), NEW other, other = <<other[1], other[2]>>, NEW value
  PROVE  /\ Shaped(ApplyKey(c, other, value))
         /\ \A key \in Owned : key # other => Says(ApplyKey(c, other, value), key) = Says(c, key)
<1> DEFINE new == ApplyKey(c, other, value)
           same(x) == \A key \in Owned : key # other => Says(x, key) = Says(c, key)
<1>0. GeneralFields \cup {"register_funcs", "ocr_text_format"} \subseteq ConfigNames \ {"dest"}
      /\ "ocr_text_format" \notin GeneralFields \cup {"register_funcs"}
      /\ "dest" \in ConfigNames /\ "" \notin Dests /\ OcrKey[1] = "ocr" /\ OcrKey[2] = "ocr_format"
      /\ "ocr" # "" /\ "ocr" \in Dests
  BY DEF GeneralFields, ConfigNames, Dests, OcrKey
<1>1. ASSUME NEW field \in GeneralFields \cup {"register_funcs"}, NEW x, other = <<"", field>>
      PROVE  Shaped(Put(c, field, x)) /\ same(Put(c, field, x))
  <2>0. field \in ConfigNames \ {"dest"} /\ field # "dest"
    BY <1>0
  <2>1. Shaped(Put(c, field, x)) /\ \A y \in ConfigNames \ {field} : Put(c, field, x)[y] = c[y]
    BY <2>0, PutTop
  <2>2. ASSUME NEW key \in Owned, key # other PROVE Says(Put(c, field, x), key) = Says(c, key)
    <3>1. CASE \E g \in GeneralFields : key = <<"", g>> /\ key[1] = "" /\ key[2] = g
      <4>1. PICK g \in GeneralFields : key = <<"", g>> /\ key[1] = "" /\ key[2] = g
        BY <3>1
      <4>2. g # field /\ key[1] = "" /\ key[2] = g /\ g \in ConfigNames \ {field}
        BY <1>0, <1>1, <2>2, <4>1
      <4> QED BY <2>1, <4>2 DEF Says
    <3>2. CASE key = OcrKey
      BY <1>0, <2>1, <3>2 DEF Says
    <3>3. CASE key[1] # "" /\ key # OcrKey
      <4>2. Put(c, field, x)["dest"] = c["dest"]
        BY <1>0, <2>0, <2>1
      <4> QED BY <3>3, <4>2 DEF Says
    <3> QED BY <3>1, <3>2, <3>3, KindsOfKeys
  <2> QED BY <2>1, <2>2
<1>2. ASSUME NEW x, other = OcrKey
      PROVE  Shaped(Put(c, "ocr_text_format", x)) /\ same(Put(c, "ocr_text_format", x))
  <2>1. /\ Shaped(Put(c, "ocr_text_format", x))
        /\ \A y \in ConfigNames \ {"ocr_text_format"} : Put(c, "ocr_text_format", x)[y] = c[y]
    <3>1. "ocr_text_format" \in ConfigNames \ {"dest"}
      BY <1>0
    <3> QED BY <3>1, PutTop
  <2>2. ASSUME NEW key \in Owned, key # other PROVE Says(Put(c, "ocr_text_format", x), key) = Says(c, key)
    <3>1. CASE \E g \in GeneralFields : key = <<"", g>> /\ key[1] = "" /\ key[2] = g
      <4>1. PICK g \in GeneralFields : key = <<"", g>> /\ key[1] = "" /\ key[2] = g
        BY <3>1
      <4>2. key[1] = "" /\ key[2] = g /\ g \in ConfigNames \ {"ocr_text_format"}
        BY <1>0, <4>1
      <4> QED BY <2>1, <4>2 DEF Says
    <3>2. CASE key[1] # "" /\ key # OcrKey
      <4>2. Put(c, "ocr_text_format", x)["dest"] = c["dest"]
        BY <1>0, <2>1
      <4> QED BY <3>2, <4>2 DEF Says
    <3> QED BY <1>2, <2>2, <3>1, <3>2, KindsOfKeys
  <2> QED BY <2>1, <2>2
<1>3. ASSUME NEW d \in Dests, NEW field, NEW s, other = <<d, field>>, other # OcrKey,
             SameBut(c["dest"][DestPrefix[d]], s, Sets(field))
      PROVE  Shaped(PutDest(c, DestPrefix[d], s)) /\ same(PutDest(c, DestPrefix[d], s))
  <2> DEFINE put == PutDest(c, DestPrefix[d], s)
  <2>1. /\ Shaped(put) /\ put["dest"][DestPrefix[d]] = s
        /\ \A f \in Range(Funcs) \ {DestPrefix[d]} : put["dest"][f] = c["dest"][f]
        /\ \A y \in ConfigNames \ {"dest"} : put[y] = c[y]
    BY <1>3, TabsAre, PutTab DEF SameBut
  <2> HIDE DEF put
  <2>2. ASSUME NEW key \in Owned, key # other PROVE Says(put, key) = Says(c, key)
    <3>1. CASE \E g \in GeneralFields : key = <<"", g>> /\ key[1] = "" /\ key[2] = g
      <4>1. PICK g \in GeneralFields : key = <<"", g>> /\ key[1] = "" /\ key[2] = g
        BY <3>1
      <4>2. key[1] = "" /\ key[2] = g /\ g \in ConfigNames \ {"dest"}
        BY <1>0, <4>1
      <4> QED BY <2>1, <4>2 DEF Says
    <3>2. CASE key = OcrKey
      BY <1>0, <2>1, <3>2 DEF Says
    <3>3. CASE \E e \in Dests, g \in TabFields : key = <<e, g>> /\ key[1] = e /\ key[2] = g /\ key[1] # "" /\ key # OcrKey
      <4>1. PICK e \in Dests, g \in TabFields : key = <<e, g>> /\ key[1] = e /\ key[2] = g /\ key[1] # "" /\ key # OcrKey
        BY <3>3
      <4>2. key[1] = e /\ key[2] = g /\ key[1] # ""
        BY <1>0, <4>1
      <4>3. ASSUME NEW x \in SetBy[g] PROVE put["dest"][DestPrefix[e]][x] = c["dest"][DestPrefix[e]][x]
        <5>1. CASE e = d
          <6>1. field # g
            BY <1>3, <2>2, <4>1, <5>1
          <6>2. x \notin Sets(field) /\ x \in SettingNames
            BY <6>1, SetsApart DEF Sets, SetBy, SettingNames, TabFields
          <6> QED BY <1>3, <2>1, <5>1, <6>2 DEF SameBut
        <5>2. CASE e # d
          BY <2>1, <5>2, TabsAre
        <5> QED BY <5>1, <5>2
      <4> QED BY <4>1, <4>2, <4>3 DEF Says
    <3> QED BY <3>1, <3>2, <3>3, KindsOfKeys
  <2> QED BY <2>1, <2>2 DEF put
<1>4. same(c)
  OBVIOUS
<1> HIDE DEF same
<1>5. Shaped(new) /\ same(new)
  <2>1. CASE \E field \in GeneralFields \cup {"register_funcs"} : \E x : other = <<"", field>> /\ new = Put(c, field, x)
    BY <1>1, <2>1
  <2>2. CASE \E x : other = OcrKey /\ new = Put(c, "ocr_text_format", x)
    BY <1>2, <2>2
  <2>3. CASE \E d \in Dests : \E field, s :
               /\ other = <<d, field>> /\ other # OcrKey /\ new = PutDest(c, DestPrefix[d], s)
               /\ SameBut(c["dest"][DestPrefix[d]], s, Sets(field))
    BY <1>3, <2>3
  <2>4. CASE new = c
    BY <1>4, <2>4
  <2> HIDE DEF new
  <2> QED BY <2>1, <2>2, <2>3, <2>4, KeyChanges DEF new
<1> QED BY <1>5 DEF same

\* What a key of the app says with a value in the app's spelling does not depend on what was
\* there before.
LEMMA KeyMeans ==
  ASSUME NEW c, Shaped(c), NEW e, Shaped(e), NEW key \in Owned, NEW value, Canonical(key[2], value)
  PROVE  Says(ApplyKey(c, key, value), key) = Says(ApplyKey(e, key, value), key)
<1>0. GeneralFields \cup {"ocr_text_format"} \subseteq ConfigNames \ {"dest"} /\ "" \notin Dests
  BY DEF GeneralFields, ConfigNames, Dests
<1>1. CASE \E field \in GeneralFields : key = <<"", field>> /\ key[1] = "" /\ key[2] = field
  <2>1. PICK field \in GeneralFields : key = <<"", field>> /\ key[1] = "" /\ key[2] = field
    BY <1>1
  <2> DEFINE x == TopValue(field, value)
  <2>2. ApplyKey(c, key, value) = Put(c, field, x) /\ ApplyKey(e, key, value) = Put(e, field, x)
    BY <2>1, GeneralKey
  <2> HIDE DEF x
  <2>3. Put(c, field, x)[field] = x /\ Put(e, field, x)[field] = x
    <3>1. field \in ConfigNames \ {"dest"}
      BY <1>0
    <3> QED BY <3>1, PutTop
  <2>4. key[1] = "" /\ key[2] = field
    BY <2>1
  <2> QED BY <2>2, <2>3, <2>4 DEF Says
<1>2. CASE key = OcrKey
  <2>1. key[1] # "" /\ Canonical("ocr_format", value)
    BY <1>2 DEF OcrKey
  <2> DEFINE x == Parsed(OcrFormatWords, value, c["ocr_text_format"])
  <2>2. ApplyKey(c, key, value) = Put(c, "ocr_text_format", x) /\ ApplyKey(e, key, value) = Put(e, "ocr_text_format", x)
    <3>1. x = Parsed(OcrFormatWords, value, e["ocr_text_format"])
      <4>1. \A w, a, b : Canonical("ocr_format", w) => Parsed(OcrFormatWords, w, a) = Parsed(OcrFormatWords, w, b)
        BY ReadsCanonical
      <4> QED BY <2>1, <4>1
    <3>2. ApplyKey(c, key, value) = Put(c, "ocr_text_format", x)
      BY <1>2, OcrFormatKey
    <3>3. ApplyKey(e, key, value) = Put(e, "ocr_text_format", Parsed(OcrFormatWords, value, e["ocr_text_format"]))
      BY <1>2, OcrFormatKey
    <3> QED BY <3>1, <3>2, <3>3
  <2> HIDE DEF x
  <2>3. Put(c, "ocr_text_format", x)["ocr_text_format"] = x /\ Put(e, "ocr_text_format", x)["ocr_text_format"] = x
    <3>1. "ocr_text_format" \in ConfigNames \ {"dest"}
      BY <1>0
    <3> QED BY <3>1, PutTop
  <2> QED BY <1>2, <2>1, <2>2, <2>3 DEF Says
<1>3. CASE \E dest \in Dests, field \in TabFields :
            key = <<dest, field>> /\ key[1] = dest /\ key[2] = field /\ key[1] # "" /\ key # OcrKey
  <2>1. PICK dest \in Dests, field \in TabFields :
               key = <<dest, field>> /\ key[1] = dest /\ key[2] = field /\ key[1] # "" /\ key # OcrKey
    BY <1>3
  <2> DEFINE f == DestPrefix[dest]
             s == ApplyField(c["dest"][f], field, value)
             t == ApplyField(e["dest"][f], field, value)
  <2>2. key[1] = dest /\ key[2] = field /\ key[1] # "" /\ f \in Range(Funcs)
    BY <1>0, <2>1, TabsAre
  <2>3. ShapedSettings(c["dest"][f]) /\ ShapedSettings(e["dest"][f])
    BY <2>2 DEF Shaped
  <2>4. ApplyKey(c, key, value) = PutDest(c, f, s) /\ ApplyKey(e, key, value) = PutDest(e, f, t)
    <3>1. <<dest, field>> # OcrKey
      BY <2>1
    <3>2. ApplyKey(c, <<dest, field>>, value) = PutDest(c, f, s)
      BY <3>1, TabKey
    <3>3. ApplyKey(e, <<dest, field>>, value) = PutDest(e, f, t)
      BY <3>1, TabKey
    <3> QED BY <2>1, <3>2, <3>3
  <2>5. \A x \in SetBy[field] : s[x] = t[x]
    <3>1. Canonical(field, value)
      BY <2>2
    <3> HIDE DEF f
    <3> QED BY <2>3, <3>1, FieldMeans
  <2>6. ShapedSettings(s) /\ ShapedSettings(t)
    BY <2>3, FieldSets DEF SameBut
  <2>7. ASSUME NEW d, Shaped(d), NEW r, ShapedSettings(r)
        PROVE  Says(PutDest(d, f, r), key) = [x \in SetBy[field] |-> r[x]]
    <3> DEFINE new == PutDest(d, DestPrefix[dest], r)
    <3>1. new["dest"][DestPrefix[dest]] = r
      BY <2>7, TabsAre, PutTab
    <3> HIDE DEF new
    <3>2. Says(new, key) = [x \in SetBy[field] |-> new["dest"][DestPrefix[dest]][x]]
      BY <2>1 DEF Says
    <3>3. Says(new, key) = [x \in SetBy[field] |-> r[x]]
      BY <3>1, <3>2
    <3> QED BY <3>3 DEF new
  <2> HIDE DEF f, s, t
  <2>8. /\ Says(ApplyKey(c, key, value), key) = [x \in SetBy[field] |-> s[x]]
        /\ Says(ApplyKey(e, key, value), key) = [x \in SetBy[field] |-> t[x]]
    BY <2>4, <2>6, <2>7
  <2> QED BY <2>5, <2>8
<1> QED BY <1>1, <1>2, <1>3, KindsOfKeys

-----------------------------------------------------------------------------
(* What the daemon makes of a file.                                         *)

ApplyLine(cfg, line) == IF line.key = NoKey THEN cfg ELSE ApplyKey(cfg, line.key, line.value)
ParseFold == INSTANCE FoldFacts WITH op <- ApplyLine, Good <- Shaped

\* The defaults are a configuration.
LEMMA DefaultIsShaped == Shaped(DefaultConfig)
<1>1. ShapedSettings(DefaultSettings)
  BY DEF ShapedSettings, DefaultSettings, SettingNames
<1>2. DefaultConfig = [x \in ConfigNames |-> DefaultConfig[x]]
  BY DEF DefaultConfig, ConfigNames
<1>3. DefaultConfig["dest"] = [f \in Range(Funcs) |-> DefaultSettings]
  BY DEF DefaultConfig
<1> QED BY <1>1, <1>2, <1>3 DEF Shaped

\* A line leaves a configuration a configuration; no line of a key of the app is skipped.
LEMMA LineIsShaped == \A c, line : Shaped(c) /\ Paired(line) => Shaped(ApplyLine(c, line))
BY OtherKeys DEF ApplyLine, Paired

\* The parts of a key.
LEMMA PairIs == \A a, b : <<a, b>>[1] = a /\ <<a, b>>[2] = b
OBVIOUS

\* A comment or a blank line is no line of a key of the app.
LEMMA NoKeyIsForeign == NoKey \notin Owned
<1> SUFFICES ASSUME NoKey \in Owned PROVE FALSE
  OBVIOUS
<1>1. NoKey[1] = "" /\ NoKey[2] = ""
  BY PairIs, Zenon DEF NoKey
<1>2. "" \notin GeneralFields /\ OcrKey[1] # ""
  BY DEF GeneralFields, OcrKey
<1>3. (\E field \in GeneralFields : NoKey[2] = field) \/ NoKey[1] # "" \/ NoKey = OcrKey
  BY KindsOfKeys, Zenon
<1> QED BY <1>1, <1>2, <1>3, Zenon

\* A file is read as a configuration.
LEMMA ParseIsShaped == \A lines : IsLines(lines) => Shaped(ParseConfig(lines))
<1> SUFFICES ASSUME NEW lines, IsLines(lines) PROVE Shaped(ParseConfig(lines))
  OBVIOUS
<1>1. ParseConfig(lines) = ParseFold!Folded(DefaultConfig, lines)
  BY DEF ParseConfig, ApplyLine, ParseFold!Folded, FoldLeft, MapThenFoldSet,
         ParseFold!FoldLeft, ParseFold!MapThenFoldSet, Max, ParseFold!Max
<1>2. lines \in Seq(Range(lines)) /\ \A line \in Range(lines) : \A c : Shaped(c) => Shaped(ApplyLine(c, line))
  BY LineIsShaped DEF IsLines
<1>3. Shaped(ParseFold!Folded(DefaultConfig, lines))
  BY <1>2, DefaultIsShaped, ParseFold!FoldKeeps
<1> QED BY <1>1, <1>3

\* What a configuration says of a key when a file has these values for it.
SaidOf(found, key, c) ==
  /\ found = <<>> => Says(c, key) = Says(DefaultConfig, key)
  /\ \A value : found = <<value>> /\ Canonical(key[2], value)
       => Says(c, key) = Says(ApplyKey(DefaultConfig, key, value), key)

\* What the daemon reads of a key of the app is what the last line of it says.
LEMMA LastLineCounts ==
  ASSUME NEW lines, IsLines(lines), NEW key \in Owned
  PROVE  SaidOf(Found(lines, key), key, ParseConfig(lines))
<1>1. lines \in Seq(Range(lines)) /\ Len(lines) \in Nat
  BY DEF IsLines
<1>2. ParseConfig(lines) = ParseFold!Folded(DefaultConfig, lines)
  BY DEF ParseConfig, ApplyLine, ParseFold!Folded, FoldLeft, MapThenFoldSet,
         ParseFold!FoldLeft, ParseFold!MapThenFoldSet, Max, ParseFold!Max
<1>3. PICK g : /\ g[0] = DefaultConfig /\ g[Len(lines)] = ParseConfig(lines)
               /\ \A k \in 1 .. Len(lines) : g[k] = ApplyLine(g[k - 1], lines[k])
  BY <1>1, <1>2, ParseFold!FoldSteps
<1> DEFINE begin(n) == SubSeq(lines, 1, n)
           read(n) == Shaped(g[n]) /\ SaidOf(Found(begin(n), key), key, g[n])
           N == {n \in Nat : n <= Len(lines) => read(n)}
<1>4. /\ begin(0) = <<>> /\ begin(Len(lines)) = lines
      /\ \A n \in Nat : n + 1 <= Len(lines) =>
           IsLines(begin(n)) /\ begin(n + 1) = Append(begin(n), lines[n + 1])
  BY Beginnings
<1> HIDE DEF begin
<1>5. 0 \in N
  <2>1. Found(begin(0), key) = <<>>
    BY <1>4, FoundNothing
  <2>2. \A value : <<>> # <<value>>
    OBVIOUS
  <2> QED BY <1>3, <2>1, <2>2, DefaultIsShaped DEF SaidOf
<1>6. ASSUME NEW n \in N PROVE n + 1 \in N
  <2>1. n \in Nat /\ n + 1 \in Nat /\ (n + 1) - 1 = n
    OBVIOUS
  <2>2. ASSUME n + 1 <= Len(lines) PROVE read(n + 1)
    <3>1. n + 1 \in 1 .. Len(lines) /\ read(n)
      BY <1>1, <2>1, <2>2
    <3>2. PICK line : line = lines[n + 1] /\ Paired(line)
      BY <1>1, <3>1 DEF IsLines, Range
    <3>3. g[n + 1] = ApplyLine(g[n], line)
      BY <1>3, <2>1, <3>1, <3>2, Zenon
    <3>4. Found(begin(n + 1), key) = IF line.key = key THEN <<line.value>> ELSE Found(begin(n), key)
      <4>1. ASSUME NEW b, IsLines(b), NEW any
            PROVE  Found(Append(b, any), key) = IF any.key = key THEN <<any.value>> ELSE Found(b, key)
        BY <4>1, FoundAppend
      <4>2. IsLines(begin(n)) /\ begin(n + 1) = Append(begin(n), line)
        BY <1>4, <2>1, <2>2, <3>2
      <4> QED BY <4>1, <4>2, Zenon
    <3>5. Shaped(g[n + 1])
      BY <3>1, <3>2, <3>3, LineIsShaped
    <3>6. CASE line.key = key
      <4>1. g[n + 1] = ApplyKey(g[n], key, line.value)
        BY <3>3, <3>6, NoKeyIsForeign DEF ApplyLine
      <4>2. Found(begin(n + 1), key) = <<line.value>>
        BY <3>4, <3>6
      <4>3. \A value : <<>> # <<value>> /\ (<<line.value>> = <<value>> => line.value = value)
        OBVIOUS
      <4>4. Canonical(key[2], line.value) => Says(g[n + 1], key) = Says(ApplyKey(DefaultConfig, key, line.value), key)
        BY <3>1, <4>1, KeyMeans, DefaultIsShaped
      <4>5. SaidOf(Found(begin(n + 1), key), key, g[n + 1])
        BY <4>2, <4>3, <4>4 DEF SaidOf
      <4> QED BY <3>5, <4>5
    <3>7. CASE line.key # key
      <4>1. Says(g[n + 1], key) = Says(g[n], key)
        <5>1. CASE line.key = NoKey
          BY <3>3, <5>1 DEF ApplyLine
        <5>2. CASE line.key # NoKey
          <6>1. g[n + 1] = ApplyKey(g[n], line.key, line.value)
            BY <3>3, <5>2 DEF ApplyLine
          <6>2. line.key = <<line.key[1], line.key[2]>>
            BY <3>2 DEF Paired
          <6>3. Says(ApplyKey(g[n], line.key, line.value), key) = Says(g[n], key)
            BY <3>1, <3>7, <6>2, OtherKeys
          <6> QED BY <6>1, <6>3
        <5> QED BY <5>1, <5>2
      <4>2. Found(begin(n + 1), key) = Found(begin(n), key)
        BY <3>4, <3>7
      <4>3. SaidOf(Found(begin(n + 1), key), key, g[n + 1])
        BY <3>1, <4>1, <4>2 DEF SaidOf
      <4> QED BY <3>5, <4>3
    <3> QED BY <3>6, <3>7
  <2> QED BY <2>1, <2>2
<1>7. N = Nat
  <2> HIDE DEF N
  <2>1. N \in SUBSET Nat
    BY DEF N
  <2> QED BY <1>5, <1>6, <2>1, ForeignFold!Induction
<1>8. Len(lines) \in N
  BY <1>1, <1>7
<1> QED BY <1>1, <1>3, <1>4, <1>8

\* What a value of a view says to the daemon.
SaidBy(v, key) ==
  IF key = NameKey /\ v[key] = <<>> THEN Says(DefaultConfig, key)
  ELSE Says(ApplyKey(DefaultConfig, key, v[key]), key)

\* What the daemon reads in a file that says what a view shows.
LEMMA ReadsWhatIsCarried ==
  ASSUME NEW v, TakenOver(v), NEW lines, IsLines(lines), Carries(v, lines), NEW key \in Owned
  PROVE  Says(ParseConfig(lines), key) = SaidBy(v, key)
<1>1. SaidOf(Wanted(v, key), key, ParseConfig(lines))
  BY LastLineCounts DEF Carries
<1>2. Canonical(key[2], v[key])
  BY DEF TakenOver
<1> QED BY <1>1, <1>2 DEF SaidOf, Wanted, SaidBy

-----------------------------------------------------------------------------
(* What the tabs show of a configuration.                                   *)

ShownSetting(c, f, x) ==
  CASE x = "level" -> 0
    [] f = "OCR" /\ x = "format" -> "kNative"
    [] f = "OCR" /\ x = "tiff" -> "kLzw"
    [] f = "OCR" /\ x = "jpeg_quality" -> 90
    [] OTHER -> c["dest"][f][x]
ShownField(c, x) ==
  CASE x = "register_funcs" -> <<>>
    [] x = "dest" -> [f \in Range(Funcs) |-> [y \in SettingNames |-> ShownSetting(c, f, y)]]
    [] OTHER -> c[x]

\* What the tabs show, field by field.
LEMMA ShownIs == \A c : Shaped(c) => Shown(c) = [x \in ConfigNames |-> ShownField(c, x)]
<1> SUFFICES ASSUME NEW c, Shaped(c) PROVE Shown(c) = [x \in ConfigNames |-> ShownField(c, x)]
  OBVIOUS
<1> DEFINE plain(s) == [s EXCEPT !.level = 0]
           ocr(s) == [s EXCEPT !.level = 0, !.format = "kNative", !.tiff = "kLzw", !.jpeg_quality = 90]
           dest == [f \in Range(Funcs) |-> IF f = "OCR" THEN ocr(c["dest"][f]) ELSE plain(c["dest"][f])]
<1>1. /\ DOMAIN c = ConfigNames /\ DOMAIN c["dest"] = Range(Funcs)
      /\ \A f \in Range(Funcs) : ShapedSettings(c["dest"][f])
  BY DEF Shaped
<1>2. ASSUME NEW s, ShapedSettings(s)
      PROVE  /\ plain(s) = [y \in SettingNames |-> IF y = "level" THEN 0 ELSE s[y]]
             /\ ocr(s) = [y \in SettingNames |->
                           CASE y = "level" -> 0 [] y = "format" -> "kNative" [] y = "tiff" -> "kLzw"
                             [] y = "jpeg_quality" -> 90 [] OTHER -> s[y]]
  <2>1. DOMAIN s = SettingNames
    BY <1>2 DEF ShapedSettings
  <2> QED BY <2>1
<1>3. Shown(c) = [c EXCEPT !.register_funcs = <<>>, !.dest = dest]
  BY <1>1 DEF Shown
<1> HIDE DEF plain, ocr
<1>4. dest = [f \in Range(Funcs) |-> [y \in SettingNames |-> ShownSetting(c, f, y)]]
  <2>1. ASSUME NEW f \in Range(Funcs)
        PROVE  (IF f = "OCR" THEN ocr(c["dest"][f]) ELSE plain(c["dest"][f]))
                 = [y \in SettingNames |-> ShownSetting(c, f, y)]
    BY <1>1, <1>2 DEF ShownSetting
  <2> QED BY <2>1
<1> HIDE DEF dest
<1>5. Shown(c) = [x \in ConfigNames |-> IF x = "register_funcs" THEN <<>> ELSE IF x = "dest" THEN dest ELSE c[x]]
  BY <1>1, <1>3 DEF ConfigNames
<1> QED BY <1>4, <1>5 DEF ShownField

\* Each setting but the level is set by a field of the tabs.
LEMMA SettingOfField == \A x \in SettingNames \ {"level"} : \E field \in TabFields : x \in SetBy[field]
<1>1. {"mode", "dpi", "source", "duplex", "format", "tiff", "separation", "separate_n", "paper",
       "high_speed", "skip_blank", "jpeg_quality"} \subseteq UNION {SetBy[field] : field \in TabFields}
  BY DEF SetBy, TabFields
<1>2. SettingNames \ {"level"} \subseteq UNION {SetBy[field] : field \in TabFields}
  BY <1>1 DEF SettingNames
<1> QED BY <1>2

\* What the tabs show is what the configuration says of their keys.
LEMMA ShownSays ==
  ASSUME NEW c, Shaped(c), NEW e, Shaped(e), \A key \in Owned \ Hidden : Says(c, key) = Says(e, key)
  PROVE  Shown(c) = Shown(e)
<1>1. ASSUME NEW field \in GeneralFields PROVE c[field] = e[field]
  <2> DEFINE key == <<"", field>>
  <2>1. key[1] = "" /\ key[2] = field
    BY PairIs, Zenon
  <2>2. key \in Owned \ Hidden
    <3>1. key \in General
      BY Zenon DEF General, NameKey, GeneralFields
    <3>2. key \in Owned
      BY <3>1, OwnedAre, Zenon
    <3>3. \A k \in Hidden : k[1] = "ocr"
      BY DEF Hidden
    <3> QED BY <2>1, <3>2, <3>3, Zenon
  <2> HIDE DEF key
  <2>3. Says(c, key) = c[field] /\ Says(e, key) = e[field]
    BY <2>1, Zenon DEF Says
  <2> QED BY <2>2, <2>3, Zenon
<1>2. c["ocr_text_format"] = e["ocr_text_format"]
  <2>1. OcrKey \in Owned \ Hidden
    BY OwnedAre DEF Hidden, OcrKey
  <2>2. OcrKey[1] # ""
    BY PairIs, Zenon DEF OcrKey
  <2>3. Says(c, OcrKey) = c["ocr_text_format"] /\ Says(e, OcrKey) = e["ocr_text_format"]
    BY <2>2, Zenon DEF Says
  <2> QED BY <2>1, <2>3
<1>3. ASSUME NEW f \in Range(Funcs), NEW x \in SettingNames PROVE ShownSetting(c, f, x) = ShownSetting(e, f, x)
  <2>1. CASE x = "level" \/ (f = "OCR" /\ x \in {"format", "tiff", "jpeg_quality"})
    BY <2>1 DEF ShownSetting
  <2>2. CASE ~(x = "level" \/ (f = "OCR" /\ x \in {"format", "tiff", "jpeg_quality"}))
    <3>1. PICK field \in TabFields : x \in SetBy[field]
      BY <2>2, SettingOfField
    <3>2. PICK d \in Dests : DestPrefix[d] = f
      BY DEF Dests, DestPrefix, Funcs, Range
    <3> DEFINE key == <<d, field>>
    <3>3. key \in Owned /\ key[1] = d /\ key[2] = field
      BY OwnedAre DEF TabKeys
    <3>4. key \notin Hidden
      <4>1. d = "ocr" => f = "OCR"
        BY <3>2 DEF DestPrefix
      <4>2. f = "OCR" => field \notin {"format", "tiff_compression", "jpeg_quality"}
        BY <2>2, <3>1 DEF SetBy
      <4>3. \A k \in Hidden : k[1] = "ocr" /\ k[2] \in {"format", "tiff_compression", "jpeg_quality"}
        BY DEF Hidden
      <4> HIDE DEF key
      <4> QED BY <3>3, <4>1, <4>2, <4>3
    <3>5. d # "" /\ key # OcrKey
      BY Zenon DEF Dests, TabFields, OcrKey
    <3> HIDE DEF key
    <3>6. /\ Says(c, key) = [y \in SetBy[field] |-> c["dest"][f][y]]
          /\ Says(e, key) = [y \in SetBy[field] |-> e["dest"][f][y]]
      BY <3>2, <3>3, <3>5, Zenon DEF Says
    <3>7. Says(c, key) = Says(e, key)
      BY <3>3, <3>4
    <3>8. c["dest"][f][x] = e["dest"][f][x]
      BY <3>1, <3>6, <3>7
    <3> QED BY <3>8 DEF ShownSetting
  <2> QED BY <2>1, <2>2
<1>4. ASSUME NEW x \in ConfigNames PROVE ShownField(c, x) = ShownField(e, x)
  <2>1. CASE x \in GeneralFields \cup {"ocr_text_format"}
    <3>1. x # "register_funcs" /\ x # "dest"
      BY <2>1 DEF GeneralFields
    <3> QED BY <1>1, <1>2, <2>1, <3>1 DEF ShownField
  <2>2. CASE x = "register_funcs"
    BY <2>2 DEF ShownField
  <2>3. CASE x = "dest"
    <3>1. [f \in Range(Funcs) |-> [y \in SettingNames |-> ShownSetting(c, f, y)]]
            = [f \in Range(Funcs) |-> [y \in SettingNames |-> ShownSetting(e, f, y)]]
      BY <1>3
    <3> QED BY <2>3, <3>1 DEF ShownField
  <2> QED BY <2>1, <2>2, <2>3 DEF ConfigNames, GeneralFields
<1> QED BY <1>4, ShownIs

-----------------------------------------------------------------------------
(* What the app, the file and the daemon agree on.                          *)

\* The views are in order, a save writes the one it took, and a file the app saved is what the
\* app takes it for.
SavedIsKnown ==
  /\ file.readable /\ GoodView(From(file.lines)) /\ Carries(From(file.lines), file.lines)
  /\ loadState # "notLoaded" /\ pc # "load" => SameTabs(From(file.lines), lastSaved)
Agreed ==
  /\ GoodView(view) /\ GoodView(lastSaved)
  /\ pc \in {"write", "rename"} => GoodView(job.config) /\ Carries(job.config, job.lines)
  /\ saved => SavedIsKnown

\* Initially.
LEMMA InitAgreed == Init => Agreed
BY DefaultIsGood, OcrIsGood DEF Init, Agreed

\* Every step keeps it.
LEMMA NextAgreed == TempIsWhole /\ Read /\ Agreed /\ [Next]_vars => Agreed'
<1> SUFFICES ASSUME TempIsWhole, Read, Agreed, [Next]_vars PROVE Agreed'
  OBVIOUS
<1> DEFINE same == UNCHANGED <<file, saved>>
           knows == (loadState' # "notLoaded" /\ pc' # "load") => /\ loadState # "notLoaded" /\ pc # "load"
                                                                 /\ UNCHANGED lastSaved
<1>0. ASSUME same, knows PROVE saved' => SavedIsKnown'
  <2>1. From(file'.lines) = From(file.lines) /\ file'.readable = file.readable
        /\ (Carries(From(file.lines), file.lines) => Carries(From(file'.lines), file'.lines))
    BY <1>0
  <2>2. CASE loadState' # "notLoaded" /\ pc' # "load"
    BY <1>0, <2>1, <2>2 DEF Agreed, SavedIsKnown
  <2>3. CASE ~(loadState' # "notLoaded" /\ pc' # "load")
    BY <1>0, <2>1, <2>3 DEF Agreed, SavedIsKnown
  <2> QED BY <2>2, <2>3
<1>1. ASSUME same, knows, UNCHANGED <<view, lastSaved>>,
             pc' \in {"write", "rename"} => pc \in {"write", "rename"} /\ UNCHANGED job
      PROVE  Agreed'
  <2>1. pc' \in {"write", "rename"} => GoodView(job'.config) /\ Carries(job'.config, job'.lines)
    BY <1>1 DEF Agreed
  <2>2. GoodView(view') /\ GoodView(lastSaved')
    BY <1>1 DEF Agreed
  <2> QED BY <1>0, <1>1, <2>1, <2>2 DEF Agreed
<1>2. CASE UNCHANGED vars
  BY <1>1, <1>2 DEF vars
<1>3. CASE Launch \/ Crash
  <2>1. /\ same /\ view' = OcrRoute(DefaultView) /\ lastSaved' = DefaultView
        /\ loadState' = "notLoaded" /\ pc' \in {"load", "closed"}
    BY <1>3 DEF Launch, Crash, Fresh, historyVars
  <2> QED BY <1>0, <2>1, DefaultIsGood, OcrIsGood DEF Agreed
<1>4. CASE Reload
  BY <1>1, <1>4 DEF Reload, appVars, historyVars
<1>5. CASE LoadMissing \/ LoadFails
  <2>1. ~file.readable
    BY <1>5 DEF LoadMissing, LoadFails, NoFile
  <2>2. ~saved
    BY <2>1 DEF Agreed, SavedIsKnown
  <2>3. UNCHANGED <<view, lastSaved, saved>> /\ pc' = "idle"
    BY <1>5 DEF LoadMissing, LoadFails, historyVars
  <2> QED BY <2>2, <2>3 DEF Agreed
<1>6. CASE Load
  <2>1. same /\ view' = ViewOf(file.lines) /\ lastSaved' = ViewOf(file.lines) /\ pc' = "idle"
    BY <1>6 DEF Load
  <2>2. GoodView(CoerceFormat(From(file.lines))) /\ GoodView(ViewOf(file.lines))
        /\ SameTabs(ViewOf(file.lines), CoerceFormat(From(file.lines)))
    BY FromIsTaken, CoerceIsGood, OcrIsGood DEF ViewOf
  <2>3. GoodView(From(file.lines)) => SameTabs(From(file.lines), ViewOf(file.lines))
    BY <2>2, CoerceKeepsGood DEF SameTabs
  <2>4. saved' => SavedIsKnown'
    <3>1. file' = file /\ saved' = saved
      BY <2>1
    <3> QED BY <2>1, <2>3, <3>1 DEF Agreed, SavedIsKnown
  <2> QED BY <2>1, <2>2, <2>4 DEF Agreed
<1>7. ASSUME NEW change \in Edits, Edit(change) PROVE Agreed'
  <2>1. /\ same /\ UNCHANGED <<pc, loadState, lastSaved, job>> /\ pc = "idle"
        /\ view' = OcrRoute(CoerceFormat([view EXCEPT ![change.key] = change.value]))
    BY <1>7 DEF Edit, historyVars
  <2>2. GoodView(view')
    BY <2>1, EditIsTaken, CoerceIsGood, OcrIsGood DEF Agreed
  <2>3. GoodView(lastSaved')
    BY <2>1 DEF Agreed
  <2> QED BY <1>0, <2>1, <2>2, <2>3 DEF Agreed
<1>8. CASE CreateStarter
  <2>1. /\ same /\ UNCHANGED <<view, lastSaved, loadState>> /\ pc = "idle"
        /\ job' = [lines |-> Apply(DefaultView, StarterHeader), config |-> DefaultView, starter |-> TRUE]
    BY <1>8 DEF CreateStarter, appVars, historyVars
  <2>2. GoodView(job'.config) /\ Carries(job'.config, job'.lines)
    BY <2>1, DefaultIsGood, StarterCarries
  <2>3. GoodView(view') /\ GoodView(lastSaved')
    BY <2>1 DEF Agreed
  <2> QED BY <1>0, <2>1, <2>2, <2>3 DEF Agreed
<1>9. CASE SaveRefused
  BY <1>1, <1>9 DEF SaveRefused, appVars, historyVars
<1>10. CASE Save
  <2>1. /\ same /\ UNCHANGED <<view, lastSaved, loadState>> /\ pc = "idle"
        /\ job' = [lines |-> Apply(view, document), config |-> view, starter |-> FALSE]
    BY <1>10 DEF Save, appVars, historyVars
  <2>2. GoodView(job'.config) /\ Carries(job'.config, job'.lines)
    BY <2>1, SaveCarries DEF Agreed, Read
  <2>3. GoodView(view') /\ GoodView(lastSaved')
    BY <2>1 DEF Agreed
  <2> QED BY <1>0, <2>1, <2>2, <2>3 DEF Agreed
<1>11. CASE WriteTemp
  BY <1>1, <1>11 DEF WriteTemp, appVars, historyVars
<1>12. CASE RenameFails
  BY <1>1, <1>12 DEF RenameFails, appVars, historyVars
<1>13. CASE Rename
  <2>1. /\ file'.lines = job.lines /\ file'.readable /\ pc' \in {"load", "idle"}
        /\ UNCHANGED view /\ GoodView(job.config) /\ Carries(job.config, job.lines)
    BY <1>13 DEF Rename, TempIsWhole, Whole, Agreed, appVars
  <2>2. From(job.lines) = job.config
    BY <2>1, ReadAsCarried DEF GoodView
  <2>3. CASE job.starter
    <3>1. pc' = "load" /\ UNCHANGED lastSaved
      BY <1>13, <2>3 DEF Rename, appVars
    <3>2. GoodView(view') /\ GoodView(lastSaved')
      BY <2>1, <3>1 DEF Agreed
    <3> QED BY <2>1, <2>2, <3>1, <3>2 DEF Agreed, SavedIsKnown
  <2>4. CASE ~job.starter
    <3>1. pc' = "idle" /\ lastSaved' = job.config
      BY <1>13, <2>4 DEF Rename
    <3>2. GoodView(view') /\ GoodView(lastSaved') /\ SameTabs(job.config, lastSaved')
      BY <2>1, <3>1 DEF Agreed, SameTabs
    <3> QED BY <2>1, <2>2, <3>1, <3>2 DEF Agreed, SavedIsKnown
  <2> QED BY <2>3, <2>4
<1>14. ASSUME NEW version \in Versions, EditorWrites(version) PROVE Agreed'
  <2>1. ~saved' /\ UNCHANGED <<view, lastSaved, pc, job>>
    BY <1>14 DEF EditorWrites, appVars
  <2>2. pc' \in {"write", "rename"} => GoodView(job'.config) /\ Carries(job'.config, job'.lines)
    BY <2>1 DEF Agreed
  <2>3. GoodView(view') /\ GoodView(lastSaved')
    BY <2>1 DEF Agreed
  <2> QED BY <2>1, <2>2, <2>3 DEF Agreed
<1> QED BY <1>2, <1>3, <1>4, <1>5, <1>6, <1>7, <1>8, <1>9, <1>10, <1>11, <1>12, <1>13, <1>14 DEF Next

\* What they agree on is what the daemon reads.
LEMMA AgreedIsRead == Read /\ Agreed => DaemonReadsWhatIsSaved
<1> SUFFICES ASSUME Read, Agreed, saved, loadState # "notLoaded", pc # "load"
             PROVE  Shown(ParseConfig(file.lines)) = Shown(ParseConfig(Apply(lastSaved, <<>>)))
  BY DEF DaemonReadsWhatIsSaved
<1> DEFINE v == From(file.lines)
           bare == Apply(lastSaved, <<>>)
<1>1. IsLines(file.lines) /\ TakenOver(v) /\ Carries(v, file.lines) /\ SameTabs(v, lastSaved)
  BY FromIsTaken DEF Read, Agreed, SavedIsKnown
<1>2. IsLines(bare) /\ TakenOver(lastSaved) /\ Carries(lastSaved, bare)
  BY SavedCarries DEF Agreed, GoodView
<1> HIDE DEF v, bare
<1>3. ASSUME NEW key \in Owned \ Hidden
      PROVE  Says(ParseConfig(file.lines), key) = Says(ParseConfig(bare), key)
  <2>1. Says(ParseConfig(file.lines), key) = SaidBy(v, key)
    BY <1>1, ReadsWhatIsCarried
  <2>2. Says(ParseConfig(bare), key) = SaidBy(lastSaved, key)
    BY <1>2, ReadsWhatIsCarried
  <2>3. v[key] = lastSaved[key]
    BY <1>1 DEF SameTabs
  <2> QED BY <2>1, <2>2, <2>3 DEF SaidBy
<1>4. Shaped(ParseConfig(file.lines)) /\ Shaped(ParseConfig(bare))
  BY <1>1, <1>2, ParseIsShaped
<1>5. Shown(ParseConfig(file.lines)) = Shown(ParseConfig(bare))
  BY <1>3, <1>4, ShownSays
<1> QED BY <1>5 DEF bare

\* A file the app saved says to the daemon what the app shows, and goes on to, after every save
\* and every load, whatever else stands in it and whatever became of other saves, of the app
\* and of the file in between (DaemonConfig.apply, ParseConfig).
THEOREM DaemonReadsTheSave == Spec => []DaemonReadsWhatIsSaved
<1>1. FileIsWhole /\ TempIsWhole /\ Read /\ Agreed /\ [Next]_vars => (FileIsWhole /\ TempIsWhole /\ Read /\ Agreed)'
  BY NextFile, NextRead, NextAgreed
<1> QED BY InitFile, InitRead, InitAgreed, <1>1, AgreedIsRead, PTL DEF Spec
=============================================================================
