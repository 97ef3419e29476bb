--------------------------- MODULE IcaScan_proofs ---------------------------
(***************************************************************************)
(* What the Image Capture module asks of the scanner and tells its host,   *)
(* for every selection a host can send, every number of pages, bands,      *)
(* connection attempts and requests: first the arithmetic of ScanTranslate,*)
(* then three invariants of IcaScan, of its settings, of its URLs and of   *)
(* how a scan ends.                                                        *)
(***************************************************************************)
EXTENDS IcaScan, FiniteSetTheorems, TLAPS

-----------------------------------------------------------------------------
(* ScanTranslate. *)

LEMMA LroundInt ==
    ASSUME NEW n \in Int, NEW d \in Nat \ {0} PROVE Lround(n, d) \in Int
<1>1. (2 * n + d) \div (2 * d) \in Int
  OBVIOUS
<1>2. (d - 2 * n) \div (2 * d) \in Int
  OBVIOUS
<1> QED BY <1>1, <1>2 DEF Lround

LEMMA PixelsInt ==
    ASSUME NEW value \in Int, NEW measure, NEW dpi \in Int
    PROVE  PixelsFromMeasure(value, measure, dpi) \in Int
<1>1. Lround(value * dpi, 100) \in Int /\ Lround(value * dpi, 254) \in Int /\ Lround(value, 100) \in Int
  BY LroundInt
<1> QED BY <1>1 DEF PixelsFromMeasure

\* A sensor is never narrower than nothing.
LEMMA SensorNat ==
    ASSUME NEW dpi \in Nat PROVE AdfSensorWidthAtDpi(dpi) \in Nat
<1>1. (2 * (3472 * dpi) + 300) \div (2 * 300) \in Nat
  OBVIOUS
<1> QED BY <1>1 DEF AdfSensorWidthAtDpi, Lround, kAdfSensorWidthAt300

\* Alignment takes less than one JPEG unit away and leaves something.
LEMMA AlignedInside ==
    ASSUME NEW width \in Nat \ {0}
    PROVE  AlignedWidth(width) \in 1 .. width /\ AlignedWidth(width) > width - 16
<1>1. width % 16 \in 0 .. 15
  OBVIOUS
<1> QED BY <1>1 DEF AlignedWidth

\* A centered window begins on the sensor; one that fits it ends on it, with margins that
\* differ by at most a pixel.
LEMMA CenteredOnSensor ==
    ASSUME NEW sensor \in Nat, NEW width \in Nat \ {0}
    PROVE  /\ CenteredAdfX0(sensor, width) \in Nat
           /\ width <= sensor =>
                LET x0 == CenteredAdfX0(sensor, width)
                    right == sensor - (x0 + width)
                IN  right >= 0 /\ right - x0 \in 0 .. 1
<1>1. CASE width >= sensor
  BY <1>1 DEF CenteredAdfX0
<1>2. CASE width < sensor
  <2>1. CenteredAdfX0(sensor, width) = (sensor - width) \div 2
    BY <1>2 DEF CenteredAdfX0
  <2>2. /\ (sensor - width) \div 2 \in Nat
        /\ (sensor - width) - 2 * ((sensor - width) \div 2) \in 0 .. 1
    BY <1>2
  <2> QED BY <2>1, <2>2
<1> QED BY <1>1, <1>2

LEMMA WindowNotEmpty ==
    ASSUME NEW area \in Areas, NEW dpi \in Nat, NEW feeder \in BOOLEAN
    PROVE  /\ Window(area, dpi, feeder) \in Areas
           /\ \/ Window(area, dpi, feeder) = NoArea
              \/ /\ Window(area, dpi, feeder).x0 < Window(area, dpi, feeder).x1
                 /\ Window(area, dpi, feeder).y0 < Window(area, dpi, feeder).y1
                 /\ feeder => Window(area, dpi, feeder).x0 >= 0
<1> DEFINE width == AlignedWidth(area.x1 - area.x0)
           x0 == IF feeder THEN CenteredAdfX0(AdfSensorWidthAtDpi(dpi), width) ELSE area.x0
<1>1. CASE area.x1 > area.x0 /\ area.y1 > area.y0
  <2>1. width \in Nat \ {0}
    BY <1>1, AlignedInside DEF Areas
  <2>2. x0 \in Int /\ (feeder => x0 >= 0)
    BY <2>1, SensorNat, CenteredOnSensor DEF Areas
  <2>3. Window(area, dpi, feeder) = [x0 |-> x0, y0 |-> area.y0, x1 |-> x0 + width, y1 |-> area.y1]
    BY <1>1 DEF Window
  <2> HIDE DEF width, x0
  <2> QED BY <1>1, <2>1, <2>2, <2>3 DEF Areas
<1>2. CASE ~(area.x1 > area.x0 /\ area.y1 > area.y0)
  BY <1>2 DEF Window, NoArea, Areas
<1> QED BY <1>1, <1>2

(* A request for the feeder is scanned on its sensor, in the middle: a      *)
(* window that is no wider than the sensor, at the resolution the host      *)
(* asked for, lies on it with margins that differ by at most a pixel        *)
(* (CenteredAdfX0 and AdfSensorWidthAtDpi in TranslateScanParams).          *)
THEOREM FeederWindowCentered ==
    ASSUME NEW area \in Areas, NEW dpi \in Nat, area.x0 < area.x1, area.y0 < area.y1,
           AlignedWidth(area.x1 - area.x0) <= AdfSensorWidthAtDpi(dpi)
    PROVE  LET left == Window(area, dpi, TRUE).x0
               right == AdfSensorWidthAtDpi(dpi) - Window(area, dpi, TRUE).x1
           IN  left >= 0 /\ right >= 0 /\ right - left \in 0 .. 1
<1> DEFINE width == AlignedWidth(area.x1 - area.x0)
           sensor == AdfSensorWidthAtDpi(dpi)
           x0 == CenteredAdfX0(sensor, width)
<1>1. width \in Nat \ {0} /\ sensor \in Nat
  BY AlignedInside, SensorNat DEF Areas
<1>2. x0 \in Nat /\ sensor - (x0 + width) >= 0 /\ (sensor - (x0 + width)) - x0 \in 0 .. 1
  BY <1>1, CenteredOnSensor
<1>3. Window(area, dpi, TRUE).x0 = x0 /\ Window(area, dpi, TRUE).x1 = x0 + width
  BY DEF Window, Areas
<1>4. x0 >= 0 /\ sensor - (x0 + width) >= 0 /\ (sensor - (x0 + width)) - x0 \in 0 .. 1
  BY <1>1, <1>2
<1> HIDE DEF width, x0
<1> QED BY <1>3, <1>4, Zenon

Selection(sel) ==
    DOMAIN sel \subseteq SelectionKeys /\ \A key \in DOMAIN sel : sel[key] \in Int

LEMMA RequestDpiPositive ==
    ASSUME NEW sel, Selection(sel) PROVE RequestDpi(sel) \in Nat \ {0}
BY DEF Selection, RequestDpi, kDefaultDpi

LEMMA RequestAreaInt ==
    ASSUME NEW sel, Selection(sel) PROVE RequestArea(sel) \in Areas
<1> DEFINE measure == IF "units" \in DOMAIN sel THEN sel["units"] ELSE kIcapUnitsPixels
           Pixels(key) == PixelsFromMeasure(sel[key], measure, RequestDpi(sel))
<1>1. NoArea \in Areas
  BY DEF NoArea, Areas
<1>2. ASSUME Rectangle \subseteq DOMAIN sel
      PROVE  \A key \in Rectangle : Pixels(key) \in Int
  <2> SUFFICES ASSUME NEW key \in Rectangle PROVE Pixels(key) \in Int
    OBVIOUS
  <2>1. sel[key] \in Int /\ RequestDpi(sel) \in Int
    BY <1>2, RequestDpiPositive DEF Selection
  <2> QED BY <2>1, PixelsInt
<1>3. ASSUME NEW x \in Int, NEW y \in Int, NEW w \in Int, NEW h \in Int
      PROVE  CornersFromUserScanArea(x, y, w, h) \in Areas
  BY <1>1 DEF CornersFromUserScanArea, Areas
<1>4. CASE Rectangle \subseteq DOMAIN sel
  <2> HIDE DEF Pixels
  <2>1. /\ Pixels("offset_x") \in Int /\ Pixels("offset_y") \in Int
        /\ Pixels("width") \in Int /\ Pixels("height") \in Int
    BY <1>2, <1>4 DEF Rectangle
  <2>2. CornersFromUserScanArea(Pixels("offset_x"), Pixels("offset_y"),
                                Pixels("width"), Pixels("height")) \in Areas
    BY <2>1, <1>3
  <2> QED BY <2>2, <1>1 DEF RequestArea, Pixels, Units
<1>5. CASE ~(Rectangle \subseteq DOMAIN sel)
  BY <1>1, <1>5 DEF RequestArea
<1> QED BY <1>4, <1>5

(* Whatever the host selects, and whatever unit was selected before, the    *)
(* parameters are well formed: duplex only on the feeder, a resolution the  *)
(* unit has, and no window that is empty or begins left of the sensor; and  *)
(* they are for the unit of FunctionalUnit's precedence                     *)
(* (ScanRequestFromIcap, TranslateScanParams).                              *)
THEOREM SelectionWellFormed ==
    ASSUME NEW sel, Selection(sel), NEW tracked
    PROVE  /\ TranslateScanParams(sel, tracked) \in ScanParams
           /\ WellFormed(TranslateScanParams(sel, tracked))
           /\ TranslateScanParams(sel, tracked).source = SourceOf(FunctionalUnit(sel, tracked))
<1> DEFINE source == SourceOf(FunctionalUnit(sel, tracked))
           dpi == ClampTo(RequestDpi(sel), 1, MaxDpi(source))
           area == Window(RequestArea(sel), RequestDpi(sel), source = "kAdf")
           duplex == source = "kAdf" /\ Duplex(sel)
<1>1. source \in {"kFlatbed", "kAdf"}
  BY DEF SourceOf
<1>2. dpi \in 1 .. MaxDpi(source) /\ dpi \in Int
  BY <1>1, RequestDpiPositive DEF ClampTo, MaxDpi, kMaxFeederDpi, kMaxFlatbedDpi
<1>3. /\ area \in Areas
      /\ area = NoArea \/ (area.x0 < area.x1 /\ area.y0 < area.y1 /\ (source = "kAdf" => area.x0 >= 0))
  BY <1>1, RequestDpiPositive, RequestAreaInt, WindowNotEmpty
<1>4. duplex \in BOOLEAN /\ (duplex => source = "kAdf")
  BY DEF Duplex
<1>5. ModeOf(sel) \in {"kColor", "kTrueGray", "kBlackWhite"}
  BY DEF ModeOf
<1>6. TranslateScanParams(sel, tracked) =
        [mode |-> ModeOf(sel), dpi |-> dpi, source |-> source, duplex |-> duplex, area |-> area]
  BY DEF TranslateScanParams
<1> HIDE DEF source, dpi, area, duplex
<1>7. SourceOf(FunctionalUnit(sel, tracked)) = source
  BY DEF source
<1> QED BY <1>1, <1>2, <1>3, <1>4, <1>5, <1>6, <1>7 DEF ScanParams, WellFormed

\* Two measures rounded each by itself exceed the whole by less than a pixel and a half, so by
\* one; one alone rounds to no more than the whole does.
LEMMA RoundedInside ==
    ASSUME NEW m \in Nat, NEW n \in Nat, NEW whole \in Nat, NEW q \in {100, 254},
           300 * (m + n) <= q * whole
    PROVE  /\ Lround(m, q) \in Nat /\ Lround(n, q) \in Nat /\ Lround(whole, 300) \in Nat
           /\ 300 * (Lround(m, q) + Lround(n, q) - 1) <= whole
           /\ Lround(n, q) <= Lround(whole, 300)
<1>1. /\ Lround(m, q) = (2 * m + q) \div (2 * q) /\ Lround(n, q) = (2 * n + q) \div (2 * q)
      /\ Lround(whole, 300) = (2 * whole + 300) \div (2 * 300)
  BY DEF Lround
<1>2. CASE q = 100
  BY <1>1, <1>2
<1>3. CASE q = 254
  BY <1>1, <1>3
<1> QED BY <1>2, <1>3

\* What fits in so many pixels of the reference resolution ends, in pixels of the request's, at
\* most one beyond them.
LEMMA EdgeInside ==
    ASSUME NEW offset \in Int, NEW extent \in Int, NEW pixels \in Nat, NEW dpi \in Nat \ {0},
           NEW units \in Convertible, FitsIn(offset, extent, pixels, PerInch(units, dpi))
    PROVE  /\ PixelsFromMeasure(offset, units, dpi) \in Nat
           /\ PixelsFromMeasure(extent, units, dpi) \in Nat
           /\ 300 * (PixelsFromMeasure(offset, units, dpi) + PixelsFromMeasure(extent, units, dpi) - 1)
                <= pixels * dpi
           /\ PixelsFromMeasure(extent, units, dpi) <= Lround(pixels * dpi, 300)
<1> USE DEF kIcapUnitsInches, kIcapUnitsCentimeters, kIcapUnitsPixels
<1> DEFINE whole == pixels * dpi
           m == offset * dpi
           n == extent * dpi
<1>1. /\ offset \in Nat /\ extent \in Nat
      /\ (offset + extent) * 300 <= pixels * PerInch(units, dpi)
  BY DEF FitsIn, kReferenceDpi
<1>2. whole \in Nat /\ m \in Nat /\ n \in Nat
  BY <1>1
<1>3. ASSUME NEW q \in {100, 254}, (offset + extent) * 300 <= pixels * q
      PROVE  300 * (m + n) <= q * whole
  <2>1. ((offset + extent) * 300) * dpi <= (pixels * q) * dpi
    BY <1>1, <1>3
  <2>2. ((offset + extent) * 300) * dpi = 300 * (m + n)
    BY <1>1
  <2>3. (pixels * q) * dpi = q * whole
    OBVIOUS
  <2> QED BY <2>1, <2>2, <2>3
<1>4. CASE units = kIcapUnitsInches
  <2>1. PerInch(units, dpi) = 100
    BY <1>4 DEF PerInch
  <2>2. 300 * (m + n) <= 100 * whole
    BY <1>1, <1>3, <2>1
  <2>3. /\ PixelsFromMeasure(offset, units, dpi) = Lround(m, 100)
        /\ PixelsFromMeasure(extent, units, dpi) = Lround(n, 100)
    BY <1>4 DEF PixelsFromMeasure
  <2>4. Lround(pixels * dpi, 300) = Lround(whole, 300) /\ pixels * dpi = whole
    OBVIOUS
  <2> HIDE DEF whole, m, n
  <2> QED BY <1>2, <2>2, <2>3, <2>4, RoundedInside
<1>5. CASE units = kIcapUnitsCentimeters
  <2>1. PerInch(units, dpi) = 254
    BY <1>5 DEF PerInch
  <2>2. 300 * (m + n) <= 254 * whole
    BY <1>1, <1>3, <2>1
  <2>3. /\ PixelsFromMeasure(offset, units, dpi) = Lround(m, 254)
        /\ PixelsFromMeasure(extent, units, dpi) = Lround(n, 254)
    BY <1>5 DEF PixelsFromMeasure
  <2>4. Lround(pixels * dpi, 300) = Lround(whole, 300) /\ pixels * dpi = whole
    OBVIOUS
  <2> HIDE DEF whole, m, n
  <2> QED BY <1>2, <2>2, <2>3, <2>4, RoundedInside
<1>6. CASE units = kIcapUnitsPixels
  <2>1. PerInch(units, dpi) = 100 * dpi
    BY <1>6 DEF PerInch
  <2>2. pixels * (100 * dpi) = 100 * whole
    OBVIOUS
  <2>3. 300 * (offset + extent) <= 100 * whole
    BY <1>1, <2>1, <2>2
  <2>4. /\ PixelsFromMeasure(offset, units, dpi) = Lround(offset, 100)
        /\ PixelsFromMeasure(extent, units, dpi) = Lround(extent, 100)
    BY <1>6 DEF PixelsFromMeasure
  <2>5. Lround(pixels * dpi, 300) = Lround(whole, 300) /\ pixels * dpi = whole
    OBVIOUS
  <2> HIDE DEF whole
  <2> QED BY <1>1, <1>2, <2>3, <2>4, <2>5, RoundedInside
<1> QED BY <1>4, <1>5, <1>6 DEF Convertible

\* The rectangle of a request that keeps to what was offered, in its own pixels.
Within(area, dpi) ==
    /\ area.x0 >= 0 /\ area.y0 >= 0
    /\ area.x1 - area.x0 <= AdfSensorWidthAtDpi(dpi)
    /\ 300 * (area.x1 - 1) <= 3472 * dpi
    /\ 300 * (area.y1 - 1) <= 5053 * dpi

LEMMA NothingWithin == ASSUME NEW dpi \in Nat PROVE Within(NoArea, dpi)
BY SensorNat DEF Within, NoArea

LEMMA OfferedArea ==
    ASSUME NEW sel, Selection(sel), NEW source, Offered(sel, source)
    PROVE  Within(RequestArea(sel), RequestDpi(sel))
<1> DEFINE dpi == RequestDpi(sel)
           Pixels(key) == PixelsFromMeasure(sel[key], Units(sel), dpi)
<1>1. dpi \in Nat \ {0}
  BY RequestDpiPositive
<1>2. CASE ~(Rectangle \subseteq DOMAIN sel /\ Units(sel) \in Convertible)
  <2>1. RequestArea(sel) = NoArea
    BY <1>2 DEF RequestArea
  <2> QED BY <1>1, <2>1, NothingWithin
<1>3. CASE Rectangle \subseteq DOMAIN sel /\ Units(sel) \in Convertible
  <2>1. /\ sel["offset_x"] \in Int /\ sel["offset_y"] \in Int
        /\ sel["width"] \in Int /\ sel["height"] \in Int
    BY <1>3 DEF Selection, Rectangle
  <2>2. /\ FitsIn(sel["offset_x"], sel["width"], 3472, PerInch(Units(sel), dpi))
        /\ FitsIn(sel["offset_y"], sel["height"], 5053, PerInch(Units(sel), dpi))
    BY <1>3 DEF Offered, kPhysicalWidth, kPhysicalHeight
  <2>3. /\ Pixels("offset_x") \in Nat /\ Pixels("width") \in Nat
        /\ 300 * (Pixels("offset_x") + Pixels("width") - 1) <= 3472 * dpi
        /\ Pixels("width") <= Lround(3472 * dpi, 300)
    <3> HIDE DEF dpi
    <3> QED BY <1>1, <1>3, <2>1, <2>2, EdgeInside
  <2>4. /\ Pixels("offset_y") \in Nat /\ Pixels("height") \in Nat
        /\ 300 * (Pixels("offset_y") + Pixels("height") - 1) <= 5053 * dpi
    <3> HIDE DEF dpi
    <3> QED BY <1>1, <1>3, <2>1, <2>2, EdgeInside
  <2>5. RequestArea(sel) = CornersFromUserScanArea(Pixels("offset_x"), Pixels("offset_y"),
                                                   Pixels("width"), Pixels("height"))
    BY <1>3 DEF RequestArea
  <2> HIDE DEF Pixels, dpi
  <2>6. ASSUME NEW x \in Nat, NEW y \in Nat, NEW w \in Nat, NEW h \in Nat,
               300 * (x + w - 1) <= 3472 * dpi, 300 * (y + h - 1) <= 5053 * dpi,
               w <= Lround(3472 * dpi, 300)
        PROVE  Within(CornersFromUserScanArea(x, y, w, h), dpi)
    <3>1. CASE w <= 0 \/ h <= 0
      BY <1>1, <3>1, NothingWithin DEF CornersFromUserScanArea
    <3>2. CASE w > 0 /\ h > 0
      <4>1. CornersFromUserScanArea(x, y, w, h) = [x0 |-> x, y0 |-> y, x1 |-> x + w, y1 |-> y + h]
        BY <3>2 DEF CornersFromUserScanArea
      <4>2. w <= AdfSensorWidthAtDpi(dpi)
        BY <2>6 DEF AdfSensorWidthAtDpi, kAdfSensorWidthAt300
      <4> QED BY <2>6, <4>1, <4>2 DEF Within
    <3> QED BY <3>1, <3>2
  <2>7. Within(RequestArea(sel), dpi)
    BY <2>3, <2>4, <2>5, <2>6
  <2> QED BY <2>7 DEF dpi
<1> QED BY <1>2, <1>3

\* Framing keeps such a rectangle on the unit: the glass's loses what is not a whole JPEG unit,
\* the feeder's is centered on a sensor that is wide enough for it.
LEMMA WindowWithin ==
    ASSUME NEW area \in Areas, NEW dpi \in Nat \ {0}, NEW feeder \in BOOLEAN, Within(area, dpi)
    PROVE  /\ Within(Window(area, dpi, feeder), dpi)
           /\ feeder => Window(area, dpi, feeder).x1 <= AdfSensorWidthAtDpi(dpi)
<1> DEFINE sensor == AdfSensorWidthAtDpi(dpi)
           width == AlignedWidth(area.x1 - area.x0)
           x0 == IF feeder THEN CenteredAdfX0(sensor, width) ELSE area.x0
<1>1. sensor \in Nat /\ 300 * (sensor - 1) <= 3472 * dpi
  <2>1. sensor = (2 * (3472 * dpi) + 300) \div (2 * 300)
    BY DEF AdfSensorWidthAtDpi, Lround, kAdfSensorWidthAt300
  <2> HIDE DEF sensor
  <2> QED BY <2>1
<1>2. CASE ~(area.x1 > area.x0 /\ area.y1 > area.y0)
  <2>1. Window(area, dpi, feeder) = NoArea /\ NoArea.x1 = 0
    BY <1>2 DEF Window, NoArea
  <2>2. 0 <= sensor
    BY <1>1
  <2> QED BY <2>1, <2>2, NothingWithin
<1>3. CASE area.x1 > area.x0 /\ area.y1 > area.y0
  <2>1. width \in 1 .. area.x1 - area.x0 /\ width \in Nat \ {0}
    BY <1>3, AlignedInside DEF Areas
  <2>2. width <= sensor
    <3>1. area.x1 - area.x0 <= sensor /\ area.x1 - area.x0 \in Int
      BY DEF Within, Areas
    <3> HIDE DEF width, sensor
    <3> QED BY <1>1, <2>1, <3>1
  <2>3. Window(area, dpi, feeder) = [x0 |-> x0, y0 |-> area.y0, x1 |-> x0 + width, y1 |-> area.y1]
    BY <1>3 DEF Window
  <2>4. CASE feeder
    <3>1. x0 \in Nat /\ sensor - (x0 + width) >= 0
      <4>1. x0 = CenteredAdfX0(sensor, width)
        BY <2>4
      <4> HIDE DEF sensor, width, x0
      <4> QED BY <1>1, <2>1, <2>2, <4>1, CenteredOnSensor
    <3> HIDE DEF sensor, width, x0
    <3>2. 300 * (x0 + width - 1) <= 3472 * dpi /\ x0 + width <= sensor
      BY <1>1, <2>1, <3>1
    <3> QED BY <2>1, <2>2, <2>3, <3>1, <3>2 DEF Within, sensor
  <2>5. CASE ~feeder
    <3>1. x0 = area.x0
      BY <2>5
    <3> HIDE DEF sensor, width, x0
    <3>2. 300 * (x0 + width - 1) <= 300 * (area.x1 - 1)
      BY <2>1, <3>1 DEF Areas
    <3> QED BY <2>1, <2>2, <2>3, <2>5, <3>1, <3>2 DEF Within, Areas, sensor
  <2> QED BY <2>4, <2>5
<1> QED BY <1>2, <1>3

(* A host that keeps to what GetParameters advertised of the unit, its      *)
(* resolutions and its extent in inches, centimeters or pixels, gets a      *)
(* window that lies on that unit: on the feeder's sensor to the pixel, on   *)
(* the glass up to the one pixel that rounding offset and extent apart can  *)
(* add (PixelsFromMeasure, CornersFromUserScanArea, TranslateScanParams).   *)
THEOREM OfferedWindowOnUnit ==
    ASSUME NEW sel, Selection(sel), NEW tracked,
           Offered(sel, TranslateScanParams(sel, tracked).source)
    PROVE  OnUnit(TranslateScanParams(sel, tracked))
<1> DEFINE source == SourceOf(FunctionalUnit(sel, tracked))
           dpi == RequestDpi(sel)
           area == Window(RequestArea(sel), dpi, source = "kAdf")
<1>1. /\ TranslateScanParams(sel, tracked).source = source
      /\ TranslateScanParams(sel, tracked).area = area
      /\ TranslateScanParams(sel, tracked).dpi = ClampTo(dpi, 1, MaxDpi(source))
  BY DEF TranslateScanParams
<1>2. dpi \in Nat \ {0} /\ RequestArea(sel) \in Areas
  BY RequestDpiPositive, RequestAreaInt
<1>3. ClampTo(dpi, 1, MaxDpi(source)) = dpi
  <2>1. dpi <= MaxDpi(source) /\ MaxDpi(source) \in Nat
    BY <1>1 DEF Offered, MaxDpi, kMaxFeederDpi, kMaxFlatbedDpi
  <2> HIDE DEF dpi, source
  <2> QED BY <1>2, <2>1 DEF ClampTo
<1>4. /\ Within(area, dpi)
      /\ source = "kAdf" => area.x1 <= AdfSensorWidthAtDpi(dpi)
  <2>1. Within(RequestArea(sel), dpi)
    BY <1>1, OfferedArea
  <2> HIDE DEF dpi, source
  <2> QED BY <1>2, <2>1, WindowWithin
<1> HIDE DEF source, dpi, area
<1> QED BY <1>1, <1>3, <1>4 DEF OnUnit, Within, kReferenceDpi, kPhysicalWidth, kPhysicalHeight

-----------------------------------------------------------------------------
(* IcaScan. *)

Settings == [params : ScanParams, transfer : [file : BOOLEAN, folder : BOOLEAN, scoped : BOOLEAN]]

\* What is staged is what the host asked for, of a unit it may want: the one the context
\* tracks is.  A running scan took what was staged, and the host asks nothing while it runs.
Matches(settings) ==
    /\ \E wanted \in selected : settings.params.source = SourceOf(wanted)
    /\ WellFormed(settings.params)
    /\ Offered(asked, settings.params.source) => OnUnit(settings.params)

StagedIsSelected ==
    /\ staged \in Settings /\ job \in Settings
    /\ unit \in selected
    /\ Matches(staged)
    /\ ScansSelectedUnit

LEMMA DefaultsWellFormed ==
    /\ NoJob \in Settings /\ NoJob.params.source = SourceOf(0)
    /\ WellFormed(NoJob.params) /\ OnUnit(NoJob.params)
<1>1. NoJob \in Settings /\ NoJob.params.source = SourceOf(0) /\ WellFormed(NoJob.params)
  BY DEF NoJob, Settings, DefaultParams, NoTransfer, ScanParams, Areas, NoArea, WellFormed, SourceOf,
         kFeederFunctionalUnit, kDefaultDpi, MaxDpi, kMaxFlatbedDpi
<1>2. OnUnit(NoJob.params)
  BY DEF NoJob, DefaultParams, NoArea, OnUnit, kDefaultDpi, kReferenceDpi, kPhysicalWidth,
         kPhysicalHeight
<1> QED BY <1>1, <1>2

LEMMA DefaultsMatch == staged = NoJob /\ selected = {0} => Matches(staged)
BY DefaultsWellFormed DEF Matches

LEMMA Initially == Init => StagedIsSelected
BY DefaultsWellFormed, DefaultsMatch DEF Init, StagedIsSelected, ScansSelectedUnit

LEMMA OpenKeeps == StagedIsSelected /\ OpenTCPIPDevice => StagedIsSelected'
<1> SUFFICES ASSUME StagedIsSelected, OpenTCPIPDevice PROVE StagedIsSelected'
  OBVIOUS
<1>1. staged' = NoJob /\ selected' = {0} /\ unit' = 0 /\ pc' = "idle" /\ job' = job
  BY DEF OpenTCPIPDevice
<1>2. Matches(staged)'
  BY <1>1, DefaultsWellFormed DEF Matches
<1> QED BY <1>1, <1>2, DefaultsWellFormed DEF StagedIsSelected, ScansSelectedUnit

LEMMA CloseKeeps == StagedIsSelected /\ CloseDevice => StagedIsSelected'
BY DEF StagedIsSelected, Matches, CloseDevice, ScansSelectedUnit, hostVars

\* The unit a request names is the one the context tracks from then on, and what the host
\* wants; a request that names none is translated with the tracked one, which the host may
\* want still.
LEMMA SetParametersKeeps == StagedIsSelected /\ SetParameters => StagedIsSelected'
<1> SUFFICES ASSUME StagedIsSelected, SetParameters PROVE StagedIsSelected'
  OBVIOUS
<1>1. PICK sel \in Selections, transfer \in Transfers :
        /\ staged' = [params |-> TranslateScanParams(sel, unit), transfer |-> transfer]
        /\ unit' = IF NamesUnit(sel) THEN FunctionalUnit(sel, unit) ELSE unit
        /\ asked' = sel /\ selected' = WantedUnits(sel, selected)
  BY DEF SetParameters
<1>2. Selection(sel)
  BY IcaAssumption DEF Selection
<1>3. FunctionalUnit(sel, unit) \in selected' /\ unit' \in selected'
  BY <1>1 DEF StagedIsSelected, FunctionalUnit, NamesUnit, WantedUnits, On
<1>4. /\ TranslateScanParams(sel, unit) \in ScanParams
      /\ WellFormed(TranslateScanParams(sel, unit))
      /\ TranslateScanParams(sel, unit).source = SourceOf(FunctionalUnit(sel, unit))
  BY <1>2, SelectionWellFormed
<1>5. transfer \in [file : BOOLEAN, folder : BOOLEAN, scoped : BOOLEAN]
  <2>1. CASE transfer = NoTransfer
    BY <2>1 DEF NoTransfer
  <2>2. CASE transfer \in [file : {TRUE}, folder : BOOLEAN, scoped : BOOLEAN]
    BY <2>2
  <2> QED BY <2>1, <2>2 DEF Transfers
<1>6. staged'.params = TranslateScanParams(sel, unit) /\ staged' \in Settings
  BY <1>1, <1>4, <1>5 DEF Settings
<1>7. Matches(staged)'
  <2>1. Offered(sel, TranslateScanParams(sel, unit).source) => OnUnit(TranslateScanParams(sel, unit))
    BY <1>2, OfferedWindowOnUnit
  <2> QED BY <1>1, <1>3, <1>4, <1>6, <2>1 DEF Matches
<1>8. pc' = "idle" /\ job' \in Settings
  BY DEF SetParameters, StagedIsSelected
<1> QED BY <1>3, <1>6, <1>7, <1>8 DEF StagedIsSelected, ScansSelectedUnit

LEMMA StartKeeps == StagedIsSelected /\ Start => StagedIsSelected'
<1> SUFFICES ASSUME StagedIsSelected, Start PROVE StagedIsSelected'
  OBVIOUS
<1>1. staged' = [staged EXCEPT !.transfer.scoped = FALSE] /\ job' = staged
  BY DEF Start, StagedAfterStart
<1>2. staged'.params = staged.params /\ staged' \in Settings
  BY <1>1 DEF StagedIsSelected, Settings
<1>3. UNCHANGED hostVars /\ UNCHANGED unit /\ Matches(staged)
  BY DEF Start, StagedIsSelected
<1>4. Matches(staged)' /\ Matches(job)'
  BY <1>1, <1>2, <1>3 DEF Matches, hostVars
<1>5. job' \in Settings
  BY <1>1 DEF StagedIsSelected
<1> QED BY <1>2, <1>3, <1>4, <1>5 DEF StagedIsSelected, ScansSelectedUnit, Matches, hostVars

\* In a scan only its end touches the settings, and of them only the URL.
LEMMA ScanKeeps == StagedIsSelected /\ Scan => StagedIsSelected'
<1> SUFFICES ASSUME StagedIsSelected, Scan PROVE StagedIsSelected'
  OBVIOUS
<1>1. UNCHANGED <<staged, unit, asked, selected>> /\ pc # "idle"
  BY DEF Scan, hostVars, Connect, OnBand, RunScanReturns, Conclude, SkipPage, PostFilePage,
         FilesDone, AntiHangGuard, Finish
<1>2. job' = job \/ job' = [job EXCEPT !.transfer.scoped = FALSE]
  BY DEF Scan, Connect, OnBand, RunScanReturns, Conclude, SkipPage, PostFilePage,
         FilesDone, AntiHangGuard, Finish
<1>3. job'.params = job.params /\ job' \in Settings
  <2>1. job \in Settings
    BY DEF StagedIsSelected
  <2>2. CASE job' = job
    BY <2>1, <2>2
  <2>3. CASE job' = [job EXCEPT !.transfer.scoped = FALSE]
    BY <2>1, <2>3 DEF Settings
  <2> QED BY <1>2, <2>2, <2>3
<1>4. Matches(staged)'
  BY <1>1 DEF StagedIsSelected, Matches
<1> QED BY <1>1, <1>3, <1>4 DEF StagedIsSelected, ScansSelectedUnit

LEMMA StepKeeps == StagedIsSelected /\ [Next]_vars => StagedIsSelected'
<1>1. ASSUME StagedIsSelected, UNCHANGED vars PROVE StagedIsSelected'
  BY <1>1 DEF StagedIsSelected, Matches, ScansSelectedUnit, vars, contextVars, hostVars
<1> QED BY <1>1, OpenKeeps, CloseKeeps, SetParametersKeeps, StartKeeps, ScanKeeps DEF Next, Host

LEMMA StagedAlways == Spec => []StagedIsSelected
BY Initially, StepKeeps, PTL DEF Spec

(* Every scan runs on the unit the host last chose, unless all it said      *)
(* since is that the feeder is off: then on that unit or on the glass.  Its *)
(* parameters are well formed, and if the request kept to what was offered, *)
(* its window is on that unit: across requests that name no unit, changes   *)
(* of unit with nothing else, a Start without a new request, and a close    *)
(* and open between them (SetParameters, Start).                            *)
THEOREM ScansWhatWasSelected == Spec => []ScansSelectedUnit
<1>1. StagedIsSelected => ScansSelectedUnit
  BY DEF StagedIsSelected
<1> QED BY StagedAlways, <1>1, PTL

-----------------------------------------------------------------------------
(* The security-scoped URLs. *)

\* Between scans the last scan's URL has been released.
URLsAreOwned ==
    /\ staged \in Settings /\ job \in Settings /\ retained \in Int
    /\ URLHasOneOwner
    /\ pc = "idle" => job.transfer.scoped = FALSE

LEMMA ReleasesBit ==
    ASSUME NEW s \in Settings PROVE Releases(s.transfer) \in {0, 1}
BY DEF Releases

LEMMA DropScoped ==
    ASSUME NEW s \in Settings
    PROVE  LET dropped == [s EXCEPT !.transfer.scoped = FALSE]
           IN  /\ dropped \in Settings
               /\ dropped.transfer.scoped = FALSE
               /\ Releases(dropped.transfer) = 0
BY DEF Settings, Releases

LEMMA URLInitially == Init => URLsAreOwned
<1>1. Releases(NoJob.transfer) = 0 /\ NoJob.transfer.scoped = FALSE
  BY DEF NoJob, NoTransfer, Releases
<1> QED BY <1>1, DefaultsWellFormed DEF Init, URLsAreOwned, URLHasOneOwner

LEMMA URLOpenClose == URLsAreOwned /\ (OpenTCPIPDevice \/ CloseDevice) => URLsAreOwned'
<1> SUFFICES ASSUME URLsAreOwned, OpenTCPIPDevice \/ CloseDevice PROVE URLsAreOwned'
  OBVIOUS
<1>1. Releases(NoJob.transfer) = 0 /\ NoJob \in Settings
  BY DefaultsWellFormed DEF NoJob, NoTransfer, Releases
<1>2. Releases(staged.transfer) \in {0, 1} /\ Releases(job.transfer) \in {0, 1}
  BY ReleasesBit DEF URLsAreOwned
<1>3. CASE OpenTCPIPDevice
  BY <1>1, <1>2, <1>3 DEF URLsAreOwned, URLHasOneOwner, OpenTCPIPDevice
<1>4. CASE CloseDevice
  BY <1>2, <1>4 DEF URLsAreOwned, URLHasOneOwner, CloseDevice
<1> QED BY <1>3, <1>4

\* A request releases the URL it replaces.
LEMMA URLSetParameters == URLsAreOwned /\ SetParameters => URLsAreOwned'
<1> SUFFICES ASSUME URLsAreOwned, SetParameters PROVE URLsAreOwned'
  OBVIOUS
<1>1. PICK sel \in Selections, transfer \in Transfers :
        /\ staged' = [params |-> TranslateScanParams(sel, unit), transfer |-> transfer]
        /\ retained' = retained - Releases(staged.transfer) + Releases(transfer)
  BY DEF SetParameters
<1>2. Selection(sel)
  BY IcaAssumption DEF Selection
<1>3. TranslateScanParams(sel, unit) \in ScanParams
  BY <1>2, SelectionWellFormed
<1>4. transfer \in [file : BOOLEAN, folder : BOOLEAN, scoped : BOOLEAN]
  <2>1. CASE transfer = NoTransfer
    BY <2>1 DEF NoTransfer
  <2>2. CASE transfer \in [file : {TRUE}, folder : BOOLEAN, scoped : BOOLEAN]
    BY <2>2
  <2> QED BY <2>1, <2>2 DEF Transfers
<1>5. staged' \in Settings /\ staged'.transfer = transfer
  BY <1>1, <1>3, <1>4 DEF Settings
<1>6. /\ Releases(staged.transfer) \in {0, 1} /\ Releases(job.transfer) \in {0, 1}
      /\ Releases(transfer) \in {0, 1}
  BY <1>5, ReleasesBit DEF URLsAreOwned, Releases
<1>7. UNCHANGED <<device, job, pc>> /\ device = "open"
  BY DEF SetParameters
<1> QED BY <1>1, <1>5, <1>6, <1>7 DEF URLsAreOwned, URLHasOneOwner

\* The URL of the context becomes the scan's.
LEMMA URLStart == URLsAreOwned /\ Start => URLsAreOwned'
<1> SUFFICES ASSUME URLsAreOwned, Start PROVE URLsAreOwned'
  OBVIOUS
<1>1. /\ staged' = [staged EXCEPT !.transfer.scoped = FALSE] /\ job' = staged
      /\ UNCHANGED <<device, retained>> /\ device = "open" /\ pc = "idle" /\ pc' = "connect"
  BY DEF Start, StagedAfterStart
<1>2. Releases(job.transfer) = 0
  BY <1>1 DEF URLsAreOwned, Releases
<1>3. staged' \in Settings /\ Releases(staged'.transfer) = 0
  BY <1>1, DropScoped DEF URLsAreOwned
<1>4. Releases(staged.transfer) \in {0, 1}
  BY ReleasesBit DEF URLsAreOwned
<1> QED BY <1>1, <1>2, <1>3, <1>4 DEF URLsAreOwned, URLHasOneOwner

LEMMA URLScan == URLsAreOwned /\ Scan => URLsAreOwned'
<1> SUFFICES ASSUME URLsAreOwned, Scan PROVE URLsAreOwned'
  OBVIOUS
<1>1. Releases(staged.transfer) \in {0, 1} /\ Releases(job.transfer) \in {0, 1}
  BY ReleasesBit DEF URLsAreOwned
<1>2. UNCHANGED <<device, staged>>
  BY DEF Scan
<1>3. CASE Finish
  <2>1. /\ job' = [job EXCEPT !.transfer.scoped = FALSE]
        /\ retained' = retained - Releases(job.transfer)
    BY <1>3 DEF Finish
  <2>2. /\ job' \in Settings /\ job'.transfer.scoped = FALSE
        /\ Releases(job'.transfer) = 0
    BY <2>1, DropScoped DEF URLsAreOwned
  <2> QED BY <1>1, <1>2, <2>1, <2>2 DEF URLsAreOwned, URLHasOneOwner
<1>4. CASE ~Finish
  <2>1. UNCHANGED <<retained, job>> /\ pc' # "idle"
    BY <1>4 DEF Scan, Connect, OnBand, RunScanReturns, Conclude, SkipPage, PostFilePage,
                FilesDone, AntiHangGuard
  <2> QED BY <1>2, <2>1 DEF URLsAreOwned, URLHasOneOwner
<1> QED BY <1>3, <1>4

LEMMA OwnedAlways == Spec => []URLsAreOwned
<1>1. URLsAreOwned /\ UNCHANGED vars => URLsAreOwned'
  BY DEF URLsAreOwned, URLHasOneOwner, vars, contextVars
<1>2. URLsAreOwned /\ [Next]_vars => URLsAreOwned'
  BY <1>1, URLOpenClose, URLSetParameters, URLStart, URLScan DEF Next, Host
<1> QED BY URLInitially, <1>2, PTL DEF Spec

(* Every retain of a security-scoped URL has one owner at every moment:     *)
(* requests that replace each other, scans that end in every way and a      *)
(* close neither leak a URL nor release one twice (ReleaseScopedURL, Start, *)
(* CloseDevice).                                                            *)
THEOREM URLsReleasedOnce == Spec => []URLHasOneOwner
<1>1. URLsAreOwned => URLHasOneOwner
  BY DEF URLsAreOwned
<1> QED BY OwnedAlways, <1>1, PTL

-----------------------------------------------------------------------------
(* What is posted, counted. *)

Kinds == {"Alert", "PageDone", "PageDonePath", "TransactionCanceled", "ScanDone", "ScanDoneError"}

LEMMA CountType ==
    ASSUME NEW s \in Seq(Kinds), NEW kind
    PROVE  Count(s, kind) \in Nat /\ IsFiniteSet({i \in DOMAIN s : s[i] = kind})
<1>1. IsFiniteSet(1 .. Len(s)) /\ {i \in DOMAIN s : s[i] = kind} \in SUBSET (1 .. Len(s))
  <2>1. Len(s) \in Int /\ DOMAIN s = 1 .. Len(s)
    OBVIOUS
  <2> QED BY <2>1, FS_Interval
<1>2. IsFiniteSet({i \in DOMAIN s : s[i] = kind})
  BY <1>1, FS_Subset
<1> QED BY <1>2, FS_CardinalityType DEF Count

LEMMA CountEmpty == \A kind : Count(<<>>, kind) = 0
<1>1. \A kind : {i \in DOMAIN <<>> : <<>>[i] = kind} = {}
  OBVIOUS
<1> QED BY <1>1, FS_EmptySet DEF Count

LEMMA CountAppend ==
    ASSUME NEW s \in Seq(Kinds), NEW note \in Kinds, NEW kind
    PROVE  Count(Append(s, note), kind) = IF note = kind THEN Count(s, kind) + 1 ELSE Count(s, kind)
<1> DEFINE t == Append(s, note)
           before == {i \in DOMAIN s : s[i] = kind}
           after == {i \in DOMAIN t : t[i] = kind}
<1>1. /\ Len(s) \in Nat /\ DOMAIN s = 1 .. Len(s) /\ DOMAIN t = 1 .. Len(s) + 1
      /\ t[Len(s) + 1] = note /\ \A i \in 1 .. Len(s) : t[i] = s[i]
  OBVIOUS
<1>2. IsFiniteSet(before)
  BY CountType
<1> HIDE DEF t
<1>3. CASE note = kind
  <2>1. after = before \cup {Len(s) + 1} /\ Len(s) + 1 \notin before
    BY <1>1, <1>3
  <2> HIDE DEF before, after
  <2>2. Cardinality(after) = Cardinality(before) + 1
    BY <1>2, <2>1, FS_AddElement
  <2> QED BY <1>3, <2>2 DEF Count, before, after, t
<1>4. CASE note # kind
  <2>1. after = before
    BY <1>1, <1>4
  <2> QED BY <1>4, <2>1 DEF Count, t
<1> QED BY <1>3, <1>4

LEMMA KindsPosted ==
    /\ {"Alert", "PageDone", "PageDonePath", "TransactionCanceled", "ScanDone", "ScanDoneError"}
          \subseteq Kinds
    /\ \A s \in Seq(Kinds), note \in Kinds : Append(s, note) \in Seq(Kinds)
    /\ <<>> \in Seq(Kinds)
BY DEF Kinds

\* A notification is the last of those posted and counts as one of its kind.
LEMMA Posted ==
    ASSUME notes \in Seq(Kinds), NEW note \in Kinds, Post(note)
    PROVE  /\ notes' \in Seq(Kinds) /\ Len(notes) \in Nat /\ Len(notes') = Len(notes) + 1
           /\ notes'[Len(notes')] = note /\ notes' # <<>>
           /\ \A i \in DOMAIN notes : notes'[i] = notes[i]
           /\ \A kind \in Kinds : Count(notes, kind) \in Nat
           /\ Count(notes', note) = Count(notes, note) + 1
           /\ \A kind \in Kinds \ {note} : Count(notes', kind) = Count(notes, kind)
<1>1. notes' = Append(notes, note)
  BY DEF Post
<1>2. /\ notes' \in Seq(Kinds) /\ Len(notes) \in Nat /\ Len(notes') = Len(notes) + 1
      /\ notes'[Len(notes')] = note /\ notes' # <<>>
      /\ \A i \in DOMAIN notes : notes'[i] = notes[i]
  BY <1>1
<1>3. \A kind \in Kinds : Count(notes, kind) \in Nat
  BY CountType
<1>4. \A kind \in Kinds :
        Count(notes', kind) = IF note = kind THEN Count(notes, kind) + 1 ELSE Count(notes, kind)
  BY <1>1, CountAppend
<1> QED BY <1>2, <1>3, <1>4

LEMMA PagesCounted ==
    ASSUME MaxPages \in Nat
    PROVE  Cardinality(Completed) \in 0 .. MaxPages
<1>1. IsFiniteSet(PageIds) /\ Cardinality(PageIds) = MaxPages
  BY FS_Interval DEF PageIds
<1>2. Completed \in SUBSET PageIds
  BY DEF Completed
<1>3. IsFiniteSet(Completed) /\ Cardinality(Completed) <= MaxPages
  BY <1>1, <1>2, FS_Subset
<1>4. Cardinality(Completed) \in Nat
  BY <1>3, FS_CardinalityType
<1> QED BY <1>3, <1>4

-----------------------------------------------------------------------------
(* Types. *)

ScanTyping ==
    /\ requests \in 0 .. MaxRequests
    /\ device \in {"closed", "open"} /\ selected \subseteq Int
    /\ asked \in Selections \cup {NoSelection}
    /\ pc \in {"idle", "connect", "scan", "outcome", "file", "guard", "finish"}
    /\ attempt \in 0 .. ConnectAttempts /\ (pc = "connect" => attempt < ConnectAttempts)
    /\ bands \in [PageIds -> 0 .. Bands] /\ current \in PageIds \cup {0}
    /\ canceled \in BOOLEAN /\ sendFailed \in BOOLEAN
    /\ finalErr \in {"noErr", "internal", "didNotComplete"}
    /\ status \in {"running", "ok", "cancelled", "noPaper", "paperJam", "timeout", "io",
                   "protocol", "busy"}
    /\ pages \in 0 .. MaxPages /\ idx \in 1 .. MaxPages + 1 /\ files \subseteq PageIds
    /\ notes \in Seq(Kinds)

LEMMA Ranges ==
    /\ 0 \in 0 .. MaxRequests /\ 0 \in 0 .. MaxPages /\ 1 \in 1 .. MaxPages + 1
    /\ 0 \in 0 .. ConnectAttempts /\ 0 < ConnectAttempts
    /\ [p \in PageIds |-> 0] \in [PageIds -> 0 .. Bands]
<1>1. 0 \in 0 .. Bands
  BY IcaAssumption
<1>2. /\ 0 \in 0 .. MaxRequests /\ 0 \in 0 .. MaxPages /\ 1 \in 1 .. MaxPages + 1
      /\ 0 \in 0 .. ConnectAttempts /\ 0 < ConnectAttempts
  BY IcaAssumption
<1> QED BY <1>1, <1>2

LEMMA TypingInit == Init => ScanTyping
<1> SUFFICES ASSUME Init PROVE ScanTyping
  OBVIOUS
<1>1. bands \in [PageIds -> 0 .. Bands] /\ pages \in 0 .. MaxPages /\ idx \in 1 .. MaxPages + 1
  BY Ranges DEF Init
<1>2. requests \in 0 .. MaxRequests /\ attempt \in 0 .. ConnectAttempts
  BY Ranges DEF Init
<1>3. notes \in Seq(Kinds)
  BY DEF Init
<1>4. /\ device = "closed" /\ selected = {0} /\ asked = NoSelection /\ pc = "idle" /\ current = 0
      /\ canceled = FALSE /\ sendFailed = FALSE /\ finalErr = "noErr" /\ status = "running"
      /\ files = {}
  BY DEF Init
<1>5. /\ device \in {"closed", "open"} /\ selected \subseteq Int
      /\ asked \in Selections \cup {NoSelection}
      /\ pc \in {"idle", "connect", "scan", "outcome", "file", "guard", "finish"}
      /\ pc = "connect" => attempt < ConnectAttempts
  BY <1>4
<1>6. current \in PageIds \cup {0} /\ canceled \in BOOLEAN /\ sendFailed \in BOOLEAN
  BY <1>4
<1>7. /\ finalErr \in {"noErr", "internal", "didNotComplete"}
      /\ status \in {"running", "ok", "cancelled", "noPaper", "paperJam", "timeout", "io",
                     "protocol", "busy"}
      /\ files \subseteq PageIds
  BY <1>4
<1> QED BY <1>1, <1>2, <1>3, <1>5, <1>6, <1>7 DEF ScanTyping

LEMMA TypingHost == ScanTyping /\ Host => ScanTyping'
<1> SUFFICES ASSUME ScanTyping, Host PROVE ScanTyping'
  OBVIOUS
<1>1. CASE OpenTCPIPDevice
  <2>1. asked' \in Selections \cup {NoSelection} /\ selected' \subseteq Int
    BY <1>1 DEF OpenTCPIPDevice
  <2>2. /\ device' \in {"closed", "open"}
        /\ UNCHANGED <<requests, pc, attempt, scanVars, finalErr, idx, notes, files>>
    BY <1>1 DEF OpenTCPIPDevice
  <2> QED BY <2>1, <2>2 DEF ScanTyping, scanVars
<1>2. CASE SetParameters
  <2>1. asked' \in Selections \cup {NoSelection} /\ selected' \subseteq Int
    <3>1. PICK sel \in Selections : asked' = sel /\ selected' = WantedUnits(sel, selected)
      BY <1>2 DEF SetParameters
    <3>2. "functional_unit" \in DOMAIN sel => sel["functional_unit"] \in Int
      BY IcaAssumption
    <3>3. selected \subseteq Int /\ selected \cup {0} \subseteq Int
      BY DEF ScanTyping
    <3>4. CASE "functional_unit" \in DOMAIN sel
      <4>1. WantedUnits(sel, selected) = {sel["functional_unit"]}
        BY <3>4 DEF WantedUnits
      <4> QED BY <3>1, <3>2, <3>4, <4>1
    <3>5. CASE "functional_unit" \notin DOMAIN sel
      <4>1. WantedUnits(sel, selected) \in {selected, selected \cup {0}, {kFeederFunctionalUnit}}
        BY <3>5 DEF WantedUnits
      <4>2. {kFeederFunctionalUnit} \subseteq Int
        BY DEF kFeederFunctionalUnit
      <4> QED BY <3>1, <3>3, <4>1, <4>2
    <3> QED BY <3>4, <3>5
  <2>2. requests' \in 0 .. MaxRequests
    BY <1>2, IcaAssumption DEF SetParameters, ScanTyping
  <2>3. UNCHANGED <<device, pc, attempt, scanVars, finalErr, idx, notes, files>>
    BY <1>2 DEF SetParameters
  <2> QED BY <2>1, <2>2, <2>3 DEF ScanTyping, scanVars
<1>3. CASE Start
  BY <1>3, Ranges, KindsPosted DEF ScanTyping, Start, hostVars
<1>4. CASE CloseDevice
  BY <1>4 DEF ScanTyping, CloseDevice, hostVars, scanVars
<1> QED BY <1>1, <1>2, <1>3, <1>4 DEF Host

LEMMA TypingScanning ==
    ScanTyping /\ (Connect \/ (\E p \in PageIds : OnBand(p)) \/ RunScanReturns)
        /\ UNCHANGED <<device, requests, asked, selected>> => ScanTyping'
<1>1. ASSUME ScanTyping, Connect, UNCHANGED <<device, requests, asked, selected>> PROVE ScanTyping'
  <2>1. attempt' \in 0 .. ConnectAttempts /\ (pc' = "connect" => attempt' < ConnectAttempts)
    <3>1. attempt' = attempt + 1 /\ attempt < ConnectAttempts /\ attempt \in Nat /\ ConnectAttempts \in Nat
      BY <1>1, IcaAssumption DEF Connect, ScanTyping
    <3>2. pc' = "connect" => attempt' < ConnectAttempts
      BY <1>1 DEF Connect
    <3> QED BY <3>1, <3>2
  <2>2. /\ notes' = notes \/ notes' = Append(notes, "Alert")
        /\ finalErr' \in {finalErr, "internal"} /\ pc' \in {"connect", "scan", "finish"}
    BY <1>1 DEF Connect, Fail, Post, ScanTyping
  <2>3. notes' \in Seq(Kinds)
    BY <1>1, <2>2, KindsPosted DEF ScanTyping
  <2>4. UNCHANGED <<scanVars, idx, files>>
    BY <1>1 DEF Connect
  <2> QED BY <1>1, <2>1, <2>2, <2>3, <2>4 DEF ScanTyping, scanVars
<1>2. ASSUME ScanTyping, NEW p \in PageIds, OnBand(p), UNCHANGED <<device, requests, asked, selected>>
      PROVE  ScanTyping'
  <2>1. bands' \in [PageIds -> 0 .. Bands]
    <3>1. /\ bands \in [PageIds -> 0 .. Bands] /\ bands' = [bands EXCEPT ![p] = bands[p] + 1]
          /\ bands[p] < Bands
      BY <1>2 DEF OnBand, ScanTyping
    <3>2. bands[p] + 1 \in 0 .. Bands
      BY <3>1, IcaAssumption
    <3> QED BY <3>1, <3>2
  <2>2. notes' \in Seq(Kinds) /\ current' \in PageIds \cup {0}
    BY <1>2, KindsPosted DEF OnBand, ScanTyping, Post
  <2>3. /\ pc' \in {"scan", "outcome"} /\ status' \in {status, "cancelled"}
        /\ canceled' \in BOOLEAN /\ sendFailed' \in BOOLEAN /\ pages' \in 0 .. MaxPages
    BY <1>2, PagesCounted, IcaAssumption DEF OnBand, ScanTyping
  <2>4. UNCHANGED <<attempt, finalErr, idx, files>>
    BY <1>2 DEF OnBand
  <2> QED BY <1>2, <2>1, <2>2, <2>3, <2>4 DEF ScanTyping
<1>3. ASSUME ScanTyping, RunScanReturns, UNCHANGED <<device, requests, asked, selected>> PROVE ScanTyping'
  <2>1. pages' \in 0 .. MaxPages
    BY <1>3, PagesCounted, IcaAssumption DEF RunScanReturns
  <2>2. status' \in {"ok", "timeout", "io", "protocol", "busy", "cancelled", "noPaper", "paperJam"}
        /\ pc' = "outcome"
    BY <1>3 DEF RunScanReturns
  <2>3. UNCHANGED <<attempt, bands, current, canceled, sendFailed, finalErr, idx, notes, files>>
    BY <1>3 DEF RunScanReturns
  <2> QED BY <1>3, <2>1, <2>2, <2>3 DEF ScanTyping
<1> QED BY <1>1, <1>2, <1>3

LEMMA TypingEnding ==
    ScanTyping /\ (Conclude \/ SkipPage \/ PostFilePage \/ FilesDone \/ AntiHangGuard \/ Finish)
        /\ UNCHANGED <<device, requests, asked, selected>> => ScanTyping'
<1> SUFFICES ASSUME ScanTyping, UNCHANGED <<device, requests, asked, selected>>,
                    Conclude \/ SkipPage \/ PostFilePage \/ FilesDone \/ AntiHangGuard \/ Finish
             PROVE  ScanTyping'
  OBVIOUS
<1>1. CASE Conclude
  <2>1. /\ notes' \in Seq(Kinds) /\ finalErr' \in {finalErr, "internal", "didNotComplete"}
        /\ canceled' \in BOOLEAN /\ pc' \in {"guard", "file"}
    BY <1>1, KindsPosted DEF Conclude, ScanTyping, Fail, Post
  <2>2. UNCHANGED <<attempt, bands, current, sendFailed, status, pages, idx, files>>
    BY <1>1 DEF Conclude
  <2> QED BY <2>1, <2>2 DEF ScanTyping
<1>2. CASE SkipPage \/ PostFilePage
  <2>1. /\ idx \in Nat /\ pages \in Nat /\ MaxPages \in Nat /\ idx >= 1 /\ idx <= pages
        /\ pages <= MaxPages
    BY <1>2, IcaAssumption DEF SkipPage, PostFilePage, PageLeft, ScanTyping
  <2>2. idx \in PageIds /\ idx' \in 1 .. MaxPages + 1
    BY <1>2, <2>1 DEF SkipPage, PostFilePage, PageIds
  <2>3. files' \subseteq PageIds
    BY <1>2, <2>2 DEF SkipPage, PostFilePage, ScanTyping
  <2>4. notes' \in Seq(Kinds)
    <3>1. notes \o <<"PageDone", "Alert">> \in Seq(Kinds) /\ notes \o <<"Alert">> \in Seq(Kinds)
      BY DEF ScanTyping, Kinds
    <3> QED BY <1>2, <3>1, KindsPosted DEF SkipPage, PostFilePage, Post, ScanTyping
  <2>5. finalErr' \in {finalErr, "internal"} /\ pc' \in {"file", "guard"}
    BY <1>2 DEF SkipPage, PostFilePage
  <2>6. UNCHANGED <<attempt, scanVars>>
    BY <1>2 DEF SkipPage, PostFilePage
  <2> QED BY <2>2, <2>3, <2>4, <2>5, <2>6 DEF ScanTyping, scanVars
<1>3. CASE FilesDone \/ AntiHangGuard \/ Finish
  <2>1. notes' \in Seq(Kinds) /\ finalErr' \in {finalErr, "internal"} /\ pc' \in {"guard", "finish", "idle"}
    BY <1>3, KindsPosted DEF FilesDone, AntiHangGuard, Finish, Fail, Post, ScanTyping
  <2>2. UNCHANGED <<attempt, scanVars, idx, files>>
    BY <1>3 DEF FilesDone, AntiHangGuard, Finish
  <2> QED BY <2>1, <2>2 DEF ScanTyping, scanVars
<1> QED BY <1>1, <1>2, <1>3

LEMMA TypingStep == ScanTyping /\ [Next]_vars => ScanTyping'
<1>1. ASSUME ScanTyping, UNCHANGED vars PROVE ScanTyping'
  BY <1>1 DEF ScanTyping, vars, contextVars, hostVars, scanVars
<1> QED BY <1>1, TypingHost, TypingScanning, TypingEnding DEF Next, Scan, hostVars

(* Every variable keeps its type: no more connects than the code allows, no *)
(* page past the last, and never more releases of a URL than retains.       *)
THEOREM TypeCorrect == Spec => []TypeOK
<1>1. ScanTyping /\ StagedIsSelected /\ URLsAreOwned => TypeOK
  <2> SUFFICES ASSUME ScanTyping, StagedIsSelected, URLsAreOwned PROVE TypeOK
    OBVIOUS
  <2>1. Releases(staged.transfer) \in {0, 1} /\ Releases(job.transfer) \in {0, 1}
    BY ReleasesBit DEF URLsAreOwned
  <2>2. retained \in Nat
    BY <2>1 DEF URLsAreOwned, URLHasOneOwner
  <2>3. unit \in Int
    BY DEF StagedIsSelected, ScanTyping
  <2> QED BY <2>2, <2>3 DEF TypeOK, ScanTyping, StagedIsSelected, Settings, Kinds
<1> QED BY TypingInit, TypingStep, <1>1, StagedAlways, OwnedAlways, PTL DEF Spec

-----------------------------------------------------------------------------
(* How a scan ends. *)

Over == pc \in {"guard", "finish"} \/ Ended

\* Until the outcome is known nothing has gone wrong, nothing is signalled but pages, and
\* nothing is written.
Undecided ==
    /\ pc \in {"connect", "scan"} => status = "running" /\ ~canceled /\ ~sendFailed
    /\ pc \in {"connect", "scan", "outcome"} =>
          /\ finalErr = "noErr" /\ files = {} /\ idx = 1
          /\ \A kind \in {"Alert", "TransactionCanceled", "PageDonePath"} : Count(notes, kind) = 0

\* An alert comes with an error; a page that is left out is an error without one.
Alerts ==
    /\ Count(notes, "Alert") <= 1
    /\ finalErr = "noErr" \/ pc = "file" => Count(notes, "Alert") = 0

\* The user's cancel is the status of the scan, and not an error.
Cancels ==
    /\ canceled => status = "cancelled" /\ ~sendFailed /\ finalErr = "noErr"
    /\ status = "cancelled" => files = {} /\ pc # "file"
    /\ status = "cancelled" /\ ~sendFailed /\ Over =>
          /\ canceled /\ Count(notes, "TransactionCanceled") = 1
          /\ IF pc = "idle" THEN Len(notes) > 1 /\ notes[Len(notes) - 1] = "TransactionCanceled"
                            ELSE Len(notes) > 0 /\ notes[Len(notes)] = "TransactionCanceled"

\* A scan without an error is a whole job; the files are written in the order of its pages.
Written ==
    /\ status = "ok" => pages = Cardinality(Begun)
    /\ pc = "file" =>
          /\ status = "ok" /\ idx <= pages + 1
          /\ finalErr = "noErr" => files = 1 .. idx - 1 /\ Count(notes, "PageDonePath") = idx - 1
    /\ Over /\ finalErr = "noErr" /\ ~canceled =>
          /\ status = "ok"
          /\ pc # "guard" => pages > 0
          /\ job.transfer.file => files = 1 .. pages /\ Count(notes, "PageDonePath") = pages

\* The last notification is what finalErr says.
Reported ==
    Ended => notes[Len(notes)] = IF finalErr = "noErr" THEN "ScanDone" ELSE "ScanDoneError"

Outcomes == Undecided /\ Alerts /\ Cancels /\ Written /\ Reported

LEMMA OutcomesInit == Init => Outcomes
<1> SUFFICES ASSUME Init PROVE Outcomes
  OBVIOUS
<1>1. /\ pc = "idle" /\ canceled = FALSE /\ finalErr = "noErr" /\ status = "running"
      /\ notes = <<>> /\ ~Ended
  BY DEF Init, Ended
<1>2. Count(notes, "Alert") = 0
  BY <1>1, CountEmpty
<1> QED BY <1>1, <1>2 DEF Outcomes, Undecided, Alerts, Cancels, Written, Reported, Over

LEMMA OutcomesHost == Outcomes /\ Host => Outcomes'
<1> SUFFICES ASSUME Outcomes, Host PROVE Outcomes'
  OBVIOUS
<1>1. CASE OpenTCPIPDevice \/ CloseDevice \/ SetParameters
  <2>1. UNCHANGED <<pc, job, scanVars, finalErr, idx, notes, files>>
    BY <1>1 DEF OpenTCPIPDevice, CloseDevice, SetParameters
  <2> QED BY <2>1 DEF Outcomes, Undecided, Alerts, Cancels, Written, Reported, Over, Ended, Begun,
              scanVars, Count
<1>2. CASE Start
  <2>1. /\ pc' = "connect" /\ canceled' = FALSE /\ sendFailed' = FALSE /\ finalErr' = "noErr"
        /\ status' = "running" /\ idx' = 1 /\ notes' = <<>> /\ files' = {}
    BY <1>2 DEF Start
  <2>2. \A kind : Count(notes', kind) = 0
    BY <2>1, CountEmpty
  <2>3. ~Over' /\ ~Ended'
    BY <2>1 DEF Over, Ended
  <2> QED BY <2>1, <2>2, <2>3 DEF Outcomes, Undecided, Alerts, Cancels, Written, Reported
<1> QED BY <1>1, <1>2 DEF Host

LEMMA OutcomesConnect == ScanTyping /\ Outcomes /\ Connect => Outcomes'
<1> SUFFICES ASSUME ScanTyping, Outcomes, Connect PROVE Outcomes'
  OBVIOUS
<1>1. pc = "connect" /\ UNCHANGED <<job, scanVars, idx, files>>
  BY DEF Connect
<1>2. /\ status = "running" /\ ~canceled /\ ~sendFailed /\ finalErr = "noErr" /\ files = {} /\ idx = 1
      /\ \A kind \in {"Alert", "TransactionCanceled", "PageDonePath"} : Count(notes, kind) = 0
  BY <1>1 DEF Outcomes, Undecided
<1>3. CASE pc' \in {"connect", "scan"} /\ UNCHANGED <<finalErr, notes>>
  <2>1. ~Over' /\ ~Ended'
    BY <1>3 DEF Over, Ended
  <2> QED BY <1>1, <1>2, <1>3, <2>1
          DEF Outcomes, Undecided, Alerts, Cancels, Written, Reported, scanVars
<1>4. CASE Fail("internal") /\ pc' = "finish"
  <2>1. Count(notes', "Alert") = 1 /\ finalErr' = "internal"
    BY <1>2, <1>4, Posted DEF Fail, ScanTyping, Kinds
  <2>2. ~Ended'
    BY <1>4 DEF Ended
  <2> QED BY <1>1, <1>2, <1>4, <2>1, <2>2
          DEF Outcomes, Undecided, Alerts, Cancels, Written, Reported, scanVars
<1> QED BY <1>1, <1>3, <1>4 DEF Connect

LEMMA OutcomesBand == ScanTyping /\ Outcomes /\ (\E p \in PageIds : OnBand(p)) => Outcomes'
<1> SUFFICES ASSUME ScanTyping, Outcomes, NEW p \in PageIds, OnBand(p) PROVE Outcomes'
  OBVIOUS
<1>1. /\ pc = "scan" /\ UNCHANGED <<job, finalErr, idx, files>>
      /\ \/ UNCHANGED <<pc, canceled, sendFailed, status>>
         \/ /\ status' = "cancelled" /\ pc' = "outcome"
            /\ canceled' => canceled \/ ~sendFailed'
  BY DEF OnBand, Outcomes, Undecided
<1>2. /\ status = "running" /\ ~canceled /\ ~sendFailed /\ finalErr = "noErr" /\ files = {} /\ idx = 1
      /\ \A kind \in {"Alert", "TransactionCanceled", "PageDonePath"} : Count(notes, kind) = 0
  BY <1>1 DEF Outcomes, Undecided
<1>3. \A kind \in {"Alert", "TransactionCanceled", "PageDonePath"} : Count(notes', kind) = 0
  <2>1. CASE notes' = notes
    BY <1>2, <2>1
  <2>2. CASE Post("PageDone")
    BY <1>2, <2>2, Posted DEF ScanTyping, Kinds
  <2> QED BY <2>1, <2>2 DEF OnBand
<1>4. ~Over' /\ ~Ended'
  BY <1>1 DEF Over, Ended
<1> QED BY <1>1, <1>2, <1>3, <1>4 DEF Outcomes, Undecided, Alerts, Cancels, Written, Reported

LEMMA OutcomesReturns == Outcomes /\ RunScanReturns => Outcomes'
<1> SUFFICES ASSUME Outcomes, RunScanReturns PROVE Outcomes'
  OBVIOUS
<1>1. /\ pc = "scan" /\ pc' = "outcome"
      /\ UNCHANGED <<job, bands, canceled, sendFailed, finalErr, idx, notes, files>>
  BY DEF RunScanReturns
<1>2. status' = "ok" => pages' = Cardinality(Begun')
  BY <1>1 DEF RunScanReturns, Begun
<1>3. ~Over' /\ ~Ended'
  BY <1>1 DEF Over, Ended
<1> QED BY <1>1, <1>2, <1>3
        DEF Outcomes, Undecided, Alerts, Cancels, Written, Reported, Count

LEMMA OutcomesConclude == ScanTyping /\ Outcomes /\ Conclude => Outcomes'
<1> SUFFICES ASSUME ScanTyping, Outcomes, Conclude PROVE Outcomes'
  OBVIOUS
<1>1. /\ pc = "outcome" /\ UNCHANGED <<job, bands, sendFailed, status, pages, idx, files>>
      /\ Begun' = Begun
  BY DEF Conclude, Begun
<1>2. /\ finalErr = "noErr" /\ files = {} /\ idx = 1
      /\ \A kind \in {"Alert", "TransactionCanceled", "PageDonePath"} : Count(notes, kind) = 0
  BY <1>1 DEF Outcomes, Undecided
<1>3. /\ canceled => status = "cancelled" /\ ~sendFailed
      /\ status = "ok" => pages = Cardinality(Begun)
  BY DEF Outcomes, Cancels, Written
<1>4. ScanOutcome = "canceled" <=> status = "cancelled"
  BY DEF ScanOutcome
<1>5. ScanOutcome = "ok" <=> status = "ok"
  BY DEF ScanOutcome
<1>6. ~Ended'
  BY DEF Conclude, Ended
<1>7. CASE /\ sendFailed \/ ScanOutcome \notin {"canceled", "ok"}
           /\ Fail(IF ~sendFailed /\ ScanOutcome \in {"feederEmpty", "paperJam"}
                   THEN "didNotComplete" ELSE "internal")
           /\ UNCHANGED canceled /\ pc' = "guard"
  <2>1. finalErr' # "noErr" /\ Post("Alert")
    BY <1>7 DEF Fail
  <2>2. Count(notes', "Alert") = 1
    BY <1>2, <2>1, Posted DEF ScanTyping, Kinds
  <2>3. ~canceled /\ (status # "cancelled" \/ sendFailed)
    BY <1>3, <1>4, <1>7
  <2> QED BY <1>1, <1>2, <1>3, <1>6, <1>7, <2>1, <2>2, <2>3
          DEF Outcomes, Undecided, Alerts, Cancels, Written, Reported
<1>8. CASE /\ ~sendFailed /\ ScanOutcome = "canceled" /\ Post("TransactionCanceled")
           /\ canceled' = TRUE /\ UNCHANGED finalErr /\ pc' = "guard"
  <2>1. /\ Count(notes', "TransactionCanceled") = 1 /\ Count(notes', "Alert") = 0
        /\ Len(notes') > 0 /\ notes'[Len(notes')] = "TransactionCanceled"
    <3>1. notes \in Seq(Kinds) /\ "TransactionCanceled" \in Kinds /\ "Alert" \in Kinds
      BY DEF ScanTyping, Kinds
    <3> QED BY <1>2, <1>8, <3>1, Posted
  <2> QED BY <1>1, <1>2, <1>3, <1>4, <1>6, <1>8, <2>1
          DEF Outcomes, Undecided, Alerts, Cancels, Written, Reported
<1>9. CASE /\ ScanOutcome = "ok" /\ pc' = IF job.transfer.file THEN "file" ELSE "guard"
           /\ UNCHANGED <<canceled, finalErr, notes>>
  <2>1. /\ pages \in Nat /\ 1 <= pages + 1 /\ {} = 1 .. 1 - 1
        /\ Count(notes', "PageDonePath") = 1 - 1 /\ Count(notes', "Alert") = 0
    BY <1>2, <1>9, IcaAssumption DEF ScanTyping
  <2>2. status' = "ok" /\ pages' = Cardinality(Begun')
    BY <1>1, <1>3, <1>5, <1>9
  <2>3. CASE job.transfer.file /\ pc' = "file"
    <3>1. ~Over'
      BY <2>3, <1>6 DEF Over
    <3> QED BY <1>1, <1>2, <1>3, <1>6, <1>9, <2>1, <2>2, <2>3, <3>1
            DEF Outcomes, Undecided, Alerts, Cancels, Written, Reported
  <2>4. CASE ~job.transfer.file /\ pc' = "guard"
    BY <1>1, <1>2, <1>3, <1>6, <1>9, <2>1, <2>2, <2>4
       DEF Outcomes, Undecided, Alerts, Cancels, Written, Reported
  <2> QED BY <1>9, <2>3, <2>4
<1> QED BY <1>7, <1>8, <1>9 DEF Conclude

LEMMA OutcomesSkip == ScanTyping /\ Outcomes /\ SkipPage => Outcomes'
<1> SUFFICES ASSUME ScanTyping, Outcomes, SkipPage PROVE Outcomes'
  OBVIOUS
<1>1. /\ pc = "file" /\ pc' = "file" /\ finalErr' = "internal" /\ idx' = idx + 1 /\ idx <= pages
      /\ UNCHANGED <<job, scanVars, notes, files>>
  BY DEF SkipPage, PageLeft
<1>2. idx' <= pages' + 1 /\ Begun' = Begun
  BY <1>1, IcaAssumption DEF ScanTyping, scanVars, Begun
<1>3. ~Over' /\ ~Ended' /\ ~canceled
  BY <1>1 DEF Over, Ended, Outcomes, Cancels
<1> QED BY <1>1, <1>2, <1>3
        DEF Outcomes, Undecided, Alerts, Cancels, Written, Reported, scanVars, Count

LEMMA OutcomesPage == ScanTyping /\ Outcomes /\ PostFilePage => Outcomes'
<1> SUFFICES ASSUME ScanTyping, Outcomes, PostFilePage PROVE Outcomes'
  OBVIOUS
<1>1. /\ pc = "file" /\ UNCHANGED <<job, scanVars>> /\ Begun' = Begun
      /\ idx \in Nat /\ idx >= 1 /\ pages \in Nat /\ idx <= pages
  BY IcaAssumption DEF PostFilePage, PageLeft, ScanTyping, scanVars, Begun
<1>2. /\ status = "ok" /\ ~canceled /\ Count(notes, "Alert") = 0 /\ pages = Cardinality(Begun)
      /\ finalErr = "noErr" => files = 1 .. idx - 1 /\ Count(notes, "PageDonePath") = idx - 1
  BY <1>1 DEF Outcomes, Alerts, Cancels, Written
<1>3. CASE /\ files' = files \cup {idx} /\ Post("PageDonePath") /\ idx' = idx + 1
           /\ UNCHANGED <<pc, finalErr>>
  <2>1. /\ Count(notes', "Alert") = 0
        /\ Count(notes', "PageDonePath") = Count(notes, "PageDonePath") + 1
    <3>1. notes \in Seq(Kinds) /\ "PageDonePath" \in Kinds /\ "Alert" \in Kinds
      BY DEF ScanTyping, Kinds
    <3> QED BY <1>2, <1>3, <3>1, Posted
  <2>2. finalErr' = "noErr" => files' = 1 .. idx' - 1 /\ Count(notes', "PageDonePath") = idx' - 1
    BY <1>1, <1>2, <1>3, <2>1
  <2>3. idx' <= pages' + 1 /\ ~Over' /\ ~Ended'
    BY <1>1, <1>3 DEF Over, Ended, scanVars
  <2> QED BY <1>1, <1>2, <1>3, <2>1, <2>2, <2>3
          DEF Outcomes, Undecided, Alerts, Cancels, Written, Reported, scanVars
<1>4. CASE /\ notes' = notes \o (IF HasDestination THEN <<"PageDone", "Alert">> ELSE <<"Alert">>)
           /\ finalErr' = "internal" /\ pc' = "guard" /\ UNCHANGED <<idx, files>>
  <2>1. Count(notes', "Alert") = 1
    <3>1. /\ notes \in Seq(Kinds) /\ Append(notes, "PageDone") \in Seq(Kinds)
          /\ "Alert" \in Kinds /\ "PageDone" \in Kinds
      BY DEF ScanTyping, Kinds
    <3>2. \/ notes' = Append(notes, "Alert")
          \/ notes' = Append(Append(notes, "PageDone"), "Alert")
      BY <1>4, <3>1
    <3>3. Count(Append(notes, "PageDone"), "Alert") = 0
      BY <1>2, <3>1, CountAppend
    <3>4. Count(Append(notes, "Alert"), "Alert") = 1
      BY <1>2, <3>1, CountAppend
    <3>5. Count(Append(Append(notes, "PageDone"), "Alert"), "Alert") = 1
      <4> DEFINE s == Append(notes, "PageDone")
      <4>1. s \in Seq(Kinds) /\ Count(s, "Alert") = 0
        BY <3>1, <3>3
      <4> HIDE DEF s
      <4>2. Count(Append(s, "Alert"), "Alert") = 1
        BY <3>1, <4>1, CountAppend
      <4> QED BY <4>2 DEF s
    <3>6. CASE notes' = Append(notes, "Alert")
      BY <3>4, <3>6
    <3>7. CASE notes' = Append(Append(notes, "PageDone"), "Alert")
      BY <3>5, <3>7
    <3> QED BY <3>2, <3>6, <3>7
  <2>2. ~Ended'
    BY <1>4 DEF Ended
  <2> QED BY <1>1, <1>2, <1>4, <2>1, <2>2
          DEF Outcomes, Undecided, Alerts, Cancels, Written, Reported, scanVars
<1> QED BY <1>3, <1>4 DEF PostFilePage

LEMMA OutcomesFiles == ScanTyping /\ Outcomes /\ FilesDone => Outcomes'
<1> SUFFICES ASSUME ScanTyping, Outcomes, FilesDone PROVE Outcomes'
  OBVIOUS
<1>1. /\ pc = "file" /\ pc' = "guard" /\ UNCHANGED <<job, scanVars, finalErr, idx, notes, files>>
      /\ Begun' = Begun
  BY DEF FilesDone, scanVars, Begun
<1>2. /\ status = "ok" /\ ~canceled /\ Count(notes, "Alert") = 0 /\ pages = Cardinality(Begun)
      /\ idx <= pages + 1
      /\ finalErr = "noErr" => files = 1 .. idx - 1 /\ Count(notes, "PageDonePath") = idx - 1
  BY <1>1 DEF Outcomes, Alerts, Cancels, Written
<1>3. idx - 1 = pages
  BY <1>2, IcaAssumption DEF FilesDone, PageLeft, ScanTyping
<1>4. ~Ended'
  BY <1>1 DEF Ended
<1> QED BY <1>1, <1>2, <1>3, <1>4
        DEF Outcomes, Undecided, Alerts, Cancels, Written, Reported, scanVars, Count

LEMMA OutcomesGuard == ScanTyping /\ Outcomes /\ AntiHangGuard => Outcomes'
<1> SUFFICES ASSUME ScanTyping, Outcomes, AntiHangGuard PROVE Outcomes'
  OBVIOUS
<1>1. /\ pc = "guard" /\ pc' = "finish" /\ UNCHANGED <<job, scanVars, idx, files>> /\ Begun' = Begun
      /\ Over /\ Over' /\ ~Ended' /\ pages \in Nat
  BY IcaAssumption DEF AntiHangGuard, scanVars, Begun, Over, Ended, ScanTyping
<1>2. CASE finalErr = "noErr" /\ ~canceled /\ pages = 0 /\ Fail("internal")
  <2>1. Count(notes', "Alert") = 1 /\ finalErr' = "internal"
    <3>1. Count(notes, "Alert") = 0
      BY <1>2 DEF Outcomes, Alerts
    <3> QED BY <1>2, <3>1, Posted DEF Fail, ScanTyping, Kinds
  <2>2. status = "ok"
    BY <1>1, <1>2 DEF Outcomes, Written
  <2> QED BY <1>1, <1>2, <2>1, <2>2
          DEF Outcomes, Undecided, Alerts, Cancels, Written, Reported, scanVars
<1>3. CASE ~(finalErr = "noErr" /\ ~canceled /\ pages = 0) /\ UNCHANGED <<finalErr, notes>>
  BY <1>1, <1>3
     DEF Outcomes, Undecided, Alerts, Cancels, Written, Reported, scanVars, Count
<1> QED BY <1>2, <1>3 DEF AntiHangGuard

LEMMA OutcomesFinish == ScanTyping /\ job \in Settings /\ Outcomes /\ Finish => Outcomes'
<1> SUFFICES ASSUME ScanTyping, job \in Settings, Outcomes, Finish PROVE Outcomes'
  OBVIOUS
<1> DEFINE note == IF canceled \/ finalErr = "noErr" THEN "ScanDone" ELSE "ScanDoneError"
<1>1. /\ pc = "finish" /\ pc' = "idle" /\ UNCHANGED <<scanVars, finalErr, idx, files>>
      /\ Begun' = Begun /\ job' = [job EXCEPT !.transfer.scoped = FALSE] /\ Over /\ Over'
      /\ Post(note)
  <2>1. Post(note)
    BY DEF Finish
  <2>2. notes' # <<>>
    BY <2>1 DEF Post, ScanTyping
  <2> QED BY <2>1, <2>2 DEF Finish, scanVars, Begun, Over, Ended
<1>2. note = IF finalErr = "noErr" THEN "ScanDone" ELSE "ScanDoneError"
  BY DEF Outcomes, Cancels
<1>3. /\ Len(notes) \in Nat /\ Len(notes') = Len(notes) + 1 /\ notes'[Len(notes')] = note
      /\ \A i \in DOMAIN notes : notes'[i] = notes[i]
      /\ \A kind \in {"Alert", "TransactionCanceled", "PageDonePath"} :
            Count(notes', kind) = Count(notes, kind)
  <2>1. /\ notes \in Seq(Kinds) /\ note \in {"ScanDone", "ScanDoneError"} /\ note \in Kinds
        /\ {"Alert", "TransactionCanceled", "PageDonePath"} \subseteq Kinds
    BY DEF ScanTyping, Kinds
  <2> HIDE DEF note
  <2> QED BY <1>1, <2>1, Posted
<1> HIDE DEF note
<1>4. Undecided' /\ Reported'
  BY <1>1, <1>2, <1>3 DEF Undecided, Reported
<1>5. Alerts'
  BY <1>1, <1>3 DEF Outcomes, Alerts
<1>6. Cancels'
  <2>1. ASSUME status = "cancelled", ~sendFailed
        PROVE  Len(notes') > 1 /\ notes'[Len(notes') - 1] = "TransactionCanceled"
    <3>1. Len(notes) > 0 /\ notes[Len(notes)] = "TransactionCanceled"
      BY <1>1, <2>1 DEF Outcomes, Cancels
    <3>2. Len(notes) \in DOMAIN notes /\ Len(notes') - 1 = Len(notes)
      BY <1>3, <3>1 DEF ScanTyping
    <3> QED BY <1>3, <3>1, <3>2
  <2> QED BY <1>1, <1>3, <2>1 DEF Outcomes, Cancels, scanVars
<1>7. Written'
  <2>1. job'.transfer.file <=> job.transfer.file
    BY <1>1 DEF Settings
  <2> QED BY <1>1, <1>3, <2>1 DEF Outcomes, Written, scanVars
<1> QED BY <1>4, <1>5, <1>6, <1>7 DEF Outcomes

LEMMA OutcomesStep == ScanTyping /\ job \in Settings /\ Outcomes /\ [Next]_vars => Outcomes'
<1>1. ASSUME Outcomes, UNCHANGED vars PROVE Outcomes'
  BY <1>1 DEF Outcomes, Undecided, Alerts, Cancels, Written, Reported, Over, Ended, Begun, Count,
              vars, scanVars
<1> QED BY <1>1, OutcomesHost, OutcomesConnect, OutcomesBand, OutcomesReturns, OutcomesConclude,
           OutcomesSkip, OutcomesPage, OutcomesFiles, OutcomesGuard, OutcomesFinish
        DEF Next, Scan

LEMMA OutcomesAlways == Spec => [](ScanTyping /\ Outcomes)
<1>1. StagedIsSelected => job \in Settings
  BY DEF StagedIsSelected
<1> QED BY StagedAlways, <1>1, TypingInit, TypingStep, OutcomesInit, OutcomesStep, PTL DEF Spec

(* The host is alerted at most once in a scan and never in one it hears no  *)
(* error of, for any number of pages, bands and connection attempts         *)
(* (RunScanSynchronous, with the anti-hang guard).                          *)
THEOREM AlertedOnce == Spec => []OneAlert
<1>1. ScanTyping /\ Outcomes => OneAlert
  <2> SUFFICES ASSUME ScanTyping, Outcomes PROVE OneAlert
    OBVIOUS
  <2>1. Ended /\ Last(notes) = "ScanDone" => finalErr = "noErr"
    BY DEF Outcomes, Reported, Last
  <2> QED BY <2>1 DEF OneAlert, Outcomes, Alerts
<1> QED BY OutcomesAlways, <1>1, PTL

(* A scan reported done without an error was cancelled by the user, or the  *)
(* host has everything it asked for: at least one page, and in a file       *)
(* transfer a file for each and an announcement of each (RunScanSynchronous,*)
(* PostFilePage).                                                           *)
THEOREM ScanDoneIsTrue == Spec => []DoneIsTrue
<1>1. ScanTyping /\ Outcomes => DoneIsTrue
  <2> SUFFICES ASSUME ScanTyping, Outcomes, Ended, Last(notes) = "ScanDone"
               PROVE  \/ canceled /\ ~sendFailed
                      \/ /\ pages > 0 /\ pages = Cardinality(Begun)
                         /\ job.transfer.file =>
                              files = 1 .. pages /\ Count(notes, "PageDonePath") = pages
    BY DEF DoneIsTrue
  <2>1. finalErr = "noErr" /\ Over /\ pc = "idle"
    BY DEF Outcomes, Reported, Last, Over, Ended
  <2>2. CASE canceled
    BY <2>2 DEF Outcomes, Cancels
  <2>3. CASE ~canceled
    BY <2>1, <2>3 DEF Outcomes, Written
  <2> QED BY <2>2, <2>3
<1> QED BY OutcomesAlways, <1>1, PTL

(* A cancel, by the host or at the printer, is signalled once, just before  *)
(* the scan is reported done, with no alert, no error and no file           *)
(* (ClassifyScanOutcome's kCanceled in RunScanSynchronous).                 *)
THEOREM CancelLeavesNothing == Spec => []CancelIsClean
<1>1. ScanTyping /\ Outcomes => CancelIsClean
  <2> SUFFICES ASSUME ScanTyping, Outcomes, Ended, status = "cancelled", ~sendFailed
               PROVE  /\ Count(notes, "Alert") = 0 /\ files = {}
                      /\ Len(notes) > 1 /\ notes[Len(notes) - 1] = "TransactionCanceled"
                      /\ Count(notes, "TransactionCanceled") = 1
                      /\ Last(notes) = "ScanDone"
    BY DEF CancelIsClean
  <2>1. pc = "idle" /\ Over
    BY DEF Over, Ended
  <2>2. canceled /\ finalErr = "noErr"
    BY <2>1 DEF Outcomes, Cancels
  <2> QED BY <2>1, <2>2 DEF Outcomes, Cancels, Alerts, Reported, Last
<1> QED BY OutcomesAlways, <1>1, PTL

=============================================================================
