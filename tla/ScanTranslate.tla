---------------------------- MODULE ScanTranslate ---------------------------
(***************************************************************************)
(* ica-module/scan_translate.cpp: the parameters a scan runs with, from    *)
(* the selection the host sends.                                           *)
(*                                                                         *)
(* A selection is a function from the keys the host sent to integers, so   *)
(* that the has_... flags of IcapScanSelection are its domain.  Measures   *)
(* are in hundredths of their unit, where the code has doubles.            *)
(***************************************************************************)
EXTENDS Integers

kFeederFunctionalUnit == 3
kIcapUnitsInches == 0
kIcapUnitsCentimeters == 1
kIcapUnitsPixels == 5
kMaxFlatbedDpi == 2400
kMaxFeederDpi == 1200
kDefaultDpi == 300
kAdfSensorWidthAt300 == 3472

\* What GetParameters advertises of either unit: resolutions up to the unit's own, and the
\* physical extent, here in pixels at kReferenceDpi.
kReferenceDpi == 300
kResolutions == {100, 150, 200, 300, 400, 600, 1200, 2400}
kPhysicalWidth == 3472
kPhysicalHeight == 5053

Rectangle == {"offset_x", "offset_y", "width", "height"}
SelectionKeys ==
    {"x_resolution", "y_resolution", "pixel_type", "units", "functional_unit",
     "feeder_enabled", "duplex", "cap_duplex", "cap_duplex_enabled"} \cup Rectangle

\* RunScan takes the empty area for everything the unit can scan.
NoArea == [x0 |-> 0, y0 |-> 0, x1 |-> 0, y1 |-> 0]
Areas == [x0 : Int, y0 : Int, x1 : Int, y1 : Int]
ScanParams ==
    [mode : {"kColor", "kTrueGray", "kBlackWhite"}, dpi : Int, source : {"kFlatbed", "kAdf"},
     duplex : BOOLEAN, area : Areas]
DefaultParams ==
    [mode |-> "kColor", dpi |-> kDefaultDpi, source |-> "kFlatbed", duplex |-> FALSE,
     area |-> NoArea]

-----------------------------------------------------------------------------
(* Arithmetic.                                                              *)

\* std::lround of a quotient: to the nearest, halves away from zero.
Lround(n, d) == IF n >= 0 THEN (2 * n + d) \div (2 * d) ELSE -((d - 2 * n) \div (2 * d))

ClampTo(v, lo, hi) == IF v > hi THEN (IF hi > lo THEN hi ELSE lo) ELSE IF v > lo THEN v ELSE lo

PixelsFromMeasure(value, unit, dpi) ==
    CASE unit = kIcapUnitsInches      -> Lround(value * dpi, 100)
      [] unit = kIcapUnitsCentimeters -> Lround(value * dpi, 254)
      [] OTHER                        -> Lround(value, 100)

AdfSensorWidthAtDpi(dpi) == Lround(kAdfSensorWidthAt300 * dpi, 300)

CenteredAdfX0(sensor, width) == IF width >= sensor THEN 0 ELSE (sensor - width) \div 2

\* Down to whole JPEG units; what is narrower than one stays.
AlignedWidth(width) == IF width >= 16 THEN width - (width % 16) ELSE width

-----------------------------------------------------------------------------
(* ScanRequestFromIcap.                                                     *)

On(sel, key) == key \in DOMAIN sel /\ sel[key] # 0

RequestDpi(sel) ==
    IF "x_resolution" \in DOMAIN sel /\ sel["x_resolution"] > 0 THEN sel["x_resolution"]
    ELSE IF "y_resolution" \in DOMAIN sel /\ sel["y_resolution"] > 0 THEN sel["y_resolution"]
    ELSE kDefaultDpi

\* Does the request say itself which unit to scan on?
NamesUnit(sel) == "functional_unit" \in DOMAIN sel \/ On(sel, "feeder_enabled")

\* Mutant: the unit is taken from the request alone.
FunctionalUnitOfRequest(sel, tracked) ==
    IF "functional_unit" \in DOMAIN sel THEN sel["functional_unit"]
    ELSE IF On(sel, "feeder_enabled") THEN kFeederFunctionalUnit ELSE 0

\* The tracked unit is the one of an earlier request.
FunctionalUnit(sel, tracked) ==
    IF "functional_unit" \in DOMAIN sel THEN sel["functional_unit"]
    ELSE IF On(sel, "feeder_enabled") THEN kFeederFunctionalUnit ELSE tracked

Duplex(sel) == \E key \in {"duplex", "cap_duplex", "cap_duplex_enabled"} : On(sel, key)

CornersFromUserScanArea(x, y, width, height) ==
    IF width <= 0 \/ height <= 0 THEN NoArea
    ELSE [x0 |-> x, y0 |-> y, x1 |-> x + width, y1 |-> y + height]

Convertible == {kIcapUnitsInches, kIcapUnitsCentimeters, kIcapUnitsPixels}
Units(sel) == IF "units" \in DOMAIN sel THEN sel["units"] ELSE kIcapUnitsPixels

\* The rectangle in pixels of the requested resolution, before that is clamped.
RequestArea(sel) ==
    LET Pixels(key) == PixelsFromMeasure(sel[key], Units(sel), RequestDpi(sel))
    IN  IF Rectangle \subseteq DOMAIN sel /\ Units(sel) \in Convertible
        THEN CornersFromUserScanArea(Pixels("offset_x"), Pixels("offset_y"),
                                     Pixels("width"), Pixels("height"))
        ELSE NoArea

-----------------------------------------------------------------------------
(* TranslateScanParams.  No selection carries a brightness or a contrast.   *)

ModeOf(sel) ==
    IF "pixel_type" \notin DOMAIN sel THEN "kColor"
    ELSE CASE sel["pixel_type"] = 0 -> "kBlackWhite"
           [] sel["pixel_type"] = 1 -> "kTrueGray"
           [] OTHER -> "kColor"

\* The feeder centers its pages on a sensor as wide as the requested resolution makes it; the
\* glass has its origin in the corner.
Window(area, dpi, feeder) ==
    LET width == AlignedWidth(area.x1 - area.x0)
        x0 == IF feeder THEN CenteredAdfX0(AdfSensorWidthAtDpi(dpi), width) ELSE area.x0
    IN  IF area.x1 > area.x0 /\ area.y1 > area.y0
        THEN [x0 |-> x0, y0 |-> area.y0, x1 |-> x0 + width, y1 |-> area.y1]
        ELSE NoArea

MaxDpi(source) == IF source = "kAdf" THEN kMaxFeederDpi ELSE kMaxFlatbedDpi
SourceOf(unit) == IF unit = kFeederFunctionalUnit THEN "kAdf" ELSE "kFlatbed"

TranslateScanParams(sel, tracked) ==
    LET source == SourceOf(FunctionalUnit(sel, tracked))
    IN  [mode |-> ModeOf(sel),
         dpi |-> ClampTo(RequestDpi(sel), 1, MaxDpi(source)),
         source |-> source,
         duplex |-> source = "kAdf" /\ Duplex(sel),
         area |-> Window(RequestArea(sel), RequestDpi(sel), source = "kAdf")]

\* What every selection translates to: both sides only where there is a feeder, a resolution
\* the unit has, everything or a window that is not empty and, on the feeder, begins on its
\* sensor.  A window of the glass is where the request puts it, on the glass or not, and one
\* measured at a resolution that was then clamped is not measured again.
WellFormed(params) ==
    /\ params.duplex => params.source = "kAdf"
    /\ params.dpi \in 1 .. MaxDpi(params.source)
    /\ \/ params.area = NoArea
       \/ /\ params.area.x0 < params.area.x1 /\ params.area.y0 < params.area.y1
          /\ params.source = "kAdf" => params.area.x0 >= 0

-----------------------------------------------------------------------------
(* What the host was offered.                                               *)

\* Hundredths of the unit of measure in an inch.
PerInch(unit, dpi) ==
    CASE unit = kIcapUnitsInches      -> 100
      [] unit = kIcapUnitsCentimeters -> 254
      [] OTHER                        -> 100 * dpi

FitsIn(offset, extent, pixels, perInch) ==
    /\ offset >= 0 /\ extent >= 0
    /\ (offset + extent) * kReferenceDpi <= pixels * perInch

\* A request that keeps to what the module advertised for the unit it is for: a resolution of
\* the unit's list and, if it has a rectangle that is used, one within the physical extent.
Offered(sel, source) ==
    LET dpi == RequestDpi(sel)
        perInch == PerInch(Units(sel), dpi)
    IN  /\ dpi \in kResolutions /\ dpi <= MaxDpi(source)
        /\ Rectangle \subseteq DOMAIN sel /\ Units(sel) \in Convertible =>
               /\ FitsIn(sel["offset_x"], sel["width"], kPhysicalWidth, perInch)
               /\ FitsIn(sel["offset_y"], sel["height"], kPhysicalHeight, perInch)

\* A window on the unit: of the sensor, which it must not leave to the right, or of the glass,
\* over whose far edges it may hang by the one pixel that offset and extent, rounded each by
\* itself, can add up to.
OnUnit(params) ==
    LET area == params.area
    IN  /\ area.x0 >= 0 /\ area.y0 >= 0
        /\ params.source = "kAdf" => area.x1 <= AdfSensorWidthAtDpi(params.dpi)
        /\ kReferenceDpi * (area.x1 - 1) <= kPhysicalWidth * params.dpi
        /\ kReferenceDpi * (area.y1 - 1) <= kPhysicalHeight * params.dpi
=============================================================================
