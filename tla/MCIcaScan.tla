------------------------------ MODULE MCIcaScan -----------------------------
(***************************************************************************)
(* Instances of IcaScan for TLC.  Requests that keep to what is offered: a *)
(* change of unit with nothing else, a letter page for the feeder in       *)
(* inches, the whole width of the glass in centimeters with halves of a    *)
(* pixel to round, and for whatever unit a strip in pixels.  Requests that *)
(* do not: a window left of the glass at a resolution no unit has, with    *)
(* the feeder switched off.                                                *)
(***************************************************************************)
EXTENDS IcaScan, TLC

Unit(type) == "functional_unit" :> type
Area(x, y, width, height) ==
    "offset_x" :> x @@ "offset_y" :> y @@ "width" :> width @@ "height" :> height

MCSelections ==
    {Unit(0), Unit(kFeederFunctionalUnit),
     "feeder_enabled" :> 1 @@ "x_resolution" :> 300 @@ "pixel_type" :> 1 @@
         "cap_duplex" :> 1 @@ "units" :> kIcapUnitsInches @@ Area(0, 0, 850, 1100),
     "functional_unit" :> 0 @@ "x_resolution" :> 100 @@ "units" :> kIcapUnitsCentimeters @@
         Area(14, 50, 2925, 2794),
     "x_resolution" :> 0 @@ "y_resolution" :> 4800 @@ "feeder_enabled" :> 0 @@ "duplex" :> 1 @@
         "units" :> kIcapUnitsCentimeters @@ Area(-100, 50, 2159, 2794),
     "pixel_type" :> 0 @@ Area(700, 0, 1500, 100)}
=============================================================================
