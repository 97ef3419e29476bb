--------------------------- MODULE MCColorReadout ---------------------------
(* Two pages of up to two bands and an EOI, chunks of one or two units.      *)
EXTENDS ColorReadout

MCPages == {1, 2}

=============================================================================
