-------------------------- MODULE MCRlengthReadout --------------------------
(* Three pages of up to three rows (three, so that a page can complete      *)
(* between two others), bands of two rows, one stray byte at a boundary.     *)
EXTENDS RlengthReadout

MCPages == {1, 2, 3}
MCTwoPages == {1, 2}

=============================================================================
