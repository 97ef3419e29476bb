--------------------------- MODULE MCButtonDaemon ---------------------------
(***************************************************************************)
(* Instances of ButtonDaemon for TLC.  Nothing tells one printer from      *)
(* another, so the daemon may as well start with the first.                *)
(***************************************************************************)
EXTENDS ButtonDaemon

MCOnePrinter == {"A"}
MCPrinters == {"A", "B"}
MCOneFunc == {"FILE"}
MCRegIds == {"r"}

=============================================================================
