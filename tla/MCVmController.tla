--------------------------- MODULE MCVmController ---------------------------
(***************************************************************************)
(* Model-checking instances of VmController, with the status an operator   *)
(* may read at any time; the cfg files give the sizes and the faults.      *)
(***************************************************************************)
EXTENDS StatusReport
=============================================================================
