---------------------------- MODULE MCLifecycle ----------------------------
(***************************************************************************)
(* Lifecycle on a machine as it should be, on another board, and on        *)
(* machines with one thing wrong or with rights and driver both missing.   *)
(***************************************************************************)
EXTENDS Lifecycle

MCMachines == {{}, {"user", "driver"}} \cup {{condition} : condition \in Conditions}
=============================================================================
