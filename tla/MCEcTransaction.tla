-------------------------- MODULE MCEcTransaction --------------------------
(***************************************************************************)
(* EcTransaction with two threads of the window and the command line tool. *)
(***************************************************************************)
EXTENDS EcTransaction

MCClients   == {"gui1", "gui2", "cli"}
MCProcessOf == [c \in MCClients |-> IF c = "cli" THEN "tool" ELSE "window"]

\* Two threads, one process each.
MCTwoClients == {"gui1", "cli"}
MCTwoProcess == [c \in MCTwoClients |-> IF c = "cli" THEN "tool" ELSE "window"]
=============================================================================
