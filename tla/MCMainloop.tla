----------------------------- MODULE MCMainloop -----------------------------
(* Instances of Mainloop for TLC: contracts a client may keep, and the     *)
(* symmetry of record addresses.                                           *)
EXTENDS Mainloop, TLC

CONSTANTS r1, r2, r3

NoOps == {}
AllOps == Ops
\* A callback removes only the descriptor it was called for.
OwnOps == {"add", "modify", "remove_own", "quit"}

Addresses == Permutations(Record)
=============================================================================
