--------------------------- MODULE MCKkmOpHandler ---------------------------
(* Three requests (a request, its retry and a third one that triggers the  *)
(* clean-up or reuses the key) and one cash register.                      *)
EXTENDS KkmOpHandler, TLC

CONSTANTS k1, k2, d1

Ask(k, op, defect) == [key |-> k, op |-> op, kkm |-> d1, defect |-> defect]

(* Every operation under one key, a second key, no key at all, and each    *)
(* defect once.                                                            *)
MCMessage ==
    {Ask(k1, op, "none") : op \in Op}
    \cup {Ask(k1, "receipt", d) : d \in {"route", "serial", "content-type"}}
    \cup {Ask(k2, "receipt", "none"), Ask(NoKey, "status", "none")}

(* Receipts under one key only: what the documentation promises most.      *)
MCReceipt == {Ask(k1, "receipt", "none")}

Symmetry == Permutations(Request)
=============================================================================
