-------------------------- MODULE ServiceContract --------------------------
(***************************************************************************)
(* What the server promises a client, whatever sockets, timers and threads *)
(* it takes: a connection is turned away, or served; at most limit are     *)
(* being served at once; a served one is answered at most once and leaves  *)
(* for good.                                                               *)
(***************************************************************************)
EXTENDS Naturals, FiniteSets

CONSTANT Conn

VARIABLES fate, limit

Fate == {"away", "served", "answered", "gone"}

Inside == {c \in Conn : fate[c] \in {"served", "answered"}}

Init == fate = [c \in Conn |-> "away"] /\ limit \in Nat

Move(c, from, to) ==
    /\ fate[c] = from
    /\ fate' = [fate EXCEPT ![c] = to]
    /\ UNCHANGED limit

Serve(c) == Cardinality(Inside) < limit /\ Move(c, "away", "served")

TurnAway(c) == Move(c, "away", "gone")

Answer(c) == Move(c, "served", "answered")

Leave(c) == Move(c, "served", "gone") \/ Move(c, "answered", "gone")

Next == \E c \in Conn : Serve(c) \/ TurnAway(c) \/ Answer(c) \/ Leave(c)

Spec == Init /\ [][Next]_<<fate, limit>>
=============================================================================
