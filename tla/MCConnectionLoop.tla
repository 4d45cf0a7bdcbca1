-------------------------- MODULE MCConnectionLoop --------------------------
(* Three clients.  With two slots, two are served while the third is       *)
(* delayed; with one slot, one is served, one delayed and one refused.     *)
EXTENDS ConnectionLoop

MCConn == 1..3
=============================================================================
