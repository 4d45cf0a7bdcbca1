----------------------------- MODULE Operations -----------------------------
(***************************************************************************)
(* The operations of s_handlers (server_kkmop_handler.cpp), by what they   *)
(* do to the cash register and to the response cache: "status" stands for  *)
(* the four GET handlers, "receipt" for sell, sell-return, cash-in and     *)
(* cash-out, "report" for the printed reports, close-shift, report-x,      *)
(* report-z and reset-state.                                               *)
(*                                                                         *)
(* KkmOpHandler relies on Ending; DeviceSession shows that the methods of  *)
(* Device keep it.                                                         *)
(***************************************************************************)

Op == {"status", "receipt", "report", "learn", "reset-registry"}

IsPost(op) == op # "status"

(* How an operation can end, and whether the cash register acted.  A       *)
(* failed result can follow an action (the reply is lost, the closing of   *)
(* the document is not confirmed).  A receipt throws only before its       *)
(* document is closed; a report can throw after the cash-out has been      *)
(* registered, and learn after the parameters have been saved.             *)
Ending(op) ==
    {e \in {"ok", "failed", "threw"} \X BOOLEAN :
        /\ op = "status" => e[1] # "threw" /\ ~e[2]
        /\ op \in {"receipt", "learn"} /\ e[1] = "ok" => e[2]
        /\ op = "receipt" /\ e[1] = "threw" => ~e[2]
        /\ op = "learn" /\ e[1] = "failed" => e[2]}
=============================================================================
