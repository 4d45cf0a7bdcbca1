------------------------------ MODULE Program ------------------------------
(***************************************************************************)
(* wmain: a process reads its configuration and then executes its command. *)
(* Of the processes with a command of Service::Control one is followed     *)
(* while it reads; the others, and the service, read the same files, and   *)
(* a service that cannot is one that dies at once.                         *)
(***************************************************************************)
EXTENDS Configuration, ServiceControl

CONSTANT Followed  \* BOUND: the contents of kkmha.json after which commands are followed

vars == <<configVars, controlVars>>

(* Nobody has a command.                                                   *)
Quiet ==
    /\ clock = 0 /\ installed = "no" /\ status = Stopped /\ work = NoWork
    /\ ctl = [c \in Controller |-> At("start", "ok")]
    /\ stake = [c \in Controller |-> "none"]

(* Any files, and any commands.                                            *)
Init ==
    /\ \E g \in [KeyName -> Given], t \in SUBSET Places, b \in SUBSET Places,
          f \in [config : {"none", "broken", "good"}, map : {"broken", "good"}] :
          Settle(g, f, t, b)
    /\ Quiet \/ ControlInit

TypeOK == ConfigTypeOK /\ ControlTypeOK

Reading == ConfigNext /\ UNCHANGED controlVars

Dispatched(A) == stage = "run" /\ given \in Followed /\ A /\ UNCHANGED configVars

Next ==
    \/ Reading
    \/ Dispatched(WorkerStep) \/ Dispatched(Tick) \/ Dispatched(ControllersStep)

(* Time goes on, the processes run, and the manager answers.  The service  *)
(* may hang.                                                               *)
Fairness ==
    /\ WF_vars(Dispatched(Tick))
    /\ WF_vars(Dispatched(WorkerEnds /\ UNCHANGED <<clock, installed, ctl>>))
    /\ \A c \in Controller : WF_vars(Dispatched(ControllerStep(c)))

Spec == Init /\ [][Next]_vars /\ Fairness
=============================================================================
