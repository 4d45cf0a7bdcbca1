--------------------------- MODULE ServiceControl ---------------------------
(***************************************************************************)
(* The commands start, stop, restart, install and uninstall: processes of  *)
(* the program (wmain, Service::Control) that ask the service manager to   *)
(* start or stop another process of it, the service (Service::Worker), and *)
(* poll the status that one reports until it changes or their patience is  *)
(* over.  Time is counted in sleeps, and GetTickCount() begins anew after  *)
(* Modulus of them.                                                        *)
(*                                                                         *)
(* What the service does meanwhile is ServerLifecycle's; here it is a work *)
(* of at most WorkTime that succeeds, fails, hangs or dies.  The manager   *)
(* is external.                                                            *)
(***************************************************************************)
EXTENDS Integers, FiniteSets

CONSTANTS
    Controller,     \* processes that execute a command each
    Modulus,        \* GetTickCount() is a DWORD
    WaitHint,       \* c_waitHint
    ControlTimeout, \* c_controlTimeout
    WorkTime,       \* what Server::start() and stop() take, c_controlTimeout of theirs
    FirstHint,      \* the manager's hint before the service has given one
    MaxDelay,       \* BOUND: sleeps a process may be late
    MaxCheckPoint   \* BOUND: stops of one service that fail

(* The static_asserts of service_core.cpp, and the manager's part: a new   *)
(* service reports within the hint it is given.                            *)
ASSUME ControlAssumption ==
    /\ {FirstHint, WorkTime, WaitHint, ControlTimeout, MaxDelay} \subseteq Nat \ {0}
    /\ MaxCheckPoint \in Nat
    /\ WorkTime < WaitHint /\ WaitHint < ControlTimeout
    /\ FirstHint + WorkTime < ControlTimeout
    /\ Modulus \in Nat /\ Modulus > ControlTimeout + MaxDelay + 1

VARIABLES
    clock,     \* GetTickCount()
    installed, \* "no", "yes", or "marked" for deletion
    status,    \* the service's, as the manager tells it
    work,      \* what the service's process is doing, and for how long
    ctl,       \* the processes with a command
    stake      \* history: what each command has to do with the work under way

controlVars == <<clock, installed, status, work, ctl, stake>>

State == {"STOPPED", "START_PENDING", "RUNNING", "STOP_PENDING"}
Pending == {"START_PENDING", "STOP_PENDING"}
Command == {"start", "stop", "restart", "install", "uninstall"}
Place == {"idle", "open", "stop", "control", "answer", "await-stopped", "start",
          "await-old", "launch", "launching", "await-started", "delete",
          "ok", "failed"}
Awaiting == {"await-stopped", "await-old", "await-started"}
Ended == {"ok", "failed"}

ControlTypeOK ==
    /\ clock \in 0..Modulus - 1
    /\ installed \in {"no", "yes", "marked"}
    /\ status \in [state : State, checkPoint : 0..MaxCheckPoint + 2,
                   hint : {0, FirstHint, WaitHint}]
    /\ status.state \in Pending <=> status.hint # 0
    /\ work \in [doing : {"nothing", "launch", "main", "starting", "serving",
                          "stopping", "hung"},
                 age : 0..WorkTime + FirstHint, reports : 0..MaxCheckPoint + 2]
    /\ ctl \in [Controller ->
                  [command : Command, pc : Place, from : 0..Modulus - 1,
                   ticks : 0..Modulus - 1, checkPoint : 0..MaxCheckPoint + 2,
                   slept : 0..MaxDelay]]
    /\ stake \in [Controller -> {"none", "waits for it", "gave it up", "was wrong"}]

Stopped == [state |-> "STOPPED", checkPoint |-> 0, hint |-> 0]
NoWork == [doing |-> "nothing", age |-> 0, reports |-> 0]

At(command, pc) ==
    [command |-> command, pc |-> pc, from |-> 0, ticks |-> 0, checkPoint |-> 0, slept |-> 0]

ControlInit ==
    /\ clock \in 0..Modulus - 1
    /\ installed \in {"no", "yes"}
    /\ status = Stopped
    /\ work = NoWork
    /\ ctl \in [Controller -> {At(m, "idle") : m \in Command}]
    /\ stake = [c \in Controller |-> "none"]

-----------------------------------------------------------------------------
(* Variant for the mutation runs: the hint is left as it was.              *)
ReportKeepingHint(state, w) ==
    LET n == IF state \in Pending THEN w.reports + 1 ELSE w.reports IN
    /\ status' = [state |-> state,
                  checkPoint |-> IF state \in Pending THEN n ELSE 0,
                  hint |-> IF state \in Pending THEN WaitHint ELSE status.hint]
    /\ work' = [w EXCEPT !.reports = n, !.age = 0]

(* Service::Worker, in a process of its own.  setStatus numbers what is    *)
(* pending.                                                                *)
Report(state, w) ==
    LET n == IF state \in Pending THEN w.reports + 1 ELSE w.reports IN
    /\ status' = [state |-> state,
                  checkPoint |-> IF state \in Pending THEN n ELSE 0,
                  hint |-> IF state \in Pending THEN WaitHint ELSE 0]
    /\ work' = [w EXCEPT !.reports = n, !.age = 0]

Doing(d) == [work EXCEPT !.doing = d]

Over(succeeded) ==
    stake' = [c \in Controller |->
                IF stake[c] = "was wrong" \/ (stake[c] = "gave it up" /\ succeeded)
                THEN "was wrong" ELSE "none"]

ThreadBegins ==
    /\ work.doing = "launch"
    /\ work' = [work EXCEPT !.doing = "main", !.age = 0]
    /\ UNCHANGED <<status, stake>>

WorkerStarts ==
    /\ work.doing = "main"
    /\ Report("START_PENDING", Doing("starting"))
    /\ UNCHANGED stake

WorkerStarted ==
    /\ work.doing = "starting"
    /\ \/ Report("RUNNING", Doing("serving")) /\ Over(TRUE)
       \/ Report("STOPPED", NoWork) /\ Over(FALSE)

(* A stop that fails takes the state back that the service had before.     *)
WorkerStopped ==
    /\ work.doing = "stopping"
    /\ \/ Report("STOPPED", NoWork) /\ Over(TRUE)
       \/ /\ work.reports < MaxCheckPoint + 2
          /\ Report("RUNNING", Doing("serving")) /\ Over(FALSE)

Hangs ==
    /\ work.doing \in {"starting", "stopping"}
    /\ work' = [Doing("hung") EXCEPT !.age = 0]
    /\ UNCHANGED <<status, stake>>

(* The process is gone: its configuration is wrong, or it dies.            *)
Dies ==
    /\ work.doing # "nothing"
    /\ status' = Stopped /\ work' = NoWork /\ Over(FALSE)

WorkerEnds == ThreadBegins \/ WorkerStarts \/ WorkerStarted \/ WorkerStopped \/ Hangs

WorkerStep == (WorkerEnds \/ Dies) /\ UNCHANGED <<clock, installed, ctl>>

-----------------------------------------------------------------------------
Set(c, pc) == ctl' = [ctl EXCEPT ![c] = At(@.command, pc)]
Else == UNCHANGED <<clock, installed, status, work>>
OnlyControl == Else /\ UNCHANGED stake

(* Service::Control with the state it has been told: what comes next.      *)
AfterStop(c) ==
    CASE ctl[c].command = "stop" -> "ok"
      [] ctl[c].command = "restart" -> "start"
      [] ctl[c].command = "uninstall" -> "delete"

Launched(c) ==
    /\ ctl[c].pc = "idle"
    /\ Set(c, "open") /\ OnlyControl

Open(c) ==
    /\ ctl[c].pc = "open"
    /\ \/ ctl[c].command # "install" /\ installed # "no"
          /\ Set(c, IF ctl[c].command = "start" THEN "start" ELSE "stop")
          /\ UNCHANGED installed
       \/ ctl[c].command = "install" /\ installed = "no"
          /\ Set(c, "ok") /\ installed' = "yes"
       \/ (ctl[c].command = "install" <=> installed # "no")
          /\ Set(c, "failed") /\ UNCHANGED installed
    /\ UNCHANGED <<clock, status, work, stake>>

(* waitNewState begins: the time, and how far the service has got.         *)
Await(c, place) ==
    /\ ctl' = [ctl EXCEPT ![c] = [@ EXCEPT !.pc = place, !.from = clock, !.ticks = clock,
                                           !.checkPoint = status.checkPoint, !.slept = 0]]
    /\ stake' = [stake EXCEPT ![c] = IF status.state \in Pending THEN "waits for it" ELSE "none"]

Proceed(c, pc) == Set(c, pc) /\ UNCHANGED stake

QueryBeforeStop(c) ==
    /\ ctl[c].pc = "stop"
    /\ \/ status.state = "STOPPED" /\ Proceed(c, AfterStop(c))
       \/ status.state = "STOP_PENDING" /\ Await(c, "await-stopped")
       \/ status.state \in {"START_PENDING", "RUNNING"} /\ Proceed(c, "control")
    /\ Else

(* ControlService: the manager passes it on to a service that is running.  *)
SendStop(c) ==
    /\ ctl[c].pc = "control"
    /\ \/ /\ status.state = "RUNNING"
          /\ Set(c, "answer")
          /\ Report("STOP_PENDING", Doing("stopping"))
       \/ /\ status.state # "RUNNING"
          /\ Set(c, "failed")
          /\ UNCHANGED <<status, work>>
    /\ UNCHANGED <<clock, installed, stake>>

(* It returns when the service's handler has, or the manager does not wait *)
(* that long.                                                              *)
StopSent(c) ==
    /\ ctl[c].pc = "answer"
    /\ \/ work.doing # "stopping" /\ Await(c, "await-stopped")
       \/ work.doing \in {"stopping", "hung"} /\ Proceed(c, "failed")
    /\ Else

AfterOld == IF status.state = "STOPPED" THEN "launch" ELSE "ok"

QueryBeforeStart(c) ==
    /\ ctl[c].pc = "start"
    /\ IF status.state = "STOP_PENDING" THEN Await(c, "await-old") ELSE Proceed(c, AfterOld)
    /\ Else

AfterStart == IF status.state = "RUNNING" THEN "ok" ELSE "failed"

StartService(c) ==
    /\ ctl[c].pc = "launch"
    /\ IF status.state = "STOPPED" /\ installed = "yes"
       THEN /\ Set(c, "launching")
            /\ status' = [state |-> "START_PENDING", checkPoint |-> 0, hint |-> FirstHint]
            /\ work' = [NoWork EXCEPT !.doing = "launch"]
       ELSE Set(c, "failed") /\ UNCHANGED <<status, work>>
    /\ UNCHANGED <<clock, installed, stake>>

(* StartServiceW returns when the thread of the service has begun, or the  *)
(* manager does not wait that long.                                        *)
ServiceStarted(c) ==
    /\ ctl[c].pc = "launching"
    /\ \/ work.doing = "launch" /\ Proceed(c, "failed")
       \/ /\ work.doing # "launch"
          /\ IF status.state = "START_PENDING" THEN Await(c, "await-started")
             ELSE Proceed(c, AfterStart)
    /\ Else

Delete(c) ==
    /\ ctl[c].pc = "delete"
    /\ Set(c, IF installed = "yes" THEN "ok" ELSE "failed")
    /\ installed' = IF installed = "yes" THEN "marked" ELSE installed
    /\ UNCHANGED <<clock, status, work, stake>>

(* A difference of two DWORDs. *)
Elapsed(t) == (clock - t) % Modulus

(* Variant for the mutation runs: no progress counts as some.              *)
ProgressOrNone(c) == status.checkPoint >= ctl[c].checkPoint

Progress(c) == status.checkPoint > ctl[c].checkPoint

(* Variant for the mutation runs: the hint of before the service had one.  *)
RunsOutByFirstHint(c) ==
    ~Progress(c) /\ Elapsed(ctl[c].ticks) > FirstHint

RunsOut(c) ==
    /\ ~Progress(c)
    /\ \/ Elapsed(ctl[c].ticks) > status.hint
       \/ Elapsed(ctl[c].from) > ControlTimeout

Awaited(c) == IF ctl[c].pc = "await-started" THEN "START_PENDING" ELSE "STOP_PENDING"

GivesUp(c) == RunsOut(c) /\ status.state = Awaited(c)

(* The loop of waitNewState, and what is done with the state it returns.   *)
AfterAwaiting(c) ==
    CASE GivesUp(c) -> "failed"
      [] ~GivesUp(c) /\ ctl[c].pc = "await-old" -> AfterOld
      [] ~GivesUp(c) /\ ctl[c].pc = "await-started" -> AfterStart
      [] ~GivesUp(c) /\ ctl[c].pc = "await-stopped" ->
           IF status.state = "STOPPED" THEN AfterStop(c) ELSE "failed"

Poll(c) ==
    /\ ctl[c].pc \in Awaiting /\ ctl[c].slept > 0
    /\ IF status.state = Awaited(c) /\ ~RunsOut(c)
       THEN ctl' = [ctl EXCEPT ![c] = [@ EXCEPT !.slept = 0,
                !.ticks = IF Progress(c) THEN clock ELSE ctl[c].ticks,
                !.checkPoint = IF Progress(c) THEN status.checkPoint ELSE ctl[c].checkPoint]]
       ELSE Set(c, AfterAwaiting(c))
    /\ stake' = IF GivesUp(c) /\ stake[c] = "waits for it"
                THEN [stake EXCEPT ![c] = "gave it up"] ELSE stake
    /\ Else

(* Any call to the manager may fail: an exception, and the process ends.   *)
ManagerFails(c) ==
    /\ ctl[c].pc \notin {"idle"} \cup Ended
    /\ Set(c, "failed") /\ OnlyControl

ControllerStep(c) ==
    \/ Open(c) \/ QueryBeforeStop(c) \/ SendStop(c) \/ StopSent(c)
    \/ QueryBeforeStart(c) \/ StartService(c) \/ ServiceStarted(c) \/ Delete(c)
    \/ Poll(c)

-----------------------------------------------------------------------------
TimeOf(d) == IF d \in {"launch", "main"} THEN FirstHint ELSE WorkTime

Tick ==
    /\ work.doing \in {"launch", "main", "starting", "stopping"} =>
          work.age < TimeOf(work.doing)
    /\ \A c \in Controller : ctl[c].pc \in Awaiting => ctl[c].slept < MaxDelay
    /\ clock' = (clock + 1) % Modulus
    /\ work' = IF work.doing \in {"launch", "main", "starting", "stopping"}
               THEN [work EXCEPT !.age = @ + 1] ELSE work
    /\ ctl' = [c \in Controller |->
                 IF ctl[c].pc \in Awaiting THEN [ctl[c] EXCEPT !.slept = @ + 1] ELSE ctl[c]]
    /\ UNCHANGED <<installed, status, stake>>

ControllersStep ==
    \E c \in Controller : Launched(c) \/ ControllerStep(c) \/ ManagerFails(c)

-----------------------------------------------------------------------------
(* A command that reports that the service starts or stops too slowly is   *)
(* not proved wrong by the start or stop it was waiting for: waitNewState  *)
(* gives up only on one that hangs, however late a poll comes, whenever    *)
(* the command has joined in, and wherever the counter of ticks begins     *)
(* anew.  (Between two polls another start may take the place of the one   *)
(* that is waited for; the patience is then that of the first.)            *)
FailureIsFinal == \A c \in Controller : stake[c] # "was wrong"

(* Every command comes to an end, though the service hang in a start or a  *)
(* stop, and wherever the counter of ticks begins anew.                    *)
CommandsEnd == \A c \in Controller : ctl[c].pc = "open" ~> ctl[c].pc \in Ended
=============================================================================
