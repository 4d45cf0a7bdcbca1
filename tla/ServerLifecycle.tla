-------------------------- MODULE ServerLifecycle --------------------------
(***************************************************************************)
(* Starting and stopping the server (server_core.cpp, server_hitman.h and  *)
(* Service::Worker of service_core.cpp).  Four threads of control share    *)
(* s_state, the hitman and the latch s_shutdownSync:                       *)
(*   "run"     run(): owns the ioContext and turns its loop;               *)
(*   "listen"  the listen() coroutine, inside that loop;                   *)
(*   "start"   start(), called by the service: polls s_state;              *)
(*   "stop"    stop(): in a thread of its own after a signal (foreground)  *)
(*             or in the service's control handler.                        *)
(* Requests are coroutines of the loop whose handlers run in threads.      *)
(* Asserts are compiled out, as in the release build.                      *)
(***************************************************************************)
EXTENDS Integers, FiniteSets

CONSTANTS
    Request,    \* connections that may be accepted
    StartPolls, \* c_controlTimeout / c_sleepQuantum in start()
    WaitPolls,  \* the same in stop()
    PausePolls  \* c_sleep / c_sleepQuantum

ASSUME LifecycleAssumption ==
    /\ IsFiniteSet(Request)
    /\ StartPolls \in Nat /\ WaitPolls \in Nat /\ PausePolls \in Nat

VARIABLES
    mode,    \* how the program was launched
    state,   \* s_state
    gun,     \* Hitman::m_gun: stops the ioContext, or does nothing
    counter, \* Hitman::m_counter
    ioc,     \* the ioContext
    latch,   \* s_shutdownSync
    armed,   \* signals.async_wait is pending
    polls,   \* what start() has left
    status,  \* what the service has told the service manager
    pc,      \* where each thread of control is
    req,     \* the requests
    late,    \* history: requests accepted after stop() had begun
    mishap   \* history: what went wrong

hitman == <<gun, counter>>
service == <<polls, status>>
history == <<late, mishap>>
vars == <<mode, state, hitman, ioc, latch, armed, service, pc, req, history>>

Thread == {"run", "listen", "start", "stop"}
Location == {"none", "begin", "context", "order", "loop", "cancel", "destroy",
             "arrive", "wait", "done", "threw", "ready", "accept", "test",
             "linger", "count-down", "mark", "check", "fire", "poll", "join",
             "report", "enter", "await", "pause", "unwind", "catch"}
Mishap == {"early-stop",      \* a signal before the listener runs
           "listener-died",   \* listen() threw
           "start-gave-up",   \* the polls ran out while Starting
           "no-thread",       \* no thread to be had for stop()
           "wait-ran-out"}    \* stop() gave up waiting for the requests

TypeOK ==
    /\ mode \in {"foreground", "service"}
    /\ state \in {"Initial", "Starting", "Running", "Shutdown", "Stopping"}
    /\ gun \in {"nothing", "ioContext"}
    /\ counter \in Int /\ latch \in Int
    /\ ioc \in {"none", "alive", "stopped", "destroyed"}
    /\ armed \in BOOLEAN
    /\ polls \in 0..StartPolls
    /\ status \in {"none", "START_PENDING", "RUNNING", "STOP_PENDING", "STOPPED"}
    /\ pc \in [Thread -> Location]
    /\ req \in [Request -> {"none", "live", "working", "answered", "closed",
                            "dropped", "orphaned"}]
    /\ late \subseteq Request
    /\ mishap \subseteq Mishap

Init ==
    /\ mode \in {"foreground", "service"}
    /\ state = "Initial"
    /\ gun = "nothing" /\ counter = -1
    /\ ioc = "none"
    /\ latch = 2
    /\ armed = FALSE
    /\ polls = StartPolls
    /\ status = "none"
    /\ pc = [t \in Thread |->
              IF t = "run" /\ mode = "foreground" THEN "begin" ELSE "none"]
    /\ req = [r \in Request |-> "none"]
    /\ late = {} /\ mishap = {}

(* main() returns: after run() in the foreground, after the dispatcher has *)
(* seen SERVICE_STOPPED in a service.  An exception that leaves the thread *)
(* of run() ends the service's process.                                    *)
Exited ==
    \/ pc["run"] = "threw"
    \/ mode = "foreground" /\ pc["run"] = "done"
    \/ status = "STOPPED"

At(t, l) == pc[t] = l
Goto(t, l) == pc' = [pc EXCEPT ![t] = l]
Regret(m) == mishap' = mishap \cup {m}

-----------------------------------------------------------------------------
(* std::latch.  Arriving once too often makes the counter negative, and    *)
(* then nobody who waits, or arrives to wait, ever sees zero.              *)
ArriveAndWait(t) ==
    /\ At(t, "arrive")
    /\ latch' = latch - 1
    /\ Goto(t, IF latch = 1 THEN "done" ELSE "wait")
    /\ UNCHANGED <<mode, state, hitman, ioc, armed, service, req, history>>

WaitLatch(t) ==
    /\ At(t, "wait")
    /\ latch = 0
    /\ Goto(t, "done")
    /\ UNCHANGED <<mode, state, hitman, ioc, latch, armed, service, req, history>>

(* Hitman::completeOrder: the counter is looked at without the mutex.      *)
AfterOrder(t) == CASE t = "listen" -> "done" [] t = "start" -> "join"
                   [] OTHER -> "arrive"

CheckOrder(t) ==
    /\ At(t, "check")
    /\ Goto(t, IF counter < 0 THEN AfterOrder(t) ELSE "fire")
    /\ UNCHANGED <<mode, state, hitman, ioc, latch, armed, service, req, history>>

FireGun(t) ==
    /\ At(t, "fire")
    /\ ioc' = IF gun = "ioContext" THEN "stopped" ELSE ioc
    /\ gun' = "nothing" /\ counter' = -1
    /\ Goto(t, AfterOrder(t))
    /\ UNCHANGED <<mode, state, latch, armed, service, req, history>>

-----------------------------------------------------------------------------
(* run() *)
RunBegins ==
    /\ At("run", "begin")
    /\ state' = "Starting"
    /\ Goto("run", "context")
    /\ UNCHANGED <<mode, hitman, ioc, latch, armed, service, req, history>>

MakeContext ==
    /\ At("run", "context")
    /\ ioc' = "alive"
    /\ armed' = (mode = "foreground")
    /\ Goto("run", "order")
    /\ UNCHANGED <<mode, state, hitman, latch, service, req, history>>

(* The constructors throw, or ioContext.run() has: the catch block, and    *)
(* the exception goes on.                                                  *)
RunThrows ==
    /\ pc["run"] \in {"context", "catch"}
    /\ gun' = "nothing" /\ counter' = -1
    /\ state' = "Stopping"
    /\ latch' = latch - 1
    /\ Goto("run", "threw")
    /\ UNCHANGED <<mode, ioc, armed, service, req, history>>

(* placeOrder, and co_spawn queues listen(). *)
PlaceOrder ==
    /\ At("run", "order")
    /\ gun' = "ioContext" /\ counter' = 0
    /\ pc' = [pc EXCEPT !["run"] = "loop", !["listen"] = "ready"]
    /\ UNCHANGED <<mode, state, ioc, latch, armed, service, req, history>>

(* listen() is between two suspension points: the one thread of the loop   *)
(* turns nothing else.                                                     *)
MidStep == pc["listen"] \in {"test", "count-down", "mark", "check", "fire"}

Turning == At("run", "loop") /\ ioc = "alive" /\ ~MidStep

(* s_concurrentRequestsCounter > 0 counts these. *)
InFlight(r) == req[r] \in {"live", "working", "answered"}

LoopEnds ==
    /\ At("run", "loop")
    /\ ~MidStep
    /\ \/ ioc = "stopped"
       \/ At("listen", "done") /\ ~armed /\ \A r \in Request : ~InFlight(r)
    /\ Goto("run", "cancel")
    /\ UNCHANGED <<mode, state, hitman, ioc, latch, armed, service, req, history>>

(* Variant for the mutation runs: the context dies first. *)
ForgetOrder ==
    /\ At("run", "cancel")
    /\ Goto("run", "destroy")
    /\ UNCHANGED <<mode, state, hitman, ioc, latch, armed, service, req, history>>

CancelOrder ==
    /\ At("run", "cancel")
    /\ gun' = "nothing" /\ counter' = -1
    /\ Goto("run", "destroy")
    /\ UNCHANGED <<mode, state, ioc, latch, armed, service, req, history>>

(* The frames in the loop die with it; a frame that waits for its worker   *)
(* belongs to the worker's completion handler and survives.                *)
ContextDies ==
    /\ ioc' = "destroyed"
    /\ req' = [r \in Request |-> IF req[r] \in {"live", "answered"}
                                 THEN "dropped" ELSE req[r]]
    /\ armed' = FALSE
    /\ UNCHANGED <<mode, state, hitman, latch, service, history>>

DestroyContext == At("run", "destroy") /\ Goto("run", "arrive") /\ ContextDies

(* An exception from ioContext.run() leaves the block: cancelOrder() is    *)
(* called only afterwards, in the catch block.                             *)
Unwind == At("run", "unwind") /\ Goto("run", "catch") /\ ContextDies

-----------------------------------------------------------------------------
(* listen() *)
ListenStarts ==
    /\ Turning /\ At("listen", "ready")
    /\ state' = "Running"
    /\ Goto("listen", "accept")
    /\ UNCHANGED <<mode, hitman, ioc, latch, armed, service, req, history>>

(* A certificate or the port is not to be had; or, later, the shutdown of  *)
(* a socket there is no room for throws.                                   *)
ListenThrows ==
    /\ Turning /\ pc["listen"] \in {"ready", "accept"}
    /\ Goto("listen", "count-down")
    /\ Regret("listener-died")
    /\ UNCHANGED <<mode, state, hitman, ioc, latch, armed, service, req, late>>

Accept(r) ==
    /\ Turning /\ At("listen", "accept")
    /\ req[r] = "none"
    /\ req' = [req EXCEPT ![r] = "live"]
    /\ late' = IF At("stop", "none") \/ At("stop", "enter") THEN late
               ELSE late \cup {r}
    /\ Goto("listen", "test")
    /\ UNCHANGED <<mode, state, hitman, ioc, latch, armed, service, mishap>>

(* Variant for the mutation runs: the loop goes on until Stopping. *)
AcceptUntilStopping ==
    /\ At("listen", "test")
    /\ Goto("listen", IF state # "Stopping" THEN "accept" ELSE "linger")
    /\ UNCHANGED <<mode, state, hitman, ioc, latch, armed, service, req, history>>

TestState ==
    /\ At("listen", "test")
    /\ Goto("listen", IF state = "Running" THEN "accept" ELSE "linger")
    /\ UNCHANGED <<mode, state, hitman, ioc, latch, armed, service, req, history>>

Linger ==
    /\ Turning /\ At("listen", "linger")
    /\ state # "Shutdown"
    /\ Goto("listen", "done")
    /\ UNCHANGED <<mode, state, hitman, ioc, latch, armed, service, req, history>>

CountDown ==
    /\ At("listen", "count-down")
    /\ latch' = latch - 1
    /\ Goto("listen", "mark")
    /\ UNCHANGED <<mode, state, hitman, ioc, armed, service, req, history>>

MarkStopping ==
    /\ At("listen", "mark")
    /\ state' = "Stopping"
    /\ Goto("listen", "check")
    /\ UNCHANGED <<mode, hitman, ioc, latch, armed, service, req, history>>

-----------------------------------------------------------------------------
(* accept() and its worker, as far as stopping is concerned *)
Dispatch(r) ==
    /\ Turning /\ req[r] = "live"
    /\ req' = [req EXCEPT ![r] = "working"]
    /\ UNCHANGED <<mode, state, hitman, ioc, latch, armed, service, pc, history>>

WorkerEnds(r) ==
    /\ req[r] = "working"
    /\ req' = [req EXCEPT ![r] = IF ioc = "destroyed" THEN "orphaned" ELSE "answered"]
    /\ UNCHANGED <<mode, state, hitman, ioc, latch, armed, service, pc, history>>

Close(r) ==
    /\ Turning /\ req[r] \in {"live", "answered"}
    /\ req' = [req EXCEPT ![r] = "closed"]
    /\ UNCHANGED <<mode, state, hitman, ioc, latch, armed, service, pc, history>>

-----------------------------------------------------------------------------
(* start(), inside Worker::start *)
StartService ==
    /\ mode = "service" /\ At("start", "none")
    /\ status' = "START_PENDING"
    /\ pc' = [pc EXCEPT !["start"] = "poll", !["run"] = "begin"]
    /\ UNCHANGED <<mode, state, hitman, ioc, latch, armed, polls, req, history>>

(* No thread to be had. *)
StartThrows ==
    /\ mode = "service" /\ At("start", "none")
    /\ status' = "STOPPED"
    /\ Goto("start", "done")
    /\ UNCHANGED <<mode, state, hitman, ioc, latch, armed, polls, req, history>>

(* Variant for the mutation runs: one poll too many. *)
PollPastZero ==
    /\ At("start", "poll")
    /\ polls' = polls - 1
    /\ Goto("start", IF state = "Running" THEN "report" ELSE "poll")
    /\ UNCHANGED <<mode, state, hitman, ioc, latch, armed, status, req, history>>

Poll ==
    /\ At("start", "poll") /\ polls > 0
    /\ polls' = polls - 1
    /\ Goto("start", CASE state = "Running" -> "report"
                       [] state \in {"Shutdown", "Stopping"} -> "check"
                       [] OTHER -> "poll")
    /\ UNCHANGED <<mode, state, hitman, ioc, latch, armed, status, req, history>>

GiveUp ==
    /\ At("start", "poll") /\ polls = 0
    /\ Goto("start", "check")
    /\ Regret("start-gave-up")
    /\ UNCHANGED <<mode, state, hitman, ioc, latch, armed, service, req, late>>

ReportRunning ==
    /\ At("start", "report")
    /\ status' = "RUNNING"
    /\ Goto("start", "done")
    /\ UNCHANGED <<mode, state, hitman, ioc, latch, armed, polls, req, history>>

(* Variant for the mutation runs: the thread is abandoned. *)
DetachServer ==
    /\ At("start", "join")
    /\ status' = "STOPPED"
    /\ Goto("start", "done")
    /\ UNCHANGED <<mode, state, hitman, ioc, latch, armed, polls, req, history>>

JoinServer ==
    /\ At("start", "join")
    /\ At("run", "done")
    /\ status' = "STOPPED"
    /\ Goto("start", "done")
    /\ UNCHANGED <<mode, state, hitman, ioc, latch, armed, polls, req, history>>

-----------------------------------------------------------------------------
(* stop(): after SIGINT or SIGTERM ... *)
Signal ==
    /\ Turning /\ armed
    /\ armed' = FALSE
    /\ Goto("stop", "enter")
    /\ mishap' = mishap \cup (IF At("listen", "ready") THEN {"early-stop"} ELSE {})
    /\ UNCHANGED <<mode, state, hitman, ioc, latch, service, req, late>>

(* ... or for want of one the handler throws, out of ioContext.run() ... *)
SignalThrows ==
    /\ Turning /\ armed
    /\ armed' = FALSE
    /\ Goto("run", "unwind")
    /\ Regret("no-thread")
    /\ UNCHANGED <<mode, state, hitman, ioc, latch, service, req, late>>

(* ... or inside Worker::stop, which the manager calls only for RUNNING.   *)
StopControl ==
    /\ mode = "service" /\ status = "RUNNING" /\ At("stop", "none")
    /\ status' = "STOP_PENDING"
    /\ Goto("stop", "enter")
    /\ UNCHANGED <<mode, state, hitman, ioc, latch, armed, polls, req, history>>

(* Shutdown, and await() sets the counter. *)
EnterStop ==
    /\ At("stop", "enter")
    /\ state' = "Shutdown"
    /\ counter' = WaitPolls
    /\ Goto("stop", "await")
    /\ UNCHANGED <<mode, gun, ioc, latch, armed, service, req, history>>

(* Variant for the mutation runs: the wait has no limit. *)
AwaitForever ==
    /\ At("stop", "await")
    /\ counter > 0 /\ \E r \in Request : InFlight(r)
    /\ UNCHANGED vars

AwaitRequests ==
    /\ At("stop", "await")
    /\ counter > 0 /\ \E r \in Request : InFlight(r)
    /\ counter' = counter - 1
    /\ UNCHANGED <<mode, state, gun, ioc, latch, armed, service, pc, req, history>>

(* Variant for the mutation runs: the requests are not waited for. *)
StopAtOnce ==
    /\ At("stop", "await")
    /\ state' = "Stopping"
    /\ counter' = PausePolls
    /\ Goto("stop", "pause")
    /\ UNCHANGED <<mode, gun, ioc, latch, armed, service, req, history>>

AwaitEnds ==
    /\ At("stop", "await")
    /\ counter <= 0 \/ \A r \in Request : ~InFlight(r)
    /\ state' = "Stopping"
    /\ counter' = PausePolls
    /\ Goto("stop", "pause")
    /\ mishap' = mishap \cup
         (IF \E r \in Request : InFlight(r) THEN {"wait-ran-out"} ELSE {})
    /\ UNCHANGED <<mode, gun, ioc, latch, armed, service, req, late>>

Pause ==
    /\ At("stop", "pause")
    /\ \/ /\ counter > 0
          /\ counter' = counter - 1
          /\ UNCHANGED pc
       \/ /\ counter <= 0
          /\ Goto("stop", "check")
          /\ UNCHANGED counter
    /\ UNCHANGED <<mode, state, gun, ioc, latch, armed, service, req, history>>

ReportStopped ==
    /\ At("stop", "done") /\ status = "STOP_PENDING"
    /\ status' = "STOPPED"
    /\ UNCHANGED <<mode, state, hitman, ioc, latch, armed, polls, pc, req, history>>

-----------------------------------------------------------------------------
RunStep ==
    \/ RunBegins \/ MakeContext \/ RunThrows \/ PlaceOrder \/ LoopEnds
    \/ CancelOrder \/ DestroyContext \/ Unwind \/ ArriveAndWait("run") \/ WaitLatch("run")

ListenStep ==
    \/ ListenStarts \/ TestState \/ Linger \/ CountDown \/ MarkStopping
    \/ CheckOrder("listen") \/ FireGun("listen")

StartStep ==
    \/ StartService \/ Poll \/ GiveUp \/ ReportRunning \/ JoinServer
    \/ CheckOrder("start") \/ FireGun("start")

StopStep ==
    \/ EnterStop \/ AwaitRequests \/ AwaitEnds \/ Pause \/ ReportStopped
    \/ CheckOrder("stop") \/ FireGun("stop")
    \/ ArriveAndWait("stop") \/ WaitLatch("stop")

Outside ==
    \/ ListenThrows \/ StartThrows \/ Signal \/ SignalThrows \/ StopControl
    \/ \E r \in Request : Accept(r) \/ Dispatch(r) \/ WorkerEnds(r) \/ Close(r)

Next == ~Exited /\ (RunStep \/ ListenStep \/ StartStep \/ StopStep \/ Outside)

(* The threads are scheduled and every sleep ends.  Nothing is assumed of  *)
(* the clients, the workers, the signals or the service manager.           *)
Fairness ==
    /\ WF_vars(~Exited /\ RunStep)
    /\ WF_vars(~Exited /\ ListenStep)
    /\ WF_vars(~Exited /\ StartStep)
    /\ WF_vars(~Exited /\ StopStep)

Spec == Init /\ [][Next]_vars /\ Fairness

-----------------------------------------------------------------------------
(* However start(), stop() and a dying listener race with run(), and with  *)
(* the unwinding of run(), which destroys the ioContext before it takes    *)
(* the order back: whoever is about to fire the gun (completeOrder) finds  *)
(* it pointing at a living ioContext, or at nothing.                       *)
GunSafe ==
    gun = "ioContext" /\ (\E t \in Thread : At(t, "fire")) => ioc \in {"alive", "stopped"}

(* A stopping server admits one connection at most: the one the listener,  *)
(* blocked in async_accept, was waiting for.                               *)
OneLate == Cardinality(late) <= 1 \/ "early-stop" \in mishap

CutOff(r) == \/ req[r] \in {"dropped", "orphaned"}
             \/ req[r] = "working" /\ ioc = "destroyed"

(* stop() lets the requests finish: one that is cut off, its worker        *)
(* perhaps still at a cash register, was accepted after stop() began, or   *)
(* the wait ran out, or the listener died, or the start or the stop was    *)
(* abnormal.                                                               *)
NoRequestCutOff ==
    \A r \in Request : CutOff(r) => r \in late \/ mishap # {}

(* The manager is told STOPPED only when the loop is over and nothing of   *)
(* it is left, unless the listener had died.                               *)
StoppedMeansStopped ==
    status = "STOPPED" => ioc \in {"none", "destroyed"} \/ "listener-died" \in mishap

(* stop() ends, whatever the requests do and whoever has arrived at the    *)
(* latch, and in the foreground the program with it; the service comes to  *)
(* report RUNNING or STOPPED when the listener comes up or fails in time.  *)
ControlsEnd ==
    /\ At("stop", "enter") ~> Exited \/ "listener-died" \in mishap
    /\ status = "START_PENDING"
          ~> status # "START_PENDING" \/ Exited \/ "start-gave-up" \in mishap

(* assert(s_state.load() == State::Running), the first line of stop().     *)
StopFromRunning == At("stop", "enter") => state = "Running"
=============================================================================
