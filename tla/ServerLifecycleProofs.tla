------------------------ MODULE ServerLifecycleProofs ------------------------
(***************************************************************************)
(* ServerLifecycle for any number of requests and any length of the waits: *)
(* its safety invariants, by one inductive invariant in three layers.      *)
(***************************************************************************)
EXTENDS ServerLifecycle, FiniteSetTheorems, TLAPS

LEMMA TypesInit == Init => TypeOK
<1> SUFFICES ASSUME Init PROVE TypeOK
  OBVIOUS
<1>1. pc \in [Thread -> Location]
  <2>1. CASE mode = "foreground"
    <3>1. pc = [t \in Thread |-> IF t = "run" THEN "begin" ELSE "none"]
      BY <2>1 DEF Init
    <3> QED BY <3>1 DEF Location
  <2>2. CASE mode = "service"
    <3>1. pc = [t \in Thread |-> "none"]
      BY <2>2 DEF Init
    <3> QED BY <3>1 DEF Location
  <2> QED BY <2>1, <2>2 DEF Init
<1>2. req \in [Request -> {"none", "live", "working", "answered", "closed",
                           "dropped", "orphaned"}]
  BY DEF Init
<1>3. /\ counter \in Int /\ latch \in Int
      /\ polls \in 0..StartPolls
  BY LifecycleAssumption DEF Init
<1>4. /\ mode \in {"foreground", "service"} /\ state = "Initial"
      /\ gun = "nothing" /\ ioc = "none" /\ armed = FALSE /\ status = "none"
      /\ late = {} /\ mishap = {}
  BY DEF Init
<1> QED BY <1>1, <1>2, <1>3, <1>4 DEF TypeOK

LEMMA TypesNext == TypeOK /\ [Next]_vars => TypeOK'
<1> SUFFICES ASSUME TypeOK, [Next]_vars PROVE TypeOK'
  OBVIOUS
<1> USE LifecycleAssumption
    DEF TypeOK, Thread, Location, At, Goto, hitman, service, history
<1>1. ASSUME ~Exited, RunBegins PROVE TypeOK'
  BY <1>1 DEF RunBegins
<1>2. ASSUME ~Exited, MakeContext PROVE TypeOK'
  BY <1>2 DEF MakeContext
<1>3. ASSUME ~Exited, RunThrows PROVE TypeOK'
  BY <1>3 DEF RunThrows
<1>4. ASSUME ~Exited, PlaceOrder PROVE TypeOK'
  BY <1>4 DEF PlaceOrder
<1>5. ASSUME ~Exited, LoopEnds PROVE TypeOK'
  BY <1>5 DEF LoopEnds
<1>6. ASSUME ~Exited, CancelOrder PROVE TypeOK'
  BY <1>6 DEF CancelOrder
<1>7. ASSUME ~Exited, DestroyContext PROVE TypeOK'
  BY <1>7 DEF DestroyContext, ContextDies
<1>8. ASSUME ~Exited, Unwind PROVE TypeOK'
  BY <1>8 DEF Unwind, ContextDies
<1>9. ASSUME ~Exited, ListenStarts PROVE TypeOK'
  BY <1>9 DEF ListenStarts
<1>10. ASSUME ~Exited, TestState PROVE TypeOK'
  BY <1>10 DEF TestState
<1>11. ASSUME ~Exited, Linger PROVE TypeOK'
  BY <1>11 DEF Linger
<1>12. ASSUME ~Exited, CountDown PROVE TypeOK'
  BY <1>12 DEF CountDown
<1>13. ASSUME ~Exited, MarkStopping PROVE TypeOK'
  BY <1>13 DEF MarkStopping
<1>14. ASSUME ~Exited, StartService PROVE TypeOK'
  BY <1>14 DEF StartService
<1>15. ASSUME ~Exited, Poll PROVE TypeOK'
  BY <1>15 DEF Poll
<1>16. ASSUME ~Exited, GiveUp PROVE TypeOK'
  BY <1>16 DEF GiveUp, Regret, Mishap
<1>17. ASSUME ~Exited, ReportRunning PROVE TypeOK'
  BY <1>17 DEF ReportRunning
<1>18. ASSUME ~Exited, JoinServer PROVE TypeOK'
  BY <1>18 DEF JoinServer
<1>19. ASSUME ~Exited, EnterStop PROVE TypeOK'
  BY <1>19 DEF EnterStop
<1>20. ASSUME ~Exited, AwaitRequests PROVE TypeOK'
  BY <1>20 DEF AwaitRequests
<1>21. ASSUME ~Exited, AwaitEnds PROVE TypeOK'
  BY <1>21 DEF AwaitEnds, Mishap
<1>22. ASSUME ~Exited, Pause PROVE TypeOK'
  BY <1>22 DEF Pause
<1>23. ASSUME ~Exited, ReportStopped PROVE TypeOK'
  BY <1>23 DEF ReportStopped
<1>24. ASSUME ~Exited, ListenThrows PROVE TypeOK'
  BY <1>24 DEF ListenThrows, Regret, Mishap
<1>25. ASSUME ~Exited, StartThrows PROVE TypeOK'
  BY <1>25 DEF StartThrows
<1>26. ASSUME ~Exited, Signal PROVE TypeOK'
  BY <1>26 DEF Signal, Mishap
<1>27. ASSUME ~Exited, SignalThrows PROVE TypeOK'
  BY <1>27 DEF SignalThrows, Regret, Mishap
<1>28. ASSUME ~Exited, StopControl PROVE TypeOK'
  BY <1>28 DEF StopControl
<1>29. ASSUME NEW t \in Thread, ~Exited, CheckOrder(t) PROVE TypeOK'
  BY <1>29 DEF CheckOrder, AfterOrder
<1>30. ASSUME NEW t \in Thread, ~Exited, FireGun(t) PROVE TypeOK'
  BY <1>30 DEF FireGun, AfterOrder
<1>31. ASSUME NEW t \in {"run", "stop"}, ~Exited, ArriveAndWait(t) PROVE TypeOK'
  BY <1>31 DEF ArriveAndWait
<1>32. ASSUME NEW t \in {"run", "stop"}, ~Exited, WaitLatch(t) PROVE TypeOK'
  BY <1>32 DEF WaitLatch
<1>33. ASSUME NEW r \in Request, ~Exited, Accept(r) PROVE TypeOK'
  BY <1>33 DEF Accept
<1>34. ASSUME NEW r \in Request, ~Exited, Dispatch(r) PROVE TypeOK'
  BY <1>34 DEF Dispatch
<1>35. ASSUME NEW r \in Request, ~Exited, WorkerEnds(r) PROVE TypeOK'
  BY <1>35 DEF WorkerEnds
<1>36. ASSUME NEW r \in Request, ~Exited, Close(r) PROVE TypeOK'
  BY <1>36 DEF Close
<1>37. CASE UNCHANGED vars
  BY <1>37 DEF vars
<1> QED
  BY <1>1, <1>2, <1>3, <1>4, <1>5, <1>6, <1>7, <1>8, <1>9, <1>10, <1>11, <1>12,
     <1>13, <1>14, <1>15, <1>16, <1>17, <1>18, <1>19, <1>20, <1>21, <1>22, <1>23,
     <1>24, <1>25, <1>26, <1>27, <1>28, <1>29, <1>30, <1>31, <1>32, <1>33, <1>34,
     <1>35, <1>36, <1>37
     DEF Next, RunStep, ListenStep, StartStep, StopStep, Outside, Thread

-----------------------------------------------------------------------------
(* First layer: what the ioContext is while run() goes through its stages, *)
(* and who has arrived at the latch.                                       *)
Arrived(t) == pc[t] \in {"wait", "done", "threw"}
Died == "listener-died" \in mishap

ContextStages ==
    /\ pc["run"] \in {"none", "begin", "context"} => ioc = "none"
    /\ pc["run"] \in {"order", "loop", "cancel", "destroy", "unwind"}
          => ioc \in {"alive", "stopped"}
    /\ pc["run"] \in {"arrive", "wait", "done", "catch"} => ioc = "destroyed"
    /\ pc["run"] = "threw" => ioc \in {"none", "destroyed"}
    /\ pc["run"] \in {"none", "begin", "context", "threw", "order", "loop", "cancel",
                      "destroy", "arrive", "wait", "done", "unwind", "catch"}

GunWhileLooping == gun = "ioContext" => pc["run"] \in {"loop", "cancel", "unwind", "catch"}

(* While run() unwinds there is nobody else who could complete the order.  *)
UnwindsAlone ==
    /\ mode = "foreground" => pc["start"] = "none"
    /\ pc["run"] \in {"unwind", "catch"} =>
          mode = "foreground" /\ pc["stop"] = "none" /\ ~MidStep /\ "no-thread" \in mishap

RunIsStartedOnce == mode = "service" /\ pc["start"] = "none" => pc["run"] = "none"

SignalOnce ==
    /\ armed => mode = "foreground" /\ pc["stop"] = "none"
    /\ mode = "foreground" /\ pc["run"] \in {"none", "begin", "context"}
          => pc["stop"] = "none"

DeathIsRecorded == pc["listen"] \in {"count-down", "mark", "check", "fire"} => Died

LatchCounts ==
    ~Died => /\ latch = 2 - (IF Arrived("run") THEN 1 ELSE 0)
                          - (IF Arrived("stop") THEN 1 ELSE 0)
             /\ pc["stop"] = "done" => Arrived("run")

Stages ==
    /\ TypeOK /\ ContextStages /\ GunWhileLooping /\ UnwindsAlone /\ RunIsStartedOnce
    /\ SignalOnce /\ DeathIsRecorded /\ LatchCounts /\ StoppedMeansStopped

LEMMA StagesInit == Init => Stages
  BY TypesInit
  DEF Init, Stages, ContextStages, GunWhileLooping, UnwindsAlone, MidStep,
      RunIsStartedOnce, SignalOnce, DeathIsRecorded, LatchCounts, StoppedMeansStopped, Arrived, Thread

LEMMA StagesNext == Stages /\ [Next]_vars => Stages'
<1> SUFFICES ASSUME Stages, [Next]_vars PROVE Stages'
  OBVIOUS
<1>t. TypeOK'
  BY TypesNext DEF Stages
<1> USE DEF Stages, ContextStages, GunWhileLooping, UnwindsAlone, MidStep,
        RunIsStartedOnce, SignalOnce, DeathIsRecorded, LatchCounts, StoppedMeansStopped, Arrived, Died, TypeOK, Thread,
        At, Goto, hitman, service, history, Exited
<1>1. ASSUME ~Exited, RunBegins PROVE Stages'
  BY <1>1, <1>t DEF RunBegins
<1>2. ASSUME ~Exited, MakeContext PROVE Stages'
  BY <1>2, <1>t DEF MakeContext
<1>3. ASSUME ~Exited, RunThrows PROVE Stages'
  BY <1>3, <1>t DEF RunThrows
<1>4. ASSUME ~Exited, PlaceOrder PROVE Stages'
  BY <1>4, <1>t DEF PlaceOrder
<1>5. ASSUME ~Exited, LoopEnds PROVE Stages'
  BY <1>5, <1>t DEF LoopEnds
<1>6. ASSUME ~Exited, CancelOrder PROVE Stages'
  BY <1>6, <1>t DEF CancelOrder
<1>7. ASSUME ~Exited, DestroyContext PROVE Stages'
  BY <1>7, <1>t DEF DestroyContext, ContextDies
<1>8. ASSUME ~Exited, Unwind PROVE Stages'
  BY <1>8, <1>t DEF Unwind, ContextDies
<1>9. ASSUME ~Exited, ListenStarts PROVE Stages'
  BY <1>9, <1>t DEF ListenStarts, Turning
<1>10. ASSUME ~Exited, TestState PROVE Stages'
  BY <1>10, <1>t DEF TestState
<1>11. ASSUME ~Exited, Linger PROVE Stages'
  BY <1>11, <1>t DEF Linger, Turning
<1>12. ASSUME ~Exited, CountDown PROVE Stages'
  BY <1>12, <1>t DEF CountDown
<1>13. ASSUME ~Exited, MarkStopping PROVE Stages'
  BY <1>13, <1>t DEF MarkStopping
<1>14. ASSUME ~Exited, StartService PROVE Stages'
  BY <1>14, <1>t DEF StartService
<1>15. ASSUME ~Exited, Poll PROVE Stages'
  BY <1>15, <1>t DEF Poll
<1>16. ASSUME ~Exited, GiveUp PROVE Stages'
  BY <1>16, <1>t DEF GiveUp, Regret
<1>17. ASSUME ~Exited, ReportRunning PROVE Stages'
  BY <1>17, <1>t DEF ReportRunning
<1>18. ASSUME ~Exited, JoinServer PROVE Stages'
  BY <1>18, <1>t DEF JoinServer
<1>19. ASSUME ~Exited, EnterStop PROVE Stages'
  BY <1>19, <1>t DEF EnterStop
<1>20. ASSUME ~Exited, AwaitRequests PROVE Stages'
  BY <1>20, <1>t DEF AwaitRequests
<1>21. ASSUME ~Exited, AwaitEnds PROVE Stages'
  BY <1>21, <1>t DEF AwaitEnds
<1>22. ASSUME ~Exited, Pause PROVE Stages'
  BY <1>22, <1>t DEF Pause
<1>23. ASSUME ~Exited, ReportStopped PROVE Stages'
  BY <1>23, <1>t DEF ReportStopped
<1>24. ASSUME ~Exited, ListenThrows PROVE Stages'
  BY <1>24, <1>t DEF ListenThrows, Turning, Regret
<1>25. ASSUME ~Exited, StartThrows PROVE Stages'
  BY <1>25, <1>t DEF StartThrows
<1>26. ASSUME ~Exited, Signal PROVE Stages'
  BY <1>26, <1>t DEF Signal, Turning
<1>27. ASSUME ~Exited, SignalThrows PROVE Stages'
  BY <1>27, <1>t DEF SignalThrows, Turning, Regret
<1>28. ASSUME ~Exited, StopControl PROVE Stages'
  BY <1>28, <1>t DEF StopControl
<1>29. ASSUME NEW t \in Thread, ~Exited, CheckOrder(t) PROVE Stages'
  BY <1>29, <1>t DEF CheckOrder, AfterOrder
<1>30. ASSUME NEW t \in Thread, ~Exited, FireGun(t) PROVE Stages'
  BY <1>30, <1>t DEF FireGun, AfterOrder
<1>31. ASSUME NEW t \in {"run", "stop"}, ~Exited, ArriveAndWait(t) PROVE Stages'
  BY <1>31, <1>t DEF ArriveAndWait
<1>32. ASSUME NEW t \in {"run", "stop"}, ~Exited, WaitLatch(t) PROVE Stages'
  BY <1>32, <1>t DEF WaitLatch
<1>33. ASSUME NEW r \in Request, ~Exited, Accept(r) PROVE Stages'
  BY <1>33, <1>t DEF Accept, Turning
<1>34. ASSUME NEW r \in Request, ~Exited, Dispatch(r) PROVE Stages'
  BY <1>34, <1>t DEF Dispatch, Turning
<1>35. ASSUME NEW r \in Request, ~Exited, WorkerEnds(r) PROVE Stages'
  BY <1>35, <1>t DEF WorkerEnds
<1>36. ASSUME NEW r \in Request, ~Exited, Close(r) PROVE Stages'
  BY <1>36, <1>t DEF Close, Turning
<1>37. CASE UNCHANGED vars
  BY <1>37, <1>t DEF vars
<1> QED
  BY <1>1, <1>2, <1>3, <1>4, <1>5, <1>6, <1>7, <1>8, <1>9, <1>10, <1>11, <1>12,
     <1>13, <1>14, <1>15, <1>16, <1>17, <1>18, <1>19, <1>20, <1>21, <1>22, <1>23,
     <1>24, <1>25, <1>26, <1>27, <1>28, <1>29, <1>30, <1>31, <1>32, <1>33, <1>34,
     <1>35, <1>36, <1>37, <1>t
     DEF Next, RunStep, ListenStep, StartStep, StopStep, Outside, Thread

-----------------------------------------------------------------------------
(* Second layer: where the listener is when stop() is past Shutdown, and   *)
(* that the one connection it then admits is its last.                     *)
Past == pc["stop"] \notin {"none", "enter"}
Early == "early-stop" \in mishap
Up == pc["listen"] \notin {"none", "ready"}

ListenerStarts ==
    /\ pc["run"] \in {"none", "begin", "context", "order"} => pc["listen"] = "none"
    /\ pc["run"] = "loop" => pc["listen"] # "none"
    /\ state = "Running" \/ pc["start"] = "report" \/ status = "RUNNING" => Up

StoppingListener ==
    ~Early => /\ pc["stop"] # "none" => Up
              /\ Past => state \in {"Shutdown", "Stopping"}

LastOne ==
    ~Early => \/ late = {}
              \/ /\ Past /\ pc["listen"] # "accept"
                 /\ \E r \in Request : late = {r}

Listener == ListenerStarts /\ StoppingListener /\ LastOne

LEMMA ListenerInit == Init => Listener
  BY DEF Init, Listener, ListenerStarts, StoppingListener, LastOne, Up, Past, Early,
         Thread

LEMMA ListenerNext == Stages /\ Listener /\ [Next]_vars => Listener'
<1> SUFFICES ASSUME Stages, Listener, [Next]_vars PROVE Listener'
  OBVIOUS
<1> USE DEF Listener, ListenerStarts, StoppingListener, LastOne, Up, Past, Early, Thread,
        At, Goto, hitman, service, history, Exited,
        Stages, SignalOnce, RunIsStartedOnce, TypeOK
<1>1. ASSUME ~Exited, RunBegins PROVE Listener'
  BY <1>1 DEF RunBegins
<1>2. ASSUME ~Exited, MakeContext PROVE Listener'
  BY <1>2 DEF MakeContext
<1>3. ASSUME ~Exited, RunThrows PROVE Listener'
  BY <1>3 DEF RunThrows
<1>4. ASSUME ~Exited, PlaceOrder PROVE Listener'
  BY <1>4 DEF PlaceOrder
<1>5. ASSUME ~Exited, LoopEnds PROVE Listener'
  BY <1>5 DEF LoopEnds
<1>6. ASSUME ~Exited, CancelOrder PROVE Listener'
  BY <1>6 DEF CancelOrder
<1>7. ASSUME ~Exited, DestroyContext PROVE Listener'
  BY <1>7 DEF DestroyContext, ContextDies
<1>8. ASSUME ~Exited, Unwind PROVE Listener'
  BY <1>8 DEF Unwind, ContextDies
<1>9. ASSUME ~Exited, ListenStarts PROVE Listener'
  BY <1>9 DEF ListenStarts, Turning
<1>10. ASSUME ~Exited, TestState PROVE Listener'
  BY <1>10 DEF TestState
<1>11. ASSUME ~Exited, Linger PROVE Listener'
  BY <1>11 DEF Linger, Turning
<1>12. ASSUME ~Exited, CountDown PROVE Listener'
  BY <1>12 DEF CountDown
<1>13. ASSUME ~Exited, MarkStopping PROVE Listener'
  BY <1>13 DEF MarkStopping
<1>14. ASSUME ~Exited, StartService PROVE Listener'
  BY <1>14 DEF StartService
<1>15. ASSUME ~Exited, Poll PROVE Listener'
  BY <1>15 DEF Poll
<1>16. ASSUME ~Exited, GiveUp PROVE Listener'
  BY <1>16 DEF GiveUp, Regret
<1>17. ASSUME ~Exited, ReportRunning PROVE Listener'
  BY <1>17 DEF ReportRunning
<1>18. ASSUME ~Exited, JoinServer PROVE Listener'
  BY <1>18 DEF JoinServer
<1>19. ASSUME ~Exited, EnterStop PROVE Listener'
  BY <1>19 DEF EnterStop
<1>20. ASSUME ~Exited, AwaitRequests PROVE Listener'
  BY <1>20 DEF AwaitRequests
<1>21. ASSUME ~Exited, AwaitEnds PROVE Listener'
  BY <1>21 DEF AwaitEnds
<1>22. ASSUME ~Exited, Pause PROVE Listener'
  BY <1>22 DEF Pause
<1>23. ASSUME ~Exited, ReportStopped PROVE Listener'
  BY <1>23 DEF ReportStopped
<1>24. ASSUME ~Exited, ListenThrows PROVE Listener'
  BY <1>24 DEF ListenThrows, Turning, Regret
<1>25. ASSUME ~Exited, StartThrows PROVE Listener'
  BY <1>25 DEF StartThrows
<1>26. ASSUME ~Exited, Signal PROVE Listener'
  BY <1>26 DEF Signal, Turning
<1>27. ASSUME ~Exited, SignalThrows PROVE Listener'
  BY <1>27 DEF SignalThrows, Turning, Regret
<1>28. ASSUME ~Exited, StopControl PROVE Listener'
  BY <1>28 DEF StopControl
<1>29. ASSUME NEW t \in Thread, ~Exited, CheckOrder(t) PROVE Listener'
  BY <1>29 DEF CheckOrder, AfterOrder
<1>30. ASSUME NEW t \in Thread, ~Exited, FireGun(t) PROVE Listener'
  BY <1>30 DEF FireGun, AfterOrder
<1>31. ASSUME NEW t \in {"run", "stop"}, ~Exited, ArriveAndWait(t) PROVE Listener'
  BY <1>31 DEF ArriveAndWait
<1>32. ASSUME NEW t \in {"run", "stop"}, ~Exited, WaitLatch(t) PROVE Listener'
  BY <1>32 DEF WaitLatch
<1>33. ASSUME NEW r \in Request, ~Exited, Accept(r) PROVE Listener'
  BY <1>33 DEF Accept, Turning
<1>34. ASSUME NEW r \in Request, ~Exited, Dispatch(r) PROVE Listener'
  BY <1>34 DEF Dispatch, Turning
<1>35. ASSUME NEW r \in Request, ~Exited, WorkerEnds(r) PROVE Listener'
  BY <1>35 DEF WorkerEnds
<1>36. ASSUME NEW r \in Request, ~Exited, Close(r) PROVE Listener'
  BY <1>36 DEF Close, Turning
<1>37. CASE UNCHANGED vars
  BY <1>37 DEF vars
<1> QED
  BY <1>1, <1>2, <1>3, <1>4, <1>5, <1>6, <1>7, <1>8, <1>9, <1>10, <1>11, <1>12,
     <1>13, <1>14, <1>15, <1>16, <1>17, <1>18, <1>19, <1>20, <1>21, <1>22, <1>23,
     <1>24, <1>25, <1>26, <1>27, <1>28, <1>29, <1>30, <1>31, <1>32, <1>33, <1>34,
     <1>35, <1>36, <1>37
     DEF Next, RunStep, ListenStep, StartStep, StopStep, Outside, Thread

-----------------------------------------------------------------------------
(* Third layer: while nothing has gone wrong, only stop() stops the loop,  *)
(* and what is in flight when it has ceased to wait is late.               *)
StartIsOver ==
    /\ status = "RUNNING" => pc["start"] = "done"
    /\ mode = "service" /\ pc["stop"] # "none" => pc["start"] = "done"

OnlyStopStops ==
    mishap = {} =>
        /\ pc["start"] \notin {"check", "fire", "join"}
        /\ state \in {"Shutdown", "Stopping"} => pc["run"] = "threw" \/ Past
        /\ ioc = "stopped" => pc["stop"] \in {"arrive", "wait", "done"}

LeftIsLate ==
    mishap = {} =>
        \A r \in Request :
            InFlight(r)
            /\ \/ pc["stop"] \in {"pause", "check", "fire", "arrive", "wait", "done"}
               \/ pc["run"] \in {"cancel", "destroy", "arrive", "wait", "done"}
            => r \in late

Finishing == StartIsOver /\ OnlyStopStops /\ LeftIsLate /\ NoRequestCutOff

LEMMA FinishingInit == Init => Finishing
  BY DEF Init, Finishing, StartIsOver, OnlyStopStops, LeftIsLate, NoRequestCutOff, CutOff,
         InFlight, Past, Thread

LEMMA FinishingNext == Stages /\ Finishing /\ [Next]_vars => Finishing'
<1> SUFFICES ASSUME Stages, Finishing, [Next]_vars PROVE Finishing'
  OBVIOUS
<1> USE DEF Finishing, StartIsOver, OnlyStopStops, LeftIsLate, NoRequestCutOff, CutOff,
        InFlight, Past, Thread, At, Goto, hitman, service, history, Exited,
        Stages, ContextStages, UnwindsAlone, SignalOnce, DeathIsRecorded, Died, TypeOK
<1>1. ASSUME ~Exited, RunBegins PROVE Finishing'
  BY <1>1 DEF RunBegins
<1>2. ASSUME ~Exited, MakeContext PROVE Finishing'
  BY <1>2 DEF MakeContext
<1>3. ASSUME ~Exited, RunThrows PROVE Finishing'
  BY <1>3 DEF RunThrows
<1>4. ASSUME ~Exited, PlaceOrder PROVE Finishing'
  BY <1>4 DEF PlaceOrder
<1>5. ASSUME ~Exited, LoopEnds PROVE Finishing'
  BY <1>5 DEF LoopEnds
<1>6. ASSUME ~Exited, CancelOrder PROVE Finishing'
  BY <1>6 DEF CancelOrder
<1>7. ASSUME ~Exited, DestroyContext PROVE Finishing'
  BY <1>7 DEF DestroyContext, ContextDies
<1>8. ASSUME ~Exited, Unwind PROVE Finishing'
  BY <1>8 DEF Unwind, ContextDies
<1>9. ASSUME ~Exited, ListenStarts PROVE Finishing'
  BY <1>9 DEF ListenStarts, Turning
<1>10. ASSUME ~Exited, TestState PROVE Finishing'
  BY <1>10 DEF TestState
<1>11. ASSUME ~Exited, Linger PROVE Finishing'
  BY <1>11 DEF Linger, Turning
<1>12. ASSUME ~Exited, CountDown PROVE Finishing'
  BY <1>12 DEF CountDown
<1>13. ASSUME ~Exited, MarkStopping PROVE Finishing'
  BY <1>13 DEF MarkStopping
<1>14. ASSUME ~Exited, StartService PROVE Finishing'
  BY <1>14 DEF StartService
<1>15. ASSUME ~Exited, Poll PROVE Finishing'
  BY <1>15 DEF Poll
<1>16. ASSUME ~Exited, GiveUp PROVE Finishing'
  BY <1>16 DEF GiveUp, Regret
<1>17. ASSUME ~Exited, ReportRunning PROVE Finishing'
  BY <1>17 DEF ReportRunning
<1>18. ASSUME ~Exited, JoinServer PROVE Finishing'
  BY <1>18 DEF JoinServer
<1>19. ASSUME ~Exited, EnterStop PROVE Finishing'
  BY <1>19 DEF EnterStop
<1>20. ASSUME ~Exited, AwaitRequests PROVE Finishing'
  BY <1>20 DEF AwaitRequests
<1>21. ASSUME ~Exited, AwaitEnds PROVE Finishing'
  BY <1>21 DEF AwaitEnds
<1>22. ASSUME ~Exited, Pause PROVE Finishing'
  BY <1>22 DEF Pause
<1>23. ASSUME ~Exited, ReportStopped PROVE Finishing'
  BY <1>23 DEF ReportStopped
<1>24. ASSUME ~Exited, ListenThrows PROVE Finishing'
  BY <1>24 DEF ListenThrows, Turning, Regret
<1>25. ASSUME ~Exited, StartThrows PROVE Finishing'
  BY <1>25 DEF StartThrows
<1>26. ASSUME ~Exited, Signal PROVE Finishing'
  BY <1>26 DEF Signal, Turning
<1>27. ASSUME ~Exited, SignalThrows PROVE Finishing'
  BY <1>27 DEF SignalThrows, Turning, Regret
<1>28. ASSUME ~Exited, StopControl PROVE Finishing'
  BY <1>28 DEF StopControl
<1>29. ASSUME NEW t \in Thread, ~Exited, CheckOrder(t) PROVE Finishing'
  BY <1>29 DEF CheckOrder, AfterOrder
<1>30. ASSUME NEW t \in Thread, ~Exited, FireGun(t) PROVE Finishing'
  BY <1>30 DEF FireGun, AfterOrder
<1>31. ASSUME NEW t \in {"run", "stop"}, ~Exited, ArriveAndWait(t) PROVE Finishing'
  BY <1>31 DEF ArriveAndWait
<1>32. ASSUME NEW t \in {"run", "stop"}, ~Exited, WaitLatch(t) PROVE Finishing'
  BY <1>32 DEF WaitLatch
<1>33. ASSUME NEW r \in Request, ~Exited, Accept(r) PROVE Finishing'
  BY <1>33 DEF Accept, Turning
<1>34. ASSUME NEW r \in Request, ~Exited, Dispatch(r) PROVE Finishing'
  BY <1>34 DEF Dispatch, Turning
<1>35. ASSUME NEW r \in Request, ~Exited, WorkerEnds(r) PROVE Finishing'
  BY <1>35 DEF WorkerEnds
<1>36. ASSUME NEW r \in Request, ~Exited, Close(r) PROVE Finishing'
  BY <1>36 DEF Close, Turning
<1>37. CASE UNCHANGED vars
  BY <1>37 DEF vars
<1> QED
  BY <1>1, <1>2, <1>3, <1>4, <1>5, <1>6, <1>7, <1>8, <1>9, <1>10, <1>11, <1>12,
     <1>13, <1>14, <1>15, <1>16, <1>17, <1>18, <1>19, <1>20, <1>21, <1>22, <1>23,
     <1>24, <1>25, <1>26, <1>27, <1>28, <1>29, <1>30, <1>31, <1>32, <1>33, <1>34,
     <1>35, <1>36, <1>37
     DEF Next, RunStep, ListenStep, StartStep, StopStep, Outside, Thread

-----------------------------------------------------------------------------
Inv == Stages /\ Listener /\ Finishing

LEMMA Invariance == Spec => []Inv
<1>1. Init => Inv
  BY StagesInit, ListenerInit, FinishingInit DEF Inv
<1>2. Inv /\ [Next]_vars => Inv'
  BY StagesNext, ListenerNext, FinishingNext DEF Inv
<1> QED BY <1>1, <1>2, PTL DEF Spec

(* Every variable keeps its type: in particular start() never polls more   *)
(* often than c_controlTimeout allows.                                     *)
THEOREM TypeCorrect == Spec => []TypeOK
<1>1. Inv => TypeOK
  BY DEF Inv, Stages
<1> QED BY <1>1, Invariance, PTL

(* Hitman's gun is never fired at an ioContext that is gone: run() takes   *)
(* the order back first, or unwinds alone.                                 *)
THEOREM GunSafeHolds == Spec => []GunSafe
<1>1. Inv => GunSafe
  BY DEF Inv, Stages, GunWhileLooping, ContextStages, UnwindsAlone, MidStep, GunSafe,
         At, Thread
<1> QED BY <1>1, Invariance, PTL

(* SERVICE_STOPPED is reported after the loop's end: the latch counts two  *)
(* arrivals, and stop() passes it after run() has arrived.                 *)
THEOREM StoppedMeansStoppedHolds == Spec => []StoppedMeansStopped
<1>1. Inv => StoppedMeansStopped
  BY DEF Inv, Stages
<1> QED BY <1>1, Invariance, PTL

(* A stopping listener admits one connection at most.                      *)
THEOREM OneLateHolds == Spec => []OneLate
<1>1. ASSUME Inv PROVE OneLate
  <2>1. CASE Early
    BY <2>1 DEF Early, OneLate
  <2>2. CASE late = {}
    BY <2>2, FS_EmptySet DEF OneLate
  <2>3. ASSUME NEW r \in Request, late = {r} PROVE OneLate
    BY <2>3, FS_Singleton DEF OneLate
  <2> QED BY <1>1, <2>1, <2>2, <2>3 DEF Inv, Listener, LastOne
<1> QED BY <1>1, Invariance, PTL

(* stop() cuts no request off that was accepted before it.                 *)
THEOREM NoRequestCutOffHolds == Spec => []NoRequestCutOff
<1>1. Inv => NoRequestCutOff
  BY DEF Inv, Finishing
<1> QED BY <1>1, Invariance, PTL

-----------------------------------------------------------------------------
(* What ControlsEnd rests on besides fairness: stop() does not come to the *)
(* latch before the loop has been told to end, and two who wait there do   *)
(* not wait for each other.                                                *)

\* run() is past the loop, or about to leave it.
LoopIsOver ==
    \/ pc["run"] \in {"cancel", "destroy", "arrive", "wait", "done", "threw",
                      "unwind", "catch"}
    \/ pc["run"] = "loop" /\ ioc = "stopped"

StopTakesEffect ==
    /\ pc["stop"] \in {"arrive", "wait", "done"} => LoopIsOver
    /\ pc["stop"] = "wait" /\ pc["run"] = "wait" => latch = 0 \/ Died

\* An order that is gone, while the loop turns, has been completed: and whoever
\* reads a negative counter reads it from an order that is gone.
OrderKept ==
    /\ gun = "ioContext" => counter >= 0
    /\ pc["run"] = "loop" => gun = "ioContext" \/ ioc = "stopped"

NothingBeforeLoop ==
    pc["run"] \in {"none", "begin", "context", "order"} =>
        /\ pc["listen"] = "none" /\ pc["stop"] = "none" /\ pc["start"] # "report"
        /\ state \in {"Initial", "Starting"} /\ status # "RUNNING"

Stopping == StopTakesEffect /\ OrderKept /\ NothingBeforeLoop

LEMMA StoppingInit == Init => Stopping
  BY DEF Init, Stopping, StopTakesEffect, OrderKept, NothingBeforeLoop, LoopIsOver, Thread

LEMMA StoppingNext == Stages /\ Stages' /\ Stopping /\ [Next]_vars => Stopping'
<1> SUFFICES ASSUME Stages, Stages', Stopping, [Next]_vars PROVE Stopping'
  OBVIOUS
<1>m. StopTakesEffect' <=> (pc'["stop"] \in {"arrive", "wait", "done"} => LoopIsOver')
  BY DEF Stages, TypeOK, LatchCounts, Arrived, Died, StopTakesEffect
<1>o. pc["stop"] \in {"arrive", "wait", "done"} => LoopIsOver
  BY DEF Stopping, StopTakesEffect
<1> USE LifecycleAssumption
    DEF Stages, ContextStages, SignalOnce, TypeOK, Thread, Stopping, OrderKept,
        NothingBeforeLoop, LoopIsOver, MidStep,
        At, Goto, hitman, service, history, Exited
<1>1. CASE ~Exited /\ (RunBegins \/ MakeContext \/ RunThrows \/ PlaceOrder)
  BY <1>1, <1>m, <1>o DEF RunBegins, MakeContext, RunThrows, PlaceOrder
<1>2. CASE ~Exited /\ (LoopEnds \/ CancelOrder \/ DestroyContext \/ Unwind)
  BY <1>2, <1>m, <1>o DEF LoopEnds, CancelOrder, DestroyContext, Unwind, ContextDies
<1>3. CASE ~Exited /\ (ListenStarts \/ ListenThrows \/ TestState \/ Linger
                       \/ CountDown \/ MarkStopping)
  BY <1>3, <1>m, <1>o DEF ListenStarts, ListenThrows, TestState, Linger, CountDown, MarkStopping,
     Turning
<1>4. CASE ~Exited /\ (StartService \/ StartThrows \/ Poll \/ GiveUp
                       \/ ReportRunning \/ JoinServer)
  BY <1>4, <1>m, <1>o DEF StartService, StartThrows, Poll, GiveUp, ReportRunning, JoinServer
<1>5. CASE ~Exited /\ (Signal \/ SignalThrows \/ StopControl)
  BY <1>5, <1>m, <1>o DEF Signal, SignalThrows, StopControl, Turning
<1>6. CASE ~Exited /\ (EnterStop \/ AwaitRequests \/ AwaitEnds \/ Pause \/ ReportStopped)
  BY <1>6, <1>m, <1>o DEF EnterStop, AwaitRequests, AwaitEnds, Pause, ReportStopped
<1>7. ASSUME NEW t \in Thread, ~Exited, CheckOrder(t) PROVE Stopping'
  BY <1>7, <1>m, <1>o DEF CheckOrder, AfterOrder
<1>8. ASSUME NEW t \in Thread, ~Exited, FireGun(t) PROVE Stopping'
  BY <1>8, <1>m, <1>o DEF FireGun, AfterOrder
<1>9. ASSUME NEW t \in {"run", "stop"}, ~Exited, ArriveAndWait(t) \/ WaitLatch(t)
      PROVE Stopping'
  BY <1>9, <1>m, <1>o DEF ArriveAndWait, WaitLatch
<1>10. ASSUME NEW r \in Request, ~Exited,
              Accept(r) \/ Dispatch(r) \/ WorkerEnds(r) \/ Close(r)
       PROVE Stopping'
  BY <1>10, <1>m, <1>o DEF Accept, Dispatch, WorkerEnds, Close, Turning
<1>11. CASE UNCHANGED vars
  BY <1>11, <1>m, <1>o DEF vars
<1> QED
  BY <1>1, <1>2, <1>3, <1>4, <1>5, <1>6, <1>7, <1>8, <1>9, <1>10, <1>11
     DEF Next, RunStep, ListenStep, StartStep, StopStep, Outside, Thread

(* However start(), a dying listener, run() and stop() meet at the hitman, *)
(* whose counter completeOrder reads without the mutex, stop() goes on to  *)
(* the latch only when the ioContext has been stopped or the loop is over; *)
(* and unless the listener has died nobody is left waiting there.          *)
THEOREM StopTakesEffectHolds == Spec => []StopTakesEffect
<1>1. Spec => []Stages
  BY StagesInit, StagesNext, PTL DEF Spec
<1>2. Spec => []Stopping
  BY <1>1, StoppingInit, StoppingNext, PTL DEF Spec
<1>3. Stopping => StopTakesEffect
  BY DEF Stopping
<1> QED BY <1>2, <1>3, PTL
=============================================================================
