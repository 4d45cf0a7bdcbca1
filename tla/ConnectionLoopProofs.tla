------------------------ MODULE ConnectionLoopProofs ------------------------
(***************************************************************************)
(* ConnectionLoop for any number of connections, any limits and any order  *)
(* of completions and timers: its invariants, and that each of its steps   *)
(* is one of ServiceContract, or none.                                     *)
(***************************************************************************)
EXTENDS ConnectionLoop, FiniteSetTheorems, TLAPS

(* The actions of a connection, by what they do to it.                     *)
Action(c) ==
    \/ Admit(c) \/ AdmitInVain(c) \/ Delay(c) \/ Refuse(c) \/ CloseDelayed(c)
    \/ Transfer(c) \/ Expire(c) \/ Timeout(c)
    \/ Resume(c) \/ Thread(c) \/ Close(c)

(* Apart from the counters, which are 0..Cardinality(Conn) because they    *)
(* count connections.                                                      *)
Types ==
    /\ concurrencyLimit \in ConcurrencyLimits
    /\ pc \in [Conn -> Location]
    /\ op \in [Conn -> {"none", "pending", "done", "error"}]
    /\ timer \in [Conn -> {"off", "armed", "expired", "over"}]
    /\ canceled \in [Conn -> BOOLEAN]
    /\ worker \in [Conn -> Threads]
    /\ sent \in [Conn -> BOOLEAN]
    /\ busy \in Conn \cup {Nobody}
    /\ listener \in {"accepting", "dead"}

(* A coroutine that resumes is suspended, and goes on to the next          *)
(* suspension or to the shutdown.                                          *)
LEMMA ResumeMoves ==
  ASSUME Types, NEW c \in Conn, Resume(c)
  PROVE  /\ pc[c] \in Suspended
         /\ \E l \in {"head", "body", "work", "write", "shutdown"} :
               pc' = [pc EXCEPT ![c] = l]
         /\ UNCHANGED <<counters, sent, canceled, listener>>
         /\ Free
         /\ op[c] \in {"done", "error"}
<1> USE DEF Types, Resumes, Goes, Suspended, Suspend
<1>1. CASE Abandon(c)
  BY <1>1 DEF Abandon, Finish, Shutdown
<1>2. CASE AfterHandshake(c)
  BY <1>2 DEF AfterHandshake, ReadOn
<1>3. CASE AfterHead(c)
  BY <1>3 DEF AfterHead, ReadOn, Proceed, Work, Write, Finish, Shutdown
<1>4. CASE AfterBody(c)
  BY <1>4 DEF AfterBody, ReadOn, Proceed, Work, Write, Finish, Shutdown
<1>5. CASE AfterWrite(c)
  BY <1>5 DEF AfterWrite, Finish, Shutdown
<1> QED BY <1>1, <1>2, <1>3, <1>4, <1>5 DEF Resume

(* The thread moves its coroutine from the work to the shutdown or to the  *)
(* answer, or leaves it where it is, and holds up no loop.                 *)
LEMMA ThreadMoves ==
  ASSUME Types, NEW c \in Conn, Thread(c)
  PROVE  /\ worker[c] \in {"running", "resumed", "past"}
         /\ \/ UNCHANGED pc
            \/ pc' = [pc EXCEPT ![c] = "shutdown"]
            \/ worker[c] = "past" /\ pc' = [pc EXCEPT ![c] = "write"]
         /\ UNCHANGED <<counters, sent, canceled, busy, listener>>
<1>1. CASE WorkerEnds(c)
  BY <1>1 DEF WorkerEnds
<1>2. CASE AfterWork(c)
  BY <1>2 DEF AfterWork, FinishInThread, Shutdown
<1>3. CASE WriteInThread(c)
  BY <1>3 DEF WriteInThread, FinishInThread, Shutdown, Suspend
<1> QED BY <1>1, <1>2, <1>3 DEF Thread

-----------------------------------------------------------------------------
LEMMA TypesInit == Init => Types
  BY DEF Init, Types, Location, Threads

LEMMA TypesNext == Types /\ [Next]_vars => Types'
<1> SUFFICES ASSUME Types, [Next]_vars PROVE Types'
  OBVIOUS
<1> USE DEF Types, Location, Suspended
<1>1. ASSUME NEW c \in Conn, UNCHANGED concurrencyLimit, Action(c) PROVE Types'
  <2>1. CASE Admit(c)
    BY <1>1, <2>1 DEF Admit, Suspend
  <2>2. CASE AdmitInVain(c)
    BY <1>1, <2>2 DEF AdmitInVain
  <2>3. CASE Delay(c)
    BY <1>1, <2>3 DEF Delay
  <2>4. CASE Refuse(c)
    BY <1>1, <2>4 DEF Refuse
  <2>5. CASE CloseDelayed(c)
    BY <1>1, <2>5 DEF CloseDelayed
  <2>6. CASE Transfer(c)
    BY <1>1, <2>6 DEF Transfer
  <2>7. CASE Thread(c)
    <3>1. pc' \in [Conn -> Location]
      BY <2>7, ThreadMoves
    <3>2. /\ op' \in [Conn -> {"none", "pending", "done", "error"}]
          /\ timer' \in [Conn -> {"off", "armed", "expired", "over"}]
          /\ worker' \in [Conn -> Threads]
      BY <2>7 DEF Thread, WorkerEnds, AfterWork, WriteInThread, FinishInThread, Shutdown,
         Suspend, Threads
    <3> QED BY <1>1, <2>7, <3>1, <3>2, ThreadMoves
  <2>8. CASE Expire(c)
    BY <1>1, <2>8 DEF Expire
  <2>9. CASE Timeout(c)
    <3>1. op' \in [Conn -> {"none", "pending", "done", "error"}]
      BY <2>9 DEF Timeout
    <3>2. canceled' \in [Conn -> BOOLEAN]
      BY <2>9 DEF Timeout, Frame
    <3> QED BY <1>1, <2>9, <3>1, <3>2 DEF Timeout
  <2>10. CASE Resume(c)
    <3>1. pc' \in [Conn -> Location]
      BY <2>10, ResumeMoves
    <3>2. /\ op' \in [Conn -> {"none", "pending", "done", "error"}]
          /\ timer' \in [Conn -> {"off", "armed", "expired", "over"}]
          /\ worker' \in [Conn -> Threads]
          /\ busy' \in Conn \cup {Nobody}
      BY <2>10 DEF Resume, Abandon, AfterHandshake, AfterHead, AfterBody, AfterWrite, Goes,
         Resumes, ReadOn, Proceed, Work, Write, Finish, Shutdown, Suspend, Threads
    <3> QED BY <1>1, <2>10, <3>1, <3>2, ResumeMoves
  <2>11. CASE Close(c)
    BY <1>1, <2>11 DEF Close, Ended, Threads
  <2> QED
    BY <1>1, <2>1, <2>2, <2>3, <2>4, <2>5, <2>6, <2>7, <2>8, <2>9, <2>10, <2>11 DEF Action
<1>2. CASE UNCHANGED vars
  BY <1>2 DEF vars
<1> QED BY <1>1, <1>2 DEF Next, Step, Action

-----------------------------------------------------------------------------
(* The inductive invariant.  A worker runs exactly while its coroutine is  *)
(* suspended on it, and goes on only with one that is; the loop is held by *)
(* the one coroutine that shuts down on it; a connection that is canceled  *)
(* waits for nothing but its worker or a late write; an answer is the last *)
(* thing that is sent; and the counters count.                             *)

Frames == {c \in Conn : Frame(c)}
Delayed == {c \in Conn : pc[c] = "delayed"}

WorkerWorks ==
    \A c \in Conn :
        /\ worker[c] = "running" <=> pc[c] = "work" /\ op[c] = "pending"
        /\ worker[c] \in {"resumed", "past"} => pc[c] = "work" /\ op[c] = "none"
        /\ worker[c] = "closing" => pc[c] = "shutdown"

OneShutsDown ==
    \A c \in Conn : busy = c <=> pc[c] = "shutdown" /\ worker[c] # "closing"

CanceledWaitsForWork ==
    \A c \in Conn : canceled[c] =>
        /\ pc[c] \notin {"none", "delayed"}
        /\ op[c] = "pending" => pc[c] \in {"work", "write"}

SentIsLast ==
    \A c \in Conn : sent[c] => op[c] # "pending" /\ pc[c] \in {"write", "shutdown", "closed"}

Flow == Types /\ WorkerWorks /\ OneShutsDown /\ CanceledWaitsForWork /\ SentIsLast

LEMMA FlowInit == Init => Flow
  BY TypesInit, LoopAssumption
  DEF Init, Flow, WorkerWorks, OneShutsDown, CanceledWaitsForWork, SentIsLast

LEMMA FlowNext == Flow /\ [Next]_vars => Flow'
<1> SUFFICES ASSUME Flow, [Next]_vars PROVE Flow'
  OBVIOUS
<1>1. Types'
  BY TypesNext DEF Flow
<1> USE LoopAssumption
    DEF Types, Flow, WorkerWorks, OneShutsDown, CanceledWaitsForWork, SentIsLast
<1>2. ASSUME NEW c \in Conn, Action(c)
      PROVE WorkerWorks' /\ OneShutsDown' /\ CanceledWaitsForWork' /\ SentIsLast'
  <2>1. CASE Admit(c)
    BY <2>1 DEF Admit, Arrives, Suspend
  <2>2. CASE AdmitInVain(c)
    BY <2>2 DEF AdmitInVain, Arrives
  <2>3. CASE Delay(c)
    BY <2>3 DEF Delay, Arrives
  <2>4. CASE Refuse(c)
    BY <2>4 DEF Refuse, Arrives
  <2>5. CASE CloseDelayed(c)
    BY <2>5 DEF CloseDelayed
  <2>6. CASE Transfer(c)
    BY <2>6 DEF Transfer, Suspended
  <2>7. CASE WorkerEnds(c)
    BY <2>7 DEF WorkerEnds
  <2>8. CASE Expire(c)
    BY <2>8 DEF Expire
  <2>9. CASE Timeout(c)
    BY <2>9 DEF Timeout, Frame, Suspended
  <2>10. CASE Abandon(c)
    BY <2>10 DEF Abandon, Resumes, Free, Finish, Shutdown, Suspended
  <2>11. CASE AfterHandshake(c)
    BY <2>11 DEF AfterHandshake, Goes, Resumes, Free, ReadOn, Suspend
  <2>12. CASE AfterHead(c)
    BY <2>12 DEF AfterHead, Goes, Resumes, Free, ReadOn, Proceed, Work, Write, Finish,
       Shutdown, Suspend
  <2>13. CASE AfterBody(c)
    BY <2>13 DEF AfterBody, Goes, Resumes, Free, ReadOn, Proceed, Work, Write, Finish,
       Shutdown, Suspend
  <2>14. CASE AfterWork(c)
    BY <2>14 DEF AfterWork, FinishInThread, Shutdown
  <2>15. CASE WriteInThread(c)
    BY <2>15 DEF WriteInThread, FinishInThread, Shutdown, Suspend
  <2>16. CASE AfterWrite(c)
    BY <2>16 DEF AfterWrite, Goes, Resumes, Free, Finish, Shutdown
  <2>17. CASE Close(c)
    BY <2>17 DEF Close, ShutsDown, Ended
  <2> QED
    BY <1>2, <2>1, <2>2, <2>3, <2>4, <2>5, <2>6, <2>7, <2>8, <2>9, <2>10, <2>11, <2>12,
       <2>13, <2>14, <2>15, <2>16, <2>17 DEF Action, Resume, Thread
<1>3. CASE UNCHANGED vars
  BY <1>1, <1>3 DEF vars
<1> QED BY <1>1, <1>2, <1>3 DEF Next, Step, Action

THEOREM FlowInvariant == Spec => []Flow
  BY FlowInit, FlowNext, PTL DEF Spec

(* No timeout, error or end of a coroutine takes the request from under    *)
(* the worker that performAsync has given it to, nor resumes the coroutine *)
(* that its thread has gone on with.                                       *)
THEOREM WorkerOwnsRequestHolds == Spec => []WorkerOwnsRequest
<1>1. Flow => WorkerOwnsRequest
  BY DEF Flow, WorkerWorks, OneShutsDown, WorkerOwnsRequest
<1> QED BY <1>1, FlowInvariant, PTL

-----------------------------------------------------------------------------
(* What a step does to the frames and the delayed sockets.                 *)
LEMMA FramesChange ==
  ASSUME Flow, NEW c \in Conn, Action(c)
  PROVE  \/ /\ Admit(c) /\ c \notin Frames
            /\ Frames' = Frames \cup {c} /\ Delayed' = Delayed
         \/ /\ Close(c) /\ c \in Frames
            /\ Frames' = Frames \ {c} /\ Delayed' = Delayed
         \/ /\ Delay(c) /\ c \notin Delayed
            /\ Frames' = Frames /\ Delayed' = Delayed \cup {c}
         \/ /\ CloseDelayed(c) /\ c \in Delayed
            /\ Frames' = Frames /\ Delayed' = Delayed \ {c}
         \/ Frames' = Frames /\ Delayed' = Delayed /\ UNCHANGED counters
<1> USE DEF Flow, Types, Frames, Delayed, Frame, Suspended
<1>1. CASE Admit(c)
  BY <1>1 DEF Admit, Arrives, Suspend
<1>2. CASE AdmitInVain(c) \/ Refuse(c)
  BY <1>2 DEF AdmitInVain, Refuse, Arrives
<1>3. CASE Delay(c)
  BY <1>3 DEF Delay, Arrives
<1>4. CASE CloseDelayed(c)
  BY <1>4 DEF CloseDelayed
<1>5. CASE Transfer(c) \/ Expire(c) \/ Timeout(c)
  BY <1>5 DEF Transfer, Expire, Timeout
<1>6. CASE Resume(c)
  BY <1>6, ResumeMoves
<1>7. CASE Thread(c)
  BY <1>7, ThreadMoves DEF WorkerWorks
<1>8. CASE Close(c)
  BY <1>8 DEF Close, ShutsDown, Ended
<1> QED BY <1>1, <1>2, <1>3, <1>4, <1>5, <1>6, <1>7, <1>8 DEF Action

LEMMA CountOneMore ==
  ASSUME NEW S \in SUBSET Conn, NEW c \in Conn
  PROVE  /\ Cardinality(S) \in Nat
         /\ c \notin S => Cardinality(S \cup {c}) = Cardinality(S) + 1
         /\ c \in S => Cardinality(S \ {c}) = Cardinality(S) - 1
<1>1. IsFiniteSet(S)
  BY FS_Subset, LoopAssumption
<1> QED BY <1>1, FS_CardinalityType, FS_AddElement, FS_RemoveElement

LEMMA SlotsInit == Init => SlotsAccounted
<1> SUFFICES ASSUME Init PROVE SlotsAccounted
  OBVIOUS
<1>1. Frames = {} /\ Delayed = {}
  BY DEF Init, Frames, Delayed, Frame, Suspended
<1> QED
  BY <1>1, FS_EmptySet, LoopAssumption DEF Init, SlotsAccounted, Frames, Delayed

LEMMA SlotsNext == Flow /\ SlotsAccounted /\ [Next]_vars => SlotsAccounted'
<1> SUFFICES ASSUME Flow, SlotsAccounted, [Next]_vars PROVE SlotsAccounted'
  OBVIOUS
<1>1. /\ concurrencyLimit \in Nat /\ DelayedSockets \in Nat
      /\ Frames \in SUBSET Conn /\ Delayed \in SUBSET Conn
      /\ concurrent = Cardinality(Frames) /\ delayed = Cardinality(Delayed)
      /\ concurrent <= concurrencyLimit /\ delayed <= DelayedSockets
  BY LoopAssumption DEF Flow, Types, SlotsAccounted, Frames, Delayed
<1>2. ASSUME NEW c \in Conn, Action(c), UNCHANGED concurrencyLimit
      PROVE /\ concurrent' = Cardinality(Frames') /\ delayed' = Cardinality(Delayed')
            /\ concurrent' <= concurrencyLimit' /\ delayed' <= DelayedSockets
  <2>0. /\ \A S \in SUBSET Conn : c \notin S => Cardinality(S \cup {c}) = Cardinality(S) + 1
        /\ \A S \in SUBSET Conn : c \in S => Cardinality(S \ {c}) = Cardinality(S) - 1
        /\ Cardinality(Frames) \in Nat /\ Cardinality(Delayed) \in Nat
    BY <1>1, CountOneMore
  <2>1. CASE Admit(c) /\ c \notin Frames /\ Frames' = Frames \cup {c} /\ Delayed' = Delayed
    <3>1. Cardinality(Frames') = Cardinality(Frames) + 1
      BY <1>1, <2>0, <2>1
    <3>2. /\ concurrent < concurrencyLimit /\ concurrent' = concurrent + 1
          /\ delayed' = delayed
      BY <2>1 DEF Admit
    <3> QED BY <1>1, <1>2, <2>0, <2>1, <3>1, <3>2
  <2> USE <1>1, <1>2, CountOneMore
  <2>2. CASE Close(c) /\ c \in Frames /\ Frames' = Frames \ {c} /\ Delayed' = Delayed
    BY <2>2 DEF Close, Ended
  <2>3. CASE Delay(c) /\ c \notin Delayed /\ Frames' = Frames /\ Delayed' = Delayed \cup {c}
    BY <2>3 DEF Delay
  <2>4. CASE CloseDelayed(c) /\ c \in Delayed /\ Frames' = Frames /\ Delayed' = Delayed \ {c}
    BY <2>4 DEF CloseDelayed
  <2>5. CASE Frames' = Frames /\ Delayed' = Delayed /\ UNCHANGED counters
    BY <2>5 DEF counters
  <2> QED BY <2>1, <2>2, <2>3, <2>4, <2>5, FramesChange
<1>3. CASE UNCHANGED vars
  BY <1>3 DEF vars, counters, SlotsAccounted, Frame
<1>4. ASSUME NEW c \in Conn, Action(c), UNCHANGED concurrencyLimit PROVE SlotsAccounted'
  BY <1>2, <1>4 DEF SlotsAccounted, Frames, Delayed
<1> QED BY <1>3, <1>4 DEF Next, Step, Action

(* The counters of listen()'s admission are the coroutines there are, for  *)
(* any limits: no way out of accept() or close() forgets a slot or gives   *)
(* it back twice.                                                          *)
THEOREM SlotsAccountedHolds == Spec => []SlotsAccounted
  BY SlotsInit, SlotsNext, FlowInvariant, PTL DEF Spec

(* The type invariant; the counters cannot exceed the number of            *)
(* connections.                                                            *)
THEOREM TypeCorrect == Spec => []TypeOK
<1>1. Flow /\ SlotsAccounted => TypeOK
  <2> SUFFICES ASSUME Flow, SlotsAccounted PROVE TypeOK
    OBVIOUS
  <2>1. \A S \in SUBSET Conn : Cardinality(S) \in 0..Cardinality(Conn)
    BY FS_Subset, FS_CardinalityType, LoopAssumption
  <2> QED BY <2>1 DEF Flow, Types, SlotsAccounted, TypeOK
<1> QED BY <1>1, FlowInvariant, SlotsAccountedHolds, PTL

-----------------------------------------------------------------------------
(* After the timer's callback nothing is handed to a worker and no answer  *)
(* is begun but by the thread that had tested the flag before, of which    *)
(* there are no more afterwards.                                           *)
THEOREM NothingAfterTimeoutHolds == Spec => NothingAfterTimeout
<1> DEFINE Quiet(c) == canceled[c] =>
               /\ worker'[c] = "running" => worker[c] = "running"
               /\ worker'[c] = "past" => worker[c] = "past"
               /\ pc'[c] = "write" => pc[c] = "write" \/ worker[c] = "past"
               /\ sent'[c] => sent[c] \/ Late(c)
<1>1. Flow /\ [Next]_vars => [\A c \in Conn : Quiet(c)]_vars
  <2> SUFFICES ASSUME Flow, Next, NEW c \in Conn PROVE Quiet(c)
    BY DEF vars
  <2> PICK d \in Conn : Action(d)
    BY DEF Next, Step, Action
  <2> USE DEF Flow, Types, WorkerWorks, CanceledWaitsForWork
  <2>1. CASE Admit(d) \/ AdmitInVain(d) \/ Delay(d) \/ Refuse(d) \/ CloseDelayed(d)
    BY <2>1 DEF Admit, AdmitInVain, Delay, Refuse, CloseDelayed, Arrives, Suspend
  <2>2. CASE Transfer(d)
    BY <2>2 DEF Transfer, Suspended, Late
  <2>3. CASE Expire(d) \/ Timeout(d) \/ Close(d)
    BY <2>3 DEF Expire, Timeout, Close, Ended
  <2>4. CASE Resume(d)
    BY <2>4 DEF Resume, Abandon, AfterHandshake, AfterHead, AfterBody, AfterWrite, Goes,
       Resumes, ReadOn, Proceed, Work, Write, Finish, Shutdown, Suspend, Suspended
  <2>5. CASE Thread(d)
    BY <2>5 DEF Thread, WorkerEnds, AfterWork, WriteInThread, FinishInThread, Shutdown, Suspend
  <2> QED BY <2>1, <2>2, <2>3, <2>4, <2>5 DEF Action
<1> QED BY <1>1, FlowInvariant, PTL DEF Spec, NothingAfterTimeout

-----------------------------------------------------------------------------
(* What EveryoneLeaves rests on besides fairness: whatever a coroutine     *)
(* waits for comes to an end, unless only the peer can end it, and a       *)
(* canceled one does nothing new.                                          *)

\* While it is suspended, the deadline is ahead or its callback has run.
Timed ==
    \A c \in Conn : pc[c] \in Suspended => canceled[c] \/ timer[c] \in {"armed", "expired"}

\* Nobody waits for the client alone, but a late answer does.
WaitsEnd ==
    \A c \in Conn : op[c] = "pending" =>
        worker[c] = "running" \/ timer[c] \in {"armed", "expired"} \/ Late(c)

\* From the callback on the next step is the shutdown, then the end, unless
\* a thread has tested the flag before and begins its answer.
TimeoutEnds ==
    [][\A c \in Conn : canceled[c] =>
         \/ pc'[c] = pc[c]
         \/ pc[c] \in Suspended /\ pc'[c] = "shutdown"
         \/ worker[c] = "past" /\ pc'[c] = "write"
         \/ pc[c] = "shutdown" /\ pc'[c] = "closed"]_vars

\* An operation is under way only while its coroutine is suspended on it.
PendingIsSuspended == \A c \in Conn : op[c] = "pending" => pc[c] \in Suspended

LEMMA TimedInit == Init => Timed /\ PendingIsSuspended
  BY DEF Init, Timed, PendingIsSuspended, Suspended

LEMMA TimedNext ==
  Flow /\ Timed /\ PendingIsSuspended /\ [Next]_vars => Timed' /\ PendingIsSuspended'
<1> SUFFICES ASSUME Flow, Timed, PendingIsSuspended, [Next]_vars
             PROVE  Timed' /\ PendingIsSuspended'
  OBVIOUS
<1> USE DEF Types, Flow, Timed, PendingIsSuspended, Suspended
<1>1. ASSUME NEW c \in Conn, Action(c) PROVE Timed' /\ PendingIsSuspended'
  <2>1. CASE Admit(c)
    BY <2>1 DEF Admit, Arrives, Suspend
  <2>2. CASE AdmitInVain(c) \/ Delay(c) \/ Refuse(c) \/ CloseDelayed(c)
    BY <2>2 DEF WorkerWorks, AdmitInVain, Delay, Refuse, CloseDelayed, Arrives
  <2>3. CASE Transfer(c) \/ Expire(c)
    BY <2>3 DEF Transfer, Expire
  <2>4. CASE Timeout(c)
    BY <2>4 DEF Timeout, Frame
  <2>5. CASE Abandon(c)
    BY <2>5 DEF Abandon, Resumes, Finish, Shutdown
  <2>6. CASE AfterHandshake(c)
    BY <2>6 DEF AfterHandshake, Goes, Resumes, ReadOn, Suspend
  <2>7. CASE AfterHead(c)
    BY <2>7 DEF AfterHead, Goes, Resumes, ReadOn, Proceed, Work, Write, Finish, Shutdown, Suspend
  <2>8. CASE AfterBody(c)
    BY <2>8 DEF AfterBody, Goes, Resumes, ReadOn, Proceed, Work, Write, Finish, Shutdown, Suspend
  <2>9. CASE AfterWrite(c)
    BY <2>9 DEF AfterWrite, Goes, Resumes, Finish, Shutdown
  <2>10. CASE Thread(c)
    BY <2>10 DEF WorkerWorks, Thread, WorkerEnds, AfterWork, WriteInThread, FinishInThread,
       Shutdown, Suspend
  <2>11. CASE Close(c)
    BY <2>11 DEF Close, ShutsDown, Ended, WorkerWorks, OneShutsDown
  <2> QED
    BY <1>1, <2>1, <2>2, <2>3, <2>4, <2>5, <2>6, <2>7, <2>8, <2>9, <2>10, <2>11
       DEF Action, Resume
<1>2. CASE UNCHANGED vars
  BY <1>2 DEF vars
<1> QED BY <1>1, <1>2 DEF Next, Step, Action

(* accept() waits without a limit only for the end of a late answer: else  *)
(* what is under way is the work of a thread, or the timer is still to     *)
(* interrupt it.  No path arms a timer late, and none takes it down while  *)
(* the coroutine goes on.                                                  *)
THEOREM WaitsEndHolds == Spec => []WaitsEnd
<1>1. Flow /\ Timed /\ PendingIsSuspended => WaitsEnd
  BY DEF Flow, WorkerWorks, CanceledWaitsForWork, Timed, PendingIsSuspended, WaitsEnd, Late
<1>2. Spec => [](Timed /\ PendingIsSuspended)
  BY TimedInit, TimedNext, FlowInvariant, PTL DEF Spec
<1> QED BY <1>1, <1>2, FlowInvariant, PTL

(* After the timer's callback a coroutine goes to the shutdown and ends,   *)
(* from wherever it is: no if (!canceled) that it passes leads elsewhere,  *)
(* except to the answer of the thread that has passed the last one before. *)
THEOREM TimeoutEndsHolds == Spec => TimeoutEnds
<1> DEFINE Ending(c) == canceled[c] =>
               \/ pc'[c] = pc[c]
               \/ pc[c] \in Suspended /\ pc'[c] = "shutdown"
               \/ worker[c] = "past" /\ pc'[c] = "write"
               \/ pc[c] = "shutdown" /\ pc'[c] = "closed"
<1>1. Flow /\ [Next]_vars => [\A c \in Conn : Ending(c)]_vars
  <2> SUFFICES ASSUME Flow, Next, NEW c \in Conn PROVE Ending(c)
    BY DEF vars
  <2> PICK d \in Conn : Action(d)
    BY DEF Next, Step, Action
  <2> USE DEF Flow, Types, WorkerWorks, CanceledWaitsForWork
  <2>1. CASE Admit(d) \/ AdmitInVain(d) \/ Delay(d) \/ Refuse(d)
    BY <2>1 DEF Admit, AdmitInVain, Delay, Refuse, Arrives, Suspend
  <2>2. CASE CloseDelayed(d)
    BY <2>2 DEF CloseDelayed
  <2>3. CASE Transfer(d) \/ Expire(d) \/ Timeout(d)
    BY <2>3 DEF Transfer, Expire, Timeout
  <2>4. CASE Resume(d)
    BY <2>4 DEF Resume, Abandon, AfterHandshake, AfterHead, AfterBody, AfterWrite, Goes,
       Resumes, ReadOn, Proceed, Work, Write, Finish, Shutdown, Suspend, Suspended
  <2>5. CASE Thread(d)
    BY <2>5, ThreadMoves DEF Suspended
  <2>6. CASE Close(d)
    BY <2>6 DEF Close, ShutsDown, Ended
  <2> QED BY <2>1, <2>2, <2>3, <2>4, <2>5, <2>6 DEF Action
<1> QED BY <1>1, FlowInvariant, PTL DEF Spec, TimeoutEnds

-----------------------------------------------------------------------------
(* The connections inside, as the contract counts them, are the frames.    *)
LEMMA InsideIsFrames ==
  Contract!Inside = Frames /\ Contract!Cardinality(Frames) = Cardinality(Frames)
<1>1. Contract!Inside = Frames
  BY DEF Contract!Inside, Frames, FateOf
<1>2. Contract!Cardinality(Frames) = Cardinality(Frames)
  BY DEF Contract!Cardinality, Cardinality
<1> QED BY <1>1, <1>2

(* What a step does to the fate of its connection, and of the others.      *)
LEMMA FateChanges ==
  ASSUME Flow, NEW c \in Conn, Action(c)
  PROVE  /\ \A d \in Conn \ {c} : FateOf(d)' = FateOf(d)
         /\ \/ FateOf(c)' = FateOf(c)
            \/ Admit(c) /\ FateOf(c) = "away" /\ FateOf(c)' = "served"
            \/ FateOf(c) = "away" /\ FateOf(c)' = "gone"
            \/ FateOf(c) = "served" /\ FateOf(c)' = "answered"
            \/ FateOf(c) \in {"served", "answered"} /\ FateOf(c)' = "gone"
<1> USE DEF Flow, Types, FateOf, Frame, Suspended, SentIsLast
<1>1. CASE Admit(c)
  BY <1>1 DEF Admit, Arrives, Suspend
<1>2. CASE AdmitInVain(c) \/ Refuse(c) \/ Delay(c)
  BY <1>2 DEF AdmitInVain, Refuse, Delay, Arrives
<1>3. CASE CloseDelayed(c)
  BY <1>3 DEF CloseDelayed
<1>4. CASE Transfer(c)
  BY <1>4 DEF Transfer
<1>5. CASE Expire(c) \/ Timeout(c)
  BY <1>5 DEF Expire, Timeout
<1>6. CASE Resume(c)
  <2>1. /\ pc[c] \in Suspended /\ UNCHANGED sent
        /\ \E l \in Suspended \cup {"shutdown"} : pc' = [pc EXCEPT ![c] = l]
    BY <1>6, ResumeMoves
  <2> QED BY <2>1
<1>7. CASE Thread(c)
  <2>1. /\ pc[c] = "work" /\ UNCHANGED sent
        /\ \/ UNCHANGED pc
           \/ \E l \in {"write", "shutdown"} : pc' = [pc EXCEPT ![c] = l]
    BY <1>7, ThreadMoves DEF WorkerWorks
  <2> QED BY <2>1
<1>8. CASE Close(c)
  BY <1>8 DEF Close, ShutsDown, Ended
<1> QED BY <1>1, <1>2, <1>3, <1>4, <1>5, <1>6, <1>7, <1>8 DEF Action

LEMMA StepKeepsContract ==
  Flow /\ SlotsAccounted /\ [Next]_vars
    => [Contract!Next]_<<[c \in Conn |-> FateOf(c)], concurrencyLimit>>
<1> DEFINE fate == [c \in Conn |-> FateOf(c)]
<1> SUFFICES ASSUME Flow, SlotsAccounted, [Next]_vars
    PROVE Contract!Next \/ UNCHANGED <<fate, concurrencyLimit>>
  OBVIOUS
<1>1. ASSUME NEW c \in Conn, Action(c), UNCHANGED concurrencyLimit
      PROVE Contract!Next \/ UNCHANGED <<fate, concurrencyLimit>>
  <2>1. fate' = [fate EXCEPT ![c] = FateOf(c)']
    BY <1>1, FateChanges
  <2>2. CASE FateOf(c)' = FateOf(c)
    BY <1>1, <2>1, <2>2
  <2>3. CASE Admit(c) /\ FateOf(c) = "away" /\ FateOf(c)' = "served"
    <3>1. Contract!Cardinality(Contract!Inside) < concurrencyLimit
      BY <2>3, InsideIsFrames DEF Admit, SlotsAccounted, Frames
    <3>2. Contract!Move(c, "away", "served")
      BY <1>1, <2>1, <2>3 DEF Contract!Move
    <3>3. Contract!Serve(c)
      BY <3>1, <3>2 DEF Contract!Serve
    <3> QED BY <3>3 DEF Contract!Next
  <2>4. CASE FateOf(c) = "away" /\ FateOf(c)' = "gone"
    BY <1>1, <2>1, <2>4 DEF Contract!TurnAway, Contract!Move, Contract!Next
  <2>5. CASE FateOf(c) = "served" /\ FateOf(c)' = "answered"
    BY <1>1, <2>1, <2>5 DEF Contract!Answer, Contract!Move, Contract!Next
  <2>6. CASE FateOf(c) \in {"served", "answered"} /\ FateOf(c)' = "gone"
    BY <1>1, <2>1, <2>6 DEF Contract!Leave, Contract!Move, Contract!Next
  <2> QED BY <1>1, <2>2, <2>3, <2>4, <2>5, <2>6, FateChanges
<1>2. CASE UNCHANGED vars
  BY <1>2 DEF vars, FateOf, Frame
<1> QED BY <1>1, <1>2 DEF Next, Step, Action

(* accept(), close() and listen(), with their timers, threads and          *)
(* cancellations, do nothing that ServiceContract does not allow: at most  *)
(* the limit inside, one answer each, and nobody comes back.               *)
THEOREM KeepsContractHolds == Spec => KeepsContract
<1>1. Init => Contract!Init
  BY LoopAssumption DEF Init, Contract!Init, FateOf, Frame, Suspended
<1>2. Flow /\ SlotsAccounted /\ [Next]_vars
        => [Contract!Next]_<<[c \in Conn |-> FateOf(c)], concurrencyLimit>>
  BY StepKeepsContract
<1> QED
  BY <1>1, <1>2, FlowInvariant, SlotsAccountedHolds, PTL DEF Spec, KeepsContract, Contract!Spec
=============================================================================
