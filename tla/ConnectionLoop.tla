--------------------------- MODULE ConnectionLoop ---------------------------
(***************************************************************************)
(* The loop of one ioContext thread in server_core.cpp: listen() admits    *)
(* connections, accept() serves each in a coroutine, close() gets rid of   *)
(* those there is no room for.                                             *)
(*                                                                         *)
(* A coroutine runs from one co_await to the next without interruption;    *)
(* pc[c] names the operation it is suspended on and op[c] tells how far    *)
(* that operation is.  Completions and expired timers wait in the loop's   *)
(* queue: a timer's callback may run before or after the resumption of a   *)
(* coroutine whose operation has completed, and cancels the operation only *)
(* while that is still pending.                                            *)
(*                                                                         *)
(* The thread of performAsync() goes on with the coroutine itself, beside  *)
(* the loop and its timers, until that waits for the loop again or ends.   *)
(***************************************************************************)
EXTENDS Naturals, FiniteSets

CONSTANTS
    Conn,             \* connections that clients may open
    ConcurrencyLimits, \* what the configuration may set s_concurrencyLimit to
    DelayedSockets,   \* c_delayedSockets
    Nobody            \* no coroutine keeps the thread of the loop

ASSUME LoopAssumption ==
    /\ IsFiniteSet(Conn)
    /\ ConcurrencyLimits \subseteq Nat \ {0} /\ DelayedSockets \in Nat
    /\ Nobody \notin Conn

VARIABLES
    concurrencyLimit, \* s_concurrencyLimit, set before the loop runs
    pc,         \* where the coroutine of a connection is
    op,         \* the operation it is suspended on
    timer,      \* timeoutTimer: armed, expired (callback queued), over
    canceled,   \* the flag the callback sets
    worker,     \* the thread of performAsync, see Threads
    sent,       \* history: the response has been written
    concurrent, \* s_concurrentRequestsCounter
    delayed,    \* s_delayedSocketsCounter
    busy,       \* whose blocking stream.shutdown() holds the loop
    listener    \* listen(): accepting, or dead of an exception

counters == <<concurrent, delayed>>
vars == <<concurrencyLimit, pc, op, timer, canceled, worker, sent, counters,
          busy, listener>>

Suspended == {"handshake", "head", "body", "work", "write"}
Location == Suspended \cup {"none", "shutdown", "delayed", "closed", "refused"}

(* The handler is running; the thread has gone on with the coroutine; it   *)
(* has found !canceled and is to write; it is in the shutdown.             *)
Threads == {"none", "running", "resumed", "past", "closing", "ended"}

(* A coroutine frame, and with it the Counter, the request and the stream. *)
Frame(c) == pc[c] \in Suspended \cup {"shutdown"}

TypeOK ==
    /\ concurrencyLimit \in ConcurrencyLimits
    /\ pc \in [Conn -> Location]
    /\ op \in [Conn -> {"none", "pending", "done", "error"}]
    /\ timer \in [Conn -> {"off", "armed", "expired", "over"}]
    /\ canceled \in [Conn -> BOOLEAN]
    /\ worker \in [Conn -> Threads]
    /\ sent \in [Conn -> BOOLEAN]
    /\ concurrent \in 0..Cardinality(Conn) /\ delayed \in 0..Cardinality(Conn)
    /\ busy \in Conn \cup {Nobody}
    /\ listener \in {"accepting", "dead"}

Init ==
    /\ concurrencyLimit \in ConcurrencyLimits
    /\ pc = [c \in Conn |-> "none"]
    /\ op = [c \in Conn |-> "none"]
    /\ timer = [c \in Conn |-> "off"]
    /\ canceled = [c \in Conn |-> FALSE]
    /\ worker = [c \in Conn |-> "none"]
    /\ sent = [c \in Conn |-> FALSE]
    /\ concurrent = 0 /\ delayed = 0
    /\ busy = Nobody
    /\ listener = "accepting"

Free == busy = Nobody

Suspend(c, l) ==
    /\ pc' = [pc EXCEPT ![c] = l]
    /\ op' = [op EXCEPT ![c] = "pending"]

-----------------------------------------------------------------------------
(* listen() *)
Arrives(c) == Free /\ listener = "accepting" /\ pc[c] = "none"

(* Variant for the mutation runs: one too many. *)
AdmitOneMore(c) ==
    /\ Arrives(c)
    /\ concurrent <= concurrencyLimit
    /\ concurrent' = concurrent + 1
    /\ Suspend(c, "handshake")
    /\ timer' = [timer EXCEPT ![c] = "armed"]
    /\ UNCHANGED <<canceled, worker, sent, delayed, busy, listener>>

(* accept() starts: the counter, the timer, the handshake. *)
Admit(c) ==
    /\ Arrives(c)
    /\ concurrent < concurrencyLimit
    /\ concurrent' = concurrent + 1
    /\ Suspend(c, "handshake")
    /\ timer' = [timer EXCEPT ![c] = "armed"]
    /\ UNCHANGED <<canceled, worker, sent, delayed, busy, listener>>

(* remote_endpoint() throws, the peer has gone: the outer catch. *)
AdmitInVain(c) ==
    /\ Arrives(c)
    /\ concurrent < concurrencyLimit
    /\ pc' = [pc EXCEPT ![c] = "closed"]
    /\ UNCHANGED <<op, timer, canceled, worker, sent, counters, busy, listener>>

Delay(c) ==
    /\ Arrives(c)
    /\ concurrent >= concurrencyLimit /\ delayed < DelayedSockets
    /\ pc' = [pc EXCEPT ![c] = "delayed"]
    /\ delayed' = delayed + 1
    /\ UNCHANGED <<op, timer, canceled, worker, sent, concurrent, busy, listener>>

(* No room at all: the socket is shut down at once, which may throw. *)
Refuse(c) ==
    /\ Arrives(c)
    /\ concurrent >= concurrencyLimit /\ delayed >= DelayedSockets
    /\ pc' = [pc EXCEPT ![c] = "refused"]
    /\ listener' \in {"accepting", "dead"}
    /\ UNCHANGED <<op, timer, canceled, worker, sent, counters, busy>>

(* close(): after c_closingDelay; whatever it throws is swallowed. *)
CloseDelayed(c) ==
    /\ Free /\ pc[c] = "delayed"
    /\ pc' = [pc EXCEPT ![c] = "closed"]
    /\ delayed' = delayed - 1
    /\ UNCHANGED <<op, timer, canceled, worker, sent, concurrent, busy, listener>>

-----------------------------------------------------------------------------
(* What happens outside the loop. *)

(* The peer's bytes come or go, or the connection breaks. *)
Transfer(c) ==
    /\ pc[c] \in Suspended \ {"work"} /\ op[c] = "pending"
    /\ \E result \in {"done", "error"} :
         /\ op' = [op EXCEPT ![c] = result]
         /\ sent' = [sent EXCEPT ![c] = pc[c] = "write" /\ result = "done"]
    /\ UNCHANGED <<pc, timer, canceled, worker, counters, busy, listener>>

(* The handler returns, and task.complete() resumes the coroutine there    *)
(* and then, on the thread that the handler ran on.                        *)
WorkerEnds(c) ==
    /\ worker[c] = "running"
    /\ worker' = [worker EXCEPT ![c] = "resumed"]
    /\ op' = [op EXCEPT ![c] = "none"]
    /\ UNCHANGED <<pc, timer, canceled, sent, counters, busy, listener>>

(* The deadline passes. *)
Expire(c) ==
    /\ timer[c] = "armed"
    /\ timer' = [timer EXCEPT ![c] = "expired"]
    /\ UNCHANGED <<pc, op, canceled, worker, sent, counters, busy, listener>>

-----------------------------------------------------------------------------
(* Variant for the mutation runs: the flag is set, the operation goes on. *)
TimeoutFlagOnly(c) ==
    /\ Free /\ timer[c] = "expired"
    /\ timer' = [timer EXCEPT ![c] = "over"]
    /\ canceled' = [canceled EXCEPT ![c] = TRUE]
    /\ UNCHANGED <<pc, op, worker, sent, counters, busy, listener>>

(* Variant for the mutation runs: performAsync listens to the signal, too. *)
TimeoutAnything(c) ==
    /\ Free /\ timer[c] = "expired"
    /\ timer' = [timer EXCEPT ![c] = "over"]
    /\ canceled' = [canceled EXCEPT ![c] = TRUE]
    /\ op' = [op EXCEPT ![c] = IF op[c] = "pending" THEN "error" ELSE @]
    /\ UNCHANGED <<pc, worker, sent, counters, busy, listener>>

(* The callback: the flag, and the signal, which the socket's operations   *)
(* listen to and performAsync does not.  If the coroutine has ended in the *)
(* meantime, the flag and the signal are gone with its frame: what the     *)
(* callback then touches is no longer theirs.                              *)
Timeout(c) ==
    /\ Free /\ timer[c] = "expired"
    /\ timer' = [timer EXCEPT ![c] = "over"]
    /\ canceled' = [canceled EXCEPT ![c] = canceled[c] \/ Frame(c)]
    /\ op' = [op EXCEPT ![c] = IF op[c] = "pending" /\ pc[c] # "work"
                               THEN "error" ELSE @]
    /\ UNCHANGED <<pc, worker, sent, counters, busy, listener>>

-----------------------------------------------------------------------------
(* accept() on the loop, from one suspension to the next. *)
Resumes(c, l) == Free /\ pc[c] = l /\ op[c] \in {"done", "error"}

(* After the try block: the timer is cancelled, unless it has expired, and *)
(* the blocking shutdown begins.                                           *)
Shutdown(c) ==
    /\ pc' = [pc EXCEPT ![c] = "shutdown"]
    /\ op' = [op EXCEPT ![c] = "none"]
    /\ timer' = [timer EXCEPT ![c] = IF @ = "armed" THEN "over" ELSE @]
    /\ UNCHANGED <<canceled, sent, counters, listener>>

Finish(c) == Shutdown(c) /\ busy' = c /\ UNCHANGED worker

Write(c) ==
    /\ Suspend(c, "write")
    /\ UNCHANGED <<timer, canceled, worker, sent, counters, busy, listener>>

Work(c) ==
    /\ Suspend(c, "work")
    /\ worker' = [worker EXCEPT ![c] = "running"]
    /\ UNCHANGED <<timer, canceled, sent, counters, busy, listener>>

ReadOn(c, l) ==
    /\ Suspend(c, l)
    /\ UNCHANGED <<timer, canceled, worker, sent, counters, busy, listener>>

(* The request is complete: it is answered by the cash registers' handler, *)
(* in a thread, or at once, by another handler or because it is wrong or   *)
(* not allowed; or there is no thread to be had, which throws.             *)
Proceed(c) == Work(c) \/ Write(c) \/ Finish(c)

(* An error throws, and a canceled connection skips all that is left. *)
Abandon(c) ==
    /\ \E l \in Suspended : Resumes(c, l)
    /\ op[c] = "error" \/ canceled[c]
    /\ Finish(c)

Goes(c, l) == Resumes(c, l) /\ op[c] = "done" /\ ~canceled[c]

AfterHandshake(c) == Goes(c, "handshake") /\ ReadOn(c, "head")

AfterHead(c) == Goes(c, "head") /\ (ReadOn(c, "body") \/ Proceed(c))

AfterBody(c) == Goes(c, "body") /\ (ReadOn(c, "body") \/ Proceed(c))

AfterWrite(c) == Goes(c, "write") /\ Finish(c)

-----------------------------------------------------------------------------
(* accept() on the thread of performAsync: no step of it waits for the     *)
(* loop, and the timer's callback may run between any two.                 *)
FinishInThread(c) ==
    /\ Shutdown(c)
    /\ worker' = [worker EXCEPT ![c] = "closing"]
    /\ UNCHANGED busy

(* Variant for the mutation runs: the answer is written in any case. *)
AfterWorkUntested(c) ==
    /\ worker[c] = "resumed"
    /\ worker' = [worker EXCEPT ![c] = "past"]
    /\ UNCHANGED <<pc, op, timer, canceled, sent, counters, busy, listener>>

(* The flag is tested, *)
AfterWork(c) ==
    /\ worker[c] = "resumed"
    /\ \/ canceled[c] /\ FinishInThread(c)
       \/ /\ ~canceled[c]
          /\ worker' = [worker EXCEPT ![c] = "past"]
          /\ UNCHANGED <<pc, op, timer, canceled, sent, counters, busy, listener>>

(* and then the answer is rendered, which may throw, and begun: if the     *)
(* callback has run meanwhile, its signal found nothing to cancel, and     *)
(* nothing will interrupt the write any more.                              *)
WriteInThread(c) ==
    /\ worker[c] = "past"
    /\ \/ FinishInThread(c)
       \/ /\ Suspend(c, "write")
          /\ worker' = [worker EXCEPT ![c] = "ended"]
          /\ UNCHANGED <<timer, canceled, sent, counters, busy, listener>>

-----------------------------------------------------------------------------
(* On the loop, which the shutdown has kept, or on its thread. *)
ShutsDown(c) == pc[c] = "shutdown" /\ (busy = c \/ worker[c] = "closing")

Ended(c) ==
    /\ pc' = [pc EXCEPT ![c] = "closed"]
    /\ busy' = IF busy = c THEN Nobody ELSE busy
    /\ worker' = [worker EXCEPT ![c] = IF @ = "closing" THEN "ended" ELSE @]
    /\ UNCHANGED <<op, timer, canceled, sent, delayed, listener>>

(* Variant for the mutation runs: the counter is taken down twice. *)
CloseTwice(c) ==
    ShutsDown(c) /\ Ended(c) /\ concurrent' = concurrent - 2

(* The peer has answered the shutdown or has gone: the socket is closed,   *)
(* the coroutine ends and so does its frame.                               *)
Close(c) ==
    ShutsDown(c) /\ Ended(c) /\ concurrent' = concurrent - 1

-----------------------------------------------------------------------------
Resume(c) ==
    \/ Abandon(c) \/ AfterHandshake(c) \/ AfterHead(c) \/ AfterBody(c)
    \/ AfterWrite(c)

Thread(c) == WorkerEnds(c) \/ AfterWork(c) \/ WriteInThread(c)

(* The configuration is read once, before the loop. *)
Step(A) == A /\ UNCHANGED concurrencyLimit

Next ==
    \E c \in Conn : Step(
        \/ Admit(c) \/ AdmitInVain(c) \/ Delay(c) \/ Refuse(c) \/ CloseDelayed(c)
        \/ Transfer(c) \/ Expire(c) \/ Timeout(c)
        \/ Resume(c) \/ Thread(c) \/ Close(c))

(* The loop serves its queue; clocks run; a handler returns and its thread *)
(* runs on.  Nothing makes a client send or receive, and nothing makes it  *)
(* answer the shutdown.  A connection keeps the loop busy once, so weak    *)
(* fairness is enough.                                                     *)
Fairness ==
    \A c \in Conn :
        /\ WF_vars(Step(Resume(c) \/ CloseDelayed(c)))
        /\ WF_vars(Step(Timeout(c)))
        /\ WF_vars(Step(Expire(c)))
        /\ WF_vars(Step(Thread(c)))

Spec == Init /\ [][Next]_vars /\ Fairness

-----------------------------------------------------------------------------
(* Every way out of accept() and close() gives the slot back, and none     *)
(* gives it back twice: the counters are the frames there are, and stay    *)
(* within the limits that the listener compares them with.                 *)
SlotsAccounted ==
    /\ concurrent = Cardinality({c \in Conn : Frame(c)})
    /\ delayed = Cardinality({c \in Conn : pc[c] = "delayed"})
    /\ concurrent <= concurrencyLimit /\ delayed <= DelayedSockets

(* The request a worker works on, by reference, is alive and nobody else's *)
(* meanwhile, and the coroutine the thread goes on with is not run by the  *)
(* loop as well: no timeout resumes or ends it under the thread.           *)
WorkerOwnsRequest ==
    \A c \in Conn :
        /\ worker[c] \in {"running", "resumed", "past"} => pc[c] = "work"
        /\ worker[c] = "closing" => pc[c] = "shutdown" /\ busy # c

(* An answer that was begun although the callback had run. *)
Late(c) == canceled[c] /\ pc[c] = "write" /\ op[c] = "pending"

(* After the timeout callback nothing is begun for the connection: neither *)
(* an operation of a cash register nor an answer, though the operation     *)
(* that was under way is completed.  The one exception is the thread that  *)
(* has tested the flag before and begins its answer after: that write is   *)
(* late, and no other answer gets out.                                     *)
NothingAfterTimeout ==
    [][\A c \in Conn : canceled[c] =>
         /\ worker'[c] = "running" => worker[c] = "running"
         /\ worker'[c] = "past" => worker[c] = "past"
         /\ pc'[c] = "write" => pc[c] = "write" \/ worker[c] = "past"
         /\ sent'[c] => sent[c] \/ Late(c)]_vars

(* The whole is what ServiceContract promises. *)
FateOf(c) ==
    CASE pc[c] = "none" -> "away"
      [] Frame(c) -> IF sent[c] THEN "answered" ELSE "served"
      [] OTHER -> "gone"

Contract == INSTANCE ServiceContract
              WITH fate <- [c \in Conn |-> FateOf(c)], limit <- concurrencyLimit

(* Every connection is turned away or served, a served one is answered at  *)
(* most once, none comes back, and at most concurrencyLimit of them are    *)
(* inside at a time, whatever the client sends or fails to send and        *)
(* whenever the timer expires.                                             *)
KeepsContract == Contract!Spec

(* What only the peer can end: the shutdown waits for its reaction, and a  *)
(* late answer has no timer.                                               *)
AtPeersMercy(c) == pc[c] = "shutdown" \/ Late(c)

(* Everyone who is served or delayed leaves, though clients stop sending   *)
(* and receiving at any moment, provided that no peer leaves the server at *)
(* its mercy for ever: one that does not answer its shutdown stops the     *)
(* loop for all.                                                           *)
EveryoneLeaves ==
    (\A c \in Conn : []<>~AtPeersMercy(c)) =>
        \A c \in Conn : (Frame(c) \/ pc[c] = "delayed") ~> pc[c] = "closed"
=============================================================================
