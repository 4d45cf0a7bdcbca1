---------------------------- MODULE KkmOpHandler ----------------------------
(***************************************************************************)
(* Server::KkmOp::Handler::operator() (server_kkmop_handler.cpp) as many   *)
(* worker threads run it at once: Server::performAsync gives every request *)
(* a detached thread of its own, and the threads share the response cache  *)
(* and the cash registers.                                                 *)
(*                                                                         *)
(* A worker validates the request, looks its idempotency key up in the     *)
(* cache, and on a miss opens a session with the cash register, performs   *)
(* the operation, closes the session (the temporary Device dies inside     *)
(* callMethod) and only then stores the answer.  An exception skips the    *)
(* store.                                                                  *)
(***************************************************************************)
EXTENDS Cache, Operations

CONSTANTS
    Request,   \* the requests: each has its own worker thread
    Key,       \* the idempotency keys, each with the client's address
    NoKey,     \* the header is absent or empty
    Kkm,       \* the cash registers
    Message,   \* what the clients may ask
    ShortLife, \* c_reportCacheLifeTime
    LongLife,  \* c_receiptCacheLifeTime
    None,      \* no answer yet; a free cash register
    Refused    \* a response made by fail(): never cached

(* What can be wrong with a request.  "serial" is what Payload::fail turns *)
(* into a 400 answer: no serial number, or for learn one too many.         *)
Defect == {"none", "method", "content-type", "route", "body", "serial"}

AnyMessage == [key : Key \cup {NoKey}, op : Op, kkm : Kkm, defect : Defect]

ASSUME KkmOpAssumption ==
    /\ Message \subseteq AnyMessage
    /\ ShortLife \in Nat /\ LongLife \in Nat
    /\ CacheKey = Key
    /\ Answer = Request
    /\ NoKey \notin Key
    /\ None \notin Request \cup {Refused}
    /\ Refused \notin Request

VARIABLES
    pc,       \* where each worker is
    msg,      \* the request it serves
    session,  \* who has each cash register open: the driver admits one
    outcome,  \* how the operation ended
    answer,   \* whose operation the response reports
    effect,   \* history: the operation acted on the cash register
    overlap,  \* history: pairs of one key that were past load() together
    erased    \* history: keys a clean-up has erased

handlerVars == <<pc, msg, session, outcome, answer>>
historyVars == <<effect, overlap, erased>>
vars == <<cacheVars, handlerVars, historyVars>>

Location == {"idle", "maintain", "clean", "load", "route", "open", "work",
             "close", "store", "done"}
Result == {"ok", "failed", "refused", "threw"}

TypeOK ==
    /\ CacheTypeOK
    /\ pc \in [Request -> Location]
    /\ msg \in [Request -> AnyMessage \cup {None}]
    /\ \A r \in Request : pc[r] # "idle" => msg[r] \in AnyMessage
    /\ session \in [Kkm -> Request \cup {None}]
    /\ outcome \in [Request -> Result \cup {None}]
    /\ answer \in [Request -> Request \cup {None, Refused}]
    /\ effect \in [Request -> BOOLEAN]
    /\ overlap \subseteq Request \X Request
    /\ erased \subseteq Key

(* Between a miss in the cache and the answer. *)
InFlight(r) == pc[r] \in {"route", "open", "work", "close", "store"}

Keyed(r) == pc[r] # "idle" /\ msg[r].key # NoKey

SameKey(q, r) == Keyed(q) /\ Keyed(r) /\ msg[q].key = msg[r].key

Init ==
    /\ CacheInit
    /\ pc = [r \in Request |-> "idle"]
    /\ msg = [r \in Request |-> None]
    /\ session = [d \in Kkm |-> None]
    /\ outcome = [r \in Request |-> None]
    /\ answer = [r \in Request |-> None]
    /\ effect = [r \in Request |-> FALSE]
    /\ overlap = {}
    /\ erased = {}

Goto(r, l) == pc' = [pc EXCEPT ![r] = l]

(* fail() and return: the response is set, nothing is cached. *)
Refuse(r) ==
    /\ Goto(r, "done")
    /\ answer' = [answer EXCEPT ![r] = Refused]

-----------------------------------------------------------------------------
(* The checks before the cache: the method, the key and the content type   *)
(* a POST must have.                                                       *)
Acceptable(m) ==
    /\ m.defect # "method"
    /\ IsPost(m.op) => m.key # NoKey /\ m.defect # "content-type"

Receive(r, m) ==
    /\ pc[r] = "idle"
    /\ msg' = [msg EXCEPT ![r] = m]
    /\ \/ /\ Acceptable(m)
          /\ Goto(r, "maintain")
          /\ UNCHANGED answer
       \/ /\ ~Acceptable(m)
          /\ Refuse(r)
    /\ UNCHANGED <<cacheVars, session, outcome, historyVars>>

Maintain(r) ==
    /\ pc[r] = "maintain"
    /\ CountCall
    /\ Goto(r, IF CleanUpDue THEN "clean" ELSE "load")
    /\ UNCHANGED <<msg, session, outcome, answer, historyVars>>

CleanUp(r) ==
    /\ pc[r] = "clean"
    /\ erased' = erased \cup ExpiredKeys
    /\ EraseExpired
    /\ Goto(r, "load")
    /\ UNCHANGED <<msg, session, outcome, answer, effect, overlap>>

(* Variant for the mutation runs: the hit hands over the whole entry. *)
LoadEntry(r) ==
    /\ pc[r] = "load"
    /\ Held(msg[r].key)
    /\ answer' = [answer EXCEPT ![r] = cache[msg[r].key]]
    /\ Goto(r, "done")
    /\ UNCHANGED <<cacheVars, msg, session, outcome, historyVars>>

(* A hit: the entry's status and data become the response. *)
LoadHit(r) ==
    /\ pc[r] = "load"
    /\ Held(msg[r].key)
    /\ answer' = [answer EXCEPT ![r] = cache[msg[r].key].answer]
    /\ Goto(r, "done")
    /\ UNCHANGED <<cacheVars, msg, session, outcome, historyVars>>

(* A miss, or no key to look up: the lock is released before the operation. *)
LoadMiss(r) ==
    /\ pc[r] = "load"
    /\ ~Held(msg[r].key)
    /\ overlap' = overlap \cup
         LET met == {q \in Request : q # r /\ InFlight(q) /\ SameKey(q, r)}
         IN  {<<q, r>> : q \in met} \cup {<<r, q>> : q \in met}
    /\ Goto(r, "route")
    /\ UNCHANGED <<cacheVars, msg, session, outcome, answer, effect, erased>>

-----------------------------------------------------------------------------
(* The handler key, the body and Payload's own refusals, which are results *)
(* and therefore go to the cache.                                          *)
Route(r) ==
    /\ pc[r] = "route"
    /\ LET m == msg[r] IN
       \/ /\ m.defect = "route" \/ (m.defect = "body" /\ IsPost(m.op))
          /\ Refuse(r)
          /\ UNCHANGED <<outcome, effect>>
       \/ /\ m.defect = "serial" /\ m.op # "reset-registry"
          /\ outcome' = [outcome EXCEPT ![r] = "refused"]
          /\ Goto(r, "store")
          /\ UNCHANGED <<answer, effect>>
       \/ /\ m.defect \notin {"route", "serial"}
          /\ m.defect = "body" => ~IsPost(m.op)
          /\ m.op # "reset-registry"
          /\ Goto(r, "open")
          /\ UNCHANGED <<answer, outcome, effect>>
       \/ /\ m.defect \notin {"route", "body"} /\ m.op = "reset-registry"
          /\ outcome' = [outcome EXCEPT ![r] = "ok"]
          /\ effect' = [effect EXCEPT ![r] = TRUE]
          /\ Goto(r, "store")
          /\ UNCHANGED answer
    /\ UNCHANGED <<cacheVars, msg, session, overlap, erased>>

(* Device's constructor: open() needs the port, which another session may  *)
(* hold; any failure throws out of the handler.                            *)
OpenSession(r) ==
    /\ pc[r] = "open"
    /\ session[msg[r].kkm] = None
    /\ session' = [session EXCEPT ![msg[r].kkm] = r]
    /\ Goto(r, "work")
    /\ UNCHANGED <<cacheVars, msg, outcome, answer, historyVars>>

OpenFails(r) ==
    /\ pc[r] = "open"
    /\ Refuse(r)
    /\ UNCHANGED <<cacheVars, msg, session, outcome, historyVars>>

(* The method of the device, however it ends. *)
Work(r) ==
    /\ pc[r] = "work"
    /\ \E e \in Ending(msg[r].op) :
         /\ outcome' = [outcome EXCEPT ![r] = e[1]]
         /\ effect' = [effect EXCEPT ![r] = e[2]]
    /\ Goto(r, "close")
    /\ UNCHANGED <<cacheVars, msg, session, answer, overlap, erased>>

(* Variant for the mutation runs: the port is not released on an exception. *)
CloseUnlessThrown(r) ==
    /\ pc[r] = "close"
    /\ IF outcome[r] = "threw"
       THEN Refuse(r) /\ UNCHANGED session
       ELSE /\ session' = [session EXCEPT ![msg[r].kkm] = None]
            /\ Goto(r, "store")
            /\ UNCHANGED answer
    /\ UNCHANGED <<cacheVars, msg, outcome, historyVars>>

(* ~Device, then the exception goes to the catch of operator() or the      *)
(* result goes on to the store.                                            *)
CloseSession(r) ==
    /\ pc[r] = "close"
    /\ session' = [session EXCEPT ![msg[r].kkm] = None]
    /\ \/ /\ outcome[r] = "threw"
          /\ Refuse(r)
       \/ /\ outcome[r] # "threw"
          /\ Goto(r, "store")
          /\ UNCHANGED answer
    /\ UNCHANGED <<cacheVars, msg, outcome, historyVars>>

(* m_expiresAfter: 5 s for a GET and for every report, four days for the   *)
(* receipts and for learn, which leave the POST's initial value.           *)
Life(op) == IF op \in {"receipt", "learn"} THEN LongLife ELSE ShortLife

(* Variant for the mutation runs: only a success is worth caching. *)
StoreSuccess(r) ==
    /\ pc[r] = "store"
    /\ IF msg[r].key = NoKey \/ outcome[r] # "ok"
       THEN UNCHANGED cacheVars
       ELSE Store(msg[r].key, r, Life(msg[r].op))
    /\ answer' = [answer EXCEPT ![r] = r]
    /\ Goto(r, "done")
    /\ UNCHANGED <<msg, session, outcome, historyVars>>

StoreAnswer(r) ==
    /\ pc[r] = "store"
    /\ IF msg[r].key = NoKey
       THEN UNCHANGED cacheVars
       ELSE Store(msg[r].key, r, Life(msg[r].op))
    /\ answer' = [answer EXCEPT ![r] = r]
    /\ Goto(r, "done")
    /\ UNCHANGED <<msg, session, outcome, historyVars>>

PassTime ==
    /\ Tick
    /\ UNCHANGED <<handlerVars, historyVars>>

-----------------------------------------------------------------------------
Worker(r) ==
    \/ Maintain(r) \/ CleanUp(r) \/ LoadHit(r) \/ LoadMiss(r) \/ Route(r)
    \/ OpenSession(r) \/ OpenFails(r) \/ Work(r) \/ CloseSession(r)
    \/ StoreAnswer(r)

Next ==
    \/ \E r \in Request, m \in Message : Receive(r, m)
    \/ \E r \in Request : Worker(r)
    \/ PassTime

Spec == Init /\ [][Next]_vars

-----------------------------------------------------------------------------
Overlapped(q, r) == <<q, r>> \in overlap

(* A key is contended when two of its requests were past load() together.  *)
Contended(k) ==
    \E q, r \in Request : Overlapped(q, r) /\ Keyed(q) /\ msg[q].key = k

(* One key, one receipt: if the cash register acted for two requests of    *)
(* the same key, then both were past Cache::load before either had stored  *)
(* its answer, or the first answer had expired and had been cleaned up.    *)
(* Failed and half-failed receipts count: their results are cached too.    *)
ReceiptOnce ==
    \A q, r \in Request :
        q # r /\ SameKey(q, r) /\ effect[q] /\ effect[r]
              /\ msg[q].op = "receipt" /\ msg[r].op = "receipt"
        => Overlapped(q, r) \/ msg[q].key \in erased

(* One key, one result: all the requests of a key that are answered with   *)
(* the result of an operation are answered with the same one, unless the   *)
(* key was contended or its answer has been cleaned up after its time.     *)
SameAnswer ==
    \A q, r \in Request :
        SameKey(q, r) /\ answer[q] \in Request /\ answer[r] \in Request
        => \/ answer[q] = answer[r]
           \/ Contended(msg[q].key)
           \/ msg[q].key \in erased

(* Whatever way an operation ends, its session with the cash register ends *)
(* with it: a cash register that is held is held by a worker at work on it.*)
SessionHeldAtWork ==
    \A d \in Kkm : session[d] # None =>
        /\ pc[session[d]] \in {"work", "close"}
        /\ msg[session[d]].kkm = d

(* docs/api.md: any number of requests of one client with one key lead to  *)
(* one execution of the operation.                                         *)
OncePerKey ==
    \A q, r \in Request :
        q # r /\ SameKey(q, r) => ~(effect[q] /\ effect[r])
=============================================================================
