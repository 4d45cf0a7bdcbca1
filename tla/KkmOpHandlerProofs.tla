------------------------- MODULE KkmOpHandlerProofs -------------------------
(***************************************************************************)
(* What holds of KkmOpHandler for any number of requests, keys and cash    *)
(* registers, whatever the life times and the clean-up threshold.          *)
(***************************************************************************)
EXTENDS KkmOpHandler, TLAPS

(* The type invariant: every step of every worker keeps the types.         *)
LEMMA TypeInit == Init => TypeOK
  BY KkmOpAssumption, CacheAssumption
     DEF Init, TypeOK, CacheInit, CacheTypeOK, Location

LEMMA TypeNext == TypeOK /\ [Next]_vars => TypeOK'
<1> SUFFICES ASSUME TypeOK, [Next]_vars PROVE TypeOK'
  OBVIOUS
<1> USE KkmOpAssumption, CacheAssumption
    DEF TypeOK, CacheTypeOK, Location, Goto, Refuse, Held, Entry
<1>1. ASSUME NEW r \in Request, NEW m \in Message, Receive(r, m) PROVE TypeOK'
  BY <1>1 DEF Receive, cacheVars, historyVars
<1>2. ASSUME NEW r \in Request, Maintain(r) PROVE TypeOK'
  BY <1>2 DEF Maintain, CountCall, historyVars
<1>3. ASSUME NEW r \in Request, CleanUp(r) PROVE TypeOK'
  BY <1>3 DEF CleanUp, EraseExpired, ExpiredKeys
<1>4. ASSUME NEW r \in Request, LoadHit(r) PROVE TypeOK'
  BY <1>4 DEF LoadHit, cacheVars, historyVars
<1>5. ASSUME NEW r \in Request, LoadMiss(r) PROVE TypeOK'
  BY <1>5 DEF LoadMiss, cacheVars
<1>6. ASSUME NEW r \in Request, Route(r) PROVE TypeOK'
  BY <1>6 DEF Route, cacheVars, Result
<1>7. ASSUME NEW r \in Request, OpenSession(r) PROVE TypeOK'
  BY <1>7 DEF OpenSession, cacheVars, historyVars, AnyMessage
<1>8. ASSUME NEW r \in Request, OpenFails(r) PROVE TypeOK'
  BY <1>8 DEF OpenFails, cacheVars, historyVars
<1>9. ASSUME NEW r \in Request, Work(r) PROVE TypeOK'
  <2>1. PICK e \in Ending(msg[r].op) :
          /\ outcome' = [outcome EXCEPT ![r] = e[1]]
          /\ effect' = [effect EXCEPT ![r] = e[2]]
    BY <1>9 DEF Work
  <2>2. e[1] \in Result /\ e[2] \in BOOLEAN
    BY DEF Ending, Result
  <2> QED BY <1>9, <2>1, <2>2 DEF Work, cacheVars
<1>10. ASSUME NEW r \in Request, CloseSession(r) PROVE TypeOK'
  BY <1>10 DEF CloseSession, cacheVars, historyVars, AnyMessage
<1>11. ASSUME NEW r \in Request, StoreAnswer(r) PROVE TypeOK'
  <2>1. Life(msg[r].op) \in Nat
    BY DEF Life
  <2> QED BY <1>11, <2>1 DEF StoreAnswer, Store, cacheVars, historyVars, AnyMessage
<1>12. CASE PassTime
  BY <1>12 DEF PassTime, Tick, handlerVars, historyVars
<1>13. CASE UNCHANGED vars
  BY <1>13 DEF vars, cacheVars, handlerVars, historyVars
<1> QED
  BY <1>1, <1>2, <1>3, <1>4, <1>5, <1>6, <1>7, <1>8, <1>9, <1>10, <1>11, <1>12, <1>13
     DEF Next, Worker

THEOREM TypeCorrect == Spec => []TypeOK
  BY TypeInit, TypeNext, PTL DEF Spec

-----------------------------------------------------------------------------
(* The inductive invariant.  A worker that is past its miss has seen every *)
(* other worker that is, and whatever has been stored is still there or    *)
(* was erased, so a later request of the key cannot miss.                  *)

Stored(q) == answer[q] = q

OverlapSymmetric ==
    \A q, r \in Request : Overlapped(q, r) => Overlapped(r, q)

InFlightOverlap ==
    \A q, r \in Request :
        q # r /\ InFlight(q) /\ InFlight(r) /\ SameKey(q, r) => Overlapped(q, r)

StoredOverlap ==
    \A q, r \in Request :
        Stored(q) /\ InFlight(r) /\ SameKey(q, r)
        => Overlapped(q, r) \/ msg[q].key \in erased

DoneOverlap ==
    \A q, r \in Request :
        q # r /\ Stored(q) /\ Stored(r) /\ SameKey(q, r)
        => Overlapped(q, r) \/ msg[q].key \in erased

StoredHeld ==
    \A q \in Request :
        Stored(q) /\ Keyed(q) => Held(msg[q].key) \/ msg[q].key \in erased

CacheOwned ==
    \A k \in CacheKey : Held(k) =>
        /\ Stored(cache[k].answer)
        /\ Keyed(cache[k].answer)
        /\ msg[cache[k].answer].key = k

AnswerOwned ==
    \A q \in Request : answer[q] \in Request =>
        Stored(answer[q]) /\ (answer[q] = q \/ SameKey(answer[q], q))

AnsweredDone == \A q \in Request : answer[q] # None => pc[q] = "done"

EffectTraced ==
    \A q \in Request : effect[q] =>
        /\ pc[q] # "idle"
        /\ \/ pc[q] \in {"close", "store"}
           \/ Stored(q)
           \/ answer[q] = Refused /\ outcome[q] = "threw"
        /\ outcome[q] = "threw" => msg[q].op # "receipt"

OnceInv ==
    /\ OverlapSymmetric
    /\ InFlightOverlap
    /\ StoredOverlap
    /\ DoneOverlap
    /\ StoredHeld
    /\ CacheOwned
    /\ AnswerOwned
    /\ AnsweredDone
    /\ EffectTraced


LEMMA OnceInit == Init => OnceInv
  BY KkmOpAssumption DEF Init, CacheInit, OnceInv, OverlapSymmetric, InFlightOverlap,
     StoredOverlap, DoneOverlap, StoredHeld, CacheOwned, AnswerOwned, AnsweredDone,
     EffectTraced, Overlapped, InFlight, Stored, Held

(* A step of a worker in flight that stores nothing: the worker stays in   *)
(* flight or is refused, and only its own state changes.                   *)
LEMMA Touch ==
    ASSUME TypeOK, TypeOK', OnceInv, NEW r \in Request,
           InFlight(r), ~Stored(r),
           \/ pc'[r] = "done" /\ answer'[r] = Refused
           \/ InFlight(r)' /\ answer'[r] = None,
           effect'[r] =>
              /\ \/ pc'[r] \in {"close", "store"}
                 \/ pc'[r] = "done" /\ outcome'[r] = "threw"
              /\ outcome'[r] = "threw" => msg[r].op # "receipt",
           UNCHANGED <<cache, msg, overlap, erased>>,
           \A q \in Request \ {r} :
              /\ pc'[q] = pc[q] /\ answer'[q] = answer[q]
              /\ outcome'[q] = outcome[q] /\ effect'[q] = effect[q]
    PROVE  OnceInv'
<1> USE KkmOpAssumption DEF TypeOK, Location, OnceInv, Overlapped, Stored, Keyed, SameKey
<1>1. \A q \in Request : /\ Stored(q)' <=> Stored(q)
                        /\ InFlight(q)' => InFlight(q)
                        /\ Keyed(q)' <=> Keyed(q)
  BY DEF InFlight
<1>2. (OverlapSymmetric /\ InFlightOverlap /\ StoredOverlap /\ DoneOverlap)'
  BY <1>1 DEF OverlapSymmetric, InFlightOverlap, StoredOverlap, DoneOverlap
<1>3. (StoredHeld /\ CacheOwned)'
  BY <1>1, CacheAssumption DEF StoredHeld, CacheOwned, Held, CacheTypeOK, Entry
<1>4. AnswerOwned'
  BY <1>1 DEF AnswerOwned
<1>5. (AnsweredDone /\ EffectTraced)'
  BY DEF AnsweredDone, EffectTraced, InFlight
<1> QED BY <1>2, <1>3, <1>4, <1>5

LEMMA OnceNext == TypeOK /\ TypeOK' /\ OnceInv /\ [Next]_vars => OnceInv'
<1> SUFFICES ASSUME TypeOK, TypeOK', OnceInv, [Next]_vars PROVE OnceInv'
  OBVIOUS
<1> USE KkmOpAssumption, CacheAssumption
    DEF TypeOK, CacheTypeOK, Location, Goto, Refuse, Held, OnceInv, OverlapSymmetric,
        InFlightOverlap, StoredOverlap, DoneOverlap, StoredHeld, CacheOwned,
        AnswerOwned, AnsweredDone, EffectTraced, Overlapped, InFlight, Stored,
        Keyed, SameKey
<1>0. ASSUME NEW r \in Request, NEW m \in Message, Receive(r, m) PROVE OnceInv'
  <2> USE <1>0 DEF Receive, cacheVars, historyVars
  <2>1. /\ answer[r] = None /\ ~effect[r] /\ ~Keyed(r)
        /\ \A q \in Request : answer[q] # r
        /\ pc'[r] \in {"maintain", "done"} /\ answer'[r] \in {None, Refused}
        /\ answer'[r] # None => pc'[r] = "done"
    OBVIOUS
  <2>2. /\ UNCHANGED <<cache, effect, overlap, erased, outcome>>
        /\ \A q \in Request \ {r} : /\ pc'[q] = pc[q] /\ msg'[q] = msg[q]
                                    /\ answer'[q] = answer[q]
    OBVIOUS
  <2>3. (OverlapSymmetric /\ InFlightOverlap /\ StoredOverlap /\ DoneOverlap)'
    BY <2>1, <2>2
  <2>4. (StoredHeld /\ AnswerOwned /\ AnsweredDone /\ EffectTraced)'
    BY <2>1, <2>2
  <2>5. CacheOwned'
    BY <2>1, <2>2 DEF Entry
  <2> QED BY <2>3, <2>4, <2>5
<1>1. ASSUME NEW r \in Request, Maintain(r) PROVE OnceInv'
  BY <1>1 DEF Maintain, CountCall, historyVars
<1>2. ASSUME NEW r \in Request, CleanUp(r) PROVE OnceInv'
  BY <1>2 DEF CleanUp, EraseExpired, ExpiredKeys
<1>3. ASSUME NEW r \in Request, LoadHit(r) PROVE OnceInv'
  <2>1. /\ pc[r] = "load" /\ answer[r] = None /\ Held(msg[r].key)
        /\ pc'[r] = "done" /\ answer'[r] = cache[msg[r].key].answer
        /\ UNCHANGED <<cache, msg, outcome, effect, overlap, erased>>
        /\ \A q \in Request \ {r} : pc'[q] = pc[q] /\ answer'[q] = answer[q]
    BY <1>3 DEF LoadHit, cacheVars, historyVars
  <2> HIDE DEF StoredOverlap, DoneOverlap, InFlightOverlap, OverlapSymmetric, EffectTraced,
               AnswerOwned, AnsweredDone, StoredHeld
  <2>2. msg[r].key \in CacheKey /\ CacheOwned
    BY <2>1
  <2>3. /\ Stored(answer'[r]) /\ Keyed(answer'[r])
        /\ msg[answer'[r]].key = msg[r].key
    BY <2>1, <2>2
  <2>7. Keyed(r) /\ answer'[r] \in Request /\ answer'[r] # r
    <3>1. Keyed(r)
      BY <2>1, <2>2
    <3>2. cache[msg[r].key] \in Entry
      BY <2>1
    <3>3. answer'[r] \in Request
      BY <2>1, <3>2 DEF Entry
    <3>4. answer'[r] # r
      BY <2>1, <2>3
    <3> QED BY <3>1, <3>3, <3>4
  <2>4. \A q \in Request : /\ Stored(q)' <=> Stored(q)
                           /\ InFlight(q)' => InFlight(q)
                           /\ Keyed(q)' <=> Keyed(q)
    BY <2>1, <2>7
  <2>5. (OverlapSymmetric /\ InFlightOverlap /\ StoredOverlap /\ DoneOverlap)'
    BY <2>1, <2>4 DEF OverlapSymmetric, InFlightOverlap, StoredOverlap, DoneOverlap
  <2>6. (StoredHeld /\ CacheOwned)'
    <3>1. StoredHeld'
      BY <2>1, <2>4 DEF StoredHeld
    <3>2. \A k \in CacheKey : Held(k) => cache[k].answer \in Request
      BY DEF Entry
    <3>3. CacheOwned'
      BY <2>1, <2>4, <3>2
    <3> QED BY <3>1, <3>3
  <2>8. AnswerOwned'
    BY <2>1, <2>3, <2>4, <2>7 DEF AnswerOwned
  <2>9. (AnsweredDone /\ EffectTraced)'
    BY <2>1, <2>4, <2>7 DEF AnsweredDone, EffectTraced
  <2> QED BY <2>5, <2>6, <2>8, <2>9
<1>4. ASSUME NEW r \in Request, LoadMiss(r) PROVE OnceInv'
  <2>1. /\ pc[r] = "load" /\ pc'[r] = "route" /\ answer[r] = None
        /\ Keyed(r) => ~Held(msg[r].key)
        /\ UNCHANGED <<cache, msg, answer, outcome, effect, erased>>
        /\ \A q \in Request \ {r} : pc'[q] = pc[q]
    BY <1>4 DEF LoadMiss, cacheVars
  <2>2. \A q \in Request : /\ Stored(q)' <=> Stored(q)
                           /\ Keyed(q)' <=> Keyed(q)
                           /\ InFlight(q)' <=> InFlight(q) \/ q = r
    BY <2>1
  <2>3. \A q, p \in Request :
          Overlapped(q, p)' <=>
            \/ Overlapped(q, p)
            \/ p = r /\ q # r /\ InFlight(q) /\ SameKey(q, r)
            \/ q = r /\ p # r /\ InFlight(p) /\ SameKey(p, r)
    <3> DEFINE met == {q \in Request : q # r /\ InFlight(q) /\ SameKey(q, r)}
    <3>1. overlap' = overlap \cup ({<<q, r>> : q \in met} \cup {<<r, q>> : q \in met})
      BY <1>4 DEF LoadMiss
    <3>2. \A q \in Request : q \in met <=> q # r /\ InFlight(q) /\ SameKey(q, r)
      OBVIOUS
    <3> HIDE DEF met, InFlight, SameKey, TypeOK
    <3>3. \A q, p : <<q, p>> \in overlap' <=>
                      <<q, p>> \in overlap \/ (p = r /\ q \in met) \/ (q = r /\ p \in met)
      BY <3>1
    <3> QED BY <3>2, <3>3
  <2>4. (OverlapSymmetric /\ InFlightOverlap)'
    BY <2>1, <2>2, <2>3
  <2>5. (StoredOverlap /\ DoneOverlap)'
    BY <2>1, <2>2, <2>3
  <2>6. (StoredHeld /\ CacheOwned)'
    <3>1. \A k : Held(k)' <=> Held(k)
      BY <2>1
    <3>2. \A k \in CacheKey : Held(k) => cache[k].answer \in Request
      BY DEF Entry
    <3>3. StoredHeld'
      BY <2>1, <2>2, <3>1
    <3>4. CacheOwned'
      BY <2>1, <2>2, <3>1, <3>2
    <3> QED BY <3>3, <3>4
  <2>7. (AnswerOwned /\ AnsweredDone /\ EffectTraced)'
    BY <2>1, <2>2
  <2> QED BY <2>4, <2>5, <2>6, <2>7
<1>5. ASSUME NEW r \in Request, Route(r) PROVE OnceInv'
  <2> USE <1>5 DEF Route, cacheVars
  <2>0. InFlight(r) /\ answer[r] = None /\ ~effect[r]
    OBVIOUS
  <2>1. /\ InFlight(r) /\ ~Stored(r)
        /\ \/ pc'[r] = "done" /\ answer'[r] = Refused
           \/ pc'[r] \in {"open", "store"} /\ answer'[r] = None
    BY <2>0
  <2>3. effect'[r] => pc'[r] = "store" /\ outcome'[r] = "ok"
    BY <2>0
  <2>2. /\ UNCHANGED <<cache, msg, overlap, erased>>
        /\ \A q \in Request \ {r} :
             /\ pc'[q] = pc[q] /\ answer'[q] = answer[q]
             /\ outcome'[q] = outcome[q] /\ effect'[q] = effect[q]
    OBVIOUS
  <2> QED BY <2>1, <2>2, <2>3, Touch
<1>6. ASSUME NEW r \in Request, OpenSession(r) PROVE OnceInv'
  BY <1>6 DEF OpenSession, cacheVars, historyVars
<1>7. ASSUME NEW r \in Request, OpenFails(r) PROVE OnceInv'
  BY <1>7 DEF OpenFails, cacheVars, historyVars
<1>8. ASSUME NEW r \in Request, Work(r) PROVE OnceInv'
  <2> USE <1>8 DEF Work, cacheVars
  <2>1. PICK e \in Ending(msg[r].op) :
          /\ outcome' = [outcome EXCEPT ![r] = e[1]]
          /\ effect' = [effect EXCEPT ![r] = e[2]]
    OBVIOUS
  <2>2. e[1] = "threw" /\ e[2] => msg[r].op # "receipt"
    BY DEF Ending
  <2>3. /\ InFlight(r) /\ ~Stored(r) /\ answer'[r] = None /\ pc'[r] = "close"
        /\ outcome'[r] = "threw" /\ effect'[r] => msg[r].op # "receipt"
    BY <2>1, <2>2
  <2>4. /\ UNCHANGED <<cache, msg, overlap, erased>>
        /\ \A q \in Request \ {r} :
             /\ pc'[q] = pc[q] /\ answer'[q] = answer[q]
             /\ outcome'[q] = outcome[q] /\ effect'[q] = effect[q]
    BY <2>1
  <2> QED BY <2>3, <2>4, Touch
<1>9. ASSUME NEW r \in Request, CloseSession(r) PROVE OnceInv'
  <2> USE <1>9 DEF CloseSession, cacheVars, historyVars
  <2>1. /\ InFlight(r) /\ ~Stored(r)
        /\ \/ pc'[r] = "done" /\ answer'[r] = Refused /\ outcome[r] = "threw"
           \/ pc'[r] = "store" /\ answer'[r] = None
        /\ outcome[r] = "threw" /\ effect[r] => msg[r].op # "receipt"
    <3>1. InFlight(r) /\ ~Stored(r)
      OBVIOUS
    <3>2. outcome[r] = "threw" /\ effect[r] => msg[r].op # "receipt"
      OBVIOUS
    <3>3. answer[r] = None
      OBVIOUS
    <3> HIDE DEF OnceInv
    <3>4. \/ pc'[r] = "done" /\ answer'[r] = Refused /\ outcome[r] = "threw"
          \/ pc'[r] = "store" /\ answer' = answer
      OBVIOUS
    <3> HIDE DEF CloseSession, TypeOK, CacheTypeOK, InFlight, Stored
    <3> QED BY <3>1, <3>2, <3>3, <3>4
  <2>2. /\ UNCHANGED <<cache, msg, overlap, erased, outcome, effect>>
        /\ \A q \in Request \ {r} : pc'[q] = pc[q] /\ answer'[q] = answer[q]
    <3> HIDE DEF OnceInv
    <3>1. UNCHANGED <<cache, msg, overlap, erased, outcome, effect>>
      OBVIOUS
    <3>2. \A q \in Request \ {r} : pc'[q] = pc[q]
      OBVIOUS
    <3>3. \A q \in Request \ {r} : answer'[q] = answer[q]
      OBVIOUS
    <3> HIDE DEF CloseSession, TypeOK, CacheTypeOK, InFlight, Stored
    <3> QED BY <3>1, <3>2, <3>3
  <2> HIDE DEF CloseSession, cacheVars, historyVars, TypeOK, CacheTypeOK
  <2> QED BY <2>1, <2>2, Touch
<1>10. ASSUME NEW r \in Request, StoreAnswer(r) PROVE OnceInv'
  <2> USE <1>10 DEF StoreAnswer, cacheVars, historyVars
  <2>1. /\ InFlight(r) /\ answer[r] = None
        /\ pc'[r] = "done" /\ answer'[r] = r /\ UNCHANGED <<msg, effect, overlap, erased>>
        /\ outcome' = outcome
        /\ \A q \in Request \ {r} : pc'[q] = pc[q] /\ answer'[q] = answer[q]
    OBVIOUS
  <2>2. /\ Keyed(r) => cache'[msg[r].key].answer = r /\ Held(msg[r].key)'
        /\ \A k \in CacheKey :
             ~Keyed(r) \/ k # msg[r].key => cache'[k] = cache[k]
    <3>1. Life(msg[r].op) \in Nat /\ msg[r] \in AnyMessage
      BY DEF Life
    <3>2. CASE Keyed(r)
      <4>1. /\ msg[r].key \in CacheKey /\ cache \in [CacheKey -> Entry \cup {NoEntry}]
            /\ cache' = [cache EXCEPT ![msg[r].key] =
                           [answer |-> r, cachedAt |-> now, expiredAt |-> now + Life(msg[r].op)]]
        BY <3>1, <3>2 DEF Store, AnyMessage
      <4>2. [answer |-> r, cachedAt |-> now, expiredAt |-> now + Life(msg[r].op)] # NoEntry
        BY <3>1
      <4> QED BY <3>2, <4>1, <4>2
    <3>3. CASE ~Keyed(r)
      BY <3>3
    <3> QED BY <3>2, <3>3
  <2>3. (OverlapSymmetric /\ InFlightOverlap /\ StoredOverlap)'
    BY <2>1
  <2>4. DoneOverlap'
    <3> SUFFICES ASSUME NEW q \in Request, NEW p \in Request, q # p,
                        Stored(q)', Stored(p)', SameKey(q, p)'
                 PROVE  (Overlapped(q, p) \/ msg[q].key \in erased)'
      OBVIOUS
    <3>1. SameKey(q, p) /\ (q = r \/ Stored(q)) /\ (p = r \/ Stored(p))
      BY <2>1
    <3>2. CASE q = r
      <4>1. Stored(p) /\ InFlight(r) /\ SameKey(p, r) /\ msg[p].key = msg[q].key
        BY <2>1, <3>1, <3>2
      <4>2. Overlapped(p, r) \/ msg[p].key \in erased
        BY <4>1 DEF StoredOverlap
      <4> QED BY <2>1, <3>2, <4>1, <4>2
    <3>3. CASE p = r
      BY <2>1, <3>1, <3>3
    <3>4. CASE q # r /\ p # r
      BY <2>1, <3>1, <3>4
    <3> QED BY <3>2, <3>3, <3>4
  <2>5. (StoredHeld /\ CacheOwned)'
    BY <2>1, <2>2 DEF Entry
  <2>6. (AnswerOwned /\ AnsweredDone /\ EffectTraced)'
    BY <2>1
  <2> QED BY <2>3, <2>4, <2>5, <2>6
<1>11. CASE PassTime
  BY <1>11 DEF PassTime, Tick, handlerVars, historyVars
<1>12. CASE UNCHANGED vars
  BY <1>12 DEF vars, cacheVars, handlerVars, historyVars
<1> QED
  BY <1>0, <1>1, <1>2, <1>3, <1>4, <1>5, <1>6, <1>7, <1>8, <1>9, <1>10, <1>11, <1>12
     DEF Next, Worker


THEOREM OnceInvariant == Spec => []OnceInv
<1>1. Init => OnceInv
  BY OnceInit
<1>2. TypeOK /\ TypeOK' /\ OnceInv /\ [Next]_vars => OnceInv'
  BY OnceNext
<1> QED BY <1>1, <1>2, TypeCorrect, PTL DEF Spec

(* The cash register acts at most once for the receipts of one key, unless *)
(* two requests of the key were past the cache together or the answer had  *)
(* expired: Cache::load, the operation and Cache::store as operator()      *)
(* orders them.                                                            *)
THEOREM ReceiptOnceHolds == Spec => []ReceiptOnce
<1>1. TypeOK /\ OnceInv => ReceiptOnce
  <2> SUFFICES ASSUME TypeOK, OnceInv,
                      NEW q \in Request, NEW r \in Request,
                      q # r, SameKey(q, r), effect[q], effect[r],
                      msg[q].op = "receipt", msg[r].op = "receipt"
               PROVE  Overlapped(q, r) \/ msg[q].key \in erased
    BY DEF ReceiptOnce
  <2>1. (InFlight(q) \/ Stored(q)) /\ (InFlight(r) \/ Stored(r))
    BY DEF OnceInv, EffectTraced, InFlight
  <2>2. CASE InFlight(q) /\ InFlight(r)
    BY <2>2 DEF OnceInv, InFlightOverlap
  <2>3. CASE Stored(q) /\ InFlight(r)
    BY <2>3 DEF OnceInv, StoredOverlap
  <2>4. CASE InFlight(q) /\ Stored(r)
    BY <2>4 DEF OnceInv, StoredOverlap, OverlapSymmetric, SameKey
  <2>5. CASE Stored(q) /\ Stored(r)
    BY <2>5 DEF OnceInv, DoneOverlap
  <2> QED BY <2>1, <2>2, <2>3, <2>4, <2>5
<1> QED BY <1>1, TypeCorrect, OnceInvariant, PTL

(* All the requests of an uncontended key whose answer has not been erased *)
(* get the result of the same execution.                                   *)
THEOREM SameAnswerHolds == Spec => []SameAnswer
<1>1. TypeOK /\ OnceInv => SameAnswer
  <2> SUFFICES ASSUME TypeOK, OnceInv,
                      NEW q \in Request, NEW r \in Request, SameKey(q, r),
                      answer[q] \in Request, answer[r] \in Request,
                      answer[q] # answer[r]
               PROVE  Contended(msg[q].key) \/ msg[q].key \in erased
    BY DEF SameAnswer
  <2> DEFINE o == answer[q]
             p == answer[r]
  <2>1. Stored(o) /\ (o = q \/ SameKey(o, q)) /\ Stored(p) /\ (p = r \/ SameKey(p, r))
    BY DEF OnceInv, AnswerOwned
  <2>2. SameKey(o, p) /\ Keyed(o) /\ msg[o].key = msg[q].key
    BY <2>1 DEF SameKey
  <2>3. Overlapped(o, p) \/ msg[o].key \in erased
    BY <2>1, <2>2 DEF OnceInv, DoneOverlap
  <2> QED BY <2>2, <2>3 DEF Contended
<1> QED BY <1>1, TypeCorrect, OnceInvariant, PTL

(* No way out of the handler leaves a session with the cash register open. *)
THEOREM SessionHeldAtWorkHolds == Spec => []SessionHeldAtWork
<1>1. Init => SessionHeldAtWork
  BY DEF Init, SessionHeldAtWork
<1>2. TypeOK /\ SessionHeldAtWork /\ [Next]_vars => SessionHeldAtWork'
  <2> SUFFICES ASSUME TypeOK, SessionHeldAtWork, [Next]_vars
               PROVE  SessionHeldAtWork'
    OBVIOUS
  <2> USE KkmOpAssumption DEF TypeOK, SessionHeldAtWork, Goto, Refuse
  <2>1. ASSUME NEW r \in Request, NEW m \in Message, Receive(r, m)
        PROVE  SessionHeldAtWork'
    BY <2>1 DEF Receive
  <2>2. ASSUME NEW r \in Request, Worker(r) PROVE SessionHeldAtWork'
    <3>1. CASE OpenSession(r)
      BY <3>1 DEF OpenSession, AnyMessage
    <3>2. CASE CloseSession(r)
      BY <3>2 DEF CloseSession, AnyMessage
    <3>3. CASE Work(r)
      BY <3>3 DEF Work
    <3>4. ASSUME pc[r] \notin {"work", "close"}, UNCHANGED <<session, msg>>,
                 pc' = [pc EXCEPT ![r] = pc'[r]]
          PROVE  SessionHeldAtWork'
      BY <3>4
    <3> QED BY <2>2, <3>1, <3>2, <3>3, <3>4
            DEF Worker, Maintain, CleanUp, LoadHit, LoadMiss, Route, OpenFails,
                StoreAnswer
  <2>3. CASE PassTime \/ UNCHANGED vars
    BY <2>3 DEF PassTime, handlerVars, vars
  <2> QED BY <2>1, <2>2, <2>3 DEF Next
<1> QED BY <1>1, <1>2, TypeCorrect, PTL DEF Spec
=============================================================================
