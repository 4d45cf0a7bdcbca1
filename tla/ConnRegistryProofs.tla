------------------------- MODULE ConnRegistryProofs -------------------------
(***************************************************************************)
(* ConnRegistry for any number of workers, cash registers, connection      *)
(* parameters and cable moves.                                             *)
(***************************************************************************)
EXTENDS ConnRegistry, TLAPS

LEMMA TypeInit == Init => TypeOK
  BY ConnAssumption DEF Init, TypeOK, Location, Connected

LEMMA TypeNext == TypeOK /\ [Next]_vars => TypeOK'
<1> SUFFICES ASSUME TypeOK, [Next]_vars PROVE TypeOK'
  OBVIOUS
<1> USE ConnAssumption
    DEF TypeOK, Location, Connected, Locking, Final, Goto, Open, Uses,
        shared, world, local
<1>1. ASSUME NEW w \in Worker, Start(w) PROVE TypeOK'
  <2>1. pc'[w] \in Location /\ pc' = [pc EXCEPT ![w] = pc'[w]]
    BY <1>1 DEF Start
  <2> QED BY <1>1, <2>1 DEF Start
<1>2. ASSUME NEW w \in Worker, ResolveHit(w) PROVE TypeOK'
  BY <1>2 DEF ResolveHit
<1>3. ASSUME NEW w \in Worker, ResolveMiss(w) PROVE TypeOK'
  BY <1>3 DEF ResolveMiss
<1>4. ASSUME NEW w \in Worker, ReadFile(w) PROVE TypeOK'
  BY <1>4 DEF ReadFile
<1>5. ASSUME NEW w \in Worker, Emplace(w) PROVE TypeOK'
  <2>1. registry' \in [Serial -> Param \cup {Absent}]
    BY <1>5 DEF Emplace
  <2>2. pc' \in [Worker -> Location] /\ lock' = Nobody
    BY <1>5 DEF Emplace
  <2> QED BY <1>5, <2>1, <2>2 DEF Emplace
<1>6. ASSUME NEW w \in Worker, Connect(w) PROVE TypeOK'
  BY <1>6 DEF Connect, Reachable
<1>7. ASSUME NEW w \in Worker, ConnectFails(w) PROVE TypeOK'
  BY <1>7 DEF ConnectFails
<1>8. ASSUME NEW w \in Worker, EndSession(w) PROVE TypeOK'
  <2>1. session' \in [Serial -> Worker \cup {Nobody}]
    BY <1>8 DEF EndSession
  <2>2. pc' \in [Worker -> Location]
    BY <1>8 DEF EndSession
  <2> QED BY <1>8, <2>1, <2>2 DEF EndSession
<1>9. ASSUME NEW w \in Worker, Dial(w) PROVE TypeOK'
  BY <1>9 DEF Dial, Reachable
<1>10. ASSUME NEW w \in Worker, Truncate(w) PROVE TypeOK'
  BY <1>10 DEF Truncate
<1>11. ASSUME NEW w \in Worker, WriteFile(w) PROVE TypeOK'
  BY <1>11 DEF WriteFile
<1>12. ASSUME NEW w \in Worker, InsertOrAssign(w) PROVE TypeOK'
  BY <1>12 DEF InsertOrAssign
<1>13. ASSUME NEW w \in Worker, ResetRegistry(w) PROVE TypeOK'
  BY <1>13 DEF ResetRegistry
<1>14. ASSUME NEW p \in Param, Replug(p) PROVE TypeOK'
  BY <1>14 DEF Replug
<1>15. CASE UNCHANGED vars
  BY <1>15 DEF vars
<1>16. ASSUME NEW w \in Worker, SaveFails(w) PROVE TypeOK'
  BY <1>16 DEF SaveFails
<1>17. ASSUME NEW w \in Worker, SaveThrows(w) PROVE TypeOK'
  BY <1>17 DEF SaveThrows
<1>18. CASE Crash
  BY <1>18 DEF Crash
<1> QED
  BY <1>1, <1>2, <1>3, <1>4, <1>5, <1>6, <1>7, <1>8, <1>9, <1>10, <1>11, <1>12, <1>13,
     <1>14, <1>15, <1>16, <1>17, <1>18 DEF Next, Step

THEOREM TypeCorrect == Spec => []TypeOK
  BY TypeInit, TypeNext, PTL DEF Spec

-----------------------------------------------------------------------------
(* The inductive invariant.  Sessions are exclusive and belong to the      *)
(* worker they name; the lock belongs to a worker that is resolving; what  *)
(* a resolving worker has read, and what a learning worker is about to     *)
(* insert, is what the file says, unless a learn is under way or was not   *)
(* saved.                                                                  *)

SessionsMatch ==
    \A w \in Worker : InSession(w) => dev[w] \in Serial /\ session[dev[w]] = w

LockMatches ==
    \A w \in Worker : pc[w] \in Locking => lock = w

ReadMatches ==
    \A w \in Worker, s \in Serial :
        pc[w] = "emplace" /\ Uses(w, s) => params[w] = file[s] \/ Learning(s) \/ s \in unsaved

WrittenMatches ==
    \A w \in Worker : pc[w] = "insert" => file[dev[w]] = params[w] \/ dev[w] \in unsaved

RegInv ==
    /\ SessionsMatch
    /\ LockMatches
    /\ ReadMatches
    /\ WrittenMatches
    /\ RegistryMatchesFile
    /\ OnNamedDevice

LEMMA RegInit == Init => RegInv
  BY ConnAssumption DEF Init, RegInv, SessionsMatch, LockMatches, ReadMatches,
     WrittenMatches, RegistryMatchesFile, OnNamedDevice, InSession, Connected, Locking

LEMMA RegNext == TypeOK /\ RegInv /\ [Next]_vars => RegInv'
<1> SUFFICES ASSUME TypeOK, RegInv, [Next]_vars PROVE RegInv'
  OBVIOUS
<1> USE ConnAssumption
    DEF TypeOK, Location, Connected, Locking, Final, Goto, Uses, RegInv,
        SessionsMatch, LockMatches, ReadMatches, WrittenMatches,
        RegistryMatchesFile, OnNamedDevice, InSession, Learning
<1>1. ASSUME NEW w \in Worker, Start(w) PROVE RegInv'
  <2>1. pc'[w] \in {"resolve", "dial", "reset"} /\ pc' = [pc EXCEPT ![w] = pc'[w]]
    BY <1>1 DEF Start
  <2> QED BY <1>1, <2>1 DEF Start, shared, world
<1>2. ASSUME NEW w \in Worker, ResolveHit(w) PROVE RegInv'
  BY <1>2 DEF ResolveHit, shared, world
<1>3. ASSUME NEW w \in Worker, ResolveMiss(w) PROVE RegInv'
  BY <1>3 DEF ResolveMiss, world
<1>4. ASSUME NEW w \in Worker, ReadFile(w) PROVE RegInv'
  BY <1>4 DEF ReadFile, world
<1>5. ASSUME NEW w \in Worker, Emplace(w) PROVE RegInv'
  BY <1>5 DEF Emplace, world
<1>6. ASSUME NEW w \in Worker, Connect(w) PROVE RegInv'
  BY <1>6 DEF Connect, Open, Reachable, world
<1>7. ASSUME NEW w \in Worker, ConnectFails(w) PROVE RegInv'
  BY <1>7 DEF ConnectFails, shared, world
<1>8. ASSUME NEW w \in Worker, EndSession(w) PROVE RegInv'
  BY <1>8 DEF EndSession, world
<1>9. ASSUME NEW w \in Worker, Dial(w) PROVE RegInv'
  BY <1>9 DEF Dial, Open, Reachable, world
<1>10. ASSUME NEW w \in Worker, Truncate(w) PROVE RegInv'
  BY <1>10 DEF Truncate, world
<1>11. ASSUME NEW w \in Worker, WriteFile(w) PROVE RegInv'
  BY <1>11 DEF WriteFile, world
<1>12. ASSUME NEW w \in Worker, InsertOrAssign(w) PROVE RegInv'
  BY <1>12 DEF InsertOrAssign, world
<1>13. ASSUME NEW w \in Worker, ResetRegistry(w) PROVE RegInv'
  BY <1>13 DEF ResetRegistry, world
<1>14. ASSUME NEW p \in Param, Replug(p) PROVE RegInv'
  BY <1>14 DEF Replug, shared, local
<1>15. CASE UNCHANGED vars
  BY <1>15 DEF vars, shared, world, local
<1>16. ASSUME NEW w \in Worker, SaveFails(w) PROVE RegInv'
  BY <1>16 DEF SaveFails, world
<1>17. ASSUME NEW w \in Worker, SaveThrows(w) PROVE RegInv'
  BY <1>17 DEF SaveThrows, world
<1>18. CASE Crash
  BY <1>18 DEF Crash, world
<1> QED
  BY <1>1, <1>2, <1>3, <1>4, <1>5, <1>6, <1>7, <1>8, <1>9, <1>10, <1>11, <1>12, <1>13,
     <1>14, <1>15, <1>16, <1>17, <1>18 DEF Next, Step

THEOREM RegInvariant == Spec => []RegInv
<1>1. Init => RegInv
  BY RegInit
<1>2. TypeOK /\ RegInv /\ [Next]_vars => RegInv'
  BY RegNext
<1> QED BY <1>1, <1>2, TypeCorrect, PTL DEF Spec


(* Apart from a learn under way or not saved, the registry of connection   *)
(* parameters holds only what the files say: insert_or_assign in learn and *)
(* try_emplace in resolveConnParams leave nothing stale behind, and a      *)
(* process that dies and begins anew reads nothing half-written.           *)
THEOREM RegistryMatchesFileHolds == Spec => []RegistryMatchesFile
  BY RegInvariant, PTL DEF RegInv

(* An operation is carried out by the cash register the request names: the *)
(* check in Device's constructor suffices against moved cables.            *)
THEOREM OnNamedDeviceHolds == Spec => []OnNamedDevice
  BY RegInvariant, PTL DEF RegInv

-----------------------------------------------------------------------------
(* What EveryRequestEnds rests on besides fairness: nobody who has the     *)
(* mutex or a cash register is waited for in vain, and no request goes     *)
(* back.                                                                   *)

\* The mutex is held by a worker that reads a file or puts it into the
\* registry, which takes nothing else; a cash register by a worker that has
\* a session with it, which takes at most the mutex.  So no two wait for each
\* other, and what a worker leaves behind, failed or dead, is free.
HeldOnTheWay ==
    /\ lock # Nobody => pc[lock] \in Locking
    /\ \A s \in Serial : session[s] # Nobody =>
          InSession(session[s]) /\ dev[session[s]] = s

LEMMA HeldInit == Init => HeldOnTheWay
  BY DEF Init, HeldOnTheWay

LEMMA HeldNext == TypeOK /\ RegInv /\ HeldOnTheWay /\ [Next]_vars => HeldOnTheWay'
<1> SUFFICES ASSUME TypeOK, SessionsMatch, LockMatches, HeldOnTheWay, [Next]_vars
             PROVE  HeldOnTheWay'
  BY DEF RegInv
<1> USE ConnAssumption
    DEF TypeOK, Location, Connected, Locking, Final, Goto, SessionsMatch, LockMatches,
        InSession, HeldOnTheWay
<1>1. ASSUME NEW w \in Worker, Start(w) PROVE HeldOnTheWay'
  <2>1. pc[w] = "idle" /\ pc' = [pc EXCEPT ![w] = pc'[w]] /\ UNCHANGED <<lock, session, dev>>
    BY <1>1 DEF Start, shared
  <2> QED BY <2>1
<1>2. ASSUME NEW w \in Worker, ResolveHit(w) PROVE HeldOnTheWay'
  BY <1>2 DEF ResolveHit, shared
<1>3. ASSUME NEW w \in Worker, ResolveMiss(w) PROVE HeldOnTheWay'
  BY <1>3 DEF ResolveMiss
<1>4. ASSUME NEW w \in Worker, ReadFile(w) PROVE HeldOnTheWay'
  BY <1>4 DEF ReadFile
<1>5. ASSUME NEW w \in Worker, Emplace(w) PROVE HeldOnTheWay'
  BY <1>5 DEF Emplace
<1>6. ASSUME NEW w \in Worker, Connect(w) PROVE HeldOnTheWay'
  BY <1>6 DEF Connect, Open, Reachable
<1>7. ASSUME NEW w \in Worker, ConnectFails(w) PROVE HeldOnTheWay'
  BY <1>7 DEF ConnectFails, shared
<1>8. ASSUME NEW w \in Worker, EndSession(w) PROVE HeldOnTheWay'
  BY <1>8 DEF EndSession
<1>9. ASSUME NEW w \in Worker, Dial(w) PROVE HeldOnTheWay'
  BY <1>9 DEF Dial, Open, Reachable
<1>10. ASSUME NEW w \in Worker, Truncate(w) PROVE HeldOnTheWay'
  BY <1>10 DEF Truncate
<1>11. ASSUME NEW w \in Worker, WriteFile(w) PROVE HeldOnTheWay'
  BY <1>11 DEF WriteFile
<1>12. ASSUME NEW w \in Worker, InsertOrAssign(w) PROVE HeldOnTheWay'
  BY <1>12 DEF InsertOrAssign
<1>13. ASSUME NEW w \in Worker, ResetRegistry(w) PROVE HeldOnTheWay'
  BY <1>13 DEF ResetRegistry
<1>14. ASSUME NEW w \in Worker, SaveFails(w) PROVE HeldOnTheWay'
  BY <1>14 DEF SaveFails
<1>15. ASSUME NEW w \in Worker, SaveThrows(w) PROVE HeldOnTheWay'
  BY <1>15 DEF SaveThrows
<1>16. ASSUME NEW p \in Param, Replug(p) PROVE HeldOnTheWay'
  BY <1>16 DEF Replug, shared, local
<1>17. CASE Crash
  BY <1>17 DEF Crash
<1>18. CASE UNCHANGED vars
  BY <1>18 DEF vars, shared, local
<1> QED
  BY <1>1, <1>2, <1>3, <1>4, <1>5, <1>6, <1>7, <1>8, <1>9, <1>10, <1>11, <1>12, <1>13,
     <1>14, <1>15, <1>16, <1>17, <1>18 DEF Next, Step

(* Neither an exception out of the reading or the saving of a file, nor    *)
(* the death of the process, leaves the mutex locked or a cash register    *)
(* open, for any number of workers: who waits for one waits for a worker   *)
(* that is at work with it.                                                *)
THEOREM HeldOnTheWayHolds == Spec => []HeldOnTheWay
<1>1. Init => HeldOnTheWay
  BY HeldInit
<1>2. TypeOK /\ RegInv /\ HeldOnTheWay /\ [Next]_vars => HeldOnTheWay'
  BY HeldNext
<1> QED BY <1>1, <1>2, TypeCorrect, RegInvariant, PTL DEF Spec

\* How many steps a request at most has left.
StepsLeft(l) ==
    CASE l = "idle" -> 7
      [] l \in {"resolve", "dial"} -> 6
      [] l \in {"read", "truncate"} -> 5
      [] l \in {"emplace", "write"} -> 4
      [] l \in {"connect", "insert"} -> 3
      [] l \in {"session", "hello"} -> 2
      [] l = "reset" -> 1
      [] l \in Final -> 0

\* A step of a worker takes its request nearer to its end, and no step, of
\* other workers, of the world, or the death of the process, takes it back.
RequestsAdvance ==
    [][\A w \in Worker :
         /\ Step(w) => StepsLeft(pc'[w]) < StepsLeft(pc[w])
         /\ pc'[w] = pc[w] \/ StepsLeft(pc'[w]) < StepsLeft(pc[w])]_vars

LEMMA StepsAre ==
    /\ StepsLeft("idle") = 7
    /\ StepsLeft("resolve") = 6 /\ StepsLeft("dial") = 6
    /\ StepsLeft("read") = 5 /\ StepsLeft("truncate") = 5
    /\ StepsLeft("emplace") = 4 /\ StepsLeft("write") = 4
    /\ StepsLeft("connect") = 3 /\ StepsLeft("insert") = 3
    /\ StepsLeft("session") = 2 /\ StepsLeft("hello") = 2
    /\ StepsLeft("reset") = 1
    /\ \A l \in Final : StepsLeft(l) = 0
  BY DEF StepsLeft, Final

LEMMA StepAdvances ==
  ASSUME TypeOK, NEW w \in Worker, Step(w)
  PROVE  /\ StepsLeft(pc'[w]) < StepsLeft(pc[w])
         /\ \A v \in Worker : v # w => pc'[v] = pc[v]
<1>1. pc \in [Worker -> Location]
  BY DEF TypeOK
<1>2. \A l : Goto(w, l) => pc'[w] = l /\ \A v \in Worker : v # w => pc'[v] = pc[v]
  BY <1>1 DEF Goto
<1>3. CASE Start(w)
  <2>1. pc[w] = "idle" /\ \E l \in {"resolve", "dial", "reset"} : Goto(w, l)
    BY <1>3 DEF Start
  <2> QED BY <1>2, <2>1, StepsAre
<1>4. CASE ResolveHit(w) \/ ResolveMiss(w)
  <2>1. pc[w] = "resolve" /\ (Goto(w, "connect") \/ Goto(w, "read"))
    BY <1>4 DEF ResolveHit, ResolveMiss
  <2> QED BY <1>2, <2>1, StepsAre
<1>5. CASE ReadFile(w) \/ Emplace(w)
  <2>1. \/ pc[w] = "read" /\ (Goto(w, "emplace") \/ Goto(w, "failed"))
        \/ pc[w] = "emplace" /\ Goto(w, "connect")
    BY <1>5 DEF ReadFile, Emplace
  <2> QED BY <1>2, <2>1, StepsAre DEF Final
<1>6. CASE Connect(w) \/ ConnectFails(w) \/ EndSession(w)
  <2>1. \/ pc[w] = "connect" /\ Goto(w, "session")
        \/ pc[w] \in {"connect", "dial"} /\ Goto(w, "failed")
        \/ pc[w] \in {"session", "hello"} /\ \E end \in Final : Goto(w, end)
    BY <1>6 DEF Connect, ConnectFails, EndSession
  <2> QED BY <1>2, <2>1, StepsAre DEF Final
<1>7. CASE Dial(w) \/ Truncate(w) \/ WriteFile(w)
  <2>1. \/ pc[w] = "dial" /\ Goto(w, "truncate")
        \/ pc[w] = "truncate" /\ Goto(w, "write")
        \/ pc[w] = "write" /\ Goto(w, "insert")
    BY <1>7 DEF Dial, Truncate, WriteFile
  <2> QED BY <1>2, <2>1, StepsAre
<1>8. CASE SaveFails(w) \/ SaveThrows(w) \/ InsertOrAssign(w) \/ ResetRegistry(w)
  <2>1. \/ pc[w] \in {"truncate", "write"} /\ Goto(w, "insert")
        \/ pc[w] = "truncate" /\ Goto(w, "failed")
        \/ pc[w] = "insert" /\ Goto(w, "hello")
        \/ pc[w] = "reset" /\ Goto(w, "done")
    BY <1>8 DEF SaveFails, SaveThrows, InsertOrAssign, ResetRegistry
  <2> QED BY <1>2, <2>1, StepsAre DEF Final
<1> QED BY <1>3, <1>4, <1>5, <1>6, <1>7, <1>8 DEF Step

(* A request ends after seven steps at most: no path through               *)
(* resolveConnParams, learn or their exceptions tries anything again.      *)
THEOREM RequestsAdvanceHolds == Spec => RequestsAdvance
<1>1. ASSUME TypeOK, [Next]_vars, NEW w \in Worker
      PROVE  /\ Step(w) => StepsLeft(pc'[w]) < StepsLeft(pc[w])
             /\ pc'[w] = pc[w] \/ StepsLeft(pc'[w]) < StepsLeft(pc[w])
  <2>1. Step(w) => StepsLeft(pc'[w]) < StepsLeft(pc[w])
    BY <1>1, StepAdvances
  <2>2. ASSUME NEW v \in Worker, Step(v)
        PROVE  pc'[w] = pc[w] \/ StepsLeft(pc'[w]) < StepsLeft(pc[w])
    BY <1>1, <2>2, StepAdvances
  <2>3. ASSUME Crash
        PROVE  pc'[w] = pc[w] \/ StepsLeft(pc'[w]) < StepsLeft(pc[w])
    <3>1. pc'[w] = pc[w] \/ (pc[w] \notin {"idle"} \cup Final /\ pc'[w] = "failed")
      BY <2>3 DEF Crash
    <3>2. pc[w] \notin {"idle"} \cup Final => StepsLeft("failed") < StepsLeft(pc[w])
      BY <1>1, StepsAre DEF TypeOK, Location, Connected, Locking, Final
    <3> QED BY <3>1, <3>2
  <2>4. ASSUME NEW p \in Param, Replug(p) PROVE pc' = pc
    BY <2>4 DEF Replug, local
  <2>5. ASSUME UNCHANGED vars PROVE pc' = pc
    BY <2>5 DEF vars, shared, world, local
  <2>6. pc'[w] = pc[w] \/ StepsLeft(pc'[w]) < StepsLeft(pc[w])
    BY <1>1, <2>2, <2>3, <2>4, <2>5 DEF Next
  <2> QED BY <2>1, <2>6
<1>2. TypeOK /\ [Next]_vars => \A w \in Worker :
         /\ Step(w) => StepsLeft(pc'[w]) < StepsLeft(pc[w])
         /\ pc'[w] = pc[w] \/ StepsLeft(pc'[w]) < StepsLeft(pc[w])
  BY <1>1
<1> QED BY <1>2, TypeCorrect, PTL DEF Spec, RequestsAdvance
=============================================================================
