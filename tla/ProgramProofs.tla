--------------------------- MODULE ProgramProofs ---------------------------
(***************************************************************************)
(* Program, for any number of processes with commands, any modulus of the  *)
(* counter of ticks, any times that the static_asserts of service_core.cpp *)
(* allow, and any configuration: a command that gives up is never proved   *)
(* wrong by the start or stop it waited for, and the settings a process    *)
(* goes on with are the ones that are written.                             *)
(***************************************************************************)
EXTENDS Program, SequenceTheorems, TLAPS

(* A process with a command.                                               *)
Process ==
    [command : Command, pc : Place, from : 0..Modulus - 1, ticks : 0..Modulus - 1,
     checkPoint : 0..MaxCheckPoint + 2, slept : 0..MaxDelay]

(* First layer: the status the manager tells is the one of the work that   *)
(* is being done, which has not taken longer than it may, and only the     *)
(* commands that stop the service are on the way to stop it.               *)
WorkShown ==
    /\ work.doing = "nothing" => status = Stopped
    /\ work.doing \in {"launch", "main"} =>
         /\ status = [state |-> "START_PENDING", checkPoint |-> 0, hint |-> FirstHint]
         /\ work.age <= FirstHint /\ work.reports = 0
    /\ work.doing = "starting" =>
         /\ status = [state |-> "START_PENDING", checkPoint |-> 1, hint |-> WaitHint]
         /\ work.age <= WorkTime /\ work.reports = 1
    /\ work.doing = "serving" =>
         /\ status = [state |-> "RUNNING", checkPoint |-> 0, hint |-> 0]
         /\ work.reports <= MaxCheckPoint + 1
    /\ work.doing = "stopping" =>
         /\ status.state = "STOP_PENDING" /\ status.hint = WaitHint
         /\ work.age <= WorkTime
    /\ work.doing = "hung" => status.state \in Pending

Commanded ==
    \A c \in Controller :
        ctl[c].pc \in {"stop", "control", "answer", "await-stopped"} =>
            ctl[c].command \in {"stop", "restart", "uninstall"}

(* Second layer: a command that waits for the work under way has waited no *)
(* longer than the work has taken, since it last saw it get on; one that   *)
(* has given it up has given up a work that hangs.                         *)
Waits(c) ==
    stake[c] = "waits for it" /\ ctl[c].pc \in Awaiting /\ status.state = Awaited(c)

Patient(c) ==
    /\ work.doing \in {"main", "starting", "stopping", "hung"}
    /\ work.doing = "main" =>
         /\ ctl[c].checkPoint = 0
         /\ Elapsed(ctl[c].from) <= work.age /\ Elapsed(ctl[c].ticks) <= work.age
    /\ work.doing = "starting" =>
         /\ Elapsed(ctl[c].from) <= FirstHint + work.age
         /\ ctl[c].checkPoint > 0 => Elapsed(ctl[c].ticks) <= work.age
    /\ work.doing = "stopping" =>
         Elapsed(ctl[c].from) <= work.age /\ Elapsed(ctl[c].ticks) <= work.age

StakeShown ==
    \A c \in Controller :
        /\ stake[c] # "was wrong"
        /\ stake[c] # "none" => status.state \in Pending
        /\ stake[c] = "gave it up" => work.doing = "hung"
        /\ Waits(c) => Patient(c)

ControlInv == ControlTypeOK /\ WorkShown /\ Commanded /\ StakeShown

-----------------------------------------------------------------------------
LEMMA TimesAre ==
  /\ FirstHint \in Nat /\ WorkTime \in Nat /\ WaitHint \in Nat /\ ControlTimeout \in Nat
  /\ MaxDelay \in Nat /\ MaxCheckPoint \in Nat /\ Modulus \in Nat
  /\ FirstHint > 0 /\ MaxDelay > 0 /\ Modulus > 0
  /\ WorkTime < WaitHint /\ WaitHint < ControlTimeout
  /\ FirstHint + WorkTime < ControlTimeout
  BY ControlAssumption

(* The counter of ticks, wherever it begins anew.                          *)
LEMMA TicksElapse ==
  ASSUME clock \in 0..Modulus - 1
  PROVE  /\ (clock + 1) % Modulus \in 0..Modulus - 1
         /\ Elapsed(clock) = 0
         /\ \A t \in 0..Modulus - 1 : Elapsed(t) \in 0..Modulus - 1
         /\ \A t \in 0..Modulus - 1 :
              (((clock + 1) % Modulus) - t) % Modulus <= Elapsed(t) + 1
<1>1. Modulus \in Nat \ {0}
  BY ControlAssumption
<1>2. \A a, t \in 0..Modulus - 1 :
        (a - t) % Modulus = IF a >= t THEN a - t ELSE a - t + Modulus
  BY <1>1
<1>3. (clock + 1) % Modulus = IF clock + 1 = Modulus THEN 0 ELSE clock + 1
  BY <1>1
<1>4. (clock + 1) % Modulus \in 0..Modulus - 1
  BY <1>1, <1>3
<1>5. \A t \in 0..Modulus - 1 :
        /\ Elapsed(t) = IF clock >= t THEN clock - t ELSE clock - t + Modulus
        /\ (((clock + 1) % Modulus) - t) % Modulus =
             IF (clock + 1) % Modulus >= t THEN ((clock + 1) % Modulus) - t
             ELSE ((clock + 1) % Modulus) - t + Modulus
  BY <1>2, <1>4 DEF Elapsed
<1> QED BY <1>1, <1>3, <1>4, <1>5

LEMMA ProcessSet ==
  ASSUME ctl \in [Controller -> Process], NEW c \in Controller, NEW p \in Place, Set(c, p)
  PROVE  /\ ctl' \in [Controller -> Process]
         /\ ctl'[c].pc = p /\ ctl'[c].command = ctl[c].command
         /\ \A d \in Controller : d # c => ctl'[d] = ctl[d]
<1>1. ctl[c].command \in Command
  BY DEF Process
<1>2. At(ctl[c].command, p) \in Process
  BY <1>1, ControlAssumption DEF At, Process
<1>3. ctl' = [ctl EXCEPT ![c] = At(ctl[c].command, p)]
  BY DEF Set
<1> QED BY <1>2, <1>3 DEF At

LEMMA ControlTyped ==
  ASSUME ControlTypeOK
  PROVE  /\ ctl \in [Controller -> Process] /\ clock \in 0..Modulus - 1
         /\ status.state \in State /\ status.checkPoint \in 0..MaxCheckPoint + 2
         /\ status.hint \in {0, FirstHint, WaitHint}
         /\ stake \in [Controller -> {"none", "waits for it", "gave it up", "was wrong"}]
         /\ work.doing \in {"nothing", "launch", "main", "starting", "serving", "stopping", "hung"}
         /\ work.age \in Nat /\ work.reports \in 0..MaxCheckPoint + 2
<1>1. work.age \in 0..WorkTime + FirstHint
  BY DEF ControlTypeOK
<1>2. work.age \in Nat
  BY <1>1, TimesAre
<1>3. ctl \in [Controller -> Process]
  BY DEF ControlTypeOK, Process
<1>4. /\ status.state \in State /\ status.checkPoint \in 0..MaxCheckPoint + 2
      /\ status.hint \in {0, FirstHint, WaitHint}
  BY DEF ControlTypeOK
<1>5. /\ work.doing \in {"nothing", "launch", "main", "starting", "serving", "stopping", "hung"}
      /\ work.reports \in 0..MaxCheckPoint + 2
  BY DEF ControlTypeOK
<1> QED BY <1>2, <1>3, <1>4, <1>5 DEF ControlTypeOK

LEMMA ElapsedRange ==
  \A a, t \in 0..Modulus - 1 : (a - t) % Modulus \in 0..Modulus - 1
<1>1. Modulus \in Nat \ {0}
  BY ControlAssumption
<1> QED BY <1>1

(* A step that takes one process on to a place where it does not wait, and *)
(* leaves the service alone; what it has waited for, and gives up, hangs.  *)
LEMMA ProceedKeeps ==
  ASSUME ControlInv, NEW c \in Controller, NEW p \in Place, Set(c, p),
         p \in {"stop", "control", "answer", "await-stopped"} =>
             ctl[c].command \in {"stop", "restart", "uninstall"},
         p \notin Awaiting, UNCHANGED <<clock, status, work>>,
         stake' = stake \/ (stake' = [stake EXCEPT ![c] = "gave it up"] /\ work.doing = "hung"),
         installed' \in {"no", "yes", "marked"}
  PROVE  ControlInv'
<1>1. /\ ctl' \in [Controller -> Process] /\ ctl'[c].pc = p
      /\ ctl'[c].command = ctl[c].command /\ \A d \in Controller : d # c => ctl'[d] = ctl[d]
  BY ProcessSet DEF ControlInv, ControlTypeOK, Process
<1>2. /\ stake' \in [Controller -> {"none", "waits for it", "gave it up", "was wrong"}]
      /\ stake'[c] = stake[c] \/ (stake'[c] = "gave it up" /\ work.doing = "hung")
      /\ \A d \in Controller : d # c => stake'[d] = stake[d]
  BY DEF ControlInv, ControlTypeOK
<1>3. ControlTypeOK'
  BY <1>1, <1>2 DEF ControlInv, ControlTypeOK, Process
<1>4. WorkShown'
  BY DEF ControlInv, WorkShown, Stopped
<1>5. Commanded'
  BY <1>1 DEF ControlInv, Commanded
<1>6. \A d \in Controller : d # c => (Waits(d)' <=> Waits(d)) /\ (Patient(d) => Patient(d)')
  BY <1>1, <1>2 DEF Waits, Patient, Awaited, Elapsed
<1>7. ~Waits(c)'
  BY <1>1 DEF Waits
<1>8. StakeShown'
  <2> SUFFICES ASSUME NEW d \in Controller
               PROVE  /\ stake'[d] # "was wrong"
                      /\ stake'[d] # "none" => status'.state \in Pending
                      /\ stake'[d] = "gave it up" => work'.doing = "hung"
                      /\ Waits(d)' => Patient(d)'
    BY DEF StakeShown
  <2>1. CASE d # c
    BY <1>2, <1>6, <2>1 DEF ControlInv, StakeShown
  <2>2. CASE d = c
    <3>1. work.doing = "hung" => status.state \in Pending
      BY DEF ControlInv, WorkShown
    <3> QED BY <1>2, <1>7, <2>2, <3>1 DEF ControlInv, StakeShown
  <2> QED BY <2>1, <2>2
<1> QED BY <1>3, <1>4, <1>5, <1>8 DEF ControlInv

(* A process begins to wait.                                               *)
LEMMA AwaitKeeps ==
  ASSUME ControlInv, NEW c \in Controller, NEW p \in Awaiting, Await(c, p),
         p = "await-stopped" => ctl[c].command \in {"stop", "restart", "uninstall"},
         p = "await-started" => work.doing # "launch",
         UNCHANGED <<clock, installed, status, work>>
  PROVE  ControlInv'
<1>1. /\ ctl' = [ctl EXCEPT ![c] = [ctl[c] EXCEPT !.pc = p, !.from = clock, !.ticks = clock,
                                    !.checkPoint = status.checkPoint, !.slept = 0]]
      /\ stake' = [stake EXCEPT ![c] = IF status.state \in Pending THEN "waits for it" ELSE "none"]
  BY DEF Await
<1>2. /\ ctl \in [Controller -> Process] /\ clock \in 0..Modulus - 1
      /\ status.checkPoint \in 0..MaxCheckPoint + 2
      /\ stake \in [Controller -> {"none", "waits for it", "gave it up", "was wrong"}]
      /\ work.age \in Nat
  BY ControlTyped DEF ControlInv
<1>3. /\ ctl'[c].pc = p /\ ctl'[c].command = ctl[c].command /\ ctl'[c].from = clock
      /\ ctl'[c].ticks = clock /\ ctl'[c].checkPoint = status.checkPoint
      /\ ctl' \in [Controller -> Process]
      /\ \A d \in Controller : d # c => ctl'[d] = ctl[d] /\ stake'[d] = stake[d]
  <2>1. p \in Place
    BY DEF Awaiting, Place
  <2>2. ctl[c] \in Process
    BY <1>2
  <2>4. 0 \in 0..MaxDelay
    BY TimesAre
  <2>3. [ctl[c] EXCEPT !.pc = p, !.from = clock, !.ticks = clock,
                       !.checkPoint = status.checkPoint, !.slept = 0] \in Process
    BY <1>2, <2>1, <2>2, <2>4 DEF Process
  <2> QED BY <1>1, <1>2, <2>2, <2>3 DEF Process
<1>4. /\ stake'[c] = IF status.state \in Pending THEN "waits for it" ELSE "none"
      /\ stake' \in [Controller -> {"none", "waits for it", "gave it up", "was wrong"}]
  BY <1>1, <1>2
<1>5. ControlTypeOK'
  BY <1>3, <1>4 DEF ControlInv, ControlTypeOK, Process
<1>6. WorkShown'
  BY DEF ControlInv, WorkShown, Stopped
<1>7. Commanded'
  BY <1>3 DEF ControlInv, Commanded, Awaiting
<1>8. \A d \in Controller : d # c => (Waits(d)' <=> Waits(d)) /\ (Patient(d) => Patient(d)')
  BY <1>3 DEF Waits, Patient, Awaited, Elapsed
<1>9. ASSUME Waits(c)' PROVE Patient(c)'
  <2>1. status.state = IF p = "await-started" THEN "START_PENDING" ELSE "STOP_PENDING"
    BY <1>3, <1>9 DEF Waits, Awaited
  <2>2. work.doing \in {"nothing", "launch", "main", "starting", "serving", "stopping", "hung"}
    BY DEF ControlInv, ControlTypeOK
  <2>3. work.doing \in {"main", "starting", "stopping", "hung"}
    BY <2>1, <2>2 DEF ControlInv, WorkShown, Stopped
  <2>4. work.doing = "main" => status.checkPoint = 0
    BY DEF ControlInv, WorkShown
  <2>5. Elapsed(clock)' = 0
    BY <1>2, TicksElapse DEF Elapsed
  <2>6. Elapsed(ctl[c].from)' = 0 /\ Elapsed(ctl[c].ticks)' = 0
    BY <1>3, <2>5 DEF Elapsed
  <2>7. FirstHint + work.age >= 0 /\ work.age >= 0
    <3>1. work.age \in Nat
      BY <1>2
    <3> QED BY <3>1, TimesAre
  <2>8. work' = work
    OBVIOUS
  <2> QED BY <1>3, <2>3, <2>4, <2>6, <2>7, <2>8 DEF Patient
<1>10. StakeShown'
  <2> SUFFICES ASSUME NEW d \in Controller
               PROVE  /\ stake'[d] # "was wrong"
                      /\ stake'[d] # "none" => status'.state \in Pending
                      /\ stake'[d] = "gave it up" => work'.doing = "hung"
                      /\ Waits(d)' => Patient(d)'
    BY DEF StakeShown
  <2>1. CASE d # c
    BY <1>3, <1>8, <2>1 DEF ControlInv, StakeShown
  <2>2. CASE d = c
    BY <1>4, <1>9, <2>2
  <2> QED BY <2>1, <2>2
<1> QED BY <1>5, <1>6, <1>7, <1>10 DEF ControlInv

-----------------------------------------------------------------------------
(* What Report() makes of the status and of the work.                      *)
LEMMA Reported ==
  ASSUME NEW s \in State, NEW d, NEW a, NEW r,
         Report(s, [doing |-> d, age |-> a, reports |-> r])
  PROVE  /\ status' = [state |-> s,
                       checkPoint |-> IF s \in Pending THEN r + 1 ELSE 0,
                       hint |-> IF s \in Pending THEN WaitHint ELSE 0]
         /\ work' = [doing |-> d, age |-> 0,
                     reports |-> IF s \in Pending THEN r + 1 ELSE r]
  BY DEF Report

(* Nobody has a stake in a work that is over.                              *)
LEMMA OverEnds ==
  ASSUME ControlInv, NEW succeeded \in BOOLEAN, Over(succeeded),
         succeeded => work.doing # "hung"
  PROVE  stake' = [c \in Controller |-> "none"]
<1>1. \A c \in Controller : stake[c] # "was wrong" /\ ~(stake[c] = "gave it up" /\ succeeded)
  BY DEF ControlInv, StakeShown
<1> QED BY <1>1 DEF Over

LEMMA NoStakeNoFault ==
  ASSUME stake' = [c \in Controller |-> "none"] PROVE StakeShown'
  BY DEF StakeShown, Waits

(* A step of the service that leaves its processes alone.                  *)
LEMMA ServiceTyped ==
  ASSUME ControlTypeOK, UNCHANGED <<clock, installed, ctl>>,
         stake' \in [Controller -> {"none", "waits for it", "gave it up", "was wrong"}],
         status' \in [state : State, checkPoint : 0..MaxCheckPoint + 2,
                      hint : {0, FirstHint, WaitHint}],
         status'.state \in Pending <=> status'.hint # 0,
         work' \in [doing : {"nothing", "launch", "main", "starting", "serving",
                             "stopping", "hung"},
                    age : 0..WorkTime + FirstHint, reports : 0..MaxCheckPoint + 2]
  PROVE  ControlTypeOK'
  BY DEF ControlTypeOK

LEMMA WorkParts ==
  ASSUME ControlTypeOK
  PROVE  /\ work = [doing |-> work.doing, age |-> work.age, reports |-> work.reports]
         /\ work.age \in Nat /\ work.reports \in Nat
         /\ \A d : Doing(d) = [doing |-> d, age |-> work.age, reports |-> work.reports]
<1>1. work \in [doing : {"nothing", "launch", "main", "starting", "serving", "stopping", "hung"},
                age : 0..WorkTime + FirstHint, reports : 0..MaxCheckPoint + 2]
  BY DEF ControlTypeOK
<1>2. work = [doing |-> work.doing, age |-> work.age, reports |-> work.reports]
  BY <1>1
<1>3. work.age \in Nat /\ work.reports \in 0..MaxCheckPoint + 2
  BY ControlTyped
<1>4. work.reports \in Nat
  BY <1>3, TimesAre
<1>5. \A d : Doing(d) = [doing |-> d, age |-> work.age, reports |-> work.reports]
  BY <1>1 DEF Doing
<1> QED BY <1>2, <1>3, <1>4, <1>5

LEMMA NowTyped ==
  ASSUME NEW s \in State, NEW n \in 0..MaxCheckPoint + 2, NEW h \in {0, FirstHint, WaitHint},
         NEW d \in {"nothing", "launch", "main", "starting", "serving", "stopping", "hung"},
         NEW r \in 0..MaxCheckPoint + 2
  PROVE  /\ [state |-> s, checkPoint |-> n, hint |-> h] \in
               [state : State, checkPoint : 0..MaxCheckPoint + 2, hint : {0, FirstHint, WaitHint}]
         /\ [doing |-> d, age |-> 0, reports |-> r] \in
               [doing : {"nothing", "launch", "main", "starting", "serving", "stopping", "hung"},
                age : 0..WorkTime + FirstHint, reports : 0..MaxCheckPoint + 2]
<1>1. 0 \in 0..WorkTime + FirstHint
  BY TimesAre
<1> QED BY <1>1

LEMMA WorkTyped ==
  ASSUME ControlTypeOK, NEW d,
         d \in {"nothing", "launch", "main", "starting", "serving", "stopping", "hung"},
         work' = [doing |-> d, age |-> 0, reports |-> work.reports]
  PROVE  work' \in [doing : {"nothing", "launch", "main", "starting", "serving",
                             "stopping", "hung"},
                    age : 0..WorkTime + FirstHint, reports : 0..MaxCheckPoint + 2]
<1>1. 0 \in 0..WorkTime + FirstHint
  BY TimesAre
<1>2. work.reports \in 0..MaxCheckPoint + 2
  BY DEF ControlTypeOK
<1> QED BY <1>1, <1>2

LEMMA ThreadBeginsKeeps ==
  ASSUME ControlInv, ThreadBegins, UNCHANGED <<clock, installed, ctl>> PROVE ControlInv'
<1>1. ControlTypeOK
  BY DEF ControlInv
<1>2. /\ work.doing = "launch" /\ UNCHANGED <<status, stake>>
      /\ work' = [doing |-> "main", age |-> 0, reports |-> work.reports]
  BY <1>1, WorkParts DEF ThreadBegins
<1>3. /\ status = [state |-> "START_PENDING", checkPoint |-> 0, hint |-> FirstHint]
      /\ work.reports = 0
  BY <1>2 DEF ControlInv, WorkShown
<1>4. ControlTypeOK'
  <2>1. work' \in [doing : {"nothing", "launch", "main", "starting", "serving", "stopping", "hung"},
                   age : 0..WorkTime + FirstHint, reports : 0..MaxCheckPoint + 2]
    BY <1>1, <1>2, WorkTyped
  <2> QED BY <1>1, <1>2, <2>1 DEF ControlTypeOK
<1>5. WorkShown'
  BY <1>2, <1>3, TimesAre DEF WorkShown
<1>6. Commanded'
  BY DEF ControlInv, Commanded
<1>7. \A c \in Controller : ~Waits(c)
  BY <1>2 DEF ControlInv, StakeShown, Patient
<1>8. \A c \in Controller : ~Waits(c)'
  BY <1>2, <1>7 DEF Waits, Awaited
<1>9. StakeShown'
  BY <1>2, <1>8 DEF ControlInv, StakeShown
<1> QED BY <1>4, <1>5, <1>6, <1>9 DEF ControlInv

LEMMA WorkerStartsKeeps ==
  ASSUME ControlInv, WorkerStarts, UNCHANGED <<clock, installed, ctl>>, UNCHANGED stake
  PROVE  ControlInv'
<1>1. ControlTypeOK
  BY DEF ControlInv
<1>2. /\ work.doing = "main" /\ work.reports = 0 /\ work.age <= FirstHint /\ work.age \in Nat
      /\ status = [state |-> "START_PENDING", checkPoint |-> 0, hint |-> FirstHint]
  BY <1>1, ControlTyped DEF WorkerStarts, ControlInv, WorkShown
<1>3. /\ status' = [state |-> "START_PENDING", checkPoint |-> 1, hint |-> WaitHint]
      /\ work' = [doing |-> "starting", age |-> 0, reports |-> 1]
  <2>1. Report("START_PENDING", [doing |-> "starting", age |-> work.age, reports |-> 0])
    BY <1>1, <1>2, WorkParts DEF WorkerStarts
  <2>2. "START_PENDING" \in State /\ "START_PENDING" \in Pending
    BY DEF State, Pending
  <2> QED BY <2>1, <2>2, Reported
<1>4. ControlTypeOK'
  <2>1. 1 \in 0..MaxCheckPoint + 2 /\ WaitHint # 0
    BY TimesAre
  <2>2. status'.state \in Pending /\ status'.hint # 0
    BY <1>3, <2>1 DEF Pending
  <2>3. "START_PENDING" \in State
    BY DEF State
  <2>4. /\ WaitHint \in {0, FirstHint, WaitHint}
        /\ "starting" \in {"nothing", "launch", "main", "starting", "serving", "stopping", "hung"}
    OBVIOUS
  <2>5. status' \in [state : State, checkPoint : 0..MaxCheckPoint + 2,
                     hint : {0, FirstHint, WaitHint}]
    BY <1>3, <2>1, <2>3, <2>4
  <2>6. work' \in [doing : {"nothing", "launch", "main", "starting", "serving", "stopping",
                            "hung"},
                   age : 0..WorkTime + FirstHint, reports : 0..MaxCheckPoint + 2]
    <3>1. 0 \in 0..WorkTime + FirstHint
      BY TimesAre
    <3> QED BY <1>3, <2>1, <2>4, <3>1
  <2>7. stake' \in [Controller -> {"none", "waits for it", "gave it up", "was wrong"}]
    BY <1>1 DEF ControlTypeOK
  <2> QED BY <1>1, <2>2, <2>5, <2>6, <2>7, ServiceTyped
<1>5. WorkShown'
  BY <1>3, TimesAre DEF WorkShown
<1>6. Commanded'
  BY DEF ControlInv, Commanded
<1>7. ASSUME NEW c \in Controller, Waits(c)' PROVE Patient(c)'
  <2>1. Waits(c)
    BY <1>2, <1>3, <1>7 DEF Waits, Awaited
  <2>2. Patient(c)
    BY <2>1 DEF ControlInv, StakeShown
  <2>3. ctl[c].checkPoint = 0 /\ Elapsed(ctl[c].from) <= work.age
    BY <1>2, <2>2 DEF Patient
  <2>4. Elapsed(ctl[c].from)' <= FirstHint + 0
    <3>1. Elapsed(ctl[c].from) \in Int
      <4>1. ctl[c].from \in 0..Modulus - 1 /\ clock \in 0..Modulus - 1
        BY <1>1, ControlTyped DEF Process
      <4> QED BY <4>1, TicksElapse
    <3>2. Elapsed(ctl[c].from)' = Elapsed(ctl[c].from)
      BY DEF Elapsed
    <3> QED BY <1>2, <2>3, <3>1, <3>2, TimesAre
  <2> QED BY <1>3, <2>3, <2>4 DEF Patient
<1>8. StakeShown'
  BY <1>2, <1>3, <1>7 DEF ControlInv, StakeShown, Pending
<1> QED BY <1>4, <1>5, <1>6, <1>8 DEF ControlInv

LEMMA HangsKeeps ==
  ASSUME ControlInv, Hangs, UNCHANGED <<clock, installed, ctl>> PROVE ControlInv'
<1>1. ControlTypeOK
  BY DEF ControlInv
<1>2. /\ work.doing \in {"starting", "stopping"} /\ UNCHANGED <<status, stake>>
      /\ work' = [doing |-> "hung", age |-> 0, reports |-> work.reports]
  BY <1>1, WorkParts DEF Hangs
<1>3. status.state \in Pending
  BY <1>2 DEF ControlInv, WorkShown, Pending
<1>4. ControlTypeOK'
  <2>1. work' \in [doing : {"nothing", "launch", "main", "starting", "serving", "stopping", "hung"},
                   age : 0..WorkTime + FirstHint, reports : 0..MaxCheckPoint + 2]
    BY <1>1, <1>2, WorkTyped
  <2> QED BY <1>1, <1>2, <2>1 DEF ControlTypeOK
<1>5. WorkShown'
  BY <1>2, <1>3 DEF WorkShown
<1>6. Commanded'
  BY DEF ControlInv, Commanded
<1>7. \A c \in Controller : Patient(c)'
  BY <1>2 DEF Patient
<1>8. StakeShown'
  BY <1>2, <1>3, <1>7 DEF ControlInv, StakeShown
<1> QED BY <1>4, <1>5, <1>6, <1>8 DEF ControlInv

LEMMA EndsKeeps ==
  ASSUME ControlInv, WorkerStarted \/ WorkerStopped \/ Dies, UNCHANGED <<clock, installed, ctl>>
  PROVE  ControlInv'
<1>1. ControlTypeOK
  BY DEF ControlInv
<1>2. stake' = [c \in Controller |-> "none"]
  <2>1. CASE WorkerStarted \/ WorkerStopped
    <3>1. work.doing # "hung" /\ (Over(TRUE) \/ Over(FALSE))
      BY <2>1 DEF WorkerStarted, WorkerStopped
    <3> QED BY <3>1, OverEnds
  <2>2. CASE Dies
    BY <2>2, OverEnds DEF Dies
  <2> QED BY <2>1, <2>2
<1>3. \/ status' = Stopped /\ \E r \in 0..MaxCheckPoint + 2 :
                                 work' = [doing |-> "nothing", age |-> 0, reports |-> r]
      \/ /\ status' = [state |-> "RUNNING", checkPoint |-> 0, hint |-> 0]
         /\ work' = [doing |-> "serving", age |-> 0, reports |-> work.reports]
         /\ work.reports <= MaxCheckPoint + 1
  <2>0. 0 \in 0..MaxCheckPoint + 2 /\ 1 <= MaxCheckPoint + 1
    BY TimesAre
  <2>1. "STOPPED" \in State /\ "RUNNING" \in State
        /\ "STOPPED" \notin Pending /\ "RUNNING" \notin Pending
    BY DEF State, Pending
  <2>2. ASSUME Report("STOPPED", NoWork)
        PROVE  status' = Stopped /\ work' = [doing |-> "nothing", age |-> 0, reports |-> 0]
    BY <2>1, <2>2, Reported DEF NoWork, Stopped
  <2>3. ASSUME Report("RUNNING", Doing("serving"))
        PROVE  /\ status' = [state |-> "RUNNING", checkPoint |-> 0, hint |-> 0]
               /\ work' = [doing |-> "serving", age |-> 0, reports |-> work.reports]
    <3>1. Report("RUNNING", [doing |-> "serving", age |-> work.age, reports |-> work.reports])
      BY <1>1, <2>3, WorkParts
    <3> QED BY <2>1, <3>1, Reported
  <2>4. CASE WorkerStarted
    <3>1. work.doing = "starting" /\ work.reports = 1
      BY <2>4 DEF WorkerStarted, ControlInv, WorkShown
    <3> QED BY <2>0, <2>2, <2>3, <2>4, <3>1 DEF WorkerStarted
  <2>5. CASE WorkerStopped
    <3>1. work.reports < MaxCheckPoint + 2 => work.reports <= MaxCheckPoint + 1
      <4>1. work.reports \in Int
        BY <1>1, WorkParts
      <4> QED BY <4>1, TimesAre
    <3> QED BY <2>0, <2>2, <2>3, <2>5, <3>1 DEF WorkerStopped
  <2>6. CASE Dies
    BY <2>0, <2>6 DEF Dies, NoWork
  <2> QED BY <2>4, <2>5, <2>6
<1>4. ControlTypeOK'
  <2>1. stake' \in [Controller -> {"none", "waits for it", "gave it up", "was wrong"}]
    BY <1>2
  <2>2. 0 \in 0..MaxCheckPoint + 2 /\ work.reports \in 0..MaxCheckPoint + 2
    <3>1. work.reports \in 0..MaxCheckPoint + 2
      BY <1>1, ControlTyped
    <3>2. 0 \in 0..MaxCheckPoint + 2
      BY TimesAre
    <3> QED BY <3>1, <3>2
  <2>3. "STOPPED" \in State /\ "RUNNING" \in State
        /\ "STOPPED" \notin Pending /\ "RUNNING" \notin Pending
    BY DEF State, Pending
  <2>4. /\ status' \in [state : State, checkPoint : 0..MaxCheckPoint + 2,
                         hint : {0, FirstHint, WaitHint}]
        /\ status'.state \in Pending <=> status'.hint # 0
    BY <1>3, <2>2, <2>3, NowTyped DEF Stopped
  <2>5. work' \in [doing : {"nothing", "launch", "main", "starting", "serving", "stopping", "hung"},
                   age : 0..WorkTime + FirstHint, reports : 0..MaxCheckPoint + 2]
    <3> DEFINE Works == {"nothing", "launch", "main", "starting", "serving", "stopping", "hung"}
    <3>1. \E d \in {"nothing", "serving"}, r \in 0..MaxCheckPoint + 2 :
            work' = [doing |-> d, age |-> 0, reports |-> r]
      BY <1>3, <2>2
    <3>2. {"nothing", "serving"} \subseteq Works /\ 0 \in {0, FirstHint, WaitHint}
      OBVIOUS
    <3> QED BY <2>2, <2>3, <3>1, <3>2, NowTyped
  <2> QED BY <1>1, <2>1, <2>4, <2>5, ServiceTyped
<1>5. WorkShown'
  BY <1>3 DEF WorkShown
<1>6. Commanded'
  BY DEF ControlInv, Commanded
<1> QED BY <1>2, <1>4, <1>5, <1>6, NoStakeNoFault DEF ControlInv

LEMMA WorkerKeeps == ControlInv /\ WorkerStep => ControlInv'
  BY ThreadBeginsKeeps, WorkerStartsKeeps, HangsKeeps, EndsKeeps
     DEF WorkerStep, WorkerEnds, WorkerStarts

-----------------------------------------------------------------------------
LEMMA CommandTyped ==
  ASSUME ControlInv, NEW c \in Controller
  PROVE  /\ ctl[c].command \in Command /\ installed \in {"no", "yes", "marked"}
         /\ ctl[c].pc \in {"stop", "control", "answer", "await-stopped"} =>
              /\ ctl[c].command \in {"stop", "restart", "uninstall"}
              /\ AfterStop(c) \in {"ok", "start", "delete"}
  BY DEF ControlInv, ControlTypeOK, Commanded, AfterStop

(* While the service runs or is stopped nobody has a stake.                *)
LEMMA AtRestNoStake ==
  ASSUME ControlInv, status.state \in {"RUNNING", "STOPPED"}
  PROVE  stake = [c \in Controller |-> "none"]
<1>1. \A c \in Controller : stake[c] = "none"
  BY DEF ControlInv, StakeShown, Pending
<1> QED BY <1>1 DEF ControlInv, ControlTypeOK

LEMMA SendStopKeeps ==
  ASSUME ControlInv, NEW c \in Controller, SendStop(c) PROVE ControlInv'
<1>1. CASE status.state = "RUNNING"
  <2>1. /\ ctl[c].pc = "control" /\ Set(c, "answer") /\ UNCHANGED <<clock, installed, stake>>
        /\ Report("STOP_PENDING", Doing("stopping"))
    BY <1>1 DEF SendStop
  <2>2. stake' = [d \in Controller |-> "none"]
    BY <1>1, <2>1, AtRestNoStake
  <2>3. ControlTypeOK /\ work.doing = "serving" /\ work.reports <= MaxCheckPoint + 1
    <3>1. ControlTypeOK
      BY DEF ControlInv
    <3>2. work.doing \in {"nothing", "launch", "main", "starting", "serving", "stopping", "hung"}
      BY <3>1, ControlTyped
    <3> QED BY <1>1, <3>1, <3>2 DEF ControlInv, WorkShown, Stopped, Pending
  <2>4. work.reports \in Nat
    BY <2>3, WorkParts
  <2>5. /\ status' = [state |-> "STOP_PENDING", checkPoint |-> work.reports + 1, hint |-> WaitHint]
        /\ work' = [doing |-> "stopping", age |-> 0, reports |-> work.reports + 1]
    <3>1. Report("STOP_PENDING", [doing |-> "stopping", age |-> work.age, reports |-> work.reports])
      BY <2>1, <2>3, WorkParts
    <3>2. "STOP_PENDING" \in State /\ "STOP_PENDING" \in Pending
      BY DEF State, Pending
    <3> QED BY <3>1, <3>2, Reported
  <2>6. /\ ctl' \in [Controller -> Process] /\ ctl'[c].pc = "answer"
        /\ ctl'[c].command = ctl[c].command /\ \A d \in Controller : d # c => ctl'[d] = ctl[d]
    <3>1. "answer" \in Place
      BY DEF Place
    <3> QED BY <2>1, <2>3, <3>1, ControlTyped, ProcessSet
  <2>7. ControlTypeOK'
    <3>1. work.reports + 1 \in 0..MaxCheckPoint + 2
      BY <2>3, <2>4, TimesAre
    <3>2. WaitHint # 0
      BY TimesAre
    <3>3. "STOP_PENDING" \in State /\ status'.state \in Pending /\ status'.hint # 0
      BY <2>5, <3>2 DEF State, Pending
    <3>4. status' \in [state : State, checkPoint : 0..MaxCheckPoint + 2,
                       hint : {0, FirstHint, WaitHint}]
          /\ work' \in [doing : {"nothing", "launch", "main", "starting", "serving",
                                 "stopping", "hung"},
                        age : 0..WorkTime + FirstHint, reports : 0..MaxCheckPoint + 2]
      BY <2>5, <3>1, <3>3, NowTyped
    <3> QED BY <2>1, <2>3, <2>6, <3>3, <3>4 DEF ControlTypeOK, Process
  <2>8. WorkShown'
    BY <2>5, TimesAre DEF WorkShown
  <2>9. Commanded'
    BY <2>1, <2>6 DEF ControlInv, Commanded
  <2> QED BY <2>2, <2>7, <2>8, <2>9, NoStakeNoFault DEF ControlInv
<1>2. CASE status.state # "RUNNING"
  <2>1. "failed" \in Place /\ "failed" \notin Awaiting
    BY DEF Place, Awaiting
  <2> QED BY <1>2, <2>1, ProceedKeeps, CommandTyped DEF SendStop
<1> QED BY <1>1, <1>2

LEMMA StartServiceKeeps ==
  ASSUME ControlInv, NEW c \in Controller, StartService(c) PROVE ControlInv'
<1>1. CASE status.state = "STOPPED" /\ installed = "yes"
  <2>1. /\ Set(c, "launching") /\ UNCHANGED <<clock, installed, stake>>
        /\ status' = [state |-> "START_PENDING", checkPoint |-> 0, hint |-> FirstHint]
        /\ work' = [doing |-> "launch", age |-> 0, reports |-> 0]
    BY <1>1 DEF StartService, NoWork
  <2>2. stake' = [d \in Controller |-> "none"]
    BY <1>1, <2>1, AtRestNoStake
  <2>3. ControlTypeOK
    BY DEF ControlInv
  <2>4. /\ ctl' \in [Controller -> Process] /\ ctl'[c].pc = "launching"
        /\ \A d \in Controller : d # c => ctl'[d] = ctl[d]
    <3>1. "launching" \in Place
      BY DEF Place
    <3> QED BY <2>1, <2>3, <3>1, ControlTyped, ProcessSet
  <2>5. ControlTypeOK'
    <3>1. 0 \in 0..MaxCheckPoint + 2 /\ FirstHint # 0
      BY TimesAre
    <3>2. "START_PENDING" \in State /\ status'.state \in Pending /\ status'.hint # 0
      BY <2>1, <3>1 DEF State, Pending
    <3>3. status' \in [state : State, checkPoint : 0..MaxCheckPoint + 2,
                       hint : {0, FirstHint, WaitHint}]
          /\ work' \in [doing : {"nothing", "launch", "main", "starting", "serving",
                                 "stopping", "hung"},
                        age : 0..WorkTime + FirstHint, reports : 0..MaxCheckPoint + 2]
      BY <2>1, <3>1, <3>2, NowTyped
    <3> QED BY <2>1, <2>3, <2>4, <3>2, <3>3 DEF ControlTypeOK, Process
  <2>6. WorkShown'
    BY <2>1, TimesAre DEF WorkShown
  <2>7. Commanded'
    BY <2>4 DEF ControlInv, Commanded
  <2> QED BY <2>2, <2>5, <2>6, <2>7, NoStakeNoFault DEF ControlInv
<1>2. CASE ~(status.state = "STOPPED" /\ installed = "yes")
  <2>1. "failed" \in Place /\ "failed" \notin Awaiting
    BY DEF Place, Awaiting
  <2> QED BY <1>2, <2>1, ProceedKeeps, CommandTyped DEF StartService
<1> QED BY <1>1, <1>2

(* Who gives up what he has a stake in gives up a work that hangs.         *)
LEMMA GivesUpHung ==
  ASSUME ControlInv, NEW c \in Controller, GivesUp(c), Patient(c)
  PROVE  work.doing = "hung"
<1>1. Elapsed(ctl[c].from) \in Int /\ Elapsed(ctl[c].ticks) \in Int
  <2>1. ControlTypeOK
    BY DEF ControlInv
  <2>2. ctl[c] \in Process /\ clock \in 0..Modulus - 1
    BY <2>1, ControlTyped
  <2>3. ctl[c].from \in 0..Modulus - 1 /\ ctl[c].ticks \in 0..Modulus - 1
    BY <2>2 DEF Process
  <2>4. Elapsed(ctl[c].from) \in 0..Modulus - 1 /\ Elapsed(ctl[c].ticks) \in 0..Modulus - 1
    BY <2>2, <2>3, TicksElapse
  <2>5. Modulus \in Nat
    BY TimesAre
  <2> QED BY <2>4, <2>5
<1>2. ctl[c].checkPoint \in Int /\ work.age \in Int
  <2>1. ControlTypeOK
    BY DEF ControlInv
  <2>2. ctl[c] \in Process
    BY <2>1, ControlTyped
  <2>3. ctl[c].checkPoint \in 0..MaxCheckPoint + 2
    BY <2>2 DEF Process
  <2>4. MaxCheckPoint \in Nat
    BY TimesAre
  <2>5. ctl[c].checkPoint \in Int
    BY <2>3, <2>4
  <2>6. work.age \in Int
    BY <2>1, WorkParts
  <2> QED BY <2>5, <2>6
<1>3. /\ ~(status.checkPoint > ctl[c].checkPoint)
      /\ Elapsed(ctl[c].ticks) > status.hint \/ Elapsed(ctl[c].from) > ControlTimeout
  BY DEF GivesUp, RunsOut, Progress
<1>4. work.doing # "main"
  <2> SUFFICES ASSUME work.doing = "main" PROVE FALSE
    OBVIOUS
  <2>1. Elapsed(ctl[c].from) <= work.age /\ Elapsed(ctl[c].ticks) <= work.age
    BY DEF Patient
  <2>2. work.age <= FirstHint /\ status.hint = FirstHint
    <3>1. work.age <= FirstHint
      BY DEF ControlInv, WorkShown
    <3>2. status.hint = FirstHint
      BY DEF ControlInv, WorkShown
    <3> QED BY <3>1, <3>2
  <2> QED BY <1>1, <1>2, <1>3, <2>1, <2>2, TimesAre
<1>5. work.doing # "starting"
  <2> SUFFICES ASSUME work.doing = "starting" PROVE FALSE
    OBVIOUS
  <2>1. /\ Elapsed(ctl[c].from) <= FirstHint + work.age
        /\ ctl[c].checkPoint > 0 => Elapsed(ctl[c].ticks) <= work.age
    BY DEF Patient
  <2>2. work.age <= WorkTime /\ status.hint = WaitHint /\ status.checkPoint = 1
    BY DEF ControlInv, WorkShown
  <2> QED BY <1>1, <1>2, <1>3, <2>1, <2>2, TimesAre
<1>6. work.doing # "stopping"
  <2> SUFFICES ASSUME work.doing = "stopping" PROVE FALSE
    OBVIOUS
  <2>1. Elapsed(ctl[c].from) <= work.age /\ Elapsed(ctl[c].ticks) <= work.age
    BY DEF Patient
  <2>2. work.age <= WorkTime /\ status.hint = WaitHint
    BY DEF ControlInv, WorkShown
  <2> QED BY <1>1, <1>2, <1>3, <2>1, <2>2, TimesAre
<1> QED BY <1>4, <1>5, <1>6 DEF Patient

LEMMA PollKeeps ==
  ASSUME ControlInv, NEW c \in Controller, Poll(c) PROVE ControlInv'
<1>0. ControlTypeOK /\ ctl[c].pc \in Awaiting /\ UNCHANGED <<clock, installed, status, work>>
  BY DEF ControlInv, Poll, Else
<1>1. CASE ~(status.state = Awaited(c) /\ ~RunsOut(c))
  <2>1. Set(c, AfterAwaiting(c))
    BY <1>1 DEF Poll
  <2>2. AfterAwaiting(c) \in {"failed", "launch", "ok", "start", "delete"}
    <3>1. ctl[c].pc = "await-stopped" => AfterStop(c) \in {"ok", "start", "delete"}
      BY CommandTyped
    <3> QED BY <1>0, <3>1 DEF AfterAwaiting, AfterOld, AfterStart, Awaiting
  <2>3. stake' = stake \/ (stake' = [stake EXCEPT ![c] = "gave it up"] /\ work.doing = "hung")
    <3>1. \/ stake' = stake
          \/ /\ stake' = [stake EXCEPT ![c] = "gave it up"]
             /\ GivesUp(c) /\ stake[c] = "waits for it"
      BY Zenon DEF Poll
    <3>2. GivesUp(c) /\ stake[c] = "waits for it" => Patient(c)
      BY <1>0 DEF ControlInv, StakeShown, Waits, GivesUp
    <3> QED BY <3>1, <3>2, GivesUpHung
  <2>4. /\ AfterAwaiting(c) \in Place /\ AfterAwaiting(c) \notin Awaiting
        /\ AfterAwaiting(c) \notin {"stop", "control", "answer", "await-stopped"}
    BY <2>2 DEF Place, Awaiting
  <2> QED BY <1>0, <2>1, <2>3, <2>4, ProceedKeeps, CommandTyped
<1>2. CASE status.state = Awaited(c) /\ ~RunsOut(c)
  <2>1. /\ ctl' = [ctl EXCEPT ![c] = [ctl[c] EXCEPT !.slept = 0,
                     !.ticks = IF Progress(c) THEN clock ELSE ctl[c].ticks,
                     !.checkPoint = IF Progress(c) THEN status.checkPoint ELSE ctl[c].checkPoint]]
        /\ stake' = stake
    <3>1. ~GivesUp(c)
      BY <1>2 DEF GivesUp
    <3>2. stake' = stake
      BY <3>1, Zenon DEF Poll
    <3>3. ctl' = [ctl EXCEPT ![c] = [ctl[c] EXCEPT !.slept = 0,
                     !.ticks = IF Progress(c) THEN clock ELSE ctl[c].ticks,
                     !.checkPoint = IF Progress(c) THEN status.checkPoint ELSE ctl[c].checkPoint]]
      BY <1>2 DEF Poll
    <3> QED BY <3>2, <3>3, Zenon
  <2>2. ctl \in [Controller -> Process] /\ ctl[c] \in Process
    BY <1>0, ControlTyped
  <2>3. /\ ctl'[c].pc = ctl[c].pc /\ ctl'[c].command = ctl[c].command
        /\ ctl'[c].from = ctl[c].from
        /\ ctl'[c].ticks = IF Progress(c) THEN clock ELSE ctl[c].ticks
        /\ ctl'[c].checkPoint = IF Progress(c) THEN status.checkPoint ELSE ctl[c].checkPoint
        /\ \A d \in Controller : d # c => ctl'[d] = ctl[d]
    BY <2>1, <2>2 DEF Process
  <2>4. ctl' \in [Controller -> Process]
    <3>1. 0 \in 0..MaxDelay
      BY TimesAre
    <3>2. status.checkPoint \in 0..MaxCheckPoint + 2 /\ clock \in 0..Modulus - 1
      BY <1>0, ControlTyped
    <3>3. [ctl[c] EXCEPT !.slept = 0, !.ticks = IF Progress(c) THEN clock ELSE ctl[c].ticks,
             !.checkPoint = IF Progress(c) THEN status.checkPoint ELSE ctl[c].checkPoint] \in Process
      BY <2>2, <3>1, <3>2 DEF Process
    <3> QED BY <2>1, <2>2, <3>3
  <2>5. ControlTypeOK'
    BY <1>0, <2>1, <2>4 DEF ControlTypeOK, Process
  <2>6. WorkShown'
    BY <1>0 DEF ControlInv, WorkShown, Stopped
  <2>7. Commanded'
    BY <2>3 DEF ControlInv, Commanded
  <2>8. \A d \in Controller : d # c => (Waits(d)' <=> Waits(d)) /\ (Patient(d) => Patient(d)')
    BY <1>0, <2>1, <2>3 DEF Waits, Patient, Awaited, Elapsed
  <2>9. Waits(c)' <=> Waits(c)
    BY <1>0, <2>1, <2>3 DEF Waits, Awaited
  <2>10. Patient(c) => Patient(c)'
    <3>1. CASE ~Progress(c)
      BY <1>0, <2>3, <3>1 DEF Patient, Elapsed
    <3>2. CASE Progress(c)
      <4>1. Elapsed(ctl[c].ticks)' = 0
        <5>1. clock \in 0..Modulus - 1
          BY <1>0, ControlTyped
        <5> QED BY <1>0, <2>3, <3>2, <5>1, TicksElapse DEF Elapsed
      <4>2. Elapsed(ctl[c].from)' = Elapsed(ctl[c].from)
        BY <1>0, <2>3 DEF Elapsed
      <4>3. work.age \in Nat
        BY <1>0, WorkParts
      <4>4. work.doing = "main" => status.checkPoint = 0
        BY DEF ControlInv, WorkShown
      <4> QED BY <1>0, <2>3, <3>2, <4>1, <4>2, <4>3, <4>4 DEF Patient
    <3> QED BY <3>1, <3>2
  <2>11. StakeShown'
    <3> SUFFICES ASSUME NEW d \in Controller
                 PROVE  /\ stake'[d] # "was wrong"
                        /\ stake'[d] # "none" => status'.state \in Pending
                        /\ stake'[d] = "gave it up" => work'.doing = "hung"
                        /\ Waits(d)' => Patient(d)'
      BY DEF StakeShown
    <3>1. CASE d # c
      BY <1>0, <2>1, <2>8, <3>1 DEF ControlInv, StakeShown
    <3>2. CASE d = c
      BY <1>0, <2>1, <2>9, <2>10, <3>2 DEF ControlInv, StakeShown
    <3> QED BY <3>1, <3>2
  <2> QED BY <2>5, <2>6, <2>7, <2>11 DEF ControlInv
<1> QED BY <1>1, <1>2

LEMMA CommandsKeep ==
  ASSUME ControlInv, NEW c \in Controller, Launched(c) \/ ControllerStep(c) \/ ManagerFails(c)
  PROVE  ControlInv'
<1> USE DEF Else, OnlyControl, Proceed
<1>p. /\ Awaiting \subseteq Place
      /\ {"open", "ok", "failed", "start", "delete", "launch", "control", "stop"} \subseteq Place
      /\ \A p \in {"open", "ok", "failed", "start", "delete", "launch", "control", "stop"} :
            p \notin Awaiting
  BY DEF Awaiting, Place
<1>q. ctl[c].command \in Command /\ installed \in {"no", "yes", "marked"}
  BY CommandTyped
<1>1. CASE Launched(c)
  BY <1>1, <1>p, <1>q, ProceedKeeps DEF Launched
<1>2. CASE Open(c)
  <2>1. UNCHANGED <<clock, status, work, stake>> /\ installed' \in {"no", "yes", "marked"}
    BY <1>2, <1>q DEF Open
  <2>2. CASE ctl[c].command \notin {"install", "start"} /\ Set(c, "stop")
    <3>1. ctl[c].command \in {"stop", "restart", "uninstall"}
      BY <1>q, <2>2 DEF Command
    <3> QED BY <1>p, <2>1, <2>2, <3>1, ProceedKeeps
  <2>3. CASE \E p \in {"start", "ok", "failed"} : Set(c, p)
    <3>1. PICK p \in {"start", "ok", "failed"} : Set(c, p)
      BY <2>3
    <3>2. p \in Place /\ p \notin Awaiting /\ p \notin {"stop", "control", "answer", "await-stopped"}
      BY <1>p
    <3> QED BY <2>1, <3>1, <3>2, ProceedKeeps
  <2> QED BY <1>2, <2>2, <2>3 DEF Open
<1>3. CASE QueryBeforeStop(c)
  <2>1. /\ ctl[c].command \in {"stop", "restart", "uninstall"}
        /\ AfterStop(c) \in {"ok", "start", "delete"}
        /\ UNCHANGED <<clock, installed, status, work>>
    BY <1>3, CommandTyped DEF QueryBeforeStop
  <2>2. CASE Proceed(c, AfterStop(c))
    <3>1. /\ AfterStop(c) \in Place /\ AfterStop(c) \notin Awaiting
          /\ AfterStop(c) \notin {"stop", "control", "answer", "await-stopped"}
      BY <1>p, <2>1
    <3> QED BY <1>q, <2>1, <2>2, <3>1, ProceedKeeps
  <2>3. CASE Await(c, "await-stopped")
    BY <2>1, <2>3, AwaitKeeps DEF Awaiting
  <2>4. CASE Proceed(c, "control")
    BY <1>p, <1>q, <2>1, <2>4, ProceedKeeps
  <2> QED BY <1>3, <2>2, <2>3, <2>4 DEF QueryBeforeStop
<1>4. CASE SendStop(c)
  BY <1>4, SendStopKeeps
<1>5. CASE StopSent(c)
  <2>1. /\ ctl[c].command \in {"stop", "restart", "uninstall"}
        /\ UNCHANGED <<clock, installed, status, work>>
    BY <1>5, CommandTyped DEF StopSent
  <2>2. CASE Await(c, "await-stopped")
    BY <2>1, <2>2, AwaitKeeps DEF Awaiting
  <2>3. CASE Proceed(c, "failed")
    BY <1>p, <1>q, <2>1, <2>3, ProceedKeeps
  <2> QED BY <1>5, <2>2, <2>3 DEF StopSent
<1>6. CASE QueryBeforeStart(c)
  <2>1. UNCHANGED <<clock, installed, status, work>> /\ AfterOld \in {"launch", "ok"}
    BY <1>6 DEF QueryBeforeStart, AfterOld
  <2>2. CASE Await(c, "await-old")
    BY <2>1, <2>2, AwaitKeeps DEF Awaiting
  <2>3. CASE Proceed(c, AfterOld)
    <3>1. /\ AfterOld \in Place /\ AfterOld \notin Awaiting
          /\ AfterOld \notin {"stop", "control", "answer", "await-stopped"}
      BY <1>p, <2>1
    <3> QED BY <1>q, <2>1, <2>3, <3>1, ProceedKeeps
  <2> QED BY <1>6, <2>2, <2>3 DEF QueryBeforeStart
<1>7. CASE StartService(c)
  BY <1>7, StartServiceKeeps
<1>8. CASE ServiceStarted(c)
  <2>1. UNCHANGED <<clock, installed, status, work>> /\ AfterStart \in {"failed", "ok"}
    BY <1>8 DEF ServiceStarted, AfterStart
  <2>2. CASE Await(c, "await-started") /\ work.doing # "launch"
    BY <2>1, <2>2, AwaitKeeps DEF Awaiting
  <2>3. CASE \E p \in {"failed", "ok"} : Proceed(c, p)
    <3>1. PICK p \in {"failed", "ok"} : Proceed(c, p)
      BY <2>3
    <3>2. p \in Place /\ p \notin Awaiting /\ p \notin {"stop", "control", "answer", "await-stopped"}
      BY <1>p
    <3> QED BY <1>q, <2>1, <3>1, <3>2, ProceedKeeps
  <2> QED BY <1>8, <2>1, <2>2, <2>3 DEF ServiceStarted
<1>9. CASE Delete(c)
  <2>1. UNCHANGED <<clock, status, work, stake>> /\ installed' \in {"no", "yes", "marked"}
    BY <1>9, <1>q DEF Delete
  <2>2. PICK p \in {"ok", "failed"} : Set(c, p)
    BY <1>9 DEF Delete
  <2>3. p \in Place /\ p \notin Awaiting /\ p \notin {"stop", "control", "answer", "await-stopped"}
    BY <1>p
  <2> QED BY <2>1, <2>2, <2>3, ProceedKeeps
<1>10. CASE Poll(c)
  BY <1>10, PollKeeps
<1>11. CASE ManagerFails(c)
  BY <1>11, <1>p, <1>q, ProceedKeeps DEF ManagerFails
<1> QED
  BY <1>1, <1>2, <1>3, <1>4, <1>5, <1>6, <1>7, <1>8, <1>9, <1>10, <1>11 DEF ControllerStep

(* Time goes on for the work as for those who wait for it.                 *)
LEMMA TickKeeps == ControlInv /\ Tick => ControlInv'
<1> SUFFICES ASSUME ControlInv, Tick PROVE ControlInv'
  OBVIOUS
<1> DEFINE Working == work.doing \in {"launch", "main", "starting", "stopping"}
<1>0. ControlTypeOK
  BY DEF ControlInv
<1>1. /\ UNCHANGED <<installed, status, stake>> /\ clock' = (clock + 1) % Modulus
      /\ ctl' = [c \in Controller |->
                   IF ctl[c].pc \in Awaiting THEN [ctl[c] EXCEPT !.slept = @ + 1] ELSE ctl[c]]
      /\ \A c \in Controller : ctl[c].pc \in Awaiting => ctl[c].slept < MaxDelay
  BY DEF Tick
<1>2. /\ work.age \in Nat
      /\ Working => /\ work.age < TimeOf(work.doing)
                    /\ work' = [doing |-> work.doing, age |-> work.age + 1, reports |-> work.reports]
      /\ ~Working => work' = work
  BY <1>0, WorkParts DEF Tick
<1>3. clock \in 0..Modulus - 1 /\ ctl \in [Controller -> Process]
  BY <1>0, ControlTyped
<1>4. clock' \in 0..Modulus - 1
  BY <1>1, <1>3, TicksElapse
<1>5. ASSUME NEW c \in Controller
      PROVE  /\ ctl'[c].pc = ctl[c].pc /\ ctl'[c].from = ctl[c].from
             /\ ctl'[c].ticks = ctl[c].ticks /\ ctl'[c].checkPoint = ctl[c].checkPoint
             /\ ctl'[c].command = ctl[c].command /\ ctl'[c] \in Process
  <2>1. ctl[c] \in Process
    BY <1>3
  <2>2. CASE ctl[c].pc \in Awaiting
    <3>1. ctl'[c] = [ctl[c] EXCEPT !.slept = @ + 1] /\ ctl[c].slept < MaxDelay
      BY <1>1, <2>2
    <3>2. ctl[c].slept \in 0..MaxDelay
      BY <2>1 DEF Process
    <3>3. ctl[c].slept + 1 \in 0..MaxDelay
      BY <3>1, <3>2, TimesAre
    <3> QED BY <2>1, <3>1, <3>3 DEF Process
  <2>3. CASE ctl[c].pc \notin Awaiting
    BY <1>1, <2>1, <2>3
  <2> QED BY <2>2, <2>3
<1>6. ctl' \in [Controller -> Process]
  BY <1>1, <1>5
<1>7. /\ work'.doing = work.doing /\ work'.reports = work.reports
      /\ Working => work'.age = work.age + 1 /\ work'.age <= TimeOf(work.doing)
  <2>1. FirstHint \in Nat /\ WorkTime \in Nat
    BY TimesAre
  <2>2. Working => work'.doing = work.doing /\ work'.reports = work.reports
                   /\ work'.age = work.age + 1
    BY <1>2
  <2>3. Working => work.age + 1 <= TimeOf(work.doing)
    BY <1>2, <2>1 DEF TimeOf
  <2> QED BY <1>2, <2>2, <2>3
<1>8. ControlTypeOK'
  <2>1. work' \in [doing : {"nothing", "launch", "main", "starting", "serving", "stopping", "hung"},
                   age : 0..WorkTime + FirstHint, reports : 0..MaxCheckPoint + 2]
    <3>1. CASE ~Working
      BY <1>0, <1>2, <3>1 DEF ControlTypeOK
    <3>2. CASE Working
      <4>1. work.age + 1 \in 0..WorkTime + FirstHint
        <5>1. work.age \in Nat /\ work.age + 1 <= TimeOf(work.doing)
          BY <1>2, <1>7, <3>2
        <5>2. FirstHint \in Nat /\ WorkTime \in Nat
          BY TimesAre
        <5>3. TimeOf(work.doing) <= WorkTime + FirstHint /\ TimeOf(work.doing) \in Nat
          BY <5>2 DEF TimeOf
        <5> QED BY <5>1, <5>2, <5>3
      <4>2. /\ work.doing \in {"nothing", "launch", "main", "starting", "serving",
                                "stopping", "hung"}
            /\ work.reports \in 0..MaxCheckPoint + 2
        BY <1>0, ControlTyped
      <4>3. work' = [doing |-> work.doing, age |-> work.age + 1, reports |-> work.reports]
        BY <1>2, <3>2
      <4> QED BY <4>1, <4>2, <4>3
    <3> QED BY <3>1, <3>2
  <2> QED BY <1>0, <1>1, <1>4, <1>6, <2>1 DEF ControlTypeOK, Process
<1>9. WorkShown'
  BY <1>1, <1>7 DEF ControlInv, WorkShown, TimeOf, Stopped
<1>10. Commanded'
  BY <1>5 DEF ControlInv, Commanded
<1>11. ASSUME NEW c \in Controller, Waits(c)' PROVE Patient(c)'
  <2>1. Waits(c)
    BY <1>1, <1>5, <1>11 DEF Waits, Awaited
  <2>2. Patient(c)
    BY <2>1 DEF ControlInv, StakeShown
  <2>3. ASSUME NEW t \in 0..Modulus - 1
        PROVE  /\ Elapsed(t) \in 0..Modulus - 1 /\ Elapsed(t)' \in 0..Modulus - 1
               /\ Elapsed(t)' <= Elapsed(t) + 1
    <3>1. Elapsed(t) \in 0..Modulus - 1 /\ (((clock + 1) % Modulus) - t) % Modulus <= Elapsed(t) + 1
      BY <1>3, TicksElapse
    <3>2. Elapsed(t)' = (((clock + 1) % Modulus) - t) % Modulus
      BY <1>1 DEF Elapsed
    <3>3. Elapsed(t)' \in 0..Modulus - 1
      BY <1>4, ElapsedRange DEF Elapsed
    <3> QED BY <3>1, <3>2, <3>3
  <2>4. ctl[c].from \in 0..Modulus - 1 /\ ctl[c].ticks \in 0..Modulus - 1
    BY <1>3 DEF Process
  <2> DEFINE f == Elapsed(ctl[c].from)
             t == Elapsed(ctl[c].ticks)
             g == Elapsed(ctl[c].from)'
             u == Elapsed(ctl[c].ticks)'
  <2>5. f \in Nat /\ t \in Nat /\ g \in Nat /\ u \in Nat /\ g <= f + 1 /\ u <= t + 1
    <3>1. /\ f \in 0..Modulus - 1 /\ t \in 0..Modulus - 1 /\ f + 1 >= g
          /\ g \in 0..Modulus - 1 /\ u \in 0..Modulus - 1 /\ t + 1 >= u
      <4>1. g = (clock' - ctl[c].from) % Modulus /\ u = (clock' - ctl[c].ticks) % Modulus
        BY <1>5 DEF Elapsed
      <4> QED BY <1>5, <2>3, <2>4 DEF Elapsed
    <3> HIDE DEF f, t, g, u
    <3> QED BY <3>1, TimesAre
  <2>6. work.doing \in {"main", "starting", "stopping", "hung"}
    BY <2>2 DEF Patient
  <2>7. work'.doing = work.doing /\ work.age \in Nat
    BY <1>2, <1>7
  <2>8. /\ ctl'[c].checkPoint = ctl[c].checkPoint
        /\ work.doing = "main" => ctl[c].checkPoint = 0 /\ f <= work.age /\ t <= work.age
        /\ work.doing = "starting" =>
             f <= FirstHint + work.age /\ (ctl[c].checkPoint > 0 => t <= work.age)
        /\ work.doing = "stopping" => f <= work.age /\ t <= work.age
    BY <1>5, <2>2 DEF Patient
  <2>9. work.doing # "hung" => work'.age = work.age + 1
    BY <1>7, <2>6
  <2>10. /\ work.doing = "main" => g <= work'.age /\ u <= work'.age
         /\ work.doing = "starting" =>
              g <= FirstHint + work'.age /\ (ctl[c].checkPoint > 0 => u <= work'.age)
         /\ work.doing = "stopping" => g <= work'.age /\ u <= work'.age
    <3> HIDE DEF f, t, g, u
    <3>1. FirstHint \in Nat
      BY TimesAre
    <3>2. work.age \in Nat /\ (work.doing # "hung" => work'.age = work.age + 1)
      BY <2>7, <2>9
    <3>3. ctl[c].checkPoint > 0 /\ work.doing = "starting" => u <= work'.age
      BY <2>5, <2>8, <3>2
    <3>4. work.doing = "starting" => g <= FirstHint + work'.age
      BY <2>5, <2>8, <3>1, <3>2
    <3> QED BY <2>5, <2>8, <3>2, <3>3, <3>4
  <2> QED BY <2>6, <2>7, <2>8, <2>10 DEF Patient
<1>12. StakeShown'
  <2> SUFFICES ASSUME NEW c \in Controller
               PROVE  /\ stake'[c] # "was wrong"
                      /\ stake'[c] # "none" => status'.state \in Pending
                      /\ stake'[c] = "gave it up" => work'.doing = "hung"
                      /\ Waits(c)' => Patient(c)'
    BY DEF StakeShown
  <2> QED BY <1>1, <1>7, <1>11 DEF ControlInv, StakeShown
<1> QED BY <1>8, <1>9, <1>10, <1>12 DEF ControlInv

-----------------------------------------------------------------------------
LEMMA ControlBegins == Quiet \/ ControlInit => ControlInv
<1> SUFFICES ASSUME Quiet \/ ControlInit PROVE ControlInv
  OBVIOUS
<1>1. /\ status = Stopped /\ work = NoWork /\ stake = [c \in Controller |-> "none"]
      /\ installed \in {"no", "yes", "marked"}
  BY DEF Quiet, ControlInit
<1>2. clock \in 0..Modulus - 1
  BY TimesAre DEF Quiet, ControlInit
<1>3. \A m \in Command : At(m, "idle") \in Process /\ At(m, "ok") \in Process
  <2>1. 0 \in 0..Modulus - 1 /\ 0 \in 0..MaxCheckPoint + 2 /\ 0 \in 0..MaxDelay
    BY TimesAre
  <2> QED BY <2>1 DEF At, Process, Place
<1>4. ctl \in [Controller -> Process] /\ \A c \in Controller : ctl[c].pc \in {"idle", "ok"}
  <2>1. CASE Quiet
    BY <1>3, <2>1 DEF Quiet, At, Command
  <2>2. CASE ControlInit
    <3>1. ctl \in [Controller -> {At(m, "idle") : m \in Command}]
      BY <2>2 DEF ControlInit
    <3>2. ASSUME NEW c \in Controller PROVE ctl[c] \in Process /\ ctl[c].pc = "idle"
      <4>1. PICK m \in Command : ctl[c] = At(m, "idle")
        BY <3>1
      <4>2. At(m, "idle").pc = "idle"
        BY DEF At
      <4> QED BY <1>3, <4>1, <4>2
    <3> QED BY <3>1, <3>2
  <2> QED BY <2>1, <2>2
<1>5. ControlTypeOK
  <2>1. /\ status \in [state : State, checkPoint : 0..MaxCheckPoint + 2,
                        hint : {0, FirstHint, WaitHint}]
        /\ work \in [doing : {"nothing", "launch", "main", "starting", "serving",
                              "stopping", "hung"},
                     age : 0..WorkTime + FirstHint, reports : 0..MaxCheckPoint + 2]
    <3>1. 0 \in 0..MaxCheckPoint + 2
      BY TimesAre
    <3> QED BY <1>1, <3>1, NowTyped DEF Stopped, NoWork, State
  <2> QED BY <1>1, <1>2, <1>4, <2>1 DEF ControlTypeOK, Process, Stopped, Pending
<1>6. WorkShown
  BY <1>1 DEF WorkShown, NoWork
<1>7. Commanded
  BY <1>4 DEF Commanded
<1>8. StakeShown
  BY <1>1 DEF StakeShown, Waits
<1> QED BY <1>5, <1>6, <1>7, <1>8 DEF ControlInv

LEMMA ControlNext == ControlInv /\ [Next]_vars => ControlInv'
<1> SUFFICES ASSUME ControlInv, [Next]_vars PROVE ControlInv'
  OBVIOUS
<1>1. CASE UNCHANGED controlVars
  BY <1>1 DEF controlVars, ControlInv, ControlTypeOK, WorkShown, Commanded, StakeShown, Waits,
              Patient, Awaited, Elapsed, Process
<1>2. CASE WorkerStep
  BY <1>2, WorkerKeeps
<1>3. CASE Tick
  BY <1>3, TickKeeps
<1>4. CASE ControllersStep
  BY <1>4, CommandsKeep DEF ControllersStep
<1> QED BY <1>1, <1>2, <1>3, <1>4 DEF Next, Reading, Dispatched, vars

(* A command that reports that the service starts or stops too slowly is   *)
(* not proved wrong by the start or stop it was waiting for, whatever the  *)
(* number of commands, their order, the service's times and the ticks of   *)
(* the counter.                                                            *)
THEOREM FailureIsFinalHolds == Spec => []FailureIsFinal
<1>1. Init => ControlInv
  BY ControlBegins DEF Init
<1>2. ControlInv /\ [Next]_vars => ControlInv'
  BY ControlNext
<1>3. ControlInv => FailureIsFinal
  BY DEF ControlInv, StakeShown, FailureIsFinal
<1> QED BY <1>1, <1>2, <1>3, PTL DEF Spec

-----------------------------------------------------------------------------
(* The keys one after another: each has its name to itself, and a check.   *)
LEMMA KeysAre ==
  /\ Len(Keys) = 13 /\ DOMAIN Keys = 1..13
  /\ Keys[1].name = "log level" /\ Keys[1].check = "value"
  /\ Keys[2].name = "log directory" /\ Keys[2].check = "touched in main"
  /\ Keys[3].name = "event level" /\ Keys[3].check = "value"
  /\ Keys[4].name = "db directory" /\ Keys[4].check = "touched"
  /\ Keys[5].name = "time zone" /\ Keys[5].check = "value"
  /\ Keys[6].name = "max price" /\ Keys[6].check = "value"
  /\ Keys[7].name = "port" /\ Keys[7].check = "value"
  /\ Keys[8].name = "certificate" /\ Keys[8].check = "exists"
  /\ Keys[9].name = "private key" /\ Keys[9].check = "exists"
  /\ Keys[10].name = "enable static" /\ Keys[10].check = "flag"
  /\ Keys[11].name = "static directory" /\ Keys[11].check = "exists if enabled"
  /\ Keys[12].name = "index file" /\ Keys[12].check = "value"
  /\ Keys[13].name = "mime map" /\ Keys[13].check = "exists if enabled"
<1> DEFINE T == {LogKeys[1], LogKeys[2], LogKeys[3], KkmKeys[1], KkmKeys[2], KkmKeys[3],
                 ServerKeys[1], ServerKeys[2], ServerKeys[3],
                 StaticKeys[1], StaticKeys[2], StaticKeys[3], StaticKeys[4]}
<1>1. /\ LogKeys = <<LogKeys[1], LogKeys[2], LogKeys[3]>>
      /\ KkmKeys = <<KkmKeys[1], KkmKeys[2], KkmKeys[3]>>
      /\ ServerKeys = <<ServerKeys[1], ServerKeys[2], ServerKeys[3]>>
      /\ StaticKeys = <<StaticKeys[1], StaticKeys[2], StaticKeys[3], StaticKeys[4]>>
  BY DEF LogKeys, KkmKeys, ServerKeys, StaticKeys
<1>2. \A i \in 1..3 : LogKeys[i] \in T /\ KkmKeys[i] \in T /\ ServerKeys[i] \in T
  OBVIOUS
<1>3. \A i \in 1..4 : StaticKeys[i] \in T
  OBVIOUS
<1> HIDE DEF T
<1>4. LogKeys \in Seq(T) /\ KkmKeys \in Seq(T) /\ ServerKeys \in Seq(T) /\ StaticKeys \in Seq(T)
  <2>1. /\ LogKeys[1] \in T /\ LogKeys[2] \in T /\ LogKeys[3] \in T
        /\ KkmKeys[1] \in T /\ KkmKeys[2] \in T /\ KkmKeys[3] \in T
        /\ ServerKeys[1] \in T /\ ServerKeys[2] \in T /\ ServerKeys[3] \in T
        /\ StaticKeys[1] \in T /\ StaticKeys[2] \in T /\ StaticKeys[3] \in T
        /\ StaticKeys[4] \in T
    BY <1>2, <1>3
  <2>2. /\ <<LogKeys[1], LogKeys[2], LogKeys[3]>> \in Seq(T)
        /\ <<KkmKeys[1], KkmKeys[2], KkmKeys[3]>> \in Seq(T)
        /\ <<ServerKeys[1], ServerKeys[2], ServerKeys[3]>> \in Seq(T)
        /\ <<StaticKeys[1], StaticKeys[2], StaticKeys[3], StaticKeys[4]>> \in Seq(T)
    BY <2>1
  <2> QED BY <1>1, <2>2, Zenon
<1>5. Len(LogKeys) = 3 /\ Len(KkmKeys) = 3 /\ Len(ServerKeys) = 3 /\ Len(StaticKeys) = 4
  BY DEF LogKeys, KkmKeys, ServerKeys, StaticKeys
<1>6. Keys = LogKeys \o KkmKeys \o ServerKeys \o StaticKeys
  BY DEF Keys
<1>a. LogKeys \in Seq(T)
  BY <1>4
<1>b. KkmKeys \in Seq(T)
  BY <1>4
<1>c. ServerKeys \in Seq(T)
  BY <1>4
<1>d. StaticKeys \in Seq(T)
  BY <1>4
<1> DEFINE Two == LogKeys \o KkmKeys
           Three == Two \o ServerKeys
<1>e. Keys = Three \o StaticKeys
  BY <1>6
<1>7. /\ Len(Keys) = 13 /\ DOMAIN Keys = 1..13
      /\ Keys[1] = LogKeys[1] /\ Keys[2] = LogKeys[2] /\ Keys[3] = LogKeys[3]
      /\ Keys[4] = KkmKeys[1] /\ Keys[5] = KkmKeys[2] /\ Keys[6] = KkmKeys[3]
      /\ Keys[7] = ServerKeys[1] /\ Keys[8] = ServerKeys[2] /\ Keys[9] = ServerKeys[3]
      /\ Keys[10] = StaticKeys[1] /\ Keys[11] = StaticKeys[2] /\ Keys[12] = StaticKeys[3]
      /\ Keys[13] = StaticKeys[4]
  <2>1. /\ Two \in Seq(T) /\ Len(Two) = Len(LogKeys) + Len(KkmKeys)
        /\ \A i \in 1..Len(LogKeys) + Len(KkmKeys) :
             Two[i] = IF i <= Len(LogKeys) THEN LogKeys[i] ELSE KkmKeys[i - Len(LogKeys)]
    BY <1>a, <1>b, ConcatProperties, Zenon
  <2> HIDE DEF Two
  <2>2. Two \in Seq(T)
    BY <2>1
  <2>3. /\ Three \in Seq(T) /\ Len(Three) = Len(Two) + Len(ServerKeys)
        /\ \A i \in 1..Len(Two) + Len(ServerKeys) :
             Three[i] = IF i <= Len(Two) THEN Two[i] ELSE ServerKeys[i - Len(Two)]
    BY <1>c, <2>2, ConcatProperties, Zenon
  <2> HIDE DEF Three
  <2>4. Three \in Seq(T)
    BY <2>3
  <2>5. /\ Keys \in Seq(T) /\ Len(Keys) = Len(Three) + Len(StaticKeys)
        /\ \A i \in 1..Len(Three) + Len(StaticKeys) :
             Keys[i] = IF i <= Len(Three) THEN Three[i] ELSE StaticKeys[i - Len(Three)]
    <3>1. /\ Three \o StaticKeys \in Seq(T)
          /\ Len(Three \o StaticKeys) = Len(Three) + Len(StaticKeys)
          /\ \A i \in 1..Len(Three) + Len(StaticKeys) :
               (Three \o StaticKeys)[i] =
                   IF i <= Len(Three) THEN Three[i] ELSE StaticKeys[i - Len(Three)]
      BY <1>d, <2>4, ConcatProperties, Zenon
    <3> QED BY <1>e, <3>1, Zenon
  <2>6. Len(Two) = 6 /\ Len(Three) = 9 /\ Len(Keys) = 13
    BY <1>5, <2>1, <2>3, <2>5
  <2>7. DOMAIN Keys = 1..13
    <3>1. Keys \in Seq(T)
      BY <2>5
    <3> QED BY <2>6, <3>1, LenProperties
  <2>8. /\ Two[1] = LogKeys[1] /\ Two[2] = LogKeys[2] /\ Two[3] = LogKeys[3]
        /\ Two[4] = KkmKeys[1] /\ Two[5] = KkmKeys[2] /\ Two[6] = KkmKeys[3]
    BY <1>5, <2>1
  <2>9. /\ Three[1] = Two[1] /\ Three[2] = Two[2] /\ Three[3] = Two[3]
        /\ Three[4] = Two[4] /\ Three[5] = Two[5] /\ Three[6] = Two[6]
        /\ Three[7] = ServerKeys[1] /\ Three[8] = ServerKeys[2] /\ Three[9] = ServerKeys[3]
    BY <1>5, <2>3, <2>6
  <2>10. /\ Keys[1] = Three[1] /\ Keys[2] = Three[2] /\ Keys[3] = Three[3]
         /\ Keys[4] = Three[4] /\ Keys[5] = Three[5] /\ Keys[6] = Three[6]
         /\ Keys[7] = Three[7] /\ Keys[8] = Three[8] /\ Keys[9] = Three[9]
    BY <1>5, <2>5, <2>6
  <2>11. /\ Keys[10] = StaticKeys[1] /\ Keys[11] = StaticKeys[2] /\ Keys[12] = StaticKeys[3]
         /\ Keys[13] = StaticKeys[4]
    BY <1>5, <2>5, <2>6
  <2> QED BY <2>6, <2>7, <2>8, <2>9, <2>10, <2>11, Zenon
<1>8. /\ LogKeys[1].name = "log level" /\ LogKeys[1].check = "value"
      /\ LogKeys[2].name = "log directory" /\ LogKeys[2].check = "touched in main"
      /\ LogKeys[3].name = "event level" /\ LogKeys[3].check = "value"
  BY DEF LogKeys, Key
<1>9. /\ KkmKeys[1].name = "db directory" /\ KkmKeys[1].check = "touched"
      /\ KkmKeys[2].name = "time zone" /\ KkmKeys[2].check = "value"
      /\ KkmKeys[3].name = "max price" /\ KkmKeys[3].check = "value"
  BY DEF KkmKeys, Key
<1>10. /\ ServerKeys[1].name = "port" /\ ServerKeys[1].check = "value"
       /\ ServerKeys[2].name = "certificate" /\ ServerKeys[2].check = "exists"
       /\ ServerKeys[3].name = "private key" /\ ServerKeys[3].check = "exists"
  BY DEF ServerKeys, Key
<1>11. /\ StaticKeys[1].name = "enable static" /\ StaticKeys[1].check = "flag"
       /\ StaticKeys[2].name = "static directory" /\ StaticKeys[2].check = "exists if enabled"
       /\ StaticKeys[3].name = "index file" /\ StaticKeys[3].check = "value"
       /\ StaticKeys[4].name = "mime map" /\ StaticKeys[4].check = "exists if enabled"
  BY DEF StaticKeys, Key
<1>12. /\ Keys[1].name = "log level" /\ Keys[1].check = "value"
       /\ Keys[2].name = "log directory" /\ Keys[2].check = "touched in main"
       /\ Keys[3].name = "event level" /\ Keys[3].check = "value"
  BY <1>7, <1>8
<1>13. /\ Keys[4].name = "db directory" /\ Keys[4].check = "touched"
       /\ Keys[5].name = "time zone" /\ Keys[5].check = "value"
       /\ Keys[6].name = "max price" /\ Keys[6].check = "value"
  BY <1>7, <1>9
<1>14. /\ Keys[7].name = "port" /\ Keys[7].check = "value"
       /\ Keys[8].name = "certificate" /\ Keys[8].check = "exists"
       /\ Keys[9].name = "private key" /\ Keys[9].check = "exists"
  BY <1>7, <1>10
<1>15. /\ Keys[10].name = "enable static" /\ Keys[10].check = "flag"
       /\ Keys[11].name = "static directory" /\ Keys[11].check = "exists if enabled"
       /\ Keys[12].name = "index file" /\ Keys[12].check = "value"
       /\ Keys[13].name = "mime map" /\ Keys[13].check = "exists if enabled"
  BY <1>7, <1>11
<1> QED BY <1>7, <1>12, <1>13, <1>14, <1>15

LEMMA NumberOfKey ==
  \A i \in 1..13 : i \in {1, 2, 3, 4, 5, 6, 7, 8, 9, 10, 11, 12, 13}
  OBVIOUS

LEMMA KeyNumbers == {2, 4, 10, 13} \subseteq 1..13
  OBVIOUS

LEMMA RowFields ==
  ASSUME NEW i \in 1..13
  PROVE  LET k == Keys[i].name
             h == Keys[i].check
         IN  \/ i = 1 /\ k = "log level" /\ h = "value"
             \/ i = 2 /\ k = "log directory" /\ h = "touched in main"
             \/ i = 3 /\ k = "event level" /\ h = "value"
             \/ i = 4 /\ k = "db directory" /\ h = "touched"
             \/ i = 5 /\ k = "time zone" /\ h = "value"
             \/ i = 6 /\ k = "max price" /\ h = "value"
             \/ i = 7 /\ k = "port" /\ h = "value"
             \/ i = 8 /\ k = "certificate" /\ h = "exists"
             \/ i = 9 /\ k = "private key" /\ h = "exists"
             \/ i = 10 /\ k = "enable static" /\ h = "flag"
             \/ i = 11 /\ k = "static directory" /\ h = "exists if enabled"
             \/ i = 12 /\ k = "index file" /\ h = "value"
             \/ i = 13 /\ k = "mime map" /\ h = "exists if enabled"
<1>1. i \in {1, 2, 3, 4, 5, 6, 7, 8, 9, 10, 11, 12, 13}
  BY NumberOfKey
<1>2. CASE i = 1
  BY <1>2, KeysAre, Zenon
<1>3. CASE i = 2
  BY <1>3, KeysAre, Zenon
<1>4. CASE i = 3
  BY <1>4, KeysAre, Zenon
<1>5. CASE i = 4
  BY <1>5, KeysAre, Zenon
<1>6. CASE i = 5
  BY <1>6, KeysAre, Zenon
<1>7. CASE i = 6
  BY <1>7, KeysAre, Zenon
<1>8. CASE i = 7
  BY <1>8, KeysAre, Zenon
<1>9. CASE i = 8
  BY <1>9, KeysAre, Zenon
<1>10. CASE i = 9
  BY <1>10, KeysAre, Zenon
<1>11. CASE i = 10
  BY <1>11, KeysAre, Zenon
<1>12. CASE i = 11
  BY <1>12, KeysAre, Zenon
<1>13. CASE i = 12
  BY <1>13, KeysAre, Zenon
<1>14. CASE i = 13
  BY <1>14, KeysAre, Zenon
<1> QED BY <1>1, <1>2, <1>3, <1>4, <1>5, <1>6, <1>7, <1>8,
           <1>9, <1>10, <1>11, <1>12, <1>13, <1>14

LEMMA RowOfName ==
  ASSUME NEW i \in 1..13, NEW j \in 1..13, Keys[i].name = Keys[j].name PROVE i = j
  BY RowFields, Zenon

LEMMA Rows ==
  ASSUME NEW i \in 1..13
  PROVE  LET k == Keys[i].name
             h == Keys[i].check
         IN  /\ h \in {"value", "flag", "touched in main", "touched", "exists",
                       "exists if enabled"}
             /\ h = "flag" <=> k = "enable static"
             /\ h = "touched in main" <=> k = "log directory"
             /\ h = "touched" <=> k = "db directory"
             /\ h = "exists" <=> k \in {"certificate", "private key"}
             /\ h = "exists if enabled" <=> k \in {"static directory", "mime map"}
  BY RowFields, Zenon

LEMMA StaticRows ==
  /\ \A i \in 1..13 : Keys[i].check = "exists if enabled" => i \in {11, 13}
  /\ Keys[10].name = "enable static" /\ Keys[13].name = "mime map"
  BY RowFields, KeysAre, Zenon

LEMMA NamesAre ==
  /\ \A i \in 1..13 : Keys[i].name \in KeyName
  /\ \A k \in KeyName : \E i \in 1..13 : k = Keys[i].name
  /\ \A i \in 1..13 : Keys[i].name \in PathKey <=> Keys[i].check \in PathChecks
<1>1. DOMAIN Keys = 1..13
  BY KeysAre
<1>2. /\ \A i \in 1..13 : Keys[i].name \in KeyName
      /\ \A k \in KeyName : \E i \in 1..13 : k = Keys[i].name
  BY <1>1, Zenon DEF KeyName
<1>3. ASSUME NEW i \in 1..13 PROVE Keys[i].check \in PathChecks => Keys[i].name \in PathKey
  BY <1>1, Zenon DEF PathKey
<1>4. ASSUME NEW i \in 1..13, Keys[i].name \in PathKey PROVE Keys[i].check \in PathChecks
  <2>1. PICK j \in {k \in 1..13 : Keys[k].check \in PathChecks} : Keys[i].name = Keys[j].name
    BY <1>1, <1>4, Zenon DEF PathKey
  <2>2. j \in 1..13 /\ Keys[j].check \in PathChecks
    BY <2>1, Zenon
  <2>3. i = j
    BY <2>1, <2>2, RowOfName, Zenon
  <2> QED BY <2>2, <2>3, Zenon
<1> QED BY <1>2, <1>3, <1>4, Zenon

(* The invariant of the reading: the keys before the next one are taken as *)
(* they are meant, and sound; the others have their defaults.  Where the   *)
(* process is, and what it has seen, follows from its stage.               *)
Setting == [is : {"default", "good", "yes", "no", "path"}, place : Places]

KeySeen(k) ==
    /\ SoundKey(k)
    /\ k \in {"log directory", "db directory"} /\ given[k] # "missing" =>
         Meant(k).place \in there

Taken(k) == settings[k] = Meant(k) /\ KeySeen(k)

TakenSoFar ==
    \A i \in 1..13 :
        /\ i < nextKey => Taken(Keys[i].name)
        /\ i >= nextKey => settings[Keys[i].name] = Default(Keys[i].name)

StageSeen ==
    /\ stage \in {"launched", "config"} => nextKey = 1
    /\ stage \in {"keys", "map", "run"} => files.config = "good"
    /\ stage = "keys" => cwd = "conf"
    /\ stage \in {"map", "run"} => cwd = "main" /\ nextKey = 14
    /\ stage = "map" => given["enable static"] = "yes"
    /\ stage = "failed" => ~SoundConfig
    /\ stage = "run" =>
         /\ SoundMap
         /\ given["enable static"] = "yes" /\ given["mime map"] # "missing" =>
              mimeMap = Meant("mime map").place

ConfigInv == ConfigTypeOK /\ settings \in [KeyName -> Setting] /\ TakenSoFar /\ StageSeen

LEMMA HowManyKeys == Len(Keys) = 13
  BY KeysAre, Zenon

LEMMA NumberTyped ==
  ASSUME ConfigTypeOK PROVE nextKey \in 1..14
  BY HowManyKeys DEF ConfigTypeOK

(* The key that is taken next has a row of its own.                        *)
LEMMA RowNext ==
  ASSUME ConfigTypeOK, nextKey <= Len(Keys)
  PROVE  /\ nextKey \in 1..13 /\ Row = Keys[nextKey] /\ Row.name \in KeyName
         /\ Row.name \in PathKey <=> Row.check \in PathChecks
         /\ \A i \in 1..13 : i # nextKey => Keys[i].name # Row.name
<1>1. nextKey \in 1..13
  BY HowManyKeys, NumberTyped
<1> QED BY <1>1, NamesAre, RowOfName, Zenon DEF Row

(* What a directory that exists makes sound stays so when another is made. *)
LEMMA TakenStays ==
  ASSUME NEW k, Taken(k), UNCHANGED <<given, barred>>, there \subseteq there',
         settings'[k] = settings[k]
  PROVE  Taken(k)'
<1>1. Meant(k)' = Meant(k)
  BY DEF Meant, Default, Plainly, AtPlace, PlaceOf
<1>2. SoundKey(k)'
  BY <1>1 DEF Taken, KeySeen, SoundKey, CanBe
<1> QED BY <1>1, <1>2 DEF Taken, KeySeen

LEMMA PlaceTyped ==
  /\ \A d \in Directory \cup {"root"}, k \in KeyName : PlaceOf(d, k) \in Places
  /\ \A d \in Directory : PlaceOf(d, "default map") \in Places
  /\ \A v, k, d : k \in KeyName /\ d \in Directory => Absolute(v, k, d) \in Places
<1>1. /\ \A d \in Directory \cup {"root"}, k \in KeyName : PlaceOf(d, k) \in Places
      /\ \A d \in Directory : PlaceOf(d, "default map") \in Places
  BY DEF PlaceOf, Places
<1>2. ASSUME NEW v, NEW k \in KeyName, NEW d \in Directory PROVE Absolute(v, k, d) \in Places
  <2>1. (IF v = "absolute" THEN "root" ELSE d) \in Directory \cup {"root"}
    OBVIOUS
  <2> QED BY <1>1, <2>1, Zenon DEF Absolute
<1> QED BY <1>1, <1>2

LEMMA SettingMade ==
  /\ \A k \in KeyName : Default(k) \in Setting
  /\ \A v \in {"good", "yes", "no"} : Plainly(v) \in Setting
  /\ \A p \in Places : AtPlace(p) \in Setting
<1>1. \A k \in KeyName : Default(k) \in Setting
  <2>1. "launch" \in Directory \cup {"root"}
    BY DEF Directory
  <2> QED BY <2>1, PlaceTyped DEF Default, Setting
<1>2. \A v \in {"good", "yes", "no"} : Plainly(v) \in Setting
  <2>1. "launch" \in Directory
    BY DEF Directory
  <2> QED BY <2>1, PlaceTyped DEF Plainly, Setting
<1>3. \A p \in Places : AtPlace(p) \in Setting
  BY DEF AtPlace, Setting
<1> QED BY <1>1, <1>2, <1>3

LEMMA OneOn ==
  \A n \in 1..13 : \A m : m = n + 1 =>
     /\ m \in 1..14
     /\ \A i \in 1..13 : /\ i = n => i < m /\ ~(i >= m)
                         /\ i # n => (i < m => i < n) /\ (i >= m => i >= n)
  OBVIOUS

(* A key is taken as it is meant, and is sound.                            *)
AtKeys == stage = "keys" /\ nextKey <= Len(Keys)

LEMMA TakeKeeps ==
  ASSUME ConfigInv, AtKeys, NEW k, k = Row.name, Meant(k) \in Setting,
         NEW made, made \subseteq Places, Take(Meant(k), made, cwd), KeySeen(k)'
  PROVE  ConfigInv'
<1>1. /\ nextKey \in 1..13 /\ k = Keys[nextKey].name /\ k \in KeyName
      /\ \A i \in 1..13 : i # nextKey => Keys[i].name # k
  BY RowNext DEF ConfigInv, AtKeys
<1>2. /\ settings' = [settings EXCEPT ![k] = Meant(k)] /\ there' = there \cup made
      /\ cwd' = cwd /\ nextKey' = nextKey + 1
      /\ UNCHANGED <<given, files, barred, stage, mimeMap>>
  BY DEF Take
<1>n. nextKey \in 1..13 /\ nextKey' = nextKey + 1
  BY <1>1, <1>2
<1>m. Meant(k)' = Meant(k)
  BY <1>2 DEF Meant, Default, Plainly, AtPlace, PlaceOf
<1>3. settings \in [KeyName -> Setting]
  BY DEF ConfigInv
<1>4. settings' \in [KeyName -> Setting] /\ settings'[k] = Meant(k)
      /\ \A n \in KeyName : n # k => settings'[n] = settings[n]
  BY <1>1, <1>2, <1>3
<1>5. ConfigTypeOK'
  <2>0. nextKey' \in 1..14 /\ 1..Len(Keys) + 1 = 1..14
    <3>1. 1..Len(Keys) + 1 = 1..14
      BY ONLY HowManyKeys
    <3> QED BY <1>n, <3>1, OneOn, Zenon
  <2>1. nextKey' \in 1..Len(Keys) + 1
    BY <2>0, Zenon
  <2>2. \A n \in KeyName : settings'[n].place \in Places
                           /\ settings'[n].is \in {"default", "good", "yes", "no", "path"}
    BY <1>4 DEF Setting
  <2>3. ConfigTypeOK
    BY DEF ConfigInv
  <2>4. there' \subseteq Places
    BY <1>2, <2>3 DEF ConfigTypeOK
  <2> QED BY <1>2, <2>1, <2>2, <2>3, <2>4 DEF ConfigTypeOK
<1>6. TakenSoFar'
  <2> SUFFICES ASSUME NEW i \in 1..13
               PROVE  /\ i < nextKey' => Taken(Keys[i].name)'
                      /\ i >= nextKey' => settings'[Keys[i].name] = Default(Keys[i].name)
    BY DEF TakenSoFar
  <2> DEFINE n == Keys[i].name
  <2>1. n \in KeyName
    BY NamesAre, Zenon
  <2>2. CASE i = nextKey
    <3>1. Taken(k)'
      BY <1>2, <1>4, <1>m DEF Taken
    <3>2. n = k
      BY <1>1, <2>2
    <3>3. i < nextKey' /\ ~(i >= nextKey')
      BY <1>n, <2>2, OneOn, Zenon
    <3> QED BY <3>1, <3>2, <3>3, Zenon
  <2>3. CASE i # nextKey
    <3>1. settings'[n] = settings[n]
      BY <1>1, <1>4, <2>1, <2>3
    <3>2. i < nextKey' => i < nextKey
      BY <1>n, <2>3, OneOn, Zenon
    <3>3. i >= nextKey' => i >= nextKey
      BY <1>n, <2>3, OneOn, Zenon
    <3>4. i < nextKey => Taken(n)
      BY DEF ConfigInv, TakenSoFar
    <3>5. i >= nextKey => settings[n] = Default(n)
      BY DEF ConfigInv, TakenSoFar
    <3>6. Taken(n) => Taken(n)'
      BY <1>2, <3>1, TakenStays
    <3> QED BY <3>1, <3>2, <3>3, <3>4, <3>5, <3>6, Zenon
  <2> QED BY <2>2, <2>3
<1>7. StageSeen'
  BY <1>2 DEF ConfigInv, AtKeys, StageSeen
<1> QED BY <1>4, <1>5, <1>6, <1>7 DEF ConfigInv

(* The flag has been taken before the keys that look at it.                *)
LEMMA EnabledMeans ==
  ASSUME ConfigInv, nextKey \in 11..14
  PROVE  Enabled <=> given["enable static"] = "yes"
<1>1. Taken("enable static")
  <2>1. 10 \in 1..13 /\ 10 < nextKey
    OBVIOUS
  <2>2. Taken(Keys[10].name)
    BY <2>1, Zenon DEF ConfigInv, TakenSoFar
  <2> QED BY <2>2, StaticRows, Zenon
<1>2. "enable static" \notin PathKey
  <2>1. 10 \in 1..13
    OBVIOUS
  <2>2. Keys[10].check \notin PathChecks
    BY <2>1, StaticRows, Rows, Zenon DEF PathChecks
  <2> QED BY <2>1, <2>2, StaticRows, NamesAre, Zenon
<1>3. settings["enable static"] =
        IF given["enable static"] = "missing" THEN Default("enable static")
        ELSE Plainly(given["enable static"])
  BY <1>1, <1>2, Zenon DEF Taken, Meant
<1>4. Default("enable static").is = "default"
  BY DEF Default
<1>5. \A v : Plainly(v).is = v
  BY DEF Plainly
<1>6. CASE given["enable static"] = "missing"
  BY <1>3, <1>4, <1>6, Zenon DEF Enabled
<1>7. CASE given["enable static"] # "missing"
  BY <1>3, <1>5, <1>7, Zenon DEF Enabled
<1> QED BY <1>6, <1>7

(* The row that is next: its name and its check, and what they mean.       *)
LEMMA NextRow ==
  ASSUME ConfigInv, AtKeys, NEW k, k = Row.name, NEW h, h = Row.check
  PROVE  /\ nextKey \in 1..13 /\ k \in KeyName
         /\ k \in PathKey <=> h \in PathChecks
         /\ h \in {"value", "flag", "touched in main", "touched", "exists", "exists if enabled"}
         /\ h = "flag" <=> k = "enable static"
         /\ h = "touched in main" <=> k = "log directory"
         /\ h = "touched" <=> k = "db directory"
         /\ h = "exists" <=> k \in {"certificate", "private key"}
         /\ h = "exists if enabled" <=> k \in {"static directory", "mime map"}
         /\ h = "exists if enabled" => (Enabled <=> given["enable static"] = "yes")
         /\ cwd = "conf"
<1>1. /\ nextKey \in 1..13 /\ Row = Keys[nextKey] /\ k \in KeyName
      /\ k \in PathKey <=> h \in PathChecks
  BY RowNext, Zenon DEF ConfigInv, AtKeys
<1>2. k = Keys[nextKey].name /\ h = Keys[nextKey].check
  BY <1>1, Zenon
<1>3. /\ h \in {"value", "flag", "touched in main", "touched", "exists", "exists if enabled"}
      /\ h = "flag" <=> k = "enable static"
      /\ h = "touched in main" <=> k = "log directory"
      /\ h = "touched" <=> k = "db directory"
      /\ h = "exists" <=> k \in {"certificate", "private key"}
      /\ h = "exists if enabled" <=> k \in {"static directory", "mime map"}
  BY <1>1, <1>2, Rows, Zenon
<1>4. h = "exists if enabled" => nextKey \in {11, 13}
  BY <1>1, <1>2, StaticRows, Zenon
<1>5. {11, 13} \subseteq 11..14
  OBVIOUS
<1>6. h = "exists if enabled" => (Enabled <=> given["enable static"] = "yes")
  BY <1>4, <1>5, EnabledMeans, Zenon
<1>7. cwd = "conf"
  BY Zenon DEF ConfigInv, AtKeys, StageSeen
<1> QED BY <1>1, <1>3, <1>6, <1>7, Zenon

(* What an accepted key is set to, and what taking it makes.               *)
LEMMA TakenHow ==
  ASSUME ConfigInv, AtKeys, NEW k, k = Row.name, NEW h, h = Row.check, TakeAccepted
  PROVE  /\ h \in {"value", "flag"} => Take(Plainly(Value), {}, cwd)
         /\ h = "touched in main" =>
              Take(AtPlace(Absolute(Value, k, "main")), {Absolute(Value, k, "main")}, cwd)
         /\ h = "touched" => Take(AtPlace(Here), {Here}, cwd)
         /\ h \in {"exists", "exists if enabled"} => Take(AtPlace(Here), {}, cwd)
<1>1. Row.name \in PathKey <=> Row.check \in PathChecks
  BY RowNext, Zenon DEF ConfigInv, AtKeys
<1>2. AbsoluteIn.path = Absolute(Value, k, "main") /\ AbsoluteIn.back = cwd
  BY DEF AbsoluteIn
<1>3. h \in {"value", "flag"} => Take(Plainly(Value), {}, cwd)
  BY <1>1 DEF TakeAccepted, PathChecks
<1>4. h = "touched in main" => Take(AtPlace(AbsoluteIn.path), {AbsoluteIn.path}, AbsoluteIn.back)
  BY <1>1 DEF TakeAccepted, PathChecks
<1>5. h = "touched" => Take(AtPlace(Here), {Here}, cwd)
  BY <1>1 DEF TakeAccepted, PathChecks
<1>6. h \in {"exists", "exists if enabled"} => Take(AtPlace(Here), {}, cwd)
  BY <1>1 DEF TakeAccepted, PathChecks
<1> QED BY <1>2, <1>3, <1>4, <1>5, <1>6, Zenon

LEMMA AcceptedHow ==
  ASSUME NEW h, h = Row.check, Accepted
  PROVE  /\ h = "value" => Value = "good"
         /\ h = "flag" => Value \in {"yes", "no"}
         /\ h = "touched in main" => NonEmpty /\ CanBe(AbsoluteIn.path)
         /\ h = "touched" => NonEmpty /\ CanBe(Here)
         /\ h = "exists" => NonEmpty /\ Here \in there
         /\ h = "exists if enabled" => NonEmpty /\ (Enabled => Here \in there)
  BY DEF Accepted

LEMMA RefusedHow ==
  ASSUME NEW h, h = Row.check, ~Accepted
  PROVE  /\ h = "value" => Value # "good"
         /\ h = "flag" => Value \notin {"yes", "no"}
         /\ h = "touched in main" => ~(NonEmpty /\ CanBe(AbsoluteIn.path))
         /\ h = "touched" => ~(NonEmpty /\ CanBe(Here))
         /\ h = "exists" => ~(NonEmpty /\ Here \in there)
         /\ h = "exists if enabled" => ~(NonEmpty /\ (Enabled => Here \in there))
  BY DEF Accepted

(* What a path that is given means.                                        *)
LEMMA MeantPath ==
  ASSUME NEW k, k \in PathKey, given[k] # "missing"
  PROVE  /\ Meant(k) = AtPlace(Absolute(given[k], k, IF k = "log directory" THEN "main" ELSE "conf"))
         /\ Meant(k).place = Absolute(given[k], k, IF k = "log directory" THEN "main" ELSE "conf")
  BY DEF Meant, AtPlace, Absolute, PlaceOf

LEMMA MeantPlain ==
  ASSUME NEW k, k \notin PathKey, given[k] # "missing"
  PROVE  Meant(k) = Plainly(given[k])
  BY DEF Meant

LEMMA AcceptedKeeps ==
  ASSUME ConfigInv, AtKeys, NEW k, k = Row.name, given[k] # "missing", Accepted, TakeAccepted
  PROVE  ConfigInv'
<1> DEFINE h == Row.check
<1>1. /\ k \in KeyName /\ Value = given[k] /\ cwd = "conf"
      /\ k \in PathKey <=> h \in PathChecks
  BY NextRow, Zenon DEF Value
<1>2. \A d \in Directory : Absolute(Value, k, d) \in Places
  BY <1>1, PlaceTyped, Zenon
<1>3. "main" \in Directory /\ "conf" \in Directory
  BY DEF Directory
<1>4. Here = Absolute(Value, k, "conf") /\ Here \in Places
  BY <1>1, <1>2, <1>3, Zenon DEF Here
<1>5. CASE h \in {"value", "flag"}
  <2>1. Take(Plainly(Value), {}, cwd)
    BY <1>5, TakenHow, Zenon
  <2>2. /\ k \notin PathKey /\ k \notin {"log directory", "db directory"}
        /\ h = "flag" => k = "enable static"
        /\ h = "value" => k # "enable static"
    <3>1. h \notin PathChecks /\ h # "touched in main" /\ h # "touched"
      BY <1>5 DEF PathChecks
    <3>2. h = "value" => h # "flag"
      OBVIOUS
    <3>3. /\ h = "flag" <=> k = "enable static"
          /\ h = "touched in main" <=> k = "log directory"
          /\ h = "touched" <=> k = "db directory"
      BY NextRow, Zenon
    <3> QED BY <1>1, <3>1, <3>2, <3>3
  <2>3. Meant(k) = Plainly(Value)
    BY <1>1, <2>2, MeantPlain, Zenon
  <2>4. /\ h = "value" => Value = "good"
        /\ h = "flag" => Value \in {"yes", "no"}
    BY AcceptedHow, Zenon
  <2>5. Plainly(Value) \in Setting
    BY <1>5, <2>4, SettingMade
  <2>6. given' = given
    BY <2>1 DEF Take
  <2>7. KeySeen(k)'
    BY <1>1, <1>5, <2>2, <2>4, <2>6 DEF SoundKey, KeySeen
  <2>8. {} \subseteq Places
    OBVIOUS
  <2>9. Take(Meant(k), {}, cwd) /\ Meant(k) \in Setting
    BY <2>1, <2>3, <2>5, Zenon
  <2> QED BY <2>7, <2>8, <2>9, TakeKeeps, SMTT(60)
<1>6. CASE h = "touched in main"
  <2> DEFINE p == Absolute(Value, k, "main")
  <2>1. Take(AtPlace(p), {p}, cwd) /\ NonEmpty
    BY <1>6, TakenHow, AcceptedHow, Zenon
  <2>2. k = "log directory" /\ k \in PathKey
    <3>1. h \in PathChecks
      BY <1>6 DEF PathChecks
    <3> QED BY <1>6, <3>1, NextRow, Zenon
  <2>3. Meant(k) = AtPlace(p) /\ Meant(k).place = p
    BY <1>1, <2>2, MeantPath, Zenon
  <2>4. p \in Places /\ AtPlace(p) \in Setting /\ {p} \subseteq Places
    BY <1>2, <1>3, SettingMade
  <2>5. given' = given /\ p \in there'
    BY <2>1 DEF Take
  <2>6. SoundKey(k)' /\ Meant(k)' = Meant(k)
    <3>1. Meant(k)' = Meant(k)
      BY <2>5 DEF Meant, Default, Plainly, AtPlace, PlaceOf
    <3>2. CanBe(Meant(k).place)'
      BY <2>3, <2>5, <3>1, Zenon DEF CanBe
    <3>3. given[k]' \in {"relative", "absolute"}
      BY <1>1, <2>1, <2>5 DEF NonEmpty
    <3> QED BY <2>2, <3>1, <3>2, <3>3 DEF SoundKey
  <2> HIDE DEF p
  <2>7. Take(Meant(k), {p}, cwd) /\ Meant(k) \in Setting /\ Meant(k).place \in there'
    BY <2>1, <2>3, <2>4, <2>5, Zenon
  <2>8. KeySeen(k)'
    BY <2>6, <2>7, Zenon DEF KeySeen
  <2> QED BY <2>4, <2>7, <2>8, TakeKeeps, SMTT(60)
<1>7. CASE h = "touched"
  <2>1. Take(AtPlace(Here), {Here}, cwd) /\ NonEmpty
    BY <1>7, TakenHow, AcceptedHow, Zenon
  <2>2. k = "db directory" /\ k \in PathKey
    <3>1. h \in PathChecks
      BY <1>7 DEF PathChecks
    <3> QED BY <1>7, <3>1, NextRow, Zenon
  <2>3. Meant(k) = AtPlace(Here) /\ Meant(k).place = Here
    <3>1. k # "log directory"
      BY <2>2
    <3> QED BY <1>1, <1>4, <2>2, <3>1, MeantPath, Zenon
  <2>4. AtPlace(Here) \in Setting /\ {Here} \subseteq Places
    BY <1>4, SettingMade
  <2>5. given' = given /\ Here \in there'
    BY <2>1 DEF Take
  <2>6. SoundKey(k)' /\ Meant(k)' = Meant(k)
    <3>1. Meant(k)' = Meant(k)
      BY <2>5 DEF Meant, Default, Plainly, AtPlace, PlaceOf
    <3>2. CanBe(Meant(k).place)'
      BY <2>3, <2>5, <3>1, Zenon DEF CanBe
    <3>3. given[k]' \in {"relative", "absolute"}
      BY <1>1, <2>1, <2>5 DEF NonEmpty
    <3> QED BY <2>2, <3>1, <3>2, <3>3 DEF SoundKey
  <2>7. Take(Meant(k), {Here}, cwd) /\ Meant(k) \in Setting /\ Meant(k).place \in there'
    BY <2>1, <2>3, <2>4, <2>5, Zenon
  <2>8. KeySeen(k)'
    BY <2>6, <2>7, Zenon DEF KeySeen
  <2> QED BY <2>4, <2>7, <2>8, TakeKeeps, SMTT(60)
<1>8. CASE h \in {"exists", "exists if enabled"}
  <2>1. /\ Take(AtPlace(Here), {}, cwd) /\ NonEmpty
        /\ h = "exists" => Here \in there
        /\ h = "exists if enabled" =>
             k \in {"static directory", "mime map"}
             /\ (given["enable static"] = "yes" => Here \in there)
    BY <1>8, TakenHow, AcceptedHow, NextRow, Zenon
  <2>2. k \notin {"log directory", "db directory"} /\ k \in PathKey
    <3>1. h \in PathChecks /\ h # "touched in main" /\ h # "touched"
      BY <1>8 DEF PathChecks
    <3> QED BY <1>8, <3>1, NextRow, Zenon
  <2>3. Meant(k) = AtPlace(Here) /\ Meant(k).place = Here
    <3>1. k # "log directory"
      BY <2>2
    <3> QED BY <1>1, <1>4, <2>2, <3>1, MeantPath, Zenon
  <2>4. AtPlace(Here) \in Setting /\ {} \subseteq Places
    BY <1>4, SettingMade
  <2>5. given' = given /\ there \subseteq there'
    BY <2>1 DEF Take
  <2>6. Meant(k)' = Meant(k)
    BY <2>5 DEF Meant, Default, Plainly, AtPlace, PlaceOf
  <2>7. SoundKey(k)'
    <3>1. CASE h = "exists"
      BY <1>1, <2>1, <2>2, <2>3, <2>5, <2>6, <3>1 DEF SoundKey, NonEmpty
    <3>2. CASE h = "exists if enabled"
      BY <1>1, <2>1, <2>2, <2>3, <2>5, <2>6, <3>2 DEF SoundKey, NonEmpty
    <3> QED BY <1>8, <3>1, <3>2
  <2>8. Take(Meant(k), {}, cwd) /\ Meant(k) \in Setting
    BY <2>1, <2>3, <2>4, Zenon
  <2>9. KeySeen(k)'
    BY <2>2, <2>7, Zenon DEF KeySeen
  <2> QED BY <2>4, <2>8, <2>9, TakeKeeps, SMTT(60)
<1>9. h \in {"value", "flag", "touched in main", "touched", "exists", "exists if enabled"}
  BY NextRow, Zenon
<1> QED BY <1>5, <1>6, <1>7, <1>8, <1>9

LEMMA MissingKeeps ==
  ASSUME ConfigInv, AtKeys, NEW k, k = Row.name, given[k] = "missing",
         Take(settings[k], {}, cwd)
  PROVE  ConfigInv'
<1>1. nextKey \in 1..13 /\ Row = Keys[nextKey] /\ k \in KeyName
  BY NextRow, RowNext, Zenon DEF ConfigInv, AtKeys
<1>2. settings[k] = Default(k)
  <2>1. nextKey >= nextKey
    BY ONLY <1>1
  <2>2. settings[Keys[nextKey].name] = Default(Keys[nextKey].name)
    BY <1>1, <2>1, Zenon DEF ConfigInv, TakenSoFar
  <2> QED BY <1>1, <2>2, Zenon
<1>3. Meant(k) = Default(k) /\ Meant(k) \in Setting
  BY <1>1, SettingMade, Zenon DEF Meant
<1>4. Take(Meant(k), {}, cwd)
  BY <1>2, <1>3, Zenon
<1>5. given' = given
  BY DEF Take
<1>6. KeySeen(k)'
  BY <1>5, Zenon DEF KeySeen, SoundKey
<1>7. {} \subseteq Places
  OBVIOUS
<1> QED BY <1>3, <1>4, <1>6, <1>7, TakeKeeps, SMTT(60)

(* Nothing but kkmha.json and the files decides what is sound and meant.   *)
LEMMA SoundStays ==
  ASSUME UNCHANGED <<given, files, there, barred>>
  PROVE  /\ SoundConfig' <=> SoundConfig
         /\ SoundMap' <=> SoundMap
         /\ \A k : Meant(k)' = Meant(k)
         /\ \A k : KeySeen(k)' <=> KeySeen(k)
<1>1. \A k : Meant(k)' = Meant(k)
  BY DEF Meant, Default, Plainly, AtPlace, PlaceOf
<1>2. \A k : SoundKey(k)' <=> SoundKey(k)
  BY <1>1 DEF SoundKey, CanBe
<1>3. SoundMap' <=> SoundMap
  BY DEF SoundMap, PlaceOf
<1>4. SoundConfig' <=> SoundConfig
  BY <1>2, <1>3 DEF SoundConfig
<1>5. \A k : KeySeen(k)' <=> KeySeen(k)
  BY <1>1, <1>2 DEF KeySeen
<1> QED BY <1>1, <1>3, <1>4, <1>5

LEMMA SettingsStay ==
  ASSUME TakenSoFar, UNCHANGED <<given, files, there, barred, nextKey, settings>>
  PROVE  TakenSoFar'
<1>1. \A k : Taken(k) => Taken(k)'
  BY SoundStays DEF Taken
<1>2. \A k : Default(k)' = Default(k)
  BY DEF Default, PlaceOf
<1> QED BY <1>1, <1>2 DEF TakenSoFar

(* A process that fails has been given something that is not sound.        *)
LEMMA FailsKeeps ==
  ASSUME ConfigInv, Fails, ~SoundConfig PROVE ConfigInv'
<1>1. /\ stage' = "failed"
      /\ UNCHANGED <<given, files, there, barred, cwd, nextKey, settings, mimeMap>>
  BY DEF Fails
<1>2. ConfigTypeOK'
  BY <1>1 DEF ConfigInv, ConfigTypeOK
<1>3. TakenSoFar'
  BY <1>1, SettingsStay DEF ConfigInv
<1>4. StageSeen'
  <2>1. ~SoundConfig'
    BY <1>1, SoundStays
  <2> QED BY <1>1, <2>1 DEF StageSeen
<1> QED BY <1>1, <1>2, <1>3, <1>4 DEF ConfigInv

LEMMA RefusedUnsound ==
  ASSUME ConfigInv, AtKeys, NEW k, k = Row.name, given[k] # "missing", ~Accepted
  PROVE  ~SoundConfig
<1> DEFINE h == Row.check
<1>1. /\ k \in KeyName /\ Value = given[k] /\ cwd = "conf"
      /\ k \in PathKey <=> h \in PathChecks
  BY NextRow, Zenon DEF Value
<1>2. Here = Absolute(Value, k, "conf")
  BY <1>1, Zenon DEF Here
<1>3. CASE h \in {"value", "flag"}
  <2>1. k \notin PathKey
    BY <1>1, <1>3 DEF PathChecks
  <2>2. /\ h = "value" => Value # "good" /\ k # "enable static"
        /\ h = "flag" => Value \notin {"yes", "no"} /\ k = "enable static"
    <3>1. h = "value" => h # "flag"
      OBVIOUS
    <3> QED BY <3>1, NextRow, RefusedHow, Zenon
  <2>3. ~SoundKey(k)
    BY <1>1, <1>3, <2>1, <2>2, Zenon DEF SoundKey
  <2> QED BY <1>1, <2>3 DEF SoundConfig
<1>4. CASE h \in PathChecks
  <2>1. /\ k \in PathKey /\ k # "enable static"
        /\ h = "exists" => k \in {"certificate", "private key"}
        /\ h = "exists if enabled" => k \in {"static directory", "mime map"}
                                      /\ (Enabled <=> given["enable static"] = "yes")
        /\ h = "touched in main" <=> k = "log directory"
        /\ h = "touched" <=> k = "db directory"
    <3>1. h # "flag"
      BY <1>4 DEF PathChecks
    <3> QED BY <1>1, <1>4, <3>1, NextRow, Zenon
  <2>2. h \in {"exists", "exists if enabled"} => Meant(k).place = Here
    <3>1. h \in {"exists", "exists if enabled"} => k # "log directory"
      BY <2>1
    <3> QED BY <1>1, <1>2, <2>1, <3>1, MeantPath, Zenon
  <2>5. h = "touched in main" => Meant(k).place = AbsoluteIn.path
    <3>1. h = "touched in main" => Meant(k).place = Absolute(Value, k, "main")
      BY <1>1, <2>1, MeantPath, Zenon
    <3>2. AbsoluteIn.path = Absolute(Value, k, "main")
      BY DEF AbsoluteIn
    <3> QED BY <3>1, <3>2, Zenon
  <2>6. h = "touched" => Meant(k).place = Here
    <3>1. h = "touched" => k # "log directory"
      BY <2>1
    <3> QED BY <1>1, <1>2, <2>1, <3>1, MeantPath, Zenon
  <2>3. \/ ~NonEmpty
        \/ h = "touched in main" /\ ~CanBe(AbsoluteIn.path)
        \/ h = "touched" /\ ~CanBe(Here)
        \/ h = "exists" /\ Here \notin there
        \/ h = "exists if enabled" /\ Enabled /\ Here \notin there
    BY <1>4, RefusedHow, Zenon DEF PathChecks
  <2>7. ~CanBe(Meant(k).place) => Meant(k).place \notin there
    BY Zenon DEF CanBe
  <2>4. ~SoundKey(k)
    <3>1. CASE ~NonEmpty
      BY <1>1, <2>1, <3>1, Zenon DEF SoundKey, NonEmpty
    <3>2. CASE h = "exists" /\ Here \notin there
      <4>1. k \notin {"log directory", "db directory"}
        BY <2>1, <3>2
      <4>2. k \notin {"static directory", "mime map"}
        BY <2>1, <3>2
      <4>3. Meant(k).place \notin there
        BY <2>2, <3>2
      <4> QED BY <1>1, <2>1, <4>1, <4>2, <4>3, Zenon DEF SoundKey
    <3>3. CASE h = "exists if enabled" /\ Enabled /\ Here \notin there
      <4>1. k \notin {"log directory", "db directory"} /\ given["enable static"] = "yes"
        BY <2>1, <3>3
      <4>2. Meant(k).place \notin there
        BY <2>2, <3>3
      <4> QED BY <1>1, <2>1, <4>1, <4>2, Zenon DEF SoundKey
    <3>4. CASE h = "touched in main" /\ ~CanBe(AbsoluteIn.path)
      <4>1. k = "log directory" /\ ~CanBe(Meant(k).place)
        BY <2>1, <2>5, <3>4, Zenon
      <4> QED BY <2>7, <1>1, <2>1, <4>1, Zenon DEF SoundKey
    <3>5. CASE h = "touched" /\ ~CanBe(Here)
      <4>1. k = "db directory" /\ ~CanBe(Meant(k).place)
        BY <2>1, <2>6, <3>5, Zenon
      <4> QED BY <2>7, <1>1, <2>1, <4>1, Zenon DEF SoundKey
    <3> QED BY <2>3, <3>1, <3>2, <3>3, <3>4, <3>5
  <2> QED BY <1>1, <2>4 DEF SoundConfig
<1>5. h \in {"value", "flag", "touched in main", "touched", "exists", "exists if enabled"}
  BY NextRow, Zenon
<1>6. h \in {"value", "flag"} \/ h \in PathChecks
  BY <1>5 DEF PathChecks
<1> QED BY <1>3, <1>4, <1>6

LEMMA TakeSettingKeeps ==
  ASSUME ConfigInv, TakeSetting PROVE ConfigInv'
<1>1. AtKeys
  BY DEF TakeSetting, AtKeys
<1>2. ASSUME NEW k, k = Row.name PROVE ConfigInv'
  <2>1. Value = given[k]
    BY <1>2, Zenon DEF Value
  <2>2. CASE Value = "missing" /\ Take(settings[Row.name], {}, cwd)
    BY <1>1, <1>2, <2>1, <2>2, MissingKeeps, Zenon
  <2>3. CASE Value # "missing" /\ Accepted /\ TakeAccepted
    BY <1>1, <1>2, <2>1, <2>3, AcceptedKeeps, Zenon
  <2>4. CASE Value # "missing" /\ ~Accepted /\ Fails
    BY <1>1, <1>2, <2>1, <2>4, RefusedUnsound, FailsKeeps, Zenon
  <2> QED BY <2>2, <2>3, <2>4, Zenon DEF TakeSetting
<1> QED BY <1>2, Zenon

(* A step that takes no key.                                               *)
LEMMA StageKeeps ==
  ASSUME ConfigInv, UNCHANGED <<given, files, there, barred, nextKey, settings>>,
         cwd' \in Directory, mimeMap' \in Places,
         stage' \in {"launched", "config", "keys", "map", "run", "failed"}, StageSeen'
  PROVE  ConfigInv'
<1>1. ConfigTypeOK'
  BY DEF ConfigInv, ConfigTypeOK
<1>2. TakenSoFar'
  BY SettingsStay DEF ConfigInv
<1> QED BY <1>1, <1>2 DEF ConfigInv

LEMMA SetBaseVarsKeeps ==
  ASSUME ConfigInv, SetBaseVars PROVE ConfigInv'
<1>1. /\ stage = "launched" /\ cwd' = "main" /\ stage' = "config"
      /\ UNCHANGED <<given, files, there, barred, nextKey, settings, mimeMap>>
  BY DEF SetBaseVars
<1>2. StageSeen'
  BY <1>1 DEF ConfigInv, StageSeen
<1>3. mimeMap' \in Places /\ cwd' \in Directory
  BY <1>1 DEF ConfigInv, ConfigTypeOK, Directory
<1> QED BY <1>1, <1>2, <1>3, StageKeeps

LEMMA ReadConfigKeeps ==
  ASSUME ConfigInv, ReadConfig PROVE ConfigInv'
<1>1. CASE files.config # "good"
  <2>1. ~SoundConfig
    BY <1>1 DEF SoundConfig
  <2>2. CASE Fails
    BY <2>1, <2>2, FailsKeeps
  <2>3. CASE ~Fails
    <3>1. /\ cwd' = "conf" /\ stage' = "failed"
          /\ UNCHANGED <<given, files, there, barred, nextKey, settings, mimeMap>>
      BY <1>1, <2>3 DEF ReadConfig
    <3>2. ~SoundConfig'
      BY <2>1, <3>1, SoundStays
    <3>3. StageSeen'
      BY <3>1, <3>2 DEF StageSeen
    <3>4. mimeMap' \in Places /\ cwd' \in Directory
      BY <3>1 DEF ConfigInv, ConfigTypeOK, Directory
    <3> QED BY <3>1, <3>3, <3>4, StageKeeps
  <2> QED BY <2>2, <2>3
<1>2. CASE files.config = "good"
  <2>1. /\ stage = "config" /\ cwd' = "conf" /\ stage' = "keys"
        /\ UNCHANGED <<given, files, there, barred, nextKey, settings, mimeMap>>
    BY <1>2 DEF ReadConfig
  <2>2. StageSeen'
    BY <1>2, <2>1 DEF StageSeen
  <2>3. mimeMap' \in Places /\ cwd' \in Directory
    BY <2>1 DEF ConfigInv, ConfigTypeOK, Directory
  <2> QED BY <2>1, <2>2, <2>3, StageKeeps
<1> QED BY <1>1, <1>2

LEMMA EndOfConfigKeeps ==
  ASSUME ConfigInv, EndOfConfig PROVE ConfigInv'
<1>1. /\ stage = "keys" /\ nextKey > Len(Keys) /\ cwd' = "main"
      /\ stage' = IF Enabled THEN "map" ELSE "run"
      /\ UNCHANGED <<given, files, there, barred, nextKey, settings, mimeMap>>
  BY DEF EndOfConfig
<1>2. nextKey = 14
  <2>1. nextKey > Len(Keys) /\ nextKey \in 1..14
    BY <1>1, NumberTyped DEF ConfigInv
  <2> QED BY ONLY <2>1, HowManyKeys
<1>3. Enabled <=> given["enable static"] = "yes"
  <2>1. nextKey \in 11..14
    BY ONLY <1>2
  <2> QED BY <2>1, EnabledMeans, Zenon
<1>4. files'.config = "good" /\ nextKey' = 14
  BY <1>1, <1>2 DEF ConfigInv, StageSeen
<1>5. given["enable static"] # "yes" => SoundMap'
  BY <1>1 DEF SoundMap
<1>6. StageSeen'
  <2>1. CASE Enabled
    BY <1>1, <1>3, <1>4, <2>1 DEF StageSeen
  <2>2. CASE ~Enabled
    BY <1>1, <1>3, <1>4, <1>5, <2>2 DEF StageSeen
  <2> QED BY <2>1, <2>2
<1>7. mimeMap' \in Places /\ cwd' \in Directory
  BY <1>1 DEF ConfigInv, ConfigTypeOK, Directory
<1>8. stage' \in {"launched", "config", "keys", "map", "run", "failed"}
  BY <1>1
<1> QED BY <1>1, <1>6, <1>7, <1>8, StageKeeps

(* The map is the default one, looked for in two places, or the one that   *)
(* is given, which has been looked at.                                     *)
LEMMA MapMeans ==
  ASSUME ConfigInv, nextKey = 14, given["enable static"] = "yes"
  PROVE  /\ given["mime map"] = "missing" =>
              \A d \in Directory : MapPath(d) = PlaceOf(d, "default map")
         /\ given["mime map"] # "missing" =>
              \A d \in Directory : /\ MapPath(d) = Meant("mime map").place
                                   /\ MapPath(d) \in there
         /\ \A d \in Directory : MapPath(d) \in Places
<1>1. Taken("mime map")
  <2>1. 13 \in 1..13 /\ 13 < nextKey
    BY ONLY nextKey = 14
  <2>2. Taken(Keys[13].name)
    BY <2>1, Zenon DEF ConfigInv, TakenSoFar
  <2> QED BY <2>2, StaticRows, Zenon
<1>2. "mime map" \in PathKey /\ "mime map" \in KeyName
  <2>1. 13 \in 1..13
    BY ONLY KeyNumbers
  <2>2. Keys[13].check \in PathChecks
    <3>1. Keys[13].check = "exists if enabled"
      BY <2>1, Rows, StaticRows, Zenon
    <3> QED BY <3>1 DEF PathChecks
  <2> QED BY <2>1, <2>2, StaticRows, NamesAre, Zenon
<1>3. settings["mime map"] = Meant("mime map") /\ settings["mime map"].place \in Places
  BY <1>1, <1>2 DEF Taken, ConfigInv, ConfigTypeOK
<1>4. CASE given["mime map"] = "missing"
  <2>1. settings["mime map"].is = "default"
    <3>1. settings["mime map"] = Default("mime map")
      BY <1>3, <1>4, Zenon DEF Meant
    <3>2. Default("mime map").is = "default"
      BY ONLY DEF Default
    <3> QED BY <3>1, <3>2, Zenon
  <2> QED BY <1>4, <2>1, PlaceTyped DEF MapPath
<1>5. CASE given["mime map"] # "missing"
  <2>1. Meant("mime map").is = "path"
    BY <1>2, <1>5 DEF Meant, AtPlace
  <2>2. settings["mime map"].is # "default"
    BY <1>3, <2>1
  <2>3. \A d \in Directory : MapPath(d) = Meant("mime map").place
    BY <1>3, <2>2 DEF MapPath
  <2>4. Meant("mime map").place \in there
    <3>1. SoundKey("mime map")
      BY <1>1, Zenon DEF Taken, KeySeen
    <3> QED BY <1>2, <1>5, <3>1 DEF SoundKey
  <2> QED BY <1>3, <1>5, <2>3, <2>4
<1> QED BY <1>4, <1>5

LEMMA ReadMimeMapKeeps ==
  ASSUME ConfigInv, ReadMimeMap PROVE ConfigInv'
<1>1. stage = "map"
  BY DEF ReadMimeMap
<1>2. nextKey = 14 /\ cwd = "main" /\ given["enable static"] = "yes" /\ files.config = "good"
  BY <1>1 DEF ConfigInv, StageSeen
<1>3. "main" \in Directory /\ "conf" \in Directory
  BY DEF Directory
<1>4. /\ given["mime map"] = "missing" => MapPath("main") = PlaceOf("main", "default map")
                                         /\ MapPath("conf") = PlaceOf("conf", "default map")
      /\ given["mime map"] # "missing" => /\ MapPath("main") \in there
                                          /\ MapPath("conf") \in there
                                          /\ MapPath("conf") = Meant("mime map").place
      /\ MapPath("conf") \in Places
  BY <1>2, <1>3, MapMeans, Zenon
<1>5. CASE MapPath("main") \notin there
  <2>1. given["mime map"] = "missing" /\ PlaceOf("main", "default map") \notin there
    BY <1>4, <1>5, Zenon
  <2>2. ~SoundConfig
    BY <1>2, <2>1 DEF SoundConfig, SoundMap
  <2>3. Fails
    BY <1>2, <1>5, Zenon DEF ReadMimeMap
  <2> QED BY <2>2, <2>3, FailsKeeps
<1>6. CASE MapPath("main") \in there
  <2>1. /\ IF MapPath("conf") \in there /\ files.map = "good"
           THEN cwd' = "main" /\ stage' = "run" /\ mimeMap' = MapPath("conf")
           ELSE cwd' = "conf" /\ stage' = "failed" /\ UNCHANGED mimeMap
        /\ UNCHANGED <<given, files, there, barred, nextKey, settings>>
    BY <1>2, <1>6, Zenon DEF ReadMimeMap
  <2>2. CASE MapPath("conf") \in there /\ files.map = "good"
    <3>1. cwd' = "main" /\ stage' = "run" /\ mimeMap' = MapPath("conf")
          /\ UNCHANGED <<given, files, there, barred, nextKey, settings>>
      BY <2>1, <2>2
    <3>2. SoundMap
      BY <1>4, <1>6, <2>2 DEF SoundMap
    <3>3. SoundMap' /\ Meant("mime map")' = Meant("mime map")
      BY <3>1, <3>2, SoundStays
    <3>4. given["mime map"] # "missing" => mimeMap' = Meant("mime map")'.place
      BY <1>4, <3>1, <3>3
    <3>5. given' = given /\ files'.config = "good" /\ nextKey' = 14
      BY <1>2, <3>1
    <3>6. StageSeen'
      BY <3>1, <3>3, <3>4, <3>5 DEF StageSeen
    <3>7. mimeMap' \in Places /\ cwd' \in Directory
      BY <1>3, <1>4, <3>1
    <3>8. stage' \in {"launched", "config", "keys", "map", "run", "failed"}
      BY <3>1
    <3> QED BY <3>1, <3>6, <3>7, <3>8, StageKeeps
  <2>3. CASE ~(MapPath("conf") \in there /\ files.map = "good")
    <3>1. cwd' = "conf" /\ stage' = "failed"
          /\ UNCHANGED <<given, files, there, barred, nextKey, settings, mimeMap>>
      BY <2>1, <2>3
    <3>2. ~SoundConfig
      <4>1. CASE files.map # "good"
        BY <1>2, <4>1 DEF SoundConfig, SoundMap
      <4>2. CASE MapPath("conf") \notin there
        <5>1. given["mime map"] = "missing" /\ PlaceOf("conf", "default map") \notin there
          BY <1>4, <4>2, Zenon
        <5> QED BY <1>2, <5>1 DEF SoundConfig, SoundMap
      <4> QED BY <2>3, <4>1, <4>2
    <3>3. ~SoundConfig'
      BY <3>1, <3>2, SoundStays
    <3>4. StageSeen'
      BY <3>1, <3>3 DEF StageSeen
    <3>5. mimeMap' \in Places /\ cwd' \in Directory
      BY <1>3, <3>1 DEF ConfigInv, ConfigTypeOK
    <3> QED BY <3>1, <3>4, <3>5, StageKeeps
  <2> QED BY <2>2, <2>3
<1> QED BY <1>5, <1>6

LEMMA ConfigBegins == Init => ConfigInv
<1> SUFFICES ASSUME Init PROVE ConfigInv
  OBVIOUS
<1>1. PICK g \in [KeyName -> Given], t \in SUBSET Places, b \in SUBSET Places,
          f \in [config : {"none", "broken", "good"}, map : {"broken", "good"}] : Settle(g, f, t, b)
  BY DEF Init
<1>2. /\ given = g /\ files = f /\ there = t /\ barred = b /\ cwd = "launch" /\ stage = "launched"
      /\ nextKey = 1 /\ settings = [k \in KeyName |-> Default(k)] /\ mimeMap = Nowhere
  BY <1>1 DEF Settle
<1>3. settings \in [KeyName -> Setting]
  BY <1>2, SettingMade
<1>4. Nowhere \in Places
  BY PlaceTyped DEF Nowhere, Directory
<1>5. nextKey \in 1..Len(Keys) + 1
  BY ONLY <1>2, HowManyKeys
<1>6. ConfigTypeOK
  BY <1>1, <1>2, <1>3, <1>4, <1>5 DEF ConfigTypeOK, Directory, Setting
<1>7. TakenSoFar
  <2> SUFFICES ASSUME NEW i \in 1..13
               PROVE  /\ ~(i < nextKey)
                      /\ settings[Keys[i].name] = Default(Keys[i].name)
    BY DEF TakenSoFar
  <2>1. ~(i < nextKey)
    BY <1>2
  <2>2. Keys[i].name \in KeyName
    BY NamesAre, Zenon
  <2> QED BY <1>2, <2>1, <2>2
<1>8. StageSeen
  BY <1>2 DEF StageSeen
<1> QED BY <1>3, <1>6, <1>7, <1>8 DEF ConfigInv

LEMMA ConfigKeeps == ConfigInv /\ [Next]_vars => ConfigInv'
<1> SUFFICES ASSUME ConfigInv, [Next]_vars PROVE ConfigInv'
  OBVIOUS
<1>1. CASE UNCHANGED configVars
  <2>1. UNCHANGED <<given, files, there, barred, cwd, stage, nextKey, settings, mimeMap>>
    BY <1>1 DEF configVars
  <2>2. StageSeen'
    BY <2>1, SoundStays DEF ConfigInv, StageSeen
  <2> QED BY <2>1, <2>2, StageKeeps DEF ConfigInv, ConfigTypeOK
<1>2. CASE ConfigNext
  BY <1>2, SetBaseVarsKeeps, ReadConfigKeeps, TakeSettingKeeps, EndOfConfigKeeps,
     ReadMimeMapKeeps DEF ConfigNext
<1> QED BY <1>1, <1>2 DEF Next, Reading, Dispatched, vars

(* A process that goes on to its command has every setting of kkmha.json   *)
(* as it is written there, what has to exist looked at where it is, and is *)
(* in its own directory again; one that does not go on has been given      *)
(* something wrong, or a directory that is not there and cannot be made:   *)
(* whatever the file says, and whichever files exist or can be made.       *)
THEOREM SettingsAsWrittenHolds == Spec => []SettingsAsWritten
<1>1. ConfigInv => SettingsAsWritten
  <2> SUFFICES ASSUME ConfigInv PROVE SettingsAsWritten
    OBVIOUS
  <2>1. stage = "failed" => ~SoundConfig
    BY DEF ConfigInv, StageSeen
  <2>2. ASSUME stage = "run", NEW k \in KeyName PROVE Taken(k)
    <3>1. PICK i \in 1..13 : k = Keys[i].name
      BY NamesAre, Zenon
    <3>2. nextKey = 14
      BY <2>2 DEF ConfigInv, StageSeen
    <3>3. i < nextKey
      BY ONLY <3>2, i \in 1..13
    <3>4. Taken(Keys[i].name)
      BY <3>3, Zenon DEF ConfigInv, TakenSoFar
    <3> QED BY <3>1, <3>4, Zenon
  <2>3. "log directory" \in KeyName /\ "db directory" \in KeyName
    <3>1. 2 \in 1..13 /\ 4 \in 1..13
      OBVIOUS
    <3>2. Keys[2].name = "log directory" /\ Keys[4].name = "db directory"
      BY KeysAre, Zenon
    <3> QED BY <3>1, <3>2, NamesAre, Zenon
  <2>4. ASSUME stage = "run"
        PROVE  /\ files.config = "good" /\ cwd = "main" /\ SoundMap
               /\ given["enable static"] = "yes" /\ given["mime map"] # "missing" =>
                    mimeMap = Meant("mime map").place
    BY <2>4 DEF ConfigInv, StageSeen
  <2>5. ASSUME stage = "run"
        PROVE  /\ SoundConfig
               /\ \A k \in KeyName : settings[k] = Meant(k)
               /\ \A k \in {"log directory", "db directory"} :
                     given[k] # "missing" => Meant(k).place \in there
    <3>1. \A k \in KeyName : Taken(k)
      BY <2>2, <2>5
    <3> QED BY <2>3, <2>4, <2>5, <3>1, Zenon DEF Taken, KeySeen, SoundConfig
  <2> QED BY <2>1, <2>4, <2>5 DEF SettingsAsWritten
<1> QED BY <1>1, ConfigBegins, ConfigKeeps, PTL DEF Spec

(* Every variable keeps its type, in the reading and in the commands.      *)
THEOREM TypesHold == Spec => []TypeOK
<1>1. Init => ConfigInv /\ ControlInv
  BY ConfigBegins, ControlBegins DEF Init
<1>2. ConfigInv /\ ControlInv /\ [Next]_vars => (ConfigInv /\ ControlInv)'
  BY ConfigKeeps, ControlNext
<1>3. ConfigInv /\ ControlInv => TypeOK
  BY DEF ConfigInv, ControlInv, TypeOK
<1> QED BY <1>1, <1>2, <1>3, PTL DEF Spec

-----------------------------------------------------------------------------
(* What CommandsEnd rests on besides fairness: a command goes from place   *)
(* to place and never back, and where it waits its patience is bounded.    *)

\* How many places a command at most has still before it.
PlacesLeft(p) ==
    CASE p = "idle" -> 11
      [] p = "open" -> 10
      [] p = "stop" -> 9
      [] p = "control" -> 8
      [] p = "answer" -> 7
      [] p = "await-stopped" -> 6
      [] p = "start" -> 5
      [] p = "await-old" -> 4
      [] p = "launch" -> 3
      [] p = "launching" -> 2
      [] p \in {"await-started", "delete"} -> 1
      [] p \in Ended -> 0

\* A command stays where it is only while it is idle, waits, or others move.
CommandsAdvance ==
    [][\A c \in Controller :
         \/ ctl'[c] = ctl[c]
         \/ ctl'[c].pc = ctl[c].pc /\ ctl[c].pc \in Awaiting
         \/ PlacesLeft(ctl'[c].pc) < PlacesLeft(ctl[c].pc)]_vars

\* Since it began to wait, or last saw the service get on, no more than
\* c_controlTimeout has passed, and what a poll comes late.
PatienceEnds ==
    \A c \in Controller :
        ctl[c].pc \in Awaiting => Elapsed(ctl[c].ticks) < ControlTimeout + ctl[c].slept

LEMMA PlacesAre ==
  /\ PlacesLeft("idle") = 11 /\ PlacesLeft("open") = 10 /\ PlacesLeft("stop") = 9
  /\ PlacesLeft("control") = 8 /\ PlacesLeft("answer") = 7
  /\ PlacesLeft("await-stopped") = 6 /\ PlacesLeft("start") = 5
  /\ PlacesLeft("await-old") = 4 /\ PlacesLeft("launch") = 3
  /\ PlacesLeft("launching") = 2
  /\ PlacesLeft("await-started") = 1 /\ PlacesLeft("delete") = 1
  /\ PlacesLeft("ok") = 0 /\ PlacesLeft("failed") = 0
  BY DEF PlacesLeft, Ended

\* The ways a command moves: on to a place where it does not wait, ...
GoesOn(c) ==
    /\ ctl'[c].pc \notin Awaiting
    /\ PlacesLeft(ctl'[c].pc) < PlacesLeft(ctl[c].pc)

\* ... to one where it does, ...
BeginsToWait(c) ==
    /\ ctl'[c].ticks = clock /\ ctl'[c].slept = 0
    /\ PlacesLeft(ctl'[c].pc) < PlacesLeft(ctl[c].pc)

\* ... or to its next sleep.
WaitsOn(c) ==
    /\ ctl[c].pc \in Awaiting /\ ctl'[c].pc = ctl[c].pc /\ ctl'[c].slept = 0
    /\ \/ ctl'[c].ticks = clock
       \/ ctl'[c].ticks = ctl[c].ticks /\ ~(Elapsed(ctl[c].ticks) > status.hint)

LEMMA SetGoesOn ==
  ASSUME ControlTypeOK, NEW c \in Controller, NEW p \in Place \ Awaiting, Set(c, p),
         PlacesLeft(p) < PlacesLeft(ctl[c].pc)
  PROVE  GoesOn(c) /\ \A d \in Controller : d # c => ctl'[d] = ctl[d]
<1>1. ctl'[c].pc = p /\ \A d \in Controller : d # c => ctl'[d] = ctl[d]
  BY ControlTyped, ProcessSet
<1> QED BY <1>1 DEF GoesOn

LEMMA AwaitBegins ==
  ASSUME ControlTypeOK, NEW c \in Controller, NEW p \in Awaiting, Await(c, p),
         PlacesLeft(p) < PlacesLeft(ctl[c].pc)
  PROVE  BeginsToWait(c) /\ \A d \in Controller : d # c => ctl'[d] = ctl[d]
<1>1. ctl \in [Controller -> Process]
  BY ControlTyped
<1>2. ctl' = [ctl EXCEPT ![c] = [ctl[c] EXCEPT !.pc = p, !.from = clock, !.ticks = clock,
                                 !.checkPoint = status.checkPoint, !.slept = 0]]
  BY DEF Await
<1>3. ctl'[c] = [ctl[c] EXCEPT !.pc = p, !.from = clock, !.ticks = clock,
                               !.checkPoint = status.checkPoint, !.slept = 0]
  BY <1>1, <1>2
<1>4. ctl[c] \in Process
  BY <1>1
<1>5. ctl'[c].pc = p /\ ctl'[c].ticks = clock /\ ctl'[c].slept = 0
  BY <1>3, <1>4 DEF Process
<1>6. \A d \in Controller : d # c => ctl'[d] = ctl[d]
  BY <1>1, <1>2
<1> QED BY <1>5, <1>6 DEF BeginsToWait

LEMMA PollMoves ==
  ASSUME ControlInv, NEW c \in Controller, Poll(c)
  PROVE  /\ GoesOn(c) \/ WaitsOn(c)
         /\ \A d \in Controller : d # c => ctl'[d] = ctl[d]
<1>1. ControlTypeOK /\ ctl[c].pc \in Awaiting
  BY DEF ControlInv, Poll
<1>2. CASE status.state = Awaited(c) /\ ~RunsOut(c)
  <2>1. ctl' = [ctl EXCEPT ![c] = [ctl[c] EXCEPT !.slept = 0,
                  !.ticks = IF Progress(c) THEN clock ELSE ctl[c].ticks,
                  !.checkPoint = IF Progress(c) THEN status.checkPoint ELSE ctl[c].checkPoint]]
    BY <1>2 DEF Poll
  <2>2. ctl \in [Controller -> Process] /\ ctl[c] \in Process
    BY <1>1, ControlTyped
  <2>3. /\ ctl'[c].pc = ctl[c].pc /\ ctl'[c].slept = 0
        /\ ctl'[c].ticks = IF Progress(c) THEN clock ELSE ctl[c].ticks
        /\ \A d \in Controller : d # c => ctl'[d] = ctl[d]
    BY <2>1, <2>2 DEF Process
  <2>4. Progress(c) \/ ~(Elapsed(ctl[c].ticks) > status.hint)
    BY <1>2 DEF RunsOut
  <2> QED BY <1>1, <2>3, <2>4 DEF WaitsOn
<1>3. CASE ~(status.state = Awaited(c) /\ ~RunsOut(c))
  <2>1. Set(c, AfterAwaiting(c))
    BY <1>3 DEF Poll
  <2>2. /\ ctl[c].pc = "await-stopped" => AfterAwaiting(c) \in {"failed", "ok", "start", "delete"}
        /\ ctl[c].pc = "await-old" => AfterAwaiting(c) \in {"failed", "launch", "ok"}
        /\ ctl[c].pc = "await-started" => AfterAwaiting(c) \in {"failed", "ok"}
    <3>1. ctl[c].pc = "await-stopped" => AfterStop(c) \in {"ok", "start", "delete"}
      BY CommandTyped
    <3> QED BY <1>1, <3>1 DEF AfterAwaiting, AfterOld, AfterStart
  <2>3. /\ AfterAwaiting(c) \in Place \ Awaiting
        /\ PlacesLeft(AfterAwaiting(c)) < PlacesLeft(ctl[c].pc)
    BY <1>1, <2>2, PlacesAre DEF Awaiting, Place
  <2> QED BY <1>1, <2>1, <2>3, SetGoesOn
<1> QED BY <1>2, <1>3

LEMMA CommandMoves ==
  ASSUME ControlInv, NEW c \in Controller, Launched(c) \/ ControllerStep(c) \/ ManagerFails(c)
  PROVE  /\ GoesOn(c) \/ BeginsToWait(c) \/ WaitsOn(c)
         /\ \A d \in Controller : d # c => ctl'[d] = ctl[d]
         /\ clock' = clock
<1> DEFINE Moves == /\ GoesOn(c) \/ BeginsToWait(c) \/ WaitsOn(c)
                    /\ \A d \in Controller : d # c => ctl'[d] = ctl[d]
<1>0. ControlTypeOK /\ ctl[c].pc \in Place
  <2>1. ControlTypeOK
    BY DEF ControlInv
  <2> QED BY <2>1, ControlTyped DEF Process
<1>1. ASSUME NEW p \in Place \ Awaiting, Set(c, p), PlacesLeft(p) < PlacesLeft(ctl[c].pc)
      PROVE  Moves
  BY <1>0, <1>1, SetGoesOn
<1>2. ASSUME NEW p \in Awaiting, Await(c, p), PlacesLeft(p) < PlacesLeft(ctl[c].pc)
      PROVE  Moves
  BY <1>0, <1>2, AwaitBegins
<1>p. /\ {"open", "ok", "failed", "start", "delete", "launch", "launching", "control", "stop",
           "answer"} \subseteq Place \ Awaiting
      /\ {"await-stopped", "await-old", "await-started"} = Awaiting
  BY DEF Place, Awaiting
<1> HIDE DEF Moves
<1>3. ASSUME Launched(c) PROVE Moves
  <2>1. Set(c, "open") /\ ctl[c].pc = "idle"
    BY <1>3 DEF Launched
  <2> QED BY <1>1, <1>p, <2>1, PlacesAre
<1>4. ASSUME Open(c) PROVE Moves
  <2>1. ctl[c].pc = "open" /\ \E p \in {"start", "stop", "ok", "failed"} : Set(c, p)
    BY <1>4 DEF Open
  <2> QED BY <1>1, <1>p, <2>1, PlacesAre
<1>5. ASSUME QueryBeforeStop(c) PROVE Moves
  <2>1. AfterStop(c) \in {"ok", "start", "delete"} /\ ctl[c].pc = "stop"
    BY <1>5, CommandTyped DEF QueryBeforeStop
  <2>2. \/ Await(c, "await-stopped")
        \/ \E p \in {"ok", "start", "delete", "control"} : Set(c, p)
    BY <1>5, <2>1 DEF QueryBeforeStop, Proceed
  <2> QED BY <1>1, <1>2, <1>p, <2>1, <2>2, PlacesAre
<1>6. ASSUME SendStop(c) PROVE Moves
  <2>1. ctl[c].pc = "control" /\ \E p \in {"answer", "failed"} : Set(c, p)
    BY <1>6 DEF SendStop
  <2> QED BY <1>1, <1>p, <2>1, PlacesAre
<1>7. ASSUME StopSent(c) PROVE Moves
  <2>1. ctl[c].pc = "answer" /\ (Await(c, "await-stopped") \/ Set(c, "failed"))
    BY <1>7 DEF StopSent, Proceed
  <2> QED BY <1>1, <1>2, <1>p, <2>1, PlacesAre
<1>8. ASSUME QueryBeforeStart(c) PROVE Moves
  <2>1. /\ ctl[c].pc = "start"
        /\ Await(c, "await-old") \/ \E p \in {"launch", "ok"} : Set(c, p)
    BY <1>8 DEF QueryBeforeStart, Proceed, AfterOld
  <2> QED BY <1>1, <1>2, <1>p, <2>1, PlacesAre
<1>9. ASSUME StartService(c) PROVE Moves
  <2>1. ctl[c].pc = "launch" /\ \E p \in {"launching", "failed"} : Set(c, p)
    BY <1>9 DEF StartService
  <2> QED BY <1>1, <1>p, <2>1, PlacesAre
<1>10. ASSUME ServiceStarted(c) PROVE Moves
  <2>1. /\ ctl[c].pc = "launching"
        /\ Await(c, "await-started") \/ \E p \in {"failed", "ok"} : Set(c, p)
    BY <1>10 DEF ServiceStarted, Proceed, AfterStart
  <2> QED BY <1>1, <1>2, <1>p, <2>1, PlacesAre
<1>11. ASSUME Delete(c) PROVE Moves
  <2>1. ctl[c].pc = "delete" /\ \E p \in {"failed", "ok"} : Set(c, p)
    BY <1>11 DEF Delete
  <2> QED BY <1>1, <1>p, <2>1, PlacesAre
<1>12. ASSUME Poll(c) PROVE Moves
  BY <1>12, PollMoves DEF Moves
<1>13. ASSUME ManagerFails(c) PROVE Moves
  <2>1. Set(c, "failed") /\ ctl[c].pc \notin {"idle", "ok", "failed"}
    BY <1>13 DEF ManagerFails, Ended
  <2>2. PlacesLeft("failed") < PlacesLeft(ctl[c].pc)
    BY <1>0, <2>1, PlacesAre DEF Place
  <2> QED BY <1>1, <1>p, <2>1, <2>2
<1>14. Moves
  BY <1>3, <1>4, <1>5, <1>6, <1>7, <1>8, <1>9, <1>10, <1>11, <1>12, <1>13 DEF ControllerStep
<1>15. clock' = clock
  BY DEF Launched, Open, QueryBeforeStop, SendStop, StopSent, QueryBeforeStart, StartService,
     ServiceStarted, Delete, Poll, ManagerFails, ControllerStep, Else, OnlyControl
<1> QED BY <1>14, <1>15 DEF Moves

(* Service::Control goes through its calls in one order, whatever the      *)
(* manager answers: no answer takes a command back to where it has been.   *)
THEOREM CommandsAdvanceHolds == Spec => CommandsAdvance
<1> DEFINE Advances(c) ==
             \/ ctl'[c] = ctl[c]
             \/ ctl'[c].pc = ctl[c].pc /\ ctl[c].pc \in Awaiting
             \/ PlacesLeft(ctl'[c].pc) < PlacesLeft(ctl[c].pc)
<1>1. ASSUME ControlInv, [Next]_vars, NEW c \in Controller PROVE Advances(c)
  <2>1. ASSUME Tick PROVE Advances(c)
    <3>1. ctl \in [Controller -> Process]
      BY <1>1, ControlTyped DEF ControlInv
    <3>2. ctl'[c] = IF ctl[c].pc \in Awaiting THEN [ctl[c] EXCEPT !.slept = @ + 1] ELSE ctl[c]
      BY <2>1 DEF Tick
    <3>3. ctl[c] \in Process
      BY <3>1
    <3> QED BY <3>2, <3>3 DEF Process
  <2>2. ASSUME ControllersStep PROVE Advances(c)
    <3>1. PICK d \in Controller : Launched(d) \/ ControllerStep(d) \/ ManagerFails(d)
      BY <2>2 DEF ControllersStep
    <3>2. c # d => ctl'[c] = ctl[c]
      BY <1>1, <3>1, CommandMoves
    <3>3. GoesOn(d) \/ BeginsToWait(d) \/ WaitsOn(d)
      BY <1>1, <3>1, CommandMoves
    <3> QED BY <3>2, <3>3 DEF GoesOn, BeginsToWait, WaitsOn
  <2>3. ASSUME Reading \/ WorkerStep \/ UNCHANGED vars PROVE ctl' = ctl
    BY <2>3 DEF Reading, WorkerStep, vars, controlVars
  <2> QED BY <1>1, <2>1, <2>2, <2>3 DEF Next, Dispatched
<1>2. ControlInv /\ [Next]_vars => \A c \in Controller : Advances(c)
  BY <1>1
<1>3. Init => ControlInv
  BY ControlBegins DEF Init
<1> QED BY <1>2, <1>3, ControlNext, PTL DEF Spec, CommandsAdvance

LEMMA PatienceKeeps == ControlInv /\ PatienceEnds /\ [Next]_vars => PatienceEnds'
<1> SUFFICES ASSUME ControlInv, PatienceEnds, [Next]_vars, NEW c \in Controller,
                    ctl'[c].pc \in Awaiting
             PROVE  Elapsed(ctl[c].ticks)' < ControlTimeout + ctl'[c].slept
  BY DEF PatienceEnds
<1>1. /\ ctl \in [Controller -> Process] /\ clock \in 0..Modulus - 1
      /\ status.hint \in {0, FirstHint, WaitHint}
  BY ControlTyped DEF ControlInv
<1>2. /\ ctl[c] \in Process /\ ctl[c].ticks \in 0..Modulus - 1
      /\ ctl[c].slept \in 0..MaxDelay
  BY <1>1 DEF Process
<1>3. Elapsed(ctl[c].ticks) \in Nat /\ ctl[c].slept \in Nat
  BY <1>1, <1>2, TicksElapse, TimesAre
<1>4. status.hint < ControlTimeout /\ status.hint \in Nat /\ ControlTimeout \in Nat
  BY <1>1, TimesAre
<1>5. ASSUME clock' = clock, ctl'[c] = ctl[c]
      PROVE  Elapsed(ctl[c].ticks)' < ControlTimeout + ctl'[c].slept
  BY <1>5 DEF PatienceEnds, Elapsed
<1>6. ASSUME Tick PROVE Elapsed(ctl[c].ticks)' < ControlTimeout + ctl'[c].slept
  <2>1. /\ ctl'[c] = IF ctl[c].pc \in Awaiting THEN [ctl[c] EXCEPT !.slept = @ + 1] ELSE ctl[c]
        /\ clock' = (clock + 1) % Modulus
    BY <1>6 DEF Tick
  <2>2. /\ ctl[c].pc \in Awaiting /\ ctl'[c].slept = ctl[c].slept + 1
        /\ ctl'[c].ticks = ctl[c].ticks
    BY <1>2, <2>1 DEF Process
  <2>3. Elapsed(ctl[c].ticks)' = (((clock + 1) % Modulus) - ctl[c].ticks) % Modulus
    BY <2>1, <2>2 DEF Elapsed
  <2>4. Elapsed(ctl[c].ticks)' <= Elapsed(ctl[c].ticks) + 1
    BY <1>1, <1>2, <2>3, TicksElapse
  <2>5. Elapsed(ctl[c].ticks)' \in Nat
    <3>1. (clock + 1) % Modulus \in 0..Modulus - 1
      BY <1>1, TicksElapse
    <3>2. Elapsed(ctl[c].ticks)' \in 0..Modulus - 1
      BY <1>2, <2>3, <3>1, ElapsedRange
    <3> QED BY <3>2, TimesAre
  <2>6. Elapsed(ctl[c].ticks) < ControlTimeout + ctl[c].slept
    BY <2>2 DEF PatienceEnds
  <2> QED BY <1>3, <1>4, <2>2, <2>4, <2>5, <2>6
<1>7. ASSUME ControllersStep PROVE Elapsed(ctl[c].ticks)' < ControlTimeout + ctl'[c].slept
  <2>1. PICK d \in Controller : Launched(d) \/ ControllerStep(d) \/ ManagerFails(d)
    BY <1>7 DEF ControllersStep
  <2>2. clock' = clock /\ (c # d => ctl'[c] = ctl[c])
    BY <2>1, CommandMoves
  <2>3. c = d => BeginsToWait(c) \/ WaitsOn(c)
    BY <2>1, CommandMoves DEF GoesOn
  <2>4. ctl'[c].ticks = clock /\ ctl'[c].slept = 0
        => Elapsed(ctl[c].ticks)' < ControlTimeout + ctl'[c].slept
    <3>1. Elapsed(clock) = 0
      BY <1>1, TicksElapse
    <3>2. ctl'[c].ticks = clock => Elapsed(ctl[c].ticks)' = 0
      BY <2>2, <3>1 DEF Elapsed
    <3> QED BY <1>4, <3>2
  <2>5. ctl'[c].ticks = ctl[c].ticks /\ ctl'[c].slept = 0 /\ ~(Elapsed(ctl[c].ticks) > status.hint)
        => Elapsed(ctl[c].ticks)' < ControlTimeout + ctl'[c].slept
    <3>1. ctl'[c].ticks = ctl[c].ticks => Elapsed(ctl[c].ticks)' = Elapsed(ctl[c].ticks)
      BY <2>2 DEF Elapsed
    <3> QED BY <1>3, <1>4, <3>1
  <2> QED BY <1>5, <2>2, <2>3, <2>4, <2>5 DEF BeginsToWait, WaitsOn
<1>8. ASSUME Reading \/ WorkerStep \/ UNCHANGED vars PROVE ctl' = ctl /\ clock' = clock
  BY <1>8 DEF Reading, WorkerStep, vars, controlVars
<1> QED BY <1>5, <1>6, <1>7, <1>8 DEF Next, Dispatched

(* waitNewState gives up in time, by the ticks that it counts from the     *)
(* last progress, wherever GetTickCount() begins anew: what has elapsed    *)
(* never comes to a whole turn of the counter, so it is the time that has  *)
(* passed.                                                                 *)
THEOREM PatienceEndsHolds == Spec => []PatienceEnds
<1>1. Init => ControlInv
  BY ControlBegins DEF Init
<1>2. Init => PatienceEnds
  BY DEF Init, Quiet, ControlInit, At, Awaiting, PatienceEnds
<1> QED BY <1>1, <1>2, ControlNext, PatienceKeeps, PTL DEF Spec
=============================================================================
