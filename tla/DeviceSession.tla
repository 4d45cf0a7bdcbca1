---------------------------- MODULE DeviceSession ----------------------------
(***************************************************************************)
(* The sessions of class Device (library/kkm/device.cpp) with one cash     *)
(* register, one after the other: once the constructor has connected, one  *)
(* method issues its calls to the driver and the destructor cancels a      *)
(* receipt left open.  A method is the script of its calls; what           *)
(* an error of a call does - throw, leave the subroutine, leave the        *)
(* method - is Device's, and what a call does to the cash register is the  *)
(* environment: any call may be refused, and the answer to one that acted  *)
(* may be lost.                                                            *)
(***************************************************************************)
EXTENDS Operations, Naturals, Sequences

CONSTANT Polls      \* s_documentClosingTimeout / c_sleepQuantum

ASSUME PollsAssumption == Polls \in Nat \ {0}

VARIABLES
    kkm,        \* the cash register: a receipt is open, the document it has
                \* not finished yet, the shift is open, cash in the drawer
    method,     \* the method and its details
    step,       \* what the session does next
    todo,       \* the calls left, a sequence for every subroutine
    polls,      \* i of the loops of subCheckDocumentClosed
    cancel,     \* m_needToCancelReceipt
    outcome,    \* m_success of the result, "threw", or "none" after a crash
    acted,      \* history: the cash register did what the session asked for
    own,        \* history: the unfinished document is this session's
    confirmed,  \* history: the last check said that the document is closed
    doubt       \* history: an answer was lost, a cancel refused, a check ran
                \* out of polls, or the process died

vars == <<kkm, method, step, todo, polls, cancel, outcome, acted, own,
          confirmed, doubt>>

Kkm == [receipt : BOOLEAN, doc : {"none", "receipt", "shift", "report"},
        shift : BOOLEAN, cash : BOOLEAN]

ShiftMethod == {"close-shift", "report-x", "reset-state"}

\* Details that a method does not take are FALSE; closeShift always closes.
Method ==
    {m \in [name : ShiftMethod \cup {"sell", "cash-in", "cash-out", "status",
                       "learn", "print-document", "print-report", "ofd-status"},
            cashOut : BOOLEAN, closeShift : BOOLEAN] :
        /\ m.cashOut \/ m.closeShift => m.name \in ShiftMethod
        /\ m.name = "close-shift" => m.closeShift}

\* The operation of Operations that a method serves.
OpOf(name) ==
    CASE name \in {"sell", "cash-in", "cash-out"} -> "receipt"
      [] name \in {"status", "learn"} -> name
      [] OTHER -> "report"

-----------------------------------------------------------------------------
(* The scripts *)

When(condition, calls) == IF condition THEN <<calls>> ELSE <<>>

\* subCashOut and subCloseShift, as the details of the request ask for them.
SubCashOut(m) == When(m.cashOut, <<"query-cash", "login", "cash-out-all">>)
SubCloseShift(m) ==
    When(m.closeShift, <<"query-shift", "login", "close-shift", "check">>)

\* subRegisterReceipt; "login" stands for subSetOperator, subSetCustomer and
\* subSetSeller, "register" and "pay" for their repetitions.
Receipt ==
    <<<<"print", "login", "open", "print", "register", "pay", "close", "check">>>>

\* registerCashIn, registerCashOut.
Cash(m) == <<<<"login", m.name>>>>

\* The printed documents and reports; learn saves the parameters, asks for the
\* status and prints a greeting.
Paper(m) ==
    CASE m.name = "print-document" -> <<<<"begin", "print", "end">>>>
      [] m.name = "print-report" -> <<<<"report">>>>
      [] m.name = "ofd-status" -> <<<<"ofd-report", "check">>>>

Learn == <<<<"save">>, <<"query-status">>, <<"hello", "print", "hello">>>>

\* closeShift, reportX and resetState.
Shift(m) ==
    LET details == SubCashOut(m) \o SubCloseShift(m)
    IN  CASE m.name = "close-shift" -> details
          [] m.name = "report-x" -> details \o <<<<"report">>>>
          [] m.name = "reset-state" -> <<<<"query-receipt", "cancel">>>> \o details

\* What the handler of an operation makes Device do; StatusCollection has the
\* status operations in detail.
Script(m) ==
    CASE m.name = "sell" -> Receipt
      [] m.name \in {"cash-in", "cash-out"} -> Cash(m)
      [] m.name = "status" -> <<<<"query-status">>>>
      [] m.name = "learn" -> Learn
      [] m.name \in ShiftMethod -> Shift(m)
      [] OTHER -> Paper(m)

\* Calls whose error is thrown as a Failure, and calls whose error ends the
\* subroutine only; the error of any other call ends the method.
Throws == {"print", "login", "save", "hello"}
EndsSubroutine ==
    {"query-cash", "cash-out-all", "query-shift", "close-shift",
     "query-status", "check"}

-----------------------------------------------------------------------------
(* The cash register *)

Busy(k) == k.receipt \/ k.doc # "none"

Cancelled(k) == [k EXCEPT !.receipt = FALSE, !.doc = "none"]

\* The unfinished document is registered.
Registered(k) ==
    [k EXCEPT !.doc = "none",
              !.shift = (k.doc = "receipt") \/ (k.shift /\ k.doc # "shift"),
              !.cash = (k.doc = "receipt") \/ k.cash]

\* What a call needs of the cash register to be carried out.
Possible(call, k) ==
    /\ call \in {"open", "cash-in", "cash-out", "cash-out-all", "report",
                 "ofd-report", "close-shift", "begin", "hello"} => ~Busy(k)
    /\ call \in {"register", "pay", "close"} => k.receipt
    /\ call \in {"cash-out", "cash-out-all"} => k.cash
    /\ call = "close-shift" => k.shift
    /\ call = "cancel" => Busy(k)

\* The states a call that is carried out can leave the cash register in.
Effect(call, k) ==
    CASE call = "open" -> {[k EXCEPT !.receipt = TRUE]}
      [] call = "close" -> {[k EXCEPT !.receipt = FALSE, !.doc = "receipt"]}
      [] call = "close-shift" -> {[k EXCEPT !.doc = "shift"]}
      [] call = "ofd-report" -> {[k EXCEPT !.doc = "report"]}
      [] call = "cash-in" -> {[k EXCEPT !.cash = TRUE, !.shift = TRUE]}
      [] call = "cash-out" -> {[k EXCEPT !.cash = c] : c \in BOOLEAN}
      [] call = "cash-out-all" -> {[k EXCEPT !.cash = FALSE]}
      [] call = "cancel" -> {Cancelled(k)}
      [] OTHER -> {k}

\* Calls after which what the request asked for has happened, and calls that
\* leave a document for the cash register to finish.
Acts == {"cash-in", "cash-out", "cash-out-all", "report", "end", "save"}
Documents == {"close", "close-shift", "ofd-report"}

\* A call is carried out: its effects, on the cash register and the history.
CarriedOut(call) ==
    /\ Possible(call, kkm)
    /\ kkm' \in Effect(call, kkm)
    /\ acted' = (acted \/ call \in Acts)
    /\ own' = ((own \/ call \in Documents) /\ call # "cancel")

\* The cash register finishes the document: the wonder that
\* subCheckDocumentClosed waits for.
Settle ==
    /\ kkm.doc # "none"
    /\ kkm' = Registered(kkm)
    /\ acted' = (acted \/ own)
    /\ own' = FALSE
    /\ UNCHANGED <<method, step, todo, polls, cancel, outcome, confirmed, doubt>>

-----------------------------------------------------------------------------
(* A session *)

Init ==
    /\ kkm \in {k \in Kkm : ~Busy(k)}
    /\ method \in {m \in Method : m.name = "status"}
    /\ step = "idle" /\ todo = <<>> /\ polls = 0
    /\ cancel = FALSE /\ outcome = "none"
    /\ acted = FALSE /\ own = FALSE /\ confirmed = FALSE /\ doubt = FALSE

\* The method goes on with the calls of t, whose first subroutine may be over;
\* the destructor follows the last.
GoOn(t) ==
    LET rest == IF t # <<>> /\ Head(t) = <<>> THEN Tail(t) ELSE t
        checks == rest # <<>> /\ Head(Head(rest)) = "check"
    IN  /\ todo' = rest
        /\ polls' = IF checks THEN Polls ELSE 0
        /\ step' = IF rest = <<>> THEN "close"
                   ELSE IF checks THEN "check" ELSE "call"

NextCall == <<Tail(Head(todo))>> \o Tail(todo)
LeaveSubroutine == Tail(todo)
LeaveMethod == <<>>

\* The handler has made a Device, which connect has opened, and calls the
\* method.  (KkmOpHandler's OpenFails is where connect fails.)
Begin(m) ==
    /\ step = "idle"
    /\ method' = m
    /\ GoOn(Script(m))
    /\ cancel' = FALSE /\ outcome' = "ok"
    /\ acted' = FALSE /\ own' = FALSE /\ confirmed' = FALSE
    /\ doubt' = Busy(kkm)
    /\ UNCHANGED kkm

\* Variant for the mutation runs: the failure is logged and not reported.
LogOnly == outcome' = outcome

\* fail(result): the first failure is the one reported.
Fail == outcome' = IF outcome = "ok" THEN "failed" ELSE outcome

\* What a query answers that leaves nothing to do in the subroutine.
NothingToDo(call) ==
    \/ call = "query-cash" /\ ~kkm.cash
    \/ call = "query-shift" /\ ~kkm.shift
    \/ call = "query-receipt" /\ ~kkm.receipt /\ kkm.doc # "receipt"

\* Variant for the mutation runs: to be cancelled once it has a position.
NeedToCancelLate(call) ==
    CASE call = "register" -> TRUE
      [] call = "close" -> FALSE
      [] OTHER -> cancel

\* m_needToCancelReceipt after a call that has succeeded.
NeedToCancel(call) ==
    CASE call = "open" -> TRUE
      [] call = "close" -> FALSE
      [] OTHER -> cancel

\* A call of the method returns no error.
CallSucceeds ==
    LET call == Head(Head(todo))
    IN  /\ step = "call"
        /\ CarriedOut(call)
        /\ cancel' = NeedToCancel(call)
        /\ GoOn(IF NothingToDo(call) THEN LeaveSubroutine ELSE NextCall)
        /\ UNCHANGED <<method, outcome, confirmed, doubt>>

\* A call returns an error: it was refused, or it was carried out all the same.
Refused(call) ==
    /\ doubt' = (doubt \/ call = "cancel")
    /\ UNCHANGED <<kkm, acted, own>>
Lost(call) == CarriedOut(call) /\ doubt' = TRUE

CallFails ==
    LET call == Head(Head(todo))
    IN  /\ step = "call"
        /\ Refused(call) \/ Lost(call)
        /\ IF call \in Throws THEN outcome' = "threw" ELSE Fail
        /\ GoOn(IF call \in EndsSubroutine THEN LeaveSubroutine
                ELSE LeaveMethod)
        /\ UNCHANGED <<method, cancel, confirmed>>

-----------------------------------------------------------------------------
(* subCheckDocumentClosed *)

\* Variant for the mutation runs: DOCUMENT_CLOSED is not looked at.
AnyAnswer(i, closed) == i = 0

\* The answer of checkDocumentClosed leaves no hope, given i and what it says.
GiveUp(i, closed) == i = 0 \/ ~closed

\* Variants for the mutation runs: the loop does not stop at zero, and its
\* counter wraps around or not.
CheckForever ==
    /\ step = "check"
    /\ confirmed' = FALSE
    /\ polls' = IF polls > 0 THEN polls - 1 ELSE Polls
    /\ UNCHANGED <<kkm, method, step, todo, cancel, outcome, acted, own, doubt>>

CheckPastZero ==
    /\ step = "check"
    /\ confirmed' = FALSE
    /\ polls' = polls - 1
    /\ UNCHANGED <<kkm, method, step, todo, cancel, outcome, acted, own, doubt>>

\* checkDocumentClosed returns an error: sleep and try again, i times.
CheckFails ==
    /\ step = "check"
    /\ confirmed' = FALSE
    /\ IF polls > 0
       THEN polls' = polls - 1 /\ UNCHANGED <<step, doubt>>
       ELSE step' = "abandon" /\ doubt' = TRUE /\ UNCHANGED polls
    /\ UNCHANGED <<kkm, method, todo, cancel, outcome, acted, own>>

\* checkDocumentClosed answers; a closed document may still be unprinted.
CheckAnswers ==
    LET closed == kkm.doc = "none"
    IN  /\ step = "check"
        /\ confirmed' = closed
        /\ doubt' = (doubt \/ polls = 0)
        /\ IF GiveUp(polls, closed)
           THEN step' = "abandon" /\ UNCHANGED <<todo, polls>>
           ELSE \/ GoOn(NextCall)
                \/ step' = "continue" /\ polls' = Polls /\ UNCHANGED todo
        /\ UNCHANGED <<kkm, method, cancel, outcome, acted, own>>

\* cancelReceipt after a check without hope; its error is only logged.
Abandon ==
    /\ step = "abandon"
    /\ \/ CarriedOut("cancel") /\ UNCHANGED doubt
       \/ Refused("cancel")
       \/ Lost("cancel")
    /\ Fail
    /\ GoOn(LeaveSubroutine)
    /\ UNCHANGED <<method, cancel, confirmed>>

\* Variant for the mutation runs: the first error of continuePrint is final.
PrintOnce ==
    /\ step = "continue"
    /\ \/ GoOn(NextCall) /\ UNCHANGED outcome
       \/ Fail /\ GoOn(LeaveSubroutine)
    /\ UNCHANGED <<kkm, method, cancel, acted, own, confirmed, doubt>>

\* continuePrint, in a loop of the same form.
ContinuePrint ==
    /\ step = "continue"
    /\ \/ polls > 0 /\ GoOn(NextCall) /\ UNCHANGED <<outcome, doubt>>
       \/ polls > 0 /\ polls' = polls - 1
          /\ UNCHANGED <<step, todo, outcome, doubt>>
       \/ polls = 0 /\ Fail /\ doubt' = TRUE /\ GoOn(LeaveSubroutine)
    /\ UNCHANGED <<kkm, method, cancel, acted, own, confirmed>>

-----------------------------------------------------------------------------
\* ~Device: cancel the receipt that is still open, and close the driver.
Destroy ==
    /\ step = "close"
    /\ IF cancel
       THEN \/ CarriedOut("cancel") /\ UNCHANGED doubt
            \/ Refused("cancel")
            \/ Lost("cancel")
       ELSE UNCHANGED <<kkm, acted, own, doubt>>
    /\ step' = "idle" /\ cancel' = FALSE
    /\ UNCHANGED <<method, todo, polls, outcome, confirmed>>

\* The process is killed: no destructor runs.
Crash ==
    /\ step # "idle"
    /\ step' = "idle" /\ todo' = <<>> /\ polls' = 0 /\ cancel' = FALSE
    /\ outcome' = "none" /\ doubt' = TRUE
    /\ UNCHANGED <<kkm, method, acted, own, confirmed>>

SessionStep ==
    \/ CallSucceeds \/ CallFails
    \/ CheckFails \/ CheckAnswers \/ Abandon \/ ContinuePrint
    \/ Destroy

Next == \/ \E m \in Method : Begin(m)
        \/ SessionStep
        \/ Settle
        \/ Crash

\* Every call of the driver returns, and a thread that is not blocked runs.
Spec == Init /\ [][Next]_vars /\ WF_vars(SessionStep)

-----------------------------------------------------------------------------
TypeOK ==
    /\ kkm \in Kkm /\ method \in Method
    /\ step \in {"idle", "call", "check", "abandon", "continue", "close"}
    /\ todo # <<>> <=> step \in {"call", "check", "abandon", "continue"}
    /\ polls \in 0..Polls
    /\ outcome \in {"ok", "failed", "threw", "none"}
    /\ cancel \in BOOLEAN /\ acted \in BOOLEAN /\ own \in BOOLEAN
    /\ confirmed \in BOOLEAN /\ doubt \in BOOLEAN

\* The cash register is left with an open receipt or an unfinished document
\* only if it did not tell the truth about a call, refused to cancel, or the
\* process died: m_needToCancelReceipt and the destructor cover every other
\* way out of subRegisterReceipt, thrown or returned.
NoReceiptLeftOpen == step = "idle" /\ Busy(kkm) => doubt

\* A success that is answered is real: the shift is closed, the drawer empty
\* and no receipt open where the request asked for it, whichever subroutines
\* had nothing to do.  A session that found the cash register with a document
\* still to finish (doubt) cannot tell, but resetState can: it begins with the
\* receipt that it finds.
SuccessIsReal ==
    step = "close" /\ outcome = "ok" /\ (doubt => method.name = "reset-state") =>
        /\ method.closeShift => ~kkm.shift
        /\ method.cashOut => ~kkm.cash
        /\ method.name = "reset-state" => ~kkm.receipt /\ kkm.doc # "receipt"

\* A receipt that was registered is reported as failed only where the cash
\* register left the session in doubt: a failure on the way to closeReceipt
\* leaves nothing registered.
HonestFailure ==
    /\ step = "idle" /\ outcome \in {"failed", "threw"}
    /\ OpOf(method.name) = "receipt" /\ acted
    => doubt

\* The methods end as KkmOpHandler assumes: what a success, a failure or an
\* exception tells of the cash register.
EndingAsAssumed ==
    step = "idle" /\ outcome # "none" =>
        <<outcome, acted>> \in Ending(OpOf(method.name))

\* A document is abandoned only if the last check did not find it closed: "we
\* wait for a wonder; if none happens, we cancel the receipt"
\* (device.cpp:238-240).
CancelOnlyUnconfirmed == step = "abandon" => ~confirmed

\* A session ends, whatever the cash register answers: both loops of
\* subCheckDocumentClosed run out of polls.
SessionEnds == step = "call" ~> step = "idle"
=============================================================================
