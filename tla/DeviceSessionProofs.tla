------------------------ MODULE DeviceSessionProofs ------------------------
(***************************************************************************)
(* DeviceSession for any number of polls: what a session leaves behind on  *)
(* the cash register.                                                      *)
(***************************************************************************)
EXTENDS DeviceSession, SequenceTheorems, TLAPS

Call ==
    {"print", "login", "open", "register", "pay", "close", "check", "cash-in",
     "cash-out", "cash-out-all", "query-cash", "query-shift", "query-receipt",
     "query-status", "close-shift", "begin", "end", "report", "ofd-report",
     "save", "hello", "cancel"}

(* What the scripts have in common: a call that leaves a document for the  *)
(* cash register to finish is followed by subCheckDocumentClosed.          *)
Checked ==
    {calls \in Seq(Call) :
        /\ calls # <<>>
        /\ \A i \in 1..Len(calls) : calls[i] \in Documents =>
              i < Len(calls) /\ calls[i + 1] = "check"}

\* Subroutines of one to four calls, where one at most leaves a document.
LEMMA CheckedOne ==
  ASSUME NEW a \in Call \ Documents
  PROVE  <<a>> \in Checked
  BY DEF Checked

\* The same with two calls.
LEMMA CheckedTwo ==
  ASSUME NEW a \in Call, NEW b \in Call \ Documents,
         a \in Documents => b = "check"
  PROVE  <<a, b>> \in Checked
  BY DEF Checked

\* The same with three calls.
LEMMA CheckedThree ==
  ASSUME NEW a \in Call \ Documents, NEW b \in Call, NEW c \in Call \ Documents,
         b \in Documents => c = "check"
  PROVE  <<a, b, c>> \in Checked
  BY DEF Checked

\* The same with four calls.
LEMMA CheckedFour ==
  ASSUME NEW a \in Call \ Documents, NEW b \in Call \ Documents,
         NEW c \in Call, NEW d \in Call \ Documents,
         c \in Documents => d = "check"
  PROVE  <<a, b, c, d>> \in Checked
  BY DEF Checked

\* A subroutine that the details may ask for.
LEMMA WhenChecked ==
  ASSUME NEW b \in BOOLEAN, NEW calls \in Checked
  PROVE  When(b, calls) \in Seq(Checked)
  BY DEF When

\* closeShift, reportX and resetState, with any details, check what they leave.
LEMMA ShiftChecked ==
  ASSUME NEW m \in Method, m.name \in ShiftMethod
  PROVE  Shift(m) \in Seq(Checked)
<1>a. m.cashOut \in BOOLEAN /\ m.closeShift \in BOOLEAN
  BY DEF Method
<1>1. SubCashOut(m) \in Seq(Checked)
  <2>1. <<"query-cash", "login", "cash-out-all">> \in Checked
    BY CheckedThree DEF Call, Documents
  <2> QED BY <1>a, <2>1, WhenChecked DEF SubCashOut
<1>2. SubCloseShift(m) \in Seq(Checked)
  <2>1. <<"query-shift", "login", "close-shift", "check">> \in Checked
    BY CheckedFour DEF Call, Documents
  <2> QED BY <1>a, <2>1, WhenChecked DEF SubCloseShift
<1>3. <<"report">> \in Checked /\ <<"query-receipt", "cancel">> \in Checked
  BY CheckedOne, CheckedTwo DEF Call, Documents
<1>4. /\ <<<<"report">>>> \in Seq(Checked)
      /\ <<<<"query-receipt", "cancel">>>> \in Seq(Checked)
  BY <1>3
<1> DEFINE details == SubCashOut(m) \o SubCloseShift(m)
<1>5. details \in Seq(Checked)
  BY <1>1, <1>2, ConcatProperties
<1> HIDE DEF details
<1>6. /\ details \o <<<<"report">>>> \in Seq(Checked)
      /\ <<<<"query-receipt", "cancel">>>> \o details \in Seq(Checked)
  BY <1>4, <1>5, ConcatProperties
<1>7. /\ m.name = "close-shift" => Shift(m) = details
      /\ m.name = "report-x" => Shift(m) = details \o <<<<"report">>>>
      /\ m.name = "reset-state" => Shift(m) = <<<<"query-receipt", "cancel">>>> \o details
  BY DEF Shift, details
<1> QED BY <1>5, <1>6, <1>7 DEF ShiftMethod

\* The script of each method.
LEMMA ScriptCases ==
  ASSUME NEW m \in Method
  PROVE  /\ m.name = "sell" => Script(m) = Receipt
         /\ m.name \in {"cash-in", "cash-out"} => Script(m) = Cash(m)
         /\ m.name = "status" => Script(m) = <<<<"query-status">>>>
         /\ m.name = "learn" => Script(m) = Learn
         /\ m.name \in ShiftMethod => Script(m) = Shift(m)
         /\ m.name \in {"print-document", "print-report", "ofd-status"}
              => Script(m) = Paper(m)
  BY DEF Script, ShiftMethod

\* Every method of Device checks the documents it leaves.
LEMMA ScriptChecked ==
  ASSUME NEW m \in Method
  PROVE  Script(m) \in Seq(Checked)
<1>1. Receipt \in Seq(Checked)
  <2>1. <<"print", "login", "open", "print", "register", "pay", "close",
          "check">> \in Checked
    BY DEF Checked, Call, Documents
  <2> QED BY <2>1 DEF Receipt
<1>2. ASSUME m.name \in {"cash-in", "cash-out"} PROVE Cash(m) \in Seq(Checked)
  <2>1. <<"login", m.name>> \in Checked
    BY <1>2, CheckedTwo DEF Call, Documents
  <2> QED BY <2>1 DEF Cash
<1>3. <<<<"query-status">>>> \in Seq(Checked)
  <2>1. <<"query-status">> \in Checked
    BY CheckedOne DEF Call, Documents
  <2> QED BY <2>1
<1>4. Learn \in Seq(Checked)
  <2>1. <<"save">> \in Checked /\ <<"query-status">> \in Checked
    BY CheckedOne DEF Call, Documents
  <2>2. <<"hello", "print", "hello">> \in Checked
    BY CheckedThree DEF Call, Documents
  <2> QED BY <2>1, <2>2 DEF Learn
<1>5. ASSUME m.name \in {"print-document", "print-report", "ofd-status"}
      PROVE  Paper(m) \in Seq(Checked)
  <2>1. <<"begin", "print", "end">> \in Checked
    BY CheckedThree DEF Call, Documents
  <2>2. <<"report">> \in Checked /\ <<"ofd-report", "check">> \in Checked
    BY CheckedOne, CheckedTwo DEF Call, Documents
  <2>3. /\ m.name = "print-document" => Paper(m) = <<<<"begin", "print", "end">>>>
        /\ m.name = "print-report" => Paper(m) = <<<<"report">>>>
        /\ m.name = "ofd-status" => Paper(m) = <<<<"ofd-report", "check">>>>
    BY DEF Paper
  <2>4. /\ <<<<"begin", "print", "end">>>> \in Seq(Checked)
        /\ <<<<"report">>>> \in Seq(Checked)
        /\ <<<<"ofd-report", "check">>>> \in Seq(Checked)
    BY <2>1, <2>2
  <2> QED BY <1>5, <2>3, <2>4
<1>6. m.name \in {"sell", "cash-in", "cash-out", "status", "learn",
                  "print-document", "print-report", "ofd-status"} \cup ShiftMethod
  BY DEF Method
<1> QED BY <1>1, <1>2, <1>3, <1>4, <1>5, <1>6, ScriptCases, ShiftChecked

-----------------------------------------------------------------------------
(* Going on: after a call, after a subroutine and after the method, what   *)
(* is left is checked again, and a document is followed by its check.      *)

\* What is left of a subroutine after a call.
LEMMA TailChecked ==
  ASSUME NEW calls \in Checked, Tail(calls) # <<>>
  PROVE  Tail(calls) \in Checked
<1>1. calls \in Seq(Call) /\ calls # <<>>
  BY DEF Checked
<1>2. /\ Tail(calls) \in Seq(Call)
      /\ Len(Tail(calls)) = Len(calls) - 1
      /\ \A i \in 1..Len(Tail(calls)) : Tail(calls)[i] = calls[i + 1]
  BY <1>1, HeadTailProperties
<1>3. ASSUME NEW i \in 1..Len(Tail(calls)), Tail(calls)[i] \in Documents
      PROVE  i < Len(Tail(calls)) /\ Tail(calls)[i + 1] = "check"
  <2>1. i + 1 \in 1..Len(calls) /\ calls[i + 1] \in Documents
    BY <1>1, <1>2, <1>3, LenProperties
  <2>2. i + 1 < Len(calls) /\ calls[i + 2] = "check"
    BY <2>1 DEF Checked
  <2>3. i + 1 \in 1..Len(Tail(calls))
    BY <1>1, <1>2, <2>2, LenProperties
  <2> QED BY <1>2, <2>2, <2>3
<1> QED BY <1>2, <1>3 DEF Checked

\* The head of a sequence that is not empty.
LEMMA HeadIsFirst ==
  ASSUME NEW S, NEW s \in Seq(S), Len(s) >= 1
  PROVE  s # <<>> /\ Head(s) = s[1]
<1>1. s # <<>>
  BY EmptySeq
<1> QED BY <1>1

\* GoOn, when what it goes on with is known to be checked.
LEMMA GoOnTo ==
  ASSUME NEW t, GoOn(t), NEW rest \in Seq(Checked),
         rest = IF t # <<>> /\ Head(t) = <<>> THEN Tail(t) ELSE t
  PROVE  /\ todo' = rest
         /\ polls' \in 0..Polls
         /\ step' \in {"call", "check", "close"}
         /\ todo' # <<>> <=> step' \in {"call", "check"}
         /\ rest # <<>> /\ Head(Head(rest)) = "check" => step' = "check"
         /\ step' = "check" => Head(Head(todo')) = "check"
  BY PollsAssumption DEF GoOn

\* Going on with whole subroutines.
LEMMA GoOnRest ==
  ASSUME NEW t \in Seq(Checked), GoOn(t)
  PROVE  /\ todo' = t
         /\ polls' \in 0..Polls
         /\ step' \in {"call", "check", "close"}
         /\ todo' # <<>> <=> step' \in {"call", "check"}
         /\ step' = "check" => Head(Head(todo')) = "check"
<1>1. t # <<>> => Head(t) # <<>>
  BY HeadTailProperties DEF Checked
<1> QED BY <1>1, GoOnTo

\* A sequence with an element put before it.
LEMMA Prepended ==
  ASSUME NEW S, NEW t \in S, NEW r \in Seq(S)
  PROVE  <<t>> \o r # <<>> /\ Head(<<t>> \o r) = t /\ Tail(<<t>> \o r) = r
<1> DEFINE p == <<t>> \o r
<1>1. p \in Seq(S) /\ Len(p) = Len(r) + 1 /\ Len(r) \in Nat
  OBVIOUS
<1>2. p[1] = t /\ \A i \in 1..Len(r) : p[i + 1] = r[i]
  OBVIOUS
<1> HIDE DEF p
<1>3. p # <<>>
  BY <1>1
<1>4. Head(p) = t
  BY <1>1, <1>2, <1>3
<1>5. Tail(p) \in Seq(S) /\ Len(Tail(p)) = Len(r) /\ \A i \in 1..Len(r) : Tail(p)[i] = p[i + 1]
  BY <1>1, <1>3, HeadTailProperties
<1>6. Tail(p) = r
  BY <1>2, <1>5, SeqEqual
<1> QED BY <1>3, <1>4, <1>6 DEF p

\* Going on with the next call: after a document it is the check.
LEMMA GoOnNext ==
  ASSUME todo \in Seq(Checked), todo # <<>>, GoOn(NextCall)
  PROVE  /\ todo' = IF Tail(Head(todo)) = <<>> THEN Tail(todo) ELSE NextCall
         /\ todo' \in Seq(Checked)
         /\ polls' \in 0..Polls
         /\ step' \in {"call", "check", "close"}
         /\ todo' # <<>> <=> step' \in {"call", "check"}
         /\ Head(Head(todo)) \in Documents => step' = "check"
         /\ step' = "check" => Head(Head(todo')) = "check"
<1>1. Head(todo) \in Checked /\ Tail(todo) \in Seq(Checked)
  BY HeadTailProperties
<1>2. Tail(Head(todo)) \in Seq(Call)
  BY <1>1, HeadTailProperties DEF Checked
<1> DEFINE S == Seq(Call)
<1>3. Checked \subseteq S
  BY DEF Checked
<1>4. Tail(todo) \in Seq(S)
  BY <1>1, <1>3, SeqMonotonic
<1> HIDE DEF S
<1>5. /\ NextCall # <<>>
      /\ Head(NextCall) = Tail(Head(todo))
      /\ Tail(NextCall) = Tail(todo)
  BY <1>2, <1>4, Prepended DEF NextCall, S
<1> DEFINE rest == IF Tail(Head(todo)) = <<>> THEN Tail(todo) ELSE NextCall
<1>6. rest \in Seq(Checked)
  <2>1. CASE Tail(Head(todo)) = <<>>
    BY <1>1, <2>1
  <2>2. CASE Tail(Head(todo)) # <<>>
    <3>1. Tail(Head(todo)) \in Checked
      BY <1>1, <2>2, TailChecked
    <3> QED BY <1>1, <2>2, <3>1, ConcatProperties DEF NextCall
  <2> QED BY <2>1, <2>2
<1>7. ASSUME Head(Head(todo)) \in Documents
      PROVE  rest # <<>> /\ Head(Head(rest)) = "check"
  <2> DEFINE h == Head(todo)
  <2>1. h \in Seq(Call) /\ h # <<>> /\ Len(h) \in Nat \ {0} /\ h[1] = Head(h)
    BY <1>1, EmptySeq DEF Checked
  <2>2. 1 < Len(h) /\ h[2] = "check"
    BY <1>1, <1>7, <2>1 DEF Checked
  <2>3. /\ Tail(h) \in Seq(Call)
        /\ Len(Tail(h)) = Len(h) - 1
        /\ \A i \in 1..Len(Tail(h)) : Tail(h)[i] = h[i + 1]
    BY <2>1, HeadTailProperties
  <2>4. Len(Tail(h)) >= 1
    BY <2>1, <2>2, <2>3
  <2>5. Tail(h) # <<>> /\ Head(Tail(h)) = Tail(h)[1]
    BY <2>3, <2>4, HeadIsFirst
  <2>6. Tail(h)[1] = "check"
    BY <2>2, <2>3, <2>4
  <2> QED BY <1>5, <2>5, <2>6
<1>8. rest = IF NextCall # <<>> /\ Head(NextCall) = <<>> THEN Tail(NextCall) ELSE NextCall
  BY <1>5
<1> HIDE DEF rest
<1>9. /\ todo' = rest
      /\ polls' \in 0..Polls
      /\ step' \in {"call", "check", "close"}
      /\ todo' # <<>> <=> step' \in {"call", "check"}
      /\ rest # <<>> /\ Head(Head(rest)) = "check" => step' = "check"
      /\ step' = "check" => Head(Head(todo')) = "check"
  BY <1>6, <1>8, GoOnTo
<1> QED BY <1>6, <1>7, <1>9 DEF rest

-----------------------------------------------------------------------------
(* Type correctness, with the form of what is left to be done. *)

TypeInv == TypeOK /\ todo \in Seq(Checked)

\* A call carried out leaves the cash register in a legal state.
LEMMA CarriedOutType ==
  ASSUME TypeOK, NEW call, CarriedOut(call)
  PROVE  kkm' \in Kkm /\ acted' \in BOOLEAN /\ own' \in BOOLEAN
<1>1. kkm' \in Kkm
  <2>1. kkm' \in Effect(call, kkm)
    BY DEF CarriedOut
  <2>2. ASSUME NEW k \in Effect(call, kkm) PROVE k \in Kkm
    <3>1. kkm \in Kkm
      BY DEF TypeOK
    <3>2. \/ k = kkm \/ k = Cancelled(kkm)
          \/ k = [kkm EXCEPT !.receipt = TRUE]
          \/ k = [kkm EXCEPT !.receipt = FALSE, !.doc = "receipt"]
          \/ k = [kkm EXCEPT !.doc = "shift"] \/ k = [kkm EXCEPT !.doc = "report"]
          \/ k = [kkm EXCEPT !.cash = TRUE, !.shift = TRUE]
          \/ \E c \in BOOLEAN : k = [kkm EXCEPT !.cash = c]
      BY <2>2 DEF Effect
    <3> QED BY <3>1, <3>2 DEF Cancelled, Kkm
  <2> QED BY <2>1, <2>2
<1>2. acted' \in BOOLEAN /\ own' \in BOOLEAN
  BY DEF CarriedOut, TypeOK
<1> QED BY <1>1, <1>2

\* The type invariant holds at first.
LEMMA TypeInit == Init => TypeInv
<1> SUFFICES ASSUME Init PROVE TypeInv
  OBVIOUS
<1>1. kkm \in Kkm /\ method \in Method
  BY DEF Init
<1>2. <<>> \in Seq(Checked)
  BY EmptySeq
<1>3. todo = <<>> /\ step = "idle"
  BY DEF Init
<1>4. polls \in 0..Polls
  BY PollsAssumption DEF Init
<1>5. todo # <<>> <=> step \in {"call", "check", "abandon", "continue"}
  BY <1>3
<1>6. /\ outcome = "none" /\ cancel = FALSE /\ acted = FALSE
      /\ own = FALSE /\ confirmed = FALSE /\ doubt = FALSE
  BY DEF Init
<1>7. TypeOK
  BY <1>1, <1>3, <1>4, <1>5, <1>6 DEF TypeOK
<1> QED BY <1>2, <1>3, <1>7 DEF TypeInv

\* Every step of a session preserves the type invariant.
LEMMA TypeNext == TypeInv /\ [Next]_vars => TypeInv'
<1> SUFFICES ASSUME TypeInv, [Next]_vars PROVE TypeInv'
  OBVIOUS
<1> USE DEF TypeInv, TypeOK
<1>1. ASSUME NEW m \in Method, Begin(m) PROVE TypeInv'
  <2>1. GoOn(Script(m)) /\ Script(m) \in Seq(Checked)
    BY <1>1, ScriptChecked DEF Begin
  <2>2. doubt' \in BOOLEAN
    BY <1>1 DEF Begin, Busy, Kkm
  <2> QED BY <1>1, <2>1, <2>2, GoOnRest DEF Begin
<1>2. CASE CallSucceeds
  <2>1. todo # <<>>
    BY <1>2 DEF CallSucceeds
  <2>2. kkm' \in Kkm /\ acted' \in BOOLEAN /\ own' \in BOOLEAN
    BY <1>2, CarriedOutType DEF CallSucceeds
  <2>3. cancel' \in BOOLEAN
    BY <1>2 DEF CallSucceeds, NeedToCancel
  <2>4. /\ todo' \in Seq(Checked)
        /\ polls' \in 0..Polls
        /\ step' \in {"call", "check", "close"}
        /\ todo' # <<>> <=> step' \in {"call", "check"}
    <3>1. Tail(todo) \in Seq(Checked)
      BY <2>1, HeadTailProperties
    <3>2. GoOn(NextCall) \/ GoOn(LeaveSubroutine)
      BY <1>2 DEF CallSucceeds
    <3> QED BY <2>1, <3>1, <3>2, GoOnNext, GoOnRest DEF LeaveSubroutine
  <2> QED BY <1>2, <2>2, <2>3, <2>4 DEF CallSucceeds
<1>3. CASE CallFails
  <2>1. todo # <<>>
    BY <1>3 DEF CallFails
  <2>2. /\ kkm' \in Kkm /\ acted' \in BOOLEAN /\ own' \in BOOLEAN
        /\ doubt' \in BOOLEAN
    BY <1>3, CarriedOutType DEF CallFails, Refused, Lost
  <2>3. outcome' \in {"ok", "failed", "threw", "none"}
    BY <1>3 DEF CallFails, Fail
  <2>4. /\ todo' \in Seq(Checked)
        /\ polls' \in 0..Polls
        /\ step' \in {"call", "check", "close"}
        /\ todo' # <<>> <=> step' \in {"call", "check"}
    <3>1. Tail(todo) \in Seq(Checked) /\ <<>> \in Seq(Checked)
      BY <2>1, HeadTailProperties
    <3>2. GoOn(LeaveMethod) \/ GoOn(LeaveSubroutine)
      BY <1>3 DEF CallFails
    <3> QED BY <3>1, <3>2, GoOnRest DEF LeaveSubroutine, LeaveMethod
  <2> QED BY <1>3, <2>2, <2>3, <2>4 DEF CallFails
<1>4. CASE CheckFails
  <2>1. CASE polls > 0
    <3>1. polls' \in 0..Polls
      BY <1>4, <2>1, PollsAssumption DEF CheckFails
    <3> QED BY <1>4, <2>1, <3>1 DEF CheckFails
  <2>2. CASE ~(polls > 0)
    BY <1>4, <2>2 DEF CheckFails
  <2> QED BY <2>1, <2>2
<1>5. CASE CheckAnswers
  <2>1. todo # <<>> /\ confirmed' \in BOOLEAN /\ doubt' \in BOOLEAN
    BY <1>5 DEF CheckAnswers
  <2>2. CASE GoOn(NextCall)
    BY <1>5, <2>1, <2>2, GoOnNext DEF CheckAnswers
  <2>3. CASE ~GoOn(NextCall)
    BY <1>5, <2>1, <2>3, PollsAssumption DEF CheckAnswers
  <2> QED BY <2>2, <2>3
<1>6. CASE Abandon
  <2>1. todo # <<>> /\ Tail(todo) \in Seq(Checked)
    BY <1>6, HeadTailProperties DEF Abandon
  <2>2. /\ kkm' \in Kkm /\ acted' \in BOOLEAN /\ own' \in BOOLEAN
        /\ doubt' \in BOOLEAN
    BY <1>6, CarriedOutType DEF Abandon, Refused, Lost
  <2>3. outcome' \in {"ok", "failed", "threw", "none"}
    BY <1>6 DEF Abandon, Fail
  <2> QED BY <1>6, <2>1, <2>2, <2>3, GoOnRest DEF Abandon, LeaveSubroutine
<1>7. CASE ContinuePrint
  <2>1. todo # <<>> /\ Tail(todo) \in Seq(Checked)
    BY <1>7, HeadTailProperties DEF ContinuePrint
  <2>2. CASE GoOn(NextCall) /\ UNCHANGED <<outcome, doubt>>
    BY <1>7, <2>1, <2>2, GoOnNext DEF ContinuePrint
  <2>3. CASE polls > 0 /\ polls' = polls - 1 /\ UNCHANGED <<step, todo, outcome, doubt>>
    BY <1>7, <2>3, PollsAssumption DEF ContinuePrint
  <2>4. CASE Fail /\ doubt' = TRUE /\ GoOn(LeaveSubroutine)
    BY <1>7, <2>1, <2>4, GoOnRest DEF ContinuePrint, Fail, LeaveSubroutine
  <2> QED BY <1>7, <2>2, <2>3, <2>4 DEF ContinuePrint
<1>8. CASE Destroy
  <2>1. /\ kkm' \in Kkm /\ acted' \in BOOLEAN /\ own' \in BOOLEAN
        /\ doubt' \in BOOLEAN
    BY <1>8, CarriedOutType DEF Destroy, Refused, Lost
  <2> QED BY <1>8, <2>1 DEF Destroy
<1>9. CASE Settle
  <2>1. kkm' \in Kkm
    BY <1>9 DEF Settle, Registered, Kkm
  <2>2. acted' \in BOOLEAN
    BY <1>9 DEF Settle
  <2> QED BY <1>9, <2>1, <2>2 DEF Settle
<1>10. CASE Crash
  <2>1. <<>> \in Seq(Checked)
    BY EmptySeq
  <2>2. polls' \in 0..Polls
    BY <1>10, PollsAssumption DEF Crash
  <2> QED BY <1>10, <2>1, <2>2 DEF Crash
<1>11. CASE UNCHANGED vars
  BY <1>11 DEF vars
<1> QED
  BY <1>1, <1>2, <1>3, <1>4, <1>5, <1>6, <1>7, <1>8, <1>9, <1>10, <1>11
     DEF Next, SessionStep

(* Whatever the cash register answers, the counters of the two loops stay  *)
(* in their range, and the session knows what it has still to do.          *)
THEOREM TypeCorrect == Spec => []TypeOK
<1>1. Spec => []TypeInv
  BY TypeInit, TypeNext, PTL DEF Spec
<1>2. TypeInv => TypeOK
  BY DEF TypeInv
<1> QED BY <1>1, <1>2, PTL

-----------------------------------------------------------------------------
(* What covers a receipt that is open, and a document that is not          *)
(* finished: the flag and the destructor, the check and its cancel, or     *)
(* else the session is in doubt.                                           *)

ReceiptCovered == kkm.receipt => doubt \/ (cancel /\ step # "idle")

DocumentCovered == kkm.doc # "none" => doubt \/ step \in {"check", "abandon"}

Covered == ReceiptCovered /\ DocumentCovered

(* A call that is carried out opens a receipt only as openReceipt, and     *)
(* leaves a document only as one of Documents.                             *)
LEMMA CarriedOutCovers ==
  ASSUME TypeOK, NEW call, CarriedOut(call)
  PROVE  /\ kkm'.receipt => call = "open" \/ (kkm.receipt /\ call \notin {"close", "cancel"})
         /\ kkm'.doc # "none" => call \in Documents \/ (kkm.doc # "none" /\ call # "cancel")
<1>1. kkm' \in Effect(call, kkm) /\ kkm \in Kkm
  BY DEF CarriedOut, TypeOK
<1> QED BY <1>1 DEF Effect, Cancelled, Documents, Kkm

\* Every step keeps open receipts and unfinished documents covered.
LEMMA CoveredNext == TypeInv /\ Covered /\ [Next]_vars => Covered'
<1> SUFFICES ASSUME TypeInv, Covered, [Next]_vars PROVE Covered'
  OBVIOUS
<1>t. TypeOK
  BY DEF TypeInv
<1> USE DEF Covered, ReceiptCovered, DocumentCovered
<1>1. ASSUME NEW m \in Method, Begin(m) PROVE Covered'
  BY <1>1, <1>t DEF Begin, Busy, TypeOK, Kkm
<1>2. CASE CallSucceeds
  <2> DEFINE call == Head(Head(todo))
  <2>1. CarriedOut(call) /\ todo # <<>> /\ step = "call"
    BY <1>2, <1>t DEF CallSucceeds, TypeOK
  <2>2. step' \in {"call", "check", "close"} /\ (call \in Documents => step' = "check")
    <3>1. Tail(todo) \in Seq(Checked)
      BY <2>1, HeadTailProperties DEF TypeInv
    <3>2. GoOn(NextCall) \/ (GoOn(LeaveSubroutine) /\ call \notin Documents)
      BY <1>2 DEF CallSucceeds, NothingToDo, Documents
    <3> QED BY <2>1, <3>1, <3>2, GoOnNext, GoOnRest DEF LeaveSubroutine, TypeInv
  <2>3. /\ kkm'.receipt => call = "open" \/ (kkm.receipt /\ call \notin {"close", "cancel"})
        /\ kkm'.doc # "none" => call \in Documents \/ (kkm.doc # "none" /\ call # "cancel")
    BY <1>t, <2>1, CarriedOutCovers
  <2>4. cancel' = NeedToCancel(call) /\ doubt' = doubt
    BY <1>2 DEF CallSucceeds
  <2>5. kkm'.receipt => doubt' \/ cancel'
    BY <2>3, <2>4 DEF NeedToCancel
  <2> QED BY <2>1, <2>2, <2>3, <2>4, <2>5
<1>3. CASE CallFails
  <2>1. step = "call" /\ cancel' = cancel /\ todo # <<>>
    BY <1>3, <1>t DEF CallFails, TypeOK
  <2>2. step' \in {"call", "check", "close"}
    <3>1. Tail(todo) \in Seq(Checked) /\ <<>> \in Seq(Checked)
      BY <2>1, HeadTailProperties DEF TypeInv
    <3>2. GoOn(LeaveMethod) \/ GoOn(LeaveSubroutine)
      BY <1>3 DEF CallFails
    <3> QED BY <3>1, <3>2, GoOnRest DEF LeaveSubroutine, LeaveMethod
  <2>3. doubt' \/ (kkm' = kkm /\ doubt' = doubt)
    BY <1>3, <1>t DEF CallFails, Refused, Lost, TypeOK
  <2> QED BY <2>1, <2>2, <2>3
<1>4. CASE CheckFails
  BY <1>4 DEF CheckFails
<1>5. CASE CheckAnswers
  <2>1. step = "check" /\ cancel' = cancel /\ kkm' = kkm /\ todo # <<>>
    BY <1>5, <1>t DEF CheckAnswers, TypeOK
  <2>2. doubt => doubt'
    BY <1>5 DEF CheckAnswers
  <2>3. CASE GiveUp(polls, kkm.doc = "none")
    BY <1>5, <2>1, <2>2, <2>3 DEF CheckAnswers
  <2>4. CASE ~GiveUp(polls, kkm.doc = "none")
    <3>1. kkm.doc = "none"
      BY <2>4 DEF GiveUp
    <3>2. step' # "idle"
      BY <1>5, <2>1, <2>4, GoOnNext DEF CheckAnswers, TypeInv
    <3> QED BY <2>1, <2>2, <3>1, <3>2
  <2> QED BY <2>3, <2>4
<1>6. CASE Abandon
  <2>1. step = "abandon" /\ cancel' = cancel /\ todo # <<>>
    BY <1>6, <1>t DEF Abandon, TypeOK
  <2>2. step' # "idle"
    <3>1. Tail(todo) \in Seq(Checked)
      BY <2>1, HeadTailProperties DEF TypeInv
    <3> QED BY <1>6, <3>1, GoOnRest DEF Abandon, LeaveSubroutine
  <2>3. CASE CarriedOut("cancel") /\ UNCHANGED doubt
    <3>1. ~kkm'.receipt /\ kkm'.doc = "none"
      BY <1>t, <2>3, CarriedOutCovers DEF Documents
    <3> QED BY <3>1
  <2>4. CASE doubt' = TRUE
    BY <2>1, <2>2, <2>4
  <2> QED BY <1>6, <2>3, <2>4 DEF Abandon, Refused, Lost
<1>7. CASE ContinuePrint
  <2>1. step = "continue" /\ cancel' = cancel /\ kkm' = kkm /\ todo # <<>>
    BY <1>7, <1>t DEF ContinuePrint, TypeOK
  <2>2. doubt => doubt'
    BY <1>7 DEF ContinuePrint
  <2>3. step' # "idle"
    <3>1. Tail(todo) \in Seq(Checked)
      BY <2>1, HeadTailProperties DEF TypeInv
    <3>2. GoOn(NextCall) \/ GoOn(LeaveSubroutine) \/ step' = step
      BY <1>7 DEF ContinuePrint
    <3> QED BY <2>1, <3>1, <3>2, GoOnNext, GoOnRest DEF LeaveSubroutine, TypeInv
  <2> QED BY <2>1, <2>2, <2>3
<1>8. CASE Destroy
  <2>1. step = "close"
    BY <1>8 DEF Destroy
  <2>2. CASE CarriedOut("cancel") /\ UNCHANGED doubt
    <3>1. ~kkm'.receipt /\ kkm'.doc = "none"
      BY <1>t, <2>2, CarriedOutCovers DEF Documents
    <3> QED BY <3>1
  <2>3. CASE doubt' = TRUE
    BY <2>3
  <2>4. CASE ~cancel
    BY <1>8, <2>1, <2>4 DEF Destroy
  <2> QED BY <1>8, <2>2, <2>3, <2>4 DEF Destroy, Refused, Lost
<1>9. CASE Settle
  <2>1. kkm'.receipt = kkm.receipt /\ kkm'.doc = "none"
    BY <1>9, <1>t DEF Settle, Registered, TypeOK, Kkm
  <2> QED BY <1>9, <2>1 DEF Settle
<1>10. CASE Crash
  BY <1>10 DEF Crash
<1>11. CASE UNCHANGED vars
  BY <1>11 DEF vars
<1> QED
  BY <1>1, <1>2, <1>3, <1>4, <1>5, <1>6, <1>7, <1>8, <1>9, <1>10, <1>11
     DEF Next, SessionStep

(* However a method ends - it returns at any call, it throws, a check runs *)
(* out of polls - the cash register is left with an open receipt or an     *)
(* unfinished document only if it deceived the session or the process died.*)
THEOREM NoReceiptLeftOpenHolds == Spec => []NoReceiptLeftOpen
<1>1. Init => Covered
  BY DEF Init, Covered, ReceiptCovered, DocumentCovered, Busy
<1>2. Covered => NoReceiptLeftOpen
  BY DEF Covered, ReceiptCovered, DocumentCovered, NoReceiptLeftOpen, Busy
<1> QED BY <1>1, <1>2, TypeInit, TypeNext, CoveredNext, PTL DEF Spec

-----------------------------------------------------------------------------
(* The scripts of the operations that register a receipt: one subroutine,  *)
(* which acts with its last call, or leaves the receipt to its last check. *)

NotOfReceipt == {"save", "query-cash", "query-shift", "query-receipt"}

ActsLast ==
    {calls \in Checked :
        \A i \in 1..Len(calls) :
            /\ calls[i] \in Acts \cup {"check"} <=> i = Len(calls)
            /\ calls[i] \in Documents => calls[i] = "close"
            /\ calls[i] = "check" /\ i > 1 => calls[i - 1] \in Documents
            /\ calls[i] \notin NotOfReceipt}

OneSubroutine == Len(todo) <= 1 /\ (todo # <<>> => Head(todo) \in ActsLast)

ReceiptMethod == {"sell", "cash-in", "cash-out"}

\* The methods that register a receipt or cash act last.
LEMMA ReceiptScript ==
  ASSUME NEW m \in Method, m.name \in ReceiptMethod
  PROVE  /\ Len(Script(m)) = 1
         /\ Head(Script(m)) \in ActsLast
         /\ Script(m) # <<>> /\ Head(Head(Script(m))) # "check"
<1>1. CASE m.name = "sell"
  <2> DEFINE calls == <<"print", "login", "open", "print", "register", "pay",
                        "close", "check">>
  <2>1. Script(m) = Receipt
    BY <1>1, ScriptCases
  <2>2. Script(m) = <<calls>>
    BY <2>1 DEF Receipt
  <2>3. calls \in Checked
    BY DEF Checked, Call, Documents
  <2>4. calls \in ActsLast
    BY <2>3 DEF ActsLast, Acts, Documents, NotOfReceipt
  <2> QED BY <2>2, <2>4
<1>2. CASE m.name \in {"cash-in", "cash-out"}
  <2>1. Script(m) = Cash(m)
    BY <1>2, ScriptCases
  <2>2. Script(m) = <<<<"login", m.name>>>>
    BY <2>1 DEF Cash
  <2>3. <<"login", m.name>> \in Checked
    BY <1>2, CheckedTwo DEF Call, Documents
  <2>4. <<"login", m.name>> \in ActsLast
    BY <1>2, <2>3 DEF ActsLast, Acts, Documents, NotOfReceipt
  <2> QED BY <2>2, <2>4
<1> QED BY <1>1, <1>2 DEF ReceiptMethod

\* What is left of such a subroutine after a call.
LEMMA ActsLastTail ==
  ASSUME NEW calls \in ActsLast
  PROVE  /\ Head(calls) \in Acts \cup {"check"} <=> Tail(calls) = <<>>
         /\ Head(calls) \in Documents => Head(calls) = "close"
         /\ Head(calls) \notin NotOfReceipt
         /\ Tail(calls) # <<>> => Tail(calls) \in ActsLast
         /\ Tail(calls) # <<>> /\ Head(Tail(calls)) = "check" => Head(calls) = "close"
<1>1. calls \in Seq(Call) /\ calls # <<>>
  BY DEF Checked, ActsLast
<1>2. /\ Len(calls) \in Nat \ {0}
      /\ Head(calls) = calls[1]
      /\ Tail(calls) \in Seq(Call)
      /\ Len(Tail(calls)) = Len(calls) - 1
      /\ \A i \in 1..Len(Tail(calls)) : Tail(calls)[i] = calls[i + 1]
  BY <1>1, HeadTailProperties, EmptySeq
<1>3. ASSUME Len(calls) = 1 PROVE Tail(calls) = <<>>
  <2>1. Tail(calls) \in Seq(Call) /\ Len(Tail(calls)) = 0
    BY <1>2, <1>3
  <2> QED BY <2>1, EmptySeq
<1>4. 1 \in 1..Len(calls)
  BY <1>2
<1>5. /\ calls[1] \in Acts \cup {"check"} <=> 1 = Len(calls)
      /\ calls[1] \in Documents => calls[1] = "close"
      /\ calls[1] \notin NotOfReceipt
  BY <1>4 DEF ActsLast
<1>e. Tail(calls) = <<>> => Len(calls) = 1
  BY <1>2, EmptySeq
<1>c. ASSUME Tail(calls) # <<>>, Head(Tail(calls)) = "check"
      PROVE  Head(calls) = "close"
  <2>1. Len(Tail(calls)) \in Nat \ {0}
    BY <1>2, <1>c, LenProperties, EmptySeq
  <2>2. /\ 2 \in 1..Len(calls)
        /\ calls[2] = "check"
    BY <1>2, <1>c, <2>1
  <2>3. 2 > 1 /\ 2 - 1 = 1
    OBVIOUS
  <2>4. calls[2 - 1] \in Documents
    BY <2>2, <2>3 DEF ActsLast
  <2> QED BY <1>2, <1>5, <2>3, <2>4
<1>6. ASSUME Tail(calls) # <<>> PROVE Tail(calls) \in ActsLast
  <2>1. Tail(calls) \in Checked
    BY <1>6, TailChecked DEF ActsLast
  <2>2. ASSUME NEW i \in 1..Len(Tail(calls))
        PROVE  /\ Tail(calls)[i] \in Acts \cup {"check"} <=> i = Len(Tail(calls))
               /\ Tail(calls)[i] \in Documents => Tail(calls)[i] = "close"
               /\ Tail(calls)[i] = "check" /\ i > 1 => Tail(calls)[i - 1] \in Documents
               /\ Tail(calls)[i] \notin NotOfReceipt
    <3>1. i + 1 \in 1..Len(calls) /\ Tail(calls)[i] = calls[i + 1]
      BY <1>2
    <3>2. /\ calls[i + 1] \in Acts \cup {"check"} <=> i + 1 = Len(calls)
          /\ calls[i + 1] \in Documents => calls[i + 1] = "close"
          /\ calls[i + 1] = "check" /\ i + 1 > 1 => calls[(i + 1) - 1] \in Documents
          /\ calls[i + 1] \notin NotOfReceipt
      BY <3>1 DEF ActsLast
    <3>3. i + 1 = Len(calls) <=> i = Len(Tail(calls))
      BY <1>2
    <3>4. (i + 1) - 1 = i /\ i + 1 > 1
      BY <1>2
    <3>5. i > 1 => Tail(calls)[i - 1] = calls[i]
      BY <1>2
    <3> QED BY <3>1, <3>2, <3>3, <3>4, <3>5
  <2> QED BY <2>1, <2>2 DEF ActsLast
<1> QED BY <1>2, <1>3, <1>5, <1>6, <1>c, <1>e

\* A receipt has one subroutine: leaving it is leaving the method.
LEMMA OnlySubroutine ==
  ASSUME todo \in Seq(Checked), OneSubroutine, todo # <<>>
  PROVE  Len(todo) = 1 /\ Tail(todo) = <<>> /\ Head(todo) \in ActsLast
<1>1. Len(todo) \in Nat \ {0}
  BY LenProperties, EmptySeq
<1>2. Len(todo) = 1
  <2>1. Len(todo) <= 1
    BY DEF OneSubroutine
  <2>2. \A n \in Nat \ {0} : n <= 1 => n = 1
    OBVIOUS
  <2> QED BY <1>1, <2>1, <2>2, Zenon
<1>3. Tail(todo) \in Seq(Checked) /\ Len(Tail(todo)) = 0
  BY <1>2, HeadTailProperties
<1>4. Tail(todo) = <<>>
  BY <1>3, EmptySeq
<1> QED BY <1>2, <1>4 DEF OneSubroutine

(* One call further in the only subroutine of a receipt.                   *)
LEMMA ReceiptGoesOn ==
  ASSUME todo \in Seq(Checked), OneSubroutine, todo # <<>>, GoOn(NextCall)
  PROVE  /\ OneSubroutine'
         /\ Head(Head(todo)) \in Acts \cup {"check"} <=> todo' = <<>>
         /\ Head(Head(todo)) \in Documents => Head(Head(todo)) = "close"
         /\ Head(Head(todo)) \notin NotOfReceipt
         /\ todo' # <<>> /\ Head(Head(todo')) = "check" => Head(Head(todo)) = "close"
<1> DEFINE h == Head(todo)
<1>1. Tail(todo) = <<>> /\ h \in ActsLast
  BY OnlySubroutine
<1>2. todo' = IF Tail(h) = <<>> THEN Tail(todo) ELSE NextCall
  BY GoOnNext
<1> HIDE DEF h
<1>3. /\ Head(h) \in Acts \cup {"check"} <=> Tail(h) = <<>>
      /\ Head(h) \in Documents => Head(h) = "close"
      /\ Head(h) \notin NotOfReceipt
      /\ Tail(h) # <<>> => Tail(h) \in ActsLast
      /\ Tail(h) # <<>> /\ Head(Tail(h)) = "check" => Head(h) = "close"
  BY <1>1, ActsLastTail
<1>4. Tail(h) = <<>> => todo' = <<>>
  BY <1>1, <1>2
<1>5. CASE Tail(h) = <<>>
  <2>1. todo' = <<>> /\ Len(<<>>) = 0
    BY <1>4, <1>5, EmptySeq
  <2>2. Len(todo') <= 1
    BY <2>1
  <2> QED BY <1>3, <1>5, <2>1, <2>2 DEF OneSubroutine, h
<1>6. CASE Tail(h) # <<>>
  <2>1. Tail(h) \in ActsLast
    BY <1>3, <1>6
  <2>2. <<Tail(h)>> \in Seq(ActsLast) /\ Len(<<Tail(h)>>) = 1
        /\ Head(<<Tail(h)>>) = Tail(h)
    BY <2>1
  <2>3. NextCall = <<Tail(h)>>
    BY <1>1, <2>2, ConcatEmptySeq DEF NextCall, h
  <2>4. todo' = <<Tail(h)>>
    BY <1>2, <1>6, <2>3
  <2>5. Len(todo') <= 1 /\ Head(todo') \in ActsLast /\ Head(todo') = Tail(h)
        /\ todo' # <<>>
    BY <2>1, <2>2, <2>4
  <2> QED BY <1>3, <1>6, <2>5 DEF OneSubroutine, h
<1> QED BY <1>5, <1>6

-----------------------------------------------------------------------------
(* A receipt that is registered has been taken from the session's hands:   *)
(* while it was only begun nothing was registered, and once its last check *)
(* is under way only a cancel that the cash register refuses or obeys can  *)
(* make the session fail.                                                  *)

OwnDocument == own => kkm.doc # "none"

Progress ==
    /\ OneSubroutine
    /\ todo # <<>> => outcome = "ok"
    /\ step \in {"check", "continue"} => Head(Head(todo)) = "check"

Registering ==
    /\ acted /\ ~doubt => outcome = "ok" /\ step # "call" /\ kkm.doc = "none"
    /\ (acted \/ own) /\ ~doubt /\ todo # <<>> => ~cancel

OfReceipt == method.name \in ReceiptMethod

Honest ==
    /\ OwnDocument
    /\ OfReceipt => Progress /\ Registering

\* A document of the session is one the cash register has not finished.
LEMMA OwnNext == TypeInv /\ OwnDocument /\ [Next]_vars => OwnDocument'
<1> SUFFICES ASSUME TypeInv, OwnDocument, [Next]_vars PROVE OwnDocument'
  OBVIOUS
<1> USE DEF OwnDocument
<1>1. ASSUME NEW call, CarriedOut(call) PROVE OwnDocument'
  <2>1. kkm \in Kkm /\ kkm' \in Effect(call, kkm)
    BY <1>1 DEF CarriedOut, TypeInv, TypeOK
  <2>2. call \in Documents => kkm'.doc # "none"
    BY <2>1 DEF Effect, Documents, Kkm
  <2>3. call \notin Documents \cup {"cancel"} => kkm'.doc = kkm.doc
    BY <2>1 DEF Effect, Documents, Kkm
  <2>4. own' = ((own \/ call \in Documents) /\ call # "cancel")
    BY <1>1 DEF CarriedOut
  <2> QED BY <2>2, <2>3, <2>4
<1>2. ASSUME UNCHANGED <<kkm, own>> PROVE OwnDocument'
  BY <1>2
<1>3. ASSUME own' = FALSE PROVE OwnDocument'
  BY <1>3
<1>4. ASSUME NEW call, Refused(call) PROVE OwnDocument'
  BY <1>4 DEF Refused
<1>5. ASSUME NEW m \in Method, Begin(m) PROVE OwnDocument'
  BY <1>3, <1>5 DEF Begin
<1>6. ASSUME SessionStep PROVE OwnDocument'
  BY <1>1, <1>2, <1>4, <1>6
     DEF SessionStep, CallSucceeds, CallFails, CheckFails, CheckAnswers, Abandon,
         ContinuePrint, Destroy, Lost
<1> QED BY <1>2, <1>3, <1>5, <1>6 DEF Next, Settle, Crash, vars

(* What leaves the method or its only subroutine leaves nothing to do.     *)
LEMMA ReceiptLeaves ==
  ASSUME TypeInv, OneSubroutine, todo # <<>>,
         GoOn(LeaveSubroutine) \/ GoOn(LeaveMethod)
  PROVE  todo' = <<>> /\ step' = "close" /\ OneSubroutine'
<1>1. LeaveSubroutine = <<>> /\ LeaveMethod = <<>>
  BY OnlySubroutine DEF LeaveSubroutine, LeaveMethod, TypeInv
<1>2. <<>> \in Seq(Checked) /\ GoOn(<<>>)
  BY <1>1, EmptySeq
<1>3. todo' = <<>> /\ step' = "close"
  BY <1>2, GoOnRest
<1>4. Len(todo') <= 1
  BY <1>3, EmptySeq
<1> QED BY <1>3, <1>4 DEF OneSubroutine

\* Every step preserves Honest, of whatever method the session is.
LEMMA HonestNext ==
  TypeInv /\ Covered /\ Honest /\ [Next]_vars => Honest'
<1> SUFFICES ASSUME TypeInv, Covered, Honest, [Next]_vars PROVE Honest'
  OBVIOUS
<1>t. TypeOK /\ todo \in Seq(Checked)
  BY DEF TypeInv
<1>o. OwnDocument'
  BY OwnNext DEF Honest
<1>v. TypeInv' /\ DocumentCovered'
  BY TypeNext, CoveredNext DEF Covered
<1> SUFFICES ASSUME OfReceipt' PROVE Progress' /\ Registering'
  BY <1>o DEF Honest
\* An unfinished document of the session is being checked or cancelled.
<1>d. own => doubt \/ step \in {"check", "abandon"}
  BY DEF Honest, OwnDocument, Covered, DocumentCovered
<1>r. ASSUME UNCHANGED method PROVE OfReceipt /\ Progress /\ Registering
  BY <1>r DEF Honest, OfReceipt
<1>1. ASSUME NEW m \in Method, Begin(m) PROVE Progress' /\ Registering'
  <2>1. method' = m /\ GoOn(Script(m)) /\ m.name \in ReceiptMethod
    BY <1>1 DEF Begin, OfReceipt
  <2>2. Len(Script(m)) = 1 /\ Head(Script(m)) \in ActsLast
    BY <2>1, ReceiptScript
  <2>3. todo' = Script(m) /\ (step' = "check" => Head(Head(todo')) = "check")
        /\ step' \in {"call", "check", "close"}
    BY <2>1, ScriptChecked, GoOnRest
  <2>4. Len(todo') <= 1 /\ Head(todo') \in ActsLast
    <3>1. Len(Script(m)) <= 1
      BY <2>2
    <3> QED BY <2>2, <2>3, <3>1, Zenon
  <2> QED BY <1>1, <2>3, <2>4 DEF Begin, Progress, Registering, OneSubroutine
<1>2. CASE CallSucceeds
  <2> DEFINE call == Head(Head(todo))
  <2>1. /\ OfReceipt /\ Progress /\ Registering
        /\ step = "call" /\ todo # <<>> /\ outcome = "ok"
        /\ CarriedOut(call) /\ cancel' = NeedToCancel(call)
        /\ outcome' = "ok" /\ doubt' = doubt
    BY <1>2, <1>r, <1>t DEF CallSucceeds, TypeOK, Progress
  <2>2. CASE GoOn(NextCall)
    <3>1. /\ OneSubroutine'
          /\ call \in Acts \cup {"check"} => todo' = <<>>
          /\ call \in Documents => call = "close"
      BY <1>t, <2>1, <2>2, ReceiptGoesOn DEF Progress
    <3>2. /\ step' = "check" => Head(Head(todo')) = "check"
          /\ step' \in {"call", "check", "close"}
          /\ todo' # <<>> <=> step' \in {"call", "check"}
      BY <1>t, <2>1, <2>2, GoOnNext
    <3>3. ~doubt => ~acted /\ ~own
      BY <1>d, <2>1 DEF Registering
    <3>4. /\ acted' = (acted \/ call \in Acts)
          /\ own' = ((own \/ call \in Documents) /\ call # "cancel")
      BY <2>1 DEF CarriedOut
    <3>5. ASSUME acted', ~doubt' PROVE step' = "close" /\ todo' = <<>> /\ kkm'.doc = "none"
      <4>1. todo' = <<>> /\ step' = "close"
        BY <2>1, <3>1, <3>2, <3>3, <3>4, <3>5
      <4> QED BY <1>v, <3>5, <4>1 DEF DocumentCovered
    <3>6. ASSUME own', ~doubt' PROVE ~cancel'
      <4>1. call = "close"
        BY <2>1, <3>1, <3>3, <3>4, <3>6
      <4> QED BY <2>1, <4>1 DEF NeedToCancel
    <3> QED BY <2>1, <3>1, <3>2, <3>5, <3>6 DEF Progress, Registering
  <2>3. CASE NothingToDo(call) /\ GoOn(LeaveSubroutine)
    <3>1. todo' = <<>> /\ step' = "close" /\ OneSubroutine'
      BY <2>1, <2>3, ReceiptLeaves DEF Progress
    <3>2. call \notin Acts
      BY <2>3 DEF NothingToDo, Acts
    <3>3. acted' = acted
      BY <1>t, <2>1, <3>2 DEF CarriedOut, TypeOK
    <3> QED BY <2>1, <3>1, <3>3 DEF Progress, Registering
  <2> QED BY <1>2, <2>2, <2>3 DEF CallSucceeds
<1>3. CASE CallFails
  <2>1. /\ OfReceipt /\ Progress /\ Registering
        /\ step = "call" /\ todo # <<>>
    BY <1>3, <1>r, <1>t DEF CallFails, TypeOK
  <2>2. todo' = <<>> /\ step' = "close" /\ OneSubroutine'
    <3>1. GoOn(LeaveSubroutine) \/ GoOn(LeaveMethod)
      BY <1>3 DEF CallFails
    <3> QED BY <2>1, <3>1, ReceiptLeaves DEF Progress
  <2>3. doubt' \/ (acted' = acted /\ doubt' = doubt)
    BY <1>3, <1>t DEF CallFails, Refused, Lost, TypeOK
  <2> QED BY <2>1, <2>2, <2>3 DEF Progress, Registering
<1>4. CASE CheckFails
  <2>1. OfReceipt /\ Progress /\ Registering
    BY <1>4, <1>r DEF CheckFails
  <2> QED BY <1>4, <2>1 DEF CheckFails, Progress, Registering, OneSubroutine
<1>5. CASE CheckAnswers
  <2>1. /\ OfReceipt /\ Progress /\ Registering
        /\ step = "check" /\ todo # <<>> /\ Head(Head(todo)) = "check"
        /\ UNCHANGED <<kkm, cancel, outcome, acted, own>>
    BY <1>5, <1>r, <1>t DEF CheckAnswers, TypeOK, Progress
  <2>2. ~doubt' => ~doubt
    BY <1>5 DEF CheckAnswers
  <2>3. CASE GoOn(NextCall)
    <3>1. OneSubroutine' /\ todo' = <<>>
      BY <1>t, <2>1, <2>3, ReceiptGoesOn DEF Progress
    <3>2. step' = "close"
      BY <1>t, <2>1, <2>3, <3>1, GoOnNext
    <3> QED BY <2>1, <2>2, <3>1, <3>2 DEF Progress, Registering
  <2>4. CASE UNCHANGED todo /\ step' \in {"abandon", "continue"}
    BY <2>1, <2>2, <2>4 DEF Progress, Registering, OneSubroutine
  <2> QED BY <1>5, <2>3, <2>4 DEF CheckAnswers
<1>6. CASE Abandon
  <2>1. /\ OfReceipt /\ Progress /\ Registering
        /\ step = "abandon" /\ todo # <<>>
    BY <1>6, <1>r, <1>t DEF Abandon, TypeOK
  <2>2. todo' = <<>> /\ step' = "close" /\ OneSubroutine'
    BY <1>6, <2>1, ReceiptLeaves DEF Abandon, Progress
  \* The document was registered meanwhile: there is nothing to cancel.
  <2>3. CASE CarriedOut("cancel") /\ UNCHANGED doubt
    <3>1. acted' = acted
      BY <1>t, <2>3 DEF CarriedOut, Acts, TypeOK
    <3>2. Busy(kkm)
      BY <2>3 DEF CarriedOut, Possible
    <3>3. acted => doubt
      BY <2>1, <3>2 DEF Busy, Registering, Covered, ReceiptCovered
    <3> QED BY <2>2, <2>3, <3>1, <3>3 DEF Progress, Registering
  <2>4. CASE doubt' = TRUE
    BY <2>2, <2>4 DEF Progress, Registering
  <2>5. CASE Refused("cancel")
    BY <2>4, <2>5 DEF Refused
  <2> QED BY <1>6, <2>3, <2>4, <2>5 DEF Abandon, Lost
<1>7. CASE ContinuePrint
  <2>1. /\ OfReceipt /\ Progress /\ Registering
        /\ step = "continue" /\ todo # <<>> /\ Head(Head(todo)) = "check"
        /\ UNCHANGED <<kkm, cancel, acted, own>>
    BY <1>7, <1>r, <1>t DEF ContinuePrint, TypeOK, Progress
  <2>2. CASE GoOn(NextCall) /\ UNCHANGED <<outcome, doubt>>
    <3>1. OneSubroutine' /\ todo' = <<>>
      BY <1>t, <2>1, <2>2, ReceiptGoesOn DEF Progress
    <3>2. step' = "close"
      BY <1>t, <2>1, <2>2, <3>1, GoOnNext
    <3> QED BY <2>1, <2>2, <3>1, <3>2 DEF Progress, Registering
  <2>3. CASE UNCHANGED <<step, todo, outcome, doubt>>
    BY <2>1, <2>3 DEF Progress, Registering, OneSubroutine
  <2>4. CASE doubt' = TRUE /\ GoOn(LeaveSubroutine)
    <3>1. todo' = <<>> /\ step' = "close" /\ OneSubroutine'
      BY <2>1, <2>4, ReceiptLeaves DEF Progress
    <3> QED BY <2>4, <3>1 DEF Progress, Registering
  <2> QED BY <1>7, <2>2, <2>3, <2>4 DEF ContinuePrint
<1>8. CASE Destroy
  <2>1. /\ OfReceipt /\ Progress /\ Registering
        /\ step = "close" /\ todo = <<>> /\ step' = "idle" /\ todo' = <<>>
        /\ outcome' = outcome /\ cancel' = FALSE
    BY <1>8, <1>r, <1>t DEF Destroy, TypeOK
  <2>2. doubt' \/ (acted' = acted /\ doubt' = doubt)
    BY <1>8, <1>t DEF Destroy, CarriedOut, Refused, Lost, Acts, TypeOK
  <2>3. acted' /\ ~doubt' => kkm'.doc = "none"
    BY <1>v, <2>1 DEF DocumentCovered
  <2> QED BY <2>1, <2>2, <2>3 DEF Progress, Registering, OneSubroutine
<1>9. CASE Settle
  <2>1. /\ OfReceipt /\ Progress /\ Registering
        /\ UNCHANGED <<step, todo, outcome, cancel, doubt>>
        /\ acted' = (acted \/ own) /\ own' = FALSE
    BY <1>9, <1>r DEF Settle
  <2>2. kkm'.doc = "none"
    BY <1>9, <1>t DEF Settle, Registered, TypeOK, Kkm
  <2>3. own /\ ~doubt => outcome = "ok" /\ step # "call"
    BY <1>d, <1>t, <2>1 DEF TypeOK, Progress
  <2> QED BY <2>1, <2>2, <2>3 DEF Progress, Registering, OneSubroutine
<1>10. CASE Crash
  <2>1. Len(<<>>) <= 1
    BY EmptySeq
  <2> QED BY <1>10, <2>1 DEF Crash, Progress, Registering, OneSubroutine
<1>11. CASE UNCHANGED vars
  <2>1. Progress /\ Registering
    BY <1>11, <1>r DEF vars
  <2> QED BY <1>11, <2>1 DEF vars, Progress, Registering, OneSubroutine
<1> QED
  BY <1>1, <1>2, <1>3, <1>4, <1>5, <1>6, <1>7, <1>8, <1>9, <1>10, <1>11
     DEF Next, SessionStep

\* At first nothing is open, unfinished or registered.
LEMMA HonestInit == Init => Covered /\ Honest
<1> SUFFICES ASSUME Init PROVE Covered /\ Honest
  OBVIOUS
<1>1. Covered
  BY DEF Init, Covered, ReceiptCovered, DocumentCovered, Busy
<1>2. Len(<<>>) <= 1
  BY EmptySeq
<1>3. Honest
  BY <1>2 DEF Init, Honest, OwnDocument, Progress, Registering, OneSubroutine
<1> QED BY <1>1, <1>3

(* A receipt that was registered, or cash that was taken in or out, is     *)
(* answered as a failure or thrown only if the session was left in doubt:  *)
(* the check that outlasts its polls, the answer that is lost, the cancel  *)
(* that is refused are the only ways.                                      *)
THEOREM HonestFailureHolds == Spec => []HonestFailure
<1>1. Init => Covered /\ Honest
  BY HonestInit
<1>2. TypeInv /\ Honest => HonestFailure
  <2> SUFFICES ASSUME TypeInv, Honest, OpOf(method.name) = "receipt"
               PROVE  HonestFailure
    BY DEF HonestFailure
  <2>1. method.name \in ReceiptMethod
    BY DEF OpOf, ReceiptMethod
  <2> QED BY <2>1 DEF HonestFailure, Honest, OfReceipt, Registering
<1> QED BY <1>1, <1>2, TypeInit, TypeNext, CoveredNext, HonestNext, PTL DEF Spec
-----------------------------------------------------------------------------
(* Where a session is: the first call left is a check exactly while one is *)
(* under way.                                                              *)

Placed ==
    /\ step = "call" => Head(Head(todo)) # "check"
    /\ step \in {"check", "abandon", "continue"} => Head(Head(todo)) = "check"

\* Going on never misses a check, and never takes another call for one.
LEMMA GoOnPlaced ==
  ASSUME NEW t, GoOn(t)
  PROVE  Placed' /\ step' \in {"call", "check", "close"}
  BY DEF GoOn, Placed

\* Every step of a session is in its place.
LEMMA PlacedNext == TypeInv /\ Placed /\ [Next]_vars => Placed'
<1> SUFFICES ASSUME TypeInv, Placed, [Next]_vars PROVE Placed'
  OBVIOUS
<1>1. ASSUME NEW t, GoOn(t) PROVE Placed'
  BY <1>1, GoOnPlaced
<1>2. ASSUME step' = "idle" PROVE Placed'
  BY <1>2 DEF Placed
<1>3. ASSUME UNCHANGED todo, step' = step PROVE Placed'
  BY <1>3 DEF Placed
<1>4. ASSUME step \in {"check", "continue"}, UNCHANGED todo,
             step' \in {"check", "continue", "abandon"}
      PROVE  Placed'
  BY <1>4 DEF Placed
<1>5. ASSUME SessionStep PROVE Placed'
  BY <1>1, <1>2, <1>3, <1>4, <1>5
     DEF SessionStep, CallSucceeds, CallFails, CheckFails, CheckAnswers, Abandon,
         ContinuePrint, Destroy
<1> QED BY <1>1, <1>2, <1>3, <1>5 DEF Next, Begin, Settle, Crash, vars
-----------------------------------------------------------------------------
(* How the methods end, of each operation that Ending constrains.  A       *)
(* receipt or cash has been registered by nobody while calls are left, by  *)
(* the session's document once its check is under way; learn has saved     *)
(* once it is past its first call; a status only asks.                     *)

NotActed == ~acted /\ ~own

StatusEnding ==
    /\ todo \in {<<>>, <<<<"query-status">>>>}
    /\ NotActed /\ outcome # "threw"

LearnEnding ==
    outcome \in {"ok", "failed"} =>
        acted \/ (todo = Learn /\ step = "call" /\ outcome = "ok")

ReceiptEnding ==
    /\ step = "call" \/ outcome = "threw" => NotActed
    /\ step = "check" => own \/ acted
    /\ step = "continue" => acted
    /\ todo = <<>> /\ outcome = "ok" => acted

Endings ==
    /\ method.name = "status" => StatusEnding
    /\ method.name = "learn" => LearnEnding
    /\ OfReceipt => ReceiptEnding

\* What a call that is carried out adds to the history.
LEMMA CarriedOutHistory ==
  ASSUME TypeOK, NEW call, CarriedOut(call)
  PROVE  /\ acted' = (acted \/ call \in Acts)
         /\ own' = ((own \/ call \in Documents) /\ call # "cancel")
         /\ acted => acted'
         /\ NotActed /\ call \notin Acts \cup Documents => NotActed'
  BY DEF CarriedOut, NotActed, TypeOK

\* A status begins, and goes on, with its one query or with nothing.
LEMMA StatusNext ==
  TypeInv /\ Placed /\ (method.name = "status" => StatusEnding) /\ [Next]_vars
    => (method.name = "status" => StatusEnding)'
<1> SUFFICES ASSUME TypeInv, Placed, method.name = "status" => StatusEnding,
                    [Next]_vars, method'.name = "status"
             PROVE  StatusEnding'
  OBVIOUS
<1>t. TypeOK /\ todo \in Seq(Checked) /\ <<>> \in Seq(Checked)
  BY EmptySeq DEF TypeInv
<1> DEFINE Query == <<<<"query-status">>>>
<1>q. /\ Head(Head(Query)) = "query-status" /\ Tail(Query) = <<>>
      /\ Head(Query) = <<"query-status">> /\ Tail(<<"query-status">>) = <<>>
      /\ Query # <<>>
  OBVIOUS
<1> HIDE DEF Query
<1>s. StatusEnding' <=> todo' \in {<<>>, Query} /\ NotActed' /\ outcome' # "threw"
  BY DEF StatusEnding, Query
<1>r. ASSUME UNCHANGED method
      PROVE  todo \in {<<>>, Query} /\ NotActed /\ outcome # "threw"
  BY <1>r DEF StatusEnding, Query
<1>1. ASSUME NEW m \in Method, Begin(m) PROVE StatusEnding'
  <2>1. m.name = "status" /\ GoOn(Script(m))
    BY <1>1 DEF Begin
  <2>2. Script(m) = Query
    BY <2>1, ScriptCases DEF Query
  <2>3. todo' = Query
    BY <2>1, <2>2, ScriptChecked, GoOnRest
  <2> QED BY <1>1, <1>s, <2>3 DEF Begin, NotActed
<1>2. ASSUME CallSucceeds \/ CallFails PROVE StatusEnding'
  <2>1. /\ todo = Query /\ NotActed /\ outcome # "threw" /\ todo # <<>>
    BY <1>2, <1>r, <1>t, <1>q DEF CallSucceeds, CallFails, TypeOK
  <2>2. todo' = <<>>
    <3>1. GoOn(NextCall) \/ GoOn(LeaveSubroutine) \/ GoOn(LeaveMethod)
      BY <1>2 DEF CallSucceeds, CallFails
    <3>2. ASSUME GoOn(NextCall) PROVE todo' = <<>>
      BY <1>t, <1>q, <2>1, <3>2, GoOnNext
    <3>3. LeaveSubroutine = <<>> /\ LeaveMethod = <<>>
      BY <1>q, <2>1 DEF LeaveSubroutine, LeaveMethod
    <3> QED BY <1>t, <3>1, <3>2, <3>3, GoOnRest
  <2>3. Head(Head(todo)) = "query-status"
    BY <1>q, <2>1
  <2>4. NotActed'
    <3>1. CarriedOut("query-status") \/ Refused("query-status")
      BY <1>2, <2>3 DEF CallSucceeds, CallFails, Lost
    <3>2. "query-status" \notin Acts \cup Documents
      BY DEF Acts, Documents
    <3> QED BY <1>t, <2>1, <3>1, <3>2, CarriedOutHistory DEF Refused, NotActed
  <2>5. outcome' # "threw"
    BY <1>2, <2>1, <2>3 DEF CallSucceeds, CallFails, Throws, Fail
  <2> QED BY <1>s, <2>2, <2>4, <2>5
<1>3. ASSUME UNCHANGED method, step \in {"check", "abandon", "continue"}
      PROVE  FALSE
  BY <1>r, <1>t, <1>q, <1>3 DEF Placed, TypeOK
<1>4. CASE Destroy
  <2>1. /\ todo \in {<<>>, Query} /\ NotActed /\ outcome # "threw"
        /\ UNCHANGED <<todo, outcome>>
    BY <1>4, <1>r DEF Destroy
  <2>2. "cancel" \notin Acts \cup Documents
    BY DEF Acts, Documents
  <2>3. NotActed'
    BY <1>4, <1>t, <2>1, <2>2, CarriedOutHistory DEF Destroy, Refused, Lost, NotActed
  <2> QED BY <1>s, <2>1, <2>3
<1>5. CASE Settle
  BY <1>5, <1>r, <1>s DEF Settle, NotActed
<1>6. CASE Crash
  BY <1>6, <1>r, <1>s DEF Crash, NotActed
<1>7. CASE UNCHANGED vars
  BY <1>7, <1>r, <1>s DEF vars, NotActed
<1> QED
  BY <1>1, <1>2, <1>3, <1>4, <1>5, <1>6, <1>7
     DEF Next, SessionStep, CheckFails, CheckAnswers, Abandon, ContinuePrint

\* Learn saves first, and an error of saveParams is thrown.
LEMMA LearnNext ==
  TypeInv /\ Placed /\ (method.name = "learn" => LearnEnding) /\ [Next]_vars
    => (method.name = "learn" => LearnEnding)'
<1> SUFFICES ASSUME TypeInv, Placed, method.name = "learn" => LearnEnding,
                    [Next]_vars, method'.name = "learn"
             PROVE  LearnEnding'
  OBVIOUS
<1>t. TypeOK
  BY DEF TypeInv
<1>q. Head(Head(Learn)) = "save"
  BY DEF Learn
<1>s. (todo = Learn)' <=> todo' = Learn
  BY DEF Learn
<1>r. ASSUME UNCHANGED method PROVE LearnEnding
  BY <1>r
\* Past the first call, what was saved stays saved.
<1>a. ASSUME UNCHANGED method, acted => acted',
             outcome' \in {"ok", "failed"} => outcome \in {"ok", "failed"},
             step # "call"
      PROVE  LearnEnding'
  BY <1>r, <1>a DEF LearnEnding
<1>1. ASSUME NEW m \in Method, Begin(m) PROVE LearnEnding'
  <2>1. m.name = "learn" /\ GoOn(Script(m))
    BY <1>1 DEF Begin
  <2>2. Script(m) = Learn
    BY <2>1, ScriptCases
  <2>3. todo' = Learn /\ Placed' /\ step' \in {"call", "check", "close"}
        /\ (todo' # <<>> <=> step' \in {"call", "check"})
    BY <2>1, <2>2, ScriptChecked, GoOnRest, GoOnPlaced
  <2>4. Learn # <<>>
    BY DEF Learn
  <2>5. step' = "call"
    BY <1>q, <2>3, <2>4 DEF Placed
  <2> QED BY <1>1, <1>s, <2>3, <2>5 DEF Begin, LearnEnding
<1>2. CASE CallSucceeds
  <2>1. /\ CarriedOut(Head(Head(todo))) /\ outcome' = outcome
        /\ LearnEnding /\ step = "call"
    BY <1>2, <1>r DEF CallSucceeds
  <2>2. acted => acted'
    BY <1>t, <2>1, CarriedOutHistory
  <2>3. todo = Learn => acted'
    BY <1>t, <1>q, <2>1, CarriedOutHistory DEF Acts
  <2> QED BY <2>1, <2>2, <2>3 DEF LearnEnding
<1>3. CASE CallFails
  <2>1. LearnEnding /\ step = "call"
    BY <1>3, <1>r DEF CallFails
  <2>2. acted => acted'
    BY <1>3, <1>t, CarriedOutHistory DEF CallFails, Refused, Lost
  <2>3. todo = Learn => outcome' = "threw"
    BY <1>3, <1>q DEF CallFails, Throws
  <2>4. outcome' \in {"ok", "failed"} => outcome \in {"ok", "failed"}
    BY <1>3, <1>t DEF CallFails, Fail, TypeOK
  <2> QED BY <2>1, <2>2, <2>3, <2>4 DEF LearnEnding
<1>4. CASE CheckFails \/ CheckAnswers \/ ContinuePrint
  BY <1>4, <1>a, <1>t DEF CheckFails, CheckAnswers, ContinuePrint, Fail, TypeOK
<1>5. CASE Abandon \/ Destroy
  <2>1. acted => acted'
    BY <1>5, <1>t, CarriedOutHistory DEF Abandon, Destroy, Refused, Lost
  <2> QED BY <1>5, <1>a, <1>t, <2>1 DEF Abandon, Destroy, Fail, TypeOK
<1>6. CASE Settle
  BY <1>6, <1>r, <1>s DEF Settle, LearnEnding
<1>7. CASE Crash
  BY <1>7 DEF Crash, LearnEnding
<1>8. CASE UNCHANGED vars
  BY <1>8, <1>r, <1>s DEF vars, LearnEnding
<1> QED
  BY <1>1, <1>2, <1>3, <1>4, <1>5, <1>6, <1>7, <1>8 DEF Next, SessionStep

(* A receipt or cash: nothing is registered while calls are left, and the  *)
(* last call of the only subroutine registers or is the check of what      *)
(* closeReceipt left.                                                      *)
LEMMA ReceiptNext ==
  TypeInv /\ Placed /\ Honest /\ (OfReceipt => ReceiptEnding) /\ [Next]_vars
    => (OfReceipt => ReceiptEnding)'
<1> SUFFICES ASSUME TypeInv, Placed, Honest, OfReceipt => ReceiptEnding,
                    [Next]_vars, OfReceipt'
             PROVE  ReceiptEnding'
  OBVIOUS
<1>t. TypeOK /\ todo \in Seq(Checked)
  BY DEF TypeInv
<1>r. ASSUME UNCHANGED method
      PROVE  /\ OfReceipt /\ ReceiptEnding /\ OneSubroutine
             /\ todo # <<>> => outcome = "ok"
  BY <1>r DEF Honest, OfReceipt, Progress
<1>o. own => kkm.doc # "none"
  BY DEF Honest, OwnDocument
<1>1. ASSUME NEW m \in Method, Begin(m) PROVE ReceiptEnding'
  <2>1. m.name \in ReceiptMethod /\ GoOn(Script(m))
    BY <1>1 DEF Begin, OfReceipt
  <2>2. Script(m) # <<>> /\ Head(Head(Script(m))) # "check"
    BY <2>1, ReceiptScript
  <2>3. /\ todo' = Script(m)
        /\ step' \in {"call", "check", "close"}
        /\ step' = "check" => Head(Head(todo')) = "check"
    BY <2>1, ScriptChecked, GoOnRest
  <2> QED BY <1>1, <2>2, <2>3 DEF Begin, ReceiptEnding, NotActed
<1>2. CASE CallSucceeds
  <2> DEFINE call == Head(Head(todo))
  <2>1. /\ ReceiptEnding /\ OneSubroutine /\ step = "call" /\ todo # <<>>
        /\ call # "check" /\ CarriedOut(call) /\ outcome' = outcome /\ NotActed
    BY <1>2, <1>r, <1>t DEF CallSucceeds, TypeOK, Placed, ReceiptEnding
  <2>2. /\ acted' = (acted \/ call \in Acts)
        /\ own' = ((own \/ call \in Documents) /\ call # "cancel")
    BY <1>t, <2>1, CarriedOutHistory
  <2>3. call \notin NotOfReceipt
    BY <1>t, <2>1, OnlySubroutine, ActsLastTail
  <2>4. GoOn(NextCall)
    BY <1>2, <2>3 DEF CallSucceeds, NothingToDo, NotOfReceipt
  <2>5. /\ call \in Acts \cup {"check"} <=> todo' = <<>>
        /\ call \in Documents => call = "close"
        /\ todo' # <<>> /\ Head(Head(todo')) = "check" => call = "close"
    BY <1>t, <2>1, <2>4, ReceiptGoesOn
  <2>6. /\ step' \in {"call", "check", "close"}
        /\ todo' # <<>> <=> step' \in {"call", "check"}
        /\ call \in Documents => step' = "check"
        /\ step' = "check" => Head(Head(todo')) = "check"
    BY <1>t, <2>1, <2>4, GoOnNext
  <2> HIDE DEF call
  <2>7. step' = "call" => NotActed'
    BY <2>1, <2>2, <2>5, <2>6 DEF NotActed
  <2>8. outcome' = "threw" => NotActed'
    <3>1. outcome # "threw"
      BY <1>2, <1>r, <2>1 DEF CallSucceeds
    <3> QED BY <2>1, <3>1
  <2>9. step' = "check" => own'
    BY <2>2, <2>5, <2>6 DEF Documents
  <2>10. todo' = <<>> => acted'
    BY <2>1, <2>2, <2>5
  <2> QED BY <2>6, <2>7, <2>8, <2>9, <2>10 DEF ReceiptEnding
<1>3. CASE CallFails
  <2> DEFINE call == Head(Head(todo))
  <2>1. /\ ReceiptEnding /\ OneSubroutine /\ step = "call" /\ todo # <<>> /\ NotActed
    BY <1>3, <1>r, <1>t DEF CallFails, TypeOK, ReceiptEnding
  <2>2. todo' = <<>> /\ step' = "close"
    <3>1. GoOn(LeaveSubroutine) \/ GoOn(LeaveMethod)
      BY <1>3 DEF CallFails
    <3> QED BY <2>1, <3>1, ReceiptLeaves
  <2>3. outcome' # "ok"
    BY <1>3 DEF CallFails, Fail
  \* The calls whose error is thrown register nothing.
  <2>4. outcome' = "threw" => call \in Throws
    <3>1. outcome = "ok"
      BY <1>3, <1>r, <2>1 DEF CallFails
    <3> QED BY <1>3, <3>1 DEF CallFails, Fail
  <2>5. call \notin NotOfReceipt
    BY <1>t, <2>1, OnlySubroutine, ActsLastTail
  <2>6. call \in Throws => NotActed'
    <3>1. call \in Throws => call \notin Acts \cup Documents
      BY <2>5 DEF Throws, Acts, Documents, NotOfReceipt
    <3> QED BY <1>3, <1>t, <2>1, <3>1, CarriedOutHistory
            DEF CallFails, Refused, Lost, NotActed
  <2> QED BY <2>2, <2>3, <2>4, <2>6 DEF ReceiptEnding
<1>4. CASE CheckFails
  <2>1. ReceiptEnding /\ step = "check" /\ todo # <<>>
    BY <1>4, <1>r, <1>t DEF CheckFails, TypeOK
  <2> QED BY <1>4, <2>1 DEF CheckFails, ReceiptEnding, NotActed
<1>5. CASE CheckAnswers
  <2>1. /\ ReceiptEnding /\ OneSubroutine /\ step = "check" /\ todo # <<>>
        /\ own \/ acted
        /\ outcome = "ok"
        /\ UNCHANGED <<outcome, acted, own>>
    BY <1>5, <1>r, <1>t DEF CheckAnswers, TypeOK, ReceiptEnding
  <2>2. CASE step' = "abandon" /\ UNCHANGED todo
    BY <2>1, <2>2 DEF ReceiptEnding
  \* The document is closed: it was the session's, and has been registered.
  <2>3. CASE ~GiveUp(polls, kkm.doc = "none")
    <3>1. kkm.doc = "none" /\ acted'
      BY <1>o, <2>1, <2>3 DEF GiveUp
    <3>2. CASE GoOn(NextCall)
      <4>1. Head(Head(todo)) = "check"
        BY <2>1 DEF Placed
      <4>2. todo' = <<>>
        BY <1>t, <2>1, <3>2, <4>1, ReceiptGoesOn
      <4>3. step' = "close"
        BY <1>t, <2>1, <3>2, <4>2, GoOnNext
      <4> QED BY <2>1, <3>1, <4>3 DEF ReceiptEnding
    <3>3. CASE step' = "continue"
      BY <2>1, <3>1, <3>3 DEF ReceiptEnding
    <3> QED BY <1>5, <2>3, <3>2, <3>3 DEF CheckAnswers
  <2> QED BY <1>5, <2>2, <2>3 DEF CheckAnswers
<1>6. CASE Abandon
  <2>1. /\ OneSubroutine /\ step = "abandon" /\ todo # <<>> /\ outcome = "ok"
    BY <1>6, <1>r, <1>t DEF Abandon, TypeOK
  <2>2. todo' = <<>> /\ step' = "close"
    BY <1>6, <2>1, ReceiptLeaves DEF Abandon
  <2>3. outcome' = "failed"
    BY <1>6, <2>1 DEF Abandon, Fail
  <2> QED BY <2>2, <2>3 DEF ReceiptEnding
<1>7. CASE ContinuePrint
  <2>1. /\ OneSubroutine /\ step = "continue" /\ todo # <<>> /\ outcome = "ok"
        /\ acted' /\ UNCHANGED acted
    BY <1>7, <1>r, <1>t DEF ContinuePrint, TypeOK, ReceiptEnding
  <2>2. CASE GoOn(NextCall) /\ UNCHANGED outcome
    <3>1. Head(Head(todo)) = "check"
      BY <2>1 DEF Placed
    <3>2. todo' = <<>>
      BY <1>t, <2>1, <2>2, <3>1, ReceiptGoesOn
    <3>3. step' = "close"
      BY <1>t, <2>1, <2>2, <3>2, GoOnNext
    <3> QED BY <2>1, <2>2, <3>3 DEF ReceiptEnding
  <2>3. CASE UNCHANGED <<step, todo, outcome>>
    BY <2>1, <2>3 DEF ReceiptEnding
  <2>4. CASE Fail /\ GoOn(LeaveSubroutine)
    <3>1. todo' = <<>> /\ step' = "close"
      BY <2>1, <2>4, ReceiptLeaves
    <3> QED BY <2>1, <2>4, <3>1 DEF Fail, ReceiptEnding
  <2> QED BY <1>7, <2>2, <2>3, <2>4 DEF ContinuePrint
<1>8. CASE Destroy
  <2>1. /\ ReceiptEnding /\ step' = "idle" /\ UNCHANGED <<todo, outcome>>
    BY <1>8, <1>r DEF Destroy
  <2>2. (acted => acted') /\ (NotActed => NotActed')
    BY <1>8, <1>t, CarriedOutHistory
       DEF Destroy, Refused, Lost, NotActed, Acts, Documents
  <2> QED BY <2>1, <2>2 DEF ReceiptEnding
<1>9. CASE Settle
  BY <1>9, <1>r, <1>t DEF Settle, ReceiptEnding, NotActed, TypeOK
<1>10. CASE Crash
  BY <1>10 DEF Crash, ReceiptEnding
<1>11. CASE UNCHANGED vars
  BY <1>11, <1>r DEF vars, ReceiptEnding, NotActed
<1> QED
  BY <1>1, <1>2, <1>3, <1>4, <1>5, <1>6, <1>7, <1>8, <1>9, <1>10, <1>11
     DEF Next, SessionStep

(* What KkmOpHandler assumes of Device, whatever the cash register answers *)
(* and however long it takes: a status changes nothing and throws nothing, *)
(* a receipt that is answered is registered and one that is thrown is not, *)
(* learn fails only after it has saved.                                    *)
THEOREM EndingAsAssumedHolds == Spec => []EndingAsAssumed
<1>1. Init => Covered /\ Honest
  BY HonestInit
<1>2. Init => Placed /\ Endings
  BY DEF Init, Placed, Endings, StatusEnding, LearnEnding, ReceiptEnding,
         NotActed, OfReceipt, ReceiptMethod
<1>3. TypeInv /\ Placed /\ Honest /\ Endings /\ [Next]_vars => Endings'
  BY StatusNext, LearnNext, ReceiptNext DEF Endings
<1>4. TypeInv /\ Endings => EndingAsAssumed
  <2> SUFFICES ASSUME TypeInv, Endings, step = "idle", outcome # "none"
               PROVE  <<outcome, acted>> \in Ending(OpOf(method.name))
    BY DEF EndingAsAssumed
  <2>1. outcome \in {"ok", "failed", "threw"} /\ acted \in BOOLEAN /\ todo = <<>>
    BY DEF TypeInv, TypeOK
  <2>2. CASE method.name = "status"
    <3>1. OpOf(method.name) = "status"
      BY <2>2 DEF OpOf
    <3>2. outcome # "threw" /\ ~acted
      BY <2>2 DEF Endings, StatusEnding, NotActed
    <3> QED BY <2>1, <3>1, <3>2 DEF Ending
  <2>3. CASE method.name = "learn"
    <3>1. OpOf(method.name) = "learn"
      BY <2>3 DEF OpOf
    <3>2. outcome \in {"ok", "failed"} => acted
      BY <2>3 DEF Endings, LearnEnding
    <3> QED BY <2>1, <3>1, <3>2 DEF Ending
  <2>4. CASE method.name \in ReceiptMethod
    <3>1. OpOf(method.name) = "receipt"
      BY <2>4 DEF OpOf, ReceiptMethod
    <3>2. (outcome = "ok" => acted) /\ (outcome = "threw" => ~acted)
      BY <2>1, <2>4 DEF Endings, ReceiptEnding, NotActed, OfReceipt
    <3> QED BY <2>1, <3>1, <3>2 DEF Ending
  <2>5. CASE method.name \notin ReceiptMethod \cup {"status", "learn"}
    <3>1. OpOf(method.name) = "report"
      BY <2>5 DEF OpOf, ReceiptMethod
    <3> QED BY <2>1, <3>1 DEF Ending
  <2> QED BY <2>2, <2>3, <2>4, <2>5
<1> QED
  BY <1>1, <1>2, <1>3, <1>4, TypeInit, TypeNext, CoveredNext, HonestNext,
     PlacedNext, PTL DEF Spec
-----------------------------------------------------------------------------
(* A success that is answered: closeShift, reportX and resetState.  What   *)
(* is left of their scripts is one of the positions below, and each keeps  *)
(* what the calls before it have shown or done.                            *)

ReportTail(m) == When(m.name = "report-x", <<"report">>)
ShiftTail(m) == SubCloseShift(m) \o ReportTail(m)
CashTail(m) == SubCashOut(m) \o ShiftTail(m)

ResetCalls == {<<"query-receipt", "cancel">>, <<"cancel">>}
CashCalls == {<<"query-cash", "login", "cash-out-all">>,
              <<"login", "cash-out-all">>, <<"cash-out-all">>}
ShiftCalls == {<<"query-shift", "login", "close-shift", "check">>,
               <<"login", "close-shift", "check">>,
               <<"close-shift", "check">>, <<"check">>}

\* What each method's script is made of.
LEMMA ShiftScript ==
  ASSUME NEW m \in Method, m.name \in ShiftMethod
  PROVE  Script(m) = IF m.name = "reset-state"
                     THEN <<<<"query-receipt", "cancel">>>> \o CashTail(m)
                     ELSE CashTail(m)
<1>1. /\ SubCashOut(m) \in {<<>>, <<<<"query-cash", "login", "cash-out-all">>>>}
      /\ SubCloseShift(m) \in {<<>>, <<<<"query-shift", "login", "close-shift", "check">>>>}
  BY DEF SubCashOut, SubCloseShift, When
<1> DEFINE S == Seq(Call)
<1>2. /\ <<"query-cash", "login", "cash-out-all">> \in S
      /\ <<"query-shift", "login", "close-shift", "check">> \in S
      /\ <<"report">> \in S /\ <<"query-receipt", "cancel">> \in S
  BY DEF Call
<1> HIDE DEF S
<1>3. SubCashOut(m) \in Seq(S) /\ SubCloseShift(m) \in Seq(S)
  <2>1. /\ <<<<"query-cash", "login", "cash-out-all">>>> \in Seq(S)
        /\ <<<<"query-shift", "login", "close-shift", "check">>>> \in Seq(S)
    BY <1>2
  <2>2. <<>> \in Seq(S)
    BY EmptySeq
  <2> QED BY <1>1, <2>1, <2>2
<1> DEFINE details == SubCashOut(m) \o SubCloseShift(m)
<1>4. details \in Seq(S)
  BY <1>3, ConcatProperties
<1>5. Script(m) = Shift(m)
  BY ScriptCases
<1>6. CASE m.name = "report-x"
  <2>1. ReportTail(m) = <<<<"report">>>>
    BY <1>6 DEF ReportTail, When
  <2>2. Shift(m) = details \o <<<<"report">>>>
    BY <1>6 DEF Shift
  <2>3. <<<<"report">>>> \in Seq(S)
    BY <1>2
  <2>4. details \o <<<<"report">>>> =
          SubCashOut(m) \o (SubCloseShift(m) \o <<<<"report">>>>)
    BY <1>3, <2>3, ConcatAssociative
  <2> QED BY <1>5, <1>6, <2>1, <2>2, <2>4 DEF CashTail, ShiftTail
<1>7. CASE m.name # "report-x"
  <2>1. ReportTail(m) = <<>>
    BY <1>7 DEF ReportTail, When
  <2>2. ShiftTail(m) = SubCloseShift(m)
    BY <1>3, <2>1, ConcatEmptySeq DEF ShiftTail
  <2>3. Shift(m) = IF m.name = "reset-state"
                   THEN <<<<"query-receipt", "cancel">>>> \o details ELSE details
    BY <1>7 DEF Shift, ShiftMethod
  <2> QED BY <1>5, <2>2, <2>3 DEF CashTail
<1> QED BY <1>6, <1>7

\* What is left of a script after a subroutine is checked, too.
LEMMA TailsChecked ==
  ASSUME NEW m \in Method
  PROVE  /\ ReportTail(m) \in Seq(Checked)
         /\ ShiftTail(m) \in Seq(Checked)
         /\ CashTail(m) \in Seq(Checked)
<1>1. m.cashOut \in BOOLEAN /\ m.closeShift \in BOOLEAN
  BY DEF Method
<1>2. SubCashOut(m) \in Seq(Checked)
  <2>1. <<"query-cash", "login", "cash-out-all">> \in Checked
    BY CheckedThree DEF Call, Documents
  <2> QED BY <1>1, <2>1, WhenChecked DEF SubCashOut
<1>3. SubCloseShift(m) \in Seq(Checked)
  <2>1. <<"query-shift", "login", "close-shift", "check">> \in Checked
    BY CheckedFour DEF Call, Documents
  <2> QED BY <1>1, <2>1, WhenChecked DEF SubCloseShift
<1>4. ReportTail(m) \in Seq(Checked)
  <2>1. <<"report">> \in Checked
    BY CheckedOne DEF Call, Documents
  <2> QED BY <2>1, WhenChecked DEF ReportTail
<1>5. ShiftTail(m) \in Seq(Checked)
  BY <1>3, <1>4, ConcatProperties DEF ShiftTail
<1> QED BY <1>2, <1>4, <1>5, ConcatProperties DEF CashTail

\* In the subroutine h, with r after it: the next call, and the way out.
LEMMA PositionGoesOn ==
  ASSUME TypeInv, NEW h, NEW r \in Seq(Checked), todo = <<h>> \o r
  PROVE  /\ todo # <<>> /\ Head(todo) = h
         /\ GoOn(LeaveSubroutine) => todo' = r
         /\ GoOn(NextCall) => todo' = IF Tail(h) = <<>> THEN r ELSE <<Tail(h)>> \o r
<1>1. todo # <<>> /\ Head(todo) = h /\ Tail(todo) = r
  OBVIOUS
<1>2. GoOn(LeaveSubroutine) => todo' = r
  BY <1>1, GoOnRest DEF LeaveSubroutine
<1>3. GoOn(NextCall) => todo' = IF Tail(h) = <<>> THEN r ELSE <<Tail(h)>> \o r
  BY <1>1, GoOnNext DEF NextCall, TypeInv
<1> QED BY <1>1, <1>2, <1>3

\* No receipt is open, and none is left for the cash register to register.
Clean(k) == ~k.receipt /\ k.doc # "receipt"

CashDone(m, k) == m.cashOut => ~k.cash
ShiftDone(m, k) == m.closeShift => ~k.shift
ShiftClosing(k) == k.doc = "shift" \/ ~k.shift

AtReset(t, m) ==
    m.name = "reset-state" /\ \E h \in ResetCalls : t = <<h>> \o CashTail(m)
AtCash(t, m, k) ==
    Clean(k) /\ \E h \in CashCalls : t = <<h>> \o ShiftTail(m)
AtShift(t, m, k) ==
    /\ Clean(k) /\ CashDone(m, k)
    /\ \E h \in ShiftCalls :
          t = <<h>> \o ReportTail(m) /\ (h = <<"check">> => ShiftClosing(k))
AtEnd(t, m, k) ==
    Clean(k) /\ CashDone(m, k) /\ ShiftDone(m, k) /\ t \in {<<>>, <<<<"report">>>>}

Position(t, m, k) ==
    AtReset(t, m) \/ AtCash(t, m, k) \/ AtShift(t, m, k) \/ AtEnd(t, m, k)

\* The successes that count: of a session still under way, and not in doubt
\* or begun by looking for a receipt.
Counts ==
    /\ method.name \in ShiftMethod /\ outcome = "ok"
    /\ step \notin {"idle", "abandon"}
    /\ doubt => method.name = "reset-state"

Real ==
    Counts => Position(todo, method, kkm) /\ (step = "continue" => ~kkm.shift)

\* The last subroutine is left: the report, or nothing, is left to do.
LEMMA EnterEnd ==
  ASSUME NEW m \in Method, NEW k, Clean(k), CashDone(m, k), ShiftDone(m, k)
  PROVE  Position(ReportTail(m), m, k)
  BY DEF Position, AtEnd, ReportTail, When

\* The drawer is empty, or was not to be emptied: the shift comes next.
LEMMA EnterShift ==
  ASSUME NEW m \in Method, NEW k, Clean(k), CashDone(m, k)
  PROVE  Position(ShiftTail(m), m, k)
<1>1. CASE m.closeShift
  <2> DEFINE h == <<"query-shift", "login", "close-shift", "check">>
  <2>1. SubCloseShift(m) = <<h>>
    BY <1>1 DEF SubCloseShift, When
  <2>2. h \in ShiftCalls /\ h # <<"check">>
    BY DEF ShiftCalls
  <2> HIDE DEF h
  <2> QED BY <2>1, <2>2 DEF ShiftTail, Position, AtShift
<1>2. CASE ~m.closeShift
  <2>1. SubCloseShift(m) = <<>>
    BY <1>2 DEF SubCloseShift, When
  <2>2. ShiftTail(m) = ReportTail(m)
    BY <2>1, TailsChecked, ConcatEmptySeq DEF ShiftTail
  <2> QED BY <1>2, <2>2, EnterEnd DEF ShiftDone
<1> QED BY <1>1, <1>2

\* Nothing is open: the drawer comes next.
LEMMA EnterCash ==
  ASSUME NEW m \in Method, NEW k, Clean(k)
  PROVE  Position(CashTail(m), m, k)
<1>1. CASE m.cashOut
  <2> DEFINE h == <<"query-cash", "login", "cash-out-all">>
  <2>1. SubCashOut(m) = <<h>>
    BY <1>1 DEF SubCashOut, When
  <2>2. h \in CashCalls
    BY DEF CashCalls
  <2> HIDE DEF h
  <2> QED BY <2>1, <2>2 DEF CashTail, Position, AtCash
<1>2. CASE ~m.cashOut
  <2>1. SubCashOut(m) = <<>>
    BY <1>2 DEF SubCashOut, When
  <2>2. CashTail(m) = ShiftTail(m)
    BY <2>1, TailsChecked, ConcatEmptySeq DEF CashTail
  <2> QED BY <1>2, <2>2, EnterShift DEF CashDone
<1> QED BY <1>1, <1>2

\* What a change of the cash register keeps of a position.
Keeps(k, l) ==
    Clean(k) =>
        /\ Clean(l)
        /\ ~k.cash => ~l.cash
        /\ ~k.shift => ~l.shift
        /\ ShiftClosing(k) => ShiftClosing(l)

\* A position outlasts such a change.
LEMMA PositionKept ==
  ASSUME NEW t, NEW m, NEW k, NEW l, Position(t, m, k), Keeps(k, l)
  PROVE  Position(t, m, l)
  BY DEF Position, AtCash, AtShift, AtEnd, CashDone, ShiftDone, Keeps

\* Neither the calls of these methods nor the cash register's own steps
\* bring a receipt, cash or a shift.
LEMMA CarriedOutKeeps ==
  ASSUME TypeOK, NEW call, CarriedOut(call),
         call \notin {"open", "close", "cash-in", "cash-out", "ofd-report"}
  PROVE  /\ call # "cancel" => Keeps(kkm, kkm')
         /\ call = "cancel" => Clean(kkm')
         /\ call = "cash-out-all" => ~kkm'.cash
         /\ call = "close-shift" => kkm'.doc = "shift"
         /\ call \notin {"cancel", "cash-out-all", "close-shift"} => kkm' = kkm
<1>1. kkm \in Kkm /\ kkm' \in Effect(call, kkm)
  BY DEF CarriedOut, TypeOK
<1> QED BY <1>1 DEF Effect, Cancelled, Kkm, Keeps, Clean, ShiftClosing

\* The same of a document that is registered.
LEMMA SettleKeeps ==
  ASSUME TypeOK, Settle
  PROVE  Keeps(kkm, kkm')
<1>1. kkm \in Kkm /\ kkm' = Registered(kkm)
  BY DEF Settle, TypeOK
<1> QED BY <1>1 DEF Registered, Kkm, Keeps, Clean, ShiftClosing

\* The only check of these scripts follows closeShift.
LEMMA AtCheck ==
  ASSUME TypeInv, Position(todo, method, kkm), todo # <<>>,
         Head(Head(todo)) = "check"
  PROVE  /\ todo = <<<<"check">>>> \o ReportTail(method)
         /\ Clean(kkm) /\ CashDone(method, kkm) /\ ShiftClosing(kkm)
<1>1. method \in Method
  BY DEF TypeInv, TypeOK
<1>2. ASSUME NEW h, NEW r \in Seq(Checked), todo = <<h>> \o r
      PROVE  Head(h) = "check"
  BY <1>2, PositionGoesOn
<1>3. ~AtReset(todo, method)
  <2>1. \A h \in ResetCalls : Head(h) # "check"
    BY DEF ResetCalls
  <2> QED BY <1>1, <1>2, <2>1, TailsChecked DEF AtReset
<1>4. ~AtCash(todo, method, kkm)
  <2>1. \A h \in CashCalls : Head(h) # "check"
    BY DEF CashCalls
  <2> QED BY <1>1, <1>2, <2>1, TailsChecked DEF AtCash
<1>5. ~AtEnd(todo, method, kkm)
  <2>1. Head(Head(<<<<"report">>>>)) # "check"
    OBVIOUS
  <2> QED BY <2>1 DEF AtEnd
<1>6. \A h \in ShiftCalls : Head(h) = "check" => h = <<"check">>
  BY DEF ShiftCalls
<1> QED BY <1>1, <1>2, <1>3, <1>4, <1>5, <1>6, TailsChecked DEF Position, AtShift

\* The subroutines call by call: from resetState's and subCashOut's last
\* calls there is only the way out.
LEMMA CallsGoOn ==
  /\ Head(<<"query-receipt", "cancel">>) = "query-receipt"
  /\ Tail(<<"query-receipt", "cancel">>) = <<"cancel">> /\ <<"cancel">> # <<>>
  /\ Head(<<"cancel">>) = "cancel" /\ Tail(<<"cancel">>) = <<>>
  /\ \A h \in CashCalls : h # <<"cash-out-all">> =>
        /\ Tail(h) \in CashCalls /\ Tail(h) # <<>>
        /\ Head(h) \in {"query-cash", "login"}
  /\ \A h \in ShiftCalls : Head(h) # "check" =>
        /\ Tail(h) \in ShiftCalls /\ Tail(h) # <<>>
        /\ Tail(h) = <<"check">> => Head(h) = "close-shift"
<1>1. /\ Head(<<"query-receipt", "cancel">>) = "query-receipt"
      /\ Tail(<<"query-receipt", "cancel">>) = <<"cancel">> /\ <<"cancel">> # <<>>
      /\ Head(<<"cancel">>) = "cancel" /\ Tail(<<"cancel">>) = <<>>
  OBVIOUS
<1>2. ASSUME NEW h \in CashCalls, h # <<"cash-out-all">>
      PROVE  /\ Tail(h) \in CashCalls /\ Tail(h) # <<>>
             /\ Head(h) \in {"query-cash", "login"}
  <2>1. CASE h = <<"query-cash", "login", "cash-out-all">>
    <3>1. Tail(h) = <<"login", "cash-out-all">> /\ Head(h) = "query-cash"
      BY <2>1
    <3> QED BY <3>1 DEF CashCalls
  <2>2. CASE h = <<"login", "cash-out-all">>
    <3>1. Tail(h) = <<"cash-out-all">> /\ Head(h) = "login"
      BY <2>2
    <3> QED BY <3>1 DEF CashCalls
  <2> QED BY <1>2, <2>1, <2>2 DEF CashCalls
<1>3. ASSUME NEW h \in ShiftCalls, Head(h) # "check"
      PROVE  /\ Tail(h) \in ShiftCalls /\ Tail(h) # <<>>
             /\ Tail(h) = <<"check">> => Head(h) = "close-shift"
  <2>1. CASE h = <<"query-shift", "login", "close-shift", "check">>
    <3>1. Tail(h) = <<"login", "close-shift", "check">>
      BY <2>1
    <3>2. <<"login", "close-shift", "check">> # <<"check">>
      OBVIOUS
    <3> QED BY <3>1, <3>2 DEF ShiftCalls
  <2>2. CASE h = <<"login", "close-shift", "check">>
    <3>1. Tail(h) = <<"close-shift", "check">>
      BY <2>2
    <3>2. <<"close-shift", "check">> # <<"check">>
      OBVIOUS
    <3> QED BY <3>1, <3>2 DEF ShiftCalls
  <2>3. CASE h = <<"close-shift", "check">>
    <3>1. Tail(h) = <<"check">> /\ Head(h) = "close-shift"
      BY <2>3
    <3> QED BY <3>1 DEF ShiftCalls
  <2>4. h # <<"check">>
    BY <1>3
  <2> QED BY <2>1, <2>2, <2>3, <2>4 DEF ShiftCalls
<1> QED BY <1>1, <1>2, <1>3

\* A call that succeeds brings the script to its next position.
LEMMA CallReachesPosition ==
  ASSUME TypeInv, Placed, CallSucceeds, Position(todo, method, kkm)
  PROVE  Position(todo', method, kkm')
<1> DEFINE call == Head(Head(todo))
<1>1. /\ method \in Method /\ step = "call" /\ todo # <<>> /\ call # "check"
      /\ CarriedOut(call)
      /\ GoOn(IF NothingToDo(call) THEN LeaveSubroutine ELSE NextCall)
  BY DEF CallSucceeds, Placed, TypeInv, TypeOK
<1>2. /\ ReportTail(method) \in Seq(Checked)
      /\ ShiftTail(method) \in Seq(Checked)
      /\ CashTail(method) \in Seq(Checked)
  BY <1>1, TailsChecked
\* Where the call is in a subroutine h, and where it leads.
<1>3. ASSUME NEW h, NEW r \in Seq(Checked), todo = <<h>> \o r
      PROVE  /\ call = Head(h)
             /\ NothingToDo(call) => todo' = r
             /\ ~NothingToDo(call) =>
                  todo' = IF Tail(h) = <<>> THEN r ELSE <<Tail(h)>> \o r
  BY <1>1, <1>3, PositionGoesOn
<1>4. call \notin {"open", "close", "cash-in", "cash-out", "ofd-report"} =>
        /\ call # "cancel" => Keeps(kkm, kkm')
        /\ call = "cancel" => Clean(kkm')
        /\ call = "cash-out-all" => ~kkm'.cash
        /\ call = "close-shift" => kkm'.doc = "shift"
        /\ call \notin {"cancel", "cash-out-all", "close-shift"} => kkm' = kkm
  BY <1>1, CarriedOutKeeps DEF TypeInv
<1> HIDE DEF call
<1>5. CASE AtReset(todo, method)
  <2>1. PICK h \in ResetCalls : todo = <<h>> \o CashTail(method)
    BY <1>5 DEF AtReset
  <2>2. CASE h = <<"query-receipt", "cancel">>
    <3>1. call = "query-receipt" /\ Tail(h) = <<"cancel">>
      BY <1>2, <1>3, <2>1, <2>2, CallsGoOn
    <3>2. CASE NothingToDo(call)
      <4>1. todo' = CashTail(method) /\ kkm' = kkm /\ Clean(kkm)
        BY <1>2, <1>3, <1>4, <2>1, <3>1, <3>2 DEF NothingToDo, Clean
      <4> QED BY <1>1, <4>1, EnterCash
    <3>3. CASE ~NothingToDo(call)
      <4>1. todo' = <<<<"cancel">>>> \o CashTail(method)
        BY <1>2, <1>3, <2>1, <3>1, <3>3, CallsGoOn
      <4>2. <<"cancel">> \in ResetCalls
        BY DEF ResetCalls
      <4> QED BY <1>5, <4>1, <4>2 DEF AtReset, Position
    <3> QED BY <3>2, <3>3
  <2>3. CASE h = <<"cancel">>
    <3>1. call = "cancel" /\ Tail(h) = <<>>
      BY <1>2, <1>3, <2>1, <2>3, CallsGoOn
    <3>2. todo' = CashTail(method)
      BY <1>2, <1>3, <2>1, <3>1 DEF NothingToDo
    <3> QED BY <1>1, <1>4, <3>1, <3>2, EnterCash
  <2> QED BY <2>2, <2>3 DEF ResetCalls
<1>6. CASE AtCash(todo, method, kkm)
  <2>1. PICK h \in CashCalls : todo = <<h>> \o ShiftTail(method)
    BY <1>6 DEF AtCash
  <2>2. call = Head(h)
    BY <1>2, <1>3, <2>1
  <2>3. Clean(kkm) /\ Keeps(kkm, kkm') /\ Clean(kkm')
    <3>1. call \in {"query-cash", "login", "cash-out-all"}
      BY <2>2 DEF CashCalls
    <3> QED BY <1>4, <1>6, <3>1 DEF AtCash, Keeps
  <2>4. CASE h = <<"cash-out-all">>
    <3>1. call = "cash-out-all" /\ Tail(h) = <<>>
      BY <2>2, <2>4
    <3>2. todo' = ShiftTail(method) /\ CashDone(method, kkm')
      BY <1>2, <1>3, <1>4, <2>1, <3>1 DEF NothingToDo, CashDone
    <3> QED BY <1>1, <2>3, <3>2, EnterShift
  <2>5. CASE h # <<"cash-out-all">>
    <3>1. Tail(h) \in CashCalls /\ Tail(h) # <<>> /\ call \in {"query-cash", "login"}
      BY <2>2, <2>5, CallsGoOn
    <3>2. CASE NothingToDo(call)
      <4>1. todo' = ShiftTail(method) /\ CashDone(method, kkm')
        BY <1>2, <1>3, <1>4, <2>1, <3>1, <3>2 DEF NothingToDo, CashDone
      <4> QED BY <1>1, <2>3, <4>1, EnterShift
    <3>3. CASE ~NothingToDo(call)
      <4>1. todo' = <<Tail(h)>> \o ShiftTail(method)
        BY <1>2, <1>3, <2>1, <3>1, <3>3
      <4> QED BY <2>3, <3>1, <4>1 DEF Position, AtCash
    <3> QED BY <3>2, <3>3
  <2> QED BY <2>4, <2>5
<1>7. CASE AtShift(todo, method, kkm)
  <2>1. PICK h \in ShiftCalls : todo = <<h>> \o ReportTail(method)
    BY <1>7 DEF AtShift
  <2>2. call = Head(h)
    BY <1>2, <1>3, <2>1
  <2>3. call \in {"query-shift", "login", "close-shift"}
    BY <1>1, <2>2 DEF ShiftCalls
  <2>4. Clean(kkm') /\ CashDone(method, kkm')
    BY <1>4, <1>7, <2>3 DEF AtShift, Keeps, CashDone
  <2>5. CASE NothingToDo(call)
    <3>1. todo' = ReportTail(method) /\ ShiftDone(method, kkm')
      BY <1>2, <1>3, <1>4, <2>1, <2>3, <2>5 DEF NothingToDo, ShiftDone
    <3> QED BY <1>1, <2>4, <3>1, EnterEnd
  <2>6. CASE ~NothingToDo(call)
    <3>1. /\ Tail(h) \in ShiftCalls /\ Tail(h) # <<>>
          /\ Tail(h) = <<"check">> => call = "close-shift"
      BY <2>2, <2>3, CallsGoOn
    <3>2. todo' = <<Tail(h)>> \o ReportTail(method)
      BY <1>2, <1>3, <2>1, <2>6, <3>1
    <3>3. Tail(h) = <<"check">> => ShiftClosing(kkm')
      BY <1>4, <3>1 DEF ShiftClosing
    <3> QED BY <2>4, <3>1, <3>2, <3>3 DEF Position, AtShift
  <2> QED BY <2>5, <2>6
<1>8. CASE AtEnd(todo, method, kkm)
  <2>1. todo = <<<<"report">>>>
    BY <1>1, <1>8 DEF AtEnd
  <2>2. todo = <<<<"report">>>> \o <<>> /\ <<>> \in Seq(Checked)
    BY <2>1, EmptySeq
  <2>3. call = "report" /\ todo' = <<>>
    <3>1. Head(<<"report">>) = "report" /\ Tail(<<"report">>) = <<>>
      OBVIOUS
    <3> QED BY <1>3, <2>2, <3>1
  <2> QED BY <1>4, <1>8, <2>3 DEF AtEnd, Position
<1> QED BY <1>5, <1>6, <1>7, <1>8 DEF Position

\* Every step of a session whose success counts keeps its position.
LEMMA RealNext == TypeInv /\ Placed /\ Real /\ [Next]_vars => Real'
<1> SUFFICES ASSUME TypeInv, Placed, Real, [Next]_vars, Counts'
             PROVE  Position(todo', method', kkm') /\ (step' = "continue" => ~kkm'.shift)
  BY DEF Real
<1>t. TypeOK /\ method \in Method
  BY DEF TypeInv, TypeOK
<1>c. /\ method'.name \in ShiftMethod /\ outcome' = "ok"
      /\ step' \notin {"idle", "abandon"}
      /\ doubt' => method'.name = "reset-state"
  BY DEF Counts
<1> DEFINE Goal == Position(todo', method', kkm') /\ (step' = "continue" => ~kkm'.shift)
<1>r. ASSUME UNCHANGED method, outcome = "ok", step \notin {"idle", "abandon"},
             doubt => doubt'
      PROVE  Position(todo, method, kkm) /\ (step = "continue" => ~kkm.shift)
  BY <1>c, <1>r DEF Real, Counts
\* The check, or continuePrint after it, has shown that the shift is closed.
<1>e. ASSUME GoOn(NextCall), UNCHANGED <<kkm, method>>, todo # <<>>, ~kkm.shift,
             Head(Head(todo)) = "check", Position(todo, method, kkm)
      PROVE  Goal
  <2>1. /\ todo = <<<<"check">>>> \o ReportTail(method)
        /\ Clean(kkm) /\ CashDone(method, kkm)
    BY <1>e, AtCheck
  <2>2. Tail(<<"check">>) = <<>>
    OBVIOUS
  <2>3. todo' = ReportTail(method)
    BY <1>t, <1>e, <2>1, <2>2, TailsChecked, PositionGoesOn
  <2>4. Position(ReportTail(method), method, kkm)
    BY <1>t, <1>e, <2>1, EnterEnd DEF ShiftDone
  <2> QED BY <1>e, <2>3, <2>4
<1>1. ASSUME NEW m \in Method, Begin(m) PROVE Goal
  <2>1. method' = m /\ m.name \in ShiftMethod /\ kkm' = kkm /\ GoOn(Script(m))
    BY <1>1, <1>c DEF Begin
  <2>2. todo' = Script(m) /\ step' # "continue"
    BY <2>1, ScriptChecked, GoOnRest
  <2>3. CASE m.name = "reset-state"
    <3>1. <<"query-receipt", "cancel">> \in ResetCalls
      BY DEF ResetCalls
    <3>2. Script(m) = <<<<"query-receipt", "cancel">>>> \o CashTail(m)
      BY <2>1, <2>3, ShiftScript
    <3> QED BY <2>1, <2>2, <2>3, <3>1, <3>2 DEF Position, AtReset
  <2>4. CASE m.name # "reset-state"
    <3>1. Clean(kkm)
      BY <1>1, <1>c, <2>1, <2>4 DEF Begin, Busy, Clean
    <3>2. Script(m) = CashTail(m)
      BY <2>1, <2>4, ShiftScript
    <3> QED BY <2>1, <2>2, <3>1, <3>2, EnterCash
  <2> QED BY <2>3, <2>4
<1>2. CASE CallSucceeds
  <2>1. Position(todo, method, kkm) /\ UNCHANGED method
    BY <1>2, <1>c, <1>r DEF CallSucceeds
  <2>2. step' # "continue"
    BY <1>2, GoOnPlaced DEF CallSucceeds
  <2> QED BY <1>2, <2>1, <2>2, CallReachesPosition
<1>3. CASE CallFails \/ Abandon
  BY <1>3, <1>c DEF CallFails, Abandon, Fail
<1>4. CASE CheckFails
  BY <1>4, <1>c, <1>r DEF CheckFails
<1>5. CASE CheckAnswers
  <2>1. /\ step = "check" /\ todo # <<>> /\ Head(Head(todo)) = "check"
        /\ UNCHANGED <<kkm, method, outcome>> /\ (doubt => doubt')
        /\ ~GiveUp(polls, kkm.doc = "none")
    BY <1>5, <1>c, <1>t DEF CheckAnswers, Placed, TypeOK
  <2>2. Position(todo, method, kkm)
    BY <1>c, <1>r, <2>1
  <2>3. ~kkm.shift
    <3>1. ShiftClosing(kkm)
      BY <2>1, <2>2, AtCheck
    <3> QED BY <2>1, <3>1 DEF ShiftClosing, GiveUp
  <2>4. CASE GoOn(NextCall)
    BY <1>e, <2>1, <2>2, <2>3, <2>4
  <2>5. CASE UNCHANGED todo
    BY <2>1, <2>2, <2>3, <2>5
  <2> QED BY <1>5, <2>1, <2>4, <2>5 DEF CheckAnswers
<1>6. CASE ContinuePrint
  <2>1. /\ step = "continue" /\ todo # <<>> /\ Head(Head(todo)) = "check"
        /\ UNCHANGED <<kkm, method>> /\ (doubt => doubt') /\ outcome = "ok"
    BY <1>6, <1>c, <1>t DEF ContinuePrint, Placed, TypeOK, Fail
  <2>2. Position(todo, method, kkm) /\ ~kkm.shift
    BY <1>r, <2>1
  <2>3. CASE GoOn(NextCall)
    BY <1>e, <2>1, <2>2, <2>3
  <2>4. CASE UNCHANGED todo
    BY <2>1, <2>2, <2>4
  <2> QED BY <1>6, <1>c, <2>3, <2>4 DEF ContinuePrint, Fail
<1>7. CASE Destroy \/ Crash
  BY <1>7, <1>c DEF Destroy, Crash
<1>8. CASE Settle
  <2>1. /\ UNCHANGED <<method, step, todo, outcome, doubt>>
        /\ Position(todo, method, kkm) /\ (step = "continue" => ~kkm.shift)
    BY <1>8, <1>c, <1>r DEF Settle
  <2>2. Keeps(kkm, kkm')
    BY <1>8, <1>t, SettleKeeps
  <2>3. Position(todo, method, kkm')
    BY <2>1, <2>2, PositionKept
  <2>4. step = "continue" => ~kkm'.shift
    <3>1. ASSUME step = "continue" PROVE Clean(kkm)
      <4>1. todo # <<>> /\ Head(Head(todo)) = "check"
        BY <1>t, <3>1 DEF TypeOK, Placed
      <4> QED BY <2>1, <4>1, AtCheck
    <3> QED BY <2>1, <2>2, <3>1 DEF Keeps
  <2> QED BY <2>1, <2>3, <2>4
<1>9. CASE UNCHANGED vars
  BY <1>9, <1>c, <1>r DEF vars
<1> QED
  BY <1>1, <1>2, <1>3, <1>4, <1>5, <1>6, <1>7, <1>8, <1>9 DEF Next, SessionStep

(* A success that closeShift, reportX or resetState answers is real: with  *)
(* whatever errors, repetitions and wonders on the way, and for any number *)
(* of polls, the shift that was to be closed is closed, the drawer that    *)
(* was to be emptied is empty, and resetState leaves no receipt open.      *)
THEOREM SuccessIsRealHolds == Spec => []SuccessIsReal
<1>1. Init => Placed /\ Real
  BY DEF Init, Placed, Real, Counts
<1>2. TypeInv /\ Real => SuccessIsReal
  <2> SUFFICES ASSUME TypeInv, Real, step = "close", outcome = "ok",
                      doubt => method.name = "reset-state"
               PROVE  /\ method.closeShift => ~kkm.shift
                      /\ method.cashOut => ~kkm.cash
                      /\ method.name = "reset-state" => ~kkm.receipt /\ kkm.doc # "receipt"
    BY DEF SuccessIsReal
  <2>1. method \in Method /\ todo = <<>>
    BY DEF TypeInv, TypeOK
  <2>2. CASE method.name \notin ShiftMethod
    BY <2>1, <2>2 DEF Method, ShiftMethod
  <2>3. CASE method.name \in ShiftMethod
    <3>1. Position(<<>>, method, kkm)
      BY <2>1, <2>3 DEF Real, Counts
    <3>2. ASSUME NEW h, NEW r \in Seq(Checked) PROVE <<>> # <<h>> \o r
      <4>1. Len(<<h>> \o r) = 1 + Len(r) /\ Len(r) \in Nat
        OBVIOUS
      <4>2. Len(<<>>) = 0
        OBVIOUS
      <4> HIDE <3>2
      <4> QED BY <4>1, <4>2
    <3>3. AtEnd(<<>>, method, kkm)
      BY <2>1, <3>1, <3>2, TailsChecked DEF Position, AtReset, AtCash, AtShift
    <3> QED BY <3>3 DEF AtEnd, CashDone, ShiftDone, Clean
  <2> QED BY <2>2, <2>3
<1> QED BY <1>1, <1>2, TypeInit, TypeNext, PlacedNext, RealNext, PTL DEF Spec

-----------------------------------------------------------------------------
(* A session is finite.  What is left of it: subroutines, the calls of the *)
(* first of them, the stages of the call that is under way, the polls of   *)
(* its loop, and the document that the cash register may still finish.     *)

CallsLeft == IF todo = <<>> THEN 0 ELSE Len(Head(todo))

StagesLeft(s) ==
    CASE s = "idle" -> 0
      [] s = "close" -> 1
      [] s = "abandon" -> 2
      [] s = "continue" -> 3
      [] s \in {"call", "check"} -> 4

DocumentsLeft == IF kkm.doc = "none" THEN 0 ELSE 1

Measured ==
    {Len(todo), CallsLeft, StagesLeft(step), polls, DocumentsLeft} \subseteq Nat

\* The lexicographic order of the five numbers.
Nearer ==
    \/ Len(todo') < Len(todo)
    \/ Len(todo') = Len(todo) /\ CallsLeft' < CallsLeft
    \/ UNCHANGED todo /\ StagesLeft(step') < StagesLeft(step)
    \/ UNCHANGED <<todo, step>> /\ polls' < polls
    \/ UNCHANGED <<todo, step, polls>> /\ DocumentsLeft' < DocumentsLeft

\* No step of a session, whether the cash register answers, refuses, loses an
\* answer or finishes a document, leaves it as far from its end as it was: the
\* loops of subCheckDocumentClosed do not begin anew, and nothing is repeated.
SessionShrinks == [][step # "idle" => Nearer]_vars

\* What has been measured is numbers.
LEMMA LeftMeasured == TypeInv => Measured
<1> SUFFICES ASSUME TypeInv PROVE Measured
  OBVIOUS
<1>1. Len(todo) \in Nat
  BY DEF TypeInv
<1>2. CallsLeft \in Nat
  <2>1. CASE todo # <<>>
    <3>1. Head(todo) \in Seq(Call)
      BY <2>1, HeadTailProperties DEF TypeInv, Checked
    <3> QED BY <2>1, <3>1 DEF CallsLeft
  <2> QED BY <2>1 DEF CallsLeft
<1>3. StagesLeft(step) \in Nat
  BY DEF TypeInv, TypeOK, StagesLeft
<1>4. polls \in Nat /\ DocumentsLeft \in Nat
  BY PollsAssumption DEF TypeInv, TypeOK, DocumentsLeft
<1> QED BY <1>1, <1>2, <1>3, <1>4 DEF Measured

\* Leaving a subroutine, or the method.
LEMMA LeavingShrinks ==
  ASSUME todo \in Seq(Checked), todo # <<>>, NEW t, t \in {LeaveSubroutine, LeaveMethod},
         GoOn(t)
  PROVE  Len(todo') < Len(todo)
<1>1. /\ Len(todo) \in Nat \ {0} /\ Tail(todo) \in Seq(Checked)
      /\ Len(Tail(todo)) = Len(todo) - 1
  BY HeadTailProperties
<1>2. t \in Seq(Checked) /\ Len(t) < Len(todo)
  <2>1. CASE t = Tail(todo)
    BY <1>1, <2>1
  <2>2. CASE t = <<>>
    BY <1>1, <2>2, EmptySeq
  <2> QED BY <2>1, <2>2 DEF LeaveSubroutine, LeaveMethod
<1>3. todo' = t
  BY <1>2, GoOnRest
<1> QED BY <1>2, <1>3

\* Going on with the next call of a subroutine, or with the next subroutine.
LEMMA NextShrinks ==
  ASSUME todo \in Seq(Checked), todo # <<>>, GoOn(NextCall)
  PROVE  \/ Len(todo') < Len(todo)
         \/ Len(todo') = Len(todo) /\ CallsLeft' < CallsLeft
<1>1. todo' = IF Tail(Head(todo)) = <<>> THEN Tail(todo) ELSE NextCall
  BY GoOnNext
<1>2. /\ Len(todo) \in Nat \ {0} /\ Tail(todo) \in Seq(Checked)
      /\ Len(Tail(todo)) = Len(todo) - 1 /\ Head(todo) \in Checked
  BY HeadTailProperties
<1>3. CASE Tail(Head(todo)) = <<>>
  <2>1. todo' = Tail(todo)
    BY <1>1, <1>3
  <2>2. Len(todo') = Len(todo) - 1
    BY <1>2, <2>1
  <2>3. Len(todo) \in Nat
    BY <1>2
  <2>4. Len(todo') < Len(todo)
    BY <2>2, <2>3
  <2> QED BY <2>4
<1>4. CASE Tail(Head(todo)) # <<>>
  <2>0. Tail(Head(todo)) \in Checked
    BY <1>2, <1>4, TailChecked
  <2>1. Len(Head(todo)) \in Nat /\ Len(Tail(Head(todo))) = Len(Head(todo)) - 1
    <3>1. Head(todo) \in Seq(Call) /\ Head(todo) # <<>>
      BY <1>2 DEF Checked
    <3> QED BY <3>1, HeadTailProperties
  <2>2. todo' = <<Tail(Head(todo))>> \o Tail(todo)
    BY <1>1, <1>4 DEF NextCall
  <2>3. todo' # <<>> /\ Head(todo') = Tail(Head(todo))
    BY <1>2, <2>1, <2>2, Prepended
  <2>4. Len(todo') = Len(todo)
    BY <1>2, <2>1, <2>2
  <2>5. CallsLeft' = Len(Head(todo)) - 1 /\ CallsLeft = Len(Head(todo))
    BY <2>1, <2>3 DEF CallsLeft
  <2> QED BY <2>1, <2>4, <2>5
<1> QED BY <1>3, <1>4

LEMMA SessionNearer == TypeInv /\ step # "idle" /\ Next => Nearer
<1> SUFFICES ASSUME TypeInv, step # "idle", Next PROVE Nearer
  OBVIOUS
<1>1. todo \in Seq(Checked) /\ polls \in 0..Polls /\ Polls \in Nat
  BY PollsAssumption DEF TypeInv, TypeOK
<1>2. step \in {"call", "check", "abandon", "continue"} => todo # <<>>
  BY DEF TypeInv, TypeOK
<1>3. ASSUME todo # <<>>, GoOn(NextCall) PROVE Nearer
  BY <1>1, <1>3, NextShrinks DEF Nearer
<1>4. ASSUME todo # <<>>, GoOn(LeaveSubroutine) \/ GoOn(LeaveMethod) PROVE Nearer
  BY <1>1, <1>4, LeavingShrinks DEF Nearer
<1>5. CASE CallSucceeds
  <2>1. step = "call" /\ (GoOn(NextCall) \/ GoOn(LeaveSubroutine))
    BY <1>5 DEF CallSucceeds
  <2> QED BY <1>2, <1>3, <1>4, <2>1
<1>6. CASE CallFails
  <2>1. step = "call" /\ (GoOn(LeaveSubroutine) \/ GoOn(LeaveMethod))
    BY <1>6 DEF CallFails
  <2> QED BY <1>2, <1>4, <2>1
<1>7. CASE CheckFails
  BY <1>1, <1>7 DEF CheckFails, Nearer, StagesLeft
<1>8. CASE CheckAnswers
  <2>1. \/ GoOn(NextCall) /\ step = "check"
        \/ UNCHANGED todo /\ step = "check" /\ step' \in {"abandon", "continue"}
    BY <1>8 DEF CheckAnswers
  <2>2. CASE UNCHANGED todo /\ step = "check" /\ step' \in {"abandon", "continue"}
    BY <2>2 DEF Nearer, StagesLeft
  <2> QED BY <1>2, <1>3, <2>1, <2>2
<1>9. CASE Abandon
  <2>1. step = "abandon" /\ GoOn(LeaveSubroutine)
    BY <1>9 DEF Abandon
  <2> QED BY <1>2, <1>4, <2>1
<1>10. CASE ContinuePrint
  <2>1. /\ step = "continue"
        /\ \/ GoOn(NextCall) \/ GoOn(LeaveSubroutine)
           \/ polls > 0 /\ polls' = polls - 1 /\ UNCHANGED <<step, todo>>
    BY <1>10 DEF ContinuePrint
  <2>2. CASE polls > 0 /\ polls' = polls - 1 /\ UNCHANGED <<step, todo>>
    BY <1>1, <2>2 DEF Nearer
  <2> QED BY <1>2, <1>3, <1>4, <2>1, <2>2
<1>11. CASE Destroy
  BY <1>11 DEF Destroy, Nearer, StagesLeft
<1>12. CASE Settle
  <2>1. DocumentsLeft = 1 /\ DocumentsLeft' = 0
    BY <1>12 DEF Settle, Registered, DocumentsLeft, TypeInv, TypeOK, Kkm
  <2> QED BY <1>12, <2>1 DEF Settle, Nearer
<1>13. CASE Crash
  <2>1. CASE todo # <<>>
    <3>1. Len(todo) \in Nat \ {0} /\ Len(todo') = 0
      BY <1>1, <1>13, <2>1, EmptySeq DEF Crash
    <3> QED BY <3>1 DEF Nearer
  <2>2. CASE todo = <<>>
    <3>1. StagesLeft(step') = 0 /\ StagesLeft(step) > 0
      BY <1>13 DEF Crash, StagesLeft, TypeInv, TypeOK
    <3> QED BY <1>13, <2>2, <3>1 DEF Crash, Nearer
  <2> QED BY <2>1, <2>2
<1>14. \A m \in Method : ~Begin(m)
  BY DEF Begin
<1> QED
  BY <1>5, <1>6, <1>7, <1>8, <1>9, <1>10, <1>11, <1>12, <1>13, <1>14 DEF Next, SessionStep

(* A session with a cash register has finitely many steps, for any number  *)
(* of polls and however the driver's calls end: each step takes it nearer  *)
(* to its end in a lexicographic order of natural numbers.                 *)
THEOREM SessionShrinksHolds == Spec => []Measured /\ SessionShrinks
<1>1. Init => TypeInv
  BY TypeInit
<1>2. TypeInv /\ [Next]_vars => TypeInv'
  BY TypeNext
<1>3. TypeInv => Measured
  BY LeftMeasured
<1>4. TypeInv /\ [Next]_vars => [step # "idle" => Nearer]_vars
  BY SessionNearer
<1> QED BY <1>1, <1>2, <1>3, <1>4, PTL DEF Spec, SessionShrinks
=============================================================================
