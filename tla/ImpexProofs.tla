---------------------------- MODULE ImpexProofs ----------------------------
(***************************************************************************)
(* Proofs about the two directions of impex.cpp.  The first part: whatever *)
(* the cash register answers to a status operation, the response tells the *)
(* first error, and nothing but what came before it.                       *)
(*                                                                         *)
(* The second part: a request is carried out exactly when it is sound, and *)
(* what it says reaches the driver.  The keys are taken one after the      *)
(* other, each with an eye on what has been taken before it; so            *)
(*   - every row depends on earlier rows only, and on which (Deps);        *)
(*   - what a row of a body comes to is said of the body alone, whatever   *)
(*     has been taken (RowSound, Wanted);                                  *)
(*   - as long as the rows before it were sound, taking a key comes to     *)
(*     just that (RowAgrees), so that it stays so (TakenBefore);           *)
(*   - the rows of a body are all sound exactly when the key-by-key        *)
(*     reference definitions hold of it (RowsAreSound).                    *)
(***************************************************************************)
EXTENDS MCImpex, SequenceTheorems, FiniteSetTheorems, TLAPS

-----------------------------------------------------------------------------
(* The operations: which methods they run, each of them once.              *)

LEMMA OperationsAre ==
  /\ DOMAIN Operation = {"base", "cash", "short", "full"}
  /\ Operation["base"] = <<"status">>
  /\ Operation["cash"] = <<"cashStat">>
  /\ Operation["short"] =
        <<"status", "shiftState", "receiptState", "cashStat",
          "ofdExchangeStatus", "lastReceipt", "lastDocument", "errors">>
  /\ Operation["full"] =
        <<"status", "shiftState", "receiptState", "cashStat",
          "ofdExchangeStatus", "fnInfo", "registrationInfo",
          "lastRegistration", "lastReceipt", "lastDocument", "errors",
          "ffdVersion", "fwVersion">>
  BY DEF Operation

LEMMA SectionsAre ==
  Section = {"status", "shiftState", "receiptState", "cashStat",
             "ofdExchangeStatus", "fnInfo", "registrationInfo",
             "lastRegistration", "lastReceipt", "lastDocument", "errors",
             "ffdVersion", "fwVersion"}
<1>1. DOMAIN StatusQueries = {"status", "shiftState", "receiptState", "cashStat"}
  BY DEF StatusQueries
<1>2. DOMAIN FnQueries = {"ofdExchangeStatus", "fnInfo", "registrationInfo",
             "lastRegistration", "lastReceipt", "lastDocument", "errors"}
  BY DEF FnQueries
<1>3. DOMAIN VersionQueries = {"ffdVersion", "fwVersion"}
  BY DEF VersionQueries
<1> QED BY <1>1, <1>2, <1>3 DEF Section

LEMMA SectionsApart ==
  ASSUME NEW s \in DOMAIN StatusQueries
  PROVE  s \notin DOMAIN FnQueries
  BY DEF StatusQueries, FnQueries

LEMMA QueriesFit ==
  ASSUME NEW s \in Section
  PROVE  Queries(s) \in Nat \ {0}
<1>1. \A t \in DOMAIN StatusQueries : StatusQueries[t] \in Nat \ {0}
  BY DEF StatusQueries
<1>2. \A t \in DOMAIN FnQueries : FnQueries[t] \in Nat \ {0}
  BY DEF FnQueries
<1>3. \A t \in DOMAIN VersionQueries : VersionQueries[t] \in Nat \ {0}
  BY DEF VersionQueries
<1>4. CASE s \in DOMAIN StatusQueries
  <2>1. Queries(s) = StatusQueries[s]
    BY <1>4, SectionsApart, Zenon DEF Queries
  <2> QED BY <1>1, <1>4, <2>1, Zenon
<1>5. CASE s \notin DOMAIN StatusQueries /\ s \in DOMAIN FnQueries
  BY <1>2, <1>5, Zenon DEF Queries
<1>6. CASE s \notin DOMAIN StatusQueries /\ s \notin DOMAIN FnQueries
  <2>1. s \in DOMAIN VersionQueries
    BY <1>6 DEF Section
  <2> QED BY <1>3, <1>6, <2>1, Zenon DEF Queries
<1> QED BY <1>4, <1>5, <1>6

Once(s) ==
    /\ s \in Seq(Section) /\ Len(s) > 0
    /\ \A i, j \in 1..Len(s) : s[i] = s[j] => i = j

LEMMA OneMethod == ASSUME NEW a \in Section PROVE Once(<<a>>)
  BY DEF Once

LEMMA ShortOnce == Once(Operation["short"])
<1> DEFINE s == <<"status", "shiftState", "receiptState", "cashStat",
          "ofdExchangeStatus", "lastReceipt", "lastDocument", "errors">>
<1>1. s \in Seq(Section) /\ Len(s) > 0 /\ 1..Len(s) = 1..8
  BY SectionsAre
<1>2. \A i, j \in 1..8 : s[i] = s[j] => i = j
  OBVIOUS
<1>3. Operation["short"] = s
  BY OperationsAre, Zenon
<1> HIDE DEF s
<1>4. Once(s)
  BY <1>1, <1>2, Zenon DEF Once
<1> QED BY <1>3, <1>4, Zenon

LEMMA FullOnce == Once(Operation["full"])
<1> DEFINE s == <<"status", "shiftState", "receiptState", "cashStat",
          "ofdExchangeStatus", "fnInfo", "registrationInfo",
          "lastRegistration", "lastReceipt", "lastDocument", "errors",
          "ffdVersion", "fwVersion">>
<1>1. s \in Seq(Section) /\ Len(s) > 0 /\ 1..Len(s) = 1..13
  BY SectionsAre
<1>2. \A i, j \in 1..13 : s[i] = s[j] => i = j
  OBVIOUS
<1>3. Operation["full"] = s
  BY OperationsAre, Zenon
<1> HIDE DEF s
<1>4. Once(s)
  BY <1>1, <1>2, Zenon DEF Once
<1> QED BY <1>3, <1>4, Zenon

LEMMA MethodsOnce == ASSUME NEW o \in DOMAIN Operation PROVE Once(Operation[o])
<1>1. o = "base" \/ o = "cash" \/ o = "short" \/ o = "full"
  BY OperationsAre, Zenon
<1>2. "status" \in Section /\ "cashStat" \in Section
  BY SectionsAre
<1>3. CASE o = "base"
  BY <1>2, <1>3, OperationsAre, OneMethod, Zenon
<1>4. CASE o = "cash"
  BY <1>2, <1>4, OperationsAre, OneMethod, Zenon
<1>5. CASE o = "short"
  BY <1>5, ShortOnce, Zenon
<1>6. CASE o = "full"
  BY <1>6, FullOnce, Zenon
<1> QED BY <1>1, <1>3, <1>4, <1>5, <1>6, Zenon

-----------------------------------------------------------------------------
(* What assign() of impex.cpp makes of the object and the next result.     *)

Objects == [keys : BOOLEAN, success : BOOLEAN, message : Message,
            sections : SUBSET Section]
Results == [success : BOOLEAN, message : Message]
Overrides(r) == ~json.keys \/ (json.success /\ ~r.success)

LEMMA AssignFields ==
  ASSUME json \in Objects, NEW s \in Section, NEW r \in Results, Assign(s, r)
  PROVE  /\ json' \in Objects
         /\ json'.keys
         /\ json'.success = (IF Overrides(r) THEN r.success ELSE json.success)
         /\ json'.message =
               IF Overrides(r) \/ json.message = "ok" THEN r.message ELSE json.message
         /\ json'.sections =
               IF json'.success /\ r.success THEN json.sections \cup {s} ELSE json.sections
<1> DEFINE m == Merge(json, r)
<1>1. /\ m \in Objects /\ m.keys
      /\ m.success = (IF Overrides(r) THEN r.success ELSE json.success)
      /\ m.message =
               IF Overrides(r) \/ json.message = "ok" THEN r.message ELSE json.message
      /\ m.sections = json.sections
  BY DEF Merge, Objects, Results, Overrides
<1>2. json' = [m EXCEPT !.sections = IF m.success /\ r.success THEN @ \cup {s} ELSE @]
  BY DEF Assign, WithSection
<1> HIDE DEF m
<1>3. /\ json'.keys = m.keys /\ json'.success = m.success /\ json'.message = m.message
      /\ json'.sections = IF m.success /\ r.success THEN m.sections \cup {s} ELSE m.sections
      /\ json' \in Objects
  BY <1>1, <1>2 DEF Objects
<1> QED BY <1>1, <1>3, Zenon

LEMMA OkIsNoSection == "ok" \notin Section
  BY SectionsAre

-----------------------------------------------------------------------------
(* The inductive invariant: the object tells, at every step, what it is to *)
(* tell at the end, of the methods that have been run so far.              *)

Before(n) == {Methods[k] : k \in 1..n - 1}

FirstErrorAt(i) ==
    /\ json.message = Methods[i]
    /\ Methods[i] \in failed
    /\ \A k \in 1..i - 1 : Methods[k] \notin failed
    /\ json.sections = Before(i)

TellsSoFar ==
    /\ json.success <=> failed = {}
    /\ json.success => json.message = "ok" /\ json.sections = Before(next)
    /\ ~json.success => \E i \in 1..next - 1 : FirstErrorAt(i)

CollectInv ==
    /\ TypeOK
    /\ failed \subseteq Before(next)
    /\ json.keys <=> next > 1
    /\ next = 1 => json.sections = {}
    /\ json.keys => TellsSoFar

LEMMA CollectInit == ASSUME Init PROVE CollectInv
<1> USE DEF Init
<1>1. operation \in DOMAIN Operation /\ Once(Methods)
  BY MethodsOnce DEF Methods
<1>2. Methods[1] \in Section /\ Len(Methods) \in Nat /\ 1 <= Len(Methods)
  BY <1>1 DEF Once
<1>3. next \in 1..Len(Methods) + 1 /\ Current \in Section
  BY <1>2 DEF Current
<1>4. query \in 0..Queries(Current) - 1
  BY <1>3, QueriesFit
<1>5. json \in Objects /\ ~json.keys /\ json.sections = {}
  BY DEF Objects, NoKeys, Message
<1>6. TypeOK
  BY <1>1, <1>3, <1>4, <1>5 DEF TypeOK, Objects
<1> QED BY <1>5, <1>6 DEF CollectInv

(* What every step finds: a method of its own, of the operation's.         *)
LEMMA MethodFound ==
  ASSUME TypeOK, next <= Len(Methods)
  PROVE  /\ next \in Nat \ {0} /\ next + 1 \in 1..Len(Methods) + 1
         /\ Once(Methods)
         /\ Current \in Section /\ Current # "ok"
         /\ Methods[next] = Current
         /\ \A k \in 1..next - 1 : Methods[k] \in Section /\ Methods[k] # Current
<1>1. Once(Methods)
  BY MethodsOnce DEF TypeOK, Methods
<1>2. next \in 1..Len(Methods) + 1 /\ Len(Methods) \in Nat
  BY <1>1 DEF TypeOK, Once
<1>3. next \in 1..Len(Methods) /\ next \in Nat \ {0} /\ next + 1 \in 1..Len(Methods) + 1
  BY <1>2
<1>4. Current \in Section /\ Current # "ok"
  BY <1>1, <1>3, OkIsNoSection DEF Current, Once
<1>5. ASSUME NEW k \in 1..next - 1 PROVE Methods[k] \in Section /\ Methods[k] # Current
  <2>1. k \in 1..Len(Methods) /\ k # next
    BY <1>2, <1>3
  <2> QED BY <1>1, <1>3, <2>1 DEF Current, Once
<1> QED BY <1>1, <1>3, <1>4, <1>5 DEF Current

(* The type after a method, however it ended.                              *)
LEMMA MethodTyped ==
  ASSUME TypeOK, next <= Len(Methods), NextMethod,
         json' \in Objects, failed' \in SUBSET Section
  PROVE  TypeOK' /\ next' \in Nat \ {0, 1} /\ Methods' = Methods
<1>1. /\ next \in Nat \ {0} /\ next + 1 \in 1..Len(Methods) + 1
      /\ Once(Methods)
  BY MethodFound
<1>2. /\ operation' = operation /\ Methods' = Methods /\ next' = next + 1 /\ query' = 0
  BY DEF NextMethod, Methods
<1>3. next' <= Len(Methods)' => query' \in 0..Queries(Current)' - 1
  <2> SUFFICES ASSUME next + 1 <= Len(Methods)
               PROVE  0 \in 0..Queries(Methods[next + 1]) - 1
    BY <1>2 DEF Current, Methods
  <2>1. Methods[next + 1] \in Section
    BY <1>1 DEF Once
  <2> QED BY <2>1, QueriesFit
<1> QED BY <1>1, <1>2, <1>3 DEF TypeOK, Objects, NextMethod

LEMMA OkMerged ==
  ASSUME CollectInv, next <= Len(Methods), NextMethod,
         Assign(Current, OkResult), failed' = failed
  PROVE  CollectInv'
<1>1. TypeOK /\ json \in Objects
  BY DEF CollectInv, TypeOK, Objects
<1>2. /\ next \in Nat \ {0} /\ Current \in Section /\ Methods[next] = Current
  BY <1>1, MethodFound
<1>3. OkResult \in Results /\ OkResult.success /\ OkResult.message = "ok"
  BY DEF OkResult, Results, Message
<1>4. /\ json' \in Objects /\ json'.keys
      /\ json'.success = (IF Overrides(OkResult) THEN OkResult.success ELSE json.success)
      /\ json'.message = IF Overrides(OkResult) \/ json.message = "ok"
                         THEN OkResult.message ELSE json.message
      /\ json'.sections = IF json'.success /\ OkResult.success
                          THEN json.sections \cup {Current} ELSE json.sections
  BY <1>1, <1>2, <1>3, AssignFields
<1>5. /\ json'.success = (~json.keys \/ json.success)
      /\ json'.message = IF ~json.keys THEN "ok" ELSE json.message
      /\ json'.sections = IF json'.success THEN json.sections \cup {Current}
                          ELSE json.sections
  BY <1>3, <1>4 DEF Overrides, Objects
<1>6. TypeOK' /\ next' \in Nat \ {0, 1} /\ Methods' = Methods /\ next' = next + 1
  BY <1>1, <1>4, MethodTyped DEF TypeOK, NextMethod
<1>7. Before(next)' = Before(next) \cup {Current}
  BY <1>2, <1>6 DEF Before
<1>8. failed' \subseteq Before(next)'
  BY <1>7 DEF CollectInv
<1>9. TellsSoFar'
  <2>1. CASE next = 1
    <3>1. ~json.keys /\ json.sections = {} /\ failed = {} /\ Before(next) = {}
      BY <2>1 DEF CollectInv, Before
    <3>2. json'.success /\ json'.message = "ok" /\ json'.sections = {Current}
      BY <1>5, <3>1
    <3> QED BY <1>7, <3>1, <3>2 DEF TellsSoFar
  <2>2. CASE next # 1 /\ json.success
    <3>1. json.keys /\ failed = {} /\ json.message = "ok" /\ json.sections = Before(next)
      BY <1>2, <2>2 DEF CollectInv, TellsSoFar
    <3>2. json'.success /\ json'.message = "ok" /\ json'.sections = Before(next)'
      BY <1>5, <1>7, <2>2, <3>1
    <3> QED BY <3>1, <3>2 DEF TellsSoFar
  <2>3. CASE next # 1 /\ ~json.success
    <3>1. json.keys /\ failed # {} /\ \E i \in 1..next - 1 : FirstErrorAt(i)
      BY <1>2, <2>3 DEF CollectInv, TellsSoFar
    <3>2. PICK i \in 1..next - 1 : FirstErrorAt(i)
      BY <3>1
    <3>3. ~json'.success /\ json'.message = json.message /\ json'.sections = json.sections
      BY <1>5, <2>3, <3>1
    <3>4. FirstErrorAt(i)' /\ i \in 1..next' - 1
      BY <1>2, <1>6, <3>2, <3>3 DEF FirstErrorAt, Before
    <3> QED BY <3>1, <3>3, <3>4 DEF TellsSoFar
  <2> QED BY <2>1, <2>2, <2>3
<1> QED BY <1>4, <1>6, <1>8, <1>9 DEF CollectInv

LEMMA ErrorMerged ==
  ASSUME CollectInv, next <= Len(Methods), NextMethod,
         Assign(Current, FailedResult(Current)), failed' = failed \cup {Current}
  PROVE  CollectInv'
<1> DEFINE r == FailedResult(Current)
<1>1. TypeOK /\ json \in Objects
  BY DEF CollectInv, TypeOK, Objects
<1>2. /\ next \in Nat \ {0} /\ Current \in Section /\ Methods[next] = Current
      /\ \A k \in 1..next - 1 : Methods[k] \in Section /\ Methods[k] # Current
  BY <1>1, MethodFound
<1>3. r \in Results /\ ~r.success /\ r.message = Current
  BY <1>2 DEF FailedResult, Results, Message
<1>4. /\ json' \in Objects /\ json'.keys
      /\ json'.success = (IF Overrides(r) THEN r.success ELSE json.success)
      /\ json'.message = IF Overrides(r) \/ json.message = "ok"
                         THEN r.message ELSE json.message
      /\ json'.sections = IF json'.success /\ r.success
                          THEN json.sections \cup {Current} ELSE json.sections
  BY <1>1, <1>2, <1>3, AssignFields
<1> HIDE DEF r
<1>5. /\ ~json'.success /\ json'.sections = json.sections
      /\ json'.message = IF ~json.keys \/ json.success \/ json.message = "ok"
                         THEN Current ELSE json.message
  BY <1>3, <1>4 DEF Overrides
<1>6. TypeOK' /\ next' \in Nat \ {0, 1} /\ Methods' = Methods /\ next' = next + 1
  BY <1>1, <1>2, <1>4, MethodTyped DEF TypeOK, NextMethod
<1>7. Before(next)' = Before(next) \cup {Current}
  BY <1>2, <1>6 DEF Before
<1>8. failed' \subseteq Before(next)' /\ failed' # {}
  BY <1>7 DEF CollectInv
<1>9. TellsSoFar'
  <2>1. CASE next = 1 \/ json.success
    <3>1. failed = {} /\ json.sections = Before(next)
      BY <1>2, <2>1 DEF CollectInv, TellsSoFar, Before
    <3>2. json'.message = Methods[next] /\ next \in 1..next' - 1
      BY <1>2, <1>5, <1>6, <2>1 DEF CollectInv
    <3>3. \A k \in 1..next - 1 : Methods[k] \notin failed'
      BY <1>2, <3>1
    <3>4. /\ json'.message = Methods'[next] /\ Methods'[next] \in failed'
          /\ \A k \in 1..next - 1 : Methods'[k] \notin failed'
          /\ json'.sections = {Methods'[k] : k \in 1..next - 1}
      BY <1>2, <1>5, <1>6, <3>1, <3>2, <3>3, Zenon DEF Before
    <3>5. \E i \in 1..next' - 1 : FirstErrorAt(i)'
      BY <3>2, <3>4, Zenon DEF FirstErrorAt, Before
    <3> QED BY <1>5, <1>8, <3>5 DEF TellsSoFar
  <2>2. CASE next # 1 /\ ~json.success
    <3>1. json.keys /\ \E i \in 1..next - 1 : FirstErrorAt(i)
      BY <1>2, <2>2 DEF CollectInv, TellsSoFar
    <3>2. PICK i \in 1..next - 1 : FirstErrorAt(i)
      BY <3>1
    <3>3. json.message # "ok"
      BY <1>2, <3>2, OkIsNoSection DEF FirstErrorAt
    <3>4. json'.message = json.message
      BY <1>5, <2>2, <3>1, <3>3
    <3>5. \A k \in 1..i - 1 : k \in 1..next - 1
      BY <1>2, <3>2
    <3>6. \A k \in 1..i - 1 : Methods[k] \notin failed'
      BY <1>2, <3>2, <3>5 DEF FirstErrorAt
    <3>7. i \in 1..next' - 1
      BY <1>2, <1>6, <3>2
    <3>8. FirstErrorAt(i)'
      BY <1>5, <1>6, <3>2, <3>4, <3>6 DEF FirstErrorAt, Before
    <3> QED BY <1>5, <1>8, <3>7, <3>8 DEF TellsSoFar
  <2> QED BY <2>1, <2>2
<1> QED BY <1>4, <1>6, <1>8, <1>9 DEF CollectInv

LEMMA CollectStep == ASSUME CollectInv, [Next]_vars PROVE CollectInv'
<1>1. CASE QueryAnswered
  <2>1. CASE query + 1 < Queries(Current)
    <3>1. /\ next <= Len(Methods) /\ query' = query + 1
          /\ UNCHANGED <<operation, next, json, failed>>
      BY <1>1, <2>1 DEF QueryAnswered
    <3>2. query' \in 0..Queries(Current) - 1
      <4>1. Current \in Section /\ Queries(Current) \in Nat /\ query \in 0..Queries(Current) - 1
        BY <3>1, MethodFound, QueriesFit DEF CollectInv, TypeOK
      <4> QED BY <2>1, <3>1, <4>1
    <3>3. Methods' = Methods /\ Current' = Current
      BY <3>1 DEF Methods, Current
    <3>4. TypeOK'
      BY <3>1, <3>2, <3>3 DEF CollectInv, TypeOK
    <3>5. Before(next)' = Before(next) /\ TellsSoFar' = TellsSoFar
      BY <3>1, <3>3 DEF TellsSoFar, Before, FirstErrorAt
    <3> QED BY <3>1, <3>4, <3>5 DEF CollectInv
  <2>2. CASE ~(query + 1 < Queries(Current))
    BY <1>1, <2>2, OkMerged DEF QueryAnswered
  <2> QED BY <2>1, <2>2
<1>2. CASE QueryFails
  BY <1>2, ErrorMerged DEF QueryFails
<1>3. CASE UNCHANGED vars
  BY <1>3 DEF vars, CollectInv, TypeOK, TellsSoFar, Before, FirstErrorAt, Methods, Current
<1> QED BY <1>1, <1>2, <1>3 DEF Next

LEMMA CollectHolds == Spec => []CollectInv
<1>1. Init => CollectInv
  BY CollectInit
<1>2. CollectInv /\ [Next]_vars => CollectInv'
  BY CollectStep
<1> QED BY <1>1, <1>2, PTL DEF Spec

(* collectDataFromMethods of server_kkmop_handler.cpp, assign of impex.cpp: *)
(* whichever queries of whichever operation fail, the response says success *)
(* only when none has, with every section, and otherwise the first error    *)
(* and what came before it.                                                 *)
THEOREM ResponseTellsFirstErrorHolds == Spec => []ResponseTellsFirstError
<1>1. CollectInv => ResponseTellsFirstError
  <2> SUFFICES ASSUME CollectInv, next > Len(Methods)
               PROVE  /\ json.keys
                      /\ json.success <=> failed = {}
                      /\ json.success => json.sections = ToSet(Methods)
                      /\ ~json.success => \E i \in DOMAIN Methods : FirstErrorAt(i)
    BY Zenon DEF ResponseTellsFirstError, Done, FirstErrorAt, Before
  <2>1. Once(Methods) /\ next \in 1..Len(Methods) + 1
    BY MethodsOnce DEF CollectInv, TypeOK, Methods
  <2>2. /\ DOMAIN Methods = 1..Len(Methods) /\ 1..next - 1 = 1..Len(Methods) /\ next > 1
    BY <2>1 DEF Once
  <2>3. Before(next) = ToSet(Methods)
    BY <2>2 DEF Before, ToSet
  <2>4. json.keys /\ TellsSoFar
    BY <2>2 DEF CollectInv
  <2> QED BY <2>2, <2>3, <2>4, Zenon DEF TellsSoFar
<1> QED BY <1>1, CollectHolds, PTL

-----------------------------------------------------------------------------
(* The rows of each kind of details.                                       *)

IsRow(r, p, c, n) == r.path = p /\ r.check = c /\ r.need = n

Keys ==
    {"electronically", "operator", "name", "inn", "cashSum", "closeShift", "cashOut",
     "cliche", "footer", "margin", "document", "separator", "content", "center",
     "customer", "contact", "seller", "email", "text", "tax", "items", "title",
     "price", "quantity", "unit", "payment", "sum", "type", "electroPaymentInfo",
     "method", "id", "addInfo", "magnified", "separated", "0", "1"}

Checks ==
    {"flag", "object", "array", "title", "text", "note", "cash", "price", "quantity",
     "integer", "sum", "payment type", "unit", "tax", "item tax", "item"}

AnyRow == [path : Seq(Keys), check : Checks, need : BOOLEAN, reported : Seq(Keys)]

LEMMA Names ==
  /\ "electronically" \in Keys /\ "operator" \in Keys /\ "name" \in Keys
  /\ "inn" \in Keys /\ "cashSum" \in Keys /\ "closeShift" \in Keys
  /\ "cashOut" \in Keys /\ "cliche" \in Keys /\ "footer" \in Keys
  /\ "margin" \in Keys /\ "document" \in Keys /\ "separator" \in Keys
  /\ "content" \in Keys /\ "center" \in Keys /\ "customer" \in Keys
  /\ "contact" \in Keys /\ "seller" \in Keys /\ "email" \in Keys
  /\ "text" \in Keys /\ "tax" \in Keys /\ "items" \in Keys
  /\ "title" \in Keys /\ "price" \in Keys /\ "quantity" \in Keys
  /\ "unit" \in Keys /\ "payment" \in Keys /\ "sum" \in Keys
  /\ "type" \in Keys /\ "electroPaymentInfo" \in Keys /\ "method" \in Keys
  /\ "id" \in Keys /\ "0" \in Keys /\ "1" \in Keys
  /\ "addInfo" \in Keys /\ "magnified" \in Keys /\ "separated" \in Keys
  BY Zenon DEF Keys

LEMMA CheckNames ==
  /\ "flag" \in Checks /\ "object" \in Checks /\ "array" \in Checks
  /\ "title" \in Checks /\ "text" \in Checks /\ "note" \in Checks
  /\ "cash" \in Checks /\ "price" \in Checks /\ "quantity" \in Checks
  /\ "integer" \in Checks /\ "sum" \in Checks /\ "payment type" \in Checks
  /\ "unit" \in Checks /\ "tax" \in Checks /\ "item tax" \in Checks
  /\ "item" \in Checks
  BY Zenon DEF Checks

LEMMA MadeRow ==
  ASSUME NEW p \in Seq(Keys), NEW c \in Checks
  PROVE  /\ Must(p, c) \in AnyRow /\ IsRow(Must(p, c), p, c, TRUE)
         /\ May(p, c) \in AnyRow /\ IsRow(May(p, c), p, c, FALSE)
  BY DEF Must, May, Row, AnyRow, IsRow

LEMMA MadeTopRow ==
  ASSUME NEW x \in Keys, NEW c \in Checks
  PROVE  /\ Must(<<x>>, c) \in AnyRow /\ IsRow(Must(<<x>>, c), <<x>>, c, TRUE)
         /\ May(<<x>>, c) \in AnyRow /\ IsRow(May(<<x>>, c), <<x>>, c, FALSE)
<1>1. <<x>> \in Seq(Keys)
  OBVIOUS
<1> QED BY <1>1, MadeRow, Zenon

LEMMA MadeRows ==
  ASSUME NEW x \in Keys, NEW y \in Keys, NEW z \in Keys, NEW c \in Checks
  PROVE  \A p \in {<<x, y>>, <<x, y, z>>} :
         /\ Must(p, c) \in AnyRow /\ IsRow(Must(p, c), p, c, TRUE)
         /\ May(p, c) \in AnyRow /\ IsRow(May(p, c), p, c, FALSE)
<1>1. <<x, y>> \in Seq(Keys) /\ <<x, y, z>> \in Seq(Keys)
  OBVIOUS
<1> QED BY <1>1, MadeRow, Zenon

LEMMA RenamedRow ==
  ASSUME NEW r \in AnyRow, NEW q \in Seq(Keys)
  PROVE  LET s == [r EXCEPT !.reported = q]
         IN  s \in AnyRow /\ IsRow(s, r.path, r.check, r.need)
  BY DEF AnyRow, IsRow

LEMMA BareRow ==
  ASSUME NEW r \in AnyRow, r.path # <<>>
  PROVE  Bare(r) \in AnyRow /\ IsRow(Bare(r), r.path, r.check, r.need)
<1>1. <<Last(r.path)>> \in Seq(Keys)
  BY DEF AnyRow, Last
<1> QED BY <1>1, RenamedRow, Zenon DEF Bare

LEMMA OperatorRowsAre ==
  /\ OperatorRows \in Seq(AnyRow) /\ Len(OperatorRows) = 4
  /\ IsRow(OperatorRows[1], <<"electronically">>, "flag", FALSE)
  /\ IsRow(OperatorRows[2], <<"operator">>, "object", TRUE)
  /\ IsRow(OperatorRows[3], <<"operator", "name">>, "title", TRUE)
  /\ IsRow(OperatorRows[4], <<"operator", "inn">>, "note", FALSE)
<1> DEFINE a == May(<<"electronically">>, "flag")
           b == Must(<<"operator">>, "object")
           c == Must(<<"operator", "name">>, "title")
           d == May(<<"operator", "inn">>, "note")
<1>1. a \in AnyRow /\ IsRow(a, <<"electronically">>, "flag", FALSE)
  BY MadeTopRow, Names, CheckNames, Zenon
<1>2. b \in AnyRow /\ IsRow(b, <<"operator">>, "object", TRUE)
  BY MadeTopRow, Names, CheckNames, Zenon
<1>3. c \in AnyRow /\ IsRow(c, <<"operator", "name">>, "title", TRUE)
  BY MadeRows, Names, CheckNames, Zenon
<1>4. d \in AnyRow /\ IsRow(d, <<"operator", "inn">>, "note", FALSE)
  BY MadeRows, Names, CheckNames, Zenon
<1>5. OperatorRows = <<a>> \o <<b, c, d>>
  BY DEF OperatorRows, ElectronicallyRows
<1> HIDE DEF a, b, c, d
<1>6. /\ OperatorRows \in Seq(AnyRow) /\ Len(OperatorRows) = 4
      /\ OperatorRows[1] = a
      /\ OperatorRows[2] = b
      /\ OperatorRows[3] = c
      /\ OperatorRows[4] = d
  BY <1>1, <1>2, <1>3, <1>4, <1>5
<1> QED BY <1>1, <1>2, <1>3, <1>4, <1>6, Zenon

LEMMA BlockRowsAre ==
  ASSUME NEW i \in Index
  PROVE  /\ BlockRows(i) \in Seq(AnyRow) /\ Len(BlockRows(i)) = 5
         /\ IsRow(BlockRows(i)[1], <<"document", i, "separator">>, "flag", FALSE)
         /\ IsRow(BlockRows(i)[2], <<"document", i, "content">>, "text", TRUE)
         /\ IsRow(BlockRows(i)[3], <<"document", i, "center">>, "flag", FALSE)
         /\ IsRow(BlockRows(i)[4], <<"document", i, "magnified">>, "flag", FALSE)
         /\ IsRow(BlockRows(i)[5], <<"document", i, "separated">>, "flag", FALSE)
<1> DEFINE a == May(<<"document", i, "separator">>, "flag")
           b == Must(<<"document", i, "content">>, "text")
           c == May(<<"document", i, "center">>, "flag")
           d == May(<<"document", i, "magnified">>, "flag")
           e == May(<<"document", i, "separated">>, "flag")
<1>1. a \in AnyRow /\ IsRow(a, <<"document", i, "separator">>, "flag", FALSE)
  BY MadeRows, Names, CheckNames, Zenon DEF Index
<1>2. b \in AnyRow /\ IsRow(b, <<"document", i, "content">>, "text", TRUE)
  BY MadeRows, Names, CheckNames, Zenon DEF Index
<1>3. c \in AnyRow /\ IsRow(c, <<"document", i, "center">>, "flag", FALSE)
  BY MadeRows, Names, CheckNames, Zenon DEF Index
<1>4. d \in AnyRow /\ IsRow(d, <<"document", i, "magnified">>, "flag", FALSE)
  BY MadeRows, Names, CheckNames, Zenon DEF Index
<1>5. e \in AnyRow /\ IsRow(e, <<"document", i, "separated">>, "flag", FALSE)
  BY MadeRows, Names, CheckNames, Zenon DEF Index
<1>6. BlockRows(i) = <<a, b, c, d, e>>
  BY DEF BlockRows
<1> HIDE DEF a, b, c, d, e
<1>7. /\ BlockRows(i) \in Seq(AnyRow) /\ Len(BlockRows(i)) = 5
      /\ BlockRows(i)[1] = a
      /\ BlockRows(i)[2] = b
      /\ BlockRows(i)[3] = c
      /\ BlockRows(i)[4] = d
      /\ BlockRows(i)[5] = e
  BY <1>1, <1>2, <1>3, <1>4, <1>5, <1>6
<1> QED BY <1>1, <1>2, <1>3, <1>4, <1>5, <1>7, Zenon

LEMMA PartiesRowsAre ==
  /\ PartiesRows \in Seq(AnyRow) /\ Len(PartiesRows) = 5
  /\ IsRow(PartiesRows[1], <<"customer">>, "object", FALSE)
  /\ IsRow(PartiesRows[2], <<"customer", "contact">>, "note", FALSE)
  /\ IsRow(PartiesRows[3], <<"customer", "inn">>, "note", FALSE)
  /\ IsRow(PartiesRows[4], <<"seller">>, "object", FALSE)
  /\ IsRow(PartiesRows[5], <<"seller", "email">>, "note", FALSE)
<1> DEFINE a == May(<<"customer">>, "object")
           b == May(<<"customer", "contact">>, "note")
           c == May(<<"customer", "inn">>, "note")
           d == May(<<"seller">>, "object")
           e == May(<<"seller", "email">>, "note")
<1>1. a \in AnyRow /\ IsRow(a, <<"customer">>, "object", FALSE)
  BY MadeTopRow, Names, CheckNames, Zenon
<1>2. b \in AnyRow /\ IsRow(b, <<"customer", "contact">>, "note", FALSE)
  BY MadeRows, Names, CheckNames, Zenon
<1>3. c \in AnyRow /\ IsRow(c, <<"customer", "inn">>, "note", FALSE)
  BY MadeRows, Names, CheckNames, Zenon
<1>4. d \in AnyRow /\ IsRow(d, <<"seller">>, "object", FALSE)
  BY MadeTopRow, Names, CheckNames, Zenon
<1>5. e \in AnyRow /\ IsRow(e, <<"seller", "email">>, "note", FALSE)
  BY MadeRows, Names, CheckNames, Zenon
<1>6. PartiesRows = <<a, b, c, d, e>>
  BY DEF PartiesRows
<1> HIDE DEF a, b, c, d, e
<1>7. /\ PartiesRows \in Seq(AnyRow) /\ Len(PartiesRows) = 5
      /\ PartiesRows[1] = a
      /\ PartiesRows[2] = b
      /\ PartiesRows[3] = c
      /\ PartiesRows[4] = d
      /\ PartiesRows[5] = e
  BY <1>1, <1>2, <1>3, <1>4, <1>5, <1>6
<1> QED BY <1>1, <1>2, <1>3, <1>4, <1>5, <1>7, Zenon

LEMMA TextRowsAre ==
  /\ TextRows \in Seq(AnyRow) /\ Len(TextRows) = 5
  /\ IsRow(TextRows[1], <<"text">>, "object", FALSE)
  /\ IsRow(TextRows[2], <<"text", "content">>, "text", FALSE)
  /\ IsRow(TextRows[3], <<"text", "center">>, "flag", FALSE)
  /\ IsRow(TextRows[4], <<"text", "magnified">>, "flag", FALSE)
  /\ IsRow(TextRows[5], <<"text", "separated">>, "flag", FALSE)
<1> DEFINE a == May(<<"text">>, "object")
           b == May(<<"text", "content">>, "text")
           c == May(<<"text", "center">>, "flag")
           d == May(<<"text", "magnified">>, "flag")
           e == May(<<"text", "separated">>, "flag")
<1>1. a \in AnyRow /\ IsRow(a, <<"text">>, "object", FALSE)
  BY MadeTopRow, Names, CheckNames, Zenon
<1>2. b \in AnyRow /\ IsRow(b, <<"text", "content">>, "text", FALSE)
  BY MadeRows, Names, CheckNames, Zenon
<1>3. c \in AnyRow /\ IsRow(c, <<"text", "center">>, "flag", FALSE)
  BY MadeRows, Names, CheckNames, Zenon
<1>4. d \in AnyRow /\ IsRow(d, <<"text", "magnified">>, "flag", FALSE)
  BY MadeRows, Names, CheckNames, Zenon
<1>5. e \in AnyRow /\ IsRow(e, <<"text", "separated">>, "flag", FALSE)
  BY MadeRows, Names, CheckNames, Zenon
<1>6. TextRows = <<a, b, c, d, e>>
  BY DEF TextRows
<1> HIDE DEF a, b, c, d, e
<1>7. /\ TextRows \in Seq(AnyRow) /\ Len(TextRows) = 5
      /\ TextRows[1] = a
      /\ TextRows[2] = b
      /\ TextRows[3] = c
      /\ TextRows[4] = d
      /\ TextRows[5] = e
  BY <1>1, <1>2, <1>3, <1>4, <1>5, <1>6
<1> QED BY <1>1, <1>2, <1>3, <1>4, <1>5, <1>7, Zenon

LEMMA SixRows ==
  ASSUME NEW a \in AnyRow, NEW b \in AnyRow, NEW c \in AnyRow,
         NEW d \in AnyRow, NEW e \in AnyRow, NEW f \in AnyRow
  PROVE  <<a, b, c, d, e, f>> \in Seq(AnyRow)
  OBVIOUS

LEMMA SevenRows ==
  ASSUME NEW a \in AnyRow, NEW b \in AnyRow, NEW c \in AnyRow, NEW d \in AnyRow,
         NEW e \in AnyRow, NEW f \in AnyRow, NEW g \in AnyRow
  PROVE  <<a, b, c, d, e, f, g>> \in Seq(AnyRow)
  OBVIOUS

LEMMA PaymentRowsAre ==
  /\ PaymentRows \in Seq(AnyRow) /\ Len(PaymentRows) = 7
  /\ IsRow(PaymentRows[1], <<"payment">>, "object", TRUE)
  /\ IsRow(PaymentRows[2], <<"payment", "sum">>, "sum", TRUE)
  /\ IsRow(PaymentRows[3], <<"payment", "type">>, "payment type", TRUE)
  /\ IsRow(PaymentRows[4], <<"payment", "electroPaymentInfo">>, "object", FALSE)
  /\ IsRow(PaymentRows[5], <<"payment", "electroPaymentInfo", "method">>, "integer", TRUE)
  /\ IsRow(PaymentRows[6], <<"payment", "electroPaymentInfo", "id">>, "text", TRUE)
  /\ IsRow(PaymentRows[7], <<"payment", "electroPaymentInfo", "addInfo">>, "note", FALSE)
<1> DEFINE a == Must(<<"payment">>, "object")
           b == Must(<<"payment", "sum">>, "sum")
           c == Must(<<"payment", "type">>, "payment type")
           d == May(<<"payment", "electroPaymentInfo">>, "object")
           e == Must(<<"payment", "electroPaymentInfo", "method">>, "integer")
           f == Must(<<"payment", "electroPaymentInfo", "id">>, "text")
           g == May(<<"payment", "electroPaymentInfo", "addInfo">>, "note")
<1>1. a \in AnyRow /\ IsRow(a, <<"payment">>, "object", TRUE)
  BY MadeTopRow, Names, CheckNames, Zenon
<1>2. b \in AnyRow /\ IsRow(b, <<"payment", "sum">>, "sum", TRUE)
  BY MadeRows, Names, CheckNames, Zenon
<1>3. c \in AnyRow /\ IsRow(c, <<"payment", "type">>, "payment type", TRUE)
  BY MadeRows, Names, CheckNames, Zenon
<1>4. d \in AnyRow /\ IsRow(d, <<"payment", "electroPaymentInfo">>, "object", FALSE)
  BY MadeRows, Names, CheckNames, Zenon
<1>5. e \in AnyRow /\ IsRow(e, <<"payment", "electroPaymentInfo", "method">>, "integer", TRUE)
  BY MadeRows, Names, CheckNames, Zenon
<1>6. f \in AnyRow /\ IsRow(f, <<"payment", "electroPaymentInfo", "id">>, "text", TRUE)
  BY MadeRows, Names, CheckNames, Zenon
<1>7. g \in AnyRow /\ IsRow(g, <<"payment", "electroPaymentInfo", "addInfo">>, "note", FALSE)
  BY MadeRows, Names, CheckNames, Zenon
<1>8. PaymentRows = <<a, b, c, d, e, f, g>>
  BY DEF PaymentRows
<1> HIDE DEF a, b, c, d, e, f, g
<1>9. /\ PaymentRows \in Seq(AnyRow) /\ Len(PaymentRows) = 7
      /\ PaymentRows[1] = a
      /\ PaymentRows[2] = b
      /\ PaymentRows[3] = c
      /\ PaymentRows[4] = d
      /\ PaymentRows[5] = e
      /\ PaymentRows[6] = f
      /\ PaymentRows[7] = g
  <2>1. <<a, b, c, d, e, f, g>> \in Seq(AnyRow)
    BY <1>1, <1>2, <1>3, <1>4, <1>5, <1>6, <1>7, SevenRows
  <2> QED BY <1>8, <2>1
<1> QED BY <1>1, <1>2, <1>3, <1>4, <1>5, <1>6, <1>7, <1>9, Zenon

LEMMA ItemRowsAre ==
  ASSUME NEW i \in Index
  PROVE  /\ ItemRows(i) \in Seq(AnyRow) /\ Len(ItemRows(i)) = 6
         /\ IsRow(ItemRows(i)[1], <<"items", i, "title">>, "title", TRUE)
         /\ IsRow(ItemRows(i)[2], <<"items", i, "price">>, "price", TRUE)
         /\ IsRow(ItemRows(i)[3], <<"items", i, "quantity">>, "quantity", TRUE)
         /\ IsRow(ItemRows(i)[4], <<"items", i, "unit">>, "unit", FALSE)
         /\ IsRow(ItemRows(i)[5], <<"items", i, "tax">>, "item tax", FALSE)
         /\ IsRow(ItemRows(i)[6], <<"items", i>>, "item", TRUE)
<1> DEFINE a == Must(<<"items", i, "title">>, "title")
           b == Must(<<"items", i, "price">>, "price")
           c == Must(<<"items", i, "quantity">>, "quantity")
           u == May(<<"items", i, "unit">>, "unit")
           t == May(<<"items", i, "tax">>, "item tax")
           m == Must(<<"items", i>>, "item")
           d == Bare(u)
           e == [Bare(t) EXCEPT !.reported = <<"tax">>]
           f == [m EXCEPT !.reported = <<"price">>]
<1>1. a \in AnyRow /\ IsRow(a, <<"items", i, "title">>, "title", TRUE)
  BY MadeRows, Names, CheckNames, Zenon DEF Index
<1>2. b \in AnyRow /\ IsRow(b, <<"items", i, "price">>, "price", TRUE)
  BY MadeRows, Names, CheckNames, Zenon DEF Index
<1>3. c \in AnyRow /\ IsRow(c, <<"items", i, "quantity">>, "quantity", TRUE)
  BY MadeRows, Names, CheckNames, Zenon DEF Index
<1>4. u \in AnyRow /\ IsRow(u, <<"items", i, "unit">>, "unit", FALSE)
  BY MadeRows, Names, CheckNames, Zenon DEF Index
<1>5. t \in AnyRow /\ IsRow(t, <<"items", i, "tax">>, "item tax", FALSE)
  BY MadeRows, Names, CheckNames, Zenon DEF Index
<1>6. m \in AnyRow /\ IsRow(m, <<"items", i>>, "item", TRUE)
  BY MadeRows, Names, CheckNames, Zenon DEF Index
<1>7. ItemRows(i) = <<a, b, c, d, e, f>>
  BY DEF ItemRows
<1>8. <<"items", i, "unit">> # <<>> /\ <<"items", i, "tax">> # <<>>
  OBVIOUS
<1>9. <<"tax">> \in Seq(Keys) /\ <<"price">> \in Seq(Keys)
  BY Names
<1> HIDE DEF a, b, c, u, t, m
<1>10. d \in AnyRow /\ IsRow(d, <<"items", i, "unit">>, "unit", FALSE)
  BY <1>4, <1>8, BareRow, Zenon DEF IsRow
<1>11. Bare(t) \in AnyRow /\ IsRow(Bare(t), <<"items", i, "tax">>, "item tax", FALSE)
  BY <1>5, <1>8, BareRow, Zenon DEF IsRow
<1>12. e \in AnyRow /\ IsRow(e, <<"items", i, "tax">>, "item tax", FALSE)
  BY <1>9, <1>11, RenamedRow, Zenon DEF IsRow
<1>13. f \in AnyRow /\ IsRow(f, <<"items", i>>, "item", TRUE)
  BY <1>6, <1>9, RenamedRow, Zenon DEF IsRow
<1> HIDE DEF d, e, f
<1>14. /\ ItemRows(i) \in Seq(AnyRow) /\ Len(ItemRows(i)) = 6
       /\ ItemRows(i)[1] = a /\ ItemRows(i)[2] = b /\ ItemRows(i)[3] = c
       /\ ItemRows(i)[4] = d /\ ItemRows(i)[5] = e /\ ItemRows(i)[6] = f
  <2>1. <<a, b, c, d, e, f>> \in Seq(AnyRow)
    BY <1>1, <1>2, <1>3, <1>10, <1>12, <1>13, SixRows
  <2> QED BY <1>7, <2>1
<1> QED BY <1>1, <1>2, <1>3, <1>10, <1>12, <1>13, <1>14, Zenon

(* A sequence of rows that is a part of another, from a place on.          *)
Part(s, n, t) == \A i \in 1..Len(t) : s[n + i] = t[i]

LEMMA Joined ==
  ASSUME NEW s \in Seq(AnyRow), NEW t \in Seq(AnyRow), NEW m \in Nat, NEW n \in Nat,
         Len(s) = m, Len(t) = n
  PROVE  s \o t \in Seq(AnyRow) /\ Len(s \o t) = m + n /\ Part(s \o t, m, t)
  BY DEF Part

LEMMA PartStays ==
  ASSUME NEW s \in Seq(AnyRow), NEW t \in Seq(AnyRow), NEW u \in Seq(AnyRow), NEW n \in Nat,
         n + Len(t) <= Len(s), Part(s, n, t)
  PROVE  Part(s \o u, n, t)
  BY DEF Part

LEMMA WholePart == ASSUME NEW s \in Seq(AnyRow) PROVE Part(s, 0, s)
  BY DEF Part

LEMMA Numbers ==
  /\ 0 \in Nat /\ 1 \in Nat /\ 2 \in Nat /\ 3 \in Nat /\ 4 \in Nat /\ 5 \in Nat
  /\ 6 \in Nat /\ 7 \in Nat /\ 8 \in Nat /\ 9 \in Nat /\ 10 \in Nat /\ 14 \in Nat
  /\ 15 \in Nat /\ 16 \in Nat /\ 22 \in Nat /\ 28 \in Nat
  OBVIOUS

LEMMA CashRowsAre ==
  /\ CashRows \in Seq(AnyRow) /\ Len(CashRows) = 5
  /\ IsRow(CashRows[1], <<"electronically">>, "flag", FALSE)
  /\ IsRow(CashRows[2], <<"operator">>, "object", TRUE)
  /\ IsRow(CashRows[3], <<"operator", "name">>, "title", TRUE)
  /\ IsRow(CashRows[4], <<"operator", "inn">>, "note", FALSE)
  /\ IsRow(CashRows[5], <<"cashSum">>, "cash", TRUE)
<1> DEFINE b1 == <<Must(<<"cashSum">>, "cash")>>
           s1 == OperatorRows \o b1
<1>1. OperatorRows \in Seq(AnyRow) /\ Len(OperatorRows) = 4
  BY OperatorRowsAre
<1>2. /\ b1 \in Seq(AnyRow) /\ Len(b1) = 1
      /\ IsRow(b1[1], <<"cashSum">>, "cash", TRUE)
  <2>1. Must(<<"cashSum">>, "cash") \in AnyRow /\ IsRow(Must(<<"cashSum">>, "cash"), <<"cashSum">>, "cash", TRUE)
    BY MadeTopRow, Names, CheckNames, Zenon
  <2> DEFINE x == Must(<<"cashSum">>, "cash")
  <2> HIDE DEF x
  <2>2. <<x>> \in Seq(AnyRow) /\ Len(<<x>>) = 1 /\ <<x>>[1] = x
    BY <2>1 DEF x
  <2> QED BY <2>1, <2>2, Zenon DEF x
<1> HIDE DEF b1
<1>3. Part(OperatorRows, 0, OperatorRows)
  BY <1>1, WholePart
<1>4. s1 \in Seq(AnyRow) /\ Len(s1) = 4 + 1 /\ Part(s1, 4, b1)
  BY <1>1, <1>2, Joined, Numbers, Zenon
<1>5. Part(s1, 0, OperatorRows)
  <2>0. 0 + 4 <= 4
    OBVIOUS
  <2>1. 0 + Len(OperatorRows) <= Len(OperatorRows)
    BY <2>0, <1>1, <1>1, Zenon
  <2> QED BY <2>1, <1>1, <1>1, <1>2, <1>3, PartStays, Numbers, Zenon
<1>6. s1 \in Seq(AnyRow) /\ Len(s1) = 5
  BY <1>4
<1>7. CashRows = s1
  BY DEF CashRows, s1, b1
<1> HIDE DEF s1
<1>8. /\ s1[1] = OperatorRows[1]
      /\ s1[2] = OperatorRows[2]
      /\ s1[3] = OperatorRows[3]
      /\ s1[4] = OperatorRows[4]
  BY <1>5, <1>1 DEF Part
<1>9. /\ s1[5] = b1[1]
  BY <1>4, <1>2 DEF Part
<1>10. /\ IsRow(s1[1], <<"electronically">>, "flag", FALSE)
      /\ IsRow(s1[2], <<"operator">>, "object", TRUE)
      /\ IsRow(s1[3], <<"operator", "name">>, "title", TRUE)
      /\ IsRow(s1[4], <<"operator", "inn">>, "note", FALSE)
  BY <1>8, OperatorRowsAre, Zenon
<1>11. /\ IsRow(s1[5], <<"cashSum">>, "cash", TRUE)
  BY <1>9, <1>2, Zenon
<1> QED BY <1>7, <1>6, <1>10, <1>11, Zenon

LEMMA CloseRowsAre ==
  /\ CloseRows \in Seq(AnyRow) /\ Len(CloseRows) = 6
  /\ IsRow(CloseRows[1], <<"electronically">>, "flag", FALSE)
  /\ IsRow(CloseRows[2], <<"operator">>, "object", TRUE)
  /\ IsRow(CloseRows[3], <<"operator", "name">>, "title", TRUE)
  /\ IsRow(CloseRows[4], <<"operator", "inn">>, "note", FALSE)
  /\ IsRow(CloseRows[5], <<"closeShift">>, "flag", FALSE)
  /\ IsRow(CloseRows[6], <<"cashOut">>, "flag", FALSE)
<1> DEFINE b1 == <<May(<<"closeShift">>, "flag"), May(<<"cashOut">>, "flag")>>
           s1 == OperatorRows \o b1
<1>1. OperatorRows \in Seq(AnyRow) /\ Len(OperatorRows) = 4
  BY OperatorRowsAre
<1>2. /\ b1 \in Seq(AnyRow) /\ Len(b1) = 2
      /\ IsRow(b1[1], <<"closeShift">>, "flag", FALSE)
      /\ IsRow(b1[2], <<"cashOut">>, "flag", FALSE)
  <2> DEFINE x == May(<<"closeShift">>, "flag")
             y == May(<<"cashOut">>, "flag")
  <2>1. x \in AnyRow /\ IsRow(x, <<"closeShift">>, "flag", FALSE)
    BY MadeTopRow, Names, CheckNames, Zenon
  <2>2. y \in AnyRow /\ IsRow(y, <<"cashOut">>, "flag", FALSE)
    BY MadeTopRow, Names, CheckNames, Zenon
  <2>3. b1 = <<x, y>>
    OBVIOUS
  <2> HIDE DEF x, y
  <2>4. <<x, y>> \in Seq(AnyRow) /\ Len(<<x, y>>) = 2 /\ <<x, y>>[1] = x /\ <<x, y>>[2] = y
    BY <2>1, <2>2
  <2> QED BY <2>1, <2>2, <2>3, <2>4, Zenon
<1> HIDE DEF b1
<1>3. Part(OperatorRows, 0, OperatorRows)
  BY <1>1, WholePart
<1>4. s1 \in Seq(AnyRow) /\ Len(s1) = 4 + 2 /\ Part(s1, 4, b1)
  BY <1>1, <1>2, Joined, Numbers, Zenon
<1>5. Part(s1, 0, OperatorRows)
  <2>0. 0 + 4 <= 4
    OBVIOUS
  <2>1. 0 + Len(OperatorRows) <= Len(OperatorRows)
    BY <2>0, <1>1, <1>1, Zenon
  <2> QED BY <2>1, <1>1, <1>1, <1>2, <1>3, PartStays, Numbers, Zenon
<1>6. s1 \in Seq(AnyRow) /\ Len(s1) = 6
  BY <1>4
<1>7. CloseRows = s1
  BY DEF CloseRows, s1, b1
<1> HIDE DEF s1
<1>8. /\ s1[1] = OperatorRows[1]
      /\ s1[2] = OperatorRows[2]
      /\ s1[3] = OperatorRows[3]
      /\ s1[4] = OperatorRows[4]
  BY <1>5, <1>1 DEF Part
<1>9. /\ s1[5] = b1[1]
      /\ s1[6] = b1[2]
  BY <1>4, <1>2 DEF Part
<1>10. /\ IsRow(s1[1], <<"electronically">>, "flag", FALSE)
      /\ IsRow(s1[2], <<"operator">>, "object", TRUE)
      /\ IsRow(s1[3], <<"operator", "name">>, "title", TRUE)
      /\ IsRow(s1[4], <<"operator", "inn">>, "note", FALSE)
  BY <1>8, OperatorRowsAre, Zenon
<1>11. /\ IsRow(s1[5], <<"closeShift">>, "flag", FALSE)
      /\ IsRow(s1[6], <<"cashOut">>, "flag", FALSE)
  BY <1>9, <1>2, Zenon
<1> QED BY <1>7, <1>6, <1>10, <1>11, Zenon

LEMMA FlagRowsAre ==
  /\ ElectronicallyRows \in Seq(AnyRow) /\ Len(ElectronicallyRows) = 1
  /\ IsRow(ElectronicallyRows[1], <<"electronically">>, "flag", FALSE)
<1> DEFINE x == May(<<"electronically">>, "flag")
<1>1. x \in AnyRow /\ IsRow(x, <<"electronically">>, "flag", FALSE)
  BY MadeTopRow, Names, CheckNames, Zenon
<1>2. ElectronicallyRows = <<x>>
  BY DEF ElectronicallyRows
<1> HIDE DEF x
<1>3. <<x>> \in Seq(AnyRow) /\ Len(<<x>>) = 1 /\ <<x>>[1] = x
  BY <1>1
<1> QED BY <1>1, <1>2, <1>3, Zenon

LEMMA PrintRowsAre ==
  /\ PrintRows \in Seq(AnyRow) /\ Len(PrintRows) = 15
  /\ IsRow(PrintRows[1], <<"electronically">>, "flag", FALSE)
  /\ IsRow(PrintRows[2], <<"cliche">>, "flag", FALSE)
  /\ IsRow(PrintRows[3], <<"footer">>, "flag", FALSE)
  /\ IsRow(PrintRows[4], <<"margin">>, "flag", FALSE)
  /\ IsRow(PrintRows[5], <<"document">>, "array", TRUE)
  /\ IsRow(PrintRows[6], <<"document", "0", "separator">>, "flag", FALSE)
  /\ IsRow(PrintRows[7], <<"document", "0", "content">>, "text", TRUE)
  /\ IsRow(PrintRows[8], <<"document", "0", "center">>, "flag", FALSE)
  /\ IsRow(PrintRows[9], <<"document", "0", "magnified">>, "flag", FALSE)
  /\ IsRow(PrintRows[10], <<"document", "0", "separated">>, "flag", FALSE)
  /\ IsRow(PrintRows[11], <<"document", "1", "separator">>, "flag", FALSE)
  /\ IsRow(PrintRows[12], <<"document", "1", "content">>, "text", TRUE)
  /\ IsRow(PrintRows[13], <<"document", "1", "center">>, "flag", FALSE)
  /\ IsRow(PrintRows[14], <<"document", "1", "magnified">>, "flag", FALSE)
  /\ IsRow(PrintRows[15], <<"document", "1", "separated">>, "flag", FALSE)
<1> DEFINE b1 == <<May(<<"cliche">>, "flag"), May(<<"footer">>, "flag"), May(<<"margin">>, "flag"),
                    Must(<<"document">>, "array")>>
           s1 == ElectronicallyRows \o b1
           s2 == s1 \o BlockRows("0")
           s3 == s2 \o BlockRows("1")
<1>1. ElectronicallyRows \in Seq(AnyRow) /\ Len(ElectronicallyRows) = 1
  BY FlagRowsAre
<1>2. /\ b1 \in Seq(AnyRow) /\ Len(b1) = 4
      /\ IsRow(b1[1], <<"cliche">>, "flag", FALSE)
      /\ IsRow(b1[2], <<"footer">>, "flag", FALSE)
      /\ IsRow(b1[3], <<"margin">>, "flag", FALSE)
      /\ IsRow(b1[4], <<"document">>, "array", TRUE)
  <2> DEFINE w == May(<<"cliche">>, "flag")
             x == May(<<"footer">>, "flag")
             y == May(<<"margin">>, "flag")
             z == Must(<<"document">>, "array")
  <2>1. w \in AnyRow /\ IsRow(w, <<"cliche">>, "flag", FALSE)
    BY MadeTopRow, Names, CheckNames, Zenon
  <2>2. x \in AnyRow /\ IsRow(x, <<"footer">>, "flag", FALSE)
    BY MadeTopRow, Names, CheckNames, Zenon
  <2>3. y \in AnyRow /\ IsRow(y, <<"margin">>, "flag", FALSE)
    BY MadeTopRow, Names, CheckNames, Zenon
  <2>4. z \in AnyRow /\ IsRow(z, <<"document">>, "array", TRUE)
    BY MadeTopRow, Names, CheckNames, Zenon
  <2>5. b1 = <<w, x, y, z>>
    OBVIOUS
  <2> HIDE DEF w, x, y, z
  <2>6. /\ <<w, x, y, z>> \in Seq(AnyRow) /\ Len(<<w, x, y, z>>) = 4
        /\ <<w, x, y, z>>[1] = w /\ <<w, x, y, z>>[2] = x
        /\ <<w, x, y, z>>[3] = y /\ <<w, x, y, z>>[4] = z
    BY <2>1, <2>2, <2>3, <2>4
  <2> QED BY <2>1, <2>2, <2>3, <2>4, <2>5, <2>6, Zenon
<1>3. BlockRows("0") \in Seq(AnyRow) /\ Len(BlockRows("0")) = 5
  BY BlockRowsAre DEF Index
<1>4. BlockRows("1") \in Seq(AnyRow) /\ Len(BlockRows("1")) = 5
  BY BlockRowsAre DEF Index
<1> HIDE DEF b1
<1>5. Part(ElectronicallyRows, 0, ElectronicallyRows)
  BY <1>1, WholePart
<1>6. s1 \in Seq(AnyRow) /\ Len(s1) = 1 + 4 /\ Part(s1, 1, b1)
  BY <1>1, <1>2, Joined, Numbers, Zenon
<1>7. Part(s1, 0, ElectronicallyRows)
  <2>0. 0 + 1 <= 1
    OBVIOUS
  <2>1. 0 + Len(ElectronicallyRows) <= Len(ElectronicallyRows)
    BY <2>0, <1>1, <1>1, Zenon
  <2> QED BY <2>1, <1>1, <1>1, <1>2, <1>5, PartStays, Numbers, Zenon
<1>8. s1 \in Seq(AnyRow) /\ Len(s1) = 5
  BY <1>6
<1>9. s2 \in Seq(AnyRow) /\ Len(s2) = 5 + 5 /\ Part(s2, 5, BlockRows("0"))
  BY <1>8, <1>3, Joined, Numbers, Zenon
<1>10. Part(s2, 0, ElectronicallyRows)
  <2>0. 0 + 1 <= 5
    OBVIOUS
  <2>1. 0 + Len(ElectronicallyRows) <= Len(s1)
    BY <2>0, <1>8, <1>1, Zenon
  <2> QED BY <2>1, <1>8, <1>1, <1>3, <1>7, PartStays, Numbers, Zenon
<1>11. Part(s2, 1, b1)
  <2>0. 1 + 4 <= 5
    OBVIOUS
  <2>1. 1 + Len(b1) <= Len(s1)
    BY <2>0, <1>8, <1>2, Zenon
  <2> QED BY <2>1, <1>8, <1>2, <1>3, <1>6, PartStays, Numbers, Zenon
<1>12. s2 \in Seq(AnyRow) /\ Len(s2) = 10
  BY <1>9
<1>13. s3 \in Seq(AnyRow) /\ Len(s3) = 10 + 5 /\ Part(s3, 10, BlockRows("1"))
  BY <1>12, <1>4, Joined, Numbers, Zenon
<1>14. Part(s3, 0, ElectronicallyRows)
  <2>0. 0 + 1 <= 10
    OBVIOUS
  <2>1. 0 + Len(ElectronicallyRows) <= Len(s2)
    BY <2>0, <1>12, <1>1, Zenon
  <2> QED BY <2>1, <1>12, <1>1, <1>4, <1>10, PartStays, Numbers, Zenon
<1>15. Part(s3, 1, b1)
  <2>0. 1 + 4 <= 10
    OBVIOUS
  <2>1. 1 + Len(b1) <= Len(s2)
    BY <2>0, <1>12, <1>2, Zenon
  <2> QED BY <2>1, <1>12, <1>2, <1>4, <1>11, PartStays, Numbers, Zenon
<1>16. Part(s3, 5, BlockRows("0"))
  <2>0. 5 + 5 <= 10
    OBVIOUS
  <2>1. 5 + Len(BlockRows("0")) <= Len(s2)
    BY <2>0, <1>12, <1>3, Zenon
  <2> QED BY <2>1, <1>12, <1>3, <1>4, <1>9, PartStays, Numbers, Zenon
<1>17. s3 \in Seq(AnyRow) /\ Len(s3) = 15
  BY <1>13
<1>18. PrintRows = s3
  BY DEF PrintRows, s1, s2, s3, b1
<1> HIDE DEF s1, s2, s3
<1>19. /\ s3[1] = ElectronicallyRows[1]
  BY <1>14, <1>1 DEF Part
<1>20. /\ s3[2] = b1[1]
      /\ s3[3] = b1[2]
      /\ s3[4] = b1[3]
      /\ s3[5] = b1[4]
  BY <1>15, <1>2 DEF Part
<1>21. /\ s3[6] = BlockRows("0")[1]
      /\ s3[7] = BlockRows("0")[2]
      /\ s3[8] = BlockRows("0")[3]
      /\ s3[9] = BlockRows("0")[4]
      /\ s3[10] = BlockRows("0")[5]
  BY <1>16, <1>3 DEF Part
<1>22. /\ s3[11] = BlockRows("1")[1]
      /\ s3[12] = BlockRows("1")[2]
      /\ s3[13] = BlockRows("1")[3]
      /\ s3[14] = BlockRows("1")[4]
      /\ s3[15] = BlockRows("1")[5]
  BY <1>13, <1>4 DEF Part
<1>23. /\ IsRow(s3[1], <<"electronically">>, "flag", FALSE)
  BY <1>19, FlagRowsAre, Zenon
<1>24. /\ IsRow(s3[2], <<"cliche">>, "flag", FALSE)
      /\ IsRow(s3[3], <<"footer">>, "flag", FALSE)
      /\ IsRow(s3[4], <<"margin">>, "flag", FALSE)
      /\ IsRow(s3[5], <<"document">>, "array", TRUE)
  BY <1>20, <1>2, Zenon
<1>25. /\ IsRow(s3[6], <<"document", "0", "separator">>, "flag", FALSE)
      /\ IsRow(s3[7], <<"document", "0", "content">>, "text", TRUE)
      /\ IsRow(s3[8], <<"document", "0", "center">>, "flag", FALSE)
      /\ IsRow(s3[9], <<"document", "0", "magnified">>, "flag", FALSE)
      /\ IsRow(s3[10], <<"document", "0", "separated">>, "flag", FALSE)
  BY <1>21, BlockRowsAre, Zenon DEF Index
<1>26. /\ IsRow(s3[11], <<"document", "1", "separator">>, "flag", FALSE)
      /\ IsRow(s3[12], <<"document", "1", "content">>, "text", TRUE)
      /\ IsRow(s3[13], <<"document", "1", "center">>, "flag", FALSE)
      /\ IsRow(s3[14], <<"document", "1", "magnified">>, "flag", FALSE)
      /\ IsRow(s3[15], <<"document", "1", "separated">>, "flag", FALSE)
  BY <1>22, BlockRowsAre, Zenon DEF Index
<1> QED BY <1>18, <1>17, <1>23, <1>24, <1>25, <1>26, Zenon

LEMMA ReceiptRowsAre ==
  /\ ReceiptRows \in Seq(AnyRow) /\ Len(ReceiptRows) = 35
  /\ IsRow(ReceiptRows[1], <<"electronically">>, "flag", FALSE)
  /\ IsRow(ReceiptRows[2], <<"operator">>, "object", TRUE)
  /\ IsRow(ReceiptRows[3], <<"operator", "name">>, "title", TRUE)
  /\ IsRow(ReceiptRows[4], <<"operator", "inn">>, "note", FALSE)
  /\ IsRow(ReceiptRows[5], <<"customer">>, "object", FALSE)
  /\ IsRow(ReceiptRows[6], <<"customer", "contact">>, "note", FALSE)
  /\ IsRow(ReceiptRows[7], <<"customer", "inn">>, "note", FALSE)
  /\ IsRow(ReceiptRows[8], <<"seller">>, "object", FALSE)
  /\ IsRow(ReceiptRows[9], <<"seller", "email">>, "note", FALSE)
  /\ IsRow(ReceiptRows[10], <<"text">>, "object", FALSE)
  /\ IsRow(ReceiptRows[11], <<"text", "content">>, "text", FALSE)
  /\ IsRow(ReceiptRows[12], <<"text", "center">>, "flag", FALSE)
  /\ IsRow(ReceiptRows[13], <<"text", "magnified">>, "flag", FALSE)
  /\ IsRow(ReceiptRows[14], <<"text", "separated">>, "flag", FALSE)
  /\ IsRow(ReceiptRows[15], <<"tax">>, "tax", FALSE)
  /\ IsRow(ReceiptRows[16], <<"items">>, "array", TRUE)
  /\ IsRow(ReceiptRows[17], <<"items", "0", "title">>, "title", TRUE)
  /\ IsRow(ReceiptRows[18], <<"items", "0", "price">>, "price", TRUE)
  /\ IsRow(ReceiptRows[19], <<"items", "0", "quantity">>, "quantity", TRUE)
  /\ IsRow(ReceiptRows[20], <<"items", "0", "unit">>, "unit", FALSE)
  /\ IsRow(ReceiptRows[21], <<"items", "0", "tax">>, "item tax", FALSE)
  /\ IsRow(ReceiptRows[22], <<"items", "0">>, "item", TRUE)
  /\ IsRow(ReceiptRows[23], <<"items", "1", "title">>, "title", TRUE)
  /\ IsRow(ReceiptRows[24], <<"items", "1", "price">>, "price", TRUE)
  /\ IsRow(ReceiptRows[25], <<"items", "1", "quantity">>, "quantity", TRUE)
  /\ IsRow(ReceiptRows[26], <<"items", "1", "unit">>, "unit", FALSE)
  /\ IsRow(ReceiptRows[27], <<"items", "1", "tax">>, "item tax", FALSE)
  /\ IsRow(ReceiptRows[28], <<"items", "1">>, "item", TRUE)
  /\ IsRow(ReceiptRows[29], <<"payment">>, "object", TRUE)
  /\ IsRow(ReceiptRows[30], <<"payment", "sum">>, "sum", TRUE)
  /\ IsRow(ReceiptRows[31], <<"payment", "type">>, "payment type", TRUE)
  /\ IsRow(ReceiptRows[32], <<"payment", "electroPaymentInfo">>, "object", FALSE)
  /\ IsRow(ReceiptRows[33], <<"payment", "electroPaymentInfo", "method">>, "integer", TRUE)
  /\ IsRow(ReceiptRows[34], <<"payment", "electroPaymentInfo", "id">>, "text", TRUE)
  /\ IsRow(ReceiptRows[35], <<"payment", "electroPaymentInfo", "addInfo">>, "note", FALSE)
<1> DEFINE b3 == <<May(<<"tax">>, "tax")>>
           b4 == <<Must(<<"items">>, "array")>>
           s1 == OperatorRows \o PartiesRows
           s2 == s1 \o TextRows
           s3 == s2 \o b3
           s4 == s3 \o b4
           s5 == s4 \o ItemRows("0")
           s6 == s5 \o ItemRows("1")
           s7 == s6 \o PaymentRows
<1>1. OperatorRows \in Seq(AnyRow) /\ Len(OperatorRows) = 4
  BY OperatorRowsAre
<1>2. PartiesRows \in Seq(AnyRow) /\ Len(PartiesRows) = 5
  BY PartiesRowsAre
<1>3. TextRows \in Seq(AnyRow) /\ Len(TextRows) = 5
  BY TextRowsAre
<1>4. /\ b3 \in Seq(AnyRow) /\ Len(b3) = 1
      /\ IsRow(b3[1], <<"tax">>, "tax", FALSE)
  <2>1. May(<<"tax">>, "tax") \in AnyRow /\ IsRow(May(<<"tax">>, "tax"), <<"tax">>, "tax", FALSE)
    BY MadeTopRow, Names, CheckNames, Zenon
  <2> DEFINE x == May(<<"tax">>, "tax")
  <2> HIDE DEF x
  <2>2. <<x>> \in Seq(AnyRow) /\ Len(<<x>>) = 1 /\ <<x>>[1] = x
    BY <2>1 DEF x
  <2> QED BY <2>1, <2>2, Zenon DEF x
<1>5. /\ b4 \in Seq(AnyRow) /\ Len(b4) = 1
      /\ IsRow(b4[1], <<"items">>, "array", TRUE)
  <2>1. Must(<<"items">>, "array") \in AnyRow /\ IsRow(Must(<<"items">>, "array"), <<"items">>, "array", TRUE)
    BY MadeTopRow, Names, CheckNames, Zenon
  <2> DEFINE x == Must(<<"items">>, "array")
  <2> HIDE DEF x
  <2>2. <<x>> \in Seq(AnyRow) /\ Len(<<x>>) = 1 /\ <<x>>[1] = x
    BY <2>1 DEF x
  <2> QED BY <2>1, <2>2, Zenon DEF x
<1>6. ItemRows("0") \in Seq(AnyRow) /\ Len(ItemRows("0")) = 6
  BY ItemRowsAre DEF Index
<1>7. ItemRows("1") \in Seq(AnyRow) /\ Len(ItemRows("1")) = 6
  BY ItemRowsAre DEF Index
<1>8. PaymentRows \in Seq(AnyRow) /\ Len(PaymentRows) = 7
  BY PaymentRowsAre
<1> HIDE DEF b3, b4
<1>9. Part(OperatorRows, 0, OperatorRows)
  BY <1>1, WholePart
<1>10. s1 \in Seq(AnyRow) /\ Len(s1) = 4 + 5 /\ Part(s1, 4, PartiesRows)
  BY <1>1, <1>2, Joined, Numbers, Zenon
<1>11. Part(s1, 0, OperatorRows)
  <2>0. 0 + 4 <= 4
    OBVIOUS
  <2>1. 0 + Len(OperatorRows) <= Len(OperatorRows)
    BY <2>0, <1>1, <1>1, Zenon
  <2> QED BY <2>1, <1>1, <1>1, <1>2, <1>9, PartStays, Numbers, Zenon
<1>12. s1 \in Seq(AnyRow) /\ Len(s1) = 9
  BY <1>10
<1>13. s2 \in Seq(AnyRow) /\ Len(s2) = 9 + 5 /\ Part(s2, 9, TextRows)
  BY <1>12, <1>3, Joined, Numbers, Zenon
<1>14. Part(s2, 0, OperatorRows)
  <2>0. 0 + 4 <= 9
    OBVIOUS
  <2>1. 0 + Len(OperatorRows) <= Len(s1)
    BY <2>0, <1>12, <1>1, Zenon
  <2> QED BY <2>1, <1>12, <1>1, <1>3, <1>11, PartStays, Numbers, Zenon
<1>15. Part(s2, 4, PartiesRows)
  <2>0. 4 + 5 <= 9
    OBVIOUS
  <2>1. 4 + Len(PartiesRows) <= Len(s1)
    BY <2>0, <1>12, <1>2, Zenon
  <2> QED BY <2>1, <1>12, <1>2, <1>3, <1>10, PartStays, Numbers, Zenon
<1>16. s2 \in Seq(AnyRow) /\ Len(s2) = 14
  BY <1>13
<1>17. s3 \in Seq(AnyRow) /\ Len(s3) = 14 + 1 /\ Part(s3, 14, b3)
  BY <1>16, <1>4, Joined, Numbers, Zenon
<1>18. Part(s3, 0, OperatorRows)
  <2>0. 0 + 4 <= 14
    OBVIOUS
  <2>1. 0 + Len(OperatorRows) <= Len(s2)
    BY <2>0, <1>16, <1>1, Zenon
  <2> QED BY <2>1, <1>16, <1>1, <1>4, <1>14, PartStays, Numbers, Zenon
<1>19. Part(s3, 4, PartiesRows)
  <2>0. 4 + 5 <= 14
    OBVIOUS
  <2>1. 4 + Len(PartiesRows) <= Len(s2)
    BY <2>0, <1>16, <1>2, Zenon
  <2> QED BY <2>1, <1>16, <1>2, <1>4, <1>15, PartStays, Numbers, Zenon
<1>20. Part(s3, 9, TextRows)
  <2>0. 9 + 5 <= 14
    OBVIOUS
  <2>1. 9 + Len(TextRows) <= Len(s2)
    BY <2>0, <1>16, <1>3, Zenon
  <2> QED BY <2>1, <1>16, <1>3, <1>4, <1>13, PartStays, Numbers, Zenon
<1>21. s3 \in Seq(AnyRow) /\ Len(s3) = 15
  BY <1>17
<1>22. s4 \in Seq(AnyRow) /\ Len(s4) = 15 + 1 /\ Part(s4, 15, b4)
  BY <1>21, <1>5, Joined, Numbers, Zenon
<1>23. Part(s4, 0, OperatorRows)
  <2>0. 0 + 4 <= 15
    OBVIOUS
  <2>1. 0 + Len(OperatorRows) <= Len(s3)
    BY <2>0, <1>21, <1>1, Zenon
  <2> QED BY <2>1, <1>21, <1>1, <1>5, <1>18, PartStays, Numbers, Zenon
<1>24. Part(s4, 4, PartiesRows)
  <2>0. 4 + 5 <= 15
    OBVIOUS
  <2>1. 4 + Len(PartiesRows) <= Len(s3)
    BY <2>0, <1>21, <1>2, Zenon
  <2> QED BY <2>1, <1>21, <1>2, <1>5, <1>19, PartStays, Numbers, Zenon
<1>25. Part(s4, 9, TextRows)
  <2>0. 9 + 5 <= 15
    OBVIOUS
  <2>1. 9 + Len(TextRows) <= Len(s3)
    BY <2>0, <1>21, <1>3, Zenon
  <2> QED BY <2>1, <1>21, <1>3, <1>5, <1>20, PartStays, Numbers, Zenon
<1>26. Part(s4, 14, b3)
  <2>0. 14 + 1 <= 15
    OBVIOUS
  <2>1. 14 + Len(b3) <= Len(s3)
    BY <2>0, <1>21, <1>4, Zenon
  <2> QED BY <2>1, <1>21, <1>4, <1>5, <1>17, PartStays, Numbers, Zenon
<1>27. s4 \in Seq(AnyRow) /\ Len(s4) = 16
  BY <1>22
<1>28. s5 \in Seq(AnyRow) /\ Len(s5) = 16 + 6 /\ Part(s5, 16, ItemRows("0"))
  BY <1>27, <1>6, Joined, Numbers, Zenon
<1>29. Part(s5, 0, OperatorRows)
  <2>0. 0 + 4 <= 16
    OBVIOUS
  <2>1. 0 + Len(OperatorRows) <= Len(s4)
    BY <2>0, <1>27, <1>1, Zenon
  <2> QED BY <2>1, <1>27, <1>1, <1>6, <1>23, PartStays, Numbers, Zenon
<1>30. Part(s5, 4, PartiesRows)
  <2>0. 4 + 5 <= 16
    OBVIOUS
  <2>1. 4 + Len(PartiesRows) <= Len(s4)
    BY <2>0, <1>27, <1>2, Zenon
  <2> QED BY <2>1, <1>27, <1>2, <1>6, <1>24, PartStays, Numbers, Zenon
<1>31. Part(s5, 9, TextRows)
  <2>0. 9 + 5 <= 16
    OBVIOUS
  <2>1. 9 + Len(TextRows) <= Len(s4)
    BY <2>0, <1>27, <1>3, Zenon
  <2> QED BY <2>1, <1>27, <1>3, <1>6, <1>25, PartStays, Numbers, Zenon
<1>32. Part(s5, 14, b3)
  <2>0. 14 + 1 <= 16
    OBVIOUS
  <2>1. 14 + Len(b3) <= Len(s4)
    BY <2>0, <1>27, <1>4, Zenon
  <2> QED BY <2>1, <1>27, <1>4, <1>6, <1>26, PartStays, Numbers, Zenon
<1>33. Part(s5, 15, b4)
  <2>0. 15 + 1 <= 16
    OBVIOUS
  <2>1. 15 + Len(b4) <= Len(s4)
    BY <2>0, <1>27, <1>5, Zenon
  <2> QED BY <2>1, <1>27, <1>5, <1>6, <1>22, PartStays, Numbers, Zenon
<1>34. s5 \in Seq(AnyRow) /\ Len(s5) = 22
  BY <1>28
<1>35. s6 \in Seq(AnyRow) /\ Len(s6) = 22 + 6 /\ Part(s6, 22, ItemRows("1"))
  BY <1>34, <1>7, Joined, Numbers, Zenon
<1>36. Part(s6, 0, OperatorRows)
  <2>0. 0 + 4 <= 22
    OBVIOUS
  <2>1. 0 + Len(OperatorRows) <= Len(s5)
    BY <2>0, <1>34, <1>1, Zenon
  <2> QED BY <2>1, <1>34, <1>1, <1>7, <1>29, PartStays, Numbers, Zenon
<1>37. Part(s6, 4, PartiesRows)
  <2>0. 4 + 5 <= 22
    OBVIOUS
  <2>1. 4 + Len(PartiesRows) <= Len(s5)
    BY <2>0, <1>34, <1>2, Zenon
  <2> QED BY <2>1, <1>34, <1>2, <1>7, <1>30, PartStays, Numbers, Zenon
<1>38. Part(s6, 9, TextRows)
  <2>0. 9 + 5 <= 22
    OBVIOUS
  <2>1. 9 + Len(TextRows) <= Len(s5)
    BY <2>0, <1>34, <1>3, Zenon
  <2> QED BY <2>1, <1>34, <1>3, <1>7, <1>31, PartStays, Numbers, Zenon
<1>39. Part(s6, 14, b3)
  <2>0. 14 + 1 <= 22
    OBVIOUS
  <2>1. 14 + Len(b3) <= Len(s5)
    BY <2>0, <1>34, <1>4, Zenon
  <2> QED BY <2>1, <1>34, <1>4, <1>7, <1>32, PartStays, Numbers, Zenon
<1>40. Part(s6, 15, b4)
  <2>0. 15 + 1 <= 22
    OBVIOUS
  <2>1. 15 + Len(b4) <= Len(s5)
    BY <2>0, <1>34, <1>5, Zenon
  <2> QED BY <2>1, <1>34, <1>5, <1>7, <1>33, PartStays, Numbers, Zenon
<1>41. Part(s6, 16, ItemRows("0"))
  <2>0. 16 + 6 <= 22
    OBVIOUS
  <2>1. 16 + Len(ItemRows("0")) <= Len(s5)
    BY <2>0, <1>34, <1>6, Zenon
  <2> QED BY <2>1, <1>34, <1>6, <1>7, <1>28, PartStays, Numbers, Zenon
<1>42. s6 \in Seq(AnyRow) /\ Len(s6) = 28
  BY <1>35
<1>43. s7 \in Seq(AnyRow) /\ Len(s7) = 28 + 7 /\ Part(s7, 28, PaymentRows)
  BY <1>42, <1>8, Joined, Numbers, Zenon
<1>44. Part(s7, 0, OperatorRows)
  <2>0. 0 + 4 <= 28
    OBVIOUS
  <2>1. 0 + Len(OperatorRows) <= Len(s6)
    BY <2>0, <1>42, <1>1, Zenon
  <2> QED BY <2>1, <1>42, <1>1, <1>8, <1>36, PartStays, Numbers, Zenon
<1>45. Part(s7, 4, PartiesRows)
  <2>0. 4 + 5 <= 28
    OBVIOUS
  <2>1. 4 + Len(PartiesRows) <= Len(s6)
    BY <2>0, <1>42, <1>2, Zenon
  <2> QED BY <2>1, <1>42, <1>2, <1>8, <1>37, PartStays, Numbers, Zenon
<1>46. Part(s7, 9, TextRows)
  <2>0. 9 + 5 <= 28
    OBVIOUS
  <2>1. 9 + Len(TextRows) <= Len(s6)
    BY <2>0, <1>42, <1>3, Zenon
  <2> QED BY <2>1, <1>42, <1>3, <1>8, <1>38, PartStays, Numbers, Zenon
<1>47. Part(s7, 14, b3)
  <2>0. 14 + 1 <= 28
    OBVIOUS
  <2>1. 14 + Len(b3) <= Len(s6)
    BY <2>0, <1>42, <1>4, Zenon
  <2> QED BY <2>1, <1>42, <1>4, <1>8, <1>39, PartStays, Numbers, Zenon
<1>48. Part(s7, 15, b4)
  <2>0. 15 + 1 <= 28
    OBVIOUS
  <2>1. 15 + Len(b4) <= Len(s6)
    BY <2>0, <1>42, <1>5, Zenon
  <2> QED BY <2>1, <1>42, <1>5, <1>8, <1>40, PartStays, Numbers, Zenon
<1>49. Part(s7, 16, ItemRows("0"))
  <2>0. 16 + 6 <= 28
    OBVIOUS
  <2>1. 16 + Len(ItemRows("0")) <= Len(s6)
    BY <2>0, <1>42, <1>6, Zenon
  <2> QED BY <2>1, <1>42, <1>6, <1>8, <1>41, PartStays, Numbers, Zenon
<1>50. Part(s7, 22, ItemRows("1"))
  <2>0. 22 + 6 <= 28
    OBVIOUS
  <2>1. 22 + Len(ItemRows("1")) <= Len(s6)
    BY <2>0, <1>42, <1>7, Zenon
  <2> QED BY <2>1, <1>42, <1>7, <1>8, <1>35, PartStays, Numbers, Zenon
<1>51. s7 \in Seq(AnyRow) /\ Len(s7) = 35
  BY <1>43
<1>52. ReceiptRows = s7
  BY DEF ReceiptRows, s1, s2, s3, s4, s5, s6, s7, b3, b4
<1> HIDE DEF s1, s2, s3, s4, s5, s6, s7
<1>53. /\ s7[1] = OperatorRows[1]
      /\ s7[2] = OperatorRows[2]
      /\ s7[3] = OperatorRows[3]
      /\ s7[4] = OperatorRows[4]
  BY <1>44, <1>1 DEF Part
<1>54. /\ s7[5] = PartiesRows[1]
      /\ s7[6] = PartiesRows[2]
      /\ s7[7] = PartiesRows[3]
      /\ s7[8] = PartiesRows[4]
      /\ s7[9] = PartiesRows[5]
  BY <1>45, <1>2 DEF Part
<1>55. /\ s7[10] = TextRows[1]
      /\ s7[11] = TextRows[2]
      /\ s7[12] = TextRows[3]
      /\ s7[13] = TextRows[4]
      /\ s7[14] = TextRows[5]
  BY <1>46, <1>3 DEF Part
<1>56. /\ s7[15] = b3[1]
  BY <1>47, <1>4 DEF Part
<1>57. /\ s7[16] = b4[1]
  BY <1>48, <1>5 DEF Part
<1>58. /\ s7[17] = ItemRows("0")[1]
      /\ s7[18] = ItemRows("0")[2]
      /\ s7[19] = ItemRows("0")[3]
      /\ s7[20] = ItemRows("0")[4]
      /\ s7[21] = ItemRows("0")[5]
      /\ s7[22] = ItemRows("0")[6]
  BY <1>49, <1>6 DEF Part
<1>59. /\ s7[23] = ItemRows("1")[1]
      /\ s7[24] = ItemRows("1")[2]
      /\ s7[25] = ItemRows("1")[3]
      /\ s7[26] = ItemRows("1")[4]
      /\ s7[27] = ItemRows("1")[5]
      /\ s7[28] = ItemRows("1")[6]
  BY <1>50, <1>7 DEF Part
<1>60. /\ s7[29] = PaymentRows[1]
      /\ s7[30] = PaymentRows[2]
      /\ s7[31] = PaymentRows[3]
      /\ s7[32] = PaymentRows[4]
      /\ s7[33] = PaymentRows[5]
      /\ s7[34] = PaymentRows[6]
      /\ s7[35] = PaymentRows[7]
  BY <1>43, <1>8 DEF Part
<1>61. /\ IsRow(s7[1], <<"electronically">>, "flag", FALSE)
      /\ IsRow(s7[2], <<"operator">>, "object", TRUE)
      /\ IsRow(s7[3], <<"operator", "name">>, "title", TRUE)
      /\ IsRow(s7[4], <<"operator", "inn">>, "note", FALSE)
  BY <1>53, OperatorRowsAre, Zenon
<1>62. /\ IsRow(s7[5], <<"customer">>, "object", FALSE)
      /\ IsRow(s7[6], <<"customer", "contact">>, "note", FALSE)
      /\ IsRow(s7[7], <<"customer", "inn">>, "note", FALSE)
      /\ IsRow(s7[8], <<"seller">>, "object", FALSE)
      /\ IsRow(s7[9], <<"seller", "email">>, "note", FALSE)
  BY <1>54, PartiesRowsAre, Zenon
<1>63. /\ IsRow(s7[10], <<"text">>, "object", FALSE)
      /\ IsRow(s7[11], <<"text", "content">>, "text", FALSE)
      /\ IsRow(s7[12], <<"text", "center">>, "flag", FALSE)
      /\ IsRow(s7[13], <<"text", "magnified">>, "flag", FALSE)
      /\ IsRow(s7[14], <<"text", "separated">>, "flag", FALSE)
  BY <1>55, TextRowsAre, Zenon
<1>64. /\ IsRow(s7[15], <<"tax">>, "tax", FALSE)
  BY <1>56, <1>4, Zenon
<1>65. /\ IsRow(s7[16], <<"items">>, "array", TRUE)
  BY <1>57, <1>5, Zenon
<1>66. /\ IsRow(s7[17], <<"items", "0", "title">>, "title", TRUE)
      /\ IsRow(s7[18], <<"items", "0", "price">>, "price", TRUE)
      /\ IsRow(s7[19], <<"items", "0", "quantity">>, "quantity", TRUE)
      /\ IsRow(s7[20], <<"items", "0", "unit">>, "unit", FALSE)
      /\ IsRow(s7[21], <<"items", "0", "tax">>, "item tax", FALSE)
      /\ IsRow(s7[22], <<"items", "0">>, "item", TRUE)
  BY <1>58, ItemRowsAre, Zenon DEF Index
<1>67. /\ IsRow(s7[23], <<"items", "1", "title">>, "title", TRUE)
      /\ IsRow(s7[24], <<"items", "1", "price">>, "price", TRUE)
      /\ IsRow(s7[25], <<"items", "1", "quantity">>, "quantity", TRUE)
      /\ IsRow(s7[26], <<"items", "1", "unit">>, "unit", FALSE)
      /\ IsRow(s7[27], <<"items", "1", "tax">>, "item tax", FALSE)
      /\ IsRow(s7[28], <<"items", "1">>, "item", TRUE)
  BY <1>59, ItemRowsAre, Zenon DEF Index
<1>68. /\ IsRow(s7[29], <<"payment">>, "object", TRUE)
      /\ IsRow(s7[30], <<"payment", "sum">>, "sum", TRUE)
      /\ IsRow(s7[31], <<"payment", "type">>, "payment type", TRUE)
      /\ IsRow(s7[32], <<"payment", "electroPaymentInfo">>, "object", FALSE)
      /\ IsRow(s7[33], <<"payment", "electroPaymentInfo", "method">>, "integer", TRUE)
      /\ IsRow(s7[34], <<"payment", "electroPaymentInfo", "id">>, "text", TRUE)
      /\ IsRow(s7[35], <<"payment", "electroPaymentInfo", "addInfo">>, "note", FALSE)
  BY <1>60, PaymentRowsAre, Zenon
<1> QED BY <1>52, <1>51, <1>61, <1>62, <1>63, <1>64, <1>65, <1>66, <1>67, <1>68, Zenon

-----------------------------------------------------------------------------
(* Which earlier rows a row depends on: the array its element is in, the   *)
(* object its key is in, the separator of its block, the type of the       *)
(* payment, the tax of the receipt, the amounts of its item.               *)

(* A row with this key is taken before the n-th. *)
Earlier(R, n, p, c, b) == \E i \in 1..n - 1 : IsRow(R[i], p, c, b)

EarlierObject(R, n, p) == \E b \in BOOLEAN : Earlier(R, n, p, "object", b)

Deps(R, n) ==
    LET r == R[n]
        p == R[n].path
    IN
    /\ Len(p) \in {1, 2, 3}
    /\ InArray(p) => Earlier(R, n, <<p[1]>>, "array", TRUE) /\ p[2] # "electroPaymentInfo"
    /\ Len(p) >= 2 /\ ~InArray(p) =>
         /\ EarlierObject(R, n, Front(p))
         /\ \/ Len(Front(p)) = 1
            \/ /\ Front(p) = <<"payment", "electroPaymentInfo">>
               /\ p[2] = "electroPaymentInfo"
    /\ p[1] = "document" /\ Len(p) = 3 /\ p[3] # "separator" =>
         Earlier(R, n, <<"document", p[2], "separator">>, "flag", FALSE)
    /\ Len(p) >= 2 /\ p[2] = "electroPaymentInfo" =>
         /\ Earlier(R, n, <<"payment">>, "object", TRUE)
         /\ Earlier(R, n, <<"payment", "type">>, "payment type", TRUE)
    /\ r.check = "item tax" => Earlier(R, n, <<"tax">>, "tax", FALSE)
    /\ r.check = "item" =>
         /\ p[1] = "items" /\ p[2] # "electroPaymentInfo" /\ Len(p) = 2
         /\ Earlier(R, n, Append(p, "price"), "price", TRUE)
         /\ Earlier(R, n, Append(p, "quantity"), "quantity", TRUE)

LEMMA TupleParts ==
  /\ \A a : Len(<<a>>) = 1 /\ ~(Len(<<a>>) >= 2) /\ Len(<<a>>) # 3 /\ <<a>>[1] = a
  /\ \A a, b : /\ Len(<<a, b>>) = 2 /\ Len(<<a, b>>) >= 2 /\ Len(<<a, b>>) # 3
               /\ Len(<<a, b>>) # 1 /\ <<a, b>>[1] = a /\ <<a, b>>[2] = b
  /\ \A a, b, c : /\ Len(<<a, b, c>>) = 3 /\ Len(<<a, b, c>>) >= 2 /\ Len(<<a, b, c>>) # 1
                  /\ <<a, b, c>>[1] = a /\ <<a, b, c>>[2] = b /\ <<a, b, c>>[3] = c
  OBVIOUS

LEMMA FrontOfTwo == ASSUME NEW a, NEW b PROVE Front(<<a, b>>) = <<a>>
<1> DEFINE S == {a, b}
           t == <<a, b>>
           s == SubSeq(t, 1, 1)
<1>1. t \in Seq(S) /\ <<a>> \in Seq(S) /\ Len(t) = 2 /\ t[1] = a /\ Len(<<a>>) = 1 /\ <<a>>[1] = a
  OBVIOUS
<1>2. \A i \in 1..1 : t[i] \in S
  BY <1>1
<1>3. s \in Seq(S) /\ Len(s) = 1 /\ s[1] = t[1]
  <2> HIDE DEF S, t
  <2> QED BY <1>2, SubSeqProperties
<1>4. Front(t) = s
  <2>1. Len(t) - 1 = 1
    BY <1>1
  <2> QED BY <2>1, Zenon DEF Front
<1> HIDE DEF S, t, s
<1>5. s = <<a>>
  BY <1>1, <1>3, SeqEqual
<1> QED BY <1>4, <1>5 DEF t

LEMMA FrontOfThree == ASSUME NEW a, NEW b, NEW c PROVE Front(<<a, b, c>>) = <<a, b>>
<1> DEFINE S == {a, b, c}
           t == <<a, b, c>>
           u == <<a, b>>
           s == SubSeq(t, 1, 2)
<1>1. /\ t \in Seq(S) /\ Len(t) = 3 /\ t[1] = a /\ t[2] = b
      /\ u \in Seq(S) /\ Len(u) = 2 /\ u[1] = a /\ u[2] = b
  OBVIOUS
<1>2. \A i \in 1..2 : t[i] \in S
  BY <1>1
<1>3. s \in Seq(S) /\ Len(s) = 2 /\ s[1] = t[1] /\ s[2] = t[2]
  <2> HIDE DEF S, t
  <2> QED BY <1>2, SubSeqProperties
<1>4. Front(t) = s
  <2>1. Len(t) - 1 = 2
    BY <1>1
  <2> QED BY <2>1, Zenon DEF Front
<1> HIDE DEF S, t, s, u
<1>5. s = u
  BY <1>1, <1>3, SeqEqual
<1> QED BY <1>4, <1>5 DEF t, u

LEMMA AppendToTwo == ASSUME NEW a, NEW b, NEW c PROVE Append(<<a, b>>, c) = <<a, b, c>>
<1>1. ASSUME NEW S, NEW t \in Seq(S), Len(t) = 2, NEW u \in Seq(S), Len(u) = 3,
             t[1] = u[1], t[2] = u[2]
      PROVE  Append(t, u[3]) = u
  <2>1. u[3] \in S
    BY <1>1
  <2>2. /\ Append(t, u[3]) \in Seq(S) /\ Len(Append(t, u[3])) = Len(t) + 1
        /\ \A i \in 1..Len(t) : Append(t, u[3])[i] = t[i]
        /\ Append(t, u[3])[Len(t) + 1] = u[3]
    BY <2>1, AppendProperties
  <2> QED BY <1>1, <2>2, SeqEqual
<1>2. /\ <<a, b>> \in Seq({a, b, c}) /\ Len(<<a, b>>) = 2 /\ <<a, b>>[1] = a /\ <<a, b>>[2] = b
      /\ <<a, b, c>> \in Seq({a, b, c}) /\ Len(<<a, b, c>>) = 3
      /\ <<a, b, c>>[1] = a /\ <<a, b, c>>[2] = b /\ <<a, b, c>>[3] = c
  OBVIOUS
<1> QED BY <1>1, <1>2, Zenon

LEMMA Fronts ==
  /\ \A a, b : Front(<<a, b>>) = <<a>>
  /\ \A a, b, c : Front(<<a, b, c>>) = <<a, b>>
  /\ \A a, b, c : Append(<<a, b>>, c) = <<a, b, c>>
  BY FrontOfTwo, FrontOfThree, AppendToTwo, Zenon

(* A check that looks at no other key.                                     *)
Plain(c) == c # "item" /\ c # "item tax"

LEMMA PlainChecks ==
  /\ Plain("flag") /\ Plain("object") /\ Plain("array") /\ Plain("title") /\ Plain("text")
  /\ Plain("note") /\ Plain("cash") /\ Plain("price") /\ Plain("quantity")
  /\ Plain("integer") /\ Plain("sum") /\ Plain("payment type") /\ Plain("unit")
  /\ Plain("tax")
  BY Zenon DEF Plain

LEMMA DepsTop ==
  ASSUME NEW R, NEW n, NEW a, NEW c, NEW b, IsRow(R[n], <<a>>, c, b),
         Plain(c)
  PROVE  Deps(R, n)
<1> DEFINE p == <<a>>
<1>1. Len(p) = 1 /\ ~(Len(p) >= 2) /\ Len(p) # 3
  BY TupleParts, Zenon
<1>2. R[n].path = p /\ R[n].check # "item" /\ R[n].check # "item tax"
  BY Zenon DEF IsRow, Plain
<1> HIDE DEF p
<1> QED BY <1>1, <1>2, Zenon DEF Deps, InArray

LEMMA DepsPlain ==
  ASSUME NEW R, NEW n, R[n].check # "item", R[n].check # "item tax",
         Len(R[n].path) \in {1, 2, 3}, ~InArray(R[n].path), Len(R[n].path) # 3,
         R[n].path[2] # "electroPaymentInfo", Len(Front(R[n].path)) = 1,
         EarlierObject(R, n, Front(R[n].path))
  PROVE  Deps(R, n)
  BY Zenon DEF Deps

LEMMA DepsMember ==
  ASSUME NEW R, NEW n, NEW a, NEW k, NEW c, NEW b, IsRow(R[n], <<a, k>>, c, b),
         Plain(c), a # "items", a # "document", k # "electroPaymentInfo",
         NEW d \in BOOLEAN, Earlier(R, n, <<a>>, "object", d)
  PROVE  Deps(R, n)
<1> DEFINE p == <<a, k>>
<1>1. Len(p) = 2 /\ Len(p) # 3 /\ p[1] = a /\ p[2] = k /\ Len(<<a>>) = 1
  BY TupleParts, Zenon
<1>0. p[2] # "electroPaymentInfo" /\ p[1] # "document" /\ Len(Front(p)) = 1
  BY <1>1, Fronts, Zenon DEF p
<1>2. R[n].path = p /\ R[n].check # "item" /\ R[n].check # "item tax"
  BY Zenon DEF IsRow, Plain
<1>3. Front(p) = <<a>>
  BY Fronts, Zenon
<1>6. R[n].check # "item" /\ R[n].check # "item tax"
  BY <1>2, Zenon
<1> HIDE DEF p
<1>4. ~InArray(p)
  BY <1>1, Zenon DEF InArray
<1>5. EarlierObject(R, n, Front(p))
  BY <1>3, Zenon DEF EarlierObject
<1>7. /\ Len(R[n].path) \in {1, 2, 3} /\ ~InArray(R[n].path) /\ Len(R[n].path) # 3
      /\ R[n].path[2] # "electroPaymentInfo" /\ Len(Front(R[n].path)) = 1
      /\ EarlierObject(R, n, Front(R[n].path))
  BY <1>0, <1>1, <1>2, <1>4, <1>5, Zenon
<1> QED BY <1>6, <1>7, DepsPlain, Zenon

LEMMA DepsElectro ==
  ASSUME NEW R, NEW n, NEW b,
         IsRow(R[n], <<"payment", "electroPaymentInfo">>, "object", b),
         Earlier(R, n, <<"payment">>, "object", TRUE),
         Earlier(R, n, <<"payment", "type">>, "payment type", TRUE)
  PROVE  Deps(R, n)
<1> DEFINE p == <<"payment", "electroPaymentInfo">>
<1>1. Len(p) = 2 /\ Len(p) # 3 /\ p[1] = "payment" /\ p[2] = "electroPaymentInfo" /\ Len(<<"payment">>) = 1
  BY TupleParts, Zenon
<1>2. R[n].path = p /\ R[n].check = "object"
  BY Zenon DEF IsRow
<1>3. Front(p) = <<"payment">>
  BY Fronts, Zenon
<1> HIDE DEF p
<1>4. ~InArray(p) /\ p[1] # "document"
  BY <1>1, Zenon DEF InArray
<1>5. EarlierObject(R, n, Front(p))
  BY <1>3, Zenon DEF EarlierObject
<1>6. R[n].check # "item" /\ R[n].check # "item tax"
  BY <1>2, Zenon
<1> QED BY <1>1, <1>2, <1>3, <1>4, <1>5, <1>6, Zenon DEF Deps

LEMMA DepsElectroMember ==
  ASSUME NEW R, NEW n, NEW k, NEW c, NEW b, NEW d \in BOOLEAN,
         IsRow(R[n], <<"payment", "electroPaymentInfo", k>>, c, b),
         Plain(c),
         Earlier(R, n, <<"payment", "electroPaymentInfo">>, "object", d),
         Earlier(R, n, <<"payment">>, "object", TRUE),
         Earlier(R, n, <<"payment", "type">>, "payment type", TRUE)
  PROVE  Deps(R, n)
<1> DEFINE p == <<"payment", "electroPaymentInfo", k>>
<1>1. Len(p) = 3 /\ p[1] = "payment" /\ p[2] = "electroPaymentInfo"
  BY TupleParts, Zenon
<1>2. R[n].path = p /\ R[n].check # "item" /\ R[n].check # "item tax"
  BY Zenon DEF IsRow, Plain
<1>3. Front(p) = <<"payment", "electroPaymentInfo">>
  BY Fronts, Zenon
<1> HIDE DEF p
<1>4. ~InArray(p) /\ p[1] # "document"
  BY <1>1, Zenon DEF InArray
<1>5. EarlierObject(R, n, Front(p))
  BY <1>3, Zenon DEF EarlierObject
<1> QED BY <1>5, <1>1, <1>2, <1>3, <1>4, Zenon DEF Deps

LEMMA DepsSeparator ==
  ASSUME NEW R, NEW n, NEW i \in Index, NEW b,
         IsRow(R[n], <<"document", i, "separator">>, "flag", b),
         Earlier(R, n, <<"document">>, "array", TRUE)
  PROVE  Deps(R, n)
<1> DEFINE p == <<"document", i, "separator">>
<1>1. Len(p) = 3 /\ Len(p) >= 2 /\ p[1] = "document" /\ p[2] = i /\ p[3] = "separator"
  BY TupleParts, Zenon
<1>2. R[n].path = p /\ R[n].check = "flag"
  BY Zenon DEF IsRow
<1>3. i # "electroPaymentInfo"
  BY Zenon DEF Index
<1> HIDE DEF p
<1>4. InArray(p)
  BY <1>1, Zenon DEF InArray
<1>5. p[2] # "electroPaymentInfo"
  BY <1>1, <1>3, Zenon
<1> QED BY <1>1, <1>2, <1>5, <1>4, Zenon DEF Deps

LEMMA DepsBlock ==
  ASSUME NEW R, NEW n, NEW i \in Index, NEW k, NEW c, NEW b,
         IsRow(R[n], <<"document", i, k>>, c, b), Plain(c),
         Earlier(R, n, <<"document">>, "array", TRUE),
         Earlier(R, n, <<"document", i, "separator">>, "flag", FALSE)
  PROVE  Deps(R, n)
<1> DEFINE p == <<"document", i, k>>
<1>1. Len(p) = 3 /\ Len(p) >= 2 /\ p[1] = "document" /\ p[2] = i
  BY TupleParts, Zenon
<1>2. R[n].path = p /\ R[n].check # "item" /\ R[n].check # "item tax"
  BY Zenon DEF IsRow, Plain
<1>3. i # "electroPaymentInfo"
  BY Zenon DEF Index
<1> HIDE DEF p
<1>4. InArray(p)
  BY <1>1, Zenon DEF InArray
<1>5. p[2] # "electroPaymentInfo"
  BY <1>1, <1>3, Zenon
<1> QED BY <1>1, <1>2, <1>5, <1>4, Zenon DEF Deps

LEMMA DepsItemKey ==
  ASSUME NEW R, NEW n, NEW i \in Index, NEW k, NEW c, NEW b,
         IsRow(R[n], <<"items", i, k>>, c, b), c # "item",
         Earlier(R, n, <<"items">>, "array", TRUE),
         c = "item tax" => Earlier(R, n, <<"tax">>, "tax", FALSE)
  PROVE  Deps(R, n)
<1> DEFINE p == <<"items", i, k>>
<1>1. Len(p) = 3 /\ Len(p) >= 2 /\ p[1] = "items" /\ p[2] = i
  BY TupleParts, Zenon
<1>2. R[n].path = p /\ R[n].check = c
  BY Zenon DEF IsRow
<1>3. i # "electroPaymentInfo"
  BY Zenon DEF Index
<1> HIDE DEF p
<1>4. InArray(p) /\ p[1] # "document"
  BY <1>1, Zenon DEF InArray
<1>5. p[2] # "electroPaymentInfo"
  BY <1>1, <1>3, Zenon
<1> QED BY <1>1, <1>2, <1>5, <1>4, Zenon DEF Deps

LEMMA DepsItem ==
  ASSUME NEW R, NEW n, NEW i \in Index, NEW b,
         IsRow(R[n], <<"items", i>>, "item", b),
         Earlier(R, n, <<"items">>, "array", TRUE),
         Earlier(R, n, <<"items", i, "price">>, "price", TRUE),
         Earlier(R, n, <<"items", i, "quantity">>, "quantity", TRUE)
  PROVE  Deps(R, n)
<1> DEFINE p == <<"items", i>>
<1>1. Len(p) = 2 /\ Len(p) # 3 /\ Len(p) >= 2 /\ p[1] = "items" /\ p[2] = i
  BY TupleParts, Zenon
<1>2. R[n].path = p /\ R[n].check = "item"
  BY Zenon DEF IsRow
<1>3. i # "electroPaymentInfo"
  BY Zenon DEF Index
<1>4. Append(p, "price") = <<"items", i, "price">> /\ Append(p, "quantity") = <<"items", i, "quantity">>
  BY Fronts, Zenon
<1> HIDE DEF p
<1>5. InArray(p)
  BY <1>1, Zenon DEF InArray
<1>6. p[2] # "electroPaymentInfo"
  BY <1>1, <1>3, Zenon
<1> QED BY <1>1, <1>2, <1>6, <1>4, <1>5, Zenon DEF Deps

LEMMA CashDeps == \A n \in 1..5 : Deps(CashRows, n)
<1> DEFINE R == CashRows
<1>1. Deps(R, 1)
  <2>1. IsRow(R[1], <<"electronically">>, "flag", FALSE)
    BY CashRowsAre, Zenon
  <2> QED BY <2>1, DepsTop, PlainChecks, Zenon
<1>2. Deps(R, 2)
  <2>1. IsRow(R[2], <<"operator">>, "object", TRUE)
    BY CashRowsAre, Zenon
  <2> QED BY <2>1, DepsTop, PlainChecks, Zenon
<1>5. Deps(R, 5)
  <2>1. IsRow(R[5], <<"cashSum">>, "cash", TRUE)
    BY CashRowsAre, Zenon
  <2> QED BY <2>1, DepsTop, PlainChecks, Zenon
<1>3. Deps(R, 3)
  <2>1. /\ IsRow(R[3], <<"operator", "name">>, "title", TRUE)
        /\ IsRow(R[2], <<"operator">>, "object", TRUE)
    BY CashRowsAre, Zenon
  <2>2. 2 \in 1..3 - 1
    OBVIOUS
  <2>3. Earlier(R, 3, <<"operator">>, "object", TRUE)
    BY <2>1, <2>2, Zenon DEF Earlier
  <2> QED BY <2>1, <2>3, DepsMember, PlainChecks, Zenon DEF Index
<1>4. Deps(R, 4)
  <2>1. /\ IsRow(R[4], <<"operator", "inn">>, "note", FALSE)
        /\ IsRow(R[2], <<"operator">>, "object", TRUE)
    BY CashRowsAre, Zenon
  <2>2. 2 \in 1..4 - 1
    OBVIOUS
  <2>3. Earlier(R, 4, <<"operator">>, "object", TRUE)
    BY <2>1, <2>2, Zenon DEF Earlier
  <2> QED BY <2>1, <2>3, DepsMember, PlainChecks, Zenon DEF Index
<1> HIDE DEF R
<1>6. \A n \in 1..5 :
      \/ n = 1 \/ n = 2 \/ n = 3 \/ n = 4 \/ n = 5
  OBVIOUS
<1> QED BY <1>1, <1>2, <1>3, <1>4, <1>5, <1>6, Zenon DEF R

LEMMA CloseDeps == \A n \in 1..6 : Deps(CloseRows, n)
<1> DEFINE R == CloseRows
<1>1. Deps(R, 1)
  <2>1. IsRow(R[1], <<"electronically">>, "flag", FALSE)
    BY CloseRowsAre, Zenon
  <2> QED BY <2>1, DepsTop, PlainChecks, Zenon
<1>2. Deps(R, 2)
  <2>1. IsRow(R[2], <<"operator">>, "object", TRUE)
    BY CloseRowsAre, Zenon
  <2> QED BY <2>1, DepsTop, PlainChecks, Zenon
<1>5. Deps(R, 5)
  <2>1. IsRow(R[5], <<"closeShift">>, "flag", FALSE)
    BY CloseRowsAre, Zenon
  <2> QED BY <2>1, DepsTop, PlainChecks, Zenon
<1>6. Deps(R, 6)
  <2>1. IsRow(R[6], <<"cashOut">>, "flag", FALSE)
    BY CloseRowsAre, Zenon
  <2> QED BY <2>1, DepsTop, PlainChecks, Zenon
<1>3. Deps(R, 3)
  <2>1. /\ IsRow(R[3], <<"operator", "name">>, "title", TRUE)
        /\ IsRow(R[2], <<"operator">>, "object", TRUE)
    BY CloseRowsAre, Zenon
  <2>2. 2 \in 1..3 - 1
    OBVIOUS
  <2>3. Earlier(R, 3, <<"operator">>, "object", TRUE)
    BY <2>1, <2>2, Zenon DEF Earlier
  <2> QED BY <2>1, <2>3, DepsMember, PlainChecks, Zenon DEF Index
<1>4. Deps(R, 4)
  <2>1. /\ IsRow(R[4], <<"operator", "inn">>, "note", FALSE)
        /\ IsRow(R[2], <<"operator">>, "object", TRUE)
    BY CloseRowsAre, Zenon
  <2>2. 2 \in 1..4 - 1
    OBVIOUS
  <2>3. Earlier(R, 4, <<"operator">>, "object", TRUE)
    BY <2>1, <2>2, Zenon DEF Earlier
  <2> QED BY <2>1, <2>3, DepsMember, PlainChecks, Zenon DEF Index
<1> HIDE DEF R
<1>7. \A n \in 1..6 :
      \/ n = 1 \/ n = 2 \/ n = 3 \/ n = 4 \/ n = 5 \/ n = 6
  OBVIOUS
<1> QED BY <1>1, <1>2, <1>3, <1>4, <1>5, <1>6, <1>7, Zenon DEF R

LEMMA PrintDeps == \A n \in 1..15 : Deps(PrintRows, n)
<1> DEFINE R == PrintRows
<1>1. Deps(R, 1)
  <2>1. IsRow(R[1], <<"electronically">>, "flag", FALSE)
    BY PrintRowsAre, Zenon
  <2> QED BY <2>1, DepsTop, PlainChecks, Zenon
<1>2. Deps(R, 2)
  <2>1. IsRow(R[2], <<"cliche">>, "flag", FALSE)
    BY PrintRowsAre, Zenon
  <2> QED BY <2>1, DepsTop, PlainChecks, Zenon
<1>3. Deps(R, 3)
  <2>1. IsRow(R[3], <<"footer">>, "flag", FALSE)
    BY PrintRowsAre, Zenon
  <2> QED BY <2>1, DepsTop, PlainChecks, Zenon
<1>4. Deps(R, 4)
  <2>1. IsRow(R[4], <<"margin">>, "flag", FALSE)
    BY PrintRowsAre, Zenon
  <2> QED BY <2>1, DepsTop, PlainChecks, Zenon
<1>5. Deps(R, 5)
  <2>1. IsRow(R[5], <<"document">>, "array", TRUE)
    BY PrintRowsAre, Zenon
  <2> QED BY <2>1, DepsTop, PlainChecks, Zenon
<1>6. Deps(R, 6)
  <2>1. /\ IsRow(R[6], <<"document", "0", "separator">>, "flag", FALSE)
        /\ IsRow(R[5], <<"document">>, "array", TRUE)
    BY PrintRowsAre, Zenon
  <2>2. 5 \in 1..6 - 1
    OBVIOUS
  <2>3. Earlier(R, 6, <<"document">>, "array", TRUE)
    BY <2>1, <2>2, Zenon DEF Earlier
  <2> QED BY <2>1, <2>3, DepsSeparator, Zenon DEF Index
<1>7. Deps(R, 7)
  <2>1. /\ IsRow(R[7], <<"document", "0", "content">>, "text", TRUE)
        /\ IsRow(R[5], <<"document">>, "array", TRUE)
        /\ IsRow(R[6], <<"document", "0", "separator">>, "flag", FALSE)
    BY PrintRowsAre, Zenon
  <2>2. 5 \in 1..7 - 1 /\ 6 \in 1..7 - 1
    OBVIOUS
  <2>3. /\ Earlier(R, 7, <<"document">>, "array", TRUE)
        /\ Earlier(R, 7, <<"document", "0", "separator">>, "flag", FALSE)
    BY <2>1, <2>2, Zenon DEF Earlier
  <2> QED BY <2>1, <2>3, DepsBlock, PlainChecks, Zenon DEF Index
<1>8. Deps(R, 8)
  <2>1. /\ IsRow(R[8], <<"document", "0", "center">>, "flag", FALSE)
        /\ IsRow(R[5], <<"document">>, "array", TRUE)
        /\ IsRow(R[6], <<"document", "0", "separator">>, "flag", FALSE)
    BY PrintRowsAre, Zenon
  <2>2. 5 \in 1..8 - 1 /\ 6 \in 1..8 - 1
    OBVIOUS
  <2>3. /\ Earlier(R, 8, <<"document">>, "array", TRUE)
        /\ Earlier(R, 8, <<"document", "0", "separator">>, "flag", FALSE)
    BY <2>1, <2>2, Zenon DEF Earlier
  <2> QED BY <2>1, <2>3, DepsBlock, PlainChecks, Zenon DEF Index
<1>9. Deps(R, 9)
  <2>1. /\ IsRow(R[9], <<"document", "0", "magnified">>, "flag", FALSE)
        /\ IsRow(R[5], <<"document">>, "array", TRUE)
        /\ IsRow(R[6], <<"document", "0", "separator">>, "flag", FALSE)
    BY PrintRowsAre, Zenon
  <2>2. 5 \in 1..9 - 1 /\ 6 \in 1..9 - 1
    OBVIOUS
  <2>3. /\ Earlier(R, 9, <<"document">>, "array", TRUE)
        /\ Earlier(R, 9, <<"document", "0", "separator">>, "flag", FALSE)
    BY <2>1, <2>2, Zenon DEF Earlier
  <2> QED BY <2>1, <2>3, DepsBlock, PlainChecks, Zenon DEF Index
<1>10. Deps(R, 10)
  <2>1. /\ IsRow(R[10], <<"document", "0", "separated">>, "flag", FALSE)
        /\ IsRow(R[5], <<"document">>, "array", TRUE)
        /\ IsRow(R[6], <<"document", "0", "separator">>, "flag", FALSE)
    BY PrintRowsAre, Zenon
  <2>2. 5 \in 1..10 - 1 /\ 6 \in 1..10 - 1
    OBVIOUS
  <2>3. /\ Earlier(R, 10, <<"document">>, "array", TRUE)
        /\ Earlier(R, 10, <<"document", "0", "separator">>, "flag", FALSE)
    BY <2>1, <2>2, Zenon DEF Earlier
  <2> QED BY <2>1, <2>3, DepsBlock, PlainChecks, Zenon DEF Index
<1>11. Deps(R, 11)
  <2>1. /\ IsRow(R[11], <<"document", "1", "separator">>, "flag", FALSE)
        /\ IsRow(R[5], <<"document">>, "array", TRUE)
    BY PrintRowsAre, Zenon
  <2>2. 5 \in 1..11 - 1
    OBVIOUS
  <2>3. Earlier(R, 11, <<"document">>, "array", TRUE)
    BY <2>1, <2>2, Zenon DEF Earlier
  <2> QED BY <2>1, <2>3, DepsSeparator, Zenon DEF Index
<1>12. Deps(R, 12)
  <2>1. /\ IsRow(R[12], <<"document", "1", "content">>, "text", TRUE)
        /\ IsRow(R[5], <<"document">>, "array", TRUE)
        /\ IsRow(R[11], <<"document", "1", "separator">>, "flag", FALSE)
    BY PrintRowsAre, Zenon
  <2>2. 5 \in 1..12 - 1 /\ 11 \in 1..12 - 1
    OBVIOUS
  <2>3. /\ Earlier(R, 12, <<"document">>, "array", TRUE)
        /\ Earlier(R, 12, <<"document", "1", "separator">>, "flag", FALSE)
    BY <2>1, <2>2, Zenon DEF Earlier
  <2> QED BY <2>1, <2>3, DepsBlock, PlainChecks, Zenon DEF Index
<1>13. Deps(R, 13)
  <2>1. /\ IsRow(R[13], <<"document", "1", "center">>, "flag", FALSE)
        /\ IsRow(R[5], <<"document">>, "array", TRUE)
        /\ IsRow(R[11], <<"document", "1", "separator">>, "flag", FALSE)
    BY PrintRowsAre, Zenon
  <2>2. 5 \in 1..13 - 1 /\ 11 \in 1..13 - 1
    OBVIOUS
  <2>3. /\ Earlier(R, 13, <<"document">>, "array", TRUE)
        /\ Earlier(R, 13, <<"document", "1", "separator">>, "flag", FALSE)
    BY <2>1, <2>2, Zenon DEF Earlier
  <2> QED BY <2>1, <2>3, DepsBlock, PlainChecks, Zenon DEF Index
<1>14. Deps(R, 14)
  <2>1. /\ IsRow(R[14], <<"document", "1", "magnified">>, "flag", FALSE)
        /\ IsRow(R[5], <<"document">>, "array", TRUE)
        /\ IsRow(R[11], <<"document", "1", "separator">>, "flag", FALSE)
    BY PrintRowsAre, Zenon
  <2>2. 5 \in 1..14 - 1 /\ 11 \in 1..14 - 1
    OBVIOUS
  <2>3. /\ Earlier(R, 14, <<"document">>, "array", TRUE)
        /\ Earlier(R, 14, <<"document", "1", "separator">>, "flag", FALSE)
    BY <2>1, <2>2, Zenon DEF Earlier
  <2> QED BY <2>1, <2>3, DepsBlock, PlainChecks, Zenon DEF Index
<1>15. Deps(R, 15)
  <2>1. /\ IsRow(R[15], <<"document", "1", "separated">>, "flag", FALSE)
        /\ IsRow(R[5], <<"document">>, "array", TRUE)
        /\ IsRow(R[11], <<"document", "1", "separator">>, "flag", FALSE)
    BY PrintRowsAre, Zenon
  <2>2. 5 \in 1..15 - 1 /\ 11 \in 1..15 - 1
    OBVIOUS
  <2>3. /\ Earlier(R, 15, <<"document">>, "array", TRUE)
        /\ Earlier(R, 15, <<"document", "1", "separator">>, "flag", FALSE)
    BY <2>1, <2>2, Zenon DEF Earlier
  <2> QED BY <2>1, <2>3, DepsBlock, PlainChecks, Zenon DEF Index
<1> HIDE DEF R
<1>16. \A n \in 1..15 :
      \/ n = 1 \/ n = 2 \/ n = 3 \/ n = 4 \/ n = 5 \/ n = 6 \/ n = 7 \/ n = 8
      \/ n = 9 \/ n = 10 \/ n = 11 \/ n = 12 \/ n = 13 \/ n = 14 \/ n = 15
  OBVIOUS
<1>17. \A n : \/ n = 1 \/ n = 2 \/ n = 3 \/ n = 4
               \/ n = 5 \/ n = 6 \/ n = 7 \/ n = 8
               => Deps(R, n)
  BY <1>1, <1>2, <1>3, <1>4, <1>5, <1>6, <1>7, <1>8, Zenon
<1>18. \A n : \/ n = 9 \/ n = 10 \/ n = 11 \/ n = 12
               \/ n = 13 \/ n = 14 \/ n = 15
               => Deps(R, n)
  BY <1>9, <1>10, <1>11, <1>12, <1>13, <1>14, <1>15, Zenon
<1> HIDE DEF Deps
<1>19. \A n \in 1..15 : Deps(R, n)
  BY <1>16, <1>17, <1>18
<1> QED BY <1>19 DEF R

LEMMA ReceiptDeps == \A n \in 1..35 : Deps(ReceiptRows, n)
<1> DEFINE R == ReceiptRows
<1>1. Deps(R, 1)
  <2>1. IsRow(R[1], <<"electronically">>, "flag", FALSE)
    BY ReceiptRowsAre, Zenon
  <2> QED BY <2>1, DepsTop, PlainChecks, Zenon
<1>2. Deps(R, 2)
  <2>1. IsRow(R[2], <<"operator">>, "object", TRUE)
    BY ReceiptRowsAre, Zenon
  <2> QED BY <2>1, DepsTop, PlainChecks, Zenon
<1>3. Deps(R, 3)
  <2>1. /\ IsRow(R[3], <<"operator", "name">>, "title", TRUE)
        /\ IsRow(R[2], <<"operator">>, "object", TRUE)
    BY ReceiptRowsAre, Zenon
  <2>2. 2 \in 1..3 - 1
    OBVIOUS
  <2>3. Earlier(R, 3, <<"operator">>, "object", TRUE)
    BY <2>1, <2>2, Zenon DEF Earlier
  <2> QED BY <2>1, <2>3, DepsMember, PlainChecks, Zenon DEF Index
<1>4. Deps(R, 4)
  <2>1. /\ IsRow(R[4], <<"operator", "inn">>, "note", FALSE)
        /\ IsRow(R[2], <<"operator">>, "object", TRUE)
    BY ReceiptRowsAre, Zenon
  <2>2. 2 \in 1..4 - 1
    OBVIOUS
  <2>3. Earlier(R, 4, <<"operator">>, "object", TRUE)
    BY <2>1, <2>2, Zenon DEF Earlier
  <2> QED BY <2>1, <2>3, DepsMember, PlainChecks, Zenon DEF Index
<1>5. Deps(R, 5)
  <2>1. IsRow(R[5], <<"customer">>, "object", FALSE)
    BY ReceiptRowsAre, Zenon
  <2> QED BY <2>1, DepsTop, PlainChecks, Zenon
<1>6. Deps(R, 6)
  <2>1. /\ IsRow(R[6], <<"customer", "contact">>, "note", FALSE)
        /\ IsRow(R[5], <<"customer">>, "object", FALSE)
    BY ReceiptRowsAre, Zenon
  <2>2. 5 \in 1..6 - 1
    OBVIOUS
  <2>3. Earlier(R, 6, <<"customer">>, "object", FALSE)
    BY <2>1, <2>2, Zenon DEF Earlier
  <2> QED BY <2>1, <2>3, DepsMember, PlainChecks, Zenon DEF Index
<1>7. Deps(R, 7)
  <2>1. /\ IsRow(R[7], <<"customer", "inn">>, "note", FALSE)
        /\ IsRow(R[5], <<"customer">>, "object", FALSE)
    BY ReceiptRowsAre, Zenon
  <2>2. 5 \in 1..7 - 1
    OBVIOUS
  <2>3. Earlier(R, 7, <<"customer">>, "object", FALSE)
    BY <2>1, <2>2, Zenon DEF Earlier
  <2> QED BY <2>1, <2>3, DepsMember, PlainChecks, Zenon DEF Index
<1>8. Deps(R, 8)
  <2>1. IsRow(R[8], <<"seller">>, "object", FALSE)
    BY ReceiptRowsAre, Zenon
  <2> QED BY <2>1, DepsTop, PlainChecks, Zenon
<1>9. Deps(R, 9)
  <2>1. /\ IsRow(R[9], <<"seller", "email">>, "note", FALSE)
        /\ IsRow(R[8], <<"seller">>, "object", FALSE)
    BY ReceiptRowsAre, Zenon
  <2>2. 8 \in 1..9 - 1
    OBVIOUS
  <2>3. Earlier(R, 9, <<"seller">>, "object", FALSE)
    BY <2>1, <2>2, Zenon DEF Earlier
  <2> QED BY <2>1, <2>3, DepsMember, PlainChecks, Zenon DEF Index
<1>10. Deps(R, 10)
  <2>1. IsRow(R[10], <<"text">>, "object", FALSE)
    BY ReceiptRowsAre, Zenon
  <2> QED BY <2>1, DepsTop, PlainChecks, Zenon
<1>11. Deps(R, 11)
  <2>1. /\ IsRow(R[11], <<"text", "content">>, "text", FALSE)
        /\ IsRow(R[10], <<"text">>, "object", FALSE)
    BY ReceiptRowsAre, Zenon
  <2>2. 10 \in 1..11 - 1
    OBVIOUS
  <2>3. Earlier(R, 11, <<"text">>, "object", FALSE)
    BY <2>1, <2>2, Zenon DEF Earlier
  <2> QED BY <2>1, <2>3, DepsMember, PlainChecks, Zenon DEF Index
<1>12. Deps(R, 12)
  <2>1. /\ IsRow(R[12], <<"text", "center">>, "flag", FALSE)
        /\ IsRow(R[10], <<"text">>, "object", FALSE)
    BY ReceiptRowsAre, Zenon
  <2>2. 10 \in 1..12 - 1
    OBVIOUS
  <2>3. Earlier(R, 12, <<"text">>, "object", FALSE)
    BY <2>1, <2>2, Zenon DEF Earlier
  <2> QED BY <2>1, <2>3, DepsMember, PlainChecks, Zenon DEF Index
<1>13. Deps(R, 13)
  <2>1. /\ IsRow(R[13], <<"text", "magnified">>, "flag", FALSE)
        /\ IsRow(R[10], <<"text">>, "object", FALSE)
    BY ReceiptRowsAre, Zenon
  <2>2. 10 \in 1..13 - 1
    OBVIOUS
  <2>3. Earlier(R, 13, <<"text">>, "object", FALSE)
    BY <2>1, <2>2, Zenon DEF Earlier
  <2> QED BY <2>1, <2>3, DepsMember, PlainChecks, Zenon DEF Index
<1>14. Deps(R, 14)
  <2>1. /\ IsRow(R[14], <<"text", "separated">>, "flag", FALSE)
        /\ IsRow(R[10], <<"text">>, "object", FALSE)
    BY ReceiptRowsAre, Zenon
  <2>2. 10 \in 1..14 - 1
    OBVIOUS
  <2>3. Earlier(R, 14, <<"text">>, "object", FALSE)
    BY <2>1, <2>2, Zenon DEF Earlier
  <2> QED BY <2>1, <2>3, DepsMember, PlainChecks, Zenon DEF Index
<1>15. Deps(R, 15)
  <2>1. IsRow(R[15], <<"tax">>, "tax", FALSE)
    BY ReceiptRowsAre, Zenon
  <2> QED BY <2>1, DepsTop, PlainChecks, Zenon
<1>16. Deps(R, 16)
  <2>1. IsRow(R[16], <<"items">>, "array", TRUE)
    BY ReceiptRowsAre, Zenon
  <2> QED BY <2>1, DepsTop, PlainChecks, Zenon
<1>17. Deps(R, 17)
  <2>1. /\ IsRow(R[17], <<"items", "0", "title">>, "title", TRUE)
        /\ IsRow(R[16], <<"items">>, "array", TRUE)
    BY ReceiptRowsAre, Zenon
  <2>2. 16 \in 1..17 - 1
    OBVIOUS
  <2>3. Earlier(R, 17, <<"items">>, "array", TRUE)
    BY <2>1, <2>2, Zenon DEF Earlier
  <2> QED BY <2>1, <2>3, DepsItemKey, Zenon DEF Index
<1>18. Deps(R, 18)
  <2>1. /\ IsRow(R[18], <<"items", "0", "price">>, "price", TRUE)
        /\ IsRow(R[16], <<"items">>, "array", TRUE)
    BY ReceiptRowsAre, Zenon
  <2>2. 16 \in 1..18 - 1
    OBVIOUS
  <2>3. Earlier(R, 18, <<"items">>, "array", TRUE)
    BY <2>1, <2>2, Zenon DEF Earlier
  <2> QED BY <2>1, <2>3, DepsItemKey, Zenon DEF Index
<1>19. Deps(R, 19)
  <2>1. /\ IsRow(R[19], <<"items", "0", "quantity">>, "quantity", TRUE)
        /\ IsRow(R[16], <<"items">>, "array", TRUE)
    BY ReceiptRowsAre, Zenon
  <2>2. 16 \in 1..19 - 1
    OBVIOUS
  <2>3. Earlier(R, 19, <<"items">>, "array", TRUE)
    BY <2>1, <2>2, Zenon DEF Earlier
  <2> QED BY <2>1, <2>3, DepsItemKey, Zenon DEF Index
<1>20. Deps(R, 20)
  <2>1. /\ IsRow(R[20], <<"items", "0", "unit">>, "unit", FALSE)
        /\ IsRow(R[16], <<"items">>, "array", TRUE)
    BY ReceiptRowsAre, Zenon
  <2>2. 16 \in 1..20 - 1
    OBVIOUS
  <2>3. Earlier(R, 20, <<"items">>, "array", TRUE)
    BY <2>1, <2>2, Zenon DEF Earlier
  <2> QED BY <2>1, <2>3, DepsItemKey, Zenon DEF Index
<1>21. Deps(R, 21)
  <2>1. /\ IsRow(R[21], <<"items", "0", "tax">>, "item tax", FALSE)
        /\ IsRow(R[16], <<"items">>, "array", TRUE)
        /\ IsRow(R[15], <<"tax">>, "tax", FALSE)
    BY ReceiptRowsAre, Zenon
  <2>2. 16 \in 1..21 - 1 /\ 15 \in 1..21 - 1
    OBVIOUS
  <2>3. /\ Earlier(R, 21, <<"items">>, "array", TRUE)
        /\ Earlier(R, 21, <<"tax">>, "tax", FALSE)
    BY <2>1, <2>2, Zenon DEF Earlier
  <2> QED BY <2>1, <2>3, DepsItemKey, Zenon DEF Index
<1>22. Deps(R, 22)
  <2>1. /\ IsRow(R[22], <<"items", "0">>, "item", TRUE)
        /\ IsRow(R[16], <<"items">>, "array", TRUE)
        /\ IsRow(R[18], <<"items", "0", "price">>, "price", TRUE)
        /\ IsRow(R[19], <<"items", "0", "quantity">>, "quantity", TRUE)
    BY ReceiptRowsAre, Zenon
  <2>2. 16 \in 1..22 - 1 /\ 18 \in 1..22 - 1 /\ 19 \in 1..22 - 1
    OBVIOUS
  <2>3. /\ Earlier(R, 22, <<"items">>, "array", TRUE)
        /\ Earlier(R, 22, <<"items", "0", "price">>, "price", TRUE)
        /\ Earlier(R, 22, <<"items", "0", "quantity">>, "quantity", TRUE)
    BY <2>1, <2>2, Zenon DEF Earlier
  <2> QED BY <2>1, <2>3, DepsItem, Zenon DEF Index
<1>23. Deps(R, 23)
  <2>1. /\ IsRow(R[23], <<"items", "1", "title">>, "title", TRUE)
        /\ IsRow(R[16], <<"items">>, "array", TRUE)
    BY ReceiptRowsAre, Zenon
  <2>2. 16 \in 1..23 - 1
    OBVIOUS
  <2>3. Earlier(R, 23, <<"items">>, "array", TRUE)
    BY <2>1, <2>2, Zenon DEF Earlier
  <2> QED BY <2>1, <2>3, DepsItemKey, Zenon DEF Index
<1>24. Deps(R, 24)
  <2>1. /\ IsRow(R[24], <<"items", "1", "price">>, "price", TRUE)
        /\ IsRow(R[16], <<"items">>, "array", TRUE)
    BY ReceiptRowsAre, Zenon
  <2>2. 16 \in 1..24 - 1
    OBVIOUS
  <2>3. Earlier(R, 24, <<"items">>, "array", TRUE)
    BY <2>1, <2>2, Zenon DEF Earlier
  <2> QED BY <2>1, <2>3, DepsItemKey, Zenon DEF Index
<1>25. Deps(R, 25)
  <2>1. /\ IsRow(R[25], <<"items", "1", "quantity">>, "quantity", TRUE)
        /\ IsRow(R[16], <<"items">>, "array", TRUE)
    BY ReceiptRowsAre, Zenon
  <2>2. 16 \in 1..25 - 1
    OBVIOUS
  <2>3. Earlier(R, 25, <<"items">>, "array", TRUE)
    BY <2>1, <2>2, Zenon DEF Earlier
  <2> QED BY <2>1, <2>3, DepsItemKey, Zenon DEF Index
<1>26. Deps(R, 26)
  <2>1. /\ IsRow(R[26], <<"items", "1", "unit">>, "unit", FALSE)
        /\ IsRow(R[16], <<"items">>, "array", TRUE)
    BY ReceiptRowsAre, Zenon
  <2>2. 16 \in 1..26 - 1
    OBVIOUS
  <2>3. Earlier(R, 26, <<"items">>, "array", TRUE)
    BY <2>1, <2>2, Zenon DEF Earlier
  <2> QED BY <2>1, <2>3, DepsItemKey, Zenon DEF Index
<1>27. Deps(R, 27)
  <2>1. /\ IsRow(R[27], <<"items", "1", "tax">>, "item tax", FALSE)
        /\ IsRow(R[16], <<"items">>, "array", TRUE)
        /\ IsRow(R[15], <<"tax">>, "tax", FALSE)
    BY ReceiptRowsAre, Zenon
  <2>2. 16 \in 1..27 - 1 /\ 15 \in 1..27 - 1
    OBVIOUS
  <2>3. /\ Earlier(R, 27, <<"items">>, "array", TRUE)
        /\ Earlier(R, 27, <<"tax">>, "tax", FALSE)
    BY <2>1, <2>2, Zenon DEF Earlier
  <2> QED BY <2>1, <2>3, DepsItemKey, Zenon DEF Index
<1>28. Deps(R, 28)
  <2>1. /\ IsRow(R[28], <<"items", "1">>, "item", TRUE)
        /\ IsRow(R[16], <<"items">>, "array", TRUE)
        /\ IsRow(R[24], <<"items", "1", "price">>, "price", TRUE)
        /\ IsRow(R[25], <<"items", "1", "quantity">>, "quantity", TRUE)
    BY ReceiptRowsAre, Zenon
  <2>2. 16 \in 1..28 - 1 /\ 24 \in 1..28 - 1 /\ 25 \in 1..28 - 1
    OBVIOUS
  <2>3. /\ Earlier(R, 28, <<"items">>, "array", TRUE)
        /\ Earlier(R, 28, <<"items", "1", "price">>, "price", TRUE)
        /\ Earlier(R, 28, <<"items", "1", "quantity">>, "quantity", TRUE)
    BY <2>1, <2>2, Zenon DEF Earlier
  <2> QED BY <2>1, <2>3, DepsItem, Zenon DEF Index
<1>29. Deps(R, 29)
  <2>1. IsRow(R[29], <<"payment">>, "object", TRUE)
    BY ReceiptRowsAre, Zenon
  <2> QED BY <2>1, DepsTop, PlainChecks, Zenon
<1>30. Deps(R, 30)
  <2>1. /\ IsRow(R[30], <<"payment", "sum">>, "sum", TRUE)
        /\ IsRow(R[29], <<"payment">>, "object", TRUE)
    BY ReceiptRowsAre, Zenon
  <2>2. 29 \in 1..30 - 1
    OBVIOUS
  <2>3. Earlier(R, 30, <<"payment">>, "object", TRUE)
    BY <2>1, <2>2, Zenon DEF Earlier
  <2> QED BY <2>1, <2>3, DepsMember, PlainChecks, Zenon DEF Index
<1>31. Deps(R, 31)
  <2>1. /\ IsRow(R[31], <<"payment", "type">>, "payment type", TRUE)
        /\ IsRow(R[29], <<"payment">>, "object", TRUE)
    BY ReceiptRowsAre, Zenon
  <2>2. 29 \in 1..31 - 1
    OBVIOUS
  <2>3. Earlier(R, 31, <<"payment">>, "object", TRUE)
    BY <2>1, <2>2, Zenon DEF Earlier
  <2> QED BY <2>1, <2>3, DepsMember, PlainChecks, Zenon DEF Index
<1>32. Deps(R, 32)
  <2>1. /\ IsRow(R[32], <<"payment", "electroPaymentInfo">>, "object", FALSE)
        /\ IsRow(R[29], <<"payment">>, "object", TRUE)
        /\ IsRow(R[31], <<"payment", "type">>, "payment type", TRUE)
    BY ReceiptRowsAre, Zenon
  <2>2. 29 \in 1..32 - 1 /\ 31 \in 1..32 - 1
    OBVIOUS
  <2>3. /\ Earlier(R, 32, <<"payment">>, "object", TRUE)
        /\ Earlier(R, 32, <<"payment", "type">>, "payment type", TRUE)
    BY <2>1, <2>2, Zenon DEF Earlier
  <2> QED BY <2>1, <2>3, DepsElectro, Zenon DEF Index
<1>33. Deps(R, 33)
  <2>1. /\ IsRow(R[33], <<"payment", "electroPaymentInfo", "method">>, "integer", TRUE)
        /\ IsRow(R[32], <<"payment", "electroPaymentInfo">>, "object", FALSE)
        /\ IsRow(R[29], <<"payment">>, "object", TRUE)
        /\ IsRow(R[31], <<"payment", "type">>, "payment type", TRUE)
    BY ReceiptRowsAre, Zenon
  <2>2. 32 \in 1..33 - 1 /\ 29 \in 1..33 - 1 /\ 31 \in 1..33 - 1
    OBVIOUS
  <2>3. /\ Earlier(R, 33, <<"payment", "electroPaymentInfo">>, "object", FALSE)
        /\ Earlier(R, 33, <<"payment">>, "object", TRUE)
        /\ Earlier(R, 33, <<"payment", "type">>, "payment type", TRUE)
    BY <2>1, <2>2, Zenon DEF Earlier
  <2> QED BY <2>1, <2>3, DepsElectroMember, PlainChecks, Zenon DEF Index
<1>34. Deps(R, 34)
  <2>1. /\ IsRow(R[34], <<"payment", "electroPaymentInfo", "id">>, "text", TRUE)
        /\ IsRow(R[32], <<"payment", "electroPaymentInfo">>, "object", FALSE)
        /\ IsRow(R[29], <<"payment">>, "object", TRUE)
        /\ IsRow(R[31], <<"payment", "type">>, "payment type", TRUE)
    BY ReceiptRowsAre, Zenon
  <2>2. 32 \in 1..34 - 1 /\ 29 \in 1..34 - 1 /\ 31 \in 1..34 - 1
    OBVIOUS
  <2>3. /\ Earlier(R, 34, <<"payment", "electroPaymentInfo">>, "object", FALSE)
        /\ Earlier(R, 34, <<"payment">>, "object", TRUE)
        /\ Earlier(R, 34, <<"payment", "type">>, "payment type", TRUE)
    BY <2>1, <2>2, Zenon DEF Earlier
  <2> QED BY <2>1, <2>3, DepsElectroMember, PlainChecks, Zenon DEF Index
<1>35. Deps(R, 35)
  <2>1. /\ IsRow(R[35], <<"payment", "electroPaymentInfo", "addInfo">>, "note", FALSE)
        /\ IsRow(R[32], <<"payment", "electroPaymentInfo">>, "object", FALSE)
        /\ IsRow(R[29], <<"payment">>, "object", TRUE)
        /\ IsRow(R[31], <<"payment", "type">>, "payment type", TRUE)
    BY ReceiptRowsAre, Zenon
  <2>2. 32 \in 1..35 - 1 /\ 29 \in 1..35 - 1 /\ 31 \in 1..35 - 1
    OBVIOUS
  <2>3. /\ Earlier(R, 35, <<"payment", "electroPaymentInfo">>, "object", FALSE)
        /\ Earlier(R, 35, <<"payment">>, "object", TRUE)
        /\ Earlier(R, 35, <<"payment", "type">>, "payment type", TRUE)
    BY <2>1, <2>2, Zenon DEF Earlier
  <2> QED BY <2>1, <2>3, DepsElectroMember, PlainChecks, Zenon DEF Index
<1> HIDE DEF R
<1>36. \A n \in 1..35 :
      \/ n = 1 \/ n = 2 \/ n = 3 \/ n = 4 \/ n = 5 \/ n = 6 \/ n = 7 \/ n = 8
      \/ n = 9 \/ n = 10 \/ n = 11 \/ n = 12 \/ n = 13 \/ n = 14 \/ n = 15 \/ n = 16
      \/ n = 17 \/ n = 18 \/ n = 19 \/ n = 20 \/ n = 21 \/ n = 22 \/ n = 23 \/ n = 24
      \/ n = 25 \/ n = 26 \/ n = 27 \/ n = 28 \/ n = 29 \/ n = 30 \/ n = 31 \/ n = 32
      \/ n = 33 \/ n = 34 \/ n = 35
  OBVIOUS
<1>37. \A n : \/ n = 1 \/ n = 2 \/ n = 3 \/ n = 4
               \/ n = 5 \/ n = 6 \/ n = 7 \/ n = 8
               => Deps(R, n)
  BY <1>1, <1>2, <1>3, <1>4, <1>5, <1>6, <1>7, <1>8, Zenon
<1>38. \A n : \/ n = 9 \/ n = 10 \/ n = 11 \/ n = 12
               \/ n = 13 \/ n = 14 \/ n = 15 \/ n = 16
               => Deps(R, n)
  BY <1>9, <1>10, <1>11, <1>12, <1>13, <1>14, <1>15, <1>16, Zenon
<1>39. \A n : \/ n = 17 \/ n = 18 \/ n = 19 \/ n = 20
               \/ n = 21 \/ n = 22 \/ n = 23 \/ n = 24
               => Deps(R, n)
  BY <1>17, <1>18, <1>19, <1>20, <1>21, <1>22, <1>23, <1>24, Zenon
<1>40. \A n : \/ n = 25 \/ n = 26 \/ n = 27 \/ n = 28
               \/ n = 29 \/ n = 30 \/ n = 31 \/ n = 32
               => Deps(R, n)
  BY <1>25, <1>26, <1>27, <1>28, <1>29, <1>30, <1>31, <1>32, Zenon
<1>41. \A n : \/ n = 33 \/ n = 34 \/ n = 35
               => Deps(R, n)
  BY <1>33, <1>34, <1>35, Zenon
<1> HIDE DEF Deps
<1>42. \A n \in 1..35 : Deps(R, n)
  BY <1>36, <1>37, <1>38, <1>39, <1>40, <1>41
<1> QED BY <1>42 DEF R

LEMMA Tuples ==
  /\ \A a, b : <<a>> = <<b>> => a = b
  /\ \A a, b, c, d : <<a, b>> = <<c, d>> => a = c /\ b = d
  /\ \A a, b, c, d, e, f : <<a, b, c>> = <<d, e, f>> => a = d /\ b = e /\ c = f
  /\ \A a, b, c : <<a>> # <<b, c>>
  /\ \A a, b, c, d : <<a>> # <<b, c, d>>
  /\ \A a, b, c, d, e : <<a, b>> # <<c, d, e>>
  OBVIOUS

LEMMA CashOnce ==
  ASSUME NEW i \in 1..5, NEW j \in 1..5, CashRows[i].path = CashRows[j].path
  PROVE  i = j
<1>1. ASSUME NEW R,
             R[1].path = <<"electronically">>,
             R[2].path = <<"operator">>,
             R[3].path = <<"operator", "name">>,
             R[4].path = <<"operator", "inn">>,
             R[5].path = <<"cashSum">>,
             NEW m \in 1..5, NEW n \in 1..5, R[m].path = R[n].path
      PROVE  m = n
  <2>1. \A l \in 1..5 :
      \/ l = 1 \/ l = 2 \/ l = 3 \/ l = 4 \/ l = 5
    OBVIOUS
  <2> QED BY <1>1, <2>1, Tuples, SMTT(300)
<1>2. /\ CashRows[1].path = <<"electronically">>
      /\ CashRows[2].path = <<"operator">>
      /\ CashRows[3].path = <<"operator", "name">>
      /\ CashRows[4].path = <<"operator", "inn">>
      /\ CashRows[5].path = <<"cashSum">>
  BY CashRowsAre, Zenon DEF IsRow
<1> QED BY <1>1, <1>2, Zenon

LEMMA CloseOnce ==
  ASSUME NEW i \in 1..6, NEW j \in 1..6, CloseRows[i].path = CloseRows[j].path
  PROVE  i = j
<1>1. ASSUME NEW R,
             R[1].path = <<"electronically">>,
             R[2].path = <<"operator">>,
             R[3].path = <<"operator", "name">>,
             R[4].path = <<"operator", "inn">>,
             R[5].path = <<"closeShift">>,
             R[6].path = <<"cashOut">>,
             NEW m \in 1..6, NEW n \in 1..6, R[m].path = R[n].path
      PROVE  m = n
  <2>1. \A l \in 1..6 :
      \/ l = 1 \/ l = 2 \/ l = 3 \/ l = 4 \/ l = 5 \/ l = 6
    OBVIOUS
  <2> QED BY <1>1, <2>1, Tuples, SMTT(300)
<1>2. /\ CloseRows[1].path = <<"electronically">>
      /\ CloseRows[2].path = <<"operator">>
      /\ CloseRows[3].path = <<"operator", "name">>
      /\ CloseRows[4].path = <<"operator", "inn">>
      /\ CloseRows[5].path = <<"closeShift">>
      /\ CloseRows[6].path = <<"cashOut">>
  BY CloseRowsAre, Zenon DEF IsRow
<1> QED BY <1>1, <1>2, Zenon

LEMMA PrintOnce ==
  ASSUME NEW i \in 1..15, NEW j \in 1..15, PrintRows[i].path = PrintRows[j].path
  PROVE  i = j
<1>1. ASSUME NEW R,
             R[1].path = <<"electronically">>,
             R[2].path = <<"cliche">>,
             R[3].path = <<"footer">>,
             R[4].path = <<"margin">>,
             R[5].path = <<"document">>,
             R[6].path = <<"document", "0", "separator">>,
             R[7].path = <<"document", "0", "content">>,
             R[8].path = <<"document", "0", "center">>,
             R[9].path = <<"document", "0", "magnified">>,
             R[10].path = <<"document", "0", "separated">>,
             R[11].path = <<"document", "1", "separator">>,
             R[12].path = <<"document", "1", "content">>,
             R[13].path = <<"document", "1", "center">>,
             R[14].path = <<"document", "1", "magnified">>,
             R[15].path = <<"document", "1", "separated">>,
             NEW m \in 1..15, NEW n \in 1..15, R[m].path = R[n].path
      PROVE  m = n
  <2>1. \A l \in 1..15 :
      \/ l = 1 \/ l = 2 \/ l = 3 \/ l = 4 \/ l = 5 \/ l = 6 \/ l = 7 \/ l = 8
      \/ l = 9 \/ l = 10 \/ l = 11 \/ l = 12 \/ l = 13 \/ l = 14 \/ l = 15
    OBVIOUS
  <2> QED BY <1>1, <2>1, Tuples, SMTT(300)
<1>2. /\ PrintRows[1].path = <<"electronically">>
      /\ PrintRows[2].path = <<"cliche">>
      /\ PrintRows[3].path = <<"footer">>
      /\ PrintRows[4].path = <<"margin">>
      /\ PrintRows[5].path = <<"document">>
      /\ PrintRows[6].path = <<"document", "0", "separator">>
      /\ PrintRows[7].path = <<"document", "0", "content">>
      /\ PrintRows[8].path = <<"document", "0", "center">>
      /\ PrintRows[9].path = <<"document", "0", "magnified">>
      /\ PrintRows[10].path = <<"document", "0", "separated">>
      /\ PrintRows[11].path = <<"document", "1", "separator">>
      /\ PrintRows[12].path = <<"document", "1", "content">>
      /\ PrintRows[13].path = <<"document", "1", "center">>
      /\ PrintRows[14].path = <<"document", "1", "magnified">>
      /\ PrintRows[15].path = <<"document", "1", "separated">>
  BY PrintRowsAre, Zenon DEF IsRow
<1> QED BY <1>1, <1>2, Zenon

LEMMA ReceiptOnce ==
  ASSUME NEW i \in 1..35, NEW j \in 1..35, ReceiptRows[i].path = ReceiptRows[j].path
  PROVE  i = j
<1>1. ASSUME NEW R,
             R[1].path = <<"electronically">>,
             R[2].path = <<"operator">>,
             R[3].path = <<"operator", "name">>,
             R[4].path = <<"operator", "inn">>,
             R[5].path = <<"customer">>,
             R[6].path = <<"customer", "contact">>,
             R[7].path = <<"customer", "inn">>,
             R[8].path = <<"seller">>,
             R[9].path = <<"seller", "email">>,
             R[10].path = <<"text">>,
             R[11].path = <<"text", "content">>,
             R[12].path = <<"text", "center">>,
             R[13].path = <<"text", "magnified">>,
             R[14].path = <<"text", "separated">>,
             R[15].path = <<"tax">>,
             R[16].path = <<"items">>,
             R[17].path = <<"items", "0", "title">>,
             R[18].path = <<"items", "0", "price">>,
             R[19].path = <<"items", "0", "quantity">>,
             R[20].path = <<"items", "0", "unit">>,
             R[21].path = <<"items", "0", "tax">>,
             R[22].path = <<"items", "0">>,
             R[23].path = <<"items", "1", "title">>,
             R[24].path = <<"items", "1", "price">>,
             R[25].path = <<"items", "1", "quantity">>,
             R[26].path = <<"items", "1", "unit">>,
             R[27].path = <<"items", "1", "tax">>,
             R[28].path = <<"items", "1">>,
             R[29].path = <<"payment">>,
             R[30].path = <<"payment", "sum">>,
             R[31].path = <<"payment", "type">>,
             R[32].path = <<"payment", "electroPaymentInfo">>,
             R[33].path = <<"payment", "electroPaymentInfo", "method">>,
             R[34].path = <<"payment", "electroPaymentInfo", "id">>,
             R[35].path = <<"payment", "electroPaymentInfo", "addInfo">>,
             NEW m \in 1..35, NEW n \in 1..35, R[m].path = R[n].path
      PROVE  m = n
  <2>1. \A l \in 1..35 :
      \/ l = 1 \/ l = 2 \/ l = 3 \/ l = 4 \/ l = 5 \/ l = 6 \/ l = 7 \/ l = 8
      \/ l = 9 \/ l = 10 \/ l = 11 \/ l = 12 \/ l = 13 \/ l = 14 \/ l = 15 \/ l = 16
      \/ l = 17 \/ l = 18 \/ l = 19 \/ l = 20 \/ l = 21 \/ l = 22 \/ l = 23 \/ l = 24
      \/ l = 25 \/ l = 26 \/ l = 27 \/ l = 28 \/ l = 29 \/ l = 30 \/ l = 31 \/ l = 32
      \/ l = 33 \/ l = 34 \/ l = 35
    OBVIOUS
  <2> QED BY <1>1, <2>1, Tuples, SMTT(300)
<1>2. /\ ReceiptRows[1].path = <<"electronically">>
      /\ ReceiptRows[2].path = <<"operator">>
      /\ ReceiptRows[3].path = <<"operator", "name">>
      /\ ReceiptRows[4].path = <<"operator", "inn">>
      /\ ReceiptRows[5].path = <<"customer">>
      /\ ReceiptRows[6].path = <<"customer", "contact">>
      /\ ReceiptRows[7].path = <<"customer", "inn">>
      /\ ReceiptRows[8].path = <<"seller">>
      /\ ReceiptRows[9].path = <<"seller", "email">>
      /\ ReceiptRows[10].path = <<"text">>
      /\ ReceiptRows[11].path = <<"text", "content">>
      /\ ReceiptRows[12].path = <<"text", "center">>
      /\ ReceiptRows[13].path = <<"text", "magnified">>
      /\ ReceiptRows[14].path = <<"text", "separated">>
      /\ ReceiptRows[15].path = <<"tax">>
      /\ ReceiptRows[16].path = <<"items">>
      /\ ReceiptRows[17].path = <<"items", "0", "title">>
      /\ ReceiptRows[18].path = <<"items", "0", "price">>
      /\ ReceiptRows[19].path = <<"items", "0", "quantity">>
      /\ ReceiptRows[20].path = <<"items", "0", "unit">>
      /\ ReceiptRows[21].path = <<"items", "0", "tax">>
      /\ ReceiptRows[22].path = <<"items", "0">>
      /\ ReceiptRows[23].path = <<"items", "1", "title">>
      /\ ReceiptRows[24].path = <<"items", "1", "price">>
      /\ ReceiptRows[25].path = <<"items", "1", "quantity">>
      /\ ReceiptRows[26].path = <<"items", "1", "unit">>
      /\ ReceiptRows[27].path = <<"items", "1", "tax">>
      /\ ReceiptRows[28].path = <<"items", "1">>
      /\ ReceiptRows[29].path = <<"payment">>
      /\ ReceiptRows[30].path = <<"payment", "sum">>
      /\ ReceiptRows[31].path = <<"payment", "type">>
      /\ ReceiptRows[32].path = <<"payment", "electroPaymentInfo">>
      /\ ReceiptRows[33].path = <<"payment", "electroPaymentInfo", "method">>
      /\ ReceiptRows[34].path = <<"payment", "electroPaymentInfo", "id">>
      /\ ReceiptRows[35].path = <<"payment", "electroPaymentInfo", "addInfo">>
  BY ReceiptRowsAre, Zenon DEF IsRow
<1> QED BY <1>1, <1>2, Zenon

LEMMA KindsAre ==
  /\ DOMAIN Rows = {"cash", "close", "print", "receipt"}
  /\ Rows["cash"] = CashRows /\ Rows["close"] = CloseRows
  /\ Rows["print"] = PrintRows /\ Rows["receipt"] = ReceiptRows
  BY DEF Rows

LEMMA RowsAre ==
  ASSUME NEW k \in DOMAIN Rows
  PROVE  /\ Rows[k] \in Seq(AnyRow)
         /\ \A n \in 1..Len(Rows[k]) : Deps(Rows[k], n) /\ Rows[k][n].path \in Path
         /\ \A i, j \in 1..Len(Rows[k]) : Rows[k][i].path = Rows[k][j].path => i = j
<1>1. k = "cash" \/ k = "close" \/ k = "print" \/ k = "receipt"
  BY KindsAre, Zenon
<1>2. /\ Rows[k] \in Seq(AnyRow)
      /\ \A n \in 1..Len(Rows[k]) : Deps(Rows[k], n)
      /\ \A i, j \in 1..Len(Rows[k]) : Rows[k][i].path = Rows[k][j].path => i = j
  <2>1. CASE k = "cash"
    BY <2>1, KindsAre, CashRowsAre, CashDeps, CashOnce, Zenon
  <2>2. CASE k = "close"
    BY <2>2, KindsAre, CloseRowsAre, CloseDeps, CloseOnce, Zenon
  <2>3. CASE k = "print"
    BY <2>3, KindsAre, PrintRowsAre, PrintDeps, PrintOnce, Zenon
  <2>4. CASE k = "receipt"
    BY <2>4, KindsAre, ReceiptRowsAre, ReceiptDeps, ReceiptOnce, Zenon
  <2> QED BY <1>1, <2>1, <2>2, <2>3, <2>4
<1>3. DOMAIN Rows[k] = 1..Len(Rows[k])
  BY <1>2
<1>4. ASSUME NEW n \in 1..Len(Rows[k]) PROVE Rows[k][n].path \in Path
  <2> DEFINE own == {Rows[k][i].path : i \in DOMAIN Rows[k]}
  <2>1. Rows[k][n].path \in own
    BY <1>3, Zenon
  <2>2. own \in {{Rows[l][i].path : i \in DOMAIN Rows[l]} : l \in DOMAIN Rows}
    BY Zenon
  <2> QED BY <2>1, <2>2, Zenon DEF Path
<1> QED BY <1>2, <1>4, Zenon

-----------------------------------------------------------------------------
(* The values of a body and what the filters make of them.                 *)

LEMMA TwoPlaces == Cardinality(Index) = 2
<1>1. Cardinality({"0"}) = 1 /\ IsFiniteSet({"0"})
  BY FS_Singleton
<1>2. Index = {"0"} \cup {"1"} /\ "1" \notin {"0"}
  BY DEF Index
<1> QED BY <1>1, <1>2, FS_AddElement

LEMMA MarksDiffer == NaN \notin Int /\ NoNumber \notin Int /\ NaN # NoNumber
  BY DetailsAssumption DEF DetailsAssumption

LEMMA FormsAre ==
  /\ Missing.type = "missing" /\ Missing.text = "" /\ Missing.num = NoNumber
  /\ Null.type = "null" /\ Null.text = "" /\ Null.num = NoNumber
  /\ Object.type = "object" /\ Object.text = "" /\ Object.num = NoNumber
  /\ Bad.type = "null" /\ Bad.text = "long"
  /\ \A b \in BOOLEAN : Flag(b).type = "boolean" /\ Flag(b).text \in {"yes", "no"}
  /\ \A t : Text(t).type = "string" /\ Text(t).text = t /\ Text(t).num = NoNumber
  /\ \A n : Array(n).type = "array" /\ Array(n).text = "" /\ Array(n).num = n
  /\ \A n : TextOf(n).type = "string" /\ TextOf(n).text = "text" /\ TextOf(n).num = n
  BY DEF Missing, Null, Object, Bad, Flag, Text, Array, TextOf

LEMMA BodyValueForms ==
  ASSUME NEW v \in BodyValue
  PROVE  /\ v \in JsonValue /\ v # Bad
         /\ v.type \in {"missing", "null", "object", "array"} => v.text = ""
         /\ v.type = "missing" => v = Missing
         /\ v.type = "null" => v = Null
         /\ v.type = "array" => v.num \in 0..2
         /\ v.type = "boolean" => v.text \in {"yes", "no"}
         /\ v.text = "auto" => v.num = NoNumber
<1>1. /\ v \in JsonValue
      /\ \/ v \in {Missing, Null, Object, Flag(TRUE), Flag(FALSE), TextOf(NaN)}
         \/ v.text \notin {"numeral", "decimal"} /\ v = Text(v.text)
         \/ v.num \in 0..Cardinality(Index) /\ v = Array(v.num)
         \/ v.type = "number" /\ v.text \in {"numeral", "decimal", "long"} /\ v.num \in Int
         \/ /\ v.type = "string" /\ v.text \in {"numeral", "decimal", "long", "text"}
            /\ v.num \in Int
  BY Zenon DEF BodyValue
<1>2. CASE v \in {Missing, Null, Object}
  BY <1>1, <1>2, FormsAre, Zenon
<1>3. CASE v \in {Flag(TRUE), Flag(FALSE)}
  <2>1. v.type = "boolean" /\ v.text \in {"yes", "no"}
    BY <1>3, FormsAre, Zenon
  <2>2. v # Bad
    BY <2>1, FormsAre, Zenon
  <2> QED BY <1>1, <2>1, <2>2, Zenon
<1>4. CASE v.text \notin {"numeral", "decimal"} /\ v = Text(v.text)
  <2>1. \E t : v = Text(t)
    BY <1>4, Zenon
  <2>2. PICK t : v = Text(t)
    BY <2>1, Zenon
  <2>3. v.type = "string" /\ v.text = t
    BY <2>2, FormsAre, Zenon
  <2>4. v.text = "auto" => v.num = NoNumber
    BY <2>2, <2>3, FormsAre, Zenon
  <2>5. v # Bad
    BY <2>3, FormsAre, Zenon
  <2> QED BY <1>1, <2>3, <2>4, <2>5, Zenon
<1>5. CASE v.num \in 0..Cardinality(Index) /\ v = Array(v.num)
  <2>1. \E t : v = Array(t)
    BY <1>5, Zenon
  <2>2. PICK t : v = Array(t)
    BY <2>1, Zenon
  <2>3. v.type = "array" /\ v.text = ""
    BY <2>2, FormsAre, Zenon
  <2>4. v # Bad
    BY <2>3, FormsAre, Zenon
  <2> QED BY <1>1, <1>5, <2>3, <2>4, TwoPlaces, Zenon
<1>6. CASE v.type = "number" /\ v.text \in {"numeral", "decimal", "long"} /\ v.num \in Int
  <2>1. v # Bad
    BY <1>6, FormsAre, Zenon
  <2> QED BY <1>1, <1>6, <2>1, Zenon
<1>7. CASE /\ v.type = "string" /\ v.text \in {"numeral", "decimal", "long", "text"}
           /\ v.num \in Int
  <2>1. v # Bad
    BY <1>7, FormsAre, Zenon
  <2> QED BY <1>1, <1>7, <2>1, Zenon
<1>8. CASE v = TextOf(NaN)
  <2>1. v.type = "string" /\ v.text = "text"
    BY <1>8, FormsAre, Zenon
  <2>2. v # Bad
    BY <2>1, FormsAre, Zenon
  <2> QED BY <1>1, <2>1, <2>2, Zenon
<1>9. \/ v \in {Missing, Null, Object}
      \/ v \in {Flag(TRUE), Flag(FALSE)}
      \/ v = TextOf(NaN)
      \/ v.text \notin {"numeral", "decimal"} /\ v = Text(v.text)
      \/ v.num \in 0..Cardinality(Index) /\ v = Array(v.num)
      \/ v.type = "number" /\ v.text \in {"numeral", "decimal", "long"} /\ v.num \in Int
      \/ /\ v.type = "string" /\ v.text \in {"numeral", "decimal", "long", "text"}
         /\ v.num \in Int
  BY <1>1, Zenon
<1> QED BY <1>2, <1>3, <1>4, <1>5, <1>6, <1>7, <1>8, <1>9, Zenon

(* The casts, by the check of a row.                                       *)
LEMMA CastIs ==
  ASSUME NEW r, NEW v
  PROVE  /\ r.check = "flag" => Cast(r, v) = If(IsFlag(v), v)
         /\ r.check = "object" => Cast(r, v) = v
         /\ r.check = "array" => Cast(r, v) = If(v.type = "array", v)
         /\ r.check = "title" => Cast(r, v) = If(HasLength(Trimmed(v), 1), Trimmed(v))
         /\ r.check = "text" => Cast(r, v) = If(HasLength(v, 1), v)
         /\ r.check = "note" => Cast(r, v) = If(HasLength(v, 0), v)
         /\ r.check = "cash" => Cast(r, v) = Amount(v, MinCashInOut, MaxCashInOut)
         /\ r.check = "price" => Cast(r, v) = Amount(v, MinPrice, MaxPrice)
         /\ r.check = "quantity" => Cast(r, v) = Amount(v, MinQuantity, MaxQuantity)
         /\ r.check = "integer" => Cast(r, v) = If(IsInteger(v), v)
         /\ r.check = "sum" => Cast(r, v) = Sum(v)
         /\ r.check = "payment type" => Cast(r, v) = PaymentType(v)
         /\ r.check = "unit" => Cast(r, v) = If(IsOneOf(v, UnitWords, UnitCodes), v)
         /\ r.check = "tax" => Cast(r, v) = If(IsOneOf(v, TaxWords, TaxCodes), v)
         /\ r.check = "item tax" => Cast(r, v) = If(IsOneOf(v, TaxWords, TaxCodes), v)
<1>1. r.check = "flag" => Cast(r, v) = If(IsFlag(v), v)
  BY Zenon DEF Cast
<1>2. r.check = "object" => Cast(r, v) = v
  BY Zenon DEF Cast
<1>3. r.check = "array" => Cast(r, v) = If(v.type = "array", v)
  BY Zenon DEF Cast
<1>4. r.check = "title" => Cast(r, v) = If(HasLength(Trimmed(v), 1), Trimmed(v))
  BY Zenon DEF Cast
<1>5. r.check = "text" => Cast(r, v) = If(HasLength(v, 1), v)
  BY Zenon DEF Cast
<1>6. r.check = "note" => Cast(r, v) = If(HasLength(v, 0), v)
  BY Zenon DEF Cast
<1>7. r.check = "cash" => Cast(r, v) = Amount(v, MinCashInOut, MaxCashInOut)
  BY Zenon DEF Cast
<1>8. r.check = "price" => Cast(r, v) = Amount(v, MinPrice, MaxPrice)
  BY Zenon DEF Cast
<1>9. r.check = "quantity" => Cast(r, v) = Amount(v, MinQuantity, MaxQuantity)
  BY Zenon DEF Cast
<1>10. r.check = "integer" => Cast(r, v) = If(IsInteger(v), v)
  BY Zenon DEF Cast
<1>11. r.check = "sum" => Cast(r, v) = Sum(v)
  BY Zenon DEF Cast
<1>12. r.check = "payment type" => Cast(r, v) = PaymentType(v)
  BY Zenon DEF Cast
<1>13. r.check = "unit" => Cast(r, v) = If(IsOneOf(v, UnitWords, UnitCodes), v)
  BY Zenon DEF Cast
<1>14. r.check = "tax" => Cast(r, v) = If(IsOneOf(v, TaxWords, TaxCodes), v)
  BY Zenon DEF Cast
<1>15. r.check = "item tax" => Cast(r, v) = If(IsOneOf(v, TaxWords, TaxCodes), v)
  BY DEF Cast
<1> QED BY <1>1, <1>2, <1>3, <1>4, <1>5, <1>6, <1>7, <1>8, <1>9, <1>10, <1>11,
            <1>12, <1>13, <1>14, <1>15, Zenon

LEMMA IfFits ==
  ASSUME NEW v, v # Bad, NEW test \in BOOLEAN
  PROVE  /\ If(test, v) # Bad <=> test
         /\ If(test, v) # Bad => If(test, v) = v
  BY Zenon DEF If

LEMMA TrimmedIs ==
  ASSUME NEW v \in BodyValue
  PROVE  /\ Trimmed(v) \in JsonValue /\ Trimmed(v) # Bad
         /\ Trimmed(v).type = v.type /\ Trimmed(v).num = v.num
         /\ Trimmed(v).text = IF v.text = "blank" THEN "" ELSE v.text
<1>1. v \in JsonValue /\ v # Bad
  BY BodyValueForms
<1>2. CASE v.text = "blank"
  <2>1. Trimmed(v) = [v EXCEPT !.text = ""]
    BY <1>2, Zenon DEF Trimmed
  <2>2. /\ Trimmed(v) \in JsonValue /\ Trimmed(v).type = v.type
        /\ Trimmed(v).num = v.num /\ Trimmed(v).text = ""
    BY <1>1, <2>1 DEF JsonValue, JsonText
  <2>3. Trimmed(v) # Bad
    BY <2>2, FormsAre, Zenon
  <2> QED BY <1>2, <2>2, <2>3, Zenon
<1>3. CASE v.text # "blank"
  BY <1>1, <1>3, Zenon DEF Trimmed
<1> QED BY <1>2, <1>3

-----------------------------------------------------------------------------
(* Which values get through each filter, and that they stay what they are. *)

IsFlagText(v) ==
    v.type \in {"boolean", "number"} \/ (v.type = "string" /\ v.text \in {"yes", "no"})

LEMMA FlagFits ==
  ASSUME NEW r, r.check = "flag", NEW v \in BodyValue
  PROVE  /\ Cast(r, v) # Bad <=> IsFlagText(v)
         /\ Cast(r, v) # Bad => Cast(r, v) = v
<1>1. Cast(r, v) = If(IsFlag(v), v) /\ v # Bad
  BY CastIs, BodyValueForms, Zenon
<1>2. IsFlag(v) \in BOOLEAN /\ (IsFlag(v) <=> IsFlagText(v))
  BY Zenon DEF IsFlag, IsFlagText
<1> QED BY <1>1, <1>2, IfFits, Zenon

LEMMA ObjectFits ==
  ASSUME NEW r, r.check = "object", NEW v \in BodyValue
  PROVE  Cast(r, v) # Bad /\ Cast(r, v) = v
<1>1. Cast(r, v) = v /\ v # Bad
  BY CastIs, BodyValueForms, Zenon
<1> QED BY <1>1, Zenon

LEMMA ArrayFits ==
  ASSUME NEW r, r.check = "array", NEW v \in BodyValue
  PROVE  /\ Cast(r, v) # Bad <=> v.type = "array"
         /\ Cast(r, v) # Bad => Cast(r, v) = v
<1>1. Cast(r, v) = If(v.type = "array", v) /\ v # Bad
  BY CastIs, BodyValueForms, Zenon
<1> QED BY <1>1, IfFits, Zenon

LEMMA TitleFits ==
  ASSUME NEW r, r.check = "title", NEW v \in BodyValue
  PROVE  Cast(r, v) # Bad <=> IsText(v) /\ v.text \notin {"", "blank", "long"}
<1> DEFINE t == Trimmed(v)
<1>1. Cast(r, v) = If(HasLength(t, 1), t)
  BY CastIs, Zenon
<1>2. t # Bad /\ t.type = v.type /\ t.text = IF v.text = "blank" THEN "" ELSE v.text
  BY TrimmedIs, Zenon
<1>3. HasLength(t, 1) \in BOOLEAN
  BY DEF HasLength, IsText
<1>4. HasLength(t, 1) <=> IsText(t) /\ t.text \notin {"", "long"}
  BY DEF HasLength
<1>5. HasLength(t, 1) <=> IsText(v) /\ v.text \notin {"", "blank", "long"}
  BY <1>2, <1>4, Zenon DEF IsText
<1> QED BY <1>1, <1>2, <1>3, <1>5, IfFits, Zenon

LEMMA TextFits ==
  ASSUME NEW r, r.check = "text", NEW v \in BodyValue
  PROVE  /\ Cast(r, v) # Bad <=> IsText(v) /\ v.text \notin {"", "long"}
         /\ Cast(r, v) # Bad => Cast(r, v) = v
<1>1. Cast(r, v) = If(HasLength(v, 1), v) /\ v # Bad
  BY CastIs, BodyValueForms, Zenon
<1>2. HasLength(v, 1) \in BOOLEAN
  BY DEF HasLength, IsText
<1>3. HasLength(v, 1) <=> IsText(v) /\ v.text \notin {"", "long"}
  BY DEF HasLength
<1> QED BY <1>1, <1>2, <1>3, IfFits, Zenon

LEMMA NoteFits ==
  ASSUME NEW r, r.check = "note", NEW v \in BodyValue
  PROVE  /\ Cast(r, v) # Bad <=> IsText(v) /\ v.text # "long"
         /\ Cast(r, v) # Bad => Cast(r, v) = v
<1>1. Cast(r, v) = If(HasLength(v, 0), v) /\ v # Bad
  BY CastIs, BodyValueForms, Zenon
<1>2. HasLength(v, 0) \in BOOLEAN
  BY DEF HasLength, IsText
<1>3. HasLength(v, 0) <=> IsText(v) /\ v.text # "long"
  BY DEF HasLength
<1> QED BY <1>1, <1>2, <1>3, IfFits, Zenon

Fitting(v, min, max) ==
    IsText(v) /\ v.num # NoNumber /\ (v.num = NaN \/ v.num \in min..max)

LEMMA AmountFits ==
  ASSUME NEW v \in BodyValue, NEW min \in Int, NEW max \in Int
  PROVE  /\ Amount(v, min, max) # Bad <=> Fitting(v, min, max)
         /\ Amount(v, min, max) # Bad => Amount(v, min, max) = v
<1>1. v # Bad /\ v.num \in Int \cup {NaN, NoNumber}
  BY BodyValueForms DEF JsonValue
<1> DEFINE fits == IsNumber(v) /\ Between(v, min, max)
<1>2. fits \in BOOLEAN
  BY DEF IsNumber, IsText
<1>3. fits <=> Fitting(v, min, max)
  <2>1. v.num # NoNumber => (Between(v, min, max) <=> v.num = NaN \/ v.num \in min..max)
    BY <1>1 DEF Between
  <2> QED BY <2>1, Zenon DEF IsNumber, Fitting
<1>4. Amount(v, min, max) = If(fits, v)
  BY Zenon DEF Amount
<1> HIDE DEF fits
<1> QED BY <1>1, <1>2, <1>3, <1>4, IfFits, Zenon

Whole(v) ==
    /\ IsText(v) /\ v.num # NoNumber /\ v.num # NaN
    /\ ~(v.type = "string" /\ v.text = "decimal")

LEMMA IntegerFits ==
  ASSUME NEW r, r.check = "integer", NEW v \in BodyValue
  PROVE  /\ Cast(r, v) # Bad <=> Whole(v)
         /\ Cast(r, v) # Bad => Cast(r, v) = v
<1>1. Cast(r, v) = If(IsInteger(v), v) /\ v # Bad
  BY CastIs, BodyValueForms, Zenon
<1>2. IsInteger(v) \in BOOLEAN
  BY DEF IsInteger, IsNumber, IsText
<1>3. IsInteger(v) <=> Whole(v)
  BY Zenon DEF IsInteger, IsNumber, Whole
<1> QED BY <1>1, <1>2, <1>3, IfFits, Zenon

LEMMA SumFits ==
  ASSUME NEW r, r.check = "sum", NEW v \in BodyValue
  PROVE  /\ Cast(r, v) \in JsonValue
         /\ Cast(r, v) # Bad <=>
              v.type \in {"string", "number"} /\ (v.num # NoNumber \/ v.text = "auto")
         /\ Cast(r, v) # Bad /\ v.num # NoNumber => Cast(r, v) = v
<1>1. Cast(r, v) = Sum(v) /\ v # Bad /\ v \in JsonValue /\ Bad \in JsonValue
  <2>1. Bad \in JsonValue
    BY DEF Bad, JsonValue, JsonType, JsonText
  <2> QED BY <2>1, CastIs, BodyValueForms, Zenon
<1>2. CASE IsText(v) /\ v.text = "auto"
  <2>1. Sum(v) = [v EXCEPT !.num = -1]
    BY <1>2, Zenon DEF Sum
  <2>2. Sum(v) \in JsonValue /\ Sum(v).text = "auto"
    BY <1>1, <1>2, <2>1 DEF JsonValue
  <2>3. Sum(v) # Bad
    BY <2>2, FormsAre, Zenon
  <2>4. v.num = NoNumber
    BY <1>2, BodyValueForms
  <2>5. v.type # "boolean"
    BY <1>2, BodyValueForms, Zenon
  <2>6. v.type \in {"string", "number"}
    BY <1>2, <2>5, Zenon DEF IsText
  <2> QED BY <1>1, <1>2, <2>2, <2>3, <2>4, <2>6, Zenon
<1>3. CASE ~(IsText(v) /\ v.text = "auto")
  <2> DEFINE fits == v.type \in {"string", "number"} /\ v.num # NoNumber
  <2>1. Sum(v) = If(fits, v)
    BY <1>3, Zenon DEF Sum
  <2>2. v.type \in {"string", "number"} => v.text # "auto"
    BY <1>3, Zenon DEF IsText
  <2>3. fits \in BOOLEAN
    OBVIOUS
  <2>4. If(fits, v) \in JsonValue
    BY <1>1, Zenon DEF If
  <2>5. fits <=> v.type \in {"string", "number"} /\ (v.num # NoNumber \/ v.text = "auto")
    BY <2>2, Zenon
  <2> HIDE DEF fits
  <2> QED BY <1>1, <2>1, <2>3, <2>4, <2>5, IfFits, Zenon
<1> QED BY <1>2, <1>3

(* One of the words of a cast map, or one of its numbers.                  *)
Picks(v, words, codes) ==
    IsText(v) /\ (v.text \in words \/ (v.text = "numeral" /\ v.num \in codes))

PicksCash(v) == Picks(v, {"cash"}, {CashCode})
PicksElectronic(v) == Picks(v, {"electronically"}, {ElectronicCode})

LEMMA WordFits ==
  ASSUME NEW v \in BodyValue, NEW words, "" \notin words, "blank" \notin words, NEW codes
  PROVE  /\ IsOneOf(v, words, codes) \in BOOLEAN
         /\ IsOneOf(v, words, codes) <=> Picks(v, words, codes)
<1>1. Trimmed(v).text = IF v.text = "blank" THEN "" ELSE v.text
  BY TrimmedIs, Zenon
<1>2. Trimmed(v).text \in words <=> v.text \in words
  BY <1>1, Zenon
<1>3. IsOneOf(v, words, codes) \in BOOLEAN
  BY DEF IsOneOf, IsText
<1> QED BY <1>2, <1>3, Zenon DEF IsOneOf, Picks

LEMMA TypeFits ==
  ASSUME NEW r, r.check = "payment type", NEW v \in BodyValue
  PROVE  /\ Cast(r, v) # Bad <=> PicksCash(v) \/ PicksElectronic(v)
         /\ Cast(r, v) # Bad => (Cast(r, v).text = "electronically" <=> PicksElectronic(v))
<1>1. Cast(r, v) = PaymentType(v)
  BY CastIs, Zenon
<1>2. /\ "" \notin {"cash"} /\ "blank" \notin {"cash"}
      /\ "" \notin {"electronically"} /\ "blank" \notin {"electronically"}
  BY Zenon
<1>3. /\ IsCash(v) <=> PicksCash(v)
      /\ IsElectronic(v) <=> PicksElectronic(v)
      /\ IsElectronic(v) \in BOOLEAN
  BY <1>2, WordFits, Zenon DEF IsCash, IsElectronic, PicksCash, PicksElectronic
<1>4. ~(PicksCash(v) /\ PicksElectronic(v))
  <2>1. CashCode # ElectronicCode
    BY DetailsAssumption DEF DetailsAssumption
  <2> QED BY <2>1, Zenon DEF PicksCash, PicksElectronic, Picks
<1>5. /\ Text("cash").text = "cash" /\ Text("electronically").text = "electronically"
      /\ Text("cash") # Bad /\ Text("electronically") # Bad
  BY FormsAre, Zenon
<1>6. CASE IsCash(v)
  <2>1. PaymentType(v) = Text("cash")
    BY <1>6, Zenon DEF PaymentType
  <2> QED BY <1>1, <1>3, <1>4, <1>5, <1>6, <2>1, Zenon
<1>7. CASE ~IsCash(v)
  <2>1. PaymentType(v) = If(IsElectronic(v), Text("electronically"))
    BY <1>7, Zenon DEF PaymentType
  <2>2. /\ PaymentType(v) # Bad <=> IsElectronic(v)
        /\ PaymentType(v) # Bad => PaymentType(v) = Text("electronically")
    BY <1>3, <1>5, <2>1, IfFits, Zenon
  <2> QED BY <1>1, <1>3, <1>5, <1>7, <2>2, Zenon
<1> QED BY <1>6, <1>7

LEMMA WordsFit ==
  ASSUME NEW r, NEW v \in BodyValue
  PROVE  /\ r.check = "unit" => (Cast(r, v) # Bad <=> Picks(v, {"piece"}, UnitCodes))
         /\ r.check \in {"tax", "item tax"} =>
              /\ Cast(r, v) # Bad <=> Picks(v, {"no", "vat10"}, TaxCodes)
              /\ Cast(r, v) # Bad => Cast(r, v) # NotFound
<1>1. /\ "" \notin UnitWords /\ "blank" \notin UnitWords
      /\ "" \notin TaxWords /\ "blank" \notin TaxWords
  BY Zenon DEF UnitWords, TaxWords
<1>2. v # Bad
  BY BodyValueForms, Zenon
<1>3. r.check = "unit" => Cast(r, v) = If(IsOneOf(v, UnitWords, UnitCodes), v)
  BY CastIs, Zenon
<1>4. r.check \in {"tax", "item tax"} => Cast(r, v) = If(IsOneOf(v, TaxWords, TaxCodes), v)
  BY CastIs, Zenon
<1>5. /\ IsOneOf(v, UnitWords, UnitCodes) \in BOOLEAN
      /\ IsOneOf(v, UnitWords, UnitCodes) <=> Picks(v, {"piece"}, UnitCodes)
  BY <1>1, WordFits, Zenon DEF UnitWords
<1>6. /\ IsOneOf(v, TaxWords, TaxCodes) \in BOOLEAN
      /\ IsOneOf(v, TaxWords, TaxCodes) <=> Picks(v, {"no", "vat10"}, TaxCodes)
  BY <1>1, WordFits, Zenon DEF TaxWords
<1>7. Picks(v, {"no", "vat10"}, TaxCodes) => v # NotFound
  BY FormsAre, Zenon DEF Picks, IsText, NotFound
<1> QED BY <1>2, <1>3, <1>4, <1>5, <1>6, <1>7, IfFits, Zenon

-----------------------------------------------------------------------------
(* What is put into the details is a value.                                *)

LEMMA BadIsValue == Bad \in JsonValue /\ NotFound \in JsonValue /\ Object \in JsonValue
  BY DEF Bad, NotFound, Missing, Object, JsonValue, JsonType, JsonText

LEMMA IfTyped ==
  ASSUME NEW v \in JsonValue, NEW test PROVE If(test, v) \in JsonValue
  BY BadIsValue, Zenon DEF If

LEMMA CastTyped ==
  ASSUME NEW r, r.check \in Checks, r.check # "item", NEW v \in BodyValue
  PROVE  Cast(r, v) \in JsonValue
<1>1. v \in JsonValue /\ Trimmed(v) \in JsonValue
  BY BodyValueForms, TrimmedIs, Zenon
<1>2. \A min, max : Amount(v, min, max) \in JsonValue
  BY <1>1, IfTyped, Zenon DEF Amount
<1>3. PaymentType(v) \in JsonValue
  <2>1. Text("cash") \in JsonValue /\ Text("electronically") \in JsonValue
    BY DEF Text, JsonValue, JsonType, JsonText
  <2>2. If(IsElectronic(v), Text("electronically")) \in JsonValue
    BY <2>1, IfTyped, Zenon
  <2> QED BY <2>1, <2>2, Zenon DEF PaymentType
<1>7. \A test : If(test, v) \in JsonValue /\ If(test, Trimmed(v)) \in JsonValue
  BY <1>1, IfTyped, Zenon
<1>4. r.check \in {"flag", "object", "array", "title", "text", "note"} =>
         Cast(r, v) \in JsonValue
  <2>1. r.check = "flag" => Cast(r, v) \in JsonValue
    <3>1. r.check = "flag" => Cast(r, v) = If(IsFlag(v), v)
      BY CastIs, Zenon
    <3> QED BY <1>7, <3>1, Zenon
  <2>2. r.check = "object" => Cast(r, v) \in JsonValue
    <3>1. r.check = "object" => Cast(r, v) = v
      BY CastIs, Zenon
    <3> QED BY <1>1, <3>1, Zenon
  <2>3. r.check = "array" => Cast(r, v) \in JsonValue
    <3>1. r.check = "array" => Cast(r, v) = If(v.type = "array", v)
      BY CastIs, Zenon
    <3> QED BY <1>7, <3>1, Zenon
  <2>4. r.check = "title" => Cast(r, v) \in JsonValue
    <3>1. r.check = "title" => Cast(r, v) = If(HasLength(Trimmed(v), 1), Trimmed(v))
      BY CastIs, Zenon
    <3> QED BY <1>7, <3>1, Zenon
  <2>5. r.check = "text" => Cast(r, v) \in JsonValue
    <3>1. r.check = "text" => Cast(r, v) = If(HasLength(v, 1), v)
      BY CastIs, Zenon
    <3> QED BY <1>7, <3>1, Zenon
  <2>6. r.check = "note" => Cast(r, v) \in JsonValue
    <3>1. r.check = "note" => Cast(r, v) = If(HasLength(v, 0), v)
      BY CastIs, Zenon
    <3> QED BY <1>7, <3>1, Zenon
  <2> QED BY <2>1, <2>2, <2>3, <2>4, <2>5, <2>6, Zenon
<1>5. r.check \in {"cash", "price", "quantity", "integer", "sum"} =>
         Cast(r, v) \in JsonValue
  <2>1. r.check = "sum" => Cast(r, v) \in JsonValue
    BY SumFits, Zenon
  <2>2. r.check = "integer" => Cast(r, v) \in JsonValue
    <3>1. r.check = "integer" => Cast(r, v) = If(IsInteger(v), v)
      BY CastIs, Zenon
    <3> QED BY <1>7, <3>1, Zenon
  <2>3. r.check = "cash" => Cast(r, v) \in JsonValue
    <3>1. r.check = "cash" => Cast(r, v) = Amount(v, MinCashInOut, MaxCashInOut)
      BY CastIs, Zenon
    <3> QED BY <1>2, <3>1, Zenon
  <2>4. r.check = "price" => Cast(r, v) \in JsonValue
    <3>1. r.check = "price" => Cast(r, v) = Amount(v, MinPrice, MaxPrice)
      BY CastIs, Zenon
    <3> QED BY <1>2, <3>1, Zenon
  <2>5. r.check = "quantity" => Cast(r, v) \in JsonValue
    <3>1. r.check = "quantity" => Cast(r, v) = Amount(v, MinQuantity, MaxQuantity)
      BY CastIs, Zenon
    <3> QED BY <1>2, <3>1, Zenon
  <2> QED BY <2>1, <2>2, <2>3, <2>4, <2>5, Zenon
<1>6. r.check \in {"payment type", "unit", "tax", "item tax"} => Cast(r, v) \in JsonValue
  BY <1>3, <1>7, CastIs, Zenon
<1> QED BY <1>4, <1>5, <1>6, Zenon DEF Checks

-----------------------------------------------------------------------------
(* What a body says of a row, whatever has been taken before it.           *)

Bodies == {b \in [Path -> BodyValue] : Nested(b)}

There(b, p) == b[p].type \notin {"missing", "null"}

(* The code gets to the key.                                               *)
Reached(b, p) ==
    /\ InArray(p) => Place(p[2]) < b[<<p[1]>>].num
    /\ Len(p) >= 2 /\ ~InArray(p) => There(b, Front(p))
    /\ p[1] = "document" /\ Len(p) = 3 /\ p[3] # "separator" =>
         ~IsTrue(b[<<"document", p[2], "separator">>])
    /\ Len(p) >= 2 /\ p[2] = "electroPaymentInfo" =>
         There(b, <<"payment">>) /\ PicksElectronic(b[<<"payment", "type">>])

Above(b, p) == IF Len(p) = 1 THEN Object ELSE b[Front(p)]

(* The value of the key, Bad when its parent is of a wrong type.           *)
Found(b, r) ==
    IF r.check = "item" THEN Object
    ELSE IF Above(b, r.path).type = "object" THEN b[r.path]
    ELSE IF Above(b, r.path).type = "null" THEN Missing
    ELSE Bad

IsFound(b, r) == Found(b, r) = Bad \/ Found(b, r).type \notin {"missing", "null"}

Lacking(b, r) == r.need \/ (r.check = "item tax" /\ ~There(b, <<"tax">>))

AmountsFit(b, p) ==
    /\ Between(b[Append(p, "price")], MinMaxPrice, MaxPrice)
    /\ Between(b[Append(p, "quantity")], MinQuantity, MaxQuantity)

(* What is put into the details of it, or Bad.                             *)
Meant(b, r) ==
    IF Found(b, r) = Bad THEN Bad
    ELSE IF r.check = "item" THEN If(AmountsFit(b, r.path), Found(b, r))
    ELSE Cast(r, Found(b, r))

RowSound(b, r) ==
    Reached(b, r.path) => IF IsFound(b, r) THEN Meant(b, r) # Bad ELSE ~Lacking(b, r)

Wanted(b, r) ==
    IF Reached(b, r.path) /\ IsFound(b, r) THEN Meant(b, r) ELSE NotFound

KeySound(b, r) == IF There(b, r.path) THEN Cast(r, b[r.path]) # Bad ELSE ~Lacking(b, r)

LEMMA BodyForms ==
  ASSUME NEW b \in Bodies, NEW p \in Path
  PROVE  /\ b[p] \in BodyValue /\ b[p] \in JsonValue /\ b[p] # Bad
         /\ b[p].type = "missing" => b[p] = Missing
         /\ There(b, p) <=> b[p].type \notin {"missing", "null"}
         /\ There(b, p) => b[p] # NotFound
<1>1. b[p] \in BodyValue
  BY DEF Bodies
<1>2. b[p] = NotFound => b[p].type = "missing"
  BY FormsAre, Zenon DEF NotFound
<1> QED BY <1>1, <1>2, BodyValueForms, Zenon DEF There

(* A key of a null is not there.                                           *)
LEMMA NullIsEmpty ==
  ASSUME NEW b \in Bodies, NEW p \in Path, Len(p) > 1,
         b[Front(p)].type \notin {"object", "array"}
  PROVE  b[p] = Missing
<1>1. b[p] # Missing => Holds(b, p)
  BY Zenon DEF Bodies, Nested
<1>2. ~Holds(b, p)
  BY Zenon DEF Holds, Element, Parent
<1> QED BY <1>1, <1>2

LEMMA FoundIs ==
  ASSUME NEW b \in Bodies, NEW r, r.check # "item", r.path \in Path,
         Len(r.path) \in {1, 2, 3}
  PROVE  /\ Above(b, r.path).type = "object" =>
              Found(b, r) = b[r.path] /\ (IsFound(b, r) <=> There(b, r.path))
         /\ Above(b, r.path).type = "null" =>
              ~IsFound(b, r) /\ ~There(b, r.path)
         /\ Above(b, r.path).type \notin {"object", "null"} =>
              Found(b, r) = Bad /\ IsFound(b, r) /\ Meant(b, r) = Bad
<1> DEFINE p == r.path
           a == Above(b, p)
<1>1. b[p] # Bad /\ (There(b, p) <=> b[p].type \notin {"missing", "null"})
  BY BodyForms, Zenon
<1>2. Missing # Bad /\ Missing.type = "missing"
  BY FormsAre, Zenon
<1>3. a.type = "object" => Found(b, r) = b[p]
  BY Zenon DEF Found
<1>4. a.type = "null" => Found(b, r) = Missing
  BY Zenon DEF Found
<1>5. a.type = "null" => b[p] = Missing
  <2>1. Len(p) = 1 => a.type = "object"
    BY FormsAre, Zenon DEF Above
  <2>2. Len(p) # 1 => Len(p) > 1
    OBVIOUS
  <2>3. Len(p) # 1 => a = b[Front(p)]
    BY Zenon DEF Above
  <2> QED BY <2>1, <2>2, <2>3, NullIsEmpty, Zenon
<1>6. a.type \notin {"object", "null"} => Found(b, r) = Bad
  BY Zenon DEF Found
<1>7. Found(b, r) = Bad => IsFound(b, r) /\ Meant(b, r) = Bad
  BY Zenon DEF IsFound, Meant
<1>8. Found(b, r) = b[p] => (IsFound(b, r) <=> There(b, p))
  BY <1>1, Zenon DEF IsFound
<1>9. Found(b, r) = Missing => ~IsFound(b, r)
  BY <1>2, Zenon DEF IsFound
<1>10. b[p] = Missing => ~There(b, p)
  BY <1>1, <1>2, Zenon
<1> HIDE DEF a, p
<1> QED BY <1>3, <1>4, <1>5, <1>6, <1>7, <1>8, <1>9, <1>10, Zenon DEF a, p

(* A row is sound when its place is not reached, or it is there as it      *)
(* should be, or may be left out.                                          *)
LEMMA SoundMeans ==
  ASSUME NEW b \in Bodies, NEW r, r.check # "item", r.path \in Path,
         Len(r.path) \in {1, 2, 3}
  PROVE  RowSound(b, r) <=>
            (Reached(b, r.path) =>
               \/ Above(b, r.path).type = "object" /\ KeySound(b, r)
               \/ Above(b, r.path).type = "null" /\ ~Lacking(b, r))
<1> DEFINE p == r.path
           a == Above(b, p)
<1>1. b[p] # Bad
  BY BodyForms, Zenon
<1>2. CASE a.type = "object"
  <2>1. Found(b, r) = b[p] /\ (IsFound(b, r) <=> There(b, p))
    BY <1>2, FoundIs, Zenon
  <2>2. Meant(b, r) = Cast(r, b[p])
    BY <1>1, <2>1, Zenon DEF Meant
  <2> QED BY <1>2, <2>1, <2>2, Zenon DEF RowSound, KeySound
<1>3. CASE a.type = "null"
  <2>1. ~IsFound(b, r)
    BY <1>3, FoundIs, Zenon
  <2> QED BY <1>3, <2>1, Zenon DEF RowSound
<1>4. CASE a.type \notin {"object", "null"}
  <2>1. IsFound(b, r) /\ Meant(b, r) = Bad
    BY <1>4, FoundIs, Zenon
  <2> QED BY <1>4, <2>1, Zenon DEF RowSound
<1> QED BY <1>2, <1>3, <1>4, Zenon

(* What is taken of a sound row.                                           *)
LEMMA Settled ==
  ASSUME NEW b \in Bodies, NEW r, Plain(r.check), r.path \in Path,
         Len(r.path) \in {1, 2, 3}, RowSound(b, r)
  PROVE  /\ ~Reached(b, r.path) => Wanted(b, r) = NotFound
         /\ Reached(b, r.path) /\ ~There(b, r.path) => Wanted(b, r) = NotFound /\ ~r.need
         /\ Reached(b, r.path) /\ There(b, r.path) =>
              /\ Above(b, r.path).type = "object"
              /\ Wanted(b, r) = Cast(r, b[r.path]) /\ Cast(r, b[r.path]) # Bad
<1> DEFINE p == r.path
           a == Above(b, p)
<1>1. r.check # "item" /\ r.check # "item tax"
  BY Zenon DEF Plain
<1>2. b[p] # Bad
  BY BodyForms, Zenon
<1>3. Lacking(b, r) <=> r.need
  BY <1>1, Zenon DEF Lacking
<1>4. ~Reached(b, p) => Wanted(b, r) = NotFound
  BY Zenon DEF Wanted
<1>5. ASSUME Reached(b, p) PROVE a.type \in {"object", "null"}
  BY <1>1, <1>5, SoundMeans, Zenon
<1>6. ASSUME Reached(b, p), a.type = "object"
      PROVE  /\ ~There(b, p) => Wanted(b, r) = NotFound /\ ~r.need
             /\ There(b, p) => Wanted(b, r) = Cast(r, b[p]) /\ Cast(r, b[p]) # Bad
  <2>1. Found(b, r) = b[p] /\ (IsFound(b, r) <=> There(b, p))
    BY <1>1, <1>6, FoundIs, Zenon
  <2>2. Meant(b, r) = Cast(r, b[p])
    BY <1>1, <1>2, <2>1, Zenon DEF Meant
  <2>3. IF IsFound(b, r) THEN Meant(b, r) # Bad ELSE ~Lacking(b, r)
    BY <1>6, Zenon DEF RowSound
  <2>4. Wanted(b, r) = IF IsFound(b, r) THEN Meant(b, r) ELSE NotFound
    BY <1>6, Zenon DEF Wanted
  <2> QED BY <1>3, <2>1, <2>2, <2>3, <2>4, Zenon
<1>7. ASSUME Reached(b, p), a.type = "null"
      PROVE  ~There(b, p) /\ Wanted(b, r) = NotFound /\ ~r.need
  <2>1. ~IsFound(b, r) /\ ~There(b, p)
    BY <1>1, <1>7, FoundIs, Zenon
  <2>2. ~Lacking(b, r)
    BY <1>7, <2>1, Zenon DEF RowSound
  <2> QED BY <1>3, <2>1, <2>2, Zenon DEF Wanted
<1> HIDE DEF a, p
<1> QED BY <1>4, <1>5, <1>6, <1>7, Zenon DEF a, p

-----------------------------------------------------------------------------
(* What has been taken before a row, and what a row can tell from it.      *)

(* Every row comes after those it depends on.                              *)
Ordered(R) == \A n \in 1..Len(R) : Deps(R, n) /\ R[n].path \in Path

(* The rows before the n-th are sound and have been taken as the body      *)
(* means them, the others have not been taken.                             *)
TakenBefore(b, R, n, d) ==
    /\ \A i \in 1..Len(R) : i < n => RowSound(b, R[i]) /\ d[R[i].path] = Wanted(b, R[i])
    /\ \A i \in 1..Len(R) : i >= n => d[R[i].path] = NotFound

LEMMA DepsLength ==
  ASSUME NEW R, NEW n, Deps(R, n) PROVE Len(R[n].path) \in {1, 2, 3}
  BY Zenon DEF Deps

SameAt(d, b, q) == d[q] = b[q]
SameTypeAt(d, b, q) == d[q].text = "electronically" <=> PicksElectronic(b[q])

IsTaken(b, d, q, c, x, r) ==
    /\ r.check = c /\ r.path = q /\ r.need = x /\ q \in Path
    /\ Len(q) \in {1, 2, 3} /\ RowSound(b, r) /\ d[q] = Wanted(b, r)

LEMMA EarlierTaken ==
  ASSUME NEW b \in Bodies, NEW R \in Seq(AnyRow), Ordered(R), NEW n \in 1..Len(R) + 1, NEW d,
         TakenBefore(b, R, n, d), NEW q, NEW c, NEW x, Earlier(R, n, q, c, x), Plain(c)
  PROVE  \E r : IsTaken(b, d, q, c, x, r)
<1>1. PICK i \in 1..n - 1 : IsRow(R[i], q, c, x)
  BY Zenon DEF Earlier
<1>2. i \in 1..Len(R) /\ i < n
  OBVIOUS
<1>3. R[i].check = c /\ R[i].path = q /\ R[i].need = x
  BY <1>1, Zenon DEF IsRow
<1>4. RowSound(b, R[i]) /\ d[R[i].path] = Wanted(b, R[i])
  BY <1>2, Zenon DEF TakenBefore
<1>5. R[i].path \in Path /\ Len(R[i].path) \in {1, 2, 3}
  BY <1>2, DepsLength, Zenon DEF Ordered
<1>6. IsTaken(b, d, q, c, x, R[i])
  BY <1>3, <1>4, <1>5, Zenon DEF IsTaken
<1> QED BY <1>6, Zenon

LEMMA EarlierObjectTaken ==
  ASSUME NEW b \in Bodies, NEW R \in Seq(AnyRow), Ordered(R), NEW n \in 1..Len(R) + 1, NEW d,
         TakenBefore(b, R, n, d), NEW q, NEW x, Earlier(R, n, q, "object", x)
  PROVE  /\ d[q] # NotFound <=> Reached(b, q) /\ There(b, q)
         /\ Reached(b, q) /\ x => There(b, q)
<1>0. PICK r : IsTaken(b, d, q, "object", x, r)
  BY EarlierTaken, PlainChecks, Zenon
<1>1. /\ r.check = "object" /\ r.path = q /\ r.need = x /\ q \in Path
      /\ Len(q) \in {1, 2, 3} /\ RowSound(b, r) /\ d[q] = Wanted(b, r)
  BY <1>0, Zenon DEF IsTaken
<1>2. Plain(r.check)
  BY <1>1, PlainChecks, Zenon
<1>3. /\ ~Reached(b, q) => d[q] = NotFound
      /\ Reached(b, q) /\ ~There(b, q) => d[q] = NotFound /\ ~x
      /\ Reached(b, q) /\ There(b, q) => d[q] = Cast(r, b[q])
  BY <1>1, <1>2, Settled, Zenon
<1>4. b[q] \in BodyValue /\ (There(b, q) => b[q] # NotFound)
  BY <1>1, BodyForms, Zenon
<1>5. Cast(r, b[q]) = b[q]
  BY <1>1, <1>4, ObjectFits, Zenon
<1> QED BY <1>3, <1>4, <1>5, Zenon

LEMMA EarlierFlagTaken ==
  ASSUME NEW b \in Bodies, NEW R \in Seq(AnyRow), Ordered(R), NEW n \in 1..Len(R) + 1, NEW d,
         TakenBefore(b, R, n, d), NEW q, NEW x, Earlier(R, n, q, "flag", x), Reached(b, q)
  PROVE  IsTrue(d[q]) <=> IsTrue(b[q])
<1>0. PICK r : IsTaken(b, d, q, "flag", x, r)
  BY EarlierTaken, PlainChecks, Zenon
<1>1. /\ r.check = "flag" /\ r.path = q /\ r.need = x /\ q \in Path
      /\ Len(q) \in {1, 2, 3} /\ RowSound(b, r) /\ d[q] = Wanted(b, r)
  BY <1>0, Zenon DEF IsTaken
<1>2. Plain(r.check)
  BY <1>1, PlainChecks, Zenon
<1>3. /\ ~There(b, q) => d[q] = NotFound
      /\ There(b, q) => d[q] = Cast(r, b[q]) /\ Cast(r, b[q]) # Bad
  BY <1>1, <1>2, Settled, Zenon
<1>4. b[q] \in BodyValue
  BY <1>1, BodyForms, Zenon
<1>5. There(b, q) => d[q] = b[q]
  BY <1>1, <1>3, <1>4, FlagFits, Zenon
<1>6. ASSUME ~There(b, q) PROVE ~IsTrue(d[q]) /\ ~IsTrue(b[q])
  <2>1. /\ Missing.num = NoNumber /\ Missing.text = "" /\ Null.num = NoNumber /\ Null.text = ""
    BY FormsAre, Zenon
  <2>2. ~IsTrue(Missing) /\ ~IsTrue(Null)
    BY <2>1, MarksDiffer, Zenon DEF IsTrue
  <2>3. b[q] = Missing \/ b[q] = Null
    BY <1>4, <1>6, BodyValueForms, Zenon DEF There
  <2> QED BY <1>3, <1>6, <2>2, <2>3, Zenon DEF NotFound
<1> QED BY <1>5, <1>6, Zenon

LEMMA EarlierArrayTaken ==
  ASSUME NEW b \in Bodies, NEW R \in Seq(AnyRow), Ordered(R), NEW n \in 1..Len(R) + 1, NEW d,
         TakenBefore(b, R, n, d), NEW q, Earlier(R, n, q, "array", TRUE), Reached(b, q)
  PROVE  SameAt(d, b, q) /\ b[q].type = "array"
<1>0. PICK r : IsTaken(b, d, q, "array", TRUE, r)
  BY EarlierTaken, PlainChecks, Zenon
<1>1. /\ r.check = "array" /\ r.path = q /\ r.need = TRUE /\ q \in Path
      /\ Len(q) \in {1, 2, 3} /\ RowSound(b, r) /\ d[q] = Wanted(b, r)
  BY <1>0, Zenon DEF IsTaken
<1>2. Plain(r.check)
  BY <1>1, PlainChecks, Zenon
<1>3. d[q] = Cast(r, b[q]) /\ Cast(r, b[q]) # Bad
  BY <1>1, <1>2, Settled, Zenon
<1>4. b[q] \in BodyValue
  BY <1>1, BodyForms, Zenon
<1> QED BY <1>1, <1>3, <1>4, ArrayFits, Zenon DEF SameAt

LEMMA EarlierTypeTaken ==
  ASSUME NEW b \in Bodies, NEW R \in Seq(AnyRow), Ordered(R), NEW n \in 1..Len(R) + 1, NEW d,
         TakenBefore(b, R, n, d), NEW q, Earlier(R, n, q, "payment type", TRUE), Reached(b, q)
  PROVE  SameTypeAt(d, b, q) /\ There(b, q)
<1>0. PICK r : IsTaken(b, d, q, "payment type", TRUE, r)
  BY EarlierTaken, PlainChecks, Zenon
<1>1. /\ r.check = "payment type" /\ r.path = q /\ r.need = TRUE /\ q \in Path
      /\ Len(q) \in {1, 2, 3} /\ RowSound(b, r) /\ d[q] = Wanted(b, r)
  BY <1>0, Zenon DEF IsTaken
<1>2. Plain(r.check)
  BY <1>1, PlainChecks, Zenon
<1>3. There(b, q) /\ d[q] = Cast(r, b[q]) /\ Cast(r, b[q]) # Bad
  BY <1>1, <1>2, Settled, Zenon
<1>4. b[q] \in BodyValue
  BY <1>1, BodyForms, Zenon
<1>5. Cast(r, b[q]).text = "electronically" <=> PicksElectronic(b[q])
  BY <1>1, <1>3, <1>4, TypeFits, Zenon
<1> QED BY <1>3, <1>5, Zenon DEF SameTypeAt

LEMMA EarlierTaxTaken ==
  ASSUME NEW b \in Bodies, NEW R \in Seq(AnyRow), Ordered(R), NEW n \in 1..Len(R) + 1, NEW d,
         TakenBefore(b, R, n, d), NEW q, NEW x, Earlier(R, n, q, "tax", x), Reached(b, q)
  PROVE  d[q] = NotFound <=> ~There(b, q)
<1>0. PICK r : IsTaken(b, d, q, "tax", x, r)
  BY EarlierTaken, PlainChecks, Zenon
<1>1. /\ r.check = "tax" /\ r.path = q /\ r.need = x /\ q \in Path
      /\ Len(q) \in {1, 2, 3} /\ RowSound(b, r) /\ d[q] = Wanted(b, r)
  BY <1>0, Zenon DEF IsTaken
<1>2. Plain(r.check)
  BY <1>1, PlainChecks, Zenon
<1>3. /\ ~There(b, q) => d[q] = NotFound
      /\ There(b, q) => d[q] = Cast(r, b[q]) /\ Cast(r, b[q]) # Bad
  BY <1>1, <1>2, Settled, Zenon
<1>4. b[q] \in BodyValue
  BY <1>1, BodyForms, Zenon
<1>5. Cast(r, b[q]) # Bad => Cast(r, b[q]) # NotFound
  BY <1>1, <1>4, WordsFit, Zenon
<1> QED BY <1>3, <1>5, Zenon

LEMMA EarlierAmountTaken ==
  ASSUME NEW b \in Bodies, NEW R \in Seq(AnyRow), Ordered(R), NEW n \in 1..Len(R) + 1, NEW d,
         TakenBefore(b, R, n, d), NEW q, NEW c \in {"price", "quantity"},
         Earlier(R, n, q, c, TRUE), Reached(b, q)
  PROVE  SameAt(d, b, q)
<1>1. Plain(c)
  BY Zenon DEF Plain
<1>0. PICK r : IsTaken(b, d, q, c, TRUE, r)
  BY <1>1, EarlierTaken, Zenon
<1>2. /\ r.check = c /\ r.path = q /\ r.need = TRUE /\ q \in Path
      /\ Len(q) \in {1, 2, 3} /\ RowSound(b, r) /\ d[q] = Wanted(b, r)
  BY <1>0, Zenon DEF IsTaken
<1>3. d[q] = Cast(r, b[q]) /\ Cast(r, b[q]) # Bad
  BY <1>1, <1>2, Settled, Zenon
<1>4. b[q] \in BodyValue
  BY <1>2, BodyForms, Zenon
<1>5. /\ MinPrice \in Int /\ MaxPrice \in Int /\ MinQuantity \in Int /\ MaxQuantity \in Int
  BY DetailsAssumption DEF DetailsAssumption
<1>6. CASE c = "price"
  <2>0. r.check = "price"
    BY <1>2, <1>6
  <2>1. Cast(r, b[q]) = Amount(b[q], MinPrice, MaxPrice)
    BY <2>0, CastIs, Zenon
  <2> QED BY <1>3, <1>4, <1>5, <2>1, AmountFits DEF SameAt
<1>7. CASE c = "quantity"
  <2>0. r.check = "quantity"
    BY <1>2, <1>7
  <2>1. Cast(r, b[q]) = Amount(b[q], MinQuantity, MaxQuantity)
    BY <2>0, CastIs, Zenon
  <2> QED BY <1>3, <1>4, <1>5, <2>1, AmountFits DEF SameAt
<1> QED BY <1>6, <1>7, Zenon

-----------------------------------------------------------------------------
(* The code gets to a key exactly when the body says so.                   *)

LEMMA TopReached ==
  ASSUME NEW b, NEW q, Len(q) = 1 PROVE Reached(b, q)
<1>1. ~(Len(q) >= 2) /\ Len(q) # 3
  OBVIOUS
<1> QED BY <1>1, Zenon DEF Reached, InArray

LEMMA ElectroReached ==
  ASSUME NEW b, There(b, <<"payment">>)
  PROVE  /\ Reached(b, <<"payment", "type">>)
         /\ PicksElectronic(b[<<"payment", "type">>]) =>
              Reached(b, <<"payment", "electroPaymentInfo">>)
<1>1. ASSUME NEW k PROVE LET q == <<"payment", k>> IN
        /\ ~InArray(q) /\ Front(q) = <<"payment">> /\ q[1] # "document" /\ q[2] = k
  <2>1. <<"payment", k>>[1] = "payment" /\ <<"payment", k>>[2] = k
    BY TupleParts, Zenon
  <2>2. Front(<<"payment", k>>) = <<"payment">>
    BY Fronts, Zenon
  <2> QED BY <2>1, <2>2, Zenon DEF InArray
<1>2. Reached(b, <<"payment", "type">>)
  <2> DEFINE q == <<"payment", "type">>
  <2>1. ~InArray(q) /\ Front(q) = <<"payment">> /\ q[1] # "document" /\ q[2] = "type"
    BY <1>1, Zenon
  <2> HIDE DEF q
  <2>2. There(b, Front(q)) /\ q[2] # "electroPaymentInfo"
    BY <2>1, Zenon
  <2>3. Reached(b, q)
    BY <2>1, <2>2, Zenon DEF Reached
  <2> QED BY <2>3, Zenon DEF q
<1>3. ASSUME PicksElectronic(b[<<"payment", "type">>])
      PROVE  Reached(b, <<"payment", "electroPaymentInfo">>)
  <2> DEFINE q == <<"payment", "electroPaymentInfo">>
  <2>1. ~InArray(q) /\ Front(q) = <<"payment">> /\ q[1] # "document"
    BY <1>1, Zenon
  <2> HIDE DEF q
  <2>2. There(b, Front(q))
    BY <2>1, Zenon
  <2>3. Reached(b, q)
    BY <1>3, <2>1, <2>2, Zenon DEF Reached
  <2> QED BY <2>3, Zenon DEF q
<1> QED BY <1>2, <1>3, Zenon

(* A key of an element is reached when the element is, unless a separator  *)
(* stands in its way.                                                      *)
LEMMA ElementReached ==
  ASSUME NEW b, NEW a, a = "items" \/ a = "document", NEW i, i # "electroPaymentInfo", NEW k,
         a = "items" \/ k = "separator"
  PROVE  Reached(b, <<a, i, k>>) <=> Place(i) < b[<<a>>].num
<1> DEFINE q == <<a, i, k>>
<1>1. Len(q) >= 2 /\ q[1] = a /\ q[2] = i /\ q[3] = k
  BY TupleParts, Zenon
<1>2. "items" # "document"
  BY Zenon
<1> HIDE DEF q
<1>3. InArray(q)
  BY <1>1, Zenon DEF InArray
<1>4. ~(q[1] = "document" /\ Len(q) = 3 /\ q[3] # "separator")
  BY <1>1, <1>2, Zenon
<1>5. q[2] # "electroPaymentInfo"
  BY <1>1, Zenon
<1>6. Reached(b, q) <=> Place(q[2]) < b[<<q[1]>>].num
  BY <1>3, <1>4, <1>5, Zenon DEF Reached
<1>7. Reached(b, q) <=> Place(i) < b[<<a>>].num
  BY <1>1, <1>6
<1> QED BY <1>7, Zenon DEF q

LEMMA ReachedAgrees ==
  ASSUME Body \in Bodies, NEW R \in Seq(AnyRow), Ordered(R), NEW n \in 1..Len(R),
         TakenBefore(Body, R, n, details)
  PROVE  Applies(R[n]) <=> Reached(Body, R[n].path)
<1> DEFINE b == Body
           p == R[n].path
           InElectro == Len(p) >= 2 /\ p[2] = "electroPaymentInfo"
           InBlock == p[1] = "document" /\ Len(p) = 3 /\ p[3] # "separator"
           sep == <<"document", p[2], "separator">>
           type == <<"payment", "type">>
<1>1. Deps(R, n) /\ n \in 1..Len(R) + 1
  BY DEF Ordered
<1>2. \A q : Len(q) = 1 => Reached(b, q)
  BY TopReached, Zenon
<1>3. ASSUME InArray(p) PROVE details[<<p[1]>>].num = b[<<p[1]>>].num
  <2>1. Earlier(R, n, <<p[1]>>, "array", TRUE)
    BY <1>1, <1>3, Zenon DEF Deps
  <2>2. Len(<<p[1]>>) = 1
    BY TupleParts, Zenon
  <2>3. Reached(b, <<p[1]>>)
    BY <1>2, <2>2, Zenon
  <2>4. SameAt(details, b, <<p[1]>>)
    BY <1>1, <2>1, <2>3, EarlierArrayTaken, Zenon
  <2> QED BY <2>4 DEF SameAt
<1>4. ASSUME InElectro
      PROVE  /\ There(b, <<"payment">>)
             /\ details[type].text = "electronically" <=> PicksElectronic(b[type])
  <2>1. /\ Earlier(R, n, <<"payment">>, "object", TRUE)
        /\ Earlier(R, n, type, "payment type", TRUE)
    BY <1>1, <1>4, Zenon DEF Deps
  <2>2. Len(<<"payment">>) = 1
    BY TupleParts, Zenon
  <2>3. Reached(b, <<"payment">>)
    BY <1>2, <2>2, Zenon
  <2>4. There(b, <<"payment">>)
    BY <1>1, <2>1, <2>3, EarlierObjectTaken, Zenon
  <2>5. Reached(b, type)
    BY <2>4, ElectroReached, Zenon
  <2>6. SameTypeAt(details, b, type)
    BY <1>1, <2>1, <2>5, EarlierTypeTaken, Zenon
  <2> QED BY <2>4, <2>6, Zenon DEF SameTypeAt
<1>5. ASSUME Len(p) >= 2, ~InArray(p),
             InElectro => PicksElectronic(b[type])
      PROVE  details[Front(p)] # NotFound <=> There(b, Front(p))
  <2>1. PICK x \in BOOLEAN : Earlier(R, n, Front(p), "object", x)
    BY <1>1, <1>5, Zenon DEF Deps, EarlierObject
  <2>2. details[Front(p)] # NotFound <=> Reached(b, Front(p)) /\ There(b, Front(p))
    BY <1>1, <2>1, EarlierObjectTaken, Zenon
  <2>3. \/ Len(Front(p)) = 1
        \/ Front(p) = <<"payment", "electroPaymentInfo">> /\ p[2] = "electroPaymentInfo"
    BY <1>1, <1>5, Zenon DEF Deps
  <2>4. Reached(b, Front(p))
    <3>1. CASE Len(Front(p)) = 1
      BY <1>2, <3>1, Zenon
    <3>2. CASE Front(p) = <<"payment", "electroPaymentInfo">> /\ p[2] = "electroPaymentInfo"
      <4>1. There(b, <<"payment">>) /\ PicksElectronic(b[type])
        BY <1>4, <1>5, <3>2, Zenon
      <4>2. Reached(b, <<"payment", "electroPaymentInfo">>)
        BY <4>1, ElectroReached, Zenon
      <4> QED BY <3>2, <4>2, Zenon
    <3> QED BY <2>3, <3>1, <3>2, Zenon
  <2> QED BY <2>2, <2>4, Zenon
<1>6. ASSUME InBlock, Place(p[2]) < b[<<p[1]>>].num
      PROVE  IsTrue(details[sep]) <=> IsTrue(b[sep])
  <2>1. Earlier(R, n, sep, "flag", FALSE)
    BY <1>1, <1>6, Zenon DEF Deps
  <2>2. Len(p) >= 2
    BY <1>6
  <2>3. InArray(p)
    BY <1>6, <2>2, Zenon DEF InArray
  <2>4. p[2] # "electroPaymentInfo"
    BY <1>1, <2>3, Zenon DEF Deps
  <2>5. Place(p[2]) < b[<<"document">>].num
    BY <1>6
  <2>6. Reached(b, sep)
    BY <2>4, <2>5, ElementReached, Zenon
  <2> QED BY <1>1, <2>1, <2>6, EarlierFlagTaken, Zenon
<1>7. InArray(p) => (Place(p[2]) < details[<<p[1]>>].num <=> Place(p[2]) < b[<<p[1]>>].num)
  BY <1>3
<1>8. InElectro => (/\ details[type].text = "electronically"
                    <=> There(b, <<"payment">>) /\ PicksElectronic(b[type]))
  BY <1>4, Zenon
<1>9. InBlock => InArray(p)
  <2>1. Len(p) = 3 => Len(p) >= 2
    OBVIOUS
  <2> QED BY <2>1, Zenon DEF InArray
<1> DEFINE inItems(d) == InArray(p) => Place(p[2]) < d[<<p[1]>>].num
           inObject(h) == Len(p) >= 2 /\ ~InArray(p) => h
           inBlock(d) == InBlock => ~IsTrue(d[sep])
           inElectro(h) == InElectro => h
<1>10. Applies(R[n]) <=>
         /\ inItems(details) /\ inObject(details[Front(p)] # NotFound) /\ inBlock(details)
         /\ inElectro(details[type].text = "electronically")
  BY Zenon DEF Applies
<1>11. Reached(b, p) <=>
         /\ inItems(b) /\ inObject(There(b, Front(p))) /\ inBlock(b)
         /\ inElectro(There(b, <<"payment">>) /\ PicksElectronic(b[type]))
  BY Zenon DEF Reached
<1> QED BY <1>5, <1>6, <1>7, <1>8, <1>9, <1>10, <1>11, Zenon

-----------------------------------------------------------------------------
(* Taking a key comes to what the body means for it.                       *)

LEMMA FoundAgrees ==
  ASSUME NEW r
  PROVE  Value(r) = Found(Body, r) /\ (IsThere(r) <=> IsFound(Body, r))
<1>1. ParentOf(r.path) = Above(Body, r.path)
  BY Zenon DEF ParentOf, Above
<1>2. Value(r) = Found(Body, r)
  BY <1>1, Zenon DEF Value, Found
<1> QED BY <1>2, Zenon DEF IsThere, IsFound

LEMMA NeededAgrees ==
  ASSUME Body \in Bodies, NEW R \in Seq(AnyRow), Ordered(R), NEW n \in 1..Len(R),
         TakenBefore(Body, R, n, details)
  PROVE  Needed(R[n]) <=> Lacking(Body, R[n])
<1>1. Deps(R, n) /\ n \in 1..Len(R) + 1
  BY DEF Ordered
<1>2. ASSUME R[n].check = "item tax"
      PROVE  details[<<"tax">>] = NotFound <=> ~There(Body, <<"tax">>)
  <2>1. Earlier(R, n, <<"tax">>, "tax", FALSE)
    BY <1>1, <1>2, Zenon DEF Deps
  <2>2. Len(<<"tax">>) = 1
    BY TupleParts, Zenon
  <2>3. Reached(Body, <<"tax">>)
    BY <2>2, TopReached, Zenon
  <2> QED BY <1>1, <2>1, <2>3, EarlierTaxTaken, Zenon
<1> QED BY <1>2, Zenon DEF Needed, Lacking

LEMMA TakenAgrees ==
  ASSUME Body \in Bodies, NEW R \in Seq(AnyRow), Ordered(R), NEW n \in 1..Len(R),
         TakenBefore(Body, R, n, details), Reached(Body, R[n].path)
  PROVE  Taken(R[n]) = Meant(Body, R[n])
<1> DEFINE r == R[n]
           p == r.path
<1>1. Deps(R, n) /\ n \in 1..Len(R) + 1
  BY DEF Ordered
<1>2. Value(r) = Found(Body, r)
  BY FoundAgrees, Zenon
<1>3. ASSUME r.check = "item"
      PROVE  Constructed(p, Value(r)) = If(AmountsFit(Body, p), Value(r))
  <2>1. /\ p[1] = "items" /\ p[2] # "electroPaymentInfo" /\ Len(p) = 2
        /\ Earlier(R, n, Append(p, "price"), "price", TRUE)
        /\ Earlier(R, n, Append(p, "quantity"), "quantity", TRUE)
    BY <1>1, <1>3, Zenon DEF Deps
  <2>2. p \in Seq(Keys)
    <3>1. r \in AnyRow
      OBVIOUS
    <3> QED BY <3>1 DEF AnyRow
  <2>3. ASSUME NEW k \in Keys PROVE Reached(Body, Append(p, k))
    <3> DEFINE q == Append(p, k)
    <3>1. q[1] = p[1] /\ q[2] = p[2] /\ Len(p) >= 2 /\ Len(q) >= 2
      BY <2>1, <2>2
    <3>2. q[1] = "items" /\ q[2] # "electroPaymentInfo" /\ q[1] # "document"
      BY <2>1, <3>1, Zenon
    <3>3. InArray(p)
      BY <2>1, <3>1, Zenon DEF InArray
    <3>4. Place(q[2]) < Body[<<q[1]>>].num
      <4>1. Place(p[2]) < Body[<<p[1]>>].num
        BY <3>3, Zenon DEF Reached
      <4> HIDE DEF q
      <4> QED BY <3>1, <4>1
    <3> HIDE DEF q
    <3>5. Reached(Body, q)
      BY <3>1, <3>2, <3>3, <3>4, Zenon DEF Reached, InArray
    <3> QED BY <3>5, Zenon DEF q
  <2>4. SameAt(details, Body, Append(p, "price"))
    <3>1. Reached(Body, Append(p, "price"))
      BY <2>3, Names, Zenon
    <3> QED BY <1>1, <2>1, <3>1, EarlierAmountTaken, Zenon
  <2>5. SameAt(details, Body, Append(p, "quantity"))
    <3>1. Reached(Body, Append(p, "quantity"))
      BY <2>3, Names, Zenon
    <3> QED BY <1>1, <2>1, <3>1, EarlierAmountTaken, Zenon
  <2> QED BY <2>4, <2>5, Zenon DEF SameAt, Constructed, AmountsFit
<1> QED BY <1>2, <1>3, Zenon DEF Taken, Meant

(* What the three ways of TakeKey say of the current row.                  *)
LEMMA RowAgrees ==
  ASSUME Body \in Bodies, NEW R \in Seq(AnyRow), Ordered(R), NEW n \in 1..Len(R),
         TakenBefore(Body, R, n, details)
  PROVE  LET r == R[n] IN
         /\ Applies(r) /\ IsThere(r) /\ Taken(r) # Bad =>
              RowSound(Body, r) /\ Wanted(Body, r) = Taken(r)
         /\ (Applies(r) => ~IsThere(r) /\ ~Needed(r)) =>
              RowSound(Body, r) /\ Wanted(Body, r) = NotFound
         /\ Applies(r) /\ (IF IsThere(r) THEN Taken(r) = Bad ELSE Needed(r)) =>
              ~RowSound(Body, r)
<1> DEFINE r == R[n]
<1>1. Applies(r) <=> Reached(Body, r.path)
  BY ReachedAgrees, Zenon
<1>2. IsThere(r) <=> IsFound(Body, r)
  BY FoundAgrees, Zenon
<1>3. Needed(r) <=> Lacking(Body, r)
  BY NeededAgrees, Zenon
<1>4. Reached(Body, r.path) => Taken(r) = Meant(Body, r)
  BY TakenAgrees, Zenon
<1>5. ASSUME Applies(r), IsThere(r), Taken(r) # Bad
      PROVE  RowSound(Body, r) /\ Wanted(Body, r) = Taken(r)
  BY <1>1, <1>2, <1>4, <1>5, Zenon DEF RowSound, Wanted
<1>6. ASSUME Applies(r) => ~IsThere(r) /\ ~Needed(r)
      PROVE  RowSound(Body, r) /\ Wanted(Body, r) = NotFound
  BY <1>1, <1>2, <1>3, <1>6, Zenon DEF RowSound, Wanted
<1>7. ASSUME Applies(r), IF IsThere(r) THEN Taken(r) = Bad ELSE Needed(r)
      PROVE  ~RowSound(Body, r)
  BY <1>1, <1>2, <1>3, <1>4, <1>7, Zenon DEF RowSound
<1> HIDE DEF r
<1> QED BY <1>5, <1>6, <1>7, Zenon DEF r

LEMMA WantedTyped ==
  ASSUME NEW b \in Bodies, NEW r \in AnyRow, r.path \in Path, Len(r.path) \in {1, 2, 3}
  PROVE  Wanted(b, r) \in JsonValue
<1>1. Bad \in JsonValue /\ NotFound \in JsonValue /\ Object \in JsonValue /\ r.check \in Checks
  BY BadIsValue DEF AnyRow
<1>2. CASE r.check = "item"
  <2>1. Found(b, r) = Object
    BY <1>2, Zenon DEF Found
  <2>2. If(AmountsFit(b, r.path), Object) \in JsonValue
    BY <1>1, IfTyped, Zenon
  <2> QED BY <1>1, <1>2, <2>1, <2>2, Zenon DEF Wanted, Meant
<1>3. CASE r.check # "item"
  <2>1. CASE Above(b, r.path).type = "object"
    <3>1. Found(b, r) = b[r.path] /\ b[r.path] \in BodyValue
      BY <1>3, <2>1, FoundIs, BodyForms, Zenon
    <3>2. Cast(r, b[r.path]) \in JsonValue
      BY <1>1, <1>3, <3>1, CastTyped, Zenon
    <3> QED BY <1>1, <1>3, <3>1, <3>2, Zenon DEF Wanted, Meant
  <2>2. CASE Above(b, r.path).type = "null"
    <3>1. ~IsFound(b, r)
      BY <1>3, <2>2, FoundIs, Zenon
    <3> QED BY <1>1, <3>1, Zenon DEF Wanted
  <2>3. CASE Above(b, r.path).type \notin {"object", "null"}
    <3>1. Meant(b, r) = Bad
      BY <1>3, <2>3, FoundIs, Zenon
    <3> QED BY <1>1, <3>1, Zenon DEF Wanted
  <2> QED BY <2>1, <2>2, <2>3, Zenon
<1> QED BY <1>2, <1>3

LEMMA TakenExtends ==
  ASSUME NEW b, NEW R \in Seq(AnyRow), NEW n \in 1..Len(R), NEW d \in [Path -> JsonValue],
         \A i \in 1..Len(R) : R[i].path \in Path,
         \A i, j \in 1..Len(R) : R[i].path = R[j].path => i = j,
         TakenBefore(b, R, n, d), RowSound(b, R[n])
  PROVE  /\ TakenBefore(b, R, n + 1, [d EXCEPT ![R[n].path] = Wanted(b, R[n])])
         /\ Wanted(b, R[n]) = NotFound => TakenBefore(b, R, n + 1, d)
<1> DEFINE e == [d EXCEPT ![R[n].path] = Wanted(b, R[n])]
<1>1. /\ \A i \in 1..Len(R) : i < n => RowSound(b, R[i]) /\ d[R[i].path] = Wanted(b, R[i])
      /\ \A i \in 1..Len(R) : i >= n => d[R[i].path] = NotFound
  BY Zenon DEF TakenBefore
<1>2. /\ e[R[n].path] = Wanted(b, R[n])
      /\ \A i \in 1..Len(R) : i # n => e[R[i].path] = d[R[i].path]
  OBVIOUS
<1>3. \A i \in 1..Len(R) : /\ i < n + 1 <=> i < n \/ i = n
                           /\ i >= n + 1 <=> i >= n /\ i # n
                           /\ i < n => i # n
  OBVIOUS
<1> HIDE DEF e
<1>4. TakenBefore(b, R, n + 1, e)
  BY <1>1, <1>2, <1>3, Zenon DEF TakenBefore
<1>5. ASSUME Wanted(b, R[n]) = NotFound PROVE TakenBefore(b, R, n + 1, d)
  <2>1. n >= n
    OBVIOUS
  <2>2. d[R[n].path] = Wanted(b, R[n])
    BY <1>1, <1>5, <2>1, Zenon
  <2> QED BY <1>1, <1>3, <2>2, Zenon DEF TakenBefore
<1> QED BY <1>4, <1>5, Zenon DEF e

-----------------------------------------------------------------------------
(* The invariant of the details, and that every step keeps it.             *)

AllIn == row = Len(Rows[request.kind]) + 1

(* What has been registered of an open receipt.                            *)
Registered ==
    /\ request.kind = "receipt" /\ AllIn
    /\ ItemsTaken \in 1..2 /\ driver.tags = Tags
    /\ Len(driver.items) <= ItemsTaken
    /\ \A j \in 1..Len(driver.items) : Place(driver.items[j]) = j - 1

(* Why a request is refused.                                               *)
Faulty ==
    \/ \E i \in 1..Len(Rows[request.kind]) : ~RowSound(Body, Rows[request.kind][i])
    \/ request.kind = "receipt" /\ AllIn /\ ItemsTaken = 0

Told ==
    /\ outcome \in {"registering", "done"} => AllIn
    /\ outcome = "registering" => request.kind = "receipt"
    /\ outcome = "taking" => driver = Untold
    /\ ~driver.open => driver = Untold
    /\ driver.open => Registered
    /\ outcome = "done" /\ request.kind = "receipt" =>
         driver.open /\ Len(driver.items) = ItemsTaken /\ driver.payments = Payments
    /\ outcome = "refused" => driver = Untold /\ Faulty

DetailsInv ==
    DetailsTypeOK /\ TakenBefore(Body, Rows[request.kind], row, details) /\ Told

LEMMA RequestIs ==
  ASSUME request \in Request
  PROVE  LET R == Rows[request.kind] IN
         /\ Body \in Bodies /\ request.kind \in DOMAIN Rows
         /\ R \in Seq(AnyRow) /\ Ordered(R)
         /\ \A i \in 1..Len(R) : R[i].path \in Path /\ Len(R[i].path) \in {1, 2, 3}
         /\ \A i, j \in 1..Len(R) : R[i].path = R[j].path => i = j
<1>1. request.kind \in DOMAIN Rows /\ request.body \in [Path -> BodyValue] /\ Nested(request.body)
  BY DEF Request
<1>2. Body \in Bodies
  BY <1>1, Zenon DEF Body, Bodies
<1> DEFINE R == Rows[request.kind]
<1>3. /\ R \in Seq(AnyRow)
      /\ \A n \in 1..Len(R) : Deps(R, n) /\ R[n].path \in Path
      /\ \A i, j \in 1..Len(R) : R[i].path = R[j].path => i = j
  BY <1>1, RowsAre, Zenon
<1>4. \A i \in 1..Len(R) : Len(R[i].path) \in {1, 2, 3}
  BY <1>3, DepsLength, Zenon
<1> HIDE DEF R
<1> QED BY <1>1, <1>2, <1>3, <1>4, Zenon DEF R, Ordered

DriverState(tag, payment) ==
    [open : BOOLEAN, tags : SUBSET tag, items : Seq(Index), payments : SUBSET payment]

(* What the steps do to what the driver has been told.                     *)
Opened(d, t, e) == e.open = TRUE /\ e.tags = t /\ e.items = d.items
Listed(d, i, e) == e.open = d.open /\ e.tags = d.tags /\ e.items = Append(d.items, i)
Paid(d, t, e) ==
    e.open = d.open /\ e.tags = d.tags /\ e.items = d.items /\ e.payments = t

LEMMA DriverUpdates ==
  ASSUME NEW tag, NEW payment, NEW d \in DriverState(tag, payment)
  PROVE  /\ d.items \in Seq(Index) /\ d.open \in BOOLEAN
         /\ \A t \in SUBSET tag :
               LET e == [d EXCEPT !.open = TRUE, !.tags = t]
               IN  e \in DriverState(tag, payment) /\ Opened(d, t, e)
         /\ \A i \in Index :
               LET e == [d EXCEPT !.items = Append(d.items, i)]
               IN  e \in DriverState(tag, payment) /\ Listed(d, i, e)
         /\ \A t \in SUBSET payment :
               LET e == [d EXCEPT !.payments = t]
               IN  e \in DriverState(tag, payment) /\ Paid(d, t, e)
<1>1. d.items \in Seq(Index) /\ d.open \in BOOLEAN
  BY DEF DriverState
<1>2. ASSUME NEW t \in SUBSET tag
      PROVE  LET e == [d EXCEPT !.open = TRUE, !.tags = t]
             IN  e \in DriverState(tag, payment) /\ Opened(d, t, e)
  BY DEF DriverState, Opened
<1>3. ASSUME NEW i \in Index
      PROVE  LET e == [d EXCEPT !.items = Append(d.items, i)]
             IN  e \in DriverState(tag, payment) /\ Listed(d, i, e)
  <2>0. Append(d.items, i) \in Seq(Index)
    BY <1>1
  <2>1. PICK s \in Seq(Index) : s = Append(d.items, i)
    BY <2>0, Zenon
  <2>2. LET e == [d EXCEPT !.items = s]
        IN  /\ e \in DriverState(tag, payment)
            /\ e.open = d.open /\ e.tags = d.tags /\ e.items = s
    BY DEF DriverState
  <2> QED BY <2>1, <2>2 DEF Listed
<1>4. ASSUME NEW t \in SUBSET payment
      PROVE  LET e == [d EXCEPT !.payments = t]
             IN  e \in DriverState(tag, payment) /\ Paid(d, t, e)
  BY DEF DriverState, Paid
<1> QED BY <1>1, <1>2, <1>3, <1>4, Zenon

TagNames == {"name", "contact", "customer inn", "seller email"}
PaymentNames == {"sum", "info"}

LEMMA UntoldIs ==
  /\ Untold.open = FALSE /\ Untold.tags = {} /\ Untold.items = <<>> /\ Untold.payments = {}
  /\ Untold \in DriverState(TagNames, PaymentNames)
  BY DEF Untold, DriverState, TagNames, PaymentNames

LEMMA DetailsStart == ASSUME DetailsInit PROVE DetailsInv
<1>1. PICK r \in Request : Begin(r)
  BY Zenon DEF DetailsInit
<1>2. /\ request = r /\ row = 1 /\ details = [p \in Path |-> NotFound]
      /\ outcome = "taking" /\ error = <<>> /\ driver = Untold
  BY <1>1, Zenon DEF Begin
<1>3. request \in Request
  BY <1>2
<1> DEFINE R == Rows[request.kind]
<1>4. R \in Seq(AnyRow) /\ \A i \in 1..Len(R) : R[i].path \in Path
  BY <1>3, RequestIs, Zenon
<1>5. details \in [Path -> JsonValue] /\ \A p \in Path : details[p] = NotFound
  BY <1>2, BadIsValue
<1>6. DetailsTypeOK
  <2>1. row \in 1..Len(R) + 1
    BY <1>2, <1>4
  <2>2. outcome \in {"taking", "registering", "done", "refused"}
    BY <1>2
  <2>3. driver \in DriverState(TagNames, PaymentNames)
    BY <1>2, UntoldIs, Zenon
  <2> QED BY <1>3, <1>5, <2>1, <2>2, <2>3, Zenon DEF DetailsTypeOK, DriverState, TagNames, PaymentNames
<1>7. TakenBefore(Body, R, row, details)
  <2>1. \A i \in 1..Len(R) : ~(i < row)
    BY <1>2, <1>4
  <2>2. \A i \in 1..Len(R) : details[R[i].path] = NotFound
    BY <1>4, <1>5, Zenon
  <2> HIDE DEF R
  <2> QED BY <2>1, <2>2, Zenon DEF TakenBefore
<1>8. Told
  BY <1>2, UntoldIs, Zenon DEF Told
<1> QED BY <1>6, <1>7, <1>8, Zenon DEF DetailsInv

LEMMA TakeKeyStep == ASSUME DetailsInv, TakeKey PROVE DetailsInv'
<1> DEFINE R == Rows[request.kind]
           r == R[row]
<1>1. /\ request \in Request /\ row \in 1..Len(R) + 1 /\ details \in [Path -> JsonValue]
      /\ driver \in DriverState(TagNames, PaymentNames)
  BY Zenon DEF DetailsInv, DetailsTypeOK, DriverState, TagNames, PaymentNames
<1>2. /\ Body \in Bodies /\ R \in Seq(AnyRow) /\ Ordered(R)
      /\ \A i \in 1..Len(R) : R[i].path \in Path /\ Len(R[i].path) \in {1, 2, 3}
      /\ \A i, j \in 1..Len(R) : R[i].path = R[j].path => i = j
  BY <1>1, RequestIs, Zenon
<1>3. outcome = "taking" /\ row \in 1..Len(R)
  <2>1. outcome = "taking" /\ row <= Len(R)
    BY Zenon DEF TakeKey
  <2>2. row \in 1..Len(R) + 1 /\ R \in Seq(AnyRow)
    BY <1>1, <1>2, Zenon
  <2> QED BY <2>1, <2>2
<1>4. TakenBefore(Body, R, row, details) /\ driver = Untold
  BY <1>3, Zenon DEF DetailsInv, Told
<1>5. r \in AnyRow /\ r = CurrentRow
  BY <1>2, <1>3 DEF CurrentRow
<1>6. /\ Applies(r) /\ IsThere(r) /\ Taken(r) # Bad =>
            RowSound(Body, r) /\ Wanted(Body, r) = Taken(r)
      /\ (Applies(r) => ~IsThere(r) /\ ~Needed(r)) =>
            RowSound(Body, r) /\ Wanted(Body, r) = NotFound
      /\ Applies(r) /\ (IF IsThere(r) THEN Taken(r) = Bad ELSE Needed(r)) =>
            ~RowSound(Body, r)
  BY <1>2, <1>3, <1>4, RowAgrees, Zenon
<1>7. ASSUME UNCHANGED request, row' = row + 1 PROVE row' \in 1..Len(R') + 1
  BY <1>2, <1>3, <1>7
<1>8. ASSUME outcome' = "taking", driver' = driver PROVE Told'
  <2>1. driver' = Untold
    BY <1>4, <1>8
  <2> QED BY <1>8, <2>1, UntoldIs, Zenon DEF Told
<1>9. ASSUME Applies(r), IsThere(r), Taken(r) # Bad,
             details' = [details EXCEPT ![r.path] = Taken(r)], row' = row + 1,
             UNCHANGED <<request, outcome, error, driver>>
      PROVE  DetailsInv'
  <2>1. RowSound(Body, r) /\ Wanted(Body, r) = Taken(r)
    BY <1>6, <1>9, Zenon
  <2>2. TakenBefore(Body, R, row + 1, [details EXCEPT ![r.path] = Wanted(Body, r)])
    BY <1>1, <1>2, <1>3, <1>4, <2>1, TakenExtends, Zenon
  <2>3. Body' = Body /\ R' = R
    BY <1>9 DEF Body
  <2>4. TakenBefore(Body', R', row', details')
    BY <1>9, <2>1, <2>2, <2>3
  <2>5. Taken(r) \in JsonValue
    BY <1>2, <1>3, <1>5, <2>1, WantedTyped, Zenon
  <2>6. details' \in [Path -> JsonValue]
    BY <1>1, <1>9, <2>5
  <2>7. DetailsTypeOK'
    BY <1>1, <1>3, <1>7, <1>9, <2>6, Zenon DEF DetailsTypeOK, DriverState, TagNames, PaymentNames
  <2>8. Told'
    BY <1>3, <1>8, <1>9
  <2> QED BY <2>4, <2>7, <2>8, Zenon DEF DetailsInv
<1>10. ASSUME Applies(r) => ~IsThere(r) /\ ~Needed(r), row' = row + 1,
              UNCHANGED <<request, details, outcome, error, driver>>
       PROVE  DetailsInv'
  <2>1. RowSound(Body, r) /\ Wanted(Body, r) = NotFound
    BY <1>6, <1>10, Zenon
  <2>2. TakenBefore(Body, R, row + 1, details)
    BY <1>1, <1>2, <1>3, <1>4, <2>1, TakenExtends, Zenon
  <2>3. Body' = Body /\ R' = R
    BY <1>10 DEF Body
  <2>4. TakenBefore(Body', R', row', details')
    BY <1>10, <2>2, <2>3
  <2>5. DetailsTypeOK'
    BY <1>1, <1>3, <1>7, <1>10, Zenon DEF DetailsTypeOK, DriverState, TagNames, PaymentNames
  <2>6. Told'
    BY <1>3, <1>8, <1>10
  <2> QED BY <2>4, <2>5, <2>6, Zenon DEF DetailsInv
<1>11. ASSUME Applies(r), IF IsThere(r) THEN Taken(r) = Bad ELSE Needed(r),
              Refuse(r.reported)
       PROVE  DetailsInv'
  <2>1. ~RowSound(Body, r)
    BY <1>6, <1>11, Zenon
  <2>2. outcome' = "refused" /\ UNCHANGED <<request, row, details, driver>>
    BY <1>11 DEF Refuse
  <2>3. Body' = Body /\ R' = R
    BY <2>2 DEF Body
  <2>4. TakenBefore(Body', R', row', details')
    BY <1>4, <2>2, <2>3
  <2>5. DetailsTypeOK'
    BY <1>1, <2>2, Zenon DEF DetailsTypeOK, DriverState, TagNames, PaymentNames
  <2>6. Faulty'
    <3>1. \E i \in 1..Len(R') : ~RowSound(Body', R'[i])
      BY <1>3, <2>1, <2>3
    <3> QED BY <3>1, Zenon DEF Faulty
  <2>7. driver' = Untold
    BY <1>4, <2>2
  <2>8. Told'
    BY <2>2, <2>6, <2>7, UntoldIs, Zenon DEF Told
  <2> QED BY <2>4, <2>5, <2>8, Zenon DEF DetailsInv
<1> QED BY <1>5, <1>9, <1>10, <1>11, Zenon DEF TakeKey

LEMMA AllTakenStep == ASSUME DetailsInv, AllTaken PROVE DetailsInv'
<1> DEFINE R == Rows[request.kind]
<1>1. DetailsTypeOK /\ TakenBefore(Body, R, row, details)
  BY Zenon DEF DetailsInv
<1>2. /\ outcome = "taking" /\ row > Len(R)
      /\ outcome' = IF request.kind = "receipt" THEN "registering" ELSE "done"
      /\ UNCHANGED <<request, row, details, error, driver>>
  BY Zenon DEF AllTaken
<1>3. Body' = Body /\ R' = R
  BY <1>2 DEF Body
<1>4. TakenBefore(Body', R', row', details')
  BY <1>1, <1>2, <1>3
<1>5. row' = Len(R') + 1
  <2>1. request \in Request /\ row \in 1..Len(R) + 1
    BY <1>1, Zenon DEF DetailsTypeOK, DriverState, TagNames, PaymentNames
  <2>2. R \in Seq(AnyRow)
    BY <2>1, RequestIs, Zenon
  <2> QED BY <1>2, <1>3, <2>1, <2>2
<1>6. driver' = Untold
  BY <1>2, Zenon DEF DetailsInv, Told
<1>7. \/ outcome' = "registering" /\ request'.kind = "receipt"
      \/ outcome' = "done" /\ request'.kind # "receipt"
  <2>1. request'.kind = request.kind
    BY <1>2
  <2>2. request.kind = "receipt" => outcome' = "registering"
    BY <1>2, Zenon
  <2>3. request.kind # "receipt" => outcome' = "done"
    BY <1>2, Zenon
  <2>4. CASE request.kind = "receipt"
    BY <2>1, <2>2, <2>4
  <2>5. CASE request.kind # "receipt"
    BY <2>1, <2>3, <2>5
  <2> QED BY <2>4, <2>5
<1>8. outcome' \in {"taking", "registering", "done", "refused"}
  BY <1>7, Zenon
<1>9. DetailsTypeOK'
  BY <1>1, <1>2, <1>8, Zenon DEF DetailsTypeOK, DriverState, TagNames, PaymentNames
<1>10. Told'
  BY <1>5, <1>6, <1>7, UntoldIs, Zenon DEF Told, AllIn
<1> QED BY <1>4, <1>9, <1>10, Zenon DEF DetailsInv

(* How many items the body of a receipt has that has been taken.           *)
LEMMA ItemsAre ==
  ASSUME DetailsTypeOK, TakenBefore(Body, Rows[request.kind], row, details),
         request.kind = "receipt", AllIn
  PROVE  ItemsTaken \in 0..2 /\ ItemsTaken = Body[<<"items">>].num
<1> DEFINE R == Rows[request.kind]
<1>1. request \in Request
  BY Zenon DEF DetailsTypeOK, DriverState, TagNames, PaymentNames
<1>2. Body \in Bodies /\ R \in Seq(AnyRow) /\ Ordered(R)
  BY <1>1, RequestIs, Zenon
<1>3. R = ReceiptRows
  BY KindsAre
<1>4. Len(R) = 35 /\ IsRow(R[16], <<"items">>, "array", TRUE)
  BY <1>3, ReceiptRowsAre
<1>5. row = 36 /\ row \in 1..Len(R) + 1 /\ 16 \in 1..row - 1 /\ 16 \in 1..Len(R)
  BY <1>4 DEF AllIn
<1>6. Earlier(R, row, <<"items">>, "array", TRUE)
  BY <1>4, <1>5, Zenon DEF Earlier
<1>7. Reached(Body, <<"items">>)
  <2>1. Len(<<"items">>) = 1
    BY TupleParts, Zenon
  <2> QED BY <2>1, TopReached, Zenon
<1>8. SameAt(details, Body, <<"items">>) /\ Body[<<"items">>].type = "array"
  BY <1>2, <1>5, <1>6, <1>7, EarlierArrayTaken, Zenon
<1>9. <<"items">> \in Path
  <2>1. R[16].path \in Path /\ R[16].path = <<"items">>
    BY <1>2, <1>4, <1>5, Zenon DEF Ordered, IsRow
  <2> QED BY <2>1, Zenon
<1>10. Body[<<"items">>].num \in 0..2
  BY <1>2, <1>8, <1>9, BodyForms, BodyValueForms, Zenon
<1> QED BY <1>8, <1>10 DEF ItemsTaken, SameAt

LEMMA OpenStep == ASSUME DetailsInv, Open PROVE DetailsInv'
<1> DEFINE R == Rows[request.kind]
<1>1. DetailsTypeOK /\ TakenBefore(Body, R, row, details)
  BY Zenon DEF DetailsInv
<1>2. outcome = "registering" /\ ~driver.open
  BY Zenon DEF Open
<1>3. AllIn /\ request.kind = "receipt" /\ driver = Untold
  BY <1>2, Zenon DEF DetailsInv, Told
<1>4. ItemsTaken \in 0..2
  BY <1>1, <1>3, ItemsAre, Zenon
<1>5. ASSUME ItemsTaken = 0, Refuse(<<"items">>) PROVE DetailsInv'
  <2>1. outcome' = "refused" /\ UNCHANGED <<request, row, details, driver>>
    BY <1>5 DEF Refuse
  <2>2. TakenBefore(Body, R, row, details)'
    BY <1>1, <2>1 DEF Body
  <2>3. DetailsTypeOK'
    BY <1>1, <2>1, Zenon DEF DetailsTypeOK, DriverState, TagNames, PaymentNames
  <2>4. Faulty'
    <3>1. request'.kind = "receipt" /\ AllIn' /\ ItemsTaken' = 0
      BY <1>3, <1>5, <2>1 DEF AllIn, ItemsTaken
    <3> QED BY <3>1, Zenon DEF Faulty
  <2>5. driver' = Untold
    BY <1>3, <2>1
  <2>6. Told'
    BY <2>1, <2>4, <2>5, UntoldIs, Zenon DEF Told
  <2> QED BY <2>2, <2>3, <2>6, Zenon DEF DetailsInv
<1>6. ASSUME ItemsTaken > 0, driver' = [driver EXCEPT !.open = TRUE, !.tags = Tags],
             UNCHANGED <<request, row, details, outcome, error>>
      PROVE  DetailsInv'
  <2>1. TakenBefore(Body, R, row, details)'
    BY <1>1, <1>6 DEF Body
  <2>2. Tags \in SUBSET TagNames
    BY DEF Tags, TagNames
  <2>3. /\ driver' \in DriverState(TagNames, PaymentNames)
        /\ driver'.open = TRUE /\ driver'.tags = Tags /\ driver'.items = <<>>
    <3> DEFINE e == [driver EXCEPT !.open = TRUE, !.tags = Tags]
    <3>1. driver \in DriverState(TagNames, PaymentNames) /\ driver.items = <<>>
      BY <1>3, UntoldIs, Zenon
    <3>2. e \in DriverState(TagNames, PaymentNames) /\ Opened(driver, Tags, e)
      BY <2>2, <3>1, DriverUpdates, Zenon
    <3>3. driver' = e
      BY <1>6
    <3> HIDE DEF e
    <3> QED BY <3>1, <3>2, <3>3, Zenon DEF Opened
  <2>4. DetailsTypeOK'
    BY <1>1, <1>6, <2>3, Zenon DEF DetailsTypeOK, DriverState, TagNames, PaymentNames
  <2>5. ItemsTaken' = ItemsTaken /\ Tags' = Tags /\ AllIn' /\ request'.kind = "receipt"
    BY <1>3, <1>6 DEF ItemsTaken, Tags, Given, AllIn
  <2>6. /\ Len(driver'.items) <= ItemsTaken
        /\ \A j \in 1..Len(driver'.items) : Place(driver'.items[j]) = j - 1
        /\ ItemsTaken \in 1..2
    <3>1. ItemsTaken \in 1..2
      BY <1>4, <1>6
    <3>2. driver'.items = <<>>
      BY <2>3
    <3> QED BY <3>1, <3>2
  <2>7. Registered'
    BY <2>3, <2>5, <2>6 DEF Registered
  <2>8. outcome' = "registering" /\ driver'.open
    BY <1>2, <1>6, <2>3
  <2>9. Told'
    BY <2>5, <2>7, <2>8, Zenon DEF Told
  <2> QED BY <2>1, <2>4, <2>9, Zenon DEF DetailsInv
<1> QED BY <1>5, <1>6, Zenon DEF Open

LEMMA RegisterItemStep == ASSUME DetailsInv, RegisterItem PROVE DetailsInv'
<1> DEFINE R == Rows[request.kind]
           i == CHOOSE k \in Index : Place(k) = Len(driver.items)
<1>1. DetailsTypeOK /\ TakenBefore(Body, R, row, details) /\ Told
  BY Zenon DEF DetailsInv
<1>2. /\ outcome = "registering" /\ driver.open /\ Len(driver.items) < ItemsTaken
      /\ driver' = [driver EXCEPT !.items = Append(driver.items, i)]
      /\ UNCHANGED <<request, row, details, outcome, error>>
  BY Zenon DEF RegisterItem
<1>3. driver \in DriverState(TagNames, PaymentNames)
  BY <1>1, Zenon DEF DetailsTypeOK, DriverState, TagNames, PaymentNames
<1>4. Registered
  BY <1>1, <1>2, Zenon DEF Told
<1>10. driver.items \in Seq(Index) /\ Len(driver.items) \in Nat
  <2>1. driver.items \in Seq(Index)
    BY <1>3, DriverUpdates, Zenon
  <2> QED BY <2>1
<1>5. i \in Index /\ Place(i) = Len(driver.items)
  <2>1. Len(driver.items) = 0 \/ Len(driver.items) = 1
    <3>1. ItemsTaken \in 1..2
      BY <1>4, Zenon DEF Registered
    <3>2. Len(driver.items) < ItemsTaken
      BY <1>2, Zenon
    <3>3. \A m \in Nat, k \in 1..2 : m < k => m = 0 \/ m = 1
      OBVIOUS
    <3> QED BY <1>10, <3>1, <3>2, <3>3, Zenon
  <2>2. "0" \in Index /\ "1" \in Index /\ Place("0") = 0 /\ Place("1") = 1
    BY DEF Index, Place
  <2>3. \E k \in Index : Place(k) = Len(driver.items)
    BY <2>1, <2>2, Zenon
  <2> QED BY <2>3, Zenon
<1> HIDE DEF i
<1>6. /\ driver' \in DriverState(TagNames, PaymentNames)
      /\ driver'.open = driver.open /\ driver'.tags = driver.tags
      /\ driver'.items = Append(driver.items, i)
  <2> DEFINE e == [driver EXCEPT !.items = Append(driver.items, i)]
  <2>1. e \in DriverState(TagNames, PaymentNames) /\ Listed(driver, i, e)
    BY <1>3, <1>5, DriverUpdates, Zenon
  <2>2. driver' = e
    BY <1>2
  <2> HIDE DEF e
  <2> QED BY <2>1, <2>2, Zenon DEF Listed
<1>7. TakenBefore(Body, R, row, details)'
  BY <1>1, <1>2 DEF Body
<1>8. DetailsTypeOK'
  BY <1>1, <1>2, <1>6, Zenon DEF DetailsTypeOK, DriverState, TagNames, PaymentNames
<1>9. ItemsTaken' = ItemsTaken /\ Tags' = Tags /\ AllIn' = AllIn /\ request' = request
  BY <1>2 DEF ItemsTaken, Tags, Given, AllIn
<1>11. Len(driver'.items) <= ItemsTaken
  <2>1. ItemsTaken \in 1..2 /\ Len(driver.items) < ItemsTaken
    BY <1>2, <1>4, Zenon DEF Registered
  <2>2. driver'.items = Append(driver.items, i)
    BY <1>6
  <2> QED BY <1>5, <1>10, <2>1, <2>2
<1>12. \A j \in 1..Len(driver'.items) : Place(driver'.items[j]) = j - 1
  <2>1. ASSUME NEW j \in 1..Len(driver.items) + 1 PROVE Place(Append(driver.items, i)[j]) = j - 1
    <3>1. CASE j \in 1..Len(driver.items)
      <4>1. Append(driver.items, i)[j] = driver.items[j]
        BY <1>5, <1>10, <3>1
      <4> QED BY <1>4, <3>1, <4>1 DEF Registered
    <3>2. CASE j = Len(driver.items) + 1
      <4>1. Append(driver.items, i)[j] = i
        BY <1>5, <1>10, <3>2
      <4> QED BY <1>5, <1>10, <3>2, <4>1
    <3> QED BY <1>10, <2>1, <3>1, <3>2
  <2>3. driver'.items = Append(driver.items, i)
    BY <1>6
  <2>2. Len(driver'.items) = Len(driver.items) + 1
    BY <1>5, <1>10, <2>3
  <2> QED BY <2>1, <2>2, <2>3
<1>13. Registered'
  BY <1>4, <1>6, <1>9, <1>11, <1>12 DEF Registered
<1>14. outcome' = "registering" /\ driver'.open
  BY <1>2, <1>6
<1>15. AllIn' /\ request'.kind = "receipt"
  BY <1>13, Zenon DEF Registered
<1>16. Told'
  BY <1>13, <1>14, <1>15, Zenon DEF Told
<1> QED BY <1>7, <1>8, <1>16, Zenon DEF DetailsInv

LEMMA PayAndCloseStep == ASSUME DetailsInv, PayAndClose PROVE DetailsInv'
<1> DEFINE R == Rows[request.kind]
<1>1. DetailsTypeOK /\ TakenBefore(Body, R, row, details) /\ Told
  BY Zenon DEF DetailsInv
<1>2. /\ outcome = "registering" /\ driver.open /\ Len(driver.items) = ItemsTaken
      /\ driver' = [driver EXCEPT !.payments = Payments]
      /\ outcome' = "done" /\ UNCHANGED <<request, row, details, error>>
  BY Zenon DEF PayAndClose
<1>3. driver \in DriverState(TagNames, PaymentNames)
  BY <1>1, Zenon DEF DetailsTypeOK, DriverState, TagNames, PaymentNames
<1>4. Registered
  BY <1>1, <1>2, Zenon DEF Told
<1>5. Payments \in SUBSET PaymentNames
  BY DEF Payments, PaymentNames
<1>6. /\ driver' \in DriverState(TagNames, PaymentNames)
      /\ driver'.open = driver.open /\ driver'.tags = driver.tags
      /\ driver'.items = driver.items /\ driver'.payments = Payments
  <2> DEFINE e == [driver EXCEPT !.payments = Payments]
  <2>1. e \in DriverState(TagNames, PaymentNames) /\ Paid(driver, Payments, e)
    BY <1>3, <1>5, DriverUpdates, Zenon
  <2>2. driver' = e
    BY <1>2
  <2> HIDE DEF e
  <2> QED BY <2>1, <2>2, Zenon DEF Paid
<1>7. TakenBefore(Body, R, row, details)'
  BY <1>1, <1>2 DEF Body
<1>8. DetailsTypeOK'
  BY <1>1, <1>2, <1>6, Zenon DEF DetailsTypeOK, DriverState, TagNames, PaymentNames
<1>9. /\ ItemsTaken' = ItemsTaken /\ Tags' = Tags /\ AllIn' = AllIn /\ request' = request
      /\ Payments' = Payments
  BY <1>2 DEF ItemsTaken, Tags, Given, AllIn, Payments, HasPaymentInfo
<1>10. Registered'
  BY <1>4, <1>6, <1>9 DEF Registered
<1>11. /\ outcome' = "done" /\ driver'.open /\ Len(driver'.items) = ItemsTaken'
       /\ driver'.payments = Payments'
  BY <1>2, <1>6, <1>9
<1>12. AllIn'
  BY <1>10, Zenon DEF Registered
<1>13. Told'
  BY <1>10, <1>11, <1>12, Zenon DEF Told
<1> QED BY <1>7, <1>8, <1>13, Zenon DEF DetailsInv

LEMMA DetailsStep == ASSUME DetailsInv, [DetailsNext]_detailsVars PROVE DetailsInv'
<1>1. CASE UNCHANGED detailsVars
  <2>1. UNCHANGED <<request, row, details, outcome, error, driver>>
    BY <1>1 DEF detailsVars
  <2>2. TakenBefore(Body, Rows[request.kind], row, details)'
    BY <2>1 DEF DetailsInv, Body
  <2>3. DetailsTypeOK'
    BY <2>1, Zenon DEF DetailsInv, DetailsTypeOK, DriverState, TagNames, PaymentNames
  <2>4. Told'
    BY <2>1 DEF DetailsInv, Told, AllIn, Registered, Faulty, ItemsTaken, Tags, Given,
                Payments, HasPaymentInfo, Body
  <2> QED BY <2>2, <2>3, <2>4, Zenon DEF DetailsInv
<1> QED BY <1>1, TakeKeyStep, AllTakenStep, OpenStep, RegisterItemStep, PayAndCloseStep, Zenon
        DEF DetailsNext

LEMMA DetailsHolds == DetailsSpec => []DetailsInv
<1>1. DetailsInit => DetailsInv
  BY DetailsStart
<1>2. DetailsInv /\ [DetailsNext]_detailsVars => DetailsInv'
  BY DetailsStep
<1> QED BY <1>1, <1>2, PTL DEF DetailsSpec

-----------------------------------------------------------------------------
(* What each check asks of a key that its object holds.                    *)

RowAt(r, p, c, x) == IsRow(r, p, c, x) /\ p \in Path

(* What a key that its object holds has to be, by its check.               *)
LEMMA KeyIs ==
  ASSUME Body \in Bodies, NEW r, NEW p, NEW c, NEW x, RowAt(r, p, c, x)
  PROVE  /\ Body[p] \in BodyValue /\ r.check = c /\ r.path = p /\ r.need = x
         /\ c # "item tax" =>
              (KeySound(Body, r) <=> (Has(p) /\ Cast(r, Body[p]) # Bad) \/ (~Has(p) /\ ~x))
         /\ c = "item tax" =>
              (KeySound(Body, r) <=>
                 (Has(p) /\ Cast(r, Body[p]) # Bad) \/ (~Has(p) /\ ~x /\ Has(<<"tax">>)))
<1>1. r.check = c /\ r.path = p /\ r.need = x /\ p \in Path
  BY Zenon DEF RowAt, IsRow
<1>2. Body[p] \in BodyValue
  BY <1>1, BodyForms, Zenon
<1>3. There(Body, p) <=> Has(p)
  BY Zenon DEF There, Has
<1>4. There(Body, <<"tax">>) <=> Has(<<"tax">>)
  BY Zenon DEF There, Has
<1>5. KeySound(Body, r) <=>
        (Has(p) /\ Cast(r, Body[p]) # Bad) \/ (~Has(p) /\ ~Lacking(Body, r))
  BY <1>1, <1>3, Zenon DEF KeySound
<1>6. c # "item tax" => (Lacking(Body, r) <=> x)
  BY <1>1, Zenon DEF Lacking
<1>7. c = "item tax" => (Lacking(Body, r) <=> x \/ ~Has(<<"tax">>))
  BY <1>1, <1>4, Zenon DEF Lacking
<1> QED BY <1>1, <1>2, <1>5, <1>6, <1>7, Zenon

LEMMA FlagKey ==
  ASSUME Body \in Bodies, NEW r, NEW p, RowAt(r, p, "flag", FALSE)
  PROVE  KeySound(Body, r) <=> Flagged(p)
<1>1. /\ Body[p] \in BodyValue /\ r.check = "flag"
      /\ KeySound(Body, r) <=> (Has(p) /\ Cast(r, Body[p]) # Bad) \/ (~Has(p) /\ ~FALSE)
  BY KeyIs, Zenon
<1>2. Cast(r, Body[p]) # Bad <=> IsFlagText(Body[p])
  BY <1>1, FlagFits, Zenon
<1> QED BY <1>1, <1>2, Zenon DEF Flagged, IsFlagText

LEMMA ObjectKey ==
  ASSUME Body \in Bodies, NEW r, NEW p, NEW x, RowAt(r, p, "object", x)
  PROVE  KeySound(Body, r) <=> Has(p) \/ ~x
<1>1. /\ Body[p] \in BodyValue /\ r.check = "object"
      /\ KeySound(Body, r) <=> (Has(p) /\ Cast(r, Body[p]) # Bad) \/ (~Has(p) /\ ~x)
  BY KeyIs, Zenon
<1>2. Cast(r, Body[p]) # Bad
  BY <1>1, ObjectFits, Zenon
<1> QED BY <1>1, <1>2, Zenon

LEMMA ArrayKey ==
  ASSUME Body \in Bodies, NEW r, NEW p, RowAt(r, p, "array", TRUE)
  PROVE  KeySound(Body, r) <=> Body[p].type = "array"
<1>1. /\ Body[p] \in BodyValue /\ r.check = "array"
      /\ KeySound(Body, r) <=> (Has(p) /\ Cast(r, Body[p]) # Bad) \/ (~Has(p) /\ ~TRUE)
  BY KeyIs, Zenon
<1>2. Cast(r, Body[p]) # Bad <=> Body[p].type = "array"
  BY <1>1, ArrayFits, Zenon
<1> QED BY <1>1, <1>2, Zenon DEF Has

LEMMA TitleKey ==
  ASSUME Body \in Bodies, NEW r, NEW p, RowAt(r, p, "title", TRUE)
  PROVE  KeySound(Body, r) <=> Titled(p)
<1>1. /\ Body[p] \in BodyValue /\ r.check = "title"
      /\ KeySound(Body, r) <=> (Has(p) /\ Cast(r, Body[p]) # Bad) \/ (~Has(p) /\ ~TRUE)
  BY KeyIs, Zenon
<1>2. Cast(r, Body[p]) # Bad <=> IsText(Body[p]) /\ Body[p].text \notin {"", "blank", "long"}
  BY <1>1, TitleFits, Zenon
<1> QED BY <1>1, <1>2, Zenon DEF Titled

LEMMA TextKey ==
  ASSUME Body \in Bodies, NEW r, NEW p, NEW x, RowAt(r, p, "text", x)
  PROVE  KeySound(Body, r) <=> Written(p) \/ (~Has(p) /\ ~x)
<1>1. /\ Body[p] \in BodyValue /\ r.check = "text"
      /\ KeySound(Body, r) <=> (Has(p) /\ Cast(r, Body[p]) # Bad) \/ (~Has(p) /\ ~x)
  BY KeyIs, Zenon
<1>2. Cast(r, Body[p]) # Bad <=> IsText(Body[p]) /\ Body[p].text \notin {"", "long"}
  BY <1>1, TextFits, Zenon
<1> QED BY <1>1, <1>2, Zenon DEF Written

LEMMA NoteKey ==
  ASSUME Body \in Bodies, NEW r, NEW p, RowAt(r, p, "note", FALSE)
  PROVE  KeySound(Body, r) <=> Noted(p)
<1>1. /\ Body[p] \in BodyValue /\ r.check = "note"
      /\ KeySound(Body, r) <=> (Has(p) /\ Cast(r, Body[p]) # Bad) \/ (~Has(p) /\ ~FALSE)
  BY KeyIs, Zenon
<1>2. Cast(r, Body[p]) # Bad <=> IsText(Body[p]) /\ Body[p].text # "long"
  BY <1>1, NoteFits, Zenon
<1> QED BY <1>1, <1>2, Zenon DEF Noted

LEMMA BoundsAre ==
  /\ MinCashInOut \in Int /\ MaxCashInOut \in Int /\ MinPrice \in Int /\ MinMaxPrice \in Int
  /\ MaxPrice \in Int /\ MinQuantity \in Int /\ MaxQuantity \in Int
  /\ MinPrice <= MinMaxPrice
  BY DetailsAssumption DEF DetailsAssumption

LEMMA AmountKey ==
  ASSUME Body \in Bodies, NEW r, NEW p, NEW c, NEW min \in Int, NEW max \in Int,
         RowAt(r, p, c, TRUE), c # "item tax",
         Cast(r, Body[p]) = Amount(Body[p], min, max)
  PROVE  KeySound(Body, r) <=> Within(p, min, max)
<1>1. /\ Body[p] \in BodyValue
      /\ KeySound(Body, r) <=> (Has(p) /\ Cast(r, Body[p]) # Bad) \/ (~Has(p) /\ ~TRUE)
  BY KeyIs, Zenon
<1>2. Amount(Body[p], min, max) # Bad <=> Fitting(Body[p], min, max)
  BY <1>1, AmountFits
<1>3. Cast(r, Body[p]) # Bad <=> Fitting(Body[p], min, max)
  BY <1>2
<1> QED BY <1>1, <1>3, Zenon DEF Within, Numeral, Fitting

LEMMA AmountKeys ==
  ASSUME Body \in Bodies, NEW r, NEW p
  PROVE  /\ RowAt(r, p, "cash", TRUE) =>
              (KeySound(Body, r) <=> Within(p, MinCashInOut, MaxCashInOut))
         /\ RowAt(r, p, "price", TRUE) =>
              (KeySound(Body, r) <=> Within(p, MinPrice, MaxPrice))
         /\ RowAt(r, p, "quantity", TRUE) =>
              (KeySound(Body, r) <=> Within(p, MinQuantity, MaxQuantity))
<1>1. ASSUME RowAt(r, p, "cash", TRUE)
      PROVE  KeySound(Body, r) <=> Within(p, MinCashInOut, MaxCashInOut)
  <2>1. r.check = "cash"
    BY <1>1, Zenon DEF RowAt, IsRow
  <2>2. Cast(r, Body[p]) = Amount(Body[p], MinCashInOut, MaxCashInOut)
    BY <2>1, CastIs, Zenon
  <2>3. "cash" # "item tax"
    BY Zenon
  <2> QED BY <1>1, <2>2, <2>3, BoundsAre, AmountKey, Zenon
<1>2. ASSUME RowAt(r, p, "price", TRUE)
      PROVE  KeySound(Body, r) <=> Within(p, MinPrice, MaxPrice)
  <2>1. r.check = "price"
    BY <1>2, Zenon DEF RowAt, IsRow
  <2>2. Cast(r, Body[p]) = Amount(Body[p], MinPrice, MaxPrice)
    BY <2>1, CastIs, Zenon
  <2>3. "price" # "item tax"
    BY Zenon
  <2> QED BY <1>2, <2>2, <2>3, BoundsAre, AmountKey, Zenon
<1>3. ASSUME RowAt(r, p, "quantity", TRUE)
      PROVE  KeySound(Body, r) <=> Within(p, MinQuantity, MaxQuantity)
  <2>1. r.check = "quantity"
    BY <1>3, Zenon DEF RowAt, IsRow
  <2>2. Cast(r, Body[p]) = Amount(Body[p], MinQuantity, MaxQuantity)
    BY <2>1, CastIs, Zenon
  <2>3. "quantity" # "item tax"
    BY Zenon
  <2> QED BY <1>3, <2>2, <2>3, BoundsAre, AmountKey, Zenon
<1> QED BY <1>1, <1>2, <1>3, Zenon

WholeNumber(p) ==
    /\ Numeral(p) /\ Body[p].num # NaN
    /\ ~(Body[p].type = "string" /\ Body[p].text = "decimal")

LEMMA IntegerKey ==
  ASSUME Body \in Bodies, NEW r, NEW p, RowAt(r, p, "integer", TRUE)
  PROVE  KeySound(Body, r) <=> WholeNumber(p)
<1>1. /\ Body[p] \in BodyValue /\ r.check = "integer"
      /\ KeySound(Body, r) <=> (Has(p) /\ Cast(r, Body[p]) # Bad) \/ (~Has(p) /\ ~TRUE)
  BY KeyIs, Zenon
<1>2. Cast(r, Body[p]) # Bad <=> Whole(Body[p])
  BY <1>1, IntegerFits, Zenon
<1> QED BY <1>1, <1>2, Zenon DEF WholeNumber, Numeral, Whole

LEMMA SumKey ==
  ASSUME Body \in Bodies, NEW r, NEW p, RowAt(r, p, "sum", TRUE)
  PROVE  KeySound(Body, r) <=>
           /\ Has(p) /\ Body[p].type \in {"string", "number"}
           /\ Body[p].num # NoNumber \/ Body[p].text = "auto"
<1>1. /\ Body[p] \in BodyValue /\ r.check = "sum"
      /\ KeySound(Body, r) <=> (Has(p) /\ Cast(r, Body[p]) # Bad) \/ (~Has(p) /\ ~TRUE)
  BY KeyIs, Zenon
<1>2. Cast(r, Body[p]) # Bad <=>
        Body[p].type \in {"string", "number"} /\ (Body[p].num # NoNumber \/ Body[p].text = "auto")
  BY <1>1, SumFits, Zenon
<1> QED BY <1>1, <1>2, Zenon

(* Whoever has made a choice has said something.                           *)
LEMMA ChosenIs ==
  ASSUME NEW p, NEW words, NEW codes
  PROVE  /\ Chosen(p, words, codes) <=> Picks(Body[p], words, codes)
         /\ Chosen(p, words, codes) => Has(p)
<1>1. IsText(Body[p]) => Has(p)
  BY Zenon DEF IsText, Has
<1> QED BY <1>1, Zenon DEF Chosen, Picks

IsCashPayment == Chosen(<<"payment", "type">>, {"cash"}, {CashCode})

LEMMA ElectronicIs ==
  /\ IsCashPayment <=> PicksCash(Body[<<"payment", "type">>])
  /\ Electronic <=> PicksElectronic(Body[<<"payment", "type">>])
  /\ IsCashPayment \/ Electronic => Has(<<"payment", "type">>)
  /\ ~(IsCashPayment /\ Electronic)
<1>1. /\ IsCashPayment <=> PicksCash(Body[<<"payment", "type">>])
      /\ IsCashPayment => Has(<<"payment", "type">>)
  BY ChosenIs, Zenon DEF IsCashPayment, PicksCash
<1>2. /\ Electronic <=> PicksElectronic(Body[<<"payment", "type">>])
      /\ Electronic => Has(<<"payment", "type">>)
  BY ChosenIs, Zenon DEF Electronic, PicksElectronic
<1>3. ASSUME NEW v PROVE ~(PicksCash(v) /\ PicksElectronic(v))
  <2>1. CashCode # ElectronicCode
    BY DetailsAssumption DEF DetailsAssumption
  <2> QED BY <2>1, Zenon DEF PicksCash, PicksElectronic, Picks
<1> QED BY <1>1, <1>2, <1>3, Zenon

LEMMA TypeKey ==
  ASSUME Body \in Bodies, NEW r, RowAt(r, <<"payment", "type">>, "payment type", TRUE)
  PROVE  KeySound(Body, r) <=> IsCashPayment \/ Electronic
<1> DEFINE p == <<"payment", "type">>
<1>1. /\ Body[p] \in BodyValue /\ r.check = "payment type"
      /\ KeySound(Body, r) <=> (Has(p) /\ Cast(r, Body[p]) # Bad) \/ (~Has(p) /\ ~TRUE)
  BY KeyIs, Zenon
<1>2. Cast(r, Body[p]) # Bad <=> PicksCash(Body[p]) \/ PicksElectronic(Body[p])
  <2> HIDE DEF p
  <2> QED BY <1>1, TypeFits, Zenon
<1> QED BY <1>1, <1>2, ElectronicIs, Zenon

LEMMA UnitKey ==
  ASSUME Body \in Bodies, NEW r, NEW p, RowAt(r, p, "unit", FALSE)
  PROVE  KeySound(Body, r) <=> ~Has(p) \/ Chosen(p, {"piece"}, UnitCodes)
<1>1. /\ Body[p] \in BodyValue /\ r.check = "unit"
      /\ KeySound(Body, r) <=> (Has(p) /\ Cast(r, Body[p]) # Bad) \/ (~Has(p) /\ ~FALSE)
  BY KeyIs, Zenon
<1>2. Cast(r, Body[p]) # Bad <=> Picks(Body[p], {"piece"}, UnitCodes)
  BY <1>1, WordsFit, Zenon
<1> QED BY <1>1, <1>2, ChosenIs, Zenon

LEMMA TaxKey ==
  ASSUME Body \in Bodies, NEW r, NEW p, RowAt(r, p, "tax", FALSE)
  PROVE  KeySound(Body, r) <=> ~Has(p) \/ TaxSound(p)
<1>1. /\ Body[p] \in BodyValue /\ r.check = "tax"
      /\ KeySound(Body, r) <=> (Has(p) /\ Cast(r, Body[p]) # Bad) \/ (~Has(p) /\ ~FALSE)
  BY KeyIs, Zenon
<1>2. Cast(r, Body[p]) # Bad <=> Picks(Body[p], {"no", "vat10"}, TaxCodes)
  BY <1>1, WordsFit, Zenon
<1> QED BY <1>1, <1>2, ChosenIs, Zenon DEF TaxSound

LEMMA ItemTaxKey ==
  ASSUME Body \in Bodies, NEW r, NEW p, RowAt(r, p, "item tax", FALSE)
  PROVE  KeySound(Body, r) <=> TaxSound(p) \/ (~Has(p) /\ Has(<<"tax">>))
<1>1. /\ Body[p] \in BodyValue /\ r.check = "item tax"
      /\ KeySound(Body, r) <=>
           (Has(p) /\ Cast(r, Body[p]) # Bad) \/ (~Has(p) /\ ~FALSE /\ Has(<<"tax">>))
  BY KeyIs, Zenon
<1>2. Cast(r, Body[p]) # Bad <=> Picks(Body[p], {"no", "vat10"}, TaxCodes)
  BY <1>1, WordsFit, Zenon
<1> QED BY <1>1, <1>2, ChosenIs, Zenon DEF TaxSound

-----------------------------------------------------------------------------
(* What a row asks of a body, by where its key is.                         *)
Sounds(r) == RowSound(Body, r)

LEMMA TopRow ==
  ASSUME Body \in Bodies, NEW r, NEW a, NEW c, NEW x, RowAt(r, <<a>>, c, x), Plain(c)
  PROVE  Sounds(r) <=> KeySound(Body, r)
<1> DEFINE p == <<a>>
<1>1. r.path = p /\ r.check # "item" /\ p \in Path
  BY Zenon DEF RowAt, IsRow, Plain
<1>2. Len(p) = 1 /\ Len(p) \in {1, 2, 3}
  BY TupleParts, Zenon
<1> HIDE DEF p
<1>3. Reached(Body, p)
  BY <1>2, TopReached, Zenon
<1>4. Above(Body, p).type = "object"
  BY <1>2, FormsAre, Zenon DEF Above
<1> QED BY <1>1, <1>2, <1>3, <1>4, SoundMeans, Zenon DEF Sounds

(* A row below another: where it is reached and what is above it.          *)
LEMMA LowerRow ==
  ASSUME Body \in Bodies, NEW r, NEW p, NEW c, NEW x, RowAt(r, p, c, x), c # "item",
         Len(p) \in {2, 3}, NEW q, Front(p) = q
  PROVE  Sounds(r) <=>
           (Reached(Body, p) =>
              \/ Body[q].type = "object" /\ KeySound(Body, r)
              \/ Body[q].type = "null" /\ ~Lacking(Body, r))
<1>1. r.path = p /\ r.check # "item" /\ p \in Path
  BY Zenon DEF RowAt, IsRow
<1>2. Len(p) # 1 /\ Len(p) \in {1, 2, 3}
  OBVIOUS
<1>3. Above(Body, p) = Body[q]
  BY <1>2, Zenon DEF Above
<1> QED BY <1>1, <1>2, <1>3, SoundMeans, Zenon DEF Sounds

LEMMA MemberRow ==
  ASSUME Body \in Bodies, NEW r, NEW a, NEW k, NEW c, NEW x, RowAt(r, <<a, k>>, c, x),
         Plain(c), a # "items", a # "document", k # "electroPaymentInfo"
  PROVE  Sounds(r) <=> (Has(<<a>>) => IsObject(<<a>>) /\ KeySound(Body, r))
<1> DEFINE p == <<a, k>>
<1>1. /\ Len(p) = 2 /\ Len(p) >= 2 /\ Len(p) \in {2, 3} /\ Front(p) = <<a>>
      /\ p[1] = a /\ p[2] = k /\ c # "item"
  BY TupleParts, Fronts, Zenon DEF Plain
<1> HIDE DEF p
<1>2. ~InArray(p) /\ p[1] # "document" /\ p[2] # "electroPaymentInfo"
  BY <1>1, Zenon DEF InArray
<1>3. Reached(Body, p) <=> There(Body, <<a>>)
  BY <1>1, <1>2, Zenon DEF Reached
<1>4. RowAt(r, p, c, x)
  BY Zenon DEF p
<1>5. Sounds(r) <=>
        (Reached(Body, p) =>
           \/ Body[<<a>>].type = "object" /\ KeySound(Body, r)
           \/ Body[<<a>>].type = "null" /\ ~Lacking(Body, r))
  BY <1>1, <1>4, LowerRow, Zenon
<1> QED BY <1>3, <1>5, Zenon DEF There, Has, IsObject

LEMMA ElectroRow ==
  ASSUME Body \in Bodies, NEW r, RowAt(r, <<"payment", "electroPaymentInfo">>, "object", FALSE)
  PROVE  Sounds(r) <=> (Has(<<"payment">>) /\ Electronic => IsObject(<<"payment">>))
<1> DEFINE p == <<"payment", "electroPaymentInfo">>
<1>1. /\ Len(p) = 2 /\ Len(p) >= 2 /\ Len(p) \in {2, 3} /\ Front(p) = <<"payment">>
      /\ p[1] = "payment" /\ p[2] = "electroPaymentInfo"
  BY TupleParts, Fronts, Zenon
<1> HIDE DEF p
<1>2. ~InArray(p) /\ p[1] # "document"
  BY <1>1, Zenon DEF InArray
<1>3. Reached(Body, p) <=> There(Body, <<"payment">>) /\ Electronic
  BY <1>1, <1>2, ElectronicIs, Zenon DEF Reached
<1>4. RowAt(r, p, "object", FALSE) /\ "object" # "item"
  BY Zenon DEF p
<1>5. Sounds(r) <=>
        (Reached(Body, p) =>
           \/ Body[<<"payment">>].type = "object" /\ KeySound(Body, r)
           \/ Body[<<"payment">>].type = "null" /\ ~Lacking(Body, r))
  BY <1>1, <1>4, LowerRow, Zenon
<1>6. KeySound(Body, r) <=> Has(p) \/ ~FALSE
  BY <1>4, ObjectKey, Zenon
<1> QED BY <1>3, <1>5, <1>6, Zenon DEF There, Has, IsObject

LEMMA ElectroMemberRow ==
  ASSUME Body \in Bodies, NEW r, NEW k, NEW c, NEW x, Plain(c),
         RowAt(r, <<"payment", "electroPaymentInfo", k>>, c, x)
  PROVE  LET e == <<"payment", "electroPaymentInfo">> IN
         Sounds(r) <=>
           (Has(<<"payment">>) /\ Electronic /\ Has(e) => IsObject(e) /\ KeySound(Body, r))
<1> DEFINE p == <<"payment", "electroPaymentInfo", k>>
           e == <<"payment", "electroPaymentInfo">>
<1>7. Front(p) = e
  BY Fronts, Zenon
<1>8. /\ Len(p) = 3 /\ Len(p) >= 2 /\ p[1] = "payment" /\ p[2] = "electroPaymentInfo"
      /\ c # "item"
  BY TupleParts, Zenon DEF Plain
<1>1. /\ Len(p) = 3 /\ Len(p) >= 2 /\ Len(p) \in {2, 3} /\ Front(p) = e
      /\ p[1] = "payment" /\ p[2] = "electroPaymentInfo" /\ c # "item"
  BY <1>7, <1>8, Zenon
<1> HIDE DEF p, e
<1>2. ~InArray(p) /\ p[1] # "document"
  BY <1>1, Zenon DEF InArray
<1>3. Reached(Body, p) <=> There(Body, e) /\ There(Body, <<"payment">>) /\ Electronic
  BY <1>1, <1>2, ElectronicIs, Zenon DEF Reached
<1>4. RowAt(r, p, c, x)
  BY Zenon DEF p
<1>5. Sounds(r) <=>
        (Reached(Body, p) =>
           \/ Body[e].type = "object" /\ KeySound(Body, r)
           \/ Body[e].type = "null" /\ ~Lacking(Body, r))
  BY <1>1, <1>4, LowerRow, Zenon
<1>6. Sounds(r) <=>
        (Has(<<"payment">>) /\ Electronic /\ Has(e) => IsObject(e) /\ KeySound(Body, r))
  BY <1>3, <1>5, Zenon DEF There, Has, IsObject
<1> QED BY <1>6, Zenon DEF e

(* A key of an element.                                                    *)
LEMMA ElementRow ==
  ASSUME Body \in Bodies, NEW r, NEW a, NEW i, NEW k, NEW c, NEW x,
         RowAt(r, <<a, i, k>>, c, x), c # "item"
  PROVE  Sounds(r) <=>
           (Reached(Body, <<a, i, k>>) =>
              \/ IsObject(<<a, i>>) /\ KeySound(Body, r)
              \/ Body[<<a, i>>].type = "null" /\ ~Lacking(Body, r))
<1> DEFINE p == <<a, i, k>>
           q == <<a, i>>
<1>4. Front(p) = q
  BY Fronts, Zenon
<1>5. Len(p) = 3
  BY TupleParts, Zenon
<1>1. Len(p) \in {2, 3} /\ Front(p) = q
  BY <1>4, <1>5, Zenon
<1> HIDE DEF p, q
<1>2. RowAt(r, p, c, x)
  BY Zenon DEF p
<1>3. Sounds(r) <=>
           (Reached(Body, p) =>
              \/ IsObject(q) /\ KeySound(Body, r)
              \/ Body[q].type = "null" /\ ~Lacking(Body, r))
  BY <1>1, <1>2, LowerRow, Zenon DEF IsObject
<1> QED BY <1>3, Zenon DEF p, q

LEMMA IndexPlain == \A i \in Index : i # "electroPaymentInfo"
  BY Zenon DEF Index

LEMMA ItemKeyRow ==
  ASSUME Body \in Bodies, NEW r, NEW i \in Index, NEW k, NEW c, NEW x,
         RowAt(r, <<"items", i, k>>, c, x), c # "item"
  PROVE  Sounds(r) <=>
           (Place(i) < Body[<<"items">>].num =>
              \/ IsObject(<<"items", i>>) /\ KeySound(Body, r)
              \/ Body[<<"items", i>>].type = "null" /\ ~Lacking(Body, r))
<1>1. Reached(Body, <<"items", i, k>>) <=> Place(i) < Body[<<"items">>].num
  BY IndexPlain, ElementReached, Zenon
<1> QED BY <1>1, ElementRow, Zenon

LEMMA SeparatorRow ==
  ASSUME Body \in Bodies, NEW r, NEW i \in Index,
         RowAt(r, <<"document", i, "separator">>, "flag", FALSE)
  PROVE  Sounds(r) <=>
           (Place(i) < Body[<<"document">>].num =>
              \/ IsObject(<<"document", i>>) /\ Flagged(<<"document", i, "separator">>)
              \/ Body[<<"document", i>>].type = "null")
<1>1. Reached(Body, <<"document", i, "separator">>) <=> Place(i) < Body[<<"document">>].num
  BY IndexPlain, ElementReached, Zenon
<1>2. r.need = FALSE /\ r.check = "flag"
  BY Zenon DEF RowAt, IsRow
<1>3. ~Lacking(Body, r)
  BY <1>2, Zenon DEF Lacking
<1>4. KeySound(Body, r) <=> Flagged(<<"document", i, "separator">>)
  BY FlagKey, Zenon
<1>5. "flag" # "item"
  BY Zenon
<1>6. Sounds(r) <=>
           (Reached(Body, <<"document", i, "separator">>) =>
              \/ IsObject(<<"document", i>>) /\ KeySound(Body, r)
              \/ Body[<<"document", i>>].type = "null" /\ ~Lacking(Body, r))
  BY <1>5, ElementRow, Zenon
<1> QED BY <1>1, <1>3, <1>4, <1>6, Zenon

LEMMA BlockRow ==
  ASSUME Body \in Bodies, NEW r, NEW i \in Index, NEW k, NEW c, NEW x, Plain(c),
         k # "separator", RowAt(r, <<"document", i, k>>, c, x)
  PROVE  Sounds(r) <=>
           (/\ Place(i) < Body[<<"document">>].num
            /\ ~IsTrue(Body[<<"document", i, "separator">>])
            =>
              \/ IsObject(<<"document", i>>) /\ KeySound(Body, r)
              \/ Body[<<"document", i>>].type = "null" /\ ~x)
<1> DEFINE p == <<"document", i, k>>
<1>1. Len(p) = 3 /\ Len(p) >= 2 /\ p[1] = "document" /\ p[2] = i /\ p[3] = k
  BY TupleParts, Zenon
<1> HIDE DEF p
<1>2. InArray(p) /\ p[2] # "electroPaymentInfo"
  BY <1>1, IndexPlain, Zenon DEF InArray
<1>3. Reached(Body, p) <=>
        /\ Place(p[2]) < Body[<<p[1]>>].num
        /\ ~IsTrue(Body[<<"document", p[2], "separator">>])
  BY <1>1, <1>2, Zenon DEF Reached
<1>4. Reached(Body, p) <=>
        /\ Place(i) < Body[<<"document">>].num
        /\ ~IsTrue(Body[<<"document", i, "separator">>])
  BY <1>1, <1>3
<1>5. r.need = x /\ r.check # "item tax" /\ c # "item"
  BY Zenon DEF RowAt, IsRow, Plain
<1>6. Lacking(Body, r) <=> x
  BY <1>5, Zenon DEF Lacking
<1>7. Sounds(r) <=>
           (Reached(Body, p) =>
              \/ IsObject(<<"document", i>>) /\ KeySound(Body, r)
              \/ Body[<<"document", i>>].type = "null" /\ ~Lacking(Body, r))
  BY <1>5, ElementRow, Zenon DEF p
<1> QED BY <1>4, <1>6, <1>7, Zenon

LEMMA ItemRow ==
  ASSUME Body \in Bodies, NEW r, NEW i \in Index, RowAt(r, <<"items", i>>, "item", TRUE)
  PROVE  Sounds(r) <=>
           (Place(i) < Body[<<"items">>].num =>
              /\ Between(Body[<<"items", i, "price">>], MinMaxPrice, MaxPrice)
              /\ Between(Body[<<"items", i, "quantity">>], MinQuantity, MaxQuantity))
<1> DEFINE p == <<"items", i>>
<1>1. Len(p) = 2 /\ Len(p) >= 2 /\ Len(p) # 3 /\ p[1] = "items" /\ p[2] = i
  BY TupleParts, Zenon
<1>2. AmountsFit(Body, p) <=>
              /\ Between(Body[<<"items", i, "price">>], MinMaxPrice, MaxPrice)
              /\ Between(Body[<<"items", i, "quantity">>], MinQuantity, MaxQuantity)
  <2>1. Append(p, "price") = <<"items", i, "price">> /\ Append(p, "quantity") = <<"items", i, "quantity">>
    BY Fronts, Zenon
  <2> HIDE DEF p
  <2> QED BY <2>1, Zenon DEF AmountsFit
<1> HIDE DEF p
<1>3. InArray(p) /\ p[2] # "electroPaymentInfo"
  BY <1>1, IndexPlain, Zenon DEF InArray
<1>4. Reached(Body, p) <=> Place(p[2]) < Body[<<p[1]>>].num
  BY <1>1, <1>3, Zenon DEF Reached
<1>5. Reached(Body, p) <=> Place(i) < Body[<<"items">>].num
  BY <1>1, <1>4
<1>6. r.check = "item" /\ r.path = p
  BY Zenon DEF RowAt, IsRow, p
<1>7. Found(Body, r) = Object /\ Object # Bad /\ Object.type \notin {"missing", "null"}
  BY <1>6, FormsAre, Zenon DEF Found
<1>8. IsFound(Body, r)
  BY <1>7, Zenon DEF IsFound
<1>9. Meant(Body, r) = If(AmountsFit(Body, p), Object)
  BY <1>6, <1>7, Zenon DEF Meant
<1>10. Meant(Body, r) # Bad <=> AmountsFit(Body, p)
  BY <1>7, <1>9, Zenon DEF If
<1> QED BY <1>2, <1>5, <1>6, <1>8, <1>10, Zenon DEF Sounds, RowSound

-----------------------------------------------------------------------------
(* The rows of an object together, and the reference definition of it.     *)

LEMMA ObjectIsThere == \A p : IsObject(p) => Has(p)
<1>1. "object" \notin {"missing", "null"}
  BY Zenon
<1> QED BY <1>1, Zenon DEF IsObject, Has

LEMMA OperatorIs ==
  ASSUME Body \in Bodies, NEW r1, NEW r2, NEW r3, NEW r4,
         RowAt(r1, <<"electronically">>, "flag", FALSE),
         RowAt(r2, <<"operator">>, "object", TRUE),
         RowAt(r3, <<"operator", "name">>, "title", TRUE),
         RowAt(r4, <<"operator", "inn">>, "note", FALSE)
  PROVE  Sounds(r1) /\ Sounds(r2) /\ Sounds(r3) /\ Sounds(r4) <=> OperatorSound
<1>1. Sounds(r1) <=> Flagged(<<"electronically">>)
  BY TopRow, PlainChecks, FlagKey, Zenon
<1>2. Sounds(r2) <=> Has(<<"operator">>)
  BY TopRow, PlainChecks, ObjectKey, Zenon
<1>3. Sounds(r3) <=>
        (Has(<<"operator">>) => IsObject(<<"operator">>) /\ Titled(<<"operator", "name">>))
  BY MemberRow, PlainChecks, TitleKey, Zenon
<1>4. Sounds(r4) <=>
        (Has(<<"operator">>) => IsObject(<<"operator">>) /\ Noted(<<"operator", "inn">>))
  BY MemberRow, PlainChecks, NoteKey, Zenon
<1> QED BY <1>1, <1>2, <1>3, <1>4, ObjectIsThere, Zenon DEF OperatorSound

LEMMA PartiesAre ==
  ASSUME Body \in Bodies, NEW r5, NEW r6, NEW r7, NEW r8, NEW r9,
         RowAt(r5, <<"customer">>, "object", FALSE),
         RowAt(r6, <<"customer", "contact">>, "note", FALSE),
         RowAt(r7, <<"customer", "inn">>, "note", FALSE),
         RowAt(r8, <<"seller">>, "object", FALSE),
         RowAt(r9, <<"seller", "email">>, "note", FALSE)
  PROVE  Sounds(r5) /\ Sounds(r6) /\ Sounds(r7) /\ Sounds(r8) /\ Sounds(r9) <=>
           PartySound("customer", {"contact", "inn"}) /\ PartySound("seller", {"email"})
<1>1. Sounds(r5) /\ Sounds(r8)
  <2>1. Sounds(r5) <=> Has(<<"customer">>) \/ ~FALSE
    BY TopRow, PlainChecks, ObjectKey, Zenon
  <2>2. Sounds(r8) <=> Has(<<"seller">>) \/ ~FALSE
    BY TopRow, PlainChecks, ObjectKey, Zenon
  <2> QED BY <2>1, <2>2
<1>2. Sounds(r6) <=>
        (Has(<<"customer">>) => IsObject(<<"customer">>) /\ Noted(<<"customer", "contact">>))
  BY MemberRow, PlainChecks, NoteKey, Zenon
<1>3. Sounds(r7) <=>
        (Has(<<"customer">>) => IsObject(<<"customer">>) /\ Noted(<<"customer", "inn">>))
  BY MemberRow, PlainChecks, NoteKey, Zenon
<1>4. Sounds(r9) <=>
        (Has(<<"seller">>) => IsObject(<<"seller">>) /\ Noted(<<"seller", "email">>))
  BY MemberRow, PlainChecks, NoteKey, Zenon
<1>5. PartySound("customer", {"contact", "inn"}) <=>
        \/ ~Has(<<"customer">>)
        \/ /\ IsObject(<<"customer">>)
           /\ Noted(<<"customer", "contact">>) /\ Noted(<<"customer", "inn">>)
  BY Zenon DEF PartySound
<1>6. PartySound("seller", {"email"}) <=>
        ~Has(<<"seller">>) \/ (IsObject(<<"seller">>) /\ Noted(<<"seller", "email">>))
  BY Zenon DEF PartySound
<1> QED BY <1>1, <1>2, <1>3, <1>4, <1>5, <1>6, Zenon

LEMMA TextIs ==
  ASSUME Body \in Bodies, NEW r10, NEW r11, NEW r12, NEW r13, NEW r14,
         RowAt(r10, <<"text">>, "object", FALSE),
         RowAt(r11, <<"text", "content">>, "text", FALSE),
         RowAt(r12, <<"text", "center">>, "flag", FALSE),
         RowAt(r13, <<"text", "magnified">>, "flag", FALSE),
         RowAt(r14, <<"text", "separated">>, "flag", FALSE)
  PROVE  Sounds(r10) /\ Sounds(r11) /\ Sounds(r12) /\ Sounds(r13) /\ Sounds(r14) <=> TextSound
<1>1. Sounds(r10)
  <2>1. Sounds(r10) <=> Has(<<"text">>) \/ ~FALSE
    BY TopRow, PlainChecks, ObjectKey, Zenon
  <2> QED BY <2>1
<1>2. Sounds(r11) <=>
        (Has(<<"text">>) =>
           /\ IsObject(<<"text">>)
           /\ Written(<<"text", "content">>) \/ ~Has(<<"text", "content">>))
  <2>1. Sounds(r11) <=>
          (Has(<<"text">>) => IsObject(<<"text">>) /\ KeySound(Body, r11))
    BY MemberRow, PlainChecks, Zenon
  <2>2. KeySound(Body, r11) <=>
          Written(<<"text", "content">>) \/ (~Has(<<"text", "content">>) /\ ~FALSE)
    BY TextKey, Zenon
  <2> QED BY <2>1, <2>2, Zenon
<1>3. Sounds(r12) <=>
        (Has(<<"text">>) => IsObject(<<"text">>) /\ Flagged(<<"text", "center">>))
  BY MemberRow, PlainChecks, FlagKey, Zenon
<1>4. Sounds(r13) <=>
        (Has(<<"text">>) => IsObject(<<"text">>) /\ Flagged(<<"text", "magnified">>))
  BY MemberRow, PlainChecks, FlagKey, Zenon
<1>5. Sounds(r14) <=>
        (Has(<<"text">>) => IsObject(<<"text">>) /\ Flagged(<<"text", "separated">>))
  BY MemberRow, PlainChecks, FlagKey, Zenon
<1>6. TextSound <=>
        \/ ~Has(<<"text">>)
        \/ /\ IsObject(<<"text">>)
           /\ ~Has(<<"text", "content">>) \/ Written(<<"text", "content">>)
           /\ Flagged(<<"text", "center">>) /\ Flagged(<<"text", "magnified">>)
           /\ Flagged(<<"text", "separated">>)
  BY Zenon DEF TextSound
<1> QED BY <1>1, <1>2, <1>3, <1>4, <1>5, <1>6, Zenon

PaymentAt(r1, r2, r3, r4, r5, r6, r7) ==
    /\ RowAt(r1, <<"payment">>, "object", TRUE)
    /\ RowAt(r2, <<"payment", "sum">>, "sum", TRUE)
    /\ RowAt(r3, <<"payment", "type">>, "payment type", TRUE)
    /\ RowAt(r4, <<"payment", "electroPaymentInfo">>, "object", FALSE)
    /\ RowAt(r5, <<"payment", "electroPaymentInfo", "method">>, "integer", TRUE)
    /\ RowAt(r6, <<"payment", "electroPaymentInfo", "id">>, "text", TRUE)
    /\ RowAt(r7, <<"payment", "electroPaymentInfo", "addInfo">>, "note", FALSE)

PaymentRowsSound(r1, r2, r3, r4, r5, r6, r7) ==
    /\ Sounds(r1) /\ Sounds(r2) /\ Sounds(r3)
    /\ Sounds(r4) /\ Sounds(r5) /\ Sounds(r6) /\ Sounds(r7)

LEMMA PaymentIs ==
  ASSUME Body \in Bodies,
         NEW r1, NEW r2, NEW r3, NEW r4, NEW r5, NEW r6, NEW r7,
         PaymentAt(r1, r2, r3, r4, r5, r6, r7)
  PROVE  PaymentRowsSound(r1, r2, r3, r4, r5, r6, r7) <=> PaymentSound
<1> USE DEF PaymentAt
<1> DEFINE q == <<"payment">>
           s == <<"payment", "sum">>
           e == <<"payment", "electroPaymentInfo">>
           m == <<"payment", "electroPaymentInfo", "method">>
           d == <<"payment", "electroPaymentInfo", "id">>
           i == <<"payment", "electroPaymentInfo", "addInfo">>
           SumIs == /\ Has(s) /\ Body[s].type \in {"string", "number"}
                    /\ Body[s].num # NoNumber \/ Body[s].text = "auto"
           TypeIs == IsCashPayment \/ Electronic
<1>1. Sounds(r1) <=> Has(q)
  BY TopRow, PlainChecks, ObjectKey, Zenon
<1>2. Sounds(r2) <=> (Has(q) => IsObject(q) /\ SumIs)
  <2>1. Sounds(r2) <=> (Has(q) => IsObject(q) /\ KeySound(Body, r2))
    BY MemberRow, PlainChecks, Zenon
  <2> QED BY <2>1, SumKey, Zenon
<1>3. Sounds(r3) <=> (Has(q) => IsObject(q) /\ TypeIs)
  <2>1. Sounds(r3) <=> (Has(q) => IsObject(q) /\ KeySound(Body, r3))
    BY MemberRow, PlainChecks, Zenon
  <2> QED BY <2>1, TypeKey, Zenon
<1>4. Sounds(r4) <=> (Has(q) /\ Electronic => IsObject(q))
  BY ElectroRow, Zenon
<1>5. Sounds(r5) <=> (Has(q) /\ Electronic /\ Has(e) => IsObject(e) /\ WholeNumber(m))
  <2>1. Sounds(r5) <=> (Has(q) /\ Electronic /\ Has(e) => IsObject(e) /\ KeySound(Body, r5))
    BY ElectroMemberRow, PlainChecks, Zenon
  <2> QED BY <2>1, IntegerKey, Zenon
<1>6. Sounds(r6) <=> (Has(q) /\ Electronic /\ Has(e) => IsObject(e) /\ Written(d))
  <2>1. Sounds(r6) <=> (Has(q) /\ Electronic /\ Has(e) => IsObject(e) /\ KeySound(Body, r6))
    BY ElectroMemberRow, PlainChecks, Zenon
  <2>2. KeySound(Body, r6) <=> Written(d) \/ (~Has(d) /\ ~TRUE)
    BY TextKey, Zenon
  <2> QED BY <2>1, <2>2, Zenon
<1>7. Sounds(r7) <=> (Has(q) /\ Electronic /\ Has(e) => IsObject(e) /\ Noted(i))
  <2>1. Sounds(r7) <=> (Has(q) /\ Electronic /\ Has(e) => IsObject(e) /\ KeySound(Body, r7))
    BY ElectroMemberRow, PlainChecks, Zenon
  <2> QED BY <2>1, NoteKey, Zenon
<1>8. ElectroSound <=>
        ~Has(e) \/ (IsObject(e) /\ WholeNumber(m) /\ Written(d) /\ Noted(i))
  <2>1. Append(e, "method") = m /\ Append(e, "id") = d /\ Append(e, "addInfo") = i
    BY Fronts, Zenon
  <2> QED BY <2>1, Zenon DEF ElectroSound, WholeNumber
<1>9. PaymentSound <=> IsObject(q) /\ SumIs /\ TypeIs /\ (Electronic => ElectroSound)
  <2>1. PaymentSound <=>
          IsObject(q) /\ SumIs /\ (IsCashPayment \/ (Electronic /\ ElectroSound))
    BY Zenon DEF PaymentSound, IsCashPayment
  <2> QED BY <2>1, ElectronicIs, Zenon
<1>10. IsObject(q) => Has(q)
  BY ObjectIsThere, Zenon
<1> HIDE DEF q, s, e, m, d, i, SumIs, TypeIs, PaymentAt
<1> QED BY <1>1, <1>2, <1>3, <1>4, <1>5, <1>6, <1>7, <1>8, <1>9, <1>10, Zenon
       DEF PaymentRowsSound

LEMMA WithinIs ==
  ASSUME Body \in Bodies, NEW p \in Path
  PROVE  /\ /\ Within(p, MinPrice, MaxPrice) /\ Between(Body[p], MinMaxPrice, MaxPrice)
            <=> Within(p, MinMaxPrice, MaxPrice)
         /\ Within(p, MinQuantity, MaxQuantity) => Between(Body[p], MinQuantity, MaxQuantity)
<1>1. Body[p].num \in Int \cup {NaN, NoNumber}
  <2>1. Body[p] \in JsonValue
    BY BodyForms, Zenon
  <2> QED BY <2>1 DEF JsonValue
<1> DEFINE n == Body[p].num
<1>2. n # NoNumber =>
        /\ /\ n = NaN \/ n \in MinPrice..MaxPrice
           /\ ~(n # NaN /\ (n < MinMaxPrice \/ n > MaxPrice))
           <=> (n = NaN \/ n \in MinMaxPrice..MaxPrice)
        /\ (n = NaN \/ n \in MinQuantity..MaxQuantity) =>
              ~(n # NaN /\ (n < MinQuantity \/ n > MaxQuantity))
  <2> HIDE DEF n
  <2> QED BY <1>1, BoundsAre, MarksDiffer DEF n
<1>3. Numeral(p) => n # NoNumber
  BY Zenon DEF Numeral
<1> QED BY <1>2, <1>3, Zenon DEF Within, Between

ItemAt(i, r1, r2, r3, r4, r5, r6) ==
    /\ RowAt(r1, <<"items", i, "title">>, "title", TRUE)
    /\ RowAt(r2, <<"items", i, "price">>, "price", TRUE)
    /\ RowAt(r3, <<"items", i, "quantity">>, "quantity", TRUE)
    /\ RowAt(r4, <<"items", i, "unit">>, "unit", FALSE)
    /\ RowAt(r5, <<"items", i, "tax">>, "item tax", FALSE)
    /\ RowAt(r6, <<"items", i>>, "item", TRUE)

ItemRowsSound(r1, r2, r3, r4, r5, r6) ==
    /\ Sounds(r1) /\ Sounds(r2) /\ Sounds(r3)
    /\ Sounds(r4) /\ Sounds(r5) /\ Sounds(r6)

ItemMeant(i) == Place(i) < Body[<<"items">>].num => ItemSound(i)

Taxed == ~Has(<<"tax">>) \/ TaxSound(<<"tax">>)

LEMMA ItemIs ==
  ASSUME Body \in Bodies, NEW i \in Index,
         NEW r1, NEW r2, NEW r3, NEW r4, NEW r5, NEW r6,
         ItemAt(i, r1, r2, r3, r4, r5, r6), Taxed
  PROVE  ItemRowsSound(r1, r2, r3, r4, r5, r6) <=> ItemMeant(i)
<1> USE DEF ItemAt, Taxed
<1> DEFINE W == Place(i) < Body[<<"items">>].num
           q == <<"items", i>>
           title == <<"items", i, "title">>
           price == <<"items", i, "price">>
           quantity == <<"items", i, "quantity">>
           unit == <<"items", i, "unit">>
           tax == <<"items", i, "tax">>
           Empty == Body[q].type = "null"
           UnitIs == ~Has(unit) \/ Chosen(unit, {"piece"}, UnitCodes)
           TaxIs == TaxSound(tax) \/ (~Has(tax) /\ Has(<<"tax">>))
<1>1. Sounds(r1) <=> (W => IsObject(q) /\ Titled(title))
  <2>1. "title" # "item"
    BY Zenon
  <2>2. Sounds(r1) <=> (W => \/ IsObject(q) /\ KeySound(Body, r1)
                             \/ Empty /\ ~Lacking(Body, r1))
    BY <2>1, ItemKeyRow, Zenon
  <2>3. Lacking(Body, r1)
    BY Zenon DEF Lacking, RowAt, IsRow
  <2> QED BY <2>2, <2>3, TitleKey, Zenon
<1>2. Sounds(r2) <=> (W => IsObject(q) /\ Within(price, MinPrice, MaxPrice))
  <2>1. "price" # "item"
    BY Zenon
  <2>2. Sounds(r2) <=> (W => \/ IsObject(q) /\ KeySound(Body, r2)
                             \/ Empty /\ ~Lacking(Body, r2))
    BY <2>1, ItemKeyRow, Zenon
  <2>3. Lacking(Body, r2)
    BY Zenon DEF Lacking, RowAt, IsRow
  <2> QED BY <2>2, <2>3, AmountKeys, Zenon
<1>3. Sounds(r3) <=> (W => IsObject(q) /\ Within(quantity, MinQuantity, MaxQuantity))
  <2>1. "quantity" # "item"
    BY Zenon
  <2>2. Sounds(r3) <=> (W => \/ IsObject(q) /\ KeySound(Body, r3)
                             \/ Empty /\ ~Lacking(Body, r3))
    BY <2>1, ItemKeyRow, Zenon
  <2>3. Lacking(Body, r3)
    BY Zenon DEF Lacking, RowAt, IsRow
  <2> QED BY <2>2, <2>3, AmountKeys, Zenon
<1>4. Sounds(r4) <=> (W => \/ IsObject(q) /\ UnitIs
                           \/ Empty /\ ~Lacking(Body, r4))
  <2>1. "unit" # "item"
    BY Zenon
  <2>2. Sounds(r4) <=> (W => \/ IsObject(q) /\ KeySound(Body, r4)
                             \/ Empty /\ ~Lacking(Body, r4))
    BY <2>1, ItemKeyRow, Zenon
  <2> QED BY <2>2, UnitKey, Zenon
<1>5. Sounds(r5) <=> (W => \/ IsObject(q) /\ TaxIs
                           \/ Empty /\ ~Lacking(Body, r5))
  <2>1. "item tax" # "item"
    BY Zenon
  <2>2. Sounds(r5) <=> (W => \/ IsObject(q) /\ KeySound(Body, r5)
                             \/ Empty /\ ~Lacking(Body, r5))
    BY <2>1, ItemKeyRow, Zenon
  <2> QED BY <2>2, ItemTaxKey, Zenon
<1>6. Sounds(r6) <=>
        (W => /\ Between(Body[price], MinMaxPrice, MaxPrice)
              /\ Between(Body[quantity], MinQuantity, MaxQuantity))
  BY ItemRow, Zenon
<1>7. price \in Path /\ quantity \in Path
  BY Zenon DEF RowAt
<1>8. /\ /\ Within(price, MinPrice, MaxPrice) /\ Between(Body[price], MinMaxPrice, MaxPrice)
         <=> Within(price, MinMaxPrice, MaxPrice)
      /\ Within(quantity, MinQuantity, MaxQuantity) =>
           Between(Body[quantity], MinQuantity, MaxQuantity)
  BY <1>7, WithinIs, Zenon
<1>9. IsObject(q) => ~Empty
  BY Zenon DEF IsObject
<1>10. TaxIs <=> TaxSound(tax) \/ (~Has(tax) /\ TaxSound(<<"tax">>))
  BY Zenon DEF TaxSound, Chosen
<1>11. ItemSound(i) <=>
         /\ IsObject(q) /\ Titled(title) /\ Within(price, MinMaxPrice, MaxPrice)
         /\ Within(quantity, MinQuantity, MaxQuantity) /\ UnitIs
         /\ TaxSound(tax) \/ (~Has(tax) /\ TaxSound(<<"tax">>))
  BY Zenon DEF ItemSound
<1> HIDE DEF W, q, title, price, quantity, unit, tax, Empty, UnitIs, TaxIs
<1>12. ASSUME Sounds(r1), Sounds(r2), Sounds(r3), Sounds(r4), Sounds(r5), Sounds(r6), W
       PROVE  ItemSound(i)
  <2>1. IsObject(q) /\ ~Empty
    BY <1>12, <1>1, <1>9, Zenon
  <2>2. Titled(title)
    BY <1>12, <1>1, Zenon
  <2>3. UnitIs
    BY <1>12, <1>4, <2>1, Zenon
  <2>4. TaxIs
    BY <1>12, <1>5, <2>1, Zenon
  <2>5. Within(price, MinMaxPrice, MaxPrice)
    BY <1>12, <1>2, <1>6, <1>8, Zenon
  <2>6. Within(quantity, MinQuantity, MaxQuantity)
    BY <1>12, <1>3, Zenon
  <2> QED BY <2>1, <2>2, <2>3, <2>4, <2>5, <2>6, <1>10, <1>11, Zenon
<1>13. ASSUME ItemSound(i)
       PROVE  Sounds(r1) /\ Sounds(r2) /\ Sounds(r3) /\ Sounds(r4) /\ Sounds(r5) /\ Sounds(r6)
  <2>1. IsObject(q) /\ Titled(title) /\ UnitIs /\ TaxIs
    BY <1>13, <1>10, <1>11, Zenon
  <2>2. Within(price, MinMaxPrice, MaxPrice) /\ Within(quantity, MinQuantity, MaxQuantity)
    BY <1>13, <1>11, Zenon
  <2>3. Sounds(r1) /\ Sounds(r4) /\ Sounds(r5)
    BY <2>1, <1>1, <1>4, <1>5, Zenon
  <2>4. Sounds(r2)
    BY <2>1, <2>2, <1>2, <1>8, Zenon
  <2>5. Sounds(r3)
    BY <2>1, <2>2, <1>3, Zenon
  <2>6. Sounds(r6)
    BY <2>2, <1>6, <1>8, Zenon
  <2> QED BY <2>3, <2>4, <2>5, <2>6, Zenon
<1>14. ASSUME ~W
       PROVE  Sounds(r1) /\ Sounds(r2) /\ Sounds(r3) /\ Sounds(r4) /\ Sounds(r5) /\ Sounds(r6)
  <2>1. Sounds(r1) /\ Sounds(r2)
    BY <1>14, <1>1, <1>2, Zenon
  <2>2. Sounds(r3) /\ Sounds(r4)
    BY <1>14, <1>3, <1>4, Zenon
  <2>3. Sounds(r5) /\ Sounds(r6)
    BY <1>14, <1>5, <1>6, Zenon
  <2> QED BY <2>1, <2>2, <2>3, Zenon
<1> QED BY <1>12, <1>13, <1>14, Zenon DEF W, ItemRowsSound, ItemMeant

BlockAt(i, r1, r2, r3, r4, r5) ==
    /\ RowAt(r1, <<"document", i, "separator">>, "flag", FALSE)
    /\ RowAt(r2, <<"document", i, "content">>, "text", TRUE)
    /\ RowAt(r3, <<"document", i, "center">>, "flag", FALSE)
    /\ RowAt(r4, <<"document", i, "magnified">>, "flag", FALSE)
    /\ RowAt(r5, <<"document", i, "separated">>, "flag", FALSE)

BlockRowsSound(r1, r2, r3, r4, r5) ==
    /\ Sounds(r1) /\ Sounds(r2) /\ Sounds(r3) /\ Sounds(r4) /\ Sounds(r5)

BlockMeant(i) == Place(i) < Body[<<"document">>].num => BlockSound(i)

LEMMA BlockIs ==
  ASSUME Body \in Bodies, NEW i \in Index, NEW r1, NEW r2, NEW r3, NEW r4, NEW r5,
         BlockAt(i, r1, r2, r3, r4, r5)
  PROVE  BlockRowsSound(r1, r2, r3, r4, r5) <=> BlockMeant(i)
<1> USE DEF BlockAt
<1> DEFINE W == Place(i) < Body[<<"document">>].num
           q == <<"document", i>>
           sep == <<"document", i, "separator">>
           content == <<"document", i, "content">>
           center == <<"document", i, "center">>
           magnified == <<"document", i, "magnified">>
           separated == <<"document", i, "separated">>
           AreFlags == Flagged(center) /\ Flagged(magnified) /\ Flagged(separated)
           Empty == Body[q].type = "null"
<1>1. Sounds(r1) <=> (W => (IsObject(q) /\ Flagged(sep)) \/ Empty)
  BY SeparatorRow, Zenon
<1>2. Sounds(r2) <=> (W /\ ~IsTrue(Body[sep]) => IsObject(q) /\ Written(content))
  <2>1. "content" # "separator"
    BY Zenon
  <2>2. Sounds(r2) <=> (W /\ ~IsTrue(Body[sep]) =>
                          \/ IsObject(q) /\ KeySound(Body, r2)
                          \/ Empty /\ ~TRUE)
    BY <2>1, BlockRow, PlainChecks, Zenon
  <2>3. KeySound(Body, r2) <=> Written(content) \/ (~Has(content) /\ ~TRUE)
    BY TextKey, Zenon
  <2> QED BY <2>2, <2>3, Zenon
<1>3. ASSUME NEW r, NEW k, k # "separator",
             RowAt(r, <<"document", i, k>>, "flag", FALSE)
      PROVE  Sounds(r) <=>
               (W /\ ~IsTrue(Body[sep]) =>
                  (IsObject(q) /\ Flagged(<<"document", i, k>>)) \/ Empty)
  <2>1. Sounds(r) <=> (W /\ ~IsTrue(Body[sep]) =>
                         \/ IsObject(q) /\ KeySound(Body, r)
                         \/ Empty /\ ~FALSE)
    BY <1>3, BlockRow, PlainChecks, Zenon
  <2>2. KeySound(Body, r) <=> Flagged(<<"document", i, k>>)
    BY <1>3, FlagKey, Zenon
  <2> QED BY <2>1, <2>2, Zenon
<1>13. /\ Sounds(r3) <=> (W /\ ~IsTrue(Body[sep]) => (IsObject(q) /\ Flagged(center)) \/ Empty)
       /\ Sounds(r4) <=>
            (W /\ ~IsTrue(Body[sep]) => (IsObject(q) /\ Flagged(magnified)) \/ Empty)
       /\ Sounds(r5) <=>
            (W /\ ~IsTrue(Body[sep]) => (IsObject(q) /\ Flagged(separated)) \/ Empty)
  BY <1>3, Zenon
<1>14. Sounds(r3) /\ Sounds(r4) /\ Sounds(r5) <=>
         (W /\ ~IsTrue(Body[sep]) => (IsObject(q) /\ AreFlags) \/ Empty)
  BY <1>13, Zenon
<1>4. sep \in Path
  BY Zenon DEF RowAt
<1>5. ~IsTrue(Missing) /\ ~IsTrue(Null)
  <2>1. Missing.num = NoNumber /\ Missing.text = "" /\ Null.num = NoNumber /\ Null.text = ""
    BY FormsAre, Zenon
  <2> QED BY <2>1, MarksDiffer, Zenon DEF IsTrue
<1>6. IsTrue(Body[sep]) => Has(sep)
  <2> SUFFICES ASSUME ~Has(sep) PROVE ~IsTrue(Body[sep])
    BY Zenon
  <2>1. Body[sep] \in BodyValue
    BY <1>4, BodyForms, Zenon
  <2>2. Body[sep].type = "missing" \/ Body[sep].type = "null"
    BY Zenon DEF Has
  <2>3. Body[sep] = Missing \/ Body[sep] = Null
    BY <2>1, <2>2, BodyValueForms, Zenon
  <2> QED BY <1>5, <2>3, Zenon
<1>7. Empty => ~IsTrue(Body[sep])
  <2> SUFFICES ASSUME Empty PROVE ~IsTrue(Body[sep])
    BY Zenon
  <2>1. Len(sep) = 3 /\ Front(sep) = q
    <3>1. Len(sep) = 3
      BY TupleParts, Zenon
    <3>2. Front(sep) = q
      BY Fronts, Zenon
    <3> QED BY <3>1, <3>2, Zenon
  <2> HIDE DEF sep
  <2>2. Len(sep) > 1
    BY <2>1
  <2>3. Body[Front(sep)].type \notin {"object", "array"}
    BY <2>1, Zenon
  <2>4. Body[sep] = Missing
    BY <1>4, <2>2, <2>3, NullIsEmpty, Zenon
  <2> QED BY <1>5, <2>4, Zenon
<1>8. BlockSound(i) <=>
        /\ Has(q) /\ IsObject(q) /\ Flagged(sep)
        /\ (Has(sep) /\ IsTrue(Body[sep])) \/ (Written(content) /\ AreFlags)
  BY Zenon DEF BlockSound
<1>9. IsObject(q) => Has(q) /\ ~Empty
  BY ObjectIsThere, Zenon DEF IsObject
<1> HIDE DEF W, q, sep, content, center, magnified, separated, AreFlags, Empty
<1>10. ASSUME Sounds(r1), Sounds(r2), Sounds(r3), Sounds(r4), Sounds(r5), W
       PROVE  BlockSound(i)
  <2>1. CASE IsTrue(Body[sep])
    <3>1. IsObject(q) /\ Flagged(sep)
      BY <1>10, <2>1, <1>1, <1>7, Zenon
    <3> QED BY <3>1, <2>1, <1>6, <1>8, <1>9, Zenon
  <2>2. CASE ~IsTrue(Body[sep])
    <3>1. IsObject(q) /\ Written(content)
      BY <1>10, <2>2, <1>2, Zenon
    <3>2. Has(q) /\ ~Empty
      BY <3>1, <1>9, Zenon
    <3>3. Flagged(sep)
      BY <1>10, <3>2, <1>1, Zenon
    <3>4. AreFlags
      BY <1>10, <2>2, <3>2, <1>14, Zenon
    <3> QED BY <3>1, <3>2, <3>3, <3>4, <1>8, Zenon
  <2> QED BY <2>1, <2>2, Zenon
<1>11. ASSUME BlockSound(i)
       PROVE  Sounds(r1) /\ Sounds(r2) /\ Sounds(r3) /\ Sounds(r4) /\ Sounds(r5)
  <2>1. IsObject(q) /\ Flagged(sep)
    BY <1>11, <1>8, Zenon
  <2>2. IsTrue(Body[sep]) \/ (Written(content) /\ AreFlags)
    BY <1>11, <1>8, Zenon
  <2>3. Sounds(r1)
    BY <2>1, <1>1, Zenon
  <2>4. Sounds(r2)
    BY <2>1, <2>2, <1>2, Zenon
  <2>5. Sounds(r3) /\ Sounds(r4) /\ Sounds(r5)
    BY <2>1, <2>2, <1>14, Zenon
  <2> QED BY <2>3, <2>4, <2>5, Zenon
<1>12. ASSUME ~W
       PROVE  Sounds(r1) /\ Sounds(r2) /\ Sounds(r3) /\ Sounds(r4) /\ Sounds(r5)
  <2>1. Sounds(r1)
    BY <1>12, <1>1, Zenon
  <2>2. Sounds(r2)
    BY <1>12, <1>2, Zenon
  <2>3. Sounds(r3) /\ Sounds(r4) /\ Sounds(r5)
    BY <1>12, <1>14, Zenon
  <2> QED BY <2>1, <2>2, <2>3, Zenon
<1> QED BY <1>10, <1>11, <1>12, Zenon DEF W, BlockRowsSound, BlockMeant

-----------------------------------------------------------------------------
(* All the rows of a kind together.                                        *)

AllSound == \A i \in 1..Len(Rows[request.kind]) : Sounds(Rows[request.kind][i])

LEMMA RowsPlaced ==
  ASSUME request \in Request, NEW i \in 1..Len(Rows[request.kind]), NEW p, NEW c, NEW x,
         IsRow(Rows[request.kind][i], p, c, x)
  PROVE  RowAt(Rows[request.kind][i], p, c, x)
<1>1. Rows[request.kind][i].path \in Path
  BY RequestIs, Zenon
<1>2. Rows[request.kind][i].path = p
  BY Zenon DEF IsRow
<1> QED BY <1>1, <1>2, Zenon DEF RowAt

LEMMA CashSound == ASSUME request \in Request, request.kind = "cash" PROVE AllSound <=> Sound
<1> DEFINE R == Rows[request.kind]
<1>1. Body \in Bodies
  BY RequestIs, Zenon
<1>2. R = CashRows
  BY KindsAre
<1>3. Len(R) = 5
  BY <1>2, CashRowsAre, Zenon
<1>0. 1 \in 1..5 /\ 2 \in 1..5 /\ 3 \in 1..5 /\ 4 \in 1..5 /\ 5 \in 1..5
  OBVIOUS
<1>4. /\ IsRow(R[1], <<"electronically">>, "flag", FALSE)
      /\ IsRow(R[2], <<"operator">>, "object", TRUE)
      /\ IsRow(R[3], <<"operator", "name">>, "title", TRUE)
      /\ IsRow(R[4], <<"operator", "inn">>, "note", FALSE)
      /\ IsRow(R[5], <<"cashSum">>, "cash", TRUE)
  BY <1>2, CashRowsAre, Zenon
<1>5. /\ RowAt(R[1], <<"electronically">>, "flag", FALSE)
      /\ RowAt(R[2], <<"operator">>, "object", TRUE)
      /\ RowAt(R[3], <<"operator", "name">>, "title", TRUE)
      /\ RowAt(R[4], <<"operator", "inn">>, "note", FALSE)
      /\ RowAt(R[5], <<"cashSum">>, "cash", TRUE)
  BY <1>0, <1>3, <1>4, RowsPlaced, Zenon
<1>6. Sounds(R[1]) /\ Sounds(R[2]) /\ Sounds(R[3]) /\ Sounds(R[4]) <=> OperatorSound
  BY <1>1, <1>5, OperatorIs, Zenon
<1>7. Sounds(R[5]) <=> Within(<<"cashSum">>, MinCashInOut, MaxCashInOut)
  BY <1>1, <1>5, TopRow, PlainChecks, AmountKeys, Zenon
<1>8. AllSound <=> \A i \in 1..5 : Sounds(R[i])
  BY <1>3 DEF AllSound
<1>9. (\A i \in 1..5 : Sounds(R[i])) <=>
        (Sounds(R[1]) /\ Sounds(R[2]) /\ Sounds(R[3]) /\ Sounds(R[4])) /\ Sounds(R[5])
  OBVIOUS
<1>10. Sound <=> OperatorSound /\ Within(<<"cashSum">>, MinCashInOut, MaxCashInOut)
  BY DEF Sound
<1> QED BY <1>6, <1>7, <1>8, <1>9, <1>10, Zenon

LEMMA CloseSound == ASSUME request \in Request, request.kind = "close" PROVE AllSound <=> Sound
<1> DEFINE R == Rows[request.kind]
<1>1. Body \in Bodies
  BY RequestIs, Zenon
<1>2. R = CloseRows
  BY KindsAre
<1>3. Len(R) = 6
  BY <1>2, CloseRowsAre, Zenon
<1>0. 1 \in 1..6 /\ 2 \in 1..6 /\ 3 \in 1..6 /\ 4 \in 1..6 /\ 5 \in 1..6 /\ 6 \in 1..6
  OBVIOUS
<1>4. /\ IsRow(R[1], <<"electronically">>, "flag", FALSE)
      /\ IsRow(R[2], <<"operator">>, "object", TRUE)
      /\ IsRow(R[3], <<"operator", "name">>, "title", TRUE)
      /\ IsRow(R[4], <<"operator", "inn">>, "note", FALSE)
      /\ IsRow(R[5], <<"closeShift">>, "flag", FALSE)
      /\ IsRow(R[6], <<"cashOut">>, "flag", FALSE)
  BY <1>2, CloseRowsAre, Zenon
<1>5. /\ RowAt(R[1], <<"electronically">>, "flag", FALSE)
      /\ RowAt(R[2], <<"operator">>, "object", TRUE)
      /\ RowAt(R[3], <<"operator", "name">>, "title", TRUE)
      /\ RowAt(R[4], <<"operator", "inn">>, "note", FALSE)
      /\ RowAt(R[5], <<"closeShift">>, "flag", FALSE)
      /\ RowAt(R[6], <<"cashOut">>, "flag", FALSE)
  BY <1>0, <1>3, <1>4, RowsPlaced, Zenon
<1>6. Sounds(R[1]) /\ Sounds(R[2]) /\ Sounds(R[3]) /\ Sounds(R[4]) <=> OperatorSound
  BY <1>1, <1>5, OperatorIs, Zenon
<1>7. /\ Sounds(R[5]) <=> Flagged(<<"closeShift">>)
      /\ Sounds(R[6]) <=> Flagged(<<"cashOut">>)
  BY <1>1, <1>5, TopRow, PlainChecks, FlagKey, Zenon
<1>8. AllSound <=> \A i \in 1..6 : Sounds(R[i])
  BY <1>3 DEF AllSound
<1>9. (\A i \in 1..6 : Sounds(R[i])) <=>
        /\ Sounds(R[1]) /\ Sounds(R[2]) /\ Sounds(R[3]) /\ Sounds(R[4])
        /\ Sounds(R[5]) /\ Sounds(R[6])
  OBVIOUS
<1>10. Sound <=> OperatorSound /\ Flagged(<<"closeShift">>) /\ Flagged(<<"cashOut">>)
  BY DEF Sound
<1> QED BY <1>6, <1>7, <1>8, <1>9, <1>10, Zenon

LEMMA PrintSound == ASSUME request \in Request, request.kind = "print" PROVE AllSound <=> Sound
<1> DEFINE R == Rows[request.kind]
           Block(i) == Place(i) < Body[<<"document">>].num => BlockSound(i)
           Flags == /\ Flagged(<<"electronically">>) /\ Flagged(<<"cliche">>)
                    /\ Flagged(<<"footer">>) /\ Flagged(<<"margin">>)
<1>1. Body \in Bodies
  BY RequestIs, Zenon
<1>2. R = PrintRows
  BY KindsAre
<1>3. Len(R) = 15
  BY <1>2, PrintRowsAre, Zenon
<1>0. /\ 1 \in 1..15 /\ 2 \in 1..15 /\ 3 \in 1..15 /\ 4 \in 1..15 /\ 5 \in 1..15 /\ 6 \in 1..15
      /\ 7 \in 1..15 /\ 8 \in 1..15 /\ 9 \in 1..15 /\ 10 \in 1..15 /\ 11 \in 1..15 /\ 12 \in 1..15
      /\ 13 \in 1..15 /\ 14 \in 1..15 /\ 15 \in 1..15
  OBVIOUS
<1>4. /\ IsRow(R[1], <<"electronically">>, "flag", FALSE)
      /\ IsRow(R[2], <<"cliche">>, "flag", FALSE)
      /\ IsRow(R[3], <<"footer">>, "flag", FALSE)
      /\ IsRow(R[4], <<"margin">>, "flag", FALSE)
      /\ IsRow(R[5], <<"document">>, "array", TRUE)
      /\ IsRow(R[6], <<"document", "0", "separator">>, "flag", FALSE)
      /\ IsRow(R[7], <<"document", "0", "content">>, "text", TRUE)
      /\ IsRow(R[8], <<"document", "0", "center">>, "flag", FALSE)
      /\ IsRow(R[9], <<"document", "0", "magnified">>, "flag", FALSE)
      /\ IsRow(R[10], <<"document", "0", "separated">>, "flag", FALSE)
      /\ IsRow(R[11], <<"document", "1", "separator">>, "flag", FALSE)
      /\ IsRow(R[12], <<"document", "1", "content">>, "text", TRUE)
      /\ IsRow(R[13], <<"document", "1", "center">>, "flag", FALSE)
      /\ IsRow(R[14], <<"document", "1", "magnified">>, "flag", FALSE)
      /\ IsRow(R[15], <<"document", "1", "separated">>, "flag", FALSE)
  BY <1>2, PrintRowsAre, Zenon
<1>5. /\ RowAt(R[1], <<"electronically">>, "flag", FALSE)
      /\ RowAt(R[2], <<"cliche">>, "flag", FALSE)
      /\ RowAt(R[3], <<"footer">>, "flag", FALSE)
      /\ RowAt(R[4], <<"margin">>, "flag", FALSE)
      /\ RowAt(R[5], <<"document">>, "array", TRUE)
      /\ RowAt(R[6], <<"document", "0", "separator">>, "flag", FALSE)
      /\ RowAt(R[7], <<"document", "0", "content">>, "text", TRUE)
      /\ RowAt(R[8], <<"document", "0", "center">>, "flag", FALSE)
      /\ RowAt(R[9], <<"document", "0", "magnified">>, "flag", FALSE)
      /\ RowAt(R[10], <<"document", "0", "separated">>, "flag", FALSE)
      /\ RowAt(R[11], <<"document", "1", "separator">>, "flag", FALSE)
      /\ RowAt(R[12], <<"document", "1", "content">>, "text", TRUE)
      /\ RowAt(R[13], <<"document", "1", "center">>, "flag", FALSE)
      /\ RowAt(R[14], <<"document", "1", "magnified">>, "flag", FALSE)
      /\ RowAt(R[15], <<"document", "1", "separated">>, "flag", FALSE)
  BY <1>0, <1>3, <1>4, RowsPlaced, Zenon
<1>6. /\ Sounds(R[1]) <=> Flagged(<<"electronically">>)
      /\ Sounds(R[2]) <=> Flagged(<<"cliche">>)
      /\ Sounds(R[3]) <=> Flagged(<<"footer">>)
      /\ Sounds(R[4]) <=> Flagged(<<"margin">>)
  BY <1>1, <1>5, TopRow, PlainChecks, FlagKey, Zenon
<1>7. Sounds(R[5]) <=> Body[<<"document">>].type = "array"
  BY <1>1, <1>5, TopRow, PlainChecks, ArrayKey, Zenon
<1>8. "0" \in Index /\ "1" \in Index /\ \A i \in Index : i = "0" \/ i = "1"
  BY Zenon DEF Index
<1>9. /\ Sounds(R[6]) /\ Sounds(R[7]) /\ Sounds(R[8]) /\ Sounds(R[9])
      /\ Sounds(R[10])
      <=> Block("0")
  <2> HIDE DEF R
  <2>1. /\ RowAt(R[6], <<"document", "0", "separator">>, "flag", FALSE)
        /\ RowAt(R[7], <<"document", "0", "content">>, "text", TRUE)
        /\ RowAt(R[8], <<"document", "0", "center">>, "flag", FALSE)
        /\ RowAt(R[9], <<"document", "0", "magnified">>, "flag", FALSE)
        /\ RowAt(R[10], <<"document", "0", "separated">>, "flag", FALSE)
    BY <1>5, Zenon
  <2>2. "0" \in Index
    BY <1>8, Zenon
  <2>3. BlockAt("0", R[6], R[7], R[8], R[9], R[10])
    BY <2>1, Zenon DEF BlockAt
  <2>4. \A r1, r2, r3, r4, r5 :
          BlockAt("0", r1, r2, r3, r4, r5) =>
            (BlockRowsSound(r1, r2, r3, r4, r5) <=> BlockMeant("0"))
    BY <1>1, <2>2, BlockIs, Zenon
  <2>5. BlockRowsSound(R[6], R[7], R[8], R[9], R[10]) <=> BlockMeant("0")
    BY <2>3, <2>4, Zenon
  <2> HIDE DEF Block
  <2>6. BlockMeant("0") <=> Block("0")
    BY Zenon DEF BlockMeant, Block
  <2>7. BlockRowsSound(R[6], R[7], R[8], R[9], R[10]) <=>
          /\ Sounds(R[6]) /\ Sounds(R[7]) /\ Sounds(R[8]) /\ Sounds(R[9])
          /\ Sounds(R[10])
    BY Zenon DEF BlockRowsSound
  <2> QED BY <2>5, <2>6, <2>7, Zenon
<1>10. /\ Sounds(R[11]) /\ Sounds(R[12]) /\ Sounds(R[13]) /\ Sounds(R[14])
       /\ Sounds(R[15])
       <=> Block("1")
  <2> HIDE DEF R
  <2>1. /\ RowAt(R[11], <<"document", "1", "separator">>, "flag", FALSE)
        /\ RowAt(R[12], <<"document", "1", "content">>, "text", TRUE)
        /\ RowAt(R[13], <<"document", "1", "center">>, "flag", FALSE)
        /\ RowAt(R[14], <<"document", "1", "magnified">>, "flag", FALSE)
        /\ RowAt(R[15], <<"document", "1", "separated">>, "flag", FALSE)
    BY <1>5, Zenon
  <2>2. "1" \in Index
    BY <1>8, Zenon
  <2>3. BlockAt("1", R[11], R[12], R[13], R[14], R[15])
    BY <2>1, Zenon DEF BlockAt
  <2>4. \A r1, r2, r3, r4, r5 :
          BlockAt("1", r1, r2, r3, r4, r5) =>
            (BlockRowsSound(r1, r2, r3, r4, r5) <=> BlockMeant("1"))
    BY <1>1, <2>2, BlockIs, Zenon
  <2>5. BlockRowsSound(R[11], R[12], R[13], R[14], R[15]) <=> BlockMeant("1")
    BY <2>3, <2>4, Zenon
  <2> HIDE DEF Block
  <2>6. BlockMeant("1") <=> Block("1")
    BY Zenon DEF BlockMeant, Block
  <2>7. BlockRowsSound(R[11], R[12], R[13], R[14], R[15]) <=>
          /\ Sounds(R[11]) /\ Sounds(R[12]) /\ Sounds(R[13]) /\ Sounds(R[14])
          /\ Sounds(R[15])
    BY Zenon DEF BlockRowsSound
  <2> QED BY <2>5, <2>6, <2>7, Zenon
<1>11. AllSound <=> \A i \in 1..15 : Sounds(R[i])
  BY <1>3 DEF AllSound
<1>12. (\A i \in 1..15 : Sounds(R[i])) <=>
        /\ Sounds(R[1]) /\ Sounds(R[2]) /\ Sounds(R[3]) /\ Sounds(R[4])
        /\ Sounds(R[5])
        /\ Sounds(R[6]) /\ Sounds(R[7]) /\ Sounds(R[8]) /\ Sounds(R[9])
        /\ Sounds(R[10])
        /\ Sounds(R[11]) /\ Sounds(R[12]) /\ Sounds(R[13]) /\ Sounds(R[14])
        /\ Sounds(R[15])
  OBVIOUS
<1>13. Flags <=> \A k \in {"electronically", "cliche", "footer", "margin"} : Flagged(<<k>>)
  BY Zenon
<1>14. Block("0") /\ Block("1") <=>
         \A i \in Index : Place(i) < Body[<<"document">>].num => BlockSound(i)
  BY <1>8, Zenon
<1>15. Sound <=> /\ \A k \in {"electronically", "cliche", "footer", "margin"} : Flagged(<<k>>)
                 /\ Body[<<"document">>].type = "array"
                 /\ \A i \in Index : Place(i) < Body[<<"document">>].num => BlockSound(i)
  BY DEF Sound
<1>16. AllSound <=> Flags /\ Sounds(R[5]) /\ Block("0") /\ Block("1")
  BY <1>6, <1>9, <1>10, <1>11, <1>12, Zenon
<1> HIDE DEF Flags, Block
<1> QED BY <1>7, <1>13, <1>14, <1>15, <1>16, Zenon

LEMMA ReceiptSound ==
  ASSUME request \in Request, request.kind = "receipt"
  PROVE  AllSound /\ Body[<<"items">>].num # 0 <=> Sound
<1> DEFINE R == Rows[request.kind]
           Parties == /\ PartySound("customer", {"contact", "inn"})
                      /\ PartySound("seller", {"email"})
           Listing == Body[<<"items">>].type = "array"
<1>1. Body \in Bodies
  BY RequestIs, Zenon
<1>2. R = ReceiptRows
  BY KindsAre
<1>3. Len(R) = 35
  BY <1>2, ReceiptRowsAre, Zenon
<1>0. \A i \in 1..35 : i \in 1..Len(R)
  BY <1>3, Zenon
<1>4. /\ RowAt(R[1], <<"electronically">>, "flag", FALSE)
      /\ RowAt(R[2], <<"operator">>, "object", TRUE)
      /\ RowAt(R[3], <<"operator", "name">>, "title", TRUE)
      /\ RowAt(R[4], <<"operator", "inn">>, "note", FALSE)
  <2>1. /\ IsRow(R[1], <<"electronically">>, "flag", FALSE)
        /\ IsRow(R[2], <<"operator">>, "object", TRUE)
        /\ IsRow(R[3], <<"operator", "name">>, "title", TRUE)
        /\ IsRow(R[4], <<"operator", "inn">>, "note", FALSE)
    BY <1>2, ReceiptRowsAre, Zenon
  <2>2. 1 \in 1..35 /\ 2 \in 1..35 /\ 3 \in 1..35 /\ 4 \in 1..35
    OBVIOUS
  <2> QED BY <1>0, <2>1, <2>2, RowsPlaced, Zenon
<1>5. /\ RowAt(R[5], <<"customer">>, "object", FALSE)
      /\ RowAt(R[6], <<"customer", "contact">>, "note", FALSE)
      /\ RowAt(R[7], <<"customer", "inn">>, "note", FALSE)
      /\ RowAt(R[8], <<"seller">>, "object", FALSE)
      /\ RowAt(R[9], <<"seller", "email">>, "note", FALSE)
  <2>1. /\ IsRow(R[5], <<"customer">>, "object", FALSE)
        /\ IsRow(R[6], <<"customer", "contact">>, "note", FALSE)
        /\ IsRow(R[7], <<"customer", "inn">>, "note", FALSE)
        /\ IsRow(R[8], <<"seller">>, "object", FALSE)
        /\ IsRow(R[9], <<"seller", "email">>, "note", FALSE)
    BY <1>2, ReceiptRowsAre, Zenon
  <2>2. 5 \in 1..35 /\ 6 \in 1..35 /\ 7 \in 1..35 /\ 8 \in 1..35 /\ 9 \in 1..35
    OBVIOUS
  <2> QED BY <1>0, <2>1, <2>2, RowsPlaced, Zenon
<1>6. /\ RowAt(R[10], <<"text">>, "object", FALSE)
      /\ RowAt(R[11], <<"text", "content">>, "text", FALSE)
      /\ RowAt(R[12], <<"text", "center">>, "flag", FALSE)
      /\ RowAt(R[13], <<"text", "magnified">>, "flag", FALSE)
      /\ RowAt(R[14], <<"text", "separated">>, "flag", FALSE)
  <2>1. /\ IsRow(R[10], <<"text">>, "object", FALSE)
        /\ IsRow(R[11], <<"text", "content">>, "text", FALSE)
        /\ IsRow(R[12], <<"text", "center">>, "flag", FALSE)
        /\ IsRow(R[13], <<"text", "magnified">>, "flag", FALSE)
        /\ IsRow(R[14], <<"text", "separated">>, "flag", FALSE)
    BY <1>2, ReceiptRowsAre, Zenon
  <2>2. 10 \in 1..35 /\ 11 \in 1..35 /\ 12 \in 1..35 /\ 13 \in 1..35 /\ 14 \in 1..35
    OBVIOUS
  <2> QED BY <1>0, <2>1, <2>2, RowsPlaced, Zenon
<1>7. /\ RowAt(R[15], <<"tax">>, "tax", FALSE)
      /\ RowAt(R[16], <<"items">>, "array", TRUE)
  <2>1. /\ IsRow(R[15], <<"tax">>, "tax", FALSE)
        /\ IsRow(R[16], <<"items">>, "array", TRUE)
    BY <1>2, ReceiptRowsAre, Zenon
  <2>2. 15 \in 1..35 /\ 16 \in 1..35
    OBVIOUS
  <2> QED BY <1>0, <2>1, <2>2, RowsPlaced, Zenon
<1>8. /\ RowAt(R[17], <<"items", "0", "title">>, "title", TRUE)
      /\ RowAt(R[18], <<"items", "0", "price">>, "price", TRUE)
      /\ RowAt(R[19], <<"items", "0", "quantity">>, "quantity", TRUE)
      /\ RowAt(R[20], <<"items", "0", "unit">>, "unit", FALSE)
      /\ RowAt(R[21], <<"items", "0", "tax">>, "item tax", FALSE)
      /\ RowAt(R[22], <<"items", "0">>, "item", TRUE)
  <2>1. /\ IsRow(R[17], <<"items", "0", "title">>, "title", TRUE)
        /\ IsRow(R[18], <<"items", "0", "price">>, "price", TRUE)
        /\ IsRow(R[19], <<"items", "0", "quantity">>, "quantity", TRUE)
        /\ IsRow(R[20], <<"items", "0", "unit">>, "unit", FALSE)
        /\ IsRow(R[21], <<"items", "0", "tax">>, "item tax", FALSE)
        /\ IsRow(R[22], <<"items", "0">>, "item", TRUE)
    BY <1>2, ReceiptRowsAre, Zenon
  <2>2. 17 \in 1..35 /\ 18 \in 1..35 /\ 19 \in 1..35 /\ 20 \in 1..35 /\ 21 \in 1..35 /\ 22 \in 1..35
    OBVIOUS
  <2> QED BY <1>0, <2>1, <2>2, RowsPlaced, Zenon
<1>9. /\ RowAt(R[23], <<"items", "1", "title">>, "title", TRUE)
      /\ RowAt(R[24], <<"items", "1", "price">>, "price", TRUE)
      /\ RowAt(R[25], <<"items", "1", "quantity">>, "quantity", TRUE)
      /\ RowAt(R[26], <<"items", "1", "unit">>, "unit", FALSE)
      /\ RowAt(R[27], <<"items", "1", "tax">>, "item tax", FALSE)
      /\ RowAt(R[28], <<"items", "1">>, "item", TRUE)
  <2>1. /\ IsRow(R[23], <<"items", "1", "title">>, "title", TRUE)
        /\ IsRow(R[24], <<"items", "1", "price">>, "price", TRUE)
        /\ IsRow(R[25], <<"items", "1", "quantity">>, "quantity", TRUE)
        /\ IsRow(R[26], <<"items", "1", "unit">>, "unit", FALSE)
        /\ IsRow(R[27], <<"items", "1", "tax">>, "item tax", FALSE)
        /\ IsRow(R[28], <<"items", "1">>, "item", TRUE)
    BY <1>2, ReceiptRowsAre, Zenon
  <2>2. 23 \in 1..35 /\ 24 \in 1..35 /\ 25 \in 1..35 /\ 26 \in 1..35 /\ 27 \in 1..35 /\ 28 \in 1..35
    OBVIOUS
  <2> QED BY <1>0, <2>1, <2>2, RowsPlaced, Zenon
<1>10. /\ RowAt(R[29], <<"payment">>, "object", TRUE)
       /\ RowAt(R[30], <<"payment", "sum">>, "sum", TRUE)
       /\ RowAt(R[31], <<"payment", "type">>, "payment type", TRUE)
       /\ RowAt(R[32], <<"payment", "electroPaymentInfo">>, "object", FALSE)
       /\ RowAt(R[33], <<"payment", "electroPaymentInfo", "method">>, "integer", TRUE)
       /\ RowAt(R[34], <<"payment", "electroPaymentInfo", "id">>, "text", TRUE)
       /\ RowAt(R[35], <<"payment", "electroPaymentInfo", "addInfo">>, "note", FALSE)
  <2>1. /\ IsRow(R[29], <<"payment">>, "object", TRUE)
        /\ IsRow(R[30], <<"payment", "sum">>, "sum", TRUE)
        /\ IsRow(R[31], <<"payment", "type">>, "payment type", TRUE)
        /\ IsRow(R[32], <<"payment", "electroPaymentInfo">>, "object", FALSE)
        /\ IsRow(R[33], <<"payment", "electroPaymentInfo", "method">>, "integer", TRUE)
        /\ IsRow(R[34], <<"payment", "electroPaymentInfo", "id">>, "text", TRUE)
        /\ IsRow(R[35], <<"payment", "electroPaymentInfo", "addInfo">>, "note", FALSE)
    BY <1>2, ReceiptRowsAre, Zenon
  <2>2. /\ 29 \in 1..35 /\ 30 \in 1..35 /\ 31 \in 1..35 /\ 32 \in 1..35 /\ 33 \in 1..35 /\ 34 \in 1..35
        /\ 35 \in 1..35
    OBVIOUS
  <2> QED BY <1>0, <2>1, <2>2, RowsPlaced, Zenon
<1>11. Sounds(R[1]) /\ Sounds(R[2]) /\ Sounds(R[3]) /\ Sounds(R[4]) <=> OperatorSound
  <2> HIDE DEF R
  <2> QED BY <1>1, <1>4, OperatorIs, Zenon
<1>12. /\ Sounds(R[5]) /\ Sounds(R[6]) /\ Sounds(R[7]) /\ Sounds(R[8]) /\ Sounds(R[9])
       <=> Parties
  <2> HIDE DEF R
  <2> QED BY <1>1, <1>5, PartiesAre, Zenon
<1>13. /\ Sounds(R[10]) /\ Sounds(R[11]) /\ Sounds(R[12]) /\ Sounds(R[13]) /\ Sounds(R[14])
       <=> TextSound
  <2> HIDE DEF R
  <2> QED BY <1>1, <1>6, TextIs, Zenon
<1>14. Sounds(R[15]) <=> Taxed
  <2> HIDE DEF R
  <2> QED BY <1>1, <1>7, TopRow, PlainChecks, TaxKey, Zenon DEF Taxed
<1>15. Sounds(R[16]) <=> Listing
  <2> HIDE DEF R
  <2> QED BY <1>1, <1>7, TopRow, PlainChecks, ArrayKey, Zenon
<1>16. "0" \in Index /\ "1" \in Index /\ \A i \in Index : i = "0" \/ i = "1"
  BY Zenon DEF Index
<1>17. ASSUME Taxed
       PROVE  ItemRowsSound(R[17], R[18], R[19], R[20], R[21], R[22])
                <=> ItemMeant("0")
  <2> HIDE DEF R
  <2>1. "0" \in Index
    BY <1>16, Zenon
  <2>2. ItemAt("0", R[17], R[18], R[19], R[20], R[21], R[22])
    BY <1>8, Zenon DEF ItemAt
  <2>3. Taxed
    BY <1>17, Zenon
  <2>4. \A r1, r2, r3, r4, r5, r6 :
          ItemAt("0", r1, r2, r3, r4, r5, r6) =>
            (ItemRowsSound(r1, r2, r3, r4, r5, r6) <=> ItemMeant("0"))
    BY <1>1, <2>1, <2>3, ItemIs, Zenon
  <2> QED BY <2>2, <2>4, Zenon
<1>18. ASSUME Taxed
       PROVE  ItemRowsSound(R[23], R[24], R[25], R[26], R[27], R[28])
                <=> ItemMeant("1")
  <2> HIDE DEF R
  <2>1. "1" \in Index
    BY <1>16, Zenon
  <2>2. ItemAt("1", R[23], R[24], R[25], R[26], R[27], R[28])
    BY <1>9, Zenon DEF ItemAt
  <2>3. Taxed
    BY <1>18, Zenon
  <2>4. \A r1, r2, r3, r4, r5, r6 :
          ItemAt("1", r1, r2, r3, r4, r5, r6) =>
            (ItemRowsSound(r1, r2, r3, r4, r5, r6) <=> ItemMeant("1"))
    BY <1>1, <2>1, <2>3, ItemIs, Zenon
  <2> QED BY <2>2, <2>4, Zenon
<1>19. /\ Sounds(R[29]) /\ Sounds(R[30]) /\ Sounds(R[31])
       /\ Sounds(R[32]) /\ Sounds(R[33]) /\ Sounds(R[34]) /\ Sounds(R[35])
       <=> PaymentSound
  <2> HIDE DEF R
  <2>1. PaymentAt(R[29], R[30], R[31], R[32], R[33], R[34], R[35])
    BY <1>10, Zenon DEF PaymentAt
  <2>2. \A r1, r2, r3, r4, r5, r6, r7 :
          PaymentAt(r1, r2, r3, r4, r5, r6, r7) =>
            (PaymentRowsSound(r1, r2, r3, r4, r5, r6, r7) <=> PaymentSound)
    BY <1>1, PaymentIs, Zenon
  <2>3. PaymentRowsSound(R[29], R[30], R[31], R[32], R[33], R[34], R[35])
          <=> PaymentSound
    BY <2>1, <2>2, Zenon
  <2> HIDE DEF PaymentSound, Sounds
  <2> QED BY <2>3 DEF PaymentRowsSound
<1>20. ItemMeant("0") /\ ItemMeant("1") <=>
         \A i \in Index : Place(i) < Body[<<"items">>].num => ItemSound(i)
  BY <1>16, Zenon DEF ItemMeant
<1>21. Listing => (Body[<<"items">>].num > 0 <=> Body[<<"items">>].num # 0)
  <2>1. <<"items">> \in Path
    BY <1>7, Zenon DEF RowAt
  <2>2. Listing => Body[<<"items">>].num \in 0..2
    BY <1>1, <2>1, BodyForms, BodyValueForms, Zenon
  <2> QED BY <2>2
<1>22. Sound <=> /\ OperatorSound
                 /\ Parties /\ TextSound /\ Taxed
                 /\ Listing /\ Body[<<"items">>].num > 0
                 /\ \A i \in Index : Place(i) < Body[<<"items">>].num => ItemSound(i)
                 /\ PaymentSound
  BY DEF Sound, Taxed
<1>23. AllSound <=> \A i \in 1..35 : Sounds(R[i])
  BY <1>3 DEF AllSound
<1>24. (\A i \in 1..35 : Sounds(R[i])) <=>
         /\ Sounds(R[1]) /\ Sounds(R[2]) /\ Sounds(R[3]) /\ Sounds(R[4])
         /\ Sounds(R[5]) /\ Sounds(R[6]) /\ Sounds(R[7])
         /\ Sounds(R[8]) /\ Sounds(R[9])
         /\ Sounds(R[10]) /\ Sounds(R[11]) /\ Sounds(R[12])
         /\ Sounds(R[13]) /\ Sounds(R[14])
         /\ Sounds(R[15])
         /\ Sounds(R[16])
         /\ Sounds(R[17]) /\ Sounds(R[18]) /\ Sounds(R[19])
         /\ Sounds(R[20]) /\ Sounds(R[21]) /\ Sounds(R[22])
         /\ Sounds(R[23]) /\ Sounds(R[24]) /\ Sounds(R[25])
         /\ Sounds(R[26]) /\ Sounds(R[27]) /\ Sounds(R[28])
         /\ Sounds(R[29]) /\ Sounds(R[30]) /\ Sounds(R[31])
         /\ Sounds(R[32]) /\ Sounds(R[33]) /\ Sounds(R[34]) /\ Sounds(R[35])
  OBVIOUS
<1>25. AllSound <=> /\ OperatorSound /\ Parties /\ TextSound /\ Taxed /\ Listing
                    /\ ItemMeant("0") /\ ItemMeant("1") /\ PaymentSound
  <2> HIDE DEF R, Parties, Listing
  <2>1. ASSUME AllSound
        PROVE  /\ OperatorSound /\ Parties /\ TextSound /\ Taxed /\ Listing
               /\ ItemMeant("0") /\ ItemMeant("1") /\ PaymentSound
    <3>1. \A i \in 1..35 : Sounds(R[i])
      BY <1>23, <2>1, Zenon
    <3>2. OperatorSound /\ Parties /\ TextSound /\ Taxed /\ Listing /\ PaymentSound
      BY <1>11, <1>12, <1>13, <1>14, <1>15, <1>19, <1>24, <3>1, Zenon
    <3> QED BY <1>17, <1>18, <1>24, <3>1, <3>2, Zenon DEF ItemRowsSound
  <2>2. ASSUME OperatorSound, Parties, TextSound, Taxed, Listing,
               ItemMeant("0"), ItemMeant("1"), PaymentSound
        PROVE  AllSound
    <3>1. Sounds(R[15]) /\ Sounds(R[16])
      BY <1>14, <1>15, <2>2, Zenon
    <3>2. /\ Sounds(R[17]) /\ Sounds(R[18]) /\ Sounds(R[19])
          /\ Sounds(R[20]) /\ Sounds(R[21]) /\ Sounds(R[22])
      BY <1>17, <2>2, Zenon DEF ItemRowsSound
    <3>3. /\ Sounds(R[23]) /\ Sounds(R[24]) /\ Sounds(R[25])
          /\ Sounds(R[26]) /\ Sounds(R[27]) /\ Sounds(R[28])
      BY <1>18, <2>2, Zenon DEF ItemRowsSound
    <3>4. \A i \in 1..35 : Sounds(R[i])
      BY <1>11, <1>12, <1>13, <1>19, <1>24, <2>2, <3>1, <3>2, <3>3, Zenon
    <3> QED BY <1>23, <3>4, Zenon
  <2> QED BY <2>1, <2>2, Zenon
<1> HIDE DEF R, Parties, Listing
<1> QED BY <1>20, <1>21, <1>22, <1>25, Zenon

(* Every row of a request is sound exactly when the request is: no item is *)
(* the one fault of a receipt that no row tells.                           *)
LEMMA RowsAreSound ==
  ASSUME request \in Request
  PROVE  /\ AllSound /\ (request.kind = "receipt" => Body[<<"items">>].num # 0)
         <=> Sound
<1>1. request.kind \in {"cash", "close", "print", "receipt"}
  BY RequestIs, KindsAre, Zenon
<1>2. "receipt" \notin {"cash", "close", "print"}
  BY Zenon
<1> QED BY <1>1, <1>2, CashSound, CloseSound, PrintSound, ReceiptSound, Zenon

-----------------------------------------------------------------------------
(* What follows of a request that is done or refused.                      *)

LEMMA MemberReached ==
  ASSUME NEW b, NEW a, NEW k, a # "items", a # "document", k # "electroPaymentInfo",
         There(b, <<a>>)
  PROVE  Reached(b, <<a, k>>)
<1> DEFINE p == <<a, k>>
<1>1. Front(p) = <<a>> /\ p[1] = a /\ p[2] = k
  BY TupleParts, Fronts, Zenon
<1> HIDE DEF p
<1>2. ~InArray(p) /\ p[1] # "document" /\ p[2] # "electroPaymentInfo" /\ There(b, Front(p))
  BY <1>1, Zenon DEF InArray
<1>3. Reached(b, p)
  BY <1>2, Zenon DEF Reached
<1> QED BY <1>3, Zenon DEF p

LEMMA EarlierNoteTaken ==
  ASSUME NEW b \in Bodies, NEW R \in Seq(AnyRow), Ordered(R), NEW n \in 1..Len(R) + 1, NEW d,
         TakenBefore(b, R, n, d), NEW q, Earlier(R, n, q, "note", FALSE), Reached(b, q),
         There(b, q)
  PROVE  SameAt(d, b, q)
<1>0. PICK r : IsTaken(b, d, q, "note", FALSE, r)
  BY EarlierTaken, PlainChecks, Zenon
<1>1. /\ r.check = "note" /\ r.path = q /\ q \in Path
      /\ Len(q) \in {1, 2, 3} /\ RowSound(b, r) /\ d[q] = Wanted(b, r)
  BY <1>0, Zenon DEF IsTaken
<1>2. Plain(r.check)
  BY <1>1, PlainChecks, Zenon
<1>3. d[q] = Cast(r, b[q]) /\ Cast(r, b[q]) # Bad
  BY <1>1, <1>2, Settled, Zenon
<1>4. b[q] \in BodyValue
  BY <1>1, BodyForms, Zenon
<1> QED BY <1>1, <1>3, <1>4, NoteFits, Zenon DEF SameAt

LEMMA EarlierSumTaken ==
  ASSUME NEW b \in Bodies, NEW R \in Seq(AnyRow), Ordered(R), NEW n \in 1..Len(R) + 1, NEW d,
         TakenBefore(b, R, n, d), NEW q, Earlier(R, n, q, "sum", TRUE), Reached(b, q),
         There(b, q), b[q].num # NoNumber
  PROVE  SameAt(d, b, q)
<1>0. PICK r : IsTaken(b, d, q, "sum", TRUE, r)
  BY EarlierTaken, PlainChecks, Zenon
<1>1. /\ r.check = "sum" /\ r.path = q /\ q \in Path
      /\ Len(q) \in {1, 2, 3} /\ RowSound(b, r) /\ d[q] = Wanted(b, r)
  BY <1>0, Zenon DEF IsTaken
<1>2. Plain(r.check)
  BY <1>1, PlainChecks, Zenon
<1>3. d[q] = Cast(r, b[q]) /\ Cast(r, b[q]) # Bad
  BY <1>1, <1>2, Settled, Zenon
<1>4. b[q] \in BodyValue
  BY <1>1, BodyForms, Zenon
<1> QED BY <1>1, <1>3, <1>4, SumFits, Zenon DEF SameAt

(* Both state machines keep to their types, whatever a body and whatever   *)
(* the answers of the cash register are: the place in the list of keys, the*)
(* details taken by key (impex.cpp) and what the driver is told.           *)
THEOREM TypesHold == Spec /\ DetailsSpec => []ImpexTypeOK
<1>1. CollectInv => TypeOK
  BY DEF CollectInv
<1>2. DetailsInv => DetailsTypeOK
  BY DEF DetailsInv
<1>3. TypeOK /\ DetailsTypeOK => ImpexTypeOK
  BY DEF ImpexTypeOK
<1> QED BY <1>1, <1>2, <1>3, CollectHolds, DetailsHolds, PTL

LEMMA SoundsAre ==
  AllSound <=> \A i \in 1..Len(Rows[request.kind]) : RowSound(Body, Rows[request.kind][i])
  BY Zenon DEF AllSound, Sounds

LEMMA DoneIsSound == ASSUME DetailsInv, outcome = "done" PROVE Sound
<1> DEFINE R == Rows[request.kind]
<1>1. /\ request \in Request /\ row \in 1..Len(R) + 1 /\ AllIn
      /\ DetailsTypeOK /\ TakenBefore(Body, R, row, details)
  BY Zenon DEF DetailsInv, DetailsTypeOK, Told
<1>2. R \in Seq(AnyRow)
  BY <1>1, RequestIs, Zenon
<1>3. \A i \in 1..Len(R) : i < row
  BY <1>1, <1>2 DEF AllIn
<1>4. AllSound
  BY <1>1, <1>3, SoundsAre, Zenon DEF TakenBefore
<1>5. request.kind = "receipt" => Body[<<"items">>].num # 0
  <2> SUFFICES ASSUME request.kind = "receipt" PROVE Body[<<"items">>].num # 0
    OBVIOUS
  <2>1. ItemsTaken \in 1..2
    BY Zenon DEF DetailsInv, Told, Registered
  <2>2. ItemsTaken = Body[<<"items">>].num
    BY <1>1, ItemsAre, Zenon
  <2> QED BY <2>1, <2>2
<1> QED BY <1>1, <1>4, <1>5, RowsAreSound, Zenon

LEMMA RefusedIsNot == ASSUME DetailsInv, outcome = "refused" PROVE ~Sound /\ driver = Untold
<1> DEFINE R == Rows[request.kind]
<1>1. /\ request \in Request /\ DetailsTypeOK /\ TakenBefore(Body, R, row, details)
      /\ driver = Untold /\ Faulty
  BY Zenon DEF DetailsInv, DetailsTypeOK, Told
<1>2. ~AllSound \/ (request.kind = "receipt" /\ AllIn /\ ItemsTaken = 0)
  BY <1>1, SoundsAre, Zenon DEF Faulty
<1>3. CASE ~AllSound
  BY <1>1, <1>3, RowsAreSound, Zenon
<1>4. CASE request.kind = "receipt" /\ AllIn /\ ItemsTaken = 0
  <2>1. ItemsTaken = Body[<<"items">>].num
    BY <1>1, <1>4, ItemsAre, Zenon
  <2>2. Body[<<"items">>].num = 0
    BY <1>4, <2>1
  <2> QED BY <1>1, <1>4, <2>2, RowsAreSound, Zenon
<1> QED BY <1>2, <1>3, <1>4, Zenon

(* assign(Details, Json) of impex.cpp with handleKey of json.h: whatever    *)
(* the body, a request is carried out exactly when the key-by-key reference *)
(* definitions find nothing wrong with it, and one that is refused has told *)
(* the cash register nothing.                                               *)
THEOREM AcceptedExactlyWhenSoundHolds == DetailsSpec => []AcceptedExactlyWhenSound
<1>1. DetailsInv => AcceptedExactlyWhenSound
  BY DoneIsSound, RefusedIsNot, Zenon DEF AcceptedExactlyWhenSound
<1> QED BY <1>1, DetailsHolds, PTL

LEMMA AllItemsTold ==
  ASSUME NEW s \in Seq(Index), NEW n \in 1..2, Len(s) = n,
         \A j \in 1..Len(s) : Place(s[j]) = j - 1
  PROVE  s = SubSeq(<<"0", "1">>, 1, n)
<1> DEFINE t == <<"0", "1">>
           u == SubSeq(t, 1, n)
<1>1. t \in Seq(Index) /\ Len(t) = 2 /\ t[1] = "0" /\ t[2] = "1"
  BY DEF Index
<1>2. \A j \in 1..n : t[j] \in Index
  BY <1>1
<1>3. u \in Seq(Index) /\ Len(u) = n /\ \A j \in 1..n : u[j] = t[j]
  <2> HIDE DEF t
  <2> QED BY <1>2, SubSeqProperties
<1>4. ASSUME NEW j \in 1..n PROVE s[j] = t[j]
  <2>1. s[j] \in Index /\ Place(s[j]) = j - 1
    OBVIOUS
  <2>2. \A i \in Index : /\ Place(i) = 0 => i = "0"
                         /\ Place(i) = 1 => i = "1"
    <3>1. \A i \in Index : i = "0" \/ i = "1"
      BY Zenon DEF Index
    <3>2. Place("0") = 0 /\ Place("1") = 1
      BY DEF Place
    <3>3. 0 # 1
      OBVIOUS
    <3> QED BY <3>1, <3>2, <3>3, Zenon
  <2>3. j = 1 \/ j = 2
    OBVIOUS
  <2>4. CASE j = 1
    <3>1. Place(s[j]) = 0
      BY <2>1, <2>4
    <3>2. s[j] = "0"
      BY <2>1, <2>2, <3>1, Zenon
    <3> QED BY <1>1, <2>4, <3>2
  <2>5. CASE j = 2
    <3>1. Place(s[j]) = 1
      BY <2>1, <2>5
    <3>2. s[j] = "1"
      BY <2>1, <2>2, <3>1, Zenon
    <3> QED BY <1>1, <2>5, <3>2
  <2> QED BY <2>3, <2>4, <2>5
<1> HIDE DEF t, u
<1>5. s = u
  BY <1>3, <1>4, SeqEqual
<1> QED BY <1>5 DEF u, t

(* What a receipt that is done has been taken from.                        *)
LEMMA ReceiptTaken ==
  ASSUME DetailsInv, outcome = "done", request.kind = "receipt"
  PROVE  LET R == Rows[request.kind] IN
         /\ Body \in Bodies /\ R \in Seq(AnyRow) /\ Ordered(R) /\ row \in 1..Len(R) + 1
         /\ TakenBefore(Body, R, row, details)
         /\ Earlier(R, row, <<"customer", "contact">>, "note", FALSE)
         /\ Earlier(R, row, <<"customer", "inn">>, "note", FALSE)
         /\ Earlier(R, row, <<"payment">>, "object", TRUE)
         /\ Earlier(R, row, <<"payment", "sum">>, "sum", TRUE)
         /\ Earlier(R, row, <<"payment", "electroPaymentInfo">>, "object", FALSE)
<1> DEFINE R == Rows[request.kind]
<1>1. /\ request \in Request /\ row \in 1..Len(R) + 1 /\ AllIn
      /\ TakenBefore(Body, R, row, details)
  BY Zenon DEF DetailsInv, DetailsTypeOK, Told
<1>2. Body \in Bodies /\ R \in Seq(AnyRow) /\ Ordered(R)
  BY <1>1, RequestIs, Zenon
<1>3. R = ReceiptRows
  BY KindsAre
<1>4. row = 36
  <2>1. Len(R) = 35
    BY <1>3, ReceiptRowsAre, Zenon
  <2>2. row = Len(R) + 1
    BY <1>1, Zenon DEF AllIn
  <2> HIDE DEF R
  <2> QED BY <2>1, <2>2
<1>5. /\ 6 \in 1..row - 1 /\ 7 \in 1..row - 1 /\ 29 \in 1..row - 1 /\ 30 \in 1..row - 1
      /\ 32 \in 1..row - 1
  BY <1>4
<1>6. /\ IsRow(R[6], <<"customer", "contact">>, "note", FALSE)
      /\ IsRow(R[7], <<"customer", "inn">>, "note", FALSE)
      /\ IsRow(R[29], <<"payment">>, "object", TRUE)
      /\ IsRow(R[30], <<"payment", "sum">>, "sum", TRUE)
      /\ IsRow(R[32], <<"payment", "electroPaymentInfo">>, "object", FALSE)
  BY <1>3, ReceiptRowsAre, Zenon
<1> HIDE DEF R
<1>7. /\ Earlier(R, row, <<"customer", "contact">>, "note", FALSE)
      /\ Earlier(R, row, <<"customer", "inn">>, "note", FALSE)
      /\ Earlier(R, row, <<"payment">>, "object", TRUE)
      /\ Earlier(R, row, <<"payment", "sum">>, "sum", TRUE)
      /\ Earlier(R, row, <<"payment", "electroPaymentInfo">>, "object", FALSE)
  BY <1>5, <1>6, Zenon DEF Earlier
<1> QED BY <1>1, <1>2, <1>7, Zenon DEF R

LEMMA CustomerTold ==
  ASSUME DetailsInv, outcome = "done", request.kind = "receipt", NEW k \in {"contact", "inn"},
         Has(<<"customer">>), Has(<<"customer", k>>), Body[<<"customer", k>>].text # ""
  PROVE  Given(<<"customer", k>>)
<1> DEFINE R == Rows[request.kind]
           q == <<"customer", k>>
<1>1. There(Body, <<"customer">>) /\ There(Body, q)
  BY Zenon DEF There, Has
<1>2. /\ "customer" # "items" /\ "customer" # "document" /\ k # "electroPaymentInfo"
  BY Zenon
<1>3. Reached(Body, q)
  BY <1>1, <1>2, MemberReached, Zenon
<1>4. Earlier(R, row, q, "note", FALSE)
  <2>1. k = "contact" \/ k = "inn"
    BY Zenon
  <2>2. CASE k = "contact"
    <3>1. Earlier(R, row, <<"customer", "contact">>, "note", FALSE)
      BY ReceiptTaken, Zenon
    <3> QED BY <2>2, <3>1
  <2>3. CASE k = "inn"
    <3>1. Earlier(R, row, <<"customer", "inn">>, "note", FALSE)
      BY ReceiptTaken, Zenon
    <3> QED BY <2>3, <3>1
  <2> QED BY <2>1, <2>2, <2>3
<1>5. SameAt(details, Body, q)
  <2>1. /\ Body \in Bodies /\ R \in Seq(AnyRow) /\ Ordered(R) /\ row \in 1..Len(R) + 1
        /\ TakenBefore(Body, R, row, details)
    BY ReceiptTaken, Zenon
  <2> HIDE DEF R, q
  <2> QED BY <1>1, <1>3, <1>4, <2>1, EarlierNoteTaken, Zenon
<1>6. details[q].text # ""
  BY <1>5 DEF SameAt
<1>7. NotFound.text = ""
  BY FormsAre, Zenon DEF NotFound
<1> HIDE DEF q
<1>8. Given(q)
  BY <1>6, <1>7 DEF Given
<1> QED BY <1>8 DEF q

LEMMA PaymentTold ==
  ASSUME DetailsInv, outcome = "done", request.kind = "receipt",
         Numeral(<<"payment", "sum">>), Exceeds(Body[<<"payment", "sum">>], 0)
  PROVE  /\ "sum" \in Payments
         /\ Electronic /\ Has(<<"payment", "electroPaymentInfo">>) => "info" \in Payments
<1> DEFINE R == Rows[request.kind]
           q == <<"payment", "sum">>
           e == <<"payment", "electroPaymentInfo">>
<1>1. /\ Body \in Bodies /\ R \in Seq(AnyRow) /\ Ordered(R) /\ row \in 1..Len(R) + 1
      /\ TakenBefore(Body, R, row, details)
      /\ Earlier(R, row, <<"payment">>, "object", TRUE)
      /\ Earlier(R, row, q, "sum", TRUE) /\ Earlier(R, row, e, "object", FALSE)
  BY ReceiptTaken, Zenon
<1>2. There(Body, q) /\ Body[q].num # NoNumber
  BY Zenon DEF Numeral, Has, There
<1> HIDE DEF R
<1>3. There(Body, <<"payment">>)
  <2>1. Len(<<"payment">>) = 1
    BY TupleParts, Zenon
  <2>2. Reached(Body, <<"payment">>)
    BY <2>1, TopReached, Zenon
  <2> QED BY <1>1, <2>2, EarlierObjectTaken, Zenon
<1>4. Reached(Body, q)
  <2>1. "payment" # "items" /\ "payment" # "document" /\ "sum" # "electroPaymentInfo"
    BY Zenon
  <2> QED BY <1>3, <2>1, MemberReached, Zenon
<1>5. SameAt(details, Body, q)
  <2> HIDE DEF q
  <2> QED BY <1>1, <1>2, <1>4, EarlierSumTaken, Zenon
<1>6. Exceeds(details[q], 0)
  <2>1. Exceeds(Body[q], 0)
    OBVIOUS
  <2> HIDE DEF q
  <2> QED BY <1>5, <2>1 DEF SameAt
<1>7. Payments = {"sum"} \cup {i \in {"info"} : HasPaymentInfo}
  BY <1>6, Zenon DEF Payments
<1>8. ASSUME Electronic, Has(e) PROVE HasPaymentInfo
  <2>1. There(Body, e)
    BY <1>8, Zenon DEF Has, There
  <2>2. Reached(Body, e)
    BY <1>3, <1>8, ElectronicIs, ElectroReached, Zenon
  <2> HIDE DEF e
  <2>3. details[e] # NotFound
    BY <1>1, <2>1, <2>2, EarlierObjectTaken, Zenon
  <2> QED BY <2>3 DEF HasPaymentInfo, e
<1> QED BY <1>7, <1>8, Zenon

(* subRegisterReceipt of device.cpp, after assign(ReceiptDetails): of every *)
(* receipt that is done the driver has been told every item once and in     *)
(* order, the customer's contact and number, and of a sum that is more than *)
(* nothing also the data of an electronic payment.                          *)
THEOREM AcceptedReachesDriverHolds == DetailsSpec => []AcceptedReachesDriver
<1>1. DetailsInv => AcceptedReachesDriver
  <2> SUFFICES ASSUME DetailsInv, outcome = "done", request.kind = "receipt"
               PROVE  AcceptedReachesDriver
    BY Zenon DEF AcceptedReachesDriver
  <2>1. /\ Registered /\ Len(driver.items) = ItemsTaken /\ driver.payments = Payments
        /\ DetailsTypeOK /\ TakenBefore(Body, Rows[request.kind], row, details)
    BY Zenon DEF DetailsInv, Told
  <2>2. ItemsTaken = Body[<<"items">>].num
    BY <2>1, ItemsAre, Zenon DEF Registered
  <2>3. driver.items = SubSeq(<<"0", "1">>, 1, Body[<<"items">>].num)
    <3>1. driver.items \in Seq(Index)
      <4>1. driver \in DriverState(TagNames, PaymentNames)
        BY <2>1, Zenon DEF DetailsTypeOK, DriverState, TagNames, PaymentNames
      <4> QED BY <4>1, DriverUpdates, Zenon
    <3>2. /\ ItemsTaken \in 1..2 /\ Len(driver.items) = ItemsTaken
          /\ \A j \in 1..Len(driver.items) : Place(driver.items[j]) = j - 1
      BY <2>1, Zenon DEF Registered
    <3>3. driver.items = SubSeq(<<"0", "1">>, 1, ItemsTaken)
      BY <3>1, <3>2, AllItemsTold, Zenon
    <3> QED BY <2>2, <3>3
  <2>4. ASSUME NEW k \in {"contact", "inn"}, Has(<<"customer">>), Has(<<"customer", k>>),
               Body[<<"customer", k>>].text # ""
        PROVE  (IF k = "inn" THEN "customer inn" ELSE k) \in driver.tags
    <3>1. Given(<<"customer", k>>) /\ driver.tags = Tags
      BY <2>1, <2>4, CustomerTold, Zenon DEF Registered
    <3>2. k = "contact" \/ k = "inn"
      BY Zenon
    <3>3. CASE k = "contact"
      <4>1. Given(<<"customer", "contact">>)
        BY <3>1, <3>3
      <4>2. "contact" \in Tags
        BY <4>1, Zenon DEF Tags
      <4> QED BY <3>1, <3>3, <4>2, Zenon
    <3>4. CASE k = "inn"
      <4>1. Given(<<"customer", "inn">>)
        BY <3>1, <3>4
      <4>2. "customer inn" \in Tags
        BY <4>1, Zenon DEF Tags
      <4> QED BY <3>1, <3>4, <4>2, Zenon
    <3> QED BY <3>2, <3>3, <3>4
  <2>5. ASSUME Numeral(<<"payment", "sum">>), Exceeds(Body[<<"payment", "sum">>], 0)
        PROVE  /\ "sum" \in driver.payments
               /\ Electronic /\ Has(<<"payment", "electroPaymentInfo">>)
                  => "info" \in driver.payments
    BY <2>1, <2>5, PaymentTold, Zenon
  <2> QED BY <2>3, <2>4, <2>5, Zenon DEF AcceptedReachesDriver
<1> QED BY <1>1, DetailsHolds, PTL
=============================================================================
