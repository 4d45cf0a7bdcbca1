------------------------------ MODULE MCImpex ------------------------------
(* The two directions of impex.cpp, each by itself: a GET collects results  *)
(* while no details are taken, a POST has its details taken while nothing   *)
(* is collected.                                                            *)
EXTENDS StatusCollection, RequestDetails

(* Both state machines keep to their types. *)
ImpexTypeOK == TypeOK /\ DetailsTypeOK

(* The values a key has in a request that is good.                          *)
GoodValue(p) ==
    CASE p \in {<<"operator">>, <<"customer">>, <<"seller">>, <<"text">>, <<"payment">>,
                <<"payment", "electroPaymentInfo">>}
              \cup {<<a, i>> : a \in {"items", "document"}, i \in Index} -> Object
      [] p \in {<<"items">>, <<"document">>} -> Array(2)
      [] p[Len(p)] = "tax" -> Text("vat10")
      [] p[Len(p)] = "unit" -> Text("piece")
      [] p[Len(p)] = "type" -> Text("electronically")
      [] p[Len(p)] \in {"cashSum", "price", "sum"} -> Number(MaxPrice)
      [] p[Len(p)] \in {"quantity", "method"} -> Number(1)
      [] p[Len(p)] \in {"electronically", "cliche", "footer", "margin", "separator",
                        "center", "magnified", "separated", "closeShift", "cashOut"} ->
            Flag(FALSE)
      [] OTHER -> Text("text")

KindPaths(k) ==
    {Rows[k][i].path : i \in DOMAIN Rows[k]}
    \cup (IF k = "print" THEN {<<"document", i>> : i \in Index} ELSE {})

(* What may stand in the place of a value by itself, and beside another.    *)
Alternatives ==
    {Missing, Null, Object, Array(0), Array(1), Array(2), Text(""), Text("blank"),
     Text("long"), Text("yes"), Text("auto"), Text("cash"), Text("no"), TextOf(NaN),
     Flag(TRUE), Flag(FALSE)}
    \cup {Number(n) : n \in 0..MaxPrice + 1}
    \cup {TextOf(MinMaxPrice), Digits(1), Float(1), [Digits(1) EXCEPT !.text = "decimal"]}
Faults == {Missing, Object, Text("auto"), Number(0), Number(1), Flag(TRUE)}

(* A body without a value has none of the keys the value would have.        *)
Level(b, n) == [p \in Path |-> IF Len(p) = n /\ ~Holds(b, p) THEN Missing ELSE b[p]]
Pruned(b) == Level(Level(b, 2), 3)

Good(k) == [p \in Path |-> IF p \in KindPaths(k) THEN GoodValue(p) ELSE Missing]

Begins(k, b) ==
    LET r == [kind |-> k, body |-> Pruned(b)] IN r \in Request /\ Begin(r)

OneOrTwoFaults ==
    \E k \in DOMAIN Rows : \E i \in DOMAIN Rows[k] :
        \/ \E v \in Alternatives : Begins(k, [Good(k) EXCEPT ![Rows[k][i].path] = v])
        \/ \E j \in 1..i - 1, v \in Faults, w \in Faults :
              Begins(k, [Good(k) EXCEPT ![Rows[k][i].path] = v, ![Rows[k][j].path] = w])

NoRequest == [kind |-> "close", body |-> Good("close")]

MCInit ==
    \/ /\ Init
       /\ request = NoRequest /\ row = Len(CloseRows) + 1 /\ details = NoRequest.body
       /\ outcome = "done" /\ error = <<>> /\ driver = Untold
    \/ /\ OneOrTwoFaults
       /\ operation = "base" /\ next = 2 /\ query = 0 /\ failed = {}
       /\ json = [keys |-> TRUE, success |-> TRUE, message |-> "ok", sections |-> {"status"}]

MCNext ==
    \/ Next /\ UNCHANGED detailsVars
    \/ DetailsNext /\ UNCHANGED vars

MCSpec == MCInit /\ [][MCNext]_<<vars, detailsVars>>
=============================================================================
