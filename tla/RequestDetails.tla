--------------------------- MODULE RequestDetails ---------------------------
(***************************************************************************)
(* The details of a POST: assign(Details, Json) of impex.cpp takes one key *)
(* of the body after the other, with the handleKey family of json.h and    *)
(* the filters of text.h and numeric.h; the first key that is wrong ends   *)
(* the request.  What has been taken of a receipt is then handed to the    *)
(* driver, by Device::subRegisterReceipt and what it calls.                *)
(*                                                                         *)
(* The session with the cash register is open before the details are taken *)
(* (callMethod); the ways a driver call can end are DeviceSession's.       *)
(***************************************************************************)
EXTENDS Integers, SequencesExt

CONSTANTS
    MinCashInOut, MaxCashInOut,  \* c_minCashInOut, s_maxCashInOut
    MinPrice, MinMaxPrice,       \* c_minPrice, c_minMaxPrice
    MaxPrice,                    \* s_maxPrice
    MinQuantity, MaxQuantity,    \* c_minQuantity, s_maxQuantity
    UnitCodes, TaxCodes,         \* MeasurementUnit, Tax: the driver's numbers
    CashCode, ElectronicCode,    \* PaymentType
    NaN,                         \* the double that a text like "nan" is
    NoNumber                     \* a text that is no number

(* A JSON value: its text, as cast<std::wstring> has it, is empty, made of *)
(* spaces, too long for its place, a word that means something, a whole    *)
(* number as std::to_string writes it, a number with a point or an         *)
(* exponent, or any other; its number is what cast<double> makes of it,    *)
(* the length of an array.  "piece" and "vat10" stand for all the words of *)
(* their maps, but for "no", which a false is as well; spaces around a     *)
(* word are left out.  A key that is not there has a "missing" value.      *)
JsonType == {"missing", "null", "boolean", "number", "string", "object", "array"}
JsonText == {"", "blank", "text", "long", "yes", "no", "auto", "cash",
             "electronically", "piece", "vat10", "numeral", "decimal"}
JsonValue == [type : JsonType, text : JsonText, num : Int \cup {NaN, NoNumber}]

Missing == [type |-> "missing", text |-> "", num |-> NoNumber]
Null == [type |-> "null", text |-> "", num |-> NoNumber]
Object == [type |-> "object", text |-> "", num |-> NoNumber]
Array(n) == [type |-> "array", text |-> "", num |-> n]
Text(t) == [type |-> "string", text |-> t, num |-> NoNumber]
Digits(n) == [type |-> "string", text |-> "numeral", num |-> n]
TextOf(n) == [type |-> "string", text |-> "text", num |-> n]
Number(n) == [type |-> "number", text |-> "numeral", num |-> n]
Float(n) == [type |-> "number", text |-> "decimal", num |-> n]
Flag(b) == [type |-> "boolean", text |-> IF b THEN "yes" ELSE "no",
            num |-> IF b THEN 1 ELSE 0]

-----------------------------------------------------------------------------
(* The keys of each kind of details, in the order they are taken in.  A    *)
(* row says how a key is cast and filtered, and whether it must be there;  *)
(* "reported" is what an error calls it.                                   *)
Row(p, c, n) == [path |-> p, check |-> c, need |-> n, reported |-> p]
Must(p, c) == Row(p, c, TRUE)
May(p, c) == Row(p, c, FALSE)
Bare(r) == [r EXCEPT !.reported = <<Last(r.path)>>]

ElectronicallyRows == <<May(<<"electronically">>, "flag")>>

OperatorRows ==
    ElectronicallyRows \o
    <<Must(<<"operator">>, "object"), Must(<<"operator", "name">>, "title"),
      May(<<"operator", "inn">>, "note")>>

CashRows == OperatorRows \o <<Must(<<"cashSum">>, "cash")>>

CloseRows ==
    OperatorRows \o <<May(<<"closeShift">>, "flag"), May(<<"cashOut">>, "flag")>>

Index == {"0", "1"}
Place(i) == IF i = "0" THEN 0 ELSE 1

BlockRows(i) ==
    <<May(<<"document", i, "separator">>, "flag"),
      Must(<<"document", i, "content">>, "text"),
      May(<<"document", i, "center">>, "flag"),
      May(<<"document", i, "magnified">>, "flag"),
      May(<<"document", i, "separated">>, "flag")>>

PrintRows ==
    ElectronicallyRows \o
    <<May(<<"cliche">>, "flag"), May(<<"footer">>, "flag"), May(<<"margin">>, "flag"),
      Must(<<"document">>, "array")>>
    \o BlockRows("0") \o BlockRows("1")

(* contact stands for the eight customer's fields that are like it. *)
PartiesRows ==
    <<May(<<"customer">>, "object"), May(<<"customer", "contact">>, "note"),
      May(<<"customer", "inn">>, "note"),
      May(<<"seller">>, "object"), May(<<"seller", "email">>, "note")>>

(* text stands for headerText and footerText as well. *)
TextRows ==
    <<May(<<"text">>, "object"), May(<<"text", "content">>, "text"),
      May(<<"text", "center">>, "flag"), May(<<"text", "magnified">>, "flag"),
      May(<<"text", "separated">>, "flag")>>

(* unit and tax are taken without the path of their item; the constructor  *)
(* of ReceiptItemDetails, the last row, tests the amounts again.           *)
ItemRows(i) ==
    <<Must(<<"items", i, "title">>, "title"), Must(<<"items", i, "price">>, "price"),
      Must(<<"items", i, "quantity">>, "quantity"),
      Bare(May(<<"items", i, "unit">>, "unit")),
      [Bare(May(<<"items", i, "tax">>, "item tax")) EXCEPT !.reported = <<"tax">>],
      [Must(<<"items", i>>, "item") EXCEPT !.reported = <<"price">>]>>

PaymentRows ==
    <<Must(<<"payment">>, "object"), Must(<<"payment", "sum">>, "sum"),
      Must(<<"payment", "type">>, "payment type"),
      May(<<"payment", "electroPaymentInfo">>, "object"),
      Must(<<"payment", "electroPaymentInfo", "method">>, "integer"),
      Must(<<"payment", "electroPaymentInfo", "id">>, "text"),
      May(<<"payment", "electroPaymentInfo", "addInfo">>, "note")>>

ReceiptRows ==
    OperatorRows \o PartiesRows \o TextRows \o <<May(<<"tax">>, "tax")>>
    \o <<Must(<<"items">>, "array")>> \o ItemRows("0") \o ItemRows("1") \o PaymentRows

Rows == [cash |-> CashRows, close |-> CloseRows, print |-> PrintRows,
         receipt |-> ReceiptRows]

Path == UNION {{Rows[k][i].path : i \in DOMAIN Rows[k]} : k \in DOMAIN Rows}
        \cup {<<"document", i>> : i \in Index}

(* What the parser of JSON makes of a body: a value is of one of the forms *)
(* above, a key or an element is there only where its parent holds it, and *)
(* an array has as many elements as it says.  A number that is too long    *)
(* for a text is still a number, a string may spell one in another way     *)
(* ("01"), and a number is within the range of what it is cast to.         *)
BodyValue ==
    {v \in JsonValue :
        \/ v \in {Missing, Null, Object, Flag(TRUE), Flag(FALSE), TextOf(NaN)}
        \/ v.text \notin {"numeral", "decimal"} /\ v = Text(v.text)
        \/ v.num \in 0..Cardinality(Index) /\ v = Array(v.num)
        \/ v.type = "number" /\ v.text \in {"numeral", "decimal", "long"} /\ v.num \in Int
        \/ /\ v.type = "string" /\ v.text \in {"numeral", "decimal", "long", "text"}
           /\ v.num \in Int}

Parent(b, p) == b[Front(p)]
Element(b, p) ==
    Parent(b, p).type = "array" /\ Last(p) \in Index /\ Place(Last(p)) < Parent(b, p).num
Holds(b, p) == Parent(b, p).type = "object" \/ Element(b, p)
Nested(b) ==
    \A p \in Path : Len(p) > 1 =>
        (b[p] # Missing => Holds(b, p)) /\ (Element(b, p) => b[p] # Missing)

Request ==
    {r \in [kind : DOMAIN Rows, body : [Path -> BodyValue]] : Nested(r.body)}

ASSUME DetailsAssumption ==
    /\ {MinCashInOut, MaxCashInOut, MinPrice, MinMaxPrice, MaxPrice,
        MinQuantity, MaxQuantity} \subseteq Int
    /\ UnitCodes \subseteq Int /\ TaxCodes \subseteq Int
    /\ {CashCode, ElectronicCode} \subseteq Int /\ CashCode # ElectronicCode
    /\ MinCashInOut <= MaxCashInOut /\ MinQuantity <= MaxQuantity
    /\ MinPrice <= MinMaxPrice /\ MinMaxPrice <= MaxPrice
    /\ NaN \notin Int /\ NoNumber \notin Int \cup {NaN}

VARIABLES
    request,   \* the operation and its m_details
    row,       \* the key that is taken next
    details,   \* Details: what has been taken
    outcome,   \* "taking", "registering", "done" or "refused"
    error,     \* what the exception calls the key that is wrong
    driver     \* what the driver has been told of a receipt

detailsVars == <<request, row, details, outcome, error, driver>>

Body == request.body
CurrentRow == Rows[request.kind][row]

NotFound == Missing
Untold == [open |-> FALSE, tags |-> {}, items |-> <<>>, payments |-> {}]

DetailsTypeOK ==
    /\ request \in Request
    /\ row \in 1..Len(Rows[request.kind]) + 1
    /\ details \in [Path -> JsonValue]
    /\ outcome \in {"taking", "registering", "done", "refused"}
    /\ driver \in [open : BOOLEAN,
                   tags : SUBSET {"name", "contact", "customer inn", "seller email"},
                   items : Seq(Index), payments : SUBSET {"sum", "info"}]

Begin(r) ==
    /\ request = r
    /\ row = 1
    /\ details = [p \in Path |-> NotFound]
    /\ outcome = "taking" /\ error = <<>> /\ driver = Untold

DetailsInit == \E r \in Request : Begin(r)

-----------------------------------------------------------------------------
(* cast<T>(Json) and the filters: what is put into the details, or Bad.    *)
Bad == [type |-> "null", text |-> "long", num |-> NoNumber]

If(test, v) == IF test THEN v ELSE Bad

IsText(v) == v.type \in {"string", "number", "boolean"}
Trimmed(v) == IF v.text = "blank" THEN [v EXCEPT !.text = ""] ELSE v

IsFlag(v) == v.type \in {"boolean", "number"} \/ (v.type = "string" /\ v.text \in {"yes", "no"})
IsTrue(v) == v.num \in Int \ {0} \/ v.text = "yes"
IsNumber(v) == IsText(v) /\ v.num # NoNumber

(* Variant for the mutation runs: the upper limit itself is refused.       *)
BetweenExclusive(v, min, max) == ~(v.num # NaN /\ (v.num < min \/ v.num >= max))

(* Numeric::between: neither test is true of a NaN.                        *)
Between(v, min, max) == ~(v.num # NaN /\ (v.num < min \/ v.num > max))

HasLength(v, min) == IsText(v) /\ v.text # "long" /\ (min = 1 => v.text # "")

Amount(v, min, max) == If(IsNumber(v) /\ Between(v, min, max), v)

(* The cast maps of kkm/strings.h have the words, and the driver's numbers *)
(* as std::to_string writes them, which a float is never written like.     *)
IsOneOf(v, words, codes) ==
    /\ IsText(v)
    /\ Trimmed(v).text \in words \/ (v.text = "numeral" /\ v.num \in codes)

UnitWords == {"piece"}
TaxWords == {"no", "vat10"}
IsCash(v) == IsOneOf(v, {"cash"}, {CashCode})
IsElectronic(v) == IsOneOf(v, {"electronically"}, {ElectronicCode})

PaymentType(v) ==
    IF IsCash(v) THEN Text("cash") ELSE If(IsElectronic(v), Text("electronically"))

(* Text::cast of an integer stops at a point.                              *)
IsInteger(v) == IsNumber(v) /\ v.num # NaN /\ ~(v.type = "string" /\ v.text = "decimal")

(* lower, "auto", and Text::cast<double> of whatever else it is.           *)
Sum(v) ==
    IF IsText(v) /\ v.text = "auto" THEN [v EXCEPT !.num = -1]
    ELSE If(v.type \in {"string", "number"} /\ v.num # NoNumber, v)

Cast(r, v) ==
    CASE r.check = "flag"         -> If(IsFlag(v), v)
      [] r.check = "object"       -> v
      [] r.check = "array"        -> If(v.type = "array", v)
      [] r.check = "title"        -> If(HasLength(Trimmed(v), 1), Trimmed(v))
      [] r.check = "text"         -> If(HasLength(v, 1), v)
      [] r.check = "note"         -> If(HasLength(v, 0), v)
      [] r.check = "cash"         -> Amount(v, MinCashInOut, MaxCashInOut)
      [] r.check = "price"        -> Amount(v, MinPrice, MaxPrice)
      [] r.check = "quantity"     -> Amount(v, MinQuantity, MaxQuantity)
      [] r.check = "integer"      -> If(IsInteger(v), v)
      [] r.check = "sum"          -> Sum(v)
      [] r.check = "payment type" -> PaymentType(v)
      [] r.check = "unit"         -> If(IsOneOf(v, UnitWords, UnitCodes), v)
      [] r.check \in {"tax", "item tax"} -> If(IsOneOf(v, TaxWords, TaxCodes), v)

-----------------------------------------------------------------------------
InArray(p) == Len(p) >= 2 /\ p[1] \in {"items", "document"}

(* Whether the code gets to the key: the handler of an object is called    *)
(* when the object is there, the loop of an array for each of its values.  *)
Applies(r) ==
    LET p == r.path IN
    /\ InArray(p) => Place(p[2]) < details[<<p[1]>>].num
    /\ Len(p) >= 2 /\ ~InArray(p) => details[Front(p)] # NotFound
    /\ p[1] = "document" /\ Len(p) = 3 /\ p[3] # "separator" =>
          ~IsTrue(details[<<"document", p[2], "separator">>])
    /\ Len(p) >= 2 /\ p[2] = "electroPaymentInfo" =>
          details[<<"payment", "type">>].text = "electronically"

(* handleKey: a parent that is neither an object nor null throws.          *)
ParentOf(p) == IF Len(p) = 1 THEN Object ELSE Body[Front(p)]

Value(r) ==
    IF r.check = "item" THEN Object
    ELSE IF ParentOf(r.path).type = "object" THEN Body[r.path]
    ELSE IF ParentOf(r.path).type = "null" THEN Missing
    ELSE Bad

IsThere(r) == Value(r) = Bad \/ Value(r).type \notin {"missing", "null"}

(* An item without a tax takes the tax of the receipt, if it has one.      *)
Needed(r) == r.need \/ (r.check = "item tax" /\ details[<<"tax">>] = NotFound)

(* The amounts of the item as they have been taken: the limit is not the   *)
(* one the price was taken with.                                           *)
Constructed(p, v) ==
    If(/\ Between(details[Append(p, "price")], MinMaxPrice, MaxPrice)
       /\ Between(details[Append(p, "quantity")], MinQuantity, MaxQuantity), v)

Taken(r) ==
    IF Value(r) = Bad THEN Bad
    ELSE IF r.check = "item" THEN Constructed(r.path, Value(r))
    ELSE Cast(r, Value(r))

Refuse(e) == outcome' = "refused" /\ error' = e /\ UNCHANGED <<request, row, details, driver>>

TakeKey ==
    /\ outcome = "taking" /\ row <= Len(Rows[request.kind])
    /\ \/ /\ Applies(CurrentRow) /\ IsThere(CurrentRow) /\ Taken(CurrentRow) # Bad
          /\ details' = [details EXCEPT ![CurrentRow.path] = Taken(CurrentRow)]
          /\ row' = row + 1
          /\ UNCHANGED <<request, outcome, error, driver>>
       \/ /\ Applies(CurrentRow) => ~IsThere(CurrentRow) /\ ~Needed(CurrentRow)
          /\ row' = row + 1
          /\ UNCHANGED <<request, details, outcome, error, driver>>
       \/ /\ Applies(CurrentRow)
          /\ IF IsThere(CurrentRow) THEN Taken(CurrentRow) = Bad ELSE Needed(CurrentRow)
          /\ Refuse(CurrentRow.reported)

AllTaken ==
    /\ outcome = "taking" /\ row > Len(Rows[request.kind])
    /\ outcome' = IF request.kind = "receipt" THEN "registering" ELSE "done"
    /\ UNCHANGED <<request, row, details, error, driver>>

-----------------------------------------------------------------------------
(* subRegisterReceipt. *)

Given(p) == details[p] # NotFound /\ details[p].text # ""
ItemsTaken == details[<<"items">>].num

(* subSetSeller looks at the customer's number.                            *)
Tags ==
    {"name"}
    \cup {t \in {"contact"} : Given(<<"customer", "contact">>)}
    \cup {t \in {"customer inn"} : Given(<<"customer", "inn">>)}
    \cup {t \in {"seller email"} : Given(<<"seller", "email">>) /\ Given(<<"customer", "inn">>)}

Open ==
    /\ outcome = "registering" /\ ~driver.open
    /\ \/ /\ ItemsTaken = 0
          /\ Refuse(<<"items">>)
       \/ /\ ItemsTaken > 0
          /\ driver' = [driver EXCEPT !.open = TRUE, !.tags = Tags]
          /\ UNCHANGED <<request, row, details, outcome, error>>

RegisterItem ==
    /\ outcome = "registering" /\ driver.open
    /\ Len(driver.items) < ItemsTaken
    /\ driver' = [driver EXCEPT !.items =
                    Append(@, CHOOSE i \in Index : Place(i) = Len(driver.items))]
    /\ UNCHANGED <<request, row, details, outcome, error>>

Exceeds(v, n) == v.num # NaN /\ v.num > n

HasPaymentInfo == details[<<"payment", "electroPaymentInfo">>] # NotFound

(* Variant for the mutation runs: one or the other.                        *)
PaymentsOneOf ==
    IF ~Exceeds(details[<<"payment", "sum">>], 0) THEN {}
    ELSE IF HasPaymentInfo THEN {"info"} ELSE {"sum"}

(* The payment, and the data of an electronic one, when the sum is more    *)
(* than nothing; otherwise the cash register pays the receipt by itself.   *)
Payments ==
    IF Exceeds(details[<<"payment", "sum">>], 0)
    THEN {"sum"} \cup {i \in {"info"} : HasPaymentInfo}
    ELSE {}

PayAndClose ==
    /\ outcome = "registering" /\ driver.open
    /\ Len(driver.items) = ItemsTaken
    /\ driver' = [driver EXCEPT !.payments = Payments]
    /\ outcome' = "done"
    /\ UNCHANGED <<request, row, details, error>>

DetailsNext == TakeKey \/ AllTaken \/ Open \/ RegisterItem \/ PayAndClose

DetailsSpec == DetailsInit /\ [][DetailsNext]_detailsVars

-----------------------------------------------------------------------------
(* The keys of a body that its operation cannot do with, said key by key.  *)

Has(p) == Body[p].type \notin {"missing", "null"}
IsObject(p) == Body[p].type = "object"
Numeral(p) == Has(p) /\ IsText(Body[p]) /\ Body[p].num # NoNumber
Within(p, min, max) == Numeral(p) /\ (Body[p].num = NaN \/ Body[p].num \in min..max)
Titled(p) == Has(p) /\ IsText(Body[p]) /\ Body[p].text \notin {"", "blank", "long"}
Written(p) == Has(p) /\ IsText(Body[p]) /\ Body[p].text \notin {"", "long"}
Noted(p) == ~Has(p) \/ (IsText(Body[p]) /\ Body[p].text # "long")
Flagged(p) ==
    ~Has(p) \/ Body[p].type \in {"boolean", "number"}
            \/ (Body[p].type = "string" /\ Body[p].text \in {"yes", "no"})

OperatorSound ==
    /\ Flagged(<<"electronically">>)
    /\ IsObject(<<"operator">>) /\ Titled(<<"operator", "name">>) /\ Noted(<<"operator", "inn">>)

PartySound(p, keys) ==
    ~Has(<<p>>) \/ (IsObject(<<p>>) /\ \A k \in keys : Noted(<<p, k>>))

TextSound ==
    \/ ~Has(<<"text">>)
    \/ /\ IsObject(<<"text">>)
       /\ ~Has(<<"text", "content">>) \/ Written(<<"text", "content">>)
       /\ \A k \in {"center", "magnified", "separated"} : Flagged(<<"text", k>>)

(* One of the words, or one of the driver's numbers.                       *)
Chosen(p, words, codes) ==
    /\ Has(p) /\ IsText(Body[p])
    /\ Body[p].text \in words \/ (Body[p].text = "numeral" /\ Body[p].num \in codes)

TaxSound(p) == Chosen(p, {"no", "vat10"}, TaxCodes)

ItemSound(i) ==
    LET k(key) == <<"items", i, key>> IN
    /\ IsObject(<<"items", i>>)
    /\ Titled(k("title"))
    /\ Within(k("price"), MinMaxPrice, MaxPrice)
    /\ Within(k("quantity"), MinQuantity, MaxQuantity)
    /\ ~Has(k("unit")) \/ Chosen(k("unit"), {"piece"}, UnitCodes)
    /\ TaxSound(k("tax")) \/ (~Has(k("tax")) /\ TaxSound(<<"tax">>))

ElectroSound ==
    LET e == <<"payment", "electroPaymentInfo">> IN
    \/ ~Has(e)
    \/ /\ IsObject(e)
       /\ Numeral(Append(e, "method")) /\ Body[Append(e, "method")].num # NaN
       /\ ~(Body[Append(e, "method")].type = "string" /\ Body[Append(e, "method")].text = "decimal")
       /\ Written(Append(e, "id")) /\ Noted(Append(e, "addInfo"))

Electronic == Chosen(<<"payment", "type">>, {"electronically"}, {ElectronicCode})

PaymentSound ==
    LET s == <<"payment", "sum">>
        t == <<"payment", "type">> IN
    /\ IsObject(<<"payment">>)
    /\ Has(s) /\ Body[s].type \in {"string", "number"}
    /\ Body[s].num # NoNumber \/ Body[s].text = "auto"
    /\ Chosen(t, {"cash"}, {CashCode}) \/ (Electronic /\ ElectroSound)

BlockSound(i) ==
    LET k(key) == <<"document", i, key>> IN
    /\ Has(<<"document", i>>) /\ IsObject(<<"document", i>>)
    /\ Flagged(k("separator"))
    /\ \/ Has(k("separator")) /\ IsTrue(Body[k("separator")])
       \/ /\ Written(k("content"))
          /\ \A key \in {"center", "magnified", "separated"} : Flagged(k(key))

Sound ==
    CASE request.kind = "cash" ->
           OperatorSound /\ Within(<<"cashSum">>, MinCashInOut, MaxCashInOut)
      [] request.kind = "close" ->
           OperatorSound /\ Flagged(<<"closeShift">>) /\ Flagged(<<"cashOut">>)
      [] request.kind = "print" ->
           /\ \A k \in {"electronically", "cliche", "footer", "margin"} : Flagged(<<k>>)
           /\ Body[<<"document">>].type = "array"
           /\ \A i \in Index : Place(i) < Body[<<"document">>].num => BlockSound(i)
      [] request.kind = "receipt" ->
           /\ OperatorSound
           /\ PartySound("customer", {"contact", "inn"}) /\ PartySound("seller", {"email"})
           /\ TextSound
           /\ ~Has(<<"tax">>) \/ TaxSound(<<"tax">>)
           /\ Body[<<"items">>].type = "array" /\ Body[<<"items">>].num > 0
           /\ \A i \in Index : Place(i) < Body[<<"items">>].num => ItemSound(i)
           /\ PaymentSound

(* A request is carried out exactly when everything in it is sound by the  *)
(* reference definitions above, which know nothing of an order of keys:    *)
(* no combination of faults, containers that are missing or of a wrong     *)
(* type, defaults and conditions lets one through or refuses a good one.   *)
(* And one that is refused for what it says has touched nothing in the     *)
(* cash register: no receipt is opened before all of it has been looked at.*)
AcceptedExactlyWhenSound ==
    /\ outcome = "done" => Sound
    /\ outcome = "refused" => ~Sound /\ driver = Untold

(* What a receipt says gets to the driver: every item once and in order,   *)
(* the customer's data, the sum when it is more than nothing, and with it  *)
(* the data of an electronic payment; without a sum that data is lost.     *)
AcceptedReachesDriver ==
    outcome = "done" /\ request.kind = "receipt" =>
        /\ driver.items = SubSeq(<<"0", "1">>, 1, Body[<<"items">>].num)
        /\ \A k \in {"contact", "inn"} :
              Has(<<"customer">>) /\ Has(<<"customer", k>>)
                 /\ Body[<<"customer", k>>].text # ""
              => (IF k = "inn" THEN "customer inn" ELSE k) \in driver.tags
        /\ Numeral(<<"payment", "sum">>) /\ Exceeds(Body[<<"payment", "sum">>], 0)
              => /\ "sum" \in driver.payments
                 /\ Electronic /\ Has(<<"payment", "electroPaymentInfo">>)
                    => "info" \in driver.payments

(* device.cpp: the information about the seller is registered.             *)
SellerRegistered ==
    outcome = "done" /\ request.kind = "receipt"
        /\ Has(<<"seller">>) /\ Written(<<"seller", "email">>)
    => "seller email" \in driver.tags
=============================================================================
