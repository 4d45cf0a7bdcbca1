-------------------------- MODULE StatusCollection --------------------------
(***************************************************************************)
(* The GET operations of server_kkmop_handler.cpp: collectDataFromMethods  *)
(* runs one method of Device after the other, each a sequence of queries   *)
(* to the driver that ends with the first error, and merges every result   *)
(* into one JSON object, the response (impex.cpp).  A section of the       *)
(* object carries the name of its method; its fields are left out.         *)
(***************************************************************************)
EXTENDS Naturals, SequencesExt

\* How many queries each method issues (Device::get...).
StatusQueries ==
    [status |-> 1, shiftState |-> 3, receiptState |-> 1, cashStat |-> 7]
FnQueries ==
    [ofdExchangeStatus |-> 2, fnInfo |-> 1, registrationInfo |-> 1,
     lastRegistration |-> 1, lastReceipt |-> 1, lastDocument |-> 1, errors |-> 1]
VersionQueries == [ffdVersion |-> 1, fwVersion |-> 5]

Section == DOMAIN StatusQueries \cup DOMAIN FnQueries \cup DOMAIN VersionQueries

Queries(s) ==
    CASE s \in DOMAIN StatusQueries -> StatusQueries[s]
      [] s \in DOMAIN FnQueries -> FnQueries[s]
      [] OTHER -> VersionQueries[s]

\* The methods of baseStatus, cashStat, status and fullStatus.
Operation ==
    [base |-> <<"status">>,
     cash |-> <<"cashStat">>,
     short |-> <<"status", "shiftState", "receiptState", "cashStat",
                 "ofdExchangeStatus", "lastReceipt", "lastDocument", "errors">>,
     full |-> <<"status", "shiftState", "receiptState", "cashStat",
                "ofdExchangeStatus", "fnInfo", "registrationInfo",
                "lastRegistration", "lastReceipt", "lastDocument", "errors",
                "ffdVersion", "fwVersion">>]

VARIABLES
    operation,  \* what the client asked for
    next,       \* index of the method that runs, or one past the last
    query,      \* queries it has had answered
    json,       \* OptionalResult: the keys the object has
    failed      \* history: the methods whose query returned an error

vars == <<operation, next, query, json, failed>>

Methods == Operation[operation]
Current == Methods[next]

\* Result::m_success and m_message; a message stands for the error it tells.
Message == Section \cup {"ok"}
OkResult == [success |-> TRUE, message |-> "ok"]
FailedResult(s) == [success |-> FALSE, message |-> s]

\* An object without keys, as it is before the first result.
NoKeys == [keys |-> FALSE, success |-> FALSE, message |-> "ok", sections |-> {}]

TypeOK ==
    /\ operation \in DOMAIN Operation
    /\ next \in 1..Len(Methods) + 1
    /\ next <= Len(Methods) => query \in 0..Queries(Current) - 1
    /\ json \in [keys : BOOLEAN, success : BOOLEAN, message : Message,
                 sections : SUBSET Section]
    /\ failed \in SUBSET Section

Init ==
    /\ operation \in DOMAIN Operation
    /\ next = 1 /\ query = 0 /\ json = NoKeys /\ failed = {}

-----------------------------------------------------------------------------
(* assign() of impex.cpp *)

\* Variant for the mutation runs: the last result decides.
MergeLast(j, r) ==
    [j EXCEPT !.keys = TRUE, !.success = r.success, !.message = r.message]

\* success goes from true to false only, and takes the message with it; "ok"
\* gives way to any message.
Merge(j, r) ==
    LET override == ~j.keys \/ (j.success /\ ~r.success)
    IN  [j EXCEPT !.keys = TRUE,
                  !.success = IF override THEN r.success ELSE @,
                  !.message = IF override \/ @ = "ok" THEN r.message ELSE @]

\* The data of a method goes in when it has succeeded, and all before it have.
WithSection(j, s, r) ==
    [j EXCEPT !.sections = IF j.success /\ r.success THEN @ \cup {s} ELSE @]

Assign(s, r) == json' = WithSection(Merge(json, r), s, r)

-----------------------------------------------------------------------------
\* The next method of collectDataFromMethods, whatever this one came to.
NextMethod == next' = next + 1 /\ query' = 0 /\ UNCHANGED operation

\* Variant for the mutation runs: a query too many.
AskOnceMore ==
    /\ next <= Len(Methods)
    /\ IF query + 1 <= Queries(Current)
       THEN query' = query + 1 /\ UNCHANGED <<operation, next, json>>
       ELSE Assign(Current, OkResult) /\ NextMethod
    /\ UNCHANGED failed

\* A query is answered; after the last one the result is merged.
QueryAnswered ==
    /\ next <= Len(Methods)
    /\ IF query + 1 < Queries(Current)
       THEN query' = query + 1 /\ UNCHANGED <<operation, next, json>>
       ELSE Assign(Current, OkResult) /\ NextMethod
    /\ UNCHANGED failed

\* A query returns an error: fail(result), and the method returns.
QueryFails ==
    /\ next <= Len(Methods)
    /\ failed' = failed \cup {Current}
    /\ Assign(Current, FailedResult(Current))
    /\ NextMethod

Done == next > Len(Methods)

Next == QueryAnswered \/ QueryFails

Spec == Init /\ [][Next]_vars

-----------------------------------------------------------------------------
\* A response says success when no method has failed, and then has every
\* section the client asked for, so that a client may read them without
\* looking; one that says failure tells the first error, and keeps exactly the
\* sections that came before it: it does not depend on the methods after the
\* error, though they have been run.
ResponseTellsFirstError ==
    Done =>
        /\ json.keys
        /\ json.success <=> failed = {}
        /\ json.success => json.sections = ToSet(Methods)
        /\ ~json.success =>
             \E i \in DOMAIN Methods :
                 /\ json.message = Methods[i]
                 /\ Methods[i] \in failed
                 /\ \A k \in 1..i - 1 : Methods[k] \notin failed
                 /\ json.sections = {Methods[k] : k \in 1..i - 1}
=============================================================================
