----------------------------- MODULE MCService -----------------------------
(* Every pair of values beside what is good and relative, every value       *)
(* beside what is good and absolute, and either with any file missing,      *)
(* where directories can be made and where none can; the commands after a   *)
(* file that says nothing.  Of the pairs of commands the ones that contain  *)
(* the others: a restart is a stop and a start, and each of them alone when *)
(* the service is stopped already; an uninstall is a stop and a deletion.   *)
EXTENDS Program

CONSTANTS c1, c2

Silent == [k \in KeyName |-> "missing"]
MCFollowed == {Silent}

Good(base) ==
    [k \in KeyName |-> IF k = "enable static" THEN "yes"
                       ELSE IF k \in PathKey THEN base ELSE "good"]

Values(k) ==
    CASE k = "enable static" -> {"missing", "yes", "no", "bad"}
      [] k \in PathKey -> {"missing", "relative", "absolute", "empty", "bad"}
      [] OTHER -> {"missing", "good", "bad"}

GoodFiles == [config |-> "good", map |-> "good"]

Pairs == {<<"restart", "restart">>, <<"install", "install">>}
         \cup {<<m, "uninstall">> : m \in Command}

Configured ==
    \E base \in {"relative", "absolute"}, k \in KeyName : \E v \in Values(k) :
        LET g == [Good(base) EXCEPT ![k] = v] IN
        \/ /\ base = "relative"
           /\ \E n \in KeyName : \E w \in Values(n) :
                 Settle([g EXCEPT ![n] = w], GoodFiles, Places, {})
        \/ Settle(g, GoodFiles, Places, {})
        \/ \E p \in Places, b \in {{}, Places} : Settle(g, GoodFiles, Places \ {p}, b)
        \/ \E c \in {"none", "broken", "good"}, m \in {"broken", "good"} :
              Settle(g, [config |-> c, map |-> m], {PlaceOf("conf", i) : i \in KeyName}, {})

MCInit ==
    \/ Configured /\ Quiet
    \/ Settle(Silent, GoodFiles, {}, {}) /\ ControlInit /\ <<ctl[c1].command, ctl[c2].command>> \in Pairs

MCSpec == MCInit /\ [][Next]_vars /\ Fairness
=============================================================================
