------------------------------ MODULE MCRequest ------------------------------
(* Every head of up to two lines, whole or split in any way, with too few,  *)
(* enough or too many bytes behind it, asking for one thing; every thing    *)
(* asked for by one head; and after that requests for two files.            *)
EXTENDS RequestService

MCTarget ==
    {[area |-> a, name |-> "nothing"] : a \in Area \ {"config"}}
    \cup {[area |-> "config", name |-> n] : n \in {"general", "else"}}
    \cup {[area |-> "favicon.ico", name |-> "else"]}
    \cup {[area |-> "static", name |-> n] : n \in File \cup {"bad path"}}

Ping0 == [area |-> "ping", name |-> "nothing"]
Secret == [field |-> "x-secret", value |-> 1]
Length(n) == [field |-> "content-length", value |-> n]

HeadLines ==
    {Secret, [field |-> "x-secret", value |-> 2], [field |-> "blank", value |-> 0]}
    \cup {Length(n) : n \in {-1, 0, 2, BodyLimit + 1}}

Heads == {<<>>} \cup {<<a>> : a \in HeadLines} \cup {<<a, b>> : a, b \in HeadLines}

ParserWires ==
    [method : {"get", "post", "other", "bad"}, target : {Ping0}, head : Heads,
     sent : 0..3, local : {FALSE}]
    \cup [method : {"post"}, target : {Ping0}, head : {<<Length(2), h, Secret>> : h \in HeadLines},
          sent : 0..3, local : {FALSE}]

TargetWires ==
    [method : {"get", "post"}, target : MCTarget, head : {<<>>, <<Secret>>},
     sent : {0}, local : BOOLEAN]

FileWire(f) ==
    [method |-> "get", target |-> [area |-> "static", name |-> f],
     head |-> <<Secret>>, sent |-> 0, local |-> FALSE]

MCLater == {FileWire(f) : f \in {"page", "blob"}}
MCWires == ParserWires \cup TargetWires \cup MCLater

MCFile == {"page", "blob", "pages"}
MCSize == (0 :> 1) @@ (1 :> 0) @@ (2 :> 2)
MCAtFirst == ("page" :> 0) @@ ("blob" :> 1)
MCAnswer == [version : Version \cup {Unread}, size : 0..FileLimit]

MCConfigs ==
    {[enableStatic |-> TRUE, enableUnknownType |-> FALSE, loopbackWithoutSecret |-> TRUE],
     [enableStatic |-> FALSE, enableUnknownType |-> TRUE, loopbackWithoutSecret |-> FALSE]}
=============================================================================
