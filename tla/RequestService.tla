--------------------------- MODULE RequestService ---------------------------
(***************************************************************************)
(* One request after the other, from the first read to the response: the   *)
(* parser, the check of the secret, the choice of a handler (lookupHandler *)
(* of server_core.cpp) and the handlers that run on the loop's thread:     *)
(* ping, config, default, and the static one with its files and its cache. *)
(* ConnectionLoop has the timers and the connections side by side;         *)
(* KkmOpHandler has what happens to the requests of the cash registers.    *)
(***************************************************************************)
EXTENDS StaticFile

CONSTANT Later    \* bound of the model: what clients send after the first request

VARIABLE handled  \* history: the handler that was called

vars == <<httpVars, staticVars, handled>>

Area == {"root", "kkm", "static", "config", "ping", "favicon.ico", "other"}

ASSUME RequestAssumption ==
    /\ Later \subseteq Wires
    /\ Target \subseteq
         [area : Area, name : File \cup {"nothing", "bad path", "general", "else"}]

Location == {"head", "more", "parse", "check", "route", "kkm", "static", "examine",
             "maintain", "lookup", "measure", "read", "keep", "respond", "done", "closed"}

Data == {"none", "text", "pong", "redirect", "icon", "general", "file", "result"}

TypeOK ==
    /\ HttpTypeOK /\ StaticTypeOK
    /\ pc \in Location
    /\ data \in Data
    /\ path \in File \cup {"nothing"}
    /\ handled \in Area \cup {"none"}

Init ==
    /\ HttpInit
    /\ CacheInit
    /\ config \in Configs
    /\ files = [f \in File |-> IF f \in Directory THEN NoFile ELSE
                  [there |-> TRUE, version |-> AtFirst[f], written |-> 0]]
    /\ unused = Version \ {AtFirst[f] : f \in File \ Directory}
    /\ path = "nothing" /\ size = 0 /\ content = NoContent /\ fromCache = FALSE
    /\ measuredAt = [f \in File |-> 0] /\ readAt = [f \in File |-> 0]
    /\ replayed = NotReplayed
    /\ late = [f \in File |-> 0]
    /\ backdated = {}
    /\ handled = "none"

-----------------------------------------------------------------------------
Allowed ==
    \/ config.loopbackWithoutSecret /\ wire.local
    \/ secret = 1

(* accept(): only a request that is still all right needs the secret.      *)
CheckSecret ==
    /\ pc = "check"
    /\ \/ /\ status # "Ok"
          /\ pc' = "respond"
          /\ UNCHANGED <<status, data>>
       \/ /\ status = "Ok" /\ ~Allowed
          /\ Refuse("Forbidden")
       \/ /\ status = "Ok" /\ Allowed
          /\ pc' = "route"
          /\ UNCHANGED <<status, data>>
    /\ UNCHANGED <<wire, parserVars, staticVars, handled>>

Answers(d) == data' = d /\ pc' = "respond" /\ UNCHANGED status

(* lookupHandler, by the first segment of the path.                        *)
To(area) ==
    /\ pc = "route" /\ wire.target.area \in area
    /\ handled' = wire.target.area

RouteKkm ==
    /\ To({"kkm"})
    /\ pc' = "kkm"
    /\ UNCHANGED <<wire, parserVars, staticVars, status, data>>

RouteStatic ==
    /\ To({"static"})
    /\ pc' = "static"
    /\ UNCHANGED <<wire, parserVars, staticVars, status, data>>

Ping ==
    /\ To({"ping"})
    /\ IF method = "get" THEN Answers("pong") ELSE Refuse("MethodNotAllowed")
    /\ UNCHANGED <<wire, parserVars, staticVars>>

(* GET /config/general lists the files of dbDirectory, which may throw.    *)
ConfigHandler ==
    /\ To({"config"})
    /\ IF method = "get" /\ wire.target.name = "general"
       THEN Answers("general") \/ Refuse("InternalServerError")
       ELSE Refuse("MethodNotAllowed")
    /\ UNCHANGED <<wire, parserVars, staticVars>>

(* Everything else: the redirection of / to the static files, and the icon.*)
DefaultHandler ==
    /\ To({"root", "favicon.ico", "other"})
    /\ \/ /\ method = "get" /\ wire.target.area = "root" /\ config.enableStatic
          /\ Redirect
       \/ /\ method = "get" /\ wire.target = [area |-> "favicon.ico", name |-> "nothing"]
          /\ Answers("icon")
       \/ /\ method = "get" => /\ wire.target.area = "root" => ~config.enableStatic
                               /\ wire.target # [area |-> "favicon.ico", name |-> "nothing"]
          /\ Refuse("NotFound")
    /\ UNCHANGED <<wire, parserVars, staticVars>>

(* performAsync: KkmOpHandler has how the response comes about.            *)
KkmAnswers ==
    /\ pc = "kkm"
    /\ \/ status' \in {"Ok", "InternalServerError"} /\ data' = "result"
       \/ status' \in {"BadRequest", "NotFound", "MethodNotAllowed"} /\ data' = "text"
    /\ pc' = "respond"
    /\ UNCHANGED <<wire, parserVars, staticVars, handled>>

Respond ==
    /\ pc = "respond"
    /\ pc' \in {"done", "closed"}
    /\ UNCHANGED <<wire, parserVars, status, data, staticVars, handled>>

NextRequest ==
    /\ pc \in {"done", "closed"}
    /\ \E w \in Later : NewRequest(w)
    /\ path' = "nothing" /\ size' = 0 /\ content' = NoContent /\ fromCache' = FALSE
    /\ replayed' = NotReplayed
    /\ handled' = "none"
    /\ UNCHANGED <<config, fileVars, measuredAt, readAt, late, cacheVars>>

-----------------------------------------------------------------------------
Handlers ==
    \/ RouteKkm \/ RouteStatic \/ Ping \/ ConfigHandler \/ DefaultHandler \/ KkmAnswers

Apart(A) == A /\ UNCHANGED <<staticVars, handled>>
InHandler(A) == A /\ UNCHANGED handled

Next ==
    \/ Apart(ReadHead) \/ Apart(ReadMore) \/ Apart(ReadFails) \/ Apart(Parser)
    \/ CheckSecret \/ Handlers \/ InHandler(StaticHandler) \/ Respond \/ NextRequest
    \/ InHandler(Surroundings)

(* The server's own steps are taken, and what a client has sent arrives.   *)
Fairness ==
    WF_vars(\/ Apart(ReadHead) \/ Apart(ReadMore) \/ Apart(Parser)
            \/ CheckSecret \/ Handlers \/ InHandler(StaticHandler) \/ Respond)

Spec == Init /\ [][Next]_vars /\ Fairness

-----------------------------------------------------------------------------
(* Whatever pieces a request comes in, the parser makes the same of it:    *)
(* the status of the first thing that is wrong, and for a POST the body    *)
(* from its first byte on, with nothing missing, doubled or out of order,  *)
(* and nothing added unless the client sent more than it declared.         *)
PiecesDoNotMatter ==
    pc = "check" =>
        /\ status = StatusOf(wire)
        /\ status = "Ok" =>
             /\ body = [i \in 1..Len(body) |-> BodyStart(wire) + i - 1]
             /\ Len(body) >= Declared(wire)
             /\ BodySent(wire) <= Declared(wire) => Len(body) = Declared(wire)

(* A handler is called for a request only when the parser has accepted it, *)
(* its body has come as long as the last content-length says, and the last *)
(* x-secret is the secret, or a local client needs none.                   *)
HandlerSeesWholeRequest ==
    handled # "none" =>
        /\ StatusOf(wire) = "Ok"
        /\ Len(body) >= Declared(wire)
        /\ \/ LastValue(wire, "x-secret") = 1
           \/ wire.local /\ config.loopbackWithoutSecret

(* A request that has been sent as a whole is never waited for: it is      *)
(* answered, or its connection has failed.                                 *)
WholeRequestAnswered ==
    (pc = "head" /\ Whole(wire)) ~> (pc \in {"done", "closed"})
=============================================================================
