------------------------ MODULE RequestServiceProofs ------------------------
(***************************************************************************)
(* RequestService, for any streams clients send, any limit on the body,    *)
(* any files, versions, lives of entries and clean-up threshold, and with  *)
(* no bound on the files that are put in place with an older time.  First  *)
(* the static files: what a replay shows, and how long an expired entry is *)
(* replayed.  Then the parser: whatever pieces a request comes in, the     *)
(* same is made of it, and a handler is called for whole requests only.    *)
(***************************************************************************)
EXTENDS RequestService, SequenceTheorems, TLAPS

(* Where the handler has a file before it, and where nothing has been      *)
(* replayed yet.                                                           *)
AtFile == {"examine", "maintain", "lookup", "measure", "read", "keep"}
Over == {"respond", "done", "closed"}

(* The steps that have nothing to do with static files.                    *)
Aside ==
    \/ Apart(ReadHead) \/ Apart(ReadMore) \/ Apart(ReadFails) \/ Apart(Parser)
    \/ CheckSecret \/ Handlers \/ Respond

LEMMA AsideMoves ==
  ASSUME Aside
  PROVE  /\ UNCHANGED staticVars
         /\ pc \notin AtFile /\ pc' \notin AtFile
         /\ pc' = "respond" => pc \notin Over
         /\ pc' \notin Over => pc \notin Over
<1> USE DEF AtFile, Over, Apart
<1>1. ASSUME Apart(ReadHead) \/ Apart(ReadMore) \/ Apart(ReadFails)
      PROVE  /\ UNCHANGED staticVars
             /\ pc \in {"head", "more"} /\ pc' \in {"parse", "closed"}
  BY <1>1 DEF ReadHead, ReadMore, ReadFails
<1>2. ASSUME Apart(Parser)
      PROVE  UNCHANGED staticVars /\ pc = "parse" /\ pc' \in {"parse", "more", "check"}
  BY <1>2 DEF Parser, ParseMethod, ParseHeader, ParseBody, DummyReader, Parsed, Parsing
<1>3. ASSUME CheckSecret
      PROVE  UNCHANGED staticVars /\ pc = "check" /\ pc' \in {"respond", "route"}
  BY <1>3 DEF CheckSecret, Refuse
<1>4. ASSUME Handlers
      PROVE  /\ UNCHANGED staticVars
             /\ pc \in {"route", "kkm"} /\ pc' \in {"kkm", "static", "respond"}
  BY <1>4 DEF Handlers, RouteKkm, RouteStatic, Ping, ConfigHandler, DefaultHandler,
     KkmAnswers, To, Answers, Refuse, Redirect
<1>5. ASSUME Respond
      PROVE  UNCHANGED staticVars /\ pc = "respond" /\ pc' \in {"done", "closed"}
  BY <1>5 DEF Respond
<1> QED BY <1>1, <1>2, <1>3, <1>4, <1>5 DEF Aside

-----------------------------------------------------------------------------
(* First layer: types, and times that are not in the future.               *)
Kept ==
    /\ now \in Nat
    /\ counter \in 0..CleanUpThreshold - 1
    /\ cache \in [File -> Entry \cup {NoEntry}]
    /\ files \in [File -> FileState]
    /\ content \in Answer /\ size \in 0..FileLimit
    /\ unused \subseteq Version
    /\ \A f \in File : files[f].there => files[f].version \in Version
    /\ pc \in AtFile => path \in File
    /\ measuredAt \in [File -> Nat] /\ readAt \in [File -> Nat]
    /\ late \in [File -> Nat]
    /\ \A f \in File : measuredAt[f] <= now /\ readAt[f] <= now

(* Second layer: what an entry, or the content on its way into one, shows. *)
Shows(a, f) ==
    \/ a.version = Unread
    \/ f \in backdated
    \/ /\ a.version = files[f].version \/ readAt[f] <= files[f].written
       /\ a.size = Size[files[f].version] \/ measuredAt[f] <= files[f].written

EntriesShow ==
    \A f \in File :
        cache[f] # NoEntry /\ files[f].there /\ ~(pc \in {"read", "keep"} /\ path = f)
        => Shows(cache[f].answer, f)

ContentShows ==
    /\ pc \in {"read", "keep"} /\ files[path].there => Shows(content, path)
    /\ pc = "read" => content.version \in Version /\ content.size = size

NotYetReplayed == pc \notin Over => ~fromCache

Shown == EntriesShow /\ ContentShows /\ NotYetReplayed /\ StaleOnlyFromWindow

(* Third layer: a replay of an expired entry has been counted, or its call *)
(* of maintain() is the last.                                              *)
LateCounted ==
    \A f \in File :
        /\ late[f] > 0 => cache[f] # NoEntry /\ cache[f].expiredAt < now
        /\ late[f] <= counter + 1
        /\ pc = "lookup" => late[f] <= counter

-----------------------------------------------------------------------------
LEMMA KeptInit == Init => Kept
<1> USE CacheAssumption, StaticAssumption
<1>1. ASSUME Init PROVE files \in [File -> FileState]
  BY <1>1 DEF Init, FileState, NoFile
<1>2. ASSUME Init PROVE \A f \in File : files[f].there => files[f].version \in Version
  BY <1>2 DEF Init, NoFile
<1>3. ASSUME Init PROVE content \in Answer
  BY <1>3 DEF Init, NoContent
<1>4. ASSUME Init
      PROVE  /\ now = 0 /\ counter \in 0..CleanUpThreshold - 1
             /\ cache \in [File -> Entry \cup {NoEntry}]
             /\ size \in 0..FileLimit /\ unused \subseteq Version
             /\ pc = "head"
             /\ measuredAt = [f \in File |-> 0] /\ readAt = [f \in File |-> 0] /\ late = [f \in File |-> 0]
  BY <1>4 DEF Init, CacheInit, HttpInit
<1> QED
  BY <1>1, <1>2, <1>3, <1>4 DEF Kept, AtFile

LEMMA ShownInit == Init => Shown /\ LateCounted
  BY CacheAssumption, StaticAssumption
  DEF Init, CacheInit, HttpInit, Shown, EntriesShow, ContentShows, NotYetReplayed,
      StaleOnlyFromWindow, Replayed, LateCounted, Over

(* maintain() forgets entries, and nothing else.                           *)
LEMMA MaintainForgets ==
  ASSUME Kept, MaintainCache, ForgetErased
  PROVE  /\ cache' \in [File -> Entry \cup {NoEntry}]
         /\ counter' \in 0..CleanUpThreshold - 1 /\ now' = now
         /\ late' \in [File -> Nat]
         /\ \A f \in File : cache'[f] # NoEntry => cache'[f] = cache[f]
         /\ LateCounted => \A f \in File :
               /\ late'[f] > 0 => cache'[f] # NoEntry /\ cache'[f].expiredAt < now
               /\ late'[f] <= counter'
<1> USE CacheAssumption, StaticAssumption DEF Kept
<1>1. CASE CleanUpDue
  <2>1. /\ cache' = [f \in File |-> IF f \in ExpiredKeys THEN NoEntry ELSE cache[f]]
        /\ counter' = 0 /\ now' = now
    BY <1>1 DEF MaintainCache, EraseExpired
  <2>2. late' = [f \in File |-> IF cache'[f] = NoEntry THEN 0 ELSE late[f]]
    BY DEF ForgetErased
  <2>3. cache' \in [File -> Entry \cup {NoEntry}] /\ late' \in [File -> Nat]
    BY <2>1, <2>2
  <2>4. ASSUME LateCounted, NEW f \in File PROVE late'[f] = 0
    <3>1. CASE cache[f] # NoEntry /\ cache[f].expiredAt < now
      BY <2>1, <2>2, <3>1 DEF ExpiredKeys, Held
    <3>2. CASE ~(cache[f] # NoEntry /\ cache[f].expiredAt < now)
      BY <2>2, <2>4, <3>2 DEF LateCounted
    <3> QED BY <3>1, <3>2
  <2> QED BY <2>1, <2>3, <2>4
<1>2. CASE ~CleanUpDue
  <2>1. cache' = cache /\ counter' = counter + 1 /\ now' = now
    BY <1>2 DEF MaintainCache, CountCall
  <2>2. late' = [f \in File |-> IF cache'[f] = NoEntry THEN 0 ELSE late[f]]
    BY DEF ForgetErased
  <2> QED BY <1>2, <2>1, <2>2 DEF CleanUpDue, LateCounted
<1> QED BY <1>1, <1>2

-----------------------------------------------------------------------------
LEMMA KeptNext == Kept /\ [Next]_vars => Kept'
<1> SUFFICES ASSUME Kept, [Next]_vars PROVE Kept'
  OBVIOUS
<1> USE CacheAssumption, StaticAssumption
    DEF Kept, AtFile, Unchanging, InHandler, fileVars, jobVars, staticHistory, cacheVars
<1>1. CASE Aside
  BY <1>1, AsideMoves DEF staticVars
<1>2. CASE Resolve
  BY <1>2 DEF Resolve, Refuse, Redirect
<1>3. CASE ResolveThrows
  BY <1>3 DEF ResolveThrows, Refuse
<1>4. CASE Examine
  BY <1>4 DEF Examine, Refuse
<1>5. CASE Maintain
  BY <1>5, MaintainForgets DEF Maintain
<1>6. CASE LookUp
  <2>1. content' \in Answer
    BY <1>6 DEF LookUp, Held, KeyOf, Entry
  <2>2. late' \in [File -> Nat]
    BY <1>6 DEF LookUp
  <2> QED BY <1>6, <2>1, <2>2 DEF LookUp, Refuse
<1>7. CASE Measure
  <2>1. content' \in Answer /\ size' \in 0..FileLimit
    <3>1. CASE UNCHANGED <<size, content>>
      BY <3>1
    <3>2. CASE /\ files[path].there
               /\ Size[files[path].version] <= FileLimit
               /\ size' = Size[files[path].version]
               /\ content' = [version |-> files[path].version, size |-> size']
      <4>1. files[path].version \in Version
        BY <1>7, <3>2 DEF Measure
      <4>2. Size[files[path].version] \in Nat
        BY <4>1
      <4>3. size' \in 0..FileLimit
        BY <3>2, <4>2
      <4> QED BY <3>2, <4>1, <4>3
    <3> QED BY <1>7, <3>1, <3>2 DEF Measure, Refuse
  <2>2. /\ measuredAt' \in [File -> Nat] /\ \A f \in File : measuredAt'[f] <= now
        /\ readAt' \in [File -> Nat] /\ \A f \in File : readAt'[f] <= now
    BY <1>7 DEF Measure, Refuse
  <2> QED BY <1>7, <2>1, <2>2 DEF Measure, Refuse
<1>8. CASE Read
  <2>1. content' \in Answer
    BY <1>8 DEF Read
  <2>2. readAt' \in [File -> Nat] /\ \A f \in File : readAt'[f] <= now
    BY <1>8 DEF Read
  <2> QED BY <1>8, <2>1, <2>2 DEF Read
<1>9. CASE Keep
  <2>1. [answer |-> content, cachedAt |-> now, expiredAt |-> now + FileLife] \in Entry
    BY DEF Entry
  <2>2. cache' \in [File -> Entry \cup {NoEntry}]
    BY <1>9, <2>1 DEF Keep, Store, KeyOf
  <2>3. late' \in [File -> Nat]
    BY <1>9 DEF Keep
  <2> QED BY <1>9, <2>2, <2>3 DEF Keep, Store
<1>10. CASE NextRequest
  <2>1. pc' = "head" /\ content' = NoContent /\ size' = 0
    BY <1>10 DEF NextRequest, NewRequest
  <2> QED BY <1>10, <2>1 DEF NextRequest, NoContent
<1>11. ASSUME NEW f \in File, NEW v \in unused, NEW t \in 0..now, PutFile(f, v, t)
       PROVE  Kept'
  <2>1. files' \in [File -> FileState]
        /\ \A g \in File : files'[g].there => files'[g].version \in Version
    BY <1>11 DEF PutFile, FileState
  <2> QED BY <1>11, <2>1 DEF PutFile
<1>12. ASSUME NEW f \in File, WriteFile(f) \/ CopyFile(f) PROVE Kept'
  BY <1>11, <1>12 DEF WriteFile, CopyFile
<1>13. ASSUME NEW f \in File, RemoveFile(f) PROVE Kept'
  <2>1. files' \in [File -> FileState]
        /\ \A g \in File : files'[g].there => files'[g].version \in Version
    BY <1>13 DEF RemoveFile, FileState, NoFile
  <2> QED BY <1>13, <2>1 DEF RemoveFile
<1>14. CASE OtherMaintain
  BY <1>14, MaintainForgets DEF OtherMaintain
<1>15. CASE StaticTick
  BY <1>15 DEF StaticTick, Tick
<1>16. CASE UNCHANGED vars
  BY <1>16 DEF vars, httpVars, staticVars
<1> QED
  BY <1>1, <1>2, <1>3, <1>4, <1>5, <1>6, <1>7, <1>8, <1>9, <1>10, <1>12, <1>13,
     <1>14, <1>15, <1>16
     DEF Next, Aside, StaticHandler, Surroundings

-----------------------------------------------------------------------------
(* Steps after which entries, files and times are as before, and which     *)
(* neither begin nor end the reading of a file.                            *)
LEMMA ShownAsBefore ==
  ASSUME Shown,
         UNCHANGED <<files, backdated, measuredAt, readAt, path, size, content, fromCache, replayed>>,
         \A f \in File : cache'[f] # NoEntry => cache'[f] = cache[f],
         pc' \in {"read", "keep"} <=> pc \in {"read", "keep"},
         pc' = "read" => pc = "read",
         pc' = "respond" => pc \notin Over,
         pc' \notin Over => pc \notin Over
  PROVE  Shown'
  BY DEF Shown, EntriesShow, ContentShows, NotYetReplayed, Shows, StaleOnlyFromWindow,
         Replayed, Over

LEMMA ShownNext == Kept /\ Shown /\ [Next]_vars => Shown'
<1> SUFFICES ASSUME Kept, Shown, [Next]_vars PROVE Shown'
  OBVIOUS
<1> USE CacheAssumption, StaticAssumption
    DEF AtFile, Over, Unchanging, InHandler, fileVars, jobVars, staticHistory, cacheVars
<1>1. CASE Aside
  BY <1>1, AsideMoves, ShownAsBefore DEF staticVars
<1>2. CASE Resolve
  BY <1>2 DEF Resolve, Refuse, Redirect, Shown, EntriesShow, ContentShows, NotYetReplayed,
     Shows, StaleOnlyFromWindow, Replayed
<1>3. CASE ResolveThrows
  BY <1>3, ShownAsBefore DEF ResolveThrows, Refuse
<1>4. CASE Examine
  BY <1>4, ShownAsBefore DEF Examine, Refuse
<1>5. CASE Maintain
  BY <1>5, MaintainForgets, ShownAsBefore DEF Maintain
<1>6. CASE LookUp
  <2>1. CASE data' = "file" /\ fromCache' = TRUE
    <3>1. /\ pc = "lookup" /\ pc' = "respond" /\ path \in File
          /\ UNCHANGED <<files, backdated, measuredAt, readAt, path, cache>>
          /\ cache[path] # NoEntry /\ files[path].there
          /\ files[path].written <= cache[path].cachedAt
          /\ content' = cache[path].answer
          /\ replayed' = [version |-> files[path].version, written |-> files[path].written,
                          cachedAt |-> cache[path].cachedAt]
      <4>1. fromCache = FALSE
        BY <1>6 DEF LookUp, Shown, NotYetReplayed
      <4>2. Held(path) /\ files[path].there /\ Unmodified(path)
        BY <1>6, <2>1, <4>1 DEF LookUp, Refuse, KeyOf
      <4>3. files[path].written \in Nat /\ cache[path].cachedAt \in Nat
        BY <1>6, <4>2 DEF LookUp, Kept, Held, FileState, Entry
      <4> QED BY <1>6, <2>1, <4>1, <4>2, <4>3 DEF LookUp, Kept, Refuse, Held, KeyOf, Unmodified
    <3>2. Shows(content', path)
      BY <3>1 DEF Shown, EntriesShow
    <3>3. StaleOnlyFromWindow'
      BY <3>1, <3>2 DEF Shows, StaleOnlyFromWindow, InWindow, Replayed
    <3> QED BY <2>1, <3>1, <3>3 DEF Shown, EntriesShow, ContentShows, NotYetReplayed, Shows
  <2>2. CASE UNCHANGED <<content, fromCache, replayed>>
    BY <1>6, <2>2, ShownAsBefore DEF LookUp, Refuse
  <2> QED BY <1>6, <2>1, <2>2 DEF LookUp
<1>7. CASE Measure
  <2>1. CASE Refuse("NotFound") /\ UNCHANGED <<size, content, measuredAt, readAt>>
    BY <1>7, <2>1, ShownAsBefore DEF Measure, Refuse
  <2>2. CASE /\ pc' = "read" /\ size' = Size[files[path].version]
             /\ content' = [version |-> files[path].version, size |-> size']
    BY <1>7, <2>2 DEF Measure, Shown, EntriesShow, ContentShows, NotYetReplayed, Shows,
       StaleOnlyFromWindow, Replayed, Refuse, Kept
  <2> QED BY <1>7, <2>1, <2>2 DEF Measure
<1>8. CASE Read
  BY <1>8 DEF Read, Shown, EntriesShow, ContentShows, NotYetReplayed, Shows,
     StaleOnlyFromWindow, Replayed, Kept
<1>9. CASE Keep
  BY <1>9 DEF Keep, Store, KeyOf, Shown, EntriesShow, ContentShows, NotYetReplayed, Shows,
     StaleOnlyFromWindow, Replayed, Kept
<1>10. CASE NextRequest
  BY <1>10 DEF NextRequest, NewRequest, Shown, EntriesShow, ContentShows, NotYetReplayed,
     Shows, StaleOnlyFromWindow, Replayed
<1>11. ASSUME NEW f \in File, WriteFile(f) \/ CopyFile(f), Surroundings PROVE Shown'
  BY <1>11 DEF WriteFile, CopyFile, PutFile, Surroundings, Shown, EntriesShow, ContentShows,
     NotYetReplayed, Shows, StaleOnlyFromWindow, Replayed, Kept
<1>12. ASSUME NEW f \in File, RemoveFile(f), Surroundings PROVE Shown'
  BY <1>12 DEF RemoveFile, NoFile, Surroundings, Shown, EntriesShow, ContentShows,
     NotYetReplayed, Shows, StaleOnlyFromWindow, Replayed, Kept
<1>13. CASE OtherMaintain /\ Surroundings
  BY <1>13, MaintainForgets, ShownAsBefore DEF OtherMaintain, Surroundings
<1>14. CASE StaticTick /\ Surroundings
  BY <1>14, ShownAsBefore DEF StaticTick, Tick, Surroundings
<1>15. CASE UNCHANGED vars
  BY <1>15 DEF vars, httpVars, staticVars, Shown, EntriesShow, ContentShows,
     NotYetReplayed, Shows, StaleOnlyFromWindow, InWindow, Replayed
<1> QED
  BY <1>1, <1>2, <1>3, <1>4, <1>5, <1>6, <1>7, <1>8, <1>9, <1>10, <1>11, <1>12,
     <1>13, <1>14, <1>15
     DEF Next, Aside, StaticHandler, Surroundings

-----------------------------------------------------------------------------
LEMMA LateNext == Kept /\ LateCounted /\ [Next]_vars => LateCounted'
<1> SUFFICES ASSUME Kept, LateCounted, [Next]_vars PROVE LateCounted'
  OBVIOUS
<1> USE CacheAssumption, StaticAssumption
    DEF AtFile, Unchanging, InHandler, fileVars, jobVars, staticHistory, cacheVars
<1>a. ASSUME UNCHANGED <<cache, counter, now, late>>, pc' # "lookup" \/ pc = "lookup"
      PROVE  LateCounted'
  BY <1>a DEF LateCounted
<1>m. ASSUME MaintainCache, ForgetErased PROVE LateCounted'
  <2>1. \A f \in File : late'[f] \in Nat /\ counter' \in Nat
    BY <1>m, MaintainForgets
  <2> QED BY <1>m, <2>1, MaintainForgets DEF LateCounted
<1>1. CASE Aside
  BY <1>1, <1>a, AsideMoves DEF staticVars
<1>2. CASE Resolve \/ ResolveThrows \/ Examine
  BY <1>2, <1>a DEF Resolve, ResolveThrows, Examine, Refuse, Redirect
<1>3. CASE Maintain
  BY <1>3, <1>m DEF Maintain
<1>4. CASE LookUp
  <2>1. CASE UNCHANGED late
    BY <1>4, <2>1, <1>a DEF LookUp, Refuse
  <2>2. CASE /\ late' = [late EXCEPT ![path] = @ + 1] /\ pc' = "respond"
             /\ Held(path) /\ cache[path].expiredAt < now
    BY <1>4, <2>2 DEF LookUp, LateCounted, Kept, Held
  <2> QED BY <1>4, <2>1, <2>2 DEF LookUp, KeyOf
<1>5. CASE Measure \/ Read
  BY <1>5, <1>a DEF Measure, Read, Refuse
<1>6. CASE Keep
  BY <1>6 DEF Keep, Store, KeyOf, LateCounted, Kept
<1>7. CASE NextRequest
  BY <1>7, <1>a DEF NextRequest, NewRequest
<1>8. ASSUME NEW f \in File, WriteFile(f) \/ CopyFile(f) \/ RemoveFile(f)
      PROVE  LateCounted'
  BY <1>8, <1>a DEF WriteFile, CopyFile, RemoveFile, PutFile
<1>9. CASE OtherMaintain
  BY <1>9, <1>m DEF OtherMaintain
<1>10. CASE StaticTick
  BY <1>10 DEF StaticTick, Tick, LateCounted, Kept, Entry
<1>11. CASE UNCHANGED vars
  BY <1>11, <1>a DEF vars, httpVars, staticVars
<1> QED
  BY <1>1, <1>2, <1>3, <1>4, <1>5, <1>6, <1>7, <1>8, <1>9, <1>10, <1>11
     DEF Next, Aside, StaticHandler, Surroundings

-----------------------------------------------------------------------------
(* A replayed file is the file as it is, but for the window between the    *)
(* reading and the time of the entry, an older time, or what could not be  *)
(* read.                                                                   *)
THEOREM StaleOnlyFromWindowHolds == Spec => []StaleOnlyFromWindow
<1>1. Shown => StaleOnlyFromWindow
  BY DEF Shown
<1> QED BY <1>1, KeptInit, KeptNext, ShownInit, ShownNext, PTL DEF Spec

(* An expired entry is replayed at most c_cacheCleanUpThreshold times.     *)
THEOREM LateReplaysBoundedHolds == Spec => []LateReplaysBounded
<1>1. Kept /\ LateCounted => LateReplaysBounded
  BY CacheAssumption DEF Kept, LateCounted, LateReplaysBounded
<1> QED BY <1>1, KeptInit, KeptNext, ShownInit, LateNext, PTL DEF Spec
-----------------------------------------------------------------------------
(* The parser.  What the lines of a head say, taken one after the other.   *)

LEMMA WireParts ==
  ASSUME NEW w \in Wires
  PROVE  /\ w.head \in Seq(HeaderLine) /\ Len(w.head) \in Nat
         /\ w.sent \in Nat /\ w.method \in {"get", "post", "other", "bad"}
         /\ w.target \in Target
         /\ \A i \in 1..Len(w.head) : /\ w.head[i] \in HeaderLine
                                      /\ w.head[i].field \in Field /\ w.head[i].value \in Int
         /\ HeadLen(w) \in Nat /\ StreamLen(w) \in Nat /\ HeadLen(w) <= StreamLen(w)
<1>1. w \in Wire
  BY HttpAssumption
<1>2. w.head \in Seq(HeaderLine) /\ w.sent \in Nat
  BY <1>1 DEF Wire
<1>3. \A i \in 1..Len(w.head) : w.head[i] \in HeaderLine
  BY <1>2
<1>4. \A l \in HeaderLine : l.field \in Field /\ l.value \in Int
  BY DEF HeaderLine
<1> QED BY <1>1, <1>2, <1>3, <1>4 DEF Wire, HeadLen, StreamLen

(* The line taken last decides about its field, and about no other.        *)
LEMMA LastOfOneMore ==
  ASSUME NEW w, NEW f, NEW n \in Nat \ {0}
  PROVE  LastAmong(w, f, 1..n) =
           IF w.head[n].field = f THEN w.head[n].value ELSE LastAmong(w, f, 1..n - 1)
<1> DEFINE at == {i \in 1..n : w.head[i].field = f}
           before == {i \in 1..n - 1 : w.head[i].field = f}
<1>1. CASE w.head[n].field = f
  <2>1. n \in at /\ \A j \in at : j <= n
    BY <1>1
  <2>2. (CHOOSE i \in at : \A j \in at : j <= i) = n
    <3>1. \A i \in at : (\A j \in at : j <= i) => i = n
      BY <2>1
    <3> HIDE DEF at
    <3> QED BY <2>1, <3>1
  <2>3. LastAmong(w, f, 1..n) = IF at = {} THEN 0
             ELSE w.head[CHOOSE i \in at : \A j \in at : j <= i].value
    BY DEF LastAmong
  <2> HIDE DEF at
  <2> QED BY <1>1, <2>1, <2>2, <2>3
<1>2. CASE w.head[n].field # f
  <2>1. at = before
    BY <1>2
  <2>2. LastAmong(w, f, 1..n) = IF at = {} THEN 0
             ELSE w.head[CHOOSE i \in at : \A j \in at : j <= i].value
    BY DEF LastAmong
  <2>3. LastAmong(w, f, 1..n - 1) = IF before = {} THEN 0
             ELSE w.head[CHOOSE i \in before : \A j \in before : j <= i].value
    BY DEF LastAmong
  <2> HIDE DEF at, before
  <2> QED BY <1>2, <2>1, <2>2, <2>3
<1> QED BY <1>1, <1>2

LEMMA LastOfNone == ASSUME NEW w, NEW f PROVE LastAmong(w, f, 1..0) = 0
<1>1. {i \in 1..0 : w.head[i].field = f} = {}
  OBVIOUS
<1> QED BY <1>1 DEF LastAmong

(* Where the lines end, the head does.                                     *)
LEMMA HeadEnds ==
  ASSUME NEW w \in Wires, NEW e \in 1..Len(w.head) + 1,
         \A i \in 1..e - 1 : w.head[i].field # "blank",
         e <= Len(w.head) => w.head[e].field = "blank"
  PROVE  Lines(w) = 1..e - 1 /\ EndOf(w) = e
<1> USE WireParts
<1>1. DOMAIN w.head = 1..Len(w.head)
  OBVIOUS
<1>2. Lines(w) = 1..e - 1
  <2>1. ASSUME NEW i \in Lines(w) PROVE i \in 1..e - 1
    <3>1. i \in 1..Len(w.head) /\ \A j \in 1..i : w.head[j].field # "blank"
      BY <1>1, <2>1 DEF Lines
    <3> QED BY <3>1
  <2>2. ASSUME NEW i \in 1..e - 1 PROVE i \in Lines(w)
    BY <1>1, <2>2 DEF Lines
  <2> QED BY <2>1, <2>2
<1>3. \A d \in 1..Len(w.head) + 1 : 1..d - 1 = 1..e - 1 => d = e
  <2>1. \A a, b \in 1..Len(w.head) + 1 : a < b => 1..a - 1 # 1..b - 1
    <3> SUFFICES ASSUME NEW a \in 1..Len(w.head) + 1, NEW b \in 1..Len(w.head) + 1, a < b
                 PROVE  1..a - 1 # 1..b - 1
      OBVIOUS
    <3>1. a \in 1..b - 1 /\ a \notin 1..a - 1
      OBVIOUS
    <3> QED BY <3>1
  <2> QED BY <2>1
<1> QED BY <1>2, <1>3 DEF EndOf

(* A length that is no length is found, wherever the head ends.            *)
LEMMA BadLineCounts ==
  ASSUME NEW w \in Wires, NEW n \in 1..Len(w.head), BadLength(w.head[n]),
         \A i \in 1..n - 1 : w.head[i].field # "blank", w.method \in {"get", "post"}
  PROVE  StatusOf(w) = "BadRequest"
<1>1. w.head[n].field # "blank"
  BY DEF BadLength
<1>2. n \in Lines(w)
  BY <1>1, WireParts DEF Lines
<1> QED BY <1>2 DEF StatusOf

-----------------------------------------------------------------------------
(* Fourth layer: how far the parser has come, by the reader it is in, and  *)
(* what it has made of that.                                               *)
InHead == {"head", "parse", "more", "check"}

AtMethod ==
    /\ reader = "parseMethod" /\ pc \in {"head", "parse"}
    /\ taken = 0 /\ step = 0 /\ expected = 0
    /\ method = "none" /\ secret = 0 /\ body = <<>> /\ status = "Ok"

AtHeader ==
    /\ reader = "parseHeader" /\ pc = "parse"
    /\ taken \in 1..Len(wire.head) + 1 /\ step = 1
    /\ method = wire.method /\ method \in {"get", "post"}
    /\ body = <<>> /\ status = "Ok"
    /\ \A i \in 1..taken - 1 : wire.head[i].field # "blank" /\ ~BadLength(wire.head[i])
    /\ secret = LastAmong(wire, "x-secret", 1..taken - 1)
    /\ expected = LastAmong(wire, "content-length", 1..taken - 1)

Accepted ==
    /\ status = "Ok" /\ StatusOf(wire) = "Ok"
    /\ method = wire.method
    /\ secret = LastValue(wire, "x-secret")

Placed(n) == [i \in 1..n |-> BodyStart(wire) + i - 1]

AtBody ==
    /\ reader = "parseBody" /\ pc # "head" /\ Accepted
    /\ step = 2 /\ method = "post"
    /\ EndOf(wire) \in 1..Len(wire.head) + 1
    /\ expected = Declared(wire) /\ expected > 0
    /\ body = Placed(Len(body))
    /\ taken = BodyStart(wire) + Len(body) - 1

AtDummy ==
    /\ reader = "dummyReader" /\ pc \in {"parse", "check"}
    /\ \/ status # "Ok" /\ status = StatusOf(wire)
       \/ Accepted /\ step = 1 /\ Declared(wire) = 0 /\ body = <<>>

ReadSoFar ==
    /\ pc \in InHead => AtMethod \/ AtHeader \/ AtBody \/ AtDummy
    /\ pc = "head" => got = 0 /\ taken = 0
    /\ pc \in {"parse", "more", "check"} => got >= HeadLen(wire)
    /\ pc = "more" => reader = "parseBody"
    /\ pc = "check" => taken = got /\ ~(method = "post" /\ Expecting > 0)

LEMMA ReadSoFarInit == Init => HttpTypeOK /\ ReadSoFar
<1> SUFFICES ASSUME Init PROVE HttpTypeOK /\ ReadSoFar
  OBVIOUS
<1>1. wire \in Wires
  BY DEF Init, HttpInit
<1>2. StreamLen(wire) \in Nat
  BY <1>1, WireParts
<1> QED
  BY <1>1, <1>2, HttpAssumption DEF Init, HttpInit, HttpTypeOK, Readers, Status, ReadSoFar, InHead, AtMethod

LEMMA ParseMethodReads ==
  ASSUME HttpTypeOK, ReadSoFar, ParseMethod PROVE HttpTypeOK' /\ ReadSoFar'
<1> USE WireParts DEF Parsing
<1>1. /\ wire \in Wires /\ wire' = wire /\ got' = got /\ pc = "parse" /\ pc' = pc
      /\ got \in 0..StreamLen(wire) /\ got >= HeadLen(wire) /\ HeadLen(wire) = Len(wire.head) + 2
  BY DEF ParseMethod, HttpTypeOK, ReadSoFar, HeadLen
<1>2. /\ reader = "parseMethod" /\ taken = 0 /\ step = 0 /\ expected = 0 /\ method = "none"
      /\ secret = 0 /\ body = <<>> /\ status = "Ok"
  BY DEF ParseMethod, ReadSoFar, InHead, AtMethod, AtHeader, AtBody, AtDummy
<1>3. taken' = 1 /\ expected' = 0 /\ secret' = 0 /\ body' = <<>>
  BY <1>2 DEF ParseMethod
<1>4. CASE wire.method \in {"bad", "other"}
  <2>1. /\ status' = StatusOf(wire) /\ status' \in {"BadRequest", "NotImplemented"}
        /\ reader' = "dummyReader" /\ method' = "none" /\ step' = 0
    BY <1>2, <1>4 DEF ParseMethod, Reject, StatusOf
  <2> QED
    BY <1>1, <1>3, <2>1, HttpAssumption DEF HttpTypeOK, Readers, Status, ReadSoFar, InHead, AtDummy
<1>5. CASE wire.method \in {"get", "post"}
  <2>1. status' = "Ok" /\ reader' = "parseHeader" /\ method' = wire.method /\ step' = 1
    BY <1>2, <1>5 DEF ParseMethod, Reject
  <2>2. LastAmong(wire, "x-secret", 1..0) = 0 /\ LastAmong(wire, "content-length", 1..0) = 0
    BY LastOfNone
  <2>3. taken' - 1 = 0 /\ taken' \in 1..Len(wire.head) + 1
    BY <1>1, <1>3
  <2>4. AtHeader'
    BY <1>1, <1>3, <1>5, <2>1, <2>2, <2>3 DEF AtHeader
  <2>5. HttpTypeOK'
    BY <1>1, <1>3, <1>5, <2>1, HttpAssumption DEF HttpTypeOK, Readers, Status
  <2> QED BY <1>1, <2>4, <2>5 DEF ReadSoFar, InHead
<1> QED BY <1>1, <1>4, <1>5

LEMMA ParseHeaderReads ==
  ASSUME HttpTypeOK, ReadSoFar, ParseHeader PROVE HttpTypeOK' /\ ReadSoFar'
<1> USE WireParts DEF Parsing
<1> DEFINE l == LineAt(taken + 1)
<1>1. /\ wire \in Wires /\ wire' = wire /\ got' = got /\ pc = "parse" /\ pc' = pc
      /\ got \in 0..StreamLen(wire) /\ got >= HeadLen(wire) /\ HeadLen(wire) = Len(wire.head) + 2
      /\ taken' = taken + 1 /\ method' = method /\ body' = body
  BY DEF ParseHeader, HttpTypeOK, ReadSoFar, HeadLen
<1>2. AtHeader
  BY DEF ParseHeader, ReadSoFar, InHead, AtMethod, AtHeader, AtBody, AtDummy
<1>3. /\ taken \in 1..Len(wire.head) + 1 /\ step = 1 /\ status = "Ok" /\ body = <<>>
      /\ method = wire.method /\ method \in {"get", "post"}
  BY <1>2 DEF AtHeader
<1>4. taken <= Len(wire.head) => l = wire.head[taken]
  BY <1>1, <1>3 DEF LineAt, HeadLen
<1>5. taken = Len(wire.head) + 1 => l.field = "blank"
  BY <1>1, <1>3 DEF LineAt, HeadLen
<1>6. \A i \in 1..taken - 1 : wire.head[i].field # "blank" /\ ~BadLength(wire.head[i])
  BY <1>2 DEF AtHeader
<1>7. taken' <= got /\ taken' \in 0..got /\ expected \in 0..BodyLimit /\ secret \in 0..2
  BY <1>1, <1>3 DEF HttpTypeOK
<1> HIDE DEF l
<1>8. CASE l.field = "blank"
  <2>1. UNCHANGED <<expected, secret, status>> /\ EndOfHeader
    BY <1>8 DEF ParseHeader, l, BadLength
  <2>2. Lines(wire) = 1..taken - 1 /\ EndOf(wire) = taken
    <3>1. taken <= Len(wire.head) => wire.head[taken].field = "blank"
      BY <1>4, <1>8
    <3> QED BY <1>1, <1>3, <1>6, <3>1, HeadEnds
  <2>3. StatusOf(wire) = "Ok"
    BY <1>3, <1>6, <2>2 DEF StatusOf
  <2>4. secret = LastValue(wire, "x-secret") /\ expected = LastValue(wire, "content-length")
    BY <1>2, <2>2 DEF AtHeader, LastValue
  <2>5. Accepted'
    BY <1>1, <1>3, <2>1, <2>3, <2>4 DEF Accepted
  <2>6. CASE method = "post" /\ expected > 0
    <3>1. step' = 2 /\ reader' = "parseBody"
      BY <1>3, <2>1, <2>6 DEF EndOfHeader
    <3>2. body' = Placed(0) /\ Len(body') = 0
      BY <1>1, <1>3 DEF Placed
    <3>3. taken' = BodyStart(wire) + 0 - 1
      BY <1>1, <1>3, <2>2 DEF BodyStart
    <3>4. expected' = Declared(wire)
      BY <1>3, <2>1, <2>4, <2>6 DEF Declared
    <3>5. AtBody'
      BY <1>1, <1>3, <2>1, <2>2, <2>5, <2>6, <3>1, <3>2, <3>3, <3>4 DEF AtBody, Placed, BodyStart
    <3>6. HttpTypeOK'
      BY <1>1, <1>3, <1>7, <2>1, <3>1 DEF HttpTypeOK, Readers, Status
    <3> QED BY <1>1, <3>5, <3>6 DEF ReadSoFar, InHead
  <2>7. CASE ~(method = "post" /\ expected > 0)
    <3>1. step' = 1 /\ reader' = "dummyReader"
      BY <1>3, <2>1, <2>7 DEF EndOfHeader
    <3>2. Declared(wire) = 0
      BY <1>3, <1>7, <2>4, <2>7, HttpAssumption DEF Declared
    <3>3. AtDummy'
      BY <1>1, <1>3, <2>5, <3>1, <3>2 DEF AtDummy
    <3>4. HttpTypeOK'
      BY <1>1, <1>3, <1>7, <2>1, <3>1 DEF HttpTypeOK, Readers, Status
    <3> QED BY <1>1, <3>1, <3>3, <3>4 DEF ReadSoFar, InHead
  <2> QED BY <2>6, <2>7
<1>9. CASE l.field # "blank" /\ ~BadLength(l)
  <2>1. taken \in 1..Len(wire.head) /\ l = wire.head[taken]
    BY <1>1, <1>3, <1>4, <1>5, <1>9
  <2>2. /\ secret' = IF l.field = "x-secret" THEN l.value ELSE secret
        /\ expected' = IF l.field = "content-length" THEN l.value ELSE expected
        /\ UNCHANGED <<reader, step, status>>
    BY <1>9 DEF ParseHeader, l, SecretAfter
  <2>3. secret' = LastAmong(wire, "x-secret", 1..taken)
    BY <1>2, <2>1, <2>2, LastOfOneMore DEF AtHeader
  <2>4. expected' = LastAmong(wire, "content-length", 1..taken)
    BY <1>2, <2>1, <2>2, LastOfOneMore DEF AtHeader
  <2>5. taken' - 1 = taken
    BY <1>1, <1>3
  <2>6. \A i \in 1..taken : wire.head[i].field # "blank" /\ ~BadLength(wire.head[i])
    BY <1>3, <1>6, <1>9, <2>1
  <2>7. AtHeader'
    BY <1>1, <1>2, <1>3, <2>1, <2>2, <2>3, <2>4, <2>5, <2>6 DEF AtHeader, BadLength
  <2>8. expected' \in 0..BodyLimit /\ secret' \in 0..2
    <3>1. l \in HeaderLine
      BY <1>1, <2>1
    <3> QED BY <1>7, <1>9, <2>2, <3>1 DEF BadLength, HeaderLine
  <2>9. HttpTypeOK'
    BY <1>1, <1>3, <1>7, <2>2, <2>8 DEF HttpTypeOK, Readers, Status
  <2> QED BY <1>1, <2>7, <2>9 DEF ReadSoFar, InHead
<1>10. CASE BadLength(l)
  <2>1. taken \in 1..Len(wire.head) /\ l = wire.head[taken]
    BY <1>1, <1>3, <1>4, <1>5, <1>10 DEF BadLength
  <2>2. StatusOf(wire) = "BadRequest"
    BY <1>1, <1>3, <1>6, <1>10, <2>1, BadLineCounts
  <2>3. /\ status' = "BadRequest" /\ reader' = "dummyReader" /\ UNCHANGED <<step, secret>>
        /\ expected' \in {expected, 0}
    BY <1>10 DEF ParseHeader, l, BadLength, Reject
  <2>4. AtDummy'
    BY <1>1, <2>2, <2>3 DEF AtDummy
  <2>5. HttpTypeOK'
    BY <1>1, <1>3, <1>7, <2>3, HttpAssumption DEF HttpTypeOK, Readers, Status
  <2> QED BY <1>1, <2>3, <2>4, <2>5 DEF ReadSoFar, InHead
<1> QED BY <1>8, <1>9, <1>10

(* What follows in the buffer goes behind what the body is already.        *)
LEMMA PiecesMakeRange ==
  ASSUME NEW s \in Seq(Int), NEW t \in Seq(Int), NEW u \in Seq(Int), NEW b \in Int,
         Len(u) = Len(s) + Len(t),
         \A i \in 1..Len(s) : s[i] = b + i,
         \A i \in 1..Len(t) : t[i] = b + Len(s) + i,
         \A i \in 1..Len(u) : u[i] = b + i
  PROVE  s \o t = u
<1>1. Len(s) \in Nat /\ Len(t) \in Nat
  OBVIOUS
<1>2. /\ s \o t \in Seq(Int) /\ Len(s \o t) = Len(s) + Len(t)
      /\ \A i \in 1..Len(s) + Len(t) : (s \o t)[i] = IF i <= Len(s) THEN s[i] ELSE t[i - Len(s)]
  BY ConcatProperties
<1>3. ASSUME NEW i \in 1..Len(s) + Len(t) PROVE (s \o t)[i] = b + i
  <2>1. CASE i <= Len(s)
    <3>1. (s \o t)[i] = s[i] /\ i \in 1..Len(s)
      BY <1>1, <1>2, <2>1
    <3> QED BY <3>1
  <2>2. CASE ~(i <= Len(s))
    <3>1. i - Len(s) \in 1..Len(t)
      BY <1>1, <2>2
    <3>2. t[i - Len(s)] = b + Len(s) + (i - Len(s))
      BY <3>1
    <3>3. b + Len(s) + (i - Len(s)) = b + i
      BY <1>1
    <3>4. (s \o t)[i] = t[i - Len(s)]
      BY <1>2, <2>2
    <3> QED BY <3>2, <3>3, <3>4
  <2> QED BY <2>1, <2>2
<1>4. \A i \in 1..Len(s \o t) : (s \o t)[i] = u[i]
  BY <1>2, <1>3
<1> QED BY <1>2, <1>4, SeqEqual

LEMMA PlacedTogether ==
  ASSUME NEW m \in Nat, NEW n \in Nat, NEW k \in Nat, k = BodyStart(wire) + m - 1,
         BodyStart(wire) \in Nat
  PROVE  Placed(m) \o [i \in 1..n |-> k + i] = Placed(m + n)
<1> DEFINE b == BodyStart(wire) - 1
           front == Placed(m)
           back == [i \in 1..n |-> k + i]
           whole == Placed(m + n)
<1>1. b \in Int /\ k = b + m
  OBVIOUS
<1>2. /\ front \in Seq(Int) /\ Len(front) = m
      /\ \A i \in 1..m : front[i] = b + i
  BY DEF Placed
<1>3. /\ back \in Seq(Int) /\ Len(back) = n
      /\ \A i \in 1..n : back[i] = b + m + i
  OBVIOUS
<1>4. /\ whole \in Seq(Int) /\ Len(whole) = m + n
      /\ \A i \in 1..m + n : whole[i] = b + i
  BY DEF Placed
<1> HIDE DEF b, front, back, whole
<1>5. /\ Len(whole) = Len(front) + Len(back)
      /\ \A i \in 1..Len(front) : front[i] = b + i
      /\ \A i \in 1..Len(back) : back[i] = b + Len(front) + i
      /\ \A i \in 1..Len(whole) : whole[i] = b + i
      /\ front \in Seq(Int) /\ back \in Seq(Int) /\ whole \in Seq(Int) /\ b \in Int
  BY <1>1, <1>2, <1>3, <1>4
<1>6. front \o back = whole
  BY <1>5, PiecesMakeRange
<1> QED BY <1>6 DEF front, back, whole

LEMMA ParseBodyReads ==
  ASSUME HttpTypeOK, ReadSoFar, ParseBody PROVE HttpTypeOK' /\ ReadSoFar'
<1> USE WireParts DEF Parsing
<1>1. /\ wire \in Wires /\ wire' = wire /\ got' = got /\ pc = "parse" /\ pc' = pc
      /\ got \in 0..StreamLen(wire) /\ got >= HeadLen(wire)
      /\ taken \in 0..got /\ taken' = got /\ body' = body \o Available
      /\ UNCHANGED <<reader, step, expected, method, secret, status>>
  BY DEF ParseBody, HttpTypeOK, ReadSoFar
<1>2. AtBody
  BY DEF ParseBody, ReadSoFar, InHead, AtMethod, AtHeader, AtBody, AtDummy
<1>3. BodyStart(wire) \in Nat /\ BodyStart(wire) >= 3
  BY <1>1, <1>2 DEF AtBody, BodyStart
<1>4. body \in Seq(1..StreamLen(wire)) /\ Len(body) \in Nat
  BY DEF HttpTypeOK
<1>5. body = Placed(Len(body)) /\ taken = BodyStart(wire) + Len(body) - 1
  BY <1>2 DEF AtBody
<1>6. body' = Placed(Len(body) + (got - taken))
  <2>1. got - taken \in Nat /\ taken \in Nat
    BY <1>1
  <2>2. Placed(Len(body)) \o Available = Placed(Len(body) + (got - taken))
    BY <1>3, <1>4, <1>5, <2>1, PlacedTogether DEF Available
  <2> QED BY <1>1, <1>5, <2>2
<1>7. Len(body) + (got - taken) \in Nat
  BY <1>1, <1>4
<1>8. Len(body') = Len(body) + (got - taken)
  BY <1>6, <1>7 DEF Placed
<1>9. taken' = BodyStart(wire) + Len(body') - 1
  <2>1. got \in Nat /\ taken \in Nat /\ taken' = got
    BY <1>1
  <2>2. got = taken + (got - taken)
    BY <2>1
  <2> HIDE WireParts
  <2> QED BY <1>3, <1>4, <1>5, <1>8, <2>1, <2>2
<1>10. body' = Placed(Len(body'))
  BY <1>6, <1>8
<1>11. AtBody'
  BY <1>1, <1>2, <1>9, <1>10 DEF AtBody, Accepted, Placed
<1>12. body' \in Seq(1..StreamLen(wire))
  <2>1. Available \in Seq(1..StreamLen(wire))
    BY <1>1 DEF Available
  <2> QED BY <1>1, <1>4, <2>1
<1>13. HttpTypeOK'
  BY <1>1, <1>12 DEF HttpTypeOK
<1> QED BY <1>1, <1>11, <1>13 DEF ReadSoFar, InHead

LEMMA DummyReads ==
  ASSUME HttpTypeOK, ReadSoFar, DummyReader PROVE HttpTypeOK' /\ ReadSoFar'
  BY DEF HttpTypeOK, ReadSoFar, DummyReader, Parsing, InHead, AtMethod, AtHeader, AtBody,
     AtDummy, Accepted

LEMMA ParsedReads ==
  ASSUME HttpTypeOK, ReadSoFar, Parsed PROVE HttpTypeOK' /\ ReadSoFar'
<1> USE WireParts
<1>1. /\ wire \in Wires /\ pc = "parse" /\ taken = got /\ got >= HeadLen(wire)
      /\ got \in Nat
      /\ UNCHANGED <<wire, got, taken, reader, step, expected, method, secret, body, status>>
  BY DEF Parsed, HttpTypeOK, ReadSoFar, parserVars
<1>2. HttpTypeOK'
  BY <1>1 DEF HttpTypeOK
<1>3. AtBody \/ AtDummy
  <2>1. taken > Len(wire.head) + 1
    BY <1>1 DEF HeadLen
  <2>2. ~AtMethod /\ ~AtHeader
    BY <1>1, <2>1 DEF AtMethod, AtHeader
  <2> QED BY <1>1, <2>2 DEF ReadSoFar, InHead
<1>4. CASE method = "post" /\ Expecting > 0
  <2>1. pc' = "more" /\ step >= 2 /\ status = "Ok"
    BY <1>4 DEF Parsed, Expecting
  <2>2. AtBody
    BY <1>3, <2>1 DEF AtDummy
  <2>3. AtBody' /\ reader = "parseBody"
    BY <1>1, <2>1, <2>2 DEF AtBody, Accepted, Placed
  <2> QED BY <1>1, <1>2, <2>1, <2>3 DEF ReadSoFar, InHead
<1>5. CASE ~(method = "post" /\ Expecting > 0)
  <2>1. pc' = "check"
    BY <1>5 DEF Parsed
  <2>2. AtBody' \/ AtDummy'
    BY <1>1, <1>3, <2>1 DEF AtBody, AtDummy, Accepted, Placed
  <2> QED BY <1>1, <1>2, <1>5, <2>1, <2>2 DEF ReadSoFar, InHead, Expecting
<1> QED BY <1>4, <1>5

LEMMA ReadingReads ==
  ASSUME HttpTypeOK, ReadSoFar, ReadHead \/ ReadMore \/ ReadFails
  PROVE  HttpTypeOK' /\ ReadSoFar'
<1> USE WireParts
<1>1. CASE ReadHead
  <2>1. /\ pc = "head" /\ pc' = "parse" /\ wire \in Wires /\ wire' = wire
        /\ got' \in HeadLen(wire)..StreamLen(wire)
        /\ UNCHANGED <<taken, reader, step, expected, method, secret, body, status>>
    BY <1>1 DEF ReadHead, HttpTypeOK
  <2>2. taken = 0 /\ AtMethod
    BY <2>1 DEF ReadSoFar, InHead, AtMethod, AtHeader, AtBody, AtDummy
  <2>3. AtMethod'
    BY <2>1, <2>2 DEF AtMethod
  <2>4. taken' \in 0..got' /\ got' \in 0..StreamLen(wire) /\ got' >= HeadLen(wire)
    BY <2>1, <2>2
  <2>5. HttpTypeOK'
    BY <2>1, <2>4 DEF HttpTypeOK
  <2> QED BY <2>1, <2>3, <2>4, <2>5 DEF ReadSoFar, HeadLen
<1>2. CASE ReadMore
  <2>1. /\ pc = "more" /\ pc' = "parse" /\ wire \in Wires /\ wire' = wire
        /\ got' \in got + Expecting..StreamLen(wire) /\ got \in Nat /\ Expecting \in Nat
        /\ taken \in 0..got /\ got >= HeadLen(wire)
        /\ UNCHANGED <<taken, reader, step, expected, method, secret, body, status>>
    BY <1>2 DEF ReadMore, HttpTypeOK, ReadSoFar, Expecting
  <2>2. AtBody
    BY <2>1 DEF ReadSoFar, InHead, AtMethod, AtHeader, AtBody, AtDummy
  <2>3. AtBody'
    BY <2>1, <2>2 DEF AtBody, Accepted, Placed
  <2>4. taken' \in 0..got' /\ got' \in 0..StreamLen(wire) /\ got' >= HeadLen(wire)
    BY <2>1
  <2>5. HttpTypeOK'
    BY <2>1, <2>4 DEF HttpTypeOK
  <2> QED BY <2>1, <2>3, <2>4, <2>5 DEF ReadSoFar, HeadLen
<1>3. CASE ReadFails
  BY <1>3 DEF ReadFails, parserVars, HttpTypeOK, ReadSoFar, InHead
<1> QED BY <1>1, <1>2, <1>3

(* What comes after the parser leaves what it has made alone.              *)
LEMMA HandlersReadNothing ==
  ASSUME CheckSecret \/ Handlers \/ StaticHandler \/ Respond
  PROVE  /\ UNCHANGED <<wire, parserVars>> /\ pc \notin InHead \ {"check"}
         /\ pc' \notin InHead
         /\ config' = config /\ (pc = "check" => CheckSecret) /\ (pc' = "route" => CheckSecret)
         /\ status' = status \/ status' \in Status
<1> USE DEF InHead, Status
<1>1. CASE CheckSecret
  BY <1>1 DEF CheckSecret, Refuse, staticVars
<1>2. CASE Handlers
  BY <1>2 DEF Handlers, RouteKkm, RouteStatic, Ping, ConfigHandler, DefaultHandler,
     KkmAnswers, To, Answers, Refuse, Redirect, staticVars
<1>3. CASE Respond
  BY <1>3 DEF Respond, staticVars
<1>4. CASE StaticHandler
  BY <1>4 DEF StaticHandler, Resolve, ResolveThrows, Examine, Maintain, LookUp, Measure,
     Read, Keep, Refuse, Redirect, Unchanging, jobVars
<1> QED BY <1>1, <1>2, <1>3, <1>4

LEMMA SurroundingsReadNothing ==
  ASSUME Surroundings
  PROVE  UNCHANGED <<pc, wire, parserVars, status, config>> /\ pc \notin InHead \cup {"route"}
<1>1. pc \notin InHead \cup {"route"}
  BY DEF Surroundings, InHead
<1>2. ASSUME NEW f \in File, WriteFile(f) \/ CopyFile(f) \/ RemoveFile(f)
      PROVE  UNCHANGED <<pc, wire, parserVars, status, config>>
  BY <1>2 DEF WriteFile, CopyFile, RemoveFile, PutFile, Unchanging
<1>3. CASE OtherMaintain \/ StaticTick
  BY <1>1, <1>3 DEF OtherMaintain, StaticTick, Unchanging
<1> QED BY <1>1, <1>2, <1>3 DEF Surroundings

LEMMA ReadSoFarNext == HttpTypeOK /\ ReadSoFar /\ [Next]_vars => HttpTypeOK' /\ ReadSoFar'
<1> SUFFICES ASSUME HttpTypeOK, ReadSoFar, [Next]_vars PROVE HttpTypeOK' /\ ReadSoFar'
  OBVIOUS
<1>1. CASE Apart(ReadHead) \/ Apart(ReadMore) \/ Apart(ReadFails)
  BY <1>1, ReadingReads DEF Apart
<1>2. CASE Apart(Parser)
  BY <1>2, ParseMethodReads, ParseHeaderReads, ParseBodyReads, DummyReads, ParsedReads
     DEF Apart, Parser
<1>3. CASE CheckSecret \/ Handlers \/ InHandler(StaticHandler) \/ Respond
  <2>1. /\ UNCHANGED <<wire, parserVars>> /\ pc' \notin InHead
        /\ status' = status \/ status' \in Status
    BY <1>3, HandlersReadNothing DEF InHandler
  <2> QED BY <2>1 DEF HttpTypeOK, ReadSoFar, InHead, parserVars
<1>4. CASE NextRequest
  <2>1. PICK w \in Later : NewRequest(w)
    BY <1>4 DEF NextRequest
  <2>2. w \in Wires
    BY RequestAssumption
  <2>3. StreamLen(w) \in Nat
    BY <2>2, WireParts
  <2> QED
    BY <2>1, <2>2, <2>3, HttpAssumption DEF NewRequest, HttpTypeOK, Readers, Status, ReadSoFar, InHead, AtMethod
<1>5. CASE InHandler(Surroundings)
  <2>1. UNCHANGED <<pc, wire, parserVars, status>> /\ pc \notin InHead
    BY <1>5, SurroundingsReadNothing DEF InHandler
  <2> QED BY <2>1 DEF HttpTypeOK, ReadSoFar, InHead, parserVars
<1>6. CASE UNCHANGED vars
  BY <1>6 DEF vars, httpVars, parserVars, HttpTypeOK, ReadSoFar, InHead, AtMethod, AtHeader,
     AtBody, AtDummy, Accepted, Placed, Expecting
<1> QED BY <1>1, <1>2, <1>3, <1>4, <1>5, <1>6 DEF Next

(* What is left of the types.                                              *)
RestTyped ==
    /\ now <= MaxTime
    /\ config \in Configs
    /\ fromCache \in BOOLEAN
    /\ replayed \in [version : Version \cup {Unread}, written : Nat, cachedAt : Nat]
    /\ backdated \subseteq File
    /\ pc \in Location
    /\ data \in Data
    /\ path \in File \cup {"nothing"}
    /\ handled \in Area \cup {"none"}

LEMMA RestTypedInit == Init => RestTyped
<1> SUFFICES ASSUME Init PROVE RestTyped
  OBVIOUS
<1>1. now <= MaxTime
  BY CacheAssumption DEF Init, CacheInit
<1>2. replayed \in [version : Version \cup {Unread}, written : Nat, cachedAt : Nat]
  BY DEF Init, NotReplayed
<1>3. /\ pc = "head" /\ data = "none" /\ path = "nothing" /\ handled = "none"
      /\ config \in Configs /\ fromCache = FALSE /\ backdated = {}
  BY DEF Init, HttpInit
<1> QED BY <1>1, <1>2, <1>3 DEF RestTyped, Location, Data

LEMMA RestTypedAside == HttpTypeOK /\ Kept /\ RestTyped /\ Aside => RestTyped'
<1> SUFFICES ASSUME HttpTypeOK, Kept, RestTyped, Aside PROVE RestTyped'
  OBVIOUS
<1>1. wire.target.area \in Area
  <2>1. wire.target \in Target
    BY WireParts DEF HttpTypeOK
  <2> QED BY <2>1, RequestAssumption
<1>2. UNCHANGED staticVars
  BY AsideMoves
<1>3. UNCHANGED <<now, config, fromCache, replayed, backdated, path>>
  BY <1>2 DEF staticVars, fileVars, jobVars, staticHistory, cacheVars
<1>4. pc' \in Location /\ data' \in Data /\ handled' \in Area \cup {"none"}
  <2> USE DEF RestTyped, Location, Data
  <2>1. CASE Apart(ReadHead) \/ Apart(ReadMore) \/ Apart(ReadFails)
    BY <2>1 DEF Apart, ReadHead, ReadMore, ReadFails
  <2>2. CASE Apart(Parser)
    <3> HIDE DEF Location, Data
    <3>1. CASE ParseMethod
      BY <2>2, <3>1 DEF Apart, ParseMethod
    <3>2. CASE ParseHeader
      BY <2>2, <3>2 DEF Apart, ParseHeader, Data
    <3>3. CASE ParseBody \/ DummyReader
      BY <2>2, <3>3 DEF Apart, ParseBody, DummyReader
    <3>4. CASE Parsed
      BY <2>2, <3>4 DEF Apart, Parsed, Location, Data
    <3> QED BY <2>2, <3>1, <3>2, <3>3, <3>4 DEF Apart, Parser
  <2>3. CASE CheckSecret
    BY <2>3 DEF CheckSecret, Refuse
  <2>4. CASE Handlers
    BY <1>1, <2>4 DEF Handlers, RouteKkm, RouteStatic, Ping, ConfigHandler, DefaultHandler,
       KkmAnswers, To, Answers, Refuse, Redirect
  <2>5. CASE Respond
    BY <2>5 DEF Respond
  <2> QED BY <2>1, <2>2, <2>3, <2>4, <2>5 DEF Aside
<1> QED BY <1>3, <1>4 DEF RestTyped

LEMMA RestTypedNext == HttpTypeOK /\ Kept /\ RestTyped /\ [Next]_vars => RestTyped'
<1> SUFFICES ASSUME HttpTypeOK, Kept, RestTyped, [Next]_vars PROVE RestTyped'
  OBVIOUS
<1> USE DEF RestTyped, Location, Data, Unchanging, InHandler, fileVars, jobVars,
            staticHistory, cacheVars
<1>1. CASE Aside
  BY <1>1, RestTypedAside
<1>2. CASE (Resolve \/ ResolveThrows \/ Examine) /\ handled' = handled
  BY <1>2 DEF Resolve, ResolveThrows, Examine, Refuse, Redirect
<1>3. CASE Maintain /\ handled' = handled
  BY <1>3, MaintainForgets DEF Maintain
<1>4. CASE LookUp /\ handled' = handled
  <2>1. replayed' \in [version : Version \cup {Unread}, written : Nat, cachedAt : Nat]
    BY <1>4 DEF LookUp, Held, KeyOf, Kept, FileState, Entry, AtFile
  <2> HIDE DEF Kept
  <2> QED BY <1>4, <2>1 DEF LookUp, Refuse
<1>5. CASE (Measure \/ Read \/ Keep) /\ handled' = handled
  BY <1>5 DEF Measure, Read, Keep, Store, Refuse
<1>6. CASE InHandler(StaticHandler)
  BY <1>2, <1>3, <1>4, <1>5, <1>6 DEF StaticHandler
<1>7. CASE NextRequest
  BY <1>7 DEF NextRequest, NewRequest, NotReplayed
<1>8. CASE InHandler(Surroundings)
  <2>1. UNCHANGED <<pc, data, handled, config, path, fromCache, replayed>>
    BY <1>8 DEF Surroundings, WriteFile, CopyFile, RemoveFile, PutFile, OtherMaintain,
       StaticTick
  <2>2. backdated' \subseteq File
    BY <1>8 DEF Surroundings, WriteFile, CopyFile, RemoveFile, PutFile, OtherMaintain,
       StaticTick
  <2>3. now' <= MaxTime
    <3>1. CASE StaticTick
      BY <3>1, CacheAssumption DEF StaticTick, Tick, Kept
    <3>2. CASE OtherMaintain
      BY <3>2, MaintainForgets DEF OtherMaintain
    <3>3. ASSUME NEW f \in File, WriteFile(f) \/ CopyFile(f) \/ RemoveFile(f) PROVE now' = now
      BY <3>3 DEF WriteFile, CopyFile, RemoveFile, PutFile
    <3> QED BY <1>8, <3>1, <3>2, <3>3 DEF Surroundings
  <2> QED BY <2>1, <2>2, <2>3
<1>9. CASE UNCHANGED vars
  BY <1>9 DEF vars, httpVars, staticVars
<1> QED
  BY <1>1, <1>6, <1>7, <1>8, <1>9 DEF Next, Aside

-----------------------------------------------------------------------------
(* Fifth layer: what is true of a request that is let through to a handler *)
(* stays true of it until the next one comes.                              *)
LetThrough ==
    /\ StatusOf(wire) = "Ok"
    /\ Len(body) >= Declared(wire)
    /\ \/ LastValue(wire, "x-secret") = 1
       \/ wire.local /\ config.loopbackWithoutSecret

Called ==
    /\ pc = "route" \/ handled # "none" => LetThrough
    /\ handled # "none" => pc \notin InHead \cup {"route"}

LEMMA CheckedAsSent == HttpTypeOK /\ ReadSoFar => PiecesDoNotMatter
<1> SUFFICES ASSUME HttpTypeOK, ReadSoFar, pc = "check"
             PROVE  /\ status = StatusOf(wire)
                    /\ status = "Ok" =>
                         /\ body = [i \in 1..Len(body) |-> BodyStart(wire) + i - 1]
                         /\ Len(body) >= Declared(wire)
                         /\ BodySent(wire) <= Declared(wire) => Len(body) = Declared(wire)
  BY DEF PiecesDoNotMatter
<1>1. taken = got /\ ~(method = "post" /\ Expecting > 0)
  BY DEF ReadSoFar
<1>2. /\ wire \in Wires /\ got \in 0..StreamLen(wire) /\ StreamLen(wire) \in Nat
      /\ expected \in Nat /\ Len(body) \in Nat
  BY WireParts, HttpAssumption DEF HttpTypeOK
<1>3. CASE AtBody
  <2>1. /\ status = "Ok" /\ StatusOf(wire) = "Ok" /\ step = 2 /\ method = "post"
        /\ expected = Declared(wire) /\ body = Placed(Len(body))
        /\ taken = BodyStart(wire) + Len(body) - 1
    BY <1>3 DEF AtBody, Accepted
  <2>2. BodyStart(wire) \in Nat
    BY <1>2, <1>3, WireParts DEF AtBody, BodyStart
  <2>3. Len(body) >= Declared(wire)
    BY <1>1, <1>2, <2>1 DEF Expecting
  <2>4. Len(body) <= BodySent(wire)
    <3>1. BodySent(wire) = StreamLen(wire) - BodyStart(wire) + 1
      BY DEF BodySent
    <3>2. Len(body) = got - BodyStart(wire) + 1
      BY <1>1, <1>2, <2>1, <2>2
    <3> QED BY <1>2, <2>2, <3>1, <3>2
  <2>5. BodySent(wire) \in Int
    BY <1>2, <2>2 DEF BodySent
  <2>6. BodySent(wire) <= Declared(wire) => Len(body) = Declared(wire)
    BY <1>2, <2>1, <2>3, <2>4, <2>5
  <2> QED BY <2>1, <2>3, <2>6 DEF Placed
<1>4. CASE AtDummy
  <2>1. CASE status # "Ok"
    BY <1>4, <2>1 DEF AtDummy, Accepted
  <2>2. CASE status = "Ok"
    <3>1. StatusOf(wire) = "Ok" /\ Declared(wire) = 0 /\ body = <<>>
      BY <1>4, <2>2 DEF AtDummy, Accepted
    <3>2. <<>> = [i \in 1..0 |-> BodyStart(wire) + i - 1] /\ Len(<<>>) = 0
      OBVIOUS
    <3> QED BY <2>2, <3>1, <3>2
  <2> QED BY <2>1, <2>2
<1> QED BY <1>3, <1>4 DEF ReadSoFar, InHead, AtMethod, AtHeader

(* At the check of the secret it is the last one of the head that counts.  *)
LEMMA SecretAsSent ==
  HttpTypeOK /\ ReadSoFar /\ pc = "check" /\ status = "Ok" => secret = LastValue(wire, "x-secret")
  BY DEF ReadSoFar, InHead, AtMethod, AtHeader, AtBody, AtDummy, Accepted

LEMMA CalledNext ==
  HttpTypeOK /\ ReadSoFar /\ RestTyped /\ Called /\ [Next]_vars => Called'
<1> SUFFICES ASSUME HttpTypeOK, ReadSoFar, RestTyped, Called, [Next]_vars PROVE Called'
  OBVIOUS
<1>1. CASE Apart(ReadHead) \/ Apart(ReadMore) \/ Apart(ReadFails) \/ Apart(Parser)
  <2>1. pc \in {"head", "more", "parse"} /\ handled' = handled /\ pc' # "route"
    BY <1>1 DEF Apart, ReadHead, ReadMore, ReadFails, Parser, ParseMethod, ParseHeader,
       ParseBody, DummyReader, Parsed, Parsing
  <2> QED BY <2>1 DEF Called, InHead
<1>2. CASE CheckSecret
  <2>1. pc = "check" /\ handled' = handled /\ UNCHANGED <<wire, body, config>>
    BY <1>2 DEF CheckSecret, parserVars, staticVars
  <2>2. handled = "none"
    BY <2>1 DEF Called, InHead
  <2>3. CASE pc' = "route"
    <3>1. status = "Ok" /\ Allowed
      BY <1>2, <2>3 DEF CheckSecret, Refuse
    <3>2. LetThrough
      BY <2>1, <3>1, CheckedAsSent, SecretAsSent DEF PiecesDoNotMatter, LetThrough, Allowed
    <3> QED BY <2>1, <2>2, <3>2 DEF Called, LetThrough
  <2> QED BY <2>1, <2>2, <2>3 DEF Called
<1>3. CASE Handlers \/ InHandler(StaticHandler) \/ Respond
  <2>1. /\ UNCHANGED <<wire, body, config>> /\ pc' \notin InHead \cup {"route"}
    BY <1>3, HandlersReadNothing
       DEF InHandler, parserVars, CheckSecret, Handlers, RouteKkm, RouteStatic, Ping,
           ConfigHandler, DefaultHandler, KkmAnswers, To, StaticHandler, Resolve,
           ResolveThrows, Examine, Maintain, LookUp, Measure, Read, Keep, Respond
  <2>2. pc = "route" \/ handled' = handled
    BY <1>3 DEF InHandler, Handlers, RouteKkm, RouteStatic, Ping, ConfigHandler,
       DefaultHandler, KkmAnswers, To, Respond
  <2> QED BY <2>1, <2>2 DEF Called, LetThrough
<1>4. CASE NextRequest
  BY <1>4 DEF NextRequest, NewRequest, Called
<1>5. CASE InHandler(Surroundings)
  BY <1>5, SurroundingsReadNothing DEF InHandler, Called, LetThrough, parserVars, InHead
<1>6. CASE UNCHANGED vars
  BY <1>6 DEF vars, httpVars, parserVars, staticVars, Called, LetThrough
<1> QED BY <1>1, <1>2, <1>3, <1>4, <1>5, <1>6 DEF Next

-----------------------------------------------------------------------------
(* Types: the parser stays within the stream and the limits it keeps, the  *)
(* cache within its clock.                                                 *)
THEOREM TypesHold == Spec => []TypeOK
<1>1. HttpTypeOK /\ Kept /\ RestTyped => TypeOK
  BY CacheAssumption, StaticAssumption
  DEF Kept, RestTyped, TypeOK, StaticTypeOK, CacheTypeOK
<1> QED
  BY <1>1, KeptInit, KeptNext, ReadSoFarInit, ReadSoFarNext, RestTypedInit, RestTypedNext, PTL
     DEF Spec

(* The parser makes the same of a request in whatever pieces it comes.     *)
THEOREM PiecesDoNotMatterHolds == Spec => []PiecesDoNotMatter
  BY ReadSoFarInit, ReadSoFarNext, CheckedAsSent, PTL DEF Spec

(* A handler is called for whole, accepted and authorised requests only.   *)
THEOREM HandlerSeesWholeRequestHolds == Spec => []HandlerSeesWholeRequest
<1>1. Init => Called
  BY DEF Init, HttpInit, Called
<1>2. Called => HandlerSeesWholeRequest
  BY DEF Called, LetThrough, HandlerSeesWholeRequest
<1> QED
  BY <1>1, <1>2, KeptInit, KeptNext, ReadSoFarInit, ReadSoFarNext, RestTypedInit,
     RestTypedNext, CalledNext, PTL DEF Spec

-----------------------------------------------------------------------------
(* What WholeRequestAnswered rests on besides fairness.                    *)

\* A further read awaits the bytes up to the end of the body that has been
\* declared, and a client that sends a whole request sends them.
AwaitsTheRest ==
    pc = "more" =>
        /\ Expecting > 0
        /\ got + Expecting = BodyStart(wire) + Declared(wire) - 1
        /\ Whole(wire) => got + Expecting <= StreamLen(wire)

\* Nothing is read before the buffer is empty.
ReadsWhenEmpty == pc = "more" => taken = got /\ Expecting > 0

LEMMA ReadsWhenEmptyNext == ReadsWhenEmpty /\ [Next]_vars => ReadsWhenEmpty'
<1> SUFFICES ASSUME ReadsWhenEmpty, [Next]_vars PROVE ReadsWhenEmpty'
  OBVIOUS
<1>1. CASE Apart(ReadHead) \/ Apart(ReadMore) \/ Apart(ReadFails)
  BY <1>1 DEF Apart, ReadHead, ReadMore, ReadFails, ReadsWhenEmpty
<1>2. CASE Apart(Parsed)
  BY <1>2 DEF Apart, Parsed, parserVars, ReadsWhenEmpty, Expecting
<1>3. CASE Apart(Parser) /\ ~Parsed
  BY <1>3 DEF Apart, Parser, ParseMethod, ParseHeader, ParseBody, DummyReader, Parsing,
     ReadsWhenEmpty
<1>4. CASE CheckSecret \/ Handlers \/ InHandler(StaticHandler) \/ Respond
  BY <1>4, HandlersReadNothing DEF InHandler, InHead, ReadsWhenEmpty
<1>5. CASE NextRequest
  BY <1>5 DEF NextRequest, NewRequest, ReadsWhenEmpty
<1>6. CASE InHandler(Surroundings)
  BY <1>6, SurroundingsReadNothing DEF InHandler, InHead, ReadsWhenEmpty
<1>7. CASE UNCHANGED vars
  BY <1>7 DEF vars, httpVars, parserVars, ReadsWhenEmpty, Expecting
<1> QED BY <1>1, <1>2, <1>3, <1>4, <1>5, <1>6, <1>7 DEF Next, Apart

(* accept() never waits for a byte that a client who has sent the whole    *)
(* request need not send: transfer_at_least(expecting()) ends where the    *)
(* body does, whatever came with the head or with the reads before.        *)
THEOREM AwaitsTheRestHolds == Spec => []AwaitsTheRest
<1>1. ASSUME HttpTypeOK, ReadSoFar, ReadsWhenEmpty, pc = "more"
      PROVE  /\ Expecting > 0
             /\ got + Expecting = BodyStart(wire) + Declared(wire) - 1
             /\ Whole(wire) => got + Expecting <= StreamLen(wire)
  <2>1. AtBody
    BY <1>1 DEF ReadSoFar, InHead, AtMethod, AtHeader, AtBody, AtDummy
  <2>2. /\ wire \in Wires /\ got \in 0..StreamLen(wire) /\ StreamLen(wire) \in Nat
        /\ expected \in Nat /\ Len(body) \in Nat
    BY <1>1, WireParts, HttpAssumption DEF HttpTypeOK
  <2>3. BodyStart(wire) \in Nat
    BY <2>1, <2>2, WireParts DEF AtBody, BodyStart
  <2>4. /\ StatusOf(wire) = "Ok" /\ expected = Declared(wire)
        /\ taken = BodyStart(wire) + Len(body) - 1
    BY <2>1 DEF AtBody, Accepted
  <2>5. taken = got /\ Expecting > 0
    BY <1>1 DEF ReadsWhenEmpty
  <2>6. Expecting = expected - Len(body)
    BY <2>5 DEF Expecting
  <2>7. got + Expecting = BodyStart(wire) + Declared(wire) - 1
    BY <2>2, <2>3, <2>4, <2>5, <2>6
  <2>8. ASSUME Whole(wire) PROVE got + Expecting <= StreamLen(wire)
    <3>1. StreamLen(wire) - BodyStart(wire) + 1 >= Declared(wire)
      BY <2>4, <2>8 DEF Whole, BodySent
    <3> QED BY <2>2, <2>3, <2>4, <2>7, <3>1
  <2> QED BY <2>5, <2>7, <2>8
<1>2. HttpTypeOK /\ ReadSoFar /\ ReadsWhenEmpty => AwaitsTheRest
  BY <1>1 DEF AwaitsTheRest
<1>3. Init => ReadsWhenEmpty
  BY DEF Init, HttpInit, ReadsWhenEmpty
<1> QED
  BY <1>2, <1>3, ReadSoFarInit, ReadSoFarNext, ReadsWhenEmptyNext, PTL DEF Spec
=============================================================================
