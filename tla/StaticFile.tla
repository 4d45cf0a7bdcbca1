----------------------------- MODULE StaticFile -----------------------------
(***************************************************************************)
(* Server::Static::Handler::operator() (server_static_handler.cpp).  It    *)
(* runs on the thread of the loop, so one request is at it at a time, but  *)
(* the files it asks about, time after time, are changed by anybody, and   *)
(* the worker threads call Cache::maintain as well.                        *)
(***************************************************************************)
EXTENDS HttpParser, Cache

CONSTANTS
    File,           \* the paths requests ask for below staticDirectory
    Directory,      \* those of them that are directories
    KnownType,      \* those whose extension is in mime.json
    Version,        \* contents a file has had: every write makes a new one
    Unread,         \* bytes that no file has had: the buffer was not filled
    Size,           \* the size of each version
    AtFirst,        \* the version each file has at first
    FileLimit,      \* c_fileSizeLimit
    FileLife,       \* c_fileCacheLifeTime
    Configs,        \* the configurations there may be
    MaxBackdated    \* bound of the model: files put in place with an older time

Config == [enableStatic : BOOLEAN, enableUnknownType : BOOLEAN,
           loopbackWithoutSecret : BOOLEAN]

ASSUME StaticAssumption ==
    /\ Configs \subseteq Config
    /\ Directory \subseteq File /\ KnownType \subseteq File
    /\ Version \subseteq Nat /\ Unread \notin Version
    /\ Size \in [Version -> Nat]
    /\ AtFirst \in [File \ Directory -> Version]
    /\ FileLimit \in Nat /\ FileLife \in Nat /\ MaxBackdated \in Nat
    /\ CacheKey = File
    /\ Answer = [version : Version \cup {Unread}, size : 0..FileLimit]

VARIABLES
    config,     \* s_enable, s_enableUnknownType, s_loopbackWithoutSecret
    files,      \* the file at each path, or none
    unused,     \* versions no file has had yet
    path,       \* what the handler is at
    size,       \* fileSize
    content,    \* the response's data
    fromCache,  \* the answer was replayed
    measuredAt, \* history: when its size was taken
    readAt,     \* history: when the content that is kept was read
    replayed,   \* history: the file and the entry at the moment of the replay
    late,       \* history: replays of each entry since it expired
    backdated   \* history: files that were put in place with an older time

fileVars == <<files, unused, backdated>>
jobVars == <<path, size, content, fromCache>>
staticHistory == <<measuredAt, readAt, replayed, late>>
staticVars == <<config, fileVars, jobVars, staticHistory, cacheVars>>

NoFile == [there |-> FALSE, version |-> Unread, written |-> 0]
FileState == [there : BOOLEAN, version : Version \cup {Unread}, written : Nat]
NoContent == [version |-> Unread, size |-> 0]
NotReplayed == [version |-> Unread, written |-> 0, cachedAt |-> 0]

StaticTypeOK ==
    /\ CacheTypeOK
    /\ config \in Configs
    /\ files \in [File -> FileState]
    /\ unused \subseteq Version
    /\ size \in 0..FileLimit
    /\ content \in Answer
    /\ fromCache \in BOOLEAN
    /\ measuredAt \in [File -> Nat] /\ readAt \in [File -> Nat]
    /\ replayed \in [version : Version \cup {Unread}, written : Nat, cachedAt : Nat]
    /\ late \in [File -> Nat]
    /\ backdated \subseteq File

(* What no step of the handler changes. *)
Unchanging(v) == UNCHANGED <<v, wire, parserVars, config>>

(* fail() of ProtoHandler, and return. *)
Refuse(s) == status' = s /\ data' = "text" /\ pc' = "respond"

Redirect == status' = "MovedTemporarily" /\ data' = "redirect" /\ pc' = "respond"

-----------------------------------------------------------------------------
(* The method and the path; a path that is a directory, or nothing behind  *)
(* /static, is redirected to its index file.                               *)
Resolve ==
    /\ pc = "static"
    /\ LET f == wire.target.name IN
       \/ /\ method # "get"
          /\ Refuse("MethodNotAllowed")
          /\ UNCHANGED path
       \/ /\ method = "get" /\ f = "bad path"
          /\ Refuse("BadRequest")
          /\ UNCHANGED path
       \/ /\ method = "get" /\ f \in Directory \cup {"nothing"}
          /\ Redirect
          /\ UNCHANGED path
       \/ /\ method = "get" /\ f \in File \ Directory
          /\ IF files[f].there
             THEN path' = f /\ pc' = "examine" /\ UNCHANGED <<status, data>>
             ELSE Refuse("NotFound") /\ UNCHANGED path
    /\ Unchanging(<<size, content, fromCache, fileVars, staticHistory, cacheVars>>)

(* is_directory and is_regular_file throw when the path cannot be examined.*)
ResolveThrows ==
    /\ pc = "static" /\ method = "get" /\ wire.target.name \in File
    /\ Refuse("InternalServerError")
    /\ Unchanging(<<fileVars, jobVars, staticHistory, cacheVars>>)

(* The second look at the file, which may have gone; or an error.          *)
Examine ==
    /\ pc = "examine"
    /\ \/ /\ files[path].there
          /\ pc' = "maintain"
          /\ UNCHANGED <<status, data>>
       \/ Refuse("NotFound")
    /\ Unchanging(<<fileVars, jobVars, staticHistory, cacheVars>>)

(* Cache::maintain, on this thread. *)
MaintainCache == IF CleanUpDue THEN EraseExpired ELSE CountCall

(* Entries that a clean-up has erased are not late any more. *)
ForgetErased == late' = [f \in File |-> IF cache'[f] = NoEntry THEN 0 ELSE late[f]]

Maintain ==
    /\ pc = "maintain"
    /\ MaintainCache
    /\ ForgetErased
    /\ pc' = "lookup"
    /\ Unchanging(<<status, data, fileVars, jobVars, measuredAt, readAt, replayed>>)

(* A worker thread's Cache::maintain. *)
OtherMaintain ==
    /\ MaintainCache
    /\ ForgetErased
    /\ Unchanging(<<pc, status, data, fileVars, jobVars, measuredAt, readAt, replayed>>)

(* "static::::" and the path. *)
KeyOf(f) == f

(* Variant for the mutation runs: as long as the entry lives. *)
NotExpired(f) == cache[KeyOf(f)].expiredAt >= files[f].written

(* The file's last_write_time is not behind the entry's m_cachedAt. *)
Unmodified(f) == cache[KeyOf(f)].cachedAt >= files[f].written

(* The entry, expired or not, is replayed while the file is not newer. *)
LookUp ==
    /\ pc = "lookup"
    /\ \/ /\ Held(KeyOf(path)) /\ files[path].there /\ Unmodified(path)
          /\ content' = cache[KeyOf(path)].answer
          /\ fromCache' = TRUE
          /\ replayed' = [version |-> files[path].version, written |-> files[path].written,
                          cachedAt |-> cache[KeyOf(path)].cachedAt]
          /\ late' = IF cache[KeyOf(path)].expiredAt < now
                     THEN [late EXCEPT ![path] = @ + 1] ELSE late
          /\ data' = "file" /\ pc' = "respond"
          /\ UNCHANGED status
       \/ /\ Held(KeyOf(path))
          /\ Refuse("NotFound")
          /\ UNCHANGED <<content, fromCache, replayed, late>>
       \/ /\ Held(KeyOf(path)) => files[path].there /\ ~Unmodified(path)
          /\ pc' = "measure"
          /\ UNCHANGED <<content, fromCache, replayed, late, status, data>>
    /\ Unchanging(<<path, size, fileVars, measuredAt, readAt, cacheVars>>)

(* The mime map is loaded only when server.enableStatic is set. *)
HasType(f) ==
    config.enableUnknownType \/ (config.enableStatic /\ f \in KnownType)

(* file_size, which may fail, and the type of the content. *)
Measure ==
    /\ pc = "measure"
    /\ \/ Refuse("NotFound") /\ UNCHANGED <<size, content, measuredAt, readAt>>
       \/ /\ files[path].there
          /\ Size[files[path].version] <= FileLimit /\ HasType(path)
          /\ size' = Size[files[path].version]
          /\ content' = [version |-> files[path].version, size |-> size']
          /\ measuredAt' = [measuredAt EXCEPT ![path] = now]
          /\ readAt' = [readAt EXCEPT ![path] = now]
          /\ pc' = "read"
          /\ UNCHANGED <<status, data>>
    /\ Unchanging(<<path, fromCache, fileVars, replayed, late, cacheVars>>)

(* The first size bytes of what the file is now: an empty file is not      *)
(* opened; one that cannot be opened leaves the buffer as it was.          *)
Read ==
    /\ pc = "read"
    /\ \/ /\ size = 0
          /\ UNCHANGED <<content, readAt>>
       \/ /\ size > 0
          /\ \/ content' = [version |-> Unread, size |-> size]
             \/ /\ files[path].there
                /\ content' = [version |-> files[path].version, size |-> size]
          /\ readAt' = [readAt EXCEPT ![path] = now]
    /\ pc' = "keep"
    /\ Unchanging(<<path, size, fromCache, measuredAt, replayed, late, status, data, fileVars,
                    cacheVars>>)

(* Whatever has been read is kept, with the time it is kept at. *)
Keep ==
    /\ pc = "keep"
    /\ Store(KeyOf(path), content, FileLife)
    /\ late' = [late EXCEPT ![path] = 0]
    /\ data' = "file" /\ pc' = "respond"
    /\ Unchanging(<<status, fileVars, jobVars, measuredAt, readAt, replayed>>)

StaticHandler ==
    \/ Resolve \/ ResolveThrows \/ Examine \/ Maintain \/ LookUp \/ Measure
    \/ Read \/ Keep

-----------------------------------------------------------------------------
(* The files, as anybody changes them. *)

PutFile(f, v, t) ==
    /\ files' = [files EXCEPT ![f] = [there |-> TRUE, version |-> v, written |-> t]]
    /\ unused' = unused \ {v}
    /\ Unchanging(<<pc, status, data, jobVars, staticHistory, cacheVars>>)

WriteFile(f) ==
    /\ f \notin Directory
    /\ \E v \in unused : (\A u \in unused : v <= u) /\ PutFile(f, v, now)
    /\ backdated' = backdated \ {f}

(* Copying keeps the time the file was written at, wherever that was. *)
CopyFile(f) ==
    /\ f \notin Directory
    /\ Cardinality(backdated) < MaxBackdated
    /\ \E v \in unused, t \in 0..now :
         (\A u \in unused : v <= u) /\ PutFile(f, v, t)
    /\ backdated' = backdated \cup {f}

RemoveFile(f) ==
    /\ files[f].there
    /\ files' = [files EXCEPT ![f] = NoFile]
    /\ Unchanging(<<pc, status, data, unused, backdated, jobVars, staticHistory, cacheVars>>)

StaticTick ==
    /\ Tick
    /\ Unchanging(<<pc, status, data, fileVars, jobVars, staticHistory>>)

(* Nothing outside the handler looks at the files or the cache: changes    *)
(* made while another step runs are as good as changes before Resolve.     *)
Surroundings ==
    /\ pc \in {"static", "examine", "maintain", "lookup", "measure", "read", "keep"}
    /\ \/ \E f \in File : WriteFile(f) \/ CopyFile(f) \/ RemoveFile(f)
       \/ OtherMaintain
       \/ StaticTick

-----------------------------------------------------------------------------
Replayed == pc = "respond" /\ data = "file" /\ fromCache

(* The file was written after that time and before the clock had left the  *)
(* tick in which the entry was kept: the time of the entry is taken when   *)
(* it is stored, not when the file is read.                                *)
InWindow(t) == t <= replayed.written /\ replayed.written <= replayed.cachedAt

(* A replay shows the file as it is, and the whole of it, unless it was    *)
(* written after its content was read, or after its size was taken, which  *)
(* is done before: then the answer may be another version's, or cut short, *)
(* or longer than what was read, until it is forgotten.  A file put in     *)
(* place with an older time is not noticed at all, and what could not be   *)
(* read is replayed like everything else.                                  *)
StaleOnlyFromWindow ==
    Replayed =>
        \/ content.version = Unread
        \/ path \in backdated
        \/ /\ content.version = replayed.version \/ InWindow(readAt[path])
           /\ content.size = Size[replayed.version] \/ InWindow(measuredAt[path])

(* An entry is replayed after it has expired, but no more often than there *)
(* are calls between clean-ups, each replay making a call of its own; the  *)
(* clock may pass the expiry between that call and the look-up.            *)
LateReplaysBounded == \A f \in File : late[f] <= CleanUpThreshold
=============================================================================
