---------------------------- MODULE ConnRegistry ----------------------------
(***************************************************************************)
(* How the worker threads of server_kkmop_handler.cpp find the cash        *)
(* register a request names.  s_connParamsRegistry keeps the connection    *)
(* parameters of every serial number in use, under s_registryMutex; a      *)
(* serial number it does not hold is read from <serial>.json; learn        *)
(* connects with given parameters, asks the device for its serial number,  *)
(* writes the file outside the mutex and then replaces the entry.          *)
(*                                                                         *)
(* The world is part of the model: cables are moved while no session uses  *)
(* them, so the remembered parameters may lead to another device; the disk *)
(* may be full, a file in use; and the process may die and be started      *)
(* again, with the files as they are.                                      *)
(***************************************************************************)
EXTENDS Naturals

CONSTANTS
    Worker,   \* threads, one request each
    Serial,   \* the cash registers
    Param,    \* connection parameters: a serial port or an address
    Absent,   \* no entry, no file
    Torn,     \* a file between truncation and the end of the write
    Nobody,   \* nothing answers at these parameters; a free lock or device
    MaxMoves  \* bound of the model: how often a cable is moved

ASSUME ConnAssumption ==
    /\ Absent \notin Param /\ Torn \notin Param /\ Absent # Torn
    /\ Nobody \notin Serial /\ Nobody \notin Worker
    /\ MaxMoves \in Nat

VARIABLES
    registry, \* s_connParamsRegistry
    file,     \* what is on the disk
    unsaved,  \* history: the devices whose last save did not reach the disk
    lock,     \* s_registryMutex
    session,  \* who has each device open: the driver admits one session
    plug,     \* which device answers at which parameters
    moves,    \* how often a cable has been moved
    pc,       \* where each worker is
    job,      \* what it was asked: <<"use", serial>>, <<"learn", params>>, <<"reset">>
    params,   \* the parameters it connects with
    dev       \* the device it is connected to

shared == <<registry, file, unsaved, lock, session>>
world == <<plug, moves>>
local == <<pc, job, params, dev>>
vars == <<shared, world, local>>

Job == ({"use"} \X Serial) \cup ({"learn"} \X Param) \cup {<<"reset">>}

Connected == {"session", "truncate", "write", "insert", "hello"}
Locking == {"read", "emplace"}
Final == {"done", "failed"}
Location == {"idle", "resolve", "connect", "dial", "reset"}
            \cup Connected \cup Locking \cup Final

TypeOK ==
    /\ registry \in [Serial -> Param \cup {Absent}]
    /\ file \in [Serial -> Param \cup {Absent, Torn}]
    /\ unsaved \subseteq Serial
    /\ lock \in Worker \cup {Nobody}
    /\ session \in [Serial -> Worker \cup {Nobody}]
    /\ plug \in [Param -> Serial \cup {Nobody}]
    /\ moves \in 0..MaxMoves
    /\ pc \in [Worker -> Location]
    /\ job \in [Worker -> Job]
    /\ params \in [Worker -> Param \cup {Absent}]
    /\ dev \in [Worker -> Serial \cup {Nobody}]
    /\ \A w \in Worker :
         /\ pc[w] \in {"emplace", "connect"} \cup Connected => params[w] \in Param
         /\ pc[w] \in Connected => dev[w] \in Serial

Uses(w, s) == job[w] = <<"use", s>>

(* The process has just started: the registry is empty, files may exist.   *)
Init ==
    /\ registry = [s \in Serial |-> Absent]
    /\ file \in [Serial -> Param \cup {Absent}]
    /\ unsaved = {}
    /\ lock = Nobody
    /\ session = [s \in Serial |-> Nobody]
    /\ plug \in [Param -> Serial \cup {Nobody}]
    /\ moves = 0
    /\ pc = [w \in Worker |-> "idle"]
    /\ job \in [Worker -> Job]
    /\ params = [w \in Worker |-> Absent]
    /\ dev = [w \in Worker |-> Nobody]

Goto(w, l) == pc' = [pc EXCEPT ![w] = l]

Start(w) ==
    /\ pc[w] = "idle"
    /\ Goto(w, CASE job[w][1] = "use" -> "resolve"
                 [] job[w][1] = "learn" -> "dial"
                 [] OTHER -> "reset")
    /\ UNCHANGED <<shared, world, job, params, dev>>

-----------------------------------------------------------------------------
(* resolveConnParams.  A hit is one step under the lock.                   *)
ResolveHit(w) ==
    /\ pc[w] = "resolve"
    /\ lock = Nobody
    /\ \E s \in Serial :
         /\ Uses(w, s)
         /\ registry[s] # Absent
         /\ params' = [params EXCEPT ![w] = registry[s]]
    /\ Goto(w, "connect")
    /\ UNCHANGED <<shared, world, job, dev>>

(* A miss keeps the lock while the constructor of KnownConnParams reads.   *)
ResolveMiss(w) ==
    /\ pc[w] = "resolve"
    /\ lock = Nobody
    /\ \E s \in Serial : Uses(w, s) /\ registry[s] = Absent
    /\ lock' = w
    /\ Goto(w, "read")
    /\ UNCHANGED <<registry, file, unsaved, session, world, job, params, dev>>

(* Variant for the mutation runs: the exception leaves the mutex locked.   *)
ReadKeepingLock(w) ==
    /\ pc[w] = "read"
    /\ \E s \in Serial :
         /\ Uses(w, s)
         /\ \/ /\ file[s] \in Param
               /\ params' = [params EXCEPT ![w] = file[s]]
               /\ Goto(w, "emplace")
            \/ /\ file[s] \notin Param
               /\ Goto(w, "failed")
               /\ UNCHANGED params
    /\ UNCHANGED <<shared, world, job, dev>>

(* Variant for the mutation runs: whatever the file holds is taken.        *)
ReadUnchecked(w) ==
    /\ pc[w] = "read"
    /\ \E s \in Serial :
         /\ Uses(w, s)
         /\ \/ /\ file[s] # Absent
               /\ params' = [params EXCEPT ![w] = file[s]]
               /\ Goto(w, "emplace")
               /\ UNCHANGED lock
            \/ /\ file[s] = Absent
               /\ lock' = Nobody
               /\ Goto(w, "failed")
               /\ UNCHANGED params
    /\ UNCHANGED <<registry, file, unsaved, session, world, job, dev>>

(* KnownConnParams::load: a missing or half-written file throws, which     *)
(* releases the lock and leaves the registry as it was.                    *)
ReadFile(w) ==
    /\ pc[w] = "read"
    /\ \E s \in Serial :
         /\ Uses(w, s)
         /\ \/ /\ file[s] \in Param
               /\ params' = [params EXCEPT ![w] = file[s]]
               /\ Goto(w, "emplace")
               /\ UNCHANGED lock
            \/ /\ file[s] \notin Param
               /\ lock' = Nobody
               /\ Goto(w, "failed")
               /\ UNCHANGED params
    /\ UNCHANGED <<registry, file, unsaved, session, world, job, dev>>

Emplace(w) ==
    /\ pc[w] = "emplace"
    /\ \E s \in Serial :
         /\ Uses(w, s)
         /\ registry' = [registry EXCEPT ![s] = params[w]]
    /\ lock' = Nobody
    /\ Goto(w, "connect")
    /\ UNCHANGED <<file, unsaved, session, world, job, params, dev>>

-----------------------------------------------------------------------------
Reachable(p) == plug[p] # Nobody /\ session[plug[p]] = Nobody

Open(w, p) ==
    /\ Reachable(p)
    /\ session' = [session EXCEPT ![plug[p]] = w]
    /\ dev' = [dev EXCEPT ![w] = plug[p]]

(* Variant for the mutation runs: the serial number is not compared.       *)
ConnectAnyone(w) ==
    /\ pc[w] = "connect"
    /\ Open(w, params[w])
    /\ Goto(w, "session")
    /\ UNCHANGED <<registry, file, unsaved, lock, world, job, params>>

(* Device(KnownConnParams): the device that answers must have the serial   *)
(* number asked for.                                                       *)
Connect(w) ==
    /\ pc[w] = "connect"
    /\ Uses(w, plug[params[w]])
    /\ Open(w, params[w])
    /\ Goto(w, "session")
    /\ UNCHANGED <<registry, file, unsaved, lock, world, job, params>>

(* Nobody answers, somebody else holds the device, or the wrong device     *)
(* answers: an exception, and whatever was opened is closed.               *)
ConnectFails(w) ==
    /\ pc[w] \in {"connect", "dial"}
    /\ Goto(w, "failed")
    /\ UNCHANGED <<shared, world, job, params, dev>>

(* The operation, and ~Device however it ends.                             *)
EndSession(w) ==
    /\ pc[w] \in {"session", "hello"}
    /\ session' = [session EXCEPT ![dev[w]] = Nobody]
    /\ \E end \in Final : Goto(w, end)
    /\ UNCHANGED <<registry, file, unsaved, lock, world, job, params, dev>>

-----------------------------------------------------------------------------
(* learn: Device(NewConnParams) takes whoever answers.                     *)
Dial(w) ==
    /\ pc[w] = "dial"
    /\ \E p \in Param :
         /\ job[w] = <<"learn", p>>
         /\ Open(w, p)
         /\ params' = [params EXCEPT ![w] = p]
    /\ Goto(w, "truncate")
    /\ UNCHANGED <<registry, file, unsaved, lock, world, job>>

(* NewConnParams::save: the stream's constructor empties the file ...      *)
Truncate(w) ==
    /\ pc[w] = "truncate"
    /\ file' = [file EXCEPT ![dev[w]] = Torn]
    /\ Goto(w, "write")
    /\ UNCHANGED <<registry, unsaved, lock, session, world, job, params, dev>>

(* ... and it is whole again when the stream is closed.                    *)
WriteFile(w) ==
    /\ pc[w] = "write"
    /\ file' = [file EXCEPT ![dev[w]] = params[w]]
    /\ unsaved' = unsaved \ {dev[w]}
    /\ Goto(w, "insert")
    /\ UNCHANGED <<registry, lock, session, world, job, params, dev>>

(* A stream that could not be opened, and one that could not be written,   *)
(* go unnoticed: save only looks whether there is a file.                  *)
SaveFails(w) ==
    /\ pc[w] \in {"truncate", "write"} /\ file[dev[w]] # Absent
    /\ unsaved' = unsaved \cup {dev[w]}
    /\ Goto(w, "insert")
    /\ UNCHANGED <<registry, file, lock, session, world, job, params, dev>>

(* There is none, nor can it be made: an exception, and ~Device.           *)
SaveThrows(w) ==
    /\ pc[w] = "truncate" /\ file[dev[w]] = Absent
    /\ session' = [session EXCEPT ![dev[w]] = Nobody]
    /\ Goto(w, "failed")
    /\ UNCHANGED <<registry, file, unsaved, lock, world, job, params, dev>>

(* Variant for the mutation runs: an entry that is there is kept.          *)
InsertIfAbsent(w) ==
    /\ pc[w] = "insert"
    /\ lock = Nobody
    /\ registry' = [registry EXCEPT ![dev[w]] =
                      IF @ = Absent THEN params[w] ELSE @]
    /\ Goto(w, "hello")
    /\ UNCHANGED <<file, unsaved, lock, session, world, job, params, dev>>

InsertOrAssign(w) ==
    /\ pc[w] = "insert"
    /\ lock = Nobody
    /\ registry' = [registry EXCEPT ![dev[w]] = params[w]]
    /\ Goto(w, "hello")
    /\ UNCHANGED <<file, unsaved, lock, session, world, job, params, dev>>

ResetRegistry(w) ==
    /\ pc[w] = "reset"
    /\ lock = Nobody
    /\ registry' = [s \in Serial |-> Absent]
    /\ Goto(w, "done")
    /\ UNCHANGED <<file, unsaved, lock, session, world, job, params, dev>>

-----------------------------------------------------------------------------
InSession(w) == pc[w] \in Connected

(* Somebody moves a cable that no session uses.                            *)
Replug(p) ==
    /\ moves < MaxMoves
    /\ \A w \in Worker : InSession(w) => params[w] # p
    /\ \E s \in Serial \cup {Nobody} : plug' = [plug EXCEPT ![p] = s]
    /\ moves' = moves + 1
    /\ UNCHANGED <<shared, local>>

(* The process dies, and begins anew with what is on the disk.             *)
Crash ==
    /\ registry' = [s \in Serial |-> Absent]
    /\ lock' = Nobody
    /\ session' = [s \in Serial |-> Nobody]
    /\ pc' = [w \in Worker |-> IF pc[w] \in {"idle"} \cup Final THEN pc[w] ELSE "failed"]
    /\ UNCHANGED <<file, unsaved, world, job, params, dev>>

Step(w) ==
    \/ Start(w) \/ ResolveHit(w) \/ ResolveMiss(w) \/ ReadFile(w) \/ Emplace(w)
    \/ Connect(w) \/ ConnectFails(w) \/ EndSession(w) \/ Dial(w) \/ Truncate(w)
    \/ WriteFile(w) \/ SaveFails(w) \/ SaveThrows(w) \/ InsertOrAssign(w) \/ ResetRegistry(w)

Next ==
    \/ \E w \in Worker : Step(w)
    \/ \E p \in Param : Replug(p)
    \/ Crash

(* Threads run until they return: the operating system schedules them, and *)
(* the driver's calls come back (with an error in the worst case).         *)
Spec == Init /\ [][Next]_vars /\ \A w \in Worker : WF_vars(Step(w))

-----------------------------------------------------------------------------
(* Somebody has emptied the file of s and not yet replaced its entry.      *)
Learning(s) == \E w \in Worker : pc[w] \in {"write", "insert"} /\ dev[w] = s

(* The registry is a faithful cache of the files: unless a learn of the    *)
(* serial number is under way, or the last one did not reach the disk, an  *)
(* entry is what a restart, or a reset of the registry, would read from    *)
(* the disk.  Nothing but the exclusive session orders two learns of one   *)
(* device, the file is written outside the registry's mutex, and a process *)
(* that dies leaves it as it is.                                           *)
RegistryMatchesFile ==
    \A s \in Serial :
        registry[s] \in {Absent, file[s]} \/ Learning(s) \/ s \in unsaved

(* An operation for a serial number is carried out by that cash register,  *)
(* however stale the parameters it was found with and whatever has been    *)
(* plugged in elsewhere meanwhile.                                         *)
OnNamedDevice ==
    \A w \in Worker : pc[w] = "session" =>
        /\ Uses(w, dev[w])
        /\ session[dev[w]] = w
        /\ plug[params[w]] = dev[w]

(* Every request ends: no path through resolveConnParams, learn or the     *)
(* exceptions they throw leaves the mutex or the device locked for those   *)
(* who wait for the mutex.                                                 *)
EveryRequestEnds ==
    \A w \in Worker : pc[w] # "idle" ~> pc[w] \in Final
=============================================================================
