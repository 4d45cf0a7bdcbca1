# A verification development for kkm_https_adapter

`kkmha` is an HTTPS server (a Windows service or a foreground program) that lets
clients operate ATOL cash registers: `POST /kkm/<serial>/sell`, `GET
/kkm/<serial>/status` and so on. This directory holds TLA+ modules that model its
core, the TLC configurations that check them on small instances, and TLAPS proofs
of the properties that matter most. Paths below are relative to the repository's
`src/` directory; lines are those of the commit the modules were written from.

What can go wrong here costs money: a receipt registered twice, a receipt left open
on a cash register, an operation carried out by another register than the one named,
an answer that says the opposite of what happened, a server that hangs while it is
being stopped and with it a register. The properties are about that.

## 1. Inventory

| Component | Code | State | Operations | Model |
|---|---|---|---|---|
| Operation handler | `kkmha/server_kkmop_handler.cpp` | per worker thread: the request, the payload, the temporary `Device` | `Handler::operator()`, 20 operations in `s_handlers` | `KkmOpHandler`, `Operations` |
| Response cache | `kkmha/server_cache_core.cpp` | `s_cache`, `s_counter`, `s_cacheMutex` | `store`, `load`, `maintain` | `Cache` |
| Connection parameters | `library/kkm/connparams.cpp`, `resolveConnParams`, `learn`, `resetRegistry` | `s_connParamsRegistry`, `s_registryMutex`, `<serial>.json` | resolve, load, learn, save, reset; saves that fail, the death of the process | `ConnRegistry` |
| Device | `library/kkm/device.cpp`, `callhelpers.h` | driver handle, `m_needToCancelReceipt`, the result | every method, `subCheckDocumentClosed`, `~Device` | `DeviceSession` |
| Result export | `library/kkm/impex.cpp` 10-297 | the response's JSON object | `assign(Json, ...Result)`, `collectDataFromMethods` | `StatusCollection` |
| Details import | `library/kkm/impex.cpp` 299-569, `callparams.h`, `lib/json.h`, `lib/numeric.h` | the details taken so far | taking a body key by key with casts, filters, conditions and defaults; handing a receipt to the driver | `RequestDetails` |
| Connection coroutines | `kkmha/server_core.cpp` 79-336, 381-400 | `s_concurrentRequestsCounter`, `s_delayedSocketsCounter`, frames, timers | `listen`'s admission, `accept`, `close`, `performAsync` | `ConnectionLoop` implementing `ServiceContract` |
| Server lifecycle | `kkmha/server_core.cpp` 338-511, `server_hitman.h` | `s_state`, `s_hitman`, `s_shutdownSync`, the `ioContext` | `run`, `listen`, `start`, `stop` | `ServerLifecycle` |
| Service worker | `kkmha/service_core.cpp` 20-110 | `s_status`, `s_checkPoint` | `Worker::start`, `stop`, `setStatus` | `ServerLifecycle` |
| Service control | `kkmha/service_core.cpp` 113-361, `kkmha_main.cpp` | the service manager's view | start, stop, restart, install, uninstall, `waitNewState` | `ServiceControl`, `Program` |
| Routing | `lookupHandler`, the secret's check in `accept`, `server_proto_handler.h` | none | choice of a handler by the path | `RequestService` |
| Static files | `kkmha/server_static_handler.cpp` | entries of the response cache | resolve, replay, measure, read, keep | `StaticFile` |
| HTTP parser | `kkmha/http_parser.cpp`, `http_request.h`, the reads of `accept` | what has been parsed, what is expected | `operator()`, `expecting`, `complete` | `HttpParser` |
| Ping, config, default handlers | `kkmha/server_ping_handler.cpp`, ... | none | answers | `RequestService` |
| Configuration | `library/config`, `*_varop.cpp`, `lib/path.h` | variables set once, before any thread; the current directory | `setBaseVars`, `readJson`, the setters, `setMimeMap` | `Configuration`, `Program` |
| Logging | `library/log` | output | write | not modelled |
| Library | `library/lib` | none | text, JSON, paths, dates, numbers | casts and filters in `RequestDetails`, `HttpParser`, `Configuration`; the rest not modelled |
| Command line tools | `kkmop`, `kkmjl` | none | one `Device` command per process | through `DeviceSession` |
| PHP examples, build files, tests | `examples`, `CMakeLists.txt`, `tests` | | | not part of the program |

How they interact. One thread turns the `ioContext`: `listen()` and one `accept()`
coroutine per connection run in it. A complete request for a cash register is handed
to a detached thread (`performAsync`), which runs the operation handler; the
coroutine waits, and is then gone on with by that thread itself, beside the loop, up to its next
wait (`task.complete()`, line 87, resumes it inline). The worker threads share the response cache, the registry and,
through the driver, the cash registers, each of which admits one session at a time.
`stop()` runs in a third thread and `start()` in a fourth; they meet the loop in the
atomic `s_state`, the hitman (who stops the `ioContext`) and a latch for two.

Hard behaviours, and what has to hold all the same:

* requests of one idempotency key that race, are repeated, or come back after the
  clean-up (one key, one receipt, one answer, and what exactly excuses a second one);
* sessions that end by exceptions, lost answers, or the death of the process (no
  receipt left open, no session left behind, honest results);
* a learn that writes a file while others resolve from it, and cables that are moved
  (the registry agrees with the files, the named register does the work);
* a timer that expires while the operation runs in its thread, or while that thread goes on with
  the coroutine (the worker keeps its request, nothing is begun afterwards but the one answer whose
  thread had tested the flag before, the slot is given back once);
* shutdown racing requests, the listener's death, the unwinding of `run()` and the
  service's start (nobody points at a dead `ioContext`, nobody waits for ever, no
  request is cut off);
* a request that comes in pieces of any size (the pieces do not matter, a handler is
  called for a whole request only);
* static files that are written, copied, removed while they are measured, read and
  cached (what a replay can show that is not so any more);
* details with a fault anywhere, or two (no receipt is opened before all is looked at,
  nothing that was accepted is lost on the way to the driver);
* a working directory that changes while relative paths are taken, and directories that are made
  on the way or cannot be made;
* commands that poll a service which starts, stops, hangs and dies, by a clock that
  begins anew (no wrong report of slowness, no command without an end).

`PROJECT.json` lists the hazards at their lines, with the properties for each; the
ones with no property say why.

## 2. Plan

Order of the modules, most important behaviour first. Done: 1-18.

1. `Cache`, `Operations`, `KkmOpHandler`: idempotency. `KkmOpHandler` extends both.
2. `ConnRegistry`: parameters, files, sessions, failing saves and the death of the process.
3. `ServerLifecycle`: start and stop, with the unwinding of `run()`.
4. `ServiceContract` (abstract) and `ConnectionLoop`, which implements it.
5. `DeviceSession`: scripts of driver calls; justifies `Operations!Ending`, on which
   `KkmOpHandler` relies.
6. `StatusCollection`: merged responses.
7. `KkmOpHandlerProofs`, `ConnRegistryProofs`, `DeviceSessionProofs`.
8. `HttpParser` and `StaticFile` (extending `Cache`), composed in `RequestService` with
   the secret, the routing and the small handlers.
9. `RequestDetails`, composed with `StatusCollection` in `MCImpex`: both directions of
   impex.cpp.
10. `Configuration` and `ServiceControl`, composed in `Program`: what a process does from
    `wmain` on.
11. `ConnectionLoopProofs`: the invariants and the refinement.
12. `ServerLifecycleProofs`.
13. `RequestServiceProofs`.
14. `DeviceSessionProofs` extended: how each method ends, and that a success is real; both
    follow the scripts position by position.
15. The parser in `RequestServiceProofs`: its reference definitions speak of "the last line such
    that" instead of folding over the lines, so that they can be reasoned about.
16. `ProgramProofs`: both halves of `Program`.
17. `ImpexProofs`: both halves of `MCImpex`.
18. What each liveness property rests on besides fairness, as safety theorems in the proof
    modules: measures that fall, nobody waited for in vain, timers that are armed.

Left for later, in this order:

19. Lemmas that say directly what the sequences of keys (`Configuration!Keys`, `RequestDetails!Rows`)
    contain; their proofs now go through the concatenations position by position and are by far
    the longest part of `ProgramProofs` and `ImpexProofs`.
20. The fields the models let one key stand for (`contact`, `text`, three settings per setter),
    should the code treat them differently one day.

## 3. The modules

**Cache.** One step per critical section. `cache[k]` is the entry of a key: the answer
it replays and `expiredAt`. `Held` does not look at the time, as `load` does not
(server_cache_core.cpp:49-56); only `EraseExpired` does. `maintain` is two steps
because its counter is bumped and tested outside the mutex. The counter may start
anywhere below the threshold: other handlers call `maintain`, too.

**Operations.** The twenty operations in the five classes the handler and the cache tell
apart, and `Ending(op)`: how an operation can end (`ok`, `failed`, `threw`) together
with whether the register acted.

**KkmOpHandler.** One worker per request: `Receive` (checks of method, key, content
type), `Maintain`/`CleanUp`, `LoadHit`/`LoadMiss`, `Route` (handler, body, and the
refusals of `Payload::fail`, which are results and are cached), `OpenSession`/`OpenFails`,
`Work`, `CloseSession` (the temporary `Device` dies before the answer is stored; an
exception skips the store), `StoreAnswer`. `effect`, `overlap` and `erased` are history:
who acted, which requests of a key were past `load` together, which keys a clean-up
erased.

**ConnRegistry.** `registry` and `file` map serial numbers to parameters, `lock` is
`s_registryMutex`, `plug` says which register answers at which parameters. A miss keeps
the lock while the file is read (`ResolveMiss`, `ReadFile`, `Emplace`); `learn` connects
to whoever answers (`Dial`), empties and writes the file outside the lock (`Truncate`,
`WriteFile`), then replaces the entry (`InsertOrAssign`). A save may not reach the disk and nobody
notices, since `save` asks only whether the file exists (`SaveFails`), or it may throw
(`SaveThrows`); `unsaved` is history and remembers the first. `Crash` ends the process
between any two steps: the files stay, a half-written one as `Torn`, and the next process
begins with an empty registry. `Replug` moves a cable that no session uses.

**DeviceSession.** A method is a script: a sequence, per subroutine, of the calls it makes
to the driver. Three sets say what an error of a call does: throw, leave the
subroutine, or leave the method. Any call may be refused, or carried out with its
answer lost. `subCheckDocumentClosed` has its own steps with the counter `polls`
(`CheckFails`, `CheckAnswers`, `Abandon`, `ContinuePrint`), because its loops end at
zero in two ways. `Destroy` is `~Device`; `Crash` is the death of the process, after which
no destructor runs. The register itself (`Possible`, `Effect`, `Settle`) is external and
as permissive as its documented rules: a receipt must be open to be closed, a shift to
be closed, and so on. `doubt` is history: an answer was lost, a cancel was refused,
polls ran out, the process died, or the session found a document to finish.

**StatusCollection.** `collectDataFromMethods` and the merge of `assign` (impex.cpp:10-30):
`success` only goes from true to false and takes the message with it; a section goes in
when its method and all before it have succeeded. A section is its method's name.

**ConnectionLoop.** `pc[c]` is the `co_await` a connection is suspended on, `op[c]` how far
that operation is, `timer[c]` its timer, `worker[c]` its thread. On the loop a coroutine runs from
one suspension to the next in one step and only while the loop is free: the synchronous
`stream.shutdown` (line 256) holds the loop (`busy`). A completion and an expired timer
may be queued in either order. The thread of `performAsync` goes on with the coroutine in steps of
its own, whether the loop is free or not: the handler returns (`WorkerEnds`), the flag is tested
(`AfterWork`, line 217), the answer is rendered and begun, or the shutdown (`WriteInThread`), and the
timer's callback (`Timeout`) may run between any two of them. An answer begun after the callback is
`Late`: the signal has been emitted to nothing and the timer is over, so only the peer ends it. A
shutdown on a thread holds nobody up. `Refuse` may kill the listener: `socket.shutdown` (line
392) throws when the peer has gone. `canceled` is a plain `bool` in the code, written on the loop
and read on the thread; the model reads the old value or the new one.

**ServiceContract.** What clients are promised, without sockets, timers and threads: turned
away or served, at most `limit` at once, answered at most once, and gone for good.
`ConnectionLoop!Contract` is its instance under a refinement mapping of `pc` and
`sent` to `fate`. That they do go in the end is not part of it, since a peer can prevent it; under
which premise they do is `EveryoneLeaves`.

**ServerLifecycle.** Four threads of control, each with a `pc`. `gun` and `counter` are the
hitman's fields; `completeOrder` is two steps (`CheckOrder`, `FireGun`) because it looks at the
counter without the mutex. The latch may be arrived at once too often; the counter then is
negative and those who wait stay. Assertions are compiled out, as in the release build.
An exception out of `ioContext.run()` (`SignalThrows`: the handler of a signal finds no
thread for `stop`) destroys the context first (`Unwind`) and takes the order back only in
the catch block (`RunThrows`). `mishap` is history and names the abnormal events that
properties may be excused by.

**HttpParser.** What a client sends is a stream of tokens: request line, lines of the head,
the empty line, bytes. `ReadHead` ends anywhere behind the first empty line, `ReadMore`
brings at least what `Expecting` says. The readers are actions, each guarded by `m_reader`;
`ParseBody` takes what there is, even more than was declared, and a blank line made of
spaces ends the head because the code trims it. Behind the actions the module says what
a stream as a whole means (`StatusOf`, `Declared`, `LastValue`), without a parser: the status is
that of the first line that is wrong, a field's value that of its last line.

**StaticFile.** The handler in its steps between calls of the file system and the cache
(`Resolve`, `Examine`, `Maintain`, `LookUp`, `Measure`, `Read`, `Keep`), and between
any two of them the files may be written, copied with their old time, or removed, other
threads may call `Cache::maintain`, and the clock may tick. It extends `Cache`, whose entries
here are the version that was read and the size that was taken before, which need not be one
version's. `measuredAt`, `readAt`, `replayed`, `late`, `backdated` are history.

**RequestService.** From the first read of a request to its response: `HttpParser`, the
secret, `lookupHandler`, the ping, config and default handlers, and `StaticFile`. The cash
registers' handler answers in one step; `KkmOpHandler` has how. After a response the
next request comes, so that what one request has cached is there for the next.

**RequestDetails.** A body is a function from paths to values. It is nested as a parsed
`nlohmann::json` is (`Request`): a key is there only where its parent is an object or an array long
enough, and an array has all its elements. The cast maps of `strings.h` accept words and the
driver's numbers as `std::to_string` writes them (`IsOneOf`): `UnitCodes`, `TaxCodes`, `CashCode` and
`ElectronicCode` are those numbers, which the driver's header has and the repository has not.
`Rows[k]` lists the keys of a kind of details in the order the code takes them, with cast, filter and
condition. `TakeKey` takes one; the first that is wrong ends the request. `Open`,
`RegisterItem`, `PayAndClose` hand a receipt to the driver. The reference definitions at the
end (`Sound` and its parts) know no order of keys.

**Configuration.** `stage` and `cwd` follow `setBaseVars`, `readJson` (which changes the
current directory), the setters of the log, the registers, the server and the static files
key by key, and `setMimeMap`. A setting is a value, or the place its path leads to. `there` are
the files and directories that exist; `touchDir` adds to them, unless the directory is `barred`:
`create_directories` throws, or leaves something that is no directory.

**ServiceControl.** Processes with a command each (`ctl`), the status the manager tells
(`status`), what the service's process is doing and for how long (`work`), and
`GetTickCount` modulo `Modulus`. `Poll` is one turn of `waitNewState`, with its DWORD
difference, its check point and its patience. The manager is external. `stake` is history: what a
command that gave up was waiting for.

**Program.** `wmain`: the configuration is read, then a command is executed. `Init` allows every
configuration, any files missing, any directories that cannot be made, and any commands; the run checks a choice of them.

**MC modules.** One per composition; they give constants their values and, where the
initial states of the specification are too many (`MCService`, `MCImpex`, `MCConnRegistry`),
choose among them.

## 4. What is checked

| Run | Distinct states | Instance | What it shows |
|---|---|---|---|
| `kkmop` | 4.1 million | 3 requests, 2 keys, 1 register, a life of 0 and of 1 tick, clock to 2, clean-up every 2nd call, 10 messages with every operation and every defect | One key leads to one receipt and one answer *unless* two requests of it were past the look-up together or a clean-up erased the expired answer; no session outlives its operation |
| `kkmop_once` | violation | 2 receipts, one key | The documented unconditional guarantee does not hold: finding 1 |
| `registry` | 511 thousand | 3 workers, 2 registers, 2 places, 1 cable moved, saves that fail, a process that dies | The registry agrees with the files except during a learn or after a save that did not reach the disk; the named register does the work; nothing half-written is taken; every request ends |
| `session` | 4 thousand | 1 register, 11 methods with all details, 2 polls | No receipt stays open, success is real, failure is honest, endings are those `KkmOpHandler` assumes, sessions end |
| `cancel_unconfirmed` | violation | the same | A document confirmed at the last poll is cancelled: finding 2 |
| `loop` | 279 thousand | 3 connections, limits of 1 and of 2, 1 delayed | The coroutines implement the contract, the worker owns its request, the counters are the frames there are, nothing is begun after the timeout but one answer, everyone leaves whom no peer keeps |
| `lifecycle` | 210 thousand | both modes, 3 requests, 2 polls each in `start` and `stop`, 1 in the pause | The gun points at a living `ioContext`, at most one connection is admitted late, no request is cut off without an abnormal event, STOPPED means stopped, start and stop end |
| `stop_from_running` | violation | both modes, 1 request | `stop` is entered in other states than `Running`: finding 3 |
| `request` | 1.3 million | every head of up to 2 lines (3 for a POST with a length and a secret), 0 to 3 bytes behind it, limit 2, every split; every path; 2 files and a directory, 3 versions, clock to 2 | The pieces of a request do not matter; a handler sees whole requests that may be made; a replay is of another version or size only by the window between reading or measuring and keeping; late replays are bounded; a whole request is answered |
| `impex` | 508 thousand | the four status operations with every pattern of errors; every kind of details with one fault (of 26 values) or two (of 6) | A response tells the first error and exactly what came before it; details are accepted exactly when they are sound, nothing is touched before, and what is accepted reaches the driver |
| `seller_lost` | violation | the same | The seller's address does not reach the driver: finding 4 |
| `service` | 314 thousand | every kkmha.json with up to two unusual values, any file missing, where directories can be made and where none can; 7 pairs of commands, time modulo 8 | Settings mean what is written; a report of slowness is about a service that hangs; every command ends |

Every property is broken by at least one mutant of a modelled definition (the operators
commented "Variant for the mutation runs"; the pairs are in `PROJECT.json`).

**Bounds and why they are enough.** *Requests and workers*: the properties relate two
requests; a third one supplies the clean-up between them, reuses their key, or is the
reset between a learn and a use. *Time*: with lives of 0 and 1 and a clock to 2 an
answer can be fresh, expired but held, and erased. The code's 5 seconds and four days differ
only in which requests fall between. *Clean-up threshold*: 2 for 200; with an arbitrary
initial counter any call may be the one that cleans up. *Polls*: 2 where the code has
5 (session, by default) and 150 (start and stop), so that a wait can be ended at its first poll,
at a middle one, at zero, and run out. *Connections*: with a limit of 1 and one delayed place
the third connection is refused, with 2 it is delayed, so each branch of the admission is
taken. *Cable moves*: one move is enough for stale parameters to lead to another register or to
nobody, a second one could only lead back. `registry` takes the workers' jobs in one order
only, the workers being interchangeable.

*Heads*: a rule about header lines relates two of them (the later replaces the earlier, the
first error wins), and a third supplies the body's length. A limit of 2 bytes with 0 to 3 sent and
lengths of -1, 0, 2 and 3 has too few, enough, too many, none, no number, and beyond the limit.
*Files*: three versions, so that one may be written between the reading and the storing
and another afterwards; one of them empty, one that has no known type. One copied file
(`MaxBackdated`) suffices, since a path is stale by itself. *Details*: the filters compare
one value with limits, so the numbers are 0 to one past the highest limit; faults in two
keys are enough for the order of keys, containers and conditions to show; two items and two
documents, the second of which may lack what the first has. The driver's numbers for units, taxes
and payments are two each, with others between and beyond them among the values tried.

*Service*: `WaitHint` 3, `ControlTimeout` 4, `WorkTime` 2, `FirstHint` 1 are in the order the
static assertions of `service_core.cpp` demand (`ControlAssumption`); `Modulus` 8 exceeds the
longest wait, as a DWORD of milliseconds does. A work that takes longer than `WorkTime` counts as
one that hangs; the reading of the status and of the clock in `waitNewState` is one step. `MaxDelay` 2 lets a poll come late by more than
the service has left, `MaxCheckPoint` 1 lets one stop fail and another follow. The pairs of commands
are the ones that contain the others: a restart is a stop and a start, and the second of
two finds the service in any state. Commands are followed after a file that says nothing, because
a process that has failed to read its file has no command. `session` and the GET half of
`impex` need no bound but that on polls.

**Deadlock.** All runs but the two of `DeviceSession` allow the system to stop: all requests
have been served, the commands have ended, or the process has. `session` starts sessions for
ever and is checked for deadlock.

**Fairness.** *ConnRegistry, ServerLifecycle*: weak fairness of each thread: the operating
system schedules it, and sleeps end. In `ServerLifecycle` nothing is assumed of clients, workers,
signals and the service manager, and none of the steps of a client or worker is needed for
`ControlsEnd`: the wait for requests has a limit. *DeviceSession*: a driver call returns, in the
worst case with an error; `Settle` and the success of any call are not assumed. *ConnectionLoop*:
the loop serves its queue, timers expire, an operation's thread returns and runs on. No client is
assumed to send or to receive, and none to answer the shutdown: `EveryoneLeaves` has as its premise
that no peer keeps the server at its mercy for ever, in a shutdown or with a late answer. Weak
fairness of a connection's resumption suffices although others disable it by holding the loop,
because each connection holds the loop once. *RequestService*: the server takes its own steps, and what
a client has sent arrives; that it sends the rest, that files rest, or that time goes on is
not assumed. *Program*: time goes on, the processes run, and the manager answers a call; the
service may hang for ever, and the manager may fail instead of answering.

## 5. What is proved

For every value of the constants: any number of requests, keys, registers, messages,
workers, places, connections and files, any limits and thresholds, any lives of answers, any
number of polls.

`KkmOpHandlerProofs`: `TypeCorrect`, `ReceiptOnceHolds`, `SameAnswerHolds`,
`SessionHeldAtWorkHolds`. `ReceiptOnce` is not inductive: that a register
acted for a request says nothing of what a later request will find. The invariant
(`OnceInv`) ties the history to the cache: a request that has stored its answer finds its
key held, unless a clean-up has erased it; two requests of a key that are in flight
together, or of which one stored its answer while the other was past the look-up, are recorded in
`overlap`; an entry, and an answer, belong to a request of the same key that has stored it; an
effect is of a request past `work`, and of one that threw only if it is no receipt.

`ConnRegistryProofs`: `TypeCorrect`, `RegistryMatchesFileHolds`, `OnNamedDeviceHolds`,
`HeldOnTheWayHolds`, `RequestsAdvanceHolds`. The
invariant (`RegInv`) adds to the two properties that a connected worker holds the
session of its register, that whoever reads holds the lock, that what has been read
and not yet inserted is what the file says unless a learn of the register is under way or
was not saved, and that a learn about to insert has just written what it inserts, or has failed
to. The exclusive session is what orders two learns of one register; without `SessionsMatch`
the induction fails. `HeldOnTheWay` says that the mutex and a register are only held by a worker
at work with them, and that who holds the mutex takes nothing else, so that no two workers wait for
each other; a file that cannot be read or saved, and the death of the process, leave neither
behind. `RequestsAdvance` gives each place of a request the steps it has left, seven at most, and
shows that no step of anybody adds to them.

`DeviceSessionProofs`: `TypeCorrect`, `NoReceiptLeftOpenHolds`, `HonestFailureHolds`,
`EndingAsAssumedHolds`, `SuccessIsRealHolds`, `SessionShrinksHolds`, for any number of polls.
`Checked` is what all scripts have in common: a call that leaves a document for the register to
finish is followed by `check`. It is part of the type invariant (`TypeInv`). `Covered` says who
looks after what is open: an open receipt has `m_needToCancelReceipt` set and a destructor still
to come, an unfinished document is being checked or abandoned, or the session is in doubt.
`Honest` adds, for `sell` and the cash operations, that they are one subroutine whose last call
acts or is the check (so that every failure ends it), and that nothing is registered without
doubt before that last call. The case that needs the most is `Abandon`: the register may finish
the document between the last poll and the cancel, and it is `Covered` that shows the cancel
refused then. `EndingAsAssumed` rests on `Placed` (a check is the next call exactly while one is
under way) and on `Endings`, which says for a status, a learn and a receipt what their history
may be at each point. It is what `KkmOpHandler` assumes of an operation, so the two models meet
in a theorem. `SuccessIsReal` needs to know how much of a script is left: `Position` lists the
rests that occur (at the receipt, the drawer, the shift, the end), each with what the calls
before it have shown of the register, and `Keeps` says what a change of the register never
brings back, so that a drawer once empty is still empty at the end. `SessionShrinks` orders the
steps of a session lexicographically: by the subroutines left, the calls of the one under way,
the stages of `check`, its polls, the documents the register may still finish. `Measured` says
that these are natural numbers, so a session has finitely many steps whatever the register does.

`ConnectionLoopProofs`: `TypeCorrect`, `WorkerOwnsRequestHolds`, `SlotsAccountedHolds`,
`NothingAfterTimeoutHolds`, `KeepsContractHolds`, `WaitsEndHolds`, `TimeoutEndsHolds`. `Flow`
says what a coroutine's place implies: a thread is at its coroutine exactly while that waits for it
or is in a shutdown of the thread's, one coroutine at most holds the loop, who is cancelled waits for
nothing but its worker or a late answer, an
answer is the last thing sent. On it rests the counting: the two counters are the cardinalities
of two sets of frames, and each way out of `accept` and `close` takes one frame away and one off
the counter; that also gives the counters' types. `KeepsContractHolds` is the
refinement: initial states map to initial states, and each step, of the loop or of a thread, to a
step of `ServiceContract` or a stutter; that the contract's limit is kept is
`SlotsAccounted` at the admission. `WaitsEnd` says of everything that is pending that a worker
runs for it, that the timer is still to interrupt it, or that it is a late answer, which nothing of
the server's will end; it needs that a suspended coroutine has
its deadline ahead, or has been cancelled (`Timed`). `TimeoutEnds` is an action property: from
the callback on a connection only goes to the shutdown and then to its close, or by way of the one
answer whose thread is past the test.

`ServerLifecycleProofs`: `TypeCorrect`, `GunSafeHolds`, `StoppedMeansStoppedHolds`,
`OneLateHolds`, `NoRequestCutOffHolds`, `StopTakesEffectHolds`. Three layers, each proved with
those before it. `Stages`: what the `ioContext` is while `run()` goes through its stages, that
the gun is loaded only while it loops, cancels or unwinds, that nobody else can fire while it
unwinds (`UnwindsAlone`), and that the latch counts who has arrived, as long as the listener has
not died (`LatchCounts`; a dying listener is what makes a third arrival). `Listener`: where the
listener is when `stop()` is past `Shutdown`, and that the one late connection is its last
(`LastOne`). `Finishing`: as long as nothing abnormal has happened only `stop()` stops the loop
(`OnlyStopStops`), and what is in flight when it has ceased to wait is late (`LeftIsLate`).
`StopTakesEffect` stands on the first layer and on what the hitman's counter tells of an order
(`OrderKept`): `stop()` goes on to the latch only when the loop is stopped or over, and `run()`
and `stop()` wait there together only if a dying listener has spoilt the count.

`RequestServiceProofs`: `TypesHold`, `PiecesDoNotMatterHolds`, `HandlerSeesWholeRequestHolds`,
`StaleOnlyFromWindowHolds`, `LateReplaysBoundedHolds`, `AwaitsTheRestHolds`, for any requests,
any way they come in pieces and any files. Five layers. `ReadSoFar` says, by the reader the
parser is in, how far it has come and that what it has made of that is what the reference
definitions say of those lines alone (`AtMethod`, `AtHeader`, `AtBody`, `AtDummy`); the ends of
the pieces (`got`) do not occur in what has been made, which is why they do not matter.
`LetThrough` is what the check of the secret adds, `Called` that it stays true until the next
request. `Kept`: types, and times that are not in the future. `Shown`: an entry, and content
that has been read and not yet kept, is the file's version in the file's size, or was not read, or
the file is backdated, or was written no earlier than it was read (if the version differs) or
measured (if the size does); the entry's time, which is later than both, is what
`Unmodified` then compares. `LateCounted`: the late replays of a file never exceed the calls
counted since the last clean-up, by one while a request is between its call and its look-up.
`AwaitsTheRest` adds to the parser's layer that the server reads on only when its buffer is
empty, and then for exactly the bytes up to the end of the declared body: a client who has sent
a whole request is not waited for again.

`ProgramProofs`: `TypesHold`, `FailureIsFinalHolds`, `SettingsAsWrittenHolds`,
`CommandsAdvanceHolds`, `PatienceEndsHolds`, for any number of commands, any modulus and any
times `ControlAssumption` allows. `FailureIsFinal` needs the modular difference of two readings
of the clock bounded by what the service has done in between. `ControlInv` has four parts:
types; `WorkShown`, that the manager tells what the service is doing, and how long each work may
take; `Commanded`, that only commands that stop a service are on the way to; and `StakeShown`,
that a command that waits for the work under way has waited no longer than it has taken
(`Waits`, `Patient`), so that its patience, which the static assertions make longer than any
work, ends only with one that hangs. `SettingsAsWritten`: `ConfigInv` says that the keys before
the next are taken as they are meant and were sound, the others have their defaults
(`TakenSoFar`), and what each stage has seen (`StageSeen`): above all that the current directory
is that of the configuration exactly while keys are taken. What makes a key sound stays, because
nothing of what is there is taken away, and a process that fails has met a key, a file or a
directory that is not sound. `CommandsAdvance` numbers the places
of a command and shows that it never goes back; `PatienceEnds` that one that waits has, by the
ticks it counts, waited less than its limit and one more delay, so what has elapsed never comes
to a whole turn of the counter.

`ImpexProofs`: `TypesHold`, `ResponseTellsFirstErrorHolds`, `AcceptedExactlyWhenSoundHolds`,
`AcceptedReachesDriverHolds`, for any answers of the register, any body that is nested, and any
limits. `CollectInv` says at every step of a response what the property says at its end. The
second half is about keys that are taken in an order, each with an eye on what was taken before,
against definitions that know no order. Every row depends on earlier rows only (`Deps`). What a
row comes to is said of the body alone, whatever has been taken (`RowSound`, `Wanted`). As long
as the rows before it were sound, taking a key comes to just that (`RowAgrees`), and so it stays
(`TakenBefore`, the inductive part of `DetailsInv`, with `Told`: the driver has been told
nothing before all keys are in, and then one item after the other). All rows of a body are sound
exactly when the reference definitions hold of it (`RowsAreSound`), and one that is not is what
refuses it (`Faulty` in `Told`). `AcceptedReachesDriver` then follows the customer, the items
and the payment from the body through the details to the driver. The hypothesis of `TypesHold`
in this module is both specifications at once, because `MCImpex` puts two state machines that
share no variable side by side.

Assumptions are only those on the constants (`CacheAssumption`, `KkmOpAssumption`,
`ConnAssumption`, `PollsAssumption`, `LoopAssumption`, `LifecycleAssumption`, `HttpAssumption`,
`StaticAssumption`, `RequestAssumption`, `ControlAssumption`, `DetailsAssumption`): distinct marks
for "no entry", "nobody" and so on, natural numbers, finite sets of connections, at least one poll,
the order of the service's times that the code asserts, limits of which the lower one is not
above the upper. TLC evaluates each in a run.

Only model-checked: the liveness properties, because liveness under fairness and `ENABLED` are
beyond the prover. What each of them rests on besides fairness is proved:

| liveness property, by TLC | what it rests on, by TLAPS |
|---|---|
| `SessionEnds` | `SessionShrinks`: every step falls in a well-founded order |
| `EveryRequestEnds` | `RequestsAdvance`, and `HeldOnTheWay`: the one who is waited for can go on |
| `EveryoneLeaves` | `WaitsEnd`, `TimeoutEnds`: what is waited for ends, but for a late answer |
| `ControlsEnd` | `StopTakesEffect`: nobody is left at the latch or in a loop that nobody stops |
| `WholeRequestAnswered` | `AwaitsTheRest`: no read waits for bytes that need not come |
| `CommandsEnd` | `CommandsAdvance`, `PatienceEnds` |

That the next step is then enabled, and that fairness makes it happen, is left to TLC. These
theorems speak of definitions of the proof modules, which no run lists as properties. Every
invariant of a passing run, and every action property, is proved. No module of the project
declares a RECURSIVE operator.

## 6. Findings

1. *An idempotency key does not make an operation execute once* (`kkmop_once`).
   docs/api.md:20-24 promises it of any number of repetitions. The key is looked up at
   server_kkmop_handler.cpp:381, the operation runs at 419 and its answer is stored only at 426
   or 439. A client that repeats a request while the first is under way (the timeout of
   the connection does not end the operation) registers the receipt twice, if the
   register's session is free when the second one connects. `ReceiptOnce` states, and the proof
   establishes, exactly what the code does guarantee.
2. *A document confirmed at the last poll is cancelled* (`cancel_unconfirmed`).
   device.cpp:242-246 takes "the counter is zero" for "no check succeeded", although the check
   made at zero may have. The comment at 238-240 says that the receipt is cancelled
   when no wonder happens.
3. *stop() may begin while the state is not Running* (`stop_from_running`).
   server_core.cpp:501 asserts it; the signal handler is registered at 459, before the listener has
   set `Running` at 379, and a service's stop control may follow the death of
   the listener.

4. *The seller's e-mail address does not reach the driver* (`seller_lost`). `subSetSeller`
   (device.cpp:347-351) tests `m_customerInn` where it hands on `m_sellerEmail`: the address that
   examples/php/test_sell.php:44 gives is not registered when the customer has no INN, and an empty
   one is registered when the customer has an INN and the seller no address.

Noticed on the way and not the subject of a run:

* docs/api.md:504 gives `POST /ping` where server_ping_handler.cpp:17 accepts GET only.
* The examples of sales in docs/api.md:351-400 have no `payment`, which impex.cpp requires.
* A price of 0.01 to 0.99 is accepted by the import and refused by the constructor of
  `ReceiptItemDetails` (callparams.h; its upper limit has a least value of 1): the request fails with that
  message instead of the key's.
* A payment sum that is negative, zero or not a number is treated as "auto", and
  `electroPaymentInfo` is dropped with it (device.cpp:935). "nan" passes `Numeric::between`, both
  of whose comparisons are false of it.
* Errors in `unit` and `tax` of an item are reported without the item's path.
* A static file that cannot be opened is answered 200 with a buffer that was not filled, and that
  is cached. One that has shrunk or grown between `file_size` and the reading is answered, and kept,
  in the size it had before: padded with what was not read, or cut short. A file that is copied with
  an older time is not noticed to have changed. `StaleOnlyFromWindow` names each of these.
* The timeout of a connection does not bound its answer when the operation ends at the same time:
  between the test of `canceled` (server_core.cpp:217) and the start of `async_write` (220), on the
  operation's thread, the callback may set the flag and emit the signal in vain; the write then has
  no limit but the peer (`Late`, in `NothingAfterTimeout` and `EveryoneLeaves`). `canceled` is a
  plain `bool`, so that this is a data race as well.
* `stream.shutdown()` (server_core.cpp:256) blocks, without a limit, the loop or the operation's thread
  that runs it: on the loop one peer that does not answer stops all connections.
* `enableStatic: false` turns off the redirection of `/`, but `/static` is still served
  (docs/config.md:89 gives it as the switch of `/static`).
* The default map of content types is looked for in the program's directory and opened in that of
  kkmha.json (config/core.h:27, 31-32): static files without `mimeMap` make the program refuse to
  start, unless both have the file.
* A failing `readJson` leaves the current directory switched and the keys before the wrong one
  set; the program then ends.
* `ControlService` may time out in the manager while `Worker::stop` is still at work. Between two
  polls of one command another may start the service anew, and the first then measures
  the second start with the patience left of its own.
* `save` does not notice a stream that could not be opened or written.

## 7. What is not modelled, and why

* Contents: names, texts, the fields of a status, the JSON of a response, log lines, the
  pages of `show-config`. A text is empty, blank, too long, a word that means something, or any
  other; the properties do not tell more apart. `RequestDetails` lets one key stand for several that
  are taken by the same code, and says which.
* Rendering of responses (`http_response.h`, the handlers of `root` and `config`): layout; only
  the status and the kind of the answer are modelled.
* TLS, sockets, the file system, the service manager and the driver are environments: they may
  fail or delay anywhere the code handles it. The driver's rules are taken from how
  `device.cpp` uses it.
* The timer callback that is queued when `timeoutTimer.cancel()` runs (server_core.cpp:249)
  refers to locals of a finished coroutine. In the model it has no effect; what it
  does in the process is undefined.
* What becomes of a non-fiscal document that is begun and not ended (device.cpp:743), and what a
  client means by one key for two operations (server_kkmop_handler.cpp:374): neither the code nor
  a document says, so there is nothing to state.
* Logging: output only, one mutex held around one write.
* `kkmop` and `kkmjl`: one command per process on the methods of `Device`; `DeviceSession` has
  those, and the rest is printing.
* PHP examples, build files, certificates, tests.

## 8. Running

Each run of `PROJECT.json` is `tlc -config <cfg> <module>.tla` in this directory, each proof
`tlapm <module>.tla`.
