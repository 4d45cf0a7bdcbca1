------------------------------- MODULE Cache -------------------------------
(***************************************************************************)
(* The response cache of server_cache_core.cpp, shared by every handler    *)
(* that caches: a map from keys to entries, guarded by one mutex, so each  *)
(* of its operations is one step.  An entry keeps what a handler answered  *)
(* (its status and data, here one value of Answer), the moment it was put  *)
(* in and the moment it expires.  Expired entries stay, and are still      *)
(* served, until a clean-up.                                               *)
(***************************************************************************)
EXTENDS Naturals

CONSTANTS
    CacheKey,          \* the keys handlers compose ("kkm::::<remote>::::<key>", ...)
    Answer,            \* what an entry replays
    NoEntry,           \* a key the map does not hold
    CleanUpThreshold,  \* c_cacheCleanUpThreshold: calls between clean-ups
    MaxTime            \* bound of the model: the clock stops there

ASSUME CacheAssumption ==
    /\ CleanUpThreshold \in Nat \ {0}
    /\ MaxTime \in Nat
    /\ NoEntry \notin [answer : Answer, cachedAt : Nat, expiredAt : Nat]

VARIABLES
    cache,    \* s_cache
    counter,  \* s_counter: calls of maintain() since the last clean-up
    now       \* DateTime::Clock::now(), in ticks

cacheVars == <<cache, counter, now>>

Entry == [answer : Answer, cachedAt : Nat, expiredAt : Nat]

CacheTypeOK ==
    /\ cache \in [CacheKey -> Entry \cup {NoEntry}]
    /\ counter \in Nat
    /\ now \in 0..MaxTime

(* Other handlers may have called maintain() before the first step. *)
CacheInit ==
    /\ cache = [k \in CacheKey |-> NoEntry]
    /\ counter \in 0..(CleanUpThreshold - 1)
    /\ now = 0

(* What load() finds, expired or not; an empty key is not looked up. *)
Held(k) == k \in CacheKey /\ cache[k] # NoEntry

(* store(key, expiresAfter(life), status, data): overwrites. *)
Store(k, a, life) ==
    /\ cache' = [cache EXCEPT ![k] =
                    [answer |-> a, cachedAt |-> now, expiredAt |-> now + life]]
    /\ UNCHANGED <<counter, now>>

ExpiredKeys == {k \in CacheKey : Held(k) /\ cache[k].expiredAt < now}

(* maintain(), first half: the counter is bumped and tested without the mutex. *)
CountCall ==
    /\ counter' = counter + 1
    /\ UNCHANGED <<cache, now>>

(* Variant for the mutation runs: one call too late. *)
CleanUpPastDue == counter + 1 > CleanUpThreshold

CleanUpDue == counter + 1 >= CleanUpThreshold

(* maintain(), second half, under the mutex: erase_if and the reset. *)
EraseUnexpired ==
    /\ cache' = [k \in CacheKey |-> IF Held(k) /\ cache[k].expiredAt >= now
                                    THEN NoEntry ELSE cache[k]]
    /\ counter' = 0
    /\ UNCHANGED now

EraseExpired ==
    /\ cache' = [k \in CacheKey |-> IF k \in ExpiredKeys THEN NoEntry ELSE cache[k]]
    /\ counter' = 0
    /\ UNCHANGED now

Tick ==
    /\ now < MaxTime
    /\ now' = now + 1
    /\ UNCHANGED <<cache, counter>>
=============================================================================
