---------------------------- MODULE DecisionCache ----------------------------
(***************************************************************************)
(* Pipeline.evaluate (app/pdp/pipeline.py) and its LRU decision cache,     *)
(* called by the threads of the server's pool without a lock while the     *)
(* policy store swaps snapshots.                                           *)
(*                                                                         *)
(* Every operation on the shared OrderedDict and on _cache_snapshot_id is  *)
(* one step: the interpreter may switch threads between any two of them.   *)
(* A verdict is represented by the snapshot it was computed from, which is *)
(* what its policy_version cites.  Snapshots are numbered in the order in  *)
(* which they become active; their id() is an address, and the address of  *)
(* a snapshot that nothing references any more may be given out again.     *)
(***************************************************************************)
EXTENDS Integers, Sequences, FiniteSets, SequencesExt

CONSTANTS
    Threads,         \* threads that call evaluate()
    Keys,            \* cache keys: role, tenant, owned services and prompt
    Addresses,       \* values id(snapshot) can take
    Capacities,      \* values of cache_size
    MaxCalls,        \* bound: calls of evaluate()
    MaxReloads       \* bound: snapshot swaps

ASSUME CapacitiesAssumption == Capacities \subseteq Nat
ASSUME BoundsAssumption == MaxCalls \in Nat /\ MaxReloads \in Nat
ASSUME SetsAssumption ==
    /\ IsFiniteSet(Threads) /\ Threads # {} /\ Keys # {}
    /\ Addresses \subseteq Nat \ {0} /\ 1 \in Addresses

Snapshots == 1..(MaxReloads + 1)
NoSnapshot == 0
NoAddress == 0

VARIABLES
    capacity,    \* Pipeline._cache_size
    active,      \* PolicyStore._active
    address,     \* id() of every snapshot made so far
    cache,       \* Pipeline._cache: entries, least recently used first
    cacheId,     \* Pipeline._cache_snapshot_id
    pc,          \* where each thread is in evaluate()
    key,         \* the key of the thread's request
    snap,        \* evaluate()'s local snap
    verdict,     \* evaluate()'s local cached, or decision
    recency,     \* history: keys used since the last clear, latest last
    seen,        \* history: what has happened, of Events
    calls

callVars == <<key, snap, verdict>>
vars == <<capacity, active, address, cache, cacheId, pc, callVars, recency, seen, calls>>

\* Two calls that overlap; a reload during a call; an address that is given
\* out for a second time.
Events == {"concurrent_calls", "reload_in_a_call", "address_reused"}

Labels == {"idle", "check", "clear", "setid", "lookup", "touch", "compute",
           "store", "size", "evict", "done", "raised"}
Between == {"idle", "done", "raised"}     \* the thread is not in evaluate()

Entry(k, s) == [key |-> k, from |-> s]
KeysOf(c) == [i \in 1..Len(c) |-> c[i].key]
Place(keys, k) == CHOOSE i \in 1..Len(keys) : keys[i] = k
Has(k) == k \in Range(KeysOf(cache))
Found(k) == Place(KeysOf(cache), k)

\* A key that is used goes to the end of the ideal recency list.
Used(k) ==
    Append(IF k \in Range(recency) THEN RemoveAt(recency, Place(recency, k)) ELSE recency, k)

Init ==
    /\ capacity \in Capacities
    /\ active = 1
    /\ address = [s \in Snapshots |-> IF s = 1 THEN 1 ELSE NoAddress]
    /\ cache = <<>>
    /\ cacheId = NoAddress
    /\ pc = [t \in Threads |-> "idle"]
    /\ key \in [Threads -> {CHOOSE k \in Keys : TRUE}]
    /\ snap = [t \in Threads |-> NoSnapshot]
    /\ verdict = [t \in Threads |-> NoSnapshot]
    /\ recency = <<>>
    /\ seen = {}
    /\ calls = 0

Goto(t, label) == pc' = [pc EXCEPT ![t] = label]

-----------------------------------------------------------------------------
\* The snapshot is read once, before anything else.
Call(t) ==
    /\ pc[t] \in Between
    /\ calls < MaxCalls
    /\ calls' = calls + 1
    /\ \E k \in Keys : key' = [key EXCEPT ![t] = k]
    /\ snap' = [snap EXCEPT ![t] = active]
    /\ verdict' = [verdict EXCEPT ![t] = NoSnapshot]
    /\ seen' = seen \cup {e \in {"concurrent_calls"} : \E u \in Threads \ {t} : pc[u] \notin Between}
    /\ Goto(t, "check")
    /\ UNCHANGED <<capacity, active, address, cache, cacheId, recency>>

CheckSnapshot(t) ==
    /\ pc[t] = "check"
    /\ \/ address[snap[t]] # cacheId /\ Goto(t, "clear")
       \/ address[snap[t]] = cacheId /\ Goto(t, "lookup")
    /\ UNCHANGED <<capacity, active, address, cache, cacheId, callVars, recency, seen, calls>>

\* Faulty variant of Clear: the old entries stay under the new snapshot's id.
ClearNothing(t) ==
    /\ pc[t] = "clear"
    /\ Goto(t, "setid")
    /\ UNCHANGED <<capacity, active, address, cache, cacheId, callVars, recency, seen, calls>>

Clear(t) ==
    /\ pc[t] = "clear"
    /\ cache' = <<>>
    /\ recency' = <<>>
    /\ Goto(t, "setid")
    /\ UNCHANGED <<capacity, active, address, cacheId, callVars, seen, calls>>

SetId(t) ==
    /\ pc[t] = "setid"
    /\ cacheId' = address[snap[t]]
    /\ Goto(t, "lookup")
    /\ UNCHANGED <<capacity, active, address, cache, callVars, recency, seen, calls>>

Hit(t) ==
    /\ pc[t] = "lookup"
    /\ capacity > 0
    /\ Has(key[t])
    /\ verdict' = [verdict EXCEPT ![t] = cache[Found(key[t])].from]
    /\ Goto(t, "touch")
    /\ UNCHANGED <<capacity, active, address, cache, cacheId, key, snap, recency, seen, calls>>

\* Also the way of a pipeline without a cache.
Miss(t) ==
    /\ pc[t] = "lookup"
    /\ capacity = 0 \/ ~Has(key[t])
    /\ Goto(t, "compute")
    /\ UNCHANGED <<capacity, active, address, cache, cacheId, callVars, recency, seen, calls>>

\* Faulty variant of Touch: a hit is returned without move_to_end.
TouchNothing(t) ==
    /\ pc[t] = "touch"
    /\ Goto(t, "done")
    /\ recency' = Used(key[t])
    /\ UNCHANGED <<capacity, active, address, cache, cacheId, callVars, seen, calls>>

\* move_to_end raises KeyError when the key has gone in the meantime.
Touch(t) ==
    /\ pc[t] = "touch"
    /\ \/ /\ Has(key[t])
          /\ cache' = Append(RemoveAt(cache, Found(key[t])), cache[Found(key[t])])
          /\ recency' = Used(key[t])
          /\ Goto(t, "done")
       \/ /\ ~Has(key[t])
          /\ UNCHANGED <<cache, recency>>
          /\ Goto(t, "raised")
    /\ UNCHANGED <<capacity, active, address, cacheId, callVars, seen, calls>>

\* Faulty variant of Compute: what the cache returned is stored, not the
\* decision.
ComputeNothing(t) ==
    /\ pc[t] = "compute"
    /\ Goto(t, IF capacity > 0 THEN "store" ELSE "done")
    /\ UNCHANGED <<capacity, active, address, cache, cacheId, callVars, recency, seen, calls>>

\* _evaluate: the stages see this thread's snapshot.
Compute(t) ==
    /\ pc[t] = "compute"
    /\ verdict' = [verdict EXCEPT ![t] = snap[t]]
    /\ Goto(t, IF capacity > 0 THEN "store" ELSE "done")
    /\ UNCHANGED <<capacity, active, address, cache, cacheId, key, snap, recency, seen, calls>>

\* Assignment to a key that is there keeps the key's place.
Store(t) ==
    /\ pc[t] = "store"
    /\ \/ /\ Has(key[t])
          /\ cache' = [cache EXCEPT ![Found(key[t])].from = verdict[t]]
       \/ /\ ~Has(key[t])
          /\ cache' = Append(cache, Entry(key[t], verdict[t]))
    /\ recency' = Used(key[t])
    /\ Goto(t, "size")
    /\ UNCHANGED <<capacity, active, address, cacheId, callVars, seen, calls>>

\* Faulty variant of CheckSize: one entry too many is tolerated.
CheckSizeLate(t) ==
    /\ pc[t] = "size"
    /\ Goto(t, IF Len(cache) > capacity + 1 THEN "evict" ELSE "done")
    /\ UNCHANGED <<capacity, active, address, cache, cacheId, callVars, recency, seen, calls>>

CheckSize(t) ==
    /\ pc[t] = "size"
    /\ Goto(t, IF Len(cache) > capacity THEN "evict" ELSE "done")
    /\ UNCHANGED <<capacity, active, address, cache, cacheId, callVars, recency, seen, calls>>

\* popitem(last=False) raises KeyError on a dictionary cleared in between.
Evict(t) ==
    /\ pc[t] = "evict"
    /\ \/ cache # <<>> /\ cache' = Tail(cache) /\ Goto(t, "done")
       \/ cache = <<>> /\ UNCHANGED cache /\ Goto(t, "raised")
    /\ UNCHANGED <<capacity, active, address, cacheId, callVars, recency, seen, calls>>

-----------------------------------------------------------------------------
Calling == {t \in Threads : pc[t] \notin Between}

\* PolicyStore.reload: the new snapshot gets an address that none of the
\* snapshots which the store or a call still refers to has.
Reload ==
    /\ active <= MaxReloads
    /\ \E a \in Addresses \ {address[s] : s \in {active} \cup {snap[t] : t \in Calling}} :
        /\ address' = [address EXCEPT ![active + 1] = a]
        /\ seen' = seen \cup {e \in {"reload_in_a_call"} : Calling # {}}
                        \cup {e \in {"address_reused"} : a \in Range(address)}
    /\ active' = active + 1
    /\ UNCHANGED <<capacity, cache, cacheId, pc, callVars, recency, calls>>

\* All calls have been made.
Finished ==
    /\ calls = MaxCalls
    /\ \A t \in Threads : pc[t] \in Between
    /\ UNCHANGED vars

Evaluate(t) ==
    \/ Call(t) \/ CheckSnapshot(t) \/ Clear(t) \/ SetId(t) \/ Hit(t) \/ Miss(t)
    \/ Touch(t) \/ Compute(t) \/ Store(t) \/ CheckSize(t) \/ Evict(t)

Next == (\E t \in Threads : Evaluate(t)) \/ Reload \/ Finished

Spec == Init /\ [][Next]_vars

-----------------------------------------------------------------------------
(* Properties                                                               *)

\* The type invariant.
TypeOK ==
    /\ capacity \in Capacities
    /\ active \in Snapshots
    /\ address \in [Snapshots -> Addresses \cup {NoAddress}]
    /\ cache \in Seq([key : Keys, from : Snapshots])
    /\ cacheId \in Addresses \cup {NoAddress}
    /\ pc \in [Threads -> Labels]
    /\ key \in [Threads -> Keys]
    /\ snap \in [Threads -> Snapshots \cup {NoSnapshot}]
    /\ verdict \in [Threads -> Snapshots \cup {NoSnapshot}]
    /\ recency \in Seq(Keys)
    /\ seen \subseteq Events
    /\ calls \in 0..MaxCalls

\* The cache outgrows its capacity by at most one entry for each thread that
\* has stored and not yet evicted; between calls it is within its capacity,
\* however clears, stores and evictions of several threads interleave.
BoundedCache ==
    Len(cache) <= capacity + Cardinality({t \in Threads : pc[t] \in {"size", "evict"}})

\* Claim of the docstring of Pipeline: the verdict of a call is one of the
\* policy that the call read, never a cached verdict of an older policy.
NeverStale == \A t \in Threads : pc[t] = "done" => verdict[t] = snap[t]

\* The claim holds as far as the id() of a snapshot can carry it: verdicts are
\* fresh, for any number of concurrent calls, until a reload comes in the middle
\* of one of them or a snapshot gets the address of an earlier one.
FreshUntilOverlap == seen \subseteq {"concurrent_calls"} => NeverStale

\* Claim of the header of ingress: the pipeline fails closed by itself, so
\* that evaluate() returns a verdict and does not raise.
NeverRaises == \A t \in Threads : pc[t] # "raised"

\* Without concurrent calls the cache is what it was designed to be: evaluate()
\* does not raise, and between calls the cache holds exactly the `capacity` keys
\* used last since it was cleared, least recent first, through evictions,
\* reloads and whatever address the new snapshots get.
SoloIsLRU ==
    "concurrent_calls" \notin seen =>
        /\ NeverRaises
        /\ Calling = {} =>
            /\ KeysOf(cache) = SubSeq(recency, Len(recency) - Len(cache) + 1, Len(recency))
            /\ Len(cache) = IF Len(recency) < capacity THEN Len(recency) ELSE capacity
=============================================================================
