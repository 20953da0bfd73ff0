------------------------ MODULE DecisionCache_proofs -------------------------
(***************************************************************************)
(* Machine-checked theorems about DecisionCache, for any number of threads *)
(* of the pool, prompts, capacities, reloads and addresses: the cache is   *)
(* bounded, its verdicts are fresh as far as id() can tell, and without    *)
(* concurrent calls it is an LRU cache.                                    *)
(***************************************************************************)
EXTENDS DecisionCache, SequenceLemmas, FiniteSetTheorems

InCall(t) == pc[t] \notin Between

\* A thread reads its snapshot before it looks for a verdict, and one that
\* has a verdict of the cache, or for it, has a cache.
CallInv ==
    \A t \in Threads :
        /\ InCall(t) => snap[t] \in Snapshots
        /\ pc[t] \in {"touch", "store", "size", "evict"} =>
              capacity > 0 /\ verdict[t] \in Snapshots

TypeInv == TypeOK /\ CallInv

\* All entries are of one snapshot.
AllFrom(s) == \A i \in 1..Len(cache) : cache[i].from = s

\* As long as no reload came in the middle of a call and no address was reused,
\* every call under way is one of the active snapshot.  The entries are of that
\* snapshot once its id is set, or a thread has cleared the cache to set it.
FreshInv ==
    seen \subseteq {"concurrent_calls"} =>
        /\ \A s \in Snapshots : s > active => address[s] = NoAddress
        /\ cacheId \in Range(address) \cup {NoAddress}
        /\ \A t \in Threads : InCall(t) => snap[t] = active
        /\ cacheId = address[active] \/ (\E t \in Threads : pc[t] = "setid") => AllFrom(active)
        /\ \A t \in Threads :
              pc[t] \in {"lookup", "touch", "compute", "store", "size", "evict"} =>
                  cacheId = address[active]
        /\ \A t \in Threads :
              pc[t] \in {"touch", "store", "size", "evict"} => verdict[t] = active
        /\ NeverStale

\* The number of entries that a single caller lets the cache have.
Limit ==
    IF \E t \in Threads : pc[t] \in {"size", "evict"} THEN capacity + 1 ELSE capacity

\* The keys of the cache are those used last.
UsedLast ==
    /\ Len(cache) = IF Len(recency) < Limit THEN Len(recency) ELSE Limit
    /\ \A i \in 1..Len(cache) : cache[i].key = recency[(Len(recency) - Len(cache)) + i]

\* As long as calls do not overlap there is one caller at most, and nobody
\* takes a key away between its lookup and its use.
SoloInv ==
    "concurrent_calls" \notin seen =>
        /\ \A t, u \in Threads : InCall(t) /\ InCall(u) => t = u
        /\ NeverRaises
        /\ \A t \in Threads : pc[t] = "touch" => Has(key[t])
        /\ \A t \in Threads :
              pc[t] \in {"compute", "store"} /\ capacity > 0 => ~Has(key[t])
        /\ \A t \in Threads : pc[t] = "evict" => Len(cache) > capacity
        /\ IsInjective(recency)
        /\ UsedLast
LEMMA BoundsType ==
    MaxCalls \in Nat /\ MaxReloads \in Nat /\ Snapshots = 1..(MaxReloads + 1)
BY BoundsAssumption DEF Snapshots

-----------------------------------------------------------------------------
(* The cache as a sequence of entries                                       *)

Entries == [key : Keys, from : Snapshots]

LEMMA PlaceIs ==
    ASSUME NEW S, NEW s \in Seq(S), NEW k \in Range(s)
    PROVE  Place(s, k) \in 1..Len(s) /\ s[Place(s, k)] = k
<1>1. \E i \in 1..Len(s) : s[i] = k
  BY RangeEquality
<1>2. QED
  BY <1>1 DEF Place

LEMMA EntryIs ==
    ASSUME TypeOK
    PROVE  /\ cache \in Seq(Entries) /\ Len(cache) \in Nat
           /\ \A i \in 1..Len(cache) : /\ cache[i] \in Entries /\ cache[i].key \in Keys
                                        /\ cache[i].from \in Snapshots
           /\ \A k : Has(k) <=> \E i \in 1..Len(cache) : cache[i].key = k
           /\ \A k : Has(k) => Found(k) \in 1..Len(cache) /\ cache[Found(k)].key = k
<1>1. cache \in Seq(Entries) /\ Len(cache) \in Nat
  BY LenProperties DEF TypeOK, Entries
<1>2. ASSUME NEW i \in 1..Len(cache)
      PROVE  cache[i] \in Entries /\ cache[i].key \in Keys /\ cache[i].from \in Snapshots
  <2>1. cache[i] \in Entries
    BY <1>1, ElementOfSeq
  <2>2. QED
    BY <2>1 DEF Entries
<1> DEFINE keys == [i \in 1..Len(cache) |-> cache[i].key]
<1>3. keys \in [1..Len(cache) -> Keys]
  BY <1>2
<1>4. keys = KeysOf(cache) /\ \A i \in 1..Len(cache) : keys[i] = cache[i].key
  BY DEF KeysOf
<1> HIDE DEF keys
<1>5. keys \in Seq(Keys) /\ Len(keys) = Len(cache)
  BY <1>1, <1>3, FunctionIsSeq
<1>6. Range(keys) = {keys[i] : i \in 1..Len(cache)}
  BY <1>5, RangeEquality
<1>7. \A k : Has(k) <=> \E i \in 1..Len(cache) : cache[i].key = k
  BY <1>4, <1>6 DEF Has
<1>8. ASSUME NEW k, Has(k)
      PROVE  Found(k) \in 1..Len(cache) /\ cache[Found(k)].key = k
  <2>1. Place(keys, k) \in 1..Len(keys) /\ keys[Place(keys, k)] = k
    BY <1>4, <1>5, <1>8, PlaceIs DEF Has
  <2>2. QED
    BY <1>4, <1>5, <2>1 DEF Found
<1>9. QED
  BY <1>1, <1>2, <1>7, <1>8

\* A key that is used goes to the end; the order of the others stays.
LEMMA UsedIs ==
    ASSUME NEW k \in Keys, recency \in Seq(Keys)
    PROVE  /\ Used(k) \in Seq(Keys) /\ Len(recency) \in Nat
           /\ k \in Range(recency) => \E p \in 1..Len(recency) :
                 /\ recency[p] = k /\ Len(Used(k)) = Len(recency)
                 /\ \A i \in 1..(Len(recency) - 1) :
                       Used(k)[i] = IF i < p THEN recency[i] ELSE recency[i + 1]
                 /\ Used(k)[Len(recency)] = k
           /\ k \notin Range(recency) =>
                 /\ Len(Used(k)) = Len(recency) + 1
                 /\ \A i \in 1..Len(recency) : Used(k)[i] = recency[i]
                 /\ Used(k)[Len(recency) + 1] = k
<1>1. CASE k \in Range(recency)
  <2>1. Place(recency, k) \in 1..Len(recency) /\ recency[Place(recency, k)] = k
    BY <1>1, PlaceIs
  <2>2. Used(k) = Append(RemoveAt(recency, Place(recency, k)), k)
    BY <1>1 DEF Used
  <2> DEFINE p == Place(recency, k)
             t == Used(k)
  <2>3. p \in 1..Len(recency) /\ recency[p] = k /\ t = Append(RemoveAt(recency, p), k)
    BY <2>1, <2>2
  <2> HIDE DEF p, t
  <2>4. /\ t \in Seq(Keys) /\ Len(recency) \in Nat /\ Len(t) = Len(recency)
        /\ \A i \in 1..(Len(recency) - 1) : t[i] = IF i < p THEN recency[i] ELSE recency[i + 1]
        /\ t[Len(recency)] = k
    BY <2>3, MovedToEnd
  <2>5. QED
    BY <1>1, <2>3, <2>4 DEF t
<1>2. CASE k \notin Range(recency)
  <2>1. Used(k) = Append(recency, k)
    BY <1>2 DEF Used
  <2>2. QED
    BY <1>2, <2>1, AppendProperties, LenProperties
<1>3. QED
  BY <1>1, <1>2

-----------------------------------------------------------------------------
(* Type correctness                                                         *)

LEMMA InitTypes == Init => TypeInv
<1>1. SUFFICES ASSUME Init PROVE TypeInv
  OBVIOUS
<1>2. (CHOOSE k \in Keys : TRUE) \in Keys
  BY SetsAssumption
<1>3. key \in [Threads -> Keys]
  BY <1>1, <1>2 DEF Init
<1>4. address \in [Snapshots -> Addresses \cup {NoAddress}] /\ active \in Snapshots
  BY <1>1, BoundsType, SetsAssumption DEF Init
<1>5. cache \in Seq([key : Keys, from : Snapshots]) /\ recency \in Seq(Keys)
  BY <1>1 DEF Init
<1>6. calls \in 0..MaxCalls
  BY <1>1, BoundsType DEF Init
<1>7. TypeOK
  BY <1>1, <1>3, <1>4, <1>5, <1>6 DEF Init, TypeOK, Labels
<1>8. CallInv
  BY <1>1 DEF Init, CallInv, InCall, Between
<1>9. QED
  BY <1>7, <1>8 DEF TypeInv

LEMMA StepTypes == TypeInv /\ [Next]_vars => TypeInv'
<1>1. SUFFICES ASSUME TypeInv, [Next]_vars PROVE TypeInv'
  OBVIOUS
<1>2. CASE UNCHANGED vars
  BY <1>1, <1>2 DEF TypeInv, TypeOK, CallInv, InCall, vars, callVars
<1>3. CASE Finished
  BY <1>2, <1>3 DEF Finished
<1>4. CASE Reload
  <2>1. PICK a \in Addresses :
          /\ address' = [address EXCEPT ![active + 1] = a]
          /\ seen' = seen \cup {e \in {"reload_in_a_call"} : Calling # {}}
                          \cup {e \in {"address_reused"} : a \in Range(address)}
    BY <1>4 DEF Reload
  <2>2. active + 1 \in Snapshots
    BY <1>1, <1>4, BoundsType DEF Reload, TypeInv, TypeOK
  <2>3. seen' \subseteq Events
    BY <1>1, <2>1 DEF Events, TypeInv, TypeOK
  <2>4. TypeOK'
    BY <1>1, <1>4, <2>1, <2>2, <2>3 DEF Reload, TypeInv, TypeOK, callVars
  <2>5. CallInv'
    BY <1>1, <1>4 DEF Reload, TypeInv, CallInv, InCall, callVars
  <2>6. QED
    BY <2>4, <2>5 DEF TypeInv
<1>5. ASSUME NEW t \in Threads, Evaluate(t) PROVE TypeInv'
  <2> USE DEF Goto
  <2>1. CASE Call(t)
    <3>1. calls' \in 0..MaxCalls
      BY <1>1, <2>1, BoundsType DEF Call, TypeInv, TypeOK
    <3>2. seen' \subseteq Events
      BY <1>1, <2>1 DEF Call, Events, TypeInv, TypeOK
    <3>3. TypeOK'
      BY <1>1, <2>1, <3>1, <3>2 DEF Call, TypeInv, TypeOK, Labels
    <3>4. CallInv'
      BY <1>1, <2>1 DEF Call, TypeInv, TypeOK, CallInv, InCall, Between
    <3>5. QED
      BY <3>3, <3>4 DEF TypeInv
  <2>2. CASE CheckSnapshot(t)
    BY <1>1, <2>2 DEF CheckSnapshot, TypeInv, TypeOK, CallInv, InCall, Between, Labels, callVars
  <2>3. CASE Clear(t)
    BY <1>1, <2>3 DEF Clear, TypeInv, TypeOK, CallInv, InCall, Between, Labels, callVars
  <2>4. CASE SetId(t)
    BY <1>1, <2>4 DEF SetId, TypeInv, TypeOK, CallInv, InCall, Between, Labels, callVars
  <2>5. CASE Hit(t)
    <3>1. cache[Found(key[t])].from \in Snapshots
      BY <1>1, <2>5, EntryIs DEF Hit, TypeInv
    <3>2. QED
      BY <1>1, <2>5, <3>1, CapacitiesAssumption
         DEF Hit, TypeInv, TypeOK, CallInv, InCall, Between, Labels
  <2>6. CASE Miss(t)
    BY <1>1, <2>6 DEF Miss, TypeInv, TypeOK, CallInv, InCall, Between, Labels, callVars
  <2>7. CASE Touch(t)
    <3>1. cache' \in Seq([key : Keys, from : Snapshots]) /\ recency' \in Seq(Keys)
      <4>1. CASE Has(key[t])
        <5>1. /\ Found(key[t]) \in 1..Len(cache) /\ cache \in Seq(Entries)
              /\ cache[Found(key[t])] \in Entries
          BY <1>1, <4>1, EntryIs DEF TypeInv
        <5>2. Append(RemoveAt(cache, Found(key[t])), cache[Found(key[t])]) \in Seq(Entries)
          BY <5>1, MovedToEnd
        <5>3. Used(key[t]) \in Seq(Keys)
          BY <1>1, UsedIs DEF TypeInv, TypeOK
        <5>4. QED
          BY <2>7, <4>1, <5>2, <5>3 DEF Touch, Entries
      <4>2. CASE ~Has(key[t])
        BY <1>1, <2>7, <4>2 DEF Touch, TypeInv, TypeOK
      <4>3. QED
        BY <4>1, <4>2
    <3>2. pc' \in [Threads -> Labels]
      BY <1>1, <2>7 DEF Touch, TypeInv, TypeOK, Labels
    <3>3. TypeOK'
      BY <1>1, <2>7, <3>1, <3>2 DEF Touch, TypeInv, TypeOK, callVars
    <3>4. CallInv'
      BY <1>1, <2>7 DEF Touch, TypeInv, TypeOK, CallInv, InCall, Between, callVars
    <3>5. QED
      BY <3>3, <3>4 DEF TypeInv
  <2>8. CASE Compute(t)
    <3>1. snap[t] \in Snapshots
      BY <1>1, <2>8 DEF Compute, TypeInv, CallInv, InCall, Between
    <3>2. TypeOK'
      BY <1>1, <2>8, <3>1 DEF Compute, TypeInv, TypeOK, Labels
    <3>3. CallInv'
      BY <1>1, <2>8, <3>1 DEF Compute, TypeInv, TypeOK, CallInv, InCall, Between
    <3>4. QED
      BY <3>2, <3>3 DEF TypeInv
  <2>9. CASE Store(t)
    <3>1. /\ verdict[t] \in Snapshots /\ key[t] \in Keys /\ cache \in Seq(Entries)
          /\ Has(key[t]) => /\ Found(key[t]) \in 1..Len(cache)
                            /\ cache[Found(key[t])] \in Entries
      BY <1>1, <2>9, EntryIs DEF Store, TypeInv, TypeOK, CallInv
    <3>2. cache' \in Seq(Entries)
      <4>1. CASE Has(key[t])
        <5>1. [cache[Found(key[t])] EXCEPT !.from = verdict[t]] \in Entries
          BY <3>1, <4>1 DEF Entries
        <5> DEFINE e == [cache[Found(key[t])] EXCEPT !.from = verdict[t]]
        <5>2. cache' = [cache EXCEPT ![Found(key[t])] = e]
          BY <2>9, <4>1 DEF Store
        <5>3. e \in Entries
          BY <5>1
        <5> HIDE DEF e
        <5>4. QED
          BY <3>1, <4>1, <5>2, <5>3, ExceptSeq
      <4>2. CASE ~Has(key[t])
        <5>1. Entry(key[t], verdict[t]) \in Entries
          BY <3>1 DEF Entry, Entries
        <5>2. QED
          BY <2>9, <3>1, <4>2, <5>1, AppendProperties DEF Store
      <4>3. QED
        BY <4>1, <4>2
    <3>3. recency' \in Seq(Keys)
      BY <1>1, <2>9, UsedIs DEF Store, TypeInv, TypeOK
    <3>4. TypeOK'
      BY <1>1, <2>9, <3>2, <3>3 DEF Store, TypeInv, TypeOK, Entries, Labels, callVars
    <3>5. CallInv'
      BY <1>1, <2>9 DEF Store, TypeInv, TypeOK, CallInv, InCall, Between, callVars
    <3>6. QED
      BY <3>4, <3>5 DEF TypeInv
  <2>10. CASE CheckSize(t)
    BY <1>1, <2>10 DEF CheckSize, TypeInv, TypeOK, CallInv, InCall, Between, Labels, callVars
  <2>11. CASE Evict(t)
    <3>1. cache' \in Seq(Entries)
      BY <1>1, <2>11, EntryIs, HeadTailProperties DEF Evict, TypeInv
    <3>2. pc' \in [Threads -> Labels]
      BY <1>1, <2>11 DEF Evict, TypeInv, TypeOK, Labels
    <3>3. TypeOK'
      BY <1>1, <2>11, <3>1, <3>2 DEF Evict, TypeInv, TypeOK, Entries, callVars
    <3>4. CallInv'
      BY <1>1, <2>11 DEF Evict, TypeInv, TypeOK, CallInv, InCall, Between, callVars
    <3>5. QED
      BY <3>3, <3>4 DEF TypeInv
  <2>12. QED
    BY <1>5, <2>1, <2>2, <2>3, <2>4, <2>5, <2>6, <2>7, <2>8, <2>9, <2>10, <2>11 DEF Evaluate
<1>6. QED
  BY <1>1, <1>2, <1>3, <1>4, <1>5 DEF Next

LEMMA TypeInvariant == Spec => []TypeInv
BY InitTypes, StepTypes, PTL DEF Spec

\* The type invariant: whatever the threads do to the shared dictionary, it
\* holds entries for known keys, and each verdict is one of a snapshot that was
\* made.
THEOREM TypeCorrect == Spec => []TypeOK
<1>1. TypeInv => TypeOK
  BY DEF TypeInv
<1>2. QED
  BY <1>1, TypeInvariant, PTL
-----------------------------------------------------------------------------
(* The size of the cache                                                    *)

Storing == {t \in Threads : pc[t] \in {"size", "evict"}}

\* How many threads are storing after a thread went on to a label.
LEMMA CountMoves ==
    ASSUME TypeOK, NEW t \in Threads, NEW label, Goto(t, label)
    PROVE  /\ Cardinality(Storing) \in Nat
           /\ Cardinality(Storing') =
                 IF label \in {"size", "evict"}
                   THEN IF t \in Storing THEN Cardinality(Storing) ELSE Cardinality(Storing) + 1
                   ELSE IF t \in Storing THEN Cardinality(Storing) - 1 ELSE Cardinality(Storing)
<1>1. IsFiniteSet(Storing)
  BY SetsAssumption, FS_Subset DEF Storing
<1>2. /\ Cardinality(Storing) \in Nat
      /\ Cardinality(Storing \cup {t}) =
            IF t \in Storing THEN Cardinality(Storing) ELSE Cardinality(Storing) + 1
      /\ Cardinality(Storing \ {t}) =
            IF t \in Storing THEN Cardinality(Storing) - 1 ELSE Cardinality(Storing)
  BY <1>1, FS_CardinalityType, FS_AddElement, FS_RemoveElement
<1>3. Storing' = IF label \in {"size", "evict"} THEN Storing \cup {t} ELSE Storing \ {t}
  BY DEF Storing, Goto, TypeOK
<1>4. QED
  BY <1>2, <1>3

LEMMA CountType ==
    ASSUME TypeInv
    PROVE  Cardinality(Storing) \in Nat /\ Len(cache) \in Nat /\ capacity \in Nat
<1>1. IsFiniteSet(Storing)
  BY SetsAssumption, FS_Subset DEF Storing
<1>2. QED
  BY <1>1, FS_CardinalityType, EntryIs, CapacitiesAssumption DEF TypeInv, TypeOK

BoundInv == Len(cache) <= capacity + Cardinality(Storing)

LEMMA StepBound == TypeInv /\ BoundInv /\ [Next]_vars => BoundInv'
<1>1. SUFFICES ASSUME TypeInv, BoundInv, [Next]_vars PROVE BoundInv'
  OBVIOUS
<1>2. Cardinality(Storing) \in Nat /\ Len(cache) \in Nat /\ capacity \in Nat
  BY <1>1, CountType
<1>3. CASE UNCHANGED <<pc, cache, capacity>>
  BY <1>1, <1>3 DEF BoundInv, Storing
<1>4. CASE UNCHANGED vars \/ Finished \/ Reload
  BY <1>3, <1>4 DEF vars, Finished, Reload
<1>5. ASSUME NEW t \in Threads, Evaluate(t) PROVE BoundInv'
  <2>1. TypeOK /\ cache \in Seq(Entries)
    BY <1>1, EntryIs DEF TypeInv
  <2>2. CASE Call(t)
    <3>1. Goto(t, "check") /\ t \notin Storing
      BY <2>2 DEF Call, Storing, Between
    <3>2. QED
      BY <1>1, <1>2, <2>1, <2>2, <3>1, CountMoves DEF Call, BoundInv
  <2>3. ASSUME NEW from \in Labels \ {"size", "evict"}, pc[t] = from,
               NEW label \in Labels \ {"size", "evict"}, Goto(t, label),
               capacity' = capacity, Len(cache') = Len(cache)
        PROVE  BoundInv'
    <3>1. t \notin Storing
      BY <2>3 DEF Storing
    <3>2. QED
      BY <1>1, <1>2, <2>1, <2>3, <3>1, CountMoves DEF BoundInv
  <2>4. CASE CheckSnapshot(t) \/ SetId(t) \/ Hit(t) \/ Miss(t) \/ Compute(t)
    BY <2>3, <2>4 DEF CheckSnapshot, SetId, Hit, Miss, Compute, Labels
  <2>5. CASE Clear(t)
    <3>1. Goto(t, "setid") /\ t \notin Storing /\ cache' = <<>> /\ capacity' = capacity
      BY <2>5 DEF Clear, Storing
    <3>2. QED
      BY <1>2, <2>1, <3>1, CountMoves DEF BoundInv
  <2>6. CASE Touch(t)
    <3>1. CASE Has(key[t])
      <4>1. /\ Found(key[t]) \in 1..Len(cache) /\ cache[Found(key[t])] \in Entries
        BY <2>1, <3>1, EntryIs
      <4>2. Len(Append(RemoveAt(cache, Found(key[t])), cache[Found(key[t])])) = Len(cache)
        BY <2>1, <4>1, MovedToEnd
      <4>3. QED
        BY <2>3, <2>6, <3>1, <4>2 DEF Touch, Labels
    <3>2. CASE ~Has(key[t])
      BY <2>3, <2>6, <3>2 DEF Touch, Labels
    <3>3. QED
      BY <3>1, <3>2
  <2>7. CASE Store(t)
    <3>1. Goto(t, "size") /\ t \notin Storing /\ capacity' = capacity
      BY <2>7 DEF Store, Storing
    <3>2. Len(cache') <= Len(cache) + 1 /\ Len(cache') \in Nat
      <4>1. verdict[t] \in Snapshots /\ key[t] \in Keys
        BY <1>1, <2>7 DEF Store, TypeInv, TypeOK, CallInv
      <4>2. CASE Has(key[t])
        <5> DEFINE e == [cache[Found(key[t])] EXCEPT !.from = verdict[t]]
        <5>1. e \in Entries /\ Found(key[t]) \in 1..Len(cache)
          BY <2>1, <4>1, <4>2, EntryIs DEF Entries
        <5>2. cache' = [cache EXCEPT ![Found(key[t])] = e]
          BY <2>7, <4>2 DEF Store
        <5> HIDE DEF e
        <5>3. Len(cache') = Len(cache)
          BY <2>1, <5>1, <5>2, ExceptSeq
        <5>4. QED
          BY <1>2, <5>3
      <4>3. CASE ~Has(key[t])
        <5>1. Entry(key[t], verdict[t]) \in Entries
          BY <4>1 DEF Entry, Entries
        <5>2. Len(cache') = Len(cache) + 1
          BY <2>1, <2>7, <4>3, <5>1, AppendProperties DEF Store
        <5>3. QED
          BY <1>2, <5>2
      <4>4. QED
        BY <4>2, <4>3
    <3>3. QED
      BY <1>1, <1>2, <2>1, <3>1, <3>2, CountMoves DEF BoundInv
  <2>8. CASE CheckSize(t)
    <3>1. t \in Storing /\ capacity' = capacity /\ cache' = cache
      BY <2>8 DEF CheckSize, Storing
    <3>2. CASE Len(cache) > capacity
      <4>1. Goto(t, "evict")
        BY <2>8, <3>2 DEF CheckSize
      <4>2. QED
        BY <1>1, <1>2, <2>1, <3>1, <4>1, CountMoves DEF BoundInv
    <3>3. CASE ~(Len(cache) > capacity)
      <4>1. Goto(t, "done")
        BY <2>8, <3>3 DEF CheckSize
      <4>2. Cardinality(Storing') = Cardinality(Storing) - 1 /\ Cardinality(Storing') \in Nat
        <5>1. IsFiniteSet(Storing')
          BY SetsAssumption, FS_Subset DEF Storing
        <5>2. QED
          BY <2>1, <3>1, <4>1, <5>1, CountMoves, FS_CardinalityType
      <4>3. QED
        BY <1>2, <3>1, <3>3, <4>2 DEF BoundInv
    <3>4. QED
      BY <3>2, <3>3
  <2>9. CASE Evict(t)
    <3>1. t \in Storing /\ capacity' = capacity /\ Cardinality(Storing') \in Nat
      <4>1. IsFiniteSet(Storing')
        BY SetsAssumption, FS_Subset DEF Storing
      <4>2. QED
        BY <2>9, <4>1, FS_CardinalityType DEF Evict, Storing
    <3>2. CASE cache # <<>>
      <4>1. Goto(t, "done") /\ cache' = Tail(cache)
        BY <2>9, <3>2 DEF Evict
      <4>2. Len(cache') = Len(cache) - 1
        BY <2>1, <3>2, <4>1, HeadTailProperties
      <4>3. QED
        BY <1>1, <1>2, <2>1, <3>1, <4>1, <4>2, CountMoves DEF BoundInv
    <3>3. CASE cache = <<>>
      BY <1>2, <2>9, <3>1, <3>3 DEF Evict, BoundInv
    <3>4. QED
      BY <3>2, <3>3
  <2>10. QED
    BY <1>5, <2>2, <2>4, <2>5, <2>6, <2>7, <2>8, <2>9 DEF Evaluate
<1>6. QED
  BY <1>1, <1>4, <1>5 DEF Next

\* The cache outgrows its capacity by at most one entry for each thread that has
\* stored and not yet evicted, however many threads interleave their stores,
\* clears and evictions without a lock.
THEOREM BoundedCacheHolds == Spec => []BoundedCache
<1>1. Init => BoundInv
  <2>1. SUFFICES ASSUME Init PROVE BoundInv
    OBVIOUS
  <2>2. Cardinality(Storing) \in Nat /\ capacity \in Nat /\ Len(cache) = 0
    BY <2>1, InitTypes, CountType DEF Init
  <2>3. QED
    BY <2>2 DEF BoundInv
<1>2. TypeInv /\ BoundInv /\ [Next]_vars => BoundInv'
  BY StepBound
<1>3. BoundInv => BoundedCache
  BY DEF BoundInv, BoundedCache, Storing
<1>4. QED
  BY <1>1, <1>2, <1>3, TypeInvariant, PTL DEF Spec
-----------------------------------------------------------------------------
(* Freshness                                                                *)

\* What a store does to the entries.
LEMMA StoreIs ==
    ASSUME TypeInv, NEW t \in Threads, Store(t)
    PROVE  /\ Len(cache) \in Nat /\ Len(cache') \in Nat
           /\ Has(key[t]) =>
                 /\ Len(cache') = Len(cache)
                 /\ \A i \in 1..Len(cache) : cache'[i].from \in {cache[i].from, verdict[t]}
           /\ ~Has(key[t]) =>
                 /\ Len(cache') = Len(cache) + 1
                 /\ \A i \in 1..Len(cache) : cache'[i] = cache[i]
                 /\ cache'[Len(cache) + 1].key = key[t]
                 /\ cache'[Len(cache) + 1].from = verdict[t]
<1>1. /\ TypeOK /\ cache \in Seq(Entries) /\ Len(cache) \in Nat
      /\ verdict[t] \in Snapshots /\ key[t] \in Keys
      /\ \A i \in 1..Len(cache) : cache[i] \in Entries
  BY EntryIs DEF Store, TypeInv, TypeOK, CallInv
<1>2. CASE Has(key[t])
  <2> DEFINE e == [cache[Found(key[t])] EXCEPT !.from = verdict[t]]
  <2>1. e \in Entries /\ Found(key[t]) \in 1..Len(cache) /\ e.from = verdict[t]
    BY <1>1, <1>2, EntryIs DEF Entries
  <2>2. cache' = [cache EXCEPT ![Found(key[t])] = e]
    BY <1>2 DEF Store
  <2> HIDE DEF e
  <2>3. /\ Len(cache') = Len(cache)
        /\ \A i \in 1..Len(cache) : cache'[i] = IF i = Found(key[t]) THEN e ELSE cache[i]
    BY <1>1, <2>1, <2>2, ExceptSeq
  <2>4. QED
    BY <1>1, <1>2, <2>1, <2>3
<1>3. CASE ~Has(key[t])
  <2> DEFINE e == Entry(key[t], verdict[t])
  <2>1. e \in Entries /\ e.key = key[t] /\ e.from = verdict[t]
    BY <1>1 DEF Entry, Entries
  <2>2. cache' = Append(cache, e)
    BY <1>3 DEF Store
  <2> HIDE DEF e
  <2>3. /\ Len(cache') = Len(cache) + 1 /\ cache'[Len(cache) + 1] = e
        /\ \A i \in 1..Len(cache) : cache'[i] = cache[i]
    BY <1>1, <2>1, <2>2, AppendProperties
  <2>4. QED
    BY <1>1, <1>3, <2>1, <2>3
<1>4. QED
  BY <1>2, <1>3

\* A hit moves its entry to the end; the order of the others stays.
LEMMA TouchIs ==
    ASSUME TypeInv, NEW t \in Threads, Touch(t), Has(key[t])
    PROVE  /\ Len(cache) \in Nat \ {0} /\ Len(cache') = Len(cache)
           /\ Found(key[t]) \in 1..Len(cache) /\ cache[Found(key[t])].key = key[t]
           /\ \A i \in 1..(Len(cache) - 1) :
                 cache'[i] = IF i < Found(key[t]) THEN cache[i] ELSE cache[i + 1]
           /\ cache'[Len(cache)] = cache[Found(key[t])]
<1>1. /\ cache \in Seq(Entries) /\ Found(key[t]) \in 1..Len(cache) /\ Len(cache) \in Nat
      /\ cache[Found(key[t])] \in Entries /\ cache[Found(key[t])].key = key[t]
  BY EntryIs DEF TypeInv
<1>2. cache' = Append(RemoveAt(cache, Found(key[t])), cache[Found(key[t])])
  BY DEF Touch
<1> DEFINE p == Found(key[t])
           e == cache[p]
<1>3. p \in 1..Len(cache) /\ e \in Entries /\ cache' = Append(RemoveAt(cache, p), e)
  BY <1>1, <1>2
<1> HIDE DEF p, e
<1>4. /\ Len(cache') = Len(cache)
      /\ \A i \in 1..(Len(cache) - 1) : cache'[i] = IF i < p THEN cache[i] ELSE cache[i + 1]
      /\ cache'[Len(cache)] = e
  BY <1>1, <1>3, MovedToEnd
<1>5. QED
  BY <1>1, <1>4 DEF p, e

LEMMA EvictIs ==
    ASSUME TypeInv, cache # <<>>, cache' = Tail(cache)
    PROVE  /\ Len(cache) \in Nat \ {0} /\ Len(cache') = Len(cache) - 1
           /\ \A i \in 1..(Len(cache) - 1) : cache'[i] = cache[i + 1]
<1>1. cache \in Seq(Entries)
  BY EntryIs DEF TypeInv
<1>2. QED
  BY <1>1, HeadTailProperties, EmptySeq

\* Nothing but a clear, a store or an eviction changes what the entries are of,
\* and a store adds the verdict that its thread has.
LEMMA EntriesStayFrom ==
    ASSUME TypeInv, NEW t \in Threads, Evaluate(t), NEW s, AllFrom(s),
           pc[t] = "store" => verdict[t] = s
    PROVE  AllFrom(s)'
<1>1. CASE cache' = cache
  BY <1>1 DEF AllFrom
<1>2. CASE cache' = <<>>
  BY <1>2 DEF AllFrom
<1>3. CASE Touch(t) /\ Has(key[t])
  <2>1. ASSUME NEW i \in 1..Len(cache') PROVE cache'[i].from = s
    <3>1. CASE i = Len(cache)
      BY <1>3, <3>1, TouchIs DEF AllFrom
    <3>2. CASE i # Len(cache)
      <4>1. i \in 1..(Len(cache) - 1) /\ i \in 1..Len(cache) /\ i + 1 \in 1..Len(cache)
        BY <1>3, <3>2, TouchIs
      <4>2. QED
        BY <1>3, <4>1, TouchIs DEF AllFrom
    <3>3. QED
      BY <3>1, <3>2
  <2>2. QED
    BY <2>1 DEF AllFrom
<1>4. CASE Store(t)
  <2>1. ASSUME NEW i \in 1..Len(cache') PROVE cache'[i].from = s
    <3>1. verdict[t] = s
      BY <1>4 DEF Store
    <3>2. CASE Has(key[t])
      BY <1>4, <3>1, <3>2, StoreIs DEF AllFrom
    <3>3. CASE ~Has(key[t])
      <4>1. i \in 1..Len(cache) \/ i = Len(cache) + 1
        BY <1>4, <3>3, StoreIs
      <4>2. QED
        BY <1>4, <3>1, <3>3, <4>1, StoreIs DEF AllFrom
    <3>4. QED
      BY <3>2, <3>3
  <2>2. QED
    BY <2>1 DEF AllFrom
<1>5. CASE cache # <<>> /\ cache' = Tail(cache)
  <2>1. ASSUME NEW i \in 1..Len(cache') PROVE cache'[i].from = s
    <3>1. i \in 1..(Len(cache) - 1) /\ i + 1 \in 1..Len(cache)
      BY <1>5, EvictIs
    <3>2. QED
      BY <1>5, <3>1, EvictIs DEF AllFrom
  <2>2. QED
    BY <2>1 DEF AllFrom
<1>6. QED
  BY <1>1, <1>2, <1>3, <1>4, <1>5
     DEF Evaluate, Call, CheckSnapshot, Clear, SetId, Hit, Miss, Touch, Compute, CheckSize, Evict
LEMMA StepFresh == TypeInv /\ FreshInv /\ [Next]_vars => FreshInv'
<1>1. SUFFICES ASSUME TypeInv, FreshInv, [Next]_vars, seen' \subseteq {"concurrent_calls"}
               PROVE  FreshInv'
  BY DEF FreshInv
<1>2. CASE UNCHANGED vars
  BY <1>1, <1>2 DEF FreshInv, AllFrom, NeverStale, InCall, vars, callVars
<1>3. CASE Finished
  BY <1>2, <1>3 DEF Finished
<1>4. CASE Reload
  <2>1. PICK a \in Addresses :
          /\ address' = [address EXCEPT ![active + 1] = a]
          /\ seen' = seen \cup {e \in {"reload_in_a_call"} : Calling # {}}
                          \cup {e \in {"address_reused"} : a \in Range(address)}
    BY <1>4 DEF Reload
  <2>2. /\ active + 1 \in Snapshots /\ active \in Snapshots /\ active' = active + 1
        /\ cacheId' = cacheId /\ cache' = cache /\ pc' = pc /\ snap' = snap /\ verdict' = verdict
        /\ address \in [Snapshots -> Addresses \cup {NoAddress}] /\ Snapshots \subseteq Nat
        /\ a # NoAddress
    BY <1>1, <1>4, BoundsType, SetsAssumption DEF Reload, TypeInv, TypeOK, callVars, NoAddress
  <2>3. seen \subseteq {"concurrent_calls"} /\ Calling = {} /\ a \notin Range(address)
    BY <1>1, <2>1
  <2>4. \A t \in Threads : ~InCall(t) /\ pc[t] \in Between
    BY <2>3 DEF Calling, InCall
  <2>5. /\ \A s \in Snapshots : s > active => address[s] = NoAddress
        /\ cacheId \in Range(address) \cup {NoAddress} /\ NeverStale
    BY <1>1, <2>3 DEF FreshInv
  <2>6. \A s \in Snapshots : s > active' => address'[s] = NoAddress
    BY <2>1, <2>2, <2>5
  <2>7. cacheId' # address'[active']
    BY <2>1, <2>2, <2>3, <2>5
  <2>8. cacheId' \in Range(address') \cup {NoAddress}
    <3>1. CASE cacheId = NoAddress
      BY <2>2, <3>1
    <3>2. CASE cacheId # NoAddress
      <4>1. PICK s \in Snapshots : address[s] = cacheId
        BY <2>2, <2>5, <3>2 DEF Range
      <4>2. s # active + 1
        BY <2>2, <2>5, <3>2, <4>1
      <4>3. address'[s] = cacheId /\ s \in DOMAIN address'
        BY <2>1, <2>2, <4>1, <4>2
      <4>4. QED
        BY <2>2, <4>3 DEF Range
    <3>3. QED
      BY <3>1, <3>2
  <2>9. NeverStale'
    BY <2>2, <2>5 DEF NeverStale
  <2>10. QED
    BY <2>2, <2>4, <2>6, <2>7, <2>8, <2>9 DEF FreshInv, InCall, Between
<1>5. ASSUME NEW t \in Threads, Evaluate(t) PROVE FreshInv'
  <2>1. /\ active' = active /\ address' = address /\ seen \subseteq {"concurrent_calls"}
        /\ pc \in [Threads -> Labels] /\ snap \in [Threads -> Snapshots \cup {NoSnapshot}]
        /\ verdict \in [Threads -> Snapshots \cup {NoSnapshot}]
        /\ address \in [Snapshots -> Addresses \cup {NoAddress}] /\ active \in Snapshots
    BY <1>1, <1>5 DEF Evaluate, Call, CheckSnapshot, Clear, SetId, Hit, Miss, Touch, Compute,
       Store, CheckSize, Evict, TypeInv, TypeOK
  <2>2. /\ \A s \in Snapshots : s > active => address[s] = NoAddress
        /\ cacheId \in Range(address) \cup {NoAddress}
        /\ \A u \in Threads : InCall(u) => snap[u] = active
        /\ cacheId = address[active] \/ (\E u \in Threads : pc[u] = "setid") => AllFrom(active)
        /\ \A u \in Threads :
              pc[u] \in {"lookup", "touch", "compute", "store", "size", "evict"} =>
                  cacheId = address[active]
        /\ \A u \in Threads :
              pc[u] \in {"touch", "store", "size", "evict"} => verdict[u] = active
        /\ NeverStale
    BY <1>1, <2>1 DEF FreshInv
  <2> USE DEF Goto
  <2>3. cacheId' \in Range(address') \cup {NoAddress}
    <3>1. cacheId' = cacheId \/ (cacheId' = address[snap[t]] /\ InCall(t))
      <4>1. CASE SetId(t)
        BY <4>1 DEF SetId, InCall, Between
      <4>2. CASE ~SetId(t)
        BY <1>5, <4>2 DEF Evaluate, Call, CheckSnapshot, Clear, Hit, Miss, Touch, Compute,
           Store, CheckSize, Evict
      <4>3. QED
        BY <4>1, <4>2
    <3>2. address[active] \in Range(address)
      BY <2>1 DEF Range
    <3>3. QED
      BY <2>1, <2>2, <3>1, <3>2
  <2>4. \A u \in Threads : InCall(u)' => snap'[u] = active'
    BY <1>5, <2>1, <2>2 DEF Evaluate, Call, CheckSnapshot, Clear, SetId, Hit, Miss, Touch,
       Compute, Store, CheckSize, Evict, InCall, Between, callVars
  <2>5. \A u \in Threads :
          pc'[u] \in {"lookup", "touch", "compute", "store", "size", "evict"} =>
              cacheId' = address'[active']
    BY <1>5, <2>1, <2>2 DEF Evaluate, Call, CheckSnapshot, Clear, SetId, Hit, Miss, Touch,
       Compute, Store, CheckSize, Evict, InCall, Between, callVars
  <2>6. cacheId' = address'[active'] \/ (\E u \in Threads : pc'[u] = "setid") => AllFrom(active)'
    <3>1. SUFFICES ASSUME cacheId' = address'[active'] \/ (\E u \in Threads : pc'[u] = "setid")
                   PROVE  AllFrom(active)'
      OBVIOUS
    <3>2. CASE Clear(t)
      BY <3>2 DEF Clear, AllFrom
    <3>3. CASE ~Clear(t)
      <4>1. cacheId = address[active] \/ (\E u \in Threads : pc[u] = "setid")
        BY <1>5, <2>1, <2>2, <3>1, <3>3 DEF Evaluate, Call, CheckSnapshot, SetId, Hit, Miss,
           Touch, Compute, Store, CheckSize, Evict
      <4>2. PICK s : s = active
        OBVIOUS
      <4>3. AllFrom(s)
        BY <2>2, <4>1, <4>2 DEF AllFrom
      <4>4. AllFrom(s)'
        BY <1>1, <1>5, <2>2, <4>2, <4>3, EntriesStayFrom
      <4>5. QED
        BY <2>1, <4>2, <4>4 DEF AllFrom
    <3>4. QED
      BY <3>2, <3>3
  <2>7. \A u \in Threads : pc'[u] \in {"touch", "store", "size", "evict"} => verdict'[u] = active'
    <3>1. CASE Hit(t)
      <4>1. /\ Found(key[t]) \in 1..Len(cache) /\ AllFrom(active)
        BY <1>1, <2>2, <3>1, EntryIs DEF Hit, TypeInv
      <4>2. cache[Found(key[t])].from = active
        BY <4>1 DEF AllFrom
      <4>3. QED
        BY <2>1, <2>2, <3>1, <4>2 DEF Hit
    <3>2. CASE ~Hit(t)
      BY <1>5, <2>1, <2>2, <3>2 DEF Evaluate, Call, CheckSnapshot, Clear, SetId, Miss, Touch,
         Compute, Store, CheckSize, Evict, InCall, Between, callVars
    <3>3. QED
      BY <3>1, <3>2
  <2>8. NeverStale'
    <3>1. CASE Hit(t)
      BY <2>1, <2>2, <3>1 DEF Hit, NeverStale
    <3>2. CASE ~Hit(t)
      BY <1>5, <2>1, <2>2, <3>2 DEF Evaluate, Call, CheckSnapshot, Clear, SetId, Miss, Touch,
         Compute, Store, CheckSize, Evict, InCall, Between, callVars, NeverStale
    <3>3. QED
      BY <3>1, <3>2
  <2>9. QED
    BY <2>1, <2>2, <2>3, <2>4, <2>5, <2>6, <2>7, <2>8 DEF FreshInv
<1>6. QED
  BY <1>1, <1>2, <1>3, <1>4, <1>5 DEF Next

\* A verdict is one of the policy that its call read, for any number of calls at
\* the same time, until a reload comes in the middle of one of them or a snapshot
\* gets the address of an earlier one: id() tells the pipeline no more.
THEOREM FreshUntilOverlapHolds == Spec => []FreshUntilOverlap
<1>1. Init => FreshInv
  BY DEF Init, FreshInv, AllFrom, NeverStale, InCall, Between
<1>2. TypeInv /\ FreshInv /\ [Next]_vars => FreshInv'
  BY StepFresh
<1>3. FreshInv => FreshUntilOverlap
  BY DEF FreshInv, FreshUntilOverlap
<1>4. QED
  BY <1>1, <1>2, <1>3, TypeInvariant, PTL DEF Spec
-----------------------------------------------------------------------------
(* An LRU cache, for one caller at a time                                   *)

LEMMA UsedInjective ==
    ASSUME NEW k \in Keys, recency \in Seq(Keys), IsInjective(recency)
    PROVE  IsInjective(Used(k))
<1> DEFINE r == recency
           u == Used(k)
           n == Len(r)
<1>1. /\ n \in Nat /\ Range(r) = {r[i] : i \in 1..n} /\ DOMAIN u = 1..Len(u)
      /\ \A i, j \in 1..n : r[i] = r[j] => i = j
  <2>1. u \in Seq(Keys) /\ DOMAIN r = 1..n
    BY UsedIs, LenProperties
  <2>2. DOMAIN u = 1..Len(u)
    BY <2>1, LenProperties
  <2>3. QED
    BY <2>1, <2>2, RangeEquality, LenProperties DEF IsInjective
<1>2. CASE k \in Range(r)
  <2>1. PICK p \in 1..n :
          /\ r[p] = k /\ Len(u) = n /\ u[n] = k
          /\ \A i \in 1..(n - 1) : u[i] = IF i < p THEN r[i] ELSE r[i + 1]
    BY <1>2, UsedIs
  <2> HIDE DEF r, u, n
  <2>2. ASSUME NEW i \in 1..(n - 1) PROVE u[i] # k
    BY <1>1, <2>1, <2>2
  <2>3. ASSUME NEW i \in 1..(n - 1), NEW j \in 1..(n - 1), u[i] = u[j] PROVE i = j
    BY <1>1, <2>1, <2>3
  <2>4. \A i \in 1..n : i = n \/ i \in 1..(n - 1)
    BY <1>1
  <2>5. \A i, j \in 1..n : u[i] = u[j] => i = j
    BY <2>1, <2>2, <2>3, <2>4
  <2>6. IsInjective(u)
    BY <1>1, <2>1, <2>5 DEF IsInjective
  <2>7. QED
    BY <2>6 DEF u
<1>3. CASE k \notin Range(r)
  <2>1. /\ Len(u) = n + 1 /\ u[n + 1] = k
        /\ \A i \in 1..n : u[i] = r[i]
    BY <1>3, UsedIs
  <2> HIDE DEF r, u, n
  <2>2. \A i \in 1..n : r[i] # k
    BY <1>1, <1>3
  <2>3. \A i, j \in 1..(n + 1) : u[i] = u[j] => i = j
    BY <1>1, <2>1, <2>2
  <2>4. IsInjective(u)
    BY <1>1, <2>1, <2>3 DEF IsInjective
  <2>5. QED
    BY <2>4 DEF u
<1>4. QED
  BY <1>2, <1>3

\* Sizes, for the arithmetic below.
LEMMA SizesAre ==
    ASSUME TypeInv, UsedLast
    PROVE  /\ Len(cache) \in Nat /\ Len(recency) \in Nat /\ capacity \in Nat
           /\ Limit \in {capacity, capacity + 1} /\ Len(cache) <= Len(recency)
           /\ \A i \in 1..Len(cache) : cache[i].key = recency[(Len(recency) - Len(cache)) + i]
           /\ Len(cache) = IF Len(recency) < Limit THEN Len(recency) ELSE Limit
<1>1. Len(cache) \in Nat /\ Len(recency) \in Nat /\ capacity \in Nat
  BY EntryIs, LenProperties, CapacitiesAssumption DEF TypeInv, TypeOK
<1>2. Limit \in {capacity, capacity + 1}
  BY DEF Limit
<1>3. /\ Len(cache) = IF Len(recency) < Limit THEN Len(recency) ELSE Limit
      /\ \A i \in 1..Len(cache) : cache[i].key = recency[(Len(recency) - Len(cache)) + i]
  BY DEF UsedLast
<1>4. Len(cache) <= Len(recency)
  <2>1. Len(cache) = IF Len(recency) < Limit THEN Len(recency) ELSE Limit
    BY <1>3
  <2>2. QED
    BY <1>1, <1>2, <2>1
<1>5. QED
  BY <1>1, <1>2, <1>3, <1>4

LEMMA StoreUsedLast ==
    ASSUME TypeInv, UsedLast, NEW t \in Threads, Store(t), ~Has(key[t]),
           Limit = capacity, Limit' = capacity + 1
    PROVE  UsedLast'
<1> DEFINE n == Len(cache)
           r == Len(recency)
           k == key[t]
           new == Used(k)
<1>1. /\ n \in Nat /\ r \in Nat /\ capacity \in Nat /\ n <= r
      /\ n = (IF r < capacity THEN r ELSE capacity)
      /\ \A i \in 1..n : cache[i].key = recency[(r - n) + i]
  BY SizesAre
<1>2. /\ Len(cache') = n + 1 /\ cache'[n + 1].key = k
      /\ \A i \in 1..n : cache'[i].key = cache[i].key
      /\ recency' = new /\ k \in Keys
  BY StoreIs DEF Store, TypeInv, TypeOK
<1>3. \A i \in 1..n : cache[i].key # k
  BY EntryIs DEF TypeInv
<1>4. /\ k \in Range(recency) => \E p \in 1..r :
            /\ recency[p] = k /\ Len(new) = r /\ new[r] = k
            /\ \A i \in 1..(r - 1) : new[i] = IF i < p THEN recency[i] ELSE recency[i + 1]
      /\ k \notin Range(recency) =>
            /\ Len(new) = r + 1 /\ new[r + 1] = k
            /\ \A i \in 1..r : new[i] = recency[i]
  BY <1>2, UsedIs DEF TypeInv, TypeOK
<1> HIDE DEF n, r, k, new
<1>5. CASE k \in Range(recency)
  <2>1. PICK p \in 1..r :
            /\ recency[p] = k /\ Len(new) = r /\ new[r] = k
            /\ \A i \in 1..(r - 1) : new[i] = IF i < p THEN recency[i] ELSE recency[i + 1]
    BY <1>4, <1>5
  <2>2. p <= r - n
    <3>1. SUFFICES ASSUME ~ (p <= r - n) PROVE FALSE
      OBVIOUS
    <3>2. p - (r - n) \in 1..n /\ (r - n) + (p - (r - n)) = p
      BY <1>1, <2>1, <3>1
    <3>3. cache[p - (r - n)].key = k
      BY <1>1, <2>1, <3>2
    <3>4. QED
      BY <1>3, <3>2, <3>3
  <2>3. n + 1 = (IF r < capacity + 1 THEN r ELSE capacity + 1) /\ n = capacity
    BY <1>1, <2>1, <2>2
  <2>4. ASSUME NEW i \in 1..(n + 1) PROVE cache'[i].key = new[(r - (n + 1)) + i]
    <3>1. CASE i = n + 1
      <4>1. (r - (n + 1)) + i = r
        BY <1>1, <3>1
      <4>2. QED
        BY <1>2, <2>1, <3>1, <4>1
    <3>2. CASE i # n + 1
      <4>1. /\ i \in 1..n /\ (r - (n + 1)) + i \in 1..(r - 1)
            /\ ~ ((r - (n + 1)) + i < p) /\ ((r - (n + 1)) + i) + 1 = (r - n) + i
        <5>1. n \in Nat /\ r \in Nat /\ p \in 1..r
          BY <1>1
        <5>2. QED
          BY <2>2, <3>2, <5>1
      <4>2. new[(r - (n + 1)) + i] = recency[(r - n) + i]
        BY <2>1, <4>1
      <4>3. QED
        BY <1>1, <1>2, <4>1, <4>2
    <3>3. QED
      BY <3>1, <3>2
  <2>5. QED
    BY <1>2, <2>1, <2>3, <2>4 DEF UsedLast
<1>6. CASE k \notin Range(recency)
  <2>1. /\ Len(new) = r + 1 /\ new[r + 1] = k
        /\ \A i \in 1..r : new[i] = recency[i]
    BY <1>4, <1>6
  <2>2. n + 1 = (IF r + 1 < capacity + 1 THEN r + 1 ELSE capacity + 1)
    BY <1>1
  <2>3. ASSUME NEW i \in 1..(n + 1) PROVE cache'[i].key = new[((r + 1) - (n + 1)) + i]
    <3>1. CASE i = n + 1
      <4>1. ((r + 1) - (n + 1)) + i = r + 1
        BY <1>1, <3>1
      <4>2. QED
        BY <1>2, <2>1, <3>1, <4>1
    <3>2. CASE i # n + 1
      <4>1. i \in 1..n /\ ((r + 1) - (n + 1)) + i = (r - n) + i /\ (r - n) + i \in 1..r
        BY <1>1, <3>2
      <4>2. QED
        BY <1>1, <1>2, <2>1, <4>1
    <3>3. QED
      BY <3>1, <3>2
  <2>4. QED
    BY <1>2, <2>1, <2>2, <2>3 DEF UsedLast
<1>7. QED
  BY <1>5, <1>6

LEMMA TouchUsedLast ==
    ASSUME TypeInv, UsedLast, IsInjective(recency), NEW t \in Threads, Touch(t), Has(key[t]),
           Limit' = Limit
    PROVE  UsedLast'
<1> DEFINE n == Len(cache)
           r == Len(recency)
           k == key[t]
           q == Found(k)
           new == Used(k)
<1>1. /\ n \in Nat /\ r \in Nat /\ n <= r
      /\ n = (IF r < Limit THEN r ELSE Limit)
      /\ \A i \in 1..n : cache[i].key = recency[(r - n) + i]
  BY SizesAre
<1>2. /\ Len(cache') = n /\ q \in 1..n /\ cache[q].key = k /\ cache'[n] = cache[q]
      /\ \A i \in 1..(n - 1) : cache'[i] = IF i < q THEN cache[i] ELSE cache[i + 1]
      /\ recency' = new /\ k \in Keys
  BY TouchIs DEF Touch, TypeInv, TypeOK
<1>3. /\ \A i, j \in 1..r : recency[i] = recency[j] => i = j
      /\ Range(recency) = {recency[i] : i \in 1..r}
  BY LenProperties, RangeEquality DEF IsInjective, TypeInv, TypeOK
<1>4. k \in Range(recency) => \E p \in 1..r :
            /\ recency[p] = k /\ Len(new) = r /\ new[r] = k
            /\ \A i \in 1..(r - 1) : new[i] = IF i < p THEN recency[i] ELSE recency[i + 1]
  BY <1>2, UsedIs DEF TypeInv, TypeOK
<1> HIDE DEF n, r, k, q, new
<1>5. (r - n) + q \in 1..r /\ recency[(r - n) + q] = k
  BY <1>1, <1>2
<1>6. PICK p \in 1..r :
            /\ recency[p] = k /\ Len(new) = r /\ new[r] = k
            /\ \A i \in 1..(r - 1) : new[i] = IF i < p THEN recency[i] ELSE recency[i + 1]
  BY <1>3, <1>4, <1>5
<1>7. p = (r - n) + q
  BY <1>3, <1>5, <1>6
<1>8. ASSUME NEW i \in 1..n PROVE cache'[i].key = new[(r - n) + i]
  <2>1. CASE i = n
    <3>1. (r - n) + i = r
      BY <1>1, <2>1
    <3>2. QED
      BY <1>2, <1>6, <2>1, <3>1
  <2>2. CASE i # n
    <3>1. /\ i \in 1..(n - 1) /\ (r - n) + i \in 1..(r - 1) /\ i + 1 \in 1..n /\ i \in 1..n
          /\ ((r - n) + i) + 1 = (r - n) + (i + 1)
          /\ ((r - n) + i < p) <=> (i < q)
      <4>1. n \in Nat /\ r \in Nat /\ n <= r /\ q \in 1..n
        BY <1>1, <1>2
      <4>2. QED
        BY <1>7, <2>2, <4>1
    <3>2. cache'[i] = (IF i < q THEN cache[i] ELSE cache[i + 1])
      BY <1>2, <3>1
    <3>3. new[(r - n) + i] = (IF i < q THEN recency[(r - n) + i] ELSE recency[(r - n) + (i + 1)])
      BY <1>6, <3>1
    <3>4. QED
      BY <1>1, <3>1, <3>2, <3>3
  <2>3. QED
    BY <2>1, <2>2
<1>9. QED
  BY <1>1, <1>2, <1>6, <1>8 DEF UsedLast
LEMMA EvictUsedLast ==
    ASSUME TypeInv, UsedLast, cache # <<>>, cache' = Tail(cache), recency' = recency,
           capacity' = capacity, Len(cache) > capacity,
           Limit = capacity + 1, Limit' = capacity
    PROVE  UsedLast'
<1> DEFINE n == Len(cache)
           r == Len(recency)
<1>1. /\ n \in Nat /\ r \in Nat /\ n <= r /\ capacity \in Nat
      /\ n = (IF r < capacity + 1 THEN r ELSE capacity + 1)
      /\ \A i \in 1..n : cache[i].key = recency[(r - n) + i]
  BY SizesAre
<1>2. /\ Len(cache') = n - 1 /\ n > capacity
      /\ \A i \in 1..(n - 1) : cache'[i] = cache[i + 1]
  BY EvictIs
<1> HIDE DEF n, r
<1>3. Len(cache') = IF r < capacity THEN r ELSE capacity
  <2>1. /\ n \in Nat /\ r \in Nat /\ capacity \in Nat /\ n > capacity /\ Len(cache') = n - 1
        /\ n = (IF r < capacity + 1 THEN r ELSE capacity + 1)
    BY <1>1, <1>2
  <2>2. QED
    BY <2>1
<1>4. ASSUME NEW i \in 1..Len(cache') PROVE cache'[i].key = recency[(r - Len(cache')) + i]
  <2>1. /\ i \in 1..(n - 1) /\ i + 1 \in 1..n
        /\ (r - Len(cache')) + i = (r - n) + (i + 1)
    <3>1. n \in Nat /\ r \in Nat /\ Len(cache') = n - 1
      BY <1>1, <1>2
    <3>2. QED
      BY <1>4, <3>1
  <2>2. QED
    BY <1>1, <1>2, <2>1
<1>5. QED
  BY <1>3, <1>4 DEF UsedLast, r

LEMMA StepSolo == TypeInv /\ SoloInv /\ [Next]_vars => SoloInv'
<1>1. SUFFICES ASSUME TypeInv, SoloInv, [Next]_vars, "concurrent_calls" \notin seen'
               PROVE  SoloInv'
  BY DEF SoloInv
<1>2. CASE UNCHANGED vars
  BY <1>1, <1>2 DEF SoloInv, NeverRaises, UsedLast, Limit, InCall, Has, KeysOf, vars, callVars
<1>3. CASE Finished
  BY <1>2, <1>3 DEF Finished
<1>4. CASE Reload
  <2>1. "concurrent_calls" \notin seen
    BY <1>1, <1>4 DEF Reload
  <2>2. QED
    BY <1>1, <1>4, <2>1 DEF Reload, SoloInv, NeverRaises, UsedLast, Limit, InCall, Has, KeysOf,
       callVars
<1>5. ASSUME NEW t \in Threads, Evaluate(t) PROVE SoloInv'
  <2> USE DEF Goto
  <2>1. /\ "concurrent_calls" \notin seen /\ capacity' = capacity /\ capacity \in Nat
        /\ \A u \in Threads : u # t => pc'[u] = pc[u] /\ key'[u] = key[u]
        /\ pc \in [Threads -> Labels] /\ key \in [Threads -> Keys] /\ recency \in Seq(Keys)
    <3>1. pc \in [Threads -> Labels] /\ key \in [Threads -> Keys] /\ recency \in Seq(Keys)
      BY <1>1 DEF TypeInv, TypeOK
    <3>2. capacity \in Nat
      BY <1>1, CapacitiesAssumption DEF TypeInv, TypeOK
    <3>3. "concurrent_calls" \notin seen /\ capacity' = capacity
      BY <1>1, <1>5 DEF Evaluate, Call, CheckSnapshot, Clear, SetId, Hit, Miss, Touch, Compute,
         Store, CheckSize, Evict
    <3>4. \A u \in Threads : u # t => pc'[u] = pc[u] /\ key'[u] = key[u]
      BY <1>5, <3>1 DEF Evaluate, Call, CheckSnapshot, Clear, SetId, Hit, Miss, Touch, Compute,
         Store, CheckSize, Evict, callVars
    <3>5. QED
      BY <3>1, <3>2, <3>3, <3>4
  <2>2. /\ \A u, v \in Threads : InCall(u) /\ InCall(v) => u = v
        /\ NeverRaises
        /\ \A u \in Threads : pc[u] = "touch" => Has(key[u])
        /\ \A u \in Threads :
              pc[u] \in {"compute", "store"} /\ capacity > 0 => ~Has(key[u])
        /\ \A u \in Threads : pc[u] = "evict" => Len(cache) > capacity
        /\ IsInjective(recency)
        /\ UsedLast
    BY <1>1, <2>1 DEF SoloInv
  <2>3. \A u \in Threads : u # t => pc[u] \in Between /\ pc'[u] \in Between
    <3>1. CASE Call(t)
      BY <1>1, <2>1, <3>1 DEF Call
    <3>2. CASE ~Call(t)
      <4>1. InCall(t)
        BY <1>5, <3>2 DEF Evaluate, CheckSnapshot, Clear, SetId, Hit, Miss, Touch, Compute,
           Store, CheckSize, Evict, InCall, Between
      <4>2. QED
        BY <2>1, <2>2, <4>1 DEF InCall
    <3>3. QED
      BY <3>1, <3>2
  <2>4. /\ \A u \in Threads : u # t => pc'[u] \notin {"touch", "compute", "store", "size", "evict"}
        /\ \A u \in Threads : u # t => pc[u] \notin {"touch", "compute", "store", "size", "evict"}
        /\ \A u \in Threads : u # t => pc'[u] # "raised"
    BY <2>1, <2>2, <2>3 DEF Between, NeverRaises
  <2>5. /\ Limit = IF pc[t] \in {"size", "evict"} THEN capacity + 1 ELSE capacity
        /\ Limit' = IF pc'[t] \in {"size", "evict"} THEN capacity + 1 ELSE capacity
    BY <2>1, <2>4 DEF Limit
  <2>6. \A u, v \in Threads : InCall(u)' /\ InCall(v)' => u = v
    BY <2>3 DEF InCall
  \* What is left is about the thread t alone.
  <2>7. ASSUME pc'[t] # "raised",
               pc'[t] = "touch" => Has(key[t])',
               pc'[t] \in {"compute", "store"} /\ capacity > 0 => ~Has(key[t])',
               pc'[t] = "evict" => Len(cache') > capacity,
               IsInjective(recency'), UsedLast'
        PROVE  SoloInv'
    BY <2>1, <2>4, <2>6, <2>7 DEF SoloInv, NeverRaises
  <2>8. ASSUME cache' = cache, recency' = recency, Limit' = Limit,
               \/ Call(t) \/ CheckSnapshot(t) \/ SetId(t) \/ Hit(t) \/ Miss(t)
               \/ Compute(t) \/ CheckSize(t)
        PROVE  SoloInv'
    <3>1. UsedLast'
      BY <2>2, <2>8 DEF UsedLast
    <3>2. \A k : Has(k)' <=> k \in Range(KeysOf(cache))
      BY <2>8 DEF Has
    <3>3. CASE Call(t) \/ CheckSnapshot(t) \/ SetId(t)
      BY <2>1, <2>2, <2>7, <2>8, <3>1, <3>3 DEF Call, CheckSnapshot, SetId
    <3>4. CASE Hit(t)
      BY <2>1, <2>2, <2>7, <2>8, <3>1, <3>2, <3>4 DEF Hit, Has
    <3>5. CASE Miss(t)
      BY <2>1, <2>2, <2>7, <2>8, <3>1, <3>2, <3>5 DEF Miss, Has, callVars
    <3>6. CASE Compute(t)
      BY <2>1, <2>2, <2>7, <2>8, <3>1, <3>2, <3>6 DEF Compute, Has
    <3>7. CASE CheckSize(t)
      BY <2>1, <2>2, <2>7, <2>8, <3>1, <3>7 DEF CheckSize
    <3>8. QED
      BY <2>8, <3>3, <3>4, <3>5, <3>6, <3>7
  <2>9. CASE Clear(t)
    <3>1. Len(<<>>) = 0 /\ DOMAIN <<>> = {}
      OBVIOUS
    <3>2. UsedLast' /\ IsInjective(recency')
      BY <2>1, <2>5, <2>9, <3>1 DEF Clear, UsedLast, IsInjective
    <3>3. QED
      BY <2>1, <2>7, <2>9, <3>2 DEF Clear
  <2>10. CASE Touch(t)
    <3>1. Has(key[t]) /\ pc[t] = "touch" /\ key[t] \in Keys
      BY <2>1, <2>2, <2>10 DEF Touch
    <3>2. pc'[t] = "done" /\ recency' = Used(key[t])
      BY <2>1, <2>10, <3>1 DEF Touch
    <3>3. UsedLast'
      BY <1>1, <2>2, <2>5, <2>10, <3>1, <3>2, TouchUsedLast
    <3>4. IsInjective(recency')
      BY <2>1, <2>2, <3>1, <3>2, UsedInjective
    <3>5. QED
      BY <2>7, <3>2, <3>3, <3>4
  <2>11. CASE Store(t)
    <3>1. pc[t] = "store" /\ key[t] \in Keys /\ pc'[t] = "size" /\ recency' = Used(key[t])
      BY <2>1, <2>11 DEF Store
    <3>2. ~Has(key[t])
      BY <1>1, <2>2, <3>1 DEF TypeInv, CallInv
    <3>3. UsedLast'
      BY <1>1, <2>2, <2>5, <2>11, <3>1, <3>2, StoreUsedLast
    <3>4. IsInjective(recency')
      BY <2>1, <2>2, <3>1, UsedInjective
    <3>5. QED
      BY <2>7, <3>1, <3>3, <3>4
  <2>12. CASE Evict(t)
    <3>1. pc[t] = "evict" /\ Len(cache) > capacity
      BY <2>2, <2>12 DEF Evict
    <3>2. cache # <<>>
      BY <2>1, <3>1
    <3>3. cache' = Tail(cache) /\ pc'[t] = "done" /\ recency' = recency
      BY <2>1, <2>12, <3>2 DEF Evict
    <3>4. UsedLast'
      BY <1>1, <2>1, <2>2, <2>5, <3>1, <3>2, <3>3, EvictUsedLast
    <3>5. QED
      BY <2>2, <2>7, <3>3, <3>4
  <2>13. CASE Call(t) \/ CheckSnapshot(t) \/ SetId(t) \/ Hit(t) \/ Miss(t) \/ Compute(t)
    <3>1. cache' = cache /\ recency' = recency
      BY <2>13 DEF Call, CheckSnapshot, SetId, Hit, Miss, Compute
    <3>2. pc[t] \notin {"size", "evict"} /\ pc'[t] \notin {"size", "evict"}
      BY <2>1, <2>13 DEF Call, CheckSnapshot, SetId, Hit, Miss, Compute, Between
    <3>3. QED
      BY <2>5, <2>8, <2>13, <3>1, <3>2
  <2>14. CASE CheckSize(t)
    <3>1. cache' = cache /\ recency' = recency /\ pc[t] = "size"
      BY <2>14 DEF CheckSize
    <3>2. CASE Len(cache) > capacity
      <4>1. pc'[t] = "evict"
        BY <2>1, <2>14, <3>2 DEF CheckSize
      <4>2. QED
        BY <2>5, <2>8, <2>14, <3>1, <4>1
    <3>3. CASE ~(Len(cache) > capacity)
      <4>1. pc'[t] = "done"
        BY <2>1, <2>14, <3>3 DEF CheckSize
      <4>2. Len(cache) = IF Len(recency) < capacity THEN Len(recency) ELSE capacity
        <5>1. /\ Len(cache) \in Nat /\ Len(recency) \in Nat /\ capacity \in Nat
              /\ Len(cache) = IF Len(recency) < Limit THEN Len(recency) ELSE Limit
              /\ Limit = capacity + 1
          BY <1>1, <2>2, <2>5, <3>1, SizesAre
        <5>2. QED
          BY <3>3, <5>1
      <4>3. UsedLast'
        BY <2>2, <2>5, <3>1, <4>1, <4>2 DEF UsedLast
      <4>4. QED
        BY <2>2, <2>7, <3>1, <4>1, <4>3
    <3>4. QED
      BY <3>2, <3>3
  <2>15. QED
    BY <1>5, <2>9, <2>10, <2>11, <2>12, <2>13, <2>14 DEF Evaluate
<1>6. QED
  BY <1>1, <1>2, <1>3, <1>4, <1>5 DEF Next

LEMMA SoloFollows == TypeInv /\ SoloInv => SoloIsLRU
<1>1. SUFFICES ASSUME TypeInv, SoloInv, "concurrent_calls" \notin seen
               PROVE  /\ NeverRaises
                      /\ Calling = {} =>
                           /\ KeysOf(cache) = SubSeq(recency, Len(recency) - Len(cache) + 1,
                                                     Len(recency))
                           /\ Len(cache) = IF Len(recency) < capacity THEN Len(recency)
                                                                     ELSE capacity
  BY DEF SoloIsLRU
<1>2. NeverRaises /\ UsedLast
  BY <1>1 DEF SoloInv
<1> DEFINE n == Len(cache)
           r == Len(recency)
           keys == [i \in 1..Len(cache) |-> cache[i].key]
           last == SubSeq(recency, r - n + 1, r)
<1>3. /\ n \in Nat /\ r \in Nat /\ n <= r
      /\ \A i \in 1..n : cache[i].key = recency[(r - n) + i]
      /\ n = IF r < Limit THEN r ELSE Limit
  BY <1>1, <1>2, SizesAre
<1>4. keys \in Seq(Keys) /\ Len(keys) = n /\ KeysOf(cache) = keys
  <2>1. \A i \in 1..Len(cache) : cache[i].key \in Keys
    BY <1>1, EntryIs DEF TypeInv
  <2>2. keys \in [1..n -> Keys]
    BY <2>1
  <2>3. KeysOf(cache) = keys
    BY DEF KeysOf
  <2> HIDE DEF keys
  <2>4. QED
    BY <1>3, <2>2, <2>3, FunctionIsSeq
<1>5. \A i \in 1..n : keys[i] = recency[(r - n) + i]
  BY <1>3
<1>6. recency \in Seq(Keys)
  BY <1>1 DEF TypeInv, TypeOK
<1>7. /\ last \in Seq(Keys) /\ Len(last) = n
      /\ \A i \in 1..n : last[i] = recency[(r - n) + i]
  <2>1. \A i \in (r - n + 1)..r : recency[i] \in Keys
    <3>1. \A i \in 1..r : recency[i] \in Keys
      BY <1>6, ElementOfSeq
    <3> HIDE DEF n, r
    <3>2. \A i \in (r - n + 1)..r : i \in 1..r
      BY <1>3
    <3>3. QED
      BY <3>1, <3>2
  <2> HIDE DEF n, r
  <2>2. r - n + 1 \in Int /\ r \in Int
    BY <1>3
  <2>3. /\ last \in Seq(Keys)
        /\ Len(last) = IF r - n + 1 <= r THEN r - (r - n + 1) + 1 ELSE 0
        /\ \A i \in 1..(r - (r - n + 1) + 1) : last[i] = recency[(r - n + 1) + i - 1]
    BY <2>1, <2>2, SubSeqProperties
  <2> HIDE DEF last
  <2>4. r - (r - n + 1) + 1 = n /\ \A i \in 1..n : (r - n + 1) + i - 1 = (r - n) + i
    BY <1>3
  <2>5. Len(last) = n
    BY <1>3, <2>3
  <2>6. QED
    BY <2>3, <2>4, <2>5
<1>8. KeysOf(cache) = last
  <2> HIDE DEF n, r, keys, last
  <2>1. keys = last
    BY <1>4, <1>5, <1>7, SeqEqual
  <2>2. QED
    BY <1>4, <2>1
<1>9. Calling = {} => Limit = capacity
  BY DEF Calling, Limit, Between
<1>10. QED
  BY <1>2, <1>3, <1>8, <1>9

\* Without concurrent calls the cache is what it was designed to be: evaluate()
\* does not raise, and between calls the cache holds exactly the `capacity` keys
\* used last since it was cleared, through evictions, reloads and whatever
\* addresses the snapshots get.
THEOREM SoloIsLRUHolds == Spec => []SoloIsLRU
<1>1. Init => SoloInv
  <2>1. SUFFICES ASSUME Init PROVE SoloInv
    OBVIOUS
  <2>2. Len(cache) = 0 /\ Len(recency) = 0 /\ IsInjective(recency) /\ capacity \in Nat
    BY <2>1, CapacitiesAssumption DEF Init, IsInjective
  <2>3. UsedLast
    BY <2>1, <2>2 DEF Init, UsedLast, Limit
  <2>4. QED
    BY <2>1, <2>2, <2>3 DEF Init, SoloInv, NeverRaises, InCall, Between
<1>2. TypeInv /\ SoloInv /\ [Next]_vars => SoloInv'
  BY StepSolo
<1>3. TypeInv /\ SoloInv => SoloIsLRU
  BY SoloFollows
<1>4. QED
  BY <1>1, <1>2, <1>3, TypeInvariant, PTL DEF Spec
=============================================================================
