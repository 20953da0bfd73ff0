--------------------------- MODULE AuditRows_proofs ---------------------------
(***************************************************************************)
(* The rows of AuditLogger: no record is in two places, how many rows the  *)
(* table holds, that the writes of the logger are those of a storage       *)
(* backend, and that the table is the trail of the accepted records.  For  *)
(* every set of requests and clients, every queue and batch size and every *)
(* value of the bounds.                                                    *)
(***************************************************************************)
EXTENDS AuditLogger_proofs, FiniteSetTheorems

-----------------------------------------------------------------------------
(* No record is in two places.  A record goes from its thread to a callback *)
(* or straight to the queue, to the writer's batch, and from there into the *)
(* open transaction, the table or the reported losses.                      *)

Before(r) == pc[r] \in {"idle", "admitted", "building"}

Queued == Range(queue) \ {STOP}
Held == Range(batch) \ {STOP}
Stored == Persisted \cup Range(pending) \cup failed

\* The places are disjoint; a batch may have left rows behind only once it
\* was written.
ApartInv ==
    /\ \A r \in Records : Before(r) => r \notin Range(callbacks) \cup Queued \cup Held \cup Stored
    /\ Range(callbacks) \cap (Queued \cup Held \cup Stored) = {}
    /\ Queued \cap (Held \cup Stored) = {}
    /\ writer = "writing" => Held \cap Stored = {}
    /\ writer = "raised" => Held \cap (Persisted \cup failed) = {}

\* And no place holds a record twice.
QueueIsDistinct ==
    \A i, j \in 1..Len(queue) : queue[i] = queue[j] /\ queue[i] # STOP => i = j

DistinctInv ==
    /\ IsInjective(callbacks)
    /\ QueueIsDistinct
    /\ IsInjective(batch)
    /\ batch # <<>> => batch[1] # STOP
    /\ IsInjective(table \o pending)

OnceInv == ApartInv /\ DistinctInv

LEMMA InitOnce == Init => OnceInv
<1> SUFFICES ASSUME Init PROVE OnceInv
  OBVIOUS
<1>1. /\ callbacks = <<>> /\ queue = <<>> /\ batch = <<>> /\ table = <<>> /\ pending = <<>>
      /\ failed = {} /\ writer = "none"
  BY DEF Init
<1>2. Queued = {} /\ Held = {} /\ Stored = {} /\ Range(callbacks) = {}
  BY <1>1, RangeOfEmpty DEF Queued, Held, Stored, Persisted
<1>3. table \o pending = <<>>
  BY <1>1, ConcatEmptySeq, EmptySeq
<1>4. IsInjective(callbacks) /\ IsInjective(batch) /\ IsInjective(table \o pending)
  BY <1>1, <1>3, EmptyIsInjective
<1>5. QueueIsDistinct
  BY <1>1, EmptySeq DEF QueueIsDistinct
<1>6. QED
  BY <1>1, <1>2, <1>4, <1>5 DEF OnceInv, ApartInv, DistinctInv

\* A thread, or a client, never goes back to where it had no record yet.
LEMMA BeforeShrinks ==
    ASSUME TypeInv, [Next]_vars
    PROVE  \A r \in Records : Before(r)' => Before(r)
<1> USE DEF requestVars, sinkVars, loggerVars, backendVars, outcomeVars, boundVars
<1>a. /\ pc \in [Records -> {"idle", "admitted", "building", "done", "joining",
                             "joined", "assured", "refused", "stranded", "gone"}]
      /\ Requests \subseteq Records /\ Clients \subseteq Records
  BY DEF TypeInv, TypeOK, Records
<1>1. ASSUME NEW r \in Requests, RequestStep(r)
      PROVE  \A q \in Records : Before(q)' => Before(q)
  BY <1>1, <1>a
     DEF RequestStep, Admit, FallBack, SeesLoop, BuildFails, HandOff, Goto, Before
<1>2. ASSUME NEW c \in Clients, ClientStep(c)
      PROVE  \A q \in Records : Before(q)' => Before(q)
  BY <1>2, <1>a DEF ClientStep, LogAndFlush, FlushReturns, Goto, Before
<1>3. CASE LogNowait \/ ExecutorStep \/ CollectBatch \/ StopStep \/ Finished \/ UNCHANGED vars
  BY <1>3
     DEF LogNowait, ExecutorStep, Commit, WriteFails, CollectBatch, StopStep, PutStop,
         JoinWriter, CloseBackend, Finished, vars, Before
<1>4. CASE TakeStop \/ FlushSucceeds \/ FlushFails \/ BeginStop
  BY <1>4, TaskDoneMoves DEF TakeStop, FlushSucceeds, FlushFails, AfterFlush, BeginStop, Before
<1>5. CASE StartStep \/ Crash
  BY <1>5, <1>a DEF StartStep, BeginStart, ConnectSucceeds, ConnectFails, Crash, Before
<1>6. QED
  BY <1>1, <1>2, <1>3, <1>4, <1>5 DEF Next, WriterStep

\* A step that at most moves records from the batch into storage, or forgets
\* them, keeps the places apart.
LEMMA ApartShrinks ==
    ASSUME ApartInv,
           \A r \in Records : Before(r)' => Before(r),
           Range(callbacks') \subseteq Range(callbacks),
           Queued' \subseteq Queued,
           Held' \cup Stored' \subseteq Held \cup Stored,
           writer' = "writing" => Held' \cap Stored' = {},
           writer' = "raised" => Held' \cap (Persisted' \cup failed') = {}
    PROVE  ApartInv'
<1>1. \A r \in Records :
         Before(r)' => r \notin Range(callbacks') \cup Queued' \cup Held' \cup Stored'
  BY DEF ApartInv
<1>2. Range(callbacks') \cap (Queued' \cup Held' \cup Stored') = {}
  BY DEF ApartInv
<1>3. Queued' \cap (Held' \cup Stored') = {}
  BY DEF ApartInv
<1>4. QED
  BY <1>1, <1>2, <1>3 DEF ApartInv

\* The rows of a batch are items of it.
LEMMA RowsOfBatch ==
    ASSUME TypeInv, DistinctInv
    PROVE  /\ RecordsOf(batch) \in Seq(Records) /\ Len(RecordsOf(batch)) \in Nat
           /\ Range(RecordsOf(batch)) \subseteq Held
           /\ IsInjective(RecordsOf(batch))
           /\ batch # <<>> => RecordsOf(batch) # <<>>
<1>1. RecordsOf(batch) \in Seq(Records) /\ batch \in Seq(Items)
  BY RecordsOfType DEF TypeInv, TypeOK, StopEndsBatch
<1>2. CASE batch # <<>> /\ Last(batch) = STOP
  <2>1. Len(batch) \in Nat /\ Len(batch) >= 1 /\ Len(batch) - 1 \in 0..Len(batch)
    BY <1>1, <1>2, EmptySeq, LenProperties
  <2>2. RecordsOf(batch) = SubSeq(batch, 1, Len(batch) - 1)
    BY <1>2 DEF RecordsOf, Front
  <2>3. /\ Len(RecordsOf(batch)) = Len(batch) - 1
        /\ Range(RecordsOf(batch)) \subseteq Range(batch)
        /\ IsInjective(batch) => IsInjective(RecordsOf(batch))
    BY <1>1, <2>1, <2>2, PrefixIs
  <2>4. Len(batch) # 1
    BY <1>2 DEF Last, DistinctInv
  <2>5. RecordsOf(batch) # <<>>
    BY <2>1, <2>3, <2>4, EmptySeq
  <2>6. QED
    BY <1>1, <2>3, <2>5, LenProperties, RangeOfSeq, SentinelAssumption DEF Held, DistinctInv
<1>3. CASE ~(batch # <<>> /\ Last(batch) = STOP)
  <2>1. RecordsOf(batch) = batch
    BY <1>3 DEF RecordsOf
  <2>2. QED
    BY <1>1, <2>1, LenProperties, RangeOfSeq, SentinelAssumption DEF Held, DistinctInv
<1>4. QED
  BY <1>2, <1>3

\* A write that returns leaves the table with the leftovers and the batch.
LEMMA CommitRows ==
    ASSUME TypeInv, DistinctInv, Commit
    PROVE  /\ table' = (table \o pending) \o RecordsOf(batch)
           /\ table \in Seq(Records) /\ pending \in Seq(Records)
           /\ table \o pending \in Seq(Records)
           /\ Persisted' = Persisted \cup Range(pending) \cup Range(RecordsOf(batch))
           /\ pending' = <<>> /\ Range(pending') = {}
<1>1. /\ table \in Seq(Records) /\ pending \in Seq(Records)
      /\ table \o pending \in Seq(Records)
  BY ConcatProperties DEF TypeInv, TypeOK
<1>2. table' = (table \o pending) \o RecordsOf(batch) /\ pending' = <<>>
  BY DEF Commit
<1>3. Range(table \o pending) = Range(table) \cup Range(pending)
  BY <1>1, RangeConcatenation
<1>4. Range((table \o pending) \o RecordsOf(batch))
        = Range(table \o pending) \cup Range(RecordsOf(batch))
  BY <1>1, RowsOfBatch, RangeConcatenation
<1>5. Range(pending') = {}
  BY <1>2, RangeOfEmpty
<1>6. QED
  BY <1>1, <1>2, <1>3, <1>4, <1>5 DEF Persisted

\* A write that raises leaves some first rows of the batch in the open
\* transaction, or takes everything out of it.
LEMMA WriteFailsRows ==
    ASSUME TypeInv, DistinctInv, WriteFails
    PROVE  \/ \E k \in 0..Len(RecordsOf(batch)) :
                /\ pending' = pending \o SubSeq(RecordsOf(batch), 1, k)
                /\ SubSeq(RecordsOf(batch), 1, k) \in Seq(Records)
                /\ Len(SubSeq(RecordsOf(batch), 1, k)) = k
                /\ IsInjective(SubSeq(RecordsOf(batch), 1, k))
                /\ Range(SubSeq(RecordsOf(batch), 1, k)) \subseteq Range(RecordsOf(batch))
                /\ Range(pending') = Range(pending) \cup Range(SubSeq(RecordsOf(batch), 1, k))
           \/ pending' = <<>> /\ Range(pending') = {}
<1>1. CASE pending' = <<>>
  BY <1>1, RangeOfEmpty
<1>2. ASSUME NEW k \in 0..Len(RecordsOf(batch)),
             pending' = pending \o SubSeq(RecordsOf(batch), 1, k)
      PROVE  /\ SubSeq(RecordsOf(batch), 1, k) \in Seq(Records)
             /\ Len(SubSeq(RecordsOf(batch), 1, k)) = k
             /\ IsInjective(SubSeq(RecordsOf(batch), 1, k))
             /\ Range(SubSeq(RecordsOf(batch), 1, k)) \subseteq Range(RecordsOf(batch))
             /\ Range(pending') = Range(pending) \cup Range(SubSeq(RecordsOf(batch), 1, k))
  <2> DEFINE rows == RecordsOf(batch)
             part == SubSeq(rows, 1, k)
  <2>1. rows \in Seq(Records) /\ IsInjective(rows)
    BY RowsOfBatch
  <2>2. k \in 0..Len(rows)
    BY <1>2
  <2> HIDE DEF rows
  <2>3. /\ part \in Seq(Records) /\ Len(part) = k /\ IsInjective(part)
        /\ Range(part) \subseteq Range(rows)
    BY <2>1, <2>2, PrefixIs
  <2> HIDE DEF part
  <2>4. pending \in Seq(Records)
    BY DEF TypeInv, TypeOK
  <2>5. Range(pending \o part) = Range(pending) \cup Range(part)
    BY <2>3, <2>4, RangeConcatenation
  <2>6. pending' = pending \o part
    BY <1>2 DEF part, rows
  <2>7. QED
    BY <2>3, <2>5, <2>6 DEF part, rows
<1>3. QED
  BY <1>1, <1>2 DEF WriteFails

LEMMA NextApart == TypeInv /\ OnceInv /\ [Next]_vars => ApartInv'
<1> SUFFICES ASSUME TypeInv, ApartInv, DistinctInv, [Next]_vars PROVE ApartInv'
  BY DEF OnceInv
<1> USE DEF requestVars, sinkVars, loggerVars, backendVars, outcomeVars, boundVars
<1>a. /\ queue \in Seq(Items) /\ batch \in Seq(Items) /\ callbacks \in Seq(Requests)
      /\ pc \in [Records -> {"idle", "admitted", "building", "done", "joining",
                             "joined", "assured", "refused", "stranded", "gone"}]
      /\ \A r \in Requests : r \in Records /\ r \in Items /\ r # STOP
      /\ \A c \in Clients : c \in Records /\ c \in Items /\ c # STOP
      /\ STOP \in Items
  BY SentinelAssumption DEF TypeInv, TypeOK, Records, Items
<1>b. \A r \in Records : Before(r)' => Before(r)
  BY BeforeShrinks
<1>c. Range(RecordsOf(batch)) \subseteq Held
  BY RowsOfBatch
<1>1. ASSUME NEW r \in Requests, RequestStep(r) PROVE ApartInv'
  <2>1. /\ UNCHANGED <<queue, batch, table, pending, failed, writer>>
        /\ Queued' = Queued /\ Held' = Held /\ Stored' = Stored /\ Persisted' = Persisted
    BY <1>1
       DEF RequestStep, Admit, FallBack, SeesLoop, BuildFails, HandOff, Queued, Held,
           Stored, Persisted
  <2>2. CASE UNCHANGED callbacks
    BY <1>b, <2>1, <2>2 DEF ApartInv
  <2>3. CASE HandOff(r)
    <3>1. Range(callbacks') = Range(callbacks) \cup {r}
      BY <1>a, <2>3, AppendRange DEF HandOff
    <3>2. Before(r) /\ ~Before(r)' /\ r \in Records
      BY <1>a, <2>3 DEF HandOff, Goto, Before
    <3>3. r \notin Queued \cup Held \cup Stored
      BY <3>2 DEF ApartInv
    <3>4. \A q \in Records :
             Before(q)' => q \notin Range(callbacks') \cup Queued \cup Held \cup Stored
      BY <1>b, <3>1, <3>2 DEF ApartInv
    <3>5. QED
      BY <2>1, <3>1, <3>3, <3>4 DEF ApartInv
  <2>4. QED
    BY <1>1, <2>2, <2>3 DEF RequestStep, Admit, FallBack, SeesLoop, BuildFails
<1>2. ASSUME NEW c \in Clients, LogAndFlush(c) PROVE ApartInv'
  <2>1. /\ UNCHANGED <<callbacks, batch, table, pending, failed, writer>>
        /\ Held' = Held /\ Stored' = Stored /\ Persisted' = Persisted
    BY <1>2 DEF LogAndFlush, Held, Stored, Persisted
  <2>2. Queued' = Queued \cup {c}
    BY <1>a, <1>2, AppendRange DEF LogAndFlush, Put, Queued
  <2>3. Before(c) /\ ~Before(c)' /\ c \in Records
    BY <1>a, <1>2 DEF LogAndFlush, Goto, Before
  <2>4. c \notin Range(callbacks) \cup Held \cup Stored
    BY <2>3 DEF ApartInv
  <2>5. \A q \in Records :
           Before(q)' => q \notin Range(callbacks) \cup Queued' \cup Held \cup Stored
    BY <1>b, <2>2, <2>3 DEF ApartInv
  <2>6. QED
    BY <2>1, <2>2, <2>4, <2>5 DEF ApartInv
<1>3. ASSUME NEW c \in Clients, FlushReturns(c) PROVE ApartInv'
  BY <1>3, <1>b DEF FlushReturns, ApartInv, Queued, Held, Stored, Persisted
<1>4. CASE LogNowait
  <2>1. /\ UNCHANGED <<pc, batch, table, pending, failed, writer>>
        /\ Held' = Held /\ Stored' = Stored /\ Persisted' = Persisted
    BY <1>4 DEF LogNowait, Held, Stored, Persisted
  <2>2. /\ Range(callbacks) = {Head(callbacks)} \cup Range(callbacks')
        /\ Head(callbacks) \in Requests
    BY <1>4, <1>a, HeadRange DEF LogNowait
  <2>3. Head(callbacks) \notin Range(callbacks')
    BY <1>4, <1>a, InjectiveTail DEF LogNowait, DistinctInv
  <2>4. Queued' \subseteq Queued \cup {Head(callbacks)}
    <3>1. CASE UNCHANGED queue
      BY <3>1 DEF Queued
    <3>2. CASE queue' = Append(queue, Head(callbacks))
      BY <1>a, <2>2, <3>2, AppendRange DEF Queued
    <3>3. QED
      BY <1>4, <3>1, <3>2 DEF LogNowait, Put
  <2>5. \A q \in Records :
           Before(q)' => q \notin Range(callbacks') \cup Queued' \cup Held \cup Stored
    BY <1>b, <2>2, <2>4 DEF ApartInv
  <2>6. QED
    BY <2>1, <2>2, <2>3, <2>4, <2>5 DEF ApartInv
<1>5. CASE Commit
  <2>1. Persisted' = Persisted \cup Range(pending) \cup Range(RecordsOf(batch)) /\ Range(pending') = {}
    BY <1>5, CommitRows
  <2>2. /\ UNCHANGED <<callbacks, queue, batch, failed>> /\ writer' = "wrote"
        /\ Queued' = Queued /\ Held' = Held
    BY <1>5 DEF Commit, Queued, Held
  <2>3. QED
    BY <1>b, <1>c, <2>1, <2>2, ApartShrinks DEF Stored
<1>6. CASE WriteFails
  <2>1. Range(pending') \subseteq Range(pending) \cup Range(RecordsOf(batch))
    BY <1>6, WriteFailsRows
  <2>2. /\ UNCHANGED <<callbacks, queue, batch, failed>> /\ writer' = "raised"
        /\ Queued' = Queued /\ Held' = Held /\ Persisted' = Persisted
        /\ Held \cap Stored = {}
    BY <1>6 DEF WriteFails, Queued, Held, Persisted, ApartInv
  <2>3. QED
    BY <1>b, <1>c, <2>1, <2>2, ApartShrinks DEF Stored
<1>7. CASE CollectBatch
  <2>1. Range(queue) = Range(batch') \cup Range(queue') /\ Range(batch) = {}
    <3>1. Range(queue) = Range(batch') \cup Range(queue')
      BY <1>7, CollectSplits, RangeConcatenation
    <3>2. QED
      BY <1>7, <3>1, CollectSplits, RangeOfEmpty
  <2>2. /\ UNCHANGED <<pc, callbacks, table, pending, failed>> /\ writer' = "writing"
        /\ Stored' = Stored /\ Persisted' = Persisted
    BY <1>7 DEF CollectBatch, Stored, Persisted
  <2>3. Queued' \cup Held' = Queued /\ Held = {}
    BY <2>1 DEF Queued, Held
  <2>4. Queued' \cap Held' = {}
    <3>1. /\ DOMAIN batch' = 1..Len(batch') /\ Len(batch') \in Nat /\ Len(queue') \in Nat
          /\ Len(queue) = Len(batch') + Len(queue')
          /\ \A i \in 1..Len(batch') : queue[i] = batch'[i]
          /\ \A i \in 1..Len(queue') : queue[Len(batch') + i] = queue'[i]
      BY <1>7, CollectSplits, ConcatIs
    <3>2. /\ Range(batch') = {batch'[i] : i \in 1..Len(batch')}
          /\ Range(queue') = {queue'[i] : i \in 1..Len(queue')}
      BY <1>7, CollectSplits, RangeEquality
    <3> SUFFICES ASSUME NEW i \in 1..Len(batch'), NEW j \in 1..Len(queue'),
                        batch'[i] = queue'[j], batch'[i] # STOP
                 PROVE  FALSE
      BY <3>2 DEF Queued, Held
    <3>3. i \in 1..Len(queue) /\ Len(batch') + j \in 1..Len(queue) /\ i # Len(batch') + j
      BY <3>1
    <3>4. queue[i] = queue[Len(batch') + j] /\ queue[i] # STOP
      BY <3>1
    <3>5. QED
      BY <3>3, <3>4 DEF DistinctInv, QueueIsDistinct
  <2>5. QED
    BY <1>b, <2>2, <2>3, <2>4 DEF ApartInv
<1>8. CASE TakeStop
  <2>1. Queued' \subseteq Queued
    BY <1>8, <1>a, HeadRange DEF TakeStop, Queued
  <2>2. /\ UNCHANGED <<callbacks, batch, table, pending, failed>> /\ writer' = "exited"
        /\ Held' = Held /\ Stored' = Stored
    BY <1>8 DEF TakeStop, Held, Stored, Persisted
  <2>3. QED
    BY <1>b, <2>1, <2>2, ApartShrinks
<1>9. CASE FlushSucceeds
  <2>1. /\ UNCHANGED <<callbacks, queue, table, pending, failed>> /\ batch' = <<>>
        /\ writer' \in {"exited", "collecting"}
        /\ Queued' = Queued /\ Stored' = Stored
    BY <1>9 DEF FlushSucceeds, AfterFlush, Queued, Stored, Persisted
  <2>2. Held' = {}
    BY <2>1, RangeOfEmpty DEF Held
  <2>3. QED
    BY <1>b, <2>1, <2>2, ApartShrinks
<1>10. CASE FlushFails
  <2>1. /\ UNCHANGED <<callbacks, queue, table, pending>> /\ batch' = <<>>
        /\ failed' = failed \cup Range(RecordsOf(batch))
        /\ writer' \in {"exited", "collecting"}
        /\ Queued' = Queued
    BY <1>10 DEF FlushFails, AfterFlush, Queued
  <2>2. Held' = {}
    BY <2>1, RangeOfEmpty DEF Held
  <2>3. Stored' \subseteq Stored \cup Held
    BY <2>1, <1>c DEF Stored, Persisted
  <2>4. QED
    BY <1>b, <2>1, <2>2, <2>3, ApartShrinks
<1>11. CASE StartStep \/ BeginStop
  <2>1. UNCHANGED <<callbacks, batch, table, pending, failed>>
    BY <1>11 DEF StartStep, BeginStart, ConnectSucceeds, ConnectFails, BeginStop
  <2>2. UNCHANGED queue \/ (queue' = <<>>)
    BY <1>11 DEF StartStep, BeginStart, ConnectSucceeds, ConnectFails, BeginStop
  <2>3. Queued' \subseteq Queued
    BY <2>2, RangeOfEmpty DEF Queued
  <2>4. writer' \in {"writing", "raised"} => writer' = writer
    BY <1>11 DEF StartStep, BeginStart, ConnectSucceeds, ConnectFails, BeginStop
  <2>5. Held' = Held /\ Stored' = Stored /\ Persisted' = Persisted
    BY <2>1 DEF Held, Stored, Persisted
  <2>6. writer' = "writing" => Held' \cap Stored' = {}
    BY <2>4, <2>5 DEF ApartInv
  <2>7. writer' = "raised" => Held' \cap (Persisted' \cup failed') = {}
    BY <2>1, <2>4, <2>5 DEF ApartInv
  <2>8. QED
    BY <1>b, <2>1, <2>3, <2>5, <2>6, <2>7, ApartShrinks
<1>12. CASE PutStop
  <2>1. Queued' = Queued
    BY <1>12, <1>a, AppendRange DEF PutStop, Put, Queued
  <2>2. UNCHANGED <<pc, callbacks, batch, table, pending, failed, writer>>
    BY <1>12 DEF PutStop
  <2>3. QED
    BY <1>b, <2>1, <2>2 DEF ApartInv, Held, Stored, Persisted
<1>13. CASE JoinWriter
  <2>1. UNCHANGED <<pc, callbacks, queue, batch, table, pending, failed>> /\ writer' = "none"
    BY <1>13 DEF JoinWriter
  <2>2. QED
    BY <1>b, <2>1 DEF ApartInv, Queued, Held, Stored, Persisted
<1>14. CASE CloseBackend
  <2>1. /\ UNCHANGED <<callbacks, queue, batch, table, failed>> /\ pending' = <<>>
        /\ writer' = "none"
    BY <1>14 DEF CloseBackend, TypeInv, WriterLives
  <2>2. Range(pending') = {}
    BY <2>1, RangeOfEmpty
  <2>3. QED
    BY <1>b, <2>1, <2>2, ApartShrinks DEF Queued, Held, Stored, Persisted
<1>15. CASE Crash
  <2>1. /\ callbacks' = <<>> /\ queue' = <<>> /\ batch' = <<>> /\ pending' = <<>>
        /\ writer' = "none" /\ UNCHANGED <<table, failed>>
    BY <1>15 DEF Crash
  <2>2. Range(callbacks') = {} /\ Queued' = {} /\ Held' = {} /\ Range(pending') = {}
    BY <2>1, RangeOfEmpty DEF Queued, Held
  <2>3. QED
    BY <1>b, <2>1, <2>2, ApartShrinks DEF Stored, Persisted
<1>16. CASE Finished \/ UNCHANGED vars
  BY <1>16, <1>b DEF Finished, vars, ApartInv, Queued, Held, Stored, Persisted
<1>17. QED
  BY <1>1, <1>2, <1>3, <1>4, <1>5, <1>6, <1>7, <1>8, <1>9, <1>10, <1>11, <1>12, <1>13,
     <1>14, <1>15, <1>16
     DEF Next, ClientStep, ExecutorStep, WriterStep, StopStep

\* An item that is not queued keeps the queue distinct; so does the sentinel.
LEMMA QueueAppends ==
    ASSUME TypeInv, QueueIsDistinct, NEW x \in Items, x \notin Queued,
           queue' = Append(queue, x)
    PROVE  QueueIsDistinct'
<1>1. /\ Len(queue) \in Nat /\ Len(queue') = Len(queue) + 1
      /\ \A i \in 1..Len(queue) : queue'[i] = queue[i]
      /\ queue'[Len(queue) + 1] = x
      /\ Range(queue) = {queue[i] : i \in 1..Len(queue)}
  <2>1. queue \in Seq(Items)
    BY DEF TypeInv, TypeOK
  <2>2. QED
    BY <2>1, AppendProperties, LenProperties, RangeEquality
<1>2. SUFFICES ASSUME NEW i \in 1..(Len(queue) + 1), NEW j \in 1..(Len(queue) + 1),
                      queue'[i] = queue'[j], queue'[i] # STOP
               PROVE  i = j
  BY <1>1 DEF QueueIsDistinct
<1>3. (i \in 1..Len(queue) \/ i = Len(queue) + 1) /\ (j \in 1..Len(queue) \/ j = Len(queue) + 1)
  BY <1>1
<1>4. \A k \in 1..Len(queue) : queue[k] = x => x = STOP
  BY <1>1 DEF Queued
<1>5. QED
  BY <1>1, <1>2, <1>3, <1>4 DEF QueueIsDistinct

LEMMA NextDistinct == TypeInv /\ OnceInv /\ [Next]_vars => DistinctInv'
<1> SUFFICES ASSUME TypeInv, ApartInv, DistinctInv, [Next]_vars PROVE DistinctInv'
  BY DEF OnceInv
<1> USE DEF requestVars, sinkVars, loggerVars, backendVars, outcomeVars, boundVars
<1>a. /\ queue \in Seq(Items) /\ batch \in Seq(Items) /\ callbacks \in Seq(Requests)
      /\ Len(queue) \in Nat /\ table \in Seq(Records) /\ pending \in Seq(Records)
      /\ \A r \in Requests : r \in Records /\ r \in Items /\ r # STOP
      /\ \A c \in Clients : c \in Records /\ c \in Items /\ c # STOP
      /\ STOP \in Items
  BY SentinelAssumption, LenProperties DEF TypeInv, TypeOK, Records, Items
<1>b. \A s : s = <<>> => IsInjective(s)
  BY EmptyIsInjective
<1>c. IsInjective(table)
  BY <1>a, InjectiveParts DEF DistinctInv
<1>d. queue' = <<>> => QueueIsDistinct'
  BY EmptySeq DEF QueueIsDistinct
<1>1. ASSUME NEW r \in Requests, RequestStep(r) PROVE DistinctInv'
  <2>1. UNCHANGED <<queue, batch, table, pending>>
    BY <1>1 DEF RequestStep, Admit, FallBack, SeesLoop, BuildFails, HandOff
  <2>2. IsInjective(callbacks')
    <3>1. CASE UNCHANGED callbacks
      BY <3>1 DEF DistinctInv
    <3>2. CASE HandOff(r)
      <4>1. Before(r)
        BY <3>2 DEF HandOff, Before
      <4>2. r \notin Range(callbacks)
        BY <1>a, <4>1 DEF ApartInv
      <4>3. QED
        BY <1>a, <3>2, <4>2, InjectiveAppend DEF HandOff, DistinctInv
    <3>3. QED
      BY <1>1, <3>1, <3>2 DEF RequestStep, Admit, FallBack, SeesLoop, BuildFails
  <2>3. QED
    BY <2>1, <2>2 DEF DistinctInv, QueueIsDistinct
<1>2. ASSUME NEW c \in Clients, LogAndFlush(c) PROVE DistinctInv'
  <2>1. Before(c)
    BY <1>2 DEF LogAndFlush, Before
  <2>2. c \notin Queued
    BY <1>a, <2>1 DEF ApartInv
  <2>3. QueueIsDistinct'
    BY <1>a, <1>2, <2>2, QueueAppends DEF LogAndFlush, Put, DistinctInv
  <2>4. QED
    BY <1>2, <2>3 DEF LogAndFlush, DistinctInv
<1>3. ASSUME NEW c \in Clients, FlushReturns(c) PROVE DistinctInv'
  BY <1>3 DEF FlushReturns, DistinctInv, QueueIsDistinct
<1>4. CASE LogNowait
  <2>1. UNCHANGED <<batch, table, pending>>
    BY <1>4 DEF LogNowait
  <2>2. IsInjective(callbacks')
    BY <1>4, <1>a, InjectiveTail DEF LogNowait, DistinctInv
  <2>3. Head(callbacks) \in Requests /\ Head(callbacks) \in Range(callbacks)
    BY <1>4, <1>a, HeadRange DEF LogNowait
  <2>4. Head(callbacks) \notin Queued /\ Head(callbacks) \in Items
    BY <1>a, <2>3 DEF ApartInv
  <2>5. QueueIsDistinct'
    <3>1. CASE UNCHANGED queue
      BY <3>1 DEF DistinctInv, QueueIsDistinct
    <3>2. CASE queue' = Append(queue, Head(callbacks))
      BY <2>4, <3>2, QueueAppends DEF DistinctInv
    <3>3. QED
      BY <1>4, <3>1, <3>2 DEF LogNowait, Put
  <2>6. QED
    BY <2>1, <2>2, <2>5 DEF DistinctInv
<1>5. CASE Commit
  <2>1. Range(table \o pending) \cap Range(RecordsOf(batch)) = {}
    <3>1. Range(table \o pending) = Persisted \cup Range(pending)
      BY <1>a, RangeConcatenation DEF Persisted
    <3>2. Held \cap Stored = {}
      BY <1>5 DEF Commit, ApartInv
    <3>3. QED
      BY <3>1, <3>2, RowsOfBatch DEF Stored
  <2>2. IsInjective((table \o pending) \o RecordsOf(batch))
    <3> DEFINE rows == table \o pending
               new == RecordsOf(batch)
    <3>1. /\ rows \in Seq(Records) /\ new \in Seq(Records)
          /\ IsInjective(rows) /\ IsInjective(new) /\ Range(rows) \cap Range(new) = {}
      BY <1>5, <2>1, CommitRows, RowsOfBatch DEF DistinctInv
    <3> HIDE DEF rows, new
    <3>2. IsInjective(rows \o new)
      BY <3>1, InjectiveConcat
    <3>3. QED
      BY <3>2 DEF rows, new
  <2>3. table' \o pending' = (table \o pending) \o RecordsOf(batch)
    <3>1. table' \in Seq(Records)
      BY <1>5, CommitRows, RowsOfBatch, ConcatProperties
    <3>2. table' \o <<>> = table'
      BY <3>1, ConcatEmptySeq
    <3>3. QED
      BY <1>5, <3>2, CommitRows
  <2>4. UNCHANGED <<callbacks, queue, batch>>
    BY <1>5 DEF Commit
  <2>5. IsInjective(table' \o pending')
    BY <2>2, <2>3
  <2>6. QED
    BY <2>4, <2>5 DEF DistinctInv, QueueIsDistinct
<1>6. CASE WriteFails
  <2>1. UNCHANGED <<callbacks, queue, batch, table>> /\ Held \cap Stored = {}
    BY <1>6 DEF WriteFails, ApartInv
  <2>2. IsInjective(table \o pending')
    <3>1. ASSUME NEW k \in 0..Len(RecordsOf(batch)),
                 pending' = pending \o SubSeq(RecordsOf(batch), 1, k),
                 SubSeq(RecordsOf(batch), 1, k) \in Seq(Records),
                 IsInjective(SubSeq(RecordsOf(batch), 1, k)),
                 Range(SubSeq(RecordsOf(batch), 1, k)) \subseteq Range(RecordsOf(batch))
          PROVE  IsInjective(table \o pending')
      <4> DEFINE part == SubSeq(RecordsOf(batch), 1, k)
                 rows == table \o pending
      <4>1. /\ part \in Seq(Records) /\ IsInjective(part) /\ pending' = pending \o part
            /\ Range(part) \subseteq Held
        BY <3>1, RowsOfBatch
      <4> HIDE DEF part
      <4>2. rows \in Seq(Records) /\ Range(rows) = Persisted \cup Range(pending)
        BY <1>a, ConcatProperties, RangeConcatenation DEF Persisted
      <4>3. IsInjective(rows) /\ Range(rows) \cap Range(part) = {}
        BY <2>1, <4>1, <4>2 DEF DistinctInv, Stored
      <4>4. rows \o part = table \o (pending \o part)
        BY <1>a, <4>1, ConcatAssociative
      <4> HIDE DEF rows
      <4>5. IsInjective(rows \o part)
        BY <4>1, <4>2, <4>3, InjectiveConcat
      <4>6. QED
        BY <4>1, <4>4, <4>5
    <3>2. CASE pending' = <<>>
      BY <1>a, <1>c, <3>2, ConcatEmptySeq
    <3>3. QED
      BY <1>6, <3>1, <3>2, WriteFailsRows
  <2>3. QED
    BY <2>1, <2>2 DEF DistinctInv, QueueIsDistinct
<1>7. CASE CollectBatch
  <2>1. PICK n \in 1..Len(queue) :
           /\ batch' = SubSeq(queue, 1, n) /\ queue' = SubSeq(queue, n + 1, Len(queue))
           /\ \A i \in 1..(n - 1) : queue[i] # STOP
    BY <1>7 DEF CollectBatch
  <2>2. batch' \in Seq(Items) /\ Len(batch') = n /\ \A i \in 1..n : batch'[i] = queue[i]
    BY <1>a, <2>1, SubSeqType
  <2>3. /\ Len(queue') = Len(queue) - n
        /\ \A i \in 1..Len(queue') : queue'[i] = queue[i + n]
    BY <1>a, <2>1, SubSeqType
  <2>4. QueueIsDistinct'
    <3> SUFFICES ASSUME NEW i \in 1..Len(queue'), NEW j \in 1..Len(queue'),
                        queue'[i] = queue'[j], queue'[i] # STOP
                 PROVE  i = j
      BY DEF QueueIsDistinct
    <3>1. /\ i + n \in 1..Len(queue) /\ j + n \in 1..Len(queue)
          /\ queue'[i] = queue[i + n] /\ queue'[j] = queue[j + n]
      BY <1>a, <2>3
    <3>2. i + n = j + n
      BY <3>1 DEF DistinctInv, QueueIsDistinct
    <3>3. i \in Int /\ j \in Int /\ n \in Int
      OBVIOUS
    <3>4. QED
      BY <3>2, <3>3
  <2>5. IsInjective(batch')
    <3>1. DOMAIN batch' = 1..n
      BY <2>2, LenProperties
    <3> SUFFICES ASSUME NEW i \in 1..n, NEW j \in 1..n, queue[i] = queue[j]
                 PROVE  i = j
      BY <2>2, <3>1 DEF IsInjective
    <3>2. i \in 1..Len(queue) /\ j \in 1..Len(queue)
      BY <1>a
    <3>3. CASE queue[i] # STOP
      BY <3>2, <3>3 DEF DistinctInv, QueueIsDistinct
    <3>4. CASE queue[i] = STOP
      <4>1. i \notin 1..(n - 1) /\ j \notin 1..(n - 1)
        BY <2>1, <3>4
      <4>2. n \in Nat
        BY <1>a
      <4>3. QED
        BY <4>1, <4>2
    <3>5. QED
      BY <3>3, <3>4
  <2>6. batch'[1] # STOP
    BY <1>7, <2>2 DEF CollectBatch
  <2>7. UNCHANGED <<callbacks, table, pending>>
    BY <1>7 DEF CollectBatch
  <2>8. QED
    BY <2>4, <2>5, <2>6, <2>7 DEF DistinctInv
<1>8. CASE TakeStop
  <2>1. /\ Len(queue') = Len(queue) - 1
        /\ \A i \in 1..Len(queue') : queue'[i] = queue[i + 1]
    BY <1>8, <1>a, HeadTailProperties DEF TakeStop
  <2>2. QueueIsDistinct'
    <3> SUFFICES ASSUME NEW i \in 1..Len(queue'), NEW j \in 1..Len(queue'),
                        queue'[i] = queue'[j], queue'[i] # STOP
                 PROVE  i = j
      BY DEF QueueIsDistinct
    <3>1. /\ i + 1 \in 1..Len(queue) /\ j + 1 \in 1..Len(queue)
          /\ queue'[i] = queue[i + 1] /\ queue'[j] = queue[j + 1]
      BY <1>a, <2>1
    <3>2. i + 1 = j + 1
      BY <3>1 DEF DistinctInv, QueueIsDistinct
    <3>3. i \in Int /\ j \in Int
      OBVIOUS
    <3>4. QED
      BY <3>2, <3>3
  <2>3. UNCHANGED <<callbacks, batch, table, pending>>
    BY <1>8 DEF TakeStop
  <2>4. QED
    BY <2>2, <2>3 DEF DistinctInv
<1>9. CASE FlushSucceeds \/ FlushFails
  <2>1. UNCHANGED <<callbacks, queue, table, pending>> /\ batch' = <<>>
    BY <1>9 DEF FlushSucceeds, FlushFails, AfterFlush
  <2>2. QED
    BY <1>b, <2>1 DEF DistinctInv, QueueIsDistinct
<1>10. CASE StartStep \/ BeginStop
  <2>1. /\ UNCHANGED <<callbacks, batch, table, pending>>
        /\ UNCHANGED queue \/ queue' = <<>>
    BY <1>10 DEF StartStep, BeginStart, ConnectSucceeds, ConnectFails, BeginStop
  <2>2. QueueIsDistinct'
    BY <1>d, <2>1 DEF DistinctInv, QueueIsDistinct
  <2>3. QED
    BY <2>1, <2>2 DEF DistinctInv
<1>11. CASE PutStop
  <2>1. QueueIsDistinct'
    BY <1>11, <1>a, QueueAppends DEF PutStop, Put, Queued, DistinctInv
  <2>2. QED
    BY <1>11, <2>1 DEF PutStop, DistinctInv
<1>12. CASE JoinWriter \/ Finished \/ UNCHANGED vars
  BY <1>12 DEF JoinWriter, Finished, vars, DistinctInv, QueueIsDistinct
<1>13. CASE CloseBackend \/ Crash
  <2>1. IsInjective(table' \o pending')
    <3>1. table' = table /\ pending' = <<>>
      BY <1>13 DEF CloseBackend, Crash
    <3>2. QED
      BY <1>a, <1>c, <3>1, ConcatEmptySeq
  <2>2. \/ UNCHANGED <<callbacks, queue, batch>>
        \/ callbacks' = <<>> /\ queue' = <<>> /\ batch' = <<>>
    <3>1. CASE CloseBackend
      BY <3>1 DEF CloseBackend
    <3>2. CASE Crash
      BY <3>2 DEF Crash
    <3>3. QED
      BY <1>13, <3>1, <3>2
  <2>3. QueueIsDistinct'
    BY <1>d, <2>2 DEF DistinctInv, QueueIsDistinct
  <2>4. QED
    BY <1>b, <2>1, <2>2, <2>3 DEF DistinctInv
<1>14. QED
  BY <1>1, <1>2, <1>3, <1>4, <1>5, <1>6, <1>7, <1>8, <1>9, <1>10, <1>11, <1>12, <1>13
     DEF Next, ClientStep, ExecutorStep, WriterStep, StopStep

LEMMA AlwaysOnceInv == Spec => []OnceInv
<1>1. TypeInv /\ OnceInv /\ [Next]_vars => OnceInv'
  BY NextApart, NextDistinct DEF OnceInv
<1>2. QED
  BY <1>1, InitOnce, AlwaysTypeInv, PTL DEF Spec

-----------------------------------------------------------------------------
(* How many rows there are.  The table is ahead of `written` by the rows    *)
(* that a later commit carried along, all of them reported lost, and, from  *)
(* the commit to the count, by the batch.                                   *)

\* What is left in the open transaction was reported lost, or is about to be.
LeftoversInv ==
    Range(pending) \subseteq failed \cup (IF writer = "raised" THEN Range(RecordsOf(batch)) ELSE {})

RowsInv ==
    crashes = 0 =>
        Len(table) = (written + Cardinality(failed \cap Persisted))
                       + (IF writer = "wrote" THEN Len(RecordsOf(batch)) ELSE 0)

\* The steps that touch neither the rows nor what is known of them.
LEMMA RowsStutter ==
    ASSUME UNCHANGED <<table, pending, failed, written, batch, crashes>>,
           writer' = "wrote" <=> writer = "wrote",
           writer' = "raised" <=> writer = "raised"
    PROVE  /\ LeftoversInv => LeftoversInv'
           /\ RowsInv => RowsInv'
BY DEF LeftoversInv, RowsInv, RecordsOf, Last, Front, Persisted

\* The steps outside the writer and the executor, but for those that close
\* the connection or end the process, are such steps.
LEMMA RowsUntouched ==
    ASSUME TypeInv, [Next]_vars,
           ~(ExecutorStep \/ WriterStep \/ CloseBackend \/ Crash)
    PROVE  /\ UNCHANGED <<table, pending, failed, written, batch, crashes>>
           /\ writer' = "wrote" <=> writer = "wrote"
           /\ writer' = "raised" <=> writer = "raised"
<1> USE DEF requestVars, sinkVars, loggerVars, backendVars, outcomeVars, boundVars
<1>1. ASSUME NEW r \in Requests, RequestStep(r)
      PROVE  UNCHANGED <<table, pending, failed, written, batch, crashes, writer>>
  BY <1>1 DEF RequestStep, Admit, FallBack, SeesLoop, BuildFails, HandOff
<1>2. ASSUME NEW c \in Clients, ClientStep(c)
      PROVE  UNCHANGED <<table, pending, failed, written, batch, crashes, writer>>
  BY <1>2 DEF ClientStep, LogAndFlush, FlushReturns
<1>3. CASE LogNowait \/ BeginStart \/ ConnectFails \/ BeginStop \/ PutStop \/ Finished \/ UNCHANGED vars
  BY <1>3 DEF LogNowait, BeginStart, ConnectFails, BeginStop, PutStop, Finished, vars
<1>4. CASE ConnectSucceeds
  BY <1>4 DEF ConnectSucceeds, TypeInv, WriterLives
<1>5. CASE JoinWriter
  BY <1>5 DEF JoinWriter
<1>6. QED
  BY <1>1, <1>2, <1>3, <1>4, <1>5 DEF Next, StartStep, StopStep

LEMMA NextLeftovers == TypeInv /\ OnceInv /\ LeftoversInv /\ [Next]_vars => LeftoversInv'
<1> SUFFICES ASSUME TypeInv, DistinctInv, LeftoversInv, [Next]_vars PROVE LeftoversInv'
  BY DEF OnceInv
<1> USE DEF requestVars, sinkVars, loggerVars, backendVars, outcomeVars, boundVars
<1>1. CASE Commit
  <2>1. Range(pending') = {}
    BY <1>1, CommitRows
  <2>2. QED
    BY <2>1 DEF LeftoversInv
<1>2. CASE WriteFails
  <2>1. Range(pending') \subseteq Range(pending) \cup Range(RecordsOf(batch))
    BY <1>2, WriteFailsRows
  <2>2. UNCHANGED <<failed, batch>> /\ writer = "writing" /\ writer' = "raised"
    BY <1>2 DEF WriteFails
  <2>3. RecordsOf(batch)' = RecordsOf(batch)
    BY <2>2 DEF RecordsOf, Last, Front
  <2>4. QED
    BY <2>1, <2>2, <2>3 DEF LeftoversInv
<1>3. CASE CollectBatch \/ TakeStop \/ FlushSucceeds
  <2>1. UNCHANGED <<failed, pending>> /\ writer # "raised"
    BY <1>3 DEF CollectBatch, TakeStop, FlushSucceeds
  <2>2. QED
    BY <2>1 DEF LeftoversInv
<1>4. CASE FlushFails
  <2>1. UNCHANGED pending /\ failed' = failed \cup Range(RecordsOf(batch)) /\ writer = "raised"
    BY <1>4 DEF FlushFails
  <2>2. QED
    BY <2>1 DEF LeftoversInv
<1>5. CASE CloseBackend \/ Crash
  <2>1. Range(pending') = {}
    <3>1. pending' = <<>>
      BY <1>5 DEF CloseBackend, Crash
    <3>2. QED
      BY <3>1, RangeOfEmpty
  <2>2. QED
    BY <2>1 DEF LeftoversInv
<1>6. CASE ~(ExecutorStep \/ WriterStep \/ CloseBackend \/ Crash)
  BY <1>6, RowsUntouched, RowsStutter
<1>7. QED
  BY <1>1, <1>2, <1>3, <1>4, <1>5, <1>6 DEF ExecutorStep, WriterStep

\* Two finite sets without a common member.
LEMMA SizesAdd ==
    ASSUME NEW S, NEW T, IsFiniteSet(S), IsFiniteSet(T), S \cap T = {}
    PROVE  Cardinality(S \cup T) = Cardinality(S) + Cardinality(T)
<1>1. Cardinality(S \cup T) = Cardinality(S) + Cardinality(T) - Cardinality(S \cap T)
  BY FS_Union
<1>2. Cardinality(S \cap T) = 0
  BY FS_EmptySet
<1>3. Cardinality(S) \in Nat /\ Cardinality(T) \in Nat
  BY FS_CardinalityType
<1>4. QED
  BY <1>1, <1>2, <1>3

LEMMA NextRows == TypeInv /\ OnceInv /\ LeftoversInv /\ RowsInv /\ [Next]_vars => RowsInv'
<1> SUFFICES ASSUME TypeInv, ApartInv, DistinctInv, LeftoversInv, RowsInv, [Next]_vars,
                    crashes' = 0
             PROVE  RowsInv'
  BY DEF OnceInv, RowsInv
<1> USE DEF requestVars, sinkVars, loggerVars, backendVars, outcomeVars, boundVars
<1>a. IsFiniteSet(failed \cap Persisted) /\ Cardinality(failed \cap Persisted) \in Nat
  <2>1. IsFiniteSet(Persisted)
    BY SizeOfRange DEF TypeInv, TypeOK, Persisted
  <2>2. IsFiniteSet(failed \cap Persisted)
    BY <2>1, FS_Intersection
  <2>3. QED
    BY <2>2, FS_CardinalityType
<1>b. /\ Range(RecordsOf(batch)) \subseteq Held /\ Len(RecordsOf(batch)) \in Nat
      /\ written \in Nat /\ Len(table) \in Nat
  BY RowsOfBatch, LenProperties DEF TypeInv, TypeOK
<1>1. CASE Commit
  <2>1. /\ UNCHANGED <<failed, batch, written, crashes>>
        /\ writer = "writing" /\ writer' = "wrote"
    BY <1>1 DEF Commit
  <2>2. Range(pending) \subseteq failed /\ Range(RecordsOf(batch)) \cap failed = {}
    BY <2>1, <1>b DEF LeftoversInv, ApartInv, Stored
  <2>3. Persisted' = Persisted \cup Range(pending) \cup Range(RecordsOf(batch))
    BY <1>1, CommitRows
  <2>4. failed' \cap Persisted' = (failed \cap Persisted) \cup Range(pending)
    BY <2>1, <2>2, <2>3
  <2>5. Range(table) \cap Range(pending) = {} /\ IsInjective(pending)
    <3>1. table \in Seq(Records) /\ pending \in Seq(Records) /\ IsInjective(table \o pending)
      BY <1>1, CommitRows DEF DistinctInv
    <3>2. Range(table) \cap Range(pending) = {}
      BY <3>1, InjectiveParts
    <3>3. IsInjective(pending)
      <4>1. /\ DOMAIN pending = 1..Len(pending) /\ Len(table) \in Nat /\ Len(pending) \in Nat
            /\ DOMAIN (table \o pending) = 1..(Len(table) + Len(pending))
            /\ \A i \in 1..Len(pending) : (table \o pending)[Len(table) + i] = pending[i]
        BY <3>1, ConcatIs
      <4> SUFFICES ASSUME NEW i \in 1..Len(pending), NEW j \in 1..Len(pending),
                          pending[i] = pending[j]
                   PROVE  i = j
        BY <4>1 DEF IsInjective
      <4>2. /\ Len(table) + i \in DOMAIN (table \o pending)
            /\ Len(table) + j \in DOMAIN (table \o pending)
        BY <4>1
      <4>3. Len(table) + i = Len(table) + j
        BY <3>1, <4>1, <4>2 DEF IsInjective
      <4>4. i \in Int /\ j \in Int
        OBVIOUS
      <4>5. QED
        BY <4>1, <4>3, <4>4
    <3>4. QED
      BY <3>2, <3>3
  <2>6. /\ IsFiniteSet(Range(pending)) /\ Cardinality(Range(pending)) = Len(pending)
        /\ Len(pending) \in Nat
    BY <2>5, SizeOfRange, LenProperties DEF TypeInv, TypeOK
  <2>7. Cardinality(failed' \cap Persisted') = Cardinality(failed \cap Persisted) + Len(pending)
    <3>1. (failed \cap Persisted) \cap Range(pending) = {}
      BY <2>5 DEF Persisted
    <3>2. Cardinality((failed \cap Persisted) \cup Range(pending))
            = Cardinality(failed \cap Persisted) + Cardinality(Range(pending))
      BY <1>a, <2>6, <3>1, SizesAdd
    <3>3. QED
      BY <2>4, <2>6, <3>2
  <2>8. Len(table') = (Len(table) + Len(pending)) + Len(RecordsOf(batch))
    <3>1. Len(table \o pending) = Len(table) + Len(pending)
      BY <1>1, CommitRows, ConcatIs
    <3>2. Len((table \o pending) \o RecordsOf(batch))
            = Len(table \o pending) + Len(RecordsOf(batch))
      BY <1>1, CommitRows, RowsOfBatch, ConcatIs
    <3>3. QED
      BY <1>1, <3>1, <3>2, CommitRows
  <2>9. Len(RecordsOf(batch)') = Len(RecordsOf(batch))
    BY <2>1 DEF RecordsOf, Last, Front
  <2>10. Len(table) = written + Cardinality(failed \cap Persisted)
    BY <1>a, <1>b, <2>1 DEF RowsInv
  <2>11. Len(table') = (written + Cardinality(failed' \cap Persisted')) + Len(RecordsOf(batch)')
    BY <1>a, <1>b, <2>6, <2>7, <2>8, <2>9, <2>10
  <2>12. QED
    BY <2>1, <2>11 DEF RowsInv
<1>2. CASE WriteFails
  BY <1>2 DEF WriteFails, RowsInv, Persisted
<1>3. CASE CollectBatch \/ TakeStop
  BY <1>3 DEF CollectBatch, TakeStop, RowsInv, Persisted
<1>4. CASE FlushSucceeds
  <2>1. /\ UNCHANGED <<table, failed, crashes>> /\ Persisted' = Persisted
        /\ written' = written + Len(RecordsOf(batch))
        /\ writer = "wrote" /\ writer' # "wrote"
    BY <1>4 DEF FlushSucceeds, AfterFlush, Persisted
  <2>2. Len(table) = (written + Cardinality(failed \cap Persisted)) + Len(RecordsOf(batch))
    BY <2>1 DEF RowsInv
  <2>3. Len(table) = (written' + Cardinality(failed \cap Persisted)) + 0
    BY <1>a, <1>b, <2>1, <2>2
  <2>4. QED
    BY <2>1, <2>3 DEF RowsInv
<1>5. CASE FlushFails
  <2>1. /\ UNCHANGED <<table, written, crashes>> /\ Persisted' = Persisted
        /\ failed' = failed \cup Range(RecordsOf(batch))
        /\ writer = "raised" /\ writer' # "wrote"
    BY <1>5 DEF FlushFails, AfterFlush, Persisted
  <2>2. failed' \cap Persisted = failed \cap Persisted
    BY <1>b, <2>1 DEF ApartInv
  <2>3. QED
    BY <2>1, <2>2 DEF RowsInv
<1>6. CASE CloseBackend
  BY <1>6 DEF CloseBackend, RowsInv, TypeInv, WriterLives, Persisted
<1>7. CASE Crash
  BY <1>7 DEF Crash, TypeInv, TypeOK
<1>8. CASE ~(ExecutorStep \/ WriterStep \/ CloseBackend \/ Crash)
  BY <1>8, RowsUntouched, RowsStutter
<1>9. QED
  BY <1>1, <1>2, <1>3, <1>4, <1>5, <1>6, <1>7, <1>8 DEF ExecutorStep, WriterStep

\* While no crash has reset the counter, the committed rows are those counted
\* by `written` and the leftovers of failed batches that a later commit took
\* along, each once, however often writes fail and the logger is restarted.
THEOREM RowsAreAccountedFor == Spec => []RowsAccountedFor
<1>1. Init => LeftoversInv /\ RowsInv
  <2> SUFFICES ASSUME Init PROVE LeftoversInv /\ RowsInv
    OBVIOUS
  <2>1. table = <<>> /\ pending = <<>> /\ failed = {} /\ written = 0 /\ writer = "none"
    BY DEF Init
  <2>2. Range(pending) = {} /\ Len(table) = 0
    BY <2>1, RangeOfEmpty, EmptySeq
  <2>3. Cardinality(failed \cap Persisted) = 0
    BY <2>1, FS_EmptySet
  <2>4. QED
    BY <2>1, <2>2, <2>3 DEF LeftoversInv, RowsInv
<1>2. TypeInv /\ RowsInv => RowsAccountedFor
  <2> SUFFICES ASSUME TypeInv, RowsInv, crashes = 0, writer # "wrote"
               PROVE  Len(table) = written + Cardinality(failed \cap Persisted)
    BY DEF RowsAccountedFor
  <2>1. IsFiniteSet(Persisted)
    BY SizeOfRange DEF TypeInv, TypeOK, Persisted
  <2>2. Cardinality(failed \cap Persisted) \in Nat
    BY <2>1, FS_Intersection, FS_CardinalityType
  <2>3. written \in Nat
    BY DEF TypeInv, TypeOK
  <2>4. Len(table) = (written + Cardinality(failed \cap Persisted)) + 0
    BY DEF RowsInv
  <2>5. QED
    BY <2>2, <2>3, <2>4
<1>3. QED
  BY <1>1, <1>2, NextLeftovers, NextRows, AlwaysTypeInv, AlwaysOnceInv, PTL DEF Spec

-----------------------------------------------------------------------------
(* The writes of the logger are those of a storage backend.                 *)

\* The operators of the modules that AuditBackend extends are those extended here.
LEMMA SameOperators ==
    /\ \A s, t : Backend!IsStrictPrefix(s, t) <=> IsStrictPrefix(s, t)
    /\ \A s : Backend!IsInjective(s) <=> IsInjective(s)
BY Zenon DEF Backend!IsStrictPrefix, Backend!IsPrefix, IsStrictPrefix, IsPrefix,
   Backend!IsInjective, IsInjective

\* No row is in the table and in the open transaction, nor twice in either.
RowsOnce == IsInjective(table \o pending)

LEMMA CommitReturns ==
    ASSUME TypeInv, OnceInv, RowsOnce', Commit
    PROVE  Backend!Next
<1>1. /\ table \o pending \in Seq(Records) /\ RecordsOf(batch) \in Seq(Records)
      /\ table' = (table \o pending) \o RecordsOf(batch) /\ pending' = <<>>
  BY CommitRows, RowsOfBatch DEF OnceInv
<1>2. RecordsOf(batch) # <<>>
  BY RowsOfBatch DEF Commit, OnceInv, TypeInv, Accounting
<1>3. IsStrictPrefix(table \o pending, (table \o pending) \o RecordsOf(batch))
  <2> DEFINE rows == table \o pending
             new == RecordsOf(batch)
  <2>1. rows \in Seq(Records) /\ new \in Seq(Records) /\ new # <<>>
    BY <1>1, <1>2
  <2> HIDE DEF rows, new
  <2>2. IsStrictPrefix(rows, rows \o new)
    BY <2>1, ConcatPrefix
  <2>3. QED
    BY <2>2 DEF rows, new
<1>4. Backend!WriteReturns
  BY <1>1, <1>3, SameOperators DEF Backend!WriteReturns
<1>5. QED
  BY <1>4, SameOperators DEF Backend!Next, RowsOnce

LEMMA FailRaises ==
    ASSUME TypeInv, OnceInv, RowsOnce', WriteFails
    PROVE  [Backend!Next]_(Backend!vars)
<1>1. pending \in Seq(Records) /\ table' = table
  BY DEF TypeInv, TypeOK, WriteFails
<1>2. CASE pending' = <<>>
  BY <1>1, <1>2, SameOperators DEF Backend!Next, Backend!Lose, RowsOnce
<1>3. ASSUME NEW k \in 0..Len(RecordsOf(batch)),
             pending' = pending \o SubSeq(RecordsOf(batch), 1, k),
             SubSeq(RecordsOf(batch), 1, k) \in Seq(Records),
             Len(SubSeq(RecordsOf(batch), 1, k)) = k
      PROVE  [Backend!Next]_(Backend!vars)
  <2> DEFINE part == SubSeq(RecordsOf(batch), 1, k)
  <2>1. part \in Seq(Records) /\ pending' = pending \o part
    BY <1>3
  <2> HIDE DEF part
  <2>2. CASE part = <<>>
    <3>1. pending' = pending
      BY <1>1, <2>1, <2>2, ConcatEmptySeq
    <3>2. QED
      BY <1>1, <3>1 DEF Backend!vars
  <2>3. CASE part # <<>>
    <3>1. IsStrictPrefix(pending, pending')
      BY <1>1, <2>1, <2>3, ConcatPrefix
    <3>2. QED
      BY <1>1, <3>1, SameOperators DEF Backend!Next, Backend!WriteRaises, RowsOnce
  <2>4. QED
    BY <2>2, <2>3
<1>4. QED
  BY <1>2, <1>3, WriteFailsRows DEF OnceInv

\* Every step of the logger is a write, a loss, or none of the backend's
\* business: the table only grows, in one piece with what was carried, and no
\* row is written twice.
THEOREM KeepsTheBackendHolds == Spec => KeepsTheBackend
<1> USE DEF requestVars, sinkVars, loggerVars, backendVars, outcomeVars, boundVars
<1>1. Init => Backend!Init
  BY DEF Init, Backend!Init
<1>2. OnceInv => RowsOnce
  BY DEF OnceInv, DistinctInv, RowsOnce
<1>3. TypeInv /\ OnceInv /\ RowsOnce' /\ [Next]_vars => [Backend!Next]_(Backend!vars)
  <2> SUFFICES ASSUME TypeInv, OnceInv, RowsOnce', [Next]_vars
               PROVE  [Backend!Next]_(Backend!vars)
    OBVIOUS
  <2>1. CASE Commit
    BY <2>1, CommitReturns
  <2>2. CASE WriteFails
    BY <2>2, FailRaises
  <2>3. CASE CloseBackend \/ Crash
    <3>1. table' = table /\ pending' = <<>>
      BY <2>3 DEF CloseBackend, Crash
    <3>2. QED
      BY <3>1, SameOperators DEF Backend!Next, Backend!Lose, RowsOnce
  <2>4. CASE WriterStep
    BY <2>4
       DEF WriterStep, CollectBatch, TakeStop, FlushSucceeds, FlushFails, Backend!vars
  <2>5. CASE ~(ExecutorStep \/ WriterStep \/ CloseBackend \/ Crash)
    BY <2>5, RowsUntouched DEF Backend!vars
  <2>6. QED
    BY <2>1, <2>2, <2>3, <2>4, <2>5 DEF ExecutorStep
<1>4. QED
  BY <1>1, <1>2, <1>3, AlwaysTypeInv, AlwaysOnceInv, PTL DEF Spec, KeepsTheBackend, Backend!Spec

-----------------------------------------------------------------------------
(* The table is the trail of the accepted records: in their order, with     *)
(* gaps.  What is stored was accepted before what the batch holds, and that *)
(* before what is queued.                                                   *)

\* a was accepted before b, when acc are the records accepted.
Earlier(acc, a, b) == \E i, j \in 1..Len(acc) : i < j /\ acc[i] = a /\ acc[j] = b

Ordered(acc, s) == \A i, j \in 1..Len(s) : i < j => Earlier(acc, s[i], s[j])

Precedes(acc, A, B) == \A a \in A, b \in B : Earlier(acc, a, b)

\* A record that is not in the queue yet was not accepted.
NotAcceptedYet ==
    \A r \in Records : Before(r) \/ r \in Range(callbacks) => r \notin Range(accepted)

Places == Persisted \cup Range(pending) \cup Held \cup Queued

QueueInOrder ==
    \A i, j \in 1..Len(queue) :
        i < j /\ queue[i] # STOP /\ queue[j] # STOP => Earlier(accepted, queue[i], queue[j])

OrderInv ==
    /\ Places \subseteq Range(accepted)
    /\ Ordered(accepted, table \o pending)
    /\ Ordered(accepted, RecordsOf(batch))
    /\ QueueInOrder
    /\ Precedes(accepted, Persisted \cup Range(pending) \cup Held, Queued)
    /\ writer = "writing" => Precedes(accepted, Persisted \cup Range(pending), Held)

\* What was accepted earlier stays so, and a new record is later than all.
LEMMA EarlierGrows ==
    ASSUME NEW acc \in Seq(Records), NEW x \in Records
    PROVE  /\ Range(Append(acc, x)) = Range(acc) \cup {x}
           /\ \A a, b : Earlier(acc, a, b) => Earlier(Append(acc, x), a, b)
           /\ \A a \in Range(acc) : Earlier(Append(acc, x), a, x)
<1> DEFINE new == Append(acc, x)
<1>1. /\ Len(acc) \in Nat /\ Len(new) = Len(acc) + 1
      /\ \A i \in 1..Len(acc) : new[i] = acc[i]
      /\ new[Len(acc) + 1] = x
      /\ Range(acc) = {acc[i] : i \in 1..Len(acc)}
  BY AppendProperties, LenProperties, RangeEquality
<1>2. Range(new) = Range(acc) \cup {x}
  BY AppendRange
<1> HIDE DEF new
<1>3. /\ \A i \in 1..Len(acc) : i \in 1..Len(new) /\ i < Len(acc) + 1
      /\ Len(acc) + 1 \in 1..Len(new)
  BY <1>1
<1>4. ASSUME NEW a, NEW b, Earlier(acc, a, b) PROVE Earlier(new, a, b)
  <2>1. PICK i \in 1..Len(acc), j \in 1..Len(acc) : i < j /\ acc[i] = a /\ acc[j] = b
    BY <1>4 DEF Earlier
  <2>2. i \in 1..Len(new) /\ j \in 1..Len(new) /\ new[i] = a /\ new[j] = b
    BY <1>1, <1>3, <2>1
  <2>3. QED
    BY <2>1, <2>2 DEF Earlier
<1>5. ASSUME NEW a \in Range(acc) PROVE Earlier(new, a, x)
  <2>1. PICK i \in 1..Len(acc) : acc[i] = a
    BY <1>1
  <2>2. /\ i \in 1..Len(new) /\ new[i] = a /\ i < Len(acc) + 1
        /\ Len(acc) + 1 \in 1..Len(new) /\ new[Len(acc) + 1] = x
    BY <1>1, <1>3, <2>1
  <2>3. QED
    BY <2>2 DEF Earlier
<1>6. QED
  BY <1>2, <1>4, <1>5 DEF new

\* One ordered sequence of records after another.
LEMMA OrderedConcat ==
    ASSUME NEW acc, NEW S, NEW s \in Seq(S), NEW t \in Seq(S), Ordered(acc, s), Ordered(acc, t),
           Precedes(acc, Range(s), Range(t))
    PROVE  Ordered(acc, s \o t)
<1>1. /\ Len(s) \in Nat /\ Len(t) \in Nat /\ Len(s \o t) = Len(s) + Len(t)
      /\ \A i \in 1..Len(s) : (s \o t)[i] = s[i] /\ s[i] \in Range(s)
      /\ \A i \in 1..Len(t) : (s \o t)[Len(s) + i] = t[i] /\ t[i] \in Range(t)
  BY ConcatIs, RangeEquality
<1> SUFFICES ASSUME NEW i \in 1..(Len(s) + Len(t)), NEW j \in 1..(Len(s) + Len(t)), i < j
             PROVE  Earlier(acc, (s \o t)[i], (s \o t)[j])
  BY <1>1 DEF Ordered
<1>2. CASE j \in 1..Len(s)
  <2>1. i \in 1..Len(s)
    BY <1>1, <1>2
  <2>2. QED
    BY <1>1, <1>2, <2>1 DEF Ordered
<1>3. CASE i \in 1..Len(s) /\ j \notin 1..Len(s)
  <2>1. j - Len(s) \in 1..Len(t) /\ Len(s) + (j - Len(s)) = j
    BY <1>1, <1>3
  <2>2. (s \o t)[j] = t[j - Len(s)] /\ t[j - Len(s)] \in Range(t)
    BY <1>1, <2>1
  <2>3. QED
    BY <1>1, <1>3, <2>2 DEF Precedes
<1>4. CASE i \notin 1..Len(s)
  <2>1. /\ i - Len(s) \in 1..Len(t) /\ Len(s) + (i - Len(s)) = i
        /\ j - Len(s) \in 1..Len(t) /\ Len(s) + (j - Len(s)) = j
        /\ i - Len(s) < j - Len(s)
    BY <1>1, <1>4
  <2>2. (s \o t)[i] = t[i - Len(s)] /\ (s \o t)[j] = t[j - Len(s)]
    BY <1>1, <2>1
  <2>3. QED
    BY <2>1, <2>2 DEF Ordered
<1>5. QED
  BY <1>2, <1>3, <1>4

LEMMA OrderedPrefix ==
    ASSUME NEW acc, NEW S, NEW s \in Seq(S), NEW t \in Seq(S), Ordered(acc, s \o t)
    PROVE  Ordered(acc, s)
<1>1. /\ Len(s) \in Nat /\ Len(t) \in Nat /\ Len(s \o t) = Len(s) + Len(t)
      /\ \A i \in 1..Len(s) : (s \o t)[i] = s[i]
  BY ConcatIs
<1>2. \A i \in 1..Len(s) : i \in 1..Len(s \o t)
  BY <1>1
<1>3. QED
  BY <1>1, <1>2 DEF Ordered

LEMMA InitOrder == Init => OrderInv /\ NotAcceptedYet
<1> SUFFICES ASSUME Init PROVE OrderInv /\ NotAcceptedYet
  OBVIOUS
<1>1. /\ queue = <<>> /\ batch = <<>> /\ table = <<>> /\ pending = <<>> /\ accepted = <<>>
      /\ writer = "none"
  BY DEF Init
<1>2. /\ Queued = {} /\ Held = {} /\ Persisted = {} /\ Range(pending) = {}
      /\ Range(accepted) = {}
  BY <1>1, RangeOfEmpty DEF Queued, Held, Persisted
<1>3. table \o pending = <<>> /\ RecordsOf(batch) = <<>>
  BY <1>1, ConcatEmptySeq, EmptySeq DEF RecordsOf
<1>4. Len(table \o pending) = 0 /\ Len(RecordsOf(batch)) = 0 /\ Len(queue) = 0
  BY <1>1, <1>3, EmptySeq
<1>5. QED
  BY <1>1, <1>2, <1>4 DEF OrderInv, Places, Ordered, QueueInOrder, Precedes, NotAcceptedYet

LEMMA NextNotAccepted ==
    TypeInv /\ OnceInv /\ NotAcceptedYet /\ [Next]_vars => NotAcceptedYet'
<1> SUFFICES ASSUME TypeInv, ApartInv, DistinctInv, NotAcceptedYet, [Next]_vars
             PROVE  NotAcceptedYet'
  BY DEF OnceInv
<1> USE DEF requestVars, sinkVars, loggerVars, backendVars, outcomeVars, boundVars
<1>a. /\ callbacks \in Seq(Requests) /\ accepted \in Seq(Records)
      /\ \A r \in Requests : r \in Records
      /\ \A c \in Clients : c \in Records
      /\ pc \in [Records -> {"idle", "admitted", "building", "done", "joining",
                             "joined", "assured", "refused", "stranded", "gone"}]
  BY DEF TypeInv, TypeOK, Records
<1>b. \A r \in Records : Before(r)' => Before(r)
  BY BeforeShrinks
<1>1. ASSUME NEW r \in Requests, HandOff(r) PROVE NotAcceptedYet'
  <2>1. Range(callbacks') = Range(callbacks) \cup {r} /\ UNCHANGED accepted
    BY <1>a, <1>1, AppendRange DEF HandOff
  <2>2. Before(r)
    BY <1>1 DEF HandOff, Before
  <2>3. QED
    BY <1>a, <1>b, <2>1, <2>2 DEF NotAcceptedYet
<1>2. ASSUME NEW c \in Clients, LogAndFlush(c) PROVE NotAcceptedYet'
  <2>1. Range(accepted') = Range(accepted) \cup {c} /\ UNCHANGED callbacks
    BY <1>a, <1>2, AppendRange DEF LogAndFlush
  <2>2. Before(c) /\ ~Before(c)'
    BY <1>a, <1>2 DEF LogAndFlush, Goto, Before
  <2>3. c \notin Range(callbacks)
    BY <1>a, <2>2 DEF ApartInv
  <2>4. QED
    BY <1>a, <1>b, <2>1, <2>2, <2>3 DEF NotAcceptedYet
<1>3. CASE LogNowait
  <2>1. Range(callbacks) = {Head(callbacks)} \cup Range(callbacks') /\ Head(callbacks) \in Records
    BY <1>3, <1>a, HeadRange DEF LogNowait
  <2>2. Head(callbacks) \notin Range(callbacks')
    BY <1>3, <1>a, InjectiveTail DEF LogNowait, DistinctInv
  <2>3. Range(accepted') \subseteq Range(accepted) \cup {Head(callbacks)}
    <3>1. Range(Append(accepted, Head(callbacks))) = Range(accepted) \cup {Head(callbacks)}
      BY <1>a, <2>1, AppendRange
    <3>2. QED
      BY <1>3, <3>1 DEF LogNowait
  <2>4. \A q \in Records : Before(q) => q # Head(callbacks)
    BY <2>1 DEF ApartInv
  <2>5. QED
    BY <1>a, <1>b, <2>1, <2>2, <2>3, <2>4 DEF NotAcceptedYet
<1>4. CASE ~(\E r \in Requests : HandOff(r)) /\ ~(\E c \in Clients : LogAndFlush(c)) /\ ~LogNowait
  <2>1. UNCHANGED accepted
    BY <1>4
       DEF Next, vars, RequestStep, Admit, FallBack, SeesLoop, BuildFails, ClientStep,
           FlushReturns, ExecutorStep, Commit, WriteFails, WriterStep, CollectBatch, TakeStop,
           FlushSucceeds, FlushFails, StartStep, BeginStart, ConnectSucceeds, ConnectFails,
           BeginStop, StopStep, PutStop, JoinWriter, CloseBackend, Crash, Finished
  <2>2. UNCHANGED callbacks \/ callbacks' = <<>>
    BY <1>4
       DEF Next, vars, RequestStep, Admit, FallBack, SeesLoop, BuildFails, ClientStep,
           FlushReturns, ExecutorStep, Commit, WriteFails, WriterStep, CollectBatch, TakeStop,
           FlushSucceeds, FlushFails, StartStep, BeginStart, ConnectSucceeds, ConnectFails,
           BeginStop, StopStep, PutStop, JoinWriter, CloseBackend, Crash, Finished
  <2>3. Range(callbacks') \subseteq Range(callbacks)
    BY <2>2, RangeOfEmpty
  <2>4. QED
    BY <1>b, <2>1, <2>3 DEF NotAcceptedYet
<1>5. QED
  BY <1>1, <1>2, <1>3, <1>4

\* A step that accepts nothing, and that leaves each place as it is or empty.
LEMMA OrderShrinks ==
    ASSUME TypeInv, OrderInv,
           UNCHANGED <<accepted, table>>,
           pending' = pending \/ pending' = <<>>,
           batch' = batch \/ batch' = <<>>,
           queue' = queue \/ queue' = <<>>,
           writer' = "writing" => writer = "writing"
    PROVE  OrderInv'
<1>a. table \in Seq(Records) /\ pending \in Seq(Records)
  BY DEF TypeInv, TypeOK
<1>1. /\ Range(pending') \subseteq Range(pending)
      /\ Held' \subseteq Held /\ Queued' \subseteq Queued /\ Persisted' = Persisted
  BY RangeOfEmpty DEF Held, Queued, Persisted
<1>2. Ordered(accepted', table' \o pending')
  <2>1. CASE pending' = pending
    BY <2>1 DEF OrderInv, Ordered
  <2>2. CASE pending' = <<>>
    <3>1. table' \o pending' = table
      BY <1>a, <2>2, ConcatEmptySeq
    <3>2. Ordered(accepted, table)
      BY <1>a, OrderedPrefix DEF OrderInv
    <3>3. QED
      BY <3>1, <3>2 DEF Ordered
  <2>3. QED
    BY <2>1, <2>2
<1>3. Ordered(accepted, RecordsOf(batch))'
  <2>1. CASE batch' = batch
    <3>1. RecordsOf(batch)' = RecordsOf(batch)
      BY <2>1 DEF RecordsOf, Last, Front
    <3>2. QED
      BY <3>1 DEF OrderInv, Ordered
  <2>2. CASE batch' = <<>>
    <3>1. RecordsOf(batch)' = <<>>
      BY <2>2 DEF RecordsOf
    <3>2. Len(RecordsOf(batch)') = 0
      BY <3>1, EmptySeq
    <3>3. QED
      BY <3>2 DEF Ordered
  <2>3. QED
    BY <2>1, <2>2
<1>4. QueueInOrder'
  <2>1. CASE queue' = queue
    BY <2>1 DEF OrderInv, QueueInOrder
  <2>2. CASE queue' = <<>>
    BY <2>2, EmptySeq DEF QueueInOrder
  <2>3. QED
    BY <2>1, <2>2
<1>5. Places' \subseteq Range(accepted')
  BY <1>1 DEF OrderInv, Places
<1>6. Precedes(accepted, Persisted \cup Range(pending) \cup Held, Queued)'
  BY <1>1 DEF OrderInv, Precedes
<1>7. writer' = "writing" => Precedes(accepted, Persisted \cup Range(pending), Held)'
  BY <1>1 DEF OrderInv, Precedes
<1>8. QED
  BY <1>2, <1>3, <1>4, <1>5, <1>6, <1>7 DEF OrderInv

\* A record that is accepted now goes to the end of the queue.
LEMMA OrderAppends ==
    ASSUME TypeInv, OrderInv, NEW x \in Records,
           queue' = Append(queue, x), accepted' = Append(accepted, x),
           UNCHANGED <<table, pending, batch, writer>>
    PROVE  OrderInv'
<1>a. /\ queue \in Seq(Items) /\ accepted \in Seq(Records) /\ x \in Items /\ x # STOP
  BY SentinelAssumption DEF TypeInv, TypeOK, Items
<1>b. /\ Range(accepted') = Range(accepted) \cup {x}
      /\ \A a, b : Earlier(accepted, a, b) => Earlier(accepted', a, b)
      /\ \A a \in Range(accepted) : Earlier(accepted', a, x)
  BY <1>a, EarlierGrows
<1>1. /\ Persisted' = Persisted /\ Range(pending') = Range(pending) /\ Held' = Held
      /\ RecordsOf(batch)' = RecordsOf(batch)
  BY DEF Persisted, Held, RecordsOf, Last, Front
<1>2. Queued' = Queued \cup {x}
  BY <1>a, AppendRange DEF Queued
<1>3. Ordered(accepted, table \o pending)'
  BY <1>b DEF OrderInv, Ordered
<1>4. Ordered(accepted, RecordsOf(batch))'
  BY <1>b, <1>1 DEF OrderInv, Ordered
<1>5. Places' \subseteq Range(accepted')
  BY <1>b, <1>1, <1>2 DEF OrderInv, Places
<1>6. Precedes(accepted, Persisted \cup Range(pending) \cup Held, Queued)'
  BY <1>b, <1>1, <1>2 DEF OrderInv, Places, Precedes
<1>7. writer' = "writing" => Precedes(accepted, Persisted \cup Range(pending), Held)'
  BY <1>b, <1>1 DEF OrderInv, Precedes
<1>8. QueueInOrder'
  <2>1. /\ Len(queue) \in Nat /\ Len(queue') = Len(queue) + 1
        /\ \A i \in 1..Len(queue) : queue'[i] = queue[i] /\ queue[i] \in Range(queue)
        /\ queue'[Len(queue) + 1] = x
    BY <1>a, AppendProperties, LenProperties, RangeEquality
  <2> SUFFICES ASSUME NEW i \in 1..(Len(queue) + 1), NEW j \in 1..(Len(queue) + 1), i < j,
                      queue'[i] # STOP, queue'[j] # STOP
               PROVE  Earlier(accepted', queue'[i], queue'[j])
    BY <2>1 DEF QueueInOrder
  <2>2. i \in 1..Len(queue)
    BY <2>1
  <2>3. CASE j \in 1..Len(queue)
    BY <1>b, <2>1, <2>2, <2>3 DEF OrderInv, QueueInOrder
  <2>4. CASE j = Len(queue) + 1
    <3>1. queue'[i] \in Range(accepted)
      BY <2>1, <2>2 DEF OrderInv, Places, Queued
    <3>2. queue'[j] = x
      BY <2>1, <2>4
    <3>3. QED
      BY <1>b, <3>1, <3>2
  <2>5. QED
    BY <2>1, <2>3, <2>4
<1>9. QED
  BY <1>3, <1>4, <1>5, <1>6, <1>7, <1>8 DEF OrderInv

\* The records of a batch stand where they stood in it.
LEMMA RowsStand ==
    ASSUME NEW b \in Seq(Items), \A i \in 1..(Len(b) - 1) : b[i] # STOP
    PROVE  /\ Len(b) \in Nat /\ Len(RecordsOf(b)) \in Nat /\ Len(RecordsOf(b)) <= Len(b)
           /\ \A i \in 1..Len(RecordsOf(b)) : RecordsOf(b)[i] = b[i] /\ b[i] # STOP
<1>1. Len(b) \in Nat
  BY LenProperties
<1>2. CASE b # <<>> /\ Last(b) = STOP
  <2>1. Len(b) >= 1 /\ Len(b) - 1 \in 0..Len(b)
    BY <1>1, <1>2, EmptySeq
  <2>2. RecordsOf(b) = SubSeq(b, 1, Len(b) - 1)
    BY <1>2 DEF RecordsOf, Front
  <2>3. Len(RecordsOf(b)) = Len(b) - 1 /\ \A i \in 1..(Len(b) - 1) : RecordsOf(b)[i] = b[i]
    BY <2>1, <2>2, PrefixIs
  <2>4. QED
    BY <1>1, <2>1, <2>3
<1>3. CASE ~(b # <<>> /\ Last(b) = STOP)
  <2>1. RecordsOf(b) = b
    BY <1>3 DEF RecordsOf
  <2>2. \A i \in 1..Len(b) : b[i] # STOP
    BY <1>1, <1>3, EmptySeq DEF Last
  <2>3. QED
    BY <1>1, <2>1, <2>2
<1>4. QED
  BY <1>2, <1>3

LEMMA CollectKeepsOrder ==
    ASSUME TypeInv, TypeInv', OrderInv, CollectBatch
    PROVE  OrderInv'
<1>a. UNCHANGED <<accepted, table, pending>> /\ writer' = "writing"
  BY DEF CollectBatch, outcomeVars, backendVars
<1>c. /\ queue = batch' \o queue' /\ batch' \in Seq(Items) /\ queue' \in Seq(Items)
      /\ batch = <<>>
  BY CollectSplits
<1>1. Queued = Queued' \cup Held' /\ Held = {}
  <2>1. Range(queue) = Range(batch') \cup Range(queue')
    BY <1>c, RangeConcatenation
  <2>2. Range(batch) = {}
    BY <1>c, RangeOfEmpty
  <2>3. QED
    BY <2>1, <2>2 DEF Queued, Held
<1>2. Persisted' = Persisted /\ Range(pending') = Range(pending)
  BY <1>a DEF Persisted
<1>3. /\ Len(batch') \in Nat /\ Len(queue') \in Nat
      /\ Len(queue) = Len(batch') + Len(queue')
      /\ \A i \in 1..Len(batch') : queue[i] = batch'[i]
      /\ \A i \in 1..Len(queue') : queue[Len(batch') + i] = queue'[i]
  BY <1>c, ConcatIs
<1>4. /\ \A i \in 1..Len(batch') : i \in 1..Len(queue)
      /\ \A i \in 1..Len(queue') : Len(batch') + i \in 1..Len(queue)
  BY <1>3
<1>5. Ordered(accepted, RecordsOf(batch))'
  <2>1. \A i \in 1..(Len(batch') - 1) : batch'[i] # STOP
    BY DEF TypeInv, StopEndsBatch
  <2>2. /\ Len(RecordsOf(batch')) \in Nat /\ Len(RecordsOf(batch')) <= Len(batch')
        /\ \A i \in 1..Len(RecordsOf(batch')) :
              RecordsOf(batch')[i] = batch'[i] /\ batch'[i] # STOP
    BY <1>c, <2>1, RowsStand
  <2>3. RecordsOf(batch)' = RecordsOf(batch')
    BY DEF RecordsOf, Last, Front
  <2> SUFFICES ASSUME NEW i \in 1..Len(RecordsOf(batch')), NEW j \in 1..Len(RecordsOf(batch')),
                      i < j
               PROVE  Earlier(accepted, batch'[i], batch'[j])
    BY <1>a, <2>2, <2>3 DEF Ordered
  <2>4. i \in 1..Len(batch') /\ j \in 1..Len(batch')
    BY <1>3, <2>2
  <2>5. QED
    BY <1>3, <1>4, <2>2, <2>4 DEF OrderInv, QueueInOrder
<1>6. QueueInOrder'
  <2> SUFFICES ASSUME NEW i \in 1..Len(queue'), NEW j \in 1..Len(queue'), i < j,
                      queue'[i] # STOP, queue'[j] # STOP
               PROVE  Earlier(accepted, queue'[i], queue'[j])
    BY <1>a DEF QueueInOrder
  <2>1. Len(batch') + i < Len(batch') + j
    BY <1>3
  <2>2. QED
    BY <1>3, <1>4, <2>1 DEF OrderInv, QueueInOrder
<1>7. Precedes(accepted, Persisted \cup Range(pending), Queued)
  BY DEF OrderInv, Precedes
<1>8. Precedes(accepted, Held', Queued')
  <2>1. /\ Range(batch') = {batch'[i] : i \in 1..Len(batch')}
        /\ Range(queue') = {queue'[i] : i \in 1..Len(queue')}
    BY <1>c, RangeEquality
  <2> SUFFICES ASSUME NEW i \in 1..Len(batch'), NEW j \in 1..Len(queue'),
                      batch'[i] # STOP, queue'[j] # STOP
               PROVE  Earlier(accepted, batch'[i], queue'[j])
    BY <2>1 DEF Precedes, Held, Queued
  <2>2. i < Len(batch') + j
    BY <1>3
  <2>3. QED
    BY <1>3, <1>4, <2>2 DEF OrderInv, QueueInOrder
<1>9. Precedes(accepted, Persisted \cup Range(pending) \cup Held, Queued)'
  BY <1>a, <1>1, <1>2, <1>7, <1>8 DEF Precedes
<1>10. Precedes(accepted, Persisted \cup Range(pending), Held)'
  BY <1>a, <1>1, <1>2, <1>7 DEF Precedes
<1>11. Places' \subseteq Range(accepted')
  BY <1>a, <1>1, <1>2 DEF OrderInv, Places
<1>12. Ordered(accepted, table \o pending)'
  BY <1>a DEF OrderInv, Ordered
<1>13. QED
  BY <1>5, <1>6, <1>9, <1>10, <1>11, <1>12 DEF OrderInv

\* The rows of a part of the batch, after all that is stored.
LEMMA StoredThenPart ==
    ASSUME TypeInv, OrderInv, writer = "writing",
           NEW part \in Seq(Records), Ordered(accepted, part), Range(part) \subseteq Held
    PROVE  Ordered(accepted, (table \o pending) \o part)
<1> DEFINE rows == table \o pending
<1>1. rows \in Seq(Records) /\ Range(rows) = Persisted \cup Range(pending)
  BY ConcatProperties, RangeConcatenation DEF TypeInv, TypeOK, Persisted
<1>2. Ordered(accepted, rows) /\ Precedes(accepted, Range(rows), Range(part))
  BY <1>1 DEF OrderInv, Precedes
<1> HIDE DEF rows
<1>3. Ordered(accepted, rows \o part)
  BY <1>1, <1>2, OrderedConcat
<1>4. QED
  BY <1>3 DEF rows

LEMMA NextOrder ==
    TypeInv /\ TypeInv' /\ OnceInv /\ OrderInv /\ [Next]_vars => OrderInv'
<1> SUFFICES ASSUME TypeInv, TypeInv', OnceInv, OrderInv, [Next]_vars PROVE OrderInv'
  OBVIOUS
<1> USE DEF requestVars, sinkVars, loggerVars, backendVars, outcomeVars, boundVars
<1>a. /\ queue \in Seq(Items) /\ table \in Seq(Records) /\ pending \in Seq(Records)
      /\ Len(queue) \in Nat
  BY LenProperties DEF TypeInv, TypeOK
<1>b. /\ RecordsOf(batch) \in Seq(Records) /\ Range(RecordsOf(batch)) \subseteq Held
  BY RowsOfBatch DEF OnceInv
<1>1. ASSUME NEW r \in Requests, RequestStep(r) PROVE OrderInv'
  <2>1. UNCHANGED <<accepted, table, pending, batch, queue, writer>>
    BY <1>1 DEF RequestStep, Admit, FallBack, SeesLoop, BuildFails, HandOff
  <2>2. QED
    BY <2>1, OrderShrinks
<1>2. ASSUME NEW c \in Clients, ClientStep(c) PROVE OrderInv'
  <2>1. CASE LogAndFlush(c)
    <3>1. c \in Records
      BY DEF Records
    <3>2. QED
      BY <2>1, <3>1, OrderAppends DEF LogAndFlush, Put
  <2>2. CASE FlushReturns(c)
    BY <2>2, OrderShrinks DEF FlushReturns
  <2>3. QED
    BY <1>2, <2>1, <2>2 DEF ClientStep
<1>3. CASE LogNowait
  <2>1. Head(callbacks) \in Records
    BY <1>3, HeadTailProperties DEF LogNowait, TypeInv, TypeOK, Records
  <2>2. UNCHANGED <<table, pending, batch, writer>>
    BY <1>3 DEF LogNowait
  <2>3. CASE queue' = Append(queue, Head(callbacks)) /\ accepted' = Append(accepted, Head(callbacks))
    BY <2>1, <2>2, <2>3, OrderAppends
  <2>4. CASE UNCHANGED <<queue, accepted>>
    BY <2>2, <2>4, OrderShrinks
  <2>5. QED
    BY <1>3, <2>3, <2>4 DEF LogNowait, Put
<1>4. CASE Commit
  <2>1. /\ UNCHANGED <<accepted, queue, batch>> /\ writer = "writing" /\ writer' = "wrote"
    BY <1>4 DEF Commit
  <2>2. /\ table' = (table \o pending) \o RecordsOf(batch) /\ pending' = <<>>
        /\ Persisted' = Persisted \cup Range(pending) \cup Range(RecordsOf(batch))
        /\ Range(pending') = {} /\ table \o pending \in Seq(Records)
    BY <1>4, CommitRows DEF OnceInv
  <2>3. Ordered(accepted, (table \o pending) \o RecordsOf(batch))
    BY <1>b, <2>1, StoredThenPart DEF OrderInv
  <2>4. table' \o pending' = (table \o pending) \o RecordsOf(batch)
    <3>1. table' \in Seq(Records)
      BY DEF TypeInv, TypeOK
    <3>2. table' \o <<>> = table'
      BY <3>1, ConcatEmptySeq
    <3>3. QED
      BY <2>2, <3>2
  <2>5. Held' = Held /\ Queued' = Queued /\ RecordsOf(batch)' = RecordsOf(batch)
    BY <2>1 DEF Held, Queued, RecordsOf, Last, Front
  <2>6. Ordered(accepted', table' \o pending')
    BY <2>1, <2>3, <2>4
  <2>7. Places' \subseteq Range(accepted')
    BY <1>b, <2>1, <2>2, <2>5 DEF OrderInv, Places
  <2>8. Precedes(accepted, Persisted \cup Range(pending) \cup Held, Queued)'
    BY <1>b, <2>1, <2>2, <2>5 DEF OrderInv, Precedes
  <2>9. QED
    BY <2>1, <2>5, <2>6, <2>7, <2>8 DEF OrderInv, QueueInOrder
<1>5. CASE WriteFails
  <2>1. /\ UNCHANGED <<accepted, queue, batch, table>> /\ writer = "writing"
        /\ writer' = "raised"
    BY <1>5 DEF WriteFails
  <2>2. CASE pending' = <<>>
    BY <2>1, <2>2, OrderShrinks
  <2>3. ASSUME NEW k \in 0..Len(RecordsOf(batch)),
               pending' = pending \o SubSeq(RecordsOf(batch), 1, k)
        PROVE  OrderInv'
    <3> DEFINE rows == RecordsOf(batch)
               part == SubSeq(rows, 1, k)
    <3>1. rows \in Seq(Records) /\ Range(rows) \subseteq Held /\ k \in 0..Len(rows)
          /\ Ordered(accepted, rows)
      BY <1>b, <2>3 DEF OrderInv
    <3> HIDE DEF rows
    <3>2. /\ part \in Seq(Records) /\ Len(part) = k /\ Range(part) \subseteq Range(rows)
          /\ \A i \in 1..k : part[i] = rows[i]
      BY <3>1, PrefixIs
    <3>3. pending' = pending \o part
      BY <2>3 DEF rows
    <3> HIDE DEF part
    <3>4. Ordered(accepted, part)
      <4>1. \A i \in 1..k : i \in 1..Len(rows)
        BY <3>1, LenProperties
      <4>2. QED
        BY <3>1, <3>2, <4>1 DEF Ordered
    <3>5. Ordered(accepted, (table \o pending) \o part)
      BY <2>1, <3>1, <3>2, <3>4, StoredThenPart
    <3>6. (table \o pending) \o part = table \o (pending \o part)
      BY <1>a, <3>2, ConcatAssociative
    <3>7. Range(pending') = Range(pending) \cup Range(part)
      BY <1>a, <3>2, <3>3, RangeConcatenation
    <3>8. Held' = Held /\ Queued' = Queued /\ RecordsOf(batch)' = RecordsOf(batch)
          /\ Persisted' = Persisted
      BY <2>1 DEF Held, Queued, RecordsOf, Last, Front, Persisted
    <3>9. Ordered(accepted', table' \o pending')
      BY <2>1, <3>3, <3>5, <3>6
    <3>10. Places' \subseteq Range(accepted')
      BY <2>1, <3>1, <3>2, <3>7, <3>8 DEF OrderInv, Places
    <3>11. Precedes(accepted, Persisted \cup Range(pending) \cup Held, Queued)'
      BY <2>1, <3>1, <3>2, <3>7, <3>8 DEF OrderInv, Precedes
    <3>12. QED
      BY <2>1, <3>8, <3>9, <3>10, <3>11 DEF OrderInv, QueueInOrder
  <2>4. QED
    BY <1>5, <2>2, <2>3 DEF WriteFails
<1>6. CASE CollectBatch
  BY <1>6, CollectKeepsOrder
<1>7. CASE TakeStop
  <2>1. /\ Len(queue') = Len(queue) - 1
        /\ \A i \in 1..Len(queue') : queue'[i] = queue[i + 1] /\ i + 1 \in 1..Len(queue)
    BY <1>7, <1>a, HeadTailProperties DEF TakeStop
  <2>2. UNCHANGED <<accepted, table, pending, batch>> /\ writer' = "exited"
    BY <1>7 DEF TakeStop
  <2>3. QueueInOrder'
    <3> SUFFICES ASSUME NEW i \in 1..Len(queue'), NEW j \in 1..Len(queue'), i < j,
                        queue'[i] # STOP, queue'[j] # STOP
                 PROVE  Earlier(accepted, queue'[i], queue'[j])
      BY <2>2 DEF QueueInOrder
    <3>1. i + 1 < j + 1
      OBVIOUS
    <3>2. QED
      BY <2>1, <3>1 DEF OrderInv, QueueInOrder
  <2>4. Queued' \subseteq Queued
    BY <1>7, <1>a, HeadRange DEF TakeStop, Queued
  <2>5. Held' = Held /\ RecordsOf(batch)' = RecordsOf(batch) /\ Persisted' = Persisted
    BY <2>2 DEF Held, RecordsOf, Last, Front, Persisted
  <2>6. Places' \subseteq Range(accepted')
    BY <2>2, <2>4, <2>5 DEF OrderInv, Places
  <2>7. Precedes(accepted, Persisted \cup Range(pending) \cup Held, Queued)'
    BY <2>2, <2>4, <2>5 DEF OrderInv, Precedes
  <2>8. QED
    BY <2>2, <2>3, <2>5, <2>6, <2>7 DEF OrderInv
<1>8. CASE FlushSucceeds \/ FlushFails
  <2>1. /\ UNCHANGED <<accepted, table, pending, queue>> /\ batch' = <<>>
        /\ writer' # "writing"
    BY <1>8 DEF FlushSucceeds, FlushFails, AfterFlush
  <2>2. QED
    BY <2>1, OrderShrinks
<1>9. CASE StartStep \/ BeginStop
  <2>1. /\ UNCHANGED <<accepted, table, pending, batch>>
        /\ queue' = queue \/ queue' = <<>>
        /\ writer' = "writing" => writer = "writing"
    BY <1>9 DEF StartStep, BeginStart, ConnectSucceeds, ConnectFails, BeginStop
  <2>2. QED
    BY <2>1, OrderShrinks
<1>10. CASE PutStop
  <2>1. UNCHANGED <<accepted, table, pending, batch, writer>> /\ queue' = Append(queue, STOP)
    BY <1>10 DEF PutStop, Put
  <2>2. Queued' = Queued
    BY <1>a, <2>1, AppendRange DEF Queued, Items
  <2>3. QueueInOrder'
    <3>1. /\ Len(queue') = Len(queue) + 1 /\ queue'[Len(queue) + 1] = STOP
          /\ \A i \in 1..Len(queue) : queue'[i] = queue[i]
      BY <1>a, <2>1, AppendProperties DEF Items
    <3> SUFFICES ASSUME NEW i \in 1..(Len(queue) + 1), NEW j \in 1..(Len(queue) + 1), i < j,
                        queue'[i] # STOP, queue'[j] # STOP
                 PROVE  Earlier(accepted, queue'[i], queue'[j])
      BY <2>1, <3>1 DEF QueueInOrder
    <3>2. Len(queue) \in Nat
      BY <1>a, LenProperties
    <3>3. i # Len(queue) + 1 /\ j # Len(queue) + 1
      BY <3>1
    <3>4. i \in 1..Len(queue) /\ j \in 1..Len(queue)
      BY <3>2, <3>3
    <3>5. QED
      BY <3>1, <3>4 DEF OrderInv, QueueInOrder
  <2>4. Held' = Held /\ RecordsOf(batch)' = RecordsOf(batch) /\ Persisted' = Persisted
    BY <2>1 DEF Held, RecordsOf, Last, Front, Persisted
  <2>5. QED
    BY <2>1, <2>2, <2>3, <2>4 DEF OrderInv, Places
<1>11. CASE JoinWriter \/ CloseBackend
  <2>1. /\ UNCHANGED <<accepted, table, batch, queue>>
        /\ pending' = pending \/ pending' = <<>>
        /\ writer' = "writing" => writer = "writing"
    BY <1>11 DEF JoinWriter, CloseBackend
  <2>2. QED
    BY <2>1, OrderShrinks
<1>12. CASE Crash
  BY <1>12, OrderShrinks DEF Crash
<1>13. CASE Finished \/ UNCHANGED vars
  <2>1. UNCHANGED <<accepted, table, pending, batch, queue, writer>>
    BY <1>13 DEF Finished, vars
  <2>2. QED
    BY <2>1, OrderShrinks
<1>14. QED
  BY <1>1, <1>2, <1>3, <1>4, <1>5, <1>6, <1>7, <1>8, <1>9, <1>10, <1>11, <1>12, <1>13
     DEF Next, ExecutorStep, WriterStep, StopStep

LEMMA AlwaysOrderInv == Spec => [](OrderInv /\ NotAcceptedYet)
<1>1. QED
  BY InitOrder, NextOrder, NextNotAccepted, AlwaysTypeInv, AlwaysOnceInv, PTL DEF Spec

\* What is in the table is in order for the trail as well.
RowsInOrder == Range(table) \subseteq Range(accepted) /\ Ordered(accepted, table)

LEMMA SameOperatorsOfTrail ==
    /\ \A s, t : Trail!IsStrictPrefix(s, t) <=> IsStrictPrefix(s, t)
    /\ \A s : Trail!Range(s) = Range(s)
BY Zenon DEF Trail!IsStrictPrefix, Trail!IsPrefix, IsStrictPrefix, IsPrefix, Trail!Range, Range

LEMMA CommitPersists ==
    ASSUME TypeInv, OnceInv, RowsInOrder', Commit
    PROVE  Trail!Persist
<1> DEFINE new == pending \o RecordsOf(batch)
<1>1. /\ table \in Seq(Records) /\ pending \in Seq(Records) /\ RecordsOf(batch) \in Seq(Records)
      /\ table' = (table \o pending) \o RecordsOf(batch)
      /\ RecordsOf(batch) # <<>> /\ UNCHANGED accepted
  BY CommitRows, RowsOfBatch DEF OnceInv, Commit, TypeInv, Accounting, outcomeVars
<1>2. new \in Seq(Records) /\ new # <<>>
  <2>1. /\ new \in Seq(Records) /\ Len(new) = Len(pending) + Len(RecordsOf(batch))
        /\ Len(pending) \in Nat /\ Len(RecordsOf(batch)) \in Nat
    BY <1>1, ConcatIs
  <2>2. Len(RecordsOf(batch)) # 0
    BY <1>1, EmptySeq
  <2> HIDE DEF new
  <2>3. Len(new) # 0
    BY <2>1, <2>2
  <2>4. QED
    BY <2>1, <2>3, EmptySeq
<1>3. table' = table \o new
  BY <1>1, ConcatAssociative
<1> HIDE DEF new
<1>4. IsStrictPrefix(table, table')
  BY <1>1, <1>2, <1>3, ConcatPrefix
<1>5. /\ Range(table') \subseteq Range(accepted)
      /\ \A i, j \in 1..Len(table') : i < j => Earlier(accepted, table'[i], table'[j])
  BY <1>1 DEF RowsInOrder, Ordered
<1>6. Trail!IsStrictPrefix(table, table')
  BY <1>4, SameOperatorsOfTrail
<1>7. Trail!InOrder(table')
  <2>1. Trail!Range(table') \subseteq Trail!Range(accepted)
    BY <1>5, SameOperatorsOfTrail
  <2>2. \A i, j \in 1..Len(table') : i < j => Trail!Earlier(table'[i], table'[j])
    BY <1>5 DEF Earlier, Trail!Earlier
  <2>3. QED
    BY <2>1, <2>2 DEF Trail!InOrder
<1>8. QED
  BY <1>1, <1>6, <1>7 DEF Trail!Persist

\* The table is an append-only trail of the accepted records, in the order in
\* which they were accepted and none of them twice, whatever writes fail, with
\* leftovers that a later commit takes along, restarts and crashes.
THEOREM ImplementsTrailHolds == Spec => ImplementsTrail
<1> USE DEF requestVars, sinkVars, loggerVars, backendVars, outcomeVars, boundVars
<1>1. Init => Trail!Init
  BY DEF Init, Trail!Init
<1>2. TypeInv /\ OrderInv => RowsInOrder
  <2> SUFFICES ASSUME TypeInv, OrderInv PROVE RowsInOrder
    OBVIOUS
  <2>1. table \in Seq(Records) /\ pending \in Seq(Records)
    BY DEF TypeInv, TypeOK
  <2>2. Ordered(accepted, table)
    BY <2>1, OrderedPrefix DEF OrderInv
  <2>3. QED
    BY <2>2 DEF OrderInv, Places, Persisted, RowsInOrder
<1>3. TypeInv /\ OnceInv /\ NotAcceptedYet /\ RowsInOrder' /\ [Next]_vars
          => [Trail!Next]_(Trail!vars)
  <2> SUFFICES ASSUME TypeInv, OnceInv, NotAcceptedYet, RowsInOrder', [Next]_vars
               PROVE  [Trail!Next]_(Trail!vars)
    OBVIOUS
  <2>1. ASSUME NEW c \in Clients, LogAndFlush(c) PROVE Trail!Next
    <3>1. c \in Records /\ Before(c)
      BY <2>1 DEF LogAndFlush, Before, Records
    <3>2. Trail!Accept(c)
      BY <2>1, <3>1, SameOperatorsOfTrail DEF NotAcceptedYet, LogAndFlush, Trail!Accept
    <3>3. QED
      BY <3>1, <3>2 DEF Trail!Next
  <2>2. CASE LogNowait
    <3>1. Head(callbacks) \in Records /\ Head(callbacks) \in Range(callbacks)
      BY <2>2, HeadRange DEF LogNowait, TypeInv, TypeOK, Records
    <3>2. CASE accepted' = Append(accepted, Head(callbacks))
      <4>1. Trail!Accept(Head(callbacks))
        BY <2>2, <3>1, <3>2, SameOperatorsOfTrail DEF NotAcceptedYet, LogNowait, Trail!Accept
      <4>2. QED
        BY <3>1, <4>1 DEF Trail!Next
    <3>3. CASE UNCHANGED accepted
      BY <2>2, <3>3 DEF LogNowait, Trail!vars
    <3>4. QED
      BY <2>2, <3>2, <3>3 DEF LogNowait
  <2>3. CASE Commit
    BY <2>3, CommitPersists DEF Trail!Next
  <2>4. CASE ~(\E c \in Clients : LogAndFlush(c)) /\ ~LogNowait /\ ~Commit
    BY <2>4
       DEF Next, vars, RequestStep, Admit, FallBack, SeesLoop, BuildFails, HandOff, ClientStep,
           FlushReturns, ExecutorStep, WriteFails, WriterStep, CollectBatch, TakeStop,
           FlushSucceeds, FlushFails, StartStep, BeginStart, ConnectSucceeds, ConnectFails,
           BeginStop, StopStep, PutStop, JoinWriter, CloseBackend, Crash, Finished, Trail!vars
  <2>5. QED
    BY <2>1, <2>2, <2>3, <2>4
<1>4. QED
  BY <1>1, <1>2, <1>3, AlwaysTypeInv, AlwaysOnceInv, AlwaysOrderInv, PTL
     DEF Spec, ImplementsTrail, Trail!Spec
=============================================================================
