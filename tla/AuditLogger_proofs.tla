-------------------------- MODULE AuditLogger_proofs --------------------------
(***************************************************************************)
(* Machine-checked theorems about AuditLogger, for every set of requests   *)
(* and clients, every queue and batch size and every value of the bounds.  *)
(***************************************************************************)
EXTENDS AuditLogger, SequenceLemmas, TLAPS

\* What join() relies on: the counter is the number of items queued and held
\* by the writer, and the writer holds a batch exactly while it handles one.
Accounting ==
    /\ unfinished = Len(queue) + Len(batch)
    /\ writer \in {"writing", "wrote", "raised"} <=> batch # <<>>

\* A sentinel in a batch ends it.
StopEndsBatch == \A i \in 1..(Len(batch) - 1) : batch[i] # STOP

\* The writer task exists only between a successful start() and the end of
\* the await in stop().
WriterLives ==
    phase \in {"fresh", "connecting", "closing", "stopped", "failed"} => writer = "none"

TypeInv == TypeOK /\ Accounting /\ StopEndsBatch /\ WriterLives

-----------------------------------------------------------------------------
(* Lemmas on sequences.                                                     *)

LEMMA SubSeqType ==
    ASSUME NEW S, NEW s \in Seq(S), NEW m \in 1..(Len(s) + 1), NEW n \in 0..Len(s)
    PROVE  /\ SubSeq(s, m, n) \in Seq(S)
           /\ Len(SubSeq(s, m, n)) = IF m <= n THEN (n - m) + 1 ELSE 0
           /\ \A i \in 1..Len(SubSeq(s, m, n)) : SubSeq(s, m, n)[i] = s[(m + i) - 1]
<1>1. \A i \in m..n : s[i] \in S
  BY ElementOfSeq
<1>2. QED
  BY <1>1, SubSeqProperties

\* The records of a batch are its items without a final STOP.
LEMMA RecordsOfType ==
    ASSUME NEW b \in Seq(Items), \A i \in 1..(Len(b) - 1) : b[i] # STOP
    PROVE  RecordsOf(b) \in Seq(Records)
<1>1. CASE b # <<>> /\ Last(b) = STOP
  <2>1. \A i \in 1..(Len(b) - 1) : b[i] \in Records
    BY ElementOfSeq DEF Items
  <2>2. Front(b) \in Seq(Records)
    BY <2>1, SubSeqProperties DEF Front
  <2>3. QED
    BY <1>1, <2>2 DEF RecordsOf
<1>2. CASE ~(b # <<>> /\ Last(b) = STOP)
  <2>1. \A i \in 1..Len(b) : b[i] \in Records
    BY <1>2, ElementOfSeq DEF Items, Last
  <2>2. QED
    BY <1>2, <2>1 DEF RecordsOf
<1>3. QED
  BY <1>1, <1>2

-----------------------------------------------------------------------------
(* The type invariant.                                                      *)

LEMMA InitTypeInv == Init => TypeInv
<1> SUFFICES ASSUME Init PROVE TypeInv
  OBVIOUS
<1>1. drain \in BOOLEAN /\ sinkLoop \in BOOLEAN /\ healthy \in BOOLEAN
  BY Zenon DEF Init
<1>2. QED
  BY <1>1, BoundsAssumption, EmptySeq
     DEF Init, TypeInv, TypeOK, Accounting, StopEndsBatch, WriterLives

\* task_done() for k items that were counted keeps the counter a natural.
LEMMA TaskDoneType ==
    ASSUME TypeInv, NEW k \in Nat, k <= unfinished, TaskDone(k)
    PROVE  /\ unfinished' \in Nat /\ unfinished' = unfinished - k
           /\ pc' \in [Records -> {"idle", "admitted", "building", "done", "joining",
                                   "joined", "assured", "refused", "stranded", "gone"}]
BY DEF TypeInv, TypeOK, TaskDone

LEMMA NextTypeInv == TypeInv /\ [Next]_vars => TypeInv'
<1> SUFFICES ASSUME TypeInv, [Next]_vars PROVE TypeInv'
  OBVIOUS
<1> USE SentinelAssumption, BoundsAssumption, SizesAssumption, ModesAssumption
<1> USE DEF requestVars, sinkVars, loggerVars, backendVars, outcomeVars, boundVars
<1>1. ASSUME NEW r \in Requests, RequestStep(r) PROVE TypeInv'
  <2>1. CASE Admit(r)
    BY <2>1 DEF Admit, Goto, TypeInv, TypeOK, Accounting, StopEndsBatch, WriterLives, Records
  <2>2. CASE FallBack(r)
    BY <2>2 DEF FallBack, Goto, TypeInv, TypeOK, Accounting, StopEndsBatch, WriterLives, Records
  <2>3. CASE SeesLoop(r)
    BY <2>3 DEF SeesLoop, Goto, TypeInv, TypeOK, Accounting, StopEndsBatch, WriterLives, Records
  <2>4. CASE BuildFails(r)
    BY <2>4 DEF BuildFails, Goto, TypeInv, TypeOK, Accounting, StopEndsBatch, WriterLives, Records
  <2>5. CASE HandOff(r)
    BY <2>5, AppendProperties
       DEF HandOff, Goto, TypeInv, TypeOK, Accounting, StopEndsBatch, WriterLives, Records
  <2>6. QED
    BY <1>1, <2>1, <2>2, <2>3, <2>4, <2>5 DEF RequestStep
<1>2. ASSUME NEW c \in Clients, ClientStep(c) PROVE TypeInv'
  <2>1. CASE LogAndFlush(c)
    BY <2>1, AppendProperties
       DEF LogAndFlush, Put, Goto, TypeInv, TypeOK, Accounting, StopEndsBatch, WriterLives, Records, Items
  <2>2. CASE FlushReturns(c)
    BY <2>2 DEF FlushReturns, Goto, TypeInv, TypeOK, Accounting, StopEndsBatch, WriterLives, Records
  <2>3. QED
    BY <1>2, <2>1, <2>2 DEF ClientStep
<1>3. CASE LogNowait
  <2>1. Head(callbacks) \in Requests /\ Tail(callbacks) \in Seq(Requests)
    BY <1>3, HeadTailProperties DEF LogNowait, TypeInv, TypeOK
  <2>. Len(queue) \in Nat /\ Len(batch) \in Nat
    BY LenProperties DEF TypeInv, TypeOK
  <2>2. CASE Len(queue) < MaxSize
    <3>1. Head(callbacks) \in Records /\ Head(callbacks) \in Items
      BY <2>1 DEF Records, Items
    <3>. /\ queue' = Append(queue, Head(callbacks))
         /\ accepted' = Append(accepted, Head(callbacks))
         /\ unfinished' = unfinished + 1
         /\ UNCHANGED dropped
      BY <1>3, <2>2 DEF LogNowait, Put
    <3>2. queue' \in Seq(Items) /\ Len(queue') = Len(queue) + 1
      BY <3>1, AppendProperties DEF TypeInv, TypeOK
    <3>3. accepted' \in Seq(Records)
      BY <3>1, AppendProperties DEF TypeInv, TypeOK
    <3>4. /\ UNCHANGED <<pc, verdict, sinkVars, writer, batch, healthy, written,
                          backendVars, console, failed, cleared, boundVars>>
          /\ callbacks' \in Seq(Requests)
      BY <1>3, <2>1 DEF LogNowait
    <3>5. TypeOK'
      BY <3>2, <3>3, <3>4 DEF TypeInv, TypeOK
    <3>6. QED
      BY <3>2, <3>4, <3>5 DEF TypeInv, Accounting, StopEndsBatch, WriterLives
  <2>3. CASE ~(Len(queue) < MaxSize)
    BY <1>3, <2>1, <2>3
       DEF LogNowait, TypeInv, TypeOK, Accounting, StopEndsBatch, WriterLives, Records
  <2>4. QED
    BY <2>2, <2>3
<1>4. CASE ExecutorStep
  <2>1. RecordsOf(batch) \in Seq(Records)
    BY RecordsOfType DEF TypeInv, TypeOK, StopEndsBatch
  <2>2. CASE Commit
    BY <2>1, <2>2, ConcatProperties, EmptySeq
       DEF Commit, TypeInv, TypeOK, Accounting, StopEndsBatch, WriterLives
  <2>3. CASE WriteFails
    <3>1. \A k \in 0..Len(RecordsOf(batch)) : SubSeq(RecordsOf(batch), 1, k) \in Seq(Records)
      BY <2>1, SubSeqType, LenProperties
    <3>2. pending' \in Seq(Records)
      <4>1. CASE pending' = <<>>
        BY <4>1, EmptySeq
      <4>2. CASE \E k \in 0..Len(RecordsOf(batch)) :
                   pending' = pending \o SubSeq(RecordsOf(batch), 1, k)
        BY <3>1, <4>2, ConcatProperties DEF TypeInv, TypeOK
      <4>3. QED
        BY <2>3, <4>1, <4>2 DEF WriteFails
    <3>3. QED
      BY <2>3, <3>2 DEF WriteFails, TypeInv, TypeOK, Accounting, StopEndsBatch, WriterLives
  <2>4. QED
    BY <1>4, <2>2, <2>3 DEF ExecutorStep
<1>5. CASE WriterStep
  <2>1. CASE CollectBatch
    <3>1. PICK n \in 1..Len(queue) :
             /\ \A i \in 1..(n - 1) : queue[i] # STOP
             /\ batch' = SubSeq(queue, 1, n)
             /\ queue' = SubSeq(queue, n + 1, Len(queue))
      BY <2>1 DEF CollectBatch
    <3>2. /\ batch' \in Seq(Items) /\ Len(batch') = n
          /\ \A i \in 1..n : batch'[i] = queue[i]
      BY <3>1, SubSeqType, LenProperties DEF TypeInv, TypeOK
    <3>3. queue' \in Seq(Items) /\ Len(queue') = Len(queue) - n
      BY <3>1, SubSeqType, LenProperties DEF TypeInv, TypeOK
    <3>4. batch = <<>> /\ Len(batch) = 0 /\ batch' # <<>>
      BY <2>1, <3>2, EmptySeq DEF CollectBatch, TypeInv, Accounting
    <3>5. StopEndsBatch'
      BY <3>1, <3>2 DEF StopEndsBatch
    <3>6. Accounting' /\ WriterLives'
      <4>1. Len(queue) \in Nat
        BY LenProperties DEF TypeInv, TypeOK
      <4>2. unfinished' = Len(queue') + Len(batch')
        BY <2>1, <3>2, <3>3, <3>4, <4>1 DEF CollectBatch, TypeInv, Accounting
      <4>3. QED
        BY <2>1, <3>4, <4>2 DEF CollectBatch, TypeInv, Accounting, WriterLives
    <3>7. TypeOK'
      BY <2>1, <3>2, <3>3 DEF CollectBatch, TypeInv, TypeOK
    <3>8. QED
      BY <3>5, <3>6, <3>7 DEF TypeInv
  <2>2. CASE TakeStop
    <3>1. queue' \in Seq(Items) /\ Len(queue') = Len(queue) - 1 /\ Len(queue) >= 1
      BY <2>2, HeadTailProperties, LenProperties, EmptySeq DEF TakeStop, TypeInv, TypeOK
    <3>2. batch = <<>> /\ Len(batch) = 0
      BY <2>2, EmptySeq DEF TakeStop, TypeInv, Accounting
    <3>3. QED
      BY <2>2, <3>1, <3>2, TaskDoneType
         DEF TakeStop, TypeInv, TypeOK, Accounting, StopEndsBatch, WriterLives
  <2>3. ASSUME AfterFlush PROVE
             /\ unfinished' \in Nat /\ unfinished' = Len(queue)
             /\ pc' \in [Records -> {"idle", "admitted", "building", "done", "joining",
                                     "joined", "assured", "refused", "stranded", "gone"}]
             /\ batch' = <<>> /\ batch' \in Seq(Items) /\ Len(batch') = 0
             /\ writer' \in {"collecting", "exited"}
    BY <2>3, TaskDoneType, LenProperties, EmptySeq
       DEF AfterFlush, TypeInv, TypeOK, Accounting
  <2>4. CASE FlushSucceeds
    <3>1. Len(RecordsOf(batch)) \in Nat
      BY RecordsOfType, LenProperties DEF TypeInv, TypeOK, StopEndsBatch
    <3>2. QED
      BY <2>3, <2>4, <3>1 DEF FlushSucceeds, TypeInv, TypeOK, Accounting, StopEndsBatch, WriterLives
  <2>5. CASE FlushFails
    <3>1. Range(RecordsOf(batch)) \subseteq Records
      BY RecordsOfType, RangeOfSeq DEF TypeInv, TypeOK, StopEndsBatch
    <3>2. healthy' \in BOOLEAN
      BY <2>5, Zenon DEF FlushFails
    <3>3. failed' \subseteq Records
      BY <2>5, <3>1 DEF FlushFails, TypeInv, TypeOK
    <3>4. QED
      BY <2>3, <2>5, <3>2, <3>3
         DEF FlushFails, TypeInv, TypeOK, Accounting, StopEndsBatch, WriterLives
  <2>6. QED
    BY <1>5, <2>1, <2>2, <2>4, <2>5 DEF WriterStep
<1>6. CASE StartStep
  <2>1. CASE BeginStart
    BY <2>1, EmptySeq DEF BeginStart, TypeInv, TypeOK, Accounting, StopEndsBatch, WriterLives
  <2>2. CASE ConnectSucceeds
    <3>1. sinkLoop' \in BOOLEAN
      BY <2>2, Zenon DEF ConnectSucceeds
    <3>2. QED
      BY <2>2, <3>1 DEF ConnectSucceeds, TypeInv, TypeOK, Accounting, StopEndsBatch, WriterLives
  <2>3. CASE ConnectFails
    <3>1. healthy' \in BOOLEAN
      BY <2>3, Zenon DEF ConnectFails
    <3>2. QED
      BY <2>3, <3>1 DEF ConnectFails, TypeInv, TypeOK, Accounting, StopEndsBatch, WriterLives
  <2>4. QED
    BY <1>6, <2>1, <2>2, <2>3 DEF StartStep
<1>7. CASE BeginStop
  <2>1. CASE drain'
    BY <1>7, <2>1 DEF BeginStop, TypeInv, TypeOK, Accounting, StopEndsBatch, WriterLives
  <2>2. CASE ~drain'
    <3>1. Len(queue) \in Nat /\ Len(batch) \in Nat /\ Len(queue) <= unfinished
      BY LenProperties DEF TypeInv, TypeOK, Accounting
    <3>2. TaskDone(Len(queue)) /\ queue' = <<>>
      BY <1>7, <2>2 DEF BeginStop
    <3>3. sinkLoop' \in BOOLEAN /\ drain' \in BOOLEAN
      BY <1>7, Zenon, ModesAssumption DEF BeginStop
    <3>4. cleared' \subseteq Records
      BY <1>7, <2>2 DEF BeginStop, TypeInv, TypeOK
    <3>5. QED
      BY <1>7, <3>1, <3>2, <3>3, <3>4, TaskDoneType, EmptySeq
         DEF BeginStop, TypeInv, TypeOK, Accounting, StopEndsBatch, WriterLives
  <2>3. QED
    BY <2>1, <2>2
<1>8. CASE StopStep
  <2>1. CASE PutStop
    BY <2>1, AppendProperties
       DEF PutStop, Put, TypeInv, TypeOK, Accounting, StopEndsBatch, WriterLives, Items
  <2>2. CASE JoinWriter
    BY <2>2 DEF JoinWriter, TypeInv, TypeOK, Accounting, StopEndsBatch, WriterLives
  <2>3. CASE CloseBackend
    BY <2>3, EmptySeq DEF CloseBackend, TypeInv, TypeOK, Accounting, StopEndsBatch, WriterLives
  <2>4. QED
    BY <1>8, <2>1, <2>2, <2>3 DEF StopStep
<1>9. CASE Crash
  <2>1. drain' \in BOOLEAN /\ sinkLoop' \in BOOLEAN /\ healthy' \in BOOLEAN
    BY <1>9, Zenon DEF Crash
  <2>2. QED
    BY <1>9, <2>1, EmptySeq DEF Crash, TypeInv, TypeOK, Accounting, StopEndsBatch, WriterLives
<1>10. CASE Finished \/ UNCHANGED vars
  BY <1>10 DEF Finished, vars, TypeInv, TypeOK, Accounting, StopEndsBatch, WriterLives
<1>11. QED
  BY <1>1, <1>2, <1>3, <1>4, <1>5, <1>6, <1>7, <1>8, <1>9, <1>10 DEF Next

LEMMA AlwaysTypeInv == Spec => []TypeInv
<1>1. QED
  BY InitTypeInv, NextTypeInv, PTL DEF Spec

\* Every reachable state is well-typed; in particular the queue's counter of
\* unfinished items never goes below zero.
THEOREM TypeCorrect == Spec => []TypeOK
<1>1. TypeInv => TypeOK
  BY DEF TypeInv
<1>2. QED
  BY <1>1, AlwaysTypeInv, PTL

-----------------------------------------------------------------------------
(* `written` never claims more rows than are committed.  Between the commit *)
(* and the count the table is ahead by the batch.                           *)

WrittenInv ==
    written + (IF writer = "wrote" THEN Len(RecordsOf(batch)) ELSE 0) <= Len(table)

\* The steps after which neither side of WrittenInv has moved.
LEMMA WrittenStutters ==
    ASSUME WrittenInv, UNCHANGED <<written, table, batch>>,
           writer' = "wrote" <=> writer = "wrote"
    PROVE  WrittenInv'
BY DEF WrittenInv, RecordsOf, Last, Front

LEMMA NextWritten == TypeInv /\ WrittenInv /\ [Next]_vars => WrittenInv'
<1> SUFFICES ASSUME TypeInv, WrittenInv, [Next]_vars PROVE WrittenInv'
  OBVIOUS
<1> USE DEF requestVars, sinkVars, loggerVars, backendVars, outcomeVars, boundVars
<1>a. /\ written \in Nat /\ Len(table) \in Nat /\ Len(pending) \in Nat
      /\ RecordsOf(batch) \in Seq(Records) /\ Len(RecordsOf(batch)) \in Nat
  BY RecordsOfType, LenProperties DEF TypeInv, TypeOK, StopEndsBatch
<1>1. ASSUME NEW r \in Requests, RequestStep(r) PROVE WrittenInv'
  BY <1>1, WrittenStutters
     DEF RequestStep, Admit, FallBack, SeesLoop, BuildFails, HandOff
<1>2. ASSUME NEW c \in Clients, ClientStep(c) PROVE WrittenInv'
  BY <1>2, WrittenStutters DEF ClientStep, LogAndFlush, FlushReturns
<1>3. CASE LogNowait
  BY <1>3, WrittenStutters DEF LogNowait
<1>4. CASE Commit
  <2>1. Len(table') = Len(table) + Len(pending) + Len(RecordsOf(batch))
    BY <1>4, <1>a, ConcatProperties DEF Commit, TypeInv, TypeOK
  <2>2. RecordsOf(batch)' = RecordsOf(batch)
    BY <1>4 DEF Commit, RecordsOf, Last, Front
  <2>3. QED
    BY <1>4, <1>a, <2>1, <2>2 DEF Commit, WrittenInv
<1>5. CASE WriteFails
  BY <1>5, WrittenStutters DEF WriteFails
<1>6. CASE CollectBatch \/ TakeStop
  BY <1>6 DEF CollectBatch, TakeStop, WrittenInv
<1>7. CASE FlushSucceeds
  BY <1>7, <1>a DEF FlushSucceeds, AfterFlush, WrittenInv
<1>8. CASE FlushFails
  BY <1>8, <1>a DEF FlushFails, AfterFlush, WrittenInv
<1>9. CASE BeginStart
  BY <1>9, WrittenStutters DEF BeginStart
<1>10. CASE ConnectSucceeds
  BY <1>10 DEF ConnectSucceeds, WrittenInv, TypeInv, WriterLives
<1>11. CASE ConnectFails
  BY <1>11, WrittenStutters DEF ConnectFails
<1>12. CASE BeginStop
  BY <1>12, WrittenStutters DEF BeginStop
<1>13. CASE PutStop \/ CloseBackend
  BY <1>13, WrittenStutters DEF PutStop, CloseBackend
<1>14. CASE JoinWriter
  BY <1>14, WrittenStutters DEF JoinWriter
<1>15. CASE Crash
  BY <1>15, <1>a DEF Crash, WrittenInv
<1>16. CASE Finished \/ UNCHANGED vars
  BY <1>16, WrittenStutters DEF Finished, vars
<1>17. QED
  BY <1>1, <1>2, <1>3, <1>4, <1>5, <1>6, <1>7, <1>8, <1>9, <1>10, <1>11, <1>12,
     <1>13, <1>14, <1>15, <1>16
     DEF Next, ExecutorStep, WriterStep, StartStep, StopStep

\* The counter of AsyncAuditLogger.written is backed by committed rows, for
\* every number of failures, restarts and crashes.
THEOREM WrittenCorrect == Spec => []WrittenIsBacked
<1>1. Init => WrittenInv
  BY EmptySeq DEF Init, WrittenInv
<1>2. TypeInv /\ WrittenInv => WrittenIsBacked
  <2> SUFFICES ASSUME TypeInv, WrittenInv PROVE WrittenIsBacked
    OBVIOUS
  <2>1. /\ written \in Nat /\ Len(table) \in Nat
        /\ Len(RecordsOf(batch)) \in Nat
    BY RecordsOfType, LenProperties DEF TypeInv, TypeOK, StopEndsBatch
  <2>2. QED
    BY <2>1 DEF WrittenInv, WrittenIsBacked
<1>3. QED
  BY <1>1, <1>2, AlwaysTypeInv, NextWritten, PTL DEF Spec

-----------------------------------------------------------------------------
(* flush() covers the record.  A waiter of join() is released when the      *)
(* counter is zero; by Accounting nothing is then queued or in a batch.     *)

Settled == Persisted \cup failed \cup cleared

\* Where the record of a waiting client is, and what a finished write means.
FlushInv ==
    /\ writer = "wrote" => Range(RecordsOf(batch)) \subseteq Persisted
    /\ \A c \in Clients :
         pc[c] = "joining" => c \in Range(queue) \cup Range(batch) \cup Settled
    /\ \A c \in Clients : pc[c] \in {"joined", "assured", "refused"} => c \in Settled

\* The records of a batch are all of its items but the sentinel.
LEMMA RecordsOfRange ==
    ASSUME NEW b \in Seq(Items), \A i \in 1..(Len(b) - 1) : b[i] # STOP
    PROVE  Range(b) \ {STOP} \subseteq Range(RecordsOf(b))
<1>1. CASE b # <<>> /\ Last(b) = STOP
  <2>1. /\ Front(b) \in Seq(Items) /\ Len(Front(b)) = Len(b) - 1
        /\ \A i \in 1..(Len(b) - 1) : Front(b)[i] = b[i]
    <3>1. Len(b) \in Nat /\ Len(b) >= 1
      BY <1>1, EmptySeq
    <3>2. Len(b) - 1 \in 0..Len(b) /\ 1 \in 1..(Len(b) + 1)
      BY <3>1
    <3>3. /\ SubSeq(b, 1, Len(b) - 1) \in Seq(Items)
          /\ Len(SubSeq(b, 1, Len(b) - 1)) =
               IF 1 <= Len(b) - 1 THEN ((Len(b) - 1) - 1) + 1 ELSE 0
          /\ \A i \in 1..Len(SubSeq(b, 1, Len(b) - 1)) :
               SubSeq(b, 1, Len(b) - 1)[i] = b[(1 + i) - 1]
      BY <3>2, SubSeqType
    <3>4. Len(SubSeq(b, 1, Len(b) - 1)) = Len(b) - 1
      <4> DEFINE n == Len(b)
                 m == Len(SubSeq(b, 1, Len(b) - 1))
      <4>1. n \in Nat /\ n >= 1 /\ m = IF 1 <= n - 1 THEN ((n - 1) - 1) + 1 ELSE 0
        BY <3>1, <3>3
      <4> HIDE DEF n, m
      <4>2. m = n - 1
        BY <4>1
      <4>3. QED
        BY <4>2 DEF n, m
    <3>5. QED
      BY <3>1, <3>3, <3>4 DEF Front
  <2>2. Range(b) = {b[i] : i \in 1..Len(b)} /\ Range(Front(b)) = {Front(b)[i] : i \in 1..(Len(b) - 1)}
    BY <2>1, RangeEquality
  <2>3. ASSUME NEW x \in Range(b) \ {STOP} PROVE x \in Range(Front(b))
    <3>1. PICK i \in 1..Len(b) : x = b[i]
      BY <2>2, <2>3
    <3>2. i \in 1..(Len(b) - 1)
      BY <1>1, <2>3, <3>1, LenProperties DEF Last
    <3>3. QED
      BY <2>1, <2>2, <3>1, <3>2
  <2>4. QED
    BY <1>1, <2>3 DEF RecordsOf
<1>2. CASE ~(b # <<>> /\ Last(b) = STOP)
  BY <1>2 DEF RecordsOf
<1>3. QED
  BY <1>1, <1>2

\* Rows are never removed, and a record once settled stays so.
LEMMA SettledGrows ==
    ASSUME TypeInv, [Next]_vars
    PROVE  Persisted \subseteq Persisted' /\ Settled \subseteq Settled'
<1> USE DEF requestVars, sinkVars, loggerVars, backendVars, outcomeVars, boundVars
<1>1. Persisted \subseteq Persisted'
  <2>1. CASE Commit
    <3>1. RecordsOf(batch) \in Seq(Records)
      BY RecordsOfType DEF TypeInv, TypeOK, StopEndsBatch
    <3>2. /\ table \in Seq(Records) /\ pending \in Seq(Records)
          /\ table \o pending \in Seq(Records)
      BY ConcatProperties DEF TypeInv, TypeOK
    <3>3. Range(table') = Range(table \o pending) \cup Range(RecordsOf(batch))
      BY <2>1, <3>1, <3>2, RangeConcatenation DEF Commit
    <3>4. Range(table \o pending) = Range(table) \cup Range(pending)
      BY <3>2, RangeConcatenation
    <3>5. QED
      BY <3>3, <3>4 DEF Persisted
  <2>2. CASE ~Commit
    <3>1. UNCHANGED table
      BY <2>2 DEF Next, vars, RequestStep, Admit, FallBack, SeesLoop, BuildFails, HandOff,
         ClientStep, LogAndFlush, FlushReturns, LogNowait, ExecutorStep, WriteFails,
         WriterStep, CollectBatch, TakeStop, FlushSucceeds, FlushFails, StartStep,
         BeginStart, ConnectSucceeds, ConnectFails, BeginStop, StopStep, PutStop,
         JoinWriter, CloseBackend, Crash, Finished
    <3>2. QED
      BY <3>1 DEF Persisted
  <2>3. QED
    BY <2>1, <2>2
<1>2. failed \subseteq failed' /\ cleared \subseteq cleared'
  BY DEF Next, vars, RequestStep, Admit, FallBack, SeesLoop, BuildFails, HandOff,
     ClientStep, LogAndFlush, FlushReturns, LogNowait, ExecutorStep, Commit, WriteFails,
     WriterStep, CollectBatch, TakeStop, FlushSucceeds, FlushFails, StartStep,
     BeginStart, ConnectSucceeds, ConnectFails, BeginStop, StopStep, PutStop,
     JoinWriter, CloseBackend, Crash, Finished
<1>3. QED
  BY <1>1, <1>2 DEF Settled

\* The items of the queue and of the batch survive the steps that leave them
\* alone, and a client that did not move keeps its obligation.
LEMMA FlushStutters ==
    ASSUME FlushInv, UNCHANGED <<queue, batch, table>>, Settled \subseteq Settled',
           writer' = "wrote" => writer = "wrote",
           \A c \in Clients : pc'[c] = pc[c]
    PROVE  FlushInv'
BY DEF FlushInv, RecordsOf, Last, Front, Persisted

\* What happens to the waiters when the items of the batch have been handled.
LEMMA TaskDoneReleases ==
    ASSUME TypeInv, TypeInv', FlushInv, NEW k, TaskDone(k),
           Settled \subseteq Settled', writer' # "wrote",
           Range(queue) \cup Range(batch) \subseteq
               Range(queue') \cup Range(batch') \cup Settled' \cup {STOP}
    PROVE  FlushInv'
<1>1. \A c \in Clients : c # STOP
  BY SentinelAssumption DEF Records
<1>2. ASSUME unfinished' = 0 PROVE Range(queue') \cup Range(batch') = {}
  <2>1. queue' \in Seq(Items) /\ batch' \in Seq(Items)
    BY DEF TypeInv, TypeOK
  <2>2. Len(queue') \in Nat /\ Len(batch') \in Nat
    BY <2>1, LenProperties
  <2>3. unfinished' = Len(queue') + Len(batch')
    BY DEF TypeInv, Accounting
  <2>4. Len(queue') = 0 /\ Len(batch') = 0
    BY <1>2, <2>2, <2>3
  <2>5. /\ Range(queue') = {queue'[i] : i \in 1..Len(queue')}
        /\ Range(batch') = {batch'[i] : i \in 1..Len(batch')}
    BY <2>1, RangeEquality
  <2>6. QED
    BY <2>4, <2>5
<1>3. \A c \in Clients :
        pc'[c] = IF unfinished' = 0 /\ pc[c] = "joining" THEN "joined" ELSE pc[c]
  BY DEF TaskDone, Records
<1>4. ASSUME NEW c \in Clients, pc[c] = "joining"
      PROVE  c \in Range(queue') \cup Range(batch') \cup Settled'
  BY <1>1, <1>4 DEF FlushInv
<1>5. QED
  BY <1>2, <1>3, <1>4 DEF FlushInv

LEMMA NextFlush == TypeInv /\ TypeInv' /\ FlushInv /\ [Next]_vars => FlushInv'
<1> SUFFICES ASSUME TypeInv, TypeInv', FlushInv, [Next]_vars PROVE FlushInv'
  OBVIOUS
<1> USE DEF requestVars, sinkVars, loggerVars, backendVars, outcomeVars, boundVars
<1>a. Settled \subseteq Settled' /\ Persisted \subseteq Persisted'
  BY SettledGrows
<1>b. /\ queue \in Seq(Items) /\ batch \in Seq(Items) /\ Len(queue) \in Nat
      /\ pc \in [Records -> {"idle", "admitted", "building", "done", "joining",
                             "joined", "assured", "refused", "stranded", "gone"}]
      /\ Clients \subseteq Records /\ \A c \in Clients : c # STOP
  BY LenProperties, SentinelAssumption DEF TypeInv, TypeOK, Records
<1>1. ASSUME NEW r \in Requests, RequestStep(r) PROVE FlushInv'
  <2>1. \A c \in Clients : pc'[c] = pc[c]
    BY <1>1, <1>b, KindsAssumption
       DEF RequestStep, Admit, FallBack, SeesLoop, BuildFails, HandOff, Goto
  <2>2. QED
    BY <1>1, <1>a, <2>1, FlushStutters
       DEF RequestStep, Admit, FallBack, SeesLoop, BuildFails, HandOff
<1>2. ASSUME NEW c \in Clients, LogAndFlush(c) PROVE FlushInv'
  <2>1. c \in Items /\ Range(queue') = Range(queue) \cup {c}
    BY <1>2, <1>b, AppendRange DEF LogAndFlush, Put, Items
  <2>2. \A d \in Clients : pc'[d] = IF d = c THEN "joining" ELSE pc[d]
    BY <1>2, <1>b DEF LogAndFlush, Goto
  <2>3. QED
    BY <1>2, <1>a, <2>1, <2>2 DEF LogAndFlush, FlushInv, RecordsOf, Last, Front, Persisted
<1>3. ASSUME NEW c \in Clients, FlushReturns(c) PROVE FlushInv'
  <2>1. \A d \in Clients : d # c => pc'[d] = pc[d]
    BY <1>3, <1>b DEF FlushReturns, Goto
  <2>2. pc[c] = "joined" /\ pc'[c] \in {"assured", "refused"}
    BY <1>3, <1>b DEF FlushReturns, Goto
  <2>3. QED
    BY <1>3, <1>a, <2>1, <2>2 DEF FlushReturns, FlushInv, RecordsOf, Last, Front, Persisted
<1>4. CASE LogNowait
  <2>1. Range(queue) \subseteq Range(queue')
    <3>1. CASE UNCHANGED queue
      BY <3>1
    <3>2. CASE queue' = Append(queue, Head(callbacks))
      <4>1. Head(callbacks) \in Items
        BY <1>4, HeadTailProperties DEF LogNowait, TypeInv, TypeOK, Items, Records
      <4>2. QED
        BY <1>b, <3>2, <4>1, AppendRange
    <3>3. QED
      BY <1>4, <3>1, <3>2 DEF LogNowait, Put
  <2>2. UNCHANGED <<pc, batch, writer, table>>
    BY <1>4 DEF LogNowait
  <2>3. QED
    BY <1>a, <2>1, <2>2 DEF FlushInv, RecordsOf, Last, Front, Persisted
<1>5. CASE Commit
  <2>1. RecordsOf(batch) \in Seq(Records)
    BY RecordsOfType DEF TypeInv, TypeOK, StopEndsBatch
  <2>2. table \o pending \in Seq(Records)
    BY ConcatProperties DEF TypeInv, TypeOK
  <2>3. Range(RecordsOf(batch)) \subseteq Range(table')
    <3>1. Range((table \o pending) \o RecordsOf(batch))
            = Range(table \o pending) \cup Range(RecordsOf(batch))
      BY <2>1, <2>2, RangeConcatenation
    <3>2. table' = (table \o pending) \o RecordsOf(batch)
      BY <1>5 DEF Commit
    <3>3. QED
      BY <3>1, <3>2
  <2>4. RecordsOf(batch)' = RecordsOf(batch)
    BY <1>5 DEF Commit, RecordsOf, Last, Front
  <2>5. QED
    BY <1>5, <1>a, <2>3, <2>4 DEF Commit, FlushInv, Persisted
<1>6. CASE WriteFails
  BY <1>6, <1>a, FlushStutters DEF WriteFails
<1>7. CASE CollectBatch
  <2>1. PICK n \in 1..Len(queue) :
           batch' = SubSeq(queue, 1, n) /\ queue' = SubSeq(queue, n + 1, Len(queue))
    BY <1>7 DEF CollectBatch
  <2>2. queue = batch' \o queue'
    <3>1. n \in 0..Len(queue) /\ 1 \in 1..(Len(queue) + 1) /\ Len(queue) \in n..Len(queue)
      BY <1>b, <2>1
    <3>2. SubSeq(queue, 1, n) \o SubSeq(queue, n + 1, Len(queue)) = SubSeq(queue, 1, Len(queue))
      BY <1>b, <3>1, ConcatAdjacentSubSeq
    <3>3. QED
      BY <1>b, <2>1, <3>2, SubSeqFull
  <2>3. Range(queue) = Range(batch') \cup Range(queue')
    <3>1. batch' \in Seq(Items) /\ queue' \in Seq(Items)
      BY DEF TypeInv, TypeOK
    <3>2. QED
      BY <2>2, <3>1, RangeConcatenation
  <2>4. Range(batch) = {}
    <3>1. batch = <<>>
      BY <1>7 DEF CollectBatch, TypeInv, Accounting
    <3>2. QED
      BY <3>1 DEF Range
  <2>5. QED
    BY <1>7, <1>a, <2>3, <2>4 DEF CollectBatch, FlushInv
<1>8. CASE TakeStop
  <2>1. Range(queue) \subseteq Range(queue') \cup {STOP}
    <3>1. /\ queue' \in Seq(Items) /\ Len(queue') = Len(queue) - 1
          /\ \A i \in 1..Len(queue') : queue'[i] = queue[i + 1]
      BY <1>8, <1>b, HeadTailProperties DEF TakeStop
    <3>2. /\ Range(queue) = {queue[i] : i \in 1..Len(queue)}
          /\ Range(queue') = {queue'[i] : i \in 1..Len(queue')}
      BY <1>b, <3>1, RangeEquality
    <3>3. ASSUME NEW i \in 1..Len(queue), i # 1 PROVE queue[i] \in Range(queue')
      <4>1. i - 1 \in 1..Len(queue') /\ queue'[i - 1] = queue[(i - 1) + 1]
        BY <1>b, <3>1, <3>3
      <4>2. (i - 1) + 1 = i
        OBVIOUS
      <4>3. QED
        BY <3>2, <4>1, <4>2
    <3>4. QED
      BY <1>8, <3>2, <3>3 DEF TakeStop
  <2>2. TaskDone(1) /\ writer' # "wrote" /\ UNCHANGED batch
    BY <1>8 DEF TakeStop
  <2>3. QED
    BY <1>a, <2>1, <2>2, TaskDoneReleases
<1>9. CASE FlushSucceeds \/ FlushFails
  <2>1. Range(batch) \ {STOP} \subseteq Range(RecordsOf(batch))
    BY RecordsOfRange DEF TypeInv, TypeOK, StopEndsBatch
  <2>2. Range(RecordsOf(batch)) \subseteq Settled'
    <3>1. CASE FlushSucceeds
      BY <3>1, <1>a DEF FlushSucceeds, FlushInv, Settled
    <3>2. CASE FlushFails
      BY <3>2 DEF FlushFails, Settled
    <3>3. QED
      BY <1>9, <3>1, <3>2
  <2>3. TaskDone(Len(batch)) /\ writer' # "wrote" /\ UNCHANGED queue
    BY <1>9 DEF FlushSucceeds, FlushFails, AfterFlush
  <2>4. QED
    BY <1>a, <2>1, <2>2, <2>3, TaskDoneReleases
<1>10. CASE BeginStart
  <2>1. \A c \in Clients : pc'[c] = IF pc[c] = "joining" THEN "stranded" ELSE pc[c]
    BY <1>10, <1>b DEF BeginStart
  <2>2. writer' # "wrote"
    BY <1>10 DEF BeginStart
  <2>3. QED
    BY <1>a, <2>1, <2>2 DEF FlushInv
<1>11. CASE ConnectSucceeds \/ ConnectFails
  BY <1>11, <1>a, FlushStutters DEF ConnectSucceeds, ConnectFails
<1>12. CASE BeginStop
  <2>1. CASE drain'
    BY <1>12, <1>a, <2>1, FlushStutters DEF BeginStop
  <2>2. CASE ~drain'
    <3>1. /\ queue' = <<>> /\ TaskDone(Len(queue))
          /\ cleared' = cleared \cup (Range(queue) \cap Records)
          /\ UNCHANGED <<writer, batch, table>>
      BY <1>12, <2>2 DEF BeginStop
    <3>2. Range(queue) \subseteq Settled' \cup {STOP}
      BY <1>b, <3>1, RangeOfSeq DEF Settled, Items
    <3>3. CASE writer # "wrote"
      BY <1>a, <3>1, <3>2, <3>3, TaskDoneReleases
    <3>4. CASE writer = "wrote"
      <4>1. unfinished' # 0
        <5>1. Len(batch) \in Nat /\ Len(batch) # 0
          BY <1>b, <3>4, EmptySeq, LenProperties DEF TypeInv, Accounting
        <5>2. QED
          BY <1>b, <3>1, <5>1 DEF TypeInv, Accounting, TaskDone
      <4>2. \A c \in Clients : pc'[c] = pc[c]
        BY <1>b, <3>1, <4>1 DEF TaskDone
      <4>3. QED
        BY <1>a, <1>b, <3>1, <3>2, <4>2 DEF FlushInv, RecordsOf, Last, Front, Persisted
    <3>5. QED
      BY <3>3, <3>4
  <2>3. QED
    BY <2>1, <2>2
<1>13. CASE PutStop
  <2>1. Range(queue) \subseteq Range(queue')
    BY <1>13, <1>b, AppendRange DEF PutStop, Put, Items
  <2>2. UNCHANGED <<pc, batch, writer, table>>
    BY <1>13 DEF PutStop
  <2>3. QED
    BY <1>a, <2>1, <2>2 DEF FlushInv, RecordsOf, Last, Front, Persisted
<1>14. CASE JoinWriter \/ CloseBackend
  BY <1>14, <1>a, FlushStutters DEF JoinWriter, CloseBackend
<1>15. CASE Crash
  <2>1. \A c \in Clients : pc'[c] # "joining"
    BY <1>15, <1>b DEF Crash
  <2>2. writer' # "wrote"
    BY <1>15 DEF Crash
  <2>3. \A c \in Clients : pc'[c] \in {"joined", "assured", "refused"} => c \in Settled
    <3>1. \A c \in Clients :
              pc'[c] \in {"joined", "assured", "refused"} => pc'[c] = pc[c]
      BY <1>15, <1>b DEF Crash
    <3>2. QED
      BY <3>1 DEF FlushInv
  <2>4. \A c \in Clients :
            pc'[c] = "joining" => c \in Range(queue') \cup Range(batch') \cup Settled'
    BY <2>1
  <2>5. \A c \in Clients : pc'[c] \in {"joined", "assured", "refused"} => c \in Settled'
    BY <1>a, <2>3
  <2>6. QED
    BY <2>2, <2>4, <2>5 DEF FlushInv
<1>16. CASE Finished \/ UNCHANGED vars
  BY <1>16, <1>a, FlushStutters DEF Finished, vars
<1>17. QED
  BY <1>1, <1>2, <1>3, <1>4, <1>5, <1>6, <1>7, <1>8, <1>9, <1>10, <1>11, <1>12,
     <1>13, <1>14, <1>15, <1>16
     DEF Next, ClientStep, ExecutorStep, WriterStep, StartStep, StopStep

\* A caller of log() and flush() runs again only when its record has been
\* through the writer or was thrown away by stop(drain=False), whatever the
\* other callers, the writer, failing writes, restarts and crashes do.
THEOREM FlushCorrect == Spec => []FlushCoversTheRecord
<1>1. Init => FlushInv
  BY DEF Init, FlushInv, Records
<1>2. FlushInv => FlushCoversTheRecord
  BY DEF FlushInv, FlushCoversTheRecord, Settled
<1>3. QED
  BY <1>1, <1>2, AlwaysTypeInv, NextFlush, PTL DEF Spec

-----------------------------------------------------------------------------
(* The sentinel.  In a server that finishes its requests before it shuts    *)
(* down, nothing enters the queue after _STOP, so the writer returns only   *)
(* when the queue is empty.                                                 *)

\* The sink knows the loop exactly while the logger serves.
LoopFollowsPhase == sinkLoop <=> phase = "serving"

\* No request thread is on its way into the queue once stop() has begun.
ThreadsAreOut ==
    /\ phase # "serving" => callbacks = <<>> /\ \A r \in Requests : pc[r] # "building"
    /\ phase \in {"stopping", "joining", "closing", "stopped"} =>
          \A r \in Requests : pc[r] # "admitted"

\* The sentinel is the last item, and the writer ends on an empty queue.
StopIsLast ==
    /\ phase \in {"fresh", "connecting", "failed", "closing", "stopped"} => queue = <<>>
    /\ writer = "exited" => phase = "joining" /\ queue = <<>>
    /\ \A i \in 1..Len(queue) : queue[i] = STOP => phase = "joining" /\ i = Len(queue)
    /\ \A i \in 1..Len(batch) : batch[i] = STOP => phase = "joining" /\ queue = <<>>

LoopInv == LoopFollowsPhase /\ (Graceful => ThreadsAreOut /\ StopIsLast)

LEMMA InitLoop == Init => LoopInv
BY EmptySeq DEF Init, LoopInv, LoopFollowsPhase, ThreadsAreOut, StopIsLast, Records

LEMMA NextLoopFollows == LoopFollowsPhase /\ [Next]_vars => LoopFollowsPhase'
BY DEF LoopFollowsPhase, vars, requestVars, sinkVars, loggerVars, backendVars,
   outcomeVars, boundVars, Next, RequestStep, Admit, FallBack, SeesLoop, BuildFails,
   HandOff, ClientStep, LogAndFlush, FlushReturns, LogNowait, ExecutorStep, Commit,
   WriteFails, WriterStep, CollectBatch, TakeStop, FlushSucceeds, FlushFails, StartStep,
   BeginStart, ConnectSucceeds, ConnectFails, BeginStop, StopStep, PutStop, JoinWriter,
   CloseBackend, Crash, Finished

\* task_done() moves only the waiters of join().
LEMMA TaskDoneMoves ==
    ASSUME NEW k, TaskDone(k)
    PROVE  \A r \in Records : pc'[r] = pc[r] \/ (pc[r] = "joining" /\ pc'[r] = "joined")
BY DEF TaskDone

LEMMA NextThreads ==
    TypeInv /\ LoopFollowsPhase /\ Graceful /\ ThreadsAreOut /\ [Next]_vars => ThreadsAreOut'
<1> SUFFICES ASSUME TypeInv, LoopFollowsPhase, Graceful, ThreadsAreOut, [Next]_vars
             PROVE  ThreadsAreOut'
  OBVIOUS
<1> USE DEF requestVars, sinkVars, loggerVars, backendVars, outcomeVars, boundVars
<1>a. /\ \A r \in Requests : r \in Records
      /\ pc \in [Records -> {"idle", "admitted", "building", "done", "joining",
                             "joined", "assured", "refused", "stranded", "gone"}]
  BY DEF TypeInv, TypeOK, Records
<1>1. ASSUME NEW r \in Requests, RequestStep(r) PROVE ThreadsAreOut'
  <2>1. CASE Admit(r)
    BY <1>a, <2>1 DEF Admit, Accepting, Goto, ThreadsAreOut
  <2>2. CASE FallBack(r) \/ BuildFails(r)
    BY <1>a, <2>2 DEF FallBack, BuildFails, Goto, ThreadsAreOut
  <2>3. CASE SeesLoop(r) \/ HandOff(r)
    <3>1. phase = "serving" /\ UNCHANGED phase
      BY <2>3 DEF SeesLoop, HandOff, LoopFollowsPhase
    <3>2. QED
      BY <3>1 DEF ThreadsAreOut
  <2>4. QED
    BY <1>1, <2>1, <2>2, <2>3 DEF RequestStep
<1>2. ASSUME NEW c \in Clients, ClientStep(c) PROVE ThreadsAreOut'
  <2>1. \A r \in Requests : pc'[r] = pc[r]
    BY <1>a, <1>2, KindsAssumption DEF ClientStep, LogAndFlush, FlushReturns, Goto
  <2>2. UNCHANGED <<callbacks, phase>>
    BY <1>2 DEF ClientStep, LogAndFlush, FlushReturns
  <2>3. QED
    BY <2>1, <2>2 DEF ThreadsAreOut
<1>3. CASE LogNowait
  BY <1>3 DEF LogNowait, ThreadsAreOut
<1>4. CASE ExecutorStep
  BY <1>4 DEF ExecutorStep, Commit, WriteFails, ThreadsAreOut
<1>5. CASE WriterStep
  <2>1. UNCHANGED <<callbacks, phase>>
    BY <1>5 DEF WriterStep, CollectBatch, TakeStop, FlushSucceeds, FlushFails
  <2>2. \A r \in Requests : pc'[r] = pc[r] \/ pc'[r] = "joined"
    BY <1>a, <1>5, TaskDoneMoves
       DEF WriterStep, CollectBatch, TakeStop, FlushSucceeds, FlushFails, AfterFlush
  <2>3. QED
    BY <2>1, <2>2 DEF ThreadsAreOut
<1>6. CASE StartStep
  BY <1>a, <1>6 DEF StartStep, BeginStart, ConnectSucceeds, ConnectFails, ThreadsAreOut
<1>7. CASE BeginStop
  <2>1. callbacks' = <<>> /\ \A r \in Requests : pc[r] \notin {"admitted", "building"}
    BY <1>a, <1>7 DEF BeginStop, Quiet
  <2>2. \A r \in Requests : pc'[r] = pc[r] \/ pc'[r] = "joined"
    BY <1>a, <1>7, TaskDoneMoves DEF BeginStop
  <2>3. QED
    BY <2>1, <2>2 DEF ThreadsAreOut
<1>8. CASE StopStep
  BY <1>8 DEF StopStep, PutStop, JoinWriter, CloseBackend, ThreadsAreOut
<1>9. CASE Crash
  BY <1>a, <1>9 DEF Crash, ThreadsAreOut
<1>10. CASE Finished \/ UNCHANGED vars
  BY <1>10 DEF Finished, vars, ThreadsAreOut
<1>11. QED
  BY <1>1, <1>2, <1>3, <1>4, <1>5, <1>6, <1>7, <1>8, <1>9, <1>10 DEF Next

\* An item other than the sentinel that enters the queue while the logger
\* serves leaves no trace in StopIsLast.
LEMMA AppendStop ==
    ASSUME TypeInv, StopIsLast, NEW x \in Items \ {STOP}, phase = "serving",
           queue' = Append(queue, x), UNCHANGED <<phase, writer, batch>>
    PROVE  StopIsLast'
<1>1. /\ Len(queue) \in Nat /\ Len(queue') = Len(queue) + 1
      /\ \A i \in 1..Len(queue) : queue'[i] = queue[i]
      /\ queue'[Len(queue) + 1] = x
  BY AppendProperties, LenProperties DEF TypeInv, TypeOK
<1>2. \A i \in 1..Len(queue') : queue'[i] # STOP
  BY <1>1 DEF StopIsLast
<1>3. QED
  BY <1>2 DEF StopIsLast

LEMMA NextStopIsLast ==
    TypeInv /\ ThreadsAreOut /\ Graceful /\ StopIsLast /\ [Next]_vars => StopIsLast'
<1> SUFFICES ASSUME TypeInv, ThreadsAreOut, Graceful, StopIsLast, [Next]_vars
             PROVE  StopIsLast'
  OBVIOUS
<1> USE DEF requestVars, sinkVars, loggerVars, backendVars, outcomeVars, boundVars
<1>a. /\ queue \in Seq(Items) /\ Len(queue) \in Nat /\ batch \in Seq(Items)
      /\ writer \in {"none", "collecting", "exited"} => batch = <<>> /\ Len(batch) = 0
      /\ Len(batch) \in Nat /\ (batch # <<>> => Len(batch) >= 1)
  BY LenProperties, EmptySeq DEF TypeInv, TypeOK, Accounting
<1>1. ASSUME NEW r \in Requests, RequestStep(r) PROVE StopIsLast'
  BY <1>1 DEF RequestStep, Admit, FallBack, SeesLoop, BuildFails, HandOff, StopIsLast
<1>2. ASSUME NEW c \in Clients, ClientStep(c) PROVE StopIsLast'
  <2>1. CASE LogAndFlush(c)
    <3>1. c \in Items \ {STOP}
      BY SentinelAssumption DEF Items, Records
    <3>2. QED
      BY <2>1, <3>1, AppendStop DEF LogAndFlush, Put
  <2>2. CASE FlushReturns(c)
    BY <2>2 DEF FlushReturns, StopIsLast
  <2>3. QED
    BY <1>2, <2>1, <2>2 DEF ClientStep
<1>3. CASE LogNowait
  <2>1. phase = "serving" /\ Head(callbacks) \in Items \ {STOP}
    BY <1>3, HeadTailProperties, SentinelAssumption
       DEF LogNowait, ThreadsAreOut, TypeInv, TypeOK, Items, Records
  <2>2. CASE queue' = Append(queue, Head(callbacks))
    BY <1>3, <2>1, <2>2, AppendStop DEF LogNowait
  <2>3. CASE UNCHANGED queue
    BY <1>3, <2>3 DEF LogNowait, StopIsLast
  <2>4. QED
    BY <1>3, <2>2, <2>3 DEF LogNowait, Put
<1>4. CASE ExecutorStep
  BY <1>4 DEF ExecutorStep, Commit, WriteFails, StopIsLast
<1>5. CASE CollectBatch
  <2>1. PICK n \in 1..Len(queue) :
           batch' = SubSeq(queue, 1, n) /\ queue' = SubSeq(queue, n + 1, Len(queue))
    BY <1>5 DEF CollectBatch
  <2>2. Len(batch') = n /\ \A i \in 1..n : batch'[i] = queue[i]
    BY <1>a, <2>1, SubSeqType
  <2>3. /\ queue' \in Seq(Items) /\ Len(queue') = Len(queue) - n
        /\ \A i \in 1..Len(queue') : queue'[i] = queue[i + n]
    BY <1>a, <2>1, SubSeqType
  <2>4. \A i \in 1..Len(queue') : queue'[i] = STOP => phase = "joining" /\ i = Len(queue')
    <3>1. \A i \in 1..Len(queue') : i + n \in 1..Len(queue)
      BY <1>a, <2>3
    <3>2. QED
      BY <1>a, <2>3, <3>1 DEF StopIsLast
  <2>5. \A i \in 1..Len(batch') : batch'[i] = STOP => phase = "joining" /\ queue' = <<>>
    <3> SUFFICES ASSUME NEW i \in 1..n, batch'[i] = STOP
                 PROVE  phase = "joining" /\ queue' = <<>>
      BY <2>2
    <3>1. phase = "joining" /\ i = Len(queue)
      BY <1>a, <2>1, <2>2 DEF StopIsLast
    <3>2. Len(queue') = 0
      BY <1>a, <2>3, <3>1
    <3>3. QED
      BY <2>3, <3>1, <3>2, EmptySeq
  <2>6. UNCHANGED phase /\ writer' = "writing" /\ queue # <<>>
    BY <1>5 DEF CollectBatch
  <2>7. QED
    BY <2>4, <2>5, <2>6 DEF StopIsLast
<1>6. CASE TakeStop
  <2>1. queue' \in Seq(Items) /\ Len(queue') = Len(queue) - 1 /\ Len(queue) >= 1
    BY <1>a, <1>6, HeadTailProperties, EmptySeq DEF TakeStop
  <2>2. phase = "joining" /\ Len(queue) = 1
    <3>1. 1 \in 1..Len(queue) /\ queue[1] = STOP
      BY <1>6, <2>1, <1>a DEF TakeStop
    <3>2. QED
      BY <3>1 DEF StopIsLast
  <2>3. queue' = <<>> /\ Len(queue') = 0
    BY <2>1, <2>2, EmptySeq
  <2>4. QED
    BY <1>6, <1>a, <2>2, <2>3 DEF TakeStop, StopIsLast
<1>7. CASE FlushSucceeds \/ FlushFails
  <2>1. /\ batch # <<>> /\ UNCHANGED <<phase, queue>> /\ batch' = <<>>
        /\ writer' = IF Last(batch) = STOP THEN "exited" ELSE "collecting"
    BY <1>7 DEF FlushSucceeds, FlushFails, AfterFlush, TypeInv, Accounting
  <2>2. Last(batch) = STOP => phase = "joining" /\ queue = <<>>
    BY <1>a, <2>1 DEF Last, StopIsLast
  <2>3. Len(batch') = 0
    BY <2>1, EmptySeq
  <2>4. QED
    BY <2>1, <2>2, <2>3 DEF StopIsLast
<1>8. CASE StartStep
  <2>1. batch = <<>> /\ Len(batch) = 0 /\ UNCHANGED batch /\ writer' # "exited"
    BY <1>8, <1>a
       DEF StartStep, BeginStart, ConnectSucceeds, ConnectFails, TypeInv, WriterLives
  <2>2. queue' = <<>> /\ Len(queue') = 0
    BY <1>8, EmptySeq DEF StartStep, BeginStart, ConnectSucceeds, ConnectFails, StopIsLast
  <2>3. QED
    BY <2>1, <2>2 DEF StopIsLast
<1>9. CASE BeginStop
  <2>1. phase = "serving" /\ phase' = "stopping" /\ UNCHANGED <<writer, batch>>
    BY <1>9 DEF BeginStop
  <2>2. queue' = queue \/ (queue' = <<>> /\ Len(queue') = 0)
    BY <1>9, EmptySeq DEF BeginStop
  <2>3. QED
    BY <2>1, <2>2 DEF StopIsLast
<1>10. CASE PutStop
  <2>1. /\ Len(queue') = Len(queue) + 1
        /\ \A i \in 1..Len(queue) : queue'[i] = queue[i]
    BY <1>10, <1>a, AppendProperties DEF PutStop, Put, Items
  <2>2. /\ \A i \in 1..Len(queue) : queue[i] # STOP
        /\ \A i \in 1..Len(batch) : batch[i] # STOP
        /\ writer # "exited" /\ phase' = "joining" /\ UNCHANGED <<writer, batch>>
    BY <1>10 DEF PutStop, StopIsLast
  <2>3. \A i \in 1..Len(queue') : queue'[i] = STOP => i = Len(queue')
    BY <1>a, <2>1, <2>2
  <2>4. QED
    BY <2>2, <2>3 DEF StopIsLast
<1>11. CASE JoinWriter \/ CloseBackend
  <2>1. queue = <<>> /\ Len(queue) = 0 /\ batch = <<>> /\ Len(batch) = 0
    BY <1>11, <1>a, EmptySeq
       DEF JoinWriter, CloseBackend, StopIsLast, TypeInv, WriterLives
  <2>2. writer' = "none" /\ UNCHANGED <<queue, batch>>
    BY <1>11 DEF JoinWriter, CloseBackend, TypeInv, WriterLives
  <2>3. QED
    BY <2>1, <2>2 DEF StopIsLast
<1>12. CASE Crash
  BY <1>12, EmptySeq DEF Crash, StopIsLast
<1>13. CASE Finished \/ UNCHANGED vars
  BY <1>13 DEF Finished, vars, StopIsLast
<1>14. QED
  BY <1>1, <1>2, <1>3, <1>4, <1>5, <1>6, <1>7, <1>8, <1>9, <1>10, <1>11, <1>12, <1>13
     DEF Next, WriterStep, StopStep

LEMMA NextLoop == TypeInv /\ LoopInv /\ [Next]_vars => LoopInv'
BY NextLoopFollows, NextThreads, NextStopIsLast DEF LoopInv

LEMMA AlwaysLoopInv == Spec => []LoopInv
<1>1. QED
  BY InitLoop, NextLoop, AlwaysTypeInv, PTL DEF Spec
-----------------------------------------------------------------------------
(* An orderly shutdown settles every record.  Until then a decided request  *)
(* is in its thread, in a callback, in the queue or in the writer's batch.  *)

Reported == Settled \cup console \cup dropped

InFlight == Range(callbacks) \cup Range(queue) \cup Range(batch)

PlacedInv ==
    Graceful /\ crashes = 0 =>
        \A r \in Requests :
            verdict[r] # "none" =>
                pc[r] \in {"admitted", "building"} \/ r \in InFlight \cup Reported

\* A step that settles, or keeps in flight, whatever was in flight, and that
\* leaves the request threads alone.
LEMMA PlacedStutters ==
    ASSUME PlacedInv, Reported \subseteq Reported', InFlight \subseteq InFlight' \cup Reported' \cup {STOP},
           UNCHANGED <<verdict, crashes>>,
           \A r \in Requests : pc[r] \in {"admitted", "building"} => pc'[r] = pc[r]
    PROVE  PlacedInv'
<1>1. \A r \in Requests : r # STOP
  BY SentinelAssumption DEF Records
<1>2. QED
  BY <1>1 DEF PlacedInv

\* Nothing that was reported is forgotten.
LEMMA ReportedGrows ==
    ASSUME TypeInv, [Next]_vars
    PROVE  Reported \subseteq Reported'
<1> USE DEF requestVars, sinkVars, loggerVars, backendVars, outcomeVars, boundVars
<1>1. console \subseteq console' /\ dropped \subseteq dropped'
  BY DEF Next, vars, RequestStep, Admit, FallBack, SeesLoop, BuildFails, HandOff,
     ClientStep, LogAndFlush, FlushReturns, LogNowait, ExecutorStep, Commit, WriteFails,
     WriterStep, CollectBatch, TakeStop, FlushSucceeds, FlushFails, StartStep,
     BeginStart, ConnectSucceeds, ConnectFails, BeginStop, StopStep, PutStop,
     JoinWriter, CloseBackend, Crash, Finished
<1>2. QED
  BY <1>1, SettledGrows DEF Reported

\* CollectBatch cuts the queue in two.
LEMMA CollectSplits ==
    ASSUME TypeInv, CollectBatch
    PROVE  /\ queue = batch' \o queue'
           /\ batch' \in Seq(Items) /\ queue' \in Seq(Items)
           /\ batch = <<>>
<1>1. PICK n \in 1..Len(queue) :
         batch' = SubSeq(queue, 1, n) /\ queue' = SubSeq(queue, n + 1, Len(queue))
  BY DEF CollectBatch
<1>2. queue \in Seq(Items) /\ Len(queue) \in Nat
  BY LenProperties DEF TypeInv, TypeOK
<1>3. n \in 0..Len(queue) /\ 1 \in 1..(Len(queue) + 1) /\ Len(queue) \in n..Len(queue)
  BY <1>1, <1>2
<1>4. SubSeq(queue, 1, n) \o SubSeq(queue, n + 1, Len(queue)) = SubSeq(queue, 1, Len(queue))
  BY <1>2, <1>3, ConcatAdjacentSubSeq
<1>5. queue = batch' \o queue'
  BY <1>1, <1>2, <1>4, SubSeqFull
<1>6. batch' \in Seq(Items) /\ queue' \in Seq(Items)
  BY <1>1, <1>2, SubSeqType
<1>7. batch = <<>>
  BY DEF CollectBatch, TypeInv, Accounting
<1>8. QED
  BY <1>5, <1>6, <1>7

LEMMA NextPlaced ==
    TypeInv /\ FlushInv /\ LoopInv /\ PlacedInv /\ [Next]_vars => PlacedInv'
<1> SUFFICES ASSUME TypeInv, FlushInv, LoopInv, PlacedInv, [Next]_vars PROVE PlacedInv'
  OBVIOUS
<1> USE DEF requestVars, sinkVars, loggerVars, backendVars, outcomeVars, boundVars
<1>a. /\ queue \in Seq(Items) /\ batch \in Seq(Items) /\ callbacks \in Seq(Requests)
      /\ pc \in [Records -> {"idle", "admitted", "building", "done", "joining",
                             "joined", "assured", "refused", "stranded", "gone"}]
      /\ \A r \in Requests : r \in Records
  BY DEF TypeInv, TypeOK, Records
<1>b. Reported \subseteq Reported'
  BY ReportedGrows
<1>1. ASSUME NEW r \in Requests, RequestStep(r) PROVE PlacedInv'
  <2>1. UNCHANGED <<queue, batch, crashes>> /\ InFlight \subseteq InFlight'
    <3>1. UNCHANGED <<queue, batch, crashes>>
      BY <1>1 DEF RequestStep, Admit, FallBack, SeesLoop, BuildFails, HandOff
    <3>2. Range(callbacks) \subseteq Range(callbacks')
      <4>1. UNCHANGED callbacks \/ callbacks' = Append(callbacks, r)
        BY <1>1 DEF RequestStep, Admit, FallBack, SeesLoop, BuildFails, HandOff
      <4>2. Range(Append(callbacks, r)) = Range(callbacks) \cup {r}
        BY <1>a, AppendRange
      <4>3. QED
        BY <4>1, <4>2
    <3>3. QED
      BY <3>1, <3>2 DEF InFlight
  <2>2. \A q \in Requests : q # r => pc'[q] = pc[q] /\ verdict'[q] = verdict[q]
    BY <1>1, <1>a
       DEF RequestStep, Admit, FallBack, SeesLoop, BuildFails, HandOff, Goto, TypeInv, TypeOK
  <2>3. pc'[r] \in {"admitted", "building"} \/ r \in InFlight' \cup Reported'
    <3>1. CASE Admit(r) \/ SeesLoop(r)
      BY <3>1, <1>a DEF Admit, SeesLoop, Goto
    <3>2. CASE FallBack(r) \/ BuildFails(r)
      BY <3>2 DEF FallBack, BuildFails, Reported
    <3>3. CASE HandOff(r)
      <4>1. r \in Range(callbacks')
        BY <3>3, <1>a, AppendRange DEF HandOff
      <4>2. QED
        BY <4>1 DEF InFlight
    <3>4. QED
      BY <1>1, <3>1, <3>2, <3>3 DEF RequestStep
  <2>4. QED
    BY <1>b, <2>1, <2>2, <2>3 DEF PlacedInv
<1>2. ASSUME NEW c \in Clients, ClientStep(c) PROVE PlacedInv'
  <2>1. UNCHANGED <<verdict, crashes, callbacks, batch>> /\ \A r \in Requests : pc'[r] = pc[r]
    BY <1>2, <1>a, KindsAssumption DEF ClientStep, LogAndFlush, FlushReturns, Goto
  <2>2. Range(queue) \subseteq Range(queue')
    <3>1. UNCHANGED queue \/ queue' = Append(queue, c)
      BY <1>2 DEF ClientStep, LogAndFlush, FlushReturns, Put
    <3>2. c \in Items
      BY DEF Items, Records
    <3>3. Range(Append(queue, c)) = Range(queue) \cup {c}
      BY <3>2, <1>a, AppendRange
    <3>4. QED
      BY <3>1, <3>3
  <2>3. QED
    BY <1>b, <2>1, <2>2, PlacedStutters DEF InFlight
<1>3. CASE LogNowait
  <2>1. Range(callbacks) = {Head(callbacks)} \cup Range(callbacks') /\ Head(callbacks) \in Items
    BY <1>3, <1>a, HeadRange DEF LogNowait, Items, Records
  <2>2. /\ Range(queue) \subseteq Range(queue')
        /\ Head(callbacks) \in Range(queue') \cup dropped'
    <3>1. CASE queue' = Append(queue, Head(callbacks))
      BY <3>1, <2>1, <1>a, AppendRange
    <3>2. CASE UNCHANGED queue /\ dropped' = dropped \cup {Head(callbacks)}
      BY <3>2
    <3>3. QED
      BY <1>3, <3>1, <3>2 DEF LogNowait, Put
  <2>3. UNCHANGED <<verdict, crashes, pc, batch>>
    BY <1>3 DEF LogNowait
  <2>4. InFlight \subseteq InFlight' \cup Reported'
    BY <2>1, <2>2, <2>3 DEF InFlight, Reported
  <2>5. QED
    BY <1>b, <2>3, <2>4, PlacedStutters
<1>4. CASE ExecutorStep
  <2>1. InFlight' = InFlight /\ UNCHANGED <<verdict, crashes, pc>>
    BY <1>4 DEF ExecutorStep, Commit, WriteFails, InFlight
  <2>2. QED
    BY <1>b, <2>1, PlacedStutters
<1>5. CASE CollectBatch
  <2>1. Range(queue) = Range(batch') \cup Range(queue')
    BY <1>5, CollectSplits, RangeConcatenation
  <2>2. Range(batch) = {}
    BY <1>5, CollectSplits, RangeOfEmpty
  <2>3. InFlight' = InFlight /\ UNCHANGED <<verdict, crashes, pc>>
    BY <1>5, <2>1, <2>2 DEF CollectBatch, InFlight
  <2>4. QED
    BY <1>b, <2>3, PlacedStutters
<1>6. CASE TakeStop
  <2>1. Range(queue) \subseteq Range(queue') \cup {STOP}
    <3>1. Head(queue) = STOP
      BY <1>6 DEF TakeStop
    <3>2. QED
      BY <1>6, <1>a, <3>1, HeadRange DEF TakeStop
  <2>2. UNCHANGED <<verdict, crashes, callbacks, batch>>
    BY <1>6 DEF TakeStop
  <2>3. \A r \in Requests : pc[r] \in {"admitted", "building"} => pc'[r] = pc[r]
    BY <1>6, <1>a, TaskDoneMoves DEF TakeStop
  <2>4. QED
    BY <1>b, <2>1, <2>2, <2>3, PlacedStutters DEF InFlight
<1>7. CASE FlushSucceeds \/ FlushFails
  <2>1. Range(batch) \ {STOP} \subseteq Range(RecordsOf(batch))
    BY RecordsOfRange DEF TypeInv, TypeOK, StopEndsBatch
  <2>2. Range(RecordsOf(batch)) \subseteq Reported'
    <3>1. CASE FlushSucceeds
      BY <3>1, <1>b DEF FlushSucceeds, FlushInv, Settled, Reported
    <3>2. CASE FlushFails
      BY <3>2 DEF FlushFails, Settled, Reported
    <3>3. QED
      BY <1>7, <3>1, <3>2
  <2>3. UNCHANGED <<verdict, crashes, callbacks, queue>>
    BY <1>7 DEF FlushSucceeds, FlushFails
  <2>4. \A r \in Requests : pc[r] \in {"admitted", "building"} => pc'[r] = pc[r]
    BY <1>7, <1>a, TaskDoneMoves DEF FlushSucceeds, FlushFails, AfterFlush
  <2>5. InFlight \subseteq InFlight' \cup Reported' \cup {STOP}
    BY <2>1, <2>2, <2>3 DEF InFlight
  <2>6. QED
    BY <1>b, <2>3, <2>4, <2>5, PlacedStutters
<1>8. CASE StartStep
  <2>1. CASE Graceful
    <3>1. queue = <<>>
      BY <1>8, <2>1
         DEF StartStep, BeginStart, ConnectSucceeds, ConnectFails, LoopInv, StopIsLast
    <3>2. Range(queue) = {}
      BY <3>1, RangeOfEmpty
    <3>3. UNCHANGED <<verdict, crashes, callbacks, batch>>
      BY <1>8 DEF StartStep, BeginStart, ConnectSucceeds, ConnectFails
    <3>4. \A r \in Requests : pc[r] \in {"admitted", "building"} => pc'[r] = pc[r]
      BY <1>8, <1>a DEF StartStep, BeginStart, ConnectSucceeds, ConnectFails
    <3>5. QED
      BY <1>b, <3>2, <3>3, <3>4, PlacedStutters DEF InFlight
  <2>2. CASE ~Graceful
    BY <2>2 DEF PlacedInv
  <2>3. QED
    BY <2>1, <2>2
<1>9. CASE BeginStop
  <2>1. Range(queue) \subseteq Range(queue') \cup cleared' \cup {STOP}
    <3>1. CASE drain'
      BY <1>9, <3>1 DEF BeginStop
    <3>2. CASE ~drain'
      <4>1. Range(queue) \subseteq Items
        BY <1>a, RangeOfSeq
      <4>2. QED
        BY <1>9, <3>2, <4>1 DEF BeginStop, Items
    <3>3. QED
      BY <3>1, <3>2
  <2>2. UNCHANGED <<verdict, crashes, callbacks, batch>>
    BY <1>9 DEF BeginStop
  <2>3. \A r \in Requests : pc[r] \in {"admitted", "building"} => pc'[r] = pc[r]
    BY <1>9, <1>a, TaskDoneMoves DEF BeginStop
  <2>4. QED
    BY <1>b, <2>1, <2>2, <2>3, PlacedStutters DEF InFlight, Reported, Settled
<1>10. CASE PutStop
  <2>1. Range(queue) \subseteq Range(queue')
    BY <1>10, <1>a, AppendRange DEF PutStop, Put, Items
  <2>2. UNCHANGED <<verdict, crashes, callbacks, batch, pc>>
    BY <1>10 DEF PutStop
  <2>3. QED
    BY <1>b, <2>1, <2>2, PlacedStutters DEF InFlight
<1>11. CASE JoinWriter \/ CloseBackend \/ Finished \/ UNCHANGED vars
  <2>1. UNCHANGED <<verdict, crashes, callbacks, batch, pc, queue>>
    BY <1>11 DEF JoinWriter, CloseBackend, Finished, vars
  <2>2. QED
    BY <1>b, <2>1, PlacedStutters DEF InFlight
<1>12. CASE Crash
  <2>1. crashes' # 0
    BY <1>12 DEF Crash, TypeInv, TypeOK
  <2>2. QED
    BY <2>1 DEF PlacedInv
<1>13. QED
  BY <1>1, <1>2, <1>3, <1>4, <1>5, <1>6, <1>7, <1>8, <1>9, <1>10, <1>11, <1>12
     DEF Next, WriterStep, StopStep

LEMMA AlwaysFlushInv == Spec => []FlushInv
<1>1. Init => FlushInv
  BY DEF Init, FlushInv, Records
<1>2. QED
  BY <1>1, AlwaysTypeInv, NextFlush, PTL DEF Spec

\* After an orderly shutdown every decision that was taken is in the table, on
\* the console or among the losses that the code reported: none is still in a
\* thread, a callback, the queue or the writer's hands.
THEOREM ShutdownSettles == Spec => []ShutdownSettlesEveryRecord
<1>1. Init => PlacedInv
  BY DEF Init, PlacedInv
<1>2. TypeInv /\ LoopInv /\ PlacedInv => ShutdownSettlesEveryRecord
  <2> SUFFICES ASSUME TypeInv, LoopInv, PlacedInv, Graceful, phase = "stopped", crashes = 0,
                      NEW r \in Requests, verdict[r] # "none"
               PROVE  r \in Reported
    BY DEF ShutdownSettlesEveryRecord, Reported, Settled
  <2>1. callbacks = <<>> /\ queue = <<>> /\ batch = <<>>
    BY DEF LoopInv, ThreadsAreOut, StopIsLast, TypeInv, WriterLives, Accounting
  <2>2. InFlight = {}
    BY <2>1, RangeOfEmpty DEF InFlight
  <2>3. pc[r] \notin {"admitted", "building"}
    BY DEF LoopInv, ThreadsAreOut
  <2>4. QED
    BY <2>2, <2>3 DEF PlacedInv
<1>3. QED
  BY <1>1, <1>2, NextPlaced, AlwaysTypeInv, AlwaysFlushInv, AlwaysLoopInv, PTL DEF Spec
=============================================================================
