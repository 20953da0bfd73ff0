--------------------------- MODULE AuditStore_proofs --------------------------
(***************************************************************************)
(* Machine-checked theorems about AuditStore, for any number of scripts    *)
(* beside the logger, of rows, connections, failing writes and processes   *)
(* killed: what is reported is durable, what is read is whole, and either  *)
(* database implements AuditBackend.                                       *)
(***************************************************************************)
EXTENDS AuditStore, SequenceLemmas, FiniteSetTheorems

Rows == 1..MaxRows

LEMMA BoundsType ==
    /\ MaxBatch \in Nat /\ MaxRows \in Nat /\ MaxOpens \in Nat /\ MaxFaults \in Nat
    /\ MaxCrashes \in Nat
BY StoreBoundsAssumption

-----------------------------------------------------------------------------
(* Type correctness, and the schema                                         *)

\* Nobody gets past a statement that was not executed, so that neither the
\* writer is ready nor a row is there before the triggers are.
SchemaInv ==
    /\ kind = "sqlite" =>
          \A p \in Processes :
              /\ at[p] \in {"off", "table", "no_update", "no_delete", "ready"}
              /\ at[p] \in {"no_update", "no_delete", "ready"} => "table" \in objects
              /\ at[p] \in {"no_delete", "ready"} => "no_update" \in objects
              /\ at[p] = "ready" => "no_delete" \in objects
    /\ kind = "postgres" =>
          /\ \A p \in Processes : at[p] \in {"off", "create", "apply", "ready"}
          /\ "table" \in objects => Triggers \subseteq objects
    /\ job # <<>> => at[App] = "ready" /\ Range(job) \in begun
    /\ table # <<>> => Triggers \subseteq objects

TypeInv == TypeOK /\ SchemaInv

LEMMA RowsType ==
    ASSUME TypeOK
    PROVE  /\ open \in Seq(Rows) /\ table \in Seq(Rows) /\ job \in Seq(Rows)
           /\ left \in Seq(Rows) /\ <<>> \in Seq(Rows)
<1>1. {open, table, job, left} \subseteq Seq(Rows)
  BY DEF TypeOK, Rows
<1>2. <<>> \in Seq(Rows)
  OBVIOUS
<1>3. QED
  BY <1>1, <1>2

\* The triggers are there whenever a batch can be committed.
LEMMA CompleteIsProtected ==
    ASSUME TypeInv, job # <<>>, "table" \in objects
    PROVE  Triggers \subseteq objects
<1>1. kind \in {"sqlite", "postgres"} /\ App \in Processes
  BY DEF TypeInv, TypeOK, Processes
<1>2. QED
  BY <1>1 DEF TypeInv, SchemaInv, Triggers

\* Nobody changes or deletes a row: each of the triggers is there.
LEMMA TamperFails ==
    ASSUME TypeInv, NEW trigger \in Triggers, Tamper(trigger)
    PROVE  UNCHANGED storeVars
<1>1. trigger \in objects
  BY DEF Tamper, TypeInv, SchemaInv
<1>2. table' = table
  BY <1>1 DEF Tamper, Altered
<1>3. QED
  BY <1>2 DEF Tamper, storeVars, setupVars, writeVars

\* The rows of a new batch follow all others.
LEMMA NewBatch ==
    ASSUME TypeOK, NEW n \in 1..MaxBatch, NewRow + n - 1 <= MaxRows
    PROVE  /\ NewRow \in Nat \ {0}
           /\ [i \in 1..n |-> NewRow + i - 1] \in Seq(Rows)
           /\ Len([i \in 1..n |-> NewRow + i - 1]) = n
           /\ Range([i \in 1..n |-> NewRow + i - 1]) = NewRow..(NewRow + n - 1)
           /\ IsInjective([i \in 1..n |-> NewRow + i - 1])
           /\ [i \in 1..n |-> NewRow + i - 1] # <<>>
<1> DEFINE batch == [i \in 1..n |-> NewRow + i - 1]
           first == NewRow
<1>1. first \in Nat \ {0}
  <2>1. UNION begun \subseteq Rows
    BY DEF TypeOK, Rows
  <2>2. IsFiniteSet(Rows)
    BY BoundsType, FS_Interval DEF Rows
  <2>3. IsFiniteSet(UNION begun)
    BY <2>1, <2>2, FS_Subset
  <2>4. Cardinality(UNION begun) \in Nat
    BY <2>3, FS_CardinalityType
  <2>5. QED
    BY <2>4 DEF NewRow
<1>2. n \in Nat \ {0} /\ MaxRows \in Nat /\ first + n - 1 <= MaxRows
  BY BoundsType
<1>3. batch = [i \in 1..n |-> first + i - 1]
  OBVIOUS
<1> HIDE DEF batch, first
<1>4. batch \in [1..n -> Rows]
  BY <1>1, <1>2, <1>3 DEF Rows
<1>5. batch \in Seq(Rows) /\ Len(batch) = n
  BY <1>2, <1>4, FunctionIsSeq
<1>6. Range(batch) = first..(first + n - 1)
  <2>1. Range(batch) = {batch[i] : i \in 1..n}
    BY <1>5, RangeEquality
  <2>2. ASSUME NEW k \in first..(first + n - 1) PROVE \E i \in 1..n : batch[i] = k
    <3>1. k - first + 1 \in 1..n /\ first + (k - first + 1) - 1 = k
      BY <1>1, <1>2
    <3>2. batch[k - first + 1] = k
      BY <1>3, <3>1
    <3>3. QED
      BY <3>1, <3>2
  <2>3. \A i \in 1..n : batch[i] \in first..(first + n - 1)
    BY <1>1, <1>2, <1>3
  <2>4. QED
    BY <2>1, <2>2, <2>3
<1>7. IsInjective(batch)
  BY <1>1, <1>2, <1>3 DEF IsInjective
<1>8. batch # <<>>
  BY <1>2, <1>5
<1>9. QED
  BY <1>1, <1>5, <1>6, <1>7, <1>8 DEF batch, first

LEMMA InitTypes == Init => TypeInv
<1>1. SUFFICES ASSUME Init PROVE TypeInv
  OBVIOUS
<1>2. <<>> \in Seq(1..MaxRows)
  OBVIOUS
<1>3. {open, table, job, left} \subseteq Seq(1..MaxRows)
  BY <1>1, <1>2 DEF Init
<1>4. opens \in 0..MaxOpens /\ faults \in 0..MaxFaults /\ crashes \in 0..MaxCrashes
  BY <1>1, BoundsType DEF Init
<1>5. TypeOK
  BY <1>1, <1>3, <1>4 DEF Init, TypeOK
<1>6. SchemaInv
  BY <1>1, App \in Processes DEF Init, SchemaInv, Processes
<1>7. QED
  BY <1>5, <1>6 DEF TypeInv

\* The steps that open a database or end a connection keep the schema.
LEMMA SetupTypes ==
    ASSUME TypeInv, NEW p \in Processes,
           Setup(p) \/ Close(p) \/ Crash(p)
    PROVE  TypeInv'
<1> USE DEF Goto
<1>1. App \in Processes /\ MaxOpens \in Nat /\ MaxCrashes \in Nat
  BY BoundsType DEF Processes
<1>2. CASE OpenSqlite(p)
  <2>1. opens' \in 0..MaxOpens
    BY <1>1, <1>2 DEF OpenSqlite, Opens, TypeInv, TypeOK
  <2>2. TypeOK'
    BY <1>2, <2>1 DEF OpenSqlite, Opens, TypeInv, TypeOK, writeVars
  <2>3. SchemaInv'
    BY <1>1, <1>2 DEF OpenSqlite, Opens, TypeInv, TypeOK, SchemaInv, writeVars
  <2>4. QED
    BY <2>2, <2>3 DEF TypeInv
<1>3. CASE Statement(p)
  <2>1. at' \in [Processes -> {"off", "table", "no_update", "no_delete", "create", "apply",
                              "ready"}]
    BY <1>3 DEF Statement, TypeInv, TypeOK
  <2>2. TypeOK'
    BY <1>3, <2>1 DEF Statement, TypeInv, TypeOK, writeVars, Triggers
  <2>3. kind = "sqlite"
    BY <1>3 DEF Statement, TypeInv, TypeOK, SchemaInv
  <2>4. SchemaInv'
    BY <1>1, <1>3, <2>3 DEF Statement, TypeInv, TypeOK, SchemaInv, writeVars
  <2>5. QED
    BY <2>2, <2>4 DEF TypeInv
<1>4. CASE CheckDatabase(p)
  <2>1. opens' \in 0..MaxOpens
    BY <1>1, <1>4 DEF CheckDatabase, Opens, TypeInv, TypeOK
  <2>2. TypeOK'
    BY <1>4, <2>1 DEF CheckDatabase, Opens, TypeInv, TypeOK, writeVars
  <2>3. SchemaInv'
    BY <1>1, <1>4 DEF CheckDatabase, Opens, TypeInv, TypeOK, SchemaInv, writeVars
  <2>4. QED
    BY <2>2, <2>3 DEF TypeInv
<1>5. CASE CreateDatabase(p)
  <2>1. TypeOK'
    BY <1>5 DEF CreateDatabase, TypeInv, TypeOK, writeVars
  <2>2. kind = "postgres"
    BY <1>5 DEF CreateDatabase, TypeInv, TypeOK, SchemaInv
  <2>3. SchemaInv'
    BY <1>1, <1>5, <2>2 DEF CreateDatabase, TypeInv, TypeOK, SchemaInv, writeVars
  <2>4. QED
    BY <2>1, <2>3 DEF TypeInv
<1>6. CASE ApplySchema(p)
  <2>1. TypeOK'
    BY <1>6 DEF ApplySchema, TypeInv, TypeOK, writeVars
  <2>2. kind = "postgres"
    BY <1>6 DEF ApplySchema, TypeInv, TypeOK, SchemaInv
  <2>3. SchemaInv'
    BY <1>1, <1>6, <2>2 DEF ApplySchema, TypeInv, TypeOK, SchemaInv, writeVars
  <2>4. QED
    BY <2>1, <2>3 DEF TypeInv
<1>7. CASE Close(p) \/ Crash(p)
  <2>1. crashes' \in 0..MaxCrashes
    BY <1>1, <1>7 DEF Close, Crash, TypeInv, TypeOK
  <2>2. /\ at' = [at EXCEPT ![p] = "off"]
        /\ kind' = kind /\ objects' = objects /\ table' = table /\ begun' = begun
        /\ reported' = reported /\ view' = view /\ opens' = opens /\ faults' = faults
        /\ p = App => open' = <<>> /\ job' = <<>> /\ left' = <<>>
        /\ p # App => open' = open /\ job' = job /\ left' = left
    BY <1>7 DEF Close, Crash, Forget
  <2>3. {open', table', job', left'} \subseteq Seq(1..MaxRows)
    <3>1. /\ open' \in Seq(Rows) /\ table' \in Seq(Rows) /\ job' \in Seq(Rows)
          /\ left' \in Seq(Rows)
      BY <2>2, RowsType DEF TypeInv
    <3>2. QED
      BY <3>1 DEF Rows
  <2>4. TypeOK'
    BY <2>1, <2>2, <2>3 DEF TypeInv, TypeOK
  <2>5. SchemaInv'
    BY <1>1, <2>2 DEF TypeInv, TypeOK, SchemaInv
  <2>6. QED
    BY <2>4, <2>5 DEF TypeInv
<1>8. QED
  BY <1>2, <1>3, <1>4, <1>5, <1>6, <1>7 DEF Setup

\* The steps of write_many.
LEMMA WriteTypes ==
    ASSUME TypeInv, BeginWrite \/ InsertRow \/ WriteReturns \/ WriteRaises
    PROVE  TypeInv'
<1>1. /\ open \in Seq(Rows) /\ table \in Seq(Rows) /\ job \in Seq(Rows)
      /\ left \in Seq(Rows) /\ <<>> \in Seq(Rows) /\ Rows = 1..MaxRows
      /\ MaxFaults \in Nat
  BY RowsType, BoundsType DEF TypeInv, Rows
<1>2. CASE BeginWrite
  <2>1. job' \in Seq(Rows) /\ job' # <<>> /\ left' = job'
    BY <1>2, NewBatch DEF BeginWrite, TypeInv
  <2>2. {open', table', job', left'} \subseteq Seq(1..MaxRows)
    BY <1>1, <1>2, <2>1 DEF BeginWrite
  <2>3. Range(job') \in SUBSET Rows
    BY <2>1, RangeOfSeq
  <2>4. TypeOK'
    BY <1>1, <1>2, <2>2, <2>3 DEF BeginWrite, TypeInv, TypeOK, setupVars
  <2>5. SchemaInv'
    BY <1>2 DEF BeginWrite, TypeInv, SchemaInv, setupVars
  <2>6. QED
    BY <2>4, <2>5 DEF TypeInv
<1>3. CASE InsertRow
  <2>1. open' \in Seq(Rows) /\ left' \in Seq(Rows)
    BY <1>1, <1>3, HeadMoves DEF InsertRow
  <2>2. {open', table', job', left'} \subseteq Seq(1..MaxRows)
    BY <1>1, <1>3, <2>1 DEF InsertRow
  <2>3. TypeOK'
    BY <1>3, <2>2 DEF InsertRow, TypeInv, TypeOK, setupVars
  <2>4. SchemaInv'
    BY <1>3 DEF InsertRow, TypeInv, SchemaInv, setupVars
  <2>5. QED
    BY <2>3, <2>4 DEF TypeInv
<1>4. CASE WriteReturns
  <2>1. Transaction \in Seq(Rows) /\ table' \in Seq(Rows)
    BY <1>1, <1>4, ConcatProperties DEF WriteReturns, Transaction
  <2>2. {open', table', job', left'} \subseteq Seq(1..MaxRows)
    BY <1>1, <1>4, <2>1 DEF WriteReturns, EndWrite
  <2>3. Triggers \subseteq objects
    BY <1>4, CompleteIsProtected DEF WriteReturns, Complete
  <2>4. reported' \subseteq begun'
    <3>1. Range(job) \in begun
      BY <1>4 DEF WriteReturns, Complete, TypeInv, SchemaInv
    <3>2. QED
      BY <1>4, <3>1 DEF WriteReturns, EndWrite, TypeInv, TypeOK
  <2>5. TypeOK'
    BY <1>4, <2>2, <2>4 DEF WriteReturns, EndWrite, TypeInv, TypeOK, setupVars
  <2>6. SchemaInv'
    BY <1>4, <2>3 DEF WriteReturns, EndWrite, TypeInv, SchemaInv, setupVars
  <2>7. QED
    BY <2>5, <2>6 DEF TypeInv
<1>5. CASE WriteRaises
  <2>1. faults' \in 0..MaxFaults
    BY <1>1, <1>5 DEF WriteRaises, TypeInv, TypeOK
  <2>2. open' \in Seq(Rows) /\ table' \in Seq(Rows)
    BY <1>1, <1>5, ConcatProperties DEF WriteRaises
  <2>3. {open', table', job', left'} \subseteq Seq(1..MaxRows)
    BY <1>1, <1>5, <2>2 DEF WriteRaises, EndWrite
  <2>4. table' = table \/ Triggers \subseteq objects
    BY <1>5, CompleteIsProtected DEF WriteRaises, Complete
  <2>5. TypeOK'
    BY <1>5, <2>1, <2>3 DEF WriteRaises, EndWrite, TypeInv, TypeOK, setupVars
  <2>6. SchemaInv'
    BY <1>5, <2>4 DEF WriteRaises, EndWrite, TypeInv, SchemaInv, setupVars
  <2>7. QED
    BY <2>5, <2>6 DEF TypeInv
<1>6. QED
  BY <1>2, <1>3, <1>4, <1>5

LEMMA StepTypes == TypeInv /\ [Next]_storeVars => TypeInv'
<1>1. SUFFICES ASSUME TypeInv, [Next]_storeVars PROVE TypeInv'
  OBVIOUS
<1>2. CASE UNCHANGED storeVars
  BY <1>1, <1>2 DEF TypeInv, TypeOK, SchemaInv, storeVars, setupVars, writeVars
<1>3. ASSUME NEW p \in Processes, Setup(p) \/ Close(p) \/ Crash(p) PROVE TypeInv'
  BY <1>1, <1>3, SetupTypes
<1>4. CASE OpenPool
  <2>1. App \in Processes /\ MaxOpens \in Nat
    BY BoundsType DEF Processes
  <2>2. opens' \in 0..MaxOpens
    BY <1>1, <1>4, <2>1 DEF OpenPool, Opens, TypeInv, TypeOK
  <2>3. TypeOK'
    BY <1>1, <1>4, <2>1, <2>2 DEF OpenPool, Opens, Goto, TypeInv, TypeOK, writeVars
  <2>4. SchemaInv'
    BY <1>1, <1>4, <2>1 DEF OpenPool, Opens, Goto, TypeInv, TypeOK, SchemaInv, writeVars
  <2>5. QED
    BY <2>3, <2>4 DEF TypeInv
<1>5. CASE BeginWrite \/ InsertRow \/ WriteReturns \/ WriteRaises
  BY <1>1, <1>5, WriteTypes
<1>6. CASE ReadInside
  <2>1. Range(table \o open) \in SUBSET Rows
    <3>1. table \o open \in Seq(Rows)
      BY <1>1, RowsType, ConcatProperties DEF TypeInv
    <3>2. QED
      BY <3>1, RangeOfSeq
  <2>2. TypeOK'
    BY <1>1, <1>6, <2>1 DEF ReadInside, TypeInv, TypeOK, Rows, setupVars, writeVars
  <2>3. SchemaInv'
    BY <1>1, <1>6 DEF ReadInside, TypeInv, SchemaInv, setupVars, writeVars
  <2>4. QED
    BY <2>2, <2>3 DEF TypeInv
<1>7. ASSUME NEW p \in Processes, ReadOutside(p) PROVE TypeInv'
  <2>1. Range(table) \in SUBSET Rows
    BY <1>1, RowsType, RangeOfSeq DEF TypeInv
  <2>2. TypeOK'
    BY <1>1, <1>7, <2>1 DEF ReadOutside, TypeInv, TypeOK, Rows, setupVars, writeVars
  <2>3. SchemaInv'
    BY <1>1, <1>7 DEF ReadOutside, TypeInv, SchemaInv, setupVars, writeVars
  <2>4. QED
    BY <2>2, <2>3 DEF TypeInv
<1>8. ASSUME NEW trigger \in Triggers, Tamper(trigger) PROVE TypeInv'
  BY <1>1, <1>2, <1>8, TamperFails
<1>9. CASE Finished
  BY <1>2, <1>9 DEF Finished
<1>10. QED
  BY <1>1, <1>2, <1>3, <1>4, <1>5, <1>6, <1>7, <1>8, <1>9 DEF Next

LEMMA TypeInvariant == Spec => []TypeInv
BY InitTypes, StepTypes, PTL DEF Spec

\* The type invariant: the rows that exist, wait or were seen are rows that
\* write_many was called with, and nobody has changed one, since no statement
\* of the schema comes before those that protect what it creates.
THEOREM TypeCorrect == Spec => []TypeOK
<1>1. TypeInv => TypeOK
  BY DEF TypeInv
<1>2. QED
  BY <1>1, TypeInvariant, PTL

-----------------------------------------------------------------------------
(* The rows and their batches                                               *)

\* The rows in the table, those that are inserted and those still to be, in
\* the order in which they get into the table.
Pending == (table \o open) \o left

\* A row is written once, in one batch.  On SQLite the open transaction has
\* the rows of failed writes, and then those of the batch under way that are
\* inserted.
BatchInv ==
    /\ \E n \in Nat : UNION begun = 1..n
    /\ \A b, c \in begun : b = c \/ b \cap c = {}
    /\ job = <<>> => left = <<>>
    /\ kind = "postgres" => open = <<>> /\ left = job
    /\ kind = "sqlite" => \E c, d \in Seq(Rows) : open = c \o d /\ job = d \o left
    /\ IsInjective(Pending)
    /\ Range(Pending) \subseteq UNION begun

LEMMA UnionWith ==
    ASSUME NEW B, NEW b
    PROVE  UNION (B \cup {b}) = (UNION B) \cup b
OBVIOUS

LEMMA PendingIs ==
    ASSUME TypeInv
    PROVE  /\ open \in Seq(Rows) /\ table \in Seq(Rows) /\ job \in Seq(Rows)
           /\ left \in Seq(Rows) /\ table \o open \in Seq(Rows) /\ Pending \in Seq(Rows)
           /\ Range(table \o open) = Range(table) \cup Range(open)
           /\ Range(Pending) = Range(table) \cup Range(open) \cup Range(left)
<1>1. /\ open \in Seq(Rows) /\ table \in Seq(Rows) /\ job \in Seq(Rows)
      /\ left \in Seq(Rows)
  BY RowsType DEF TypeInv
<1>2. table \o open \in Seq(Rows) /\ Range(table \o open) = Range(table) \cup Range(open)
  BY <1>1, ConcatProperties, RangeConcatenation
<1>3. Pending \in Seq(Rows) /\ Range(Pending) = Range(table \o open) \cup Range(left)
  <2> DEFINE t == table \o open
  <2>1. t \in Seq(Rows) /\ Pending = t \o left
    BY <1>2 DEF Pending
  <2> HIDE DEF t
  <2>2. t \o left \in Seq(Rows) /\ Range(t \o left) = Range(t) \cup Range(left)
    BY <1>1, <2>1, ConcatProperties, RangeConcatenation
  <2>3. QED
    BY <2>1, <2>2 DEF t
<1>4. QED
  BY <1>1, <1>2, <1>3

\* The rows of the batch under way are not in the table, and those of an SQLite
\* batch are in the transaction or still to be inserted.
LEMMA JobIsPending ==
    ASSUME TypeInv, BatchInv
    PROVE  /\ Range(table) \cap Range(job) = {}
           /\ Range(job) \subseteq Range(open) \cup Range(left)
           /\ Range(job) \subseteq UNION begun
<1>1. /\ open \in Seq(Rows) /\ table \in Seq(Rows) /\ left \in Seq(Rows)
      /\ Range(Pending) = Range(table) \cup Range(open) \cup Range(left)
  BY PendingIs
<1>2. Range(job) \subseteq Range(open) \cup Range(left)
  <2>1. CASE kind = "postgres"
    BY <2>1 DEF BatchInv
  <2>2. CASE kind = "sqlite"
    <3>1. PICK c \in Seq(Rows), d \in Seq(Rows) : open = c \o d /\ job = d \o left
      BY <2>2 DEF BatchInv
    <3>2. /\ Range(open) = Range(c) \cup Range(d)
          /\ Range(job) = Range(d) \cup Range(left)
      BY <1>1, <3>1, RangeConcatenation
    <3>3. QED
      BY <3>2
  <2>3. QED
    BY <2>1, <2>2 DEF TypeInv, TypeOK
<1>3. Range(table) \cap (Range(open) \cup Range(left)) = {}
  <2>1. open \o left \in Seq(Rows) /\ Range(open \o left) = Range(open) \cup Range(left)
    BY <1>1, ConcatProperties, RangeConcatenation
  <2>2. Pending = table \o (open \o left)
    BY <1>1, ConcatAssociative DEF Pending
  <2>3. Range(table) \cap Range(open \o left) = {}
    BY <1>1, <2>1, <2>2, InjectiveParts DEF BatchInv
  <2>4. QED
    BY <2>1, <2>3
<1>4. Range(job) \subseteq UNION begun
  BY <1>1, <1>2 DEF BatchInv
<1>5. QED
  BY <1>2, <1>3, <1>4

LEMMA BeginKeepsBatches ==
    ASSUME TypeInv, BatchInv, BeginWrite
    PROVE  BatchInv'
<1>1. PICK n \in 1..MaxBatch : /\ NewRow + n - 1 <= MaxRows
                               /\ job' = [i \in 1..n |-> NewRow + i - 1]
  BY DEF BeginWrite
<1>2. /\ job' \in Seq(Rows) /\ IsInjective(job') /\ NewRow \in Nat \ {0}
      /\ Range(job') = NewRow..(NewRow + n - 1) /\ n \in Nat \ {0}
  BY <1>1, NewBatch, BoundsType DEF TypeInv
<1>3. PICK m \in Nat : UNION begun = 1..m
  BY DEF BatchInv
<1>4. NewRow = m + 1
  <2>1. Cardinality(1..m) = IF 1 > m THEN 0 ELSE m - 1 + 1
    BY FS_Interval
  <2>2. NewRow = 1 + Cardinality(1..m)
    BY <1>3 DEF NewRow
  <2>3. QED
    BY <2>1, <2>2
<1> DEFINE new == Range(job')
<1>5. begun' = begun \cup {new} /\ UNION begun' = (UNION begun) \cup new
  <2>1. begun' = begun \cup {new}
    BY DEF BeginWrite
  <2>2. QED
    BY <2>1, UnionWith, Zenon
<1>6. new = (m + 1)..(m + n)
  BY <1>2, <1>4
<1> HIDE DEF new
<1>7. \A b, c \in begun' : b = c \/ b \cap c = {}
  <2>1. ASSUME NEW b \in begun PROVE b \cap new = {}
    <3>1. b \subseteq 1..m
      BY <1>3
    <3>2. 1..m \cap new = {}
      BY <1>6
    <3>3. QED
      BY <3>1, <3>2
  <2>2. \A b, c \in begun : b = c \/ b \cap c = {}
    BY DEF BatchInv
  <2>3. QED
    BY <1>5, <2>1, <2>2
<1>8. /\ open \in Seq(Rows) /\ table \in Seq(Rows) /\ table \o open \in Seq(Rows)
      /\ open' = open /\ table' = table /\ left' = job' /\ job = <<>> /\ kind' = kind
  BY PendingIs DEF BeginWrite, setupVars
<1>9. left = <<>> /\ Pending = table \o open
  BY <1>8, ConcatEmptySeq DEF BatchInv, Pending
<1>10. Pending' = (table \o open) \o job'
  BY <1>8 DEF Pending
<1>11. Range(table \o open) \subseteq UNION begun /\ IsInjective(table \o open)
  BY <1>9 DEF BatchInv
<1> DEFINE t == table \o open
<1>12. t \in Seq(Rows) /\ IsInjective(t) /\ Range(t) \subseteq UNION begun /\ Pending' = t \o job'
  BY <1>8, <1>10, <1>11
<1> HIDE DEF t
<1>13. IsInjective(Pending') /\ Range(Pending') \subseteq UNION begun'
  <2>1. 1..m \cap new = {} /\ Range(t) \subseteq 1..m
    BY <1>3, <1>6, <1>12
  <2>2. Range(t) \cap Range(job') = {}
    BY <2>1, Zenon DEF new
  <2>3. IsInjective(t \o job') /\ Range(t \o job') = Range(t) \cup Range(job')
    BY <1>2, <1>12, <2>2, InjectiveConcat, RangeConcatenation
  <2>4. QED
    BY <1>5, <1>12, <2>3 DEF new
<1>14. kind = "sqlite" => \E c, d \in Seq(Rows) : open' = c \o d /\ job' = d \o left'
  <2>1. <<>> \in Seq(Rows) /\ open = open \o <<>> /\ job' = <<>> \o job'
    BY <1>2, <1>8, ConcatEmptySeq
  <2>2. QED
    BY <1>8, <2>1
<1>15. kind = "postgres" => open' = <<>> /\ left' = job'
  BY <1>8 DEF BatchInv
<1>16. (\E k \in Nat : UNION begun' = 1..k) /\ (job' = <<>> => left' = <<>>)
  <2>1. UNION begun' = 1..(m + n) /\ m + n \in Nat
    BY <1>2, <1>3, <1>5, <1>6
  <2>2. QED
    BY <1>8, <2>1
<1>17. QED
  BY <1>7, <1>8, <1>13, <1>14, <1>15, <1>16 DEF BatchInv

LEMMA InsertKeepsBatches ==
    ASSUME TypeInv, BatchInv, InsertRow
    PROVE  BatchInv'
<1>1. /\ open \in Seq(Rows) /\ table \in Seq(Rows) /\ left \in Seq(Rows) /\ left # <<>>
      /\ open' = Append(open, Head(left)) /\ left' = Tail(left) /\ kind = "sqlite"
      /\ kind' = kind /\ table' = table /\ job' = job /\ begun' = begun
  BY PendingIs DEF InsertRow, setupVars
<1>2. /\ open' \in Seq(Rows) /\ left' \in Seq(Rows) /\ open' \o left' = open \o left
  BY <1>1, HeadMoves
<1>3. Pending' = Pending
  <2>1. (table \o open') \o left' = (table \o open) \o left
    <3>1. /\ open \in Seq(Rows) /\ table \in Seq(Rows) /\ left \in Seq(Rows)
          /\ open' \in Seq(Rows) /\ left' \in Seq(Rows)
      BY <1>1, <1>2
    <3>2. (table \o open') \o left' = table \o (open' \o left')
      BY <3>1, ConcatAssociative
    <3>3. (table \o open) \o left = table \o (open \o left)
      BY <3>1, ConcatAssociative
    <3>4. QED
      BY <1>2, <3>2, <3>3, Zenon
  <2>2. QED
    BY <1>1, <2>1 DEF Pending
<1>4. PICK c \in Seq(Rows), d \in Seq(Rows) : open = c \o d /\ job = d \o left
  BY <1>1 DEF BatchInv
<1> DEFINE e == Append(d, Head(left))
<1>5. e \in Seq(Rows) /\ e \o left' = job
  BY <1>1, <1>4, HeadMoves
<1>6. open' = c \o e
  <2>1. /\ Head(left) \in Rows /\ <<Head(left)>> \in Seq(Rows)
        /\ open' = open \o <<Head(left)>> /\ e = d \o <<Head(left)>>
    BY <1>1, <1>4, HeadTailProperties, AppendIsConcat
  <2>2. (c \o d) \o <<Head(left)>> = c \o (d \o <<Head(left)>>)
    BY <1>4, <2>1, ConcatAssociative
  <2>3. QED
    BY <1>4, <2>1, <2>2
<1> HIDE DEF e
<1>7. \E x, y \in Seq(Rows) : open' = x \o y /\ job' = y \o left'
  BY <1>1, <1>4, <1>5, <1>6
<1>8. job' # <<>>
  <2>1. job # <<>>
    BY <1>1 DEF BatchInv
  <2>2. QED
    BY <1>1, <2>1
<1>9. QED
  BY <1>1, <1>3, <1>7, <1>8 DEF BatchInv

\* A step that ends the batch, or the connection, and leaves of the pending
\* rows a first part.
LEMMA EndKeepsBatches ==
    ASSUME TypeInv, BatchInv, kind' = kind, begun' = begun, job' = <<>>, left' = <<>>,
           open' \in Seq(Rows), table' \in Seq(Rows), kind = "postgres" => open' = <<>>,
           NEW rest \in Seq(Rows), Pending = (table' \o open') \o rest
    PROVE  BatchInv'
<1>1. table' \o open' \in Seq(Rows) /\ Pending' = table' \o open'
  BY ConcatProperties, ConcatEmptySeq DEF Pending
<1>2. IsInjective(Pending')
  BY <1>1, InjectiveParts DEF BatchInv
<1>3. Range(Pending') \subseteq Range(Pending)
  <2> DEFINE t == table' \o open'
  <2>1. t \in Seq(Rows) /\ Pending = t \o rest /\ Pending' = t
    BY <1>1
  <2> HIDE DEF t
  <2>2. Range(t \o rest) = Range(t) \cup Range(rest)
    BY <2>1, RangeConcatenation
  <2>3. QED
    BY <2>1, <2>2
<1>4. \E c, d \in Seq(Rows) : open' = c \o d /\ job' = d \o left'
  <2>1. /\ <<>> \in Seq(Rows) /\ open' = open' \o <<>>
        /\ <<>> \o <<>> = <<>>
    BY ConcatEmptySeq
  <2>2. QED
    BY <2>1
<1>5. QED
  BY <1>2, <1>3, <1>4 DEF BatchInv

\* What becomes of the rows when a write or a connection ends.
Ends ==
    /\ kind' = kind /\ begun' = begun /\ job' = <<>> /\ left' = <<>>
    /\ \/ /\ kind = "sqlite" /\ job # <<>> /\ left = <<>>
          /\ table' = table \o open /\ open' = <<>>
       \/ kind = "postgres" /\ job # <<>> /\ table' = table \o job /\ open' = open
       \/ table' = table /\ open' \in {open, <<>>}

LEMMA EndSteps ==
    ASSUME TypeInv, BatchInv
    PROVE  /\ WriteReturns => Ends
           /\ WriteRaises => Ends
           /\ \A p \in Processes : Close(p) \/ Crash(p) =>
                 Ends \/ UNCHANGED <<kind, begun, job, left, open, table>>
<1>1. WriteReturns => Ends
  BY DEF WriteReturns, Complete, Transaction, EndWrite, Ends, setupVars, TypeInv, TypeOK,
     BatchInv
<1>2. WriteRaises => Ends
  BY DEF WriteRaises, EndWrite, Ends, setupVars
<1>3. \A p \in Processes : Close(p) \/ Crash(p) =>
         Ends \/ UNCHANGED <<kind, begun, job, left, open, table>>
  BY DEF Close, Crash, Forget, Ends
<1>4. QED
  BY <1>1, <1>2, <1>3

LEMMA EndsKeepsBatches ==
    ASSUME TypeInv, TypeInv', BatchInv, Ends
    PROVE  BatchInv'
<1>1. /\ open \in Seq(Rows) /\ table \in Seq(Rows) /\ job \in Seq(Rows)
      /\ left \in Seq(Rows) /\ table \o open \in Seq(Rows) /\ <<>> \in Seq(Rows)
      /\ Pending = (table \o open) \o left
  BY PendingIs DEF Pending
<1>2. open' \in Seq(Rows) /\ table' \in Seq(Rows)
  BY DEF TypeInv, TypeOK, Rows
<1>3. kind = "postgres" => open = <<>> /\ open' = <<>> /\ left = job
  BY DEF Ends, BatchInv
<1>4. \E rest \in Seq(Rows) : Pending = (table' \o open') \o rest
  <2>1. CASE kind = "sqlite" /\ left = <<>> /\ table' = table \o open /\ open' = <<>>
    <3>1. (table' \o <<>>) \o <<>> = table'
      BY <1>2, ConcatEmptySeq
    <3>2. (table \o open) \o <<>> = table \o open
      BY <1>1, ConcatEmptySeq
    <3>3. QED
      BY <1>1, <2>1, <3>1, <3>2
  <2>2. CASE kind = "postgres" /\ job # <<>> /\ table' = table \o job /\ open' = open
    <3>1. (table' \o <<>>) \o <<>> = table'
      BY <1>2, ConcatEmptySeq
    <3>2. table \o <<>> = table
      BY <1>1, ConcatEmptySeq
    <3>3. QED
      BY <1>1, <1>3, <2>2, <3>1, <3>2
  <2>3. CASE table' = table /\ open' = open
    BY <1>1, <2>3
  <2>4. CASE table' = table /\ open' = <<>>
    <3>1. open \o left \in Seq(Rows)
      BY <1>1, ConcatProperties
    <3>2. (table \o open) \o left = table \o (open \o left)
      BY <1>1, ConcatAssociative
    <3>3. table \o <<>> = table
      BY <1>1, ConcatEmptySeq
    <3>4. QED
      BY <1>1, <2>4, <3>1, <3>2, <3>3
  <2>5. QED
    BY <2>1, <2>2, <2>3, <2>4 DEF Ends
<1>5. QED
  BY <1>2, <1>3, <1>4, EndKeepsBatches DEF Ends

LEMMA StepBatches == TypeInv /\ BatchInv /\ [Next]_storeVars => BatchInv'
<1>1. SUFFICES ASSUME TypeInv, BatchInv, [Next]_storeVars PROVE BatchInv'
  OBVIOUS
<1>2. TypeInv'
  BY <1>1, StepTypes
<1>3. CASE UNCHANGED <<kind, begun, job, left, open, table>>
  BY <1>1, <1>3 DEF BatchInv, Pending
<1>4. CASE Ends
  BY <1>1, <1>2, <1>4, EndsKeepsBatches
<1>5. CASE UNCHANGED storeVars \/ OpenPool \/ ReadInside \/ Finished
  BY <1>3, <1>5 DEF storeVars, setupVars, writeVars, OpenPool, ReadInside, Finished
<1>6. ASSUME NEW p \in Processes, Setup(p) \/ ReadOutside(p) PROVE BatchInv'
  BY <1>3, <1>6 DEF Setup, OpenSqlite, Statement, CheckDatabase, CreateDatabase, ApplySchema,
     ReadOutside, setupVars, writeVars
<1>7. ASSUME NEW p \in Processes, Close(p) \/ Crash(p) PROVE BatchInv'
  BY <1>1, <1>3, <1>4, <1>7, EndSteps
<1>8. CASE BeginWrite
  BY <1>1, <1>8, BeginKeepsBatches
<1>9. CASE InsertRow
  BY <1>1, <1>9, InsertKeepsBatches
<1>10. CASE WriteReturns \/ WriteRaises
  BY <1>1, <1>4, <1>10, EndSteps
<1>11. ASSUME NEW trigger \in Triggers, Tamper(trigger) PROVE BatchInv'
  BY <1>1, <1>5, <1>11, TamperFails
<1>12. QED
  BY <1>1, <1>5, <1>6, <1>7, <1>8, <1>9, <1>10, <1>11 DEF Next

LEMMA BatchInvariant == Spec => []BatchInv
<1>1. Init => BatchInv
  <2>1. SUFFICES ASSUME Init PROVE BatchInv
    OBVIOUS
  <2>2. /\ open = <<>> /\ table = <<>> /\ job = <<>> /\ left = <<>> /\ begun = {}
        /\ <<>> \in Seq(Rows) /\ <<>> \o <<>> = <<>>
    BY <2>1, ConcatEmptySeq DEF Init
  <2>3. Pending = <<>> /\ UNION begun = 1..0 /\ DOMAIN <<>> = {}
    BY <2>2 DEF Pending
  <2>4. IsInjective(Pending) /\ Range(Pending) = {}
    BY <2>3 DEF IsInjective, Range
  <2>5. QED
    BY <2>2, <2>3, <2>4 DEF BatchInv
<1>2. TypeInv /\ BatchInv /\ [Next]_storeVars => BatchInv'
  BY StepBatches
<1>3. QED
  BY <1>1, <1>2, TypeInvariant, PTL DEF Spec

-----------------------------------------------------------------------------
(* What was reported and what is read                                       *)

\* What is read is whole, and has no row of the batch under way; on PostgreSQL
\* the table has each batch as a whole or nothing of it.
ViewInv ==
    /\ \A r \in DOMAIN view : view[r] \subseteq UNION begun /\ view[r] \cap Range(job) = {}
    /\ kind = "postgres" =>
          \A b \in begun : b \subseteq Range(table) \/ b \cap Range(table) = {}

ReadInv == ReportedIsDurable /\ ReadsAreWhole /\ ViewInv

\* The table only grows.
LEMMA TableGrows ==
    ASSUME TypeInv, BatchInv, [Next]_storeVars
    PROVE  Range(table) \subseteq Range(table')
<1>1. open \in Seq(Rows) /\ table \in Seq(Rows) /\ job \in Seq(Rows)
  BY PendingIs
<1>2. /\ Range(table \o open) = Range(table) \cup Range(open)
      /\ Range(table \o job) = Range(table) \cup Range(job)
  BY <1>1, RangeConcatenation
<1>3. ASSUME NEW trigger \in Triggers, Tamper(trigger) PROVE table' = table
  BY <1>3, TamperFails DEF storeVars
<1>4. table' = table \/ Ends
  BY <1>3, EndSteps DEF Next, Setup, OpenSqlite, Statement, CheckDatabase, CreateDatabase,
     ApplySchema, ReadOutside, Close, Crash, OpenPool, BeginWrite, InsertRow, ReadInside,
     Finished, storeVars, setupVars, writeVars
<1>5. Ends => \/ table' = table \/ table' = table \o open \/ table' = table \o job
  BY DEF Ends
<1>6. QED
  BY <1>2, <1>4, <1>5
\* The rows of a new batch were never seen.
LEMMA NewIsUnseen ==
    ASSUME TypeInv, BatchInv, BeginWrite
    PROVE  /\ begun' = begun \cup {Range(job')}
           /\ UNION begun' = (UNION begun) \cup Range(job')
           /\ Range(job') \cap (UNION begun) = {}
<1>1. begun' = begun \cup {Range(job')}
  BY DEF BeginWrite
<1>2. UNION begun' = (UNION begun) \cup Range(job')
  BY <1>1, UnionWith, Zenon
<1>3. PICK n \in 1..MaxBatch : /\ NewRow + n - 1 <= MaxRows
                               /\ job' = [i \in 1..n |-> NewRow + i - 1]
  BY DEF BeginWrite
<1>4. Range(job') = NewRow..(NewRow + n - 1) /\ n \in Nat
  BY <1>3, NewBatch, BoundsType DEF TypeInv
<1>5. PICK m \in Nat : UNION begun = 1..m
  BY DEF BatchInv
<1>6. NewRow = m + 1
  <2>1. Cardinality(1..m) = IF 1 > m THEN 0 ELSE m - 1 + 1
    BY FS_Interval
  <2>2. NewRow = 1 + Cardinality(1..m)
    BY <1>5 DEF NewRow
  <2>3. QED
    BY <2>1, <2>2
<1>7. Range(job') \cap (UNION begun) = {}
  BY <1>4, <1>5, <1>6
<1>8. QED
  BY <1>1, <1>2, <1>7

LEMMA BeginKeepsReads ==
    ASSUME TypeInv, BatchInv, ReadInv, BeginWrite
    PROVE  ReadInv'
<1>1. /\ view' = view /\ table' = table /\ reported' = reported /\ kind' = kind
      /\ begun' = begun \cup {Range(job')}
      /\ UNION begun' = (UNION begun) \cup Range(job')
      /\ Range(job') \cap (UNION begun) = {}
  BY NewIsUnseen DEF BeginWrite, setupVars
<1>2. Range(table) \subseteq UNION begun
  <2>1. Range(Pending) = Range(table) \cup Range(open) \cup Range(left)
    BY PendingIs
  <2>2. QED
    BY <2>1 DEF BatchInv
<1> DEFINE new == Range(job')
           all == UNION begun
           rows == Range(table)
<1>3. \A r \in DOMAIN view : view[r] \subseteq all
  BY DEF ReadInv, ViewInv
<1>4. (UNION begun)' = all \cup new /\ begun' = begun \cup {new} /\ new \cap all = {} /\ rows \subseteq all
      /\ Range(table)' = rows
  BY <1>1, <1>2
<1>5. /\ ReportedIsDurable'
      /\ SeenIsKept'
  BY <1>1 DEF ReadInv, ReadsAreWhole, ReportedIsDurable, SeenIsKept
<1>6. ViewsAreWhole'
  <2>1. \A r \in DOMAIN view : new \cap view[r] = {}
    <3> HIDE DEF new, all
    <3>1. QED
      BY <1>3, <1>4
  <2>2. ViewsAreWhole
    BY DEF ReadInv, ReadsAreWhole
  <2> HIDE DEF new
  <2>3. QED
    BY <1>1, <1>4, <2>1, <2>2 DEF ViewsAreWhole
<1>7. ViewInv'
  <2>1. \A r \in DOMAIN view : view[r] \subseteq all \cup new /\ view[r] \cap new = {}
    <3> HIDE DEF new, all
    <3>1. QED
      BY <1>3, <1>4
  <2>2. \A r \in DOMAIN view' : view'[r] \subseteq (UNION begun)' /\ view'[r] \cap Range(job)' = {}
    BY <1>1, <1>4, <2>1
  <2>3. kind' = "postgres" =>
           \A b \in begun' : b \subseteq Range(table)' \/ b \cap Range(table)' = {}
    <3>1. kind = "postgres" => \A b \in begun : b \subseteq rows \/ b \cap rows = {}
      BY DEF ReadInv, ViewInv
    <3>2. new \cap rows = {}
      <4> HIDE DEF new, all, rows
      <4>1. QED
        BY <1>4
    <3> HIDE DEF new, rows
    <3>3. QED
      BY <1>1, <1>4, <3>1, <3>2
  <2>4. QED
    BY <2>2, <2>3 DEF ViewInv
<1>8. QED
  BY <1>5, <1>6, <1>7 DEF ReadInv, ReadsAreWhole
\* A query sees whole batches, and nothing of the one under way.
LEMMA QueryKeepsReads ==
    ASSUME TypeInv, BatchInv, ReadInv, NEW p, ReadInside \/ ReadOutside(p)
    PROVE  ReadInv'
<1>1. /\ Range(table \o open) = Range(table) \cup Range(open)
      /\ Range(table) \cup Range(open) \subseteq UNION begun
  <2>1. Range(Pending) = Range(table) \cup Range(open) \cup Range(left)
    BY PendingIs
  <2>2. QED
    BY <2>1, PendingIs DEF BatchInv
<1>2. /\ kind' = kind /\ table' = table /\ reported' = reported /\ begun' = begun /\ job' = job
      /\ kind \in {"sqlite", "postgres"} /\ DOMAIN view = {"app", "tool"}
  BY DEF ReadInside, ReadOutside, setupVars, writeVars, TypeInv, TypeOK
<1>3. kind = "postgres" => Range(open) = {}
  BY RangeOfEmpty DEF BatchInv
<1>4. /\ job = <<>> => Range(job) = {}
      /\ Range(table) \cap Range(job) = {}
  BY JobIsPending, RangeOfEmpty
<1>5. \/ /\ view' = [view EXCEPT !["app"] = Range(table) \cup Range(open)]
         /\ kind = "sqlite" => job = <<>>
      \/ view' = [view EXCEPT !["tool"] = Range(table)] /\ kind = "sqlite"
  BY <1>1 DEF ReadInside, ReadOutside
<1>6. PICK r, seen :
         /\ r \in {"app", "tool"} /\ view' = [view EXCEPT ![r] = seen]
         /\ seen \subseteq UNION begun /\ seen \cap Range(job) = {}
         /\ Range(table) \subseteq seen
         /\ r = "tool" \/ kind = "postgres" => seen = Range(table)
  <2>1. CASE /\ view' = [view EXCEPT !["app"] = Range(table) \cup Range(open)]
             /\ kind = "sqlite" => job = <<>>
    BY <1>1, <1>2, <1>3, <1>4, <2>1
  <2>2. CASE view' = [view EXCEPT !["tool"] = Range(table)] /\ kind = "sqlite"
    BY <1>1, <1>2, <1>4, <2>2
  <2>3. QED
    BY <1>5, <2>1, <2>2
<1>7. \A b \in (IF kind = "postgres" THEN begun ELSE reported) :
         b \subseteq seen \/ b \cap seen = {}
  <2>1. kind = "sqlite" => \A b \in reported : b \subseteq seen
    BY <1>6 DEF ReadInv, ReportedIsDurable
  <2>2. kind = "postgres" => \A b \in begun : b \subseteq seen \/ b \cap seen = {}
    BY <1>6 DEF ReadInv, ViewInv
  <2>3. QED
    BY <1>2, <2>1, <2>2
<1>8. ReportedIsDurable'
  BY <1>2 DEF ReadInv, ReportedIsDurable
<1>9. ViewsAreWhole'
  BY <1>2, <1>6, <1>7 DEF ReadInv, ReadsAreWhole, ViewsAreWhole
<1>10. SeenIsKept'
  BY <1>2, <1>6 DEF ReadInv, ReadsAreWhole, SeenIsKept
<1>11. ViewInv'
  BY <1>2, <1>6 DEF ReadInv, ViewInv
<1>12. QED
  BY <1>8, <1>9, <1>10, <1>11 DEF ReadInv, ReadsAreWhole

\* When a write ends, its batch is in the table, or on PostgreSQL, or unless the
\* call returns, nothing was seen of it.
LEMMA OthersKeepReads ==
    ASSUME TypeInv, BatchInv, ReadInv, Range(table) \subseteq Range(table'),
           kind' = kind, begun' = begun, view' = view, Range(job') \subseteq Range(job),
           \/ reported' = reported
           \/ /\ reported' = reported \cup {Range(job)}
              /\ Range(job) \subseteq Range(table'),
           kind = "postgres" => \/ table' = table
                                \/ /\ Range(table') = Range(table) \cup Range(job)
                                   /\ Range(job) \in begun
    PROVE  ReadInv'
<1>1. kind \in {"sqlite", "postgres"}
  BY DEF TypeInv, TypeOK
<1>2. ReportedIsDurable'
  <2>1. UNION reported \subseteq Range(table')
    BY DEF ReadInv, ReportedIsDurable
  <2>2. CASE reported' = reported \cup {Range(job)} /\ Range(job) \subseteq Range(table')
    <3>1. UNION reported' = (UNION reported) \cup Range(job)
      BY <2>2, UnionWith, Zenon
    <3>2. QED
      BY <2>1, <2>2, <3>1 DEF ReportedIsDurable
  <2>3. QED
    BY <2>1, <2>2 DEF ReportedIsDurable
<1>3. ViewsAreWhole'
  BY DEF ReadInv, ViewInv, ReadsAreWhole, ViewsAreWhole
<1>4. SeenIsKept'
  BY DEF ReadInv, ReadsAreWhole, SeenIsKept
<1>5. ViewInv'
  <2>1. \A r \in DOMAIN view' : view'[r] \subseteq UNION begun' /\ view'[r] \cap Range(job') = {}
    BY DEF ReadInv, ViewInv
  <2>2. ASSUME kind' = "postgres", NEW b \in begun'
        PROVE  b \subseteq Range(table') \/ b \cap Range(table') = {}
    <3>1. b \subseteq Range(table) \/ b \cap Range(table) = {}
      BY <2>2 DEF ReadInv, ViewInv
    <3>2. CASE table' = table
      BY <3>1, <3>2
    <3>3. CASE Range(table') = Range(table) \cup Range(job) /\ Range(job) \in begun
      <4>1. b = Range(job) \/ b \cap Range(job) = {}
        BY <2>2, <3>3 DEF BatchInv
      <4>2. QED
        BY <3>1, <3>3, <4>1
    <3>4. QED
      BY <2>2, <3>2, <3>3
  <2>3. QED
    BY <2>1, <2>2 DEF ViewInv
<1>6. QED
  BY <1>2, <1>3, <1>4, <1>5 DEF ReadInv, ReadsAreWhole
LEMMA WriteReturnsKeepsReads ==
    ASSUME TypeInv, BatchInv, ReadInv, WriteReturns
    PROVE  ReadInv'
<1>1. /\ open \in Seq(Rows) /\ table \in Seq(Rows) /\ job \in Seq(Rows)
      /\ Range(table \o open) = Range(table) \cup Range(open)
  BY PendingIs
<1>2. /\ kind' = kind /\ begun' = begun /\ view' = view /\ job' = <<>>
      /\ reported' = reported \cup {Range(job)} /\ table' = table \o Transaction
      /\ job # <<>> /\ (kind = "sqlite" => left = <<>>) /\ kind \in {"sqlite", "postgres"}
  BY DEF WriteReturns, Complete, EndWrite, setupVars, TypeInv, TypeOK
<1>3. /\ Range(job) \in begun
      /\ Range(job) \subseteq Range(open) \cup Range(left)
  BY <1>2, JobIsPending DEF TypeInv, SchemaInv
<1>4. Range(table \o job) = Range(table) \cup Range(job)
  BY <1>1, RangeConcatenation
<1>5. Range(table') = IF kind = "sqlite" THEN Range(table) \cup Range(open)
                                        ELSE Range(table) \cup Range(job)
  BY <1>1, <1>2, <1>4 DEF Transaction
<1>6. kind = "sqlite" => Range(job) \subseteq Range(open)
  BY <1>2, <1>3, RangeOfEmpty
<1>7. Range(table) \subseteq Range(table') /\ Range(job) \subseteq Range(table')
  BY <1>5, <1>6
<1>8. Range(job') \subseteq Range(job)
  BY <1>2, RangeOfEmpty
<1>9. kind = "postgres" =>
         Range(table') = Range(table) \cup Range(job) /\ Range(job) \in begun
  BY <1>3, <1>5
<1>10. QED
  BY <1>2, <1>7, <1>8, <1>9, OthersKeepReads

LEMMA EndsKeepsReads ==
    ASSUME TypeInv, BatchInv, ReadInv, Ends, reported' = reported, view' = view,
           Range(table) \subseteq Range(table')
    PROVE  ReadInv'
<1>1. kind' = kind /\ begun' = begun /\ job' = <<>>
  BY DEF Ends
<1>2. Range(job') \subseteq Range(job)
  BY <1>1, RangeOfEmpty
<1>3. kind = "postgres" => \/ table' = table
                           \/ /\ Range(table') = Range(table) \cup Range(job)
                              /\ Range(job) \in begun
  <2>1. Range(table \o job) = Range(table) \cup Range(job)
    BY PendingIs, RangeConcatenation
  <2>2. job # <<>> => Range(job) \in begun
    BY DEF TypeInv, SchemaInv
  <2>3. QED
    BY <2>1, <2>2 DEF Ends
<1>4. QED
  BY <1>1, <1>2, <1>3, OthersKeepReads

LEMMA StepReads == TypeInv /\ BatchInv /\ ReadInv /\ [Next]_storeVars => ReadInv'
<1>1. SUFFICES ASSUME TypeInv, BatchInv, ReadInv, [Next]_storeVars PROVE ReadInv'
  OBVIOUS
<1>2. Range(table) \subseteq Range(table')
  BY <1>1, TableGrows
<1>3. CASE UNCHANGED <<kind, begun, job, left, open, table>> /\ UNCHANGED <<reported, view>>
  BY <1>1, <1>3 DEF ReadInv, ReadsAreWhole, ReportedIsDurable, ViewsAreWhole, SeenIsKept,
     ViewInv
<1>4. CASE UNCHANGED storeVars \/ OpenPool \/ Finished
  BY <1>3, <1>4 DEF storeVars, setupVars, writeVars, OpenPool, Finished
<1>5. ASSUME NEW p \in Processes, Setup(p) PROVE ReadInv'
  BY <1>3, <1>5 DEF Setup, OpenSqlite, Statement, CheckDatabase, CreateDatabase, ApplySchema,
     setupVars, writeVars
<1>6. ASSUME NEW p \in Processes, Close(p) \/ Crash(p) PROVE ReadInv'
  <2>1. Ends \/ UNCHANGED <<kind, begun, job, left, open, table>>
    BY <1>1, <1>6, EndSteps
  <2>2. UNCHANGED <<reported, view>>
    BY <1>6 DEF Close, Crash
  <2>3. QED
    BY <1>1, <1>2, <1>3, <2>1, <2>2, EndsKeepsReads
<1>7. CASE BeginWrite
  BY <1>1, <1>7, BeginKeepsReads
<1>8. CASE InsertRow
  <2>1. /\ kind' = kind /\ begun' = begun /\ view' = view /\ job' = job
        /\ reported' = reported /\ table' = table
    BY <1>8 DEF InsertRow, setupVars
  <2>2. QED
    BY <1>1, <1>2, <2>1, OthersKeepReads
<1>9. CASE WriteReturns
  BY <1>1, <1>9, WriteReturnsKeepsReads
<1>10. CASE WriteRaises
  <2>1. Ends /\ reported' = reported /\ view' = view
    BY <1>1, <1>10, EndSteps DEF WriteRaises
  <2>2. QED
    BY <1>1, <1>2, <2>1, EndsKeepsReads
<1>11. ASSUME NEW p, ReadInside \/ ReadOutside(p) PROVE ReadInv'
  BY <1>1, <1>11, QueryKeepsReads
<1>12. ASSUME NEW trigger \in Triggers, Tamper(trigger) PROVE ReadInv'
  BY <1>1, <1>4, <1>12, TamperFails
<1>13. QED
  BY <1>1, <1>4, <1>5, <1>6, <1>7, <1>8, <1>9, <1>10, <1>11, <1>12 DEF Next

LEMMA ReadInvariant == Spec => []ReadInv
<1>1. Init => ReadInv
  BY RangeOfEmpty DEF Init, ReadInv, ReadsAreWhole, ReportedIsDurable, ViewsAreWhole,
     SeenIsKept, ViewInv
<1>2. TypeInv /\ BatchInv /\ ReadInv /\ [Next]_storeVars => ReadInv'
  BY StepReads
<1>3. QED
  BY <1>1, <1>2, TypeInvariant, BatchInvariant, PTL DEF Spec

\* A batch for which write_many returned is in the table for ever: no failure,
\* no process killed, no UPDATE or DELETE takes a row of it away.
THEOREM ReportedIsDurableHolds == Spec => []ReportedIsDurable
<1>1. ReadInv => ReportedIsDurable
  BY DEF ReadInv
<1>2. QED
  BY <1>1, ReadInvariant, PTL

\* Queries and reports can be relied on: no query returns a part of a batch of
\* PostgreSQL or of a batch that SQLite's write_many reports, then or later,
\* and nothing a report of another process has shown is rolled back.
THEOREM ReadsAreWholeHolds == Spec => []ReadsAreWhole
<1>1. ReadInv => ReadsAreWhole
  BY DEF ReadInv
<1>2. QED
  BY <1>1, ReadInvariant, PTL
-----------------------------------------------------------------------------
(* AuditStore implements AuditBackend                                       *)

\* The part of the open transaction that was there before the batch.
LEMMA CarriedPart ==
    ASSUME NEW c \in Seq(Rows), NEW d \in Seq(Rows), NEW l \in Seq(Rows)
    PROVE  SubSeq(c \o d, 1, Len(c \o d) - (Len(d \o l) - Len(l))) = c
<1>1. /\ Len(c) \in Nat /\ Len(d) \in Nat /\ Len(l) \in Nat
      /\ Len(c \o d) = Len(c) + Len(d) /\ Len(d \o l) = Len(d) + Len(l)
  BY ConcatProperties, LenProperties
<1>2. Len(c \o d) - (Len(d \o l) - Len(l)) = Len(c)
  BY <1>1
<1>3. QED
  BY <1>2, ConcatPrefix

LEMMA CarriedIs ==
    ASSUME TypeInv, BatchInv
    PROVE  /\ kind = "sqlite" =>
                 \E d \in Seq(Rows) : open = Carried \o d /\ job = d \o left
           /\ Carried \in Seq(Rows)
           /\ kind = "postgres" => Carried = <<>>
<1>1. left \in Seq(Rows) /\ <<>> \in Seq(Rows) /\ kind \in {"sqlite", "postgres"}
  BY RowsType DEF TypeInv, TypeOK
<1>2. CASE kind = "sqlite"
  <2>1. PICK c \in Seq(Rows), d \in Seq(Rows) : open = c \o d /\ job = d \o left
    BY <1>2 DEF BatchInv
  <2>2. Carried = c
    BY <1>1, <1>2, <2>1, CarriedPart DEF Carried
  <2>3. QED
    BY <1>2, <2>1, <2>2
<1>3. CASE kind = "postgres"
  BY <1>1, <1>3 DEF Carried
<1>4. QED
  BY <1>1, <1>2, <1>3

\* No row is committed or carried twice.
CarriedOnce == IsInjective(table \o Carried)

LEMMA CarriedOnceFollows == TypeInv /\ BatchInv => CarriedOnce
<1>1. SUFFICES ASSUME TypeInv, BatchInv PROVE IsInjective(table \o Carried)
  BY DEF CarriedOnce
<1>2. /\ open \in Seq(Rows) /\ table \in Seq(Rows) /\ left \in Seq(Rows)
      /\ table \o open \in Seq(Rows) /\ kind \in {"sqlite", "postgres"}
  BY <1>1, PendingIs DEF TypeInv, TypeOK
<1>3. IsInjective(table \o open)
  <2> DEFINE t == table \o open
  <2>1. t \in Seq(Rows) /\ IsInjective(t \o left)
    BY <1>1, <1>2 DEF BatchInv, Pending
  <2> HIDE DEF t
  <2>2. IsInjective(t)
    BY <1>2, <2>1, InjectiveParts
  <2>3. QED
    BY <2>2 DEF t
<1>4. CASE kind = "sqlite"
  <2>1. PICK d \in Seq(Rows) : open = Carried \o d
    BY <1>1, <1>4, CarriedIs
  <2>2. Carried \in Seq(Rows)
    BY <1>1, CarriedIs
  <2> DEFINE c == Carried
             t == table \o c
  <2>3. c \in Seq(Rows) /\ open = c \o d
    BY <2>1, <2>2
  <2> HIDE DEF c
  <2>4. t \in Seq(Rows) /\ table \o open = t \o d
    <3>1. table \o c \in Seq(Rows)
      BY <1>2, <2>3, ConcatProperties
    <3>2. (table \o c) \o d = table \o (c \o d)
      BY <1>2, <2>3, ConcatAssociative
    <3>3. QED
      BY <2>3, <3>1, <3>2
  <2>5. IsInjective(t \o d)
    BY <1>3, <2>4
  <2> HIDE DEF t
  <2>6. IsInjective(t)
    BY <2>4, <2>5, InjectiveParts
  <2>7. QED
    BY <2>6 DEF t, c
<1>5. CASE kind = "postgres"
  <2>1. open = <<>> /\ Carried = <<>>
    BY <1>1, <1>5, CarriedIs DEF BatchInv
  <2>2. QED
    BY <1>3, <2>1
<1>6. QED
  BY <1>2, <1>4, <1>5

\* The operators of the modules that AuditBackend extends are those extended here.
LEMMA SameOperators ==
    /\ \A s, t : Backend!IsStrictPrefix(s, t) <=> IsStrictPrefix(s, t)
    /\ \A s : Backend!IsInjective(s) <=> IsInjective(s)
BY Zenon DEF Backend!IsStrictPrefix, Backend!IsPrefix, IsStrictPrefix, IsPrefix,
   Backend!IsInjective, IsInjective

\* A write that returns commits what was carried, and then its batch.
LEMMA CommitImplements ==
    ASSUME TypeInv, BatchInv, CarriedOnce', kind' = kind, Ends, job # <<>>,
           \/ kind = "sqlite" /\ left = <<>> /\ table' = table \o open /\ open' = <<>>
           \/ kind = "postgres" /\ table' = table \o job
    PROVE  Backend!Next
<1>1. /\ open \in Seq(Rows) /\ table \in Seq(Rows) /\ job \in Seq(Rows)
      /\ Carried \in Seq(Rows) /\ <<>> \in Seq(Rows)
  BY PendingIs, CarriedIs, RowsType DEF TypeInv
<1>2. job' = <<>> /\ left' = <<>>
  BY DEF Ends
<1>3. Carried' = <<>>
  <2>1. SubSeq(<<>> \o <<>>, 1, Len(<<>> \o <<>>) - (Len(<<>> \o <<>>) - Len(<<>>))) = <<>>
    BY <1>1, CarriedPart
  <2>2. <<>> \o <<>> = <<>>
    BY <1>1, ConcatEmptySeq
  <2>3. QED
    BY <1>2, <2>1, <2>2 DEF Carried
<1>4. \E d \in Seq(Rows) : d # <<>> /\ table' = (table \o Carried) \o d
  <2>1. CASE kind = "sqlite" /\ left = <<>> /\ table' = table \o open
    <3>1. PICK d \in Seq(Rows) : open = Carried \o d /\ job = d \o left
      BY <2>1, CarriedIs
    <3>2. job = d
      BY <2>1, <3>1, ConcatEmptySeq
    <3>3. (table \o Carried) \o d = table \o (Carried \o d)
      BY <1>1, ConcatAssociative
    <3>4. QED
      BY <2>1, <3>1, <3>2, <3>3
  <2>2. CASE kind = "postgres" /\ table' = table \o job
    <3>1. table \o Carried = table
      BY <1>1, <2>2, CarriedIs, ConcatEmptySeq
    <3>2. QED
      BY <1>1, <2>2, <3>1
  <2>3. QED
    BY <2>1, <2>2
<1>5. IsStrictPrefix(table \o Carried, table')
  <2> DEFINE t == table \o Carried
  <2>1. PICK d \in Seq(Rows) : d # <<>> /\ table' = t \o d
    BY <1>4
  <2>2. t \in Seq(Rows)
    BY <1>1, ConcatProperties
  <2> HIDE DEF t
  <2>3. IsStrictPrefix(t, t \o d)
    BY <2>1, <2>2, ConcatPrefix
  <2>4. QED
    BY <2>1, <2>3 DEF t
<1>6. Backend!WriteReturns
  BY <1>3, <1>5, SameOperators DEF Backend!WriteReturns
<1>7. QED
  BY <1>3, <1>6, SameOperators DEF Backend!Next, CarriedOnce

\* A write that raises, or a connection that ends, carries or loses the rows.
LEMMA RaiseImplements ==
    ASSUME TypeInv, BatchInv, CarriedOnce', Ends, table' = table, open' \in {open, <<>>}
    PROVE  [Backend!Next]_(Backend!vars)
<1>1. /\ open \in Seq(Rows) /\ table \in Seq(Rows) /\ <<>> \in Seq(Rows)
      /\ Carried \in Seq(Rows) /\ kind \in {"sqlite", "postgres"}
  BY PendingIs, CarriedIs, RowsType DEF TypeInv, TypeOK
<1>2. job' = <<>> /\ left' = <<>> /\ kind' = kind
  BY DEF Ends
<1>3. kind = "sqlite" => Carried' = open'
  <2>1. open' \in Seq(Rows)
    BY <1>1
  <2>2. SubSeq(open' \o <<>>, 1, Len(open' \o <<>>) - (Len(<<>> \o <<>>) - Len(<<>>))) = open'
    BY <1>1, <2>1, CarriedPart
  <2>3. open' \o <<>> = open' /\ <<>> \o <<>> = <<>>
    BY <1>1, <2>1, ConcatEmptySeq
  <2>4. QED
    BY <1>2, <2>2, <2>3 DEF Carried
<1>4. CASE Carried' = <<>>
  BY <1>4, SameOperators DEF Backend!Next, Backend!Lose, CarriedOnce
<1>5. CASE kind = "sqlite" /\ Carried' = open
  <2>1. PICK d \in Seq(Rows) : open = Carried \o d
    BY <1>5, CarriedIs
  <2>2. CASE d = <<>>
    <3>1. Carried' = Carried
      BY <1>1, <1>5, <2>1, <2>2, ConcatEmptySeq
    <3>2. QED
      BY <3>1 DEF Backend!vars
  <2>3. CASE d # <<>>
    <3>1. IsStrictPrefix(Carried, Carried')
      <4> DEFINE c == Carried
      <4>1. c \in Seq(Rows) /\ Carried' = c \o d
        BY <1>1, <1>5, <2>1
      <4> HIDE DEF c
      <4>2. IsStrictPrefix(c, c \o d)
        BY <2>3, <4>1, ConcatPrefix
      <4>3. QED
        BY <4>1, <4>2 DEF c
    <3>2. QED
      BY <3>1, SameOperators DEF Backend!Next, Backend!WriteRaises, CarriedOnce
  <2>4. QED
    BY <2>2, <2>3
<1>6. CASE kind = "postgres"
  BY <1>2, <1>4, <1>6 DEF Carried
<1>7. QED
  BY <1>1, <1>3, <1>4, <1>5, <1>6

LEMMA StepImplements ==
    TypeInv /\ BatchInv /\ BatchInv' /\ CarriedOnce' /\ [Next]_storeVars
        => [Backend!Next]_(Backend!vars)
<1>1. SUFFICES ASSUME TypeInv, BatchInv, BatchInv', CarriedOnce', [Next]_storeVars
               PROVE  [Backend!Next]_(Backend!vars)
  OBVIOUS
<1>2. CASE UNCHANGED <<kind, job, left, open, table>>
  BY <1>2 DEF Backend!vars, Carried
<1>3. CASE UNCHANGED storeVars \/ OpenPool \/ Finished \/ ReadInside
  BY <1>2, <1>3 DEF storeVars, setupVars, writeVars, OpenPool, Finished, ReadInside
<1>4. ASSUME NEW p \in Processes, Setup(p) \/ ReadOutside(p)
      PROVE  [Backend!Next]_(Backend!vars)
  BY <1>2, <1>4 DEF Setup, OpenSqlite, Statement, CheckDatabase, CreateDatabase, ApplySchema,
     ReadOutside, setupVars, writeVars
<1>5. CASE Ends
  <2>1. CASE table' = table /\ open' \in {open, <<>>}
    BY <1>1, <1>5, <2>1, RaiseImplements
  <2>2. CASE ~ (table' = table /\ open' \in {open, <<>>})
    BY <1>1, <1>5, <2>2, CommitImplements DEF Ends
  <2>3. QED
    BY <2>1, <2>2
<1>6. ASSUME NEW p \in Processes, Close(p) \/ Crash(p) PROVE [Backend!Next]_(Backend!vars)
  BY <1>1, <1>2, <1>5, <1>6, EndSteps
<1>7. CASE WriteReturns \/ WriteRaises
  BY <1>1, <1>5, <1>7, EndSteps
<1>8. CASE BeginWrite
  <2>1. /\ open \in Seq(Rows) /\ <<>> \in Seq(Rows) /\ job = <<>> /\ left = <<>>
        /\ open' = open /\ table' = table /\ kind' = kind /\ left' = job'
    BY <1>1, <1>8, PendingIs, RowsType DEF TypeInv, BatchInv, BeginWrite, setupVars
  <2>2. job' \in Seq(Rows)
    BY <1>1, <1>8, NewBatch DEF BeginWrite, TypeInv
  <2>3. Len(job') - Len(left') = Len(job) - Len(left)
    BY <2>1, <2>2, LenProperties
  <2>4. Carried' = Carried
    BY <2>1, <2>3 DEF Carried
  <2>5. QED
    BY <2>1, <2>4 DEF Backend!vars
<1>9. CASE InsertRow
  <2>1. /\ open \in Seq(Rows) /\ left \in Seq(Rows) /\ left # <<>> /\ kind = "sqlite"
        /\ open' = Append(open, Head(left)) /\ left' = Tail(left)
        /\ kind' = kind /\ table' = table /\ job' = job
    BY <1>1, <1>9, PendingIs DEF InsertRow, setupVars
  <2>2. PICK c \in Seq(Rows), d \in Seq(Rows) : open = c \o d /\ job = d \o left
    BY <1>1, <2>1 DEF BatchInv
  <2>3. Carried = c
    BY <2>1, <2>2, CarriedPart DEF Carried
  <2>4. /\ Append(d, Head(left)) \in Seq(Rows) /\ Tail(left) \in Seq(Rows)
        /\ Append(d, Head(left)) \o Tail(left) = d \o left
    BY <2>1, <2>2, HeadMoves
  <2>5. open' = c \o Append(d, Head(left))
    <3>1. /\ Head(left) \in Rows /\ <<Head(left)>> \in Seq(Rows)
          /\ open' = open \o <<Head(left)>> /\ Append(d, Head(left)) = d \o <<Head(left)>>
      BY <2>1, <2>2, HeadTailProperties, AppendIsConcat
    <3>2. (c \o d) \o <<Head(left)>> = c \o (d \o <<Head(left)>>)
      BY <2>2, <3>1, ConcatAssociative
    <3>3. QED
      BY <2>2, <3>1, <3>2
  <2>6. Carried' = c
    <3> DEFINE e == Append(d, Head(left))
               l == Tail(left)
    <3>1. e \in Seq(Rows) /\ l \in Seq(Rows) /\ open' = c \o e /\ job' = e \o l /\ left' = l
      BY <2>1, <2>2, <2>4, <2>5
    <3> HIDE DEF e, l
    <3>2. SubSeq(c \o e, 1, Len(c \o e) - (Len(e \o l) - Len(l))) = c
      BY <3>1, CarriedPart
    <3>3. QED
      BY <2>1, <3>1, <3>2 DEF Carried
  <2>7. QED
    BY <2>1, <2>3, <2>6 DEF Backend!vars
<1>10. ASSUME NEW trigger \in Triggers, Tamper(trigger) PROVE [Backend!Next]_(Backend!vars)
  BY <1>1, <1>3, <1>10, TamperFails
<1>11. QED
  BY <1>1, <1>3, <1>4, <1>6, <1>7, <1>8, <1>9, <1>10 DEF Next

\* Either database, with its transactions, is the backend that the logger counts
\* on: a write either commits the rows that were carried and its own, or leaves
\* the table as it is, and no committed row is changed, lost or written twice.
THEOREM ImplementsBackendHolds == Spec => ImplementsBackend
<1>1. Init => Backend!Init
  <2>1. SUFFICES ASSUME Init PROVE Backend!Init
    OBVIOUS
  <2>2. table = <<>> /\ open = <<>> /\ job = <<>> /\ left = <<>> /\ <<>> \in Seq(Rows)
    BY <2>1 DEF Init
  <2>3. SubSeq(<<>> \o <<>>, 1, Len(<<>> \o <<>>) - (Len(<<>> \o <<>>) - Len(<<>>))) = <<>>
    BY <2>2, CarriedPart
  <2>4. <<>> \o <<>> = <<>>
    BY <2>2, ConcatEmptySeq
  <2>5. Carried = <<>>
    BY <2>2, <2>3, <2>4 DEF Carried
  <2>6. QED
    BY <2>2, <2>5 DEF Backend!Init
<1>2. TypeInv /\ BatchInv /\ BatchInv' /\ CarriedOnce' /\ [Next]_storeVars
          => [Backend!Next]_(Backend!vars)
  BY StepImplements
<1>3. TypeInv /\ BatchInv => CarriedOnce
  BY CarriedOnceFollows
<1>4. QED
  BY <1>1, <1>2, <1>3, TypeInvariant, BatchInvariant, PTL DEF Spec, ImplementsBackend,
     Backend!Spec
=============================================================================
