------------------------------ MODULE AuditStore -----------------------------
(***************************************************************************)
(* The database behind the audit log: SqliteBackend and PostgresBackend    *)
(* of app/audit/backends.py, the schemas they rely on, and the scripts     *)
(* that create and read it (init_audit_db.py, audit_report.py,             *)
(* audit_demo.py).                                                         *)
(*                                                                         *)
(* One process, App, holds the backend and writes batches.  Tools come     *)
(* and go beside it: they initialise the database or report from it.       *)
(* Anybody may try to change or delete a row.  SQLite runs a script one    *)
(* statement at a time, each committed by itself, and a batch row by row   *)
(* in one transaction of a connection that nobody rolls back; PostgreSQL   *)
(* runs either of them as one transaction.  A row is a number.             *)
(***************************************************************************)
EXTENDS Integers, Sequences, FiniteSets, SequencesExt

CONSTANTS
    App,          \* the process of the logger
    Tools,        \* processes that run a script
    MaxBatch,     \* bound: rows of a batch
    MaxRows,      \* bound: rows that are ever written
    MaxOpens,     \* bound: connections that are ever opened
    MaxFaults,    \* bound: writes that fail
    MaxCrashes    \* bound: processes that are killed

Processes == Tools \cup {App}

ASSUME AppAssumption == App \notin Tools
ASSUME StoreBoundsAssumption ==
    {MaxBatch, MaxRows, MaxOpens, MaxFaults, MaxCrashes} \subseteq Nat

VARIABLES
    kind,        \* which backend it is
    objects,     \* what exists: the database, its table, its triggers
    at,          \* how far each process is in opening the database
    open,        \* rows of the open transaction of App's SQLite connection
    table,       \* committed rows, in seq order
    job,         \* the batch of the write_many under way, which has the lock
    left,        \* the rows of it that are still to be inserted
    begun,       \* history: the batches of all calls of write_many
    reported,    \* history: those for which it returned
    view,        \* what the last query returned, to App and to a tool
    opens, faults, crashes   \* how much of each bound is used

setupVars == <<kind, objects, at>>
writeVars == <<job, left, begun, reported>>
storeVars == <<setupVars, open, table, writeVars, view, opens, faults, crashes>>

Triggers == {"no_update", "no_delete"}
NewRow == 1 + Cardinality(UNION begun)

Init ==
    /\ kind \in {"sqlite", "postgres"}
    /\ objects = {}
    /\ at = [p \in Processes |-> "off"]
    /\ open = <<>> /\ table = <<>>
    /\ job = <<>> /\ left = <<>> /\ begun = {} /\ reported = {}
    /\ view = [r \in {"app", "tool"} |-> {}]
    /\ opens = 0 /\ faults = 0 /\ crashes = 0

Goto(p, label) == at' = [at EXCEPT ![p] = label]

Opens(p) ==
    /\ at[p] = "off"
    /\ opens < MaxOpens
    /\ opens' = opens + 1

-----------------------------------------------------------------------------
(* SQLite: connect() and init_sqlite run the same script.                   *)

\* Faulty variant of OpenSqlite: a database that has its table is left alone.
OpenUnlessThere(p) ==
    /\ kind = "sqlite"
    /\ Opens(p)
    /\ Goto(p, IF "table" \in objects THEN "ready" ELSE "table")
    /\ UNCHANGED <<kind, objects, open, table, writeVars, view, faults, crashes>>

OpenSqlite(p) ==
    /\ kind = "sqlite"
    /\ Opens(p)
    /\ Goto(p, "table")
    /\ UNCHANGED <<kind, objects, open, table, writeVars, view, faults, crashes>>

\* CREATE ... IF NOT EXISTS, and on to the next statement.
Statement(p) ==
    /\ at[p] \in {"table", "no_update", "no_delete"}
    /\ objects' = objects \cup {at[p]}
    /\ Goto(p, CASE at[p] = "table" -> "no_update"
                 [] at[p] = "no_update" -> "no_delete"
                 [] at[p] = "no_delete" -> "ready")
    /\ UNCHANGED <<kind, open, table, writeVars, view, opens, faults, crashes>>

-----------------------------------------------------------------------------
(* PostgreSQL: init_postgres runs the script, connect() opens a pool.       *)

\* The pool of App; without the database create_pool raises.
OpenPool ==
    /\ kind = "postgres"
    /\ Opens(App)
    /\ Goto(App, IF "database" \in objects THEN "ready" ELSE "off")
    /\ UNCHANGED <<kind, objects, open, table, writeVars, view, faults, crashes>>

CheckDatabase(p) ==
    /\ kind = "postgres"
    /\ p \in Tools
    /\ Opens(p)
    /\ Goto(p, IF "database" \in objects THEN "apply" ELSE "create")
    /\ UNCHANGED <<kind, objects, open, table, writeVars, view, faults, crashes>>

\* It raises if another tool has created the database since the check.
CreateDatabase(p) ==
    /\ at[p] = "create"
    /\ objects' = objects \cup {"database"}
    /\ Goto(p, IF "database" \in objects THEN "off" ELSE "apply")
    /\ UNCHANGED <<kind, open, table, writeVars, view, opens, faults, crashes>>

\* Faulty variant of ApplySchema: DROP TRIGGER is committed by itself.
ApplySchemaByStatement(p) ==
    /\ at[p] = "apply"
    /\ IF Triggers \subseteq objects
         THEN objects' = objects \ Triggers /\ UNCHANGED at
         ELSE objects' = objects \cup {"table"} \cup Triggers /\ Goto(p, "ready")
    /\ UNCHANGED <<kind, open, table, writeVars, view, opens, faults, crashes>>

\* The script is one transaction, the triggers that it replaces included.
ApplySchema(p) ==
    /\ at[p] = "apply"
    /\ objects' = objects \cup {"table"} \cup Triggers
    /\ Goto(p, "ready")
    /\ UNCHANGED <<kind, open, table, writeVars, view, opens, faults, crashes>>

-----------------------------------------------------------------------------
(* write_many.                                                              *)

\* The lock is taken, or a connection of the pool.
BeginWrite ==
    /\ at[App] = "ready"
    /\ job = <<>>
    /\ \E n \in 1..MaxBatch :
        /\ NewRow + n - 1 <= MaxRows
        /\ job' = [i \in 1..n |-> NewRow + i - 1]
    /\ left' = job'
    /\ begun' = begun \cup {Range(job')}
    /\ UNCHANGED <<setupVars, open, table, reported, view, opens, faults, crashes>>

\* executemany of sqlite3: one row into the transaction that is open.
InsertRow ==
    /\ kind = "sqlite"
    /\ left # <<>>
    /\ open' = Append(open, Head(left))
    /\ left' = Tail(left)
    /\ UNCHANGED <<setupVars, table, job, begun, reported, view, opens, faults, crashes>>

EndWrite == job' = <<>> /\ left' = <<>> /\ UNCHANGED begun

\* What the transaction holds when all rows of the batch are inserted.
Transaction == IF kind = "sqlite" THEN open ELSE job
Complete == job # <<>> /\ (kind = "sqlite" => left = <<>>) /\ "table" \in objects

\* Faulty variant of WriteReturns: there is no commit().
WriteReturnsUncommitted ==
    /\ Complete
    /\ reported' = reported \cup {Range(job)}
    /\ EndWrite
    /\ UNCHANGED <<setupVars, open, table, view, opens, faults, crashes>>

WriteReturns ==
    /\ Complete
    /\ table' = table \o Transaction
    /\ open' = <<>>
    /\ reported' = reported \cup {Range(job)}
    /\ EndWrite
    /\ UNCHANGED <<setupVars, view, opens, faults, crashes>>

\* A row is refused, or there is no table, or the connection breaks.  SQLite
\* keeps the rows inserted so far, or rolls back by itself; PostgreSQL rolls
\* back, unless only the answer to the commit was lost.
WriteRaises ==
    /\ job # <<>>
    /\ \/ faults < MaxFaults /\ faults' = faults + 1
       \/ "table" \notin objects /\ UNCHANGED faults
    /\ EndWrite
    /\ \/ open' \in {open, <<>>} /\ UNCHANGED table
       \/ /\ kind = "postgres" /\ Complete
          /\ table' = table \o job
          /\ UNCHANGED open
    /\ UNCHANGED <<setupVars, reported, view, opens, crashes>>

-----------------------------------------------------------------------------
(* count(), fetch(), and the scripts that report.                           *)

\* Faulty variant of ReadInside: fetch() without the lock.
ReadInsideUnlocked ==
    /\ at[App] = "ready"
    /\ "table" \in objects
    /\ view' = [view EXCEPT !["app"] = Range(table \o open)]
    /\ UNCHANGED <<setupVars, open, table, writeVars, opens, faults, crashes>>

\* App's SQLite connection sees its own open transaction; the lock keeps the
\* reader out of a batch.  A connection of the pool sees committed rows.
ReadInside ==
    /\ at[App] = "ready"
    /\ "table" \in objects
    /\ kind = "sqlite" => job = <<>>
    /\ view' = [view EXCEPT !["app"] = Range(table \o open)]
    /\ UNCHANGED <<setupVars, open, table, writeVars, opens, faults, crashes>>

\* audit_report.py has a connection of its own.
ReadOutside(p) ==
    /\ kind = "sqlite"
    /\ p \in Tools
    /\ at[p] = "ready"
    /\ view' = [view EXCEPT !["tool"] = Range(table)]
    /\ UNCHANGED <<setupVars, open, table, writeVars, opens, faults, crashes>>

\* The table after an UPDATE or a DELETE of one row, which its trigger
\* aborts.  0 is no row that was ever written.
Altered(trigger) ==
    IF trigger \in objects THEN {table}
    ELSE {IF trigger = "no_update" THEN [table EXCEPT ![i] = 0] ELSE RemoveAt(table, i)
            : i \in DOMAIN table}

Tamper(trigger) ==
    /\ table # <<>>
    /\ table' \in Altered(trigger)
    /\ UNCHANGED <<setupVars, open, writeVars, view, opens, faults, crashes>>

-----------------------------------------------------------------------------
(* The end of a connection.                                                 *)

Forget(p) ==
    /\ Goto(p, "off")
    /\ IF p = App THEN open' = <<>> /\ job' = <<>> /\ left' = <<>>
                  ELSE UNCHANGED <<open, job, left>>

\* The logger closes the backend when its writer has ended.
Close(p) ==
    /\ at[p] = "ready"
    /\ p = App => job = <<>>
    /\ Forget(p)
    /\ UNCHANGED <<kind, objects, table, begun, reported, view, opens, faults, crashes>>

Crash(p) ==
    /\ at[p] # "off"
    /\ crashes < MaxCrashes
    /\ crashes' = crashes + 1
    /\ Forget(p)
    /\ UNCHANGED <<kind, objects, table, begun, reported, view, opens, faults>>

Finished ==
    /\ opens = MaxOpens
    /\ \A p \in Processes : at[p] = "off"
    /\ UNCHANGED storeVars

Setup(p) ==
    \/ OpenSqlite(p) \/ Statement(p)
    \/ CheckDatabase(p) \/ CreateDatabase(p) \/ ApplySchema(p)

Next ==
    \/ \E p \in Processes : Setup(p) \/ Close(p) \/ Crash(p) \/ ReadOutside(p)
    \/ OpenPool
    \/ BeginWrite \/ InsertRow \/ WriteReturns \/ WriteRaises
    \/ ReadInside
    \/ \E trigger \in Triggers : Tamper(trigger)
    \/ Finished

Spec == Init /\ [][Next]_storeVars

-----------------------------------------------------------------------------
(* Properties                                                               *)

\* The type invariant.
TypeOK ==
    /\ kind \in {"sqlite", "postgres"}
    /\ objects \subseteq {"database", "table"} \cup Triggers
    /\ at \in [Processes -> {"off", "table", "no_update", "no_delete",
                             "create", "apply", "ready"}]
    /\ {open, table, job, left} \subseteq Seq(1..MaxRows)
    /\ reported \subseteq begun /\ begun \subseteq SUBSET (1..MaxRows)
    /\ view \in [{"app", "tool"} -> SUBSET (1..MaxRows)]
    /\ opens \in 0..MaxOpens /\ faults \in 0..MaxFaults /\ crashes \in 0..MaxCrashes

\* A batch for which write_many returned stays in the table, whatever fails
\* or is killed afterwards.
ReportedIsDurable == UNION reported \subseteq Range(table)

\* A query never returns a part of a batch: of no batch on PostgreSQL, and on
\* SQLite, where a failed batch may leave a part behind, of none for which
\* write_many returns, then or later (the lock of SqliteBackend).
ViewsAreWhole ==
    \A r \in DOMAIN view : \A b \in (IF kind = "postgres" THEN begun ELSE reported) :
        b \subseteq view[r] \/ b \cap view[r] = {}

\* What a report of a process of its own has shown stays true: it has no rows
\* that a failed batch left behind and that a rollback takes away again.
SeenIsKept ==
    \A r \in DOMAIN view : r = "tool" \/ kind = "postgres" => view[r] \subseteq Range(table)

\* Queries and reports can be relied on.
ReadsAreWhole == ViewsAreWhole /\ SeenIsKept

-----------------------------------------------------------------------------
(* AuditStore implements AuditBackend.                                      *)

\* Rows of failed writes: those that are in the open transaction of SQLite and
\* are not of the batch under way.
Carried ==
    IF kind = "sqlite" THEN SubSeq(open, 1, Len(open) - (Len(job) - Len(left))) ELSE <<>>

Backend == INSTANCE AuditBackend WITH carried <- Carried

\* Either database, with its transactions, is the backend that the logger
\* counts on, through raised writes, lost answers, close() and crashes.  No
\* committed row is changed or removed, although the triggers that see to it
\* are not there at once: a process killed in the middle of the script, or two
\* that run it together, leave no database in which rows can be written and
\* are not protected (schema.sql, schema_sqlite.sql).
ImplementsBackend == Backend!Spec
=============================================================================
