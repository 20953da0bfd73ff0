----------------------------- MODULE AuditLogger -----------------------------
(***************************************************************************)
(* The audit path of Sentinel: LoggerAuditSink (app/pep/audit_hook.py),    *)
(* AsyncAuditLogger (app/audit/logger.py) and SqliteBackend                *)
(* (app/audit/backends.py), with the request threads that feed them.       *)
(*                                                                         *)
(* Four kinds of actor interleave.  Request threads of the server's pool   *)
(* read the health flag, decide, and hand their record to the event loop.  *)
(* The event loop runs those callbacks in order, the lifespan's start and  *)
(* stop, the clients of log() and flush(), and the writer task; it         *)
(* switches only where the code awaits.  An executor thread runs the       *)
(* INSERTs and the COMMIT of one batch.  The environment makes a write     *)
(* fail, or kills the process.                                             *)
(***************************************************************************)
EXTENDS Integers, Sequences, FiniteSets, SequencesExt

CONSTANTS
    Requests,     \* chat requests; each one produces one audit record
    Clients,      \* records of callers that use log() and then flush()
    STOP,         \* the sentinel _STOP that ends the writer
    MaxSize,      \* AsyncAuditLogger.maxsize
    BatchSize,    \* AsyncAuditLogger.batch_size
    DrainModes,   \* the values of stop(drain=...) that are exercised
    Graceful,     \* TRUE: the server finishes its requests before shutdown
    MaxFaults,    \* bound: backend calls that fail
    MaxStarts,    \* bound: calls of start() over the life of the database
    MaxCrashes    \* bound: process crashes

Records == Requests \cup Clients
Items == Records \cup {STOP}

ASSUME SentinelAssumption == STOP \notin Records
ASSUME KindsAssumption == Requests \cap Clients = {}
ASSUME SizesAssumption == MaxSize \in Nat \ {0} /\ BatchSize \in Nat \ {0}
ASSUME ModesAssumption == DrainModes \subseteq BOOLEAN /\ Graceful \in BOOLEAN
ASSUME BoundsAssumption ==
    MaxFaults \in Nat /\ MaxStarts \in Nat /\ MaxCrashes \in Nat

VARIABLES
    pc,          \* where each request thread, and each client, is
    verdict,     \* what the gate let each request be: answered or held
    callbacks,   \* log_nowait calls handed to the loop, not run yet
    phase,       \* lifecycle of the sink and its logger
    drain,       \* the argument of the stop() under way
    sinkLoop,    \* LoggerAuditSink._loop is not None
    queue,       \* AsyncAuditLogger._queue
    unfinished,  \* the queue's count of items put and not task_done()
    writer,      \* where the writer task is
    batch,       \* the batch the writer holds, a final STOP included
    healthy,     \* AsyncAuditLogger._healthy
    written,     \* AsyncAuditLogger._written
    dropped,     \* the records behind AsyncAuditLogger._dropped
    console,     \* records printed by the fallback sink
    pending,     \* rows inserted in the connection's open transaction
    table,       \* committed rows of audit_log, in seq order
    accepted,    \* history: records in the order they entered the queue
    failed,      \* history: records of batches the writer reported lost
    cleared,     \* history: records stop(drain=False) threw away
    faults, starts, crashes   \* how much of each bound is used

requestVars == <<pc, verdict, callbacks>>
sinkVars == <<phase, drain, sinkLoop>>
loggerVars == <<queue, unfinished, writer, batch, healthy, written>>
backendVars == <<pending, table>>
outcomeVars == <<dropped, console, accepted, failed, cleared>>
boundVars == <<faults, starts, crashes>>
vars == <<requestVars, sinkVars, loggerVars, backendVars, outcomeVars, boundVars>>

\* The records of a batch: all of it but a final STOP.
RecordsOf(b) ==
    IF b # <<>> /\ Last(b) = STOP THEN Front(b) ELSE b

Init ==
    /\ pc = [r \in Records |-> "idle"]
    /\ verdict = [r \in Requests |-> "none"]
    /\ callbacks = <<>>
    /\ phase = "fresh"
    /\ drain = TRUE
    /\ sinkLoop = FALSE
    /\ queue = <<>> /\ unfinished = 0
    /\ writer = "none" /\ batch = <<>>
    /\ healthy = TRUE /\ written = 0
    /\ dropped = {} /\ console = {}
    /\ pending = <<>> /\ table = <<>>
    /\ accepted = <<>> /\ failed = {} /\ cleared = {}
    /\ faults = 0 /\ starts = 0 /\ crashes = 0

Goto(r, label) == pc' = [pc EXCEPT ![r] = label]

-----------------------------------------------------------------------------
(* Request threads: ingress.handle_request and LoggerAuditSink.record.      *)

\* A graceful server takes requests only before startup (a bare test client)
\* and between startup and shutdown.
Accepting == Graceful => phase \in {"fresh", "serving"}

\* The fail-closed gate: the flag is read here and not looked at again.
Admit(r) ==
    /\ pc[r] = "idle"
    /\ Accepting
    /\ Goto(r, "admitted")
    /\ verdict' = [verdict EXCEPT ![r] = IF healthy THEN "answered" ELSE "held"]
    /\ UNCHANGED <<callbacks, sinkVars, loggerVars, backendVars, outcomeVars, boundVars>>

\* record() finds no loop: before startup, or after stop() cleared it.
FallBack(r) ==
    /\ pc[r] = "admitted"
    /\ ~sinkLoop
    /\ console' = console \cup {r}
    /\ Goto(r, "done")
    /\ UNCHANGED <<verdict, callbacks, sinkVars, loggerVars, backendVars,
                   dropped, accepted, failed, cleared, boundVars>>

SeesLoop(r) ==
    /\ pc[r] = "admitted"
    /\ sinkLoop
    /\ Goto(r, "building")
    /\ UNCHANGED <<verdict, callbacks, sinkVars, loggerVars, backendVars, outcomeVars, boundVars>>

\* from_decision raises, or _loop became None after it was tested.
BuildFails(r) ==
    /\ pc[r] = "building"
    /\ console' = console \cup {r}
    /\ Goto(r, "done")
    /\ UNCHANGED <<verdict, callbacks, sinkVars, loggerVars, backendVars,
                   dropped, accepted, failed, cleared, boundVars>>

HandOff(r) ==
    /\ pc[r] = "building"
    /\ sinkLoop
    /\ callbacks' = Append(callbacks, r)
    /\ Goto(r, "done")
    /\ UNCHANGED <<verdict, sinkVars, loggerVars, backendVars, outcomeVars, boundVars>>

-----------------------------------------------------------------------------
(* The event loop: log_nowait, log, flush.                                  *)

Put(x) ==
    /\ queue' = Append(queue, x)
    /\ unfinished' = unfinished + 1

\* put_nowait: the record is queued, or counted as dropped when there is no
\* room; the False that log_nowait returns then goes nowhere.
LogNowait ==
    /\ callbacks # <<>>
    /\ callbacks' = Tail(callbacks)
    /\ \/ /\ Len(queue) < MaxSize
          /\ Put(Head(callbacks))
          /\ accepted' = Append(accepted, Head(callbacks))
          /\ UNCHANGED dropped
       \/ /\ Len(queue) >= MaxSize
          /\ dropped' = dropped \cup {Head(callbacks)}
          /\ UNCHANGED <<queue, unfinished, accepted>>
    /\ UNCHANGED <<pc, verdict, sinkVars, writer, batch, healthy, written,
                   backendVars, console, failed, cleared, boundVars>>

\* await log(record); await flush(): no switch between the put and the join.
LogAndFlush(c) ==
    /\ pc[c] = "idle"
    /\ phase # "fresh"                  \* log() asserts that there is a queue
    /\ Graceful => phase = "serving"
    /\ Len(queue) < MaxSize
    /\ Put(c)
    /\ accepted' = Append(accepted, c)
    /\ Goto(c, "joining")
    /\ UNCHANGED <<verdict, callbacks, sinkVars, writer, batch, healthy, written,
                   backendVars, dropped, console, failed, cleared, boundVars>>

\* The client runs again after join() and looks at healthy.
FlushReturns(c) ==
    /\ pc[c] = "joined"
    /\ Goto(c, IF healthy THEN "assured" ELSE "refused")
    /\ UNCHANGED <<verdict, callbacks, sinkVars, loggerVars, backendVars, outcomeVars, boundVars>>

\* Faulty variants of TaskDone: one call too many, and waking join() early.
TaskDoneOnceMore(n) ==
    /\ unfinished' = (unfinished - n) - 1
    /\ pc' = [r \in Records |->
                IF unfinished' = 0 /\ pc[r] = "joining" THEN "joined" ELSE pc[r]]

TaskDoneWakesEarly(n) ==
    /\ unfinished' = unfinished - n
    /\ pc' = [r \in Records |->
                IF unfinished' <= 1 /\ pc[r] = "joining" THEN "joined" ELSE pc[r]]

\* n calls of task_done(): at zero the waiters of join() are released.
TaskDone(n) ==
    /\ unfinished' = unfinished - n
    /\ pc' = [r \in Records |->
                IF unfinished' = 0 /\ pc[r] = "joining" THEN "joined" ELSE pc[r]]

-----------------------------------------------------------------------------
(* The writer task: _run, _collect_batch, _flush, and write_many.           *)

\* One item, then more while there are some, up to BatchSize or a STOP.
CollectBatch ==
    /\ writer = "collecting"
    /\ queue # <<>>
    /\ queue[1] # STOP
    /\ \E n \in 1..Len(queue) :
        /\ n <= BatchSize
        /\ \A i \in 1..(n - 1) : queue[i] # STOP
        /\ queue[n] = STOP \/ n \in {BatchSize, Len(queue)}
        /\ batch' = SubSeq(queue, 1, n)
        /\ queue' = SubSeq(queue, n + 1, Len(queue))
    /\ writer' = "writing"
    /\ UNCHANGED <<requestVars, sinkVars, unfinished, healthy, written,
                   backendVars, outcomeVars, boundVars>>

\* A batch that is only the sentinel: nothing to write, the task returns.
TakeStop ==
    /\ writer = "collecting"
    /\ queue # <<>>
    /\ queue[1] = STOP
    /\ queue' = Tail(queue)
    /\ TaskDone(1)
    /\ writer' = "exited"
    /\ UNCHANGED <<verdict, callbacks, sinkVars, batch, healthy, written,
                   backendVars, outcomeVars, boundVars>>

\* executemany and commit in the executor; earlier leftovers go in as well.
Commit ==
    /\ writer = "writing"
    /\ table' = table \o pending \o RecordsOf(batch)
    /\ pending' = <<>>
    /\ writer' = "wrote"
    /\ UNCHANGED <<requestVars, sinkVars, queue, unfinished, batch, healthy,
                   written, outcomeVars, boundVars>>

\* Faulty variant of WriteFails: write_many swallows the exception.
WriteFailsSilently ==
    /\ writer = "writing"
    /\ faults < MaxFaults
    /\ faults' = faults + 1
    /\ pending' = pending
    /\ writer' = "wrote"
    /\ UNCHANGED <<requestVars, sinkVars, queue, unfinished, batch, healthy,
                   written, table, outcomeVars, starts, crashes>>

\* A row or the commit fails.  Nothing rolls back: the rows inserted so far
\* stay in the open transaction, unless SQLite itself rolled it back.
WriteFails ==
    /\ writer = "writing"
    /\ faults < MaxFaults
    /\ faults' = faults + 1
    /\ \/ \E k \in 0..Len(RecordsOf(batch)) :
            pending' = pending \o SubSeq(RecordsOf(batch), 1, k)
       \/ pending' = <<>>
    /\ writer' = "raised"
    /\ UNCHANGED <<requestVars, sinkVars, queue, unfinished, batch, healthy,
                   written, table, outcomeVars, starts, crashes>>

\* Back on the loop: count, task_done for each item, then loop or return.
AfterFlush ==
    /\ TaskDone(Len(batch))
    /\ batch' = <<>>
    /\ writer' = IF Last(batch) = STOP THEN "exited" ELSE "collecting"

\* Faulty variant of FlushSucceeds: batches are counted, not records.
FlushCountsBatches ==
    /\ writer = "wrote"
    /\ written' = written + 1
    /\ healthy' = TRUE
    /\ AfterFlush
    /\ UNCHANGED <<verdict, callbacks, sinkVars, queue, backendVars, outcomeVars, boundVars>>

\* Faulty variant of FlushSucceeds: only start() makes the logger healthy.
FlushSucceedsKeepsHealth ==
    /\ writer = "wrote"
    /\ written' = written + Len(RecordsOf(batch))
    /\ AfterFlush
    /\ UNCHANGED <<verdict, callbacks, sinkVars, queue, healthy, backendVars,
                   outcomeVars, boundVars>>

FlushSucceeds ==
    /\ writer = "wrote"
    /\ written' = written + Len(RecordsOf(batch))
    /\ healthy' = TRUE
    /\ AfterFlush
    /\ UNCHANGED <<verdict, callbacks, sinkVars, queue, backendVars, outcomeVars, boundVars>>

\* Faulty variants of FlushFails: the batch is queued again, the exception
\* escapes before the calls of task_done(), the exception ends the task.
FlushFailsAndRetries ==
    /\ writer = "raised"
    /\ healthy' = FALSE
    /\ queue' = batch \o queue
    /\ batch' = <<>>
    /\ writer' = "collecting"
    /\ UNCHANGED <<requestVars, sinkVars, unfinished, written, backendVars, outcomeVars, boundVars>>

FlushFailsWithoutTaskDone ==
    /\ writer = "raised"
    /\ healthy' = FALSE
    /\ failed' = failed \cup Range(RecordsOf(batch))
    /\ batch' = <<>>
    /\ writer' = IF Last(batch) = STOP THEN "exited" ELSE "collecting"
    /\ UNCHANGED <<requestVars, sinkVars, queue, unfinished, written, backendVars,
                   dropped, console, accepted, cleared, boundVars>>

FlushFailsAndExits ==
    /\ writer = "raised"
    /\ healthy' = FALSE
    /\ failed' = failed \cup Range(RecordsOf(batch))
    /\ TaskDone(Len(batch))
    /\ batch' = <<>>
    /\ writer' = "exited"
    /\ UNCHANGED <<verdict, callbacks, sinkVars, queue, written, backendVars,
                   dropped, console, accepted, cleared, boundVars>>

FlushFails ==
    /\ writer = "raised"
    /\ healthy' = FALSE
    /\ failed' = failed \cup Range(RecordsOf(batch))
    /\ AfterFlush
    /\ UNCHANGED <<verdict, callbacks, sinkVars, queue, written, backendVars,
                   dropped, console, accepted, cleared, boundVars>>

-----------------------------------------------------------------------------
(* Lifecycle: start() and stop() of the sink and of its logger.             *)

\* A new queue replaces the old one; whoever waits on the old one waits on.
BeginStart ==
    /\ phase \in {"fresh", "stopped", "failed"}
    /\ writer = "none"
    /\ starts < MaxStarts
    /\ starts' = starts + 1
    /\ phase' = "connecting"
    /\ queue' = <<>>
    /\ unfinished' = 0
    /\ pc' = [r \in Records |-> IF pc[r] = "joining" THEN "stranded" ELSE pc[r]]
    /\ UNCHANGED <<verdict, callbacks, drain, sinkLoop, writer, batch, healthy,
                   written, backendVars, outcomeVars, faults, crashes>>

ConnectSucceeds ==
    /\ phase = "connecting"
    /\ phase' = "serving"
    /\ writer' = "collecting"
    /\ sinkLoop' = TRUE
    /\ UNCHANGED <<requestVars, drain, queue, unfinished, batch, healthy, written,
                   backendVars, outcomeVars, boundVars>>

ConnectFails ==
    /\ phase = "connecting"
    /\ faults < MaxFaults
    /\ faults' = faults + 1
    /\ phase' = "failed"
    /\ healthy' = FALSE
    /\ UNCHANGED <<requestVars, drain, sinkLoop, queue, unfinished, writer, batch,
                   written, backendVars, outcomeVars, starts, crashes>>

Quiet == callbacks = <<>> /\ \A r \in Records :
            pc[r] \in {"idle", "done", "gone", "assured", "refused", "stranded"}

\* The sink forgets the loop; without drain the queue is emptied first.
BeginStop ==
    /\ phase = "serving"
    /\ Graceful => Quiet
    /\ drain' \in DrainModes
    /\ phase' = "stopping"
    /\ sinkLoop' = FALSE
    /\ IF drain'
         THEN UNCHANGED <<queue, unfinished, pc, cleared>>
         ELSE /\ queue' = <<>>
              /\ cleared' = cleared \cup (Range(queue) \cap Records)
              /\ TaskDone(Len(queue))
    /\ UNCHANGED <<verdict, callbacks, writer, batch, healthy, written, backendVars,
                   dropped, console, accepted, failed, boundVars>>

\* Faulty variant of PutStop: the sentinel jumps the queue.
PutStopFirst ==
    /\ phase = "stopping"
    /\ Len(queue) < MaxSize
    /\ queue' = <<STOP>> \o queue
    /\ unfinished' = unfinished + 1
    /\ phase' = "joining"
    /\ UNCHANGED <<requestVars, drain, sinkLoop, writer, batch, healthy, written,
                   backendVars, outcomeVars, boundVars>>

\* await queue.put(_STOP) waits while the queue is full.
PutStop ==
    /\ phase = "stopping"
    /\ Len(queue) < MaxSize
    /\ Put(STOP)
    /\ phase' = "joining"
    /\ UNCHANGED <<requestVars, drain, sinkLoop, writer, batch, healthy, written,
                   backendVars, outcomeVars, boundVars>>

\* await self._worker returned; the connection is closed in the executor,
\* which rolls back whatever its open transaction still held.
JoinWriter ==
    /\ phase = "joining"
    /\ writer = "exited"
    /\ writer' = "none"
    /\ phase' = "closing"
    /\ UNCHANGED <<requestVars, drain, sinkLoop, queue, unfinished, batch, healthy,
                   written, backendVars, outcomeVars, boundVars>>

\* Faulty variant of CloseBackend: the open transaction is committed.
CloseCommits ==
    /\ phase = "closing"
    /\ phase' = "stopped"
    /\ table' = table \o pending
    /\ pending' = <<>>
    /\ UNCHANGED <<requestVars, drain, sinkLoop, loggerVars, outcomeVars, boundVars>>

CloseBackend ==
    /\ phase = "closing"
    /\ phase' = "stopped"
    /\ pending' = <<>>
    /\ UNCHANGED <<requestVars, drain, sinkLoop, loggerVars, table, outcomeVars, boundVars>>

\* The process dies.  Only committed rows and printed lines survive.
Crash ==
    /\ crashes < MaxCrashes
    /\ crashes' = crashes + 1
    /\ pc' = [r \in Records |->
                IF pc[r] \in {"idle", "done", "assured", "refused"} THEN pc[r] ELSE "gone"]
    /\ callbacks' = <<>>
    /\ phase' = "fresh" /\ drain' = TRUE /\ sinkLoop' = FALSE
    /\ queue' = <<>> /\ unfinished' = 0
    /\ writer' = "none" /\ batch' = <<>>
    /\ healthy' = TRUE /\ written' = 0
    /\ pending' = <<>>
    /\ UNCHANGED <<verdict, table, outcomeVars, faults, starts>>

\* Nothing is left to do: the process has stopped, or never started, and
\* every thread is through, waits for a server that is gone, or for a queue
\* that no writer reads.
Finished ==
    /\ phase \in {"fresh", "stopped", "failed"}
    /\ starts = MaxStarts
    /\ callbacks = <<>>
    /\ \A r \in Requests : pc[r] \in {"done", "gone"} \/ (pc[r] = "idle" /\ ~Accepting)
    /\ \A c \in Clients : pc[c] # "joined"
    /\ UNCHANGED vars

-----------------------------------------------------------------------------
RequestStep(r) ==
    Admit(r) \/ FallBack(r) \/ SeesLoop(r) \/ BuildFails(r) \/ HandOff(r)
ClientStep(c) == LogAndFlush(c) \/ FlushReturns(c)
ExecutorStep == Commit \/ WriteFails
WriterStep == CollectBatch \/ TakeStop \/ FlushSucceeds \/ FlushFails
StartStep == BeginStart \/ ConnectSucceeds \/ ConnectFails
StopStep == PutStop \/ JoinWriter \/ CloseBackend

Next ==
    \/ \E r \in Requests : RequestStep(r)
    \/ \E c \in Clients : ClientStep(c)
    \/ LogNowait
    \/ ExecutorStep
    \/ WriterStep
    \/ StartStep
    \/ BeginStop
    \/ StopStep
    \/ Crash
    \/ Finished

Spec == Init /\ [][Next]_vars

\* The loop runs whatever is ready, the executor finishes its call, and a
\* thread that was admitted runs to its end.  Nothing says that a request
\* arrives, that the process is started or stopped, or that it crashes.
Fairness ==
    /\ \A r \in Requests : WF_vars(FallBack(r) \/ SeesLoop(r) \/ BuildFails(r) \/ HandOff(r))
    /\ \A c \in Clients : WF_vars(FlushReturns(c))
    /\ WF_vars(LogNowait)
    /\ WF_vars(ExecutorStep)
    /\ WF_vars(WriterStep)
    /\ WF_vars(ConnectSucceeds \/ ConnectFails)
    /\ WF_vars(StopStep)

FairSpec == Spec /\ Fairness

-----------------------------------------------------------------------------
(* Properties                                                               *)

\* The type invariant.
TypeOK ==
    /\ pc \in [Records -> {"idle", "admitted", "building", "done", "joining",
                           "joined", "assured", "refused", "stranded", "gone"}]
    /\ verdict \in [Requests -> {"none", "answered", "held"}]
    /\ callbacks \in Seq(Requests)
    /\ phase \in {"fresh", "connecting", "serving", "stopping", "joining",
                  "closing", "stopped", "failed"}
    /\ drain \in BOOLEAN
    /\ sinkLoop \in BOOLEAN
    /\ queue \in Seq(Items)
    /\ unfinished \in Nat
    /\ writer \in {"none", "collecting", "writing", "wrote", "raised", "exited"}
    /\ batch \in Seq(Items)
    /\ healthy \in BOOLEAN
    /\ written \in Nat
    /\ dropped \subseteq Records /\ console \subseteq Records
    /\ failed \subseteq Records /\ cleared \subseteq Records
    /\ pending \in Seq(Records) /\ table \in Seq(Records) /\ accepted \in Seq(Records)
    /\ faults \in 0..MaxFaults /\ starts \in 0..MaxStarts /\ crashes \in 0..MaxCrashes

Persisted == Range(table)

\* The counter never claims more than the table holds: whatever order the
\* executor's commit, the loop's bookkeeping, failures and restarts come in,
\* at least `written` rows are committed (AsyncAuditLogger.written).
WrittenIsBacked == written <= Len(table)

\* In a process that did not crash the rows are exactly those counted by
\* `written` and those of batches that were reported lost but whose leftovers
\* a later commit carried along, once the loop has counted the last batch.
RowsAccountedFor ==
    (crashes = 0 /\ writer # "wrote") =>
        Len(table) = written + Cardinality(failed \cap Persisted)

\* flush() returns to a caller only when its record has been through the
\* writer: it is committed, was reported lost, or was thrown away by
\* stop(drain=False).  It is never still queued or in the executor's hands.
FlushCoversTheRecord ==
    \A c \in Clients :
        pc[c] \in {"joined", "assured", "refused"} => c \in Persisted \cup failed \cup cleared

\* A server that finishes its requests before it shuts down leaves no record
\* behind: after stop() every decision taken is in the table, on the console,
\* or among the losses the code reported (a failed batch, a full queue).
ShutdownSettlesEveryRecord ==
    (Graceful /\ phase = "stopped" /\ crashes = 0) =>
        \A r \in Requests :
            verdict[r] # "none" => r \in Persisted \cup console \cup failed \cup dropped \cup cleared

\* The audit path implements the trail: append-only, in queue order, no
\* record twice, none that was not accepted, through failed batches whose
\* leftovers are committed later, restarts and crashes.  The trail is the
\* committed table; the records it accepts are those that enter the queue.
Trail == INSTANCE AuditTrail WITH trail <- table
ImplementsTrail == Trail!Spec

\* The write of one batch is one step here.  It is a step of the backend that
\* AuditStore implements with its opens, rows, commits and readers: rows of a
\* failed write go in with the next one or are lost, and none goes in twice.
Backend == INSTANCE AuditBackend WITH carried <- pending
KeepsTheBackend == Backend!Spec

\* stop() ends, whatever the queue holds when it is called and however the
\* writes go: the sentinel finds room, the writer reaches it and returns.
StopTerminates == phase = "stopping" ~> phase \in {"stopped", "fresh"}

\* Every record that entered the queue is eventually committed, reported lost
\* or cleared; the writer outlives the batches that fail.
AcceptedIsSettled ==
    \A r \in Records :
        r \in Range(accepted) ~> r \in Persisted \cup failed \cup cleared

\* flush() returns: a waiter of join() is not forgotten by task_done().
FlushIsAnswered ==
    \A c \in Clients : pc[c] = "joining" ~> pc[c] \in {"assured", "refused"}

\* Whoever waits for the logger to settle what it holds is let go.
CallersReturn == StopTerminates /\ FlushIsAnswered

\* The fail-closed gate is not shut for good by one failed write: a held
\* request is audited too, and once its record has entered the queue, the gate
\* opens again or that record is a loss the code reported.
HeldReopensTheGate ==
    \A r \in Records :
        ~healthy /\ r \in Range(queue) ~> healthy \/ r \in failed \cup cleared

\* Claim of the docstring of AuditUnavailable, in its weakest form: once the
\* server has shut down in order, every answer that reached a user has an
\* audit record, in the database or at least on the console.
AnsweredIsAudited ==
    (phase = "stopped" /\ crashes = 0) =>
        \A r \in Requests :
            verdict[r] = "answered" /\ pc[r] = "done" => r \in Persisted \cup console

\* Claim of the docstring of flush(): a caller that logs, flushes and then
\* finds the logger healthy knows that its record is durable.
FlushThenHealthyIsDurable ==
    \A c \in Clients : pc[c] = "assured" => c \in Persisted

\* Claim of the docstring of `written`: it counts the records persisted since
\* start(), when nothing is between the commit and the count.
WrittenCountsThePersisted ==
    (crashes = 0 /\ starts <= 1 /\ writer # "wrote") => written = Len(table)
=============================================================================
