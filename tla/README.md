# A TLA+ verification of Sentinel

Sentinel is a gateway in front of an AI coding assistant. A chat request passes
a policy decision point (PDP), is answered, refused or held for a human, and
leaves one record in an append-only audit log. This directory models the parts
of it that decide, remember and record, checks them with TLC on small
instances, and proves the invariants, the action property and the refinements of
its concurrent parts with TLAPS for every value of the constants.

Contents: the system; modules and code; the runs; where code and text disagree;
the proofs; what is left out; the plan.

## 1. The system

A request is handled on a thread of the server's pool by
`pep/ingress.handle_request`:

    identity -> health gate -> Pipeline.evaluate -> enforcement.apply -> audit sink -> counters
                                |   decision cache     | ALLOW: assistant, output scanner
                                |   stages 3..7        | STOP: refusal that cites a policy
                                |   combine, stamp     | ESCALATE: queue for a human
                                +-- PolicyStore.active()

Beside it run the event loop, with the audit logger's writer task and the
startup and shutdown of the application, an executor thread that talks to SQLite,
and, where somebody constructs one, the thread of a `PolicyWatcher`. They share
Python objects with few locks: the audit queue, the flag `healthy`, the decision
cache, the active snapshot, the globals of two detectors. Beside the process run
scripts that create the audit database or report from it.

| Component | State | Operations | What is hard | What makes it correct |
|---|---|---|---|---|
| Audit logger `audit/logger.py` | queue, unfinished count, writer task, `_healthy`, counters | `log`, `log_nowait`, `flush`, `start`, `stop(drain)`, writer loop | loop, executor and pool interleave; full queue; failing batch; restart; sentinel | rows are a prefix-ordered, duplicate-free trail of what was accepted; counters match the table; `flush` and `stop` end, and say no more than is true |
| SQLite and PostgreSQL backends `audit/backends.py`, schemas, `scripts/init_audit_db.py`, `audit_report.py` | connection with an open transaction, or pool; table, triggers | `connect`, `write_many`, `count`, `fetch`, `close`; the scripts | a batch that fails in the middle, a lost answer, readers beside a transaction, a process killed while it creates the tables | what is reported is kept, rows never change, no part of a batch is shown |
| Audit record `audit/models.py`, console sink | none | `from_decision`, `to_row`, `from_row` | many forms of a decision, two builders of one record | what is read back is what was decided |
| Audit queries, latency gate `tests/eval/latency.py` | none | the review queries, percentiles | times compared as strings, rounding at boundaries | reports are exact |
| Audit sink `pep/audit_hook.py` | loop reference, logger | `record`, `start`, `stop`, `is_healthy` | the loop vanishes under a request thread | every decision goes to the queue or to the console |
| Decision cache `pdp/pipeline.py` | ordered dictionary, id of a snapshot | `evaluate` | threads without a lock, a snapshot swap in the middle, a reused `id()` | fresh, bounded, LRU |
| Pipeline, combiner, enforcement, output scanner | locals of one request | stages, `combine`, handlers, egress scan | errors in stages and handlers, a reload between two reads | the strictest verdict wins; only what nothing objects to is answered; the record tells the response |
| Escalation queue, counters | a list, a counter per key | `enqueue`, `increment` | a webhook that fails, the outer guard | what is held is queued; counters match the trail |
| Policy store and watcher `policy/` | active snapshot, signature, thread, event | `reload_from_disk`, `poll_once`, `start`, `stop` | files that change under the reload, `stop()` that gives up | the policy of the disk comes into force, never an older one, never one that does not compile |
| Authorization `pdp/authz/`, identity | tables; a trie | `evaluate`, masks, `insert`, `prefix_match`, `check` | order of checks, agreement of tables, shared prefixes | no escalation hides a refusal; the trie matches prefixes |
| Injection detector, PII detector | `_automaton`, `_use_aho`; `_analyzer` | `scan` | first use on two threads, a second pass that fails | what is there is found |
| Secrets and intent detectors | none | `scan` | order of rules, guards and passes | no rule, placeholder or guard hides what another one finds |
| Output scanner's spans and `redact` (dormant) | none | `scan`, `redact` | spans without positions | what was flagged is gone, and nothing else |
| Rate limiter, configuration, evaluation harness apart from its percentile | | | | not modelled, section 6 |

Things a reader of the code may not expect, and which the models respect:

- `app/main.py` starts no `PolicyWatcher`; only the tests construct one. Hot
  reload is modelled as the package offers it.
- `Snapshot.from_bundle` stamps the constant version `v1.0`; different versions
  come from snapshots that are handed to `PolicyStore.reload`. RequestPath lets
  any such snapshot become active.
- No stage reads the snapshot's policy; it decides only versions and citations.
- `pyahocorasick` is in no dependency list, so the fallback of the injection
  detector is the normal case.
- `ScopeTrie` (apart from the static `detect_cross_org`), `require_available`
  and the rate limiter have no caller in the application.

## 2. Modules and code

| Module | Models | Notes |
|---|---|---|
| `AuditLogger` | sink, logger, SQLite backend, request threads up to the hand-off, lifespan | one action per stretch of code between two awaits (loop), per executor call, per shared access (pool threads) |
| `AuditTrail` | what the audit path promises: an append-only log of accepted records | abstract; `AuditLogger` implements it, with `trail <- table`. `Persist` extends the trail by anything that leaves it in the order of acceptance |
| `AuditBackend` | what a backend promises its logger: a write returns and commits, or raises and leaves rows that the next commit may carry | abstract; both `AuditLogger` (its side of the calls) and `AuditStore` (both databases) implement it |
| `AuditStore` | `SqliteBackend`, `PostgresBackend`, the two schemas, `init_audit_db.py`, `audit_report.py`, the tamper check of `audit_demo.py` | SQLite: one action per statement of the script, and per row of a batch; PostgreSQL: one per transaction |
| `AuditQueries` | `audit/queries.py` and `fetch()` | strings of times compare character by character |
| `AuditRecord` | `audit/models.py`, `ConsoleAuditSink` | pure operators, and one action per sink and per row |
| `LatencyStats` | `_percentile` of `audit/queries.py` and of `tests/eval/latency.py`, the latency gate | a sample is fast or slow; what that says about real values is in section 3 |
| `DecisionCache` | `Pipeline.evaluate`, `PolicyStore.reload` | one action per operation on the shared dictionary or id |
| `PolicyReload` | `PolicyStore.reload_from_disk`, `Snapshot.from_bundle`, `PolicyWatcher` | one action per file access; an operator deploys the two files one by one |
| `Verdicts` | `Decision`, `combine`, stage adapters, output verdict | pure operators |
| `RequestPath` | `handle_request`, `_evaluate`, `enforcement.apply`, `enqueue`, `from_decision`, `increment` | extends `Verdicts`; what the prompt and the answer hold is chosen at the start |
| `Authorization` | `EIMClient`, masks, `cedar_engine.evaluate`, `_authz_stage` | extends `Verdicts` |
| `ScopeTrie` | the trie of `authz/scope.py` | a node is the path that leads to it |
| `InjectionScan` | `injection.py` | a prompt is which of its parts hold a phrase |
| `PiiScan` | the two passes of `pii.py` and the engine they load | one action per access to `_analyzer` |
| `Detectors` | `secrets.py`, `pii.py`, `intent.py` as functions of a prompt | extends `Verdicts`; a prompt is a sequence of fragments, each named for the pattern that matches it |
| `OutputScan` | O1 to O3 and `redact` of `output_scanner.py` | an answer is a sequence of atoms |
| `AuditLogger_proofs`, `AuditRows_proofs`, `AuditStore_proofs`, `DecisionCache_proofs`, `PolicyReload_proofs`, `RequestPath_proofs` | theorems on the module of that name, and on the rows of `AuditLogger` | section 5 |
| `PromptChecks`, `RecordChecks` | `Authorization`, `ScopeTrie`, `InjectionScan`, `PiiScan`, `Detectors` and `OutputScan`; `AuditRecord`, `AuditQueries` and `LatencyStats` | instances with their constants open; `MCStages` and `MCAuditStore` extend them for TLC, `Checks_proofs` for the proofs |
| `Checks_proofs` | theorems on the nine instances of `PromptChecks` and `RecordChecks` | section 5 |
| `SequenceLemmas` | nothing of the code: facts about sequences and recursion that several proofs cite | section 5 |
| `MC*` | the TLC instances | values of constants, symmetry; `MCStages` and `MCAuditStore` each instantiate several modules that share no state, and a behaviour follows one of them |

RequestPath abstracts two neighbours by what they do to it: the decision cache
(evaluation may raise, `OuterGuard`) and the audit logger (health flips,
`HealthFlips`; the sink may raise, `RecordRaises`). In AuditLogger a request is
the other way round: it passes the gate, decides, and hands over a record.

`AuditBackend` is the seam between logger and database. `AuditLogger` maps its
`carried` to the rows that a failed batch left in the open transaction
(`KeepsTheBackend`), `AuditStore` to the same rows of the SQLite connection,
without the batch under way, and to nothing for PostgreSQL (`ImplementsBackend`).
What `AuditLogger` assumes of a database in its actions `Commit` and
`WriteFails` is therefore what `AuditStore` shows of it, statement by statement.

How steps are cut. On the event loop nothing interleaves between two awaits, so
`log` + the first half of `flush` is one step, and `FlushReturns` is another:
the waiter of `join()` runs later than `task_done()`. The writer's INSERTs and
COMMIT happen in the executor, so `Commit` and the bookkeeping after it
(`FlushSucceeds`) are two steps with anything in between. On pool threads every
read or write of something shared is a step (`SeesLoop`, then `HandOff` or
`BuildFails`, because `_loop` may be cleared in between).

Data is reduced to what matters: a verdict in the cache is the snapshot it came
from; a bundle file is the release it holds or `Partial`; a modification time is
a count of writes; a detector's result is one of the rules it can cite, or an
error; a prompt for the authorization is the set of organisations it names. A
row of `AuditStore` is a number. An answer of `OutputScan` is a sequence of atoms,
chosen so that adjacent ones do and do not have a word boundary between them.

## 3. The runs

| Run | Instance | States | What it asks |
|---|---|---|---|
| `audit_safety` | 2 requests, 1 client, queue and batch of 2, both stop modes, 2 faults, 2 starts, 1 crash | 385 k | `WrittenIsBacked`, `RowsAccountedFor`, `FlushCoversTheRecord`, `ImplementsTrail`: the table is an append-only, duplicate-free trail in queue order, and `KeepsTheBackend`: the logger writes, retries nothing and closes as `AuditBackend` allows |
| `audit_live` | the same with an orderly shutdown, no crash, 1 fault, fairness | 33 k | `ShutdownSettlesEveryRecord`, `CallersReturn` (`stop()` and `flush()`), `AcceptedIsSettled`, `HeldReopensTheGate`: a failed write shuts the gate until the next batch only |
| `audit_rows` | a logger and 2 tools, either database, batches of up to 2 of 4 rows, 4 connections, 2 faults, 1 killed process; 3 rows of 2 decisions, 2 users and 6 instants for the queries; 2 signals for a record; 40 samples for the percentiles | 465 k | `ReportedIsDurable`, `ReadsAreWhole`, `ImplementsBackend`, `QueriesAreExact`, `NeverMoreLenient`, `SinksAgree`, `PercentilesAreSound` |
| `cache_threads` | 3 threads, 2 keys, capacities 0 to 2, 4 calls, 2 reloads at any time, addresses may come back | 3.8 M | `BoundedCache`, `FreshUntilOverlap`, `SoloIsLRU` |
| `reload_watch` | 2 polling threads, 2 releases (the first malformed), the catalog written in place or by a rename, a watcher built at any time, a `stop()` that may give up, fairness | 196 k | `KeepsGoodPolicy`, `NeverGoesBack`, `Converges`, `StopReturns` |
| `path_requests` | 2 requests, 3 stages, answers that are clean, leak or make a scanner fail, one reload, one error, one health flip | 3.4 M | `AnswerIsScreened`, `StrictestWins`, `AccountsAgree` (user, trail and counters), `CitesWhatDecided` (version and rule) |
| `stages_checks` | all arguments of `evaluate` over 5 roles, 2 tenants, 7 actions; all orders of inserts of 10 paths; 2 threads and 3 scans of prompts with up to 2 decoded blocks, with the library and without, and of the PII detector; every sequence of up to 4 of 28 fragments; every answer of up to 5 of 7 atoms | 653 k | `FirstObjectionIsStrictest`, `KnownUsersPassTheStage`, `ScopeIsExact`, `LazyLoadsLoseNoMore`, `DetectorsAreExact`, `LongerIsNoMoreLenient`, `StripsSpansApart` |

Some properties are conjunctions of named parts, which are stated and commented
in their modules: `CallersReturn`, `AccountsAgree`, `CitesWhatDecided`,
`DetectorsAreExact`, `LazyLoadsLoseNoMore`, `ReadsAreWhole`, `QueriesAreExact`,
`PercentilesAreSound`.

Why the bounds are enough to be interesting. In the audit runs three records
and the sentinel compete for two slots, so the queue overflows, `log()` and
`stop()` have to wait, batches hold one or two items or end with the sentinel; a
second fault lets two batches fail in a row or one fail after a failed connect;
two starts give a restart with the counters of the first life. Three threads are
more than any capacity in the cache run, so an eviction can meet a clear or
another eviction. Two releases and two threads are what a watcher needs to be
stopped, restarted and to see a change while it reads another; releases and
timeouts together are bounded by `MaxEvents`, because timeouts void the
properties that are about order. Only the catalog may be half written in that
run (`InPlace`): what a half-written Cedar text does, namely nothing but being
swapped in, is in `reload_torn`, whose files are both written in place. Two requests suffice for the shared state of
the request path (store, health, trail, counters); the three stages can each
object in the ways that differ (raise, escalate, stop). Four fragments are the
parts of the longest rule (R-09) with its guard, in every order; a fragment that
is repeated changes nothing, so none is.

In `audit_rows` two tools are what it takes to create the database at the same
time while the logger opens it; the killed process can be any of the three,
between any two statements. Four rows in batches of two let a failed batch leave
one row behind, a second carry it along, and the next report tell them apart.
The instants lie on, before and behind the boundary of the hour, with and without
a fraction. The rank of a percentile repeats its rounding every 20 samples for
50 and 95; 40 samples are two such periods, so that both parities of `round()`
to even occur. One threshold is enough to tell samples apart: a percentile is
wrong only if it is wrong about some threshold between its value and the right
one. Ranks are computed with whole numbers; Python's floats give the same for
every length up to 20 000.

Five atoms are two spans, what stands between them and what surrounds them.
`FindAll`, `Spans` and `Redact` give what the code gives for each of the 19 608
answers. Symmetry is used for
requests and threads in runs without liveness properties.

Conditions in properties are part of the claim, not of the instance.
`FreshUntilOverlap` and `SoloIsLRU` are conditional on history (`seen`);
`NeverGoesBack` and `Converges` on `stop()` not having given up,
`Converges` also on a watcher that was built before the first write (`late`);
`RowsAccountedFor` on no crash. `LiveSecretIsFound` is about credentials that no
placeholder of the same kind precedes; `StripsSpansApart` about answers in which
no flagged text overlaps another. `LazyLoadsLoseNoMore` excepts what the code does
lose: without the library a scan that began before `_use_aho` was cleared
(`exposed`), and an engine for PII that raises. The threads of the run are not
kept apart, so that it meets both; section 4 has the counterexamples of the
claims without the exceptions. `LongerIsNoMoreLenient` excepts the fragments that
exempt from a rule, and an "is" right behind an abbreviation at the end of the
prompt: the expression of R-02 looks ahead behind `SMR` and `TTR`
(`pdp/detectors/intent.py:39-40`), so "look at the SMR" is stopped and "look at the
SMR is for customer 42" is not. The part of `ScopeIsExact` that says that a grant
is never taken back excepts the first insert, with which `check` turns from the
flat list of services to the trie (`pdp/authz/scope.py:61-65`).
`NeverMoreLenient` is about the forms of a disposition that the pipeline, the
docstring and the tests name, among the numbers 0, 1, 1.5 and 2; another fraction
has no meaning on the scale, `int()` truncates it.

Fairness. `AuditLogger`: the event loop runs what is ready (callbacks, writer,
`stop()`, a released waiter), the executor finishes its call, an admitted thread
runs to its end: all weak, since none of these can be disabled for good while it
is ready. Nothing is assumed of arrivals, starts, stops, faults or crashes.
Since a client that waits in `log()` for room is not promised anything,
`LogAndFlush` has no fairness. `PolicyReload`: a polling thread keeps running,
`join()` returns when the thread has ended, and a file write that was begun is
completed; releases, `start()` and `stop()` are up to their callers. The other
modules have no liveness properties: a request path without loops ends when its
thread runs, and TLC's deadlock check shows that none gets stuck.

Deadlock is checked except in `audit_live`, whose orderly server may stop with
clients that wait for a logger which never starts again; the same steps are
checked for deadlock by `audit_safety`, where `Finished` names the final states.

Both composite runs begin with all their parts at rest, and the first step
chooses the one that the behaviour follows; what has several initial states
(library, engine, kind of database) has one of them while another part moves.

Every property of a passing run has a mutant: a faulty variant of one action,
kept beside the action ("Faulty variant of ..."), with which TLC finds the
property violated. They are no part of `Next`.

## 4. Where the code and what is written about it disagree

Five disagreements are runs that TLC must find violated:

| Run | Claim | What the model shows |
|---|---|---|
| `audit_overflow` `AnsweredIsAudited` | no un-audited decision reaches the user (`audit/logger.py:31-33`, and `:152-153` on reacting to a full queue) | a full queue drops the record of an answered request; `call_soon_threadsafe` discards the result and `healthy` stays set |
| `cache_stale` `NeverStale` | a stale policy can never serve a cached verdict (`pdp/pipeline.py:43-45`) | a call of the old snapshot passes the id check, another call clears the cache for the new one, the first one stores, and the other is served its verdict |
| `reload_torn` `NeverHalfApplied` | readers never see a half-applied policy (`policy/watcher.py:6-7`, `policy/models.py:24-25`) | a poll between the writes of the two files puts a mixed bundle in force |
| `path_unqueued` `HeldIsQueued` | what escapes becomes a human-review ESCALATE (`pep/ingress.py:51-52`) | the outer guard tells the user so and queues nothing |
| `stages_foreign` `ForeignOrgIsFlagged` | a prompt that names another organisation is flagged (`config.py:13-16`) | `_authz_stage` never passes the prompt on |

Others of the same kind have a configuration here that reproduces the
counterexample by hand (`tlc -config X.cfg M`; a `_claims` configuration lists
several, to be enabled one at a time) but are not among the runs:

| Configuration | Property | What it shows |
|---|---|---|
| `MCAuditLogger_flush` | `FlushThenHealthyIsDurable` | after a failed batch a later one sets `healthy` again before the caller of `flush()` looks (`audit/logger.py:96-98`) |
| `MCAuditLogger_written` | `WrittenCountsThePersisted` | rows left in the open transaction by a failed batch are committed with the next one and never counted (`audit/logger.py:63`, `audit/backends.py:114`) |
| `MCDecisionCache_raises` | `NeverRaises` | "The pipeline already fails closed internally" (`pep/ingress.py:16-17`): a key that one thread has found is evicted, or cleared, by another before `move_to_end` (`pdp/pipeline.py:80`); `evaluate` raises `KeyError`, and only the guard of ingress is left |
| `MCPolicyReload_timeout` | `HotReloads` | `stop()` forgets a slow thread and `start()` clears the event that should end it: the older poll swaps last |
| `MCPolicyReload_late` | `HotReloads` | a change between the load of the store and the construction of the watcher is never loaded |
| `MCRequestPath_claims` | `OnePolicyPerRecord` | policy and version of one record come from two snapshots (`pep/ingress.py:92-96`) |
| `MCRequestPath_claims` | `CitationsAgree` | `_RULE_TO_POLICY` and the catalog cite different policies (`pdp/output_scanner.py:55-65`) |
| `MCRequestPath_version` | `CitesExactVersion` | the record of an evaluated request whose handler failed cites the default version |
| `MCRequestPath_claims` | `CrashedDetectorHolds` | detectors swallow their own errors, so the pipeline never escalates them |
| `MCRequestPath_sink` | `NeverFails` | an error of the sink is outside of the outer guard |
| `MCStages_race` | `FindsThePhrases` | without the library, between the two assignments of the first build, another thread calls `iter()` on a list, and finds nothing (`pdp/detectors/injection.py:95-96`) |
| `MCStages_sample` | `AnySecretIsFound` | `find_secret` looks at the first match of a pattern only: a placeholder stands for what follows it (`pdp/detectors/secrets.py:180`) |
| `MCStages_boosts` | `SecondPassOnlyBoosts` | "boosts confidence if available" (`pdp/detectors/pii.py:135`): an engine that is installed and raises, for the lack of its model for instance, loses the finding of the first pass |
| `MCStages_spans` | `StripsEverySpan` | "strip every flagged span" (`pdp/output_scanner.py:299`): a span that overlaps one replaced before, or was found in the normal form only, stays. `redact` is dormant |
| `MCAuditStore_claims` | `SameFields` | "same fields" (`pep/audit_hook.py:15`): for an unknown caller, and an unstamped decision, console and table differ |
| `MCAuditStore_claims` | `EvalReportsThePercentile` | "nearest-rank" (`tests/eval/latency.py:87`): the median of two samples is the larger one, the p95 of twenty the slowest. The gate errs on the safe side, `GateIsSound` |

In `DecisionCache` the property `NeverStale` also fails without any overlap when
a snapshot gets the address of a freed one. `FreshUntilOverlap` and `SoloIsLRU`
say what is left of it and of `NeverRaises`.

## 5. The proofs

Every safety property that the runs check is a theorem, for every value of the
constants: the invariants, the action properties `NeverGoesBack`, `ScopeIsExact`
and `LongerIsNoMoreLenient`, and the three refinements. What the runs check
beyond that is liveness. Of `AuditLogger`, `AuditStore`, `DecisionCache`,
`PolicyReload` and `RequestPath` TLC checked the inductive invariants on the
instances of the runs before they were proved.

| Theorem | Statement |
|---|---|
| `AuditLogger_proofs!TypeCorrect` | `[]TypeOK` |
| `AuditLogger_proofs!WrittenCorrect` | `[]WrittenIsBacked` |
| `AuditLogger_proofs!FlushCorrect` | `[]FlushCoversTheRecord` |
| `AuditLogger_proofs!ShutdownSettles` | `[]ShutdownSettlesEveryRecord` |
| `AuditRows_proofs!RowsAreAccountedFor` | `[]RowsAccountedFor` |
| `AuditRows_proofs!KeepsTheBackendHolds` | `AuditLogger` implements `AuditBackend` |
| `AuditRows_proofs!ImplementsTrailHolds` | `AuditLogger` implements `AuditTrail` |
| `AuditStore_proofs!TypeCorrect`, `ReportedIsDurableHolds`, `ReadsAreWholeHolds` | `[]TypeOK`, `[]ReportedIsDurable`, `[]ReadsAreWhole` |
| `AuditStore_proofs!ImplementsBackendHolds` | `AuditStore` implements `AuditBackend` |
| `DecisionCache_proofs!TypeCorrect`, `BoundedCacheHolds`, `FreshUntilOverlapHolds`, `SoloIsLRUHolds` | `[]TypeOK`, `[]BoundedCache`, `[]FreshUntilOverlap`, `[]SoloIsLRU` |
| `PolicyReload_proofs!TypeCorrect`, `KeepsGoodPolicyHolds`, `NeverGoesBackHolds` | `[]TypeOK`, `[]KeepsGoodPolicy`, `NeverGoesBack` |
| `RequestPath_proofs!TypeCorrect`, `AnswerIsScreenedHolds`, `StrictestWinsHolds`, `CitesWhatDecidedHolds`, `AccountsAgreeHolds` | `[]TypeOK`, `[]AnswerIsScreened`, `[]StrictestWins`, `[]CitesWhatDecided`, `[]AccountsAgree` |
| `Checks_proofs!LazyLoadsAreSafe` | `[]LazyLoadsLoseNoMore` of `InjectionScan` and `PiiScan` |
| `Checks_proofs!PhrasesWithTheLibrary` | `[](library => FindsThePhrases)` of `InjectionScan` |
| `Checks_proofs!FirstObjectionDecides`, `SeededUsersPassTheStage` | `[]FirstObjectionIsStrictest`, `[]KnownUsersPassTheStage` of `Authorization` |
| `Checks_proofs!PercentilesAreSoundAlways` | `[]PercentilesAreSound` of `LatencyStats` |
| `Checks_proofs!NeverMoreLenientHolds`, `SinksAgreeHolds` | `[]NeverMoreLenient`, `[]SinksAgree` of `AuditRecord` |
| `Checks_proofs!ScopeIsExactAlways` | `ScopeIsExact` of `ScopeTrie` |
| `Checks_proofs!DetectorsAreExactAlways`, `LongerAlways` | `[]DetectorsAreExact`, `LongerIsNoMoreLenient` of `Detectors` |
| `Checks_proofs!TypesAlways` | `[]TypeOK`: the types of `ScopeTrie`, `InjectionScan` and `Detectors` |
| `Checks_proofs!SpansStrippedAlways` | `[]StripsSpansApart` of `OutputScan` |
| `Checks_proofs!QueriesAlwaysExact` | `[]QueriesAreExact` of `AuditQueries` |

Together, the two theorems on `AuditBackend` say that the step which
`AuditLogger` makes of a batch is one that either database makes of it,
statement by statement, for any number of processes beside the logger.

### The arguments

**AuditLogger: types.** `TypeOK` is not inductive: that `unfinished` stays a
natural number depends on every item being counted once. `TypeInv` adds
`Accounting` (`unfinished = Len(queue) + Len(batch)`, and a batch is held exactly
while the writer handles one), `StopEndsBatch` (a sentinel ends its batch, so
that `RecordsOf` is a sequence of records) and `WriterLives` (no writer outside
the lifetime of the logger, so that a start never meets an old writer).

**AuditLogger: counters and waiters.** `WrittenInv` says that the counter is
behind the table by the batch between the commit and the count. `FlushInv` says
where the record of a client in `join()` is: queued, in the batch, or settled.
The heart of `FlushCorrect` is `TaskDoneReleases`: a waiter is released only when
the counter is zero, and then by `Accounting` queue and batch are empty, so that
the record can only be settled.

**AuditLogger: shutdown.** That every record is settled rests on the sentinel
being the last thing the writer sees. `LoopInv` says why: the sink knows the loop
exactly while the logger serves, so in an orderly server no request thread is
past the gate, and no callback is left, when `PutStop` is taken. `PlacedInv` then
follows each decided request: in its thread, in a callback, in queue or batch, or
settled; at the end only the last is left.

**AuditLogger: rows.** `OnceInv` says that the places a record can be in are
disjoint and that none of them holds it twice. It is what makes the counting in
`RowsInv` exact (the rows beyond `written` are those of failed batches that a
later commit carried along, so no row is counted for both), and what lets a
commit put `pending` and the batch behind the table in one injective sequence.
`OrderInv` adds the order: table and open transaction, then the batch, then the
queue, each in the order of `accepted` and each before the next. A batch that
failed may be in `pending` and in the batch at once (`writer = "raised"`), which
is why the last conjunct is about `"writing"` only.

**AuditStore.** `SchemaInv` says how far each process is in the script and what
that implies of the database: nobody gets past a statement that was not
executed, and so no row is there before the triggers, which is what `TypeOK`
(rows are what was written, never what a tamperer made of them) needs.
`BatchInv` lays out table, open transaction and the rest of the batch as one
injective sequence `Pending`, the open transaction split into leftovers and the
part of the batch under way. `ReadInv` adds that what was seen has no row of the
batch under way, and that PostgreSQL's table has batches as a whole or not at
all. In `ImplementsBackendHolds` the rows carried are those leftovers, and an
insert, a `connect` or a statement of the script is a stutter.

**DecisionCache.** `BoundInv` counts the threads between store and eviction;
`CountMoves` says how a step of one thread moves that number. `FreshInv` is the
guarantee that the id gives: as long as no reload came in the middle of a call
and no address was used again, every call under way is one of the active
snapshot, and the entries are of that snapshot once its id is set or a thread
has cleared the cache to set it. `SoloInv` says that one caller finds what it
looked up, and that the keys of the cache are the last ones of `recency`; between
store and eviction there is one more (`Limit`).

**PolicyReload.** `CompiledInv`: no thread carries a catalog that does not
compile. `OrderInv`: until a join times out there is one live thread, what it has
read of a file is at least what is in force, and at most what is on the disk.
`DeployInv` bounds the modification times, which `TypeOK` alone does not.

**RequestPath.** The lemmas on `Verdicts` say what `Combine` returns for any
verdicts: the strictest disposition, and the rule of the first signal that has it
(`CombineType`, `DecisiveRuleIs`, `CombineJudges`). `RequestInv` follows one
request: while the stages run the verdicts show what the first `stage - 1` stages
have against it (`Shows`, `Traces`); `StopJudges` is why ending the loop at the
first STOP loses nothing; at `enforce` the decision `Judges` all stages; after it
response and decision agree. `TrailInv` says that there is exactly one record of
each request that passed the sink, and that it tells the decision; `CountersInv`
that the keys counted and the records of finished requests are equally many, for
every rule and name.

**The detectors that load on first use.** `PiiInv` needs little: `_analyzer` is
never reset, so a thread that goes on to the second pass finds it set, and only an
installed engine can raise. For the phrases nothing keeps the threads apart, so the
invariant speaks of one scan at a time: `BuildInv` says that with the library the
list is never built, and that a scan which is not `exposed` (it began when
`_use_aho` was what it is going to be, or has set it itself) finds the flag right
from then on, since every build sets it to the same value. With the library it is
right from the start, which gives `PhrasesWithTheLibrary`; without it,
`MCStages_race` of section 4 shows that an exposed scan does lose phrases.
`PartsInv` follows the loop over the parts of a prompt, of any number.

**Authorization, audit record, latency.** No part has a state of its own; the
invariants (`AuthzInv`, `LineInv`) say that what is recorded is the function of
the arguments, and the work is in the lemmas on those functions:
`EvaluateIsStrictest` (checks one to three object with STOP or not at all, four
and five, which escalate, come after them), `NameIsNotMoreLenient` (each form of
a disposition), `RankIs` and `EvalRankIs` (the two ways of rounding, by the
bounds of a quotient).
The proof of `NeverMoreLenient` found two guards of the definition of what a
caller meant that overlapped for the text `ALLOW`; they are apart now.

**Scopes.** `TrieInv` says that the nodes are the prefixes of the paths that
were inserted and the ends those paths, without the slashes around them. So the
walk of `prefix_match` gets as far as an end exactly when that end is a prefix of
what is looked up (`MatchesAlways`); and since an insert takes no node and no end
away, a tenant keeps what it was granted (`GrantsStay`).

**Detectors.** The outcome of each is a function of the prompt (`PatternInv`).
`IntentIs` says that the intent scanner cites the first rule that applies, and
`VerdictsCompare` that the first is a strictest one, which is what the order of
the two lists in `_detect` is for. `ReportedIs` says when the first match of a
pattern is live. A fragment at the end of a prompt does not change the first match
of a pattern. What the rules match stays as well (`MatchesStay`), unless "is" comes
to stand behind an abbreviation (`IsBare`, the look-ahead of R-02); so, without
that and without an exemption, the rules that apply do (`RulesStay`): hence
`LongerStep`. The runs repeat no fragment in a prompt; the lemmas are about
any sequence of fragments.

**Redaction.** `redact` searches each span in what the replacements before it have
left, where positions have moved and text may have come together. The proof never
speaks of positions in that text. `Collapses` says what is left of the answer
*from each position of the answer on* when a set of matches is replaced;
`ReplaceCollapses`, by induction from the end, that replacing one more span in it
leaves what replacing the places of that span in the answer would. Both
directions need `Walk`: a span holds no `[REDACTED]`, so wherever it stands in the
changed text nothing on the way was replaced, and it stands in the answer as
well; and as its places share no position with others, none that stands in the
answer was damaged. `RedactCollapses` goes over the spans, `KeptCollapses` says
that what is kept is what the matches do not cover. The hypothesis that places do
not overlap is needed, as `MCStages_spans` of section 4 shows.

**Queries.** `NewestIs` says what the loop over the table yields: the numbers of
the rows that match, once each, in decreasing order. What the reports say then
follows by counting (`CountsAre`, `LengthIs`) and from the order (`LimitIs`). For
the times, `TextsCompare` shows that two texts of `isoformat()` compare as their
instants do although the fraction is left out when it is zero: "+" sorts before
".".

**Sequences and induction.** The library's theorems of induction take an operator
as a parameter, which the provers cannot instantiate. Where an argument is
inductive it takes the smallest counterexample (`SequenceLemmas!Minimum`, from the
well-foundedness of the naturals): so for `FlattenSeq`, which puts the signals of
all verdicts into one sequence (`FlattenExists`, `FlattenAppend`), and for the size
of the range of an injective sequence (`SizeOfRange`). `InductionUpTo` and
`InductionDown` say it once for any *set* of numbers, so that a proof defines the
set of the numbers for which its formula holds and cites them. In the same way
`RecursionExists` and `JumpsExist` give a solution to any recursion over an
interval whose steps are given as a function, with steps of any length in the
second: they are what it takes to show that the recursive functions of the model
(`Replace`, `Redact`, `Kept`, `FindAll`, `Newest`) are what their equations say
(`ReplaceIs`, `RedactIs`, `KeptIs`).

### The assumptions

All are named in the module that declares the constants, and evaluated by TLC in
each run.

| Module | Assumption | Why the code justifies it |
|---|---|---|
| `AuditLogger` | `SentinelAssumption`, `KindsAssumption` | `_STOP` is an object of its own; a record is put by `log_nowait` or by `log`, not by both |
| | `SizesAssumption`, `ModesAssumption`, `BoundsAssumption` | sizes are positive settings; the rest are the bounds of the instance |
| `AuditStore` | `AppAssumption`, `StoreBoundsAssumption` | the scripts are processes of their own; bounds are naturals |
| `DecisionCache` | `CapacitiesAssumption`, `SetsAssumption`, `BoundsAssumption` | a capacity is a natural number, zero switches the cache off; a pool has finitely many threads, `id()` is never the 0 that stands for none |
| `PolicyReload` | `ReleasesAssumption`, `MalformedAssumption`, `FilesAssumption`, `NamesAssumption` | the release a store is built from compiles, since `from_disk` raises otherwise; two files |
| `RequestPath` | `StagesAssumption`, `UsersAssumption`, `BoundsAssumption` | the list of `default_stages`; a user is known or not |
| | `VersionsAssumption` | a snapshot has the constant of `from_bundle` or `"empty"`, so its version is not the empty string of an unstamped decision |
| | `OutcomesAssumption`, `CatalogAssumption` | a stage or a scanner that finds something cites a rule of the catalog; an error has no rule |
| `PromptChecks` | `PromptsAssumption` | a prompt is its text and a sequence of decoded blocks, any number of them |
| | `PathsAssumption`, `MaxScansAssumption` | `split` returns a list of texts; a bound is a natural number |
| `RecordChecks` | `LinesAssumption` | `None` is no text, list or request; the ids of rules are not empty |
| | `QueriesAssumption` | `None`, a filter that is not given, is no decision, user, time or limit; hours and fractions are naturals |

### Only model-checked

- Liveness: `CallersReturn`, `AcceptedIsSettled`, `HeldReopensTheGate`,
  `Converges`, `StopReturns`. The prover does not reason about fairness or `ENABLED`.
- The properties of section 4, which do not hold.

## 6. What is not modelled, and why

- The texts: regular expressions, phrases, Base64, the Bloom filter, entropy,
  messages. `Detectors` and `InjectionScan` start from what matches; `RequestPath`
  from what each detector can return.
- The codecs of asyncpg, which is no dependency of the repository.
  `PostgresBackend` hands it strings for UUID and TIMESTAMPTZ columns and relies
  on the server to cast them (its comment says so; no test runs it). `AuditStore`
  takes it at its word. A driver that refuses them makes every write raise, which
  is a behaviour of the model, and `HeldReopensTheGate` says what the gate does.
- In the audit record: the digest, `request_id`, `ts`, `reason` and latency,
  which are copied. `AuditRecord.new` is the same constructor with named fields.
- O4 finds its span like O3; `OutputScan` leaves it out, `Verdicts` has its rule.
- The evaluation harness apart from its percentile and its gate runs labelled
  prompts one after the other and counts; it has no state of its own to go wrong.
- Rate limiter: a dictionary of counters without a caller in the application.
  Configuration: environment variables that are read once, at import.
- The assistant is a stub; what it answers is an input.
- `capacity` and other settings do not change while the process runs.
- Memory order: CPython's interpreter lock makes single operations on
  dictionaries and attributes atomic, and that is what the steps assume.

## 7. The plan

Done first, because a lost or wrong audit record is the worst the system can
do: `AuditLogger` with `AuditTrail` and its proofs. Then the state shared by
threads (`DecisionCache`, `PolicyReload`, `InjectionScan`), the request as a
whole (`Verdicts`, `RequestPath`), the tables (`Authorization`, `ScopeTrie`) and
the order of rules and guards (`Detectors`).

Then what surrounds them: the database under the logger (`AuditStore`, with
`AuditBackend` as the seam), what is written and read (`AuditRecord`,
`AuditQueries`, `LatencyStats`), the loaded engine of the PII detector
(`PiiScan`) and the redaction (`OutputScan`).

Then the proofs of section 5.

Next, in this order:

1. `Detectors` as the stages of `RequestPath`, in place of the table of outcomes.
2. `RequestPath` over `AuditLogger`'s health and queue, to state in one model
   which answers may lack a record.
