----------------------------- MODULE PolicyReload -----------------------------
(***************************************************************************)
(* Hot reload of the policy: PolicyStore (app/policy/store.py),            *)
(* Snapshot.from_bundle (app/policy/models.py) and PolicyWatcher           *)
(* (app/policy/watcher.py), against an operator who rewrites the two files *)
(* of the bundle while the watcher polls them.                             *)
(*                                                                         *)
(* A release is a version of the bundle; each file holds the text of a     *)
(* release, or a partial text while it is being written.  A modification   *)
(* time is a counter: every write of a file gives it a new one.            *)
(***************************************************************************)
EXTENDS Integers, FiniteSets

CONSTANTS
    Pollers,      \* polling threads; start() uses a new one each time
    None,         \* PolicyWatcher._thread when there is no thread
    Partial,      \* the content of a file that is being written
    Malformed,    \* releases whose catalog does not compile
    InPlace,      \* files that may be rewritten in place, not only by a rename
    MaxReleases,  \* bound: releases after the first
    MaxTimeouts,  \* bound: joins in stop() that time out
    MaxEvents     \* bound: releases and timeouts together

ASSUME ReleasesAssumption == {MaxReleases, MaxTimeouts, MaxEvents} \subseteq Nat
ASSUME MalformedAssumption == Malformed \subseteq 1..MaxReleases
ASSUME FilesAssumption == InPlace \subseteq {"catalog", "cedar"}
ASSUME NamesAssumption == None \notin Pollers /\ Partial \notin Nat

Files == {"catalog", "cedar"}
Releases == 0..MaxReleases
Contents == Releases \cup {Partial}
Times == 0..(2 * MaxReleases)

VARIABLES
    text,       \* what each file of the bundle holds
    mtime,      \* when each file was written last
    release,    \* the release being deployed, or deployed last
    active,     \* PolicyStore._active: where its two parts come from
    signature,  \* PolicyWatcher._signature
    built,      \* the watcher has been constructed
    late,       \* history: a file was written before that
    thread,     \* PolicyWatcher._thread
    stopping,   \* PolicyWatcher._stop is set
    joining,    \* stop() is waiting for the thread
    pc,         \* where each polling thread is
    current,    \* poll_once's local current
    new,        \* reload_from_disk's local new
    timeouts

bundleVars == <<text, mtime, release>>
storeVars == <<active>>
pollVars == <<pc, current, new>>
controlVars == <<built, late, thread, stopping, joining, timeouts>>
vars == <<bundleVars, storeVars, signature, pollVars, controlVars>>

Init ==
    /\ text = [f \in Files |-> 0]
    /\ mtime = [f \in Files |-> 0]
    /\ release = 0
    /\ active = [f \in Files |-> 0]
    /\ signature = mtime
    /\ built = FALSE /\ late = FALSE
    /\ thread = None /\ stopping = FALSE /\ joining = FALSE
    /\ pc = [p \in Pollers |-> "unused"]
    /\ current = [p \in Pollers |-> [f \in Files |-> 0]]
    /\ new = [p \in Pollers |-> [f \in Files |-> 0]]
    /\ timeouts = 0

Goto(p, label) == pc' = [pc EXCEPT ![p] = label]

\* poll_once returns: its locals are gone.
Forget(p) ==
    /\ Goto(p, "wait")
    /\ current' = [current EXCEPT ![p] = [f \in Files |-> 0]]
    /\ new' = [new EXCEPT ![p] = [f \in Files |-> 0]]

-----------------------------------------------------------------------------
(* The operator deploys a release file by file, in place or by a rename.   *)

BeginRelease ==
    /\ release < MaxReleases /\ release + timeouts < MaxEvents
    /\ \A f \in Files : text[f] = release
    /\ release' = release + 1
    /\ UNCHANGED <<text, mtime, storeVars, signature, pollVars, controlVars>>

Write(f, content) ==
    /\ text' = [text EXCEPT ![f] = content]
    /\ mtime' = [mtime EXCEPT ![f] = @ + 1]
    /\ UNCHANGED <<release, storeVars, signature, pollVars, controlVars>>

Truncate(f) == f \in InPlace /\ text[f] \in Nat /\ text[f] < release /\ Write(f, Partial)
Complete(f) == text[f] = Partial /\ Write(f, release)
Replace(f) == text[f] \in Nat /\ text[f] < release /\ Write(f, release)

-----------------------------------------------------------------------------
(* poll_once, one file access at a time.                                   *)

\* Faulty variant of Tick: the loop sleeps and does not look at the event.
TickAlways(p) ==
    /\ pc[p] = "wait"
    /\ Goto(p, "stat_catalog")
    /\ UNCHANGED <<bundleVars, storeVars, signature, current, new, controlVars>>

\* _stop.wait(interval) ran out without the event being set.
Tick(p) ==
    /\ pc[p] = "wait"
    /\ ~stopping
    /\ Goto(p, "stat_catalog")
    /\ UNCHANGED <<bundleVars, storeVars, signature, current, new, controlVars>>

Exit(p) ==
    /\ pc[p] = "wait"
    /\ stopping
    /\ Goto(p, "exited")
    /\ UNCHANGED <<bundleVars, storeVars, signature, current, new, controlVars>>

\* Faulty variant of StatCatalog: the signature mixes a content and a time.
StatCatalogText(p) ==
    /\ pc[p] = "stat_catalog"
    /\ current' = [current EXCEPT ![p].catalog = text.catalog]
    /\ Goto(p, "stat_cedar")
    /\ UNCHANGED <<bundleVars, storeVars, signature, new, controlVars>>

StatCatalog(p) ==
    /\ pc[p] = "stat_catalog"
    /\ current' = [current EXCEPT ![p].catalog = mtime.catalog]
    /\ Goto(p, "stat_cedar")
    /\ UNCHANGED <<bundleVars, storeVars, signature, new, controlVars>>

StatCedar(p) ==
    /\ pc[p] = "stat_cedar"
    /\ current' = [current EXCEPT ![p].cedar = mtime.cedar]
    /\ Goto(p, "compare")
    /\ UNCHANGED <<bundleVars, storeVars, signature, new, controlVars>>

Compare(p) ==
    /\ pc[p] = "compare"
    /\ \/ /\ current[p] = signature
          /\ Forget(p)
       \/ /\ current[p] # signature
          /\ Goto(p, "read_catalog")
          /\ UNCHANGED <<current, new>>
    /\ UNCHANGED <<bundleVars, storeVars, signature, controlVars>>

\* Faulty variants of ReadCatalog: the catalog is not checked, and a failed
\* compilation goes on to the swap with what it has.
ReadCatalogUnchecked(p) ==
    /\ pc[p] = "read_catalog"
    /\ new' = [new EXCEPT ![p].catalog = text.catalog]
    /\ Goto(p, "read_cedar")
    /\ UNCHANGED <<bundleVars, storeVars, signature, current, controlVars>>

ReadCatalogAndGoOn(p) ==
    /\ pc[p] = "read_catalog"
    /\ \/ /\ text.catalog \notin Malformed
          /\ new' = [new EXCEPT ![p].catalog = text.catalog]
          /\ Goto(p, "read_cedar")
       \/ /\ text.catalog \in Malformed \cup {Partial}
          /\ UNCHANGED new
          /\ Goto(p, "swap")
    /\ UNCHANGED <<bundleVars, storeVars, signature, current, controlVars>>

\* A malformed catalog raises; a partial text may or may not: a truncated
\* file is the YAML of an empty catalog.
ReadCatalog(p) ==
    /\ pc[p] = "read_catalog"
    /\ \/ /\ text.catalog \notin Malformed
          /\ new' = [new EXCEPT ![p].catalog = text.catalog]
          /\ Goto(p, "read_cedar")
       \/ /\ text.catalog \in Malformed \cup {Partial}
          /\ UNCHANGED new
          /\ Goto(p, "advance")
    /\ UNCHANGED <<bundleVars, storeVars, signature, current, controlVars>>

\* The Cedar source is kept as text: whatever it holds is accepted.
ReadCedar(p) ==
    /\ pc[p] = "read_cedar"
    /\ new' = [new EXCEPT ![p].cedar = text.cedar]
    /\ Goto(p, "swap")
    /\ UNCHANGED <<bundleVars, storeVars, signature, current, controlVars>>

Swap(p) ==
    /\ pc[p] = "swap"
    /\ active' = new[p]
    /\ Goto(p, "advance")
    /\ UNCHANGED <<bundleVars, signature, current, new, controlVars>>

\* Faulty variant of Advance: the signature is taken after the reload.
AdvanceToNow(p) ==
    /\ pc[p] = "advance"
    /\ signature' = mtime
    /\ Forget(p)
    /\ UNCHANGED <<bundleVars, storeVars, controlVars>>

\* Also after a failed reload.
Advance(p) ==
    /\ pc[p] = "advance"
    /\ signature' = current[p]
    /\ Forget(p)
    /\ UNCHANGED <<bundleVars, storeVars, controlVars>>

-----------------------------------------------------------------------------
(* The owner of the watcher: __init__, start, stop.                        *)

\* The signature is that of the files now, not of those the store has read.
Construct ==
    /\ ~built
    /\ built' = TRUE
    /\ signature' = mtime
    /\ late' = (signature' # signature)
    /\ UNCHANGED <<bundleVars, storeVars, pollVars, thread, stopping, joining, timeouts>>

Alive(p) == p # None /\ pc[p] # "exited"

Start(p) ==
    /\ built /\ ~joining
    /\ ~Alive(thread)
    /\ pc[p] = "unused"
    /\ stopping' = FALSE
    /\ thread' = p
    /\ Goto(p, "wait")
    /\ UNCHANGED <<bundleVars, storeVars, signature, current, new, built, late, joining, timeouts>>

Stop ==
    /\ thread # None /\ ~joining
    /\ stopping' = TRUE
    /\ joining' = TRUE
    /\ UNCHANGED <<bundleVars, storeVars, signature, pollVars, built, late, thread, timeouts>>

Joined ==
    /\ joining
    /\ ~Alive(thread)
    /\ joining' = FALSE
    /\ thread' = None
    /\ UNCHANGED <<bundleVars, storeVars, signature, pollVars, built, late, stopping, timeouts>>

\* join(timeout) gives up on a thread that is still in poll_once.
JoinTimesOut ==
    /\ joining
    /\ Alive(thread)
    /\ timeouts < MaxTimeouts /\ release + timeouts < MaxEvents
    /\ timeouts' = timeouts + 1
    /\ joining' = FALSE
    /\ thread' = None
    /\ UNCHANGED <<bundleVars, storeVars, signature, pollVars, built, late, stopping>>

\* Every polling thread has been used and has ended.
Finished ==
    /\ thread = None
    /\ \A p \in Pollers : pc[p] = "exited"
    /\ UNCHANGED vars

-----------------------------------------------------------------------------
Edit == BeginRelease \/ \E f \in Files : Truncate(f) \/ Complete(f) \/ Replace(f)

Poll(p) ==
    \/ StatCatalog(p) \/ StatCedar(p) \/ Compare(p) \/ ReadCatalog(p) \/ ReadCedar(p)
    \/ Swap(p) \/ Advance(p)

Control == Construct \/ (\E p \in Pollers : Start(p)) \/ Stop \/ Joined \/ JoinTimesOut

Next ==
    \/ Edit
    \/ \E p \in Pollers : Tick(p) \/ Exit(p) \/ Poll(p)
    \/ Control
    \/ Finished

Spec == Init /\ [][Next]_vars

\* A polling thread keeps running, a write that was begun is completed, and
\* join() returns when the thread has ended.  Releases, start() and stop()
\* are up to their callers.
Fairness ==
    /\ \A p \in Pollers : WF_vars(Tick(p) \/ Exit(p) \/ Poll(p))
    /\ \A f \in Files : WF_vars(Complete(f))
    /\ WF_vars(Joined)

FairSpec == Spec /\ Fairness

-----------------------------------------------------------------------------
(* Properties                                                               *)

Stamps == [Files -> Times]
Bundles == [Files -> Contents]

\* The type invariant.
TypeOK ==
    /\ text \in Bundles /\ mtime \in Stamps /\ release \in Releases
    /\ active \in Bundles /\ signature \in Stamps
    /\ {built, late} \subseteq BOOLEAN /\ stopping \in BOOLEAN /\ joining \in BOOLEAN
    /\ thread \in Pollers \cup {None}
    /\ pc \in [Pollers -> {"unused", "wait", "exited", "stat_catalog", "stat_cedar",
                           "compare", "read_catalog", "read_cedar", "swap", "advance"}]
    /\ current \in [Pollers -> Stamps] /\ new \in [Pollers -> Bundles]
    /\ timeouts \in 0..MaxTimeouts

\* As long as stop() waits for the thread, the policy in force never goes back
\* to an older release of either file, although the files change under the
\* reload: _swap in reload_from_disk is not ordered by anything else.
NeverGoesBack ==
    [][timeouts = 0 =>
         \A f \in Files :
             active[f] \in Nat /\ active'[f] \in Nat => active[f] <= active'[f]]_vars

\* A catalog that does not compile is never in force: the old one stays.
KeepsGoodPolicy == active.catalog \notin Malformed

Running == built /\ thread # None /\ ~stopping

\* The policy in force is that of the disk, unless that does not compile.
UpToDate == text.catalog \in Malformed \/ active = text

\* Claim of the docstring of PolicyWatcher, that it hot-reloads the store when
\* the bundle changes: once a watcher runs for good and no file is written, the
\* policy in force is that of the disk.
HotReloads == <>[]Running => <>[]UpToDate

\* The claim holds if stop() has never given up on a thread and the watcher was
\* there before the first change: a reload that fails, one that falls between
\* two writes and a thread that is stopped in the middle of one delay the
\* policy of the disk, and never lose it.
Converges == <>[](Running /\ timeouts = 0 /\ ~late) => <>[]UpToDate

\* stop() comes back, with a thread that is in the middle of a reload too.
StopReturns == joining ~> ~joining

\* Claim of the header of watcher.py and of the docstring of Snapshot: a reader
\* sees the whole old policy or the whole new one.
NeverHalfApplied == active.catalog = active.cedar
=============================================================================
