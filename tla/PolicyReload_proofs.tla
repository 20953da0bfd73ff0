-------------------------- MODULE PolicyReload_proofs -------------------------
(***************************************************************************)
(* Machine-checked theorems about PolicyReload, for every number of        *)
(* polling threads and releases, whichever catalogs do not compile,        *)
(* whichever files are rewritten in place and however often stop() gives   *)
(* up on a thread.                                                         *)
(***************************************************************************)
EXTENDS PolicyReload, TLAPS

\* How far the deployment of the release is: a file that has been written for
\* it, one that is being written and one that still waits.  Each release
\* writes a file twice at the most, which bounds the modification times.
DeployInv ==
    /\ \A f \in Files : text[f] \in Nat => text[f] <= release /\ mtime[f] <= 2 * text[f]
    /\ \A f \in Files : text[f] = Partial => mtime[f] < 2 * release

\* A thread carries no catalog that does not compile, and so cannot swap it in.
CompiledInv ==
    /\ active.catalog \notin Malformed
    /\ \A p \in Pollers : new[p].catalog \notin Malformed

TypeInv == TypeOK /\ DeployInv

-----------------------------------------------------------------------------
(* The type invariant.                                                      *)

LEMMA FilesAre == "catalog" \in Files /\ "cedar" \in Files
BY DEF Files

LEMMA BoundsType == MaxReleases \in Nat /\ MaxTimeouts \in Nat /\ MaxEvents \in Nat
BY ReleasesAssumption

LEMMA InitTypeInv == Init => TypeInv
<1> SUFFICES ASSUME Init PROVE TypeInv
  OBVIOUS
<1> USE BoundsType, NamesAssumption
<1>1. 0 \in Releases /\ 0 \in Times /\ 0 \in Contents
  BY DEF Times, Contents, Releases
<1>2. TypeOK
  <2>1. built \in BOOLEAN /\ late \in BOOLEAN /\ stopping \in BOOLEAN /\ joining \in BOOLEAN
    BY Zenon DEF Init
  <2>2. [f \in Files |-> 0] \in Stamps /\ [f \in Files |-> 0] \in Bundles
    BY <1>1 DEF Stamps, Bundles
  <2>3. QED
    BY <1>1, <2>1, <2>2 DEF Init, TypeOK
<1>3. DeployInv
  BY DEF Init, DeployInv
<1>4. QED
  BY <1>2, <1>3 DEF TypeInv

\* What a write of the operator does to the deployment.
LEMMA WriteTypeInv ==
    ASSUME TypeInv, NEW f \in Files, NEW c \in Contents, Write(f, c),
           \/ c = Partial /\ text[f] \in Nat /\ text[f] < release
           \/ c = release /\ text[f] = Partial
           \/ c = release /\ text[f] \in Nat /\ text[f] < release
    PROVE  TypeInv'
<1> USE BoundsType, NamesAssumption
<1>1. /\ mtime[f] \in 0..(2 * MaxReleases) /\ release \in Nat /\ MaxReleases \in Nat
      /\ release <= MaxReleases
      /\ text \in [Files -> Contents] /\ mtime \in [Files -> Times]
      /\ mtime[f] \in Nat
  <2>1. /\ text \in [Files -> Contents] /\ mtime \in [Files -> Times]
        /\ release \in 0..MaxReleases
    BY DEF TypeInv, TypeOK, Stamps, Bundles, Releases
  <2>2. mtime[f] \in 0..(2 * MaxReleases)
    BY <2>1 DEF Times
  <2>3. release \in Nat /\ release <= MaxReleases
    BY <2>1
  <2>4. mtime[f] \in Nat
    BY <2>2
  <2>5. QED
    BY <2>1, <2>2, <2>3, <2>4
<1>2. /\ c = Partial => mtime[f] + 1 < 2 * release
      /\ c = release => mtime[f] + 1 <= 2 * release
  BY <1>1 DEF TypeInv, DeployInv
<1>3. text' = [text EXCEPT ![f] = c] /\ mtime' = [mtime EXCEPT ![f] = mtime[f] + 1]
  BY DEF Write
<1>4. c \in {Partial, release} /\ release' = release
  BY DEF Write
<1>5. DeployInv'
  <2> SUFFICES ASSUME NEW g \in Files
               PROVE  /\ text'[g] \in Nat => text'[g] <= release /\ mtime'[g] <= 2 * text'[g]
                      /\ text'[g] = Partial => mtime'[g] < 2 * release
    BY <1>4 DEF DeployInv
  <2>1. CASE g = f
    BY <1>1, <1>2, <1>3, <1>4, <2>1
  <2>2. CASE g # f
    BY <1>1, <1>3, <2>2 DEF TypeInv, DeployInv
  <2>3. QED
    BY <2>1, <2>2
<1>6. mtime[f] + 1 \in Times
  <2>1. mtime[f] + 1 <= 2 * release
    BY <1>1, <1>2, <1>4
  <2>2. QED
    BY <1>1, <2>1 DEF Times
<1>7. mtime' \in Stamps /\ text' \in Bundles
  BY <1>1, <1>3, <1>6 DEF Stamps, Bundles
<1>8. QED
  BY <1>5, <1>7 DEF TypeInv, TypeOK, Write, storeVars, pollVars, controlVars

LEMMA NextTypeInv == TypeInv /\ [Next]_vars => TypeInv'
<1> SUFFICES ASSUME TypeInv, [Next]_vars PROVE TypeInv'
  OBVIOUS
<1> USE BoundsType, NamesAssumption, FilesAre
<1> USE DEF bundleVars, storeVars, pollVars, controlVars
<1>1. CASE Edit
  <2>1. CASE BeginRelease
    <3>1. release' \in Releases /\ release' = release + 1
      BY <2>1 DEF BeginRelease, TypeInv, TypeOK, Releases
    <3>2. \A f \in Files : text[f] = release /\ release \in Nat
      BY <2>1 DEF BeginRelease, TypeInv, TypeOK, Releases
    <3>3. mtime \in [Files -> Times] /\ Times \subseteq Nat
      BY DEF TypeInv, TypeOK, Stamps, Times
    <3>4. DeployInv'
      BY <2>1, <3>1, <3>2, <3>3 DEF BeginRelease, TypeInv, DeployInv
    <3>5. QED
      BY <2>1, <3>1, <3>4 DEF BeginRelease, TypeInv, TypeOK
  <2>2. ASSUME NEW f \in Files, Truncate(f) \/ Complete(f) \/ Replace(f) PROVE TypeInv'
    BY <2>2, WriteTypeInv
       DEF Truncate, Complete, Replace, TypeInv, TypeOK, Contents
  <2>3. QED
    BY <1>1, <2>1, <2>2 DEF Edit
<1>2. ASSUME NEW p \in Pollers, Tick(p) \/ Exit(p) \/ Poll(p) PROVE TypeInv'
  <2>1. CASE Tick(p)
    BY <2>1 DEF Tick, Goto, TypeInv, TypeOK, DeployInv
  <2>2. CASE Exit(p)
    BY <2>2 DEF Exit, Goto, TypeInv, TypeOK, DeployInv
  <2>3. CASE StatCatalog(p)
    BY <2>3 DEF StatCatalog, Goto, TypeInv, TypeOK, DeployInv, Stamps
  <2>4. CASE StatCedar(p)
    BY <2>4 DEF StatCedar, Goto, TypeInv, TypeOK, DeployInv, Stamps
  <2>5. ASSUME Forget(p)
        PROVE  /\ pc' = [pc EXCEPT ![p] = "wait"]
               /\ current' \in [Pollers -> Stamps] /\ new' \in [Pollers -> Bundles]
    <3>1. 0 \in Times /\ 0 \in Contents
      BY DEF Times, Contents, Releases
    <3>2. [f \in Files |-> 0] \in Stamps /\ [f \in Files |-> 0] \in Bundles
      BY <3>1 DEF Stamps, Bundles
    <3>3. QED
      BY <2>5, <3>2 DEF Forget, Goto, TypeInv, TypeOK
  <2>6. CASE Compare(p)
    BY <2>5, <2>6 DEF Compare, Goto, TypeInv, TypeOK, DeployInv
  <2>7. CASE ReadCatalog(p)
    <3>1. new' \in [Pollers -> Bundles]
      BY <2>7 DEF ReadCatalog, TypeInv, TypeOK, Bundles
    <3>2. pc' \in [Pollers -> {"unused", "wait", "exited", "stat_catalog", "stat_cedar",
                               "compare", "read_catalog", "read_cedar", "swap", "advance"}]
      BY <2>7 DEF ReadCatalog, Goto, TypeInv, TypeOK
    <3>3. QED
      BY <2>7, <3>1, <3>2 DEF ReadCatalog, TypeInv, TypeOK, DeployInv
  <2>8. CASE ReadCedar(p)
    BY <2>8 DEF ReadCedar, Goto, TypeInv, TypeOK, DeployInv, Bundles
  <2>9. CASE Swap(p)
    BY <2>9 DEF Swap, Goto, TypeInv, TypeOK, DeployInv
  <2>10. CASE Advance(p)
    BY <2>5, <2>10 DEF Advance, TypeInv, TypeOK, DeployInv
  <2>11. QED
    BY <1>2, <2>1, <2>2, <2>3, <2>4, <2>6, <2>7, <2>8, <2>9, <2>10 DEF Poll
<1>3. CASE Control
  <2>1. CASE Construct
    <3>1. late' \in BOOLEAN
      BY <2>1, Zenon DEF Construct
    <3>2. QED
      BY <2>1, <3>1 DEF Construct, TypeInv, TypeOK, DeployInv
  <2>2. ASSUME NEW p \in Pollers, Start(p) PROVE TypeInv'
    BY <2>2 DEF Start, Goto, TypeInv, TypeOK, DeployInv
  <2>3. CASE Stop
    BY <2>3 DEF Stop, TypeInv, TypeOK, DeployInv
  <2>4. CASE Joined
    BY <2>4 DEF Joined, TypeInv, TypeOK, DeployInv
  <2>5. CASE JoinTimesOut
    <3>1. timeouts' \in 0..MaxTimeouts
      BY <2>5 DEF JoinTimesOut, TypeInv, TypeOK
    <3>2. QED
      BY <2>5, <3>1 DEF JoinTimesOut, TypeInv, TypeOK, DeployInv
  <2>6. QED
    BY <1>3, <2>1, <2>2, <2>3, <2>4, <2>5 DEF Control
<1>4. CASE Finished \/ UNCHANGED vars
  BY <1>4 DEF Finished, vars, TypeInv, TypeOK, DeployInv
<1>5. QED
  BY <1>1, <1>2, <1>3, <1>4 DEF Next

LEMMA AlwaysTypeInv == Spec => []TypeInv
<1>1. QED
  BY InitTypeInv, NextTypeInv, PTL DEF Spec

\* Every reachable state is well-typed; in particular no file is written more
\* often than the releases account for.
THEOREM TypeCorrect == Spec => []TypeOK
<1>1. TypeInv => TypeOK
  BY DEF TypeInv
<1>2. QED
  BY <1>1, AlwaysTypeInv, PTL

-----------------------------------------------------------------------------
(* A catalog that does not compile is never in force.                       *)

LEMMA NextCompiled == CompiledInv /\ TypeInv /\ [Next]_vars => CompiledInv'
<1> SUFFICES ASSUME CompiledInv, TypeInv, [Next]_vars PROVE CompiledInv'
  OBVIOUS
<1> USE DEF bundleVars, storeVars, pollVars, controlVars
<1>1. 0 \notin Malformed
  BY MalformedAssumption
<1>2. ASSUME NEW p \in Pollers, Forget(p), UNCHANGED active PROVE CompiledInv'
  BY <1>1, <1>2, FilesAre DEF Forget, CompiledInv, TypeInv, TypeOK, Bundles
<1>3. CASE UNCHANGED <<active, new>>
  BY <1>3 DEF CompiledInv
<1>4. ASSUME NEW p \in Pollers, ReadCatalog(p) PROVE CompiledInv'
  BY <1>4, FilesAre DEF ReadCatalog, CompiledInv, TypeInv, TypeOK, Bundles
<1>5. ASSUME NEW p \in Pollers, ReadCedar(p) PROVE CompiledInv'
  BY <1>5, FilesAre DEF ReadCedar, CompiledInv, TypeInv, TypeOK, Bundles
<1>6. ASSUME NEW p \in Pollers, Swap(p) PROVE CompiledInv'
  BY <1>6 DEF Swap, CompiledInv
<1>7. QED
  BY <1>2, <1>3, <1>4, <1>5, <1>6
     DEF Next, vars, Edit, BeginRelease, Truncate, Complete, Replace, Write, Poll, Tick,
         Exit, StatCatalog, StatCedar, Compare, Advance, Goto, Control, Construct, Start,
         Stop, Joined, JoinTimesOut, Finished

\* However polling threads, releases and partial texts interleave, the catalog
\* in force is one that compiled: a reload that fails leaves the old one, and a
\* thread whose read failed has nothing that it could still swap in.
THEOREM KeepsGoodPolicyHolds == Spec => []KeepsGoodPolicy
<1>1. Init => CompiledInv
  <2> SUFFICES ASSUME Init PROVE CompiledInv
    OBVIOUS
  <2>1. 0 \notin Malformed
    BY MalformedAssumption
  <2>2. QED
    BY <2>1, FilesAre DEF Init, CompiledInv
<1>2. CompiledInv => KeepsGoodPolicy
  BY DEF CompiledInv, KeepsGoodPolicy
<1>3. QED
  BY <1>1, <1>2, AlwaysTypeInv, NextCompiled, PTL DEF Spec

-----------------------------------------------------------------------------
(* The policy in force never goes back.                                     *)

\* In evaluation order of a file's content: what is on disk is no older than x.
NotBehind(f, x) ==
    x \in Nat => x <= release /\ (text[f] \in Nat => x <= text[f])

\* Until a join times out there is one live thread, the watcher's own.
OneThread == \A p \in Pollers : pc[p] \in {"unused", "exited"} \/ p = thread

\* What has been read of a file, at the point where it is going to be used.
HasRead(p, f) == pc[p] = "swap" \/ (pc[p] = "read_cedar" /\ f = "catalog")

\* What is in force is not newer than the disk, and what the thread has read is
\* between the two.
OrderInv ==
    timeouts = 0 =>
        /\ OneThread
        /\ \A f \in Files : NotBehind(f, active[f])
        /\ \A p \in Pollers, f \in Files :
              HasRead(p, f) =>
                  /\ NotBehind(f, new[p][f])
                  /\ active[f] \in Nat /\ new[p][f] \in Nat => active[f] <= new[p][f]

LEMMA InitOrder == Init => OrderInv
<1> SUFFICES ASSUME Init PROVE OrderInv
  OBVIOUS
<1>1. \A p \in Pollers : pc[p] = "unused"
  BY DEF Init
<1>2. \A f \in Files : NotBehind(f, active[f])
  BY DEF Init, NotBehind
<1>3. QED
  BY <1>1, <1>2 DEF OrderInv, OneThread, HasRead

\* The steps of the operator only bring the disk forward.
LEMMA EditOrder ==
    ASSUME TypeInv, Edit, NEW f \in Files, NEW x, NotBehind(f, x)
    PROVE  x \in Nat => x <= release' /\ (text'[f] \in Nat => x <= text'[f])
<1>1. release \in Nat /\ release' \in Nat
  BY NextTypeInv DEF TypeInv, TypeOK, Releases, Edit, BeginRelease, Truncate, Complete,
     Replace, Write
<1>2. CASE BeginRelease
  BY <1>1, <1>2 DEF BeginRelease, NotBehind
<1>3. ASSUME NEW g \in Files, Truncate(g) \/ Complete(g) \/ Replace(g)
      PROVE x \in Nat => x <= release' /\ (text'[f] \in Nat => x <= text'[f])
  <2>1. release' = release /\ text'[f] \in {text[f], Partial, release}
    BY <1>3 DEF Truncate, Complete, Replace, Write, TypeInv, TypeOK, Bundles
  <2>2. QED
    BY <1>1, <2>1, NamesAssumption DEF NotBehind
<1>4. QED
  BY <1>2, <1>3 DEF Edit

LEMMA NextOrder == OrderInv /\ TypeInv /\ [Next]_vars => OrderInv'
<1> SUFFICES ASSUME OrderInv, TypeInv, [Next]_vars, timeouts' = 0 PROVE OrderInv'
  BY DEF OrderInv
<1> USE DEF bundleVars, storeVars, pollVars, controlVars
<1>a. /\ timeouts \in Nat /\ release \in Nat
      /\ text \in [Files -> Contents] /\ active \in [Files -> Contents]
      /\ new \in [Pollers -> [Files -> Contents]]
      /\ pc \in [Pollers -> {"unused", "wait", "exited", "stat_catalog", "stat_cedar",
                             "compare", "read_catalog", "read_cedar", "swap", "advance"}]
  BY BoundsType DEF TypeInv, TypeOK, Bundles, Releases
<1>1. timeouts = 0
  BY <1>a DEF Next, vars, Edit, BeginRelease, Truncate, Complete, Replace, Write, Poll,
     Tick, Exit, StatCatalog, StatCedar, Compare, ReadCatalog, ReadCedar, Swap, Advance,
     Forget, Control, Construct, Start, Stop, Joined, JoinTimesOut, Finished
<1>b. /\ OneThread
      /\ \A f \in Files : NotBehind(f, active[f])
      /\ \A p \in Pollers, f \in Files :
            HasRead(p, f) =>
                /\ NotBehind(f, new[p][f])
                /\ active[f] \in Nat /\ new[p][f] \in Nat => active[f] <= new[p][f]
  BY <1>1 DEF OrderInv
<1>2. CASE Edit
  <2>1. UNCHANGED <<active, pc, new, thread>>
    BY <1>2 DEF Edit, BeginRelease, Truncate, Complete, Replace, Write
  <2>2. ASSUME NEW f \in Files PROVE NotBehind(f, active[f])'
    <3>1. NotBehind(f, active[f])
      BY <1>b
    <3>2. QED
      BY <1>2, <2>1, <3>1, EditOrder DEF NotBehind
  <2>3. ASSUME NEW p \in Pollers, NEW f \in Files, HasRead(p, f)
        PROVE NotBehind(f, new[p][f])'
    <3>1. NotBehind(f, new[p][f])
      BY <1>b, <2>3
    <3>2. QED
      BY <1>2, <2>1, <3>1, EditOrder DEF NotBehind
  <2>4. QED
    BY <1>b, <2>1, <2>2, <2>3 DEF OrderInv, OneThread, HasRead
\* A thread that moves without reading or swapping, or that ends.
<1>3. ASSUME NEW p \in Pollers,
             Tick(p) \/ Exit(p) \/ StatCatalog(p) \/ StatCedar(p) \/ Compare(p) \/ Advance(p)
      PROVE  OrderInv'
  <2>1. UNCHANGED <<text, release, active, thread>>
    BY <1>3 DEF Tick, Exit, StatCatalog, StatCedar, Compare, Advance
  <2>2. /\ pc[p] \notin {"unused", "exited"} /\ pc'[p] \notin {"swap", "read_cedar"}
        /\ \A q \in Pollers : q # p => pc'[q] = pc[q] /\ new'[q] = new[q]
    BY <1>3, <1>a DEF Tick, Exit, StatCatalog, StatCedar, Compare, Advance, Forget, Goto
  <2>3. QED
    BY <1>b, <2>1, <2>2 DEF OrderInv, OneThread, HasRead, NotBehind
<1>4. ASSUME NEW p \in Pollers, ReadCatalog(p) PROVE OrderInv'
  <2>1. UNCHANGED <<text, release, active, thread>>
    BY <1>4 DEF ReadCatalog
  <2>2. /\ \A q \in Pollers : q # p => pc'[q] = pc[q] /\ new'[q] = new[q]
        /\ \/ pc'[p] = "read_cedar" /\ new'[p]["catalog"] = text["catalog"]
           \/ pc'[p] = "advance"
        /\ pc[p] = "read_catalog"
    BY <1>4, <1>a, FilesAre DEF ReadCatalog, Goto
  <2>3. \A f \in Files : HasRead(p, f)' => new'[p][f] = text[f]
    BY <2>2 DEF HasRead
  <2>4. \A f \in Files : NotBehind(f, text[f])
    BY <1>a DEF NotBehind, TypeInv, DeployInv
  <2>5. QED
    BY <1>b, <2>1, <2>2, <2>3, <2>4 DEF OrderInv, OneThread, HasRead, NotBehind
<1>5. ASSUME NEW p \in Pollers, ReadCedar(p) PROVE OrderInv'
  <2>1. UNCHANGED <<text, release, active, thread>>
    BY <1>5 DEF ReadCedar
  <2>2. /\ \A q \in Pollers : q # p => pc'[q] = pc[q] /\ new'[q] = new[q]
        /\ pc[p] = "read_cedar" /\ pc'[p] = "swap"
        /\ new'[p]["cedar"] = text["cedar"] /\ new'[p]["catalog"] = new[p]["catalog"]
    BY <1>5, <1>a, FilesAre DEF ReadCedar, Goto
  <2>3. HasRead(p, "catalog")
    BY <2>2 DEF HasRead
  <2>4. \A f \in Files : NotBehind(f, text[f])
    BY <1>a DEF NotBehind, TypeInv, DeployInv
  <2>5. \A f \in Files : f = "catalog" \/ f = "cedar"
    BY DEF Files
  <2>6. \A f \in Files :
            /\ NotBehind(f, new'[p][f])
            /\ active[f] \in Nat /\ new'[p][f] \in Nat => active[f] <= new'[p][f]
    BY <1>b, <2>2, <2>3, <2>4, <2>5, FilesAre DEF NotBehind
  <2>7. QED
    BY <1>b, <2>1, <2>2, <2>6 DEF OrderInv, OneThread, HasRead, NotBehind
<1>6. ASSUME NEW p \in Pollers, Swap(p) PROVE OrderInv'
  <2>1. UNCHANGED <<text, release, new, thread>> /\ active' = new[p]
    BY <1>6 DEF Swap
  <2>2. /\ \A q \in Pollers : q # p => pc'[q] = pc[q]
        /\ pc[p] = "swap" /\ pc'[p] = "advance"
    BY <1>6, <1>a DEF Swap, Goto
  <2>3. \A f \in Files : HasRead(p, f)
    BY <2>2 DEF HasRead
  <2>4. \A q \in Pollers : q # p => pc[q] \in {"unused", "exited"}
    BY <1>b, <2>2 DEF OneThread
  <2>5. QED
    BY <1>b, <2>1, <2>2, <2>3, <2>4 DEF OrderInv, OneThread, HasRead, NotBehind
<1>7. CASE Control
  <2>1. UNCHANGED <<text, release, active, new>>
    BY <1>7 DEF Control, Construct, Start, Stop, Joined, JoinTimesOut
  <2>2. OneThread' /\ \A p \in Pollers, f \in Files : HasRead(p, f)' => HasRead(p, f)
    <3>1. CASE Construct \/ Stop
      BY <1>b, <3>1 DEF Construct, Stop, OneThread, HasRead
    <3>2. ASSUME NEW p \in Pollers, Start(p) PROVE <2>2
      BY <1>a, <1>b, <3>2, NamesAssumption DEF Start, Alive, Goto, OneThread, HasRead
    <3>3. CASE Joined
      BY <1>b, <3>3, NamesAssumption DEF Joined, Alive, OneThread, HasRead
    <3>4. CASE JoinTimesOut
      BY <1>a, <3>4 DEF JoinTimesOut
    <3>5. QED
      BY <1>7, <3>1, <3>2, <3>3, <3>4 DEF Control
  <2>3. QED
    BY <1>b, <2>1, <2>2 DEF OrderInv, NotBehind
<1>8. CASE Finished \/ UNCHANGED vars
  BY <1>b, <1>8 DEF Finished, vars, OrderInv, OneThread, HasRead, NotBehind
<1>9. QED
  BY <1>2, <1>3, <1>4, <1>5, <1>6, <1>7, <1>8 DEF Next, Poll

\* As long as no join has timed out, the release of either file that is in
\* force is never replaced by an older one, although the store swaps in
\* whatever a thread has read and the disk has moved on meanwhile.
THEOREM NeverGoesBackHolds == Spec => NeverGoesBack
<1>1. ASSUME OrderInv, [Next]_vars, timeouts = 0, NEW f \in Files,
             active[f] \in Nat, active'[f] \in Nat
      PROVE  active[f] <= active'[f]
  <2>1. CASE UNCHANGED active
    BY <1>1, <2>1
  <2>2. ASSUME NEW p \in Pollers, Swap(p) PROVE active[f] <= active'[f]
    BY <1>1, <2>2 DEF Swap, OrderInv, HasRead
  <2>3. QED
    BY <1>1, <2>1, <2>2
       DEF Next, vars, bundleVars, storeVars, pollVars, controlVars, Edit, BeginRelease,
           Truncate, Complete, Replace, Write, Poll, Tick, Exit, StatCatalog, StatCedar,
           Compare, ReadCatalog, ReadCedar, Advance, Control, Construct, Start, Stop,
           Joined, JoinTimesOut, Finished
<1>2. OrderInv /\ [Next]_vars =>
        [timeouts = 0 =>
           \A f \in Files :
             active[f] \in Nat /\ active'[f] \in Nat => active[f] <= active'[f]]_vars
  BY <1>1
<1>3. QED
  BY <1>2, InitOrder, NextOrder, AlwaysTypeInv, PTL DEF Spec, NeverGoesBack
=============================================================================
