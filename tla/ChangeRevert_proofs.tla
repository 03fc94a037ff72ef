-------------------------- MODULE ChangeRevert_proofs ---------------------------
(***************************************************************************)
(* What a revert restores, proved for any number of files, runs, steps,    *)
(* tracked calls, edits and failures.                                      *)
(***************************************************************************)
EXTENDS ChangeRevert, FiniteSetTheorems, SequenceTheorems, WellFoundedInduction, TLAPS

\* A write tool is called by a run, for a file.
CallInHand ==
    /\ pc # "idle" => run # 0
    /\ pc \in {"called", "finished"} => call \in [path : Paths, before : Content]

\* A snapshot is what the log says of its step, and the log says nothing more
\* of a run that has snapshots.
Sealed(r) == r < run \/ (r = run /\ pc \in {"idle", "save"})

SavedAsTracked ==
    \A r \in Runs, s \in Steps :
        saved[r][s] # Empty => saved[r][s] = PreStep(r, s) /\ Sealed(r)

\* A revert restores snapshots there are, newest first, and of the one it is
\* at the files it has not tried yet.
Names(s, p) == p \in DOMAIN saved[revert.run][s]

InOrder ==
    /\ revert.pc # "none" =>
          /\ revert.steps # {} /\ revert.steps \subseteq HasSnapshot(revert.run)
          /\ revert.left \subseteq revert.steps
          /\ revert.pc = "apply" \/ revert.outcome = "ok" =>
                /\ revert.at \in revert.left
                /\ \A s \in revert.left : s <= revert.at
                /\ \A s \in revert.steps \ revert.left : revert.at < s
                /\ \A p \in revert.todo : Names(revert.at, p)
                /\ DOMAIN revert.safety = PathsOf(revert.run, revert.steps)
    /\ revert.outcome = "ok" =>
          /\ revert.pc = "ended" /\ revert.left = {revert.at}
          /\ revert.todo = {} /\ revert.failed = {}

\* The steps whose snapshots of a file the revert has been through.
DoneFor(p) ==
    {s \in revert.steps : Names(s, p) /\ (s \notin revert.left \/ (s = revert.at /\ p \notin revert.todo))}

\* The oldest of them is what the file holds, unless it was reported or
\* somebody else wrote it.
OldestWritten ==
    revert.pc = "apply" \/ revert.outcome = "ok" =>
        \A p \in Paths \ (revert.failed \cup disturbed) : \A s \in DoneFor(p) :
            (\A t \in DoneFor(p) : s <= t) => files[p] = saved[revert.run][s][p]

IInv == TypeOK /\ CallInHand /\ SavedAsTracked /\ InOrder /\ OldestWritten /\ RevertUndoable

-------------------------------------------------------------------------------
(* Least and greatest numbers.                                             *)

\* A set of natural numbers with a member has a least one.
LEMMA LeastOf ==
    ASSUME NEW T \in SUBSET Nat, T # {}
    PROVE  \E m \in T : \A k \in T : m <= k
<1> DEFINE Less == {ss \in Nat \X Nat : ss[1] < ss[2]}
<1>1. IsWellFoundedOn(Less, Nat)  BY NatLessThanWellFounded DEF OpToRel
<1>2. PICK m \in T : \A k \in T : ~(<<k, m>> \in Less)
  <2> HIDE DEF Less
  <2> QED BY <1>1, WFMin
<1>3. ASSUME NEW k \in T PROVE m <= k
  <2>1. k \in Nat /\ m \in Nat /\ <<k, m>> \notin Less  BY <1>2
  <2>2. ~(k < m)
    <3> SUFFICES ASSUME k < m PROVE <<k, m>> \in Less  BY <2>1
    <3>1. <<k, m>> \in Nat \X Nat /\ <<k, m>>[1] < <<k, m>>[2]  BY <2>1
    <3> QED BY <3>1
  <2> QED BY <2>1, <2>2
<1> QED BY <1>3

\* Min and Max of the community modules, of a bounded set of numbers.
LEMMA MinMax ==
    ASSUME NEW n \in Nat, NEW S \in SUBSET (1..n), S # {}
    PROVE  /\ Min(S) \in S /\ \A k \in S : Min(S) <= k
           /\ Max(S) \in S /\ \A k \in S : k <= Max(S)
<1>1. S \in SUBSET Nat  OBVIOUS
<1>2. \E m \in S : \A k \in S : m <= k  BY <1>1, LeastOf
<1>3. \E m \in S : \A k \in S : m >= k
  <2> DEFINE Bounds == {u \in Nat : \A k \in S : k <= u}
  <2>1. n \in Bounds  OBVIOUS
  <2>2. PICK u \in Bounds : \A v \in Bounds : u <= v
    <3> HIDE DEF Bounds
    <3>1. Bounds \in SUBSET Nat  BY DEF Bounds
    <3> QED BY <2>1, <3>1, LeastOf
  <2>3. u \in S
    <3> SUFFICES ASSUME u \notin S PROVE FALSE  OBVIOUS
    <3>1. \A k \in S : k \in Nat /\ k # 0 /\ k <= u /\ k # u  OBVIOUS
    <3>2. u # 0 /\ u - 1 \in Nat
      <4>1. PICK k \in S : k \in Nat /\ k # 0 /\ k <= u  BY <3>1
      <4>2. u \in Nat  OBVIOUS
      <4> QED BY <4>1, <4>2
    <3>3. u - 1 \in Bounds  BY <3>1, <3>2
    <3> QED BY <2>2, <3>3
  <2> QED BY <2>3
<1>4. Min(S) \in S /\ \A k \in S : Min(S) <= k  BY <1>2 DEF Min
<1>5. Max(S) \in S /\ \A k \in S : Max(S) >= k  BY <1>3 DEF Max
<1> QED BY <1>1, <1>4, <1>5

-------------------------------------------------------------------------------
(* Snapshots and the log.                                                  *)

\* A snapshot maps some paths to contents.
LEMMA SnapshotFacts ==
    \A f : f \in Snapshot <=> /\ DOMAIN f \subseteq Paths
                              /\ f = [p \in DOMAIN f |-> f[p]]
                              /\ \A p \in DOMAIN f : f[p] \in State
<1>1. ASSUME NEW f \in Snapshot
      PROVE  DOMAIN f \subseteq Paths /\ f = [p \in DOMAIN f |-> f[p]] /\ \A p \in DOMAIN f : f[p] \in State
  <2>1. PICK S \in SUBSET Paths : f \in [S -> State]  BY DEF Snapshot
  <2> QED BY <2>1
<1>2. ASSUME NEW f, DOMAIN f \subseteq Paths, f = [p \in DOMAIN f |-> f[p]],
             \A p \in DOMAIN f : f[p] \in State
      PROVE  f \in Snapshot
  <2>1. f \in [DOMAIN f -> State]  BY <1>2
  <2> QED BY <1>2, <2>1 DEF Snapshot
<1> QED BY <1>1, <1>2

\* The empty snapshot is one, of no path.
LEMMA EmptyFacts == Empty \in Snapshot /\ DOMAIN Empty = {}
<1>1. DOMAIN Empty = {} /\ Empty = [p \in DOMAIN Empty |-> Empty[p]]  BY DEF Empty
<1> QED BY <1>1, SnapshotFacts

\* The calls of a step for a file it tracked.
LEMMA CallsFacts ==
    ASSUME log \in Seq(Write), NEW r, NEW s, NEW p \in Tracked(r, s)
    PROVE  /\ p \in Paths
           /\ CallsFor(r, s, p) \in SUBSET (1..Len(log)) /\ Len(log) \in Nat
           /\ Min(CallsFor(r, s, p)) \in CallsFor(r, s, p)
           /\ Max(CallsFor(r, s, p)) \in CallsFor(r, s, p)
<1>1. p \in Paths /\ CallsFor(r, s, p) # {}  BY DEF Tracked
<1>2. CallsFor(r, s, p) \in SUBSET (1..Len(log))  BY DEF CallsFor
<1>3. Len(log) \in Nat  OBVIOUS
<1> HIDE DEF CallsFor
<1> QED BY <1>1, <1>2, <1>3, MinMax

\* What the calls of a step found is a snapshot.
LEMMA PreStepIsSnapshot ==
    ASSUME log \in Seq(Write), NEW r, NEW s
    PROVE  PreStep(r, s) \in Snapshot
<1>1. ASSUME NEW p \in Tracked(r, s) PROVE log[Max(CallsFor(r, s, p))].before \in State
  <2>1. Max(CallsFor(r, s, p)) \in 1..Len(log)  BY CallsFacts
  <2>2. \A i \in 1..Len(log) : log[i].before \in State
    <3>1. \A i \in 1..Len(log) : log[i] \in Write  OBVIOUS
    <3> QED BY <3>1 DEF Write
  <2> QED BY <2>1, <2>2
<1>2. Tracked(r, s) \subseteq Paths  BY DEF Tracked
<1>3. PreStep(r, s) \in [Tracked(r, s) -> State]  BY <1>1 DEF PreStep
<1> QED BY <1>2, <1>3 DEF Snapshot

\* Another run's call changes nothing in what the log says of a run.
LEMMA TrackedByOwnRun ==
    ASSUME log \in Seq(Write), NEW e, log' = Append(log, e), NEW r, e.run # r, NEW s
    PROVE  PreStep(r, s)' = PreStep(r, s)
<1>1. /\ Len(log') = Len(log) + 1 /\ Len(log) \in Nat
      /\ log'[Len(log) + 1] = e /\ \A i \in 1..Len(log) : log'[i] = log[i]
  <2> SUFFICES /\ Len(Append(log, e)) = Len(log) + 1 /\ Len(log) \in Nat
               /\ Append(log, e)[Len(log) + 1] = e
               /\ \A i \in 1..Len(log) : Append(log, e)[i] = log[i]
    OBVIOUS
  <2> QED BY AppendProperties
<1>2. \A p : CallsFor(r, s, p)' = CallsFor(r, s, p)
  BY <1>1 DEF CallsFor
<1>3. \A p : CallsFor(r, s, p) \subseteq 1..Len(log)  BY DEF CallsFor
<1>4. Tracked(r, s)' = Tracked(r, s)  BY <1>2 DEF Tracked
<1>5. ASSUME NEW p \in Tracked(r, s)
      PROVE  log'[Max(CallsFor(r, s, p)')].before = log[Max(CallsFor(r, s, p))].before
  <2>1. Max(CallsFor(r, s, p)) \in 1..Len(log)  BY <1>3, CallsFacts
  <2> QED BY <1>1, <1>2, <2>1
<1> QED BY <1>4, <1>5 DEF PreStep

\* The newest of some steps.
LEMMA FirstOf ==
    ASSUME NEW steps \in SUBSET Steps, steps # {}
    PROVE  First(steps) \in steps /\ \A t \in steps : t <= First(steps)
BY ChangeAssumptions, MinMax DEF First, Steps

-------------------------------------------------------------------------------
(* The inductive invariant, a part at a time.                              *)

\* Writing a file keeps the workspace one, and the disturbed paths paths.
LEMMA PutType ==
    ASSUME files \in [Paths -> Content], disturbed \subseteq Paths,
           NEW p \in Paths, NEW c \in Content, Put(p, c)
    PROVE  files' \in [Paths -> Content] /\ disturbed' \subseteq Paths
BY DEF Put

\* A saved snapshot maps some paths to what they held.
LEMMA SavedType ==
    ASSUME saved \in [Runs -> [Steps -> Snapshot]], NEW r \in Runs, NEW s \in Steps
    PROVE  /\ DOMAIN saved[r][s] \subseteq Paths
           /\ \A p \in DOMAIN saved[r][s] : saved[r][s][p] \in State
<1>1. saved[r][s] \in Snapshot  OBVIOUS
<1> HIDE DEF Snapshot
<1> QED BY ONLY <1>1, SnapshotFacts

\* Every step keeps the types.
LEMMA TypeStep ==
    ASSUME TypeOK, CallInHand, InOrder, [Next]_vars
    PROVE  TypeOK'
<1> USE DEF TypeOK, Steps, Runs, others, agent
<1>0. 1 \in Runs /\ 1 \in Steps  BY ChangeAssumptions
<1>1. CASE StartRun  BY <1>0, <1>1, ChangeAssumptions DEF StartRun
<1>2. CASE NextStep  BY <1>2, ChangeAssumptions DEF NextStep
<1>3. CASE RunTool
  <2>1. call.path \in Paths  BY <1>3 DEF RunTool, CallInHand
  <2>2. Texts \subseteq Content  BY DEF Content, State
  <2>3. files' \in [Paths -> Content] /\ disturbed' \subseteq Paths
    BY <1>3, <2>1, <2>2, PutType DEF RunTool
  <2> QED BY <1>3, <2>3 DEF RunTool
<1>4. CASE FinishWrite
  <2>1. run \in 1..MaxRuns /\ call \in [path : Paths, before : Content]
    BY <1>4, ChangeAssumptions DEF FinishWrite, CallInHand
  <2> DEFINE e == [run |-> run, step |-> step, path |-> call.path, before |-> call.before]
  <2>2. call.before # Binary => e \in Write  BY <2>1 DEF Write, Content
  <2>3. log' \in Seq(Write)  BY <1>4, <2>2 DEF FinishWrite
  <2> QED BY <1>4, <2>3 DEF FinishWrite
<1>5. CASE EndRun  BY <1>0, <1>5 DEF EndRun
<1>6. CASE SaveStep
  <2>1. saved' \in [Runs -> [Steps -> Snapshot]]
    BY <1>6, PreStepIsSnapshot DEF SaveStep
  <2>2. step' \in Steps  BY <1>0, <1>6, ChangeAssumptions DEF SaveStep
  <2> QED BY <1>6, <2>1, <2>2 DEF SaveStep
<1>7. ASSUME NEW p \in Paths, CallWrite(p) PROVE TypeOK'
  BY <1>7 DEF CallWrite
<1>8. ASSUME NEW r \in Runs, NEW steps \in Targets(r), StartRevert(r, steps) PROVE TypeOK'
  <2>1. steps \in SUBSET HasSnapshot(r) /\ steps # {} /\ steps \in SUBSET Steps
    BY DEF Targets, HasSnapshot
  <2>2. First(steps) \in Steps  BY <2>1, FirstOf
  <2>3. \A s \in Steps : DOMAIN saved[r][s] \subseteq Paths  BY SavedType
  <2>4. PathsOf(r, steps) \subseteq Paths  BY <2>1, <2>3 DEF PathsOf
  <2>5. ASSUME \A p \in PathsOf(r, steps) : files[p] # Binary
        PROVE  [p \in PathsOf(r, steps) |-> files[p]] \in Snapshot
    <3>1. [p \in PathsOf(r, steps) |-> files[p]] \in [PathsOf(r, steps) -> State]
      BY <2>4, <2>5 DEF Content
    <3> QED BY <2>4, <3>1 DEF Snapshot
  <2>6. revert' \in Revert
    BY <1>8, <2>1, <2>2, <2>3, <2>5, EmptyFacts DEF StartRevert, Revert
  <2> QED BY <1>8, <2>6 DEF StartRevert
<1>9. CASE EndSnapshot
  <2> DEFINE left == revert.left \ {revert.at}
  <2>1. left \in SUBSET Steps  BY DEF Revert
  <2>2. left # {} => First(left) \in Steps /\ DOMAIN saved[revert.run][First(left)] \subseteq Paths
    <3>1. left # {} => First(left) \in Steps  BY <2>1, FirstOf
    <3>2. revert.run \in Runs  BY DEF Revert
    <3> QED BY <3>1, <3>2, SavedType
  <2> HIDE DEF left
  <2>3. revert' \in Revert
    BY <1>9, <2>1, <2>2 DEF EndSnapshot, AfterSnapshot, Revert, left
  <2> QED BY <1>9, <2>3 DEF EndSnapshot
<1>10. ASSUME NEW p \in Paths, Apply(p) PROVE TypeOK'
  <2>1. /\ revert.run \in Runs /\ revert.at \in Steps
        /\ revert.pc = "apply" /\ p \in revert.todo
    BY <1>10 DEF Apply, Revert
  <2>2. p \in DOMAIN saved[revert.run][revert.at]  BY <2>1 DEF InOrder, Names
  <2>3. saved[revert.run][revert.at][p] \in Content  BY <2>1, <2>2, SavedType DEF Content
  <2>4. revert' \in Revert  BY <1>10 DEF Apply, Revert
  <2> QED BY <1>10, <2>3, <2>4 DEF Apply
<1>11. ASSUME NEW p \in Paths, ApplyFails(p) PROVE TypeOK'
  <2>1. revert' \in Revert  BY <1>11 DEF ApplyFails, Reported, Revert
  <2> QED BY <1>11, <2>1 DEF ApplyFails
<1>12. CASE Stop
  <2>1. revert' \in Revert  BY <1>12 DEF Stop, Revert
  <2> QED BY <1>0, <1>12, <2>1 DEF Stop
<1>13. ASSUME NEW p \in Paths, NEW c \in Content, Edit(p, c) PROVE TypeOK'
  <2>1. files' \in [Paths -> Content] /\ disturbed' \subseteq Paths
    BY <1>13, PutType DEF Edit
  <2> QED BY <1>13, <2>1 DEF Edit
<1>14. CASE UNCHANGED vars  BY <1>14 DEF vars
<1> QED
  BY <1>1, <1>2, <1>3, <1>4, <1>5, <1>6, <1>7, <1>8, <1>9, <1>10, <1>11, <1>12, <1>13, <1>14
     DEF Next, Run, DoRevert

\* A call under way has a run and a file.
LEMMA CallStep ==
    ASSUME TypeOK, CallInHand, [Next]_vars
    PROVE  CallInHand'
<1> USE DEF TypeOK, CallInHand, others, agent
<1>1. CASE StartRun  BY <1>1, ChangeAssumptions DEF StartRun
<1>2. CASE NextStep \/ RunTool \/ FinishWrite \/ EndRun \/ SaveStep
  BY <1>2 DEF NextStep, RunTool, FinishWrite, EndRun, SaveStep
<1>3. ASSUME NEW p \in Paths, CallWrite(p) PROVE CallInHand'
  BY <1>3 DEF CallWrite
<1>4. CASE DoRevert
  BY <1>4 DEF DoRevert, StartRevert, EndSnapshot, Apply, ApplyFails
<1>5. CASE Stop  BY <1>5 DEF Stop
<1>6. ASSUME NEW p, NEW c, Edit(p, c) PROVE CallInHand'  BY <1>6 DEF Edit
<1>7. CASE UNCHANGED vars  BY <1>7 DEF vars
<1> QED BY <1>1, <1>2, <1>3, <1>4, <1>5, <1>6, <1>7 DEF Next, Run

\* Snapshots are saved once the run has no more calls to track.
LEMMA SavedStep ==
    ASSUME TypeOK, SavedAsTracked, [Next]_vars
    PROVE  /\ SavedAsTracked'
           /\ \A r \in Runs, s \in Steps : saved[r][s] # Empty => saved'[r][s] = saved[r][s]
<1> DEFINE Goal == /\ SavedAsTracked'
                   /\ \A r \in Runs, s \in Steps : saved[r][s] # Empty => saved'[r][s] = saved[r][s]
<1> USE DEF others, agent
<1>0. log \in Seq(Write) /\ run \in Nat /\ saved \in [Runs -> [Steps -> Snapshot]]
  BY ChangeAssumptions DEF TypeOK
\* A step that tracks and saves nothing, and does not go back to a run's loop.
<1>1. ASSUME UNCHANGED <<log, saved>>, \A r \in Runs : Sealed(r) => Sealed(r)'
      PROVE  Goal
  <2>1. \A r, s : PreStep(r, s)' = PreStep(r, s)
    BY <1>1 DEF PreStep, Tracked, CallsFor
  <2> QED BY <1>1, <2>1 DEF SavedAsTracked
<1>2. CASE StartRun  BY <1>0, <1>1, <1>2 DEF StartRun, Sealed, Runs
<1>3. CASE NextStep \/ RunTool \/ EndRun
  BY <1>0, <1>1, <1>3 DEF NextStep, RunTool, EndRun, Sealed
<1>4. ASSUME NEW p \in Paths, CallWrite(p) PROVE Goal
  BY <1>0, <1>1, <1>4 DEF CallWrite, Sealed
<1>5. CASE FinishWrite
  <2> DEFINE e == [run |-> run, step |-> step, path |-> call.path, before |-> call.before]
  <2>1. CASE log' = log
    BY <1>0, <1>1, <1>5, <2>1 DEF FinishWrite, Sealed
  <2>2. CASE log' = Append(log, e)
    <3>1. saved' = saved  BY <1>5 DEF FinishWrite
    <3>2. ASSUME NEW r \in Runs, NEW s \in Steps, saved[r][s] # Empty
          PROVE  saved[r][s] = PreStep(r, s)' /\ Sealed(r)'
      <4>1. saved[r][s] = PreStep(r, s) /\ Sealed(r)  BY <3>2 DEF SavedAsTracked
      <4>2. r < run  BY <1>5, <4>1 DEF FinishWrite, Sealed
      <4>3. e.run # r  BY <1>0, <4>2
      <4>4. PreStep(r, s)' = PreStep(r, s)  BY <1>0, <2>2, <4>3, TrackedByOwnRun
      <4> QED BY <1>5, <4>1, <4>2, <4>4 DEF FinishWrite, Sealed
    <3> QED BY <3>1, <3>2 DEF SavedAsTracked
  <2> QED BY <1>5, <2>1, <2>2 DEF FinishWrite
<1>6. CASE SaveStep
  <2>1. \A r, s : PreStep(r, s)' = PreStep(r, s)
    BY <1>6 DEF SaveStep, PreStep, Tracked, CallsFor
  <2>2. \A r \in Runs : Sealed(r) => Sealed(r)'  BY <1>6 DEF SaveStep, Sealed
  <2>3. \A r \in Runs : r = run => Sealed(r)'  BY <1>6 DEF SaveStep, Sealed
  <2>4. \A r \in Runs, s \in Steps :
           saved'[r][s] = IF r = run /\ s = step THEN PreStep(run, step) ELSE saved[r][s]
    BY <1>0, <1>6 DEF SaveStep
  <2>5. ASSUME NEW r \in Runs, NEW s \in Steps, saved'[r][s] # Empty
        PROVE  saved'[r][s] = PreStep(r, s)' /\ Sealed(r)'
    <3>1. CASE r = run /\ s = step  BY <2>1, <2>3, <2>4, <3>1
    <3>2. CASE ~(r = run /\ s = step)  BY <2>1, <2>2, <2>4, <2>5, <3>2 DEF SavedAsTracked
    <3> QED BY <3>1, <3>2
  <2>6. ASSUME NEW r \in Runs, NEW s \in Steps, saved[r][s] # Empty
        PROVE  saved'[r][s] = saved[r][s]
    BY <2>4, <2>6 DEF SavedAsTracked
  <2> QED BY <2>5, <2>6 DEF SavedAsTracked
<1>7. CASE DoRevert
  BY <1>0, <1>1, <1>7 DEF DoRevert, StartRevert, EndSnapshot, Apply, ApplyFails, Sealed
<1>8. CASE Stop  BY <1>0, <1>1, <1>8 DEF Stop, Sealed
<1>9. ASSUME NEW p, NEW c, Edit(p, c) PROVE Goal
  BY <1>0, <1>1, <1>9 DEF Edit, Sealed
<1>10. CASE UNCHANGED vars  BY <1>0, <1>1, <1>10 DEF vars, Sealed
<1> QED BY <1>2, <1>3, <1>4, <1>5, <1>6, <1>7, <1>8, <1>9, <1>10 DEF Next, Run

\* The snapshots that a revert restores stay as they are.
LEMMA TargetsKept ==
    ASSUME TypeOK, SavedAsTracked, InOrder, [Next]_vars, revert.pc # "none"
    PROVE  /\ revert.run \in Runs
           /\ \A s \in revert.steps : /\ s \in Steps /\ saved'[revert.run][s] # Empty
                                      /\ saved'[revert.run][s] = saved[revert.run][s]
<1>1. revert.run \in Runs  BY DEF TypeOK, Revert
<1>2. \A s \in revert.steps : s \in Steps /\ saved[revert.run][s] # Empty
  BY DEF InOrder, HasSnapshot
<1>3. \A s \in Steps : saved[revert.run][s] # Empty => saved'[revert.run][s] = saved[revert.run][s]
  BY <1>1, SavedStep
<1> QED BY <1>1, <1>2, <1>3

\* Tracked calls stay in the order of their runs and steps.
LEMMA OrderStep ==
    ASSUME TypeOK, SavedAsTracked, InOrder, [Next]_vars
    PROVE  InOrder'
<1> USE DEF others, agent
\* The revert stays where it is.
<1>1. ASSUME UNCHANGED revert PROVE InOrder'
  <2>1. CASE revert.pc = "none"  BY <1>1, <2>1 DEF InOrder
  <2>2. CASE revert.pc # "none"
    <3>1. \A s \in revert.steps : /\ s \in Steps /\ saved'[revert.run][s] # Empty
                                  /\ saved'[revert.run][s] = saved[revert.run][s]
      BY <2>2, TargetsKept
    <3>2. PathsOf(revert.run, revert.steps)' = PathsOf(revert.run, revert.steps)
      BY <1>1, <3>1 DEF PathsOf
    <3>3. revert.steps \subseteq HasSnapshot(revert.run)'
      BY <1>1, <3>1 DEF HasSnapshot
    <3>4. ASSUME NEW s \in revert.steps, NEW p PROVE Names(s, p)' = Names(s, p)
      BY <1>1, <3>1 DEF Names
    <3> QED BY <1>1, <2>2, <3>2, <3>3, <3>4 DEF InOrder
  <2> QED BY <2>1, <2>2
<1>2. CASE Run
  BY <1>1, <1>2 DEF Run, StartRun, NextStep, RunTool, FinishWrite, EndRun, SaveStep, CallWrite
<1>3. ASSUME NEW r \in Runs, NEW steps \in Targets(r), StartRevert(r, steps) PROVE InOrder'
  <2>1. steps \in SUBSET HasSnapshot(r) /\ steps # {} /\ steps \in SUBSET Steps
    BY DEF Targets, HasSnapshot
  <2>2. First(steps) \in steps /\ \A t \in steps : t <= First(steps)  BY <2>1, FirstOf
  <2> DEFINE paths == PathsOf(r, steps)
             text == \A p \in paths : files[p] # Binary
  <2>3. /\ revert'.run = r /\ revert'.steps = steps /\ revert'.left = steps
        /\ revert'.at = First(steps)
        /\ revert'.todo = IF text THEN DOMAIN saved[r][First(steps)] ELSE {}
        /\ revert'.safety = IF text THEN [p \in paths |-> files[p]] ELSE Empty
        /\ revert'.pc = IF text THEN "apply" ELSE "ended"
        /\ revert'.outcome = IF text THEN "none" ELSE "raised"
        /\ saved' = saved
    BY <1>3 DEF StartRevert
  <2>4. PathsOf(r, steps)' = paths /\ HasSnapshot(r)' = HasSnapshot(r)
    BY <2>3 DEF PathsOf, HasSnapshot
  <2>5. text => DOMAIN revert'.safety = paths  BY <2>3
  <2> HIDE DEF text, paths
  <2>6. revert'.steps \subseteq HasSnapshot(revert.run)'  BY <2>1, <2>3 DEF HasSnapshot
  <2>7. PathsOf(revert.run, revert.steps)' = paths  BY <2>3, <2>4 DEF PathsOf
  <2>8. text => \A p \in revert'.todo : Names(revert.at, p)'  BY <2>3 DEF Names
  <2> QED BY <2>1, <2>2, <2>3, <2>5, <2>6, <2>7, <2>8 DEF InOrder
\* The other steps of a revert leave what it is for as it is.
<1>4. ASSUME revert.pc = "apply", UNCHANGED saved,
             revert'.run = revert.run, revert'.steps = revert.steps, revert'.safety = revert.safety
      PROVE  /\ revert'.steps \subseteq HasSnapshot(revert.run)' /\ revert'.steps # {}
             /\ DOMAIN revert'.safety = PathsOf(revert.run, revert.steps)'
             /\ \A s, p : Names(s, p)' = Names(s, p)
  <2>1. PathsOf(revert.run, revert.steps)' = PathsOf(revert.run, revert.steps)
    BY <1>4 DEF PathsOf
  <2>2. HasSnapshot(revert.run)' = HasSnapshot(revert.run)  BY <1>4 DEF HasSnapshot
  <2>3. \A s, p : Names(s, p)' = Names(s, p)  BY <1>4 DEF Names
  <2> QED BY <1>4, <2>1, <2>2, <2>3 DEF InOrder
<1>5. CASE EndSnapshot
  <2> DEFINE left == revert.left \ {revert.at}
             new == First(left)
  <2>0. revert.pc = "apply" /\ UNCHANGED saved  BY <1>5 DEF EndSnapshot
  <2>1. left \in SUBSET Steps /\ revert.left \in SUBSET Steps /\ revert.at \in Steps
        /\ revert.steps \in SUBSET Steps
    BY DEF TypeOK, Revert
  <2>2. left # {} => new \in left /\ \A t \in left : t <= new
    BY <2>1, FirstOf
  <2> HIDE DEF new
  <2>3. \/ revert' = [revert EXCEPT !.pc = "ended", !.outcome = "raised"]
        \/ /\ left # {}
           /\ revert' = [revert EXCEPT !.left = left, !.at = new, !.applied = {},
                                       !.todo = DOMAIN saved[revert.run][new]]
        \/ /\ left = {}
           /\ revert' = [revert EXCEPT !.pc = "ended",
                                       !.outcome = IF revert.failed = {} THEN "ok" ELSE "failed"]
    BY <1>5 DEF EndSnapshot, AfterSnapshot, new
  <2> HIDE DEF left
  <2>4. revert \in Revert  BY DEF TypeOK
  <2>5. /\ revert'.run = revert.run /\ revert'.steps = revert.steps /\ revert'.safety = revert.safety
        /\ revert'.failed = revert.failed
    BY <2>3, <2>4 DEF Revert
  <2>6. /\ revert.at \in revert.left /\ revert.left \subseteq revert.steps
        /\ \A s \in revert.left : s <= revert.at
        /\ \A s \in revert.steps \ revert.left : revert.at < s
        /\ revert.outcome # "ok"
    BY <2>0 DEF InOrder
  <2>7. CASE revert' = [revert EXCEPT !.pc = "ended", !.outcome = "raised"]
    <3>1. revert'.pc = "ended" /\ revert'.outcome = "raised" /\ revert'.left = revert.left
      BY <2>4, <2>7 DEF Revert
    <3> QED BY <1>4, <2>0, <2>5, <2>6, <3>1 DEF InOrder
  <2>8. CASE left # {} /\ revert' = [revert EXCEPT !.left = left, !.at = new, !.applied = {},
                                                    !.todo = DOMAIN saved[revert.run][new]]
    <3>1. /\ revert'.pc = "apply" /\ revert'.outcome # "ok" /\ revert'.left = left
          /\ revert'.at = new /\ revert'.todo = DOMAIN saved[revert.run][new]
      BY <2>0, <2>4, <2>6, <2>8 DEF Revert
    <3>2. \A s \in revert.steps \ left : new < s
      BY <2>1, <2>2, <2>6, <2>8 DEF left, Steps
    <3>3. \A p \in revert'.todo : Names(revert.at, p)'  BY <2>0, <2>5, <3>1 DEF Names
    <3>4. left \subseteq revert.steps  BY <2>6 DEF left
    <3> QED BY <1>4, <2>0, <2>2, <2>5, <2>8, <3>1, <3>2, <3>3, <3>4 DEF InOrder
  <2>9. CASE left = {} /\ revert' = [revert EXCEPT !.pc = "ended",
                                       !.outcome = IF revert.failed = {} THEN "ok" ELSE "failed"]
    <3>1. /\ revert'.pc = "ended" /\ revert'.outcome \in {"ok", "failed"}
          /\ revert'.outcome = "ok" => revert.failed = {}
          /\ revert'.left = revert.left /\ revert'.at = revert.at /\ revert'.todo = revert.todo
      BY <2>4, <2>9 DEF Revert
    <3>2. revert.left = {revert.at}  BY <2>6, <2>9 DEF left
    <3>3. revert.todo = {}  BY <1>5 DEF EndSnapshot
    <3> QED BY <1>4, <2>0, <2>5, <2>6, <3>1, <3>2, <3>3 DEF InOrder
  <2> QED BY <2>3, <2>7, <2>8, <2>9
<1>6. ASSUME NEW p \in Paths, Apply(p) \/ ApplyFails(p) PROVE InOrder'
  <2>0. revert.pc = "apply" /\ UNCHANGED saved  BY <1>6 DEF Apply, ApplyFails
  <2>1. /\ revert'.run = revert.run /\ revert'.steps = revert.steps /\ revert'.safety = revert.safety
        /\ revert'.left = revert.left /\ revert'.at = revert.at /\ revert'.pc = revert.pc
        /\ revert'.outcome = revert.outcome /\ revert'.todo \subseteq revert.todo
    BY <1>6 DEF Apply, ApplyFails, Reported, TypeOK, Revert
  <2>2. \A q : Names(revert.at, q)' = Names(revert.at, q)  BY <2>0, <2>1 DEF Names
  <2> QED BY <1>4, <2>0, <2>1, <2>2 DEF InOrder
<1>7. CASE Stop
  <2>1. CASE revert.pc = "apply"
    <3>1. /\ revert'.run = revert.run /\ revert'.steps = revert.steps
          /\ revert'.safety = revert.safety
          /\ revert'.left = revert.left /\ revert'.pc = "ended" /\ revert'.outcome = "raised"
          /\ UNCHANGED saved
      BY <1>7, <2>1 DEF Stop, TypeOK, Revert
    <3> QED BY <1>4, <2>1, <3>1 DEF InOrder
  <2>2. CASE revert.pc # "apply"  BY <1>1, <1>7, <2>2 DEF Stop
  <2> QED BY <2>1, <2>2
<1>8. ASSUME NEW p, NEW c, Edit(p, c) PROVE InOrder'  BY <1>1, <1>8 DEF Edit
<1>9. CASE UNCHANGED vars  BY <1>1, <1>9 DEF vars
<1> QED BY <1>2, <1>3, <1>5, <1>6, <1>7, <1>8, <1>9 DEF Next, DoRevert

\* A file holds the oldest of the snapshots restored.
LEMMA OldestStep ==
    ASSUME TypeOK, CallInHand, SavedAsTracked, InOrder, OldestWritten, [Next]_vars
    PROVE  OldestWritten'
<1> USE DEF others, agent
\* The revert stays where it is; a file that is written is disturbed.
<1>1. ASSUME UNCHANGED revert,
             revert.pc # "none" =>
                disturbed \subseteq disturbed' /\ \A p \in Paths \ disturbed' : files'[p] = files[p]
      PROVE  OldestWritten'
  <2> SUFFICES ASSUME revert.pc = "apply" \/ revert.outcome = "ok",
                      NEW p \in Paths \ (revert.failed \cup disturbed'),
                      NEW s \in DoneFor(p)', \A t \in DoneFor(p)' : s <= t
               PROVE  files'[p] = saved'[revert.run][s][p]
    BY <1>1 DEF OldestWritten
  <2>1. revert.pc # "none"  BY DEF InOrder
  <2>2. \A t \in revert.steps : saved'[revert.run][t] = saved[revert.run][t]
    BY <2>1, TargetsKept
  <2>3. DoneFor(p)' = DoneFor(p)  BY <1>1, <2>2 DEF DoneFor, Names
  <2>4. s \in DoneFor(p) /\ \A t \in DoneFor(p) : s <= t  BY <2>3
  <2>5. s \in revert.steps  BY <2>4 DEF DoneFor
  <2>6. files'[p] = files[p] /\ p \notin disturbed  BY <1>1, <2>1
  <2>7. files[p] = saved[revert.run][s][p]  BY <2>4, <2>6 DEF OldestWritten
  <2> QED BY <2>2, <2>5, <2>6, <2>7
<1>2. CASE StartRun \/ NextStep \/ FinishWrite \/ EndRun \/ SaveStep \/ UNCHANGED vars
  BY <1>1, <1>2 DEF StartRun, NextStep, FinishWrite, EndRun, SaveStep, vars
<1>3. ASSUME NEW p \in Paths, CallWrite(p) PROVE OldestWritten'
  BY <1>1, <1>3 DEF CallWrite
\* Put is a write by somebody else.
<1>4. ASSUME NEW p, NEW c, Put(p, c), UNCHANGED revert PROVE OldestWritten'
  <2>1. files \in [Paths -> Content]  BY DEF TypeOK
  <2> QED BY <1>1, <1>4, <2>1 DEF Put
<1>5. CASE RunTool
  <2>1. UNCHANGED revert  BY <1>5 DEF RunTool
  <2>2. CASE \E c \in Texts : Put(call.path, c)  BY <1>4, <2>1, <2>2
  <2>3. CASE UNCHANGED <<files, disturbed>>  BY <1>1, <2>1, <2>3
  <2> QED BY <1>5, <2>2, <2>3 DEF RunTool
<1>6. ASSUME NEW p, NEW c, Edit(p, c) PROVE OldestWritten'
  BY <1>4, <1>6 DEF Edit
\* A revert that begins has restored nothing.
<1>7. ASSUME NEW r \in Runs, NEW steps \in Targets(r), StartRevert(r, steps) PROVE OldestWritten'
  <2> DEFINE text == \A p \in PathsOf(r, steps) : files[p] # Binary
  <2>1. /\ revert'.run = r /\ revert'.left = revert'.steps
        /\ revert'.at = First(steps)
        /\ revert'.todo = IF text THEN DOMAIN saved[r][First(steps)] ELSE {}
        /\ revert'.pc = IF text THEN "apply" ELSE "ended"
        /\ revert'.outcome = IF text THEN "none" ELSE "raised"
        /\ saved' = saved
    BY <1>7 DEF StartRevert
  <2> HIDE DEF text
  <2>2. CASE text
    <3>1. \A p : DoneFor(p)' = {}  BY <2>1, <2>2 DEF DoneFor, Names
    <3> QED BY <3>1 DEF OldestWritten
  <2>3. CASE ~text  BY <2>1, <2>3 DEF OldestWritten
  <2> QED BY <2>2, <2>3
<1>8. CASE EndSnapshot
  <2> DEFINE left == revert.left \ {revert.at}
             new == First(left)
  <2>0. revert.pc = "apply" /\ UNCHANGED <<saved, files, disturbed>> /\ revert.todo = {}
    BY <1>8 DEF EndSnapshot
  <2> HIDE DEF new
  <2>1. \/ revert' = [revert EXCEPT !.pc = "ended", !.outcome = "raised"]
        \/ /\ left # {}
           /\ revert' = [revert EXCEPT !.left = left, !.at = new, !.applied = {},
                                       !.todo = DOMAIN saved[revert.run][new]]
        \/ /\ left = {}
           /\ revert' = [revert EXCEPT !.pc = "ended",
                                       !.outcome = IF revert.failed = {} THEN "ok" ELSE "failed"]
    BY <1>8 DEF EndSnapshot, AfterSnapshot, new
  <2>2. revert \in Revert  BY DEF TypeOK
  <2>3. revert'.run = revert.run /\ revert'.steps = revert.steps /\ revert'.failed = revert.failed
    BY <2>1, <2>2 DEF Revert
  <2>4. CASE revert'.pc = "ended" /\ revert'.outcome = "raised"
    BY <2>4 DEF OldestWritten
  <2>5. ASSUME \A p \in Paths : DoneFor(p)' = DoneFor(p) PROVE OldestWritten'
    <3> SUFFICES ASSUME NEW p \in Paths \ (revert'.failed \cup disturbed'),
                        NEW s \in DoneFor(p)', \A t \in DoneFor(p)' : s <= t
                 PROVE  files'[p] = saved'[revert'.run][s][p]
      BY DEF OldestWritten
    <3>1. s \in DoneFor(p) /\ \A t \in DoneFor(p) : s <= t  BY <2>5
    <3> QED BY <2>0, <2>3, <3>1 DEF OldestWritten
  <2>6. CASE left # {} /\ revert' = [revert EXCEPT !.left = left, !.at = new, !.applied = {},
                                                    !.todo = DOMAIN saved[revert.run][new]]
    <3>1. /\ revert'.left = left /\ revert'.at = new
          /\ revert'.todo = DOMAIN saved[revert.run][new]
      BY <2>2, <2>6 DEF Revert
    <3>2. \A p : DoneFor(p)' = DoneFor(p)
      BY <2>0, <2>3, <3>1 DEF DoneFor, Names
    <3> QED BY <2>5, <3>2
  <2>7. CASE left = {} /\ revert' = [revert EXCEPT !.pc = "ended",
                                       !.outcome = IF revert.failed = {} THEN "ok" ELSE "failed"]
    <3>1. /\ revert'.left = revert.left /\ revert'.at = revert.at /\ revert'.todo = revert.todo
      BY <2>2, <2>7 DEF Revert
    <3>2. \A p : DoneFor(p)' = DoneFor(p)
      BY <2>0, <2>3, <3>1 DEF DoneFor, Names
    <3> QED BY <2>5, <3>2
  <2>8. revert' = [revert EXCEPT !.pc = "ended", !.outcome = "raised"] =>
           revert'.pc = "ended" /\ revert'.outcome = "raised"
    BY <2>2 DEF Revert
  <2> QED BY <2>1, <2>4, <2>6, <2>7, <2>8
\* A file restored holds its snapshot of the step the revert is at.
<1>9. ASSUME NEW p \in Paths, Apply(p) PROVE OldestWritten'
  <2>1. /\ revert.pc = "apply" /\ p \in revert.todo /\ UNCHANGED saved
        /\ files' = [files EXCEPT ![p] = saved[revert.run][revert.at][p]]
        /\ disturbed' = disturbed \ {p}
    BY <1>9 DEF Apply
  <2>2. /\ revert'.run = revert.run /\ revert'.steps = revert.steps
        /\ revert'.left = revert.left /\ revert'.at = revert.at
        /\ revert'.failed = revert.failed /\ revert'.todo = revert.todo \ {p}
    BY <1>9 DEF Apply, TypeOK, Revert
  <2> SUFFICES ASSUME NEW q \in Paths \ (revert.failed \cup disturbed'),
                      NEW s \in DoneFor(q)', \A t \in DoneFor(q)' : s <= t
               PROVE  files'[q] = saved[revert.run][s][q]
    BY <2>1, <2>2 DEF OldestWritten
  <2>3. files \in [Paths -> Content]  BY DEF TypeOK
  <2>4. CASE q # p
    <3>1. DoneFor(q)' = DoneFor(q)  BY <2>1, <2>2, <2>4 DEF DoneFor, Names
    <3>2. s \in DoneFor(q) /\ \A t \in DoneFor(q) : s <= t  BY <3>1
    <3>3. files[q] = saved[revert.run][s][q]  BY <2>1, <2>4, <3>2 DEF OldestWritten
    <3> QED BY <2>1, <2>3, <2>4, <3>3
  <2>5. CASE q = p
    <3>1. /\ revert.at \in revert.left /\ revert.left \subseteq revert.steps
          /\ \A t \in revert.steps \ revert.left : revert.at < t
          /\ Names(revert.at, p)
      BY <2>1 DEF InOrder
    <3>2. DoneFor(p)' = {t \in revert.steps :
                            Names(t, p) /\ (t \notin revert.left \/ t = revert.at)}
      BY <2>1, <2>2 DEF DoneFor, Names
    <3>3. revert.at \in DoneFor(p)'  BY <3>1, <3>2
    <3>4. s <= revert.at /\ s \in revert.steps /\ (s \notin revert.left \/ s = revert.at)
      BY <2>5, <3>2, <3>3
    <3>5. s \in Nat /\ revert.at \in Nat
      BY <3>4, ChangeAssumptions DEF TypeOK, Revert, Steps
    <3>6. s = revert.at  BY <3>1, <3>4, <3>5
    <3> QED BY <2>1, <2>3, <2>5, <3>6
  <2> QED BY <2>4, <2>5
<1>10. ASSUME NEW p \in Paths, ApplyFails(p) PROVE OldestWritten'
  <2>1. revert.pc = "apply" /\ UNCHANGED <<saved, files, disturbed>>
    BY <1>10 DEF ApplyFails
  <2>2. /\ revert'.run = revert.run /\ revert'.steps = revert.steps
        /\ revert'.left = revert.left /\ revert'.at = revert.at
        /\ revert'.failed = revert.failed \cup {p} /\ revert'.todo = revert.todo \ {p}
    BY <1>10 DEF ApplyFails, Reported, TypeOK, Revert
  <2> SUFFICES ASSUME NEW q \in Paths \ (revert'.failed \cup disturbed),
                      NEW s \in DoneFor(q)', \A t \in DoneFor(q)' : s <= t
               PROVE  files[q] = saved[revert.run][s][q]
    BY <2>1, <2>2 DEF OldestWritten
  <2>3. DoneFor(q)' = DoneFor(q)  BY <2>1, <2>2 DEF DoneFor, Names
  <2>4. s \in DoneFor(q) /\ \A t \in DoneFor(q) : s <= t  BY <2>3
  <2> QED BY <2>1, <2>2, <2>4 DEF OldestWritten
<1>11. CASE Stop
  <2>1. CASE revert.pc = "apply"
    <3>1. revert'.pc = "ended" /\ revert'.outcome = "raised"
      BY <1>11, <2>1 DEF Stop, TypeOK, Revert
    <3> QED BY <3>1 DEF OldestWritten
  <2>2. CASE revert.pc # "apply"  BY <1>1, <1>11, <2>2 DEF Stop
  <2> QED BY <2>1, <2>2
<1> QED
  BY <1>2, <1>3, <1>5, <1>6, <1>7, <1>8, <1>9, <1>10, <1>11 DEF Next, Run, DoRevert

\* The safety snapshot holds what the revert found, and it writes nothing else.
LEMMA UndoableStep ==
    ASSUME TypeOK, CallInHand, InOrder, RevertUndoable, [Next]_vars
    PROVE  RevertUndoable'
<1> USE DEF others, agent
<1>0. files \in [Paths -> Content]  BY DEF TypeOK
\* The revert goes on as it began; a file that is written is disturbed.
<1>1. ASSUME (revert.pc = "none") <=> (revert'.pc = "none"),
             revert'.safety = revert.safety, UNCHANGED atStart,
             revert.pc # "none" => \A p \in Paths \ DOMAIN revert.safety :
                                      /\ p \in disturbed => p \in disturbed'
                                      /\ p \in disturbed' \/ files'[p] = files[p]
      PROVE  RevertUndoable'
  BY <1>1 DEF RevertUndoable
<1>2. CASE StartRun \/ NextStep \/ FinishWrite \/ EndRun \/ SaveStep \/ UNCHANGED vars
  BY <1>1, <1>2 DEF StartRun, NextStep, FinishWrite, EndRun, SaveStep, vars
<1>3. ASSUME NEW p \in Paths, CallWrite(p) PROVE RevertUndoable'
  BY <1>1, <1>3 DEF CallWrite
<1>4. ASSUME NEW p, NEW c, Put(p, c), UNCHANGED <<revert, atStart>> PROVE RevertUndoable'
  BY <1>0, <1>1, <1>4 DEF Put
<1>5. CASE RunTool
  <2>1. UNCHANGED <<revert, atStart>>  BY <1>5 DEF RunTool
  <2>2. CASE \E c \in Texts : Put(call.path, c)  BY <1>4, <2>1, <2>2
  <2>3. CASE UNCHANGED <<files, disturbed>>  BY <1>1, <2>1, <2>3
  <2> QED BY <1>5, <2>2, <2>3 DEF RunTool
<1>6. ASSUME NEW p, NEW c, Edit(p, c) PROVE RevertUndoable'
  BY <1>4, <1>6 DEF Edit
<1>7. ASSUME NEW r \in Runs, NEW steps \in Targets(r), StartRevert(r, steps) PROVE RevertUndoable'
  <2> DEFINE paths == PathsOf(r, steps)
             text == \A p \in paths : files[p] # Binary
  <2>1. /\ revert'.safety = IF text THEN [p \in paths |-> files[p]] ELSE Empty
        /\ atStart' = files /\ files' = files
    BY <1>7 DEF StartRevert
  <2> HIDE DEF text, paths
  <2>2. \A p \in DOMAIN revert'.safety : revert'.safety[p] = files[p]
    BY <2>1, EmptyFacts
  <2> QED BY <2>1, <2>2 DEF RevertUndoable
<1>8. CASE EndSnapshot
  <2>1. /\ revert.pc = "apply" /\ UNCHANGED <<files, disturbed, atStart>>
        /\ revert'.safety = revert.safety /\ revert'.pc # "none"
    BY <1>8 DEF EndSnapshot, AfterSnapshot, TypeOK, Revert
  <2> QED BY <1>1, <2>1
<1>9. ASSUME NEW p \in Paths, Apply(p) PROVE RevertUndoable'
  <2>1. /\ revert.pc = "apply" /\ p \in revert.todo /\ UNCHANGED atStart
        /\ files' = [files EXCEPT ![p] = saved[revert.run][revert.at][p]]
        /\ disturbed' = disturbed \ {p}
        /\ revert'.pc = revert.pc /\ revert'.safety = revert.safety
    BY <1>9 DEF Apply, TypeOK, Revert
  <2>2. p \in DOMAIN revert.safety
    BY <2>1 DEF InOrder, Names, PathsOf
  <2> QED BY <1>0, <1>1, <2>1, <2>2
<1>10. ASSUME NEW p \in Paths, ApplyFails(p) PROVE RevertUndoable'
  <2>1. /\ UNCHANGED <<files, disturbed, atStart>>
        /\ revert'.pc = revert.pc /\ revert'.safety = revert.safety
    BY <1>10 DEF ApplyFails, Reported, TypeOK, Revert
  <2> QED BY <1>1, <2>1
<1>11. CASE Stop
  <2>1. /\ UNCHANGED <<files, disturbed, atStart>> /\ revert'.safety = revert.safety
        /\ (revert.pc = "none") <=> (revert'.pc = "none")
    BY <1>11 DEF Stop, TypeOK, Revert
  <2> QED BY <1>1, <2>1
<1> QED
  BY <1>2, <1>3, <1>5, <1>6, <1>7, <1>8, <1>9, <1>10, <1>11 DEF Next, Run, DoRevert

\* The invariant holds at the start.
LEMMA InitHolds == Init => IInv
<1> SUFFICES ASSUME Init PROVE IInv  OBVIOUS
<1>1. 1 \in Runs /\ 1 \in Steps  BY ChangeAssumptions DEF Runs, Steps
<1>2. revert.pc = "none" /\ revert.outcome = "none" /\ revert \in Revert
  BY <1>1, EmptyFacts DEF Init, NoRevert, Revert
<1>3. files \in [Paths -> Content] /\ log \in Seq(Write)
  BY DEF Init, Content
<1>4. saved \in [Runs -> [Steps -> Snapshot]]
  BY EmptyFacts DEF Init
<1>5. TypeOK
  BY <1>1, <1>2, <1>3, <1>4, ChangeAssumptions DEF Init, TypeOK
<1>6. CallInHand  BY DEF Init, CallInHand
<1>7. SavedAsTracked  BY DEF Init, SavedAsTracked
<1>8. InOrder /\ OldestWritten /\ RevertUndoable
  BY <1>2 DEF InOrder, OldestWritten, RevertUndoable
<1> QED BY <1>5, <1>6, <1>7, <1>8 DEF IInv

\* The inductive invariant holds in every reachable state.
THEOREM Invariance == Spec => []IInv
<1>1. IInv /\ [Next]_vars => IInv'
  BY TypeStep, CallStep, SavedStep, OrderStep, OldestStep, UndoableStep DEF IInv
<1> QED BY <1>1, InitHolds, PTL DEF Spec

-------------------------------------------------------------------------------
(* The properties.                                                         *)

\* Variables keep their types.
THEOREM TypeCorrect == Spec => []TypeOK
BY Invariance, PTL DEF IInv

\* The safety snapshot is enough to undo a revert, however it ends
\* (RevertService._create_safety_snapshot before _apply).
THEOREM RevertUndoableHolds == Spec => []RevertUndoable
BY Invariance, PTL DEF IInv

\* The first and the last call for a file are one when there is only one.
LEMMA OneCall ==
    ASSUME log \in Seq(Write), NEW r, NEW s, NEW p \in Tracked(r, s), ~Doubled(r, s, p)
    PROVE  Max(CallsFor(r, s, p)) = Min(CallsFor(r, s, p))
<1> DEFINE C == CallsFor(r, s, p)
<1>1. C \in SUBSET (1..Len(log)) /\ Len(log) \in Nat /\ Min(C) \in C /\ Max(C) \in C
  BY CallsFacts
<1> HIDE DEF C
<1>2. IsFiniteSet(C)
  <2>1. IsFiniteSet(1..Len(log))  BY <1>1, FS_Interval
  <2> QED BY <1>1, <2>1, FS_Subset
<1>3. Cardinality(C) \in Nat /\ Cardinality(C) # 0
  BY <1>1, <1>2, FS_CardinalityType, FS_EmptySet
<1>4. ~(Cardinality(C) > 1)  BY DEF Doubled, C
<1>5. Cardinality(C) = 1  BY <1>3, <1>4
<1>6. PICK x : C = {x}  BY <1>2, <1>5, FS_Singleton
<1> QED BY <1>1, <1>6 DEF C

\* A revert that succeeds puts back what the first of the reverted steps found
\* (RevertService.revert_run, revert_step).
THEOREM RestoresExactlyHolds == Spec => []RestoresExactly
<1>1. ASSUME IInv PROVE RestoresExactly
  <2> SUFFICES ASSUME NEW p \in RevertedPaths, ~Doubled(revert.run, FirstStep(p), p)
               PROVE  Restored(p)
    BY DEF RestoresExactly
  <2> DEFINE r == revert.run
             holding == {s \in revert.steps : p \in DOMAIN saved[r][s]}
             first == FirstStep(p)
  <2>1. TypeOK /\ SavedAsTracked /\ InOrder /\ OldestWritten  BY <1>1 DEF IInv
  <2>2. /\ revert.pc = "ended" /\ revert.outcome = "ok" /\ p \notin disturbed
        /\ p \in PathsOf(r, revert.steps)
    BY DEF RevertedPaths
  <2>3. r \in Runs /\ revert.steps \in SUBSET Steps  BY <2>1 DEF TypeOK, Revert
  <2>4. holding # {} /\ holding \in SUBSET (1..MaxSteps)
    BY <2>2, <2>3 DEF PathsOf, Steps
  <2>5. first = Min(holding)  BY DEF FirstStep
  <2> HIDE DEF first
  <2>6. first \in holding /\ \A t \in holding : first <= t
    <3> HIDE DEF holding
    <3> QED BY <2>4, <2>5, MinMax, ChangeAssumptions
  <2>7. DoneFor(p) = holding
    BY <2>1, <2>2 DEF InOrder, DoneFor, Names
  <2>8. p \in Paths
    BY <2>1, <2>3, <2>6, SavedType DEF TypeOK
  <2>9. files[p] = saved[r][first][p]
    BY <2>1, <2>2, <2>6, <2>7, <2>8 DEF OldestWritten, InOrder
  <2>10. first \in Steps /\ p \in DOMAIN saved[r][first]  BY <2>3, <2>6
  <2>11. saved[r][first] = PreStep(r, first)
    <3>1. saved[r][first] # Empty  BY <2>10, EmptyFacts
    <3> QED BY <2>1, <2>3, <2>10, <3>1 DEF SavedAsTracked
  <2>12. p \in Tracked(r, first) /\ saved[r][first][p] = log[Max(CallsFor(r, first, p))].before
    BY <2>10, <2>11 DEF PreStep
  <2>13. Max(CallsFor(r, first, p)) = Min(CallsFor(r, first, p))
    BY <2>1, <2>12, OneCall DEF TypeOK, first
  <2> QED BY <2>9, <2>12, <2>13 DEF Restored, Found, first
<1> QED BY <1>1, Invariance, PTL

===============================================================================
