--------------------------- MODULE WorkspaceProofs ---------------------------
(***************************************************************************)
(* No prepare and no cleanup loses a commit of the branch or a change in   *)
(* the tree, and no agent works in a tree that was left half created,      *)
(* for any number of runs, commits and faults.  And of the source cache: a *)
(* daemon gets a commit of the ref it asked for, keeps it, and is refused  *)
(* one only for a cause, for any number of daemons, refs and faults.       *)
(***************************************************************************)
EXTENDS Workspace, SourceCache, FiniteSetTheorems, TLAPS

-----------------------------------------------------------------------------
(* The types, without the bounds. *)
Shape ==
    /\ branched \in BOOLEAN /\ registered \in BOOLEAN
    /\ dir \in Dir /\ head \in {"branch", "detached"}
    /\ dirty \in BOOLEAN /\ reuse \in BOOLEAN
    /\ pc \in Step

(* Without a directory there is nothing in it; with one there is a branch. *)
Bare ==
    /\ dir = "none" => ~dirty /\ guard = "none"
    /\ ~branched => branch = {} /\ dir = "none"

(* From the look at the path to git worktree add nobody makes the directory, and a
   branch that is about to be moved stays within the source ref; from then on nobody
   else removes it. *)
Adding ==
    /\ pc \in {"register", "branch", "force", "add"} => dir = "none"
    /\ pc = "force" => branched /\ branch \subseteq base
    /\ pc \in {"guarded", "validate"} \cup WriteStep \cup {"running"}
              \cup (CleanupStep \ {"forget"}) => dir # "none"

(* A tree that was left half created has no guard, so prepare gets no further than the
   guard; one that was left half removed shows as dirty. *)
Guarded ==
    /\ pc \in {"guarded"} => existing # "none"
    /\ dir = "half_created" => guard = "none" /\ pc \in {"idle", "look", "guarded"}
    /\ dir = "half_removed" => dirty
    /\ dir = "half_removed" /\ pc \in {"write_guard", "write_meta", "hooks", "running"} => reuse

WorkspaceInv == Shape /\ Bare /\ Adding /\ Guarded

LEMMA WorkspaceInit == Init => WorkspaceInv
BY DEF Init, WorkspaceInv, Shape, Bare, Adding, Guarded, Dir, Step, PrepareStep, WriteStep,
       CleanupStep

LEMMA PrepareInv ==
    ASSUME WorkspaceInv, Prepare
    PROVE  WorkspaceInv'
<1> USE DEF WorkspaceInv, Shape, Bare, Adding, Guarded, Goto, gitVars, treeVars, callVars
<1> USE DEF Dir, Step, PrepareStep, WriteStep, CleanupStep
<1>1. CASE ReadMetadata
  BY <1>1 DEF ReadMetadata
<1>2. ASSUME NEW here \in {"look", "register", "force", "validate"}, GitThrows(here)
      PROVE  WorkspaceInv'
  BY <1>2 DEF GitThrows
<1>3. CASE PathMissing \/ PathExists
  BY <1>3 DEF PathMissing, PathExists
<1>4. CASE RemoveRegistration
  BY <1>4 DEF RemoveRegistration
<1>5. CASE FindBranch
  BY <1>5 DEF FindBranch
<1>6. CASE ForceBranch
  BY <1>6 DEF ForceBranch
<1>7. CASE AddWorktree
  BY <1>7 DEF AddWorktree, BranchAdded
<1>8. CASE AddWorktreeFails
  <2>1. CASE BranchAdded
    BY <1>8, <2>1 DEF AddWorktreeFails, BranchAdded
  <2>2. CASE UNCHANGED <<branched, branch>>
    BY <1>8, <2>2 DEF AddWorktreeFails
  <2> QED
    BY <1>8, <2>1, <2>2 DEF AddWorktreeFails
<1>9. CASE ValidateGuard
  BY <1>9 DEF ValidateGuard
<1>10. CASE ValidateWorktree
  BY <1>10 DEF ValidateWorktree, Reusable
<1>11. CASE WriteGuard \/ WriteGuardThrows
  BY <1>11 DEF WriteGuard, WriteGuardThrows
<1>12. CASE WriteMetadata \/ WriteMetadataThrows \/ HooksEnd \/ HooksThrow
  BY <1>12 DEF WriteMetadata, WriteMetadataThrows, HooksEnd, HooksThrow
<1> QED
  BY <1>1, <1>2, <1>3, <1>4, <1>5, <1>6, <1>7, <1>8, <1>9, <1>10, <1>11, <1>12
  DEF Prepare

LEMMA CleanupInv ==
    ASSUME WorkspaceInv, Cleanup
    PROVE  WorkspaceInv'
<1> USE DEF WorkspaceInv, Shape, Bare, Adding, Guarded, Goto, gitVars, treeVars, callVars
<1> USE DEF Dir, Step, PrepareStep, WriteStep, CleanupStep
<1>1. CASE CheckGuard
  BY <1>1 DEF CheckGuard
<1>2. CASE Inspect \/ InspectMisreads \/ GitThrows("inspect") \/ GitThrows("reinspect")
  BY <1>2 DEF Inspect, InspectMisreads, GitThrows
<1>3. CASE BeforeRemove \/ BeforeRemoveThrows \/ Reinspect
  BY <1>3 DEF BeforeRemove, BeforeRemoveThrows, Reinspect
<1>4. CASE RemoveWorktree
  BY <1>4 DEF RemoveWorktree, NoWorktree
<1>5. CASE RemoveWorktreeThrows \/ RemoveMetadata \/ RemoveMetadataThrows
  BY <1>5 DEF RemoveWorktreeThrows, RemoveMetadata, RemoveMetadataThrows
<1> QED
  BY <1>1, <1>2, <1>3, <1>4, <1>5 DEF Cleanup

LEMMA OthersInv ==
    ASSUME WorkspaceInv, RunEnds \/ Worker \/ People \/ Crash \/ UNCHANGED vars
    PROVE  WorkspaceInv'
<1> USE DEF WorkspaceInv, Shape, Bare, Adding, Guarded, gitVars, treeVars, callVars
<1> USE DEF Dir, Step, PrepareStep, WriteStep, CleanupStep
<1>1. CASE RunEnds
  BY <1>1 DEF RunEnds
<1>2. CASE Edit
  BY <1>2 DEF Edit, AtWork
<1>3. CASE CommitWork
  BY <1>3 DEF CommitWork, AtWork
<1>4. CASE Advance \/ Merge
  BY <1>4 DEF Advance, Merge
<1>5. CASE DeleteDirectory
  BY <1>5 DEF DeleteDirectory, NoWorktree
<1>6. CASE DeleteRegistration
  BY <1>6 DEF DeleteRegistration
<1>7. CASE Crash
  <2>1. pc' = "idle" /\ UNCHANGED callVars
    BY <1>7 DEF Crash
  <2>2. CASE UNCHANGED <<gitVars, treeVars, meta>>
    BY <2>1, <2>2
  <2>3. CASE HalfCreated
    BY <2>1, <2>3 DEF HalfCreated, BranchAdded
  <2>4. CASE HalfRemoved
    BY <2>1, <2>4 DEF HalfRemoved
  <2>5. CASE TornFile /\ UNCHANGED <<gitVars, dir, head, detached, dirty>>
    BY <2>1, <2>5 DEF TornFile
  <2> QED
    BY <1>7, <2>2, <2>3, <2>4, <2>5 DEF Crash
<1>8. CASE Detach
  BY <1>8 DEF Detach, AtWork
<1>9. CASE UNCHANGED vars
  BY <1>9 DEF vars
<1> QED
  BY <1>1, <1>2, <1>3, <1>4, <1>5, <1>6, <1>7, <1>8, <1>9 DEF Worker, People

LEMMA WorkspaceStep == WorkspaceInv /\ [Next]_vars => WorkspaceInv'
BY PrepareInv, CleanupInv, OthersInv DEF Next

-----------------------------------------------------------------------------
(* An agent works only in a tree that git has checked out completely, or that it was
   asked to reuse (validateReusableWorktree). *)
THEOREM WholeCheckout == Spec => []RunsInWholeCheckout
<1>1. WorkspaceInv => RunsInWholeCheckout
  BY DEF WorkspaceInv, Guarded, RunsInWholeCheckout
<1> QED
  BY WorkspaceInit, WorkspaceStep, <1>1, PTL DEF Spec

(* The steps of the daemon that move the branch or remove the tree; a crash in the
   middle of one comes under AddWorktree and RemoveWorktree. *)
LEMMA RefsStep ==
    ASSUME WorkspaceInv, Next, DaemonStep
    PROVE  base \cup branch \subseteq base' \cup branch'
<1> USE DEF gitVars, treeVars
<1>1. CASE FindBranch \/ ForceBranch
  BY <1>1 DEF FindBranch, ForceBranch, Goto, WorkspaceInv, Adding
<1>2. ASSUME BranchAdded, base' = base
      PROVE  base \cup branch \subseteq base' \cup branch'
  BY <1>2 DEF BranchAdded, WorkspaceInv, Bare
<1>3. CASE AddWorktree \/ AddWorktreeFails
  BY <1>2, <1>3 DEF AddWorktree, AddWorktreeFails
<1>4. CASE Crash
  BY <1>2, <1>4 DEF Crash, HalfCreated, HalfRemoved
<1>5. CASE Prepare
  <2>1. ASSUME NEW here \in {"look", "register", "force", "validate"}, GitThrows(here)
        PROVE  UNCHANGED <<base, branch>>
    BY <2>1 DEF GitThrows
  <2> QED
    BY <1>1, <1>3, <1>5, <2>1
       DEF Prepare, ReadMetadata, PathMissing, PathExists, RemoveRegistration, ValidateGuard,
           ValidateWorktree, WriteGuard, WriteGuardThrows, WriteMetadata,
           WriteMetadataThrows, HooksEnd, HooksThrow
<1>6. CASE Cleanup
  BY <1>6 DEF Cleanup, CheckGuard, Inspect, InspectMisreads, GitThrows, BeforeRemove,
              BeforeRemoveThrows, Reinspect, RemoveWorktree, RemoveWorktreeThrows,
              RemoveMetadata, RemoveMetadataThrows
<1>7. CASE RunEnds
  BY <1>7 DEF RunEnds
<1>8. ~Worker /\ ~People
  BY DEF DaemonStep, Worker, People, Edit, CommitWork, Detach, Advance, Merge,
         DeleteDirectory, DeleteRegistration
<1> QED
  BY <1>4, <1>5, <1>6, <1>7, <1>8 DEF Next

(* The daemon never makes a commit unreachable that was on the card's branch or on the
   source ref (moveReusableBranchToSourceRef, git worktree remove). *)
THEOREM KeepsRefs == Spec => RefsKept
<1>1. WorkspaceInv /\ [Next]_vars
        => [DaemonStep => base \cup branch \subseteq base' \cup branch']_vars
  BY RefsStep
<1> QED
  BY WorkspaceInit, WorkspaceStep, <1>1, PTL DEF Spec, RefsKept

LEMMA DirtyStep ==
    ASSUME WorkspaceInv, Next, DaemonStep, dirty
    PROVE  dirty' /\ dir' = dir
<1> USE DEF gitVars, treeVars
<1>1. CASE AddWorktree
  BY <1>1 DEF AddWorktree, Goto, WorkspaceInv, Bare, Adding
<1>2. CASE Crash
  BY <1>2 DEF Crash, HalfCreated, HalfRemoved, TornFile, WorkspaceInv, Bare, Adding
<1>3. CASE Prepare
  <2>1. ASSUME NEW here \in {"look", "register", "force", "validate"}, GitThrows(here)
        PROVE  UNCHANGED <<dir, dirty>>
    BY <2>1 DEF GitThrows
  <2> QED
    BY <1>1, <1>3, <2>1
       DEF Prepare, ReadMetadata, PathMissing, PathExists, RemoveRegistration, FindBranch,
           ForceBranch, AddWorktreeFails, ValidateGuard, ValidateWorktree, WriteGuard,
           WriteGuardThrows, WriteMetadata, WriteMetadataThrows, HooksEnd, HooksThrow
<1>4. CASE Cleanup
  BY <1>4 DEF Cleanup, CheckGuard, Inspect, InspectMisreads, GitThrows, BeforeRemove,
              BeforeRemoveThrows, Reinspect, RemoveWorktree, RemoveWorktreeThrows,
              RemoveMetadata, RemoveMetadataThrows
<1>5. CASE RunEnds
  BY <1>5 DEF RunEnds
<1>6. ~Worker /\ ~People
  BY DEF DaemonStep, Worker, People, Edit, CommitWork, Detach, Advance, Merge,
         DeleteDirectory, DeleteRegistration
<1> QED
  BY <1>2, <1>3, <1>4, <1>5, <1>6 DEF Next

(* Uncommitted changes survive whatever the daemon does, and a crash of it. *)
THEOREM KeepsDirty == Spec => DirtyKept
<1>1. WorkspaceInv /\ [Next]_vars => [DaemonStep /\ dirty => dirty' /\ dir' = dir]_vars
  BY DirtyStep
<1> QED
  BY WorkspaceInit, WorkspaceStep, <1>1, PTL DEF Spec, DirtyKept

-----------------------------------------------------------------------------
(* From the inspection of a worktree to its removal, what was merged then stays
   merged, and a commit made since then is none the inspection could see. *)
StaysMerged ==
    pc \in {"before_remove", "reinspect", "remove"} /\ baseRef = "named" /\ ~misread
        => Tip \cap 1..seen \subseteq base

MergedInv == /\ made \in Nat /\ seen \in Nat /\ seen <= made
             /\ head \in {"branch", "detached"}
             /\ StaysMerged

LEMMA MergedInit == Init => MergedInv
BY DEF Init, MergedInv, StaysMerged

LEMMA MergedStep == MergedInv /\ [Next]_vars => MergedInv'
<1> SUFFICES ASSUME MergedInv, [Next]_vars PROVE MergedInv'
  OBVIOUS
<1> USE DEF MergedInv, StaysMerged, Tip, Goto, gitVars, treeVars, histVars
<1>1. ASSUME NEW here \in {"look", "register", "force", "validate", "inspect", "reinspect"}, GitThrows(here)
      PROVE  MergedInv'
  BY <1>1 DEF GitThrows
<1>2. CASE Prepare
  <2>1. CASE RemoveRegistration \/ FindBranch \/ ForceBranch
    BY <2>1 DEF RemoveRegistration, FindBranch, ForceBranch
  <2>2. CASE AddWorktree \/ AddWorktreeFails
    BY <2>2 DEF AddWorktree, AddWorktreeFails
  <2> QED
    BY <1>1, <1>2, <2>1, <2>2
       DEF Prepare, ReadMetadata, PathMissing, PathExists, ValidateGuard, ValidateWorktree,
           WriteGuard, WriteGuardThrows, WriteMetadata, WriteMetadataThrows, HooksEnd, HooksThrow
<1>3. CASE Cleanup
  <2>1. CASE Inspect
    BY <2>1 DEF Inspect, CommitsAhead
  <2>2. CASE InspectMisreads
    BY <2>2 DEF InspectMisreads
  <2>3. CASE BeforeRemove \/ BeforeRemoveThrows \/ Reinspect
    BY <2>3 DEF BeforeRemove, BeforeRemoveThrows, Reinspect
  <2>4. CASE RemoveWorktree
    BY <2>4 DEF RemoveWorktree, NoWorktree
  <2> QED
    BY <1>1, <1>3, <2>1, <2>2, <2>3, <2>4
       DEF Cleanup, CheckGuard, RemoveWorktreeThrows, RemoveMetadata, RemoveMetadataThrows
<1>4. CASE RunEnds
  BY <1>4 DEF RunEnds
<1>5. CASE Worker
  <2>1. CASE CommitWork
    <3>1. made' \in Nat /\ seen <= made' /\ made' \notin 1..seen
      BY <2>1 DEF CommitWork
    <3>2. UNCHANGED <<base, head, baseRef, pc, seen, misread>> /\ Tip' = Tip \cup {made'}
      BY <2>1 DEF CommitWork
    <3> QED
      BY <3>1, <3>2 DEF CommitWork
  <2>2. CASE Edit
    BY <2>2 DEF Edit
  <2>3. CASE Detach
    BY <2>3 DEF Detach
  <2> QED
    BY <1>5, <2>1, <2>2, <2>3 DEF Worker
<1>6. CASE People
  BY <1>6 DEF People, Advance, Merge, DeleteDirectory, DeleteRegistration, NoWorktree
<1>7. CASE Crash
  <2>1. pc' = "idle" /\ UNCHANGED <<made, head, seen>>
    BY <1>7 DEF Crash, HalfCreated, HalfRemoved
  <2> QED
    BY <2>1
<1>8. CASE UNCHANGED vars
  BY <1>8 DEF vars
<1> QED
  BY <1>2, <1>3, <1>4, <1>5, <1>6, <1>7, <1>8 DEF Next

(* However agents, hooks and people commit, detach and merge between the inspection
   and the removal of a worktree (cleanupWorkspace), it takes no commit along that the
   inspection could see and that is not merged. *)
THEOREM RemovesMerged == Spec => MergedWhenRemoved
<1>1. MergedInv => [pc = "remove" /\ dir' = "none" /\ baseRef = "named" /\ ~misread
                      => Tip \cap 1..seen \subseteq base]_vars
  BY DEF MergedInv, StaysMerged
<1> QED
  BY MergedInit, MergedStep, <1>1, PTL DEF Spec, MergedWhenRemoved

-----------------------------------------------------------------------------
(* Until something fails, a directory has the guard and the metadata of one run, prepare
   goes by what the metadata say, and git has no entry for a path it is given. *)
InOrder ==
    /\ dir # "none" /\ pc \notin {"write_guard", "write_meta"} => guard = meta /\ meta \in Route
    /\ pc \in {"look", "guarded"} => existing = meta
    /\ pc \in {"branch", "force", "add"} => ~registered
    /\ pc = "write_meta" => guard = route
    /\ pc = "forget" => dir = "none"

OrderInv == WorkspaceInv /\ faults \in Nat /\ route \in Route /\ (faults = 0 => InOrder)

LEMMA OrderInit == Init => OrderInv
BY WorkspaceInit DEF Init, OrderInv, InOrder

LEMMA OrderStep == OrderInv /\ [Next]_vars => OrderInv'
<1> SUFFICES ASSUME OrderInv, [Next]_vars PROVE faults' \in Nat /\ route' \in Route /\ (faults' = 0 => InOrder')
  BY WorkspaceStep DEF OrderInv
<1>0. WorkspaceInv /\ faults \in Nat /\ route \in Route /\ (faults = 0 => InOrder)
  BY DEF OrderInv
<1> USE DEF Goto, gitVars, treeVars, callVars, histVars
<1>1. ASSUME NEW kind, Fault(kind) PROVE faults' \in Nat /\ faults' # 0
  BY <1>0, <1>1 DEF Fault
<1>2. ASSUME UNCHANGED faults, route' \in Route, InOrder => InOrder'
      PROVE  faults' \in Nat /\ route' \in Route /\ (faults' = 0 => InOrder')
  BY <1>0, <1>2
<1>3. ASSUME NEW here \in {"look", "register", "force", "validate", "inspect", "reinspect"}, GitThrows(here)
      PROVE  faults' \in Nat /\ faults' # 0 /\ route' = route
  BY <1>1, <1>3 DEF GitThrows
<1>4. CASE Prepare
  <2>1. CASE ReadMetadata
    BY <1>0, <1>2, <2>1 DEF ReadMetadata, InOrder
  <2>2. CASE PathMissing \/ PathExists
    BY <1>0, <1>2, <2>2 DEF PathMissing, PathExists, InOrder
  <2>3. CASE RemoveRegistration \/ FindBranch \/ ForceBranch
    BY <1>0, <1>2, <2>3 DEF RemoveRegistration, FindBranch, ForceBranch, InOrder
  <2>4. CASE AddWorktree
    BY <1>0, <1>2, <2>4 DEF AddWorktree, InOrder
  <2>5. CASE AddWorktreeFails
    BY <1>0, <1>1, <1>2, <2>5 DEF AddWorktreeFails, InOrder, WorkspaceInv, Adding
  <2>6. CASE ValidateGuard \/ ValidateWorktree
    BY <1>0, <1>2, <2>6 DEF ValidateGuard, ValidateWorktree, InOrder
  <2>7. CASE WriteGuard \/ WriteMetadata
    BY <1>0, <1>2, <2>7 DEF WriteGuard, WriteMetadata, InOrder
  <2>8. CASE WriteGuardThrows \/ WriteMetadataThrows \/ HooksThrow
    BY <1>0, <1>1, <2>8 DEF WriteGuardThrows, WriteMetadataThrows, HooksThrow
  <2>9. CASE HooksEnd
    BY <1>0, <1>2, <2>9 DEF HooksEnd, InOrder
  <2> QED
    BY <1>0, <1>3, <1>4, <2>1, <2>2, <2>3, <2>4, <2>5, <2>6, <2>7, <2>8, <2>9 DEF Prepare
<1>5. CASE Cleanup
  <2>1. CASE CheckGuard \/ Inspect \/ BeforeRemove \/ Reinspect
    BY <1>0, <1>2, <2>1 DEF CheckGuard, Inspect, BeforeRemove, Reinspect, InOrder
  <2>2. CASE InspectMisreads \/ BeforeRemoveThrows \/ RemoveMetadataThrows
    BY <1>0, <1>1, <2>2 DEF InspectMisreads, BeforeRemoveThrows, RemoveMetadataThrows
  <2>3. CASE RemoveWorktree
    BY <1>0, <1>2, <2>3 DEF RemoveWorktree, NoWorktree, InOrder
  <2>4. CASE RemoveWorktreeThrows
    BY <1>0, <1>1, <1>2, <2>4 DEF RemoveWorktreeThrows, InOrder
  <2>5. CASE RemoveMetadata
    BY <1>0, <1>2, <2>5 DEF RemoveMetadata, InOrder
  <2> QED
    BY <1>0, <1>3, <1>5, <2>1, <2>2, <2>3, <2>4, <2>5 DEF Cleanup
<1>6. CASE RunEnds
  BY <1>0, <1>1, <1>2, <1>6 DEF RunEnds, InOrder
<1>7. CASE Worker
  BY <1>0, <1>2, <1>7 DEF Worker, Edit, CommitWork, Detach, AtWork, InOrder
<1>8. CASE People
  BY <1>0, <1>2, <1>8 DEF People, Advance, Merge, DeleteDirectory, DeleteRegistration, NoWorktree, InOrder
<1>9. CASE Crash
  BY <1>0, <1>1, <1>9 DEF Crash
<1>10. CASE UNCHANGED vars
  BY <1>0, <1>10 DEF vars, InOrder
<1> QED
  BY <1>4, <1>5, <1>6, <1>7, <1>8, <1>9, <1>10 DEF Next

LEMMA Refusals ==
    ASSUME OrderInv, [Next]_vars, faults' = 0, pc \in PrepareStep, pc' = "idle"
    PROVE  Disturbed
<1> USE DEF Goto, PrepareStep
<1>0. WorkspaceInv /\ faults \in Nat
  BY DEF OrderInv
<1>1. \A kind : ~Fault(kind)
  BY <1>0 DEF Fault
<1>2. faults = 0 /\ InOrder
  <2>1. faults' = faults \/ \E kind : Fault(kind)
    BY DEF Next, Prepare, Cleanup, Worker, People, ReadMetadata, GitThrows, PathMissing, PathExists,
           RemoveRegistration, FindBranch, ForceBranch, AddWorktree, AddWorktreeFails, ValidateGuard,
           ValidateWorktree, WriteGuard, WriteGuardThrows, WriteMetadata, WriteMetadataThrows,
           HooksEnd, HooksThrow, RunEnds, CheckGuard, Inspect, InspectMisreads, BeforeRemove,
           BeforeRemoveThrows, Reinspect, RemoveWorktree, RemoveWorktreeThrows, RemoveMetadata,
           RemoveMetadataThrows, Edit, CommitWork, Detach, Advance, Merge, DeleteDirectory,
           DeleteRegistration, Crash, vars
  <2> QED
    BY <1>1, <2>1 DEF OrderInv
<1>3. CASE PathExists
  <2>1. existing = meta /\ meta \in Route
    BY <1>2, <1>3 DEF PathExists, InOrder
  <2> QED
    BY <1>3, <2>1, WorkspaceAssumption DEF PathExists
<1>4. CASE FindBranch
  BY <1>4 DEF FindBranch, Disturbed
<1>5. CASE AddWorktreeFails
  BY <1>1, <1>2, <1>5 DEF AddWorktreeFails, InOrder
<1>6. CASE ValidateGuard
  BY <1>0, <1>2, <1>6 DEF ValidateGuard, InOrder, WorkspaceInv, Adding
<1>7. CASE ValidateWorktree
  BY <1>0, <1>7 DEF ValidateWorktree, Reusable, Disturbed, WorkspaceInv, Shape, Adding
<1>8. PathExists \/ FindBranch \/ AddWorktreeFails \/ ValidateGuard \/ ValidateWorktree
  <2>1. CASE Prepare
    BY <1>1, <2>1 DEF Prepare, ReadMetadata, GitThrows, PathMissing, RemoveRegistration, ForceBranch,
                      AddWorktree, WriteGuard, WriteGuardThrows, WriteMetadata,
                      WriteMetadataThrows, HooksEnd, HooksThrow
  <2>2. ~Cleanup /\ ~RunEnds
    BY DEF Cleanup, RunEnds, CheckGuard, Inspect, InspectMisreads, GitThrows, BeforeRemove,
           BeforeRemoveThrows, Reinspect, RemoveWorktree, RemoveWorktreeThrows, RemoveMetadata,
           RemoveMetadataThrows
  <2>3. ~Worker /\ ~People /\ ~UNCHANGED vars
    BY DEF Worker, People, Edit, CommitWork, Detach, Advance, Merge, DeleteDirectory,
           DeleteRegistration, vars
  <2>4. ~Crash
    BY <1>1 DEF Crash
  <2> QED
    BY <2>1, <2>2, <2>3, <2>4 DEF Next
<1> QED
  BY <1>3, <1>4, <1>5, <1>6, <1>7, <1>8

(* As long as nothing has failed, prepareWorkspace refuses a workspace for no other reason
   than what an agent or a person did to it, over any number of runs and routes. *)
THEOREM RefusesForCause == Spec => RefusedForCause
<1>1. OrderInv /\ [Next]_vars => [faults' = 0 /\ pc \in PrepareStep /\ pc' = "idle" => Disturbed]_vars
  BY Refusals
<1> QED
  BY OrderInit, OrderStep, <1>1, PTL DEF Spec, RefusedForCause

(***************************************************************************)
(* The source cache a workspace is prepared from: what is resolved was     *)
(* fetched for the ref that was asked for, stays in the repository it was  *)
(* resolved in, and a resolution that fails has a cause.                   *)
(***************************************************************************)

Repo == [objects : SUBSET Nat, fetched : Seq(Nat), lock : Daemon \cup {Free, Stale}]
Job  == [card : Card \cup {"none"}, source : Source \cup {"none"},
         where : {"none", "cache", "around"}, commit : Nat, at : Nat]

AfterCache == {"preflight", "claim", "prepare"}

(* The types, without the bounds; a resolution has a source.               *)
SourceTypes ==
    /\ remote \in [Ref -> Nat]
    /\ commits \in Nat
    /\ cacheDir \in {"none", "empty", "unborn", "whole"}
    /\ repo \in [{"cache", "around"} -> Repo]
    /\ command \in [Daemon -> {"idle"} \cup AtCache \cup AfterCache]
    /\ job \in [Daemon -> Job]
    /\ clock \in Nat
    /\ during \in [Daemon -> SUBSET Nat]
    /\ crossed \in [Daemon -> BOOLEAN]
    /\ disturbed \in [Daemon -> BOOLEAN]
    /\ removed \in [Daemon -> BOOLEAN]
    /\ \A d \in Daemon : command[d] # "idle" => job[d].source \in Source

DaemonActs(d) ==
    \/ \E k \in Card, s \in Source : Look(d, k, s)
    \/ Resolve(d) \/ Preflight(d) \/ Claim(d) \/ PrepareWorkspace(d)
    \/ Fails(d) \/ Killed(d)

LEMMA NoJobType == NoJob \in Job
BY DEF NoJob, Job, Gone

LEMMA RefForType ==
    ASSUME SourceTypes, NEW d \in Daemon, command[d] # "idle"
    PROVE  RefFor(d) \in Ref /\ remote[RefFor(d)] \in Nat
BY SourceCacheAssumption DEF SourceTypes, RefFor

LEMMA FoundType ==
    ASSUME SourceTypes
    PROVE  Found \in {"none", "cache", "around"}
BY DEF SourceTypes, Found

LEMMA SourceTypesInit == SourceInit => SourceTypes
<1> SUFFICES ASSUME SourceInit PROVE SourceTypes
    OBVIOUS
<1>1. remote \in [Ref -> Nat]
    BY DEF SourceInit, Revision
<1>2. commits \in Nat
  <2>1. IsFiniteSet(1..MaxRevisions)
      BY FS_Interval, SourceCacheAssumption
  <2>2. {remote[r] : r \in Ref} \subseteq 1..MaxRevisions
      BY DEF SourceInit, Revision
  <2>. QED BY <2>1, <2>2, FS_Subset, FS_CardinalityType DEF SourceInit
<1>3. repo \in [{"cache", "around"} -> Repo]
  <2>1. NoRepo \in Repo
      BY DEF NoRepo, Repo
  <2>2. 1..commits \in SUBSET Nat
      BY <1>2
  <2>3. [NoRepo EXCEPT !.objects = 1..commits] \in Repo
      BY <2>1, <2>2 DEF Repo
  <2>. QED BY <2>1, <2>3 DEF SourceInit
<1>4. cacheDir \in {"none", "empty", "unborn", "whole"} /\ clock \in Nat
    BY DEF SourceInit
<1>5. /\ command \in [Daemon -> {"idle"} \cup AtCache \cup AfterCache]
      /\ job \in [Daemon -> Job]
      /\ during \in [Daemon -> SUBSET Nat]
      /\ crossed \in [Daemon -> BOOLEAN]
      /\ disturbed \in [Daemon -> BOOLEAN]
      /\ removed \in [Daemon -> BOOLEAN]
      /\ \A d \in Daemon : command[d] = "idle"
    BY NoJobType DEF SourceInit
<1>. QED BY <1>1, <1>2, <1>3, <1>4, <1>5 DEF SourceTypes

LEMMA GivesUpTypes ==
    ASSUME SourceTypes, NEW d \in Daemon, GivesUp(d)
    PROVE  /\ command' \in [Daemon -> {"idle"} \cup AtCache \cup AfterCache]
           /\ job' \in [Daemon -> Job]
           /\ \A e \in Daemon : command'[e] # "idle" =>
                  command[e] # "idle" /\ job'[e].source = job[e].source
BY NoJobType DEF GivesUp, To, SourceTypes

LEMMA ToTypes ==
    ASSUME SourceTypes, NEW d \in Daemon, NEW step \in AtCache \cup AfterCache, To(d, step),
           job' \in [Daemon -> Job], command[d] # "idle",
           \A e \in Daemon : job'[e].source = job[e].source
    PROVE  /\ command' \in [Daemon -> {"idle"} \cup AtCache \cup AfterCache]
           /\ \A e \in Daemon : command'[e] # "idle" =>
                  command[e] # "idle" /\ job'[e].source = job[e].source
BY DEF To, SourceTypes

LEMMA LockTypes ==
    ASSUME SourceTypes, NEW r \in {"cache", "around"},
           NEW x \in Daemon \cup {Free, Stale}
    PROVE  [repo EXCEPT ![r].lock = x] \in [{"cache", "around"} -> Repo]
<1>1. repo \in [{"cache", "around"} -> Repo]
    BY DEF SourceTypes
<1>2. [repo[r] EXCEPT !.lock = x] \in Repo
    BY <1>1 DEF Repo
<1>. QED BY <1>1, <1>2

LEMMA UnlocksTypes ==
    ASSUME SourceTypes, NEW d \in Daemon, Unlocks(d)
    PROVE  repo' \in [{"cache", "around"} -> Repo]
<1>1. repo \in [{"cache", "around"} -> Repo]
    BY DEF SourceTypes
<1>2. \A r \in {"cache", "around"} : [repo[r] EXCEPT !.lock = Free] \in Repo
    BY <1>1 DEF Repo
<1>. QED BY <1>1, <1>2 DEF Unlocks

(* What a step of a resolution, up to its end, says of the history.        *)
LEMMA MeetsTypes ==
    ASSUME SourceTypes, NEW d \in Daemon, Meets(d) \/ disturbed' = [disturbed EXCEPT ![d] = TRUE]
    PROVE  disturbed' \in [Daemon -> BOOLEAN]
BY DEF SourceTypes, Meets

(* What the steps of a resolution leave as it is.                          *)
LEMMA RestTypes ==
    ASSUME SourceTypes, NEW d \in Daemon,
           Calm \/ CommandFault(d) \/ UNCHANGED <<remoteVars, clock>>,
           cacheDir' \in {"none", "empty", "unborn", "whole"},
           repo' \in [{"cache", "around"} -> Repo],
           command' \in [Daemon -> {"idle"} \cup AtCache \cup AfterCache],
           job' \in [Daemon -> Job],
           during' \in [Daemon -> SUBSET Nat], crossed' \in [Daemon -> BOOLEAN],
           disturbed' \in [Daemon -> BOOLEAN], removed' \in [Daemon -> BOOLEAN],
           \A e \in Daemon : command'[e] # "idle" =>
               command[e] # "idle" /\ job'[e].source = job[e].source
    PROVE  SourceTypes'
BY DEF SourceTypes, Calm, CommandFault, remoteVars

LEMMA TakesTypes ==
    ASSUME SourceTypes, NEW d \in Daemon, Takes(d) \/ UNCHANGED removed
    PROVE  removed' \in [Daemon -> BOOLEAN]
BY DEF SourceTypes, Takes

LEMMA WhereTypes ==
    ASSUME SourceTypes, NEW d \in Daemon, NEW r \in {"none", "cache", "around"},
           job' = [job EXCEPT ![d].where = r]
    PROVE  /\ job' \in [Daemon -> Job]
           /\ \A e \in Daemon : job'[e].source = job[e].source
<1>1. job \in [Daemon -> Job]
    BY DEF SourceTypes
<1>2. [job[d] EXCEPT !.where = r] \in Job
    BY <1>1 DEF Job
<1>3. job' = [job EXCEPT ![d] = [job[d] EXCEPT !.where = r]]
    BY <1>1
<1>4. [job[d] EXCEPT !.where = r].source = job[d].source
    BY <1>1 DEF Job
<1>. QED BY <1>1, <1>2, <1>3, <1>4

LEMMA LocksTypes ==
    ASSUME SourceTypes, NEW d \in Daemon, NEW step \in AtCache, NEW next \in AtCache,
           step # "idle", Locks(d, step, next)
    PROVE  SourceTypes'
<1>1. Found \in {"none", "cache", "around"}
    BY FoundType
<1>2. disturbed' \in [Daemon -> BOOLEAN]
    BY MeetsTypes DEF Locks
<1>3. CASE Found # "none" /\ repo[Found].lock = Free
  <2>1. repo' \in [{"cache", "around"} -> Repo]
    <3>1. Found \in {"cache", "around"} /\ repo' = [repo EXCEPT ![Found].lock = d]
        BY <1>1, <1>3 DEF Locks
    <3>. QED BY <3>1, LockTypes
  <2>2. job' = [job EXCEPT ![d].where = Found] /\ To(d, next)
      BY <1>3 DEF Locks
  <2>3. job' \in [Daemon -> Job] /\ \A e \in Daemon : job'[e].source = job[e].source
      BY <1>1, <2>2, WhereTypes
  <2>4. command[d] # "idle"
      BY DEF Locks
  <2>5. /\ command' \in [Daemon -> {"idle"} \cup AtCache \cup AfterCache]
        /\ \A e \in Daemon : command'[e] # "idle" =>
               command[e] # "idle" /\ job'[e].source = job[e].source
      BY <2>2, <2>3, <2>4, ToTypes
  <2>. QED BY <1>2, <2>1, <2>3, <2>5, RestTypes DEF Locks, SourceTypes
<1>4. CASE ~(Found # "none" /\ repo[Found].lock = Free)
  <2>1. GivesUp(d) /\ UNCHANGED repo
      BY <1>4 DEF Locks
  <2>. QED BY <1>2, <2>1, GivesUpTypes, RestTypes DEF Locks, SourceTypes
<1>. QED BY <1>3, <1>4

LEMMA NextTypes == SourceTypes /\ [SourceNext]_sourceVars => SourceTypes'
<1> SUFFICES ASSUME SourceTypes, [SourceNext]_sourceVars PROVE SourceTypes'
    OBVIOUS
<1>0. Found \in {"none", "cache", "around"}
    BY FoundType
<1>1. ASSUME NEW d \in Daemon, NEW k \in Card, NEW s \in Source, Look(d, k, s)
      PROVE  SourceTypes'
  <2>1. [NoJob EXCEPT !.card = k, !.source = s] \in Job
      BY NoJobType DEF Job
  <2>2. /\ job' \in [Daemon -> Job]
        /\ job'[d].source = s
        /\ \A e \in Daemon \ {d} : job'[e] = job[e]
      BY <1>1, <2>1 DEF Look, SourceTypes, NoJob
  <2>3. /\ command' \in [Daemon -> {"idle"} \cup AtCache \cup AfterCache]
        /\ \A e \in Daemon \ {d} : command'[e] = command[e]
      BY <1>1 DEF Look, To, SourceTypes, AtCache
  <2>4. clock' \in Nat
      BY <1>1 DEF Look, SourceTypes
  <2>5. disturbed' \in [Daemon -> BOOLEAN]
    <3>1. disturbed \in [Daemon -> BOOLEAN]
        BY DEF SourceTypes
    <3>. QED BY <1>1, <3>1 DEF Look
  <2>6. removed' \in [Daemon -> BOOLEAN]
      BY <1>1 DEF Look, SourceTypes
  <2>. QED BY <1>1, <2>2, <2>3, <2>4, <2>5, <2>6 DEF Look, SourceTypes, remoteVars
<1>2. ASSUME NEW d \in Daemon, Clone(d) PROVE SourceTypes'
  <2>1. disturbed' \in [Daemon -> BOOLEAN]
      BY <1>2, MeetsTypes DEF Clone
  <2>2. CASE cacheDir = "none"
    <3>1. To(d, "cloning") /\ UNCHANGED job /\ cacheDir' = "empty" /\ command[d] # "idle"
        BY <1>2, <2>2 DEF Clone
    <3>2. /\ command' \in [Daemon -> {"idle"} \cup AtCache \cup AfterCache]
          /\ job' \in [Daemon -> Job]
          /\ \A e \in Daemon : command'[e] # "idle" =>
                 command[e] # "idle" /\ job'[e].source = job[e].source
        BY <3>1 DEF To, SourceTypes, AtCache
    <3>. QED BY <1>2, <2>1, <3>1, <3>2, RestTypes DEF Clone, SourceTypes
  <2>3. CASE cacheDir # "none"
    <3>1. GivesUp(d) /\ UNCHANGED cacheDir
        BY <1>2, <2>3 DEF Clone
    <3>. QED BY <1>2, <2>1, <3>1, GivesUpTypes, RestTypes DEF Clone, SourceTypes
  <2>. QED BY <2>2, <2>3
<1>3. ASSUME NEW d \in Daemon, CloneInits(d) PROVE SourceTypes'
  <2>1. disturbed' \in [Daemon -> BOOLEAN] /\ removed' \in [Daemon -> BOOLEAN]
      BY <1>3, MeetsTypes, TakesTypes DEF CloneInits
  <2>2. repo' \in [{"cache", "around"} -> Repo]
      BY <1>3 DEF CloneInits, SourceTypes, NoRepo, Repo
  <2>. QED BY <1>3, <2>1, <2>2, RestTypes DEF CloneInits, SourceTypes
<1>4. ASSUME NEW d \in Daemon, Cloned(d) PROVE SourceTypes'
  <2>1. disturbed' \in [Daemon -> BOOLEAN]
      BY <1>4, MeetsTypes DEF Cloned
  <2>2. repo' \in [{"cache", "around"} -> Repo]
    <3>1. repo \in [{"cache", "around"} -> Repo]
        BY DEF SourceTypes
    <3>2. {remote[r] : r \in Ref} \ {Gone} \in SUBSET Nat
        BY DEF SourceTypes
    <3>3. ASSUME NEW more \in SUBSET Nat
          PROVE  [repo["cache"] EXCEPT !.objects = @ \cup more] \in Repo
        BY <3>1 DEF Repo
    <3>4. [repo["cache"] EXCEPT !.objects = @ \cup ({remote[r] : r \in Ref} \ {Gone})] \in Repo
        BY <3>2, <3>3
    <3>. QED BY <1>4, <3>1, <3>4 DEF Cloned
  <2>3. CASE repo["cache"].lock = Free
    <3>1. To(d, "reset") /\ UNCHANGED job /\ cacheDir' = "whole" /\ command[d] # "idle"
        BY <1>4, <2>3 DEF Cloned
    <3>2. /\ command' \in [Daemon -> {"idle"} \cup AtCache \cup AfterCache]
          /\ job' \in [Daemon -> Job]
          /\ \A e \in Daemon : command'[e] # "idle" =>
                 command[e] # "idle" /\ job'[e].source = job[e].source
        BY <3>1 DEF To, SourceTypes, AtCache
    <3>. QED BY <1>4, <2>1, <2>2, <3>1, <3>2, RestTypes DEF Cloned, SourceTypes
  <2>4. CASE repo["cache"].lock # Free
    <3>1. GivesUp(d) /\ UNCHANGED cacheDir
        BY <1>4, <2>4 DEF Cloned
    <3>. QED BY <1>4, <2>1, <2>2, <3>1, GivesUpTypes, RestTypes DEF Cloned, SourceTypes
  <2>. QED BY <2>3, <2>4
<1>5. ASSUME NEW d \in Daemon, CloneFails(d) PROVE SourceTypes'
  <2>1. disturbed' \in [Daemon -> BOOLEAN] /\ removed' \in [Daemon -> BOOLEAN]
      BY <1>5, TakesTypes DEF CloneFails, SourceTypes
  <2>2. repo' \in [{"cache", "around"} -> Repo]
      BY <1>5 DEF CloneFails, SourceTypes, NoRepo, Repo
  <2>3. command' \in [Daemon -> {"idle"} \cup AtCache \cup AfterCache]
        /\ \A e \in Daemon : command'[e] # "idle" => e # d /\ command[e] # "idle"
      BY <1>5 DEF CloneFails, To, SourceTypes
  <2>4. \A e \in Daemon : job'[e] \in Job /\ (e # d => job'[e].source = job[e].source)
    <3> SUFFICES ASSUME NEW e \in Daemon
                 PROVE  job'[e] \in Job /\ (e # d => job'[e].source = job[e].source)
        OBVIOUS
    <3>1. job[e] \in Job
        BY DEF SourceTypes
    <3>2. job'[e] = IF e = d THEN NoJob
                    ELSE IF job[e].where = "cache" THEN [job[e] EXCEPT !.where = "none"]
                    ELSE job[e]
        BY <1>5 DEF CloneFails
    <3>. QED BY <3>1, <3>2, NoJobType DEF Job
  <2>5. job' \in [Daemon -> Job]
      BY <1>5, <2>4 DEF CloneFails
  <2>. QED BY <1>5, <2>1, <2>2, <2>3, <2>4, <2>5, RestTypes DEF CloneFails, SourceTypes
<1>6. ASSUME NEW d \in Daemon, AssertGitRepository(d) PROVE SourceTypes'
  <2>1. disturbed' \in [Daemon -> BOOLEAN]
      BY <1>6, MeetsTypes DEF AssertGitRepository
  <2>2. CASE Found # "none"
    <3>1. To(d, "reset") /\ UNCHANGED job /\ command[d] # "idle"
        BY <1>6, <2>2 DEF AssertGitRepository
    <3>2. /\ command' \in [Daemon -> {"idle"} \cup AtCache \cup AfterCache]
          /\ job' \in [Daemon -> Job]
          /\ \A e \in Daemon : command'[e] # "idle" =>
                 command[e] # "idle" /\ job'[e].source = job[e].source
        BY <3>1 DEF To, SourceTypes, AtCache
    <3>. QED BY <1>6, <2>1, <3>1, <3>2, RestTypes DEF AssertGitRepository, SourceTypes
  <2>3. CASE Found = "none"
    <3>1. GivesUp(d)
        BY <1>6, <2>3 DEF AssertGitRepository
    <3>. QED BY <1>6, <2>1, <3>1, GivesUpTypes, RestTypes DEF AssertGitRepository, SourceTypes
  <2>. QED BY <2>2, <2>3
<1>7. ASSUME NEW d \in Daemon, Reset(d) PROVE SourceTypes'
    BY <1>7, LocksTypes DEF Reset, AtCache
<1>8. ASSUME NEW d \in Daemon, ResetEnds(d) PROVE SourceTypes'
  <2>1. disturbed' \in [Daemon -> BOOLEAN] /\ repo' \in [{"cache", "around"} -> Repo]
      BY <1>8, MeetsTypes, UnlocksTypes DEF ResetEnds
  <2>2. CASE job[d].where = "none"
    <3>1. GivesUp(d)
        BY <1>8, <2>2 DEF ResetEnds
    <3>. QED BY <1>8, <2>1, <3>1, GivesUpTypes, RestTypes DEF ResetEnds, SourceTypes
  <2>3. CASE job[d].where # "none"
    <3>1. job' = [job EXCEPT ![d].where = "none"] /\ To(d, "fetch") /\ command[d] # "idle"
        BY <1>8, <2>3 DEF ResetEnds, Leaves
    <3>2. job' \in [Daemon -> Job] /\ \A e \in Daemon : job'[e].source = job[e].source
        BY <3>1, WhereTypes
    <3>3. "fetch" \in AtCache
        BY DEF AtCache
    <3>. QED BY <1>8, <2>1, <3>1, <3>2, <3>3, ToTypes, RestTypes DEF ResetEnds, SourceTypes
  <2>. QED BY <2>2, <2>3
<1>9. ASSUME NEW d \in Daemon, Fetch(d) PROVE SourceTypes'
  <2>1. disturbed' \in [Daemon -> BOOLEAN]
      BY <1>9, MeetsTypes DEF Fetch
  <2>2. CASE Found = "none"
    <3>1. GivesUp(d) /\ UNCHANGED <<repo, during, crossed>>
        BY <1>9, <2>2 DEF Fetch
    <3>. QED BY <1>9, <2>1, <3>1, GivesUpTypes, RestTypes DEF Fetch, SourceTypes
  <2>3. CASE Found # "none"
    <3>1. job' = [job EXCEPT ![d].where = Found] /\ To(d, "fetching") /\ command[d] # "idle"
        BY <1>9, <2>3 DEF Fetch
    <3>2. job' \in [Daemon -> Job] /\ \A e \in Daemon : job'[e].source = job[e].source
        BY <1>0, <3>1, WhereTypes
    <3>3. "fetching" \in AtCache
        BY DEF AtCache
    <3>4. repo' \in [{"cache", "around"} -> Repo]
      <4>1. repo \in [{"cache", "around"} -> Repo]
          BY DEF SourceTypes
      <4>2. [repo[Found] EXCEPT !.fetched = <<>>] \in Repo
        <5>1. repo[Found] \in Repo /\ <<>> \in Seq(Nat)
            BY <1>0, <2>3, <4>1
        <5>2. ASSUME NEW x \in Repo, NEW f \in Seq(Nat)
              PROVE  [x EXCEPT !.fetched = f] \in Repo
            BY DEF Repo
        <5>. QED BY <5>1, <5>2
      <4>. QED BY <1>9, <2>3, <4>1, <4>2 DEF Fetch
    <3>5. during' \in [Daemon -> SUBSET Nat]
      <4>1. remote[RefFor(d)] \in Nat
          BY <3>1, RefForType
      <4>2. during' = [during EXCEPT ![d] = {remote[RefFor(d)]} \ {Gone}]
          BY <1>9, <2>3, Zenon DEF Fetch
      <4>3. during \in [Daemon -> SUBSET Nat]
          BY DEF SourceTypes
      <4>. QED BY <4>1, <4>2, <4>3
    <3>6. crossed' \in [Daemon -> BOOLEAN]
      <4>1. crossed' = [e \in Daemon |->
                 IF e = d THEN \E o \in Daemon \ {d} : command[o] \in Fetching
                 ELSE crossed[e] \/ command[e] \in Fetching]
          BY <1>9, <2>3, Zenon DEF Fetch
      <4>. QED BY <4>1, Zenon
    <3>. QED BY <1>9, <2>1, <3>1, <3>2, <3>3, <3>4, <3>5, <3>6, ToTypes, RestTypes
             DEF Fetch, SourceTypes
  <2>. QED BY <2>2, <2>3
<1>10. ASSUME NEW d \in Daemon, FetchEnds(d) PROVE SourceTypes'
  <2>1. disturbed' \in [Daemon -> BOOLEAN] /\ command[d] # "idle"
      BY <1>10, MeetsTypes DEF FetchEnds
  <2>2. CASE job[d].where = "none" \/ remote[RefFor(d)] = Gone
    <3>1. GivesUp(d) /\ UNCHANGED repo
        BY <1>10, <2>2 DEF FetchEnds
    <3>. QED BY <1>10, <2>1, <3>1, GivesUpTypes, RestTypes DEF FetchEnds, SourceTypes
  <2>3. CASE ~(job[d].where = "none" \/ remote[RefFor(d)] = Gone)
    <3> DEFINE r == job[d].where
               c == remote[RefFor(d)]
    <3>1. job' = [job EXCEPT ![d].where = "none"] /\ To(d, "parse")
        BY <1>10, <2>3 DEF FetchEnds, Leaves
    <3>2. job' \in [Daemon -> Job] /\ \A e \in Daemon : job'[e].source = job[e].source
        BY <3>1, WhereTypes
    <3>3. "parse" \in AtCache
        BY DEF AtCache
    <3>4. repo' \in [{"cache", "around"} -> Repo]
      <4>1. repo \in [{"cache", "around"} -> Repo] /\ r \in {"cache", "around"}
          BY <2>3 DEF SourceTypes, Job
      <4>2. c \in Nat
          BY <2>1, RefForType
      <4>3. repo' = [repo EXCEPT ![r] = [repo[r] EXCEPT !.fetched = Append(@, c),
                                                        !.objects = @ \cup {c}]]
          BY <1>10, <2>3, <4>1 DEF FetchEnds
      <4> HIDE DEF c, r
      <4>4. [repo[r] EXCEPT !.fetched = Append(@, c), !.objects = @ \cup {c}] \in Repo
        <5>1. /\ repo[r] \in Repo
              /\ Append(repo[r].fetched, c) \in Seq(Nat)
              /\ repo[r].objects \cup {c} \in SUBSET Nat
            BY <4>1, <4>2 DEF Repo
        <5>2. ASSUME NEW x \in Repo, NEW f \in Seq(Nat), NEW o \in SUBSET Nat
              PROVE  [x EXCEPT !.fetched = f, !.objects = o] \in Repo
            BY DEF Repo
        <5>. QED BY <5>1, <5>2
      <4>. QED BY <4>1, <4>3, <4>4
    <3>. QED BY <1>10, <2>1, <3>1, <3>2, <3>3, <3>4, ToTypes, RestTypes
             DEF FetchEnds, SourceTypes
  <2>. QED BY <2>2, <2>3
<1>11. ASSUME NEW d \in Daemon, Parse(d) PROVE SourceTypes'
  <2>1. disturbed' \in [Daemon -> BOOLEAN]
      BY <1>11, MeetsTypes DEF Parse
  <2>2. CASE Found = "none" \/ repo[Found].fetched = <<>>
    <3>1. GivesUp(d)
        BY <1>11, <2>2 DEF Parse
    <3>. QED BY <1>11, <2>1, <3>1, GivesUpTypes, RestTypes DEF Parse, SourceTypes
  <2>3. CASE ~(Found = "none" \/ repo[Found].fetched = <<>>)
    <3>1. /\ job' = [job EXCEPT ![d].commit = Head(repo[Found].fetched)]
          /\ To(d, "checkout") /\ command[d] # "idle"
        BY <1>11, <2>3 DEF Parse
    <3>2. Head(repo[Found].fetched) \in Nat
        BY <1>0, <2>3 DEF SourceTypes, Repo
    <3>3. job' \in [Daemon -> Job] /\ \A e \in Daemon : job'[e].source = job[e].source
      <4>1. job \in [Daemon -> Job]
          BY DEF SourceTypes
      <4>2. ASSUME NEW c \in Nat
            PROVE  /\ [job[d] EXCEPT !.commit = c] \in Job
                   /\ [job[d] EXCEPT !.commit = c].source = job[d].source
          BY <4>1 DEF Job
      <4>. QED BY <3>1, <3>2, <4>1, <4>2
    <3>4. "checkout" \in AtCache
        BY DEF AtCache
    <3>. QED BY <1>11, <2>1, <3>1, <3>3, <3>4, ToTypes, RestTypes DEF Parse, SourceTypes
  <2>. QED BY <2>2, <2>3
<1>12. ASSUME NEW d \in Daemon, Checkout(d) PROVE SourceTypes'
    BY <1>12, LocksTypes DEF Checkout, AtCache
<1>13. ASSUME NEW d \in Daemon, CheckoutEnds(d) PROVE SourceTypes'
  <2>1. disturbed' \in [Daemon -> BOOLEAN] /\ repo' \in [{"cache", "around"} -> Repo]
      BY <1>13, MeetsTypes, UnlocksTypes DEF CheckoutEnds
  <2> DEFINE fails == job[d].where = "none" \/ job[d].commit \notin repo[job[d].where].objects
  <2>2. CASE fails
    <3>1. GivesUp(d) /\ UNCHANGED cacheDir
        BY <1>13, <2>2 DEF CheckoutEnds
    <3>. QED BY <1>13, <2>1, <3>1, GivesUpTypes, RestTypes DEF CheckoutEnds, SourceTypes
  <2>3. CASE ~fails
    <3>1. /\ job' = [job EXCEPT ![d].where = "none", ![d].at = clock]
          /\ To(d, "preflight") /\ command[d] # "idle"
          /\ cacheDir' \in {"none", "empty", "unborn", "whole"}
        BY <1>13, <2>3 DEF CheckoutEnds, SourceTypes
    <3>2. job' \in [Daemon -> Job] /\ \A e \in Daemon : job'[e].source = job[e].source
      <4>1. job \in [Daemon -> Job] /\ clock \in Nat
          BY DEF SourceTypes
      <4>2. /\ [job[d] EXCEPT !.where = "none", !.at = clock] \in Job
            /\ [job[d] EXCEPT !.where = "none", !.at = clock].source = job[d].source
          BY <4>1 DEF Job
      <4>3. job' = [job EXCEPT ![d] = [job[d] EXCEPT !.where = "none", !.at = clock]]
          BY <3>1, <4>1
      <4>. QED BY <4>1, <4>2, <4>3
    <3>3. "preflight" \in AfterCache
        BY DEF AfterCache
    <3>. QED BY <1>13, <2>1, <3>1, <3>2, <3>3, ToTypes, RestTypes DEF CheckoutEnds, SourceTypes
  <2>. QED BY <2>2, <2>3
<1>14. ASSUME NEW d \in Daemon, Preflight(d) \/ Claim(d) \/ PrepareWorkspace(d)
       PROVE  SourceTypes'
  <2>1. /\ UNCHANGED <<cacheDir, repo, historyVars, remoteVars, clock>>
        /\ command[d] # "idle"
        /\ GivesUp(d) \/ (UNCHANGED job /\ (To(d, "claim") \/ To(d, "prepare")))
      BY <1>14 DEF Preflight, Claim, PrepareWorkspace, Rest, Calm
  <2>2. /\ command' \in [Daemon -> {"idle"} \cup AtCache \cup AfterCache]
        /\ job' \in [Daemon -> Job]
        /\ \A e \in Daemon : command'[e] # "idle" =>
               command[e] # "idle" /\ job'[e].source = job[e].source
    <3>1. CASE GivesUp(d)
        BY <3>1, GivesUpTypes
    <3>2. CASE UNCHANGED job /\ (To(d, "claim") \/ To(d, "prepare"))
        BY <2>1, <3>2 DEF To, SourceTypes, AfterCache
    <3>. QED BY <2>1, <3>1, <3>2
  <2>. QED BY <2>1, <2>2 DEF SourceTypes, historyVars, remoteVars
<1>15. ASSUME NEW d \in Daemon, Fails(d) PROVE SourceTypes'
  <2>1. disturbed' \in [Daemon -> BOOLEAN] /\ repo' \in [{"cache", "around"} -> Repo]
      BY <1>15, MeetsTypes, UnlocksTypes DEF Fails, CommandFault
  <2>. QED BY <1>15, <2>1, GivesUpTypes, RestTypes DEF Fails, SourceTypes
<1>16. ASSUME NEW d \in Daemon, Killed(d) PROVE SourceTypes'
  <2>1. disturbed' \in [Daemon -> BOOLEAN]
      BY <1>16, MeetsTypes DEF Killed, CommandFault
  <2>2. repo' \in [{"cache", "around"} -> Repo]
    <3>1. repo \in [{"cache", "around"} -> Repo]
        BY DEF SourceTypes
    <3>2. \A r \in {"cache", "around"} : [repo[r] EXCEPT !.lock = Stale] \in Repo
        BY <3>1 DEF Repo
    <3>. QED BY <1>16, <3>1, <3>2 DEF Killed
  <2>. QED BY <1>16, <2>1, <2>2, GivesUpTypes, RestTypes DEF Killed, SourceTypes
<1>17. ASSUME NEW r \in Ref, Push(r) PROVE SourceTypes'
  <2>1. remote' \in [Ref -> Nat] /\ commits' \in Nat
      BY <1>17 DEF Push, SourceTypes, Gone
  <2>2. during' \in [Daemon -> SUBSET Nat]
      BY <1>17, <2>1 DEF Push, SourceTypes
  <2>. QED BY <1>17, <2>1, <2>2 DEF Push, SourceTypes
<1>18. ASSUME EditAround \/ UNCHANGED sourceVars PROVE SourceTypes'
    BY <1>18 DEF EditAround, sourceVars, SourceTypes, remoteVars, historyVars
<1>. QED
    BY <1>1, <1>2, <1>3, <1>4, <1>5, <1>6, <1>7, <1>8, <1>9, <1>10, <1>11, <1>12, <1>13,
       <1>14, <1>15, <1>16, <1>17, <1>18 DEF SourceNext, Resolve

-----------------------------------------------------------------------------
Fetched == {"checkout", "checking"} \cup AfterCache
Using   == {"reset", "resetting", "fetch", "fetching", "parse"} \cup Fetched
InRepo  == {"resetting", "fetching", "checking"}
Repos   == {"cache", "around"}

(* One clone at a time, in a directory of its making; a command works in   *)
(* the cache only while that has a repository; a daemon holds a lock only  *)
(* while its command does; what is in FETCH_HEAD has been fetched.         *)
Orderly ==
    /\ \A d \in Daemon : command[d] = "cloning" =>
          cacheDir # "none" /\ \A e \in Daemon : command[e] = "cloning" => e = d
    /\ \A d \in Daemon : job[d].where = "cache" => cacheDir \in {"unborn", "whole"}
    /\ \A d \in Daemon, r \in Repos :
          repo[r].lock = d => command[d] \in {"resetting", "checking"}
    /\ \A r \in Repos : \A i \in DOMAIN repo[r].fetched : repo[r].fetched[i] \in repo[r].objects

(* A resolution from which no repository was taken has one, and works in   *)
(* the one it finds.  If no other fetch crossed its own, it is alone in    *)
(* fetching, and FETCH_HEAD is its own.                                    *)
Sole(d) == ~crossed[d] /\ command[d] \in Fetching =>
    \A e \in Daemon \ {d} : command[e] \notin Fetching

Provided(d) == command[d] \in Using /\ ~removed[d] =>
    /\ Found # "none"
    /\ command[d] \in InRepo => job[d].where = Found
    /\ command[d] \in Fetched => job[d].commit \in repo[Found].objects
    /\ ~crossed[d] =>
          /\ command[d] = "fetching" =>
                repo[Found].fetched = <<>> /\ remote[RefFor(d)] \in during[d] \cup {Gone}
          /\ command[d] = "parse" =>
                repo[Found].fetched # <<>> /\ Head(repo[Found].fetched) \in during[d]
          /\ command[d] \in Fetched => job[d].commit \in during[d]

(* A resolution that met nobody is alone at the cache, and that is as it   *)
(* left it.                                                                *)
Alone(d) == command[d] \in AtCache /\ ~disturbed[d] =>
    /\ ~removed[d]
    /\ \A e \in Daemon \ {d} : command[e] \notin AtCache
    /\ command[d] = "clone" => cacheDir = "none"
    /\ command[d] = "cloning" => cacheDir \in {"empty", "unborn"}
    /\ command[d] = "assert" => cacheDir # "none"
    /\ command[d] = "parse" => repo[Found].fetched # <<>>

SourceInv == SourceTypes /\ Orderly /\ \A d \in Daemon : Sole(d) /\ Provided(d) /\ Alone(d)

LEMMA SourceInvInit == SourceInit => SourceInv
<1> SUFFICES ASSUME SourceInit PROVE SourceInv
    OBVIOUS
<1>1. SourceTypes
    BY SourceTypesInit
<1>2. \A d \in Daemon : command[d] = "idle" /\ job[d].where = "none"
    BY DEF SourceInit, NoJob
<1>3. \A r \in Repos : repo[r].fetched = <<>> /\ repo[r].lock = Free
    BY DEF SourceInit, NoRepo, Repos
<1>4. Free \notin Daemon
    BY SourceCacheAssumption DEF Free
<1>5. Orderly
    BY <1>2, <1>3, <1>4 DEF Orderly
<1>6. "idle" \notin Using /\ "idle" \notin AtCache /\ "idle" \notin Fetching
    BY DEF Using, Fetched, AtCache, AfterCache, Fetching
<1>. QED BY <1>1, <1>2, <1>5, <1>6 DEF SourceInv, Sole, Provided, Alone

-----------------------------------------------------------------------------
(* What a step of one daemon does to the command of another.               *)
LEMMA OthersGoOn ==
    ASSUME SourceTypes, NEW d \in Daemon, DaemonActs(d), NEW e \in Daemon \ {d}
    PROVE  /\ command'[e] = command[e]
           /\ job'[e].commit = job[e].commit
           /\ job'[e].source = job[e].source
           /\ job'[e].where # "cache" => job'[e].where = job[e].where \/ CloneFails(d)
           /\ job'[e].where = "cache" => job[e].where = "cache" /\ ~CloneFails(d)
           /\ ~CloneFails(d) => job'[e] = job[e]
           /\ during'[e] = during[e]
           /\ UNCHANGED remote
<1>1. command \in [Daemon -> {"idle"} \cup AtCache \cup AfterCache] /\ job \in [Daemon -> Job]
      /\ during \in [Daemon -> SUBSET Nat]
    BY DEF SourceTypes
<1>2. CASE CloneFails(d)
  <2>1. job'[e] = IF job[e].where = "cache" THEN [job[e] EXCEPT !.where = "none"] ELSE job[e]
      BY <1>2 DEF CloneFails
  <2>2. job[e] \in Job
      BY <1>1
  <2>3. /\ job'[e].commit = job[e].commit
        /\ job'[e].source = job[e].source
        /\ job'[e].where # "cache"
      BY <2>1, <2>2 DEF Job
  <2>. QED BY <1>1, <1>2, <2>3 DEF CloneFails, To, remoteVars
<1>3. CASE ~CloneFails(d)
  <2>1. command'[e] = command[e] /\ job'[e] = job[e] /\ UNCHANGED remote
      BY <1>1, <1>3 DEF DaemonActs, Resolve, Look, Clone, CloneInits, Cloned, AssertGitRepository,
             Reset, ResetEnds, Fetch, FetchEnds, Parse, Checkout, CheckoutEnds, Locks, Leaves,
             Preflight, Claim, PrepareWorkspace, Fails, Killed, GivesUp, To, Calm, Rest,
             CommandFault, remoteVars
  <2>2. during'[e] = during[e]
      BY <1>1, <1>3 DEF DaemonActs, Resolve, Look, Clone, CloneInits, Cloned, AssertGitRepository,
             Reset, ResetEnds, Fetch, FetchEnds, Parse, Checkout, CheckoutEnds, Locks,
             Preflight, Claim, PrepareWorkspace, Fails, Killed, Rest, historyVars
  <2>. QED BY <1>3, <2>1, <2>2
<1>. QED BY <1>2, <1>3

LEMMA DirSteps ==
    ASSUME SourceTypes, NEW d \in Daemon, DaemonActs(d)
    PROVE  \/ Clone(d) \/ CloneInits(d) \/ Cloned(d) \/ CloneFails(d) \/ CheckoutEnds(d)
           \/ UNCHANGED cacheDir /\ command'[d] # "cloning"
BY DEF SourceTypes, DaemonActs, Resolve, Look, AssertGitRepository, Reset, ResetEnds, Fetch,
       FetchEnds, Parse, Checkout, Locks, Leaves, Preflight, Claim, PrepareWorkspace, Fails,
       Killed, GivesUp, To, Rest

LEMMA OneCloneKept ==
    ASSUME SourceTypes, Orderly, NEW d \in Daemon, DaemonActs(d),
           NEW x \in Daemon, command'[x] = "cloning"
    PROVE  cacheDir' # "none" /\ \A e \in Daemon : command'[e] = "cloning" => e = x
<1>1. \A e \in Daemon \ {d} : command'[e] = command[e]
    BY OthersGoOn
<1>2. \A e, f \in Daemon : command[e] = "cloning" /\ command[f] = "cloning" =>
          e = f /\ cacheDir # "none"
    BY DEF Orderly
<1>3. command \in [Daemon -> {"idle"} \cup AtCache \cup AfterCache]
    BY DEF SourceTypes
<1>4. CASE Clone(d)
    BY <1>1, <1>2, <1>3, <1>4 DEF Clone, GivesUp, To
<1>5. CASE CloneInits(d)
    BY <1>1, <1>2, <1>3, <1>5 DEF CloneInits
<1>6. CASE Cloned(d)
    BY <1>1, <1>2, <1>3, <1>6 DEF Cloned, GivesUp, To
<1>7. CASE CloneFails(d)
    BY <1>1, <1>2, <1>3, <1>7 DEF CloneFails, To
<1>8. CASE CheckoutEnds(d)
  <2>1. command'[d] # "cloning"
      BY <1>3, <1>8 DEF CheckoutEnds, GivesUp, To
  <2>2. cacheDir' \in {cacheDir, "whole"}
      BY <1>8 DEF CheckoutEnds
  <2>. QED BY <1>1, <1>2, <2>1, <2>2
<1>9. CASE UNCHANGED cacheDir /\ command'[d] # "cloning"
    BY <1>1, <1>2, <1>9
<1>. QED BY <1>4, <1>5, <1>6, <1>7, <1>8, <1>9, DirSteps

LEMMA CacheStays ==
    ASSUME NEW d \in Daemon, DaemonActs(d), SourceTypes, ~CloneFails(d),
           cacheDir \in {"unborn", "whole"}
    PROVE  cacheDir' \in {"unborn", "whole"}
<1>1. CASE Clone(d) \/ CloneInits(d) \/ Cloned(d) \/ CheckoutEnds(d)
    BY <1>1 DEF Clone, CloneInits, Cloned, CheckoutEnds
<1>. QED BY <1>1, DirSteps

LEMMA WhereSteps ==
    ASSUME SourceTypes, NEW d \in Daemon, DaemonActs(d), job'[d].where = "cache"
    PROVE  ~CloneFails(d) /\ (Found = "cache" \/ job[d].where = "cache")
<1>1. job \in [Daemon -> Job]
    BY DEF SourceTypes
<1>2. job'[d] # NoJob
    BY DEF NoJob
<1>3. ~GivesUp(d)
    BY <1>1, <1>2 DEF GivesUp
<1>4. ~CloneFails(d)
    BY <1>1, <1>2 DEF CloneFails
<1>5. ~\E k \in Card, s \in Source : Look(d, k, s)
    BY <1>1 DEF Look, NoJob
<1>6. ~Fails(d) /\ ~Killed(d) /\ ~PrepareWorkspace(d)
    BY <1>3 DEF Fails, Killed, PrepareWorkspace
<1>7. CASE UNCHANGED job
    BY <1>4, <1>7
<1>8. CASE Reset(d) \/ Checkout(d) \/ Fetch(d)
    BY <1>1, <1>3, <1>4, <1>8 DEF Reset, Checkout, Fetch, Locks, Job
<1>9. CASE ResetEnds(d) \/ FetchEnds(d)
    BY <1>1, <1>3, <1>9 DEF ResetEnds, FetchEnds, Leaves, Job
<1>10. CASE CheckoutEnds(d)
  <2>1. job' = [job EXCEPT ![d].where = "none", ![d].at = clock]
      BY <1>3, <1>10 DEF CheckoutEnds
  <2>. QED BY <1>1, <2>1 DEF Job
<1>11. CASE Parse(d)
  <2>1. job' = [job EXCEPT ![d].commit = Head(repo[Found].fetched)]
      BY <1>3, <1>11 DEF Parse
  <2>. QED BY <1>1, <1>4, <2>1 DEF Job
<1>12. CASE Clone(d) \/ CloneInits(d) \/ Cloned(d) \/ AssertGitRepository(d) \/ Preflight(d) \/ Claim(d)
  <2>. UNCHANGED job
      BY <1>3, <1>12 DEF Clone, CloneInits, Cloned, AssertGitRepository, Preflight, Claim
  <2>. QED BY <1>7
<1>. QED BY <1>4, <1>5, <1>6, <1>8, <1>9, <1>10, <1>11, <1>12 DEF DaemonActs, Resolve

(* A command that fetches leaves the lock; one that takes the lock leaves  *)
(* the rest.                                                               *)
LEMMA FetchSteps ==
    ASSUME SourceTypes, NEW d \in Daemon, NEW r \in Repos
    PROVE  /\ Cloned(d) => /\ repo'[r].lock = repo[r].lock
                           /\ repo'[r].fetched = repo[r].fetched
                           /\ repo[r].objects \subseteq repo'[r].objects
           /\ Fetch(d) => /\ repo'[r].lock = repo[r].lock
                          /\ repo'[r].objects = repo[r].objects
                          /\ \/ repo'[r].fetched = repo[r].fetched
                             \/ repo'[r].fetched = <<>> /\ Found # "none"
           /\ FetchEnds(d) =>
                 /\ repo'[r].lock = repo[r].lock
                 /\ \/ repo'[r] = repo[r]
                    \/ /\ job[d].where = r /\ remote[RefFor(d)] # Gone /\ command'[d] = "parse"
                       /\ repo'[r].fetched = Append(repo[r].fetched, remote[RefFor(d)])
                       /\ repo'[r].objects = repo[r].objects \cup {remote[RefFor(d)]}
           /\ Reset(d) \/ Checkout(d) =>
                 /\ repo'[r].fetched = repo[r].fetched
                 /\ repo'[r].objects = repo[r].objects
                 /\ \/ repo'[r].lock = repo[r].lock
                    \/ repo'[r].lock = d /\ command'[d] \in {"resetting", "checking"}
<1>1. repo \in [Repos -> Repo] /\ Found \in {"none"} \cup Repos /\ repo[r] \in Repo
    BY FoundType DEF SourceTypes, Repos
<1>2. command \in [Daemon -> {"idle"} \cup AtCache \cup AfterCache]
    BY DEF SourceTypes
<1>3. ASSUME Cloned(d)
      PROVE  /\ repo'[r].lock = repo[r].lock
             /\ repo'[r].fetched = repo[r].fetched
             /\ repo[r].objects \subseteq repo'[r].objects
  <2> DEFINE o == {remote[q] : q \in Ref} \ {Gone}
             more == repo[r].objects \cup o
             y == [repo[r] EXCEPT !.objects = more]
  <2>1. repo' = [repo EXCEPT !["cache"].objects = @ \cup o]
      BY <1>3 DEF Cloned
  <2> HIDE DEF o
  <2>2. repo'[r] = repo[r] \/ repo'[r] = y
      BY <1>1, <2>1
  <2> HIDE DEF more
  <2>3. y.lock = repo[r].lock /\ y.fetched = repo[r].fetched /\ y.objects = more
      BY <1>1 DEF Repo
  <2> USE DEF more
  <2>. QED BY <2>2, <2>3
<1>4. ASSUME Fetch(d)
      PROVE  /\ repo'[r].lock = repo[r].lock
             /\ repo'[r].objects = repo[r].objects
             /\ \/ repo'[r].fetched = repo[r].fetched
                \/ repo'[r].fetched = <<>> /\ Found # "none"
  <2> DEFINE nothing == <<>>
             y == [repo[r] EXCEPT !.fetched = nothing]
  <2>1. \/ UNCHANGED repo
        \/ Found # "none" /\ repo' = [repo EXCEPT ![Found].fetched = nothing]
      BY <1>4 DEF Fetch
  <2> HIDE DEF nothing
  <2>2. repo'[r] = repo[r] \/ (Found # "none" /\ repo'[r] = y)
      BY <1>1, <2>1
  <2>3. y.lock = repo[r].lock /\ y.fetched = nothing /\ y.objects = repo[r].objects
      BY <1>1 DEF Repo
  <2> USE DEF nothing
  <2>. QED BY <2>2, <2>3
<1>5. ASSUME FetchEnds(d)
      PROVE  /\ repo'[r].lock = repo[r].lock
             /\ \/ repo'[r] = repo[r]
                \/ /\ job[d].where = r /\ remote[RefFor(d)] # Gone /\ command'[d] = "parse"
                   /\ repo'[r].fetched = Append(repo[r].fetched, remote[RefFor(d)])
                   /\ repo'[r].objects = repo[r].objects \cup {remote[RefFor(d)]}
  <2> DEFINE c == remote[RefFor(d)]
             w == job[d].where
             f == Append(repo[r].fetched, c)
             o == repo[r].objects \cup {c}
             y == [repo[r] EXCEPT !.fetched = f, !.objects = o]
  <2>1. CASE UNCHANGED repo
      BY <2>1
  <2>2. CASE ~UNCHANGED repo
    <3>1. c # Gone /\ To(d, "parse")
          /\ repo' = [repo EXCEPT ![w].fetched = Append(@, c), ![w].objects = @ \cup {c}]
        BY <1>5, <2>2 DEF FetchEnds, Leaves
    <3>2. command'[d] = "parse"
        BY <1>2, <3>1 DEF To
    <3> HIDE DEF c, w
    <3>3. repo'[r] = repo[r] \/ (w = r /\ repo'[r] = y)
        BY <1>1, <3>1
    <3> HIDE DEF f, o
    <3>4. y.lock = repo[r].lock /\ y.fetched = f /\ y.objects = o
        BY <1>1 DEF Repo
    <3> HIDE DEF y
    <3>. QED BY <3>1, <3>2, <3>3, <3>4 DEF c, w, f, o
  <2>. QED BY <2>1, <2>2
<1>6. ASSUME Reset(d) \/ Checkout(d)
      PROVE  /\ repo'[r].fetched = repo[r].fetched
             /\ repo'[r].objects = repo[r].objects
             /\ \/ repo'[r].lock = repo[r].lock
                \/ repo'[r].lock = d /\ command'[d] \in {"resetting", "checking"}
  <2> DEFINE y == [repo[r] EXCEPT !.lock = d]
  <2>1. \/ UNCHANGED repo
        \/ /\ repo' = [repo EXCEPT ![Found].lock = d]
           /\ To(d, "resetting") \/ To(d, "checking")
      BY <1>6 DEF Reset, Checkout, Locks
  <2>2. \/ repo'[r] = repo[r]
        \/ repo'[r] = y /\ command'[d] \in {"resetting", "checking"}
      BY <1>1, <1>2, <2>1 DEF To
  <2>3. y.lock = d /\ y.fetched = repo[r].fetched /\ y.objects = repo[r].objects
      BY <1>1 DEF Repo
  <2>. QED BY <2>2, <2>3
<1>. QED BY <1>3, <1>4, <1>5, <1>6

(* A lock changes hands only by a command that takes it or gives it back.  *)
LEMMA LockSteps ==
    ASSUME SourceTypes, Orderly, NEW d \in Daemon, DaemonActs(d), NEW r \in Repos
    PROVE  /\ \A e \in Daemon \ {d} : repo'[r].lock = e => repo[r].lock = e
           /\ repo'[r].lock = d => command'[d] \in {"resetting", "checking"}
<1>1. /\ command \in [Daemon -> {"idle"} \cup AtCache \cup AfterCache]
      /\ repo \in [Repos -> Repo]
    BY DEF SourceTypes, Repos
<1>2. Free \notin Daemon /\ Stale \notin Daemon
    BY SourceCacheAssumption DEF Free, Stale
<1>3. repo[r].lock = d => command[d] \in {"resetting", "checking"}
    BY DEF Orderly
<1>4. CASE Unlocks(d)
  <2>1. repo'[r] = IF repo[r].lock = d THEN [repo[r] EXCEPT !.lock = Free] ELSE repo[r]
      BY <1>1, <1>4 DEF Unlocks
  <2>2. [repo[r] EXCEPT !.lock = Free].lock = Free
      BY <1>1 DEF Repo
  <2>. QED BY <1>2, <2>1, <2>2
<1>5. CASE Killed(d)
  <2>1. repo'[r] = IF repo[r].lock = d THEN [repo[r] EXCEPT !.lock = Stale] ELSE repo[r]
      BY <1>1, <1>5 DEF Killed
  <2>2. [repo[r] EXCEPT !.lock = Stale].lock = Stale
      BY <1>1 DEF Repo
  <2>. QED BY <1>2, <2>1, <2>2
<1>6. CASE CloneInits(d) \/ CloneFails(d)
  <2>1. repo'[r] = NoRepo \/ repo'[r] = repo[r]
      BY <1>1, <1>6 DEF CloneInits, CloneFails
  <2>2. command[d] = "cloning"
      BY <1>6 DEF CloneInits, CloneFails
  <2>. QED BY <1>2, <1>3, <2>1, <2>2 DEF NoRepo
<1>7. CASE Cloned(d) \/ Fetch(d) \/ FetchEnds(d)
  <2>1. repo'[r].lock = repo[r].lock
      BY <1>1, <1>7, FetchSteps
  <2>2. command[d] \in {"cloning", "fetch", "fetching"}
      BY <1>7 DEF Cloned, Fetch, FetchEnds
  <2>. QED BY <1>3, <2>1, <2>2
<1>8. CASE Reset(d) \/ Checkout(d)
  <2>1. command[d] \in {"reset", "checkout"}
      BY <1>8 DEF Reset, Checkout, Locks
  <2>. QED BY <1>3, <1>8, <2>1, FetchSteps
<1>9. CASE (\E k \in Card, s \in Source : Look(d, k, s)) \/ Clone(d) \/ AssertGitRepository(d)
           \/ Parse(d) \/ Preflight(d) \/ Claim(d) \/ PrepareWorkspace(d)
  <2>1. UNCHANGED repo
      BY <1>9 DEF Look, Clone, AssertGitRepository, Parse, Preflight, Claim, PrepareWorkspace, Rest
  <2>2. command[d] \notin {"resetting", "checking"}
      BY <1>9 DEF Look, Clone, AssertGitRepository, Parse, Preflight, Claim, PrepareWorkspace
  <2>. QED BY <1>3, <2>1, <2>2
<1>. QED
    BY <1>4, <1>5, <1>6, <1>7, <1>8, <1>9 DEF DaemonActs, Resolve, ResetEnds, CheckoutEnds, Fails

(* FETCH_HEAD is emptied, or gets a line with its commit; and commits are  *)
(* only ever added to a repository that stays.                             *)
LEMMA ObjectSteps ==
    ASSUME SourceTypes, NEW d \in Daemon, DaemonActs(d), NEW r \in Repos
    PROVE  \/ repo'[r] = NoRepo /\ (CloneInits(d) \/ CloneFails(d))
           \/ /\ repo[r].objects \subseteq repo'[r].objects
              /\ \/ repo'[r].fetched = repo[r].fetched
                 \/ repo'[r].fetched = <<>> /\ Fetch(d) /\ Found # "none"
                 \/ /\ FetchEnds(d) /\ job[d].where = r
                    /\ repo'[r].fetched = Append(repo[r].fetched, remote[RefFor(d)])
                    /\ remote[RefFor(d)] \in repo'[r].objects
                    /\ remote[RefFor(d)] # Gone /\ command'[d] = "parse"
<1>1. repo \in [Repos -> Repo] /\ repo[r] \in Repo
    BY DEF SourceTypes, Repos
<1>2. CASE Unlocks(d) \/ Killed(d)
    BY <1>1, <1>2 DEF Unlocks, Killed, Repo
<1>3. CASE CloneInits(d) \/ CloneFails(d)
  <2>1. repo'[r] = NoRepo \/ repo'[r] = repo[r]
      BY <1>1, <1>3 DEF CloneInits, CloneFails
  <2>. QED BY <1>3, <2>1
<1>4. CASE Cloned(d)
    BY <1>4, FetchSteps
<1>5. CASE Fetch(d)
    BY <1>5, FetchSteps
<1>6. CASE FetchEnds(d)
  <2>1. CASE repo'[r] = repo[r]
      BY <2>1
  <2>2. CASE repo'[r] # repo[r]
      BY <1>6, <2>2, FetchSteps
  <2>. QED BY <2>1, <2>2
<1>7. CASE UNCHANGED repo
    BY <1>7
<1>8. CASE Reset(d) \/ Checkout(d)
    BY <1>1, <1>8, FetchSteps
<1>9. CASE (\E k \in Card, s \in Source : Look(d, k, s)) \/ Clone(d) \/ AssertGitRepository(d)
           \/ Parse(d) \/ Preflight(d) \/ Claim(d) \/ PrepareWorkspace(d)
  <2>1. UNCHANGED repo
      BY <1>9 DEF Look, Clone, AssertGitRepository, Parse, Preflight, Claim, PrepareWorkspace, Rest
  <2>. QED BY <1>7, <2>1
<1>. QED
    BY <1>2, <1>3, <1>4, <1>5, <1>6, <1>8, <1>9 DEF DaemonActs, Resolve, ResetEnds, CheckoutEnds, Fails

LEMMA OrderlyNext ==
    ASSUME SourceTypes, Orderly, NEW d \in Daemon, DaemonActs(d)
    PROVE  Orderly'
<1>1. \A x \in Daemon : command'[x] = "cloning" =>
          cacheDir' # "none" /\ \A e \in Daemon : command'[e] = "cloning" => e = x
    BY OneCloneKept
<1>2. ASSUME NEW x \in Daemon, job'[x].where = "cache"
      PROVE  cacheDir' \in {"unborn", "whole"}
  <2>1. ~CloneFails(d) /\ (Found = "cache" \/ job[x].where = "cache")
      BY <1>2, OthersGoOn, WhereSteps
  <2>2. cacheDir \in {"unborn", "whole"}
      BY <2>1 DEF Orderly, Found
  <2>. QED BY <2>1, <2>2, CacheStays
<1>3. \A x \in Daemon, r \in Repos :
          repo'[r].lock = x => command'[x] \in {"resetting", "checking"}
    BY OthersGoOn, LockSteps DEF Orderly
<1>4. ASSUME NEW r \in Repos, NEW i \in DOMAIN repo'[r].fetched
      PROVE  repo'[r].fetched[i] \in repo'[r].objects
  <2>1. \A j \in DOMAIN repo[r].fetched : repo[r].fetched[j] \in repo[r].objects
      BY DEF Orderly
  <2>2. repo[r].fetched \in Seq(Nat)
      BY DEF SourceTypes, Repo, Repos
  <2>3. CASE repo'[r] = NoRepo
    <3>1. repo'[r].fetched = <<>>
        BY <2>3 DEF NoRepo
    <3>. QED BY <1>4, <3>1
  <2>4. CASE repo'[r].fetched = repo[r].fetched /\ repo[r].objects \subseteq repo'[r].objects
      BY <1>4, <2>1, <2>4
  <2>5. CASE repo'[r].fetched = <<>>
      BY <1>4, <2>5
  <2>6. ASSUME NEW c, repo'[r].fetched = Append(repo[r].fetched, c), c \in repo'[r].objects,
               repo[r].objects \subseteq repo'[r].objects
        PROVE  repo'[r].fetched[i] \in repo'[r].objects
    <3>1. i \in 1..Len(repo[r].fetched) + 1
        BY <1>4, <2>2, <2>6
    <3>2. CASE i = Len(repo[r].fetched) + 1
        BY <2>2, <2>6, <3>2
    <3>3. CASE i # Len(repo[r].fetched) + 1
      <4>1. i \in DOMAIN repo[r].fetched
          BY <2>2, <3>1, <3>3
      <4>2. repo'[r].fetched[i] = repo[r].fetched[i]
          BY <2>2, <2>6, <4>1
      <4>. QED BY <2>1, <2>6, <4>1, <4>2
    <3>. QED BY <3>2, <3>3
  <2>. QED BY <2>3, <2>4, <2>5, <2>6, ObjectSteps
<1>. QED BY <1>1, <1>2, <1>3, <1>4 DEF Orderly

-----------------------------------------------------------------------------
(* What a step of one daemon says of the history of another.               *)
LEMMA HistorySteps ==
    ASSUME SourceTypes, NEW d \in Daemon, DaemonActs(d), NEW e \in Daemon \ {d}
    PROVE  /\ removed[e] => removed'[e]
           /\ CloneInits(d) \/ CloneFails(d) =>
                 removed'[e] \/ command[e] \in {"idle", "clone", "assert"}
           /\ crossed[e] => crossed'[e]
           /\ Fetch(d) /\ Found # "none" /\ command[e] \in Fetching => crossed'[e]
           /\ disturbed[e] => disturbed'[e]
           /\ command[d] = "idle" /\ command[e] \in AtCache => disturbed'[e]
<1>1. /\ removed \in [Daemon -> BOOLEAN] /\ crossed \in [Daemon -> BOOLEAN]
      /\ disturbed \in [Daemon -> BOOLEAN]
    BY DEF SourceTypes
<1>2. CASE \E k \in Card, s \in Source : Look(d, k, s)
    BY <1>1, <1>2 DEF Look, CloneInits, CloneFails, Fetch
<1>3. CASE ~\E k \in Card, s \in Source : Look(d, k, s)
  <2>1. command[d] # "idle"
      BY <1>3 DEF DaemonActs, Resolve, Clone, CloneInits, Cloned, CloneFails, AssertGitRepository,
             Reset, ResetEnds, Fetch, FetchEnds, Parse, Checkout, CheckoutEnds, Locks,
             Preflight, Claim, PrepareWorkspace, Fails, Killed, AtCache
  <2>2. Takes(d) \/ (UNCHANGED removed /\ ~CloneInits(d) /\ ~CloneFails(d))
    <3>1. CASE CloneInits(d) \/ CloneFails(d)
        BY <3>1 DEF CloneInits, CloneFails
    <3>2. CASE ~(CloneInits(d) \/ CloneFails(d))
        BY <1>3, <3>2 DEF DaemonActs, Resolve, Clone, Cloned, AssertGitRepository,
             Reset, ResetEnds, Fetch, FetchEnds, Parse, Checkout, CheckoutEnds, Locks,
             Preflight, Claim, PrepareWorkspace, Fails, Killed, Rest, historyVars
    <3>. QED BY <3>1, <3>2
  <2>3. /\ removed[e] => removed'[e]
        /\ CloneInits(d) \/ CloneFails(d) =>
              removed'[e] \/ command[e] \in {"idle", "clone", "assert"}
      BY <1>1, <2>2 DEF Takes
  <2>4. /\ crossed[e] => crossed'[e]
        /\ Fetch(d) /\ Found # "none" /\ command[e] \in Fetching => crossed'[e]
    <3>1. CASE Fetch(d)
        BY <1>1, <3>1 DEF Fetch
    <3>2. CASE ~Fetch(d)
      <4>. UNCHANGED crossed
          BY <1>3, <3>2 DEF DaemonActs, Resolve, Clone, CloneInits, Cloned, CloneFails,
             AssertGitRepository, Reset, ResetEnds, FetchEnds, Parse, Checkout, CheckoutEnds,
             Locks, Preflight, Claim, PrepareWorkspace, Fails, Killed, Rest, historyVars
      <4>. QED BY <3>2
    <3>. QED BY <3>1, <3>2
  <2>5. disturbed[e] => disturbed'[e]
    <3>1. \/ Meets(d) \/ CommandFault(d) \/ UNCHANGED disturbed
          \/ disturbed' = [x \in Daemon |-> disturbed[x] \/ command[x] \in AtCache]
        BY <1>3 DEF DaemonActs, Resolve, Clone, CloneInits, Cloned, CloneFails,
             AssertGitRepository, Reset, ResetEnds, Fetch, FetchEnds, Parse, Checkout,
             CheckoutEnds, Locks, Preflight, Claim, PrepareWorkspace, Fails, Killed, Rest,
             historyVars
    <3>. QED BY <1>1, <3>1 DEF Meets, CommandFault
  <2>. QED BY <2>1, <2>3, <2>4, <2>5
<1>. QED BY <1>2, <1>3

(* A repository that is found, and not taken, is found by the next command *)
(* too.                                                                    *)
LEMMA FoundStays ==
    ASSUME SourceTypes, Orderly, NEW d \in Daemon, DaemonActs(d), Found # "none",
           ~CloneInits(d), ~CloneFails(d)
    PROVE  Found' = Found
<1>1. cacheDir # "none"
    BY DEF Found
<1>2. CASE Cloned(d)
    BY <1>2 DEF Cloned, Found
<1>3. CASE Clone(d)
    BY <1>1, <1>3 DEF Clone, Found
<1>4. CASE CheckoutEnds(d)
  <2>1. CASE job[d].where = "cache"
    <3>1. cacheDir \in {"unborn", "whole"} /\ cacheDir' \in {"unborn", "whole"}
        BY <1>4, <2>1 DEF CheckoutEnds, Orderly
    <3>. QED BY <3>1 DEF Found
  <2>2. CASE job[d].where # "cache"
      BY <1>4, <2>2 DEF CheckoutEnds, Found
  <2>. QED BY <2>1, <2>2
<1>5. CASE UNCHANGED cacheDir
    BY <1>5 DEF Found
<1>. QED BY <1>2, <1>3, <1>4, <1>5, DirSteps

(* A resolution whose repository no other takes keeps what it has of it.   *)
LEMMA Spared ==
    ASSUME SourceTypes, Orderly, NEW d \in Daemon, DaemonActs(d), NEW e \in Daemon \ {d},
           Sole(e), Provided(e), command[e] \in Using, ~removed'[e]
    PROVE  /\ ~removed[e] /\ Found # "none" /\ Found' = Found
           /\ job'[e] = job[e]
           /\ repo[Found].objects \subseteq repo'[Found].objects
           /\ ~crossed'[e] => ~crossed[e]
           /\ ~crossed'[e] /\ command[e] \in Fetching =>
                 repo'[Found].fetched = repo[Found].fetched
<1>1. ~CloneInits(d) /\ ~CloneFails(d)
    BY HistorySteps DEF Using, Fetched, AfterCache
<1>2. ~removed[e] /\ (~crossed'[e] => ~crossed[e])
    BY HistorySteps
<1>3. Found # "none" /\ Found' = Found
    BY <1>1, <1>2, FoundStays DEF Provided
<1>4. Found \in Repos
    BY <1>3, FoundType DEF Repos
<1>5. ASSUME ~crossed'[e], command[e] \in Fetching
      PROVE  ~(Fetch(d) /\ Found # "none") /\ ~FetchEnds(d)
  <2>1. command[d] # "fetching"
      BY <1>2, <1>5 DEF Sole, Fetching
  <2>. QED BY <1>5, <2>1, HistorySteps DEF FetchEnds
<1>6. /\ repo[Found].objects \subseteq repo'[Found].objects
      /\ \/ repo'[Found].fetched = repo[Found].fetched
         \/ Fetch(d) /\ Found # "none"
         \/ FetchEnds(d)
    BY <1>1, <1>4, ObjectSteps
<1>. QED BY <1>1, <1>2, <1>3, <1>5, <1>6, OthersGoOn

LEMMA OthersProvided ==
    ASSUME SourceTypes, Orderly, NEW d \in Daemon, DaemonActs(d), NEW e \in Daemon \ {d},
           Sole(e), Provided(e)
    PROVE  Provided(e)'
<1> SUFFICES ASSUME command'[e] \in Using, ~removed'[e] PROVE Provided(e)'
    BY DEF Provided
<1>1. command'[e] = command[e] /\ during'[e] = during[e] /\ UNCHANGED remote
    BY OthersGoOn
<1>2. /\ ~removed[e] /\ Found # "none" /\ Found' = Found
      /\ job'[e] = job[e]
      /\ repo[Found].objects \subseteq repo'[Found].objects
      /\ ~crossed'[e] => ~crossed[e]
      /\ ~crossed'[e] /\ command[e] \in Fetching =>
            repo'[Found].fetched = repo[Found].fetched
    BY <1>1, Spared
<1>3. RefFor(e)' = RefFor(e)
    BY <1>2 DEF RefFor
<1>. QED BY <1>1, <1>2, <1>3 DEF Provided, Fetching

(* A daemon comes to fetch by the fetch itself.                            *)
LEMMA ToFetching ==
    ASSUME SourceTypes, NEW d \in Daemon, DaemonActs(d), command'[d] \in Fetching
    PROVE  Fetch(d) \/ FetchEnds(d)
BY DEF SourceTypes, DaemonActs, Resolve, Look, Clone, CloneInits, Cloned, CloneFails,
       AssertGitRepository, Reset, ResetEnds, Parse, Checkout, CheckoutEnds, Locks, Leaves,
       Preflight, Claim, PrepareWorkspace, Fails, Killed, GivesUp, To, Rest, Fetching

LEMMA SoleNext ==
    ASSUME SourceTypes, NEW d \in Daemon, DaemonActs(d), \A e \in Daemon : Sole(e)
    PROVE  \A e \in Daemon : Sole(e)'
<1>1. \A e \in Daemon \ {d} : command'[e] = command[e]
    BY OthersGoOn
<1>2. ASSUME NEW e \in Daemon \ {d}, ~crossed'[e], command'[e] \in Fetching,
             NEW f \in Daemon \ {e}
      PROVE  command'[f] \notin Fetching
  <2>1. ~crossed[e] /\ command[e] \in Fetching
      BY <1>1, <1>2, HistorySteps
  <2>2. command[f] \notin Fetching
      BY <2>1 DEF Sole
  <2>3. CASE f = d
    <3>1. ~FetchEnds(d)
        BY <2>2, <2>3 DEF FetchEnds, Fetching
    <3>2. Fetch(d) => Found = "none"
        BY <1>2, <2>1, HistorySteps
    <3>3. Fetch(d) => command'[d] \notin Fetching
        BY <3>2 DEF Fetch, GivesUp, To, Fetching, SourceTypes
    <3>. QED BY <2>3, <3>1, <3>3, ToFetching
  <2>4. CASE f # d
      BY <1>1, <2>2, <2>4
  <2>. QED BY <2>3, <2>4
<1>3. ASSUME ~crossed'[d], command'[d] \in Fetching, NEW f \in Daemon \ {d}
      PROVE  command'[f] \notin Fetching
  <2>1. CASE Fetch(d)
    <3>1. Found # "none"
        BY <1>3, <2>1 DEF Fetch, GivesUp, To, Fetching, SourceTypes
    <3>2. crossed'[d] = \E o \in Daemon \ {d} : command[o] \in Fetching
        BY <2>1, <3>1 DEF Fetch
    <3>. QED BY <1>1, <1>3, <3>2
  <2>2. CASE FetchEnds(d)
    <3>1. UNCHANGED crossed /\ command[d] \in Fetching
        BY <2>2 DEF FetchEnds, Fetching
    <3>. QED BY <1>1, <1>3, <3>1 DEF Sole
  <2>. QED BY <1>3, <2>1, <2>2, ToFetching
<1>. QED BY <1>2, <1>3 DEF Sole

(* What a step in the cache does to the daemon that takes it.              *)
LEMMA OwnSteps ==
    ASSUME SourceTypes, NEW d \in Daemon
    PROVE  /\ GivesUp(d) => command'[d] = "idle"
           /\ \A step \in AtCache \cup AfterCache : To(d, step) => command'[d] = step
           /\ \A r \in Repos : job' = [job EXCEPT ![d].where = r] =>
                 /\ job'[d].where = r /\ job'[d].commit = job[d].commit
                 /\ job'[d].source = job[d].source
           /\ job' = [job EXCEPT ![d].where = "none"] =>
                 job'[d].commit = job[d].commit /\ job'[d].source = job[d].source
BY DEF SourceTypes, GivesUp, To, Job, Repos

LEMMA OwnProvided ==
    ASSUME SourceTypes, Orderly, NEW d \in Daemon, DaemonActs(d), Provided(d)
    PROVE  Provided(d)'
<1> SUFFICES ASSUME command'[d] \in Using, ~removed'[d] PROVE Provided(d)'
    BY DEF Provided
<1>1. ~GivesUp(d)
    BY OwnSteps DEF Using, Fetched, AfterCache
<1>2. \A step \in AtCache \cup AfterCache : To(d, step) => command'[d] = step
    BY OwnSteps
<1>3. Found \in {"none", "cache", "around"}
    BY FoundType
<1>4. repo \in [Repos -> Repo] /\ job \in [Daemon -> Job]
    BY DEF SourceTypes, Repos
<1>5. CASE Cloned(d)
  <2>1. command'[d] = "reset" /\ Found' # "none"
      BY <1>1, <1>2, <1>5 DEF Cloned, AtCache, Found
  <2>. QED BY <2>1 DEF Provided, InRepo, Fetched, AfterCache
<1>6. CASE AssertGitRepository(d)
  <2>1. command'[d] = "reset" /\ Found' # "none"
      BY <1>1, <1>2, <1>6 DEF AssertGitRepository, AtCache, Found
  <2>. QED BY <2>1 DEF Provided, InRepo, Fetched, AfterCache
<1>7. CASE Reset(d)
  <2>1. command'[d] = "resetting" /\ Found # "none" /\ Found' = Found /\ job'[d].where = Found
    <3>1. /\ Found # "none" /\ job' = [job EXCEPT ![d].where = Found]
          /\ To(d, "resetting") /\ UNCHANGED cacheDir
        BY <1>1, <1>7 DEF Reset, Locks
    <3>2. Found' = Found
        BY <3>1 DEF Found
    <3>. QED BY <1>2, <1>3, <3>1, <3>2, OwnSteps DEF AtCache, Repos
  <2>. QED BY <2>1 DEF Provided, Fetched, AfterCache
<1>8. CASE ResetEnds(d)
  <2>1. /\ command'[d] = "fetch" /\ Found' = Found /\ command[d] = "resetting"
        /\ UNCHANGED removed
      BY <1>1, <1>2, <1>8 DEF ResetEnds, Leaves, AtCache, Found
  <2>2. Found # "none"
      BY <2>1 DEF Provided, Using
  <2>. QED BY <2>1, <2>2 DEF Provided, InRepo, Fetched, AfterCache
<1>9. CASE Fetch(d)
  <2> DEFINE c == remote[RefFor(d)]
  <2>1. /\ Found # "none" /\ job' = [job EXCEPT ![d].where = Found]
        /\ To(d, "fetching") /\ UNCHANGED <<cacheDir, remote>>
        /\ during' = [during EXCEPT ![d] = {c} \ {Gone}]
        /\ repo' = [repo EXCEPT ![Found].fetched = <<>>]
      BY <1>1, <1>9 DEF Fetch, Calm, remoteVars
  <2>2. /\ command'[d] = "fetching" /\ Found' = Found
        /\ job'[d].where = Found /\ job'[d].source = job[d].source
    <3>1. Found' = Found
        BY <2>1 DEF Found
    <3>. QED BY <1>2, <1>3, <2>1, <3>1, OwnSteps DEF AtCache, Repos
  <2>3. repo'[Found].fetched = <<>>
    <3>1. Found \in Repos /\ repo[Found] \in Repo
        BY <1>3, <1>4, <2>1 DEF Repos
    <3> DEFINE nothing == <<>>
    <3>2. repo' = [repo EXCEPT ![Found].fetched = nothing]
        BY <2>1
    <3> HIDE DEF nothing
    <3>3. repo'[Found].fetched = nothing
        BY <1>4, <3>1, <3>2 DEF Repo
    <3>. QED BY <3>3 DEF nothing
  <2>4. RefFor(d)' = RefFor(d)
      BY <2>2 DEF RefFor
  <2>5. c \in during'[d] \cup {Gone}
      BY <2>1 DEF SourceTypes
  <2>. QED BY <2>1, <2>2, <2>3, <2>4, <2>5 DEF Provided, Fetched, AfterCache
<1>10. CASE FetchEnds(d)
  <2> DEFINE c == remote[RefFor(d)]
             w == job[d].where
  <2>1. /\ command[d] = "fetching" /\ To(d, "parse") /\ UNCHANGED <<removed, cacheDir, during, crossed>>
        /\ w # "none" /\ c # Gone
        /\ repo' = [repo EXCEPT ![w].fetched = Append(@, c), ![w].objects = @ \cup {c}]
      BY <1>1, <1>10 DEF FetchEnds, Leaves
  <2>2. command'[d] = "parse" /\ Found' = Found
      BY <1>2, <2>1 DEF AtCache, Found
  <2>3. /\ Found # "none" /\ w = Found
        /\ ~crossed[d] => repo[Found].fetched = <<>> /\ c \in during[d] \cup {Gone}
      BY <2>1 DEF Provided, Using, InRepo
  <2>4. ASSUME ~crossed[d]
        PROVE  repo'[Found].fetched = <<c>>
    <3>1. Found \in Repos /\ repo[Found] \in Repo /\ repo[Found].fetched = <<>>
        BY <1>3, <1>4, <2>3, <2>4 DEF Repos
    <3>2. \/ repo'[Found] = repo[Found]
          \/ repo'[Found].fetched = Append(repo[Found].fetched, c)
        BY <1>10, <3>1, FetchSteps
    <3>3. repo'[Found] # repo[Found]
      <4>1. repo'[Found].fetched = Append(repo[Found].fetched, c)
        <5> HIDE DEF c
        <5>. QED BY <1>4, <2>1, <2>3, <3>1
      <4>. QED BY <3>1, <4>1
    <3>. QED BY <3>1, <3>2, <3>3
  <2>5. ~crossed[d] => repo'[Found].fetched # <<>> /\ Head(repo'[Found].fetched) \in during[d]
    <3>1. <<c>> # <<>> /\ Head(<<c>>) = c
      <4> HIDE DEF c
      <4>. QED OBVIOUS
    <3>. QED BY <2>1, <2>3, <2>4, <3>1
  <2>. QED BY <2>1, <2>2, <2>3, <2>5 DEF Provided, InRepo, Fetched, AfterCache
<1>11. CASE Parse(d)
  <2> DEFINE c == Head(repo[Found].fetched)
  <2>1. /\ command[d] = "parse" /\ UNCHANGED <<cacheDir, repo, during, crossed, removed>>
        /\ Found # "none" /\ repo[Found].fetched # <<>>
        /\ job' = [job EXCEPT ![d].commit = c] /\ To(d, "checkout")
      BY <1>1, <1>11 DEF Parse
  <2>2. command'[d] = "checkout" /\ Found' = Found /\ job'[d].commit = c
    <3> HIDE DEF c
    <3>. QED BY <1>2, <1>4, <2>1 DEF AtCache, Found, Job
  <2>3. c \in repo[Found].objects
    <3>1. repo[Found].fetched \in Seq(Nat) /\ Found \in Repos
        BY <1>3, <1>4, <2>1 DEF Repo, Repos
    <3>2. 1 \in DOMAIN repo[Found].fetched /\ c = repo[Found].fetched[1]
        BY <2>1, <3>1
    <3>. QED BY <3>1, <3>2 DEF Orderly
  <2>4. ~crossed[d] => c \in during[d]
      BY <2>1 DEF Provided, Using
  <2>. QED BY <2>1, <2>2, <2>3, <2>4 DEF Provided, InRepo
<1>12. CASE Checkout(d)
  <2>1. /\ command[d] = "checkout" /\ UNCHANGED <<cacheDir, during, crossed, removed>>
        /\ Found # "none" /\ job' = [job EXCEPT ![d].where = Found] /\ To(d, "checking")
      BY <1>1, <1>12 DEF Checkout, Locks
  <2>2. /\ command'[d] = "checking" /\ Found' = Found /\ job'[d].where = Found
        /\ job'[d].commit = job[d].commit /\ Found \in Repos
    <3>1. Found' = Found
        BY <2>1 DEF Found
    <3>. QED BY <1>2, <1>3, <2>1, <3>1, OwnSteps DEF AtCache, Repos
  <2>3. repo'[Found].objects = repo[Found].objects
      BY <1>12, <2>2, FetchSteps
  <2>. QED BY <2>1, <2>2, <2>3 DEF Provided, Using, Fetched
<1>13. CASE CheckoutEnds(d)
  <2>1. /\ command[d] = "checking" /\ UNCHANGED <<during, crossed, removed>>
        /\ job' = [job EXCEPT ![d].where = "none", ![d].at = clock] /\ To(d, "preflight")
      BY <1>1, <1>13 DEF CheckoutEnds
  <2>2. command'[d] = "preflight"
      BY <1>2, <2>1 DEF AfterCache
  <2>3. job'[d].commit = job[d].commit
      BY <1>4, <2>1 DEF Job
  <2>4. Found # "none" /\ job[d].commit \in repo[Found].objects
      BY <2>1 DEF Provided, Using, Fetched
  <2>5. ~CloneInits(d) /\ ~CloneFails(d)
      BY <2>1 DEF CloneInits, CloneFails
  <2>6. Found' = Found
      BY <2>4, <2>5, FoundStays
  <2>7. repo[Found].objects \subseteq repo'[Found].objects
      BY <1>3, <2>4, <2>5, ObjectSteps DEF Repos
  <2>. QED BY <2>1, <2>2, <2>3, <2>4, <2>6, <2>7 DEF Provided, Using, Fetched, InRepo
<1>14. CASE Preflight(d) \/ Claim(d)
  <2>1. /\ command[d] \in AfterCache /\ UNCHANGED <<cacheDir, repo, job, during, crossed, removed>>
        /\ To(d, "claim") \/ To(d, "prepare")
    <3>1. CASE Preflight(d)
        BY <1>1, <3>1 DEF Preflight, Rest, historyVars, AfterCache
    <3>2. CASE Claim(d)
        BY <1>1, <3>2 DEF Claim, Rest, historyVars, AfterCache
    <3>. QED BY <1>14, <3>1, <3>2
  <2>2. command'[d] \in AfterCache /\ Found' = Found
      BY <1>2, <2>1 DEF AfterCache, Found
  <2>. QED BY <2>1, <2>2 DEF Provided, Using, Fetched, InRepo, AfterCache
<1>15. CASE Clone(d) \/ CloneInits(d) \/ CloneFails(d)
  <2>1. command'[d] \in {"idle", "cloning"}
      BY <1>2, <1>15 DEF Clone, CloneInits, CloneFails, To, AtCache, SourceTypes, GivesUp
  <2>. QED BY <2>1 DEF Using, Fetched, AfterCache
<1>16. CASE \E k \in Card, s \in Source : Look(d, k, s)
  <2>1. command'[d] \in {"clone", "assert"}
      BY <1>16 DEF Look, To, SourceTypes
  <2>. QED BY <2>1 DEF Using, Fetched, AfterCache
<1>. QED
    BY <1>1, <1>5, <1>6, <1>7, <1>8, <1>9, <1>10, <1>11, <1>12, <1>13, <1>14, <1>15, <1>16
       DEF DaemonActs, Resolve, PrepareWorkspace, Fails, Killed

(* A push reaches a ref that is being fetched, or one that is not.         *)
LEMMA PushProvided ==
    ASSUME SourceTypes, NEW q \in Ref, Push(q), NEW d \in Daemon, Provided(d)
    PROVE  Provided(d)'
<1> SUFFICES ASSUME command[d] \in Using, ~removed[d] PROVE Provided(d)'
    BY DEF Provided, Push
<1>1. UNCHANGED <<cacheDir, repo, command, job, crossed, removed>>
    BY DEF Push
<1>2. Found' = Found /\ RefFor(d)' = RefFor(d)
    BY <1>1 DEF Found, RefFor
<1>3. during[d] \subseteq during'[d]
    BY DEF Push, SourceTypes
<1>4. command[d] = "fetching" /\ remote[RefFor(d)] \in during[d] \cup {Gone} =>
          remote'[RefFor(d)] \in during'[d] \cup {Gone}
  <2> SUFFICES ASSUME command[d] = "fetching", remote[RefFor(d)] \in during[d] \cup {Gone}
               PROVE  remote'[RefFor(d)] \in during'[d] \cup {Gone}
      OBVIOUS
  <2>1. CASE RefFor(d) = q
    <3>1. during'[d] = during[d] \cup ({remote'[q]} \ {Gone})
        BY <2>1 DEF Push
    <3>. QED BY <2>1, <3>1
  <2>2. CASE RefFor(d) # q
    <3>1. RefFor(d) \in Ref
        BY RefForType
    <3>2. remote'[RefFor(d)] = remote[RefFor(d)]
        BY <2>2, <3>1 DEF Push, SourceTypes
    <3>. QED BY <1>3, <3>2
  <2>. QED BY <2>1, <2>2
<1>. QED BY <1>1, <1>2, <1>3, <1>4 DEF Provided

(* Nobody else at the cache: then a step of another is one of preparing.   *)
LEMMA OthersAlone ==
    ASSUME SourceTypes, Orderly, NEW d \in Daemon, DaemonActs(d), NEW e \in Daemon \ {d},
           Alone(e), Provided(e)
    PROVE  Alone(e)'
<1> SUFFICES ASSUME command'[e] \in AtCache, ~disturbed'[e] PROVE Alone(e)'
    BY DEF Alone
<1>1. \A f \in Daemon \ {d} : command'[f] = command[f]
    BY OthersGoOn
<1>2. command[e] \in AtCache /\ ~disturbed[e] /\ command[d] # "idle"
    BY <1>1, HistorySteps
<1>3. command[d] \notin AtCache /\ ~removed[e]
    BY <1>2 DEF Alone
<1>4. Preflight(d) \/ Claim(d) \/ PrepareWorkspace(d) \/ Killed(d)
    BY <1>2, <1>3 DEF DaemonActs, Resolve, Look, Clone, CloneInits, Cloned, CloneFails,
       AssertGitRepository, Reset, ResetEnds, Fetch, FetchEnds, Parse, Checkout, CheckoutEnds,
       Locks, Fails, AtCache
<1>5. command'[d] \in {"idle", "claim", "prepare"} /\ UNCHANGED <<cacheDir, removed>>
    BY <1>4 DEF Preflight, Claim, PrepareWorkspace, Killed, GivesUp, To, Rest, historyVars,
       SourceTypes
<1>6. command'[d] \notin AtCache
    BY <1>5 DEF AtCache
<1>7. command[e] = "parse" => repo'[Found].fetched = repo[Found].fetched
  <2>1. command[e] = "parse" => Found \in Repos
      BY <1>3, FoundType DEF Provided, Using, Repos
  <2>2. \A r \in Repos : repo'[r].fetched = repo[r].fetched
    <3>1. CASE UNCHANGED repo
        BY <3>1
    <3>2. CASE Killed(d)
        BY <3>2 DEF Killed, SourceTypes, Repo, Repos
    <3>. QED BY <1>4, <3>1, <3>2 DEF Preflight, Claim, PrepareWorkspace, Rest
  <2>. QED BY <2>1, <2>2
<1>8. Found' = Found
    BY <1>5 DEF Found
<1>. QED BY <1>1, <1>2, <1>3, <1>5, <1>6, <1>7, <1>8 DEF Alone

(* A command in the cache that is not a fault meets whoever is there.      *)
LEMMA OwnHistory ==
    ASSUME SourceTypes, NEW d \in Daemon, DaemonActs(d), ~disturbed'[d],
           command[d] \in AtCache
    PROVE  /\ ~disturbed[d]
           /\ \A e \in Daemon \ {d} : command[e] \notin AtCache
           /\ removed'[d] = removed[d]
           /\ ~CloneFails(d) /\ ~Fails(d) /\ ~Killed(d)
<1>1. removed \in [Daemon -> BOOLEAN] /\ disturbed \in [Daemon -> BOOLEAN]
    BY DEF SourceTypes
<1>2. ~CloneFails(d)
    BY DEF CloneFails
<1>3. ~Fails(d) /\ ~Killed(d)
    BY <1>1 DEF Fails, Killed, CommandFault
<1>4. Resolve(d)
    BY <1>3 DEF DaemonActs, Look, Preflight, Claim, PrepareWorkspace, AtCache
<1>5. Meets(d) /\ (Takes(d) \/ UNCHANGED removed)
    BY <1>2, <1>4 DEF Resolve, Clone, CloneInits, Cloned, AssertGitRepository, Reset, ResetEnds,
       Fetch, FetchEnds, Parse, Checkout, CheckoutEnds, Locks
<1>6. disturbed'[d] = (disturbed[d] \/ \E o \in Daemon \ {d} : command[o] \in AtCache)
    BY <1>5 DEF Meets
<1>7. removed'[d] = removed[d]
    BY <1>1, <1>5 DEF Takes
<1>. QED BY <1>2, <1>3, <1>6, <1>7

LEMMA OwnAlone ==
    ASSUME SourceTypes, Orderly, NEW d \in Daemon, DaemonActs(d), Alone(d), Provided(d)
    PROVE  Alone(d)'
<1> SUFFICES ASSUME command'[d] \in AtCache, ~disturbed'[d] PROVE Alone(d)'
    BY DEF Alone
<1>1. \A f \in Daemon \ {d} : command'[f] = command[f]
    BY OthersGoOn
<1>2. \A step \in AtCache \cup AfterCache : To(d, step) => command'[d] = step
    BY OwnSteps
<1>3. ~GivesUp(d)
    BY OwnSteps DEF AtCache
<1>4. CASE \E k \in Card, s \in Source : Look(d, k, s)
  <2>1. PICK k \in Card, s \in Source : Look(d, k, s)
      BY <1>4
  <2>2. /\ ~removed'[d] /\ UNCHANGED cacheDir
        /\ \A o \in Daemon \ {d} : command[o] \notin AtCache
      BY <2>1 DEF Look, SourceTypes
  <2>3. command'[d] = IF cacheDir = "none" THEN "clone" ELSE "assert"
      BY <2>1 DEF Look, To, SourceTypes
  <2>. QED BY <1>1, <2>2, <2>3 DEF Alone
<1>5. CASE ~\E k \in Card, s \in Source : Look(d, k, s)
  <2>1. command[d] \in AtCache
      BY <1>2, <1>3, <1>5 DEF DaemonActs, Resolve, Clone, CloneInits, Cloned, CloneFails,
         AssertGitRepository, Reset, ResetEnds, Fetch, FetchEnds, Parse, Checkout, CheckoutEnds,
         Locks, Preflight, Claim, PrepareWorkspace, Fails, Killed, AtCache, AfterCache
  <2>2. /\ ~disturbed[d] /\ \A e \in Daemon \ {d} : command[e] \notin AtCache
        /\ removed'[d] = removed[d] /\ Resolve(d) /\ ~CloneFails(d)
      BY <1>5, <2>1, OwnHistory DEF DaemonActs, Preflight, Claim, PrepareWorkspace, AtCache
  <2>3. /\ ~removed'[d] /\ ~removed[d]
        /\ \A e \in Daemon \ {d} : command'[e] \notin AtCache
      BY <1>1, <2>1, <2>2 DEF Alone
  <2>4. CASE Clone(d)
      BY <1>2, <1>3, <2>3, <2>4 DEF Clone, Alone, AtCache
  <2>5. CASE CloneInits(d)
      BY <2>3, <2>5 DEF CloneInits, Alone
  <2>6. CASE Cloned(d) \/ AssertGitRepository(d) \/ Reset(d) \/ ResetEnds(d) \/ Fetch(d)
             \/ Parse(d) \/ Checkout(d) \/ CheckoutEnds(d)
    <3>1. command'[d] \in {"reset", "resetting", "fetch", "fetching", "checkout", "checking",
                           "preflight"}
        BY <1>2, <1>3, <2>6 DEF Cloned, AssertGitRepository, Reset, ResetEnds, Fetch, Parse,
           Checkout, CheckoutEnds, Locks, Leaves, AtCache, AfterCache
    <3>. QED BY <2>3, <3>1 DEF Alone
  <2>7. CASE FetchEnds(d)
    <3> DEFINE c == remote[RefFor(d)]
               w == job[d].where
    <3>1. /\ command[d] = "fetching" /\ To(d, "parse") /\ UNCHANGED cacheDir
          /\ w # "none"
          /\ repo' = [repo EXCEPT ![w].fetched = Append(@, c), ![w].objects = @ \cup {c}]
        BY <1>3, <2>7 DEF FetchEnds, Leaves
    <3>2. command'[d] = "parse" /\ Found' = Found
        BY <1>2, <3>1 DEF AtCache, Found
    <3>3. Found # "none" /\ w = Found
        BY <2>3, <3>1 DEF Provided, Using, InRepo
    <3>4. Found \in Repos /\ repo \in [Repos -> Repo] /\ repo[Found].fetched \in Seq(Nat)
        BY <3>3, FoundType DEF Repos, SourceTypes, Repo
    <3>5. repo'[Found].fetched = Append(repo[Found].fetched, c)
      <4> HIDE DEF c
      <4>. QED BY <3>1, <3>3, <3>4 DEF Repo
    <3>6. repo'[Found].fetched # <<>>
      <4>1. c \in Nat
          BY <3>1, RefForType
      <4> HIDE DEF c
      <4>. QED BY <3>4, <3>5, <4>1
    <3>. QED BY <2>3, <3>2, <3>6 DEF Alone
  <2>. QED BY <2>2, <2>4, <2>5, <2>6, <2>7 DEF Resolve
<1>. QED BY <1>4, <1>5

LEMMA SourceInvNext == SourceInv /\ [SourceNext]_sourceVars => SourceInv'
<1> SUFFICES ASSUME SourceInv, [SourceNext]_sourceVars PROVE SourceInv'
    OBVIOUS
<1>1. SourceTypes'
    BY NextTypes DEF SourceInv
<1>2. ASSUME NEW d \in Daemon, DaemonActs(d) PROVE SourceInv'
  <2>1. SourceTypes /\ Orderly /\ \A e \in Daemon : Sole(e) /\ Provided(e) /\ Alone(e)
      BY DEF SourceInv
  <2>2. Orderly'
      BY <1>2, <2>1, OrderlyNext
  <2>3. \A e \in Daemon : Sole(e)'
      BY <1>2, <2>1, SoleNext
  <2>4. Provided(d)' /\ Alone(d)'
      BY <1>2, <2>1, OwnProvided, OwnAlone
  <2>5. \A e \in Daemon \ {d} : Provided(e)' /\ Alone(e)'
      BY <1>2, <2>1, OthersProvided, OthersAlone
  <2>. QED BY <1>1, <2>2, <2>3, <2>4, <2>5 DEF SourceInv
<1>3. ASSUME NEW r \in Ref, Push(r) PROVE SourceInv'
  <2>1. SourceTypes /\ Orderly /\ \A e \in Daemon : Sole(e) /\ Provided(e) /\ Alone(e)
      BY DEF SourceInv
  <2>2. UNCHANGED <<cacheDir, repo, command, job, crossed, disturbed, removed>>
      BY <1>3 DEF Push
  <2>3. Orderly' /\ \A e \in Daemon : Sole(e)' /\ Alone(e)'
      BY <2>1, <2>2 DEF Orderly, Sole, Alone, Found
  <2>4. \A e \in Daemon : Provided(e)'
      BY <1>3, <2>1, PushProvided
  <2>. QED BY <1>1, <2>3, <2>4 DEF SourceInv
<1>4. ASSUME EditAround \/ UNCHANGED sourceVars PROVE SourceInv'
  <2>1. UNCHANGED <<remote, cacheDir, repo, command, job, during, crossed, disturbed, removed>>
      BY <1>4 DEF EditAround, sourceVars, remoteVars, historyVars
  <2>. QED BY <1>1, <2>1 DEF SourceInv, Orderly, Sole, Provided, Alone, Found, RefFor
<1>. QED BY <1>2, <1>3, <1>4 DEF SourceNext, DaemonActs

LEMMA SourceInvariance == SourceSpec => []SourceInv
BY SourceInvInit, SourceInvNext, PTL DEF SourceSpec

-----------------------------------------------------------------------------
(* The commit a worktree is started from is one the ref was at while it    *)
(* was fetched, unless another fetch crossed this one or a clone took the  *)
(* repository (Fetch, FetchEnds and Parse of resolve).                     *)
THEOREM CommitFetchedFromRef == SourceSpec => []FetchedFromRef
<1>1. SourceInv => FetchedFromRef
    BY DEF SourceInv, FetchedFromRef, Provided, Using, Fetched, AfterCache
<1>. QED BY <1>1, SourceInvariance, PTL

(* A source that was resolved stays usable until its worktree is made,     *)
(* whatever other daemons do, unless a clone took the repository.          *)
THEOREM ResolvedStaysUsable == SourceSpec => []StaysUsable
<1>1. SourceInv => StaysUsable
    BY DEF SourceInv, StaysUsable, Provided, Using, Fetched, AfterCache, Valid
<1>. QED BY <1>1, SourceInvariance, PTL

(* The lock of a resolution's repository, if it is alone and does not hold *)
(* it, was left over.                                                      *)
LEMMA LeftLocked ==
    ASSUME SourceTypes, Orderly, NEW d \in Daemon, command[d] \notin {"resetting", "checking"},
           \A e \in Daemon \ {d} : command[e] \notin AtCache, NEW r \in Repos,
           repo[r].lock # Free
    PROVE  repo[r].lock = Stale
<1>1. repo[r].lock \in Daemon \cup {Free, Stale}
    BY DEF SourceTypes, Repo, Repos
<1>2. repo[r].lock \notin Daemon
    BY DEF Orderly, AtCache
<1>. QED BY <1>1, <1>2

(* A resolution that neither a fault nor another daemon met fails only if  *)
(* the ref is gone, the index was left locked, or the directory was left   *)
(* empty (resolve, and what its commands find).                            *)
THEOREM ResolvesUnlessCause == SourceSpec => FailsForCause
<1> DEFINE Cause(d) ==
        \/ Found = "none" /\ cacheDir = "empty"
        \/ Found # "none" /\ repo[Found].lock = Stale
        \/ remote[RefFor(d)] = Gone
<1>1. ASSUME SourceInv, [SourceNext]_sourceVars, NEW d \in Daemon,
             command[d] \in AtCache, command'[d] = "idle", ~disturbed'[d]
      PROVE  Cause(d)
  <2>1. SourceTypes /\ Orderly /\ Provided(d) /\ Alone(d)
      BY <1>1 DEF SourceInv
  <2>2. DaemonActs(d)
    <3>1. command'[d] # command[d]
        BY <1>1 DEF AtCache
    <3>2. \A r \in Ref : ~Push(r)
        BY <3>1 DEF Push
    <3>3. ~EditAround /\ sourceVars' # sourceVars
        BY <3>1 DEF EditAround, sourceVars
    <3>4. PICK e \in Daemon : DaemonActs(e)
        BY <1>1, <3>2, <3>3 DEF SourceNext, DaemonActs
    <3>. QED BY <2>1, <3>1, <3>4, OthersGoOn
  <2>3. /\ ~disturbed[d] /\ \A e \in Daemon \ {d} : command[e] \notin AtCache
        /\ ~CloneFails(d) /\ ~Fails(d) /\ ~Killed(d)
      BY <1>1, <2>1, <2>2, OwnHistory
  <2>4. /\ ~removed[d]
        /\ command[d] = "clone" => cacheDir = "none"
        /\ command[d] = "assert" => cacheDir # "none"
        /\ command[d] = "parse" => repo[Found].fetched # <<>>
      BY <1>1, <2>1, <2>3 DEF Alone
  <2>5. /\ command[d] \in Using => Found # "none"
        /\ command[d] \in InRepo => job[d].where = Found
        /\ command[d] \in Fetched => job[d].commit \in repo[Found].objects
      BY <2>1, <2>4 DEF Provided, Using, Fetched, InRepo
  <2>6. Found \in {"none"} \cup Repos
      BY <2>1, FoundType DEF Repos
  <2>7. \A step \in AtCache \cup AfterCache : ~To(d, step)
      BY <1>1, <2>1, OwnSteps DEF AtCache, AfterCache
  <2>8. CASE Clone(d)
      BY <2>4, <2>7, <2>8 DEF Clone, AtCache
  <2>9. CASE CloneInits(d)
      BY <1>1, <2>9 DEF CloneInits
  <2>10. CASE Cloned(d)
    <3>1. Found = "cache" /\ repo["cache"].lock # Free /\ command[d] = "cloning"
        BY <2>7, <2>10 DEF Cloned, AtCache
    <3>. QED BY <2>1, <2>3, <3>1, LeftLocked DEF Repos
  <2>11. CASE AssertGitRepository(d)
    <3>1. Found = "none" /\ cacheDir # "none"
        BY <2>4, <2>7, <2>11 DEF AssertGitRepository, AtCache
    <3>2. cacheDir = "empty"
        BY <2>1, <3>1 DEF Found, SourceTypes
    <3>. QED BY <3>1, <3>2
  <2>12. CASE Reset(d) \/ Checkout(d)
    <3>1. command[d] \in {"reset", "checkout"} /\ ~(Found # "none" /\ repo[Found].lock = Free)
        BY <2>7, <2>12 DEF Reset, Checkout, Locks, AtCache
    <3>2. Found # "none"
        BY <2>5, <3>1 DEF Using, Fetched
    <3>. QED BY <2>1, <2>3, <2>6, <3>1, <3>2, LeftLocked
  <2>13. CASE ResetEnds(d) \/ Fetch(d) \/ Parse(d)
      BY <2>4, <2>5, <2>7, <2>13 DEF ResetEnds, Fetch, Parse, Leaves, Using, InRepo, AtCache
  <2>14. CASE FetchEnds(d)
      BY <2>5, <2>7, <2>14 DEF FetchEnds, Leaves, Using, InRepo, AtCache
  <2>15. CASE CheckoutEnds(d)
      BY <2>5, <2>7, <2>15 DEF CheckoutEnds, Using, Fetched, InRepo, AfterCache
  <2>. QED
      BY <1>1, <2>2, <2>3, <2>8, <2>9, <2>10, <2>11, <2>12, <2>13, <2>14, <2>15
         DEF DaemonActs, Resolve, Look, Preflight, Claim, PrepareWorkspace, AtCache
<1>2. SourceInv /\ [SourceNext]_sourceVars =>
        [\A d \in Daemon :
            command[d] \in AtCache /\ command'[d] = "idle" /\ ~disturbed'[d] =>
                \/ Found = "none" /\ cacheDir = "empty"
                \/ Found # "none" /\ repo[Found].lock = Stale
                \/ remote[RefFor(d)] = Gone]_sourceVars
    BY <1>1
<1>. QED BY <1>2, SourceInvariance, PTL DEF SourceSpec, FailsForCause

=============================================================================
