----------------------------- MODULE Workspace ------------------------------
(***************************************************************************)
(* The workspace of one card: prepareWorkspace and cleanupWorkspace        *)
(* (src/workspace.js), over several runs, on the things they share with    *)
(* git, with the agent and with people:                                    *)
(*                                                                         *)
(*   - the worktree directory, with the guard file in it;                  *)
(*   - the metadata file, outside of it;                                   *)
(*   - git's registration of the worktree, and the card's branch.          *)
(*                                                                         *)
(* Nothing here is a transaction: the daemon may crash at any await, the   *)
(* machine with it, in the middle of a write or of a git command.  Agent   *)
(* and hooks edit and commit in the worktree; an agent whose session could *)
(* not be stopped goes on doing so.  A ref is the set of the commits that  *)
(* can be reached from it, so "is an ancestor of" is set inclusion.        *)
(***************************************************************************)
EXTENDS Naturals

CONSTANTS Route,       \* the fingerprints the card's route may have
          MaxCommits,  \* bound: commits in a behaviour
          MaxRuns,     \* bound: calls of prepare
          Faults,      \* the kinds of fault that may happen
          MaxFaults    \* bound: faults in a behaviour

FaultKind == {"crash", "git", "disk", "hook", "rev_list", "left"}

ASSUME WorkspaceAssumption ==
    /\ "none" \notin Route /\ "torn" \notin Route
    /\ MaxCommits \in Nat /\ MaxRuns \in Nat /\ MaxFaults \in Nat
    /\ Faults \subseteq FaultKind

Commit == 1..MaxCommits

VARIABLES
    baseRef,    \* workspaces.registry.*.base_ref: "HEAD", or the name of a branch
    (* git *)
    base,       \* the commits of the source ref
    branched,   \* the card's branch exists
    branch,     \* the commits of the card's branch
    registered, \* git knows a worktree at the workspace path
    made,       \* commits so far
    (* the worktree *)
    dir,        \* the directory: none, whole, or left half done by a crash
    head,       \* HEAD is the card's branch, or detached
    detached,   \* the commits of a detached HEAD
    dirty,      \* there are uncommitted changes
    guard,      \* the guard file: none, torn, or the fingerprint in it
    (* the metadata file *)
    meta,       \* none, torn, or the fingerprint in it
    (* the local variables of prepare and cleanup *)
    pc,         \* the call being awaited
    route,      \* the fingerprint of the run
    reuse,      \* reuseDirtyExisting: a rerun, or an autonomous retry
    existing,   \* the metadata prepare has read
    (* the agent *)
    left,       \* an agent whose session was given up is still at work
    (* history and bounds *)
    seen,       \* how many commits there were when cleanup inspected the worktree
    misread,    \* rev-list failed in that inspection
    runs, faults

gitVars  == <<base, branched, branch, registered, made>>
treeVars == <<dir, head, detached, dirty, guard>>
callVars == <<route, reuse, existing>>
histVars == <<seen, misread>>
vars == <<baseRef, gitVars, treeVars, meta, pc, callVars, left, histVars, runs, faults>>

Dir == {"none", "half_created", "whole", "half_removed"}

PrepareStep == {"look", "register", "branch", "force", "add", "guarded", "validate"}
WriteStep   == {"write_guard", "write_meta", "hooks"}
CleanupStep == {"cleanup", "inspect", "before_remove", "reinspect", "remove", "forget"}
Step        == {"idle", "running"} \cup PrepareStep \cup WriteStep \cup CleanupStep

File == {"none", "torn"} \cup Route

Init ==
    /\ baseRef \in {"HEAD", "named"}
    /\ base = {} /\ branched = FALSE /\ branch = {} /\ registered = FALSE /\ made = 0
    /\ dir = "none" /\ head = "branch" /\ detached = {} /\ dirty = FALSE /\ guard = "none"
    /\ meta = "none"
    /\ pc = "idle" /\ route \in Route /\ reuse = FALSE /\ existing = "none"
    /\ left = FALSE
    /\ seen = 0 /\ misread = FALSE
    /\ runs = 0 /\ faults = 0

Fault(kind) ==
    /\ kind \in Faults
    /\ faults < MaxFaults
    /\ faults' = faults + 1

Goto(here, there) == pc = here /\ pc' = there

NoWorktree ==
    /\ dir' = "none" /\ guard' = "none"
    /\ head' = "branch" /\ detached' = {} /\ dirty' = FALSE

-----------------------------------------------------------------------------
(***************************************************************************)
(* prepareWorkspace.  Metadata that do not parse end it; the workspace key *)
(* and the identity digest are those of the card and its configuration, so *)
(* they match.  A call that throws leaves everything where it is.          *)
(***************************************************************************)
ReadMetadata ==
    /\ Goto("idle", "look")
    /\ runs < MaxRuns
    /\ runs' = runs + 1
    /\ meta # "torn"
    /\ existing' = meta
    /\ route' \in Route
    /\ reuse' \in BOOLEAN
    /\ UNCHANGED <<baseRef, gitVars, treeVars, meta, left, histVars, faults>>

(* A git command that fails; preflight has several. *)
GitThrows(here) ==
    /\ Goto(here, "idle")
    /\ Fault("git")
    /\ UNCHANGED <<baseRef, gitVars, treeVars, meta, callVars, left, histVars, runs>>

PathMissing ==
    /\ Goto("look", "register")
    /\ dir = "none"
    /\ UNCHANGED <<baseRef, gitVars, treeVars, meta, callVars, left, histVars, runs, faults>>

PathExists ==
    /\ dir # "none"
    /\ Goto("look", IF existing = "none" THEN "idle" ELSE "guarded")
    /\ UNCHANGED <<baseRef, gitVars, treeVars, meta, callVars, left, histVars, runs, faults>>

(***************************************************************************)
(* addGitWorktree.                                                         *)
(***************************************************************************)
(* Slip: git's entry for a directory that is gone is left there. *)
KeepRegistration ==
    /\ Goto("register", "branch")
    /\ UNCHANGED <<baseRef, gitVars, treeVars, meta, callVars, left, histVars, runs, faults>>

RemoveRegistration ==
    /\ Goto("register", "branch")
    /\ registered' = FALSE
    /\ UNCHANGED <<baseRef, base, branched, branch, made, treeVars, meta, callVars, left,
                   histVars, runs, faults>>

(* Slip: a branch is moved whatever is on it. *)
FindBranchUnchecked ==
    /\ Goto("branch", IF branched THEN "force" ELSE "add")
    /\ UNCHANGED <<baseRef, gitVars, treeVars, meta, callVars, left, histVars, runs, faults>>

(* A branch with commits of its own is not moved, and prepare throws. *)
FindBranch ==
    /\ Goto("branch", IF ~branched THEN "add"
                      ELSE IF branch \subseteq base THEN "force" ELSE "idle")
    /\ UNCHANGED <<baseRef, gitVars, treeVars, meta, callVars, left, histVars, runs, faults>>

ForceBranch ==
    /\ Goto("force", "add")
    /\ branch' = base
    /\ UNCHANGED <<baseRef, base, branched, registered, made, treeVars, meta, callVars, left,
                   histVars, runs, faults>>

(* git worktree add, with -b when there is no branch. *)
BranchAdded ==
    /\ branched' = TRUE
    /\ branch' = IF branched THEN branch ELSE base

AddWorktree ==
    /\ Goto("add", "write_guard")
    /\ ~registered
    /\ BranchAdded
    /\ registered' = TRUE
    /\ dir' = "whole"
    /\ UNCHANGED <<baseRef, base, made, head, detached, dirty, guard, meta, callVars, left,
                   histVars, runs, faults>>

(* git refuses a path it has an entry for; otherwise it may fail after it made the branch. *)
AddWorktreeFails ==
    /\ Goto("add", "idle")
    /\ IF registered THEN UNCHANGED faults ELSE Fault("git")
    /\ BranchAdded \/ UNCHANGED <<branched, branch>>
    /\ UNCHANGED <<baseRef, base, registered, made, treeVars, meta, callVars, left, histVars,
                   runs>>

(* Slip: the guard file is not looked at. *)
ValidateNoGuard ==
    /\ Goto("guarded", "validate")
    /\ UNCHANGED <<baseRef, gitVars, treeVars, meta, callVars, left, histVars, runs, faults>>

(***************************************************************************)
(* validateReusableWorktree: guard and metadata name one fingerprint, not  *)
(* necessarily that of this run; the worktree is registered (or can be     *)
(* repaired), on the card's branch, and clean unless it is to be reused.   *)
(***************************************************************************)
ValidateGuard ==
    /\ Goto("guarded", IF guard = existing THEN "validate" ELSE "idle")
    /\ UNCHANGED <<baseRef, gitVars, treeVars, meta, callVars, left, histVars, runs, faults>>

Reusable == head = "branch" /\ (dirty => reuse)

ValidateWorktree ==
    /\ pc = "validate"
    /\ registered' \in {registered, TRUE}
    /\ pc' = IF registered' /\ Reusable THEN "write_guard" ELSE "idle"
    /\ UNCHANGED <<baseRef, base, branched, branch, made, treeVars, meta, callVars, left,
                   histVars, runs, faults>>

(***************************************************************************)
(* The guard, then the metadata; a write that fails may leave half a file. *)
(* excludeGuardFile comes first and may throw as well; from then on git    *)
(* ignores the guard.                                                      *)
(***************************************************************************)
WriteGuard ==
    /\ Goto("write_guard", "write_meta")
    /\ guard' = route
    /\ UNCHANGED <<baseRef, gitVars, dir, head, detached, dirty, meta, callVars, left, histVars,
                   runs, faults>>

WriteGuardThrows ==
    /\ Goto("write_guard", "idle")
    /\ Fault("disk")
    /\ guard' \in {guard, "torn"}
    /\ UNCHANGED <<baseRef, gitVars, dir, head, detached, dirty, meta, callVars, left, histVars,
                   runs>>

WriteMetadata ==
    /\ Goto("write_meta", "hooks")
    /\ meta' = route
    /\ UNCHANGED <<baseRef, gitVars, treeVars, callVars, left, histVars, runs, faults>>

WriteMetadataThrows ==
    /\ Goto("write_meta", "idle")
    /\ Fault("disk")
    /\ meta' \in {meta, "torn"}
    /\ UNCHANGED <<baseRef, gitVars, treeVars, callVars, left, histVars, runs>>

(* after_create and before_run; they work in the tree as the agent does. *)
HooksEnd ==
    /\ Goto("hooks", "running")
    /\ UNCHANGED <<baseRef, gitVars, treeVars, meta, callVars, left, histVars, runs, faults>>

HooksThrow ==
    /\ Goto("hooks", "idle")
    /\ Fault("hook")
    /\ UNCHANGED <<baseRef, gitVars, treeVars, meta, callVars, left, histVars, runs>>

-----------------------------------------------------------------------------
(***************************************************************************)
(* The run.  One that fails preserves its workspace; one that completed    *)
(* and is eligible goes on to cleanupWorkspace.  An agent that cannot be   *)
(* stopped is left.                                                        *)
(***************************************************************************)
RunEnds ==
    /\ pc = "running"
    /\ pc' \in {"idle", "cleanup"}
    /\ \/ UNCHANGED <<left, faults>>
       \/ Fault("left") /\ left' = TRUE
    /\ UNCHANGED <<baseRef, gitVars, treeVars, meta, callVars, histVars, runs>>

AtWork == /\ dir # "none"
          /\ pc \in {"hooks", "running", "before_remove"} \/ left

Edit ==
    /\ AtWork
    /\ dirty' = TRUE
    /\ UNCHANGED <<baseRef, gitVars, dir, head, detached, guard, meta, pc, callVars, left,
                   histVars, runs, faults>>

(* After a commit of what is there, the tree is a checkout of its HEAD again. *)
CommitWork ==
    /\ AtWork
    /\ made < MaxCommits
    /\ made' = made + 1
    /\ dirty' = FALSE /\ dir' = "whole"
    /\ IF head = "branch"
       THEN branch' = branch \cup {made'} /\ UNCHANGED detached
       ELSE detached' = detached \cup {made'} /\ UNCHANGED branch
    /\ UNCHANGED <<baseRef, base, branched, registered, head, guard, meta, pc, callVars, left,
                   histVars, runs, faults>>

Detach ==
    /\ AtWork
    /\ head = "branch"
    /\ head' = "detached"
    /\ detached' \in {branch, base}
    /\ UNCHANGED <<baseRef, gitVars, dir, dirty, guard, meta, pc, callVars, left, histVars, runs,
                   faults>>

(***************************************************************************)
(* People commit to the source ref, merge the card's branch into it, and   *)
(* between two runs delete the directory or git's entry for it.            *)
(***************************************************************************)
Advance ==
    /\ made < MaxCommits
    /\ made' = made + 1
    /\ base' = base \cup {made'}
    /\ UNCHANGED <<baseRef, branched, branch, registered, treeVars, meta, pc, callVars, left,
                   histVars, runs, faults>>

Merge ==
    /\ ~(branch \subseteq base)
    /\ base' = base \cup branch
    /\ UNCHANGED <<baseRef, branched, branch, registered, made, treeVars, meta, pc, callVars, left,
                   histVars, runs, faults>>

DeleteDirectory ==
    /\ pc = "idle" /\ ~left
    /\ dir # "none"
    /\ NoWorktree
    /\ UNCHANGED <<baseRef, gitVars, meta, pc, callVars, left, histVars, runs, faults>>

DeleteRegistration ==
    /\ pc = "idle"
    /\ registered
    /\ registered' = FALSE
    /\ UNCHANGED <<baseRef, base, branched, branch, made, treeVars, meta, pc, callVars, left,
                   histVars, runs, faults>>

-----------------------------------------------------------------------------
(***************************************************************************)
(* cleanupWorkspace, after evaluateCleanupEligibility and the check of the *)
(* proof.  Metadata and guard must be there and agree.                     *)
(***************************************************************************)
CheckGuard ==
    /\ Goto("cleanup", IF meta \in Route /\ guard = meta THEN "inspect" ELSE "idle")
    /\ UNCHANGED <<baseRef, gitVars, treeVars, meta, callVars, left, histVars, runs, faults>>

Tip == IF head = "branch" THEN branch ELSE detached

(***************************************************************************)
(* inspectWorktreeForCleanup asks git, in the worktree, for the commits in *)
(* source_ref..HEAD; where the source ref is "HEAD" there are none.  With  *)
(* commits ahead HEAD is not an ancestor of the source ref, so it does not *)
(* matter whether they were pushed.                                        *)
(***************************************************************************)
CommitsAhead == IF baseRef = "HEAD" THEN {} ELSE Tip \ base

(* Slip: a clean status is enough. *)
InspectStatus ==
    /\ Goto("inspect", IF ~dirty THEN "before_remove" ELSE "idle")
    /\ seen' = made
    /\ misread' = FALSE
    /\ UNCHANGED <<baseRef, gitVars, treeVars, meta, callVars, left, runs, faults>>

Inspect ==
    /\ Goto("inspect", IF ~dirty /\ CommitsAhead = {} THEN "before_remove" ELSE "idle")
    /\ seen' = made
    /\ misread' = FALSE
    /\ UNCHANGED <<baseRef, gitVars, treeVars, meta, callVars, left, runs, faults>>

(* revListCount: a rev-list that fails has counted no commit. *)
InspectMisreads ==
    /\ Goto("inspect", IF ~dirty THEN "before_remove" ELSE "idle")
    /\ Fault("rev_list")
    /\ seen' = made
    /\ misread' = TRUE
    /\ UNCHANGED <<baseRef, gitVars, treeVars, meta, callVars, left, runs>>

BeforeRemove ==
    /\ Goto("before_remove", "reinspect")
    /\ UNCHANGED <<baseRef, gitVars, treeVars, meta, callVars, left, histVars, runs, faults>>

BeforeRemoveThrows ==
    /\ Goto("before_remove", "idle")
    /\ Fault("hook")
    /\ UNCHANGED <<baseRef, gitVars, treeVars, meta, callVars, left, histVars, runs>>

(* After the hook only the status is looked at again. *)
Reinspect ==
    /\ Goto("reinspect", IF ~dirty THEN "remove" ELSE "idle")
    /\ UNCHANGED <<baseRef, gitVars, treeVars, meta, callVars, left, histVars, runs, faults>>

(* Slip: git worktree remove --force. *)
RemoveForced ==
    /\ Goto("remove", "forget")
    /\ NoWorktree
    /\ registered' = FALSE
    /\ UNCHANGED <<baseRef, base, branched, branch, made, meta, callVars, left, histVars, runs,
                   faults>>

(***************************************************************************)
(* git worktree remove does not remove a tree with changes.  The branch    *)
(* stays.                                                                  *)
(***************************************************************************)
RemoveWorktree ==
    /\ Goto("remove", "forget")
    /\ ~dirty
    /\ NoWorktree
    /\ registered' = FALSE
    /\ UNCHANGED <<baseRef, base, branched, branch, made, meta, callVars, left, histVars, runs,
                   faults>>

RemoveWorktreeThrows ==
    /\ Goto("remove", "idle")
    /\ \/ dirty /\ UNCHANGED faults
       \/ Fault("git")
    /\ UNCHANGED <<baseRef, gitVars, treeVars, meta, callVars, left, histVars, runs>>

RemoveMetadata ==
    /\ Goto("forget", "idle")
    /\ meta' = "none"
    /\ UNCHANGED <<baseRef, gitVars, treeVars, callVars, left, histVars, runs, faults>>

RemoveMetadataThrows ==
    /\ Goto("forget", "idle")
    /\ Fault("disk")
    /\ UNCHANGED <<baseRef, gitVars, treeVars, meta, callVars, left, histVars, runs>>

-----------------------------------------------------------------------------
(***************************************************************************)
(* The daemon dies, and its agent may live on; or the machine goes down,   *)
(* in the middle of what the daemon awaits.                                *)
(***************************************************************************)
HalfCreated ==
    /\ pc = "add"
    /\ BranchAdded
    /\ registered' = TRUE
    /\ dir' = "half_created" /\ dirty' = TRUE
    /\ UNCHANGED <<base, made, head, detached, guard, meta>>

(* Files go in any order, the guard among them. *)
HalfRemoved ==
    /\ pc = "remove" /\ ~dirty
    /\ dir' = "half_removed" /\ dirty' = TRUE
    /\ guard' \in {guard, "none"}
    /\ UNCHANGED <<gitVars, head, detached, meta>>

TornFile ==
    \/ pc = "write_guard" /\ guard' = "torn" /\ UNCHANGED meta
    \/ pc = "write_meta" /\ meta' = "torn" /\ UNCHANGED guard

Crash ==
    /\ pc # "idle"
    /\ Fault("crash")
    /\ pc' = "idle"
    /\ \/ left' = (left \/ pc = "running") /\ UNCHANGED <<gitVars, treeVars, meta>>
       \/ /\ left' = FALSE
          /\ \/ HalfCreated \/ HalfRemoved
             \/ TornFile /\ UNCHANGED <<gitVars, dir, head, detached, dirty>>
             \/ UNCHANGED <<gitVars, treeVars, meta>>
    /\ UNCHANGED <<baseRef, callVars, histVars, runs>>

-----------------------------------------------------------------------------
Prepare ==
    \/ ReadMetadata \/ GitThrows("look")
    \/ PathMissing \/ PathExists
    \/ RemoveRegistration \/ GitThrows("register")
    \/ FindBranch \/ ForceBranch \/ GitThrows("force")
    \/ AddWorktree \/ AddWorktreeFails
    \/ ValidateGuard \/ ValidateWorktree \/ GitThrows("validate")
    \/ WriteGuard \/ WriteGuardThrows \/ WriteMetadata \/ WriteMetadataThrows
    \/ HooksEnd \/ HooksThrow

Cleanup ==
    \/ CheckGuard
    \/ Inspect \/ InspectMisreads \/ GitThrows("inspect")
    \/ BeforeRemove \/ BeforeRemoveThrows
    \/ Reinspect \/ GitThrows("reinspect")
    \/ RemoveWorktree \/ RemoveWorktreeThrows
    \/ RemoveMetadata \/ RemoveMetadataThrows

Worker == Edit \/ CommitWork \/ Detach

People == Advance \/ Merge \/ DeleteDirectory \/ DeleteRegistration

Next == Prepare \/ RunEnds \/ Cleanup \/ Worker \/ People \/ Crash

Spec == Init /\ [][Next]_vars

-----------------------------------------------------------------------------
(* The types of the variables. *)
TypeOK ==
    /\ baseRef \in {"HEAD", "named"}
    /\ base \subseteq Commit /\ branched \in BOOLEAN /\ branch \subseteq Commit
    /\ registered \in BOOLEAN /\ made \in 0..MaxCommits
    /\ dir \in Dir /\ head \in {"branch", "detached"} /\ detached \subseteq Commit
    /\ dirty \in BOOLEAN /\ guard \in File /\ meta \in File
    /\ pc \in Step /\ route \in Route /\ reuse \in BOOLEAN
    /\ existing \in {"none"} \cup Route
    /\ left \in BOOLEAN
    /\ seen \in 0..MaxCommits /\ misread \in BOOLEAN
    /\ runs \in 0..MaxRuns /\ faults \in 0..MaxFaults

(* What the daemon does, as opposed to agents, hooks and people. *)
DaemonStep == pc' # pc

(* The daemon never makes a commit unreachable that was on the card's branch or on
   the source ref (moveReusableBranchToSourceRef, git worktree remove). *)
RefsKept == [][DaemonStep => base \cup branch \subseteq base' \cup branch']_vars

(* Uncommitted changes survive whatever the daemon does, and even a crash
   (SPEC.md:1728, "Dirty worktrees MUST NOT be silently removed"). *)
DirtyKept == [][DaemonStep /\ dirty => dirty' /\ dir' = dir]_vars

(* An agent works only in a tree that git has checked out completely.  What a crash
   left of a removal is offered again only to one that reuses a dirty tree. *)
RunsInWholeCheckout ==
    pc = "running" => dir # "half_created" /\ (dir = "half_removed" => reuse)

(* Where base_ref names a branch and rev-list answered, the worktree that goes has on
   its HEAD no commit, of those the inspection could see, that is not merged. *)
MergedWhenRemoved ==
    [][pc = "remove" /\ dir' = "none" /\ baseRef = "named" /\ ~misread
         => Tip \cap 1..seen \subseteq base]_vars

Disturbed ==
    \/ dirty
    \/ head = "detached"
    \/ ~(branch \subseteq base)
    \/ dir # "none" /\ ~registered

(* Unless something failed, prepare refuses a workspace only because of what an agent
   or a person did to it: changes, commits, another HEAD, a lost registration. *)
RefusedForCause ==
    [][faults' = 0 /\ pc \in PrepareStep /\ pc' = "idle" => Disturbed]_vars

(* SPEC.md:1734, "Cleanup MUST preserve state when any local commit is unpushed, any
   branch is unmerged": whatever base_ref is, the worktree that goes has on its HEAD no
   commit, of those the inspection could see, that is not in the source ref (nothing is
   ever pushed here).  The code does not keep it. *)
UnmergedPreserved ==
    [][pc = "remove" /\ dir' = "none" /\ ~misread => Tip \cap 1..seen \subseteq base]_vars

=============================================================================
