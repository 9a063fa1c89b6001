----------------------------- MODULE SourceCache ----------------------------
(***************************************************************************)
(* Workspaces whose source is a git remote: the daemons of a machine       *)
(* resolve their sources in one cache (src/git-source-cache.js) and derive *)
(* a workspace's identity from what they find (src/workspace.js), before   *)
(* the claim and the run.                                                  *)
(*                                                                         *)
(* The cache's path is a digest of the remote's URL alone: sources of one  *)
(* URL share it, whatever their refs are, and so do the daemons.  Nothing  *)
(* is locked but by git itself: its index.lock keeps two resets or         *)
(* checkouts apart; a fetch empties FETCH_HEAD when it begins and adds its *)
(* line to it when it ends.                                                *)
(*                                                                         *)
(* A path without a .git belongs, for git, to the work tree around it, if  *)
(* there is one: by default the cache lies under .fizzy-symphony, next to  *)
(* the config file.  That tree is taken for a clone of the same remote.    *)
(***************************************************************************)
EXTENDS Naturals, Sequences, FiniteSets

CONSTANTS Daemon,       \* the daemon processes
          Card,
          Source,       \* workspaces.sources: one URL, each with its ref
          Ref,          \* refs of the remote
          RefOf,        \* a source's base_ref
          Surrounded,   \* the cache lies inside somebody's work tree
          MaxRevisions, \* bound: commits at the remote
          MaxResolves,  \* bound: resolutions in a behaviour
          MaxFailures   \* bound: commands that fail, processes killed

ASSUME SourceCacheAssumption ==
    /\ RefOf \in [Source -> Ref]
    /\ {"free", "stale"} \cap Daemon = {}
    /\ Surrounded \in BOOLEAN
    /\ MaxRevisions \in Nat /\ MaxResolves \in Nat /\ MaxFailures \in Nat

Revision == 1..MaxRevisions
Gone     == 0                    \* a ref the remote no longer has
Free     == "free"               \* index.lock: free, of a daemon, or left over
Stale    == "stale"

VARIABLES
    remote,    \* the commit a ref of the remote is at
    commits,   \* the commits the remote has made
    cacheDir,  \* the cache's directory: none, empty, unborn (no commit yet) or whole
    repo,      \* the cache's repository and the one around it
    edited,    \* there are uncommitted changes in the work tree around
    metadata,  \* the source_fetched_at in a workspace's metadata
    command,   \* the command a daemon's resolution is in
    job,       \* the card and source it resolves, the repository its git
               \* command works in, the commit and time it found
    clock,     \* resolutions so far, which serve as the time
    during,    \* history: the commits the ref was at during the fetch
    crossed,   \* history: another fetch has crossed this one
    disturbed, \* history: a fault, or another daemon, met this resolution
    removed,   \* history: a clone took the repository this resolution had used
    failures

remoteVars == <<remote, commits>>
historyVars == <<during, crossed, disturbed, removed>>
sourceVars == <<remoteVars, cacheDir, repo, edited, metadata, command, job, clock,
                historyVars, failures>>

NoRepo == [objects |-> {}, fetched |-> <<>>, lock |-> Free]
NoJob  == [card |-> "none", source |-> "none", where |-> "none", commit |-> Gone, at |-> 0]

(* The workspace key: a digest of the URL and the commit is part of it.    *)
Key == Card \X Source \X Revision

SourceInit ==
    /\ remote \in [Ref -> Revision]
    /\ commits = Cardinality({remote[r] : r \in Ref})
    /\ {remote[r] : r \in Ref} = 1..commits
    /\ cacheDir = "none"
    /\ repo = [r \in {"cache", "around"} |->
         IF r = "around" THEN [NoRepo EXCEPT !.objects = 1..commits] ELSE NoRepo]
    /\ edited = FALSE
    /\ metadata = [k \in Key |-> 0]
    /\ command = [d \in Daemon |-> "idle"] /\ job = [d \in Daemon |-> NoJob]
    /\ clock = 0
    /\ during = [d \in Daemon |-> {}] /\ crossed = [d \in Daemon |-> FALSE]
    /\ disturbed = [d \in Daemon |-> FALSE] /\ removed = [d \in Daemon |-> FALSE]
    /\ failures = 0

-----------------------------------------------------------------------------
AtCache == {"clone", "cloning", "assert", "reset", "resetting", "fetch", "fetching",
            "parse", "checkout", "checking"}

(* The repository a git command that begins in the cache's directory finds. *)
Found == CASE cacheDir \in {"unborn", "whole"} -> "cache"
           [] cacheDir = "empty" /\ Surrounded -> "around"
           [] OTHER -> "none"

RefFor(d) == RefOf[job[d].source]

To(d, step) == command' = [command EXCEPT ![d] = step]

(* runGit throws, and with it the resolution: the tick ends.               *)
GivesUp(d) == To(d, "idle") /\ job' = [job EXCEPT ![d] = NoJob]

(* Whoever else is at the cache is disturbed by this daemon and it by them. *)
Meets(d) ==
    disturbed' = [e \in Daemon |->
        \/ disturbed[e]
        \/ e # d /\ command[e] \in AtCache
        \/ e = d /\ \E o \in Daemon \ {d} : command[o] \in AtCache]

Calm == UNCHANGED <<remoteVars, metadata, clock, failures>>

CommandFault(d) ==
    /\ failures < MaxFailures /\ failures' = failures + 1
    /\ disturbed' = [disturbed EXCEPT ![d] = TRUE]
    /\ UNCHANGED <<remoteVars, metadata, clock>>

(* Others count on what the clone of this daemon takes from under them.    *)
Takes(d) ==
    removed' = [e \in Daemon |->
        removed[e] \/ (e # d /\ command[e] \notin {"idle", "clone", "assert"})]

-----------------------------------------------------------------------------
(* resolve of the source cache.                                            *)

(* Its directory is cloned if there is none.                               *)
Look(d, k, s) ==
    /\ command[d] = "idle" /\ clock < MaxResolves
    /\ clock' = clock + 1
    /\ job' = [job EXCEPT ![d] = [NoJob EXCEPT !.card = k, !.source = s]]
    /\ To(d, IF cacheDir = "none" THEN "clone" ELSE "assert")
    /\ disturbed' = [e \in Daemon |->
         IF e = d THEN \E o \in Daemon \ {d} : command[o] \in AtCache
         ELSE disturbed[e] \/ command[e] \in AtCache]
    /\ removed' = [removed EXCEPT ![d] = FALSE]
    /\ UNCHANGED <<remoteVars, cacheDir, repo, edited, metadata, during, crossed, failures>>

\* A slip: leftovers are cleared away before the clone.
ClonesAnew(d) ==
    /\ command[d] = "clone"
    /\ cacheDir' = "empty" /\ To(d, "cloning") /\ UNCHANGED job
    /\ UNCHANGED <<repo, edited, during, crossed, removed>> /\ Meets(d) /\ Calm

(* git makes the directory, and refuses one that is there (an empty one    *)
(* too, if it has just been made by another clone).                        *)
Clone(d) ==
    /\ command[d] = "clone"
    /\ IF cacheDir = "none"
       THEN cacheDir' = "empty" /\ To(d, "cloning") /\ UNCHANGED job
       ELSE GivesUp(d) /\ UNCHANGED cacheDir
    /\ UNCHANGED <<repo, edited, during, crossed, removed>> /\ Meets(d) /\ Calm

(* It then makes the repository, with the remote in its configuration.     *)
CloneInits(d) ==
    /\ command[d] = "cloning" /\ cacheDir = "empty"
    /\ cacheDir' = "unborn"
    /\ repo' = [repo EXCEPT !["cache"] = NoRepo]
    /\ Takes(d)
    /\ UNCHANGED <<edited, command, job, during, crossed>> /\ Meets(d) /\ Calm

(* It fetches every branch and checks one out.                             *)
Cloned(d) ==
    /\ command[d] = "cloning" /\ Found = "cache"
    /\ repo' = [repo EXCEPT !["cache"].objects = @ \cup ({remote[r] : r \in Ref} \ {Gone})]
    /\ IF repo["cache"].lock = Free
       THEN cacheDir' = "whole" /\ To(d, "reset") /\ UNCHANGED job
       ELSE GivesUp(d) /\ UNCHANGED cacheDir
    /\ UNCHANGED <<edited, during, crossed, removed>> /\ Meets(d) /\ Calm

(* A clone that fails removes what it has made, and a command that works   *)
(* in it fails.                                                            *)
CloneFails(d) ==
    /\ command[d] = "cloning" /\ To(d, "idle")
    /\ cacheDir' = "none"
    /\ repo' = [repo EXCEPT !["cache"] = NoRepo]
    /\ job' = [e \in Daemon |->
         IF e = d THEN NoJob
         ELSE IF job[e].where = "cache" THEN [job[e] EXCEPT !.where = "none"] ELSE job[e]]
    /\ Takes(d)
    /\ UNCHANGED <<edited, during, crossed>>
    /\ failures < MaxFailures /\ failures' = failures + 1
    /\ disturbed' = [e \in Daemon |-> disturbed[e] \/ command[e] \in AtCache]
    /\ UNCHANGED <<remoteVars, metadata, clock>>

\* A slip: the cache must have a commit.
AssertCommit(d) ==
    /\ command[d] = "assert"
    /\ IF Found # "none" /\ cacheDir # "unborn" THEN To(d, "reset") /\ UNCHANGED job ELSE GivesUp(d)
    /\ UNCHANGED <<cacheDir, repo, edited, during, crossed, removed>> /\ Meets(d) /\ Calm

(* assertGitRepository: git is asked whether this is inside a work tree.   *)
AssertGitRepository(d) ==
    /\ command[d] = "assert"
    /\ IF Found # "none" THEN To(d, "reset") /\ UNCHANGED job ELSE GivesUp(d)
    /\ UNCHANGED <<cacheDir, repo, edited, during, crossed, removed>> /\ Meets(d) /\ Calm

(* A command that takes the index, from where to where.                    *)
Locks(d, step, next) ==
    /\ command[d] = step
    /\ IF Found # "none" /\ repo[Found].lock = Free
       THEN /\ repo' = [repo EXCEPT ![Found].lock = d]
            /\ job' = [job EXCEPT ![d].where = Found]
            /\ To(d, next)
       ELSE GivesUp(d) /\ UNCHANGED repo
    /\ UNCHANGED <<cacheDir, edited, during, crossed, removed>> /\ Meets(d) /\ Calm

Unlocks(d) ==
    repo' = [r \in DOMAIN repo |->
        IF repo[r].lock = d THEN [repo[r] EXCEPT !.lock = Free] ELSE repo[r]]

(* The git command of this daemon ends in the repository it began in.      *)
Leaves(d, step) == job' = [job EXCEPT ![d].where = "none"] /\ To(d, step)

(* repairManagedRepository: reset, also where there is no commit yet, and  *)
(* clean, which concerns untracked files alone.                            *)
Reset(d) == Locks(d, "reset", "resetting")

ResetEnds(d) ==
    /\ command[d] = "resetting"
    /\ Unlocks(d)
    /\ edited' = (edited /\ job[d].where # "around")
    /\ IF job[d].where = "none" THEN GivesUp(d) ELSE Leaves(d, "fetch")
    /\ UNCHANGED <<cacheDir, during, crossed, removed>> /\ Meets(d) /\ Calm

Fetching == {"fetching", "parse"}

Fetch(d) ==
    /\ command[d] = "fetch"
    /\ IF Found = "none" THEN GivesUp(d) /\ UNCHANGED <<repo, during, crossed>>
       ELSE /\ repo' = [repo EXCEPT ![Found].fetched = <<>>]
            /\ during' = [during EXCEPT ![d] = {remote[RefFor(d)]} \ {Gone}]
            /\ crossed' = [e \in Daemon |->
                 IF e = d THEN \E o \in Daemon \ {d} : command[o] \in Fetching
                 ELSE crossed[e] \/ command[e] \in Fetching]
            /\ job' = [job EXCEPT ![d].where = Found]
            /\ To(d, "fetching")
    /\ UNCHANGED <<cacheDir, edited, removed>> /\ Meets(d) /\ Calm

FetchEnds(d) ==
    /\ command[d] = "fetching"
    /\ IF job[d].where = "none" \/ remote[RefFor(d)] = Gone
       THEN GivesUp(d) /\ UNCHANGED repo
       ELSE /\ repo' = [repo EXCEPT ![job[d].where].fetched = Append(@, remote[RefFor(d)]),
                                    ![job[d].where].objects = @ \cup {remote[RefFor(d)]}]
            /\ Leaves(d, "parse")
    /\ UNCHANGED <<cacheDir, edited, during, crossed, removed>> /\ Meets(d) /\ Calm

\* A slip: the commit is that of the newest thing fetched by anyone.
ParseNewest(d) ==
    /\ command[d] = "parse"
    /\ IF Found = "none" \/ repo[Found].fetched = <<>> THEN GivesUp(d)
       ELSE /\ job' = [job EXCEPT ![d].commit = CHOOSE c \in repo[Found].objects :
                                                   \A o \in repo[Found].objects : o <= c]
            /\ To(d, "checkout")
    /\ UNCHANGED <<cacheDir, repo, edited, during, crossed, removed>> /\ Meets(d) /\ Calm

(* rev-parse FETCH_HEAD: its first line.                                   *)
Parse(d) ==
    /\ command[d] = "parse"
    /\ IF Found = "none" \/ repo[Found].fetched = <<>> THEN GivesUp(d)
       ELSE /\ job' = [job EXCEPT ![d].commit = Head(repo[Found].fetched)]
            /\ To(d, "checkout")
    /\ UNCHANGED <<cacheDir, repo, edited, during, crossed, removed>> /\ Meets(d) /\ Calm

Checkout(d) == Locks(d, "checkout", "checking")

(* The work tree is at the commit, and cleaned; the time is taken.         *)
CheckoutEnds(d) ==
    /\ command[d] = "checking"
    /\ Unlocks(d)
    /\ IF job[d].where = "none" \/ job[d].commit \notin repo[job[d].where].objects
       THEN GivesUp(d) /\ UNCHANGED cacheDir
       ELSE /\ cacheDir' = IF job[d].where = "cache" THEN "whole" ELSE cacheDir
            /\ job' = [job EXCEPT ![d].where = "none", ![d].at = clock]
            /\ To(d, "preflight")
    /\ UNCHANGED <<edited, during, crossed, removed>> /\ Meets(d) /\ Calm

-----------------------------------------------------------------------------
(* preflightWorkspaceSource, which prepareWorkspace repeats; between the   *)
(* two the card is claimed, or the claim is refused.                       *)

Valid(d) == Found # "none" /\ job[d].commit \in repo[Found].objects

Rest == UNCHANGED <<cacheDir, repo, edited, historyVars>> /\ Calm

Preflight(d) ==
    /\ command[d] = "preflight"
    /\ IF Valid(d) THEN To(d, "claim") /\ UNCHANGED job ELSE GivesUp(d)
    /\ Rest

Claim(d) ==
    /\ command[d] = "claim"
    /\ (To(d, "prepare") /\ UNCHANGED job) \/ GivesUp(d)
    /\ Rest

KeyOf(d) == <<job[d].card, job[d].source, job[d].commit>>

(* The identity's digest, unlike its key, covers source_fetched_at.        *)
Matches(d) == metadata[KeyOf(d)] \in {0, job[d].at}

(* prepareWorkspace: metadata of another identity refuse the workspace;    *)
(* a worktree that is there is used again, and the metadata are rewritten. *)
PrepareWorkspace(d) ==
    /\ command[d] = "prepare"
    /\ metadata' = IF Matches(d) /\ Valid(d)
                   THEN [metadata EXCEPT ![KeyOf(d)] = job[d].at] ELSE metadata
    /\ GivesUp(d)
    /\ UNCHANGED <<cacheDir, repo, edited, historyVars, remoteVars, clock, failures>>

-----------------------------------------------------------------------------
(* A command fails, with its lock returned and no other effect.            *)
Fails(d) ==
    /\ command[d] \in AtCache \ {"cloning"}
    /\ Unlocks(d)
    /\ GivesUp(d) /\ CommandFault(d)
    /\ UNCHANGED <<cacheDir, edited, during, crossed, removed>>

(* The daemon is killed with its git command, which leaves a half-made     *)
(* clone or the index locked; the daemon is started again.                 *)
Killed(d) ==
    /\ command[d] # "idle"
    /\ repo' = [r \in DOMAIN repo |->
         IF repo[r].lock = d THEN [repo[r] EXCEPT !.lock = Stale] ELSE repo[r]]
    /\ GivesUp(d) /\ CommandFault(d)
    /\ UNCHANGED <<cacheDir, edited, during, crossed, removed>>

(* A push to the remote, which may also delete a ref.                      *)
Push(r) ==
    /\ \/ /\ commits < MaxRevisions /\ commits' = commits + 1
          /\ remote' = [remote EXCEPT ![r] = commits']
       \/ remote[r] # Gone /\ remote' = [remote EXCEPT ![r] = Gone] /\ UNCHANGED commits
    /\ during' = [d \in Daemon |->
         IF command[d] = "fetching" /\ RefFor(d) = r THEN during[d] \cup ({remote'[r]} \ {Gone})
         ELSE during[d]]
    /\ UNCHANGED <<cacheDir, repo, edited, metadata, command, job, clock,
                   crossed, disturbed, removed, failures>>

(* Somebody edits the work tree around the cache.                          *)
EditAround ==
    /\ Surrounded /\ ~edited
    /\ edited' = TRUE
    /\ UNCHANGED <<remoteVars, cacheDir, repo, metadata, command, job, clock, historyVars, failures>>

Resolve(d) ==
    \/ Clone(d) \/ CloneInits(d) \/ Cloned(d) \/ CloneFails(d)
    \/ AssertGitRepository(d) \/ Reset(d) \/ ResetEnds(d)
    \/ Fetch(d) \/ FetchEnds(d) \/ Parse(d) \/ Checkout(d) \/ CheckoutEnds(d)

SourceNext ==
    \/ \E d \in Daemon :
          \/ \E k \in Card, s \in Source : Look(d, k, s)
          \/ Resolve(d) \/ Preflight(d) \/ Claim(d) \/ PrepareWorkspace(d)
          \/ Fails(d) \/ Killed(d)
    \/ \E r \in Ref : Push(r)
    \/ EditAround

SourceSpec == SourceInit /\ [][SourceNext]_sourceVars

-----------------------------------------------------------------------------
(* The commit a daemon starts a worktree from is one the source's ref was  *)
(* at while it was fetched, unless another fetch crossed this one, or a    *)
(* clone took the repository between the fetch and rev-parse: then         *)
(* FETCH_HEAD may be that of another fetch.                                *)
FetchedFromRef ==
    \A d \in Daemon :
        command[d] \in {"checkout", "checking", "preflight", "claim", "prepare"} =>
            crossed[d] \/ removed[d] \/ job[d].commit \in during[d]

(* A source that was resolved stays usable until the worktree is made of   *)
(* it, whatever other daemons fetch, reset, check out or fail at, unless a *)
(* clone took the repository from under it: by failing, which removes the  *)
(* cache, or by making one where git had used the work tree around.        *)
StaysUsable ==
    \A d \in Daemon :
        command[d] \in {"preflight", "claim", "prepare"} => Valid(d) \/ removed[d]

(* What a kill leaves behind does not stop later resolutions: one that     *)
(* neither a fault nor another daemon met fails only if the ref is gone,   *)
(* the index was left locked, or the directory was left empty.             *)
FailsForCause ==
    [][\A d \in Daemon :
        command[d] \in AtCache /\ command'[d] = "idle" /\ ~disturbed'[d] =>
            \/ Found = "none" /\ cacheDir = "empty"
            \/ Found # "none" /\ repo[Found].lock = Stale
            \/ remote[RefFor(d)] = Gone]_sourceVars

-----------------------------------------------------------------------------
(* What documents say of the program, and the code does not keep.          *)

(* A resolution changes only its cache: nobody's changes to a work tree    *)
(* around it are lost.  The error assertGitRepository raises otherwise     *)
(* says that the cache "is not a Git work tree".                           *)
SparesOthers == [][edited => edited']_sourceVars

(* SPEC.md:949, the worktree of a card and commit is used again: prepare    *)
(* refuses none that was made for the same card, source and commit.        *)
WorktreeReused == [][\A d \in Daemon :
    command[d] = "prepare" /\ command'[d] = "idle" /\ Valid(d) /\ failures' = failures =>
        Matches(d)]_sourceVars
=============================================================================
