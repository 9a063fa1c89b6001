------------------------------- MODULE Claims -------------------------------
(***************************************************************************)
(* The board-native claim protocol: several daemons compete for one card   *)
(* through the comments on it.  The module composes the three pieces of    *)
(* code that together decide who may work on the card:                     *)
(*                                                                         *)
(*   - createBoardClaimStore (src/claims.js): acquire, renew, release;     *)
(*   - the renewal timer of the orchestrator (src/orchestrator-state.js);  *)
(*   - the part of a reconciliation tick and of runCard                    *)
(*     (src/reconciler.js) that calls them.                                *)
(*                                                                         *)
(* One action is the code between two awaits on the board.  A request to   *)
(* the board may fail with or without having taken effect, a daemon may    *)
(* crash at any await, and each daemon reads a clock of its own.           *)
(***************************************************************************)
EXTENDS ClaimLog

CONSTANTS Daemon,          \* the daemons configured for the card's board
          NoDaemon,        \* "no daemon drew this claim_id yet"
          Offset,          \* how far each daemon's clock is ahead of the board's
          Lease,           \* claims.lease_ms
          RenewInterval,   \* claims.renew_interval_ms
          StealGrace,      \* claims.steal_grace_ms
          MaxTime,         \* bound: the clock stops here
          MaxComments,     \* bound: claim comments on the card
          MaxFaults        \* bound: failed requests and crashes in a behaviour

ASSUME ClaimsAssumption ==
    /\ NoDaemon \notin Daemon
    /\ 0 \notin ClaimId
    /\ Offset \in [Daemon -> Nat]
    /\ Lease \in Nat \ {0}
    /\ RenewInterval \in Nat \ {0}
    /\ StealGrace \in Nat
    /\ MaxTime \in Nat
    /\ MaxComments \in Nat
    /\ MaxFaults \in Nat

None == 0   \* no claim

VARIABLES
    clock,     \* time on the board
    log,       \* the claim comments on the card
    owner,     \* owner[c]: the daemon that drew claim_id c (its instance_id)
    claim,     \* claim[c]: the claim object in its daemon's memory (run.claim)
    renewal,   \* renewal[c]: the renewal timer or call in flight for claim c
    phase,     \* phase[d]: where daemon d's tick is
    tickNow,   \* tickNow[d]: startedAt, read once when the tick starts
    wakeAt,    \* wakeAt[d]: when the sleep of the steal grace ends
    mine,      \* mine[d]: the claim the tick is acquiring or working under
    seen,      \* seen[d]: how many comments the last listing before a claim returned
    faults,    \* failed requests and crashes so far, for MaxFaults
    raced      \* history: a claim or a renewal was posted too late for its lease

boardVars == <<clock, log, owner>>
tickVars  == <<phase, tickNow, wakeAt, mine, seen>>
histVars  == <<faults, raced>>
vars == <<boardVars, claim, renewal, tickVars, histVars>>

(***************************************************************************)
(* Phases of acquire, then of the run that follows.  "preparing" is        *)
(* everything runCard does before the first turn starts: until then no     *)
(* renewal timer exists.  In "completing" the turn has ended well and the  *)
(* result is being handed off; "failing" is the catch block.               *)
(***************************************************************************)
AcquirePhase == {"read", "grace", "post", "reread", "lost"}
RunPhase     == {"preparing", "turn", "completing", "failing"}
Phase        == {"idle"} \cup AcquirePhase \cup RunPhase

RenewalPc == {"off", "armed", "verify", "post", "recheck", "post_lost"}
InFlight  == {"verify", "post", "recheck", "post_lost"}

LocalClaim == [started : Nat, expires : Nat]
Renewal    == [pc : RenewalPc, now : Nat, due : Nat]

NoClaim   == [started |-> 0, expires |-> 0]
NoRenewal == [pc |-> "off", now |-> 0, due |-> 0]

Now(d) == clock + Offset[d]   \* new Date() in daemon d

(***************************************************************************)
(* The daemon at work on the card under claim c, and the claims whose run  *)
(* is in the orchestrator's activeRuns.                                    *)
(***************************************************************************)
WorksUnder(d, c) == mine[d] = c /\ phase[d] \in {"preparing", "turn", "completing"}
Working(c) == \E d \in Daemon : WorksUnder(d, c)
Active(c) == \E d \in Daemon : mine[d] = c /\ phase[d] \in {"turn", "completing"}
Remembered(c) == \E d \in Daemon : mine[d] = c

Comment(c, status, started, expires) ==
    [claim |-> c, status |-> status, started |-> started, expires |-> expires]

(***************************************************************************)
(* A post that succeeds appends the comment.  One that fails may have      *)
(* reached the board all the same.                                         *)
(***************************************************************************)
Post(event) ==
    /\ Len(log) < MaxComments
    /\ log' = Append(log, event)

PostFails(event) == UNCHANGED log \/ Post(event)

Fault == faults < MaxFaults /\ faults' = faults + 1

(***************************************************************************)
(* The two ways a post comes too late: a claim with no more of its lease   *)
(* left than clocks may differ by, and a renewal of a lease that has run   *)
(* out on the board.                                                       *)
(***************************************************************************)
StaleClaim(d)  == tickNow[d] + Lease <= clock + MaxClockSkew
LateRenewal(c) == State(log, c).expires <= clock

Init ==
    /\ clock = 0
    /\ faults = 0
    /\ raced = FALSE
    /\ log = <<>>
    /\ owner = [c \in ClaimId |-> NoDaemon]
    /\ claim = [c \in ClaimId |-> NoClaim]
    /\ renewal = [c \in ClaimId |-> NoRenewal]
    /\ phase = [d \in Daemon |-> "idle"]
    /\ tickNow = [d \in Daemon |-> 0]
    /\ wakeAt = [d \in Daemon |-> 0]
    /\ mine = [d \in Daemon |-> None]
    /\ seen = [d \in Daemon |-> 0]

-----------------------------------------------------------------------------
(***************************************************************************)
(* The end of a tick: the local variables of acquire and runCard are gone. *)
(* The claim object stays for as long as a renewal in flight refers to it. *)
(***************************************************************************)
EndTick(d) ==
    /\ phase' = [phase EXCEPT ![d] = "idle"]
    /\ tickNow' = [tickNow EXCEPT ![d] = 0]
    /\ wakeAt' = [wakeAt EXCEPT ![d] = 0]
    /\ mine' = [mine EXCEPT ![d] = None]
    /\ seen' = [seen EXCEPT ![d] = 0]

ForgetClaim(c) ==
    claim' = [claim EXCEPT ![c] = IF renewal[c].pc \in InFlight THEN @ ELSE NoClaim]

(***************************************************************************)
(* runReconciliationTick: startedAt is read once and passed to every       *)
(* acquire of the tick.  Cards dispatched earlier in the same tick run to  *)
(* their end before this card's acquire, so any time may pass between the  *)
(* two.                                                                    *)
(***************************************************************************)
BeginTick(d) ==
    /\ phase[d] = "idle"
    /\ phase' = [phase EXCEPT ![d] = "read"]
    /\ tickNow' = [tickNow EXCEPT ![d] = Now(d)]
    /\ UNCHANGED <<boardVars, claim, renewal, wakeAt, mine, seen, histVars>>

(* Slip: expired claims are stolen at once, without the grace. *)
InitialReadNoGrace(d) ==
    /\ phase[d] = "read"
    /\ UNCHANGED <<boardVars, claim, renewal, histVars>>
    /\ IF Unexpired(log, tickNow[d]) # {}
       THEN EndTick(d)
       ELSE /\ phase' = [phase EXCEPT ![d] = "post"]
            /\ seen' = [seen EXCEPT ![d] = Len(log)]
            /\ UNCHANGED <<tickNow, wakeAt, mine>>

(***************************************************************************)
(* acquire: the first listing.  A live unexpired claim blocks; expired     *)
(* ones may be stolen after the grace; no live claim at all goes straight  *)
(* to posting.                                                             *)
(***************************************************************************)
InitialRead(d) ==
    /\ phase[d] = "read"
    /\ UNCHANGED <<boardVars, claim, renewal, histVars>>
    /\ \/ /\ Unexpired(log, tickNow[d]) # {}
          /\ EndTick(d)
       \/ /\ Live(log) = {} \/ (Unexpired(log, tickNow[d]) = {} /\ StealGrace = 0)
          /\ phase' = [phase EXCEPT ![d] = "post"]
          /\ seen' = [seen EXCEPT ![d] = Len(log)]
          /\ UNCHANGED <<tickNow, wakeAt, mine>>
       \/ /\ Unexpired(log, tickNow[d]) = {}
          /\ Live(log) # {}
          /\ StealGrace > 0
          /\ phase' = [phase EXCEPT ![d] = "grace"]
          /\ wakeAt' = [wakeAt EXCEPT ![d] = clock + StealGrace]
          /\ UNCHANGED <<tickNow, mine, seen>>

(* Slip: once they look expired, claims are stolen without sleeping or listing again. *)
GraceStaleRead(d) ==
    /\ phase[d] = "grace"
    /\ phase' = [phase EXCEPT ![d] = "post"]
    /\ wakeAt' = [wakeAt EXCEPT ![d] = 0]
    /\ seen' = [seen EXCEPT ![d] = Len(log)]
    /\ UNCHANGED <<boardVars, claim, renewal, tickNow, mine, histVars>>

(***************************************************************************)
(* acquire: the listing after the grace.  The time it judges expiry by is  *)
(* still the tick's startedAt.                                             *)
(***************************************************************************)
GraceReread(d) ==
    /\ phase[d] = "grace"
    /\ clock >= wakeAt[d]
    /\ UNCHANGED <<boardVars, claim, renewal, histVars>>
    /\ \/ /\ Unexpired(log, tickNow[d]) # {}
          /\ EndTick(d)
       \/ /\ Unexpired(log, tickNow[d]) = {}
          /\ phase' = [phase EXCEPT ![d] = "post"]
          /\ wakeAt' = [wakeAt EXCEPT ![d] = 0]
          /\ seen' = [seen EXCEPT ![d] = Len(log)]
          /\ UNCHANGED <<tickNow, mine>>

(***************************************************************************)
(* acquire: createClaimMarker draws a fresh claim_id and dates the claim   *)
(* from the tick's startedAt; then the comment is posted.                  *)
(***************************************************************************)
ClaimComment(d, c) == Comment(c, "claimed", tickNow[d], tickNow[d] + Lease)

Fresh(c) == owner[c] = NoDaemon

PostClaim(d, c) ==
    /\ phase[d] = "post"
    /\ Fresh(c)
    /\ owner' = [owner EXCEPT ![c] = d]
    /\ Post(ClaimComment(d, c))
    /\ claim' = [claim EXCEPT ![c] = [started |-> tickNow[d],
                                      expires |-> tickNow[d] + Lease]]
    /\ phase' = [phase EXCEPT ![d] = "reread"]
    /\ mine' = [mine EXCEPT ![d] = c]
    /\ seen' = [seen EXCEPT ![d] = 0]
    /\ raced' = (raced \/ StaleClaim(d))
    /\ UNCHANGED <<clock, renewal, tickNow, wakeAt, faults>>

(***************************************************************************)
(* The post throws: acquire rejects, the tick ends, and the claim may be   *)
(* on the board with nobody behind it.                                     *)
(***************************************************************************)
PostClaimFails(d, c) ==
    /\ phase[d] = "post"
    /\ Fault
    /\ Fresh(c)
    /\ owner' = [owner EXCEPT ![c] = d]
    /\ PostFails(ClaimComment(d, c))
    /\ EndTick(d)
    /\ raced' = (raced \/ StaleClaim(d))
    /\ UNCHANGED <<clock, claim, renewal>>

(***************************************************************************)
(* acquire: list again and see who won.  The winner goes on to runCard.    *)
(***************************************************************************)
Reread(d) ==
    /\ phase[d] = "reread"
    /\ \E winner \in Winners(log, tickNow[d]) :
          phase' = [phase EXCEPT ![d] = IF winner = mine[d] THEN "preparing" ELSE "lost"]
    /\ tickNow' = [tickNow EXCEPT ![d] = 0]
    /\ UNCHANGED <<boardVars, claim, renewal, wakeAt, mine, seen, histVars>>

(***************************************************************************)
(* postLostClaim: best effort, errors are swallowed.                       *)
(***************************************************************************)
LostComment(c) == Comment(c, "lost", claim[c].started, claim[c].expires)

PostLost(d) ==
    /\ phase[d] = "lost"
    /\ Post(LostComment(mine[d]))
    /\ EndTick(d)
    /\ ForgetClaim(mine[d])
    /\ UNCHANGED <<clock, owner, renewal, histVars>>

PostLostFails(d) ==
    /\ phase[d] = "lost"
    /\ Fault
    /\ PostFails(LostComment(mine[d]))
    /\ EndTick(d)
    /\ ForgetClaim(mine[d])
    /\ UNCHANGED <<clock, owner, renewal, raced>>

(***************************************************************************)
(* A listing throws, or assignAndWatch does after the claim was won:       *)
(* acquire rejects and the tick ends.                                      *)
(***************************************************************************)
AcquireThrows(d) ==
    /\ phase[d] \in {"read", "grace", "reread"}
    /\ Fault
    /\ phase[d] = "grace" => clock >= wakeAt[d]
    /\ EndTick(d)
    /\ IF mine[d] = None THEN UNCHANGED claim ELSE ForgetClaim(mine[d])
    /\ UNCHANGED <<boardVars, renewal, raced>>

-----------------------------------------------------------------------------
(***************************************************************************)
(* runSameThreadTurns: the turn starts and orchestratorState.startRun arms *)
(* the renewal timer.                                                      *)
(***************************************************************************)
StartTurn(d) ==
    /\ phase[d] = "preparing"
    /\ phase' = [phase EXCEPT ![d] = "turn"]
    /\ renewal' = [renewal EXCEPT ![mine[d]] =
                      [pc |-> "armed", now |-> 0, due |-> Now(d) + RenewInterval]]
    /\ UNCHANGED <<boardVars, claim, tickNow, wakeAt, mine, seen, histVars>>

TurnCompletes(d) ==
    /\ phase[d] = "turn"
    /\ phase' = [phase EXCEPT ![d] = "completing"]
    /\ UNCHANGED <<boardVars, claim, renewal, tickNow, wakeAt, mine, seen, histVars>>

(***************************************************************************)
(* clearRunTimers: an armed timer is cleared, a call in flight goes on.    *)
(***************************************************************************)
ClearTimer(c) ==
    renewal' = [renewal EXCEPT ![c] = IF @.pc = "armed" THEN NoRenewal ELSE @]

(***************************************************************************)
(* The catch block of runCard: recordFailure drops the run and its timers  *)
(* before the claim is released.                                           *)
(***************************************************************************)
RunFails(d) ==
    /\ phase[d] \in {"preparing", "turn", "completing"}
    /\ phase' = [phase EXCEPT ![d] = "failing"]
    /\ ClearTimer(mine[d])
    /\ UNCHANGED <<boardVars, claim, tickNow, wakeAt, mine, seen, histVars>>

(***************************************************************************)
(* release: runCard passes the claim as acquired, not as renewed.  On the  *)
(* success path completeRun, which clears the timers, comes after it.  A   *)
(* failed release is recorded as release_failed and the run ends.          *)
(***************************************************************************)
ReleaseComment(d) ==
    Comment(mine[d], IF phase[d] = "completing" THEN "completed" ELSE "failed",
            claim[mine[d]].started, claim[mine[d]].started + Lease)

Release(d) ==
    /\ phase[d] \in {"completing", "failing"}
    /\ Post(ReleaseComment(d))
    /\ ClearTimer(mine[d])
    /\ ForgetClaim(mine[d])
    /\ EndTick(d)
    /\ UNCHANGED <<clock, owner, histVars>>

ReleaseFails(d) ==
    /\ phase[d] \in {"completing", "failing"}
    /\ Fault
    /\ PostFails(ReleaseComment(d))
    /\ ClearTimer(mine[d])
    /\ ForgetClaim(mine[d])
    /\ EndTick(d)
    /\ UNCHANGED <<clock, owner, raced>>

-----------------------------------------------------------------------------
(* Slip: the timer of a run that ended meanwhile goes on renewing. *)
RearmedAlways(c) ==
    [pc |-> "armed", now |-> 0, due |-> Now(owner[c]) + RenewInterval]

(***************************************************************************)
(* scheduleRenewal after a renewal attempt.  For a run that has left       *)
(* activeRuns the timer it sets does nothing when it fires.                *)
(***************************************************************************)
Rearmed(c) ==
    IF Active(c)
    THEN [pc |-> "armed", now |-> 0, due |-> Now(owner[c]) + RenewInterval]
    ELSE NoRenewal

(***************************************************************************)
(* handleRenewalFailure with the claim the renewal attempt returned.  Past *)
(* the local expiry the run is cancelled: the runner's cancel makes a turn *)
(* that is still streaming fail; a run past its turn is only dropped from  *)
(* activeRuns and goes on.                                                 *)
(***************************************************************************)
HandleRenewalFailure(c, update) ==
    /\ claim' = [claim EXCEPT ![c] = IF Remembered(c) THEN update ELSE NoClaim]
    /\ IF update.expires <= Now(owner[c])
       THEN /\ renewal' = [renewal EXCEPT ![c] = NoRenewal]
            /\ phase' = [d \in Daemon |-> IF mine[d] = c /\ phase[d] = "turn"
                                          THEN "failing" ELSE phase[d]]
       ELSE /\ renewal' = [renewal EXCEPT ![c] = Rearmed(c)]
            /\ UNCHANGED phase

(***************************************************************************)
(* renewClaimNow, called by the timer: renew takes its time from the clock *)
(* here and uses it to the end of the attempt.                             *)
(***************************************************************************)
RenewFires(c) ==
    /\ renewal[c].pc = "armed"
    /\ Now(owner[c]) >= renewal[c].due
    /\ renewal' = [renewal EXCEPT ![c] = [pc |-> "verify", now |-> Now(owner[c]), due |-> 0]]
    /\ UNCHANGED <<boardVars, claim, tickVars, histVars>>

(***************************************************************************)
(* renew: verifyRenewableClaim before writing.  A listing that throws, or  *)
(* a claim that may not be renewed, leaves the local expiry as it was.     *)
(***************************************************************************)
RenewVerify(c) ==
    /\ renewal[c].pc = "verify"
    /\ UNCHANGED <<boardVars, tickNow, wakeAt, mine, seen, histVars>>
    /\ LET now == renewal[c].now
           winners == Winners(log, now) \cup (IF Unexpired(log, now) = {} THEN {None} ELSE {})
       IN  \E winner \in winners :
              \/ /\ Renewable(log, c, winner, now)
                 /\ renewal' = [renewal EXCEPT ![c].pc = "post"]
                 /\ UNCHANGED <<claim, phase>>
              \/ /\ ~Renewable(log, c, winner, now)
                 /\ HandleRenewalFailure(c, claim[c])

RenewVerifyThrows(c) ==
    /\ renewal[c].pc = "verify"
    /\ Fault
    /\ HandleRenewalFailure(c, claim[c])
    /\ UNCHANGED <<boardVars, tickNow, wakeAt, mine, seen, raced>>

(***************************************************************************)
(* The marker a renewal posts, as a claim: the expiry is already the new   *)
(* one, whatever becomes of the post.                                      *)
(***************************************************************************)
RenewedClaim(c) ==
    [started |-> claim[c].started, expires |-> renewal[c].now + Lease]

RenewComment(c, status) ==
    Comment(c, status, claim[c].started, renewal[c].now + Lease)

RenewPost(c) ==
    /\ renewal[c].pc = "post"
    /\ Post(RenewComment(c, "renewed"))
    /\ renewal' = [renewal EXCEPT ![c].pc = "recheck"]
    /\ raced' = (raced \/ LateRenewal(c))
    /\ UNCHANGED <<clock, owner, claim, tickVars, faults>>

(***************************************************************************)
(* renewalFailure(marker.claim, error): the claim that goes back to the    *)
(* orchestrator carries the new expiry although the post failed.           *)
(***************************************************************************)
RenewPostFails(c) ==
    /\ renewal[c].pc = "post"
    /\ Fault
    /\ PostFails(RenewComment(c, "renewed"))
    /\ HandleRenewalFailure(c, RenewedClaim(c))
    /\ raced' = (raced \/ (log' # log /\ LateRenewal(c)))
    /\ UNCHANGED <<clock, owner, tickNow, wakeAt, mine, seen>>

(***************************************************************************)
(* renew: verifyRenewableClaim after writing.                              *)
(***************************************************************************)
RenewRecheck(c) ==
    /\ renewal[c].pc = "recheck"
    /\ UNCHANGED <<boardVars, tickVars, histVars>>
    /\ LET now == renewal[c].now
           winners == Winners(log, now) \cup (IF Unexpired(log, now) = {} THEN {None} ELSE {})
       IN  \E winner \in winners :
              \/ /\ Renewable(log, c, winner, now)
                 /\ claim' = [claim EXCEPT ![c] = IF Remembered(c) THEN RenewedClaim(c)
                                                                 ELSE NoClaim]
                 /\ renewal' = [renewal EXCEPT ![c] = Rearmed(c)]
              \/ /\ ~Renewable(log, c, winner, now)
                 /\ renewal' = [renewal EXCEPT ![c].pc = "post_lost"]
                 /\ UNCHANGED claim

RenewRecheckThrows(c) ==
    /\ renewal[c].pc = "recheck"
    /\ Fault
    /\ HandleRenewalFailure(c, RenewedClaim(c))
    /\ UNCHANGED <<boardVars, tickNow, wakeAt, mine, seen, raced>>

RenewPostLost(c) ==
    /\ renewal[c].pc = "post_lost"
    /\ Post(RenewComment(c, "lost"))
    /\ HandleRenewalFailure(c, RenewedClaim(c))
    /\ UNCHANGED <<clock, owner, tickNow, wakeAt, mine, seen, histVars>>

RenewPostLostFails(c) ==
    /\ renewal[c].pc = "post_lost"
    /\ Fault
    /\ PostFails(RenewComment(c, "lost"))
    /\ HandleRenewalFailure(c, RenewedClaim(c))
    /\ UNCHANGED <<clock, owner, tickNow, wakeAt, mine, seen, raced>>

-----------------------------------------------------------------------------
(***************************************************************************)
(* The process dies and is restarted: ticks, runs and timers are gone, the *)
(* comments stay.  Startup recovery only reports what it finds.            *)
(***************************************************************************)
Crash(d) ==
    /\ phase[d] # "idle" \/ \E c \in ClaimId : owner[c] = d /\ renewal[c].pc # "off"
    /\ Fault
    /\ EndTick(d)
    /\ renewal' = [c \in ClaimId |-> IF owner[c] = d THEN NoRenewal ELSE renewal[c]]
    /\ claim' = [c \in ClaimId |-> IF owner[c] = d THEN NoClaim ELSE claim[c]]
    /\ UNCHANGED <<boardVars, raced>>

Tick ==
    /\ clock < MaxTime
    /\ clock' = clock + 1
    /\ UNCHANGED <<log, owner, claim, renewal, tickVars, histVars>>

DaemonStep(d) ==
    \/ BeginTick(d)
    \/ InitialRead(d)
    \/ GraceReread(d)
    \/ \E c \in ClaimId : PostClaim(d, c) \/ PostClaimFails(d, c)
    \/ Reread(d)
    \/ PostLost(d)
    \/ PostLostFails(d)
    \/ AcquireThrows(d)
    \/ StartTurn(d)
    \/ TurnCompletes(d)
    \/ RunFails(d)
    \/ Release(d)
    \/ ReleaseFails(d)
    \/ Crash(d)

RenewalStep(c) ==
    \/ RenewFires(c)
    \/ RenewVerify(c)
    \/ RenewVerifyThrows(c)
    \/ RenewPost(c)
    \/ RenewPostFails(c)
    \/ RenewRecheck(c)
    \/ RenewRecheckThrows(c)
    \/ RenewPostLost(c)
    \/ RenewPostLostFails(c)

Next ==
    \/ \E d \in Daemon : DaemonStep(d)
    \/ \E c \in ClaimId : RenewalStep(c)
    \/ Tick

Spec == Init /\ [][Next]_vars

-----------------------------------------------------------------------------
(***************************************************************************)
(* Every variable stays in its type.                                       *)
(***************************************************************************)
TypeOK ==
    /\ clock \in Nat
    /\ faults \in Nat
    /\ raced \in BOOLEAN
    /\ log \in Seq(ClaimEvent)
    /\ owner \in [ClaimId -> Daemon \cup {NoDaemon}]
    /\ claim \in [ClaimId -> LocalClaim]
    /\ renewal \in [ClaimId -> Renewal]
    /\ phase \in [Daemon -> Phase]
    /\ tickNow \in [Daemon -> Nat]
    /\ wakeAt \in [Daemon -> Nat]
    /\ mine \in [Daemon -> ClaimId \cup {None}]
    /\ seen \in [Daemon -> Nat]

-----------------------------------------------------------------------------
(* Safety. *)

(***************************************************************************)
(* SPEC.md:1533, "Board-native claims MUST prevent two different local     *)
(* configs from working the same card": no two daemons work under claims   *)
(* that are both live and unexpired on the board.  The code does not keep  *)
(* it; ExclusiveUnlessRaced says what it does keep.                        *)
(***************************************************************************)
DoubleHold(c, e) ==
    /\ c # e
    /\ Working(c) /\ Working(e)
    /\ {c, e} \subseteq Unexpired(log, clock)

MutualExclusion == \A c, e \in ClaimId : ~DoubleHold(c, e)

(***************************************************************************)
(* The third way to race: a claim that reaches the board after one that it *)
(* outranks (dated earlier, or a tie within the skew with a smaller id).   *)
(***************************************************************************)
Backdated ==
    \E c, e \in Claims(log) :
        FirstIndex(log, c) < FirstIndex(log, e) /\ Beats(log, e, c)

(***************************************************************************)
(* Where no claim was backdated or stale and no renewal late, the listing  *)
(* before the claim, the grace (no shorter than the clocks are apart), the *)
(* listing after it and the renewals together keep a card to one working   *)
(* claim at a time.                                                        *)
(***************************************************************************)
ExclusiveUnlessRaced == raced \/ Backdated \/ MutualExclusion

(***************************************************************************)
(* SPEC.md:1550, steal after the grace and only if still expired: when a   *)
(* daemon posts a claim, every live claim on the board either is past its  *)
(* expiry and the grace by the daemon's own clock, or was posted or        *)
(* renewed after the daemon's last listing.                                *)
(***************************************************************************)
StealRespectsGrace ==
    [][\A d \in Daemon :
          phase[d] = "post" /\ phase'[d] = "reread" =>
             \A c \in Live(log) :
                \/ LastIndex(log, c) > seen[d]
                \/ State(log, c).expires + StealGrace <= Now(d)]_vars

(***************************************************************************)
(* A renewal in flight when its run is released may post after the         *)
(* terminal comment and make the claim live again.  It happens at most     *)
(* once per claim: no timer of an ended run starts another renewal.        *)
(***************************************************************************)
Resurrections(c) ==
    {i \in EventsOf(log, c) :
        /\ log[i].status \in LiveStatus
        /\ \E j \in EventsOf(log, c) : j < i /\ log[j].status \in TerminalStatus}

AtMostOneResurrection == \A c \in ClaimId : Cardinality(Resurrections(c)) <= 1

(***************************************************************************)
(* A failed renewal post moves the run's local expiry although the board's *)
(* stays, so a run may believe in a lease the board has ended; but never   *)
(* by a whole lease, because a renewal only starts from an unexpired one.  *)
(***************************************************************************)
OverrunBounded ==
    \A c \in ClaimId :
        Working(c) => claim[c].expires < State(log, c).expires + Lease

=============================================================================
