---------------------------- MODULE ClaimsProofs ----------------------------
(***************************************************************************)
(* Theorems about Claims, for any number of daemons, any claim             *)
(* identifiers, any lease and grace, and any clock offsets.                *)
(***************************************************************************)
EXTENDS Claims, FiniteSetTheorems, WellFoundedInduction, TLAPS

(***************************************************************************)
(* The types of the constants, as the modules assume them.                 *)
(***************************************************************************)
LEMMA ConstantTypes ==
    /\ 0 \notin ClaimId /\ NoDaemon \notin Daemon
    /\ Offset \in [Daemon -> Nat]
    /\ Lease \in Nat /\ Lease > 0
    /\ RenewInterval \in Nat /\ StealGrace \in Nat
BY ClaimsAssumption

USE ConstantTypes

-----------------------------------------------------------------------------
(* The inductive invariant of type correctness. *)

(***************************************************************************)
(* The phases in which a tick has a claim of its own.                      *)
(***************************************************************************)
Holding == {"reread", "lost"} \cup RunPhase

(***************************************************************************)
(* A tick's claim was drawn by its own daemon, and only a drawn claim has  *)
(* a renewal: without it a comment might carry no claim_id, and a timer be *)
(* set by no one's clock.                                                  *)
(***************************************************************************)
Attributed ==
    /\ \A d \in Daemon :
          IF phase[d] \in Holding
          THEN mine[d] \in ClaimId /\ owner[mine[d]] = d
          ELSE mine[d] = None
    /\ \A c \in ClaimId : renewal[c].pc # "off" => owner[c] \in Daemon

TypeInv == TypeOK /\ Attributed

LEMMA NowIsNat ==
    ASSUME TypeOK, NEW d \in Daemon
    PROVE  Now(d) \in Nat
BY DEF TypeOK, Now

LEMMA NowGrows ==
    ASSUME TypeOK, TypeOK', clock' >= clock
    PROVE  \A d \in Daemon : /\ Now(d) \in Nat /\ clock' + Offset[d] \in Nat
                             /\ clock' + Offset[d] >= Now(d)
<1>1. clock \in Nat /\ clock' \in Nat /\ \A d \in Daemon : Offset[d] \in Nat
    BY DEF TypeOK
<1>. QED
    BY <1>1 DEF Now

LEMMA CommentType ==
    ASSUME NEW c \in ClaimId, NEW s \in Status, NEW b \in Nat, NEW e \in Nat
    PROVE  Comment(c, s, b, e) \in ClaimEvent
BY DEF Comment, ClaimEvent

LEMMA PostType ==
    ASSUME TypeOK, NEW event \in ClaimEvent, PostFails(event)
    PROVE  log' \in Seq(ClaimEvent)
<1>1. log \in Seq(ClaimEvent)
    BY DEF TypeOK
<1>2. Append(log, event) \in Seq(ClaimEvent)
    BY <1>1
<1>3. log' = log \/ log' = Append(log, event)
    BY DEF PostFails, Post
<1>. QED
    BY <1>1, <1>2, <1>3


LEMMA RenewalTypes == NoClaim \in LocalClaim /\ NoRenewal \in Renewal
BY DEF LocalClaim, Renewal, RenewalPc, NoClaim, NoRenewal

LEMMA FaultType ==
    ASSUME TypeOK, Fault
    PROVE  faults' \in Nat
BY DEF TypeOK, Fault

LEMMA TypeInit == Init => TypeInv
<1>. SUFFICES ASSUME Init
              PROVE  TypeInv
    OBVIOUS
<1>1. log \in Seq(ClaimEvent)
    BY DEF Init
<1>2. claim \in [ClaimId -> LocalClaim] /\ renewal \in [ClaimId -> Renewal]
    BY RenewalTypes DEF Init
<1>3. TypeOK
    BY <1>1, <1>2 DEF Init, TypeOK, Phase, None
<1>4. Attributed
    BY DEF Init, Attributed, Holding, RunPhase, NoRenewal
<1>. QED
    BY <1>3, <1>4 DEF TypeInv

LEMMA EndTickInv ==
    ASSUME TypeInv, NEW d \in Daemon, EndTick(d),
           \A e \in Daemon : e # d => (mine[e] \in ClaimId => owner'[mine[e]] = owner[mine[e]])
    PROVE  /\ phase' \in [Daemon -> Phase]
           /\ tickNow' \in [Daemon -> Nat]
           /\ wakeAt' \in [Daemon -> Nat]
           /\ mine' \in [Daemon -> ClaimId \cup {None}]
           /\ seen' \in [Daemon -> Nat]
           /\ \A e \in Daemon :
                 IF phase'[e] \in Holding
                 THEN mine'[e] \in ClaimId /\ owner'[mine'[e]] = e
                 ELSE mine'[e] = None
BY DEF TypeInv, TypeOK, Attributed, EndTick, Holding, RunPhase, Phase, None

LEMMA ForgetClaimType ==
    ASSUME TypeOK, NEW c, ForgetClaim(c)
    PROVE  claim' \in [ClaimId -> LocalClaim]
BY RenewalTypes DEF TypeOK, ForgetClaim

LEMMA ClearTimerType ==
    ASSUME TypeInv, NEW c \in ClaimId, ClearTimer(c)
    PROVE  /\ renewal' \in [ClaimId -> Renewal]
           /\ \A e \in ClaimId : renewal'[e].pc # "off" => owner[e] \in Daemon
BY RenewalTypes DEF TypeInv, TypeOK, Attributed, ClearTimer, NoRenewal

(***************************************************************************)
(* A failed renewal attempt leaves a typed claim and timer, and moves a    *)
(* tick only from its turn to the failing of its run.                      *)
(***************************************************************************)
LEMMA RenewalFailureInv ==
    ASSUME TypeInv, NEW c \in ClaimId, owner[c] \in Daemon,
           NEW update \in LocalClaim, HandleRenewalFailure(c, update),
           UNCHANGED <<owner, mine>>
    PROVE  /\ claim' \in [ClaimId -> LocalClaim]
           /\ renewal' \in [ClaimId -> Renewal]
           /\ phase' \in [Daemon -> Phase]
           /\ Attributed'
<1>1. Rearmed(c) \in Renewal
    BY NowIsNat, RenewalTypes DEF TypeInv, Rearmed, Renewal, RenewalPc
<1>2. claim' \in [ClaimId -> LocalClaim]
    BY RenewalTypes DEF TypeInv, TypeOK, HandleRenewalFailure
<1>3. renewal' \in [ClaimId -> Renewal]
    BY <1>1, RenewalTypes DEF TypeInv, TypeOK, HandleRenewalFailure
<1>4. phase' \in [Daemon -> Phase]
    BY DEF TypeInv, TypeOK, HandleRenewalFailure, Phase, RunPhase
<1>5. \A d \in Daemon : phase'[d] \in Holding <=> phase[d] \in Holding
    BY DEF TypeInv, TypeOK, HandleRenewalFailure, Holding, RunPhase
<1>6. \A e \in ClaimId : e # c => renewal'[e] = renewal[e]
    BY DEF TypeInv, TypeOK, HandleRenewalFailure
<1>. QED
    BY <1>2, <1>3, <1>4, <1>5, <1>6 DEF TypeInv, Attributed

(***************************************************************************)
(* Every step keeps the invariant: one case per action.                    *)
(***************************************************************************)
LEMMA TypeStep == TypeInv /\ [Next]_vars => TypeInv'
<1>. SUFFICES ASSUME TypeInv, [Next]_vars
              PROVE  TypeInv'
    OBVIOUS
<1>. USE DEF TypeInv, boardVars, tickVars, histVars
<1>t. TypeOK /\ Attributed
    OBVIOUS
<1>len. Len(log) \in Nat
    BY DEF TypeOK
<1>1. ASSUME NEW d \in Daemon, BeginTick(d) PROVE TypeInv'
    BY <1>1, NowIsNat DEF BeginTick, TypeOK, Attributed, Holding, Phase, AcquirePhase, RunPhase
<1>2. ASSUME NEW d \in Daemon, InitialRead(d) PROVE TypeInv'
  <2>1. CASE EndTick(d)
      BY <1>2, <2>1, EndTickInv DEF InitialRead, TypeOK, Attributed
  <2>2. CASE ~EndTick(d)
    <3>1. PICK p \in {"post", "grace"} : phase' = [phase EXCEPT ![d] = p]
        BY <1>2, <2>2 DEF InitialRead
    <3>2. /\ seen' = seen \/ seen' = [seen EXCEPT ![d] = Len(log)]
          /\ \E t \in Nat : wakeAt' = wakeAt \/ wakeAt' = [wakeAt EXCEPT ![d] = t]
      <4>1. clock + StealGrace \in Nat
          BY DEF TypeOK
      <4>. QED
          BY <1>2, <2>2, <4>1 DEF InitialRead
    <3>3. phase[d] \notin Holding /\ UNCHANGED <<boardVars, claim, renewal, histVars, tickNow, mine>>
        BY <1>2, <2>2 DEF InitialRead, Holding, RunPhase
    <3>4. TypeOK'
      <4>1. wakeAt' \in [Daemon -> Nat]
          BY <3>2 DEF TypeOK
      <4>2. seen' \in [Daemon -> Nat]
          BY <3>2, <1>len DEF TypeOK
      <4>3. phase' \in [Daemon -> Phase]
          BY <3>1 DEF TypeOK, Phase, AcquirePhase
      <4>. QED
          BY <3>3, <4>1, <4>2, <4>3 DEF TypeOK
    <3>5. Attributed'
        BY <3>1, <3>3 DEF TypeOK, Attributed, Holding, RunPhase
    <3>. QED BY <3>4, <3>5
  <2>. QED BY <2>1, <2>2
<1>3. ASSUME NEW d \in Daemon, GraceReread(d) PROVE TypeInv'
  <2>1. CASE EndTick(d)
      BY <1>3, <2>1, EndTickInv DEF GraceReread, TypeOK, Attributed
  <2>2. CASE ~EndTick(d)
    <3>1. PICK p \in {"post", "grace"} : phase' = [phase EXCEPT ![d] = p]
        BY <1>3, <2>2 DEF GraceReread
    <3>2. /\ seen' = seen \/ seen' = [seen EXCEPT ![d] = Len(log)]
          /\ \E t \in Nat : wakeAt' = wakeAt \/ wakeAt' = [wakeAt EXCEPT ![d] = t]
      <4>1. clock + StealGrace \in Nat
          BY DEF TypeOK
      <4>. QED
          BY <1>3, <2>2, <4>1 DEF GraceReread
    <3>3. phase[d] \notin Holding /\ UNCHANGED <<boardVars, claim, renewal, histVars, tickNow, mine>>
        BY <1>3, <2>2 DEF GraceReread, Holding, RunPhase
    <3>4. TypeOK'
      <4>1. wakeAt' \in [Daemon -> Nat]
          BY <3>2 DEF TypeOK
      <4>2. seen' \in [Daemon -> Nat]
          BY <3>2, <1>len DEF TypeOK
      <4>3. phase' \in [Daemon -> Phase]
          BY <3>1 DEF TypeOK, Phase, AcquirePhase
      <4>. QED
          BY <3>3, <4>1, <4>2, <4>3 DEF TypeOK
    <3>5. Attributed'
        BY <3>1, <3>3 DEF TypeOK, Attributed, Holding, RunPhase
    <3>. QED BY <3>4, <3>5
  <2>. QED BY <2>1, <2>2
<1>4. ASSUME NEW d \in Daemon, NEW c \in ClaimId, PostClaim(d, c) PROVE TypeInv'
  <2>1. ClaimComment(d, c) \in ClaimEvent
      BY CommentType DEF ClaimComment, TypeOK, Status, LiveStatus
  <2>2. log' \in Seq(ClaimEvent)
      BY <1>4, <2>1, PostType DEF PostClaim, PostFails
  <2>3. claim' \in [ClaimId -> LocalClaim]
      BY <1>4 DEF PostClaim, TypeOK, LocalClaim
  <2>4. TypeOK'
      BY <1>4, <2>2, <2>3 DEF PostClaim, TypeOK, Phase, AcquirePhase
  <2>5. Attributed'
      BY <1>4 DEF PostClaim, Fresh, TypeOK, Attributed, Holding, RunPhase, None
  <2>. QED BY <2>4, <2>5
<1>5. ASSUME NEW d \in Daemon, NEW c \in ClaimId, PostClaimFails(d, c) PROVE TypeInv'
  <2>1. ClaimComment(d, c) \in ClaimEvent
      BY CommentType DEF ClaimComment, TypeOK, Status, LiveStatus
  <2>2. log' \in Seq(ClaimEvent)
      BY <1>5, <2>1, PostType DEF PostClaimFails
  <2>3. \A e \in Daemon : mine[e] \in ClaimId => owner'[mine[e]] = owner[mine[e]]
      BY <1>5 DEF PostClaimFails, Fresh, TypeOK, Attributed, None
  <2>4. TypeOK'
      BY <1>5, <2>2, <2>3, EndTickInv, FaultType DEF PostClaimFails, TypeOK
  <2>5. Attributed'
      BY <1>5, <2>3, EndTickInv DEF PostClaimFails, TypeOK, Attributed
  <2>. QED BY <2>4, <2>5
<1>6. ASSUME NEW d \in Daemon, Reread(d) PROVE TypeInv'
    BY <1>6 DEF Reread, TypeOK, Attributed, Holding, Phase, AcquirePhase, RunPhase
<1>7. ASSUME NEW d \in Daemon, phase[d] = "lost", PostFails(LostComment(mine[d])),
             EndTick(d), ForgetClaim(mine[d]), UNCHANGED <<clock, owner, renewal>>,
             faults' \in Nat, raced' \in BOOLEAN
      PROVE  TypeInv'
  <2>1. mine[d] \in ClaimId
      BY <1>7 DEF Attributed, Holding
  <2>2. LostComment(mine[d]) \in ClaimEvent
      BY <2>1, CommentType DEF LostComment, TypeOK, LocalClaim, Status, TerminalStatus
  <2>3. log' \in Seq(ClaimEvent)
      BY <1>7, <2>2, PostType
  <2>4. claim' \in [ClaimId -> LocalClaim]
      BY <1>7, ForgetClaimType
  <2>. QED BY <1>7, <2>3, <2>4, EndTickInv DEF TypeOK, Attributed
<1>8. ASSUME NEW d \in Daemon, AcquireThrows(d) PROVE TypeInv'
    BY <1>8, EndTickInv, ForgetClaimType, FaultType DEF AcquireThrows, TypeOK, Attributed
<1>9. ASSUME NEW d \in Daemon, StartTurn(d) PROVE TypeInv'
  <2>1. mine[d] \in ClaimId /\ owner[mine[d]] = d
      BY <1>9 DEF StartTurn, Attributed, Holding, RunPhase
  <2>2. renewal' \in [ClaimId -> Renewal]
    <3>1. renewal \in [ClaimId -> Renewal]
        BY DEF TypeOK
    <3>2. Now(d) + RenewInterval \in Nat
        BY NowIsNat
    <3>3. [pc |-> "armed", now |-> 0, due |-> Now(d) + RenewInterval] \in Renewal
        BY <3>2 DEF Renewal, RenewalPc
    <3>. QED BY <1>9, <3>1, <3>3 DEF StartTurn
  <2>. QED
      BY <1>9, <2>1, <2>2 DEF StartTurn, TypeOK, Attributed, Holding, Phase, RunPhase
<1>10. ASSUME NEW d \in Daemon, TurnCompletes(d) PROVE TypeInv'
    BY <1>10 DEF TurnCompletes, TypeOK, Attributed, Holding, Phase, RunPhase
<1>11. ASSUME NEW d \in Daemon, RunFails(d) PROVE TypeInv'
  <2>1. mine[d] \in ClaimId
      BY <1>11 DEF RunFails, Attributed, Holding, RunPhase
  <2>. QED
      BY <1>11, <2>1, ClearTimerType DEF RunFails, TypeOK, Attributed, Holding, Phase, RunPhase
<1>12. ASSUME NEW d \in Daemon, phase[d] \in {"completing", "failing"},
              PostFails(ReleaseComment(d)), ClearTimer(mine[d]), ForgetClaim(mine[d]),
              EndTick(d), UNCHANGED <<clock, owner>>, faults' \in Nat, raced' \in BOOLEAN
       PROVE  TypeInv'
  <2>1. mine[d] \in ClaimId
      BY <1>12 DEF Attributed, Holding, RunPhase
  <2>2. ReleaseComment(d) \in ClaimEvent
    <3>1. claim[mine[d]].started \in Nat
        BY <2>1 DEF TypeOK, LocalClaim
    <3>2. {"completed", "failed"} \subseteq Status
        BY DEF Status, TerminalStatus
    <3>3. claim[mine[d]].started + Lease \in Nat
        BY <3>1
    <3>. QED
        BY <2>1, <3>1, <3>2, <3>3, CommentType DEF ReleaseComment
  <2>3. log' \in Seq(ClaimEvent)
      BY <1>12, <2>2, PostType
  <2>4. claim' \in [ClaimId -> LocalClaim]
      BY <1>12, ForgetClaimType
  <2>. QED BY <1>12, <2>1, <2>3, <2>4, EndTickInv, ClearTimerType DEF TypeOK, Attributed
<1>13. ASSUME NEW d \in Daemon, Crash(d) PROVE TypeInv'
  <2>1. claim' \in [ClaimId -> LocalClaim] /\ renewal' \in [ClaimId -> Renewal]
      BY <1>13, RenewalTypes DEF Crash, TypeOK
  <2>2. \A c \in ClaimId : renewal'[c].pc # "off" => owner'[c] \in Daemon
      BY <1>13 DEF Crash, TypeOK, Attributed, NoRenewal
  <2>. QED BY <1>13, <2>1, <2>2, EndTickInv, FaultType DEF Crash, TypeOK, Attributed
<1>14. ASSUME NEW c \in ClaimId, RenewFires(c) PROVE TypeInv'
    BY <1>14, NowIsNat DEF RenewFires, TypeOK, Attributed, Renewal, RenewalPc
<1>15. ASSUME NEW c \in ClaimId, NEW pc \in {"post", "recheck", "post_lost"}, renewal[c].pc # "off",
              renewal' = [renewal EXCEPT ![c].pc = pc],
              log' \in Seq(ClaimEvent), raced' \in BOOLEAN,
              UNCHANGED <<clock, owner, claim, tickVars, faults>>
       PROVE  TypeInv'
  <2>1. renewal' \in [ClaimId -> Renewal] /\ \A e \in ClaimId \ {c} : renewal'[e] = renewal[e]
    <3>1. renewal \in [ClaimId -> Renewal]
        BY DEF TypeOK
    <3>2. [renewal[c] EXCEPT !.pc = pc] \in Renewal
        BY <1>15, <3>1 DEF Renewal, RenewalPc
    <3>3. renewal' = [renewal EXCEPT ![c] = [renewal[c] EXCEPT !.pc = pc]]
        BY <1>15
    <3>. QED BY <3>1, <3>2, <3>3
  <2>. QED BY <1>15, <2>1 DEF TypeOK, Attributed
<1>16. ASSUME NEW c \in ClaimId, renewal[c].pc # "off", NEW update \in LocalClaim,
              HandleRenewalFailure(c, update), log' \in Seq(ClaimEvent),
              faults' \in Nat, raced' \in BOOLEAN,
              UNCHANGED <<clock, owner, tickNow, wakeAt, mine, seen>>
       PROVE  TypeInv'
  <2>1. owner[c] \in Daemon
      BY <1>16 DEF Attributed
  <2>. QED BY <1>16, <2>1, RenewalFailureInv DEF TypeOK
<1>17. ASSUME NEW c \in ClaimId
       PROVE  /\ claim[c] \in LocalClaim
              /\ RenewedClaim(c) \in LocalClaim
              /\ \A s \in {"renewed", "lost"} : RenewComment(c, s) \in ClaimEvent
    BY CommentType DEF RenewedClaim, RenewComment, TypeOK, LocalClaim, Renewal,
                       Status, LiveStatus, TerminalStatus
<1>18. ASSUME NEW c \in ClaimId, RenewVerify(c) PROVE TypeInv'
    BY <1>18, <1>15, <1>16, <1>17 DEF RenewVerify, TypeOK
<1>19. ASSUME NEW c \in ClaimId, RenewVerifyThrows(c) PROVE TypeInv'
    BY <1>19, <1>16, <1>17, FaultType DEF RenewVerifyThrows, TypeOK
<1>20. ASSUME NEW c \in ClaimId, RenewPost(c) PROVE TypeInv'
  <2>1. log' \in Seq(ClaimEvent)
      BY <1>20, <1>17, PostType DEF RenewPost, PostFails
  <2>. QED BY <1>20, <1>15, <2>1 DEF RenewPost, TypeOK
<1>21. ASSUME NEW c \in ClaimId, RenewPostFails(c) PROVE TypeInv'
  <2>1. log' \in Seq(ClaimEvent)
      BY <1>21, <1>17, PostType DEF RenewPostFails
  <2>. QED BY <1>21, <1>16, <1>17, <2>1, FaultType DEF RenewPostFails, TypeOK
<1>22. ASSUME NEW c \in ClaimId, RenewRecheck(c) PROVE TypeInv'
  <2>1. CASE renewal' = [renewal EXCEPT ![c].pc = "post_lost"] /\ UNCHANGED claim
      BY <1>22, <1>15, <2>1 DEF RenewRecheck, TypeOK
  <2>2. CASE /\ claim' = [claim EXCEPT ![c] = IF Remembered(c) THEN RenewedClaim(c) ELSE NoClaim]
             /\ renewal' = [renewal EXCEPT ![c] = Rearmed(c)]
    <3>1. owner[c] \in Daemon
        BY <1>22 DEF RenewRecheck, Attributed
    <3>2. Rearmed(c) \in Renewal
        BY <3>1, NowIsNat, RenewalTypes DEF Rearmed, Renewal, RenewalPc
    <3>3. claim' \in [ClaimId -> LocalClaim] /\ renewal' \in [ClaimId -> Renewal]
        BY <2>2, <3>2, <1>17, RenewalTypes DEF TypeOK
    <3>. QED BY <1>22, <2>2, <3>1, <3>3 DEF RenewRecheck, TypeOK, Attributed
  <2>. QED BY <1>22, <2>1, <2>2 DEF RenewRecheck
<1>23. ASSUME NEW c \in ClaimId, RenewRecheckThrows(c) PROVE TypeInv'
    BY <1>23, <1>16, <1>17, FaultType DEF RenewRecheckThrows, TypeOK
<1>24. ASSUME NEW c \in ClaimId, RenewPostLost(c) \/ RenewPostLostFails(c) PROVE TypeInv'
  <2>1. log' \in Seq(ClaimEvent)
      BY <1>24, <1>17, PostType DEF RenewPostLost, RenewPostLostFails, PostFails
  <2>. QED
      BY <1>24, <1>16, <1>17, <2>1, FaultType DEF RenewPostLost, RenewPostLostFails, TypeOK
<1>25. CASE Tick
    BY <1>25 DEF Tick, TypeOK, Attributed
<1>26. CASE UNCHANGED vars
    BY <1>26 DEF vars, TypeOK, Attributed
<1>27. ASSUME NEW d \in Daemon, PostLost(d) \/ PostLostFails(d) PROVE TypeInv'
    BY <1>27, <1>7, FaultType DEF PostLost, PostLostFails, PostFails, TypeOK
<1>28. ASSUME NEW d \in Daemon, Release(d) \/ ReleaseFails(d) PROVE TypeInv'
    BY <1>28, <1>12, FaultType DEF Release, ReleaseFails, PostFails, TypeOK
<1>. QED
    BY <1>1, <1>2, <1>3, <1>4, <1>5, <1>6, <1>8, <1>9, <1>10, <1>11, <1>13, <1>14,
       <1>18, <1>19, <1>20, <1>21, <1>22, <1>23, <1>24, <1>25, <1>26, <1>27, <1>28
    DEF Next, DaemonStep, RenewalStep

(***************************************************************************)
(* Type correctness, for every value of the constants.                     *)
(***************************************************************************)
THEOREM TypeCorrect == Spec => []TypeOK
<1>1. TypeInv => TypeOK
    BY DEF TypeInv
<1>. QED
    BY TypeInit, TypeStep, <1>1, PTL DEF Spec

-----------------------------------------------------------------------------
(* The log: what one more comment changes. *)

(***************************************************************************)
(* Every claim of the log has a last comment.  It is carried along as an   *)
(* invariant, since it would take an induction over the log otherwise.     *)
(***************************************************************************)
HasLast(l) ==
    \A c \in Claims(l) : \E i \in EventsOf(l, c) : \A j \in EventsOf(l, c) : j <= i

LEMMA LastIndexDef ==
    ASSUME NEW l \in Seq(ClaimEvent), NEW c, NEW i \in EventsOf(l, c),
           \A j \in EventsOf(l, c) : j <= i
    PROVE  LastIndex(l, c) = i
<1>1. EventsOf(l, c) \subseteq Nat
    BY DEF EventsOf
<1>2. \A k \in EventsOf(l, c) : (\A j \in EventsOf(l, c) : j <= k) => k = i
    BY <1>1
<1>. QED
    BY <1>2 DEF LastIndex

LEMMA StateType ==
    ASSUME NEW l \in Seq(ClaimEvent), HasLast(l), NEW c \in Claims(l)
    PROVE  State(l, c) \in ClaimEvent /\ State(l, c).expires \in Nat
<1>1. PICK i \in EventsOf(l, c) : \A j \in EventsOf(l, c) : j <= i
    BY DEF HasLast
<1>2. State(l, c) = l[i] /\ l[i] \in ClaimEvent
    BY <1>1, LastIndexDef DEF State, EventsOf
<1>. QED
    BY <1>2 DEF ClaimEvent

(***************************************************************************)
(* A comment becomes the state of its own claim and leaves every other     *)
(* claim's state alone.                                                    *)
(***************************************************************************)
LEMMA StateAppend ==
    ASSUME NEW l \in Seq(ClaimEvent), NEW e \in ClaimEvent, HasLast(l)
    PROVE  /\ Claims(Append(l, e)) = Claims(l) \cup {e.claim}
           /\ HasLast(Append(l, e))
           /\ State(Append(l, e), e.claim) = e
           /\ \A c \in Claims(l) \ {e.claim} : State(Append(l, e), c) = State(l, c)
<1>. DEFINE m == Append(l, e)
            n == Len(l) + 1
<1>1. /\ m \in Seq(ClaimEvent) /\ n \in Nat
      /\ DOMAIN m = 1..n /\ DOMAIN l = 1..(n - 1)
      /\ m[n] = e /\ \A i \in 1..(n - 1) : m[i] = l[i]
      /\ n \notin 1..(n - 1) /\ 1..n = 1..(n - 1) \cup {n}
    OBVIOUS
<1>. HIDE DEF m, n
<1>2. \A c : c # e.claim => EventsOf(m, c) = EventsOf(l, c)
  <2>1. \A c, i : c # e.claim => (i \in EventsOf(m, c) <=> i \in EventsOf(l, c))
      BY <1>1 DEF EventsOf
  <2>2. ASSUME NEW c, c # e.claim PROVE EventsOf(m, c) = EventsOf(l, c)
    <3>1. \A i : i \in EventsOf(m, c) <=> i \in EventsOf(l, c)
        BY <2>1, <2>2
    <3>. QED BY <3>1
  <2>. QED BY <2>2
<1>3. n \in EventsOf(m, e.claim) /\ \A j \in EventsOf(m, e.claim) : j <= n
    BY <1>1 DEF EventsOf
<1>4. Claims(m) = Claims(l) \cup {e.claim}
  <2>1. \A i \in DOMAIN m : m[i].claim \in Claims(l) \cup {e.claim}
      BY <1>1 DEF Claims
  <2>2. \A i \in DOMAIN l : i \in DOMAIN m /\ m[i] = l[i]
      BY <1>1
  <2>3. n \in DOMAIN m
      BY <1>1
  <2>. QED BY <1>1, <2>1, <2>2, <2>3 DEF Claims
<1>5. HasLast(m)
    BY <1>2, <1>3, <1>4 DEF HasLast
<1>6. State(m, e.claim) = e
    BY <1>1, <1>3, LastIndexDef DEF State
<1>7. ASSUME NEW c \in Claims(l) \ {e.claim} PROVE State(m, c) = State(l, c)
  <2>1. PICK i \in EventsOf(l, c) : \A j \in EventsOf(l, c) : j <= i
      BY DEF HasLast
  <2>2. LastIndex(l, c) = i
      BY <2>1, LastIndexDef
  <2>3. LastIndex(m, c) = i
      BY <1>1, <1>2, <2>1, LastIndexDef
  <2>4. i \in 1..(n - 1)
      BY <1>1 DEF EventsOf
  <2>. QED BY <1>1, <2>2, <2>3, <2>4 DEF State
<1>. QED
    BY <1>4, <1>5, <1>6, <1>7 DEF m

-----------------------------------------------------------------------------
(* How far a run may believe itself beyond its lease on the board. *)

(***************************************************************************)
(* The claims of ticks that are about to work, or work, on the card.       *)
(***************************************************************************)
Backing == {"reread", "preparing", "turn", "completing"}
Backed(c) == \E d \in Daemon : mine[d] = c /\ phase[d] \in Backing

(***************************************************************************)
(* OverrunBounded alone is not inductive.  That a failed renewal moves the *)
(* local expiry by less than a lease follows from when the attempt read    *)
(* its clock: before the board's expiry, if its post is still to come.     *)
(* That a renewal on the board catches up with the local expiry follows    *)
(* from the attempts' clock readings being in order, so that no earlier    *)
(* failure went beyond the later reading and a lease.                      *)
(***************************************************************************)
BoundedClaim(c) ==
    /\ c \in Claims(log)
    /\ owner[c] \in Daemon
    /\ claim[c].expires <= Now(owner[c]) + Lease
    /\ claim[c].expires < State(log, c).expires + Lease
    /\ renewal[c].pc \in InFlight =>
          /\ renewal[c].now <= Now(owner[c])
          /\ claim[c].expires <= renewal[c].now + Lease
    /\ renewal[c].pc = "post" => renewal[c].now < State(log, c).expires
    /\ renewal[c].pc \in {"recheck", "post_lost"} =>
          State(log, c).expires = renewal[c].now + Lease

Bounded(c) ==
    /\ renewal[c].pc # "off" => c \in Claims(log)
    /\ Backed(c) => BoundedClaim(c)

OverrunInv ==
    /\ TypeInv
    /\ HasLast(log)
    /\ \A d \in Daemon : tickNow[d] <= Now(d)
    /\ \A c \in ClaimId : Bounded(c)

LEMMA OverrunInit == Init => OverrunInv
<1>. SUFFICES ASSUME Init
              PROVE  OverrunInv
    OBVIOUS
<1>1. HasLast(log)
    BY DEF Init, HasLast, Claims
<1>2. \A c \in ClaimId : Bounded(c)
    BY DEF Init, Bounded, Backed, Backing, NoRenewal
<1>3. \A d \in Daemon : tickNow[d] <= Now(d)
    BY DEF Init, Now
<1>. QED
    BY TypeInit, <1>1, <1>2, <1>3 DEF OverrunInv

(***************************************************************************)
(* What any post does to the log.                                          *)
(***************************************************************************)
LEMMA PostLog ==
    ASSUME OverrunInv, NEW event \in ClaimEvent, PostFails(event)
    PROVE  /\ HasLast(log')
           /\ Claims(log) \subseteq Claims(log')
           /\ log' = log \/ (log' = Append(log, event) /\ event.claim \in Claims(log')
                                                       /\ State(log', event.claim) = event)
           /\ \A c \in Claims(log) \ {event.claim} : State(log', c) = State(log, c)
<1>1. log \in Seq(ClaimEvent) /\ HasLast(log)
    BY DEF OverrunInv, TypeInv, TypeOK
<1>2. CASE log' = log
    BY <1>1, <1>2
<1>3. CASE log' = Append(log, event)
    BY <1>1, <1>3, StateAppend
<1>. QED
    BY <1>2, <1>3 DEF PostFails, Post

(***************************************************************************)
(* No two ticks have the same claim.                                       *)
(***************************************************************************)
LEMMA OneHolder ==
    ASSUME TypeInv, NEW d \in Daemon, NEW e \in Daemon,
           phase[d] \in Holding, mine[e] = mine[d]
    PROVE  e = d
BY DEF TypeInv, Attributed, Holding, RunPhase, None

(***************************************************************************)
(* A claim stays bounded in a step that neither comments on it nor runs a  *)
(* renewal of it.                                                          *)
(***************************************************************************)
LEMMA KeepBounded ==
    ASSUME OverrunInv, TypeInv', NEW c \in ClaimId,
           clock' >= clock,
           c \in Claims(log) => c \in Claims(log') /\ State(log', c) = State(log, c),
           renewal'[c] = renewal[c] \/ renewal'[c].pc \in {"off", "armed"},
           renewal'[c].pc # "off" => renewal[c].pc # "off" \/ Backed(c),
           Backed(c)' => Backed(c) /\ claim'[c] = claim[c] /\ owner'[c] = owner[c]
    PROVE  Bounded(c)'
<1>1. CASE ~Backed(c)'
    BY <1>1 DEF OverrunInv, Bounded, BoundedClaim
<1>2. CASE Backed(c)'
  <2>1. BoundedClaim(c)
      BY <1>2 DEF OverrunInv, Bounded
  <2>2. Now(owner[c]) \in Nat /\ Now(owner[c])' \in Nat /\ Now(owner[c])' >= Now(owner[c])
    <3>1. TypeOK /\ TypeOK' /\ owner[c] \in Daemon /\ owner'[c] = owner[c]
        BY <2>1, <1>2 DEF BoundedClaim, OverrunInv, TypeInv
    <3>. QED BY <3>1, NowGrows DEF Now
  <2>3. claim[c].expires \in Nat /\ renewal[c].now \in Nat
      BY DEF OverrunInv, TypeInv, TypeOK, LocalClaim, Renewal
  <2>4. BoundedClaim(c)'
      BY <1>2, <2>1, <2>2, <2>3 DEF BoundedClaim, InFlight
  <2>. QED BY <2>4 DEF Bounded, BoundedClaim
<1>. QED
    BY <1>1, <1>2

(***************************************************************************)
(* A daemon's own steps.                                                   *)
(***************************************************************************)
LEMMA OverrunDaemonStep ==
    ASSUME OverrunInv, TypeInv', NEW d \in Daemon, DaemonStep(d)
    PROVE  OverrunInv'
<1>. USE DEF boardVars, tickVars, histVars
<1>t. TypeInv /\ TypeOK /\ Attributed
    BY DEF OverrunInv, TypeInv
<1>c. /\ clock' = clock
      /\ \A e \in Daemon : tickNow[e] \in Nat /\ Now(e) \in Nat /\ Now(e)' = Now(e)
    BY <1>t DEF DaemonStep, TypeOK, Now, BeginTick, InitialRead, GraceReread, PostClaim,
       PostClaimFails, Reread, PostLost, PostLostFails, AcquireThrows, StartTurn,
       TurnCompletes, RunFails, Release, ReleaseFails, Crash
<1>n. \A e \in Daemon : tickNow'[e] <= Now(e)'
  <2>1. \A e \in Daemon : tickNow'[e] \in {tickNow[e], 0, Now(e)}
      BY <1>t DEF DaemonStep, TypeOK, BeginTick, InitialRead, GraceReread, PostClaim,
         PostClaimFails, Reread, PostLost, PostLostFails, AcquireThrows, StartTurn,
         TurnCompletes, RunFails, Release, ReleaseFails, Crash, EndTick
  <2>. QED BY <1>c, <2>1 DEF OverrunInv
<1>m. \A c \in ClaimId : Backed(c) => Remembered(c)
    BY DEF Backed, Remembered
(* A tick that ends no longer backs its claim, and backs no other. *)
<1>e. ASSUME EndTick(d), NEW c \in ClaimId, Backed(c)'
      PROVE  Backed(c) /\ c # mine[d]
  <2>1. PICK e \in Daemon : mine'[e] = c /\ phase'[e] \in Backing
      BY <1>e DEF Backed
  <2>2. e # d /\ mine[e] = c /\ phase[e] \in Backing
      BY <1>e, <1>t, <2>1 DEF EndTick, TypeOK, Backing
  <2>3. phase[e] \in Holding
      BY <2>2 DEF Backing, Holding, RunPhase
  <2>4. c # mine[d]
      BY <1>t, <2>2, <2>3, OneHolder
  <2>. QED BY <2>2, <2>4 DEF Backed
(* The steps before the claim is posted, which leave everything else. *)
<1>1. ASSUME NEW p \in Phase \ Backing, phase[d] \notin Backing,
             phase' = [phase EXCEPT ![d] = p],
             UNCHANGED <<log, owner, claim, renewal, mine>>
      PROVE  OverrunInv'
  <2>1. \A c \in ClaimId : Backed(c)' => Backed(c)
      BY <1>1, <1>t DEF Backed, TypeOK
  <2>2. \A c \in ClaimId : Bounded(c)'
      BY <1>1, <1>c, <1>t, <2>1, KeepBounded DEF TypeOK
  <2>. QED BY <1>1, <1>n, <2>2 DEF OverrunInv
<1>2. ASSUME EndTick(d), UNCHANGED <<log, owner, renewal>>,
             \A c \in ClaimId : c # mine[d] => claim'[c] = claim[c]
      PROVE  OverrunInv'
  <2>1. \A c \in ClaimId : Bounded(c)'
      BY <1>2, <1>c, <1>t, <1>e, KeepBounded DEF TypeOK
  <2>. QED BY <1>2, <1>n, <2>1 DEF OverrunInv
<1>3. CASE BeginTick(d)
    BY <1>3, <1>1 DEF BeginTick, Phase, AcquirePhase, Backing
<1>4. CASE InitialRead(d)
  <2>1. CASE EndTick(d)
      BY <1>4, <2>1, <1>2 DEF InitialRead
  <2>2. CASE ~EndTick(d)
      BY <1>4, <2>2, <1>1 DEF InitialRead, Phase, AcquirePhase, Backing
  <2>. QED BY <2>1, <2>2
<1>5. CASE GraceReread(d)
  <2>1. CASE EndTick(d)
      BY <1>5, <2>1, <1>2 DEF GraceReread
  <2>2. CASE ~EndTick(d)
      BY <1>5, <2>2, <1>1 DEF GraceReread, Phase, AcquirePhase, Backing
  <2>. QED BY <2>1, <2>2
<1>6. CASE AcquireThrows(d)
    BY <1>6, <1>2, <1>t DEF AcquireThrows, ForgetClaim, TypeOK
<1>7. CASE Reread(d)
  <2>1. \A c \in ClaimId : Backed(c)' => Backed(c)
      BY <1>7, <1>t DEF Reread, Backed, Backing, TypeOK
  <2>2. \A c \in ClaimId : Bounded(c)'
      BY <1>7, <1>c, <1>t, <2>1, KeepBounded DEF Reread, TypeOK
  <2>. QED BY <1>7, <1>n, <2>2 DEF Reread, OverrunInv
<1>8. CASE TurnCompletes(d)
  <2>1. \A c \in ClaimId : Backed(c)' => Backed(c)
      BY <1>8, <1>t DEF TurnCompletes, Backed, Backing, TypeOK
  <2>2. \A c \in ClaimId : Bounded(c)'
      BY <1>8, <1>c, <1>t, <2>1, KeepBounded DEF TurnCompletes, TypeOK
  <2>. QED BY <1>8, <1>n, <2>2 DEF TurnCompletes, OverrunInv
<1>9. CASE StartTurn(d)
  <2>1. Backed(mine[d])
      BY <1>9 DEF StartTurn, Backed, Backing
  <2>2. \A c \in ClaimId : Backed(c)' => Backed(c)
      BY <1>9, <1>t DEF StartTurn, Backed, Backing, TypeOK
  <2>3. \A c \in ClaimId : \/ renewal'[c] = renewal[c]
                           \/ c = mine[d] /\ renewal'[c].pc = "armed"
      BY <1>9, <1>t DEF StartTurn, TypeOK
  <2>4. ASSUME NEW c \in ClaimId PROVE Bounded(c)'
    <3>1. /\ clock' >= clock
          /\ log' = log /\ claim' = claim /\ owner' = owner
        BY <1>9, <1>c, <1>t DEF StartTurn, TypeOK
    <3>2. renewal'[c] = renewal[c] \/ renewal'[c].pc \in {"off", "armed"}
        BY <2>3
    <3>3. renewal'[c].pc # "off" => renewal[c].pc # "off" \/ Backed(c)
        BY <2>1, <2>3
    <3>. QED
        BY <2>2, <3>1, <3>2, <3>3, KeepBounded
  <2>. QED BY <1>9, <1>n, <2>4 DEF StartTurn, OverrunInv
<1>10. CASE RunFails(d)
  <2>1. \A c \in ClaimId : Backed(c)' => Backed(c)
      BY <1>10, <1>t DEF RunFails, Backed, Backing, TypeOK
  <2>2. \A c \in ClaimId : renewal'[c] = renewal[c] \/ renewal'[c].pc = "off"
      BY <1>10, <1>t DEF RunFails, ClearTimer, NoRenewal, TypeOK
  <2>3. ASSUME NEW c \in ClaimId PROVE Bounded(c)'
    <3>1. /\ clock' >= clock
          /\ log' = log /\ claim' = claim /\ owner' = owner
        BY <1>10, <1>c, <1>t DEF RunFails, TypeOK
    <3>2. renewal'[c] = renewal[c] \/ renewal'[c].pc \in {"off", "armed"}
        BY <2>2
    <3>3. renewal'[c].pc # "off" => renewal[c].pc # "off" \/ Backed(c)
        BY <2>2
    <3>. QED
        BY <2>1, <3>1, <3>2, <3>3, KeepBounded
  <2>. QED BY <1>10, <1>n, <2>3 DEF RunFails, OverrunInv
<1>11. CASE Crash(d)
  <2>1. \A c \in ClaimId : renewal'[c] = renewal[c] \/ renewal'[c].pc = "off"
      BY <1>11, <1>t DEF Crash, NoRenewal, TypeOK
  <2>2. ASSUME NEW c \in ClaimId, Backed(c)' PROVE Backed(c) /\ claim'[c] = claim[c]
    <3>1. PICK e \in Daemon : mine'[e] = c /\ phase'[e] \in Backing
        BY <2>2 DEF Backed
    <3>2. e # d /\ mine[e] = c /\ phase[e] \in Backing
        BY <1>11, <1>t, <3>1 DEF Crash, EndTick, TypeOK, Backing
    <3>3. owner[c] = e
        BY <1>t, <3>2 DEF Attributed, Holding, RunPhase, Backing
    <3>. QED BY <1>11, <3>2, <3>3 DEF Crash, Backed
  <2>3. ASSUME NEW c \in ClaimId PROVE Bounded(c)'
    <3>1. clock' >= clock /\ log' = log /\ owner' = owner
        BY <1>11, <1>c, <1>t DEF Crash, TypeOK
    <3>2. renewal'[c] = renewal[c] \/ renewal'[c].pc \in {"off", "armed"}
        BY <2>1
    <3>3. renewal'[c].pc # "off" => renewal[c].pc # "off" \/ Backed(c)
        BY <2>1
    <3>. QED
        BY <2>2, <3>1, <3>2, <3>3, KeepBounded
  <2>. QED BY <1>11, <1>n, <2>3 DEF Crash, OverrunInv
(* The steps that end a tick with a comment on its claim. *)
<1>12. ASSUME NEW event \in ClaimEvent, event.claim = mine[d], PostFails(event), EndTick(d),
              UNCHANGED owner,
              \A c \in ClaimId : renewal'[c] = renewal[c] \/ renewal'[c].pc = "off",
              \A c \in ClaimId : c # mine[d] => claim'[c] = claim[c]
       PROVE  OverrunInv'
  <2>1. ASSUME NEW c \in ClaimId, c # mine[d] PROVE Bounded(c)'
    <3>1. clock' >= clock
        BY <1>c, <1>t DEF TypeOK
    <3>2. c \in Claims(log) => c \in Claims(log') /\ State(log', c) = State(log, c)
        BY <1>12, <2>1, PostLog
    <3>3. renewal'[c] = renewal[c] \/ renewal'[c].pc = "off"
        BY <1>12
    <3>4. renewal'[c] = renewal[c] \/ renewal'[c].pc \in {"off", "armed"}
        BY <3>3
    <3>5. renewal'[c].pc # "off" => renewal[c].pc # "off" \/ Backed(c)
        BY <3>3
    <3>6. Backed(c)' => Backed(c) /\ claim'[c] = claim[c] /\ owner'[c] = owner[c]
        BY <1>12, <1>e, <2>1
    <3>. QED
        BY <3>1, <3>2, <3>4, <3>5, <3>6, KeepBounded
  <2>2. ASSUME NEW c \in ClaimId, c = mine[d] PROVE Bounded(c)'
      BY <1>12, <1>e, <2>2, PostLog DEF OverrunInv, Bounded
  <2>. QED BY <1>12, <1>n, <2>1, <2>2, PostLog DEF OverrunInv
<1>13. CASE PostLost(d) \/ PostLostFails(d)
  <2>1. mine[d] \in ClaimId
      BY <1>13, <1>t DEF PostLost, PostLostFails, Attributed, Holding
  <2>2. LostComment(mine[d]) \in ClaimEvent /\ LostComment(mine[d]).claim = mine[d]
      BY <1>t, <2>1, CommentType DEF LostComment, Comment, TypeOK, LocalClaim, Status, TerminalStatus
  <2>. QED
      BY <1>13, <1>12, <1>t, <2>2 DEF PostLost, PostLostFails, PostFails, ForgetClaim, TypeOK
<1>14. CASE Release(d) \/ ReleaseFails(d)
  <2>1. mine[d] \in ClaimId
      BY <1>14, <1>t DEF Release, ReleaseFails, Attributed, Holding, RunPhase
  <2>2. ReleaseComment(d) \in ClaimEvent /\ ReleaseComment(d).claim = mine[d]
    <3>1. claim[mine[d]].started \in Nat
        BY <1>t, <2>1 DEF TypeOK, LocalClaim
    <3>2. {"completed", "failed"} \subseteq Status
        BY DEF Status, TerminalStatus
    <3>3. claim[mine[d]].started + Lease \in Nat
        BY <3>1
    <3>. QED
        BY <2>1, <3>1, <3>2, <3>3, CommentType DEF ReleaseComment, Comment
  <2>3. \A c \in ClaimId : renewal'[c] = renewal[c] \/ renewal'[c].pc = "off"
      BY <1>14, <1>t DEF Release, ReleaseFails, ClearTimer, NoRenewal, TypeOK
  <2>4. \A c \in ClaimId : c # mine[d] => claim'[c] = claim[c]
      BY <1>14, <1>t DEF Release, ReleaseFails, ForgetClaim, TypeOK
  <2>. QED
      BY <1>14, <1>12, <2>2, <2>3, <2>4 DEF Release, ReleaseFails, PostFails
(* The claim is drawn and posted. *)
<1>15. ASSUME NEW c \in ClaimId, PostClaim(d, c) \/ PostClaimFails(d, c)
       PROVE  OverrunInv'
  <2>1. ClaimComment(d, c) \in ClaimEvent /\ ClaimComment(d, c).claim = c
      BY <1>t, CommentType DEF ClaimComment, Comment, TypeOK, Status, LiveStatus
  <2>2. PostFails(ClaimComment(d, c))
      BY <1>15 DEF PostClaim, PostClaimFails, PostFails
  <2>3. renewal[c].pc = "off" /\ ~Backed(c)
      BY <1>15, <1>t DEF PostClaim, PostClaimFails, Fresh, Attributed, Backed, Backing, Holding, RunPhase
  <2>4. ASSUME NEW x \in ClaimId, x # c PROVE Bounded(x)'
    <3>1. Backed(x)' => Backed(x)
        BY <1>15, <1>e, <1>t, <2>4 DEF PostClaim, PostClaimFails, Backed, Backing, TypeOK
    <3>2. clock' >= clock
        BY <1>c, <1>t DEF TypeOK
    <3>3. x \in Claims(log) => x \in Claims(log') /\ State(log', x) = State(log, x)
        BY <2>1, <2>2, <2>4, PostLog
    <3>4. renewal' = renewal /\ claim'[x] = claim[x] /\ owner'[x] = owner[x]
        BY <1>15, <1>t, <2>4 DEF PostClaim, PostClaimFails, TypeOK
    <3>5. renewal'[x].pc # "off" => renewal[x].pc # "off" \/ Backed(x)
        BY <3>4
    <3>6. renewal'[x] = renewal[x] \/ renewal'[x].pc \in {"off", "armed"}
        BY <3>4
    <3>. QED
        BY <3>1, <3>2, <3>3, <3>4, <3>5, <3>6, KeepBounded
  <2>5. Bounded(c)'
    <3>1. CASE PostClaimFails(d, c)
      <4>1. ~Backed(c)'
          BY <2>3, <3>1, <1>e DEF PostClaimFails
      <4>. QED BY <2>3, <3>1, <4>1 DEF PostClaimFails, Bounded
    <3>2. CASE PostClaim(d, c)
      <4>1. c \in Claims(log') /\ State(log', c) = ClaimComment(d, c)
        <5>1. log' = Append(log, ClaimComment(d, c)) /\ log \in Seq(ClaimEvent) /\ HasLast(log)
            BY <3>2, <1>t DEF PostClaim, Post, OverrunInv, TypeOK
        <5>. QED BY <2>1, <5>1, StateAppend
      <4>2. claim'[c].expires = tickNow[d] + Lease /\ State(log', c).expires = tickNow[d] + Lease
          BY <3>2, <1>t, <4>1 DEF PostClaim, ClaimComment, Comment, TypeOK
      <4>3. owner'[c] = d /\ renewal'[c].pc = "off"
          BY <3>2, <1>t, <2>3 DEF PostClaim, TypeOK
      <4>4. tickNow[d] <= Now(d)' /\ tickNow[d] \in Nat /\ Now(d)' \in Nat
          BY <1>c DEF OverrunInv
      <4>5. Now(owner[c])' = Now(d)'
          BY <4>3 DEF Now
      <4>6. BoundedClaim(c)'
          BY <4>1, <4>2, <4>3, <4>4, <4>5 DEF BoundedClaim, InFlight
      <4>. QED BY <4>3, <4>6 DEF Bounded
    <3>. QED BY <1>15, <3>1, <3>2
  <2>. QED BY <1>n, <2>1, <2>2, <2>4, <2>5, PostLog DEF OverrunInv
<1>. QED
    BY <1>3, <1>4, <1>5, <1>6, <1>7, <1>8, <1>9, <1>10, <1>11, <1>13, <1>14, <1>15
    DEF DaemonStep

(***************************************************************************)
(* What the end of a renewal attempt has to see to for its claim to stay   *)
(* bounded.                                                                *)
(***************************************************************************)
LEMMA AttemptEnds ==
    ASSUME OverrunInv, TypeInv', NEW c \in ClaimId, BoundedClaim(c),
           clock' = clock, owner' = owner, c \in Claims(log'),
           renewal'[c].pc \in {"off", "armed"},
           claim'[c].expires <= Now(owner[c]) + Lease,
           claim'[c].expires < State(log', c).expires + Lease
    PROVE  BoundedClaim(c)'
<1>1. Now(owner[c])' = Now(owner[c])
    BY DEF Now
<1>. QED
    BY <1>1 DEF BoundedClaim, InFlight

(***************************************************************************)
(* The steps of a renewal attempt.                                         *)
(***************************************************************************)
LEMMA OverrunRenewalStep ==
    ASSUME OverrunInv, TypeInv', NEW c \in ClaimId, RenewalStep(c)
    PROVE  OverrunInv'
<1>. USE DEF boardVars, tickVars, histVars
<1>. DEFINE now == renewal[c].now
<1>t. TypeInv /\ TypeOK /\ Attributed
    BY DEF OverrunInv, TypeInv
<1>f. ASSUME NEW update, HandleRenewalFailure(c, update)
      PROVE  /\ renewal'[c].pc \in {"off", "armed"}
             /\ Remembered(c) => claim'[c] = update
             /\ \A x \in ClaimId : x # c => renewal'[x] = renewal[x] /\ claim'[x] = claim[x]
             /\ \A d \in Daemon : phase'[d] = phase[d] \/ phase'[d] = "failing"
    BY <1>f, <1>t DEF HandleRenewalFailure, Rearmed, NoRenewal, TypeOK
<1>u. /\ clock' = clock /\ owner' = owner /\ mine' = mine /\ tickNow' = tickNow
      /\ \A d \in Daemon : phase'[d] = phase[d] \/ phase'[d] = "failing"
      /\ \A x \in ClaimId : x # c => renewal'[x] = renewal[x] /\ claim'[x] = claim[x]
      /\ renewal[c].pc # "off"
    BY <1>t, <1>f DEF RenewalStep, TypeOK, RenewFires, RenewVerify, RenewVerifyThrows, RenewPost,
       RenewPostFails, RenewRecheck, RenewRecheckThrows, RenewPostLost, RenewPostLostFails
<1>b. \A x \in ClaimId : Backed(x)' => Backed(x)
    BY <1>u DEF Backed, Backing
<1>m. Backed(c) => Remembered(c)
    BY DEF Backed, Remembered
<1>n. \A d \in Daemon : tickNow'[d] <= Now(d)'
    BY <1>u DEF OverrunInv, Now
<1>v. /\ claim[c].started \in Nat /\ claim[c].expires \in Nat /\ now \in Nat /\ now + Lease \in Nat
      /\ RenewedClaim(c).expires = now + Lease
    BY <1>t DEF TypeOK, LocalClaim, Renewal, RenewedClaim
<1>w. ASSUME NEW status \in {"renewed", "lost"}
      PROVE  /\ RenewComment(c, status) \in ClaimEvent
             /\ RenewComment(c, status).claim = c
             /\ RenewComment(c, status).expires = now + Lease
  <2>1. status \in Status
      BY DEF Status, LiveStatus, TerminalStatus
  <2>. QED BY <1>v, <2>1, CommentType DEF RenewComment, Comment
(* The log: unchanged, or one more comment on c with the new expiry. *)
<1>l. /\ HasLast(log')
      /\ Claims(log) \subseteq Claims(log')
      /\ \A x \in Claims(log) : x # c => State(log', x) = State(log, x)
      /\ log' = log \/ State(log', c).expires = now + Lease
  <2>1. log' = log \/ PostFails(RenewComment(c, "renewed")) \/ PostFails(RenewComment(c, "lost"))
      BY DEF RenewalStep, RenewFires, RenewVerify, RenewVerifyThrows, RenewPost, RenewPostFails,
         RenewRecheck, RenewRecheckThrows, RenewPostLost, RenewPostLostFails, PostFails
  <2>2. CASE log' = log
      BY <2>2 DEF OverrunInv
  <2>3. ASSUME NEW status \in {"renewed", "lost"}, PostFails(RenewComment(c, status))
        PROVE  /\ HasLast(log')
               /\ Claims(log) \subseteq Claims(log')
               /\ \A x \in Claims(log) : x # c => State(log', x) = State(log, x)
               /\ log' = log \/ State(log', c).expires = now + Lease
      BY <1>w, <2>3, PostLog
  <2>. QED BY <2>1, <2>2, <2>3
<1>o. ASSUME NEW x \in ClaimId, x # c PROVE Bounded(x)'
  <2>1. clock' >= clock
      BY <1>u, <1>t DEF TypeOK
  <2>2. renewal'[x].pc # "off" => renewal[x].pc # "off" \/ Backed(x)
      BY <1>u, <1>o
  <2>. QED
      BY <1>u, <1>b, <1>l, <1>o, <2>1, <2>2, KeepBounded
<1>k. ASSUME Backed(c)' PROVE BoundedClaim(c)'
  <2>1. BoundedClaim(c) /\ Remembered(c)
      BY <1>k, <1>b, <1>m DEF OverrunInv, Bounded
  <2>2. c \in Claims(log') /\ Now(owner[c])' = Now(owner[c]) /\ Now(owner[c]) \in Nat
      BY <1>l, <1>t, <1>u, <2>1 DEF BoundedClaim, Now, TypeOK
  <2>3. ASSUME claim'[c].expires = now + Lease, renewal'[c].pc \in {"off", "armed"},
               renewal[c].pc \in {"post", "recheck", "post_lost"}
        PROVE  BoundedClaim(c)'
    <3>1. now <= Now(owner[c])
        BY <2>1, <2>3 DEF BoundedClaim, InFlight
    <3>2. State(log', c).expires = now + Lease \/ now < State(log', c).expires
        BY <1>l, <2>1, <2>3 DEF BoundedClaim
    <3>3. State(log', c).expires \in Nat
        BY <2>2, <1>l, StateType DEF TypeInv, TypeOK
    <3>. QED
        BY <1>u, <1>v, <2>1, <2>2, <2>3, <3>1, <3>2, <3>3, AttemptEnds
  <2>4. ASSUME HandleRenewalFailure(c, claim[c]), log' = log
        PROVE  BoundedClaim(c)'
      BY <1>f, <1>u, <2>1, <2>2, <2>4, AttemptEnds DEF BoundedClaim
  <2>5. ASSUME HandleRenewalFailure(c, RenewedClaim(c)),
               renewal[c].pc \in {"post", "recheck", "post_lost"}
        PROVE  BoundedClaim(c)'
      BY <1>f, <1>v, <2>1, <2>3, <2>5
  <2>6. CASE RenewFires(c)
    <3>1. /\ log' = log /\ claim' = claim
          /\ renewal'[c].pc = "verify" /\ renewal'[c].now = Now(owner[c])
        BY <1>t, <2>6 DEF RenewFires, TypeOK
    <3>. QED
        BY <1>u, <2>1, <2>2, <3>1 DEF BoundedClaim, InFlight
  <2>7. CASE RenewVerify(c)
    <3>1. log' = log
        BY <2>7 DEF RenewVerify
    <3>2. CASE HandleRenewalFailure(c, claim[c])
        BY <2>4, <3>1, <3>2
    <3>3. CASE ~HandleRenewalFailure(c, claim[c])
      <4>1. PICK winner : Renewable(log, c, winner, now)
          BY <2>7, <3>3 DEF RenewVerify
      <4>2. /\ claim' = claim /\ renewal[c].pc = "verify"
            /\ renewal'[c].pc = "post" /\ renewal'[c].now = now
          BY <1>t, <2>7, <3>3 DEF RenewVerify, TypeOK, Renewal
      <4>3. now < State(log, c).expires
        <5>1. c \in Claims(log) /\ State(log, c).expires > now
            BY <4>1 DEF Renewable, Unexpired, Live
        <5>2. State(log, c).expires \in Nat
            BY <1>t, <5>1, StateType DEF OverrunInv, TypeOK
        <5>. QED BY <1>v, <5>1, <5>2
      <4>. QED
          BY <1>u, <2>1, <2>2, <3>1, <4>2, <4>3 DEF BoundedClaim, InFlight
    <3>. QED BY <3>2, <3>3
  <2>8. CASE RenewVerifyThrows(c)
      BY <2>4, <2>8 DEF RenewVerifyThrows
  <2>9. CASE RenewPost(c)
    <3>1. /\ claim' = claim /\ renewal[c].pc = "post"
          /\ renewal'[c].pc = "recheck" /\ renewal'[c].now = now
        BY <1>t, <2>9 DEF RenewPost, TypeOK, Renewal
    <3>2. State(log', c).expires = now + Lease
        BY <1>t, <1>w, <2>9, StateAppend DEF RenewPost, Post, OverrunInv, TypeOK
    <3>. QED
        BY <1>u, <1>v, <2>1, <2>2, <3>1, <3>2 DEF BoundedClaim, InFlight
  <2>10. CASE RenewPostFails(c) \/ RenewRecheckThrows(c) \/ RenewPostLost(c) \/ RenewPostLostFails(c)
      BY <2>5, <2>10 DEF RenewPostFails, RenewRecheckThrows, RenewPostLost, RenewPostLostFails
  <2>11. CASE RenewRecheck(c)
    <3>1. log' = log /\ renewal[c].pc = "recheck"
        BY <2>11 DEF RenewRecheck
    <3>2. CASE claim' = claim /\ renewal' = [renewal EXCEPT ![c].pc = "post_lost"]
      <4>1. renewal'[c].pc = "post_lost" /\ renewal'[c].now = now
          BY <1>t, <3>2 DEF TypeOK, Renewal
      <4>. QED
          BY <1>u, <2>1, <2>2, <3>1, <3>2, <4>1 DEF BoundedClaim, InFlight
    <3>3. CASE claim' # claim \/ renewal' # [renewal EXCEPT ![c].pc = "post_lost"]
      <4>1. /\ claim'[c] = RenewedClaim(c)
            /\ renewal'[c].pc \in {"off", "armed"}
          BY <1>t, <2>1, <2>11, <3>3 DEF RenewRecheck, Rearmed, NoRenewal, TypeOK
      <4>. QED
          BY <1>v, <2>3, <3>1, <4>1
    <3>. QED BY <3>2, <3>3
  <2>. QED
      BY <2>6, <2>7, <2>8, <2>9, <2>10, <2>11 DEF RenewalStep
<1>. QED
    BY <1>u, <1>n, <1>l, <1>o, <1>k DEF OverrunInv, Bounded

LEMMA OverrunStep == OverrunInv /\ [Next]_vars => OverrunInv'
<1>. SUFFICES ASSUME OverrunInv, [Next]_vars
              PROVE  OverrunInv'
    OBVIOUS
<1>1. TypeInv'
    BY TypeStep DEF OverrunInv
<1>2. ASSUME NEW d \in Daemon, DaemonStep(d) PROVE OverrunInv'
    BY <1>1, <1>2, OverrunDaemonStep
<1>3. ASSUME NEW c \in ClaimId, RenewalStep(c) PROVE OverrunInv'
    BY <1>1, <1>3, OverrunRenewalStep
<1>4. ASSUME Tick \/ UNCHANGED vars PROVE OverrunInv'
  <2>1. /\ clock' >= clock
        /\ UNCHANGED <<log, owner, claim, renewal, phase, mine, tickNow>>
      BY <1>4 DEF Tick, vars, boardVars, tickVars, OverrunInv, TypeInv, TypeOK
  <2>2. ASSUME NEW d \in Daemon PROVE tickNow'[d] <= Now(d)'
    <3>1. Now(d)' >= Now(d) /\ tickNow[d] <= Now(d) /\ tickNow[d] \in Nat
        BY <1>1, <2>1 DEF Now, OverrunInv, TypeInv, TypeOK
    <3>2. Now(d) \in Nat /\ Now(d)' \in Nat
        BY <1>1 DEF Now, OverrunInv, TypeInv, TypeOK
    <3>. QED BY <2>1, <3>1, <3>2
  <2>3. ASSUME NEW c \in ClaimId PROVE Bounded(c)'
    <3>1. Backed(c)' => Backed(c)
        BY <2>1 DEF Backed
    <3>2. renewal'[c].pc # "off" => renewal[c].pc # "off" \/ Backed(c)
        BY <2>1
    <3>. QED BY <1>1, <2>1, <3>1, <3>2, KeepBounded
  <2>4. HasLast(log')
      BY <2>1 DEF OverrunInv
  <2>. QED BY <1>1, <2>2, <2>3, <2>4 DEF OverrunInv
<1>. QED
    BY <1>2, <1>3, <1>4 DEF Next

(***************************************************************************)
(* A run's belief in its lease never outlasts the board's by a whole       *)
(* lease: the renewal path of src/claims.js together with                  *)
(* handleRenewalFailure, whatever the clocks, the faults and their order.  *)
(***************************************************************************)
THEOREM OverrunCorrect == Spec => []OverrunBounded
<1>1. OverrunInv => OverrunBounded
    BY DEF OverrunInv, OverrunBounded, Bounded, BoundedClaim, Backed, Backing, Working, WorksUnder
<1>. QED
    BY <1>1, OverrunInit, OverrunStep, PTL DEF Spec

-----------------------------------------------------------------------------
(* The comments of a claim, and what one more comment does to them. *)

LEMMA ClaimIds ==
    ASSUME NEW l \in Seq(ClaimEvent)
    PROVE  Claims(l) \subseteq ClaimId
<1>1. \A i \in DOMAIN l : l[i] \in ClaimEvent
    OBVIOUS
<1>. QED
    BY <1>1 DEF Claims, ClaimEvent

LEMMA EventsAppend ==
    ASSUME NEW l \in Seq(ClaimEvent), NEW e \in ClaimEvent
    PROVE  /\ Len(l) + 1 \in EventsOf(Append(l, e), e.claim)
           /\ Append(l, e)[Len(l) + 1] = e
           /\ \A i \in DOMAIN l : Append(l, e)[i] = l[i] /\ i \in Nat /\ i < Len(l) + 1
           /\ EventsOf(Append(l, e), e.claim) = EventsOf(l, e.claim) \cup {Len(l) + 1}
           /\ \A c : c # e.claim => EventsOf(Append(l, e), c) = EventsOf(l, c)
<1>. DEFINE m == Append(l, e)
            n == Len(l) + 1
<1>1. /\ n \in Nat
      /\ DOMAIN m = 1..n /\ DOMAIN l = 1..(n - 1)
      /\ m[n] = e /\ \A i \in 1..(n - 1) : m[i] = l[i]
      /\ n \notin 1..(n - 1) /\ 1..n = 1..(n - 1) \cup {n}
    OBVIOUS
<1>2. \A i \in DOMAIN l : i \in Nat /\ i < n
    BY <1>1
<1>. HIDE DEF m, n
<1>3. \A c, i : i \in EventsOf(m, c) <=> i \in EventsOf(l, c) \/ (i = n /\ c = e.claim)
    BY <1>1 DEF EventsOf
<1>4. EventsOf(m, e.claim) = EventsOf(l, e.claim) \cup {n}
  <2>1. \A i : i \in EventsOf(m, e.claim) <=> i \in EventsOf(l, e.claim) \cup {n}
      BY <1>3
  <2>. QED BY <2>1
<1>5. ASSUME NEW c, c # e.claim PROVE EventsOf(m, c) = EventsOf(l, c)
  <2>1. \A i : i \in EventsOf(m, c) <=> i \in EventsOf(l, c)
      BY <1>3, <1>5
  <2>. QED BY <2>1
<1>. QED
    BY <1>1, <1>2, <1>4, <1>5 DEF m, n

(***************************************************************************)
(* A claim is terminated once a terminal comment of it is on the board,    *)
(* whatever was commented after it.                                        *)
(***************************************************************************)
Terminated(c) == \E i \in EventsOf(log, c) : log[i].status \in TerminalStatus

(***************************************************************************)
(* The first comment of a claim is there to stay.                          *)
(***************************************************************************)
LEMMA FirstIndexDef ==
    ASSUME NEW l \in Seq(ClaimEvent), NEW c, NEW i \in EventsOf(l, c),
           \A j \in EventsOf(l, c) : i <= j
    PROVE  FirstIndex(l, c) = i
<1>1. EventsOf(l, c) \subseteq Nat
    BY DEF EventsOf
<1>2. \A k \in EventsOf(l, c) : (\A j \in EventsOf(l, c) : k <= j) => k = i
    BY <1>1
<1>. QED
    BY <1>2 DEF FirstIndex

LEMMA FirstIndexIsFirst ==
    ASSUME NEW l \in Seq(ClaimEvent), NEW c \in Claims(l)
    PROVE  /\ FirstIndex(l, c) \in EventsOf(l, c)
           /\ \A j \in EventsOf(l, c) : FirstIndex(l, c) <= j
<1>1. EventsOf(l, c) \subseteq Nat /\ EventsOf(l, c) # {}
    BY DEF EventsOf, Claims
<1>2. PICK i \in EventsOf(l, c) : \A j \in EventsOf(l, c) : <<j, i>> \notin OpToRel(<, Nat)
    BY <1>1, NatLessThanWellFounded, WFMin, Zenon
<1>3. \A j \in EventsOf(l, c) : i <= j
  <2>1. \A j \in EventsOf(l, c) : ~(j < i)
      BY <1>1, <1>2, Zenon DEF OpToRel
  <2>. QED BY <1>1, <2>1
<1>. QED
    BY <1>3, FirstIndexDef

LEMMA FirstIndexAppend ==
    ASSUME NEW l \in Seq(ClaimEvent), NEW e \in ClaimEvent
    PROVE  /\ \A c \in Claims(l) : FirstIndex(Append(l, e), c) = FirstIndex(l, c)
           /\ e.claim \notin Claims(l) => FirstIndex(Append(l, e), e.claim) = Len(l) + 1
           /\ \A c \in Claims(l) : FirstIndex(l, c) \in Nat /\ FirstIndex(l, c) < Len(l) + 1
<1>. DEFINE m == Append(l, e)
            n == Len(l) + 1
<1>1. m \in Seq(ClaimEvent) /\ n \in Nat
    OBVIOUS
<1>2. /\ \A i \in DOMAIN l : i \in Nat /\ i < n
      /\ EventsOf(m, e.claim) = EventsOf(l, e.claim) \cup {n}
      /\ \A c : c # e.claim => EventsOf(m, c) = EventsOf(l, c)
    BY EventsAppend
<1>. HIDE DEF m, n
<1>3. ASSUME NEW c \in Claims(l) PROVE FirstIndex(m, c) = FirstIndex(l, c)
  <2>1. FirstIndex(l, c) \in EventsOf(l, c) /\ \A j \in EventsOf(l, c) : FirstIndex(l, c) <= j
      BY FirstIndexIsFirst
  <2>2. FirstIndex(l, c) \in DOMAIN l
      BY <2>1 DEF EventsOf
  <2>3. FirstIndex(l, c) \in EventsOf(m, c) /\ \A j \in EventsOf(m, c) : FirstIndex(l, c) <= j
    <3>1. CASE c = e.claim
        BY <1>1, <1>2, <2>1, <2>2, <3>1
    <3>2. CASE c # e.claim
        BY <1>2, <2>1, <3>2
    <3>. QED BY <3>1, <3>2
  <2>. QED BY <1>1, <2>3, FirstIndexDef
<1>4. ASSUME e.claim \notin Claims(l) PROVE FirstIndex(m, e.claim) = n
  <2>1. EventsOf(l, e.claim) = {}
      BY <1>4 DEF Claims, EventsOf
  <2>2. EventsOf(m, e.claim) = {n}
      BY <1>2, <2>1
  <2>3. n \in EventsOf(m, e.claim) /\ \A j \in EventsOf(m, e.claim) : n <= j
      BY <1>1, <2>2
  <2>. QED BY <1>1, <2>3, FirstIndexDef
<1>5. \A c \in Claims(l) : FirstIndex(l, c) \in Nat /\ FirstIndex(l, c) < n
    BY <1>2, FirstIndexIsFirst DEF EventsOf
<1>. QED
    BY <1>3, <1>4, <1>5 DEF m, n

-----------------------------------------------------------------------------
(* What a step does to the board, to a claim in memory and to its renewal. *)

(***************************************************************************)
(* The three kinds of comments: the claim itself, a renewal of it, and one *)
(* that ends it.                                                           *)
(***************************************************************************)
ClaimedBy(d, c) ==
    /\ phase[d] = "post" /\ Fresh(c)
    /\ log' = Append(log, ClaimComment(d, c))
    /\ owner' = [owner EXCEPT ![c] = d]
    /\ raced' = (raced \/ StaleClaim(d))
    /\ UNCHANGED <<clock, renewal>>
    /\ mine'[d] \in {c, None}
    /\ \A e \in Daemon \ {d} : mine'[e] = mine[e]

RenewedOn(c) ==
    /\ renewal[c].pc = "post"
    /\ log' = Append(log, RenewComment(c, "renewed"))
    /\ renewal'[c].pc \in {"recheck", "off", "armed"}
    /\ raced' = (raced \/ LateRenewal(c))
    /\ UNCHANGED <<clock, owner>>

EndedOn(c) ==
    /\ \E event \in ClaimEvent :
          /\ event.claim = c
          /\ event.status \in TerminalStatus
          /\ event.started = claim[c].started
          /\ log' = Append(log, event)
    /\ Remembered(c) \/ renewal[c].pc # "off"
    /\ ~Remembered(c)' \/ renewal'[c].pc \in {"off", "armed"}
    /\ UNCHANGED <<clock, owner>>

(***************************************************************************)
(* A tick that ends forgets its claim and no other.                        *)
(***************************************************************************)
LEMMA EndForgets ==
    ASSUME TypeInv, NEW d \in Daemon, EndTick(d), NEW c \in ClaimId
    PROVE  /\ Remembered(c)' => Remembered(c)
           /\ ~(c = mine[d] /\ Remembered(c)')
           /\ c # mine[d] => (Active(c) => Active(c)')
<1>1. TypeOK /\ Attributed
    BY DEF TypeInv
<1>2. \A e \in Daemon : e # d => mine'[e] = mine[e] /\ phase'[e] = phase[e]
    BY <1>1 DEF EndTick, TypeOK
<1>3. mine'[d] = None /\ None \notin ClaimId
    BY <1>1 DEF EndTick, TypeOK, None
<1>4. \A e \in Daemon : mine'[e] = c => e # d /\ mine[e] = c
    BY <1>2, <1>3
<1>5. \A e \in Daemon : e # d /\ mine[e] = c => c # mine[d]
    BY <1>1, <1>3, OneHolder DEF Attributed
<1>. QED
    BY <1>2, <1>4, <1>5 DEF Remembered, Active

LEMMA LostEnds ==
    ASSUME OverrunInv, NEW d \in Daemon, NEW c \in ClaimId, c = mine[d],
           PostLost(d) \/ PostLostFails(d), log' # log
    PROVE  EndedOn(c)
<1>1. TypeInv /\ TypeOK /\ Attributed
    BY DEF OverrunInv, TypeInv
<1>3. claim[c].started \in Nat /\ claim[c].expires \in Nat
    BY <1>1 DEF TypeOK, LocalClaim
<1>4. "lost" \in TerminalStatus /\ "lost" \in Status
    BY DEF TerminalStatus, Status
<1>5. LostComment(c) \in ClaimEvent
    BY <1>3, <1>4, CommentType DEF LostComment
<1>6. /\ LostComment(c).claim = c
      /\ LostComment(c).status = "lost"
      /\ LostComment(c).started = claim[c].started
    BY DEF LostComment, Comment
<1>7. log' = Append(log, LostComment(c)) /\ EndTick(d) /\ UNCHANGED <<clock, owner>>
    BY DEF PostLost, PostLostFails, PostFails, Post
<1>8. Remembered(c) /\ ~Remembered(c)'
    BY <1>1, <1>7, EndForgets DEF Remembered
<1>. QED
    BY <1>4, <1>5, <1>6, <1>7, <1>8 DEF EndedOn

LEMMA ReleaseEnds ==
    ASSUME OverrunInv, NEW d \in Daemon, NEW c \in ClaimId, c = mine[d],
           Release(d) \/ ReleaseFails(d), log' # log
    PROVE  EndedOn(c)
<1>1. TypeInv /\ TypeOK /\ Attributed
    BY DEF OverrunInv, TypeInv
<1>3. claim[c].started \in Nat /\ claim[c].started + Lease \in Nat
  <2>1. claim[c].started \in Nat
      BY <1>1 DEF TypeOK, LocalClaim
  <2>. QED BY <2>1
<1>4. {"completed", "failed"} \subseteq TerminalStatus /\ {"completed", "failed"} \subseteq Status
    BY DEF TerminalStatus, Status
<1>5. ReleaseComment(d) \in ClaimEvent
    BY <1>3, <1>4, CommentType DEF ReleaseComment
<1>6. /\ ReleaseComment(d).claim = c
      /\ ReleaseComment(d).status \in {"completed", "failed"}
      /\ ReleaseComment(d).started = claim[c].started
    BY DEF ReleaseComment, Comment
<1>7. log' = Append(log, ReleaseComment(d)) /\ EndTick(d) /\ UNCHANGED <<clock, owner>>
    BY DEF Release, ReleaseFails, PostFails, Post, histVars
<1>8. Remembered(c) /\ ~Remembered(c)'
    BY <1>1, <1>7, EndForgets DEF Remembered
<1>. QED
    BY <1>4, <1>5, <1>6, <1>7, <1>8 DEF EndedOn

LEMMA RenewalLostEnds ==
    ASSUME OverrunInv, NEW c \in ClaimId, RenewPostLost(c) \/ RenewPostLostFails(c), log' # log
    PROVE  EndedOn(c)
<1>1. TypeInv /\ TypeOK
    BY DEF OverrunInv, TypeInv
<1>2. "lost" \in TerminalStatus /\ "lost" \in Status
    BY DEF TerminalStatus, Status
<1>3. claim[c].started \in Nat /\ renewal[c].now + Lease \in Nat
  <2>1. claim[c].started \in Nat /\ renewal[c].now \in Nat
      BY <1>1 DEF TypeOK, LocalClaim, Renewal
  <2>. QED BY <2>1
<1>4. /\ RenewComment(c, "lost") \in ClaimEvent
      /\ RenewComment(c, "lost").claim = c
      /\ RenewComment(c, "lost").status = "lost"
      /\ RenewComment(c, "lost").started = claim[c].started
    BY <1>2, <1>3, CommentType DEF RenewComment, Comment
<1>5. /\ log' = Append(log, RenewComment(c, "lost")) /\ renewal[c].pc # "off"
      /\ UNCHANGED <<clock, owner>>
    BY DEF RenewPostLost, RenewPostLostFails, PostFails, Post
<1>6. renewal'[c].pc \in {"off", "armed"}
    BY <1>1 DEF RenewPostLost, RenewPostLostFails, HandleRenewalFailure, Rearmed, NoRenewal, TypeOK
<1>. QED
    BY <1>2, <1>4, <1>5, <1>6 DEF EndedOn

(***************************************************************************)
(* A step writes one comment at most, of one of the three kinds.           *)
(***************************************************************************)
LEMMA Comments ==
    ASSUME OverrunInv, [Next]_vars
    PROVE  \/ log' = log
           \/ \E d \in Daemon, c \in ClaimId : ClaimedBy(d, c)
           \/ \E c \in ClaimId : RenewedOn(c) \/ EndedOn(c)
<1>. USE DEF boardVars, tickVars, histVars
<1>1. TypeInv /\ TypeOK /\ Attributed
    BY DEF OverrunInv, TypeInv
<1>2. SUFFICES ASSUME log' # log
               PROVE  \/ \E d \in Daemon, c \in ClaimId : ClaimedBy(d, c)
                      \/ \E c \in ClaimId : RenewedOn(c) \/ EndedOn(c)
    OBVIOUS
<1>3. ASSUME NEW d \in Daemon, DaemonStep(d)
      PROVE  \/ \E c \in ClaimId : ClaimedBy(d, c)
             \/ \E c \in ClaimId : EndedOn(c)
  <2>1. \/ \E c \in ClaimId : PostClaim(d, c) \/ PostClaimFails(d, c)
        \/ PostLost(d) \/ PostLostFails(d) \/ Release(d) \/ ReleaseFails(d)
      BY <1>2, <1>3 DEF DaemonStep, BeginTick, InitialRead, GraceReread, Reread, AcquireThrows,
         StartTurn, TurnCompletes, RunFails, Crash
  <2>2. ASSUME NEW c \in ClaimId, PostClaim(d, c) \/ PostClaimFails(d, c) PROVE ClaimedBy(d, c)
      BY <1>1, <1>2, <2>2 DEF PostClaim, PostClaimFails, PostFails, Post, EndTick, ClaimedBy, TypeOK
  <2>3. CASE PostLost(d) \/ PostLostFails(d) \/ Release(d) \/ ReleaseFails(d)
    <3>1. mine[d] \in ClaimId
        BY <1>1, <2>3 DEF PostLost, PostLostFails, Release, ReleaseFails, Attributed, Holding, RunPhase
    <3>. QED BY <1>2, <2>3, <3>1, LostEnds, ReleaseEnds
  <2>. QED BY <2>1, <2>2, <2>3
<1>4. ASSUME NEW c \in ClaimId, RenewalStep(c) PROVE RenewedOn(c) \/ EndedOn(c)
  <2>1. RenewPost(c) \/ RenewPostFails(c) \/ RenewPostLost(c) \/ RenewPostLostFails(c)
      BY <1>2, <1>4 DEF RenewalStep, RenewFires, RenewVerify, RenewVerifyThrows, RenewRecheck,
         RenewRecheckThrows
  <2>2. CASE RenewPost(c) \/ RenewPostFails(c)
      BY <1>1, <1>2, <2>2 DEF RenewPost, RenewPostFails, PostFails, Post, RenewedOn, TypeOK, Renewal,
         HandleRenewalFailure, Rearmed, NoRenewal
  <2>. QED BY <1>2, <2>1, <2>2, RenewalLostEnds
<1>. QED
    BY <1>2, <1>3, <1>4 DEF Next, Tick, vars

(***************************************************************************)
(* Time, and the verdict that claims have raced, never go back; a claim    *)
(* keeps its daemon.                                                       *)
(***************************************************************************)
LEMMA Onward ==
    ASSUME TypeInv, [Next]_vars
    PROVE  /\ clock' >= clock
           /\ log' # log => clock' = clock
           /\ raced => raced'
           /\ \A c \in ClaimId : owner[c] # NoDaemon => owner'[c] = owner[c]
<1>. USE DEF boardVars, tickVars, histVars
<1>1. TypeOK /\ clock \in Nat
    BY DEF TypeInv, TypeOK
<1>2. ASSUME NEW d \in Daemon, DaemonStep(d)
      PROVE  /\ clock' = clock /\ (raced => raced')
             /\ \/ owner' = owner
                \/ \E c \in ClaimId : Fresh(c) /\ owner' = [owner EXCEPT ![c] = d]
  <2>1. CASE \E c \in ClaimId : PostClaim(d, c) \/ PostClaimFails(d, c)
      BY <2>1, Zenon DEF PostClaim, PostClaimFails
  <2>2. CASE ~\E c \in ClaimId : PostClaim(d, c) \/ PostClaimFails(d, c)
      BY <1>2, <2>2 DEF DaemonStep, BeginTick, InitialRead, GraceReread, Reread, PostLost,
         PostLostFails, AcquireThrows, StartTurn, TurnCompletes, RunFails, Release, ReleaseFails, Crash
  <2>. QED BY <2>1, <2>2
<1>3. ASSUME NEW c \in ClaimId, RenewalStep(c)
      PROVE  clock' = clock /\ (raced => raced') /\ owner' = owner
  <2>1. CASE RenewPost(c) \/ RenewPostFails(c)
      BY <2>1, Zenon DEF RenewPost, RenewPostFails
  <2>2. CASE ~(RenewPost(c) \/ RenewPostFails(c))
      BY <1>3, <2>2 DEF RenewalStep, RenewFires, RenewVerify, RenewVerifyThrows, RenewRecheck,
         RenewRecheckThrows, RenewPostLost, RenewPostLostFails
  <2>. QED BY <2>1, <2>2
<1>4. CASE \E d \in Daemon : DaemonStep(d)
  <2>1. clock' = clock /\ (raced => raced')
      BY <1>2, <1>4
  <2>2. \A c \in ClaimId : owner[c] # NoDaemon => owner'[c] = owner[c]
      BY <1>1, <1>2, <1>4 DEF Fresh, TypeOK
  <2>. QED BY <1>1, <2>1, <2>2
<1>5. CASE \E c \in ClaimId : RenewalStep(c)
    BY <1>1, <1>3, <1>5
<1>6. CASE Tick \/ UNCHANGED vars
    BY <1>1, <1>6 DEF Tick, vars
<1>. QED
    BY <1>4, <1>5, <1>6 DEF Next

(***************************************************************************)
(* Only a run in activeRuns has a timer set.                               *)
(***************************************************************************)
ArmedIsActive == \A c \in ClaimId : renewal[c].pc = "armed" => Active(c)

(***************************************************************************)
(* The way of a renewal attempt, from the timer to the listing after its   *)
(* post.                                                                   *)
(***************************************************************************)
Fires(c) ==
    /\ renewal[c].pc = "armed" /\ renewal'[c].pc = "verify"
    /\ renewal'[c].now = Now(owner[c])
    /\ UNCHANGED <<clock, log, owner>>

Verifies(c) ==
    /\ renewal[c].pc = "verify" /\ renewal'[c].pc = "post"
    /\ renewal'[c].now = renewal[c].now
    /\ c \in Unexpired(log, renewal[c].now)
    /\ UNCHANGED <<log, owner>>

Proceeds(c) ==
    /\ \/ renewal[c].pc = "post" /\ renewal'[c].pc = "recheck"
       \/ renewal[c].pc = "recheck" /\ renewal'[c].pc = "post_lost"
    /\ renewal'[c].now = renewal[c].now

(***************************************************************************)
(* What a step does to the renewal of a claim.                             *)
(***************************************************************************)
RenewalMove(c) ==
    /\ \/ renewal'[c] = renewal[c]
       \/ renewal'[c].pc \in {"off", "armed"}
       \/ Fires(c) \/ Verifies(c) \/ Proceeds(c)
    /\ renewal'[c].pc = "armed" => Active(c)'
    /\ renewal'[c].pc # "off" => renewal[c].pc # "off" \/ Remembered(c)

(***************************************************************************)
(* What a step does to a claim in memory: it keeps its date for as long as *)
(* a tick or a renewal refers to it.                                       *)
(***************************************************************************)
MemoryMove(c) ==
    /\ Remembered(c)' => Remembered(c) \/ \E d \in Daemon : PostClaim(d, c)
    /\ Remembered(c)' \/ renewal'[c].pc # "off" =>
          \/ /\ Remembered(c) \/ renewal[c].pc # "off"
             /\ claim'[c].started = claim[c].started
          \/ \E d \in Daemon : PostClaim(d, c)

LEMMA FailureMoves ==
    ASSUME TypeInv, ArmedIsActive, NEW x \in ClaimId, NEW update \in LocalClaim,
           update.started = claim[x].started, renewal[x].pc # "off",
           HandleRenewalFailure(x, update), mine' = mine, NEW c \in ClaimId
    PROVE  RenewalMove(c) /\ MemoryMove(c)
<1>1. TypeOK /\ Attributed
    BY DEF TypeInv
<1>2. Remembered(c)' <=> Remembered(c)
    BY DEF Remembered
<1>3. CASE c # x
  <2>1. renewal'[c] = renewal[c] /\ claim'[c] = claim[c]
      BY <1>1, <1>3 DEF HandleRenewalFailure, TypeOK
  <2>2. Active(c) => Active(c)'
      BY <1>1, <1>3 DEF HandleRenewalFailure, Active, TypeOK
  <2>. QED BY <1>2, <2>1, <2>2 DEF RenewalMove, MemoryMove, ArmedIsActive
<1>4. CASE c = x
  <2>1. \/ renewal'[c] = NoRenewal
        \/ renewal'[c] = Rearmed(c) /\ phase' = phase
      BY <1>1, <1>4 DEF HandleRenewalFailure, TypeOK
  <2>2. /\ renewal'[c].pc \in {"off", "armed"}
        /\ renewal'[c].pc = "armed" => Active(c) /\ Active(c)'
      BY <2>1 DEF Rearmed, NoRenewal, Active
  <2>3. claim'[c] = IF Remembered(c) THEN update ELSE NoClaim
      BY <1>1, <1>4 DEF HandleRenewalFailure, TypeOK
  <2>4. Active(c) => Remembered(c)
      BY DEF Active, Remembered
  <2>. QED BY <1>2, <1>4, <2>2, <2>3, <2>4 DEF RenewalMove, MemoryMove
<1>. QED BY <1>3, <1>4

LEMMA RenewalStepMoves ==
    ASSUME TypeInv, ArmedIsActive, NEW x \in ClaimId, RenewalStep(x), NEW c \in ClaimId
    PROVE  RenewalMove(c) /\ MemoryMove(c)
<1>. USE DEF boardVars, tickVars, histVars
<1>1. TypeOK /\ Attributed
    BY DEF TypeInv
<1>2. claim[x] \in LocalClaim /\ RenewedClaim(x) \in LocalClaim
      /\ RenewedClaim(x).started = claim[x].started
    BY <1>1 DEF RenewedClaim, TypeOK, LocalClaim, Renewal
<1>3. ASSUME NEW update \in {claim[x], RenewedClaim(x)}, HandleRenewalFailure(x, update),
             mine' = mine, renewal[x].pc # "off"
      PROVE  RenewalMove(c) /\ MemoryMove(c)
    BY <1>2, <1>3, FailureMoves
<1>4. ASSUME mine' = mine, phase' = phase, c # x => renewal'[c] = renewal[c] /\ claim'[c] = claim[c],
             claim'[x] = claim[x], Fires(x) \/ Verifies(x) \/ Proceeds(x)
      PROVE  RenewalMove(c) /\ MemoryMove(c)
  <2>1. (Remembered(c)' <=> Remembered(c)) /\ (Active(c)' <=> Active(c))
      BY <1>4 DEF Remembered, Active
  <2>2. claim'[c] = claim[c]
      BY <1>4
  <2>3. CASE c # x
      BY <1>4, <2>1, <2>2, <2>3 DEF RenewalMove, MemoryMove, ArmedIsActive
  <2>4. CASE c = x
      BY <1>4, <2>1, <2>2, <2>4 DEF RenewalMove, MemoryMove, Fires, Verifies, Proceeds
  <2>. QED BY <2>3, <2>4
<1>5. CASE RenewFires(x)
  <2>1. Fires(x) /\ \A y \in ClaimId : y # x => renewal'[y] = renewal[y]
      BY <1>1, <1>5 DEF RenewFires, Fires, TypeOK
  <2>. QED BY <1>4, <1>5, <2>1 DEF RenewFires
<1>6. CASE RenewVerify(x)
  <2>1. CASE HandleRenewalFailure(x, claim[x])
      BY <1>3, <1>6, <2>1 DEF RenewVerify
  <2>2. CASE ~HandleRenewalFailure(x, claim[x])
    <3>1. /\ renewal[x].pc = "verify" /\ renewal' = [renewal EXCEPT ![x].pc = "post"]
          /\ UNCHANGED <<log, owner, claim, phase, mine>>
          /\ \E winner : Renewable(log, x, winner, renewal[x].now)
        BY <1>6, <2>2 DEF RenewVerify
    <3>2. Verifies(x) /\ \A y \in ClaimId : y # x => renewal'[y] = renewal[y]
        BY <1>1, <3>1 DEF Verifies, Renewable, TypeOK, Renewal
    <3>. QED BY <1>4, <3>1, <3>2
  <2>. QED BY <2>1, <2>2
<1>7. CASE RenewPost(x)
  <2>1. Proceeds(x) /\ \A y \in ClaimId : y # x => renewal'[y] = renewal[y]
      BY <1>1, <1>7 DEF RenewPost, Proceeds, TypeOK, Renewal
  <2>. QED BY <1>4, <1>7, <2>1 DEF RenewPost
<1>8. CASE RenewRecheck(x)
  <2>1. CASE claim' = claim /\ renewal' = [renewal EXCEPT ![x].pc = "post_lost"]
    <3>1. Proceeds(x) /\ \A y \in ClaimId : y # x => renewal'[y] = renewal[y]
        BY <1>1, <1>8, <2>1 DEF RenewRecheck, Proceeds, TypeOK, Renewal
    <3>. QED BY <1>4, <1>8, <2>1, <3>1 DEF RenewRecheck
  <2>2. CASE ~(claim' = claim /\ renewal' = [renewal EXCEPT ![x].pc = "post_lost"])
    <3>1. /\ claim' = [claim EXCEPT ![x] = IF Remembered(x) THEN RenewedClaim(x) ELSE NoClaim]
          /\ renewal' = [renewal EXCEPT ![x] = Rearmed(x)]
          /\ mine' = mine /\ phase' = phase /\ renewal[x].pc # "off"
        BY <1>8, <2>2 DEF RenewRecheck
    <3>2. (Remembered(c)' <=> Remembered(c)) /\ (Active(c)' <=> Active(c))
        BY <3>1 DEF Remembered, Active
    <3>3. CASE c # x
      <4>1. renewal'[c] = renewal[c] /\ claim'[c] = claim[c]
          BY <1>1, <3>1, <3>3 DEF TypeOK
      <4>. QED BY <3>2, <4>1 DEF RenewalMove, MemoryMove, ArmedIsActive
    <3>4. CASE c = x
      <4>1. /\ renewal'[c] = Rearmed(c)
            /\ claim'[c] = IF Remembered(c) THEN RenewedClaim(c) ELSE NoClaim
          BY <1>1, <3>1, <3>4 DEF TypeOK
      <4>2. /\ renewal'[c].pc \in {"off", "armed"}
            /\ renewal'[c].pc = "armed" => Active(c)
          BY <4>1 DEF Rearmed, NoRenewal
      <4>3. Active(c) => Remembered(c)
          BY DEF Active, Remembered
      <4>. QED BY <1>2, <3>1, <3>2, <3>4, <4>1, <4>2, <4>3 DEF RenewalMove, MemoryMove
    <3>. QED BY <3>3, <3>4
  <2>. QED BY <2>1, <2>2
<1>9. CASE \/ RenewVerifyThrows(x) \/ RenewPostFails(x) \/ RenewRecheckThrows(x)
           \/ RenewPostLost(x) \/ RenewPostLostFails(x)
    BY <1>3, <1>9 DEF RenewVerifyThrows, RenewPostFails, RenewRecheckThrows, RenewPostLost,
       RenewPostLostFails
<1>. QED
    BY <1>5, <1>6, <1>7, <1>8, <1>9 DEF RenewalStep

LEMMA DaemonStepMoves ==
    ASSUME TypeInv, ArmedIsActive, NEW d \in Daemon, DaemonStep(d), NEW c \in ClaimId
    PROVE  RenewalMove(c) /\ MemoryMove(c)
<1>. USE DEF boardVars, tickVars, histVars
<1>1. TypeOK /\ Attributed
    BY DEF TypeInv
<1>2. Active(c) => Remembered(c)
    BY DEF Active, Remembered
<1>3. renewal[c].pc \in RenewalPc
    BY <1>1 DEF TypeOK, Renewal
(* A tick that stays where it was holds what it held. *)
<1>4. ASSUME mine' = mine, \A e \in Daemon : phase[e] \in {"turn", "completing"} =>
                                phase'[e] \in {"turn", "completing"},
             UNCHANGED <<claim, renewal>>
      PROVE  RenewalMove(c) /\ MemoryMove(c)
  <2>1. (Remembered(c)' <=> Remembered(c)) /\ (Active(c) => Active(c)')
      BY <1>4 DEF Remembered, Active
  <2>. QED BY <1>4, <2>1 DEF RenewalMove, MemoryMove, ArmedIsActive
(* The end of a tick outside a turn. *)
<1>5. ASSUME EndTick(d), phase[d] \notin {"turn", "completing"}, renewal' = renewal,
             c # mine[d] \/ renewal[c].pc \in InFlight => claim'[c] = claim[c]
      PROVE  RenewalMove(c) /\ MemoryMove(c)
  <2>1. c = mine[d] => ~Active(c)
      BY <1>1, <1>5, OneHolder DEF Active, Holding, RunPhase
  <2>2. c = mine[d] => renewal[c].pc = "off" \/ renewal[c].pc \in InFlight
      BY <1>3, <2>1 DEF ArmedIsActive, RenewalPc, InFlight
  <2>3. /\ Remembered(c)' => Remembered(c)
        /\ ~(c = mine[d] /\ Remembered(c)')
        /\ c # mine[d] => (Active(c) => Active(c)')
      BY <1>5, EndForgets
  <2>4. renewal'[c].pc = "armed" => Active(c)'
      BY <1>5, <2>1, <2>3 DEF ArmedIsActive
  <2>. QED BY <1>5, <2>2, <2>3, <2>4 DEF RenewalMove, MemoryMove
<1>6. CASE BeginTick(d)
    BY <1>1, <1>4, <1>6 DEF BeginTick, TypeOK
<1>7. CASE InitialRead(d)
  <2>1. CASE EndTick(d)
      BY <1>5, <1>7, <2>1 DEF InitialRead
  <2>2. CASE ~EndTick(d)
      BY <1>1, <1>4, <1>7, <2>2 DEF InitialRead, TypeOK
  <2>. QED BY <2>1, <2>2
<1>8. CASE GraceReread(d)
  <2>1. CASE EndTick(d)
      BY <1>5, <1>8, <2>1 DEF GraceReread
  <2>2. CASE ~EndTick(d)
      BY <1>1, <1>4, <1>8, <2>2 DEF GraceReread, TypeOK
  <2>. QED BY <2>1, <2>2
<1>9. ASSUME NEW x \in ClaimId, PostClaim(d, x) PROVE RenewalMove(c) /\ MemoryMove(c)
  <2>1. /\ renewal' = renewal
        /\ \A e \in Daemon : e # d => mine'[e] = mine[e] /\ phase'[e] = phase[e]
        /\ mine'[d] = x /\ phase[d] = "post"
        /\ c # x => claim'[c] = claim[c]
      BY <1>1, <1>9 DEF PostClaim, TypeOK
  <2>2. Active(c) => Active(c)'
      BY <2>1 DEF Active
  <2>3. Remembered(c)' => Remembered(c) \/ c = x
      BY <2>1 DEF Remembered
  <2>4. c = x => \E e \in Daemon : PostClaim(e, c)
      BY <1>9
  <2>. QED BY <2>1, <2>2, <2>3, <2>4 DEF RenewalMove, MemoryMove, ArmedIsActive
<1>10. ASSUME NEW x \in ClaimId, PostClaimFails(d, x) PROVE RenewalMove(c) /\ MemoryMove(c)
    BY <1>5, <1>10 DEF PostClaimFails
<1>11. CASE Reread(d)
    BY <1>1, <1>4, <1>11 DEF Reread, TypeOK
<1>12. CASE PostLost(d) \/ PostLostFails(d) \/ AcquireThrows(d)
  <2>1. c # mine[d] \/ renewal[c].pc \in InFlight => claim'[c] = claim[c]
      BY <1>1, <1>12 DEF PostLost, PostLostFails, AcquireThrows, ForgetClaim, TypeOK
  <2>. QED
      BY <1>5, <1>12, <2>1 DEF PostLost, PostLostFails, AcquireThrows
<1>13. CASE StartTurn(d)
  <2>1. /\ claim' = claim /\ mine' = mine
        /\ \A e \in Daemon : phase'[e] = IF e = d THEN "turn" ELSE phase[e]
        /\ c # mine[d] => renewal'[c] = renewal[c]
        /\ c = mine[d] => renewal'[c].pc = "armed"
      BY <1>1, <1>13 DEF StartTurn, TypeOK
  <2>2. (Remembered(c)' <=> Remembered(c)) /\ (Active(c) => Active(c)')
      BY <2>1 DEF Remembered, Active
  <2>3. c = mine[d] => Remembered(c) /\ Active(c)'
      BY <2>1 DEF Remembered, Active
  <2>. QED BY <2>1, <2>2, <2>3 DEF RenewalMove, MemoryMove, ArmedIsActive
<1>14. CASE TurnCompletes(d)
    BY <1>1, <1>4, <1>14 DEF TurnCompletes, TypeOK
<1>15. CASE RunFails(d)
  <2>1. /\ claim' = claim /\ mine' = mine
        /\ \A e \in Daemon : e # d => phase'[e] = phase[e]
        /\ c # mine[d] => renewal'[c] = renewal[c]
        /\ c = mine[d] => renewal'[c].pc = "off" \/ (renewal'[c] = renewal[c] /\ renewal[c].pc # "armed")
      BY <1>1, <1>15 DEF RunFails, ClearTimer, NoRenewal, TypeOK
  <2>2. Remembered(c)' <=> Remembered(c)
      BY <2>1 DEF Remembered
  <2>3. c # mine[d] /\ Active(c) => Active(c)'
      BY <2>1 DEF Active
  <2>. QED BY <2>1, <2>2, <2>3 DEF RenewalMove, MemoryMove, ArmedIsActive
<1>16. CASE Release(d) \/ ReleaseFails(d)
  <2>1. /\ EndTick(d)
        /\ c # mine[d] => renewal'[c] = renewal[c] /\ claim'[c] = claim[c]
        /\ c = mine[d] => renewal'[c].pc = "off" \/ (renewal'[c] = renewal[c] /\ renewal[c].pc # "armed")
        /\ c = mine[d] /\ renewal[c].pc \in InFlight => claim'[c] = claim[c]
      BY <1>1, <1>16 DEF Release, ReleaseFails, ClearTimer, ForgetClaim, NoRenewal, TypeOK
  <2>2. renewal[c].pc = "off" \/ renewal[c].pc = "armed" \/ renewal[c].pc \in InFlight
      BY <1>3 DEF RenewalPc, InFlight
  <2>3. /\ Remembered(c)' => Remembered(c)
        /\ ~(c = mine[d] /\ Remembered(c)')
        /\ c # mine[d] => (Active(c) => Active(c)')
      BY <2>1, EndForgets
  <2>4. renewal'[c].pc = "armed" => Active(c)'
      BY <2>1, <2>3 DEF ArmedIsActive
  <2>. QED BY <2>1, <2>2, <2>3, <2>4 DEF RenewalMove, MemoryMove
<1>17. CASE Crash(d)
  <2>1. /\ EndTick(d)
        /\ owner[c] = d => renewal'[c].pc = "off"
        /\ owner[c] # d => renewal'[c] = renewal[c] /\ claim'[c] = claim[c]
      BY <1>1, <1>17 DEF Crash, NoRenewal, TypeOK
  <2>2. /\ Remembered(c)' => Remembered(c)
        /\ ~(c = mine[d] /\ Remembered(c)')
        /\ c # mine[d] => (Active(c) => Active(c)')
      BY <2>1, EndForgets
  <2>3. Remembered(c) /\ owner[c] = d => c = mine[d]
      BY <1>1 DEF Remembered, Attributed, None
  <2>4. c = mine[d] => owner[c] = d
      BY <1>1 DEF Attributed, None
  <2>5. renewal'[c].pc = "armed" => Active(c)'
      BY <2>1, <2>2, <2>4 DEF ArmedIsActive
  <2>. QED BY <2>1, <2>2, <2>3, <2>5 DEF RenewalMove, MemoryMove
<1>. QED
    BY <1>6, <1>7, <1>8, <1>9, <1>10, <1>11, <1>12, <1>13, <1>14, <1>15, <1>16, <1>17
    DEF DaemonStep

LEMMA Moves ==
    ASSUME TypeInv, ArmedIsActive, [Next]_vars, NEW c \in ClaimId
    PROVE  RenewalMove(c) /\ MemoryMove(c)
<1>1. CASE Tick \/ UNCHANGED vars
  <2>1. UNCHANGED <<claim, renewal, phase, mine>>
      BY <1>1 DEF Tick, vars, tickVars
  <2>2. (Remembered(c)' <=> Remembered(c)) /\ (Active(c)' <=> Active(c))
      BY <2>1 DEF Remembered, Active
  <2>. QED BY <2>1, <2>2 DEF RenewalMove, MemoryMove, ArmedIsActive
<1>. QED
    BY <1>1, DaemonStepMoves, RenewalStepMoves DEF Next

-----------------------------------------------------------------------------
(* A comment changes what is known of its own claim only. *)

LEMMA CommentTypes ==
    ASSUME OverrunInv
    PROVE  /\ \A d \in Daemon, c \in ClaimId :
                 /\ ClaimComment(d, c) \in ClaimEvent
                 /\ ClaimComment(d, c).claim = c
                 /\ ClaimComment(d, c).status = "claimed"
                 /\ ClaimComment(d, c).started = tickNow[d]
                 /\ ClaimComment(d, c).expires = tickNow[d] + Lease
           /\ \A c \in ClaimId :
                 /\ RenewComment(c, "renewed") \in ClaimEvent
                 /\ RenewComment(c, "renewed").claim = c
                 /\ RenewComment(c, "renewed").status = "renewed"
                 /\ RenewComment(c, "renewed").started = claim[c].started
                 /\ RenewComment(c, "renewed").expires = renewal[c].now + Lease
<1>1. TypeOK
    BY DEF OverrunInv, TypeInv
<1>2. {"claimed", "renewed"} \subseteq Status
    BY DEF Status, LiveStatus
<1>3. ASSUME NEW d \in Daemon, NEW c \in ClaimId PROVE ClaimComment(d, c) \in ClaimEvent
  <2>1. tickNow[d] \in Nat
      BY <1>1 DEF TypeOK
  <2>2. tickNow[d] + Lease \in Nat
      BY <2>1
  <2>. QED BY <1>2, <2>1, <2>2, CommentType DEF ClaimComment
<1>4. ASSUME NEW c \in ClaimId PROVE RenewComment(c, "renewed") \in ClaimEvent
  <2>1. claim[c].started \in Nat /\ renewal[c].now \in Nat
      BY <1>1 DEF TypeOK, LocalClaim, Renewal
  <2>2. renewal[c].now + Lease \in Nat
      BY <2>1
  <2>. QED BY <1>2, <2>1, <2>2, CommentType DEF RenewComment
<1>. QED
    BY <1>3, <1>4 DEF ClaimComment, RenewComment, Comment

LEMMA Untouched ==
    ASSUME OverrunInv, NEW c \in ClaimId,
           log' = log \/ \E event \in ClaimEvent : event.claim # c /\ log' = Append(log, event)
    PROVE  /\ EventsOf(log, c)' = EventsOf(log, c)
           /\ \A i \in EventsOf(log, c) : log'[i] = log[i]
           /\ Terminated(c)' <=> Terminated(c)
           /\ Resurrections(c)' = Resurrections(c)
           /\ Claims(log) \subseteq Claims(log')
           /\ c \in Claims(log') => c \in Claims(log)
           /\ c \in Claims(log) => /\ State(log', c) = State(log, c)
                                   /\ LastIndex(log', c) = LastIndex(log, c)
                                   /\ FirstIndex(log', c) = FirstIndex(log, c)
<1>1. log \in Seq(ClaimEvent) /\ HasLast(log)
    BY DEF OverrunInv, TypeInv, TypeOK
<1>2. CASE log' = log
    BY <1>2 DEF EventsOf, Terminated, Resurrections
<1>3. ASSUME NEW event \in ClaimEvent, event.claim # c, log' = Append(log, event)
      PROVE  /\ EventsOf(log', c) = EventsOf(log, c)
             /\ \A i \in EventsOf(log, c) : log'[i] = log[i]
             /\ Claims(log) \subseteq Claims(log')
             /\ c \in Claims(log') => c \in Claims(log)
             /\ c \in Claims(log) => State(log', c) = State(log, c)
             /\ c \in Claims(log) => FirstIndex(log', c) = FirstIndex(log, c)
    BY <1>1, <1>3, EventsAppend, StateAppend, FirstIndexAppend DEF EventsOf
<1>4. CASE log' # log
  <2>1. PICK event \in ClaimEvent : event.claim # c /\ log' = Append(log, event)
      BY <1>4
  <2>2. /\ EventsOf(log', c) = EventsOf(log, c)
        /\ \A i \in EventsOf(log, c) : log'[i] = log[i]
      BY <1>3, <2>1
  <2>3. /\ Terminated(c)' <=> Terminated(c)
        /\ Resurrections(c)' = Resurrections(c)
      BY <2>2 DEF Terminated, Resurrections
  <2>4. LastIndex(log', c) = LastIndex(log, c)
      BY <2>2 DEF LastIndex
  <2>. QED BY <1>3, <2>1, <2>2, <2>3, <2>4
<1>. QED
    BY <1>2, <1>4

LEMMA Touched ==
    ASSUME OverrunInv, NEW event \in ClaimEvent, log' = Append(log, event),
           NEW c, c = event.claim
    PROVE  /\ EventsOf(log', c) = EventsOf(log, c) \cup {Len(log) + 1}
           /\ log'[Len(log) + 1] = event
           /\ \A i \in EventsOf(log, c) : log'[i] = log[i] /\ i \in Nat /\ i < Len(log) + 1
           /\ c \in Claims(log')
           /\ State(log', c) = event
           /\ LastIndex(log', c) = Len(log) + 1
           /\ c \in Claims(log) => FirstIndex(log', c) = FirstIndex(log, c)
           /\ c \notin Claims(log) => FirstIndex(log', c) = Len(log) + 1
<1>1. log \in Seq(ClaimEvent) /\ HasLast(log) /\ log' \in Seq(ClaimEvent) /\ Len(log) + 1 \in Nat
    BY DEF OverrunInv, TypeInv, TypeOK
<1>2. /\ EventsOf(log', c) = EventsOf(log, c) \cup {Len(log) + 1}
      /\ log'[Len(log) + 1] = event
      /\ \A i \in EventsOf(log, c) : log'[i] = log[i] /\ i \in Nat /\ i < Len(log) + 1
    BY <1>1, EventsAppend DEF EventsOf
<1>3. c \in Claims(log') /\ State(log', c) = event
    BY <1>1, StateAppend
<1>4. Len(log) + 1 \in EventsOf(log', c) /\ \A j \in EventsOf(log', c) : j <= Len(log) + 1
    BY <1>1, <1>2
<1>5. LastIndex(log', c) = Len(log) + 1
    BY <1>1, <1>4, LastIndexDef
<1>6. /\ c \in Claims(log) => FirstIndex(log', c) = FirstIndex(log, c)
      /\ c \notin Claims(log) => FirstIndex(log', c) = Len(log) + 1
    BY <1>1, FirstIndexAppend
<1>. QED
    BY <1>2, <1>3, <1>5, <1>6

(***************************************************************************)
(* The same of the two histories of a claim, its end and its return.       *)
(***************************************************************************)
LEMMA TouchedHistory ==
    ASSUME OverrunInv, NEW event \in ClaimEvent, log' = Append(log, event),
           NEW c, c = event.claim
    PROVE  /\ Terminated(c)' <=> Terminated(c) \/ event.status \in TerminalStatus
           /\ Resurrections(c)' = Resurrections(c) \cup
                 IF event.status \in LiveStatus /\ Terminated(c) THEN {Len(log) + 1} ELSE {}
<1>. DEFINE n == Len(log) + 1
<1>1. /\ EventsOf(log', c) = EventsOf(log, c) \cup {n}
      /\ log'[n] = event
      /\ \A i \in EventsOf(log, c) : log'[i] = log[i] /\ i \in Nat /\ i < n
    BY Touched
<1>2. n \in Nat
    BY DEF OverrunInv, TypeInv, TypeOK
<1>. HIDE DEF n
<1>3. Terminated(c)' <=> Terminated(c) \/ event.status \in TerminalStatus
  <2>1. Terminated(c)' <=> \E i \in EventsOf(log', c) : log'[i].status \in TerminalStatus
      BY DEF Terminated
  <2>. QED BY <1>1, <2>1 DEF Terminated
<1>4. ASSUME NEW i
      PROVE  i \in Resurrections(c)' <=>
                i \in Resurrections(c) \/ (i = n /\ event.status \in LiveStatus /\ Terminated(c))
  <2>1. i \in Resurrections(c)' <=>
           /\ i \in EventsOf(log', c) /\ log'[i].status \in LiveStatus
           /\ \E j \in EventsOf(log', c) : j < i /\ log'[j].status \in TerminalStatus
      BY DEF Resurrections
  <2>2. CASE i \in EventsOf(log, c)
    <3>1. i < n /\ i \in Nat /\ log'[i] = log[i]
        BY <1>1, <2>2
    <3>2. ~(n < i)
        BY <1>2, <3>1
    <3>4. \A j \in EventsOf(log', c) : j < i => j \in EventsOf(log, c) /\ log'[j] = log[j]
        BY <1>1, <3>2, Zenon
    <3>3. EventsOf(log, c) \subseteq EventsOf(log', c) /\ i # n
        BY <1>1, <1>2, <3>1
    <3>. QED BY <1>1, <2>1, <2>2, <3>1, <3>3, <3>4, Zenon DEF Resurrections
  <2>3. CASE i = n
    <3>1. n \notin EventsOf(log, c) /\ n \notin Resurrections(c)
        BY <1>1, <1>2 DEF Resurrections
    <3>2. \A j \in EventsOf(log', c) : j < n <=> j \in EventsOf(log, c)
        BY <1>1, <1>2
    <3>3. (\E j \in EventsOf(log', c) : j < n /\ log'[j].status \in TerminalStatus) <=> Terminated(c)
        BY <1>1, <3>2, Zenon DEF Terminated
    <3>. QED BY <1>1, <2>1, <2>3, <3>1, <3>3
  <2>4. CASE i \notin EventsOf(log, c) /\ i # n
      BY <1>1, <2>1, <2>4 DEF Resurrections
  <2>. QED BY <2>2, <2>3, <2>4
<1>5. Resurrections(c)' = Resurrections(c) \cup
         IF event.status \in LiveStatus /\ Terminated(c) THEN {n} ELSE {}
  <2>1. \A i : i \in Resurrections(c)' <=>
                  i \in Resurrections(c) \cup
                     IF event.status \in LiveStatus /\ Terminated(c) THEN {n} ELSE {}
      BY <1>4
  <2>. QED BY <2>1
<1>. QED
    BY <1>3, <1>5 DEF n

-----------------------------------------------------------------------------
(* A claim comes back to life once at most. *)

(***************************************************************************)
(* What makes AtMostOneResurrection inductive.  A run that is remembered   *)
(* when its claim ends was told so by its own renewal, and renews no more: *)
(* the attempts that follow find the claim ended.  One that is forgotten   *)
(* has no timer: what may still post is the one attempt in flight, and     *)
(* when it has posted there is none that could.                            *)
(***************************************************************************)
Once(c) ==
    /\ c \in Claims(log) => owner[c] # NoDaemon
    /\ Remembered(c) => c \in Claims(log)
    /\ \/ Resurrections(c) = {}
       \/ /\ \E i : Resurrections(c) = {i}
          /\ ~Remembered(c)
          /\ renewal[c].pc \in {"recheck", "post_lost", "off"}
    /\ Terminated(c) /\ Resurrections(c) = {} =>
          /\ State(log, c).status \in TerminalStatus
          /\ Remembered(c) => renewal[c].pc \in {"off", "armed", "verify"}

OnceInv ==
    /\ OverrunInv
    /\ ArmedIsActive
    /\ \A c \in ClaimId : Once(c)

LEMMA OnceInit == Init => OnceInv
<1>. SUFFICES ASSUME Init
              PROVE  OnceInv
    OBVIOUS
<1>1. ArmedIsActive
    BY DEF Init, ArmedIsActive, NoRenewal
<1>2. log = <<>> /\ DOMAIN log = {}
    BY DEF Init
<1>3. \A c : EventsOf(log, c) = {} /\ c \notin Claims(log)
    BY <1>2 DEF EventsOf, Claims
<1>4. \A c \in ClaimId : Once(c)
    BY <1>3 DEF Init, Once, Remembered, Resurrections, Terminated, None
<1>. QED
    BY OverrunInit, <1>1, <1>4 DEF OnceInv

LEMMA OnceStep == OnceInv /\ [Next]_vars => OnceInv'
<1>. SUFFICES ASSUME OnceInv, [Next]_vars
              PROVE  OnceInv'
    OBVIOUS
<1>1. OverrunInv /\ OverrunInv' /\ TypeInv /\ TypeInv' /\ TypeOK /\ Attributed /\ Attributed'
    BY OverrunStep DEF OnceInv, OverrunInv, TypeInv
<1>2. \A c \in ClaimId : RenewalMove(c) /\ MemoryMove(c)
    BY <1>1, Moves DEF OnceInv
<1>3. ArmedIsActive'
    BY <1>2 DEF ArmedIsActive, RenewalMove
<1>4. \A c \in ClaimId : owner[c] # NoDaemon => owner'[c] = owner[c]
    BY <1>1, Onward
(* A claim a tick remembers is on the board. *)
<1>m. Claims(log) \subseteq Claims(log')
  <2>1. log' = log \/ \E event \in ClaimEvent : log' = Append(log, event)
      BY <1>1, Comments, CommentTypes DEF ClaimedBy, RenewedOn, EndedOn
  <2>2. log \in Seq(ClaimEvent) /\ HasLast(log)
      BY <1>1 DEF OverrunInv, TypeOK
  <2>3. ASSUME NEW event \in ClaimEvent, log' = Append(log, event)
        PROVE  Claims(log) \subseteq Claims(log')
    <3>1. Claims(Append(log, event)) = Claims(log) \cup {event.claim}
        BY <2>2, StateAppend
    <3>. QED BY <2>3, <3>1
  <2>4. ASSUME log' = log PROVE Claims(log) \subseteq Claims(log')
      BY <2>4
  <2>. QED BY <2>1, <2>3, <2>4
<1>r. ASSUME NEW c \in ClaimId, Remembered(c)' PROVE c \in Claims(log')
  <2>1. CASE Remembered(c)
      BY <1>m, <2>1 DEF OnceInv, Once
  <2>2. ASSUME NEW d \in Daemon, PostClaim(d, c) PROVE c \in Claims(log')
    <3>1. log' = Append(log, ClaimComment(d, c))
        BY <2>2 DEF PostClaim, Post
    <3>. QED BY <1>1, <3>1, CommentTypes, Touched
  <2>. QED BY <1>2, <1>r, <2>1, <2>2 DEF MemoryMove
(* A claim that was drawn is not remembered again, nor has a timer again. *)
<1>5. ASSUME NEW c \in ClaimId, owner[c] # NoDaemon PROVE Remembered(c)' => Remembered(c)
    BY <1>2, <1>5 DEF MemoryMove, PostClaim, Fresh
<1>6. ASSUME NEW c \in ClaimId PROVE renewal'[c].pc = "armed" => Remembered(c)'
    BY <1>3, <1>6 DEF ArmedIsActive, Active, Remembered
<1>7. ASSUME NEW c \in ClaimId, owner[c] # NoDaemon, ~Remembered(c),
             renewal[c].pc \in {"recheck", "post_lost", "off"}
      PROVE  ~Remembered(c)' /\ renewal'[c].pc \in {"recheck", "post_lost", "off"}
    BY <1>2, <1>5, <1>6, <1>7 DEF RenewalMove, Fires, Verifies, Proceeds
(* A claim that ended is not verified. *)
<1>8. ASSUME NEW c \in ClaimId, State(log, c).status \in TerminalStatus,
             renewal[c].pc \in {"off", "armed", "verify"}
      PROVE  renewal'[c].pc \in {"off", "armed", "verify"}
    BY <1>2, <1>8 DEF RenewalMove, Fires, Verifies, Proceeds, Unexpired, Live
<1>9. ASSUME NEW c \in ClaimId, Once(c), c \in Claims(log) \/ c \notin Claims(log'),
             Claims(log) \subseteq Claims(log'),
             Terminated(c)' <=> Terminated(c), Resurrections(c)' = Resurrections(c),
             c \in Claims(log) => State(log, c)' = State(log, c)
      PROVE  Once(c)'
  <2>1. (Terminated(c) \/ Resurrections(c) # {}) => c \in Claims(log)
      BY DEF Terminated, Resurrections, EventsOf, Claims
  <2>2. (c \in Claims(log)' => owner'[c] # NoDaemon) /\ (Remembered(c)' => c \in Claims(log)')
      BY <1>4, <1>9, <1>r DEF Once
  <2>3. CASE Resurrections(c) # {}
      BY <1>7, <1>9, <2>1, <2>2, <2>3 DEF Once
  <2>4. CASE Resurrections(c) = {}
    <3>1. CASE Terminated(c)
      <4>1. owner[c] # NoDaemon /\ State(log, c).status \in TerminalStatus
          BY <1>9, <2>1, <2>4, <3>1 DEF Once
      <4>2. Remembered(c)' => renewal'[c].pc \in {"off", "armed", "verify"}
          BY <1>5, <1>8, <1>9, <2>4, <3>1, <4>1 DEF Once
      <4>. QED BY <1>9, <2>1, <2>2, <2>4, <3>1, <4>1, <4>2 DEF Once
    <3>2. CASE ~Terminated(c)
        BY <1>9, <2>2, <2>4, <3>2 DEF Once
    <3>. QED BY <3>1, <3>2
  <2>. QED BY <2>3, <2>4
<1>10. ASSUME NEW c \in ClaimId,
              log' = log \/ \E event \in ClaimEvent : event.claim # c /\ log' = Append(log, event)
       PROVE  Once(c)'
    BY <1>1, <1>9, <1>10, Untouched DEF OnceInv
<1>11. {"claimed", "renewed"} \cap TerminalStatus = {} /\ LiveStatus \cap TerminalStatus = {}
    BY DEF LiveStatus, TerminalStatus
(* The comments on the claim itself. *)
<1>12. ASSUME NEW d \in Daemon, NEW c \in ClaimId, ClaimedBy(d, c) PROVE Once(c)'
  <2>1. owner[c] = NoDaemon /\ owner'[c] = d /\ c \notin Claims(log)
      BY <1>1, <1>12 DEF ClaimedBy, Fresh, OnceInv, Once, TypeOK
  <2>2. ~Terminated(c) /\ Resurrections(c) = {}
      BY <2>1 DEF Terminated, Resurrections, EventsOf, Claims
  <2>3. ~Terminated(c)' /\ Resurrections(c)' = {}
      BY <1>1, <1>11, <1>12, <2>2, CommentTypes, TouchedHistory DEF ClaimedBy
  <2>. QED BY <1>r, <2>1, <2>3 DEF Once
<1>13. ASSUME NEW c \in ClaimId, RenewedOn(c) PROVE Once(c)'
  <2>1. c \in Claims(log) /\ Once(c) /\ owner[c] # NoDaemon /\ owner'[c] = owner[c]
      BY <1>1, <1>13 DEF RenewedOn, OnceInv, Once, OverrunInv, Bounded
  <2>2. Resurrections(c) = {} /\ (Terminated(c) => ~Remembered(c))
      BY <1>13, <2>1 DEF RenewedOn, Once
  <2>3. /\ Terminated(c)' <=> Terminated(c)
        /\ Resurrections(c)' = IF Terminated(c) THEN {Len(log) + 1} ELSE {}
      BY <1>1, <1>11, <1>13, <2>2, CommentTypes, TouchedHistory DEF RenewedOn, LiveStatus
  <2>4. CASE Terminated(c)
    <3>1. ~Remembered(c)'
        BY <1>5, <2>1, <2>2, <2>4
    <3>2. renewal'[c].pc \in {"recheck", "off"}
        BY <1>6, <1>13, <3>1 DEF RenewedOn
    <3>. QED BY <1>r, <2>1, <2>3, <2>4, <3>1, <3>2 DEF Once
  <2>. QED BY <1>r, <2>1, <2>3, <2>4 DEF Once
<1>14. ASSUME NEW c \in ClaimId, EndedOn(c) PROVE Once(c)'
  <2>1. PICK event \in ClaimEvent : /\ event.claim = c /\ event.status \in TerminalStatus
                                    /\ log' = Append(log, event)
      BY <1>14 DEF EndedOn
  <2>2. c \in Claims(log) /\ Once(c) /\ owner[c] # NoDaemon /\ owner'[c] = owner[c]
    <3>1. owner[c] # NoDaemon
        BY <1>1, <1>14 DEF EndedOn, Remembered, Attributed, None
    <3>2. c \in Claims(log)
        BY <1>1, <1>14 DEF EndedOn, OverrunInv, Bounded, OnceInv, Once
    <3>. QED BY <1>4, <3>1, <3>2 DEF OnceInv
  <2>3. Terminated(c)' /\ Resurrections(c)' = Resurrections(c) /\ State(log', c) = event
    <3>1. event.status \notin LiveStatus
        BY <1>11, <2>1
    <3>2. State(log', c) = event
        BY <1>1, <2>1, Touched
    <3>. QED BY <1>1, <2>1, <3>1, <3>2, TouchedHistory
  <2>4. Remembered(c)' => renewal'[c].pc \in {"off", "armed", "verify"}
      BY <1>14 DEF EndedOn
  <2>5. CASE Resurrections(c) # {}
      BY <1>7, <1>r, <2>2, <2>3, <2>5 DEF Once
  <2>6. CASE Resurrections(c) = {}
      BY <1>r, <2>1, <2>2, <2>3, <2>4, <2>6 DEF Once
  <2>. QED BY <2>5, <2>6
<1>15. ASSUME NEW c \in ClaimId PROVE Once(c)'
  <2>1. CASE log' = log
      BY <1>10, <2>1
  <2>2. ASSUME NEW d \in Daemon, NEW x \in ClaimId, ClaimedBy(d, x) PROVE Once(c)'
    <3>1. x # c => \E event \in ClaimEvent : event.claim # c /\ log' = Append(log, event)
        BY <1>1, <2>2, CommentTypes DEF ClaimedBy
    <3>. QED BY <1>10, <1>12, <2>2, <3>1
  <2>3. ASSUME NEW x \in ClaimId, RenewedOn(x) \/ EndedOn(x) PROVE Once(c)'
    <3>1. x # c => \E event \in ClaimEvent : event.claim # c /\ log' = Append(log, event)
        BY <1>1, <2>3, CommentTypes DEF RenewedOn, EndedOn
    <3>. QED BY <1>10, <1>13, <1>14, <2>3, <3>1
  <2>. QED BY <1>1, <2>1, <2>2, <2>3, Comments
<1>. QED
    BY <1>1, <1>3, <1>15 DEF OnceInv

LEMMA OnceAlways == Spec => []OnceInv
BY OnceInit, OnceStep, PTL DEF Spec

(***************************************************************************)
(* However a renewal in flight, the end of its run and their comments      *)
(* interleave, an ended claim comes back to life once at most, in any      *)
(* number of daemons and of claims.                                        *)
(***************************************************************************)
THEOREM OneResurrection == Spec => []AtMostOneResurrection
<1>1. ASSUME OnceInv, NEW c \in ClaimId PROVE Cardinality(Resurrections(c)) <= 1
  <2>1. CASE Resurrections(c) = {}
      BY <2>1, FS_EmptySet
  <2>2. CASE Resurrections(c) # {}
    <3>1. PICK i : Resurrections(c) = {i}
        BY <1>1, <2>2 DEF OnceInv, Once
    <3>2. Cardinality({i}) = 1
        BY FS_Singleton
    <3>. QED BY <3>1, <3>2
  <2>. QED BY <2>1, <2>2
<1>2. OnceInv => AtMostOneResurrection
    BY <1>1 DEF AtMostOneResurrection
<1>. QED
    BY <1>2, OnceAlways, PTL

-----------------------------------------------------------------------------
(* A claim is stolen after the grace only. *)

(***************************************************************************)
(* What a step does to a tick: it stays where it is with what it has read, *)
(* or takes the one step that leads to where it is now.                    *)
(***************************************************************************)
Stays(d) == UNCHANGED <<tickNow[d], wakeAt[d], mine[d], seen[d]>>

Works == {"preparing", "turn", "completing"}

TickMove(d) ==
    /\ seen'[d] \in {seen[d], 0, Len(log)}
    /\ phase'[d] = "grace" => (phase[d] = "grace" /\ Stays(d)) \/ InitialRead(d)
    /\ phase'[d] = "post" => (phase[d] = "post" /\ Stays(d)) \/ InitialRead(d) \/ GraceReread(d)
    /\ phase'[d] = "reread" =>
          (phase[d] = "reread" /\ Stays(d)) \/ \E c \in ClaimId : PostClaim(d, c)
    /\ phase'[d] \in Works => (phase[d] \in Works /\ mine'[d] = mine[d]) \/ Reread(d)

LEMMA OwnTickMove ==
    ASSUME TypeInv, NEW d \in Daemon, DaemonStep(d)
    PROVE  TickMove(d)
<1>. USE DEF boardVars, tickVars, histVars
<1>1. TypeOK
    BY DEF TypeInv
<1>2. ASSUME EndTick(d) PROVE TickMove(d)
    BY <1>1, <1>2 DEF EndTick, TickMove, Works, TypeOK
<1>3. CASE BeginTick(d)
    BY <1>1, <1>3 DEF BeginTick, TickMove, Works, TypeOK
<1>4. CASE InitialRead(d)
  <2>1. CASE ~EndTick(d)
    <3>1. /\ phase'[d] \in {"post", "grace"}
          /\ seen'[d] \in {seen[d], Len(log)}
        BY <1>1, <1>4, <2>1 DEF InitialRead, TypeOK
    <3>. QED BY <1>4, <3>1 DEF TickMove, Works
  <2>. QED BY <1>2, <2>1
<1>5. CASE GraceReread(d)
  <2>1. CASE ~EndTick(d)
    <3>1. /\ phase'[d] = "post"
          /\ seen'[d] \in {seen[d], Len(log)}
        BY <1>1, <1>5, <2>1 DEF GraceReread, TypeOK
    <3>. QED BY <1>5, <3>1 DEF TickMove, Works
  <2>. QED BY <1>2, <2>1
<1>6. ASSUME NEW c \in ClaimId, PostClaim(d, c) PROVE TickMove(d)
  <2>1. phase'[d] = "reread" /\ seen'[d] = 0
      BY <1>1, <1>6 DEF PostClaim, TypeOK
  <2>. QED BY <1>6, <2>1 DEF TickMove, Works
<1>7. CASE Reread(d)
  <2>1. phase'[d] \in {"preparing", "lost"} /\ seen' = seen
      BY <1>1, <1>7 DEF Reread, TypeOK
  <2>. QED BY <1>7, <2>1 DEF TickMove, Works
<1>8. CASE StartTurn(d) \/ TurnCompletes(d)
  <2>1. phase[d] \in Works /\ phase'[d] \in Works /\ mine' = mine /\ seen' = seen
      BY <1>1, <1>8 DEF StartTurn, TurnCompletes, Works, TypeOK
  <2>. QED BY <2>1 DEF TickMove, Works
<1>9. CASE RunFails(d)
  <2>1. phase'[d] = "failing" /\ seen' = seen
      BY <1>1, <1>9 DEF RunFails, TypeOK
  <2>. QED BY <2>1 DEF TickMove, Works
<1>10. CASE ~(\/ BeginTick(d) \/ InitialRead(d) \/ GraceReread(d) \/ Reread(d)
              \/ StartTurn(d) \/ TurnCompletes(d) \/ RunFails(d)
              \/ \E c \in ClaimId : PostClaim(d, c))
  <2>1. EndTick(d)
      BY <1>10 DEF DaemonStep, PostClaimFails, PostLost, PostLostFails, AcquireThrows, Release,
         ReleaseFails, Crash
  <2>. QED BY <1>2, <2>1
<1>. QED
    BY <1>3, <1>4, <1>5, <1>6, <1>7, <1>8, <1>9, <1>10

LEMMA TickMoves ==
    ASSUME TypeInv, [Next]_vars, NEW d \in Daemon
    PROVE  TickMove(d)
<1>. USE DEF boardVars, tickVars, histVars
<1>1. TypeOK
    BY DEF TypeInv
<1>2. ASSUME Stays(d), phase'[d] = phase[d] \/ (phase[d] \in Works /\ phase'[d] = "failing")
      PROVE  TickMove(d)
    BY <1>2 DEF TickMove, Stays, Works
<1>3. ASSUME NEW e \in Daemon, DaemonStep(e) PROVE TickMove(d)
  <2>1. CASE e # d
    <3>1. /\ tickNow'[d] = tickNow[d] /\ wakeAt'[d] = wakeAt[d] /\ mine'[d] = mine[d]
          /\ seen'[d] = seen[d] /\ phase'[d] = phase[d]
        BY <1>1, <1>3, <2>1 DEF DaemonStep, TypeOK, BeginTick, InitialRead, GraceReread, PostClaim,
           PostClaimFails, Reread, PostLost, PostLostFails, AcquireThrows, StartTurn, TurnCompletes,
           RunFails, Release, ReleaseFails, Crash, EndTick
    <3>. QED BY <1>2, <3>1 DEF Stays
  <2>. QED BY <1>3, <2>1, OwnTickMove
<1>4. ASSUME NEW c \in ClaimId, RenewalStep(c) PROVE TickMove(d)
  <2>1. /\ UNCHANGED <<tickNow, wakeAt, mine, seen>>
        /\ phase' = phase \/ \E u : HandleRenewalFailure(c, u)
      BY <1>4 DEF RenewalStep, RenewFires, RenewVerify, RenewVerifyThrows, RenewPost,
         RenewPostFails, RenewRecheck, RenewRecheckThrows, RenewPostLost, RenewPostLostFails
  <2>2. phase'[d] = phase[d] \/ (phase[d] \in Works /\ phase'[d] = "failing")
      BY <2>1 DEF HandleRenewalFailure, Works
  <2>. QED BY <1>2, <2>1, <2>2 DEF Stays
<1>5. CASE Tick \/ UNCHANGED vars
    BY <1>2, <1>5 DEF Tick, vars, Stays
<1>. QED
    BY <1>3, <1>4, <1>5 DEF Next

(***************************************************************************)
(* What a tick that may post relies on.  The sleep ends a grace after the  *)
(* time the expiries were judged by; and of the claims that were listed    *)
(* last, the live ones are past their expiry and the grace.                *)
(***************************************************************************)
Waited(d) ==
    /\ seen[d] <= Len(log)
    /\ phase[d] = "grace" => tickNow[d] + StealGrace <= wakeAt[d] + Offset[d]
    /\ phase[d] = "post" =>
          \A c \in Live(log) : \/ LastIndex(log, c) > seen[d]
                               \/ State(log, c).expires + StealGrace <= Now(d)

GraceInv == OverrunInv /\ \A d \in Daemon : Waited(d)

LEMMA GraceInit == Init => GraceInv
<1>. SUFFICES ASSUME Init
              PROVE  GraceInv
    OBVIOUS
<1>1. \A d \in Daemon : Waited(d)
    BY DEF Init, Waited
<1>. QED
    BY OverrunInit, <1>1 DEF GraceInv

(***************************************************************************)
(* A claim past its expiry and the grace, or commented on since, is so     *)
(* after any step.                                                         *)
(***************************************************************************)
LEMMA StaysPast ==
    ASSUME GraceInv, OverrunInv', [Next]_vars, NEW d \in Daemon,
           NEW c \in Live(log)', NEW s \in Nat, s <= Len(log),
           c \in Live(log) => LastIndex(log, c) > s \/ State(log, c).expires + StealGrace <= Now(d)
    PROVE  LastIndex(log, c)' > s \/ State(log, c)'.expires + StealGrace <= Now(d)'
<1>t. TypeInv /\ TypeOK /\ TypeInv' /\ TypeOK' /\ OverrunInv /\ HasLast(log)
    BY DEF GraceInv, OverrunInv, TypeInv
<1>1. /\ TypeInv /\ TypeOK /\ TypeInv' /\ OverrunInv
      /\ log \in Seq(ClaimEvent) /\ HasLast(log) /\ Len(log) \in Nat
    BY <1>t DEF TypeOK
<1>2. c \in Claims(log') /\ c \in ClaimId
  <2>1. c \in Claims(log') /\ log' \in Seq(ClaimEvent)
      BY <1>t DEF Live, TypeOK
  <2>. QED BY <2>1, ClaimIds
<1>3. ASSUME log' = log \/ \E event \in ClaimEvent : event.claim # c /\ log' = Append(log, event)
      PROVE  LastIndex(log', c) > s \/ State(log', c).expires + StealGrace <= Now(d)'
  <2>1. c \in Claims(log) /\ State(log', c) = State(log, c) /\ LastIndex(log', c) = LastIndex(log, c)
      BY <1>1, <1>2, <1>3, Untouched
  <2>2. c \in Live(log)
      BY <2>1 DEF Live
  <2>3. clock' >= clock
      BY <1>1, Onward
  <2>4. Now(d) \in Nat /\ Now(d)' \in Nat /\ Now(d)' >= Now(d)
      BY <1>1, <2>3 DEF Now, TypeInv, TypeOK
  <2>5. State(log, c).expires \in Nat
      BY <1>1, <2>1, StateType
  <2>. QED BY <2>1, <2>2, <2>4, <2>5
<1>4. ASSUME NEW event \in ClaimEvent, event.claim = c, log' = Append(log, event)
      PROVE  LastIndex(log', c) > s
    BY <1>1, <1>4, Touched
<1>5. log' = log \/ \E event \in ClaimEvent : log' = Append(log, event)
    BY <1>1, Comments, CommentTypes DEF ClaimedBy, RenewedOn, EndedOn
<1>. QED
    BY <1>3, <1>4, <1>5

LEMMA GraceStep == GraceInv /\ [Next]_vars => GraceInv'
<1>. SUFFICES ASSUME GraceInv, [Next]_vars, NEW d \in Daemon
              PROVE  Waited(d)'
    BY OverrunStep DEF GraceInv
<1>. USE DEF boardVars, tickVars, histVars
<1>t. OverrunInv /\ OverrunInv' /\ TypeInv /\ TypeInv' /\ TypeOK /\ TypeOK' /\ HasLast(log)
    BY OverrunStep DEF GraceInv, OverrunInv, TypeInv
<1>1. /\ OverrunInv /\ OverrunInv' /\ TypeInv /\ TypeInv' /\ TypeOK
      /\ log \in Seq(ClaimEvent) /\ HasLast(log) /\ Len(log) \in Nat /\ Len(log') \in Nat
    BY <1>t DEF TypeOK
<1>2. /\ clock \in Nat /\ tickNow[d] \in Nat /\ wakeAt[d] \in Nat /\ seen[d] \in Nat
      /\ Offset[d] \in Nat /\ Now(d) = clock + Offset[d] /\ tickNow[d] <= Now(d)
    BY <1>1 DEF OverrunInv, TypeOK, Now
<1>3. TickMove(d) /\ Waited(d)
    BY <1>1, TickMoves DEF GraceInv
<1>4. Len(log) <= Len(log')
  <2>1. log' = log \/ \E event \in ClaimEvent : log' = Append(log, event)
      BY <1>1, Comments, CommentTypes DEF ClaimedBy, RenewedOn, EndedOn
  <2>. QED BY <1>1, <2>1
<1>5. seen'[d] <= Len(log')
    BY <1>1, <1>2, <1>3, <1>4 DEF TickMove, Waited
<1>6. ASSUME phase'[d] = "grace" PROVE tickNow'[d] + StealGrace <= wakeAt'[d] + Offset[d]
  <2>1. CASE phase[d] = "grace" /\ Stays(d)
      BY <1>3, <2>1 DEF Waited, Stays
  <2>2. CASE InitialRead(d)
    <3>1. tickNow'[d] = tickNow[d] /\ wakeAt'[d] = clock + StealGrace
        BY <1>1, <1>6, <2>2 DEF InitialRead, EndTick, TypeOK
    <3>. QED BY <1>2, <3>1
  <2>. QED BY <1>3, <1>6, <2>1, <2>2 DEF TickMove
<1>7. ASSUME phase'[d] = "post", NEW c \in Live(log)'
      PROVE  LastIndex(log, c)' > seen'[d] \/ State(log, c)'.expires + StealGrace <= Now(d)'
  <2>1. CASE phase[d] = "post" /\ Stays(d)
    <3>1. seen'[d] = seen[d] /\ seen[d] <= Len(log)
        BY <1>3, <2>1 DEF Stays, Waited
    <3>2. c \in Live(log) =>
             LastIndex(log, c) > seen[d] \/ State(log, c).expires + StealGrace <= Now(d)
        BY <1>3, <2>1 DEF Waited
    <3>. QED BY <1>1, <1>2, <3>1, <3>2, StaysPast
  <2>2. ASSUME InitialRead(d) \/ GraceReread(d),
               \A x \in Live(log) : State(log, x).expires + StealGrace <= Now(d)
        PROVE  LastIndex(log, c)' > seen'[d] \/ State(log, c)'.expires + StealGrace <= Now(d)'
    <3>1. seen'[d] = Len(log)
        BY <1>1, <1>7, <2>2 DEF InitialRead, GraceReread, EndTick, TypeOK
    <3>2. c \in Live(log) => State(log, c).expires + StealGrace <= Now(d)
        BY <2>2
    <3>. QED BY <1>1, <3>1, <3>2, StaysPast
  <2>3. ASSUME NEW x \in Live(log) PROVE State(log, x).expires \in Nat
      BY <1>1, <2>3, StateType DEF Live
  <2>4. CASE InitialRead(d)
    <3>1. Live(log) = {} \/ (Unexpired(log, tickNow[d]) = {} /\ StealGrace = 0)
        BY <1>1, <1>7, <2>4 DEF InitialRead, EndTick, TypeOK
    <3>2. ASSUME NEW x \in Live(log) PROVE State(log, x).expires + StealGrace <= Now(d)
        BY <1>2, <2>3, <3>1, <3>2 DEF Unexpired
    <3>. QED BY <2>2, <2>4, <3>2
  <2>5. CASE GraceReread(d)
    <3>1. phase[d] = "grace" /\ clock >= wakeAt[d] /\ Unexpired(log, tickNow[d]) = {}
        BY <1>1, <1>7, <2>5 DEF GraceReread, EndTick, TypeOK
    <3>2. ASSUME NEW x \in Live(log) PROVE State(log, x).expires + StealGrace <= Now(d)
      <4>1. State(log, x).expires <= tickNow[d]
          BY <1>2, <2>3, <3>1, <3>2 DEF Unexpired
      <4>2. tickNow[d] + StealGrace <= wakeAt[d] + Offset[d]
          BY <1>3, <3>1 DEF Waited
      <4>. QED BY <1>2, <2>3, <3>1, <3>2, <4>1, <4>2
    <3>. QED BY <2>2, <2>5, <3>2
  <2>. QED BY <1>3, <1>7, <2>1, <2>4, <2>5 DEF TickMove
<1>. QED
    BY <1>5, <1>6, <1>7 DEF Waited

(***************************************************************************)
(* Whatever the clocks, a daemon that posts a claim steals none it has     *)
(* listed last before its expiry and the grace have passed.                *)
(***************************************************************************)
THEOREM StealsAfterGrace == Spec => StealRespectsGrace
<1>. DEFINE Steal ==
        \A d \in Daemon :
           phase[d] = "post" /\ phase'[d] = "reread" =>
              \A c \in Live(log) :
                 \/ LastIndex(log, c) > seen[d]
                 \/ State(log, c).expires + StealGrace <= Now(d)
<1>1. GraceInv /\ [Next]_vars => [Steal]_vars
    BY DEF GraceInv, Waited
<1>2. Spec => []GraceInv
    BY GraceInit, GraceStep, PTL DEF Spec
<1>. QED
    BY <1>1, <1>2, PTL DEF Spec, StealRespectsGrace

-----------------------------------------------------------------------------
(* The dates of a claim. *)

(***************************************************************************)
(* The claim in memory has the date of the claim on the board; an attempt  *)
(* at a renewal took its time from the daemon's clock; and until a claim   *)
(* has ended, its expiry on the board is no later than a renewal that      *)
(* starts now would make it, or one that is about to post.                 *)
(***************************************************************************)
Dated(c) ==
    /\ Remembered(c) \/ renewal[c].pc # "off" => claim[c].started = State(log, c).started
    /\ renewal[c].pc \in InFlight => renewal[c].now <= Now(owner[c])
    /\ c \in Claims(log) /\ ~Terminated(c) =>
          /\ State(log, c).expires <= Now(owner[c]) + Lease
          /\ renewal[c].pc \in {"verify", "post"} =>
                State(log, c).expires <= renewal[c].now + Lease

DatedInv == OnceInv /\ \A c \in ClaimId : Dated(c)

LEMMA DatedInit == Init => DatedInv
<1>. SUFFICES ASSUME Init
              PROVE  DatedInv
    OBVIOUS
<1>1. \A c \in ClaimId : c \notin Claims(log)
    BY DEF Init, Claims
<1>2. \A c \in ClaimId : Dated(c)
    BY <1>1 DEF Init, Dated, Remembered, NoRenewal, InFlight, None
<1>. QED
    BY OnceInit, <1>2 DEF DatedInv

(***************************************************************************)
(* What the lemmas below need of the claims on the board.                  *)
(***************************************************************************)
LEMMA OnBoard ==
    ASSUME OnceInv, NEW c \in ClaimId
    PROVE  /\ c \in Claims(log) => /\ owner[c] \in Daemon
                                   /\ Now(owner[c]) \in Nat
                                   /\ State(log, c).expires \in Nat
           /\ Remembered(c) \/ renewal[c].pc # "off" => c \in Claims(log)
           /\ renewal[c].now \in Nat /\ renewal[c].pc \in RenewalPc
<1>1. OverrunInv /\ TypeInv /\ TypeOK /\ Attributed /\ HasLast(log) /\ Once(c) /\ Bounded(c)
    BY DEF OnceInv, OverrunInv, TypeInv
<1>2. renewal[c].now \in Nat /\ renewal[c].pc \in RenewalPc
    BY <1>1 DEF TypeOK, Renewal
<1>3. Remembered(c) \/ renewal[c].pc # "off" => c \in Claims(log)
    BY <1>1 DEF Once, Bounded
<1>4. c \in Claims(log) => State(log, c).expires \in Nat
    BY <1>1, StateType DEF TypeOK
<1>5. c \in Claims(log) => owner[c] \in Daemon
    BY <1>1 DEF Once, TypeOK
<1>6. c \in Claims(log) => Now(owner[c]) \in Nat
    BY <1>1, <1>5, NowIsNat
<1>. QED
    BY <1>2, <1>3, <1>4, <1>5, <1>6

(***************************************************************************)
(* A step leaves a claim's comments alone, or posts one of them.           *)
(***************************************************************************)
LeftAlone(c) ==
    log' = log \/ \E event \in ClaimEvent : event.claim # c /\ log' = Append(log, event)

LEMMA CommentOn ==
    ASSUME OverrunInv, [Next]_vars, NEW c \in ClaimId
    PROVE  \/ LeftAlone(c)
           \/ \E d \in Daemon : ClaimedBy(d, c)
           \/ RenewedOn(c) \/ EndedOn(c)
<1>1. ASSUME NEW d \in Daemon, NEW x \in ClaimId, ClaimedBy(d, x), x # c PROVE LeftAlone(c)
    BY <1>1, CommentTypes DEF ClaimedBy, LeftAlone
<1>2. ASSUME NEW x \in ClaimId, RenewedOn(x) \/ EndedOn(x), x # c PROVE LeftAlone(c)
    BY <1>2, CommentTypes DEF RenewedOn, EndedOn, LeftAlone
<1>. QED
    BY <1>1, <1>2, Comments DEF LeftAlone

(***************************************************************************)
(* What a renewal has to do with the clock after any step.                 *)
(***************************************************************************)
LEMMA AttemptTimed ==
    ASSUME DatedInv, [Next]_vars, NEW c \in ClaimId, renewal'[c].pc \in InFlight
    PROVE  /\ renewal'[c].now <= Now(owner[c])'
           /\ owner'[c] = owner[c]
           /\ renewal'[c].pc \in {"verify", "post"} =>
                 \/ Fires(c)
                 \/ renewal[c].pc \in {"verify", "post"} /\ renewal'[c].now = renewal[c].now
<1>1. /\ OnceInv /\ OnceInv' /\ OverrunInv /\ TypeInv /\ Dated(c) /\ RenewalMove(c)
    BY OnceStep, Moves DEF DatedInv, OnceInv, OverrunInv
<1>2. renewal'[c] = renewal[c] \/ Fires(c) \/ Verifies(c) \/ Proceeds(c)
    BY <1>1 DEF RenewalMove, InFlight
<1>3. renewal[c].pc # "off"
    BY <1>2 DEF Fires, Verifies, Proceeds, InFlight
<1>4. c \in Claims(log) /\ owner[c] \in Daemon /\ Now(owner[c]) \in Nat /\ renewal[c].now \in Nat
    BY <1>1, <1>3, OnBoard
<1>5. owner'[c] = owner[c] /\ clock' >= clock
    BY <1>1, <1>4, Onward
<1>6. Now(owner[c])' \in Nat /\ Now(owner[c])' >= Now(owner[c])
  <2>1. TypeOK /\ TypeOK'
      BY <1>1 DEF OnceInv, OverrunInv, TypeInv
  <2>. QED BY <1>4, <1>5, <2>1, NowGrows DEF Now
<1>7. renewal'[c].now <= Now(owner[c])'
  <2>1. CASE Fires(c)
      BY <1>4, <1>5, <2>1 DEF Fires, Now
  <2>2. CASE renewal'[c] = renewal[c] \/ Verifies(c) \/ Proceeds(c)
    <3>1. renewal'[c].now = renewal[c].now /\ renewal[c].pc \in InFlight
        BY <2>2 DEF Verifies, Proceeds, InFlight
    <3>. QED BY <1>1, <1>4, <1>6, <3>1 DEF Dated
  <2>. QED BY <1>2, <2>1, <2>2
<1>8. renewal'[c].pc \in {"verify", "post"} =>
         Fires(c) \/ (renewal[c].pc \in {"verify", "post"} /\ renewal'[c].now = renewal[c].now)
    BY <1>2 DEF Verifies, Proceeds
<1>. QED
    BY <1>5, <1>7, <1>8

LEMMA DatedStep == DatedInv /\ [Next]_vars => DatedInv'
<1>. SUFFICES ASSUME DatedInv, [Next]_vars, NEW c \in ClaimId
              PROVE  Dated(c)'
    BY OnceStep DEF DatedInv
<1>1. /\ OnceInv /\ OnceInv' /\ OverrunInv /\ OverrunInv' /\ TypeInv /\ TypeOK /\ TypeOK'
      /\ Dated(c) /\ Once(c) /\ MemoryMove(c)
    BY OnceStep, Moves DEF DatedInv, OnceInv, OverrunInv, TypeInv
<1>2. renewal'[c].pc \in InFlight => renewal'[c].now <= Now(owner[c])'
    BY AttemptTimed
<1>3. c \in Claims(log) =>
         /\ owner'[c] = owner[c] /\ Now(owner[c]) \in Nat /\ State(log, c).expires \in Nat
         /\ Now(owner[c])' \in Nat /\ Now(owner[c])' >= Now(owner[c])
  <2>1. clock' >= clock /\ (owner[c] # NoDaemon => owner'[c] = owner[c])
      BY <1>1, Onward
  <2>2. c \in Claims(log) => /\ owner[c] \in Daemon /\ owner'[c] = owner[c]
                             /\ Now(owner[c]) \in Nat /\ State(log, c).expires \in Nat
      BY <1>1, <2>1, OnBoard
  <2>. QED BY <1>1, <2>1, <2>2, NowGrows DEF Now
<1>b. Remembered(c)' \/ renewal'[c].pc # "off" => c \in Claims(log')
  <2>1. OverrunInv' /\ Once(c)'
      BY <1>1 DEF OnceInv
  <2>. QED BY <2>1 DEF OverrunInv, Bounded, Once
(* The claim in memory, after a step that does not post it. *)
<1>4. ASSUME c \in Claims(log), Remembered(c)' \/ renewal'[c].pc # "off"
      PROVE  claim'[c].started = State(log, c).started
  <2>1. owner[c] # NoDaemon
      BY <1>1, <1>4 DEF Once
  <2>2. ~\E d \in Daemon : PostClaim(d, c)
      BY <2>1 DEF PostClaim, Fresh
  <2>. QED BY <1>1, <1>4, <2>2 DEF MemoryMove, Dated
<1>5. renewal'[c].pc \in {"verify", "post"} =>
         /\ renewal'[c].pc \in InFlight /\ c \in Claims(log)
    BY <1>1, AttemptTimed, OnBoard DEF InFlight, Fires
<1>6. CASE LeftAlone(c)
  <2>1. /\ Terminated(c)' <=> Terminated(c)
        /\ c \in Claims(log') => c \in Claims(log)
        /\ c \in Claims(log) => State(log', c) = State(log, c)
      BY <1>1, <1>6, Untouched DEF LeftAlone
  <2>2. Remembered(c)' \/ renewal'[c].pc # "off" => claim'[c].started = State(log', c).started
      BY <1>4, <1>b, <2>1
  <2>3. ASSUME c \in Claims(log'), ~Terminated(c)'
        PROVE  /\ State(log', c).expires <= Now(owner[c])' + Lease
               /\ renewal'[c].pc \in {"verify", "post"} =>
                     State(log', c).expires <= renewal'[c].now + Lease
    <3>1. c \in Claims(log) /\ ~Terminated(c) /\ State(log', c) = State(log, c)
        BY <2>1, <2>3
    <3>2. State(log, c).expires <= Now(owner[c]) + Lease
        BY <1>1, <3>1 DEF Dated
    <3>3. ASSUME renewal'[c].pc \in {"verify", "post"}
          PROVE  State(log, c).expires <= renewal'[c].now + Lease
      <4>1. CASE Fires(c)
          BY <3>2, <4>1 DEF Fires
      <4>2. CASE ~Fires(c)
        <5>1. renewal[c].pc \in {"verify", "post"} /\ renewal'[c].now = renewal[c].now
            BY <1>5, <3>3, <4>2, AttemptTimed
        <5>. QED BY <1>1, <3>1, <5>1 DEF Dated
      <4>. QED BY <4>1, <4>2
    <3>. QED BY <1>3, <3>1, <3>2, <3>3
  <2>. QED BY <1>2, <2>2, <2>3 DEF Dated
<1>7. ASSUME NEW d \in Daemon, ClaimedBy(d, c) PROVE Dated(c)'
  <2>1. /\ State(log', c) = ClaimComment(d, c)
        /\ ClaimComment(d, c).started = tickNow[d]
        /\ ClaimComment(d, c).expires = tickNow[d] + Lease
      BY <1>1, <1>7, CommentTypes, Touched DEF ClaimedBy
  <2>2. owner'[c] = d /\ clock' = clock /\ owner[c] = NoDaemon
      BY <1>1, <1>7 DEF ClaimedBy, Fresh, TypeOK
  <2>3. ~Remembered(c) /\ renewal[c].pc = "off" /\ renewal'[c].pc = "off"
    <3>1. renewal[c].pc = "off" /\ ~Remembered(c)
        BY <1>1, <2>2, OnBoard DEF Once
    <3>. QED BY <1>7, <3>1 DEF ClaimedBy
  <2>4. tickNow[d] <= Now(d)' /\ tickNow[d] \in Nat /\ Now(d)' \in Nat
      BY <1>1, <2>2 DEF OverrunInv, Now, TypeOK
  <2>5. Now(owner[c])' = Now(d)'
      BY <2>2 DEF Now
  <2>6. Remembered(c)' => claim'[c].started = tickNow[d]
    <3>1. ASSUME NEW e \in Daemon, PostClaim(e, c) PROVE claim'[c].started = tickNow[d]
      <4>1. owner'[c] = e /\ claim'[c].started = tickNow[e]
          BY <1>1, <3>1 DEF PostClaim, TypeOK
      <4>. QED BY <2>2, <4>1
    <3>. QED BY <1>1, <2>3, <3>1 DEF MemoryMove
  <2>. QED BY <1>2, <2>1, <2>3, <2>4, <2>5, <2>6 DEF Dated
<1>8. CASE RenewedOn(c)
  <2>1. /\ State(log', c) = RenewComment(c, "renewed")
        /\ RenewComment(c, "renewed").started = claim[c].started
        /\ RenewComment(c, "renewed").expires = renewal[c].now + Lease
      BY <1>1, <1>8, CommentTypes, Touched DEF RenewedOn
  <2>2. renewal[c].pc = "post" /\ renewal'[c].pc \notin {"verify", "post"} /\ clock' = clock
      BY <1>8 DEF RenewedOn
  <2>3. claim[c].started = State(log, c).started /\ renewal[c].now <= Now(owner[c])
      BY <1>1, <2>2 DEF Dated, InFlight
  <2>4. c \in Claims(log) /\ renewal[c].now \in Nat
      BY <1>1, <2>2, OnBoard
  <2>5. renewal[c].now + Lease <= Now(owner[c])' + Lease
      BY <1>3, <2>3, <2>4
  <2>. QED BY <1>2, <1>4, <2>1, <2>2, <2>3, <2>4, <2>5 DEF Dated
<1>9. CASE EndedOn(c)
  <2>1. PICK event \in ClaimEvent :
           /\ event.claim = c /\ event.status \in TerminalStatus
           /\ event.started = claim[c].started /\ log' = Append(log, event)
      BY <1>9 DEF EndedOn
  <2>2. State(log', c) = event /\ Terminated(c)'
      BY <1>1, <2>1, Touched, TouchedHistory
  <2>3. claim[c].started = State(log, c).started /\ c \in Claims(log)
      BY <1>1, <1>9, OnBoard DEF EndedOn, Dated
  <2>. QED BY <1>2, <1>4, <2>1, <2>2, <2>3 DEF Dated
<1>. QED
    BY <1>1, <1>6, <1>7, <1>8, <1>9, CommentOn

-----------------------------------------------------------------------------
(* One working claim at a time. *)

(***************************************************************************)
(* What the exclusion asks of the clocks and of the configuration: no      *)
(* clock is further ahead of the board's than max_clock_skew_ms, which is  *)
(* what that setting is for, nor than the steal grace.                     *)
(***************************************************************************)
ClocksWithin == \A d \in Daemon : Offset[d] <= MaxClockSkew /\ Offset[d] <= StealGrace

(***************************************************************************)
(* Comparing claims: of two, one beats the other; and where no claim is    *)
(* backdated, no claim wins from an earlier candidate, since the earliest  *)
(* of them beats the others.                                               *)
(***************************************************************************)
LEMMA Total ==
    ASSUME OverrunInv, NEW c \in Claims(log), NEW e \in Claims(log), c # e
    PROVE  Beats(log, c, e) \/ Beats(log, e, c)
<1>1. log \in Seq(ClaimEvent) /\ HasLast(log)
    BY DEF OverrunInv, TypeInv, TypeOK
<1>2. c \in Nat /\ e \in Nat
  <2>1. Claims(log) \subseteq ClaimId
      BY <1>1, ClaimIds
  <2>. QED BY <2>1, ClaimLogAssumption
<1>3. State(log, c).started \in Nat /\ State(log, e).started \in Nat
    BY <1>1, StateType DEF ClaimEvent
<1>4. MaxClockSkew \in Nat
    BY ClaimLogAssumption
<1>. QED
    BY <1>2, <1>3, <1>4 DEF Beats

LEMMA EarlierBeats ==
    ASSUME OverrunInv, ~Backdated, NEW c \in Claims(log), NEW e \in Claims(log),
           FirstIndex(log, c) < FirstIndex(log, e)
    PROVE  Beats(log, c, e) /\ ~Beats(log, e, c)
<1>1. FirstIndex(log, c) \in Nat
  <2>1. log \in Seq(ClaimEvent)
      BY DEF OverrunInv, TypeInv, TypeOK
  <2>. QED BY <2>1, FirstIndexIsFirst DEF EventsOf
<1>2. c # e
    BY <1>1
<1>. QED
    BY <1>2, Total DEF Backdated

LEMMA FirstIndexInjective ==
    ASSUME OverrunInv, NEW c \in Claims(log), NEW e \in Claims(log), c # e
    PROVE  /\ FirstIndex(log, c) \in Nat /\ FirstIndex(log, e) \in Nat
           /\ FirstIndex(log, c) # FirstIndex(log, e)
<1>1. log \in Seq(ClaimEvent)
    BY DEF OverrunInv, TypeInv, TypeOK
<1>2. FirstIndex(log, c) \in EventsOf(log, c) /\ FirstIndex(log, e) \in EventsOf(log, e)
    BY <1>1, FirstIndexIsFirst
<1>. QED
    BY <1>1, <1>2 DEF EventsOf

LEMMA WinnerIsEarliest ==
    ASSUME OverrunInv, ~Backdated, NEW now \in Nat, NEW e \in Winners(log, now),
           NEW c \in Unexpired(log, now)
    PROVE  ~(FirstIndex(log, c) < FirstIndex(log, e))
<1>. DEFINE candidates == Unexpired(log, now)
            undefeated == {x \in candidates : \A y \in candidates \ {x} : Beats(log, x, y)}
            places == {FirstIndex(log, x) : x \in candidates}
<1>1. candidates \subseteq Claims(log)
    BY DEF Unexpired, Live
<1>2. \A x \in candidates : FirstIndex(log, x) \in Nat
  <2>1. log \in Seq(ClaimEvent)
      BY DEF OverrunInv, TypeInv, TypeOK
  <2>. QED BY <1>1, <2>1, FirstIndexIsFirst DEF EventsOf
<1>3. PICK p \in places : \A q \in places : <<q, p>> \notin OpToRel(<, Nat)
  <2>1. places \subseteq Nat /\ places # {}
      BY <1>2
  <2>. HIDE DEF places
  <2>. QED BY <2>1, NatLessThanWellFounded, WFMin, Zenon
<1>4. PICK m \in candidates : p = FirstIndex(log, m)
    OBVIOUS
<1>5. \A x \in candidates : ~(FirstIndex(log, x) < FirstIndex(log, m))
  <2>1. \A q \in places : q \in Nat /\ p \in Nat => ~(q < p)
      BY <1>3, Zenon DEF OpToRel
  <2>. QED BY <1>2, <1>4, <2>1
<1>6. \A y \in candidates \ {m} : Beats(log, m, y)
  <2>1. \A y \in candidates \ {m} : FirstIndex(log, m) < FirstIndex(log, y)
    <3>1. ASSUME NEW y \in candidates \ {m} PROVE FirstIndex(log, m) < FirstIndex(log, y)
      <4>1. FirstIndex(log, m) # FirstIndex(log, y)
          BY <1>1, FirstIndexInjective
      <4>. QED BY <1>2, <1>5, <4>1
    <3>. QED BY <3>1
  <2>. QED BY <1>1, <2>1, EarlierBeats
<1>7. e \in undefeated
  <2>1. m \in undefeated
      BY <1>6
  <2>. HIDE DEF candidates
  <2>2. Winners(log, now) = IF undefeated # {} THEN undefeated
                            ELSE {x \in candidates : \E y \in candidates \ {x} : Beats(log, x, y)}
      BY DEF Winners, candidates
  <2>. QED BY <2>1, <2>2
<1>8. c = e \/ Beats(log, e, c)
    BY <1>7
<1>9. FirstIndex(log, c) < FirstIndex(log, e) => ~Beats(log, e, c) /\ c # e
  <2>1. e \in Claims(log) /\ c \in Claims(log)
      BY <1>1, <1>7
  <2>2. FirstIndex(log, c) < FirstIndex(log, e) => c # e
      BY <1>2
  <2>. QED BY <2>1, <2>2, EarlierBeats
<1>. QED
    BY <1>8, <1>9

(***************************************************************************)
(* A claim that was backdated stays so: the places of the claims' first    *)
(* comments and their dates do not change.                                 *)
(***************************************************************************)
LEMMA DateKept ==
    ASSUME DatedInv, [Next]_vars, NEW c \in ClaimId, c \in Claims(log)
    PROVE  /\ c \in Claims(log')
           /\ State(log', c).started = State(log, c).started
           /\ FirstIndex(log', c) = FirstIndex(log, c)
<1>1. OverrunInv /\ TypeInv /\ TypeOK /\ Dated(c) /\ Once(c)
    BY DEF DatedInv, OnceInv, OverrunInv, TypeInv
<1>2. CASE LeftAlone(c)
    BY <1>1, <1>2, Untouched DEF LeftAlone
<1>3. \A d \in Daemon : ~ClaimedBy(d, c)
    BY <1>1 DEF ClaimedBy, Fresh, Once
<1>4. CASE RenewedOn(c)
    BY <1>1, <1>4, CommentTypes, Touched DEF RenewedOn, Dated
<1>5. CASE EndedOn(c)
    BY <1>1, <1>5, Touched DEF EndedOn, Dated
<1>. QED
    BY <1>1, <1>2, <1>3, <1>4, <1>5, CommentOn

LEMMA BackdatedStays ==
    ASSUME DatedInv, [Next]_vars, Backdated
    PROVE  Backdated'
<1>1. PICK c \in Claims(log), e \in Claims(log) :
         FirstIndex(log, c) < FirstIndex(log, e) /\ Beats(log, e, c)
    BY DEF Backdated
<1>2. c \in ClaimId /\ e \in ClaimId
  <2>1. log \in Seq(ClaimEvent)
      BY DEF DatedInv, OnceInv, OverrunInv, TypeInv, TypeOK
  <2>. QED BY <2>1, ClaimIds
<1>3. /\ c \in Claims(log') /\ e \in Claims(log')
      /\ FirstIndex(log', c) = FirstIndex(log, c) /\ FirstIndex(log', e) = FirstIndex(log, e)
      /\ State(log', c).started = State(log, c).started
      /\ State(log', e).started = State(log, e).started
    BY <1>2, DateKept
<1>4. Beats(log', e, c)
    BY <1>1, <1>3 DEF Beats
<1>. QED
    BY <1>1, <1>3, <1>4 DEF Backdated

(***************************************************************************)
(* A claim that is over, since it has ended or its lease has run out on    *)
(* the board, stays over unless a renewal comes late; and one that is over *)
(* or outlasts a given time stays that.                                    *)
(***************************************************************************)
Over(c) == Terminated(c) \/ State(log, c).expires <= clock

Outlasts(c, time) == Over(c) \/ State(log, c).expires > time

LEMMA OverStays ==
    ASSUME DatedInv, [Next]_vars, ~raced', NEW c \in ClaimId, c \in Claims(log)
    PROVE  /\ Over(c) => Over(c)'
           /\ \A time \in Nat : Outlasts(c, time) => Outlasts(c, time)'
<1>1. OverrunInv /\ TypeInv /\ TypeOK /\ Dated(c) /\ Once(c) /\ OnceInv
    BY DEF DatedInv, OnceInv, OverrunInv, TypeInv
<1>2. /\ clock \in Nat /\ clock' \in Nat /\ clock' >= clock /\ State(log, c).expires \in Nat
      /\ renewal[c].now \in Nat
  <2>1. TypeOK'
      BY <1>1, TypeStep DEF TypeInv
  <2>. QED BY <1>1, <2>1, Onward, OnBoard DEF TypeOK
<1>3. CASE LeftAlone(c)
  <2>1. State(log', c) = State(log, c) /\ (Terminated(c)' <=> Terminated(c))
      BY <1>1, <1>3, Untouched DEF LeftAlone
  <2>. QED BY <1>2, <2>1 DEF Over, Outlasts
<1>4. \A d \in Daemon : ~ClaimedBy(d, c)
    BY <1>1 DEF ClaimedBy, Fresh, Once
<1>5. CASE RenewedOn(c)
  <2>1. /\ State(log', c).expires = renewal[c].now + Lease
        /\ Terminated(c) => Terminated(c)'
      BY <1>1, <1>5, CommentTypes, Touched, TouchedHistory DEF RenewedOn
  <2>2. ~(State(log, c).expires <= clock)
    <3>1. ~LateRenewal(c)
        BY <1>5, Zenon DEF RenewedOn
    <3>. QED BY <3>1 DEF LateRenewal
  <2>3. ~Terminated(c) => State(log, c).expires <= renewal[c].now + Lease
      BY <1>1, <1>5 DEF RenewedOn, Dated
  <2>4. ASSUME NEW time \in Nat, ~Terminated(c), State(log, c).expires > time
        PROVE  State(log', c).expires > time
      BY <1>2, <2>1, <2>3, <2>4
  <2>. QED BY <2>1, <2>2, <2>4 DEF Over, Outlasts
<1>6. CASE EndedOn(c)
  <2>1. Terminated(c)'
      BY <1>1, <1>6, TouchedHistory DEF EndedOn
  <2>. QED BY <2>1 DEF Over, Outlasts
<1>. QED
    BY <1>1, <1>3, <1>4, <1>5, <1>6, CommentOn

(***************************************************************************)
(* What a tick knows of the other claims.  When it is about to post, or    *)
(* has posted, each of them is over or has an expiry that the tick would   *)
(* respect; so that when it has won, those that came before are over.      *)
(***************************************************************************)
Prevails(d) ==
    /\ phase[d] \in {"post", "reread"} =>
          \A c \in Claims(log) \ {mine[d]} : Outlasts(c, tickNow[d])
    /\ phase[d] \in Works =>
          \A c \in Claims(log) : FirstIndex(log, c) < FirstIndex(log, mine[d]) => Over(c)

ExclusionInv ==
    /\ DatedInv
    /\ GraceInv
    /\ raced \/ Backdated \/ \A d \in Daemon : Prevails(d)

LEMMA ExclusionInit == Init => ExclusionInv
<1>1. Init => \A d \in Daemon : Prevails(d)
    BY DEF Init, Prevails, Works
<1>. QED
    BY <1>1, DatedInit, GraceInit DEF ExclusionInv

(***************************************************************************)
(* A claim that is new on the board outlasts any tick in progress, unless  *)
(* it was posted stale.                                                    *)
(***************************************************************************)
LEMMA NewOutlasts ==
    ASSUME ClocksWithin, DatedInv, [Next]_vars, ~raced',
           NEW d \in Daemon, NEW c \in ClaimId, c \in Claims(log'), c \notin Claims(log)
    PROVE  Outlasts(c, tickNow[d])'
<1>1. OverrunInv /\ OverrunInv' /\ TypeInv /\ TypeOK /\ TypeOK' /\ OnceInv /\ Once(c)
    BY OverrunStep DEF DatedInv, OnceInv, OverrunInv, TypeInv
<1>2. PICK e \in Daemon : ClaimedBy(e, c)
  <2>1. ~LeftAlone(c)
      BY <1>1, Untouched DEF LeftAlone
  <2>2. ~RenewedOn(c) /\ ~EndedOn(c)
      BY <1>1, OnBoard DEF RenewedOn, EndedOn
  <2>. QED BY <1>1, <2>1, <2>2, CommentOn
<1>3. State(log', c).expires = tickNow[e] + Lease
    BY <1>1, <1>2, CommentTypes, Touched DEF ClaimedBy
<1>4. ~(tickNow[e] + Lease <= clock + MaxClockSkew)
  <2>1. ~StaleClaim(e)
      BY <1>2, Zenon DEF ClaimedBy
  <2>. QED BY <2>1 DEF StaleClaim
<1>5. clock' = clock /\ clock \in Nat /\ tickNow[e] \in Nat /\ tickNow'[d] \in Nat
    BY <1>1, <1>2 DEF ClaimedBy, TypeOK
<1>6. tickNow'[d] <= clock + MaxClockSkew
  <2>1. tickNow'[d] <= clock' + Offset[d]
      BY <1>1 DEF OverrunInv, Now
  <2>2. Offset[d] <= MaxClockSkew /\ Offset[d] \in Nat /\ MaxClockSkew \in Nat
      BY ClaimLogAssumption DEF ClocksWithin
  <2>. QED BY <1>5, <2>1, <2>2
<1>7. MaxClockSkew \in Nat
    BY ClaimLogAssumption
<1>. QED
    BY <1>3, <1>4, <1>5, <1>6, <1>7 DEF Outlasts

(***************************************************************************)
(* The listing that lets a tick post: the live claims have run out by the  *)
(* tick's time, and by the board's, the sleep having made up for a clock   *)
(* that is ahead.                                                          *)
(***************************************************************************)
LEMMA ListedOver ==
    ASSUME ClocksWithin, DatedInv, GraceInv, NEW d \in Daemon, phase'[d] = "post",
           InitialRead(d) \/ GraceReread(d), NEW c \in Claims(log)
    PROVE  Over(c)
<1>1. TypeInv /\ TypeOK /\ OverrunInv /\ Waited(d) /\ OnceInv
    BY DEF DatedInv, OnceInv, GraceInv, OverrunInv, TypeInv
<1>2. /\ clock \in Nat /\ tickNow[d] \in Nat /\ wakeAt[d] \in Nat /\ Offset[d] \in Nat
      /\ tickNow[d] <= clock + Offset[d] /\ Offset[d] <= StealGrace
    BY <1>1 DEF TypeOK, OverrunInv, Now, ClocksWithin
<1>3. State(log, c).expires \in Nat
    BY <1>1, ClaimIds, OnBoard DEF TypeOK
<1>4. State(log, c).status \in TerminalStatus => Terminated(c)
  <2>1. log \in Seq(ClaimEvent) /\ HasLast(log)
      BY <1>1 DEF OverrunInv, TypeOK
  <2>2. PICK i \in EventsOf(log, c) : \A j \in EventsOf(log, c) : j <= i
      BY <2>1 DEF HasLast
  <2>3. State(log, c) = log[i]
      BY <2>1, <2>2, LastIndexDef DEF State
  <2>. QED BY <2>3 DEF Terminated
<1>5. c \in Live(log) /\ Unexpired(log, tickNow[d]) = {} => State(log, c).expires <= tickNow[d]
    BY <1>2, <1>3 DEF Unexpired
<1>6. c \notin Live(log) => Over(c)
    BY <1>4 DEF Live, Over
<1>7. CASE InitialRead(d)
  <2>1. Live(log) = {} \/ (Unexpired(log, tickNow[d]) = {} /\ StealGrace = 0)
      BY <1>1, <1>7 DEF InitialRead, EndTick, TypeOK
  <2>2. CASE c \in Live(log)
    <3>1. State(log, c).expires <= tickNow[d] /\ tickNow[d] <= clock
        BY <1>2, <1>5, <2>1, <2>2
    <3>. QED BY <1>2, <1>3, <3>1 DEF Over
  <2>. QED BY <1>6, <2>2
<1>8. CASE GraceReread(d)
  <2>1. phase[d] = "grace" /\ clock >= wakeAt[d] /\ Unexpired(log, tickNow[d]) = {}
      BY <1>1, <1>8 DEF GraceReread, EndTick, TypeOK
  <2>2. tickNow[d] <= clock
      BY <1>1, <1>2, <2>1 DEF Waited
  <2>3. CASE c \in Live(log)
      BY <1>2, <1>3, <1>5, <2>1, <2>2, <2>3 DEF Over
  <2>. QED BY <1>6, <2>3
<1>. QED
    BY <1>7, <1>8

(***************************************************************************)
(* The listing that lets a tick work on the card: it has won, so that the  *)
(* claims before its own had run out by its time.                          *)
(***************************************************************************)
LEMMA WonOver ==
    ASSUME ExclusionInv, ~Backdated, NEW d \in Daemon, Prevails(d), Reread(d),
           phase'[d] \in Works, NEW c \in Claims(log),
           FirstIndex(log, c) < FirstIndex(log, mine[d])
    PROVE  Over(c)
<1>1. TypeInv /\ TypeOK /\ Attributed /\ OverrunInv /\ OnceInv
    BY DEF ExclusionInv, DatedInv, OnceInv, OverrunInv, TypeInv
<1>2. phase[d] = "reread" /\ mine[d] \in Winners(log, tickNow[d])
    BY <1>1 DEF Reread, TypeOK, Works
<1>3. tickNow[d] \in Nat /\ State(log, c).expires \in Nat
    BY <1>1, ClaimIds, OnBoard DEF TypeOK
<1>4. c \notin Unexpired(log, tickNow[d])
    BY <1>1, <1>2, <1>3, WinnerIsEarliest
<1>5. c # mine[d]
  <2>1. log \in Seq(ClaimEvent)
      BY <1>1 DEF TypeOK
  <2>2. FirstIndex(log, c) \in Nat
      BY <2>1, FirstIndexIsFirst DEF EventsOf
  <2>. QED BY <2>2
<1>6. Outlasts(c, tickNow[d])
    BY <1>2, <1>5 DEF Prevails
<1>7. CASE c \in Live(log)
  <2>1. ~(State(log, c).expires > tickNow[d])
      BY <1>4, <1>7 DEF Unexpired
  <2>. QED BY <1>6, <2>1 DEF Outlasts
<1>8. CASE c \notin Live(log)
  <2>1. log \in Seq(ClaimEvent) /\ HasLast(log)
      BY <1>1 DEF OverrunInv, TypeOK
  <2>2. PICK i \in EventsOf(log, c) : \A j \in EventsOf(log, c) : j <= i
      BY <2>1 DEF HasLast
  <2>3. State(log, c) = log[i]
      BY <2>1, <2>2, LastIndexDef DEF State
  <2>. QED BY <1>8, <2>3 DEF Live, Over, Terminated
<1>. QED
    BY <1>7, <1>8

LEMMA PrevailsStep ==
    ASSUME ClocksWithin, ExclusionInv, [Next]_vars, ~raced', ~Backdated',
           NEW d \in Daemon
    PROVE  Prevails(d)'
<1>1. /\ DatedInv /\ GraceInv /\ OnceInv /\ OverrunInv /\ TypeInv /\ TypeInv'
      /\ TypeOK /\ TypeOK' /\ Attributed
    BY TypeStep DEF ExclusionInv, DatedInv, OnceInv, OverrunInv, TypeInv
<1>2. ~raced /\ ~Backdated
    BY <1>1, Onward, BackdatedStays
<1>3. Prevails(d) /\ TickMove(d)
    BY <1>1, <1>2, TickMoves DEF ExclusionInv
<1>4. Claims(log') \subseteq ClaimId /\ Claims(log) \subseteq ClaimId
    BY <1>1, ClaimIds DEF TypeOK
<1>5. \A c \in Claims(log) : Over(c) => Over(c)'
    BY <1>1, <1>4, OverStays
<1>6. ASSUME NEW time \in Nat, tickNow'[d] = time, NEW c \in Claims(log), Outlasts(c, time)
      PROVE  Outlasts(c, tickNow[d])'
    BY <1>1, <1>4, <1>6, OverStays DEF Outlasts
<1>7. \A c \in Claims(log') : c \notin Claims(log) => Outlasts(c, tickNow[d])'
    BY <1>1, <1>4, NewOutlasts
<1>8. ASSUME phase'[d] \in {"post", "reread"}, NEW c \in Claims(log') \ {mine'[d]}
      PROVE  Outlasts(c, tickNow[d])'
  <2>1. tickNow[d] \in Nat /\ tickNow'[d] \in Nat
      BY <1>1 DEF TypeOK
  <2>2. CASE c \notin Claims(log)
      BY <1>7, <2>2
  <2>3. CASE phase[d] \in {"post", "reread"} /\ Stays(d) /\ c \in Claims(log)
      BY <1>3, <1>6, <1>8, <2>1, <2>3 DEF Prevails, Stays
  <2>4. CASE (InitialRead(d) \/ GraceReread(d)) /\ phase'[d] = "post" /\ c \in Claims(log)
    <3>1. Over(c)
        BY <1>1, <2>4, ListedOver
    <3>. QED BY <1>5, <2>4, <3>1 DEF Outlasts
  <2>5. ASSUME NEW x \in ClaimId, PostClaim(d, x), c \in Claims(log)
        PROVE  Outlasts(c, tickNow[d])'
    <3>1. phase[d] = "post" /\ tickNow' = tickNow
        BY <2>5 DEF PostClaim
    <3>2. c # mine[d]
        BY <1>1, <1>4, <2>5, <3>1 DEF Attributed, Holding, RunPhase, None
    <3>. QED BY <1>3, <1>6, <2>1, <2>5, <3>1, <3>2 DEF Prevails
  <2>. QED BY <1>3, <1>8, <2>2, <2>3, <2>4, <2>5 DEF TickMove
<1>9. ASSUME phase'[d] \in Works, NEW c \in Claims(log'),
             FirstIndex(log', c) < FirstIndex(log', mine'[d])
      PROVE  Over(c)'
  <2>1. mine'[d] = mine[d] /\ mine[d] \in ClaimId /\ mine[d] \in Claims(log)
    <3>1. mine'[d] = mine[d] /\ phase[d] \in Holding
        BY <1>3, <1>9 DEF TickMove, Reread, Works, Holding, RunPhase
    <3>2. mine[d] \in ClaimId /\ Remembered(mine[d])
        BY <1>1, <3>1 DEF Attributed, Remembered
    <3>. QED BY <1>1, <3>1, <3>2, OnBoard
  <2>2. FirstIndex(log', mine[d]) = FirstIndex(log, mine[d])
    <3>1. ASSUME NEW x \in ClaimId, x = mine[d] PROVE FirstIndex(log', x) = FirstIndex(log, x)
        BY <1>1, <2>1, <3>1, DateKept
    <3>. QED BY <2>1, <3>1
  <2>3. c \in Claims(log)
    <3>1. log \in Seq(ClaimEvent) /\ log' \in Seq(ClaimEvent)
        BY <1>1 DEF TypeOK
    <3>2. ASSUME c \notin Claims(log) PROVE FALSE
      <4>1. PICK event \in ClaimEvent : event.claim = c /\ log' = Append(log, event)
        <5>1. ~LeftAlone(c)
            BY <1>1, <1>4, <3>2, Untouched DEF LeftAlone
        <5>2. \E event \in ClaimEvent : log' = Append(log, event)
            BY <1>1, <5>1, Comments, CommentTypes DEF ClaimedBy, RenewedOn, EndedOn, LeftAlone
        <5>. QED BY <5>1, <5>2 DEF LeftAlone
      <4>2. /\ FirstIndex(log', c) = Len(log) + 1
            /\ FirstIndex(log, mine[d]) \in Nat /\ FirstIndex(log, mine[d]) < Len(log) + 1
          BY <2>1, <3>1, <3>2, <4>1, FirstIndexAppend
      <4>3. Len(log) + 1 \in Nat
          BY <3>1
      <4>. QED BY <1>9, <2>1, <2>2, <4>2, <4>3
    <3>. QED BY <3>2
  <2>4. FirstIndex(log, c) < FirstIndex(log, mine[d])
    <3>1. FirstIndex(log', c) = FirstIndex(log, c)
        BY <1>1, <1>4, <2>3, DateKept
    <3>. QED BY <1>9, <2>1, <2>2, <3>1
  <2>5. CASE phase[d] \in Works
      BY <1>3, <1>5, <2>3, <2>4, <2>5 DEF Prevails
  <2>6. CASE Reread(d)
      BY <1>2, <1>3, <1>5, <1>9, <2>3, <2>4, <2>6, WonOver
  <2>. QED BY <1>3, <1>9, <2>5, <2>6 DEF TickMove
<1>. QED
    BY <1>8, <1>9 DEF Prevails

LEMMA ExclusionStep ==
    ASSUME ClocksWithin, ExclusionInv, [Next]_vars
    PROVE  ExclusionInv'
<1>1. DatedInv' /\ GraceInv'
    BY DatedStep, GraceStep DEF ExclusionInv
<1>2. (~raced' /\ ~Backdated') => \A d \in Daemon : Prevails(d)'
    BY PrevailsStep
<1>. QED
    BY <1>1, <1>2 DEF ExclusionInv

LEMMA ExclusionHolds ==
    ASSUME ExclusionInv
    PROVE  ExclusiveUnlessRaced
<1>1. /\ DatedInv /\ OnceInv /\ OverrunInv /\ TypeInv /\ TypeOK
    BY DEF ExclusionInv, DatedInv, OnceInv, OverrunInv, TypeInv
<1>2. ASSUME ~raced, ~Backdated, NEW c \in ClaimId, NEW e \in ClaimId, DoubleHold(c, e),
             FirstIndex(log, c) < FirstIndex(log, e)
      PROVE  FALSE
  <2>1. PICK d \in Daemon : WorksUnder(d, e)
      BY <1>2 DEF DoubleHold, Working
  <2>2. c \in Claims(log) /\ c \in Live(log) /\ State(log, c).expires > clock
      BY <1>2 DEF DoubleHold, Unexpired, Live
  <2>3. Over(c)
      BY <1>2, <2>1, <2>2 DEF ExclusionInv, Prevails, WorksUnder, Works
  <2>4. clock \in Nat /\ State(log, c).expires \in Nat
      BY <1>1, <2>2, OnBoard DEF TypeOK
  <2>5. Terminated(c)
      BY <2>2, <2>3, <2>4 DEF Over
  <2>6. Remembered(c)
      BY <1>2 DEF DoubleHold, Working, WorksUnder, Remembered
  <2>7. State(log, c).status \in TerminalStatus
      BY <1>1, <2>5, <2>6 DEF OnceInv, Once
  <2>. QED BY <2>2, <2>7 DEF Live
<1>3. ASSUME ~raced, ~Backdated, NEW c \in ClaimId, NEW e \in ClaimId, DoubleHold(c, e)
      PROVE  FALSE
  <2>1. c \in Claims(log) /\ e \in Claims(log) /\ c # e
      BY <1>3 DEF DoubleHold, Unexpired, Live
  <2>2. FirstIndex(log, c) < FirstIndex(log, e) \/ FirstIndex(log, e) < FirstIndex(log, c)
      BY <1>1, <2>1, FirstIndexInjective
  <2>3. DoubleHold(e, c)
      BY <1>3 DEF DoubleHold
  <2>. QED BY <1>2, <1>3, <2>2, <2>3
<1>. QED
    BY <1>3 DEF ExclusiveUnlessRaced, MutualExclusion

(***************************************************************************)
(* As long as no claim was stale or backdated and no renewal late, no two  *)
(* runs work on the card under claims that are both live and unexpired:    *)
(* for any number of daemons and claims, any lease and any schedule, if    *)
(* the clocks differ by no more than the skew and the grace allow for.     *)
(***************************************************************************)
THEOREM Exclusion ==
    ASSUME ClocksWithin
    PROVE  Spec => []ExclusiveUnlessRaced
<1>1. Init => ExclusionInv
    BY ExclusionInit
<1>2. ExclusionInv /\ [Next]_vars => ExclusionInv'
    BY ExclusionStep
<1>3. ExclusionInv => ExclusiveUnlessRaced
    BY ExclusionHolds
<1>. QED
    BY <1>1, <1>2, <1>3, PTL DEF Spec

=============================================================================
