------------------------------ MODULE ClaimLog ------------------------------
(***************************************************************************)
(* The append-only claim log of one card (src/claims.js).                  *)
(*                                                                         *)
(* Every daemon writes its claims on a card as structured comments.  This  *)
(* module has the pure part of the protocol: what a daemon concludes from  *)
(* the comments it has just listed.  A log is the sequence of the card's   *)
(* claim comments in comment order; times are natural numbers.             *)
(*                                                                         *)
(* claim_id is a random UUID that the code only compares with              *)
(* localeCompare, so identifiers are numbers and the order is <.           *)
(***************************************************************************)
EXTENDS Integers, Sequences, FiniteSets

CONSTANTS ClaimId,          \* the claim identifiers that may be drawn
          MaxClockSkew      \* claims.max_clock_skew_ms

ASSUME ClaimLogAssumption ==
    /\ ClaimId \subseteq Nat
    /\ MaxClockSkew \in Nat

TerminalStatus == {"released", "completed", "failed", "cancelled", "lost"}
LiveStatus     == {"claimed", "renewed"}
Status         == LiveStatus \cup TerminalStatus

(***************************************************************************)
(* A claim comment.  Its comment_created_at is its place in the log.       *)
(***************************************************************************)
ClaimEvent == [claim   : ClaimId,
               status  : Status,
               started : Nat,      \* started_at
               expires : Nat]      \* expires_at

-----------------------------------------------------------------------------
(***************************************************************************)
(* applyClaimEventLog: group the comments by claim_id; within a claim the  *)
(* last comment's fields win.                                              *)
(***************************************************************************)
EventsOf(log, c) == {i \in DOMAIN log : log[i].claim = c}

Claims(log) == {log[i].claim : i \in DOMAIN log}

LastIndex(log, c) ==
    CHOOSE i \in EventsOf(log, c) : \A j \in EventsOf(log, c) : j <= i

FirstIndex(log, c) ==
    CHOOSE i \in EventsOf(log, c) : \A j \in EventsOf(log, c) : i <= j

State(log, c) == log[LastIndex(log, c)]

(***************************************************************************)
(* activeClaimsForCard, and the claims selectClaimWinner keeps of them.    *)
(***************************************************************************)
Live(log) == {c \in Claims(log) : State(log, c).status \notin TerminalStatus}

Unexpired(log, now) == {c \in Live(log) : State(log, c).expires > now}

(***************************************************************************)
(* compareClaimWinner(a, b) < 0: start times within the allowed skew are a *)
(* tie, which the smaller claim_id wins.                                   *)
(***************************************************************************)
Beats(log, a, b) ==
    LET delta == State(log, a).started - State(log, b).started
    IN  IF delta \in -MaxClockSkew..MaxClockSkew THEN a < b ELSE delta < 0

(***************************************************************************)
(* selectClaimWinner: the head of the unexpired live claims sorted with    *)
(* compareClaimWinner.  That comparison is not transitive (three claims    *)
(* one skew apart can form a cycle), and a sort with an inconsistent       *)
(* comparator is implementation-defined: the winner is the claim that      *)
(* beats all others where there is one, and otherwise any claim that beats *)
(* another.                                                                *)
(***************************************************************************)
Winners(log, now) ==
    LET candidates == Unexpired(log, now)
        undefeated == {c \in candidates :
                          \A d \in candidates \ {c} : Beats(log, c, d)}
    IN  IF undefeated # {}
        THEN undefeated
        ELSE {c \in candidates :
                 \E d \in candidates \ {c} : Beats(log, c, d)}

(* Slip: having no winner at all counts as still being the winner. *)
RenewableWithoutWinner(log, c, winner, now) == winner \in {c, 0}

(***************************************************************************)
(* verifyRenewableClaim(...).ok when `winner' was selected: the claim is   *)
(* the winner itself and its own last comment is live and unexpired.       *)
(***************************************************************************)
Renewable(log, c, winner, now) ==
    /\ winner = c
    /\ c \in Unexpired(log, now)

=============================================================================
