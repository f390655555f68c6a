----------------------------- MODULE DurableLog -----------------------------
(***************************************************************************)
(* What walrust promises of one database, whatever the mode: a log of      *)
(* committed transactions and the length of the prefix of it that a        *)
(* restore returns.  The prefix never shrinks, never runs ahead of what    *)
(* was committed, and catches up.                                          *)
(***************************************************************************)
EXTENDS Naturals

VARIABLES
  committed,  \* transactions committed by the application
  durable     \* transactions a restore returns, 0: there is nothing to restore

vars == <<committed, durable>>

TypeOK == committed \in Nat /\ durable \in 0 .. committed

Init == committed \in Nat /\ durable = 0

Commit == committed' = committed + 1 /\ UNCHANGED durable

Ship ==
  /\ durable < committed
  /\ durable' \in durable + 1 .. committed
  /\ UNCHANGED committed

Next == Commit \/ Ship

Spec == Init /\ [][Next]_vars

FairSpec == Spec /\ WF_vars(Ship)

=============================================================================
