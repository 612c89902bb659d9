---------------------------- MODULE GraphAnswers ----------------------------
(***************************************************************************)
(* A repository that grows, and the questions of `graphyn query`, `graphyn  *)
(* impact` and `graphyn tests` about each graph of it.                      *)
(***************************************************************************)
EXTENDS Traversal, TestImpact

vars == <<repository, asking, selecting>>

Init == Empty /\ Ready /\ Idle

Write ==
  /\ pc = "ready" /\ step = "idle"
  /\ \E r \in References : Refer(r)
  /\ UNCHANGED <<asking, selecting>>

Ask ==
  /\ step = "idle"
  /\ Step
  /\ UNCHANGED <<repository, selecting>>

AskForTests ==
  /\ pc = "ready"
  /\ Turn
  /\ UNCHANGED <<repository, asking>>

Next == Write \/ Ask \/ AskForTests

Spec == Init /\ [][Next]_vars
=============================================================================
