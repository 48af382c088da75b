------------------------------ MODULE MCWorkspace ------------------------------
(* Instances of Workspace for TLC. *)
EXTENDS Workspace, TLC

CONSTANTS p1, p2, tabA, tabB, t1, t2, i1, i2, j1, r1, r2

OneTab == [p \in Pages |-> tabA]
TwoTabs == [p \in Pages |-> IF p = p1 THEN tabA ELSE tabB]

\* Images i1 and j1 are of the first turn, i2 of the second if there are two.
TurnOfImage == [i \in Images |-> IF i = i2 /\ t2 \in Turns THEN t2 ELSE t1]

\* Runners may be exchanged, in runs without liveness.
SymmetricRunners == Permutations(Runners)

=============================================================================
