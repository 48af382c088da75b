----------------------------- MODULE MCImageTasks -----------------------------
(* Instances of ImageTasks for TLC: one task with every failure, two tasks with *)
(* fairness. *)
EXTENDS ImageTasks
=============================================================================
