-------------------------- MODULE ImageTaskLifecycle --------------------------
(***************************************************************************)
(* What the image task service promises a client about the tasks it has     *)
(* accepted, as long as no write fails: a task runs once and ends once, its *)
(* outcome and its stored images are kept until they expire, and only an    *)
(* expired task may be accepted anew under its id. ImageTasks implements    *)
(* this.                                                                    *)
(***************************************************************************)
EXTENDS FiniteSets

CONSTANTS
  Tasks,   \* the task ids clients may submit
  Images   \* the images of one task

VARIABLES
  phase,   \* what a client is told of each task
  stored,  \* the images of each task that are in the image library
  old      \* the tasks that have outlived their retention

lifecycle == <<phase, stored, old>>

Ended == {"success", "error"}
Open == {"queued", "running"}

LifecycleInit ==
  /\ phase = [k \in Tasks |-> "absent"]
  /\ stored = [k \in Tasks |-> {}]
  /\ old = {}

\* The tasks of E are forgotten, which only an expired one may be.
MayForget(E) == E \subseteq {k \in old : phase[k] \in Ended}
PhaseWithout(E) == [k \in Tasks |-> IF k \in E THEN "absent" ELSE phase[k]]
StoredWithout(E) == [k \in Tasks |-> IF k \in E THEN {} ELSE stored[k]]

Forget(E) ==
  /\ MayForget(E)
  /\ phase' = PhaseWithout(E)
  /\ stored' = StoredWithout(E)
  /\ old' = old \ E

\* Only an unknown or a forgotten id is accepted.
Accept(k, E) ==
  /\ MayForget(E)
  /\ PhaseWithout(E)[k] = "absent"
  /\ phase' = [PhaseWithout(E) EXCEPT ![k] = "queued"]
  /\ stored' = StoredWithout(E)
  /\ old' = old \ E

Begin(k) ==
  /\ phase[k] = "queued"
  /\ phase' = [phase EXCEPT ![k] = "running"]
  /\ UNCHANGED <<stored, old>>

Succeed(k) ==
  /\ phase[k] = "running"
  /\ phase' = [phase EXCEPT ![k] = "success"]
  /\ \E I \in SUBSET Images : stored' = [stored EXCEPT ![k] = I]
  /\ UNCHANGED old

GiveUp(k) ==
  /\ phase[k] = "running"
  /\ phase' = [phase EXCEPT ![k] = "error"]
  /\ UNCHANGED <<stored, old>>

\* An image whose download failed at first is stored later; that and a vote on
\* an image start the retention anew.
Store(k, i) ==
  /\ phase[k] = "success"
  /\ stored' = [stored EXCEPT ![k] = @ \union {i}]
  /\ old' = old \ {k}
  /\ UNCHANGED phase

Renew(k) ==
  /\ phase[k] \in Ended
  /\ old' = old \ {k}
  /\ UNCHANGED <<phase, stored>>

Expire(k) ==
  /\ phase[k] \in Ended
  /\ old' = old \union {k}
  /\ UNCHANGED <<phase, stored>>

\* The process ends: every open task ends with it.
Interrupt ==
  /\ phase' = [k \in Tasks |-> IF phase[k] \in Open THEN "error" ELSE phase[k]]
  /\ UNCHANGED <<stored, old>>

Progress(k) == Begin(k) \/ Succeed(k) \/ GiveUp(k)

LifecycleNext ==
  \/ \E E \in SUBSET Tasks : Forget(E)
  \/ \E E \in SUBSET Tasks, k \in Tasks : Accept(k, E)
  \/ \E k \in Tasks : Progress(k) \/ Renew(k) \/ Expire(k)
  \/ \E k \in Tasks, i \in Images : Store(k, i)
  \/ Interrupt

LifecycleSpec == LifecycleInit /\ [][LifecycleNext]_lifecycle

\* No open task is left alone.
LifecycleFairSpec == LifecycleSpec /\ \A k \in Tasks : WF_lifecycle(Progress(k))

=============================================================================
