----------------------------- MODULE Conversations -----------------------------
(***************************************************************************)
(* The image conversation service and its store                             *)
(* (api/services/image_conversation_service.py, image_conversation_store.py). *)
(* An instance of the service keeps all conversations in memory. A request  *)
(* holds the instance's lock while it loads the store, changes one          *)
(* conversation in memory, has the store replace that one, and loads the    *)
(* store again; a listing is answered from memory. Several instances may    *)
(* work on one store: the file is read without its lock and written under   *)
(* it, as a whole and atomically, after the rest of it was read again.      *)
(*                                                                         *)
(* With a database as the store the steps are the same, a row per           *)
(* conversation, except that a load that fails refuses the request instead  *)
(* of finding nothing: Unreadable is FALSE then.                            *)
(***************************************************************************)
EXTENDS ConversationData

CONSTANTS
  Instances,   \* the services that share the store
  Overlap,     \* two instances may be at work on one conversation at once
  Unreadable   \* the file may be unreadable for a moment

ASSUME SwitchesOK == Overlap \in BOOLEAN /\ Unreadable \in BOOLEAN

VARIABLES
  disk,   \* the conversations in the store
  items,  \* self._items of each instance
  pc,     \* where the request of each instance stands; idle without one
  op      \* that request

vars == <<disk, items, pc, op>>

Empty == [k \in Conversations |-> Absent]
NoOp == [kind |-> "none"]

\* Mutant of Loads: the instance goes on with what it has in memory.
LoadsNothing(i) == {items[i]}

\* load_conversations: the file as it is, or, if it cannot be read, nothing.
Loads(i) == {disk} \union (IF Unreadable THEN {Empty} ELSE {})

-----------------------------------------------------------------------------

\* The lock of the instance is taken and the store loaded. A request on a
\* conversation or an image that is not found ends there.
Refuse(i, req) ==
  \E loaded \in Loads(i) :
    /\ pc[i] = "idle"
    /\ ~Accepts(req, loaded[req.key])
    /\ items' = [items EXCEPT ![i] = loaded]
    /\ UNCHANGED <<disk, pc, op>>

\* Any other changes its conversation in memory and goes on to save it.
Begin(i, req) ==
  \E loaded \in Loads(i) :
    /\ pc[i] = "idle"
    /\ Overlap \/ \A j \in Instances : pc[j] = "save" => op[j].key # req.key
    /\ Accepts(req, loaded[req.key])
    /\ items' = [items EXCEPT ![i] = [loaded EXCEPT ![req.key] = Applied(req, @)]]
    /\ pc' = [pc EXCEPT ![i] = "save"]
    /\ op' = [op EXCEPT ![i] = req]
    /\ UNCHANGED disk

\* Mutant of Merged: everything in memory is written.
MergedAll(stored, memory, key) == memory

\* What save_changed_conversations writes: the changed conversation into what
\* it reads again under the lock of the file.
Merged(stored, memory, key) == [stored EXCEPT ![key] = memory[key]]

Save(i) ==
  /\ pc[i] = "save"
  /\ disk' = Merged(disk, items[i], op[i].key)
  /\ pc' = [pc EXCEPT ![i] = "reload"]
  /\ op' = [op EXCEPT ![i] = NoOp]
  /\ UNCHANGED items

\* The file cannot be read or written, or the database refuses: the request
\* fails, and memory keeps the change until the next load.
SaveFails(i) ==
  /\ pc[i] = "save"
  /\ pc' = [pc EXCEPT ![i] = "idle"]
  /\ op' = [op EXCEPT ![i] = NoOp]
  /\ UNCHANGED <<disk, items>>

Reload(i) ==
  \E loaded \in Loads(i) :
    /\ pc[i] = "reload"
    /\ items' = [items EXCEPT ![i] = loaded]
    /\ pc' = [pc EXCEPT ![i] = "idle"]
    /\ UNCHANGED <<disk, op>>

\* The process of the instance dies and comes up again.
Restart(i) ==
  \E loaded \in Loads(i) :
    /\ items' = [items EXCEPT ![i] = loaded]
    /\ pc' = [pc EXCEPT ![i] = "idle"]
    /\ op' = [op EXCEPT ![i] = NoOp]
    /\ UNCHANGED disk

-----------------------------------------------------------------------------

Init ==
  /\ disk = Empty
  /\ items = [i \in Instances |-> Empty]
  /\ pc = [i \in Instances |-> "idle"]
  /\ op = [i \in Instances |-> NoOp]

Step(i) ==
  \/ \E req \in Request : Refuse(i, req) \/ Begin(i, req)
  \/ Save(i) \/ SaveFails(i) \/ Reload(i) \/ Restart(i)

Next == \E i \in Instances : Step(i)

Spec == Init /\ [][Next]_vars

-----------------------------------------------------------------------------
(* Properties *)

\* Every variable has its type; in particular no turn is ever twice in a
\* conversation (Conversation), although clients post turns again and again.
TypeOK ==
  /\ disk \in [Conversations -> Conversation]
  /\ items \in [Instances -> [Conversations -> Conversation]]
  /\ pc \in [Instances -> {"idle", "save", "reload"}]
  /\ op \in [Instances -> Request \union {NoOp}]

\* A request never changes another conversation than its own, whatever the other
\* instances do at the time, and even if its instance found the file unreadable:
\* what it has in memory of the others, stale or empty, is not written.
OthersKept ==
  [][\A k \in Conversations : disk'[k] # disk[k] =>
       \E i \in Instances : pc[i] = "save" /\ pc'[i] = "reload" /\ op[i].key = k]_vars

\* No turn is lost, and a conversation with turns is never found new again.
TurnsKept ==
  [][\A k \in Conversations :
       /\ TurnIds(disk[k]) \subseteq TurnIds(disk'[k])
       /\ disk[k].status # "absent" => disk'[k].status # "absent"]_vars

\* A deleted conversation is left alone by everything but a new upsert: a late
\* result of an image task or a late turn does not bring it back or change it.
DeletedStays ==
  [][\A k \in Conversations : disk[k].status = "deleted" /\ disk'[k] # disk[k] =>
       /\ disk'[k].turns = disk[k].turns
       /\ \E i \in Instances : op[i] = [kind |-> "upsert", key |-> k]]_vars

History == INSTANCE ConversationHistory WITH stored <- disk

\* Every request takes effect at one moment and as a whole or, if its save fails
\* or its process dies, not at all, now or later.
ImplementsHistory == History!HistorySpec

=============================================================================
