-------------------------- MODULE Conversations_proofs --------------------------
(***************************************************************************)
(* Proofs about the conversation service, for every set of conversations,   *)
(* turns, images and instances: a request changes no conversation but its   *)
(* own; and as long as no two instances are at work on one conversation,    *)
(* and the file can be read, the service is atomic.                         *)
(***************************************************************************)
EXTENDS Conversations, Filtered_proofs, TLAPS

-----------------------------------------------------------------------------
(* The shape of the state *)

\* A value with the two fields of a conversation, whatever they hold.
IsConversation(c) == c = [status |-> c.status, turns |-> c.turns]

IsStore(s) ==
  /\ s = [k \in Conversations |-> s[k]]
  /\ \A k \in Conversations : IsConversation(s[k])

Shape ==
  /\ IsStore(disk)
  /\ items = [i \in Instances |-> items[i]]
  /\ \A i \in Instances : IsStore(items[i])
  /\ pc \in [Instances -> {"idle", "save", "reload"}]
  /\ op \in [Instances -> Request \union {NoOp}]
  /\ \A i \in Instances : pc[i] = "save" => op[i] \in Request

\* Every request names a conversation.
LEMMA RequestKey == \A req \in Request : req.key \in Conversations
BY DEF Request

\* Whatever a request does to a conversation leaves it one.
LEMMA AppliedShape ==
  ASSUME NEW req \in Request, NEW c, IsConversation(c)
  PROVE  IsConversation(Applied(req, c))
<1>1. CASE req.kind = "upsert" BY <1>1 DEF Applied, Upserted, IsConversation
<1>2. CASE req.kind = "delete" BY <1>2 DEF Applied, Deleted, IsConversation
<1>3. CASE req.kind = "createTurn"
  BY <1>3 DEF Applied, WithTurn, IsConversation
<1>4. CASE req.kind = "updateTurn" BY <1>4 DEF Applied, WithFlag, IsConversation
<1>5. CASE req.kind = "updateResult" BY <1>5 DEF Applied, WithResult, IsConversation
<1> QED BY <1>1, <1>2, <1>3, <1>4, <1>5 DEF Request

\* The store without conversations is a store.
LEMMA EmptyShape == IsStore(Empty)
BY DEF IsStore, IsConversation, Empty, Absent

\* A store with a conversation replaced by another is a store.
LEMMA ReplacedShape ==
  ASSUME NEW s, IsStore(s), NEW k \in Conversations, NEW c, IsConversation(c)
  PROVE  IsStore([s EXCEPT ![k] = c])
BY DEF IsStore

\* What an instance loads is a store.
LEMMA LoadedShape ==
  ASSUME IsStore(disk), NEW i, NEW loaded \in Loads(i)
  PROVE  IsStore(loaded)
BY EmptyShape DEF Loads

\* The state has its shape when the instances have come up.
LEMMA InitShape == Init => Shape
BY EmptyShape DEF Init, Shape

\* Every step of an instance keeps the shape of the state.
LEMMA StepShape == Shape /\ [Next]_vars => Shape'
<1> SUFFICES ASSUME Shape, [Next]_vars PROVE Shape' OBVIOUS
<1>1. CASE UNCHANGED vars BY <1>1 DEF vars, Shape, IsStore, IsConversation
<1>2. ASSUME NEW i \in Instances, NEW req \in Request, Refuse(i, req) PROVE Shape'
  <2> PICK loaded \in Loads(i) :
        items' = [items EXCEPT ![i] = loaded] /\ UNCHANGED <<disk, pc, op>>
    BY <1>2 DEF Refuse
  <2>1. IsStore(loaded) BY LoadedShape DEF Shape
  <2> QED BY <2>1 DEF Shape, IsStore, IsConversation
<1>3. ASSUME NEW i \in Instances, NEW req \in Request, Begin(i, req) PROVE Shape'
  <2> PICK loaded \in Loads(i) :
        /\ items' = [items EXCEPT ![i] = [loaded EXCEPT ![req.key] = Applied(req, @)]]
        /\ pc' = [pc EXCEPT ![i] = "save"]
        /\ op' = [op EXCEPT ![i] = req]
        /\ UNCHANGED disk
    BY <1>3 DEF Begin
  <2> DEFINE changed == [loaded EXCEPT ![req.key] = Applied(req, loaded[req.key])]
  <2>1. IsStore(loaded) BY LoadedShape DEF Shape
  <2>2. req.key \in Conversations BY RequestKey
  <2>3. IsConversation(loaded[req.key]) BY <2>1, <2>2 DEF IsStore
  <2>4. IsConversation(Applied(req, loaded[req.key])) BY <2>3, AppliedShape
  <2>5. IsStore(changed) BY <2>1, <2>2, <2>4, ReplacedShape
  <2>6. items' = [items EXCEPT ![i] = changed] BY <2>1, <2>2 DEF IsStore
  <2> HIDE DEF changed
  <2>7. items' = [j \in Instances |-> items'[j]] /\ \A j \in Instances : IsStore(items'[j])
    BY <2>5, <2>6 DEF Shape
  <2>8. IsStore(disk') BY DEF Shape, IsStore, IsConversation
  <2>9. /\ pc' \in [Instances -> {"idle", "save", "reload"}]
        /\ op' \in [Instances -> Request \union {NoOp}]
        /\ \A j \in Instances : pc'[j] = "save" => op'[j] \in Request
    BY DEF Shape
  <2>10. \A j \in Instances : IsStore(items[j])' = IsStore(items'[j])
    BY DEF IsStore, IsConversation
  <2> QED BY <2>7, <2>8, <2>9, <2>10 DEF Shape
<1>4. ASSUME NEW i \in Instances, Save(i) PROVE Shape'
  <2>1. op[i].key \in Conversations BY <1>4, RequestKey DEF Save, Shape
  <2>2. IsConversation(items[i][op[i].key]) BY <2>1 DEF Shape, IsStore
  <2>3. IsStore([disk EXCEPT ![op[i].key] = items[i][op[i].key]])
    BY <2>1, <2>2, ReplacedShape DEF Shape
  <2>4. IsStore(disk') BY <2>3, <1>4 DEF Save, Merged
  <2> QED BY <2>4, <1>4 DEF Save, Shape, IsStore, IsConversation
<1>5. ASSUME NEW i \in Instances, SaveFails(i) PROVE Shape'
  BY <1>5 DEF SaveFails, Shape, IsStore, IsConversation
<1>6. ASSUME NEW i \in Instances, Reload(i) PROVE Shape'
  <2> PICK loaded \in Loads(i) :
        /\ items' = [items EXCEPT ![i] = loaded]
        /\ pc' = [pc EXCEPT ![i] = "idle"]
        /\ UNCHANGED <<disk, op>>
    BY <1>6 DEF Reload
  <2>1. IsStore(loaded) BY LoadedShape DEF Shape
  <2> QED BY <2>1 DEF Shape, IsStore, IsConversation
<1>7. ASSUME NEW i \in Instances, Restart(i) PROVE Shape'
  <2> PICK loaded \in Loads(i) :
        /\ items' = [items EXCEPT ![i] = loaded]
        /\ pc' = [pc EXCEPT ![i] = "idle"]
        /\ op' = [op EXCEPT ![i] = NoOp]
        /\ UNCHANGED disk
    BY <1>7 DEF Restart
  <2>1. IsStore(loaded) BY LoadedShape DEF Shape
  <2> QED BY <2>1 DEF Shape, IsStore, IsConversation
<1> QED BY <1>1, <1>2, <1>3, <1>4, <1>5, <1>6, <1>7 DEF Next, Step

-----------------------------------------------------------------------------
(* A request changes no conversation but its own *)

\* OthersKept, for any number of instances, with unreadable files, failed saves
\* and restarts: what an instance has in memory of the other conversations,
\* however stale, never reaches the store.
THEOREM OthersAlwaysKept == Spec => OthersKept
<1> DEFINE Kept ==
      \A k \in Conversations : disk'[k] # disk[k] =>
        \E i \in Instances : pc[i] = "save" /\ pc'[i] = "reload" /\ op[i].key = k
<1>1. ASSUME Shape, [Next]_vars PROVE Kept \/ UNCHANGED vars
  <2>1. CASE disk' = disk BY <2>1
  <2>2. CASE \E i \in Instances : Save(i)
    <3> PICK i \in Instances : Save(i) BY <2>2
    <3>1. disk' = [disk EXCEPT ![op[i].key] = items[i][op[i].key]] BY DEF Save, Merged
    <3>2. \A k \in Conversations : k # op[i].key => disk'[k] = disk[k]
      BY <1>1, <3>1 DEF Shape, IsStore
    <3>3. pc[i] = "save" /\ pc'[i] = "reload" BY <1>1 DEF Save, Shape
    <3> QED BY <3>2, <3>3
  <2> QED BY <1>1, <2>1, <2>2
        DEF Next, Step, vars, Refuse, Begin, SaveFails, Reload, Restart
<1>2. Shape /\ [Next]_vars => [Kept]_vars BY <1>1
<1> QED BY <1>2, InitShape, StepShape, PTL DEF Spec, OthersKept

-----------------------------------------------------------------------------
(* Atomicity *)

\* No two requests being saved are for one conversation.
Alone ==
  \A i, j \in Instances :
    pc[i] = "save" /\ pc[j] = "save" /\ op[i].key = op[j].key => i = j

\* A request being saved was accepted, and its conversation in memory is what
\* it makes of the stored one.
Pending ==
  \A i \in Instances : pc[i] = "save" =>
    /\ Accepts(op[i], disk[op[i].key])
    /\ items[i][op[i].key] = Applied(op[i], disk[op[i].key])

AtomicInv == Shape /\ Alone /\ Pending

\* The inductive invariant holds when the instances have come up.
LEMMA InitAtomic == Init => AtomicInv
BY InitShape DEF AtomicInv, Alone, Pending, Init

\* No step brings two requests for one conversation to their save, if no
\* two instances work on one conversation or there is only one instance.
LEMMA StepAlone ==
  ASSUME ~Overlap \/ \E one : Instances = {one}, AtomicInv, [Next]_vars
  PROVE  Alone'
<1>1. CASE \E one : Instances = {one} BY <1>1 DEF Alone
<1>2. CASE ~Overlap
  <2>1. CASE UNCHANGED <<pc, op>> BY <2>1 DEF AtomicInv, Alone
  <2>2. ASSUME NEW i \in Instances, NEW req \in Request, Begin(i, req) PROVE Alone'
    <3>1. \A j \in Instances : pc[j] = "save" => op[j].key # req.key
      BY <1>2, <2>2 DEF Begin
    <3>2. pc' = [pc EXCEPT ![i] = "save"] /\ op' = [op EXCEPT ![i] = req]
      BY <2>2 DEF Begin
    <3> QED BY <3>1, <3>2 DEF AtomicInv, Alone, Shape
  <2>3. ASSUME NEW i \in Instances, NEW to \in {"idle", "reload"},
               pc' = [pc EXCEPT ![i] = to],
               op' = op \/ op' = [op EXCEPT ![i] = NoOp]
        PROVE  Alone'
    BY <2>3 DEF AtomicInv, Alone, Shape
  <2> QED BY <2>1, <2>2, <2>3
        DEF Next, Step, vars, Refuse, Save, SaveFails, Reload, Restart
<1> QED BY <1>1, <1>2

\* No step, of another instance in particular, changes the stored
\* conversation a request being saved was computed from.
LEMMA StepPending ==
  ASSUME ~Unreadable, AtomicInv, [Next]_vars
  PROVE  Pending'
<1>0. \A i : Loads(i) = {disk} BY DEF Loads
<1>1. CASE UNCHANGED vars BY <1>1 DEF vars, AtomicInv, Pending
<1>2. ASSUME NEW i \in Instances, NEW req \in Request, Refuse(i, req) PROVE Pending'
  BY <1>2 DEF Refuse, AtomicInv, Pending, Shape
<1>3. ASSUME NEW i \in Instances, NEW req \in Request, Begin(i, req) PROVE Pending'
  <2>1. req.key \in Conversations BY RequestKey
  <2>2. /\ items' = [items EXCEPT ![i] = [disk EXCEPT ![req.key] = Applied(req, @)]]
        /\ Accepts(req, disk[req.key])
        /\ pc' = [pc EXCEPT ![i] = "save"] /\ op' = [op EXCEPT ![i] = req] /\ disk' = disk
    BY <1>0, <1>3 DEF Begin
  <2>3. items'[i] = [disk EXCEPT ![req.key] = Applied(req, disk[req.key])]
    BY <2>2 DEF AtomicInv, Shape, IsStore
  <2>4. items'[i][req.key] = Applied(req, disk[req.key])
    BY <2>1, <2>3 DEF AtomicInv, Shape, IsStore
  <2>5. op'[i] = req BY <2>2 DEF AtomicInv, Shape
  <2>6. \A j \in Instances : j # i => /\ op'[j] = op[j] /\ pc'[j] = pc[j]
                                     /\ items'[j] = items[j]
    BY <2>2 DEF AtomicInv, Shape
  <2> QED BY <2>2, <2>4, <2>5, <2>6 DEF AtomicInv, Pending
<1>4. ASSUME NEW i \in Instances, Save(i) PROVE Pending'
  <2>1. disk' = [disk EXCEPT ![op[i].key] = items[i][op[i].key]] BY <1>4 DEF Save, Merged
  <2>2. pc[i] = "save" /\ pc'[i] = "reload" /\ items' = items
    BY <1>4 DEF Save, AtomicInv, Shape
  <2>3. ASSUME NEW j \in Instances, pc'[j] = "save"
        PROVE  /\ pc[j] = "save" /\ op'[j] = op[j]
               /\ op[j].key # op[i].key /\ op[j].key \in Conversations
    <3>1. j # i BY <2>2, <2>3
    <3>2. pc[j] = "save" /\ op'[j] = op[j]
      BY <3>1, <2>3, <1>4 DEF Save, AtomicInv, Shape
    <3>3. op[j].key # op[i].key BY <3>1, <3>2, <2>2 DEF AtomicInv, Alone
    <3>4. op[j].key \in Conversations BY <3>2, RequestKey DEF AtomicInv, Shape
    <3> QED BY <3>2, <3>3, <3>4
  <2>4. ASSUME NEW j \in Instances, pc'[j] = "save"
        PROVE  disk'[op[j].key] = disk[op[j].key]
    BY <2>1, <2>3, <2>4 DEF AtomicInv, Shape, IsStore
  <2> QED BY <2>2, <2>3, <2>4 DEF AtomicInv, Pending
<1>5. ASSUME NEW i \in Instances, SaveFails(i) PROVE Pending'
  BY <1>5 DEF SaveFails, AtomicInv, Pending, Shape
<1>6. ASSUME NEW i \in Instances, Reload(i) PROVE Pending'
  BY <1>6 DEF Reload, AtomicInv, Pending, Shape
<1>7. ASSUME NEW i \in Instances, Restart(i) PROVE Pending'
  BY <1>7 DEF Restart, AtomicInv, Pending, Shape
<1> QED BY <1>1, <1>2, <1>3, <1>4, <1>5, <1>6, <1>7 DEF Next, Step

\* A save is the moment at which a request takes effect; nothing else writes.
LEMMA SaveTakes ==
  ASSUME AtomicInv, [Next]_vars
  PROVE  \/ disk' = disk
         \/ \E i \in Instances : /\ Save(i) /\ op[i] \in Request
                                 /\ Accepts(op[i], disk[op[i].key])
                                 /\ disk' = [disk EXCEPT ![op[i].key] = Applied(op[i], @)]
<1>1. CASE \E i \in Instances : Save(i)
  <2> PICK i \in Instances : Save(i) BY <1>1
  <2>1. pc[i] = "save" BY DEF Save
  <2>2. op[i] \in Request BY <2>1 DEF AtomicInv, Shape
  <2>3. /\ Accepts(op[i], disk[op[i].key])
        /\ items[i][op[i].key] = Applied(op[i], disk[op[i].key])
    BY <2>1 DEF AtomicInv, Pending
  <2>4. disk' = [disk EXCEPT ![op[i].key] = items[i][op[i].key]] BY DEF Save, Merged
  <2> QED BY <2>2, <2>3, <2>4
<1> QED BY <1>1 DEF Next, Step, vars, Refuse, Begin, SaveFails, Reload, Restart

\* The abstract specification has the same requests, and makes the same of them.
LEMMA SameRequests ==
  /\ History!Request = Request
  /\ \A req \in Request : \A c : History!Accepts(req, c) <=> Accepts(req, c)
  /\ \A req \in Request : \A c : History!Applied(req, c) = Applied(req, c)
<1>1. History!Results = Results BY DEF History!Results, Results
<1>2. History!Request = Request BY <1>1 DEF History!Request, Request
<1>3. SUFFICES ASSUME NEW req \in Request, NEW c
               PROVE  (History!Accepts(req, c) <=> Accepts(req, c)) /\ History!Applied(req, c) = Applied(req, c)
  BY <1>2
<1>4. \A s, S : History!Among(s, S) = Among(s, S)
  BY DEF History!Among, Among
<1>5. /\ History!TurnIds(c) = TurnIds(c)
      /\ \A image : History!HasImage(c, image) <=> HasImage(c, image)
  BY DEF History!TurnIds, TurnIds, History!HasImage, HasImage
<1>6. CASE req.kind = "upsert"
  <2>1. Accepts(req, c) /\ History!Accepts(req, c) BY <1>6 DEF Accepts, History!Accepts
  <2>2. Applied(req, c) = Upserted(c) BY <1>6 DEF Applied
  <2>3. History!Applied(req, c) = History!Upserted(c) BY <1>6 DEF History!Applied
  <2>4. History!Upserted(c) = Upserted(c) BY DEF History!Upserted, Upserted
  <2> QED BY <2>1, <2>2, <2>3, <2>4
<1>7. CASE req.kind = "delete"
  <2>1. Accepts(req, c) <=> c.status # "absent" BY <1>7 DEF Accepts
  <2>2. History!Accepts(req, c) <=> c.status # "absent" BY <1>7 DEF History!Accepts
  <2>3. Applied(req, c) = Deleted(c) BY <1>7 DEF Applied
  <2>4. History!Applied(req, c) = History!Deleted(c) BY <1>7 DEF History!Applied
  <2>5. History!Deleted(c) = Deleted(c) BY DEF History!Deleted, Deleted
  <2> QED BY <2>1, <2>2, <2>3, <2>4, <2>5
<1>8. CASE req.kind = "createTurn"
  <2>1. Accepts(req, c) <=> c.status = "live" BY <1>8 DEF Accepts
  <2>2. History!Accepts(req, c) <=> c.status = "live" BY <1>8 DEF History!Accepts
  <2>3. Applied(req, c) = WithTurn(c, req.id, req.images) BY <1>8 DEF Applied
  <2>4. History!Applied(req, c) = History!WithTurn(c, req.id, req.images) BY <1>8 DEF History!Applied
  <2>5. History!Turn = Turn BY <1>1 DEF History!Turn, Turn
  <2>6. History!WithTurn(c, req.id, req.images) = WithTurn(c, req.id, req.images)
    <3>1. PICK S : S = {t \in Turn : t.id # req.id} OBVIOUS
    <3>2. PICK a : a = Append(Among(c.turns, S), Posted(req.id, req.images)) OBVIOUS
    <3>3. WithTurn(c, req.id, req.images) = [c EXCEPT !.turns = a]
      BY <3>1, <3>2 DEF WithTurn
    <3>4. History!Posted(req.id, req.images) = Posted(req.id, req.images) BY DEF History!Posted, Posted
    <3>5. a = Append(History!Among(c.turns, S), History!Posted(req.id, req.images)) BY <1>4, <3>2, <3>4
    <3>6. S = {t \in History!Turn : t.id # req.id} BY <2>5, <3>1
    <3>7. History!WithTurn(c, req.id, req.images) = [c EXCEPT !.turns = a]
      BY <3>5, <3>6 DEF History!WithTurn
    <3> QED BY <3>3, <3>7
  <2> QED BY <2>1, <2>2, <2>3, <2>4, <2>6
<1>9. CASE req.kind = "updateTurn"
  <2>1. Accepts(req, c) <=> c.status = "live" /\ req.id \in TurnIds(c) BY <1>9 DEF Accepts
  <2>2. History!Accepts(req, c) <=> c.status = "live" /\ req.id \in History!TurnIds(c) BY <1>9 DEF History!Accepts
  <2>3. Applied(req, c) = WithFlag(c, req.id, req.resultsDeleted) BY <1>9 DEF Applied
  <2>4. History!Applied(req, c) = History!WithFlag(c, req.id, req.resultsDeleted) BY <1>9 DEF History!Applied
  <2>5. \A id, flag : History!WithFlag(c, id, flag) = WithFlag(c, id, flag) BY DEF History!WithFlag, WithFlag
  <2> QED BY <1>5, <2>1, <2>2, <2>3, <2>4, <2>5
<1>10. CASE req.kind = "updateResult"
  <2>1. Accepts(req, c) <=> c.status = "live" /\ HasImage(c, req.image) BY <1>10 DEF Accepts
  <2>2. History!Accepts(req, c) <=> c.status = "live" /\ History!HasImage(c, req.image) BY <1>10 DEF History!Accepts
  <2>3. Applied(req, c) = WithResult(c, req.image, req.result) BY <1>10 DEF Applied
  <2>4. History!Applied(req, c) = History!WithResult(c, req.image, req.result) BY <1>10 DEF History!Applied
  <2>5. \A image, result : History!WithResult(c, image, result) = WithResult(c, image, result)
    BY DEF History!WithResult, WithResult
  <2> QED BY <1>5, <2>1, <2>2, <2>3, <2>4, <2>5
<1> QED BY <1>6, <1>7, <1>8, <1>9, <1>10 DEF Request

\* The service implements ConversationHistory: as long as its file can be read
\* and no two instances are at work on one conversation (which one instance
\* alone never is), a request takes effect at one moment and as a whole, or, if
\* its save fails or its process dies, not at all.
THEOREM HistoryImplemented ==
  ASSUME ~Unreadable, ~Overlap \/ \E one : Instances = {one}
  PROVE  Spec => ImplementsHistory
<1>1. Init => History!Init BY DEF Init, History!Init, Empty, History!Absent, Absent
<1>2. AtomicInv /\ [Next]_vars => AtomicInv'
  BY StepShape, StepAlone, StepPending DEF AtomicInv
<1>3. AtomicInv /\ [Next]_vars => [History!Next]_disk
  <2> SUFFICES ASSUME AtomicInv, [Next]_vars, disk' # disk PROVE History!Next OBVIOUS
  <2>1. PICK i \in Instances :
          /\ op[i] \in Request
          /\ Accepts(op[i], disk[op[i].key])
          /\ disk' = [disk EXCEPT ![op[i].key] = Applied(op[i], @)]
    BY SaveTakes
  <2>2. History!Take(op[i]) BY <2>1, SameRequests DEF History!Take
  <2> QED BY <2>1, <2>2, SameRequests DEF History!Next
<1> QED BY <1>1, <1>2, <1>3, InitAtomic, PTL DEF Spec, ImplementsHistory, History!HistorySpec

\* DeletedStays, under the same conditions.
THEOREM DeletedAlwaysStays ==
  ASSUME ~Unreadable, ~Overlap \/ \E one : Instances = {one}
  PROVE  Spec => DeletedStays
<1> DEFINE Stays ==
      \A k \in Conversations : disk[k].status = "deleted" /\ disk'[k] # disk[k] =>
        /\ disk'[k].turns = disk[k].turns
        /\ \E i \in Instances : op[i] = [kind |-> "upsert", key |-> k]
<1>1. AtomicInv /\ [Next]_vars => AtomicInv'
  BY StepShape, StepAlone, StepPending DEF AtomicInv
<1>2. ASSUME AtomicInv, [Next]_vars PROVE Stays
  <2> SUFFICES ASSUME NEW k \in Conversations, disk[k].status = "deleted", disk'[k] # disk[k]
               PROVE  /\ disk'[k].turns = disk[k].turns
                      /\ \E i \in Instances : op[i] = [kind |-> "upsert", key |-> k]
    OBVIOUS
  <2>1. PICK i \in Instances :
          /\ op[i] \in Request
          /\ Accepts(op[i], disk[op[i].key])
          /\ disk' = [disk EXCEPT ![op[i].key] = Applied(op[i], @)]
    BY <1>2, SaveTakes
  <2>2. op[i].key = k BY <2>1, <1>2 DEF AtomicInv, Shape, IsStore
  <2>3. disk'[k] = Applied(op[i], disk[k]) BY <2>1, <2>2, <1>2 DEF AtomicInv, Shape, IsStore
  <2>4. IsConversation(disk[k]) BY <1>2 DEF AtomicInv, Shape, IsStore
  <2>5. op[i].kind \in {"upsert", "delete"}
    BY <2>1, <2>2 DEF Accepts, Request
  <2>6. op[i].kind # "delete"
    BY <2>3, <2>4 DEF Applied, Deleted, IsConversation
  <2>7. op[i] = [kind |-> "upsert", key |-> k] BY <2>1, <2>2, <2>5, <2>6 DEF Request
  <2>8. disk'[k].turns = disk[k].turns
    BY <2>3, <2>4, <2>7 DEF Applied, Upserted, IsConversation
  <2> QED BY <2>7, <2>8
<1> QED BY <1>1, <1>2, InitAtomic, PTL DEF Spec, DeletedStays

-----------------------------------------------------------------------------
(* Turns *)

\* No two turns have one id.
OneEach(turns) == \A m, n \in DOMAIN turns : turns[m].id = turns[n].id => m = n

\* The new turns are one each, and every turn there was is among them.
KeepsTurns(new, turns) ==
  /\ new \in Seq(Turn) /\ OneEach(new)
  /\ \A k \in DOMAIN turns : \E m \in DOMAIN new : new[m].id = turns[k].id

\* A turn that is posted comes last and replaces the one of its id; every other
\* turn is still there, once.
LEMMA PostedTurns ==
  ASSUME NEW turns \in Seq(Turn), OneEach(turns), NEW p \in Turn,
         NEW X, \A t \in Turn : t \in X <=> t.id # p.id,
         NEW s, s = Among(turns, X), NEW new, new = Append(s, p)
  PROVE  KeepsTurns(new, turns)
<1>3. Distinct(turns) BY DEF OneEach, Distinct
<1>4. s \in Seq(Turn) /\ Passes(s, turns, X, Len(turns))
  BY AmongPasses
<1>5. Distinct(s)
  BY <1>3, AmongPasses
<1>6. DOMAIN turns = 1..Len(turns)
  OBVIOUS
<1>7. PICK l : l = Len(s) + 1 OBVIOUS
<1>9. /\ new \in Seq(Turn) /\ l \in DOMAIN new /\ new[l] = p
      /\ \A m \in DOMAIN s : m \in DOMAIN new /\ new[m] = s[m]
      /\ \A m \in DOMAIN new : m = l \/ m \in DOMAIN s
  BY <1>4, <1>7, Appended
<1>10. ASSUME NEW m \in DOMAIN s PROVE \E k \in DOMAIN turns : turns[k] \in X /\ s[m] = turns[k]
  BY <1>4, <1>6 DEF Passes
<1>11. ASSUME NEW m \in DOMAIN s PROVE s[m].id # p.id
  BY <1>6, <1>10
<1>12. ASSUME NEW m \in DOMAIN s, NEW n \in DOMAIN s, s[m].id = s[n].id PROVE m = n
  <2>1. PICK k \in DOMAIN turns : s[m] = turns[k] BY <1>10
  <2>2. PICK j \in DOMAIN turns : s[n] = turns[j] BY <1>10
  <2>3. k = j BY <1>12, <2>1, <2>2 DEF OneEach
  <2> QED BY <1>5, <2>1, <2>2, <2>3 DEF Distinct
<1>13. OneEach(new)
  <2>1. ASSUME NEW m \in DOMAIN new, NEW n \in DOMAIN new, new[m].id = new[n].id PROVE m = n
    BY <1>9, <1>11, <1>12, <2>1
  <2> QED BY <2>1 DEF OneEach
<1>14. ASSUME NEW k \in DOMAIN turns PROVE \E m \in DOMAIN new : new[m].id = turns[k].id
  <2>1. CASE turns[k].id = p.id BY <1>9, <2>1
  <2>2. CASE turns[k].id # p.id
    <3>1. turns[k] \in X BY <1>6, <2>2
    <3>2. PICK m \in DOMAIN s : s[m] = turns[k] BY <1>4, <1>6, <3>1 DEF Passes
    <3> QED BY <1>9, <3>2
  <2> QED BY <2>1, <2>2
<1> QED BY <1>9, <1>13, <1>14 DEF KeepsTurns

\* Turns that are changed in their places keep their ids.
LEMMA ChangedTurns ==
  ASSUME NEW turns \in Seq(Turn), OneEach(turns), NEW new,
         DOMAIN new = DOMAIN turns, new = [n \in DOMAIN turns |-> new[n]],
         \A n \in DOMAIN turns : new[n] \in Turn /\ new[n].id = turns[n].id
  PROVE  KeepsTurns(new, turns)
<1>1. DOMAIN turns = 1..Len(turns) /\ Len(turns) \in Nat
  OBVIOUS
<1>2. new \in [1..Len(turns) -> Turn] BY <1>1
<1>3. new \in Seq(Turn) BY <1>1, <1>2
<1> QED BY <1>3 DEF OneEach, KeepsTurns

\* Whatever an accepted request makes of a conversation is one, with its turns.
LEMMA AppliedType ==
  ASSUME NEW c \in Conversation, NEW req \in Request, Accepts(req, c)
  PROVE  /\ Applied(req, c) \in Conversation
         /\ TurnIds(c) \subseteq TurnIds(Applied(req, c))
         /\ Applied(req, c).status # "absent"
<1>1. /\ c \in [status : {"absent", "deleted", "live"}, turns : Seq(Turn)] /\ OneEach(c.turns)
      /\ c.turns \in Seq(Turn)
  BY DEF Conversation, OneEach
<1>2. ASSUME NEW d, NEW status \in {"deleted", "live"}, NEW new, d = [c EXCEPT !.status = status, !.turns = new],
             KeepsTurns(new, c.turns)
      PROVE  d \in Conversation /\ TurnIds(c) \subseteq TurnIds(d) /\ d.status # "absent"
  <2>1. /\ d \in [status : {"absent", "deleted", "live"}, turns : Seq(Turn)]
        /\ d.turns = new /\ d.status # "absent"
    BY <1>1, <1>2 DEF KeepsTurns
  <2>2. \A m, n \in DOMAIN d.turns : d.turns[m].id = d.turns[n].id => m = n
    BY <1>2, <2>1 DEF KeepsTurns, OneEach
  <2>3. d \in Conversation BY <2>1, <2>2 DEF Conversation
  <2>4. \A k \in DOMAIN c.turns : \E m \in DOMAIN d.turns : d.turns[m].id = c.turns[k].id
    BY <1>2, <2>1 DEF KeepsTurns
  <2>5. TurnIds(c) \subseteq TurnIds(d) BY <2>4 DEF TurnIds
  <2> QED BY <2>1, <2>3, <2>5
<1>3. KeepsTurns(c.turns, c.turns) BY <1>1 DEF KeepsTurns
<1>4. CASE req.kind = "upsert"
  <2>1. Applied(req, c) = [c EXCEPT !.status = "live", !.turns = c.turns]
    BY <1>1, <1>4 DEF Applied, Upserted
  <2> QED BY <1>3, <1>2, <2>1
<1>5. CASE req.kind = "delete"
  <2>1. Applied(req, c) = [c EXCEPT !.status = "deleted", !.turns = c.turns]
    BY <1>1, <1>5 DEF Applied, Deleted
  <2> QED BY <1>3, <1>2, <2>1
<1>6. CASE req.kind = "createTurn"
  <2>1. req.id \in Turns /\ req.images \in [Images -> Results] /\ c.status = "live"
    BY <1>6 DEF Request, Accepts
  <2>2. PICK p : p = Posted(req.id, req.images) OBVIOUS
  <2>3. p \in Turn /\ p.id = req.id BY <2>1, <2>2 DEF Posted, Turn
  <2>4. PICK X : X = {t \in Turn : t.id # req.id} OBVIOUS
  <2>5. PICK s : s = Among(c.turns, X) OBVIOUS
  <2>6. PICK new : new = Append(s, p) OBVIOUS
  <2>7. KeepsTurns(new, c.turns)
    <3>1. \A t \in Turn : t \in X <=> t.id # p.id BY <2>3, <2>4
    <3> QED BY <1>1, <2>3, <2>5, <2>6, <3>1, PostedTurns
  <2>8. Applied(req, c) = [c EXCEPT !.turns = new]
    BY <1>6, <2>2, <2>4, <2>5, <2>6 DEF Applied, WithTurn
  <2>9. Applied(req, c) = [c EXCEPT !.status = "live", !.turns = new]
    BY <1>1, <2>1, <2>8
  <2> QED BY <1>2, <2>7, <2>9
<1>7. CASE req.kind = "updateTurn"
  <2>1. req.resultsDeleted \in BOOLEAN /\ c.status = "live"
    BY <1>7 DEF Request, Accepts
  <2>2. PICK new : new = [n \in DOMAIN c.turns |->
            IF c.turns[n].id = req.id THEN [c.turns[n] EXCEPT !.resultsDeleted = req.resultsDeleted] ELSE c.turns[n]]
    OBVIOUS
  <2>3. Applied(req, c) = [c EXCEPT !.turns = new]
    BY <1>1, <1>7, <2>2 DEF Applied, WithFlag
  <2>4. ASSUME NEW n \in DOMAIN c.turns PROVE new[n] \in Turn /\ new[n].id = c.turns[n].id
    <3>1. PICK t : t = c.turns[n] OBVIOUS
    <3>2. t \in Turn BY <1>1, <3>1
    <3>3. [t EXCEPT !.resultsDeleted = req.resultsDeleted] \in Turn /\ [t EXCEPT !.resultsDeleted = req.resultsDeleted].id = t.id
      BY <2>1, <3>2 DEF Turn
    <3> QED BY <2>2, <3>1, <3>2, <3>3
  <2>5. KeepsTurns(new, c.turns)
    BY <1>1, <2>2, <2>4, ChangedTurns
  <2>6. Applied(req, c) = [c EXCEPT !.status = "live", !.turns = new]
    BY <1>1, <2>1, <2>3
  <2> QED BY <1>2, <2>5, <2>6
<1>8. CASE req.kind = "updateResult"
  <2>1. req.result \in Results /\ c.status = "live"
    BY <1>8 DEF Request, Accepts, Results
  <2>2. PICK new : new = [n \in DOMAIN c.turns |->
            IF c.turns[n].images[req.image] # "none"
            THEN [c.turns[n] EXCEPT !.images[req.image] = req.result] ELSE c.turns[n]]
    OBVIOUS
  <2>3. Applied(req, c) = [c EXCEPT !.turns = new]
    BY <1>1, <1>8, <2>2 DEF Applied, WithResult
  <2>4. ASSUME NEW n \in DOMAIN c.turns PROVE new[n] \in Turn /\ new[n].id = c.turns[n].id
    <3>1. PICK t : t = c.turns[n] OBVIOUS
    <3>2. t \in Turn BY <1>1, <3>1
    <3>3. [t EXCEPT !.images[req.image] = req.result] \in Turn /\ [t EXCEPT !.images[req.image] = req.result].id = t.id
      BY <2>1, <3>2 DEF Turn
    <3> QED BY <2>2, <3>1, <3>2, <3>3
  <2>5. KeepsTurns(new, c.turns)
    BY <1>1, <2>2, <2>4, ChangedTurns
  <2>6. Applied(req, c) = [c EXCEPT !.status = "live", !.turns = new]
    BY <1>1, <2>1, <2>3
  <2> QED BY <1>2, <2>5, <2>6
<1> QED BY <1>4, <1>5, <1>6, <1>7, <1>8 DEF Request

\* The store without conversations has its type.
LEMMA EmptyType == Empty \in [Conversations -> Conversation]
<1>1. << >> \in Seq(Turn) /\ DOMAIN << >> = {}
  OBVIOUS
<1>2. Absent \in Conversation
  BY <1>1 DEF Absent, Conversation
<1> QED BY <1>2 DEF Empty

\* What an instance loads has its type.
LEMMA LoadedType ==
  ASSUME disk \in [Conversations -> Conversation], NEW i, NEW loaded \in Loads(i)
  PROVE  loaded \in [Conversations -> Conversation]
BY EmptyType DEF Loads

\* Every variable has its type, and what is being saved is a request.
Typed == TypeOK /\ \A i \in Instances : pc[i] = "save" => op[i] \in Request

\* The types hold when the instances have come up.
LEMMA InitTyped == Init => Typed
BY EmptyType DEF Init, Typed, TypeOK

\* Every step keeps the types, whatever was loaded: a request that is accepted
\* makes a conversation of a conversation, and the save writes what it made.
LEMMA StepTyped == Typed /\ [Next]_vars => Typed'
<1> SUFFICES ASSUME Typed, [Next]_vars PROVE Typed' OBVIOUS
<1> DEFINE Stores == [Conversations -> Conversation]
<1>1. /\ disk \in Stores /\ items \in [Instances -> Stores]
      /\ pc \in [Instances -> {"idle", "save", "reload"}]
      /\ op \in [Instances -> Request \union {NoOp}]
      /\ \A i \in Instances : pc[i] = "save" => op[i] \in Request
  BY DEF Typed, TypeOK
<1>2. \A i \in Instances : \A loaded \in Loads(i) : loaded \in Stores
  BY <1>1, LoadedType
<1>3. /\ disk' \in Stores /\ items' \in [Instances -> Stores]
      /\ pc' \in [Instances -> {"idle", "save", "reload"}]
      /\ op' \in [Instances -> Request \union {NoOp}]
      /\ \A i \in Instances : pc'[i] = "save" => op'[i] \in Request
  <2>1. CASE UNCHANGED vars BY <1>1, <2>1 DEF vars
  <2>2. ASSUME NEW i \in Instances, NEW req \in Request, Begin(i, req) PROVE <1>3!:
    <3>1. PICK loaded \in Loads(i) :
            /\ Accepts(req, loaded[req.key])
            /\ items' = [items EXCEPT ![i] = [loaded EXCEPT ![req.key] = Applied(req, @)]]
            /\ pc' = [pc EXCEPT ![i] = "save"]
            /\ op' = [op EXCEPT ![i] = req]
            /\ UNCHANGED disk
      BY <2>2 DEF Begin
    <3>2. loaded \in Stores BY <1>2
    <3>3. req.key \in Conversations BY RequestKey
    <3>4. PICK c : c = loaded[req.key] OBVIOUS
    <3>5. PICK d : d = Applied(req, c) OBVIOUS
    <3>6. d \in Conversation BY <3>1, <3>2, <3>3, <3>4, <3>5, AppliedType
    <3>7. items' = [items EXCEPT ![i] = [loaded EXCEPT ![req.key] = d]]
      BY <3>1, <3>4, <3>5
    <3>8. [loaded EXCEPT ![req.key] = d] \in Stores BY <3>2, <3>6
    <3>9. items' \in [Instances -> Stores] BY <1>1, <3>7, <3>8
    <3> QED BY <1>1, <3>1, <3>9
  <2>3. ASSUME NEW i \in Instances, Save(i) PROVE <1>3!:
    <3>1. op[i] \in Request /\ op[i].key \in Conversations BY <1>1, <2>3, RequestKey DEF Save
    <3>2. disk' = [disk EXCEPT ![op[i].key] = items[i][op[i].key]] BY <2>3 DEF Save, Merged
    <3>3. disk' \in Stores BY <1>1, <3>1, <3>2
    <3> QED BY <1>1, <2>3, <3>3 DEF Save
  <2>4. ASSUME NEW i \in Instances, NEW loaded \in Stores,
               items' = items \/ items' = [items EXCEPT ![i] = loaded],
               \/ pc' = pc /\ op' = op
               \/ pc' = [pc EXCEPT ![i] = "idle"] /\ op' \in {op, [op EXCEPT ![i] = NoOp]},
               disk' = disk
        PROVE  <1>3!:
    BY <1>1, <2>4
  <2> QED BY <1>1, <1>2, <2>1, <2>2, <2>3, <2>4
        DEF Next, Step, Refuse, SaveFails, Reload, Restart
<1> QED BY <1>3 DEF Typed, TypeOK

\* TypeOK, for any number of instances at work on one conversation at once, and
\* with a file that cannot be read at times: no turn is ever twice in a
\* conversation, in the store or in memory.
THEOREM ConversationsAreTyped == Spec => []TypeOK
<1>1. Typed => TypeOK BY DEF Typed
<1> QED BY <1>1, InitTyped, StepTyped, PTL DEF Spec

-----------------------------------------------------------------------------
(* No turn is lost *)

\* TurnsKept, as long as the file can be read and no two instances are at work on
\* one conversation: what a save writes is what its request made of the stored
\* conversation, and that has all the turns it had.
THEOREM TurnsAreKept ==
  ASSUME ~Unreadable, ~Overlap \/ \E one : Instances = {one}
  PROVE  Spec => TurnsKept
<1> DEFINE Kept ==
      \A k \in Conversations :
        /\ TurnIds(disk[k]) \subseteq TurnIds(disk'[k])
        /\ disk[k].status # "absent" => disk'[k].status # "absent"
<1>1. AtomicInv /\ [Next]_vars => AtomicInv'
  BY StepShape, StepAlone, StepPending DEF AtomicInv
<1>2. ASSUME AtomicInv, Typed, [Next]_vars PROVE Kept
  <2>1. disk \in [Conversations -> Conversation]
    BY <1>2 DEF Typed, TypeOK
  <2>2. CASE disk' = disk BY <2>2
  <2>3. CASE disk' # disk
    <3>1. PICK i \in Instances :
            /\ op[i] \in Request
            /\ Accepts(op[i], disk[op[i].key])
            /\ disk' = [disk EXCEPT ![op[i].key] = Applied(op[i], @)]
      BY <1>2, <2>3, SaveTakes
    <3>2. PICK key : key = op[i].key OBVIOUS
    <3>3. key \in Conversations BY <3>1, <3>2, RequestKey
    <3>4. PICK c : c = disk[key] OBVIOUS
    <3>5. PICK d : d = Applied(op[i], c) OBVIOUS
    <3>6. c \in Conversation /\ disk' = [disk EXCEPT ![key] = d]
      BY <2>1, <3>1, <3>2, <3>3, <3>4, <3>5
    <3>7. TurnIds(c) \subseteq TurnIds(d) /\ d.status # "absent"
      BY <3>1, <3>2, <3>4, <3>5, <3>6, AppliedType
    <3>8. disk'[key] = d /\ \A k \in Conversations : k # key => disk'[k] = disk[k]
      BY <2>1, <3>3, <3>6
    <3> QED BY <3>4, <3>7, <3>8
  <2> QED BY <2>2, <2>3
<1>3. AtomicInv /\ Typed /\ [Next]_vars => [Kept]_vars BY <1>2
<1> QED BY <1>1, <1>3, InitAtomic, InitTyped, StepTyped, PTL DEF Spec, TurnsKept

=============================================================================
