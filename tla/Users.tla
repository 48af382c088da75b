------------------------------- MODULE Users -------------------------------
(***************************************************************************)
(* The users an administrator keeps: a list with a dialog to create a user *)
(* and one each to change and to delete one. A request changes one user,   *)
(* and is answered the whole list, which the server reads afterwards. A    *)
(* dialog can be left while its request is under way. The code is          *)
(* user-keys-card.tsx of the web and the users of the server.              *)
(***************************************************************************)
EXTENDS Naturals, FiniteSets, FiniteSetsExt

CONSTANTS Ids, Names, Keys,
          MaxRequests,  \* requests under way at once
          MaxWrites, MaxFaults

Blank == "blank"   \* nothing was typed, or nothing is shown
Generated == "generated"

ConstantsOK ==
  /\ Blank \notin Names \cup Keys \cup Ids /\ Generated \notin Keys
  /\ MaxRequests \in Nat \ {0} /\ MaxWrites \in Nat /\ MaxFaults \in Nat

(* A default name is a number; a key is one that was chosen, or its user's *)
(* own.                                                                    *)
AnyName == Names \cup 1..Cardinality(Ids)
UserKey == [name : AnyName, key : Keys \cup {Generated}, enabled : BOOLEAN]
Lists == UNION {[S -> [name : AnyName, enabled : BOOLEAN]] : S \in SUBSET Ids}
Kinds == {"load", "create", "toggle", "edit", "delete"}
Busy == [at : {"sent", "changed", "done", "failed"}, kind : Kinds, id : Ids \cup {Blank},
         name : Names \cup {Blank}, key : Keys \cup {Blank}, enabled : BOOLEAN,
         list : Lists, read : 0..MaxWrites]

VARIABLES
  users,     \* the users on the server
  created,   \* the ids it has given out
  items,     \* the list that is shown
  read,      \* the change of the server it was read after
  overtaken, \* it replaced one that was read later
  dialog,    \* the dialog that is open, with the user it was opened for
  revealed,  \* whose key is shown
  requests,  \* requests under way
  writes, faults

vars == <<users, created, items, read, overtaken, dialog, revealed, requests, writes, faults>>

Closed == [kind |-> "none", id |-> Blank]
Empty == [i \in {} |-> Blank]

UnderWay(kinds) == {q \in requests : q.kind \in kinds}
isLoading == UnderWay({"load"}) # {}
isCreating == UnderWay({"create"}) # {}
pendingIds == {q.id : q \in UnderWay({"toggle", "edit", "delete"})}

TypeOK ==
  /\ \A i \in DOMAIN users : users[i] \in UserKey
  /\ DOMAIN users \subseteq created /\ created \subseteq Ids /\ items \in Lists
  /\ read \in 0..MaxWrites /\ overtaken \in BOOLEAN
  /\ dialog \in [kind : {"none", "create"}, id : {Blank}] \cup [kind : {"edit", "delete"}, id : Ids]
  /\ revealed \in Ids \cup {Blank}
  /\ requests \subseteq Busy /\ Cardinality(requests) <= MaxRequests
  /\ writes \in 0..MaxWrites /\ faults \in 0..MaxFaults

---------------------------------------------------------------------------
(* The server: every change is made under one lock, to the list as it is   *)
(* stored                                                                  *)

_public(u) == [name |-> u.name, enabled |-> u.enabled]
list_keys == [i \in DOMAIN users |-> _public(users[i])]

Others(i) == DOMAIN users \ {i}
Taken(i, name) == \E j \in Others(i) : users[j].name = name

_build_default_name(i) == Min({n \in 1..Cardinality(Ids) : ~Taken(i, n)})

_has_name(i, name) == Taken(i, name)
_has_key(i, key) == key # Generated /\ \E j \in Others(i) : users[j].key = key

(* What a request makes of its user, and whether it is refused.            *)
Refuses(q) ==
  \/ q.kind # "create" /\ q.id \notin DOMAIN users
  \/ q.name # Blank /\ _has_name(q.id, q.name)
  \/ q.key # Blank /\ _has_key(q.id, q.key)

create_key(q) ==
  [name |-> IF q.name = Blank THEN _build_default_name(q.id) ELSE q.name,
   key |-> IF q.key = Blank THEN Generated ELSE q.key, enabled |-> TRUE]

update_key(u, q) ==
  CASE q.kind = "toggle" -> [u EXCEPT !.enabled = q.enabled]
    [] q.kind = "edit" -> [u EXCEPT !.name = IF q.name = Blank THEN @ ELSE q.name,
                                    !.key = IF q.key = Blank THEN @ ELSE q.key]

Changed(q) ==
  [i \in IF q.kind = "delete" THEN Others(q.id) ELSE DOMAIN users \cup {q.id} |->
     IF i # q.id THEN users[i]
     ELSE IF q.kind = "create" THEN create_key(q) ELSE update_key(users[i], q)]

---------------------------------------------------------------------------
Load == [at |-> "sent", kind |-> "load", id |-> Blank, name |-> Blank, key |-> Blank,
         enabled |-> FALSE, list |-> Empty, read |-> 0]

Init ==
  /\ users = Empty /\ created = {} /\ items = Empty /\ read = 0 /\ overtaken = FALSE
  /\ dialog = Closed /\ revealed = Blank
  /\ requests = {Load}
  /\ writes = 0 /\ faults = 0

(* What the page offers: the buttons of a user are off while a request for *)
(* it is under way, a dialog hides what is under it, and can be left at    *)
(* any time.                                                               *)
RowOffers(i) ==
  IF isLoading \/ dialog # Closed \/ i \notin DOMAIN items \/ i \in pendingIds
  THEN {} ELSE {"edit", "toggle", "delete"}
CreateOffers ==
  IF dialog.kind # "create" THEN {} ELSE {"leave"} \cup IF isCreating THEN {} ELSE {"create"}
DeleteOffers ==
  IF dialog.kind # "delete" THEN {}
  ELSE {"leave"} \cup IF dialog.id \in pendingIds THEN {} ELSE {"delete"}
EditOffers ==
  IF dialog.kind # "edit" THEN {}
  ELSE {"leave"} \cup IF dialog.id \in pendingIds THEN {} ELSE {"save"}
DialogOffers == CreateOffers \cup DeleteOffers \cup EditOffers

Open(d) == dialog' = d /\ UNCHANGED <<users, created, items, read, overtaken, revealed, requests, writes, faults>>

openCreateDialog == dialog = Closed /\ Open([kind |-> "create", id |-> Blank])
openDeleteDialog(i) == "delete" \in RowOffers(i) /\ Open([kind |-> "delete", id |-> i])
openEditDialog(i) == "edit" \in RowOffers(i) /\ Open([kind |-> "edit", id |-> i])
LeaveDialog == "leave" \in DialogOffers /\ Open(Closed)

Send(kind, i, name, key, enabled) ==
  /\ Cardinality(requests) < MaxRequests /\ writes + Cardinality(requests) < MaxWrites
  /\ requests' = requests \cup
       {[Load EXCEPT !.kind = kind, !.id = i, !.name = name, !.key = key, !.enabled = enabled]}
  /\ UNCHANGED <<users, items, read, overtaken, dialog, revealed, writes, faults>>

handleCreate(name, key) ==
  /\ "create" \in DialogOffers
  /\ \E i \in Ids \ created :
       /\ Send("create", i, name, key, FALSE)
       /\ created' = created \cup {i}

handleToggle(i) ==
  /\ "toggle" \in RowOffers(i)
  /\ Send("toggle", i, Blank, Blank, ~items[i].enabled) /\ UNCHANGED created

handleDelete ==
  /\ "delete" \in DialogOffers
  /\ Send("delete", dialog.id, Blank, Blank, FALSE) /\ UNCHANGED created

(* Only what was changed is sent; with nothing changed the dialog closes.  *)
handleEdit(name, key) ==
  /\ "save" \in DialogOffers /\ <<name, key>> # <<Blank, Blank>>
  /\ Send("edit", dialog.id, name, key, FALSE) /\ UNCHANGED created

---------------------------------------------------------------------------
Becomes(q, p) == requests' = (requests \ {q}) \cup {p}

ChangeUsers(q) ==
  /\ q.at = "sent"
  /\ \/ /\ q.kind = "load" /\ UNCHANGED <<users, writes>>
        /\ Becomes(q, [q EXCEPT !.at = "changed"])
     \/ /\ q.kind # "load" /\ Refuses(q) /\ UNCHANGED <<users, writes>>
        /\ Becomes(q, [q EXCEPT !.at = "failed"])
     \/ /\ q.kind # "load" /\ ~Refuses(q) /\ users' = Changed(q) /\ writes' = writes + 1
        /\ Becomes(q, [q EXCEPT !.at = "changed"])
  /\ UNCHANGED <<created, items, read, overtaken, dialog, revealed, faults>>

ReadUsers(q) ==
  /\ q.at = "changed"
  /\ Becomes(q, [q EXCEPT !.at = "done", !.list = list_keys, !.read = writes])
  /\ UNCHANGED <<users, created, items, read, overtaken, dialog, revealed, writes, faults>>

\* Mutant of ShownList: a user that is deleted goes when the list is loaded.
ShownUntilLoad(q) == IF q.kind = "delete" THEN items ELSE q.list

ShownList(q) == q.list

(* The list is replaced, and the dialog of the request's kind closes,      *)
(* whoever it is open for by now.                                          *)
Answered(q) ==
  /\ q.at = "done" /\ requests' = requests \ {q}
  /\ items' = ShownList(q) /\ read' = q.read
  /\ overtaken' = (q.read < read \/ (overtaken /\ q.read < writes))
  /\ dialog' = IF dialog.kind = q.kind THEN Closed ELSE dialog
  /\ revealed' = IF q.kind = "create" THEN q.id ELSE revealed
  /\ UNCHANGED <<users, created, writes, faults>>

(* A request or its answer is lost.                                        *)
Fail(q) ==
  /\ q.at # "failed" /\ faults < MaxFaults /\ faults' = faults + 1
  /\ Becomes(q, [q EXCEPT !.at = "failed", !.list = Empty, !.read = 0])
  /\ UNCHANGED <<users, created, items, read, overtaken, dialog, revealed, writes>>

Refused(q) ==
  /\ q.at = "failed" /\ requests' = requests \ {q}
  /\ UNCHANGED <<users, created, items, read, overtaken, dialog, revealed, writes, faults>>

Next ==
  \/ openCreateDialog \/ LeaveDialog \/ handleDelete
  \/ \E i \in Ids : openDeleteDialog(i) \/ openEditDialog(i) \/ handleToggle(i)
  \/ \E n \in Names \cup {Blank}, k \in Keys \cup {Blank} : handleCreate(n, k) \/ handleEdit(n, k)
  \/ \E q \in requests : ChangeUsers(q) \/ ReadUsers(q) \/ Answered(q) \/ Fail(q) \/ Refused(q)

Spec == Init /\ [][Next]_vars

---------------------------------------------------------------------------
(* A list that is at rest is the server's, unless an answer that was read  *)
(* earlier came later, or a request failed.                                *)
ListCaught ==
  requests = {} /\ faults = 0 => items = list_keys \/ overtaken
=============================================================================
