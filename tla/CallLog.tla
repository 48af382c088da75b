------------------------------ MODULE CallLog ------------------------------
(***************************************************************************)
(* The log of calls and the administrator's page of it. The threads of the *)
(* tasks append to a file that a deletion reads, and then writes anew      *)
(* without the entries that were chosen; nothing keeps the two apart. The  *)
(* requests of the page are served one after the other by the event loop.  *)
(* The code is log_service.py and system.py of the server, and             *)
(* logs/page.tsx of the web.                                               *)
(***************************************************************************)
EXTENDS Naturals, Sequences, FiniteSets, SequencesExt, Filtered

CONSTANTS Kinds,       \* of entries: their type and day
          Filters,     \* the kinds that a type and a range of dates let pass
          Usual,       \* the filter the page opens with
          Limit,       \* of entries in a list
          MaxEntries, MaxChanges, MaxFaults

ConstantsOK ==
  /\ Filters \subseteq SUBSET Kinds /\ Usual \in Filters /\ Limit \in Nat \ {0}
  /\ MaxEntries \in Nat /\ MaxChanges \in Nat /\ MaxFaults \in Nat

VARIABLES
  file,         \* the lines of the log
  added,        \* how many entries there have been
  filter,       \* type, startDate and endDate
  items,        \* the listed entries, the newest first
  selectedIds, deletingItems, isDeleting, isLoading,
  requests,
  chosen, amid, \* history: entries to delete, and those added while a deletion was at it
  changes, faults

page == <<filter, items, selectedIds, deletingItems, isDeleting, isLoading>>
vars == <<file, added, page, requests, chosen, amid, changes, faults>>

Ids == 1..MaxEntries
SystemLog == [id : Ids, kind : Kinds]
Requests == [kind : {"load", "delete"}, at : {"sent", "read", "done", "failed"}, filter : Filters,
             ids : SUBSET Ids, lines : Seq(SystemLog), last : BOOLEAN]

IdsOf(s) == {s[n].id : n \in DOMAIN s}

TypeOK ==
  /\ file \in Seq(SystemLog) /\ added \in 0..MaxEntries
  /\ filter \in Filters /\ items \in Seq(SystemLog)
  /\ selectedIds \subseteq Ids /\ deletingItems \subseteq Ids
  /\ isDeleting \in BOOLEAN /\ isLoading \in BOOLEAN /\ requests \subseteq Requests
  /\ chosen \subseteq Ids /\ amid \subseteq Ids
  /\ changes \in 0..MaxChanges /\ faults \in 0..MaxFaults

---------------------------------------------------------------------------
(* The file                                                                *)

matches_filters(e, f) == e.kind \in f

(* The newest entries first, up to the limit.                              *)
List(f) ==
  LET found == Reverse(Among(file, {e \in SystemLog : matches_filters(e, f)}))
  IN SubSeq(found, 1, IF Len(found) < Limit THEN Len(found) ELSE Limit)

Others(ids) == {e \in SystemLog : e.id \notin ids}

(* A deletion that would write back no more than a list holds.             *)
KeptOfList(lines, ids) ==
  LET kept == Among(lines, Others(ids))
  IN SubSeq(kept, IF Len(kept) > Limit THEN Len(kept) - Limit + 1 ELSE 1, Len(kept))

Kept(lines, ids) == Among(lines, Others(ids))

Rewriting == \E q \in requests : q.at = "read"

---------------------------------------------------------------------------
Request(kind, f, ids, last) ==
  [kind |-> kind, at |-> "sent", filter |-> f, ids |-> ids, lines |-> <<>>, last |-> last]

Init ==
  /\ file = <<>> /\ added = 0
  /\ filter = Usual /\ items = <<>>
  /\ selectedIds = {} /\ deletingItems = {} /\ isDeleting = FALSE /\ isLoading = TRUE
  /\ requests = {Request("load", Usual, {}, FALSE)}
  /\ chosen = {} /\ amid = {} /\ changes = 0 /\ faults = 0

(* A task, or a request for text, is logged when it ends.                  *)
add(k) ==
  /\ added < MaxEntries /\ added' = added + 1
  /\ file' = Append(file, [id |-> added', kind |-> k])
  /\ amid' = IF Rewriting THEN amid \cup {added'} ELSE amid
  /\ UNCHANGED <<page, requests, chosen, changes, faults>>

---------------------------------------------------------------------------
(* The page                                                                *)

Step ==
  /\ changes < MaxChanges /\ changes' = changes + 1
  /\ UNCHANGED <<file, added, amid, faults>>

loadLogs(f, last) ==
  /\ isLoading' = TRUE
  /\ requests' = requests \cup {Request("load", f, {}, last)}

(* Another type or range is loaded at once.                                *)
Filter(f) ==
  /\ Step /\ deletingItems = {} /\ f # filter
  /\ filter' = f /\ loadLogs(f, FALSE)
  /\ UNCHANGED <<items, selectedIds, deletingItems, isDeleting, chosen>>

Refresh ==
  /\ Step /\ deletingItems = {} /\ ~isLoading
  /\ loadLogs(filter, FALSE)
  /\ UNCHANGED <<filter, items, selectedIds, deletingItems, isDeleting, chosen>>

(* One entry, or all that are listed.                                      *)
toggleIds(S) ==
  /\ Step /\ deletingItems = {} /\ S # {}
  /\ selectedIds' = IF S \subseteq selectedIds THEN selectedIds \ S ELSE selectedIds \cup S
  /\ UNCHANGED <<filter, items, deletingItems, isDeleting, isLoading, requests, chosen>>

(* The dialog is about one entry or the listed ones that are selected.     *)
Offers == {{e} : e \in IdsOf(items)}
            \cup IF isDeleting THEN {} ELSE {IdsOf(items) \cap selectedIds} \ {{}}

openDelete(S) ==
  /\ Step /\ deletingItems = {} /\ S \in Offers
  /\ deletingItems' = S
  /\ UNCHANGED <<filter, items, selectedIds, isDeleting, isLoading, requests, chosen>>

closeDelete ==
  /\ Step /\ deletingItems # {} /\ deletingItems' = {}
  /\ UNCHANGED <<filter, items, selectedIds, isDeleting, isLoading, requests, chosen>>

confirmDelete ==
  /\ Step /\ deletingItems # {} /\ ~isDeleting
  /\ isDeleting' = TRUE /\ chosen' = chosen \cup deletingItems
  /\ requests' = requests \cup {Request("delete", filter, deletingItems, FALSE)}
  /\ UNCHANGED <<filter, items, selectedIds, deletingItems, isLoading>>

---------------------------------------------------------------------------
(* The server                                                              *)

Become(q, r) == requests' = (requests \ {q}) \cup {r}

get_logs(q) ==
  /\ q.kind = "load" /\ q.at = "sent" /\ ~Rewriting
  /\ Become(q, [q EXCEPT !.at = "done", !.lines = List(q.filter)])
  /\ UNCHANGED <<file, added, page, chosen, amid, changes, faults>>

(* The lines are read, and written anew in a second step.                  *)
ReadLines(q) ==
  /\ q.kind = "delete" /\ q.at = "sent" /\ ~Rewriting
  /\ Become(q, [q EXCEPT !.at = "read", !.lines = file])
  /\ UNCHANGED <<file, added, page, chosen, amid, changes, faults>>

WriteLines(q) ==
  /\ q.at = "read"
  /\ file' = Kept(q.lines, q.ids)
  /\ Become(q, [q EXCEPT !.at = "done", !.lines = <<>>])
  /\ UNCHANGED <<added, page, chosen, amid, changes, faults>>

Fail(q) ==
  /\ q.at \in {"sent", "done"} /\ faults < MaxFaults /\ faults' = faults + 1
  /\ Become(q, [q EXCEPT !.at = "failed", !.lines = <<>>])
  /\ UNCHANGED <<file, added, page, chosen, amid, changes>>

---------------------------------------------------------------------------
(* The answers. The list that is loaded after a deletion is that of the    *)
(* filters there were when it was confirmed.                               *)
Loaded(q) ==
  /\ q.kind = "load" /\ q.at \in {"done", "failed"}
  /\ isLoading' = FALSE
  /\ isDeleting' = (isDeleting /\ ~q.last)
  /\ IF q.at = "done"
     THEN items' = q.lines /\ selectedIds' = selectedIds \cap IdsOf(q.lines)
     ELSE UNCHANGED <<items, selectedIds>>
  /\ requests' = requests \ {q}
  /\ UNCHANGED <<filter, deletingItems>>

Deleted(q) ==
  /\ q.kind = "delete" /\ q.at = "done"
  /\ deletingItems' = {} /\ selectedIds' = selectedIds \ q.ids
  /\ isLoading' = TRUE
  /\ Become(q, Request("load", q.filter, {}, TRUE))
  /\ UNCHANGED <<filter, items, isDeleting>>

NotDeleted(q) ==
  /\ q.kind = "delete" /\ q.at = "failed"
  /\ isDeleting' = FALSE /\ requests' = requests \ {q}
  /\ UNCHANGED <<filter, items, selectedIds, deletingItems, isLoading>>

Answer(q) ==
  /\ Loaded(q) \/ Deleted(q) \/ NotDeleted(q)
  /\ UNCHANGED <<file, added, chosen, amid, changes, faults>>

Next ==
  \/ \E k \in Kinds : add(k)
  \/ \E f \in Filters : Filter(f)
  \/ Refresh \/ closeDelete \/ confirmDelete
  \/ \E S \in {{e} : e \in IdsOf(items)} \cup {IdsOf(items)} : toggleIds(S)
  \/ \E S \in Offers : openDelete(S)
  \/ \E q \in requests : get_logs(q) \/ ReadLines(q) \/ WriteLines(q) \/ Fail(q) \/ Answer(q)

Spec == Init /\ [][Next]_vars

---------------------------------------------------------------------------
(* No entry is lost that nobody asked to delete, except those that are     *)
(* added between the two steps of a deletion: the file that is written     *)
(* back is whole, however little of it the page has listed.                *)
LogKept == (1..added) \ (chosen \cup amid) \subseteq IdsOf(file)
=============================================================================
