------------------------------ MODULE History ------------------------------
(***************************************************************************)
(* What the workspace page does to the conversations besides generating:   *)
(* rename, delete, delete a part, dismiss errors, give feedback, load them *)
(* again. Each is shown at once, then written to the browser's store, then *)
(* sent to the server. The store is one list, read and written as a whole: *)
(* a tab does so one operation after the other, but tabs do not wait for   *)
(* each other. The code is image/page.tsx and store/image-conversations.ts *)
(* of the web; what is done there to a turn's images is in Workspace.      *)
(***************************************************************************)
EXTENDS Naturals, FiniteSets, Sequences

CONSTANTS Tabs, Ids,
          MaxChanges, \* what the user does
          MaxClock,   \* the clock that stamps a change
          MaxFaults

ConstantsOK == MaxChanges \in Nat /\ MaxClock \in Nat /\ MaxFaults \in Nat

VARIABLES
  server,    \* the conversations on the server
  store,     \* those in the browser
  list,      \* per tab: those that are shown
  queue,     \* per tab: imageConversationWriteQueue
  snapshot,  \* per tab: what the first operation of the queue has read
  crossed,   \* per tab: another tab has written since
  aside,     \* tabs behind which the store was changed, or which were written while they loaded
  selected,  \* per tab: selectedConversationId, 0 for a draft
  skip,      \* per tab: skipNextHistoryConversationRestoreRef
  drafted,   \* tabs in a draft that was made while they loaded
  calls,     \* requests under way
  clock, changes, faults

vars == <<server, store, list, queue, snapshot, crossed, aside, selected, skip, drafted, calls, clock, changes, faults>>
view == <<selected, skip, drafted>>

(* A conversation: when it was changed, whether it has another name, a     *)
(* vote on its image, and lost a part.                                     *)
Conversation == [stamp : 0..MaxClock, renamed : BOOLEAN, vote : BOOLEAN, less : BOOLEAN]
Histories == UNION {[S -> Conversation] : S \in SUBSET Ids}
Unread == [read |-> FALSE]

Calls == [kind : {"upsert", "delete", "part", "vote", "load"}, tab : Tabs, id : Ids \cup {0},
          at : {"sent", "done", "failed"}, renamed : BOOLEAN, vote : BOOLEAN, was : Histories]
Operations == [kind : {"save", "rename", "delete"}, id : Ids \cup {0}, items : Histories,
               then : {"none", "upsert", "part", "delete", "vote", "show"}, was : Histories]

TypeOK ==
  /\ server \in Histories /\ store \in Histories /\ list \in [Tabs -> Histories]
  /\ \A t \in Tabs : \A i \in DOMAIN queue[t] : queue[t][i] \in Operations
  /\ \A t \in Tabs : snapshot[t] = Unread \/ snapshot[t].items \in Histories
  /\ crossed \in [Tabs -> BOOLEAN] /\ aside \subseteq Tabs /\ calls \subseteq Calls
  /\ selected \in [Tabs -> Ids \cup {0}] /\ skip \in [Tabs -> BOOLEAN] /\ drafted \subseteq Tabs
  /\ clock \in 0..MaxClock /\ changes \in 0..MaxChanges /\ faults \in 0..MaxFaults

---------------------------------------------------------------------------
(* Conversations                                                           *)

Only(c, v) == [i \in {c} |-> v]
With(h, c, v) == [i \in DOMAIN h \cup {c} |-> IF i = c THEN v ELSE h[i]]
Without(h, c) == [i \in DOMAIN h \ {c} |-> h[i]]
None == [i \in {} |-> 0]

\* Mutant of pickLatestConversation: what is saved last is kept.
PickNext(current, next) == next

pickLatestConversation(current, next) == IF next.stamp >= current.stamp THEN next ELSE current

saveImageConversations(h, items) ==
  [c \in DOMAIN h \cup DOMAIN items |->
     IF c \notin DOMAIN items THEN h[c]
     ELSE IF c \in DOMAIN h THEN pickLatestConversation(h[c], items[c]) ELSE items[c]]

renameImageConversation(h, c) ==
  IF c \notin DOMAIN h THEN h ELSE [h EXCEPT ![c].renamed = TRUE, ![c].stamp = clock]

deleteImageConversation(h, c) == Without(h, c)

(* What an operation makes of the list it has read.                        *)
Written(h, o) ==
  CASE o.kind = "save" -> saveImageConversations(h, o.items)
    [] o.kind = "rename" -> renameImageConversation(h, o.id)
    [] o.kind = "delete" -> deleteImageConversation(h, o.id)

---------------------------------------------------------------------------
First == [stamp |-> 0, renamed |-> FALSE, vote |-> FALSE, less |-> FALSE]

Init ==
  /\ server = [c \in Ids |-> First] /\ store = server /\ list = [t \in Tabs |-> server]
  /\ queue = [t \in Tabs |-> <<>>] /\ snapshot = [t \in Tabs |-> Unread]
  /\ crossed = [t \in Tabs |-> FALSE] /\ aside = {} /\ calls = {}
  /\ selected = [t \in Tabs |-> 0] /\ skip = [t \in Tabs |-> FALSE] /\ drafted = {}
  /\ clock = 0 /\ changes = 0 /\ faults = 0

Change == changes < MaxChanges /\ changes' = changes + 1

(* The rows of the sidebar, which select, rename and delete.               *)
Rows(t) == DOMAIN list[t]

LoadsOf(t) == {q \in calls : q.kind = "load" /\ q.tab = t}
loadHistoryInFlight(t) ==
  LoadsOf(t) # {} \/ \E i \in DOMAIN queue[t] : queue[t][i].then = "show"

(* One that is active, or the first.                                       *)
pickFallbackConversationId(h) == IF DOMAIN h = {} THEN {0} ELSE DOMAIN h

(* A list is shown; a selected conversation that is not in it is replaced. *)
Show(t, h) ==
  /\ list' = [list EXCEPT ![t] = h]
  /\ IF selected[t] \in DOMAIN h \cup {0} THEN selected' = selected
     ELSE \E c \in pickFallbackConversationId(h) : selected' = [selected EXCEPT ![t] = c]

\* Mutant of Do: a change that is shown while another is written is not handed on.
DoWhenIdle(t, shown, o) ==
  /\ Show(t, shown)
  /\ queue' = [queue EXCEPT ![t] = IF @ = <<>> THEN <<o>> ELSE @]
  /\ aside' = IF loadHistoryInFlight(t) THEN aside \cup {t} ELSE aside
  /\ UNCHANGED <<server, store, snapshot, crossed, skip, drafted, clock, faults>>

(* What is changed is shown, and handed to the queue; "then" is what is    *)
(* sent when it is written.                                                *)
Do(t, shown, o) ==
  /\ Show(t, shown)
  /\ queue' = [queue EXCEPT ![t] = Append(@, o)]
  /\ aside' = IF loadHistoryInFlight(t) THEN aside \cup {t} ELSE aside
  /\ UNCHANGED <<server, store, snapshot, crossed, skip, drafted, clock, faults>>

Operation(kind, c, items, then) ==
  [kind |-> kind, id |-> c, items |-> items, then |-> then, was |-> None]
Save(t, c, v, then) ==
  Do(t, With(list[t], c, v), Operation("save", c, Only(c, v), then))

handleRenameConversation(t, c) ==
  /\ Change /\ c \in Rows(t) /\ ~list[t][c].renamed
  /\ Do(t, [list[t] EXCEPT ![c].renamed = TRUE, ![c].stamp = clock],
        Operation("rename", c, None, "upsert"))
  /\ UNCHANGED calls

handleDeleteConversation(t, c) ==
  /\ Change /\ c \in Rows(t)
  /\ Do(t, Without(list[t], c), Operation("delete", c, None, "delete"))
  /\ UNCHANGED calls

(* A part of a turn is deleted: the name is sent, then the part. Without   *)
(* its other part the conversation is deleted.                             *)
handleDeleteTurnPart(t, c) ==
  \/ /\ Change /\ c \in DOMAIN list[t] /\ ~list[t][c].less
     /\ Save(t, c, [list[t][c] EXCEPT !.less = TRUE, !.stamp = clock], "part")
     /\ UNCHANGED calls
  \/ c \in DOMAIN list[t] /\ list[t][c].less /\ handleDeleteConversation(t, c)

(* Errors are only dismissed in the browser.                               *)
handleDismissErrors(t, c) ==
  /\ Change /\ c \in DOMAIN list[t]
  /\ Save(t, c, [list[t][c] EXCEPT !.stamp = clock], "none")
  /\ UNCHANGED calls

(* A vote is shown before it is sent, and does not stamp the conversation. *)
handleImageFeedback(t, c) ==
  /\ Change /\ c \in DOMAIN list[t]
  /\ LET v == [list[t][c] EXCEPT !.vote = ~@]
     IN Do(t, With(list[t], c, v), [Operation("save", c, Only(c, v), "vote") EXCEPT !.was = Only(c, list[t][c])])
  /\ UNCHANGED calls

---------------------------------------------------------------------------
(* The store                                                               *)

readStoredImageConversations(t) ==
  /\ queue[t] # <<>> /\ snapshot[t] = Unread
  /\ snapshot' = [snapshot EXCEPT ![t] = [read |-> TRUE, items |-> store]]
  /\ crossed' = [crossed EXCEPT ![t] = FALSE]
  /\ UNCHANGED <<server, store, list, queue, aside, view, calls, clock, changes, faults>>

CallsOf(t, o) ==
  LET call(kind, vote) == [kind |-> kind, tab |-> t, id |-> o.id, at |-> "sent",
                           renamed |-> (IF o.kind = "save" THEN o.items[o.id].renamed ELSE TRUE),
                           vote |-> vote, was |-> o.was]
  IN CASE o.then \in {"none", "show"} -> {}
       [] o.then = "vote" -> {call("vote", o.items[o.id].vote)}
       [] o.then = "part" -> {call("upsert", FALSE), call("part", FALSE)}
       [] OTHER -> {call(o.then, FALSE)}

(* The loaded list is shown. It selects a conversation, unless a draft was *)
(* made meanwhile.                                                         *)
Restore(t, h) ==
  /\ list' = [list EXCEPT ![t] = h]
  /\ skip' = [skip EXCEPT ![t] = FALSE]
  /\ \E c \in IF skip[t] THEN {0} ELSE pickFallbackConversationId(h) :
       selected' = [selected EXCEPT ![t] = c]
  /\ UNCHANGED drafted

WriteStore(t) ==
  /\ snapshot[t] # Unread
  /\ store' = Written(snapshot[t].items, Head(queue[t]))
  /\ queue' = [queue EXCEPT ![t] = Tail(@)]
  /\ snapshot' = [snapshot EXCEPT ![t] = Unread]
  /\ crossed' = [u \in Tabs |-> IF u = t THEN FALSE ELSE crossed[u] \/ snapshot[u] # Unread]
  /\ aside' = aside \cup (Tabs \ {t})
  /\ calls' = calls \cup CallsOf(t, Head(queue[t]))
  /\ IF Head(queue[t]).then = "show" THEN Restore(t, Head(queue[t]).items)
     ELSE UNCHANGED <<list, view>>
  /\ UNCHANGED <<server, clock, changes, faults>>

---------------------------------------------------------------------------
(* The server                                                              *)

(* An upsert makes a conversation that was deleted anew.                   *)
Upserted(q) ==
  With(server, q.id,
       IF q.id \in DOMAIN server
       THEN [server[q.id] EXCEPT !.renamed = q.renamed, !.stamp = clock]
       ELSE [First EXCEPT !.renamed = q.renamed, !.stamp = clock])

UpdatedServer(q) ==
  CASE q.kind = "upsert" -> Upserted(q)
    [] q.kind = "delete" -> Without(server, q.id)
    [] q.kind = "part" /\ q.id \in DOMAIN server -> [server EXCEPT ![q.id].less = TRUE, ![q.id].stamp = clock]
    [] q.kind = "vote" /\ q.id \in DOMAIN server -> [server EXCEPT ![q.id].vote = q.vote, ![q.id].stamp = clock]
    [] OTHER -> server

(* A part is only sent when the name was answered.                         *)
Waits(q) == q.kind = "part" /\ \E u \in calls : u.kind = "upsert" /\ u.tab = q.tab /\ u.id = q.id

Handle(q) ==
  /\ q.at = "sent" /\ ~Waits(q)
  /\ server' = UpdatedServer(q)
  /\ calls' = (calls \ {q}) \cup IF q.kind = "vote" THEN {[q EXCEPT !.at = "done"]}
                                ELSE IF q.kind = "load" THEN {[q EXCEPT !.at = "done", !.was = server]} ELSE {}
  /\ UNCHANGED <<store, list, queue, snapshot, crossed, aside, view, clock, changes, faults>>

Fail(q) ==
  /\ q.at = "sent" /\ faults < MaxFaults /\ faults' = faults + 1
  /\ calls' = (calls \ {q}) \cup IF q.kind \in {"vote", "load"} THEN {[q EXCEPT !.at = "failed"]} ELSE {}
  /\ UNCHANGED <<server, store, list, queue, snapshot, crossed, aside, view, clock, changes>>

(* The vote is taken as it was answered, or back. A conversation that has  *)
(* been deleted meanwhile is shown again as it was.                        *)
VoteAnswered(q) ==
  /\ q.kind = "vote" /\ q.at # "sent"
  /\ LET t == q.tab
         c == q.id
         v == IF c \notin DOMAIN list[t] THEN q.was[c]
              ELSE [list[t][c] EXCEPT !.vote = IF q.at = "done" THEN q.vote ELSE q.was[c].vote]
     IN Save(t, c, v, "none")
  /\ calls' = calls \ {q} /\ UNCHANGED changes

(* The history is loaded, and again when a preference changes or the page  *)
(* is shown from the browser's memory: the browser's list is read, and the *)
(* server asked.                                                           *)
loadHistory(t) ==
  /\ Change /\ ~loadHistoryInFlight(t)
  /\ calls' = calls \cup {[kind |-> "load", tab |-> t, id |-> 0, at |-> "sent",
                           renamed |-> FALSE, vote |-> FALSE, was |-> store]}
  /\ aside' = IF queue[t] = <<>> THEN aside ELSE aside \cup {t}
  /\ drafted' = drafted \ {t}
  /\ UNCHANGED <<server, store, list, queue, snapshot, crossed, selected, skip, clock, faults>>

(* What the server answers is saved and then shown; without an answer what *)
(* was read from the browser is.                                           *)
loadServerConversations(q) ==
  /\ q.kind = "load" /\ calls' = calls \ {q}
  /\ \/ /\ q.at = "done"
        /\ queue' = [queue EXCEPT ![q.tab] = Append(@, Operation("save", 0, q.was, "show"))]
        /\ UNCHANGED <<list, view>>
     \/ q.at = "failed" /\ Restore(q.tab, q.was) /\ UNCHANGED queue
  /\ UNCHANGED <<server, store, snapshot, crossed, aside, clock, changes, faults>>

\* Mutant of beginFreshDraftHistoryState: a load that is under way is not told.
ForgetsTheLoad(t) == skip[t]

beginFreshDraftHistoryState(t) == skip[t] \/ loadHistoryInFlight(t)

handleCreateDraft(t) ==
  /\ selected' = [selected EXCEPT ![t] = 0]
  /\ skip' = [skip EXCEPT ![t] = beginFreshDraftHistoryState(t)]
  /\ drafted' = IF loadHistoryInFlight(t) THEN drafted \cup {t} ELSE drafted
  /\ UNCHANGED <<server, store, list, queue, snapshot, crossed, aside, calls, clock, changes, faults>>

handleSelectConversation(t, c) ==
  /\ c \in Rows(t) /\ selected' = [selected EXCEPT ![t] = c]
  /\ drafted' = drafted \ {t}
  /\ UNCHANGED <<server, store, list, queue, snapshot, crossed, aside, skip, calls, clock, changes, faults>>

Tick ==
  /\ clock < MaxClock /\ clock' = clock + 1
  /\ UNCHANGED <<server, store, list, queue, snapshot, crossed, aside, view, calls, changes, faults>>

---------------------------------------------------------------------------
Next ==
  \/ Tick
  \/ \E t \in Tabs :
       \/ loadHistory(t) \/ handleCreateDraft(t) \/ readStoredImageConversations(t) \/ WriteStore(t)
       \/ \E c \in Ids :
            \/ handleRenameConversation(t, c) \/ handleDeleteConversation(t, c)
            \/ handleDeleteTurnPart(t, c) \/ handleDismissErrors(t, c) \/ handleImageFeedback(t, c)
            \/ handleSelectConversation(t, c)
  \/ \E q \in calls : Handle(q) \/ Fail(q) \/ VoteAnswered(q) \/ loadServerConversations(q)

Spec == Init /\ [][Next]_vars

---------------------------------------------------------------------------
(* The store never goes back: no conversation gets lost or older by an     *)
(* operation that does not delete it, unless another tab wrote between its *)
(* reading and its writing.                                                *)
NothingReverts ==
  [][\A t \in Tabs : snapshot[t] # Unread /\ snapshot'[t] = Unread /\ ~crossed[t] =>
       \A c \in DOMAIN store :
         IF c \in DOMAIN store' THEN store'[c].stamp >= store[c].stamp
         ELSE Head(queue[t]).kind = "delete"]_vars

(* Once its writes are done, whatever a tab shows is in the store, at      *)
(* least as recent, unless another tab wrote or it was written while it    *)
(* loaded. (A new name is stamped again when it is written, so the store   *)
(* may be ahead, and votes before the next stamp stay out of it.)          *)
CacheFollows ==
  \A t \in Tabs \ aside : queue[t] = <<>> =>
    \A c \in DOMAIN list[t] : c \in DOMAIN store /\ store[c].stamp >= list[t][c].stamp

(* A load that ends does not take the user away from a draft that was made *)
(* while it was under way.                                                 *)
DraftKept == \A t \in drafted : selected[t] = 0
=============================================================================
