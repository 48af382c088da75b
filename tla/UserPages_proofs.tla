--------------------------- MODULE UserPages_proofs ---------------------------
(* Proofs about the pages of a user: the drawer of a draft, the history    *)
(* of conversations, the home page and the workspace in several tabs, each *)
(* as the part of WebPages it is.                                          *)
EXTENDS WebPages, FiniteSetTheorems, SequenceTheorems, TLAPS

---------------------------------------------------------------------------
(* The drawer of a draft                                                   *)

(* A request holds texts of its item only, and so does its answer.         *)
Job(q) ==
  /\ {"at", "live", "result"} \subseteq DOMAIN q
  /\ q.payload.title \subseteq {q.item} /\ q.payload.summary \subseteq {q.item}
  /\ q.payload.share \subseteq {q.item} /\ q.result \subseteq {q.item}

Draft(i, d) == d.title \subseteq {i} /\ d.summary \subseteq {i} /\ d.share \subseteq {i}

(* While the drawer shows an item its texts are that item's; what a closed *)
(* one still holds is replaced when it opens.                              *)
TextsInv ==
  Shares!selectedItem # {} =>
    /\ title \subseteq Shares!selectedItem /\ conversationSummary \subseteq Shares!selectedItem
    /\ sharePrompt \subseteq Shares!selectedItem

DrawerInv ==
  /\ \A a, b \in opened : a = b
  /\ TextsInv
  /\ \A q \in jobs : Job(q)
  /\ DOMAIN drafts = SharedItems /\ \A i \in SharedItems : \A d \in drafts[i] : Draft(i, d)

\* A drawer that opens, or shows another item, starts from that item.
LEMMA InitialiseTexts ==
  ASSUME TextsInv, NEW S, Shares!Initialise(S), Shares!selectedItem' = S PROVE TextsInv'
BY DEF TextsInv, Shares!Initialise, Shares!texts

\* What is sent is of the item that is shown.
LEMMA SendStep ==
  ASSUME DrawerInv, NEW kind, NEW payload, Shares!Send(kind, payload),
         payload.title \subseteq Shares!selectedItem, payload.summary \subseteq Shares!selectedItem,
         payload.share \subseteq Shares!selectedItem
  PROVE DrawerInv'
<1>1. PICK i \in Shares!selectedItem :
        jobs' = jobs \cup {[kind |-> kind, at |-> "sent", item |-> i, live |-> TRUE,
                            payload |-> payload, result |-> {}]}
  BY DEF Shares!Send
<1>2. UNCHANGED <<shares, opened, title, conversationSummary, sharePrompt, drafts>>
  BY DEF Shares!Send, Shares!texts
<1>3. Shares!selectedItem = {i}
  BY <1>1 DEF DrawerInv, Shares!selectedItem
<1>4. PICK r : r = [kind |-> kind, at |-> "sent", item |-> i, live |-> TRUE, payload |-> payload, result |-> {}]
  OBVIOUS
<1>5. Job(r)
  BY <1>3, <1>4 DEF Job
<1>6. \A q \in jobs' : Job(q)
  BY <1>1, <1>4, <1>5 DEF DrawerInv
<1> QED BY <1>2, <1>6 DEF DrawerInv, TextsInv, Shares!selectedItem

\* What the user does keeps every text with its item.
LEMMA DrawerUserStep ==
  ASSUME DrawerInv,
         \/ \E i \in SharedItems : Shares!handleSelect(i)
         \/ Shares!handleCloseDrawer \/ Shares!handleUsePrompt
         \/ \E S \in SUBSET SharedItems : Shares!buildUserGalleryItems(S)
         \/ \E text \in Shares!Typed : Shares!editTitle(text) \/ Shares!editSummary(text) \/ Shares!editSharePrompt(text)
         \/ Shares!handleSummarize \/ Shares!handleGenerateSharePrompt \/ Shares!handleSaveDraft
  PROVE DrawerInv'
<1>1. ASSUME NEW i \in SharedItems, Shares!handleSelect(i) PROVE DrawerInv'
  <2>1. Shares!selectedItem' = {i} /\ Shares!Initialise({i}) /\ opened' = {i} /\ UNCHANGED <<jobs, drafts>>
    BY <1>1 DEF Shares!handleSelect, Shares!selectedItem
  <2> QED BY <2>1, InitialiseTexts DEF DrawerInv
<1>2. CASE Shares!handleCloseDrawer
  BY <1>2 DEF Shares!handleCloseDrawer, DrawerInv, TextsInv, Shares!selectedItem
<1>3. CASE Shares!handleUsePrompt
  <2>1. opened' = {} /\ UNCHANGED drafts /\ jobs' = {[q EXCEPT !.live = FALSE] : q \in jobs}
    BY <1>3 DEF Shares!handleUsePrompt
  <2>2. ASSUME NEW q \in jobs PROVE Job([q EXCEPT !.live = FALSE])
    BY DEF DrawerInv, Job
  <2> QED BY <2>1, <2>2 DEF DrawerInv, TextsInv, Shares!selectedItem
<1>4. ASSUME NEW S \in SUBSET SharedItems, Shares!buildUserGalleryItems(S) PROVE DrawerInv'
  <2>1. /\ Shares!selectedItem' = opened \cap S /\ Shares!Initialise(opened \cap S)
        /\ UNCHANGED <<opened, jobs, drafts>>
    BY <1>4 DEF Shares!buildUserGalleryItems, Shares!selectedItem
  <2>2. PICK T : T = opened \cap S
    OBVIOUS
  <2>3. TextsInv'
    BY <2>1, <2>2, InitialiseTexts DEF DrawerInv
  <2> QED BY <2>1, <2>3 DEF DrawerInv
<1>5. ASSUME NEW text \in Shares!Typed,
             Shares!editTitle(text) \/ Shares!editSummary(text) \/ Shares!editSharePrompt(text)
      PROVE DrawerInv'
  <2>1. /\ UNCHANGED <<shares, opened, jobs, drafts>>
        /\ title' \in {title, text} /\ conversationSummary' \in {conversationSummary, text}
        /\ sharePrompt' \in {sharePrompt, text}
    BY <1>5 DEF Shares!editTitle, Shares!editSummary, Shares!editSharePrompt
  <2>2. text \subseteq Shares!selectedItem
    BY DEF Shares!Typed
  <2> QED BY <2>1, <2>2 DEF DrawerInv, TextsInv, Shares!selectedItem
<1>6. Shares!canUseShareDraftActions => Shares!selectedItem # {}
  BY DEF Shares!canUseShareDraftActions
<1>7. CASE Shares!handleSummarize
  <2>1. PICK r : r = [Shares!buildGalleryTextPayload EXCEPT !.summary = {}]
    OBVIOUS
  <2>2. Shares!Send("summarize", r) /\ r.title = {} /\ r.summary = {} /\ r.share = sharePrompt
    BY <1>7, <2>1 DEF Shares!handleSummarize, Shares!buildGalleryTextPayload
  <2> QED BY <1>6, <2>2, SendStep DEF DrawerInv, TextsInv, Shares!Send
<1>8. CASE Shares!handleGenerateSharePrompt
  <2>1. PICK r : r = Shares!buildGalleryTextPayload
    OBVIOUS
  <2>2. Shares!Send("generate", r) /\ r.title = {} /\ r.summary = conversationSummary /\ r.share = sharePrompt
    BY <1>8, <2>1 DEF Shares!handleGenerateSharePrompt, Shares!buildGalleryTextPayload
  <2> QED BY <1>6, <2>2, SendStep DEF DrawerInv, TextsInv, Shares!Send
<1>9. CASE Shares!handleSaveDraft
  <2>1. PICK r : r = Shares!draftPayload
    OBVIOUS
  <2>2. /\ Shares!Send("save", r) /\ r.title \in {title, Shares!selectedItem}
        /\ r.summary = conversationSummary /\ r.share = sharePrompt
    BY <1>9, <2>1 DEF Shares!handleSaveDraft, Shares!draftPayload, Shares!buildGalleryTextPayload
  <2> QED BY <1>6, <2>2, SendStep DEF DrawerInv, TextsInv, Shares!Send
<1> QED BY <1>1, <1>2, <1>3, <1>4, <1>5, <1>7, <1>8, <1>9

\* What the server does with a request, and its answer, keep its texts.
LEMMA DrawerServerStep ==
  ASSUME DrawerInv, NEW q \in jobs, Shares!Handle(q) \/ Shares!Fail(q) \/ Shares!Answer(q)
  PROVE DrawerInv'
<1>0. Job(q)
  BY DEF DrawerInv
<1>1. ASSUME NEW r, Shares!Become(q, r), Job(r), UNCHANGED <<shares, opened, title, conversationSummary, sharePrompt>>,
             drafts' = drafts \/ drafts' = [drafts EXCEPT ![q.item] = {q.payload}]
      PROVE DrawerInv'
  <2>1. \A p \in jobs' : Job(p)
    BY <1>1 DEF DrawerInv, Shares!Become
  <2>2. Draft(q.item, q.payload)
    BY <1>0 DEF Draft, Job
  <2>3. DOMAIN drafts' = SharedItems /\ \A i \in SharedItems : \A d \in drafts'[i] : Draft(i, d)
    BY <1>1, <2>2 DEF DrawerInv
  <2> QED BY <1>1, <2>1, <2>3 DEF DrawerInv, TextsInv, Shares!selectedItem
<1>2. CASE Shares!Handle(q)
  <2>1. UNCHANGED <<shares, opened, title, conversationSummary, sharePrompt>>
    BY <1>2 DEF Shares!Handle, Shares!texts
  <2>2. CASE Shares!generate(q)
    <3>1. PICK w : w = IF q.payload.summary # {} THEN q.payload.summary ELSE {q.item}
      OBVIOUS
    <3>2. Shares!Become(q, [q EXCEPT !.at = "done", !.result = w]) /\ UNCHANGED drafts
      BY <2>2, <3>1 DEF Shares!generate
    <3>3. Job([q EXCEPT !.at = "done", !.result = w])
      BY <1>0, <3>1 DEF Job
    <3> QED BY <1>1, <2>1, <3>2, <3>3
  <2>3. CASE Shares!save_draft(q)
    <3>1. Job([q EXCEPT !.at = "done"])
      BY <1>0 DEF Job
    <3> QED BY <1>1, <2>1, <2>3, <3>1 DEF Shares!save_draft
  <2>4. CASE Shares!validate(q)
    <3>1. Job([q EXCEPT !.at = "failed"])
      BY <1>0 DEF Job
    <3> QED BY <1>1, <2>1, <2>4, <3>1 DEF Shares!validate
  <2> QED BY <1>2, <2>2, <2>3, <2>4 DEF Shares!Handle
<1>3. CASE Shares!Fail(q)
  <2>1. Job([q EXCEPT !.at = "failed"])
    BY <1>0 DEF Job
  <2> QED BY <1>1, <1>3, <2>1 DEF Shares!Fail, Shares!texts
<1>4. CASE Shares!Answer(q)
  <2>1. UNCHANGED <<shares, opened, title, drafts>> /\ jobs' = jobs \ {q}
    BY <1>4 DEF Shares!Answer
  <2>2. /\ conversationSummary' \in {conversationSummary, q.result} /\ sharePrompt' \in {sharePrompt, q.result}
        /\ Shares!selectedItem = {q.item} \/ UNCHANGED <<conversationSummary, sharePrompt>>
    BY <1>4 DEF Shares!Answer, Shares!StillShown
  <2>3. q.result \subseteq {q.item}
    BY <1>0 DEF Job
  <2>4. TextsInv'
    BY <2>1, <2>2, <2>3 DEF DrawerInv, TextsInv, Shares!selectedItem
  <2> QED BY <2>1, <2>4 DEF DrawerInv
<1> QED BY <1>2, <1>3, <1>4

(* Whatever the drawer shows when an answer comes, no draft and no request *)
(* ever holds a text that was written for another image.                   *)
THEOREM DraftsAreOfOneItem == Shares!Spec => []DraftOfOneItem
<1>1. Shares!Init => DrawerInv
  BY DEF Shares!Init, DrawerInv, TextsInv, Shares!selectedItem
<1>2. DrawerInv /\ [Shares!Next]_(Shares!vars) => DrawerInv'
  <2>1. ASSUME DrawerInv, UNCHANGED Shares!vars PROVE DrawerInv'
    BY <2>1 DEF Shares!vars, DrawerInv, TextsInv, Shares!selectedItem
  <2> QED BY <2>1, DrawerUserStep, DrawerServerStep DEF Shares!Next
<1>3. DrawerInv => DraftOfOneItem
  BY DEF DrawerInv, Job, Draft, DraftOfOneItem, Shares!DraftOfOneItem
<1> QED BY <1>1, <1>2, <1>3, PTL DEF Shares!Spec

---------------------------------------------------------------------------
(* The history of conversations: lists                                     *)

Conversations == Histories!Conversation
Lists == Histories!Histories

\* A list is a function from some conversations.
LEMMA InLists == ASSUME NEW h PROVE h \in Lists <=> (DOMAIN h \subseteq ConversationIds /\ h \in [DOMAIN h -> Conversations])
BY DEF Lists, Conversations, Histories!Histories

(* No conversation of a list was changed later than now.                   *)
Dated(h) == \A c \in DOMAIN h : h[c].stamp <= clock
Good(h) == h \in Lists /\ Dated(h)
GoodConversation(v) == v \in Conversations /\ v.stamp <= clock

\* A list in which one conversation is put, or changed.
LEMMA PutIsGood ==
  ASSUME NEW h, NEW c \in ConversationIds, NEW v, Good(h), GoodConversation(v),
         NEW r, r = [d \in DOMAIN r |-> r[d]], DOMAIN r = DOMAIN h \cup {c}, r[c] = v,
         \A d \in DOMAIN h \ {c} : r[d] = h[d]
  PROVE Good(r)
BY InLists DEF Good, Dated, GoodConversation

\* One conversation is taken out of a list.
LEMMA WithoutIsGood ==
  ASSUME NEW h, NEW c, Good(h)
  PROVE /\ Good(Histories!Without(h, c))
        /\ DOMAIN Histories!Without(h, c) = DOMAIN h \ {c}
        /\ \A d \in DOMAIN h \ {c} : Histories!Without(h, c)[d] = h[d]
BY InLists DEF Histories!Without, Good, Dated

\* A list of one conversation, and one of none.
LEMMA OnlyIsGood ==
  ASSUME NEW c \in ConversationIds, NEW v, GoodConversation(v)
  PROVE /\ Good(Histories!Only(c, v)) /\ DOMAIN Histories!Only(c, v) = {c}
        /\ Histories!Only(c, v)[c] = v
BY InLists DEF Histories!Only, Good, Dated, GoodConversation
LEMMA NoneIsGood == Good(Histories!None) /\ DOMAIN Histories!None = {}
BY InLists DEF Histories!None, Good, Dated

\* A conversation of a list is replaced by another version.
LEMMA ChangedIsGood ==
  ASSUME NEW h, NEW c \in DOMAIN h, NEW v, Good(h), GoodConversation(v)
  PROVE /\ Good([h EXCEPT ![c] = v]) /\ DOMAIN [h EXCEPT ![c] = v] = DOMAIN h
        /\ [h EXCEPT ![c] = v][c] = v /\ \A d \in DOMAIN h \ {c} : [h EXCEPT ![c] = v][d] = h[d]
BY InLists DEF Good, Dated, GoodConversation

\* Fields that are replaced by values of their types.
LEMMA FieldsReplaced ==
  ASSUME NEW S, NEW s \in S, NEW b \in BOOLEAN,
         NEW v \in [stamp : S, renamed : BOOLEAN, vote : BOOLEAN, less : BOOLEAN]
  PROVE /\ [v EXCEPT !.renamed = b, !.stamp = s] \in [stamp : S, renamed : BOOLEAN, vote : BOOLEAN, less : BOOLEAN]
        /\ [v EXCEPT !.less = b, !.stamp = s] \in [stamp : S, renamed : BOOLEAN, vote : BOOLEAN, less : BOOLEAN]
        /\ [v EXCEPT !.vote = b, !.stamp = s] \in [stamp : S, renamed : BOOLEAN, vote : BOOLEAN, less : BOOLEAN]
        /\ [v EXCEPT !.stamp = s] \in [stamp : S, renamed : BOOLEAN, vote : BOOLEAN, less : BOOLEAN]
        /\ [v EXCEPT !.vote = b] \in [stamp : S, renamed : BOOLEAN, vote : BOOLEAN, less : BOOLEAN]
        /\ [v EXCEPT !.renamed = b, !.stamp = s].stamp = s /\ [v EXCEPT !.less = b, !.stamp = s].stamp = s
        /\ [v EXCEPT !.vote = b, !.stamp = s].stamp = s /\ [v EXCEPT !.stamp = s].stamp = s
        /\ [v EXCEPT !.vote = b].stamp = v.stamp
        /\ v.vote \in BOOLEAN /\ v.renamed \in BOOLEAN /\ v.stamp \in S
OBVIOUS

\* A conversation that is stamped now, or voted on, is as good as before.
LEMMA StampedIsGood ==
  ASSUME NEW v, GoodConversation(v), clock \in 0..MaxClock, NEW b \in BOOLEAN
  PROVE /\ GoodConversation([v EXCEPT !.renamed = b, !.stamp = clock])
        /\ [v EXCEPT !.renamed = b, !.stamp = clock].stamp = clock
        /\ GoodConversation([v EXCEPT !.less = b, !.stamp = clock])
        /\ GoodConversation([v EXCEPT !.vote = b, !.stamp = clock])
        /\ GoodConversation([v EXCEPT !.stamp = clock])
        /\ GoodConversation([v EXCEPT !.vote = b])
        /\ [v EXCEPT !.vote = b].stamp = v.stamp
        /\ v.vote \in BOOLEAN /\ v.renamed \in BOOLEAN
<1>1. v \in [stamp : 0..MaxClock, renamed : BOOLEAN, vote : BOOLEAN, less : BOOLEAN] /\ v.stamp <= clock
  BY DEF GoodConversation, Conversations, Histories!Conversation
<1>2. PICK S : S = 0..MaxClock
  OBVIOUS
<1>3. v \in [stamp : S, renamed : BOOLEAN, vote : BOOLEAN, less : BOOLEAN] /\ clock \in S
  BY <1>1, <1>2
<1>4. Conversations = [stamp : S, renamed : BOOLEAN, vote : BOOLEAN, less : BOOLEAN]
  BY <1>2 DEF Conversations, Histories!Conversation
<1>5. clock <= clock
  BY <1>1
<1>6. /\ [v EXCEPT !.renamed = b, !.stamp = clock] \in Conversations
      /\ [v EXCEPT !.less = b, !.stamp = clock] \in Conversations
      /\ [v EXCEPT !.vote = b, !.stamp = clock] \in Conversations
      /\ [v EXCEPT !.stamp = clock] \in Conversations
      /\ [v EXCEPT !.vote = b] \in Conversations
  BY <1>3, <1>4, FieldsReplaced
<1>7. /\ [v EXCEPT !.renamed = b, !.stamp = clock].stamp = clock
      /\ [v EXCEPT !.less = b, !.stamp = clock].stamp = clock
      /\ [v EXCEPT !.vote = b, !.stamp = clock].stamp = clock
      /\ [v EXCEPT !.stamp = clock].stamp = clock /\ [v EXCEPT !.vote = b].stamp = v.stamp
      /\ v.vote \in BOOLEAN /\ v.renamed \in BOOLEAN
  BY <1>3, FieldsReplaced
<1> QED BY <1>1, <1>5, <1>6, <1>7 DEF GoodConversation

\* A conversation of a list is good.
LEMMA MemberIsGood == ASSUME NEW h, Good(h), NEW c \in DOMAIN h PROVE GoodConversation(h[c]) /\ c \in ConversationIds
BY InLists DEF Good, Dated, GoodConversation

\* A conversation that is renamed is stamped, the others stay.
LEMMA RenamedIsGood ==
  ASSUME NEW h, NEW c \in DOMAIN h, Good(h), clock \in 0..MaxClock,
         NEW r, r = [h EXCEPT ![c].renamed = TRUE, ![c].stamp = clock]
  PROVE /\ Good(r) /\ DOMAIN r = DOMAIN h /\ r[c].stamp = clock
        /\ \A d \in DOMAIN h \ {c} : r[d] = h[d]
<1>1. PICK v : v = [h[c] EXCEPT !.renamed = TRUE, !.stamp = clock]
  OBVIOUS
<1>2. GoodConversation(v) /\ v.stamp = clock
  BY <1>1, StampedIsGood, MemberIsGood
<1>3. r = [h EXCEPT ![c] = v]
  BY <1>1
<1>4. /\ Good([h EXCEPT ![c] = v]) /\ DOMAIN [h EXCEPT ![c] = v] = DOMAIN h
      /\ [h EXCEPT ![c] = v][c] = v /\ \A d \in DOMAIN h \ {c} : [h EXCEPT ![c] = v][d] = h[d]
  BY <1>2, ChangedIsGood
<1> QED BY <1>2, <1>3, <1>4

\* Saving keeps the later one of two versions, and loses none.
LEMMA SavedIsGood ==
  ASSUME NEW h, NEW k, Good(h), Good(k), NEW r, r = Histories!saveImageConversations(h, k)
  PROVE /\ Good(r) /\ DOMAIN r = DOMAIN h \cup DOMAIN k
        /\ \A c \in DOMAIN h : r[c].stamp >= h[c].stamp
        /\ \A c \in DOMAIN k : r[c].stamp >= k[c].stamp
<1>1. DOMAIN r = DOMAIN h \cup DOMAIN k
  BY DEF Histories!saveImageConversations
<1>2. /\ \A c \in DOMAIN h : h[c] \in Conversations /\ h[c].stamp \in Nat /\ h[c].stamp <= clock
      /\ \A c \in DOMAIN k : k[c] \in Conversations /\ k[c].stamp \in Nat /\ k[c].stamp <= clock
  BY InLists DEF Good, Dated, Conversations, Histories!Conversation
<1>3. \A c \in DOMAIN r : /\ c \notin DOMAIN k => r[c] = h[c]
                          /\ c \in DOMAIN k /\ c \notin DOMAIN h => r[c] = k[c]
                          /\ c \in DOMAIN k /\ c \in DOMAIN h =>
                               r[c] = IF k[c].stamp >= h[c].stamp THEN k[c] ELSE h[c]
  BY DEF Histories!saveImageConversations, Histories!pickLatestConversation
<1>4. \A c \in DOMAIN r : r[c] \in Conversations /\ r[c].stamp <= clock
  BY <1>1, <1>2, <1>3
<1>5. r = [c \in DOMAIN r |-> r[c]] /\ DOMAIN r \subseteq ConversationIds
  BY <1>1, InLists DEF Histories!saveImageConversations, Good
<1>6. Good(r)
  BY <1>4, <1>5, InLists DEF Good, Dated
<1> QED BY <1>1, <1>2, <1>3, <1>6

---------------------------------------------------------------------------
(* The history of conversations: what a tab does                           *)

(* What an operation saves, and what a vote takes back, are good           *)
(* conversations; but for the loaded list it is about one of them.         *)
IsOperation(o) ==
  /\ o \in Histories!Operations /\ Dated(o.items) /\ Dated(o.was)
  /\ o.then # "show" => o.id \in ConversationIds /\ (o.kind = "save" => o.id \in DOMAIN o.items)
  /\ o.then = "show" => o.kind = "save"
  /\ o.then = "vote" => o.kind = "save" /\ o.id \in DOMAIN o.was

IsCall(q) ==
  /\ {"at", "was"} \subseteq DOMAIN q /\ q.tab \in Tabs /\ Good(q.was)
  /\ q.kind # "load" => q.id \in ConversationIds
  /\ q.kind = "vote" => q.id \in DOMAIN q.was
  /\ q.vote \in BOOLEAN /\ q.renamed \in BOOLEAN

ListsInv ==
  /\ clock \in 0..MaxClock
  /\ Good(server) /\ Good(saved)
  /\ DOMAIN list = Tabs /\ \A t \in Tabs : Good(list[t])
QueueInv ==
  /\ queue \in [Tabs -> Seq(Histories!Operations)]
  /\ \A t \in Tabs : \A i \in DOMAIN queue[t] : IsOperation(queue[t][i])
SnapshotInv ==
  /\ DOMAIN snapshot = Tabs /\ DOMAIN crossed = Tabs
  /\ \A t \in Tabs : snapshot[t] # Histories!Unread => Good(snapshot[t].items) /\ queue[t] # <<>>
ViewInv == DOMAIN selected = Tabs /\ DOMAIN skip = Tabs
CallsInv == \A q \in calls : IsCall(q)
RecordsInv == ListsInv /\ QueueInv /\ SnapshotInv /\ ViewInv /\ CallsInv

(* A list that is shown is explained by an operation: what it shows was    *)
(* there, or is saved, or is renamed.                                      *)
Explains(old, shown, o) ==
  \A c \in DOMAIN shown :
    \/ /\ c \in DOMAIN old /\ shown[c].stamp = old[c].stamp
       /\ ~(o.kind = "delete" /\ o.id = c)
    \/ o.kind = "save" /\ c \in DOMAIN o.items /\ o.items[c].stamp = shown[c].stamp
    \/ o.kind = "rename" /\ o.id = c /\ c \in DOMAIN old

Edits(t, shown, o) ==
  /\ Histories!Do(t, shown, o) /\ calls' \subseteq calls
  /\ Good(shown) /\ IsOperation(o) /\ o.then # "show" /\ Explains(list[t], shown, o)

\* What is assumed of the constants of the history.
LEMMA HistoryBounds == MaxClock \in Nat
BY PagesConstantsOK DEF PagesConstantsOK, Histories!ConstantsOK

\* Saving one conversation is an edit.
LEMMA SaveEdits ==
  ASSUME RecordsInv, NEW t \in Tabs, NEW c \in ConversationIds, NEW v, GoodConversation(v),
         NEW then \in {"none", "part"}, Histories!Save(t, c, v, then), calls' \subseteq calls
  PROVE \E shown, o : Edits(t, shown, o)
<1>1. PICK h, k, o : /\ h = Histories!With(list[t], c, v) /\ k = Histories!Only(c, v)
                     /\ o = [kind |-> "save", id |-> c, items |-> k, then |-> then, was |-> Histories!None]
  OBVIOUS
<1>2. Histories!Do(t, h, o)
  BY <1>1 DEF Histories!Save, Histories!Operation
<1>3. /\ Good(h) /\ DOMAIN h = DOMAIN list[t] \cup {c} /\ h[c] = v
      /\ \A d \in DOMAIN list[t] \ {c} : h[d] = list[t][d]
  <2>1. Good(list[t])
    BY DEF RecordsInv, ListsInv
  <2>2. /\ h = [d \in DOMAIN h |-> h[d]] /\ DOMAIN h = DOMAIN list[t] \cup {c} /\ h[c] = v
        /\ \A d \in DOMAIN list[t] \ {c} : h[d] = list[t][d]
    BY <1>1 DEF Histories!With
  <2> QED BY <2>1, <2>2, PutIsGood
<1>4. Good(k) /\ DOMAIN k = {c} /\ k[c] = v /\ Good(Histories!None)
  BY <1>1, OnlyIsGood, NoneIsGood
<1>5. IsOperation(o)
  BY <1>1, <1>4 DEF IsOperation, Histories!Operations, Good, Lists
<1>6. Explains(list[t], h, o)
  BY <1>1, <1>3, <1>4 DEF Explains
<1> QED BY <1>1, <1>2, <1>3, <1>5, <1>6 DEF Edits

\* A vote saves the conversation as it is shown with it.
LEMMA VoteEdits ==
  ASSUME RecordsInv, NEW t \in Tabs, NEW c \in ConversationIds, Histories!handleImageFeedback(t, c)
  PROVE \E shown, o : Edits(t, shown, o)
<1>1. PICK v : v = [list[t][c] EXCEPT !.vote = ~@]
  OBVIOUS
<1>2. PICK h, k, w, o :
        /\ h = Histories!With(list[t], c, v) /\ k = Histories!Only(c, v) /\ w = Histories!Only(c, list[t][c])
        /\ o = [kind |-> "save", id |-> c, items |-> k, then |-> "vote", was |-> w]
  OBVIOUS
<1>3. c \in DOMAIN list[t] /\ Histories!Do(t, h, o) /\ UNCHANGED calls
  BY <1>1, <1>2 DEF Histories!handleImageFeedback, Histories!Operation
<1>4. GoodConversation(list[t][c])
  BY <1>3, MemberIsGood DEF RecordsInv, ListsInv
<1>5. PICK b \in BOOLEAN : b = ~list[t][c].vote
  OBVIOUS
<1>6. GoodConversation(v)
  BY <1>1, <1>4, <1>5, StampedIsGood DEF RecordsInv, ListsInv
<1>7. /\ Good(h) /\ DOMAIN h = DOMAIN list[t] \cup {c} /\ h[c] = v
      /\ \A d \in DOMAIN list[t] \ {c} : h[d] = list[t][d]
  <2>1. Good(list[t])
    BY DEF RecordsInv, ListsInv
  <2>2. /\ h = [d \in DOMAIN h |-> h[d]] /\ DOMAIN h = DOMAIN list[t] \cup {c} /\ h[c] = v
        /\ \A d \in DOMAIN list[t] \ {c} : h[d] = list[t][d]
    BY <1>2 DEF Histories!With
  <2> QED BY <1>6, <2>1, <2>2, PutIsGood
<1>8. Good(k) /\ DOMAIN k = {c} /\ k[c] = v /\ Good(w) /\ DOMAIN w = {c}
  BY <1>2, <1>4, <1>6, OnlyIsGood
<1>9. IsOperation(o)
  BY <1>2, <1>8 DEF IsOperation, Histories!Operations, Good, Lists
<1>10. Explains(list[t], h, o)
  BY <1>2, <1>7, <1>8 DEF Explains
<1> QED BY <1>3, <1>7, <1>9, <1>10, <1>2 DEF Edits

\* What the user does to a conversation is an edit.
LEMMA UserEdits ==
  ASSUME RecordsInv, NEW t \in Tabs, NEW c \in ConversationIds,
         \/ Histories!handleRenameConversation(t, c) \/ Histories!handleDeleteConversation(t, c)
         \/ Histories!handleDeleteTurnPart(t, c) \/ Histories!handleDismissErrors(t, c)
         \/ Histories!handleImageFeedback(t, c)
  PROVE \E shown, o : Edits(t, shown, o)
<1>1. Good(list[t]) /\ clock \in 0..MaxClock
  BY DEF RecordsInv, ListsInv
<1>2. ASSUME Histories!handleDeleteConversation(t, c) PROVE \E shown, o : Edits(t, shown, o)
  <2>1. PICK h, o : /\ h = Histories!Without(list[t], c)
                    /\ o = [kind |-> "delete", id |-> c, items |-> Histories!None, then |-> "delete",
                            was |-> Histories!None]
    OBVIOUS
  <2>2. Histories!Do(t, h, o) /\ UNCHANGED calls
    BY <1>2, <2>1 DEF Histories!handleDeleteConversation, Histories!Operation
  <2>3. Good(h) /\ DOMAIN h = DOMAIN list[t] \ {c} /\ \A d \in DOMAIN list[t] \ {c} : h[d] = list[t][d]
    BY <1>1, <2>1, WithoutIsGood
  <2>4. IsOperation(o)
    BY <2>1, NoneIsGood DEF IsOperation, Histories!Operations, Good, Lists
  <2>5. Explains(list[t], h, o)
    BY <2>1, <2>3 DEF Explains
  <2> QED BY <2>1, <2>2, <2>3, <2>4, <2>5 DEF Edits
<1>3. CASE Histories!handleRenameConversation(t, c)
  <2>1. PICK h, o : /\ h = [list[t] EXCEPT ![c].renamed = TRUE, ![c].stamp = clock]
                    /\ o = [kind |-> "rename", id |-> c, items |-> Histories!None, then |-> "upsert",
                            was |-> Histories!None]
    OBVIOUS
  <2>2. c \in DOMAIN list[t] /\ Histories!Do(t, h, o) /\ UNCHANGED calls
    BY <1>3, <2>1 DEF Histories!handleRenameConversation, Histories!Rows, Histories!Operation
  <2>3. Good(h) /\ DOMAIN h = DOMAIN list[t] /\ \A d \in DOMAIN list[t] \ {c} : h[d] = list[t][d]
    <3>1. PICK l : l = list[t]
      OBVIOUS
    <3>2. Good(l) /\ c \in DOMAIN l /\ h = [l EXCEPT ![c].renamed = TRUE, ![c].stamp = clock]
      BY <1>1, <2>1, <2>2, <3>1
    <3>3. Good(h) /\ DOMAIN h = DOMAIN l /\ \A d \in DOMAIN l \ {c} : h[d] = l[d]
      BY <1>1, <3>2, RenamedIsGood, Zenon
    <3> QED BY <3>1, <3>3
  <2>4. IsOperation(o)
    BY <2>1, NoneIsGood DEF IsOperation, Histories!Operations, Good, Lists
  <2>5. Explains(list[t], h, o)
    BY <2>1, <2>2, <2>3 DEF Explains
  <2> QED BY <2>1, <2>2, <2>3, <2>4, <2>5 DEF Edits
<1>4. CASE Histories!handleDismissErrors(t, c)
  <2>1. PICK v : v = [list[t][c] EXCEPT !.stamp = clock]
    OBVIOUS
  <2>2. c \in DOMAIN list[t] /\ Histories!Save(t, c, v, "none") /\ UNCHANGED calls
    BY <1>4, <2>1 DEF Histories!handleDismissErrors
  <2>3. GoodConversation(v)
    BY <1>1, <2>1, <2>2, MemberIsGood, StampedIsGood
  <2> QED BY <2>2, <2>3, SaveEdits
<1>5. CASE Histories!handleDeleteTurnPart(t, c)
  <2>1. CASE Histories!handleDeleteConversation(t, c)
    BY <1>2, <2>1
  <2>2. CASE ~Histories!handleDeleteConversation(t, c)
    <3>1. PICK v : v = [list[t][c] EXCEPT !.less = TRUE, !.stamp = clock]
      OBVIOUS
    <3>2. c \in DOMAIN list[t] /\ Histories!Save(t, c, v, "part") /\ UNCHANGED calls
      BY <1>5, <2>2, <3>1 DEF Histories!handleDeleteTurnPart
    <3>3. GoodConversation(v)
      BY <1>1, <3>1, <3>2, MemberIsGood, StampedIsGood
    <3> QED BY <3>2, <3>3, SaveEdits
  <2> QED BY <2>1, <2>2
<1> QED BY <1>2, <1>3, <1>4, <1>5, VoteEdits

\* So is the answer to a vote.
LEMMA AnswerEdits ==
  ASSUME RecordsInv, NEW q \in calls, Histories!VoteAnswered(q)
  PROVE \E shown, o : Edits(q.tab, shown, o)
<1>1. PICK v : v = IF q.id \notin DOMAIN list[q.tab] THEN q.was[q.id]
                   ELSE [list[q.tab][q.id] EXCEPT !.vote = IF q.at = "done" THEN q.vote ELSE q.was[q.id].vote]
  OBVIOUS
<1>2. q.kind = "vote" /\ Histories!Save(q.tab, q.id, v, "none") /\ calls' \subseteq calls
  BY <1>1 DEF Histories!VoteAnswered
<1>3. /\ q.tab \in Tabs /\ q.id \in ConversationIds /\ q.id \in DOMAIN q.was /\ Good(q.was) /\ q.vote \in BOOLEAN
      /\ Good(list[q.tab]) /\ clock \in 0..MaxClock
  BY <1>2 DEF RecordsInv, CallsInv, IsCall, ListsInv
<1>4. GoodConversation(q.was[q.id]) /\ q.was[q.id].vote \in BOOLEAN
  BY <1>3, MemberIsGood, StampedIsGood
<1>5. PICK b \in BOOLEAN : b = IF q.at = "done" THEN q.vote ELSE q.was[q.id].vote
  BY <1>3, <1>4
<1>6. GoodConversation(v)
  <2>1. CASE q.id \notin DOMAIN list[q.tab]
    BY <1>1, <1>4, <2>1
  <2>2. CASE q.id \in DOMAIN list[q.tab]
    <3>1. v = [list[q.tab][q.id] EXCEPT !.vote = b]
      BY <1>1, <1>5, <2>2
    <3> QED BY <1>3, <2>2, <3>1, MemberIsGood, StampedIsGood
  <2> QED BY <2>1, <2>2
<1> QED BY <1>2, <1>3, <1>6, SaveEdits

---------------------------------------------------------------------------
(* The history of conversations: its records                               *)

\* What was good stays so while the clock goes on.
LEMMA LaterIsGood ==
  ASSUME clock \in 0..MaxClock, clock' \in {clock, clock + 1}, NEW h, Good(h) PROVE Good(h)'
<1>1. \A c \in DOMAIN h : h[c].stamp \in Nat
  BY InLists DEF Good, Conversations, Histories!Conversation
<1> QED BY <1>1 DEF Good, Dated, Lists, Histories!Histories, Histories!Conversation

\* So do operations and calls.
LEMMA LaterOperation ==
  ASSUME clock \in 0..MaxClock, clock' \in {clock, clock + 1}, NEW o, IsOperation(o) PROVE IsOperation(o)'
<1>1. PICK h, k : h = o.items /\ k = o.was
  OBVIOUS
<1>2. Good(h) /\ Good(k)
  BY <1>1 DEF IsOperation, Good, Lists, Histories!Operations
<1>3. Good(h)' /\ Good(k)'
  BY <1>2, LaterIsGood
<1> QED BY <1>1, <1>3 DEF IsOperation, Good, Dated, Histories!Operations, Histories!Histories, Histories!Conversation
LEMMA LaterCall ==
  ASSUME clock \in 0..MaxClock, clock' \in {clock, clock + 1}, NEW q, IsCall(q) PROVE IsCall(q)'
<1>1. PICK h : h = q.was
  OBVIOUS
<1>2. Good(h)'
  BY <1>1, LaterIsGood DEF IsCall
<1> QED BY <1>1, <1>2 DEF IsCall, Good, Dated

\* Nothing changes but the clock, or the calls, or what is selected.
LEMMA ListsStay ==
  ASSUME ListsInv, clock' \in 0..MaxClock, clock' \in {clock, clock + 1}, UNCHANGED <<server, saved, list>>
  PROVE ListsInv'
<1>1. PICK h, k, l : h = server /\ k = saved /\ l = list
  OBVIOUS
<1>2. Good(h)' /\ Good(k)' /\ \A t \in Tabs : Good(l[t])'
  BY <1>1, LaterIsGood DEF ListsInv
<1> QED BY <1>1, <1>2 DEF ListsInv, Good, Dated
LEMMA QueueStays ==
  ASSUME QueueInv, clock \in 0..MaxClock, clock' \in {clock, clock + 1}, UNCHANGED queue PROVE QueueInv'
<1>1. PICK l : l = queue
  OBVIOUS
<1>2. \A t \in Tabs : \A i \in DOMAIN l[t] : IsOperation(l[t][i])'
  BY <1>1, LaterOperation DEF QueueInv
<1>3. queue' \in [Tabs -> Seq(Histories!Operations')]
  BY DEF QueueInv, Histories!Operations, Histories!Histories, Histories!Conversation
<1>4. queue' = l
  BY <1>1
<1> QED BY <1>2, <1>3, <1>4 DEF QueueInv
LEMMA SnapshotStays ==
  ASSUME SnapshotInv, clock \in 0..MaxClock, clock' \in {clock, clock + 1},
         UNCHANGED <<snapshot, crossed>>, \A t \in Tabs : queue[t] # <<>> => queue'[t] # <<>>
  PROVE SnapshotInv'
<1>1. PICK l : l = snapshot
  OBVIOUS
<1>2. \A t \in Tabs : l[t] # Histories!Unread => Good(l[t].items)'
  BY <1>1, LaterIsGood DEF SnapshotInv
<1> QED BY <1>1, <1>2 DEF SnapshotInv, Good, Dated, Histories!Unread
LEMMA CallsStay ==
  ASSUME CallsInv, clock \in 0..MaxClock, clock' \in {clock, clock + 1}, calls' \subseteq calls PROVE CallsInv'
<1>1. \A q \in calls' : IsCall(q)'
  BY LaterCall DEF CallsInv
<1> QED BY <1>1 DEF CallsInv, IsCall, Good, Dated

\* An operation is appended to the queue of one tab.
LEMMA AppendStep ==
  ASSUME QueueInv, NEW t \in Tabs, NEW o, IsOperation(o), queue' = [queue EXCEPT ![t] = Append(@, o)],
         UNCHANGED clock
  PROVE /\ QueueInv'
        /\ \A u \in Tabs : queue[u] # <<>> => queue'[u] # <<>>
        /\ queue'[t] # <<>>
<1>1. /\ queue'[t] = Append(queue[t], o) /\ \A u \in Tabs \ {t} : queue'[u] = queue[u]
      /\ DOMAIN queue' = Tabs /\ queue' = [u \in Tabs |-> queue'[u]]
  BY DEF QueueInv
<1>2. o \in Histories!Operations
  BY DEF IsOperation
<1>3. queue[t] \in Seq(Histories!Operations)
  BY DEF QueueInv
<1>4. PICK s : s = queue[t]
  OBVIOUS
<1>5. /\ Append(s, o) \in Seq(Histories!Operations) /\ Append(s, o) # <<>>
      /\ \A i \in DOMAIN Append(s, o) : (i \in DOMAIN s /\ Append(s, o)[i] = s[i]) \/ Append(s, o)[i] = o
  BY <1>2, <1>3, <1>4
<1>6. \A u \in Tabs : queue'[u] \in Seq(Histories!Operations)
  BY <1>1, <1>4, <1>5 DEF QueueInv
<1>7. \A i \in DOMAIN queue'[t] : IsOperation(queue'[t][i])
  BY <1>1, <1>4, <1>5 DEF QueueInv
<1>8. \A u \in Tabs : \A i \in DOMAIN queue'[u] : IsOperation(queue'[u][i])
  BY <1>1, <1>7 DEF QueueInv
<1>9. queue' \in [Tabs -> Seq(Histories!Operations)]
  BY <1>1, <1>6
<1>10. PICK n : n = queue'
  OBVIOUS
<1>11. \A u \in Tabs : \A i \in DOMAIN n[u] : IsOperation(n[u][i])
  BY <1>8, <1>10
<1>12. \A u \in Tabs : \A i \in DOMAIN n[u] : IsOperation(n[u][i])'
  BY <1>11 DEF IsOperation, Dated, Histories!Operations, Histories!Histories, Histories!Conversation
<1>13. queue' \in [Tabs -> Seq(Histories!Operations')]
  BY <1>9 DEF Histories!Operations, Histories!Histories, Histories!Conversation
<1>14. QueueInv'
  BY <1>10, <1>12, <1>13 DEF QueueInv
<1> QED BY <1>1, <1>4, <1>5, <1>14

\* An edit keeps every record good.
LEMMA EditKeepsRecords ==
  ASSUME RecordsInv, NEW t \in Tabs, NEW shown, NEW o, Edits(t, shown, o) PROVE RecordsInv'
<1>1. /\ list' = [list EXCEPT ![t] = shown] /\ queue' = [queue EXCEPT ![t] = Append(@, o)]
      /\ UNCHANGED <<server, saved, snapshot, crossed, skip, clock>>
      /\ Good(shown) /\ IsOperation(o) /\ calls' \subseteq calls
  BY DEF Edits, Histories!Do, Histories!Show
<1>2. DOMAIN selected' = Tabs
  BY DEF Edits, Histories!Do, Histories!Show, RecordsInv, ViewInv
<1>3. DOMAIN list' = Tabs /\ \A u \in Tabs : list'[u] = shown \/ list'[u] = list[u]
  BY <1>1 DEF RecordsInv, ListsInv
<1>4. ListsInv'
  BY <1>1, <1>3 DEF RecordsInv, ListsInv, Good, Dated
<1>5. QueueInv' /\ \A u \in Tabs : queue[u] # <<>> => queue'[u] # <<>>
  BY <1>1, AppendStep DEF RecordsInv
<1>6. SnapshotInv'
  BY <1>1, <1>5, SnapshotStays DEF RecordsInv, ListsInv
<1>7. CallsInv'
  BY <1>1, CallsStay DEF RecordsInv, ListsInv
<1> QED BY <1>1, <1>2, <1>4, <1>5, <1>6, <1>7 DEF RecordsInv, ViewInv

\* What an operation sends is a call of its tab that does not load.
LEMMA CallsOfAreGood ==
  ASSUME NEW t \in Tabs, NEW o, IsOperation(o), NEW q \in Histories!CallsOf(t, o)
  PROVE IsCall(q) /\ q.tab = t /\ q.kind # "load"
<1>1. /\ o.kind \in {"save", "rename", "delete"} /\ o.then \in {"none", "upsert", "part", "delete", "vote", "show"}
      /\ o.items \in Lists /\ o.was \in Lists
  BY DEF IsOperation, Histories!Operations, Lists
<1>2. o.then # "show" /\ o.then # "none"
  BY DEF Histories!CallsOf
<1>3. o.id \in ConversationIds /\ (o.kind = "save" => o.id \in DOMAIN o.items) /\ Good(o.was)
  BY <1>1, <1>2 DEF IsOperation, Good
<1>4. o.kind = "save" => o.items[o.id].renamed \in BOOLEAN /\ o.items[o.id].vote \in BOOLEAN
  BY <1>1, <1>3, InLists DEF Conversations, Histories!Conversation
<1>5. PICK n : n = (IF o.kind = "save" THEN o.items[o.id].renamed ELSE TRUE)
  OBVIOUS
<1>6. n \in BOOLEAN
  BY <1>4, <1>5
<1>7. PICK w : w = o.items[o.id].vote
  OBVIOUS
<1>8. o.then = "vote" => o.kind = "save" /\ w \in BOOLEAN /\ o.id \in DOMAIN o.was
  BY <1>4, <1>7 DEF IsOperation
<1>9. \E kind \in {"upsert", "delete", "part", "vote"}, vote \in {FALSE, w} :
        /\ q = [kind |-> kind, tab |-> t, id |-> o.id, at |-> "sent", renamed |-> n, vote |-> vote, was |-> o.was]
        /\ kind = "vote" => o.then = "vote"
        /\ kind # "vote" => vote = FALSE
  BY <1>1, <1>2, <1>5, <1>7 DEF Histories!CallsOf
<1>10. PICK kind \in {"upsert", "delete", "part", "vote"}, vote \in {FALSE, w} :
        /\ q = [kind |-> kind, tab |-> t, id |-> o.id, at |-> "sent", renamed |-> n, vote |-> vote, was |-> o.was]
        /\ kind = "vote" => o.then = "vote"
        /\ kind # "vote" => vote = FALSE
  BY <1>9
<1>11. vote \in BOOLEAN
  BY <1>8, <1>10
<1>12. q.kind = kind /\ q.tab = t /\ q.id = o.id /\ q.renamed = n /\ q.vote = vote /\ q.was = o.was
       /\ {"at", "was"} \subseteq DOMAIN q
  BY <1>10
<1> QED BY <1>3, <1>6, <1>8, <1>10, <1>11, <1>12 DEF IsCall

(* What an operation should make of a list: it loses nothing but what it   *)
(* deletes, and brings what it saves or renames.                           *)
Follows(h, o, r) ==
  /\ Good(r)
  /\ \A c \in DOMAIN h : IF c \in DOMAIN r THEN r[c].stamp >= h[c].stamp ELSE o.kind = "delete" /\ o.id = c
  /\ o.kind = "save" => \A c \in DOMAIN o.items : c \in DOMAIN r /\ r[c].stamp >= o.items[c].stamp
  /\ \A c \in DOMAIN h : o.kind = "rename" /\ o.id = c => c \in DOMAIN r /\ r[c].stamp = clock

\* What an operation makes of a list is what it should.
LEMMA WrittenIsGood ==
  ASSUME clock \in 0..MaxClock, NEW h, Good(h), NEW o, IsOperation(o), NEW r, r = Histories!Written(h, o)
  PROVE Follows(h, o, r)
<1>1. /\ o.kind \in {"save", "rename", "delete"} /\ Good(o.items)
      /\ \A c \in DOMAIN h : h[c].stamp \in Nat /\ h[c].stamp <= clock
  BY InLists DEF IsOperation, Histories!Operations, Good, Dated, Lists, Conversations, Histories!Conversation
<1>2. CASE o.kind = "save"
  <2>1. PICK k : k = o.items
    OBVIOUS
  <2>2. r = Histories!saveImageConversations(h, k)
    BY <1>2, <2>1 DEF Histories!Written
  <2>3. /\ Good(r) /\ DOMAIN r = DOMAIN h \cup DOMAIN k
        /\ \A c \in DOMAIN h : r[c].stamp >= h[c].stamp
        /\ \A c \in DOMAIN k : r[c].stamp >= k[c].stamp
    BY <1>1, <2>1, <2>2, SavedIsGood, Zenon
  <2> QED BY <1>2, <2>1, <2>3 DEF Follows
<1>3. CASE o.kind = "delete"
  <2>1. r = Histories!Without(h, o.id)
    BY <1>3 DEF Histories!Written, Histories!deleteImageConversation
  <2>2. PICK c : c = o.id
    OBVIOUS
  <2>3. Good(r) /\ DOMAIN r = DOMAIN h \ {c} /\ \A d \in DOMAIN h \ {c} : r[d] = h[d]
    BY <2>1, <2>2, InLists DEF Histories!Without, Good, Dated
  <2> QED BY <1>1, <1>3, <2>2, <2>3 DEF Follows
<1>4. CASE o.kind = "rename"
  <2>1. r = Histories!renameImageConversation(h, o.id)
    BY <1>4 DEF Histories!Written
  <2>2. PICK c : c = o.id
    OBVIOUS
  <2>3. CASE c \notin DOMAIN h
    <3>1. r = h
      BY <2>1, <2>2, <2>3 DEF Histories!renameImageConversation
    <3> QED BY <1>1, <1>4, <2>2, <2>3, <3>1 DEF Follows
  <2>4. CASE c \in DOMAIN h
    <3>1. r = [h EXCEPT ![c].renamed = TRUE, ![c].stamp = clock]
      BY <2>1, <2>2, <2>4 DEF Histories!renameImageConversation
    <3>2. Good(r) /\ DOMAIN r = DOMAIN h /\ r[c].stamp = clock /\ \A d \in DOMAIN h \ {c} : r[d] = h[d]
      BY <2>4, <3>1, RenamedIsGood, Zenon
    <3> QED BY <1>1, <1>4, <2>2, <2>4, <3>2 DEF Follows
  <2> QED BY <2>3, <2>4
<1> QED BY <1>1, <1>2, <1>3, <1>4

\* The first operation of a queue that is not empty.
LEMMA HeadIsOperation ==
  ASSUME RecordsInv, NEW t \in Tabs, queue[t] # <<>>, NEW o, o = Head(queue[t]), NEW n, n = Tail(queue[t])
  PROVE /\ IsOperation(o) /\ o = queue[t][1] /\ 1 \in DOMAIN queue[t]
        /\ n \in Seq(Histories!Operations)
        /\ Len(n) = Len(queue[t]) - 1 /\ Len(n) \in Nat
        /\ \A i \in DOMAIN n : i + 1 \in DOMAIN queue[t] /\ n[i] = queue[t][i + 1] /\ IsOperation(n[i])
<1>1. PICK s : s = queue[t]
  OBVIOUS
<1>2. s \in Seq(Histories!Operations) /\ s # <<>> /\ o = Head(s) /\ n = Tail(s)
      /\ \A i \in DOMAIN s : IsOperation(s[i])
  BY <1>1 DEF RecordsInv, QueueInv
<1>3. o = s[1] /\ 1 \in DOMAIN s /\ n \in Seq(Histories!Operations) /\ Len(n) = Len(s) - 1 /\ Len(n) \in Nat
  <2>1. PICK S : S = Histories!Operations
    OBVIOUS
  <2>2. s \in Seq(S) /\ Len(s) \in Nat /\ Len(s) # 0
    BY <1>2, <2>1
  <2>3. o = s[1] /\ 1 \in DOMAIN s
    BY <1>2, <2>2
  <2>4. n \in Seq(S) /\ Len(n) = Len(s) - 1 /\ Len(n) \in Nat
    <3>1. Tail(s) \in Seq(S) /\ Len(Tail(s)) = Len(s) - 1
      BY <1>2, <2>2, HeadTailProperties, Zenon
    <3>2. n = Tail(s)
      BY <1>2
    <3>3. n \in Seq(S) /\ Len(n) = Len(s) - 1
      BY <3>1, <3>2, Zenon
    <3> QED BY <2>2, <3>3
  <2> QED BY <2>1, <2>3, <2>4
<1>4. \A i \in DOMAIN n : i + 1 \in DOMAIN s /\ n[i] = s[i + 1]
  BY <1>2, <1>3
<1> QED BY <1>1, <1>2, <1>3, <1>4

\* Writing what the first operation makes of what was read.
LEMMA WriteKeepsRecords ==
  ASSUME RecordsInv, NEW t \in Tabs, Histories!WriteStore(t) PROVE RecordsInv'
<1>1. /\ snapshot[t] # Histories!Unread
      /\ saved' = Histories!Written(snapshot[t].items, Head(queue[t]))
      /\ queue' = [queue EXCEPT ![t] = Tail(@)]
      /\ snapshot' = [snapshot EXCEPT ![t] = Histories!Unread]
      /\ calls' = calls \cup Histories!CallsOf(t, Head(queue[t]))
      /\ UNCHANGED <<server, clock>>
  BY DEF Histories!WriteStore
<1>2. DOMAIN crossed' = Tabs
  BY DEF Histories!WriteStore
<1>3. PICK h, o, n, r : h = snapshot[t].items /\ o = Head(queue[t]) /\ n = Tail(queue[t]) /\ r = saved'
  OBVIOUS
<1>4. queue[t] # <<>> /\ Good(h)
  BY <1>1, <1>3 DEF RecordsInv, SnapshotInv
<1>5. /\ IsOperation(o) /\ n \in Seq(Histories!Operations)
      /\ \A i \in DOMAIN n : IsOperation(n[i])
  BY <1>3, <1>4, HeadIsOperation
<1>6. clock \in 0..MaxClock
  BY DEF RecordsInv, ListsInv
<1>7. Good(r)
  <2>1. r = Histories!Written(h, o)
    BY <1>1, <1>3
  <2>2. Follows(h, o, r)
    BY <1>4, <1>5, <1>6, <2>1, WrittenIsGood
  <2> QED BY <2>2 DEF Follows
<1>8. \/ UNCHANGED <<list, selected, skip>>
      \/ Good(o.items) /\ Histories!Restore(t, o.items)
  <2>1. Good(o.items)
    BY <1>5 DEF IsOperation, Good, Lists, Histories!Operations
  <2> QED BY <1>3, <2>1 DEF Histories!WriteStore, Histories!view
<1>9. /\ DOMAIN selected' = Tabs /\ DOMAIN skip' = Tabs /\ DOMAIN list' = Tabs
      /\ \A u \in Tabs : list'[u] = list[u] \/ Good(list'[u])
  <2>1. CASE UNCHANGED <<list, selected, skip>>
    <3>1. DOMAIN selected' = Tabs /\ DOMAIN skip' = Tabs /\ DOMAIN list' = Tabs
      BY <2>1 DEF RecordsInv, ViewInv, ListsInv
    <3> QED BY <2>1, <3>1
  <2>2. CASE Good(o.items) /\ Histories!Restore(t, o.items)
    <3>1. PICK k : k = o.items
      OBVIOUS
    <3>2. list' = [list EXCEPT ![t] = k] /\ DOMAIN skip' = Tabs
      BY <2>2, <3>1 DEF Histories!Restore, RecordsInv, ViewInv
    <3>3. DOMAIN selected' = Tabs
      BY <2>2 DEF Histories!Restore, RecordsInv, ViewInv
    <3>4. DOMAIN list' = Tabs /\ \A u \in Tabs : list'[u] = list[u] \/ list'[u] = k
      BY <3>2 DEF RecordsInv, ListsInv
    <3>5. Good(k)
      BY <2>2, <3>1
    <3> QED BY <3>2, <3>3, <3>4, <3>5
  <2> QED BY <1>8, <2>1, <2>2
<1>10. ListsInv'
  BY <1>1, <1>3, <1>7, <1>9 DEF RecordsInv, ListsInv, Good, Dated
<1>11. QueueInv'
  <2>1. PICK m : m = queue'
    OBVIOUS
  <2>2. m[t] = n /\ DOMAIN m = Tabs /\ (\A u \in Tabs \ {t} : m[u] = queue[u]) /\ m = [u \in Tabs |-> m[u]]
    BY <1>1, <1>3, <2>1 DEF RecordsInv, QueueInv
  <2>3. \A u \in Tabs : m[u] \in Seq(Histories!Operations) /\ \A i \in DOMAIN m[u] : IsOperation(m[u][i])
    BY <1>5, <2>2 DEF RecordsInv, QueueInv
  <2>4. m \in [Tabs -> Seq(Histories!Operations)]
    BY <2>2, <2>3
  <2>5. \A u \in Tabs : \A i \in DOMAIN m[u] : IsOperation(m[u][i])'
    BY <1>1, <2>3 DEF IsOperation, Dated, Histories!Operations, Histories!Histories, Histories!Conversation
  <2>6. queue' \in [Tabs -> Seq(Histories!Operations')]
    BY <2>1, <2>4 DEF Histories!Operations, Histories!Histories, Histories!Conversation
  <2> QED BY <2>1, <2>5, <2>6 DEF QueueInv
<1>12. SnapshotInv'
  <2>1. \A u \in Tabs : snapshot'[u] # Histories!Unread => snapshot'[u] = snapshot[u] /\ queue'[u] = queue[u]
    BY <1>1 DEF RecordsInv, SnapshotInv, QueueInv
  <2>2. \A u \in Tabs : snapshot'[u] # Histories!Unread => Good(snapshot[u].items) /\ queue[u] # <<>>
    BY <2>1 DEF RecordsInv, SnapshotInv
  <2>3. DOMAIN snapshot' = Tabs
    BY <1>1 DEF RecordsInv, SnapshotInv
  <2> QED BY <1>1, <1>2, <2>1, <2>2, <2>3 DEF SnapshotInv, Good, Dated, Histories!Unread
<1>13. CallsInv'
  <2>1. \A q \in calls' : IsCall(q)
    BY <1>1, <1>3, <1>5, CallsOfAreGood DEF RecordsInv, CallsInv
  <2> QED BY <1>1, <2>1 DEF CallsInv, IsCall, Good, Dated
<1> QED BY <1>9, <1>10, <1>11, <1>12, <1>13 DEF RecordsInv, ViewInv

\* A list is read from the store.
LEMMA ReadKeepsRecords ==
  ASSUME RecordsInv, NEW t \in Tabs, Histories!readStoredImageConversations(t) PROVE RecordsInv'
<1>1. /\ queue[t] # <<>> /\ snapshot' = [snapshot EXCEPT ![t] = [read |-> TRUE, items |-> saved]]
      /\ crossed' = [crossed EXCEPT ![t] = FALSE]
      /\ UNCHANGED <<server, saved, list, queue, selected, skip, calls, clock>>
  BY DEF Histories!readStoredImageConversations, Histories!view
<1>2. \A u \in Tabs : \/ snapshot'[u] = snapshot[u]
                      \/ u = t /\ snapshot'[u].items = saved
  BY <1>1 DEF RecordsInv, SnapshotInv
<1>3. \A u \in Tabs : snapshot'[u] # Histories!Unread => Good(snapshot'[u].items) /\ queue[u] # <<>>
  BY <1>1, <1>2 DEF RecordsInv, SnapshotInv, ListsInv
<1>4. SnapshotInv'
  BY <1>1, <1>3 DEF RecordsInv, SnapshotInv, Good, Dated, Histories!Unread
<1> QED BY <1>1, <1>4, ListsStay, QueueStays, CallsStay DEF RecordsInv, ListsInv, ViewInv

\* Calls are taken away, and one that is good may come.
LEMMA CallsStep ==
  ASSUME CallsInv, UNCHANGED clock, clock \in 0..MaxClock, NEW r, IsCall(r), calls' \subseteq calls \cup {r}
  PROVE CallsInv'
<1>1. \A q \in calls' : IsCall(q)
  BY DEF CallsInv
<1> QED BY <1>1 DEF CallsInv, IsCall, Good, Dated

\* What the server does with a call keeps every record good.
LEMMA ServerKeepsRecords ==
  ASSUME RecordsInv, NEW q \in calls, Histories!Handle(q) \/ Histories!Fail(q) PROVE RecordsInv'
<1>1. /\ UNCHANGED <<saved, list, queue, snapshot, crossed, selected, skip, clock>>
      /\ clock \in 0..MaxClock /\ Good(server) /\ IsCall(q)
  BY DEF Histories!Handle, Histories!Fail, Histories!view, RecordsInv, ListsInv, CallsInv
<1>2. PICK s : s = server
  OBVIOUS
<1>3. PICK f, d, a, b :
        /\ f = [q EXCEPT !.at = "failed"] /\ d = [q EXCEPT !.at = "done"]
        /\ a = [q EXCEPT !.at = "done", !.was = s]
        /\ b = q
  OBVIOUS
<1>4. IsCall(f) /\ IsCall(d)
  BY <1>1, <1>3 DEF IsCall
<1>5. q.kind = "load" => IsCall(a)
  BY <1>1, <1>2, <1>3 DEF IsCall
<1>6. CallsInv'
  <2>1. \E r \in {f, d, a, b} : IsCall(r) /\ calls' \subseteq calls \cup {r}
    BY <1>1, <1>2, <1>3, <1>4, <1>5 DEF Histories!Handle, Histories!Fail
  <2> QED BY <1>1, <2>1, CallsStep DEF RecordsInv
<1>7. Good(server')
  <2>1. CASE Histories!Fail(q)
    BY <1>1, <2>1 DEF Histories!Fail
  <2>2. CASE Histories!Handle(q)
    <3>1. server' = Histories!UpdatedServer(q)
      BY <2>2 DEF Histories!Handle
    <3>2. CASE q.kind = "upsert"
      <4>1. PICK c, n, F, v : /\ c = q.id /\ n = q.renamed /\ F = Histories!First
                        /\ v = IF c \in DOMAIN s THEN [s[c] EXCEPT !.renamed = n, !.stamp = clock]
                               ELSE [F EXCEPT !.renamed = n, !.stamp = clock]
        OBVIOUS
      <4>2. server' = Histories!With(s, c, v)
        BY <1>2, <3>1, <3>2, <4>1 DEF Histories!UpdatedServer, Histories!Upserted
      <4>3. c \in ConversationIds /\ n \in BOOLEAN
        BY <1>1, <3>2, <4>1 DEF IsCall
      <4>4. GoodConversation(F)
        <5>1. F.stamp = 0 /\ F \in [stamp : {0}, renamed : BOOLEAN, vote : BOOLEAN, less : BOOLEAN]
          BY <4>1 DEF Histories!First
        <5>2. 0 \in 0..MaxClock /\ 0 <= clock
          BY <1>1, HistoryBounds
        <5>3. F \in Conversations
          BY <5>1, <5>2 DEF Conversations, Histories!Conversation
        <5> QED BY <5>1, <5>2, <5>3 DEF GoodConversation
      <4>5. GoodConversation(v)
        <5>1. CASE c \in DOMAIN s
          <6>1. PICK w : w = s[c]
            OBVIOUS
          <6>2. GoodConversation(w)
            BY <1>1, <1>2, <5>1, <6>1, MemberIsGood
          <6>3. v = [w EXCEPT !.renamed = n, !.stamp = clock]
            BY <4>1, <5>1, <6>1
          <6> QED BY <1>1, <4>3, <6>2, <6>3, StampedIsGood
        <5>2. CASE c \notin DOMAIN s
          <6>1. v = [F EXCEPT !.renamed = n, !.stamp = clock]
            BY <4>1, <5>2
          <6> QED BY <1>1, <4>3, <4>4, <6>1, StampedIsGood
        <5> QED BY <5>1, <5>2
      <4>6. PICK r : r = server'
        OBVIOUS
      <4>7. /\ r = [d0 \in DOMAIN r |-> r[d0]] /\ DOMAIN r = DOMAIN s \cup {c} /\ r[c] = v
            /\ \A d0 \in DOMAIN s \ {c} : r[d0] = s[d0]
        BY <4>2, <4>6 DEF Histories!With
      <4>8. Good(r)
        BY <1>1, <1>2, <4>3, <4>5, <4>7, PutIsGood
      <4> QED BY <4>6, <4>8
    <3>3. CASE q.kind = "delete"
      <4>1. server' = Histories!Without(s, q.id)
        BY <1>2, <3>1, <3>3 DEF Histories!UpdatedServer
      <4> QED BY <1>1, <1>2, <4>1, InLists DEF Histories!Without, Good, Dated
    <3>4. CASE q.kind = "part" /\ q.id \in DOMAIN server
      <4>1. PICK c : c = q.id
        OBVIOUS
      <4>2. PICK v : v = [s[c] EXCEPT !.less = TRUE, !.stamp = clock]
        OBVIOUS
      <4>3. server' = [s EXCEPT ![c].less = TRUE, ![c].stamp = clock] /\ c \in DOMAIN s
        BY <1>2, <3>1, <3>4, <4>1 DEF Histories!UpdatedServer
      <4>4. server' = [s EXCEPT ![c] = v]
        BY <4>2, <4>3
      <4>5. GoodConversation(v)
        BY <1>1, <1>2, <4>2, <4>3, MemberIsGood, StampedIsGood
      <4>6. Good([s EXCEPT ![c] = v])
        BY <1>1, <1>2, <4>3, <4>5, ChangedIsGood
      <4> QED BY <4>4, <4>6
    <3>5. CASE q.kind = "vote" /\ q.id \in DOMAIN server
      <4>1. PICK c, n : c = q.id /\ n = q.vote
        OBVIOUS
      <4>2. PICK v : v = [s[c] EXCEPT !.vote = n, !.stamp = clock]
        OBVIOUS
      <4>3. server' = [s EXCEPT ![c].vote = n, ![c].stamp = clock] /\ c \in DOMAIN s
        BY <1>2, <3>1, <3>5, <4>1 DEF Histories!UpdatedServer
      <4>4. server' = [s EXCEPT ![c] = v] /\ n \in BOOLEAN
        BY <1>1, <4>1, <4>2, <4>3 DEF IsCall
      <4>5. GoodConversation(v)
        BY <1>1, <1>2, <4>2, <4>3, <4>4, MemberIsGood, StampedIsGood
      <4>6. Good([s EXCEPT ![c] = v])
        BY <1>1, <1>2, <4>3, <4>5, ChangedIsGood
      <4> QED BY <4>4, <4>6
    <3>6. CASE /\ q.kind \notin {"upsert", "delete"}
               /\ ~(q.kind \in {"part", "vote"} /\ q.id \in DOMAIN server)
      BY <1>1, <3>1, <3>6 DEF Histories!UpdatedServer
    <3> QED BY <3>2, <3>3, <3>4, <3>5, <3>6
  <2> QED BY <2>1, <2>2
<1>8. ListsInv'
  BY <1>1, <1>7 DEF RecordsInv, ListsInv, Good, Dated
<1> QED BY <1>1, <1>6, <1>8, QueueStays, SnapshotStays DEF RecordsInv, ViewInv

\* A load that begins, and one that ends, keep every record good.
LEMMA LoadKeepsRecords ==
  ASSUME RecordsInv, \/ \E t \in Tabs : Histories!loadHistory(t)
                     \/ \E q \in calls : Histories!loadServerConversations(q)
  PROVE RecordsInv'
<1>1. clock \in 0..MaxClock /\ Good(saved)
  BY DEF RecordsInv, ListsInv
<1>2. ASSUME NEW t \in Tabs, Histories!loadHistory(t) PROVE RecordsInv'
  <2>1. PICK s : s = saved
    OBVIOUS
  <2>2. PICK r : r = [kind |-> "load", tab |-> t, id |-> 0, at |-> "sent",
                      renamed |-> FALSE, vote |-> FALSE, was |-> s]
    OBVIOUS
  <2>3. /\ calls' = calls \cup {r}
        /\ UNCHANGED <<server, saved, list, queue, snapshot, crossed, selected, skip, clock>>
    BY <1>2, <2>1, <2>2 DEF Histories!loadHistory
  <2>4. IsCall(r)
    BY <1>1, <2>1, <2>2 DEF IsCall
  <2>5. CallsInv'
    BY <1>1, <2>3, <2>4, CallsStep DEF RecordsInv
  <2> QED BY <1>1, <2>3, <2>5, ListsStay, QueueStays, SnapshotStays DEF RecordsInv, ViewInv
<1>3. ASSUME NEW q \in calls, Histories!loadServerConversations(q) PROVE RecordsInv'
  <2>1. PICK t, h : t = q.tab /\ h = q.was
    OBVIOUS
  <2>2. t \in Tabs /\ Good(h)
    BY <2>1 DEF RecordsInv, CallsInv, IsCall
  <2>3. UNCHANGED <<server, saved, snapshot, crossed, clock>> /\ calls' \subseteq calls
    BY <1>3 DEF Histories!loadServerConversations
  <2>4. CallsInv'
    BY <1>1, <2>3, CallsStay DEF RecordsInv
  <2>5. CASE q.at = "done"
    <3>1. PICK o : o = [kind |-> "save", id |-> 0, items |-> h, then |-> "show", was |-> Histories!None]
      OBVIOUS
    <3>2. queue' = [queue EXCEPT ![t] = Append(@, o)] /\ UNCHANGED <<list, selected, skip>>
      BY <1>3, <2>1, <2>5, <3>1 DEF Histories!loadServerConversations, Histories!Operation, Histories!view
    <3>3. IsOperation(o)
      BY <2>2, <3>1, NoneIsGood DEF IsOperation, Histories!Operations, Good, Lists
    <3>4. QueueInv' /\ \A u \in Tabs : queue[u] # <<>> => queue'[u] # <<>>
      BY <2>2, <2>3, <3>2, <3>3, AppendStep DEF RecordsInv
    <3> QED BY <1>1, <2>3, <2>4, <3>2, <3>4, ListsStay, SnapshotStays DEF RecordsInv, ViewInv
  <2>6. CASE q.at # "done"
    <3>1. Histories!Restore(t, h) /\ UNCHANGED queue
      BY <1>3, <2>1, <2>6 DEF Histories!loadServerConversations
    <3>2. list' = [list EXCEPT ![t] = h] /\ DOMAIN skip' = Tabs
      BY <3>1 DEF Histories!Restore, RecordsInv, ViewInv
    <3>3. DOMAIN selected' = Tabs
      BY <3>1 DEF Histories!Restore, RecordsInv, ViewInv
    <3>4. DOMAIN list' = Tabs /\ \A u \in Tabs : list'[u] = list[u] \/ list'[u] = h
      BY <3>2 DEF RecordsInv, ListsInv
    <3>5. ListsInv'
      BY <2>2, <2>3, <3>4 DEF RecordsInv, ListsInv, Good, Dated
    <3> QED BY <1>1, <2>3, <2>4, <3>1, <3>2, <3>3, <3>5, QueueStays, SnapshotStays DEF RecordsInv, ViewInv
  <2> QED BY <2>5, <2>6
<1> QED BY <1>2, <1>3

\* What a step can be: nothing, an edit of a tab, or one of the others.
LEMMA HistoryCases ==
  ASSUME RecordsInv, [Histories!Next]_(Histories!vars)
  PROVE \/ UNCHANGED Histories!vars
        \/ Histories!Tick
        \/ \E t \in Tabs : \E shown, o : Edits(t, shown, o)
        \/ \E t \in Tabs : \/ Histories!readStoredImageConversations(t) \/ Histories!WriteStore(t)
                           \/ Histories!loadHistory(t) \/ Histories!handleCreateDraft(t)
                           \/ \E c \in ConversationIds : Histories!handleSelectConversation(t, c)
        \/ \E q \in calls : Histories!Handle(q) \/ Histories!Fail(q) \/ Histories!loadServerConversations(q)
<1>1. ASSUME NEW t \in Tabs, NEW c \in ConversationIds,
             \/ Histories!handleRenameConversation(t, c) \/ Histories!handleDeleteConversation(t, c)
             \/ Histories!handleDeleteTurnPart(t, c) \/ Histories!handleDismissErrors(t, c)
             \/ Histories!handleImageFeedback(t, c)
      PROVE \E shown, o : Edits(t, shown, o)
  BY <1>1, UserEdits
<1>2. ASSUME NEW q \in calls, Histories!VoteAnswered(q) PROVE q.tab \in Tabs /\ \E shown, o : Edits(q.tab, shown, o)
  BY <1>2, AnswerEdits DEF RecordsInv, CallsInv, IsCall
<1> QED BY <1>1, <1>2, Zenon DEF Histories!Next

\* Every record stays good.
LEMMA RecordsStep == RecordsInv /\ [Histories!Next]_(Histories!vars) => RecordsInv'
<1> SUFFICES ASSUME RecordsInv, [Histories!Next]_(Histories!vars) PROVE RecordsInv'
  OBVIOUS
<1>1. clock \in 0..MaxClock
  BY DEF RecordsInv, ListsInv
<1>2. ASSUME UNCHANGED <<server, saved, list, queue, snapshot, crossed, skip, calls>>,
             clock' \in 0..MaxClock, clock' \in {clock, clock + 1}, DOMAIN selected' = Tabs PROVE RecordsInv'
  BY <1>1, <1>2, ListsStay, QueueStays, SnapshotStays, CallsStay DEF RecordsInv, ViewInv
<1>3. ASSUME UNCHANGED Histories!vars PROVE RecordsInv'
  BY <1>1, <1>2, <1>3 DEF Histories!vars, RecordsInv, ViewInv
<1>4. ASSUME Histories!Tick PROVE RecordsInv'
  <2>1. clock' \in 0..MaxClock /\ clock' = clock + 1
    BY <1>1, <1>4, HistoryBounds DEF Histories!Tick
  <2> QED BY <1>2, <1>4, <2>1 DEF Histories!Tick, Histories!view, RecordsInv, ViewInv
<1>5. ASSUME NEW t \in Tabs, Histories!handleCreateDraft(t) \/ \E c \in ConversationIds : Histories!handleSelectConversation(t, c)
      PROVE RecordsInv'
  <2>1. /\ UNCHANGED <<server, saved, list, queue, snapshot, crossed, calls, clock>>
        /\ DOMAIN selected' = Tabs /\ DOMAIN skip' = Tabs
    BY <1>5 DEF Histories!handleCreateDraft, Histories!handleSelectConversation, RecordsInv, ViewInv
  <2> QED BY <1>1, <2>1, ListsStay, QueueStays, SnapshotStays, CallsStay DEF RecordsInv, ViewInv
<1>6. ASSUME NEW t \in Tabs, NEW shown, NEW o, Edits(t, shown, o) PROVE RecordsInv'
  BY <1>6, EditKeepsRecords
<1>7. ASSUME NEW t \in Tabs, \/ Histories!readStoredImageConversations(t) \/ Histories!WriteStore(t)
                             \/ Histories!loadHistory(t) PROVE RecordsInv'
  BY <1>7, ReadKeepsRecords, WriteKeepsRecords, LoadKeepsRecords
<1>8. ASSUME NEW q \in calls, Histories!Handle(q) \/ Histories!Fail(q) \/ Histories!loadServerConversations(q)
      PROVE RecordsInv'
  BY <1>8, ServerKeepsRecords, LoadKeepsRecords
<1> QED BY <1>3, <1>4, <1>5, <1>6, <1>7, <1>8, HistoryCases

\* At first every record is good, and nothing is under way.
LEMMA RecordsInit == Histories!Init => RecordsInv
<1> SUFFICES ASSUME Histories!Init PROVE RecordsInv
  OBVIOUS
<1>1. PICK F : F = Histories!First
  OBVIOUS
<1>2. F.stamp = 0 /\ F \in [stamp : {0}, renamed : BOOLEAN, vote : BOOLEAN, less : BOOLEAN]
  BY <1>1 DEF Histories!First
<1>3. clock = 0 /\ 0 \in 0..MaxClock /\ 0 <= clock
  BY HistoryBounds DEF Histories!Init
<1>4. F \in Conversations /\ F.stamp <= clock
  BY <1>2, <1>3 DEF Conversations, Histories!Conversation
<1>5. PICK h : h = [c \in ConversationIds |-> F]
  OBVIOUS
<1>6. Good(h)
  BY <1>4, <1>5, InLists DEF Good, Dated
<1>7. server = h /\ saved = h /\ list = [t \in Tabs |-> h]
  BY <1>1, <1>5 DEF Histories!Init
<1>8. ListsInv
  BY <1>3, <1>6, <1>7 DEF ListsInv
<1>9. QueueInv /\ SnapshotInv /\ ViewInv /\ CallsInv
  <2>1. QueueInv
    BY DEF QueueInv, Histories!Init
  <2>2. SnapshotInv /\ ViewInv /\ CallsInv
    BY DEF SnapshotInv, ViewInv, CallsInv, Histories!Init
  <2> QED BY <2>1, <2>2
<1> QED BY <1>8, <1>9 DEF RecordsInv

---------------------------------------------------------------------------
(* The history of conversations: the store                                 *)

(* What an operation has read is the store, unless another tab has written *)
(* since.                                                                  *)
SnapshotsAgree == \A t \in Tabs : snapshot[t] # Histories!Unread /\ ~crossed[t] => snapshot[t].items = saved

\* Only reading and writing have to do with what was read.
LEMMA StoreCases ==
  ASSUME RecordsInv, [Histories!Next]_(Histories!vars)
  PROVE \/ UNCHANGED <<saved, snapshot, crossed>>
        \/ \E t \in Tabs : Histories!readStoredImageConversations(t) \/ Histories!WriteStore(t)
<1>1. ASSUME NEW t \in Tabs, NEW shown, NEW o, Edits(t, shown, o) PROVE UNCHANGED <<saved, snapshot, crossed>>
  BY <1>1 DEF Edits, Histories!Do
<1>2. ASSUME NEW t \in Tabs, \/ Histories!loadHistory(t) \/ Histories!handleCreateDraft(t)
                             \/ \E c \in ConversationIds : Histories!handleSelectConversation(t, c)
      PROVE UNCHANGED <<saved, snapshot, crossed>>
  BY <1>2 DEF Histories!loadHistory, Histories!handleCreateDraft, Histories!handleSelectConversation
<1>3. ASSUME NEW q \in calls, Histories!Handle(q) \/ Histories!Fail(q) \/ Histories!loadServerConversations(q)
      PROVE UNCHANGED <<saved, snapshot, crossed>>
  BY <1>3 DEF Histories!Handle, Histories!Fail, Histories!loadServerConversations
<1>4. Histories!Tick \/ UNCHANGED Histories!vars => UNCHANGED <<saved, snapshot, crossed>>
  BY DEF Histories!Tick, Histories!vars
<1> QED BY <1>1, <1>2, <1>3, <1>4, HistoryCases

\* What was read stays what the store is, or is known not to.
LEMMA SnapshotsStep ==
  ASSUME RecordsInv, SnapshotsAgree, [Histories!Next]_(Histories!vars) PROVE SnapshotsAgree'
<1>1. CASE UNCHANGED <<saved, snapshot, crossed>>
  BY <1>1 DEF SnapshotsAgree, Histories!Unread
<1>2. ASSUME NEW t \in Tabs, Histories!readStoredImageConversations(t) PROVE SnapshotsAgree'
  <2>1. /\ snapshot' = [snapshot EXCEPT ![t] = [read |-> TRUE, items |-> saved]]
        /\ crossed' = [crossed EXCEPT ![t] = FALSE] /\ saved' = saved
    BY <1>2 DEF Histories!readStoredImageConversations
  <2>2. snapshot'[t].items = saved
    BY <2>1 DEF RecordsInv, SnapshotInv
  <2>3. \A u \in Tabs \ {t} : snapshot'[u] = snapshot[u] /\ crossed'[u] = crossed[u]
    BY <2>1 DEF RecordsInv, SnapshotInv
  <2> QED BY <2>1, <2>2, <2>3 DEF SnapshotsAgree, Histories!Unread
<1>3. ASSUME NEW t \in Tabs, Histories!WriteStore(t) PROVE SnapshotsAgree'
  <2>1. /\ snapshot' = [snapshot EXCEPT ![t] = Histories!Unread]
        /\ crossed' = [u \in Tabs |-> IF u = t THEN FALSE ELSE crossed[u] \/ snapshot[u] # Histories!Unread]
    BY <1>3 DEF Histories!WriteStore
  <2>2. snapshot'[t] = Histories!Unread /\ \A u \in Tabs \ {t} : snapshot'[u] = snapshot[u]
    BY <2>1 DEF RecordsInv, SnapshotInv
  <2>3. \A u \in Tabs \ {t} : snapshot[u] # Histories!Unread => crossed'[u]
    BY <2>1, Zenon
  <2> QED BY <2>2, <2>3 DEF SnapshotsAgree, Histories!Unread
<1> QED BY <1>1, <1>2, <1>3, StoreCases

\* What one step of a write that no other tab crossed makes of the store.
LEMMA RevertsStep ==
  ASSUME RecordsInv, SnapshotsAgree, [Histories!Next]_(Histories!vars),
         NEW t \in Tabs, snapshot[t] # Histories!Unread, snapshot'[t] = Histories!Unread, ~crossed[t],
         NEW c \in DOMAIN saved
  PROVE IF c \in DOMAIN saved' THEN saved'[c].stamp >= saved[c].stamp ELSE Head(queue[t]).kind = "delete"
<1>1. snapshot' # snapshot
  BY Zenon
<1>2. PICK u \in Tabs : Histories!readStoredImageConversations(u) \/ Histories!WriteStore(u)
  BY <1>1, StoreCases
<1>3. Histories!WriteStore(t)
  <2>1. CASE Histories!readStoredImageConversations(u)
    <3>1. snapshot' = [snapshot EXCEPT ![u] = [read |-> TRUE, items |-> saved]] /\ snapshot[u] = Histories!Unread
      BY <2>1 DEF Histories!readStoredImageConversations
    <3> QED BY <3>1 DEF RecordsInv, SnapshotInv
  <2>2. CASE Histories!WriteStore(u)
    <3>1. snapshot' = [snapshot EXCEPT ![u] = Histories!Unread]
      BY <2>2 DEF Histories!WriteStore
    <3> QED BY <2>2, <3>1 DEF RecordsInv, SnapshotInv
  <2> QED BY <1>2, <2>1, <2>2
<1>4. PICK h, o, n, r : h = saved /\ o = Head(queue[t]) /\ n = Tail(queue[t]) /\ r = saved'
  OBVIOUS
<1>5. r = Histories!Written(h, o)
  BY <1>3, <1>4 DEF Histories!WriteStore, SnapshotsAgree
<1>6. queue[t] # <<>> /\ Good(h) /\ clock \in 0..MaxClock
  BY <1>4 DEF RecordsInv, SnapshotInv, ListsInv
<1>7. IsOperation(o)
  BY <1>4, <1>6, HeadIsOperation
<1>8. Follows(h, o, r)
  BY <1>5, <1>6, <1>7, WrittenIsGood
<1> QED BY <1>4, <1>8 DEF Follows

\* No write of a tab takes a conversation back or loses it, unless it deletes
\* it or another tab wrote between its reading and its writing: the property
\* NothingReverts of the write queue in store/image-conversations.ts.
THEOREM StoreNeverReverts == Histories!Spec => NothingReverts
<1> DEFINE Inv == RecordsInv /\ SnapshotsAgree
<1>1. Histories!Init => Inv
  BY RecordsInit DEF Histories!Init, SnapshotsAgree
<1>2. Inv /\ [Histories!Next]_(Histories!vars) => Inv'
  BY RecordsStep, SnapshotsStep
<1>3. Inv /\ [Histories!Next]_(Histories!vars) =>
        [\A t \in Tabs : snapshot[t] # Histories!Unread /\ snapshot'[t] = Histories!Unread /\ ~crossed[t] =>
           \A c \in DOMAIN saved :
             IF c \in DOMAIN saved' THEN saved'[c].stamp >= saved[c].stamp
             ELSE Head(queue[t]).kind = "delete"]_(Histories!vars)
  BY RevertsStep
<1> QED BY <1>1, <1>2, <1>3, PTL DEF Histories!Spec, NothingReverts, Histories!NothingReverts

---------------------------------------------------------------------------
(* The history of conversations: a draft that is begun while a list loads  *)

(* The loaded lists that are to be saved and shown.                        *)
Shows(t) == {i \in DOMAIN queue[t] : queue[t][i].then = "show"}
Loading(t) == Histories!LoadsOf(t) # {} \/ Shows(t) # {}

(* A tab loads one list at a time.                                         *)
OneLoad(t) ==
  /\ \A p, q \in Histories!LoadsOf(t) : p = q
  /\ \A i, j \in Shows(t) : i = j
  /\ Histories!LoadsOf(t) # {} => Shows(t) = {}

(* A draft that was begun while a list loads is told to keep the place.    *)
OneDraft(t) ==
  /\ OneLoad(t)
  /\ t \in drafted => selected[t] = 0 /\ (Loading(t) => skip[t])
DraftsInv == \A t \in Tabs : OneDraft(t)

\* What is meant by loading.
LEMMA LoadingIsInFlight == \A t \in Tabs : Histories!loadHistoryInFlight(t) <=> Loading(t)
BY DEF Histories!loadHistoryInFlight, Loading, Shows

\* Nothing loads that did not, and the draft stays.
LEMMA DraftStays ==
  ASSUME NEW u \in Tabs, OneDraft(u), Histories!LoadsOf(u)' \subseteq Histories!LoadsOf(u),
         Shows(u)' \subseteq Shows(u), skip[u] => skip'[u],
         u \in drafted' => u \in drafted /\ (selected[u] = 0 => selected'[u] = 0)
  PROVE OneDraft(u)'
BY DEF OneDraft, OneLoad, Loading

\* What is shown of a queue to which an operation is appended.
LEMMA ShowsOfAppended ==
  ASSUME QueueInv, NEW t \in Tabs, NEW o \in Histories!Operations, queue' = [queue EXCEPT ![t] = Append(@, o)]
  PROVE /\ Shows(t)' = Shows(t) \cup (IF o.then = "show" THEN {Len(queue[t]) + 1} ELSE {})
        /\ \A u \in Tabs \ {t} : Shows(u)' = Shows(u)
<1>1. PICK s, n : s = queue[t] /\ n = queue'[t]
  OBVIOUS
<1>2. n = Append(s, o) /\ s \in Seq(Histories!Operations) /\ \A u \in Tabs \ {t} : queue'[u] = queue[u]
  BY <1>1 DEF QueueInv
<1>3. /\ DOMAIN n = DOMAIN s \cup {Len(s) + 1} /\ n[Len(s) + 1] = o
      /\ \A i \in DOMAIN s : n[i] = s[i]
  BY <1>2
<1>4. Shows(t)' = Shows(t) \cup (IF o.then = "show" THEN {Len(s) + 1} ELSE {})
  BY <1>1, <1>3 DEF Shows
<1> QED BY <1>1, <1>2, <1>4 DEF Shows

\* What is shown of a queue whose first operation is done.
LEMMA ShowsOfRest ==
  ASSUME RecordsInv, NEW t \in Tabs, queue[t] # <<>>, queue' = [queue EXCEPT ![t] = Tail(@)]
  PROVE /\ \A i \in Shows(t)' : i + 1 \in Shows(t) /\ i \in Nat
        /\ Head(queue[t]).then = "show" => 1 \in Shows(t)
        /\ 0 \notin Shows(t)'
        /\ \A u \in Tabs \ {t} : Shows(u)' = Shows(u)
<1>1. PICK o, n : o = Head(queue[t]) /\ n = Tail(queue[t])
  OBVIOUS
<1>2. /\ o = queue[t][1] /\ 1 \in DOMAIN queue[t] /\ n \in Seq(Histories!Operations)
      /\ \A i \in DOMAIN n : i + 1 \in DOMAIN queue[t] /\ n[i] = queue[t][i + 1]
  BY <1>1, HeadIsOperation
<1>3. queue'[t] = n /\ \A u \in Tabs \ {t} : queue'[u] = queue[u]
  BY <1>1 DEF RecordsInv, QueueInv
<1>4. \A i \in DOMAIN n : i \in Nat /\ i # 0
  BY <1>2
<1>5. Shows(t)' = {i \in DOMAIN n : n[i].then = "show"}
  BY <1>3 DEF Shows
<1> QED BY <1>1, <1>2, <1>3, <1>4, <1>5 DEF Shows

\* An edit loads nothing and selects nothing in a draft.
LEMMA EditKeepsDrafts ==
  ASSUME RecordsInv, DraftsInv, NEW t \in Tabs, NEW shown, NEW o, Edits(t, shown, o) PROVE DraftsInv'
<1>1. /\ queue' = [queue EXCEPT ![t] = Append(@, o)] /\ Histories!Show(t, shown)
      /\ UNCHANGED <<skip, drafted>> /\ calls' \subseteq calls /\ o \in Histories!Operations /\ o.then # "show"
  BY DEF Edits, Histories!Do, IsOperation
<1>2. \A u \in Tabs : Shows(u)' \subseteq Shows(u)
  BY <1>1, ShowsOfAppended DEF RecordsInv
<1>3. \A u \in Tabs : Histories!LoadsOf(u)' \subseteq Histories!LoadsOf(u)
  BY <1>1 DEF Histories!LoadsOf
<1>4. \A u \in Tabs : selected[u] = 0 => selected'[u] = 0
  BY <1>1 DEF Histories!Show, RecordsInv, ViewInv
<1> QED BY <1>1, <1>2, <1>3, <1>4, DraftStays DEF DraftsInv

\* A list that is shown ends the load, and leaves a draft alone.
LEMMA RestoreKeepsDraft ==
  ASSUME RecordsInv, NEW t \in Tabs, NEW h, OneDraft(t), Histories!Restore(t, h), Loading(t), ~Loading(t)'
  PROVE OneDraft(t)'
<1>1. OneLoad(t)'
  BY DEF OneLoad, Loading
<1>2. ASSUME t \in drafted' PROVE selected'[t] = 0
  <2>1. skip[t]
    BY <1>2 DEF OneDraft, Histories!Restore
  <2>2. \E c \in {0} : selected' = [selected EXCEPT ![t] = c]
    BY <2>1 DEF Histories!Restore
  <2> QED BY <2>2 DEF RecordsInv, ViewInv
<1> QED BY <1>1, <1>2 DEF OneDraft

\* Writing the loaded list shows it.
LEMMA WriteKeepsDrafts ==
  ASSUME RecordsInv, DraftsInv, NEW t \in Tabs, Histories!WriteStore(t) PROVE DraftsInv'
<1>1. PICK o : o = Head(queue[t])
  OBVIOUS
<1>2. /\ queue' = [queue EXCEPT ![t] = Tail(@)] /\ snapshot[t] # Histories!Unread
      /\ calls' = calls \cup Histories!CallsOf(t, o)
      /\ IF o.then = "show" THEN Histories!Restore(t, o.items) ELSE UNCHANGED <<selected, skip, drafted>>
  BY <1>1 DEF Histories!WriteStore, Histories!view
<1>3. queue[t] # <<>>
  BY <1>2 DEF RecordsInv, SnapshotInv
<1>4. IsOperation(o)
  BY <1>1, <1>3, HeadIsOperation
<1>5. \A u \in Tabs : Histories!LoadsOf(u)' = Histories!LoadsOf(u)
  BY <1>2, <1>4, CallsOfAreGood DEF Histories!LoadsOf
<1>6. /\ \A i \in Shows(t)' : i + 1 \in Shows(t) /\ i \in Nat
      /\ o.then = "show" => 1 \in Shows(t)
      /\ 0 \notin Shows(t)'
      /\ \A u \in Tabs \ {t} : Shows(u)' = Shows(u)
  BY <1>1, <1>2, <1>3, ShowsOfRest
<1>7. OneLoad(t)'
  <2>1. ASSUME NEW i \in Shows(t)', NEW j \in Shows(t)' PROVE i = j
    <3>1. i + 1 \in Shows(t) /\ j + 1 \in Shows(t) /\ i \in Nat /\ j \in Nat
      BY <1>6
    <3>2. i + 1 = j + 1
      BY <3>1 DEF DraftsInv, OneDraft, OneLoad
    <3> QED BY <3>1, <3>2
  <2>2. Shows(t) = {} => Shows(t)' = {}
    BY <1>6
  <2> QED BY <1>5, <2>1, <2>2 DEF DraftsInv, OneDraft, OneLoad
<1>8. CASE o.then # "show"
  <2>1. UNCHANGED <<selected, skip, drafted>>
    BY <1>2, <1>8
  <2>2. \A u \in Tabs \ {t} : OneDraft(u)'
    BY <1>5, <1>6, <2>1, DraftStays DEF DraftsInv
  <2>3. Loading(t)' => Loading(t)
    BY <1>5, <1>6 DEF Loading
  <2>4. OneDraft(t)'
    BY <1>7, <2>1, <2>3 DEF DraftsInv, OneDraft
  <2> QED BY <2>2, <2>4 DEF DraftsInv
<1>9. CASE o.then = "show"
  <2>1. PICK h : h = o.items
    OBVIOUS
  <2>2. Histories!Restore(t, h)
    BY <1>2, <1>9, <2>1
  <2>3. Loading(t)
    BY <1>6, <1>9 DEF Loading
  <2>4. Shows(t)' = {}
    <3>1. ASSUME NEW i \in Shows(t)' PROVE FALSE
      <4>1. i + 1 \in Shows(t) /\ 1 \in Shows(t) /\ i \in Nat /\ i # 0
        BY <1>6, <1>9
      <4>2. i + 1 = 1
        BY <4>1 DEF DraftsInv, OneDraft, OneLoad
      <4> QED BY <4>1, <4>2
    <3> QED BY <3>1
  <2>5. Histories!LoadsOf(t)' = {}
    BY <1>5, <1>6, <1>9 DEF DraftsInv, OneDraft, OneLoad
  <2>6. OneDraft(t)'
    BY <2>2, <2>3, <2>4, <2>5, RestoreKeepsDraft DEF DraftsInv, Loading
  <2>7. ASSUME NEW u \in Tabs \ {t} PROVE OneDraft(u)'
    <3>1. skip'[u] = skip[u] /\ selected'[u] = selected[u] /\ drafted' = drafted
      BY <2>2 DEF Histories!Restore, RecordsInv, ViewInv
    <3> QED BY <1>5, <1>6, <3>1, DraftStays DEF DraftsInv
  <2> QED BY <2>6, <2>7 DEF DraftsInv
<1> QED BY <1>8, <1>9

\* The server's part of a load is still the load of its tab.
LEMMA ServerKeepsDrafts ==
  ASSUME RecordsInv, DraftsInv, NEW q \in calls, Histories!Handle(q) \/ Histories!Fail(q) PROVE DraftsInv'
<1>1. UNCHANGED <<queue, selected, skip, drafted>>
  BY DEF Histories!Handle, Histories!Fail, Histories!view
<1>2. IsCall(q)
  BY DEF RecordsInv, CallsInv
<1>3. PICK r : calls' \subseteq (calls \ {q}) \cup {r} /\ r.kind = q.kind /\ r.tab = q.tab
  <2>1. CASE Histories!Fail(q)
    <3>1. PICK r : r = [q EXCEPT !.at = "failed"]
      OBVIOUS
    <3>2. r.kind = q.kind /\ r.tab = q.tab
      BY <1>2, <3>1 DEF IsCall
    <3>3. calls' \subseteq (calls \ {q}) \cup {r}
      BY <2>1, <3>1 DEF Histories!Fail
    <3> QED BY <3>2, <3>3
  <2>2. CASE Histories!Handle(q) /\ q.kind = "load"
    <3>1. PICK s : s = server
      OBVIOUS
    <3>2. PICK r : r = [q EXCEPT !.at = "done", !.was = s]
      OBVIOUS
    <3>3. r.kind = q.kind /\ r.tab = q.tab
      BY <1>2, <3>2 DEF IsCall
    <3>4. calls' \subseteq (calls \ {q}) \cup {r}
      BY <2>2, <3>1, <3>2 DEF Histories!Handle
    <3> QED BY <3>3, <3>4
  <2>3. CASE Histories!Handle(q) /\ q.kind # "load"
    <3>1. PICK r : r = [q EXCEPT !.at = "done"]
      OBVIOUS
    <3>2. r.kind = q.kind /\ r.tab = q.tab
      BY <1>2, <3>1 DEF IsCall
    <3>3. calls' \subseteq (calls \ {q}) \cup {r}
      BY <2>3, <3>1 DEF Histories!Handle
    <3> QED BY <3>2, <3>3
  <2> QED BY <2>1, <2>2, <2>3
<1>4. ASSUME NEW u \in Tabs PROVE OneDraft(u)'
  <2>1. Shows(u)' = Shows(u)
    BY <1>1 DEF Shows
  <2>2. /\ \A a, b \in Histories!LoadsOf(u)' : a = b
        /\ Histories!LoadsOf(u) = {} => Histories!LoadsOf(u)' = {}
    <3>1. \A a \in Histories!LoadsOf(u)' : a = r \/ a \in Histories!LoadsOf(u) \ {q}
      BY <1>3 DEF Histories!LoadsOf
    <3>2. \A a \in Histories!LoadsOf(u)' : a = r => q \in Histories!LoadsOf(u)
      BY <1>3 DEF Histories!LoadsOf
    <3>3. \A a, b \in Histories!LoadsOf(u) : a = b
      BY DEF DraftsInv, OneDraft, OneLoad
    <3> QED BY <3>1, <3>2, <3>3
  <2>3. OneLoad(u)'
    BY <2>1, <2>2 DEF DraftsInv, OneDraft, OneLoad
  <2>4. Loading(u)' => Loading(u)
    BY <2>1, <2>2 DEF Loading
  <2> QED BY <1>1, <2>3, <2>4 DEF DraftsInv, OneDraft
<1> QED BY <1>4 DEF DraftsInv

\* A load begins when none is under way, and leaves the draft.
LEMMA LoadKeepsDrafts ==
  ASSUME RecordsInv, DraftsInv, NEW t \in Tabs, Histories!loadHistory(t) PROVE DraftsInv'
<1>1. PICK r : r = [kind |-> "load", tab |-> t, id |-> 0, at |-> "sent",
                    renamed |-> FALSE, vote |-> FALSE, was |-> saved]
  OBVIOUS
<1>2. /\ calls' = calls \cup {r} /\ r.tab = t /\ ~Loading(t) /\ drafted' = drafted \ {t}
      /\ UNCHANGED <<queue, selected, skip>>
  BY <1>1, LoadingIsInFlight DEF Histories!loadHistory
<1>3. \A u \in Tabs : Shows(u)' = Shows(u)
  BY <1>2 DEF Shows
<1>4. Histories!LoadsOf(t)' \subseteq {r}
  BY <1>2 DEF Histories!LoadsOf, Loading
<1>5. OneDraft(t)'
  BY <1>2, <1>3, <1>4 DEF DraftsInv, OneDraft, OneLoad, Loading
<1>6. ASSUME NEW u \in Tabs \ {t} PROVE OneDraft(u)'
  <2>1. Histories!LoadsOf(u)' \subseteq Histories!LoadsOf(u)
    BY <1>2 DEF Histories!LoadsOf
  <2> QED BY <1>2, <1>3, <2>1, DraftStays DEF DraftsInv
<1> QED BY <1>5, <1>6 DEF DraftsInv

\* A load that ends is to be saved, or shows what was read.
LEMMA LoadEndKeepsDrafts ==
  ASSUME RecordsInv, DraftsInv, NEW q \in calls, Histories!loadServerConversations(q) PROVE DraftsInv'
<1>1. PICK t, h : t = q.tab /\ h = q.was
  OBVIOUS
<1>2. t \in Tabs /\ q \in Histories!LoadsOf(t) /\ calls' = calls \ {q} /\ Good(h)
  BY <1>1 DEF Histories!loadServerConversations, RecordsInv, CallsInv, IsCall, Histories!LoadsOf
<1>3. Histories!LoadsOf(t)' = {} /\ \A u \in Tabs : Histories!LoadsOf(u)' \subseteq Histories!LoadsOf(u)
  BY <1>2 DEF DraftsInv, OneDraft, OneLoad, Histories!LoadsOf
<1>4. Loading(t) /\ Shows(t) = {}
  BY <1>2 DEF Loading, DraftsInv, OneDraft, OneLoad
<1>5. CASE q.at = "done"
  <2>1. PICK o : o = [kind |-> "save", id |-> 0, items |-> h, then |-> "show", was |-> Histories!None]
    OBVIOUS
  <2>2. queue' = [queue EXCEPT ![t] = Append(@, o)] /\ UNCHANGED <<selected, skip, drafted>>
    BY <1>1, <1>5, <2>1 DEF Histories!loadServerConversations, Histories!Operation, Histories!view
  <2>3. o \in Histories!Operations
    BY <1>2, <2>1, NoneIsGood DEF Histories!Operations, Good, Lists
  <2>4. Shows(t)' \subseteq {Len(queue[t]) + 1} /\ \A u \in Tabs \ {t} : Shows(u)' = Shows(u)
    <3>1. /\ Shows(t)' = Shows(t) \cup (IF o.then = "show" THEN {Len(queue[t]) + 1} ELSE {})
          /\ \A u \in Tabs \ {t} : Shows(u)' = Shows(u)
      BY <1>2, <2>2, <2>3, ShowsOfAppended, Zenon DEF RecordsInv
    <3>2. o.then = "show"
      BY <2>1
    <3> QED BY <1>4, <3>1, <3>2
  <2>5. OneDraft(t)'
    <3>1. OneLoad(t)'
      BY <1>3, <2>4 DEF OneLoad
    <3>2. t \in drafted => selected[t] = 0 /\ skip[t]
      BY <1>2, <1>4 DEF DraftsInv, OneDraft
    <3> QED BY <2>2, <3>1, <3>2 DEF OneDraft
  <2> QED BY <1>3, <2>2, <2>4, <2>5, DraftStays DEF DraftsInv
<1>6. CASE q.at # "done"
  <2>1. Histories!Restore(t, h) /\ UNCHANGED queue
    BY <1>1, <1>6 DEF Histories!loadServerConversations
  <2>2. \A u \in Tabs : Shows(u)' = Shows(u)
    BY <2>1 DEF Shows
  <2>3. OneDraft(t)'
    <3>1. ~Loading(t)'
      BY <1>2, <1>3, <1>4, <2>2 DEF Loading
    <3>2. OneDraft(t)
      BY <1>2 DEF DraftsInv
    <3> QED BY <1>2, <1>4, <2>1, <3>1, <3>2, RestoreKeepsDraft
  <2>4. ASSUME NEW u \in Tabs \ {t} PROVE OneDraft(u)'
    <3>1. skip'[u] = skip[u] /\ selected'[u] = selected[u] /\ drafted' = drafted
      BY <2>1 DEF Histories!Restore, RecordsInv, ViewInv
    <3> QED BY <1>3, <2>2, <3>1, DraftStays DEF DraftsInv
  <2> QED BY <2>3, <2>4 DEF DraftsInv
<1> QED BY <1>5, <1>6

\* A draft that is begun, and a conversation that is selected.
LEMMA SelectKeepsDrafts ==
  ASSUME RecordsInv, DraftsInv, NEW t \in Tabs,
         Histories!handleCreateDraft(t) \/ \E c \in ConversationIds : Histories!handleSelectConversation(t, c)
  PROVE DraftsInv'
<1>1. UNCHANGED <<queue, calls>>
  BY DEF Histories!handleCreateDraft, Histories!handleSelectConversation
<1>2. \A u \in Tabs : Shows(u)' = Shows(u) /\ Histories!LoadsOf(u)' = Histories!LoadsOf(u)
  BY <1>1 DEF Shows, Histories!LoadsOf
<1>3. \A u \in Tabs : (OneLoad(u)' <=> OneLoad(u)) /\ (Loading(u)' <=> Loading(u))
  BY <1>2 DEF OneLoad, Loading
<1>4. CASE \E c \in ConversationIds : Histories!handleSelectConversation(t, c)
  <2>1. drafted' = drafted \ {t} /\ skip' = skip /\ \A u \in Tabs \ {t} : selected'[u] = selected[u]
    BY <1>4 DEF Histories!handleSelectConversation, RecordsInv, ViewInv
  <2> QED BY <1>3, <2>1 DEF DraftsInv, OneDraft
<1>5. CASE Histories!handleCreateDraft(t)
  <2>1. /\ selected' = [selected EXCEPT ![t] = 0]
        /\ skip' = [skip EXCEPT ![t] = Histories!beginFreshDraftHistoryState(t)]
        /\ drafted' \subseteq drafted \cup {t}
    BY <1>5 DEF Histories!handleCreateDraft
  <2>2. selected'[t] = 0 /\ \A u \in Tabs \ {t} : selected'[u] = selected[u] /\ skip'[u] = skip[u]
    BY <2>1 DEF RecordsInv, ViewInv
  <2>3. skip'[t] = Histories!beginFreshDraftHistoryState(t)
    BY <2>1 DEF RecordsInv, ViewInv
  <2>4. Loading(t) => skip'[t]
    BY <2>3, LoadingIsInFlight, Zenon DEF Histories!beginFreshDraftHistoryState
  <2>5. OneDraft(t)'
    BY <1>3, <2>2, <2>4 DEF DraftsInv, OneDraft
  <2>6. \A u \in Tabs \ {t} : OneDraft(u)'
    BY <1>3, <2>1, <2>2 DEF DraftsInv, OneDraft
  <2> QED BY <2>5, <2>6 DEF DraftsInv
<1> QED BY <1>4, <1>5

\* Nothing but these has to do with a draft.
LEMMA DraftsStep ==
  ASSUME RecordsInv, DraftsInv, [Histories!Next]_(Histories!vars) PROVE DraftsInv'
<1>1. ASSUME UNCHANGED <<queue, calls, selected, skip, drafted>> PROVE DraftsInv'
  BY <1>1 DEF DraftsInv, OneDraft, OneLoad, Loading, Shows, Histories!LoadsOf
<1>3. ASSUME UNCHANGED Histories!vars \/ Histories!Tick
             \/ \E t \in Tabs : Histories!readStoredImageConversations(t) PROVE DraftsInv'
  BY <1>1, <1>3 DEF Histories!vars, Histories!Tick, Histories!readStoredImageConversations, Histories!view
<1> QED BY <1>3, HistoryCases, EditKeepsDrafts, WriteKeepsDrafts, ServerKeepsDrafts, LoadKeepsDrafts,
           LoadEndKeepsDrafts, SelectKeepsDrafts

\* Only tabs are in a draft.
LEMMA DraftedStep ==
  ASSUME RecordsInv, drafted \subseteq Tabs, [Histories!Next]_(Histories!vars) PROVE drafted' \subseteq Tabs
<1>1. ASSUME NEW t \in Tabs, NEW shown, NEW o, Edits(t, shown, o) PROVE drafted' = drafted
  BY <1>1 DEF Edits, Histories!Do
<1>2. ASSUME NEW t \in Tabs, NEW h, Histories!Restore(t, h) PROVE drafted' = drafted
  BY <1>2 DEF Histories!Restore
<1>3. ASSUME NEW t \in Tabs,
             \/ Histories!readStoredImageConversations(t) \/ Histories!WriteStore(t)
             \/ Histories!loadHistory(t) \/ Histories!handleCreateDraft(t)
             \/ \E c \in ConversationIds : Histories!handleSelectConversation(t, c)
      PROVE drafted' \subseteq drafted \cup {t}
  BY <1>2, <1>3 DEF Histories!readStoredImageConversations, Histories!WriteStore, Histories!loadHistory,
     Histories!handleCreateDraft, Histories!handleSelectConversation, Histories!view
<1>4. ASSUME NEW q \in calls, Histories!Handle(q) \/ Histories!Fail(q) \/ Histories!loadServerConversations(q)
      PROVE drafted' = drafted
  BY <1>4 DEF Histories!Handle, Histories!Fail, Histories!loadServerConversations, Histories!Restore,
     Histories!view
<1>5. UNCHANGED Histories!vars \/ Histories!Tick => drafted' = drafted
  BY DEF Histories!vars, Histories!Tick, Histories!view
<1> QED BY <1>1, <1>3, <1>4, <1>5, HistoryCases

\* A load that ends never takes the user away from a draft that was begun
\* while it was under way: the invariant DraftKept of the history of
\* image/page.tsx.
THEOREM DraftsAreKept == Histories!Spec => []DraftKept
<1> DEFINE Inv == RecordsInv /\ DraftsInv /\ drafted \subseteq Tabs
<1>1. Histories!Init => Inv
  <2>1. Histories!Init => DraftsInv
    BY DEF Histories!Init, DraftsInv, OneDraft, OneLoad, Shows, Histories!LoadsOf
  <2> QED BY <2>1, RecordsInit DEF Histories!Init
<1>2. Inv /\ [Histories!Next]_(Histories!vars) => Inv'
  <2> SUFFICES ASSUME Inv, [Histories!Next]_(Histories!vars) PROVE Inv'
    OBVIOUS
  <2>1. RecordsInv'
    BY RecordsStep
  <2>2. DraftsInv'
    BY DraftsStep
  <2>3. (drafted \subseteq Tabs)'
    BY DraftedStep
  <2> QED BY <2>1, <2>2, <2>3
<1>3. Inv => DraftKept
  BY DEF DraftsInv, OneDraft, DraftKept, Histories!DraftKept
<1> QED BY <1>1, <1>2, <1>3, PTL DEF Histories!Spec

---------------------------------------------------------------------------
(* The history of conversations: what is shown and what is stored          *)

(* What the writes of a queue will make of a store: which of them brings a *)
(* conversation, or the store does, with no later one deleting it; and at  *)
(* least how recent.                                                       *)
Deletes(o, c) == o.kind = "delete" /\ o.id = c
Brings(o, c) == o.kind = "save" /\ c \in DOMAIN o.items
StaysAfter(s, k, c) == \A j \in DOMAIN s : j > k => ~Deletes(s[j], c)
Has(h, s, k, c) ==
  /\ \/ k = 0 /\ c \in DOMAIN h
     \/ k \in DOMAIN s /\ Brings(s[k], c)
  /\ StaysAfter(s, k, c)
Gives(h, s, k, c, m) ==
  /\ \/ k = 0 /\ c \in DOMAIN h /\ h[c].stamp >= m
     \/ k \in DOMAIN s /\ Brings(s[k], c) /\ s[k].items[c].stamp >= m
     \/ /\ k \in DOMAIN s /\ s[k].kind = "rename" /\ s[k].id = c
        /\ \E j \in Nat : j < k /\ Has(h, s, j, c)
  /\ StaysAfter(s, k, c)
Explained(h, s, c, m) == \E k \in Nat : Gives(h, s, k, c, m)

\* What is explained is there, somewhere.
LEMMA ExplainedHas ==
  ASSUME NEW h, NEW s, NEW c, NEW m, Explained(h, s, c, m) PROVE \E k \in Nat : Has(h, s, k, c)
<1>1. PICK k \in Nat : Gives(h, s, k, c, m)
  BY DEF Explained
<1>2. Has(h, s, k, c) \/ \E j \in Nat : Has(h, s, j, c)
  BY <1>1, Zenon DEF Gives, Has
<1> QED BY <1>1, <1>2

\* An operation that does not delete a conversation leaves it explained.
LEMMA AppendExplains ==
  ASSUME NEW h, NEW S, NEW s \in Seq(S), NEW o \in S, NEW c, NEW m, ~Deletes(o, c)
  PROVE /\ Explained(h, s, c, m) => Explained(h, Append(s, o), c, m)
        /\ Brings(o, c) /\ o.items[c].stamp >= m => Explained(h, Append(s, o), c, m)
        /\ o.kind = "rename" /\ o.id = c /\ (\E k \in Nat : Has(h, s, k, c)) => Explained(h, Append(s, o), c, m)
<1>1. PICK n, L : n = Append(s, o) /\ L = Len(s) + 1
  OBVIOUS
<1>2. /\ L \in Nat /\ 0 < L /\ n[L] = o /\ DOMAIN n = DOMAIN s \cup {L}
      /\ \A i \in DOMAIN s : i \in Nat /\ i < L /\ n[i] = s[i]
  BY <1>1
<1>3. ASSUME NEW k, StaysAfter(s, k, c) PROVE StaysAfter(n, k, c)
  BY <1>2, <1>3 DEF StaysAfter
<1>4. ASSUME NEW k, Has(h, s, k, c) PROVE Has(h, n, k, c)
  <2>1. StaysAfter(n, k, c)
    BY <1>3, <1>4 DEF Has
  <2>2. CASE k = 0 /\ c \in DOMAIN h
    BY <2>1, <2>2 DEF Has
  <2>3. CASE k \in DOMAIN s /\ Brings(s[k], c)
    <3>1. k \in DOMAIN n /\ n[k] = s[k]
      BY <1>2, <2>3
    <3> QED BY <2>1, <2>3, <3>1 DEF Has
  <2> QED BY <1>4, <2>2, <2>3 DEF Has
<1>5. ASSUME NEW k \in Nat, Gives(h, s, k, c, m) PROVE Gives(h, n, k, c, m)
  BY <1>2, <1>3, <1>4, <1>5 DEF Gives
<1>6. StaysAfter(n, L, c)
  BY <1>2 DEF StaysAfter
<1>7. ASSUME Brings(o, c), o.items[c].stamp >= m PROVE Gives(h, n, L, c, m)
  BY <1>2, <1>6, <1>7 DEF Gives
<1>8. ASSUME o.kind = "rename", o.id = c, NEW k \in Nat, Has(h, s, k, c) PROVE Gives(h, n, L, c, m)
  <2>1. k < L
    BY <1>2, <1>8 DEF Has
  <2> QED BY <1>2, <1>4, <1>6, <1>8, <2>1 DEF Gives
<1> QED BY <1>1, <1>2, <1>5, <1>7, <1>8 DEF Explained

\* Doing the first operation leaves what it does not delete explained.
LEMMA TailExplains ==
  ASSUME clock \in 0..MaxClock, NEW h, Good(h), NEW S, NEW s \in Seq(S), s # <<>>, NEW o, o = s[1], IsOperation(o),
         NEW n, Len(n) = Len(s) - 1, \A i \in DOMAIN n : i + 1 \in DOMAIN s /\ n[i] = s[i + 1], n \in Seq(S),
         NEW r, r = Histories!Written(h, o), NEW c, NEW m \in Nat, m <= clock, Explained(h, s, c, m)
  PROVE Explained(r, n, c, m)
<1>1. Follows(h, o, r)
  BY WrittenIsGood
<1>2. /\ \A d \in DOMAIN h : h[d].stamp \in Nat
      /\ \A d \in DOMAIN r : r[d].stamp \in Nat
      /\ Brings(o, c) => o.items[c].stamp \in Nat
  <2>1. PICK k : k = o.items
    OBVIOUS
  <2>2. k \in Lists
    BY <2>1 DEF IsOperation, Histories!Operations, Lists
  <2> QED BY <1>1, <2>1, <2>2, InLists DEF Follows, Good, Conversations, Histories!Conversation, Brings
<1>3. DOMAIN s = 1..Len(s) /\ Len(s) \in Nat /\ DOMAIN n = 1..(Len(s) - 1)
  OBVIOUS
<1>4. ASSUME NEW k \in Nat, NEW l \in Nat, k <= l + 1, StaysAfter(s, k, c) PROVE StaysAfter(n, l, c)
  <2>1. ASSUME NEW j \in DOMAIN n, j > l PROVE ~Deletes(n[j], c)
    <3>1. j \in Nat /\ j + 1 > k /\ j + 1 \in DOMAIN s /\ n[j] = s[j + 1]
      BY <1>3, <1>4, <2>1
    <3> QED BY <1>4, <3>1 DEF StaysAfter
  <2> QED BY <2>1 DEF StaysAfter
<1>5. ASSUME StaysAfter(s, 0, c) PROVE ~Deletes(o, c)
  BY <1>3, <1>5 DEF StaysAfter
<1>6. ASSUME NEW k \in Nat, Has(h, s, k, c) PROVE IF k <= 1 THEN Has(r, n, 0, c) ELSE Has(r, n, k - 1, c)
  <2>1. CASE k = 0
    <3>1. StaysAfter(s, 0, c) /\ c \in DOMAIN h
      BY <1>3, <1>6, <2>1 DEF Has
    <3>2. c \in DOMAIN r
      BY <1>1, <1>5, <3>1 DEF Follows, Deletes
    <3>3. StaysAfter(n, 0, c)
      BY <1>4, <3>1
    <3>4. Has(r, n, 0, c)
      BY <3>2, <3>3 DEF Has
    <3> QED BY <2>1, <3>4
  <2>2. CASE k = 1
    <3>1. StaysAfter(s, 1, c) /\ Brings(o, c)
      BY <1>6, <2>2 DEF Has
    <3>2. c \in DOMAIN r
      BY <1>1, <3>1 DEF Follows, Brings
    <3>3. StaysAfter(n, 0, c)
      BY <1>4, <3>1
    <3>4. Has(r, n, 0, c)
      BY <3>2, <3>3 DEF Has
    <3> QED BY <2>2, <3>4
  <2>3. CASE k > 1
    <3>1. k \in DOMAIN s /\ Brings(s[k], c) /\ StaysAfter(s, k, c)
      BY <1>6, <2>3 DEF Has
    <3>2. k - 1 \in DOMAIN n /\ k - 1 \in Nat /\ n[k - 1] = s[k]
      BY <1>3, <2>3, <3>1
    <3> QED BY <1>4, <2>3, <3>1, <3>2 DEF Has
  <2> QED BY <2>1, <2>2, <2>3
<1>7. PICK k \in Nat : Gives(h, s, k, c, m)
  BY DEF Explained
<1>8. StaysAfter(s, k, c)
  BY <1>7 DEF Gives
<1>9. CASE k = 0
  <2>1. c \in DOMAIN h /\ h[c].stamp >= m /\ StaysAfter(n, 0, c) /\ ~Deletes(o, c)
    BY <1>3, <1>4, <1>5, <1>7, <1>8, <1>9 DEF Gives
  <2>2. c \in DOMAIN r /\ r[c].stamp >= m
    BY <1>1, <1>2, <2>1 DEF Follows, Deletes
  <2> QED BY <2>1, <2>2 DEF Explained, Gives
<1>10. CASE k = 1
  <2>1. StaysAfter(n, 0, c)
    BY <1>4, <1>8, <1>10
  <2>2. c \in DOMAIN r /\ r[c].stamp >= m
    <3>1. CASE Brings(o, c) /\ o.items[c].stamp >= m
      BY <1>1, <1>2, <3>1 DEF Follows, Brings
    <3>2. CASE o.kind = "rename" /\ o.id = c /\ \E j \in Nat : j < 1 /\ Has(h, s, j, c)
      <4>1. Has(h, s, 0, c)
        BY <3>2
      <4>2. c \in DOMAIN h
        BY <1>3, <4>1 DEF Has
      <4> QED BY <1>1, <3>2, <4>2 DEF Follows
    <3> QED BY <1>7, <1>10, <3>1, <3>2 DEF Gives
  <2> QED BY <2>1, <2>2 DEF Explained, Gives
<1>11. CASE k > 1
  <2>1. k \in DOMAIN s
    BY <1>7, <1>11 DEF Gives
  <2>2. k - 1 \in DOMAIN n /\ k - 1 \in Nat /\ n[k - 1] = s[k] /\ StaysAfter(n, k - 1, c)
    BY <1>3, <1>4, <1>8, <1>11, <2>1
  <2>3. CASE Brings(s[k], c) /\ s[k].items[c].stamp >= m
    BY <2>2, <2>3 DEF Explained, Gives
  <2>4. CASE s[k].kind = "rename" /\ s[k].id = c /\ \E j \in Nat : j < k /\ Has(h, s, j, c)
    <3>1. PICK j \in Nat : j < k /\ Has(h, s, j, c)
      BY <2>4
    <3>2. \E i \in Nat : i < k - 1 /\ Has(r, n, i, c)
      <4>1. CASE j <= 1
        BY <1>6, <1>11, <3>1, <4>1
      <4>2. CASE j > 1
        <5>1. j - 1 \in Nat /\ j - 1 < k - 1
          BY <3>1, <4>2
        <5> QED BY <1>6, <3>1, <4>2, <5>1
      <4> QED BY <4>1, <4>2
    <3> QED BY <2>2, <2>4, <3>2 DEF Explained, Gives
  <2> QED BY <1>7, <1>11, <2>3, <2>4 DEF Gives
<1> QED BY <1>7, <1>9, <1>10, <1>11

(* While nobody interferes with a tab, it has read the store as it is, and *)
(* what it shows is explained by the store and its queue.                  *)
Cached(t) ==
  /\ snapshot[t] # Histories!Unread => snapshot[t].items = saved
  /\ \A q \in Histories!LoadsOf(t) : queue[t] = <<>> /\ (q.at # "done" => q.was = saved)
  /\ Shows(t) # {} => Len(queue[t]) = 1
  /\ \A c \in DOMAIN list[t] : Explained(saved, queue[t], c, list[t][c].stamp)
CachedInv == \A t \in Tabs \ aside : Cached(t)

\* Nothing of a tab changes but that calls are answered.
LEMMA CachedStays ==
  ASSUME NEW t \in Tabs, Cached(t), saved' = saved, list'[t] = list[t], queue'[t] = queue[t],
         snapshot'[t] = snapshot[t], Histories!LoadsOf(t)' \subseteq Histories!LoadsOf(t)
  PROVE Cached(t)'
<1>1. Shows(t)' = Shows(t)
  BY DEF Shows
<1> QED BY <1>1 DEF Cached, Histories!Unread

\* An edit is explained by the operation it hands to the queue.
LEMMA EditKeepsCached ==
  ASSUME RecordsInv, CachedInv, NEW t \in Tabs, NEW shown, NEW o, Edits(t, shown, o) PROVE CachedInv'
<1>1. /\ list' = [list EXCEPT ![t] = shown] /\ queue' = [queue EXCEPT ![t] = Append(@, o)]
      /\ aside' = IF Histories!loadHistoryInFlight(t) THEN aside \cup {t} ELSE aside
      /\ saved' = saved /\ snapshot' = snapshot /\ calls' \subseteq calls
      /\ o \in Histories!Operations /\ o.then # "show" /\ Explains(list[t], shown, o)
  BY DEF Edits, Histories!Do, Histories!Show, IsOperation
<1>2. \A u \in Tabs : Histories!LoadsOf(u)' \subseteq Histories!LoadsOf(u)
  BY <1>1 DEF Histories!LoadsOf
<1>3. /\ list'[t] = shown /\ queue'[t] = Append(queue[t], o)
      /\ \A u \in Tabs \ {t} : list'[u] = list[u] /\ queue'[u] = queue[u]
  BY <1>1 DEF RecordsInv, ListsInv, QueueInv
<1>4. \A u \in (Tabs \ aside') \ {t} : Cached(u)'
  BY <1>1, <1>2, <1>3, CachedStays DEF CachedInv
<1>5. ASSUME t \notin aside' PROVE Cached(t)'
  <2>1. t \notin aside /\ ~Loading(t)
    BY <1>1, <1>5, LoadingIsInFlight
  <2>2. Cached(t)
    BY <2>1 DEF CachedInv
  <2>3. Shows(t)' = {}
    BY <1>1, <2>1, ShowsOfAppended DEF RecordsInv, Loading
  <2>4. Histories!LoadsOf(t)' = {}
    BY <1>2, <2>1 DEF Loading
  <2>5. ASSUME NEW c \in DOMAIN shown PROVE Explained(saved, queue'[t], c, shown[c].stamp)
    <3>1. PICK S, s, h : S = Histories!Operations /\ s = queue[t] /\ h = saved
      OBVIOUS
    <3>2. s \in Seq(S) /\ o \in S
      BY <1>1, <3>1 DEF RecordsInv, QueueInv
    <3>3. PICK m : m = shown[c].stamp
      OBVIOUS
    <3>4. \A l : c \in DOMAIN list[t] /\ l = list[t][c].stamp => Explained(h, s, c, l)
      BY <2>2, <3>1 DEF Cached
    <3>5. Explained(h, Append(s, o), c, m)
      <4>1. CASE c \in DOMAIN list[t] /\ m = list[t][c].stamp /\ ~Deletes(o, c)
        <5>1. Explained(h, s, c, m)
          BY <3>4, <4>1
        <5> QED BY <3>2, <4>1, <5>1, AppendExplains
      <4>2. CASE o.kind = "save" /\ c \in DOMAIN o.items /\ o.items[c].stamp = m
        <5>1. m \in Nat
          <6>1. PICK k : k = o.items
            OBVIOUS
          <6>2. k \in Lists
            BY <1>1, <6>1 DEF Histories!Operations, Lists
          <6> QED BY <4>2, <6>1, <6>2, InLists DEF Conversations, Histories!Conversation
        <5>2. ~Deletes(o, c) /\ Brings(o, c) /\ o.items[c].stamp >= m
          BY <4>2, <5>1 DEF Deletes, Brings
        <5> QED BY <3>2, <5>2, AppendExplains
      <4>3. CASE o.kind = "rename" /\ o.id = c /\ c \in DOMAIN list[t]
        <5>1. PICK l : l = list[t][c].stamp
          OBVIOUS
        <5>2. Explained(h, s, c, l)
          BY <3>4, <4>3, <5>1
        <5>3. \E k \in Nat : Has(h, s, k, c)
          BY <5>2, ExplainedHas
        <5>4. ~Deletes(o, c)
          BY <4>3 DEF Deletes
        <5> QED BY <3>2, <4>3, <5>3, <5>4, AppendExplains
      <4> QED BY <1>1, <3>3, <4>1, <4>2, <4>3 DEF Explains, Deletes
    <3> QED BY <1>3, <3>1, <3>3, <3>5
  <2> QED BY <1>1, <1>3, <2>2, <2>3, <2>4, <2>5 DEF Cached, Histories!Unread
<1> QED BY <1>4, <1>5 DEF CachedInv

\* What a tab writes goes into the store it has read.
LEMMA WriteKeepsCached ==
  ASSUME RecordsInv, CachedInv, NEW t \in Tabs, Histories!WriteStore(t) PROVE CachedInv'
<1>1. PICK h, o, n, r : h = snapshot[t].items /\ o = Head(queue[t]) /\ n = Tail(queue[t]) /\ r = saved'
  OBVIOUS
<1>2. /\ queue' = [queue EXCEPT ![t] = Tail(@)] /\ snapshot[t] # Histories!Unread
      /\ snapshot' = [snapshot EXCEPT ![t] = Histories!Unread]
      /\ calls' = calls \cup Histories!CallsOf(t, o) /\ r = Histories!Written(h, o)
      /\ aside' = aside \cup (Tabs \ {t})
      /\ IF o.then = "show" THEN Histories!Restore(t, o.items) ELSE UNCHANGED list
  BY <1>1 DEF Histories!WriteStore
<1>3. queue[t] # <<>> /\ Good(h) /\ clock \in 0..MaxClock
  BY <1>1, <1>2 DEF RecordsInv, SnapshotInv, ListsInv
<1>4. /\ IsOperation(o) /\ o = queue[t][1] /\ n \in Seq(Histories!Operations) /\ Len(n) = Len(queue[t]) - 1
      /\ \A i \in DOMAIN n : i + 1 \in DOMAIN queue[t] /\ n[i] = queue[t][i + 1]
  BY <1>1, <1>3, HeadIsOperation
<1>5. ASSUME t \notin aside' PROVE Cached(t)'
  <2>1. Cached(t) /\ h = saved
    BY <1>1, <1>2, <1>5 DEF CachedInv, Cached
  <2>2. Histories!LoadsOf(t)' = {}
    BY <1>2, <1>3, <1>4, <2>1, CallsOfAreGood DEF Cached, Histories!LoadsOf
  <2>3. queue'[t] = n /\ snapshot'[t] = Histories!Unread
    BY <1>1, <1>2 DEF RecordsInv, QueueInv, SnapshotInv
  <2>4. /\ \A i \in Shows(t)' : i + 1 \in Shows(t) /\ i \in Nat
        /\ o.then = "show" => 1 \in Shows(t)
    BY <1>1, <1>2, <1>3, ShowsOfRest
  <2>5. Shows(t) # {} => Len(n) = 0
    BY <1>4, <2>1 DEF Cached
  <2>6. Shows(t)' = {}
    <3>1. ASSUME NEW i \in Shows(t)' PROVE FALSE
      <4>1. i \in DOMAIN n /\ Len(n) = 0
        BY <2>3, <2>4, <2>5 DEF Shows
      <4> QED BY <1>4, <4>1
    <3> QED BY <3>1
  <2>7. CASE o.then # "show"
    <3>1. list' = list
      BY <1>2, <2>7
    <3>2. ASSUME NEW c \in DOMAIN list[t] PROVE Explained(r, n, c, list[t][c].stamp)
      <4>1. PICK m, s, S : m = list[t][c].stamp /\ s = queue[t] /\ S = Histories!Operations
        OBVIOUS
      <4>2. Explained(h, s, c, m)
        BY <2>1, <4>1 DEF Cached
      <4>3. m \in Nat /\ m <= clock
        BY <4>1, MemberIsGood DEF RecordsInv, ListsInv, GoodConversation, Conversations, Histories!Conversation
      <4>4. /\ s \in Seq(S) /\ s # <<>> /\ o = s[1] /\ Len(n) = Len(s) - 1 /\ n \in Seq(S)
            /\ \A i \in DOMAIN n : i + 1 \in DOMAIN s /\ n[i] = s[i + 1]
        BY <1>3, <1>4, <4>1 DEF RecordsInv, QueueInv
      <4>5. Explained(r, n, c, m)
        BY <1>2, <1>3, <1>4, <4>2, <4>3, <4>4, TailExplains
      <4> QED BY <4>1, <4>5
    <3> QED BY <1>1, <2>2, <2>3, <2>6, <3>1, <3>2 DEF Cached
  <2>8. CASE o.then = "show"
    <3>1. PICK k : k = o.items
      OBVIOUS
    <3>2. list' = [list EXCEPT ![t] = k]
      BY <1>2, <2>8, <3>1 DEF Histories!Restore
    <3>3. list'[t] = k
      BY <3>2 DEF RecordsInv, ListsInv
    <3>4. Follows(h, o, r)
      BY <1>2, <1>3, <1>4, WrittenIsGood
    <3>5. o.kind = "save" /\ n = <<>>
      BY <1>4, <2>4, <2>5, <2>8 DEF IsOperation
    <3>6. \A c \in DOMAIN k : c \in DOMAIN r /\ r[c].stamp >= k[c].stamp
      BY <3>1, <3>4, <3>5 DEF Follows
    <3>7. \A c \in DOMAIN k : Explained(r, n, c, k[c].stamp)
      BY <3>5, <3>6 DEF Explained, Gives, StaysAfter
    <3> QED BY <1>1, <2>2, <2>3, <2>6, <3>3, <3>7 DEF Cached
  <2> QED BY <2>7, <2>8
<1>6. \A u \in Tabs \ aside' : u = t
  BY <1>2
<1> QED BY <1>5, <1>6 DEF CachedInv

\* A tab reads the store as it is.
LEMMA ReadKeepsCached ==
  ASSUME RecordsInv, CachedInv, NEW t \in Tabs, Histories!readStoredImageConversations(t) PROVE CachedInv'
<1>1. /\ snapshot' = [snapshot EXCEPT ![t] = [read |-> TRUE, items |-> saved]]
      /\ UNCHANGED <<saved, list, queue, aside, calls>>
  BY DEF Histories!readStoredImageConversations
<1>2. snapshot'[t].items = saved /\ \A u \in Tabs \ {t} : snapshot'[u] = snapshot[u]
  BY <1>1 DEF RecordsInv, SnapshotInv
<1>3. \A u \in Tabs : Histories!LoadsOf(u)' = Histories!LoadsOf(u) /\ Shows(u)' = Shows(u)
  BY <1>1 DEF Histories!LoadsOf, Shows
<1> QED BY <1>1, <1>2, <1>3 DEF CachedInv, Cached, Histories!Unread

\* The server answers a load, or does not: what was read stays what it was.
LEMMA ServerKeepsCached ==
  ASSUME RecordsInv, CachedInv, NEW q \in calls, Histories!Handle(q) \/ Histories!Fail(q) PROVE CachedInv'
<1>1. UNCHANGED <<saved, list, queue, snapshot, aside>> /\ q.at = "sent"
  BY DEF Histories!Handle, Histories!Fail
<1>2. IsCall(q)
  BY DEF RecordsInv, CallsInv
<1>3. PICK r : /\ calls' \subseteq (calls \ {q}) \cup {r} /\ r.kind = q.kind /\ r.tab = q.tab
               /\ q.kind = "load" /\ r.at # "done" => r.was = q.was
  <2>1. CASE Histories!Fail(q)
    <3>1. PICK r : r = [q EXCEPT !.at = "failed"]
      OBVIOUS
    <3>2. r.kind = q.kind /\ r.tab = q.tab /\ r.was = q.was
      BY <1>2, <3>1 DEF IsCall
    <3>3. calls' \subseteq (calls \ {q}) \cup {r}
      BY <2>1, <3>1 DEF Histories!Fail
    <3> QED BY <3>2, <3>3
  <2>2. CASE Histories!Handle(q) /\ q.kind = "load"
    <3>1. PICK s : s = server
      OBVIOUS
    <3>2. PICK r : r = [q EXCEPT !.at = "done", !.was = s]
      OBVIOUS
    <3>3. r.kind = q.kind /\ r.tab = q.tab /\ r.at = "done"
      BY <1>2, <3>2 DEF IsCall
    <3>4. calls' \subseteq (calls \ {q}) \cup {r}
      BY <2>2, <3>1, <3>2 DEF Histories!Handle
    <3> QED BY <3>3, <3>4
  <2>3. CASE Histories!Handle(q) /\ q.kind # "load"
    <3>1. PICK r : r = [q EXCEPT !.at = "done"]
      OBVIOUS
    <3>2. r.kind = q.kind /\ r.tab = q.tab
      BY <1>2, <3>1 DEF IsCall
    <3>3. calls' \subseteq (calls \ {q}) \cup {r}
      BY <2>3, <3>1 DEF Histories!Handle
    <3> QED BY <2>3, <3>2, <3>3
  <2> QED BY <2>1, <2>2, <2>3
<1>4. ASSUME NEW u \in Tabs \ aside PROVE Cached(u)'
  <2>1. Cached(u)
    BY DEF CachedInv
  <2>2. ASSUME NEW a \in Histories!LoadsOf(u)' PROVE queue[u] = <<>> /\ (a.at # "done" => a.was = saved)
    <3>1. CASE a = r
      <4>1. q \in Histories!LoadsOf(u) /\ q.kind = "load"
        BY <1>3, <2>2, <3>1 DEF Histories!LoadsOf
      <4> QED BY <1>1, <1>3, <2>1, <3>1, <4>1 DEF Cached
    <3>2. CASE a # r
      <4>1. a \in Histories!LoadsOf(u)
        BY <1>3, <2>2, <3>2 DEF Histories!LoadsOf
      <4> QED BY <2>1, <4>1 DEF Cached
    <3> QED BY <3>1, <3>2
  <2>3. Shows(u)' = Shows(u)
    BY <1>1 DEF Shows
  <2> QED BY <1>1, <2>1, <2>2, <2>3 DEF Cached, Histories!Unread
<1> QED BY <1>1, <1>4 DEF CachedInv

\* A load begins with the store, when nothing waits to be written.
LEMMA LoadKeepsCached ==
  ASSUME RecordsInv, CachedInv, NEW t \in Tabs, Histories!loadHistory(t) PROVE CachedInv'
<1>1. PICK s : s = saved
  OBVIOUS
<1>2. PICK r : r = [kind |-> "load", tab |-> t, id |-> 0, at |-> "sent",
                    renamed |-> FALSE, vote |-> FALSE, was |-> s]
  OBVIOUS
<1>3. /\ calls' = calls \cup {r} /\ r.tab = t /\ r.was = saved /\ ~Loading(t)
      /\ UNCHANGED <<saved, list, queue, snapshot>>
      /\ aside' = IF queue[t] = <<>> THEN aside ELSE aside \cup {t}
  BY <1>1, <1>2, LoadingIsInFlight DEF Histories!loadHistory
<1>4. ASSUME NEW u \in Tabs \ aside' PROVE Cached(u)'
  <2>1. Cached(u) /\ (u = t => queue[u] = <<>>)
    BY <1>3, <1>4 DEF CachedInv
  <2>2. \A a \in Histories!LoadsOf(u)' : a \in Histories!LoadsOf(u) \/ (a = r /\ u = t)
    BY <1>3 DEF Histories!LoadsOf
  <2>3. Shows(u)' = Shows(u)
    BY <1>3 DEF Shows
  <2> QED BY <1>3, <2>1, <2>2, <2>3 DEF Cached, Histories!Unread
<1> QED BY <1>4 DEF CachedInv

\* A load ends: what the server answered is to be saved, or what was read is shown.
LEMMA LoadEndKeepsCached ==
  ASSUME RecordsInv, DraftsInv, CachedInv, NEW q \in calls, Histories!loadServerConversations(q) PROVE CachedInv'
<1>1. PICK t, h : t = q.tab /\ h = q.was
  OBVIOUS
<1>2. /\ t \in Tabs /\ q \in Histories!LoadsOf(t) /\ calls' = calls \ {q} /\ Good(h)
      /\ UNCHANGED <<saved, snapshot, aside>>
  BY <1>1 DEF Histories!loadServerConversations, RecordsInv, CallsInv, IsCall, Histories!LoadsOf
<1>3. \A u \in Tabs : Histories!LoadsOf(u)' \subseteq Histories!LoadsOf(u)
  BY <1>2 DEF Histories!LoadsOf
<1>4. Histories!LoadsOf(t)' = {} /\ Shows(t) = {}
  <2>1. OneLoad(t)
    BY <1>2 DEF DraftsInv, OneDraft
  <2> QED BY <1>2, <2>1 DEF OneLoad, Histories!LoadsOf
<1>5. t \notin aside => Cached(t) /\ queue[t] = <<>> /\ (q.at # "done" => h = saved)
  BY <1>1, <1>2 DEF CachedInv, Cached
<1>6. CASE q.at = "done"
  <2>1. PICK o : o = [kind |-> "save", id |-> 0, items |-> h, then |-> "show", was |-> Histories!None]
    OBVIOUS
  <2>2. queue' = [queue EXCEPT ![t] = Append(@, o)] /\ UNCHANGED list
    BY <1>1, <1>6, <2>1 DEF Histories!loadServerConversations, Histories!Operation
  <2>3. o \in Histories!Operations
    BY <1>2, <2>1, NoneIsGood DEF Histories!Operations, Good, Lists
  <2>4. queue'[t] = Append(queue[t], o) /\ \A u \in Tabs \ {t} : queue'[u] = queue[u]
    BY <1>2, <2>2 DEF RecordsInv, QueueInv
  <2>5. ASSUME t \notin aside PROVE Cached(t)'
    <3>1. PICK S, s, g : S = Histories!Operations /\ s = queue[t] /\ g = saved
      OBVIOUS
    <3>2. s \in Seq(S) /\ s = <<>> /\ o \in S
      <4>1. s \in Seq(S)
        BY <1>2, <3>1 DEF RecordsInv, QueueInv
      <4>2. s = <<>>
        BY <1>5, <2>5, <3>1, Zenon
      <4>3. o \in S
        BY <2>3, <3>1
      <4> QED BY <4>1, <4>2, <4>3
    <3>3. Len(Append(s, o)) = 1
      BY <3>2
    <3>4. ~Deletes(o, 0) /\ o.kind = "save"
      BY <2>1 DEF Deletes
    <3>5. ASSUME NEW c \in DOMAIN list[t] PROVE Explained(saved, queue'[t], c, list[t][c].stamp)
      <4>1. PICK m : m = list[t][c].stamp
        OBVIOUS
      <4>2. Explained(g, s, c, m) /\ ~Deletes(o, c)
        BY <1>5, <2>5, <3>1, <3>4, <4>1 DEF Cached, Deletes
      <4>3. Explained(g, Append(s, o), c, m)
        BY <3>2, <4>2, AppendExplains
      <4> QED BY <2>4, <3>1, <4>1, <4>3
    <3>6. Len(queue'[t]) = 1
      BY <2>4, <3>1, <3>3
    <3> QED BY <1>2, <1>4, <1>5, <2>2, <2>5, <3>5, <3>6 DEF Cached, Histories!Unread
  <2>6. \A u \in (Tabs \ aside) \ {t} : Cached(u)'
    BY <1>2, <1>3, <2>2, <2>4, CachedStays DEF CachedInv
  <2> QED BY <1>2, <2>5, <2>6 DEF CachedInv
<1>7. CASE q.at # "done"
  <2>1. Histories!Restore(t, h) /\ UNCHANGED queue
    BY <1>1, <1>7 DEF Histories!loadServerConversations
  <2>2. list' = [list EXCEPT ![t] = h]
    BY <2>1 DEF Histories!Restore
  <2>3. list'[t] = h /\ \A u \in Tabs \ {t} : list'[u] = list[u]
    BY <1>2, <2>2 DEF RecordsInv, ListsInv
  <2>4. ASSUME t \notin aside PROVE Cached(t)'
    <3>1. h = saved /\ queue[t] = <<>> /\ Cached(t)
      BY <1>5, <1>7, <2>4
    <3>2. \A c \in DOMAIN h : h[c].stamp \in Nat
      BY <1>2, InLists DEF Good, Conversations, Histories!Conversation
    <3>3. \A c \in DOMAIN h : Explained(h, <<>>, c, h[c].stamp)
      BY <3>2 DEF Explained, Gives, StaysAfter
    <3>4. Shows(t)' = {}
      BY <1>4, <2>1 DEF Shows
    <3> QED BY <1>2, <1>4, <2>1, <2>3, <3>1, <3>3, <3>4 DEF Cached, Histories!Unread
  <2>5. \A u \in (Tabs \ aside) \ {t} : Cached(u)'
    BY <1>2, <1>3, <2>1, <2>3, CachedStays DEF CachedInv
  <2> QED BY <1>2, <2>4, <2>5 DEF CachedInv
<1> QED BY <1>6, <1>7

\* Every step keeps what is shown explained.
LEMMA CachedStep ==
  ASSUME RecordsInv, DraftsInv, CachedInv, [Histories!Next]_(Histories!vars) PROVE CachedInv'
<1>1. ASSUME UNCHANGED <<saved, list, queue, snapshot, calls, aside>> PROVE CachedInv'
  <2>1. \A u \in Tabs : Histories!LoadsOf(u)' = Histories!LoadsOf(u)
    BY <1>1 DEF Histories!LoadsOf
  <2> QED BY <1>1, <2>1, CachedStays DEF CachedInv
<1>2. ASSUME \/ UNCHANGED Histories!vars \/ Histories!Tick
             \/ \E t \in Tabs : \/ Histories!handleCreateDraft(t)
                                \/ \E c \in ConversationIds : Histories!handleSelectConversation(t, c)
      PROVE CachedInv'
  BY <1>1, <1>2 DEF Histories!vars, Histories!Tick, Histories!handleCreateDraft, Histories!handleSelectConversation
<1> QED BY <1>2, HistoryCases, EditKeepsCached, WriteKeepsCached, ReadKeepsCached, ServerKeepsCached,
           LoadKeepsCached, LoadEndKeepsCached

\* Once its writes are done, whatever a tab shows is in the store at least as
\* recent, unless another tab wrote or it was written while it loaded: the
\* invariant CacheFollows of the history of image/page.tsx and its store.
THEOREM CacheAlwaysFollows == Histories!Spec => []CacheFollows
<1> DEFINE Inv == RecordsInv /\ DraftsInv /\ CachedInv
<1>1. Histories!Init => Inv
  <2> SUFFICES ASSUME Histories!Init PROVE Inv
    OBVIOUS
  <2>1. RecordsInv
    BY RecordsInit
  <2>2. DraftsInv
    BY DEF Histories!Init, DraftsInv, OneDraft, OneLoad, Shows, Histories!LoadsOf
  <2>3. ASSUME NEW t \in Tabs PROVE Cached(t)
    <3>1. /\ snapshot[t] = Histories!Unread /\ queue[t] = <<>> /\ calls = {} /\ list[t] = saved
      BY DEF Histories!Init
    <3>2. Shows(t) = {} /\ Histories!LoadsOf(t) = {}
      BY <3>1 DEF Shows, Histories!LoadsOf
    <3>3. \A c \in DOMAIN saved : saved[c].stamp \in Nat
      BY <2>1, InLists DEF RecordsInv, ListsInv, Good, Conversations, Histories!Conversation
    <3>4. \A c \in DOMAIN saved : Explained(saved, <<>>, c, saved[c].stamp)
      BY <3>3 DEF Explained, Gives, StaysAfter
    <3> QED BY <3>1, <3>2, <3>4 DEF Cached
  <2> QED BY <2>1, <2>2, <2>3 DEF CachedInv
<1>2. Inv /\ [Histories!Next]_(Histories!vars) => Inv'
  BY RecordsStep, DraftsStep, CachedStep
<1>3. Inv => CacheFollows
  <2> SUFFICES ASSUME CachedInv, NEW t \in Tabs \ aside, queue[t] = <<>>, NEW c \in DOMAIN list[t]
               PROVE c \in DOMAIN saved /\ saved[c].stamp >= list[t][c].stamp
    BY DEF CacheFollows, Histories!CacheFollows
  <2>1. Explained(saved, <<>>, c, list[t][c].stamp)
    BY DEF CachedInv, Cached
  <2> QED BY <2>1 DEF Explained, Gives
<1> QED BY <1>1, <1>2, <1>3, PTL DEF Histories!Spec

---------------------------------------------------------------------------
(* The home page                                                           *)

\* Sections that come in, or change, bring the list up to date.
LEMMA SectionsKeepNav ==
  ASSUME NavAttended, NEW new, Home!SetSections(new) PROVE NavAttended'
<1>1. CASE DOMAIN new = {}
  BY <1>1 DEF Home!SetSections, NavAttended, Home!NavAttended, Home!Listening
<1>2. CASE DOMAIN new # {}
  BY <1>2 DEF Home!SetSections, Home!updateGalleryNavState, NavAttended, Home!NavAttended, Home!Listening
<1> QED BY <1>1, <1>2

\* Every step of the home page attends to the list.
LEMMA NavStep == NavAttended /\ [Home!Next]_(Home!vars) => NavAttended'
<1> SUFFICES ASSUME NavAttended, [Home!Next]_(Home!vars) PROVE NavAttended'
  OBVIOUS
<1> USE DEF NavAttended, Home!NavAttended, Home!Listening
<1>1. CASE UNCHANGED <<sections, Home!navVars>>
  BY <1>1 DEF Home!navVars
<1>2. CASE Home!Loading
  <2>1. CASE Home!LoadInitial
    BY <2>1, SectionsKeepNav DEF Home!LoadInitial
  <2>2. CASE Home!LoadRest
    BY <2>2, SectionsKeepNav DEF Home!LoadRest
  <2>3. CASE Home!LoadFacets \/ Home!LoadCurated \/ Home!BrowserIdle \/ Home!LoadFails
    BY <1>1, <2>3 DEF Home!LoadFacets, Home!LoadCurated, Home!BrowserIdle, Home!LoadFails
  <2> QED BY <1>2, <2>1, <2>2, <2>3 DEF Home!Loading
<1>3. CASE Home!SwapHero
  BY <1>1, <1>3 DEF Home!SwapHero
<1>4. CASE Home!rotateOneGalleryCard
  BY <1>4, SectionsKeepNav DEF Home!rotateOneGalleryCard
<1>5. CASE Home!markGalleryNavIntent \/ Home!IntentAges
  BY <1>5 DEF Home!markGalleryNavIntent, Home!IntentAges
<1>6. CASE Home!NextFrame
  BY <1>6 DEF Home!NextFrame, Home!updateGalleryNavState
<1>7. CASE Home!HideNav
  BY <1>7 DEF Home!HideNav
<1>8. ASSUME NEW place, Home!Scroll(place) PROVE NavAttended'
  BY <1>8 DEF Home!Scroll
<1>9. CASE UNCHANGED Home!vars
  BY <1>1, <1>9 DEF Home!vars
<1> QED BY <1>2, <1>3, <1>4, <1>5, <1>6, <1>7, <1>8, <1>9 DEF Home!Next

(* The list of sections is never left on the screen without a timer, and   *)
(* it marks the section that is read (updateGalleryNavState of app/page).  *)
THEOREM NavIsAttended == Home!Spec => []NavAttended
<1>1. Home!Init => NavAttended
  BY DEF Home!Init, NavAttended, Home!NavAttended
<1> QED BY <1>1, NavStep, PTL DEF Home!Spec

---------------------------------------------------------------------------
(* The cards of the home page                                              *)

(* A list of pictures, none of them twice.                                 *)
Wall(s) == s \in Seq(Pictures) /\ Home!IsInjective(s)

(* A section has its featured pictures among its cards.                    *)
Section(c, s) ==
  /\ s \in [cards : Seq(Pictures), rotation : SUBSET Pictures] /\ Home!IsInjective(s.cards)
  /\ Featured[c] \cap s.rotation \subseteq Home!ToSet(s.cards)

CardsInv ==
  /\ pictures \subseteq Pictures /\ visible \subseteq PictureCategories
  /\ Wall(hero) /\ Wall(slides)
  /\ DOMAIN sections \subseteq PictureCategories /\ \A c \in DOMAIN sections : Section(c, sections[c])

\* The home page counts as everybody does.
LEMMA HomeCounts ==
  ASSUME NEW S
  PROVE  Home!Cardinality(S) = Cardinality(S) /\ (Home!IsFiniteSet(S) <=> IsFiniteSet(S))
BY DEF Cardinality, Home!Cardinality, IsFiniteSet, Home!IsFiniteSet

\* What is assumed of the constants of the home page.
LEMMA HomeBounds ==
  /\ Pictures \subseteq Nat /\ IsFiniteSet(Pictures)
  /\ \A c \in PictureCategories :
       /\ Featured[c] \subseteq Pictures /\ IsFiniteSet(Featured[c])
       /\ Cardinality(Featured[c]) <= CardsPerSection
  /\ HeroIds \subseteq Pictures /\ HeroPool \subseteq Pictures
  /\ HeroCount \in Nat /\ CardsPerSection \in Nat /\ RotationLimit \in Nat
<1>1. /\ Pictures \subseteq Nat /\ IsFiniteSet(Pictures) /\ Featured \in [PictureCategories -> SUBSET Pictures]
      /\ \A c \in PictureCategories : Cardinality(Featured[c]) <= CardsPerSection
      /\ HeroIds \subseteq HeroPool /\ HeroPool \subseteq Pictures
      /\ HeroCount \in Nat /\ CardsPerSection \in Nat /\ RotationLimit \in Nat
  <2>1. Home!ConstantsOK BY PagesConstantsOK DEF PagesConstantsOK
  <2>2. IsFiniteSet(Pictures) BY <2>1, HomeCounts DEF Home!ConstantsOK
  <2>3. ASSUME NEW c \in PictureCategories PROVE Cardinality(Featured[c]) <= CardsPerSection
    <3>1. Home!Cardinality(Featured[c]) <= CardsPerSection BY <2>1 DEF Home!ConstantsOK
    <3>2. Home!Cardinality(Featured[c]) = Cardinality(Featured[c]) BY HomeCounts
    <3> QED BY <3>1, <3>2
  <2> QED BY <2>1, <2>2, <2>3 DEF Home!ConstantsOK
<1>2. \A c \in PictureCategories : Featured[c] \subseteq Pictures BY <1>1
<1>3. \A c \in PictureCategories : IsFiniteSet(Featured[c]) BY <1>1, <1>2, FS_Subset
<1> QED BY <1>1, <1>2, <1>3

\* Different pictures have different places, below their number.
LEMMA RankOrders ==
  ASSUME NEW S \in SUBSET Pictures
  PROVE  /\ IsFiniteSet(S) /\ Cardinality(S) \in Nat
         /\ \A i \in S : Home!Rank(i, S) \in 0..(Cardinality(S) - 1)
         /\ \A i, j \in S : Home!Rank(i, S) = Home!Rank(j, S) => i = j
<1>1. IsFiniteSet(S) /\ Cardinality(S) \in Nat BY HomeBounds, FS_Subset, FS_CardinalityType
<1> DEFINE Ahead(i) == {j \in S : Home!Better(j, i)}
<1>2. ASSUME NEW i \in S PROVE Home!Rank(i, S) = Cardinality(Ahead(i)) BY HomeCounts DEF Home!Rank
<1>3. ASSUME NEW i \in S
      PROVE  IsFiniteSet(Ahead(i)) /\ Cardinality(Ahead(i)) \in Nat /\ Cardinality(Ahead(i)) < Cardinality(S)
  <2>1. IsFiniteSet(Ahead(i)) /\ Cardinality(Ahead(i)) <= Cardinality(S) /\ (Cardinality(S) = Cardinality(Ahead(i)) => S = Ahead(i))
    <3>1. Ahead(i) \in SUBSET S OBVIOUS
    <3> QED BY <1>1, <3>1, FS_Subset
  <2>2. i \notin Ahead(i) BY HomeBounds DEF Home!Better
  <2>3. Cardinality(Ahead(i)) \in Nat BY <2>1, FS_CardinalityType
  <2> QED BY <1>1, <2>1, <2>2, <2>3
<1>4. ASSUME NEW i \in S, NEW j \in S, i < j PROVE Cardinality(Ahead(i)) < Cardinality(Ahead(j))
  <2>1. Ahead(i) \in SUBSET Ahead(j) BY <1>4, HomeBounds DEF Home!Better
  <2>2. i \in Ahead(j) /\ i \notin Ahead(i) BY <1>4, HomeBounds DEF Home!Better
  <2>3. /\ Cardinality(Ahead(i)) <= Cardinality(Ahead(j))
        /\ Cardinality(Ahead(j)) = Cardinality(Ahead(i)) => Ahead(j) = Ahead(i)
    BY <1>3, <2>1, FS_Subset
  <2> QED BY <1>3, <2>2, <2>3
<1> HIDE DEF Ahead
<1>5. ASSUME NEW i \in S, NEW j \in S, i # j PROVE Cardinality(Ahead(i)) # Cardinality(Ahead(j))
  <2>1. i \in Nat /\ j \in Nat BY HomeBounds
  <2>2. i < j \/ j < i BY <1>5, <2>1
  <2>3. Cardinality(Ahead(i)) \in Nat /\ Cardinality(Ahead(j)) \in Nat BY <1>3
  <2>4. CASE i < j BY <1>4, <2>3, <2>4
  <2>5. CASE j < i BY <1>4, <2>3, <2>5
  <2> QED BY <2>2, <2>4, <2>5
<1>6. \A i \in S : Home!Rank(i, S) \in 0..(Cardinality(S) - 1) BY <1>1, <1>2, <1>3
<1>7. \A i, j \in S : Home!Rank(i, S) = Home!Rank(j, S) => i = j BY <1>2, <1>5
<1> QED BY <1>1, <1>6, <1>7

\* There is a picture for every place.
LEMMA RankFills ==
  ASSUME NEW S \in SUBSET Pictures, NEW k \in 1..Cardinality(S)
  PROVE  \E i \in S : Home!Rank(i, S) = k - 1
<1>1. PICK f : f = [i \in S |-> Home!Rank(i, S)] OBVIOUS
<1>2. PICK n \in Nat : n = Cardinality(S) BY RankOrders
<1>3. f \in Injection(S, 0..(n - 1))
  <2>1. f \in [S -> 0..(n - 1)] BY <1>1, <1>2, RankOrders
  <2>2. IsInjective(f) BY <1>1, RankOrders DEF IsInjective
  <2> QED BY <2>1, <2>2 DEF Injection
<1>4. IsFiniteSet(0..(n - 1)) /\ Cardinality(0..(n - 1)) = n
  <2>1. n - 1 \in Int /\ 0 \in Int BY <1>2
  <2>2. IsFiniteSet(0..(n - 1)) /\ Cardinality(0..(n - 1)) = IF 0 > n - 1 THEN 0 ELSE n - 1 - 0 + 1
    BY <2>1, FS_Interval
  <2> QED BY <1>2, <2>2
<1>5. f \in Surjection(S, 0..(n - 1)) BY <1>2, <1>3, <1>4, FS_Injection
<1>6. k - 1 \in 0..(n - 1) BY <1>2
<1>7. PICK i \in S : f[i] = k - 1 BY <1>5, <1>6 DEF Surjection
<1> QED BY <1>1, <1>7

\* A sorted list has every picture of its set once.
LEMMA SortedHas ==
  ASSUME NEW S \in SUBSET Pictures, NEW t, t = Home!sortGalleryItemsByQuality(S)
  PROVE  /\ t \in Seq(Pictures) /\ Len(t) = Cardinality(S) /\ Home!IsInjective(t)
         /\ \A k \in DOMAIN t : t[k] \in S
<1>1. PICK n \in Nat : n = Cardinality(S) BY RankOrders
<1>2. t = [k \in 1..Cardinality(S) |-> CHOOSE i \in S : Home!Rank(i, S) = k - 1] BY HomeCounts DEF Home!sortGalleryItemsByQuality
<1>3. ASSUME NEW k \in 1..n PROVE t[k] \in S /\ Home!Rank(t[k], S) = k - 1
  <2>1. \E i \in S : Home!Rank(i, S) = k - 1 BY <1>1, RankFills
  <2>2. t[k] = CHOOSE i \in S : Home!Rank(i, S) = k - 1 BY <1>1, <1>2
  <2> QED BY <2>1, <2>2
<1>4. DOMAIN t = 1..n BY <1>1, <1>2
<1>5. t \in [1..n -> Pictures] BY <1>1, <1>2, <1>3
<1>6. t \in Seq(Pictures) /\ Len(t) = n BY <1>4, <1>5
<1>7. Home!IsInjective(t)
  <2>1. ASSUME NEW a \in 1..n, NEW b \in 1..n, t[a] = t[b] PROVE a = b
    <3>1. a - 1 = b - 1 BY <1>3, <2>1
    <3> QED BY <3>1
  <2> QED BY <1>4, <2>1 DEF Home!IsInjective
<1> QED BY <1>1, <1>3, <1>4, <1>6, <1>7

\* The first cards of a list are those of the list.
LEMMA FirstCardsOf ==
  ASSUME NEW s \in Seq(Pictures), NEW n \in Nat, NEW t, t = Home!FirstCards(s, n)
  PROVE  /\ t \in Seq(Pictures) /\ Len(t) = (IF Len(s) < n THEN Len(s) ELSE n)
         /\ \A k \in 1..Len(t) : k \in 1..Len(s) /\ t[k] = s[k]
         /\ Wall(s) => Wall(t)
<1>1. PICK m : m = IF Len(s) < n THEN Len(s) ELSE n OBVIOUS
<1>2. m \in Nat /\ m <= Len(s) BY <1>1
<1>3. t = SubSeq(s, 1, m) BY <1>1 DEF Home!FirstCards
<1>4. t \in Seq(Pictures) /\ Len(t) = m /\ \A k \in 1..m : k \in 1..Len(s) /\ t[k] = s[k] BY <1>2, <1>3
<1>5. DOMAIN t = 1..m /\ DOMAIN s = 1..Len(s) BY <1>4
<1>6. ASSUME Home!IsInjective(s) PROVE Home!IsInjective(t)
  BY <1>4, <1>5, <1>6 DEF Home!IsInjective
<1> QED BY <1>1, <1>4, <1>6 DEF Wall

\* What is selected has nothing twice, and what is preferred comes first.
LEMMA Selected ==
  ASSUME NEW loaded \in SUBSET Pictures, NEW preferred \in SUBSET Pictures, NEW limit \in Nat, NEW categories,
         NEW r, r = Home!selectGalleryItems(loaded, preferred, limit, categories)
  PROVE  /\ Wall(r) /\ \A k \in DOMAIN r : r[k] \in loaded
         /\ \A k \in DOMAIN r : r[k] \in preferred => k <= Cardinality(preferred)
<1>1. PICK first : first = preferred \cap loaded OBVIOUS
<1>2. PICK fallback : fallback = {i \in loaded \ first : CategoryOf[i] \in categories} OBVIOUS
<1>3. first \in SUBSET Pictures /\ fallback \in SUBSET Pictures BY <1>1, <1>2
<1>4. PICK a : a = Home!sortGalleryItemsByQuality(first) OBVIOUS
<1>5. PICK b : b = Home!sortGalleryItemsByQuality(fallback) OBVIOUS
<1>6. a \in Seq(Pictures) /\ Len(a) = Cardinality(first) /\ Home!IsInjective(a) /\ \A k \in DOMAIN a : a[k] \in first
  BY <1>3, <1>4, SortedHas
<1>7. b \in Seq(Pictures) /\ Home!IsInjective(b) /\ \A k \in DOMAIN b : b[k] \in fallback
  BY <1>3, <1>5, SortedHas
<1>8. PICK s : s = a \o b OBVIOUS
<1>9. r = Home!FirstCards(s, limit) BY <1>1, <1>2, <1>4, <1>5, <1>8 DEF Home!selectGalleryItems
<1>10. PICK m \in Nat, n \in Nat : m = Len(a) /\ n = Len(b) BY <1>6, <1>7
<1>11. DOMAIN a = 1..m /\ DOMAIN b = 1..n BY <1>6, <1>7, <1>10
<1>12. /\ s \in Seq(Pictures) /\ Len(s) = m + n /\ DOMAIN s = 1..(m + n)
       /\ \A k \in 1..(m + n) : s[k] = IF k <= m THEN a[k] ELSE b[k - m]
  <2>1. s \in Seq(Pictures) /\ Len(s) = Len(a) + Len(b) BY <1>6, <1>7, <1>8, ConcatProperties
  <2>2. \A k \in 1..(Len(a) + Len(b)) : s[k] = IF k <= Len(a) THEN a[k] ELSE b[k - Len(a)]
    BY <1>6, <1>7, <1>8, ConcatProperties
  <2>3. DOMAIN s = 1..Len(s) BY <2>1
  <2> QED BY <1>10, <2>1, <2>2, <2>3
<1>13. ASSUME NEW k \in 1..(m + n)
       PROVE  \/ k \in 1..m /\ s[k] = a[k] /\ s[k] \in first
              \/ k - m \in 1..n /\ s[k] = b[k - m] /\ s[k] \in fallback
  <2>1. CASE k <= m
    <3>1. k \in 1..m /\ s[k] = a[k] BY <1>12, <2>1
    <3> QED BY <1>6, <1>11, <3>1
  <2>2. CASE ~(k <= m)
    <3>1. k - m \in 1..n /\ s[k] = b[k - m] BY <1>12, <2>2
    <3> QED BY <1>7, <1>11, <3>1
  <2> QED BY <2>1, <2>2
<1>14. Home!IsInjective(s)
  <2>1. ASSUME NEW j \in 1..(m + n), NEW k \in 1..(m + n), s[j] = s[k] PROVE j = k
    <3>1. first \cap fallback = {} BY <1>2
    <3>2. CASE j \in 1..m /\ s[j] = a[j] /\ s[j] \in first
      <4>1. k \in 1..m /\ s[k] = a[k] BY <1>13, <2>1, <3>1, <3>2
      <4> QED BY <1>6, <1>11, <2>1, <3>2, <4>1 DEF Home!IsInjective
    <3>3. CASE j - m \in 1..n /\ s[j] = b[j - m] /\ s[j] \in fallback
      <4>1. k - m \in 1..n /\ s[k] = b[k - m] BY <1>13, <2>1, <3>1, <3>3
      <4>2. j - m = k - m BY <1>7, <1>11, <2>1, <3>3, <4>1 DEF Home!IsInjective
      <4> QED BY <4>2
    <3> QED BY <1>13, <3>2, <3>3
  <2> QED BY <1>12, <2>1 DEF Home!IsInjective
<1>15. /\ Wall(r) /\ Len(r) \in Nat /\ DOMAIN r = 1..Len(r)
       /\ \A k \in 1..Len(r) : k \in 1..Len(s) /\ r[k] = s[k]
  <2>1. Wall(s) BY <1>12, <1>14 DEF Wall
  <2> QED BY <1>9, <1>12, <2>1, FirstCardsOf DEF Wall
<1>16. m <= Cardinality(preferred)
  <2>1. IsFiniteSet(preferred) BY HomeBounds, FS_Subset
  <2>2. first \in SUBSET preferred BY <1>1
  <2> QED BY <1>6, <1>10, <2>1, <2>2, FS_Subset
<1>17. Cardinality(preferred) \in Nat BY RankOrders
<1>18. ASSUME NEW k \in DOMAIN r PROVE r[k] \in loaded /\ (r[k] \in preferred => k <= Cardinality(preferred))
  <2>1. k \in 1..(m + n) /\ r[k] = s[k] BY <1>12, <1>15
  <2>2. CASE k \in 1..m /\ s[k] \in first BY <1>1, <1>16, <1>17, <2>1, <2>2
  <2>3. CASE s[k] \in fallback BY <1>1, <1>2, <2>1, <2>3
  <2> QED BY <1>13, <2>1, <2>2, <2>3
<1> QED BY <1>15, <1>18

\* The pictures of a list in another order.
LEMMA Shuffled ==
  ASSUME NEW s, Wall(s), NEW t \in Home!shuffleGalleryItems(s)
  PROVE  Wall(t)
<1>1. s \in Seq(Pictures) /\ Home!IsInjective(s) BY DEF Wall
<1>2. PICK D : D = DOMAIN s OBVIOUS
<1>3. D = 1..Len(s) /\ Len(s) \in Nat BY <1>1, <1>2
<1>4. t \in [D -> Pictures] BY <1>2 DEF Home!shuffleGalleryItems
<1>5. t \in Seq(Pictures) /\ DOMAIN t = D BY <1>3, <1>4
<1>6. IsFiniteSet(D) BY <1>3, FS_Interval
<1>7. ASSUME NEW x \in D, NEW y \in D, t[x] = t[y], x # y PROVE FALSE
  <2>1. PICK i \in Pictures : i = t[x] BY <1>4
  <2>2. PICK A : A = {k \in D : t[k] = i} OBVIOUS
  <2>3. PICK B : B = {k \in D : s[k] = i} OBVIOUS
  <2>4. Cardinality(A) = Cardinality(B)
    <3>1. Home!Cardinality({k \in DOMAIN s : t[k] = i}) = Home!Cardinality({k \in DOMAIN s : s[k] = i})
      BY DEF Home!shuffleGalleryItems
    <3>2. Home!Cardinality(A) = Home!Cardinality(B) BY <1>2, <2>2, <2>3, <3>1
    <3> QED BY <3>2, HomeCounts
  <2>5. IsFiniteSet(A) /\ IsFiniteSet(B)
    <3>1. A \in SUBSET D /\ B \in SUBSET D BY <2>2, <2>3
    <3> QED BY <1>6, <3>1, FS_Subset
  <2>6. Cardinality(B) <= 1
    <3>1. CASE B = {} BY <3>1, FS_EmptySet
    <3>2. CASE B # {}
      <4>1. PICK k : k \in B BY <3>2
      <4>2. B = {k} BY <1>1, <1>2, <2>3, <4>1 DEF Home!IsInjective
      <4> QED BY <4>2, FS_Singleton
    <3> QED BY <3>1, <3>2
  <2>7. Cardinality({x, y}) = 2
    <3>1. IsFiniteSet({x}) /\ Cardinality({x}) = 1 BY FS_Singleton
    <3>2. {x, y} = {x} \cup {y} OBVIOUS
    <3> QED BY <1>7, <3>1, <3>2, FS_AddElement
  <2>8. {x, y} \in SUBSET A BY <1>7, <2>1, <2>2
  <2>9. Cardinality({x, y}) <= Cardinality(A) BY <2>5, <2>8, FS_Subset
  <2>10. Cardinality(A) \in Nat BY <2>5, FS_CardinalityType
  <2> QED BY <2>4, <2>6, <2>7, <2>9, <2>10
<1> QED BY <1>5, <1>7 DEF Wall, Home!IsInjective

\* Different pictures that were not there take the places of some.
LEMMA Replaced ==
  ASSUME NEW wall, Wall(wall), NEW new \in SUBSET Pictures, NEW R \in SUBSET DOMAIN wall,
         NEW f \in [R -> Home!Candidates(new, wall)], Home!IsInjective(f),
         NEW t, t = [i \in DOMAIN wall |-> IF i \in R THEN f[i] ELSE wall[i]]
  PROVE  Wall(t)
<1>1. wall \in Seq(Pictures) /\ Home!IsInjective(wall) BY DEF Wall
<1>2. \A i \in R : f[i] \in Pictures /\ \A k \in DOMAIN wall : f[i] # wall[k]
  BY DEF Home!Candidates, Home!ToSet
<1>3. DOMAIN wall = 1..Len(wall) /\ Len(wall) \in Nat BY <1>1
<1>4. t \in [1..Len(wall) -> Pictures]
  <2>1. \A k \in 1..Len(wall) : wall[k] \in Pictures BY <1>1
  <2> QED BY <1>2, <1>3, <2>1
<1>5. t \in Seq(Pictures) BY <1>3, <1>4
<1>6. ASSUME NEW j \in DOMAIN wall, NEW k \in DOMAIN wall, t[j] = t[k] PROVE j = k
  <2>1. DOMAIN f = R OBVIOUS
  <2>2. CASE j \in R /\ k \in R BY <1>6, <2>1, <2>2 DEF Home!IsInjective
  <2>3. CASE j \notin R /\ k \notin R BY <1>1, <1>6, <2>3 DEF Home!IsInjective
  <2>4. CASE j \in R /\ k \notin R BY <1>2, <1>6, <2>4
  <2>5. CASE j \notin R /\ k \in R BY <1>2, <1>6, <2>5
  <2> QED BY <2>2, <2>3, <2>4, <2>5
<1>7. DOMAIN t = DOMAIN wall OBVIOUS
<1> QED BY <1>5, <1>6, <1>7 DEF Wall, Home!IsInjective

\* Sections are built of what is loaded, the featured pictures first.
LEMMA SectionsBuilt ==
  ASSUME NEW categories \in SUBSET PictureCategories, NEW loaded \in SUBSET Pictures,
         NEW new, new = Home!buildSections(categories, loaded)
  PROVE  DOMAIN new = categories /\ \A c \in categories : Section(c, new[c])
<1>1. DOMAIN new = categories BY DEF Home!buildSections
<1>2. ASSUME NEW c \in categories PROVE Section(c, new[c])
  <2>1. PICK r : r = Home!selectGalleryItems(loaded, Featured[c], RotationLimit, {c}) OBVIOUS
  <2>2. PICK t : t = Home!FirstCards(r, CardsPerSection) OBVIOUS
  <2>3. PICK S : S = Home!ToSet(r) OBVIOUS
  <2>4. new[c] = [cards |-> t, rotation |-> S] BY <2>1, <2>2, <2>3 DEF Home!buildSections
  <2>5. Featured[c] \in SUBSET Pictures /\ RotationLimit \in Nat /\ CardsPerSection \in Nat
        /\ Cardinality(Featured[c]) <= CardsPerSection /\ Cardinality(Featured[c]) \in Nat
    BY HomeBounds, RankOrders
  <2>6. Wall(r) /\ \A k \in DOMAIN r : r[k] \in loaded /\ (r[k] \in Featured[c] => k <= Cardinality(Featured[c]))
    BY <2>1, <2>5, Selected
  <2>7. r \in Seq(Pictures) /\ DOMAIN r = 1..Len(r) /\ Len(r) \in Nat BY <2>6 DEF Wall
  <2>8. Wall(t) /\ Len(t) = (IF Len(r) < CardsPerSection THEN Len(r) ELSE CardsPerSection)
        /\ \A k \in 1..Len(t) : t[k] = r[k]
    BY <2>2, <2>5, <2>6, <2>7, FirstCardsOf
  <2>9. S \subseteq Pictures BY <2>3, <2>6 DEF Home!ToSet
  <2>10. ASSUME NEW i \in Featured[c] \cap S PROVE i \in Home!ToSet(t)
    <3>1. PICK k \in DOMAIN r : r[k] = i BY <2>3, <2>10 DEF Home!ToSet
    <3>2. k <= CardsPerSection /\ k \in 1..Len(r) BY <2>5, <2>6, <2>7, <2>10, <3>1
    <3>3. k \in 1..Len(t) BY <2>5, <2>7, <2>8, <3>2
    <3>4. DOMAIN t = 1..Len(t) /\ t[k] = i BY <2>8, <3>1, <3>3 DEF Wall
    <3> QED BY <3>3, <3>4 DEF Home!ToSet
  <2> QED BY <2>4, <2>8, <2>9, <2>10 DEF Section, Wall
<1> QED BY <1>1, <1>2

\* A card gives way to a picture that the section does not show.
LEMMA SectionTurns ==
  ASSUME NEW c \in DOMAIN sections, Section(c, sections[c]), NEW s \in Home!buildNextGallerySection(c)
  PROVE  Section(c, s)
<1>1. PICK old : old = sections[c] OBVIOUS
<1>2. PICK i \in DOMAIN old.cards, p \in old.rotation \ Home!ToSet(old.cards) :
        old.cards[i] \notin Featured[c] /\ s = [old EXCEPT !.cards = [@ EXCEPT ![i] = p]]
  BY <1>1 DEF Home!buildNextGallerySection, Home!Candidates
<1>3. PICK a : a = old.cards OBVIOUS
<1>4. PICK b : b = [a EXCEPT ![i] = p] OBVIOUS
<1>5. /\ old \in [cards : Seq(Pictures), rotation : SUBSET Pictures] /\ Home!IsInjective(a)
      /\ Featured[c] \cap old.rotation \subseteq Home!ToSet(a)
  BY <1>1, <1>3 DEF Section
<1>6. a \in Seq(Pictures) /\ i \in DOMAIN a /\ p \in Pictures /\ p \in old.rotation
      /\ a[i] \notin Featured[c] /\ \A k \in DOMAIN a : a[k] # p
  BY <1>2, <1>3, <1>5 DEF Home!ToSet
<1>7. b \in Seq(Pictures) /\ DOMAIN b = DOMAIN a /\ b[i] = p /\ \A k \in DOMAIN a : k # i => b[k] = a[k]
  BY <1>4, <1>6
<1>8. s = [old EXCEPT !.cards = b] BY <1>2, <1>3, <1>4
<1>9. s \in [cards : Seq(Pictures), rotation : SUBSET Pictures] /\ s.cards = b /\ s.rotation = old.rotation
  BY <1>5, <1>7, <1>8
<1>10. Home!IsInjective(b) BY <1>5, <1>6, <1>7 DEF Home!IsInjective
<1>11. ASSUME NEW j \in Featured[c] \cap old.rotation PROVE j \in Home!ToSet(b)
  <2>1. PICK k \in DOMAIN a : a[k] = j BY <1>5, <1>11 DEF Home!ToSet
  <2>2. k # i BY <1>6, <1>11, <2>1
  <2> QED BY <1>7, <2>1, <2>2 DEF Home!ToSet
<1> QED BY <1>9, <1>10, <1>11 DEF Section

\* The pictures behind the title, after some gave way.
LEMMA WallTurns ==
  ASSUME CardsInv, Home!SwapHero
  PROVE  Wall(slides')
<1>1. PICK wall : wall = Home!FirstCards(IF Len(slides) >= HeroCount THEN slides ELSE hero, HeroCount) OBVIOUS
<1>2. Wall(wall)
  <2>1. PICK s : s = IF Len(slides) >= HeroCount THEN slides ELSE hero OBVIOUS
  <2>2. Wall(s) BY <2>1 DEF CardsInv
  <2> QED BY <1>1, <2>1, <2>2, HomeBounds, FirstCardsOf DEF Wall
<1>3. CASE slides' = wall BY <1>2, <1>3
<1>4. CASE slides' \in Home!buildNextHeroItems(slides, hero, Home!heroRotationPool)
  <2>1. PICK pool : pool = Home!heroRotationPool OBVIOUS
  <2>2. pool \subseteq Pictures
    <3>1. 2 * HeroCount \in Nat /\ HeroPool \in SUBSET Pictures BY HomeBounds
    <3>2. PICK r : r = Home!selectGalleryItems(pictures, HeroPool, 2 * HeroCount, HeroCategories) OBVIOUS
    <3>3. \A k \in DOMAIN r : r[k] \in pictures BY <3>1, <3>2, Selected DEF CardsInv
    <3> QED BY <2>1, <3>2, <3>3 DEF Home!heroRotationPool, Home!ToSet, CardsInv
  <2>3. PICK R \in SUBSET DOMAIN wall : \E f \in [R -> Home!Candidates(pool, wall)] :
          /\ Home!IsInjective(f)
          /\ slides' = [i \in DOMAIN wall |-> IF i \in R THEN f[i] ELSE wall[i]]
    BY <1>1, <1>4, <2>1 DEF Home!buildNextHeroItems
  <2>4. PICK f \in [R -> Home!Candidates(pool, wall)] :
          /\ Home!IsInjective(f)
          /\ slides' = [i \in DOMAIN wall |-> IF i \in R THEN f[i] ELSE wall[i]]
    BY <2>3
  <2> QED BY <1>2, <2>2, <2>4, Replaced
<1> QED BY <1>1, <1>3, <1>4 DEF Home!SwapHero

\* What is loaded has its types, and every list is without repetition.
LEMMA CardsLoad ==
  ASSUME CardsInv, Home!Loading
  PROVE  CardsInv'
<1>1. CASE Home!LoadFacets
  BY <1>1 DEF Home!LoadFacets, Home!navVars, CardsInv
<1>2. CASE Home!LoadCurated
  <2>1. /\ pictures' \in SUBSET Home!Curated /\ UNCHANGED <<visible, sections>> /\ slides' = hero'
        /\ hero' \in Home!shuffleGalleryItems(Home!selectGalleryItems(pictures', HeroIds, HeroCount, HeroCategories))
    BY <1>2 DEF Home!LoadCurated
  <2>2. pictures' \in SUBSET Pictures BY <2>1, HomeBounds DEF Home!Curated, CardsInv
  <2>3. PICK r : r = Home!selectGalleryItems(pictures', HeroIds, HeroCount, HeroCategories) OBVIOUS
  <2>4. Wall(r) BY <2>2, <2>3, HomeBounds, Selected
  <2>5. Wall(hero') BY <2>1, <2>3, <2>4, Shuffled
  <2>6. Wall(hero)' /\ Wall(slides)' BY <2>1, <2>5 DEF Wall
  <2> QED BY <2>1, <2>2, <2>6 DEF CardsInv
<1>3. ASSUME NEW categories \in SUBSET PictureCategories,
             pictures' = pictures \cup Home!InCategories(categories) \/ pictures' = pictures \cup Home!InCategories(visible),
             sections' = Home!buildSections(categories, pictures'), UNCHANGED <<visible, hero, slides>>
      PROVE  CardsInv'
  <2>1. pictures' \in SUBSET Pictures BY <1>3 DEF CardsInv, Home!InCategories
  <2>2. DOMAIN sections' = categories /\ \A c \in categories : Section(c, sections'[c]) BY <1>3, <2>1, SectionsBuilt
  <2> QED BY <1>3, <2>1, <2>2 DEF CardsInv, Section, Wall
<1>4. CASE Home!LoadInitial
  <2>1. PICK initial : initial = Home!FirstOf(visible, InitialSections) OBVIOUS
  <2>2. initial \in SUBSET PictureCategories BY <2>1 DEF Home!FirstOf, CardsInv
  <2>3. /\ pictures' = pictures \cup Home!InCategories(initial) /\ sections' = Home!buildSections(initial, pictures')
        /\ UNCHANGED <<visible, hero, slides>>
    BY <1>4, <2>1 DEF Home!LoadInitial, Home!SetSections
  <2> QED BY <1>3, <2>2, <2>3
<1>5. CASE Home!LoadRest
  BY <1>3, <1>5 DEF Home!LoadRest, Home!SetSections, CardsInv
<1>6. CASE Home!LoadFails
  <2>1. UNCHANGED <<visible, slides, sections>> /\ (pictures' = pictures \/ pictures' = {}) /\ (hero' = hero \/ hero' = <<>>)
    BY <1>6 DEF Home!LoadFails
  <2>2. Wall(<<>>) BY DEF Wall, Home!IsInjective
  <2> QED BY <2>1, <2>2 DEF CardsInv
<1>7. CASE Home!BrowserIdle
  BY <1>7 DEF Home!BrowserIdle, Home!navVars, CardsInv
<1> QED BY <1>1, <1>2, <1>4, <1>5, <1>6, <1>7 DEF Home!Loading

\* Every step keeps the cards distinct.
LEMMA CardsStep == CardsInv /\ [Home!Next]_(Home!vars) => CardsInv'
<1> SUFFICES ASSUME CardsInv, [Home!Next]_(Home!vars) PROVE CardsInv'
  OBVIOUS
<1>1. CASE UNCHANGED <<pictures, visible, hero, slides, sections>>
  BY <1>1 DEF CardsInv, Wall, Section
<1>2. CASE Home!SwapHero
  <2>1. UNCHANGED <<pictures, visible, hero, sections>> BY <1>2 DEF Home!SwapHero
  <2>2. Wall(slides') BY <1>2, WallTurns
  <2> QED BY <2>1, <2>2 DEF CardsInv, Wall, Section
<1>3. CASE Home!rotateOneGalleryCard
  <2>0. PICK c \in DOMAIN sections : \E s \in Home!buildNextGallerySection(c) : sections' = [sections EXCEPT ![c] = s]
    BY <1>3 DEF Home!rotateOneGalleryCard, Home!SetSections
  <2>1. PICK s \in Home!buildNextGallerySection(c) : sections' = [sections EXCEPT ![c] = s]
    BY <2>0
  <2>2. UNCHANGED <<pictures, visible, hero, slides>> BY <1>3 DEF Home!rotateOneGalleryCard, Home!pageVars
  <2>3. Section(c, s) BY <2>1, SectionTurns DEF CardsInv
  <2>4. DOMAIN sections' = DOMAIN sections /\ \A k \in DOMAIN sections : sections'[k] = IF k = c THEN s ELSE sections[k]
    BY <2>1
  <2>5. \A k \in DOMAIN sections' : Section(k, sections'[k]) BY <2>3, <2>4 DEF CardsInv
  <2> QED BY <2>2, <2>4, <2>5 DEF CardsInv, Wall, Section
<1>4. CASE \/ Home!markGalleryNavIntent \/ Home!IntentAges \/ Home!NextFrame \/ Home!HideNav
           \/ \E place \in PictureCategories \cup {0} : Home!Scroll(place)
           \/ UNCHANGED Home!vars
  <2>1. UNCHANGED <<pictures, visible, hero, slides, sections>>
    BY <1>4 DEF Home!markGalleryNavIntent, Home!IntentAges, Home!NextFrame, Home!HideNav, Home!Scroll, Home!vars, Home!pageVars
  <2> QED BY <1>1, <2>1
<1> QED BY <1>2, <1>3, <1>4, CardsLoad DEF Home!Next

(* No picture is twice behind the title or in a section, and a featured    *)
(* picture that a section has stays, however loads and timers follow each  *)
(* other (buildNextHeroItems, buildNextGallerySection of the home page).   *)
THEOREM CardsAreDistinct == Home!Spec => []CardsDistinct
<1>1. Home!Init => CardsInv
  <2> SUFFICES ASSUME Home!Init PROVE CardsInv
    OBVIOUS
  <2>1. pictures = {} /\ visible = {} /\ hero = <<>> /\ slides = <<>> /\ sections = <<>> BY DEF Home!Init
  <2>2. Wall(<<>>) BY DEF Wall, Home!IsInjective
  <2>3. DOMAIN sections = {} BY <2>1
  <2> QED BY <2>1, <2>2, <2>3 DEF CardsInv
<1>2. CardsInv => CardsDistinct
  <2> SUFFICES ASSUME CardsInv PROVE CardsDistinct
    OBVIOUS
  <2>1. PICK s : s = IF slides # <<>> THEN slides ELSE hero OBVIOUS
  <2>2. Wall(s) BY <2>1 DEF CardsInv
  <2>3. PICK t : t = Home!FirstCards(s, HeroCount) OBVIOUS
  <2>4. Wall(t) BY <2>2, <2>3, HomeBounds, FirstCardsOf DEF Wall
  <2>5. Home!HeroTiles = t BY <2>1, <2>3 DEF Home!HeroTiles, Home!activeHeroItems
  <2>6. Home!IsInjective(Home!HeroTiles) BY <2>4, <2>5 DEF Wall
  <2>7. ASSUME NEW c \in DOMAIN sections
        PROVE  /\ Home!IsInjective(sections[c].cards)
               /\ Featured[c] \cap sections[c].rotation \subseteq Home!ToSet(sections[c].cards)
    BY DEF CardsInv, Section
  <2> QED BY <2>6, <2>7 DEF CardsDistinct, Home!CardsDistinct, Home!Cards
<1> QED BY <1>1, <1>2, CardsStep, PTL DEF Home!Spec

---------------------------------------------------------------------------
(* The workspace in several tabs                                           *)

Attended == INSTANCE Workspace_proofs WITH
  Images <- TurnImages, First <- FirstImages, MaxFaults <- MaxFaults["tabs"], page <- visit, load <- reload

(* An image that is loading on an open page has somebody at work on it, in *)
(* all tabs, if no page is left in a tab that is to show another one       *)
(* (runConversationQueue of the workspace, LoadingAlwaysAttended).         *)
THEOREM TabsAreAttended == Attended!OneVisit => (ManyTabs!Spec => []LoadingIsAttended)
<1> SUFFICES ASSUME Attended!OneVisit PROVE ManyTabs!Spec => []LoadingIsAttended
  OBVIOUS
<1>1. Attended!WorkspaceConstantsOK
  BY PagesConstantsOK DEF PagesConstantsOK, ManyTabs!WorkspaceConstantsOK, Attended!WorkspaceConstantsOK
<1>2. Attended!Spec => []Attended!LoadingIsAttended
  BY <1>1, Attended!LoadingAlwaysAttended
<1>3. ManyTabs!Init => Attended!Init
  BY DEF ManyTabs!Init, Attended!Init, ManyTabs!Idle, Attended!Idle, ManyTabs!Nothing,
    Attended!Nothing, ManyTabs!NoLoad, Attended!NoLoad, ManyTabs!NoPost, Attended!NoPost
<1>4. ManyTabs!Next => Attended!Next
  BY DEF ManyTabs!server, Attended!server, ManyTabs!visits, Attended!visits, ManyTabs!runs,
    Attended!runs, ManyTabs!vars, Attended!vars, ManyTabs!Nothing, Attended!Nothing,
    ManyTabs!Of, Attended!Of, ManyTabs!Loading, Attended!Loading, ManyTabs!Ended,
    Attended!Ended, ManyTabs!AsImage, Attended!AsImage, ManyTabs!Lapse, Attended!Lapse,
    ManyTabs!Fault, Attended!Fault, ManyTabs!SetResult, Attended!SetResult, ManyTabs!Accepted,
    Attended!Accepted, ManyTabs!TellGallery, Attended!TellGallery, ManyTabs!EndTask,
    Attended!EndTask, ManyTabs!SetLocal, Attended!SetLocal, ManyTabs!NoLoad, Attended!NoLoad,
    ManyTabs!NoPost, Attended!NoPost, ManyTabs!Visit, Attended!Visit, ManyTabs!Refresh,
    Attended!Refresh, ManyTabs!AnswerHistory, Attended!AnswerHistory, ManyTabs!ShowHistory,
    Attended!ShowHistory, ManyTabs!Leave, Attended!Leave, ManyTabs!Close, Attended!Close,
    ManyTabs!Persist, Attended!Persist, ManyTabs!SubmitTurn, Attended!SubmitTurn,
    ManyTabs!RetryImage, Attended!RetryImage, ManyTabs!HandlePost, Attended!HandlePost,
    ManyTabs!EndPost, Attended!EndPost, ManyTabs!Idle, Attended!Idle, ManyTabs!Started,
    Attended!Started, ManyTabs!CallRunner, Attended!CallRunner, ManyTabs!GuardExpires,
    Attended!GuardExpires, ManyTabs!Become, Attended!Become, ManyTabs!Finish, Attended!Finish,
    ManyTabs!GiveUp, Attended!GiveUp, ManyTabs!Setback, Attended!Setback, ManyTabs!HandleSubmit,
    Attended!HandleSubmit, ManyTabs!SubmitFails, Attended!SubmitFails, ManyTabs!HandlePoll,
    Attended!HandlePoll, ManyTabs!PollFails, Attended!PollFails, ManyTabs!ApplyTasks,
    Attended!ApplyTasks, ManyTabs!SyncResults, Attended!SyncResults, ManyTabs!EndPatch,
    Attended!EndPatch, ManyTabs!Resubmit, Attended!Resubmit, ManyTabs!NextRound,
    Attended!NextRound, ManyTabs!RunnerStep, Attended!RunnerStep, ManyTabs!UserStep,
    Attended!UserStep, ManyTabs!PageStep, Attended!PageStep, ManyTabs!ServerStep,
    Attended!ServerStep, ManyTabs!Next, Attended!Next
<1>5. UNCHANGED ManyTabs!vars => UNCHANGED Attended!vars
  BY DEF ManyTabs!vars, Attended!vars, ManyTabs!server, Attended!server, ManyTabs!visits,
    Attended!visits, ManyTabs!runs, Attended!runs
<1>6. [ManyTabs!Next]_(ManyTabs!vars) => [Attended!Next]_(Attended!vars)
  <2>1. CASE ManyTabs!Next BY <2>1, <1>4
  <2>2. CASE UNCHANGED ManyTabs!vars BY <2>2, <1>5
  <2> QED BY <2>1, <2>2
<1>7. Attended!LoadingIsAttended => LoadingIsAttended
  BY DEF LoadingIsAttended, ManyTabs!LoadingIsAttended, Attended!LoadingIsAttended, ManyTabs!Loading,
    Attended!Loading, ManyTabs!Idle, Attended!Idle
<1> QED BY <1>2, <1>3, <1>6, <1>7, PTL DEF ManyTabs!Spec, Attended!Spec

---------------------------------------------------------------------------
(* All pages: in a behaviour of one page the others stand still, but for   *)
(* the bounds they share.                                                  *)

\* The drawer at rest, in a behaviour of another page.
DrawerRests ==
  drafts = [i \in SharedItems |-> {}] /\ jobs = {}

\* DraftsAreOfOneItem, of all pages.
LEMMA DrawerOfPages == Spec => []DraftOfOneItem
<1> DEFINE Here == part = "share"
<1>1. Init => Shares!Init BY DEF Init
<1>2. Here /\ [Next]_vars => [Shares!Next]_(Shares!vars) /\ Here'
  BY DEF Next, vars, sh, Shares!vars
<1>3. Init => DrawerRests BY DEF Init, Shares!Init, DrawerRests
<1>4. DrawerRests /\ ~Here /\ [Next]_vars => DrawerRests' /\ ~Here'
  BY DEF Next, vars, sh, DrawerRests
<1>5. DrawerRests => DraftOfOneItem
  BY DEF DrawerRests, DraftOfOneItem, Shares!DraftOfOneItem
<1> QED BY <1>1, <1>2, <1>3, <1>4, <1>5, DraftsAreOfOneItem, PTL DEF Spec, Shares!Spec

\* The history at rest, in a behaviour of another page.
HistoryRests ==
  /\ saved = [c \in ConversationIds |-> Histories!First] /\ list = [t \in Tabs |-> saved]
  /\ drafted = {}

\* CacheAlwaysFollows, of all pages.
LEMMA CacheOfPages == Spec => []CacheFollows
<1> DEFINE Here == part = "history"
<1>1. Init => Histories!Init BY DEF Init
<1>2. Here /\ [Next]_vars => [Histories!Next]_(Histories!vars) /\ Here'
  BY DEF Next, vars, hi, Histories!vars
<1>3. Init => HistoryRests BY DEF Init, Histories!Init, HistoryRests
<1>4. HistoryRests /\ ~Here /\ [Next]_vars => HistoryRests' /\ ~Here'
  BY DEF Next, vars, hi, HistoryRests
<1>5. HistoryRests => CacheFollows
  BY DEF HistoryRests, CacheFollows, Histories!CacheFollows, Histories!First
<1> QED BY <1>1, <1>2, <1>3, <1>4, <1>5, CacheAlwaysFollows, PTL DEF Spec, Histories!Spec

\* DraftsAreKept, of all pages.
LEMMA DraftsOfPages == Spec => []DraftKept
<1> DEFINE Here == part = "history"
<1> DEFINE Rests == drafted = {}
<1>1. Init => Histories!Init BY DEF Init
<1>2. Here /\ [Next]_vars => [Histories!Next]_(Histories!vars) /\ Here'
  BY DEF Next, vars, hi, Histories!vars
<1>3. Init => Rests BY DEF Init, Histories!Init
<1>4. Rests /\ ~Here /\ [Next]_vars => Rests' /\ ~Here'
  BY DEF Next, vars, hi
<1>5. Rests => DraftKept BY DEF DraftKept, Histories!DraftKept
<1> QED BY <1>1, <1>2, <1>3, <1>4, <1>5, DraftsAreKept, PTL DEF Spec, Histories!Spec

\* StoreNeverReverts, of all pages.
LEMMA StoreOfPages == Spec => NothingReverts
<1> DEFINE Here == part = "history"
<1>1. Init => Histories!Init BY DEF Init
<1>2. Here /\ [Next]_vars => [Histories!Next]_(Histories!vars) /\ Here'
  BY DEF Next, vars, hi, Histories!vars
<1>3. ~Here /\ [Next]_vars => UNCHANGED snapshot /\ ~Here'
  BY DEF Next, vars, hi
<1>4. UNCHANGED snapshot =>
        [\A t \in Tabs : snapshot[t] # Histories!Unread /\ snapshot'[t] = Histories!Unread /\ ~crossed[t] =>
           \A c \in DOMAIN saved :
             IF c \in DOMAIN saved' THEN saved'[c].stamp >= saved[c].stamp
             ELSE Head(queue[t]).kind = "delete"]_(Histories!vars)
  OBVIOUS
<1> QED BY <1>1, <1>2, <1>3, <1>4, StoreNeverReverts, PTL DEF Spec, Histories!Spec, NothingReverts, Histories!NothingReverts

\* CardsAreDistinct and NavIsAttended, of all pages.
LEMMA HomeOfPages == Spec => [](CardsDistinct /\ NavAttended)
<1>1. Init => Home!Init BY DEF Init
<1>2. [Next]_vars => [Home!Next]_(Home!vars)
  BY DEF Next, vars, hg, Home!vars, Home!pageVars, Home!navVars
<1> QED BY <1>1, <1>2, CardsAreDistinct, NavIsAttended, PTL DEF Spec, Home!Spec

\* TabsAreAttended, of all pages.
LEMMA TabsOfPages == Attended!OneVisit => (Spec => []LoadingIsAttended)
<1> SUFFICES ASSUME Attended!OneVisit PROVE Spec => []LoadingIsAttended OBVIOUS
<1> DEFINE Rests == visit = [p \in Pages |-> "fresh"]
<1> DEFINE Here == part = "tabs"
<1>1. Init => ManyTabs!Init BY DEF Init
<1>2. Here /\ [Next]_vars => [ManyTabs!Next]_(ManyTabs!vars) /\ Here'
  BY DEF Next, vars, ws, ManyTabs!vars, ManyTabs!server, ManyTabs!visits, ManyTabs!runs
<1>3. Init => Rests BY DEF Init, ManyTabs!Init
<1>4. Rests /\ ~Here /\ [Next]_vars => Rests' /\ ~Here' BY DEF Next, vars, ws
<1>5. Rests => LoadingIsAttended BY DEF LoadingIsAttended, ManyTabs!LoadingIsAttended
<1>6. ManyTabs!Spec => []LoadingIsAttended BY TabsAreAttended
<1> HIDE DEF Rests
<1> QED BY <1>1, <1>2, <1>3, <1>4, <1>5, <1>6, PTL DEF Spec, ManyTabs!Spec

(* Whichever page of a user is used, and however: no picture is twice on   *)
(* the home page and its list of sections is attended, a draft is of one   *)
(* item, what a tab shows is stored, a draft that is begun is kept, the    *)
(* store never goes back, and no image is left loading unattended, unless  *)
(* a page is left in a tab that is to show another one.                    *)
THEOREM UserPagesHold ==
  /\ Spec => [](CardsDistinct /\ NavAttended /\ DraftOfOneItem /\ CacheFollows /\ DraftKept) /\ NothingReverts
  /\ Attended!OneVisit => (Spec => []LoadingIsAttended)
<1>1. Spec => [](CardsDistinct /\ NavAttended /\ DraftOfOneItem /\ CacheFollows /\ DraftKept) /\ NothingReverts
  BY HomeOfPages, DrawerOfPages, CacheOfPages, DraftsOfPages, StoreOfPages, PTL
<1> QED BY <1>1, TabsOfPages
=============================================================================
