---------------------------- MODULE ShareDrawer ----------------------------
(***************************************************************************)
(* The user's own gallery and its drawer, where one image is turned into a *)
(* draft to share: its texts are typed, or written by the server on        *)
(* request, and saved there. The drawer is one component for all images,   *)
(* so an answer may come when it shows another. The code is                *)
(* user-gallery-panel.tsx, user-gallery-detail-drawer.tsx and              *)
(* user-gallery-adapter.ts of the web, and share_draft_service.py.         *)
(*                                                                         *)
(* A text is the set of the images it was written for: {} is empty.        *)
(***************************************************************************)
EXTENDS Naturals, FiniteSets

CONSTANTS Items,       \* the images of the user's conversations
          Shareable,   \* those with an address short enough, not data
          MaxRequests, \* requests under way at once
          MaxChanges,  \* steps of the user
          MaxFaults    \* requests that fail

ConstantsOK ==
  Shareable \subseteq Items /\ MaxRequests \in Nat /\ MaxChanges \in Nat /\ MaxFaults \in Nat

VARIABLES
  items,        \* the gallery's items
  selected,     \* selectedItemId, a set of at most one
  title, conversationSummary, sharePrompt,   \* the drawer's texts
  busy,         \* isSummarizing, isGeneratingSharePrompt, isSavingDraft
  requests,     \* under way
  drafts,       \* on the server, at most one per image
  changes, faults

vars == <<items, selected, title, conversationSummary, sharePrompt, busy, requests,
          drafts, changes, faults>>
texts == <<title, conversationSummary, sharePrompt>>

Kinds == {"summarize", "generate", "save"}
Texts == SUBSET Items
ShareDrafts == [title : Texts, summary : Texts, share : Texts]
Requests == [kind : Kinds, at : {"sent", "done", "failed"}, item : Items, live : BOOLEAN,
             payload : ShareDrafts, result : Texts]

TypeOK ==
  /\ items \in SUBSET Items /\ selected \in SUBSET Items /\ Cardinality(selected) <= 1
  /\ title \in Texts /\ conversationSummary \in Texts /\ sharePrompt \in Texts
  /\ busy \in SUBSET Kinds /\ requests \in SUBSET Requests
  /\ drafts \in [Items -> SUBSET ShareDrafts] /\ \A i \in Items : Cardinality(drafts[i]) <= 1
  /\ changes \in 0..MaxChanges /\ faults \in 0..MaxFaults

---------------------------------------------------------------------------
(* The item the drawer shows: the selected one while the gallery has it.   *)
selectedItem == selected \cap items
canUseShareDraftActions == selectedItem \cap Shareable # {}

Init ==
  /\ items = Items /\ selected = {} /\ drafts = [i \in Items |-> {}]
  /\ title = {} /\ conversationSummary = {} /\ sharePrompt = {}
  /\ busy = {} /\ requests = {} /\ changes = 0 /\ faults = 0

Step == changes < MaxChanges /\ changes' = changes + 1

(* The drawer's fields start from the item when another one is shown.      *)
Initialise(shown) ==
  IF shown # {} /\ shown # selectedItem
  THEN /\ title' = shown /\ conversationSummary' = {} /\ sharePrompt' = shown /\ busy' = {}
  ELSE UNCHANGED <<texts, busy>>

handleSelect(i) ==
  /\ Step /\ i \in items
  /\ selected' = {i} /\ Initialise({i})
  /\ UNCHANGED <<items, requests, drafts, faults>>

handleCloseDrawer ==
  /\ Step /\ selectedItem # {}
  /\ selected' = {}
  /\ UNCHANGED <<items, texts, busy, requests, drafts, faults>>

(* The prompt is taken to the composer: the gallery goes, and an answer    *)
(* finds no component any more.                                            *)
handleUsePrompt ==
  /\ Step
  /\ selected' = {} /\ busy' = {}
  /\ title' = {} /\ conversationSummary' = {} /\ sharePrompt' = {}
  /\ requests' = {[q EXCEPT !.live = FALSE] : q \in requests}
  /\ UNCHANGED <<items, drafts, faults>>

(* The conversations are loaded, changed or deleted elsewhere.             *)
buildUserGalleryItems(S) ==
  /\ Step /\ S # items
  /\ items' = S /\ Initialise(selected \cap S)
  /\ UNCHANGED <<selected, requests, drafts, faults>>

---------------------------------------------------------------------------
Typed == {{}, selectedItem}

editTitle(text) ==
  /\ Step /\ selectedItem # {} /\ text # title
  /\ title' = text
  /\ UNCHANGED <<items, selected, conversationSummary, sharePrompt, busy, requests, drafts, faults>>

editSummary(text) ==
  /\ Step /\ selectedItem # {} /\ text # conversationSummary
  /\ conversationSummary' = text
  /\ UNCHANGED <<items, selected, title, sharePrompt, busy, requests, drafts, faults>>

editSharePrompt(text) ==
  /\ Step /\ selectedItem # {} /\ text # sharePrompt
  /\ sharePrompt' = text
  /\ UNCHANGED <<items, selected, title, conversationSummary, busy, requests, drafts, faults>>

buildGalleryTextPayload == [title |-> {}, summary |-> conversationSummary, share |-> sharePrompt]

(* The title falls back to the conversation's.                             *)
draftPayload == [buildGalleryTextPayload EXCEPT !.title = IF title = {} THEN selectedItem ELSE title]

Send(kind, payload) ==
  /\ canUseShareDraftActions /\ kind \notin busy
  /\ Cardinality(requests) < MaxRequests
  /\ busy' = busy \cup {kind}
  /\ \E i \in selectedItem :
       requests' = requests \cup {[kind |-> kind, at |-> "sent", item |-> i, live |-> TRUE,
                                   payload |-> payload, result |-> {}]}
  /\ UNCHANGED <<items, selected, texts, drafts, faults>>

handleSummarize == Step /\ Send("summarize", [buildGalleryTextPayload EXCEPT !.summary = {}])
handleGenerateSharePrompt == Step /\ Send("generate", buildGalleryTextPayload)
handleSaveDraft == Step /\ Send("save", draftPayload)

---------------------------------------------------------------------------
Become(q, r) == requests' = (requests \ {q}) \cup {r}

(* The text written is the summary that was sent, or the image's prompt.   *)
generate(q) ==
  /\ q.kind # "save"
  /\ Become(q, [q EXCEPT !.at = "done",
                         !.result = IF q.payload.summary # {} THEN q.payload.summary ELSE {q.item}])
  /\ UNCHANGED drafts

(* The draft of the image is made or replaced; one without a prompt is     *)
(* refused.                                                                *)
save_draft(q) ==
  /\ q.kind = "save" /\ q.payload.share # {}
  /\ drafts' = [drafts EXCEPT ![q.item] = {q.payload}]
  /\ Become(q, [q EXCEPT !.at = "done"])

validate(q) ==
  /\ q.kind = "save" /\ q.payload.share = {}
  /\ Become(q, [q EXCEPT !.at = "failed"])
  /\ UNCHANGED drafts

Handle(q) ==
  /\ q.at = "sent"
  /\ generate(q) \/ save_draft(q) \/ validate(q)
  /\ UNCHANGED <<items, selected, texts, busy, changes, faults>>

(* The request or its answer is lost.                                      *)
Fail(q) ==
  /\ q.at \in {"sent", "done"} /\ faults < MaxFaults
  /\ faults' = faults + 1 /\ Become(q, [q EXCEPT !.at = "failed"])
  /\ UNCHANGED <<items, selected, texts, busy, drafts, changes>>

(* A form without the check would take any answer it is there for.         *)
StillMounted(q) == q.live

(* currentItemIdRef is still the item of the request.                      *)
StillShown(q) == q.live /\ selectedItem = {q.item}


Answer(q) ==
  /\ q.at \in {"done", "failed"}
  /\ requests' = requests \ {q}
  /\ IF StillShown(q)
     THEN /\ busy' = busy \ {q.kind}
          /\ conversationSummary' = IF q.kind = "summarize" /\ q.at = "done" THEN q.result
                                    ELSE conversationSummary
          /\ sharePrompt' = IF q.kind = "generate" /\ q.at = "done" THEN q.result ELSE sharePrompt
     ELSE UNCHANGED <<busy, conversationSummary, sharePrompt>>
  /\ UNCHANGED <<items, selected, title, drafts, changes, faults>>

Next ==
  \/ \E i \in Items : handleSelect(i)
  \/ handleCloseDrawer \/ handleUsePrompt
  \/ \E S \in SUBSET Items : buildUserGalleryItems(S)
  \/ \E text \in Typed : editTitle(text) \/ editSummary(text) \/ editSharePrompt(text)
  \/ handleSummarize \/ handleGenerateSharePrompt \/ handleSaveDraft
  \/ \E q \in requests : Handle(q) \/ Fail(q) \/ Answer(q)

Spec == Init /\ [][Next]_vars

---------------------------------------------------------------------------
(* A draft holds texts of its own image only: what was written for an      *)
(* image is never put into, or sent along with, the draft of another one   *)
(* that the drawer shows by then.                                          *)
DraftOfOneItem ==
  /\ \A i \in Items : \A d \in drafts[i] : d.title \cup d.summary \cup d.share \subseteq {i}
  /\ \A q \in requests : q.payload.summary \cup q.payload.share \subseteq {q.item}
=============================================================================
