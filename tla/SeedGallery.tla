---------------------------- MODULE SeedGallery ----------------------------
(***************************************************************************)
(* The gallery of prompts that come with the product: a list that is       *)
(* filtered and read page by page, a page per item with the related ones,  *)
(* and the prompt that is handed to the workspace. The items come from a   *)
(* static file that is asked for once, or else from the server through a   *)
(* cache. The code is gallery-browser.tsx, gallery-detail-client.tsx,      *)
(* gallery-intent.ts and the gallery's part of api.ts; the items on the    *)
(* server do not change while a page lives.                                *)
(***************************************************************************)
EXTENDS Naturals, Sequences, FiniteSets, SequencesExt, Filtered

CONSTANTS Catalog,     \* the items, in their order
          Category,    \* the category of each
          Tags,        \* and its tags
          All,         \* the filter that lets every item pass
          PageSize,    \* the limit of a list
          Unknown,     \* an address that names no item
          MaxChanges,  \* steps of the user
          MaxFaults    \* requests that fail

Ids == ToSet(Catalog)
Categories == {Category[i] : i \in Ids}

ConstantsOK ==
  /\ Catalog \in Seq(Ids)
  /\ All \notin Categories /\ Unknown \notin Ids \cup {All} /\ {"list", "workspace"} \cap Ids = {}
  /\ \A i \in Ids : i \in DOMAIN Tags /\ IsFiniteSet(Tags[i])
  /\ PageSize \in Nat \ {0} /\ MaxChanges \in Nat /\ MaxFaults \in Nat

VARIABLES
  route,        \* "list", "workspace" or the id of an item
  facets,       \* whether the categories have been read
  filter, timer,                 \* the chosen category and the wait before a load
  items, offset, hasMore,        \* what the list shows
  isLoading, isLoadingMore,
  amiss,        \* a load of the list has failed, or overlapped another, since the last one alone
  item, relatedItems, detail,    \* what the page of an item shows
  static,       \* the file of all items
  cache,        \* the requests whose answers are kept
  requests,     \* under way
  intent,       \* the prompt in the session's store
  prompt,       \* the composer's
  changes, faults

list == <<facets, filter, timer, items, offset, hasMore, isLoading, isLoadingMore, amiss>>
page == <<item, relatedItems, detail>>
vars == <<route, list, page, static, cache, requests, intent, prompt, changes, faults>>

Filters == Categories \cup {All}
Routes == {"list", "workspace", Unknown} \cup Ids
Items == Seq(Ids)
Asked == [of : {"facets", "list", "item", "related"}, filter : Filters, id : Ids \cup {Unknown},
          offset : 0..Len(Catalog)]
Requests == [asks : Asked, append : BOOLEAN, live : BOOLEAN, at : {"static", "sent", "found", "done", "failed"}]

TypeOK ==
  /\ route \in Routes /\ facets \in BOOLEAN /\ filter \in Filters /\ timer \in BOOLEAN
  /\ items \in Items /\ offset \in 0..Len(Catalog) /\ hasMore \in BOOLEAN
  /\ isLoading \in BOOLEAN /\ isLoadingMore \in BOOLEAN /\ amiss \in BOOLEAN
  /\ item \in SUBSET Ids /\ Cardinality(item) <= 1 /\ relatedItems \in Items
  /\ detail \in {"loading", "shown", "failed"}
  /\ static \in {"unasked", "asked", "none", "items"}
  /\ cache \subseteq Asked /\ requests \subseteq Requests
  /\ intent \in SUBSET Ids /\ prompt \in SUBSET Ids
  /\ changes \in 0..MaxChanges /\ faults \in 0..MaxFaults

---------------------------------------------------------------------------
(* What the requests are answered with.                                    *)

filterSeedGalleryItems(f) == Among(Catalog, {i \in Ids : f = All \/ Category[i] = f})

paginateSeedGalleryItems(s, limit, from) ==
  LET start == IF from < Len(s) THEN from ELSE Len(s)
      end == IF start + limit < Len(s) THEN start + limit ELSE Len(s)
  IN [items |-> SubSeq(s, start + 1, end), offset |-> start, has_more |-> start + limit < Len(s)]

fetchSeedGallery(f, from) == paginateSeedGalleryItems(filterSeedGalleryItems(f), PageSize, from)

Index(i) == CHOOSE n \in DOMAIN Catalog : Catalog[n] = i
Score(i, j) == (IF Category[i] = Category[j] THEN 100 ELSE 0) + 10 * Cardinality(Tags[i] \cap Tags[j])

fetchRelatedSeedGalleryItems(i) ==
  LET Before(j, k) == Score(i, j) > Score(i, k) \/ (Score(i, j) = Score(i, k) /\ Index(j) < Index(k))
  IN paginateSeedGalleryItems(SetToSortSeq(Ids \ {i}, Before), 4, 0).items

---------------------------------------------------------------------------
Init ==
  /\ route = "workspace" /\ facets = FALSE /\ filter = All /\ timer = FALSE
  /\ items = <<>> /\ offset = 0 /\ hasMore = FALSE /\ isLoading = TRUE /\ isLoadingMore = FALSE
  /\ amiss = FALSE /\ item = {} /\ relatedItems = <<>> /\ detail = "loading"
  /\ static = "unasked" /\ cache = {} /\ requests = {} /\ intent = {} /\ prompt = {}
  /\ changes = 0 /\ faults = 0

Step == changes < MaxChanges /\ changes' = changes + 1

Ask(of, f, id, from, append) ==
  [asks |-> [of |-> of, filter |-> f, id |-> id, offset |-> from], append |-> append, live |-> TRUE,
   at |-> "static"]

Facets == Ask("facets", All, Unknown, 0, FALSE)
Load(from, append) == Ask("list", filter, Unknown, from, append)
LoadItem(id) == Ask("item", All, id, 0, FALSE)
LoadRelated(id) == Ask("related", All, id, 0, FALSE)

(* Answers of requests that are given up are not looked at.                *)
Cancelled(S) == {[q EXCEPT !.live = FALSE] : q \in S}
Of(kind) == {q \in requests : q.live /\ q.asks.of = kind}

(* A page that opens starts from nothing; an item's asks for its item, the *)
(* list for its categories, and waits before it loads.                     *)
Opened(to) ==
  /\ route' = to
  /\ facets' = FALSE /\ filter' = All /\ timer' = (to = "list")
  /\ items' = <<>> /\ offset' = 0 /\ hasMore' = FALSE /\ isLoading' = TRUE /\ isLoadingMore' = FALSE
  /\ amiss' = FALSE
  /\ item' = {} /\ relatedItems' = <<>> /\ detail' = "loading"
  /\ requests' = Cancelled(requests) \cup (CASE to = "list" -> {Facets}
                                             [] to = "workspace" -> {}
                                             [] OTHER -> {LoadItem(to)})

(* The workspace takes the prompt that waits for it, once.                 *)
consumeGalleryPromptIntent(to) ==
  IF to = "workspace" THEN intent' = {} /\ prompt' = intent ELSE UNCHANGED <<intent, prompt>>

Navigate(to) ==
  /\ Step /\ to # route
  /\ Opened(to) /\ consumeGalleryPromptIntent(to)
  /\ UNCHANGED <<static, cache, faults>>

(* The cards of the related items, below the item.                         *)
RelatedCards == IF detail = "shown" THEN ToSet(relatedItems) ELSE {}

(* From an item to a related one, by a router that keeps the component:    *)
(* the request of the item is given up, not that of its related ones.      *)
OtherItem(to) ==
  /\ Step /\ route \in Ids /\ to \in RelatedCards \ {route}
  /\ route' = to /\ detail' = "loading" /\ relatedItems' = <<>>
  /\ requests' = (requests \ Of("item")) \cup Cancelled(Of("item")) \cup {LoadItem(to)}
  /\ UNCHANGED <<list, item, static, cache, intent, prompt, faults>>

(* The browser's back, while the item is still being read.                 *)
Back(to) ==
  /\ Step /\ route \in Ids /\ detail = "loading" /\ to \in Ids \ {route}
  /\ route' = to /\ relatedItems' = <<>>
  /\ requests' = (requests \ Of("item")) \cup Cancelled(Of("item")) \cup {LoadItem(to)}
  /\ UNCHANGED <<list, item, detail, static, cache, intent, prompt, faults>>

---------------------------------------------------------------------------
(* The list.                                                               *)

(* A choice restarts the wait; the loads under way go on.                  *)
ChooseCategory(f) ==
  /\ Step /\ route = "list" /\ facets /\ f # filter
  /\ filter' = f /\ timer' = TRUE
  /\ UNCHANGED <<route, facets, items, offset, hasMore, isLoading, isLoadingMore, amiss, page, static,
                 cache, requests, intent, prompt, faults>>

(* Of two equal loads the second waits until the first is on its way.      *)
Start(from, append) ==
  /\ Load(from, append) \notin requests
  /\ requests' = requests \cup {Load(from, append)}
  /\ amiss' = (Of("list") # {} \/ (append /\ amiss))

loadItems ==
  /\ timer /\ Start(0, FALSE)
  /\ timer' = FALSE /\ isLoading' = TRUE
  /\ UNCHANGED <<route, facets, filter, items, offset, hasMore, isLoadingMore, page, static, cache,
                 intent, prompt, changes, faults>>

(* The button "make one like this", on the cards of the list and on the    *)
(* page of an item.                                                        *)
ListCards == IF route = "list" /\ ~isLoading THEN ToSet(items) ELSE {}
DetailCard == IF detail = "shown" THEN item ELSE {}

loadMore ==
  /\ Step /\ ListCards # {} /\ hasMore /\ ~isLoadingMore
  /\ Start(offset, TRUE)
  /\ isLoadingMore' = TRUE
  /\ UNCHANGED <<route, facets, filter, timer, items, offset, hasMore, isLoading, page, static, cache,
                 intent, prompt, faults>>

---------------------------------------------------------------------------
(* The prompt is put into the session's store, when there is one.          *)
saveGalleryPromptIntent(i) == intent' \in {{i}, intent}

handleUsePrompt(i) ==
  /\ Step /\ i \in ListCards \cup DetailCard
  /\ saveGalleryPromptIntent(i)
  /\ UNCHANGED <<route, list, page, static, cache, requests, prompt, faults>>

---------------------------------------------------------------------------
(* The requests.                                                           *)
Become(q, r) == requests' = (requests \ {q}) \cup {r}

(* The file is asked for by the first request, and every one waits for it. *)
fetchSeedGalleryStaticItems ==
  \/ /\ static = "unasked" /\ requests # {}
     /\ static' = "asked"
     /\ UNCHANGED <<route, list, page, cache, requests, intent, prompt, changes, faults>>
  \/ /\ static = "asked"
     /\ \/ static' = "items" /\ faults' = faults
        \/ static' = "none" /\ faults < MaxFaults /\ faults' = faults + 1
     /\ UNCHANGED <<route, list, page, cache, requests, intent, prompt, changes>>

Exists(q) == q.asks.id \in Ids \/ q.asks.of # "item"

FromStatic(q) ==
  /\ q.at = "static" /\ static = "items"
  /\ Become(q, [q EXCEPT !.at = IF Exists(q) THEN "found" ELSE "failed"])
  /\ UNCHANGED <<route, list, page, static, cache, intent, prompt, changes, faults>>

(* The newest answers are kept in memory and in the browser's store.       *)
readLocalApiCache(q) == q.asks \in cache

(* What the cache has is not asked for.                                    *)
cachedSeedGalleryRequest(q) ==
  /\ q.at = "static" /\ static = "none"
  /\ Become(q, [q EXCEPT !.at = IF readLocalApiCache(q) THEN "found" ELSE "sent"])
  /\ UNCHANGED <<route, list, page, static, cache, intent, prompt, changes, faults>>

writeLocalApiCache(q) ==
  /\ q.at = "sent" /\ Exists(q)
  /\ cache' = cache \cup {q.asks} /\ Become(q, [q EXCEPT !.at = "done"])
  /\ UNCHANGED <<route, list, page, static, intent, prompt, changes, faults>>

FailedRequest(q) ==
  /\ q.at = "sent"
  /\ faults' = IF Exists(q) THEN faults + 1 ELSE faults
  /\ faults' <= MaxFaults
  /\ Become(q, [q EXCEPT !.at = "failed"])
  /\ UNCHANGED <<route, list, page, static, cache, intent, prompt, changes>>

(* An entry grows too old, or the least recent one makes room.             *)
Expire ==
  /\ faults < MaxFaults /\ faults' = faults + 1
  /\ \E a \in cache : cache' = cache \ {a}
  /\ UNCHANGED <<route, list, page, static, requests, intent, prompt, changes>>

---------------------------------------------------------------------------
(* The answers.                                                            *)

Finish(q) == requests' = requests \ {q}

FacetsAnswer(q) ==
  /\ q.asks.of = "facets"
  /\ facets' = (q.at # "failed") /\ Finish(q)
  /\ UNCHANGED <<route, page, filter, timer, items, offset, hasMore, isLoading, isLoadingMore, amiss>>

(* Any answer of the list is taken, in the order they come.                *)
ListAnswer(q) ==
  /\ q.asks.of = "list"
  /\ isLoading' = FALSE /\ isLoadingMore' = FALSE /\ Finish(q)
  /\ IF q.at = "failed"
     THEN amiss' = TRUE /\ UNCHANGED <<items, offset, hasMore>>
     ELSE LET data == fetchSeedGallery(q.asks.filter, q.asks.offset)
          IN /\ items' = IF q.append THEN items \o data.items ELSE data.items
             /\ offset' = data.offset + Len(data.items) /\ hasMore' = data.has_more
             /\ UNCHANGED amiss
  /\ UNCHANGED <<route, page, facets, filter, timer>>

(* Another item is another object, as is the same one from the server; the *)
(* request of the related ones follows the object.                         *)
ItemAnswer(q) ==
  /\ q.asks.of = "item"
  /\ IF q.at = "failed"
     THEN /\ item' = {} /\ detail' = "failed"
          /\ relatedItems' = <<>>
          /\ requests' = (requests \ ({q} \cup Of("related"))) \cup Cancelled(Of("related"))
     ELSE /\ item' = {q.asks.id} /\ detail' = "shown"
          /\ UNCHANGED relatedItems
          /\ IF item = {q.asks.id} /\ q.at = "found" THEN Finish(q)
             ELSE requests' = (requests \ ({q} \cup Of("related"))) \cup Cancelled(Of("related"))
                                \cup {LoadRelated(q.asks.id)}
  /\ UNCHANGED <<route, list>>

RelatedAnswer(q) ==
  /\ q.asks.of = "related"
  /\ relatedItems' = IF q.at = "failed" THEN <<>> ELSE fetchRelatedSeedGalleryItems(q.asks.id)
  /\ Finish(q)
  /\ UNCHANGED <<route, list, item, detail>>

(* An effect that forgets to give up the request of the related items.     *)
HeardAnyway(q) == q.live \/ (q.asks.of = "related" /\ route \in Ids)

Heard(q) == q.live

Answer(q) ==
  /\ q.at \in {"found", "done", "failed"}
  /\ IF Heard(q)
     THEN FacetsAnswer(q) \/ ListAnswer(q) \/ ItemAnswer(q) \/ RelatedAnswer(q)
     ELSE Finish(q) /\ UNCHANGED <<route, list, page>>
  /\ UNCHANGED <<static, cache, intent, prompt, changes, faults>>

Next ==
  \/ \E to \in Routes : Navigate(to)
  \/ \E to \in Ids : OtherItem(to) \/ Back(to)
  \/ \E f \in Filters : ChooseCategory(f)
  \/ loadItems \/ loadMore
  \/ \E i \in Ids : handleUsePrompt(i)
  \/ fetchSeedGalleryStaticItems \/ Expire
  \/ \E q \in requests :
       \/ FromStatic(q) \/ cachedSeedGalleryRequest(q) \/ writeLocalApiCache(q)
       \/ FailedRequest(q) \/ Answer(q)

Spec == Init /\ [][Next]_vars

---------------------------------------------------------------------------
Quiet == ~timer /\ \A q \in requests : ~q.live

(* When a page has come to rest, an item's page shows the item of its      *)
(* address and related ones of that item, not those of the item before,    *)
(* whatever was pressed while the answers were under way; and a list whose *)
(* last loads neither failed nor overlapped is the first pages of what the *)
(* chosen category has, with the button for more when there is more.       *)
PageSettled ==
  /\ Quiet /\ route \in Ids =>
       /\ item \subseteq {route} /\ (detail = "failed" <=> item = {})
       /\ relatedItems \in {<<>>, fetchRelatedSeedGalleryItems(route)}
  /\ Quiet /\ route = "list" /\ ~amiss =>
       LET all == filterSeedGalleryItems(filter)
       IN IsPrefix(items, all) /\ offset = Len(items) /\ hasMore = (Len(items) < Len(all))
=============================================================================
