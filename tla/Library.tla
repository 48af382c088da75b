------------------------------ MODULE Library ------------------------------
(***************************************************************************)
(* The administrators' page of all images: it lists those of a range of    *)
(* dates with their tags, filters them by tag, selects, tags and deletes   *)
(* them, one, the selected, those of the range or those up to a date. The  *)
(* server deletes the oldest ones itself when the disk is full. The code   *)
(* is image-manager/page.tsx of the web, and image_service.py,             *)
(* image_tags_service.py and image_storage_service.py of the server.       *)
(***************************************************************************)
EXTENDS Naturals, FiniteSets

CONSTANTS Images, Tags,
          Date,        \* the day of each image
          Ranges,      \* the ranges of dates that are chosen
          MaxRequests, \* requests under way at once
          MaxChanges,  \* requests that are sent
          MaxFaults    \* those that fail, and cleanings of the disk

ConstantsOK ==
  Date \in [Images -> Nat] /\ Ranges \subseteq SUBSET {Date[i] : i \in Images}
  /\ MaxRequests \in Nat /\ MaxChanges \in Nat /\ MaxFaults \in Nat

Days == {Date[i] : i \in Images}
Lists == UNION {[S -> SUBSET Tags] : S \in SUBSET Images}

VARIABLES
  files,        \* the images on the server, with their tags
  items,        \* the listed ones, with the tags that are shown
  range,        \* startDate to endDate
  allTags, selectedTags, selectedPaths,
  dialog, target,   \* the open dialog and what it is about
  isDeleting,
  requests,     \* under way
  behind,       \* "no" when the list was loaded and no request crossed another since
  changes, faults

vars == <<files, items, range, allTags, selectedTags, selectedPaths, dialog, target,
          isDeleting, requests, behind, changes, faults>>

Dialogs == {"none", "one", "selected", "filtered", "byDate", "tag"}
Requests == [kind : {"load", "delete", "setTags", "allTags", "deleteTag"}, at : {"sent", "done", "failed"},
             from : Dialogs, images : SUBSET Images, days : SUBSET Days, shown : SUBSET Days, tags : SUBSET Tags,
             list : SUBSET Lists, all : SUBSET SUBSET Tags]  \* what was read, if it was

TypeOK ==
  /\ files \in Lists /\ items \in Lists /\ range \in Ranges \cup {Days}
  /\ allTags \subseteq Tags /\ selectedTags \subseteq Tags /\ selectedPaths \subseteq Images
  /\ dialog \in Dialogs /\ target \in SUBSET (Images \cup Tags)
  /\ isDeleting \in BOOLEAN /\ requests \subseteq Requests /\ behind \in {"no", "loading", "yes"}
  /\ changes \in 0..MaxChanges /\ faults \in 0..MaxFaults

---------------------------------------------------------------------------
Keep(list, S) == [i \in DOMAIN list \cap S |-> list[i]]
Untagged(list, T) == [i \in DOMAIN list |-> list[i] \ T]
Listed(days) == Keep(files, {i \in Images : Date[i] \in days})
get_all_tags == UNION {files[i] : i \in DOMAIN files}

filteredItems == {i \in DOMAIN items : selectedTags \subseteq items[i]}
isLoading == \E q \in requests : q.kind = "load"

Request(kind, from, images, days, tags) ==
  [kind |-> kind, at |-> "sent", from |-> from, images |-> images, days |-> days,
   shown |-> IF kind = "delete" THEN range ELSE {}, \* the dates that were chosen
   tags |-> tags,
   list |-> {}, all |-> {}]

(* Of two requests that cross, the page may show the older answer.         *)
Send(q, others) ==
  /\ changes < MaxChanges /\ changes' = changes + 1
  /\ Cardinality(others) < MaxRequests
  /\ requests' = others \cup {q}
  /\ behind' = IF others # {} \/ (q.kind = "load" /\ q.days # range') THEN "yes"
               ELSE IF q.kind = "load" THEN "loading" ELSE behind

loadImages(days) == Send(Request("load", "none", {}, days, {}), requests)

Init ==
  /\ range = Days
  /\ files = [i \in Images |-> Tags] /\ items = Keep(files, {})
  /\ allTags = {} /\ selectedTags = {} /\ selectedPaths = {}
  /\ dialog = "none" /\ target = {} /\ isDeleting = FALSE
  /\ requests = {Request("load", "none", {}, Days, {})} /\ behind = "loading"
  /\ changes = 0 /\ faults = 0

---------------------------------------------------------------------------
(* What the user does. A dialog covers the page.                           *)

Query ==
  /\ dialog = "none" /\ ~isLoading /\ UNCHANGED range /\ loadImages(range)
  /\ UNCHANGED <<files, items, allTags, selectedTags, selectedPaths, dialog, target,
                 isDeleting, faults>>

DateRange(days) ==
  /\ dialog = "none" /\ range # days /\ range' = days /\ loadImages(days)
  /\ UNCHANGED <<files, items, allTags, selectedTags, selectedPaths, dialog, target,
                 isDeleting, faults>>

clearFilters ==
  /\ dialog = "none" /\ selectedTags' = {} /\ range' = Days
  /\ IF range = Days THEN UNCHANGED <<requests, behind, changes>> ELSE loadImages(Days)
  /\ UNCHANGED <<files, items, allTags, selectedPaths, dialog, target, isDeleting, faults>>

toggleFilterTag(g) ==
  /\ dialog = "none" /\ g \in allTags
  /\ selectedTags' = IF g \in selectedTags THEN selectedTags \ {g} ELSE selectedTags \cup {g}
  /\ UNCHANGED <<files, items, range, allTags, selectedPaths, dialog, target, isDeleting,
                 requests, behind, changes, faults>>

(* One image, those of a page, or all that the tags let through.           *)
togglePaths(paths, checked) ==
  /\ dialog = "none" /\ paths # {} /\ paths \subseteq filteredItems
  /\ selectedPaths' = IF checked THEN selectedPaths \cup paths ELSE selectedPaths \ paths
  /\ UNCHANGED <<files, items, range, allTags, selectedTags, dialog, target, isDeleting,
                 requests, behind, changes, faults>>

TagsOffered(i) == {T \in SUBSET Tags : Cardinality((T \ items[i]) \cup (items[i] \ T)) = 1}

(* A tag is put on, or taken off, by the whole set of tags.                *)
handleSetTags(i, tags) ==
  /\ dialog = "none" /\ i \in filteredItems /\ tags \in TagsOffered(i)
  /\ Send(Request("setTags", "none", {i}, {}, tags), requests)
  /\ UNCHANGED <<files, items, range, allTags, selectedTags, selectedPaths, dialog, target,
                 isDeleting, faults>>

Offers(kind, about) ==
  CASE kind = "one" -> \E i \in filteredItems : about = {i}
    [] kind = "tag" -> \E g \in allTags : about = {g}
    [] kind = "selected" -> about = {} /\ selectedPaths # {} /\ ~isDeleting
    [] kind = "filtered" -> about = {} /\ DOMAIN items # {} /\ range # Days /\ ~isDeleting
    [] OTHER -> about = {}

openDeleteDialog(kind, about) ==
  /\ dialog = "none" /\ Offers(kind, about)
  /\ dialog' = kind /\ target' = about
  /\ UNCHANGED <<files, items, range, allTags, selectedTags, selectedPaths, isDeleting,
                 requests, behind, changes, faults>>

closeDialog ==
  /\ dialog # "none" /\ dialog' = "none" /\ target' = {}
  /\ UNCHANGED <<files, items, range, allTags, selectedTags, selectedPaths, isDeleting,
                 requests, behind, changes, faults>>

Delete(q) ==
  /\ ~isDeleting /\ Send(q, requests) /\ isDeleting' = TRUE
  /\ UNCHANGED <<files, items, range, allTags, selectedTags, selectedPaths, dialog, target,
                 faults>>

handleDelete == dialog = "one" /\ target # {} /\ Delete(Request("delete", "one", target, {}, {}))

confirmDelete ==
  \/ dialog = "selected" /\ selectedPaths # {} /\ Delete(Request("delete", "selected", selectedPaths, {}, {}))
  \/ dialog = "filtered" /\ DOMAIN items # {} /\ Delete(Request("delete", "filtered", {}, range, {}))

(* Up to a date, that day included.                                        *)
DeleteByDate(d) ==
  dialog = "byDate" /\ Delete(Request("delete", "byDate", {}, {e \in Days : e <= d}, {}))

handleDeleteTag ==
  /\ dialog = "tag" /\ dialog' = "none" /\ target' = {}
  /\ Send(Request("deleteTag", "none", {}, {}, target), requests)
  /\ UNCHANGED <<files, items, range, allTags, selectedTags, selectedPaths, isDeleting, faults>>

---------------------------------------------------------------------------
(* The server                                                              *)

delete_images(S) == files' = Keep(files, Images \ S)

(* A load reads the list and the tags apart.                               *)
ReadList(q) ==
  /\ q.kind = "load" /\ q.at = "sent" /\ q.list = {}
  /\ requests' = (requests \ {q}) \cup
       {[q EXCEPT !.list = {Listed(q.days)}, !.at = IF q.all = {} THEN "sent" ELSE "done"]}
  /\ UNCHANGED <<files, items, range, allTags, selectedTags, selectedPaths, dialog, target,
                 isDeleting, behind, changes, faults>>

ReadTags(q) ==
  /\ q.kind \in {"load", "allTags"} /\ q.at = "sent" /\ q.all = {}
  /\ requests' = (requests \ {q}) \cup
       {[q EXCEPT !.all = {get_all_tags}, !.at = IF q.kind = "load" /\ q.list = {} THEN "sent" ELSE "done"]}
  /\ UNCHANGED <<files, items, range, allTags, selectedTags, selectedPaths, dialog, target,
                 isDeleting, behind, changes, faults>>

Handle(q) ==
  /\ q.at = "sent"
  /\ \/ /\ q.kind = "delete"
        /\ delete_images(IF q.days = {} THEN q.images ELSE {i \in Images : Date[i] \in q.days})
     \/ /\ q.kind = "setTags"
        /\ files' = [i \in DOMAIN files |-> IF i \in q.images THEN q.tags ELSE files[i]]
     \/ q.kind = "deleteTag" /\ files' = Untagged(files, q.tags)
  /\ requests' = (requests \ {q}) \cup {[q EXCEPT !.at = "done"]}
  /\ UNCHANGED <<items, range, allTags, selectedTags, selectedPaths, dialog, target,
                 isDeleting, behind, changes, faults>>

(* A request fails before it does anything, or its answer is lost.         *)
Fail(q) ==
  /\ faults < MaxFaults /\ faults' = faults + 1 /\ q.at # "failed"
  /\ requests' = (requests \ {q}) \cup {[q EXCEPT !.at = "failed"]}
  /\ behind' = "yes"
  /\ UNCHANGED <<files, items, range, allTags, selectedTags, selectedPaths, dialog, target,
                 isDeleting, changes>>

(* The oldest image goes when the disk is full.                            *)
delete_to_target ==
  /\ faults < MaxFaults /\ faults' = faults + 1 /\ DOMAIN files # {}
  /\ \E i \in DOMAIN files : (\A j \in DOMAIN files : Date[i] <= Date[j]) /\ delete_images({i})
  /\ behind' = "yes"
  /\ UNCHANGED <<items, range, allTags, selectedTags, selectedPaths, dialog, target,
                 isDeleting, requests, changes>>

(* It is also asked to clean up; the page loads nothing but the figures.   *)
CleanUp == dialog = "none" /\ delete_to_target

---------------------------------------------------------------------------
(* Answers                                                                 *)

LoadedPaths(list) == selectedPaths \cap DOMAIN list

LoadDone(q) ==
  /\ q.kind = "load" /\ requests' = requests \ {q}
  /\ IF q.at = "done"
     THEN /\ \E list \in q.list : items' = list /\ selectedPaths' = LoadedPaths(list)
          /\ allTags' = UNION q.all
          /\ behind' = IF behind = "loading" THEN "no" ELSE behind
     ELSE UNCHANGED <<items, allTags, selectedPaths, behind>>
  /\ isDeleting' = (isDeleting /\ q.from = "none")
  /\ UNCHANGED <<files, range, selectedTags, dialog, target, changes, faults>>

(* One image is taken off the list; after another deletion it is loaded    *)
(* again, for the dates there were, and but for the one up to a date this  *)
(* is still part of the deletion. The dialog closes, whichever one it is.  *)
DeleteDone(q) ==
  /\ q.kind = "delete" /\ UNCHANGED range
  /\ \/ /\ q.from = "one"
        /\ IF q.at = "failed" THEN UNCHANGED <<items, selectedPaths>>
           ELSE items' = Keep(items, Images \ q.images) /\ selectedPaths' = selectedPaths \ q.images
        /\ IF dialog = "one" THEN dialog' = "none" /\ target' = {} ELSE UNCHANGED <<dialog, target>>
        /\ isDeleting' = FALSE /\ requests' = requests \ {q} /\ UNCHANGED <<behind, changes>>
     \/ /\ q.from # "one" /\ q.at = "done"
        /\ selectedPaths' = IF q.from = "byDate" THEN selectedPaths ELSE {}
        /\ dialog' = IF dialog \in {"selected", "filtered", "byDate"} THEN "none" ELSE dialog
        /\ isDeleting' = (q.from # "byDate")
        /\ Send(Request("load", IF q.from = "byDate" THEN "none" ELSE q.from, {}, q.shown, {}), requests \ {q})
        /\ UNCHANGED <<items, target>>
     \/ /\ q.from # "one" /\ q.at = "failed"
        /\ isDeleting' = FALSE /\ requests' = requests \ {q}
        /\ UNCHANGED <<items, selectedPaths, dialog, target, behind, changes>>
  /\ UNCHANGED <<files, allTags, selectedTags, faults>>

TagsSet(q) ==
  /\ q.kind = "setTags"
  /\ IF q.at = "done"
     THEN /\ items' = [i \in DOMAIN items |-> IF i \in q.images THEN q.tags ELSE items[i]]
          /\ Send(Request("allTags", "none", {}, {}, {}), requests \ {q})
     ELSE requests' = requests \ {q} /\ UNCHANGED <<items, behind, changes>>
  /\ UNCHANGED <<files, range, allTags, selectedTags, selectedPaths, dialog, target,
                 isDeleting, faults>>

AllTagsRead(q) ==
  /\ q.kind = "allTags" /\ requests' = requests \ {q}
  /\ allTags' = IF q.at = "done" THEN UNION q.all ELSE allTags
  /\ UNCHANGED <<files, items, range, selectedTags, selectedPaths, dialog, target,
                 isDeleting, behind, changes, faults>>

\* Mutant of WithoutTag: the images that are listed keep the tag.
WithoutTagOfFilter(T) == items

WithoutTag(T) == Untagged(items, T)

TagDeleted(q) ==
  /\ q.kind = "deleteTag" /\ requests' = requests \ {q}
  /\ IF q.at = "done"
     THEN /\ allTags' = allTags \ q.tags /\ selectedTags' = selectedTags \ q.tags
          /\ items' = WithoutTag(q.tags)
     ELSE UNCHANGED <<allTags, selectedTags, items>>
  /\ UNCHANGED <<files, range, selectedPaths, dialog, target, isDeleting, behind, changes, faults>>

---------------------------------------------------------------------------
Next ==
  \/ Query \/ clearFilters \/ closeDialog
  \/ handleDelete \/ confirmDelete \/ handleDeleteTag \/ delete_to_target \/ CleanUp
  \/ \E days \in Ranges : DateRange(days)
  \/ \E d \in Days : DeleteByDate(d)
  \/ \E g \in Tags : toggleFilterTag(g)
  \/ \E S \in SUBSET Images, checked \in BOOLEAN : togglePaths(S, checked)
  \/ \E i \in Images, tags \in SUBSET Tags : handleSetTags(i, tags)
  \/ \E kind \in Dialogs \ {"none"}, about \in {{}} \cup {{x} : x \in Images \cup Tags} : openDeleteDialog(kind, about)
  \/ \E q \in requests :
       \/ ReadList(q) \/ ReadTags(q) \/ Handle(q) \/ Fail(q)
       \/ /\ q.at # "sent"
          /\ LoadDone(q) \/ DeleteDone(q) \/ TagsSet(q) \/ AllTagsRead(q) \/ TagDeleted(q)

Spec == Init /\ [][Next]_vars

---------------------------------------------------------------------------
(* After a load, as long as no request crosses another, none fails and the *)
(* server does not clean up, every change of tags and every deletion       *)
(* leaves the list as the server would answer it for the dates chosen.     *)
ListIsCurrent == requests = {} /\ behind = "no" => items = Listed(range)
=============================================================================
