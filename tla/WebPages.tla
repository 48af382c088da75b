------------------------------ MODULE WebPages ------------------------------
(* The pages of the browser application, each with what it needs of the    *)
(* server. They share no state but the bounds, so a behaviour is one of a  *)
(* single part, chosen at first, and the others stand still. The workspace *)
(* is here with several tabs.                                              *)
EXTENDS Integers, Sequences, FiniteSets

CONSTANTS
  Pages,                                  \* of the settings, the setup and the workspace
  Pictures, PictureCategories, CategoryOf, Featured, HeroIds, HeroPool, HeroCategories,
  HeroCount, Replacements, InitialSections, CardsPerSection, RotationLimit,
  SettingTexts, Periods, Secrets, Models, DefaultModels, Terms, NewTerms, UsualTerms, MaxEdits,
  UserIds, Names, Keys, MaxWrites,
  Tabs, ConversationIds, MaxClock,        \* of the history; the workspace has the tabs too
  Images, Tags, Date, Ranges,
  Catalog, SeedCategory, SeedTags, All, PageSize, Unknown,
  SharedItems, Shareable,
  LogKinds, LogFilters, Usual, Limit, MaxEntries,
  TabOf, Turns, TurnImages, TurnOf, FirstImages, Runners, MaxErrors, Leavers, MaxLapses,
  MaxRequests, MaxChanges, MaxFaults      \* per part

VARIABLES part, changes, faults,
  progress, visible, pictures, hero, slides, sections, scroll, below, recent, frame, active, nav, hiding,
  stored, config, load, save, base, edited, edits,
  users, created, rows, read, overtaken, dialog, revealed, keyRequests, writes,
  admins, settings, locked, page, valid, status, claim, undone, stops,
  server, saved, list, queue, snapshot, crossed, aside, selected, skip, drafted, calls, clock,
  files, images, range, allTags, selectedTags, selectedPaths, prompted, target, isDeleting, asked, behind,
  route, facets, category, delay, cards, offset, hasMore, isLoading, isLoadingMore, amiss,
  item, relatedItems, detail, static, cache, fetches, intent, prompt,
  shares, opened, title, conversationSummary, sharePrompt, busy, jobs, drafts,
  file, added, filter, entries, selectedIds, deletingItems, isRemoving, isListing, queries, chosen, amid,
  task, word, gallery, used, visit, local, reload, post, due, signature, guard, runner, patches, lapses

hg == <<progress, visible, pictures, hero, slides, sections, scroll, below, recent, frame, active, nav, hiding>>
st == <<stored, config, load, save, base, edited, edits>>
us == <<users, created, rows, read, overtaken, dialog, revealed, keyRequests, writes>>
su == <<admins, settings, locked, page, valid, status, claim, undone, stops>>
hi == <<server, saved, list, queue, snapshot, crossed, aside, selected, skip, drafted, calls, clock>>
li == <<files, images, range, allTags, selectedTags, selectedPaths, prompted, target, isDeleting, asked, behind>>
sg == <<route, facets, category, delay, cards, offset, hasMore, isLoading, isLoadingMore, amiss,
        item, relatedItems, detail, static, cache, fetches, intent, prompt>>
sh == <<shares, opened, title, conversationSummary, sharePrompt, busy, jobs, drafts>>
cl == <<file, added, filter, entries, selectedIds, deletingItems, isRemoving, isListing, queries, chosen, amid>>
ws == <<task, word, gallery, used, visit, local, reload, post, due, signature, guard, runner, patches, lapses>>

Home == INSTANCE HomeGallery WITH
  Items <- Pictures, Categories <- PictureCategories, load <- progress, items <- pictures, shown <- nav

Config == INSTANCE Settings WITH
  Texts <- SettingTexts, Days <- Periods, MaxFaults <- MaxFaults["settings"]

Accounts == INSTANCE Users WITH
  Ids <- UserIds, MaxRequests <- MaxRequests["users"], MaxFaults <- MaxFaults["users"],
  items <- rows, requests <- keyRequests

Install == INSTANCE Setup WITH
  MaxChanges <- MaxChanges["setup"], MaxFaults <- MaxFaults["setup"], request <- claim

Histories == INSTANCE History WITH
  Ids <- ConversationIds,
  MaxChanges <- MaxChanges["history"], MaxFaults <- MaxFaults["history"], store <- saved

Manager == INSTANCE Library WITH
  MaxRequests <- MaxRequests["library"], MaxChanges <- MaxChanges["library"],
  MaxFaults <- MaxFaults["library"], items <- images, dialog <- prompted, requests <- asked

Seeds == INSTANCE SeedGallery WITH
  Category <- SeedCategory, Tags <- SeedTags,
  MaxChanges <- MaxChanges["seeds"], MaxFaults <- MaxFaults["seeds"],
  filter <- category, timer <- delay, items <- cards, requests <- fetches

Shares == INSTANCE ShareDrawer WITH
  Items <- SharedItems,
  MaxRequests <- MaxRequests["share"], MaxChanges <- MaxChanges["share"],
  MaxFaults <- MaxFaults["share"], items <- shares, selected <- opened, requests <- jobs

Log == INSTANCE CallLog WITH
  Kinds <- LogKinds, Filters <- LogFilters,
  MaxChanges <- MaxChanges["log"], MaxFaults <- MaxFaults["log"],
  items <- entries, isDeleting <- isRemoving, isLoading <- isListing, requests <- queries

\* Tabs that show the same turns; some may be left or closed.
ManyTabs == INSTANCE Workspace WITH
  Images <- TurnImages, First <- FirstImages, MaxFaults <- MaxFaults["tabs"], page <- visit, load <- reload

ASSUME PagesConstantsOK ==
  /\ Home!ConstantsOK /\ Config!ConstantsOK /\ Accounts!ConstantsOK /\ Install!ConstantsOK
  /\ Histories!ConstantsOK /\ Manager!ConstantsOK /\ Seeds!ConstantsOK /\ Shares!ConstantsOK
  /\ Log!ConstantsOK /\ ManyTabs!WorkspaceConstantsOK

Parts == {"home", "settings", "users", "setup", "history", "library", "seeds", "share", "log", "tabs"}

Init ==
  /\ part \in Parts
  /\ Home!Init /\ Config!Init /\ Accounts!Init /\ Install!Init /\ Histories!Init /\ Manager!Init
  /\ Seeds!Init /\ Shares!Init /\ Log!Init /\ ManyTabs!Init

Next ==
  /\ UNCHANGED part
  /\ \/ /\ part = "home" /\ Home!Next
        /\ UNCHANGED <<changes, faults, st, us, su, hi, li, sg, sh, cl, ws>>
     \/ /\ part = "settings" /\ Config!Next
        /\ UNCHANGED <<changes, hg, us, su, hi, li, sg, sh, cl, ws>>
     \/ /\ part = "users" /\ Accounts!Next
        /\ UNCHANGED <<changes, hg, st, su, hi, li, sg, sh, cl, ws>>
     \/ /\ part = "setup" /\ Install!Next
        /\ UNCHANGED <<hg, st, us, hi, li, sg, sh, cl, ws>>
     \/ /\ part = "history" /\ Histories!Next
        /\ UNCHANGED <<hg, st, us, su, li, sg, sh, cl, ws>>
     \/ /\ part = "library" /\ Manager!Next
        /\ UNCHANGED <<hg, st, us, su, hi, sg, sh, cl, ws>>
     \/ /\ part = "seeds" /\ Seeds!Next
        /\ UNCHANGED <<hg, st, us, su, hi, li, sh, cl, ws>>
     \/ /\ part = "share" /\ Shares!Next
        /\ UNCHANGED <<hg, st, us, su, hi, li, sg, cl, ws>>
     \/ /\ part = "log" /\ Log!Next
        /\ UNCHANGED <<hg, st, us, su, hi, li, sg, sh, ws>>
     \/ /\ part = "tabs" /\ ManyTabs!Next
        /\ UNCHANGED <<changes, hg, st, us, su, hi, li, sg, sh, cl>>

vars == <<part, changes, faults, hg, st, us, su, hi, li, sg, sh, cl, ws>>

Spec == Init /\ [][Next]_vars

(* The properties of the parts, stated in their modules.                   *)
CardsDistinct == Home!CardsDistinct
NavAttended == Home!NavAttended
SettingsKept == Config!SettingsKept
ListCaught == Accounts!ListCaught
SetupWhole == Install!SetupWhole
NothingReverts == Histories!NothingReverts
CacheFollows == Histories!CacheFollows
DraftKept == Histories!DraftKept
ListIsCurrent == Manager!ListIsCurrent
PageSettled == Seeds!PageSettled
DraftOfOneItem == Shares!DraftOfOneItem
LogKept == Log!LogKept
LoadingIsAttended == ManyTabs!LoadingIsAttended
=============================================================================
