------------------------------ MODULE Profile ------------------------------
(***************************************************************************)
(* What a user sets for the account: preferences and model providers. The  *)
(* account menu of the shell and that of the workspace page each work on a *)
(* copy of the session of their own, and the page saves the choices of its *)
(* composer by itself. A request sends all preferences, or all providers,  *)
(* as its copy has them; its answer replaces the copy.                     *)
(***************************************************************************)
EXTENDS Naturals

CONSTANTS Menus,     \* the menus, each with its copy of the session
          Page,      \* the menu of the workspace page
          Customs,   \* providers the user may add
          Bound,     \* the account is bound to a gateway account
          Ratios, Themes, Languages,
          Start,     \* the preferences at first
          Requests,  \* requests under way at once
          MaxChanges, MaxFaults

HappyToken == "newapi-default"
Ids == Customs \cup {HappyToken}
None == "none"

Preferences == [theme : Themes, language : Languages, ratio : Ratios]
(* The providers: which there are, which have a key, which is used.        *)
Providers == [have : SUBSET Ids, keyed : SUBSET Ids, selected : Ids \cup {None}]
Profiles == [providers : Providers, preferences : Preferences]

ConstantsOK ==
  /\ Page \in Menus /\ Start \in Preferences /\ None \notin Ids
  /\ Bound \in BOOLEAN /\ MaxChanges \in Nat /\ MaxFaults \in Nat

VARIABLES
  account,  \* the profile on the server
  stored,   \* the profile in the browser's store
  session,  \* per menu: the profile of its copy of the session
  shown,    \* per menu: themePreference
  view,     \* per menu: providerView with the provider that is edited
  typed,    \* per menu: a key is typed in the form
  ratio,    \* imageRatio of the page
  timer,    \* the page is about to save its choices
  request,  \* requests under way
  changes, faults

vars == <<account, stored, session, shown, view, typed, ratio, timer, request, changes, faults>>

Idle == [at |-> "idle"]
Views == {"list", "picker", "new"} \cup Customs
Kinds == {"preferences", "image", "save", "list", "label", "test"}

(* base is the copy the request was made from, body what it sends, answer  *)
(* the account after it.                                                   *)
Busy == [at : {"sent", "done", "failed"}, menu : Menus, kind : Kinds, base : Profiles,
         body : Profiles, keys : SUBSET Ids, gone : Ids \cup {None}, answer : Profiles]

TypeOK ==
  /\ account \in Profiles /\ stored \in Profiles
  /\ session \in [Menus -> Profiles]
  /\ shown \in [Menus -> Themes]
  /\ view \in [Menus -> Views] /\ typed \in [Menus -> BOOLEAN]
  /\ ratio \in Ratios /\ timer \in BOOLEAN
  /\ request \in [Requests -> Busy \cup {Idle}]
  /\ changes \in 0..MaxChanges /\ faults \in 0..MaxFaults

---------------------------------------------------------------------------
(* The providers of a session                                              *)

(* The session of a user whose selected provider has a key.                *)
modelApiKeyConfigured(p) == p.selected \in p.keyed

(* The list a menu shows and sends: the gateway's provider is always first *)
(* in it; it is said to have a key if the session has any sign of one.     *)
createHappyTokenProvider(p) ==
  IF HappyToken \in p.keyed \/ Bound \/ modelApiKeyConfigured(p) THEN {HappyToken} ELSE {}

getSessionModelProviders(p) ==
  [have |-> p.have \cup {HappyToken},
   keyed |-> p.keyed \cup createHappyTokenProvider(p),
   selected |-> IF p.selected \in Customs THEN p.selected ELSE HappyToken]

(* The provider that is used when the list has no selected one.            *)
ensureSelectedProvider(p) ==
  IF p.selected \in p.have THEN p ELSE [p EXCEPT !.selected = HappyToken]

Draft(m) == getSessionModelProviders(session[m].providers)

\* Mutant of NormalizeModelProviders: a key that is not sent again is forgotten.
NormalizeForgets(old, new, keys) == [new EXCEPT !.keyed = keys]

(* The server keeps the key of a provider that is said to have one; a key  *)
(* that was typed replaces it.                                             *)
NormalizeModelProviders(old, new, keys) ==
  [new EXCEPT !.keyed = keys \cup (new.keyed \cap old.keyed)]

---------------------------------------------------------------------------
Init ==
  /\ account \in [providers : {[have |-> {}, keyed |-> {}, selected |-> None],
                               [have |-> {HappyToken}, keyed |-> {HappyToken}, selected |-> HappyToken]},
                  preferences : {Start}]
  /\ stored = account
  /\ session = [m \in Menus |-> account]
  /\ shown = [m \in Menus |-> account.preferences.theme]
  /\ view = [m \in Menus |-> "list"] /\ typed = [m \in Menus |-> FALSE]
  /\ ratio = account.preferences.ratio /\ timer = FALSE
  /\ request = [r \in Requests |-> Idle]
  /\ changes = 0 /\ faults = 0

Change == changes < MaxChanges /\ changes' = changes + 1

Send(r, m, kind, body, keys, gone) ==
  /\ request[r] = Idle
  /\ request' = [request EXCEPT ![r] =
       [at |-> "sent", menu |-> m, kind |-> kind, base |-> session[m], body |-> body,
        keys |-> keys, gone |-> gone, answer |-> account]]

Of(m) == session[m].preferences
WithPreferences(m, p) == [providers |-> session[m].providers, preferences |-> p]
WithProviders(m, p) == [providers |-> p, preferences |-> Of(m)]

UnderWay(m, kinds) ==
  {r \in Requests : request[r] # Idle /\ request[r].menu = m /\ request[r].kind \in kinds}
isSavingProvider(m) == UnderWay(m, {"save", "list"}) # {}
isTestingProvider(m) == UnderWay(m, {"test"}) # {}

\* Mutant of AccountTheme: what the account has is not shown.
ThemeOfMenu(m, old, new) == shown

(* The theme or the language of a session that changes is shown.           *)
AccountTheme(m, old, new) ==
  IF <<new.theme, new.language>> # <<old.theme, old.language>>
  THEN [shown EXCEPT ![m] = new.theme] ELSE shown

(* The history is loaded again, and with it the ratio of a session that    *)
(* has another one.                                                        *)
RatioOfHistory(old, new) == IF new.ratio # old.ratio THEN new.ratio ELSE ratio

(* The page's timer starts again with every choice and every session it    *)
(* gets, if the two differ.                                                *)
SetTimer(chosen, preferences) == timer' = (chosen # preferences.ratio)

(* What a copy of the session that changes sets off: the menu starts its   *)
(* drafts anew and drops a typed key.                                      *)
SetSession(m, p) ==
  LET old == session[m].preferences
      new == p.preferences
  IN /\ session' = [session EXCEPT ![m] = p]
     /\ shown' = AccountTheme(m, old, new)
     /\ typed' = [typed EXCEPT ![m] = FALSE]
     /\ IF m = Page THEN ratio' = RatioOfHistory(old, new) /\ SetTimer(ratio', new)
                    ELSE UNCHANGED <<ratio, timer>>

---------------------------------------------------------------------------
(* Appearance                                                              *)

(* All is offered at any time, whether or not a request is under way.      *)
AppearanceOffers == [theme |-> Themes, language |-> Languages]

handleThemeChange(m, r, v) ==
  /\ Change
  /\ shown' = [shown EXCEPT ![m] = v]
  /\ Send(r, m, "preferences", WithPreferences(m, [Of(m) EXCEPT !.theme = v]), {}, None)
  /\ UNCHANGED <<account, stored, session, view, typed, ratio, timer, faults>>

handleLanguageChange(m, r, v) ==
  /\ Change
  /\ Send(r, m, "preferences", WithPreferences(m, [Of(m) EXCEPT !.language = v]), {}, None)
  /\ UNCHANGED <<account, stored, session, shown, view, typed, ratio, timer, faults>>

---------------------------------------------------------------------------
(* Providers                                                               *)

(* What the three views of the providers offer.                            *)
ListOffers(m) ==
  {"edit"} \cup IF isSavingProvider(m) THEN {} ELSE {"add", "use", "delete"}
PickerOffers == {"choose", "back"}
FormOffers(m) ==
  {"back", "key"} \cup IF isSavingProvider(m) \/ isTestingProvider(m) THEN {} ELSE {"save", "test"}

Offers(m) ==
  CASE view[m] = "list" -> ListOffers(m) [] view[m] = "picker" -> PickerOffers [] OTHER -> FormOffers(m)

Look(m, v, key) ==
  /\ view' = [view EXCEPT ![m] = v]
  /\ typed' = [typed EXCEPT ![m] = key]
  /\ UNCHANGED <<account, stored, session, shown, ratio, timer, request, faults>>

openProviderPicker(m) ==
  /\ "add" \in Offers(m) /\ Change
  /\ Look(m, "picker", FALSE)

handleChooseProviderPreset(m) ==
  /\ "choose" \in Offers(m)
  /\ Look(m, "new", FALSE) /\ UNCHANGED changes

openProviderForm(m, p) ==
  /\ "edit" \in Offers(m) /\ p \in Draft(m).have \cap Customs /\ Change
  /\ Look(m, p, FALSE)

(* Back from the form of a new provider leads to the picker.               *)
Back(m) ==
  /\ "back" \in Offers(m)
  /\ Look(m, IF view[m] = "new" THEN "picker" ELSE "list", FALSE) /\ UNCHANGED changes

TypeKey(m) ==
  /\ "key" \in Offers(m) /\ ~typed[m]
  /\ Look(m, view[m], TRUE) /\ UNCHANGED changes

syncProviderSession(r, m, kind, list, keys, gone) ==
  /\ Send(r, m, kind, WithProviders(m, list), keys, gone)
  /\ UNCHANGED <<account, stored, session, shown, view, typed, ratio, timer, faults>>

(* The form's provider takes its place in the list of the menu; a new one  *)
(* is not used yet, unless there is none to use.                           *)
handleSaveProvider(m, r) ==
  /\ "save" \in Offers(m)
  /\ \E id \in IF view[m] = "new" THEN Customs \ Draft(m).have ELSE {view[m]} :
       LET list == [Draft(m) EXCEPT !.have = @ \cup {id},
                                    !.keyed = IF typed[m] THEN @ \cup {id} ELSE @]
       IN syncProviderSession(r, m, "save", ensureSelectedProvider(list),
                              IF typed[m] THEN {id} ELSE {}, None)
  /\ UNCHANGED changes

handleTestProvider(m, r) ==
  /\ "test" \in Offers(m) /\ typed[m] /\ Change
  /\ Send(r, m, "test", session[m], {}, None)
  /\ UNCHANGED <<account, stored, session, shown, view, typed, ratio, timer, faults>>

handleSelectProvider(m, r, p) ==
  /\ "use" \in Offers(m) /\ Change
  /\ p \in Draft(m).have \ {Draft(m).selected}
  /\ syncProviderSession(r, m, "list", [Draft(m) EXCEPT !.selected = p], {}, None)

handleDeleteProvider(m, r, p) ==
  /\ "delete" \in Offers(m) /\ Change
  /\ p \in Draft(m).have \cap Customs
  /\ LET list == [Draft(m) EXCEPT !.have = @ \ {p}, !.keyed = @ \ {p}]
     IN syncProviderSession(r, m, "list", ensureSelectedProvider(list), {}, p)

---------------------------------------------------------------------------
(* The page                                                                *)

(* The user chooses a ratio in the composer.                               *)
setImageRatio(v) ==
  /\ Change /\ v # ratio
  /\ ratio' = v
  /\ SetTimer(v, session[Page].preferences)
  /\ UNCHANGED <<account, stored, session, shown, view, typed, request, faults>>

(* 700 ms after the last choice or answer the page saves what it shows,    *)
(* with the rest of its copy.                                              *)
SaveChoices(r) ==
  /\ timer /\ timer' = FALSE
  /\ Send(r, Page, "image", WithPreferences(Page, [Of(Page) EXCEPT !.ratio = ratio]), {}, None)
  /\ UNCHANGED <<account, stored, session, shown, view, typed, ratio, changes, faults>>

(* The history is loaded again when the browser shows the page again.      *)
LoadHistory ==
  /\ Change
  /\ ratio' = session[Page].preferences.ratio /\ timer' = FALSE
  /\ UNCHANGED <<account, stored, session, shown, view, typed, request, faults>>

WatermarkOffers == IF UnderWay(Page, {"label"}) = {} THEN {"save"} ELSE {}

SaveWatermarkLabel(r) ==
  /\ "save" \in WatermarkOffers /\ Change
  /\ Send(r, Page, "label", session[Page], {}, None)
  /\ UNCHANGED <<account, stored, session, shown, view, typed, ratio, timer, faults>>

(* What holds a copy is loaded again, while nothing of it is under way:    *)
(* the session is validated, which answers the account as it is.           *)
Reopen(m) ==
  /\ Change /\ UnderWay(m, Kinds) = {}
  /\ stored' = account
  /\ session' = [session EXCEPT ![m] = account]
  /\ shown' = [shown EXCEPT ![m] = account.preferences.theme]
  /\ view' = [view EXCEPT ![m] = "list"] /\ typed' = [typed EXCEPT ![m] = FALSE]
  /\ IF m = Page THEN ratio' = account.preferences.ratio /\ timer' = FALSE
                 ELSE UNCHANGED <<ratio, timer>>
  /\ UNCHANGED <<account, request, faults>>

---------------------------------------------------------------------------
(* Requests                                                                *)

(* PATCH /api/auth/profile: what is sent replaces what was there.          *)
UpdatedAccount(q) ==
  CASE q.kind \in {"preferences", "image"} -> [account EXCEPT !.preferences = q.body.preferences]
    [] q.kind \in {"save", "list"} ->
         [account EXCEPT !.providers = NormalizeModelProviders(@, q.body.providers, q.keys)]
    [] OTHER -> account

Handle(r) ==
  /\ request[r] # Idle /\ request[r].at = "sent"
  /\ account' = UpdatedAccount(request[r])
  /\ request' = [request EXCEPT ![r].at = "done", ![r].answer = account']
  /\ UNCHANGED <<stored, session, shown, view, typed, ratio, timer, changes, faults>>

(* A request, or its answer, is lost.                                      *)
Fail(r) ==
  /\ request[r] # Idle /\ request[r].at \in {"sent", "done"}
  /\ faults < MaxFaults /\ faults' = faults + 1
  /\ request' = [request EXCEPT ![r].at = "failed"]
  /\ UNCHANGED <<account, stored, session, shown, view, typed, ratio, timer, changes>>

\* Mutant of AnsweredSession: the page stores what it had before.
AnsweredUnchanged(q) ==
  IF q.kind = "image" THEN q.base ELSE q.answer

(* The page only takes the preferences of what its choices are answered.   *)
AnsweredChoices(q) == [q.base EXCEPT !.preferences = q.answer.preferences]

(* It stores the answer to a label with the preferences it had before.     *)
AnsweredLabel(q) == [q.answer EXCEPT !.preferences = q.base.preferences]

(* A menu takes the account as it is answered.                             *)
AnsweredSession(q) ==
  CASE q.kind = "image" -> AnsweredChoices(q)
    [] q.kind = "label" -> AnsweredLabel(q)
    [] OTHER -> q.answer

(* The menu's list is shown again after a provider was saved.              *)
Answered(r) ==
  LET q == request[r]
  IN /\ q # Idle /\ q.at = "done"
     /\ request' = [request EXCEPT ![r] = Idle]
     /\ IF q.kind = "test" THEN UNCHANGED stored ELSE stored' = AnsweredSession(q)
     /\ view' = IF q.kind = "save" THEN [view EXCEPT ![q.menu] = "list"] ELSE view
     /\ IF q.kind \in {"label", "test"} THEN UNCHANGED <<session, shown, typed, ratio, timer>>
        ELSE SetSession(q.menu, AnsweredSession(q))
     /\ UNCHANGED <<account, changes, faults>>

(* A failure is said or swallowed: what is shown stays.                    *)
Refused(r) ==
  /\ request[r] # Idle /\ request[r].at = "failed"
  /\ request' = [request EXCEPT ![r] = Idle]
  /\ UNCHANGED <<account, stored, session, shown, view, typed, ratio, timer, changes, faults>>

---------------------------------------------------------------------------
Menu(m) ==
  \/ openProviderPicker(m) \/ handleChooseProviderPreset(m) \/ Back(m) \/ TypeKey(m) \/ Reopen(m)
  \/ \E p \in Customs : openProviderForm(m, p)
  \/ \E r \in Requests :
       \/ \E v \in AppearanceOffers.theme : handleThemeChange(m, r, v)
       \/ \E v \in AppearanceOffers.language : handleLanguageChange(m, r, v)
       \/ handleSaveProvider(m, r) \/ handleTestProvider(m, r)
       \/ \E p \in Ids : handleSelectProvider(m, r, p) \/ handleDeleteProvider(m, r, p)

SaveAgain == \E r \in Requests : SaveChoices(r)
GoOn(r) == Handle(r) \/ Answered(r) \/ Refused(r)

Next ==
  \/ \E m \in Menus : Menu(m)
  \/ \E v \in Ratios : setImageRatio(v)
  \/ LoadHistory \/ SaveAgain
  \/ \E r \in Requests : GoOn(r) \/ Fail(r) \/ SaveWatermarkLabel(r)

Spec == Init /\ [][Next]_vars

(* Timers fire, and requests are answered or fail.                         *)
Fairness == WF_vars(SaveAgain) /\ \A r \in Requests : WF_vars(GoOn(r))

FairSpec == Spec /\ Fairness

---------------------------------------------------------------------------
(* Every request replaces the whole list of providers, and no key is ever  *)
(* sent back to a browser: still a saved key is only lost with a provider  *)
(* that is deleted, or to a menu whose copy is older than the key.         *)
KeysKept ==
  [][\A p \in account.providers.keyed \ account'.providers.keyed :
       \E r \in Requests :
         /\ request[r].at = "sent" /\ request'[r].at = "done"
         /\ request[r].gone = p \/ p \notin request[r].base.providers.keyed]_vars

(* A menu shows a theme as soon as it is chosen. However answers overtake  *)
(* each other, once they are all there it shows the theme of its session,  *)
(* unless a request failed.                                                *)
ThemeShown ==
  \A m \in Menus : faults = 0 /\ UnderWay(m, Kinds) = {} =>
                     shown[m] = session[m].preferences.theme

(* The page does not save its choices for ever: what it saves comes back   *)
(* with the session, which sets the choices, which would be saved again.   *)
SavingEnds == <>[](~timer /\ \A r \in Requests : request[r] = Idle)
=============================================================================
