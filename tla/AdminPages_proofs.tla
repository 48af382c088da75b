-------------------------- MODULE AdminPages_proofs --------------------------
(* Proofs about the pages of an administrator (the first setup, the        *)
(* settings, the list of users, the images, the log of calls) and about    *)
(* the gallery of prompts, each as the part of WebPages it is.             *)
EXTENDS WebPages, Filtered_proofs, FiniteSetTheorems, SequenceTheorems, TLAPS

---------------------------------------------------------------------------
(* The first setup                                                         *)

(* A setup holds the place of the first administrator while it is created  *)
(* and not saved.                                                          *)
Holds(p) == claim[p] \in {"created", "unsaved"}

(* While the server has not stopped the lock is free, who holds the place  *)
(* is the only administrator and there are no settings, an administrator   *)
(* without settings is held by a setup or could not be taken back, and     *)
(* settings have an administrator.                                         *)
PlaceInv ==
  /\ \A a, b \in admins : a = b
  /\ stops = 0 =>
       /\ ~locked
       /\ \A p \in Pages : Holds(p) => admins = {p} /\ ~settings
       /\ settings => admins # {}
       /\ admins # {} /\ ~settings /\ ~undone => \E p \in Pages : Holds(p)

\* What is assumed of the constants of the setup.
LEMMA SetupBounds == MaxChanges["setup"] \in Nat /\ MaxFaults["setup"] \in Nat
BY PagesConstantsOK DEF PagesConstantsOK, Install!ConstantsOK

\* The initial values are of their types.
LEMMA SetupTypeInit == Install!Init => Install!TypeOK
<1> SUFFICES ASSUME Install!Init PROVE Install!TypeOK
  OBVIOUS
<1>1. valid \in [Pages -> BOOLEAN] /\ settings \in BOOLEAN /\ locked \in BOOLEAN /\ undone \in BOOLEAN
  BY DEF Install!Init
<1>2. stops \in 0..MaxFaults["setup"] /\ changes \in 0..MaxChanges["setup"] /\ faults \in 0..MaxFaults["setup"]
  BY SetupBounds DEF Install!Init
<1>3. admins \subseteq Pages
  BY DEF Install!Init
<1>4. /\ page \in [Pages -> {"checking", "error", "form", "login"}]
      /\ status \in [Pages -> {"idle", "sent", "required", "done", "failed"}]
      /\ claim \in [Pages -> {"idle", "sent", "short", "checked", "created", "unsaved", "ok", "failed"}]
  BY DEF Install!Init
<1> QED BY <1>1, <1>2, <1>3, <1>4 DEF Install!TypeOK

\* Every step of the setup keeps the types of its variables.
LEMMA SetupTypeStep ==
  ASSUME Install!TypeOK, [Install!Next]_(Install!vars) PROVE Install!TypeOK'
<1> USE SetupBounds DEF Install!TypeOK, Install!server
<1>1. CASE UNCHANGED Install!vars
  BY <1>1 DEF Install!vars
<1>2. CASE Install!Stop
  <2>1. valid' \in [Pages -> BOOLEAN] /\ status' \in [Pages -> {"idle", "failed"}]
        /\ claim' \in [Pages -> {"idle", "failed"}]
    BY <1>2, Zenon DEF Install!Stop
  <2>2. settings' \in BOOLEAN /\ undone' \in BOOLEAN /\ locked' \in BOOLEAN
    BY <1>2, Zenon DEF Install!Stop
  <2>3. stops' \in 0..MaxFaults["setup"] /\ admins' \subseteq Pages
        /\ UNCHANGED <<page, changes, faults>>
    BY <1>2 DEF Install!Stop
  <2> QED BY <2>1, <2>2, <2>3
<1>3. ASSUME NEW p \in Pages, Install!Reopen(p) \/ Install!setField(p) PROVE Install!TypeOK'
  <2>1. valid' \in [Pages -> BOOLEAN]
    BY <1>3, Zenon DEF Install!Reopen, Install!setField
  <2> QED BY <1>3, <2>1 DEF Install!Reopen, Install!setField, Install!Ask, Install!Change
<1>a. ASSUME NEW p \in Pages, Install!retrySetupStatus(p) PROVE Install!TypeOK'
  BY <1>a DEF Install!retrySetupStatus, Install!Ask
<1>4. ASSUME NEW p \in Pages, Install!StatusAnswered(p) PROVE Install!TypeOK'
  BY <1>4 DEF Install!StatusAnswered, Install!applySetupStatus
<1>5. ASSUME NEW p \in Pages, Install!Save(p) \/ Install!SaveAnswered(p) PROVE Install!TypeOK'
  BY <1>5 DEF Install!Save, Install!SaveAnswered
<1>6. ASSUME NEW p \in Pages, Install!get_setup_status(p) \/ Install!CheckSetup(p) PROVE Install!TypeOK'
  BY <1>6 DEF Install!get_setup_status, Install!CheckSetup, Install!Step
<1>7. ASSUME NEW p \in Pages, Install!create_first_auth_key(p) PROVE Install!TypeOK'
  BY <1>7 DEF Install!create_first_auth_key, Install!Step
<1>8. ASSUME NEW p \in Pages, Install!UpdateConfig(p) PROVE Install!TypeOK'
  <2>1. settings' \in BOOLEAN /\ UNCHANGED <<undone, locked>>
    BY <1>8, Zenon DEF Install!UpdateConfig
  <2>2. faults' \in 0..MaxFaults["setup"]
    BY <1>8 DEF Install!UpdateConfig
  <2> QED BY <1>8, <2>1, <2>2 DEF Install!UpdateConfig, Install!Step
<1>b. ASSUME NEW p \in Pages, Install!delete_first_admin(p) PROVE Install!TypeOK'
  <2>1. undone' \in BOOLEAN /\ UNCHANGED <<settings, locked>>
    BY <1>b, Zenon DEF Install!delete_first_admin
  <2>2. faults' \in 0..MaxFaults["setup"] /\ admins' \subseteq Pages
    BY <1>b DEF Install!delete_first_admin
  <2> QED BY <1>b, <2>1, <2>2 DEF Install!delete_first_admin, Install!Step
<1>9. ASSUME NEW p \in Pages, Install!Lose(p) PROVE Install!TypeOK'
  <2>1. UNCHANGED valid
    BY <1>9 DEF Install!Lose
  <2>2. faults' \in 0..MaxFaults["setup"]
    BY <1>9 DEF Install!Lose
  <2> QED BY <1>9, <2>1, <2>2 DEF Install!Lose
<1> QED BY <1>1, <1>2, <1>3, <1>a, <1>4, <1>5, <1>6, <1>7, <1>8, <1>b, <1>9 DEF Install!Next

\* Every step of the setup keeps the place of the first administrator.
LEMMA PlaceStep ==
  ASSUME Install!TypeOK, PlaceInv, [Install!Next]_(Install!vars) PROVE PlaceInv'
<1> USE DEF PlaceInv, Holds, Install!TypeOK
<1>1. CASE UNCHANGED Install!vars
  BY <1>1 DEF Install!vars
<1>2. CASE Install!Stop
  BY <1>2 DEF Install!Stop, Install!Claimable, Install!_admin_exists
<1>3. ASSUME NEW p \in Pages,
             \/ Install!Reopen(p) \/ Install!retrySetupStatus(p) \/ Install!setField(p)
             \/ Install!StatusAnswered(p) \/ Install!get_setup_status(p)
      PROVE PlaceInv'
  BY <1>3 DEF Install!Reopen, Install!retrySetupStatus, Install!setField, Install!StatusAnswered,
              Install!get_setup_status, Install!server
<1>4. ASSUME NEW p \in Pages,
             Install!Save(p) \/ Install!SaveAnswered(p) \/ Install!CheckSetup(p) \/ Install!Lose(p)
      PROVE PlaceInv'
  <2>1. UNCHANGED <<admins, settings, locked, undone, stops>>
    BY <1>4 DEF Install!Save, Install!SaveAnswered, Install!CheckSetup, Install!Lose, Install!Step, Install!server
  <2>2. \A q \in Pages : Holds(q)' <=> Holds(q)
    BY <1>4 DEF Install!Save, Install!isSaving, Install!FormOffers, Install!AdminSection, Install!SiteSection,
                Install!LoginSection, Install!GatewaySection, Install!SaveAnswered, Install!CheckSetup,
                Install!Lose, Install!Step
  <2> QED BY <2>1, <2>2
<1>5. ASSUME NEW p \in Pages, Install!create_first_auth_key(p) PROVE PlaceInv'
  BY <1>5 DEF Install!create_first_auth_key, Install!Step, Install!Claimable, Install!_admin_exists
<1>6. ASSUME NEW p \in Pages, Install!UpdateConfig(p) PROVE PlaceInv'
  BY <1>6 DEF Install!UpdateConfig, Install!Step
<1>7. ASSUME NEW p \in Pages, Install!delete_first_admin(p) PROVE PlaceInv'
  BY <1>7 DEF Install!delete_first_admin, Install!Step
<1> QED BY <1>1, <1>2, <1>3, <1>4, <1>5, <1>6, <1>7 DEF Install!Next

\* The place of the first administrator is what the property is about.
LEMMA PlaceIsWhole == Install!TypeOK /\ PlaceInv => SetupWhole
<1> SUFFICES ASSUME Install!TypeOK, PlaceInv PROVE SetupWhole
  OBVIOUS
<1>1. Cardinality(admins) <= 1
  <2>1. CASE admins = {}
    BY <2>1, FS_EmptySet
  <2>2. CASE admins # {}
    <3>1. PICK a : a \in admins
      BY <2>2
    <3>2. admins = {a}
      BY <3>1 DEF PlaceInv
    <3> QED BY <3>2, FS_Singleton
  <2> QED BY <2>1, <2>2
<1>2. ASSUME stops = 0, ~undone, \A p \in Pages : ~Install!isSaving(p)
      PROVE (admins # {}) = settings /\ (settings \/ Install!Claimable)
  <2>1. \A p \in Pages : ~Holds(p)
    BY <1>2 DEF Install!isSaving, Holds
  <2>2. admins # {} <=> settings
    BY <1>2, <2>1 DEF PlaceInv
  <2>3. ~locked
    BY <1>2 DEF PlaceInv
  <2>4. settings \in BOOLEAN
    BY DEF Install!TypeOK
  <2> QED BY <2>2, <2>3, <2>4 DEF Install!Claimable, Install!_admin_exists
<1>3. Install!Cardinality(admins) = Cardinality(admins)
  BY DEF Cardinality, Install!Cardinality
<1> QED BY <1>1, <1>2, <1>3 DEF SetupWhole, Install!SetupWhole

(* However many pages set the installation up at once, there is never more *)
(* than one administrator, and none is left without settings.              *)
THEOREM SetupIsWhole == Install!Spec => []SetupWhole
<1>1. Install!Init => Install!TypeOK /\ PlaceInv
  BY SetupTypeInit DEF Install!Init, PlaceInv, Holds
<1>2. Install!TypeOK /\ PlaceInv /\ [Install!Next]_(Install!vars) => (Install!TypeOK /\ PlaceInv)'
  BY SetupTypeStep, PlaceStep
<1>3. Install!TypeOK /\ PlaceInv => SetupWhole
  BY PlaceIsWhole
<1> QED BY <1>1, <1>2, <1>3, PTL DEF Install!Spec

---------------------------------------------------------------------------
(* The users                                                               *)

(* A request has these fields, and an answer that is under way was read    *)
(* after a change of the server that has been made.                        *)
KeyRequest(q) == {"at", "list", "read"} \subseteq DOMAIN q
ReadBefore(q) ==
  q.at = "done" => /\ q.read \in Nat /\ q.read <= writes
                   /\ q.read = writes => q.list = Accounts!list_keys

(* The last change will be read, or was and is on its way.                 *)
Brings(q) == q.at = "changed" \/ (q.at = "done" /\ q.read = writes)

(* What is shown after the last change is the list; until then an answer   *)
(* brings it, unless one was overtaken.                                    *)
ListInv ==
  /\ read \in Nat /\ writes \in Nat /\ faults \in Nat /\ read <= writes
  /\ \A q \in keyRequests : KeyRequest(q) /\ ReadBefore(q)
  /\ read = writes => rows = Accounts!list_keys
  /\ faults = 0 => overtaken \/ read = writes \/ \E q \in keyRequests : Brings(q)

\* Every step of the page and of the server keeps it.
LEMMA ListStep == ASSUME ListInv, [Accounts!Next]_(Accounts!vars) PROVE ListInv'
<1> USE DEF ListInv
<1>1. CASE UNCHANGED Accounts!vars
  BY <1>1 DEF Accounts!vars, KeyRequest, ReadBefore, Brings, Accounts!list_keys, Accounts!_public
<1>2. ASSUME NEW d, Accounts!Open(d) PROVE ListInv'
  BY <1>2 DEF Accounts!Open, KeyRequest, ReadBefore, Brings, Accounts!list_keys, Accounts!_public
<1>3. ASSUME NEW k, NEW i, NEW n, NEW c, NEW e, Accounts!Send(k, i, n, c, e) PROVE ListInv'
  <2> DEFINE r == [Accounts!Load EXCEPT !.kind = k, !.id = i, !.name = n, !.key = c, !.enabled = e]
  <2>1. KeyRequest(r) /\ r.at = "sent"
    BY DEF Accounts!Load, KeyRequest
  <2>2. UNCHANGED <<users, rows, read, overtaken, writes, faults>> /\ keyRequests' = keyRequests \cup {r}
    BY <1>3 DEF Accounts!Send
  <2>3. UNCHANGED Accounts!list_keys
    BY <2>2 DEF Accounts!list_keys, Accounts!_public
  <2>4. \A q \in keyRequests' : KeyRequest(q) /\ ReadBefore(q)'
    <3> HIDE DEF r
    <3> QED BY <2>1, <2>2, <2>3 DEF ReadBefore
  <2>5. \A q \in keyRequests : Brings(q) => Brings(q)'
    BY <2>2 DEF Brings
  <2> HIDE DEF r
  <2> QED BY <2>2, <2>3, <2>4, <2>5 DEF KeyRequest
<1>4. ASSUME NEW q \in keyRequests, Accounts!ChangeUsers(q) PROVE ListInv'
  <2> DEFINE c == [q EXCEPT !.at = "changed"]
             f == [q EXCEPT !.at = "failed"]
  <2>1. KeyRequest(c) /\ c.at = "changed" /\ KeyRequest(f) /\ f.at = "failed"
    BY DEF KeyRequest
  <2>2. /\ UNCHANGED <<rows, read, overtaken, faults>> /\ q.at = "sent"
        /\ \/ UNCHANGED <<users, writes>> /\ keyRequests' \in {(keyRequests \ {q}) \cup {c}, (keyRequests \ {q}) \cup {f}}
           \/ writes' = writes + 1 /\ keyRequests' = (keyRequests \ {q}) \cup {c}
    BY <1>4 DEF Accounts!ChangeUsers, Accounts!Becomes
  <2>3. UNCHANGED users => UNCHANGED Accounts!list_keys
    BY DEF Accounts!list_keys, Accounts!_public
  <2> HIDE DEF c, f
  <2>4. \A p \in keyRequests' : KeyRequest(p) /\ ReadBefore(p)'
    BY <2>1, <2>2, <2>3 DEF ReadBefore
  <2>5. writes' = writes + 1 => \E p \in keyRequests' : Brings(p)'
    BY <2>1, <2>2 DEF Brings
  <2>6. UNCHANGED writes => \A p \in keyRequests : Brings(p) => p \in keyRequests' /\ Brings(p)'
    BY <2>2 DEF Brings
  <2> QED BY <2>2, <2>3, <2>4, <2>5, <2>6 DEF KeyRequest
<1>5. ASSUME NEW q \in keyRequests, Accounts!ReadUsers(q) PROVE ListInv'
  <2> DEFINE d == [q EXCEPT !.at = "done", !.list = Accounts!list_keys, !.read = writes]
  <2>1. KeyRequest(d) /\ d.at = "done" /\ d.list = Accounts!list_keys /\ d.read = writes
    BY DEF KeyRequest
  <2>2. /\ UNCHANGED <<users, rows, read, overtaken, writes, faults>> /\ q.at = "changed"
        /\ keyRequests' = (keyRequests \ {q}) \cup {d}
    BY <1>5 DEF Accounts!ReadUsers, Accounts!Becomes
  <2>3. UNCHANGED Accounts!list_keys
    BY <2>2 DEF Accounts!list_keys, Accounts!_public
  <2> HIDE DEF d
  <2>4. \A p \in keyRequests' : KeyRequest(p) /\ ReadBefore(p)'
    BY <2>1, <2>2, <2>3 DEF ReadBefore
  <2>5. d.at = "done" /\ d.read = writes' /\ d \in keyRequests'
    BY <2>1, <2>2
  <2>6. \E p \in keyRequests' : Brings(p)'
    BY <2>5 DEF Brings
  <2> QED BY <2>2, <2>3, <2>4, <2>6 DEF KeyRequest
<1>6. ASSUME NEW q \in keyRequests, Accounts!Answered(q) PROVE ListInv'
  <2>1. /\ UNCHANGED <<users, writes, faults>> /\ q.at = "done" /\ keyRequests' = keyRequests \ {q}
        /\ rows' = q.list /\ read' = q.read
    BY <1>6 DEF Accounts!Answered, Accounts!ShownList
  <2>2. overtaken' = (q.read < read \/ (overtaken /\ q.read < writes))
    BY <1>6 DEF Accounts!Answered
  <2>3. UNCHANGED Accounts!list_keys
    BY <2>1 DEF Accounts!list_keys, Accounts!_public
  <2>4. /\ q.read \in Nat /\ q.read <= writes
        /\ q.read = writes => q.list = Accounts!list_keys
    BY <2>1 DEF ReadBefore
  <2>5. \A p \in keyRequests' : KeyRequest(p) /\ ReadBefore(p)'
    BY <2>1, <2>3 DEF ReadBefore
  <2>6. \A p \in keyRequests : Brings(p) /\ p # q => p \in keyRequests' /\ Brings(p)'
    BY <2>1 DEF Brings
  <2>7. q.read < writes => ~Brings(q)
    BY <2>1, <2>4 DEF Brings
  <2>8. faults' = 0 => overtaken' \/ read' = writes' \/ \E p \in keyRequests' : Brings(p)'
    <3>1. CASE q.read = writes
      BY <3>1, <2>1
    <3>2. CASE q.read < writes /\ (overtaken \/ read = writes)
      <4>1. q.read < read \/ overtaken
        BY <3>2
      <4> QED BY <3>2, <4>1, <2>2
    <3>3. CASE q.read < writes /\ ~overtaken /\ read # writes
      BY <3>3, <2>1, <2>6, <2>7
    <3> QED BY <2>4, <3>1, <3>2, <3>3
  <2> QED BY <2>1, <2>3, <2>4, <2>5, <2>8 DEF KeyRequest
<1>7. ASSUME NEW q \in keyRequests, Accounts!Fail(q) PROVE ListInv'
  <2> DEFINE f == [q EXCEPT !.at = "failed", !.list = Accounts!Empty, !.read = 0]
  <2>1. KeyRequest(f) /\ f.at = "failed"
    BY DEF KeyRequest
  <2>2. /\ UNCHANGED <<users, rows, read, overtaken, writes>> /\ faults' = faults + 1
        /\ keyRequests' = (keyRequests \ {q}) \cup {f}
    BY <1>7 DEF Accounts!Fail, Accounts!Becomes
  <2>3. UNCHANGED Accounts!list_keys
    BY <2>2 DEF Accounts!list_keys, Accounts!_public
  <2> HIDE DEF f
  <2>4. \A p \in keyRequests' : KeyRequest(p) /\ ReadBefore(p)'
    BY <2>1, <2>2, <2>3 DEF ReadBefore
  <2> QED BY <2>2, <2>3, <2>4 DEF KeyRequest
<1>8. ASSUME NEW q \in keyRequests, Accounts!Refused(q) PROVE ListInv'
  <2>1. UNCHANGED <<users, rows, read, overtaken, writes, faults>> /\ q.at = "failed" /\ keyRequests' = keyRequests \ {q}
    BY <1>8 DEF Accounts!Refused
  <2>2. UNCHANGED Accounts!list_keys
    BY <2>1 DEF Accounts!list_keys, Accounts!_public
  <2>3. \A p \in keyRequests : Brings(p) => p \in keyRequests' /\ Brings(p)'
    BY <2>1 DEF Brings
  <2>4. \A p \in keyRequests' : KeyRequest(p) /\ ReadBefore(p)'
    BY <2>1, <2>2 DEF ReadBefore
  <2> QED BY <2>1, <2>2, <2>3, <2>4 DEF KeyRequest
<1> QED
  BY <1>1, <1>2, <1>3, <1>4, <1>5, <1>6, <1>7, <1>8
  DEF Accounts!Next, Accounts!openCreateDialog, Accounts!openDeleteDialog, Accounts!openEditDialog,
      Accounts!LeaveDialog, Accounts!handleCreate, Accounts!handleToggle, Accounts!handleDelete, Accounts!handleEdit

(* When no request is under way and none failed the page shows the users   *)
(* there are, unless an answer overtook a later one.                       *)
THEOREM ListIsCaught == Accounts!Spec => []ListCaught
<1>1. Accounts!Init => ListInv
  BY DEF Accounts!Init, Accounts!Load, ListInv, KeyRequest, ReadBefore, Accounts!list_keys, Accounts!Empty
<1>2. ListInv /\ [Accounts!Next]_(Accounts!vars) => ListInv'
  BY ListStep
<1>3. ListInv => ListCaught
  BY DEF ListInv, ListCaught, Accounts!ListCaught
<1> QED BY <1>1, <1>2, <1>3, PTL DEF Accounts!Spec

---------------------------------------------------------------------------
(* The settings                                                            *)

(* What the server stores keeps the images for a day at least, and charges *)
(* for some model.                                                         *)
Whole(s) ==
  /\ s.days \in Nat \ {0}
  /\ DOMAIN s.terms # {} /\ s.terms = [m \in DOMAIN s.terms |-> s.terms[m]]

(* A copy is that of settings b but for the fields of E.                   *)
Matches(c, b, E) ==
  /\ {"text", "days", "typed", "models", "terms"} \subseteq DOMAIN c
  /\ c.days \in Int
  /\ "text" \notin E => c.text = b.text
  /\ "days" \notin E => c.days = b.days
  /\ "secret" \notin E => c.typed = Config!Empty
  /\ "terms" \notin E => c.models = DOMAIN b.terms /\ c.terms = b.terms

CopyOf(p) == config[p] # Config!Null => Matches(config[p], base[p], edited[p])
LoadOf(p) == load[p] # Config!Idle => {"at", "answer"} \subseteq DOMAIN load[p] /\ Whole(load[p].answer)
SaveOf(p) ==
  save[p] # Config!Idle =>
    /\ {"at", "answer", "body", "base", "edited"} \subseteq DOMAIN save[p]
    /\ Whole(save[p].answer) /\ Whole(save[p].base)
    /\ Matches(save[p].body, save[p].base, save[p].edited)
    /\ save[p].body.days \in Nat \ {0}

(* Every copy, and everything that is sent to be saved, is that of the     *)
(* settings it was answered from but for the fields that were edited.      *)
SettingsInv ==
  /\ DOMAIN config = Pages /\ DOMAIN load = Pages /\ DOMAIN save = Pages
  /\ DOMAIN base = Pages /\ DOMAIN edited = Pages
  /\ Whole(stored) /\ \A p \in Pages : Whole(base[p])
  /\ \A p \in Pages : CopyOf(p) /\ LoadOf(p) /\ SaveOf(p)

\* What is assumed of the constants of the settings.
LEMMA SettingsBounds == Periods \subseteq Int /\ DefaultModels # {}
BY PagesConstantsOK DEF PagesConstantsOK, Config!ConstantsOK

\* A copy of what was answered is as it was answered.
LEMMA AnsweredMatches == ASSUME NEW s, Whole(s) PROVE Matches(Config!normalizeConfig(s), s, {})
BY DEF Matches, Whole, Config!normalizeConfig

\* What is sent of a copy matches as the copy does, with a number of days.
LEMMA BodyMatches ==
  ASSUME NEW c, NEW b, NEW E, Matches(c, b, E), Whole(b)
  PROVE Matches(Config!Body(c), b, E) /\ Config!Body(c).days \in Nat \ {0}
<1> DEFINE d == Config!ReadDays(c.days)
<1>1. d \in Nat \ {0} /\ (c.days \in Nat \ {0} => d = c.days)
  BY DEF Matches, Config!ReadDays, Config!DefaultDays
<1>2. /\ DOMAIN Config!Body(c) = DOMAIN c /\ Config!Body(c).days = d
      /\ Config!Body(c).text = c.text /\ Config!Body(c).typed = c.typed
      /\ Config!Body(c).models = c.models /\ Config!Body(c).terms = c.terms
  BY DEF Config!Body, Matches
<1> HIDE DEF d
<1> QED BY <1>1, <1>2 DEF Matches, Whole

\* What the server makes of what it is sent is whole.
LEMMA UpdateWhole == ASSUME NEW s, NEW c, c.days \in Nat \ {0} PROVE Whole(Config!Update(s, c))
<1> DEFINE t == Config!NormalizeGateway(c.models, c.terms)
<1>1. DOMAIN t # {} /\ t = [m \in DOMAIN t |-> t[m]]
  BY SettingsBounds DEF Config!NormalizeGateway
<1>2. Config!Update(s, c).days = c.days /\ Config!Update(s, c).terms = t
  BY DEF Config!Update
<1> HIDE DEF t
<1> QED BY <1>1, <1>2 DEF Whole

\* A list of models that is as it was stored is stored as it is.
LEMMA GatewayStays == ASSUME NEW s, Whole(s) PROVE Config!NormalizeGateway(DOMAIN s.terms, s.terms) = s.terms
BY DEF Whole, Config!NormalizeGateway

(* Storing what matches settings b changes no field but those edited and   *)
(* those that differ from b's.                                             *)
LEMMA UpdateKeeps ==
  ASSUME NEW s, NEW c, NEW b, NEW E, Matches(c, b, E), Whole(b),
         NEW f \in Config!Fields, Config!Update(s, c)[f] # s[f]
  PROVE f \in E \/ (f # "secret" /\ b[f] # s[f])
<1> SUFFICES ASSUME f \notin E PROVE f # "secret" /\ b[f] # s[f]
  OBVIOUS
<1> DEFINE u == Config!Update(s, c)
<1>1. /\ u.text = c.text /\ u.days = c.days /\ u.secret = Config!NormalizeSecret(s.secret, c.typed)
      /\ u.terms = Config!NormalizeGateway(c.models, c.terms)
  BY DEF Config!Update
<1> HIDE DEF u
<1>2. CASE f = "text"
  BY <1>1, <1>2 DEF Matches, u
<1>3. CASE f = "days"
  BY <1>1, <1>3 DEF Matches, u
<1>4. CASE f = "secret"
  BY <1>1, <1>4 DEF Matches, u, Config!NormalizeSecret
<1>5. CASE f = "terms"
  BY <1>1, <1>5, GatewayStays DEF Matches, u
<1> QED BY <1>2, <1>3, <1>4, <1>5 DEF Config!Fields

\* Editing one field leaves the others as they match.
LEMMA EditedMatches ==
  ASSUME SettingsInv, NEW p \in Pages, NEW field, NEW c, Config!SetField(p, field, c),
         Matches(c, base[p], edited[p] \cup {field})
  PROVE SettingsInv'
<1>1. /\ UNCHANGED <<stored, load, save, base>>
      /\ config' = [config EXCEPT ![p] = c]
      /\ edited' = [edited EXCEPT ![p] = @ \cup {field}]
  BY DEF Config!SetField
<1>2. CopyOf(p)'
  BY <1>1 DEF CopyOf, SettingsInv
<1>3. ASSUME NEW q \in Pages, q # p PROVE CopyOf(q)'
  BY <1>1, <1>3 DEF CopyOf, SettingsInv
<1>4. ASSUME NEW q \in Pages PROVE LoadOf(q)' /\ SaveOf(q)' /\ Whole(base[q])'
  BY <1>1 DEF LoadOf, SaveOf, SettingsInv
<1> QED BY <1>1, <1>2, <1>3, <1>4 DEF SettingsInv

\* Every field that can be edited is edited alone.
LEMMA EditStep == ASSUME SettingsInv, NEW p \in Pages, Config!Edit(p) PROVE SettingsInv'
<1> DEFINE Fits(c, field) == Matches(c, base[p], edited[p] \cup {field})
<1>1. config[p] # Config!Null => Matches(config[p], base[p], edited[p])
  BY DEF SettingsInv, CopyOf
<1>2. ASSUME NEW v, Config!setConfigField(p, v) PROVE SettingsInv'
  <2>1. Config!SetField(p, "text", [config[p] EXCEPT !.text = v])
    BY <1>2 DEF Config!setConfigField
  <2>2. Matches([config[p] EXCEPT !.text = v], base[p], edited[p] \cup {"text"})
    BY <1>1, <2>1 DEF Matches, Config!SetField
  <2> QED BY <2>1, <2>2, EditedMatches
<1>3. ASSUME NEW v \in Periods, Config!setImageRetentionDays(p, v) PROVE SettingsInv'
  <2>1. Config!SetField(p, "days", [config[p] EXCEPT !.days = v])
    BY <1>3 DEF Config!setImageRetentionDays
  <2>2. Matches([config[p] EXCEPT !.days = v], base[p], edited[p] \cup {"days"})
    BY <1>1, <2>1, SettingsBounds DEF Matches, Config!SetField
  <2> QED BY <2>1, <2>2, EditedMatches
<1>4. ASSUME NEW v, Config!TypeSecret(p, v) PROVE SettingsInv'
  <2>1. Config!SetField(p, "secret", [config[p] EXCEPT !.typed = v])
    BY <1>4 DEF Config!TypeSecret
  <2>2. Matches([config[p] EXCEPT !.typed = v], base[p], edited[p] \cup {"secret"})
    BY <1>1, <2>1 DEF Matches, Config!SetField
  <2> QED BY <2>1, <2>2, EditedMatches
<1>5. ASSUME NEW S, Config!handleImageModelsChange(p, S) PROVE SettingsInv'
  <2> DEFINE t == [m \in S |-> IF m \in DOMAIN config[p].terms THEN config[p].terms[m] ELSE NewTerms]
  <2>1. Config!SetField(p, "terms", [config[p] EXCEPT !.models = S, !.terms = t])
    BY <1>5 DEF Config!handleImageModelsChange
  <2> HIDE DEF t
  <2>2. Matches([config[p] EXCEPT !.models = S, !.terms = t], base[p], edited[p] \cup {"terms"})
    BY <1>1, <2>1 DEF Matches, Config!SetField
  <2> QED BY <2>1, <2>2, EditedMatches
<1>6. ASSUME NEW m, NEW t, Config!handleImageModelTermsChange(p, m, t) PROVE SettingsInv'
  <2> DEFINE u == [n \in DOMAIN config[p].terms \cup {m} |-> IF n = m THEN t ELSE config[p].terms[n]]
  <2>1. Config!SetField(p, "terms", [config[p] EXCEPT !.terms = u])
    BY <1>6 DEF Config!handleImageModelTermsChange
  <2> HIDE DEF u
  <2>2. Matches([config[p] EXCEPT !.terms = u], base[p], edited[p] \cup {"terms"})
    BY <1>1, <2>1 DEF Matches, Config!SetField
  <2> QED BY <2>1, <2>2, EditedMatches
<1> QED BY <1>2, <1>3, <1>4, <1>5, <1>6 DEF Config!Edit

\* Settings that were answered replace the copy.
LEMMA AnsweredStep ==
  ASSUME SettingsInv, NEW p \in Pages, NEW s, Whole(s), Config!SetConfig(p, s)
  PROVE /\ DOMAIN config' = Pages /\ DOMAIN base' = Pages /\ DOMAIN edited' = Pages
        /\ \A q \in Pages : CopyOf(q)' /\ Whole(base[q])'
<1>1. /\ config' = [config EXCEPT ![p] = Config!normalizeConfig(s)]
      /\ base' = [base EXCEPT ![p] = s] /\ edited' = [edited EXCEPT ![p] = {}]
  BY DEF Config!SetConfig
<1>2. CopyOf(p)' /\ Whole(base[p])'
  <2>1. config'[p] = Config!normalizeConfig(s) /\ base'[p] = s /\ edited'[p] = {}
    BY <1>1 DEF SettingsInv
  <2> QED BY <2>1, AnsweredMatches DEF CopyOf
<1>3. ASSUME NEW q \in Pages, q # p PROVE CopyOf(q)' /\ Whole(base[q])'
  BY <1>1, <1>3 DEF CopyOf, SettingsInv
<1> QED BY <1>1, <1>2, <1>3 DEF SettingsInv

\* Every step of the page and of the server keeps the invariant.
LEMMA SettingsStep == ASSUME SettingsInv, [Config!Next]_(Config!vars) PROVE SettingsInv'
<1>1. CASE UNCHANGED Config!vars
  BY <1>1 DEF Config!vars, SettingsInv, CopyOf, LoadOf, SaveOf
<1>2. ASSUME NEW p \in Pages, UNCHANGED <<stored, config, base, edited>>,
             DOMAIN load' = Pages, DOMAIN save' = Pages,
             \A q \in Pages : q # p => load'[q] = load[q] /\ save'[q] = save[q],
             LoadOf(p)', SaveOf(p)'
      PROVE SettingsInv'
  BY <1>2 DEF SettingsInv, CopyOf, LoadOf, SaveOf
<1>3. ASSUME NEW p \in Pages, Config!loadConfig(p) PROVE SettingsInv'
  <2>1. /\ load' = [load EXCEPT ![p] = [at |-> "sent", answer |-> base[p]]]
        /\ UNCHANGED <<stored, config, save, base, edited>>
    BY <1>3 DEF Config!loadConfig
  <2>2. LoadOf(p)' /\ SaveOf(p)'
    BY <2>1 DEF SettingsInv, LoadOf, SaveOf
  <2> QED BY <2>1, <2>2, <1>2 DEF SettingsInv
<1>4. ASSUME NEW p \in Pages, Config!GetSettings(p) PROVE SettingsInv'
  <2>1. /\ load' = [load EXCEPT ![p] = [at |-> "done", answer |-> stored]]
        /\ UNCHANGED <<stored, config, save, base, edited>>
    BY <1>4 DEF Config!GetSettings
  <2>2. LoadOf(p)' /\ SaveOf(p)'
    BY <2>1 DEF SettingsInv, LoadOf, SaveOf
  <2> QED BY <2>1, <2>2, <1>2 DEF SettingsInv
<1>5. ASSUME NEW p \in Pages, Config!Loaded(p) PROVE SettingsInv'
  <2>1. /\ Config!SetConfig(p, load[p].answer) /\ Whole(load[p].answer)
        /\ load' = [load EXCEPT ![p] = Config!Idle] /\ UNCHANGED <<stored, save>>
    BY <1>5 DEF Config!Loaded, Config!isLoadingConfig, SettingsInv, LoadOf
  <2>2. \A q \in Pages : LoadOf(q)' /\ SaveOf(q)'
    BY <2>1 DEF SettingsInv, LoadOf, SaveOf
  <2>3. /\ DOMAIN config' = Pages /\ DOMAIN base' = Pages /\ DOMAIN edited' = Pages
        /\ \A q \in Pages : CopyOf(q)' /\ Whole(base[q])'
    BY <2>1, AnsweredStep
  <2> QED BY <2>1, <2>2, <2>3 DEF SettingsInv
<1>6. ASSUME NEW p \in Pages, Config!LoadFailed(p) \/ Config!SaveFailed(p) PROVE SettingsInv'
  <2>1. /\ \/ load' = [load EXCEPT ![p] = Config!Idle] /\ UNCHANGED save
           \/ save' = [save EXCEPT ![p] = Config!Idle] /\ UNCHANGED load
        /\ UNCHANGED <<stored, config, base, edited>>
    BY <1>6 DEF Config!LoadFailed, Config!SaveFailed
  <2>2. LoadOf(p)' /\ SaveOf(p)'
    BY <2>1 DEF SettingsInv, LoadOf, SaveOf
  <2> QED BY <2>1, <2>2, <1>2 DEF SettingsInv
<1>7. ASSUME NEW p \in Pages, Config!saveConfig(p) PROVE SettingsInv'
  <2> DEFINE r == [at |-> "sent", body |-> Config!Body(config[p]), answer |-> base[p],
                   base |-> base[p], edited |-> edited[p]]
  <2>1. config[p] # Config!Null /\ save' = [save EXCEPT ![p] = r]
        /\ UNCHANGED <<stored, config, load, base, edited>>
    BY <1>7 DEF Config!saveConfig
  <2>2. Matches(Config!Body(config[p]), base[p], edited[p]) /\ Config!Body(config[p]).days \in Nat \ {0}
    BY <2>1, BodyMatches DEF SettingsInv, CopyOf
  <2>3. save'[p] = r
    BY <2>1 DEF SettingsInv
  <2>4. LoadOf(p)' /\ SaveOf(p)'
    BY <2>1, <2>2, <2>3 DEF SettingsInv, LoadOf, SaveOf
  <2> QED BY <2>1, <2>4, <1>2 DEF SettingsInv
<1>8. ASSUME NEW p \in Pages, Config!SaveSettings(p) PROVE SettingsInv'
  <2>1. /\ save[p] # Config!Idle /\ stored' = Config!Update(stored, save[p].body)
        /\ save' = [save EXCEPT ![p].at = "done", ![p].answer = stored']
        /\ UNCHANGED <<config, load, base, edited>>
    BY <1>8 DEF Config!SaveSettings, Config!isSavingConfig
  <2>2. Whole(stored)'
    BY <2>1, UpdateWhole DEF SettingsInv, SaveOf
  <2>3. /\ DOMAIN save'[p] = DOMAIN save[p] /\ save'[p].answer = stored'
        /\ save'[p].body = save[p].body /\ save'[p].base = save[p].base /\ save'[p].edited = save[p].edited
    BY <2>1 DEF SettingsInv, SaveOf
  <2>4. SaveOf(p)'
    BY <2>1, <2>2, <2>3 DEF SettingsInv, SaveOf
  <2>5. \A q \in Pages : q # p => SaveOf(q)'
    BY <2>1 DEF SettingsInv, SaveOf
  <2>6. \A q \in Pages : CopyOf(q)' /\ LoadOf(q)'
    BY <2>1 DEF SettingsInv, CopyOf, LoadOf
  <2> QED BY <2>1, <2>2, <2>4, <2>5, <2>6 DEF SettingsInv
<1>9. ASSUME NEW p \in Pages, Config!Saved(p) PROVE SettingsInv'
  <2>1. /\ Config!SetConfig(p, save[p].answer) /\ Whole(save[p].answer)
        /\ save' = [save EXCEPT ![p] = Config!Idle] /\ UNCHANGED <<stored, load>>
    BY <1>9 DEF Config!Saved, Config!isSavingConfig, SettingsInv, SaveOf
  <2>2. \A q \in Pages : LoadOf(q)' /\ SaveOf(q)'
    BY <2>1 DEF SettingsInv, LoadOf, SaveOf
  <2>3. /\ DOMAIN config' = Pages /\ DOMAIN base' = Pages /\ DOMAIN edited' = Pages
        /\ \A q \in Pages : CopyOf(q)' /\ Whole(base[q])'
    BY <2>1, AnsweredStep
  <2> QED BY <2>1, <2>2, <2>3 DEF SettingsInv
<1>10. ASSUME NEW p \in Pages, Config!Fail(p) PROVE SettingsInv'
  <2>1. CASE load[p] # Config!Idle /\ load' = [load EXCEPT ![p].at = "failed", ![p].answer = base[p]] /\ UNCHANGED save
    <3>1. DOMAIN load'[p] = DOMAIN load[p] /\ load'[p].answer = base[p]
      BY <2>1 DEF SettingsInv, LoadOf
    <3>2. LoadOf(p)' /\ SaveOf(p)' /\ UNCHANGED <<stored, config, base, edited>>
      BY <1>10, <2>1, <3>1 DEF SettingsInv, LoadOf, SaveOf, Config!Fail
    <3> QED BY <2>1, <3>2, <1>2 DEF SettingsInv
  <2>2. CASE save[p] # Config!Idle /\ save' = [save EXCEPT ![p].at = "failed", ![p].answer = base[p]] /\ UNCHANGED load
    <3>1. /\ DOMAIN save'[p] = DOMAIN save[p] /\ save'[p].answer = base[p]
          /\ save'[p].body = save[p].body /\ save'[p].base = save[p].base /\ save'[p].edited = save[p].edited
      BY <2>2 DEF SettingsInv, SaveOf
    <3>2. UNCHANGED <<stored, config, base, edited>>
      BY <1>10 DEF Config!Fail
    <3>3. LoadOf(p)' /\ SaveOf(p)'
      BY <2>2, <3>1, <3>2 DEF SettingsInv, LoadOf, SaveOf
    <3> QED BY <2>2, <3>2, <3>3, <1>2 DEF SettingsInv
  <2> QED BY <1>10, <2>1, <2>2 DEF Config!Fail, Config!isLoadingConfig, Config!isSavingConfig
<1> QED BY <1>1, <1>3, <1>4, <1>5, <1>6, <1>7, <1>8, <1>9, <1>10, EditStep DEF Config!Next

\* The first settings are whole, and no page has a copy of them yet.
LEMMA SettingsInit == Config!Init => SettingsInv
<1> SUFFICES ASSUME Config!Init PROVE SettingsInv
  OBVIOUS
<1> DEFINE t == Config!NormalizeGateway({}, <<>>)
<1>1. DOMAIN t # {} /\ t = [m \in DOMAIN t |-> t[m]]
  BY SettingsBounds DEF Config!NormalizeGateway
<1>2. stored.days = 30 /\ stored.terms = t
  BY DEF Config!Init, Config!DefaultDays
<1> HIDE DEF t
<1>3. Whole(stored)
  BY <1>1, <1>2 DEF Whole
<1> QED BY <1>3 DEF Config!Init, SettingsInv, CopyOf, LoadOf, SaveOf

(* However many pages save their copies of the settings, and however old   *)
(* these are, no save changes a field that was not edited and not changed  *)
(* since the copy was loaded, nor a secret that was not typed.             *)
THEOREM SettingsAreKept == Config!Spec => SettingsKept
<1>1. SettingsInv /\ [Config!Next]_(Config!vars) => SettingsInv'
  BY SettingsStep
<1>2. SettingsInv /\ [Config!Next]_(Config!vars) =>
        [\A p \in Pages, f \in Config!Fields :
           /\ Config!isSavingConfig(p) /\ save[p].at = "sent" /\ save'[p].at = "done"
           /\ stored'[f] # stored[f]
           => f \in save[p].edited \/ (f # "secret" /\ save[p].base[f] # stored[f])]_(Config!vars)
  <2> SUFFICES ASSUME SettingsInv, [Config!Next]_(Config!vars), NEW p \in Pages, NEW f \in Config!Fields,
                      Config!isSavingConfig(p), save[p].at = "sent", save'[p].at = "done", stored'[f] # stored[f]
               PROVE f \in save[p].edited \/ (f # "secret" /\ save[p].base[f] # stored[f])
    OBVIOUS
  <2>1. PICK q \in Pages : Config!SaveSettings(q)
    BY DEF Config!Next, Config!vars, Config!loadConfig, Config!GetSettings, Config!Loaded, Config!LoadFailed,
           Config!Edit, Config!setConfigField, Config!setImageRetentionDays, Config!TypeSecret,
           Config!handleImageModelsChange, Config!handleImageModelTermsChange, Config!SetField,
           Config!saveConfig, Config!Saved, Config!SaveFailed, Config!Fail
  <2>2. q = p
    BY <2>1 DEF Config!SaveSettings, SettingsInv
  <2>3. Config!Update(stored, save[p].body)[f] # stored[f]
    BY <2>1, <2>2 DEF Config!SaveSettings
  <2> QED BY <2>3, UpdateKeeps DEF SettingsInv, SaveOf, Config!isSavingConfig
<1> QED BY <1>1, <1>2, SettingsInit, PTL DEF Config!Spec, SettingsKept, Config!SettingsKept

---------------------------------------------------------------------------
(* The image library                                                       *)

Asks(q) == {"at", "list", "all"} \subseteq DOMAIN q /\ q.at \in {"sent", "done"}

(* The only request under way leaves the list current, or has changed on   *)
(* the server what its answer will change in the list, or has the list     *)
(* loaded again.                                                           *)
Fits(q) ==
  \/ q.kind = "allTags" /\ images = Manager!Listed(range)
  \/ q.kind \in {"setTags", "deleteTag"} /\ q.at = "sent" /\ images = Manager!Listed(range)
  \/ q.kind = "delete" /\ q.from = "one" /\ q.days = {} /\ q.at = "sent" /\ images = Manager!Listed(range)
  \/ q.kind = "delete" /\ q.from = "one" /\ q.at = "done"
     /\ Manager!Keep(images, Images \ q.images) = Manager!Listed(range)
  \/ q.kind = "delete" /\ q.from # "one" /\ q.shown = range
  \/ q.kind = "setTags" /\ q.at = "done"
     /\ [i \in DOMAIN images |-> IF i \in q.images THEN q.tags ELSE images[i]] = Manager!Listed(range)
  \/ q.kind = "deleteTag" /\ q.at = "done" /\ Manager!Untagged(images, q.tags) = Manager!Listed(range)

(* A load reads the list for the dates that are chosen.                    *)
LoadFits(q) ==
  /\ q.kind = "load" /\ q.days = range
  /\ q.list = {} \/ q.list = {Manager!Listed(range)}
  /\ q.at = "done" => q.list # {}

(* As long as nothing crossed or failed there is one request at most, and  *)
(* it fits.                                                                *)
CurrentInv ==
  /\ behind = "no" => \/ asked = {} /\ images = Manager!Listed(range)
                      \/ \E q : asked = {q} /\ Asks(q) /\ Fits(q)
  /\ behind = "loading" => \E q : asked = {q} /\ Asks(q) /\ LoadFits(q)

\* A request that is the only one and fits is all the invariant asks for.
LEMMA OnlyOne ==
  ASSUME NEW r, asked' = {r}, Asks(r), behind' = "no" => Fits(r)', behind' = "loading" => LoadFits(r)'
  PROVE CurrentInv'
BY DEF CurrentInv

\* A new request crosses another one, or leaves the list as it is.
LEMMA NewRequest ==
  ASSUME CurrentInv, NEW q, Manager!Send(q, asked), UNCHANGED <<files, images>>, Asks(q), q.at = "sent",
         \/ q.kind = "load" /\ q.list = {}
         \/ q.kind \in {"setTags", "deleteTag"} /\ UNCHANGED range
         \/ q.kind = "delete" /\ UNCHANGED range /\ (q.from = "one" => q.days = {})
            /\ (q.from # "one" => q.shown = range)
  PROVE CurrentInv'
<1>1. CASE asked # {}
  BY <1>1 DEF Manager!Send, CurrentInv
<1>2. CASE asked = {} /\ q.kind = "load"
  <2>1. asked' = {q} /\ (behind' = "yes" \/ (behind' = "loading" /\ q.days = range'))
    BY <1>2 DEF Manager!Send
  <2>2. behind' = "loading" => LoadFits(q)'
    BY <1>2, <2>1 DEF LoadFits
  <2> QED BY <2>1, <2>2 DEF CurrentInv, Asks
<1>3. CASE asked = {} /\ q.kind # "load"
  <2>1. asked' = {q} /\ UNCHANGED behind /\ UNCHANGED range
    BY <1>3 DEF Manager!Send
  <2>2. behind # "loading" /\ (behind = "no" => images = Manager!Listed(range))
    BY <1>3 DEF CurrentInv
  <2>3. UNCHANGED Manager!Listed(range)
    BY <2>1 DEF Manager!Listed, Manager!Keep
  <2>4. behind = "no" => Fits(q)'
    BY <1>3, <2>1, <2>2, <2>3 DEF Fits
  <2> QED BY <2>1, <2>2, <2>4, OnlyOne
<1> QED BY <1>1, <1>2, <1>3

\* The invariant is about these variables.
LEMMA LibraryStands == ASSUME CurrentInv, UNCHANGED <<files, images, range, asked, behind>> PROVE CurrentInv'
<1>1. UNCHANGED Manager!Listed(range)
  BY DEF Manager!Listed, Manager!Keep
<1>2. ASSUME NEW q PROVE (Fits(q) => Fits(q)') /\ (LoadFits(q) => LoadFits(q)')
  BY <1>1 DEF Fits, LoadFits, Manager!Keep, Manager!Untagged
<1> QED BY <1>1, <1>2 DEF CurrentInv

\* What the user does keeps the invariant.
LEMMA UserStep ==
  ASSUME CurrentInv,
         \/ Manager!Query \/ Manager!clearFilters \/ Manager!closeDialog
         \/ Manager!handleDelete \/ Manager!confirmDelete \/ Manager!handleDeleteTag
         \/ \E days \in Ranges : Manager!DateRange(days)
         \/ \E d \in Manager!Days : Manager!DeleteByDate(d)
         \/ \E g \in Tags : Manager!toggleFilterTag(g)
         \/ \E S \in SUBSET Images, checked \in BOOLEAN : Manager!togglePaths(S, checked)
         \/ \E i \in Images, tags \in SUBSET Tags : Manager!handleSetTags(i, tags)
         \/ \E kind, about : Manager!openDeleteDialog(kind, about)
  PROVE CurrentInv'
<1>1. ASSUME UNCHANGED <<files, images, range, asked, behind>> PROVE CurrentInv'
  BY <1>1, LibraryStands
<1>2. CASE \/ Manager!closeDialog
           \/ \E g \in Tags : Manager!toggleFilterTag(g)
           \/ \E S \in SUBSET Images, checked \in BOOLEAN : Manager!togglePaths(S, checked)
           \/ \E kind, about : Manager!openDeleteDialog(kind, about)
  BY <1>1, <1>2 DEF Manager!closeDialog, Manager!toggleFilterTag, Manager!togglePaths, Manager!openDeleteDialog
<1>3. ASSUME NEW days, Manager!loadImages(days), UNCHANGED <<files, images>> PROVE CurrentInv'
  BY <1>3, NewRequest DEF Manager!loadImages, Manager!Request, Asks
<1>4. CASE Manager!Query
  BY <1>3, <1>4 DEF Manager!Query
<1>5. CASE Manager!clearFilters
  <2>1. CASE range = Manager!Days
    BY <1>1, <1>5, <2>1 DEF Manager!clearFilters
  <2>2. CASE range # Manager!Days
    BY <1>3, <1>5, <2>2 DEF Manager!clearFilters
  <2> QED BY <2>1, <2>2
<1>6. ASSUME NEW days \in Ranges, Manager!DateRange(days) PROVE CurrentInv'
  BY <1>3, <1>6 DEF Manager!DateRange
<1>7. ASSUME NEW from, NEW S, NEW days, Manager!Delete(Manager!Request("delete", from, S, days, {})),
             from = "one" => days = {}
      PROVE CurrentInv'
  BY <1>7, NewRequest DEF Manager!Delete, Manager!Request, Asks
<1>8. CASE Manager!handleDelete
  BY <1>7, <1>8 DEF Manager!handleDelete
<1>9. CASE Manager!confirmDelete
  BY <1>7, <1>9 DEF Manager!confirmDelete
<1>10. ASSUME NEW d \in Manager!Days, Manager!DeleteByDate(d) PROVE CurrentInv'
  BY <1>7, <1>10 DEF Manager!DeleteByDate
<1>11. CASE Manager!handleDeleteTag
  BY <1>11, NewRequest DEF Manager!handleDeleteTag, Manager!Request, Asks
<1>12. ASSUME NEW i \in Images, NEW tags \in SUBSET Tags, Manager!handleSetTags(i, tags) PROVE CurrentInv'
  BY <1>12, NewRequest DEF Manager!handleSetTags, Manager!Request, Asks
<1> QED BY <1>2, <1>4, <1>5, <1>6, <1>8, <1>9, <1>10, <1>11, <1>12

\* The request under way, if there is but one.
LEMMA OneRequest ==
  ASSUME CurrentInv, NEW q \in asked
  PROVE /\ behind = "no" => asked = {q} /\ Asks(q) /\ Fits(q)
        /\ behind = "loading" => asked = {q} /\ Asks(q) /\ LoadFits(q)
BY DEF CurrentInv

\* What a request changes on the server its answer changes in the list.
LEMMA HandleFits ==
  ASSUME NEW q, Fits(q), Manager!Handle(q), NEW r, r = [q EXCEPT !.at = "done"], Asks(q)
  PROVE Fits(r)'
<1> USE DEF Manager!Listed
<1>1. /\ r.at = "done" /\ r.kind = q.kind /\ r.from = q.from /\ r.images = q.images /\ r.tags = q.tags
      /\ r.shown = q.shown
  BY DEF Asks
<1>2. UNCHANGED <<images, range>> /\ q.at = "sent"
  BY DEF Manager!Handle
<1>3. CASE q.kind = "delete" /\ q.from # "one"
  BY <1>1, <1>2, <1>3 DEF Fits
<1>4. CASE q.kind = "delete" /\ q.from = "one"
  <2>1. images = Manager!Listed(range) /\ files' = Manager!Keep(files, Images \ q.images)
    BY <1>2, <1>4 DEF Fits, Manager!Handle, Manager!delete_images
  <2>2. (Manager!Keep(images, Images \ r.images) = Manager!Listed(range))'
    BY <1>1, <1>2, <2>1 DEF Manager!Keep
  <2> QED BY <1>1, <1>4, <2>2 DEF Fits
<1>5. CASE q.kind = "setTags"
  <2>1. images = Manager!Listed(range)
        /\ files' = [i \in DOMAIN files |-> IF i \in q.images THEN q.tags ELSE files[i]]
    BY <1>2, <1>5 DEF Fits, Manager!Handle
  <2>2. ([i \in DOMAIN images |-> IF i \in r.images THEN r.tags ELSE images[i]] = Manager!Listed(range))'
    BY <1>1, <1>2, <2>1 DEF Manager!Keep
  <2> QED BY <1>1, <1>5, <2>2 DEF Fits
<1>6. CASE q.kind = "deleteTag"
  <2>1. images = Manager!Listed(range) /\ files' = Manager!Untagged(files, q.tags)
    BY <1>2, <1>6 DEF Fits, Manager!Handle
  <2>2. (Manager!Untagged(images, r.tags) = Manager!Listed(range))'
    BY <1>1, <1>2, <2>1 DEF Manager!Keep, Manager!Untagged
  <2> QED BY <1>1, <1>6, <2>2 DEF Fits
<1> QED BY <1>3, <1>4, <1>5, <1>6 DEF Manager!Handle

\* What the server does, and what fails, keeps the invariant.
LEMMA LibraryServerStep ==
  ASSUME CurrentInv, NEW q \in asked,
         Manager!ReadList(q) \/ Manager!ReadTags(q) \/ Manager!Handle(q) \/ Manager!Fail(q)
  PROVE CurrentInv'
<1>1. CASE Manager!Fail(q)
  BY <1>1 DEF Manager!Fail, CurrentInv
<1>2. ASSUME behind \notin {"no", "loading"}, UNCHANGED behind PROVE CurrentInv'
  BY <1>2 DEF CurrentInv
<1>3. CASE Manager!ReadList(q)
  <2>1. PICK r : r = [q EXCEPT !.list = {Manager!Listed(q.days)}, !.at = IF q.all = {} THEN "sent" ELSE "done"]
    OBVIOUS
  <2>2. /\ q.kind = "load" /\ asked' = (asked \ {q}) \cup {r}
        /\ UNCHANGED <<files, images, range, behind>>
    BY <1>3, <2>1 DEF Manager!ReadList
  <2>3. UNCHANGED Manager!Listed(range)
    BY <2>2 DEF Manager!Listed, Manager!Keep
  <2>4. behind # "no"
    BY <2>2, OneRequest DEF Fits
  <2>5. CASE behind = "loading"
    <3>1. asked = {q} /\ Asks(q) /\ LoadFits(q)
      BY <2>5, OneRequest
    <3>2. Asks(r) /\ r.kind = q.kind /\ r.days = q.days /\ r.list = {Manager!Listed(q.days)}
      BY <2>1, <3>1 DEF Asks
    <3>3. LoadFits(r)'
      BY <2>2, <2>3, <3>1, <3>2 DEF LoadFits
    <3> QED BY <2>2, <2>5, <3>1, <3>2, <3>3, OnlyOne
  <2> QED BY <1>2, <2>2, <2>4, <2>5
<1>4. CASE Manager!ReadTags(q)
  <2>1. PICK r : r = [q EXCEPT !.all = {Manager!get_all_tags},
                               !.at = IF q.kind = "load" /\ q.list = {} THEN "sent" ELSE "done"]
    OBVIOUS
  <2>2. /\ q.kind \in {"load", "allTags"} /\ asked' = (asked \ {q}) \cup {r}
        /\ UNCHANGED <<files, images, range, behind>>
    BY <1>4, <2>1 DEF Manager!ReadTags
  <2>3. UNCHANGED Manager!Listed(range)
    BY <2>2 DEF Manager!Listed, Manager!Keep
  <2>4. ASSUME Asks(q)
        PROVE Asks(r) /\ r.kind = q.kind /\ r.days = q.days /\ r.list = q.list
              /\ (r.at = "done" => q.kind # "load" \/ q.list # {})
    BY <2>1, <2>4 DEF Asks
  <2>5. CASE behind = "no"
    <3>1. asked = {q} /\ Asks(q) /\ q.kind = "allTags" /\ images = Manager!Listed(range)
      BY <2>2, <2>5, OneRequest DEF Fits
    <3>2. Fits(r)'
      BY <2>2, <2>3, <2>4, <3>1 DEF Fits
    <3> QED BY <2>2, <2>4, <2>5, <3>1, <3>2, OnlyOne
  <2>6. CASE behind = "loading"
    <3>1. asked = {q} /\ Asks(q) /\ LoadFits(q)
      BY <2>6, OneRequest
    <3>2. LoadFits(r)'
      BY <2>2, <2>3, <2>4, <3>1 DEF LoadFits
    <3> QED BY <2>2, <2>4, <2>6, <3>1, <3>2, OnlyOne
  <2> QED BY <1>2, <2>2, <2>5, <2>6
<1>5. CASE Manager!Handle(q)
  <2> DEFINE r == [q EXCEPT !.at = "done"]
  <2>1. q.kind # "load" /\ asked' = (asked \ {q}) \cup {r} /\ UNCHANGED behind
    BY <1>5 DEF Manager!Handle
  <2>2. Asks(q) => Asks(r)
    BY DEF Asks
  <2>3. behind # "loading"
    BY <2>1, OneRequest DEF LoadFits
  <2>4. behind = "no" => Asks(q) /\ Fits(q) /\ asked = {q}
    BY OneRequest
  <2>5. behind = "no" => Fits(r)'
    BY <1>5, <2>4, HandleFits
  <2> HIDE DEF r
  <2> QED BY <2>1, <2>2, <2>3, <2>4, <2>5 DEF CurrentInv, Asks
<1> QED BY <1>1, <1>3, <1>4, <1>5

\* Every answer keeps the invariant.
LEMMA AnswerStep ==
  ASSUME CurrentInv, NEW q \in asked, q.at # "sent",
         \/ Manager!LoadDone(q) \/ Manager!DeleteDone(q) \/ Manager!TagsSet(q)
         \/ Manager!AllTagsRead(q) \/ Manager!TagDeleted(q)
  PROVE CurrentInv'
<1> USE OneRequest
<1>1. ASSUME UNCHANGED <<files, range>> PROVE UNCHANGED Manager!Listed(range)
  BY <1>1 DEF Manager!Listed, Manager!Keep
<1>2. ASSUME UNCHANGED behind, asked' = asked \ {q}, behind # "loading",
             behind = "no" => images' = Manager!Listed(range)'
      PROVE CurrentInv'
  BY <1>2 DEF CurrentInv
<1>3. CASE Manager!LoadDone(q)
  <2>1. UNCHANGED <<files, range>> /\ q.kind = "load" /\ asked' = asked \ {q}
    BY <1>3 DEF Manager!LoadDone
  <2>2. behind # "no"
    BY <2>1 DEF Fits
  <2>3. CASE behind = "loading"
    <3>1. asked = {q} /\ q.at = "done" /\ q.list = {Manager!Listed(range)}
      BY <2>3 DEF LoadFits, Asks
    <3>2. images' = Manager!Listed(range) /\ behind' = "no"
      BY <1>3, <2>3, <3>1 DEF Manager!LoadDone
    <3> QED BY <1>1, <2>1, <3>1, <3>2 DEF CurrentInv
  <2>4. CASE behind # "loading"
    <3>1. behind' = behind
      BY <1>3, <2>4 DEF Manager!LoadDone
    <3> QED BY <2>2, <2>4, <3>1 DEF CurrentInv
  <2> QED BY <2>3, <2>4
<1>4. CASE Manager!AllTagsRead(q)
  <2>1. UNCHANGED <<files, images, range, behind>> /\ q.kind = "allTags" /\ asked' = asked \ {q}
    BY <1>4 DEF Manager!AllTagsRead
  <2>2. behind # "loading" /\ (behind = "no" => images = Manager!Listed(range))
    BY <2>1 DEF Fits, LoadFits
  <2> QED BY <1>1, <1>2, <2>1, <2>2
<1>5. CASE Manager!TagDeleted(q)
  <2>1. UNCHANGED <<files, range, behind>> /\ q.kind = "deleteTag" /\ asked' = asked \ {q}
    BY <1>5 DEF Manager!TagDeleted
  <2>2. behind # "loading" /\ (behind = "no" => q.at = "done" /\ Manager!Untagged(images, q.tags) = Manager!Listed(range))
    BY <2>1 DEF Fits, LoadFits, Asks
  <2>3. q.at = "done" => images' = Manager!Untagged(images, q.tags)
    BY <1>5 DEF Manager!TagDeleted, Manager!WithoutTag
  <2> QED BY <1>1, <1>2, <2>1, <2>2, <2>3
<1>6. CASE Manager!TagsSet(q)
  <2> DEFINE listed == [i \in DOMAIN images |-> IF i \in q.images THEN q.tags ELSE images[i]]
  <2>1. UNCHANGED <<files, range>> /\ q.kind = "setTags"
    BY <1>6 DEF Manager!TagsSet
  <2>2. behind # "loading" /\ (behind = "no" => asked = {q} /\ q.at = "done" /\ listed = Manager!Listed(range))
    BY <2>1 DEF Fits, LoadFits, Asks
  <2>3. CASE q.at = "done"
    <3>0. PICK r : r = Manager!Request("allTags", "none", {}, {}, {})
      OBVIOUS
    <3>1. images' = listed /\ Manager!Send(r, asked \ {q})
      BY <1>6, <2>3, <3>0 DEF Manager!TagsSet
    <3>2. Asks(r) /\ r.kind = "allTags"
      BY <3>0 DEF Manager!Request, Asks
    <3>3. asked' = (asked \ {q}) \cup {r} /\ (behind' = "yes" \/ UNCHANGED behind)
      BY <3>1, <3>2 DEF Manager!Send
    <3>4. CASE behind' = "no"
      <4>1. asked' = {r} /\ images' = Manager!Listed(range)'
        BY <1>1, <2>1, <2>2, <3>1, <3>3, <3>4
      <4>2. Fits(r)'
        BY <3>2, <4>1 DEF Fits
      <4> QED BY <3>2, <3>4, <4>1, <4>2, OnlyOne
    <3> QED BY <2>2, <3>3, <3>4 DEF CurrentInv
  <2>4. CASE q.at # "done"
    BY <1>6, <2>2, <2>4 DEF Manager!TagsSet, CurrentInv
  <2> QED BY <2>3, <2>4
<1>7. CASE Manager!DeleteDone(q)
  <2>1. UNCHANGED <<files, range>> /\ q.kind = "delete"
    BY <1>7 DEF Manager!DeleteDone
  <2>2. behind # "loading"
    BY <2>1 DEF LoadFits
  <2>3. CASE q.from = "one"
    <3>1. UNCHANGED behind /\ asked' = asked \ {q}
      BY <1>7, <2>3 DEF Manager!DeleteDone
    <3>2. behind = "no" => q.at = "done" /\ Manager!Keep(images, Images \ q.images) = Manager!Listed(range)
      BY <2>1, <2>3 DEF Fits, Asks
    <3>3. q.at = "done" => images' = Manager!Keep(images, Images \ q.images)
      BY <1>7, <2>3 DEF Manager!DeleteDone
    <3> QED BY <1>1, <1>2, <2>1, <2>2, <3>1, <3>2, <3>3
  <2>4. CASE q.from # "one" /\ q.at = "done"
    <3>0. PICK r : r = Manager!Request("load", IF q.from = "byDate" THEN "none" ELSE q.from, {}, q.shown, {})
      OBVIOUS
    <3>1. Manager!Send(r, asked \ {q})
      BY <1>7, <2>4, <3>0 DEF Manager!DeleteDone
    <3>2. Asks(r) /\ r.kind = "load" /\ r.days = q.shown /\ r.list = {} /\ r.at = "sent"
      BY <3>0 DEF Manager!Request, Asks
    <3>3. asked' = (asked \ {q}) \cup {r}
          /\ (behind' = "yes" \/ (behind' = "loading" /\ asked \ {q} = {} /\ q.shown = range'))
      BY <3>1, <3>2 DEF Manager!Send
    <3>4. CASE behind' = "loading"
      <4>1. asked' = {r} /\ LoadFits(r)'
        BY <3>2, <3>3, <3>4 DEF LoadFits
      <4> QED BY <3>2, <3>4, <4>1, OnlyOne
    <3> QED BY <3>3, <3>4 DEF CurrentInv
  <2>5. CASE q.from # "one" /\ q.at # "done"
    BY <1>7, <2>1, <2>2, <2>5 DEF Manager!DeleteDone, CurrentInv, Asks
  <2> QED BY <2>3, <2>4, <2>5
<1> QED BY <1>3, <1>4, <1>5, <1>6, <1>7

(* After a load, as long as no request crosses another, none fails and the *)
(* server does not clean up, the list is what the server would answer.     *)
THEOREM ListStaysCurrent == Manager!Spec => []ListIsCurrent
<1>1. Manager!Init => CurrentInv
  <2> SUFFICES ASSUME Manager!Init PROVE CurrentInv
    OBVIOUS
  <2>0. PICK r : r = Manager!Request("load", "none", {}, Manager!Days, {})
    OBVIOUS
  <2>1. Asks(r) /\ r.kind = "load" /\ r.days = Manager!Days /\ r.list = {} /\ r.at = "sent"
    BY <2>0 DEF Manager!Request, Asks
  <2>2. asked = {r} /\ behind = "loading" /\ range = Manager!Days
    BY <2>0 DEF Manager!Init
  <2>3. LoadFits(r)
    BY <2>1, <2>2 DEF LoadFits
  <2> QED BY <2>1, <2>2, <2>3 DEF CurrentInv
<1>2. CurrentInv /\ [Manager!Next]_(Manager!vars) => CurrentInv'
  <2> SUFFICES ASSUME CurrentInv, [Manager!Next]_(Manager!vars) PROVE CurrentInv'
    OBVIOUS
  <2>1. CASE UNCHANGED Manager!vars
    BY <2>1, LibraryStands DEF Manager!vars
  <2>2. CASE Manager!delete_to_target \/ Manager!CleanUp
    BY <2>2 DEF Manager!delete_to_target, Manager!CleanUp, CurrentInv
  <2> QED BY <2>1, <2>2, UserStep, LibraryServerStep, AnswerStep DEF Manager!Next
<1>3. CurrentInv => ListIsCurrent
  BY DEF CurrentInv, ListIsCurrent, Manager!ListIsCurrent
<1> QED BY <1>1, <1>2, <1>3, PTL DEF Manager!Spec

---------------------------------------------------------------------------
(* The log of calls                                                        *)

(* What must not be lost: nobody chose it, and no deletion was at it.      *)
Due == (1..added) \ (chosen \cup amid)

(* A deletion is of chosen entries, and what it has read is whole.         *)
LogRequest(q) ==
  /\ {"kind", "at", "ids", "lines"} \subseteq DOMAIN q
  /\ q.kind = "delete" => q.ids \subseteq chosen
  /\ q.at = "read" => q.kind = "delete" /\ q.lines \in Seq(Log!SystemLog) /\ Due \subseteq Log!IdsOf(q.lines)

LogInv ==
  /\ added \in Nat /\ file \in Seq(Log!SystemLog) /\ Due \subseteq Log!IdsOf(file)
  /\ \A q \in queries : LogRequest(q)

\* What is assumed of the constants of the log.
LEMMA LogBounds == MaxEntries \in Nat
BY PagesConstantsOK DEF PagesConstantsOK, Log!ConstantsOK

\* A deletion keeps the entries that are not its own.
LEMMA KeptHas ==
  ASSUME NEW lines \in Seq(Log!SystemLog), NEW ids
  PROVE  /\ Log!Kept(lines, ids) \in Seq(Log!SystemLog)
         /\ Log!IdsOf(lines) \ ids \subseteq Log!IdsOf(Log!Kept(lines, ids))
<1>1. PICK S : S = Log!Others(ids) OBVIOUS
<1>2. Log!Kept(lines, ids) = Among(lines, S)
  BY <1>1 DEF Log!Kept, Log!Among, Among
<1>3. PICK t : t = Among(lines, S) OBVIOUS
<1>4. /\ t \in Seq(Log!SystemLog)
      /\ \A k \in DOMAIN lines : lines[k] \in S => \E m \in DOMAIN t : t[m] = lines[k]
  <2>1. Among(lines, S) \in Seq(Log!SystemLog) BY AmongPasses
  <2>2. Passes(Among(lines, S), lines, S, Len(lines)) BY AmongPasses
  <2>3. DOMAIN lines = 1..Len(lines) OBVIOUS
  <2> QED BY <1>3, <2>1, <2>2, <2>3 DEF Passes
<1>5. ASSUME NEW i \in Log!IdsOf(lines) \ ids PROVE i \in Log!IdsOf(t)
  <2>1. PICK k \in DOMAIN lines : i = lines[k].id BY DEF Log!IdsOf
  <2>2. lines[k] \in Log!SystemLog OBVIOUS
  <2>3. lines[k] \in S BY <1>1, <2>1, <2>2 DEF Log!Others
  <2>4. PICK m \in DOMAIN t : t[m] = lines[k] BY <1>4, <2>3
  <2> QED BY <2>1, <2>4 DEF Log!IdsOf
<1> QED BY <1>2, <1>3, <1>4, <1>5

\* What a request is, does not depend on the file.
LEMMA RequestsKept ==
  ASSUME LogInv, Due' \subseteq Due, chosen \subseteq chosen',
         NEW R, queries' = R, \A r \in R : r \in queries \/ LogRequest(r)'
  PROVE  \A q \in queries' : LogRequest(q)'
BY DEF LogInv, LogRequest

\* What is asked of the server reads nothing yet.
LEMMA Asked ==
  ASSUME NEW kind, NEW f, NEW ids, NEW last, kind = "load" \/ ids \subseteq chosen'
  PROVE  LogRequest(Log!Request(kind, f, ids, last))'
BY DEF LogRequest, Log!Request

\* An entry that is added is at the end of the file, or a deletion is at it.
LEMMA LogAddStep == ASSUME LogInv, NEW k \in LogKinds, Log!add(k) PROVE LogInv'
<1>1. PICK e : e = [id |-> added + 1, kind |-> k] OBVIOUS
<1>2. added < MaxEntries /\ added' = added + 1 /\ file' = Append(file, e) /\ UNCHANGED <<queries, chosen>>
  BY <1>1 DEF Log!add
<1>3. added \in Nat /\ MaxEntries \in Nat BY LogBounds DEF LogInv
<1>4. e \in Log!SystemLog BY <1>1, <1>2, <1>3 DEF Log!SystemLog, Log!Ids
<1>5. file' \in Seq(Log!SystemLog) BY <1>2, <1>4 DEF LogInv
<1>6. Log!IdsOf(file') = Log!IdsOf(file) \cup {added + 1}
  <2>1. /\ DOMAIN file' = 1..(Len(file) + 1) /\ DOMAIN file = 1..Len(file) /\ file'[Len(file) + 1] = e
        /\ \A m \in DOMAIN file : file'[m] = file[m]
    BY <1>2, <1>4, Appended DEF LogInv
  <2>2. Len(file) \in Nat BY DEF LogInv
  <2>3. \A m \in 1..(Len(file) + 1) : m \in 1..Len(file) \/ m = Len(file) + 1 BY <2>2
  <2> QED BY <1>1, <2>1, <2>2, <2>3 DEF Log!IdsOf
<1>7. Due' \subseteq Due \cup {added + 1}
  BY <1>2, <1>3 DEF Due, Log!add
<1>8. ASSUME NEW q \in queries PROVE LogRequest(q)'
  <2>1. CASE q.at # "read"
    BY <1>2, <2>1 DEF LogInv, LogRequest
  <2>2. CASE q.at = "read"
    <3>1. amid' = amid \cup {added + 1} BY <1>2, <2>2 DEF Log!add, Log!Rewriting
    <3>2. Due' \subseteq Due BY <1>7, <3>1 DEF Due
    <3> QED BY <1>2, <3>2 DEF LogInv, LogRequest
  <2> QED BY <2>1, <2>2
<1> QED BY <1>2, <1>3, <1>5, <1>6, <1>7, <1>8 DEF LogInv

\* What the page does leaves the file alone.
LEMMA LogPageStep ==
  ASSUME LogInv,
         \/ \E f \in LogFilters : Log!Filter(f)
         \/ Log!Refresh \/ Log!closeDelete \/ Log!confirmDelete
         \/ \E S : Log!toggleIds(S) \/ Log!openDelete(S)
  PROVE  LogInv'
<1>1. UNCHANGED <<file, added, amid>>
  BY DEF Log!Filter, Log!Refresh, Log!closeDelete, Log!confirmDelete, Log!toggleIds, Log!openDelete, Log!Step
<1>2. /\ chosen \subseteq chosen'
      /\ \/ UNCHANGED queries
         \/ \E kind, f, ids, last :
              /\ queries' = queries \cup {Log!Request(kind, f, ids, last)}
              /\ kind = "load" \/ ids \subseteq chosen'
  <2>1. CASE \E f \in LogFilters : Log!Filter(f)
    BY <2>1 DEF Log!Filter, Log!loadLogs
  <2>2. CASE Log!Refresh
    BY <2>2 DEF Log!Refresh, Log!loadLogs
  <2>3. CASE Log!confirmDelete
    BY <2>3 DEF Log!confirmDelete
  <2>4. CASE Log!closeDelete \/ \E S : Log!toggleIds(S) \/ Log!openDelete(S)
    BY <2>4 DEF Log!closeDelete, Log!toggleIds, Log!openDelete
  <2> QED BY <2>1, <2>2, <2>3, <2>4
<1>3. Due' \subseteq Due BY <1>1, <1>2 DEF Due
<1>4. \A q \in queries' : q \in queries \/ LogRequest(q)'
  BY <1>2, Asked
<1>5. PICK R : R = queries' OBVIOUS
<1>6. \A q \in queries' : LogRequest(q)'
  BY <1>2, <1>3, <1>4, <1>5, RequestsKept
<1> QED BY <1>1, <1>3, <1>6 DEF LogInv

\* What the server does: a deletion that has read writes all that is due.
LEMMA LogServerStep ==
  ASSUME LogInv, NEW q \in queries,
         Log!get_logs(q) \/ Log!ReadLines(q) \/ Log!WriteLines(q) \/ Log!Fail(q) \/ Log!Answer(q)
  PROVE  LogInv'
<1>1. UNCHANGED <<added, chosen, amid>>
  BY DEF Log!get_logs, Log!ReadLines, Log!WriteLines, Log!Fail, Log!Answer
<1>2. Due' = Due BY <1>1 DEF Due
<1>3. LogRequest(q) BY DEF LogInv
<1>4. file' \in Seq(Log!SystemLog) /\ Due \subseteq Log!IdsOf(file')
  <2>1. CASE Log!WriteLines(q)
    <3>1. file' = Log!Kept(q.lines, q.ids) /\ q.at = "read" BY <2>1 DEF Log!WriteLines
    <3>2. q.lines \in Seq(Log!SystemLog) /\ Due \subseteq Log!IdsOf(q.lines) /\ q.ids \subseteq chosen
      BY <1>3, <3>1 DEF LogRequest
    <3>3. Due \subseteq Log!IdsOf(q.lines) \ q.ids BY <3>2 DEF Due
    <3> QED BY <3>1, <3>2, <3>3, KeptHas
  <2>2. CASE ~Log!WriteLines(q)
    BY <2>2 DEF Log!get_logs, Log!ReadLines, Log!Fail, Log!Answer, LogInv
  <2> QED BY <2>1, <2>2
<1>5. \A r \in queries' : r \in queries \/ LogRequest(r)'
  <2>1. CASE Log!get_logs(q)
    <3>1. PICK r : r = [q EXCEPT !.at = "done", !.lines = Log!List(q.filter)] OBVIOUS
    <3>2. queries' = (queries \ {q}) \cup {r} BY <2>1, <3>1 DEF Log!get_logs, Log!Become
    <3>3. LogRequest(r)' BY <1>1, <1>3, <3>1 DEF LogRequest
    <3> QED BY <3>2, <3>3
  <2>2. CASE Log!ReadLines(q)
    <3>1. PICK r : r = [q EXCEPT !.at = "read", !.lines = file] OBVIOUS
    <3>2. queries' = (queries \ {q}) \cup {r} /\ q.kind = "delete" BY <2>2, <3>1 DEF Log!ReadLines, Log!Become
    <3>3. LogRequest(r)' BY <1>1, <1>2, <1>3, <3>1, <3>2 DEF LogRequest, LogInv
    <3> QED BY <3>2, <3>3
  <2>3. CASE Log!WriteLines(q)
    <3>1. PICK r : r = [q EXCEPT !.at = "done", !.lines = <<>>] OBVIOUS
    <3>2. queries' = (queries \ {q}) \cup {r} BY <2>3, <3>1 DEF Log!WriteLines, Log!Become
    <3>3. LogRequest(r)' BY <1>1, <1>3, <3>1 DEF LogRequest
    <3> QED BY <3>2, <3>3
  <2>4. CASE Log!Fail(q)
    <3>1. PICK r : r = [q EXCEPT !.at = "failed", !.lines = <<>>] OBVIOUS
    <3>2. queries' = (queries \ {q}) \cup {r} BY <2>4, <3>1 DEF Log!Fail, Log!Become
    <3>3. LogRequest(r)' BY <1>1, <1>3, <3>1 DEF LogRequest
    <3> QED BY <3>2, <3>3
  <2>5. CASE Log!Answer(q)
    <3>1. CASE Log!Deleted(q)
      <4>1. queries' = (queries \ {q}) \cup {Log!Request("load", q.filter, {}, TRUE)}
        BY <3>1 DEF Log!Deleted, Log!Become
      <4> QED BY <4>1, Asked
    <3>2. CASE ~Log!Deleted(q)
      BY <2>5, <3>2 DEF Log!Answer, Log!Loaded, Log!NotDeleted
    <3> QED BY <3>1, <3>2
  <2> QED BY <2>1, <2>2, <2>3, <2>4, <2>5
<1>6. PICK R : R = queries' OBVIOUS
<1>7. \A r \in queries' : LogRequest(r)'
  BY <1>1, <1>2, <1>5, <1>6, RequestsKept
<1> QED BY <1>1, <1>2, <1>4, <1>7 DEF LogInv

\* Every step of the log keeps what is due.
LEMMA LogStep == LogInv /\ [Log!Next]_(Log!vars) => LogInv'
<1> SUFFICES ASSUME LogInv, [Log!Next]_(Log!vars) PROVE LogInv'
  OBVIOUS
<1>1. CASE UNCHANGED Log!vars
  BY <1>1 DEF Log!vars, LogInv, LogRequest, Due
<1>2. CASE Log!Next
  BY <1>2, LogAddStep, LogPageStep, LogServerStep DEF Log!Next
<1> QED BY <1>1, <1>2

(* No entry of the log is lost that nobody asked to delete, except those   *)
(* added between the two steps of a deletion (LogService.delete).          *)
THEOREM LogIsKept == Log!Spec => []LogKept
<1>1. Log!Init => LogInv
  <2> SUFFICES ASSUME Log!Init PROVE LogInv
    OBVIOUS
  <2>1. added = 0 /\ file = <<>> /\ queries = {Log!Request("load", Usual, {}, FALSE)}
    BY DEF Log!Init
  <2>2. LogRequest(Log!Request("load", Usual, {}, FALSE))
    BY DEF LogRequest, Log!Request
  <2>3. Due = {} BY <2>1 DEF Due
  <2>4. file \in Seq(Log!SystemLog) BY <2>1
  <2>5. \A q \in queries : LogRequest(q) BY <2>1, <2>2
  <2>6. added \in Nat BY <2>1
  <2> QED BY <2>3, <2>4, <2>5, <2>6 DEF LogInv
<1>2. LogInv => LogKept
  BY DEF LogInv, LogKept, Log!LogKept, Due
<1> QED BY <1>1, <1>2, LogStep, PTL DEF Log!Spec

---------------------------------------------------------------------------
(* The gallery of prompts                                                  *)

(* A request names what it asks for.                                       *)
SeedRequests ==
  [asks : [of : {"facets", "list", "item", "related"}, filter : Seeds!Filters,
           id : Seeds!Ids \cup {Unknown}, offset : Nat],
   append : BOOLEAN, live : BOOLEAN, at : {"static", "sent", "found", "done", "failed"}]

(* What the chosen category has; the cards are the first of it.            *)
Chosen == Seeds!filterSeedGalleryItems(category)
FirstOnes == Seeds!IsPrefix(cards, Chosen) /\ offset = Len(cards)

(* A load that was alone brings the first page of the chosen category, or  *)
(* the one after the cards that are shown.                                 *)
Awaits(q) ==
  /\ q.asks.filter = category
  /\ IF q.append THEN FirstOnes /\ q.asks.offset = offset ELSE q.asks.offset = 0

(* The list, unless it waits to load: one such load is under way, or none  *)
(* and the cards are right.                                                *)
ListFits ==
  route = "list" /\ ~amiss /\ ~delay =>
    \/ Seeds!Of("list") = {} /\ FirstOnes /\ (hasMore <=> Len(cards) < Len(Chosen))
    \/ \E q \in Seeds!Of("list") : Awaits(q) /\ Seeds!Of("list") = {q}

(* The page of an item: its request is for the item of the address, that   *)
(* of the related ones for the item that is shown.                         *)
ItemFits ==
  /\ \A q \in Seeds!Of("item") : q.asks.id = route
  /\ Seeds!Of("item") = {} /\ route \in Seeds!Ids => item \subseteq {route} /\ (detail = "failed" <=> item = {})
  /\ \A q \in Seeds!Of("related") : item = {q.asks.id}
  /\ Seeds!Of("related") = {} =>
       relatedItems = <<>> \/ \E i \in item : relatedItems = Seeds!fetchRelatedSeedGalleryItems(i)

BrowseInv ==
  /\ fetches \subseteq SeedRequests /\ cards \in Seq(Seeds!Ids) /\ offset \in Nat
  /\ category \in Seeds!Filters /\ amiss \in BOOLEAN /\ hasMore \in BOOLEAN
  /\ ListFits /\ ItemFits

\* What is assumed of the constants of the gallery.
LEMMA SeedBounds ==
  /\ Catalog \in Seq(Seeds!Ids) /\ PageSize \in Nat \ {0}
  /\ Unknown \notin Seeds!Ids /\ "list" \notin Seeds!Ids
BY PagesConstantsOK DEF PagesConstantsOK, Seeds!ConstantsOK

\* What a category has is a list of items.
LEMMA CategoryHas ==
  ASSUME NEW f
  PROVE  Seeds!filterSeedGalleryItems(f) \in Seq(Seeds!Ids)
<1>1. PICK S : S = {i \in Seeds!Ids : f = All \/ SeedCategory[i] = f} OBVIOUS
<1>2. Seeds!filterSeedGalleryItems(f) = Among(Catalog, S)
  BY <1>1 DEF Seeds!filterSeedGalleryItems, Seeds!Among, Among
<1> QED BY <1>2, SeedBounds, AmongPasses

(* d is the page of s after t, and says whether there is more.             *)
PageAfter(d, t, s) ==
  /\ t \o d.items \in Seq(Seeds!Ids) /\ Seeds!IsPrefix(t \o d.items, s)
  /\ Len(t \o d.items) = d.offset + Len(d.items)
  /\ d.has_more <=> Len(t \o d.items) < Len(s)

\* What is read after a beginning of a list is the page after it.
LEMMA NextPage ==
  ASSUME NEW s \in Seq(Seeds!Ids), NEW t \in Seq(Seeds!Ids), Seeds!IsPrefix(t, s), NEW n \in Nat \ {0},
         NEW d, d = Seeds!paginateSeedGalleryItems(s, n, Len(t))
  PROVE  PageAfter(d, t, s) /\ d.items \in Seq(Seeds!Ids)
<1>1. Len(t) \in Nat /\ Len(s) \in Nat /\ Len(t) <= Len(s) /\ SubSeq(t, 1, Len(t)) = SubSeq(s, 1, Len(t))
  BY DEF Seeds!IsPrefix
<1>2. PICK e : e = IF Len(t) + n < Len(s) THEN Len(t) + n ELSE Len(s) OBVIOUS
<1>3. e \in Nat /\ Len(t) <= e /\ e <= Len(s) /\ (Len(t) + n < Len(s) <=> e < Len(s)) BY <1>1, <1>2
<1>4. d.items = SubSeq(s, Len(t) + 1, e) /\ d.offset = Len(t) /\ (d.has_more <=> Len(t) + n < Len(s))
  <2>1. Len(t) = IF Len(t) < Len(s) THEN Len(t) ELSE Len(s) BY <1>1
  <2>2. PICK h : h = (Len(t) + n < Len(s)) OBVIOUS
  <2>3. PICK w : w = SubSeq(s, Len(t) + 1, e) OBVIOUS
  <2>4. d = [items |-> w, offset |-> Len(t), has_more |-> h]
    BY <1>2, <2>1, <2>2, <2>3 DEF Seeds!paginateSeedGalleryItems
  <2>5. d.items = w /\ d.offset = Len(t) /\ d.has_more = h BY ONLY <2>4
  <2> QED BY <2>2, <2>3, <2>5
<1>5. PICK u : u = d.items OBVIOUS
<1>6. /\ u \in Seq(Seeds!Ids) /\ Len(u) = e - Len(t) /\ \A i \in 1..Len(u) : u[i] = s[Len(t) + i]
  BY <1>1, <1>3, <1>4, <1>5
<1>7. \A i \in 1..Len(t) : t[i] = s[i]
  <2> TAKE i \in 1..Len(t)
  <2>1. SubSeq(t, 1, Len(t))[i] = t[i] BY <1>1
  <2>2. SubSeq(s, 1, Len(t))[i] = s[i] BY <1>1
  <2> QED BY <1>1, <2>1, <2>2
<1>8. PICK v : v = t \o u OBVIOUS
<1>9. /\ v \in Seq(Seeds!Ids) /\ Len(v) = e
      /\ \A i \in 1..e : v[i] = IF i <= Len(t) THEN t[i] ELSE u[i - Len(t)]
  BY <1>1, <1>3, <1>6, <1>8
<1>10. ASSUME NEW i \in 1..e PROVE v[i] = s[i]
  <2>1. CASE i <= Len(t)
    BY <1>1, <1>3, <1>7, <1>9, <2>1
  <2>2. CASE ~(i <= Len(t))
    <3>1. PICK j : j = i - Len(t) OBVIOUS
    <3>2. j \in 1..Len(u) /\ Len(t) + j = i BY <1>1, <1>3, <1>6, <2>2, <3>1
    <3>3. u[j] = s[i] BY <1>6, <3>2
    <3>4. v[i] = u[j] BY <1>9, <2>2, <3>1
    <3> QED BY <3>3, <3>4
  <2> QED BY <2>1, <2>2
<1>11. SubSeq(v, 1, e) = SubSeq(s, 1, e)
  <2>1. PICK a, b : a = SubSeq(v, 1, e) /\ b = SubSeq(s, 1, e) OBVIOUS
  <2>2. a \in Seq(Seeds!Ids) /\ Len(a) = e /\ \A i \in 1..e : a[i] = v[i] BY <1>3, <1>9, <2>1
  <2>3. b \in Seq(Seeds!Ids) /\ Len(b) = e /\ \A i \in 1..e : b[i] = s[i] BY <1>1, <1>3, <2>1
  <2>4. a = b BY <1>3, <1>10, <2>2, <2>3, SeqEqual
  <2> QED BY <2>1, <2>4
<1>12. Seeds!IsPrefix(v, s) BY <1>3, <1>9, <1>11 DEF Seeds!IsPrefix
<1> QED BY <1>1, <1>3, <1>4, <1>5, <1>6, <1>8, <1>9, <1>12 DEF PageAfter

\* The first page of a list is the one after nothing.
LEMMA FirstPage ==
  ASSUME NEW s \in Seq(Seeds!Ids), NEW n \in Nat \ {0}, NEW d, d = Seeds!paginateSeedGalleryItems(s, n, 0)
  PROVE  PageAfter(d, <<>>, s) /\ d.items \in Seq(Seeds!Ids) /\ <<>> \o d.items = d.items
<1>1. PICK t : t = <<>> OBVIOUS
<1>2. t \in Seq(Seeds!Ids) /\ Len(t) = 0 /\ Seeds!IsPrefix(t, s) BY <1>1 DEF Seeds!IsPrefix
<1>3. PageAfter(d, t, s) /\ d.items \in Seq(Seeds!Ids) BY <1>2, NextPage
<1> QED BY <1>1, <1>3

\* Whatever is read of a list is a list of items.
LEMMA AnyPage ==
  ASSUME NEW s \in Seq(Seeds!Ids), NEW n \in Nat \ {0}, NEW from \in Nat,
         NEW d, d = Seeds!paginateSeedGalleryItems(s, n, from)
  PROVE  d.items \in Seq(Seeds!Ids) /\ d.offset \in Nat /\ d.has_more \in BOOLEAN
<1>1. PICK a : a = IF from < Len(s) THEN from ELSE Len(s) OBVIOUS
<1>2. PICK e : e = IF a + n < Len(s) THEN a + n ELSE Len(s) OBVIOUS
<1>3. a \in Nat /\ e \in Nat /\ e <= Len(s) BY <1>1, <1>2
<1>4. d.items = SubSeq(s, a + 1, e) /\ d.offset = a BY <1>1, <1>2 DEF Seeds!paginateSeedGalleryItems
<1>5. d.has_more \in BOOLEAN
  <2>1. PICK h : h = (a + n < Len(s)) OBVIOUS
  <2>2. PICK w : w = SubSeq(s, a + 1, e) OBVIOUS
  <2>3. d = [items |-> w, offset |-> a, has_more |-> h]
    BY <1>1, <1>2, <2>1, <2>2 DEF Seeds!paginateSeedGalleryItems
  <2>4. d.has_more = h BY ONLY <2>3
  <2>5. h \in BOOLEAN BY ONLY <2>1
  <2> QED BY <2>4, <2>5
<1> QED BY <1>3, <1>4, <1>5

\* Every filter that is used is one of the filters.
LEMMA AllIsFilter == All \in Seeds!Filters
BY DEF Seeds!Filters

\* A new request has its fields.
LEMMA ItemAsked ==
  ASSUME NEW id \in Seeds!Ids \cup {Unknown}, NEW r, r = Seeds!LoadItem(id)
  PROVE  r \in SeedRequests /\ r.live = TRUE /\ r.asks.of = "item" /\ r.asks.id = id
BY AllIsFilter DEF Seeds!LoadItem, Seeds!Ask, SeedRequests

\* The same of the request of the related items.
LEMMA RelatedAsked ==
  ASSUME NEW id \in Seeds!Ids \cup {Unknown}, NEW r, r = Seeds!LoadRelated(id)
  PROVE  r \in SeedRequests /\ r.live = TRUE /\ r.asks.of = "related" /\ r.asks.id = id
BY AllIsFilter DEF Seeds!LoadRelated, Seeds!Ask, SeedRequests

\* The same of the request of the categories.
LEMMA FacetsAsked ==
  ASSUME NEW r, r = Seeds!Facets
  PROVE  r \in SeedRequests /\ r.live = TRUE /\ r.asks.of = "facets"
BY AllIsFilter DEF Seeds!Facets, Seeds!Ask, SeedRequests

\* A request that is given up keeps its fields.
LEMMA GivenUp ==
  ASSUME NEW S \in SUBSET SeedRequests
  PROVE  Seeds!Cancelled(S) \subseteq SeedRequests /\ \A r \in Seeds!Cancelled(S) : ~r.live
BY DEF Seeds!Cancelled, SeedRequests

\* A request that goes on to another place is the same to the page.
LEMMA SeedBecome ==
  ASSUME BrowseInv, NEW q \in fetches, NEW a \in {"static", "sent", "found", "done", "failed"},
         Seeds!Become(q, [q EXCEPT !.at = a]), UNCHANGED <<route, facets, category, delay, cards, offset,
           hasMore, isLoading, isLoadingMore, amiss, item, relatedItems, detail>>
  PROVE  BrowseInv'
<1>1. PICK r : r = [q EXCEPT !.at = a] OBVIOUS
<1>2. q \in SeedRequests BY DEF BrowseInv
<1>3. r \in SeedRequests /\ r.asks = q.asks /\ r.append = q.append /\ r.live = q.live
  BY <1>1, <1>2 DEF SeedRequests
<1>4. fetches' = (fetches \ {q}) \cup {r} BY <1>1 DEF Seeds!Become
<1>5. fetches' \subseteq SeedRequests BY <1>3, <1>4 DEF BrowseInv
<1>6. ASSUME NEW k
      PROVE  Seeds!Of(k)' = IF q \in Seeds!Of(k) THEN (Seeds!Of(k) \ {q}) \cup {r} ELSE Seeds!Of(k)
  <2>1. CASE q \in Seeds!Of(k) BY <1>3, <1>4, <2>1 DEF Seeds!Of
  <2>2. CASE q \notin Seeds!Of(k)
    <3>1. r.live => r.asks.of # k BY <1>3, <2>2 DEF Seeds!Of
    <3> QED BY <1>4, <2>2, <3>1 DEF Seeds!Of
  <2> QED BY <2>1, <2>2
<1>7. ASSUME NEW k, NEW s \in Seeds!Of(k)' PROVE s \in Seeds!Of(k) \/ (s = r /\ q \in Seeds!Of(k))
  BY <1>6
<1>8. Chosen' = Chosen /\ (FirstOnes <=> FirstOnes')
  <2>1. Chosen' = Chosen BY DEF Chosen, Seeds!filterSeedGalleryItems
  <2> QED BY <2>1 DEF FirstOnes, Seeds!IsPrefix
<1>9. \A s, t : s.asks = t.asks /\ s.append = t.append /\ Awaits(s) => Awaits(t)'
  BY <1>8 DEF Awaits
<1>10. ListFits'
  <2> SUFFICES ASSUME (route = "list" /\ ~amiss /\ ~delay)' PROVE ListFits' BY DEF ListFits
  <2>1. CASE Seeds!Of("list") = {} /\ FirstOnes /\ (hasMore <=> Len(cards) < Len(Chosen))
    <3>1. Seeds!Of("list")' = {} BY <1>6, <2>1
    <3> QED BY <1>8, <2>1, <3>1 DEF ListFits
  <2>2. CASE \E s \in Seeds!Of("list") : Awaits(s) /\ Seeds!Of("list") = {s}
    <3>1. PICK s \in Seeds!Of("list") : Awaits(s) /\ Seeds!Of("list") = {s} BY <2>2
    <3>2. PICK t : t = IF q = s THEN r ELSE s OBVIOUS
    <3>3. Seeds!Of("list")' = {t} BY <1>6, <3>1, <3>2
    <3>4. Awaits(t)' BY <1>3, <1>9, <3>1, <3>2
    <3> QED BY <3>3, <3>4 DEF ListFits
  <2> QED BY <2>1, <2>2 DEF BrowseInv, ListFits
<1>11. ItemFits'
  <2>1. \A k : Seeds!Of(k)' = {} <=> Seeds!Of(k) = {} BY <1>6
  <2>2. \A s \in Seeds!Of("item")' : s.asks.id = route BY <1>3, <1>7 DEF BrowseInv, ItemFits
  <2>3. \A s \in Seeds!Of("related")' : item = {s.asks.id} BY <1>3, <1>7 DEF BrowseInv, ItemFits
  <2>4. \A i : Seeds!fetchRelatedSeedGalleryItems(i)' = Seeds!fetchRelatedSeedGalleryItems(i) OBVIOUS
  <2> QED BY <2>1, <2>2, <2>3 DEF BrowseInv, ItemFits
<1> QED BY <1>5, <1>10, <1>11 DEF BrowseInv

\* The list stands, if nothing of it and none of its requests changes.
LEMMA ListStands ==
  ASSUME ListFits, UNCHANGED <<route, category, delay, cards, offset, hasMore, amiss>>,
         Seeds!Of("list")' = Seeds!Of("list")
  PROVE  ListFits'
<1>1. Chosen' = Chosen BY DEF Chosen, Seeds!filterSeedGalleryItems
<1>2. FirstOnes' <=> FirstOnes BY <1>1 DEF FirstOnes, Seeds!IsPrefix
<1>3. \A q : Awaits(q)' <=> Awaits(q) BY <1>2 DEF Awaits
<1>4. ASSUME NEW q \in Seeds!Of("list"), Awaits(q), Seeds!Of("list") = {q}
      PROVE  \E s \in Seeds!Of("list")' : Awaits(s)' /\ Seeds!Of("list")' = {s}
  BY <1>3, <1>4
<1> QED BY <1>1, <1>2, <1>4 DEF ListFits

\* So does the page of an item.
LEMMA ItemStands ==
  ASSUME ItemFits, UNCHANGED <<route, item, detail, relatedItems>>,
         Seeds!Of("item")' = Seeds!Of("item"), Seeds!Of("related")' = Seeds!Of("related")
  PROVE  ItemFits'
<1>1. \A i : Seeds!fetchRelatedSeedGalleryItems(i)' = Seeds!fetchRelatedSeedGalleryItems(i) OBVIOUS
<1> QED BY DEF ItemFits

\* A page that opens has what it asks for.
LEMMA SeedNavigate ==
  ASSUME BrowseInv, NEW to \in Seeds!Routes, Seeds!Navigate(to)
  PROVE  BrowseInv'
<1>1. Seeds!Opened(to) BY DEF Seeds!Navigate
<1>2. /\ route' = to /\ category' = All /\ delay' = (to = "list") /\ cards' = <<>> /\ offset' = 0 /\ amiss' = FALSE
      /\ item' = {} /\ relatedItems' = <<>>
  BY <1>1 DEF Seeds!Opened
<1>12. hasMore' = FALSE BY <1>1 DEF Seeds!Opened
<1>3. fetches \subseteq SeedRequests BY DEF BrowseInv
<1>4. PICK new : /\ fetches' = Seeds!Cancelled(fetches) \cup new
                 /\ new = {} \/ (to = "list" /\ new = {Seeds!Facets}) \/ (to # "list" /\ to # "workspace" /\ new = {Seeds!LoadItem(to)})
  <2>1. CASE to = "list" BY <1>1, <2>1 DEF Seeds!Opened
  <2>2. CASE to = "workspace" BY <1>1, <2>2 DEF Seeds!Opened
  <2>3. CASE to # "list" /\ to # "workspace" BY <1>1, <2>3 DEF Seeds!Opened
  <2> QED BY <2>1, <2>2, <2>3
<1>5. /\ new \subseteq SeedRequests
      /\ \A r \in new : (r.asks.of = "facets" \/ (r.asks.of = "item" /\ r.asks.id = to))
  <2>1. CASE new = {Seeds!Facets}
    BY <2>1, FacetsAsked
  <2>2. CASE to # "list" /\ to # "workspace" /\ new = {Seeds!LoadItem(to)}
    <3>1. to \in Seeds!Ids \cup {Unknown} BY <2>2 DEF Seeds!Routes
    <3> QED BY <2>2, <3>1, ItemAsked
  <2> QED BY <1>4, <2>1, <2>2
<1>6. \A q \in Seeds!Cancelled(fetches) : ~q.live BY <1>3, GivenUp
<1>7. ASSUME NEW k, NEW q \in Seeds!Of(k)' PROVE q \in new /\ q.asks.of = k
  BY <1>4, <1>6, <1>7 DEF Seeds!Of
<1>8. fetches' \subseteq SeedRequests BY <1>3, <1>4, <1>5, GivenUp
<1>9. ListFits' BY <1>2 DEF ListFits
<1>10. ItemFits'
  <2>1. \A q \in Seeds!Of("item")' : q.asks.id = to BY <1>5, <1>7
  <2>2. Seeds!Of("related")' = {} BY <1>5, <1>7
  <2>3. to \in Seeds!Ids => Seeds!Of("item")' # {}
    <3> SUFFICES ASSUME to \in Seeds!Ids PROVE Seeds!Of("item")' # {} OBVIOUS
    <3>1. to # "list" /\ to # "workspace" BY PagesConstantsOK DEF PagesConstantsOK, Seeds!ConstantsOK
    <3>2. Seeds!LoadItem(to) \in fetches' BY <1>1, <3>1 DEF Seeds!Opened
    <3>3. Seeds!LoadItem(to).live = TRUE /\ Seeds!LoadItem(to).asks.of = "item" BY ItemAsked
    <3> QED BY <3>2, <3>3 DEF Seeds!Of
  <2> QED BY <1>2, <2>1, <2>2, <2>3 DEF ItemFits
<1>11. cards' \in Seq(Seeds!Ids) BY <1>2
<1> QED BY <1>2, <1>8, <1>9, <1>10, <1>11, <1>12, AllIsFilter DEF BrowseInv

\* Another item is asked for in the place of the one before.
LEMMA SeedOther ==
  ASSUME BrowseInv, NEW to \in Seeds!Ids, Seeds!OtherItem(to) \/ Seeds!Back(to)
  PROVE  BrowseInv'
<1>1. /\ route' = to /\ relatedItems' = <<>> /\ item' = item
      /\ UNCHANGED <<category, delay, cards, offset, hasMore, amiss>>
      /\ fetches' = (fetches \ Seeds!Of("item")) \cup Seeds!Cancelled(Seeds!Of("item")) \cup {Seeds!LoadItem(to)}
  BY DEF Seeds!OtherItem, Seeds!Back, Seeds!list
<1>2. PICK r : r = Seeds!LoadItem(to) OBVIOUS
<1>3. r \in SeedRequests /\ r.live = TRUE /\ r.asks.of = "item" /\ r.asks.id = to
  BY <1>2, ItemAsked
<1>4. Seeds!Of("item") \subseteq SeedRequests BY DEF BrowseInv, Seeds!Of
<1>5. PICK gone : gone = Seeds!Cancelled(Seeds!Of("item")) OBVIOUS
<1>6. gone \subseteq SeedRequests /\ \A s \in gone : ~s.live BY <1>4, <1>5, GivenUp
<1>7. fetches' \subseteq SeedRequests BY <1>1, <1>2, <1>3, <1>5, <1>6 DEF BrowseInv
<1>8. Seeds!Of("item")' = {r} BY <1>1, <1>2, <1>3, <1>5, <1>6 DEF Seeds!Of
<1>9. Seeds!Of("related")' = Seeds!Of("related")
  BY <1>1, <1>2, <1>3, <1>5, <1>6 DEF Seeds!Of
<1>10. ListFits' BY <1>1, SeedBounds DEF ListFits
<1>11. ItemFits'
  BY <1>1, <1>3, <1>8, <1>9 DEF BrowseInv, ItemFits
<1> QED BY <1>1, <1>7, <1>10, <1>11 DEF BrowseInv

\* A load that starts is alone, or the list is told that it is not.
Begun(r, from, append) ==
  /\ r.append = append /\ r.asks.filter = category /\ r.asks.offset = from
  /\ Seeds!Of("list")' = Seeds!Of("list") \cup {r}
  /\ Seeds!Of("item")' = Seeds!Of("item") /\ Seeds!Of("related")' = Seeds!Of("related")
  /\ fetches' \subseteq SeedRequests
  /\ amiss' \in BOOLEAN /\ (~amiss' => Seeds!Of("list") = {} /\ (append => ~amiss))

LEMMA SeedStart ==
  ASSUME BrowseInv, NEW from \in Nat, NEW append \in BOOLEAN, Seeds!Start(from, append)
  PROVE  \E r : Begun(r, from, append)
<1>1. PICK r : r = Seeds!Load(from, append) OBVIOUS
<1>2. /\ r \in SeedRequests /\ r.live = TRUE /\ r.append = append
      /\ r.asks.of = "list" /\ r.asks.filter = category /\ r.asks.offset = from
  <2>1. category \in Seeds!Filters BY DEF BrowseInv
  <2> QED BY <1>1, <2>1 DEF Seeds!Load, Seeds!Ask, SeedRequests
<1>3. fetches' = fetches \cup {r} BY <1>1 DEF Seeds!Start
<1>4. Seeds!Of("list")' = Seeds!Of("list") \cup {r} BY <1>2, <1>3 DEF Seeds!Of
<1>5. Seeds!Of("item")' = Seeds!Of("item") /\ Seeds!Of("related")' = Seeds!Of("related")
  BY <1>2, <1>3 DEF Seeds!Of
<1>6. amiss' \in BOOLEAN /\ (~amiss' => Seeds!Of("list") = {} /\ (append => ~amiss)) BY DEF Seeds!Start
<1>7. fetches' \subseteq SeedRequests BY <1>2, <1>3 DEF BrowseInv
<1>8. Begun(r, from, append) BY <1>2, <1>4, <1>5, <1>6, <1>7 DEF Begun
<1> QED BY <1>8

\* What is done to the list.
LEMMA SeedListStep ==
  ASSUME BrowseInv, (\E f \in Seeds!Filters : Seeds!ChooseCategory(f)) \/ Seeds!loadItems \/ Seeds!loadMore
  PROVE  BrowseInv'
<1>1. CASE \E f \in Seeds!Filters : Seeds!ChooseCategory(f)
  <2>1. /\ UNCHANGED <<route, cards, offset, hasMore, amiss, item, detail, relatedItems, fetches>>
        /\ category' \in Seeds!Filters /\ delay' = TRUE
    BY <1>1 DEF Seeds!ChooseCategory, Seeds!page
  <2>2. ListFits' BY <2>1 DEF ListFits
  <2>3. ItemFits' BY <2>1, ItemStands DEF BrowseInv, Seeds!Of
  <2> QED BY <2>1, <2>2, <2>3 DEF BrowseInv
<1>2. CASE Seeds!loadItems
  <2>1. /\ Seeds!Start(0, FALSE) /\ delay' = FALSE
        /\ UNCHANGED <<route, category, cards, offset, hasMore, item, detail, relatedItems>>
    BY <1>2 DEF Seeds!loadItems, Seeds!page
  <2>2. PICK r : Begun(r, 0, FALSE) BY <2>1, SeedStart
  <2>3. /\ r.append = FALSE /\ r.asks.filter = category /\ r.asks.offset = 0
        /\ Seeds!Of("list")' = Seeds!Of("list") \cup {r}
        /\ Seeds!Of("item")' = Seeds!Of("item") /\ Seeds!Of("related")' = Seeds!Of("related")
        /\ fetches' \subseteq SeedRequests
        /\ amiss' \in BOOLEAN /\ (~amiss' => Seeds!Of("list") = {})
    BY <2>2 DEF Begun
  <2>4. ~amiss' => Seeds!Of("list")' = {r} /\ Awaits(r)' BY <2>1, <2>3 DEF Awaits
  <2>5. ListFits' BY <2>4 DEF ListFits
  <2>6. ItemFits' BY <2>1, <2>3, ItemStands DEF BrowseInv
  <2> QED BY <2>1, <2>3, <2>5, <2>6 DEF BrowseInv
<1>3. CASE Seeds!loadMore
  <2>1. /\ Seeds!Start(offset, TRUE)
        /\ UNCHANGED <<route, category, delay, cards, offset, hasMore, item, detail, relatedItems>>
    BY <1>3 DEF Seeds!loadMore, Seeds!page
  <2>2. PICK r : Begun(r, offset, TRUE)
    <3>1. offset \in Nat BY DEF BrowseInv
    <3> QED BY <2>1, <3>1, SeedStart
  <2>3. /\ r.append = TRUE /\ r.asks.filter = category /\ r.asks.offset = offset
        /\ Seeds!Of("list")' = Seeds!Of("list") \cup {r}
        /\ Seeds!Of("item")' = Seeds!Of("item") /\ Seeds!Of("related")' = Seeds!Of("related")
        /\ fetches' \subseteq SeedRequests
        /\ amiss' \in BOOLEAN /\ (~amiss' => Seeds!Of("list") = {} /\ ~amiss)
    BY <2>2 DEF Begun
  <2>4. Chosen' = Chosen BY <2>1 DEF Chosen, Seeds!filterSeedGalleryItems
  <2>5. FirstOnes' <=> FirstOnes BY <2>1, <2>4 DEF FirstOnes, Seeds!IsPrefix
  <2>6. ListFits'
    <3> SUFFICES ASSUME route = "list", ~amiss', ~delay PROVE \E q \in Seeds!Of("list")' : Awaits(q)' /\ Seeds!Of("list")' = {q}
      BY <2>1 DEF ListFits
    <3>1. Seeds!Of("list")' = {r} /\ Seeds!Of("list") = {} /\ ~amiss BY <2>3
    <3>2. FirstOnes BY <3>1 DEF BrowseInv, ListFits
    <3>3. Awaits(r)' BY <2>1, <2>3, <2>5, <3>2 DEF Awaits
    <3> QED BY <3>1, <3>3
  <2>7. ItemFits' BY <2>1, <2>3, ItemStands DEF BrowseInv
  <2> QED BY <2>1, <2>6, <2>3, <2>7 DEF BrowseInv
<1> QED BY <1>1, <1>2, <1>3

\* What is done besides the list and the item leaves both alone.
LEMMA SeedAside ==
  ASSUME BrowseInv, (\E i \in Seeds!Ids : Seeds!handleUsePrompt(i)) \/ Seeds!fetchSeedGalleryStaticItems \/ Seeds!Expire \/ UNCHANGED Seeds!vars
  PROVE  BrowseInv'
<1>1. UNCHANGED <<route, category, delay, cards, offset, hasMore, amiss, item, detail, relatedItems, fetches>>
  BY DEF Seeds!handleUsePrompt, Seeds!fetchSeedGalleryStaticItems, Seeds!Expire, Seeds!vars, Seeds!list, Seeds!page
<1>2. ListFits' BY <1>1, ListStands DEF BrowseInv, Seeds!Of
<1>3. ItemFits' BY <1>1, ItemStands DEF BrowseInv, Seeds!Of
<1> QED BY <1>1, <1>2, <1>3 DEF BrowseInv

\* What becomes of a request before its answer is seen.
LEMMA SeedServed ==
  ASSUME BrowseInv, NEW q \in fetches,
         Seeds!FromStatic(q) \/ Seeds!cachedSeedGalleryRequest(q) \/ Seeds!writeLocalApiCache(q) \/ Seeds!FailedRequest(q)
  PROVE  BrowseInv'
<1>1. UNCHANGED <<route, facets, category, delay, cards, offset, hasMore, isLoading, isLoadingMore, amiss, item, relatedItems, detail>>
  BY DEF Seeds!FromStatic, Seeds!cachedSeedGalleryRequest, Seeds!writeLocalApiCache, Seeds!FailedRequest, Seeds!list, Seeds!page
<1>2. PICK a \in {"static", "sent", "found", "done", "failed"} : Seeds!Become(q, [q EXCEPT !.at = a])
  BY DEF Seeds!FromStatic, Seeds!cachedSeedGalleryRequest, Seeds!writeLocalApiCache, Seeds!FailedRequest
<1> QED BY <1>1, <1>2, SeedBecome

\* A request that ends is no longer among those of its kind.
LEMMA SeedFinish ==
  ASSUME BrowseInv, NEW q \in fetches, Seeds!Finish(q)
  PROVE  /\ fetches' \subseteq SeedRequests
         /\ Seeds!Of("list")' = Seeds!Of("list") \ {q} /\ Seeds!Of("item")' = Seeds!Of("item") \ {q}
         /\ Seeds!Of("related")' = Seeds!Of("related") \ {q}
BY DEF BrowseInv, Seeds!Finish, Seeds!Of

\* An answer of the list that was alone brings the cards it should.
LEMMA SeedListAnswer ==
  ASSUME BrowseInv, NEW q \in Seeds!Of("list"), Seeds!ListAnswer(q)
  PROVE  BrowseInv'
<1>1. q \in fetches /\ q \in SeedRequests /\ q.live /\ q.asks.of = "list" BY DEF BrowseInv, Seeds!Of
<1>2. /\ fetches' \subseteq SeedRequests
      /\ Seeds!Of("list")' = Seeds!Of("list") \ {q} /\ Seeds!Of("item")' = Seeds!Of("item")
      /\ Seeds!Of("related")' = Seeds!Of("related")
  <2>1. q \notin Seeds!Of("item") /\ q \notin Seeds!Of("related") BY <1>1 DEF Seeds!Of
  <2> QED BY <1>1, <2>1, SeedFinish DEF Seeds!ListAnswer
<1>3. UNCHANGED <<route, category, delay, item, detail, relatedItems>> BY DEF Seeds!ListAnswer, Seeds!page
<1>4. ItemFits' BY <1>2, <1>3, ItemStands DEF BrowseInv
<1>5. PICK data : data = Seeds!fetchSeedGallery(q.asks.filter, q.asks.offset) OBVIOUS
<1>6. \/ amiss' = TRUE /\ UNCHANGED <<cards, offset, hasMore>>
      \/ /\ cards' = IF q.append THEN cards \o data.items ELSE data.items
         /\ offset' = data.offset + Len(data.items) /\ hasMore' = data.has_more /\ UNCHANGED amiss
  BY <1>5 DEF Seeds!ListAnswer
<1>7. PICK all : all = Seeds!filterSeedGalleryItems(q.asks.filter) OBVIOUS
<1>8. all \in Seq(Seeds!Ids) BY <1>7, CategoryHas
<1>9. data = Seeds!paginateSeedGalleryItems(all, PageSize, q.asks.offset) BY <1>5, <1>7 DEF Seeds!fetchSeedGallery
<1>10. PageSize \in Nat \ {0} /\ q.asks.offset \in Nat /\ q.append \in BOOLEAN BY <1>1, SeedBounds DEF SeedRequests
<1>11. data.items \in Seq(Seeds!Ids) /\ data.offset \in Nat /\ data.has_more \in BOOLEAN BY <1>8, <1>9, <1>10, AnyPage
<1>12. cards' \in Seq(Seeds!Ids) /\ offset' \in Nat
  <2>1. Len(data.items) \in Nat BY <1>11
  <2>2. cards \in Seq(Seeds!Ids) /\ offset \in Nat BY DEF BrowseInv
  <2>3. cards \o data.items \in Seq(Seeds!Ids) BY <1>11, <2>2
  <2>4. offset' \in Nat BY <1>6, <1>11, <2>1, <2>2
  <2>5. cards' = cards \/ cards' = cards \o data.items \/ cards' = data.items BY <1>6
  <2> QED BY <1>11, <2>2, <2>3, <2>4, <2>5
<1>13. ListFits'
  <2> SUFFICES ASSUME route = "list", ~amiss', ~delay
      PROVE Seeds!Of("list")' = {} /\ FirstOnes' /\ (hasMore' <=> Len(cards') < Len(Chosen'))
    BY <1>3 DEF ListFits
  <2>1. /\ cards' = IF q.append THEN cards \o data.items ELSE data.items
        /\ offset' = data.offset + Len(data.items) /\ hasMore' = data.has_more /\ ~amiss
    BY <1>6
  <2>2. Awaits(q) /\ Seeds!Of("list") = {q}
    <3>1. PICK s \in Seeds!Of("list") : Awaits(s) /\ Seeds!Of("list") = {s} BY <2>1 DEF BrowseInv, ListFits
    <3> QED BY <3>1
  <2>3. q.asks.filter = category /\ all = Chosen BY <1>7, <2>2 DEF Awaits, Chosen
  <2>4. Chosen' = all BY <1>3, <2>3 DEF Chosen, Seeds!filterSeedGalleryItems
  <2>5. PICK t : PageAfter(data, t, all) /\ cards' = t \o data.items
    <3>1. CASE q.append
      <4>1. FirstOnes /\ q.asks.offset = Len(cards) BY <2>2, <3>1 DEF Awaits, FirstOnes
      <4>2. Seeds!IsPrefix(cards, all) /\ cards \in Seq(Seeds!Ids) BY <2>3, <4>1 DEF FirstOnes, BrowseInv
      <4>3. PageAfter(data, cards, all) BY <1>8, <1>9, <1>10, <4>1, <4>2, NextPage
      <4> QED BY <2>1, <3>1, <4>3
    <3>2. CASE ~q.append
      <4>1. q.asks.offset = 0 BY <2>2, <3>2 DEF Awaits
      <4>2. PageAfter(data, <<>>, all) /\ <<>> \o data.items = data.items
        BY <1>8, <1>9, <1>10, <4>1, FirstPage
      <4> QED BY <2>1, <3>2, <4>2
    <3> QED BY <3>1, <3>2
  <2>6. Seeds!IsPrefix(cards', all) /\ offset' = Len(cards') BY <2>1, <2>5 DEF PageAfter
  <2>7. FirstOnes' BY <2>4, <2>6 DEF FirstOnes, Seeds!IsPrefix
  <2>8. hasMore' <=> Len(cards') < Len(all) BY <2>1, <2>5 DEF PageAfter
  <2> QED BY <1>2, <2>2, <2>4, <2>7, <2>8
<1>14. category' \in Seeds!Filters /\ amiss' \in BOOLEAN /\ hasMore' \in BOOLEAN BY <1>3, <1>6, <1>11 DEF BrowseInv
<1> QED BY <1>2, <1>4, <1>12, <1>13, <1>14 DEF BrowseInv

\* The answer of the item that is asked for makes it the one that is shown.
LEMMA SeedItemAnswer ==
  ASSUME BrowseInv, NEW q \in Seeds!Of("item"), Seeds!ItemAnswer(q)
  PROVE  BrowseInv'
<1>1. q \in fetches /\ q \in SeedRequests /\ q.live /\ q.asks.of = "item" BY DEF BrowseInv, Seeds!Of
<1>2. UNCHANGED <<route, category, delay, cards, offset, hasMore, amiss>> BY DEF Seeds!ItemAnswer, Seeds!list
<1>3. q.asks.id = route BY DEF BrowseInv, ItemFits
<1>4. PICK gone : gone = Seeds!Cancelled(Seeds!Of("related")) OBVIOUS
<1>5. PICK r : r = Seeds!LoadRelated(q.asks.id) OBVIOUS
<1>6. /\ Seeds!Of("related") \subseteq SeedRequests /\ gone \subseteq SeedRequests /\ \A s \in gone : ~s.live
      /\ r \in SeedRequests /\ r.live = TRUE /\ r.asks.of = "related" /\ r.asks.id = q.asks.id
  <2>1. Seeds!Of("related") \subseteq SeedRequests BY DEF BrowseInv, Seeds!Of
  <2>2. q.asks.id \in Seeds!Ids \cup {Unknown} BY <1>1 DEF SeedRequests
  <2> QED BY <1>4, <1>5, <2>1, <2>2, GivenUp, RelatedAsked
<1>7. PICK new : /\ \/ /\ new = {} /\ item' = {} /\ detail' = "failed" /\ relatedItems' = <<>>
                       /\ fetches' = (fetches \ ({q} \cup Seeds!Of("related"))) \cup gone
                    \/ /\ new = {r} /\ item' = {q.asks.id} /\ detail' = "shown"
                       /\ fetches' = (fetches \ ({q} \cup Seeds!Of("related"))) \cup gone \cup {r}
                    \/ /\ new = Seeds!Of("related") /\ item' = {q.asks.id} /\ detail' = "shown" /\ item = {q.asks.id}
                       /\ relatedItems' = relatedItems /\ fetches' = fetches \ {q}
  BY <1>4, <1>5 DEF Seeds!ItemAnswer, Seeds!Finish
<1>8. Seeds!Of("list")' = Seeds!Of("list") /\ Seeds!Of("item")' = Seeds!Of("item") \ {q} /\ Seeds!Of("related")' = new
  BY <1>1, <1>6, <1>7 DEF Seeds!Of
<1>9. fetches' \subseteq SeedRequests BY <1>6, <1>7 DEF BrowseInv
<1>10. ListFits' BY <1>2, <1>8, ListStands DEF BrowseInv
<1>11. ItemFits'
  <2>1. \A s \in Seeds!Of("item")' : s.asks.id = route' BY <1>2, <1>8 DEF BrowseInv, ItemFits
  <2>2. item' \subseteq {route'} /\ (detail' = "failed" <=> item' = {}) BY <1>2, <1>3, <1>7
  <2>3. \A s \in new : item' = {s.asks.id} BY <1>6, <1>7 DEF BrowseInv, ItemFits
  <2>4. new = {} => relatedItems' = <<>> \/ \E i \in item' : relatedItems' = Seeds!fetchRelatedSeedGalleryItems(i)
    BY <1>7 DEF BrowseInv, ItemFits
  <2> QED BY <1>8, <2>1, <2>2, <2>3, <2>4 DEF ItemFits
<1> QED BY <1>2, <1>9, <1>10, <1>11 DEF BrowseInv

\* The related items that are shown are those of the item that is.
LEMMA SeedOtherAnswer ==
  ASSUME BrowseInv, NEW q \in fetches,
         \/ q \in Seeds!Of("related") /\ Seeds!RelatedAnswer(q)
         \/ q.asks.of = "facets" /\ Seeds!FacetsAnswer(q)
         \/ ~q.live /\ Seeds!Finish(q) /\ UNCHANGED <<route, Seeds!list, Seeds!page>>
  PROVE  BrowseInv'
<1>1. /\ fetches' \subseteq SeedRequests
      /\ Seeds!Of("list")' = Seeds!Of("list") \ {q} /\ Seeds!Of("item")' = Seeds!Of("item") \ {q}
      /\ Seeds!Of("related")' = Seeds!Of("related") \ {q}
  BY SeedFinish DEF Seeds!RelatedAnswer, Seeds!FacetsAnswer
<1>2. q \notin Seeds!Of("list") /\ q \notin Seeds!Of("item") BY DEF Seeds!Of
<1>3. UNCHANGED <<route, category, delay, cards, offset, hasMore, amiss, item, detail>>
  BY DEF Seeds!RelatedAnswer, Seeds!FacetsAnswer, Seeds!list, Seeds!page
<1>4. ListFits' BY <1>1, <1>2, <1>3, ListStands DEF BrowseInv
<1>5. ItemFits'
  <2>1. CASE q \in Seeds!Of("related")
    <3>1. Seeds!RelatedAnswer(q) BY <2>1 DEF Seeds!Of
    <3>2. item = {q.asks.id} BY <2>1 DEF BrowseInv, ItemFits
    <3>3. relatedItems' = <<>> \/ relatedItems' = Seeds!fetchRelatedSeedGalleryItems(q.asks.id) BY <3>1 DEF Seeds!RelatedAnswer
    <3>4. \A s \in Seeds!Of("related")' : item' = {s.asks.id} BY <1>1, <1>3 DEF BrowseInv, ItemFits
    <3>5. relatedItems' = <<>> \/ \E i \in item' : relatedItems' = Seeds!fetchRelatedSeedGalleryItems(i) BY <1>3, <3>2, <3>3
    <3> QED BY <1>1, <1>2, <1>3, <3>4, <3>5 DEF BrowseInv, ItemFits
  <2>2. CASE q \notin Seeds!Of("related")
    <3>1. relatedItems' = relatedItems BY <2>2 DEF Seeds!FacetsAnswer, Seeds!page
    <3> QED BY <1>1, <1>2, <1>3, <2>2, <3>1, ItemStands DEF BrowseInv
  <2> QED BY <2>1, <2>2
<1> QED BY <1>1, <1>3, <1>4, <1>5 DEF BrowseInv

\* Every step of the gallery keeps the invariant.
LEMMA SeedStep == BrowseInv /\ [Seeds!Next]_(Seeds!vars) => BrowseInv'
<1> SUFFICES ASSUME BrowseInv, [Seeds!Next]_(Seeds!vars) PROVE BrowseInv'
  OBVIOUS
<1>1. ASSUME NEW q \in fetches, Seeds!Answer(q) PROVE BrowseInv'
  <2>1. CASE ~q.live
    BY <1>1, <2>1, SeedOtherAnswer DEF Seeds!Answer, Seeds!Heard
  <2>2. CASE q.live
    <3>1. Seeds!FacetsAnswer(q) \/ Seeds!ListAnswer(q) \/ Seeds!ItemAnswer(q) \/ Seeds!RelatedAnswer(q)
      BY <1>1, <2>2 DEF Seeds!Answer, Seeds!Heard
    <3>2. CASE Seeds!FacetsAnswer(q)
      <4>1. q.asks.of = "facets" BY <3>2 DEF Seeds!FacetsAnswer
      <4> QED BY <3>2, <4>1, SeedOtherAnswer
    <3>3. CASE Seeds!ListAnswer(q)
      <4>1. q \in Seeds!Of("list") BY <2>2, <3>3 DEF Seeds!ListAnswer, Seeds!Of
      <4> QED BY <3>3, <4>1, SeedListAnswer
    <3>4. CASE Seeds!ItemAnswer(q)
      <4>1. q \in Seeds!Of("item") BY <2>2, <3>4 DEF Seeds!ItemAnswer, Seeds!Of
      <4> QED BY <3>4, <4>1, SeedItemAnswer
    <3>5. CASE Seeds!RelatedAnswer(q)
      <4>1. q \in Seeds!Of("related") BY <2>2, <3>5 DEF Seeds!RelatedAnswer, Seeds!Of
      <4> QED BY <3>5, <4>1, SeedOtherAnswer
    <3> QED BY <3>1, <3>2, <3>3, <3>4, <3>5
  <2> QED BY <2>1, <2>2
<1>2. ASSUME NEW to \in Seeds!Ids, Seeds!OtherItem(to) \/ Seeds!Back(to) PROVE BrowseInv'
  BY <1>2, SeedOther
<1>3. ASSUME NEW q \in fetches, \/ Seeds!FromStatic(q) \/ Seeds!cachedSeedGalleryRequest(q)
                                \/ Seeds!writeLocalApiCache(q) \/ Seeds!FailedRequest(q)
      PROVE  BrowseInv'
  BY <1>3, SeedServed
<1>4. ASSUME NEW to \in Seeds!Routes, Seeds!Navigate(to) PROVE BrowseInv'
  BY <1>4, SeedNavigate
<1> QED BY <1>1, <1>2, <1>3, <1>4, SeedListStep, SeedAside DEF Seeds!Next

(* When a page of the gallery has come to rest it shows what its address   *)
(* and the chosen category have, whatever was pressed while the answers    *)
(* were under way (gallery-browser.tsx, gallery-detail-client.tsx).        *)
THEOREM PageIsSettled == Seeds!Spec => []PageSettled
<1>1. Seeds!Init => BrowseInv
  <2> SUFFICES ASSUME Seeds!Init PROVE BrowseInv
    OBVIOUS
  <2>1. /\ route = "workspace" /\ category = All /\ cards = <<>> /\ offset = 0 /\ amiss = FALSE
        /\ hasMore = FALSE /\ fetches = {} /\ relatedItems = <<>>
    BY DEF Seeds!Init
  <2>2. \A k : Seeds!Of(k) = {} BY <2>1 DEF Seeds!Of
  <2>3. route \notin Seeds!Ids BY <2>1, PagesConstantsOK DEF PagesConstantsOK, Seeds!ConstantsOK
  <2>4. ListFits /\ ItemFits BY <2>1, <2>2, <2>3 DEF ListFits, ItemFits
  <2>5. cards \in Seq(Seeds!Ids) BY <2>1
  <2> QED BY <2>1, <2>4, <2>5, AllIsFilter DEF BrowseInv
<1>2. BrowseInv => PageSettled
  <2> SUFFICES ASSUME BrowseInv, Seeds!Quiet PROVE PageSettled
    BY DEF PageSettled, Seeds!PageSettled
  <2>1. ~delay /\ \A k : Seeds!Of(k) = {} BY DEF Seeds!Quiet, Seeds!Of
  <2>2. ASSUME route \in Seeds!Ids
        PROVE  /\ item \subseteq {route} /\ (detail = "failed" <=> item = {})
               /\ relatedItems \in {<<>>, Seeds!fetchRelatedSeedGalleryItems(route)}
    BY <2>1, <2>2 DEF BrowseInv, ItemFits
  <2>3. ASSUME route = "list", ~amiss
        PROVE  Seeds!IsPrefix(cards, Chosen) /\ offset = Len(cards) /\ hasMore = (Len(cards) < Len(Chosen))
    BY <2>1, <2>3 DEF BrowseInv, ListFits, FirstOnes
  <2> QED BY <2>2, <2>3 DEF PageSettled, Seeds!PageSettled, Chosen
<1> QED BY <1>1, <1>2, SeedStep, PTL DEF Seeds!Spec

---------------------------------------------------------------------------
(* All pages: in a behaviour of one page the others stand still, but for   *)
(* the bounds they share.                                                  *)

\* The setup at rest, in a behaviour of another page.
SetupRests ==
  admins = {} /\ settings = FALSE /\ ~locked

\* SetupIsWhole, of all pages.
LEMMA SetupOfPages == Spec => []SetupWhole
<1> DEFINE Here == part = "setup"
<1>1. Init => Install!Init BY DEF Init
<1>2. Here /\ [Next]_vars => [Install!Next]_(Install!vars) /\ Here'
  BY DEF Next, vars, su, Install!vars
<1>3. Init => SetupRests BY DEF Init, Install!Init, SetupRests
<1>4. SetupRests /\ ~Here /\ [Next]_vars => SetupRests' /\ ~Here'
  BY DEF Next, vars, su, SetupRests
<1>5. SetupRests => SetupWhole
  <2>1. Cardinality({}) = 0 BY FS_EmptySet
  <2> SUFFICES ASSUME SetupRests PROVE SetupWhole OBVIOUS
  <2>2. Cardinality(admins) <= 1 BY <2>1 DEF SetupRests
  <2>3. (admins # {}) = settings /\ Install!Claimable
    BY DEF SetupRests, Install!Claimable, Install!_admin_exists
  <2> QED BY <2>2, <2>3 DEF SetupWhole, Install!SetupWhole, Install!Cardinality, Cardinality
<1> QED BY <1>1, <1>2, <1>3, <1>4, <1>5, SetupIsWhole, PTL DEF Spec, Install!Spec

\* The list of users at rest, in a behaviour of another page.
UsersRest ==
  keyRequests # {}

\* ListIsCaught, of all pages.
LEMMA UsersOfPages == Spec => []ListCaught
<1> DEFINE Here == part = "users"
<1>1. Init => Accounts!Init BY DEF Init
<1>2. Here /\ [Next]_vars => [Accounts!Next]_(Accounts!vars) /\ Here'
  BY DEF Next, vars, us, Accounts!vars
<1>3. Init => UsersRest BY DEF Init, Accounts!Init, UsersRest
<1>4. UsersRest /\ ~Here /\ [Next]_vars => UsersRest' /\ ~Here'
  BY DEF Next, vars, us, UsersRest
<1>5. UsersRest => ListCaught
  BY DEF UsersRest, ListCaught, Accounts!ListCaught
<1> QED BY <1>1, <1>2, <1>3, <1>4, <1>5, ListIsCaught, PTL DEF Spec, Accounts!Spec

\* The library at rest, in a behaviour of another page.
LibraryRests ==
  asked # {}

\* ListStaysCurrent, of all pages.
LEMMA LibraryOfPages == Spec => []ListIsCurrent
<1> DEFINE Here == part = "library"
<1>1. Init => Manager!Init BY DEF Init
<1>2. Here /\ [Next]_vars => [Manager!Next]_(Manager!vars) /\ Here'
  BY DEF Next, vars, li, Manager!vars
<1>3. Init => LibraryRests BY DEF Init, Manager!Init, LibraryRests
<1>4. LibraryRests /\ ~Here /\ [Next]_vars => LibraryRests' /\ ~Here'
  BY DEF Next, vars, li, LibraryRests
<1>5. LibraryRests => ListIsCurrent
  BY DEF LibraryRests, ListIsCurrent, Manager!ListIsCurrent
<1> QED BY <1>1, <1>2, <1>3, <1>4, <1>5, ListStaysCurrent, PTL DEF Spec, Manager!Spec

\* The log at rest, in a behaviour of another page.
LogRests ==
  added = 0

\* LogIsKept, of all pages.
LEMMA LogOfPages == Spec => []LogKept
<1> DEFINE Here == part = "log"
<1>1. Init => Log!Init BY DEF Init
<1>2. Here /\ [Next]_vars => [Log!Next]_(Log!vars) /\ Here'
  BY DEF Next, vars, cl, Log!vars, Log!page
<1>3. Init => LogRests BY DEF Init, Log!Init, LogRests
<1>4. LogRests /\ ~Here /\ [Next]_vars => LogRests' /\ ~Here'
  BY DEF Next, vars, cl, LogRests
<1>5. LogRests => LogKept
  BY DEF LogRests, LogKept, Log!LogKept
<1> QED BY <1>1, <1>2, <1>3, <1>4, <1>5, LogIsKept, PTL DEF Spec, Log!Spec

\* The gallery of prompts at rest, in a behaviour of another page.
SeedsRest ==
  route = "workspace"

\* PageIsSettled, of all pages.
LEMMA SeedsOfPages == Spec => []PageSettled
<1> DEFINE Here == part = "seeds"
<1>1. Init => Seeds!Init BY DEF Init
<1>2. Here /\ [Next]_vars => [Seeds!Next]_(Seeds!vars) /\ Here'
  BY DEF Next, vars, sg, Seeds!vars, Seeds!list, Seeds!page
<1>3. Init => SeedsRest BY DEF Init, Seeds!Init, SeedsRest
<1>4. SeedsRest /\ ~Here /\ [Next]_vars => SeedsRest' /\ ~Here'
  BY DEF Next, vars, sg, SeedsRest
<1>5. SeedsRest => PageSettled
  BY PagesConstantsOK DEF PagesConstantsOK, Seeds!ConstantsOK, SeedsRest, PageSettled, Seeds!PageSettled
<1> QED BY <1>1, <1>2, <1>3, <1>4, <1>5, PageIsSettled, PTL DEF Spec, Seeds!Spec

\* SettingsAreKept, of all pages.
LEMMA SettingsOfPages == Spec => SettingsKept
<1> DEFINE Here == part = "settings"
<1>1. Init => Config!Init BY DEF Init
<1>2. Here /\ [Next]_vars => [Config!Next]_(Config!vars) /\ Here'
  BY DEF Next, vars, st, Config!vars
<1>3. ~Here /\ [Next]_vars => UNCHANGED stored /\ ~Here'
  BY DEF Next, vars, st
<1>4. UNCHANGED stored =>
        [\A p \in Pages, f \in Config!Fields :
           /\ Config!isSavingConfig(p) /\ save[p].at = "sent" /\ save'[p].at = "done"
           /\ stored'[f] # stored[f]
           => f \in save[p].edited \/ (f # "secret" /\ save[p].base[f] # stored[f])]_(Config!vars)
  OBVIOUS
<1> QED BY <1>1, <1>2, <1>3, <1>4, SettingsAreKept, PTL DEF Spec, Config!Spec, SettingsKept, Config!SettingsKept

(* Whichever page of an administrator is used, and however: the first      *)
(* setup is whole, the list of users is caught up with, the list of images *)
(* is current, no entry of the log is lost, the gallery of prompts settles *)
(* and what was not edited in the settings is kept.                        *)
THEOREM AdminPagesHold ==
  Spec => [](SetupWhole /\ ListCaught /\ ListIsCurrent /\ LogKept /\ PageSettled) /\ SettingsKept
BY SetupOfPages, UsersOfPages, LibraryOfPages, LogOfPages, SeedsOfPages, SettingsOfPages, PTL
=============================================================================
