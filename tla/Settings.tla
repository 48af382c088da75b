------------------------------ MODULE Settings ------------------------------
(***************************************************************************)
(* The settings page. It keeps a copy of the settings that is edited field *)
(* by field; a save sends the whole copy, and its answer replaces it. The  *)
(* copy outlives the page, which loads it anew each time it is opened.     *)
(* Secrets are never sent to a page: an empty one means it is to stay. The *)
(* code is app/settings of the web and the configuration of the server.    *)
(***************************************************************************)
EXTENDS Integers, FiniteSets

CONSTANTS Pages,    \* the browsers in which an administrator has the settings
          Texts,    \* values of a field that is taken as it is
          Days,     \* what is typed as a number of days, 0 for no number
          Secrets,
          Models, DefaultModels,
          Terms,    \* how a model is charged
          NewTerms, UsualTerms,  \* how a new one is, and one of the default ones
          MaxEdits, MaxFaults

Empty == "empty"       \* no secret
DefaultDays == 30      \* image_retention_days without a number
Null == [at |-> "null"]

ConstantsOK ==
  /\ Days \subseteq Int /\ DefaultModels \subseteq Models /\ DefaultModels # {}
  /\ Empty \notin Secrets /\ Texts # {} /\ {NewTerms, UsualTerms} \subseteq Terms
  /\ MaxEdits \in Nat /\ MaxFaults \in Nat

(* The settings on the server; logout is a field of the login section the  *)
(* form does not have.                                                     *)
ServerConfig == [text : Texts, days : Nat \ {0}, secret : Secrets \cup {Empty},
                 terms : UNION {[S -> Terms] : S \in SUBSET Models}, logout : BOOLEAN]
SettingsConfig == [at : {"config"}, text : Texts, days : Int, typed : Secrets \cup {Empty},
                   configured : BOOLEAN, models : SUBSET Models,
                   terms : UNION {[S -> Terms] : S \in SUBSET Models}]

VARIABLES
  stored,  \* the settings on the server
  config,  \* per page: its copy
  load,    \* per page: the request for the settings
  save,    \* per page: the save under way
  base,    \* per page: the settings its copy was answered from
  edited,  \* per page: the fields edited since
  edits, faults

vars == <<stored, config, load, save, base, edited, edits, faults>>

Idle == [at |-> "idle"]
Fields == {"text", "days", "secret", "terms"}
isLoadingConfig(p) == load[p] # Idle
isSavingConfig(p) == save[p] # Idle

TypeOK ==
  /\ stored \in ServerConfig /\ base \in [Pages -> ServerConfig]
  /\ \A p \in Pages : config[p] = Null \/ config[p] \in SettingsConfig
  /\ \A p \in Pages : load[p] = Idle \/ load[p] \in
       [at : {"sent", "done", "failed"}, answer : ServerConfig]
  /\ \A p \in Pages : save[p] = Idle \/ save[p] \in
       [at : {"sent", "done", "failed"}, body : SettingsConfig, answer : ServerConfig,
        base : ServerConfig, edited : SUBSET Fields]
  /\ edited \in [Pages -> SUBSET Fields] /\ edits \in 0..MaxEdits /\ faults \in 0..MaxFaults

---------------------------------------------------------------------------
(* Conversions                                                             *)

ReadDays(n) == IF n = 0 THEN DefaultDays ELSE IF n < 1 THEN 1 ELSE n

(* What a page makes of the settings it is answered: no secret comes with  *)
(* them, only whether there is one.                                        *)
normalizeConfig(s) ==
  [at |-> "config", text |-> s.text, days |-> s.days, typed |-> Empty,
   configured |-> s.secret # Empty, models |-> DOMAIN s.terms, terms |-> s.terms]

(* What is sent of a copy.                                                 *)
Body(c) == [c EXCEPT !.days = ReadDays(c.days)]

(* The server charges for every model of the list, and for the usual ones  *)
(* if the list is empty.                                                   *)
NormalizeGateway(models, terms) ==
  [m \in IF models = {} THEN DefaultModels ELSE models |->
     IF m \in DOMAIN terms THEN terms[m] ELSE UsualTerms]

\* Mutant of NormalizeSecret: an empty secret is taken as it is.
SecretAsSent(old, typed) == typed

NormalizeSecret(old, typed) == IF typed = Empty THEN old ELSE typed

(* What is sent of the login section replaces it, the field that the form  *)
(* does not have with it.                                                  *)
Update(s, c) ==
  [text |-> c.text, days |-> c.days, secret |-> NormalizeSecret(s.secret, c.typed),
   terms |-> NormalizeGateway(c.models, c.terms), logout |-> FALSE]

---------------------------------------------------------------------------
Init ==
  /\ stored = [text |-> CHOOSE t \in Texts : TRUE, days |-> DefaultDays, secret |-> Empty,
               terms |-> NormalizeGateway({}, <<>>), logout |-> TRUE]
  /\ config = [p \in Pages |-> Null]
  /\ load = [p \in Pages |-> Idle] /\ save = [p \in Pages |-> Idle]
  /\ base = [p \in Pages |-> stored] /\ edited = [p \in Pages |-> {}]
  /\ edits = 0 /\ faults = 0

(* The page is opened, for the first time or again: the copy is loaded. A  *)
(* page that is opened during its load does not load it twice here.        *)
loadConfig(p) ==
  /\ ~isLoadingConfig(p)
  /\ config[p] = Null \/ (edits < MaxEdits)
  /\ edits' = IF config[p] = Null THEN edits ELSE edits + 1
  /\ load' = [load EXCEPT ![p] = [at |-> "sent", answer |-> base[p]]]
  /\ UNCHANGED <<stored, config, save, base, edited, faults>>

(* Answered settings replace the copy, and what was typed into it since.   *)
SetConfig(p, s) ==
  /\ config' = [config EXCEPT ![p] = normalizeConfig(s)]
  /\ base' = [base EXCEPT ![p] = s]
  /\ edited' = [edited EXCEPT ![p] = {}]

GetSettings(p) ==
  /\ isLoadingConfig(p) /\ load[p].at = "sent"
  /\ load' = [load EXCEPT ![p] = [at |-> "done", answer |-> stored]]
  /\ UNCHANGED <<stored, config, save, base, edited, edits, faults>>

Loaded(p) ==
  /\ isLoadingConfig(p) /\ load[p].at = "done"
  /\ SetConfig(p, load[p].answer)
  /\ load' = [load EXCEPT ![p] = Idle]
  /\ UNCHANGED <<stored, save, edits, faults>>

LoadFailed(p) ==
  /\ isLoadingConfig(p) /\ load[p].at = "failed"
  /\ load' = [load EXCEPT ![p] = Idle]
  /\ UNCHANGED <<stored, config, save, base, edited, edits, faults>>

---------------------------------------------------------------------------
(* The form. Its fields stay open while a save is under way.               *)

SiteSection == {"text"}
LoginSection == {"text", "secret"}
GatewayFields == {"text", "secret"}
GatewayModels == {"terms"}
TaskSection == {"days"}
ConstraintSection == {"text"}

FormOffers(p) ==
  IF isLoadingConfig(p) THEN {}
  ELSE SiteSection \cup LoginSection \cup GatewayFields \cup GatewayModels
       \cup TaskSection \cup ConstraintSection
       \cup IF isSavingConfig(p) THEN {} ELSE {"save"}

(* A form without settings shows the usual values and changes nothing.     *)
SetField(p, field, c) ==
  /\ field \in FormOffers(p) /\ config[p] # Null /\ c # config[p]
  /\ edits < MaxEdits /\ edits' = edits + 1
  /\ config' = [config EXCEPT ![p] = c]
  /\ edited' = [edited EXCEPT ![p] = @ \cup {field}]
  /\ UNCHANGED <<stored, load, save, base, faults>>

setConfigField(p, v) == SetField(p, "text", [config[p] EXCEPT !.text = v])
setImageRetentionDays(p, v) == SetField(p, "days", [config[p] EXCEPT !.days = v])
TypeSecret(p, v) == SetField(p, "secret", [config[p] EXCEPT !.typed = v])

ShownModels(p) == IF config[p].models = {} THEN DefaultModels ELSE config[p].models

(* The list of models is typed: a model that was not in it costs nothing   *)
(* yet, one that leaves it loses its terms.                                *)
handleImageModelsChange(p, S) ==
  LET kept == config[p].terms IN
  SetField(p, "terms", [config[p] EXCEPT !.models = S,
    !.terms = [m \in S |-> IF m \in DOMAIN kept THEN kept[m] ELSE NewTerms]])

handleImageModelTermsChange(p, m, t) ==
  /\ config[p] # Null /\ m \in ShownModels(p)
  /\ SetField(p, "terms",
       [config[p] EXCEPT !.terms = [n \in DOMAIN @ \cup {m} |-> IF n = m THEN t ELSE @[n]]])

saveConfig(p) ==
  /\ "save" \in FormOffers(p) /\ config[p] # Null
  /\ save' = [save EXCEPT ![p] =
       [at |-> "sent", body |-> Body(config[p]), answer |-> base[p],
        base |-> base[p], edited |-> edited[p]]]
  /\ UNCHANGED <<stored, config, load, base, edited, edits, faults>>

SaveSettings(p) ==
  /\ isSavingConfig(p) /\ save[p].at = "sent"
  /\ stored' = Update(stored, save[p].body)
  /\ save' = [save EXCEPT ![p].at = "done", ![p].answer = stored']
  /\ UNCHANGED <<config, load, base, edited, edits, faults>>

Saved(p) ==
  /\ isSavingConfig(p) /\ save[p].at = "done"
  /\ SetConfig(p, save[p].answer)
  /\ save' = [save EXCEPT ![p] = Idle]
  /\ UNCHANGED <<stored, load, edits, faults>>

SaveFailed(p) ==
  /\ isSavingConfig(p) /\ save[p].at = "failed"
  /\ save' = [save EXCEPT ![p] = Idle]
  /\ UNCHANGED <<stored, config, load, base, edited, edits, faults>>

(* A request or its answer is lost, or the server refuses what was typed.  *)
Fail(p) ==
  /\ faults < MaxFaults /\ faults' = faults + 1
  /\ \/ /\ isLoadingConfig(p) /\ load[p].at # "failed"
        /\ load' = [load EXCEPT ![p].at = "failed", ![p].answer = base[p]] /\ UNCHANGED save
     \/ /\ isSavingConfig(p) /\ save[p].at # "failed"
        /\ save' = [save EXCEPT ![p].at = "failed", ![p].answer = base[p]] /\ UNCHANGED load
  /\ UNCHANGED <<stored, config, base, edited, edits>>

---------------------------------------------------------------------------
Edit(p) ==
  \/ \E v \in Texts : setConfigField(p, v)
  \/ \E v \in Days : setImageRetentionDays(p, v)
  \/ \E v \in Secrets \cup {Empty} : TypeSecret(p, v)
  \/ \E S \in SUBSET Models : handleImageModelsChange(p, S)
  \/ \E m \in Models, t \in Terms : handleImageModelTermsChange(p, m, t)

Next == \E p \in Pages :
  \/ loadConfig(p) \/ GetSettings(p) \/ Loaded(p) \/ LoadFailed(p)
  \/ Edit(p) \/ saveConfig(p) \/ SaveSettings(p) \/ Saved(p) \/ SaveFailed(p) \/ Fail(p)

Spec == Init /\ [][Next]_vars

---------------------------------------------------------------------------
(* Every save sends everything, however old: still a field only changes if *)
(* it was edited, or was another one when the copy was loaded; and a       *)
(* secret, which is never part of the copy, only if it was typed in it.    *)
SettingsKept ==
  [][\A p \in Pages, f \in Fields :
       /\ isSavingConfig(p) /\ save[p].at = "sent" /\ save'[p].at = "done"
       /\ stored'[f] # stored[f]
       => f \in save[p].edited \/ (f # "secret" /\ save[p].base[f] # stored[f])]_vars
=============================================================================
