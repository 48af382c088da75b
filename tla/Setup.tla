------------------------------- MODULE Setup -------------------------------
(***************************************************************************)
(* The first use of an installation: a page asks whether an administrator  *)
(* is still to be created, and sends the name and key of one together with *)
(* the settings. The server claims the place of the first administrator    *)
(* and then writes the settings; if it cannot it takes the administrator   *)
(* back. The code is app/setup of the web, the setup route, and the claim  *)
(* in the file the keys are kept in.                                       *)
(***************************************************************************)
EXTENDS Naturals, FiniteSets

CONSTANTS Pages,      \* the browsers in which the installation is set up
          MaxChanges, \* how often a page is opened again, or its form changed
          MaxFaults

ConstantsOK == Pages # {} /\ MaxChanges \in Nat /\ MaxFaults \in Nat

VARIABLES
  admins,   \* the administrators stored, each named for the page it came from
  settings, \* the settings are stored
  locked,   \* the directory that guards the claim was left behind
  page,     \* per page: what it shows
  valid,    \* per page: what is typed would be accepted
  status,   \* per page: the question under way
  request,  \* per page: the setup under way
  changes,
  faults,   \* requests that were lost and settings that could not be stored
  undone,   \* taking an administrator back failed
  stops     \* how often the server stopped

vars == <<admins, settings, locked, page, valid, status, request, changes, faults, undone, stops>>

TypeOK ==
  /\ admins \subseteq Pages /\ settings \in BOOLEAN /\ locked \in BOOLEAN
  /\ page \in [Pages -> {"checking", "error", "form", "login"}]
  /\ valid \in [Pages -> BOOLEAN]
  /\ status \in [Pages -> {"idle", "sent", "required", "done", "failed"}]
  /\ request \in [Pages -> {"idle", "sent", "short", "checked", "created", "unsaved", "ok", "failed"}]
  /\ changes \in 0..MaxChanges /\ faults \in 0..MaxFaults
  /\ undone \in BOOLEAN /\ stops \in 0..MaxFaults

Init ==
  /\ admins = {} /\ settings = FALSE /\ locked = FALSE
  /\ page = [p \in Pages |-> "checking"] /\ valid = [p \in Pages |-> FALSE]
  /\ status = [p \in Pages |-> "sent"] /\ request = [p \in Pages |-> "idle"]
  /\ changes = 0 /\ faults = 0 /\ undone = FALSE /\ stops = 0

server == <<admins, settings, locked, undone>>
isSaving(p) == request[p] # "idle"

---------------------------------------------------------------------------
(* The page                                                                *)

CheckingOffers(p) == IF page[p] = "checking" THEN {} ELSE {"reopen"}
ErrorOffers(p) == IF page[p] = "error" THEN {"retry"} ELSE {}

(* The sections of the form stay open while it is saved.                   *)
AdminSection == {"admin_name", "admin_key"}
SiteSection == {"public_app_url", "api_public_url", "session_secret"}
LoginSection == {"oidc"}
GatewaySection == {"model_gateway"}
FormOffers(p) ==
  IF page[p] # "form" THEN {}
  ELSE AdminSection \cup SiteSection \cup LoginSection \cup GatewaySection
       \cup IF isSaving(p) THEN {} ELSE {"save"}

Change == changes < MaxChanges /\ changes' = changes + 1

Ask(p) ==
  /\ page' = [page EXCEPT ![p] = "checking"]
  /\ status' = [status EXCEPT ![p] = "sent"]

(* An answer that comes after the page was left is not taken, a setup it   *)
(* has sent goes on.                                                       *)
Reopen(p) ==
  /\ "reopen" \in CheckingOffers(p) /\ ~isSaving(p) /\ Change
  /\ Ask(p) /\ valid' = [valid EXCEPT ![p] = FALSE]
  /\ UNCHANGED <<server, request, faults, stops>>

retrySetupStatus(p) ==
  /\ "retry" \in ErrorOffers(p) /\ Ask(p)
  /\ UNCHANGED <<server, valid, request, changes, faults, stops>>

(* A long enough key and secret are typed, or removed again.               *)
setField(p) ==
  /\ AdminSection \cap FormOffers(p) # {} /\ Change
  /\ valid' = [valid EXCEPT ![p] = ~@]
  /\ UNCHANGED <<server, page, status, request, faults, stops>>

applySetupStatus(required) == IF required THEN "form" ELSE "login"

StatusAnswered(p) ==
  /\ status[p] \in {"required", "done", "failed"}
  /\ page' = [page EXCEPT ![p] = IF status[p] = "failed" THEN "error"
                                 ELSE applySetupStatus(status[p] = "required")]
  /\ status' = [status EXCEPT ![p] = "idle"]
  /\ UNCHANGED <<server, valid, request, changes, faults, stops>>

Save(p) ==
  /\ "save" \in FormOffers(p)
  /\ request' = [request EXCEPT ![p] = IF valid[p] THEN "sent" ELSE "short"]
  /\ UNCHANGED <<server, page, valid, status, changes, faults, stops>>

SaveAnswered(p) ==
  /\ request[p] \in {"ok", "failed"}
  /\ request' = [request EXCEPT ![p] = "idle"]
  /\ page' = [page EXCEPT ![p] = IF request[p] = "ok" THEN "login" ELSE @]
  /\ UNCHANGED <<server, valid, status, changes, faults, stops>>

---------------------------------------------------------------------------
(* The server                                                              *)

_admin_exists == admins # {}

get_setup_status(p) ==
  /\ status[p] = "sent"
  /\ status' = [status EXCEPT ![p] = IF _admin_exists THEN "done" ELSE "required"]
  /\ UNCHANGED <<server, page, valid, request, changes, faults, stops>>

Step(p, to) ==
  /\ request' = [request EXCEPT ![p] = to]
  /\ UNCHANGED <<page, valid, status, changes, stops>>

CheckSetup(p) ==
  /\ request[p] \in {"sent", "short"}
  /\ Step(p, IF _admin_exists \/ request[p] = "short" THEN "failed" ELSE "checked")
  /\ UNCHANGED <<server, faults>>

\* Mutant of Claimable: the claim relies on what was found before.
ClaimableUnseen == ~locked

(* The claim: nobody claims without the lock, and nobody has before.       *)
Claimable == ~locked /\ ~_admin_exists

create_first_auth_key(p) ==
  /\ request[p] = "checked"
  /\ IF Claimable THEN admins' = admins \cup {p} /\ Step(p, "created")
                  ELSE Step(p, "failed") /\ UNCHANGED admins
  /\ UNCHANGED <<settings, locked, undone, faults>>

UpdateConfig(p) ==
  /\ request[p] = "created"
  /\ \/ settings' = TRUE /\ Step(p, "ok") /\ UNCHANGED faults
     \/ /\ faults < MaxFaults /\ faults' = faults + 1
        /\ Step(p, "unsaved") /\ UNCHANGED settings
  /\ UNCHANGED <<admins, locked, undone>>

(* The administrator is taken back, if it is still the one that was        *)
(* created.                                                                *)
delete_first_admin(p) ==
  /\ request[p] = "unsaved" /\ Step(p, "failed")
  /\ \/ admins' = admins \ {p} /\ UNCHANGED <<undone, faults>>
     \/ /\ faults < MaxFaults /\ faults' = faults + 1
        /\ undone' = TRUE /\ UNCHANGED admins
  /\ UNCHANGED <<settings, locked>>

(* A question, a setup that has not begun, or an answer is lost.           *)
Lose(p) ==
  /\ faults < MaxFaults /\ faults' = faults + 1
  /\ \/ /\ status[p] \in {"sent", "required", "done"}
        /\ status' = [status EXCEPT ![p] = "failed"] /\ UNCHANGED request
     \/ /\ request[p] \in {"sent", "short", "ok"}
        /\ request' = [request EXCEPT ![p] = "failed"] /\ UNCHANGED status
  /\ UNCHANGED <<server, page, valid, changes, stops>>

(* The server stops and starts again. The directory of a claim that was    *)
(* under way is left behind, whether or not the key was stored.            *)
Stop ==
  /\ stops < MaxFaults /\ stops' = stops + 1
  /\ \/ UNCHANGED <<admins, locked>>
     \/ \E p \in Pages : /\ request[p] = "checked" /\ Claimable /\ locked' = TRUE
                         /\ admins' \in {admins, admins \cup {p}}
     \/ \E p \in Pages : /\ request[p] = "unsaved" /\ locked' = TRUE
                         /\ admins' \in {admins, admins \ {p}}
  /\ status' = [p \in Pages |-> IF status[p] = "idle" THEN "idle" ELSE "failed"]
  /\ request' = [p \in Pages |-> IF request[p] = "idle" THEN "idle" ELSE "failed"]
  /\ UNCHANGED <<settings, undone, page, valid, changes, faults>>

---------------------------------------------------------------------------
Next ==
  \/ Stop
  \/ \E p \in Pages :
       \/ Reopen(p) \/ retrySetupStatus(p) \/ setField(p) \/ StatusAnswered(p) \/ Save(p) \/ SaveAnswered(p)
       \/ get_setup_status(p) \/ CheckSetup(p) \/ create_first_auth_key(p) \/ UpdateConfig(p)
       \/ delete_first_admin(p) \/ Lose(p)

Spec == Init /\ [][Next]_vars

---------------------------------------------------------------------------
(* Two setups at once never make two administrators. However they overlap  *)
(* and fail, none is left half done: as soon as none is under way there is *)
(* an administrator if and only if there are settings, and else the setup  *)
(* can be made again; unless the server stopped in the middle, or taking   *)
(* the administrator back failed too.                                      *)
SetupWhole ==
  /\ Cardinality(admins) <= 1
  /\ stops = 0 /\ ~undone /\ (\A p \in Pages : ~isSaving(p)) =>
       /\ (admins # {}) = settings
       /\ settings \/ Claimable
=============================================================================
