--------------------------- MODULE BrowserSession ---------------------------
(* The session of a browser and the profile that its menus work on: the    *)
(* tabs of Session, or the menus of Profile. They share no state but the   *)
(* bounds, so a behaviour is one of a single part, chosen at first, and    *)
(* the other stands still.                                                 *)
EXTENDS Session

CONSTANTS Menus, Page, Customs, Bound, Ratios, Themes, Languages, Start, Requests, MaxChanges

VARIABLES part, account, stored, session, shown, view, typed, ratio, timer, request, changes

profile == <<account, stored, session, shown, view, typed, ratio, timer, request>>

Profiles == INSTANCE Profile

ASSUME ProfileConstantsOK == Profiles!ConstantsOK

\* A part that stands still needs but one of its first states.
BrowserInit ==
  /\ part \in {"session", "profile"}
  /\ Init /\ (part = "profile" => rec = "none")
  /\ Profiles!Init /\ (part = "session" => account.providers.selected = Profiles!None)

BrowserNext ==
  /\ UNCHANGED part
  /\ \/ part = "session" /\ Next /\ UNCHANGED <<profile, changes>>
     \/ part = "profile" /\ Profiles!Next /\ UNCHANGED <<store, tabs, job, moves, out, late>>

BrowserSpec ==
  /\ BrowserInit /\ [][BrowserNext]_<<part, vars, profile, changes>>
  /\ Fairness /\ Profiles!Fairness

(* The properties of the profile, stated in its module.                    *)
ThemeShown == Profiles!ThemeShown
KeysKept == Profiles!KeysKept
SavingEnds == Profiles!SavingEnds
=============================================================================
