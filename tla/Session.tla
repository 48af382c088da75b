------------------------------ MODULE Session ------------------------------
(***************************************************************************)
(* Who the browser says is logged in: the cookie, the session that the     *)
(* tabs share in the browser's store, the copies that the shell and the    *)
(* page of a tab hold, the guards of the pages, the interceptor of         *)
(* refused requests, login and logout.                                     *)
(*                                                                         *)
(* A tab runs until the next await, so a request and what follows its      *)
(* answer are two steps; a write of the store and the code after it are    *)
(* one.                                                                    *)
(***************************************************************************)
EXTENDS Naturals, FiniteSets

CONSTANTS Tabs,       \* tabs of one browser
          Jobs,       \* requests under way at once
          Before,     \* sessions the browser may start with, "none" for none
          MaxMoves,   \* what the user does: links, addresses, buttons, logins
          MaxFaults   \* requests that fail, and sessions that are refused

ASSUME SessionAssumption ==
  /\ Before \subseteq {"none", "legacy", "user", "admin"}
  /\ MaxMoves \in Nat /\ MaxFaults \in Nat

(* A session is told by how its requests prove who sends them: the cookie  *)
(* of a user or of the administrator, or a user's stored key.              *)
Sess == {"user", "admin", "legacy"}
RoleOf(s) == IF s = "admin" THEN "admin" ELSE "user"

(* "manager" stands for every page of the administrator, "newapi" for      *)
(* those of a user, "image" for those of anybody who is logged in.         *)
Guarded == {"image", "manager", "newapi"}
Public == {"home", "login", "admin"}
Paths == Guarded \cup Public \cup {"provider"}
AllowedRoles(p) ==
  CASE p = "manager" -> {"admin"} [] p = "newapi" -> {"user"} [] OTHER -> {"user", "admin"}
\* Mutant of getDefaultRouteForRole: everybody is sent to the administrator's page.
RouteOfAdmins(r) == "manager"
getDefaultRouteForRole(r) == IF r = "admin" THEN "manager" ELSE "image"
normalizePostAuthRedirectPath(n) == IF n \in Guarded THEN n ELSE ""

Modes == {"reuse", "sync", "force"}
Checks == {"shell", "page", "login"}      \* getValidatedAuthSession, by its caller
Kinds == Checks \cup {"logout", "force", "oidc", "admin", "data", "save"}

VARIABLES
  cookie,   \* the session of the browser's cookie, or "none"
  rec,      \* the stored session (with its key), or "none"
  refused,  \* sessions the server does not accept any more
  path, next,  \* per tab: where it is, and where a login is to lead
  shell,    \* per tab: the session of AppShell, "loading" or "none"
  page,     \* per tab: the session the page shows, "checking", "guest" or "stuck"
  due,      \* per tab: effects about to run
  job,      \* requests under way
  moves, faults,
  out,      \* history: logged out, and not in again
  late      \* history: a request was under way when the session was cleared

store == <<cookie, rec, refused>>
tabs == <<path, next, shell, page, due>>
vars == <<store, tabs, job, moves, faults, out, late>>

Idle == [at |-> "idle"]
Busy == [at : {"sent", "answered", "leaving"}, tab : Tabs, kind : Kinds,
         cred : Sess \cup {"none"}, sess : Sess \cup {"none"},
         ans : {"yes", "no", "lost"}, live : BOOLEAN]

TypeOK ==
  /\ cookie \in {"user", "admin", "none"}
  /\ rec \in Sess \cup {"none"}
  /\ refused \subseteq Sess
  /\ path \in [Tabs -> Paths]
  /\ next \in [Tabs -> Guarded \cup {""}]
  /\ shell \in [Tabs -> Sess \cup {"loading", "none"}]
  /\ page \in [Tabs -> Sess \cup {"checking", "guest", "stuck"}]
  /\ due \in [Tabs -> SUBSET {"shell", "page", "login", "force", "oidc"}]
  /\ job \in [Jobs -> Busy \cup {Idle}]
  /\ moves \in 0..MaxMoves /\ faults \in 0..MaxFaults
  /\ out \in BOOLEAN /\ late \in BOOLEAN

Init ==
  /\ rec \in Before
  /\ cookie = IF rec = "legacy" THEN "none" ELSE rec
  /\ refused = {}
  /\ path = [t \in Tabs |-> "home"] /\ next = [t \in Tabs |-> ""]
  /\ shell = [t \in Tabs |-> "none"]
  /\ page = [t \in Tabs |-> IF rec = "none" THEN "guest" ELSE rec]
  /\ due = [t \in Tabs |-> {}]
  /\ job = [j \in Jobs |-> Idle]
  /\ moves = 0 /\ faults = 0
  /\ out = FALSE /\ late = FALSE

---------------------------------------------------------------------------
(* Navigation                                                              *)

(* The effects that run when a tab mounts a page.                          *)
EffectsOf(p, mode) ==
  CASE p \in Guarded -> {"shell", "page"}
    [] p = "login"   -> {CASE mode = "reuse" -> "login" [] mode = "sync" -> "oidc" [] OTHER -> "force"}
    [] OTHER         -> {}

(* What a page shows before its effects have run; the home page reads the  *)
(* stored session as it is.                                                *)
Mounted(p, stored) ==
  CASE p = "home" -> IF stored = "none" THEN "guest" ELSE stored
    [] p = "admin" -> "guest"
    [] OTHER -> "checking"

(* The cleanup of an effect: what was asked for a page is not applied to   *)
(* the next one.                                                           *)
Unmounted(jobs, t) ==
  [j \in Jobs |-> IF jobs[j] # Idle /\ jobs[j].tab = t /\ jobs[j].kind \in Checks \cup {"force"}
                  THEN [jobs[j] EXCEPT !.live = FALSE] ELSE jobs[j]]

(* The end of a tab's JavaScript.                                          *)
Ended(jobs, t) ==
  [j \in Jobs |-> IF jobs[j] # Idle /\ jobs[j].tab = t THEN Idle ELSE jobs[j]]

Place(t, p, n, mode, stored) ==
  /\ path' = [path EXCEPT ![t] = p]
  /\ next' = [next EXCEPT ![t] = n]
  /\ page' = [page EXCEPT ![t] = Mounted(p, stored)]
  /\ due' = [due EXCEPT ![t] = EffectsOf(p, mode)]

(* A link or router.replace: the shell stays, and keeps its session on a   *)
(* page that is not public until the next check has answered.              *)
Route(t, p, n, jobs, stored) ==
  /\ Place(t, p, n, "reuse", stored)
  /\ shell' = [shell EXCEPT ![t] = IF p \in Public THEN "none" ELSE @]
  /\ job' = Unmounted(jobs, t)

(* An address or window.location.replace: everything starts anew.          *)
Open(t, p, n, mode, jobs, stored) ==
  /\ Place(t, p, n, mode, stored)
  /\ shell' = [shell EXCEPT ![t] = IF p \in Public THEN "none" ELSE "loading"]
  /\ job' = Ended(jobs, t)

Follow(t, p) ==
  /\ moves < MaxMoves /\ moves' = moves + 1
  /\ path[t] \notin {"provider", p}
  /\ p \in Guarded \cup {"home"}
  /\ Route(t, p, "", job, rec)
  /\ UNCHANGED <<store, faults, out, late>>

Enter(t, p, mode) ==
  /\ moves < MaxMoves /\ moves' = moves + 1
  /\ p # "provider" /\ (mode # "reuse" => p = "login")
  /\ Open(t, p, "", mode, job, rec)
  /\ UNCHANGED <<store, faults, out, late>>

(* A prompt of the gallery leads to the workspace or to the login page.    *)
UsePrompt(t) ==
  /\ moves < MaxMoves /\ moves' = moves + 1
  /\ path[t] = "home"
  /\ IF page[t] = "guest" THEN Route(t, "login", "image", job, rec)
                          ELSE Route(t, "image", "", job, rec)
  /\ UNCHANGED <<store, faults, out, late>>

---------------------------------------------------------------------------
(* Requests                                                                *)

(* The interceptor adds the stored key; without one the cookie counts.     *)
Credential == IF rec = "legacy" THEN "legacy" ELSE cookie

Send(t, k, s, j) ==
  /\ job[j] = Idle
  /\ job' = [job EXCEPT ![j] =
       [at |-> "sent", tab |-> t, kind |-> k, cred |-> Credential, sess |-> s,
        ans |-> "lost", live |-> TRUE]]

UnderWay(t, k) == {j \in Jobs : job[j] # Idle /\ job[j].tab = t /\ job[j].kind = k}

(* An effect of the page sends its first request.                          *)
RunEffect(t, k, j) ==
  /\ k \in due[t]
  /\ due' = [due EXCEPT ![t] = @ \ {k}]
  /\ Send(t, k, "none", j)
  /\ UNCHANGED <<store, path, next, shell, page, moves, faults, out, late>>

(* A request of the page that is shown.                                    *)
AskData(t, j) ==
  /\ path[t] \in Guarded /\ page[t] \in Sess
  /\ UnderWay(t, "data") = {}
  /\ moves < MaxMoves /\ moves' = moves + 1
  /\ Send(t, "data", "none", j)
  /\ UNCHANGED <<store, tabs, faults, out, late>>

(* A change of the profile, by the menu with the shell's copy of the       *)
(* session or by the page with its own.                                    *)
SaveProfile(t, j) ==
  /\ path[t] \in Guarded
  /\ moves < MaxMoves /\ moves' = moves + 1
  /\ \E s \in {shell[t], page[t]} \cap Sess : Send(t, "save", s, j)
  /\ UNCHANGED <<store, tabs, faults, out, late>>

Logout(t, j) ==
  /\ path[t] \in Guarded /\ shell[t] \in Sess
  /\ moves < MaxMoves /\ moves' = moves + 1
  /\ Send(t, "logout", "none", j)
  /\ UNCHANGED <<store, tabs, faults, out, late>>

SubmitAdminKey(t, j) ==
  /\ path[t] = "admin"
  /\ UnderWay(t, "admin") = {}
  /\ moves < MaxMoves /\ moves' = moves + 1
  /\ Send(t, "admin", "none", j)
  /\ UNCHANGED <<store, tabs, faults, out, late>>

(* The server's answer. Logout and the start of a login need no session;   *)
(* the administrator's key may be wrong.                                   *)
Answer(j) ==
  /\ job[j] # Idle /\ job[j].at = "sent"
  /\ \E a \in CASE job[j].kind \in {"logout", "force", "oidc"} -> {"yes"}
                [] job[j].kind = "admin" -> {"yes", "no"}
                [] OTHER -> IF job[j].cred \in Sess \ refused THEN {"yes"} ELSE {"no"} :
       job' = [job EXCEPT ![j].at = "answered", ![j].ans = a]
  /\ UNCHANGED <<store, tabs, moves, faults, out, late>>

Lose(j) ==
  /\ job[j] # Idle /\ job[j].at = "sent"
  /\ faults < MaxFaults /\ faults' = faults + 1
  /\ job' = [job EXCEPT ![j].at = "answered", ![j].ans = "lost"]
  /\ UNCHANGED <<store, tabs, moves, out, late>>

Answered(j, k) == job[j] # Idle /\ job[j].at = "answered" /\ job[j].kind = k
Done(j) == [job EXCEPT ![j] = Idle]

---------------------------------------------------------------------------
(* What follows an answer                                                  *)

(* getValidatedAuthSession: a session that is granted is stored; a keyed   *)
(* one that is not, whatever the reason, is cleared, one of the cookie is  *)
(* left in the store.                                                      *)
Validated(j) ==
  IF job[j].ans = "yes" THEN job[j].cred
  ELSE IF job[j].cred = "legacy" THEN "none" ELSE rec

EndShell(j) ==
  /\ Answered(j, "shell")
  /\ rec' = Validated(j)
  /\ shell' = IF job[j].live
              THEN [shell EXCEPT ![job[j].tab] = IF job[j].ans = "yes" THEN job[j].cred ELSE "none"]
              ELSE shell
  /\ job' = Done(j)
  /\ UNCHANGED <<cookie, refused, path, next, page, due, moves, faults, out, late>>

EndPage(j) ==
  LET t == job[j].tab
      stale == ~job[j].live
      granted == job[j].ans = "yes"
      role == RoleOf(job[j].cred)
  IN /\ Answered(j, "page")
     /\ rec' = Validated(j)
     /\ \/ stale /\ job' = Done(j) /\ UNCHANGED tabs
        \/ /\ ~stale /\ ~granted
           /\ Route(t, "login", normalizePostAuthRedirectPath(path[t]), Done(j), rec')
        \/ /\ ~stale /\ granted /\ role \notin AllowedRoles(path[t])
           /\ Route(t, getDefaultRouteForRole(role), "", Done(j), rec')
        \/ /\ ~stale /\ granted /\ role \in AllowedRoles(path[t])
           /\ page' = [page EXCEPT ![t] = job[j].cred]
           /\ job' = Done(j)
           /\ UNCHANGED <<path, next, shell, due>>
     /\ UNCHANGED <<cookie, refused, moves, faults, out, late>>

(* useRedirectIfAuthenticated on the login page.                           *)
EndLogin(j) ==
  LET t == job[j].tab
  IN /\ Answered(j, "login")
     /\ rec' = Validated(j)
     /\ \/ ~job[j].live /\ job' = Done(j) /\ UNCHANGED tabs
        \/ /\ job[j].live /\ job[j].ans = "yes"
           /\ Route(t, IF next[t] # "" THEN next[t] ELSE getDefaultRouteForRole(RoleOf(job[j].cred)),
                    "", Done(j), rec')
        \/ /\ job[j].live /\ job[j].ans # "yes"
           /\ due' = [due EXCEPT ![t] = {"oidc"}]
           /\ job' = Done(j)
           /\ UNCHANGED <<path, next, shell, page>>
     /\ UNCHANGED <<cookie, refused, moves, faults, out, late>>

(* logoutCurrentSession: the store is cleared whether or not the server    *)
(* answered, the cookie only by its answer.                                *)
MayStillStore(i) ==
  /\ job[i] # Idle /\ job[i].kind \in Checks \cup {"save"}
  /\ \/ job[i].at = "sent" /\ job[i].cred \in Sess \ refused
     \/ job[i].at = "answered" /\ job[i].ans = "yes"

ClearSession(j) ==
  /\ rec' = "none"
  /\ IF job[j].ans = "yes"
     THEN cookie' = "none" /\ out' = TRUE /\ late' = \E i \in Jobs \ {j} : MayStillStore(i)
     ELSE UNCHANGED <<cookie, out, late>>

EndLogout(j) ==
  /\ Answered(j, "logout")
  /\ ClearSession(j)
  /\ job' = [job EXCEPT ![j].at = "leaving"]
  /\ UNCHANGED <<refused, tabs, moves, faults>>

(* After the provider's page had its time, the shell goes home.            *)
Leave(j) ==
  /\ job[j] # Idle /\ job[j].at = "leaving"
  /\ Route(job[j].tab, "home", "", Done(j), rec)
  /\ UNCHANGED <<store, moves, faults, out, late>>

EndForce(j) ==
  /\ Answered(j, "force")
  /\ ClearSession(j)
  /\ due' = IF job[j].live THEN [due EXCEPT ![job[j].tab] = {"oidc"}] ELSE due
  /\ job' = Done(j)
  /\ UNCHANGED <<refused, path, next, shell, page, moves, faults>>

(* The login page leaves for the provider, or shows an error and stays.    *)
EndStartOIDC(j) ==
  LET t == job[j].tab
  IN /\ Answered(j, "oidc")
     /\ IF job[j].ans = "yes"
        THEN /\ path' = [path EXCEPT ![t] = "provider"]
             /\ page' = [page EXCEPT ![t] = "guest"]
             /\ due' = [due EXCEPT ![t] = {}]
             /\ job' = Ended(job, t)
             /\ UNCHANGED <<next, shell>>
        ELSE /\ page' = IF path[t] = "login" THEN [page EXCEPT ![t] = "stuck"] ELSE page
             /\ job' = Done(j)
             /\ UNCHANGED <<path, next, shell, due>>
     /\ UNCHANGED <<store, moves, faults, out, late>>

(* The provider sends the user back, with a cookie, to where the login was *)
(* to lead.                                                                *)
ReturnFromProvider(t) ==
  /\ path[t] = "provider"
  /\ moves < MaxMoves /\ moves' = moves + 1
  /\ cookie' = "user" /\ out' = FALSE
  /\ Open(t, IF next[t] # "" THEN next[t] ELSE "image", "", "reuse", job, rec)
  /\ UNCHANGED <<rec, refused, faults, late>>

EndAdmin(j) ==
  /\ Answered(j, "admin")
  /\ IF job[j].ans = "yes"
     THEN /\ cookie' = "admin" /\ rec' = "admin" /\ out' = FALSE
          /\ Route(job[j].tab, "manager", "", Done(j), "admin")
     ELSE job' = Done(j) /\ UNCHANGED <<cookie, rec, out, tabs>>
  /\ UNCHANGED <<refused, moves, faults, late>>

(* The interceptor: a refused request clears the store and the tab starts  *)
(* again at the login page, unless it is there; its caller never goes on.  *)
EndData(j) ==
  LET t == job[j].tab
  IN /\ Answered(j, "data")
     /\ IF job[j].ans = "no" /\ path[t] # "login"
        THEN rec' = "none" /\ Open(t, "login", "", "reuse", job, "none")
        ELSE job' = Done(j) /\ UNCHANGED <<rec, tabs>>
     /\ UNCHANGED <<cookie, refused, moves, faults, out, late>>

\* Mutant of EndSave: stored although the server refused.
StoreAnyway(j) ==
  /\ Answered(j, "save")
  /\ rec' = job[j].sess
  /\ job' = Done(j)
  /\ UNCHANGED <<cookie, refused, tabs, moves, faults, out, late>>

(* A saved profile is stored with the copy of the session it was made      *)
(* from.                                                                   *)
EndSave(j) ==
  /\ Answered(j, "save")
  /\ rec' = IF job[j].ans = "yes" THEN job[j].sess ELSE rec
  /\ job' = Done(j)
  /\ UNCHANGED <<cookie, refused, tabs, moves, faults, out, late>>

(* An account is disabled or deleted, or a session expires.                *)
Refuse(s) ==
  /\ s \in Sess \ refused
  /\ faults < MaxFaults /\ faults' = faults + 1
  /\ refused' = refused \cup {s}
  /\ UNCHANGED <<cookie, rec, tabs, job, moves, out, late>>

---------------------------------------------------------------------------
GoOn(j) ==
  \/ Answer(j) \/ EndShell(j) \/ EndPage(j) \/ EndLogin(j) \/ EndLogout(j) \/ Leave(j)
  \/ EndForce(j) \/ EndStartOIDC(j) \/ EndAdmin(j) \/ EndData(j) \/ EndSave(j)

Effects(t) == \E k \in Kinds, j \in Jobs : RunEffect(t, k, j)

Next ==
  \/ \E j \in Jobs : GoOn(j) \/ Lose(j)
  \/ \E t \in Tabs :
       \/ Effects(t) \/ UsePrompt(t) \/ ReturnFromProvider(t)
       \/ \E p \in Paths : Follow(t, p) \/ \E m \in Modes : Enter(t, p, m)
       \/ \E j \in Jobs : AskData(t, j) \/ SaveProfile(t, j) \/ Logout(t, j) \/ SubmitAdminKey(t, j)
  \/ \E s \in Sess : Refuse(s)

Spec == Init /\ [][Next]_vars

(* A request is answered or fails, what waits for it goes on, and effects  *)
(* run. Nothing the user does is fair, nor a failure.                      *)
Fairness ==
  /\ \A j \in Jobs : WF_vars(GoOn(j))
  /\ \A t \in Tabs : WF_vars(Effects(t))

FairSpec == Spec /\ Fairness

---------------------------------------------------------------------------
(* After a logout that the server answered no session is stored until the  *)
(* next login, whatever the tabs and their copies still do, unless a       *)
(* request that would store one was under way when the store was cleared   *)
(* (logoutCurrentSession, auth-session.ts:145).                            *)
LogoutSticks == out /\ ~late => rec = "none"

(* Guards, redirects and the interceptor do not chase a tab from page to   *)
(* page, and no check hangs: a tab comes to rest on a public page, at the  *)
(* provider, on a page its session may see, or before an error of the      *)
(* login page.                                                             *)
AtRest(t) ==
  \/ path[t] \in {"home", "admin", "provider"}
  \/ path[t] = "login" /\ page[t] = "stuck"
  \/ path[t] \in Guarded /\ page[t] \in Sess /\ RoleOf(page[t]) \in AllowedRoles(path[t])

ComesToRest == \A t \in Tabs : <>[]AtRest(t)
=============================================================================
