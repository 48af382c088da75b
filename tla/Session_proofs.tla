--------------------------- MODULE Session_proofs ---------------------------
(***************************************************************************)
(* Proofs about the sessions of a browser, for any number of tabs and of   *)
(* requests under way, and for any number of moves and failures: after a   *)
(* logout nothing stores a session before the next login; and of the       *)
(* profile that its menus work on: what they show and what is saved.       *)
(***************************************************************************)
EXTENDS BrowserSession, TLAPS

USE SessionAssumption DEF SessionAssumption

(* What the argument needs of the types: the requests' fields, and the     *)
(* sessions that are kept.                                                 *)
JobsOK == job \in [Jobs -> Busy \cup {Idle}]
KeptOK == rec \in Sess \cup {"none"} /\ cookie \in Sess \cup {"none"}

(* While nobody is logged in, neither the cookie nor a request under way   *)
(* can bring a session back.                                               *)
NothingLeft == cookie = "none" /\ rec = "none" /\ \A j \in Jobs : ~MayStillStore(j)

(* The strengthening: requests are sent without a credential, and those    *)
(* sent before were refused or had ended.                                  *)
StaysOut == out /\ ~late => NothingLeft

Inv == JobsOK /\ KeptOK /\ StaysOut

---------------------------------------------------------------------------
(* Types *)

\* A request that is under way has all its fields.
LEMMA BusyJob ==
  ASSUME JobsOK, NEW j \in Jobs, job[j] # Idle
  PROVE  job[j] \in Busy
BY DEF JobsOK

(* Requests end, or their page does not wait any more; none is new.        *)
Fewer(f) ==
  /\ f \in [Jobs -> Busy \cup {Idle}]
  /\ \A i \in Jobs : \/ f[i] \in {job[i], Idle}
                     \/ job[i] # Idle /\ f[i] = [job[i] EXCEPT !.live = FALSE]

\* What is left of the requests after one of them, a page or a tab ended.
LEMMA FewerJobs ==
  ASSUME JobsOK, NEW t \in Tabs, NEW j \in Jobs
  PROVE  /\ Fewer(job) /\ Fewer(Done(j))
         /\ Fewer(Unmounted(job, t)) /\ Fewer(Unmounted(Done(j), t))
         /\ Fewer(Ended(job, t)) /\ Fewer(Ended(Done(j), t))
<1>1. \A i \in Jobs : job[i] # Idle => [job[i] EXCEPT !.live = FALSE] \in Busy
  BY DEF JobsOK, Busy
<1>2. Fewer(job) BY DEF JobsOK, Fewer
<1>3. Fewer(Done(j)) BY DEF JobsOK, Fewer, Done
<1>4. ASSUME NEW f, Fewer(f) PROVE Fewer(Unmounted(f, t)) /\ Fewer(Ended(f, t))
  <2>1. f \in [Jobs -> Busy \cup {Idle}] BY <1>4 DEF Fewer
  <2>2. ASSUME NEW i \in Jobs, f[i] # Idle
        PROVE  [f[i] EXCEPT !.live = FALSE] = [job[i] EXCEPT !.live = FALSE] /\ job[i] # Idle
    <3>1. CASE f[i] = job[i] BY <2>2, <3>1
    <3>2. CASE job[i] # Idle /\ f[i] = [job[i] EXCEPT !.live = FALSE]
      <4>1. job[i] \in Busy BY <3>2, BusyJob
      <4> QED BY <3>2, <4>1 DEF Busy
    <3> QED BY <1>4, <2>2, <3>1, <3>2 DEF Fewer
  <2>3. Unmounted(f, t) \in [Jobs -> Busy \cup {Idle}] BY <1>1, <2>1, <2>2 DEF Unmounted
  <2>4. Ended(f, t) \in [Jobs -> Busy \cup {Idle}] BY <2>1 DEF Ended
  <2>5. Fewer(Unmounted(f, t)) BY <1>4, <2>2, <2>3 DEF Fewer, Unmounted
  <2>6. Fewer(Ended(f, t)) BY <1>4, <2>4 DEF Fewer, Ended
  <2> QED BY <2>5, <2>6
<1>5. QED BY <1>2, <1>3, <1>4

\* Nothing that could bring a session back comes of requests that end.
LEMMA FewerStayOut ==
  ASSUME JobsOK, Fewer(job'), refused' = refused, \A i \in Jobs : ~MayStillStore(i)
  PROVE  \A i \in Jobs : ~MayStillStore(i)'
<1> SUFFICES ASSUME NEW i \in Jobs PROVE ~MayStillStore(i)' OBVIOUS
<1>1. CASE job'[i] \in {job[i], Idle} BY <1>1 DEF MayStillStore
<1>2. CASE job[i] # Idle /\ job'[i] = [job[i] EXCEPT !.live = FALSE]
  <2>1. job[i] \in Busy BY <1>2, BusyJob
  <2> QED BY <1>2, <2>1 DEF MayStillStore, Busy
<1> QED BY <1>1, <1>2 DEF Fewer

---------------------------------------------------------------------------
(* Steps                                                                   *)

(* A step that only ends requests and brings no session in.                *)
Quiet == /\ Fewer(job') /\ refused' = refused
         /\ out' = out /\ late' = late /\ KeptOK'
         /\ StaysOut /\ out /\ ~late => cookie' = "none" /\ rec' = "none"

\* A quiet step keeps the invariant.
LEMMA QuietStep == ASSUME Inv, Quiet PROVE Inv'
<1>1. JobsOK' BY DEF Quiet, Fewer, JobsOK
<1>2. StaysOut' BY FewerStayOut DEF Inv, Quiet, StaysOut, NothingLeft
<1> QED BY <1>1, <1>2 DEF Inv, Quiet

\* What the user does by links, addresses and prompts brings nothing back.
LEMMA MovesAreQuiet ==
  ASSUME Inv, NEW t \in Tabs,
         \/ UsePrompt(t)
         \/ \E p \in Paths : Follow(t, p) \/ \E m \in Modes : Enter(t, p, m)
  PROVE  Quiet
<1>0. JobsOK BY DEF Inv
<1>1. Fewer(job') 
  <2>1. \A j \in Jobs : Fewer(Unmounted(job, t)) /\ Fewer(Ended(job, t)) BY <1>0, FewerJobs
  <2>2. job' = Unmounted(job, t) \/ job' = Ended(job, t)
    BY DEF UsePrompt, Follow, Enter, Route, Open
  <2>3. CASE Jobs = {} BY <2>2, <2>3, <1>0 DEF Fewer, JobsOK, Unmounted, Ended
  <2> QED BY <2>1, <2>2, <2>3
<1>2. UNCHANGED <<store, out, late>> BY DEF UsePrompt, Follow, Enter
<1> QED BY <1>1, <1>2 DEF Quiet, store, Inv, KeptOK, StaysOut, NothingLeft

\* A request that is sent while nobody is logged in carries no session.
LEMMA SendKeeps ==
  ASSUME Inv, NEW t \in Tabs, NEW k \in Kinds, NEW s \in Sess \cup {"none"}, NEW j \in Jobs,
         Send(t, k, s, j), UNCHANGED <<store, out, late>>
  PROVE  Inv'
<1> DEFINE b == [at |-> "sent", tab |-> t, kind |-> k, cred |-> Credential, sess |-> s,
                 ans |-> "lost", live |-> TRUE]
<1>1. b \in Busy BY DEF Busy, Credential, Sess, Inv, KeptOK
<1>2. job' = [job EXCEPT ![j] = b] BY DEF Send
<1> HIDE DEF b
<1>3. JobsOK' BY <1>1, <1>2 DEF Inv, JobsOK
<1>4. ASSUME out, ~late PROVE NothingLeft'
  <2>1. NothingLeft BY <1>4 DEF Inv, StaysOut
  <2>2. b.cred = "none" /\ b.at = "sent" BY <2>1 DEF b, Credential, NothingLeft
  <2>3. ~MayStillStore(j)' BY <1>2, <2>2 DEF MayStillStore, Inv, JobsOK, Sess
  <2>4. \A i \in Jobs \ {j} : ~MayStillStore(i)'
    BY <1>2, <2>1 DEF MayStillStore, Inv, JobsOK, NothingLeft, store
  <2> QED BY <2>1, <2>3, <2>4 DEF NothingLeft, store
<1> QED BY <1>3, <1>4 DEF Inv, KeptOK, StaysOut, store

\* The answer to a request, or its loss: only a session that is accepted is
\* granted.
LEMMA AnswerKeeps ==
  ASSUME Inv, NEW j \in Jobs, Answer(j) \/ Lose(j)
  PROVE  Inv'
<1>1. job[j] \in Busy /\ job[j].at = "sent" BY BusyJob DEF Inv, Answer, Lose
<1>2. PICK a \in {"yes", "no", "lost"} :
        /\ job' = [job EXCEPT ![j].at = "answered", ![j].ans = a]
        /\ a = "yes" /\ job[j].kind \in Checks \cup {"save"} => job[j].cred \in Sess \ refused
  BY DEF Answer, Lose, Checks
<1>3. UNCHANGED <<store, out, late>> BY DEF Answer, Lose
<1> DEFINE b == [job[j] EXCEPT !.at = "answered", !.ans = a]
<1>4. b \in Busy BY <1>1 DEF Busy
<1>5. job' = [job EXCEPT ![j] = b] BY <1>2
<1>6. JobsOK' BY <1>4, <1>5 DEF Inv, JobsOK
<1>7. ASSUME NEW i \in Jobs, ~MayStillStore(i) PROVE ~MayStillStore(i)'
  <2>1. CASE i # j BY <1>3, <1>5, <1>7, <2>1 DEF MayStillStore, Inv, JobsOK, store
  <2>2. CASE i = j
    <3>1. job'[j] = b BY <1>5 DEF Inv, JobsOK
    <3>2. job[j] # Idle BY DEF Answer, Lose
    <3>3. b.kind = job[j].kind /\ b.at = "answered" /\ b.ans = a BY <1>1 DEF Busy
    <3> HIDE DEF b
    <3>4. ~(a = "yes" /\ job[j].kind \in Checks \cup {"save"})
      BY <1>1, <1>2, <1>7, <2>2, <3>2 DEF MayStillStore
    <3> QED BY <2>2, <3>1, <3>3, <3>4 DEF MayStillStore
  <2> QED BY <2>1, <2>2
<1> QED BY <1>3, <1>6, <1>7 DEF Inv, KeptOK, StaysOut, NothingLeft, store

\* An answer that grants a session was under way: nobody had logged out.
LEMMA GrantedWasUnderWay ==
  ASSUME Inv, NEW j \in Jobs, NEW k \in Checks \cup {"save"}, Answered(j, k), job[j].ans = "yes"
  PROVE  ~(out /\ ~late)
BY DEF Inv, StaysOut, NothingLeft, MayStillStore, Answered

\* What a check leaves in the store.
LEMMA ValidatedKeeps ==
  ASSUME Inv, NEW j \in Jobs, NEW k \in Checks, Answered(j, k), rec' = Validated(j)
  PROVE  rec' \in Sess \cup {"none"} /\ (out /\ ~late => rec' = "none")
<1>1. job[j] \in Busy BY BusyJob DEF Inv, Answered
<1>2. CASE job[j].ans = "yes"
  BY <1>1, <1>2, GrantedWasUnderWay DEF Validated, Busy
<1>3. CASE job[j].ans # "yes"
  BY <1>3 DEF Validated, Inv, KeptOK, StaysOut, NothingLeft
<1> QED BY <1>2, <1>3

\* The checks of the shell, of a page and of the login page.
LEMMA ChecksAreQuiet ==
  ASSUME Inv, NEW j \in Jobs, EndShell(j) \/ EndPage(j) \/ EndLogin(j)
  PROVE  Quiet
<1>0. JobsOK BY DEF Inv
<1>1. job[j] # Idle BY DEF EndShell, EndPage, EndLogin, Answered
<1>2. job[j].tab \in Tabs BY <1>0, <1>1, BusyJob DEF Busy
<1>3. job' = Done(j) \/ job' = Unmounted(Done(j), job[j].tab)
  BY DEF EndShell, EndPage, EndLogin, Route
<1>4. Fewer(job') BY <1>0, <1>2, <1>3, FewerJobs
<1>5. PICK k \in Checks : Answered(j, k) /\ rec' = Validated(j)
  BY DEF EndShell, EndPage, EndLogin, Checks
<1>6. rec' \in Sess \cup {"none"} /\ (out /\ ~late => rec' = "none") BY <1>5, ValidatedKeeps
<1>7. UNCHANGED <<cookie, refused, out, late>> BY DEF EndShell, EndPage, EndLogin
<1> QED BY <1>4, <1>6, <1>7 DEF Quiet, Inv, KeptOK, StaysOut, NothingLeft

\* Logout clears the store; a login that starts anew does, too.
LEMMA LogoutKeeps ==
  ASSUME Inv, NEW j \in Jobs, EndLogout(j) \/ EndForce(j)
  PROVE  Inv'
<1>0. JobsOK /\ job[j] # Idle BY DEF Inv, EndLogout, EndForce, Answered
<1>1. job[j] \in Busy BY <1>0, BusyJob
<1> DEFINE b == [job[j] EXCEPT !.at = "leaving"]
<1>2. b \in Busy BY <1>1 DEF Busy
<1>3. /\ ClearSession(j) /\ refused' = refused
      /\ job' = [job EXCEPT ![j] = b] \/ job' = [job EXCEPT ![j] = Idle]
  BY DEF EndLogout, EndForce, Done
<1>4. ~MayStillStore(j)
  BY DEF EndLogout, EndForce, Answered, MayStillStore, Checks
<1>5. b.at = "leaving" BY <1>1 DEF Busy
<1> HIDE DEF b
<1>6. JobsOK' BY <1>0, <1>2, <1>3 DEF JobsOK
<1>7. ~MayStillStore(j)' BY <1>0, <1>3, <1>5 DEF MayStillStore, JobsOK
<1>8. \A i \in Jobs \ {j} : MayStillStore(i)' <=> MayStillStore(i)
  BY <1>0, <1>3 DEF MayStillStore, JobsOK
<1>9. CASE job[j].ans = "yes"
  BY <1>3, <1>6, <1>7, <1>8, <1>9 DEF ClearSession, Inv, KeptOK, StaysOut, NothingLeft
<1>10. CASE job[j].ans # "yes"
  BY <1>3, <1>6, <1>7, <1>8, <1>10 DEF ClearSession, Inv, KeptOK, StaysOut, NothingLeft
<1> QED BY <1>9, <1>10

\* The end of every other request, but an administrator's login.
LEMMA EndsAreQuiet ==
  ASSUME Inv, NEW j \in Jobs, Leave(j) \/ EndStartOIDC(j) \/ EndData(j) \/ EndSave(j)
  PROVE  Quiet
<1>0. JobsOK /\ job[j] # Idle
  BY DEF Inv, Leave, EndStartOIDC, EndData, EndSave, Answered
<1>1. job[j] \in Busy BY <1>0, BusyJob
<1>2. job[j].tab \in Tabs BY <1>1 DEF Busy
<1>3. job' \in {Done(j), Ended(job, job[j].tab), Unmounted(Done(j), job[j].tab)}
  BY DEF Leave, EndStartOIDC, EndData, EndSave, Route, Open
<1>4. Fewer(job') BY <1>0, <1>2, <1>3, FewerJobs
<1>5. UNCHANGED <<cookie, refused, out, late>>
  BY DEF Leave, EndStartOIDC, EndData, EndSave, store
<1>6. rec' \in Sess \cup {"none"} /\ (out /\ ~late => rec' = "none")
  <2>1. CASE EndSave(j)
    <3>1. job[j].ans = "yes" => ~(out /\ ~late) BY <2>1, GrantedWasUnderWay DEF EndSave
    <3> QED BY <1>1, <2>1, <3>1 DEF EndSave, Busy, Inv, KeptOK, StaysOut, NothingLeft
  <2>2. CASE Leave(j) \/ EndStartOIDC(j) \/ EndData(j)
    BY <2>2 DEF Leave, EndStartOIDC, EndData, store, Inv, KeptOK, StaysOut, NothingLeft
  <2> QED BY <2>1, <2>2
<1> QED BY <1>4, <1>5, <1>6 DEF Quiet, Inv, KeptOK, StaysOut, NothingLeft

\* A login: somebody is logged in again, or the key was wrong.
LEMMA LoginKeeps ==
  ASSUME Inv, (\E j \in Jobs : EndAdmin(j)) \/ (\E t \in Tabs : ReturnFromProvider(t))
  PROVE  Inv'
<1>0. JobsOK BY DEF Inv
<1>1. CASE \E j \in Jobs : EndAdmin(j)
  <2>1. PICK j \in Jobs : EndAdmin(j) BY <1>1
  <2>2. job[j] # Idle BY <2>1 DEF EndAdmin, Answered
  <2>3. job[j].tab \in Tabs BY <1>0, <2>2, BusyJob DEF Busy
  <2>4. CASE job[j].ans = "yes"
    <3>1. job' = Unmounted(Done(j), job[j].tab) BY <2>1, <2>4 DEF EndAdmin, Route
    <3>2. Fewer(job') BY <1>0, <2>3, <3>1, FewerJobs
    <3> QED BY <2>1, <2>4, <3>2 DEF EndAdmin, Inv, JobsOK, Fewer, KeptOK, StaysOut, Sess
  <2>5. CASE job[j].ans # "yes"
    <3>1. Fewer(job') BY <1>0, <2>1, <2>3, <2>5, FewerJobs DEF EndAdmin
    <3>2. Quiet
      BY <2>1, <2>5, <3>1 DEF EndAdmin, Quiet, Inv, KeptOK, StaysOut, NothingLeft
    <3> QED BY <3>2, QuietStep
  <2> QED BY <2>4, <2>5
<1>2. CASE \E t \in Tabs : ReturnFromProvider(t)
  <2>1. PICK t \in Tabs : ReturnFromProvider(t) BY <1>2
  <2>2. job' = Ended(job, t) BY <2>1 DEF ReturnFromProvider, Open
  <2>3. JobsOK' BY <1>0, <2>2 DEF JobsOK, Ended
  <2> QED BY <2>1, <2>3 DEF ReturnFromProvider, Inv, KeptOK, StaysOut, Sess
<1> QED BY <1>1, <1>2

\* An account that is disabled makes no request store anything.
LEMMA RefuseKeeps ==
  ASSUME Inv, NEW s \in Sess, Refuse(s)
  PROVE  Inv'
<1>1. \A i \in Jobs : ~MayStillStore(i) => ~MayStillStore(i)' BY DEF Refuse, MayStillStore
<1> QED BY <1>1 DEF Refuse, Inv, JobsOK, KeptOK, StaysOut, NothingLeft

\* Every request a tab sends.
LEMMA SentKeeps ==
  ASSUME Inv, NEW t \in Tabs, NEW j \in Jobs,
         \/ \E k \in Kinds : RunEffect(t, k, j)
         \/ AskData(t, j) \/ SaveProfile(t, j) \/ Logout(t, j) \/ SubmitAdminKey(t, j)
  PROVE  Inv'
<1>1. PICK k \in Kinds, s \in Sess \cup {"none"} : Send(t, k, s, j)
  BY DEF RunEffect, AskData, SaveProfile, Logout, SubmitAdminKey, Kinds
<1>2. UNCHANGED <<store, out, late>>
  BY DEF RunEffect, AskData, SaveProfile, Logout, SubmitAdminKey
<1> QED BY <1>1, <1>2, SendKeeps

---------------------------------------------------------------------------
\* After a logout that the server answered, no session is stored before the
\* next login, whatever any number of tabs do with their copies and however
\* the requests end, unless one was under way that stores a session
\* (logoutCurrentSession, auth-session.ts:145).
THEOREM LogoutAlwaysSticks == Spec => []LogoutSticks
<1>1. Init => Inv
  BY DEF Init, Inv, JobsOK, KeptOK, StaysOut, NothingLeft, MayStillStore, Sess
<1>2. Inv /\ [Next]_vars => Inv'
  <2> SUFFICES ASSUME Inv, [Next]_vars PROVE Inv' OBVIOUS
  <2>1. ASSUME NEW j \in Jobs, GoOn(j) PROVE Inv'
    <3>1. CASE Answer(j) BY <3>1, AnswerKeeps
    <3>2. CASE EndShell(j) \/ EndPage(j) \/ EndLogin(j) BY <3>2, ChecksAreQuiet, QuietStep
    <3>3. CASE EndLogout(j) \/ EndForce(j) BY <3>3, LogoutKeeps
    <3>4. CASE Leave(j) \/ EndStartOIDC(j) \/ EndData(j) \/ EndSave(j)
      BY <3>4, EndsAreQuiet, QuietStep
    <3>5. CASE EndAdmin(j) BY <3>5, LoginKeeps
    <3> QED BY <2>1, <3>1, <3>2, <3>3, <3>4, <3>5 DEF GoOn
  <2>2. ASSUME NEW j \in Jobs, Lose(j) PROVE Inv' BY <2>2, AnswerKeeps
  <2>3. ASSUME NEW t \in Tabs, Effects(t) PROVE Inv' BY <2>3, SentKeeps DEF Effects
  <2>4. ASSUME NEW t \in Tabs,
               UsePrompt(t) \/ \E p \in Paths : Follow(t, p) \/ \E m \in Modes : Enter(t, p, m)
        PROVE  Inv'
    BY <2>4, MovesAreQuiet, QuietStep
  <2>5. ASSUME NEW t \in Tabs, ReturnFromProvider(t) PROVE Inv' BY <2>5, LoginKeeps
  <2>6. ASSUME NEW t \in Tabs, NEW j \in Jobs,
               AskData(t, j) \/ SaveProfile(t, j) \/ Logout(t, j) \/ SubmitAdminKey(t, j)
        PROVE  Inv'
    BY <2>6, SentKeeps
  <2>7. ASSUME NEW s \in Sess, Refuse(s) PROVE Inv' BY <2>7, RefuseKeeps
  <2>8. CASE UNCHANGED vars
    BY <2>8 DEF vars, store, Inv, JobsOK, KeptOK, StaysOut, NothingLeft, MayStillStore
  <2> QED BY <2>1, <2>2, <2>3, <2>4, <2>5, <2>6, <2>7, <2>8 DEF Next
<1>3. Inv => LogoutSticks BY DEF Inv, StaysOut, NothingLeft, LogoutSticks
<1> QED BY <1>1, <1>2, <1>3, PTL DEF Spec

---------------------------------------------------------------------------
(* The profile *)

HIDE SessionAssumption DEF SessionAssumption

(* The records the menus work on.                                          *)
ProfilesOK ==
  /\ account \in Profiles!Profiles /\ session \in [Menus -> Profiles!Profiles]
  /\ shown \in [Menus -> Themes] /\ ratio \in Ratios
  /\ view \in [Menus -> Profiles!Views]
  /\ request \in [Requests -> Profiles!Busy \cup {Profiles!Idle}]
  /\ faults \in Nat

(* What a request to change the providers leaves out: nothing that its     *)
(* copy has a key of, but what it deletes.                                 *)
SendsKeys(q) ==
  q.kind \in {"save", "list"} =>
    \A p \in q.base.providers.keyed : p = q.gone \/ p \in q.body.providers.keyed

KeysInv == \A r \in Requests : request[r] # Profiles!Idle => SendsKeys(request[r])

(* A menu that shows another theme than its session has asked for it, and  *)
(* the answer will have it.                                                *)
AsksFor(q, m, v) ==
  /\ q.menu = m /\ q.kind = "preferences" /\ q.at \in {"sent", "done"}
  /\ q.body.preferences.theme = v
  /\ q.at = "done" => q.answer.preferences.theme = v

Asked(m) ==
  \/ shown[m] = session[m].preferences.theme
  \/ \E r \in Requests : request[r] # Profiles!Idle /\ AsksFor(request[r], m, shown[m])

ThemesInv ==
  faults = 0 =>
    /\ \A r \in Requests : request[r] # Profiles!Idle => request[r].at # "failed"
    /\ \A m \in Menus : Asked(m)

ProfileInv == ProfilesOK /\ KeysInv /\ ThemesInv

\* What a menu shows of its providers are providers, with all its keys.
LEMMA DraftsOK ==
  ASSUME ProfilesOK, NEW m \in Menus
  PROVE  /\ Profiles!Draft(m) \in Profiles!Providers
         /\ session[m].providers.keyed \subseteq Profiles!Draft(m).keyed
         /\ session[m] \in Profiles!Profiles
<1>1. session[m] \in Profiles!Profiles BY DEF ProfilesOK
<1>2. session[m].providers \in Profiles!Providers BY <1>1 DEF Profiles!Profiles
<1>3. PICK p : p = session[m].providers OBVIOUS
<1>4. Profiles!createHappyTokenProvider(p) \subseteq {Profiles!HappyToken}
  BY DEF Profiles!createHappyTokenProvider
<1>5. Profiles!getSessionModelProviders(p) \in Profiles!Providers
      /\ p.keyed \subseteq Profiles!getSessionModelProviders(p).keyed
  BY <1>2, <1>3, <1>4 DEF Profiles!getSessionModelProviders, Profiles!Providers, Profiles!Ids
<1> QED BY <1>1, <1>3, <1>5 DEF Profiles!Draft

\* A request that is sent is added to the others.
LEMMA SendProfile ==
  ASSUME ProfileInv, NEW r \in Requests, NEW m \in Menus, NEW kind \in Profiles!Kinds,
         NEW body \in Profiles!Profiles, NEW keys \in SUBSET Profiles!Ids,
         NEW gone \in Profiles!Ids \cup {Profiles!None},
         Profiles!Send(r, m, kind, body, keys, gone)
  PROVE  \E q \in Profiles!Busy :
           /\ q.at = "sent" /\ q.menu = m /\ q.kind = kind /\ q.base = session[m]
           /\ q.body = body /\ q.gone = gone
           /\ request[r] = Profiles!Idle /\ request' = [request EXCEPT ![r] = q]
           /\ q # Profiles!Idle
<1>1. PICK q : q = [at |-> "sent", menu |-> m, kind |-> kind, base |-> session[m], body |-> body,
                    keys |-> keys, gone |-> gone, answer |-> account]
  OBVIOUS
<1>2. q \in Profiles!Busy
  BY <1>1, DraftsOK DEF Profiles!Busy, ProfileInv, ProfilesOK
<1>3. q # Profiles!Idle
  BY <1>1 DEF Profiles!Idle
<1> QED BY <1>1, <1>2, <1>3 DEF Profiles!Send

\* A request of a menu that shows what it did keeps all, if it sends the keys.
LEMMA SendKeepsProfile ==
  ASSUME ProfileInv, NEW r \in Requests, NEW q \in Profiles!Busy, q # Profiles!Idle, q.at = "sent",
         request[r] = Profiles!Idle, request' = [request EXCEPT ![r] = q], SendsKeys(q),
         UNCHANGED <<account, session, shown, view, ratio, faults>>
  PROVE  ProfileInv'
<1>1. ProfilesOK' BY DEF ProfileInv, ProfilesOK
<1>2. DOMAIN request = Requests BY DEF ProfileInv, ProfilesOK
<1>3. KeysInv' BY <1>2 DEF ProfileInv, KeysInv
<1>4. ASSUME NEW m \in Menus, Asked(m) PROVE Asked(m)'
  BY <1>2, <1>4 DEF Asked
<1>5. ThemesInv' BY <1>2, <1>4 DEF ProfileInv, ThemesInv
<1> QED BY <1>1, <1>3, <1>5 DEF ProfileInv

\* A change of the theme is shown at once, and asked for.
LEMMA ThemeChangeStep ==
  ASSUME ProfileInv, NEW r \in Requests, NEW m \in Menus, NEW v \in Themes,
         Profiles!handleThemeChange(m, r, v)
  PROVE  ProfileInv'
<1>1. PICK body : body = Profiles!WithPreferences(m, [Profiles!Of(m) EXCEPT !.theme = v])
  OBVIOUS
<1>2. body \in Profiles!Profiles /\ body.preferences.theme = v
  BY <1>1, DraftsOK DEF ProfileInv, Profiles!WithPreferences, Profiles!Of, Profiles!Profiles, Profiles!Preferences
<1>3. /\ Profiles!Send(r, m, "preferences", body, {}, Profiles!None) /\ shown' = [shown EXCEPT ![m] = v]
      /\ UNCHANGED <<account, session, view, ratio, faults>>
  BY <1>1 DEF Profiles!handleThemeChange
<1>4. PICK q \in Profiles!Busy :
        /\ q.at = "sent" /\ q.menu = m /\ q.kind = "preferences" /\ q.body = body
        /\ request[r] = Profiles!Idle /\ request' = [request EXCEPT ![r] = q] /\ q # Profiles!Idle
  BY <1>2, <1>3, SendProfile DEF Profiles!Kinds
<1>5. DOMAIN request = Requests /\ DOMAIN shown = Menus BY DEF ProfileInv, ProfilesOK
<1>6. ProfilesOK' BY <1>3, <1>4 DEF ProfileInv, ProfilesOK
<1>7. KeysInv' BY <1>4, <1>5 DEF ProfileInv, KeysInv, SendsKeys
<1>8. ASSUME NEW n \in Menus, Asked(n) PROVE Asked(n)'
  <2>1. CASE n = m
    <3>1. AsksFor(q, m, v) BY <1>2, <1>4 DEF AsksFor
    <3>2. request'[r] = q /\ shown'[m] = v BY <1>3, <1>4, <1>5
    <3> QED BY <1>4, <2>1, <3>1, <3>2 DEF Asked, AsksFor
  <2>2. CASE n # m
    BY <1>3, <1>4, <1>5, <1>8, <2>2 DEF Asked
  <2> QED BY <2>1, <2>2
<1>9. ThemesInv' BY <1>3, <1>4, <1>5, <1>8 DEF ProfileInv, ThemesInv
<1> QED BY <1>6, <1>7, <1>9 DEF ProfileInv

\* A list of providers that has all its copy's keys, but the deleted one's.
LEMMA ListStep ==
  ASSUME ProfileInv, NEW r \in Requests, NEW m \in Menus, NEW kind \in {"save", "list"},
         NEW list \in Profiles!Providers, NEW keys \in SUBSET Profiles!Ids,
         NEW gone \in Profiles!Ids \cup {Profiles!None},
         \A p \in session[m].providers.keyed : p = gone \/ p \in list.keyed,
         Profiles!syncProviderSession(r, m, kind, list, keys, gone)
  PROVE  ProfileInv'
<1>1. PICK body : body = Profiles!WithProviders(m, list)
  OBVIOUS
<1>2. body \in Profiles!Profiles /\ body.providers = list
  BY <1>1, DraftsOK DEF ProfileInv, Profiles!WithProviders, Profiles!Of, Profiles!Profiles
<1>3. /\ Profiles!Send(r, m, kind, body, keys, gone)
      /\ UNCHANGED <<account, session, shown, view, ratio, faults>>
  BY <1>1 DEF Profiles!syncProviderSession
<1>4. PICK q \in Profiles!Busy :
        /\ q.at = "sent" /\ q.menu = m /\ q.kind = kind /\ q.base = session[m]
        /\ q.body = body /\ q.gone = gone
        /\ request[r] = Profiles!Idle /\ request' = [request EXCEPT ![r] = q] /\ q # Profiles!Idle
  BY <1>2, <1>3, SendProfile DEF Profiles!Kinds
<1>5. SendsKeys(q)
  BY <1>2, <1>4 DEF SendsKeys
<1> QED BY <1>3, <1>4, <1>5, SendKeepsProfile

\* A list that has lost its selected provider has the same keys.
LEMMA Ensured ==
  ASSUME NEW p \in Profiles!Providers
  PROVE  /\ Profiles!ensureSelectedProvider(p) \in Profiles!Providers
         /\ Profiles!ensureSelectedProvider(p).keyed = p.keyed
BY DEF Profiles!ensureSelectedProvider, Profiles!Providers, Profiles!Ids

\* What the menus send about the providers.
LEMMA ProviderSteps ==
  ASSUME ProfileInv, NEW r \in Requests, NEW m \in Menus,
         \/ Profiles!handleSaveProvider(m, r)
         \/ \E p \in Profiles!Ids : Profiles!handleSelectProvider(m, r, p) \/ Profiles!handleDeleteProvider(m, r, p)
  PROVE  ProfileInv'
<1>1. /\ Profiles!Draft(m) \in Profiles!Providers
      /\ session[m].providers.keyed \subseteq Profiles!Draft(m).keyed
  BY DraftsOK DEF ProfileInv
<1>2. PICK d : d = Profiles!Draft(m)
  OBVIOUS
<1>3. CASE Profiles!handleSaveProvider(m, r)
  <2>1. view[m] \in Profiles!Views
    BY DEF ProfileInv, ProfilesOK
  <2>2. "save" \in Profiles!Offers(m) => view[m] \notin {"list", "picker"}
    BY DEF Profiles!Offers, Profiles!ListOffers, Profiles!PickerOffers
  <2>3. view[m] # "new" => view[m] \in Customs
    BY <1>3, <2>1, <2>2 DEF Profiles!handleSaveProvider, Profiles!Views
  <2>4. PICK id \in IF view[m] = "new" THEN Customs \ Profiles!Draft(m).have ELSE {view[m]} :
          Profiles!syncProviderSession(r, m, "save",
            Profiles!ensureSelectedProvider([Profiles!Draft(m) EXCEPT !.have = @ \cup {id},
                                             !.keyed = IF typed[m] THEN @ \cup {id} ELSE @]),
            IF typed[m] THEN {id} ELSE {}, Profiles!None)
    BY <1>3 DEF Profiles!handleSaveProvider
  <2>5. id \in Profiles!Ids
    BY <2>3 DEF Profiles!Ids
  <2>6. PICK list : list = [d EXCEPT !.have = @ \cup {id}, !.keyed = IF typed[m] THEN @ \cup {id} ELSE @]
    OBVIOUS
  <2>7. list \in Profiles!Providers /\ d.keyed \subseteq list.keyed
    BY <1>1, <1>2, <2>5, <2>6 DEF Profiles!Providers
  <2>8. PICK keys : keys = IF typed[m] THEN {id} ELSE {}
    OBVIOUS
  <2>9. PICK sent : sent = Profiles!ensureSelectedProvider(list)
    OBVIOUS
  <2>10. Profiles!syncProviderSession(r, m, "save", sent, keys, Profiles!None)
    BY <1>2, <2>4, <2>6, <2>8, <2>9
  <2>11. sent \in Profiles!Providers /\ d.keyed \subseteq sent.keyed /\ keys \in SUBSET Profiles!Ids
    BY <2>5, <2>7, <2>8, <2>9, Ensured
  <2> QED BY <1>1, <1>2, <2>10, <2>11, ListStep
<1>4. ASSUME NEW p \in Profiles!Ids, Profiles!handleSelectProvider(m, r, p) PROVE ProfileInv'
  <2>1. PICK list : list = [d EXCEPT !.selected = p]
    OBVIOUS
  <2>2. list \in Profiles!Providers /\ list.keyed = d.keyed
    BY <1>1, <1>2, <2>1 DEF Profiles!Providers
  <2>3. Profiles!syncProviderSession(r, m, "list", list, {}, Profiles!None)
    BY <1>2, <1>4, <2>1 DEF Profiles!handleSelectProvider
  <2> QED BY <1>1, <1>2, <2>2, <2>3, ListStep
<1>5. ASSUME NEW p \in Profiles!Ids, Profiles!handleDeleteProvider(m, r, p) PROVE ProfileInv'
  <2>1. PICK list : list = [d EXCEPT !.have = @ \ {p}, !.keyed = @ \ {p}]
    OBVIOUS
  <2>2. list \in Profiles!Providers /\ \A k \in d.keyed : k = p \/ k \in list.keyed
    BY <1>1, <1>2, <2>1 DEF Profiles!Providers
  <2>3. PICK sent : sent = Profiles!ensureSelectedProvider(list)
    OBVIOUS
  <2>4. sent \in Profiles!Providers /\ sent.keyed = list.keyed
    BY <2>2, <2>3, Ensured
  <2>5. Profiles!syncProviderSession(r, m, "list", sent, {}, p)
    BY <1>2, <1>5, <2>1, <2>3 DEF Profiles!handleDeleteProvider
  <2> QED BY <1>1, <1>2, <2>2, <2>4, <2>5, ListStep
<1> QED BY <1>3, <1>4, <1>5

\* What the user looks at changes nothing that is kept.
LEMMA LookStep ==
  ASSUME ProfileInv, NEW m \in Menus, NEW v \in Profiles!Views, NEW key, Profiles!Look(m, v, key)
  PROVE  ProfileInv'
<1>1. UNCHANGED <<account, session, shown, ratio, request, faults>> /\ view' = [view EXCEPT ![m] = v]
  BY DEF Profiles!Look
<1>2. ProfilesOK' BY <1>1 DEF ProfileInv, ProfilesOK
<1>3. KeysInv' BY <1>1 DEF ProfileInv, KeysInv
<1>4. ThemesInv' BY <1>1 DEF ProfileInv, ThemesInv, Asked
<1> QED BY <1>2, <1>3, <1>4 DEF ProfileInv

\* A request that is not about the providers.
LEMMA PlainStep ==
  ASSUME ProfileInv, NEW r \in Requests, NEW m \in Menus,
         NEW kind \in {"preferences", "image", "label", "test"}, NEW body \in Profiles!Profiles,
         Profiles!Send(r, m, kind, body, {}, Profiles!None),
         UNCHANGED <<account, session, shown, view, ratio, faults>>
  PROVE  ProfileInv'
<1>1. kind \in Profiles!Kinds
  BY DEF Profiles!Kinds
<1>2. PICK q \in Profiles!Busy :
        /\ q.at = "sent" /\ q.kind = kind
        /\ request[r] = Profiles!Idle /\ request' = [request EXCEPT ![r] = q] /\ q # Profiles!Idle
  BY <1>1, SendProfile
<1>3. SendsKeys(q)
  BY <1>2 DEF SendsKeys
<1> QED BY <1>2, <1>3, SendKeepsProfile

\* The views of the providers, the other requests and the choices.
LEMMA OtherSteps ==
  ASSUME ProfileInv,
         \/ \E m \in Menus :
              \/ Profiles!openProviderPicker(m) \/ Profiles!handleChooseProviderPreset(m)
              \/ Profiles!Back(m) \/ Profiles!TypeKey(m)
              \/ \E p \in Customs : Profiles!openProviderForm(m, p)
              \/ \E r \in Requests :
                   Profiles!handleTestProvider(m, r) \/ \E v \in Languages : Profiles!handleLanguageChange(m, r, v)
         \/ \E r \in Requests : Profiles!SaveChoices(r) \/ Profiles!SaveWatermarkLabel(r)
         \/ \E v \in Ratios : Profiles!setImageRatio(v)
         \/ Profiles!LoadHistory
  PROVE  ProfileInv'
<1>1. Page \in Menus
  BY ProfileConstantsOK DEF Profiles!ConstantsOK
<1>2. ASSUME NEW m \in Menus, NEW r \in Requests, NEW kind \in {"preferences", "image", "label", "test"},
             NEW body \in Profiles!Profiles, Profiles!Send(r, m, kind, body, {}, Profiles!None),
             UNCHANGED <<account, session, shown, view, ratio, faults>>
      PROVE  ProfileInv'
  BY <1>2, PlainStep
<1>3. ASSUME NEW m \in Menus,
             \/ Profiles!openProviderPicker(m) \/ Profiles!handleChooseProviderPreset(m)
             \/ Profiles!Back(m) \/ Profiles!TypeKey(m)
             \/ \E p \in Customs : Profiles!openProviderForm(m, p)
      PROVE  ProfileInv'
  <2>1. view[m] \in Profiles!Views
    BY DEF ProfileInv, ProfilesOK
  <2>2. PICK v \in Profiles!Views : \E key : Profiles!Look(m, v, key)
    BY <1>3, <2>1 DEF Profiles!openProviderPicker, Profiles!handleChooseProviderPreset, Profiles!Back,
                      Profiles!TypeKey, Profiles!openProviderForm, Profiles!Views
  <2> QED BY <2>2, LookStep
<1>4. ASSUME NEW m \in Menus, NEW r \in Requests, Profiles!handleTestProvider(m, r) PROVE ProfileInv'
  BY <1>2, <1>4, DraftsOK DEF Profiles!handleTestProvider, ProfileInv
<1>5. ASSUME NEW m \in Menus, NEW r \in Requests, NEW v \in Languages, Profiles!handleLanguageChange(m, r, v)
      PROVE  ProfileInv'
  <2>1. PICK body : body = Profiles!WithPreferences(m, [Profiles!Of(m) EXCEPT !.language = v])
    OBVIOUS
  <2>2. body \in Profiles!Profiles
    BY <2>1, DraftsOK DEF ProfileInv, Profiles!WithPreferences, Profiles!Of, Profiles!Profiles, Profiles!Preferences
  <2> QED BY <1>2, <1>5, <2>1, <2>2 DEF Profiles!handleLanguageChange
<1>6. ASSUME NEW r \in Requests, Profiles!SaveChoices(r) PROVE ProfileInv'
  <2>1. PICK body : body = Profiles!WithPreferences(Page, [Profiles!Of(Page) EXCEPT !.ratio = ratio])
    OBVIOUS
  <2>2. body \in Profiles!Profiles
    BY <1>1, <2>1, DraftsOK
       DEF ProfileInv, ProfilesOK, Profiles!WithPreferences, Profiles!Of, Profiles!Profiles, Profiles!Preferences
  <2> QED BY <1>1, <1>2, <1>6, <2>1, <2>2 DEF Profiles!SaveChoices
<1>7. ASSUME NEW r \in Requests, Profiles!SaveWatermarkLabel(r) PROVE ProfileInv'
  BY <1>1, <1>2, <1>7, DraftsOK DEF Profiles!SaveWatermarkLabel, ProfileInv
<1>8. ASSUME (\E v \in Ratios : Profiles!setImageRatio(v)) \/ Profiles!LoadHistory PROVE ProfileInv'
  <2>1. UNCHANGED <<account, session, shown, view, request, faults>>
    BY <1>8 DEF Profiles!setImageRatio, Profiles!LoadHistory
  <2>2. ratio' \in Ratios
    BY <1>1, <1>8, DraftsOK DEF ProfileInv, Profiles!setImageRatio, Profiles!LoadHistory, Profiles!Profiles, Profiles!Preferences
  <2>3. ProfilesOK' BY <2>1, <2>2 DEF ProfileInv, ProfilesOK
  <2>4. KeysInv' BY <2>1 DEF ProfileInv, KeysInv
  <2>5. ThemesInv' BY <2>1 DEF ProfileInv, ThemesInv, Asked
  <2> QED BY <2>3, <2>4, <2>5 DEF ProfileInv
<1> QED BY <1>3, <1>4, <1>5, <1>6, <1>7, <1>8

\* A copy that is loaded again shows the account.
LEMMA ReopenStep ==
  ASSUME ProfileInv, NEW m \in Menus, Profiles!Reopen(m)
  PROVE  ProfileInv'
<1>1. /\ session' = [session EXCEPT ![m] = account] /\ shown' = [shown EXCEPT ![m] = account.preferences.theme]
      /\ view' = [view EXCEPT ![m] = "list"] /\ ratio' \in {ratio, account.preferences.ratio}
      /\ UNCHANGED <<account, request, faults>>
  BY DEF Profiles!Reopen
<1>2. account.preferences \in Profiles!Preferences
  BY DEF ProfileInv, ProfilesOK, Profiles!Profiles
<1>3. ProfilesOK'
  BY <1>1, <1>2 DEF ProfileInv, ProfilesOK, Profiles!Preferences, Profiles!Views
<1>4. KeysInv' BY <1>1 DEF ProfileInv, KeysInv
<1>5. ASSUME NEW n \in Menus, Asked(n) PROVE Asked(n)'
  BY <1>1, <1>5 DEF Asked, ProfileInv, ProfilesOK
<1>6. ThemesInv' BY <1>1, <1>5 DEF ProfileInv, ThemesInv
<1> QED BY <1>3, <1>4, <1>6 DEF ProfileInv

\* The server takes a request, and a failed one is out of its hands.
LEMMA ServerSteps ==
  ASSUME ProfileInv, NEW r \in Requests,
         Profiles!Handle(r) \/ Profiles!Fail(r) \/ Profiles!Refused(r)
  PROVE  ProfileInv'
<1>1. request[r] # Profiles!Idle /\ request[r] \in Profiles!Busy
  BY DEF ProfileInv, ProfilesOK, Profiles!Handle, Profiles!Fail, Profiles!Refused
<1>2. DOMAIN request = Requests BY DEF ProfileInv, ProfilesOK
<1>3. UNCHANGED <<session, shown, view, ratio>>
  BY DEF Profiles!Handle, Profiles!Fail, Profiles!Refused
<1>4. PICK q : q = request[r] OBVIOUS
<1>5. CASE Profiles!Handle(r)
  <2>1. PICK a : a = account' OBVIOUS
  <2>2. PICK d : d = [q EXCEPT !.at = "done", !.answer = a] OBVIOUS
  <2>3. request' = [request EXCEPT ![r] = d] /\ a = Profiles!UpdatedAccount(q) /\ faults' = faults
    BY <1>2, <1>4, <1>5, <2>1, <2>2 DEF Profiles!Handle
  <2>4. q.body \in Profiles!Profiles /\ q.keys \in SUBSET Profiles!Ids /\ account \in Profiles!Profiles
    BY <1>1, <1>4 DEF Profiles!Busy, ProfileInv, ProfilesOK
  <2>5. PICK p : p = Profiles!NormalizeModelProviders(account.providers, q.body.providers, q.keys)
    OBVIOUS
  <2>6. p \in Profiles!Providers
    BY <2>4, <2>5 DEF Profiles!NormalizeModelProviders, Profiles!Profiles, Profiles!Providers
  <2>7. /\ a \in Profiles!Profiles
        /\ q.kind = "preferences" => a.preferences = q.body.preferences
    BY <2>3, <2>4, <2>5, <2>6 DEF Profiles!UpdatedAccount, Profiles!Profiles
  <2>8. d \in Profiles!Busy /\ d # Profiles!Idle /\ d.at = "done" /\ d.menu = q.menu /\ d.kind = q.kind
        /\ d.body = q.body /\ d.base = q.base /\ d.gone = q.gone /\ d.answer = a
    BY <1>1, <1>4, <2>2, <2>7 DEF Profiles!Busy, Profiles!Idle
  <2>9. ProfilesOK' BY <1>2, <1>3, <2>1, <2>3, <2>7, <2>8 DEF ProfileInv, ProfilesOK
  <2>10. KeysInv'
    BY <1>1, <1>2, <1>4, <2>3, <2>8 DEF ProfileInv, KeysInv, SendsKeys
  <2>11. ASSUME NEW m \in Menus, NEW v, AsksFor(q, m, v) PROVE AsksFor(d, m, v)
    BY <2>7, <2>8, <2>11 DEF AsksFor
  <2>12. ASSUME NEW m \in Menus, Asked(m) PROVE Asked(m)'
    BY <1>1, <1>2, <1>3, <1>4, <2>3, <2>8, <2>11, <2>12 DEF Asked
  <2>13. ThemesInv' BY <1>1, <1>2, <2>3, <2>8, <2>12 DEF ProfileInv, ThemesInv
  <2> QED BY <2>9, <2>10, <2>13 DEF ProfileInv
<1>6. CASE Profiles!Fail(r)
  <2>1. PICK d : d = [q EXCEPT !.at = "failed"] OBVIOUS
  <2>2. request' = [request EXCEPT ![r] = d] /\ account' = account /\ faults' = faults + 1
    BY <1>2, <1>4, <1>6, <2>1 DEF Profiles!Fail
  <2>3. d \in Profiles!Busy /\ d.kind = q.kind /\ d.body = q.body /\ d.base = q.base /\ d.gone = q.gone
    BY <1>1, <1>4, <2>1 DEF Profiles!Busy
  <2>4. ProfilesOK' BY <1>2, <1>3, <2>2, <2>3 DEF ProfileInv, ProfilesOK
  <2>5. KeysInv' BY <1>1, <1>2, <1>4, <2>2, <2>3 DEF ProfileInv, KeysInv, SendsKeys
  <2>6. ThemesInv' BY <2>2 DEF ProfileInv, ProfilesOK, ThemesInv
  <2> QED BY <2>4, <2>5, <2>6 DEF ProfileInv
<1>7. CASE Profiles!Refused(r)
  <2>1. request' = [request EXCEPT ![r] = Profiles!Idle] /\ account' = account /\ faults' = faults
        /\ q.at = "failed"
    BY <1>4, <1>7 DEF Profiles!Refused
  <2>2. ProfilesOK' BY <1>3, <2>1 DEF ProfileInv, ProfilesOK
  <2>3. KeysInv' BY <1>2, <2>1 DEF ProfileInv, KeysInv
  <2>4. ThemesInv'
    BY <1>1, <1>4, <2>1 DEF ProfileInv, ThemesInv
  <2> QED BY <2>2, <2>3, <2>4 DEF ProfileInv
<1> QED BY <1>5, <1>6, <1>7

\* An answer that was asked for has the account as it was then.
LEMMA AnswersOK ==
  ASSUME ProfileInv, NEW q \in Profiles!Busy
  PROVE  /\ Profiles!AnsweredSession(q) \in Profiles!Profiles
         /\ q.kind \notin {"label"} => Profiles!AnsweredSession(q).preferences = q.answer.preferences
<1>1. q.base \in Profiles!Profiles /\ q.answer \in Profiles!Profiles
  BY DEF Profiles!Busy
<1> QED BY <1>1 DEF Profiles!AnsweredSession, Profiles!AnsweredChoices, Profiles!AnsweredLabel, Profiles!Profiles

\* What a menu is answered it shows, or it still waits for what it shows.
LEMMA AnsweredStep ==
  ASSUME ProfileInv, NEW r \in Requests, Profiles!Answered(r)
  PROVE  ProfileInv'
<1>1. PICK q : q = request[r] OBVIOUS
<1>2. PICK p : p = Profiles!AnsweredSession(q) OBVIOUS
<1>3. q \in Profiles!Busy /\ q # Profiles!Idle /\ q.at = "done" /\ q.menu \in Menus
  BY <1>1 DEF Profiles!Answered, ProfileInv, ProfilesOK, Profiles!Busy
<1>4. DOMAIN request = Requests BY DEF ProfileInv, ProfilesOK
<1>5. p \in Profiles!Profiles /\ p.preferences \in Profiles!Preferences
  BY <1>2, <1>3, AnswersOK DEF Profiles!Profiles
<1>6. request' = [request EXCEPT ![r] = Profiles!Idle] /\ UNCHANGED <<account, faults>>
      /\ view' \in {view, [view EXCEPT ![q.menu] = "list"]}
  BY <1>1 DEF Profiles!Answered
<1>7. KeysInv' BY <1>4, <1>6 DEF ProfileInv, KeysInv
<1>8. view' \in [Menus -> Profiles!Views]
  BY <1>6 DEF ProfileInv, ProfilesOK, Profiles!Views
<1>9. CASE q.kind \in {"label", "test"}
  <2>1. UNCHANGED <<session, shown, ratio>>
    BY <1>1, <1>9 DEF Profiles!Answered
  <2>2. ProfilesOK' BY <1>6, <1>8, <2>1 DEF ProfileInv, ProfilesOK
  <2>3. ASSUME NEW m \in Menus, Asked(m) PROVE Asked(m)'
    BY <1>1, <1>4, <1>6, <1>9, <2>1, <2>3 DEF Asked, AsksFor
  <2>4. ThemesInv' BY <1>4, <1>6, <2>3 DEF ProfileInv, ThemesInv
  <2> QED BY <1>7, <2>2, <2>4 DEF ProfileInv
<1>10. CASE q.kind \notin {"label", "test"}
  <2>1. Profiles!SetSession(q.menu, p)
    BY <1>1, <1>2, <1>10 DEF Profiles!Answered
  <2>2. /\ session' = [session EXCEPT ![q.menu] = p]
        /\ shown' = Profiles!AccountTheme(q.menu, session[q.menu].preferences, p.preferences)
        /\ ratio' \in {ratio, p.preferences.ratio}
    BY <2>1 DEF Profiles!SetSession, Profiles!RatioOfHistory
  <2>3. \/ shown' = [shown EXCEPT ![q.menu] = p.preferences.theme]
        \/ shown' = shown /\ p.preferences.theme = session[q.menu].preferences.theme
    BY <2>2 DEF Profiles!AccountTheme
  <2>4. p.preferences.theme \in Themes /\ p.preferences.ratio \in Ratios
    BY <1>5 DEF Profiles!Preferences
  <2>5. ProfilesOK'
    BY <1>3, <1>5, <1>6, <1>8, <2>2, <2>3, <2>4 DEF ProfileInv, ProfilesOK
  <2>6. p.preferences = q.answer.preferences
    BY <1>2, <1>3, <1>10, AnswersOK
  <2>7. ASSUME NEW m \in Menus, Asked(m) PROVE Asked(m)'
    <3>1. DOMAIN session = Menus /\ DOMAIN shown = Menus BY DEF ProfileInv, ProfilesOK
    <3>2. CASE m # q.menu
      <4>1. shown'[m] = shown[m] /\ session'[m] = session[m]
        BY <2>2, <2>3, <3>1, <3>2
      <4>2. ASSUME NEW s \in Requests, request[s] # Profiles!Idle, AsksFor(request[s], m, shown[m])
            PROVE  request'[s] = request[s]
        BY <1>1, <1>4, <1>6, <3>2, <4>2 DEF AsksFor
      <4> QED BY <2>7, <4>1, <4>2 DEF Asked
    <3>3. CASE m = q.menu /\ shown' = [shown EXCEPT ![q.menu] = p.preferences.theme]
      BY <1>3, <2>2, <3>1, <3>3 DEF Asked
    <3>4. CASE m = q.menu /\ shown' = shown /\ p.preferences.theme = session[q.menu].preferences.theme
      <4>1. CASE shown[m] = session[m].preferences.theme
        BY <1>3, <2>2, <3>1, <3>4, <4>1 DEF Asked
      <4>2. ASSUME NEW s \in Requests, request[s] # Profiles!Idle, AsksFor(request[s], m, shown[m])
            PROVE  Asked(m)'
        <5>1. CASE s = r
          BY <1>1, <1>3, <2>2, <2>6, <3>1, <3>4, <4>2, <5>1 DEF Asked, AsksFor
        <5>2. CASE s # r
          BY <1>4, <1>6, <3>4, <4>2, <5>2 DEF Asked
        <5> QED BY <5>1, <5>2
      <4> QED BY <2>7, <4>1, <4>2 DEF Asked
    <3> QED BY <2>3, <3>2, <3>3, <3>4
  <2>8. ThemesInv' BY <1>4, <1>6, <2>7 DEF ProfileInv, ThemesInv
  <2> QED BY <1>7, <2>5, <2>8 DEF ProfileInv
<1> QED BY <1>9, <1>10

\* Every step of the profile keeps what is known of it.
LEMMA ProfileStep == ProfileInv /\ [Profiles!Next]_(Profiles!vars) => ProfileInv'
<1> SUFFICES ASSUME ProfileInv, [Profiles!Next]_(Profiles!vars) PROVE ProfileInv'
  OBVIOUS
<1>1. ASSUME NEW m \in Menus, Profiles!Menu(m) PROVE ProfileInv'
  <2>1. CASE Profiles!Reopen(m)
    BY <2>1, ReopenStep
  <2>2. CASE \E r \in Requests : \E v \in Themes : Profiles!handleThemeChange(m, r, v)
    BY <2>2, ThemeChangeStep
  <2>3. CASE \E r \in Requests :
               \/ Profiles!handleSaveProvider(m, r)
               \/ \E p \in Profiles!Ids : Profiles!handleSelectProvider(m, r, p) \/ Profiles!handleDeleteProvider(m, r, p)
    BY <2>3, ProviderSteps
  <2>4. CASE \/ Profiles!openProviderPicker(m) \/ Profiles!handleChooseProviderPreset(m)
             \/ Profiles!Back(m) \/ Profiles!TypeKey(m)
             \/ \E p \in Customs : Profiles!openProviderForm(m, p)
             \/ \E r \in Requests :
                  Profiles!handleTestProvider(m, r) \/ \E v \in Languages : Profiles!handleLanguageChange(m, r, v)
    BY <2>4, OtherSteps
  <2> QED BY <1>1, <2>1, <2>2, <2>3, <2>4 DEF Profiles!Menu, Profiles!AppearanceOffers
<1>2. CASE (\E v \in Ratios : Profiles!setImageRatio(v)) \/ Profiles!LoadHistory \/ Profiles!SaveAgain
  BY <1>2, OtherSteps DEF Profiles!SaveAgain
<1>3. ASSUME NEW r \in Requests, Profiles!GoOn(r) \/ Profiles!Fail(r) \/ Profiles!SaveWatermarkLabel(r)
      PROVE  ProfileInv'
  BY <1>3, OtherSteps, ServerSteps, AnsweredStep DEF Profiles!GoOn
<1>4. CASE UNCHANGED Profiles!vars
  <2>1. UNCHANGED <<account, session, shown, view, ratio, request, faults>>
    BY <1>4 DEF Profiles!vars
  <2> QED BY <2>1 DEF ProfileInv, ProfilesOK, KeysInv, ThemesInv, Asked
<1> QED BY <1>1, <1>2, <1>3, <1>4 DEF Profiles!Next

\* At first all copies are the account's, and nothing is under way.
LEMMA ProfileInit == Profiles!Init => ProfileInv
<1> SUFFICES ASSUME Profiles!Init PROVE ProfileInv
  OBVIOUS
<1>1. Start \in Profiles!Preferences
  BY ProfileConstantsOK DEF Profiles!ConstantsOK
<1>2. account \in Profiles!Profiles
  BY <1>1 DEF Profiles!Init, Profiles!Profiles, Profiles!Providers, Profiles!Ids
<1>3. account.preferences \in Profiles!Preferences
  BY <1>2 DEF Profiles!Profiles
<1>4. ProfilesOK
  BY <1>2, <1>3 DEF Profiles!Init, ProfilesOK, Profiles!Preferences, Profiles!Views
<1>5. KeysInv BY DEF Profiles!Init, KeysInv
<1>6. ThemesInv BY DEF Profiles!Init, ThemesInv, Asked
<1> QED BY <1>4, <1>5, <1>6 DEF ProfileInv

(* However answers overtake each other, a menu for which nothing is under  *)
(* way shows the theme of its session, unless a request failed (the theme  *)
(* preference of account-menu.tsx and of the page).                        *)
THEOREM ThemeIsShown == Profiles!Spec => []ThemeShown
<1>1. ProfileInv => ThemeShown
  BY DEF ProfileInv, ThemesInv, Asked, AsksFor, ThemeShown, Profiles!ThemeShown, Profiles!UnderWay,
         Profiles!Kinds
<1> QED BY <1>1, ProfileInit, ProfileStep, PTL DEF Profiles!Spec

\* The account loses a key by a request that was made without it.
LEMMA KeysStep ==
  ASSUME ProfileInv, [Profiles!Next]_(Profiles!vars),
         NEW p \in account.providers.keyed \ account'.providers.keyed
  PROVE  \E r \in Requests :
           /\ request[r].at = "sent" /\ request'[r].at = "done"
           /\ request[r].gone = p \/ p \notin request[r].base.providers.keyed
<1>1. PICK r \in Requests : Profiles!Handle(r)
  <2>1. account' # account
    OBVIOUS
  <2>2. ASSUME NEW m \in Menus, Profiles!Menu(m) PROVE account' = account
    BY <2>2
    DEF Profiles!Menu, Profiles!openProviderPicker, Profiles!Look, Profiles!handleChooseProviderPreset,
        Profiles!Back, Profiles!TypeKey, Profiles!Reopen, Profiles!openProviderForm,
        Profiles!handleThemeChange, Profiles!handleLanguageChange, Profiles!handleSaveProvider,
        Profiles!handleTestProvider, Profiles!handleSelectProvider, Profiles!handleDeleteProvider,
        Profiles!syncProviderSession
  <2>3. ASSUME (\E v \in Ratios : Profiles!setImageRatio(v)) \/ Profiles!LoadHistory \/ Profiles!SaveAgain
        PROVE  account' = account
    BY <2>3 DEF Profiles!setImageRatio, Profiles!LoadHistory, Profiles!SaveAgain, Profiles!SaveChoices
  <2>4. ASSUME NEW r \in Requests, Profiles!GoOn(r) \/ Profiles!Fail(r) \/ Profiles!SaveWatermarkLabel(r),
               ~Profiles!Handle(r)
        PROVE  account' = account
    BY <2>4 DEF Profiles!GoOn, Profiles!Answered, Profiles!Refused, Profiles!Fail, Profiles!SaveWatermarkLabel
  <2>5. ~UNCHANGED Profiles!vars
    BY <2>1 DEF Profiles!vars
  <2> QED BY <2>1, <2>2, <2>3, <2>4, <2>5 DEF Profiles!Next
<1>2. PICK q : q = request[r] OBVIOUS
<1>3. q \in Profiles!Busy /\ q # Profiles!Idle /\ q.at = "sent" /\ account' = Profiles!UpdatedAccount(q)
  BY <1>1, <1>2 DEF Profiles!Handle, ProfileInv, ProfilesOK
<1>4. PICK a : a = account' OBVIOUS
<1>5. PICK d : d = [q EXCEPT !.at = "done", !.answer = a] OBVIOUS
<1>6. DOMAIN request = Requests BY DEF ProfileInv, ProfilesOK
<1>7. request' = [request EXCEPT ![r] = d]
  BY <1>1, <1>2, <1>4, <1>5, <1>6 DEF Profiles!Handle
<1>8. request'[r].at = "done"
  BY <1>3, <1>5, <1>6, <1>7 DEF Profiles!Busy
<1>9. q.body \in Profiles!Profiles /\ account \in Profiles!Profiles
  BY <1>3 DEF Profiles!Busy, ProfileInv, ProfilesOK
<1>10. q.kind \in {"save", "list"}
  <2>1. account'.providers # account.providers
    OBVIOUS
  <2> QED BY <1>3, <1>9, <2>1 DEF Profiles!UpdatedAccount, Profiles!Profiles
<1>11. account'.providers = Profiles!NormalizeModelProviders(account.providers, q.body.providers, q.keys)
  BY <1>3, <1>9, <1>10 DEF Profiles!UpdatedAccount, Profiles!Profiles
<1>12. q.body.providers \in Profiles!Providers
  BY <1>9 DEF Profiles!Profiles
<1>13. p \notin q.body.providers.keyed
  BY <1>11, <1>12 DEF Profiles!NormalizeModelProviders, Profiles!Providers
<1>14. q.gone = p \/ p \notin q.base.providers.keyed
  BY <1>2, <1>3, <1>10, <1>13 DEF ProfileInv, KeysInv, SendsKeys
<1> QED BY <1>2, <1>3, <1>8, <1>14

(* A saved key is only lost with a provider that is deleted, or to a menu  *)
(* whose copy is older than the key (normalizeModelProviders keeps the     *)
(* keys that no browser is ever sent).                                     *)
THEOREM KeysAreKept == Profiles!Spec => KeysKept
<1>1. ProfileInv /\ [Profiles!Next]_(Profiles!vars) =>
        [\A p \in account.providers.keyed \ account'.providers.keyed :
           \E r \in Requests :
             /\ request[r].at = "sent" /\ request'[r].at = "done"
             /\ request[r].gone = p \/ p \notin request[r].base.providers.keyed]_(Profiles!vars)
  BY KeysStep
<1> QED BY <1>1, ProfileInit, ProfileStep, PTL DEF Profiles!Spec, KeysKept, Profiles!KeysKept
=============================================================================
