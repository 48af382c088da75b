--------------------------- MODULE Workspace_proofs ---------------------------
(***************************************************************************)
(* Proofs about the image workspace, for every number of pages, tabs, turns,  *)
(* images, runners and failures: its variables have their types, what a page  *)
(* or the gallery shows of an image is true of its task, and what is loading  *)
(* on an open page has somebody at work on it.                                *)
(***************************************************************************)
EXTENDS Workspace, TLAPS

USE WorkspaceConstantsOK DEF WorkspaceConstantsOK

-----------------------------------------------------------------------------
(* Types *)

\* Every change of a runner leaves the runners' variable with its type.
LEMMA BecomeType ==
  ASSUME TypeOK, NEW r \in Runners, NEW s \in {Idle} \union Running, Become(r, s)
  PROVE  runner' \in [Runners -> {Idle} \union Running]
BY DEF TypeOK, Become

\* A runner that is not idle has all its fields.
LEMMA RunningType ==
  ASSUME TypeOK, NEW r \in Runners, runner[r].pc # "idle"
  PROVE  runner[r] \in Running
BY DEF TypeOK, Idle

\* A runner at the start of its work has all its fields.
LEMMA StartedType ==
  ASSUME NEW p \in Pages, NEW l \in Statuses, NEW s \in Started(p, l)
  PROVE  s \in Running
BY DEF Started, Running, Loading, Of, Nothing, Statuses, Shown

\* A page that sets its conversations keeps the types of both variables.
LEMMA SetLocalType ==
  ASSUME TypeOK, NEW p \in Pages, NEW l \in Statuses, SetLocal(p, l)
  PROVE  local' \in [Pages -> Statuses] /\ due' \in [Pages -> BOOLEAN]
BY DEF TypeOK, SetLocal

\* The end of a runner keeps the types of the runners and of the guards.
LEMMA FinishType ==
  ASSUME TypeOK, NEW r \in Runners, NEW l \in Statuses, runner[r] \in Running, Finish(r, l)
  PROVE  runner' \in [Runners -> {Idle} \union Running] /\ guard' \in [Tabs -> BOOLEAN]
<1>1. runner[r].page \in Pages BY DEF Running
<1>2. CASE Become(r, Idle) /\ guard' = [guard EXCEPT ![TabOf[runner[r].page]] = FALSE]
  BY <1>1, <1>2, BecomeType DEF TypeOK
<1>3. CASE /\ \E s \in Started(runner[r].page, l) : Become(r, s)
           /\ guard' = [guard EXCEPT ![TabOf[runner[r].page]] = TRUE]
  <2>1. PICK s \in Started(runner[r].page, l) : Become(r, s) BY <1>3
  <2>2. s \in Running BY <1>1, <2>1, StartedType
  <2> QED BY <1>1, <1>3, <2>1, <2>2, BecomeType DEF TypeOK
<1> QED BY <1>2, <1>3 DEF Finish

\* What a page makes of a runner that gives up.
LEMMA GiveUpType ==
  ASSUME TypeOK, NEW r \in Runners, runner[r] \in Running, GiveUp(r)
  PROVE  /\ local' \in [Pages -> Statuses] /\ due' \in [Pages -> BOOLEAN]
         /\ runner' \in [Runners -> {Idle} \union Running] /\ guard' \in [Tabs -> BOOLEAN]
<1> DEFINE s == runner[r]
           l == [i \in Images |-> IF i \in Of(s.turn) \intersect Loading(local[s.page])
                                  THEN "error" ELSE local[s.page][i]]
<1>1. s.page \in Pages BY DEF Running
<1>2. l \in Statuses BY <1>1 DEF TypeOK, Statuses, Shown
<1>3. SetLocal(s.page, l) /\ Finish(r, l) BY DEF GiveUp
<1> HIDE DEF l
<1> QED BY <1>1, <1>2, <1>3, SetLocalType, FinishType

\* The same of a runner one of whose rounds fails.
LEMMA SetbackType ==
  ASSUME TypeOK, NEW r \in Runners, runner[r] \in Running, Setback(r)
  PROVE  /\ local' \in [Pages -> Statuses] /\ due' \in [Pages -> BOOLEAN]
         /\ runner' \in [Runners -> {Idle} \union Running] /\ guard' \in [Tabs -> BOOLEAN]
<1>1. CASE runner[r].errors + 1 >= MaxErrors /\ GiveUp(r) BY <1>1, GiveUpType
<1>2. CASE /\ runner[r].errors + 1 < MaxErrors
           /\ Become(r, [runner[r] EXCEPT !.pc = "patching", !.todo = {}, !.got = Nothing, !.errors = @ + 1])
           /\ UNCHANGED <<local, due, guard>>
  <2>0. Nothing \in Statuses BY DEF Nothing, Statuses, Shown
  <2>1. runner[r].errors + 1 \in 0 .. (MaxErrors - 1) BY <1>2 DEF Running
  <2>2. [runner[r] EXCEPT !.pc = "patching", !.todo = {}, !.got = Nothing, !.errors = @ + 1] \in Running
    BY <2>0, <2>1 DEF Running
  <2> QED BY <1>2, <2>2, BecomeType DEF TypeOK
<1> QED BY <1>1, <1>2 DEF Setback

\* The gallery keeps its type when it is told of an image.
LEMMA SetResultType ==
  ASSUME TypeOK, NEW i \in Images, NEW status \in Shown, SetResult(i, status)
  PROVE  gallery' \in Statuses
BY DEF TypeOK, SetResult, Statuses, Shown

\* The steps of the server.
LEMMA ServerType ==
  ASSUME TypeOK, NEW i \in Images, ServerStep(i)
  PROVE  TypeOK'
<1>1. CASE TellGallery(i)
  <2>1. gallery' \in Statuses
    BY <1>1, SetResultType DEF TypeOK, TellGallery, Statuses
  <2>2. word' \in Statuses BY <1>1 DEF TypeOK, TellGallery, Statuses, Shown
  <2>3. faults' \in 0 .. MaxFaults BY <1>1 DEF TypeOK, TellGallery, Fault
  <2> QED BY <1>1, <2>1, <2>2, <2>3 DEF TypeOK, TellGallery, visits, runs
<1>2. CASE EndTask(i)
  BY <1>2 DEF TypeOK, EndTask, Ended, Statuses, Shown, visits, runs
<1> QED BY <1>1, <1>2 DEF ServerStep

\* What the user does to pages.
LEMMA UserType ==
  ASSUME TypeOK, UserStep
  PROVE  TypeOK'
<1>1. ASSUME NEW p \in Pages, Visit(p) PROVE TypeOK'
  BY <1>1 DEF TypeOK, Visit, server, runs
<1>2. ASSUME NEW p \in Pages, Refresh(p) PROVE TypeOK'
  BY <1>2 DEF TypeOK, Refresh, Lapse, server
<1>3. ASSUME NEW p \in Pages, Leave(p) PROVE TypeOK'
  BY <1>3 DEF TypeOK, Leave, NoLoad, server
<1>4. ASSUME NEW t \in Tabs, Close(t) PROVE TypeOK'
  BY <1>4 DEF TypeOK, Close, NoLoad, NoPost, server, Nothing, Statuses, Shown, Idle
<1>5. ASSUME NEW p \in Pages, NEW t \in Turns, NEW l \in Statuses, Persist(p, t, l)
      PROVE  /\ local' \in [Pages -> Statuses] /\ due' \in [Pages -> BOOLEAN]
             /\ post' \in [Pages -> {NoPost} \union Posted]
  <2>1. [pc |-> "sent", turn |-> t,
         images |-> [i \in Images |-> IF i \in Of(t) THEN l[i] ELSE "none"]] \in Posted
    BY DEF Posted, Statuses, Shown
  <2>2. SetLocal(p, l) BY <1>5 DEF Persist
  <2> QED BY <1>5, <2>1, <2>2, SetLocalType DEF Persist, TypeOK
<1>6. ASSUME NEW p \in Pages, NEW t \in Turns, SubmitTurn(p, t) PROVE TypeOK'
  <2> DEFINE new == First \intersect Of(t)
             l == [i \in Images |-> IF i \in new THEN "loading" ELSE local[p][i]]
  <2>1. l \in Statuses BY DEF TypeOK, Statuses, Shown
  <2>2. Persist(p, t, l) BY <1>6 DEF SubmitTurn
  <2>3. used' \subseteq Images BY <1>6 DEF SubmitTurn, TypeOK
  <2> HIDE DEF l
  <2> QED BY <1>5, <1>6, <2>1, <2>2, <2>3 DEF SubmitTurn, TypeOK, server, runs
<1>7. ASSUME NEW p \in Pages, NEW i \in Images, NEW j \in Images, RetryImage(p, i, j) PROVE TypeOK'
  <2> DEFINE l == [local[p] EXCEPT ![i] = "none", ![j] = "loading"]
  <2>1. l \in Statuses BY DEF TypeOK, Statuses, Shown
  <2>2. Persist(p, TurnOf[i], l) BY <1>7 DEF RetryImage
  <2>3. used' \subseteq Images BY <1>7 DEF RetryImage, TypeOK
  <2> HIDE DEF l
  <2> QED BY <1>5, <1>7, <2>1, <2>2, <2>3 DEF RetryImage, TypeOK, server, runs
<1> QED BY <1>1, <1>2, <1>3, <1>4, <1>6, <1>7 DEF UserStep

\* What pages and the server do about their requests.
LEMMA PageType ==
  ASSUME TypeOK, NEW p \in Pages, PageStep(p)
  PROVE  TypeOK'
<1>1. CASE AnswerHistory(p)
  BY <1>1 DEF TypeOK, AnswerHistory, server, runs
<1>2. CASE ShowHistory(p)
  <2>1. load[p].images \in Statuses BY <1>2 DEF TypeOK, ShowHistory, NoLoad
  <2>2. SetLocal(p, load[p].images) BY <1>2 DEF ShowHistory
  <2> QED BY <1>2, <2>1, <2>2, SetLocalType DEF TypeOK, ShowHistory, server, runs
<1>3. CASE HandlePost(p)
  <2>1. post[p] \in Posted BY <1>3 DEF TypeOK, HandlePost, NoPost
  <2>2. gallery' \in Statuses BY <1>3, <2>1 DEF TypeOK, HandlePost, Posted, Statuses, Shown
  <2>3. [post[p] EXCEPT !.pc = "answered", !.images = gallery'] \in Posted
    BY <2>1, <2>2 DEF Posted
  <2> QED BY <1>3, <2>2, <2>3 DEF TypeOK, HandlePost, visits, runs
<1>4. CASE EndPost(p)
  <2>1. post[p].pc = "answered" => post[p].images \in Statuses
    BY DEF TypeOK, Posted, NoPost
  <2> QED BY <1>4, <2>1 DEF TypeOK, EndPost, Fault, server, visits, runs
<1>5. CASE CallRunner(p)
  <2>1. local[p] \in Statuses BY DEF TypeOK
  <2>2. CASE UNCHANGED <<guard, runner>>
    BY <1>5, <2>2 DEF TypeOK, CallRunner, server, visits
  <2>3. CASE /\ \E r \in Runners, s \in Started(p, local[p]) :
                 runner' = [runner EXCEPT ![r] = s]
             /\ guard' = [guard EXCEPT ![TabOf[p]] = TRUE]
    BY <1>5, <2>1, <2>3, StartedType DEF TypeOK, CallRunner, server, visits
  <2> QED BY <1>5, <2>2, <2>3 DEF CallRunner
<1> QED BY <1>1, <1>2, <1>3, <1>4, <1>5 DEF PageStep

\* The steps of a runner that are answered.
LEMMA RunnerType ==
  ASSUME TypeOK, NEW r \in Runners, RunnerStep(r)
  PROVE  TypeOK'
<1>0. Nothing \in Statuses BY DEF Nothing, Statuses, Shown
<1>1. ASSUME NEW i \in Images, HandleSubmit(r, i) PROVE TypeOK'
  <2> DEFINE s == runner[r]
             n == [s EXCEPT !.todo = @ \ {i}, !.got[i] = AsImage(task'[i])]
  <2>1. s \in Running BY <1>1, RunningType DEF HandleSubmit
  <2>2. task' \in [Images -> {"absent", "open"} \union Ended] /\ task'[i] # "absent"
    BY <1>1 DEF TypeOK, HandleSubmit, Accepted
  <2>3. AsImage(task'[i]) \in Shown BY <2>2 DEF AsImage, Shown, Ended
  <2>4. [s.got EXCEPT ![i] = AsImage(task'[i])] \in Statuses BY <2>1, <2>3 DEF Running, Statuses
  <2>5. n \in Running BY <2>1, <2>4 DEF Running
  <2>6. word' \in Statuses BY <1>1 DEF TypeOK, HandleSubmit, Statuses, Shown
  <2>7. Become(r, n) BY <1>1 DEF HandleSubmit
  <2> HIDE DEF n
  <2> QED BY <1>1, <2>2, <2>5, <2>6, <2>7, BecomeType DEF TypeOK, HandleSubmit, visits
<1>2. CASE HandlePoll(r)
  <2> DEFINE s == runner[r]
             missing == {i \in s.todo : task[i] = "absent"}
             got == [i \in Images |-> IF i \in s.todo \ missing THEN AsImage(task[i]) ELSE "none"]
             n == [s EXCEPT !.pc = "polled", !.errors = 0, !.todo = missing, !.got = got]
  <2>1. s \in Running BY <1>2, RunningType DEF HandlePoll
  <2>2. got \in Statuses BY DEF TypeOK, AsImage, Ended, Statuses, Shown
  <2>3. missing \subseteq Images BY <2>1 DEF Running
  <2>4. Become(r, n) BY <1>2 DEF HandlePoll
  <2> HIDE DEF s, got, missing
  <2>0. 0 \in 0 .. (MaxErrors - 1) OBVIOUS
  <2>5. n \in Running BY <2>0, <2>1, <2>2, <2>3 DEF Running
  <2> HIDE DEF n
  <2> QED BY <1>2, <2>4, <2>5, BecomeType DEF TypeOK, HandlePoll, server, visits
<1>3. CASE ApplyTasks(r)
  <2> DEFINE s == runner[r]
             l == [i \in Images |-> IF s.got[i] # "none" /\ local[s.page][i] # "none"
                                    THEN s.got[i] ELSE local[s.page][i]]
  <2>1. s \in Running BY <1>3, RunningType DEF ApplyTasks
  <2>2. s.page \in Pages BY <2>1 DEF Running
  <2>3. l \in Statuses BY <2>1, <2>2 DEF TypeOK, Running, Statuses
  <2>4. SetLocal(s.page, l) /\ Become(r, [s EXCEPT !.pc = "applied"]) BY <1>3 DEF ApplyTasks
  <2>5. [s EXCEPT !.pc = "applied"] \in Running BY <2>1 DEF Running
  <2> HIDE DEF l
  <2> QED BY <1>3, <2>2, <2>3, <2>4, <2>5, SetLocalType, BecomeType
       DEF TypeOK, ApplyTasks, server, visits
<1>4. CASE SyncResults(r)
  <2> DEFINE s == runner[r]
             shown == local[s.page]
  <2>1. s \in Running BY <1>4, RunningType DEF SyncResults
  <2>2. s.page \in Pages /\ shown \in Statuses BY <2>1 DEF TypeOK, Running
  <2>3. PICK sent \in SUBSET {i \in Images : shown[i] # "none"} :
          /\ patches' = patches \union {[runner |-> r, image |-> i, status |-> shown[i]] : i \in sent}
          /\ signature' = [signature EXCEPT ![s.page] =
               [i \in Images |-> IF i \in sent THEN shown[i] ELSE @[i]]]
    BY <1>4 DEF SyncResults, Loading
  <2>4. patches' \subseteq [runner : Runners, image : Images, status : Shown \ {"none"}]
    BY <2>2, <2>3 DEF TypeOK, Statuses
  <2>5. signature' \in [Pages -> Statuses] BY <2>2, <2>3 DEF TypeOK, Statuses
  <2>6. [s EXCEPT !.pc = "patching", !.got = Nothing] \in Running BY <1>0, <2>1 DEF Running
  <2>7. Become(r, [s EXCEPT !.pc = "patching", !.got = Nothing]) BY <1>4 DEF SyncResults
  <2> QED BY <1>4, <2>4, <2>5, <2>6, <2>7, BecomeType DEF TypeOK, SyncResults, server, visits
<1>5. CASE Resubmit(r)
  <2>1. runner[r] \in Running BY <1>5, RunningType DEF Resubmit
  <2>2. [runner[r] EXCEPT !.pc = "resubmit"] \in Running BY <2>1 DEF Running
  <2> QED BY <1>5, <2>2, BecomeType DEF TypeOK, Resubmit, server, visits
<1>6. CASE NextRound(r)
  <2> DEFINE s == runner[r]
             left == Loading(local[s.page]) \intersect Of(s.turn)
  <2>1. s \in Running BY <1>6, RunningType DEF NextRound
  <2>2. local[s.page] \in Statuses BY <2>1 DEF TypeOK, Running
  <2>3. CASE Become(r, [s EXCEPT !.pc = "polling", !.todo = left]) /\ UNCHANGED guard
    <3>1. left \subseteq Images BY DEF Loading
    <3>2. [s EXCEPT !.pc = "polling", !.todo = left] \in Running BY <2>1, <3>1 DEF Running
    <3> QED BY <1>6, <2>3, <3>2, BecomeType DEF TypeOK, NextRound, server, visits
  <2>4. CASE Finish(r, local[s.page])
    BY <1>6, <2>1, <2>2, <2>4, FinishType DEF TypeOK, NextRound, server, visits
  <2> QED BY <1>6, <2>3, <2>4 DEF NextRound
<1> QED BY <1>1, <1>2, <1>3, <1>4, <1>5, <1>6 DEF RunnerStep

\* The steps of a runner whose requests fail.
LEMMA FailureType ==
  ASSUME TypeOK, NEW r \in Runners, SubmitFails(r) \/ PollFails(r)
  PROVE  TypeOK'
<1>1. runner[r] \in Running BY RunningType DEF SubmitFails, PollFails
<1>2. faults' \in 0 .. MaxFaults BY DEF SubmitFails, PollFails, Fault, TypeOK
<1>3. GiveUp(r) \/ Setback(r) BY DEF SubmitFails, PollFails
<1> QED BY <1>1, <1>2, <1>3, GiveUpType, SetbackType
     DEF SubmitFails, PollFails, TypeOK, server, visits

\* The end of a PATCH.
LEMMA PatchType ==
  ASSUME TypeOK, NEW m \in patches, EndPatch(m)
  PROVE  TypeOK'
<1>1. m.image \in Images /\ m.status \in Shown BY DEF TypeOK
<1>2. gallery' \in Statuses BY <1>1, SetResultType DEF TypeOK, EndPatch
<1>3. faults' \in 0 .. MaxFaults BY DEF EndPatch, Fault, TypeOK
<1> QED BY <1>2, <1>3 DEF TypeOK, EndPatch, visits

\* Every variable of the workspace has its type in every reachable state.
THEOREM WorkspaceTypes == Spec => []TypeOK
<1>1. Init => TypeOK
  BY DEF Init, TypeOK, Nothing, NoLoad, NoPost, Statuses, Shown, Idle
<1>2. TypeOK /\ [Next]_vars => TypeOK'
  <2> SUFFICES ASSUME TypeOK, [Next]_vars PROVE TypeOK' OBVIOUS
  <2>1. CASE UNCHANGED vars BY <2>1 DEF vars, server, visits, runs, TypeOK
  <2>2. ASSUME NEW t \in Tabs, GuardExpires(t) PROVE TypeOK'
    BY <2>2 DEF TypeOK, GuardExpires, Lapse, server
  <2> QED BY <2>1, <2>2, ServerType, UserType, PageType, RunnerType, FailureType, PatchType DEF Next
<1> QED BY <1>1, <1>2, PTL DEF Spec

-----------------------------------------------------------------------------
(* Truth. ShownIsTrue is not inductive: what a page shows comes from answers  *)
(* given earlier, so every copy on its way has to be true as well.            *)

TrueCopies ==
  /\ AllTrue(gallery)
  /\ AllTrue(word)
  /\ \A p \in Pages :
       /\ AllTrue(local[p])
       /\ load[p].pc = "answered" => AllTrue(load[p].images)
       /\ post[p].pc # "none" => AllTrue(post[p].images)
  /\ \A r \in Runners : runner[r].pc # "idle" => AllTrue(runner[r].got)
  /\ \A m \in patches : TrueOf(m.image, m.status)

\* What makes a true copy stay true: a task that ended keeps its outcome, and a
\* failure is not forgotten.
Lasting ==
  /\ \A i \in Images : task[i] \in Ended => task'[i] = task[i]
  /\ faults' = 0 => faults = 0

\* Every step has that.
LEMMA StepLasts == ASSUME TypeOK, Next PROVE Lasting
<1>1. ASSUME NEW i \in Images, ServerStep(i) PROVE Lasting
  BY <1>1 DEF ServerStep, TellGallery, EndTask, Fault, TypeOK, Lasting, Ended
<1>2. CASE UserStep
  BY <1>2 DEF UserStep, Visit, Refresh, Leave, Close, SubmitTurn, RetryImage, server, Lasting
<1>3. ASSUME NEW p \in Pages, PageStep(p) PROVE Lasting
  BY <1>3 DEF PageStep, AnswerHistory, ShowHistory, HandlePost, EndPost, CallRunner, Fault,
    TypeOK, server, Lasting
<1>4. ASSUME NEW r \in Runners, NEW i \in Images, HandleSubmit(r, i) PROVE Lasting
  BY <1>4 DEF HandleSubmit, Accepted, TypeOK, Lasting, Ended
<1>5. ASSUME NEW r \in Runners,
             \/ HandlePoll(r) \/ ApplyTasks(r) \/ SyncResults(r) \/ Resubmit(r) \/ NextRound(r)
      PROVE  Lasting
  BY <1>5 DEF HandlePoll, ApplyTasks, SyncResults, Resubmit, NextRound, server, Lasting
<1>6. ASSUME NEW r \in Runners, SubmitFails(r) \/ PollFails(r) PROVE Lasting
  BY <1>6 DEF SubmitFails, PollFails, Fault, TypeOK, server, Lasting
<1>7. ASSUME NEW m \in patches, EndPatch(m) PROVE Lasting
  BY <1>7 DEF EndPatch, Fault, TypeOK, Lasting
<1>8. ASSUME NEW t \in Tabs, GuardExpires(t) PROVE Lasting
  BY <1>8 DEF GuardExpires, server, Lasting
<1> QED BY <1>1, <1>2, <1>3, <1>4, <1>5, <1>6, <1>7, <1>8 DEF Next, RunnerStep

\* What TrueOf and AllTrue say after a step, of a status before or after it.
StaysTrue(i, status) ==
  /\ status = "success" => task'[i] = "success"
  /\ status = "error" /\ faults' = 0 => task'[i] = "error"

AllStayTrue(l) == \A i \in Images : StaysTrue(i, l[i])

\* TrueCopies after a step, of the copies before or after it.
CopiesStayTrue(gal, wrd, loc, lod, pst, run, pts) ==
  /\ AllStayTrue(gal)
  /\ AllStayTrue(wrd)
  /\ \A p \in Pages :
       /\ AllStayTrue(loc[p])
       /\ lod[p].pc = "answered" => AllStayTrue(lod[p].images)
       /\ pst[p].pc # "none" => AllStayTrue(pst[p].images)
  /\ \A r \in Runners : run[r].pc # "idle" => AllStayTrue(run[r].got)
  /\ \A m \in pts : StaysTrue(m.image, m.status)

Kept == CopiesStayTrue(gallery, word, local, load, post, runner, patches)
Reached == CopiesStayTrue(gallery', word', local', load', post', runner', patches')

\* The copies that were true stay true.
LEMMA CopiesKept == ASSUME TypeOK, Lasting, TrueCopies PROVE Kept
<1>1. ASSUME NEW i \in Images, NEW status, TrueOf(i, status) PROVE StaysTrue(i, status)
  BY <1>1 DEF Lasting, TrueOf, StaysTrue, Ended
<1>2. ASSUME NEW l, AllTrue(l) PROVE AllStayTrue(l) BY <1>1, <1>2 DEF AllTrue, AllStayTrue
<1>3. \A m \in patches : m.image \in Images BY DEF TypeOK
<1> QED BY <1>1, <1>2, <1>3 DEF TrueCopies, Kept, CopiesStayTrue

\* An image of which nothing is known is shown truly.
LEMMA NothingTrue == AllStayTrue(Nothing)
BY DEF Nothing, AllStayTrue, StaysTrue

\* What a runner becomes keeps the runners' answers true.
LEMMA BecomeTrue ==
  ASSUME TypeOK, Kept, NEW r \in Runners, NEW s, Become(r, s), s.pc # "idle" => AllStayTrue(s.got)
  PROVE  \A q \in Runners : runner'[q].pc # "idle" => AllStayTrue(runner'[q].got)
BY DEF TypeOK, Kept, CopiesStayTrue, Become

\* A page that sets its conversations to what is true shows what is true.
LEMMA SetLocalTrue ==
  ASSUME TypeOK, Kept, NEW p \in Pages, NEW l, SetLocal(p, l), AllStayTrue(l)
  PROVE  \A q \in Pages : AllStayTrue(local'[q])
BY DEF TypeOK, Kept, CopiesStayTrue, SetLocal

\* A runner that ends, or starts on another turn, holds no answer.
LEMMA FinishTrue ==
  ASSUME TypeOK, Kept, NEW r \in Runners, NEW l, Finish(r, l)
  PROVE  \A q \in Runners : runner'[q].pc # "idle" => AllStayTrue(runner'[q].got)
<1>1. CASE Become(r, Idle) BY <1>1, BecomeTrue DEF Idle
<1>2. CASE \E s \in Started(runner[r].page, l) : Become(r, s)
  BY <1>2, NothingTrue, BecomeTrue DEF Started
<1> QED BY <1>1, <1>2 DEF Finish

\* A runner that gives up shows errors that are not the task's: but a request
\* has failed then.
LEMMA GiveUpTrue ==
  ASSUME TypeOK, Kept, NEW r \in Runners, runner[r] \in Running, GiveUp(r), faults' # 0
  PROVE  /\ \A p \in Pages : AllStayTrue(local'[p])
         /\ \A q \in Runners : runner'[q].pc # "idle" => AllStayTrue(runner'[q].got)
<1> DEFINE s == runner[r]
           l == [i \in Images |-> IF i \in Of(s.turn) \intersect Loading(local[s.page])
                                  THEN "error" ELSE local[s.page][i]]
<1>1. s.page \in Pages BY DEF Running
<1>2. AllStayTrue(l) BY <1>1 DEF Kept, CopiesStayTrue, AllStayTrue, StaysTrue
<1>3. SetLocal(s.page, l) /\ Finish(r, l) BY DEF GiveUp
<1> HIDE DEF l
<1> QED BY <1>1, <1>2, <1>3, SetLocalTrue, FinishTrue

\* So does one that goes on, and what it holds is no longer used.
LEMMA SetbackTrue ==
  ASSUME TypeOK, Kept, NEW r \in Runners, runner[r] \in Running, Setback(r), faults' # 0
  PROVE  /\ \A p \in Pages : AllStayTrue(local'[p])
         /\ \A q \in Runners : runner'[q].pc # "idle" => AllStayTrue(runner'[q].got)
<1>1. CASE GiveUp(r) BY <1>1, GiveUpTrue
<1>2. CASE /\ Become(r, [runner[r] EXCEPT !.pc = "patching", !.todo = {}, !.got = Nothing, !.errors = @ + 1])
           /\ UNCHANGED <<local, due, guard>>
  <2>1. [runner[r] EXCEPT !.pc = "patching", !.todo = {}, !.got = Nothing, !.errors = @ + 1].got = Nothing
    BY DEF Running
  <2>2. AllStayTrue([runner[r] EXCEPT !.pc = "patching", !.todo = {}, !.got = Nothing, !.errors = @ + 1].got)
    BY <2>1, NothingTrue
  <2>3. \A q \in Runners : runner'[q].pc # "idle" => AllStayTrue(runner'[q].got)
    BY <1>2, <2>2, BecomeTrue
  <2> QED BY <1>2, <2>3 DEF Kept, CopiesStayTrue
<1> QED BY <1>1, <1>2 DEF Setback

\* The gallery stays true when it is told what is true.
LEMMA SetResultTrue ==
  ASSUME TypeOK, Kept, NEW i \in Images, NEW status, StaysTrue(i, status), SetResult(i, status)
  PROVE  AllStayTrue(gallery')
BY DEF TypeOK, Kept, CopiesStayTrue, SetResult, AllStayTrue, StaysTrue, Statuses

\* What the server does of itself tells the gallery what the task is.
LEMMA ServerTrue ==
  ASSUME TypeOK, Kept, NEW i \in Images, ServerStep(i)
  PROVE  Reached
<1>1. CASE TellGallery(i)
  <2>1. StaysTrue(i, word[i]) /\ AllStayTrue(gallery)
    BY DEF Kept, CopiesStayTrue, AllStayTrue
  <2>2. AllStayTrue(gallery') BY <1>1, <2>1, SetResultTrue DEF TellGallery
  <2>3. AllStayTrue(word')
    BY <1>1 DEF TypeOK, Statuses, TellGallery, Kept, CopiesStayTrue, AllStayTrue, StaysTrue
  <2> QED BY <1>1, <2>2, <2>3 DEF TellGallery, Kept, Reached, CopiesStayTrue, visits, runs
<1>2. CASE EndTask(i)
  <2>1. AllStayTrue(word')
    BY <1>2 DEF TypeOK, Statuses, EndTask, Kept, CopiesStayTrue, AllStayTrue, StaysTrue
  <2> QED BY <1>2, <2>1 DEF EndTask, Kept, Reached, CopiesStayTrue, visits, runs
<1> QED BY <1>1, <1>2 DEF ServerStep

\* What the user does adds images that are loading, or takes copies away.
LEMMA UserTrue ==
  ASSUME TypeOK, Kept, UserStep
  PROVE  Reached
<1>1. ASSUME NEW p \in Pages, Visit(p) \/ Refresh(p) \/ Leave(p) PROVE Reached
  <2>1. \A q \in Pages : load'[q].pc = "answered" => load'[q] = load[q]
    BY <1>1 DEF Visit, Refresh, Leave, NoLoad, TypeOK
  <2> QED BY <1>1, <2>1 DEF Visit, Refresh, Leave, server, runs, Kept, Reached, CopiesStayTrue
<1>2. ASSUME NEW t \in Tabs, Close(t) PROVE Reached
  <2>1. \A q \in Pages :
          /\ local'[q] \in {local[q], Nothing}
          /\ load'[q].pc = "answered" => load'[q] = load[q]
          /\ post'[q].pc # "none" => post'[q] = post[q]
    BY <1>2 DEF Close, NoLoad, NoPost
  <2>2. \A r \in Runners : runner'[r].pc # "idle" => runner'[r] = runner[r]
    BY <1>2 DEF Close
  <2>3. patches' \subseteq patches BY <1>2 DEF Close
  <2> QED BY <1>2, <2>1, <2>2, <2>3, NothingTrue DEF Close, server, Kept, Reached, CopiesStayTrue
<1>3. ASSUME NEW p \in Pages, NEW t \in Turns, NEW l, AllStayTrue(l), Persist(p, t, l)
      PROVE  /\ \A q \in Pages : AllStayTrue(local'[q])
             /\ \A q \in Pages : post'[q].pc # "none" => AllStayTrue(post'[q].images)
  <2> DEFINE sent == [i \in Images |-> IF i \in Of(t) THEN l[i] ELSE "none"]
  <2>1. AllStayTrue(sent) BY <1>3 DEF AllStayTrue, StaysTrue
  <2>2. post' = [post EXCEPT ![p] = [pc |-> "sent", turn |-> t, images |-> sent]]
    BY <1>3 DEF Persist
  <2>3. SetLocal(p, l) BY <1>3 DEF Persist
  <2> HIDE DEF sent
  <2> QED BY <1>3, <2>1, <2>2, <2>3, SetLocalTrue DEF Kept, CopiesStayTrue, TypeOK
<1>4. ASSUME NEW p \in Pages, NEW t \in Turns, SubmitTurn(p, t) PROVE Reached
  <2> DEFINE new == First \intersect Of(t)
             l == [i \in Images |-> IF i \in new THEN "loading" ELSE local[p][i]]
  <2>1. AllStayTrue(l) BY DEF Kept, CopiesStayTrue, AllStayTrue, StaysTrue
  <2>2. Persist(p, t, l) BY <1>4 DEF SubmitTurn
  <2> HIDE DEF l
  <2> QED BY <1>3, <1>4, <2>1, <2>2 DEF SubmitTurn, server, runs, Kept, Reached, CopiesStayTrue
<1>5. ASSUME NEW p \in Pages, NEW i \in Images, NEW j \in Images, RetryImage(p, i, j) PROVE Reached
  <2> DEFINE l == [local[p] EXCEPT ![i] = "none", ![j] = "loading"]
  <2>1. AllStayTrue(l)
    BY DEF Kept, CopiesStayTrue, AllStayTrue, StaysTrue, TypeOK, Statuses
  <2>2. Persist(p, TurnOf[i], l) BY <1>5 DEF RetryImage
  <2> HIDE DEF l
  <2> QED BY <1>3, <1>5, <2>1, <2>2 DEF RetryImage, server, runs, Kept, Reached, CopiesStayTrue
<1> QED BY <1>1, <1>2, <1>4, <1>5 DEF UserStep

\* Requests of a page carry copies of what it shows, answers copies of the gallery.
LEMMA PageTrue ==
  ASSUME TypeOK, Kept, NEW p \in Pages, PageStep(p)
  PROVE  Reached
<1>1. CASE AnswerHistory(p)
  BY <1>1 DEF AnswerHistory, server, runs, TypeOK, Kept, Reached, CopiesStayTrue
<1>2. CASE ShowHistory(p)
  <2>1. AllStayTrue(load[p].images) /\ SetLocal(p, load[p].images)
    BY <1>2 DEF ShowHistory, Kept, CopiesStayTrue
  <2>2. \A q \in Pages : AllStayTrue(local'[q]) BY <2>1, SetLocalTrue
  <2>3. \A q \in Pages : load'[q].pc = "answered" => load'[q] = load[q]
    BY <1>2 DEF ShowHistory, NoLoad, TypeOK
  <2> QED BY <1>2, <2>2, <2>3 DEF ShowHistory, server, runs, Kept, Reached, CopiesStayTrue
<1>3. CASE HandlePost(p)
  <2>1. post[p] \in Posted BY <1>3 DEF TypeOK, HandlePost, NoPost
  <2>2. AllStayTrue(gallery')
    BY <1>3, <2>1 DEF HandlePost, Posted, Kept, CopiesStayTrue, AllStayTrue
  <2>3. \A q \in Pages : post'[q].pc # "none" => AllStayTrue(post'[q].images)
    BY <1>3, <2>1, <2>2 DEF HandlePost, Posted, Kept, CopiesStayTrue, TypeOK
  <2> QED BY <1>3, <2>2, <2>3 DEF HandlePost, visits, runs, Kept, Reached, CopiesStayTrue
<1>4. CASE EndPost(p)
  <2>1. \A q \in Pages : AllStayTrue(local'[q])
    BY <1>4 DEF EndPost, Kept, CopiesStayTrue, TypeOK
  <2>2. \A q \in Pages : post'[q].pc # "none" => post'[q] = post[q]
    BY <1>4 DEF EndPost, NoPost, TypeOK
  <2> QED BY <1>4, <2>1, <2>2 DEF EndPost, server, visits, runs, Kept, Reached, CopiesStayTrue
<1>5. CASE CallRunner(p)
  <2>1. CASE UNCHANGED runner
    BY <1>5, <2>1 DEF CallRunner, server, visits, Kept, Reached, CopiesStayTrue
  <2>2. CASE \E r \in Runners, s \in Started(p, local[p]) : runner' = [runner EXCEPT ![r] = s]
    <3>1. PICK r \in Runners, s \in Started(p, local[p]) : Become(r, s) BY <2>2 DEF Become
    <3>2. AllStayTrue(s.got) BY <3>1, NothingTrue DEF Started
    <3>3. \A q \in Runners : runner'[q].pc # "idle" => AllStayTrue(runner'[q].got)
      BY <3>1, <3>2, BecomeTrue
    <3> QED BY <1>5, <3>3 DEF CallRunner, server, visits, Kept, Reached, CopiesStayTrue
  <2> QED BY <1>5, <2>1, <2>2 DEF CallRunner
<1> QED BY <1>1, <1>2, <1>3, <1>4, <1>5 DEF PageStep

\* A runner passes on what the tasks were when it asked.
LEMMA RunnerTrue ==
  ASSUME TypeOK, Kept, NEW r \in Runners, RunnerStep(r)
  PROVE  Reached
<1>1. ASSUME NEW i \in Images, HandleSubmit(r, i) PROVE Reached
  <2> DEFINE s == runner[r]
             n == [s EXCEPT !.todo = @ \ {i}, !.got[i] = AsImage(task'[i])]
  <2>1. s \in Running BY <1>1, RunningType DEF HandleSubmit
  <2>2. n.got = [s.got EXCEPT ![i] = AsImage(task'[i])] BY <2>1 DEF Running
  <2>3. StaysTrue(i, AsImage(task'[i])) BY DEF AsImage, StaysTrue
  <2>4. AllStayTrue(s.got) BY <1>1 DEF HandleSubmit, Kept, CopiesStayTrue
  <2>5. s.got \in Statuses BY <2>1 DEF Running
  <2>6. AllStayTrue([s.got EXCEPT ![i] = AsImage(task'[i])])
    BY <2>3, <2>4, <2>5 DEF AllStayTrue, Statuses
  <2>7. Become(r, n) BY <1>1 DEF HandleSubmit
  <2>8. AllStayTrue(word')
    BY <1>1 DEF TypeOK, Statuses, HandleSubmit, Kept, CopiesStayTrue, AllStayTrue, StaysTrue
  <2> HIDE DEF n
  <2>9. \A q \in Runners : runner'[q].pc # "idle" => AllStayTrue(runner'[q].got)
    BY <2>2, <2>6, <2>7, BecomeTrue
  <2> QED BY <1>1, <2>8, <2>9 DEF HandleSubmit, visits, Kept, Reached, CopiesStayTrue
<1>2. CASE HandlePoll(r)
  <2> DEFINE s == runner[r]
             missing == {i \in s.todo : task[i] = "absent"}
             got == [i \in Images |-> IF i \in s.todo \ missing THEN AsImage(task[i]) ELSE "none"]
             n == [s EXCEPT !.pc = "polled", !.errors = 0, !.todo = missing, !.got = got]
  <2>1. s \in Running BY <1>2, RunningType DEF HandlePoll
  <2>2. task' = task BY <1>2 DEF HandlePoll, server
  <2>3. AllStayTrue(got) BY <2>2 DEF AllStayTrue, StaysTrue, AsImage
  <2>4. Become(r, n) BY <1>2 DEF HandlePoll
  <2> HIDE DEF s, got, missing
  <2>5. n.got = got BY <2>1 DEF Running
  <2> HIDE DEF n
  <2>6. \A q \in Runners : runner'[q].pc # "idle" => AllStayTrue(runner'[q].got)
    BY <2>3, <2>4, <2>5, BecomeTrue
  <2> QED BY <1>2, <2>6 DEF HandlePoll, server, visits, Kept, Reached, CopiesStayTrue
<1>3. CASE ApplyTasks(r)
  <2> DEFINE s == runner[r]
             l == [i \in Images |-> IF s.got[i] # "none" /\ local[s.page][i] # "none"
                                    THEN s.got[i] ELSE local[s.page][i]]
             n == [s EXCEPT !.pc = "applied"]
  <2>1. s \in Running BY <1>3, RunningType DEF ApplyTasks
  <2>2. s.page \in Pages BY <2>1 DEF Running
  <2>3. AllStayTrue(s.got) BY <1>3 DEF ApplyTasks, Kept, CopiesStayTrue
  <2>4. AllStayTrue(l) BY <2>2, <2>3 DEF Kept, CopiesStayTrue, AllStayTrue
  <2>5. SetLocal(s.page, l) /\ Become(r, n) BY <1>3 DEF ApplyTasks
  <2>6. n.got = s.got BY <2>1 DEF Running
  <2> HIDE DEF l, n
  <2>7. \A q \in Runners : runner'[q].pc # "idle" => AllStayTrue(runner'[q].got)
    BY <2>3, <2>5, <2>6, BecomeTrue
  <2>8. \A p \in Pages : AllStayTrue(local'[p]) BY <2>2, <2>4, <2>5, SetLocalTrue
  <2> QED BY <1>3, <2>7, <2>8 DEF ApplyTasks, server, visits, Kept, Reached, CopiesStayTrue
<1>4. CASE SyncResults(r)
  <2> DEFINE s == runner[r]
             shown == local[s.page]
             n == [s EXCEPT !.pc = "patching", !.got = Nothing]
  <2>1. s \in Running BY <1>4, RunningType DEF SyncResults
  <2>2. s.page \in Pages BY <2>1 DEF Running
  <2>3. PICK sent \in SUBSET Images :
          patches' = patches \union {[runner |-> r, image |-> i, status |-> shown[i]] : i \in sent}
    BY <1>4 DEF SyncResults, Loading
  <2>4. AllStayTrue(shown) BY <2>2 DEF Kept, CopiesStayTrue
  <2>5. \A m \in patches' : StaysTrue(m.image, m.status)
    BY <2>3, <2>4 DEF Kept, CopiesStayTrue, AllStayTrue
  <2>6. n.got = Nothing /\ Become(r, n) BY <1>4, <2>1 DEF SyncResults, Running
  <2> HIDE DEF n
  <2>7. \A q \in Runners : runner'[q].pc # "idle" => AllStayTrue(runner'[q].got)
    BY <2>6, NothingTrue, BecomeTrue
  <2> QED BY <1>4, <2>5, <2>7 DEF SyncResults, server, visits, Kept, Reached, CopiesStayTrue
<1>5. CASE Resubmit(r)
  <2>1. runner[r] \in Running BY <1>5, RunningType DEF Resubmit
  <2>2. [runner[r] EXCEPT !.pc = "resubmit"].got = runner[r].got BY <2>1 DEF Running
  <2>3. AllStayTrue(runner[r].got) BY <1>5 DEF Resubmit, Kept, CopiesStayTrue
  <2>4. \A q \in Runners : runner'[q].pc # "idle" => AllStayTrue(runner'[q].got)
    BY <1>5, <2>2, <2>3, BecomeTrue DEF Resubmit
  <2> QED BY <1>5, <2>4 DEF Resubmit, server, visits, Kept, Reached, CopiesStayTrue
<1>6. CASE NextRound(r)
  <2> DEFINE s == runner[r]
             left == Loading(local[s.page]) \intersect Of(s.turn)
  <2>1. s \in Running BY <1>6, RunningType DEF NextRound
  <2>2. \A q \in Runners : runner'[q].pc # "idle" => AllStayTrue(runner'[q].got)
    <3>1. CASE Become(r, [s EXCEPT !.pc = "polling", !.todo = left])
      <4>1. [s EXCEPT !.pc = "polling", !.todo = left].got = s.got BY <2>1 DEF Running
      <4>2. AllStayTrue(s.got) BY <1>6 DEF NextRound, Kept, CopiesStayTrue
      <4> QED BY <3>1, <4>1, <4>2, BecomeTrue
    <3>2. CASE Finish(r, local[s.page]) BY <3>2, FinishTrue
    <3> QED BY <1>6, <3>1, <3>2 DEF NextRound
  <2> QED BY <1>6, <2>2 DEF NextRound, server, visits, Kept, Reached, CopiesStayTrue
<1> QED BY <1>1, <1>2, <1>3, <1>4, <1>5, <1>6 DEF RunnerStep

\* After a failure an error on a page says nothing of the task, and no success
\* is shown that was not.
LEMMA FailureTrue ==
  ASSUME TypeOK, Kept, NEW r \in Runners, SubmitFails(r) \/ PollFails(r)
  PROVE  Reached
<1>1. runner[r] \in Running BY RunningType DEF SubmitFails, PollFails
<1>2. faults' # 0 BY DEF SubmitFails, PollFails, Fault, TypeOK
<1>3. GiveUp(r) \/ Setback(r) BY DEF SubmitFails, PollFails
<1>4. /\ \A p \in Pages : AllStayTrue(local'[p])
      /\ \A q \in Runners : runner'[q].pc # "idle" => AllStayTrue(runner'[q].got)
  BY <1>1, <1>2, <1>3, GiveUpTrue, SetbackTrue
<1> QED BY <1>4 DEF SubmitFails, PollFails, server, visits, Kept, Reached, CopiesStayTrue

\* A PATCH tells the gallery what the page showed.
LEMMA PatchTrue ==
  ASSUME TypeOK, Kept, NEW m \in patches, EndPatch(m)
  PROVE  Reached
<1>1. m.image \in Images BY DEF TypeOK
<1>2. StaysTrue(m.image, m.status) BY DEF Kept, CopiesStayTrue
<1>3. AllStayTrue(gallery')
  BY <1>1, <1>2, SetResultTrue DEF EndPatch, Kept, CopiesStayTrue
<1>4. patches' \subseteq patches BY DEF EndPatch
<1> QED BY <1>3, <1>4 DEF EndPatch, visits, Kept, Reached, CopiesStayTrue

\* What a page or the gallery shows of an image is true of its task, for any
\* number of tabs, pages and runners, whatever leaves, expires and fails.
THEOREM ShownIsAlwaysTrue == Spec => []ShownIsTrue
<1>1. Init => TrueCopies
  BY DEF Init, TrueCopies, AllTrue, TrueOf, Nothing, NoLoad, NoPost, Idle
<1>2. TypeOK /\ TrueCopies /\ [Next]_vars => TrueCopies'
  <2> SUFFICES ASSUME TypeOK, TrueCopies, [Next]_vars PROVE TrueCopies' OBVIOUS
  <2>1. CASE UNCHANGED vars
    BY <2>1 DEF vars, server, visits, runs, TrueCopies, AllTrue, TrueOf
  <2>2. CASE Next
    <3>1. Kept BY <2>2, StepLasts, CopiesKept
    <3>2. ASSUME NEW t \in Tabs, GuardExpires(t) PROVE Reached
      BY <3>1, <3>2 DEF GuardExpires, server, Kept, Reached, CopiesStayTrue
    <3>3. Reached
      BY <2>2, <3>1, <3>2, ServerTrue, UserTrue, PageTrue, RunnerTrue, FailureTrue, PatchTrue DEF Next
    <3> QED BY <3>3 DEF Reached, CopiesStayTrue, AllStayTrue, StaysTrue, TrueCopies, AllTrue, TrueOf
  <2> QED BY <2>1, <2>2
<1>3. TrueCopies => ShownIsTrue BY DEF TrueCopies, ShownIsTrue
<1> QED BY <1>1, <1>2, <1>3, WorkspaceTypes, PTL DEF Spec


-----------------------------------------------------------------------------
(* Attention. A runner of an open page is told by its page.                   *)

Working(p) == \E r \in Runners : runner[r] # Idle /\ runner[r].page = p

\* No page is left in a tab that is to show another one.
OneVisit == \A p, q \in Pages : TabOf[p] = TabOf[q] /\ p # q => p \notin Leavers

\* A page was left in the tab, and still goes on with what it began.
Left(t) == \E q \in Pages : TabOf[q] = t /\ page[q] = "left"

\* A page that is there, on the screen or not.
Visited(p) == page[p] \in {"open", "left"}

\* A page that is not there has nothing under way.
Untouched(p) ==
  local[p] = Nothing /\ load[p] = NoLoad /\ post[p] = NoPost /\ ~due[p] /\ ~Working(p)

\* What is loading on an open page is attended, unless a page was left in its tab.
AttendedOrLeft ==
  \A p \in Pages : page[p] = "open" /\ Loading(local[p]) # {} => due[p] \/ Working(p) \/ Left(TabOf[p])

\* A tab shows one page, and its guard is that of a runner at work, unless a page was left.
AttendedInv ==
  /\ \A p, q \in Pages : TabOf[p] = TabOf[q] /\ page[p] = "open" /\ page[q] = "open" => p = q
  /\ \A p \in Pages : page[p] = "left" => p \in Leavers
  /\ \A p \in Pages : ~Visited(p) => Untouched(p)
  /\ \A t \in Tabs : guard[t] => Left(t) \/ \E p \in Pages : TabOf[p] = t /\ Working(p)
  /\ AttendedOrLeft

\* The runner of a tab's guard is that of its open page, unless a page was left.
LEMMA OwnGuard ==
  ASSUME TypeOK, AttendedInv, NEW p \in Pages, page[p] = "open", guard[TabOf[p]], ~Left(TabOf[p])
  PROVE  Working(p)
<1>1. TabOf[p] \in Tabs OBVIOUS
<1>2. PICK q \in Pages : TabOf[q] = TabOf[p] /\ Working(q) BY <1>1 DEF AttendedInv
<1>3. Visited(q) BY <1>2 DEF AttendedInv, Untouched
<1>4. page[q] = "open" BY <1>2, <1>3 DEF Visited, Left
<1>5. q = p BY <1>2, <1>4 DEF AttendedInv
<1> QED BY <1>2, <1>5

\* A runner at work is on a page that is there.
LEMMA AtWork ==
  ASSUME TypeOK, AttendedInv, NEW r \in Runners, runner[r] # Idle
  PROVE  runner[r] \in Running /\ runner[r].page \in Pages /\ Visited(runner[r].page)
<1>1. runner[r] \in Running BY DEF TypeOK
<1>2. runner[r].page \in Pages BY <1>1 DEF Running
<1>3. Working(runner[r].page) BY DEF Working
<1> QED BY <1>1, <1>2, <1>3 DEF AttendedInv, Untouched

\* What concerns one page that is there, and leaves it attended.
LEMMA PageKeepsAttended ==
  ASSUME TypeOK, AttendedInv, NEW p \in Pages, Visited(p), page' = page,
         \A q \in Pages : q # p => /\ local'[q] = local[q] /\ load'[q] = load[q] /\ post'[q] = post[q]
                                   /\ due'[q] = due[q] /\ (Working(q)' <=> Working(q)),
         \A t \in Tabs : t # TabOf[p] => guard'[t] = guard[t],
         page[p] = "open" /\ Loading(local'[p]) # {} => due'[p] \/ Working(p)' \/ Left(TabOf[p]),
         guard'[TabOf[p]] => Working(p)' \/ Left(TabOf[p])
  PROVE  AttendedInv'
<1>1. \A t : Left(t)' <=> Left(t) BY DEF Left
<1>2. \A q \in Pages : ~Visited(q)' => Untouched(q)'
  BY DEF AttendedInv, Visited, Untouched, Nothing, NoLoad, NoPost
<1>3. ASSUME NEW t \in Tabs, guard'[t] PROVE Left(t)' \/ \E q \in Pages : TabOf[q] = t /\ Working(q)'
  <2>1. CASE t = TabOf[p] BY <1>1, <1>3, <2>1
  <2>2. CASE t # TabOf[p] /\ ~Left(t)
    <3>1. PICK q \in Pages : TabOf[q] = t /\ Working(q) BY <1>3, <2>2 DEF AttendedInv
    <3> QED BY <2>2, <3>1
  <2> QED BY <1>1, <2>1, <2>2
<1>4. ASSUME NEW q \in Pages, page'[q] = "open", Loading(local'[q]) # {}
      PROVE  due'[q] \/ Working(q)' \/ Left(TabOf[q])
  <2>1. CASE q = p BY <1>4, <2>1
  <2>2. CASE q # p
    <3>1. page[q] = "open" /\ Loading(local[q]) # {} BY <1>4, <2>2
    <3>2. due[q] \/ Working(q) \/ Left(TabOf[q]) BY <3>1 DEF AttendedInv, AttendedOrLeft
    <3> QED BY <2>2, <3>2
  <2> QED BY <2>1, <2>2
<1>5. AttendedOrLeft'
  BY <1>1, <1>4 DEF AttendedOrLeft, Loading
<1> QED BY <1>2, <1>3, <1>5 DEF AttendedInv

\* What leaves the guards and the runners alone, and has a page called again
\* that shows something new.
LEMMA CallKeepsAttended ==
  ASSUME TypeOK, AttendedInv, NEW p \in Pages, Visited(p), page' = page,
         \A q \in Pages : q # p => /\ local'[q] = local[q] /\ load'[q] = load[q] /\ post'[q] = post[q]
                                   /\ due'[q] = due[q],
         UNCHANGED runner, \A t \in Tabs : guard'[t] => guard[t],
         \A t \in Tabs : t # TabOf[p] => guard'[t] = guard[t],
         page[p] = "open" => due'[p] \/ (local'[p] = local[p] /\ due'[p] = due[p])
  PROVE  AttendedInv'
<1>1. \A q \in Pages : Working(q)' <=> Working(q)
  BY DEF Working
<1>2. guard'[TabOf[p]] => Working(p)' \/ Left(TabOf[p])
  <2>1. page[p] = "left" => Left(TabOf[p]) BY DEF Left
  <2> QED BY <1>1, <2>1, OwnGuard DEF Visited
<1>3. page[p] = "open" /\ Loading(local'[p]) # {} => due'[p] \/ Working(p)' \/ Left(TabOf[p])
  BY <1>1 DEF AttendedInv, AttendedOrLeft
<1> QED BY <1>1, <1>2, <1>3, PageKeepsAttended

\* A page that sets its conversations.
LEMMA SetLocalCalls ==
  ASSUME TypeOK, NEW p \in Pages, NEW l, SetLocal(p, l)
  PROVE  /\ \A q \in Pages : q # p => local'[q] = local[q] /\ due'[q] = due[q]
         /\ local'[p] = l /\ (page[p] = "open" => due'[p])
BY DEF TypeOK, SetLocal

\* What the user does to pages.
LEMMA UserAttends ==
  ASSUME TypeOK, AttendedInv, UserStep
  PROVE  AttendedInv'
<1>1. ASSUME NEW p \in Pages, Visit(p) PROVE AttendedInv'
  <2>1. /\ page[p] = "fresh" /\ page' = [page EXCEPT ![p] = "open"]
        /\ \A q \in Pages : TabOf[q] = TabOf[p] => page[q] # "open"
        /\ \A q \in Pages : q # p => load'[q] = load[q]
        /\ UNCHANGED <<local, post, due, guard, runner>>
    BY <1>1 DEF Visit, runs, TypeOK
  <2>2. \A q \in Pages : page'[q] = IF q = p THEN "open" ELSE page[q] BY <2>1 DEF TypeOK
  <2>3. \A q \in Pages : Working(q)' <=> Working(q) BY <2>1 DEF Working
  <2>4. \A t : Left(t)' <=> Left(t) BY <2>1, <2>2 DEF Left
  <2>5. \A q, s \in Pages : TabOf[q] = TabOf[s] /\ page'[q] = "open" /\ page'[s] = "open" => q = s
    BY <2>1, <2>2 DEF AttendedInv
  <2>6. \A q \in Pages : page'[q] = "left" => q \in Leavers BY <2>2 DEF AttendedInv
  <2>7. \A q \in Pages : ~Visited(q)' => Untouched(q)'
    BY <2>1, <2>2, <2>3 DEF AttendedInv, Visited, Untouched, Nothing, NoLoad, NoPost
  <2>8. \A t \in Tabs : guard'[t] => Left(t)' \/ \E q \in Pages : TabOf[q] = t /\ Working(q)'
    BY <2>1, <2>3, <2>4 DEF AttendedInv
  <2>9. Loading(local[p]) = {} BY <2>1 DEF AttendedInv, Visited, Untouched, Nothing, Loading
  <2>10. AttendedOrLeft'
    BY <2>1, <2>2, <2>3, <2>4, <2>9 DEF AttendedInv, AttendedOrLeft, Loading
  <2> QED BY <2>5, <2>6, <2>7, <2>8, <2>10 DEF AttendedInv
<1>2. ASSUME NEW p \in Pages, Refresh(p) PROVE AttendedInv'
  <2>1. /\ page[p] = "open" /\ page' = page /\ UNCHANGED <<local, post, due, runner>>
        /\ \A q \in Pages : q # p => load'[q] = load[q]
        /\ \A t \in Tabs : guard'[t] => guard[t]
        /\ \A t \in Tabs : t # TabOf[p] => guard'[t] = guard[t]
    BY <1>2 DEF Refresh, TypeOK
  <2> QED BY <2>1, CallKeepsAttended DEF Visited
<1>3. ASSUME NEW p \in Pages, Leave(p) PROVE AttendedInv'
  <2>1. /\ page[p] = "open" /\ p \in Leavers /\ UNCHANGED <<local, post, runner>>
        /\ \A q \in Pages : page'[q] = IF q = p THEN "left" ELSE page[q]
        /\ \A q \in Pages : q # p => load'[q] = load[q] /\ due'[q] = due[q]
        /\ \A t \in Tabs : guard'[t] => guard[t]
    BY <1>3 DEF Leave, TypeOK
  <2>2. \A q \in Pages : Working(q)' <=> Working(q) BY <2>1 DEF Working
  <2>3. \A t : Left(t) => Left(t)' BY <2>1 DEF Left
  <2>4. \A q \in Pages : ~Visited(q)' => Untouched(q)'
    BY <2>1, <2>2 DEF AttendedInv, Visited, Untouched, Nothing, NoLoad, NoPost
  <2>5. \A t \in Tabs : guard'[t] => Left(t)' \/ \E q \in Pages : TabOf[q] = t /\ Working(q)'
    BY <2>1, <2>2, <2>3 DEF AttendedInv
  <2>6. AttendedOrLeft' BY <2>1, <2>2, <2>3 DEF AttendedInv, AttendedOrLeft, Loading
  <2>7. /\ \A q, s \in Pages : TabOf[q] = TabOf[s] /\ page'[q] = "open" /\ page'[s] = "open" => q = s
        /\ \A q \in Pages : page'[q] = "left" => q \in Leavers
    BY <2>1 DEF AttendedInv
  <2> QED BY <2>4, <2>5, <2>6, <2>7 DEF AttendedInv
<1>4. ASSUME NEW t \in Tabs, Close(t) PROVE AttendedInv'
  <2>1. PICK ends : ends = {p \in Pages : TabOf[p] = t /\ page[p] \in {"open", "left"}} OBVIOUS
  <2>2. PICK dead : dead = {r \in Runners : runner[r].pc # "idle" /\ runner[r].page \in ends} OBVIOUS
  <2>3. /\ page' = [p \in Pages |-> IF p \in ends THEN "gone" ELSE page[p]]
        /\ local' = [p \in Pages |-> IF p \in ends THEN Nothing ELSE local[p]]
        /\ load' = [p \in Pages |-> IF p \in ends THEN NoLoad ELSE load[p]]
        /\ post' = [p \in Pages |-> IF p \in ends THEN NoPost ELSE post[p]]
        /\ due' = [p \in Pages |-> p \notin ends /\ due[p]]
        /\ guard' = [guard EXCEPT ![t] = FALSE]
        /\ runner' = [r \in Runners |-> IF r \in dead THEN [pc |-> "idle"] ELSE runner[r]]
    BY <1>4, <2>1, <2>2 DEF Close
  <2>4. \A q \in Pages : q \notin ends => (Working(q)' <=> Working(q))
    BY <2>2, <2>3 DEF Working, Idle
  <2>5. \A q \in ends : ~Working(q)'
    <3> SUFFICES ASSUME NEW q \in ends, NEW r \in Runners, runner'[r] # Idle, runner'[r].page = q PROVE FALSE
      BY DEF Working
    <3>1. r \notin dead /\ runner[r] # Idle /\ runner[r].page \in ends BY <2>3 DEF Idle
    <3>2. runner[r] \in Running BY <3>1 DEF TypeOK
    <3>3. runner[r].pc # "idle" BY <3>2 DEF Running
    <3> QED BY <2>2, <3>1, <3>3
  <2>6. \A q \in Pages : ~Visited(q)' => Untouched(q)'
    <3> SUFFICES ASSUME NEW q \in Pages, ~Visited(q)' PROVE Untouched(q)' OBVIOUS
    <3>1. CASE q \in ends BY <2>3, <2>5, <3>1 DEF Untouched, Nothing, NoLoad, NoPost
    <3>2. CASE q \notin ends
      <4>1. ~Visited(q) BY <2>3, <3>2 DEF Visited
      <4>2. Untouched(q) BY <4>1 DEF AttendedInv
      <4> QED BY <2>3, <2>4, <3>2, <4>2 DEF Untouched, Nothing, NoLoad, NoPost
    <3> QED BY <3>1, <3>2
  <2>7. \A u : u # t /\ Left(u) => Left(u)'
    BY <2>1, <2>3 DEF Left
  <2>8. ASSUME NEW u \in Tabs, guard'[u] PROVE Left(u)' \/ \E q \in Pages : TabOf[q] = u /\ Working(q)'
    <3>1. u # t /\ guard[u] BY <2>3, <2>8 DEF TypeOK
    <3>2. CASE Left(u) BY <2>7, <3>1, <3>2
    <3>3. CASE ~Left(u)
      <4>1. PICK q \in Pages : TabOf[q] = u /\ Working(q) BY <3>1, <3>3 DEF AttendedInv
      <4>2. q \notin ends BY <2>1, <3>1, <4>1
      <4> QED BY <2>4, <4>1, <4>2
    <3> QED BY <3>2, <3>3
  <2>9. ASSUME NEW q \in Pages, page'[q] = "open", Loading(local'[q]) # {}
        PROVE  due'[q] \/ Working(q)' \/ Left(TabOf[q])'
    <3>1. q \notin ends /\ page[q] = "open" /\ local'[q] = local[q] BY <2>3, <2>9
    <3>2. TabOf[q] # t BY <2>1, <3>1
    <3>3. due[q] \/ Working(q) \/ Left(TabOf[q]) BY <2>9, <3>1 DEF AttendedInv, AttendedOrLeft
    <3> QED BY <2>3, <2>4, <2>7, <3>1, <3>2, <3>3
  <2>10. AttendedOrLeft' BY <2>9 DEF AttendedOrLeft, Loading
  <2>11. /\ \A q, s \in Pages : TabOf[q] = TabOf[s] /\ page'[q] = "open" /\ page'[s] = "open" => q = s
         /\ \A q \in Pages : page'[q] = "left" => q \in Leavers
    BY <2>3 DEF AttendedInv
  <2> QED BY <2>6, <2>8, <2>10, <2>11 DEF AttendedInv
<1>5. ASSUME NEW p \in Pages, NEW t, NEW l, Persist(p, t, l), UNCHANGED <<page, load, runs>>
      PROVE AttendedInv'
  <2>1. page[p] = "open" /\ SetLocal(p, l) /\ \A q \in Pages : q # p => post'[q] = post[q]
    BY <1>5 DEF Persist, TypeOK
  <2>2. \A q \in Pages : q # p => local'[q] = local[q] /\ due'[q] = due[q] BY <2>1, SetLocalCalls
  <2>3. due'[p] BY <2>1, SetLocalCalls
  <2> QED BY <1>5, <2>1, <2>2, <2>3, CallKeepsAttended DEF runs, Visited
<1>6. ASSUME NEW p \in Pages, NEW t \in Turns, SubmitTurn(p, t) PROVE AttendedInv'
  BY <1>5, <1>6 DEF SubmitTurn
<1>7. ASSUME NEW p \in Pages, NEW i \in Images, NEW j \in Images, RetryImage(p, i, j) PROVE AttendedInv'
  BY <1>5, <1>7 DEF RetryImage
<1> QED BY <1>1, <1>2, <1>3, <1>4, <1>6, <1>7 DEF UserStep

\* What pages and the server do about their requests.
LEMMA PageAttends ==
  ASSUME TypeOK, AttendedInv, NEW p \in Pages, PageStep(p)
  PROVE  AttendedInv'
<1>0. AnswerHistory(p) \/ ShowHistory(p) \/ HandlePost(p) \/ EndPost(p) \/ CallRunner(p) => Visited(p)
  BY DEF AttendedInv, Untouched, NoLoad, NoPost, AnswerHistory, ShowHistory, HandlePost, EndPost, CallRunner
<1>1. Visited(p) BY <1>0 DEF PageStep
<1>2. CASE AnswerHistory(p)
  <2>1. page' = page /\ UNCHANGED <<local, post, due, guard, runner>> /\ \A q \in Pages : q # p => load'[q] = load[q]
    BY <1>2 DEF AnswerHistory, runs, TypeOK
  <2> QED BY <1>1, <2>1, CallKeepsAttended
<1>3. CASE ShowHistory(p)
  <2>1. /\ page' = page /\ UNCHANGED <<post, guard, runner>> /\ \A q \in Pages : q # p => load'[q] = load[q]
        /\ SetLocal(p, load[p].images)
    BY <1>3 DEF ShowHistory, runs, TypeOK
  <2>2. \A q \in Pages : q # p => local'[q] = local[q] /\ due'[q] = due[q] BY <2>1, SetLocalCalls
  <2>3. page[p] = "open" => due'[p] BY <2>1, SetLocalCalls
  <2> QED BY <1>1, <2>1, <2>2, <2>3, CallKeepsAttended
<1>4. CASE HandlePost(p)
  <2>1. page' = page /\ UNCHANGED <<local, load, due, guard, runner>> /\ \A q \in Pages : q # p => post'[q] = post[q]
    BY <1>4 DEF HandlePost, visits, runs, TypeOK
  <2> QED BY <1>1, <2>1, CallKeepsAttended
<1>5. CASE EndPost(p)
  <2>1. /\ page' = page /\ UNCHANGED <<load, guard, runner>> /\ due'[p]
        /\ \A q \in Pages : q # p => local'[q] = local[q] /\ due'[q] = due[q] /\ post'[q] = post[q]
    BY <1>5 DEF EndPost, visits, runs, TypeOK
  <2> QED BY <1>1, <2>1, CallKeepsAttended
<1>6. CASE CallRunner(p)
  <2>1. /\ page' = page /\ UNCHANGED <<local, load, post>> /\ due[p]
        /\ \A q \in Pages : q # p => due'[q] = due[q]
    BY <1>6 DEF CallRunner, visits, TypeOK
  <2>2. CASE (guard[TabOf[p]] \/ Loading(local[p]) = {}) /\ UNCHANGED <<guard, runner>>
    <3>1. \A q \in Pages : Working(q)' <=> Working(q) BY <2>2 DEF Working
    <3>2. page[p] = "open" \/ Left(TabOf[p]) BY <1>1 DEF Visited, Left
    <3>3. guard'[TabOf[p]] => Working(p)' \/ Left(TabOf[p]) BY <2>2, <3>1, <3>2, OwnGuard
    <3>4. Loading(local'[p]) # {} => Working(p)' \/ Left(TabOf[p]) BY <2>1, <2>2, <3>1, <3>2, OwnGuard
    <3> QED BY <1>1, <2>1, <2>2, <3>1, <3>3, <3>4, PageKeepsAttended
  <2>3. ASSUME NEW r \in Runners, NEW s \in Started(p, local[p]), runner[r] = Idle,
               runner' = [runner EXCEPT ![r] = s], guard' = [guard EXCEPT ![TabOf[p]] = TRUE]
        PROVE  AttendedInv'
    <3>1. s # Idle /\ s.page = p BY <2>3 DEF Started, Idle
    <3>2. runner'[r] = s /\ \A o \in Runners : o # r => runner'[o] = runner[o] BY <2>3 DEF TypeOK
    <3>3. Working(p)' BY <3>1, <3>2 DEF Working, Idle
    <3>4. \A q \in Pages : q # p => (Working(q)' <=> Working(q)) BY <2>3, <3>1, <3>2 DEF Working, Idle
    <3>5. \A t \in Tabs : t # TabOf[p] => guard'[t] = guard[t] BY <2>3 DEF TypeOK
    <3> QED BY <1>1, <2>1, <3>3, <3>4, <3>5, PageKeepsAttended
  <2> QED BY <1>6, <2>2, <2>3 DEF CallRunner
<1> QED BY <1>2, <1>3, <1>4, <1>5, <1>6 DEF PageStep

\* A runner that goes on is on the page it was on.
LEMMA GoingOn ==
  ASSUME TypeOK, NEW r \in Runners, runner[r] # Idle, NEW s, s # Idle, s.page = runner[r].page, Become(r, s)
  PROVE  \A q \in Pages : Working(q)' <=> Working(q)
<1>1. runner'[r] = s /\ \A o \in Runners : o # r => runner'[o] = runner[o] BY DEF TypeOK, Become
<1> QED BY <1>1 DEF Working, Idle

\* A runner that finishes drops the guard with the page it leaves, and only
\* when nothing is loading there.
LEMMA Finishes ==
  ASSUME TypeOK, NEW r \in Runners, runner[r] # Idle, NEW p \in Pages, runner[r].page = p, NEW l, Finish(r, l)
  PROVE  /\ \A q \in Pages : q # p => (Working(q)' <=> Working(q))
         /\ \A t \in Tabs : t # TabOf[p] => guard'[t] = guard[t]
         /\ guard'[TabOf[p]] => Working(p)'
         /\ Loading(l) # {} => Working(p)'
<1>1. TabOf[p] \in Tabs OBVIOUS
<1>2. CASE Loading(l) = {} /\ Become(r, Idle) /\ guard' = [guard EXCEPT ![TabOf[p]] = FALSE]
  <2>1. runner'[r] = Idle /\ \A o \in Runners : o # r => runner'[o] = runner[o] BY <1>2 DEF TypeOK, Become
  <2>2. \A q \in Pages : q # p => (Working(q)' <=> Working(q)) BY <2>1 DEF Working, Idle
  <2> QED BY <1>1, <1>2, <2>2 DEF TypeOK
<1>3. ASSUME NEW s \in Started(p, l), Become(r, s), guard' = [guard EXCEPT ![TabOf[p]] = TRUE]
      PROVE  /\ \A q \in Pages : q # p => (Working(q)' <=> Working(q))
             /\ \A t \in Tabs : t # TabOf[p] => guard'[t] = guard[t]
             /\ Working(p)'
  <2>1. s # Idle /\ s.page = p BY <1>3 DEF Started, Idle
  <2>2. \A q \in Pages : Working(q)' <=> Working(q) BY <1>3, <2>1, GoingOn
  <2>3. Working(p) BY DEF Working
  <2> QED BY <1>1, <1>3, <2>2, <2>3 DEF TypeOK
<1> QED BY <1>2, <1>3 DEF Finish

\* A runner that gives up leaves nothing loading without one.
LEMMA GiveUpAttends ==
  ASSUME TypeOK, AttendedInv, NEW r \in Runners, runner[r] # Idle, GiveUp(r), UNCHANGED <<page, load, post>>
  PROVE  AttendedInv'
<1>1. PICK p \in Pages : p = runner[r].page /\ Visited(p) BY AtWork
<1>2. PICK l : SetLocal(p, l) /\ Finish(r, l) BY <1>1 DEF GiveUp
<1>3. /\ \A q \in Pages : q # p => local'[q] = local[q] /\ due'[q] = due[q]
      /\ local'[p] = l
  BY <1>2, SetLocalCalls
<1>4. /\ \A q \in Pages : q # p => (Working(q)' <=> Working(q))
      /\ \A t \in Tabs : t # TabOf[p] => guard'[t] = guard[t]
      /\ guard'[TabOf[p]] => Working(p)'
      /\ Loading(l) # {} => Working(p)'
  BY <1>1, <1>2, Finishes
<1> QED BY <1>1, <1>3, <1>4, PageKeepsAttended

\* The steps of a runner.
LEMMA RunnerAttends ==
  ASSUME TypeOK, AttendedInv, NEW r \in Runners, RunnerStep(r) \/ SubmitFails(r) \/ PollFails(r)
  PROVE  AttendedInv'
<1>0. runner[r] # Idle
  <2> SUFFICES ASSUME runner[r].pc = "idle" PROVE FALSE BY DEF Idle
  <2>1. ~SubmitFails(r) /\ ~PollFails(r) BY DEF SubmitFails, PollFails
  <2>2. \A i \in Images : ~HandleSubmit(r, i) BY DEF HandleSubmit
  <2>3. ~HandlePoll(r) /\ ~SyncResults(r) /\ ~NextRound(r) BY DEF HandlePoll, SyncResults, NextRound
  <2>4. ~ApplyTasks(r) BY DEF ApplyTasks
  <2>5. ~Resubmit(r) BY DEF Resubmit
  <2> QED BY <2>1, <2>2, <2>3, <2>4, <2>5 DEF RunnerStep
<1>1. PICK p \in Pages : p = runner[r].page /\ Visited(p) BY <1>0, AtWork
<1>2. runner[r] \in Running BY <1>0, AtWork
<1>3. ASSUME NEW s, s = [runner[r] EXCEPT !.pc = s.pc, !.todo = s.todo, !.got = s.got, !.errors = s.errors],
             s.pc # "idle", Become(r, s), UNCHANGED <<page, load, post, guard>>,
             UNCHANGED <<local, due>> \/ \E l : SetLocal(p, l)
      PROVE  AttendedInv'
  <2>1. s # Idle /\ s.page = p BY <1>1, <1>2, <1>3 DEF Idle, Running
  <2>2. \A q \in Pages : Working(q)' <=> Working(q) BY <1>0, <1>1, <1>3, <2>1, GoingOn
  <2>3. Working(p) BY <1>0, <1>1 DEF Working
  <2>4. \A q \in Pages : q # p => local'[q] = local[q] /\ due'[q] = due[q] BY <1>3, SetLocalCalls
  <2> QED BY <1>1, <1>3, <2>2, <2>3, <2>4, PageKeepsAttended
<1>4. ASSUME NEW i \in Images, HandleSubmit(r, i) PROVE AttendedInv'
  <2>1. PICK s : s = [runner[r] EXCEPT !.todo = @ \ {i}, !.got[i] = AsImage(task'[i])] OBVIOUS
  <2>2. Become(r, s) /\ UNCHANGED <<page, load, post, guard, local, due>> BY <1>4, <2>1 DEF HandleSubmit, visits
  <2> QED BY <1>2, <1>3, <2>1, <2>2 DEF Running
<1>5. CASE HandlePoll(r)
  <2>1. PICK s : /\ s = [runner[r] EXCEPT !.pc = "polled", !.errors = 0, !.todo = s.todo, !.got = s.got]
                 /\ Become(r, s)
    BY <1>2, <1>5 DEF HandlePoll, Running
  <2>2. UNCHANGED <<page, load, post, guard, local, due>> BY <1>5 DEF HandlePoll, visits
  <2> QED BY <1>2, <1>3, <2>1, <2>2 DEF Running
<1>6. CASE ApplyTasks(r)
  <2>1. PICK s : s = [runner[r] EXCEPT !.pc = "applied"] OBVIOUS
  <2>2. Become(r, s) /\ UNCHANGED <<page, load, post, guard>> /\ \E l : SetLocal(p, l)
    BY <1>1, <1>6, <2>1 DEF ApplyTasks, visits
  <2> QED BY <1>2, <1>3, <2>1, <2>2 DEF Running
<1>7. CASE SyncResults(r)
  <2>1. PICK s : s = [runner[r] EXCEPT !.pc = "patching", !.got = Nothing] OBVIOUS
  <2>2. Become(r, s) /\ UNCHANGED <<page, load, post, guard, local, due>>
    BY <1>7, <2>1 DEF SyncResults, visits
  <2> QED BY <1>2, <1>3, <2>1, <2>2 DEF Running
<1>8. CASE Resubmit(r)
  <2>1. PICK s : s = [runner[r] EXCEPT !.pc = "resubmit"] OBVIOUS
  <2>2. Become(r, s) /\ UNCHANGED <<page, load, post, guard, local, due>>
    BY <1>8, <2>1 DEF Resubmit, visits
  <2> QED BY <1>2, <1>3, <2>1, <2>2 DEF Running
<1>9. CASE NextRound(r)
  <2>1. UNCHANGED <<page, load, post, local, due>> BY <1>9 DEF NextRound, visits
  <2>2. CASE Finish(r, local[p])
    <3>1. /\ \A q \in Pages : q # p => (Working(q)' <=> Working(q))
          /\ \A t \in Tabs : t # TabOf[p] => guard'[t] = guard[t]
          /\ guard'[TabOf[p]] => Working(p)'
          /\ Loading(local[p]) # {} => Working(p)'
      BY <1>0, <1>1, <2>2, Finishes
    <3> QED BY <1>1, <2>1, <3>1, PageKeepsAttended
  <2>3. ASSUME NEW todo, Become(r, [runner[r] EXCEPT !.pc = "polling", !.todo = todo]), UNCHANGED guard
        PROVE  AttendedInv'
    <3>1. PICK s : s = [runner[r] EXCEPT !.pc = "polling", !.todo = todo] OBVIOUS
    <3> QED BY <1>2, <1>3, <2>1, <2>3, <3>1 DEF Running
  <2> QED BY <1>1, <1>9, <2>2, <2>3 DEF NextRound
<1>10. ASSUME GiveUp(r), UNCHANGED <<page, load, post>> PROVE AttendedInv'
  BY <1>0, <1>10, GiveUpAttends
<1>11. ASSUME Setback(r), UNCHANGED <<page, load, post>> PROVE AttendedInv'
  <2>1. CASE /\ Become(r, [runner[r] EXCEPT !.pc = "patching", !.todo = {}, !.got = Nothing, !.errors = @ + 1])
             /\ UNCHANGED <<local, due, guard>>
    <3>1. PICK s : s = [runner[r] EXCEPT !.pc = "patching", !.todo = {}, !.got = Nothing, !.errors = @ + 1] OBVIOUS
    <3> QED BY <1>2, <1>3, <1>11, <2>1, <3>1 DEF Running
  <2> QED BY <1>10, <1>11, <2>1 DEF Setback
<1>12. CASE SubmitFails(r) \/ PollFails(r)
  BY <1>10, <1>11, <1>12 DEF SubmitFails, PollFails, visits
<1> QED BY <1>4, <1>5, <1>6, <1>7, <1>8, <1>9, <1>12 DEF RunnerStep

\* The invariant that LoadingIsAttended follows from.
LEMMA AttendedAlways == Spec => []AttendedInv
<1>1. Init => AttendedInv
  BY DEF Init, AttendedInv, AttendedOrLeft, Visited, Untouched, Working, Idle
<1>2. TypeOK /\ AttendedInv /\ [Next]_vars => AttendedInv'
  <2> SUFFICES ASSUME TypeOK, AttendedInv, [Next]_vars PROVE AttendedInv' OBVIOUS
  <2>1. CASE /\ UNCHANGED <<page, local, load, post, due, runner>>
             /\ \A t \in Tabs : guard'[t] => guard[t]
    <3>1. \A p \in Pages : Working(p)' <=> Working(p) BY <2>1 DEF Working, Idle
    <3>2. \A t : Left(t)' <=> Left(t) BY <2>1 DEF Left
    <3>3. \A p \in Pages : ~Visited(p)' => Untouched(p)'
      BY <2>1, <3>1 DEF AttendedInv, Visited, Untouched, Nothing, NoLoad, NoPost
    <3>4. AttendedOrLeft' BY <2>1, <3>1, <3>2 DEF AttendedInv, AttendedOrLeft, Loading
    <3> QED BY <2>1, <3>1, <3>2, <3>3, <3>4 DEF AttendedInv
  <2>2. ASSUME NEW t \in Tabs, GuardExpires(t) PROVE AttendedInv'
    BY <2>1, <2>2 DEF GuardExpires, TypeOK
  <2>3. ASSUME NEW i \in Images, ServerStep(i) PROVE AttendedInv'
    BY <2>1, <2>3 DEF ServerStep, TellGallery, EndTask, visits, runs
  <2>4. ASSUME NEW m \in patches, EndPatch(m) PROVE AttendedInv'
    BY <2>1, <2>4 DEF EndPatch, visits
  <2> QED BY <2>1, <2>2, <2>3, <2>4, UserAttends, PageAttends, RunnerAttends DEF Next, vars, visits, runs
<1> QED BY <1>1, <1>2, WorkspaceTypes, PTL DEF Spec

\* An image that is loading on an open page has a runner of that page at work or
\* one about to be called (runConversationQueue), whatever the guards, the reloads
\* of the history and the failures do, unless a page was left in the same tab: a
\* runner of that one may hold the guard. For any number of tabs, pages and retries.
THEOREM AttendedUnlessLeft == Spec => []AttendedOrLeft
<1>1. AttendedInv => AttendedOrLeft BY DEF AttendedInv
<1> QED BY <1>1, AttendedAlways, PTL

\* So no image is left loading on an open page with nobody to attend to it
\* (LoadingIsAttended), if no page is left in a tab that is to show another one.
\* Where one is, the property is false.
THEOREM LoadingAlwaysAttended == OneVisit => (Spec => []LoadingIsAttended)
<1> SUFFICES ASSUME OneVisit PROVE Spec => []LoadingIsAttended OBVIOUS
<1>1. AttendedInv => LoadingIsAttended
  <2> SUFFICES ASSUME AttendedInv, NEW p \in Pages, page[p] = "open", Loading(local[p]) # {}
               PROVE  due[p] \/ Working(p)
    BY DEF LoadingIsAttended, Working
  <2>1. ~Left(TabOf[p]) BY DEF AttendedInv, OneVisit, Left
  <2> QED BY <2>1 DEF AttendedInv, AttendedOrLeft
<1> QED BY <1>1, AttendedAlways, PTL
=============================================================================
