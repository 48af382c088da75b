------------------------------- MODULE Workspace -------------------------------
(***************************************************************************)
(* The image workspace (web/src/app/image/page.tsx) at work on one          *)
(* conversation: pages that show it, the runners that submit its images as  *)
(* tasks and poll them (runConversationQueue), and the two records the      *)
(* server keeps: the tasks, and the conversation a page loads (the gallery). *)
(*                                                                         *)
(* JavaScript runs to the next await, so a step here is what a page does    *)
(* between two of them, or what the server makes of one request. Pages of   *)
(* one tab share the guard that is to keep a second runner out.             *)
(***************************************************************************)
EXTENDS Naturals, FiniteSets

CONSTANTS
  Pages,         \* visits of the workspace: mounts of the component
  Tabs, TabOf,   \* the browser tabs, and the tab of each page
  Turns,
  Images,        \* image ids; a task has the id of its image
  TurnOf,        \* the turn of each image
  First,         \* the images a turn is created with; the others are for retries
  Runners,       \* bound: calls of runConversationQueue alive at one time
  MaxErrors,     \* consecutive failures after which a runner gives up; 10
  Leavers,       \* bound: the pages the user leaves or closes
  MaxLapses,     \* bound: reloads of the history within a page, and guards that
                 \* expire
  MaxFaults      \* bound: requests and writes that fail

ASSUME WorkspaceConstantsOK ==
  /\ TabOf \in [Pages -> Tabs]
  /\ TurnOf \in [Images -> Turns]
  /\ First \subseteq Images
  /\ MaxErrors \in Nat \ {0}
  /\ Leavers \subseteq Pages
  /\ MaxLapses \in Nat
  /\ MaxFaults \in Nat

VARIABLES
  task,       \* the status of each task; open while it is queued, running or
              \* a success whose download is pending. A success without image
              \* data is an error here, as it is to the page
  word,       \* what the task's thread has still to tell the gallery
  gallery,    \* the status of each image in the conversation on the server
  used,       \* the image ids handed out
  page,       \* fresh, open, left (unmounted, its calls running on) or gone
  local,      \* conversationsRef: the status of each image on the page
  load,       \* the page's request for the history
  post,       \* its request to create a turn, between handleSubmit and its end
  due,        \* runConversationQueue is about to be called for the page
  signature,  \* serverResultSyncSignatureRef: what was last sent of each image
  guard,      \* activeConversationQueueIds has the conversation, per tab
  runner,     \* the calls of runConversationQueue
  patches,    \* their PATCH requests in flight
  lapses, faults

server == <<task, word, gallery>>
visits == <<used, page, load, lapses>>
runs == <<guard, runner, patches>>
vars == <<server, visits, local, post, due, signature, runs, faults>>

-----------------------------------------------------------------------------
(* Statuses *)

\* none: the turn does not have the image.
Shown == {"none", "loading", "success", "error"}
Nothing == [i \in Images |-> "none"]
Of(t) == {i \in Images : TurnOf[i] = t}
Loading(l) == {i \in Images : l[i] = "loading"}
Ended == {"success", "error"}

\* Mutant of AsImage: a success whose download is pending is taken for one.
AsImageEarly(status) == IF status = "open" THEN "success" ELSE status
\* taskDataToStoredImage: what a page makes of a task it was told of.
AsImage(status) == IF status = "open" THEN "loading" ELSE status

Lapse == lapses < MaxLapses /\ lapses' = lapses + 1
Fault == faults < MaxFaults /\ faults' = faults + 1

\* update_result: without effect ("not found") on an image the turn lacks.
SetResult(i, status) ==
  gallery' = [gallery EXCEPT ![i] = IF @ = "none" THEN "none" ELSE status]

-----------------------------------------------------------------------------
(* The task service, as ImageTasks has it *)

\* _submit: a known task is answered as it is, another one accepted.
Accepted(i) == IF task[i] = "absent" THEN [task EXCEPT ![i] = "open"] ELSE task

\* The thread tells the gallery, or the write fails and nobody hears of it.
TellGallery(i) ==
  /\ word[i] # "none"
  /\ word' = [word EXCEPT ![i] = "none"]
  /\ \/ SetResult(i, word[i]) /\ UNCHANGED faults
     \/ Fault /\ UNCHANGED gallery
  /\ UNCHANGED <<task, visits, local, post, due, signature, runs>>

EndTask(i) ==
  /\ task[i] = "open"
  /\ word[i] = "none"
  /\ \E status \in Ended :
       /\ task' = [task EXCEPT ![i] = status]
       /\ word' = [word EXCEPT ![i] = status]
  /\ UNCHANGED <<gallery, visits, local, post, due, signature, runs, faults>>

-----------------------------------------------------------------------------
(* Pages *)

\* Mutant of SetLocal: the effect does not follow.
SetLocalSilent(p, l) == local' = [local EXCEPT ![p] = l] /\ UNCHANGED due
\* Page p sets its conversations to l. On a page that is mounted the effect that
\* calls runConversationQueue follows.
SetLocal(p, l) ==
  /\ local' = [local EXCEPT ![p] = l]
  /\ due' = [due EXCEPT ![p] = @ \/ page[p] = "open"]

NoLoad == [pc |-> "none"]
NoPost == [pc |-> "none"]

\* The first effect: loadHistory. A tab shows one page at a time.
Visit(p) ==
  /\ page[p] = "fresh"
  /\ \A q \in Pages : TabOf[q] = TabOf[p] => page[q] # "open"
  /\ page' = [page EXCEPT ![p] = "open"]
  /\ load' = [load EXCEPT ![p] = [pc |-> "asked"]]
  /\ UNCHANGED <<server, used, lapses, local, post, due, signature, runs, faults>>

\* loadHistory depends on the preferences: a changed ratio, tier or quality
\* cleans up its effect, which clears the guards, and loads the history anew.
Refresh(p) ==
  /\ page[p] = "open"
  /\ load[p] = NoLoad
  /\ Lapse
  /\ load' = [load EXCEPT ![p] = [pc |-> "asked"]]
  /\ guard' = [guard EXCEPT ![TabOf[p]] = FALSE]
  /\ UNCHANGED <<server, used, page, local, post, due, signature, runner, patches, faults>>

AnswerHistory(p) ==
  /\ load[p].pc = "asked"
  /\ load' = [load EXCEPT ![p] = [pc |-> "answered", images |-> gallery]]
  /\ UNCHANGED <<server, used, page, lapses, local, post, due, signature, runs, faults>>

\* The server's history replaces what the page had.
ShowHistory(p) ==
  /\ load[p].pc = "answered"
  /\ load' = [load EXCEPT ![p] = NoLoad]
  /\ SetLocal(p, load[p].images)
  /\ UNCHANGED <<server, used, page, lapses, post, signature, runs, faults>>

\* Another page of the application is opened in the tab: the component is
\* unmounted and the guards are cleared, while runners and requests go on.
Leave(p) ==
  /\ p \in Leavers
  /\ page[p] = "open"
  /\ page' = [page EXCEPT ![p] = "left"]
  /\ load' = [load EXCEPT ![p] = NoLoad]
  /\ due' = [due EXCEPT ![p] = FALSE]
  /\ guard' = [guard EXCEPT ![TabOf[p]] = FALSE]
  /\ UNCHANGED <<server, used, lapses, local, post, signature, runner, patches, faults>>

\* The tab is closed or reloaded. What the server had not handled is lost.
Close(t) ==
  LET ends == {p \in Pages : TabOf[p] = t /\ page[p] \in {"open", "left"}}
      dead == {r \in Runners : runner[r].pc # "idle" /\ runner[r].page \in ends}
  IN  /\ ends # {} /\ ends \subseteq Leavers
      /\ page' = [p \in Pages |-> IF p \in ends THEN "gone" ELSE page[p]]
      /\ local' = [p \in Pages |-> IF p \in ends THEN Nothing ELSE local[p]]
      /\ load' = [p \in Pages |-> IF p \in ends THEN NoLoad ELSE load[p]]
      /\ post' = [p \in Pages |-> IF p \in ends THEN NoPost ELSE post[p]]
      /\ due' = [p \in Pages |-> p \notin ends /\ due[p]]
      /\ signature' = [p \in Pages |-> IF p \in ends THEN Nothing ELSE signature[p]]
      /\ guard' = [guard EXCEPT ![t] = FALSE]
      /\ runner' = [r \in Runners |-> IF r \in dead THEN [pc |-> "idle"] ELSE runner[r]]
      /\ patches' = {m \in patches : m.runner \notin dead}
      /\ UNCHANGED <<server, used, lapses, faults>>

-----------------------------------------------------------------------------
(* Turns *)

\* persistConversation, then persistServerTurn with the turn as it is now.
Persist(p, t, l) ==
  /\ page[p] = "open"
  /\ post[p] = NoPost
  /\ SetLocal(p, l)
  /\ post' = [post EXCEPT ![p] =
       [pc |-> "sent", turn |-> t, images |-> [i \in Images |-> IF i \in Of(t) THEN l[i] ELSE "none"]]]

\* handleSubmit, handleRegenerateTurn
SubmitTurn(p, t) ==
  LET new == First \intersect Of(t)
  IN  /\ new # {} /\ new \intersect used = {}
      /\ Persist(p, t, [i \in Images |-> IF i \in new THEN "loading" ELSE local[p][i]])
      /\ used' = used \union new
      /\ UNCHANGED <<server, page, load, lapses, signature, runs, faults>>

\* handleRetryImage: an image with a new id takes the place of image i.
RetryImage(p, i, new) ==
  /\ local[p][i] = "error"
  /\ new \in Of(TurnOf[i]) \ (used \union First)
  /\ Persist(p, TurnOf[i], [local[p] EXCEPT ![i] = "none", ![new] = "loading"])
  /\ used' = used \union {new}
  /\ UNCHANGED <<server, page, load, lapses, signature, runs, faults>>

\* create_turn: the posted turn replaces the one on the server; the answer is
\* the whole conversation.
HandlePost(p) ==
  /\ post[p].pc = "sent"
  /\ gallery' = [i \in Images |->
       IF i \in Of(post[p].turn) THEN post[p].images[i] ELSE gallery[i]]
  /\ post' = [post EXCEPT ![p] = [@ EXCEPT !.pc = "answered", !.images = gallery']]
  /\ UNCHANGED <<task, word, visits, local, due, signature, runs, faults>>

\* The rest of persistServerTurn and of its caller, which calls
\* runConversationQueue whether the page is still mounted or not.
EndPost(p) ==
  /\ \/ /\ post[p].pc = "answered"
        /\ local' = [local EXCEPT ![p] = post[p].images]
        /\ UNCHANGED faults
     \/ /\ post[p] # NoPost
        /\ Fault
        /\ UNCHANGED local
  /\ post' = [post EXCEPT ![p] = NoPost]
  /\ due' = [due EXCEPT ![p] = TRUE]
  /\ UNCHANGED <<server, visits, signature, runs>>

-----------------------------------------------------------------------------
(* runConversationQueue *)

Idle == [pc |-> "idle"]

\* A runner at the start of its work on one turn of page p, which shows l. The
\* order of the turns is left out: it takes any that has an image loading.
Started(p, l) ==
  {[pc |-> "submit", page |-> p, turn |-> t, todo |-> Loading(l) \intersect Of(t),
    got |-> Nothing, errors |-> 0] : t \in {TurnOf[i] : i \in Loading(l)}}

\* The call: nothing to do while the guard is up or no image is loading.
CallRunner(p) ==
  /\ due[p]
  /\ due' = [due EXCEPT ![p] = FALSE]
  /\ \/ /\ guard[TabOf[p]] \/ Loading(local[p]) = {}
        /\ UNCHANGED <<guard, runner>>
     \/ /\ ~guard[TabOf[p]]
        /\ \E r \in Runners, s \in Started(p, local[p]) :
             /\ runner[r] = Idle
             /\ runner' = [runner EXCEPT ![r] = s]
        /\ guard' = [guard EXCEPT ![TabOf[p]] = TRUE]
  /\ UNCHANGED <<server, visits, local, post, signature, patches, faults>>

\* isConversationQueueActive: a guard is void after ACTIVE_QUEUE_STALE_MS.
GuardExpires(t) ==
  /\ guard[t]
  /\ Lapse
  /\ guard' = [guard EXCEPT ![t] = FALSE]
  /\ UNCHANGED <<server, used, page, load, local, post, due, signature, runner, patches, faults>>

Become(r, s) == runner' = [runner EXCEPT ![r] = s]

\* Mutant of Finish: nothing more is done.
FinishOnly(r, l) ==
  /\ Become(r, Idle)
  /\ guard' = [guard EXCEPT ![TabOf[runner[r].page]] = FALSE]

\* The finally block, on a page that shows l: the guard is dropped, and taken
\* again if there is more to do.
Finish(r, l) ==
  LET p == runner[r].page
  IN  \/ /\ Loading(l) = {}
         /\ Become(r, Idle)
         /\ guard' = [guard EXCEPT ![TabOf[p]] = FALSE]
      \/ /\ \E s \in Started(p, l) : Become(r, s)
         /\ guard' = [guard EXCEPT ![TabOf[p]] = TRUE]

\* Mutant of GiveUp: the runner ends and the images stay loading.
GiveUpSilent(r) ==
  /\ Become(r, Idle)
  /\ guard' = [guard EXCEPT ![TabOf[runner[r].page]] = FALSE]
  /\ UNCHANGED <<local, due>>

\* The catch block: what is loading in the turn becomes an error, on the page.
GiveUp(r) ==
  LET s == runner[r]
      l == [i \in Images |-> IF i \in Of(s.turn) \intersect Loading(local[s.page])
                             THEN "error" ELSE local[s.page][i]]
  IN  SetLocal(s.page, l) /\ Finish(r, l)

\* Mutant of Setback: one round too many.
SetbackLate(r) ==
  \/ /\ runner[r].errors + 1 <= MaxErrors
     /\ Become(r, [runner[r] EXCEPT !.pc = "patching", !.todo = {}, !.got = Nothing, !.errors = @ + 1])
     /\ UNCHANGED <<local, due, guard>>
  \/ runner[r].errors + 1 > MaxErrors /\ GiveUp(r)

\* The catch block of the loop: another round, unless there were too many.
Setback(r) ==
  \/ /\ runner[r].errors + 1 < MaxErrors
     /\ Become(r, [runner[r] EXCEPT !.pc = "patching", !.todo = {}, !.got = Nothing, !.errors = @ + 1])
     /\ UNCHANGED <<local, due, guard>>
  \/ runner[r].errors + 1 >= MaxErrors /\ GiveUp(r)

\* One of the submissions sent in parallel is handled by the server.
HandleSubmit(r, i) ==
  LET s == runner[r]
  IN  /\ s.pc \in {"submit", "resubmit"}
      /\ i \in s.todo
      /\ task' = Accepted(i)
      /\ word' = [word EXCEPT ![i] = IF task[i] = "absent" THEN "loading" ELSE @]
      /\ Become(r, [s EXCEPT !.todo = @ \ {i}, !.got[i] = AsImage(task'[i])])
      /\ UNCHANGED <<gallery, visits, local, post, due, signature, guard, patches, faults>>

SubmitFails(r) ==
  /\ \/ runner[r].pc = "submit" /\ GiveUp(r)
     \/ runner[r].pc = "resubmit" /\ Setback(r)
  /\ Fault
  /\ UNCHANGED <<server, visits, post, signature, patches>>

\* list_tasks: the known tasks, and the ids of the missing ones.
HandlePoll(r) ==
  LET s == runner[r]
      missing == {i \in s.todo : task[i] = "absent"}
  IN  /\ s.pc = "polling"
      /\ Become(r, [s EXCEPT !.pc = "polled", !.errors = 0, !.todo = missing,
           !.got = [i \in Images |-> IF i \in s.todo \ missing THEN AsImage(task[i]) ELSE "none"]])
      /\ UNCHANGED <<server, visits, local, post, due, signature, guard, patches, faults>>

PollFails(r) ==
  /\ runner[r].pc = "polling"
  /\ Setback(r)
  /\ Fault
  /\ UNCHANGED <<server, visits, post, signature, patches>>

\* applyTasks, up to the await in updateConversation: the answers are put on the
\* page, whatever it shows by now.
ApplyTasks(r) ==
  LET s == runner[r]
  IN  /\ \/ s.pc = "polled"
         \/ s.pc \in {"submit", "resubmit"} /\ s.todo = {}
      /\ s.got # Nothing
      /\ SetLocal(s.page, [i \in Images |->
           IF s.got[i] # "none" /\ local[s.page][i] # "none" THEN s.got[i] ELSE local[s.page][i]])
      /\ Become(r, [s EXCEPT !.pc = "applied"])
      /\ UNCHANGED <<server, visits, post, signature, guard, patches, faults>>

\* Mutant of SyncResults: nothing is sent.
SyncResultsNever(r) ==
  /\ runner[r].pc = "applied"
  /\ Become(r, [runner[r] EXCEPT !.pc = "patching", !.got = Nothing])
  /\ UNCHANGED <<server, visits, local, post, due, signature, guard, patches, faults>>

\* syncServerImageResults: a PATCH for each of the images whose state on the page
\* differs from what was sent last. That of a loading image often differs, for
\* its progress is part of it.
SyncResults(r) ==
  LET s == runner[r]
      shown == local[s.page]
      present == {i \in Images : s.got[i] # "none" /\ shown[i] # "none"}
      changed == {i \in present : shown[i] # signature[s.page][i]}
  IN  /\ s.pc = "applied"
      /\ \E more \in SUBSET (present \intersect Loading(shown)) :
           LET sent == changed \union more
           IN  /\ patches' = patches \union {[runner |-> r, image |-> i, status |-> shown[i]] : i \in sent}
               /\ signature' = [signature EXCEPT ![s.page] =
                    [i \in Images |-> IF i \in sent THEN shown[i] ELSE @[i]]]
      /\ Become(r, [s EXCEPT !.pc = "patching", !.got = Nothing])
      /\ UNCHANGED <<server, visits, local, post, due, guard, faults>>

\* A PATCH is handled by the server, or fails; nobody looks at its answer.
EndPatch(m) ==
  /\ \/ SetResult(m.image, m.status) /\ UNCHANGED faults
     \/ Fault /\ UNCHANGED gallery
  /\ patches' = patches \ {m}
  /\ UNCHANGED <<task, word, visits, local, post, due, signature, guard, runner>>

\* After the PATCHes the missing tasks are submitted again.
Resubmit(r) ==
  LET s == runner[r]
  IN  /\ \/ s.pc = "polled" /\ s.got = Nothing
         \/ s.pc = "patching" /\ \A m \in patches : m.runner # r
      /\ s.todo # {}
      /\ Become(r, [s EXCEPT !.pc = "resubmit"])
      /\ UNCHANGED <<server, visits, local, post, due, signature, guard, patches, faults>>

\* The head of the loop.
NextRound(r) ==
  LET s == runner[r]
      left == Loading(local[s.page]) \intersect Of(s.turn)
  IN  /\ s.pc = "patching"
      /\ s.todo = {}
      /\ \A m \in patches : m.runner # r
      /\ \/ /\ left # {}
            /\ Become(r, [s EXCEPT !.pc = "polling", !.todo = left])
            /\ UNCHANGED guard
         \/ /\ left = {}
            /\ Finish(r, local[s.page])
      /\ UNCHANGED <<server, visits, local, post, due, signature, patches, faults>>

RunnerStep(r) ==
  \/ \E i \in Images : HandleSubmit(r, i)
  \/ HandlePoll(r) \/ ApplyTasks(r) \/ SyncResults(r) \/ Resubmit(r) \/ NextRound(r)

-----------------------------------------------------------------------------

Init ==
  /\ task = [i \in Images |-> "absent"]
  /\ word = Nothing
  /\ gallery = Nothing
  /\ used = {}
  /\ page = [p \in Pages |-> "fresh"]
  /\ local = [p \in Pages |-> Nothing]
  /\ load = [p \in Pages |-> NoLoad]
  /\ post = [p \in Pages |-> NoPost]
  /\ due = [p \in Pages |-> FALSE]
  /\ signature = [p \in Pages |-> Nothing]
  /\ guard = [t \in Tabs |-> FALSE]
  /\ runner = [r \in Runners |-> Idle]
  /\ patches = {}
  /\ lapses = 0
  /\ faults = 0

UserStep ==
  \/ \E p \in Pages : Visit(p) \/ Refresh(p) \/ Leave(p)
  \/ \E t \in Tabs : Close(t)
  \/ \E p \in Pages, t \in Turns : SubmitTurn(p, t)
  \/ \E p \in Pages, i, j \in Images : RetryImage(p, i, j)

PageStep(p) ==
  AnswerHistory(p) \/ ShowHistory(p) \/ HandlePost(p) \/ EndPost(p) \/ CallRunner(p)

ServerStep(i) == TellGallery(i) \/ EndTask(i)

Next ==
  \/ UserStep
  \/ \E i \in Images : ServerStep(i)
  \/ \E p \in Pages : PageStep(p)
  \/ \E r \in Runners : RunnerStep(r) \/ SubmitFails(r) \/ PollFails(r)
  \/ \E m \in patches : EndPatch(m)
  \/ \E t \in Tabs : GuardExpires(t)

Spec == Init /\ [][Next]_vars

\* Requests are answered or fail, promises that are settled are gone on with, and
\* tasks end (ImageTasks). Nothing is asked of the user.
Fairness ==
  /\ \A i \in Images : WF_vars(ServerStep(i))
  /\ \A p \in Pages :
       /\ WF_vars(AnswerHistory(p)) /\ WF_vars(ShowHistory(p))
       /\ WF_vars(HandlePost(p)) /\ WF_vars(EndPost(p)) /\ WF_vars(CallRunner(p))
  /\ \A r \in Runners :
       /\ WF_vars(RunnerStep(r))
       /\ \A i \in Images, status \in Shown \ {"none"} :
            LET m == [runner |-> r, image |-> i, status |-> status]
            IN  WF_vars(m \in patches /\ EndPatch(m))

FairSpec == Spec /\ Fairness

-----------------------------------------------------------------------------
(* Properties *)

Statuses == [Images -> Shown]

Running ==
  [pc : {"submit", "resubmit", "polling", "polled", "applied", "patching"},
   page : Pages, turn : Turns, todo : SUBSET Images, got : Statuses,
   errors : 0 .. (MaxErrors - 1)]

Posted == [pc : {"sent", "answered"}, turn : Turns, images : Statuses]

\* Every variable has its type.
TypeOK ==
  /\ task \in [Images -> {"absent", "open"} \union Ended]
  /\ word \in Statuses
  /\ gallery \in Statuses
  /\ used \subseteq Images
  /\ page \in [Pages -> {"fresh", "open", "left", "gone"}]
  /\ local \in [Pages -> Statuses]
  /\ load \in [Pages -> {NoLoad, [pc |-> "asked"]} \union [pc : {"answered"}, images : Statuses]]
  /\ post \in [Pages -> {NoPost} \union Posted]
  /\ due \in [Pages -> BOOLEAN]
  /\ signature \in [Pages -> Statuses]
  /\ guard \in [Tabs -> BOOLEAN]
  /\ runner \in [Runners -> {Idle} \union Running]
  /\ patches \subseteq [runner : Runners, image : Images, status : Shown \ {"none"}]
  /\ lapses \in 0 .. MaxLapses
  /\ faults \in 0 .. MaxFaults

\* What a page or the gallery shows of an image is true of its task, however many
\* copies of the conversation and answers are on their way: a success always,
\* an error unless a request failed. So nobody is offered to make again, and
\* pay for again, an image that is there or still being made.
TrueOf(i, status) ==
  /\ status = "success" => task[i] = "success"
  /\ status = "error" /\ faults = 0 => task[i] = "error"

AllTrue(l) == \A i \in Images : TrueOf(i, l[i])

ShownIsTrue == AllTrue(gallery) /\ \A p \in Pages : AllTrue(local[p])

\* An image that is loading on an open page has a runner of that page at work on
\* the conversation, or one about to be called, whatever the guard and the
\* reloads did: no page waits for nobody. (lines 1941, 2125, 2388)
LoadingIsAttended ==
  \A p \in Pages : page[p] = "open" /\ Loading(local[p]) # {} =>
    due[p] \/ \E r \in Runners : runner[r] # Idle /\ runner[r].page = p

\* An image does not stay loading on a page that stays open.
PageSettles ==
  \A p \in Pages, i \in Images :
    page[p] = "open" /\ local[p][i] = "loading" ~> page[p] # "open" \/ local[p][i] # "loading"

\* The history a new page loads heals what earlier pages left behind: if nothing
\* else is under way and nothing fails, the conversation on the server comes to
\* show the outcome of every task it has.
Alone(p) ==
  /\ page[p] = "open" /\ load[p].pc = "asked" /\ local[p] = Nothing
  /\ \A q \in Pages : page[q] \in {"fresh", "gone"} \/ q = p
  /\ word = Nothing

Disturbed(p, n) == page[p] # "open" \/ post[p] # NoPost \/ faults > n

GalleryIsRight == \A i \in Images : gallery[i] # "none" => gallery[i] = task[i]

HealedByLoad ==
  \A p \in Pages, n \in 0 .. MaxFaults :
    Alone(p) /\ faults = n ~> GalleryIsRight \/ Disturbed(p, n)

\* "Creates a turn and its placeholder image results before image tasks are
\* submitted": an image whose task was accepted is in the gallery.
TurnBeforeTasks ==
  \A i \in Images : task[i] # "absent" => gallery[i] # "none"

=============================================================================
