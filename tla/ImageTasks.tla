------------------------------ MODULE ImageTasks ------------------------------
(***************************************************************************)
(* The image task service (api/services/image_task_service.py): a map of    *)
(* tasks in memory, saved as a whole to a task store after every locked     *)
(* change; one worker thread per accepted task, which calls the model       *)
(* gateway (a call that is billed); background threads that retry the       *)
(* download of images the gateway only returned a link to; and the result   *)
(* in the user's gallery (image_conversation_service.update_result), which  *)
(* the threads tell of what happened after they have left the lock.         *)
(*                                                                         *)
(* A section of code under self._lock is one step. So is everything a       *)
(* thread does between two such sections: it touches no shared state.       *)
(***************************************************************************)
EXTENDS Naturals, FiniteSets

CONSTANTS
  Tasks,        \* the keys "owner:client_task_id" clients may submit
  Linked,       \* the tasks submitted with a conversation id and an image id
  NImages,      \* bound: most images one gateway answer holds
  MaxAttempts,  \* len(DOWNLOAD_RETRY_DELAYS)
  MaxRestarts,  \* bound: crashes of the process
  MaxFaults     \* bound: failed writes of the task store or of the gallery

ASSUME ConstantsOK ==
  /\ Linked \subseteq Tasks
  /\ NImages \in Nat \ {0}
  /\ MaxAttempts \in Nat \ {0}
  /\ MaxRestarts \in Nat
  /\ MaxFaults \in Nat

VARIABLES
  up,        \* the process is running
  mem,       \* self._tasks
  disk,      \* what the task store holds
  worker,    \* where the thread of _run_task stands, per task
  result,    \* that thread's local variable data: the materialized images
  retry,     \* the threads of _retry_pending_downloads, per task and origin
  gallery,   \* the status of the linked result in the user's conversation
  restarts,  \* crashes so far
  faults     \* failed writes so far

vars == <<up, mem, disk, worker, result, retry, gallery, restarts, faults>>

-----------------------------------------------------------------------------
(* Tasks *)

Images == 0 .. (NImages - 1)

\* An entry of task["data"]: none past the end of the list, pending while it
\* carries _download_pending, final otherwise.
NoData == [i \in Images |-> "none"]

Absent == [status |-> "absent", data |-> NoData, age |-> "fresh"]

Statuses == {"queued", "running", "success", "error"}
Unfinished(t) == t.status \in {"queued", "running"}
Terminal(t) == t.status \in {"success", "error"}

Pending(d) == {i \in Images : d[i] = "pending"}

\* What _materialize_gateway_images makes of a non-empty answer: a list without
\* gaps, each image stored or, if its download failed, pending.
Answers ==
  {d \in [Images -> {"none", "pending", "final"}] :
     d[0] # "none" /\ \A i \in Images : d[i] # "none" => \A j \in 0..i : d[j] # "none"}

\* updated_at is set to the present by every change of a task.
Touched(t) == [t EXCEPT !.age = "fresh"]

Expired(m) == {k \in Tasks : Terminal(m[k]) /\ m[k].age = "expired"}

\* _cleanup_locked
Cleaned(m) == [k \in Tasks |-> IF k \in Expired(m) THEN Absent ELSE m[k]]

(* The two stores a step may write. Either write can fail; the number of     *)
(* failures is bounded by MaxFaults.                                         *)

Fault == faults < MaxFaults /\ faults' = faults + 1

\* _save_locked after the tasks in memory became m: the whole map is written,
\* atomically.
Saved(m) == mem' = m /\ disk' = m /\ UNCHANGED faults

\* The store raised: memory keeps the change, the store the previous map.
SaveFails(m) == mem' = m /\ UNCHANGED disk /\ Fault

\* _update_linked_result: exceptions are swallowed, so a failed write leaves
\* the gallery as it was and the caller none the wiser.
Tell(k, status) ==
  IF k \in Linked
  THEN \/ gallery' = [gallery EXCEPT ![k] = status] /\ UNCHANGED faults
       \/ UNCHANGED gallery /\ Fault
  ELSE UNCHANGED <<gallery, faults>>

-----------------------------------------------------------------------------
(* Threads *)

\* A worker is dead when an exception left _run_task, idle when it returned or
\* was never started.
WorkerStates ==
  {"idle", "start", "notify", "gateway", "announce", "fail", "report", "dead"}
WorkerLives(k) == worker[k] \notin {"idle", "dead"}

\* Two retry threads can work on one task: one started when the process came
\* up, one started by the worker of this process.
Origins == {"resumed", "spawned"}

\* A retry thread is spent when it ended with an image still missing: all
\* attempts used, or killed by a failed save.
NoThread == [pc |-> "idle", attempt |-> 0, todo |-> {}, failed |-> {}]
Spent == [NoThread EXCEPT !.pc = "spent"]
StartRetry(indices) ==
  IF indices = {} THEN NoThread ELSE [NoThread EXCEPT !.pc = "scan", !.todo = indices]

RetryLives(k) == \E o \in Origins : retry[k][o].pc \in {"scan", "fetch", "link"}

GoTo(k, pc) == worker' = [worker EXCEPT ![k] = pc]

-----------------------------------------------------------------------------
(* Requests *)

\* Mutants of Known: only a task that has ended is known; one that ended in an
\* error is not.
KnownEnded(t) == Terminal(t)
KnownNotFailed(t) == t.status \notin {"absent", "error"}
\* The lookup of a submitted key: a task is known whether it has ended or not.
Known(t) == t.status # "absent"

\* Mutant of Rejected: the task stays in memory when its save raises.
RejectedKept(before, after) == after
\* A new task is taken out of memory again if its save raises.
Rejected(before, after) == before

\* _submit. A known key is answered from memory; the cleanup that precedes the
\* lookup is saved then. A new task is saved before its worker starts.
Submit(k) ==
  LET m == Cleaned(mem)
      queued == [m EXCEPT ![k] = [Absent EXCEPT !.status = "queued"]]
  IN  /\ up
      /\ \/ /\ Known(m[k])
            /\ m # mem
            /\ Saved(m) \/ SaveFails(m)
            /\ UNCHANGED worker
         \/ /\ ~Known(m[k])
            /\ \/ Saved(queued) /\ GoTo(k, "start")
               \/ SaveFails(Rejected(m, queued)) /\ UNCHANGED worker
      /\ UNCHANGED <<up, result, retry, gallery, restarts>>

\* Mutant of ListTasks: what the cleanup removed stays in the store.
ListTasksUnsaved ==
  /\ up
  /\ Expired(mem) # {}
  /\ mem' = Cleaned(mem)
  /\ UNCHANGED <<up, disk, worker, result, retry, gallery, restarts, faults>>

\* list_tasks changes state only if the cleanup removes a task.
ListTasks ==
  /\ up
  /\ Expired(mem) # {}
  /\ Saved(Cleaned(mem)) \/ SaveFails(Cleaned(mem))
  /\ UNCHANGED <<up, worker, result, retry, gallery, restarts>>

\* set_image_feedback: a vote on an image a task has. The vote itself is not
\* kept here; what it does to the task is to renew updated_at.
SetImageFeedback(k) ==
  LET voted == [mem EXCEPT ![k] = Touched(@)]
  IN  /\ up
      /\ mem[k].data # NoData
      /\ Saved(voted) \/ SaveFails(voted)
      /\ UNCHANGED <<up, worker, result, retry, gallery, restarts>>

-----------------------------------------------------------------------------
(* _run_task *)

\* _update_task(status=RUNNING), before the try: if the save raises the thread
\* ends, with the task running in memory.
StartRun(k) ==
  LET running == [mem EXCEPT ![k] = [Touched(@) EXCEPT !.status = "running"]]
  IN  /\ worker[k] = "start"
      /\ \/ Saved(running) /\ GoTo(k, "notify")
         \/ SaveFails(running) /\ GoTo(k, "dead")
      /\ UNCHANGED <<up, result, retry, gallery, restarts>>

NotifyRunning(k) ==
  /\ worker[k] = "notify"
  /\ Tell(k, "loading")
  /\ GoTo(k, "gateway")
  /\ UNCHANGED <<up, mem, disk, result, retry, restarts>>

\* The gateway is unavailable, refuses, times out or returns nothing, or an
\* image it returned inline cannot be decoded or stored.
GatewayFails(k) ==
  /\ worker[k] = "gateway"
  /\ GoTo(k, "fail")
  /\ UNCHANGED <<up, mem, disk, result, retry, gallery, restarts, faults>>

\* The answer is materialized and recorded. A failed save goes to the handler
\* of _run_task with the task a success in memory.
GatewaySucceeds(k) ==
  \E d \in Answers :
    LET done == [mem EXCEPT ![k] = [Touched(@) EXCEPT !.status = "success", !.data = d]]
    IN  /\ worker[k] = "gateway"
        /\ result' = [result EXCEPT ![k] = d]
        /\ \/ Saved(done) /\ GoTo(k, "announce")
           \/ SaveFails(done) /\ GoTo(k, "fail")
        /\ UNCHANGED <<up, retry, gallery, restarts>>

\* Mutant of Outcome: a success although the image is still a link.
OutcomeEarly(d) == "success"
\* What the gallery is told of a success, which shows the first image only.
Outcome(d) == IF d[0] = "pending" THEN "loading" ELSE "success"

\* The gallery is told, and a thread is started for the images still pending.
Announce(k) ==
  /\ worker[k] = "announce"
  /\ Tell(k, Outcome(result[k]))
  /\ retry' = [retry EXCEPT ![k]["spawned"] = StartRetry(Pending(result[k]))]
  /\ result' = [result EXCEPT ![k] = NoData]
  /\ GoTo(k, "idle")
  /\ UNCHANGED <<up, mem, disk, restarts>>

\* The handler of _run_task: the task becomes an error and loses its data.
Fail(k) ==
  LET failed == [mem EXCEPT ![k] = [Absent EXCEPT !.status = "error"]]
  IN  /\ worker[k] = "fail"
      /\ result' = [result EXCEPT ![k] = NoData]
      /\ \/ Saved(failed) /\ GoTo(k, "report")
         \/ SaveFails(failed) /\ GoTo(k, "dead")
      /\ UNCHANGED <<up, retry, gallery, restarts>>

Report(k) ==
  /\ worker[k] = "report"
  /\ Tell(k, "error")
  /\ GoTo(k, "idle")
  /\ UNCHANGED <<up, mem, disk, result, retry, restarts>>

WorkerStep(k) ==
  \/ StartRun(k) \/ NotifyRunning(k)
  \/ GatewayFails(k) \/ GatewaySucceeds(k)
  \/ Announce(k) \/ Fail(k) \/ Report(k)

-----------------------------------------------------------------------------
(* _retry_pending_downloads: thread o of task k *)

\* The image the thread is at: remaining is a list in ascending order.
Current(k, o) == {i \in retry[k][o].todo : \A j \in retry[k][o].todo : i <= j}

Become(k, o, t) == retry' = [retry EXCEPT ![k][o] = t]

\* The thread done with image i, and failed what it leaves to the next pass.
Past(k, o, i, failed) ==
  [retry[k][o] EXCEPT !.pc = "scan", !.todo = @ \ {i}, !.failed = failed]

\* Under the lock: the entry is looked up, and skipped if it needs no download.
Scan(k, o) ==
  LET t == retry[k][o]
  IN  /\ t.pc = "scan"
      /\ \E i \in Current(k, o) :
           IF mem[k].status = "absent"
           THEN Become(k, o, NoThread)
           ELSE IF mem[k].data[i] = "pending"
                THEN Become(k, o, [t EXCEPT !.pc = "fetch"])
                ELSE Become(k, o, Past(k, o, i, t.failed))
      /\ UNCHANGED <<up, mem, disk, worker, result, gallery, restarts, faults>>

\* Mutant of FetchFails: the image is not kept for the next pass.
FetchFailsForgets(k, o) ==
  /\ retry[k][o].pc = "fetch"
  /\ \E i \in Current(k, o) : Become(k, o, Past(k, o, i, retry[k][o].failed))
  /\ UNCHANGED <<up, mem, disk, worker, result, gallery, restarts, faults>>

FetchFails(k, o) ==
  /\ retry[k][o].pc = "fetch"
  /\ \E i \in Current(k, o) :
       Become(k, o, Past(k, o, i, retry[k][o].failed \union {i}))
  /\ UNCHANGED <<up, mem, disk, worker, result, gallery, restarts, faults>>

\* Entry i of task k replaced by the stored image.
WithImage(k, i) == [mem EXCEPT ![k] = [Touched(@) EXCEPT !.data[i] = "final"]]

\* Mutant of FetchSucceeds: the entry is replaced in memory and not saved.
FetchSucceedsUnsaved(k, o) ==
  /\ retry[k][o].pc = "fetch"
  /\ \E i \in Current(k, o) :
       /\ mem[k].data[i] # "none"
       /\ mem' = WithImage(k, i)
       /\ Become(k, o, [retry[k][o] EXCEPT !.pc = "link"])
  /\ UNCHANGED <<up, disk, worker, result, gallery, restarts, faults>>

\* Under the lock again, after image i was downloaded and stored without it: the
\* task may be gone, its data too short, or the entry is replaced and saved.
StoreFetched(k, o, i) ==
  \/ /\ mem[k].status = "absent"
     /\ Become(k, o, NoThread)
     /\ UNCHANGED <<mem, disk, faults>>
  \/ /\ mem[k].status # "absent"
     /\ mem[k].data[i] = "none"
     /\ Become(k, o, Past(k, o, i, retry[k][o].failed))
     /\ UNCHANGED <<mem, disk, faults>>
  \/ /\ mem[k].data[i] # "none"
     /\ Saved(WithImage(k, i))
     /\ Become(k, o, IF i = 0 THEN [retry[k][o] EXCEPT !.pc = "link"]
                              ELSE Past(k, o, i, retry[k][o].failed))
  \/ /\ mem[k].data[i] # "none"
     /\ SaveFails(WithImage(k, i))
     /\ Become(k, o, Spent)

FetchSucceeds(k, o) ==
  /\ retry[k][o].pc = "fetch"
  /\ \E i \in Current(k, o) : StoreFetched(k, o, i)
  /\ UNCHANGED <<up, worker, result, gallery, restarts>>

\* Mutant of LinkStored: the gallery is not told.
LinkStoredSilent(k, o) ==
  /\ retry[k][o].pc = "link"
  /\ \E i \in Current(k, o) : Become(k, o, Past(k, o, i, retry[k][o].failed))
  /\ UNCHANGED <<up, mem, disk, worker, result, gallery, restarts, faults>>

\* Only the first image of a task is shown in the gallery.
LinkStored(k, o) ==
  /\ retry[k][o].pc = "link"
  /\ Tell(k, "success")
  /\ \E i \in Current(k, o) : Become(k, o, Past(k, o, i, retry[k][o].failed))
  /\ UNCHANGED <<up, mem, disk, worker, result, restarts>>

\* Mutant of AttemptsOver: one pass too many.
AttemptsOverLate(attempt) == attempt = MaxAttempts
AttemptsOver(attempt) == attempt + 1 = MaxAttempts

\* The end of one pass over the images: sleep and try the rest again, until
\* there is none or the delays are used up.
EndPass(k, o) ==
  LET t == retry[k][o]
  IN  /\ t.pc = "scan"
      /\ t.todo = {}
      /\ Become(k, o,
           IF t.failed = {} THEN NoThread
           ELSE IF AttemptsOver(t.attempt) THEN Spent
           ELSE [NoThread EXCEPT !.pc = "scan", !.attempt = t.attempt + 1, !.todo = t.failed])
      /\ UNCHANGED <<up, mem, disk, worker, result, gallery, restarts, faults>>

RetryStep(k, o) ==
  \/ Scan(k, o) \/ FetchFails(k, o) \/ FetchSucceeds(k, o)
  \/ LinkStored(k, o) \/ EndPass(k, o)

-----------------------------------------------------------------------------
(* The process *)

Crash ==
  /\ up
  /\ restarts < MaxRestarts
  /\ restarts' = restarts + 1
  /\ up' = FALSE
  /\ mem' = [k \in Tasks |-> Absent]
  /\ retry' = [k \in Tasks |-> [o \in Origins |-> NoThread]]
  /\ worker' = [k \in Tasks |-> "idle"]
  /\ result' = [k \in Tasks |-> NoData]
  /\ UNCHANGED <<disk, gallery, faults>>

\* Mutants of Recovered: no task is recovered; every task is.
RecoveredNone(m) == m
RecoveredAll(m) ==
  [k \in Tasks |-> IF m[k].status = "absent" THEN m[k] ELSE [Touched(m[k]) EXCEPT !.status = "error"]]

\* _recover_unfinished_locked on the tasks that were loaded
Recovered(m) ==
  [k \in Tasks |->
     IF Unfinished(m[k]) THEN [Touched(m[k]) EXCEPT !.status = "error"] ELSE m[k]]

\* _resume_pending_downloads on the tasks the service came up with
Resumed(m) ==
  [k \in Tasks |-> [o \in Origins |->
     IF o = "resumed" /\ m[k].status = "success"
     THEN StartRetry(Pending(m[k].data)) ELSE NoThread]]

\* ImageTaskService.__init__ as the module is imported: load, recover, tell the
\* gallery of the interrupted tasks, clean up, save what changed, resume the
\* downloads. lost are the interrupted tasks whose gallery write failed. If the
\* save raises, the process does not come up.
BootTells(interrupted, lost) ==
  gallery' = [k \in Tasks |-> IF k \in interrupted \ lost THEN "error" ELSE gallery[k]]

Boot ==
  LET m == Cleaned(Recovered(disk))
      interrupted == {k \in Linked : Unfinished(disk[k])}
  IN  /\ ~up
      /\ \E lost \in SUBSET interrupted, fails \in BOOLEAN :
           /\ BootTells(interrupted, lost)
           /\ fails => m # disk
           /\ faults' = faults + (IF lost # {} THEN 1 ELSE 0) + (IF fails THEN 1 ELSE 0)
           /\ faults' <= MaxFaults
           /\ IF fails
              THEN UNCHANGED <<up, mem, disk, retry>>
              ELSE up' = TRUE /\ mem' = m /\ disk' = m /\ retry' = Resumed(m)
      /\ UNCHANGED <<worker, result, restarts>>

\* Time passes. The retention is a day or more and a thread lives for minutes:
\* a task changed while a thread works on it does not come near its expiry
\* before the thread has ended. One that was near it already may expire.
Older(t, busy) ==
  CASE t.status = "absent" \/ (t.age = "fresh" /\ busy) -> t
    [] t.status # "absent" /\ t.age = "fresh" /\ ~busy -> [t EXCEPT !.age = "aging"]
    [] t.status # "absent" /\ t.age # "fresh" -> [t EXCEPT !.age = "expired"]

Age(k) ==
  LET busy == WorkerLives(k) \/ RetryLives(k)
  IN  /\ disk' = [disk EXCEPT ![k] = Older(@, busy)]
      /\ mem' = [mem EXCEPT ![k] = Older(@, busy)]
      /\ UNCHANGED <<up, worker, result, retry, gallery, restarts, faults>>

-----------------------------------------------------------------------------

\* A client creates the turn with its images loading before it submits them
\* (runConversationQueue in web/src/app/image/page.tsx).
Init ==
  /\ up = TRUE
  /\ mem = [k \in Tasks |-> Absent]
  /\ disk = [k \in Tasks |-> Absent]
  /\ worker = [k \in Tasks |-> "idle"]
  /\ result = [k \in Tasks |-> NoData]
  /\ retry = [k \in Tasks |-> [o \in Origins |-> NoThread]]
  /\ gallery = [k \in Tasks |-> IF k \in Linked THEN "loading" ELSE "none"]
  /\ restarts = 0
  /\ faults = 0

Next ==
  \/ \E k \in Tasks : Submit(k) \/ SetImageFeedback(k) \/ WorkerStep(k) \/ Age(k)
  \/ \E k \in Tasks, o \in Origins : RetryStep(k, o)
  \/ ListTasks \/ Crash \/ Boot

\* A thread that has been started runs on: the gateway and the downloads have
\* timeouts. The container restarts a process that ended (restart policy
\* unless-stopped in docker-compose.yml).
Fairness ==
  /\ \A k \in Tasks : WF_vars(WorkerStep(k))
  /\ \A k \in Tasks, o \in Origins : WF_vars(RetryStep(k, o))
  /\ WF_vars(Boot)

Spec == Init /\ [][Next]_vars

FairSpec == Spec /\ Fairness

-----------------------------------------------------------------------------
(* Properties *)

TaskType ==
  [status : Statuses \union {"absent"},
   data : [Images -> {"none", "pending", "final"}],
   age : {"fresh", "aging", "expired"}]

ThreadType ==
  [pc : {"idle", "scan", "fetch", "link", "spent"},
   attempt : 0 .. (MaxAttempts - 1),
   todo : SUBSET Images,
   failed : SUBSET Images]

\* Every variable has its type.
TypeOK ==
  /\ up \in BOOLEAN
  /\ mem \in [Tasks -> TaskType]
  /\ disk \in [Tasks -> TaskType]
  /\ worker \in [Tasks -> WorkerStates]
  /\ result \in [Tasks -> [Images -> {"none", "pending", "final"}]]
  /\ retry \in [Tasks -> [Origins -> ThreadType]]
  /\ gallery \in [Tasks -> {"none", "loading", "success", "error"}]
  /\ restarts \in 0 .. MaxRestarts
  /\ faults \in 0 .. MaxFaults

\* The worker's place in _run_task and the task's status in memory never
\* disagree. In particular a queued or running task always has a worker that
\* will finish it, unless a failed save killed that worker: no task waits for
\* nobody. (lines 427-475, 484, 525, 586)
StatusOf(pc) ==
  CASE pc \in {"idle", "dead"} -> Statuses \union {"absent"}
    [] pc = "start" -> {"queued"}
    [] pc \in {"notify", "gateway"} -> {"running"}
    [] pc = "announce" -> {"success"}
    [] pc = "fail" -> {"running", "success"}
    [] pc = "report" -> {"error"}

WorkerMatchesTask ==
  \A k \in Tasks :
    /\ mem[k].status \in StatusOf(worker[k])
    /\ Unfinished(mem[k]) => worker[k] # "idle"

\* As long as no write failed, whatever a thread or a client can see of a task
\* is already in the store: a crash forgets nothing anybody was told.
SeenIsSaved == up /\ faults = 0 => mem = disk

\* An image of a finished task that is still a link to the upstream host is
\* being fetched, or about to be, or its thread has ended without it: a restart
\* or a second thread does not lose it. (_resume_pending_downloads)
PendingIsRetried ==
  \A k \in Tasks : up /\ mem[k].status = "success" =>
    \A i \in Pending(mem[k].data) :
      \/ worker[k] \in {"announce", "fail"}
      \/ \E o \in Origins : \/ retry[k][o].pc = "spent"
                            \/ i \in retry[k][o].todo \union retry[k][o].failed

\* What the gallery should show of a task once its threads have ended.
Shown(t) ==
  CASE t.status = "error" -> "error"
    [] t.status = "success" -> IF t.data[0] = "pending" THEN "loading" ELSE "success"

\* Once the threads of a task have ended the gallery agrees with it. A crash
\* between the save of the outcome and the word to the gallery leaves the
\* gallery loading, never showing something else than the outcome.
GalleryAgrees ==
  up /\ faults = 0 => \A k \in Linked :
    Terminal(mem[k]) /\ ~WorkerLives(k) /\ ~RetryLives(k) =>
      \/ gallery[k] = Shown(mem[k])
      \/ restarts > 0 /\ gallery[k] = "loading"

\* A task whose worker is alive is never given a second one, and so never a
\* second, billed call of the gateway: submitting a key again is idempotent.
NoSecondWorker ==
  [][\A k \in Tasks : worker[k] # "start" /\ worker'[k] = "start" => ~WorkerLives(k)]_vars

\* An outcome that reached the store is kept until it expires: a success stays
\* one, an error too, and an image that was stored does not become a link
\* again. Holds while no write fails.
OutcomeIsKept ==
  [][faults' = 0 => \A k \in Tasks :
       Terminal(disk[k]) /\ disk[k].age # "expired" =>
         /\ disk'[k].status = disk[k].status
         /\ \A i \in Images : disk[k].data[i] = "final" => disk'[k].data[i] = "final"]_vars

\* The gallery turns to success only for a task that is in the store as a
\* success whose first image is stored: it never shows an image a restart
\* would take back. Holds while no write fails.
GalleryShowsSaved ==
  [][faults = 0 => \A k \in Tasks : gallery[k] # "success" /\ gallery'[k] = "success" =>
       disk[k].status = "success" /\ disk[k].data[0] = "final"]_vars

\* Every accepted task ends, whatever the gateway and the downloads do and
\* however often the process is restarted, as long as no write fails.
EveryTaskEnds ==
  \A k \in Tasks : up /\ Unfinished(mem[k]) ~> up /\ Terminal(mem[k])

\* The user's gallery hears of it: a task that was accepted leaves the loading
\* state of its gallery result, unless the link to its image outlived every
\* attempt to download it, or a crash came between the outcome and the word.
GallerySettles ==
  \A k \in Linked : Unfinished(mem[k]) ~>
    \/ gallery[k] \in {"success", "error"}
    \/ restarts > 0
    \/ \E o \in Origins : retry[k][o].pc = "spent"

\* "The gallery stays loading until the retries complete" (line 529): a gallery
\* result is loading only while a thread works on its task.
LoadingUntilRetriesComplete ==
  \A k \in Linked : Terminal(mem[k]) /\ gallery[k] = "loading" => WorkerLives(k) \/ RetryLives(k)

-----------------------------------------------------------------------------
(* What a client sees of a task: the task in memory, or, while the process is *)
(* down, what it will find in the store when it comes up.                    *)

View == IF up THEN mem ELSE Recovered(disk)

Lifecycle == INSTANCE ImageTaskLifecycle WITH
  phase <- [k \in Tasks |-> View[k].status],
  stored <- [k \in Tasks |-> {i \in Images : View[k].data[i] = "final"}],
  old <- {k \in Tasks : View[k].age = "expired"}

\* As long as no write fails the service keeps the promises of
\* ImageTaskLifecycle, crashes and restarts included.
ImplementsLifecycle == Lifecycle!LifecycleSpec

\* The same with the promise that every accepted task ends.
ImplementsFairLifecycle == Lifecycle!LifecycleFairSpec

=============================================================================
