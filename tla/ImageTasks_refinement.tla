------------------------ MODULE ImageTasks_refinement -------------------------
(* ImageTasks implements ImageTaskLifecycle as long as no write fails. *)
EXTENDS ImageTasks_proofs

USE ConstantsOK DEF ConstantsOK

-----------------------------------------------------------------------------
(* What else holds as long as no write fails: only a success has images, a    *)
(* task that is not there has no age, no worker was killed, and the handler   *)
(* of _run_task meets a running task.                                        *)

CalmInv ==
  /\ WorkerInv
  /\ SeenIsSaved
  /\ Regular(disk)
  /\ \A k \in Tasks : /\ worker[k] # "dead"
                      /\ worker[k] = "fail" => mem[k].status = "running"

\* Every step of a service none of whose writes fails keeps this.
LEMMA CalmStep ==
  ASSUME MaxFaults = 0, CalmInv, [Next]_vars
  PROVE  CalmInv'
<1>. USE DEF TaskMap
<1>inv. WorkerInv /\ WorkerInv' /\ SeenIsSaved' /\ TypeOK /\ TypeOK'
  BY WorkerStepInv, SavedStep DEF CalmInv, WorkerInv
<1>calm. faults = 0 /\ faults' = 0 /\ (up => mem = disk)
  BY <1>inv DEF TypeOK, CalmInv, SeenIsSaved
<1>maps. mem \in TaskMap /\ disk \in TaskMap
  BY <1>inv DEF TypeOK
<1>save. \A m : Saved(m) \/ SaveFails(m) => Saved(m) /\ ~SaveFails(m)
  BY <1>calm DEF Saved, SaveFails, Fault
<1>quiet. ASSUME NEW k \in Tasks, worker[k] # "idle" \/ \E o \in Origins : retry[k][o].pc # "idle"
          PROVE  up
  BY <1>quiet, <1>inv DEF WorkerInv, DownIsQuiet
<1>images. Regular(disk)
  BY DEF CalmInv
<1>workers. \A k \in Tasks : worker[k] # "dead" /\ (worker[k] = "fail" => mem[k].status = "running")
  BY DEF CalmInv
<1>suff. ASSUME Regular(disk'),
                \A k \in Tasks : worker'[k] # "dead" /\ (worker'[k] = "fail" => mem'[k].status = "running")
         PROVE  CalmInv'
  BY <1>inv, <1>suff DEF CalmInv, Regular
<1>0. CASE UNCHANGED vars
  BY <1>0, <1>images, <1>workers, <1>suff DEF vars, Regular
<1>cleaned. /\ Cleaned(mem) \in TaskMap
            /\ \A k \in Tasks : mem[k].status = "running" => Cleaned(mem)[k].status = "running"
            /\ up => Regular(Cleaned(mem))
  <2>1. \A k \in Tasks : mem[k].status = "running" => Cleaned(mem)[k] = mem[k]
    BY DEF Cleaned, Expired, Terminal
  <2>. QED BY <1>maps, <2>1, <1>calm, <1>images, CleanedType, ImagesKept
<1>1. ASSUME NEW k \in Tasks, Submit(k) PROVE CalmInv'
  <2>up. up
    BY <1>1 DEF Submit
  <2>1. CASE Known(Cleaned(mem)[k]) /\ Saved(Cleaned(mem)) /\ UNCHANGED worker
    BY <2>1, <2>up, <1>cleaned, <1>workers, <1>suff DEF Saved
  <2>2. CASE /\ ~Known(Cleaned(mem)[k])
             /\ Saved([Cleaned(mem) EXCEPT ![k] = [Absent EXCEPT !.status = "queued"]])
             /\ GoTo(k, "start")
    <3>1. Regular(disk')
      BY <2>2, <2>up, <1>cleaned DEF Saved, Regular, Absent
    <3>2. ASSUME NEW j \in Tasks \ {k} PROVE mem'[j] = Cleaned(mem)[j] /\ worker'[j] = worker[j]
      BY <2>2, <1>cleaned, <1>inv DEF Saved, GoTo, TypeOK
    <3>3. worker'[k] = "start"
      BY <2>2, <1>inv DEF GoTo, TypeOK
    <3>. QED BY <3>1, <3>2, <3>3, <1>cleaned, <1>workers, <1>suff
  <2>. QED BY <1>1, <2>1, <2>2, <1>save DEF Submit
<1>2. ASSUME NEW k \in Tasks, SetImageFeedback(k) PROVE CalmInv'
  <2>1. up /\ worker' = worker /\ mem' = [mem EXCEPT ![k] = Touched(@)] /\ disk' = mem'
    BY <1>2, <1>save DEF SetImageFeedback, Saved
  <2>2. mem'[k].status = "success" /\ mem[k].status = "success"
    <3>1. mem[k].status = "success"
      BY <1>2, <2>1, <1>calm, <1>images DEF SetImageFeedback, Regular
    <3>. QED BY <2>1, <3>1, <1>maps, mem[k] \in TaskType DEF Touched, TaskType
  <2>3. \A j \in Tasks \ {k} : mem'[j] = mem[j]
    BY <2>1, <1>maps
  <2>. QED BY <2>1, <2>2, <2>3, <1>calm, <1>images, <1>workers, <1>suff DEF Regular
<1>3. ASSUME NEW k \in Tasks, WorkerStep(k) PROVE CalmInv'
  <2>idle. worker[k] # "idle"
    BY <1>3 DEF WorkerStep, StartRun, NotifyRunning, GatewayFails, GatewaySucceeds,
                Announce, Fail, Report
  <2>up. up /\ mem = disk
    BY <2>idle, <1>quiet, <1>calm
  <2>k. mem[k] \in TaskType /\ Matches(mem[k], worker[k])
    BY <1>maps, <1>inv DEF WorkerInv
  <2>suff. ASSUME disk' = mem', mem'[k].data # NoData => mem'[k].status = "success",
                  mem'[k].status # "absent",
                  worker'[k] # "dead", worker'[k] = "fail" => mem'[k].status = "running",
                  \A j \in Tasks \ {k} : mem'[j] = mem[j] /\ worker'[j] = worker[j]
           PROVE  CalmInv'
    BY <2>suff, <2>up, <1>images, <1>workers, <1>suff DEF Regular
  <2>others. ASSUME NEW t, Saved([mem EXCEPT ![k] = t]), NEW pc, GoTo(k, pc)
             PROVE  /\ \A j \in Tasks \ {k} : mem'[j] = mem[j] /\ worker'[j] = worker[j]
                    /\ mem'[k] = t /\ worker'[k] = pc /\ disk' = mem'
    BY <2>others, <1>maps, <1>inv DEF Saved, GoTo, TypeOK
  <2>same. ASSUME UNCHANGED <<mem, disk>>, NEW pc, GoTo(k, pc), pc # "dead",
                  pc = "fail" => mem[k].status = "running"
           PROVE  CalmInv'
    <3>1. mem[k].status # "absent"
      BY <2>k, <2>idle, <1>workers, <1>inv DEF Matches, StatusOf, TypeOK, WorkerStates
    <3>. QED BY <2>same, <2>suff, <2>up, <3>1, <1>images, <1>inv DEF GoTo, TypeOK, Regular
  <2>1. CASE StartRun(k)
    <3>1. Saved([mem EXCEPT ![k] = [Touched(mem[k]) EXCEPT !.status = "running"]]) /\ GoTo(k, "notify")
      BY <2>1, <1>save DEF StartRun
    <3>2. mem[k].data = NoData
      BY <2>1, <2>k, <2>up, <1>images DEF StartRun, Matches, StatusOf, Regular
    <3>3. mem'[k].data = NoData /\ mem'[k].status = "running"
      <4>1. mem'[k] = [Touched(mem[k]) EXCEPT !.status = "running"]
        BY <3>1, <2>others
      <4>. QED BY <3>2, <4>1, <2>k DEF Touched, TaskType
    <3>. QED BY <3>1, <3>3, <2>others, <2>suff
  <2>2. CASE GatewayFails(k)
    BY <2>2, <2>same, <2>k DEF GatewayFails, Matches, StatusOf
  <2>3. CASE GatewaySucceeds(k)
    <3>1. PICK d \in Answers :
            /\ Saved([mem EXCEPT ![k] = [Touched(mem[k]) EXCEPT !.status = "success", !.data = d]])
            /\ GoTo(k, "announce")
      <4>. DEFINE done(d) == [mem EXCEPT ![k] = [Touched(mem[k]) EXCEPT !.status = "success", !.data = d]]
      <4>1. PICK d \in Answers : (Saved(done(d)) /\ GoTo(k, "announce"))
                                 \/ (SaveFails(done(d)) /\ GoTo(k, "fail"))
        BY <2>3 DEF GatewaySucceeds
      <4>. HIDE DEF done
      <4>2. Saved(done(d)) /\ GoTo(k, "announce")
        BY <4>1, <1>save
      <4>. QED BY <4>2 DEF done
    <3>2. mem'[k].status = "success"
      <4>1. mem'[k] = [Touched(mem[k]) EXCEPT !.status = "success", !.data = d]
        BY <3>1, <2>others
      <4>. QED BY <4>1, <2>k DEF Touched, TaskType
    <3>3. /\ \A j \in Tasks \ {k} : mem'[j] = mem[j] /\ worker'[j] = worker[j]
          /\ worker'[k] = "announce" /\ disk' = mem'
      BY <3>1, <2>others
    <3>. QED BY <3>2, <3>3, <2>suff
  <2>4. CASE Fail(k)
    <3>1. Saved([mem EXCEPT ![k] = [Absent EXCEPT !.status = "error"]]) /\ GoTo(k, "report")
      <4>. DEFINE failed == [mem EXCEPT ![k] = [Absent EXCEPT !.status = "error"]]
      <4>1. (Saved(failed) /\ GoTo(k, "report")) \/ (SaveFails(failed) /\ GoTo(k, "dead"))
        BY <2>4 DEF Fail
      <4>. HIDE DEF failed
      <4>2. Saved(failed) /\ GoTo(k, "report")
        BY <4>1, <1>save
      <4>. QED BY <4>2 DEF failed
    <3>2. mem'[k].data = NoData /\ mem'[k].status = "error"
      BY <3>1, <2>others DEF Absent
    <3>. QED BY <3>1, <3>2, <2>others, <2>suff
  <2>5. CASE NotifyRunning(k) \/ Announce(k) \/ Report(k)
    BY <2>5, <2>same DEF NotifyRunning, Announce, Report
  <2>. QED BY <1>3, <2>1, <2>2, <2>3, <2>4, <2>5 DEF WorkerStep
<1>4. ASSUME NEW k \in Tasks, Age(k) PROVE CalmInv'
  <2>1. ASSUME NEW t \in TaskType, NEW b \in BOOLEAN
        PROVE  /\ Older(t, b).status = t.status /\ Older(t, b).data = t.data
               /\ t.status = "absent" => Older(t, b).age = t.age
    BY DEF Older, TaskType
  <2>2. \A j \in Tasks : /\ mem'[j].status = mem[j].status
                         /\ disk'[j].status = disk[j].status /\ disk'[j].data = disk[j].data
                         /\ disk[j].status = "absent" => disk'[j].age = disk[j].age
    BY <1>4, <1>maps, <2>1, (WorkerLives(k) \/ RetryLives(k)) \in BOOLEAN DEF Age
  <2>3. worker' = worker
    BY <1>4 DEF Age
  <2>. QED BY <2>2, <2>3, <1>images, <1>workers, <1>suff DEF Regular
<1>5. ASSUME NEW k \in Tasks, NEW o \in Origins, RetryStep(k, o) PROVE CalmInv'
  <2>1. up /\ worker' = worker /\ mem = disk
    BY <1>5, <1>calm, <1>quiet DEF RetryStep, Scan, FetchFails, FetchSucceeds, LinkStored, EndPass
  <2>2. CASE UNCHANGED <<mem, disk>>
    BY <2>1, <2>2, <1>images, <1>workers, <1>suff DEF Regular
  <2>3. ASSUME NEW i \in Images, mem[k].data[i] # "none", Saved(WithImage(k, i)) PROVE CalmInv'
    <3>1. mem[k].status = "success"
      BY <2>1, <2>3, <1>images DEF Regular, NoData
    <3>2. mem'[k].status = "success"
      BY <2>3, <3>1, <1>maps, mem[k] \in TaskType DEF Saved, WithImage, Touched, TaskType
    <3>3. disk' = mem' /\ \A j \in Tasks \ {k} : mem'[j] = mem[j]
      BY <2>3, <1>maps DEF Saved, WithImage
    <3>. QED BY <2>1, <3>1, <3>2, <3>3, <1>images, <1>workers, <1>suff DEF Regular
  <2>4. CASE FetchSucceeds(k, o)
    <3>1. PICK i \in Current(k, o) : StoreFetched(k, o, i)
      BY <2>4 DEF FetchSucceeds
    <3>2. i \in Images
      BY PastType, <1>inv
    <3>. QED BY <3>1, <3>2, <2>2, <2>3, <1>save DEF StoreFetched
  <2>5. CASE ~FetchSucceeds(k, o)
    BY <1>5, <2>5, <2>2 DEF RetryStep, Scan, FetchFails, LinkStored, EndPass
  <2>. QED BY <2>4, <2>5
<1>6. CASE ListTasks
  <2>1. up /\ worker' = worker /\ Saved(Cleaned(mem))
    BY <1>6, <1>save DEF ListTasks
  <2>. QED BY <2>1, <1>cleaned, <1>workers, <1>suff DEF Saved
<1>7. CASE Crash
  <2>1. disk' = disk /\ \A k \in Tasks : worker'[k] = "idle"
    BY <1>7 DEF Crash
  <2>. QED BY <2>1, <1>images, <1>suff DEF Regular
<1>8. CASE Boot
  <2>1. ~up /\ worker' = worker
    BY <1>8 DEF Boot
  <2>2. \A k \in Tasks : worker'[k] = "idle"
    BY <2>1, <1>inv DEF WorkerInv, DownIsQuiet
  <2>3. disk' = disk \/ disk' = Cleaned(Recovered(disk))
    BY <1>8 DEF Boot
  <2>4. Regular(disk')
    BY <2>3, <1>images, <1>maps, ImagesKept, RecoveredType DEF Regular
  <2>. QED BY <2>2, <2>4, <1>suff
<1>. QED
  BY <1>0, <1>1, <1>2, <1>3, <1>4, <1>5, <1>6, <1>7, <1>8 DEF Next

-----------------------------------------------------------------------------
(* Steps of the abstract life cycle, from what a step does to the view of the *)
(* clients                                                                   *)

Phase == [k \in Tasks |-> View[k].status]
Stored(t) == {i \in Images : t.data[i] = "final"}
StoredOf == [k \in Tasks |-> Stored(View[k])]
Old == {k \in Tasks : View[k].age = "expired"}

\* Steps of the abstract specification are steps of its next-state relation.
LEMMA ForgetIsStep ==
  ASSUME NEW E \in SUBSET Tasks, Lifecycle!Forget(E)
  PROVE  Lifecycle!LifecycleNext
BY Zenon DEF Lifecycle!LifecycleNext

\* So is accepting a task while the expired ones are forgotten.
LEMMA AcceptIsStep ==
  ASSUME NEW k \in Tasks, NEW E \in SUBSET Tasks, Lifecycle!Accept(k, E)
  PROVE  Lifecycle!LifecycleNext
BY Zenon DEF Lifecycle!LifecycleNext

\* So is the progress, renewal, expiry or stored image of one task.
LEMMA TaskStep ==
  ASSUME NEW k \in Tasks,
         Lifecycle!Progress(k) \/ Lifecycle!Renew(k) \/ Lifecycle!Expire(k)
           \/ \E i \in Images : Lifecycle!Store(k, i)
  PROVE  Lifecycle!LifecycleNext
BY Zenon DEF Lifecycle!LifecycleNext

\* The effect on the abstract state of a step that changes one task.
LEMMA OneTask ==
  ASSUME NEW k \in Tasks, \A j \in Tasks \ {k} : View'[j] = View[j]
  PROVE  /\ Phase' = [Phase EXCEPT ![k] = View'[k].status]
         /\ StoredOf' = [StoredOf EXCEPT ![k] = Stored(View'[k])]
         /\ Old' = IF View'[k].age = "expired" THEN Old \union {k} ELSE Old \ {k}
BY DEF Phase, StoredOf, Old

\* A step that changes of no task what the view shows of it is a stutter.
LEMMA StutterMaps ==
  ASSUME \A k \in Tasks : /\ View'[k].status = View[k].status
                          /\ View'[k].data = View[k].data
                          /\ View'[k].age = "expired" <=> View[k].age = "expired"
  PROVE  UNCHANGED Lifecycle!lifecycle
BY DEF Lifecycle!lifecycle

\* A cleanup forgets the expired tasks.
LEMMA ForgetMaps ==
  ASSUME View \in TaskMap, View' = Cleaned(View), NEW E, E = Expired(View)
  PROVE  Lifecycle!Forget(E)
<1>1. \A k \in Tasks : View'[k] = IF k \in E THEN Absent ELSE View[k]
  BY DEF Cleaned
<1>2. Absent.status = "absent" /\ Absent.age # "expired"
      /\ {i \in Images : Absent.data[i] = "final"} = {}
  BY DEF Absent, NoData
<1>3. Lifecycle!MayForget(E)
  BY DEF Lifecycle!MayForget, Lifecycle!Ended, Expired, Terminal
<1>. QED BY <1>1, <1>2, <1>3
     DEF Lifecycle!Forget, Lifecycle!PhaseWithout, Lifecycle!StoredWithout, Expired

\* A new task is accepted, the expired ones being forgotten.
LEMMA AcceptMaps ==
  ASSUME View \in TaskMap, Regular(View), NEW k \in Tasks, Cleaned(View)[k].status = "absent",
         View' = [Cleaned(View) EXCEPT ![k] = [Absent EXCEPT !.status = "queued"]],
         NEW E, E = Expired(View)
  PROVE  Lifecycle!Accept(k, E)
<1>1. \A j \in Tasks : Cleaned(View)[j] = IF j \in E THEN Absent ELSE View[j]
  BY DEF Cleaned
<1>2. /\ View'[k] = [Absent EXCEPT !.status = "queued"]
      /\ \A j \in Tasks \ {k} : View'[j] = Cleaned(View)[j]
  BY CleanedType DEF TaskMap
<1>3. /\ Absent.status = "absent" /\ Absent.age = "fresh" /\ Absent.data = NoData
      /\ View'[k].status = "queued" /\ View'[k].age = "fresh" /\ View'[k].data = NoData
      /\ {i \in Images : NoData[i] = "final"} = {}
  BY <1>2 DEF Absent, NoData
<1>4. Lifecycle!MayForget(E)
  BY DEF Lifecycle!MayForget, Lifecycle!Ended, Expired, Terminal
<1>5. Lifecycle!PhaseWithout(E)[k] = "absent"
  BY <1>1 DEF Lifecycle!PhaseWithout
<1>6. k \notin E => View[k].age = "fresh" /\ View[k].data = NoData
  BY <1>1 DEF Regular
<1>7. [j \in Tasks |-> View'[j].status]
        = [Lifecycle!PhaseWithout(E) EXCEPT ![k] = "queued"]
  <2>1. \A j \in Tasks : View'[j].status
          = IF j = k THEN "queued" ELSE IF j \in E THEN "absent" ELSE View[j].status
    BY <1>1, <1>2, <1>3
  <2>. QED BY <2>1 DEF Lifecycle!PhaseWithout
<1>8. [j \in Tasks |-> {i \in Images : View'[j].data[i] = "final"}]
        = Lifecycle!StoredWithout(E)
  <2>1. ASSUME NEW j \in Tasks
        PROVE  {i \in Images : View'[j].data[i] = "final"}
                 = IF j \in E THEN {} ELSE {i \in Images : View[j].data[i] = "final"}
    BY <1>1, <1>2, <1>3, <1>6
  <2>. QED BY <2>1 DEF Lifecycle!StoredWithout
<1>9. {j \in Tasks : View'[j].age = "expired"}
        = {j \in Tasks : View[j].age = "expired"} \ E
  BY <1>1, <1>2, <1>3, <1>6
<1>. QED BY <1>4, <1>5, <1>7, <1>8, <1>9 DEF Lifecycle!Accept
\* A step that changes the phase of one task only, and stores no image, is what
\* the life cycle allows for that change of phase: a worker begins or gives up.
LEMMA PhaseMaps ==
  ASSUME NEW k \in Tasks, \A j \in Tasks \ {k} : View'[j] = View[j],
         Stored(View'[k]) = Stored(View[k]),
         View'[k].age = "expired" <=> View[k].age = "expired",
         \/ View[k].status = "queued" /\ View'[k].status = "running"
         \/ View[k].status = "running" /\ View'[k].status = "error"
  PROVE  Lifecycle!Progress(k)
<1>1. /\ Phase' = [Phase EXCEPT ![k] = View'[k].status]
      /\ StoredOf' = StoredOf
      /\ Old' = Old
  BY OneTask DEF StoredOf, Old
<1>2. Phase[k] = View[k].status
  BY DEF Phase
<1>3. CASE View[k].status = "queued" /\ View'[k].status = "running"
  <2>1. Lifecycle!Begin(k)
    BY <1>1, <1>2, <1>3 DEF Lifecycle!Begin, Phase, StoredOf, Stored, Old
  <2>. QED BY <2>1 DEF Lifecycle!Progress
<1>4. CASE View[k].status = "running" /\ View'[k].status = "error"
  <2>1. Lifecycle!GiveUp(k)
    BY <1>1, <1>2, <1>4 DEF Lifecycle!GiveUp, Phase, StoredOf, Stored, Old
  <2>. QED BY <2>1 DEF Lifecycle!Progress
<1>. QED BY <1>3, <1>4

\* A running task that becomes a success, whatever images it brings, succeeds.
LEMMA SuccessMaps ==
  ASSUME NEW k \in Tasks, \A j \in Tasks \ {k} : View'[j] = View[j],
         View[k].status = "running", View'[k].status = "success",
         View'[k].age = "expired" <=> View[k].age = "expired"
  PROVE  Lifecycle!Progress(k)
<1>1. /\ Phase' = [Phase EXCEPT ![k] = "success"]
      /\ StoredOf' = [StoredOf EXCEPT ![k] = Stored(View'[k])]
      /\ Old' = Old
      /\ Phase[k] = "running"
  BY OneTask DEF StoredOf, Old, Phase
<1>2. Stored(View'[k]) \in SUBSET Images
  BY DEF Stored
<1>3. PICK I \in SUBSET Images : StoredOf' = [StoredOf EXCEPT ![k] = I]
  BY <1>1, <1>2
<1>4. Lifecycle!Succeed(k)
  BY <1>1, <1>3 DEF Lifecycle!Succeed, Phase, StoredOf, Stored, Old
<1>. QED BY <1>4 DEF Lifecycle!Progress

\* A success that gains an image and is renewed has that image stored.
LEMMA StoreMaps ==
  ASSUME NEW k \in Tasks, NEW i \in Images, \A j \in Tasks \ {k} : View'[j] = View[j],
         View[k].status = "success", View'[k].status = "success",
         Stored(View'[k]) = Stored(View[k]) \union {i}, View'[k].age = "fresh"
  PROVE  Lifecycle!Store(k, i)
<1>1. /\ Phase' = Phase
      /\ StoredOf' = [StoredOf EXCEPT ![k] = @ \union {i}]
      /\ Old' = Old \ {k}
      /\ Phase[k] = "success"
  <2>1. Phase[k] = "success" /\ StoredOf[k] = Stored(View[k]) /\ Phase = [Phase EXCEPT ![k] = "success"]
    BY DEF StoredOf, Phase
  <2>. QED BY <2>1, OneTask
<1>. QED BY <1>1 DEF Lifecycle!Store, Phase, StoredOf, Stored, Old

\* A task that ended and comes to its retention's end expires.
LEMMA ExpireMaps ==
  ASSUME NEW k \in Tasks, \A j \in Tasks \ {k} : View'[j] = View[j],
         View[k].status \in {"success", "error"}, View'[k].status = View[k].status,
         View'[k].data = View[k].data, View'[k].age = "expired"
  PROVE  Lifecycle!Expire(k)
<1>1. /\ Phase' = Phase /\ StoredOf' = StoredOf
      /\ Old' = Old \union {k}
      /\ Phase[k] \in {"success", "error"}
  <2>1. /\ Phase[k] = View[k].status /\ Phase = [Phase EXCEPT ![k] = View[k].status]
        /\ StoredOf = [StoredOf EXCEPT ![k] = Stored(View[k])]
    BY DEF StoredOf, Phase
  <2>2. Stored(View'[k]) = Stored(View[k])
    BY DEF Stored
  <2>. QED BY <2>1, <2>2, OneTask
<1>. QED BY <1>1 DEF Lifecycle!Expire, Lifecycle!Ended, Phase, StoredOf, Stored, Old

-----------------------------------------------------------------------------
(* Every step implements a step of the life cycle or a stutter *)

\* Every step of the service, while no write fails, is a step of the abstract
\* life cycle or leaves what a client sees alone.
LEMMA LifecycleStep ==
  ASSUME MaxFaults = 0, CalmInv, [Next]_vars
  PROVE  [Lifecycle!LifecycleNext]_(Lifecycle!lifecycle)
<1>. USE DEF TaskMap
<1>inv. WorkerInv /\ WorkerInv' /\ SeenIsSaved' /\ TypeOK /\ TypeOK' /\ CalmInv'
  BY WorkerStepInv, SavedStep, CalmStep DEF CalmInv, WorkerInv
<1>calm. faults = 0 /\ faults' = 0 /\ (up => mem = disk) /\ (up' => mem' = disk')
  BY <1>inv DEF TypeOK, CalmInv, SeenIsSaved
<1>maps. mem \in TaskMap /\ disk \in TaskMap
  BY <1>inv DEF TypeOK
<1>save. \A m : Saved(m) \/ SaveFails(m) => Saved(m) /\ ~SaveFails(m)
  BY <1>calm DEF Saved, SaveFails, Fault
<1>quiet. ASSUME NEW k \in Tasks, worker[k] # "idle" \/ \E o \in Origins : retry[k][o].pc # "idle"
          PROVE  up
  BY <1>quiet, <1>inv DEF WorkerInv, DownIsQuiet
<1>regular. Regular(disk)
  BY DEF CalmInv
<1>view. /\ up => View = mem /\ Regular(mem)
         /\ up' => View' = mem'
         /\ ~up => View = Recovered(disk)
         /\ ~up' => View' = Recovered(disk')
  BY <1>calm, <1>regular DEF View
<1>stutter. ASSUME UNCHANGED <<up, mem, disk>> PROVE UNCHANGED Lifecycle!lifecycle
  <2>1. View' = View
    BY <1>stutter DEF View, Recovered
  <2>. QED BY <2>1, StutterMaps
<1>forget. ASSUME up, up', Saved(Cleaned(mem)) PROVE Lifecycle!LifecycleNext
  <2>1. PICK E \in SUBSET Tasks : E = Expired(View)
    BY DEF Expired
  <2>2. Lifecycle!Forget(E)
    BY <1>forget, <1>view, <1>maps, <2>1, ForgetMaps DEF Saved
  <2>. QED BY <2>2, ForgetIsStep
<1>0. CASE UNCHANGED vars
  BY <1>0, <1>stutter DEF vars
<1>1. ASSUME NEW k \in Tasks, Submit(k) PROVE Lifecycle!LifecycleNext
  <2>1. CASE Known(Cleaned(mem)[k])
    BY <1>1, <2>1, <1>save, <1>forget DEF Submit
  <2>2. CASE ~Known(Cleaned(mem)[k])
    <3>1. Saved([Cleaned(mem) EXCEPT ![k] = [Absent EXCEPT !.status = "queued"]])
      BY <1>1, <2>2, <1>save DEF Submit
    <3>2. View = mem /\ View' = mem' /\ Regular(mem)
      BY <1>1, <1>view DEF Submit
    <3>3. PICK E \in SUBSET Tasks : E = Expired(View)
      BY DEF Expired
    <3>4. Lifecycle!Accept(k, E)
      BY <2>2, <3>1, <3>2, <3>3, <1>maps, AcceptMaps DEF Saved, Known
    <3>. QED BY <3>4, AcceptIsStep
  <2>. QED BY <2>1, <2>2
<1>2. ASSUME NEW k \in Tasks, SetImageFeedback(k) PROVE Lifecycle!LifecycleNext
  <2>1. View = mem /\ View' = mem' /\ mem' = [mem EXCEPT ![k] = Touched(@)]
    BY <1>2, <1>save, <1>view DEF SetImageFeedback, Saved
  <2>2. mem[k].status = "success" /\ mem[k] \in TaskType
    BY <1>2, <1>calm, <1>regular, <1>maps DEF SetImageFeedback, Regular
  <2>3. mem'[k] = Touched(mem[k]) /\ \A j \in Tasks \ {k} : mem'[j] = mem[j]
    BY <2>1, <1>maps
  <2>4. /\ mem'[k].status = mem[k].status /\ mem'[k].data = mem[k].data
        /\ mem'[k].age = "fresh"
    BY <2>2, <2>3 DEF Touched, TaskType
  <2>5. Lifecycle!Renew(k)
    <3>1. /\ \A j \in Tasks : View'[j].status = View[j].status /\ View'[j].data = View[j].data
          /\ \A j \in Tasks \ {k} : View'[j] = View[j]
          /\ View'[k].age = "fresh" /\ View[k].status = "success"
      BY <2>1, <2>2, <2>3, <2>4
    <3>2. Phase' = Phase /\ StoredOf' = StoredOf /\ Old' = Old \ {k}
      BY <3>1 DEF Phase, StoredOf, Stored, Old
    <3>. QED BY <3>1, <3>2 DEF Lifecycle!Renew, Lifecycle!Ended, Phase, StoredOf, Stored, Old
  <2>. QED BY <2>5, TaskStep
<1>3. ASSUME NEW k \in Tasks, WorkerStep(k) PROVE [Lifecycle!LifecycleNext]_(Lifecycle!lifecycle)
  <2>up. worker[k] # "idle" /\ up /\ up' /\ View = mem /\ View' = mem' /\ mem = disk
    <3>1. worker[k] # "idle" /\ up' = up
      BY <1>3 DEF WorkerStep, StartRun, NotifyRunning, GatewayFails, GatewaySucceeds,
                  Announce, Fail, Report
    <3>. QED BY <3>1, <1>quiet, <1>view, <1>calm
  <2>k. mem[k] \in TaskType /\ Matches(mem[k], worker[k])
    BY <1>maps, <1>inv DEF WorkerInv
  <2>one. ASSUME NEW t, Saved([mem EXCEPT ![k] = t])
          PROVE  mem'[k] = t /\ \A j \in Tasks \ {k} : mem'[j] = mem[j]
    BY <2>one, <1>maps DEF Saved
  <2>1. CASE StartRun(k)
    <3>1. Saved([mem EXCEPT ![k] = [Touched(mem[k]) EXCEPT !.status = "running"]])
      BY <2>1, <1>save DEF StartRun
    <3>2. mem[k].status = "queued" /\ mem[k].age = "fresh"
      BY <2>1, <2>k DEF StartRun, Matches, StatusOf
    <3>3. mem'[k] = [Touched(mem[k]) EXCEPT !.status = "running"]
          /\ \A j \in Tasks \ {k} : mem'[j] = mem[j]
      BY <3>1, <2>one
    <3>4. mem'[k].status = "running" /\ mem'[k].age = "fresh" /\ mem'[k].data = mem[k].data
      BY <3>3, <2>k DEF Touched, TaskType
    <3>5. Stored(View'[k]) = Stored(View[k])
      BY <2>up, <3>4 DEF Stored
    <3>6. Lifecycle!Progress(k)
      BY <2>up, <3>2, <3>3, <3>4, <3>5, PhaseMaps
    <3>. QED BY <3>6, TaskStep
  <2>2. CASE NotifyRunning(k) \/ GatewayFails(k) \/ Announce(k) \/ Report(k)
    BY <2>2, <1>stutter DEF NotifyRunning, GatewayFails, Announce, Report
  <2>3. CASE GatewaySucceeds(k)
    <3>1. PICK d \in Answers :
            Saved([mem EXCEPT ![k] = [Touched(mem[k]) EXCEPT !.status = "success", !.data = d]])
      <4>. DEFINE done(d) == [mem EXCEPT ![k] = [Touched(mem[k]) EXCEPT !.status = "success", !.data = d]]
      <4>1. PICK d \in Answers : Saved(done(d)) \/ SaveFails(done(d))
        BY <2>3 DEF GatewaySucceeds
      <4>. HIDE DEF done
      <4>2. Saved(done(d))
        BY <4>1, <1>save
      <4>. QED BY <4>2 DEF done
    <3>2. mem[k].status = "running" /\ mem[k].age = "fresh"
      BY <2>3, <2>k DEF GatewaySucceeds, Matches, StatusOf
    <3>3. mem'[k] = [Touched(mem[k]) EXCEPT !.status = "success", !.data = d]
          /\ \A j \in Tasks \ {k} : mem'[j] = mem[j]
      BY <3>1, <2>one
    <3>4. mem'[k].status = "success" /\ mem'[k].age = "fresh"
      BY <3>3, <2>k DEF Touched, TaskType
    <3>. QED BY <2>up, <3>2, <3>3, <3>4, SuccessMaps, TaskStep
  <2>4. CASE Fail(k)
    <3>1. Saved([mem EXCEPT ![k] = [Absent EXCEPT !.status = "error"]])
      <4>. DEFINE failed == [mem EXCEPT ![k] = [Absent EXCEPT !.status = "error"]]
      <4>1. Saved(failed) \/ SaveFails(failed)
        BY <2>4 DEF Fail
      <4>. HIDE DEF failed
      <4>2. Saved(failed)
        BY <4>1, <1>save
      <4>. QED BY <4>2 DEF failed
    <3>2. mem[k].status = "running" /\ mem[k].age = "fresh" /\ mem[k].data = NoData
      BY <2>4, <2>k, <2>up, <1>regular DEF Fail, Matches, CalmInv, Regular
    <3>3. mem'[k] = [Absent EXCEPT !.status = "error"] /\ \A j \in Tasks \ {k} : mem'[j] = mem[j]
      BY <3>1, <2>one
    <3>4. mem'[k].status = "error" /\ mem'[k].age = "fresh" /\ mem'[k].data = mem[k].data
      BY <3>2, <3>3 DEF Absent
    <3>5. Stored(View'[k]) = Stored(View[k])
      BY <2>up, <3>4 DEF Stored
    <3>6. Lifecycle!Progress(k)
      BY <2>up, <3>2, <3>3, <3>4, <3>5, PhaseMaps
    <3>. QED BY <3>6, TaskStep
  <2>. QED BY <1>3, <2>1, <2>2, <2>3, <2>4 DEF WorkerStep
<1>4. ASSUME NEW k \in Tasks, Age(k) PROVE [Lifecycle!LifecycleNext]_(Lifecycle!lifecycle)
  <2>1. PICK b \in BOOLEAN : /\ up' = up
                             /\ b = (WorkerLives(k) \/ RetryLives(k))
                             /\ mem' = [mem EXCEPT ![k] = Older(@, b)]
                             /\ disk' = [disk EXCEPT ![k] = Older(@, b)]
    BY <1>4, (WorkerLives(k) \/ RetryLives(k)) \in BOOLEAN DEF Age
  <2>2. ASSUME NEW t \in TaskType
        PROVE  /\ Older(t, b).status = t.status /\ Older(t, b).data = t.data
               /\ t.status = "absent" => Older(t, b) = t
               /\ t.age = "fresh" /\ b => Older(t, b) = t
               /\ t.status # "absent" /\ t.age = "expired" => Older(t, b).age = "expired"
    BY DEF Older, TaskType
  <2>3. PICK m \in TaskMap : m = IF up THEN mem ELSE disk
    BY <1>maps
  <2>4. PICK n \in TaskMap : n = IF up THEN mem' ELSE disk'
    BY <1>inv DEF TypeOK
  <2>5. /\ n[k] = Older(m[k], b) /\ \A j \in Tasks \ {k} : n[j] = m[j]
        /\ m[k] \in TaskType
    BY <2>1, <2>3, <2>4, <1>maps
  <2>6. /\ View = IF up THEN m ELSE Recovered(m)
        /\ View' = IF up THEN n ELSE Recovered(n)
    BY <2>1, <2>3, <2>4, <1>view
  <2>7. n[k].status = m[k].status /\ n[k].data = m[k].data
    BY <2>2, <2>5
  <2>8. \A j \in Tasks \ {k} : View'[j] = View[j]
    BY <2>5, <2>6 DEF Recovered
  <2>9. CASE Unfinished(m[k])
    <3>1. CASE up
      <4>1. b /\ m[k].age = "fresh"
        <5>1. m = mem /\ worker[k] \in WorkerStates /\ Matches(mem[k], worker[k]) /\ worker[k] # "dead"
          BY <2>3, <3>1, <1>inv DEF WorkerInv, TypeOK, CalmInv
        <5>. QED BY <2>1, <2>9, <5>1 DEF Matches, WorkerLives
      <4>2. n[k] = m[k]
        BY <2>2, <2>5, <4>1
      <4>. QED BY <2>6, <2>8, <3>1, <4>2, StutterMaps
    <3>2. CASE ~up
      <4>1. /\ View[k] = [Touched(m[k]) EXCEPT !.status = "error"]
            /\ View'[k] = [Touched(n[k]) EXCEPT !.status = "error"]
        BY <2>6, <2>7, <2>9, <3>2 DEF Recovered, Unfinished
      <4>2. n[k] \in TaskType
        OBVIOUS
      <4>3. /\ View'[k].status = View[k].status /\ View'[k].data = View[k].data
            /\ View'[k].age = View[k].age
        BY <2>5, <2>7, <4>1, <4>2 DEF Touched, TaskType
      <4>. QED BY <2>8, <4>3, StutterMaps
    <3>. QED BY <3>1, <3>2
  <2>10. CASE ~Unfinished(m[k])
    <3>1. View[k] = m[k] /\ View'[k] = n[k]
      BY <2>6, <2>7, <2>10 DEF Recovered, Unfinished
    <3>2. CASE m[k].status = "absent"
      BY <2>2, <2>5, <2>8, <3>1, <3>2, StutterMaps
    <3>3. CASE m[k].status # "absent" /\ n[k].age = "expired"
      <4>1. m[k].status \in {"success", "error"}
        BY <2>5, <2>10, <3>3 DEF TaskType, Statuses, Unfinished
      <4>2. Lifecycle!Expire(k)
        BY <2>7, <2>8, <3>1, <3>3, <4>1, ExpireMaps
      <4>. QED BY <4>2, TaskStep
    <3>4. CASE m[k].status # "absent" /\ n[k].age # "expired"
      BY <2>2, <2>5, <2>7, <2>8, <3>1, <3>4, StutterMaps
    <3>. QED BY <3>2, <3>3, <3>4
  <2>. QED BY <2>9, <2>10
<1>5. ASSUME NEW k \in Tasks, NEW o \in Origins, RetryStep(k, o)
      PROVE  [Lifecycle!LifecycleNext]_(Lifecycle!lifecycle)
  <2>1. up /\ up' /\ View = mem /\ View' = mem' /\ mem = disk
    <3>1. up /\ up' = up
      BY <1>5, <1>quiet DEF RetryStep, Scan, FetchFails, FetchSucceeds, LinkStored, EndPass
    <3>. QED BY <3>1, <1>calm, <1>view
  <2>2. CASE UNCHANGED <<mem, disk>>
    BY <2>1, <2>2, <1>stutter
  <2>3. ASSUME NEW i \in Images, mem[k].data[i] # "none", Saved(WithImage(k, i))
        PROVE  Lifecycle!LifecycleNext
    <3>1. mem[k].status = "success" /\ mem[k] \in TaskType
      BY <2>1, <2>3, <1>regular, <1>maps DEF Regular, NoData
    <3>2. mem'[k] = [Touched(mem[k]) EXCEPT !.data[i] = "final"]
          /\ \A j \in Tasks \ {k} : mem'[j] = mem[j]
      BY <2>3, <1>maps DEF Saved, WithImage
    <3>3. /\ mem'[k].status = "success" /\ mem'[k].age = "fresh"
          /\ mem'[k].data = [mem[k].data EXCEPT ![i] = "final"]
      BY <3>1, <3>2 DEF Touched, TaskType
    <3>4. Stored(mem'[k]) = Stored(mem[k]) \union {i}
      BY <3>1, <3>3 DEF Stored, TaskType
    <3>5. /\ \A j \in Tasks \ {k} : View'[j] = View[j]
          /\ View[k].status = "success" /\ View'[k].status = "success" /\ View'[k].age = "fresh"
      BY <2>1, <3>1, <3>2, <3>3
    <3>6. Stored(View'[k]) = Stored(View[k]) \union {i}
      BY <2>1, <3>4
    <3>7. Lifecycle!Store(k, i)
      BY <3>5, <3>6, StoreMaps
    <3>. QED BY <3>7, TaskStep
  <2>4. CASE FetchSucceeds(k, o)
    <3>1. PICK i \in Current(k, o) : StoreFetched(k, o, i)
      BY <2>4 DEF FetchSucceeds
    <3>2. i \in Images
      BY PastType, <1>inv
    <3>. QED BY <3>1, <3>2, <2>2, <2>3, <1>save DEF StoreFetched
  <2>5. CASE ~FetchSucceeds(k, o)
    BY <1>5, <2>5, <2>2 DEF RetryStep, Scan, FetchFails, LinkStored, EndPass
  <2>. QED BY <2>4, <2>5
<1>6. CASE ListTasks
  <2>1. up /\ up' /\ Saved(Cleaned(mem))
    BY <1>6, <1>save DEF ListTasks
  <2>. QED BY <2>1, <1>forget
<1>7. CASE Crash
  <2>1. View = mem /\ View' = Recovered(mem)
    BY <1>7, <1>view, <1>calm DEF Crash, Recovered
  <2>2. ASSUME NEW k \in Tasks
        PROVE  /\ View'[k].status = IF View[k].status \in Lifecycle!Open THEN "error" ELSE View[k].status
               /\ View'[k].data = View[k].data
               /\ View'[k].age = View[k].age
    <3>0. mem[k] \in TaskType /\ worker[k] \in WorkerStates /\ Matches(mem[k], worker[k]) /\ worker[k] # "dead"
      BY <1>inv, <1>maps DEF WorkerInv, TypeOK, CalmInv
    <3>1. CASE Unfinished(mem[k])
      <4>1. mem[k].age = "fresh"
        BY <3>0, <3>1 DEF Matches
      <4>2. View'[k] = [Touched(mem[k]) EXCEPT !.status = "error"]
        BY <2>1, <3>1 DEF Recovered
      <4>. QED BY <2>1, <3>0, <3>1, <4>1, <4>2 DEF Touched, TaskType, Unfinished, Lifecycle!Open
    <3>2. CASE ~Unfinished(mem[k])
      BY <2>1, <3>2 DEF Recovered, Unfinished, Lifecycle!Open
    <3>. QED BY <3>1, <3>2
  <2>3. Lifecycle!Interrupt
    <3>1. /\ Phase' = [k \in Tasks |-> IF Phase[k] \in Lifecycle!Open THEN "error" ELSE Phase[k]]
          /\ StoredOf' = StoredOf /\ Old' = Old
      BY <2>2 DEF Phase, StoredOf, Stored, Old
    <3>. QED BY <3>1 DEF Lifecycle!Interrupt, Phase, StoredOf, Stored, Old
  <2>. QED BY <2>3 DEF Lifecycle!LifecycleNext
<1>8. CASE Boot
  <2>1. ~up /\ up' /\ mem' = Cleaned(Recovered(disk))
    BY <1>8, <1>calm DEF Boot
  <2>2. View = Recovered(disk) /\ View' = Cleaned(View)
    BY <2>1, <1>view
  <2>3. PICK E \in SUBSET Tasks : E = Expired(View)
    BY DEF Expired
  <2>4. Lifecycle!Forget(E)
    BY <2>2, <2>3, <1>maps, RecoveredType, ForgetMaps
  <2>. QED BY <2>4, ForgetIsStep
<1>. QED
  BY <1>0, <1>1, <1>2, <1>3, <1>4, <1>5, <1>6, <1>7, <1>8 DEF Next

\* As long as no write fails the service keeps every promise of the life cycle:
\* no step of a client, a worker, a retry thread, a crash or a restart makes
\* the tasks a client sees change in a way ImageTaskLifecycle does not allow.
THEOREM LifecycleImplemented ==
  ASSUME MaxFaults = 0
  PROVE  Spec => ImplementsLifecycle
<1>1. Init => CalmInv
  <2>. SUFFICES ASSUME Init PROVE CalmInv
    OBVIOUS
  <2>1. WorkerInv
    BY InitInv
  <2>. QED BY <2>1 DEF Init, CalmInv, SeenIsSaved, Regular, Absent
<1>2. Init => Lifecycle!LifecycleInit
  BY DEF Init, Lifecycle!LifecycleInit, View, Absent, NoData
<1>3. CalmInv /\ [Next]_vars => CalmInv' /\ [Lifecycle!LifecycleNext]_(Lifecycle!lifecycle)
  BY CalmStep, LifecycleStep
<1>. QED BY <1>1, <1>2, <1>3, PTL DEF Spec, ImplementsLifecycle, Lifecycle!LifecycleSpec

=============================================================================
