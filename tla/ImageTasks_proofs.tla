-------------------------- MODULE ImageTasks_proofs ---------------------------
(* Theorems about ImageTasks, for every set of tasks and every bound. *)
EXTENDS ImageTasks, TLAPS

USE ConstantsOK DEF ConstantsOK

-----------------------------------------------------------------------------
(* Types of the operators *)

TaskMap == [Tasks -> TaskType]

DataType == [Images -> {"none", "pending", "final"}]

\* The record that stands for a task that is not there is a task record.
LEMMA AbsentType == Absent \in TaskType /\ NoData \in DataType
BY DEF Absent, NoData, TaskType, Statuses, DataType

\* Renewing a task, and changing its status or its data, yields a task.
LEMMA TouchedType ==
  ASSUME NEW t \in TaskType, NEW s \in Statuses, NEW d \in DataType
  PROVE  /\ Touched(t) \in TaskType
         /\ [Touched(t) EXCEPT !.status = s] \in TaskType
         /\ [Touched(t) EXCEPT !.status = s, !.data = d] \in TaskType
         /\ [Absent EXCEPT !.status = s] \in TaskType
BY AbsentType DEF Touched, TaskType, DataType, Absent, Statuses

\* The cleanup of a task map yields a task map.
LEMMA CleanedType ==
  ASSUME NEW m \in TaskMap
  PROVE  Cleaned(m) \in TaskMap
BY AbsentType DEF Cleaned, TaskMap

\* The recovery of a task map after a restart yields a task map.
LEMMA RecoveredType ==
  ASSUME NEW m \in TaskMap
  PROVE  Recovered(m) \in TaskMap
<1>1. ASSUME NEW k \in Tasks
      PROVE  [Touched(m[k]) EXCEPT !.status = "error"] \in TaskType
  BY TouchedType, AbsentType, m[k] \in TaskType DEF TaskMap, Statuses
<1>. QED BY <1>1 DEF Recovered, TaskMap

\* Threads are started, and ended, as threads.
LEMMA ThreadsType ==
  /\ NoThread \in ThreadType
  /\ Spent \in ThreadType
  /\ \A I \in SUBSET Images : StartRetry(I) \in ThreadType
<1>1. 0 \in 0 .. (MaxAttempts - 1)
  OBVIOUS
<1>2. {} \in SUBSET Images
  OBVIOUS
<1>3. NoThread \in ThreadType
  BY <1>1, <1>2 DEF NoThread, ThreadType
<1>4. Spent \in ThreadType
  BY <1>3 DEF Spent, ThreadType
<1>5. ASSUME NEW I \in SUBSET Images PROVE StartRetry(I) \in ThreadType
  BY <1>3 DEF StartRetry, ThreadType
<1>. QED BY <1>3, <1>4, <1>5

\* A save, failed or not, leaves both task maps and the count of faults typed.
LEMMA SaveType ==
  ASSUME TypeOK, NEW m \in TaskMap, Saved(m) \/ SaveFails(m)
  PROVE  mem' \in TaskMap /\ disk' \in TaskMap /\ faults' \in 0 .. MaxFaults
BY DEF TypeOK, TaskMap, Saved, SaveFails, Fault

\* So does word to the gallery.
LEMMA TellType ==
  ASSUME TypeOK, NEW k \in Tasks, NEW s \in {"loading", "success", "error"}, Tell(k, s)
  PROVE  /\ gallery' \in [Tasks -> {"none", "loading", "success", "error"}]
         /\ faults' \in 0 .. MaxFaults
BY DEF TypeOK, Tell, Fault

\* A worker that moves on stays typed.
LEMMA GoToType ==
  ASSUME TypeOK, NEW k \in Tasks, NEW pc \in WorkerStates, GoTo(k, pc)
  PROVE  worker' \in [Tasks -> WorkerStates]
BY DEF TypeOK, GoTo

\* A retry thread that is replaced by a thread stays typed.
LEMMA BecomeType ==
  ASSUME TypeOK, NEW k \in Tasks, NEW o \in Origins, NEW t \in ThreadType, Become(k, o, t)
  PROVE  retry' \in [Tasks -> [Origins -> ThreadType]]
BY DEF TypeOK, Become

\* A retry thread works on images of the task, and moves from one to the next
\* as a typed thread.
LEMMA PastType ==
  ASSUME TypeOK, NEW k \in Tasks, NEW o \in Origins, NEW i \in Current(k, o),
         NEW F \in SUBSET Images
  PROVE  /\ i \in Images
         /\ Past(k, o, i, F) \in ThreadType
         /\ retry[k][o].failed \in SUBSET Images
         /\ \A pc \in {"fetch", "link"} : [retry[k][o] EXCEPT !.pc = pc] \in ThreadType
<1>1. retry[k][o] \in ThreadType
  BY DEF TypeOK
<1>. QED BY <1>1 DEF Past, ThreadType, Current

\* Storing a downloaded image in its task yields a task map.
LEMMA WithImageType ==
  ASSUME TypeOK, NEW k \in Tasks, NEW i \in Images
  PROVE  WithImage(k, i) \in TaskMap
<1>1. mem[k] \in TaskType
  BY DEF TypeOK
<1>2. [Touched(mem[k]) EXCEPT !.data[i] = "final"] \in TaskType
  BY <1>1 DEF Touched, TaskType
<1>. QED BY <1>2 DEF WithImage, TypeOK, TaskMap

-----------------------------------------------------------------------------
(* Type correctness *)

\* Every step of the service, of a worker, of a retry thread and of the process
\* keeps the types.
LEMMA TypeStep == TypeOK /\ [Next]_vars => TypeOK'
<1>. SUFFICES ASSUME TypeOK, [Next]_vars PROVE TypeOK'
  OBVIOUS
<1>. USE AbsentType DEF TaskMap, DataType
<1>maps. mem \in TaskMap /\ disk \in TaskMap
  BY DEF TypeOK
<1>0. CASE UNCHANGED vars
  BY <1>0 DEF TypeOK, vars
<1>1. ASSUME NEW k \in Tasks, Submit(k) PROVE TypeOK'
  <2>1. Cleaned(mem) \in TaskMap
    BY <1>maps, CleanedType
  <2>2. [Absent EXCEPT !.status = "queued"] \in TaskType
    BY TouchedType DEF Statuses
  <2>3. [Cleaned(mem) EXCEPT ![k] = [Absent EXCEPT !.status = "queued"]] \in TaskMap
    BY <2>1, <2>2
  <2>4. mem' \in TaskMap /\ disk' \in TaskMap /\ faults' \in 0 .. MaxFaults
    BY <1>1, <2>1, <2>3, SaveType DEF Submit, Rejected
  <2>5. worker' \in [Tasks -> WorkerStates]
    BY <1>1, GoToType DEF Submit, WorkerStates, TypeOK
  <2>. QED BY <1>1, <2>4, <2>5 DEF Submit, TypeOK
<1>2. ASSUME NEW k \in Tasks, SetImageFeedback(k) PROVE TypeOK'
  <2>1. Touched(mem[k]) \in TaskType
    BY <1>maps, TouchedType, mem[k] \in TaskType DEF Statuses
  <2>2. [mem EXCEPT ![k] = Touched(@)] \in TaskMap
    BY <1>maps, <2>1
  <2>3. mem' \in TaskMap /\ disk' \in TaskMap /\ faults' \in 0 .. MaxFaults
    BY <1>2, <2>2, SaveType DEF SetImageFeedback
  <2>. QED BY <1>2, <2>3 DEF SetImageFeedback, TypeOK
<1>3. ASSUME NEW k \in Tasks, WorkerStep(k) PROVE TypeOK'
  <2>. USE <1>3
  <2>task. mem[k] \in TaskType
    BY <1>maps
  <2>go. ASSUME NEW pc \in WorkerStates, GoTo(k, pc) PROVE worker' \in [Tasks -> WorkerStates]
    BY <2>go, GoToType
  <2>1. CASE StartRun(k)
    <3>1. [mem EXCEPT ![k] = [Touched(@) EXCEPT !.status = "running"]] \in TaskMap
      BY <1>maps, <2>task, TouchedType DEF Statuses
    <3>2. mem' \in TaskMap /\ disk' \in TaskMap /\ faults' \in 0 .. MaxFaults
      BY <2>1, <3>1, SaveType DEF StartRun
    <3>3. worker' \in [Tasks -> WorkerStates]
      BY <2>1, <2>go DEF StartRun, WorkerStates
    <3>. QED BY <2>1, <3>2, <3>3 DEF StartRun, TypeOK
  <2>2. CASE NotifyRunning(k)
    <3>1. worker' \in [Tasks -> WorkerStates]
      BY <2>2, <2>go DEF NotifyRunning, WorkerStates
    <3>. QED BY <2>2, <3>1, TellType DEF NotifyRunning, TypeOK
  <2>3. CASE GatewayFails(k)
    <3>1. worker' \in [Tasks -> WorkerStates]
      BY <2>3, <2>go DEF GatewayFails, WorkerStates
    <3>. QED BY <2>3, <3>1 DEF GatewayFails, TypeOK
  <2>4. CASE GatewaySucceeds(k)
    <3>1. PICK d \in Answers : GatewaySucceeds(k)!(d)
      BY <2>4 DEF GatewaySucceeds
    <3>2. d \in DataType
      BY DEF Answers
    <3>3. [mem EXCEPT ![k] = [Touched(@) EXCEPT !.status = "success", !.data = d]] \in TaskMap
      BY <1>maps, <2>task, <3>2, TouchedType DEF Statuses
    <3>4. mem' \in TaskMap /\ disk' \in TaskMap /\ faults' \in 0 .. MaxFaults
      BY <3>1, <3>3, SaveType
    <3>5. worker' \in [Tasks -> WorkerStates]
      BY <3>1, <2>go DEF WorkerStates
    <3>. QED BY <3>1, <3>2, <3>4, <3>5 DEF TypeOK
  <2>5. CASE Announce(k)
    <3>1. worker' \in [Tasks -> WorkerStates]
      BY <2>5, <2>go DEF Announce, WorkerStates
    <3>2. Pending(result[k]) \in SUBSET Images
      BY DEF Pending
    <3>3. Become(k, "spawned", StartRetry(Pending(result[k])))
      BY <2>5 DEF Announce, Become
    <3>4. retry' \in [Tasks -> [Origins -> ThreadType]]
      BY <3>2, <3>3, ThreadsType, BecomeType DEF Origins
    <3>5. Outcome(result[k]) \in {"loading", "success", "error"}
      BY DEF Outcome
    <3>6. /\ gallery' \in [Tasks -> {"none", "loading", "success", "error"}]
          /\ faults' \in 0 .. MaxFaults
      BY <2>5, <3>5, TellType DEF Announce
    <3>. QED BY <2>5, <3>1, <3>4, <3>6 DEF Announce, TypeOK
  <2>6. CASE Fail(k)
    <3>1. [mem EXCEPT ![k] = [Absent EXCEPT !.status = "error"]] \in TaskMap
      BY <1>maps, <2>task, TouchedType DEF Statuses
    <3>2. mem' \in TaskMap /\ disk' \in TaskMap /\ faults' \in 0 .. MaxFaults
      BY <2>6, <3>1, SaveType DEF Fail
    <3>3. worker' \in [Tasks -> WorkerStates]
      BY <2>6, <2>go DEF Fail, WorkerStates
    <3>. QED BY <2>6, <3>2, <3>3 DEF Fail, TypeOK
  <2>7. CASE Report(k)
    <3>1. worker' \in [Tasks -> WorkerStates]
      BY <2>7, <2>go DEF Report, WorkerStates
    <3>. QED BY <2>7, <3>1, TellType DEF Report, TypeOK
  <2>. QED BY <2>1, <2>2, <2>3, <2>4, <2>5, <2>6, <2>7 DEF WorkerStep
<1>4. ASSUME NEW k \in Tasks, Age(k) PROVE TypeOK'
  <2>1. ASSUME NEW t \in TaskType, NEW b \in BOOLEAN PROVE Older(t, b) \in TaskType
    BY <2>1 DEF Older, TaskType, Statuses
  <2>2. mem' \in TaskMap /\ disk' \in TaskMap
    BY <1>4, <1>maps, <2>1, (WorkerLives(k) \/ RetryLives(k)) \in BOOLEAN DEF Age
  <2>. QED BY <1>4, <2>2 DEF Age, TypeOK
<1>5. ASSUME NEW k \in Tasks, NEW o \in Origins, RetryStep(k, o) PROVE TypeOK'
  <2>. USE <1>5
  <2>be. ASSUME NEW t \in ThreadType, Become(k, o, t)
         PROVE  retry' \in [Tasks -> [Origins -> ThreadType]]
    BY <2>be, BecomeType
  <2>failed. retry[k][o] \in ThreadType /\ retry[k][o].failed \in SUBSET Images
    BY DEF TypeOK, ThreadType
  <2>1. CASE Scan(k, o)
    <3>1. retry' \in [Tasks -> [Origins -> ThreadType]]
      BY <2>1, <2>be, <2>failed, ThreadsType, PastType DEF Scan
    <3>. QED BY <2>1, <3>1 DEF Scan, TypeOK
  <2>2. CASE FetchFails(k, o)
    <3>1. PICK i \in Current(k, o) : Become(k, o, Past(k, o, i, retry[k][o].failed \union {i}))
      BY <2>2 DEF FetchFails
    <3>2. i \in Images /\ retry[k][o].failed \union {i} \in SUBSET Images
      BY <2>failed, PastType
    <3>3. retry' \in [Tasks -> [Origins -> ThreadType]]
      BY <2>be, <3>1, <3>2, PastType
    <3>. QED BY <2>2, <3>3 DEF FetchFails, TypeOK
  <2>3. CASE FetchSucceeds(k, o)
    <3>1. PICK i \in Current(k, o) : StoreFetched(k, o, i)
      BY <2>3 DEF FetchSucceeds
    <3>2. i \in Images /\ WithImage(k, i) \in TaskMap
      BY PastType, WithImageType
    <3>3. mem' \in TaskMap /\ disk' \in TaskMap /\ faults' \in 0 .. MaxFaults
      BY <3>1, <3>2, <1>maps, SaveType DEF StoreFetched, TypeOK
    <3>4. retry' \in [Tasks -> [Origins -> ThreadType]]
      BY <3>1, <2>be, <2>failed, ThreadsType, PastType DEF StoreFetched
    <3>. QED BY <2>3, <3>3, <3>4 DEF FetchSucceeds, TypeOK
  <2>4. CASE LinkStored(k, o)
    <3>1. retry' \in [Tasks -> [Origins -> ThreadType]]
      BY <2>4, <2>be, <2>failed, PastType DEF LinkStored
    <3>. QED BY <2>4, <3>1, TellType DEF LinkStored, TypeOK
  <2>5. CASE EndPass(k, o)
    <3>1. ASSUME ~AttemptsOver(retry[k][o].attempt)
          PROVE  [NoThread EXCEPT !.pc = "scan", !.attempt = retry[k][o].attempt + 1,
                                  !.todo = retry[k][o].failed] \in ThreadType
      <4>1. retry[k][o].attempt \in 0 .. (MaxAttempts - 1)
        BY <2>failed DEF ThreadType
      <4>2. retry[k][o].attempt + 1 \in 0 .. (MaxAttempts - 1)
        BY <3>1, <4>1 DEF AttemptsOver
      <4>. QED BY <2>failed, <4>2, ThreadsType DEF ThreadType
    <3>2. retry' \in [Tasks -> [Origins -> ThreadType]]
      <4>1. CASE retry[k][o].failed = {}
        BY <2>5, <4>1, <2>be, ThreadsType DEF EndPass
      <4>2. CASE retry[k][o].failed # {} /\ AttemptsOver(retry[k][o].attempt)
        BY <2>5, <4>2, <2>be, ThreadsType DEF EndPass
      <4>3. CASE retry[k][o].failed # {} /\ ~AttemptsOver(retry[k][o].attempt)
        BY <2>5, <4>3, <2>be, <3>1 DEF EndPass
      <4>. QED BY <4>1, <4>2, <4>3
    <3>. QED BY <2>5, <3>2 DEF EndPass, TypeOK
  <2>. QED BY <2>1, <2>2, <2>3, <2>4, <2>5 DEF RetryStep
<1>6. CASE ListTasks
  <2>1. mem' \in TaskMap /\ disk' \in TaskMap /\ faults' \in 0 .. MaxFaults
    BY <1>6, <1>maps, CleanedType, SaveType DEF ListTasks
  <2>. QED BY <1>6, <2>1 DEF ListTasks, TypeOK
<1>7. CASE Crash
  <2>1. retry' \in [Tasks -> [Origins -> ThreadType]]
    BY <1>7, ThreadsType DEF Crash
  <2>2. mem' \in TaskMap /\ result' \in [Tasks -> DataType] /\ worker' \in [Tasks -> WorkerStates]
    BY <1>7 DEF Crash, WorkerStates
  <2>3. restarts' \in 0 .. MaxRestarts
    BY <1>7 DEF Crash, TypeOK
  <2>. QED BY <1>7, <2>1, <2>2, <2>3 DEF Crash, TypeOK
<1>8. CASE Boot
  <2>1. Cleaned(Recovered(disk)) \in TaskMap
    BY <1>maps, CleanedType, RecoveredType
  <2>2. mem' \in TaskMap /\ disk' \in TaskMap /\ up' \in BOOLEAN
    BY <1>8, <1>maps, <2>1 DEF Boot, TypeOK
  <2>3. gallery' \in [Tasks -> {"none", "loading", "success", "error"}]
    BY <1>8 DEF Boot, BootTells, TypeOK
  <2>4. faults' \in 0 .. MaxFaults
    BY <1>8 DEF Boot, TypeOK
  <2>5. retry' \in [Tasks -> [Origins -> ThreadType]]
    <3>1. ASSUME NEW d PROVE Pending(d) \in SUBSET Images
      BY DEF Pending
    <3>2. CASE UNCHANGED retry
      BY <3>2 DEF TypeOK
    <3>3. CASE retry' = Resumed(Cleaned(Recovered(disk)))
      BY <3>1, <3>3, ThreadsType DEF Resumed
    <3>. QED BY <1>8, <3>2, <3>3 DEF Boot
  <2>. QED BY <1>8, <2>2, <2>3, <2>4, <2>5 DEF Boot, TypeOK
<1>. QED
  BY <1>0, <1>1, <1>2, <1>3, <1>4, <1>5, <1>6, <1>7, <1>8 DEF Next

\* Init is typed.
LEMMA InitType == Init => TypeOK
<1>. SUFFICES ASSUME Init PROVE TypeOK
  OBVIOUS
<1>1. mem \in TaskMap /\ disk \in TaskMap /\ result \in [Tasks -> DataType]
  BY AbsentType DEF Init, TaskMap
<1>2. retry \in [Tasks -> [Origins -> ThreadType]]
  BY ThreadsType DEF Init
<1>3. worker \in [Tasks -> WorkerStates]
  BY DEF Init, WorkerStates
<1>. QED BY <1>1, <1>2, <1>3 DEF Init, TypeOK, TaskMap, DataType

\* Every variable has its type in every reachable state.
THEOREM TypeCorrect == Spec => []TypeOK
BY InitType, TypeStep, PTL DEF Spec

-----------------------------------------------------------------------------
(* The inductive invariant: WorkerMatchesTask is not inductive by itself. A   *)
(* cleanup must not take a task away under its worker, so a task whose worker *)
(* lives is fresh; and a process that is down has no worker and no task.      *)

Matches(t, w) ==
  /\ t.status \in StatusOf(w)
  /\ Unfinished(t) => w # "idle"
  /\ w \notin {"idle", "dead"} => t.age = "fresh"

DownIsQuiet ==
  ~up => \A k \in Tasks : /\ worker[k] = "idle"
                          /\ mem[k].status = "absent"
                          /\ \A o \in Origins : retry[k][o].pc = "idle"

WorkerInv ==
  /\ TypeOK
  /\ DownIsQuiet
  /\ \A k \in Tasks : Matches(mem[k], worker[k])

\* A cleanup only takes away tasks without a worker.
LEMMA CleanedMatches ==
  ASSUME NEW m \in TaskMap, NEW k \in Tasks, NEW w \in WorkerStates, Matches(m[k], w)
  PROVE  /\ Matches(Cleaned(m)[k], w)
         /\ Cleaned(m)[k].status = "absent" => w \in {"idle", "dead"}
<1>1. CASE k \in Expired(m)
  <2>1. Terminal(m[k]) /\ m[k].age = "expired" /\ Cleaned(m)[k] = Absent
    BY <1>1 DEF Expired, Cleaned
  <2>2. w \in {"idle", "dead"}
    BY <2>1 DEF Matches
  <2>. QED BY <2>1, <2>2 DEF Matches, StatusOf, Absent, Unfinished, Statuses
<1>2. CASE k \notin Expired(m)
  <2>1. Cleaned(m)[k] = m[k]
    BY <1>2 DEF Cleaned
  <2>. QED BY <2>1 DEF Matches, StatusOf, WorkerStates
<1>. QED BY <1>1, <1>2

\* Renewing a task does not part it from its worker.
LEMMA TouchedMatches ==
  ASSUME NEW t \in TaskType, NEW w, Matches(t, w)
  PROVE  Matches(Touched(t), w)
BY DEF Matches, Touched, TaskType, Unfinished

\* Every step keeps the worker invariant.
LEMMA WorkerStepInv == WorkerInv /\ [Next]_vars => WorkerInv'
<1>. SUFFICES ASSUME WorkerInv, [Next]_vars PROVE WorkerInv'
  OBVIOUS
<1>. USE DEF TaskMap
<1>type. TypeOK /\ TypeOK'
  BY TypeStep DEF WorkerInv
<1>maps. /\ mem \in TaskMap /\ disk \in TaskMap
         /\ \A k \in Tasks : worker[k] \in WorkerStates
  BY <1>type DEF TypeOK
<1>inv. \A k \in Tasks : Matches(mem[k], worker[k])
  BY DEF WorkerInv
<1>suff. ASSUME up, up', \A k \in Tasks : Matches(mem'[k], worker'[k]) PROVE WorkerInv'
  BY <1>type, <1>suff DEF WorkerInv, DownIsQuiet
<1>0. CASE UNCHANGED vars
  BY <1>0, <1>type DEF WorkerInv, DownIsQuiet, vars
<1>1. ASSUME NEW k \in Tasks, Submit(k) PROVE WorkerInv'
  <2>1. \A j \in Tasks : Matches(Cleaned(mem)[j], worker[j])
    BY <1>maps, <1>inv, CleanedMatches
  <2>2. CASE Known(Cleaned(mem)[k])
    <3>1. mem' = Cleaned(mem) /\ worker' = worker
      BY <1>1, <2>2 DEF Submit, Saved, SaveFails
    <3>. QED BY <1>1, <1>suff, <2>1, <3>1 DEF Submit
  <2>3. CASE ~Known(Cleaned(mem)[k]) /\ Saved([Cleaned(mem) EXCEPT ![k] = [Absent EXCEPT !.status = "queued"]]) /\ GoTo(k, "start")
    <3>1. Matches(mem'[k], worker'[k])
      BY <1>maps, <2>3, <1>type, CleanedType
         DEF Saved, GoTo, TypeOK, Matches, StatusOf, Absent, Unfinished
    <3>2. ASSUME NEW j \in Tasks \ {k} PROVE mem'[j] = Cleaned(mem)[j] /\ worker'[j] = worker[j]
      BY <1>maps, <2>3, <1>type, CleanedType DEF Saved, GoTo, TypeOK
    <3>. QED BY <1>1, <1>suff, <2>1, <3>1, <3>2 DEF Submit
  <2>4. CASE SaveFails(Rejected(Cleaned(mem), [Cleaned(mem) EXCEPT ![k] = [Absent EXCEPT !.status = "queued"]])) /\ UNCHANGED worker
    BY <1>1, <1>suff, <2>1, <2>4 DEF Submit, SaveFails, Rejected
  <2>. QED BY <1>1, <2>2, <2>3, <2>4 DEF Submit
<1>2. ASSUME NEW k \in Tasks, SetImageFeedback(k) PROVE WorkerInv'
  <2>1. mem' = [mem EXCEPT ![k] = Touched(@)] /\ worker' = worker
    BY <1>2 DEF SetImageFeedback, Saved, SaveFails
  <2>2. Matches(mem'[k], worker'[k])
    BY <1>maps, <1>inv, <2>1, TouchedMatches
  <2>. QED BY <1>2, <1>maps, <1>inv, <1>suff, <2>1, <2>2 DEF SetImageFeedback
<1>3. ASSUME NEW k \in Tasks, WorkerStep(k) PROVE WorkerInv'
  <2>1. worker[k] # "idle"
    BY <1>3 DEF WorkerStep, StartRun, NotifyRunning, GatewayFails, GatewaySucceeds,
                Announce, Fail, Report
  <2>2. up /\ up' = up
    BY <1>3, <2>1 DEF WorkerInv, DownIsQuiet, WorkerStep, StartRun, NotifyRunning,
                      GatewayFails, GatewaySucceeds, Announce, Fail, Report
  <2>3. ASSUME NEW j \in Tasks \ {k} PROVE mem'[j] = mem[j] /\ worker'[j] = worker[j]
    BY <1>3, <1>type DEF WorkerStep, StartRun, NotifyRunning, GatewayFails, GatewaySucceeds,
         Announce, Fail, Report, Saved, SaveFails, GoTo, TypeOK
  <2>suff. ASSUME Matches(mem'[k], worker'[k]) PROVE WorkerInv'
    BY <1>inv, <1>suff, <2>2, <2>3, <2>suff
  <2>k. mem[k] \in TaskType /\ Matches(mem[k], worker[k])
    BY <1>maps, <1>inv
  <2>. USE <1>type DEF TypeOK, GoTo, Saved, SaveFails, Touched, Unfinished, Matches, StatusOf
  <2>4. CASE StartRun(k)
    <3>1. mem'[k] = [Touched(mem[k]) EXCEPT !.status = "running"] /\ worker'[k] \in {"notify", "dead"}
      BY <2>4 DEF StartRun
    <3>2. mem'[k].status = "running" /\ mem'[k].age = "fresh"
      BY <3>1, <2>k DEF TaskType
    <3>. QED BY <2>suff, <3>1, <3>2 DEF Statuses
  <2>5. CASE NotifyRunning(k)
    BY <2>5, <2>suff, <2>k DEF NotifyRunning
  <2>6. CASE GatewayFails(k)
    BY <2>6, <2>suff, <2>k DEF GatewayFails
  <2>7. CASE GatewaySucceeds(k)
    <3>1. PICK d \in Answers : /\ mem'[k] = [Touched(mem[k]) EXCEPT !.status = "success", !.data = d]
                               /\ worker'[k] \in {"announce", "fail"}
      BY <2>7 DEF GatewaySucceeds
    <3>2. mem'[k].status = "success" /\ mem'[k].age = "fresh"
      BY <3>1, <2>k DEF TaskType
    <3>. QED BY <2>suff, <3>1, <3>2
  <2>8. CASE Announce(k)
    BY <2>8, <2>suff, <2>k DEF Announce, Statuses
  <2>9. CASE Fail(k)
    <3>1. mem'[k] = [Absent EXCEPT !.status = "error"] /\ worker'[k] \in {"report", "dead"}
      BY <2>9 DEF Fail
    <3>. QED BY <2>suff, <3>1 DEF Absent, Statuses
  <2>10. CASE Report(k)
    BY <2>10, <2>suff, <2>k DEF Report, Statuses
  <2>. QED BY <1>3, <2>4, <2>5, <2>6, <2>7, <2>8, <2>9, <2>10 DEF WorkerStep
<1>4. ASSUME NEW k \in Tasks, Age(k) PROVE WorkerInv'
  <2>1. mem' = [mem EXCEPT ![k] = Older(@, WorkerLives(k) \/ RetryLives(k))]
        /\ worker' = worker /\ retry' = retry /\ up' = up
    BY <1>4 DEF Age
  <2>2. mem'[k] \in TaskType /\ mem'[k].status = mem[k].status
        /\ (WorkerLives(k) => mem'[k].age = mem[k].age \/ mem[k].age # "fresh")
    BY <2>1, <1>maps, <1>type, mem[k] \in TaskType DEF TypeOK, Older, TaskType
  <2>3. Matches(mem'[k], worker'[k])
    BY <1>inv, <2>1, <2>2 DEF Matches, Unfinished, WorkerLives
  <2>4. \A j \in Tasks : Matches(mem'[j], worker'[j]) /\ mem'[j].status = mem[j].status
    BY <1>maps, <1>inv, <2>1, <2>2, <2>3
  <2>. QED BY <1>type, <2>1, <2>4 DEF WorkerInv, DownIsQuiet
<1>5. ASSUME NEW k \in Tasks, NEW o \in Origins, RetryStep(k, o) PROVE WorkerInv'
  <2>1. up
    BY <1>5 DEF WorkerInv, DownIsQuiet, RetryStep, Scan, FetchFails, FetchSucceeds, LinkStored, EndPass
  <2>2. up' = up /\ worker' = worker
    BY <1>5 DEF RetryStep, Scan, FetchFails, FetchSucceeds, LinkStored, EndPass
  <2>3. CASE mem' = mem
    BY <1>inv, <1>suff, <2>1, <2>2, <2>3
  <2>4. ASSUME NEW i \in Images, mem' = WithImage(k, i) PROVE WorkerInv'
    <3>1. mem'[k] = [Touched(mem[k]) EXCEPT !.data[i] = "final"]
      BY <2>4, <1>maps DEF WithImage
    <3>2. mem'[k].status = mem[k].status /\ mem'[k].age = "fresh"
      BY <3>1, <1>maps, mem[k] \in TaskType DEF Touched, TaskType
    <3>3. Matches(mem'[k], worker'[k])
      BY <1>inv, <2>2, <3>2 DEF Matches, Unfinished
    <3>4. \A j \in Tasks \ {k} : mem'[j] = mem[j]
      BY <2>4, <1>maps DEF WithImage
    <3>. QED BY <1>inv, <1>suff, <2>1, <2>2, <3>3, <3>4
  <2>5. CASE FetchSucceeds(k, o)
    <3>1. PICK i \in Current(k, o) : StoreFetched(k, o, i)
      BY <2>5 DEF FetchSucceeds
    <3>2. i \in Images
      BY PastType, <1>type
    <3>3. mem' = mem \/ mem' = WithImage(k, i)
      BY <3>1 DEF StoreFetched, Saved, SaveFails
    <3>. QED BY <2>3, <2>4, <3>2, <3>3
  <2>6. CASE ~FetchSucceeds(k, o)
    <3>1. mem' = mem
      BY <1>5, <2>6 DEF RetryStep, Scan, FetchFails, LinkStored, EndPass
    <3>. QED BY <2>3, <3>1
  <2>. QED BY <2>5, <2>6
<1>6. CASE ListTasks
  <2>1. mem' = Cleaned(mem) /\ worker' = worker /\ up /\ up'
    BY <1>6 DEF ListTasks, Saved, SaveFails
  <2>. QED BY <1>maps, <1>inv, <1>suff, <2>1, CleanedMatches
<1>7. CASE Crash
  <2>1. \A k \in Tasks : worker'[k] = "idle" /\ mem'[k] = Absent
                         /\ \A o \in Origins : retry'[k][o] = NoThread
    BY <1>7 DEF Crash
  <2>2. \A k \in Tasks : Matches(mem'[k], worker'[k])
    BY <2>1 DEF Matches, StatusOf, Absent, Unfinished, Statuses
  <2>. QED BY <1>type, <2>1, <2>2 DEF WorkerInv, DownIsQuiet, NoThread, Absent
<1>8. CASE Boot
  <2>1. ~up /\ worker' = worker /\ \A k \in Tasks : worker[k] = "idle"
    BY <1>8 DEF Boot, WorkerInv, DownIsQuiet
  <2>2. CASE UNCHANGED <<up, mem, disk, retry>>
    BY <1>type, <2>1, <2>2 DEF WorkerInv, DownIsQuiet
  <2>3. CASE up' /\ mem' = Cleaned(Recovered(disk))
    <3>1. \A k \in Tasks : Recovered(disk)[k] \in TaskType /\ ~Unfinished(Recovered(disk)[k])
      BY <1>maps, \A k \in Tasks : disk[k] \in TaskType
         DEF Recovered, Touched, Unfinished, TaskType, Statuses
    <3>2. \A k \in Tasks : Matches(Recovered(disk)[k], "idle")
      BY <3>1 DEF Matches, StatusOf, TaskType
    <3>3. \A k \in Tasks : Matches(mem'[k], "idle")
      BY <1>maps, <2>3, <3>2, CleanedMatches, RecoveredType DEF WorkerStates
    <3>. QED BY <1>type, <2>1, <2>3, <3>3 DEF WorkerInv, DownIsQuiet
  <2>. QED BY <1>8, <2>2, <2>3 DEF Boot
<1>. QED
  BY <1>0, <1>1, <1>2, <1>3, <1>4, <1>5, <1>6, <1>7, <1>8 DEF Next

\* The worker invariant holds when the service starts for the first time.
LEMMA InitInv == Init => WorkerInv
<1>. SUFFICES ASSUME Init PROVE WorkerInv
  OBVIOUS
<1>1. TypeOK
  BY InitType
<1>2. \A k \in Tasks : Matches(mem[k], worker[k])
  BY DEF Init, Matches, StatusOf, Absent, Unfinished, Statuses
<1>. QED BY <1>1, <1>2 DEF Init, WorkerInv, DownIsQuiet

\* The worker invariant holds in every reachable state.
LEMMA WorkerInvariant == Spec => []WorkerInv
BY InitInv, WorkerStepInv, PTL DEF Spec

\* A task's status and its worker's place in _run_task never disagree, and a
\* queued or running task has a worker, alive or killed by a failed save:
\* whatever is written or not and however often the process ends.
THEOREM WorkerMatchesTaskAlways == Spec => []WorkerMatchesTask
<1>1. WorkerInv => WorkerMatchesTask
  BY DEF WorkerInv, WorkerMatchesTask, Matches
<1>. QED BY <1>1, WorkerInvariant, PTL

\* Submitting a key again never starts a second worker beside a living one, so
\* one accepted task makes at most one call of the gateway at a time.
THEOREM NoSecondWorkerEver == Spec => NoSecondWorker
<1>1. WorkerInv /\ [Next]_vars =>
        [\A k \in Tasks : worker[k] # "start" /\ worker'[k] = "start" => ~WorkerLives(k)]_vars
  <2>. SUFFICES ASSUME WorkerInv, Next, NEW k \in Tasks, worker[k] # "start", worker'[k] = "start"
                PROVE  ~WorkerLives(k)
    OBVIOUS
  <2>type. TypeOK /\ mem \in TaskMap /\ Matches(mem[k], worker[k]) /\ worker[k] \in WorkerStates
    BY DEF WorkerInv, TypeOK, TaskMap
  <2>1. CASE Submit(k)
    <3>1. ~Known(Cleaned(mem)[k])
      BY <2>1 DEF Submit
    <3>. QED BY <3>1, <2>type, CleanedMatches DEF Known, WorkerLives
  <2>2. ASSUME NEW j \in Tasks, Submit(j), j # k PROVE FALSE
    BY <2>2, <2>type DEF Submit, GoTo, TypeOK
  <2>3. ASSUME NEW j \in Tasks, WorkerStep(j) PROVE FALSE
    BY <2>3, <2>type DEF WorkerStep, StartRun, NotifyRunning, GatewayFails, GatewaySucceeds,
         Announce, Fail, Report, GoTo, TypeOK
  <2>4. ASSUME NEW j \in Tasks, SetImageFeedback(j) \/ Age(j) PROVE FALSE
    BY <2>4 DEF SetImageFeedback, Age
  <2>5. ASSUME NEW j \in Tasks, NEW o \in Origins, RetryStep(j, o) PROVE FALSE
    BY <2>5 DEF RetryStep, Scan, FetchFails, FetchSucceeds, LinkStored, EndPass
  <2>6. CASE ListTasks \/ Crash \/ Boot
    BY <2>6 DEF ListTasks, Crash, Boot
  <2>. QED BY <2>1, <2>2, <2>3, <2>4, <2>5, <2>6 DEF Next
<1>. QED BY <1>1, WorkerInvariant, PTL DEF Spec, NoSecondWorker

-----------------------------------------------------------------------------
(* Memory and store *)

\* Without a fault a save succeeds, and word to the gallery is no fault.
LEMMA NoFault ==
  ASSUME TypeOK, faults' = 0
  PROVE  /\ \A m : Saved(m) \/ SaveFails(m) => faults = 0 /\ mem' = m /\ disk' = m
         /\ \A k \in Tasks : \A g : Tell(k, g) => faults = 0
<1>1. ~Fault
  BY DEF TypeOK, Fault
<1>. QED BY <1>1 DEF Saved, SaveFails, Tell

\* A step keeps memory and store equal while no write fails.
LEMMA SavedStep == WorkerInv /\ SeenIsSaved /\ [Next]_vars => SeenIsSaved'
<1>. SUFFICES ASSUME WorkerInv, SeenIsSaved, [Next]_vars, up', faults' = 0
              PROVE  mem' = disk'
  BY DEF SeenIsSaved
<1>type. TypeOK
  BY DEF WorkerInv
<1>save. \A m : Saved(m) \/ SaveFails(m) => mem' = disk'
  BY <1>type, NoFault
<1>stay. ASSUME up, faults = 0, UNCHANGED <<mem, disk>> PROVE mem' = disk'
  BY <1>stay DEF SeenIsSaved
<1>0. CASE UNCHANGED vars
  BY <1>0, <1>stay DEF vars
<1>1. ASSUME NEW k \in Tasks, Submit(k) PROVE mem' = disk'
  BY <1>1, <1>save DEF Submit
<1>2. ASSUME NEW k \in Tasks, SetImageFeedback(k) PROVE mem' = disk'
  BY <1>2, <1>save DEF SetImageFeedback
<1>3. ASSUME NEW k \in Tasks, WorkerStep(k) PROVE mem' = disk'
  <2>1. CASE StartRun(k)
    BY <2>1, <1>save DEF StartRun
  <2>2. CASE GatewaySucceeds(k)
    BY <2>2, <1>save DEF GatewaySucceeds
  <2>3. CASE Fail(k)
    BY <2>3, <1>save DEF Fail
  <2>4. CASE NotifyRunning(k) \/ GatewayFails(k) \/ Announce(k) \/ Report(k)
    <3>1. UNCHANGED <<up, mem, disk>> /\ faults = 0
      BY <2>4, <1>type, NoFault DEF NotifyRunning, GatewayFails, Announce, Report
    <3>. QED BY <3>1, <1>stay
  <2>. QED BY <1>3, <2>1, <2>2, <2>3, <2>4 DEF WorkerStep
<1>4. ASSUME NEW k \in Tasks, Age(k) PROVE mem' = disk'
  BY <1>4 DEF Age, SeenIsSaved
<1>5. ASSUME NEW k \in Tasks, NEW o \in Origins, RetryStep(k, o) PROVE mem' = disk'
  <2>1. CASE FetchSucceeds(k, o)
    <3>1. PICK i \in Current(k, o) : StoreFetched(k, o, i)
      BY <2>1 DEF FetchSucceeds
    <3>. QED BY <2>1, <3>1, <1>save, <1>stay DEF StoreFetched, FetchSucceeds
  <2>2. CASE ~FetchSucceeds(k, o)
    <3>1. UNCHANGED <<up, mem, disk>> /\ faults = 0
      BY <1>5, <2>2, <1>type, NoFault DEF RetryStep, Scan, FetchFails, LinkStored, EndPass
    <3>. QED BY <3>1, <1>stay
  <2>. QED BY <2>1, <2>2
<1>6. CASE ListTasks
  BY <1>6, <1>save DEF ListTasks
<1>7. CASE Crash \/ Boot
  BY <1>7 DEF Crash, Boot
<1>. QED BY <1>0, <1>1, <1>2, <1>3, <1>4, <1>5, <1>6, <1>7 DEF Next

\* As long as no write failed a crash forgets nothing anybody has seen: memory
\* and store are equal whenever the process is up.
THEOREM SeenIsAlwaysSaved == Spec => []SeenIsSaved
<1>1. Init => SeenIsSaved
  BY DEF Init, SeenIsSaved
<1>. QED BY <1>1, SavedStep, WorkerInvariant, PTL DEF Spec

-----------------------------------------------------------------------------
(* What a step does to one task *)

\* A step that is not task k's own may clean it up, and leaves it alone
\* otherwise.
Still(k) ==
  /\ mem'[k] \in {mem[k], Cleaned(mem)[k]}
  /\ ~up => mem'[k] = mem[k] /\ disk'[k] = disk[k]
  /\ worker'[k] = worker[k] /\ result'[k] = result[k]
  /\ retry'[k] = retry[k] /\ gallery'[k] = gallery[k]
  /\ up' = up /\ restarts' = restarts
  /\ faults' = 0 => faults = 0

\* The acceptance of task k: it is new, and saved before its worker starts.
Accepted(k) ==
  /\ up /\ up' /\ ~Known(Cleaned(mem)[k])
  /\ mem'[k] = [Absent EXCEPT !.status = "queued"]
  /\ worker'[k] = "start"
  /\ UNCHANGED <<result, retry, gallery, restarts, faults>>

\* A worker that moves on moves alone.
LEMMA GoToAt ==
  ASSUME TypeOK, NEW k \in Tasks, NEW pc, GoTo(k, pc)
  PROVE  worker'[k] = pc /\ \A j \in Tasks \ {k} : worker'[j] = worker[j]
BY DEF TypeOK, GoTo

\* A retry thread that is replaced is the only one that changes.
LEMMA BecomeAt ==
  ASSUME TypeOK, NEW k \in Tasks, NEW o \in Origins, NEW t, Become(k, o, t)
  PROVE  /\ retry'[k][o] = t
         /\ \A p \in Origins \ {o} : retry'[k][p] = retry[k][p]
         /\ \A j \in Tasks \ {k} : retry'[j] = retry[j]
BY DEF TypeOK, Become

\* Word to the gallery is about one task; without a fault it arrives.
LEMMA TellAt ==
  ASSUME TypeOK, NEW k \in Tasks, NEW s, Tell(k, s)
  PROVE  /\ \A j \in Tasks \ {k} : gallery'[j] = gallery[j]
         /\ k \in Linked /\ faults' = 0 => gallery'[k] = s
         /\ gallery'[k] \in {gallery[k], s}
         /\ faults' = 0 => faults = 0
BY DEF TypeOK, Tell, Fault

\* A save leaves the new map in memory, and in the store if it did not fail.
LEMMA SaveAt ==
  ASSUME TypeOK, NEW m, Saved(m) \/ SaveFails(m)
  PROVE  /\ mem' = m /\ disk' \in {m, disk}
         /\ faults' = 0 => faults = 0 /\ disk' = m
BY DEF TypeOK, Saved, SaveFails, Fault

\* The same for a save that changes one task.
LEMMA SaveOne ==
  ASSUME TypeOK, NEW k \in Tasks, NEW t,
         Saved([mem EXCEPT ![k] = t]) \/ SaveFails([mem EXCEPT ![k] = t])
  PROVE  /\ mem'[k] = t /\ \A j \in Tasks \ {k} : mem'[j] = mem[j]
         /\ disk' \in {mem', disk}
         /\ faults' = 0 => faults = 0 /\ disk' = mem'
<1>1. mem' = [mem EXCEPT ![k] = t]
  BY DEF Saved, SaveFails
<1>2. mem'[k] = t /\ \A j \in Tasks \ {k} : mem'[j] = mem[j]
  BY <1>1 DEF TypeOK
<1>3. disk' \in {mem', disk} /\ (faults' = 0 => faults = 0 /\ disk' = mem')
  BY DEF Saved, SaveFails, Fault, TypeOK
<1>. QED BY <1>2, <1>3

\* A save that fails is counted.
LEMMA FaultShows ==
  ASSUME TypeOK
  PROVE  \A m : SaveFails(m) => faults' # 0
BY DEF SaveFails, Fault, TypeOK

\* Every step either leaves task k alone but for a cleanup, or is a step of its
\* own, or a crash or a restart.
LEMMA OwnStep ==
  ASSUME WorkerInv, [Next]_vars, NEW k \in Tasks
  PROVE  \/ Still(k) \/ Accepted(k)
         \/ SetImageFeedback(k) \/ WorkerStep(k) \/ Age(k) \/ Crash \/ Boot
         \/ \E o \in Origins : RetryStep(k, o)
<1>type. TypeOK /\ mem \in TaskMap /\ disk \in TaskMap
  BY DEF WorkerInv, TypeOK, TaskMap
<1>quiet. ASSUME NEW j \in Tasks, worker[j] # "idle" \/ \E o \in Origins : retry[j][o].pc # "idle"
          PROVE  up
  BY <1>quiet DEF WorkerInv, DownIsQuiet
<1>0. CASE UNCHANGED vars
  BY <1>0 DEF vars, Still
<1>1. ASSUME NEW j \in Tasks, Submit(j) PROVE Still(k) \/ Accepted(k)
  <2>0. /\ up /\ up' = up /\ result' = result /\ retry' = retry /\ gallery' = gallery
        /\ restarts' = restarts
    BY <1>1 DEF Submit
  <2>1. CASE UNCHANGED worker /\ (Saved(Cleaned(mem)) \/ SaveFails(Cleaned(mem)))
    BY <2>0, <2>1, <1>type, SaveAt DEF Still
  <2>2. CASE /\ ~Known(Cleaned(mem)[j])
             /\ Saved([Cleaned(mem) EXCEPT ![j] = [Absent EXCEPT !.status = "queued"]])
             /\ GoTo(j, "start")
    <3>1. Cleaned(mem) \in TaskMap
      BY <1>type, CleanedType
    <3>2. /\ mem'[j] = [Absent EXCEPT !.status = "queued"] /\ worker'[j] = "start"
          /\ faults' = faults
      BY <2>2, <3>1, <1>type, GoToAt DEF Saved, TaskMap
    <3>3. ASSUME j # k PROVE mem'[k] = Cleaned(mem)[k] /\ worker'[k] = worker[k]
      BY <3>3, <2>2, <3>1, <1>type, GoToAt DEF Saved, TaskMap
    <3>4. CASE j = k
      BY <2>0, <2>2, <3>2, <3>4 DEF Accepted
    <3>5. CASE j # k
      BY <2>0, <3>2, <3>3, <3>5 DEF Still
    <3>. QED BY <3>4, <3>5
  <2>3. CASE SaveFails(Cleaned(mem)) /\ UNCHANGED worker
    BY <2>1, <2>3
  <2>. QED BY <1>1, <2>1, <2>2, <2>3 DEF Submit, Rejected
<1>2. ASSUME NEW j \in Tasks \ {k}, SetImageFeedback(j) PROVE Still(k)
  BY <1>2, <1>type, SaveOne DEF SetImageFeedback, Still
<1>3. ASSUME NEW j \in Tasks \ {k}, WorkerStep(j) PROVE Still(k)
  <2>up. up
    BY <1>3, <1>quiet DEF WorkerStep, StartRun, NotifyRunning, GatewayFails, GatewaySucceeds,
                Announce, Fail, Report
  <2>1. CASE StartRun(j)
    BY <2>1, <2>up, <1>type, SaveOne, GoToAt DEF StartRun, Still
  <2>2. CASE NotifyRunning(j)
    BY <2>2, <2>up, <1>type, TellAt, GoToAt DEF NotifyRunning, Still
  <2>3. CASE GatewayFails(j)
    BY <2>3, <2>up, <1>type, GoToAt DEF GatewayFails, Still
  <2>4. CASE GatewaySucceeds(j)
    <3>. PICK d \in Answers : GatewaySucceeds(j)!(d)
      BY <2>4 DEF GatewaySucceeds
    <3>1. result'[k] = result[k] /\ worker'[k] = worker[k]
      BY <1>type, GoToAt DEF TypeOK
    <3>2. mem'[k] = mem[k] /\ (faults' = 0 => faults = 0)
      BY <1>type, SaveOne
    <3>. QED BY <2>up, <3>1, <3>2 DEF Still
  <2>5. CASE Announce(j)
    <3>1. retry'[k] = retry[k] /\ result'[k] = result[k]
      BY <2>5, <1>type DEF Announce, TypeOK
    <3>. QED BY <2>5, <2>up, <1>type, <3>1, TellAt, GoToAt DEF Announce, Still
  <2>6. CASE Fail(j)
    <3>1. result'[k] = result[k] /\ worker'[k] = worker[k]
      BY <2>6, <1>type, GoToAt DEF Fail, TypeOK
    <3>2. mem'[k] = mem[k] /\ (faults' = 0 => faults = 0)
      BY <2>6, <1>type, SaveOne DEF Fail
    <3>. QED BY <2>6, <2>up, <3>1, <3>2 DEF Fail, Still
  <2>7. CASE Report(j)
    BY <2>7, <2>up, <1>type, TellAt, GoToAt DEF Report, Still
  <2>. QED BY <1>3, <2>1, <2>2, <2>3, <2>4, <2>5, <2>6, <2>7 DEF WorkerStep
<1>4. ASSUME NEW j \in Tasks \ {k}, Age(j) PROVE Still(k)
  BY <1>4, <1>type DEF Age, Still, TaskMap
<1>5. ASSUME NEW j \in Tasks \ {k}, NEW o \in Origins, RetryStep(j, o) PROVE Still(k)
  <2>up. up
    BY <1>5, <1>quiet DEF RetryStep, Scan, FetchFails, FetchSucceeds, LinkStored, EndPass
  <2>be. ASSUME NEW t, Become(j, o, t) PROVE retry'[k] = retry[k]
    BY <2>be, <1>type, BecomeAt
  <2>1. CASE Scan(j, o)
    BY <2>1, <2>up, <2>be DEF Scan, Still
  <2>2. CASE FetchFails(j, o)
    BY <2>2, <2>up, <2>be DEF FetchFails, Still
  <2>3. CASE FetchSucceeds(j, o)
    <3>1. PICK i \in Current(j, o) : StoreFetched(j, o, i)
      BY <2>3 DEF FetchSucceeds
    <3>2. retry'[k] = retry[k]
      BY <3>1, <2>be DEF StoreFetched
    <3>3. mem'[k] = mem[k] /\ (faults' = 0 => faults = 0)
      BY <3>1, <1>type, SaveOne DEF StoreFetched, WithImage
    <3>. QED BY <2>3, <2>up, <3>2, <3>3 DEF FetchSucceeds, Still
  <2>4. CASE LinkStored(j, o)
    BY <2>4, <2>up, <2>be, <1>type, TellAt DEF LinkStored, Still
  <2>5. CASE EndPass(j, o)
    BY <2>5, <2>up, <2>be DEF EndPass, Still
  <2>. QED BY <1>5, <2>1, <2>2, <2>3, <2>4, <2>5 DEF RetryStep
<1>6. CASE ListTasks
  BY <1>6, <1>type, SaveAt DEF ListTasks, Still
<1>. QED BY <1>0, <1>1, <1>2, <1>3, <1>4, <1>5, <1>6 DEF Next

-----------------------------------------------------------------------------
(* What is stored of a task: only a success has images, and a task that is    *)
(* not there has no age.                                                     *)

Regular(m) ==
  \A k \in Tasks : /\ m[k].data # NoData => m[k].status = "success"
                   /\ m[k].status = "absent" => m[k].age = "fresh"

RegularInv == Regular(mem) /\ Regular(disk)

\* Cleaning up and recovering keep a task map regular.
LEMMA ImagesKept ==
  ASSUME NEW m \in TaskMap, Regular(m)
  PROVE  Regular(Cleaned(m)) /\ Regular(Recovered(m))
<1>1. Regular(Cleaned(m))
  BY DEF Regular, Cleaned, Absent
<1>2. ASSUME NEW k \in Tasks, Unfinished(m[k])
      PROVE  Recovered(m)[k].data = NoData /\ Recovered(m)[k].status = "error"
  <2>1. m[k] \in TaskType /\ m[k].data = NoData
    BY <1>2 DEF Regular, Unfinished, TaskMap
  <2>2. Recovered(m)[k] = [Touched(m[k]) EXCEPT !.status = "error"]
    BY <1>2 DEF Recovered
  <2>. QED BY <2>1, <2>2 DEF Touched, TaskType
<1>3. ASSUME NEW k \in Tasks, ~Unfinished(m[k])
      PROVE  Recovered(m)[k] = m[k]
  BY <1>3 DEF Recovered
<1>. QED BY <1>1, <1>2, <1>3 DEF Regular

\* What a step makes of a task in memory is again regular.
RegularTask(t) ==
  /\ t.data # NoData => t.status = "success"
  /\ t.status = "absent" => t.age = "fresh"

\* Growing older leaves a task what it is, and a task at work as it is.
LEMMA OlderFields ==
  ASSUME NEW t \in TaskType, NEW b \in BOOLEAN
  PROVE  /\ Older(t, b).status = t.status /\ Older(t, b).data = t.data
         /\ t.status = "absent" \/ (t.age = "fresh" /\ b) => Older(t, b) = t
BY DEF Older, TaskType

-----------------------------------------------------------------------------
(* What a step of a retry thread does                                        *)

\* The images thread o still has to see to.
Left(k, o) == retry[k][o].todo \union retry[k][o].failed

\* The thread moves on without an image: it gives up none that is pending.
Moved(k, o) ==
  /\ UNCHANGED <<mem, disk, gallery, faults>>
  /\ retry[k][o].pc # "link" /\ retry'[k][o].pc # "link"
  /\ mem[k].status # "absent" =>
       \A i \in Left(k, o) : mem[k].data[i] = "pending" =>
         retry'[k][o].pc = "spent" \/ i \in Left(k, o)'

\* The thread stores image i in its task, and goes on to link the first one.
StoresImage(k, o, i) ==
  /\ retry[k][o].pc = "fetch" /\ i \in retry[k][o].todo
  /\ mem[k].data[i] # "none"
  /\ mem'[k] = [Touched(mem[k]) EXCEPT !.data[i] = "final"]
  /\ disk' \in {mem', disk}
  /\ gallery' = gallery
  /\ faults' = 0 => faults = 0 /\ disk' = mem'
  /\ \/ retry'[k][o].pc = "spent" /\ faults' # 0
     \/ i = 0 /\ retry'[k][o].pc = "link" /\ 0 \in retry'[k][o].todo /\ Left(k, o)' = Left(k, o)
     \/ i # 0 /\ retry'[k][o].pc = "scan" /\ Left(k, o) \subseteq Left(k, o)' \union {i}

\* The thread has told the gallery of the first image.
TellsGallery(k, o) ==
  /\ retry[k][o].pc = "link"
  /\ Tell(k, "success")
  /\ UNCHANGED <<mem, disk>>
  /\ retry'[k][o].pc = "scan"
  /\ 0 \in retry[k][o].todo => Left(k, o) \subseteq Left(k, o)' \union {0}

\* These are all the steps of a retry thread, and they touch no other thread.
LEMMA RetryEffect ==
  ASSUME TypeOK, NEW k \in Tasks, NEW o \in Origins, RetryStep(k, o)
  PROVE  /\ UNCHANGED <<up, worker, result, restarts>>
         /\ \A p \in Origins \ {o} : retry'[k][p] = retry[k][p]
         /\ \A j \in Tasks \ {k} : mem'[j] = mem[j] /\ retry'[j] = retry[j]
         /\ Moved(k, o) \/ TellsGallery(k, o) \/ \E i \in Images : StoresImage(k, o, i)
<1>t. PICK t \in ThreadType : t = retry[k][o]
  BY DEF TypeOK
<1>be. ASSUME NEW u, Become(k, o, u)
       PROVE  /\ retry'[k][o] = u /\ \A p \in Origins \ {o} : retry'[k][p] = retry[k][p]
              /\ \A j \in Tasks \ {k} : retry'[j] = retry[j]
  BY <1>be, BecomeAt
<1>cur. ASSUME NEW i \in Current(k, o)
        PROVE  /\ i \in Images /\ i \in t.todo
               /\ 0 \in t.todo => i = 0
  BY <1>t DEF Current, ThreadType, Images
<1>past. ASSUME NEW i \in Current(k, o), NEW F
         PROVE  LET u == Past(k, o, i, F)
                IN  u.pc = "scan" /\ u.todo = t.todo \ {i} /\ u.failed = F
  BY <1>t DEF Past, ThreadType
<1>1. CASE Scan(k, o)
  <2>1. PICK i \in Current(k, o) :
           IF mem[k].status = "absent"
           THEN Become(k, o, NoThread)
           ELSE IF mem[k].data[i] = "pending"
                THEN Become(k, o, [t EXCEPT !.pc = "fetch"])
                ELSE Become(k, o, Past(k, o, i, t.failed))
    BY <1>1, <1>t DEF Scan
  <2>2. CASE mem[k].status = "absent"
    BY <1>1, <2>1, <2>2, <1>be DEF Scan, Moved, NoThread
  <2>3. CASE mem[k].status # "absent" /\ mem[k].data[i] = "pending"
    <3>1. Become(k, o, [t EXCEPT !.pc = "fetch"])
      BY <2>1, <2>3
    <3>2. LET u == [t EXCEPT !.pc = "fetch"]
          IN  u.pc = "fetch" /\ u.todo = t.todo /\ u.failed = t.failed
      BY DEF ThreadType
    <3>3. retry'[k][o].pc = "fetch" /\ Left(k, o)' = Left(k, o)
      BY <3>1, <3>2, <1>be, <1>t DEF Left
    <3>. QED BY <1>1, <3>1, <3>3, <1>be DEF Scan, Moved
  <2>4. CASE mem[k].status # "absent" /\ mem[k].data[i] # "pending"
    <3>1. Become(k, o, Past(k, o, i, t.failed))
      BY <2>1, <2>4
    <3>2. retry'[k][o].pc = "scan" /\ Left(k, o)' = (t.todo \ {i}) \union t.failed
      BY <3>1, <1>be, <1>past DEF Left
    <3>. QED BY <1>1, <2>4, <3>1, <3>2, <1>be, <1>t DEF Scan, Moved, Left
  <2>. QED BY <2>2, <2>3, <2>4
<1>2. CASE FetchFails(k, o)
  <2>1. PICK i \in Current(k, o) : Become(k, o, Past(k, o, i, t.failed \union {i}))
    BY <1>2, <1>t DEF FetchFails
  <2>2. retry'[k][o].pc = "scan" /\ Left(k, o)' = (t.todo \ {i}) \union (t.failed \union {i})
    BY <2>1, <1>be, <1>past DEF Left
  <2>. QED BY <1>2, <2>1, <2>2, <1>be, <1>t DEF FetchFails, Moved, Left
<1>3. CASE FetchSucceeds(k, o)
  <2>1. PICK i \in Current(k, o) : StoreFetched(k, o, i)
    BY <1>3 DEF FetchSucceeds
  <2>2. CASE /\ mem[k].status = "absent" /\ Become(k, o, NoThread)
             /\ UNCHANGED <<mem, disk, faults>>
    BY <1>3, <2>2, <1>be DEF FetchSucceeds, Moved, NoThread
  <2>3. CASE /\ mem[k].data[i] = "none" /\ Become(k, o, Past(k, o, i, retry[k][o].failed))
             /\ UNCHANGED <<mem, disk, faults>>
    <3>0. Become(k, o, Past(k, o, i, t.failed))
      BY <2>3, <1>t
    <3>1. retry'[k][o].pc = "scan" /\ Left(k, o)' = (t.todo \ {i}) \union t.failed
      BY <3>0, <1>be, <1>past DEF Left
    <3>. QED BY <1>3, <2>3, <3>1, <1>be, <1>t DEF FetchSucceeds, Moved, Left
  <2>save. ASSUME Saved(WithImage(k, i)) \/ SaveFails(WithImage(k, i))
           PROVE  /\ mem'[k] = [Touched(mem[k]) EXCEPT !.data[i] = "final"]
                  /\ \A j \in Tasks \ {k} : mem'[j] = mem[j]
                  /\ disk' \in {mem', disk}
                  /\ faults' = 0 => faults = 0 /\ disk' = mem'
    BY <2>save, SaveOne DEF WithImage
  <2>4. CASE /\ mem[k].data[i] # "none" /\ Saved(WithImage(k, i))
             /\ Become(k, o, IF i = 0 THEN [retry[k][o] EXCEPT !.pc = "link"]
                                  ELSE Past(k, o, i, retry[k][o].failed))
    <3>1. LET u == [t EXCEPT !.pc = "link"]
          IN  u.pc = "link" /\ u.todo = t.todo /\ u.failed = t.failed
      BY DEF ThreadType
    <3>2. CASE i = 0
      <4>1. Become(k, o, [t EXCEPT !.pc = "link"])
        BY <2>4, <3>2, <1>t
      <4>2. retry'[k][o].pc = "link" /\ retry'[k][o].todo = t.todo /\ Left(k, o)' = Left(k, o)
        BY <4>1, <3>1, <1>be, <1>t DEF Left
      <4>. QED BY <1>3, <2>4, <2>save, <3>2, <4>1, <4>2, <1>be, <1>cur, <1>t DEF FetchSucceeds, StoresImage
    <3>3. CASE i # 0
      <4>1. Become(k, o, Past(k, o, i, t.failed))
        BY <2>4, <3>3, <1>t
      <4>2. retry'[k][o].pc = "scan" /\ Left(k, o)' = (t.todo \ {i}) \union t.failed
        BY <4>1, <1>be, <1>past DEF Left
      <4>3. Left(k, o) \subseteq Left(k, o)' \union {i}
        BY <4>2, <1>t DEF Left
      <4>. QED BY <1>3, <2>4, <2>save, <3>3, <4>1, <4>2, <4>3, <1>be, <1>cur, <1>t DEF FetchSucceeds, StoresImage
    <3>. QED BY <3>2, <3>3
  <2>5. CASE mem[k].data[i] # "none" /\ SaveFails(WithImage(k, i)) /\ Become(k, o, Spent)
    <3>1. faults' # 0
      BY <2>5 DEF SaveFails, Fault, TypeOK
    <3>2. retry'[k][o].pc = "spent"
      BY <2>5, <1>be DEF Spent, NoThread
    <3>3. StoresImage(k, o, i)
      BY <1>3, <2>5, <2>save, <3>1, <3>2, <1>cur, <1>t DEF FetchSucceeds, StoresImage
    <3>. QED BY <1>3, <2>5, <2>save, <3>3, <1>be, <1>cur DEF FetchSucceeds
  <2>. QED BY <2>1, <2>2, <2>3, <2>4, <2>5, Zenon DEF StoreFetched
<1>4. CASE LinkStored(k, o)
  <2>1. PICK i \in Current(k, o) : Become(k, o, Past(k, o, i, t.failed))
    BY <1>4, <1>t DEF LinkStored
  <2>2. retry'[k][o].pc = "scan" /\ Left(k, o)' = (t.todo \ {i}) \union t.failed
    BY <2>1, <1>be, <1>past DEF Left
  <2>3. 0 \in t.todo => Left(k, o) \subseteq Left(k, o)' \union {0}
    BY <2>2, <1>cur, <1>t DEF Left
  <2>4. TellsGallery(k, o)
    BY <1>4, <2>2, <2>3, <1>t DEF LinkStored, TellsGallery
  <2>. QED BY <1>4, <2>1, <2>4, <1>be DEF LinkStored
<1>5. CASE EndPass(k, o)
  <2>0. Left(k, o) = t.failed
    BY <1>5, <1>t DEF EndPass, Left
  <2>1. CASE t.failed = {}
    BY <1>5, <2>0, <2>1, <1>be, <1>t DEF EndPass, Moved, NoThread
  <2>2. CASE t.failed # {} /\ AttemptsOver(t.attempt)
    BY <1>5, <2>2, <1>be, <1>t DEF EndPass, Moved, Spent, NoThread
  <2>3. CASE t.failed # {} /\ ~AttemptsOver(t.attempt)
    <3>1. Become(k, o, [NoThread EXCEPT !.pc = "scan", !.attempt = t.attempt + 1, !.todo = t.failed])
      BY <1>5, <2>3, <1>t DEF EndPass
    <3>2. LET u == [NoThread EXCEPT !.pc = "scan", !.attempt = t.attempt + 1, !.todo = t.failed]
          IN  u.pc = "scan" /\ u.todo = t.failed
      BY DEF NoThread
    <3>3. retry'[k][o].pc = "scan" /\ retry'[k][o].todo = t.failed
      BY <3>1, <3>2, <1>be
    <3>. QED BY <1>5, <2>0, <3>1, <3>3, <1>be DEF EndPass, Moved, Left
  <2>. QED BY <2>1, <2>2, <2>3
<1>. QED BY <1>1, <1>2, <1>3, <1>4, <1>5 DEF RetryStep

-----------------------------------------------------------------------------
(* Regularity is kept                                                        *)

\* A step leaves the store alone, brings it level with memory, or ages a task.
LEMMA DiskStep ==
  ASSUME TypeOK, [Next]_vars
  PROVE  disk' \in {disk, mem'} \/ \E j \in Tasks : Age(j)
<1>save. \A m : Saved(m) \/ SaveFails(m) => disk' \in {disk, mem'}
  BY DEF Saved, SaveFails
<1>0. CASE UNCHANGED vars
  BY <1>0 DEF vars
<1>1. ASSUME NEW j \in Tasks, Submit(j) \/ SetImageFeedback(j) \/ ListTasks
      PROVE  disk' \in {disk, mem'}
  BY <1>1, <1>save DEF Submit, SetImageFeedback, ListTasks
<1>2. ASSUME NEW j \in Tasks, WorkerStep(j) PROVE disk' \in {disk, mem'}
  <2>1. CASE StartRun(j) \/ Fail(j)
    BY <2>1, <1>save DEF StartRun, Fail
  <2>2. CASE GatewaySucceeds(j)
    BY <2>2, <1>save DEF GatewaySucceeds
  <2>3. CASE NotifyRunning(j) \/ GatewayFails(j) \/ Announce(j) \/ Report(j)
    BY <2>3 DEF NotifyRunning, GatewayFails, Announce, Report
  <2>. QED BY <1>2, <2>1, <2>2, <2>3 DEF WorkerStep
<1>3. ASSUME NEW j \in Tasks, NEW o \in Origins, RetryStep(j, o) PROVE disk' \in {disk, mem'}
  BY <1>3, RetryEffect DEF Moved, TellsGallery, StoresImage
<1>4. CASE ListTasks \/ Crash \/ Boot
  BY <1>4, <1>save DEF ListTasks, Crash, Boot
<1>. QED BY <1>0, <1>1, <1>2, <1>3, <1>4 DEF Next

\* Every step keeps memory and store regular.
LEMMA RegularStep ==
  ASSUME WorkerInv, RegularInv, [Next]_vars
  PROVE  RegularInv'
<1>type. TypeOK /\ mem \in TaskMap /\ disk \in TaskMap
  BY DEF WorkerInv, TypeOK, TaskMap
<1>reg. ASSUME NEW k \in Tasks
        PROVE  RegularTask(mem[k]) /\ RegularTask(disk[k]) /\ RegularTask(Cleaned(mem)[k])
  BY <1>type, ImagesKept DEF RegularInv, Regular, RegularTask
<1>age. ASSUME NEW k \in Tasks, NEW j \in Tasks, Age(j)
        PROVE  RegularTask(mem'[k]) /\ RegularTask(disk'[k])
  <2>1. PICK b \in BOOLEAN : mem' = [mem EXCEPT ![j] = Older(@, b)] /\ disk' = [disk EXCEPT ![j] = Older(@, b)]
    BY <1>age, (WorkerLives(j) \/ RetryLives(j)) \in BOOLEAN DEF Age
  <2>2. CASE k = j
    <3>1. mem'[k] = Older(mem[k], b) /\ disk'[k] = Older(disk[k], b)
          /\ mem[k] \in TaskType /\ disk[k] \in TaskType
      BY <2>1, <2>2, <1>type DEF TaskMap
    <3>. QED BY <3>1, <1>reg, OlderFields DEF RegularTask
  <2>3. CASE k # j
    BY <2>1, <2>3, <1>reg, <1>type DEF TaskMap
  <2>. QED BY <2>2, <2>3
<1>1. ASSUME NEW k \in Tasks PROVE RegularTask(mem'[k])
  <2>k. mem[k] \in TaskType /\ Matches(mem[k], worker[k])
    BY <1>type DEF TaskMap, WorkerInv
  <2>1. CASE Still(k)
    BY <2>1, <1>reg DEF Still
  <2>2. CASE Accepted(k)
    BY <2>2 DEF Accepted, RegularTask, Absent
  <2>3. CASE SetImageFeedback(k)
    <3>1. mem'[k] = Touched(mem[k])
      BY <2>3, <1>type, SaveOne DEF SetImageFeedback
    <3>2. mem'[k].status = mem[k].status /\ mem'[k].data = mem[k].data /\ mem'[k].age = "fresh"
      BY <3>1, <2>k DEF Touched, TaskType
    <3>. QED BY <3>2, <1>reg DEF RegularTask
  <2>4. CASE WorkerStep(k)
    <3>1. CASE StartRun(k)
      <4>1. mem'[k] = [Touched(mem[k]) EXCEPT !.status = "running"]
        BY <3>1, <1>type, SaveOne DEF StartRun
      <4>2. mem[k].data = NoData
        BY <3>1, <2>k, <1>reg DEF StartRun, Matches, StatusOf, RegularTask
      <4>3. mem'[k].data = NoData /\ mem'[k].status = "running"
        BY <4>1, <4>2, <2>k DEF Touched, TaskType
      <4>. QED BY <4>3 DEF RegularTask
    <3>2. CASE GatewaySucceeds(k)
      <4>1. PICK d \in Answers : mem'[k] = [Touched(mem[k]) EXCEPT !.status = "success", !.data = d]
        BY <3>2, <1>type, SaveOne DEF GatewaySucceeds
      <4>2. mem'[k].status = "success"
        BY <4>1, <2>k DEF Touched, TaskType
      <4>. QED BY <4>2 DEF RegularTask
    <3>3. CASE Fail(k)
      <4>1. mem'[k] = [Absent EXCEPT !.status = "error"]
        BY <3>3, <1>type, SaveOne DEF Fail
      <4>. QED BY <4>1 DEF RegularTask, Absent
    <3>4. CASE mem' = mem
      BY <3>4, <1>reg
    <3>. QED BY <2>4, <3>1, <3>2, <3>3, <3>4 DEF WorkerStep, NotifyRunning, GatewayFails, Announce, Report
  <2>5. CASE Age(k)
    BY <2>5, <1>age
  <2>6. ASSUME NEW o \in Origins, RetryStep(k, o) PROVE RegularTask(mem'[k])
    <3>1. CASE mem' = mem
      BY <3>1, <1>reg
    <3>2. ASSUME NEW i \in Images, StoresImage(k, o, i) PROVE RegularTask(mem'[k])
      <4>1. mem[k].status = "success"
        BY <3>2, <1>reg DEF StoresImage, RegularTask, NoData
      <4>2. mem'[k].status = "success"
        BY <3>2, <4>1, <2>k DEF StoresImage, Touched, TaskType
      <4>. QED BY <4>2 DEF RegularTask
    <3>. QED BY <2>6, <3>1, <3>2, <1>type, RetryEffect DEF Moved, TellsGallery
  <2>7. CASE Crash
    BY <2>7 DEF Crash, RegularTask, Absent
  <2>8. CASE Boot
    <3>1. Recovered(disk) \in TaskMap /\ Regular(Recovered(disk))
      BY <1>type, RecoveredType, ImagesKept DEF RegularInv
    <3>2. Regular(Cleaned(Recovered(disk)))
      BY <3>1, ImagesKept
    <3>3. RegularTask(Cleaned(Recovered(disk))[k])
      BY <3>2 DEF Regular, RegularTask
    <3>. QED BY <2>8, <3>3, <1>reg DEF Boot
  <2>. QED BY <2>1, <2>2, <2>3, <2>4, <2>5, <2>6, <2>7, <2>8, OwnStep
<1>2. ASSUME NEW k \in Tasks PROVE RegularTask(disk'[k])
  BY <1>1, <1>reg, <1>age, <1>type, DiskStep
<1>. QED BY <1>1, <1>2 DEF RegularInv, Regular, RegularTask

-----------------------------------------------------------------------------
(* The threads of one task. A worker that still has to announce its success   *)
(* holds an answer the task in memory has not fallen behind; a retry thread   *)
(* that still has to link the first image works on a task that has ended and  *)
(* has that image; before the first crash a task has no retry thread beside   *)
(* its worker; and without a fault no worker was killed, and its handler      *)
(* meets a running task.                                                     *)

Unharmed(k) ==
  faults = 0 => /\ worker[k] # "dead"
                /\ worker[k] = "fail" => mem[k].status = "running"

Announced(k) ==
  worker[k] = "announce" =>
    /\ result[k] \in Answers
    /\ \A i \in Images : /\ mem[k].data[i] = "pending" => result[k][i] = "pending"
                         /\ result[k][i] = "final" => mem[k].data[i] = "final"
    /\ restarts = 0 => mem[k].data = result[k]

Linking(k) ==
  \A o \in Origins : retry[k][o].pc = "link" =>
    /\ 0 \in retry[k][o].todo
    /\ Terminal(mem[k]) /\ mem[k].age = "fresh"
    /\ mem[k].data[0] # "pending"
    /\ faults = 0 => mem[k].status = "success" /\ mem[k].data[0] = "final"

Alone(k) ==
  restarts = 0 /\ RetryLives(k) => ~WorkerLives(k) /\ mem[k].age = "fresh" /\ Terminal(mem[k])

Threads(k) == Unharmed(k) /\ Announced(k) /\ Linking(k) /\ Alone(k)

ThreadInv ==
  /\ WorkerInv
  /\ RegularInv
  /\ ~up => restarts > 0
  /\ \A k \in Tasks : Threads(k)

\* A cleanup leaves a fresh task, and one that has not ended, alone.
LEMMA CleanedSame ==
  ASSUME NEW m, NEW k \in Tasks, m[k].age = "fresh" \/ ~Terminal(m[k])
  PROVE  Cleaned(m)[k] = m[k]
BY DEF Cleaned, Expired

\* Steps of other tasks do not disturb the threads of a task.
LEMMA StillThreads ==
  ASSUME ThreadInv, NEW k \in Tasks, Still(k)
  PROVE  Threads(k)'
<1>k. Threads(k) /\ Matches(mem[k], worker[k])
  BY DEF ThreadInv, WorkerInv
<1>0. RetryLives(k)' = RetryLives(k) /\ WorkerLives(k)' = WorkerLives(k)
  BY DEF Still, RetryLives, WorkerLives
<1>1. mem[k].age = "fresh" \/ ~Terminal(mem[k]) => mem'[k] = mem[k]
  BY CleanedSame DEF Still
<1>2. Unharmed(k)'
  BY <1>k, <1>1 DEF Threads, Unharmed, Still, Terminal
<1>3. Announced(k)'
  <2>1. worker[k] = "announce" => mem'[k] = mem[k]
    BY <1>k, <1>1 DEF Matches
  <2>. QED BY <1>k, <2>1 DEF Threads, Announced, Still
<1>4. Linking(k)'
  BY <1>k, <1>1 DEF Threads, Linking, Still
<1>5. Alone(k)'
  BY <1>k, <1>0, <1>1 DEF Threads, Alone, Still
<1>. QED BY <1>2, <1>3, <1>4, <1>5 DEF Threads

\* Nor do the steps of its worker.
LEMMA WorkerThreads ==
  ASSUME ThreadInv, [Next]_vars, NEW k \in Tasks, WorkerStep(k)
  PROVE  Threads(k)'
<1>k. Threads(k) /\ Matches(mem[k], worker[k]) /\ mem[k] \in TaskType /\ TypeOK
  BY DEF ThreadInv, WorkerInv, TypeOK
<1>idle. WorkerLives(k)
  BY DEF WorkerStep, StartRun, NotifyRunning, GatewayFails, GatewaySucceeds, Announce, Fail, Report,
         WorkerLives
<1>up. up
  BY <1>idle DEF ThreadInv, WorkerInv, DownIsQuiet, WorkerLives
<1>alone. restarts = 0 => ~RetryLives(k)
  BY <1>k, <1>idle DEF Threads, Alone
<1>quiet. ASSUME UNCHANGED <<retry, restarts>> PROVE Alone(k)'
  BY <1>quiet, <1>alone DEF Alone, RetryLives
<1>1. CASE StartRun(k)
  <2>1. /\ mem'[k] = [Touched(mem[k]) EXCEPT !.status = "running"]
        /\ faults' = 0 => worker'[k] = "notify"
        /\ worker'[k] \in {"notify", "dead"}
    <3>1. mem'[k] = [Touched(mem[k]) EXCEPT !.status = "running"]
      BY <1>1, <1>k, SaveOne DEF StartRun
    <3>2. (faults' = 0 => worker'[k] = "notify") /\ worker'[k] \in {"notify", "dead"}
      BY <1>1, <1>k, FaultShows, GoToAt DEF StartRun
    <3>. QED BY <3>1, <3>2
  <2>2. \A o \in Origins : retry[k][o].pc # "link" /\ retry' = retry
    BY <1>1, <1>k DEF Threads, Linking, StartRun, Matches, StatusOf, Terminal
  <2>. QED BY <1>1, <2>1, <2>2, <1>quiet DEF StartRun, Threads, Unharmed, Announced, Linking
<1>2. CASE NotifyRunning(k)
  <2>1. worker'[k] = "gateway" /\ mem' = mem /\ retry' = retry /\ (faults' = 0 => faults = 0)
    BY <1>2, <1>k, TellAt, GoToAt DEF NotifyRunning
  <2>. QED BY <1>2, <1>k, <2>1, <1>quiet DEF NotifyRunning, Threads, Unharmed, Announced, Linking
<1>3. CASE GatewayFails(k)
  <2>1. worker'[k] = "fail" /\ mem' = mem /\ retry' = retry /\ faults' = faults /\ mem[k].status = "running"
    BY <1>3, <1>k, GoToAt DEF GatewayFails, Matches, StatusOf
  <2>. QED BY <1>3, <1>k, <2>1, <1>quiet DEF GatewayFails, Threads, Unharmed, Announced, Linking
<1>4. CASE GatewaySucceeds(k)
  <2>1. PICK d \in Answers : /\ mem'[k] = [Touched(mem[k]) EXCEPT !.status = "success", !.data = d]
                             /\ faults' = 0 => worker'[k] = "announce"
                             /\ worker'[k] \in {"announce", "fail"}
                             /\ result'[k] = d
    <3>. PICK d \in Answers : GatewaySucceeds(k)!(d)
      BY <1>4 DEF GatewaySucceeds
    <3>1. mem'[k] = [Touched(mem[k]) EXCEPT !.status = "success", !.data = d]
      BY <1>k, SaveOne
    <3>2. (faults' = 0 => worker'[k] = "announce") /\ worker'[k] \in {"announce", "fail"}
      BY <1>k, FaultShows, GoToAt
    <3>3. result'[k] = d
      BY <1>k DEF TypeOK
    <3>. QED BY <3>1, <3>2, <3>3
  <2>2. mem'[k].data = d
    BY <2>1, <1>k DEF Touched, TaskType
  <2>3. \A o \in Origins : retry[k][o].pc # "link" /\ retry' = retry
    BY <1>4, <1>k DEF Threads, Linking, GatewaySucceeds, Matches, StatusOf, Terminal
  <2>. QED BY <1>4, <2>1, <2>2, <2>3, <1>quiet DEF GatewaySucceeds, Threads, Unharmed, Announced, Linking
<1>5. CASE Announce(k)
  <2>1. worker'[k] = "idle" /\ mem' = mem /\ (faults' = 0 => faults = 0) /\ restarts' = restarts
    BY <1>5, <1>k, TellAt, GoToAt DEF Announce
  <2>2. /\ retry'[k]["spawned"] = StartRetry(Pending(result[k]))
        /\ retry'[k]["resumed"] = retry[k]["resumed"]
        /\ retry'[k]["spawned"].pc # "link"
    BY <1>5, <1>k DEF Announce, TypeOK, Origins, StartRetry, NoThread
  <2>3. Linking(k)'
    BY <1>k, <2>1, <2>2 DEF Threads, Linking, Origins
  <2>4. Alone(k)'
    BY <1>5, <1>k, <2>1 DEF Alone, WorkerLives, Announce, Matches, StatusOf, Terminal
  <2>. QED BY <2>1, <2>3, <2>4 DEF Threads, Unharmed, Announced
<1>6. CASE Fail(k)
  <2>1. /\ mem'[k] = [Absent EXCEPT !.status = "error"]
        /\ faults' = 0 => faults = 0 /\ worker'[k] = "report"
        /\ worker'[k] \in {"report", "dead"}
    <3>1. mem'[k] = [Absent EXCEPT !.status = "error"] /\ (faults' = 0 => faults = 0)
      BY <1>6, <1>k, SaveOne DEF Fail
    <3>2. (faults' = 0 => worker'[k] = "report") /\ worker'[k] \in {"report", "dead"}
      BY <1>6, <1>k, FaultShows, GoToAt DEF Fail
    <3>. QED BY <3>1, <3>2
  <2>2. /\ mem'[k].status = "error" /\ mem'[k].age = "fresh" /\ mem'[k].data[0] = "none"
        /\ retry' = retry
    BY <1>6, <2>1 DEF Absent, NoData, Images, Fail
  <2>3. Linking(k)'
    <3>1. ASSUME faults' = 0, NEW o \in Origins PROVE retry[k][o].pc # "link"
      BY <1>6, <3>1, <2>1, <1>k DEF Threads, Linking, Unharmed, Terminal, Fail
    <3>. QED BY <1>k, <2>2, <3>1 DEF Threads, Linking, Terminal
  <2>. QED BY <1>6, <2>1, <2>3, <1>quiet DEF Fail, Threads, Unharmed, Announced
<1>7. CASE Report(k)
  <2>1. worker'[k] = "idle" /\ mem' = mem /\ retry' = retry /\ (faults' = 0 => faults = 0)
    BY <1>7, <1>k, TellAt, GoToAt DEF Report
  <2>. QED BY <1>7, <1>k, <2>1, <1>quiet DEF Report, Threads, Unharmed, Announced, Linking
<1>. QED BY <1>1, <1>2, <1>3, <1>4, <1>5, <1>6, <1>7 DEF WorkerStep

\* Nor those of its retry threads.
LEMMA RetryThreads ==
  ASSUME ThreadInv, NEW k \in Tasks, NEW o \in Origins, RetryStep(k, o)
  PROVE  Threads(k)'
<1>k. Threads(k) /\ Matches(mem[k], worker[k]) /\ mem[k] \in TaskType /\ TypeOK
      /\ worker[k] \in WorkerStates
  BY DEF ThreadInv, WorkerInv, TypeOK
<1>reg. mem[k].data # NoData => mem[k].status = "success"
  BY DEF ThreadInv, RegularInv, Regular
<1>lives. RetryLives(k) /\ (WorkerLives(k)' <=> WorkerLives(k))
  BY DEF RetryLives, WorkerLives, RetryStep, Scan, FetchFails, FetchSucceeds, LinkStored, EndPass
<1>eff. /\ UNCHANGED <<up, worker, result, restarts>>
        /\ \A p \in Origins \ {o} : retry'[k][p] = retry[k][p]
        /\ Moved(k, o) \/ TellsGallery(k, o) \/ \E i \in Images : StoresImage(k, o, i)
  BY <1>k, RetryEffect
<1>1. CASE Moved(k, o)
  BY <1>1, <1>k, <1>eff, <1>lives DEF Moved, Threads, Unharmed, Announced, Linking, Alone
<1>2. CASE TellsGallery(k, o)
  <2>1. faults' = 0 => faults = 0
    BY <1>2, <1>k, TellAt DEF TellsGallery
  <2>. QED BY <1>2, <1>k, <1>eff, <1>lives, <2>1 DEF TellsGallery, Threads, Unharmed, Announced, Linking, Alone
<1>3. ASSUME NEW i \in Images, StoresImage(k, o, i) PROVE Threads(k)'
  <2>1. mem[k].status = "success"
    BY <1>3, <1>reg DEF StoresImage, NoData
  <2>2. /\ mem'[k].status = "success" /\ mem'[k].age = "fresh"
        /\ mem'[k].data = [mem[k].data EXCEPT ![i] = "final"]
    BY <1>3, <2>1, <1>k DEF StoresImage, Touched, TaskType
  <2>3. \A j \in Images : mem'[k].data[j] = IF j = i THEN "final" ELSE mem[k].data[j]
    BY <2>2, <1>k DEF TaskType
  <2>4. faults' = 0 => faults = 0
    BY <1>3 DEF StoresImage
  <2>5. Unharmed(k)'
    BY <1>k, <1>eff, <2>1, <2>2, <2>4 DEF Threads, Unharmed
  <2>6. Announced(k)'
    <3>1. worker[k] = "announce" => restarts # 0
      BY <1>k, <1>lives DEF Threads, Alone, WorkerLives
    <3>. QED BY <1>k, <1>eff, <2>3, <3>1 DEF Threads, Announced
  <2>7. Linking(k)'
    <3>1. 0 \in Images
      BY DEF Images
    <3>2. ASSUME NEW p \in Origins \ {o}, retry'[k][p].pc = "link"
          PROVE  /\ 0 \in retry'[k][p].todo
                 /\ mem'[k].data[0] # "pending"
                 /\ faults' = 0 => mem'[k].data[0] = "final"
      BY <3>1, <3>2, <1>k, <1>eff, <2>3, <2>4 DEF Threads, Linking
    <3>3. ASSUME retry'[k][o].pc = "link"
          PROVE  0 \in retry'[k][o].todo /\ mem'[k].data[0] = "final"
      BY <3>1, <3>3, <1>3, <2>3 DEF StoresImage
    <3>. QED BY <2>2, <3>2, <3>3 DEF Linking, Terminal
  <2>8. Alone(k)'
    BY <1>k, <1>eff, <1>lives, <2>2 DEF Threads, Alone, Terminal
  <2>. QED BY <2>5, <2>6, <2>7, <2>8 DEF Threads
<1>. QED BY <1>eff, <1>1, <1>2, <1>3

\* Every step keeps the invariant of the threads.
LEMMA ThreadStep ==
  ASSUME ThreadInv, [Next]_vars
  PROVE  ThreadInv'
<1>inv. WorkerInv /\ WorkerInv' /\ RegularInv' /\ TypeOK /\ TypeOK'
  BY WorkerStepInv, RegularStep DEF ThreadInv, WorkerInv
<1>down. ~up' => restarts' > 0
  <2>1. restarts \in Nat /\ (~up => restarts > 0)
    BY <1>inv DEF TypeOK, ThreadInv
  <2>2. CASE up' = up /\ restarts' = restarts
    BY <2>1, <2>2
  <2>3. CASE Crash \/ Boot
    BY <2>1, <2>3 DEF Crash, Boot
  <2>4. [Next]_vars => (up' = up /\ restarts' = restarts) \/ Crash \/ Boot
    <3>1. ASSUME NEW j \in Tasks, WorkerStep(j) PROVE up' = up /\ restarts' = restarts
      BY <3>1 DEF WorkerStep, StartRun, NotifyRunning, GatewayFails, GatewaySucceeds, Announce,
                  Fail, Report
    <3>2. ASSUME NEW j \in Tasks, NEW o \in Origins, RetryStep(j, o)
          PROVE  up' = up /\ restarts' = restarts
      BY <3>2 DEF RetryStep, Scan, FetchFails, FetchSucceeds, LinkStored, EndPass
    <3>. QED BY <3>1, <3>2 DEF Next, vars, Submit, SetImageFeedback, Age, ListTasks
  <2>. QED BY <2>2, <2>3, <2>4
<1>1. ASSUME NEW k \in Tasks PROVE Threads(k)'
  <2>k. Threads(k) /\ Matches(mem[k], worker[k]) /\ mem[k] \in TaskType /\ worker[k] \in WorkerStates
    BY <1>inv DEF ThreadInv, WorkerInv, TypeOK
  <2>1. CASE Still(k)
    BY <2>1, StillThreads
  <2>2. CASE Accepted(k)
    <3>1. ~Terminal(mem[k]) \/ mem[k].age # "fresh"
      BY <2>2, CleanedSame DEF Accepted, Known, Terminal
    <3>2. ~RetryLives(k)' \/ restarts' # 0
      BY <2>2, <2>k, <3>1 DEF Accepted, Threads, Alone, RetryLives
    <3>3. Linking(k)'
      BY <2>2, <2>k, <3>1 DEF Accepted, Threads, Linking
    <3>. QED BY <2>2, <3>2, <3>3 DEF Accepted, Threads, Unharmed, Announced, Alone
  <2>3. CASE SetImageFeedback(k)
    <3>1. mem'[k] = Touched(mem[k]) /\ (faults' = 0 => faults = 0)
      BY <2>3, <1>inv, SaveOne DEF SetImageFeedback
    <3>2. mem'[k].status = mem[k].status /\ mem'[k].data = mem[k].data /\ mem'[k].age = "fresh"
      BY <3>1, <2>k DEF Touched, TaskType
    <3>3. UNCHANGED <<worker, result, retry, restarts>>
      BY <2>3 DEF SetImageFeedback
    <3>4. (WorkerLives(k)' <=> WorkerLives(k)) /\ (RetryLives(k)' <=> RetryLives(k))
      BY <3>3 DEF WorkerLives, RetryLives
    <3>. QED BY <2>k, <3>1, <3>2, <3>3, <3>4
         DEF Threads, Unharmed, Announced, Linking, Alone, Terminal
  <2>4. CASE WorkerStep(k)
    BY <2>4, WorkerThreads
  <2>5. CASE Age(k)
    <3>1. mem'[k] = Older(mem[k], WorkerLives(k) \/ RetryLives(k))
      BY <2>5, <1>inv DEF Age, TypeOK
    <3>2. /\ mem'[k].status = mem[k].status /\ mem'[k].data = mem[k].data
          /\ mem[k].age = "fresh" /\ RetryLives(k) => mem'[k] = mem[k]
      BY <3>1, <2>k, OlderFields, (WorkerLives(k) \/ RetryLives(k)) \in BOOLEAN
    <3>3. UNCHANGED <<worker, result, retry, restarts, faults>>
      BY <2>5 DEF Age
    <3>4. (WorkerLives(k)' <=> WorkerLives(k)) /\ (RetryLives(k)' <=> RetryLives(k))
      BY <3>3 DEF WorkerLives, RetryLives
    <3>5. ASSUME NEW o \in Origins, retry[k][o].pc = "link" PROVE RetryLives(k)
      BY <3>5 DEF RetryLives
    <3>. QED BY <2>k, <3>2, <3>3, <3>4, <3>5
         DEF Threads, Unharmed, Announced, Linking, Alone, Terminal
  <2>6. ASSUME NEW o \in Origins, RetryStep(k, o) PROVE Threads(k)'
    BY <2>6, RetryThreads
  <2>7. CASE Crash
    <3>1. /\ worker'[k] = "idle" /\ \A o \in Origins : retry'[k][o].pc = "idle"
          /\ restarts' # 0
      BY <2>7, <1>inv DEF Crash, NoThread, TypeOK
    <3>. QED BY <3>1 DEF Threads, Unharmed, Announced, Linking, Alone
  <2>8. CASE Boot
    <3>1. worker'[k] = "idle" /\ restarts' # 0
      BY <2>8, <1>inv DEF Boot, WorkerInv, DownIsQuiet, ThreadInv, TypeOK
    <3>2. \A o \in Origins : retry'[k][o].pc # "link"
      <4>1. CASE UNCHANGED retry
        BY <2>8, <4>1, <1>inv DEF Boot, WorkerInv, DownIsQuiet
      <4>2. CASE retry' = Resumed(Cleaned(Recovered(disk)))
        BY <4>2 DEF Resumed, StartRetry, NoThread
      <4>. QED BY <2>8, <4>1, <4>2 DEF Boot
    <3>. QED BY <3>1, <3>2 DEF Threads, Unharmed, Announced, Linking, Alone
  <2>. QED BY <1>inv, <2>1, <2>2, <2>3, <2>4, <2>5, <2>6, <2>7, <2>8, OwnStep
<1>. QED BY <1>inv, <1>down, <1>1 DEF ThreadInv

\* The invariant of the threads holds when the service starts.
LEMMA InitThreads == Init => ThreadInv
<1>. SUFFICES ASSUME Init PROVE ThreadInv
  OBVIOUS
<1>1. WorkerInv /\ RegularInv /\ up
  BY InitInv DEF Init, RegularInv, Regular, Absent
<1>2. ASSUME NEW k \in Tasks PROVE Threads(k)
  BY DEF Init, Threads, Unharmed, Announced, Linking, Alone, NoThread, RetryLives
<1>. QED BY <1>1, <1>2 DEF ThreadInv

\* The invariant of the threads holds in every reachable state.
LEMMA ThreadInvariant == Spec => []ThreadInv
BY InitThreads, ThreadStep, PTL DEF Spec

-----------------------------------------------------------------------------
(* Pending images *)

\* Image i of task k is still to be fetched by someone, or a thread of the task
\* has ended without it.
InHand(k, i) ==
  \/ worker[k] \in {"announce", "fail"}
  \/ \E o \in Origins : retry[k][o].pc = "spent" \/ i \in Left(k, o)

InHandAll(k) ==
  up /\ mem[k].status = "success" =>
    \A i \in Images : mem[k].data[i] = "pending" => InHand(k, i)

\* A step keeps every pending image in somebody's hands.
LEMMA PendingStep ==
  ASSUME ThreadInv, \A k \in Tasks : InHandAll(k), [Next]_vars, NEW k \in Tasks
  PROVE  InHandAll(k)'
<1>k. /\ Threads(k) /\ Matches(mem[k], worker[k]) /\ mem[k] \in TaskType /\ TypeOK /\ WorkerInv
      /\ worker[k] \in WorkerStates /\ InHandAll(k)
  BY DEF ThreadInv, WorkerInv, TypeOK
<1>1. CASE Still(k)
  <2>1. mem'[k].status = "success" => mem'[k] = mem[k]
    BY <1>1 DEF Still, Cleaned, Absent
  <2>2. \A i : InHand(k, i)' <=> InHand(k, i)
    BY <1>1 DEF Still, InHand, Left
  <2>. QED BY <1>1, <1>k, <2>1, <2>2 DEF Still, InHandAll
<1>2. CASE Accepted(k)
  BY <1>2 DEF Accepted, Absent, InHandAll
<1>3. CASE SetImageFeedback(k)
  <2>1. mem'[k] = Touched(mem[k])
    BY <1>3, <1>k, SaveOne DEF SetImageFeedback
  <2>2. mem'[k].status = mem[k].status /\ mem'[k].data = mem[k].data
    BY <2>1, <1>k DEF Touched, TaskType
  <2>. QED BY <1>3, <1>k, <2>2 DEF SetImageFeedback, InHandAll, InHand, Left
<1>4. CASE WorkerStep(k)
  <2>1. CASE StartRun(k)
    <3>1. mem'[k] = [Touched(mem[k]) EXCEPT !.status = "running"]
      BY <2>1, <1>k, SaveOne DEF StartRun
    <3>. QED BY <3>1, <1>k DEF Touched, TaskType, InHandAll
  <2>2. CASE GatewaySucceeds(k)
    <3>1. worker'[k] \in {"announce", "fail"}
      BY <2>2, <1>k, GoToAt DEF GatewaySucceeds
    <3>. QED BY <3>1 DEF InHandAll, InHand
  <2>3. CASE Announce(k)
    <3>1. /\ UNCHANGED <<up, mem>>
          /\ retry'[k]["spawned"] = StartRetry(Pending(result[k]))
      BY <2>3, <1>k DEF Announce, TypeOK, Origins
    <3>2. ASSUME NEW i \in Images, mem[k].data[i] = "pending"
          PROVE  i \in retry'[k]["spawned"].todo
      <4>1. i \in Pending(result[k])
        BY <2>3, <3>2, <1>k DEF Announce, Threads, Announced, Pending
      <4>. QED BY <3>1, <4>1 DEF StartRetry, NoThread
    <3>. QED BY <3>1, <3>2 DEF InHandAll, InHand, Left, Origins
  <2>4. CASE Fail(k)
    <3>1. mem'[k] = [Absent EXCEPT !.status = "error"]
      BY <2>4, <1>k, SaveOne DEF Fail
    <3>. QED BY <3>1 DEF Absent, InHandAll
  <2>5. CASE NotifyRunning(k) \/ GatewayFails(k) \/ Report(k)
    <3>1. worker[k] \notin {"announce", "fail"} /\ UNCHANGED <<up, mem, retry>>
      BY <2>5 DEF NotifyRunning, GatewayFails, Report
    <3>. QED BY <1>k, <3>1 DEF InHandAll, InHand, Left
  <2>. QED BY <1>4, <2>1, <2>2, <2>3, <2>4, <2>5 DEF WorkerStep
<1>5. CASE Age(k)
  <2>1. mem'[k] = Older(mem[k], WorkerLives(k) \/ RetryLives(k))
    BY <1>5, <1>k DEF Age, TypeOK
  <2>2. mem'[k].status = mem[k].status /\ mem'[k].data = mem[k].data
    BY <2>1, <1>k, OlderFields, (WorkerLives(k) \/ RetryLives(k)) \in BOOLEAN
  <2>. QED BY <1>5, <1>k, <2>2 DEF Age, InHandAll, InHand, Left
<1>6. ASSUME NEW o \in Origins, RetryStep(k, o) PROVE InHandAll(k)'
  <2>eff. /\ UNCHANGED <<up, worker>>
          /\ \A p \in Origins \ {o} : retry'[k][p] = retry[k][p]
          /\ Moved(k, o) \/ TellsGallery(k, o) \/ \E i \in Images : StoresImage(k, o, i)
    BY <1>6, <1>k, RetryEffect
  <2>live. retry[k][o].pc # "spent"
    BY <1>6 DEF RetryStep, Scan, FetchFails, FetchSucceeds, LinkStored, EndPass
  <2>suff. ASSUME NEW i \in Images, InHand(k, i),
                  i \in Left(k, o) => retry'[k][o].pc = "spent" \/ i \in Left(k, o)'
           PROVE  InHand(k, i)'
    <3>1. CASE worker[k] \in {"announce", "fail"} \/ i \in Left(k, o)
      BY <2>eff, <2>suff, <3>1 DEF InHand
    <3>2. ASSUME NEW p \in Origins \ {o}, retry[k][p].pc = "spent" \/ i \in Left(k, p)
          PROVE  InHand(k, i)'
      BY <2>eff, <3>2 DEF InHand, Left
    <3>. QED BY <2>suff, <2>live, <3>1, <3>2 DEF InHand
  <2>1. CASE Moved(k, o)
    BY <2>1, <1>k, <2>eff, <2>suff DEF Moved, InHandAll
  <2>2. CASE TellsGallery(k, o)
    <3>1. mem[k].data[0] # "pending" /\ 0 \in retry[k][o].todo
      BY <2>2, <1>k DEF TellsGallery, Threads, Linking
    <3>. QED BY <2>2, <1>k, <2>eff, <2>suff, <3>1 DEF TellsGallery, InHandAll
  <2>3. ASSUME NEW i \in Images, StoresImage(k, o, i) PROVE InHandAll(k)'
    <3>1. /\ mem'[k].status = mem[k].status
          /\ mem'[k].data = [mem[k].data EXCEPT ![i] = "final"]
      BY <2>3, <1>k DEF StoresImage, Touched, TaskType
    <3>2. \A j \in Images : mem'[k].data[j] = "pending" => j # i /\ mem[k].data[j] = "pending"
      BY <3>1, <1>k DEF TaskType
    <3>3. \A j \in Left(k, o) \ {i} : retry'[k][o].pc = "spent" \/ j \in Left(k, o)'
      BY <2>3 DEF StoresImage
    <3>. QED BY <1>k, <2>eff, <2>suff, <3>1, <3>2, <3>3 DEF InHandAll
  <2>. QED BY <2>eff, <2>1, <2>2, <2>3
<1>7. CASE Crash
  BY <1>7 DEF Crash, InHandAll
<1>8. CASE Boot
  <2>1. CASE ~up'
    BY <2>1 DEF InHandAll
  <2>2. CASE mem' = Cleaned(Recovered(disk)) /\ retry' = Resumed(Cleaned(Recovered(disk)))
    <3>1. ASSUME mem'[k].status = "success", NEW i \in Images, mem'[k].data[i] = "pending"
          PROVE  i \in retry'[k]["resumed"].todo
      BY <2>2, <3>1 DEF Resumed, StartRetry, Pending, Origins, NoThread
    <3>. QED BY <3>1 DEF InHandAll, InHand, Left, Origins
  <2>. QED BY <1>8, <1>k, <2>1, <2>2 DEF Boot
<1>. QED BY <1>k, <1>1, <1>2, <1>3, <1>4, <1>5, <1>6, <1>7, <1>8, OwnStep

\* An image of a finished task that is still a link is being fetched, or about
\* to be, or its thread has ended without it, whatever writes fail and however
\* often the process ends and comes up again.
THEOREM PendingIsAlwaysRetried == Spec => []PendingIsRetried
<1>. DEFINE Inv == ThreadInv /\ \A k \in Tasks : InHandAll(k)
<1>1. Init => Inv
  <2>. SUFFICES ASSUME Init PROVE Inv
    OBVIOUS
  <2>1. \A k \in Tasks : InHandAll(k)
    BY DEF Init, InHandAll, Absent
  <2>. QED BY <2>1, InitThreads
<1>2. Inv /\ [Next]_vars => Inv'
  BY ThreadStep, PendingStep
<1>3. Inv => PendingIsRetried
  BY DEF PendingIsRetried, InHandAll, InHand, Left, Pending
<1>. QED BY <1>1, <1>2, <1>3, PTL DEF Spec

-----------------------------------------------------------------------------
(* The gallery                                                               *)

\* A task as the process knows it, or will find it in the store.
Task(k) == IF up THEN mem[k] ELSE disk[k]

\* As long as no write failed: until the outcome of a run is told the gallery is
\* loading; what it shows of a task that has ended is the outcome, or nothing
\* yet; and before the first crash somebody is about to tell it.
Told(k) ==
  faults = 0 =>
    /\ worker[k] \in {"gateway", "fail", "report"} => gallery[k] = "loading"
    /\ Terminal(Task(k)) /\ worker[k] # "report" => gallery[k] \in {"loading", Shown(Task(k))}
    /\ Terminal(Task(k)) /\ restarts = 0 /\ gallery[k] = "loading" /\ Shown(Task(k)) # "loading" =>
         WorkerLives(k) \/ \E o \in Origins : retry[k][o].pc = "link"

GalleryInv ==
  /\ ThreadInv
  /\ SeenIsSaved
  /\ \A k \in Linked : Told(k)

\* What a task shows depends on its status and on its first image only.
LEMMA ShownSame ==
  ASSUME NEW t, NEW u, t.status = u.status, t.data[0] = u.data[0]
  PROVE  Shown(t) = Shown(u) /\ (Terminal(t) <=> Terminal(u))
BY DEF Shown, Terminal

\* A worker tells the gallery what came of its task.
LEMMA WorkerTold ==
  ASSUME GalleryInv, NEW k \in Linked, WorkerStep(k), faults' = 0
  PROVE  Told(k)'
<1>in. k \in Tasks /\ 0 \in Images
  BY DEF Images
<1>k. /\ Threads(k) /\ Matches(mem[k], worker[k]) /\ mem[k] \in TaskType /\ TypeOK /\ WorkerInv
      /\ Told(k)
  BY <1>in DEF GalleryInv, ThreadInv, WorkerInv, TypeOK
<1>idle. worker[k] # "idle"
  BY DEF WorkerStep, StartRun, NotifyRunning, GatewayFails, GatewaySucceeds, Announce, Fail, Report
<1>up. up /\ up'
  <2>1. up
    BY <1>in, <1>idle, <1>k DEF WorkerInv, DownIsQuiet
  <2>. QED BY <2>1 DEF WorkerStep, StartRun, NotifyRunning, GatewayFails, GatewaySucceeds, Announce,
                       Fail, Report
<1>task. Task(k) = mem[k] /\ Task(k)' = mem'[k]
  BY <1>up DEF Task
<1>1. CASE StartRun(k)
  <2>1. mem'[k].status = "running" /\ worker'[k] \in {"notify", "dead"}
    <3>1. mem'[k] = [Touched(mem[k]) EXCEPT !.status = "running"] /\ worker'[k] \in {"notify", "dead"}
      BY <1>1, <1>in, <1>k, SaveOne, GoToAt DEF StartRun
    <3>. QED BY <3>1, <1>k DEF Touched, TaskType
  <2>. QED BY <2>1, <1>task DEF Told, Terminal
<1>2. CASE NotifyRunning(k)
  <2>1. gallery'[k] = "loading" /\ mem'[k] = mem[k] /\ mem[k].status = "running"
    BY <1>2, <1>in, <1>k, TellAt DEF NotifyRunning, Matches, StatusOf
  <2>. QED BY <2>1, <1>task DEF Told, Terminal
<1>3. CASE GatewayFails(k)
  <2>1. /\ gallery' = gallery /\ mem'[k] = mem[k] /\ mem[k].status = "running" /\ faults = 0
        /\ worker[k] = "gateway"
    BY <1>3, <1>in, <1>k DEF GatewayFails, Matches, StatusOf
  <2>. QED BY <2>1, <1>k, <1>task DEF Told, Terminal
<1>4. CASE GatewaySucceeds(k)
  <2>1. PICK d \in Answers : GatewaySucceeds(k)!(d)
    BY <1>4 DEF GatewaySucceeds
  <2>2. worker'[k] = "announce" /\ gallery' = gallery /\ worker[k] = "gateway" /\ faults = 0
    BY <2>1, <1>in, <1>k, SaveOne, FaultShows, GoToAt
  <2>. QED BY <2>2, <1>k DEF Told, WorkerLives
<1>5. CASE Announce(k)
  <2>1. /\ gallery'[k] = Outcome(result[k]) /\ worker'[k] = "idle" /\ mem'[k] = mem[k]
        /\ restarts' = restarts /\ faults = 0
    BY <1>5, <1>in, <1>k, TellAt, GoToAt DEF Announce
  <2>2. /\ mem[k].status = "success"
        /\ result[k][0] \in {"pending", "final"}
        /\ result[k][0] = "final" => mem[k].data[0] = "final"
        /\ restarts = 0 => mem[k].data = result[k]
    BY <1>5, <1>in, <1>k DEF Announce, Matches, StatusOf, Threads, Announced, Answers
  <2>. QED BY <2>1, <2>2, <1>task DEF Told, Outcome, Shown
<1>6. CASE Fail(k)
  <2>1. worker'[k] = "report" /\ gallery' = gallery /\ faults = 0
    BY <1>6, <1>in, <1>k, SaveOne, FaultShows, GoToAt DEF Fail
  <2>. QED BY <1>6, <2>1, <1>k DEF Fail, Told, WorkerLives
<1>7. CASE Report(k)
  <2>1. /\ gallery'[k] = "error" /\ mem'[k] = mem[k] /\ mem[k].status = "error"
        /\ worker'[k] = "idle"
    BY <1>7, <1>in, <1>k, TellAt, GoToAt DEF Report, Matches, StatusOf
  <2>. QED BY <2>1, <1>task DEF Told, Shown
<1>. QED BY <1>1, <1>2, <1>3, <1>4, <1>5, <1>6, <1>7 DEF WorkerStep

\* A retry thread tells it of the first image once that is stored.
LEMMA RetryTold ==
  ASSUME GalleryInv, NEW k \in Linked, NEW o \in Origins, RetryStep(k, o), faults' = 0
  PROVE  Told(k)'
<1>in. k \in Tasks /\ 0 \in Images
  BY DEF Images
<1>k. /\ Threads(k) /\ Matches(mem[k], worker[k]) /\ mem[k] \in TaskType /\ TypeOK /\ WorkerInv
      /\ Told(k) /\ RegularInv
  BY <1>in DEF GalleryInv, ThreadInv, WorkerInv, TypeOK
<1>up. up
  BY <1>in, <1>k DEF WorkerInv, DownIsQuiet, RetryStep, Scan, FetchFails, FetchSucceeds, LinkStored,
                     EndPass
<1>eff. /\ UNCHANGED <<up, worker, restarts>>
        /\ \A p \in Origins \ {o} : retry'[k][p] = retry[k][p]
        /\ Moved(k, o) \/ TellsGallery(k, o) \/ \E i \in Images : StoresImage(k, o, i)
  BY <1>in, <1>k, RetryEffect
<1>task. Task(k) = mem[k] /\ Task(k)' = mem'[k] /\ (WorkerLives(k)' <=> WorkerLives(k))
  BY <1>up, <1>eff DEF Task, WorkerLives
<1>1. CASE Moved(k, o)
  BY <1>1, <1>k, <1>eff, <1>task DEF Moved, Told
<1>2. CASE TellsGallery(k, o)
  <2>1. gallery'[k] = "success" /\ mem'[k] = mem[k] /\ faults = 0
    BY <1>2, <1>in, <1>k, TellAt DEF TellsGallery
  <2>2. mem[k].status = "success" /\ mem[k].data[0] = "final"
    BY <1>2, <2>1, <1>k DEF TellsGallery, Threads, Linking
  <2>3. worker[k] \notin {"gateway", "fail", "report"}
    BY <2>1, <2>2, <1>k DEF Matches, StatusOf, Threads, Unharmed
  <2>. QED BY <2>1, <2>2, <2>3, <1>eff, <1>task DEF Told, Shown
<1>3. ASSUME NEW i \in Images, StoresImage(k, o, i) PROVE Told(k)'
  <2>0. faults = 0 /\ gallery' = gallery /\ retry[k][o].pc = "fetch"
    BY <1>3 DEF StoresImage
  <2>1. mem[k].status = "success"
    BY <1>3, <1>in, <1>k DEF StoresImage, RegularInv, Regular, NoData
  <2>2. /\ mem'[k].status = "success"
        /\ mem'[k].data[0] = IF i = 0 THEN "final" ELSE mem[k].data[0]
    BY <1>3, <2>1, <1>in, <1>k DEF StoresImage, Touched, TaskType
  <2>3. CASE i = 0
    <3>1. retry'[k][o].pc = "link"
      BY <1>3, <2>3 DEF StoresImage
    <3>2. gallery[k] \in {"loading", "success"} \/ worker[k] = "report"
      BY <1>k, <1>task, <2>0, <2>1 DEF Told, Shown, Terminal
    <3>. QED BY <2>0, <2>2, <2>3, <3>1, <3>2, <1>k, <1>eff, <1>task DEF Told, Shown
  <2>4. CASE i # 0
    <3>1. Shown(mem'[k]) = Shown(mem[k]) /\ Terminal(mem[k])
      BY <2>1, <2>2, <2>4 DEF Shown, Terminal
    <3>2. ASSUME NEW p \in Origins, retry[k][p].pc = "link" PROVE retry'[k][p].pc = "link"
      BY <2>0, <3>2, <1>eff
    <3>. QED BY <2>0, <3>1, <3>2, <1>k, <1>eff, <1>task DEF Told
  <2>. QED BY <2>3, <2>4
<1>. QED BY <1>eff, <1>1, <1>2, <1>3

\* A restart tells it of the interrupted tasks.
LEMMA BootTold ==
  ASSUME GalleryInv, NEW k \in Linked, Boot, faults' = 0
  PROVE  Told(k)'
<1>k. /\ k \in Tasks /\ TypeOK /\ WorkerInv /\ Told(k) /\ disk[k] \in TaskType /\ disk \in TaskMap
  BY DEF GalleryInv, ThreadInv, WorkerInv, TypeOK, TaskMap
<1>down. /\ ~up /\ worker[k] = "idle" /\ worker' = worker /\ restarts > 0 /\ restarts' = restarts
  BY <1>k DEF Boot, GalleryInv, ThreadInv, WorkerInv, DownIsQuiet
<1>boot. /\ faults = 0 /\ up' /\ mem' = Cleaned(Recovered(disk))
         /\ BootTells({j \in Linked : Unfinished(disk[j])}, {})
  <2>. DEFINE I == {j \in Linked : Unfinished(disk[j])}
  <2>1. PICK lost \in SUBSET I, fails \in BOOLEAN :
          /\ BootTells(I, lost)
          /\ faults' = faults + (IF lost # {} THEN 1 ELSE 0) + (IF fails THEN 1 ELSE 0)
          /\ ~fails => up' /\ mem' = Cleaned(Recovered(disk))
    BY DEF Boot
  <2>2. faults = 0 /\ lost = {} /\ ~fails
    BY <2>1, <1>k DEF TypeOK
  <2>. QED BY <2>1, <2>2
<1>task. Task(k) = disk[k] /\ Task(k)' = mem'[k]
  BY <1>down, <1>boot DEF Task
<1>1. CASE Unfinished(disk[k])
  <2>1. gallery'[k] = "error"
    BY <1>1, <1>boot, <1>k DEF BootTells
  <2>2. /\ Recovered(disk)[k] = [Touched(disk[k]) EXCEPT !.status = "error"]
        /\ Recovered(disk)[k].age = "fresh" /\ Recovered(disk)[k].status = "error"
    BY <1>1, <1>k DEF Recovered, Touched, TaskType
  <2>3. mem'[k].status = "error"
    BY <2>2, <1>boot, <1>k, CleanedSame
  <2>. QED BY <2>1, <2>3, <1>task, <1>down DEF Told, Shown
<1>2. CASE ~Unfinished(disk[k])
  <2>1. gallery'[k] = gallery[k]
    BY <1>2, <1>boot, <1>k DEF BootTells
  <2>2. Terminal(mem'[k]) => mem'[k] = disk[k]
    BY <1>2, <1>boot, <1>k DEF Cleaned, Recovered, Absent, Terminal
  <2>. QED BY <2>1, <2>2, <1>k, <1>task, <1>boot, <1>down DEF Told
<1>. QED BY <1>1, <1>2

\* Every step keeps the gallery's invariant.
LEMMA GalleryStep ==
  ASSUME GalleryInv, [Next]_vars
  PROVE  GalleryInv'
<1>inv. ThreadInv' /\ SeenIsSaved' /\ WorkerInv /\ TypeOK /\ TypeOK'
  BY ThreadStep, SavedStep, TypeStep DEF GalleryInv, ThreadInv, WorkerInv
<1>1. ASSUME NEW k \in Linked, faults' = 0 PROVE Told(k)'
  <2>k. /\ k \in Tasks /\ mem[k] \in TaskType /\ disk[k] \in TaskType /\ worker[k] \in WorkerStates
        /\ Told(k) /\ Threads(k) /\ Matches(mem[k], worker[k]) /\ SeenIsSaved
    BY <1>inv DEF GalleryInv, ThreadInv, WorkerInv, TypeOK
  <2>same. ASSUME UNCHANGED <<worker, retry, gallery, restarts, faults>>,
                  Terminal(Task(k)') => Task(k)'.status = Task(k).status /\ Task(k)'.data = Task(k).data
           PROVE  Told(k)'
    <3>1. Terminal(Task(k)') => Terminal(Task(k)) /\ Shown(Task(k)') = Shown(Task(k))
      BY <2>same DEF Terminal, Shown
    <3>. QED BY <2>same, <2>k, <3>1 DEF Told, WorkerLives
  <2>1. CASE Still(k)
    <3>1. Terminal(Task(k)') => Task(k)' = Task(k)
      BY <2>1 DEF Still, Task, Cleaned, Absent, Terminal
    <3>2. /\ worker'[k] = worker[k] /\ retry'[k] = retry[k] /\ gallery'[k] = gallery[k]
          /\ restarts' = restarts /\ faults = 0
      BY <1>1, <2>1 DEF Still
    <3>. QED BY <2>k, <3>1, <3>2 DEF Told, WorkerLives
  <2>2. CASE Accepted(k)
    BY <2>2 DEF Accepted, Told, Task, Terminal, Absent
  <2>3. CASE SetImageFeedback(k)
    <3>1. mem'[k] = Touched(mem[k]) /\ faults = 0
      BY <1>1, <1>inv, <2>3, <2>k, SaveOne DEF SetImageFeedback
    <3>2. mem'[k].status = mem[k].status /\ mem'[k].data = mem[k].data
      BY <3>1, <2>k DEF Touched, TaskType
    <3>. QED BY <1>1, <2>3, <2>same, <3>1, <3>2 DEF SetImageFeedback, Task
  <2>4. CASE WorkerStep(k)
    BY <1>1, <2>4, WorkerTold
  <2>5. CASE Age(k)
    <3>1. PICK b \in BOOLEAN : mem'[k] = Older(mem[k], b) /\ disk'[k] = Older(disk[k], b)
      BY <2>5, <2>k, <1>inv, (WorkerLives(k) \/ RetryLives(k)) \in BOOLEAN DEF Age, TypeOK
    <3>2. Task(k)'.status = Task(k).status /\ Task(k)'.data = Task(k).data
      BY <2>5, <2>k, <3>1, OlderFields DEF Age, Task
    <3>. QED BY <2>5, <2>same, <3>2 DEF Age
  <2>6. ASSUME NEW o \in Origins, RetryStep(k, o) PROVE Told(k)'
    BY <1>1, <2>6, RetryTold
  <2>7. CASE Crash
    <3>1. /\ worker'[k] = "idle" /\ restarts' # 0 /\ gallery' = gallery /\ faults = 0
      BY <1>1, <1>inv, <2>7, <2>k DEF Crash, TypeOK
    <3>2. Task(k)' = Task(k) /\ Task(k) = mem[k]
      BY <2>7, <2>k, <3>1 DEF Crash, Task, SeenIsSaved
    <3>3. worker[k] = "report" => gallery[k] = "loading"
      BY <2>k, <3>1 DEF Told
    <3>. QED BY <2>k, <3>1, <3>2, <3>3 DEF Told
  <2>8. CASE Boot
    BY <1>1, <2>8, BootTold
  <2>. QED BY <1>inv, <2>k, <2>1, <2>2, <2>3, <2>4, <2>5, <2>6, <2>7, <2>8, OwnStep
<1>2. ASSUME NEW k \in Linked PROVE Told(k)'
  BY <1>1 DEF Told
<1>. QED BY <1>inv, <1>2 DEF GalleryInv

\* The gallery's invariant holds in every reachable state.
LEMMA GalleryInvariant == Spec => []GalleryInv
<1>1. Init => GalleryInv
  <2>. SUFFICES ASSUME Init PROVE GalleryInv
    OBVIOUS
  <2>1. \A k \in Linked : Told(k)
    BY DEF Init, Told, Task, Absent, Terminal
  <2>. QED BY <2>1, InitThreads DEF Init, GalleryInv, SeenIsSaved
<1>. QED BY <1>1, GalleryStep, PTL DEF Spec

\* As long as no write failed the gallery agrees with every task whose threads
\* have ended; after a crash it may still be loading, but never shows anything
\* else than the outcome.
THEOREM GalleryAlwaysAgrees == Spec => []GalleryAgrees
<1>1. GalleryInv => GalleryAgrees
  <2>. SUFFICES ASSUME GalleryInv, up, faults = 0, NEW k \in Linked,
                       Terminal(mem[k]), ~WorkerLives(k), ~RetryLives(k)
                PROVE  gallery[k] = Shown(mem[k]) \/ (restarts > 0 /\ gallery[k] = "loading")
    BY DEF GalleryAgrees
  <2>1. worker[k] # "report" /\ \A o \in Origins : retry[k][o].pc # "link"
    BY DEF WorkerLives, RetryLives
  <2>2. restarts \in Nat
    BY DEF GalleryInv, ThreadInv, WorkerInv, TypeOK
  <2>. QED BY <2>1, <2>2 DEF GalleryInv, Told, Task
<1>. QED BY <1>1, GalleryInvariant, PTL

\* The gallery turns to success only for a task whose first image is in the
\* store, as long as no write failed: a restart takes back nothing it shows.
THEOREM GalleryShowsOnlySaved == Spec => GalleryShowsSaved
<1>1. GalleryInv /\ [Next]_vars =>
        [faults = 0 => \A k \in Tasks : gallery[k] # "success" /\ gallery'[k] = "success" =>
           disk[k].status = "success" /\ disk[k].data[0] = "final"]_vars
  <2>. SUFFICES ASSUME GalleryInv, [Next]_vars, faults = 0, NEW k \in Tasks,
                       gallery[k] # "success", gallery'[k] = "success"
                PROVE  disk[k].status = "success" /\ disk[k].data[0] = "final"
    OBVIOUS
  <2>k. /\ TypeOK /\ WorkerInv /\ Threads(k) /\ Matches(mem[k], worker[k]) /\ SeenIsSaved
        /\ 0 \in Images
    BY DEF GalleryInv, ThreadInv, WorkerInv, Images
  <2>up. ASSUME worker[k] # "idle" \/ \E o \in Origins : retry[k][o].pc # "idle"
         PROVE  up /\ mem = disk
    BY <2>up, <2>k DEF WorkerInv, DownIsQuiet, SeenIsSaved
  <2>1. CASE WorkerStep(k)
    <3>1. CASE Announce(k)
      <4>1. gallery'[k] = Outcome(result[k])
        BY <3>1, <2>k, TellAt DEF Announce
      <4>2. result[k][0] = "final"
        BY <3>1, <4>1, <2>k DEF Announce, Outcome, Threads, Announced, Answers
      <4>. QED BY <3>1, <4>2, <2>k, <2>up DEF Announce, Threads, Announced, Matches, StatusOf
    <3>2. CASE NotifyRunning(k) \/ Report(k)
      BY <3>2, <2>k, TellAt DEF NotifyRunning, Report
    <3>. QED BY <2>1, <3>1, <3>2 DEF WorkerStep, StartRun, GatewayFails, GatewaySucceeds, Fail
  <2>2. ASSUME NEW o \in Origins, RetryStep(k, o)
        PROVE  disk[k].status = "success" /\ disk[k].data[0] = "final"
    <3>1. retry[k][o].pc = "link"
      BY <2>2, <2>k, RetryEffect DEF Moved, StoresImage, TellsGallery
    <3>. QED BY <3>1, <2>k, <2>up DEF Threads, Linking
  <2>3. CASE Boot
    BY <2>3 DEF Boot, BootTells
  <2>4. CASE UNCHANGED gallery
    BY <2>4
  <2>. QED BY <2>k, <2>1, <2>2, <2>3, <2>4, OwnStep
       DEF Still, Accepted, SetImageFeedback, Age, Crash
<1>. QED BY <1>1, GalleryInvariant, PTL DEF Spec, GalleryShowsSaved

\* An outcome in the store is kept until it expires, as long as no write failed:
\* no step, and no crash, turns a success into an error or a stored image back
\* into a link.
THEOREM OutcomeIsAlwaysKept == Spec => OutcomeIsKept
<1>1. GalleryInv /\ [Next]_vars =>
        [faults' = 0 => \A k \in Tasks : Terminal(disk[k]) /\ disk[k].age # "expired" =>
           /\ disk'[k].status = disk[k].status
           /\ \A i \in Images : disk[k].data[i] = "final" => disk'[k].data[i] = "final"]_vars
  <2>. SUFFICES ASSUME GalleryInv, [Next]_vars, faults' = 0, NEW k \in Tasks,
                       Terminal(disk[k]), disk[k].age # "expired"
                PROVE  /\ disk'[k].status = disk[k].status
                       /\ \A i \in Images : disk[k].data[i] = "final" => disk'[k].data[i] = "final"
    OBVIOUS
  <2>. DEFINE Kept == /\ disk'[k].status = disk[k].status
                      /\ \A i \in Images : disk[k].data[i] = "final" => disk'[k].data[i] = "final"
  <2>k. /\ TypeOK /\ WorkerInv /\ Threads(k) /\ Matches(mem[k], worker[k]) /\ SeenIsSaved /\ SeenIsSaved'
        /\ mem[k] \in TaskType /\ disk[k] \in TaskType /\ disk \in TaskMap
    BY SavedStep DEF GalleryInv, ThreadInv, WorkerInv, TypeOK, TaskMap
  <2>keep. Cleaned(disk)[k] = disk[k] /\ Recovered(disk)[k] = disk[k] /\ Cleaned(Recovered(disk))[k] = disk[k]
    BY DEF Cleaned, Recovered, Expired, Unfinished, Terminal
  <2>up. ASSUME up, up', faults = 0, mem'[k] = mem[k] PROVE Kept
    BY <2>up, <2>k DEF SeenIsSaved
  <2>1. CASE Still(k)
    <3>1. CASE ~up
      BY <2>1, <3>1 DEF Still
    <3>2. CASE up
      <4>1. mem = disk /\ mem' = disk'
        BY <2>1, <3>2, <2>k DEF Still, SeenIsSaved
      <4>. QED BY <2>1, <4>1, <2>keep DEF Still
    <3>. QED BY <3>1, <3>2
  <2>2. CASE Accepted(k)
    <3>1. mem = disk
      BY <2>2, <2>k DEF Accepted, SeenIsSaved
    <3>. QED BY <2>2, <3>1, <2>keep DEF Accepted, Known, Terminal
  <2>3. CASE SetImageFeedback(k)
    <3>1. mem'[k] = Touched(mem[k]) /\ faults = 0 /\ disk' = mem'
      BY <2>3, <2>k, SaveOne DEF SetImageFeedback
    <3>2. mem = disk
      BY <2>3, <3>1, <2>k DEF SetImageFeedback, SeenIsSaved
    <3>3. mem'[k].status = mem[k].status /\ mem'[k].data = mem[k].data
      BY <3>1, <2>k DEF Touched, TaskType
    <3>. QED BY <3>1, <3>2, <3>3
  <2>4. CASE WorkerStep(k)
    <3>up. up /\ up' /\ worker[k] \in WorkerStates
      <4>1. worker[k] # "idle"
        BY <2>4 DEF WorkerStep, StartRun, NotifyRunning, GatewayFails, GatewaySucceeds, Announce, Fail,
                    Report
      <4>2. up /\ worker[k] \in WorkerStates
        BY <4>1, <2>k DEF WorkerInv, DownIsQuiet, TypeOK
      <4>. QED BY <4>2, <2>4 DEF WorkerStep, StartRun, NotifyRunning, GatewayFails, GatewaySucceeds,
                                 Announce, Fail, Report
    <3>calm. faults = 0
      <4>1. CASE StartRun(k) \/ Fail(k)
        BY <4>1, <2>k, SaveOne DEF StartRun, Fail
      <4>2. CASE GatewaySucceeds(k)
        BY <4>2, <2>k, SaveOne DEF GatewaySucceeds
      <4>3. CASE NotifyRunning(k) \/ GatewayFails(k) \/ Announce(k) \/ Report(k)
        BY <4>3, <2>k, TellAt DEF NotifyRunning, GatewayFails, Announce, Report
      <4>. QED BY <2>4, <4>1, <4>2, <4>3 DEF WorkerStep
    <3>task. mem[k] = disk[k] /\ Terminal(mem[k])
      BY <3>up, <3>calm, <2>k DEF SeenIsSaved
    <3>1. ~StartRun(k) /\ ~GatewaySucceeds(k) /\ ~Fail(k)
      BY <3>task, <3>calm, <2>k DEF StartRun, GatewaySucceeds, Fail, Matches, StatusOf, Terminal,
                                    Threads, Unharmed
    <3>2. mem'[k] = mem[k]
      BY <2>4, <3>1 DEF WorkerStep, NotifyRunning, GatewayFails, Announce, Report
    <3>. QED BY <3>up, <3>calm, <3>2, <2>up
  <2>5. CASE Age(k)
    <3>1. PICK b \in BOOLEAN : disk'[k] = Older(disk[k], b)
      BY <2>5, <2>k, (WorkerLives(k) \/ RetryLives(k)) \in BOOLEAN DEF Age, TypeOK
    <3>. QED BY <3>1, <2>k, OlderFields
  <2>6. ASSUME NEW o \in Origins, RetryStep(k, o) PROVE Kept
    <3>up. up /\ up'
      BY <2>6, <2>k DEF WorkerInv, DownIsQuiet, RetryStep, Scan, FetchFails, FetchSucceeds,
                        LinkStored, EndPass
    <3>1. CASE Moved(k, o) \/ TellsGallery(k, o)
      BY <3>1, <3>up, <2>up, <2>k, TellAt DEF Moved, TellsGallery
    <3>2. ASSUME NEW i \in Images, StoresImage(k, o, i) PROVE Kept
      <4>1. mem = disk /\ disk' = mem'
        BY <3>2, <3>up, <2>k DEF StoresImage, SeenIsSaved
      <4>2. mem'[k].status = mem[k].status /\ mem'[k].data = [mem[k].data EXCEPT ![i] = "final"]
        BY <3>2, <2>k DEF StoresImage, Touched, TaskType
      <4>. QED BY <4>1, <4>2, <2>k DEF TaskType
    <3>. QED BY <2>6, <3>1, <3>2, <2>k, RetryEffect
  <2>7. CASE Crash
    BY <2>7 DEF Crash
  <2>8. CASE Boot
    BY <2>8, <2>keep DEF Boot
  <2>. QED BY <2>k, <2>1, <2>2, <2>3, <2>4, <2>5, <2>6, <2>7, <2>8, OwnStep
<1>. QED BY <1>1, GalleryInvariant, PTL DEF Spec, OutcomeIsKept

=============================================================================
