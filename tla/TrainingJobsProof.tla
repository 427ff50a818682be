-------------------------- MODULE TrainingJobsProof --------------------------
(***************************************************************************)
(* Proofs about TrainingJobs for every set of HTTP calls.                  *)
(***************************************************************************)
EXTENDS TrainingJobs, TLAPS

(* Type correctness. *)

LEMMA StatusNames ==
  /\ "pending" \in Statuses /\ "running" \in Statuses /\ "success" \in Statuses
  /\ "failed" \in Statuses /\ "canceled" \in Statuses
  /\ "none" \in Unreadable /\ "torn" \in Unreadable
  /\ "none" \notin Statuses /\ "torn" \notin Statuses
  BY DEF Statuses, Ended, Unreadable

LEMMA ThreadNames ==
  /\ "create" \in Threads /\ "worker" \in Threads /\ "get" \in Threads
  /\ "cancel" \in Threads /\ "deleteJob" \in Threads /\ "deleteDataset" \in Threads
  BY DEF Threads

LEMMA GetJobType ==
  ASSUME TypeOK, NEW t \in Threads, NEW from, NEW found, NEW lost,
         GetJob(t, from, found, lost)
  PROVE  TypeOK'
  BY StatusNames DEF GetJob, TypeOK, At, Goto, Held, files, process

LEMMA WriteJobType ==
  ASSUME TypeOK, NEW t \in Threads, NEW status \in Statuses, NEW place,
         WriteJob(t, status, place)
  PROVE  /\ DOMAIN at' = Threads
         /\ io' \in [Threads -> {"idle", "sync", "truncate", "write"}]
         /\ copy' \in [Threads -> Statuses \cup {"none"}]
  BY DEF WriteJob, TypeOK, Goto

LEMMA CallType == ASSUME TypeOK, Call PROVE TypeOK'
<1> USE StatusNames, ThreadNames DEF files, process, Goto
<1>1. CASE CreateJob
  <2>1. CASE dataset
    BY <1>1, <2>1, WriteJobType DEF CreateJob, TypeOK
  <2> QED BY <1>1, <2>1 DEF CreateJob, TypeOK
<1>2. CASE Acquire \/ MarkAndStart
  BY <1>2 DEF Acquire, MarkAndStart, TypeOK
<1>3. CASE GetJob("create", "answer", "over", "over")
  BY <1>3, GetJobType
<1>4. CASE GetJob("get", "call", "over", "over")
  BY <1>4, GetJobType
<1>5. CASE GetJob("cancel", "call", "judge", "over")
  BY <1>5, GetJobType
<1>6. CASE CancelJob
  <2>1. CASE copy["cancel"] \in Ended
    BY <1>6, <2>1 DEF CancelJob, TypeOK
  <2>2. CASE copy["cancel"] \notin Ended
    BY <1>6, <2>2, WriteJobType DEF CancelJob, TypeOK
  <2> QED BY <2>1, <2>2
<1>7. CASE GetJob("cancel", "log", "over", "over")
  BY <1>7, GetJobType
<1>8. CASE GetJob("deleteJob", "call", "judge", "over")
  BY <1>8, GetJobType
<1>9. CASE DeleteJob \/ Unmark \/ RemoveJob
  BY <1>9 DEF DeleteJob, Unmark, RemoveJob, TypeOK
<1>10. CASE CheckReferences \/ RemoveDataset
  BY <1>10 DEF CheckReferences, RemoveDataset, TypeOK
<1> QED BY <1>1, <1>2, <1>3, <1>4, <1>5, <1>6, <1>7, <1>8, <1>9, <1>10 DEF Call

LEMMA WorkerType == ASSUME TypeOK, Worker PROVE TypeOK'
<1> USE StatusNames, ThreadNames DEF files, process, Goto
<1>1. CASE GetJob("worker", "start", "begin", "fail")
  BY <1>1, GetJobType
<1>2. CASE GetJob("worker", "finish", "finishlog", "fail")
  BY <1>2, GetJobType
<1>3. CASE GetJob("worker", "finishlog", "finished", "finished")
  BY <1>3, GetJobType
<1>4. CASE GetJob("worker", "fail", "failing", "release")
  BY <1>4, GetJobType
<1>5. CASE GetJob("worker", "faillog", "release", "release")
  BY <1>5, GetJobType
<1>6. CASE Begin
  BY <1>6, WriteJobType DEF Begin, TypeOK
<1>7. CASE Spawn
  BY <1>7 DEF Spawn, TypeOK
<1>8. CASE Register
  BY <1>8 DEF Register, TypeOK
<1>9. CASE OutputLine
  BY <1>9 DEF OutputLine, TypeOK, Unreadable
<1>10. CASE OutputEnds
  BY <1>10 DEF OutputEnds, TypeOK
<1>11. CASE Finish
  BY <1>11, WriteJobType DEF Finish, TypeOK
<1>12. CASE MarkFailed
  BY <1>12, WriteJobType DEF MarkFailed, TypeOK
<1>13. CASE Forget \/ Release
  BY <1>13 DEF Forget, Release, TypeOK
<1> QED BY <1>1, <1>2, <1>3, <1>4, <1>5, <1>6, <1>7, <1>8, <1>9, <1>10, <1>11, <1>12,
           <1>13 DEF Worker

LEMMA RecordType == ASSUME TypeOK, NEW t \in Threads, RecordIO(t) PROVE TypeOK'
<1> USE StatusNames DEF files, process, Held
<1>1. CASE Sync(t)
  BY <1>1 DEF Sync, Synced, TypeOK
<1>2. CASE Truncate(t)
  BY <1>2 DEF Truncate, TypeOK
<1>3. CASE Put(t)
  <2>1. copy[t] \in Statuses \cup {"none"}
    BY DEF TypeOK
  <2>2. rec' \in Statuses \cup Unreadable
    BY <1>3, <2>1 DEF Put
  <2> QED BY <1>3, <2>2 DEF Put, TypeOK
<1> QED BY <1>1, <1>2, <1>3 DEF RecordIO

LEMMA ChildType == ASSUME TypeOK, Child PROVE TypeOK'
  BY DEF Child, ChildStarts, StageStarts, StageEnds, ChildSucceeds, ChildExits,
         Terminated, TypeOK, files

LEMMA StepType == ASSUME TypeOK, [Next]_vars PROVE TypeOK'
<1>1. CASE UNCHANGED vars
  BY <1>1 DEF vars, TypeOK
<1> QED BY <1>1, CallType, WorkerType, RecordType, ChildType DEF Next

LEMMA InitType == Init => TypeOK
  BY StatusNames, ThreadNames DEF Init, TypeOK

(* The record, the marker, the process and the threads have the expected   *)
(* types in every reachable state.                                         *)
THEOREM TypeInvariant == Spec => []TypeOK
<1>1. TypeOK /\ [Next]_vars => TypeOK'
  BY StepType
<1> QED BY <1>1, InitType, PTL DEF Spec

(***************************************************************************)
(* Only the pipeline declares success: no thread holds a job that shows it *)
(* before, and the pipeline's file is empty until the one child runs.      *)
(***************************************************************************)
Declared == pipe = "success" \/ JobDeleted

Order ==
  /\ at["create"] \in {"create", "acquire", "mark"} => at["worker"] = "off"
  /\ at["worker"] \in {"off", "start", "begin", "spawn"} => child = "none"
  /\ child \in {"none", "starting"} => pipe = "none" /\ ~trainer

Honest == rec = "success" \/ (\E t \in Threads : copy[t] = "success") => Declared

SuccessInv == TypeOK /\ Order /\ Honest

LEMMA GetJobHonest ==
  ASSUME SuccessInv, NEW t \in Threads, NEW from, NEW found, NEW lost,
         GetJob(t, from, found, lost), t = "deleteJob" => from = "call"
  PROVE  Honest'
<1> USE ThreadNames DEF SuccessInv, TypeOK, GetJob, At, Goto, Held, files, process
<1>1. rec' = rec /\ pipe' = pipe
  OBVIOUS
<1>2. JobDeleted => JobDeleted'
  BY DEF JobDeleted
<1>3. \A u \in Threads : copy'[u] \in {copy[u], rec, "none"}
  OBVIOUS
<1> QED BY <1>1, <1>2, <1>3 DEF Honest, Declared

LEMMA WriteJobHonest ==
  ASSUME SuccessInv, NEW t \in Threads, NEW status, NEW place,
         WriteJob(t, status, place), UNCHANGED <<rec, pipe>>, t # "deleteJob",
         status = "success" => Declared
  PROVE  Honest'
<1> USE ThreadNames DEF SuccessInv, TypeOK, WriteJob, Goto
<1>1. JobDeleted' = JobDeleted
  BY DEF JobDeleted
<1>2. \A u \in Threads : copy'[u] \in {copy[u], status}
  OBVIOUS
<1> QED BY <1>1, <1>2 DEF Honest, Declared

LEMMA CallHonest == ASSUME SuccessInv, Call PROVE Honest'
<1> USE ThreadNames
<1>1. CASE CreateJob
  <2>1. CASE dataset
    BY <1>1, <2>1, WriteJobHonest DEF CreateJob, files, process
  <2> QED BY <1>1, <2>1 DEF CreateJob, SuccessInv, TypeOK, Honest, Declared, JobDeleted,
                           Goto, files, process
<1>2. CASE Acquire \/ MarkAndStart
  BY <1>2 DEF Acquire, MarkAndStart, SuccessInv, TypeOK, Honest, Declared, JobDeleted,
              Goto, files, process
<1>3. CASE GetJob("create", "answer", "over", "over")
  BY <1>3, GetJobHonest
<1>4. CASE GetJob("get", "call", "over", "over")
  BY <1>4, GetJobHonest
<1>5. CASE GetJob("cancel", "call", "judge", "over")
  BY <1>5, GetJobHonest
<1>6. CASE CancelJob
  <2>1. CASE copy["cancel"] \in Ended
    BY <1>6, <2>1 DEF CancelJob, SuccessInv, TypeOK, Honest, Declared, JobDeleted, Goto, files
  <2>2. CASE copy["cancel"] \notin Ended
    BY <1>6, <2>2, WriteJobHonest DEF CancelJob, files
  <2> QED BY <2>1, <2>2
<1>7. CASE GetJob("cancel", "log", "over", "over")
  BY <1>7, GetJobHonest
<1>8. CASE GetJob("deleteJob", "call", "judge", "over")
  BY <1>8, GetJobHonest
<1>9. CASE DeleteJob \/ Unmark \/ RemoveJob
  BY <1>9 DEF DeleteJob, Unmark, RemoveJob, At, SuccessInv, TypeOK, Honest, Declared,
              JobDeleted, Goto, files, process
<1>10. CASE CheckReferences \/ RemoveDataset
  BY <1>10 DEF CheckReferences, RemoveDataset, SuccessInv, TypeOK, Honest, Declared,
               JobDeleted, Goto, process
<1> QED BY <1>1, <1>2, <1>3, <1>4, <1>5, <1>6, <1>7, <1>8, <1>9, <1>10 DEF Call

LEMMA WorkerHonest == ASSUME SuccessInv, Worker PROVE Honest'
<1> USE ThreadNames
<1>1. CASE GetJob("worker", "start", "begin", "fail")
  BY <1>1, GetJobHonest
<1>2. CASE GetJob("worker", "finish", "finishlog", "fail")
  BY <1>2, GetJobHonest
<1>3. CASE GetJob("worker", "finishlog", "finished", "finished")
  BY <1>3, GetJobHonest
<1>4. CASE GetJob("worker", "fail", "failing", "release")
  BY <1>4, GetJobHonest
<1>5. CASE GetJob("worker", "faillog", "release", "release")
  BY <1>5, GetJobHonest
<1>6. CASE Begin \/ MarkFailed
  BY <1>6, WriteJobHonest DEF Begin, MarkFailed, files, process
<1>7. CASE Finish
  BY <1>7, WriteJobHonest DEF Finish, files, Declared
<1>8. CASE OutputLine
  <2>1. \A u \in Threads : copy'[u] \in {copy[u], rec}
    BY <1>8 DEF OutputLine, SuccessInv, TypeOK
  <2> QED BY <1>8, <2>1 DEF OutputLine, SuccessInv, Honest, Declared, JobDeleted, files,
                           process
<1>9. CASE Spawn \/ Register \/ OutputEnds
  BY <1>9 DEF Spawn, Register, OutputEnds, SuccessInv, TypeOK, Honest, Declared,
              JobDeleted, Goto, files, process
<1>10. CASE Forget \/ Release
  BY <1>10 DEF Forget, Release, SuccessInv, TypeOK, Honest, Declared, JobDeleted, Goto,
               files, process
<1> QED BY <1>1, <1>2, <1>3, <1>4, <1>5, <1>6, <1>7, <1>8, <1>9, <1>10 DEF Worker

LEMMA RecordHonest == ASSUME SuccessInv, NEW t \in Threads, RecordIO(t) PROVE Honest'
<1>1. UNCHANGED <<pipe, at>>
  BY DEF RecordIO, Sync, Truncate, Put, process
<1>2. Declared' = Declared
  BY <1>1 DEF Declared, JobDeleted
<1>3. CASE Sync(t)
  <2>1. Synced(copy[t]) = "success" => copy[t] = "success" \/ pipe = "success"
    BY DEF Synced
  <2>2. \A u \in Threads : copy'[u] \in {copy[u], Synced(copy[t]), "none"}
    BY <1>3 DEF Sync, Held, SuccessInv, TypeOK
  <2> QED BY <1>2, <1>3, <2>1, <2>2 DEF Sync, SuccessInv, Honest, Declared, files
<1>4. CASE Truncate(t)
  BY <1>2, <1>4 DEF Truncate, SuccessInv, Honest
<1>5. CASE Put(t)
  <2>1. \A u \in Threads : copy'[u] \in {copy[u], copy[t], "none"}
    BY <1>5 DEF Put, Held, SuccessInv, TypeOK
  <2>2. rec' \in {copy[t], "none", "torn"}
    BY <1>5 DEF Put
  <2> QED BY <1>2, <2>1, <2>2 DEF SuccessInv, Honest
<1> QED BY <1>3, <1>4, <1>5 DEF RecordIO

LEMMA ChildHonest == ASSUME SuccessInv, Child PROVE Honest'
<1> USE DEF SuccessInv, Honest, Declared, JobDeleted, files
<1>1. CASE ChildStarts
  BY <1>1 DEF ChildStarts, Order
<1>2. CASE ChildSucceeds \/ ChildExits \/ Terminated
  BY <1>2 DEF ChildSucceeds, ChildExits, Terminated
<1>3. CASE StageStarts \/ StageEnds
  BY <1>3 DEF StageStarts, StageEnds
<1> QED BY <1>1, <1>2, <1>3 DEF Child

LEMMA CallOrdered == ASSUME TypeOK, Order, Call PROVE Order'
<1> USE ThreadNames DEF TypeOK, Order, At, Goto, GetJob, WriteJob, files, process
<1>1. CASE CreateJob
  BY <1>1 DEF CreateJob
<1>2. CASE Acquire \/ MarkAndStart
  BY <1>2 DEF Acquire, MarkAndStart
<1>3. CASE GetJob("create", "answer", "over", "over")
  BY <1>3
<1>4. CASE \/ GetJob("get", "call", "over", "over")
           \/ GetJob("cancel", "call", "judge", "over")
           \/ GetJob("cancel", "log", "over", "over")
           \/ GetJob("deleteJob", "call", "judge", "over")
  BY <1>4
<1>5. CASE CancelJob
  BY <1>5 DEF CancelJob
<1>6. CASE DeleteJob \/ Unmark \/ RemoveJob
  BY <1>6 DEF DeleteJob, Unmark, RemoveJob
<1>7. CASE CheckReferences \/ RemoveDataset
  BY <1>7 DEF CheckReferences, RemoveDataset
<1> QED BY <1>1, <1>2, <1>3, <1>4, <1>5, <1>6, <1>7 DEF Call

LEMMA WorkerOrdered == ASSUME TypeOK, Order, Worker PROVE Order'
<1> USE ThreadNames DEF TypeOK, Order, At, Goto, GetJob, WriteJob, files, process
<1>1. CASE \/ GetJob("worker", "start", "begin", "fail")
           \/ GetJob("worker", "finish", "finishlog", "fail")
           \/ GetJob("worker", "finishlog", "finished", "finished")
  BY <1>1
<1>2. CASE \/ GetJob("worker", "fail", "failing", "release")
           \/ GetJob("worker", "faillog", "release", "release")
  BY <1>2
<1>3. CASE Begin \/ MarkFailed \/ Finish
  BY <1>3 DEF Begin, MarkFailed, Finish
<1>4. CASE Spawn
  BY <1>4 DEF Spawn
<1>5. CASE Register \/ OutputLine \/ OutputEnds
  BY <1>5 DEF Register, OutputLine, OutputEnds
<1>6. CASE Forget \/ Release
  BY <1>6 DEF Forget, Release
<1> QED BY <1>1, <1>2, <1>3, <1>4, <1>5, <1>6 DEF Worker

LEMMA OtherOrdered ==
  ASSUME Order, Child \/ UNCHANGED vars \/ \E t \in Threads : RecordIO(t)
  PROVE  Order'
<1> USE DEF Order
<1>1. CASE Child
  BY <1>1 DEF Child, ChildStarts, StageStarts, StageEnds, ChildSucceeds, ChildExits,
              Terminated, Alive, files
<1>2. CASE UNCHANGED vars \/ \E t \in Threads : RecordIO(t)
  BY <1>2 DEF vars, RecordIO, Sync, Truncate, Put, process
<1> QED BY <1>1, <1>2

LEMMA StepHonest == ASSUME SuccessInv, [Next]_vars PROVE SuccessInv'
<1>1. TypeOK'
  BY StepType DEF SuccessInv
<1>2. Order'
  BY CallOrdered, WorkerOrdered, OtherOrdered DEF Next, SuccessInv
<1>3. Honest'
  <2>1. CASE UNCHANGED vars
    BY <2>1 DEF vars, SuccessInv, Honest, Declared, JobDeleted
  <2> QED BY <2>1, CallHonest, WorkerHonest, RecordHonest, ChildHonest DEF Next
<1> QED BY <1>1, <1>2, <1>3 DEF SuccessInv

(* Whatever the threads interleave and however old the copy that is        *)
(* written back, a job never shows success before its pipeline said so.    *)
THEOREM SuccessOfThePipeline == Spec => []SuccessIsReal
<1>1. Init => SuccessInv
  <2> SUFFICES ASSUME Init PROVE SuccessInv
    OBVIOUS
  <2>1. at["worker"] = "off" /\ at["create"] = "create"
    BY ThreadNames, CallsAssumption DEF Init
  <2>2. Order /\ Honest
    BY <2>1, ThreadNames DEF Init, Order, Honest
  <2> QED BY <2>2, InitType DEF SuccessInv
<1>2. SuccessInv /\ [Next]_vars => SuccessInv'
  BY StepHonest
<1>3. SuccessInv => SuccessIsReal
  BY DEF SuccessInv, Honest, Declared, SuccessIsReal
<1> QED BY <1>1, <1>2, <1>3, PTL DEF Spec

(***************************************************************************)
(* The dataset of a job at work stays marked, and the job has a record, so *)
(* that its deletion is refused: from the marker written before the worker *)
(* starts to the worker's own release.  Nothing reads before the worker    *)
(* starts; a trainer may read after the release.                           *)
(***************************************************************************)
Recorded == rec # "none" \/ JobDeleted

\* From its start to the release of the dataset.
AtWork ==
  at["worker"] \in {"start", "begin", "spawn", "register", "loop", "finish", "finishlog",
                   "finished", "fail", "failing", "faillog", "release", "unref"}

Jobs ==
  \A t \in Threads : io[t] \in {"sync", "truncate", "write"} => copy[t] # "none"

Written ==
  /\ at["create"] = "acquire" => io["create"] \in {"truncate", "write", "idle"}
  /\ at["create"] = "acquire" /\ io["create"] # "truncate" => Recorded
  /\ at["create"] = "mark" => Recorded

Protected ==
  /\ AtWork /\ at["deleteDataset"] \in {"call", "off"} => marker \/ JobDeleted
  /\ AtWork => Recorded
  /\ AtWork \/ at["worker"] \in {"off", "done"}

KeptInv == TypeOK /\ Order /\ Jobs /\ Written /\ Protected

LEMMA CallHolds == ASSUME KeptInv, Call PROVE Jobs'
<1> USE ThreadNames, StatusNames DEF KeptInv, TypeOK, Jobs, Goto, files, process
<1>1. ASSUME NEW t \in Threads, NEW from, NEW found, NEW lost, GetJob(t, from, found, lost)
      PROVE  Jobs'
  BY <1>1 DEF GetJob, At, Held, Unreadable
<1>2. CASE CreateJob
  BY <1>2 DEF CreateJob, WriteJob
<1>3. CASE CancelJob
  BY <1>3 DEF CancelJob, WriteJob
<1>4. CASE Acquire \/ MarkAndStart \/ DeleteJob
  BY <1>4 DEF Acquire, MarkAndStart, DeleteJob
<1>5. CASE Unmark \/ RemoveJob \/ CheckReferences \/ RemoveDataset
  BY <1>5 DEF Unmark, RemoveJob, CheckReferences, RemoveDataset
<1> QED BY <1>1, <1>2, <1>3, <1>4, <1>5 DEF Call

LEMMA WorkerHolds == ASSUME KeptInv, Worker PROVE Jobs'
<1> USE ThreadNames, StatusNames DEF KeptInv, TypeOK, Jobs, Goto, files, process
<1>1. ASSUME NEW from, NEW found, NEW lost, GetJob("worker", from, found, lost)
      PROVE  Jobs'
  BY <1>1 DEF GetJob, At, Held, Unreadable
<1>2. CASE Begin \/ MarkFailed \/ Finish
  BY <1>2 DEF Begin, MarkFailed, Finish, WriteJob
<1>3. CASE OutputLine
  BY <1>3 DEF OutputLine, Unreadable
<1>4. CASE Spawn \/ Register \/ OutputEnds \/ Forget \/ Release
  BY <1>4 DEF Spawn, Register, OutputEnds, Forget, Release
<1> QED BY <1>1, <1>2, <1>3, <1>4 DEF Worker

LEMMA OtherHolds ==
  ASSUME KeptInv, Child \/ UNCHANGED vars \/ \E t \in Threads : RecordIO(t)
  PROVE  Jobs'
<1> USE StatusNames DEF KeptInv, TypeOK, Jobs, files
<1>1. CASE Child \/ UNCHANGED vars
  BY <1>1 DEF vars, Child, ChildStarts, StageStarts, StageEnds, ChildSucceeds,
              ChildExits, Terminated
<1>2. ASSUME NEW t \in Threads, RecordIO(t) PROVE Jobs'
  BY <1>2 DEF RecordIO, Sync, Synced, Truncate, Put, Held
<1> QED BY <1>1, <1>2

\* A record that is there goes only with its job.
LEMMA RecordStays == ASSUME KeptInv, [Next]_vars, Recorded PROVE Recorded'
<1> USE ThreadNames, StatusNames DEF KeptInv, TypeOK, Recorded, JobDeleted, Goto, files, process
<1>1. ASSUME NEW t \in Threads, NEW from, NEW found, NEW lost, GetJob(t, from, found, lost),
             t = "deleteJob" => from = "call"
      PROVE  Recorded'
  BY <1>1 DEF GetJob, At
<1>2. CASE Call
  <2>1. CASE CreateJob \/ CancelJob \/ Acquire \/ MarkAndStart
    BY <2>1 DEF CreateJob, CancelJob, Acquire, MarkAndStart, WriteJob
  <2>2. CASE DeleteJob \/ Unmark \/ RemoveJob
    BY <2>2 DEF DeleteJob, Unmark, RemoveJob, At
  <2>3. CASE CheckReferences \/ RemoveDataset
    BY <2>3 DEF CheckReferences, RemoveDataset
  <2> QED BY <1>1, <1>2, <2>1, <2>2, <2>3 DEF Call
<1>3. CASE Worker
  <2>1. CASE Begin \/ MarkFailed \/ Finish
    BY <2>1 DEF Begin, MarkFailed, Finish, WriteJob
  <2>2. CASE OutputLine \/ Spawn \/ Register \/ OutputEnds \/ Forget \/ Release
    BY <2>2 DEF OutputLine, Spawn, Register, OutputEnds, Forget, Release
  <2> QED BY <1>1, <1>3, <2>1, <2>2 DEF Worker
<1>4. CASE Child \/ UNCHANGED vars
  BY <1>4 DEF vars, Child, ChildStarts, StageStarts, StageEnds, ChildSucceeds,
              ChildExits, Terminated
<1>5. ASSUME NEW t \in Threads, RecordIO(t) PROVE Recorded'
  BY <1>5 DEF Jobs, RecordIO, Sync, Truncate, Put
<1> QED BY <1>2, <1>3, <1>4, <1>5 DEF Next

LEMMA CallProtects == ASSUME KeptInv, Call PROVE Written' /\ Protected'
<1>1. Recorded => Recorded'
  BY RecordStays DEF Next
<1> USE ThreadNames, <1>1 DEF KeptInv, TypeOK, Written, Protected, AtWork, JobDeleted, At, Goto, files, process
<1>2. CASE CreateJob
  BY <1>2 DEF CreateJob, WriteJob, Order
<1>3. CASE Acquire \/ MarkAndStart
  BY <1>3 DEF Acquire, MarkAndStart, Order
<1>4. CASE GetJob("create", "answer", "over", "over") \/ GetJob("get", "call", "over", "over")
  BY <1>4 DEF GetJob
<1>5. CASE \/ GetJob("cancel", "call", "judge", "over")
           \/ GetJob("cancel", "log", "over", "over")
  BY <1>5 DEF GetJob
<1>6. CASE GetJob("deleteJob", "call", "judge", "over")
  BY <1>6 DEF GetJob
<1>7. CASE CancelJob
  BY <1>7 DEF CancelJob, WriteJob
<1>8. CASE DeleteJob \/ Unmark
  BY <1>8 DEF DeleteJob, Unmark
<1>9. CASE RemoveJob
  BY <1>9 DEF RemoveJob
<1>10. CASE CheckReferences \/ RemoveDataset
  BY <1>10 DEF CheckReferences, RemoveDataset, Recorded
<1> QED BY <1>2, <1>3, <1>4, <1>5, <1>6, <1>7, <1>8, <1>9, <1>10 DEF Call

LEMMA WorkerProtects == ASSUME KeptInv, Worker PROVE Written' /\ Protected'
<1>1. Recorded => Recorded'
  BY RecordStays DEF Next
<1> USE ThreadNames, <1>1 DEF KeptInv, TypeOK, Written, Protected, AtWork, JobDeleted, At, Goto, files, process
<1>2. CASE \/ GetJob("worker", "start", "begin", "fail")
           \/ GetJob("worker", "finish", "finishlog", "fail")
           \/ GetJob("worker", "finishlog", "finished", "finished")
  BY <1>2 DEF GetJob
<1>3. CASE \/ GetJob("worker", "fail", "failing", "release")
           \/ GetJob("worker", "faillog", "release", "release")
  BY <1>3 DEF GetJob
<1>4. CASE Begin \/ MarkFailed \/ Finish
  BY <1>4 DEF Begin, MarkFailed, Finish, WriteJob
<1>5. CASE Spawn \/ Register
  BY <1>5 DEF Spawn, Register
<1>6. CASE OutputLine \/ OutputEnds
  BY <1>6 DEF OutputLine, OutputEnds
<1>7. CASE Forget \/ Release
  BY <1>7 DEF Forget, Release
<1> QED BY <1>2, <1>3, <1>4, <1>5, <1>6, <1>7 DEF Worker

LEMMA OtherProtects ==
  ASSUME KeptInv, Child \/ UNCHANGED vars \/ \E t \in Threads : RecordIO(t)
  PROVE  Written' /\ Protected'
<1>1. Recorded => Recorded'
  BY RecordStays DEF Next
<1> USE <1>1 DEF KeptInv, TypeOK, Written, Protected, AtWork, JobDeleted, files
<1>2. CASE UNCHANGED vars
  BY <1>2 DEF vars
<1>3. CASE Child
  BY <1>3 DEF Child, ChildStarts, StageStarts, StageEnds, ChildSucceeds, ChildExits,
              Terminated
<1>4. ASSUME NEW t \in Threads, RecordIO(t) PROVE Written' /\ Protected'
  <2> USE ThreadNames DEF process
  <2>1. CASE Sync(t)
    BY <2>1 DEF Sync
  <2>2. CASE Truncate(t)
    BY <2>2 DEF Truncate, Recorded
  <2>3. CASE Put(t)
    BY <2>3 DEF Put
  <2> QED BY <1>4, <2>1, <2>2, <2>3 DEF RecordIO
<1> QED BY <1>2, <1>3, <1>4

LEMMA StepKept == ASSUME KeptInv, [Next]_vars PROVE KeptInv'
<1>1. TypeOK'
  BY StepType DEF KeptInv
<1>2. Order'
  BY CallOrdered, WorkerOrdered, OtherOrdered DEF Next, KeptInv
<1>3. Jobs'
  BY CallHolds, WorkerHolds, OtherHolds DEF Next
<1>4. Written' /\ Protected'
  BY CallProtects, WorkerProtects, OtherProtects DEF Next
<1> QED BY <1>1, <1>2, <1>3, <1>4 DEF KeptInv

LEMMA OthersLeaveDataset ==
  ASSUME TypeOK, [Next]_vars, At("deleteDataset", "call"), at'["deleteDataset"] = "rmtree"
  PROVE  CheckReferences
<1> USE ThreadNames DEF TypeOK, At, Goto, files, process
<1>1. CASE Call
  <2>1. CASE CreateJob \/ CancelJob \/ Acquire \/ MarkAndStart
    BY <2>1 DEF CreateJob, CancelJob, Acquire, MarkAndStart, WriteJob
  <2>2. CASE DeleteJob \/ Unmark \/ RemoveJob \/ RemoveDataset
    BY <2>2 DEF DeleteJob, Unmark, RemoveJob, RemoveDataset
  <2> QED BY <1>1, <2>1, <2>2 DEF Call, GetJob
<1>2. CASE Worker
  <2>1. CASE Begin \/ MarkFailed \/ Finish
    BY <2>1 DEF Begin, MarkFailed, Finish, WriteJob
  <2>2. CASE OutputLine \/ Spawn \/ Register \/ OutputEnds \/ Forget \/ Release
    BY <2>2 DEF OutputLine, Spawn, Register, OutputEnds, Forget, Release
  <2> QED BY <1>2, <2>1, <2>2 DEF Worker, GetJob
<1>3. CASE Child \/ UNCHANGED vars
  BY <1>3 DEF vars, Child, ChildStarts, StageStarts, StageEnds, ChildSucceeds,
              ChildExits, Terminated
<1>4. CASE \E t \in Threads : RecordIO(t)
  BY <1>4 DEF RecordIO, Sync, Truncate, Put
<1> QED BY <1>1, <1>2, <1>3, <1>4 DEF Next

(* delete_dataset never begins to remove a dataset that run_pipeline.py or  *)
(* its trainer reads before the worker's release of it, unless the job is   *)
(* deleted: canceled jobs, a trainer that outlives run_pipeline.py and      *)
(* every order of the file operations included.  After the release nothing  *)
(* protects a trainer that still reads.                                     *)
THEOREM DatasetOfTheJob == Spec => DatasetKept
<1>1. Init => KeptInv
  <2> SUFFICES ASSUME Init PROVE KeptInv
    OBVIOUS
  <2>1. at["worker"] = "off" /\ at["create"] = "create"
    BY ThreadNames, CallsAssumption DEF Init
  <2>2. Order /\ Jobs /\ Written /\ Protected
    BY <2>1 DEF Init, Order, Jobs, Written, Protected, AtWork
  <2> QED BY <2>2, InitType DEF KeptInv
<1>2. KeptInv /\ [Next]_vars => KeptInv'
  BY StepKept
<1>3. ASSUME KeptInv, [Next]_vars, At("deleteDataset", "call"),
             at'["deleteDataset"] = "rmtree"
      PROVE  ~InUse \/ at["worker"] = "done" \/ JobDeleted
  <2>1. CheckReferences
    BY <1>3, OthersLeaveDataset DEF KeptInv
  <2>2. ~(marker /\ rec # "none")
    BY <1>3, <2>1, ThreadNames DEF CheckReferences, Goto, KeptInv, TypeOK
  <2>3. ~AtWork \/ JobDeleted
    BY <1>3, <2>2 DEF KeptInv, Protected, Recorded, At
  <2>4. at["worker"] = "off" => ~InUse
    BY <1>3 DEF KeptInv, Order, InUse, Alive
  <2> QED BY <1>3, <2>3, <2>4 DEF KeptInv, Protected
<1>4. KeptInv /\ [Next]_vars
        => [(At("deleteDataset", "call") /\ at'["deleteDataset"] = "rmtree")
            => (~InUse \/ at["worker"] = "done" \/ JobDeleted)]_vars
  BY <1>3
<1> QED BY <1>1, <1>2, <1>4, PTL DEF Spec, DatasetKept
=============================================================================
