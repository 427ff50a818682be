---------------------------- MODULE TrainingJobs ----------------------------
(* One training job of server_api: the HTTP calls that create, read, cancel  *)
(* and delete it and the one that deletes its dataset, the worker thread of  *)
(* TrainingJobService with its child run_pipeline.py, the program which that *)
(* starts for a stage, and the files they share: the job's record job.json,  *)
(* written without a lock or a rename, and the marker in the dataset that    *)
(* forbids its deletion.                                                     *)
(*                                                                           *)
(* A call of a set happens once, at any time.  A record is its status; of  *)
(* the stage only is kept that it may differ from the pipeline's.            *)
EXTENDS Naturals

CONSTANT CallSets   \* the sets of HTTP calls that may be made beside create_job

ASSUME CallsAssumption == CallSets \subseteq SUBSET {"get", "cancel", "deleteJob", "deleteDataset"}

Threads == {"create", "worker", "get", "cancel", "deleteJob", "deleteDataset"}
Ended == {"success", "failed", "canceled"}
Statuses == {"pending", "running"} \cup Ended
Unreadable == {"none", "torn"}

VARIABLES
    rec,       \* job.json: a status, "none" without a file, "torn" when it does not parse
    marker,    \* the dataset's .active_job_refs holds this job
    dataset,   \* the dataset exists
    pipe,      \* pipeline_status.json
    child,     \* run_pipeline.py, the process the worker starts
    exitOk,    \* its return code is 0
    sigterm,   \* it was sent SIGTERM and has not ended
    trainer,   \* the program it runs for a stage, which reads the dataset too
    proc,      \* _processes holds it
    at,        \* what each thread does next
    io,        \* the part of get_job or _write_job it has to end first
    copy       \* the job each thread holds

vars == <<rec, marker, dataset, pipe, child, exitOk, sigterm, trainer, proc, at, io, copy>>
files == <<rec, marker, dataset>>
process == <<pipe, child, exitOk, sigterm, trainer>>

Alive == child \in {"starting", "training"}

TypeOK ==
    /\ rec \in Statuses \cup Unreadable
    /\ marker \in BOOLEAN /\ dataset \in BOOLEAN
    /\ exitOk \in BOOLEAN /\ sigterm \in BOOLEAN /\ proc \in BOOLEAN
    /\ trainer \in BOOLEAN
    /\ pipe \in {"none", "working", "success"}
    /\ child \in {"none", "starting", "training", "ended"}
    /\ DOMAIN at = Threads
    /\ io \in [Threads -> {"idle", "sync", "truncate", "write"}]
    /\ copy \in [Threads -> Statuses \cup {"none"}]

Init ==
    /\ rec = "none" /\ marker = FALSE /\ dataset = TRUE
    /\ pipe = "none" /\ child = "none" /\ exitOk = FALSE /\ sigterm = FALSE
    /\ trainer = FALSE /\ proc = FALSE
    /\ \E calls \in CallSets :
          at = [t \in Threads |-> IF t = "create" THEN "create"
                                 ELSE IF t \in calls THEN "call" ELSE "off"]
    /\ io = [t \in Threads |-> "idle"]
    /\ copy = [t \in Threads |-> "none"]

\* The job a thread holds on its way to a place: only judge looks at it again.
Held(t, place, status) == [copy EXCEPT ![t] = IF place = "judge" THEN status ELSE "none"]

At(t, place) == at[t] = place /\ io[t] = "idle"
Goto(t, place) == at' = [at EXCEPT ![t] = place]

-----------------------------------------------------------------------------
(* The record.                                                               *)

\* get_job: a running job is brought up to date with the pipeline's file.
GetJob(t, from, found, lost) ==
    /\ At(t, from)
    /\ IF rec \in Unreadable
       THEN Goto(t, lost) /\ UNCHANGED <<io, copy>>
       ELSE /\ Goto(t, found)
            /\ IF rec = "running"
               THEN /\ copy' = [copy EXCEPT ![t] = rec]
                    /\ io' = [io EXCEPT ![t] = "sync"]
               ELSE copy' = Held(t, found, rec) /\ io' = io
    /\ UNCHANGED <<files, process, proc>>

\* Mutant of Synced.
SyncedWorking(st) == IF pipe # "none" /\ st = "running" THEN "success" ELSE st

\* The status the pipeline's file gives the job.
Synced(st) == IF pipe = "success" /\ st = "running" THEN "success" ELSE st

\* _sync_pipeline_status writes the job back when its stage or status changed.
Sync(t) ==
    /\ io[t] = "sync"
    /\ \E staged \in {FALSE, pipe # "none"} :
          LET st == Synced(copy[t]) IN
          IF staged \/ st # copy[t]
          THEN copy' = [copy EXCEPT ![t] = st] /\ io' = [io EXCEPT ![t] = "truncate"]
          ELSE copy' = Held(t, at[t], st) /\ io' = [io EXCEPT ![t] = "idle"]
    /\ UNCHANGED <<files, process, proc, at>>

\* _write_job: write_text opens the file, which empties or creates it ...
Truncate(t) ==
    /\ io[t] = "truncate"
    /\ rec' = "torn"
    /\ io' = [io EXCEPT ![t] = "write"]
    /\ UNCHANGED <<marker, dataset, process, proc, at, copy>>

\* ... and writes at its start: what another wrote meanwhile may be longer,
\* and its rest stays behind.  A file deleted meanwhile stays deleted.
Put(t) ==
    /\ io[t] = "write"
    /\ \/ rec = "torn" /\ rec' = copy[t]
       \/ rec = "none" /\ rec' = "none"
       \/ rec \in Statuses /\ rec' \in {copy[t], "torn"}
    /\ io' = [io EXCEPT ![t] = "idle"]
    /\ copy' = Held(t, at[t], copy[t])
    /\ UNCHANGED <<marker, dataset, process, proc, at>>

RecordIO(t) == Sync(t) \/ Truncate(t) \/ Put(t)

\* A job the thread changed and writes before it goes on.
WriteJob(t, status, place) ==
    /\ copy' = [copy EXCEPT ![t] = status]
    /\ io' = [io EXCEPT ![t] = "truncate"]
    /\ Goto(t, place)

-----------------------------------------------------------------------------
(* HTTP calls.                                                               *)

CreateJob ==
    /\ At("create", "create")
    /\ IF dataset THEN WriteJob("create", "pending", "acquire")
                  ELSE Goto("create", "over") /\ UNCHANGED <<io, copy>>
    /\ UNCHANGED <<files, process, proc>>

\* acquire_training_reference looks for the dataset ...
Acquire ==
    /\ At("create", "acquire")
    /\ Goto("create", IF dataset THEN "mark" ELSE "over")
    /\ UNCHANGED <<files, process, proc, io, copy>>

\* ... and writes the marker, with the directories it needs; then the worker
\* thread is started.
MarkAndStart ==
    /\ At("create", "mark")
    /\ marker' = TRUE
    /\ at' = [at EXCEPT !["create"] = "answer", !["worker"] = "start"]
    /\ UNCHANGED <<rec, dataset, process, proc, io, copy>>

\* Mutant of CancelJob.
CancelUnterminated ==
    /\ At("cancel", "judge")
    /\ IF copy["cancel"] \in Ended
       THEN Goto("cancel", "over") /\ UNCHANGED <<io, copy>>
       ELSE WriteJob("cancel", "canceled", "log")
    /\ UNCHANGED <<files, process, proc>>

CancelJob ==
    /\ At("cancel", "judge")
    /\ IF copy["cancel"] \in Ended
       THEN Goto("cancel", "over") /\ UNCHANGED <<sigterm, io, copy>>
       ELSE /\ sigterm' = (sigterm \/ (proc /\ Alive))
            /\ WriteJob("cancel", "canceled", "log")
    /\ UNCHANGED <<files, pipe, child, exitOk, trainer, proc>>

DeleteJob ==
    /\ At("deleteJob", "judge")
    /\ Goto("deleteJob", IF (proc /\ Alive) \/ copy["deleteJob"] = "running"
                         THEN "over" ELSE "unmark")
    /\ UNCHANGED <<files, process, proc, io, copy>>

Unmark ==
    /\ At("deleteJob", "unmark")
    /\ marker' = FALSE
    /\ Goto("deleteJob", "rmtree")
    /\ UNCHANGED <<rec, dataset, process, proc, io, copy>>

RemoveJob ==
    /\ At("deleteJob", "rmtree")
    /\ rec' = "none" /\ pipe' = "none"
    /\ Goto("deleteJob", "removed")
    /\ UNCHANGED <<marker, dataset, child, exitOk, sigterm, trainer, proc, io, copy>>

\* Mutant of CheckReferences.
CheckJobStatus ==
    /\ At("deleteDataset", "call")
    /\ Goto("deleteDataset", IF marker /\ rec \in {"pending", "running"} THEN "over" ELSE "rmtree")
    /\ marker' = (marker /\ rec \in {"pending", "running"})
    /\ UNCHANGED <<rec, dataset, process, proc, io, copy>>

\* delete_dataset: a marker whose job has no record is pruned, any other
\* forbids the deletion.
CheckReferences ==
    /\ At("deleteDataset", "call")
    /\ Goto("deleteDataset", IF marker /\ rec # "none" THEN "over" ELSE "rmtree")
    /\ marker' = (marker /\ rec # "none")
    /\ UNCHANGED <<rec, dataset, process, proc, io, copy>>

RemoveDataset ==
    /\ At("deleteDataset", "rmtree")
    /\ dataset' = FALSE /\ marker' = FALSE
    /\ Goto("deleteDataset", "over")
    /\ UNCHANGED <<rec, process, proc, io, copy>>

Call ==
    \/ CreateJob \/ Acquire \/ MarkAndStart
    \/ GetJob("create", "answer", "over", "over")
    \/ GetJob("get", "call", "over", "over")
    \/ GetJob("cancel", "call", "judge", "over")
    \/ CancelJob
    \/ GetJob("cancel", "log", "over", "over")
    \/ GetJob("deleteJob", "call", "judge", "over")
    \/ DeleteJob \/ Unmark \/ RemoveJob
    \/ CheckReferences \/ RemoveDataset

-----------------------------------------------------------------------------
(* The worker thread, _run_real_pipeline.                                    *)

Begin ==
    /\ At("worker", "begin")
    /\ WriteJob("worker", "running", "spawn")
    /\ UNCHANGED <<files, process, proc>>

Spawn ==
    /\ At("worker", "spawn")
    /\ \/ child' = "starting" /\ Goto("worker", "register")
       \/ child' = child /\ Goto("worker", "fail")
    /\ UNCHANGED <<files, pipe, exitOk, sigterm, trainer, proc, io, copy>>

Register ==
    /\ At("worker", "register")
    /\ proc' = TRUE
    /\ Goto("worker", "loop")
    /\ UNCHANGED <<files, process, io, copy>>

\* A line of the child: _sync_pipeline_status_by_id syncs whatever the status.
OutputLine ==
    /\ At("worker", "loop")
    /\ Alive
    /\ rec \notin Unreadable
    /\ copy' = [copy EXCEPT !["worker"] = rec]
    /\ io' = [io EXCEPT !["worker"] = "sync"]
    /\ UNCHANGED <<files, process, proc, at>>

\* Reading the line, or writing it to the log on a full disk, may raise.
OutputEnds ==
    /\ At("worker", "loop")
    /\ Goto("worker", IF Alive THEN "fail" ELSE "finish")
    /\ UNCHANGED <<files, process, proc, io, copy>>

\* _finish_from_pipeline_result.
Finish ==
    /\ At("worker", "finished")
    /\ WriteJob("worker", IF exitOk /\ pipe = "success" THEN "success" ELSE "failed", "release")
    /\ exitOk' = FALSE   \* not looked at again
    /\ UNCHANGED <<files, pipe, child, sigterm, trainer, proc>>

MarkFailed ==
    /\ At("worker", "failing")
    /\ WriteJob("worker", "failed", "faillog")
    /\ UNCHANGED <<files, process, proc>>

Forget ==
    /\ At("worker", "release")
    /\ proc' = FALSE
    /\ Goto("worker", "unref")
    /\ UNCHANGED <<files, process, io, copy>>

\* _release_job_dataset_reference finds the dataset in the record.
Release ==
    /\ At("worker", "unref")
    /\ marker' = (marker /\ rec \in Unreadable)
    /\ Goto("worker", "done")
    /\ UNCHANGED <<rec, dataset, process, proc, io, copy>>

Worker ==
    \/ GetJob("worker", "start", "begin", "fail")
    \/ Begin \/ Spawn \/ Register \/ OutputLine \/ OutputEnds
    \/ GetJob("worker", "finish", "finishlog", "fail")
    \/ GetJob("worker", "finishlog", "finished", "finished")
    \/ Finish
    \/ GetJob("worker", "fail", "failing", "release")
    \/ MarkFailed
    \/ GetJob("worker", "faillog", "release", "release")
    \/ Forget \/ Release

-----------------------------------------------------------------------------
(* The child: training.pipeline.run_pipeline, and the programs (yolo, the    *)
(* converters) it starts for its stages, each with a pipe of its own.        *)

\* It reads job_config.json, which goes with the job's directory.
ChildStarts ==
    /\ child = "starting"
    /\ IF at["deleteJob"] = "removed" \/ ~dataset
       THEN child' = "ended" /\ sigterm' = FALSE /\ pipe' = pipe
       ELSE child' = "training" /\ pipe' = "working" /\ sigterm' = sigterm
    /\ UNCHANGED <<files, exitOk, trainer, proc, at, io, copy>>

\* run_command: the stage's program reads the dataset in place ...
StageStarts ==
    /\ child = "training" /\ pipe # "success" /\ ~trainer
    /\ trainer' = TRUE
    /\ UNCHANGED <<files, pipe, child, exitOk, sigterm, proc, at, io, copy>>

\* ... until it is done, or a write to the pipe of a run_pipeline.py that has
\* ended breaks it.
StageEnds ==
    /\ trainer
    /\ trainer' = FALSE
    /\ UNCHANGED <<files, pipe, child, exitOk, sigterm, proc, at, io, copy>>

ChildSucceeds ==
    /\ child = "training" /\ dataset /\ ~trainer
    /\ pipe' = "success"
    /\ UNCHANGED <<files, child, exitOk, sigterm, trainer, proc, at, io, copy>>

\* With an error, which the log of a stage that still runs may raise as well.
ChildExits ==
    /\ child = "training"
    /\ child' = "ended" /\ sigterm' = FALSE
    /\ exitOk' \in {FALSE, pipe = "success"}
    /\ UNCHANGED <<files, pipe, trainer, proc, at, io, copy>>

\* SIGTERM reaches run_pipeline.py alone: it handles no signal, and the
\* stage's program goes on without it.
Terminated ==
    /\ Alive /\ sigterm
    /\ child' = "ended" /\ sigterm' = FALSE
    /\ UNCHANGED <<files, pipe, exitOk, trainer, proc, at, io, copy>>

Child ==
    \/ ChildStarts \/ StageStarts \/ StageEnds
    \/ ChildSucceeds \/ ChildExits \/ Terminated

Next == Call \/ Worker \/ (\E t \in Threads : RecordIO(t)) \/ Child

Spec == Init /\ [][Next]_vars

\* Threads are scheduled and run_pipeline.py obeys SIGTERM; without it a stage
\* may train for ever.
FairSpec ==
    /\ Spec
    /\ WF_vars(Worker /\ ~OutputLine /\ ~(OutputEnds /\ Alive))
    /\ \A t \in Threads : WF_vars(RecordIO(t))
    /\ WF_vars(CancelJob) /\ WF_vars(Terminated)

-----------------------------------------------------------------------------

JobDeleted == at["deleteJob"] \in {"unmark", "rmtree", "removed"}
\* Whatever reads the dataset.
InUse == Alive \/ trainer

\* delete_dataset (52-66) never starts to remove a dataset that run_pipeline.py
\* or its trainer reads before the job is deleted or its worker has let go of
\* it (236-239), canceled jobs included.  The worker may let go too early: it
\* waits for run_pipeline.py to end, not for the trainer, which SIGTERM leaves
\* running, and after an error on the output for neither.
DatasetKept ==
    [][(At("deleteDataset", "call") /\ at'["deleteDataset"] = "rmtree")
       => (~InUse \/ at["worker"] = "done" \/ JobDeleted)]_vars

\* Whoever writes the record back, and however old its copy: a job shows
\* success only after the pipeline itself declared it (269-284, 241-259).
SuccessIsReal == rec = "success" => (pipe = "success" \/ JobDeleted)

\* A cancel that finds run_pipeline.py running ends the worker, which else waits
\* for as long as that trains (157-172, 227-239); of the trainer it says nothing.
CancelStopsChild ==
    (At("cancel", "judge") /\ copy["cancel"] \notin Ended /\ proc /\ Alive)
    ~> at["worker"] = "done"

\* "Protect a dataset while a training process is actively using it"
\* (dataset_service.py:67): a dataset in use by a child is there.
DatasetProtected == (child = "training" /\ ~JobDeleted) => dataset
=============================================================================
