-------------------------- MODULE FoamRingService ---------------------------
(***************************************************************************)
(* The persistent trigger service of the foam-ring line                     *)
(* (foam_ring_grasp_vision/service.py): HTTP handler threads submit         *)
(* requests, an inference worker and a geometry worker carry them through   *)
(* two bounded queues, a registry replays requests by id, and the main      *)
(* thread stops it all.                                                     *)
(*                                                                          *)
(* A job is numbered in the order of acceptance.  Each action is one        *)
(* section under self.lock, one queue operation, or one test of the stop    *)
(* event.  A section that holds the lock over several steps keeps `lock`.   *)
(***************************************************************************)
EXTENDS Integers, Sequences, FiniteSets

CONSTANTS
  RequestIds,       \* the request ids clients use
  TriggerCap,       \* trigger_queue_capacity
  GeometryCap,      \* geometry_queue_capacity
  RegistryCap,      \* request_registry_capacity
  MaxJobs,          \* bound: jobs accepted
  MayStop           \* bound: TRUE when the run includes stop()

ASSUME ServiceAssumption ==
  /\ TriggerCap \in Nat \ {0} /\ GeometryCap \in Nat \ {0}
  /\ RegistryCap \in Nat \ {0} /\ MaxJobs \in Nat /\ MayStop \in BOOLEAN

VARIABLES
  accepted,     \* accepted_count: the jobs 1..accepted exist
  requestOf,    \* job -> the request id it carries
  status,       \* job.status
  done,         \* job.done
  registry,     \* the OrderedDict, least recently used first
  triggerQueue, geometryQueue,
  completed, failed,   \* completed_count, failed_count
  latest,       \* the job latest_result belongs to, 0 before the first
  lock,         \* who holds self.lock over several steps
  submitted,    \* the submit() holding the lock: its request id and job
  infPc, infJob,       \* the inference worker
  geoPc, geoJob,       \* the geometry worker
  stopPc               \* the main thread in stop()

jobVars == <<requestOf, status, done, completed, failed>>
submitVars == <<accepted, requestOf, registry, submitted>>
infVars == <<infPc, infJob>>
geoVars == <<geoPc, geoJob>>
vars == <<accepted, requestOf, status, done, registry, triggerQueue, geometryQueue,
          completed, failed, latest, lock, submitted, infVars, geoVars, stopPc>>

Jobs == 1..MaxJobs
NoJob == 0
Sentinel == 0            \* the None that stop() puts into a queue
NoRequest == "no request"
Idle == [request |-> NoRequest, job |-> NoJob]

Statuses == {"none", "queued", "inferring", "geometry_queued", "geometry", "ok", "error"}
InfSteps == {"loop", "get", "taken", "prepare", "offer", "put", "dead"}
GeoSteps == {"loop", "get", "taken", "finish", "finally", "dead"}
StopSteps == {"running", "drainTrigger", "drainGeometry", "markTrigger", "markGeometry", "stopped"}

stopping == stopPc # "running"      \* stop_event
Decided(j) == status[j] \in {"ok", "error"}
Has(q, cap) == Len(q) < cap

Init ==
  /\ accepted = 0 /\ completed = 0 /\ failed = 0 /\ latest = NoJob
  /\ requestOf = [j \in Jobs |-> NoRequest]
  /\ status = [j \in Jobs |-> "none"]
  /\ done = [j \in Jobs |-> FALSE]
  /\ registry = <<>> /\ triggerQueue = <<>> /\ geometryQueue = <<>>
  /\ lock = "free" /\ submitted = Idle
  /\ infPc = "loop" /\ infJob = NoJob
  /\ geoPc = "loop" /\ geoJob = NoJob
  /\ stopPc = "running"

-----------------------------------------------------------------------------
(* The registry.                                                            *)

Without(s, p) == [i \in 1..(Len(s) - 1) |-> IF i < p THEN s[i] ELSE s[i + 1]]
MovedToEnd(p) == Append(Without(registry, p), registry[p])

OldestDone(p) ==
  /\ p \in 1..Len(registry) /\ done[registry[p]]
  /\ \A q \in 1..(p - 1) : ~done[registry[q]]

MustTrim == Len(registry) >= RegistryCap /\ \E p \in 1..Len(registry) : OldestDone(p)

\* Mutant: the oldest entry goes, finished or not.
TrimOldest ==
  /\ lock # "free" /\ submitted.job = NoJob
  /\ Len(registry) >= RegistryCap /\ registry # <<>> /\ registry' = Tail(registry)
  /\ UNCHANGED <<jobVars, accepted, triggerQueue, geometryQueue, latest, lock, submitted,
                 infVars, geoVars, stopPc>>

\* One turn of the loop of _trim_registry_locked.
Trim ==
  /\ lock # "free" /\ submitted.job = NoJob
  /\ Len(registry) >= RegistryCap
  /\ \E p \in 1..Len(registry) : OldestDone(p) /\ registry' = Without(registry, p)
  /\ UNCHANGED <<jobVars, accepted, triggerQueue, geometryQueue, latest, lock, submitted,
                 infVars, geoVars, stopPc>>

-----------------------------------------------------------------------------
(* The HTTP handler threads.                                                *)

\* submit() of a registered id, and get_request(): the entry becomes the
\* most recent one.
Replay(r) ==
  /\ lock = "free"
  /\ \E p \in 1..Len(registry) : requestOf[registry[p]] = r /\ registry' = MovedToEnd(p)
  /\ UNCHANGED <<jobVars, accepted, triggerQueue, geometryQueue, latest, lock, submitted,
                 infVars, geoVars, stopPc>>

\* submit() of an id that is not registered goes on to trim, under the lock.
SubmitNew(r) ==
  /\ lock = "free" /\ accepted < MaxJobs
  /\ \A p \in 1..Len(registry) : requestOf[registry[p]] # r
  /\ lock' = "submit" /\ submitted' = [request |-> r, job |-> NoJob]
  /\ UNCHANGED <<jobVars, accepted, registry, triggerQueue, geometryQueue, latest,
                 infVars, geoVars, stopPc>>

\* The queue is full: QueueCapacityError.
SubmitReject ==
  /\ lock = "submit" /\ submitted.job = NoJob /\ ~MustTrim
  /\ ~Has(triggerQueue, TriggerCap)
  /\ lock' = "free" /\ submitted' = Idle
  /\ UNCHANGED <<jobVars, accepted, registry, triggerQueue, geometryQueue, latest,
                 infVars, geoVars, stopPc>>

SubmitRegister ==
  LET j == accepted + 1 IN
  /\ lock = "submit" /\ submitted.job = NoJob /\ ~MustTrim
  /\ Has(triggerQueue, TriggerCap)
  /\ accepted' = j
  /\ requestOf' = [requestOf EXCEPT ![j] = submitted.request]
  /\ status' = [status EXCEPT ![j] = "queued"]
  /\ registry' = Append(registry, j)
  /\ submitted' = [request |-> submitted.request, job |-> j]
  /\ UNCHANGED <<done, completed, failed, triggerQueue, geometryQueue, latest, lock,
                 infVars, geoVars, stopPc>>

\* put_nowait: stop() may have filled the queue with its sentinel meanwhile;
\* the exception leaves the job registered, and in no queue.
SubmitPut ==
  /\ lock = "submit" /\ submitted.job # NoJob
  /\ triggerQueue' = IF Has(triggerQueue, TriggerCap)
                       THEN Append(triggerQueue, submitted.job) ELSE triggerQueue
  /\ lock' = "free" /\ submitted' = Idle
  /\ UNCHANGED <<jobVars, accepted, registry, geometryQueue, latest, infVars, geoVars, stopPc>>

Http ==
  \/ \E r \in RequestIds : Replay(r) \/ SubmitNew(r)
  \/ SubmitReject \/ SubmitRegister \/ SubmitPut

-----------------------------------------------------------------------------
(* How a job ends with an error: _fail_job and _complete_error.             *)

Fail(j) ==
  /\ lock = "free"
  /\ IF done[j] THEN UNCHANGED <<status, done, failed>>
     ELSE /\ status' = [status EXCEPT ![j] = "error"]
          /\ done' = [done EXCEPT ![j] = TRUE]
          /\ failed' = failed + 1

-----------------------------------------------------------------------------
(* The inference worker.                                                    *)

InfLoop ==
  /\ infPc = "loop"
  /\ infPc' = IF stopping THEN "dead" ELSE "get"
  /\ UNCHANGED <<accepted, jobVars, registry, triggerQueue, geometryQueue, latest, lock,
                 submitted, infJob, geoVars, stopPc>>

\* get(timeout): an item, or nothing within the time.
InfGet ==
  /\ infPc = "get"
  /\ \/ /\ triggerQueue = <<>> /\ infPc' = "loop" /\ UNCHANGED <<triggerQueue, infJob>>
     \/ /\ triggerQueue # <<>> /\ triggerQueue' = Tail(triggerQueue)
        /\ IF Head(triggerQueue) = Sentinel
             THEN infPc' = "dead" /\ UNCHANGED infJob
             ELSE infPc' = "taken" /\ infJob' = Head(triggerQueue)
  /\ UNCHANGED <<accepted, jobVars, registry, geometryQueue, latest, lock, submitted,
                 geoVars, stopPc>>

InfBegin ==
  /\ infPc = "taken" /\ lock = "free"
  /\ status' = [status EXCEPT ![infJob] = "inferring"]
  /\ infPc' = "prepare"
  /\ UNCHANGED <<accepted, requestOf, done, completed, failed, registry, triggerQueue,
                 geometryQueue, latest, lock, submitted, infJob, geoVars, stopPc>>

\* processor.prepare returns.
InfPrepared ==
  /\ infPc = "prepare" /\ lock = "free"
  /\ status' = [status EXCEPT ![infJob] = "geometry_queued"]
  /\ infPc' = "offer"
  /\ UNCHANGED <<accepted, requestOf, done, completed, failed, registry, triggerQueue,
                 geometryQueue, latest, lock, submitted, infJob, geoVars, stopPc>>

\* processor.prepare raises.
InfFailed ==
  /\ infPc = "prepare" /\ Fail(infJob)
  /\ infPc' = "loop" /\ infJob' = NoJob
  /\ UNCHANGED <<accepted, requestOf, completed, registry, triggerQueue, geometryQueue,
                 latest, lock, submitted, geoVars, stopPc>>

\* Mutant: the loop does not look at the stop event.
InfOfferBlind ==
  /\ infPc = "offer" /\ infPc' = "put"
  /\ UNCHANGED <<accepted, jobVars, registry, triggerQueue, geometryQueue, latest, lock,
                 submitted, infJob, geoVars, stopPc>>

\* The loop that hands the job over looks at the stop event before each put.
InfOffer ==
  /\ infPc = "offer" /\ ~stopping
  /\ infPc' = "put"
  /\ UNCHANGED <<accepted, jobVars, registry, triggerQueue, geometryQueue, latest, lock,
                 submitted, infJob, geoVars, stopPc>>

\* Mutant: the worker goes on after a put that found no room.
InfPutOnce ==
  /\ infPc = "put"
  /\ infPc' = "loop" /\ infJob' = NoJob
  /\ geometryQueue' = IF Has(geometryQueue, GeometryCap)
                        THEN Append(geometryQueue, infJob) ELSE geometryQueue
  /\ UNCHANGED <<accepted, jobVars, registry, triggerQueue, latest, lock, submitted,
                 geoVars, stopPc>>

\* Mutant: no break after the put, so the loop ends in its else branch.
InfPutUnbroken ==
  /\ infPc = "put"
  /\ infPc' = "offer"
  /\ geometryQueue' = IF Has(geometryQueue, GeometryCap)
                        THEN Append(geometryQueue, infJob) ELSE geometryQueue
  /\ UNCHANGED <<accepted, jobVars, registry, triggerQueue, latest, lock, submitted,
                 infJob, geoVars, stopPc>>

\* put(timeout): done, or the queue stayed full and the loop turns.
InfPut ==
  /\ infPc = "put"
  /\ IF Has(geometryQueue, GeometryCap)
       THEN /\ geometryQueue' = Append(geometryQueue, infJob)
            /\ infPc' = "loop" /\ infJob' = NoJob
       ELSE infPc' = "offer" /\ UNCHANGED <<geometryQueue, infJob>>
  /\ UNCHANGED <<accepted, jobVars, registry, triggerQueue, latest, lock, submitted,
                 geoVars, stopPc>>

\* The else branch of the loop: stopped before the job was handed over.
InfAbandon ==
  /\ infPc = "offer" /\ stopping /\ Fail(infJob)
  /\ infPc' = "loop" /\ infJob' = NoJob
  /\ UNCHANGED <<accepted, requestOf, completed, registry, triggerQueue, geometryQueue,
                 latest, lock, submitted, geoVars, stopPc>>

Inference ==
  \/ InfLoop \/ InfGet \/ InfBegin \/ InfPrepared \/ InfFailed
  \/ InfOffer \/ InfPut \/ InfAbandon

-----------------------------------------------------------------------------
(* The geometry worker.                                                     *)

GeoLoop ==
  /\ geoPc = "loop"
  /\ geoPc' = IF stopping THEN "dead" ELSE "get"
  /\ UNCHANGED <<accepted, jobVars, registry, triggerQueue, geometryQueue, latest, lock,
                 submitted, infVars, geoJob, stopPc>>

GeoGet ==
  /\ geoPc = "get"
  /\ \/ /\ geometryQueue = <<>> /\ geoPc' = "loop" /\ UNCHANGED <<geometryQueue, geoJob>>
     \/ /\ geometryQueue # <<>> /\ geometryQueue' = Tail(geometryQueue)
        /\ IF Head(geometryQueue) = Sentinel
             THEN geoPc' = "dead" /\ UNCHANGED geoJob
             ELSE geoPc' = "taken" /\ geoJob' = Head(geometryQueue)
  /\ UNCHANGED <<accepted, jobVars, registry, triggerQueue, latest, lock, submitted,
                 infVars, stopPc>>

GeoBegin ==
  /\ geoPc = "taken" /\ lock = "free"
  /\ status' = [status EXCEPT ![geoJob] = "geometry"]
  /\ geoPc' = "finish"
  /\ UNCHANGED <<accepted, requestOf, done, completed, failed, registry, triggerQueue,
                 geometryQueue, latest, lock, submitted, infVars, geoJob, stopPc>>

\* processor.finish returns: the outcome is set before the job is done.
GeoSucceed ==
  /\ geoPc = "finish" /\ lock = "free"
  /\ status' = [status EXCEPT ![geoJob] = "ok"]
  /\ latest' = geoJob /\ completed' = completed + 1
  /\ geoPc' = "finally"
  /\ UNCHANGED <<accepted, requestOf, done, failed, registry, triggerQueue, geometryQueue,
                 lock, submitted, infVars, geoJob, stopPc>>

\* processor.finish raises.
GeoFailed ==
  /\ geoPc = "finish" /\ Fail(geoJob)
  /\ geoPc' = "finally"
  /\ UNCHANGED <<accepted, requestOf, completed, registry, triggerQueue, geometryQueue,
                 latest, lock, submitted, infVars, geoJob, stopPc>>

\* The finally section: done, then a trim under the same lock.
GeoFinally ==
  /\ geoPc = "finally" /\ lock = "free"
  /\ done' = [done EXCEPT ![geoJob] = TRUE]
  /\ lock' = "geometry"
  /\ UNCHANGED <<accepted, requestOf, status, completed, failed, registry, triggerQueue,
                 geometryQueue, latest, submitted, infVars, geoVars, stopPc>>

GeoRelease ==
  /\ lock = "geometry" /\ ~MustTrim
  /\ lock' = "free"
  /\ geoPc' = "loop" /\ geoJob' = NoJob
  /\ UNCHANGED <<accepted, jobVars, registry, triggerQueue, geometryQueue, latest,
                 submitted, infVars, stopPc>>

Geometry ==
  GeoLoop \/ GeoGet \/ GeoBegin \/ GeoSucceed \/ GeoFailed \/ GeoFinally \/ GeoRelease

-----------------------------------------------------------------------------
(* stop(): the event, the two drains, the two sentinels.  The joins have a  *)
(* timeout and change nothing.                                              *)

StopSet ==
  /\ MayStop /\ stopPc = "running" /\ stopPc' = "drainTrigger"
  /\ UNCHANGED <<accepted, jobVars, registry, triggerQueue, geometryQueue, latest, lock,
                 submitted, infVars, geoVars>>

StopDrainTrigger ==
  /\ stopPc = "drainTrigger"
  /\ \/ /\ triggerQueue = <<>> /\ stopPc' = "drainGeometry"
        /\ UNCHANGED <<triggerQueue, status, done, failed>>
     \/ /\ triggerQueue # <<>> /\ triggerQueue' = Tail(triggerQueue)
        /\ Fail(Head(triggerQueue)) /\ UNCHANGED stopPc
  /\ UNCHANGED <<accepted, requestOf, completed, registry, geometryQueue, latest, lock,
                 submitted, infVars, geoVars>>

StopDrainGeometry ==
  /\ stopPc = "drainGeometry"
  /\ \/ /\ geometryQueue = <<>> /\ stopPc' = "markTrigger"
        /\ UNCHANGED <<geometryQueue, status, done, failed>>
     \/ /\ geometryQueue # <<>> /\ geometryQueue' = Tail(geometryQueue)
        /\ Fail(Head(geometryQueue)) /\ UNCHANGED stopPc
  /\ UNCHANGED <<accepted, requestOf, completed, registry, triggerQueue, latest, lock,
                 submitted, infVars, geoVars>>

StopMarkTrigger ==
  /\ stopPc = "markTrigger" /\ stopPc' = "markGeometry"
  /\ triggerQueue' = IF Has(triggerQueue, TriggerCap)
                       THEN Append(triggerQueue, Sentinel) ELSE triggerQueue
  /\ UNCHANGED <<accepted, jobVars, registry, geometryQueue, latest, lock, submitted,
                 infVars, geoVars>>

StopMarkGeometry ==
  /\ stopPc = "markGeometry" /\ stopPc' = "stopped"
  /\ geometryQueue' = IF Has(geometryQueue, GeometryCap)
                        THEN Append(geometryQueue, Sentinel) ELSE geometryQueue
  /\ UNCHANGED <<accepted, jobVars, registry, triggerQueue, latest, lock, submitted,
                 infVars, geoVars>>

Stop ==
  StopSet \/ StopDrainTrigger \/ StopDrainGeometry \/ StopMarkTrigger \/ StopMarkGeometry

Next == Http \/ Trim \/ Inference \/ Geometry \/ Stop

Spec == Init /\ [][Next]_vars

\* Both workers run until they are dead, a lock section is always finished,
\* prepare and finish return (both work under a timeout), and a stop() that
\* was entered goes on.  Clients owe nothing.  The strong forms stand for a
\* thread that waits for self.lock, or for an item, and is woken: the others
\* hold the lock for finite sections only.
FairSpec ==
  /\ Spec
  /\ SF_vars(Inference) /\ SF_vars(Geometry)
  /\ WF_vars(Trim) /\ WF_vars(SubmitReject \/ SubmitRegister \/ SubmitPut)
  /\ SF_vars(StopDrainTrigger \/ StopDrainGeometry) /\ WF_vars(StopMarkTrigger \/ StopMarkGeometry)

-----------------------------------------------------------------------------
(* Properties.                                                              *)

TypeOK ==
  /\ accepted \in 0..MaxJobs /\ completed \in Nat /\ failed \in Nat
  /\ latest \in Jobs \cup {NoJob}
  /\ requestOf \in [Jobs -> RequestIds \cup {NoRequest}]
  /\ status \in [Jobs -> Statuses] /\ done \in [Jobs -> BOOLEAN]
  /\ registry \in Seq(Jobs)
  /\ triggerQueue \in Seq(Jobs \cup {Sentinel}) /\ Len(triggerQueue) <= TriggerCap
  /\ geometryQueue \in Seq(Jobs \cup {Sentinel}) /\ Len(geometryQueue) <= GeometryCap
  /\ lock \in {"free", "submit", "geometry"}
  /\ submitted \in [request : RequestIds \cup {NoRequest}, job : Jobs \cup {NoJob}]
  /\ infPc \in InfSteps /\ infJob \in Jobs \cup {NoJob}
  /\ geoPc \in GeoSteps /\ geoJob \in Jobs \cup {NoJob}
  /\ stopPc \in StopSteps

\* The jobs in a queue, or in the registry.
Items(q) == {q[p] : p \in 1..Len(q)} \ {Sentinel}
Held == Items(triggerQueue) \cup Items(geometryQueue) \cup {infJob, geoJob, submitted.job}

\* Until the service is stopped no accepted request gets lost between the
\* queues and the workers: a job without an outcome is always held by
\* somebody who will bring it to an end.
NotLost == ~stopping => \A j \in 1..accepted : ~Decided(j) => j \in Held

\* A request id has at most one unfinished job and at most one entry, and no
\* unfinished job is evicted from the registry.
OneLiveJob ==
  /\ \A p, q \in 1..Len(registry) :
       requestOf[registry[p]] = requestOf[registry[q]] => p = q
  /\ \A j \in 1..accepted : ~done[j] => j \in Items(registry)

\* The counters of /status add up at any moment, also while stopping: what
\* was accepted has succeeded, has failed, or has no outcome yet.
CountersAddUp ==
  accepted = completed + failed + Cardinality({j \in 1..accepted : ~Decided(j)})

\* The registry grows past its capacity only when every entry is on its way,
\* which the two queues and the two workers bound.
RegistryBounded ==
  [][Len(registry') > Len(registry) /\ Len(registry') > RegistryCap =>
       \A p \in 1..Len(registry') : ~done[registry'[p]]]_vars

\* A job ends once: an outcome is never replaced by another one, and no job
\* that is done gets undone.
OutcomeFinal ==
  [][\A j \in Jobs : (Decided(j) => status'[j] = status[j]) /\ (done[j] => done'[j])]_vars

\* latest_result never goes back to a request accepted earlier.
LatestAdvances == [][latest' >= latest]_vars

\* Every accepted request gets its outcome, unless the service is stopped.
JobFinishes == \A j \in Jobs : (status[j] = "queued") ~> (done[j] \/ stopping)

\* After stop() both workers end, whichever of the sentinels found no room.
WorkersEnd == stopping ~> (infPc = "dead" /\ geoPc = "dead")
=============================================================================
