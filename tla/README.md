# Formal models of VisionOps v3

VisionOps v3 puts a camera, an RKNN inference runtime and a set of production
apps on one edge box that tells robots and PLCs what to grasp, and adds a web
collector and a training server around it. These modules model the parts of it
in which threads, processes and machines meet: who may run when, which answer
belongs to which question, and which image an answer was computed from. They
also model three decisions the robots depend on: which ring a foam ring grasp
tries next, how a visible mouth is classified, and which boxes a placement is
told about. The numeric parts (segmentation, fitting, deprojection) appear as
inputs that succeed or fail.

Run anything from this directory: `tlc -config GatewayHandshake.cfg
MCRobotGateway.tla` checks a model, `tlapm RobotGatewayProof.tla` checks proofs.
`PROJECT.json` lists runs, findings, hazards and theorems, and gives for each
definition the source lines it stands for.

## 1. The system

| Component | State it keeps | Operations | Talks to |
|---|---|---|---|
| camera bridges (`edge/camera_bridge`) | camera pipeline, latest frames, shared memory objects | publish a FrameSet, reconnect, serve snapshots | Runtime, apps (shared memory, HTTP), watchdog |
| shared memory transport (`interfaces/cpp/visionops_shared_*.hpp`) | per channel a header and two pixel buffers | store by store, load by load; no lock | bridge to Runtime, RGB-D cache, depth samplers |
| Runtime, stream worker (`edge/runtime_cpp/src/stream_worker_mock.cpp`) | camera thread, mapping, latest image and JPEG | start and stop the preview, next frame, reconnect, HTTP fallback | bridge; inference |
| Runtime, server and inference (`http_server.cpp`, `runtime_app.cpp`) | work queue, loaded model, counters, latest result | accept, infer once, switch model, preview, stop | apps by IPC/HTTP; stream worker |
| robot gateway (`production/carton_line/gateway`, `edge/modbus_adapter`) | Modbus registers, execution slot, last commands | poll triggers, run a task, write result and coordinates | PLC (Modbus), Runtime, HTTP callers |
| grasp apps (`box_grasp`, `carton_bundle`, `detergent`, `plastic_bag`) | trigger queue, result queue, continuous mode, counters | accept a trigger, infer, postprocess, send | robots (WebSocket), Runtime, depth |
| foam ring service (`foam_ring_grasp/.../service.py`) | two queues, job registry, counters, latest result | accept and retry by `request_id`, infer, fit, evict, stop | HTTP clients, Runtime, RGB-D cache |
| foam ring choice (`online_processor.py` and its stages) | per trigger: excluded rings, phase, diagnostics | attempt a visible mouth, reject and retry, go over to the rings on their side | the service's geometry worker |
| RGB-D cache (`foam_ring_grasp/.../rgbd_cache.py`) | a few recent RGB-D pairs | copy pairs, `get_exact` by capture time | shared memory, online processor |
| first layer placement (`first_layer_placement`) and the WebSocket server the grasp apps share | sessions, a trigger queue | upgrade, trigger, status, disconnect; choose boxes | robots, Runtime |
| watchdogs (`carton_line/scripts/watch_*.sh`) | failure counter, incident and reboot marker on disk | restart the bridge, reboot the box once per incident, restart a frozen preview | systemd, bridge, Runtime |
| server (`apps/server_api`), training (`training/pipeline`) | job, dataset and model records in files | create, run, cancel, delete jobs; ingest; annotate | one subprocess per job |
| tube pick, collector (`apps/collector_web`), frontends, tools | a worker; settings and datasets; none | pick; capture; show | Runtime, bridge |

What makes each correct, in short:

* **gateway**: one task at a time; one run per rising edge; a result belongs to
  the trigger it stands beside; coordinates and result agree.
* **grasp apps**: an accepted trigger is answered once, in order, or counted as
  dropped; continuous frames cannot starve one.
* **foam ring service**: one job per request id while it is alive; one outcome
  per job; nothing is stranded; jobs and workers end.
* **foam ring choice**: a ring gets one verdict per trigger; more evidence for a
  tilt never brings the flat grasp back.
* **frame transport and cache**: an accepted copy is one image, colour and depth
  are of one FrameSet, giving up is final, the cache catches up.
* **stream worker**: a running preview has a thread, nothing frozen is served as
  live, capture recovers, every call returns.
* **Runtime server**: a result is of one model, results advance, every frame is
  counted, every connection is answered or refused.
* **watchdogs**: one reboot per incident, restarts come first, a fault escalates.
* **training jobs**: success is the pipeline's, a dataset in use is kept until the
  worker lets go of it, a cancel ends the worker.
* **placement**: every trigger is answered, a robot that left gives its place
  back, one that vanished where the status loop runs, the boxes named are the top
  layer.

The hard behaviours are nearly all interleavings: a PLC and a poller on shared
registers, two threads that both take from one queue, a client that retries a
job whose outcome is being recorded, a writer that reuses a buffer while it is
copied, a model switched under an inference, a record read, changed and written
back by two calls. Crashes matter in two places: the bridge, whose shared memory
outlives it, and the watchdog scripts, whose files outlive them and the box.

## 2. Modules

| Module | What it is |
|---|---|
| `TriggerProtocol` | what a PLC may expect of one trigger/result pair of registers |
| `RobotGateway` | `service.py`, `task_executor.py`, `coordinate_mapper.py` and the register bank |
| `FoamRingService` | the foam ring trigger service |
| `OnlineGrasp` | the attempts of one foam ring trigger, over the scene's rings |
| `VisibleSurface` | the class of a visible mouth and the route of its candidate, as operators |
| `TriggerServer` | what a robot may expect of the trigger mode of a grasp app |
| `GraspPipeline` | the two-thread pipeline of the four grasp apps |
| `SharedFrames` | the bridge's publishing, and a reader's loads |
| `RgbdFrameCache` | the RGB-D cache, on top of `SharedFrames` |
| `FrameReaders` | the Runtime's capture and the carton bundle depth snapshot, on top of `SharedFrames` |
| `FrameTransport` | the bridge composed with the cache or with one of those readers |
| `StreamWorker` | the Runtime's frame source: camera thread, HTTP workers, bridge outages |
| `RuntimeServer` | the Runtime's HTTP server, its inference and its model switch |
| `CameraWatchdog` | the two bridge watchdogs and the preview watchdog, with their files |
| `TrainingJobs` | one training job: the service's calls, the worker, the child, the dataset |
| `PlacementService` | the WebSocket server with the placement app's worker and status loop |
| `SurfaceSelection` | the placement's choice of boxes, trays and held box, with what it should be |
| `VisionProof` | theorems about `OnlineGrasp`, `FrameTransport` and `PlacementService` |
| `*Proof` (the others) | theorems about the module of that name |
| `MC*` | the same modules for TLC |

Definitions keep the source's names where possible. A definition whose comment
begins with "Mutant" is a plausible mistake in the definition below it, with which
the property it is listed with in `PROJECT.json` fails.

**RobotGateway.** One action is one access of a thread to the register bank or one
section under the state lock, because the bank locks once per call and
`GatewayState` once per method. `Poll*` are the steps of `_poll_loop`; for each
register in turn it looks at the trigger, erases the result when the trigger is
0, and re-arms `last_commands` (`PollLook`, `PollErase`), then tests `busy`, copies
the commands and picks a fresh one. `Run*` are the steps of `_execute_reserved`
in a worker thread or in the thread of an HTTP caller. The PLC may write at any
moment. With `PlcWaits` it raises a trigger only when the result is cleared and
keeps it until a result shows; without it it does what it likes. `edge`, `raises`,
`attempts` and the run numbers are history variables. The heartbeat register,
diagnostic records and geometry are left out.

**FoamRingService.** One action is one section under `self.lock`, one queue
operation, or one stage of a worker. Clients post request ids, and post them again
whenever they like. `submit` holds the lock over several steps because `put_nowait`
can raise inside it; the `Trim` of the registry is part of the lock section it
follows. `stop` drains both queues while workers may be between taking an item and
handing it over. A job's `status` is its outcome, `done` its event.

**OnlineGrasp, VisibleSurface.** A scene gives each ring the verdicts the stages
would reach about it: what is seen of its mouth, the evidence for a tilt, the
measured surface, whether a side axis can be had. One action is one attempt of
`_finish_locked`: the target the candidates name, its route, and what a rejection
at that point excludes. `Scope` is the set of rings an attempt may look at.
`VisibleRaises` is the attempt that ends in an exception. Before a ring is tried on
its side, its number is looked up among those tilted or refused.

**GraspPipeline.** Sessions put triggers in the queue and acknowledge afterwards.
The inference thread serves triggers before continuous frames; the postprocess
thread answers them. The variable `evicts`, which never changes, is the way a
trigger's packet enters the bounded result queue: `FALSE` is box grasp and carton
bundle, which wait with a timeout and count a drop; `TRUE` is detergent and plastic
bag, which evict a continuous packet and put a trigger's packet back. A continuous
packet that finds the queue full steals the oldest, and puts it back at the tail
when it belongs to a trigger. `TriggerServer` is the abstract view, a line of
triggers served from its head.

**SharedFrames, RgbdFrameCache, FrameReaders, FrameTransport.** The bridge stores,
for each image, the two halves of the pixels, then `active_buffer`,
`timestamp_epoch_ms` and `sequence`, each in a step of its own. Readers load the
same words in the order their code does: a reader is a script, a sequence of words,
of which the last ones are loaded again and compared. A FrameSet is its number,
which stands for its capture time; an image is the FrameSets its halves show, so
that a torn or mislabelled image is visible. The watchdog may kill the bridge
between any two stores; the new process zeroes the object in place when it publishes
its first image. `overtaken` is a history variable: a new FrameSet arrived in the
middle of a copy. `FrameTransport` follows one reader at a time, since readers write
nothing that others see: it has the only complete specification, `TransportSpec`, made
of the cache's `CacheNext` and the other readers' `ReaderStep`.

**StreamWorker.** A frame is its age, counted in stale timeouts, twice: since its
capture and since the time written on it. The camera thread opens, reads, stores,
counts failures and reconnects; HTTP workers start, stop, or ask for a frame, and
share the mapping and the fallback with it without a lock. A reset mapping that is
then read is a restart of the process (`Restart=always`). Torn copies are left to
`FrameReaders`.

**RuntimeServer.** An acceptor, a bounded queue and workers; each worker reads a
request, routes it and answers. `infer_once` is followed through the inference and
model locks with every way out, exceptions included; `switch_model` replaces the
description and the runner in two steps. `made` records which model versions a
result was computed with.

**CameraWatchdog.** Each file write of a script is a step, and so are the probes and
the calls of `systemctl`. `disk` is what a power failure would leave: an earlier
content of the files, at least as new as the last `sync`. A clock set back turns old
times into recent ones. `Variants` chooses the Orbbec script, which syncs its
marker, or the HP60C script, which does not. A variable of the specification only,
`orphan`, remembers that the marker was left by a script that was killed, shut down or
lost its power before its reboot was accepted: that, and not the marker itself,
excuses a fault from its reboot in `FaultEscalates`.

**TrainingJobs.** One job with its record, its worker thread, its child process and
the dataset's usage marker. Every read and every write of `job.json` is a step
(`io`, `copy`), because only some of them are under the lock and none is a rename. The
child is `run_pipeline.py`, with its own status file, which `get_job` and the worker
copy. It runs a program of its own for a stage (`trainer`, `run_command`), which reads
the same dataset; the worker and its `terminate()` know of `run_pipeline.py` only, so
that the trainer may outlive both.

**PlacementService, SurfaceSelection.** A thread per connection, one worker, and
a status loop and a greeting if the settings ask for them (`status`, fixed at the start). A robot is up, has left (its end is closed) or has vanished (nothing
will ever come from it, and sends to it succeed until the buffer is full). The
selection is given as operators that follow the code's sort, cut and truncation,
beside a definition without sorting of what the answer should be (`IsSelected`). A sort
is `InOrder`: each element at the place that the number of those before it gives, so
that it can be reasoned about; ties are broken as Python's stable sort breaks them.

## 3. Runs

| Run | Question | Bounds |
|---|---|---|
| `gateway_handshake` | is a waiting PLC always answered, for its own trigger, and does the gateway implement `TriggerProtocol`? | 2 tasks, 2 rising edges each, one coordinate slot |
| `gateway_contention` | do slot, edge detection and registers survive a PLC at will, an HTTP caller and failing thread starts? | 1 edge per task, 1 HTTP call |
| `foam_ring` | are jobs neither lost nor ended twice, does every job and every worker end, whatever retries and the stop do? | 2 ids, 3 jobs, queues 2 and 1, registry 1 |
| `foam_ring_choice` | does each ring get one verdict, and does more evidence for a tilt never bring the flat grasp back? | 3 rings with 36 verdicts each; one ring with all evidence and surfaces; 3 visible, 2 side attempts |
| `grasp_pipeline` | is every accepted trigger answered once, in order, or counted, although continuous frames never end, in either variant? | 3 triggers, queues 2 and 1 |
| `frame_transport` | are images whole and prompt pairs exact, is giving up final, does the cache catch up? | 3 FrameSets, 1 restart, 2 cached pairs |
| `stream_worker` | does a preview have its thread, is nothing frozen served, does capture recover and every call return? | 1 controlling worker, 1 inferring, 1 outage, 3 calls, threshold 2 |
| `camera_watchdog` | one reboot per incident, restarts before it, escalation, no frozen preview? | threshold 2, 1 mishap, both scripts |
| `training_jobs` | is success real, a dataset in use kept until its worker lets go, does a cancel end the worker? | one job, three sets of calls beside the worker |
| `training_unprotected` | is a dataset in use by a child there? (violated, see 5) | as above |
| `runtime_server` | is a result of one model, do results advance, are frames accounted, is every client answered? | 2 workers, queue 1, 3 clients in three mixes |
| `placement` | is every trigger answered, is the place of a gone robot freed, is the selection correct? | status messages off, as shipped, and on, as by default; 2 robots, 1 place, queue 1, 3 triggers; all scenes of up to 3 boxes |

Why the bounds are enough. The *gateway* has one slot, so two runs and the two
sides of one edge show every overlap; a second edge is needed for an old result
to meet a new trigger. The *foam ring* registry in the code holds at least 8
entries while 10 jobs can be in flight (two queues of 4, two workers); the model keeps
that relation at 1 against 5 places, so a registry full of unfinished jobs happens. In
the *choice*, three rings are needed for a rejection with a second and a third target,
and two side attempts for the limit to end them. The *grasp* queue is configured with
one place; three triggers fill the queue, the hand of the inference thread and that of
the postprocess thread. In *SharedFrames* two FrameSets are what a double buffer needs
to come back to the same buffer and the third is the one that overwrites it. A copy has
two halves because the smallest torn image has. In the *stream worker* one outage is
enough for a thread to be at any step when it begins; two controlling workers would
race for the preview, which the code does not prevent: `PreviewHasThread` is then
false, and the theorem says that it needs one. In the *watchdog* one kill or power failure
falls between any two writes. In the *Runtime* two workers show every overlap of two
inferences and of an inference with a switch, and with three clients for two workers
and one place the queue is full. In the *placement* two robots for one place make
the limit bite, and the depths chosen are equal, on the limit and beyond it.

Deadlock is checked in the runs of the frame transport, the watchdog, the stream
worker and the placement. It is not in the others, because there the system may come to
rest: a PLC that has used its edges, a stopped service, robots that have sent their
triggers, a trigger that has its answer, a finished job.

`SelectionCorrect` quantifies over what is asked for (`Selections`: detections and
settings), not over states: it is asserted of the states in which no client has connected
yet, so that TLC evaluates it once for each. The run has up to three boxes with depths
around the limits for every cut, and boxes on and off the tray for every setting of the
region. `SelectionsAssumption` says only what the code makes true: depths, scores and
areas are not negative, the gap and the number of targets are at least 1.

## 4. Fairness

* Gateway: weak fairness of the poller and of each running task. Both are plain
  loops and straight-line code with bounded timeouts; PLC, callers and the stop owe
  nothing.
* Foam ring: weak fairness of lock sections; strong fairness of the two workers and of
  the drain loop, which stand for threads blocked on the lock or on a queue that others
  hold only for finite sections.
* Grasp: weak fairness of both threads, and strong fairness of the postprocess
  thread's take: between two turns of `_enqueue_trigger_packet` the queue
  stays full for 0.1 s, in which a thread blocked in `get()` is woken.
* Frame transport: weak fairness of the cache's thread, which sleeps at most some tens
  of milliseconds. The camera owes nothing.
* Stream worker: weak fairness of the camera thread and of each worker, of the bridge's
  start (systemd restarts it), of its publishing and of the camera's return: outages
  are bounded, as `CaptureRecovers` asks about what follows the last one.
* Watchdog: weak fairness of the scripts (timers) and of time; strong fairness of a
  reboot's acceptance: one that is asked for again and again is accepted in the end.
  The bridge owes nothing.
* Training: weak fairness of the worker, except of reading another line of output; of
  record reads and writes, of a cancel that has begun, and of the end of
  `run_pipeline.py` after SIGTERM, for which it has no handler. Without it a stage may
  train for ever, and the trainer's end is never assumed.
* Runtime: weak fairness of each worker and of the acceptor's enqueueing and stop.
  Clients are finitely many; with an endless stream nothing is promised of the queue.
* Placement: weak fairness of each thread (of the status loop where the settings start
  it: as shipped they do not), of the end of a stream and of a closed socket
  waking the reader; strong fairness of the failure of sends to a robot that vanished:
  the buffer fills or the connection times out in the end.

## 5. Findings

One run expects a violation.

* `training_unprotected`: `delete_dataset` looks for references and removes the
  directory in two steps, `acquire_training_reference` looks for the directory and
  writes its marker in two steps, and no lock is held over both. A delete that looked
  before the marker was written removes the dataset of a child that reads it, although
  `dataset_service.py:67` says the marker protects a dataset in active use. `DatasetKept`
  says how far the protection goes.

The worker's release of the marker is the other end of that protection, and it comes too
early. `training_job_service.py:170` says the worker releases the dataset "after the child
process has actually exited, avoiding a delete/read race", and `dataset_service.py:107`
that "A canceled job may still be shutting down and reading the dataset; its worker
removes the marker only after the child process has exited." The process that has exited
is `run_pipeline.py`. The program that trains is that one's own subprocess
(`training/pipeline/common.py:175`, neither a process group nor a handler), so
`proc.terminate()` (`training_job_service.py:164`) leaves it running. In `TrainingJobs`:
`StageStarts`, `CancelJob`, `Terminated`, `OutputEnds` (the pipe of `run_pipeline.py` has
ended), the worker's last reads, `Forget`, `Release`; then `CheckReferences` finds no marker
and `RemoveDataset` removes what the trainer reads, until a write to its broken pipe ends
it (`StageEnds`). This is why `DatasetKept` speaks of the time until the worker is done and
not of the time until `InUse` is false. The stronger property, that no deletion begins
while `trainer` holds unless the job is deleted, is false: TLC finds this trace in the
instance of `training_jobs`.
An error on the child's output (227-235) leads to the same with `run_pipeline.py` itself
still running.

What else was met while modelling, and is in the models without a finding of its own:

* Placement: the client's read timeout only goes on (`websocket_server.py:301`), so that the
  place of a robot that vanished is freed by a send that fails, in practice the status
  loop's. The shipped configuration turns that loop off (`line.yaml:79`; `PROTOCOL.md:299` of
  `first_layer_placement` says so and `test_trigger_websocket_status_is_disabled_by_default`
  asserts it; `service.py:472` then starts no thread and 983 returns), and nothing is sure
  to free the place: as many vanished robots as `max_clients` keep every later one out.
  `SlotFreed` therefore promises it where the loop runs, and for a robot that closed its end
  in both settings.
* RGB-D cache: the second loads take the sequence first and the active buffer and
  time afterwards; two FrameSets later the active buffer is the same again. A copy that
  the bridge overtakes can therefore be cached under the time of another FrameSet
  (`rgbd_cache.py:460`; the docstring at line 12 asks for one FrameSet).
  `PromptPairIsOneFrameSet` has the absence of overtaking as its premise, and that the
  pair has a time: two restarts within one copy can leave a pair of zeroed objects in
  the cache, under the time 0, which `get_exact` refuses to be asked for
  (`rgbd_cache.py:583`).
* The Runtime compares neither the active buffer nor the time, so the capture time it
  reports can be that of a neighbouring FrameSet; the image itself is whole.
* The depth snapshot of the carton bundle app can be torn, because its active buffer is
  loaded before the sequence and need not match it; `SnapshotOfPublished` says that
  this match is all that is missing. The samplers of the other apps check less.
* Grasp apps: the detection can reach the robot before the acknowledgement that
  `PROTOCOL.md:51` puts first, and box grasp and carton bundle can give up a trigger they have
  acknowledged. With a result queue of two or more, which the configuration accepts
  (`carton_palletizing/config.py:606`), a trigger that is taken back goes behind a
  younger one and is answered after it: `ServesInOrder` holds for a queue of one, which
  every app ships with, and fails for a queue of two.
* Foam ring choice: a retry needs another pair with pose strategy
  `m38_1_front_annulus`, but the pairs deferred behind the first visible ring do not
  carry one (`geometry.py:5595`), so a first target that is rejected late leaves other
  visible rings untried (`online_processor.py:1283` against the comment at 964). A
  pseudo-mouth candidate ends the visible attempts, so rings on their side are
  tried before other visible ones.
* Foam ring choice: in `visible_mouth_axis_m3950.py:520` the name `branch` is bound only
  when the ring has an item in the attempt's scene; a retry without a candidate that
  falls back to the excluded ring raises. The service ends that job with an error. The
  comment at 405 wants a second cue for a steep conic; the code at 839 sends one to the
  side without it.
* Stream worker: `stop_thread_` stays set after `stop_preview`, so direct reads after it
  leave shared memory at once for the fallback.
* First layer placement: a fault message counts its own frame number up, and the next
  detection carries the Runtime's, which may be the same or smaller
  (`service.py:603`); no text of that app promises an order.
* Watchdog: with a bridge that accepts connections and does not answer, the polls of the
  recovery take longer than the unit's `TimeoutStartSec`, and each run of the script is
  killed before it counts.
* Gateway: a result published while a PLC that does not wait has lowered and raised
  its trigger again is read as the answer to the new one; nothing in a register tells
  the two apart.

## 6. What is proved

Proofs hold for every value of the constants, under the named assumptions of
the modules only.

**Gateway.** `TypeInvariant`, then `MutualExclusion` on top of it: `begin` is the
only way into the slot and `finish` the only way out of it. `RunsPerEdge` needs the
strengthening `EdgeInv`: a re-armed command whose trigger is up, or was copied while it
was up, has not been polled for this edge. `CoordinatesCoherent` and `ReportsAgree` share
`ResultInv`: while a run is between its reset and its result, its result register is
empty, the slots it has written carry its number, and a result whose decision is
not recorded yet has a run that is about to record it. `AnswersTrigger`, `ResultsStay`
and `ProtocolRefinement` assume a PLC that waits and no HTTP callers (without that
they are false) and rest on `HandshakeInv`, which says that what the poller has seen is
still so, and that a run's command is the one still in the trigger register.

**Foam ring service.** Everything follows from `PipelineInv`: `HandsInv` says
which job each thread holds at each step, `LineInv` that the jobs in the geometry
worker, its queue, the inference worker, its queue and in `submit` are in the
order of acceptance and are pairwise different, `OpenInv` that all of them are
undecided and younger than the latest result. `StepEffect` then says once what a step can do
to outcomes, counters and `latest_result`; `CountersCorrect`, `OutcomesStay` and
`LatestMovesForward` are its consequences. `NothingLost` adds `KeptInv` (before the stop
a `submit` that has accepted a job finds room), `OneEntryPerRequest` and
`RegistryKeepsItsBound` add `RegistryInv` (no two entries of one request, an entry for each
unfinished job). `LineInv` is needed because without it a job could be decided by two threads.

**Foam ring choice.** `VerdictsStand`: `OneVerdict` for every scene, any number of rings
and any limits. The strengthening says what the phase remembers: before the side
attempts every target tried is excluded (`VisibleAttempts`); during them every side tried
is refused, and a tilted mouth that was tried is excluded or tilted (`SideAttempts`).

`FlatGraspsStand`: `TiltNeverFlattens` is monotony of the classification. A ring grasped
flat has one of three reasons (`FlatGraspHasReason`), and each of them stands when the
evidence looks less tilted.

**Grasp pipeline.** `NothingLostSilently`: `NoSilentLoss` for any triggers and queue
sizes, in both variants. `Hands` says what each thread holds at each step, above all
that the place of a packet taken back is still free when it is put back, because no other
thread appends; `Accounted` that a trigger's number of places and answers is at most
one, and zero before it was accepted. The rest is counting: a step takes a trigger
from one summand of `Places` and adds it to another (`CountAppend`, `CountTail`).
`ServedInOrder` is the refinement of `TriggerServer`, `ServesInOrder`, for any triggers
and any trigger queue, assuming that the result queue has one place. The line is then a
concatenation of at most one trigger from each hand, and a step that moves a trigger from
hand to hand leaves it as it was (`InferenceKeepsLine`); a send takes its head
(`PostprocessServes`), a timeout closes the gap (`TimeoutLoses`), and a trigger that is
accepted is nowhere in it (`SessionServes`, from `Accounted`).

**Frame transport.** `PromptPairs`, `WholeImages`, `GiveUpsStand` and `SnapshotsPublished`,
for any number of FrameSets, cached pairs and, for the cache, restarts; the readers that
compare only the sequence are followed without a restart, as in the model. The
invariant `FramesInv` has three parts. `BridgeFacts` (`ChannelInv` for each channel): the
buffer of the published sequence is whole, and so is the active one; the two differ only
between the stores of `active_buffer` and `sequence`; stamps are older than the current
FrameSet while its publication is pending. `CacheFacts` is about the copy under way:
while the stamp loaded first is still the channel's, the words and halves loaded since are
those of one buffer (`CopyInv`); `HeldInv` and `CacheInv` say the same of the colour image
that waits for its depth image and of the pairs cached. That the second loads
conclude anything rests on `StampMoves`: a stamp only grows or falls to zero, so one that is
the same before and after was there all the time. `RInv` is about the readers that compare
the sequence (`RuntimeInv`, `SamplerInv`). For `GiveUpIsFinal`, `GiveUpInv` says that every
time given up lies below all that can still be read (`Floor`).

**Stream worker.** `NothingFrozenServed` from `LiveInv`: the time written on a frame is
never more than one stale timeout younger than its capture, in a thread's hand, in
`latest` and in the JPEG cache alike. `PreviewOfOneControl`: with one controlling worker,
`PreviewHasThread`, from `ControlInv`, which ties the thread, the flags and the worker's
place in `start_preview` and `stop_preview` together.

**Runtime server.** `OneModelPerResult`, `ResultsAdvance` and `AllFramesCounted`. `LockInv`
says where each lock is held, `ModelInv` that description and runner differ only while
a switch is between its two steps, `NumberInv` that the inference under way has the last
number; `CountInv` adds the balance of frames, with finite-set arithmetic over the workers.

**Training jobs.** `SuccessOfThePipeline` needs that no copy in any call's hand says
success before the pipeline did, however old it is (`Honest`). `DatasetOfTheJob` says that
no deletion begins of a dataset which `run_pipeline.py` or its trainer reads, from the
marker to the worker's release. It needs that until that release, and unless the job is
deleted, the marker is there or a delete has passed its look (`Protected`), that the job's
record exists since before the marker was written (`Written`), and that nothing reads
before the worker has started (`Order`). Of a trainer that reads after the release it says
nothing, as nothing protects it (section 5).

**Watchdog.** `RebootsOnce` rests on `Marker` and `Issued`: a reboot issued in an incident
has left its marker, for the Orbbec script on the disk too, and the steps that write or
remove a marker are reached only without such a reboot. `RestartsFirst` rests on
`CountInv`: for the Orbbec script the count equals the history of failed restarts, in
memory and on disk, because it is cleared before the marker.

**Placement.** `SelectionIsCorrect`: `SelectionCorrect` for any detections and settings.
`Sorted` is the lemma it rests on: by any total order on a finite set, `InOrder` is a
sequence of all its elements, each once, the earlier ones first (ranks are an injection
into as many places as there are elements, so they leave none empty); the five sort keys
are shown to be such orders. `CutAtFirstGap` is about sorted numbers alone: those before
the first that is too far from its predecessor or from the nearest are exactly those
reached from the nearest without a gap and within the span. From these two follow the top
layer (`ClusterIsTopLayer`), the strongest of it when there are too many
(`StrongestOfCluster`), their order (`ImageOrder`), the tray (`BestTrayIsBest`) and the held
box in both modes.

**Only model-checked.** All liveness properties: they need fairness and are outside the
proof system. Every safety property of the passing runs, the refinements included, is a
theorem.

**Only proved.** `LatestMovesForward`, `CountersCorrect`, `RegistryKeepsItsBound` and
`ReportsAgree` are theorems without a run of their own.

## 7. What is not modelled

`PROJECT.json` lists every component with its status. Beside whole components:

* memory ordering of the ARM boards: loads and stores happen in program order;
* clocks that are set back, outside the watchdog: capture times only grow;
* resolution changes, intrinsics and calibration of an image; `memset` of a re-created
  object is one step;
* WebSocket framing: a message is read and sent whole. In the code a read timeout
  within a frame discards what was read, and a send that times out leaves a piece of a
  frame on the stream;
* the client limit is tested before the session joins: `PlacementService` has the
  excess, and no property needs the limit to be exact;
* after the stop of the foam ring service a submit that races it can strand a job;
  `NotLost` is stated until the stop;
* the synchronous `evaluate_once` of the grasp apps, which shares status flags with the
  pipeline, and their serial mode;
* an endless stream of HTTP calls to the gateway, which could keep the slot busy at
  every poll;
* a full disk under a training log ends the worker with the child still running, a
  terminated `run_pipeline.py` leaves its trainer running, and two writers without a
  rename can leave a `job.json` that does not parse: these outcomes are in the model, and
  the properties say in their premises where they stop;
* reading a destroyed runner in `infer_once` while a switch replaces it, and the
  `mode` two previews of two workers may leave: reported only;
* the stop and the configuration messages of the placement service, which change no
  trigger in flight other than by ending the process or filtering its detections.

Numeric code (plane, ellipse and cylinder fits, template matching, deprojection,
matching of detections to slots: the largest files of the repository) has no finite
instance that would say anything about it; its verdicts are inputs. Frontends,
file-based data services, the offline training commands and the tools are sequential code
around files and third-party programs.

## 8. Plan

Done, most important behaviour first: gateway with its protocol; foam ring service;
grasp pipeline; shared frames with the cache and its other readers; stream worker;
Runtime server; watchdogs; training jobs; placement with its selection; the foam ring
choice; and the proofs of section 6.

Left:

1. Timed capture of the collector and the data services of the server, with their
   locks and file replacements.
2. WebSocket framing under timeouts, with reassembly against a reference definition.
