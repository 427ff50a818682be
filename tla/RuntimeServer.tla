---------------------------- MODULE RuntimeServer ----------------------------
(* The HTTP server of runtime_cpp and the calls its workers make into        *)
(* RuntimeApp: inference under the inference and the model lock, the switch  *)
(* of the model, start and stop of the preview, and the stop of the server.  *)
(* Requests that only read are left out, but for a bad one.  The model is    *)
(* its version and whether it is usable; a frame, a tensor and a result are  *)
(* what they were made with.                                                 *)
EXTENDS Naturals, Sequences, FiniteSets

CONSTANTS Clients,        \* connections, each with one request
          Requests,       \* what they may request: a set of functions to Kinds
          Workers,        \* worker_count_ threads
          QueueCapacity,  \* queue_capacity_
          NONE

Kinds == {"infer", "switch", "start", "stop"}

ASSUME RequestsAssumption == Requests \subseteq [Clients -> Kinds]
ASSUME CapacityAssumption == QueueCapacity \in Nat \ {0}
ASSUME WorkersAssumption == IsFiniteSet(Workers)
ASSUME NoneAssumption == NONE \notin Workers \cup Clients

VARIABLES
    kind,          \* what each connection requests
    client,        \* where each connection is
    queue,         \* client_queue_
    accepting,     \* the thread of run(): "poll", "stop", "join", "stopped", or a client it accepted
    stopRequested, \* SIGTERM was received
    stopping,      \* workers_stopping_
    serving,       \* the client of each worker
    pc,            \* what each worker does next
    inferLock,     \* holder of inference_mutex_
    modelLock,     \* holder of model_mutex_
    info,          \* model_info_
    runner,        \* rknn_runner_
    sequence,      \* RuntimeState: sequence_ and frames_in
    inferred,      \* frames_inferred
    errors,        \* errors
    mode,          \* mode_
    latest,        \* latest_result_json_: its sequence and the versions it was made with
    work,          \* each worker's inference: its number, the versions it used so far
    preview        \* the stream worker's preview

server == <<kind, client, queue, accepting, stopRequested, stopping, serving>>
locks == <<inferLock, modelLock>>
model == <<info, runner>>
state == <<sequence, inferred, errors, mode, latest>>
vars == <<server, pc, locks, model, state, work, preview>>

WorkerPlaces == {"wait", "read", "answer", "ended", "infer", "begin", "package", "frame",
                 "loaded", "lock", "preprocess", "run", "complete", "thrown",
                 "switch", "prepare", "info", "runner", "start", "started", "stop", "stopped"}
Fates == {"outside", "accepted", "queued", "active", "answered", "refused", "dropped"}
Version == Nat
NoWork == [seq |-> 0, made |-> {}]
Model == [version : Version, usable : BOOLEAN]

TypeOK ==
    /\ kind \in Requests
    /\ client \in [Clients -> Fates]
    /\ queue \in Seq(Clients) /\ Len(queue) <= QueueCapacity
    /\ accepting \in {"poll", "stop", "join", "stopped"} \cup Clients
    /\ stopRequested \in BOOLEAN /\ stopping \in BOOLEAN /\ preview \in BOOLEAN
    /\ serving \in [Workers -> Clients \cup {NONE}]
    /\ pc \in [Workers -> WorkerPlaces]
    /\ inferLock \in Workers \cup {NONE} /\ modelLock \in Workers \cup {NONE}
    /\ info \in Model /\ runner \in Model
    /\ sequence \in Nat /\ inferred \in Nat /\ errors \in Nat
    /\ mode \in {"idle", "detect", "preview", "error"}
    /\ latest \in [seq : Nat, made : SUBSET Version]
    /\ work \in [Workers -> [seq : Nat, made : SUBSET Version]]

Init ==
    /\ kind \in Requests
    /\ client = [c \in Clients |-> "outside"]
    /\ queue = <<>> /\ accepting = "poll"
    /\ stopRequested = FALSE /\ stopping = FALSE
    /\ serving = [w \in Workers |-> NONE]
    /\ pc = [w \in Workers |-> "wait"]
    /\ inferLock = NONE /\ modelLock = NONE
    /\ \E ok \in BOOLEAN : info = [version |-> 0, usable |-> ok] /\ runner = info
    /\ sequence = 0 /\ inferred = 0 /\ errors = 0
    /\ mode = "idle" /\ preview = FALSE
    /\ latest = NoWork
    /\ work = [w \in Workers |-> NoWork]

-----------------------------------------------------------------------------
(* HttpServer.                                                               *)

Signal ==
    /\ ~stopRequested
    /\ stopRequested' = TRUE
    /\ UNCHANGED <<kind, client, queue, accepting, stopping, serving, pc, locks, model, state, work, preview>>

Accept(c) ==
    /\ accepting = "poll" /\ ~stopRequested
    /\ client[c] = "outside"
    /\ client' = [client EXCEPT ![c] = "accepted"]
    /\ accepting' = c
    /\ UNCHANGED <<kind, queue, stopRequested, stopping, serving, pc, locks, model, state, work, preview>>

HasRoom == Len(queue) < QueueCapacity

\* enqueue_client, and the 503 of the acceptor when there is no room.
Enqueue(c) ==
    /\ accepting = c
    /\ IF HasRoom
       THEN /\ queue' = Append(queue, c)
            /\ client' = [client EXCEPT ![c] = "queued"]
       ELSE /\ queue' = queue
            /\ client' = [client EXCEPT ![c] = "refused"]
    /\ accepting' = "poll"
    /\ UNCHANGED <<kind, stopRequested, stopping, serving, pc, locks, model, state, work, preview>>

\* The loop ends on a stop, or when poll fails.
LeaveLoop ==
    /\ accepting = "poll"
    /\ accepting' = "stop"
    /\ UNCHANGED <<kind, client, queue, stopRequested, stopping, serving, pc, locks, model, state, work, preview>>

StopWorkers ==
    /\ accepting = "stop"
    /\ stopping' = TRUE
    /\ accepting' = "join"
    /\ UNCHANGED <<kind, client, queue, stopRequested, serving, pc, locks, model, state, work, preview>>

\* All workers are joined; what they left in the queue is closed unanswered.
JoinWorkers ==
    /\ accepting = "join"
    /\ \A w \in Workers : pc[w] = "ended"
    /\ client' = [c \in Clients |-> IF client[c] = "queued" THEN "dropped" ELSE client[c]]
    /\ queue' = <<>>
    /\ accepting' = "stopped"
    /\ UNCHANGED <<kind, stopRequested, stopping, serving, pc, locks, model, state, work, preview>>

Goto(w, place) == pc' = [pc EXCEPT ![w] = place]

Take(w) ==
    /\ pc[w] = "wait" /\ queue # <<>>
    /\ serving' = [serving EXCEPT ![w] = Head(queue)]
    /\ client' = [client EXCEPT ![Head(queue)] = "active"]
    /\ queue' = Tail(queue)
    /\ Goto(w, "read")
    /\ UNCHANGED <<kind, accepting, stopRequested, stopping, locks, model, state, work, preview>>

\* Mutant of WorkerEnds.
WorkerEndsAtOnce(w) ==
    /\ pc[w] = "wait" /\ stopping
    /\ Goto(w, "ended")
    /\ UNCHANGED <<server, locks, model, state, work, preview>>

WorkerEnds(w) ==
    /\ pc[w] = "wait" /\ stopping /\ queue = <<>>
    /\ Goto(w, "ended")
    /\ UNCHANGED <<server, locks, model, state, work, preview>>

\* handle_client: a request that cannot be read in time is answered 400, as a
\* switch without a model_dir.
Read(w) ==
    /\ pc[w] = "read"
    /\ pc' \in {[pc EXCEPT ![w] = kind[serving[w]]], [pc EXCEPT ![w] = "answer"]}
    /\ UNCHANGED <<server, locks, model, state, work, preview>>

\* An exception left a route: locks are free again, record_error and a 500.
Thrown(w) ==
    /\ pc[w] = "thrown"
    /\ errors' = errors + 1 /\ mode' = "error"
    /\ Goto(w, "answer")
    /\ UNCHANGED <<server, locks, model, sequence, inferred, latest, work, preview>>

Answer(w) ==
    /\ pc[w] = "answer"
    /\ client' = [client EXCEPT ![serving[w]] = "answered"]
    /\ serving' = [serving EXCEPT ![w] = NONE]
    /\ Goto(w, "wait")
    /\ UNCHANGED <<kind, queue, accepting, stopRequested, stopping, locks, model, state, work, preview>>

-----------------------------------------------------------------------------
(* RuntimeApp::infer_once.                                                   *)

\* Mutant of LockInference.
LockInferenceShared(w) ==
    /\ pc[w] = "infer"
    /\ Goto(w, "begin")
    /\ UNCHANGED <<server, locks, model, state, work, preview>>

LockInference(w) ==
    /\ pc[w] = "infer" /\ inferLock = NONE
    /\ inferLock' = w
    /\ Goto(w, "begin")
    /\ UNCHANGED <<server, modelLock, model, state, work, preview>>

BeginInference(w) ==
    /\ pc[w] = "begin"
    /\ sequence' = sequence + 1
    /\ mode' = "detect"
    /\ work' = [work EXCEPT ![w] = [seq |-> sequence + 1, made |-> {}]]
    /\ Goto(w, "package")
    /\ UNCHANGED <<server, locks, model, inferred, errors, latest, preview>>

\* Mutant of CompleteError.
CompleteUncounted(w) ==
    /\ latest' = [seq |-> work[w].seq, made |-> {}]
    /\ mode' = "error"
    /\ inferLock' = NONE
    /\ modelLock' = IF modelLock = w THEN NONE ELSE modelLock
    /\ work' = [work EXCEPT ![w] = NoWork]
    /\ Goto(w, "answer")
    /\ UNCHANGED <<server, model, sequence, inferred, errors, preview>>

\* complete_inference_error, then both locks are released.
CompleteError(w) ==
    /\ errors' = errors + 1
    /\ latest' = [seq |-> work[w].seq, made |-> {}]
    /\ mode' = "error"
    /\ inferLock' = NONE
    /\ modelLock' = IF modelLock = w THEN NONE ELSE modelLock
    /\ work' = [work EXCEPT ![w] = NoWork]
    /\ Goto(w, "answer")
    /\ UNCHANGED <<server, model, sequence, inferred, preview>>

\* An exception releases the locks and completes nothing.
Throw(w) ==
    /\ inferLock' = IF inferLock = w THEN NONE ELSE inferLock
    /\ modelLock' = IF modelLock = w THEN NONE ELSE modelLock
    /\ work' = [work EXCEPT ![w] = NoWork]
    /\ Goto(w, "thrown")
    /\ UNCHANGED <<server, model, state, preview>>

GoOn(w, place) == Goto(w, place) /\ UNCHANGED <<server, locks, model, state, work, preview>>

CheckPackage(w) ==
    /\ pc[w] = "package" /\ modelLock = NONE
    /\ IF info.usable THEN GoOn(w, "frame") ELSE CompleteError(w)

NextFrame(w) ==
    /\ pc[w] = "frame"
    /\ GoOn(w, "loaded") \/ CompleteError(w) \/ Throw(w)

\* rknn_runner_->is_loaded() without the model lock: while a switch replaces
\* the runner it may look at an object that is gone, and find anything.
CheckLoaded(w) ==
    /\ pc[w] = "loaded"
    /\ LET replaced == \E v \in Workers : pc[v] = "runner" IN
       \/ (runner.usable \/ replaced) /\ GoOn(w, "lock")
       \/ (~runner.usable \/ replaced) /\ CompleteError(w)

LockModel(w) ==
    /\ pc[w] = "lock" /\ modelLock = NONE
    /\ modelLock' = w
    /\ Goto(w, "preprocess")
    /\ UNCHANGED <<server, inferLock, model, state, work, preview>>

\* Mutant of Preprocess.
PreprocessUnlocked(w) ==
    /\ pc[w] = "preprocess"
    /\ \/ /\ work' = [work EXCEPT ![w] = [seq |-> work[w].seq, made |-> {info.version}]]
          /\ modelLock' = NONE
          /\ Goto(w, "run")
          /\ UNCHANGED <<server, inferLock, model, state, preview>>
       \/ CompleteError(w) \/ Throw(w)

Preprocess(w) ==
    /\ pc[w] = "preprocess"
    /\ \/ /\ work' = [work EXCEPT ![w] = [seq |-> work[w].seq, made |-> {info.version}]]
          /\ Goto(w, "run")
          /\ UNCHANGED <<server, locks, model, state, preview>>
       \/ CompleteError(w) \/ Throw(w)

Run(w) ==
    /\ pc[w] = "run"
    /\ \/ /\ work' = [work EXCEPT ![w] = [seq |-> work[w].seq,
                                           made |-> work[w].made \cup {runner.version}]]
          /\ Goto(w, "complete")
          /\ UNCHANGED <<server, locks, model, state, preview>>
       \/ CompleteError(w) \/ Throw(w)

\* Postprocessing and the label of the result take the model's description.
Complete(w) ==
    /\ pc[w] = "complete"
    /\ \/ /\ inferred' = inferred + 1
          /\ latest' = [seq |-> work[w].seq, made |-> work[w].made \cup {info.version}]
          /\ inferLock' = NONE /\ modelLock' = NONE
          /\ work' = [work EXCEPT ![w] = NoWork]
          /\ Goto(w, "answer")
          /\ UNCHANGED <<server, model, sequence, errors, mode, preview>>
       \/ CompleteError(w) \/ Throw(w)

InferOnce(w) ==
    \/ LockInference(w) \/ BeginInference(w) \/ CheckPackage(w) \/ NextFrame(w)
    \/ CheckLoaded(w) \/ LockModel(w) \/ Preprocess(w) \/ Run(w) \/ Complete(w)

-----------------------------------------------------------------------------
(* RuntimeApp::switch_model, start_preview and stop_preview.                 *)

LockForSwitch(w) ==
    /\ pc[w] = "switch" /\ modelLock = NONE
    /\ modelLock' = w
    /\ Goto(w, "prepare")
    /\ UNCHANGED <<server, inferLock, model, state, work, preview>>

\* A package that is missing, incomplete or does not load leaves all as it was.
Prepare(w) ==
    /\ pc[w] = "prepare"
    /\ \/ GoOn(w, "info")
       \/ /\ modelLock' = NONE
          /\ Goto(w, "answer")
          /\ UNCHANGED <<server, inferLock, model, state, work, preview>>
       \/ Throw(w)

SwitchInfo(w) ==
    /\ pc[w] = "info"
    /\ info' = [version |-> info.version + 1, usable |-> TRUE]
    /\ Goto(w, "runner")
    /\ UNCHANGED <<server, locks, runner, state, work, preview>>

SwitchRunner(w) ==
    /\ pc[w] = "runner"
    /\ runner' = info
    /\ modelLock' = NONE
    /\ Goto(w, "answer")
    /\ UNCHANGED <<server, inferLock, info, state, work, preview>>

\* The stream worker first, then the reported mode.
StartPreview(w) ==
    \/ /\ pc[w] = "start"
       /\ preview' = TRUE
       /\ Goto(w, "started")
       /\ UNCHANGED <<server, locks, model, state, work>>
    \/ /\ pc[w] = "started"
       /\ mode' = "preview"
       /\ Goto(w, "answer")
       /\ UNCHANGED <<server, locks, model, sequence, inferred, errors, latest, work, preview>>

StopPreview(w) ==
    \/ /\ pc[w] = "stop"
       /\ preview' = FALSE
       /\ Goto(w, "stopped")
       /\ UNCHANGED <<server, locks, model, state, work>>
    \/ /\ pc[w] = "stopped"
       /\ mode' = "idle"
       /\ Goto(w, "answer")
       /\ UNCHANGED <<server, locks, model, sequence, inferred, errors, latest, work, preview>>

Route(w) ==
    \/ InferOnce(w)
    \/ LockForSwitch(w) \/ Prepare(w) \/ SwitchInfo(w) \/ SwitchRunner(w)
    \/ StartPreview(w) \/ StopPreview(w)

Worker(w) == Take(w) \/ WorkerEnds(w) \/ Read(w) \/ Route(w) \/ Thrown(w) \/ Answer(w)

Acceptor ==
    \/ \E c \in Clients : Accept(c) \/ Enqueue(c)
    \/ LeaveLoop \/ StopWorkers \/ JoinWorkers

Next == Signal \/ Acceptor \/ \E w \in Workers : Worker(w)

Spec == Init /\ [][Next]_vars

\* Threads are scheduled; frames, NPU and sockets answer within their timeouts.
FairSpec ==
    /\ Spec
    /\ \A w \in Workers : WF_vars(Worker(w))
    /\ WF_vars(\E c \in Clients : Enqueue(c))
    /\ WF_vars(LeaveLoop /\ stopRequested) /\ WF_vars(StopWorkers) /\ WF_vars(JoinWorkers)

-----------------------------------------------------------------------------

\* Whatever switch overlaps it, a result is preprocessed, inferred and
\* labelled with one model (runtime_app.cpp 542-672 under the model lock).
ResultOfOneModel == Cardinality(latest.made) <= 1

\* Results are published in the order of their numbers, whichever worker
\* made them (466-468), so that latest_result never goes back.
ResultsInOrder == [][latest'.seq # latest.seq => latest'.seq > latest.seq]_latest

InFlight == {w \in Workers :
    pc[w] \in {"package", "frame", "loaded", "lock", "preprocess", "run", "complete"}}
Failing == {w \in Workers : pc[w] = "thrown"}

\* Every frame taken in is counted as inferred or as an error, once, on every
\* way out of infer_once, exceptions included (runtime_state.cpp 104-160).
FramesAccounted ==
    /\ inferred + Cardinality(InFlight) <= sequence
    /\ sequence <= inferred + errors + Cardinality(InFlight) + Cardinality(Failing)

\* Every accepted connection is answered, also when the server stops, or
\* refused with a 503 (http_server.cpp 183-307).
ClientAnswered ==
    \A c \in Clients : client[c] = "accepted" ~> client[c] \in {"answered", "refused"}

=============================================================================
