-------------------------- MODULE RuntimeServerProof --------------------------
(***************************************************************************)
(* Proofs about RuntimeServer for any number of clients, of workers and of *)
(* places in the queue.                                                    *)
(***************************************************************************)
EXTENDS RuntimeServer, FiniteSetTheorems, TLAPS

(* Type correctness. *)

LEMMA PlaceNames ==
  /\ "wait" \in WorkerPlaces /\ "read" \in WorkerPlaces /\ "answer" \in WorkerPlaces
  /\ "ended" \in WorkerPlaces /\ "infer" \in WorkerPlaces /\ "begin" \in WorkerPlaces
  /\ "package" \in WorkerPlaces /\ "frame" \in WorkerPlaces /\ "loaded" \in WorkerPlaces
  /\ "lock" \in WorkerPlaces /\ "preprocess" \in WorkerPlaces /\ "run" \in WorkerPlaces
  /\ "complete" \in WorkerPlaces /\ "thrown" \in WorkerPlaces /\ "switch" \in WorkerPlaces
  /\ "prepare" \in WorkerPlaces /\ "info" \in WorkerPlaces /\ "runner" \in WorkerPlaces
  /\ "start" \in WorkerPlaces /\ "started" \in WorkerPlaces /\ "stop" \in WorkerPlaces
  /\ "stopped" \in WorkerPlaces
  /\ Kinds \subseteq WorkerPlaces
  BY DEF WorkerPlaces, Kinds

LEMMA FateNames ==
  /\ "outside" \in Fates /\ "accepted" \in Fates /\ "queued" \in Fates /\ "active" \in Fates
  /\ "answered" \in Fates /\ "refused" \in Fates /\ "dropped" \in Fates
  BY DEF Fates

\* A worker that is not waiting serves a client.
Served == \A w \in Workers : pc[w] \notin {"wait", "ended"} => serving[w] \in Clients

LEMMA WorkTyped ==
  ASSUME NEW n \in Nat, NEW m \in SUBSET Version
  PROVE  [seq |-> n, made |-> m] \in [seq : Nat, made : SUBSET Version]
  OBVIOUS

LEMMA GotoType ==
  ASSUME TypeOK, Served, NEW w \in Workers, NEW place \in WorkerPlaces, Goto(w, place),
         pc[w] \notin {"wait", "ended"}, UNCHANGED server
  PROVE  pc' \in [Workers -> WorkerPlaces] /\ Served'
  BY DEF Goto, TypeOK, Served, server

LEMMA ErrorType ==
  ASSUME TypeOK, Served, NEW w \in Workers, pc[w] \notin {"wait", "ended"},
         CompleteError(w) \/ Throw(w)
  PROVE  TypeOK' /\ Served'
<1>1. work[w].seq \in Nat
  BY DEF TypeOK
<1>2. {} \in SUBSET Version
  OBVIOUS
<1>3. pc' \in [Workers -> WorkerPlaces] /\ Served'
  BY GotoType, PlaceNames DEF CompleteError, Throw
<1>4. NoWork \in [seq : Nat, made : SUBSET Version]
  BY DEF NoWork
<1>5. latest' \in [seq : Nat, made : SUBSET Version]
  BY <1>1, <1>2, WorkTyped DEF CompleteError, Throw, TypeOK, state
<1>6. /\ inferLock' \in Workers \cup {NONE} /\ modelLock' \in Workers \cup {NONE}
      /\ work' \in [Workers -> [seq : Nat, made : SUBSET Version]]
  BY <1>4 DEF CompleteError, Throw, TypeOK
<1>7. errors' \in Nat /\ mode' \in {"idle", "detect", "preview", "error"}
  BY DEF CompleteError, Throw, TypeOK, state
<1>8. UNCHANGED <<server, model, sequence, inferred, preview>>
  BY DEF CompleteError, Throw, state
<1> QED BY <1>3, <1>5, <1>6, <1>7, <1>8 DEF TypeOK, server, model

LEMMA InferType ==
  ASSUME TypeOK, Served, NEW w \in Workers, InferOnce(w) PROVE TypeOK' /\ Served'
<1> USE PlaceNames DEF server, locks, model, state
<1>1. work[w].seq \in Nat /\ work[w].made \in SUBSET Version
      /\ info.version \in Version /\ runner.version \in Version
  BY DEF TypeOK, Model
<1>2. ASSUME NEW place \in WorkerPlaces, GoOn(w, place), pc[w] \notin {"wait", "ended"}
      PROVE  TypeOK' /\ Served'
  BY <1>2, GotoType DEF GoOn, TypeOK
<1>3. CASE LockInference(w)
  BY <1>3, GotoType DEF LockInference, TypeOK
<1>4. CASE BeginInference(w)
  <2>1. [seq |-> sequence + 1, made |-> {}] \in [seq : Nat, made : SUBSET Version]
    BY WorkTyped DEF TypeOK
  <2> QED BY <1>4, <2>1, GotoType DEF BeginInference, TypeOK
<1>5. CASE CheckPackage(w)
  BY <1>2, <1>5, ErrorType DEF CheckPackage
<1>6. CASE NextFrame(w)
  BY <1>2, <1>6, ErrorType DEF NextFrame
<1>7. CASE CheckLoaded(w)
  BY <1>2, <1>7, ErrorType DEF CheckLoaded
<1>8. CASE LockModel(w)
  BY <1>8, GotoType DEF LockModel, TypeOK
<1>9. CASE Preprocess(w)
  <2>1. [seq |-> work[w].seq, made |-> {info.version}] \in [seq : Nat, made : SUBSET Version]
    BY <1>1, WorkTyped
  <2>2. CASE CompleteError(w) \/ Throw(w)
    BY <1>9, <2>2, ErrorType DEF Preprocess
  <2>3. CASE Goto(w, "run") /\ ~(CompleteError(w) \/ Throw(w))
    <3>1. pc' \in [Workers -> WorkerPlaces] /\ Served'
      BY <1>9, <2>3, GotoType DEF Preprocess
    <3>2. work' = [work EXCEPT ![w] = [seq |-> work[w].seq, made |-> {info.version}]]
      BY <1>9, <2>3 DEF Preprocess
    <3>3. work' \in [Workers -> [seq : Nat, made : SUBSET Version]]
      BY <2>1, <3>2 DEF TypeOK
    <3> QED BY <1>9, <2>3, <3>1, <3>3 DEF Preprocess, TypeOK
  <2> QED BY <1>9, <2>2, <2>3 DEF Preprocess
<1>10. CASE Run(w)
  <2>1. [seq |-> work[w].seq, made |-> work[w].made \cup {runner.version}]
          \in [seq : Nat, made : SUBSET Version]
    BY <1>1, WorkTyped
  <2>2. CASE CompleteError(w) \/ Throw(w)
    BY <1>10, <2>2, ErrorType DEF Run
  <2>3. CASE Goto(w, "complete") /\ ~(CompleteError(w) \/ Throw(w))
    <3>1. pc' \in [Workers -> WorkerPlaces] /\ Served'
      BY <1>10, <2>3, GotoType DEF Run
    <3>2. work' = [work EXCEPT ![w] = [seq |-> work[w].seq,
                                       made |-> work[w].made \cup {runner.version}]]
      BY <1>10, <2>3 DEF Run
    <3>3. work' \in [Workers -> [seq : Nat, made : SUBSET Version]]
      BY <2>1, <3>2 DEF TypeOK
    <3> QED BY <1>10, <2>3, <3>1, <3>3 DEF Run, TypeOK
  <2> QED BY <1>10, <2>2, <2>3 DEF Run
<1>11. CASE Complete(w)
  <2>1. [seq |-> work[w].seq, made |-> work[w].made \cup {info.version}]
          \in [seq : Nat, made : SUBSET Version]
    BY <1>1, WorkTyped
  <2>2. CASE CompleteError(w) \/ Throw(w)
    BY <1>11, <2>2, ErrorType DEF Complete
  <2>3. NoWork \in [seq : Nat, made : SUBSET Version]
    BY DEF NoWork
  <2>4. CASE Goto(w, "answer") /\ ~(CompleteError(w) \/ Throw(w))
    <3>1. pc' \in [Workers -> WorkerPlaces] /\ Served'
      BY <1>11, <2>4, GotoType DEF Complete
    <3>2. inferred' \in Nat
      BY <1>11, <2>4 DEF Complete, TypeOK
    <3>3. latest' \in [seq : Nat, made : SUBSET Version]
      BY <1>11, <2>1, <2>4 DEF Complete
    <3>4. work' \in [Workers -> [seq : Nat, made : SUBSET Version]]
      BY <1>11, <2>3, <2>4 DEF Complete, TypeOK
    <3>5. inferLock' = NONE /\ modelLock' = NONE
          /\ UNCHANGED <<server, model, sequence, errors, mode, preview>>
      BY <1>11, <2>4 DEF Complete
    <3> QED BY <3>1, <3>2, <3>3, <3>4, <3>5 DEF TypeOK
  <2> QED BY <1>11, <2>2, <2>4 DEF Complete
<1> QED BY <1>3, <1>4, <1>5, <1>6, <1>7, <1>8, <1>9, <1>10, <1>11 DEF InferOnce

LEMMA CallType ==
  ASSUME TypeOK, Served, NEW w \in Workers,
         \/ LockForSwitch(w) \/ Prepare(w) \/ SwitchInfo(w) \/ SwitchRunner(w)
         \/ StartPreview(w) \/ StopPreview(w)
  PROVE  TypeOK' /\ Served'
<1> USE PlaceNames DEF server, locks, model, state
<1>1. CASE LockForSwitch(w)
  BY <1>1, GotoType DEF LockForSwitch, TypeOK
<1>2. CASE Prepare(w)
  <2>1. CASE Throw(w)
    BY <1>2, <2>1, ErrorType DEF Prepare
  <2> QED BY <1>2, <2>1, GotoType DEF Prepare, GoOn, TypeOK
<1>3. CASE SwitchInfo(w)
  <2>1. info' \in Model
    BY <1>3 DEF SwitchInfo, TypeOK, Model, Version
  <2> QED BY <1>3, <2>1, GotoType DEF SwitchInfo, TypeOK
<1>4. CASE SwitchRunner(w)
  BY <1>4, GotoType DEF SwitchRunner, TypeOK
<1>5. CASE StartPreview(w)
  BY <1>5, GotoType DEF StartPreview, TypeOK
<1>6. CASE StopPreview(w)
  BY <1>6, GotoType DEF StopPreview, TypeOK
<1> QED BY <1>1, <1>2, <1>3, <1>4, <1>5, <1>6

LEMMA WorkerType ==
  ASSUME TypeOK, Served, NEW w \in Workers, Worker(w) PROVE TypeOK' /\ Served'
<1> USE PlaceNames, FateNames DEF server, locks, model, state
<1>1. CASE Take(w)
  <2>1. Head(queue) \in Clients /\ Tail(queue) \in Seq(Clients)
        /\ Len(Tail(queue)) <= QueueCapacity
    BY <1>1, CapacityAssumption DEF Take, TypeOK
  <2> QED BY <1>1, <2>1 DEF Take, Goto, TypeOK, Served
<1>2. CASE WorkerEnds(w)
  BY <1>2 DEF WorkerEnds, Goto, TypeOK, Served
<1>3. CASE Read(w)
  <2>0. kind \in [Clients -> Kinds] /\ serving[w] \in Clients
    BY <1>3, RequestsAssumption DEF Read, TypeOK, Served
  <2>1. kind[serving[w]] \in WorkerPlaces
    BY <2>0
  <2>2. Goto(w, kind[serving[w]]) \/ Goto(w, "answer")
    BY <1>3 DEF Read, Goto
  <2>3. pc[w] \notin {"wait", "ended"} /\ UNCHANGED <<server, locks, model, state, work, preview>>
    BY <1>3 DEF Read
  <2>4. pc' \in [Workers -> WorkerPlaces] /\ Served'
    BY <2>1, <2>2, <2>3, GotoType
  <2> QED BY <2>3, <2>4 DEF TypeOK
<1>4. CASE Thrown(w)
  BY <1>4, GotoType DEF Thrown, TypeOK
<1>5. CASE Answer(w)
  BY <1>5 DEF Answer, Goto, TypeOK, Served
<1>6. CASE Route(w)
  BY <1>6, InferType, CallType DEF Route
<1> QED BY <1>1, <1>2, <1>3, <1>4, <1>5, <1>6 DEF Worker

LEMMA AcceptorType == ASSUME TypeOK, Served, Acceptor PROVE TypeOK' /\ Served'
<1> USE FateNames DEF TypeOK, Served, locks, model, state
<1>1. ASSUME NEW c \in Clients, Accept(c) PROVE TypeOK' /\ Served'
  BY <1>1 DEF Accept
<1>2. ASSUME NEW c \in Clients, Enqueue(c) PROVE TypeOK' /\ Served'
  <2>1. CASE HasRoom
    <3>1. queue' \in Seq(Clients) /\ Len(queue') <= QueueCapacity
      <4>1. queue' = Append(queue, c) /\ Len(queue) < QueueCapacity
        BY <1>2, <2>1 DEF Enqueue, HasRoom
      <4>2. queue \in Seq(Clients)
        OBVIOUS
      <4> QED BY <4>1, <4>2, CapacityAssumption
    <3> QED BY <1>2, <2>1, <3>1 DEF Enqueue
  <2>2. CASE ~HasRoom
    BY <1>2, <2>2 DEF Enqueue
  <2> QED BY <2>1, <2>2
<1>3. CASE LeaveLoop \/ StopWorkers
  BY <1>3 DEF LeaveLoop, StopWorkers
<1>4. CASE JoinWorkers
  BY <1>4, CapacityAssumption DEF JoinWorkers
<1> QED BY <1>1, <1>2, <1>3, <1>4 DEF Acceptor

LEMMA StepType == ASSUME TypeOK, Served, [Next]_vars PROVE TypeOK' /\ Served'
<1>1. CASE Signal
  BY <1>1 DEF Signal, TypeOK, Served, locks, model, state
<1>2. CASE UNCHANGED vars
  BY <1>2 DEF vars, TypeOK, Served, server, locks, model, state
<1> QED BY <1>1, <1>2, AcceptorType, WorkerType DEF Next

LEMMA InitType == Init => TypeOK /\ Served
<1> SUFFICES ASSUME Init PROVE TypeOK /\ Served
  OBVIOUS
<1>1. NoWork \in [seq : Nat, made : SUBSET Version]
  BY DEF NoWork
<1>2. info \in Model /\ runner \in Model
  BY DEF Init, Model, Version
<1>3. /\ queue \in Seq(Clients) /\ Len(queue) <= QueueCapacity
      /\ client \in [Clients -> Fates] /\ kind \in Requests
  BY FateNames, CapacityAssumption DEF Init
<1>4. pc \in [Workers -> WorkerPlaces] /\ Served
  BY PlaceNames DEF Init, Served
<1> QED BY <1>1, <1>2, <1>3, <1>4 DEF Init, TypeOK

(* Every variable has its type in every reachable state, and every worker  *)
(* at a request has a client.                                              *)
THEOREM TypeInvariant == Spec => [](TypeOK /\ Served)
<1>1. TypeOK /\ Served /\ [Next]_vars => TypeOK' /\ Served'
  BY StepType
<1> QED BY <1>1, InitType, PTL DEF Spec

(***************************************************************************)
(* The locks: an inference holds inference_mutex_ from its number to its   *)
(* end, and whoever uses or replaces the model holds model_mutex_.         *)
(***************************************************************************)
Flight == {"package", "frame", "loaded", "lock", "preprocess", "run", "complete"}
ModelPlaces == {"preprocess", "run", "complete", "prepare", "info", "runner"}

LockInv ==
  \A w \in Workers :
    /\ pc[w] = "begin" \/ pc[w] \in Flight => inferLock = w
    /\ pc[w] \in ModelPlaces => modelLock = w

LEMMA GotoOther ==
  ASSUME TypeOK, NEW w \in Workers, NEW place, Goto(w, place)
  PROVE  pc'[w] = place /\ \A v \in Workers \ {w} : pc'[v] = pc[v]
  BY DEF Goto, TypeOK

LEMMA ErrorLocks ==
  ASSUME TypeOK, LockInv, NEW w \in Workers,
         \/ pc[w] \in Flight /\ CompleteError(w)
         \/ Throw(w)
  PROVE  LockInv'
<1>1. CASE CompleteError(w) /\ pc[w] \in Flight
  <2>1. pc'[w] = "answer" /\ \A v \in Workers \ {w} : pc'[v] = pc[v]
    BY <1>1, GotoOther DEF CompleteError
  <2>2. \A v \in Workers \ {w} : pc[v] # "begin" /\ pc[v] \notin Flight
    BY <1>1 DEF LockInv
  <2>3. \A v \in Workers \ {w} : pc[v] \in ModelPlaces => modelLock' = v
    BY <1>1 DEF LockInv, CompleteError
  <2> QED BY <2>1, <2>2, <2>3 DEF LockInv, Flight, ModelPlaces
<1>2. CASE Throw(w)
  <2>1. pc'[w] = "thrown" /\ \A v \in Workers \ {w} : pc'[v] = pc[v]
    BY <1>2, GotoOther DEF Throw
  <2>2. \A v \in Workers \ {w} :
           /\ pc[v] = "begin" \/ pc[v] \in Flight => inferLock' = v
           /\ pc[v] \in ModelPlaces => modelLock' = v
    BY <1>2 DEF LockInv, Throw
  <2> QED BY <2>1, <2>2 DEF LockInv, Flight, ModelPlaces
<1> QED BY <1>1, <1>2

LEMMA InferLocks ==
  ASSUME TypeOK, LockInv, NEW w \in Workers, InferOnce(w) PROVE LockInv'
<1> USE NoneAssumption DEF Flight, ModelPlaces, locks
<1>1. CASE LockInference(w)
  <2>1. pc'[w] = "begin" /\ \A v \in Workers \ {w} : pc'[v] = pc[v]
    BY <1>1, GotoOther DEF LockInference
  <2> QED BY <1>1, <2>1 DEF LockInference, LockInv
<1>2. CASE BeginInference(w)
  <2>1. pc'[w] = "package" /\ \A v \in Workers \ {w} : pc'[v] = pc[v]
    BY <1>2, GotoOther DEF BeginInference
  <2> QED BY <1>2, <2>1 DEF BeginInference, LockInv
<1>3. CASE CheckPackage(w) \/ NextFrame(w) \/ CheckLoaded(w)
  <2>1. CASE CompleteError(w) \/ Throw(w)
    BY <1>3, <2>1, ErrorLocks DEF CheckPackage, NextFrame, CheckLoaded
  <2>2. ASSUME NEW place \in {"frame", "loaded", "lock"}, GoOn(w, place), pc[w] \in Flight
        PROVE  LockInv'
    <3>1. pc'[w] = place /\ \A v \in Workers \ {w} : pc'[v] = pc[v]
      BY <2>2, GotoOther DEF GoOn
    <3> QED BY <2>2, <3>1 DEF GoOn, LockInv
  <2> QED BY <1>3, <2>1, <2>2 DEF CheckPackage, NextFrame, CheckLoaded
<1>4. CASE LockModel(w)
  <2>1. pc'[w] = "preprocess" /\ \A v \in Workers \ {w} : pc'[v] = pc[v]
    BY <1>4, GotoOther DEF LockModel
  <2> QED BY <1>4, <2>1 DEF LockModel, LockInv
<1>5. CASE Preprocess(w) \/ Run(w)
  <2>1. CASE CompleteError(w) \/ Throw(w)
    BY <1>5, <2>1, ErrorLocks DEF Preprocess, Run
  <2>2. ASSUME NEW place \in {"run", "complete"}, Goto(w, place), UNCHANGED locks,
               pc[w] \in {"preprocess", "run"}
        PROVE  LockInv'
    <3>1. pc'[w] = place /\ \A v \in Workers \ {w} : pc'[v] = pc[v]
      BY <2>2, GotoOther
    <3> QED BY <2>2, <3>1 DEF LockInv
  <2> QED BY <1>5, <2>1, <2>2 DEF Preprocess, Run
<1>6. CASE Complete(w)
  <2>1. CASE CompleteError(w) \/ Throw(w)
    BY <1>6, <2>1, ErrorLocks DEF Complete
  <2>2. CASE Goto(w, "answer") /\ ~(CompleteError(w) \/ Throw(w))
    <3>1. pc'[w] = "answer" /\ \A v \in Workers \ {w} : pc'[v] = pc[v]
      BY <2>2, GotoOther
    <3>2. \A v \in Workers \ {w} :
            pc[v] # "begin" /\ pc[v] \notin Flight /\ pc[v] \notin ModelPlaces
      BY <1>6 DEF Complete, LockInv
    <3> QED BY <3>1, <3>2 DEF LockInv
  <2> QED BY <1>6, <2>1, <2>2 DEF Complete
<1> QED BY <1>1, <1>2, <1>3, <1>4, <1>5, <1>6 DEF InferOnce

LEMMA CallLocks ==
  ASSUME TypeOK, LockInv, NEW w \in Workers,
         \/ LockForSwitch(w) \/ Prepare(w) \/ SwitchInfo(w) \/ SwitchRunner(w)
         \/ StartPreview(w) \/ StopPreview(w)
  PROVE  LockInv'
<1> USE NoneAssumption DEF Flight, ModelPlaces, locks
<1>1. CASE LockForSwitch(w)
  <2>1. pc'[w] = "prepare" /\ \A v \in Workers \ {w} : pc'[v] = pc[v]
    BY <1>1, GotoOther DEF LockForSwitch
  <2> QED BY <1>1, <2>1 DEF LockForSwitch, LockInv
<1>2. CASE Prepare(w)
  <2>1. CASE Throw(w)
    BY <2>1, ErrorLocks
  <2>2. CASE GoOn(w, "info")
    <3>1. pc'[w] = "info" /\ \A v \in Workers \ {w} : pc'[v] = pc[v]
      BY <2>2, GotoOther DEF GoOn
    <3> QED BY <1>2, <2>2, <3>1 DEF Prepare, GoOn, LockInv
  <2>3. CASE Goto(w, "answer") /\ modelLock' = NONE /\ UNCHANGED inferLock
    <3>1. pc'[w] = "answer" /\ \A v \in Workers \ {w} : pc'[v] = pc[v]
      BY <2>3, GotoOther
    <3> QED BY <1>2, <2>3, <3>1 DEF Prepare, LockInv
  <2> QED BY <1>2, <2>1, <2>2, <2>3 DEF Prepare
<1>3. CASE SwitchInfo(w)
  <2>1. pc'[w] = "runner" /\ \A v \in Workers \ {w} : pc'[v] = pc[v]
    BY <1>3, GotoOther DEF SwitchInfo
  <2> QED BY <1>3, <2>1 DEF SwitchInfo, LockInv
<1>4. CASE SwitchRunner(w)
  <2>1. pc'[w] = "answer" /\ \A v \in Workers \ {w} : pc'[v] = pc[v]
    BY <1>4, GotoOther DEF SwitchRunner
  <2> QED BY <1>4, <2>1 DEF SwitchRunner, LockInv
<1>5. CASE StartPreview(w) \/ StopPreview(w)
  <2>1. PICK place \in {"started", "stopped", "answer"} : Goto(w, place)
    BY <1>5 DEF StartPreview, StopPreview
  <2>2. pc'[w] = place /\ \A v \in Workers \ {w} : pc'[v] = pc[v]
    BY <2>1, GotoOther
  <2> QED BY <1>5, <2>1, <2>2 DEF StartPreview, StopPreview, LockInv
<1> QED BY <1>1, <1>2, <1>3, <1>4, <1>5

\* The steps of a worker outside the three calls.
Between(w) == Take(w) \/ WorkerEnds(w) \/ Read(w) \/ Thrown(w) \/ Answer(w)

\* They lead to a place without a lock and touch neither model nor result.
LEMMA BetweenSteps ==
  ASSUME TypeOK, Served, NEW w \in Workers, Between(w)
  PROVE  /\ pc[w] \notin Flight \cup ModelPlaces \cup {"begin"}
         /\ pc'[w] \notin Flight \cup ModelPlaces \cup {"begin", "thrown"}
         /\ \A v \in Workers \ {w} : pc'[v] = pc[v]
         /\ UNCHANGED <<locks, model, sequence, inferred, latest, work>>
         /\ errors' = (IF pc[w] = "thrown" THEN errors + 1 ELSE errors)
<1> USE DEF Flight, ModelPlaces, state, TypeOK
<1>1. CASE Take(w)
  BY <1>1 DEF Take, Goto
<1>2. CASE WorkerEnds(w)
  BY <1>2 DEF WorkerEnds, Goto
<1>3. CASE Read(w)
  <2>1. kind \in [Clients -> Kinds] /\ serving[w] \in Clients
    BY <1>3, RequestsAssumption DEF Read, Served
  <2>2. kind[serving[w]] \in Kinds
    BY <2>1
  <2>3. pc'[w] \in Kinds \cup {"answer"} /\ \A v \in Workers \ {w} : pc'[v] = pc[v]
    BY <1>3, <2>2 DEF Read
  <2> QED BY <1>3, <2>3 DEF Read, Kinds
<1>4. CASE Thrown(w)
  BY <1>4 DEF Thrown, Goto
<1>5. CASE Answer(w)
  BY <1>5 DEF Answer, Goto
<1> QED BY <1>1, <1>2, <1>3, <1>4, <1>5 DEF Between

\* The acceptor and the signal leave the workers alone.
LEMMA OutsideSteps ==
  ASSUME Signal \/ Acceptor \/ UNCHANGED vars
  PROVE  UNCHANGED <<pc, locks, model, state, work>>
  BY DEF Signal, Acceptor, Accept, Enqueue, LeaveLoop, StopWorkers, JoinWorkers, vars

LEMMA StepLocks == ASSUME TypeOK, Served, LockInv, [Next]_vars PROVE LockInv'
<1>1. CASE Signal \/ Acceptor \/ UNCHANGED vars
  BY <1>1, OutsideSteps DEF LockInv, locks
<1>2. ASSUME NEW w \in Workers, Between(w) PROVE LockInv'
  BY <1>2, BetweenSteps DEF LockInv, locks
<1>3. ASSUME NEW w \in Workers, Route(w) PROVE LockInv'
  BY <1>3, InferLocks, CallLocks DEF Route
<1> QED BY <1>1, <1>2, <1>3 DEF Next, Worker, Between

(***************************************************************************)
(* One model: description and runner agree unless a switch is between the  *)
(* two, and an inference that has used the one has used the other.         *)
(***************************************************************************)
ModelInv ==
  /\ (\A w \in Workers : pc[w] # "runner") => runner.version = info.version
  /\ \A w \in Workers : pc[w] \in {"run", "complete"} => work[w].made = {info.version}
  /\ latest.made = {} \/ \E v \in Version : latest.made = {v}

(* Numbers: the inference that is under way has the last one.              *)
NumberInv ==
  /\ latest.seq <= sequence
  /\ \A w \in Workers : pc[w] \in Flight => work[w].seq = sequence /\ latest.seq < sequence

ResultInv == TypeOK /\ Served /\ LockInv /\ ModelInv /\ NumberInv

\* While one worker is at the model no other is.
LEMMA Exclusive ==
  ASSUME LockInv, NEW w \in Workers, NEW v \in Workers \ {w}
  PROVE  /\ pc[w] \in ModelPlaces => pc[v] \notin ModelPlaces
         /\ pc[w] = "begin" \/ pc[w] \in Flight => pc[v] # "begin" /\ pc[v] \notin Flight
  BY DEF LockInv

LEMMA ErrorResult ==
  ASSUME ResultInv, NEW w \in Workers,
         \/ pc[w] \in Flight /\ CompleteError(w)
         \/ pc[w] # "runner" /\ Throw(w)
  PROVE  ModelInv' /\ NumberInv'
<1>1. /\ pc'[w] \in {"answer", "thrown"} /\ pc[w] # "runner"
      /\ \A v \in Workers \ {w} : pc'[v] = pc[v] /\ work'[v] = work[v]
  <2>1. pc'[w] \in {"answer", "thrown"} /\ \A v \in Workers \ {w} : pc'[v] = pc[v]
    BY GotoOther DEF CompleteError, Throw, ResultInv
  <2>2. \A v \in Workers \ {w} : work'[v] = work[v]
    BY DEF CompleteError, Throw, ResultInv, TypeOK
  <2> QED BY <2>1, <2>2 DEF Flight
<1>2. UNCHANGED <<model, sequence>>
  BY DEF CompleteError, Throw, state
<1>3. \/ UNCHANGED latest
      \/ /\ pc[w] \in Flight
         /\ latest'.seq = sequence /\ latest'.made = {}
  BY DEF CompleteError, Throw, state, ResultInv, NumberInv
<1>4. ModelInv'
  BY <1>1, <1>2, <1>3 DEF ResultInv, ModelInv, model
<1>5. NumberInv'
  <2>1. CASE UNCHANGED latest
    BY <1>1, <1>2, <2>1 DEF ResultInv, NumberInv, Flight
  <2>2. CASE pc[w] \in Flight /\ latest'.seq = sequence
    <3>1. \A v \in Workers \ {w} : pc[v] \notin Flight
      BY <2>2, Exclusive DEF ResultInv
    <3>2. sequence \in Nat
      BY DEF ResultInv, TypeOK
    <3> QED BY <1>1, <1>2, <2>2, <3>1, <3>2 DEF NumberInv, Flight
  <2> QED BY <1>3, <2>1, <2>2
<1> QED BY <1>4, <1>5

\* A step of an inference that ends nothing.
LEMMA OnwardResult ==
  ASSUME ResultInv, NEW w \in Workers, pc[w] # "runner",
         NEW place, Goto(w, place), place # "runner",
         place \in Flight => pc[w] \in Flight,
         place \in {"run", "complete"} => work'[w].made = {info.version},
         work'[w].seq = work[w].seq,
         \A v \in Workers \ {w} : work'[v] = work[v],
         UNCHANGED <<model, sequence, latest>>
  PROVE  ModelInv' /\ NumberInv'
<1>1. pc'[w] = place /\ \A v \in Workers \ {w} : pc'[v] = pc[v]
  BY GotoOther DEF ResultInv
<1>2. ModelInv'
  BY <1>1 DEF ResultInv, ModelInv, model
<1>3. NumberInv'
  BY <1>1 DEF ResultInv, NumberInv
<1> QED BY <1>2, <1>3

LEMMA InferResult ==
  ASSUME ResultInv, NEW w \in Workers, InferOnce(w) PROVE ModelInv' /\ NumberInv'
<1>0. TypeOK
  BY DEF ResultInv
<1>1. CASE LockInference(w)
  BY <1>1, OnwardResult DEF LockInference, state, Flight
<1>2. CASE BeginInference(w)
  <2>1. pc'[w] = "package" /\ \A v \in Workers \ {w} : pc'[v] = pc[v]
    BY <1>0, <1>2, GotoOther DEF BeginInference
  <2>2. /\ work'[w] = [seq |-> sequence + 1, made |-> {}]
        /\ \A v \in Workers \ {w} : work'[v] = work[v]
    BY <1>0, <1>2 DEF BeginInference, TypeOK
  <2>3. \A v \in Workers \ {w} : pc[v] \notin Flight
    BY <1>2, Exclusive DEF BeginInference, ResultInv
  <2>4. UNCHANGED <<model, latest>> /\ sequence' = sequence + 1
    BY <1>2 DEF BeginInference
  <2>5. ModelInv'
    BY <1>2, <2>1, <2>2, <2>4 DEF BeginInference, ResultInv, ModelInv, model
  <2>6. latest.seq \in Nat /\ sequence \in Nat /\ latest.seq <= sequence
    BY <1>0 DEF TypeOK, ResultInv, NumberInv
  <2>7. NumberInv'
    BY <2>1, <2>2, <2>3, <2>4, <2>6 DEF NumberInv
  <2> QED BY <2>5, <2>7
<1>3. CASE CheckPackage(w) \/ NextFrame(w) \/ CheckLoaded(w)
  <2>1. CASE CompleteError(w) \/ Throw(w)
    BY <1>3, <2>1, ErrorResult DEF CheckPackage, NextFrame, CheckLoaded, Flight
  <2>2. ASSUME NEW place \in {"frame", "loaded", "lock"}, GoOn(w, place), pc[w] \in Flight
        PROVE  ModelInv' /\ NumberInv'
    BY <2>2, OnwardResult DEF GoOn, state, Flight
  <2> QED BY <1>3, <2>1, <2>2 DEF CheckPackage, NextFrame, CheckLoaded, Flight
<1>4. CASE LockModel(w)
  BY <1>4, OnwardResult DEF LockModel, state, Flight
<1>5. CASE Preprocess(w)
  <2>1. CASE CompleteError(w) \/ Throw(w)
    BY <1>5, <2>1, ErrorResult DEF Preprocess, Flight
  <2>2. CASE Goto(w, "run") /\ ~(CompleteError(w) \/ Throw(w))
    <3>1. /\ work'[w] = [seq |-> work[w].seq, made |-> {info.version}]
          /\ \A v \in Workers \ {w} : work'[v] = work[v]
          /\ pc[w] = "preprocess" /\ UNCHANGED <<model, sequence, latest>>
      BY <1>0, <1>5, <2>2 DEF Preprocess, TypeOK, state
    <3>2. work'[w].made = {info.version} /\ work'[w].seq = work[w].seq
      BY <3>1
    <3> QED BY <2>2, <3>1, <3>2, OnwardResult DEF Flight
  <2> QED BY <1>5, <2>1, <2>2 DEF Preprocess
<1>6. CASE Run(w)
  <2>1. CASE CompleteError(w) \/ Throw(w)
    BY <1>6, <2>1, ErrorResult DEF Run, Flight
  <2>2. CASE Goto(w, "complete") /\ ~(CompleteError(w) \/ Throw(w))
    <3>1. /\ work'[w] = [seq |-> work[w].seq, made |-> work[w].made \cup {runner.version}]
          /\ \A v \in Workers \ {w} : work'[v] = work[v]
          /\ pc[w] = "run" /\ UNCHANGED <<model, sequence, latest>>
      BY <1>0, <1>6, <2>2 DEF Run, TypeOK, state
    <3>2. runner.version = info.version /\ work[w].made = {info.version}
      BY <3>1, Exclusive DEF ResultInv, ModelInv, ModelPlaces
    <3>3. work'[w].made = {info.version} /\ work'[w].seq = work[w].seq
      BY <3>1, <3>2
    <3> QED BY <2>2, <3>1, <3>3, OnwardResult DEF Flight
  <2> QED BY <1>6, <2>1, <2>2 DEF Run
<1>7. CASE Complete(w)
  <2>1. CASE CompleteError(w) \/ Throw(w)
    BY <1>7, <2>1, ErrorResult DEF Complete, Flight
  <2>2. CASE Goto(w, "answer") /\ ~(CompleteError(w) \/ Throw(w))
    <3>1. pc'[w] = "answer" /\ \A v \in Workers \ {w} : pc'[v] = pc[v]
      BY <1>0, <2>2, GotoOther
    <3>2. /\ latest' = [seq |-> work[w].seq, made |-> work[w].made \cup {info.version}]
          /\ \A v \in Workers \ {w} : work'[v] = work[v]
          /\ pc[w] = "complete" /\ UNCHANGED <<model, sequence>>
      BY <1>0, <1>7, <2>2 DEF Complete, TypeOK
    <3>3. latest'.made = {info.version} /\ latest'.seq = sequence
      BY <3>2 DEF ResultInv, ModelInv, NumberInv, Flight
    <3>4. info.version \in Version /\ sequence \in Nat
      BY <1>0 DEF TypeOK, Model
    <3>5. \A v \in Workers \ {w} : pc[v] \notin Flight
      BY <3>2, Exclusive DEF ResultInv, Flight
    <3>6. ModelInv'
      BY <3>1, <3>2, <3>3, <3>4 DEF ResultInv, ModelInv, model
    <3>7. NumberInv'
      BY <3>1, <3>2, <3>3, <3>4, <3>5 DEF NumberInv, Flight
    <3> QED BY <3>6, <3>7
  <2> QED BY <1>7, <2>1, <2>2 DEF Complete
<1> QED BY <1>1, <1>2, <1>3, <1>4, <1>5, <1>6, <1>7 DEF InferOnce

LEMMA CallResult ==
  ASSUME ResultInv, NEW w \in Workers,
         \/ LockForSwitch(w) \/ Prepare(w) \/ SwitchInfo(w) \/ SwitchRunner(w)
         \/ StartPreview(w) \/ StopPreview(w)
  PROVE  ModelInv' /\ NumberInv'
<1>0. TypeOK
  BY DEF ResultInv
<1>1. CASE LockForSwitch(w)
  BY <1>1, OnwardResult DEF LockForSwitch, state, Flight
<1>2. CASE Prepare(w)
  <2>1. CASE Throw(w)
    BY <1>2, <2>1, ErrorResult DEF Prepare
  <2>2. CASE GoOn(w, "info")
    BY <1>2, <2>2, OnwardResult DEF Prepare, GoOn, state, Flight
  <2>3. CASE Goto(w, "answer") /\ UNCHANGED <<model, state, work>>
    BY <1>2, <2>3, OnwardResult DEF Prepare, state, Flight
  <2> QED BY <1>2, <2>1, <2>2, <2>3 DEF Prepare
<1>3. CASE SwitchInfo(w)
  <2>1. pc'[w] = "runner" /\ \A v \in Workers \ {w} : pc'[v] = pc[v]
    BY <1>0, <1>3, GotoOther DEF SwitchInfo
  <2>2. \A v \in Workers \ {w} : pc[v] \notin ModelPlaces
    BY <1>3, Exclusive DEF SwitchInfo, ResultInv, ModelPlaces
  <2>3. UNCHANGED <<sequence, latest, work>>
    BY <1>3 DEF SwitchInfo, state
  <2>4. ModelInv'
    BY <2>1, <2>2, <2>3 DEF ResultInv, ModelInv, ModelPlaces
  <2>5. NumberInv'
    BY <2>1, <2>3 DEF ResultInv, NumberInv, Flight
  <2> QED BY <2>4, <2>5
<1>4. CASE SwitchRunner(w)
  <2>1. pc'[w] = "answer" /\ \A v \in Workers \ {w} : pc'[v] = pc[v]
    BY <1>0, <1>4, GotoOther DEF SwitchRunner
  <2>2. UNCHANGED <<info, sequence, latest, work>> /\ runner' = info
    BY <1>4 DEF SwitchRunner, state
  <2>3. ModelInv'
    BY <2>1, <2>2 DEF ResultInv, ModelInv
  <2>4. NumberInv'
    BY <2>1, <2>2 DEF ResultInv, NumberInv, Flight
  <2> QED BY <2>3, <2>4
<1>5. CASE StartPreview(w) \/ StopPreview(w)
  <2>1. PICK place \in {"started", "stopped", "answer"} : Goto(w, place)
    BY <1>5 DEF StartPreview, StopPreview
  <2>2. pc[w] # "runner" /\ UNCHANGED <<model, sequence, latest, work>>
    BY <1>5 DEF StartPreview, StopPreview, state
  <2> QED BY <2>1, <2>2, OnwardResult DEF Flight
<1> QED BY <1>1, <1>2, <1>3, <1>4, <1>5

LEMMA StepResult == ASSUME ResultInv, [Next]_vars PROVE ResultInv'
<1>1. TypeOK' /\ Served' /\ LockInv'
  BY StepType, StepLocks DEF ResultInv
<1>2. CASE Signal \/ Acceptor \/ UNCHANGED vars
  BY <1>1, <1>2, OutsideSteps DEF ResultInv, ModelInv, NumberInv, model, state
<1>3. ASSUME NEW w \in Workers, Between(w) PROVE ModelInv' /\ NumberInv'
  <2>1. /\ pc[w] \notin Flight \cup ModelPlaces
        /\ pc'[w] \notin Flight \cup ModelPlaces
        /\ \A v \in Workers \ {w} : pc'[v] = pc[v]
        /\ UNCHANGED <<model, sequence, latest, work>>
    BY <1>3, BetweenSteps DEF ResultInv
  <2>2. ModelInv'
    BY <2>1 DEF ResultInv, ModelInv, model, ModelPlaces
  <2>3. NumberInv'
    BY <2>1 DEF ResultInv, NumberInv
  <2> QED BY <2>2, <2>3
<1>4. ASSUME NEW w \in Workers, Route(w) PROVE ModelInv' /\ NumberInv'
  BY <1>4, InferResult, CallResult DEF Route
<1> QED BY <1>1, <1>2, <1>3, <1>4 DEF Next, Worker, Between, ResultInv

LEMMA InitResult == Init => ResultInv
<1> SUFFICES ASSUME Init PROVE ResultInv
  OBVIOUS
<1>1. TypeOK /\ Served
  BY InitType
<1>2. LockInv /\ ModelInv /\ NumberInv
  BY DEF Init, NoWork, LockInv, ModelInv, NumberInv, Flight, ModelPlaces
<1> QED BY <1>1, <1>2 DEF ResultInv

(* No result ever mixes two models, however the switches of other workers  *)
(* fall between its steps.                                                 *)
THEOREM OneModelPerResult == Spec => []ResultOfOneModel
<1>1. ResultInv /\ [Next]_vars => ResultInv'
  BY StepResult
<1>2. ResultInv => ResultOfOneModel
  <2> SUFFICES ASSUME ResultInv PROVE Cardinality(latest.made) <= 1
    BY DEF ResultOfOneModel
  <2>1. CASE latest.made = {}
    BY <2>1, FS_EmptySet
  <2>2. CASE \E v \in Version : latest.made = {v}
    <3>1. Cardinality(latest.made) = 1
      BY <2>2, FS_Singleton
    <3> QED BY <3>1
  <2> QED BY <2>1, <2>2 DEF ResultInv, ModelInv
<1> QED BY <1>1, <1>2, InitResult, PTL DEF Spec

LEMMA ErrorLatest ==
  ASSUME ResultInv, NEW w \in Workers,
         (pc[w] \in Flight /\ CompleteError(w)) \/ Throw(w)
  PROVE  latest' = latest \/ latest'.seq > latest.seq
<1>1. CASE pc[w] \in Flight /\ CompleteError(w)
  <2>1. latest'.seq = work[w].seq
    BY <1>1 DEF CompleteError
  <2>2. work[w].seq = sequence /\ latest.seq < sequence
    BY <1>1 DEF ResultInv, NumberInv
  <2> QED BY <2>1, <2>2 DEF ResultInv, TypeOK
<1>2. CASE Throw(w)
  BY <1>2 DEF Throw, state
<1> QED BY <1>1, <1>2

LEMMA InferLatest ==
  ASSUME ResultInv, NEW w \in Workers, InferOnce(w)
  PROVE  latest' = latest \/ latest'.seq > latest.seq
<1> USE DEF state, Flight
<1>1. CASE LockInference(w) \/ BeginInference(w) \/ LockModel(w)
  BY <1>1 DEF LockInference, BeginInference, LockModel
<1>2. CASE CheckPackage(w) \/ NextFrame(w) \/ CheckLoaded(w)
  BY <1>2, ErrorLatest DEF CheckPackage, NextFrame, CheckLoaded, GoOn
<1>3. CASE Preprocess(w) \/ Run(w)
  BY <1>3, ErrorLatest DEF Preprocess, Run
<1>4. CASE Complete(w)
  <2>1. CASE CompleteError(w) \/ Throw(w)
    BY <1>4, <2>1, ErrorLatest DEF Complete
  <2>2. CASE ~(CompleteError(w) \/ Throw(w))
    <3>1. latest' = [seq |-> work[w].seq, made |-> work[w].made \cup {info.version}]
      BY <1>4, <2>2 DEF Complete
    <3>2. latest'.seq = work[w].seq
      BY <3>1
    <3>3. work[w].seq = sequence /\ latest.seq < sequence
      BY <1>4 DEF Complete, ResultInv, NumberInv
    <3> QED BY <3>2, <3>3 DEF ResultInv, TypeOK
  <2> QED BY <2>1, <2>2
<1> QED BY <1>1, <1>2, <1>3, <1>4 DEF InferOnce

LEMMA CallLatest ==
  ASSUME ResultInv, NEW w \in Workers, Route(w)
  PROVE  latest' = latest \/ latest'.seq > latest.seq
<1> USE DEF state
<1>1. CASE LockForSwitch(w) \/ SwitchInfo(w) \/ SwitchRunner(w)
  BY <1>1 DEF LockForSwitch, SwitchInfo, SwitchRunner
<1>2. CASE Prepare(w)
  BY <1>2 DEF Prepare, GoOn, Throw
<1>3. CASE StartPreview(w) \/ StopPreview(w)
  BY <1>3 DEF StartPreview, StopPreview
<1> QED BY <1>1, <1>2, <1>3, InferLatest DEF Route

(* The published result never gives way to one of an older frame.          *)
THEOREM ResultsAdvance == Spec => ResultsInOrder
<1>1. ResultInv /\ [Next]_vars => ResultInv'
  BY StepResult
<1>2. ASSUME ResultInv, [Next]_vars PROVE latest' = latest \/ latest'.seq > latest.seq
  <2>1. CASE Signal \/ Acceptor \/ UNCHANGED vars
    BY <2>1, OutsideSteps DEF state
  <2>2. ASSUME NEW w \in Workers, Between(w) PROVE latest' = latest
    BY <1>2, <2>2, BetweenSteps DEF ResultInv
  <2> QED BY <1>2, <2>1, <2>2, CallLatest DEF Next, Worker, Between
<1>3. ResultInv /\ [Next]_vars
        => [latest'.seq # latest.seq => latest'.seq > latest.seq]_latest
  BY <1>2
<1> QED BY <1>1, <1>3, InitResult, PTL DEF Spec, ResultsInOrder

(***************************************************************************)
(* Frames: the inference under way is the only frame in flight, and each   *)
(* way out moves it to one of the counters or to a pending record_error.   *)
(***************************************************************************)
CountInv == ResultInv /\ FramesAccounted

LEMMA FiniteSets ==
  /\ IsFiniteSet(InFlight) /\ IsFiniteSet(Failing)
  /\ IsFiniteSet(InFlight') /\ IsFiniteSet(Failing')
  BY WorkersAssumption, FS_Subset DEF InFlight, Failing

LEMMA Joins ==
  ASSUME NEW S, NEW T, NEW x, IsFiniteSet(S), x \notin S, T = S \cup {x}
  PROVE  Cardinality(T) = Cardinality(S) + 1
  BY FS_AddElement

LEMMA Leaves ==
  ASSUME NEW S, NEW T, NEW x, IsFiniteSet(S), x \in S, T = S \ {x}
  PROVE  Cardinality(T) = Cardinality(S) - 1
  BY FS_RemoveElement

LEMMA SetsMove ==
  ASSUME TypeOK, NEW w \in Workers, \A v \in Workers \ {w} : pc'[v] = pc[v]
  PROVE  /\ InFlight' = IF pc'[w] \in Flight THEN InFlight \cup {w} ELSE InFlight \ {w}
         /\ Failing' = IF pc'[w] = "thrown" THEN Failing \cup {w} ELSE Failing \ {w}
         /\ w \in InFlight <=> pc[w] \in Flight
         /\ w \in Failing <=> pc[w] = "thrown"
  BY DEF InFlight, Failing, Flight

Counters == <<sequence, inferred, errors>>

\* What a step of one worker does to the two sets and the counters.
Same == InFlight' = InFlight /\ Failing' = Failing /\ UNCHANGED Counters
Begins(w) ==
  /\ w \notin InFlight /\ InFlight' = InFlight \cup {w} /\ Failing' = Failing
  /\ sequence' = sequence + 1 /\ UNCHANGED <<inferred, errors>>
Ends(w) == w \in InFlight /\ InFlight' = InFlight \ {w}
Fails(w) ==
  Ends(w) /\ Failing' = Failing /\ errors' = errors + 1 /\ UNCHANGED <<sequence, inferred>>
Infers(w) ==
  Ends(w) /\ Failing' = Failing /\ inferred' = inferred + 1 /\ UNCHANGED <<sequence, errors>>
Throws(w) ==
  /\ Ends(w) \/ InFlight' = InFlight
  /\ w \notin Failing /\ Failing' = Failing \cup {w} /\ UNCHANGED Counters
Records(w) ==
  /\ InFlight' = InFlight /\ w \in Failing /\ Failing' = Failing \ {w}
  /\ errors' = errors + 1 /\ UNCHANGED <<sequence, inferred>>
Moves(w) == Same \/ Begins(w) \/ Fails(w) \/ Infers(w) \/ Throws(w) \/ Records(w)

LEMMA MovesKeepAccount ==
  ASSUME TypeOK, FramesAccounted, NEW w \in Workers, Moves(w) PROVE FramesAccounted'
<1> DEFINE f == Cardinality(InFlight)  t == Cardinality(Failing)
           F == Cardinality(InFlight') T == Cardinality(Failing')
<1>1. f \in Nat /\ t \in Nat /\ F \in Nat /\ T \in Nat
  BY FiniteSets, FS_CardinalityType
<1>2. sequence \in Nat /\ inferred \in Nat /\ errors \in Nat
  BY DEF TypeOK
<1>3. inferred + f <= sequence /\ sequence <= inferred + errors + f + t
  BY DEF FramesAccounted
<1>4. inferred' + F <= sequence' /\ sequence' <= inferred' + errors' + F + T
  <2>1. CASE Same
    <3>1. F = f /\ T = t
      BY <2>1 DEF Same
    <3> HIDE DEF f, t, F, T
    <3> QED BY <1>3, <2>1, <3>1 DEF Same, Counters
  <2>2. CASE Begins(w)
    <3>1. F = f + 1 /\ T = t
      BY <2>2, Joins, FiniteSets DEF Begins
    <3> HIDE DEF f, t, F, T
    <3> QED BY <1>1, <1>2, <1>3, <2>2, <3>1 DEF Begins
  <2>3. CASE Fails(w)
    <3>1. F = f - 1 /\ T = t
      BY <2>3, Leaves, FiniteSets DEF Fails, Ends
    <3> HIDE DEF f, t, F, T
    <3> QED BY <1>1, <1>2, <1>3, <2>3, <3>1 DEF Fails
  <2>4. CASE Infers(w)
    <3>1. F = f - 1 /\ T = t
      BY <2>4, Leaves, FiniteSets DEF Infers, Ends
    <3> HIDE DEF f, t, F, T
    <3> QED BY <1>1, <1>2, <1>3, <2>4, <3>1 DEF Infers
  <2>5. CASE Throws(w)
    <3>1. (F = f - 1 \/ F = f) /\ T = t + 1
      BY <2>5, Leaves, Joins, FiniteSets DEF Throws, Ends
    <3> HIDE DEF f, t, F, T
    <3> QED BY <1>1, <1>2, <1>3, <2>5, <3>1 DEF Throws, Counters
  <2>6. CASE Records(w)
    <3>1. F = f /\ T = t - 1
      BY <2>6, Leaves, FiniteSets DEF Records
    <3> HIDE DEF f, t, F, T
    <3> QED BY <1>1, <1>2, <1>3, <2>6, <3>1 DEF Records
  <2> HIDE DEF f, t, F, T
  <2> QED BY <2>1, <2>2, <2>3, <2>4, <2>5, <2>6 DEF Moves
<1> QED BY <1>4 DEF FramesAccounted

LEMMA GotoMoves ==
  ASSUME TypeOK, NEW w \in Workers, NEW place, Goto(w, place),
         place # "thrown", pc[w] # "thrown", place \in Flight <=> pc[w] \in Flight,
         UNCHANGED Counters
  PROVE  Moves(w)
<1>1. pc'[w] = place /\ \A v \in Workers \ {w} : pc'[v] = pc[v]
  BY GotoOther
<1>2. Same
  BY <1>1, SetsMove DEF Same
<1> QED BY <1>2 DEF Moves

LEMMA ErrorMoves ==
  ASSUME TypeOK, NEW w \in Workers, pc[w] \in Flight, CompleteError(w) \/ Throw(w)
  PROVE  Moves(w)
<1>1. CASE CompleteError(w)
  <2>1. pc'[w] = "answer" /\ \A v \in Workers \ {w} : pc'[v] = pc[v]
    BY <1>1, GotoOther DEF CompleteError
  <2>2. Fails(w)
    BY <1>1, <2>1, SetsMove DEF Fails, Ends, CompleteError, Flight
  <2> QED BY <2>2 DEF Moves
<1>2. CASE Throw(w)
  <2>1. pc'[w] = "thrown" /\ \A v \in Workers \ {w} : pc'[v] = pc[v]
    BY <1>2, GotoOther DEF Throw
  <2>2. Throws(w)
    BY <1>2, <2>1, SetsMove DEF Throws, Ends, Throw, Flight, state, Counters
  <2> QED BY <2>2 DEF Moves
<1> QED BY <1>1, <1>2

LEMMA InferMoves == ASSUME TypeOK, NEW w \in Workers, InferOnce(w) PROVE Moves(w)
<1> USE DEF Flight, state, Counters
<1>1. CASE LockInference(w) \/ LockModel(w)
  BY <1>1, GotoMoves DEF LockInference, LockModel
<1>2. CASE BeginInference(w)
  <2>1. pc'[w] = "package" /\ \A v \in Workers \ {w} : pc'[v] = pc[v]
    BY <1>2, GotoOther DEF BeginInference
  <2>2. Begins(w)
    BY <1>2, <2>1, SetsMove DEF Begins, BeginInference
  <2> QED BY <2>2 DEF Moves
<1>3. CASE CheckPackage(w) \/ NextFrame(w) \/ CheckLoaded(w)
  BY <1>3, GotoMoves, ErrorMoves DEF CheckPackage, NextFrame, CheckLoaded, GoOn
<1>4. CASE Preprocess(w) \/ Run(w)
  BY <1>4, GotoMoves, ErrorMoves DEF Preprocess, Run
<1>5. CASE Complete(w)
  <2>1. CASE CompleteError(w) \/ Throw(w)
    BY <1>5, <2>1, ErrorMoves DEF Complete
  <2>2. CASE Goto(w, "answer") /\ ~(CompleteError(w) \/ Throw(w))
    <3>1. pc'[w] = "answer" /\ \A v \in Workers \ {w} : pc'[v] = pc[v]
      BY <2>2, GotoOther
    <3>2. pc[w] = "complete" /\ inferred' = inferred + 1 /\ UNCHANGED <<sequence, errors>>
      BY <1>5, <2>2 DEF Complete
    <3>3. Infers(w)
      BY <3>1, <3>2, SetsMove DEF Infers, Ends
    <3> QED BY <3>3 DEF Moves
  <2> QED BY <1>5, <2>1, <2>2 DEF Complete
<1> QED BY <1>1, <1>2, <1>3, <1>4, <1>5 DEF InferOnce

LEMMA CallMoves ==
  ASSUME TypeOK, NEW w \in Workers,
         \/ LockForSwitch(w) \/ Prepare(w) \/ SwitchInfo(w) \/ SwitchRunner(w)
         \/ StartPreview(w) \/ StopPreview(w)
  PROVE  Moves(w)
<1> USE DEF Flight, state, Counters
<1>1. CASE LockForSwitch(w) \/ SwitchInfo(w) \/ SwitchRunner(w)
  BY <1>1, GotoMoves DEF LockForSwitch, SwitchInfo, SwitchRunner
<1>2. CASE Prepare(w)
  <2>1. CASE Throw(w)
    <3>1. pc'[w] = "thrown" /\ \A v \in Workers \ {w} : pc'[v] = pc[v]
      BY <2>1, GotoOther DEF Throw
    <3>2. Throws(w)
      BY <1>2, <2>1, <3>1, SetsMove DEF Throws, Throw, Prepare
    <3> QED BY <3>2 DEF Moves
  <2> QED BY <1>2, <2>1, GotoMoves DEF Prepare, GoOn
<1>3. CASE StartPreview(w) \/ StopPreview(w)
  BY <1>3, GotoMoves DEF StartPreview, StopPreview
<1> QED BY <1>1, <1>2, <1>3

LEMMA BetweenMoves == ASSUME TypeOK, Served, NEW w \in Workers, Between(w) PROVE Moves(w)
<1>1. /\ pc[w] \notin Flight /\ pc'[w] \notin Flight /\ pc'[w] # "thrown"
      /\ \A v \in Workers \ {w} : pc'[v] = pc[v]
      /\ UNCHANGED <<sequence, inferred>>
      /\ errors' = (IF pc[w] = "thrown" THEN errors + 1 ELSE errors)
  BY BetweenSteps
<1>2. CASE pc[w] = "thrown"
  BY <1>1, <1>2, SetsMove DEF Records, Moves
<1>3. CASE pc[w] # "thrown"
  BY <1>1, <1>3, SetsMove DEF Same, Moves, Counters
<1> QED BY <1>2, <1>3

(* Every frame is in flight, inferred or an error, whichever way its       *)
(* inference went out.                                                     *)
THEOREM AllFramesCounted == Spec => []FramesAccounted
<1>1. Init => CountInv
  <2> SUFFICES ASSUME Init PROVE FramesAccounted
    BY InitResult DEF CountInv
  <2>1. InFlight = {} /\ Failing = {}
    BY DEF Init, InFlight, Failing
  <2> QED BY <2>1, FS_EmptySet DEF Init, FramesAccounted
<1>2. CountInv /\ [Next]_vars => CountInv'
  <2> SUFFICES ASSUME CountInv, [Next]_vars PROVE CountInv'
    OBVIOUS
  <2>1. ResultInv'
    BY StepResult DEF CountInv
  <2>2. CASE Signal \/ Acceptor \/ UNCHANGED vars
    <3>1. UNCHANGED <<pc, sequence, inferred, errors>>
      BY <2>2, OutsideSteps DEF state
    <3> QED BY <2>1, <3>1 DEF CountInv, FramesAccounted, InFlight, Failing
  <2>3. ASSUME NEW w \in Workers, Worker(w) PROVE FramesAccounted'
    <3>1. Moves(w)
      BY <2>3, InferMoves, CallMoves, BetweenMoves
         DEF Worker, Route, Between, CountInv, ResultInv
    <3> QED BY <3>1, MovesKeepAccount DEF CountInv, ResultInv
  <2> QED BY <2>1, <2>2, <2>3 DEF Next, CountInv
<1> QED BY <1>1, <1>2, PTL DEF Spec, CountInv
=============================================================================
