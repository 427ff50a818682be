------------------------ MODULE FoamRingServiceProof ------------------------
(***************************************************************************)
(* Proofs about FoamRingService, for every capacity, every set of request   *)
(* ids and every number of jobs.  The heart is PipelineInv: the jobs that   *)
(* are on their way stand in line in the order of their acceptance, from    *)
(* the geometry worker back to submit(), and have no outcome yet.           *)
(***************************************************************************)
EXTENDS FoamRingService, SequenceTheorems, FiniteSetTheorems, WellFoundedInduction, TLAPS

-----------------------------------------------------------------------------
(* Queues.                                                                  *)

InOrder(q) ==
  \A p, r \in 1..Len(q) : p < r /\ q[p] # Sentinel /\ q[r] # Sentinel => q[p] < q[r]

LEMMA TailItems ==
  ASSUME NEW q \in Seq(Nat), q # <<>>
  PROVE  /\ Items(Tail(q)) \subseteq Items(q)
         /\ Items(q) \subseteq Items(Tail(q)) \cup {Head(q)}
         /\ Head(q) # Sentinel => Head(q) \in Items(q)
         /\ InOrder(q) => InOrder(Tail(q))
         /\ InOrder(q) /\ Head(q) # Sentinel => \A j \in Items(Tail(q)) : Head(q) < j
<1>1. Len(q) \in Nat /\ Len(q) >= 1 /\ Head(q) = q[1]
  OBVIOUS
<1>2. Len(Tail(q)) = Len(q) - 1 /\ \A p \in 1..(Len(q) - 1) : Tail(q)[p] = q[p + 1]
  BY <1>1
<1>3. \A p \in 1..Len(q) : p = 1 \/ (p - 1 \in 1..(Len(q) - 1) /\ Tail(q)[p - 1] = q[p])
  BY <1>1, <1>2
<1>4. Items(Tail(q)) \subseteq Items(q)
  BY <1>1, <1>2 DEF Items
<1>5. Items(q) \subseteq Items(Tail(q)) \cup {Head(q)}
  BY <1>1, <1>2, <1>3 DEF Items
<1>6. InOrder(q) => InOrder(Tail(q))
  BY <1>1, <1>2 DEF InOrder
<1>7. InOrder(q) /\ Head(q) # Sentinel => \A j \in Items(Tail(q)) : Head(q) < j
  BY <1>1, <1>2 DEF InOrder, Items
<1> QED BY <1>1, <1>4, <1>5, <1>6, <1>7 DEF Items

LEMMA AppendItems ==
  ASSUME NEW q \in Seq(Nat), NEW x \in Nat
  PROVE  /\ Items(Append(q, x)) = Items(q) \cup ({x} \ {Sentinel})
         /\ InOrder(q) /\ (x # Sentinel => \A j \in Items(q) : j < x) => InOrder(Append(q, x))
<1>1. /\ Len(Append(q, x)) = Len(q) + 1 /\ Len(q) \in Nat
      /\ \A p \in 1..Len(q) : Append(q, x)[p] = q[p]
      /\ Append(q, x)[Len(q) + 1] = x
  OBVIOUS
<1>2. \A p \in 1..(Len(q) + 1) : p \in 1..Len(q) \/ p = Len(q) + 1
  BY <1>1
<1>3. Items(Append(q, x)) \subseteq Items(q) \cup ({x} \ {Sentinel})
  BY <1>1, <1>2 DEF Items
<1>4. Items(q) \cup ({x} \ {Sentinel}) \subseteq Items(Append(q, x))
  <2>1. 1..Len(q) \subseteq 1..Len(Append(q, x)) /\ Len(q) + 1 \in 1..Len(Append(q, x))
    BY <1>1
  <2> QED BY <1>1, <2>1 DEF Items
<1>5. ASSUME InOrder(q), x # Sentinel => \A j \in Items(q) : j < x
      PROVE  InOrder(Append(q, x))
  BY <1>1, <1>2, <1>5 DEF InOrder, Items
<1> QED BY <1>3, <1>4, <1>5

Queue(cap) == {q \in Seq(Jobs \cup {Sentinel}) : Len(q) <= cap}

LEMMA Dequeue ==
  ASSUME NEW cap \in Nat, NEW q \in Queue(cap), q # << >>
  PROVE  /\ Tail(q) \in Queue(cap) /\ Head(q) \in Jobs \cup {Sentinel}
         /\ Head(q) = q[1] /\ 1 \in 1..Len(q)
BY DEF Queue

LEMMA Enqueue ==
  ASSUME NEW cap \in Nat, NEW q \in Queue(cap), NEW x \in Jobs \cup {Sentinel}
  PROVE  (IF Has(q, cap) THEN Append(q, x) ELSE q) \in Queue(cap)
<1>1. CASE Has(q, cap)
  <2>1. Append(q, x) \in Seq(Jobs \cup {Sentinel}) /\ Len(Append(q, x)) = Len(q) + 1
        /\ Len(q) \in Nat
    BY DEF Queue
  <2> QED BY <1>1, <2>1 DEF Queue, Has
<1>2. CASE ~Has(q, cap)
  BY <1>2
<1> QED BY <1>1, <1>2

LEMMA QueuesType ==
  TypeOK => /\ TriggerCap \in Nat /\ GeometryCap \in Nat
            /\ triggerQueue \in Queue(TriggerCap) /\ geometryQueue \in Queue(GeometryCap)
BY ServiceAssumption DEF TypeOK, Queue

LEMMA EmptyItems == Items(<< >>) = {} /\ InOrder(<< >>)
  BY DEF Items, InOrder

-----------------------------------------------------------------------------
(* The registry.                                                            *)

LEMMA WithoutEntry ==
  ASSUME NEW s \in Seq(Jobs), NEW p \in 1..Len(s)
  PROVE  /\ Without(s, p) \in Seq(Jobs) /\ Len(Without(s, p)) = Len(s) - 1
         /\ \A i \in 1..(Len(s) - 1) :
              \E k \in 1..Len(s) : k # p /\ Without(s, p)[i] = s[k] /\ k = IF i < p THEN i ELSE i + 1
         /\ \A k \in 1..Len(s) : k # p =>
              \E i \in 1..(Len(s) - 1) : Without(s, p)[i] = s[k]
<1>1. Len(s) \in Nat /\ Len(s) - 1 \in Nat /\ \A k \in 1..Len(s) : s[k] \in Jobs
  OBVIOUS
<1>2. Without(s, p) \in [1..(Len(s) - 1) -> Jobs]
  BY <1>1 DEF Without
<1>3. Without(s, p) \in Seq(Jobs) /\ Len(Without(s, p)) = Len(s) - 1
  BY <1>1, <1>2
<1>4. \A i \in 1..(Len(s) - 1) :
        \E k \in 1..Len(s) : k # p /\ Without(s, p)[i] = s[k] /\ k = IF i < p THEN i ELSE i + 1
  BY <1>1 DEF Without
<1>5. ASSUME NEW k \in 1..Len(s), k # p
      PROVE  \E i \in 1..(Len(s) - 1) : Without(s, p)[i] = s[k]
  <2>1. CASE k < p
    BY <1>1, <1>5, <2>1 DEF Without
  <2>2. CASE k > p
    <3>1. k - 1 \in 1..(Len(s) - 1) /\ ~(k - 1 < p) /\ (k - 1) + 1 = k
      BY <1>1, <1>5, <2>2
    <3>2. Without(s, p)[k - 1] = s[k]
      BY <3>1 DEF Without
    <3> QED BY <3>1, <3>2
  <2> QED BY <1>5, <2>1, <2>2
<1> QED BY <1>3, <1>4, <1>5

-----------------------------------------------------------------------------
(* Type correctness.                                                        *)

\* The worker that is past its get has a job; every queued item is a job or
\* the sentinel, and the drain meets no sentinel, which comes after it.
HandsInv ==
  /\ infJob # NoJob <=> infPc \in {"taken", "prepare", "offer", "put"}
  /\ geoJob # NoJob <=> geoPc \in {"taken", "finish", "finally"}
  /\ submitted.job # NoJob => lock = "submit" /\ submitted.job = accepted
  /\ lock = "submit" /\ submitted.job = NoJob => accepted < MaxJobs
  /\ lock = "geometry" => geoPc = "finally"
  /\ stopPc \in {"running", "drainTrigger", "drainGeometry", "markTrigger"} =>
       \A p \in 1..Len(triggerQueue) : triggerQueue[p] # Sentinel
  /\ stopPc # "stopped" => \A p \in 1..Len(geometryQueue) : geometryQueue[p] # Sentinel

LEMMA TypeInit == Init => TypeOK
  BY ServiceAssumption DEF Init, TypeOK, Idle, Statuses, InfSteps, GeoSteps, StopSteps, NoJob, Jobs

\* TypeOK in three parts, each of them disturbed by few actions.
QueuesOK == triggerQueue \in Queue(TriggerCap) /\ geometryQueue \in Queue(GeometryCap)
JobsOK ==
  /\ requestOf \in [Jobs -> RequestIds \cup {NoRequest}]
  /\ status \in [Jobs -> Statuses] /\ done \in [Jobs -> BOOLEAN]
  /\ accepted \in 0..MaxJobs /\ completed \in Nat /\ failed \in Nat
  /\ latest \in Jobs \cup {NoJob} /\ registry \in Seq(Jobs)
ActorsOK ==
  /\ lock \in {"free", "submit", "geometry"}
  /\ submitted \in [request : RequestIds \cup {NoRequest}, job : Jobs \cup {NoJob}]
  /\ infPc \in InfSteps /\ infJob \in Jobs \cup {NoJob}
  /\ geoPc \in GeoSteps /\ geoJob \in Jobs \cup {NoJob}
  /\ stopPc \in StopSteps

LEMMA TypeParts == TypeOK <=> QueuesOK /\ JobsOK /\ ActorsOK
  BY DEF TypeOK, QueuesOK, JobsOK, ActorsOK, Queue

LEMMA TypePartsNext == TypeOK' <=> QueuesOK' /\ JobsOK' /\ ActorsOK'
  BY DEF TypeOK, QueuesOK, JobsOK, ActorsOK, Queue

\* What Fail does to the types.
LEMMA FailType ==
  ASSUME JobsOK, NEW j \in Jobs, Fail(j)
  PROVE  failed' \in Nat /\ status' \in [Jobs -> Statuses] /\ done' \in [Jobs -> BOOLEAN]
<1>1. CASE done[j]
  BY <1>1 DEF Fail, JobsOK
<1>2. CASE ~done[j]
  <2>1. failed + 1 \in Nat /\ "error" \in Statuses
    BY DEF JobsOK, Statuses
  <2> QED BY <1>2, <2>1 DEF Fail, JobsOK
<1> QED BY <1>1, <1>2

LEMMA HttpType == TypeOK /\ HandsInv /\ Http => TypeOK'
<1> SUFFICES ASSUME QueuesOK, JobsOK, ActorsOK, HandsInv, Http
             PROVE  QueuesOK' /\ JobsOK' /\ ActorsOK'
  BY TypeParts, TypePartsNext
<1>0. TriggerCap \in Nat /\ GeometryCap \in Nat
  BY ServiceAssumption
<1>1. ASSUME NEW r \in RequestIds, Replay(r) PROVE QueuesOK' /\ JobsOK' /\ ActorsOK'
  <2>1. PICK p \in 1..Len(registry) : registry' = MovedToEnd(p)
    BY <1>1 DEF Replay
  <2>2. Without(registry, p) \in Seq(Jobs) /\ registry[p] \in Jobs
    BY WithoutEntry DEF JobsOK
  <2>3. registry' \in Seq(Jobs)
    BY <2>1, <2>2 DEF MovedToEnd
  <2>q. QueuesOK'
    BY <1>1 DEF Replay, QueuesOK
  <2>j. JobsOK'
    BY <1>1, <2>3 DEF Replay, JobsOK, jobVars
  <2>a. ActorsOK'
    BY <1>1 DEF Replay, ActorsOK, infVars, geoVars, Idle, NoJob, InfSteps, GeoSteps, StopSteps
  <2> QED BY <2>q, <2>j, <2>a
<1>2. ASSUME NEW r \in RequestIds, SubmitNew(r) PROVE QueuesOK' /\ JobsOK' /\ ActorsOK'
  <2>q. QueuesOK'
    BY <1>2 DEF SubmitNew, QueuesOK
  <2>j. JobsOK'
    BY <1>2 DEF SubmitNew, JobsOK, jobVars
  <2>a. ActorsOK'
    BY <1>2 DEF SubmitNew, ActorsOK, infVars, geoVars, Idle, NoJob, InfSteps, GeoSteps, StopSteps
  <2> QED BY <2>q, <2>j, <2>a
<1>3. CASE SubmitReject
  <2>q. QueuesOK'
    BY <1>3 DEF SubmitReject, QueuesOK
  <2>j. JobsOK'
    BY <1>3 DEF SubmitReject, JobsOK, jobVars
  <2>a. ActorsOK'
    BY <1>3 DEF SubmitReject, ActorsOK, infVars, geoVars, Idle, NoJob, InfSteps, GeoSteps, StopSteps
  <2> QED BY <2>q, <2>j, <2>a
<1>4. CASE SubmitRegister
  <2>1. accepted + 1 \in Jobs
    BY <1>4, ServiceAssumption DEF SubmitRegister, Jobs, HandsInv, JobsOK
  <2>q. QueuesOK'
    BY <1>4 DEF SubmitRegister, QueuesOK
  <2>j. JobsOK'
    <3>1. "queued" \in Statuses /\ submitted.request \in RequestIds \cup {NoRequest}
      BY DEF Statuses, ActorsOK
    <3>2. accepted' \in 0..MaxJobs /\ registry' \in Seq(Jobs)
      BY <1>4, <2>1 DEF SubmitRegister, Jobs, JobsOK
    <3> QED BY <1>4, <2>1, <3>1, <3>2 DEF SubmitRegister, JobsOK
  <2>a. ActorsOK'
    BY <1>4, <2>1 DEF SubmitRegister, ActorsOK, infVars, geoVars
  <2> QED BY <2>q, <2>j, <2>a
<1>5. CASE SubmitPut
  <2>q. QueuesOK'
    <3>1. submitted.job \in Jobs \cup {Sentinel}
      BY <1>5 DEF ActorsOK, NoJob, Sentinel
    <3> QED BY <1>0, <1>5, <3>1, Enqueue DEF SubmitPut, QueuesOK
  <2>j. JobsOK'
    BY <1>5 DEF SubmitPut, JobsOK, jobVars
  <2>a. ActorsOK'
    BY <1>5 DEF SubmitPut, ActorsOK, infVars, geoVars, Idle, NoJob, InfSteps, GeoSteps, StopSteps
  <2> QED BY <2>q, <2>j, <2>a
<1> QED BY <1>1, <1>2, <1>3, <1>4, <1>5 DEF Http

LEMMA TrimType == TypeOK /\ Trim => TypeOK'
<1> SUFFICES ASSUME TypeOK, Trim PROVE TypeOK'
  OBVIOUS
<1>1. PICK p \in 1..Len(registry) : registry' = Without(registry, p)
  BY DEF Trim
<1>2. registry' \in Seq(Jobs)
  BY <1>1, WithoutEntry DEF TypeOK
<1> QED BY <1>2 DEF Trim, TypeOK, jobVars, infVars, geoVars

LEMMA InferenceType == TypeOK /\ HandsInv /\ Inference => TypeOK'
<1> SUFFICES ASSUME QueuesOK, JobsOK, ActorsOK, HandsInv, Inference
             PROVE  QueuesOK' /\ JobsOK' /\ ActorsOK'
  BY TypeParts, TypePartsNext
<1>0. TriggerCap \in Nat /\ GeometryCap \in Nat
  BY ServiceAssumption
<1>1. CASE InfLoop
  <2>q. QueuesOK'
    BY <1>1 DEF InfLoop, QueuesOK
  <2>j. JobsOK'
    BY <1>1 DEF InfLoop, JobsOK, jobVars
  <2>a. ActorsOK'
    BY <1>1 DEF InfLoop, ActorsOK, infVars, geoVars, Idle, NoJob, InfSteps, GeoSteps, StopSteps
  <2> QED BY <2>q, <2>j, <2>a
<1>2. CASE InfGet
  <2>q. QueuesOK'
    <3>1. CASE triggerQueue = << >>
      BY <1>2, <3>1 DEF InfGet, QueuesOK
    <3>2. CASE triggerQueue # << >>
      <4>1. triggerQueue' = Tail(triggerQueue)
        BY <1>2, <3>2 DEF InfGet
      <4> QED BY <1>0, <1>2, <3>2, <4>1, Dequeue DEF InfGet, QueuesOK
    <3> QED BY <3>1, <3>2
  <2>j. JobsOK'
    BY <1>2 DEF InfGet, JobsOK, jobVars
  <2>a. ActorsOK'
    <3>1. triggerQueue # << >> => Head(triggerQueue) \in Jobs \cup {Sentinel}
      BY <1>0, Dequeue DEF QueuesOK
    <3>2. infJob' \in Jobs \cup {NoJob} /\ infPc' \in InfSteps
      BY <1>2, <3>1 DEF InfGet, ActorsOK, Sentinel, NoJob, InfSteps
    <3> QED BY <1>2, <3>2 DEF InfGet, ActorsOK, infVars, geoVars
  <2> QED BY <2>q, <2>j, <2>a
<1>3. CASE InfBegin
  <2>q. QueuesOK'
    BY <1>3 DEF InfBegin, QueuesOK
  <2>j. JobsOK'
    <3>1. "inferring" \in Statuses
      BY DEF Statuses
    <3> QED BY <1>3, <3>1 DEF InfBegin, JobsOK
  <2>a. ActorsOK'
    BY <1>3 DEF InfBegin, ActorsOK, infVars, geoVars, Idle, NoJob, InfSteps, GeoSteps, StopSteps
  <2> QED BY <2>q, <2>j, <2>a
<1>4. CASE InfPrepared
  <2>q. QueuesOK'
    BY <1>4 DEF InfPrepared, QueuesOK
  <2>j. JobsOK'
    <3>1. "geometry_queued" \in Statuses
      BY DEF Statuses
    <3> QED BY <1>4, <3>1 DEF InfPrepared, JobsOK
  <2>a. ActorsOK'
    BY <1>4 DEF InfPrepared, ActorsOK, infVars, geoVars, Idle, NoJob, InfSteps, GeoSteps, StopSteps
  <2> QED BY <2>q, <2>j, <2>a
<1>5. CASE InfFailed
  <2>1. infJob \in Jobs /\ Fail(infJob)
    BY <1>5 DEF InfFailed, HandsInv, ActorsOK
  <2>q. QueuesOK'
    BY <1>5 DEF InfFailed, QueuesOK
  <2>j. JobsOK'
    BY <1>5, <2>1, FailType DEF InfFailed, JobsOK
  <2>a. ActorsOK'
    BY <1>5 DEF InfFailed, ActorsOK, infVars, geoVars, Idle, NoJob, InfSteps, GeoSteps, StopSteps
  <2> QED BY <2>q, <2>j, <2>a
<1>6. CASE InfOffer
  <2>q. QueuesOK'
    BY <1>6 DEF InfOffer, QueuesOK
  <2>j. JobsOK'
    BY <1>6 DEF InfOffer, JobsOK, jobVars
  <2>a. ActorsOK'
    BY <1>6 DEF InfOffer, ActorsOK, infVars, geoVars, Idle, NoJob, InfSteps, GeoSteps, StopSteps
  <2> QED BY <2>q, <2>j, <2>a
<1>7. CASE InfPut
  <2>q. QueuesOK'
    <3>1. infJob \in Jobs \cup {Sentinel}
      BY <1>7 DEF ActorsOK, NoJob, Sentinel
    <3>2. geometryQueue' = IF Has(geometryQueue, GeometryCap)
                             THEN Append(geometryQueue, infJob) ELSE geometryQueue
      BY <1>7 DEF InfPut
    <3> QED BY <1>0, <1>7, <3>1, <3>2, Enqueue DEF InfPut, QueuesOK
  <2>j. JobsOK'
    BY <1>7 DEF InfPut, JobsOK, jobVars
  <2>a. ActorsOK'
    BY <1>7 DEF InfPut, ActorsOK, infVars, geoVars, Idle, NoJob, InfSteps, GeoSteps, StopSteps
  <2> QED BY <2>q, <2>j, <2>a
<1>8. CASE InfAbandon
  <2>1. infJob \in Jobs /\ Fail(infJob)
    BY <1>8 DEF InfAbandon, HandsInv, ActorsOK
  <2>q. QueuesOK'
    BY <1>8 DEF InfAbandon, QueuesOK
  <2>j. JobsOK'
    BY <1>8, <2>1, FailType DEF InfAbandon, JobsOK
  <2>a. ActorsOK'
    BY <1>8 DEF InfAbandon, ActorsOK, infVars, geoVars, Idle, NoJob, InfSteps, GeoSteps, StopSteps
  <2> QED BY <2>q, <2>j, <2>a
<1> QED BY <1>1, <1>2, <1>3, <1>4, <1>5, <1>6, <1>7, <1>8 DEF Inference

LEMMA GeometryType == TypeOK /\ HandsInv /\ Geometry => TypeOK'
<1> SUFFICES ASSUME QueuesOK, JobsOK, ActorsOK, HandsInv, Geometry
             PROVE  QueuesOK' /\ JobsOK' /\ ActorsOK'
  BY TypeParts, TypePartsNext
<1>0. TriggerCap \in Nat /\ GeometryCap \in Nat
  BY ServiceAssumption
<1>1. CASE GeoLoop
  <2>q. QueuesOK'
    BY <1>1 DEF GeoLoop, QueuesOK
  <2>j. JobsOK'
    BY <1>1 DEF GeoLoop, JobsOK, jobVars
  <2>a. ActorsOK'
    BY <1>1 DEF GeoLoop, ActorsOK, infVars, geoVars, Idle, NoJob, InfSteps, GeoSteps, StopSteps
  <2> QED BY <2>q, <2>j, <2>a
<1>2. CASE GeoGet
  <2>q. QueuesOK'
    <3>1. CASE geometryQueue = << >>
      BY <1>2, <3>1 DEF GeoGet, QueuesOK
    <3>2. CASE geometryQueue # << >>
      <4>1. geometryQueue' = Tail(geometryQueue)
        BY <1>2, <3>2 DEF GeoGet
      <4> QED BY <1>0, <1>2, <3>2, <4>1, Dequeue DEF GeoGet, QueuesOK
    <3> QED BY <3>1, <3>2
  <2>j. JobsOK'
    BY <1>2 DEF GeoGet, JobsOK, jobVars
  <2>a. ActorsOK'
    <3>1. geometryQueue # << >> => Head(geometryQueue) \in Jobs \cup {Sentinel}
      BY <1>0, Dequeue DEF QueuesOK
    <3>2. geoJob' \in Jobs \cup {NoJob} /\ geoPc' \in GeoSteps
      BY <1>2, <3>1 DEF GeoGet, ActorsOK, Sentinel, NoJob, GeoSteps
    <3> QED BY <1>2, <3>2 DEF GeoGet, ActorsOK, infVars, geoVars
  <2> QED BY <2>q, <2>j, <2>a
<1>3. CASE GeoBegin
  <2>q. QueuesOK'
    BY <1>3 DEF GeoBegin, QueuesOK
  <2>j. JobsOK'
    <3>1. "geometry" \in Statuses
      BY DEF Statuses
    <3> QED BY <1>3, <3>1 DEF GeoBegin, JobsOK
  <2>a. ActorsOK'
    BY <1>3 DEF GeoBegin, ActorsOK, infVars, geoVars, Idle, NoJob, InfSteps, GeoSteps, StopSteps
  <2> QED BY <2>q, <2>j, <2>a
<1>4. CASE GeoSucceed
  <2>q. QueuesOK'
    BY <1>4 DEF GeoSucceed, QueuesOK
  <2>j. JobsOK'
    <3>1. "ok" \in Statuses /\ completed + 1 \in Nat /\ geoJob \in Jobs \cup {NoJob}
      BY DEF Statuses, JobsOK, ActorsOK
    <3> QED BY <1>4, <3>1 DEF GeoSucceed, JobsOK
  <2>a. ActorsOK'
    BY <1>4 DEF GeoSucceed, ActorsOK, infVars, geoVars, Idle, NoJob, InfSteps, GeoSteps, StopSteps
  <2> QED BY <2>q, <2>j, <2>a
<1>5. CASE GeoFailed
  <2>1. geoJob \in Jobs /\ Fail(geoJob)
    BY <1>5 DEF GeoFailed, HandsInv, ActorsOK
  <2>q. QueuesOK'
    BY <1>5 DEF GeoFailed, QueuesOK
  <2>j. JobsOK'
    BY <1>5, <2>1, FailType DEF GeoFailed, JobsOK
  <2>a. ActorsOK'
    BY <1>5 DEF GeoFailed, ActorsOK, infVars, geoVars, Idle, NoJob, InfSteps, GeoSteps, StopSteps
  <2> QED BY <2>q, <2>j, <2>a
<1>6. CASE GeoFinally
  <2>q. QueuesOK'
    BY <1>6 DEF GeoFinally, QueuesOK
  <2>j. JobsOK'
    BY <1>6 DEF GeoFinally, JobsOK, jobVars
  <2>a. ActorsOK'
    BY <1>6 DEF GeoFinally, ActorsOK, infVars, geoVars, Idle, NoJob, InfSteps, GeoSteps, StopSteps
  <2> QED BY <2>q, <2>j, <2>a
<1>7. CASE GeoRelease
  <2>q. QueuesOK'
    BY <1>7 DEF GeoRelease, QueuesOK
  <2>j. JobsOK'
    BY <1>7 DEF GeoRelease, JobsOK, jobVars
  <2>a. ActorsOK'
    BY <1>7 DEF GeoRelease, ActorsOK, infVars, geoVars, Idle, NoJob, InfSteps, GeoSteps, StopSteps
  <2> QED BY <2>q, <2>j, <2>a
<1> QED BY <1>1, <1>2, <1>3, <1>4, <1>5, <1>6, <1>7 DEF Geometry

LEMMA StopType == TypeOK /\ HandsInv /\ Stop => TypeOK'
<1> SUFFICES ASSUME QueuesOK, JobsOK, ActorsOK, HandsInv, Stop
             PROVE  QueuesOK' /\ JobsOK' /\ ActorsOK'
  BY TypeParts, TypePartsNext
<1>0. TriggerCap \in Nat /\ GeometryCap \in Nat
  BY ServiceAssumption
<1>1. CASE StopSet
  <2>q. QueuesOK'
    BY <1>1 DEF StopSet, QueuesOK
  <2>j. JobsOK'
    BY <1>1 DEF StopSet, JobsOK, jobVars
  <2>a. ActorsOK'
    BY <1>1 DEF StopSet, ActorsOK, infVars, geoVars, Idle, NoJob, InfSteps, GeoSteps, StopSteps
  <2> QED BY <2>q, <2>j, <2>a
<1>2. CASE StopDrainTrigger
  <2>q. QueuesOK'
    <3>1. CASE triggerQueue = << >>
      BY <1>2, <3>1 DEF StopDrainTrigger, QueuesOK
    <3>2. CASE triggerQueue # << >>
      <4>1. triggerQueue' = Tail(triggerQueue)
        BY <1>2, <3>2 DEF StopDrainTrigger
      <4> QED BY <1>0, <1>2, <3>2, <4>1, Dequeue DEF StopDrainTrigger, QueuesOK
    <3> QED BY <3>1, <3>2
  <2>j. JobsOK'
    <3>1. CASE triggerQueue = << >>
      BY <1>2, <3>1 DEF StopDrainTrigger, JobsOK
    <3>2. CASE triggerQueue # << >>
      <4>1. Head(triggerQueue) = triggerQueue[1] /\ 1 \in 1..Len(triggerQueue) /\ Head(triggerQueue) \in Jobs \cup {Sentinel}
        BY <1>0, <3>2, Dequeue DEF QueuesOK
      <4>2. triggerQueue[1] # Sentinel
        BY <1>2, <4>1 DEF StopDrainTrigger, HandsInv
      <4>3. Fail(Head(triggerQueue)) /\ Head(triggerQueue) \in Jobs
        BY <1>2, <3>2, <4>1, <4>2 DEF StopDrainTrigger
      <4> QED BY <1>2, <4>3, FailType DEF StopDrainTrigger, JobsOK
    <3> QED BY <3>1, <3>2
  <2>a. ActorsOK'
    BY <1>2 DEF StopDrainTrigger, ActorsOK, infVars, geoVars, Idle, NoJob, InfSteps, GeoSteps, StopSteps
  <2> QED BY <2>q, <2>j, <2>a
<1>3. CASE StopDrainGeometry
  <2>q. QueuesOK'
    <3>1. CASE geometryQueue = << >>
      BY <1>3, <3>1 DEF StopDrainGeometry, QueuesOK
    <3>2. CASE geometryQueue # << >>
      <4>1. geometryQueue' = Tail(geometryQueue)
        BY <1>3, <3>2 DEF StopDrainGeometry
      <4> QED BY <1>0, <1>3, <3>2, <4>1, Dequeue DEF StopDrainGeometry, QueuesOK
    <3> QED BY <3>1, <3>2
  <2>j. JobsOK'
    <3>1. CASE geometryQueue = << >>
      BY <1>3, <3>1 DEF StopDrainGeometry, JobsOK
    <3>2. CASE geometryQueue # << >>
      <4>1. Head(geometryQueue) = geometryQueue[1] /\ 1 \in 1..Len(geometryQueue) /\ Head(geometryQueue) \in Jobs \cup {Sentinel}
        BY <1>0, <3>2, Dequeue DEF QueuesOK
      <4>2. geometryQueue[1] # Sentinel
        BY <1>3, <4>1 DEF StopDrainGeometry, HandsInv
      <4>3. Fail(Head(geometryQueue)) /\ Head(geometryQueue) \in Jobs
        BY <1>3, <3>2, <4>1, <4>2 DEF StopDrainGeometry
      <4> QED BY <1>3, <4>3, FailType DEF StopDrainGeometry, JobsOK
    <3> QED BY <3>1, <3>2
  <2>a. ActorsOK'
    BY <1>3 DEF StopDrainGeometry, ActorsOK, infVars, geoVars, Idle, NoJob, InfSteps, GeoSteps, StopSteps
  <2> QED BY <2>q, <2>j, <2>a
<1>4. CASE StopMarkTrigger
  <2>q. QueuesOK'
    <3>1. Sentinel \in Jobs \cup {Sentinel}
      OBVIOUS
    <3> QED BY <1>0, <1>4, <3>1, Enqueue DEF StopMarkTrigger, QueuesOK
  <2>j. JobsOK'
    BY <1>4 DEF StopMarkTrigger, JobsOK, jobVars
  <2>a. ActorsOK'
    BY <1>4 DEF StopMarkTrigger, ActorsOK, infVars, geoVars, Idle, NoJob, InfSteps, GeoSteps, StopSteps
  <2> QED BY <2>q, <2>j, <2>a
<1>5. CASE StopMarkGeometry
  <2>q. QueuesOK'
    <3>1. Sentinel \in Jobs \cup {Sentinel}
      OBVIOUS
    <3> QED BY <1>0, <1>5, <3>1, Enqueue DEF StopMarkGeometry, QueuesOK
  <2>j. JobsOK'
    BY <1>5 DEF StopMarkGeometry, JobsOK, jobVars
  <2>a. ActorsOK'
    BY <1>5 DEF StopMarkGeometry, ActorsOK, infVars, geoVars, Idle, NoJob, InfSteps, GeoSteps, StopSteps
  <2> QED BY <2>q, <2>j, <2>a
<1> QED BY <1>1, <1>2, <1>3, <1>4, <1>5 DEF Stop

LEMMA TypeStep == TypeOK /\ HandsInv /\ [Next]_vars => TypeOK'
<1> SUFFICES ASSUME TypeOK, HandsInv, [Next]_vars PROVE TypeOK'
  OBVIOUS
<1>1. CASE UNCHANGED vars
  BY <1>1 DEF vars, infVars, geoVars, TypeOK
<1> QED BY <1>1, HttpType, TrimType, InferenceType, GeometryType, StopType DEF Next

-----------------------------------------------------------------------------
(* The line.                                                                *)

Present(j) == {j} \ {NoJob}
Before(A, B) == \A i \in A, j \in B : i < j

Finishing == Present(geoJob)
Ready == Items(geometryQueue)
Inferring == Present(infJob)
Waiting == Items(triggerQueue)
Entering == Present(submitted.job)

LineInv ==
  /\ InOrder(triggerQueue) /\ InOrder(geometryQueue)
  /\ Before(Finishing, Ready) /\ Before(Finishing, Inferring)
  /\ Before(Finishing, Waiting) /\ Before(Finishing, Entering)
  /\ Before(Ready, Inferring) /\ Before(Ready, Waiting) /\ Before(Ready, Entering)
  /\ Before(Inferring, Waiting) /\ Before(Inferring, Entering)
  /\ Before(Waiting, Entering)
  /\ \A j \in Finishing \cup Ready \cup Inferring \cup Waiting \cup Entering : j <= accepted

OpenInv ==
  /\ \A j \in Ready \cup Inferring \cup Waiting \cup Entering : ~Decided(j) /\ latest < j
  /\ geoPc \in {"taken", "finish"} => ~Decided(geoJob) /\ latest < geoJob
  /\ geoPc = "finally" => Decided(geoJob)
  /\ \A j \in Jobs : done[j] => Decided(j)
  /\ \A j \in Jobs : j > accepted => status[j] = "none"
  /\ latest <= accepted
  /\ lock = "geometry" => done[geoJob]

PipelineInv == HandsInv /\ LineInv /\ OpenInv

LEMMA NatItems ==
  ASSUME TypeOK
  PROVE  /\ triggerQueue \in Seq(Nat) /\ geometryQueue \in Seq(Nat)
         /\ Finishing \subseteq Jobs /\ Ready \subseteq Jobs /\ Inferring \subseteq Jobs
         /\ Waiting \subseteq Jobs /\ Entering \subseteq Jobs
         /\ Jobs \subseteq Nat /\ accepted \in Nat /\ latest \in Nat
         /\ 0 \notin Jobs
<1>1. Jobs \subseteq Nat /\ Sentinel \in Nat /\ 0 \notin Jobs
  BY DEF Jobs, Sentinel
<1>2. \A q \in Seq(Jobs \cup {Sentinel}) : q \in Seq(Nat) /\ Items(q) \subseteq Jobs
  <2> TAKE q \in Seq(Jobs \cup {Sentinel})
  <2>1. \A i \in 1..Len(q) : q[i] \in Jobs \cup {Sentinel}
    OBVIOUS
  <2>2. Len(q) \in Nat /\ q \in [1..Len(q) -> Nat]
    <3>1. Len(q) \in Nat /\ q \in [1..Len(q) -> Jobs \cup {Sentinel}]
      OBVIOUS
    <3>2. Jobs \cup {Sentinel} \subseteq Nat
      BY <1>1
    <3> HIDE DEF Sentinel
    <3> QED BY <3>1, <3>2
  <2>3. q \in Seq(Nat)
    BY <2>2
  <2> QED BY <2>1, <2>3 DEF Items
<1>3. triggerQueue \in Seq(Jobs \cup {Sentinel}) /\ geometryQueue \in Seq(Jobs \cup {Sentinel})
  BY DEF TypeOK
<1>4. Ready \subseteq Jobs /\ Waiting \subseteq Jobs
  BY <1>2, <1>3 DEF Ready, Waiting
<1>5. Finishing \subseteq Jobs /\ Inferring \subseteq Jobs /\ Entering \subseteq Jobs
  BY DEF TypeOK, Finishing, Inferring, Entering, Present
<1>6. accepted \in Nat /\ latest \in Nat
  BY <1>1 DEF TypeOK, NoJob
<1> QED BY <1>1, <1>2, <1>3, <1>4, <1>5, <1>6

\* A step that only takes jobs out of the line keeps its order.
LEMMA LineShrinks ==
  ASSUME LineInv, Finishing' \subseteq Finishing, Ready' \subseteq Ready,
         Inferring' \subseteq Inferring, Waiting' \subseteq Waiting, Entering' \subseteq Entering,
         InOrder(triggerQueue)', InOrder(geometryQueue)', accepted' = accepted
  PROVE  LineInv'
BY DEF LineInv, Before

\* The facts about the jobs at hand carry over when neither their outcomes
\* nor latest_result change, and no one enters.
LEMMA OpenShrinks ==
  ASSUME OpenInv, TypeOK,
         Ready' \cup Inferring' \cup Waiting' \cup Entering'
           \subseteq Ready \cup Inferring \cup Waiting \cup Entering,
         UNCHANGED <<status, done, latest, accepted, geoPc, geoJob, lock>>
  PROVE  OpenInv'
BY DEF OpenInv, Decided

Open == Ready \cup Inferring \cup Waiting \cup Entering

\* A job whose outcome is set leaves the line in the same step.
LEMMA OpenDecides ==
  ASSUME TypeOK, HandsInv, OpenInv, lock = "free", NEW h \in Jobs, h <= accepted,
         Open' \subseteq Open, h \notin Open', status'[h] \in {"ok", "error"},
         \A j \in Jobs : j # h => status'[j] = status[j] /\ done'[j] = done[j],
         geoPc \in {"taken", "finish", "finally"} => geoJob # h,
         UNCHANGED <<latest, accepted, geoPc, geoJob, lock>>
  PROVE  OpenInv'
<1>1. Open \subseteq Jobs /\ latest \in Nat /\ accepted \in Nat /\ Jobs \subseteq Nat
  BY NatItems DEF Open
<1>2. \A j \in Open' : status'[j] \notin {"ok", "error"} /\ latest' < j
  BY <1>1 DEF OpenInv, Open, Decided
<1>3. geoPc \in {"taken", "finish", "finally"} => geoJob \in Jobs
  BY DEF HandsInv, TypeOK
<1>4. /\ geoPc' \in {"taken", "finish"} => status'[geoJob'] \notin {"ok", "error"} /\ latest' < geoJob'
      /\ geoPc' = "finally" => status'[geoJob'] \in {"ok", "error"}
  BY <1>3 DEF OpenInv, Decided
<1>5. \A j \in Jobs : done'[j] => status'[j] \in {"ok", "error"}
  BY DEF OpenInv, Decided
<1>6. \A j \in Jobs : j > accepted' => status'[j] = "none"
  BY <1>1 DEF OpenInv
<1>7. latest' <= accepted' /\ lock' = "free"
  BY DEF OpenInv
<1> QED BY <1>2, <1>4, <1>5, <1>6, <1>7 DEF OpenInv, Open, Decided

\* A step that moves an open job on leaves it open.
LEMMA OpenMoves ==
  ASSUME TypeOK, HandsInv, OpenInv, lock = "free", NEW h \in Jobs, h <= accepted,
         Open' \subseteq Open, status[h] \notin {"ok", "error"}, status'[h] \notin {"ok", "error"},
         \A j \in Jobs : j # h => status'[j] = status[j],
         geoPc' \in {"taken", "finish"} => geoPc \in {"taken", "finish"},
         geoPc' = "finally" => geoPc = "finally",
         UNCHANGED <<done, latest, accepted, geoJob, lock>>
  PROVE  OpenInv'
<1>1. Open \subseteq Jobs /\ latest \in Nat /\ accepted \in Nat /\ Jobs \subseteq Nat
  BY NatItems DEF Open
<1>0. \A j \in Jobs : status'[j] \in {"ok", "error"} <=> status[j] \in {"ok", "error"}
  OBVIOUS
<1>2. \A j \in Open' : status'[j] \notin {"ok", "error"} /\ latest' < j
  BY <1>0, <1>1 DEF OpenInv, Open, Decided
<1>3. geoPc \in {"taken", "finish", "finally"} => geoJob \in Jobs
  BY DEF HandsInv, TypeOK
<1>4. /\ geoPc' \in {"taken", "finish"} => status'[geoJob'] \notin {"ok", "error"} /\ latest' < geoJob'
      /\ geoPc' = "finally" => status'[geoJob'] \in {"ok", "error"}
  BY <1>0, <1>3 DEF OpenInv, Decided
<1>5. \A j \in Jobs : done'[j] => status'[j] \in {"ok", "error"}
  BY <1>0 DEF OpenInv, Decided
<1>6. \A j \in Jobs : j > accepted' => status'[j] = "none"
  BY <1>1 DEF OpenInv
<1>7. latest' <= accepted' /\ lock' = "free"
  BY DEF OpenInv
<1> QED BY <1>2, <1>4, <1>5, <1>6, <1>7 DEF OpenInv, Open, Decided

LEMMA PipelineInit == Init => PipelineInv
<1> SUFFICES ASSUME Init PROVE PipelineInv
  OBVIOUS
<1>1. Finishing = {} /\ Ready = {} /\ Inferring = {} /\ Waiting = {} /\ Entering = {}
  BY EmptyItems DEF Init, Finishing, Ready, Inferring, Waiting, Entering, Present, Idle
<1>2. InOrder(triggerQueue) /\ InOrder(geometryQueue)
  BY EmptyItems DEF Init
<1>3. LineInv
  BY <1>1, <1>2 DEF LineInv, Before
<1>4. OpenInv
  BY <1>1 DEF Init, OpenInv, Decided, NoJob
<1>5. HandsInv
  BY DEF Init, HandsInv, Idle
<1> QED BY <1>3, <1>4, <1>5 DEF PipelineInv

LEMMA TrimPipeline == TypeOK /\ PipelineInv /\ Trim => PipelineInv'
<1> SUFFICES ASSUME TypeOK, PipelineInv, Trim PROVE PipelineInv'
  OBVIOUS
<1>1. UNCHANGED <<status, done, latest, accepted, triggerQueue, geometryQueue, infPc, infJob,
                  geoPc, geoJob, lock, submitted, stopPc>>
  BY DEF Trim, jobVars, infVars, geoVars
<1>2. UNCHANGED <<Finishing, Ready, Inferring, Waiting, Entering>>
  BY <1>1 DEF Finishing, Ready, Inferring, Waiting, Entering
<1>3. HandsInv'
  BY <1>1 DEF PipelineInv, HandsInv
<1>4. LineInv'
  BY <1>1, <1>2 DEF PipelineInv, LineInv, InOrder
<1>5. OpenInv'
  BY <1>1, <1>2, OpenShrinks DEF PipelineInv
<1> QED BY <1>3, <1>4, <1>5 DEF PipelineInv

LEMMA HttpPipeline == TypeOK /\ PipelineInv /\ Http => PipelineInv'
<1> SUFFICES ASSUME TypeOK, HandsInv, LineInv, OpenInv, Http
             PROVE  HandsInv' /\ LineInv' /\ OpenInv'
  BY DEF PipelineInv
<1> USE DEF NoJob
<1>1. ASSUME NEW r \in RequestIds, Replay(r) PROVE HandsInv' /\ LineInv' /\ OpenInv'
  <2>u. UNCHANGED <<geoJob, geometryQueue, infJob, triggerQueue, submitted>>
    BY <1>1 DEF Replay, infVars, geoVars
  <2>s. UNCHANGED <<Finishing, Ready, Inferring, Waiting, Entering>>
    BY <2>u DEF Finishing, Ready, Inferring, Waiting, Entering
  <2>h. HandsInv'
    BY <1>1, <2>u DEF Replay, HandsInv, jobVars, infVars, geoVars
  <2>l. LineInv'
    BY <1>1, <2>u, <2>s DEF Replay, LineInv, InOrder
  <2>o. OpenInv'
    BY <1>1, <2>s, OpenShrinks DEF Replay, jobVars, infVars, geoVars
  <2> QED BY <2>h, <2>l, <2>o
<1>2. ASSUME NEW r \in RequestIds, SubmitNew(r) PROVE HandsInv' /\ LineInv' /\ OpenInv'
  <2>u. UNCHANGED <<geoJob, geometryQueue, infJob, triggerQueue>>
    BY <1>2 DEF SubmitNew, infVars, geoVars
  <2>s. UNCHANGED <<Finishing, Ready, Inferring, Waiting>>
    BY <2>u DEF Finishing, Ready, Inferring, Waiting
  <2>e. submitted.job = NoJob /\ submitted'.job = NoJob /\ lock' = "submit" /\ accepted < MaxJobs
    BY <1>2 DEF SubmitNew, HandsInv
  <2>f. Entering' = Entering
    BY <2>e DEF Entering, Present
  <2>h. HandsInv'
    BY <1>2, <2>u, <2>e DEF SubmitNew, HandsInv, jobVars, infVars, geoVars
  <2>l. LineInv'
    BY <1>2, <2>u, <2>s, <2>f DEF SubmitNew, LineInv, InOrder
  <2>o. OpenInv'
    BY <1>2, <2>s, <2>f DEF SubmitNew, OpenInv, Decided, jobVars, infVars, geoVars
  <2> QED BY <2>h, <2>l, <2>o
<1>3. CASE SubmitReject
  <2>u. UNCHANGED <<geoJob, geometryQueue, infJob, triggerQueue>>
    BY <1>3 DEF SubmitReject, infVars, geoVars
  <2>s. UNCHANGED <<Finishing, Ready, Inferring, Waiting>>
    BY <2>u DEF Finishing, Ready, Inferring, Waiting
  <2>f. Entering' = {} /\ submitted'.job = NoJob
    BY <1>3 DEF SubmitReject, Entering, Present, Idle
  <2>h. HandsInv'
    BY <1>3, <2>u, <2>f DEF SubmitReject, HandsInv, jobVars, infVars, geoVars
  <2>l. LineInv'
    BY <1>3, <2>u, <2>s, <2>f DEF SubmitReject, LineInv, Before, InOrder
  <2>o. OpenInv'
    BY <1>3, <2>s, <2>f DEF SubmitReject, OpenInv, Decided, jobVars, infVars, geoVars
  <2> QED BY <2>h, <2>l, <2>o
<1>4. CASE SubmitRegister
  <2>u. UNCHANGED <<geoJob, geometryQueue, infJob, triggerQueue>>
    BY <1>4 DEF SubmitRegister, infVars, geoVars
  <2>s. UNCHANGED <<Finishing, Ready, Inferring, Waiting>>
    BY <2>u DEF Finishing, Ready, Inferring, Waiting
  <2>e. /\ accepted' = accepted + 1 /\ submitted'.job = accepted + 1 /\ lock = "submit" /\ lock' = "submit"
        /\ submitted.job = NoJob /\ accepted < MaxJobs /\ accepted \in Nat /\ MaxJobs \in Nat
        /\ status' = [status EXCEPT ![accepted + 1] = "queued"]
        /\ UNCHANGED <<done, latest, geoPc, infPc, geoJob, infJob, stopPc>>
    BY <1>4, ServiceAssumption DEF SubmitRegister, HandsInv, TypeOK, infVars, geoVars
  <2>f. Entering = {} /\ Entering' = {accepted + 1} /\ accepted + 1 \in Jobs
    BY <2>e DEF Entering, Present, Jobs
  <2>h. HandsInv'
    BY <2>e, <2>u DEF HandsInv
  <2>l. LineInv'
    <3>1. \A j \in Finishing \cup Ready \cup Inferring \cup Waiting : j < accepted + 1
      BY <2>e, NatItems DEF LineInv
    <3> QED BY <2>e, <2>f, <2>u, <2>s, <3>1, NatItems DEF LineInv, Before, InOrder
  <2>o. OpenInv'
    <3>1. status[accepted + 1] = "none" /\ ~done[accepted + 1]
      BY <2>e, <2>f DEF OpenInv, Decided
    <3>2. \A j \in Jobs : j # accepted + 1 => status'[j] = status[j]
      BY <2>e DEF TypeOK
    <3>3. status'[accepted + 1] = "queued"
      BY <2>e, <2>f DEF TypeOK
    <3>4. \A j \in Finishing \cup Ready \cup Inferring \cup Waiting : j # accepted + 1
      BY <2>e, NatItems DEF LineInv
    <3>5. \A j \in Ready' \cup Inferring' \cup Waiting' \cup Entering' : ~Decided(j)' /\ latest' < j
      BY <2>e, <2>f, <2>s, <3>2, <3>3, <3>4, NatItems DEF OpenInv, Decided
    <3>6. geoPc # "loop" /\ geoJob # NoJob => geoJob \in Finishing
      BY DEF Finishing, Present
    <3>7. /\ geoPc' \in {"taken", "finish"} => ~Decided(geoJob)' /\ latest' < geoJob'
          /\ geoPc' = "finally" => Decided(geoJob)'
      BY <2>e, <3>2, <3>4, <3>6, NatItems DEF OpenInv, Decided, HandsInv
    <3>8. \A j \in Jobs : done'[j] => Decided(j)'
      BY <2>e, <2>f, <3>1, <3>2 DEF OpenInv, Decided
    <3>9. \A j \in Jobs : j > accepted' => status'[j] = "none"
      BY <2>e, <3>2, NatItems DEF OpenInv
    <3> QED BY <2>e, <3>5, <3>7, <3>8, <3>9, NatItems DEF OpenInv
  <2> QED BY <2>h, <2>l, <2>o
<1>5. CASE SubmitPut
  <2>u. UNCHANGED <<geoJob, geometryQueue, infJob>>
    BY <1>5 DEF SubmitPut, infVars, geoVars
  <2>s. UNCHANGED <<Finishing, Ready, Inferring>>
    BY <2>u DEF Finishing, Ready, Inferring
  <2>e. submitted.job = accepted /\ submitted.job \in Jobs /\ submitted'.job = NoJob /\ lock' = "free"
    BY <1>5 DEF SubmitPut, HandsInv, Idle, TypeOK
  <2>f. Entering = {submitted.job} /\ Entering' = {}
    BY <2>e, NatItems DEF Entering, Present
  <2>g. /\ Waiting' \subseteq Waiting \cup Entering /\ InOrder(triggerQueue)'
        /\ \A p \in 1..Len(triggerQueue') : (p \in 1..Len(triggerQueue) /\ triggerQueue'[p] = triggerQueue[p])
                                            \/ triggerQueue'[p] = submitted.job
    <3>1. CASE triggerQueue' = triggerQueue
      BY <3>1 DEF Waiting, LineInv, InOrder
    <3>2. CASE triggerQueue' = Append(triggerQueue, submitted.job)
      <4>1. submitted.job \in Nat /\ triggerQueue \in Seq(Nat) /\ \A j \in Items(triggerQueue) : j < submitted.job
        BY <2>e, <2>f, NatItems DEF LineInv, Before, Waiting
      <4>2. /\ Items(Append(triggerQueue, submitted.job)) = Items(triggerQueue) \cup ({submitted.job} \ {Sentinel})
            /\ InOrder(Append(triggerQueue, submitted.job))
        BY <4>1, AppendItems DEF LineInv
      <4>3. InOrder(triggerQueue')
        BY <3>2, <4>2
      <4>4. \A p \in 1..Len(triggerQueue') : (p \in 1..Len(triggerQueue) /\ triggerQueue'[p] = triggerQueue[p])
                                            \/ triggerQueue'[p] = submitted.job
        BY <3>2, <4>1
      <4> QED BY <2>f, <3>2, <4>2, <4>3, <4>4 DEF Waiting, InOrder
    <3> QED BY <1>5, <3>1, <3>2 DEF SubmitPut
  <2>h. HandsInv'
    BY <1>5, <2>u, <2>e, <2>g, NatItems DEF SubmitPut, HandsInv, jobVars, infVars, geoVars, Sentinel
  <2>l. LineInv'
    BY <1>5, <2>u, <2>s, <2>f, <2>g DEF SubmitPut, LineInv, Before, InOrder
  <2>o. OpenInv'
    BY <1>5, <2>s, <2>f, <2>g DEF SubmitPut, OpenInv, Decided, jobVars, infVars, geoVars
  <2> QED BY <2>h, <2>l, <2>o
<1> QED BY <1>1, <1>2, <1>3, <1>4, <1>5 DEF Http

LEMMA InferencePipeline == TypeOK /\ PipelineInv /\ Inference => PipelineInv'
<1> SUFFICES ASSUME TypeOK, HandsInv, LineInv, OpenInv, Inference
             PROVE  HandsInv' /\ LineInv' /\ OpenInv'
  BY DEF PipelineInv
<1> USE DEF NoJob
<1>1. CASE InfLoop
  <2>u. UNCHANGED <<geoJob, geometryQueue, infJob, triggerQueue, submitted>>
    BY <1>1 DEF InfLoop, infVars, geoVars
  <2>s. UNCHANGED <<Finishing, Ready, Inferring, Waiting, Entering>>
    BY <2>u DEF Finishing, Ready, Inferring, Waiting, Entering
  <2>h. HandsInv'
    BY <1>1, <2>u DEF InfLoop, HandsInv, jobVars, infVars, geoVars
  <2>l. LineInv'
    BY <1>1, <2>u, <2>s DEF InfLoop, LineInv, InOrder
  <2>o. OpenInv'
    BY <1>1, <2>s, OpenShrinks DEF InfLoop, jobVars, infVars, geoVars
  <2> QED BY <2>h, <2>l, <2>o
<1>2. CASE InfGet
  <2>u. UNCHANGED <<geoJob, geometryQueue, submitted>>
    BY <1>2 DEF InfGet, infVars, geoVars
  <2>s. UNCHANGED <<Finishing, Ready, Entering>>
    BY <2>u DEF Finishing, Ready, Entering
  <2>e. infJob = NoJob /\ Inferring = {}
    BY <1>2 DEF InfGet, HandsInv, Inferring, Present
  <2>c. \/ UNCHANGED <<triggerQueue, infJob>> /\ infPc' = "loop"
        \/ triggerQueue # << >> /\ triggerQueue' = Tail(triggerQueue) /\ Head(triggerQueue) = Sentinel /\ infPc' = "dead" /\ UNCHANGED infJob
        \/ triggerQueue # << >> /\ triggerQueue' = Tail(triggerQueue) /\ Head(triggerQueue) # Sentinel /\ infPc' = "taken" /\ infJob' = Head(triggerQueue)
    BY <1>2 DEF InfGet
  <2>t. triggerQueue # << >> =>
          /\ Items(Tail(triggerQueue)) \subseteq Items(triggerQueue)
          /\ Head(triggerQueue) # Sentinel => Head(triggerQueue) \in Items(triggerQueue)
          /\ InOrder(Tail(triggerQueue))
          /\ Head(triggerQueue) # Sentinel => \A j \in Items(Tail(triggerQueue)) : Head(triggerQueue) < j
    BY NatItems, TailItems DEF LineInv
  <2>w. /\ Waiting' \subseteq Waiting /\ Inferring' \subseteq Waiting /\ InOrder(triggerQueue)'
        /\ \A i \in Inferring', j \in Waiting' : i < j
    <3>1. CASE UNCHANGED <<triggerQueue, infJob>>
      BY <2>e, <3>1 DEF Waiting, Inferring, Present, LineInv, InOrder
    <3>2. CASE triggerQueue # << >> /\ triggerQueue' = Tail(triggerQueue) /\ Head(triggerQueue) = Sentinel /\ UNCHANGED infJob
      <4>1. InOrder(triggerQueue')
        BY <2>t, <3>2
      <4> QED BY <2>e, <2>t, <3>2, <4>1 DEF Waiting, Inferring, Present, InOrder
    <3>3. CASE triggerQueue # << >> /\ triggerQueue' = Tail(triggerQueue) /\ Head(triggerQueue) # Sentinel /\ infJob' = Head(triggerQueue)
      <4>1. InOrder(triggerQueue')
        BY <2>t, <3>3
      <4> QED BY <2>e, <2>t, <3>3, <4>1 DEF Waiting, Inferring, Present, InOrder
    <3> QED BY <2>c, <3>1, <3>2, <3>3
  <2>x. \A p \in 1..Len(triggerQueue') : \E r \in 1..Len(triggerQueue) : triggerQueue'[p] = triggerQueue[r]
    <3>1. CASE UNCHANGED triggerQueue
      BY <3>1
    <3>2. CASE triggerQueue # << >> /\ triggerQueue' = Tail(triggerQueue)
      <4>1. triggerQueue \in Seq(Nat)
        BY NatItems
      <4>2. Len(triggerQueue') = Len(triggerQueue) - 1 /\ Len(triggerQueue) \in Nat
            /\ \A p \in 1..(Len(triggerQueue) - 1) : triggerQueue'[p] = triggerQueue[p + 1]
        BY <3>2, <4>1
      <4> QED BY <4>2
    <3> QED BY <2>c, <3>1, <3>2
  <2>y. infJob' # NoJob <=> infPc' = "taken"
    <3>1. triggerQueue # << >> /\ Head(triggerQueue) # Sentinel => Head(triggerQueue) # NoJob
      BY DEF Sentinel
    <3> QED BY <2>c, <2>e, <3>1
  <2>h. HandsInv'
    BY <1>2, <2>u, <2>c, <2>e, <2>x, <2>y DEF InfGet, HandsInv, jobVars, geoVars
  <2>l. LineInv'
    BY <1>2, <2>u, <2>s, <2>e, <2>w DEF InfGet, LineInv, Before, InOrder
  <2>o. OpenInv'
    BY <1>2, <2>s, <2>e, <2>w, OpenShrinks DEF InfGet, jobVars, geoVars
  <2> QED BY <2>h, <2>l, <2>o
<1>3. CASE InfBegin
  <2>u. UNCHANGED <<geoJob, geometryQueue, infJob, triggerQueue, submitted>>
    BY <1>3 DEF InfBegin, infVars, geoVars
  <2>s. UNCHANGED <<Finishing, Ready, Inferring, Waiting, Entering>>
    BY <2>u DEF Finishing, Ready, Inferring, Waiting, Entering
  <2>h. HandsInv'
    BY <1>3, <2>u DEF InfBegin, HandsInv, jobVars, infVars, geoVars
  <2>l. LineInv'
    BY <1>3, <2>u, <2>s DEF InfBegin, LineInv, InOrder
  <2>o. OpenInv'
    <3>1. PICK h \in Jobs : h = infJob /\ h \in Inferring
      BY <1>3, NatItems DEF InfBegin, HandsInv, Inferring, Present, TypeOK
    <3>2. /\ status'[h] = "inferring" /\ \A j \in Jobs : j # h => status'[j] = status[j]
      BY <1>3, <3>1 DEF InfBegin, TypeOK
    <3>3. status[h] \notin {"ok", "error"} /\ h <= accepted
      BY <3>1 DEF OpenInv, LineInv, Decided
    <3>4. Open' \subseteq Open
      BY <2>s DEF Open
    <3>5. UNCHANGED <<done, latest, accepted, geoPc, geoJob, lock>> /\ lock = "free"
      BY <1>3 DEF InfBegin, geoVars
    <3> QED BY <3>2, <3>3, <3>4, <3>5, OpenMoves
  <2> QED BY <2>h, <2>l, <2>o
<1>4. CASE InfPrepared
  <2>u. UNCHANGED <<geoJob, geometryQueue, infJob, triggerQueue, submitted>>
    BY <1>4 DEF InfPrepared, infVars, geoVars
  <2>s. UNCHANGED <<Finishing, Ready, Inferring, Waiting, Entering>>
    BY <2>u DEF Finishing, Ready, Inferring, Waiting, Entering
  <2>h. HandsInv'
    BY <1>4, <2>u DEF InfPrepared, HandsInv, jobVars, infVars, geoVars
  <2>l. LineInv'
    BY <1>4, <2>u, <2>s DEF InfPrepared, LineInv, InOrder
  <2>o. OpenInv'
    <3>1. PICK h \in Jobs : h = infJob /\ h \in Inferring
      BY <1>4, NatItems DEF InfPrepared, HandsInv, Inferring, Present, TypeOK
    <3>2. /\ status'[h] = "geometry_queued" /\ \A j \in Jobs : j # h => status'[j] = status[j]
      BY <1>4, <3>1 DEF InfPrepared, TypeOK
    <3>3. status[h] \notin {"ok", "error"} /\ h <= accepted
      BY <3>1 DEF OpenInv, LineInv, Decided
    <3>4. Open' \subseteq Open
      BY <2>s DEF Open
    <3>5. UNCHANGED <<done, latest, accepted, geoPc, geoJob, lock>> /\ lock = "free"
      BY <1>4 DEF InfPrepared, geoVars
    <3> QED BY <3>2, <3>3, <3>4, <3>5, OpenMoves
  <2> QED BY <2>h, <2>l, <2>o
<1>5. CASE InfFailed
  <2>u. UNCHANGED <<geoJob, geometryQueue, triggerQueue, submitted>>
    BY <1>5 DEF InfFailed, infVars, geoVars
  <2>s. UNCHANGED <<Finishing, Ready, Waiting, Entering>>
    BY <2>u DEF Finishing, Ready, Waiting, Entering
  <2>e. Inferring' = {} /\ infJob' = NoJob /\ infPc' = "loop"
    BY <1>5 DEF InfFailed, Inferring, Present
  <2>h. HandsInv'
    BY <1>5, <2>u, <2>e DEF InfFailed, HandsInv, geoVars
  <2>l. LineInv'
    BY <1>5, <2>u, <2>s, <2>e DEF InfFailed, LineInv, Before, InOrder
  <2>o. OpenInv'
    <3>1. PICK h \in Jobs : h = infJob /\ h \in Inferring /\ Fail(h)
      BY <1>5, NatItems DEF InfFailed, HandsInv, Inferring, Present, TypeOK
    <3>2. ~done[h] /\ h <= accepted
      BY <3>1 DEF OpenInv, LineInv
    <3>3. /\ status'[h] = "error"
          /\ \A j \in Jobs : j # h => status'[j] = status[j] /\ done'[j] = done[j]
      BY <3>1, <3>2 DEF Fail, TypeOK
    <3>4. \A j \in Finishing \cup Ready \cup Waiting \cup Entering : j # h
      BY <3>1, NatItems DEF LineInv, Before
    <3>5. geoPc \in {"taken", "finish", "finally"} => geoJob \in Finishing
      BY DEF HandsInv, Finishing, Present
    <3>6. Open' \subseteq Open /\ h \notin Open'
      BY <2>s, <2>e, <3>4 DEF Open
    <3>7. UNCHANGED <<latest, accepted, geoPc, geoJob, lock>> /\ lock = "free"
      BY <1>5 DEF InfFailed, geoVars, Fail
    <3>8. geoPc \in {"taken", "finish", "finally"} => geoJob # h
      BY <3>4, <3>5
    <3> QED BY <3>2, <3>3, <3>6, <3>7, <3>8, OpenDecides
  <2> QED BY <2>h, <2>l, <2>o
<1>6. CASE InfOffer
  <2>u. UNCHANGED <<geoJob, geometryQueue, infJob, triggerQueue, submitted>>
    BY <1>6 DEF InfOffer, infVars, geoVars
  <2>s. UNCHANGED <<Finishing, Ready, Inferring, Waiting, Entering>>
    BY <2>u DEF Finishing, Ready, Inferring, Waiting, Entering
  <2>h. HandsInv'
    BY <1>6, <2>u DEF InfOffer, HandsInv, jobVars, infVars, geoVars
  <2>l. LineInv'
    BY <1>6, <2>u, <2>s DEF InfOffer, LineInv, InOrder
  <2>o. OpenInv'
    BY <1>6, <2>s, OpenShrinks DEF InfOffer, jobVars, infVars, geoVars
  <2> QED BY <2>h, <2>l, <2>o
<1>7. CASE InfPut
  <2>u. UNCHANGED <<geoJob, triggerQueue, submitted>>
    BY <1>7 DEF InfPut, infVars, geoVars
  <2>s. UNCHANGED <<Finishing, Waiting, Entering>>
    BY <2>u DEF Finishing, Waiting, Entering
  <2>c. \/ UNCHANGED <<geometryQueue, infJob>> /\ infPc' = "offer"
        \/ geometryQueue' = Append(geometryQueue, infJob) /\ infPc' = "loop" /\ infJob' = NoJob
    BY <1>7 DEF InfPut
  <2>e. infJob \in Inferring /\ infJob \in Jobs /\ infJob \in Nat
    BY <1>7, NatItems DEF InfPut, HandsInv, Inferring, Present, TypeOK
  <2>g. /\ Ready' \subseteq Ready \cup Inferring /\ Inferring' \subseteq Inferring
        /\ InOrder(geometryQueue)' /\ Before(Ready, Inferring)'
        /\ \A p \in 1..Len(geometryQueue') : (p \in 1..Len(geometryQueue) /\ geometryQueue'[p] = geometryQueue[p])
                                            \/ geometryQueue'[p] = infJob
    <3>1. CASE UNCHANGED <<geometryQueue, infJob>>
      BY <3>1 DEF Ready, Inferring, LineInv, InOrder, Before
    <3>2. CASE geometryQueue' = Append(geometryQueue, infJob) /\ infJob' = NoJob
      <4>1. geometryQueue \in Seq(Nat) /\ \A j \in Items(geometryQueue) : j < infJob
        BY <2>e, NatItems DEF LineInv, Before, Ready
      <4>2. /\ Items(Append(geometryQueue, infJob)) = Items(geometryQueue) \cup ({infJob} \ {Sentinel})
            /\ InOrder(Append(geometryQueue, infJob))
        BY <2>e, <4>1, AppendItems DEF LineInv
      <4>3. InOrder(geometryQueue')
        BY <3>2, <4>2
      <4>4. \A p \in 1..Len(geometryQueue') : (p \in 1..Len(geometryQueue) /\ geometryQueue'[p] = geometryQueue[p])
                                            \/ geometryQueue'[p] = infJob
        BY <3>2, <4>1
      <4>5. Inferring' = {}
        BY <3>2 DEF Inferring, Present
      <4> QED BY <2>e, <3>2, <4>2, <4>3, <4>4, <4>5 DEF Ready, InOrder, Before
    <3> QED BY <2>c, <3>1, <3>2
  <2>h. HandsInv'
    BY <1>7, <2>u, <2>c, <2>e, <2>g, NatItems DEF InfPut, HandsInv, jobVars, geoVars, Sentinel
  <2>l. LineInv'
    BY <1>7, <2>u, <2>s, <2>g DEF InfPut, LineInv, Before, InOrder
  <2>o. OpenInv'
    BY <1>7, <2>s, <2>g, OpenShrinks DEF InfPut, jobVars, geoVars
  <2> QED BY <2>h, <2>l, <2>o
<1>8. CASE InfAbandon
  <2>u. UNCHANGED <<geoJob, geometryQueue, triggerQueue, submitted>>
    BY <1>8 DEF InfAbandon, infVars, geoVars
  <2>s. UNCHANGED <<Finishing, Ready, Waiting, Entering>>
    BY <2>u DEF Finishing, Ready, Waiting, Entering
  <2>e. Inferring' = {} /\ infJob' = NoJob /\ infPc' = "loop"
    BY <1>8 DEF InfAbandon, Inferring, Present
  <2>h. HandsInv'
    BY <1>8, <2>u, <2>e DEF InfAbandon, HandsInv, geoVars
  <2>l. LineInv'
    BY <1>8, <2>u, <2>s, <2>e DEF InfAbandon, LineInv, Before, InOrder
  <2>o. OpenInv'
    <3>1. PICK h \in Jobs : h = infJob /\ h \in Inferring /\ Fail(h)
      BY <1>8, NatItems DEF InfAbandon, HandsInv, Inferring, Present, TypeOK
    <3>2. ~done[h] /\ h <= accepted
      BY <3>1 DEF OpenInv, LineInv
    <3>3. /\ status'[h] = "error"
          /\ \A j \in Jobs : j # h => status'[j] = status[j] /\ done'[j] = done[j]
      BY <3>1, <3>2 DEF Fail, TypeOK
    <3>4. \A j \in Finishing \cup Ready \cup Waiting \cup Entering : j # h
      BY <3>1, NatItems DEF LineInv, Before
    <3>5. geoPc \in {"taken", "finish", "finally"} => geoJob \in Finishing
      BY DEF HandsInv, Finishing, Present
    <3>6. Open' \subseteq Open /\ h \notin Open'
      BY <2>s, <2>e, <3>4 DEF Open
    <3>7. UNCHANGED <<latest, accepted, geoPc, geoJob, lock>> /\ lock = "free"
      BY <1>8 DEF InfAbandon, geoVars, Fail
    <3>8. geoPc \in {"taken", "finish", "finally"} => geoJob # h
      BY <3>4, <3>5
    <3> QED BY <3>2, <3>3, <3>6, <3>7, <3>8, OpenDecides
  <2> QED BY <2>h, <2>l, <2>o
<1> QED BY <1>1, <1>2, <1>3, <1>4, <1>5, <1>6, <1>7, <1>8 DEF Inference

LEMMA GeometryPipeline == TypeOK /\ PipelineInv /\ Geometry => PipelineInv'
<1> SUFFICES ASSUME TypeOK, HandsInv, LineInv, OpenInv, Geometry
             PROVE  HandsInv' /\ LineInv' /\ OpenInv'
  BY DEF PipelineInv
<1> USE DEF NoJob
<1>1. CASE GeoLoop
  <2>u. UNCHANGED <<geoJob, geometryQueue, infJob, triggerQueue, submitted>>
    BY <1>1 DEF GeoLoop, infVars, geoVars
  <2>s. UNCHANGED <<Finishing, Ready, Inferring, Waiting, Entering>>
    BY <2>u DEF Finishing, Ready, Inferring, Waiting, Entering
  <2>h. HandsInv'
    BY <1>1, <2>u DEF GeoLoop, HandsInv, jobVars, infVars, geoVars
  <2>l. LineInv'
    BY <1>1, <2>u, <2>s DEF GeoLoop, LineInv, InOrder
  <2>o. OpenInv'
    BY <1>1, <2>u, <2>s DEF GeoLoop, OpenInv, Decided, jobVars
  <2> QED BY <2>h, <2>l, <2>o
<1>2. CASE GeoGet
  <2>u. UNCHANGED <<infJob, triggerQueue, submitted>>
    BY <1>2 DEF GeoGet, infVars, geoVars
  <2>s. UNCHANGED <<Inferring, Waiting, Entering>>
    BY <2>u DEF Inferring, Waiting, Entering
  <2>e. geoJob = NoJob /\ Finishing = {}
    BY <1>2 DEF GeoGet, HandsInv, Finishing, Present
  <2>c. \/ UNCHANGED <<geometryQueue, geoJob>> /\ geoPc' = "loop"
        \/ geometryQueue # << >> /\ geometryQueue' = Tail(geometryQueue) /\ Head(geometryQueue) = Sentinel /\ geoPc' = "dead" /\ UNCHANGED geoJob
        \/ geometryQueue # << >> /\ geometryQueue' = Tail(geometryQueue) /\ Head(geometryQueue) # Sentinel /\ geoPc' = "taken" /\ geoJob' = Head(geometryQueue)
    BY <1>2 DEF GeoGet
  <2>t. geometryQueue # << >> =>
          /\ Items(Tail(geometryQueue)) \subseteq Items(geometryQueue)
          /\ Head(geometryQueue) # Sentinel => Head(geometryQueue) \in Items(geometryQueue)
          /\ InOrder(Tail(geometryQueue))
          /\ Head(geometryQueue) # Sentinel => \A j \in Items(Tail(geometryQueue)) : Head(geometryQueue) < j
    BY NatItems, TailItems DEF LineInv
  <2>w. /\ Ready' \subseteq Ready /\ Finishing' \subseteq Ready /\ InOrder(geometryQueue)'
        /\ \A i \in Finishing', j \in Ready' : i < j
    <3>1. CASE UNCHANGED <<geometryQueue, geoJob>>
      BY <2>e, <3>1 DEF Ready, Finishing, Present, LineInv, InOrder
    <3>2. CASE geometryQueue # << >> /\ geometryQueue' = Tail(geometryQueue) /\ Head(geometryQueue) = Sentinel /\ UNCHANGED geoJob
      <4>1. InOrder(geometryQueue')
        BY <2>t, <3>2
      <4> QED BY <2>e, <2>t, <3>2, <4>1 DEF Ready, Finishing, Present, InOrder
    <3>3. CASE geometryQueue # << >> /\ geometryQueue' = Tail(geometryQueue) /\ Head(geometryQueue) # Sentinel /\ geoJob' = Head(geometryQueue)
      <4>1. InOrder(geometryQueue')
        BY <2>t, <3>3
      <4> QED BY <2>e, <2>t, <3>3, <4>1 DEF Ready, Finishing, Present, InOrder
    <3> QED BY <2>c, <3>1, <3>2, <3>3
  <2>x. \A p \in 1..Len(geometryQueue') : \E r \in 1..Len(geometryQueue) : geometryQueue'[p] = geometryQueue[r]
    <3>1. CASE UNCHANGED geometryQueue
      BY <3>1
    <3>2. CASE geometryQueue # << >> /\ geometryQueue' = Tail(geometryQueue)
      <4>1. geometryQueue \in Seq(Nat)
        BY NatItems
      <4>2. Len(geometryQueue') = Len(geometryQueue) - 1 /\ Len(geometryQueue) \in Nat
            /\ \A p \in 1..(Len(geometryQueue) - 1) : geometryQueue'[p] = geometryQueue[p + 1]
        BY <3>2, <4>1
      <4> QED BY <4>2
    <3> QED BY <2>c, <3>1, <3>2
  <2>y. geoJob' # NoJob <=> geoPc' = "taken"
    <3>1. geometryQueue # << >> /\ Head(geometryQueue) # Sentinel => Head(geometryQueue) # NoJob
      BY DEF Sentinel
    <3> QED BY <2>c, <2>e, <3>1
  <2>h. HandsInv'
    BY <1>2, <2>u, <2>c, <2>e, <2>x, <2>y DEF GeoGet, HandsInv, jobVars, infVars
  <2>l. LineInv'
    BY <1>2, <2>u, <2>s, <2>e, <2>w DEF GeoGet, LineInv, Before, InOrder
  <2>o. OpenInv'
    <3>1. geoPc' = "taken" => geoJob' \in Ready
      BY <2>w, <2>y DEF Finishing, Present
    <3>2. geoPc' \in {"loop", "dead", "taken"} /\ lock # "geometry"
      BY <1>2, <2>c DEF GeoGet, HandsInv
    <3>3. UNCHANGED <<status, done, latest, accepted, lock>>
      BY <1>2 DEF GeoGet, jobVars
    <3> QED BY <2>s, <2>w, <3>1, <3>2, <3>3 DEF OpenInv, Decided
  <2> QED BY <2>h, <2>l, <2>o
<1>3. CASE GeoBegin
  <2>u. UNCHANGED <<geoJob, geometryQueue, infJob, triggerQueue, submitted>>
    BY <1>3 DEF GeoBegin, infVars, geoVars
  <2>s. UNCHANGED <<Finishing, Ready, Inferring, Waiting, Entering>>
    BY <2>u DEF Finishing, Ready, Inferring, Waiting, Entering
  <2>h. HandsInv'
    BY <1>3, <2>u DEF GeoBegin, HandsInv, jobVars, infVars, geoVars
  <2>l. LineInv'
    BY <1>3, <2>u, <2>s DEF GeoBegin, LineInv, InOrder
  <2>o. OpenInv'
    <3>1. PICK h \in Jobs : h = geoJob /\ geoPc = "taken" /\ geoPc' = "finish"
      BY <1>3, NatItems DEF GeoBegin, HandsInv, Finishing, Present
    <3>2. /\ status'[h] = "geometry" /\ \A j \in Jobs : j # h => status'[j] = status[j]
      BY <1>3, <3>1 DEF GeoBegin, TypeOK
    <3>3. status[h] \notin {"ok", "error"} /\ h <= accepted
      BY <3>1 DEF OpenInv, LineInv, Decided, Finishing, Present, HandsInv
    <3>4. Open' \subseteq Open
      BY <2>s DEF Open
    <3>5. UNCHANGED <<done, latest, accepted, geoJob, lock>> /\ lock = "free"
      BY <1>3 DEF GeoBegin
    <3> QED BY <3>1, <3>2, <3>3, <3>4, <3>5, OpenMoves
  <2> QED BY <2>h, <2>l, <2>o
<1>4. CASE GeoSucceed
  <2>u. UNCHANGED <<geoJob, geometryQueue, infJob, triggerQueue, submitted>>
    BY <1>4 DEF GeoSucceed, infVars, geoVars
  <2>s. UNCHANGED <<Finishing, Ready, Inferring, Waiting, Entering>>
    BY <2>u DEF Finishing, Ready, Inferring, Waiting, Entering
  <2>1. geoJob \in Finishing /\ geoJob \in Jobs /\ geoPc = "finish" /\ geoPc' = "finally" /\ lock = "free" /\ lock' = "free"
    BY <1>4, NatItems DEF GeoSucceed, HandsInv, Finishing, Present, Fail
  <2>2. ~Decided(geoJob) /\ ~done[geoJob] /\ geoJob <= accepted /\ latest < geoJob
    BY <2>1 DEF OpenInv, LineInv
  <2>3. /\ status'[geoJob] = "ok" /\ \A j \in Jobs : j # geoJob => status'[j] = status[j]
        /\ \A j \in Jobs : j # geoJob => done'[j] = done[j]
    BY <1>4, <2>1, <2>2 DEF GeoSucceed, Fail, TypeOK
  <2>h. HandsInv'
    BY <1>4, <2>u DEF GeoSucceed, HandsInv, jobVars, infVars, geoVars
  <2>l. LineInv'
    BY <1>4, <2>u, <2>s DEF GeoSucceed, LineInv, InOrder
  <2>o. OpenInv'
    <3>0. PICK h \in Jobs : h = geoJob
      BY <2>1
    <3>1. UNCHANGED <<accepted, geoJob>> /\ latest' = geoJob
      BY <1>4 DEF GeoSucceed, infVars
    <3>2. \A j \in Open : j \in Jobs /\ j # h /\ latest' < j
      BY <2>1, <3>0, <3>1, NatItems DEF OpenInv, Open, LineInv, Before
    <3>3. Open' = Open
      BY <2>s DEF Open
    <3>4. \A j \in Open' : status'[j] \notin {"ok", "error"} /\ latest' < j
      BY <2>3, <3>0, <3>2, <3>3 DEF OpenInv, Open, Decided
    <3>5. \A j \in Jobs : done'[j] => status'[j] \in {"ok", "error"}
      BY <2>2, <2>3 DEF OpenInv, Decided
    <3>6. \A j \in Jobs : j > accepted' => status'[j] = "none"
      BY <2>1, <2>2, <2>3, <3>1, NatItems DEF OpenInv
    <3>7. latest' <= accepted' /\ lock' = "free"
      BY <2>1, <2>2, <3>1, NatItems DEF OpenInv
    <3>8. status'[geoJob'] \in {"ok", "error"} /\ geoPc' = "finally"
      BY <2>1, <2>3, <3>1
    <3> QED BY <3>4, <3>5, <3>6, <3>7, <3>8 DEF OpenInv, Open, Decided
  <2> QED BY <2>h, <2>l, <2>o
<1>5. CASE GeoFailed
  <2>u. UNCHANGED <<geoJob, geometryQueue, infJob, triggerQueue, submitted>>
    BY <1>5 DEF GeoFailed, infVars, geoVars
  <2>s. UNCHANGED <<Finishing, Ready, Inferring, Waiting, Entering>>
    BY <2>u DEF Finishing, Ready, Inferring, Waiting, Entering
  <2>1. geoJob \in Finishing /\ geoJob \in Jobs /\ geoPc = "finish" /\ geoPc' = "finally" /\ lock = "free" /\ lock' = "free"
    BY <1>5, NatItems DEF GeoFailed, HandsInv, Finishing, Present, Fail
  <2>2. ~Decided(geoJob) /\ ~done[geoJob] /\ geoJob <= accepted /\ latest < geoJob
    BY <2>1 DEF OpenInv, LineInv
  <2>3. /\ status'[geoJob] = "error" /\ \A j \in Jobs : j # geoJob => status'[j] = status[j]
        /\ \A j \in Jobs : j # geoJob => done'[j] = done[j]
    BY <1>5, <2>1, <2>2 DEF GeoFailed, Fail, TypeOK
  <2>h. HandsInv'
    BY <1>5, <2>u DEF GeoFailed, HandsInv, jobVars, infVars, geoVars
  <2>l. LineInv'
    BY <1>5, <2>u, <2>s DEF GeoFailed, LineInv, InOrder
  <2>o. OpenInv'
    <3>0. PICK h \in Jobs : h = geoJob
      BY <2>1
    <3>1. UNCHANGED <<accepted, geoJob>> /\ latest' = latest
      BY <1>5 DEF GeoFailed, infVars
    <3>2. \A j \in Open : j \in Jobs /\ j # h /\ latest' < j
      BY <2>1, <3>0, <3>1, NatItems DEF OpenInv, Open, LineInv, Before
    <3>3. Open' = Open
      BY <2>s DEF Open
    <3>4. \A j \in Open' : status'[j] \notin {"ok", "error"} /\ latest' < j
      BY <2>3, <3>0, <3>2, <3>3 DEF OpenInv, Open, Decided
    <3>5. \A j \in Jobs : done'[j] => status'[j] \in {"ok", "error"}
      BY <2>2, <2>3 DEF OpenInv, Decided
    <3>6. \A j \in Jobs : j > accepted' => status'[j] = "none"
      BY <2>1, <2>2, <2>3, <3>1, NatItems DEF OpenInv
    <3>7. latest' <= accepted' /\ lock' = "free"
      BY <2>1, <2>2, <3>1, NatItems DEF OpenInv
    <3>8. status'[geoJob'] \in {"ok", "error"} /\ geoPc' = "finally"
      BY <2>1, <2>3, <3>1
    <3> QED BY <3>4, <3>5, <3>6, <3>7, <3>8 DEF OpenInv, Open, Decided
  <2> QED BY <2>h, <2>l, <2>o
<1>6. CASE GeoFinally
  <2>u. UNCHANGED <<geoJob, geometryQueue, infJob, triggerQueue, submitted>>
    BY <1>6 DEF GeoFinally, infVars, geoVars
  <2>s. UNCHANGED <<Finishing, Ready, Inferring, Waiting, Entering>>
    BY <2>u DEF Finishing, Ready, Inferring, Waiting, Entering
  <2>h. HandsInv'
    BY <1>6, <2>u DEF GeoFinally, HandsInv, jobVars, infVars, geoVars
  <2>l. LineInv'
    BY <1>6, <2>u, <2>s DEF GeoFinally, LineInv, InOrder
  <2>o. OpenInv'
    <3>1. geoJob \in Jobs /\ Decided(geoJob)
      BY <1>6, NatItems DEF GeoFinally, HandsInv, Finishing, Present, OpenInv
    <3>2. done'[geoJob] /\ \A j \in Jobs : j # geoJob => done'[j] = done[j]
      BY <1>6, <3>1 DEF GeoFinally, TypeOK
    <3> QED BY <1>6, <2>u, <2>s, <3>1, <3>2 DEF GeoFinally, OpenInv, Decided, geoVars
  <2> QED BY <2>h, <2>l, <2>o
<1>7. CASE GeoRelease
  <2>u. UNCHANGED <<geometryQueue, infJob, triggerQueue, submitted>>
    BY <1>7 DEF GeoRelease, infVars, geoVars
  <2>s. UNCHANGED <<Ready, Inferring, Waiting, Entering>>
    BY <2>u DEF Ready, Inferring, Waiting, Entering
  <2>e. Finishing' = {} /\ geoJob' = NoJob /\ geoPc' = "loop" /\ lock' = "free" /\ lock = "geometry"
    BY <1>7 DEF GeoRelease, Finishing, Present
  <2>h. HandsInv'
    BY <1>7, <2>u, <2>e DEF GeoRelease, HandsInv, jobVars, infVars
  <2>l. LineInv'
    BY <1>7, <2>u, <2>s, <2>e DEF GeoRelease, LineInv, Before, InOrder
  <2>o. OpenInv'
    BY <1>7, <2>s, <2>e DEF GeoRelease, OpenInv, Decided, jobVars
  <2> QED BY <2>h, <2>l, <2>o
<1> QED BY <1>1, <1>2, <1>3, <1>4, <1>5, <1>6, <1>7 DEF Geometry

LEMMA StopPipeline == TypeOK /\ PipelineInv /\ Stop => PipelineInv'
<1> SUFFICES ASSUME TypeOK, HandsInv, LineInv, OpenInv, Stop
             PROVE  HandsInv' /\ LineInv' /\ OpenInv'
  BY DEF PipelineInv
<1> USE DEF NoJob
<1>1. CASE StopSet
  <2>u. UNCHANGED <<geoJob, geometryQueue, infJob, triggerQueue, submitted>>
    BY <1>1 DEF StopSet, infVars, geoVars
  <2>s. UNCHANGED <<Finishing, Ready, Inferring, Waiting, Entering>>
    BY <2>u DEF Finishing, Ready, Inferring, Waiting, Entering
  <2>h. HandsInv'
    BY <1>1, <2>u DEF StopSet, HandsInv, jobVars, infVars, geoVars
  <2>l. LineInv'
    BY <1>1, <2>u, <2>s DEF StopSet, LineInv, InOrder
  <2>o. OpenInv'
    BY <1>1, <2>s, OpenShrinks DEF StopSet, jobVars, infVars, geoVars
  <2> QED BY <2>h, <2>l, <2>o
<1>2. CASE StopDrainTrigger
  <2>u. UNCHANGED <<geoJob, geometryQueue, infJob, submitted>>
    BY <1>2 DEF StopDrainTrigger, infVars, geoVars
  <2>s. UNCHANGED <<Finishing, Ready, Inferring, Entering>>
    BY <2>u DEF Finishing, Ready, Inferring, Entering
  <2>c. \/ triggerQueue = << >> /\ UNCHANGED <<triggerQueue, status, done>>
        \/ triggerQueue # << >> /\ triggerQueue' = Tail(triggerQueue) /\ Fail(Head(triggerQueue)) /\ UNCHANGED stopPc
    BY <1>2 DEF StopDrainTrigger
  <2>d. triggerQueue \in Seq(Nat)
    BY NatItems
  <2>t. triggerQueue # << >> =>
          /\ Items(Tail(triggerQueue)) \subseteq Items(triggerQueue) /\ InOrder(Tail(triggerQueue))
          /\ Head(triggerQueue) # Sentinel => Head(triggerQueue) \in Items(triggerQueue) /\ \A j \in Items(Tail(triggerQueue)) : Head(triggerQueue) < j
          /\ Head(triggerQueue) = triggerQueue[1] /\ 1 \in 1..Len(triggerQueue)
    BY <2>d, TailItems DEF LineInv
  <2>x. \A p \in 1..Len(triggerQueue') : \E r \in 1..Len(triggerQueue) : triggerQueue'[p] = triggerQueue[r]
    <3>1. CASE UNCHANGED triggerQueue
      BY <3>1
    <3>2. CASE triggerQueue # << >> /\ triggerQueue' = Tail(triggerQueue)
      <4>1. Len(triggerQueue') = Len(triggerQueue) - 1 /\ Len(triggerQueue) \in Nat
            /\ \A p \in 1..(Len(triggerQueue) - 1) : triggerQueue'[p] = triggerQueue[p + 1]
        BY <2>d, <3>2
      <4> QED BY <4>1
    <3> QED BY <2>c, <3>1, <3>2
  <2>w. Waiting' \subseteq Waiting /\ InOrder(triggerQueue)'
    <3>1. CASE UNCHANGED triggerQueue
      BY <3>1 DEF Waiting, LineInv, InOrder
    <3>2. CASE triggerQueue # << >> /\ triggerQueue' = Tail(triggerQueue)
      <4>1. InOrder(triggerQueue')
        BY <2>t, <3>2
      <4> QED BY <2>t, <3>2, <4>1 DEF Waiting, InOrder
    <3> QED BY <2>c, <3>1, <3>2
  <2>h. HandsInv'
    BY <1>2, <2>u, <2>x DEF StopDrainTrigger, HandsInv, infVars, geoVars
  <2>l. LineInv'
    BY <1>2, <2>u, <2>s, <2>w DEF StopDrainTrigger, LineInv, Before, InOrder
  <2>o. OpenInv'
    <3>0. UNCHANGED <<latest, accepted, geoPc, geoJob, lock>>
      BY <1>2 DEF StopDrainTrigger, geoVars
    <3>1. CASE UNCHANGED <<status, done>>
      BY <2>s, <2>w, <3>0, <3>1, OpenShrinks
    <3>2. CASE triggerQueue # << >> /\ triggerQueue' = Tail(triggerQueue) /\ Fail(Head(triggerQueue))
      <4>1. Head(triggerQueue) # Sentinel
        BY <1>2, <2>t, <3>2 DEF StopDrainTrigger, HandsInv
      <4>2. PICK h \in Jobs : h = Head(triggerQueue) /\ h \in Waiting /\ \A j \in Waiting' : h < j
        BY <2>t, <3>2, <4>1, NatItems DEF Waiting
      <4>3. ~done[h] /\ h <= accepted
        BY <4>2 DEF OpenInv, LineInv
      <4>4. /\ status'[h] = "error"
            /\ \A j \in Jobs : j # h => status'[j] = status[j] /\ done'[j] = done[j]
        BY <3>2, <4>2, <4>3 DEF Fail, TypeOK
      <4>5. \A j \in Finishing \cup Ready \cup Inferring \cup Entering : j # h
        BY <4>2, NatItems DEF LineInv, Before
      <4>6. \A j \in Waiting' : j # h
        BY <2>w, <4>2, NatItems
      <4>7. Open' \subseteq Open /\ h \notin Open'
        BY <2>s, <2>w, <4>5, <4>6 DEF Open
      <4>8. geoPc \in {"taken", "finish", "finally"} => geoJob # h
        BY <4>5 DEF HandsInv, Finishing, Present
      <4>9. lock = "free"
        BY <3>2 DEF Fail
      <4> QED BY <3>0, <4>3, <4>4, <4>7, <4>8, <4>9, OpenDecides
    <3> QED BY <2>c, <3>1, <3>2
  <2> QED BY <2>h, <2>l, <2>o
<1>3. CASE StopDrainGeometry
  <2>u. UNCHANGED <<geoJob, infJob, triggerQueue, submitted>>
    BY <1>3 DEF StopDrainGeometry, infVars, geoVars
  <2>s. UNCHANGED <<Finishing, Inferring, Waiting, Entering>>
    BY <2>u DEF Finishing, Inferring, Waiting, Entering
  <2>c. \/ geometryQueue = << >> /\ UNCHANGED <<geometryQueue, status, done>>
        \/ geometryQueue # << >> /\ geometryQueue' = Tail(geometryQueue) /\ Fail(Head(geometryQueue)) /\ UNCHANGED stopPc
    BY <1>3 DEF StopDrainGeometry
  <2>d. geometryQueue \in Seq(Nat)
    BY NatItems
  <2>t. geometryQueue # << >> =>
          /\ Items(Tail(geometryQueue)) \subseteq Items(geometryQueue) /\ InOrder(Tail(geometryQueue))
          /\ Head(geometryQueue) # Sentinel => Head(geometryQueue) \in Items(geometryQueue) /\ \A j \in Items(Tail(geometryQueue)) : Head(geometryQueue) < j
          /\ Head(geometryQueue) = geometryQueue[1] /\ 1 \in 1..Len(geometryQueue)
    BY <2>d, TailItems DEF LineInv
  <2>x. \A p \in 1..Len(geometryQueue') : \E r \in 1..Len(geometryQueue) : geometryQueue'[p] = geometryQueue[r]
    <3>1. CASE UNCHANGED geometryQueue
      BY <3>1
    <3>2. CASE geometryQueue # << >> /\ geometryQueue' = Tail(geometryQueue)
      <4>1. Len(geometryQueue') = Len(geometryQueue) - 1 /\ Len(geometryQueue) \in Nat
            /\ \A p \in 1..(Len(geometryQueue) - 1) : geometryQueue'[p] = geometryQueue[p + 1]
        BY <2>d, <3>2
      <4> QED BY <4>1
    <3> QED BY <2>c, <3>1, <3>2
  <2>w. Ready' \subseteq Ready /\ InOrder(geometryQueue)'
    <3>1. CASE UNCHANGED geometryQueue
      BY <3>1 DEF Ready, LineInv, InOrder
    <3>2. CASE geometryQueue # << >> /\ geometryQueue' = Tail(geometryQueue)
      <4>1. InOrder(geometryQueue')
        BY <2>t, <3>2
      <4> QED BY <2>t, <3>2, <4>1 DEF Ready, InOrder
    <3> QED BY <2>c, <3>1, <3>2
  <2>h. HandsInv'
    BY <1>3, <2>u, <2>x DEF StopDrainGeometry, HandsInv, infVars, geoVars
  <2>l. LineInv'
    BY <1>3, <2>u, <2>s, <2>w DEF StopDrainGeometry, LineInv, Before, InOrder
  <2>o. OpenInv'
    <3>0. UNCHANGED <<latest, accepted, geoPc, geoJob, lock>>
      BY <1>3 DEF StopDrainGeometry, geoVars
    <3>1. CASE UNCHANGED <<status, done>>
      BY <2>s, <2>w, <3>0, <3>1, OpenShrinks
    <3>2. CASE geometryQueue # << >> /\ geometryQueue' = Tail(geometryQueue) /\ Fail(Head(geometryQueue))
      <4>1. Head(geometryQueue) # Sentinel
        BY <1>3, <2>t, <3>2 DEF StopDrainGeometry, HandsInv
      <4>2. PICK h \in Jobs : h = Head(geometryQueue) /\ h \in Ready /\ \A j \in Ready' : h < j
        BY <2>t, <3>2, <4>1, NatItems DEF Ready
      <4>3. ~done[h] /\ h <= accepted
        BY <4>2 DEF OpenInv, LineInv
      <4>4. /\ status'[h] = "error"
            /\ \A j \in Jobs : j # h => status'[j] = status[j] /\ done'[j] = done[j]
        BY <3>2, <4>2, <4>3 DEF Fail, TypeOK
      <4>5. \A j \in Finishing \cup Inferring \cup Waiting \cup Entering : j # h
        BY <4>2, NatItems DEF LineInv, Before
      <4>6. \A j \in Ready' : j # h
        BY <2>w, <4>2, NatItems
      <4>7. Open' \subseteq Open /\ h \notin Open'
        BY <2>s, <2>w, <4>5, <4>6 DEF Open
      <4>8. geoPc \in {"taken", "finish", "finally"} => geoJob # h
        BY <4>5 DEF HandsInv, Finishing, Present
      <4>9. lock = "free"
        BY <3>2 DEF Fail
      <4> QED BY <3>0, <4>3, <4>4, <4>7, <4>8, <4>9, OpenDecides
    <3> QED BY <2>c, <3>1, <3>2
  <2> QED BY <2>h, <2>l, <2>o
<1>4. CASE StopMarkTrigger
  <2>u. UNCHANGED <<geoJob, geometryQueue, infJob, submitted>>
    BY <1>4 DEF StopMarkTrigger, infVars, geoVars
  <2>s. UNCHANGED <<Finishing, Ready, Inferring, Entering>>
    BY <2>u DEF Finishing, Ready, Inferring, Entering
  <2>w. Waiting' = Waiting /\ InOrder(triggerQueue)'
    <3>1. CASE triggerQueue' = triggerQueue
      BY <3>1 DEF Waiting, LineInv, InOrder
    <3>2. CASE triggerQueue' = Append(triggerQueue, Sentinel)
      <4>1. triggerQueue \in Seq(Nat) /\ Sentinel \in Nat
        BY NatItems DEF Sentinel
      <4>2. Items(Append(triggerQueue, Sentinel)) = Items(triggerQueue) \cup ({Sentinel} \ {Sentinel}) /\ InOrder(Append(triggerQueue, Sentinel))
        BY <4>1, AppendItems DEF LineInv
      <4>3. InOrder(triggerQueue')
        BY <3>2, <4>2
      <4> QED BY <3>2, <4>2, <4>3 DEF Waiting, InOrder
    <3> QED BY <1>4, <3>1, <3>2 DEF StopMarkTrigger
  <2>h. HandsInv'
    BY <1>4, <2>u DEF StopMarkTrigger, HandsInv, jobVars, infVars, geoVars
  <2>l. LineInv'
    BY <1>4, <2>u, <2>s, <2>w DEF StopMarkTrigger, LineInv, InOrder
  <2>o. OpenInv'
    BY <1>4, <2>s, <2>w, OpenShrinks DEF StopMarkTrigger, jobVars, infVars, geoVars
  <2> QED BY <2>h, <2>l, <2>o
<1>5. CASE StopMarkGeometry
  <2>u. UNCHANGED <<geoJob, infJob, triggerQueue, submitted>>
    BY <1>5 DEF StopMarkGeometry, infVars, geoVars
  <2>s. UNCHANGED <<Finishing, Inferring, Waiting, Entering>>
    BY <2>u DEF Finishing, Inferring, Waiting, Entering
  <2>w. Ready' = Ready /\ InOrder(geometryQueue)'
    <3>1. CASE geometryQueue' = geometryQueue
      BY <3>1 DEF Ready, LineInv, InOrder
    <3>2. CASE geometryQueue' = Append(geometryQueue, Sentinel)
      <4>1. geometryQueue \in Seq(Nat) /\ Sentinel \in Nat
        BY NatItems DEF Sentinel
      <4>2. Items(Append(geometryQueue, Sentinel)) = Items(geometryQueue) \cup ({Sentinel} \ {Sentinel}) /\ InOrder(Append(geometryQueue, Sentinel))
        BY <4>1, AppendItems DEF LineInv
      <4>3. InOrder(geometryQueue')
        BY <3>2, <4>2
      <4> QED BY <3>2, <4>2, <4>3 DEF Ready, InOrder
    <3> QED BY <1>5, <3>1, <3>2 DEF StopMarkGeometry
  <2>h. HandsInv'
    BY <1>5, <2>u DEF StopMarkGeometry, HandsInv, jobVars, infVars, geoVars
  <2>l. LineInv'
    BY <1>5, <2>u, <2>s, <2>w DEF StopMarkGeometry, LineInv, InOrder
  <2>o. OpenInv'
    BY <1>5, <2>s, <2>w, OpenShrinks DEF StopMarkGeometry, jobVars, infVars, geoVars
  <2> QED BY <2>h, <2>l, <2>o
<1> QED BY <1>1, <1>2, <1>3, <1>4, <1>5 DEF Stop

LEMMA PipelineStep == TypeOK /\ PipelineInv /\ [Next]_vars => PipelineInv'
<1> SUFFICES ASSUME TypeOK, PipelineInv, [Next]_vars PROVE PipelineInv'
  OBVIOUS
<1>1. CASE UNCHANGED vars
  <2>1. UNCHANGED <<status, done, latest, accepted, triggerQueue, geometryQueue, infPc, infJob,
                    geoPc, geoJob, lock, submitted, stopPc>>
    BY <1>1 DEF vars, infVars, geoVars
  <2>2. UNCHANGED <<Finishing, Ready, Inferring, Waiting, Entering>>
    BY <2>1 DEF Finishing, Ready, Inferring, Waiting, Entering
  <2>3. HandsInv'
    BY <2>1 DEF PipelineInv, HandsInv
  <2>4. LineInv'
    BY <2>1, <2>2 DEF PipelineInv, LineInv, InOrder
  <2>5. OpenInv'
    BY <2>1, <2>2, OpenShrinks DEF PipelineInv
  <2> QED BY <2>3, <2>4, <2>5 DEF PipelineInv
<1> QED BY <1>1, HttpPipeline, TrimPipeline, InferencePipeline, GeometryPipeline, StopPipeline
        DEF Next

-----------------------------------------------------------------------------
(* What a step does to the outcomes: nothing, a new job, or one outcome.    *)

KeepsOutcomes ==
  /\ UNCHANGED <<accepted, completed, failed, latest>>
  /\ \A j \in Jobs : /\ status'[j] \in {"ok", "error"} <=> status[j] \in {"ok", "error"}
                     /\ status[j] \in {"ok", "error"} => status'[j] = status[j]

AcceptsOne ==
  /\ accepted' = accepted + 1 /\ accepted + 1 \in Jobs
  /\ UNCHANGED <<completed, failed, latest>>
  /\ \A j \in Jobs : j # accepted + 1 => status'[j] = status[j]
  /\ status[accepted + 1] = "none" /\ status'[accepted + 1] = "queued"

Decides(h) ==
  /\ h <= accepted /\ accepted' = accepted
  /\ status[h] \notin {"ok", "error"} /\ status'[h] \in {"ok", "error"}
  /\ \A j \in Jobs : j # h => status'[j] = status[j]
  /\ \/ latest' = latest /\ completed' = completed /\ failed' = failed + 1
     \/ latest' = h /\ latest < h /\ completed' = completed + 1 /\ failed' = failed

Effect ==
  /\ KeepsOutcomes \/ AcceptsOne \/ \E h \in Jobs : Decides(h)
  /\ \A j \in Jobs : done[j] => done'[j]

\* Fail on a job that is still in the line decides it.
LEMMA FailEffect ==
  ASSUME TypeOK, PipelineInv, NEW h \in Jobs, Fail(h), h <= accepted,
         status[h] \notin {"ok", "error"}, UNCHANGED <<accepted, completed, latest>>
  PROVE  Effect
<1>1. ~done[h]
  BY DEF PipelineInv, OpenInv, Decided
<1>2. /\ status'[h] = "error" /\ failed' = failed + 1
      /\ \A j \in Jobs : j # h => status'[j] = status[j]
      /\ \A j \in Jobs : done[j] => done'[j]
  BY <1>1 DEF Fail, TypeOK
<1>3. Decides(h)
  BY <1>2 DEF Decides
<1> QED BY <1>2, <1>3 DEF Effect

LEMMA StepEffect == TypeOK /\ PipelineInv /\ [Next]_vars => Effect
<1> SUFFICES ASSUME TypeOK, PipelineInv, [Next]_vars PROVE Effect
  OBVIOUS
<1> USE DEF NoJob
<1>0. ASSUME UNCHANGED <<accepted, status, done, completed, failed, latest>> PROVE Effect
  BY <1>0 DEF Effect, KeepsOutcomes
<1>1. CASE Http
  <2>1. CASE SubmitRegister
    <3>1. /\ accepted \in Nat /\ MaxJobs \in Nat /\ accepted < MaxJobs /\ lock = "submit"
          /\ submitted.job = NoJob
      BY <2>1, ServiceAssumption DEF SubmitRegister, TypeOK, PipelineInv, HandsInv
    <3>2. accepted + 1 \in Jobs
      BY <3>1 DEF Jobs
    <3>3. /\ accepted' = accepted + 1 /\ status' = [status EXCEPT ![accepted + 1] = "queued"]
          /\ UNCHANGED <<done, completed, failed, latest>>
      BY <2>1 DEF SubmitRegister
    <3>4. status[accepted + 1] = "none"
      BY <3>1, <3>2 DEF PipelineInv, OpenInv
    <3>5. AcceptsOne
      BY <3>2, <3>3, <3>4 DEF AcceptsOne, TypeOK
    <3> QED BY <3>3, <3>5 DEF Effect
  <2>2. CASE \E r \in RequestIds : Replay(r) \/ SubmitNew(r)
    BY <1>0, <2>2 DEF Replay, SubmitNew, jobVars
  <2>3. CASE SubmitReject \/ SubmitPut
    BY <1>0, <2>3 DEF SubmitReject, SubmitPut, jobVars
  <2> QED BY <1>1, <2>1, <2>2, <2>3 DEF Http
<1>2. CASE Trim
  BY <1>0, <1>2 DEF Trim, jobVars
<1>3. CASE Inference
  <2>0. ASSUME infJob # NoJob
        PROVE  infJob \in Jobs /\ infJob <= accepted /\ status[infJob] \notin {"ok", "error"}
    <3>1. infJob \in Inferring /\ infJob \in Jobs
      BY <2>0 DEF TypeOK, Inferring, Present
    <3> QED BY <3>1 DEF PipelineInv, OpenInv, LineInv, Decided
  <2>1. CASE InfBegin \/ InfPrepared
    <3>1. infJob # NoJob
      BY <2>1 DEF InfBegin, InfPrepared, PipelineInv, HandsInv
    <3>2. PICK h \in Jobs : h = infJob /\ status[h] \notin {"ok", "error"}
      BY <2>0, <3>1
    <3>3. /\ status'[h] \notin {"ok", "error"} /\ \A j \in Jobs : j # h => status'[j] = status[j]
          /\ UNCHANGED <<accepted, done, completed, failed, latest>>
      BY <2>1, <3>2 DEF InfBegin, InfPrepared, TypeOK
    <3> QED BY <3>2, <3>3 DEF Effect, KeepsOutcomes
  <2>2. CASE InfFailed \/ InfAbandon
    <3>1. infJob # NoJob
      BY <2>2 DEF InfFailed, InfAbandon, PipelineInv, HandsInv
    <3>2. PICK h \in Jobs : h = infJob /\ h <= accepted /\ status[h] \notin {"ok", "error"}
      BY <2>0, <3>1
    <3>3. Fail(h) /\ UNCHANGED <<accepted, completed, latest>>
      BY <2>2, <3>2 DEF InfFailed, InfAbandon
    <3> QED BY <3>2, <3>3, FailEffect
  <2>3. CASE InfLoop \/ InfGet \/ InfOffer \/ InfPut
    BY <1>0, <2>3 DEF InfLoop, InfGet, InfOffer, InfPut, jobVars
  <2> QED BY <1>3, <2>1, <2>2, <2>3 DEF Inference
<1>4. CASE Geometry
  <2>0. ASSUME geoPc \in {"taken", "finish"}
        PROVE  \E h \in Jobs : /\ h = geoJob /\ h <= accepted /\ latest < h
                               /\ status[h] \notin {"ok", "error"}
    <3>1. geoJob \in Finishing /\ geoJob \in Jobs
      BY <2>0 DEF TypeOK, Finishing, Present, PipelineInv, HandsInv
    <3> QED BY <2>0, <3>1 DEF PipelineInv, OpenInv, LineInv, Decided
  <2>1. CASE GeoBegin
    <3>1. PICK h \in Jobs : h = geoJob /\ status[h] \notin {"ok", "error"}
      BY <2>0, <2>1 DEF GeoBegin
    <3>2. /\ status'[h] \notin {"ok", "error"} /\ \A j \in Jobs : j # h => status'[j] = status[j]
          /\ UNCHANGED <<accepted, done, completed, failed, latest>>
      BY <2>1, <3>1 DEF GeoBegin, TypeOK
    <3> QED BY <3>1, <3>2 DEF Effect, KeepsOutcomes
  <2>2. CASE GeoSucceed
    <3>1. PICK h \in Jobs : h = geoJob /\ h <= accepted /\ latest < h /\ status[h] \notin {"ok", "error"}
      BY <2>0, <2>2 DEF GeoSucceed
    <3>2. /\ status'[h] = "ok" /\ \A j \in Jobs : j # h => status'[j] = status[j]
          /\ completed' = completed + 1 /\ latest' = h /\ UNCHANGED <<accepted, done, failed>>
      BY <2>2, <3>1 DEF GeoSucceed, TypeOK
    <3>3. Decides(h)
      BY <3>1, <3>2 DEF Decides
    <3> QED BY <3>2, <3>3 DEF Effect
  <2>3. CASE GeoFailed
    <3>1. PICK h \in Jobs : h = geoJob /\ h <= accepted /\ status[h] \notin {"ok", "error"}
      BY <2>0, <2>3 DEF GeoFailed
    <3>2. Fail(h) /\ UNCHANGED <<accepted, completed, latest>>
      BY <2>3, <3>1 DEF GeoFailed
    <3> QED BY <3>1, <3>2, FailEffect
  <2>4. CASE GeoFinally
    <3>1. /\ done' = [done EXCEPT ![geoJob] = TRUE]
          /\ UNCHANGED <<accepted, status, completed, failed, latest>>
      BY <2>4 DEF GeoFinally
    <3>2. \A j \in Jobs : done[j] => done'[j]
      BY <3>1 DEF TypeOK
    <3> QED BY <3>1, <3>2 DEF Effect, KeepsOutcomes
  <2>5. CASE GeoLoop \/ GeoGet \/ GeoRelease
    BY <1>0, <2>5 DEF GeoLoop, GeoGet, GeoRelease, jobVars
  <2> QED BY <1>4, <2>1, <2>2, <2>3, <2>4, <2>5 DEF Geometry
<1>5. CASE Stop
  <2>1. CASE StopDrainTrigger
    <3>1. CASE triggerQueue = << >>
      BY <1>0, <2>1, <3>1 DEF StopDrainTrigger
    <3>2. CASE triggerQueue # << >>
      <4>1. Fail(Head(triggerQueue)) /\ UNCHANGED <<accepted, completed, latest>>
        BY <2>1, <3>2 DEF StopDrainTrigger
      <4>2. Head(triggerQueue) = triggerQueue[1] /\ 1 \in 1..Len(triggerQueue)
        BY <3>2, NatItems
      <4>3. Head(triggerQueue) # Sentinel
        BY <2>1, <4>2 DEF StopDrainTrigger, PipelineInv, HandsInv
      <4>4. PICK h \in Jobs : h = Head(triggerQueue) /\ h \in Waiting
        BY <3>2, <4>3, NatItems, TailItems DEF Waiting
      <4>5. h <= accepted /\ status[h] \notin {"ok", "error"}
        BY <4>4 DEF PipelineInv, LineInv, OpenInv, Decided
      <4> QED BY <4>1, <4>4, <4>5, FailEffect
    <3> QED BY <3>1, <3>2
  <2>2. CASE StopDrainGeometry
    <3>1. CASE geometryQueue = << >>
      BY <1>0, <2>2, <3>1 DEF StopDrainGeometry
    <3>2. CASE geometryQueue # << >>
      <4>1. Fail(Head(geometryQueue)) /\ UNCHANGED <<accepted, completed, latest>>
        BY <2>2, <3>2 DEF StopDrainGeometry
      <4>2. Head(geometryQueue) = geometryQueue[1] /\ 1 \in 1..Len(geometryQueue)
        BY <3>2, NatItems
      <4>3. Head(geometryQueue) # Sentinel
        BY <2>2, <4>2 DEF StopDrainGeometry, PipelineInv, HandsInv
      <4>4. PICK h \in Jobs : h = Head(geometryQueue) /\ h \in Ready
        BY <3>2, <4>3, NatItems, TailItems DEF Ready
      <4>5. h <= accepted /\ status[h] \notin {"ok", "error"}
        BY <4>4 DEF PipelineInv, LineInv, OpenInv, Decided
      <4> QED BY <4>1, <4>4, <4>5, FailEffect
    <3> QED BY <3>1, <3>2
  <2>3. CASE StopSet \/ StopMarkTrigger \/ StopMarkGeometry
    BY <1>0, <2>3 DEF StopSet, StopMarkTrigger, StopMarkGeometry, jobVars
  <2> QED BY <1>5, <2>1, <2>2, <2>3 DEF Stop
<1>6. CASE UNCHANGED vars
  BY <1>0, <1>6 DEF vars
<1> QED BY <1>1, <1>2, <1>3, <1>4, <1>5, <1>6 DEF Next

-----------------------------------------------------------------------------
(* The counters.                                                            *)

Undecided == {j \in 1..accepted : ~Decided(j)}

LEMMA CountersInit == Init => CountersAddUp
<1> SUFFICES ASSUME Init PROVE CountersAddUp
  OBVIOUS
<1>1. {j \in 1..accepted : ~Decided(j)} = {}
  BY DEF Init
<1> QED BY <1>1, FS_EmptySet DEF Init, CountersAddUp

LEMMA CountersStep ==
  TypeOK /\ PipelineInv /\ CountersAddUp /\ [Next]_vars => CountersAddUp'
<1> SUFFICES ASSUME TypeOK, PipelineInv, CountersAddUp, Effect PROVE CountersAddUp'
  BY StepEffect
<1>1. accepted \in Nat /\ completed \in Nat /\ failed \in Nat /\ MaxJobs \in Nat /\ accepted <= MaxJobs
  BY ServiceAssumption DEF TypeOK
<1>2. 1..accepted \subseteq Jobs
  BY <1>1 DEF Jobs
<1>3. IsFiniteSet(Undecided) /\ Cardinality(Undecided) \in Nat
  <2>1. IsFiniteSet(1..accepted) /\ Undecided \subseteq 1..accepted
    BY <1>1, FS_Interval DEF Undecided
  <2> QED BY <2>1, FS_Subset, FS_CardinalityType
<1>4. accepted = completed + failed + Cardinality(Undecided)
  BY DEF CountersAddUp, Undecided
<1>5. SUFFICES accepted' = completed' + failed' + Cardinality(Undecided')
  BY DEF CountersAddUp, Undecided
<1>6. CASE KeepsOutcomes
  <2>1. Undecided' = Undecided
    BY <1>2, <1>6 DEF KeepsOutcomes, Undecided, Decided
  <2> QED BY <1>4, <1>6, <2>1 DEF KeepsOutcomes
<1>7. CASE AcceptsOne
  <2>1. accepted + 1 \notin Undecided
    BY <1>1 DEF Undecided
  <2>2. 1..accepted' = (1..accepted) \cup {accepted + 1}
    BY <1>1, <1>7 DEF AcceptsOne
  <2>3. \A j \in 1..accepted : j # accepted + 1 /\ status'[j] = status[j]
    BY <1>1, <1>2, <1>7 DEF AcceptsOne
  <2>4. status'[accepted + 1] \notin {"ok", "error"}
    BY <1>7 DEF AcceptsOne
  <2>5. Undecided' = Undecided \cup {accepted + 1}
    BY <2>2, <2>3, <2>4 DEF Undecided, Decided
  <2>6. Cardinality(Undecided') = Cardinality(Undecided) + 1
    BY <1>3, <2>1, <2>5, FS_AddElement
  <2> QED BY <1>1, <1>3, <1>4, <1>7, <2>6 DEF AcceptsOne
<1>8. CASE \E h \in Jobs : Decides(h)
  <2>1. PICK h \in Jobs : Decides(h)
    BY <1>8
  <2>2. h \in Undecided
    BY <1>1, <2>1 DEF Decides, Undecided, Decided, Jobs
  <2>3. Undecided' = Undecided \ {h}
    BY <1>2, <2>1 DEF Decides, Undecided, Decided
  <2>4. Cardinality(Undecided') = Cardinality(Undecided) - 1
    BY <1>3, <2>2, <2>3, FS_RemoveElement
  <2>5. /\ accepted' = accepted
        /\ \/ completed' = completed /\ failed' = failed + 1
           \/ completed' = completed + 1 /\ failed' = failed
    BY <2>1 DEF Decides
  <2>6. CASE completed' = completed /\ failed' = failed + 1
    BY <1>1, <1>3, <1>4, <2>4, <2>5, <2>6
  <2>7. CASE completed' = completed + 1 /\ failed' = failed
    BY <1>1, <1>3, <1>4, <2>4, <2>5, <2>7
  <2> QED BY <2>5, <2>6, <2>7
<1> QED BY <1>6, <1>7, <1>8 DEF Effect

-----------------------------------------------------------------------------
(* No accepted request gets lost.                                           *)

\* The room submit() saw under the lock is still there when it puts the job.
KeptInv ==
  /\ NotLost
  /\ ~stopping /\ submitted.job # NoJob => Has(triggerQueue, TriggerCap)

LEMMA RoomStep ==
  ASSUME TypeOK, PipelineInv, KeptInv, [Next]_vars, ~stopping', submitted'.job # NoJob
  PROVE  Has(triggerQueue, TriggerCap)'
<1>0. triggerQueue \in Seq(Nat) /\ Len(triggerQueue) \in Nat /\ TriggerCap \in Nat
  BY NatItems, ServiceAssumption
<1>1. CASE UNCHANGED <<triggerQueue, submitted, stopPc>>
  BY <1>1 DEF KeptInv, stopping, Has
<1>2. CASE Http
  <2>1. CASE SubmitRegister
    BY <2>1 DEF SubmitRegister, Has
  <2>2. CASE SubmitReject \/ SubmitPut \/ \E r \in RequestIds : SubmitNew(r)
    BY <2>2 DEF SubmitReject, SubmitPut, SubmitNew, Idle
  <2>3. CASE \E r \in RequestIds : Replay(r)
    BY <1>1, <2>3 DEF Replay
  <2> QED BY <1>2, <2>1, <2>2, <2>3 DEF Http
<1>3. CASE Inference
  <2>1. CASE InfGet
    <3>1. Has(triggerQueue, TriggerCap)
      BY <2>1 DEF InfGet, KeptInv, stopping
    <3>2. triggerQueue # << >> => Len(Tail(triggerQueue)) = Len(triggerQueue) - 1
      BY <1>0
    <3> QED BY <1>0, <2>1, <3>1, <3>2 DEF InfGet, Has
  <2>2. CASE ~InfGet
    BY <1>1, <1>3, <2>2 DEF Inference, InfLoop, InfBegin, InfPrepared, InfFailed, InfOffer,
                            InfPut, InfAbandon
  <2> QED BY <2>1, <2>2
<1>4. CASE Geometry
  BY <1>1, <1>4 DEF Geometry, GeoLoop, GeoGet, GeoBegin, GeoSucceed, GeoFailed, GeoFinally, GeoRelease
<1>5. CASE Stop
  BY <1>5 DEF Stop, StopSet, StopDrainTrigger, StopDrainGeometry, StopMarkTrigger,
              StopMarkGeometry, stopping
<1>6. CASE Trim
  BY <1>1, <1>6 DEF Trim
<1>7. CASE UNCHANGED vars
  BY <1>1, <1>7 DEF vars
<1> QED BY <1>2, <1>3, <1>4, <1>5, <1>6, <1>7 DEF Next

LEMMA HeldStep ==
  ASSUME TypeOK, PipelineInv, KeptInv, [Next]_vars, ~stopping',
         NEW j \in Jobs, j \in Held, status'[j] \notin {"ok", "error"}
  PROVE  j \in Held'
<1>0. j # NoJob /\ j # Sentinel /\ j \in Nat
  BY DEF Jobs, NoJob, Sentinel
<1>1. CASE UNCHANGED <<triggerQueue, geometryQueue, infJob, geoJob, submitted>>
  BY <1>1 DEF Held, Items
<1>2. CASE Http
  <2>1. CASE \/ SubmitRegister \/ SubmitReject
             \/ \E r \in RequestIds : Replay(r) \/ SubmitNew(r)
    <3>1. submitted'.job = submitted.job \/ submitted.job = NoJob
      BY <2>1 DEF SubmitRegister, SubmitReject, Replay, SubmitNew, PipelineInv, HandsInv
    <3>2. UNCHANGED <<triggerQueue, geometryQueue, infJob, geoJob>>
      BY <2>1 DEF SubmitRegister, SubmitReject, Replay, SubmitNew, infVars, geoVars
    <3>3. UNCHANGED <<Items(triggerQueue), Items(geometryQueue)>>
      BY <3>2 DEF Items
    <3> QED BY <1>0, <3>1, <3>2, <3>3 DEF Held
  <2>2. CASE SubmitPut
    <3>1. submitted.job # NoJob /\ ~stopping
      BY <2>2 DEF SubmitPut, stopping
    <3>2. triggerQueue' = Append(triggerQueue, submitted.job) /\ UNCHANGED <<geometryQueue, infJob, geoJob>>
      BY <2>2, <3>1 DEF SubmitPut, KeptInv, infVars, geoVars
    <3>3. submitted.job \in Nat /\ submitted.job # Sentinel
      BY <3>1 DEF TypeOK, Jobs, NoJob, Sentinel
    <3>4. Items(Append(triggerQueue, submitted.job)) = Items(triggerQueue) \cup {submitted.job}
      BY <3>3, NatItems, AppendItems
    <3>5. Items(triggerQueue)' = Items(triggerQueue) \cup {submitted.job}
      BY <3>2, <3>4 DEF Items
    <3>6. UNCHANGED Items(geometryQueue)
      BY <3>2 DEF Items
    <3> QED BY <3>2, <3>5, <3>6 DEF Held
  <2> QED BY <1>2, <2>1, <2>2 DEF Http
<1>3. CASE Inference
  <2>1. CASE InfGet /\ triggerQueue # << >>
    <3>1. /\ triggerQueue' = Tail(triggerQueue) /\ UNCHANGED <<geometryQueue, geoJob, submitted>>
          /\ infJob = NoJob
          /\ Head(triggerQueue) # Sentinel => infJob' = Head(triggerQueue)
          /\ Head(triggerQueue) = Sentinel => infJob' = infJob
      BY <2>1 DEF InfGet, PipelineInv, HandsInv, geoVars
    <3>2. Items(triggerQueue) \subseteq Items(Tail(triggerQueue)) \cup {Head(triggerQueue)}
      BY <2>1, NatItems, TailItems
    <3>3. Items(triggerQueue)' = Items(Tail(triggerQueue)) /\ UNCHANGED Items(geometryQueue)
      BY <3>1 DEF Items
    <3> QED BY <1>0, <3>1, <3>2, <3>3 DEF Held
  <2>2. CASE InfFailed \/ InfAbandon
    <3>1. UNCHANGED <<triggerQueue, geometryQueue, geoJob, submitted>>
      BY <2>2 DEF InfFailed, InfAbandon, geoVars
    <3>2. infJob \in Jobs /\ infJob \in Inferring /\ Fail(infJob)
      BY <2>2 DEF InfFailed, InfAbandon, PipelineInv, HandsInv, TypeOK, Inferring, Present
    <3>3. ~done[infJob]
      BY <3>2 DEF PipelineInv, OpenInv
    <3>4. status'[infJob] = "error"
      BY <3>2, <3>3 DEF Fail, TypeOK
    <3>5. j # infJob
      BY <3>4
    <3>6. UNCHANGED <<Items(triggerQueue), Items(geometryQueue)>>
      BY <3>1 DEF Items
    <3> QED BY <3>1, <3>5, <3>6 DEF Held
  <2>3. CASE InfPut
    <3>1. UNCHANGED <<triggerQueue, geoJob, submitted>> /\ infJob \in Nat /\ infJob # Sentinel
      BY <2>3 DEF InfPut, geoVars, PipelineInv, HandsInv, TypeOK, Jobs, NoJob, Sentinel
    <3>2. CASE geometryQueue' = Append(geometryQueue, infJob)
      <4>1. Items(Append(geometryQueue, infJob)) = Items(geometryQueue) \cup {infJob}
        BY <3>1, NatItems, AppendItems
      <4>2. Items(geometryQueue)' = Items(geometryQueue) \cup {infJob} /\ UNCHANGED Items(triggerQueue)
        BY <3>1, <3>2, <4>1 DEF Items
      <4> QED BY <3>1, <4>2 DEF Held
    <3>3. CASE UNCHANGED <<geometryQueue, infJob>>
      BY <1>1, <3>1, <3>3
    <3> QED BY <2>3, <3>2, <3>3 DEF InfPut
  <2>4. CASE InfLoop \/ InfBegin \/ InfPrepared \/ InfOffer \/ (InfGet /\ triggerQueue = << >>)
    BY <1>1, <2>4 DEF InfLoop, InfBegin, InfPrepared, InfOffer, InfGet, infVars, geoVars
  <2> QED BY <1>3, <2>1, <2>2, <2>3, <2>4 DEF Inference
<1>4. CASE Geometry
  <2>1. CASE GeoGet /\ geometryQueue # << >>
    <3>1. /\ geometryQueue' = Tail(geometryQueue) /\ UNCHANGED <<triggerQueue, infJob, submitted>>
          /\ geoJob = NoJob
          /\ Head(geometryQueue) # Sentinel => geoJob' = Head(geometryQueue)
          /\ Head(geometryQueue) = Sentinel => geoJob' = geoJob
      BY <2>1 DEF GeoGet, PipelineInv, HandsInv, infVars
    <3>2. Items(geometryQueue) \subseteq Items(Tail(geometryQueue)) \cup {Head(geometryQueue)}
      BY <2>1, NatItems, TailItems
    <3>3. Items(geometryQueue)' = Items(Tail(geometryQueue)) /\ UNCHANGED Items(triggerQueue)
      BY <3>1 DEF Items
    <3> QED BY <1>0, <3>1, <3>2, <3>3 DEF Held
  <2>2. CASE GeoRelease
    <3>1. UNCHANGED <<triggerQueue, geometryQueue, infJob, submitted, status>>
      BY <2>2 DEF GeoRelease, infVars, jobVars
    <3>2. geoJob \in Jobs => status[geoJob] \in {"ok", "error"}
      BY <2>2 DEF GeoRelease, PipelineInv, HandsInv, OpenInv, Decided
    <3>3. j # geoJob
      BY <3>1, <3>2
    <3>4. UNCHANGED <<Items(triggerQueue), Items(geometryQueue)>>
      BY <3>1 DEF Items
    <3> QED BY <3>1, <3>3, <3>4 DEF Held
  <2>3. CASE \/ GeoLoop \/ GeoBegin \/ GeoSucceed \/ GeoFailed \/ GeoFinally
             \/ (GeoGet /\ geometryQueue = << >>)
    BY <1>1, <2>3 DEF GeoLoop, GeoBegin, GeoSucceed, GeoFailed, GeoFinally, GeoGet, infVars, geoVars
  <2> QED BY <1>4, <2>1, <2>2, <2>3 DEF Geometry
<1>5. CASE Stop
  BY <1>5 DEF Stop, StopSet, StopDrainTrigger, StopDrainGeometry, StopMarkTrigger,
              StopMarkGeometry, stopping
<1>6. CASE Trim
  BY <1>1, <1>6 DEF Trim, infVars, geoVars
<1>7. CASE UNCHANGED vars
  BY <1>1, <1>7 DEF vars, infVars, geoVars
<1> QED BY <1>2, <1>3, <1>4, <1>5, <1>6, <1>7 DEF Next

LEMMA KeptStep == TypeOK /\ PipelineInv /\ KeptInv /\ [Next]_vars => KeptInv'
<1> SUFFICES ASSUME TypeOK, PipelineInv, KeptInv, [Next]_vars PROVE KeptInv'
  OBVIOUS
<1>1. ASSUME ~stopping', NEW j \in 1..accepted', status'[j] \notin {"ok", "error"}
      PROVE  j \in Held'
  <2>0. accepted \in Nat /\ MaxJobs \in Nat /\ accepted <= MaxJobs
    BY ServiceAssumption DEF TypeOK
  <2>1. ~stopping
    BY <1>1 DEF stopping, Next, vars, Http, Trim, Inference, Geometry, Stop, Replay, SubmitNew,
             SubmitReject, SubmitRegister, SubmitPut, InfLoop, InfGet, InfBegin, InfPrepared,
             InfFailed, InfOffer, InfPut, InfAbandon, GeoLoop, GeoGet, GeoBegin, GeoSucceed,
             GeoFailed, GeoFinally, GeoRelease, StopSet, StopDrainTrigger, StopDrainGeometry,
             StopMarkTrigger, StopMarkGeometry
  <2>2. CASE KeepsOutcomes \/ \E h \in Jobs : Decides(h)
    <3>1. j \in 1..accepted /\ j \in Jobs
      BY <2>0, <2>2 DEF KeepsOutcomes, Decides, Jobs
    <3>2. status[j] \notin {"ok", "error"}
      BY <1>1, <2>2, <3>1 DEF KeepsOutcomes, Decides
    <3>3. j \in Held
      BY <2>1, <3>1, <3>2 DEF KeptInv, NotLost, Decided
    <3> QED BY <1>1, <3>1, <3>3, HeldStep
  <2>3. CASE AcceptsOne
    <3>1. accepted' = accepted + 1 /\ accepted + 1 \in Jobs
      BY <2>3 DEF AcceptsOne
    <3>2. CASE j = accepted + 1
      <4>1. submitted'.job = accepted + 1
        BY <2>0, <3>1 DEF Next, vars, Http, Trim, Inference, Geometry, Stop, Replay, SubmitNew,
             SubmitReject, SubmitRegister, SubmitPut, InfLoop, InfGet, InfBegin, InfPrepared,
             InfFailed, InfOffer, InfPut, InfAbandon, GeoLoop, GeoGet, GeoBegin, GeoSucceed,
             GeoFailed, GeoFinally, GeoRelease, StopSet, StopDrainTrigger, StopDrainGeometry,
             StopMarkTrigger, StopMarkGeometry
      <4> QED BY <3>2, <4>1 DEF Held
    <3>3. CASE j # accepted + 1
      <4>1. j \in 1..accepted /\ j \in Jobs
        BY <2>0, <3>1, <3>3 DEF Jobs
      <4>2. status[j] \notin {"ok", "error"}
        BY <1>1, <2>3, <3>3, <4>1 DEF AcceptsOne
      <4>3. j \in Held
        BY <2>1, <4>1, <4>2 DEF KeptInv, NotLost, Decided
      <4> QED BY <1>1, <4>1, <4>3, HeldStep
    <3> QED BY <3>2, <3>3
  <2> QED BY <2>2, <2>3, StepEffect DEF Effect
<1>2. NotLost'
  BY <1>1 DEF NotLost, Decided
<1>3. ~stopping' /\ submitted'.job # NoJob => Has(triggerQueue, TriggerCap)'
  BY RoomStep
<1> QED BY <1>2, <1>3 DEF KeptInv

-----------------------------------------------------------------------------
(* One entry per request id.                                                *)

\* Between the test in submit() and the new entry the id stays unregistered.
RegistryInv ==
  /\ \A i, k \in 1..Len(registry) : requestOf[registry[i]] = requestOf[registry[k]] => i = k
  /\ \A i \in 1..Len(registry) : registry[i] <= accepted
  /\ \A j \in 1..accepted : ~done[j] => \E i \in 1..Len(registry) : registry[i] = j
  /\ lock = "submit" /\ submitted.job = NoJob =>
       \A i \in 1..Len(registry) : requestOf[registry[i]] # submitted.request

\* The same entries in another order, or all but one that is done.
Reordered(s, t) ==
  \E source \in [1..Len(t) -> 1..Len(s)] :
    /\ \A i \in 1..Len(t) : t[i] = s[source[i]]
    /\ \A i, k \in 1..Len(t) : source[i] = source[k] => i = k

LEMMA WithoutReorders ==
  ASSUME NEW s \in Seq(Jobs), NEW p \in 1..Len(s)
  PROVE  Reordered(s, Without(s, p))
<1> DEFINE source == [i \in 1..(Len(s) - 1) |-> IF i < p THEN i ELSE i + 1]
<1>1. Len(s) \in Nat /\ Len(Without(s, p)) = Len(s) - 1
  BY WithoutEntry
<1>2. source \in [1..(Len(s) - 1) -> 1..Len(s)]
  BY <1>1
<1>3. \A i \in 1..(Len(s) - 1) : Without(s, p)[i] = s[source[i]]
  BY <1>1 DEF Without
<1>4. \A i, k \in 1..(Len(s) - 1) : source[i] = source[k] => i = k
  BY <1>1
<1> HIDE DEF source
<1> QED BY <1>1, <1>2, <1>3, <1>4 DEF Reordered

LEMMA MovedReorders ==
  ASSUME registry \in Seq(Jobs), NEW p \in 1..Len(registry)
  PROVE  /\ Reordered(registry, MovedToEnd(p)) /\ Len(MovedToEnd(p)) = Len(registry)
         /\ \A i \in 1..Len(registry) : \E k \in 1..Len(registry) : MovedToEnd(p)[k] = registry[i]
<1> DEFINE n == Len(registry)
           source == [i \in 1..n |-> IF i = n THEN p ELSE IF i < p THEN i ELSE i + 1]
<1>1. /\ n \in Nat /\ Without(registry, p) \in Seq(Jobs) /\ Len(Without(registry, p)) = n - 1
      /\ registry[p] \in Jobs
  BY WithoutEntry
<1>2. /\ Len(MovedToEnd(p)) = n /\ MovedToEnd(p)[n] = registry[p]
      /\ \A i \in 1..(n - 1) : MovedToEnd(p)[i] = Without(registry, p)[i]
  BY <1>1 DEF MovedToEnd
<1>3. \A i \in 1..(n - 1) : Without(registry, p)[i] = registry[IF i < p THEN i ELSE i + 1]
  BY DEF Without
<1>4. source \in [1..n -> 1..n]
  BY <1>1
<1>5. \A i \in 1..n : MovedToEnd(p)[i] = registry[source[i]]
  BY <1>1, <1>2, <1>3
<1>6. \A i, k \in 1..n : source[i] = source[k] => i = k
  BY <1>1
<1>7. Reordered(registry, MovedToEnd(p))
  <2> HIDE DEF source
  <2> QED BY <1>2, <1>4, <1>5, <1>6 DEF Reordered
<1>8. ASSUME NEW i \in 1..n PROVE \E k \in 1..n : MovedToEnd(p)[k] = registry[i]
  <2>1. CASE i = p
    BY <1>1, <1>2, <2>1
  <2>2. CASE i # p
    <3>1. PICK k \in 1..(n - 1) : Without(registry, p)[k] = registry[i]
      BY <2>2, WithoutEntry
    <3> QED BY <1>1, <1>2, <3>1
  <2> QED BY <2>1, <2>2
<1> QED BY <1>2, <1>7, <1>8

\* What a reordering keeps of RegistryInv.
LEMMA ReorderedKeeps ==
  ASSUME registry \in Seq(Jobs), Reordered(registry, registry'),
         UNCHANGED <<requestOf, accepted>>
  PROVE  /\ (\A i, k \in 1..Len(registry) : requestOf[registry[i]] = requestOf[registry[k]] => i = k)
            => \A i, k \in 1..Len(registry') : requestOf'[registry'[i]] = requestOf'[registry'[k]] => i = k
         /\ \A i \in 1..Len(registry') : \E k \in 1..Len(registry) : registry'[i] = registry[k]
<1>1. PICK source \in [1..Len(registry') -> 1..Len(registry)] :
        /\ \A i \in 1..Len(registry') : registry'[i] = registry[source[i]]
        /\ \A i, k \in 1..Len(registry') : source[i] = source[k] => i = k
  BY DEF Reordered
<1>2. \A i \in 1..Len(registry') : source[i] \in 1..Len(registry) /\ registry'[i] = registry[source[i]]
  BY <1>1
<1>3. \A i \in 1..Len(registry') : \E k \in 1..Len(registry) : registry'[i] = registry[k]
  BY <1>2
<1>4. ASSUME \A i, k \in 1..Len(registry) : requestOf[registry[i]] = requestOf[registry[k]] => i = k,
             NEW i \in 1..Len(registry'), NEW k \in 1..Len(registry'),
             requestOf'[registry'[i]] = requestOf'[registry'[k]]
      PROVE  i = k
  <2>1. source[i] = source[k]
    BY <1>2, <1>4
  <2> QED BY <1>1, <2>1
<1> QED BY <1>3, <1>4

LEMMA RegistryStep == TypeOK /\ PipelineInv /\ RegistryInv /\ [Next]_vars => RegistryInv'
<1> SUFFICES ASSUME TypeOK, PipelineInv, RegistryInv, [Next]_vars PROVE RegistryInv'
  OBVIOUS
<1>0. registry \in Seq(Jobs) /\ accepted \in Nat /\ accepted <= MaxJobs /\ MaxJobs \in Nat
  BY ServiceAssumption DEF TypeOK
<1>d. \A j \in Jobs : done[j] => done'[j]
  BY StepEffect DEF Effect
<1>j. 1..accepted \subseteq Jobs
  BY <1>0 DEF Jobs
<1>1. ASSUME UNCHANGED <<registry, requestOf, accepted>>,
             lock' = "submit" /\ submitted'.job = NoJob =>
               lock = "submit" /\ submitted.job = NoJob /\ submitted' = submitted
      PROVE  RegistryInv'
  <2>1. \A j \in 1..accepted' : ~done'[j] => \E i \in 1..Len(registry') : registry'[i] = j
    BY <1>1, <1>d, <1>j DEF RegistryInv
  <2>2. lock' = "submit" /\ submitted'.job = NoJob =>
          \A i \in 1..Len(registry') : requestOf'[registry'[i]] # submitted'.request
    BY <1>1 DEF RegistryInv
  <2>3. /\ \A i, k \in 1..Len(registry') : requestOf'[registry'[i]] = requestOf'[registry'[k]] => i = k
        /\ \A i \in 1..Len(registry') : registry'[i] <= accepted'
    BY <1>1 DEF RegistryInv
  <2> QED BY <2>1, <2>2, <2>3 DEF RegistryInv
<1>2. CASE Http
  <2>1. ASSUME NEW r \in RequestIds, Replay(r) PROVE RegistryInv'
    <3>1. PICK p \in 1..Len(registry) : registry' = MovedToEnd(p)
      BY <2>1 DEF Replay
    <3>2. UNCHANGED <<requestOf, accepted, done>> /\ lock' = "free"
      BY <2>1 DEF Replay, jobVars
    <3>3. /\ Reordered(registry, registry') /\ Len(registry') = Len(registry)
          /\ \A i \in 1..Len(registry) : \E k \in 1..Len(registry') : registry'[k] = registry[i]
      BY <1>0, <3>1, MovedReorders
    <3>4. \A i, k \in 1..Len(registry') : requestOf'[registry'[i]] = requestOf'[registry'[k]] => i = k
      BY <1>0, <3>2, <3>3, ReorderedKeeps DEF RegistryInv
    <3>5. \A i \in 1..Len(registry') : registry'[i] <= accepted'
      <4>1. \A i \in 1..Len(registry') : \E k \in 1..Len(registry) : registry'[i] = registry[k]
        BY <1>0, <3>2, <3>3, ReorderedKeeps
      <4> QED BY <3>2, <4>1 DEF RegistryInv
    <3>6. ASSUME NEW j \in 1..accepted', ~done'[j] PROVE \E i \in 1..Len(registry') : registry'[i] = j
      <4>1. PICK i \in 1..Len(registry) : registry[i] = j
        BY <3>2, <3>6 DEF RegistryInv
      <4> QED BY <3>3, <4>1
    <3> QED BY <3>2, <3>4, <3>5, <3>6 DEF RegistryInv
  <2>2. ASSUME NEW r \in RequestIds, SubmitNew(r) PROVE RegistryInv'
    <3>1. /\ UNCHANGED <<requestOf, accepted, done, registry>> /\ submitted'.request = r
          /\ \A i \in 1..Len(registry) : requestOf[registry[i]] # r
      BY <2>2 DEF SubmitNew, jobVars
    <3> QED BY <3>1 DEF RegistryInv
  <2>3. CASE SubmitReject
    BY <1>1, <2>3 DEF SubmitReject, jobVars
  <2>4. CASE SubmitRegister
    <3>1. /\ accepted' = accepted + 1 /\ lock = "submit" /\ submitted.job = NoJob
          /\ requestOf' = [requestOf EXCEPT ![accepted + 1] = submitted.request]
          /\ registry' = Append(registry, accepted + 1) /\ submitted'.job = accepted + 1
          /\ UNCHANGED done
      BY <2>4 DEF SubmitRegister
    <3>2. accepted + 1 \in Jobs
      BY <1>0, <3>1 DEF PipelineInv, HandsInv, Jobs
    <3>3. /\ Len(registry') = Len(registry) + 1 /\ Len(registry) \in Nat
          /\ registry'[Len(registry) + 1] = accepted + 1
          /\ \A i \in 1..Len(registry) : registry'[i] = registry[i]
      BY <1>0, <3>1, <3>2
    <3>4. \A i \in 1..Len(registry') : i \in 1..Len(registry) \/ i = Len(registry) + 1
      BY <3>3
    <3>5. \A i \in 1..Len(registry) : /\ registry[i] \in Jobs /\ registry[i] <= accepted
                                      /\ registry[i] # accepted + 1
      BY <1>0 DEF RegistryInv, Jobs
    <3>6. /\ requestOf'[accepted + 1] = submitted.request
          /\ \A i \in 1..Len(registry) : requestOf'[registry[i]] = requestOf[registry[i]]
      BY <3>1, <3>2, <3>5 DEF TypeOK
    <3>7. \A i \in 1..Len(registry) : requestOf'[registry'[i]] # requestOf'[accepted + 1]
      BY <3>1, <3>3, <3>6 DEF RegistryInv
    <3>8. \A i, k \in 1..Len(registry') : requestOf'[registry'[i]] = requestOf'[registry'[k]] => i = k
      BY <3>3, <3>4, <3>6, <3>7 DEF RegistryInv
    <3>9. \A i \in 1..Len(registry') : registry'[i] <= accepted'
      BY <1>0, <3>1, <3>3, <3>4, <3>5 DEF Jobs
    <3>10. ASSUME NEW j \in 1..accepted', ~done'[j] PROVE \E i \in 1..Len(registry') : registry'[i] = j
      <4>1. CASE j = accepted + 1
        BY <3>3, <4>1
      <4>2. CASE j # accepted + 1
        <5>1. j \in 1..accepted
          BY <1>0, <3>1, <4>2
        <5>2. PICK i \in 1..Len(registry) : registry[i] = j
          BY <3>1, <3>10, <5>1 DEF RegistryInv
        <5>3. i \in 1..Len(registry') /\ registry'[i] = j
          BY <3>3, <5>2
        <5> QED BY <5>3
      <4> QED BY <4>1, <4>2
    <3>11. submitted'.job # NoJob
      BY <3>1, <3>2 DEF Jobs, NoJob
    <3> QED BY <3>8, <3>9, <3>10, <3>11 DEF RegistryInv
  <2>5. CASE SubmitPut
    BY <1>1, <2>5 DEF SubmitPut, jobVars
  <2> QED BY <1>2, <2>1, <2>2, <2>3, <2>4, <2>5 DEF Http
<1>3. CASE Trim
  <2>1. PICK p \in 1..Len(registry) : done[registry[p]] /\ registry' = Without(registry, p)
    BY <1>3 DEF Trim, OldestDone
  <2>2. UNCHANGED <<requestOf, accepted, done, lock, submitted>>
    BY <1>3 DEF Trim, jobVars
  <2>3. Reordered(registry, registry') /\ Len(registry') = Len(registry) - 1
    BY <1>0, <2>1, WithoutReorders, WithoutEntry
  <2>4. \A i, k \in 1..Len(registry') : requestOf'[registry'[i]] = requestOf'[registry'[k]] => i = k
    BY <1>0, <2>2, <2>3, ReorderedKeeps DEF RegistryInv
  <2>5. /\ \A i \in 1..Len(registry') : registry'[i] <= accepted'
        /\ lock' = "submit" /\ submitted'.job = NoJob =>
             \A i \in 1..Len(registry') : requestOf'[registry'[i]] # submitted'.request
    BY <1>0, <2>2, <2>3, ReorderedKeeps DEF RegistryInv
  <2>6. ASSUME NEW j \in 1..accepted', ~done'[j] PROVE \E i \in 1..Len(registry') : registry'[i] = j
    <3>1. PICK i \in 1..Len(registry) : registry[i] = j
      BY <2>2, <2>6 DEF RegistryInv
    <3>2. i # p
      BY <2>1, <2>2, <2>6, <3>1
    <3>3. PICK k \in 1..(Len(registry) - 1) : Without(registry, p)[k] = registry[i]
      BY <1>0, <3>2, WithoutEntry
    <3> QED BY <2>1, <2>3, <3>1, <3>3
  <2> QED BY <2>4, <2>5, <2>6 DEF RegistryInv
<1>4. CASE Inference
  BY <1>1, <1>4 DEF Inference, InfLoop, InfGet, InfBegin, InfPrepared, InfFailed, InfOffer, InfPut,
                    InfAbandon, jobVars
<1>5. CASE Geometry
  BY <1>1, <1>5 DEF Geometry, GeoLoop, GeoGet, GeoBegin, GeoSucceed, GeoFailed, GeoFinally,
                    GeoRelease, jobVars
<1>6. CASE Stop
  BY <1>1, <1>6 DEF Stop, StopSet, StopDrainTrigger, StopDrainGeometry, StopMarkTrigger,
                    StopMarkGeometry, jobVars
<1>7. CASE UNCHANGED vars
  BY <1>1, <1>7 DEF vars
<1> QED BY <1>2, <1>3, <1>4, <1>5, <1>6, <1>7 DEF Next

LEMMA LeastNatural ==
  ASSUME NEW D \in SUBSET Nat, D # {}
  PROVE  \E n \in D : \A m \in D : n <= m
<1> DEFINE R == OpToRel(<, Nat)
<1>1. IsWellFoundedOn(R, Nat)
  BY NatLessThanWellFounded, Zenon
<1>2. PICK n \in D : \A m \in D : <<m, n>> \notin R
  <2> HIDE DEF R
  <2> QED BY <1>1, WFMin
<1>3. \A m \in D : ~(m < n)
  BY <1>2 DEF OpToRel
<1> QED BY <1>3

\* No entry that is done leaves nothing to trim, and the other way round.
LEMMA NothingDone ==
  ASSUME TypeOK, ~\E p \in 1..Len(registry) : OldestDone(p)
  PROVE  \A p \in 1..Len(registry) : ~done[registry[p]]
<1> DEFINE D == {p \in 1..Len(registry) : done[registry[p]]}
<1>1. Len(registry) \in Nat
  BY DEF TypeOK
<1>2. SUFFICES ASSUME D # {} PROVE FALSE
  OBVIOUS
<1>3. D \in SUBSET Nat
  BY <1>1
<1>4. PICK p \in D : \A q \in D : p <= q
  <2> HIDE DEF D
  <2> QED BY <1>2, <1>3, LeastNatural
<1>5. \A q \in 1..(p - 1) : q \in 1..Len(registry) /\ ~(p <= q)
  BY <1>1, <1>4
<1>6. OldestDone(p)
  BY <1>4, <1>5 DEF OldestDone
<1> QED BY <1>6

-----------------------------------------------------------------------------
(* The theorems.                                                            *)

THEOREM Pipeline == Spec => [](TypeOK /\ PipelineInv)
<1>1. Init => TypeOK /\ PipelineInv
  BY TypeInit, PipelineInit
<1>2. TypeOK /\ PipelineInv /\ [Next]_vars => TypeOK' /\ PipelineInv'
  BY TypeStep, PipelineStep DEF PipelineInv
<1> QED BY <1>1, <1>2, PTL DEF Spec

\* Every variable of the service keeps its type and both queues their bounds.
THEOREM TypeInvariant == Spec => []TypeOK
BY Pipeline, PTL

\* The counters of /status add up in every state, during and after stop() too.
THEOREM CountersCorrect == Spec => []CountersAddUp
<1>1. Init => CountersAddUp
  BY CountersInit
<1>2. TypeOK /\ PipelineInv /\ CountersAddUp /\ [Next]_vars => CountersAddUp'
  BY CountersStep
<1> QED BY <1>1, <1>2, Pipeline, PTL DEF Spec

\* No outcome is replaced, and no job that is done gets undone.
THEOREM OutcomesStay == Spec => OutcomeFinal
<1>1. TypeOK /\ PipelineInv /\ [Next]_vars =>
        [\A j \in Jobs : (Decided(j) => status'[j] = status[j]) /\ (done[j] => done'[j])]_vars
  <2> SUFFICES ASSUME Effect, TypeOK, PipelineInv
               PROVE  \A j \in Jobs : (Decided(j) => status'[j] = status[j]) /\ (done[j] => done'[j])
    BY StepEffect
  <2>1. CASE KeepsOutcomes
    BY <2>1 DEF Effect, KeepsOutcomes, Decided
  <2>2. CASE AcceptsOne
    BY <2>2 DEF Effect, AcceptsOne, Decided
  <2>3. CASE \E h \in Jobs : Decides(h)
    BY <2>3 DEF Effect, Decides, Decided
  <2> QED BY <2>1, <2>2, <2>3 DEF Effect
<1> QED BY <1>1, Pipeline, PTL DEF Spec, OutcomeFinal

\* latest_result only moves to a request accepted later.
THEOREM LatestMovesForward == Spec => LatestAdvances
<1>1. TypeOK /\ PipelineInv /\ [Next]_vars => [latest' >= latest]_vars
  <2> SUFFICES ASSUME Effect, TypeOK, PipelineInv PROVE latest' >= latest
    BY StepEffect
  <2>1. latest \in Nat /\ Jobs \subseteq Nat
    BY NatItems
  <2> QED BY <2>1 DEF Effect, KeepsOutcomes, AcceptsOne, Decides
<1> QED BY <1>1, Pipeline, PTL DEF Spec, LatestAdvances

\* Until stop() every accepted request without an outcome is in a queue, with
\* a worker, or in submit()'s hands.
THEOREM NothingLost == Spec => []NotLost
<1>1. Init => KeptInv
  BY DEF Init, KeptInv, NotLost, Idle, NoJob, stopping
<1>2. TypeOK /\ PipelineInv /\ KeptInv /\ [Next]_vars => KeptInv'
  BY KeptStep
<1>3. KeptInv => NotLost
  BY DEF KeptInv
<1> QED BY <1>1, <1>2, <1>3, Pipeline, PTL DEF Spec

\* At most one entry per request id, and every unfinished job has its entry.
THEOREM OneEntryPerRequest == Spec => []OneLiveJob
<1>1. Init => RegistryInv
  BY DEF Init, RegistryInv
<1>2. TypeOK /\ PipelineInv /\ RegistryInv /\ [Next]_vars => RegistryInv'
  BY RegistryStep
<1>3. TypeOK /\ RegistryInv => OneLiveJob
  <2> SUFFICES ASSUME TypeOK, RegistryInv PROVE OneLiveJob
    OBVIOUS
  <2>1. \A j \in 1..accepted : ~done[j] => j \in Items(registry)
    BY DEF RegistryInv, Items, Sentinel
  <2> QED BY <2>1 DEF RegistryInv, OneLiveJob
<1> QED BY <1>1, <1>2, <1>3, Pipeline, PTL DEF Spec

\* The registry passes its capacity only with entries that are on their way.
THEOREM RegistryKeepsItsBound == Spec => RegistryBounded
<1>1. TypeOK /\ PipelineInv /\ [Next]_vars =>
        [Len(registry') > Len(registry) /\ Len(registry') > RegistryCap =>
           \A p \in 1..Len(registry') : ~done[registry'[p]]]_vars
  <2> SUFFICES ASSUME TypeOK, PipelineInv, [Next]_vars,
                      Len(registry') > Len(registry), Len(registry') > RegistryCap
               PROVE  \A p \in 1..Len(registry') : ~done[registry'[p]]
    OBVIOUS
  <2>0. registry \in Seq(Jobs) /\ Len(registry) \in Nat /\ RegistryCap \in Nat
    BY ServiceAssumption DEF TypeOK
  <2>1. CASE UNCHANGED registry
    BY <2>0, <2>1
  <2>2. CASE SubmitRegister
    <3>1. /\ accepted \in Nat /\ MaxJobs \in Nat /\ accepted + 1 \in Jobs /\ ~MustTrim
          /\ registry' = Append(registry, accepted + 1)
      BY <2>2, ServiceAssumption DEF SubmitRegister, TypeOK, PipelineInv, HandsInv, Jobs
    <3>2. /\ Len(registry') = Len(registry) + 1 /\ registry'[Len(registry) + 1] = accepted + 1
          /\ \A i \in 1..Len(registry) : registry'[i] = registry[i]
      BY <2>0, <3>1
    <3>3. \A p \in 1..Len(registry) : ~done[registry[p]]
      BY <2>0, <3>1, <3>2, NothingDone DEF MustTrim
    <3>4. ~done[accepted + 1]
      BY <3>1 DEF PipelineInv, OpenInv, Decided
    <3>5. \A p \in 1..Len(registry') : p \in 1..Len(registry) \/ p = Len(registry) + 1
      BY <2>0, <3>2
    <3> QED BY <3>2, <3>3, <3>4, <3>5
  <2>3. ASSUME NEW r \in RequestIds, Replay(r) PROVE FALSE
    BY <2>0, <2>3, MovedReorders DEF Replay
  <2>4. CASE Trim
    <3>1. PICK p \in 1..Len(registry) : registry' = Without(registry, p)
      BY <2>4 DEF Trim
    <3> QED BY <2>0, <3>1, WithoutEntry
  <2>5. CASE SubmitReject \/ SubmitPut \/ \E r \in RequestIds : SubmitNew(r)
    BY <2>1, <2>5 DEF SubmitReject, SubmitPut, SubmitNew
  <2>6. CASE Inference
    BY <2>1, <2>6 DEF Inference, InfLoop, InfGet, InfBegin, InfPrepared, InfFailed, InfOffer,
                      InfPut, InfAbandon
  <2>7. CASE Geometry
    BY <2>1, <2>7 DEF Geometry, GeoLoop, GeoGet, GeoBegin, GeoSucceed, GeoFailed, GeoFinally,
                      GeoRelease
  <2>8. CASE Stop
    BY <2>1, <2>8 DEF Stop, StopSet, StopDrainTrigger, StopDrainGeometry, StopMarkTrigger,
                      StopMarkGeometry
  <2>9. CASE UNCHANGED vars
    BY <2>1, <2>9 DEF vars
  <2> QED BY <2>2, <2>3, <2>4, <2>5, <2>6, <2>7, <2>8, <2>9 DEF Next, Http
<1> QED BY <1>1, Pipeline, PTL DEF Spec, RegistryBounded
=============================================================================
