-------------------------- MODULE StreamWorkerProof ---------------------------
(***************************************************************************)
(* Proofs about StreamWorker for any number of workers that ask for        *)
(* frames, any threshold and any number of outages and calls.              *)
(***************************************************************************)
EXTENDS StreamWorker, TLAPS

(***************************************************************************)
(* Nothing frozen: the time written on a frame is never more than one      *)
(* stale timeout younger than its capture, wherever the frame is kept.     *)
(***************************************************************************)
Live(f) == f \in Frame /\ f.shot <= f.stamp + Stale

LiveInv ==
  /\ shm.age \in 0..Oldest
  /\ Live(latest) /\ Live(jpeg)
  /\ got \in [Threads -> Frame]
  /\ \A p \in Threads : Live(got[p])

LEMMA NoneLives == Live(NONE)
  BY DEF Live, NONE, Frame, Oldest, Stale

LEMMA AgedLives == ASSUME NEW f, Live(f) PROVE Live(Aged(f))
<1>1. f.shot \in 0..Oldest /\ f.stamp \in 0..Oldest /\ f.shot <= f.stamp + Stale
  BY DEF Live, Frame
<1>2. Older(f.shot) \in 0..Oldest /\ Older(f.stamp) \in 0..Oldest
      /\ Older(f.shot) <= Older(f.stamp) + Stale
  BY <1>1 DEF Older, Oldest, Stale
<1> QED BY <1>2 DEF Live, Aged, Frame

LEMMA MadeLives ==
  ASSUME NEW n \in 0..Oldest, NEW m \in 0..Oldest, n <= m + Stale
  PROVE  Live([shot |-> n, stamp |-> m])
  BY DEF Live, Frame

LEMMA OneReplaced ==
  ASSUME LiveInv, NEW p \in Threads, NEW f, Live(f), got' = [got EXCEPT ![p] = f]
  PROVE  got' \in [Threads -> Frame] /\ \A q \in Threads : Live(got'[q])
  BY DEF LiveInv, Live

LEMMA EnvironmentLives == ASSUME LiveInv, Environment PROVE LiveInv'
<1> USE DEF LiveInv, frames, local, Live
<1>1. CASE BridgeStart
  BY <1>1 DEF BridgeStart, Oldest, Stale
<1>2. CASE BridgeReady \/ MarkOffline
  BY <1>2 DEF BridgeReady, MarkOffline
<1>3. CASE Publish
  BY <1>3 DEF Publish, Oldest, Stale
<1>4. CASE CameraBack \/ Outage
  BY <1>4 DEF CameraBack, Outage
<1>5. CASE Tick
  <2>1. Live(latest') /\ Live(jpeg')
    BY <1>5, AgedLives DEF Tick
  <2>2. shm'.age \in 0..Oldest
    BY <1>5 DEF Tick, Older, Oldest, Stale
  <2> QED BY <1>5, <2>1, <2>2 DEF Tick
<1> QED BY <1>1, <1>2, <1>3, <1>4, <1>5 DEF Environment

LEMMA ReadLives == ASSUME LiveInv, NEW p \in Threads, Read(p) PROVE LiveInv'
<1> USE DEF LiveInv, envVars, frames
<1>1. CASE OpenSource(p)
  BY <1>1 DEF OpenSource, OpenSharedMemory, Live
<1>2. CASE MapForRead(p)
  BY <1>2 DEF MapForRead, OpenSharedMemory, Live
<1>3. CASE ReadShared(p)
  <2>1. CASE UNCHANGED <<shm, got, jpeg>>
    BY <1>3, <2>1 DEF ReadShared, Live
  <2>2. CASE /\ shm' = [state |-> shm.state, seq |-> "read", age |-> shm.age]
             /\ got' = [got EXCEPT ![p] = [shot |-> shm.age, stamp |-> shm.age]]
             /\ jpeg' = NONE
    <3>1. shm.age <= shm.age + Stale
      BY DEF Oldest, Stale
    <3>2. got' \in [Threads -> Frame] /\ \A q \in Threads : Live(got'[q])
      BY <2>2, <3>1, MadeLives, OneReplaced
    <3>3. Live(latest') /\ Live(jpeg') /\ shm'.age \in 0..Oldest
      BY <1>3, <2>2, NoneLives DEF ReadShared
    <3> QED BY <3>2, <3>3
  <2> QED BY <1>3, <2>1, <2>2 DEF ReadShared
<1>4. CASE ReadFallback(p)
  <2>1. CASE UNCHANGED <<jpeg, got>>
    BY <1>4, <2>1 DEF ReadFallback, Live
  <2>2. CASE /\ shm.age <= Stale
             /\ jpeg' = [shot |-> shm.age, stamp |-> 0]
             /\ got' = [got EXCEPT ![p] = [shot |-> shm.age, stamp |-> 0]]
    <3>1. Live([shot |-> shm.age, stamp |-> 0])
      BY <2>2, MadeLives DEF Oldest, Stale
    <3>2. got' \in [Threads -> Frame] /\ \A q \in Threads : Live(got'[q])
      BY <2>2, <3>1, OneReplaced
    <3>3. Live(latest') /\ Live(jpeg') /\ shm'.age \in 0..Oldest
      BY <1>4, <2>2, <3>1 DEF ReadFallback
    <3> QED BY <3>2, <3>3
  <2> QED BY <1>4, <2>1, <2>2 DEF ReadFallback
<1>5. CASE Fault(p)
  <2>1. got' = [q \in Threads |-> NONE]
    BY <1>5 DEF Fault
  <2>2. got' \in [Threads -> Frame] /\ \A q \in Threads : Live(got'[q])
    BY <2>1, NoneLives DEF Live
  <2> QED BY <1>5, <2>2, NoneLives DEF Fault
<1> QED BY <1>1, <1>2, <1>3, <1>4, <1>5 DEF Read

LEMMA CameraLives == ASSUME LiveInv, Camera PROVE LiveInv'
<1> USE DEF LiveInv, envVars, frames, Threads
<1>1. CASE Read("camera")
  BY <1>1, ReadLives
<1>2. CASE CameraTop \/ CameraFailed
  BY <1>2 DEF CameraTop, CameraFailed, Live
<1>3. CASE CameraGot
  <2>1. got' \in [Threads -> Frame] /\ \A q \in Threads : Live(got'[q])
    BY <1>3, NoneLives, OneReplaced DEF CameraGot
  <2> QED BY <1>3, <2>1 DEF CameraGot
<1> QED BY <1>1, <1>2, <1>3 DEF Camera

LEMMA WorkerLives ==
  ASSUME LiveInv, NEW p \in Workers,
         Worker(p) \/ NextFrame(p) \/ StartPreview(p) \/ StopPreview(p)
  PROVE  LiveInv'
<1> USE DEF LiveInv, envVars, frames, Threads
<1>1. CASE Read(p)
  BY <1>1, ReadLives
<1>2. CASE UpdateLatest(p)
  <2>1. got' \in [Threads -> Frame] /\ \A q \in Threads : Live(got'[q])
    BY <1>2, NoneLives, OneReplaced DEF UpdateLatest
  <2> QED BY <1>2, <2>1 DEF UpdateLatest
<1>3. CASE GiveUp(p) \/ Launch(p) \/ StopFlag(p) \/ Join(p)
  BY <1>3 DEF GiveUp, Launch, StopFlag, Join, Live
<1>4. CASE NextFrame(p) \/ StartPreview(p) \/ StopPreview(p)
  BY <1>4 DEF NextFrame, StartPreview, StopPreview, Live
<1> QED BY <1>1, <1>2, <1>3, <1>4 DEF Worker

LEMMA StepLives == ASSUME LiveInv, [Next]_vars PROVE LiveInv'
<1>1. CASE UNCHANGED vars
  BY <1>1 DEF vars, LiveInv, envVars, frames, local, Live
<1> QED BY <1>1, EnvironmentLives, CameraLives, WorkerLives DEF Next

(* What the page or an inference is given from a cache was captured within *)
(* two stale timeouts, in every run and with any number of workers.        *)
THEOREM NothingFrozenServed == Spec => []NothingFrozen
<1>1. Init => LiveInv
  <2> SUFFICES ASSUME Init PROVE LiveInv
    OBVIOUS
  <2>1. got \in [Threads -> Frame] /\ \A p \in Threads : got[p] = NONE
    BY NoneLives DEF Init, Live
  <2>2. shm.age \in 0..Oldest
    BY DEF Init, Oldest, Stale
  <2> QED BY <2>1, <2>2, NoneLives DEF Init, LiveInv
<1>2. LiveInv /\ [Next]_vars => LiveInv'
  BY StepLives
<1>3. LiveInv => NothingFrozen
  <2> SUFFICES ASSUME LiveInv,
                      NEW f \in Snapshot \cup (IF running /\ IsFresh(latest) THEN {latest} ELSE {})
               PROVE  f.shot <= 2 * Stale
    BY DEF NothingFrozen
  <2>1. \/ f = latest /\ IsFresh(latest)
        \/ f = jpeg /\ IsFresh(jpeg)
        \/ shm.age <= Stale /\ f = [shot |-> shm.age, stamp |-> 0]
    BY DEF Snapshot, SnapshotCached
  <2>2. CASE f = latest /\ IsFresh(latest)
    BY <2>2 DEF LiveInv, Live, Frame, IsFresh, Oldest, Stale
  <2>3. CASE f = jpeg /\ IsFresh(jpeg)
    BY <2>3 DEF LiveInv, Live, Frame, IsFresh, Oldest, Stale
  <2>4. CASE shm.age <= Stale /\ f = [shot |-> shm.age, stamp |-> 0]
    BY <2>4 DEF LiveInv, Oldest, Stale
  <2> QED BY <2>1, <2>2, <2>3, <2>4
<1> QED BY <1>1, <1>2, <1>3, PTL DEF Spec

(***************************************************************************)
(* The preview and its thread, for one worker that starts and stops it:    *)
(* where it stands in its call says how far the two are apart.             *)
(***************************************************************************)
OneControl == \A a, b \in Controls : a = b

Reading == {"open", "map", "look", "fallback", "got", "failed", "unopened"}
Quiet == \A c \in Controls : pc[c] = "idle"

Places ==
  /\ pc = [q \in Threads |-> pc[q]]
  /\ \A c \in Controls : pc[c] \in Reading \cup {"idle", "launch", "flag", "join"}
  /\ \A p \in Inferers : pc[p] \in Reading \cup {"idle"}
  /\ pc["camera"] \in Reading \cup {"idle", "top"}

ControlInv ==
  /\ Places
  /\ thread \in {"none", "alive", "ended"}
  /\ thread = "alive" <=> pc["camera"] # "idle"
  /\ Quiet => /\ running <=> thread = "alive"
              /\ thread # "ended"
              /\ thread = "alive" => ~stopping
  /\ \A c \in Controls :
       /\ pc[c] \in Reading \cup {"launch"} => running /\ thread = "none"
       /\ pc[c] = "flag" => ~running /\ thread = "alive" /\ ~stopping
       /\ pc[c] = "join" => ~running /\ stopping /\ thread \in {"alive", "ended"}
  /\ running \in BOOLEAN /\ stopping \in BOOLEAN

LEMMA Disjoint ==
  /\ "camera" \in Threads /\ "camera" \notin Workers
  /\ Controls \cap Inferers = {} /\ Workers = Controls \cup Inferers
  /\ Workers \subseteq Threads
  BY StreamAssumption DEF Threads, Workers

LEMMA GotoOther ==
  ASSUME Places, NEW p \in Threads, NEW label, Goto(p, label)
  PROVE  /\ pc' = [q \in Threads |-> pc'[q]] /\ pc'[p] = label
         /\ \A q \in Threads \ {p} : pc'[q] = pc[q]
  BY DEF Goto, Places

LEMMA ReadMoves ==
  ASSUME Places, NEW p \in Threads, Read(p), ~Fault(p)
  PROVE  /\ pc[p] \in Reading
         /\ \E label \in Reading : Goto(p, label)
         /\ UNCHANGED preview
<1> USE DEF Reading
<1>1. CASE OpenSource(p)
  BY <1>1 DEF OpenSource
<1>2. CASE MapForRead(p)
  BY <1>2 DEF MapForRead, NoFrame
<1>3. CASE ReadShared(p)
  BY <1>3 DEF ReadShared, NoFrame
<1>4. CASE ReadFallback(p)
  BY <1>4 DEF ReadFallback
<1> QED BY <1>1, <1>2, <1>3, <1>4 DEF Read

\* A move from one reading place to another changes nothing of the invariant.
LEMMA ReadingStays ==
  ASSUME ControlInv, NEW p \in Threads, NEW label \in Reading, Goto(p, label),
         pc[p] \in Reading, UNCHANGED preview
  PROVE  ControlInv'
<1>1. /\ pc' = [q \in Threads |-> pc'[q]] /\ pc'[p] = label
      /\ \A q \in Threads \ {p} : pc'[q] = pc[q]
  BY GotoOther DEF ControlInv, Reading
<1> USE Disjoint, <1>1 DEF ControlInv, preview
<1>2. Places'
  BY DEF Places
<1>3. Quiet' => Quiet
  BY DEF Quiet, Reading
<1>4. \A c \in Controls : pc'[c] = pc[c] \/ (pc[c] \in Reading /\ pc'[c] \in Reading)
  OBVIOUS
<1>5. pc'["camera"] # "idle" <=> pc["camera"] # "idle"
  BY DEF Reading
<1> QED BY <1>2, <1>3, <1>4, <1>5 DEF Reading

LEMMA FaultResets == ASSUME ControlInv, NEW p \in Threads, Fault(p) PROVE ControlInv'
<1>1. /\ pc' = [q \in Threads |-> "idle"]
      /\ running' = FALSE /\ stopping' = FALSE /\ thread' = "none"
  BY DEF Fault
<1> QED BY <1>1, Disjoint DEF ControlInv, Places, Quiet, Reading

LEMMA ReadControls == ASSUME ControlInv, NEW p \in Threads, Read(p) PROVE ControlInv'
  BY FaultResets, ReadMoves, ReadingStays DEF ControlInv

LEMMA CameraControls == ASSUME ControlInv, Camera PROVE ControlInv'
<1> USE Disjoint
<1>1. CASE Read("camera")
  BY <1>1, ReadControls
<1>2. CASE CameraTop
  <2>1. PICK label \in {"idle", "map", "open"} :
          /\ Goto("camera", label)
          /\ label = "idle" <=> stopping
          /\ thread' = IF stopping THEN "ended" ELSE thread
    BY <1>2 DEF CameraTop, ControlInv
  <2>2. /\ pc' = [q \in Threads |-> pc'[q]] /\ pc'["camera"] = label
        /\ \A q \in Threads \ {"camera"} : pc'[q] = pc[q]
    BY <2>1, GotoOther DEF ControlInv
  <2>3. UNCHANGED <<running, stopping>> /\ pc["camera"] = "top"
    BY <1>2 DEF CameraTop
  <2>4. thread = "alive"
    BY <2>3 DEF ControlInv
  <2>5. Places'
    BY <2>2 DEF ControlInv, Places, Reading
  <2> QED BY <2>1, <2>2, <2>3, <2>4, <2>5 DEF ControlInv, Quiet
<1>3. CASE CameraGot \/ CameraFailed
  <2>1. Goto("camera", "top") /\ UNCHANGED preview /\ pc["camera"] # "idle"
    BY <1>3 DEF CameraGot, CameraFailed
  <2>2. /\ pc' = [q \in Threads |-> pc'[q]] /\ pc'["camera"] = "top"
        /\ \A q \in Threads \ {"camera"} : pc'[q] = pc[q]
    BY <2>1, GotoOther DEF ControlInv
  <2>3. Places'
    BY <2>2 DEF ControlInv, Places
  <2> QED BY <2>1, <2>2, <2>3 DEF ControlInv, Quiet, preview
<1> QED BY <1>1, <1>2, <1>3 DEF Camera

LEMMA InfererControls ==
  ASSUME ControlInv, NEW p \in Inferers,
         Worker(p) \/ NextFrame(p) \/ StartPreview(p) \/ StopPreview(p)
  PROVE  ControlInv'
<1> USE Disjoint
<1>1. CASE Read(p)
  BY <1>1, ReadControls
<1>2. CASE UpdateLatest(p) \/ GiveUp(p) \/ NextFrame(p)
  <2>1. UNCHANGED preview
        /\ (UNCHANGED pc \/ Goto(p, "idle") \/ Goto(p, "open"))
    BY <1>2 DEF UpdateLatest, GiveUp, NextFrame
  <2>2. CASE UNCHANGED pc
    BY <2>1, <2>2 DEF ControlInv, Places, Quiet, preview
  <2>3. ASSUME NEW label \in {"idle", "open"}, Goto(p, label) PROVE ControlInv'
    <3>1. /\ pc' = [q \in Threads |-> pc'[q]] /\ pc'[p] = label
          /\ \A q \in Threads \ {p} : pc'[q] = pc[q]
      BY <2>3, GotoOther DEF ControlInv
    <3>2. Places'
      BY <3>1 DEF ControlInv, Places, Reading
    <3>3. (\A c \in Controls : pc'[c] = pc[c]) /\ pc'["camera"] = pc["camera"]
      BY <3>1
    <3> QED BY <2>1, <3>2, <3>3 DEF ControlInv, Quiet, preview
  <2> QED BY <2>1, <2>2, <2>3
<1>3. CASE Launch(p) \/ StopFlag(p) \/ Join(p)
  BY <1>3 DEF Launch, StopFlag, Join, ControlInv, Places, Reading
<1>4. CASE StartPreview(p) \/ StopPreview(p)
  BY <1>4 DEF StartPreview, StopPreview
<1> QED BY <1>1, <1>2, <1>3, <1>4 DEF Worker

LEMMA ControlControls ==
  ASSUME OneControl, ControlInv, NEW p \in Controls,
         Worker(p) \/ NextFrame(p) \/ StartPreview(p) \/ StopPreview(p)
  PROVE  ControlInv'
<1> USE Disjoint
<1>0. Controls = {p}
  BY DEF OneControl
<1>a. ASSUME NEW label \in Reading \cup {"idle", "launch", "flag", "join"}, Goto(p, label)
      PROVE  /\ Places' /\ pc'[p] = label /\ pc'["camera"] = pc["camera"]
             /\ Quiet' <=> label = "idle"
  <2>1. /\ pc' = [q \in Threads |-> pc'[q]] /\ pc'[p] = label
        /\ \A q \in Threads \ {p} : pc'[q] = pc[q]
    BY <1>a, GotoOther DEF ControlInv, Reading
  <2> QED BY <1>0, <2>1 DEF ControlInv, Places, Quiet
<1>1. CASE Read(p)
  BY <1>1, ReadControls
<1>2. CASE UpdateLatest(p) \/ GiveUp(p)
  <2>1. Goto(p, "launch") /\ UNCHANGED preview /\ pc[p] \in Reading
    BY <1>2 DEF UpdateLatest, GiveUp, Reading
  <2> QED BY <1>0, <1>a, <2>1 DEF ControlInv, Quiet, Reading, preview
<1>3. CASE Launch(p)
  <2>1. /\ pc' = [pc EXCEPT ![p] = "idle", !["camera"] = "top"]
        /\ stopping' = FALSE /\ thread' = "alive" /\ running' = running /\ pc[p] = "launch"
    BY <1>3 DEF Launch
  <2>2. /\ pc' = [q \in Threads |-> pc'[q]] /\ pc'[p] = "idle" /\ pc'["camera"] = "top"
        /\ \A q \in Threads \ {p, "camera"} : pc'[q] = pc[q]
    BY <2>1 DEF ControlInv, Places
  <2>3. running
    BY <2>1 DEF ControlInv
  <2>4. Places'
    BY <1>0, <2>2 DEF ControlInv, Places
  <2> QED BY <1>0, <2>1, <2>2, <2>3, <2>4 DEF ControlInv, Quiet, Reading
<1>4. CASE StopFlag(p)
  <2>1. /\ pc[p] = "flag" /\ stopping' = TRUE /\ Goto(p, "join")
        /\ UNCHANGED <<running, thread>>
    BY <1>4 DEF StopFlag
  <2> QED BY <1>0, <1>a, <2>1 DEF ControlInv, Reading
<1>5. CASE Join(p)
  <2>1. /\ pc[p] = "join" /\ thread' = "none" /\ thread # "alive" /\ Goto(p, "idle")
        /\ UNCHANGED <<running, stopping>>
    BY <1>5 DEF Join
  <2> QED BY <1>0, <1>a, <2>1 DEF ControlInv, Reading
<1>6. CASE NextFrame(p)
  BY <1>6 DEF NextFrame
<1>7. CASE StartPreview(p)
  <2>1. pc[p] = "idle" /\ running' = TRUE /\ UNCHANGED <<stopping, thread>>
    BY <1>7 DEF StartPreview, Serve
  <2>2. CASE running
    BY <1>7, <2>1, <2>2 DEF StartPreview, ControlInv, Places, Quiet
  <2>3. CASE ~running
    <3>1. Goto(p, "open")
      BY <1>7, <2>3 DEF StartPreview
    <3>2. thread = "none"
      BY <1>0, <2>1, <2>3 DEF ControlInv, Quiet, Places
    <3> QED BY <1>0, <1>a, <2>1, <3>1, <3>2 DEF ControlInv, Reading
  <2> QED BY <2>2, <2>3
<1>8. CASE StopPreview(p)
  <2>1. pc[p] = "idle" /\ running' = FALSE /\ UNCHANGED <<stopping, thread>>
    BY <1>8 DEF StopPreview, Serve
  <2>2. CASE ~running /\ thread = "none"
    BY <1>8, <2>1, <2>2 DEF StopPreview, ControlInv, Places, Quiet
  <2>3. CASE ~(~running /\ thread = "none")
    <3>1. Goto(p, "flag")
      BY <1>8, <2>3 DEF StopPreview
    <3>2. thread = "alive" /\ ~stopping
      BY <1>0, <2>1, <2>3 DEF ControlInv, Quiet
    <3> QED BY <1>0, <1>a, <2>1, <3>1, <3>2 DEF ControlInv, Reading
  <2> QED BY <2>2, <2>3
<1> QED BY <1>1, <1>2, <1>3, <1>4, <1>5, <1>6, <1>7, <1>8 DEF Worker

LEMMA StepControls == ASSUME OneControl, ControlInv, [Next]_vars PROVE ControlInv'
<1>1. CASE Environment
  <2>1. UNCHANGED <<preview, pc>>
    BY <1>1 DEF Environment, BridgeStart, BridgeReady, Publish, CameraBack, Outage,
                MarkOffline, Tick, local
  <2> QED BY <2>1 DEF ControlInv, Places, Quiet, preview
<1>2. CASE UNCHANGED vars
  BY <1>2 DEF vars, ControlInv, Places, Quiet, preview, local
<1> QED BY <1>1, <1>2, CameraControls, InfererControls, ControlControls, Disjoint DEF Next

(* With one worker that starts and stops it, a preview is on between its   *)
(* calls exactly when its camera thread runs, whatever the bridge does.    *)
THEOREM PreviewOfOneControl ==
  ASSUME OneControl
  PROVE  Spec => []PreviewHasThread
<1>1. Init => ControlInv
  BY Disjoint DEF Init, ControlInv, Places, Quiet, Reading
<1>2. ControlInv /\ [Next]_vars => ControlInv'
  BY StepControls
<1>3. ControlInv => PreviewHasThread
  BY DEF ControlInv, Quiet, PreviewHasThread
<1> QED BY <1>1, <1>2, <1>3, PTL DEF Spec
=============================================================================
