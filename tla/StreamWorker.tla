----------------------------- MODULE StreamWorker -----------------------------
(***************************************************************************)
(* The frame source of the C++ Runtime for an Orbbec camera: a camera      *)
(* thread that start_preview launches and stop_preview joins, and the      *)
(* HTTP workers that call next_frame.  All of them read the bridge's       *)
(* shared memory through one mapping that no lock protects, and fall back  *)
(* to the bridge's HTTP snapshot.                                          *)
(*                                                                         *)
(* A frame is its age in ticks, in two parts: "shot" counts from its       *)
(* capture, "stamp" from the time the code wrote on it, which for a        *)
(* snapshot is the time it arrived.  One tick is the stale timeout of both *)
(* programs.  Torn copies are the subject of FrameReaders: here a copy     *)
(* that counts is one step.  The Runtime starts again when it touches      *)
(* memory that is not mapped (Restart=always of its service).              *)
(***************************************************************************)
EXTENDS Naturals

CONSTANTS Controls,     \* HTTP workers that start and stop the preview
          Inferers,     \* HTTP workers that ask for a frame
          Fallback,     \* shared_memory_fallback_http
          Threshold,    \* reconnect_failure_threshold
          MaxOutages,   \* bound: how often the bridge or its camera fails
          MaxRequests   \* bound: calls served by the HTTP workers

ASSUME StreamAssumption == /\ Controls \cap Inferers = {}
                           /\ "camera" \notin Controls \cup Inferers
                           /\ Fallback \in BOOLEAN
                           /\ Threshold \in Nat \ {0}
                           /\ MaxOutages \in Nat /\ MaxRequests \in Nat

VARIABLES bridge,    \* the bridge process: up or not
          camera,    \* its camera delivers
          shm,       \* state and sequence in the header, age of the frame
          running,   \* preview_running_
          stopping,  \* stop_thread_
          thread,    \* camera_thread_: none, joinable while it runs, or ended
          opened,    \* opened_
          mapped,    \* shared_memory_mapping_ # nullptr
          failures,  \* consecutive_failures of the camera thread
          latest,    \* latest_image_
          jpeg,      \* latest_jpeg_
          pc, got,   \* what each thread does next; the frame it holds
          outages, requests

Workers == Controls \cup Inferers
Threads == Workers \cup {"camera"}

envVars  == <<bridge, camera, shm, outages>>
preview  == <<running, stopping, thread>>
source   == <<opened, mapped, failures>>
frames   == <<latest, jpeg>>
local    == <<pc, got>>
vars     == <<envVars, preview, source, frames, local, requests>>

Stale   == 1                      \* ticks a frame stays usable
Oldest  == 2 * Stale + 1
NONE    == [shot |-> Oldest, stamp |-> Oldest]
Frame   == [shot: 0..Oldest, stamp: 0..Oldest]
Older(n) == IF n < Oldest THEN n + 1 ELSE n
Aged(f) == [shot |-> Older(f.shot), stamp |-> Older(f.stamp)]

\* Mutant: any frame there is will do.
IsFreshEver(f) == f # NONE

\* frame_is_fresh_locked
IsFresh(f) == f.stamp <= Stale

TypeOK == /\ bridge \in BOOLEAN /\ camera \in BOOLEAN
          /\ shm \in [state: {"absent", "invalid", "offline", "running"},
                      seq: {"zero", "read", "new"}, age: 0..Oldest]
          /\ running \in BOOLEAN /\ stopping \in BOOLEAN /\ opened \in BOOLEAN
          /\ mapped \in BOOLEAN
          /\ thread \in {"none", "alive", "ended"}
          /\ failures \in 0..Threshold
          /\ latest \in Frame /\ jpeg \in Frame
          /\ pc \in [Threads -> {"idle", "open", "map", "look", "fallback", "got",
                                 "failed", "unopened", "top", "launch", "flag", "join"}]
          /\ got \in [Threads -> Frame]
          /\ outages \in 0..MaxOutages /\ requests \in 0..MaxRequests

Init == /\ bridge = FALSE /\ camera = FALSE
        /\ shm = [state |-> "absent", seq |-> "zero", age |-> Oldest]
        /\ running = FALSE /\ stopping = FALSE /\ thread = "none"
        /\ opened = TRUE /\ mapped = FALSE /\ failures = 0
        /\ latest = NONE /\ jpeg = NONE
        /\ pc = [p \in Threads |-> "idle"]
        /\ got = [p \in Threads |-> NONE]
        /\ outages = 0 /\ requests = 0

-----------------------------------------------------------------------------
(* The bridge and its camera, as far as the Runtime can see.               *)

BridgeStart == /\ ~bridge
               /\ bridge' = TRUE /\ camera' = TRUE
               /\ shm' = [state |-> "invalid", seq |-> "zero", age |-> Oldest]
               /\ UNCHANGED <<outages, preview, source, frames, local, requests>>

BridgeReady == /\ bridge /\ shm.state = "invalid"
               /\ shm' = [state |-> "offline", seq |-> shm.seq, age |-> shm.age]
               /\ UNCHANGED <<bridge, camera, outages, preview, source, frames, local, requests>>

Publish == /\ bridge /\ camera /\ shm.state \in {"offline", "running"}
           /\ shm' = [state |-> "running", seq |-> "new", age |-> 0]
           /\ UNCHANGED <<bridge, camera, outages, preview, source, frames, local, requests>>

CameraBack == /\ bridge /\ ~camera
              /\ camera' = TRUE
              /\ UNCHANGED <<bridge, shm, outages, preview, source, frames, local, requests>>

\* The camera goes silent, or the watchdog kills the bridge: the header stays as
\* it is, until a bridge that is alive finds its frames stale.
Outage == /\ bridge /\ outages < MaxOutages /\ outages' = outages + 1
          /\ camera' = FALSE /\ bridge' \in BOOLEAN
          /\ UNCHANGED <<shm, preview, source, frames, local, requests>>

MarkOffline == /\ bridge /\ shm.state = "running" /\ shm.age > Stale
               /\ shm' = [state |-> "offline", seq |-> shm.seq, age |-> shm.age]
               /\ UNCHANGED <<bridge, camera, outages, preview, source, frames, local, requests>>

\* Frames come, and a frame read is stored, many times in a stale timeout.
Tick == /\ bridge /\ camera => shm.age = 0
        /\ \A p \in Threads : pc[p] # "got"
        /\ shm' = [state |-> shm.state, seq |-> shm.seq, age |-> Older(shm.age)]
        /\ latest' = Aged(latest) /\ jpeg' = Aged(jpeg)
        /\ UNCHANGED <<bridge, camera, outages, preview, source, local, requests>>

Environment == \/ BridgeStart \/ BridgeReady \/ Publish \/ CameraBack \/ Outage
               \/ MarkOffline \/ Tick

-----------------------------------------------------------------------------
(* Opening and reading, by whichever thread.                               *)

Goto(p, label) == pc' = [pc EXCEPT ![p] = label]

\* open_shared_memory: it maps a valid header and forgets the sequence read last.
OpenSharedMemory ==
  \/ mapped /\ UNCHANGED <<mapped, opened, shm>>
  \/ /\ ~mapped /\ shm.state \in {"offline", "running"}
     /\ mapped' = TRUE /\ opened' = TRUE
     /\ shm' = [state |-> shm.state, seq |-> IF shm.seq = "zero" THEN "zero" ELSE "new",
                 age |-> shm.age]

Unmappable == ~mapped /\ shm.state \in {"absent", "invalid"}

\* open_source, with the bridge's /health as the second choice.
OpenSource(p) ==
  /\ pc[p] = "open"
  /\ \/ OpenSharedMemory /\ Goto(p, "map")
     \/ /\ Unmappable
        /\ opened' = IF Fallback THEN bridge ELSE opened
        /\ Goto(p, IF Fallback /\ bridge THEN "map" ELSE "unopened")
        /\ UNCHANGED <<mapped, shm>>
  /\ UNCHANGED <<bridge, camera, outages, preview, failures, frames, got, requests>>

\* The shared memory gives no frame: the HTTP snapshot may.
NoFrame(p) == Goto(p, IF Fallback THEN "fallback" ELSE "failed")

\* read_shared_memory_frame opens first, whatever open_source did.
MapForRead(p) ==
  /\ pc[p] = "map"
  /\ \/ OpenSharedMemory /\ Goto(p, "look")
     \/ Unmappable /\ NoFrame(p) /\ UNCHANGED <<mapped, opened, shm>>
  /\ UNCHANGED <<bridge, camera, outages, preview, failures, frames, got, requests>>

\* A stop, a header that is not valid or not running, no new sequence until the
\* deadline, or a frame that is too old.
LoopEnds == stopping \/ shm.state # "running" \/ shm.seq # "new" \/ shm.age > Stale

\* One turn of the read loop: it fails, or copies the frame and with a snapshot
\* cached during an outage drops that one; otherwise it waits.
ReadShared(p) ==
  /\ pc[p] = "look" /\ mapped
  /\ \/ /\ LoopEnds /\ NoFrame(p)
        /\ mapped' = (stopping \/ shm.state # "invalid")
        /\ UNCHANGED <<shm, got, jpeg>>
     \/ /\ ~stopping /\ shm.state = "running" /\ shm.seq = "new" /\ shm.age <= Stale
        /\ shm' = [state |-> shm.state, seq |-> "read", age |-> shm.age]
        /\ got' = [got EXCEPT ![p] = [shot |-> shm.age, stamp |-> shm.age]]
        /\ jpeg' = NONE
        /\ Goto(p, "got")
        /\ UNCHANGED mapped
  /\ UNCHANGED <<bridge, camera, outages, preview, opened, failures, latest, requests>>

\* read_hp60c_bridge_frame: the bridge serves the frame it has unless it is stale,
\* and the Runtime stamps it with the time it arrived.
ReadFallback(p) ==
  /\ pc[p] = "fallback"
  /\ \/ /\ bridge /\ shm.age <= Stale
        /\ jpeg' = [shot |-> shm.age, stamp |-> 0]
        /\ got' = [got EXCEPT ![p] = [shot |-> shm.age, stamp |-> 0]]
        /\ opened' = TRUE
        /\ Goto(p, "got")
     \/ /\ ~(bridge /\ shm.age <= Stale)
        /\ Goto(p, "failed")
        /\ UNCHANGED <<jpeg, got, opened>>
  /\ UNCHANGED <<envVars, preview, mapped, failures, latest, requests>>

\* A read of memory that was unmapped meanwhile, or a second launch of the
\* camera thread: the process dies, and a new one starts with nothing.
Fault(p) ==
  /\ \/ pc[p] = "look" /\ ~mapped
     \/ pc[p] = "launch" /\ thread # "none"
  /\ running' = FALSE /\ stopping' = FALSE /\ thread' = "none"
  /\ opened' = TRUE /\ mapped' = FALSE /\ failures' = 0
  /\ latest' = NONE /\ jpeg' = NONE
  /\ pc' = [q \in Threads |-> "idle"]
  /\ got' = [q \in Threads |-> NONE]
  /\ UNCHANGED <<envVars, requests>>

Read(p) == \/ OpenSource(p) \/ MapForRead(p) \/ ReadShared(p)
           \/ ReadFallback(p) \/ Fault(p)

-----------------------------------------------------------------------------
(* camera_loop                                                             *)

\* Mutant of CameraTop.
CameraTopUnstopped ==
  /\ pc["camera"] = "top"
  /\ Goto("camera", IF opened THEN "map" ELSE "open")
  /\ UNCHANGED <<envVars, preview, source, frames, got, requests>>

CameraTop ==
  /\ pc["camera"] = "top"
  /\ IF stopping THEN thread' = "ended" /\ Goto("camera", "idle")
                 ELSE UNCHANGED thread /\ Goto("camera", IF opened THEN "map" ELSE "open")
  /\ UNCHANGED <<envVars, running, stopping, source, frames, got, requests>>

\* exchange_latest: also from the frame on, the source counts as open.
CameraGot == /\ pc["camera"] = "got"
             /\ latest' = got["camera"] /\ opened' = TRUE /\ failures' = 0
             /\ got' = [got EXCEPT !["camera"] = NONE]
             /\ Goto("camera", "top")
             /\ UNCHANGED <<envVars, preview, mapped, jpeg, requests>>

\* close_source
Close == mapped' = FALSE /\ opened' = FALSE

\* After Threshold failures in a row the source is closed, so that the next turn
\* opens it; a failure to open only counts and marks the source closed.
CameraFailed ==
  /\ pc["camera"] \in {"failed", "unopened"}
  /\ failures' = IF failures < Threshold THEN failures + 1 ELSE failures
  /\ IF pc["camera"] = "failed" /\ failures' = Threshold
       THEN Close
       ELSE opened' = (opened /\ pc["camera"] = "failed") /\ UNCHANGED mapped
  /\ Goto("camera", "top")
  /\ UNCHANGED <<envVars, preview, frames, got, requests>>

Camera == Read("camera") \/ CameraTop \/ CameraGot \/ CameraFailed

-----------------------------------------------------------------------------
(* The calls of the HTTP workers.                                          *)

Serve(p) == /\ pc[p] = "idle" /\ requests < MaxRequests
            /\ requests' = requests + 1

\* next_frame answers from the cache only while the camera thread feeds it.
NextFrame(p) ==
  /\ p \in Inferers /\ Serve(p)
  /\ IF running /\ IsFresh(latest)
       THEN UNCHANGED pc
       ELSE Goto(p, "open")
  /\ UNCHANGED <<envVars, preview, source, frames, got>>

\* update_latest, by next_frame or by start_preview.
UpdateLatest(p) ==
  /\ p \in Workers /\ pc[p] = "got"
  /\ latest' = got[p] /\ opened' = TRUE
  /\ got' = [got EXCEPT ![p] = NONE]
  /\ Goto(p, IF p \in Controls THEN "launch" ELSE "idle")
  /\ UNCHANGED <<envVars, preview, mapped, failures, jpeg, requests>>

\* Mutant of GiveUp.
GiveUpUnlaunched(p) ==
  /\ p \in Workers /\ pc[p] \in {"failed", "unopened"}
  /\ Goto(p, "idle")
  /\ opened' = (opened /\ p \in Controls /\ pc[p] = "failed")
  /\ UNCHANGED <<envVars, preview, mapped, failures, frames, got, requests>>

\* set_error marks the source closed, except when start_preview opened it and
\* then got no first frame.
GiveUp(p) == /\ p \in Workers /\ pc[p] \in {"failed", "unopened"}
             /\ Goto(p, IF p \in Controls THEN "launch" ELSE "idle")
             /\ opened' = (opened /\ p \in Controls /\ pc[p] = "failed")
             /\ UNCHANGED <<envVars, preview, mapped, failures, frames, got, requests>>

StartPreview(p) ==
  /\ p \in Controls /\ Serve(p)
  /\ running' = TRUE
  /\ IF running THEN UNCHANGED pc ELSE Goto(p, "open")
  /\ UNCHANGED <<envVars, stopping, thread, source, frames, got>>

Launch(p) == /\ pc[p] = "launch" /\ thread = "none"
             /\ stopping' = FALSE /\ thread' = "alive" /\ failures' = 0
             /\ pc' = [pc EXCEPT ![p] = "idle", !["camera"] = "top"]
             /\ UNCHANGED <<envVars, running, opened, mapped, frames, got, requests>>

StopPreview(p) ==
  /\ p \in Controls /\ Serve(p)
  /\ running' = FALSE
  /\ IF ~running /\ thread = "none" THEN Close /\ UNCHANGED pc
                                    ELSE Goto(p, "flag") /\ UNCHANGED <<mapped, opened>>
  /\ UNCHANGED <<envVars, stopping, thread, failures, frames, got>>

StopFlag(p) == /\ pc[p] = "flag"
               /\ stopping' = TRUE
               /\ Goto(p, "join")
               /\ UNCHANGED <<envVars, running, thread, source, frames, got, requests>>

Join(p) == /\ pc[p] = "join" /\ thread # "alive"
           /\ thread' = "none" /\ Close
           /\ Goto(p, "idle")
           /\ UNCHANGED <<envVars, running, stopping, failures, frames, got, requests>>

\* snapshot_jpeg while the preview runs: the bridge's snapshot, else the one cached
\* during an outage, else the latest image; nothing at all rather than a stale one.
SnapshotCached == IsFresh(jpeg)

Snapshot == IF Fallback /\ bridge /\ shm.age <= Stale THEN {[shot |-> shm.age, stamp |-> 0]}
            ELSE IF SnapshotCached THEN {jpeg}
            ELSE IF ~Fallback /\ IsFresh(latest) THEN {latest}
            ELSE {}

Worker(p) == \/ Read(p) \/ UpdateLatest(p) \/ GiveUp(p)
             \/ Launch(p) \/ StopFlag(p) \/ Join(p)

Next == \/ Environment \/ Camera
        \/ \E p \in Workers : Worker(p) \/ NextFrame(p) \/ StartPreview(p) \/ StopPreview(p)

Spec == Init /\ [][Next]_vars

\* The threads run, each read loop ends at its deadline, and a bridge that is up
\* publishes; nothing obliges anyone to call.
Fairness == /\ WF_vars(Camera) /\ WF_vars(BridgeStart) /\ WF_vars(BridgeReady)
            /\ WF_vars(Publish) /\ WF_vars(CameraBack)
            /\ \A p \in Workers : WF_vars(Worker(p))

FairSpec == Spec /\ Fairness

-----------------------------------------------------------------------------
(***************************************************************************)
(* While nobody is changing it, the preview runs exactly when a camera     *)
(* thread does: a source that cannot be opened at first must not leave the *)
(* preview running without one (comment of start_preview).                 *)
(***************************************************************************)
PreviewHasThread ==
  (\A c \in Controls : pc[c] = "idle") => (running <=> thread = "alive")

(***************************************************************************)
(* Neither the page nor an inference is given a frozen image as live: what *)
(* snapshot_jpeg and the cache of next_frame answer was captured within    *)
(* the two stale timeouts in a row, the bridge's and the Runtime's.        *)
(***************************************************************************)
NothingFrozen == \A f \in Snapshot \cup (IF running /\ IsFresh(latest) THEN {latest} ELSE {}) :
                   f.shot <= 2 * Stale

(***************************************************************************)
(* A preview left running captures live frames again after every outage of *)
(* the bridge and of its camera.                                           *)
(***************************************************************************)
CaptureRecovers == <>[]running => []<>IsFresh(latest)

(***************************************************************************)
(* Every call of an HTTP worker returns: stop_preview joins a camera       *)
(* thread that may be reading, waiting or reconnecting.                    *)
(***************************************************************************)
CallsReturn == \A p \in Workers : pc[p] # "idle" ~> pc[p] = "idle"
=============================================================================
