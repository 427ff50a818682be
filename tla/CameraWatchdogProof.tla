------------------------- MODULE CameraWatchdogProof -------------------------
(***************************************************************************)
(* Proofs about CameraWatchdog for every threshold and every number of     *)
(* mishaps.                                                                *)
(***************************************************************************)
EXTENDS CameraWatchdog, TLAPS

(* Type correctness. *)

LEMMA BumpType == \A n \in 0 .. MaxRestarts : Bump(n) \in 0 .. MaxRestarts
  BY WatchdogAssumption DEF Bump

Files == [fails : 0 .. MaxRestarts, incident : BOOLEAN, mark : BOOLEAN,
          failed : 0 .. MaxRestarts]

LEMMA OnDiskType ==
  ASSUME fails \in 0 .. MaxRestarts, failed \in 0 .. MaxRestarts, mark \in BOOLEAN
  PROVE  OnDisk \in Files
  BY DEF OnDisk, Files

LEMMA StepNames ==
  /\ "idle" \in Steps /\ "fault" \in Steps /\ "cooldown" \in Steps
  /\ "restart" \in Steps /\ "count" \in Steps /\ "escalate" \in Steps
  /\ "mark" \in Steps /\ "sync" \in Steps /\ "request" \in Steps
  /\ "unmark" \in Steps /\ "fails" \in Steps /\ "incident" \in Steps
  /\ "clear" \in Steps /\ "look" \in Steps /\ "stop" \in Steps
  /\ "start" \in Steps /\ "check" \in Steps
  BY DEF Steps

LEMMA Bounds == 0 \in 0 .. MaxRestarts /\ 0 \in 0 .. MaxMishaps /\ 0 \in Nat
  BY WatchdogAssumption

LEMMA InitType == Init => TypeOK
<1> SUFFICES ASSUME Init PROVE TypeOK
  OBVIOUS
<1> USE Bounds DEF Init
<1>1. disk \in Files
  BY OnDiskType
<1>2. /\ variant \in Variants /\ camera \in BOOLEAN /\ preview \in {"off", "live", "frozen"}
      /\ fails \in 0 .. MaxRestarts /\ failed \in 0 .. MaxRestarts /\ mark \in BOOLEAN
      /\ incident \in Ages /\ stamp \in Ages \ {"none"}
  BY DEF Ages
<1>3. /\ pc \in Steps /\ recovered \in BOOLEAN
      /\ pickPc \in {"idle", "stop", "start", "check"}
  BY StepNames
<1>4. /\ rebooting \in BOOLEAN /\ requests \in Nat /\ powerLost \in BOOLEAN
      /\ mishaps \in 0 .. MaxMishaps
  OBVIOUS
<1> QED BY <1>1, <1>2, <1>3, <1>4 DEF TypeOK, Files

LEMMA BridgeType == ASSUME TypeOK, Bridge PROVE TypeOK'
<1> USE StepNames, Bounds
    DEF TypeOK, Files, files, script, bounds, MarkFirst, FirstCleared, AfterFails,
        AfterMark, EndsIncident, Writes, ScriptOnly
<1>1. CASE Look
  BY <1>1 DEF Look
<1>2. CASE ClearFails
  BY <1>2 DEF ClearFails
<1>3. CASE ClearIncident
  BY <1>3 DEF ClearIncident, Ages
<1>4. CASE ClearMark
  BY <1>4 DEF ClearMark
<1>5. CASE Judge
  BY <1>5 DEF Judge, Ages
<1>6. CASE Cooldown
  BY <1>6 DEF Cooldown, Ages
<1>7. CASE Restart
  <2> USE <1>7 DEF Restart
  <2>1. camera' \in BOOLEAN
    OBVIOUS
  <2>2. PICK ok \in {FALSE, camera'} :
          /\ recovered' = ok
          /\ pc' = IF ok THEN FirstCleared ELSE "count"
          /\ requests' = IF ok THEN 0 ELSE requests
    OBVIOUS
  <2>3. recovered' \in BOOLEAN /\ pc' \in Steps /\ requests' \in Nat
    BY <2>1, <2>2
  <2> QED BY <2>1, <2>3
<1>8. CASE Count
  BY <1>8, BumpType DEF Count
<1>9. CASE Escalate \/ Rejected
  BY <1>9 DEF Escalate, Rejected
<1>10. CASE Mark
  BY <1>10 DEF Mark
<1>11. CASE Unmark
  BY <1>11 DEF Unmark
<1>12. CASE Sync
  BY <1>12, OnDiskType DEF Sync
<1>13. CASE Accepted
  BY <1>13 DEF Accepted
<1>14. CASE LookAtPreview
  <2> USE <1>14 DEF LookAtPreview, RuntimeRestarts
  <2>1. pc' \in Steps /\ recovered' \in BOOLEAN
    OBVIOUS
  <2>2. preview' \in {"off", "live", "frozen"}
    OBVIOUS
  <2> QED BY <2>1, <2>2
<1>15. CASE Preview
  <2> USE <1>15 DEF Preview, PreviewStops, PreviewStarts, RuntimeRestarts
  <2>1. pc' \in Steps /\ recovered' \in BOOLEAN
    OBVIOUS
  <2>2. preview' \in {"off", "live", "frozen"}
    OBVIOUS
  <2> QED BY <2>1, <2>2
<1> QED BY <1>1, <1>2, <1>3, <1>4, <1>5, <1>6, <1>7, <1>8, <1>9, <1>10, <1>11, <1>12,
           <1>13, <1>14, <1>15 DEF Bridge

LEMMA BoxType == ASSUME TypeOK, [Next]_vars PROVE TypeOK'
<1> USE StepNames, Bounds DEF TypeOK, Files, files, script, bounds
<1>1. CASE Bridge
  BY <1>1, BridgeType
<1>2. CASE Pick
  BY <1>2 DEF Pick, PreviewStops, PreviewStarts, RuntimeRestarts
<1>3. CASE Camera \/ Page
  <2>1. camera' \in BOOLEAN /\ preview' \in {"off", "live", "frozen"}
    BY <1>3 DEF Camera, Page
  <2> QED BY <1>3, <2>1 DEF Camera, Page
<1>4. CASE Pass
  BY <1>4 DEF Pass, Aged, Ages
<1>5. CASE SetBack
  BY <1>5, WatchdogAssumption DEF SetBack, Younger, Ages
<1>6. CASE WriteBack
  BY <1>6, OnDiskType DEF WriteBack
<1>7. CASE Kill
  <2>1. mishaps' \in 0 .. MaxMishaps
    BY <1>7, WatchdogAssumption DEF Kill
  <2>2. CASE pc' = "idle" /\ recovered' = FALSE /\ UNCHANGED pickPc
    BY <1>7, <2>1, <2>2 DEF Kill
  <2>3. CASE pickPc' = "idle" /\ UNCHANGED script
    BY <1>7, <2>1, <2>3 DEF Kill
  <2> QED BY <1>7, <2>2, <2>3 DEF Kill
<1>8. CASE Reboot
  BY <1>8, OnDiskType DEF Reboot, BoxStarts, Ages
<1>9. CASE PowerFails
  <2>1. mishaps' \in 0 .. MaxMishaps /\ incident' \in Ages /\ stamp' \in Ages \ {"none"}
    BY <1>9, WatchdogAssumption DEF PowerFails, BoxStarts, Ages
  <2>2. /\ fails' \in 0 .. MaxRestarts /\ failed' \in 0 .. MaxRestarts
        /\ mark' \in BOOLEAN
    BY <1>9 DEF PowerFails
  <2> QED BY <1>9, <2>1, <2>2 DEF PowerFails, BoxStarts
<1>10. CASE UNCHANGED vars
  BY <1>10 DEF vars
<1> QED BY <1>1, <1>2, <1>3, <1>4, <1>5, <1>6, <1>7, <1>8, <1>9, <1>10 DEF Next

(* The watchdog state has the expected types in every reachable state. *)
THEOREM TypeInvariant == Spec => []TypeOK
<1>1. Init => TypeOK
  BY InitType
<1>2. TypeOK /\ [Next]_vars => TypeOK'
  BY BoxType
<1> QED BY <1>1, <1>2, PTL DEF Spec

(***************************************************************************)
(* One reboot per incident: a reboot issued in this incident has left its  *)
(* marker, on the disk too where the script syncs it, and the steps that   *)
(* create or remove a marker are reached without one.                      *)
(***************************************************************************)
Marker ==
  /\ pc \in {"sync", "request"} => mark
  /\ pc = "request" /\ variant = "orbbec" => disk.mark
  /\ pc = "sync" => variant = "orbbec"

Issued ==
  (variant = "orbbec" \/ ~powerLost) =>
    /\ requests <= 1
    /\ requests = 1 => /\ mark
                       /\ variant = "orbbec" => disk.mark
                       /\ pc \notin {"mark", "sync", "request", "unmark", "fails",
                                     "incident", "clear"}

RebootInv == TypeOK /\ Marker /\ Issued

LEMMA BridgeIssues == ASSUME RebootInv, Bridge, TypeOK' PROVE Marker' /\ Issued'
<1> USE DEF RebootInv, TypeOK, Marker, Issued, files, script, bounds, MarkFirst,
            FirstCleared, AfterFails, AfterMark, Writes, ScriptOnly
<1>1. CASE Look
  BY <1>1 DEF Look
<1>2. CASE ClearFails \/ ClearIncident
  BY <1>2 DEF ClearFails, ClearIncident
<1>3. CASE ClearMark
  BY <1>3 DEF ClearMark
<1>4. CASE Judge \/ Cooldown
  BY <1>4 DEF Judge, Cooldown
<1>5. CASE Restart
  BY <1>5 DEF Restart
<1>6. CASE Count
  BY <1>6 DEF Count
<1>7. CASE Escalate \/ Rejected
  BY <1>7 DEF Escalate, Rejected
<1>8. CASE Mark
  BY <1>8 DEF Mark
<1>9. CASE Unmark
  BY <1>9 DEF Unmark
<1>10. CASE Sync
  BY <1>10 DEF Sync, OnDisk
<1>11. CASE Accepted
  BY <1>11 DEF Accepted
<1>12. CASE LookAtPreview
  BY <1>12 DEF LookAtPreview
<1>13. CASE Preview
  BY <1>13 DEF Preview
<1> QED BY <1>1, <1>2, <1>3, <1>4, <1>5, <1>6, <1>7, <1>8, <1>9, <1>10, <1>11,
           <1>12, <1>13 DEF Bridge

LEMMA BoxIssues == ASSUME RebootInv, [Next]_vars, TypeOK' PROVE Marker' /\ Issued'
<1> USE DEF RebootInv, TypeOK, Marker, Issued, files, script, bounds
<1>1. CASE Bridge
  BY <1>1, BridgeIssues
<1>2. CASE Pick
  BY <1>2 DEF Pick
<1>3. CASE Camera \/ Page \/ Pass \/ SetBack
  BY <1>3 DEF Camera, Page, Pass, SetBack
<1>4. CASE WriteBack
  BY <1>4 DEF WriteBack, OnDisk
<1>5. CASE Kill
  BY <1>5 DEF Kill
<1>6. CASE Reboot
  BY <1>6 DEF Reboot, BoxStarts, OnDisk
<1>7. CASE PowerFails
  BY <1>7 DEF PowerFails, BoxStarts
<1>8. CASE UNCHANGED vars
  BY <1>8 DEF vars
<1> QED BY <1>1, <1>2, <1>3, <1>4, <1>5, <1>6, <1>7, <1>8 DEF Next

(* In every reachable state at most one reboot has been issued since the   *)
(* last look that found the camera healthy, power failures included for    *)
(* the script that syncs its marker.                                       *)
THEOREM RebootsOnce == Spec => []OneRebootPerIncident
<1>1. Init => RebootInv
  BY InitType DEF Init, RebootInv, Marker, Issued
<1>2. RebootInv /\ [Next]_vars => RebootInv'
  BY BoxType, BoxIssues DEF RebootInv
<1>3. RebootInv => OneRebootPerIncident
  BY DEF RebootInv, Issued, OneRebootPerIncident
<1> QED BY <1>1, <1>2, <1>3, PTL DEF Spec

(***************************************************************************)
(* Restarts come first: for the Orbbec script the count is what it should  *)
(* be, on the disk as well, and the steps towards a reboot are reached at  *)
(* the threshold.                                                          *)
(***************************************************************************)
CountInv ==
  /\ TypeOK
  /\ variant = "orbbec" => fails = failed /\ disk.fails = disk.failed
  /\ pc \in {"mark", "sync", "request"} => fails >= MaxRestarts

LEMMA BridgeCounts == ASSUME CountInv, Bridge, TypeOK' PROVE CountInv'
<1> USE WatchdogAssumption
    DEF CountInv, TypeOK, files, script, bounds, MarkFirst, FirstCleared,
        AfterFails, AfterMark, EndsIncident, Writes, ScriptOnly
<1>1. CASE Look
  BY <1>1 DEF Look
<1>2. CASE ClearFails \/ ClearIncident \/ ClearMark
  BY <1>2 DEF ClearFails, ClearIncident, ClearMark
<1>3. CASE Judge \/ Cooldown
  BY <1>3 DEF Judge, Cooldown
<1>4. CASE Restart
  BY <1>4 DEF Restart
<1>5. CASE Count
  BY <1>5 DEF Count
<1>6. CASE Escalate \/ Rejected
  BY <1>6 DEF Escalate, Rejected
<1>7. CASE Mark \/ Unmark
  BY <1>7 DEF Mark, Unmark
<1>8. CASE Sync
  BY <1>8 DEF Sync, OnDisk
<1>9. CASE Accepted
  BY <1>9 DEF Accepted
<1>10. CASE LookAtPreview
  BY <1>10 DEF LookAtPreview
<1>11. CASE Preview
  BY <1>11 DEF Preview
<1> QED BY <1>1, <1>2, <1>3, <1>4, <1>5, <1>6, <1>7, <1>8, <1>9, <1>10, <1>11
        DEF Bridge

LEMMA BoxCounts == ASSUME CountInv, [Next]_vars PROVE CountInv'
<1>0. TypeOK'
  BY BoxType DEF CountInv
<1> USE <1>0 DEF CountInv, TypeOK, files, script, bounds
<1>1. CASE Bridge
  BY <1>1, BridgeCounts
<1>2. CASE Pick
  BY <1>2 DEF Pick
<1>3. CASE Camera \/ Page \/ Pass \/ SetBack
  BY <1>3 DEF Camera, Page, Pass, SetBack
<1>4. CASE WriteBack
  BY <1>4 DEF WriteBack, OnDisk
<1>5. CASE Kill
  BY <1>5 DEF Kill
<1>6. CASE Reboot
  BY <1>6 DEF Reboot, BoxStarts, OnDisk
<1>7. CASE PowerFails
  BY <1>7 DEF PowerFails, BoxStarts
<1>8. CASE UNCHANGED vars
  BY <1>8 DEF vars
<1> QED BY <1>1, <1>2, <1>3, <1>4, <1>5, <1>6, <1>7, <1>8 DEF Next

LEMMA OthersKeepRequests ==
  ASSUME TypeOK, [Next]_vars, ~Accepted PROVE ~(requests' > requests)
<1> USE DEF TypeOK, bounds, Writes, ScriptOnly
<1>1. CASE Look \/ Restart
  <2>1. requests' = 0 \/ requests' = requests
    BY <1>1 DEF Look, Restart
  <2> QED BY <2>1
<1>2. CASE ClearFails \/ ClearIncident \/ ClearMark \/ Judge \/ Cooldown \/ Count
  BY <1>2 DEF ClearFails, ClearIncident, ClearMark, Judge, Cooldown, Count
<1>3. CASE Escalate \/ Mark \/ Sync \/ Rejected \/ Unmark \/ LookAtPreview \/ Preview
  BY <1>3 DEF Escalate, Mark, Sync, Rejected, Unmark, LookAtPreview, Preview
<1>4. CASE Pick \/ Camera \/ Page \/ Pass \/ SetBack \/ WriteBack \/ Kill
  BY <1>4 DEF Pick, Camera, Page, Pass, SetBack, WriteBack, Kill
<1>5. CASE Reboot \/ PowerFails \/ UNCHANGED vars
  BY <1>5 DEF Reboot, PowerFails, BoxStarts, vars
<1> QED BY <1>1, <1>2, <1>3, <1>4, <1>5 DEF Next, Bridge

LEMMA AcceptedCounts ==
  ASSUME CountInv, [Next]_vars, variant = "orbbec", requests' > requests
  PROVE  failed >= MaxRestarts
<1>1. Accepted
  BY OthersKeepRequests DEF CountInv
<1> QED BY <1>1 DEF CountInv, Accepted

(* The Orbbec script asks for a reboot only after MaxRestarts restarts     *)
(* that did not help in the incident its files speak of.                   *)
THEOREM RestartsFirst == Spec => RestartsComeFirst
<1>1. Init => CountInv
  BY InitType DEF Init, CountInv, OnDisk
<1>2. CountInv /\ [Next]_vars => CountInv'
  BY BoxCounts
<1>3. CountInv /\ [Next]_vars
        => [variant = "orbbec" /\ requests' > requests => failed >= MaxRestarts]_vars
  BY AcceptedCounts
<1> QED BY <1>1, <1>2, <1>3, PTL DEF Spec, RestartsComeFirst
=============================================================================
