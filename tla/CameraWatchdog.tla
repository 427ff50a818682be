---------------------------- MODULE CameraWatchdog ----------------------------
(***************************************************************************)
(* The watchdogs of a vision box                                           *)
(* (src/production/carton_line/scripts/watch_*.sh): a script that a timer  *)
(* starts looks at the camera bridge, restarts its service, counts the     *)
(* restarts that did not help and, past a threshold, reboots the box once  *)
(* for the fault; another script looks after the preview of the Runtime.   *)
(* The counter, the incident and the reboot marker are files on disk, the  *)
(* stamp is in /run, so a reboot keeps the first and forgets the other.    *)
(*                                                                         *)
(* Wall clock times are only ever compared with a limit: a time is here    *)
(* "recent" or "past".  Every file write is one step, and a script can be  *)
(* killed, or the power fail, between any two.  The disk holds what the    *)
(* file system looked like at some earlier moment, the last sync included. *)
(***************************************************************************)
EXTENDS Naturals

CONSTANTS Variants,      \* "orbbec" and "hp60c": the two bridge watchdogs
          MaxRestarts,   \* MAX_SERVICE_RESTARTS
          MaxMishaps     \* bound: killed scripts, power failures and clocks
                         \* set back

ASSUME WatchdogAssumption == /\ Variants \subseteq {"orbbec", "hp60c"}
                             /\ MaxRestarts \in Nat \ {0}
                             /\ MaxMishaps \in Nat

VARIABLES variant,
          camera,     \* the bridge reports fresh colour and depth images
          preview,    \* the Runtime's preview: off, live or frozen
          fails,      \* FAIL_COUNT_FILE
          incident,   \* INCIDENT_FILE: none, or the age of the time in it
          mark,       \* REBOOT_MARK_FILE exists
          failed,     \* history: what fails should say
          disk,       \* the files as a power failure would leave them
          stamp,      \* STAMP_FILE of the bridge watchdog, in /run
          pc, recovered,  \* the bridge watchdog, and whether its restart helped
          pickPc,     \* the pick watchdog
          rebooting,  \* systemd has accepted a reboot
          requests,   \* history: accepted reboots since the last healthy look
          powerLost,  \* history
          orphan,     \* history: a script was ended, or the power failed, and
                      \* left the marker that it would have removed or acted on
          mishaps

files  == <<fails, incident, mark, failed>>
script == <<pc, recovered>>
bounds == <<powerLost, mishaps>>
vars   == <<variant, camera, preview, files, disk, stamp, script, pickPc,
            rebooting, requests, orphan, bounds>>

\* A stamp file that does not exist reads 0: past.
Ages == {"none", "recent", "past"}

\* The count is only compared with MaxRestarts, and stops there.
Bump(n) == IF n < MaxRestarts THEN n + 1 ELSE n

Steps == {"idle", "fault", "cooldown", "restart", "count", "escalate", "mark",
          "sync", "request", "unmark", "fails", "incident", "clear", "look",
          "stop", "start", "check"}

TypeOK == /\ variant \in Variants /\ camera \in BOOLEAN
          /\ preview \in {"off", "live", "frozen"}
          /\ fails \in 0 .. MaxRestarts /\ failed \in 0 .. MaxRestarts
          /\ incident \in Ages /\ mark \in BOOLEAN
          /\ disk \in [fails : 0 .. MaxRestarts, incident : BOOLEAN, mark : BOOLEAN,
                       failed : 0 .. MaxRestarts]
          /\ stamp \in Ages \ {"none"}
          /\ pc \in Steps /\ recovered \in BOOLEAN
          /\ pickPc \in {"idle", "stop", "start", "check"}
          /\ rebooting \in BOOLEAN /\ requests \in Nat
          /\ powerLost \in BOOLEAN /\ orphan \in BOOLEAN
          /\ mishaps \in 0 .. MaxMishaps

OnDisk == [fails |-> fails, incident |-> incident # "none", mark |-> mark,
           failed |-> failed]

Init == /\ variant \in Variants /\ camera = TRUE /\ preview \in {"off", "live"}
        /\ fails = 0 /\ failed = 0 /\ incident = "none" /\ mark = FALSE
        /\ disk = OnDisk
        /\ stamp = "past"
        /\ pc = "idle" /\ recovered = FALSE /\ pickPc = "idle"
        /\ rebooting = FALSE /\ requests = 0
        /\ powerLost = FALSE /\ orphan = FALSE /\ mishaps = 0

(***************************************************************************)
(* The bridge watchdog.                                                    *)
(***************************************************************************)

\* A step of the script that leaves the Runtime, the files and the stamp alone.
ScriptOnly == UNCHANGED <<variant, camera, preview, files, disk, stamp, pickPc,
                          rebooting, orphan, bounds>>
\* A step that writes a file; without the marker nothing is left of it.
Writes == /\ orphan' = (orphan /\ mark')
          /\ UNCHANGED <<variant, camera, preview, disk, stamp, pickPc, rebooting,
                         requests, bounds>>

\* The two scripts clear an incident in opposite orders.
\* Mutant: both clear the marker first.
MarkFirstAlways == TRUE

MarkFirst == variant = "hp60c"
FirstCleared == IF MarkFirst THEN "incident" ELSE "fails"
AfterFails   == IF MarkFirst THEN "look" ELSE "incident"
AfterMark    == IF MarkFirst THEN "fails" ELSE "look"

\* The timer starts the script, which asks the bridge for its health.
Look == /\ pc = "idle"
        /\ pc' = IF camera THEN FirstCleared ELSE "fault"
        /\ requests' = IF camera THEN 0 ELSE requests
        /\ recovered' = FALSE
        /\ ScriptOnly

\* The first file written ends the incident; "failed" follows the incident.
EndsIncident == failed' = IF pc = FirstCleared THEN 0 ELSE failed

ClearFails == /\ pc = "fails" /\ pc' = AfterFails
              /\ fails' = 0 /\ EndsIncident
              /\ UNCHANGED <<incident, mark, recovered>> /\ Writes

ClearIncident == /\ pc = "incident" /\ pc' = "clear"
                 /\ incident' = "none" /\ EndsIncident
                 /\ UNCHANGED <<fails, mark, recovered>> /\ Writes

ClearMark == /\ pc = "clear" /\ pc' = AfterMark
             /\ mark' = FALSE
             /\ UNCHANGED <<fails, incident, failed, recovered>> /\ Writes

\* The bridge is unhealthy: the incident is recorded, and a reason to restart
\* the bridge looked for.  Orbbec: "internal" stands for an unreachable bridge,
\* a dead thread and a recovery without progress; otherwise the age of the
\* incident counts, until a reboot was issued for it.
HasReason(internal) ==
  IF variant = "orbbec" THEN internal \/ (incident = "past" /\ ~mark)
                        ELSE incident = "past"

Judge == /\ pc = "fault"
         /\ incident' = IF incident = "none" THEN "recent" ELSE incident
         /\ \E internal \in BOOLEAN :
              pc' = IF HasReason(internal) THEN "cooldown" ELSE "idle"
         /\ UNCHANGED <<fails, mark, failed, recovered>> /\ Writes

Cooldown == /\ pc = "cooldown"
            /\ IF stamp = "recent" THEN pc' = "idle" /\ UNCHANGED stamp
                                   ELSE pc' = "restart" /\ stamp' = "recent"
            /\ UNCHANGED <<variant, camera, preview, files, disk,
                           recovered, pickPc, rebooting, requests, orphan, bounds>>

\* The restart may bring the camera back; it is recovered when both streams
\* are fresh within the waiting time.
Restart == /\ pc = "restart"
           /\ camera' \in {camera, TRUE}
           /\ \E ok \in {FALSE, camera'} :
                /\ recovered' = ok
                /\ pc' = IF ok THEN FirstCleared ELSE "count"
                /\ requests' = IF ok THEN 0 ELSE requests
           /\ UNCHANGED <<variant, preview, files, disk, stamp, pickPc,
                          rebooting, orphan, bounds>>

Count == /\ pc = "count" /\ pc' = "escalate"
         /\ fails' = Bump(fails) /\ failed' = Bump(failed)
         /\ UNCHANGED <<incident, mark, recovered>> /\ Writes

Escalate == /\ pc = "escalate"
            /\ pc' = IF fails < MaxRestarts \/ mark THEN "idle" ELSE "mark"
            /\ UNCHANGED <<recovered, requests>> /\ ScriptOnly

\* The Orbbec script syncs the marker before it asks for the reboot.
Mark == /\ pc = "mark"
        /\ pc' = IF variant = "orbbec" THEN "sync" ELSE "request"
        /\ mark' = TRUE
        /\ UNCHANGED <<fails, incident, failed, recovered>> /\ Writes

\* Mutant: the marker is not synced.
SyncNothing == /\ pc = "sync" /\ pc' = "request"
               /\ UNCHANGED <<recovered, requests>> /\ ScriptOnly

Sync == /\ pc = "sync" /\ pc' = "request"
        /\ disk' = OnDisk
        /\ UNCHANGED <<variant, camera, preview, files, stamp, recovered,
                       pickPc, rebooting, requests, orphan, bounds>>

Accepted == /\ pc = "request" /\ pc' = "idle"
            /\ rebooting' = TRUE /\ requests' = requests + 1
            /\ UNCHANGED <<variant, camera, preview, files, disk, stamp,
                           recovered, pickPc, orphan, bounds>>

Rejected == /\ pc = "request" /\ pc' = "unmark"
            /\ UNCHANGED <<recovered, requests>> /\ ScriptOnly

\* Mutant: the marker of a refused reboot stays.
UnmarkNothing == /\ pc = "unmark" /\ pc' = "idle"
                 /\ UNCHANGED <<recovered, requests>> /\ ScriptOnly

Unmark == /\ pc = "unmark" /\ pc' = "idle"
          /\ mark' = FALSE
          /\ UNCHANGED <<fails, incident, failed, recovered>> /\ Writes

(***************************************************************************)
(* The preview of the Runtime: both watchdogs stop and start it with a     *)
(* request that may be lost, and restart the service as a last resort.     *)
(***************************************************************************)

PreviewStops  == preview' \in {"off", preview}
PreviewStarts == preview' \in IF preview # "off" THEN {preview}
                              ELSE {"off", IF camera THEN "live" ELSE "frozen"}
\* Mutant: a reset of the preview is all that is tried.
RuntimeStays == UNCHANGED preview

RuntimeRestarts == preview' = "off"

\* Healthy bridge (Orbbec): a frozen preview is reset.  After a recovery the
\* Orbbec script resets it whatever it is, the HP60C script restarts the
\* Runtimes, and neither looks at what the preview was.
LookAtPreview ==
  /\ pc = "look"
  /\ \/ /\ variant = "hp60c" /\ pc' = "idle" /\ recovered' = FALSE
        /\ IF recovered THEN RuntimeRestarts ELSE UNCHANGED preview
     \/ /\ variant = "orbbec" /\ UNCHANGED <<preview, recovered>>
        /\ pc' = IF recovered \/ preview = "frozen" THEN "stop" ELSE "idle"
  /\ UNCHANGED <<variant, camera, files, disk, stamp, pickPc, rebooting, requests,
                 orphan, bounds>>

Preview == /\ \/ pc = "stop" /\ pc' = "start" /\ PreviewStops /\ UNCHANGED recovered
              \/ /\ pc = "start" /\ PreviewStarts /\ UNCHANGED recovered
                 /\ pc' = IF recovered THEN "check" ELSE "idle"
              \/ /\ pc = "check" /\ pc' = "idle" /\ recovered' = FALSE
                 /\ IF preview = "live" THEN UNCHANGED preview ELSE RuntimeRestarts
           /\ UNCHANGED <<variant, camera, files, disk, stamp, pickPc, rebooting,
                          requests, orphan, bounds>>

\* The pick watchdog acts on a frozen preview, while the bridge is healthy.
\* Its cooldown only delays it and is left out.
Pick == /\ \/ /\ pickPc = "idle" /\ pickPc' = "stop" /\ preview = "frozen" /\ camera
              /\ UNCHANGED preview
           \/ pickPc = "stop" /\ pickPc' = "start" /\ PreviewStops
           \/ pickPc = "start" /\ pickPc' = "check" /\ PreviewStarts
           \/ /\ pickPc = "check" /\ pickPc' = "idle"
              /\ IF preview = "live" THEN UNCHANGED preview ELSE RuntimeRestarts
        /\ UNCHANGED <<variant, camera, files, disk, stamp, script, rebooting,
                       requests, orphan, bounds>>

(***************************************************************************)
(* The box.                                                                *)
(***************************************************************************)

Camera == /\ \/ camera' = ~camera /\ UNCHANGED preview
             \/ preview = "live" /\ preview' = "frozen" /\ UNCHANGED camera
             \/ preview = "frozen" /\ camera /\ preview' = "live" /\ UNCHANGED camera
          /\ UNCHANGED <<variant, files, disk, stamp, script, pickPc, rebooting,
                         requests, orphan, bounds>>

\* Someone opens a page with the preview.
Page == /\ preview = "off" /\ camera /\ preview' = "live"
        /\ UNCHANGED <<variant, camera, files, disk, stamp, script, pickPc,
                       rebooting, requests, orphan, bounds>>

Aged(t) == IF t = "recent" THEN "past" ELSE t

Pass == /\ incident' = Aged(incident) /\ stamp' = Aged(stamp)
        /\ <<incident, stamp>>' # <<incident, stamp>>
        /\ UNCHANGED <<variant, camera, preview, fails, mark, failed, disk, script,
                       pickPc, rebooting, requests, orphan, bounds>>

\* A clock that is set back makes every difference small, or negative.
Younger(t) == IF t = "past" THEN "recent" ELSE t

SetBack == /\ mishaps < MaxMishaps /\ mishaps' = mishaps + 1
           /\ incident' = Younger(incident) /\ stamp' = Younger(stamp)
           /\ UNCHANGED <<variant, camera, preview, fails, mark, failed, disk, script,
                          pickPc, rebooting, requests, orphan, powerLost>>

WriteBack == /\ disk # OnDisk /\ disk' = OnDisk
             /\ UNCHANGED <<variant, camera, preview, files, stamp, script, pickPc,
                            rebooting, requests, orphan, bounds>>

\* TimeoutStartSec, or anything else that ends a script where it stands.
Kill == /\ mishaps < MaxMishaps /\ mishaps' = mishaps + 1
        /\ \/ /\ pc # "idle" /\ pc' = "idle" /\ recovered' = FALSE
              /\ orphan' = mark /\ UNCHANGED pickPc
           \/ pickPc # "idle" /\ pickPc' = "idle" /\ UNCHANGED <<script, orphan>>
        /\ UNCHANGED <<variant, camera, preview, files, disk, stamp, rebooting, requests, powerLost>>

\* What a start of the box forgets, and what it may find.
BoxStarts == /\ stamp' = "past"
             /\ pc' = "idle" /\ pickPc' = "idle" /\ rebooting' = FALSE
             /\ recovered' = FALSE
             /\ preview' = "off" /\ camera' \in BOOLEAN
             /\ UNCHANGED <<variant, requests>>

Reboot == /\ rebooting /\ BoxStarts
          /\ disk' = OnDisk
          /\ incident' \in IF incident = "none" THEN {"none"} ELSE {"recent", "past"}
          /\ orphan' = (mark /\ (orphan \/ pc # "idle"))
          /\ UNCHANGED <<fails, mark, failed, bounds>>

PowerFails == /\ mishaps < MaxMishaps /\ mishaps' = mishaps + 1 /\ BoxStarts
              /\ powerLost' = TRUE
              /\ fails' = disk.fails /\ mark' = disk.mark /\ failed' = disk.failed
              /\ orphan' = mark'
              /\ incident' \in IF disk.incident THEN {"recent", "past"} ELSE {"none"}
              /\ UNCHANGED disk

Bridge == \/ Look \/ ClearFails \/ ClearIncident \/ ClearMark
          \/ Judge \/ Cooldown \/ Restart \/ Count \/ Escalate
          \/ Mark \/ Sync \/ Accepted \/ Rejected \/ Unmark
          \/ LookAtPreview \/ Preview

Next == Bridge \/ Pick \/ Camera \/ Page \/ Pass \/ SetBack \/ WriteBack
        \/ Kill \/ Reboot \/ PowerFails

Spec == Init /\ [][Next]_vars

\* The timers go on, time passes, and a reboot asked for again and again is
\* accepted in the end.
Fairness == WF_vars(Bridge) /\ WF_vars(Pick) /\ WF_vars(Pass) /\ SF_vars(Accepted)

FairSpec == Spec /\ Fairness

(***************************************************************************)
(* Properties.                                                             *)
(***************************************************************************)

\* One fault reboots the box once: after a reboot no other is issued until a
\* look found the camera healthy.  The HP60C script does not sync its marker,
\* so for it this holds as long as the power does not fail.
OneRebootPerIncident == (variant = "orbbec" \/ ~powerLost) => requests <= 1

\* A reboot comes after MaxRestarts restarts that did not help in this
\* incident, wherever the script that cleared the last one was ended.  The HP60C
\* script clears the marker before the count and does not give this.
RestartsComeFirst ==
  [][variant = "orbbec" /\ requests' > requests => failed >= MaxRestarts]_vars

\* A camera that stays away leads to an accepted reboot, however much the
\* bridge's own recovery seems to progress, although the clock is set back and
\* although reboots are refused: a script that goes on to its end leaves no
\* marker without a reboot.  Only the marker that a script ended by a kill, a
\* shutdown or a power failure has left may keep the reboot away.
FaultEscalates == ~camera ~> (camera \/ requests > 0 \/ orphan)

\* A preview does not stay frozen beside a healthy camera.
FrozenPreviewEnds == (preview = "frozen" /\ camera) ~> (preview # "frozen" \/ ~camera)
=============================================================================
