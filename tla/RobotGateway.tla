---------------------------- MODULE RobotGateway ----------------------------
(***************************************************************************)
(* The Modbus-TCP gateway of the carton line                               *)
(* (src/production/carton_line/gateway/service.py).  A PLC raises a        *)
(* trigger register and reads the answer from a result register; one       *)
(* poller thread scans the triggers, reserves the single execution slot    *)
(* and spawns a worker thread; HTTP handler threads compete for the same   *)
(* slot.  Every access to a register is one step, because the register     *)
(* bank takes its lock once per read and once per write, so the PLC, the   *)
(* poller and the worker interleave between any two of them.               *)
(***************************************************************************)
EXTENDS Integers, FiniteSets

CONSTANTS
  HttpClients,    \* HTTP handler threads that may call execute()
  Slots,          \* tray slots behind the coordinate registers 20..99
  PlcWaits,       \* TRUE: the PLC keeps a trigger up until it reads a result,
                  \* and raises it again only once the result reads 0
  AlwaysOk,       \* the coordinate task reports OK whatever it found
  SpawnMayFail,   \* Thread.start() may raise
  PlcTasks,       \* the tasks whose triggers the PLC uses
  PlcValues,      \* the values the PLC writes to a trigger register
  MaxRaises,      \* bound: trigger edges per register
  MaxCalls        \* bound: HTTP calls per client

Tasks == {"partition", "tube", "coordinate"}
Poller == "modbus"
Runners == HttpClients \cup {Poller}
TriggerValues == 0 .. 3

ASSUME GatewayAssumption ==
  /\ Poller \notin HttpClients
  /\ PlcWaits \in BOOLEAN /\ AlwaysOk \in BOOLEAN /\ SpawnMayFail \in BOOLEAN
  /\ PlcTasks \subseteq Tasks /\ PlcValues \subseteq TriggerValues
  /\ MaxRaises \in Nat /\ MaxCalls \in Nat

\* The poll loop visits the registers, and prefers the tasks, in this order.
PollOrder == <<"partition", "tube", "coordinate">>
\* The trigger values the code accepts for a task.
Commands(t) == IF t = "tube" THEN 1 .. 3 ELSE {1}
NONE == 0   \* RESULT_NONE
OK == 1     \* RESULT_OK
NG == 2     \* RESULT_NG
Codes == {NONE, OK, NG}

VARIABLES
  trigger,      \* registers 101..103, written by the PLC
  result,       \* registers 1..3
  coords,       \* registers 20..99: the run that last wrote each slot
  resultBy,     \* history: what the value in a result register answers
  lastCommand,  \* last_commands, private to the poller
  busy, activeTask, attempts, latest,
  pollPc, scan, seen,
  runPc, runTask, runCommand, runId, runEdge, runSlots, runCode,
  raises,       \* history: edges 0 -> command the PLC wrote
  polled,       \* history: runs the poller started
  calls, stopped

plcVars == <<trigger, raises>>
stateVars == <<busy, activeTask, attempts>>
bankVars == <<result, resultBy, coords>>
pollVars == <<pollPc, scan, seen, lastCommand, polled>>
runVars == <<runPc, runTask, runCommand, runId, runEdge, runSlots, runCode>>
vars == <<plcVars, stateVars, latest, bankVars, pollVars, runVars, calls, stopped>>

NoAnswer == [run |-> 0, edge |-> 0, command |-> 0, slots |-> {}]
Idle == "idle"
\* What the locals of a poll cycle, and of a run, hold when they are dead.
NothingSeen == [t \in Tasks |-> 0]

Init ==
  /\ trigger = [t \in Tasks |-> 0]
  /\ result = [t \in Tasks |-> NONE]
  /\ coords = [s \in Slots |-> 0]
  /\ resultBy = [t \in Tasks |-> NoAnswer]
  /\ lastCommand = [t \in Tasks |-> 0]
  /\ busy = FALSE /\ activeTask = Idle
  /\ attempts = 0
  /\ latest = [t \in Tasks |-> 0]
  /\ pollPc = "wait" /\ scan = 1 /\ seen = NothingSeen
  /\ runPc = [r \in Runners |-> Idle]
  /\ runTask = [r \in Runners |-> "partition"]
  /\ runCommand = [r \in Runners |-> 0]
  /\ runId = [r \in Runners |-> 0]
  /\ runEdge = [r \in Runners |-> 0]
  /\ runSlots = [r \in Runners |-> {}]
  /\ runCode = [r \in Runners |-> NG]
  /\ raises = [t \in Tasks |-> 0]
  /\ polled = [t \in Tasks |-> 0]
  /\ calls = [c \in HttpClients |-> 0]
  /\ stopped = FALSE

-----------------------------------------------------------------------------
(* The PLC: FC06 / FC16 writes of one trigger register.                     *)

PlcWrite(t, v) ==
  /\ trigger' = [trigger EXCEPT ![t] = v]
  /\ UNCHANGED <<stateVars, latest, bankVars, pollVars, runVars, calls, stopped>>

PlcRaise(t, v) ==
  /\ trigger[t] = 0 /\ v # 0
  /\ PlcWaits => result[t] = NONE /\ v \in Commands(t)
  /\ raises[t] < MaxRaises
  /\ raises' = [raises EXCEPT ![t] = @ + 1]
  /\ PlcWrite(t, v)

PlcLower(t) ==
  /\ trigger[t] # 0
  /\ PlcWaits => result[t] # NONE
  /\ PlcWrite(t, 0)
  /\ UNCHANGED raises

\* A PLC that does not wait may also overwrite one command by another.
PlcChange(t, v) ==
  /\ ~PlcWaits
  /\ trigger[t] # 0 /\ v \notin {0, trigger[t]}
  /\ PlcWrite(t, v)
  /\ UNCHANGED raises

-----------------------------------------------------------------------------
(* GatewayState.begin, when it succeeds: the slot is reserved for task t    *)
(* and the attempt gets its number.                                         *)

\* Mutant: begin() without its busy test.
BeginUnchecked(t) ==
  /\ busy' = TRUE
  /\ activeTask' = t
  /\ attempts' = attempts + 1

Begin(t) ==
  /\ ~busy
  /\ busy' = TRUE
  /\ activeTask' = t
  /\ attempts' = attempts + 1

Launch(r, t, c) ==
  /\ runPc' = [runPc EXCEPT ![r] = "reset"]
  /\ runTask' = [runTask EXCEPT ![r] = t]
  /\ runCommand' = [runCommand EXCEPT ![r] = c]
  /\ runId' = [runId EXCEPT ![r] = attempts + 1]
  /\ UNCHANGED <<runEdge, runSlots, runCode>>

-----------------------------------------------------------------------------
(* The poll loop.  "look" and "erase" are _clear_when_idle on PollOrder     *)
(* [scan]; "read" fetches the three commands one register at a time.        *)

PollTick ==
  /\ pollPc = "wait"
  /\ pollPc' = IF stopped THEN "exited" ELSE "look"
  /\ scan' = 1
  /\ UNCHANGED <<seen, lastCommand, polled, plcVars, stateVars, latest,
                 bankVars, runVars, calls, stopped>>

NextScan(done) ==
  IF scan < 3 THEN pollPc' = "look" /\ scan' = scan + 1
              ELSE pollPc' = done /\ scan' = 1

\* Mutant: last_commands is not re-armed when the trigger reads 0.
PollLookNotRearmed ==
  LET t == PollOrder[scan] IN
  /\ pollPc = "look"
  /\ \/ trigger[t] = 0 /\ pollPc' = "erase" /\ UNCHANGED scan
     \/ trigger[t] # 0 /\ NextScan("busy?")
  /\ UNCHANGED <<lastCommand, seen, polled, plcVars, stateVars, latest, bankVars,
                 runVars, calls, stopped>>

PollLook ==
  LET t == PollOrder[scan] IN
  /\ pollPc = "look"
  /\ \/ /\ trigger[t] = 0
        /\ lastCommand' = [lastCommand EXCEPT ![t] = 0]
        /\ pollPc' = "erase"
        /\ UNCHANGED scan
     \/ /\ trigger[t] # 0
        /\ NextScan("busy?")
        /\ UNCHANGED lastCommand
  /\ UNCHANGED <<seen, polled, plcVars, stateVars, latest, bankVars,
                 runVars, calls, stopped>>

\* Mutant: the result is left in place.
PollEraseSkipped ==
  /\ pollPc = "erase"
  /\ NextScan("busy?")
  /\ UNCHANGED <<bankVars, seen, lastCommand, polled, plcVars, stateVars,
                 latest, runVars, calls, stopped>>

PollErase ==
  LET t == PollOrder[scan] IN
  /\ pollPc = "erase"
  /\ result' = [result EXCEPT ![t] = NONE]
  /\ resultBy' = [resultBy EXCEPT ![t] = NoAnswer]
  /\ NextScan("busy?")
  /\ UNCHANGED <<coords, seen, lastCommand, polled, plcVars, stateVars,
                 latest, runVars, calls, stopped>>

PollBusy ==
  /\ pollPc = "busy?"
  /\ pollPc' = IF busy THEN "wait" ELSE "read"
  /\ UNCHANGED <<scan, seen, lastCommand, polled, plcVars, stateVars,
                 latest, bankVars, runVars, calls, stopped>>

PollRead ==
  LET t == PollOrder[scan] IN
  /\ pollPc = "read"
  /\ seen' = [seen EXCEPT ![t] = trigger[t]]
  /\ IF scan < 3 THEN scan' = scan + 1 /\ UNCHANGED pollPc
                 ELSE scan' = 1 /\ pollPc' = "select"
  /\ UNCHANGED <<lastCommand, polled, plcVars, stateVars, latest,
                 bankVars, runVars, calls, stopped>>

\* Mutant: level-triggered instead of edge-triggered.
FreshByLevel(t) == seen[t] \in Commands(t)

\* A rising edge: an accepted command on a register whose last command is 0.
Fresh(t) == seen[t] \in Commands(t) /\ lastCommand[t] = 0

\* The if / elif chain: partition before tube before coordinate.
Chosen(t) ==
  /\ Fresh(t)
  /\ t = "tube" => ~Fresh("partition")
  /\ t = "coordinate" => ~Fresh("partition") /\ ~Fresh("tube")

PollSelect ==
  /\ pollPc = "select"
  /\ pollPc' = "wait"
  /\ seen' = NothingSeen
  /\ \/ \E t \in Tasks :
          /\ Chosen(t)
          /\ Begin(t)
          /\ lastCommand' = [lastCommand EXCEPT ![t] = seen[t]]
          /\ \/ /\ Launch(Poller, t, seen[t])
                /\ polled' = [polled EXCEPT ![t] = @ + 1]
             \* start() raises: only the except clause of the loop runs
             \/ /\ SpawnMayFail
                /\ UNCHANGED <<runVars, polled>>
     \* nothing to do, or an HTTP call reserved the slot meanwhile
     \/ /\ busy \/ \A t \in Tasks : ~Fresh(t)
        /\ UNCHANGED <<stateVars, lastCommand, polled, runVars>>
  /\ UNCHANGED <<scan, plcVars, latest, bankVars, calls, stopped>>

-----------------------------------------------------------------------------
(* execute() from an HTTP handler thread; when the slot is taken begin()    *)
(* fails and the answer is 409 GATEWAY_BUSY.                                *)

HttpCall(c, t, v) ==
  /\ runPc[c] = Idle
  /\ calls[c] < MaxCalls
  /\ calls' = [calls EXCEPT ![c] = @ + 1]
  /\ \/ Begin(t) /\ Launch(c, t, v)
     \/ busy /\ UNCHANGED <<stateVars, runVars>>
  /\ UNCHANGED <<plcVars, latest, bankVars, pollVars, stopped>>

-----------------------------------------------------------------------------
(* _execute_reserved, step by step, for the runner r.                       *)

Advance(r, from, to) ==
  /\ runPc[r] = from
  /\ runPc' = [runPc EXCEPT ![r] = to]

\* Mutant: the old result stays readable while the task runs.
RunResetSkipped(r) ==
  /\ Advance(r, "reset", "infer")
  /\ UNCHANGED <<bankVars, runTask, runCommand, runId, runEdge, runSlots, runCode,
                 plcVars, stateVars, latest, pollVars, calls, stopped>>

RunReset(r) ==
  /\ Advance(r, "reset", "infer")
  /\ result' = [result EXCEPT ![runTask[r]] = NONE]
  /\ resultBy' = [resultBy EXCEPT ![runTask[r]] = NoAnswer]
  /\ UNCHANGED <<coords, runTask, runCommand, runId, runEdge, runSlots, runCode,
                 plcVars, stateVars, latest, pollVars, calls, stopped>>

\* run_partition / run_tube: the request to the Runtime leaves now, so the
\* image answers the trigger edges raised so far.  The outcome is the
\* analysis' OK or NG, or an exception, which ends as NG; a coordinate run
\* also gets the slots it recognised.
RunInfer(r) ==
  /\ \/ /\ Advance(r, "infer", "publish")
        /\ \/ runTask[r] # "coordinate" /\ runCode' = [runCode EXCEPT ![r] = OK]
           \/ runCode' = [runCode EXCEPT ![r] = NG]
        /\ runSlots' = [runSlots EXCEPT ![r] = {}]
     \/ /\ runTask[r] = "coordinate"
        /\ Advance(r, "infer", "coords")
        /\ \E code \in {OK, NG} : runCode' = [runCode EXCEPT ![r] = code]
        /\ \E found \in SUBSET Slots : runSlots' = [runSlots EXCEPT ![r] = found]
  /\ runEdge' = [runEdge EXCEPT ![r] = raises[runTask[r]]]
  /\ UNCHANGED <<runTask, runCommand, runId, plcVars, stateVars, latest,
                 bankVars, pollVars, calls, stopped>>

\* CoordinateMapper.write: the slots not found keep what they held.  Saving
\* the debug files afterwards may raise, which turns the result into NG.
RunCoords(r) ==
  /\ Advance(r, "coords", "publish")
  /\ coords' = [s \in Slots |-> IF s \in runSlots[r] THEN runId[r] ELSE coords[s]]
  /\ \/ runCode' = [runCode EXCEPT ![r] = IF AlwaysOk THEN OK ELSE @]
     \/ runCode' = [runCode EXCEPT ![r] = NG]
  /\ UNCHANGED <<result, resultBy, runTask, runCommand, runId, runEdge, runSlots,
                 plcVars, stateVars, latest, pollVars, calls, stopped>>

RunPublish(r) ==
  /\ Advance(r, "publish", "record")
  /\ result' = [result EXCEPT ![runTask[r]] = runCode[r]]
  /\ resultBy' = [resultBy EXCEPT ![runTask[r]] =
                    [run |-> runId[r], edge |-> runEdge[r],
                     command |-> runCommand[r], slots |-> runSlots[r]]]
  /\ UNCHANGED <<coords, runTask, runCommand, runId, runEdge, runSlots, runCode,
                 plcVars, stateVars, latest, pollVars, calls, stopped>>

\* record_success or record_failure: the decision becomes the latest one.
RunRecord(r) ==
  /\ Advance(r, "record", "finish")
  /\ latest' = [latest EXCEPT ![runTask[r]] = runId[r]]
  /\ UNCHANGED <<runTask, runCommand, runId, runEdge, runSlots, runCode,
                 plcVars, stateVars, bankVars, pollVars, calls, stopped>>

\* The finally clause: GatewayState.finish.  The run's locals are gone.
RunFinish(r) ==
  /\ Advance(r, "finish", Idle)
  /\ busy' = FALSE
  /\ activeTask' = Idle
  /\ runTask' = [runTask EXCEPT ![r] = "partition"]
  /\ runCommand' = [runCommand EXCEPT ![r] = 0]
  /\ runId' = [runId EXCEPT ![r] = 0]
  /\ runEdge' = [runEdge EXCEPT ![r] = 0]
  /\ runSlots' = [runSlots EXCEPT ![r] = {}]
  /\ runCode' = [runCode EXCEPT ![r] = NG]
  /\ UNCHANGED <<attempts, plcVars, latest, bankVars, pollVars, calls, stopped>>

Run(r) ==
  \/ RunReset(r) \/ RunInfer(r) \/ RunCoords(r)
  \/ RunPublish(r) \/ RunRecord(r) \/ RunFinish(r)

-----------------------------------------------------------------------------
Stop ==
  /\ ~stopped
  /\ stopped' = TRUE
  /\ UNCHANGED <<plcVars, stateVars, latest, bankVars, pollVars, runVars, calls>>

Plc ==
  \E t \in PlcTasks :
    \/ PlcLower(t)
    \/ \E v \in PlcValues : PlcRaise(t, v) \/ PlcChange(t, v)

Poll == PollTick \/ PollLook \/ PollErase \/ PollBusy \/ PollRead \/ PollSelect

Http == \E c \in HttpClients, t \in Tasks : \E v \in Commands(t) : HttpCall(c, t, v)

Next == Plc \/ Poll \/ Http \/ (\E r \in Runners : Run(r)) \/ Stop

Spec == Init /\ [][Next]_vars

\* The threads the program started keep running; the PLC, the HTTP clients
\* and the operator who stops the service owe nothing.
Fairness == WF_vars(Poll) /\ \A r \in Runners : WF_vars(Run(r))
FairSpec == Spec /\ Fairness

-----------------------------------------------------------------------------
(* Correctness.                                                             *)

TypeOK ==
  /\ trigger \in [Tasks -> TriggerValues]
  /\ result \in [Tasks -> Codes]
  /\ coords \in [Slots -> Nat]
  /\ resultBy \in [Tasks -> [run : Nat, edge : Nat, command : TriggerValues,
                             slots : SUBSET Slots]]
  /\ lastCommand \in [Tasks -> TriggerValues]
  /\ busy \in BOOLEAN /\ activeTask \in Tasks \cup {Idle}
  /\ attempts \in Nat /\ latest \in [Tasks -> Nat]
  /\ pollPc \in {"wait", "look", "erase", "busy?", "read", "select", "exited"}
  /\ scan \in 1 .. 3 /\ seen \in [Tasks -> TriggerValues]
  /\ runPc \in [Runners -> {Idle, "reset", "infer", "coords", "publish", "record", "finish"}]
  /\ runTask \in [Runners -> Tasks]
  /\ runCommand \in [Runners -> TriggerValues]
  /\ runId \in [Runners -> Nat] /\ runEdge \in [Runners -> Nat]
  /\ runSlots \in [Runners -> SUBSET Slots] /\ runCode \in [Runners -> {OK, NG}]
  /\ raises \in [Tasks -> Nat] /\ polled \in [Tasks -> Nat]
  /\ calls \in [HttpClients -> Nat] /\ stopped \in BOOLEAN

Active(r) == runPc[r] # Idle

\* At most one task executes at any time, whoever asked for it, and the slot
\* is marked busy for that task as long as it does.
OneExecution ==
  \A r \in Runners : Active(r) =>
    /\ busy /\ activeTask = runTask[r]
    /\ \A q \in Runners : Active(q) => q = r

\* However the PLC moves a trigger, the poller runs a task at most once per
\* rising edge: a trigger held up, or seen twice, is not executed again.
OneRunPerEdge == \A t \in Tasks : polled[t] <= raises[t]

\* While register 3 reads OK, every slot that run recognised holds that run's
\* coordinates: no later run has begun to overwrite the block the PLC reads.
CoordinatesMatchResult ==
  result["coordinate"] = OK =>
    \A s \in resultBy["coordinate"].slots : coords[s] = resultBy["coordinate"].run

\* When no task executes, a result a PLC can read is the one the status
\* endpoints report as the latest decision of the task.
IdleAgreement ==
  ~busy => \A t \in Tasks : result[t] # NONE => latest[t] = resultBy[t].run

\* A PLC that waits, alone on the gateway, never reads a result computed from
\* an image taken before it raised the trigger, or for another command.
ResultAnswersTrigger ==
  \A t \in Tasks : trigger[t] # 0 /\ result[t] # NONE =>
    resultBy[t].edge = raises[t] /\ resultBy[t].command = trigger[t]

\* A result once shown for a trigger stays until the PLC lowers the trigger.
ResultStable ==
  [][\A t \in Tasks : trigger[t] # 0 /\ result[t] # NONE /\ trigger'[t] # 0
        => result'[t] = result[t]]_vars

\* Every trigger is answered, unless the service is stopped.
TriggerAnswered ==
  \A t \in Tasks : (trigger[t] # 0) ~> (result[t] # NONE \/ stopped)

\* Every lowered trigger clears its result, so that the next edge can be sent.
ResultCleared ==
  \A t \in Tasks : (trigger[t] = 0 /\ result[t] # NONE)
                     ~> (result[t] = NONE \/ trigger[t] # 0 \/ stopped)

\* Refinement: a task was looked at when its run has an image or its answer
\* is still in the register.
Looked ==
  [t \in Tasks |-> \/ result[t] # NONE
                  \/ \E r \in Runners : runTask[r] = t /\ runPc[r] \in {"coords", "publish"}]

Protocol == INSTANCE TriggerProtocol
  WITH Values <- TriggerValues, up <- trigger, looked <- Looked, answer <- result

\* A gateway with a waiting PLC and no HTTP caller implements the protocol:
\* one look per edge, taken after the edge, one answer per look.
ImplementsProtocol == Protocol!Spec
=============================================================================
