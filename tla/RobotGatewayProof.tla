------------------------- MODULE RobotGatewayProof --------------------------
(***************************************************************************)
(* Proofs about RobotGateway for every set of HTTP clients, every set of    *)
(* tray slots, every PLC behaviour and every bound.                         *)
(***************************************************************************)
EXTENDS RobotGateway, TLAPS

LEMMA PollOrderType == \A i \in 1 .. 3 : PollOrder[i] \in Tasks
  BY DEF PollOrder, Tasks

LEMMA CommandsType == \A t \in Tasks : Commands(t) \subseteq TriggerValues \ {0}
  BY DEF Commands, TriggerValues, Tasks

Answer == [run : Nat, edge : Nat, command : TriggerValues, slots : SUBSET Slots]

LEMMA ConstantTypes ==
  /\ 0 \in TriggerValues /\ NONE \in Codes /\ OK \in Codes /\ NG \in Codes
  /\ NoAnswer \in Answer
  /\ NothingSeen \in [Tasks -> TriggerValues]
  /\ "partition" \in Tasks
  BY DEF TriggerValues, Codes, NONE, OK, NG, NoAnswer, NothingSeen, Tasks, Answer

(* Type correctness. *)

LEMMA InitType == Init => TypeOK
<1> SUFFICES ASSUME Init PROVE TypeOK
  OBVIOUS
<1> USE ConstantTypes DEF Init
<1>1. /\ trigger \in [Tasks -> TriggerValues] /\ result \in [Tasks -> Codes]
      /\ resultBy \in [Tasks -> Answer] /\ coords \in [Slots -> Nat]
      /\ lastCommand \in [Tasks -> TriggerValues]
  OBVIOUS
<1>2. /\ runPc \in [Runners -> {Idle}] /\ runTask \in [Runners -> Tasks]
      /\ runCommand \in [Runners -> TriggerValues]
      /\ runId \in [Runners -> Nat] /\ runEdge \in [Runners -> Nat]
      /\ runSlots \in [Runners -> SUBSET Slots] /\ runCode \in [Runners -> {OK, NG}]
  OBVIOUS
<1>3. /\ latest \in [Tasks -> Nat] /\ raises \in [Tasks -> Nat]
      /\ polled \in [Tasks -> Nat] /\ calls \in [HttpClients -> Nat]
      /\ seen \in [Tasks -> TriggerValues]
  OBVIOUS
<1>4. activeTask \in Tasks \cup {Idle} /\ pollPc = "wait" /\ attempts \in Nat /\ scan \in 1 .. 3
  OBVIOUS
<1>5. busy = FALSE /\ stopped = FALSE
  OBVIOUS
<1> QED BY <1>1, <1>2, <1>3, <1>4, <1>5 DEF TypeOK, Answer

LEMMA PlcType == ASSUME TypeOK, Plc PROVE TypeOK'
<1>1. PlcValues \subseteq TriggerValues /\ PlcTasks \subseteq Tasks
  BY GatewayAssumption
<1> USE DEF TypeOK, stateVars, bankVars, pollVars, runVars
<1>2. ASSUME NEW t \in PlcTasks, PlcLower(t) PROVE TypeOK'
  BY <1>1, <1>2 DEF PlcLower, PlcWrite, TriggerValues
<1>3. ASSUME NEW t \in PlcTasks, NEW v \in PlcValues, PlcRaise(t, v) PROVE TypeOK'
  BY <1>1, <1>3 DEF PlcRaise, PlcWrite
<1>4. ASSUME NEW t \in PlcTasks, NEW v \in PlcValues, PlcChange(t, v) PROVE TypeOK'
  BY <1>1, <1>4 DEF PlcChange, PlcWrite
<1> QED BY <1>2, <1>3, <1>4 DEF Plc

LEMMA PollType == ASSUME TypeOK, Poll PROVE TypeOK'
<1> USE PollOrderType DEF TypeOK, plcVars, bankVars
<1>1. CASE PollTick BY <1>1 DEF PollTick, stateVars, runVars
<1>2. CASE PollLook
  <2>1. /\ UNCHANGED <<seen, polled, plcVars, stateVars, latest, bankVars, runVars, calls, stopped>>
        /\ lastCommand' \in {lastCommand, [lastCommand EXCEPT ![PollOrder[scan]] = 0]}
        /\ \/ pollPc' = "erase" /\ scan' = scan
           \/ NextScan("busy?")
    BY <1>2 DEF PollLook
  <2>2. pollPc' \in {"look", "erase", "busy?"} /\ scan' \in 1 .. 3
    BY <2>1 DEF NextScan
  <2>3. 0 \in TriggerValues
    BY DEF TriggerValues
  <2> QED BY <2>1, <2>2, <2>3 DEF stateVars, runVars
<1>3. CASE PollErase BY <1>3 DEF PollErase, stateVars, runVars, NextScan, NONE, Codes, NoAnswer, TriggerValues
<1>4. CASE PollBusy BY <1>4 DEF PollBusy, stateVars, runVars
<1>5. CASE PollRead BY <1>5 DEF PollRead, stateVars, runVars
<1>6. CASE PollSelect
  <2>1. /\ pollPc' = "wait" /\ seen' \in [Tasks -> TriggerValues]
        /\ UNCHANGED <<scan, trigger, raises, latest, result, resultBy, coords, calls, stopped>>
    BY <1>6, ConstantTypes DEF PollSelect
  <2>2. CASE UNCHANGED <<stateVars, lastCommand, polled, runVars>>
    BY <2>1, <2>2 DEF stateVars, runVars
  <2>3. ASSUME NEW t \in Tasks, Begin(t),
               lastCommand' = [lastCommand EXCEPT ![t] = seen[t]],
               Launch(Poller, t, seen[t]), polled' = [polled EXCEPT ![t] = @ + 1]
        PROVE  TypeOK'
    <3>1. /\ runPc' = [runPc EXCEPT ![Poller] = "reset"]
          /\ runTask' = [runTask EXCEPT ![Poller] = t]
          /\ runCommand' = [runCommand EXCEPT ![Poller] = seen[t]]
          /\ runId' = [runId EXCEPT ![Poller] = attempts + 1]
          /\ UNCHANGED <<runEdge, runSlots, runCode>>
      BY <2>3 DEF Launch
    <3>2. busy' = TRUE /\ activeTask' = t /\ attempts' \in Nat
      BY <2>3 DEF Begin
    <3>3. lastCommand' \in [Tasks -> TriggerValues]
      BY <2>3
    <3>4. polled' \in [Tasks -> Nat]
      BY <2>3
    <3>5. /\ runPc' \in [Runners -> {Idle, "reset", "infer", "coords", "publish",
                                    "record", "finish"}]
          /\ runTask' \in [Runners -> Tasks]
      BY <3>1
    <3>6. runCommand' \in [Runners -> TriggerValues]
      BY <3>1
    <3>7. attempts + 1 \in Nat /\ runId \in [Runners -> Nat]
      OBVIOUS
    <3>8. runId' \in [Runners -> Nat]
      BY <3>1, <3>7
    <3> QED BY <2>1, <3>1, <3>2, <3>3, <3>4, <3>5, <3>6, <3>8
  <2>4. ASSUME NEW t \in Tasks, Begin(t),
               lastCommand' = [lastCommand EXCEPT ![t] = seen[t]],
               UNCHANGED <<runVars, polled>>
        PROVE  TypeOK'
    BY <2>1, <2>4 DEF Begin, runVars
  <2> QED BY <1>6, <2>2, <2>3, <2>4 DEF PollSelect
<1> QED BY <1>1, <1>2, <1>3, <1>4, <1>5, <1>6 DEF Poll

LEMMA HttpType == ASSUME TypeOK, Http PROVE TypeOK'
<1>1. PICK c \in HttpClients, t \in Tasks : \E v \in Commands(t) : HttpCall(c, t, v)
  BY DEF Http
<1>2. PICK v \in Commands(t) : HttpCall(c, t, v)
  BY <1>1
<1>3. v \in TriggerValues
  BY CommandsType
<1> USE DEF TypeOK, plcVars, bankVars, pollVars
<1>4. CASE Begin(t) /\ Launch(c, t, v)
  BY <1>2, <1>3, <1>4 DEF HttpCall, Begin, Launch, Runners
<1>5. CASE UNCHANGED <<stateVars, runVars>>
  BY <1>2, <1>5 DEF HttpCall, stateVars, runVars
<1> QED BY <1>2, <1>4, <1>5 DEF HttpCall

LEMMA RunType == ASSUME TypeOK, NEW r \in Runners, Run(r) PROVE TypeOK'
<1> USE DEF TypeOK, Advance, plcVars, stateVars, bankVars, pollVars
<1>1. CASE RunReset(r) BY <1>1 DEF RunReset, NoAnswer, NONE, Codes, TriggerValues
<1>2. CASE RunInfer(r)
  <2>1. /\ runPc' \in {[runPc EXCEPT ![r] = "publish"], [runPc EXCEPT ![r] = "coords"]}
        /\ \E code \in {OK, NG} : runCode' = [runCode EXCEPT ![r] = code]
        /\ \E found \in SUBSET Slots : runSlots' = [runSlots EXCEPT ![r] = found]
    BY <1>2 DEF RunInfer
  <2>2. /\ runEdge' = [runEdge EXCEPT ![r] = raises[runTask[r]]]
        /\ UNCHANGED <<runTask, runCommand, runId, plcVars, stateVars, latest, bankVars, pollVars,
                       calls, stopped>>
    BY <1>2 DEF RunInfer
  <2>3. runPc' \in [Runners -> {Idle, "reset", "infer", "coords", "publish", "record", "finish"}]
    BY <2>1
  <2>4. runCode' \in [Runners -> {OK, NG}] /\ runSlots' \in [Runners -> SUBSET Slots]
    BY <2>1
  <2>5. runEdge' \in [Runners -> Nat]
    BY <2>2
  <2> QED BY <2>2, <2>3, <2>4, <2>5
<1>3. CASE RunCoords(r) BY <1>3 DEF RunCoords
<1>4. CASE RunPublish(r) BY <1>4 DEF RunPublish, Codes
<1>5. CASE RunRecord(r) BY <1>5 DEF RunRecord
<1>6. CASE RunFinish(r) BY <1>6, ConstantTypes DEF RunFinish
<1> QED BY <1>1, <1>2, <1>3, <1>4, <1>5, <1>6 DEF Run

\* Every variable keeps its type, for every value of the constants.
THEOREM TypeInvariant == Spec => []TypeOK
<1>1. TypeOK /\ [Next]_vars => TypeOK'
  <2> SUFFICES ASSUME TypeOK, [Next]_vars PROVE TypeOK'
    OBVIOUS
  <2>1. CASE Stop
    BY <2>1 DEF Stop, TypeOK, plcVars, stateVars, bankVars, pollVars, runVars
  <2>2. CASE UNCHANGED vars
    BY <2>2 DEF vars, TypeOK, plcVars, stateVars, bankVars, pollVars, runVars
  <2> QED BY <2>1, <2>2, PlcType, PollType, HttpType, RunType DEF Next
<1> QED BY <1>1, InitType, PTL DEF Spec
-----------------------------------------------------------------------------
(* One execution at a time.  OneExecution is inductive given TypeOK: a run   *)
(* becomes active only where begin() found the slot free, and a free slot    *)
(* has no active run.                                                        *)

LEMMA LaunchKeepsOneExecution ==
  ASSUME TypeOK, OneExecution, NEW r \in Runners, NEW t \in Tasks, NEW c,
         Begin(t), Launch(r, t, c)
  PROVE  OneExecution'
<1>1. \A q \in Runners : ~Active(q)
  BY DEF OneExecution, Begin
<1>2. \A q \in Runners : Active(q)' => q = r
  BY <1>1 DEF Launch, Active, TypeOK
<1>3. runTask'[r] = t
  BY DEF Launch, TypeOK
<1> QED BY <1>2, <1>3 DEF OneExecution, Begin

LEMMA FinishKeepsOneExecution ==
  ASSUME TypeOK, OneExecution, NEW r \in Runners, RunFinish(r)
  PROVE  OneExecution'
<1>1. Active(r)
  BY DEF RunFinish, Advance, Active, Idle
<1>2. \A q \in Runners : ~Active(q)'
  BY <1>1 DEF OneExecution, Active, RunFinish, Advance, TypeOK
<1> QED BY <1>2 DEF OneExecution

LEMMA StepKeepsOneExecution ==
  ASSUME TypeOK, OneExecution, NEW r \in Runners,
         RunReset(r) \/ RunInfer(r) \/ RunCoords(r) \/ RunPublish(r) \/ RunRecord(r)
  PROVE  OneExecution'
<1>1. Active(r) /\ UNCHANGED <<busy, activeTask, runTask>>
  BY DEF RunReset, RunInfer, RunCoords, RunPublish, RunRecord, Advance, Active, Idle,
         stateVars
<1>2. \A q \in Runners \ {r} : runPc'[q] = runPc[q]
  BY DEF RunReset, RunInfer, RunCoords, RunPublish, RunRecord, Advance, TypeOK
<1> QED BY <1>1, <1>2 DEF OneExecution, Active

LEMMA OneExecutionInductive ==
  ASSUME TypeOK, OneExecution, [Next]_vars PROVE OneExecution'
<1>1. CASE UNCHANGED <<stateVars, runVars>>
  BY <1>1 DEF OneExecution, Active, stateVars, runVars
<1>2. CASE Plc
  BY <1>1, <1>2 DEF Plc, PlcLower, PlcRaise, PlcChange, PlcWrite
<1>3. CASE Poll
  <2>1. CASE PollSelect
    <3>1. CASE \E t \in Tasks : Begin(t) /\ Launch(Poller, t, seen[t])
      BY <3>1, LaunchKeepsOneExecution DEF Runners
    <3>2. CASE \E t \in Tasks : Begin(t) /\ UNCHANGED runVars
      BY <3>2 DEF Begin, OneExecution, Active, runVars
    <3>3. CASE UNCHANGED <<stateVars, runVars>>
      BY <3>3, <1>1
    <3> QED BY <2>1, <3>1, <3>2, <3>3 DEF PollSelect
  <2>2. CASE PollTick \/ PollLook \/ PollErase \/ PollBusy \/ PollRead
    BY <1>1, <2>2 DEF PollTick, PollLook, PollErase, PollBusy, PollRead
  <2> QED BY <1>3, <2>1, <2>2 DEF Poll
<1>4. CASE Http
  <2>1. PICK c \in HttpClients, t \in Tasks : \E v \in Commands(t) : HttpCall(c, t, v)
    BY <1>4 DEF Http
  <2>2. PICK v \in Commands(t) : HttpCall(c, t, v)
    BY <2>1
  <2> QED BY <1>1, <2>2, LaunchKeepsOneExecution DEF HttpCall, Runners
<1>5. ASSUME NEW r \in Runners, Run(r) PROVE OneExecution'
  BY <1>5, StepKeepsOneExecution, FinishKeepsOneExecution DEF Run
<1>6. CASE Stop \/ UNCHANGED vars
  BY <1>1, <1>6 DEF Stop, vars
<1> QED BY <1>2, <1>3, <1>4, <1>5, <1>6 DEF Next

LEMMA OneExecutionInit == Init => OneExecution
  BY DEF Init, OneExecution, Active

\* At most one task executes, for any number of HTTP clients and however the
\* PLC moves its triggers, even when Thread.start() fails.
THEOREM MutualExclusion == Spec => []OneExecution
<1>1. TypeOK /\ OneExecution /\ [Next]_vars => OneExecution'
  BY OneExecutionInductive
<1> QED BY <1>1, OneExecutionInit, TypeInvariant, PTL DEF Spec

-----------------------------------------------------------------------------
(* One run per edge.  While a command may still be taken (last_commands is   *)
(* 0 and the register, or the value the poller read from it, is not) the     *)
(* edge that brought it has not been run.                                    *)

EdgeInv ==
  /\ OneRunPerEdge
  /\ \A t \in Tasks : lastCommand[t] = 0 /\ (trigger[t] # 0 \/ seen[t] # 0)
                        => polled[t] < raises[t]
  /\ pollPc \notin {"read", "select"} => seen = NothingSeen

LEMMA EdgeInit == Init => EdgeInv
  BY DEF Init, EdgeInv, OneRunPerEdge, NothingSeen

LEMMA PlcEdge == ASSUME TypeOK, EdgeInv, Plc PROVE EdgeInv'
<1>1. UNCHANGED pollVars
  BY DEF Plc, PlcLower, PlcRaise, PlcChange, PlcWrite
<1>2. PICK t \in Tasks, v \in TriggerValues : PlcLower(t) \/ PlcRaise(t, v) \/ PlcChange(t, v)
  BY GatewayAssumption DEF Plc, TriggerValues
<1>3. CASE PlcLower(t)
  BY <1>1, <1>3 DEF PlcLower, PlcWrite, EdgeInv, OneRunPerEdge, pollVars, TypeOK
<1>4. CASE PlcRaise(t, v)
  <2>1. /\ raises'[t] = raises[t] + 1
        /\ \A u \in Tasks \ {t} : raises'[u] = raises[u] /\ trigger'[u] = trigger[u]
    BY <1>4 DEF PlcRaise, PlcWrite, TypeOK
  <2>2. polled[t] \in Nat /\ raises[t] \in Nat
    BY DEF TypeOK
  <2> QED BY <1>1, <2>1, <2>2 DEF EdgeInv, OneRunPerEdge, pollVars
<1>5. CASE PlcChange(t, v)
  BY <1>1, <1>5 DEF PlcChange, PlcWrite, EdgeInv, OneRunPerEdge, pollVars, TypeOK
<1> QED BY <1>2, <1>3, <1>4, <1>5

LEMMA PollEdge == ASSUME TypeOK, EdgeInv, Poll PROVE EdgeInv'
<1>1. UNCHANGED plcVars
  BY DEF Poll, PollTick, PollLook, PollErase, PollBusy, PollRead, PollSelect
<1> USE <1>1 DEF EdgeInv, OneRunPerEdge, plcVars
<1>2. CASE PollTick BY <1>2 DEF PollTick
<1>3. CASE PollLook
  BY <1>3, PollOrderType DEF PollLook, NextScan, TypeOK, NothingSeen
<1>4. CASE PollErase BY <1>4 DEF PollErase, NextScan
<1>5. CASE PollBusy BY <1>5 DEF PollBusy
<1>6. CASE PollRead
  <2>1. PICK t \in Tasks : seen' = [seen EXCEPT ![t] = trigger[t]]
    BY <1>6, PollOrderType DEF PollRead, TypeOK
  <2>2. UNCHANGED <<lastCommand, polled>> /\ pollPc \in {"read", "select"}
        /\ pollPc' \in {"read", "select"}
    BY <1>6 DEF PollRead
  <2> QED BY <2>1, <2>2 DEF TypeOK
<1>7. CASE PollSelect
  <2>1. seen' = NothingSeen /\ pollPc' = "wait"
    BY <1>7 DEF PollSelect
  <2>2. CASE UNCHANGED <<lastCommand, polled>>
    BY <2>1, <2>2 DEF NothingSeen
  <2>3. ASSUME NEW t \in Tasks, Chosen(t),
               lastCommand' = [lastCommand EXCEPT ![t] = seen[t]],
               polled' = [polled EXCEPT ![t] = @ + 1] \/ UNCHANGED polled
        PROVE  EdgeInv'
    <3>1. seen[t] # 0 /\ lastCommand[t] = 0
      BY <2>3, CommandsType DEF Chosen, Fresh
    <3>2. polled[t] < raises[t] /\ polled[t] \in Nat /\ raises[t] \in Nat
      BY <3>1 DEF TypeOK
    <3>3. lastCommand'[t] # 0
      BY <2>3, <3>1 DEF TypeOK
    <3>4. \A u \in Tasks \ {t} : lastCommand'[u] = lastCommand[u] /\ polled'[u] = polled[u]
      BY <2>3 DEF TypeOK
    <3>5. polled'[t] <= raises[t]
      BY <2>3, <3>2 DEF TypeOK
    <3> QED BY <2>1, <3>3, <3>4, <3>5 DEF NothingSeen
  <2> QED BY <1>7, <2>2, <2>3 DEF PollSelect
<1> QED BY <1>2, <1>3, <1>4, <1>5, <1>6, <1>7 DEF Poll

LEMMA EdgeInductive == ASSUME TypeOK, EdgeInv, [Next]_vars PROVE EdgeInv'
<1>1. CASE UNCHANGED <<plcVars, pollVars>>
  BY <1>1 DEF EdgeInv, OneRunPerEdge, plcVars, pollVars
<1>2. CASE Http
  BY <1>1, <1>2 DEF Http, HttpCall
<1>3. ASSUME NEW r \in Runners, Run(r) PROVE EdgeInv'
  BY <1>1, <1>3 DEF Run, RunReset, RunInfer, RunCoords, RunPublish, RunRecord, RunFinish
<1>4. CASE Stop \/ UNCHANGED vars
  BY <1>1, <1>4 DEF Stop, vars
<1> QED BY <1>2, <1>3, <1>4, PlcEdge, PollEdge DEF Next

\* The poller starts a task at most once per rising edge of its trigger, for
\* a PLC that follows the handshake and for one that does not.
THEOREM RunsPerEdge == Spec => []OneRunPerEdge
<1>1. TypeOK /\ EdgeInv /\ [Next]_vars => EdgeInv'
  BY EdgeInductive
<1>2. EdgeInv => OneRunPerEdge
  BY DEF EdgeInv
<1> QED BY <1>1, <1>2, EdgeInit, TypeInvariant, PTL DEF Spec
-----------------------------------------------------------------------------
(* What a result register says.  From its reset to its publication a run     *)
(* keeps its register at NONE, so the coordinate block only changes while    *)
(* register 3 reads NONE; and a published result is recorded before the      *)
(* slot is given back.                                                       *)

Blank(r) == runPc[r] \in {"infer", "coords", "publish"} => result[runTask[r]] = NONE
WroteSlots(r) ==
  runPc[r] = "publish" /\ runTask[r] = "coordinate" /\ runCode[r] = OK =>
    \A s \in runSlots[r] : coords[s] = runId[r]
Unrecorded(r, t) == runPc[r] = "record" /\ runTask[r] = t /\ runId[r] = resultBy[t].run

ResultInv ==
  /\ CoordinatesMatchResult
  /\ \A r \in Runners :
       /\ Blank(r) /\ WroteSlots(r)
       /\ runPc[r] = "coords" => runTask[r] = "coordinate"
       /\ runPc[r] = "record" /\ result[runTask[r]] # NONE => Unrecorded(r, runTask[r])
  /\ \A t \in Tasks : result[t] # NONE =>
       latest[t] = resultBy[t].run \/ \E r \in Runners : Unrecorded(r, t)

LEMMA ResultInit == Init => ResultInv
  BY DEF Init, ResultInv, CoordinatesMatchResult, Blank, WroteSlots, NONE, OK, Idle, Tasks

LEMMA ResultFrame ==
  ASSUME ResultInv, UNCHANGED <<bankVars, latest, runVars>> PROVE ResultInv'
  BY DEF ResultInv, CoordinatesMatchResult, Blank, WroteSlots, Unrecorded, bankVars, runVars

LEMMA LaunchResult ==
  ASSUME TypeOK, OneExecution, ResultInv, NEW r \in Runners, NEW t \in Tasks, NEW c,
         Begin(t), Launch(r, t, c), UNCHANGED <<bankVars, latest>>
  PROVE  ResultInv'
<1>1. \A q \in Runners : ~Active(q)
  BY DEF OneExecution, Begin
<1>2. \A q \in Runners : runPc'[q] \in {Idle, "reset"}
  BY <1>1 DEF Launch, Active, TypeOK
<1>3. \A q \in Runners, u \in Tasks : ~Unrecorded(q, u)
  BY <1>1 DEF Unrecorded, Active, Idle
<1>4. CoordinatesMatchResult'
  BY DEF ResultInv, CoordinatesMatchResult, bankVars
<1>5. \A u \in Tasks : result'[u] # NONE => latest'[u] = resultBy'[u].run
  BY <1>3 DEF ResultInv, bankVars
<1> QED BY <1>2, <1>4, <1>5 DEF ResultInv, Blank, WroteSlots, Idle

LEMMA EraseResult ==
  ASSUME TypeOK, ResultInv, NEW t \in Tasks,
         result' = [result EXCEPT ![t] = NONE],
         resultBy' = [resultBy EXCEPT ![t] = NoAnswer],
         UNCHANGED <<coords, latest, runVars>>
  PROVE  ResultInv'
<1>1. result'[t] = NONE /\ \A u \in Tasks \ {t} : result'[u] = result[u] /\ resultBy'[u] = resultBy[u]
  BY DEF TypeOK
<1>2. \A r \in Runners : runTask[r] \in Tasks
  BY DEF TypeOK
<1>3. CoordinatesMatchResult'
  BY <1>1 DEF ResultInv, CoordinatesMatchResult, OK, NONE, Tasks
<1>4. \A r \in Runners : Blank(r)' /\ WroteSlots(r)'
  BY <1>1, <1>2 DEF ResultInv, Blank, WroteSlots, runVars
<1>5. \A r \in Runners : runPc[r] = "record" /\ result'[runTask[r]] # NONE
                           => Unrecorded(r, runTask[r])'
  BY <1>1, <1>2 DEF ResultInv, Unrecorded, runVars
<1>6. \A u \in Tasks : result'[u] # NONE =>
        latest[u] = resultBy'[u].run \/ \E r \in Runners : Unrecorded(r, u)'
  BY <1>1 DEF ResultInv, Unrecorded, runVars
<1> QED BY <1>3, <1>4, <1>5, <1>6 DEF ResultInv, runVars

\* The runs other than the one that steps are idle before and after.
LEMMA OthersIdle ==
  ASSUME TypeOK, OneExecution, NEW r \in Runners, NEW from, NEW to,
         from # Idle, Advance(r, from, to)
  PROVE  /\ runPc[r] = from /\ runPc'[r] = to
         /\ \A q \in Runners \ {r} : runPc[q] = Idle /\ runPc'[q] = Idle
<1>1. Active(r) /\ runPc[r] = from /\ runPc'[r] = to
  BY DEF Advance, Active, TypeOK
<1>2. \A q \in Runners \ {r} : runPc[q] = Idle
  BY <1>1 DEF OneExecution, Active
<1> QED BY <1>1, <1>2 DEF Advance, TypeOK

LEMMA RunResult ==
  ASSUME TypeOK, OneExecution, ResultInv, NEW r \in Runners, Run(r)
  PROVE  ResultInv'
<1> DEFINE t == runTask[r]
<1> USE DEF Idle
<1>0. t \in Tasks
  BY DEF TypeOK
<1>1. CASE RunReset(r)
  <2>1. /\ runPc[r] = "reset" /\ runPc'[r] = "infer"
        /\ \A q \in Runners \ {r} : runPc[q] = Idle /\ runPc'[q] = Idle
    BY <1>1, OthersIdle DEF RunReset
  <2>2. /\ result'[t] = NONE
        /\ \A u \in Tasks \ {t} : result'[u] = result[u] /\ resultBy'[u] = resultBy[u]
        /\ UNCHANGED <<coords, latest, runTask, runId, runCode, runSlots>>
    BY <1>0, <1>1 DEF RunReset, TypeOK
  <2>3. CoordinatesMatchResult'
    BY <1>0, <2>2 DEF ResultInv, CoordinatesMatchResult, OK, NONE, Tasks
  <2>4. \A q \in Runners : Blank(q)' /\ WroteSlots(q)'
    BY <1>0, <2>1, <2>2 DEF Blank, WroteSlots
  <2>5. \A u \in Tasks : result'[u] # NONE => latest'[u] = resultBy'[u].run
    BY <1>0, <2>1, <2>2 DEF ResultInv, Unrecorded
  <2> QED BY <2>1, <2>3, <2>4, <2>5 DEF ResultInv
<1>2. CASE RunInfer(r)
  <2>1. /\ runPc[r] = "infer" /\ runPc'[r] \in {"publish", "coords"}
        /\ \A q \in Runners \ {r} : runPc[q] = Idle /\ runPc'[q] = Idle
    BY <1>2, OthersIdle DEF RunInfer
  <2>2. UNCHANGED <<coords, latest, runTask, runId, result, resultBy>>
    BY <1>2 DEF RunInfer, bankVars
  <2>3. runPc'[r] = "coords" => t = "coordinate"
    BY <1>2, <2>1 DEF RunInfer, Advance, TypeOK
  <2>4. runPc'[r] = "publish" /\ t = "coordinate" => runCode'[r] = NG
    <3> SUFFICES ASSUME runPc'[r] = "publish", t = "coordinate" PROVE runCode'[r] = NG
      OBVIOUS
    <3> QED BY <1>2 DEF RunInfer, Advance, TypeOK
  <2>5. \A q \in Runners : Blank(q)' /\ WroteSlots(q)'
    BY <2>1, <2>2, <2>4 DEF ResultInv, Blank, WroteSlots, NG, OK
  <2>6. \A u \in Tasks : result'[u] # NONE => latest'[u] = resultBy'[u].run
    BY <2>1, <2>2 DEF ResultInv, Unrecorded
  <2>7. CoordinatesMatchResult'
    BY <2>2 DEF ResultInv, CoordinatesMatchResult
  <2> QED BY <2>1, <2>2, <2>3, <2>5, <2>6, <2>7 DEF ResultInv
<1>3. CASE RunCoords(r)
  <2>1. /\ runPc[r] = "coords" /\ runPc'[r] = "publish"
        /\ \A q \in Runners \ {r} : runPc[q] = Idle /\ runPc'[q] = Idle
    BY <1>3, OthersIdle DEF RunCoords
  <2>2. UNCHANGED <<latest, runTask, runId, runSlots, result, resultBy>>
    BY <1>3 DEF RunCoords
  <2>3. t = "coordinate" /\ result["coordinate"] = NONE
    BY <2>1 DEF ResultInv, Blank
  <2>4. \A s \in runSlots[r] : coords'[s] = runId[r]
    BY <1>3 DEF RunCoords, TypeOK
  <2>5. \A q \in Runners : Blank(q)' /\ WroteSlots(q)'
    BY <2>1, <2>2, <2>3, <2>4 DEF Blank, WroteSlots
  <2>6. \A u \in Tasks : result'[u] # NONE => latest'[u] = resultBy'[u].run
    BY <2>1, <2>2 DEF ResultInv, Unrecorded
  <2>7. CoordinatesMatchResult'
    BY <2>2, <2>3 DEF CoordinatesMatchResult, NONE, OK
  <2> QED BY <2>1, <2>2, <2>5, <2>6, <2>7 DEF ResultInv
<1>4. CASE RunPublish(r)
  <2>1. /\ runPc[r] = "publish" /\ runPc'[r] = "record"
        /\ \A q \in Runners \ {r} : runPc[q] = Idle /\ runPc'[q] = Idle
    BY <1>4, OthersIdle DEF RunPublish
  <2>2. /\ UNCHANGED <<coords, latest, runTask, runId>>
        /\ \A u \in Tasks \ {t} : result'[u] = result[u] /\ resultBy'[u] = resultBy[u]
        /\ result'[t] = runCode[r]
        /\ resultBy'[t] = [run |-> runId[r], edge |-> runEdge[r],
                           command |-> runCommand[r], slots |-> runSlots[r]]
    BY <1>0, <1>4 DEF RunPublish, TypeOK
  <2>3. resultBy'[t].run = runId[r] /\ resultBy'[t].slots = runSlots[r]
    BY <2>2
  <2>4. CoordinatesMatchResult'
    <3>1. CASE t = "coordinate"
      BY <2>1, <2>2, <2>3, <3>1 DEF ResultInv, WroteSlots, CoordinatesMatchResult
    <3>2. CASE t # "coordinate"
      BY <2>2, <3>2 DEF ResultInv, CoordinatesMatchResult, Tasks
    <3> QED BY <3>1, <3>2
  <2>5. \A q \in Runners : Blank(q)' /\ WroteSlots(q)'
    BY <2>1 DEF Blank, WroteSlots
  <2>6. Unrecorded(r, t)'
    BY <2>1, <2>2, <2>3 DEF Unrecorded
  <2>7. \A u \in Tasks \ {t} : result'[u] # NONE => latest'[u] = resultBy'[u].run
    BY <2>1, <2>2 DEF ResultInv, Unrecorded
  <2>8. runTask'[r] = t
    BY <2>2
  <2> QED BY <2>1, <2>4, <2>5, <2>6, <2>7, <2>8 DEF ResultInv
<1>5. CASE RunRecord(r)
  <2>1. /\ runPc[r] = "record" /\ runPc'[r] = "finish"
        /\ \A q \in Runners \ {r} : runPc[q] = Idle /\ runPc'[q] = Idle
    BY <1>5, OthersIdle DEF RunRecord
  <2>2. /\ UNCHANGED <<coords, result, resultBy>>
        /\ latest'[t] = runId[r]
        /\ \A u \in Tasks \ {t} : latest'[u] = latest[u]
    BY <1>0, <1>5 DEF RunRecord, TypeOK, bankVars
  <2>3. \A u \in Tasks : result'[u] # NONE => latest'[u] = resultBy'[u].run
    BY <2>1, <2>2 DEF ResultInv, Unrecorded
  <2>4. CoordinatesMatchResult'
    BY <2>2 DEF ResultInv, CoordinatesMatchResult
  <2> QED BY <2>1, <2>3, <2>4 DEF ResultInv, Blank, WroteSlots
<1>6. CASE RunFinish(r)
  <2>1. /\ runPc[r] = "finish" /\ runPc'[r] = Idle
        /\ \A q \in Runners \ {r} : runPc[q] = Idle /\ runPc'[q] = Idle
    BY <1>6, OthersIdle DEF RunFinish
  <2>2. UNCHANGED <<coords, result, resultBy, latest>>
    BY <1>6 DEF RunFinish, bankVars
  <2>3. \A u \in Tasks : result'[u] # NONE => latest'[u] = resultBy'[u].run
    BY <2>1, <2>2 DEF ResultInv, Unrecorded
  <2>4. CoordinatesMatchResult'
    BY <2>2 DEF ResultInv, CoordinatesMatchResult
  <2> QED BY <2>1, <2>3, <2>4 DEF ResultInv, Blank, WroteSlots
<1> QED BY <1>1, <1>2, <1>3, <1>4, <1>5, <1>6 DEF Run

LEMMA ResultInductive ==
  ASSUME TypeOK, OneExecution, ResultInv, [Next]_vars PROVE ResultInv'
<1>1. CASE Plc
  BY <1>1, ResultFrame DEF Plc, PlcLower, PlcRaise, PlcChange, PlcWrite
<1>2. CASE Poll
  <2>1. CASE PollErase
    BY <2>1, EraseResult, PollOrderType DEF PollErase, TypeOK
  <2>2. CASE PollSelect
    <3>1. UNCHANGED <<bankVars, latest>>
      BY <2>2 DEF PollSelect
    <3>2. CASE UNCHANGED runVars
      BY <3>1, <3>2, ResultFrame
    <3>3. CASE \E t \in Tasks : Begin(t) /\ Launch(Poller, t, seen[t])
      BY <3>1, <3>3, LaunchResult DEF Runners
    <3> QED BY <2>2, <3>2, <3>3 DEF PollSelect
  <2>3. CASE PollTick \/ PollLook \/ PollBusy \/ PollRead
    BY <2>3, ResultFrame DEF PollTick, PollLook, PollBusy, PollRead
  <2> QED BY <1>2, <2>1, <2>2, <2>3 DEF Poll
<1>3. CASE Http
  <2>1. PICK c \in HttpClients, t \in Tasks : \E v \in Commands(t) : HttpCall(c, t, v)
    BY <1>3 DEF Http
  <2>2. PICK v \in Commands(t) : HttpCall(c, t, v)
    BY <2>1
  <2>3. UNCHANGED <<bankVars, latest>>
    BY <2>2 DEF HttpCall
  <2> QED BY <2>2, <2>3, LaunchResult, ResultFrame DEF HttpCall, Runners
<1>4. CASE Stop \/ UNCHANGED vars
  BY <1>4, ResultFrame DEF Stop, vars
<1> QED BY <1>1, <1>2, <1>3, <1>4, RunResult DEF Next

LEMMA ResultAlways == Spec => []ResultInv
<1>1. TypeOK /\ OneExecution /\ ResultInv /\ [Next]_vars => ResultInv'
  BY ResultInductive
<1> QED BY <1>1, ResultInit, TypeInvariant, MutualExclusion, PTL DEF Spec

\* OK in register 3 never stands beside coordinates of a later run, for any
\* number of slots and of concurrent callers.
THEOREM CoordinatesCoherent == Spec => []CoordinatesMatchResult
<1>1. ResultInv => CoordinatesMatchResult
  BY DEF ResultInv
<1> QED BY <1>1, ResultAlways, PTL

\* Whenever the slot is free, the results in the registers are the decisions
\* the status endpoints report.
THEOREM ReportsAgree == Spec => []IdleAgreement
<1>1. ResultInv /\ OneExecution => IdleAgreement
  BY DEF ResultInv, OneExecution, IdleAgreement, Unrecorded, Active, Idle
<1> QED BY <1>1, ResultAlways, MutualExclusion, PTL
-----------------------------------------------------------------------------
(* The handshake.  With a PLC that waits and nobody else on the gateway, a   *)
(* register that still reads NONE belongs to a trigger that is up, and the   *)
(* run that serves it was started by the edge that is up.                    *)

Serving(r) == runPc[r] \in {"reset", "infer", "coords", "publish"}

HandshakeInv ==
  /\ ResultAnswersTrigger
  /\ \A t \in Tasks : lastCommand[t] = 0 /\ trigger[t] # 0 => result[t] = NONE
  /\ \A t \in Tasks : lastCommand[t] = 0 /\ seen[t] # 0
                        => trigger[t] = seen[t] /\ result[t] = NONE
  /\ pollPc \notin {"read", "select"} => seen = NothingSeen
  /\ pollPc = "erase" => lastCommand[PollOrder[scan]] = 0
  /\ Serving(Poller) =>
       LET t == runTask[Poller] IN
       /\ trigger[t] # 0 /\ runCommand[Poller] = trigger[t]
       /\ lastCommand[t] # 0 /\ result[t] = NONE
       /\ runPc[Poller] \in {"coords", "publish"} => runEdge[Poller] = raises[t]

LEMMA HandshakeInit == Init => HandshakeInv
  BY PollOrderType DEF Init, HandshakeInv, ResultAnswersTrigger, NothingSeen, Serving,
     Idle, Runners

LEMMA HandshakePlc ==
  ASSUME TypeOK, HandshakeInv, PlcWaits, Plc PROVE HandshakeInv'
<1>1. UNCHANGED <<pollVars, runVars, result, resultBy>>
  BY DEF Plc, PlcLower, PlcRaise, PlcChange, PlcWrite, bankVars
<1>2. runTask[Poller] \in Tasks
  BY DEF TypeOK, Runners
<1>3. PICK t \in Tasks : PlcLower(t) \/ \E v \in PlcValues : PlcRaise(t, v)
  BY GatewayAssumption DEF Plc, PlcChange
<1> USE <1>1, <1>2 DEF HandshakeInv, ResultAnswersTrigger, Serving, pollVars, runVars
<1>4. CASE PlcLower(t)
  <2>1. /\ result[t] # NONE /\ trigger[t] # 0 /\ UNCHANGED raises
        /\ trigger'[t] = 0 /\ \A u \in Tasks \ {t} : trigger'[u] = trigger[u]
    BY <1>4 DEF PlcLower, PlcWrite, TypeOK
  <2>2. ~(lastCommand[t] = 0 /\ seen[t] # 0)
    BY <2>1
  <2>3. Serving(Poller) => runTask[Poller] # t
    BY <2>1
  <2> QED BY <2>1, <2>2, <2>3
<1>5. ASSUME NEW v \in PlcValues, PlcRaise(t, v) PROVE HandshakeInv'
  <2>1. /\ result[t] = NONE /\ trigger[t] = 0
        /\ \A u \in Tasks \ {t} : trigger'[u] = trigger[u] /\ raises'[u] = raises[u]
    BY <1>5 DEF PlcRaise, PlcWrite, TypeOK
  <2>2. ~(lastCommand[t] = 0 /\ seen[t] # 0)
    BY <2>1
  <2>3. Serving(Poller) => runTask[Poller] # t
    BY <2>1
  <2> QED BY <2>1, <2>2, <2>3
<1> QED BY <1>3, <1>4, <1>5

LEMMA HandshakePoll ==
  ASSUME TypeOK, OneExecution, HandshakeInv, PlcWaits, Poll PROVE HandshakeInv'
<1>1. UNCHANGED plcVars
  BY DEF Poll, PollTick, PollLook, PollErase, PollBusy, PollRead, PollSelect
<1>2. runTask[Poller] \in Tasks
  BY DEF TypeOK, Runners
<1> USE <1>1, <1>2 DEF HandshakeInv, ResultAnswersTrigger, Serving, plcVars, runVars
<1>3. CASE PollTick \/ PollBusy
  BY <1>3 DEF PollTick, PollBusy, bankVars
<1>4. CASE PollLook
  <2> DEFINE t == PollOrder[scan]
  <2>1. t \in Tasks
    BY PollOrderType DEF TypeOK
  <2>2. UNCHANGED <<runVars, result, resultBy, seen>> /\ seen = NothingSeen
    BY <1>4 DEF PollLook, bankVars
  <2>3. CASE trigger[t] = 0
    <3>1. /\ lastCommand'[t] = 0 /\ \A u \in Tasks \ {t} : lastCommand'[u] = lastCommand[u]
          /\ pollPc' = "erase" /\ UNCHANGED scan
      BY <1>4, <2>1, <2>3 DEF PollLook, TypeOK
    <3>2. Serving(Poller) => runTask[Poller] # t
      BY <2>3
    <3> QED BY <2>1, <2>2, <2>3, <3>1, <3>2 DEF NothingSeen
  <2>4. CASE trigger[t] # 0
    BY <1>4, <2>2, <2>4 DEF PollLook, NextScan
  <2> QED BY <2>3, <2>4
<1>5. CASE PollErase
  <2> DEFINE t == PollOrder[scan]
  <2>1. t \in Tasks
    BY PollOrderType DEF TypeOK
  <2>2. /\ UNCHANGED <<runVars, seen, lastCommand>> /\ seen = NothingSeen
        /\ result'[t] = NONE
        /\ \A u \in Tasks \ {t} : result'[u] = result[u] /\ resultBy'[u] = resultBy[u]
        /\ pollPc' # "erase" /\ lastCommand[t] = 0
    BY <1>5, <2>1 DEF PollErase, NextScan, TypeOK
  <2> QED BY <2>1, <2>2 DEF NothingSeen
<1>6. CASE PollRead
  <2> DEFINE t == PollOrder[scan]
  <2>1. t \in Tasks
    BY PollOrderType DEF TypeOK
  <2>2. /\ UNCHANGED <<runVars, lastCommand, result, resultBy>>
        /\ seen'[t] = trigger[t] /\ \A u \in Tasks \ {t} : seen'[u] = seen[u]
        /\ pollPc' \in {"read", "select"}
    BY <1>6, <2>1 DEF PollRead, bankVars, TypeOK
  <2> QED BY <2>1, <2>2
<1>7. CASE PollSelect
  <2>1. seen' = NothingSeen /\ pollPc' = "wait" /\ UNCHANGED <<result, resultBy>>
    BY <1>7 DEF PollSelect, bankVars
  <2>2. CASE UNCHANGED <<lastCommand, runVars>>
    BY <2>1, <2>2 DEF NothingSeen
  <2>3. ASSUME NEW t \in Tasks, Begin(t), Chosen(t),
               lastCommand' = [lastCommand EXCEPT ![t] = seen[t]],
               Launch(Poller, t, seen[t]) \/ UNCHANGED runVars
        PROVE  HandshakeInv'
    <3>1. seen[t] # 0 /\ lastCommand[t] = 0 /\ trigger[t] = seen[t] /\ result[t] = NONE
      BY <2>3, CommandsType DEF Chosen, Fresh
    <3>2. lastCommand'[t] # 0 /\ \A u \in Tasks \ {t} : lastCommand'[u] = lastCommand[u]
      BY <2>3, <3>1 DEF TypeOK
    <3>3. ~Serving(Poller)
      BY <2>3 DEF OneExecution, Begin, Active, Idle, Runners
    <3>4. CASE UNCHANGED runVars
      BY <2>1, <3>2, <3>3, <3>4 DEF NothingSeen
    <3>5. CASE Launch(Poller, t, seen[t])
      <4>1. runPc'[Poller] = "reset" /\ runTask'[Poller] = t /\ runCommand'[Poller] = seen[t]
        BY <3>5 DEF Launch, TypeOK, Runners
      <4> QED BY <2>1, <3>1, <3>2, <4>1 DEF NothingSeen
    <3> QED BY <2>3, <3>4, <3>5
  <2> QED BY <1>7, <2>2, <2>3 DEF PollSelect
<1> QED BY <1>3, <1>4, <1>5, <1>6, <1>7 DEF Poll

LEMMA HandshakeRun ==
  ASSUME TypeOK, HandshakeInv, Run(Poller) PROVE HandshakeInv'
<1> DEFINE t == runTask[Poller]
<1>1. t \in Tasks /\ Poller \in Runners
  BY DEF TypeOK, Runners
<1>2. UNCHANGED <<plcVars, pollVars>>
  BY DEF Run, RunReset, RunInfer, RunCoords, RunPublish, RunRecord, RunFinish
<1> USE <1>1, <1>2 DEF HandshakeInv, ResultAnswersTrigger, Serving, plcVars, pollVars, Advance
<1>3. CASE RunReset(Poller)
  <2>1. /\ runPc[Poller] = "reset" /\ runPc'[Poller] = "infer"
        /\ UNCHANGED <<runTask, runCommand>> /\ result'[t] = NONE
        /\ \A u \in Tasks \ {t} : result'[u] = result[u] /\ resultBy'[u] = resultBy[u]
    BY <1>3 DEF RunReset, TypeOK
  <2> QED BY <2>1
<1>4. CASE RunInfer(Poller)
  <2>1. /\ runPc[Poller] = "infer" /\ runPc'[Poller] \in {"coords", "publish"}
        /\ UNCHANGED <<runTask, runCommand, result, resultBy>>
        /\ runEdge'[Poller] = raises[t]
    BY <1>4 DEF RunInfer, TypeOK, bankVars
  <2> QED BY <2>1
<1>5. CASE RunCoords(Poller)
  <2>1. /\ runPc[Poller] = "coords" /\ runPc'[Poller] = "publish"
        /\ UNCHANGED <<runTask, runCommand, runEdge, result, resultBy>>
    BY <1>5 DEF RunCoords, TypeOK
  <2> QED BY <2>1
<1>6. CASE RunPublish(Poller)
  <2>1. /\ runPc[Poller] = "publish" /\ runPc'[Poller] = "record"
        /\ resultBy'[t] = [run |-> runId[Poller], edge |-> runEdge[Poller],
                           command |-> runCommand[Poller], slots |-> runSlots[Poller]]
        /\ \A u \in Tasks \ {t} : result'[u] = result[u] /\ resultBy'[u] = resultBy[u]
    BY <1>6 DEF RunPublish, TypeOK
  <2>2. resultBy'[t].edge = raises[t] /\ resultBy'[t].command = trigger[t]
    BY <2>1
  <2> QED BY <2>1, <2>2
<1>7. CASE RunRecord(Poller)
  <2>1. runPc'[Poller] = "finish" /\ UNCHANGED <<result, resultBy>>
    BY <1>7 DEF RunRecord, TypeOK, bankVars
  <2> QED BY <2>1
<1>8. CASE RunFinish(Poller)
  <2>1. runPc'[Poller] = Idle /\ UNCHANGED <<result, resultBy>>
    BY <1>8 DEF RunFinish, TypeOK, bankVars
  <2> QED BY <2>1 DEF Idle
<1> QED BY <1>3, <1>4, <1>5, <1>6, <1>7, <1>8 DEF Run

LEMMA HandshakeInductive ==
  ASSUME PlcWaits, HttpClients = {}, TypeOK, OneExecution, HandshakeInv, [Next]_vars
  PROVE  HandshakeInv'
<1>1. CASE Stop \/ UNCHANGED vars
  BY <1>1 DEF Stop, vars, plcVars, bankVars, pollVars, runVars, HandshakeInv,
     ResultAnswersTrigger, Serving
<1>2. Runners = {Poller} /\ ~Http
  BY DEF Runners, Http
<1> QED BY <1>1, <1>2, HandshakePlc, HandshakePoll, HandshakeRun DEF Next

\* A PLC that waits, alone on the gateway, only reads results computed after
\* it raised the trigger, and for the command it raised.
THEOREM AnswersTrigger ==
  ASSUME PlcWaits, HttpClients = {} PROVE Spec => []ResultAnswersTrigger
<1>1. TypeOK /\ OneExecution /\ HandshakeInv /\ [Next]_vars => HandshakeInv'
  BY HandshakeInductive
<1>2. HandshakeInv => ResultAnswersTrigger
  BY DEF HandshakeInv
<1> QED BY <1>1, <1>2, HandshakeInit, TypeInvariant, MutualExclusion, PTL DEF Spec

\* One step of such a system leaves a result that answers a trigger alone.
LEMMA StableStep ==
  ASSUME PlcWaits, HttpClients = {}, TypeOK, HandshakeInv, Next,
         NEW t \in Tasks, trigger[t] # 0, result[t] # NONE
  PROVE  result'[t] = result[t]
<1>1. CASE PollErase
  <2> DEFINE u == PollOrder[scan]
  <2>1. u \in Tasks /\ lastCommand[u] = 0 /\ result' = [result EXCEPT ![u] = NONE]
    BY <1>1, PollOrderType DEF PollErase, HandshakeInv, TypeOK
  <2>2. u # t
    BY <2>1 DEF HandshakeInv
  <2> QED BY <2>1, <2>2 DEF TypeOK
<1>2. CASE RunReset(Poller) \/ RunPublish(Poller)
  <2>1. Serving(Poller)
    BY <1>2 DEF RunReset, RunPublish, Advance, Serving
  <2>2. runTask[Poller] # t /\ runTask[Poller] \in Tasks
    BY <2>1 DEF HandshakeInv, TypeOK, Runners
  <2> QED BY <1>2, <2>2 DEF RunReset, RunPublish, TypeOK
<1>3. CASE UNCHANGED result
  BY <1>3
<1>4. Plc \/ Stop => UNCHANGED result
  BY DEF Plc, PlcLower, PlcRaise, PlcChange, PlcWrite, Stop, bankVars
<1>5. Poll => PollErase \/ UNCHANGED result
  BY DEF Poll, PollTick, PollLook, PollBusy, PollRead, PollSelect, bankVars
<1>6. Run(Poller) => RunReset(Poller) \/ RunPublish(Poller) \/ UNCHANGED result
  BY DEF Run, RunInfer, RunCoords, RunRecord, RunFinish, bankVars
<1> QED BY <1>1, <1>2, <1>3, <1>4, <1>5, <1>6 DEF Next, Http, Runners

\* A result shown to a waiting PLC stays until the PLC lowers the trigger.
THEOREM ResultsStay ==
  ASSUME PlcWaits, HttpClients = {} PROVE Spec => ResultStable
<1>1. TypeOK /\ OneExecution /\ HandshakeInv /\ [Next]_vars => HandshakeInv'
  BY HandshakeInductive
<1>2. TypeOK /\ HandshakeInv /\ [Next]_vars =>
        [\A t \in Tasks : trigger[t] # 0 /\ result[t] # NONE /\ trigger'[t] # 0
           => result'[t] = result[t]]_vars
  BY StableStep
<1> QED BY <1>1, <1>2, HandshakeInit, TypeInvariant, MutualExclusion, PTL
        DEF Spec, ResultStable

-----------------------------------------------------------------------------
(* Refinement of TriggerProtocol: resets, polls and records are stutters;    *)
(* RunInfer is a look, RunPublish an answer, PollErase a clear.              *)

LEMMA ProtocolInit == Init => Protocol!Init
  BY DEF Init, Protocol!Init, Looked, NONE, Idle

LEMMA ProtocolStep ==
  ASSUME PlcWaits, HttpClients = {}, TypeOK, OneExecution, HandshakeInv, HandshakeInv',
         [Next]_vars
  PROVE  [\E t \in Tasks : Protocol!Step(t)]_(Protocol!protocolVars)
<1> DEFINE Stutter == UNCHANGED <<trigger, result, Looked>>
<1> USE DEF Protocol!protocolVars
<1>0. Runners = {Poller} /\ ~Http
  BY DEF Runners, Http
<1>a. Looked = [t \in Tasks |-> result[t] # NONE \/ (runTask[Poller] = t /\ runPc[Poller] \in {"coords", "publish"})]
  BY <1>0 DEF Looked
<1>b. Looked' = [t \in Tasks |-> result'[t] # NONE \/ (runTask'[Poller] = t /\ runPc'[Poller] \in {"coords", "publish"})]
  BY <1>0 DEF Looked
<1>1. CASE Stop \/ UNCHANGED vars
  <2>1. UNCHANGED <<trigger, result, runTask, runPc>>
    BY <1>1 DEF Stop, vars, plcVars, bankVars, runVars
  <2> QED BY <2>1, <1>a, <1>b
<1>2. CASE Plc
  <2>1. UNCHANGED <<result, runTask, runPc>>
    BY <1>2 DEF Plc, PlcLower, PlcRaise, PlcChange, PlcWrite, bankVars, runVars
  <2>2. Looked' = Looked
    BY <2>1, <1>a, <1>b
  <2>3. PICK t \in Tasks : PlcLower(t) \/ \E v \in PlcValues : PlcRaise(t, v)
    BY <1>2, GatewayAssumption DEF Plc, PlcChange
  <2>4. CASE PlcLower(t)
    BY <2>1, <2>2, <2>4 DEF PlcLower, PlcWrite, Protocol!Lower, Protocol!Step, NONE
  <2>5. ASSUME NEW v \in PlcValues, PlcRaise(t, v) PROVE Protocol!Step(t)
    <3>1. v \in TriggerValues
      BY GatewayAssumption
    <3>2. Protocol!Raise(t, v)
      BY <2>1, <2>2, <2>5 DEF PlcRaise, PlcWrite, Protocol!Raise, NONE
    <3> QED BY <3>1, <3>2 DEF Protocol!Step
  <2> QED BY <2>3, <2>4, <2>5
<1>3. CASE Poll
  <2>1. CASE PollErase
    <3> DEFINE t == PollOrder[scan]
    <3>1. t \in Tasks /\ lastCommand[t] = 0
      BY <2>1, PollOrderType DEF PollErase, HandshakeInv, TypeOK
    <3>2. UNCHANGED <<trigger, runTask, runPc>> /\ result' = [result EXCEPT ![t] = NONE]
      BY <2>1 DEF PollErase, plcVars, runVars
    <3>3. CASE trigger[t] # 0
      <4>1. result' = result
        BY <3>1, <3>2, <3>3 DEF HandshakeInv, TypeOK
      <4> QED BY <3>2, <4>1, <1>a, <1>b
    <3>4. CASE trigger[t] = 0
      <4>1. ~(Serving(Poller) /\ runTask[Poller] = t)
        BY <3>4 DEF HandshakeInv
      <4>2. Looked' = [Looked EXCEPT ![t] = FALSE]
        BY <3>1, <3>2, <4>1, <1>a, <1>b DEF Serving, TypeOK
      <4>3. Protocol!Clear(t)
        BY <3>2, <3>4, <4>2 DEF Protocol!Clear, NONE
      <4> QED BY <3>1, <4>3 DEF Protocol!Step
    <3> QED BY <3>3, <3>4
  <2>2. CASE PollSelect
    <3>1. UNCHANGED <<trigger, result>>
      BY <2>2 DEF PollSelect, plcVars, bankVars
    <3>2. CASE UNCHANGED runVars
      BY <3>1, <3>2, <1>a, <1>b DEF runVars
    <3>3. CASE \E t \in Tasks : Begin(t) /\ Launch(Poller, t, seen[t])
      <4>1. runPc[Poller] = Idle /\ runPc'[Poller] = "reset"
        BY <3>3, <1>0 DEF OneExecution, Begin, Active, Launch, TypeOK
      <4> QED BY <3>1, <4>1, <1>a, <1>b DEF Idle
    <3> QED BY <2>2, <3>2, <3>3 DEF PollSelect
  <2>3. CASE PollTick \/ PollLook \/ PollBusy \/ PollRead
    <3>1. UNCHANGED <<trigger, result, runTask, runPc>>
      BY <2>3 DEF PollTick, PollLook, PollBusy, PollRead, plcVars, bankVars, runVars
    <3> QED BY <3>1, <1>a, <1>b
  <2> QED BY <1>3, <2>1, <2>2, <2>3 DEF Poll
<1>4. CASE Run(Poller)
  <2> DEFINE t == runTask[Poller]
  <2>0. t \in Tasks /\ Poller \in Runners
    BY <1>0 DEF TypeOK
  <2>1. UNCHANGED trigger
    BY <1>4 DEF Run, RunReset, RunInfer, RunCoords, RunPublish, RunRecord, RunFinish, plcVars
  <2>2. CASE RunReset(Poller)
    <3>1. /\ runPc[Poller] = "reset" /\ runPc'[Poller] = "infer" /\ UNCHANGED runTask
          /\ result' = [result EXCEPT ![t] = NONE]
      BY <2>0, <2>2 DEF RunReset, Advance, TypeOK
    <3>2. result' = result
      BY <2>0, <3>1 DEF HandshakeInv, Serving, TypeOK
    <3> QED BY <2>1, <3>1, <3>2, <1>a, <1>b
  <2>3. CASE RunInfer(Poller)
    <3>1. /\ runPc[Poller] = "infer" /\ runPc'[Poller] \in {"coords", "publish"}
          /\ UNCHANGED <<result, runTask>>
      BY <2>0, <2>3 DEF RunInfer, Advance, TypeOK, bankVars
    <3>2. trigger[t] # 0 /\ result[t] = NONE
      BY <3>1 DEF HandshakeInv, Serving
    <3>3. Looked' = [Looked EXCEPT ![t] = TRUE] /\ ~Looked[t]
      BY <2>0, <3>1, <3>2, <1>a, <1>b
    <3>4. Protocol!Look(t)
      BY <2>1, <3>1, <3>2, <3>3 DEF Protocol!Look
    <3> QED BY <2>0, <3>4 DEF Protocol!Step
  <2>4. CASE RunPublish(Poller)
    <3>1. /\ runPc[Poller] = "publish" /\ runPc'[Poller] = "record" /\ UNCHANGED runTask
          /\ result' = [result EXCEPT ![t] = runCode[Poller]]
      BY <2>0, <2>4 DEF RunPublish, Advance, TypeOK
    <3>2. trigger[t] # 0 /\ result[t] = NONE
      BY <3>1 DEF HandshakeInv, Serving
    <3>3. runCode[Poller] \in {1, 2}
      BY <2>0 DEF TypeOK, OK, NG
    <3>a. Looked[t] /\ Looked'[t]
      <4>1. runPc[Poller] \in {"coords", "publish"}
        BY <3>1
      <4>2. result'[t] = runCode[Poller] /\ result'[t] # NONE
        BY <2>0, <3>1, <3>3 DEF TypeOK, NONE
      <4> QED BY <2>0, <4>1, <4>2, <1>a, <1>b
    <3>b. \A u \in Tasks : u # t => Looked'[u] = Looked[u]
      BY <2>0, <3>1, <1>a, <1>b DEF TypeOK
    <3>4. Looked' = Looked /\ Looked[t]
      BY <2>0, <3>a, <3>b, <1>a, <1>b
    <3>5. Protocol!Answer(t, runCode[Poller])
      BY <2>1, <3>1, <3>2, <3>4 DEF Protocol!Answer, NONE
    <3> QED BY <2>0, <3>3, <3>5 DEF Protocol!Step
  <2>5. CASE RunCoords(Poller) \/ RunRecord(Poller)
    <3>1. /\ UNCHANGED <<result, runTask>>
          /\ \/ runPc[Poller] = "coords" /\ runPc'[Poller] = "publish"
             \/ runPc[Poller] = "record" /\ runPc'[Poller] = "finish"
      BY <2>0, <2>5 DEF RunCoords, RunRecord, Advance, TypeOK, bankVars
    <3> QED BY <2>1, <3>1, <1>a, <1>b
  <2>6. CASE RunFinish(Poller)
    <3>1. runPc[Poller] = "finish" /\ runPc'[Poller] = Idle /\ UNCHANGED result
      BY <2>0, <2>6 DEF RunFinish, Advance, TypeOK, bankVars
    <3> QED BY <2>1, <3>1, <1>a, <1>b DEF Idle
  <2> QED BY <1>4, <2>2, <2>3, <2>4, <2>5, <2>6 DEF Run
<1> QED BY <1>0, <1>1, <1>2, <1>3, <1>4 DEF Next

\* A gateway that serves a waiting PLC alone implements the trigger protocol.
THEOREM ProtocolRefinement ==
  ASSUME PlcWaits, HttpClients = {} PROVE Spec => ImplementsProtocol
<1>1. TypeOK /\ OneExecution /\ HandshakeInv /\ [Next]_vars => HandshakeInv'
  BY HandshakeInductive
<1>2. TypeOK /\ OneExecution /\ HandshakeInv /\ HandshakeInv' /\ [Next]_vars =>
        [\E t \in Tasks : Protocol!Step(t)]_(Protocol!protocolVars)
  BY ProtocolStep
<1> QED BY <1>1, <1>2, ProtocolInit, HandshakeInit, TypeInvariant, MutualExclusion, PTL
        DEF Spec, ImplementsProtocol, Protocol!Spec
=============================================================================
