-------------------------- MODULE TriggerProtocol ---------------------------
(***************************************************************************)
(* What the gateway promises to a PLC that waits, for each task on its      *)
(* own: between two edges of the trigger exactly one look is taken at the   *)
(* tray, after the edge; its outcome appears in the result register, stays  *)
(* there until the trigger is lowered, and is cleared before the next edge. *)
(***************************************************************************)
EXTENDS Integers

CONSTANTS Tasks, Values

VARIABLES
  up,       \* the trigger of a task: 0, or the command that is up
  looked,   \* a look was taken for the trigger that is up
  answer    \* 0 while there is none, else 1 (OK) or 2 (NG)

protocolVars == <<up, looked, answer>>

Init ==
  /\ up = [t \in Tasks |-> 0]
  /\ looked = [t \in Tasks |-> FALSE]
  /\ answer = [t \in Tasks |-> 0]

Raise(t, v) ==
  /\ up[t] = 0 /\ answer[t] = 0 /\ v # 0
  /\ up' = [up EXCEPT ![t] = v]
  /\ UNCHANGED <<looked, answer>>

Look(t) ==
  /\ up[t] # 0 /\ ~looked[t]
  /\ looked' = [looked EXCEPT ![t] = TRUE]
  /\ UNCHANGED <<up, answer>>

Answer(t, code) ==
  /\ up[t] # 0 /\ looked[t] /\ answer[t] = 0
  /\ answer' = [answer EXCEPT ![t] = code]
  /\ UNCHANGED <<up, looked>>

Lower(t) ==
  /\ up[t] # 0 /\ answer[t] # 0
  /\ up' = [up EXCEPT ![t] = 0]
  /\ UNCHANGED <<looked, answer>>

Clear(t) ==
  /\ up[t] = 0
  /\ looked' = [looked EXCEPT ![t] = FALSE]
  /\ answer' = [answer EXCEPT ![t] = 0]
  /\ UNCHANGED up

Step(t) ==
  \/ Look(t) \/ Lower(t) \/ Clear(t)
  \/ \E v \in Values : Raise(t, v)
  \/ \E code \in {1, 2} : Answer(t, code)

Spec == Init /\ [][\E t \in Tasks : Step(t)]_protocolVars
=============================================================================
