--------------------------- MODULE TriggerServer ----------------------------
(***************************************************************************)
(* What a robot may expect from the trigger mode of a grasp app: accepted   *)
(* triggers stand in a line, are answered one by one from its head, each at *)
(* most once, and leave it otherwise only if the app counts them as lost.   *)
(***************************************************************************)
EXTENDS Naturals, Sequences

CONSTANT Triggers

VARIABLES line, answered, lost
vars == <<line, answered, lost>>

InLine(t) == \E i \in 1..Len(line) : line[i] = t

Init == line = <<>> /\ answered = {} /\ lost = 0

Accept(t) ==
  /\ t \notin answered /\ ~InLine(t)
  /\ line' = Append(line, t)
  /\ UNCHANGED <<answered, lost>>

Answer ==
  /\ line # <<>>
  /\ line' = Tail(line)
  /\ answered' = answered \cup {Head(line)}
  /\ UNCHANGED lost

Lose(i) ==
  /\ line' = [k \in 1..(Len(line) - 1) |-> IF k < i THEN line[k] ELSE line[k + 1]]
  /\ lost' = lost + 1
  /\ UNCHANGED answered

Next == (\E t \in Triggers : Accept(t)) \/ Answer \/ \E i \in 1..Len(line) : Lose(i)

Spec == Init /\ [][Next]_vars
=============================================================================
