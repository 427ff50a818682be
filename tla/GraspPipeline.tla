--------------------------- MODULE GraspPipeline ----------------------------
(***************************************************************************)
(* The two-thread pipeline of the grasp apps: WebSocket sessions queue      *)
(* triggers, an inference thread serves them before the continuous frames,  *)
(* a bounded result queue hands the packets to a postprocess thread, which  *)
(* answers triggers and broadcasts continuous frames.                       *)
(*                                                                          *)
(* box_grasp and carton_bundle put a trigger's packet with a timeout; the   *)
(* later detergent_grasp and plastic_bag_grasp make room for it (evicts).   *)
(* Each action is one operation on a queue, one send, or one stage.         *)
(***************************************************************************)
EXTENDS Integers, Sequences, FiniteSets

CONSTANTS
  Triggers,      \* the trigger requests robots send, each once
  TrigCap,       \* trigger_queue_size
  ResCap,        \* pipeline.result_queue_size
  Variants,      \* the kinds of app: TRUE makes room for a trigger's packet
  MayStop        \* bound: TRUE when the run includes stop()

ASSUME PipelineAssumption ==
  /\ TrigCap \in Nat \ {0} /\ ResCap \in Nat \ {0}
  /\ Variants \subseteq BOOLEAN /\ MayStop \in BOOLEAN

None == "none"
Frame == "frame"   \* a packet of continuous mode; a trigger's packet is the trigger
ASSUME NoneAssumption == Triggers \cap {None, Frame} = {}

VARIABLES
  evicts,        \* the kind of app this one is; never changes
  reply,         \* what the session has told the robot about its trigger
  triggerQueue, resultQueue,
  continuous,    \* continuous_enabled
  infPc, packet, previous,    \* the inference thread, previous taken back from resultQueue
  postPc, postPacket,         \* the postprocess thread
  answered,      \* triggers whose detection was sent
  triggerDrops,  \* counters["pipeline_trigger_drop"]
  stopping       \* stop_event

sessionVars == <<evicts, reply, continuous, stopping>>
infVars == <<infPc, packet, previous, triggerDrops>>
postVars == <<postPc, postPacket, answered>>
vars == <<sessionVars, triggerQueue, resultQueue, infVars, postVars>>

Replies == {"nothing", "queued", "acked", "refused"}
InfSteps == {"look", "infer", "offer", "evict", "putBack", "wait", "steal", "restore", "replace", "dead"}
PostSteps == {"take", "complete", "send", "dead"}
Packets == Triggers \cup {Frame, None}

IsTrigger(p) == p \in Triggers

HasRoom == Len(resultQueue) < ResCap

Init ==
  /\ evicts \in Variants
  /\ reply = [t \in Triggers |-> "nothing"]
  /\ triggerQueue = <<>> /\ resultQueue = <<>>
  /\ continuous = FALSE /\ stopping = FALSE /\ triggerDrops = 0
  /\ infPc = "look" /\ packet = None /\ previous = None
  /\ postPc = "take" /\ postPacket = None /\ answered = {}

-----------------------------------------------------------------------------
(* The session threads; they run on until stop() has closed their sockets.   *)

Refuse(t) ==
  /\ reply[t] = "nothing" /\ Len(triggerQueue) >= TrigCap
  /\ reply' = [reply EXCEPT ![t] = "refused"]
  /\ UNCHANGED <<evicts, continuous, stopping, triggerQueue, resultQueue, infVars, postVars>>

QueueTrigger(t) ==
  /\ reply[t] = "nothing" /\ Len(triggerQueue) < TrigCap
  /\ triggerQueue' = Append(triggerQueue, t)
  /\ reply' = [reply EXCEPT ![t] = "queued"]
  /\ UNCHANGED <<evicts, continuous, stopping, resultQueue, infVars, postVars>>

\* The acknowledgement goes out after the put; meanwhile the other threads run.
Acknowledge(t) ==
  /\ reply[t] = "queued"
  /\ reply' = [reply EXCEPT ![t] = "acked"]
  /\ UNCHANGED <<evicts, continuous, stopping, triggerQueue, resultQueue, infVars, postVars>>

SetContinuous ==
  /\ continuous' = ~continuous
  /\ UNCHANGED <<evicts, reply, stopping, triggerQueue, resultQueue, infVars, postVars>>

Session ==
  SetContinuous \/ \E t \in Triggers : Refuse(t) \/ QueueTrigger(t) \/ Acknowledge(t)

-----------------------------------------------------------------------------
(* The inference thread.                                                    *)

InfEnd ==
  /\ infPc = "look" /\ stopping /\ infPc' = "dead"
  /\ UNCHANGED <<sessionVars, triggerQueue, resultQueue, packet, previous, triggerDrops, postVars>>

InfTrigger ==
  /\ infPc = "look" /\ ~stopping /\ triggerQueue # <<>>
  /\ triggerQueue' = Tail(triggerQueue)
  /\ packet' = Head(triggerQueue)
  /\ infPc' = "infer"
  /\ UNCHANGED <<sessionVars, resultQueue, previous, triggerDrops, postVars>>

\* Mutant: a continuous frame is taken although a trigger waits.
InfContinuousFirst ==
  /\ infPc = "look" /\ ~stopping /\ continuous
  /\ packet' = Frame
  /\ infPc' = "infer"
  /\ UNCHANGED <<sessionVars, triggerQueue, resultQueue, previous, triggerDrops, postVars>>

\* A continuous frame that is due; no trigger was there at the look before it.
InfContinuous ==
  /\ infPc = "look" /\ ~stopping /\ triggerQueue = <<>> /\ continuous
  /\ packet' = Frame
  /\ infPc' = "infer"
  /\ UNCHANGED <<sessionVars, triggerQueue, resultQueue, previous, triggerDrops, postVars>>

\* The Runtime's answer, or an error: a packet to pass on either way.
InfInferred ==
  /\ infPc = "infer" /\ infPc' = "offer"
  /\ UNCHANGED <<sessionVars, triggerQueue, resultQueue, packet, previous, triggerDrops, postVars>>

\* The first put of _enqueue_packet finds room.
InfPut ==
  /\ infPc = "offer" /\ HasRoom /\ (IsTrigger(packet) /\ evicts => ~stopping)
  /\ resultQueue' = Append(resultQueue, packet)
  /\ infPc' = "look" /\ packet' = None
  /\ UNCHANGED <<sessionVars, triggerQueue, previous, triggerDrops, postVars>>

PostBusy == postPc # "take"

\* put(timeout) gives the trigger up.  The timeout is request_timeout_ms, so
\* the postprocess thread is stuck: a Bridge call and the health request that
\* follows it, or a send, last longer together than the put waits.
InfTimeout ==
  /\ infPc = "offer" /\ ~HasRoom /\ IsTrigger(packet) /\ ~evicts /\ PostBusy
  /\ triggerDrops' = triggerDrops + 1
  /\ infPc' = "look" /\ packet' = None
  /\ UNCHANGED <<sessionVars, triggerQueue, resultQueue, previous, postVars>>

InfFull ==
  /\ infPc = "offer" /\ ~HasRoom
  /\ \/ ~IsTrigger(packet) /\ infPc' = "steal"
     \/ IsTrigger(packet) /\ evicts /\ ~stopping /\ infPc' = "evict"
  /\ UNCHANGED <<sessionVars, triggerQueue, resultQueue, packet, previous, triggerDrops, postVars>>

\* The loop of _enqueue_trigger_packet ends with the service.
InfAbandon ==
  /\ infPc = "offer" /\ IsTrigger(packet) /\ evicts /\ stopping
  /\ infPc' = "dead"
  /\ UNCHANGED <<sessionVars, triggerQueue, resultQueue, packet, previous, triggerDrops, postVars>>

\* A continuous packet took the only place: get_nowait finds an old
\* continuous packet, a trigger's, or nothing.
InfSteal ==
  /\ infPc = "steal"
  /\ \/ resultQueue = <<>> /\ infPc' = "replace" /\ UNCHANGED <<resultQueue, previous>>
     \/ /\ resultQueue # <<>> /\ resultQueue' = Tail(resultQueue)
        /\ IF IsTrigger(Head(resultQueue))
             THEN previous' = Head(resultQueue) /\ infPc' = "restore"
             ELSE infPc' = "replace" /\ UNCHANGED previous
  /\ UNCHANGED <<sessionVars, triggerQueue, packet, triggerDrops, postVars>>

\* The trigger goes back and the new continuous packet is dropped.
InfRestore ==
  /\ infPc = "restore"
  /\ resultQueue' = IF HasRoom THEN Append(resultQueue, previous) ELSE resultQueue
  /\ infPc' = "look" /\ packet' = None /\ previous' = None
  /\ UNCHANGED <<sessionVars, triggerQueue, triggerDrops, postVars>>

InfReplace ==
  /\ infPc = "replace"
  /\ resultQueue' = IF HasRoom THEN Append(resultQueue, packet) ELSE resultQueue
  /\ infPc' = "look" /\ packet' = None
  /\ UNCHANGED <<sessionVars, triggerQueue, previous, triggerDrops, postVars>>

\* Mutant: the loop does not look what it takes away.
InfEvictAny ==
  /\ infPc = "evict" /\ infPc' = "offer"
  /\ resultQueue' = IF resultQueue = <<>> THEN <<>> ELSE Tail(resultQueue)
  /\ UNCHANGED <<sessionVars, triggerQueue, packet, previous, triggerDrops, postVars>>

\* A trigger's packet found the queue full: get_nowait, and a continuous
\* packet is dropped in its favour.
InfEvict ==
  /\ infPc = "evict"
  /\ \/ resultQueue = <<>> /\ infPc' = "offer" /\ UNCHANGED <<resultQueue, previous>>
     \/ /\ resultQueue # <<>> /\ resultQueue' = Tail(resultQueue)
        /\ IF IsTrigger(Head(resultQueue))
             THEN previous' = Head(resultQueue) /\ infPc' = "putBack"
             ELSE infPc' = "offer" /\ UNCHANGED previous
  /\ UNCHANGED <<sessionVars, triggerQueue, packet, triggerDrops, postVars>>

\* Mutant: the packets are swapped.
InfPutBackSwapped ==
  /\ infPc = "putBack"
  /\ resultQueue' = IF HasRoom THEN Append(resultQueue, packet) ELSE resultQueue
  /\ infPc' = "wait" /\ packet' = previous /\ previous' = None
  /\ UNCHANGED <<sessionVars, triggerQueue, triggerDrops, postVars>>

InfPutBack ==
  /\ infPc = "putBack"
  /\ resultQueue' = IF HasRoom THEN Append(resultQueue, previous) ELSE resultQueue
  /\ infPc' = "wait" /\ previous' = None
  /\ UNCHANGED <<sessionVars, triggerQueue, packet, triggerDrops, postVars>>

\* put(timeout=0.1), and another turn when the queue stayed full.
InfWait ==
  /\ infPc = "wait"
  /\ IF HasRoom
       THEN /\ resultQueue' = Append(resultQueue, packet)
            /\ infPc' = "look" /\ packet' = None
       ELSE infPc' = "offer" /\ UNCHANGED <<resultQueue, packet>>
  /\ UNCHANGED <<sessionVars, triggerQueue, previous, triggerDrops, postVars>>

Inference ==
  \/ InfEnd \/ InfTrigger \/ InfContinuous \/ InfInferred \/ InfPut \/ InfTimeout \/ InfFull
  \/ InfAbandon \/ InfSteal \/ InfRestore \/ InfReplace \/ InfEvict \/ InfPutBack \/ InfWait

-----------------------------------------------------------------------------
(* The postprocess thread.                                                  *)

PostEnd ==
  /\ postPc = "take" /\ stopping /\ postPc' = "dead"
  /\ UNCHANGED <<sessionVars, triggerQueue, resultQueue, infVars, postPacket, answered>>

\* A packet to complete; a continuous one may have become too old.
PostTake ==
  /\ postPc = "take" /\ resultQueue # <<>>
  /\ resultQueue' = Tail(resultQueue)
  /\ \/ postPacket' = Head(resultQueue) /\ postPc' = "complete"
     \/ ~IsTrigger(Head(resultQueue)) /\ UNCHANGED <<postPacket, postPc>>
  /\ UNCHANGED <<sessionVars, triggerQueue, infVars, answered>>

\* Decoding and geometry, with a result or a fault to report.
PostComplete ==
  /\ postPc = "complete" /\ postPc' = "send"
  /\ UNCHANGED <<sessionVars, triggerQueue, resultQueue, infVars, postPacket, answered>>

\* To the session of the trigger, or to every client; errors are swallowed.
PostSend ==
  /\ postPc = "send"
  /\ answered' = IF IsTrigger(postPacket) THEN answered \cup {postPacket} ELSE answered
  /\ postPc' = "take" /\ postPacket' = None
  /\ UNCHANGED <<sessionVars, triggerQueue, resultQueue, infVars>>

Postprocess == PostEnd \/ PostTake \/ PostComplete \/ PostSend

-----------------------------------------------------------------------------
Stop ==
  /\ MayStop /\ ~stopping /\ stopping' = TRUE
  /\ UNCHANGED <<evicts, reply, continuous, triggerQueue, resultQueue, infVars, postVars>>

Next == Session \/ Inference \/ Postprocess \/ Stop

Spec == Init /\ [][Next]_vars

\* Both threads run.  The take is strongly fair: between two turns of
\* _enqueue_trigger_packet the queue stays full for 0.1 s, in which a
\* postprocess thread blocked in get() is woken.  A send ends by the socket
\* timeout.  Robots and their acknowledgements owe nothing.
FairSpec ==
  /\ Spec /\ WF_vars(Inference)
  /\ SF_vars(PostTake) /\ WF_vars(PostEnd \/ PostComplete \/ PostSend)

-----------------------------------------------------------------------------
(* Properties.                                                              *)

TypeOK ==
  /\ evicts \in Variants
  /\ reply \in [Triggers -> Replies] /\ continuous \in BOOLEAN /\ stopping \in BOOLEAN
  /\ triggerQueue \in Seq(Triggers) /\ Len(triggerQueue) <= TrigCap
  /\ resultQueue \in Seq(Packets) /\ Len(resultQueue) <= ResCap
  /\ triggerDrops \in Nat
  /\ infPc \in InfSteps /\ packet \in Packets /\ previous \in Packets
  /\ postPc \in PostSteps /\ postPacket \in Packets
  /\ answered \subseteq Triggers

Accepted == {t \in Triggers : reply[t] \in {"queued", "acked"}}

\* How often a trigger stands in the pipeline.
Places(t) ==
  Cardinality({i \in 1..Len(triggerQueue) : triggerQueue[i] = t})
    + Cardinality({i \in 1..Len(resultQueue) : resultQueue[i] = t})
    + Cardinality({p \in {"packet", "previous", "post"} :
                     t = CASE p = "packet" -> packet
                           [] p = "previous" -> previous
                           [] p = "post" -> postPacket})

\* No trigger vanishes and none is doubled: an accepted one is in exactly one
\* place until it is answered, but for those the drop counter accounts for.
NoSilentLoss ==
  LET gone == {t \in Accepted : Places(t) = 0 /\ t \notin answered} IN
  /\ Cardinality(gone) = triggerDrops
  /\ \A t \in Triggers : Places(t) + (IF t \in answered THEN 1 ELSE 0) <= 1

\* The line of triggers, from the head of the pipeline to its end.
One(p) == IF IsTrigger(p) THEN <<p>> ELSE <<>>
TriggerSpots(q) == {i \in 1..Len(q) : IsTrigger(q[i])}
Nth(q, k) ==
  q[CHOOSE i \in TriggerSpots(q) : Cardinality({j \in TriggerSpots(q) : j < i}) = k - 1]
TriggersIn(q) == [k \in 1..Cardinality(TriggerSpots(q)) |-> Nth(q, k)]
Line == One(postPacket) \o One(previous) \o TriggersIn(resultQueue) \o One(packet) \o triggerQueue

Server == INSTANCE TriggerServer WITH line <- Line, lost <- triggerDrops

\* Triggers are answered once each, in the order of their acceptance.
ServesInOrder == Server!Spec

\* A trigger that was accepted is answered, unless the service is stopped,
\* however many continuous frames there are; box_grasp and carton_bundle_grasp
\* may give it up instead, when the result queue stays full until the put times out.
TriggerAnswered ==
  \A t \in Triggers :
    (t \in Accepted) ~> (t \in answered \/ stopping \/ (~evicts /\ Places(t) = 0))
=============================================================================
