-------------------------- MODULE GraspPipelineProof --------------------------
(* NoSilentLoss for any number of triggers and queues of any size.             *)
EXTENDS GraspPipeline, TLAPS, FiniteSetTheorems, SequenceTheorems

(* Counting in a queue.                                                        *)

At(x, t) == IF x = t THEN 1 ELSE 0
Spots(s, t) == {i \in 1..Len(s) : s[i] = t}
Count(s, t) == Cardinality(Spots(s, t))

LEMMA CountType ==
    ASSUME NEW S, NEW s \in Seq(S), NEW t
    PROVE  IsFiniteSet(Spots(s, t)) /\ Count(s, t) \in Nat
<1>1. IsFiniteSet(1..Len(s)) /\ Spots(s, t) \subseteq 1..Len(s)
    BY FS_Interval DEF Spots
<1> QED BY <1>1, FS_Subset, FS_CardinalityType DEF Count

LEMMA CountAppend ==
    ASSUME NEW S, NEW s \in Seq(S), NEW x \in S, NEW t
    PROVE  Count(Append(s, x), t) = Count(s, t) + At(x, t)
<1>1. Append(s, x) \in Seq(S) /\ Len(Append(s, x)) = Len(s) + 1 /\ Len(s) \in Nat
    BY AppendProperties
<1>2. Append(s, x)[Len(s) + 1] = x /\ \A i \in 1..Len(s) : Append(s, x)[i] = s[i]
    BY AppendProperties
<1>3. CASE x = t
    <2>1. Spots(Append(s, x), t) = Spots(s, t) \cup {Len(s) + 1}
        BY <1>1, <1>2, <1>3 DEF Spots
    <2>2. Len(s) + 1 \notin Spots(s, t)
        BY <1>1 DEF Spots
    <2> QED BY <1>3, <2>1, <2>2, CountType, FS_AddElement DEF Count, At
<1>4. CASE x # t
    <2>1. Spots(Append(s, x), t) = Spots(s, t)
        BY <1>1, <1>2, <1>4 DEF Spots
    <2> QED BY <1>4, <2>1, CountType DEF Count, At
<1> QED BY <1>3, <1>4

LEMMA CountTail ==
    ASSUME NEW S, NEW s \in Seq(S), s # <<>>, NEW t
    PROVE  Count(s, t) = Count(Tail(s), t) + At(Head(s), t)
<1> DEFINE later == Spots(s, t) \ {1}
           Next1 == [i \in Spots(Tail(s), t) |-> i + 1]
<1>1. /\ Tail(s) \in Seq(S) /\ Len(s) \in Nat \ {0} /\ Len(Tail(s)) = Len(s) - 1
      /\ Head(s) = s[1] /\ \A i \in 1..Len(Tail(s)) : Tail(s)[i] = s[i + 1]
    BY HeadTailProperties, EmptySeq
<1>2. Next1 \in Bijection(Spots(Tail(s), t), later)
    <2>1. \A i \in Spots(Tail(s), t) : i \in Nat /\ i + 1 \in later
        BY <1>1 DEF Spots
    <2>2. \A j \in later : j - 1 \in Spots(Tail(s), t) /\ (j - 1) + 1 = j
        BY <1>1 DEF Spots
    <2>3. Next1 \in [Spots(Tail(s), t) -> later]
        BY <2>1
    <2>4. \A i, j \in Spots(Tail(s), t) : Next1[i] = Next1[j] => i = j
        BY <2>1
    <2>5. \A j \in later : \E i \in Spots(Tail(s), t) : Next1[i] = j
        BY <2>2
    <2> QED BY <2>3, <2>4, <2>5 DEF Bijection, Injection, Surjection, IsInjective
<1>3. Cardinality(later) = Count(Tail(s), t)
    <2>1. IsFiniteSet(Spots(Tail(s), t))
        BY <1>1, CountType
    <2>2. ExistsBijection(Spots(Tail(s), t), later)
        <3> HIDE DEF later, Next1
        <3> QED BY <1>2 DEF ExistsBijection
    <2> HIDE DEF later
    <2> QED BY <2>1, <2>2, FS_Bijection DEF Count
<1>4. Cardinality(later) = IF 1 \in Spots(s, t) THEN Count(s, t) - 1 ELSE Count(s, t)
    BY CountType, FS_RemoveElement DEF Count
<1>5. 1 \in Spots(s, t) <=> Head(s) = t
    BY <1>1 DEF Spots
<1> QED BY <1>1, <1>3, <1>4, <1>5, CountType DEF At

LEMMA CountEmpty == \A t : Count(<<>>, t) = 0
BY FS_EmptySet DEF Count, Spots

LEMMA HandsCount ==
    ASSUME NEW a, NEW b, NEW c, NEW t
    PROVE  Cardinality({p \in {"packet", "previous", "post"} :
                          t = CASE p = "packet" -> a
                                [] p = "previous" -> b
                                [] p = "post" -> c}) = At(a, t) + At(b, t) + At(c, t)
<1> DEFINE A == IF a = t THEN {"packet"} ELSE {}
           B == IF b = t THEN A \cup {"previous"} ELSE A
           C == IF c = t THEN B \cup {"post"} ELSE B
<1>1. IsFiniteSet(A) /\ Cardinality(A) = At(a, t)
    BY FS_EmptySet, FS_Singleton DEF At
<1>2. IsFiniteSet(B) /\ Cardinality(B) = At(a, t) + At(b, t)
    BY <1>1, FS_AddElement DEF At
<1>3. Cardinality(C) = At(a, t) + At(b, t) + At(c, t)
    BY <1>2, FS_AddElement DEF At
<1>4. {p \in {"packet", "previous", "post"} :
          t = CASE p = "packet" -> a
                [] p = "previous" -> b
                [] p = "post" -> c} = C
    OBVIOUS
<1> QED BY <1>3, <1>4

LEMMA PlacesSum ==
    ASSUME NEW t \in Triggers
    PROVE  Places(t) = Count(triggerQueue, t) + Count(resultQueue, t)
                         + (At(packet, t) + At(previous, t) + At(postPacket, t))
BY HandsCount DEF Places, Count, Spots

LEMMA PlacesSumNext ==
    ASSUME NEW t \in Triggers
    PROVE  Places(t)' = Count(triggerQueue', t) + Count(resultQueue', t)
                         + (At(packet', t) + At(previous', t) + At(postPacket', t))
BY HandsCount DEF Places, Count, Spots

-------------------------------------------------------------------------------
(* Types.                                                                      *)

LEMMA RoomForOne ==
    ASSUME TypeOK, HasRoom, NEW p \in Packets
    PROVE  Append(resultQueue, p) \in Seq(Packets) /\ Len(Append(resultQueue, p)) <= ResCap
BY PipelineAssumption, AppendProperties DEF TypeOK, HasRoom

LEMMA OneTaken ==
    ASSUME TypeOK, resultQueue # <<>>
    PROVE  /\ Tail(resultQueue) \in Seq(Packets) /\ Len(Tail(resultQueue)) < ResCap
           /\ Head(resultQueue) \in Packets
BY PipelineAssumption, HeadTailProperties DEF TypeOK

LEMMA SessionType == TypeOK /\ Session => TypeOK'
<1> SUFFICES ASSUME TypeOK, Session PROVE TypeOK'
    OBVIOUS
<1> USE DEF TypeOK, infVars, postVars
<1>1. CASE SetContinuous
    BY <1>1 DEF SetContinuous
<1>2. ASSUME NEW t \in Triggers, Refuse(t) PROVE TypeOK'
    BY <1>2 DEF Refuse, Replies
<1>3. ASSUME NEW t \in Triggers, QueueTrigger(t) PROVE TypeOK'
    <2>1. Append(triggerQueue, t) \in Seq(Triggers) /\ Len(Append(triggerQueue, t)) <= TrigCap
        BY <1>3, AppendProperties, PipelineAssumption DEF QueueTrigger
    <2> QED BY <1>3, <2>1 DEF QueueTrigger, Replies
<1>4. ASSUME NEW t \in Triggers, Acknowledge(t) PROVE TypeOK'
    BY <1>4 DEF Acknowledge, Replies
<1> QED BY <1>1, <1>2, <1>3, <1>4 DEF Session

LEMMA InferenceType == TypeOK /\ Inference => TypeOK'
<1> SUFFICES ASSUME TypeOK, Inference PROVE TypeOK'
    OBVIOUS
<1> USE DEF TypeOK, sessionVars, postVars, InfSteps, Packets
<1>1. CASE InfEnd \/ InfContinuous \/ InfInferred \/ InfTimeout \/ InfFull \/ InfAbandon
    BY <1>1 DEF InfEnd, InfContinuous, InfInferred, InfTimeout, InfFull, InfAbandon
<1>2. CASE InfTrigger
    <2>1. /\ Tail(triggerQueue) \in Seq(Triggers) /\ Len(Tail(triggerQueue)) <= TrigCap
          /\ Head(triggerQueue) \in Triggers
        BY <1>2, HeadTailProperties, PipelineAssumption DEF InfTrigger
    <2> QED BY <1>2, <2>1 DEF InfTrigger
<1>3. CASE InfPut \/ InfRestore \/ InfReplace \/ InfPutBack \/ InfWait
    BY <1>3, RoomForOne DEF InfPut, InfRestore, InfReplace, InfPutBack, InfWait
<1>4. CASE InfSteal \/ InfEvict
    <2>1. CASE resultQueue = <<>>
        BY <1>4, <2>1 DEF InfSteal, InfEvict
    <2>2. CASE resultQueue # <<>>
        <3>1. /\ resultQueue' = Tail(resultQueue)
              /\ previous' \in {previous, Head(resultQueue)}
              /\ infPc' \in {"restore", "replace", "putBack", "offer"}
            BY <1>4, <2>2 DEF InfSteal, InfEvict
        <3>2. resultQueue' \in Seq(Packets) /\ Len(resultQueue') <= ResCap /\ previous' \in Packets
            BY <2>2, <3>1, OneTaken, PipelineAssumption
        <3> QED BY <1>4, <3>1, <3>2 DEF InfSteal, InfEvict
    <2> QED BY <2>1, <2>2
<1> QED BY <1>1, <1>2, <1>3, <1>4 DEF Inference

LEMMA PostprocessType == TypeOK /\ Postprocess => TypeOK'
<1> SUFFICES ASSUME TypeOK, Postprocess PROVE TypeOK'
    OBVIOUS
<1> USE DEF TypeOK, sessionVars, infVars, PostSteps
<1>1. CASE PostEnd \/ PostComplete
    BY <1>1 DEF PostEnd, PostComplete
<1>2. CASE PostTake
    BY <1>2, OneTaken, PipelineAssumption DEF PostTake
<1>3. CASE PostSend
    BY <1>3 DEF PostSend, Packets, IsTrigger
<1> QED BY <1>1, <1>2, <1>3 DEF Postprocess

LEMMA TypeStep == TypeOK /\ [Next]_vars => TypeOK'
<1>1. TypeOK /\ Stop => TypeOK'
    BY DEF TypeOK, Stop, infVars, postVars
<1>2. TypeOK /\ UNCHANGED vars => TypeOK'
    BY DEF TypeOK, vars, sessionVars, infVars, postVars
<1> QED BY <1>1, <1>2, SessionType, InferenceType, PostprocessType DEF Next

LEMMA InitType == Init => TypeOK
<1>1. \A S : <<>> \in Seq(S) /\ Len(<<>>) = 0
    BY EmptySeq
<1>2. Init => triggerQueue \in Seq(Triggers) /\ Len(triggerQueue) <= TrigCap
    BY <1>1, PipelineAssumption DEF Init
<1>3. Init => resultQueue \in Seq(Packets) /\ Len(resultQueue) <= ResCap
    BY <1>1, PipelineAssumption DEF Init
<1>4. Init => reply \in [Triggers -> Replies] /\ triggerDrops \in Nat
    BY DEF Init, Replies
<1>5. Init => /\ evicts \in Variants /\ continuous \in BOOLEAN /\ stopping \in BOOLEAN
              /\ answered \subseteq Triggers
    BY Zenon DEF Init
<1>6. Init => /\ infPc \in InfSteps /\ packet \in Packets /\ previous \in Packets
              /\ postPc \in PostSteps /\ postPacket \in Packets
    BY DEF Init, InfSteps, PostSteps, Packets
<1> QED BY <1>2, <1>3, <1>4, <1>5, <1>6, Zenon DEF TypeOK

\* Every queue keeps its bound and every hand holds a packet or nothing
\* (box_grasp_vision/service.py:1333-1410).
THEOREM TypeInvariant == Spec => []TypeOK
BY InitType, TypeStep, PTL DEF Spec

-------------------------------------------------------------------------------
(* The invariant: what each thread holds at each step, and that a trigger is   *)
(* nowhere before it was accepted.                                             *)

\* A packet taken back has the place it came from: only this thread appends.
Hands ==
    /\ infPc = "look" => packet = None
    /\ infPc \in {"steal", "restore", "replace"} => ~IsTrigger(packet)
    /\ IF infPc \in {"restore", "putBack"} THEN HasRoom ELSE previous = None
    /\ postPc \in {"take", "dead"} => postPacket = None

Gone == {t \in Accepted : Places(t) = 0 /\ t \notin answered}

Accounted ==
    /\ IsFiniteSet(Gone) /\ Cardinality(Gone) = triggerDrops
    /\ \A t \in Triggers :
          /\ Places(t) \in Nat
          /\ Places(t) + (IF t \in answered THEN 1 ELSE 0) <= 1
          /\ t \notin Accepted => Places(t) = 0 /\ t \notin answered

IInv == TypeOK /\ Hands /\ Accounted

LEMMA InitIInv == Init => IInv
<1> SUFFICES ASSUME Init PROVE IInv
    OBVIOUS
<1>1. \A t \in Triggers : Places(t) = 0
    BY PlacesSum, CountEmpty, NoneAssumption DEF Init, At
<1>2. Accepted = {}
    BY DEF Init, Accepted
<1>3. Gone = {}
    BY <1>2 DEF Gone
<1>4. Accounted
    BY <1>1, <1>3, FS_EmptySet DEF Init, Accounted
<1>5. Hands
    BY DEF Init, Hands
<1> QED BY <1>4, <1>5, InitType DEF IInv

LEMMA Counted ==
    ASSUME TypeOK, NEW t \in Triggers
    PROVE  Count(triggerQueue, t) \in Nat /\ Count(resultQueue, t) \in Nat
BY CountType DEF TypeOK

LEMMA NotThere ==
    ASSUME NEW t \in Triggers, NEW p
    PROVE  At(p, t) \in {0, 1} /\ (~IsTrigger(p) => At(p, t) = 0) /\ ~IsTrigger(None) /\ ~IsTrigger(Frame)
BY NoneAssumption DEF At, IsTrigger

LEMMA Added ==
    ASSUME TypeOK, NEW t \in Triggers, NEW p \in Packets, resultQueue' = Append(resultQueue, p)
    PROVE  Count(resultQueue', t) = Count(resultQueue, t) + At(p, t)
BY CountAppend DEF TypeOK

LEMMA Taken ==
    ASSUME TypeOK, NEW t \in Triggers, resultQueue # <<>>, resultQueue' = Tail(resultQueue)
    PROVE  Count(resultQueue, t) = Count(resultQueue', t) + At(Head(resultQueue), t)
BY CountTail DEF TypeOK

\* A step that moves triggers about without losing, doubling or answering one.
LEMMA Moved ==
    ASSUME Accounted, Accepted' = Accepted, answered' = answered, triggerDrops' = triggerDrops,
           \A t \in Triggers : Places(t)' = Places(t)
    PROVE  Accounted'
<1>1. Gone' = Gone
    BY DEF Gone, Accepted
<1> QED BY <1>1 DEF Accounted

LEMMA SessionKeeps == IInv /\ Session => Hands' /\ Accounted'
<1> SUFFICES ASSUME IInv, Session PROVE Hands' /\ Accounted'
    OBVIOUS
<1> USE DEF IInv
<1>1. resultQueue' = resultQueue /\ packet' = packet /\ previous' = previous /\ postPacket' = postPacket
      /\ infPc' = infPc /\ postPc' = postPc /\ answered' = answered /\ triggerDrops' = triggerDrops
    BY DEF Session, SetContinuous, Refuse, QueueTrigger, Acknowledge, infVars, postVars
<1>2. Hands'
    BY <1>1 DEF Hands, HasRoom
<1>3. CASE triggerQueue' = triggerQueue /\ Accepted' = Accepted
    <2>1. \A t \in Triggers : Places(t)' = Places(t)
        BY <1>1, <1>3, PlacesSum, PlacesSumNext
    <2> QED BY <1>1, <1>2, <1>3, <2>1, Moved
<1>4. ASSUME NEW t \in Triggers, QueueTrigger(t) PROVE Accounted'
    <2>1. t \notin Accepted /\ Accepted' = Accepted \cup {t}
        BY <1>4 DEF QueueTrigger, Accepted, TypeOK
    <2>2. \A u \in Triggers : Count(triggerQueue', u) = Count(triggerQueue, u) + At(t, u)
        BY <1>4, CountAppend DEF QueueTrigger, TypeOK
    <2>3. \A u \in Triggers : Places(u)' = Places(u) + At(t, u)
        <3> TAKE u \in Triggers
        <3>1. At(packet, u) \in {0, 1} /\ At(previous, u) \in {0, 1} /\ At(postPacket, u) \in {0, 1}
              /\ At(t, u) \in {0, 1}
            BY NotThere
        <3> QED BY <1>1, <2>2, <3>1, PlacesSum, PlacesSumNext, Counted
    <2>4. Gone' = Gone
        BY <1>1, <2>1, <2>3 DEF Gone, Accounted, At, Accepted
    <2>5. \A u \in Triggers :
              /\ Places(u)' \in Nat
              /\ Places(u)' + (IF u \in answered' THEN 1 ELSE 0) <= 1
              /\ u \notin Accepted' => Places(u)' = 0 /\ u \notin answered'
        BY <1>1, <2>1, <2>3 DEF Accounted, At
    <2> QED BY <1>1, <2>4, <2>5 DEF Accounted
<1>5. CASE SetContinuous \/ \E t \in Triggers : Refuse(t) \/ Acknowledge(t)
    <2>1. triggerQueue' = triggerQueue /\ Accepted' = Accepted
        BY <1>5 DEF SetContinuous, Refuse, Acknowledge, Accepted, TypeOK
    <2> QED BY <1>3, <2>1
<1> QED BY <1>2, <1>4, <1>5 DEF Session

\* One thing changes hands: its count leaves one summand and enters another.
LEMMA InferenceHands == IInv /\ Inference => Hands'
<1> SUFFICES ASSUME IInv, Inference PROVE Hands'
    OBVIOUS
<1> USE DEF IInv, Hands, postVars
<1>1. CASE InfEnd \/ InfTrigger \/ InfContinuous \/ InfInferred \/ InfTimeout \/ InfFull \/ InfAbandon
    BY <1>1, NotThere
       DEF InfEnd, InfTrigger, InfContinuous, InfInferred, InfTimeout, InfFull, InfAbandon, HasRoom
<1>2. CASE InfPut \/ InfRestore \/ InfReplace \/ InfPutBack \/ InfWait
    BY <1>2 DEF InfPut, InfRestore, InfReplace, InfPutBack, InfWait
<1>3. CASE InfSteal
    BY <1>3, OneTaken DEF InfSteal, HasRoom
<1>4. CASE InfEvict
    BY <1>4, OneTaken DEF InfEvict, HasRoom
<1> QED BY <1>1, <1>2, <1>3, <1>4 DEF Inference

LEMMA InferenceMoves ==
    IInv /\ Inference /\ ~InfTimeout => \A t \in Triggers : Places(t)' = Places(t)
<1> SUFFICES ASSUME IInv, Inference, ~InfTimeout, NEW t \in Triggers PROVE Places(t)' = Places(t)
    OBVIOUS
<1> USE DEF IInv, Hands, postVars
<1> DEFINE Sum(tq, rq, a, b) == Count(tq, t) + Count(rq, t) + (At(a, t) + At(b, t) + At(postPacket, t))
<1>1. Places(t) = Sum(triggerQueue, resultQueue, packet, previous)
    BY PlacesSum
<1>2. postPacket' = postPacket
    BY DEF Inference, InfEnd, InfTrigger, InfContinuous, InfInferred, InfPut, InfTimeout, InfFull, InfAbandon,
           InfSteal, InfRestore, InfReplace, InfEvict, InfPutBack, InfWait
<1>3. Places(t)' = Sum(triggerQueue', resultQueue', packet', previous')
    BY <1>2, PlacesSumNext
<1>4. /\ At(None, t) = 0 /\ At(Frame, t) = 0
      /\ \A p : At(p, t) \in {0, 1} /\ (~IsTrigger(p) => At(p, t) = 0)
    BY NotThere
<1>5. Count(triggerQueue, t) \in Nat /\ Count(resultQueue, t) \in Nat
    BY Counted
<1>7. At(packet, t) \in {0, 1} /\ At(previous, t) \in {0, 1} /\ At(postPacket, t) \in {0, 1}
    BY <1>4
<1>8. Sum(triggerQueue', resultQueue', packet', previous')
      = Sum(triggerQueue, resultQueue, packet, previous)
    <2>1. CASE InfEnd \/ InfInferred \/ InfFull \/ InfAbandon
        BY <2>1 DEF InfEnd, InfInferred, InfFull, InfAbandon
    <2>2. CASE InfTrigger
        <3>1. Count(triggerQueue, t) = Count(triggerQueue', t) + At(packet', t)
            BY <2>2, CountTail DEF InfTrigger, TypeOK
        <3>2. packet = None /\ resultQueue' = resultQueue /\ previous' = previous
            BY <2>2 DEF InfTrigger
        <3>3. Count(triggerQueue', t) \in Nat
            BY <2>2, CountType, HeadTailProperties DEF InfTrigger, TypeOK
        <3> QED BY <1>4, <1>5, <3>1, <3>2, <3>3
    <2>3. CASE InfContinuous
        <3>1. At(packet, t) = 0 /\ At(packet', t) = 0
            BY <1>4, <2>3 DEF InfContinuous
        <3> QED BY <2>3, <3>1 DEF InfContinuous
    <2>4. CASE InfPut \/ (InfWait /\ HasRoom)
        <3>1. /\ resultQueue' = Append(resultQueue, packet) /\ packet' = None
              /\ triggerQueue' = triggerQueue /\ previous' = previous
            BY <2>4 DEF InfPut, InfWait
        <3>2. Count(resultQueue', t) = Count(resultQueue, t) + At(packet, t)
            BY <3>1, Added DEF TypeOK
        <3>3. At(packet', t) = 0 /\ At(previous', t) = At(previous, t)
            BY <1>4, <3>1
        <3> QED BY <1>5, <1>7, <3>1, <3>2, <3>3
    <2>5. CASE InfWait /\ ~HasRoom
        BY <2>5 DEF InfWait
    <2>6. CASE InfRestore \/ InfPutBack
        <3>1. /\ resultQueue' = Append(resultQueue, previous) /\ previous' = None
              /\ triggerQueue' = triggerQueue /\ (packet' = packet \/ (~IsTrigger(packet) /\ packet' = None))
            <4>1. CASE InfRestore
                BY <4>1 DEF InfRestore
            <4>2. CASE InfPutBack
                BY <4>2 DEF InfPutBack
            <4> QED BY <2>6, <4>1, <4>2
        <3>2. Count(resultQueue', t) = Count(resultQueue, t) + At(previous, t)
            BY <3>1, Added DEF TypeOK
        <3>3. At(packet', t) = At(packet, t)
            BY <1>4, <3>1
        <3> QED BY <1>4, <1>5, <3>1, <3>2, <3>3
    <2>7. CASE InfReplace
        <3>1. /\ ~IsTrigger(packet) /\ packet' = None
              /\ triggerQueue' = triggerQueue /\ previous' = previous
              /\ resultQueue' = Append(resultQueue, packet) \/ resultQueue' = resultQueue
            BY <2>7 DEF InfReplace
        <3>2. Count(resultQueue', t) = Count(resultQueue, t)
            BY <1>4, <1>5, <3>1, Added DEF TypeOK
        <3> QED BY <1>4, <3>1, <3>2
    <2>8. CASE (InfSteal \/ InfEvict) /\ resultQueue = <<>>
        BY <2>8 DEF InfSteal, InfEvict
    <2>9. CASE (InfSteal \/ InfEvict) /\ resultQueue # <<>>
        <3>1. /\ resultQueue' = Tail(resultQueue) /\ triggerQueue' = triggerQueue /\ packet' = packet
              /\ previous = None
              /\ \/ IsTrigger(Head(resultQueue)) /\ previous' = Head(resultQueue)
                 \/ ~IsTrigger(Head(resultQueue)) /\ previous' = previous
            BY <2>9 DEF InfSteal, InfEvict
        <3>2. Count(resultQueue, t) = Count(resultQueue', t) + At(Head(resultQueue), t)
            BY <2>9, <3>1, Taken
        <3>3. At(previous', t) = At(Head(resultQueue), t) /\ At(previous, t) = 0
            BY <1>4, <3>1
        <3>4. Count(resultQueue', t) \in Nat
            BY <2>9, <3>1, OneTaken, CountType
        <3> QED BY <1>4, <1>5, <3>1, <3>2, <3>3, <3>4
    <2> QED BY <2>1, <2>2, <2>3, <2>4, <2>5, <2>6, <2>7, <2>8, <2>9 DEF Inference
<1> HIDE DEF Sum
<1> QED BY <1>1, <1>3, <1>8

\* Only a put that timed out gives a trigger up, and it is counted.
LEMMA TimeoutCounts == IInv /\ InfTimeout => Accounted'
<1> SUFFICES ASSUME IInv, InfTimeout PROVE Accounted'
    OBVIOUS
<1> USE DEF IInv
<1>1. /\ packet \in Triggers /\ packet' = None /\ triggerDrops' = triggerDrops + 1
      /\ triggerQueue' = triggerQueue /\ resultQueue' = resultQueue /\ previous' = previous
      /\ postPacket' = postPacket /\ answered' = answered /\ Accepted' = Accepted
    BY DEF InfTimeout, IsTrigger, sessionVars, postVars, Accepted
<1> PICK lost \in Triggers : lost = packet
    BY <1>1
<1>2. \A t \in Triggers : Places(t) = Places(t)' + At(lost, t)
    <2> TAKE t \in Triggers
    <2>1. At(packet, t) \in {0, 1} /\ At(previous, t) \in {0, 1} /\ At(postPacket, t) \in {0, 1}
          /\ At(None, t) = 0
        BY NotThere
    <2> QED BY <1>1, <2>1, PlacesSum, PlacesSumNext, Counted
<1>3. \A t \in Triggers : Places(t)' \in Nat
    <2> TAKE t \in Triggers
    <2>1. At(packet', t) \in {0, 1} /\ At(previous', t) \in {0, 1} /\ At(postPacket', t) \in {0, 1}
        BY NotThere
    <2> QED BY <1>1, <2>1, PlacesSumNext, Counted
<1>4. Places(lost) = 1 /\ Places(lost)' = 0 /\ lost \in Accepted /\ lost \notin answered
    <2>1. Places(lost) = Places(lost)' + 1 /\ Places(lost)' \in Nat
        BY <1>1, <1>2, <1>3 DEF At
    <2>2. /\ Places(lost) + (IF lost \in answered THEN 1 ELSE 0) <= 1
          /\ lost \notin Accepted => Places(lost) = 0
        BY <1>1 DEF Accounted
    <2>3. lost \notin answered
        BY <2>1, <2>2
    <2> QED BY <2>1, <2>2, <2>3
<1>5. lost \notin Gone /\ Gone' = Gone \cup {lost}
    <2>1. lost \notin Gone
        BY <1>4 DEF Gone
    <2>2. \A t \in Accepted : t # lost => Places(t)' = Places(t)
        BY <1>2, <1>3 DEF At, Accepted, Accounted
    <2>3. Gone' = {t \in Accepted : Places(t)' = 0 /\ t \notin answered}
        BY <1>1 DEF Gone
    <2> QED BY <1>4, <2>1, <2>2, <2>3 DEF Gone
<1>6. IsFiniteSet(Gone') /\ Cardinality(Gone') = triggerDrops'
    BY <1>1, <1>5, FS_AddElement DEF Accounted
<1> QED BY <1>1, <1>2, <1>3, <1>6 DEF Accounted, At

LEMMA PostSendAnswers == IInv /\ PostSend => Accounted'
<1> SUFFICES ASSUME IInv, PostSend PROVE Accounted'
    OBVIOUS
<1> USE DEF IInv
<1>1. /\ postPacket' = None /\ triggerQueue' = triggerQueue /\ resultQueue' = resultQueue
      /\ packet' = packet /\ previous' = previous /\ triggerDrops' = triggerDrops
      /\ Accepted' = Accepted
    BY DEF PostSend, sessionVars, infVars, Accepted
<1>2. \A t \in Triggers : Places(t) = Places(t)' + At(postPacket, t) /\ Places(t)' \in Nat
    <2> TAKE t \in Triggers
    <2>1. At(packet, t) \in {0, 1} /\ At(previous, t) \in {0, 1} /\ At(postPacket, t) \in {0, 1}
          /\ At(None, t) = 0
        BY NotThere
    <2> QED BY <1>1, <2>1, PlacesSum, PlacesSumNext, Counted
<1>3. \A t \in Triggers : t \in answered' <=> t \in answered \/ t = postPacket
    BY DEF PostSend, IsTrigger
<1>4. ASSUME NEW t \in Triggers
      PROVE  /\ t # postPacket => Places(t)' = Places(t) /\ (t \in answered' <=> t \in answered)
             /\ t = postPacket => /\ Places(t) = 1 /\ Places(t)' = 0 /\ t \in Accepted
                                  /\ t \in answered' /\ t \notin answered
    <2>1. /\ Places(t) \in Nat /\ Places(t) + (IF t \in answered THEN 1 ELSE 0) <= 1
          /\ t \notin Accepted => Places(t) = 0
        BY DEF Accounted
    <2>2. CASE t = postPacket
        <3>1. Places(t) = Places(t)' + 1 /\ Places(t)' \in Nat
            BY <1>2, <2>2 DEF At
        <3>2. t \notin answered /\ Places(t) = 1
            BY <2>1, <3>1
        <3> QED BY <1>3, <2>1, <2>2, <3>1, <3>2
    <2>3. CASE t # postPacket
        <3>1. Places(t) = Places(t)' /\ Places(t)' \in Nat
            BY <1>2, <2>1, <2>3 DEF At
        <3> QED BY <1>3, <2>3, <3>1
    <2> QED BY <2>2, <2>3
<1>5. Gone' = Gone
    <2>1. Gone' = {t \in Accepted : Places(t)' = 0 /\ t \notin answered'}
        BY <1>1 DEF Gone
    <2>2. \A t \in Accepted : Places(t)' = 0 /\ t \notin answered' <=> Places(t) = 0 /\ t \notin answered
        BY <1>4 DEF Accepted
    <2> QED BY <2>1, <2>2 DEF Gone
<1>6. ASSUME NEW t \in Triggers
      PROVE  /\ Places(t)' \in Nat
             /\ Places(t)' + (IF t \in answered' THEN 1 ELSE 0) <= 1
             /\ t \notin Accepted' => Places(t)' = 0 /\ t \notin answered'
    BY <1>1, <1>4 DEF Accounted
<1> QED BY <1>1, <1>5, <1>6 DEF Accounted

LEMMA PostprocessKeeps == IInv /\ Postprocess => Hands' /\ Accounted'
<1> SUFFICES ASSUME IInv, Postprocess PROVE Hands' /\ Accounted'
    OBVIOUS
<1> USE DEF IInv
<1>1. packet' = packet /\ previous' = previous /\ infPc' = infPc /\ triggerQueue' = triggerQueue
      /\ triggerDrops' = triggerDrops /\ Accepted' = Accepted
    BY DEF Postprocess, PostEnd, PostTake, PostComplete, PostSend, sessionVars, infVars, Accepted
<1>2. Hands'
    <2>1. HasRoom => HasRoom'
        <3>1. CASE PostTake
            BY <3>1, OneTaken DEF PostTake, HasRoom
        <3>2. CASE PostEnd \/ PostComplete \/ PostSend
            BY <3>2 DEF PostEnd, PostComplete, PostSend, HasRoom
        <3> QED BY <3>1, <3>2 DEF Postprocess
    <2>2. postPc' \in {"take", "dead"} => postPacket' = None
        BY DEF Postprocess, PostEnd, PostTake, PostComplete, PostSend, Hands
    <2> QED BY <1>1, <2>1, <2>2 DEF Hands
<1>3. CASE PostEnd \/ PostComplete
    <2>1. resultQueue' = resultQueue /\ postPacket' = postPacket /\ answered' = answered
        BY <1>3 DEF PostEnd, PostComplete
    <2>2. \A t \in Triggers : Places(t)' = Places(t)
        BY <1>1, <2>1, PlacesSum, PlacesSumNext
    <2> QED BY <1>1, <1>2, <2>1, <2>2, Moved
<1>4. CASE PostTake
    <2>1. /\ resultQueue # <<>> /\ resultQueue' = Tail(resultQueue) /\ answered' = answered
          /\ postPacket = None
          /\ \/ postPacket' = Head(resultQueue)
             \/ ~IsTrigger(Head(resultQueue)) /\ postPacket' = postPacket
        BY <1>4 DEF PostTake, Hands
    <2>2. ASSUME NEW t \in Triggers PROVE Places(t)' = Places(t)
        <3>1. Count(resultQueue, t) = Count(resultQueue', t) + At(Head(resultQueue), t)
            BY <2>1, Taken
        <3>2. At(postPacket', t) = At(Head(resultQueue), t) /\ At(postPacket, t) = 0
            BY <2>1, NotThere
        <3>3. /\ At(packet, t) \in {0, 1} /\ At(previous, t) \in {0, 1}
              /\ At(Head(resultQueue), t) \in {0, 1}
            BY NotThere
        <3>4. Count(triggerQueue, t) \in Nat /\ Count(resultQueue', t) \in Nat
            BY <2>1, OneTaken, CountType, Counted
        <3> QED BY <1>1, <3>1, <3>2, <3>3, <3>4, PlacesSum, PlacesSumNext
    <2> QED BY <1>1, <1>2, <2>1, <2>2, Moved
<1>5. CASE PostSend
    BY <1>2, <1>5, PostSendAnswers
<1> QED BY <1>3, <1>4, <1>5 DEF Postprocess

LEMMA InferenceKeeps == IInv /\ Inference => Accounted'
<1> SUFFICES ASSUME IInv, Inference PROVE Accounted'
    OBVIOUS
<1>1. CASE InfTimeout
    BY <1>1, TimeoutCounts
<1>2. CASE ~InfTimeout
    <2>1. Accepted' = Accepted /\ answered' = answered /\ triggerDrops' = triggerDrops
        BY <1>2 DEF Inference, InfEnd, InfTrigger, InfContinuous, InfInferred, InfPut, InfFull, InfAbandon,
               InfSteal, InfRestore, InfReplace, InfEvict, InfPutBack, InfWait, sessionVars, postVars, Accepted
    <2> QED BY <1>2, <2>1, InferenceMoves, Moved DEF IInv
<1> QED BY <1>1, <1>2

LEMMA OtherKeeps == IInv /\ (Stop \/ UNCHANGED vars) => Hands' /\ Accounted'
<1> SUFFICES ASSUME IInv, Stop \/ UNCHANGED vars PROVE Hands' /\ Accounted'
    OBVIOUS
<1>1. /\ packet' = packet /\ previous' = previous /\ postPacket' = postPacket
      /\ infPc' = infPc /\ postPc' = postPc
      /\ triggerQueue' = triggerQueue /\ resultQueue' = resultQueue
      /\ triggerDrops' = triggerDrops /\ answered' = answered /\ Accepted' = Accepted
    BY DEF Stop, vars, sessionVars, infVars, postVars, Accepted
<1>2. \A t \in Triggers : Places(t)' = Places(t)
    BY <1>1, PlacesSum, PlacesSumNext
<1> QED BY <1>1, <1>2, Moved DEF IInv, Hands, HasRoom

LEMMA StepIInv == IInv /\ [Next]_vars => IInv'
<1> SUFFICES ASSUME IInv, [Next]_vars PROVE IInv'
    OBVIOUS
<1>1. TypeOK'
    BY TypeStep DEF IInv
<1>2. CASE Session
    BY <1>1, <1>2, SessionKeeps DEF IInv
<1>3. CASE Inference
    BY <1>1, <1>3, InferenceHands, InferenceKeeps DEF IInv
<1>4. CASE Postprocess
    BY <1>1, <1>4, PostprocessKeeps DEF IInv
<1>5. CASE Stop \/ UNCHANGED vars
    BY <1>1, <1>5, OtherKeeps DEF IInv
<1> QED BY <1>2, <1>3, <1>4, <1>5 DEF Next

\* No trigger vanishes from the pipeline and none is doubled, in either variant,
\* whatever the sizes of the queues and however often a packet is taken back:
\* what is gone unanswered is exactly what pipeline_trigger_drop counts
\* (box_grasp_vision/service.py:1333-1373).
THEOREM NothingLostSilently == Spec => []NoSilentLoss
<1>1. IInv => NoSilentLoss
    BY DEF IInv, Accounted, Gone, NoSilentLoss
<1> QED BY <1>1, InitIInv, StepIInv, PTL DEF Spec

-------------------------------------------------------------------------------
(* ServesInOrder, where the result queue has one place: no packet can overtake *)
(* another there.  With more places a trigger that is taken back goes behind   *)
(* the triggers it stood before.                                               *)

LEMMA Joined ==
    ASSUME NEW S, NEW s \in Seq(S), NEW u \in Seq(S)
    PROVE  /\ s \o u \in Seq(S) /\ Len(s \o u) = Len(s) + Len(u) /\ Len(s) \in Nat /\ Len(u) \in Nat
           /\ \A i \in 1..Len(s) : (s \o u)[i] = s[i]
           /\ \A i \in 1..Len(u) : (s \o u)[Len(s) + i] = u[i]
BY ConcatProperties, LenProperties

LEMMA JoinedEmpty ==
    ASSUME NEW S, NEW s \in Seq(S)
    PROVE  s \o <<>> = s /\ <<>> \o s = s
BY ConcatEmptySeq

LEMMA JoinedLast ==
    ASSUME NEW S, NEW s \in Seq(S), NEW u \in Seq(S), NEW x \in S
    PROVE  s \o Append(u, x) = Append(s \o u, x)
<1>1. Append(u, x) = u \o <<x>> /\ Append(s \o u, x) = (s \o u) \o <<x>> /\ <<x>> \in Seq(S)
    BY Joined, AppendIsConcat
<1> QED BY <1>1, ConcatAssociative

LEMMA JoinedHead ==
    ASSUME NEW S, NEW s \in Seq(S), NEW u \in Seq(S), u # <<>>
    PROVE  (s \o <<Head(u)>>) \o Tail(u) = s \o u
<1>1. Head(u) \in S /\ Tail(u) \in Seq(S) /\ <<Head(u)>> \in Seq(S)
    BY HeadTailProperties
<1>2. <<Head(u)>> \o Tail(u) = u
    BY <1>1, Joined, HeadTailProperties, EmptySeq, SeqEqual
<1> QED BY <1>1, <1>2, ConcatAssociative

\* A sequence with one more in front, and one without what stood in its middle.
LEMMA PutInFront ==
    ASSUME NEW S, NEW x \in S, NEW s \in Seq(S)
    PROVE  <<x>> \o s # <<>> /\ Head(<<x>> \o s) = x /\ Tail(<<x>> \o s) = s
<1> DEFINE u == <<x>> \o s
<1>1. /\ <<x>> \in Seq(S) /\ u \in Seq(S) /\ Len(u) = 1 + Len(s) /\ Len(s) \in Nat /\ u[1] = x
      /\ \A i \in 1..Len(s) : u[1 + i] = s[i]
    BY Joined
<1> HIDE DEF u
<1>2. u # <<>>
    BY <1>1, EmptySeq
<1>3. Head(u) = x /\ Tail(u) \in Seq(S) /\ Len(Tail(u)) = Len(s) /\ \A i \in 1..Len(s) : Tail(u)[i] = s[i]
    BY <1>1, <1>2, HeadTailProperties
<1>4. Tail(u) = s
    BY <1>3, SeqEqual
<1> QED BY <1>2, <1>3, <1>4 DEF u

LEMMA TakeOut ==
    ASSUME NEW S, NEW s \in Seq(S), NEW u \in Seq(S), NEW x \in S
    PROVE  LET w == (s \o <<x>>) \o u
           IN  /\ Len(s) + 1 \in 1..Len(w)
               /\ s \o u = [k \in 1..(Len(w) - 1) |-> IF k < Len(s) + 1 THEN w[k] ELSE w[k + 1]]
<1> DEFINE w == (s \o <<x>>) \o u
           v == [k \in 1..(Len(w) - 1) |-> IF k < Len(s) + 1 THEN w[k] ELSE w[k + 1]]
<1>1. <<x>> \in Seq(S) /\ Len(<<x>>) = 1 /\ s \o <<x>> \in Seq(S) /\ Len(s \o <<x>>) = Len(s) + 1
      /\ Len(s) \in Nat /\ Len(u) \in Nat
      /\ \A i \in 1..Len(s) : (s \o <<x>>)[i] = s[i]
    BY Joined
<1>2. Len(w) = Len(s) + 1 + Len(u)
    BY <1>1, Joined
<1>3. \A i \in 1..Len(s) : w[i] = s[i]
    BY <1>1, Joined
<1>4. \A i \in 1..Len(u) : w[Len(s) + 1 + i] = u[i]
    BY <1>1, Joined
<1>5. /\ s \o u \in Seq(S) /\ Len(s \o u) = Len(s) + Len(u)
      /\ \A i \in 1..Len(s) : (s \o u)[i] = s[i]
      /\ \A i \in 1..Len(u) : (s \o u)[Len(s) + i] = u[i]
    BY Joined
<1> HIDE DEF w
<1>6. \A k \in 1..(Len(s) + Len(u)) : (s \o u)[k] = IF k < Len(s) + 1 THEN w[k] ELSE w[k + 1]
    <2> TAKE k \in 1..(Len(s) + Len(u))
    <2>1. CASE k <= Len(s)
        BY <1>1, <1>3, <1>5, <2>1
    <2>2. CASE k > Len(s)
        <3>1. k - Len(s) \in 1..Len(u) /\ Len(s) + (k - Len(s)) = k /\ Len(s) + 1 + (k - Len(s)) = k + 1
              /\ ~(k < Len(s) + 1)
            BY <1>1, <2>2
        <3>2. (s \o u)[k] = u[k - Len(s)] /\ w[k + 1] = u[k - Len(s)]
            BY <1>4, <1>5, <3>1
        <3> QED BY <3>1, <3>2
    <2> QED BY <1>1, <2>1, <2>2
<1>7. s \o u = v
    <2>1. s \o u = [k \in 1..Len(s \o u) |-> (s \o u)[k]]
        BY <1>5, LenProperties
    <2>2. Len(w) - 1 = Len(s) + Len(u)
        BY <1>1, <1>2
    <2> QED BY <1>5, <1>6, <2>1, <2>2
<1> QED BY <1>1, <1>2, <1>7 DEF w

Holds(s, x) == \E i \in 1..Len(s) : s[i] = x

LEMMA JoinedHeld ==
    ASSUME NEW S, NEW s \in Seq(S), NEW u \in Seq(S), NEW x, ~Holds(s, x), ~Holds(u, x)
    PROVE  ~Holds(s \o u, x)
<1> SUFFICES ASSUME NEW i \in 1..Len(s \o u) PROVE (s \o u)[i] # x
    BY DEF Holds
<1>1. /\ Len(s \o u) = Len(s) + Len(u) /\ Len(s) \in Nat /\ Len(u) \in Nat
      /\ \A k \in 1..Len(s) : (s \o u)[k] = s[k]
      /\ \A k \in 1..Len(u) : (s \o u)[Len(s) + k] = u[k]
    BY Joined
<1>2. CASE i <= Len(s)
    BY <1>1, <1>2 DEF Holds
<1>3. CASE i > Len(s)
    <2>1. i - Len(s) \in 1..Len(u) /\ Len(s) + (i - Len(s)) = i
        BY <1>1, <1>3
    <2>2. (s \o u)[i] = u[i - Len(s)]
        BY <1>1, <2>1
    <2> QED BY <2>1, <2>2 DEF Holds
<1> QED BY <1>1, <1>2, <1>3

LEMMA CountNone ==
    ASSUME NEW S, NEW s \in Seq(S), NEW t, Count(s, t) = 0
    PROVE  ~Holds(s, t)
<1>1. IsFiniteSet(Spots(s, t)) /\ Cardinality(Spots(s, t)) = 0
    BY CountType DEF Count
<1>2. Spots(s, t) = {}
    BY <1>1, FS_EmptySet
<1> QED BY <1>2 DEF Spots, Holds

\* What stands at the place of a packet, and in a queue of one place.
First(q) == IF q = <<>> THEN None ELSE Head(q)

LEMMA OneType ==
    ASSUME NEW p
    PROVE  /\ One(p) \in Seq(Triggers) /\ (IsTrigger(p) => One(p) = <<p>>)
           /\ (~IsTrigger(p) => One(p) = <<>>) /\ One(None) = <<>> /\ One(Frame) = <<>>
BY NotThere, NoneAssumption, EmptySeq DEF One, IsTrigger

LEMMA OnePlace ==
    ASSUME NEW q \in Seq(Packets), Len(q) <= 1
    PROVE  TriggersIn(q) = One(First(q)) /\ (q # <<>> => q = <<Head(q)>> /\ Tail(q) = <<>>)
<1>1. ASSUME TriggerSpots(q) = {} PROVE TriggersIn(q) = <<>>
    <2>1. Cardinality(TriggerSpots(q)) = 0
        BY <1>1, FS_EmptySet
    <2> QED BY <2>1 DEF TriggersIn
<1>2. CASE q = <<>>
    <2>1. TriggerSpots(q) = {}
        BY <1>2 DEF TriggerSpots
    <2> QED BY <1>1, <1>2, <2>1, OneType DEF First
<1>3. CASE q # <<>>
    <2>1. Len(q) = 1 /\ Head(q) = q[1]
        <3>1. Len(q) \in Nat /\ Len(q) # 0
            BY <1>3, EmptySeq
        <3>2. Head(q) = q[1]
            BY <1>3, HeadTailProperties, EmptySeq
        <3>3. Len(q) = 1
            <4>1. \A n \in Nat : n # 0 /\ n <= 1 => n = 1
                OBVIOUS
            <4> QED BY <3>1, <4>1, Zenon
        <3> QED BY <3>2, <3>3
    <2>2. Tail(q) = <<>>
        <3>1. Tail(q) \in Seq(Packets) /\ Len(Tail(q)) = 0
            BY <1>3, <2>1, HeadTailProperties
        <3> QED BY <3>1, EmptySeq
    <2>3. q = <<q[1]>>
        BY <2>1
    <2>4. CASE IsTrigger(q[1])
        <3>1. TriggerSpots(q) = {1}
            BY <2>1, <2>4 DEF TriggerSpots
        <3>2. Cardinality(TriggerSpots(q)) = 1 /\ Cardinality({}) = 0
            BY <3>1, FS_Singleton, FS_EmptySet
        <3>3. \A i \in TriggerSpots(q) : i = 1 /\ {j \in TriggerSpots(q) : j < i} = {}
            BY <3>1
        <3>4. Nth(q, 1) = q[1]
            <4>1. \E i \in TriggerSpots(q) : Cardinality({j \in TriggerSpots(q) : j < i}) = 1 - 1
                <5>1. {j \in TriggerSpots(q) : j < 1} = {} /\ 1 \in TriggerSpots(q) /\ 1 - 1 = 0
                    BY <3>1
                <5>2. Cardinality({j \in TriggerSpots(q) : j < 1}) = 1 - 1
                    BY <3>2, <5>1
                <5> QED BY <5>1, <5>2, Zenon
            <4>2. (CHOOSE i \in TriggerSpots(q) : Cardinality({j \in TriggerSpots(q) : j < i}) = 1 - 1)
                  \in TriggerSpots(q)
                BY <4>1, Zenon
            <4>3. (CHOOSE i \in TriggerSpots(q) : Cardinality({j \in TriggerSpots(q) : j < i}) = 1 - 1) = 1
                BY <3>3, <4>2, Zenon
            <4> QED BY <4>3, Zenon DEF Nth
        <3>5. TriggersIn(q) = <<q[1]>>
            BY <3>2, <3>4 DEF TriggersIn
        <3> QED BY <1>3, <2>1, <2>2, <2>3, <2>4, <3>5, OneType DEF First
    <2>5. CASE ~IsTrigger(q[1])
        <3>1. TriggerSpots(q) = {}
            BY <2>1, <2>5 DEF TriggerSpots
        <3> QED BY <1>1, <1>3, <2>1, <2>2, <2>3, <2>5, <3>1, OneType DEF First
    <2> QED BY <2>4, <2>5
<1> QED BY <1>2, <1>3

LEMMA FirstHeld ==
    ASSUME NEW S, NEW q \in Seq(S), NEW t, t # None, ~Holds(q, t)
    PROVE  First(q) # t
<1>1. CASE q = <<>>
    BY <1>1 DEF First
<1>2. CASE q # <<>>
    <2>1. Head(q) = q[1] /\ Len(q) \in Nat /\ Len(q) # 0
        BY <1>2, HeadTailProperties, EmptySeq
    <2>2. 1 \in 1..Len(q)
        BY <2>1
    <2> QED BY <1>2, <2>1, <2>2 DEF First, Holds
<1> QED BY <1>1, <1>2

LEMMA OneHeld ==
    ASSUME NEW p, NEW t, p # t
    PROVE  ~Holds(One(p), t)
<1>1. Len(<<>>) = 0
    BY EmptySeq
<1>2. Len(<<p>>) = 1 /\ <<p>>[1] = p
    OBVIOUS
<1> QED BY <1>1, <1>2 DEF One, Holds

LEMMA NowhereAtAll ==
    ASSUME TypeOK, NEW t \in Triggers, Places(t) = 0
    PROVE  /\ Count(triggerQueue, t) = 0 /\ Count(resultQueue, t) = 0
           /\ packet # t /\ previous # t /\ postPacket # t
<1>1. At(packet, t) \in {0, 1} /\ At(previous, t) \in {0, 1} /\ At(postPacket, t) \in {0, 1}
    BY NotThere
<1>2. /\ Count(triggerQueue, t) = 0 /\ Count(resultQueue, t) = 0
      /\ At(packet, t) = 0 /\ At(previous, t) = 0 /\ At(postPacket, t) = 0
    BY <1>1, Counted, PlacesSum
<1> QED BY <1>2 DEF At

\* The line, where the result queue holds at most one packet.
Ahead == (One(postPacket) \o One(previous)) \o One(First(resultQueue))

LEMMA LineOfOnes ==
    ASSUME TypeOK, ResCap = 1
    PROVE  /\ Line = (Ahead \o One(packet)) \o triggerQueue
           /\ Ahead \in Seq(Triggers) /\ Ahead \o One(packet) \in Seq(Triggers) /\ Line \in Seq(Triggers)
<1>1. resultQueue \in Seq(Packets) /\ Len(resultQueue) <= 1 /\ triggerQueue \in Seq(Triggers)
    BY DEF TypeOK
<1>2. TriggersIn(resultQueue) = One(First(resultQueue))
    BY <1>1, OnePlace
<1>3. One(postPacket) \o One(previous) \in Seq(Triggers)
    BY OneType, Joined
<1>4. Ahead \in Seq(Triggers)
    BY <1>3, OneType, Joined DEF Ahead
<1>5. Ahead \o One(packet) \in Seq(Triggers)
    BY <1>4, OneType, Joined
<1>6. (Ahead \o One(packet)) \o triggerQueue \in Seq(Triggers)
    BY <1>1, <1>5, Joined
<1>7. Line = (Ahead \o One(packet)) \o triggerQueue
    BY <1>2 DEF Line, Ahead
<1> QED BY <1>4, <1>5, <1>6, <1>7

\* The same after a step.
LEMMA LineOfOnesNext ==
    ASSUME TypeOK', ResCap = 1
    PROVE  Line' = (Ahead' \o One(packet')) \o triggerQueue'
<1>1. resultQueue' \in Seq(Packets) /\ Len(resultQueue') <= 1
    BY DEF TypeOK
<1>2. TriggersIn(resultQueue') = One(First(resultQueue'))
    BY <1>1, OnePlace
<1> QED BY <1>2 DEF Line, Ahead

LEMMA FullOfOne ==
    ASSUME TypeOK, ResCap = 1
    PROVE  /\ HasRoom <=> resultQueue = <<>>
           /\ \A p \in Packets : HasRoom => /\ Append(resultQueue, p) # <<>>
                                            /\ First(Append(resultQueue, p)) = p
           /\ resultQueue # <<>> => Tail(resultQueue) = <<>> /\ First(resultQueue) = Head(resultQueue)
           /\ First(<<>>) = None
<1>1. resultQueue \in Seq(Packets) /\ Len(resultQueue) <= 1 /\ Len(resultQueue) \in Nat
    BY DEF TypeOK
<1>2. HasRoom <=> resultQueue = <<>>
    BY <1>1, EmptySeq DEF HasRoom
<1>3. ASSUME NEW p \in Packets, HasRoom
      PROVE  Append(resultQueue, p) # <<>> /\ First(Append(resultQueue, p)) = p
    <2>1. resultQueue = <<>>
        BY <1>2, <1>3
    <2>2. Append(resultQueue, p) = <<p>>
        BY <2>1
    <2>3. <<p>> # <<>> /\ Head(<<p>>) = p
        OBVIOUS
    <2> QED BY <2>2, <2>3 DEF First
<1>4. resultQueue # <<>> => Tail(resultQueue) = <<>>
    BY <1>1, OnePlace
<1> QED BY <1>2, <1>3, <1>4 DEF First

\* A trigger that moves up a place leaves the line as it was.
LEMMA InferenceKeepsLine ==
    ASSUME IInv, ResCap = 1, Inference, ~InfTimeout
    PROVE  Line' = Line /\ answered' = answered /\ triggerDrops' = triggerDrops
<1> USE DEF IInv
<1>1. TypeOK'
    BY InferenceType
<1>2. /\ answered' = answered /\ triggerDrops' = triggerDrops /\ postPacket' = postPacket
    BY DEF Inference, InfEnd, InfTrigger, InfContinuous, InfInferred, InfPut, InfFull, InfAbandon,
           InfSteal, InfRestore, InfReplace, InfEvict, InfPutBack, InfWait, postVars
<1>3. Line = (Ahead \o One(packet)) \o triggerQueue /\ Line' = (Ahead' \o One(packet')) \o triggerQueue'
    BY <1>1, LineOfOnes, LineOfOnesNext
<1>4. \A s \in Seq(Triggers) : s \o <<>> = s /\ <<>> \o s = s
    BY JoinedEmpty
<1>5. One(postPacket) \in Seq(Triggers) /\ \A p : One(p) \in Seq(Triggers) /\ (~IsTrigger(p) => One(p) = <<>>)
    BY OneType
<1>6. One(None) = <<>> /\ One(Frame) = <<>> /\ First(<<>>) = None
    BY OneType DEF First
<1>7. CASE InfEnd \/ InfInferred \/ InfFull \/ InfAbandon
    <2>1. UNCHANGED <<triggerQueue, resultQueue, packet, previous>>
        BY <1>7 DEF InfEnd, InfInferred, InfFull, InfAbandon
    <2> QED BY <1>2, <1>3, <2>1 DEF Ahead
<1>8. CASE InfTrigger
    <2>1. /\ triggerQueue # <<>> /\ triggerQueue \in Seq(Triggers) /\ packet = None
          /\ triggerQueue' = Tail(triggerQueue) /\ packet' = Head(triggerQueue)
          /\ UNCHANGED <<resultQueue, previous>>
        BY <1>8 DEF InfTrigger, Hands, TypeOK
    <2>2. Head(triggerQueue) \in Triggers
        BY <2>1, HeadTailProperties
    <2>3. One(packet') = <<Head(triggerQueue)>> /\ Ahead' = Ahead /\ Ahead \in Seq(Triggers)
        BY <1>2, <2>1, <2>2, LineOfOnes DEF Ahead, One, IsTrigger
    <2>4. (Ahead \o <<Head(triggerQueue)>>) \o Tail(triggerQueue) = Ahead \o triggerQueue
        BY <2>1, <2>3, JoinedHead
    <2>5. Ahead \o One(packet) = Ahead
        BY <1>4, <1>6, <2>1, <2>3
    <2> QED BY <1>2, <1>3, <2>1, <2>3, <2>4, <2>5
<1>9. CASE InfContinuous
    <2>1. packet = None /\ packet' = Frame /\ UNCHANGED <<triggerQueue, resultQueue, previous>>
        BY <1>9 DEF InfContinuous, Hands
    <2> QED BY <1>2, <1>3, <1>6, <2>1 DEF Ahead
<1>10. ASSUME HasRoom, packet' = None, resultQueue' = Append(resultQueue, packet),
              UNCHANGED <<triggerQueue, previous>>
       PROVE  Line' = Line
    <2>1. First(resultQueue) = None /\ First(resultQueue') = packet
        BY <1>6, <1>10, FullOfOne DEF TypeOK
    <2> DEFINE before == One(postPacket) \o One(previous)
    <2>2. before \in Seq(Triggers) /\ before \o One(packet) \in Seq(Triggers)
        BY <1>5, Joined
    <2>3. Ahead = before /\ Ahead' = before \o One(packet)
        BY <1>2, <1>4, <1>6, <1>10, <2>1, <2>2 DEF Ahead
    <2>4. Ahead' \o One(packet') = Ahead \o One(packet)
        BY <1>4, <1>6, <1>10, <2>2, <2>3
    <2> QED BY <1>3, <1>10, <2>4
<1>11. CASE InfPut
    BY <1>2, <1>10, <1>11 DEF InfPut
<1>12. CASE InfWait
    <2>1. CASE HasRoom
        BY <1>2, <1>10, <1>12, <2>1 DEF InfWait
    <2>2. CASE ~HasRoom
        BY <1>2, <1>3, <1>12, <2>2 DEF InfWait, Ahead
    <2> QED BY <2>1, <2>2
<1>13. CASE InfRestore \/ InfPutBack
    <2>1. HasRoom /\ resultQueue' = Append(resultQueue, previous) /\ previous' = None
          /\ triggerQueue' = triggerQueue
        BY <1>13 DEF InfRestore, InfPutBack, Hands
    <2>2. One(packet') = One(packet)
        <3>1. CASE InfRestore
            BY <1>5, <1>6, <3>1 DEF InfRestore, Hands
        <3>2. CASE InfPutBack
            BY <3>2 DEF InfPutBack
        <3> QED BY <1>13, <3>1, <3>2
    <2>3. First(resultQueue) = None /\ First(resultQueue') = previous
        BY <1>6, <2>1, FullOfOne DEF TypeOK
    <2>4. Ahead = One(postPacket) \o One(previous) /\ Ahead' = One(postPacket) \o One(previous)
        <3>1. One(postPacket) \o One(previous) \in Seq(Triggers)
            BY <1>5, Joined
        <3> QED BY <1>2, <1>4, <1>5, <1>6, <2>1, <2>3, <3>1 DEF Ahead
    <2> QED BY <1>2, <1>3, <2>1, <2>2, <2>4
<1>14. CASE InfReplace
    <2>1. packet' = None /\ UNCHANGED <<triggerQueue, previous>> /\ ~IsTrigger(packet)
        BY <1>14 DEF InfReplace, Hands
    <2>2. CASE HasRoom
        BY <1>2, <1>10, <1>14, <2>1, <2>2 DEF InfReplace
    <2>3. CASE ~HasRoom
        BY <1>2, <1>3, <1>5, <1>6, <1>14, <2>1, <2>3 DEF InfReplace, Ahead
    <2> QED BY <2>2, <2>3
<1>15. CASE InfSteal \/ InfEvict
    <2>1. CASE resultQueue = <<>>
        <3>1. UNCHANGED <<triggerQueue, resultQueue, packet, previous>>
            BY <1>15, <2>1 DEF InfSteal, InfEvict
        <3> QED BY <1>2, <1>3, <3>1 DEF Ahead
    <2>2. CASE resultQueue # <<>>
        <3>1. /\ resultQueue' = Tail(resultQueue) /\ triggerQueue' = triggerQueue /\ packet' = packet
              /\ previous = None
              /\ \/ previous' = Head(resultQueue)
                 \/ ~IsTrigger(Head(resultQueue)) /\ previous' = previous
            BY <1>15, <2>2 DEF InfSteal, InfEvict, Hands
        <3>2. First(resultQueue) = Head(resultQueue) /\ First(resultQueue') = None
            BY <1>6, <2>2, <3>1, FullOfOne
        <3>3. One(previous) = <<>> /\ One(previous') = One(Head(resultQueue))
            BY <1>5, <1>6, <3>1
        <3> DEFINE moved == One(postPacket) \o One(Head(resultQueue))
        <3>4. moved \in Seq(Triggers)
            BY <1>5, Joined
        <3>5. Ahead = moved
            BY <1>4, <1>5, <3>2, <3>3 DEF Ahead
        <3>6. Ahead' = moved
            BY <1>2, <1>4, <1>6, <3>2, <3>3, <3>4 DEF Ahead
        <3> QED BY <1>2, <1>3, <3>1, <3>5, <3>6
    <2> QED BY <2>1, <2>2
<1> QED BY <1>2, <1>7, <1>8, <1>9, <1>11, <1>12, <1>13, <1>14, <1>15 DEF Inference
\* The answer goes to the trigger at the head of the line.
LEMMA PostprocessServes ==
    ASSUME IInv, ResCap = 1, Postprocess
    PROVE  Server!Answer \/ (Line' = Line /\ answered' = answered /\ triggerDrops' = triggerDrops)
<1> USE DEF IInv
<1>1. TypeOK'
    BY PostprocessType
<1>2. /\ packet' = packet /\ previous' = previous /\ triggerQueue' = triggerQueue
      /\ triggerDrops' = triggerDrops
    BY DEF Postprocess, PostEnd, PostTake, PostComplete, PostSend, infVars
<1>3. Line = (Ahead \o One(packet)) \o triggerQueue /\ Line' = (Ahead' \o One(packet)) \o triggerQueue
    BY <1>1, <1>2, LineOfOnes, LineOfOnesNext
<1>4. /\ \A s \in Seq(Triggers) : s \o <<>> = s /\ <<>> \o s = s
      /\ \A p : One(p) \in Seq(Triggers) /\ (~IsTrigger(p) => One(p) = <<>>)
      /\ One(None) = <<>> /\ First(<<>>) = None
    BY JoinedEmpty, OneType DEF First
<1>5. CASE PostEnd \/ PostComplete
    BY <1>2, <1>3, <1>5 DEF PostEnd, PostComplete, Ahead
<1>6. CASE PostTake
    <2>1. /\ resultQueue # <<>> /\ resultQueue' = Tail(resultQueue) /\ answered' = answered
          /\ postPacket = None
          /\ \/ postPacket' = Head(resultQueue)
             \/ ~IsTrigger(Head(resultQueue)) /\ postPacket' = postPacket
        BY <1>6 DEF PostTake, Hands
    <2>2. previous = None
        BY <2>1, FullOfOne DEF Hands
    <2>3. First(resultQueue) = Head(resultQueue) /\ First(resultQueue') = None
        BY <1>4, <2>1, FullOfOne
    <2>4. One(postPacket) = <<>> /\ One(postPacket') = One(Head(resultQueue))
        BY <1>4, <2>1
    <2>5. Ahead = One(Head(resultQueue))
        BY <1>4, <2>2, <2>3, <2>4 DEF Ahead
    <2>6. Ahead' = One(Head(resultQueue))
        BY <1>2, <1>4, <2>2, <2>3, <2>4 DEF Ahead
    <2> QED BY <1>2, <1>3, <2>1, <2>5, <2>6
<1>7. CASE PostSend
    <2>1. /\ postPacket' = None /\ resultQueue' = resultQueue
          /\ answered' = IF IsTrigger(postPacket) THEN answered \cup {postPacket} ELSE answered
        BY <1>7 DEF PostSend
    <2>2. CASE ~IsTrigger(postPacket)
        BY <1>2, <1>3, <1>4, <2>1, <2>2 DEF Ahead
    <2>3. CASE IsTrigger(postPacket)
        <3> DEFINE second == One(previous)
                   third == One(First(resultQueue))
        <3>1. /\ One(postPacket) = <<postPacket>> /\ postPacket \in Triggers
              /\ second \in Seq(Triggers) /\ third \in Seq(Triggers) /\ One(packet) \in Seq(Triggers)
              /\ triggerQueue \in Seq(Triggers)
            BY <1>4, <2>3, OneType DEF IsTrigger, TypeOK
        <3> DEFINE rest == ((second \o third) \o One(packet)) \o triggerQueue
        <3>2. Line' = rest
            <4>1. Ahead' = second \o third
                BY <1>2, <1>4, <2>1, <3>1 DEF Ahead
            <4> QED BY <1>3, <4>1
        <3>3. Line = <<postPacket>> \o rest /\ rest \in Seq(Triggers)
            <4>1. Ahead = (<<postPacket>> \o second) \o third
                BY <3>1 DEF Ahead
            <4> HIDE DEF second, third
            <4>2. <<postPacket>> \in Seq(Triggers) /\ second \o third \in Seq(Triggers)
                  /\ (second \o third) \o One(packet) \in Seq(Triggers) /\ rest \in Seq(Triggers)
                BY <3>1, Joined
            <4>3. Ahead = <<postPacket>> \o (second \o third)
                BY <3>1, <4>1, <4>2, ConcatAssociative
            <4>4. Ahead \o One(packet) = <<postPacket>> \o ((second \o third) \o One(packet))
                <5>1. \A a, b, c \in Seq(Triggers) : (a \o b) \o c = a \o (b \o c)
                    BY ConcatAssociative
                <5>2. (<<postPacket>> \o (second \o third)) \o One(packet)
                         = <<postPacket>> \o ((second \o third) \o One(packet))
                    BY <3>1, <4>2, <5>1
                <5> QED BY <4>3, <5>2
            <4> DEFINE behind == (second \o third) \o One(packet)
            <4> HIDE DEF behind
            <4>5. Line = (<<postPacket>> \o behind) \o triggerQueue
                BY <1>3, <4>4 DEF behind
            <4>6. (<<postPacket>> \o behind) \o triggerQueue = <<postPacket>> \o (behind \o triggerQueue)
                BY <3>1, <4>2, ConcatAssociative DEF behind
            <4> QED BY <4>2, <4>5, <4>6 DEF behind
        <3> HIDE DEF rest
        <3>4. Line # <<>> /\ Head(Line) = postPacket /\ Tail(Line) = rest
            BY <3>1, <3>3, PutInFront
        <3> QED BY <1>2, <2>1, <2>3, <3>2, <3>4 DEF Server!Answer
    <2> QED BY <2>2, <2>3
<1> QED BY <1>5, <1>6, <1>7 DEF Postprocess

\* A put that times out takes the trigger out of the line, which closes up.
LEMMA TimeoutLoses ==
    ASSUME IInv, ResCap = 1, InfTimeout
    PROVE  \E i \in 1..Len(Line) : Server!Lose(i)
<1> USE DEF IInv
<1>1. /\ packet \in Triggers /\ packet' = None /\ triggerDrops' = triggerDrops + 1
      /\ triggerQueue' = triggerQueue /\ resultQueue' = resultQueue /\ previous' = previous
      /\ postPacket' = postPacket /\ answered' = answered
    BY DEF InfTimeout, IsTrigger, sessionVars, postVars
<1>2. TypeOK'
    BY InferenceType DEF Inference
<1>3. One(packet) = <<packet>> /\ One(packet') = <<>>
    BY <1>1, OneType DEF IsTrigger
<1>4. Line = (Ahead \o <<packet>>) \o triggerQueue /\ Line' = Ahead \o triggerQueue
    <2>1. Ahead' = Ahead /\ Ahead \in Seq(Triggers)
        BY <1>1, LineOfOnes DEF Ahead
    <2>2. Line' = (Ahead \o <<>>) \o triggerQueue
        BY <1>1, <1>2, <1>3, <2>1, LineOfOnesNext
    <2> QED BY <1>3, <2>1, <2>2, LineOfOnes, JoinedEmpty
<1>5. Ahead \in Seq(Triggers) /\ triggerQueue \in Seq(Triggers)
    BY LineOfOnes DEF TypeOK
<1>6. /\ Len(Ahead) + 1 \in 1..Len(Line)
      /\ Line' = [k \in 1..(Len(Line) - 1) |-> IF k < Len(Ahead) + 1 THEN Line[k] ELSE Line[k + 1]]
    <2> DEFINE whole == (Ahead \o <<packet>>) \o triggerQueue
    <2>1. /\ Len(Ahead) + 1 \in 1..Len(whole)
          /\ Ahead \o triggerQueue
                = [k \in 1..(Len(whole) - 1) |-> IF k < Len(Ahead) + 1 THEN whole[k] ELSE whole[k + 1]]
        BY <1>1, <1>5, TakeOut
    <2>2. Line = whole /\ Line' = Ahead \o triggerQueue
        BY <1>4
    <2> HIDE DEF whole
    <2> QED BY <2>1, <2>2
<1>7. Server!Lose(Len(Ahead) + 1)
    BY <1>1, <1>6 DEF Server!Lose
<1> QED BY <1>6, <1>7

\* A trigger is accepted only once: it is nowhere and was not answered.
LEMMA SessionServes ==
    ASSUME IInv, ResCap = 1, Session
    PROVE  \/ \E t \in Triggers : Server!Accept(t)
           \/ Line' = Line /\ answered' = answered /\ triggerDrops' = triggerDrops
<1> USE DEF IInv
<1>1. /\ resultQueue' = resultQueue /\ packet' = packet /\ previous' = previous /\ postPacket' = postPacket
      /\ answered' = answered /\ triggerDrops' = triggerDrops
    BY DEF Session, SetContinuous, Refuse, QueueTrigger, Acknowledge, infVars, postVars
<1>2. TypeOK'
    BY SessionType
<1>3. Line = (Ahead \o One(packet)) \o triggerQueue /\ Line' = (Ahead \o One(packet)) \o triggerQueue'
    <2>1. Ahead' = Ahead
        BY <1>1 DEF Ahead
    <2> QED BY <1>1, <1>2, <2>1, LineOfOnes, LineOfOnesNext
<1>4. CASE triggerQueue' = triggerQueue
    BY <1>1, <1>3, <1>4
<1>5. ASSUME NEW t \in Triggers, QueueTrigger(t) PROVE Server!Accept(t)
    <2>1. Line' = Append(Line, t)
        <3>1. triggerQueue' = Append(triggerQueue, t) /\ triggerQueue \in Seq(Triggers)
              /\ Ahead \o One(packet) \in Seq(Triggers)
            BY <1>5, LineOfOnes DEF QueueTrigger, TypeOK
        <3> QED BY <1>3, <3>1, JoinedLast
    <2>2. Places(t) = 0 /\ t \notin answered
        <3>1. t \notin Accepted
            BY <1>5 DEF QueueTrigger, Accepted
        <3> QED BY <3>1 DEF Accounted
    <2>3. ~Server!InLine(t)
        <3>1. /\ Count(triggerQueue, t) = 0 /\ Count(resultQueue, t) = 0
              /\ packet # t /\ previous # t /\ postPacket # t
            BY <2>2, NowhereAtAll
        <3>2. ~Holds(triggerQueue, t) /\ ~Holds(resultQueue, t)
            BY <3>1, CountNone DEF TypeOK
        <3>3. First(resultQueue) # t
            BY <3>2, FirstHeld, NotThere DEF TypeOK, IsTrigger
        <3>4. /\ ~Holds(One(packet), t) /\ ~Holds(One(previous), t) /\ ~Holds(One(postPacket), t)
              /\ ~Holds(One(First(resultQueue)), t)
            BY <3>1, <3>3, OneHeld
        <3>5. ~Holds(Ahead, t)
            BY <3>4, OneType, Joined, JoinedHeld DEF Ahead
        <3>6. ~Holds(Ahead \o One(packet), t)
            BY <3>4, <3>5, OneType, LineOfOnes, JoinedHeld
        <3>7. ~Holds(Line, t)
            BY <1>3, <3>2, <3>6, LineOfOnes, JoinedHeld DEF TypeOK
        <3> QED BY <3>7 DEF Server!InLine, Holds
    <2> QED BY <1>1, <2>1, <2>2, <2>3 DEF Server!Accept
<1>6. CASE SetContinuous \/ \E t \in Triggers : Refuse(t) \/ Acknowledge(t)
    <2>1. triggerQueue' = triggerQueue
        BY <1>6 DEF SetContinuous, Refuse, Acknowledge
    <2> QED BY <1>4, <2>1
<1> QED BY <1>5, <1>6 DEF Session

LEMMA StartServes == Init => Server!Init
<1> SUFFICES ASSUME Init PROVE Server!Init
    OBVIOUS
<1>1. TriggersIn(resultQueue) = <<>>
    <2>1. <<>> \in Seq(Packets) /\ Len(<<>>) = 0
        BY EmptySeq
    <2>2. TriggersIn(<<>>) = One(First(<<>>))
        <3>1. PICK q \in Seq(Packets) : q = <<>> /\ Len(q) = 0
            BY <2>1
        <3>2. Len(q) <= 1
            BY <3>1
        <3>3. TriggersIn(q) = One(First(q))
            BY <3>2, OnePlace
        <3> QED BY <3>1, <3>3
    <2>3. First(<<>>) = None
        BY DEF First
    <2> QED BY <2>2, <2>3, OneType DEF Init
<1>2. One(postPacket) = <<>> /\ One(previous) = <<>> /\ One(packet) = <<>> /\ triggerQueue = <<>>
    BY OneType DEF Init
<1>3. <<>> \o <<>> = <<>> /\ <<>> \in Seq(Triggers)
    BY EmptySeq, JoinedEmpty
<1>4. Line = <<>>
    BY <1>1, <1>2, <1>3 DEF Line
<1> QED BY <1>4 DEF Init, Server!Init

LEMMA StepServes ==
    ASSUME IInv, ResCap = 1, [Next]_vars
    PROVE  [Server!Next]_(Server!vars)
<1>1. CASE Session
    BY <1>1, SessionServes DEF Server!Next, Server!vars
<1>2. CASE Inference
    <2>1. CASE InfTimeout
        BY <2>1, TimeoutLoses DEF Server!Next
    <2>2. CASE ~InfTimeout
        BY <1>2, <2>2, InferenceKeepsLine DEF Server!vars
    <2> QED BY <2>1, <2>2
<1>3. CASE Postprocess
    BY <1>3, PostprocessServes DEF Server!Next, Server!vars
<1>4. CASE Stop \/ UNCHANGED vars
    <2>1. UNCHANGED <<postPacket, previous, resultQueue, packet, triggerQueue, answered, triggerDrops>>
        BY <1>4 DEF Stop, vars, infVars, postVars, sessionVars
    <2>2. Line' = Line
        BY <2>1 DEF Line
    <2> QED BY <2>1, <2>2 DEF Server!vars
<1> QED BY <1>1, <1>2, <1>3, <1>4 DEF Next

\* The pipeline implements the trigger server: with the result queue of one
\* place that the apps ship with, triggers are answered once each in the order of
\* their acceptance, past frames and other triggers, however often a packet is
\* taken out of the queue and put back (box_grasp_vision/service.py:1333-1410).
THEOREM ServedInOrder ==
    ASSUME ResCap = 1
    PROVE  Spec => ServesInOrder
<1>1. Init => IInv
    BY InitIInv
<1>2. IInv /\ [Next]_vars => IInv'
    BY StepIInv
<1>3. Init => Server!Init
    BY StartServes
<1>4. IInv /\ [Next]_vars => [Server!Next]_(Server!vars)
    BY StepServes
<1> QED BY <1>1, <1>2, <1>3, <1>4, PTL DEF Spec, ServesInOrder, Server!Spec
===============================================================================
