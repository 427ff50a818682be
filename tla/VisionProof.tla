------------------------------ MODULE VisionProof ------------------------------
(* What the robots are told from what the cameras see: the choice of a ring      *)
(* (OnlineGrasp), for every scene and every limit of attempts; the frames it     *)
(* works on, from the bridge through the shared memory to each of the readers    *)
(* (FrameTransport), for any number of FrameSets, restarts and cached pairs; and *)
(* the placement's choice of boxes (PlacementService), for all detections.       *)
EXTENDS OnlineGrasp, FrameTransport, PlacementService, TLAPS, FiniteSetTheorems,
        SequenceTheorems, WellFoundedInduction

-----------------------------------------------------------------------------
(* The choice of a ring                                                        *)

Attempts == {"visible", "side"} \X Rings

\* A set of numbers has a least one.
LEMMA LeastOf ==
    ASSUME NEW numbers \in SUBSET Nat, numbers # {}
    PROVE  \E n \in numbers : \A m \in numbers : n <= m
<1> DEFINE Less == {ss \in Nat \X Nat : ss[1] < ss[2]}
<1>1. IsWellFoundedOn(Less, Nat)
    BY Zenon, NatLessThanWellFounded DEF OpToRel
<1>2. PICK n \in numbers : \A m \in numbers : <<m, n>> \notin Less
    <2> HIDE DEF Less
    <2> QED BY <1>1, WFMin
<1>3. ASSUME NEW m \in numbers PROVE n <= m
    <2>1. <<m, n>> \in Nat \X Nat /\ <<m, n>>[1] = m /\ <<m, n>>[2] = n
        OBVIOUS
    <2>2. ~(m < n)
        BY <1>2, <2>1, Zenon
    <2> QED BY <2>2
<1> QED BY <1>3

\* First is a member of the set.
LEMMA FirstIsMember ==
    ASSUME NEW numbers \in SUBSET Nat, numbers # {}
    PROVE  First(numbers) \in numbers
BY LeastOf, Zenon DEF First

\* Before the side attempts, every target tried has been excluded, and so has
\* every tilted mouth that was refused.
VisibleAttempts ==
    phase = "visible" =>
        /\ refused = {} /\ tilted \subseteq excluded
        /\ \A i \in DOMAIN tried : tried[i][1] = "visible" /\ tried[i][2] \in excluded

\* A tilted mouth that was tried will not be a candidate for the side, nor will
\* a side that was.
SideAttempts ==
    phase = "side" =>
        \A i \in DOMAIN tried :
            /\ tried[i][1] = "side" => tried[i][2] \in refused
            /\ /\ tried[i][1] = "visible" /\ Ring(tried[i][2]).mouth # "edge"
               /\ Classification(Ring(tried[i][2]).evidence) = "TILTED_VISIBLE_SIDE"
               => tried[i][2] \in excluded \cup tilted

Typed ==
    /\ scene \in Scenes
    /\ phase \in {"visible", "side", "done"}
    /\ excluded \subseteq Rings /\ tilted \subseteq Rings
    /\ pseudo \subseteq Rings /\ refused \subseteq Rings
    /\ tried \in Seq(Attempts)

\* The first part of OneVerdict.
NoneTwice ==
    \A i, j \in DOMAIN tried :
        \/ tried[i] = tried[j]
        \/ tried[i][2] = tried[j][2] /\ tried[i][2] \in excluded
        => i = j

IInv == Typed /\ VisibleAttempts /\ SideAttempts /\ NoneTwice /\ OneVerdict

LEMMA InitIInv == Init => IInv
BY DEF Init, IInv, Typed, VisibleAttempts, SideAttempts, NoneTwice, OneVerdict, Found, Attempts

\* A target is a matched ring that has not been excluded.
LEMMA TargetInScope ==
    ASSUME Typed
    PROVE  Target = NoRing \/ Target \in Scope
<1>1. Budget \subseteq Scope /\ Scope \subseteq Nat
    BY ScenesAssumption DEF Budget, Scope, Matched, Rings, Typed
<1>2. ASSUME {r \in Budget : Ring(r).clear} # {}
      PROVE  First({r \in Budget : Ring(r).clear}) \in Scope
    BY <1>1, <1>2, FirstIsMember
<1> QED BY <1>2 DEF Target

\* The ring whose class M39.5.0 finds is in scope.
LEMMA ClassInScope ==
    ASSUME Typed, Routes # {}
    PROVE  Examined \in Scope
<1>1. Target # NoRing => Examined \in Scope
    BY TargetInScope DEF Examined
<1>2. ASSUME Target = NoRing PROVE Class = "TILTED_VISIBLE_SIDE"
    <2>1. SurfaceRoute = "none" /\ ~Owns3
        BY <1>2 DEF SurfaceRoute, Kept, Owns3
    <2> QED BY <2>1 DEF Routes
<1>3. Class = "TILTED_VISIBLE_SIDE" => Examined \in Scope
    BY DEF Class
<1> QED BY <1>1, <1>2, <1>3

\* A side target is a ring no verdict has been given on.
LEMMA SideTargetIsNew ==
    ASSUME Typed, SideTarget # NoRing
    PROVE  SideTarget \in Rings \ (excluded \cup tilted \cup refused)
<1> DEFINE place == {i \in DOMAIN scene.shallow : scene.shallow[i] \in SideCandidates}
           sound == {i \in place : /\ Cardinality({j \in place : j <= i}) <= MaximumAxes
                                   /\ Ring(scene.shallow[i]).side # "none"}
<1>1. scene.shallow \in Seq(Rings)
    BY ScenesAssumption DEF Typed, Rings
<1>2. sound \subseteq place /\ place \subseteq Nat
    BY <1>1
<1>3. sound # {} /\ SideTarget = scene.shallow[First(sound)]
    BY DEF SideTarget
<1> HIDE DEF sound
<1>4. First(sound) \in place
    BY <1>2, <1>3, FirstIsMember
<1>5. scene.shallow[First(sound)] \in SideCandidates
    BY <1>4
<1> QED BY <1>3, <1>5 DEF SideCandidates, Typed

\* The attempts after one more.
LEMMA OneMore ==
    ASSUME NEW a, NEW S, a \in Seq(S), NEW x \in S
    PROVE  /\ Append(a, x) \in Seq(S)
           /\ DOMAIN Append(a, x) = DOMAIN a \cup {Len(a) + 1}
           /\ Len(a) + 1 \notin DOMAIN a
           /\ \A i \in DOMAIN a : Append(a, x)[i] = a[i]
           /\ Append(a, x)[Len(a) + 1] = x
OBVIOUS

\* The attempts when a visible one is over.
LEMMA TriedTyped ==
    ASSUME Typed, phase = "visible"
    PROVE  Tried \in Seq(Attempts)
<1>1. CASE Target = NoRing
    BY <1>1 DEF Tried, Typed
<1>2. CASE Target # NoRing
    <2>1. <<phase, Target>> \in Attempts
        BY <1>2, TargetInScope DEF Attempts, Scope, Matched
    <2> QED BY <1>2, <2>1, OneMore DEF Tried, Typed
<1> QED BY <1>1, <1>2

LEMMA TriedNew ==
    ASSUME Typed, VisibleAttempts, NoneTwice, phase = "visible"
    PROVE  /\ \A i, j \in DOMAIN Tried : Tried[i][2] = Tried[j][2] => i = j
           /\ \A i \in DOMAIN Tried :
                 Tried[i][1] = "visible" /\ (Tried[i][2] \in excluded \/ Tried[i][2] = Target)
<1>1. \A i, j \in DOMAIN tried : tried[i][2] = tried[j][2] => i = j
    BY DEF VisibleAttempts, NoneTwice
<1>2. CASE Target = NoRing
    BY <1>1, <1>2 DEF Tried, VisibleAttempts
<1>3. CASE Target # NoRing
    <2> DEFINE new == <<phase, Target>>
    <2>1. new \in Attempts /\ Target \notin excluded
        BY <1>3, TargetInScope DEF Attempts, Scope, Matched
    <2>2. new[1] = "visible" /\ new[2] = Target
        OBVIOUS
    <2> HIDE DEF new
    <2>3. /\ DOMAIN Append(tried, new) = DOMAIN tried \cup {Len(tried) + 1}
          /\ Len(tried) + 1 \notin DOMAIN tried
          /\ \A i \in DOMAIN tried : Append(tried, new)[i] = tried[i]
          /\ Append(tried, new)[Len(tried) + 1] = new
        BY <2>1, OneMore DEF Typed
    <2>4. Tried = Append(tried, new)
        BY <1>3 DEF Tried, new
    <2>5. \A i \in DOMAIN tried : tried[i][1] = "visible" /\ tried[i][2] \in excluded
        BY DEF VisibleAttempts
    <2> QED BY <1>1, <2>1, <2>2, <2>3, <2>4, <2>5
<1> QED BY <1>2, <1>3

\* An attempt without a target is not among them.
LEMMA TriedOfRing ==
    ASSUME Typed, VisibleAttempts, NoneTwice, phase = "visible",
           NEW i \in DOMAIN Tried, Tried[i][2] \notin excluded
    PROVE  Target # NoRing
BY DEF Tried, VisibleAttempts

LEMMA GraspVisibleKeeps == IInv /\ GraspVisible => IInv'
<1> SUFFICES ASSUME IInv, GraspVisible PROVE IInv'
    OBVIOUS
<1> USE DEF IInv
<1>1. PICK route \in Routes : phase' = "done" /\ answer' = [route |-> route, ring |-> Examined]
    BY DEF GraspVisible, Answered
<1>2. /\ phase = "visible" /\ tried' = Tried
      /\ UNCHANGED <<scene, excluded, tilted, pseudo, refused>>
    BY DEF GraspVisible
<1>3. Examined \in Scope
    BY <1>1, ClassInScope
<1>4. Typed'
    BY <1>1, <1>2, TriedTyped DEF Typed, Rings, Attempts
<1>5. VisibleAttempts' /\ SideAttempts'
    BY <1>1 DEF VisibleAttempts, SideAttempts
<1>6. NoneTwice'
    BY <1>2, TriedNew DEF NoneTwice
<1>7. Found' => answer'.ring \notin (excluded \cup refused \cup tilted)'
    BY <1>1, <1>2, <1>3 DEF Scope, VisibleAttempts
<1>8. answer'.route # "side"
    BY <1>1 DEF Routes
<1> QED BY <1>4, <1>5, <1>6, <1>7, <1>8 DEF OneVerdict, NoneTwice

LEMMA VisibleRaisesKeeps == IInv /\ VisibleRaises => IInv'
<1> SUFFICES ASSUME IInv, VisibleRaises PROVE IInv'
    OBVIOUS
<1>1. /\ phase' = "done" /\ answer'.route = "raised"
      /\ UNCHANGED <<scene, excluded, tilted, pseudo, refused, tried>>
    BY DEF VisibleRaises, Answered
<1>2. Typed' /\ NoneTwice'
    BY <1>1 DEF IInv, Typed, NoneTwice, Rings, Attempts
<1>3. VisibleAttempts' /\ SideAttempts'
    BY <1>1 DEF VisibleAttempts, SideAttempts
<1>4. ~Found'
    BY <1>1 DEF Found
<1> QED BY <1>2, <1>3, <1>4 DEF IInv, OneVerdict, NoneTwice

LEMMA NextVisibleKeeps == IInv /\ NextVisible => IInv'
<1> SUFFICES ASSUME IInv, NextVisible PROVE IInv'
    OBVIOUS
<1> USE DEF IInv
<1>1. /\ phase = "visible" /\ Class # "RAISED" /\ Routes = {}
      /\ excluded' = Rejected /\ tilted' = TiltedRefusals /\ tried' = Tried
      /\ UNCHANGED <<scene, refused, answer>>
    BY DEF NextVisible
<1>2. \/ phase' = phase /\ pseudo' = pseudo /\ TargetRejected
      \/ phase' = "side" /\ pseudo' = PseudoMouths
    BY DEF NextVisible, MayRetry
<1>3. Target = NoRing \/ Target \in Scope
    BY TargetInScope
<1>4. Examined \in Rings
    BY <1>3, ScenesAssumption DEF Examined, Typed, Rings, Scope, Matched
<1>5. excluded \subseteq excluded' /\ excluded' \subseteq excluded \cup {Target}
    BY <1>1 DEF Rejected
<1>6. Typed'
    <2>1. excluded' \subseteq Rings /\ tilted' \subseteq Rings
        BY <1>1, <1>3, <1>4 DEF Typed, Rejected, TiltedRefusals, TargetRejected, Kept, Scope, Matched
    <2>2. pseudo' \subseteq Rings
        BY <1>2 DEF Typed, PseudoMouths, Analyzed, Budget, Scope, Matched
    <2>3. tried' \in Seq(Attempts)
        BY <1>1, TriedTyped
    <2> QED BY <1>1, <1>2, <2>1, <2>2, <2>3 DEF Typed, Rings, Attempts
<1>7. NoneTwice'
    BY <1>1, TriedNew DEF NoneTwice
<1>8. VisibleAttempts'
    <2>1. CASE phase' = phase /\ TargetRejected
        <3>1. excluded' = excluded \cup {Target}
            BY <1>1, <2>1 DEF Rejected
        <3>2. Examined = Target
            BY <2>1 DEF Examined, TargetRejected, Kept
        <3>3. tilted' \subseteq excluded'
            BY <1>1, <3>1, <3>2 DEF TiltedRefusals, VisibleAttempts
        <3> QED BY <1>1, <3>1, <3>3, TriedNew DEF VisibleAttempts
    <2>2. CASE phase' = "side"
        BY <2>2 DEF VisibleAttempts
    <2> QED BY <1>2, <2>1, <2>2
<1>9. SideAttempts'
    <2> SUFFICES ASSUME NEW i \in DOMAIN Tried,
                        Tried[i][2] \notin excluded, Ring(Tried[i][2]).mouth # "edge",
                        Classification(Ring(Tried[i][2]).evidence) = "TILTED_VISIBLE_SIDE"
                 PROVE  Tried[i][2] \in tilted'
        BY <1>1, <1>5, TriedNew DEF SideAttempts, Ring
    <2>1. Tried[i][2] = Target
        BY <1>1, TriedNew
    <2>2. Target # NoRing
        BY <1>1, <2>1, TriedOfRing
    <2>3. Class = "TILTED_VISIBLE_SIDE"
        BY <1>3, <2>1, <2>2 DEF Class, Examined, Scope, Matched
    <2>4. RefusedTilted
        <3>1. "rim" \notin Routes
            BY <1>1
        <3> QED BY <1>1, <2>3, <3>1 DEF Routes
    <2> QED BY <1>1, <2>1, <2>2, <2>4 DEF TiltedRefusals, Examined
<1>10. ~Found'
    BY <1>1, <1>2 DEF Found
<1> QED BY <1>6, <1>7, <1>8, <1>9, <1>10 DEF OneVerdict, NoneTwice

LEMMA NoSideKeeps == IInv /\ NoSide => IInv'
<1> SUFFICES ASSUME IInv, NoSide PROVE IInv'
    OBVIOUS
<1>1. /\ phase' = "done" /\ answer'.route = "none"
      /\ UNCHANGED <<scene, excluded, tilted, pseudo, refused, tried>>
    BY DEF NoSide, Answered
<1>2. Typed' /\ NoneTwice'
    BY <1>1 DEF IInv, Typed, NoneTwice, Rings, Attempts
<1>3. VisibleAttempts' /\ SideAttempts'
    BY <1>1 DEF VisibleAttempts, SideAttempts
<1>4. ~Found'
    BY <1>1 DEF Found
<1> QED BY <1>2, <1>3, <1>4 DEF IInv, OneVerdict, NoneTwice

\* The attempts with one more on a side.
LEMMA SideNew ==
    ASSUME Typed, SideAttempts, NoneTwice, phase = "side", SideTarget # NoRing
    PROVE  LET now == Append(tried, <<phase, SideTarget>>)
           IN  /\ now \in Seq(Attempts)
               /\ \A i, j \in DOMAIN now :
                     \/ now[i] = now[j]
                     \/ now[i][2] = now[j][2] /\ now[i][2] \in excluded
                     => i = j
               /\ \A i \in DOMAIN now :
                     \/ i \in DOMAIN tried /\ now[i] = tried[i]
                     \/ now[i] = <<"side", SideTarget>>
<1> DEFINE new == <<phase, SideTarget>>
           now == Append(tried, new)
<1>1. SideTarget \in Rings \ (excluded \cup tilted \cup refused)
    BY SideTargetIsNew
<1>2. new \in Attempts /\ new[1] = "side" /\ new[2] = SideTarget /\ new = <<"side", SideTarget>>
    BY <1>1 DEF Attempts
<1> HIDE DEF new
<1>3. /\ now \in Seq(Attempts)
      /\ DOMAIN now = DOMAIN tried \cup {Len(tried) + 1}
      /\ Len(tried) + 1 \notin DOMAIN tried
      /\ \A i \in DOMAIN tried : now[i] = tried[i]
      /\ now[Len(tried) + 1] = new
    BY <1>2, OneMore DEF Typed
<1> HIDE DEF now
<1>4. \A i \in DOMAIN tried : tried[i] # new
    BY <1>1, <1>2 DEF SideAttempts
<1>5. \A i, j \in DOMAIN now :
          \/ now[i] = now[j]
          \/ now[i][2] = now[j][2] /\ now[i][2] \in excluded
          => i = j
    BY <1>1, <1>2, <1>3, <1>4 DEF NoneTwice
<1>6. \A i \in DOMAIN now :
          (i \in DOMAIN tried /\ now[i] = tried[i]) \/ now[i] = <<"side", SideTarget>>
    BY <1>2, <1>3
<1> QED BY <1>3, <1>5, <1>6 DEF now, new

LEMMA GraspSideKeeps == IInv /\ GraspSide => IInv'
<1> SUFFICES ASSUME IInv, GraspSide PROVE IInv'
    OBVIOUS
<1> USE DEF IInv
<1>1. /\ phase = "side" /\ SideTarget # NoRing
      /\ phase' = "done" /\ answer' = [route |-> "side", ring |-> SideTarget]
      /\ tried' = Append(tried, <<phase, SideTarget>>)
      /\ UNCHANGED <<scene, excluded, tilted, pseudo, refused>>
    BY DEF GraspSide, Answered
<1>2. SideTarget \in Rings \ (excluded \cup tilted \cup refused)
    BY <1>1, SideTargetIsNew
<1>3. Typed' /\ NoneTwice'
    BY <1>1, SideNew DEF Typed, NoneTwice, Rings, Attempts
<1>4. VisibleAttempts' /\ SideAttempts'
    BY <1>1 DEF VisibleAttempts, SideAttempts
<1>5. answer'.ring \notin (excluded \cup refused \cup tilted)'
    BY <1>1, <1>2
<1>6. ASSUME NEW i \in DOMAIN tried',
             tried'[i] = <<"visible", SideTarget>>, Ring(SideTarget).mouth # "edge"
      PROVE  Classification(Ring(SideTarget).evidence) # "TILTED_VISIBLE_SIDE"
    <2>1. i \in DOMAIN tried /\ tried[i] = <<"visible", SideTarget>>
        BY <1>1, <1>6, SideNew
    <2>2. tried[i][1] = "visible" /\ tried[i][2] = SideTarget
        BY <2>1
    <2> QED BY <1>1, <1>2, <1>6, <2>1, <2>2 DEF SideAttempts
<1>7. answer'.ring = SideTarget /\ scene' = scene
    BY <1>1
<1>8. (\A i \in DOMAIN tried :
          tried[i] = <<"visible", answer.ring>> /\ Ring(answer.ring).mouth # "edge"
          => Classification(Ring(answer.ring).evidence) # "TILTED_VISIBLE_SIDE")'
    BY <1>6, <1>7 DEF Ring
<1> QED BY <1>3, <1>4, <1>5, <1>8 DEF OneVerdict, NoneTwice

LEMMA NextSideKeeps == IInv /\ NextSide => IInv'
<1> SUFFICES ASSUME IInv, NextSide PROVE IInv'
    OBVIOUS
<1> USE DEF IInv
<1>1. /\ phase = "side" /\ SideTarget # NoRing
      /\ refused' = refused \cup {SideTarget}
      /\ tried' = Append(tried, <<phase, SideTarget>>)
      /\ UNCHANGED <<scene, excluded, tilted, pseudo>>
    BY DEF NextSide
<1>2. \/ phase' = "side" /\ answer' = answer
      \/ phase' = "done" /\ answer'.route = "none"
    BY <1>1 DEF NextSide, Answered
<1>3. SideTarget \in Rings
    BY <1>1, SideTargetIsNew
<1>4. Typed' /\ NoneTwice'
    BY <1>1, <1>2, <1>3, SideNew DEF Typed, NoneTwice, Rings, Attempts
<1>5. VisibleAttempts'
    BY <1>2 DEF VisibleAttempts
<1>6. SideAttempts'
    <2> SUFFICES ASSUME NEW i \in DOMAIN tried'
                 PROVE  /\ tried'[i][1] = "side" => tried'[i][2] \in refused'
                        /\ /\ tried'[i][1] = "visible" /\ Ring(tried'[i][2]).mouth # "edge"
                           /\ Classification(Ring(tried'[i][2]).evidence) = "TILTED_VISIBLE_SIDE"
                           => tried'[i][2] \in excluded \cup tilted
        BY <1>1 DEF SideAttempts, Ring
    <2>1. \/ i \in DOMAIN tried /\ tried'[i] = tried[i]
          \/ tried'[i] = <<"side", SideTarget>>
        BY <1>1, SideNew
    <2>2. CASE i \in DOMAIN tried /\ tried'[i] = tried[i]
        BY <1>1, <2>2 DEF SideAttempts
    <2>3. CASE tried'[i] = <<"side", SideTarget>>
        BY <1>1, <2>3
    <2> QED BY <2>1, <2>2, <2>3
<1>7. ~Found'
    BY <1>2, <1>1 DEF Found
<1> QED BY <1>4, <1>5, <1>6, <1>7 DEF OneVerdict, NoneTwice

LEMMA IInvKept == IInv /\ [Next]_vars => IInv'
<1> SUFFICES ASSUME IInv, [Next]_vars PROVE IInv'
    OBVIOUS
<1>1. CASE UNCHANGED vars
    BY <1>1 DEF vars, IInv, Typed, VisibleAttempts, SideAttempts, NoneTwice, OneVerdict,
                Found, Rings, Ring, Attempts
<1> QED BY <1>1, GraspVisibleKeeps, VisibleRaisesKeeps, NextVisibleKeeps, NoSideKeeps,
           GraspSideKeeps, NextSideKeeps DEF Next

\* What the attempts have excluded, refused and tried is never grasped by another
\* route: for every scene and every limit.
THEOREM VerdictsStand == Spec => []OneVerdict
<1>1. IInv => OneVerdict
    BY DEF IInv
<1> QED BY InitIInv, IInvKept, <1>1, PTL DEF Spec

-----------------------------------------------------------------------------
\* The class of a visible mouth is monotone: less evidence for a tilt keeps a
\* mouth upright, or keeps it uncertain on a surface that keeps the flat candidate.
LEMMA LessTiltedStaysFlat ==
    ASSUME NEW e \in Evidence, NEW s \in Surfaces, NEW f \in LessTilted(e)
    PROVE  /\ Classification(e) = "UPRIGHT_VISIBLE" => Classification(f) = "UPRIGHT_VISIBLE"
           /\ Classification(e) = "UNCERTAIN" /\ Routing(e, s) = "keep" =>
                 \/ Classification(f) = "UPRIGHT_VISIBLE"
                 \/ Classification(f) = "UNCERTAIN" /\ Routing(f, s) = "keep"
<1>1. /\ e.deficit \in -1..3 /\ e.sector \in 0..3 /\ e.state \in {"FLAT", "UNCERTAIN", "TILTED"}
      /\ e.sure \in BOOLEAN /\ e.anchor \in BOOLEAN /\ e.conic \in {"unresolved", "mild", "steep"}
    BY DEF Evidence
<1>2. /\ f.deficit = e.deficit \/ (f.deficit = e.deficit - 1 /\ f.deficit >= 0)
      /\ f.sector = e.sector \/ (f.sector = e.sector - 1 /\ f.sector >= 0)
      /\ f.state \in {"FLAT", "UNCERTAIN", "TILTED"}
      /\ StateRank(f.state) <= StateRank(e.state)
      /\ f.sure = e.sure /\ f.anchor = e.anchor /\ f.conic = e.conic
    BY <1>1 DEF LessTilted
<1>3. /\ f.state = "TILTED" => e.state = "TILTED"
      /\ e.state = "FLAT" => f.state = "FLAT"
    BY <1>1, <1>2 DEF StateRank
<1>4. ShapeState(e) = "UPRIGHT" => ShapeState(f) = "UPRIGHT"
    BY <1>1, <1>2, <1>3 DEF ShapeState
<1>5. KeepsFlatAnchor(e) => KeepsFlatAnchor(f)
    <2>1. e.deficit < 3 => f.deficit < 3
        BY <1>1, <1>2
    <2>2. f.sector = 3 => e.sector = 3
        BY <1>1, <1>2
    <2> QED BY <1>2, <1>3, <2>1, <2>2, Zenon DEF KeepsFlatAnchor
<1>6. ASSUME Classification(e) = "UPRIGHT_VISIBLE" PROVE Classification(f) = "UPRIGHT_VISIBLE"
    <2>1. ShapeState(e) = "UPRIGHT" \/ e.conic = "mild" \/ (e.conic = "unresolved" /\ KeepsFlatAnchor(e))
        BY <1>1, <1>6 DEF Classification
    <2> QED BY <1>2, <1>4, <1>5, <2>1 DEF Classification
<1>7. ASSUME Classification(e) = "UNCERTAIN", Routing(e, s) = "keep"
      PROVE  \/ Classification(f) = "UPRIGHT_VISIBLE"
             \/ Classification(f) = "UNCERTAIN" /\ Routing(f, s) = "keep"
    <2>1. e.conic = "unresolved"
        BY <1>1, <1>7 DEF Classification
    <2>2. Classification(f) \in {"UPRIGHT_VISIBLE", "UNCERTAIN"}
        BY <1>2, <2>1 DEF Classification
    <2>4. s.class = "FLAT" \/ ProtectsFlat(e, s)
        BY <1>7 DEF Routing
    <2>5. ProtectsFlat(e, s) => ProtectsFlat(f, s)
        BY <1>2, <1>3, Zenon DEF ProtectsFlat
    <2>6. Routing(f, s) = "keep"
        BY <2>4, <2>5 DEF Routing
    <2> QED BY <2>2, <2>6
<1> QED BY <1>6, <1>7

\* A surface that keeps the flat candidate keeps it without the support of depth.
LEMMA UnsupportedStaysFlat ==
    ASSUME NEW e, NEW s \in Surfaces, Routing(e, s) = "keep", NEW dense \in {FALSE, s.dense}
    PROVE  Routing(e, [s EXCEPT !.dense = dense]) = "keep"
<1>1. CASE dense = s.dense
    <2>1. [s EXCEPT !.dense = dense] = s
        BY <1>1 DEF Surfaces
    <2> QED BY <2>1
<1>2. CASE dense = FALSE
    <2>1. PICK t : t = [s EXCEPT !.dense = FALSE]
        OBVIOUS
    <2>2. t.class = s.class /\ t.reference = s.reference /\ ~t.dense
        BY <2>1 DEF Surfaces
    <2>3. s.class = "FLAT" \/ ProtectsFlat(e, s)
        BY DEF Routing
    <2>4. ProtectsFlat(e, s) => ProtectsFlat(e, t)
        BY <2>2, Zenon DEF ProtectsFlat
    <2>5. Routing(e, t) = "keep"
        BY <2>2, <2>3, <2>4 DEF Routing
    <2> QED BY <1>2, <2>1, <2>5
<1> QED BY <1>1, <1>2

\* Why a ring is grasped flat.
FlatlyGrasped ==
    Found /\ answer.route = "clock3" =>
        LET ring == Ring(answer.ring)
        IN  /\ answer.ring \in Rings
            /\ \/ Classification(ring.evidence) = "UPRIGHT_VISIBLE"
               \/ /\ Classification(ring.evidence) = "UNCERTAIN" /\ ring.mouth = "round"
                  /\ Routing(ring.evidence, ring.surface) = "keep"

LEMMA FlatGraspHasReason == IInv /\ GraspVisible => FlatlyGrasped'
<1> SUFFICES ASSUME IInv, GraspVisible, answer'.route = "clock3" PROVE FlatlyGrasped'
    BY DEF FlatlyGrasped
<1>1. /\ "clock3" \in Routes /\ answer'.ring = Examined /\ scene' = scene /\ Typed
    BY DEF GraspVisible, Answered, IInv
<1>2. /\ Class # "RAISED" /\ Class # "TILTED_VISIBLE_SIDE"
      /\ Owns3 \/ SurfaceRoute = "keep"
    BY <1>1 DEF Routes
<1>3. Target # NoRing
    BY <1>2 DEF Owns3, SurfaceRoute, Kept
<1>4. Target \in Scope /\ Examined = Target /\ Target \in Rings /\ Ring(Target).mouth # "none"
    BY <1>1, <1>3, TargetInScope DEF Examined, Scope, Matched
<1>5. /\ Ring(Target).mouth \in {"none", "edge", "flat", "round"}
      /\ Ring(Target).evidence \in Evidence
    BY <1>1, <1>4, ScenesAssumption DEF Typed, Rings, Ring
<1>6. Class = "PURE_SIDE" \/ Class = Classification(Ring(Target).evidence)
    BY <1>2, <1>3, <1>4 DEF Class
<1>7. CASE Owns3
    BY <1>1, <1>4, <1>6, <1>7 DEF Owns3, FlatlyGrasped, Ring, Rings
<1>8. CASE SurfaceRoute = "keep"
    <2>1. Kept /\ Routing(Ring(Target).evidence, Ring(Target).surface) = "keep"
        BY <1>8 DEF SurfaceRoute
    <2>2. Ring(Target).mouth = "round"
        <3>1. Target \in Analyzed
            <4>1. Target \in Budget
                <5> DEFINE clear == {r \in Budget : Ring(r).clear}
                <5>1. clear # {} /\ Target = First(clear)
                    BY <1>3 DEF Target
                <5>2. clear \subseteq Nat
                    BY <1>1, ScenesAssumption DEF Budget, Scope, Matched, Rings, Typed
                <5>3. First(clear) \in clear
                    BY <5>1, <5>2, FirstIsMember
                <5> QED BY <5>1, <5>3
            <4>2. Target \in Nat
                BY <1>1, <1>4, ScenesAssumption DEF Typed, Rings
            <4> QED BY <4>1, <4>2 DEF Analyzed
        <3> QED BY <1>4, <1>5, <2>1, <3>1 DEF Kept, PseudoMouths
    <2>3. Class = Classification(Ring(Target).evidence)
        BY <1>3, <1>4, <2>2 DEF Class
    <2>4. Classification(Ring(Target).evidence) \in {"UPRIGHT_VISIBLE", "TILTED_VISIBLE_SIDE", "UNCERTAIN"}
        BY <1>5 DEF Classification, Evidence
    <2> QED BY <1>1, <1>2, <1>4, <2>1, <2>2, <2>3, <2>4 DEF FlatlyGrasped, Ring, Rings
<1> QED BY <1>2, <1>7, <1>8

\* A ring grasped flat would be grasped flat if it looked less tilted: for every
\* scene whose rings have the evidence of VisibleSurface.
THEOREM FlatGraspsStand == Spec => []TiltNeverFlattens
<1>1. Init => FlatlyGrasped
    BY DEF Init, FlatlyGrasped, Found
<1>2. IInv /\ FlatlyGrasped /\ [Next]_vars => FlatlyGrasped'
    <2> SUFFICES ASSUME IInv, FlatlyGrasped, [Next]_vars PROVE FlatlyGrasped'
        OBVIOUS
    <2>1. CASE VisibleRaises \/ NoSide \/ GraspSide
        BY <2>1 DEF VisibleRaises, NoSide, GraspSide, Answered, FlatlyGrasped
    <2>2. CASE NextVisible
        BY <2>2 DEF NextVisible, FlatlyGrasped, Found
    <2>3. CASE NextSide
        BY <2>3 DEF NextSide, Answered, FlatlyGrasped, Found
    <2>4. CASE UNCHANGED vars
        BY <2>4 DEF vars, FlatlyGrasped, Found, Ring, Rings
    <2> QED BY <2>1, <2>2, <2>3, <2>4, FlatGraspHasReason DEF Next
<1>3. IInv /\ FlatlyGrasped => TiltNeverFlattens
    <2> SUFFICES ASSUME IInv, FlatlyGrasped, Found, answer.route = "clock3",
                        NEW e \in LessTilted(Ring(answer.ring).evidence),
                        NEW dense \in {FALSE, Ring(answer.ring).surface.dense}
                 PROVE  \/ Classification(e) = "UPRIGHT_VISIBLE"
                        \/ /\ Classification(e) = "UNCERTAIN" /\ Ring(answer.ring).mouth = "round"
                           /\ Routing(e, [Ring(answer.ring).surface EXCEPT !.dense = dense]) = "keep"
        BY DEF TiltNeverFlattens
    <2>1. Ring(answer.ring).evidence \in Evidence /\ Ring(answer.ring).surface \in Surfaces
        BY ScenesAssumption DEF IInv, Typed, FlatlyGrasped, Rings, Ring
    <2>2. \/ Classification(Ring(answer.ring).evidence) = "UPRIGHT_VISIBLE"
          \/ /\ Classification(Ring(answer.ring).evidence) = "UNCERTAIN" /\ Ring(answer.ring).mouth = "round"
             /\ Routing(Ring(answer.ring).evidence, Ring(answer.ring).surface) = "keep"
        BY DEF FlatlyGrasped
    <2>3. PICK g \in Evidence, s \in Surfaces : g = Ring(answer.ring).evidence /\ s = Ring(answer.ring).surface
        BY <2>1
    <2>4. e \in LessTilted(g)
        BY <2>3
    <2>5. /\ Classification(g) = "UPRIGHT_VISIBLE" => Classification(e) = "UPRIGHT_VISIBLE"
          /\ Classification(g) = "UNCERTAIN" /\ Routing(g, s) = "keep" =>
                \/ Classification(e) = "UPRIGHT_VISIBLE"
                \/ Classification(e) = "UNCERTAIN" /\ Routing(e, s) = "keep"
        BY <2>4, LessTiltedStaysFlat
    <2>6. Routing(e, s) = "keep" => Routing(e, [Ring(answer.ring).surface EXCEPT !.dense = dense]) = "keep"
        BY <2>3, UnsupportedStaysFlat
    <2> QED BY <2>2, <2>3, <2>5, <2>6
<1> QED BY <1>1, <1>2, <1>3, InitIInv, IInvKept, PTL DEF Spec

-----------------------------------------------------------------------------
(* The bridge and the readers                                                  *)

\* An image of the FrameSet in hand remains to be published on channel c, its
\* next store is for c, and its stamp is still to come.
InTodo(c) == todo \in {<<c>>, <<"color", "depth">>}
Storing(c) == todo # <<>> /\ Head(todo) = c /\ c \in mapped
Pending(c) == InTodo(c) /\ ~(Storing(c) /\ at = 5)

BridgeInv ==
    /\ at # 1 => todo # <<>> /\ Head(todo) \in mapped
    /\ todo # <<>> => shot > 0

\* The published buffer is one image; with the active word of the sequence it has
\* the stamp of that image, and the spare one fills up with the FrameSet in hand.
ChannelInv(c) ==
    LET s == shm[c]
    IN  /\ s.buffer[s.seq % 2]["top"] = s.buffer[s.seq % 2]["bottom"]
        /\ s.buffer[s.active]["top"] = s.buffer[s.active]["bottom"]
        /\ s.active = s.seq % 2 => s.stamp = s.buffer[s.active]["top"]
        /\ s.stamp <= shot /\ (Pending(c) => s.stamp < shot)
        /\ c \in mapped => (s.active # s.seq % 2 <=> Storing(c) /\ at > 3)
        /\ Storing(c) =>
              /\ at > 1 => s.buffer[Spare(c)]["top"] = shot
              /\ at > 2 => s.buffer[Spare(c)]["bottom"] = shot
              /\ at = 5 => s.stamp = shot

\* The stamp that was copied is still the one of the channel.
Same(c) == got.stamp # 0 /\ shm[c].stamp = got.stamp

\* No image with an earlier time can be read from channel c any more.
Seen(t, c) == t <= shot /\ (shm[c].stamp = 0 \/ t <= shm[c].stamp)

\* The copy under way on channel c.  A stamp only grows, or falls to zero with
\* the object, so that as long as it is the copied one the loaded halves are those
\* of one buffer, and of that stamp unless another FrameSet came.
CopyInv(c) ==
    LET s == shm[c]
        b == s.buffer[got.active]
    IN  stage = c =>
        /\ step <= 3 => got.stamp = 0
        /\ Seen(got.stamp, c) /\ (Pending(c) => got.stamp < shot)
        /\ step > 4 => got.active = got.seq % 2
        /\ step \in 5..6 /\ Same(c) /\ (s.seq % 2 = got.active \/ b["top"] = got.stamp) =>
              /\ got.top = b["top"]
              /\ step = 6 => got.bottom = b["bottom"]
        /\ step > 6 /\ Same(c) =>
              /\ got.top = got.bottom
              /\ ~overtaken => s.seq = got.seq \/ ~InTodo(c)
              /\ ~overtaken /\ (step > 7 \/ s.active = got.active) => got.top = got.stamp
        /\ step > 8 /\ got.stamp # 0 =>
              /\ got.top = got.bottom
              /\ ~overtaken => got.top = got.stamp

\* One image and, when it was copied in time, the one of its stamp.
Exact(image, prompt) ==
    image.stamp # 0 => /\ image.top = image.bottom
                       /\ prompt => image.top = image.stamp

HeldInv == stage = "depth" => Exact(held, ~overtaken) /\ Seen(held.stamp, "color")

CacheInv ==
    \A i \in DOMAIN cache :
        LET p == cache[i]
        IN  /\ p.color.stamp = p.stamp /\ p.depth.stamp = p.stamp
            /\ Exact(p.color, ~p.overtaken) /\ Exact(p.depth, ~p.overtaken)

\* Only 0 and times from t on can be read from now on.
Floor(t) ==
    /\ t <= shot
    /\ \A s \in {shm["color"].stamp, shm["depth"].stamp, held.stamp, got.stamp} : s = 0 \/ t <= s

\* What get_exact gave up and what is cached lie below everything to come.
GiveUpInv ==
    /\ \A i \in DOMAIN cache : Floor(cache[i].stamp)
    /\ \A g \in givenUp : Floor(g + 1) /\ g \notin Stamps

StageInv == stage \notin Channels => step = 1 /\ got = Nothing

CacheFacts == StageInv /\ (\A c \in Channels : CopyInv(c)) /\ HeldInv /\ CacheInv /\ GiveUpInv

\* While the bridge is not restarted a sequence number names one image, so the
\* second load of it is enough for the Runtime.
RuntimeInv ==
    LET s == shm["color"]
        b == s.buffer[got.active]
    IN  /\ step > 1 => got.seq <= s.seq
        /\ step > 2 /\ s.seq = got.seq => got.active \in {s.seq % 2, s.active}
        /\ step > 4 => got.seq # 0
        /\ step > 4 /\ s.seq = got.seq => got.top = b["top"]
        /\ step > 5 /\ s.seq = got.seq => got.bottom = b["bottom"]
        /\ step > 6 => got.top = got.bottom
        /\ taken.top = taken.bottom

ExactCopy(copy) == copy.active = copy.seq % 2 => copy.top = copy.stamp /\ copy.bottom = copy.stamp

\* The sampler's copy is exact while sequence and active word stay the same.
SamplerInv ==
    LET s == shm["depth"]
        b == s.buffer[got.active]
    IN  /\ step > 2 => got.seq <= s.seq
        /\ step > 2 /\ s.seq = got.seq /\ s.active = got.active /\ got.active = s.seq % 2 =>
              /\ step > 3 => got.stamp = s.stamp
              /\ step > 4 => got.top = b["top"]
              /\ step > 5 => got.bottom = b["bottom"]
        /\ step > 6 /\ s.seq = got.seq => ExactCopy(got)
        /\ step > 7 => ExactCopy(got)
        /\ ExactCopy(taken)

RInv == reader # "cache" =>
    /\ kills = 0
    /\ \A c \in Channels \ mapped : shm[c] = Zeroed
    /\ stage = "peek" /\ cache = <<>> /\ givenUp = {} /\ held = NoImage
    /\ reader = "runtime" => RuntimeInv
    /\ reader = "sampler" => SamplerInv

\* The inductive invariant of the bridge with any of its readers.
BridgeFacts == BridgeInv /\ \A c \in Channels : ChannelInv(c)

FramesInv == TransportTypeOK /\ BridgeFacts /\ (reader = "cache" => CacheFacts) /\ RInv

LEMMA Names ==
    /\ Channels = {"color", "depth"} /\ Words = {"seq", "active", "stamp"}
    /\ Halves = {"top", "bottom"}
BY DEF Channels, Words, Halves

LEMMA ScriptLoads ==
    LET header == IF stage = "color" THEN <<"seq", "active", "stamp">> ELSE <<"active", "seq", "stamp">>
    IN  /\ Len(Script) = 8
        /\ Script[1] = header[1] /\ Script[2] = header[2] /\ Script[3] = "stamp"
        /\ Script[4] = "top" /\ Script[5] = "bottom"
        /\ Script[6] = "seq" /\ Script[7] = "active" /\ Script[8] = "stamp"
BY DEF Script, ColorHeader, DepthHeader, Recheck

LEMMA PublishStores ==
    /\ Len(PublishOrder) = 5
    /\ PublishOrder[1] = "top" /\ PublishOrder[2] = "bottom" /\ PublishOrder[3] = "active"
    /\ PublishOrder[4] = "stamp" /\ PublishOrder[5] = "seq"
BY DEF PublishOrder

\* What one store changes.
LEMMA Stored ==
    ASSUME FramesTypeOK, NEW c \in Channels, c = Head(todo), Publish
    PROVE  /\ c \in mapped
           /\ \A d \in Channels \ {c} : shm'[d] = shm[d]
           /\ at # 3 => shm'[c].active = shm[c].active
           /\ at # 4 => shm'[c].stamp = shm[c].stamp
           /\ at # 5 => shm'[c].seq = shm[c].seq
           /\ at > 2 => shm'[c].buffer = shm[c].buffer
           /\ at = 1 => \A b \in 0..1 :
                 /\ shm'[c].buffer[b]["top"] = IF b = Spare(c) THEN shot ELSE shm[c].buffer[b]["top"]
                 /\ shm'[c].buffer[b]["bottom"] = shm[c].buffer[b]["bottom"]
           /\ at = 2 => \A b \in 0..1 :
                 /\ shm'[c].buffer[b]["bottom"] = IF b = Spare(c) THEN shot ELSE shm[c].buffer[b]["bottom"]
                 /\ shm'[c].buffer[b]["top"] = shm[c].buffer[b]["top"]
           /\ at = 3 => shm'[c].active = Spare(c)
           /\ at = 4 => shm'[c].stamp = shot
           /\ at = 5 => shm'[c].seq = shm[c].seq + 1
           /\ shm' \in [Channels -> [seq: Nat, active: 0..1, stamp: Nat,
                                     buffer: [0..1 -> [Halves -> Nat]]]]
<1> DEFINE Header == [seq: Nat, active: 0..1, stamp: Nat, buffer: [0..1 -> [Halves -> Nat]]]
<1>1. c \in mapped
    BY DEF Publish
<1>2. shm[c] \in Header /\ Spare(c) \in 0..1 /\ shot \in Nat
    BY <1>1 DEF FramesTypeOK, Spare
<1>3. CASE at = 1
    <2> DEFINE buffer == [shm[c].buffer EXCEPT ![Spare(c)]["top"] = shot]
               new == [shm[c] EXCEPT !.buffer = buffer]
    <2>1. shm' = [shm EXCEPT ![c].buffer[Spare(c)]["top"] = shot]
        BY <1>3, PublishStores, Names DEF Publish
    <2>2. shm' = [shm EXCEPT ![c] = new]
        BY <2>1
    <2>3. buffer \in [0..1 -> [Halves -> Nat]]
        BY <1>2, Names
    <2> HIDE DEF buffer
    <2>4. /\ new \in Header /\ new.buffer = buffer
          /\ new.seq = shm[c].seq /\ new.active = shm[c].active /\ new.stamp = shm[c].stamp
        BY <1>2, <2>3
    <2> HIDE DEF new
    <2>5. shm'[c] = new /\ (\A d \in Channels \ {c} : shm'[d] = shm[d]) /\ shm' \in [Channels -> Header]
        BY <1>1, <2>2, <2>4 DEF FramesTypeOK
    <2>6. \A b \in 0..1 :
             /\ buffer[b]["top"] = IF b = Spare(c) THEN shot ELSE shm[c].buffer[b]["top"]
             /\ buffer[b]["bottom"] = shm[c].buffer[b]["bottom"]
        BY <1>2, Names DEF buffer
    <2> QED BY <1>1, <1>3, <2>4, <2>5, <2>6
<1>4. CASE at = 2
    <2> DEFINE buffer == [shm[c].buffer EXCEPT ![Spare(c)]["bottom"] = shot]
               new == [shm[c] EXCEPT !.buffer = buffer]
    <2>1. shm' = [shm EXCEPT ![c].buffer[Spare(c)]["bottom"] = shot]
        BY <1>4, PublishStores, Names DEF Publish
    <2>2. shm' = [shm EXCEPT ![c] = new]
        BY <2>1
    <2>3. buffer \in [0..1 -> [Halves -> Nat]]
        BY <1>2, Names
    <2> HIDE DEF buffer
    <2>4. /\ new \in Header /\ new.buffer = buffer
          /\ new.seq = shm[c].seq /\ new.active = shm[c].active /\ new.stamp = shm[c].stamp
        BY <1>2, <2>3
    <2> HIDE DEF new
    <2>5. shm'[c] = new /\ (\A d \in Channels \ {c} : shm'[d] = shm[d]) /\ shm' \in [Channels -> Header]
        BY <1>1, <2>2, <2>4 DEF FramesTypeOK
    <2>6. \A b \in 0..1 :
             /\ buffer[b]["bottom"] = IF b = Spare(c) THEN shot ELSE shm[c].buffer[b]["bottom"]
             /\ buffer[b]["top"] = shm[c].buffer[b]["top"]
        BY <1>2, Names DEF buffer
    <2> QED BY <1>1, <1>4, <2>4, <2>5, <2>6
<1>5. CASE at = 3
    <2> DEFINE new == [shm[c] EXCEPT !["active"] = Spare(c)]
    <2>1. shm' = [shm EXCEPT ![c]["active"] = Spare(c)]
        BY <1>5, PublishStores, Names DEF Publish
    <2>2. shm' = [shm EXCEPT ![c] = new]
        BY <2>1
    <2>3. /\ new \in Header /\ new.active = Spare(c) /\ new.buffer = shm[c].buffer
          /\ new.seq = shm[c].seq /\ new.stamp = shm[c].stamp
        BY <1>2
    <2> HIDE DEF new
    <2>4. shm'[c] = new /\ (\A d \in Channels \ {c} : shm'[d] = shm[d]) /\ shm' \in [Channels -> Header]
        BY <1>1, <2>2, <2>3 DEF FramesTypeOK
    <2> QED BY <1>1, <1>5, <2>3, <2>4
<1>6. CASE at = 4
    <2> DEFINE new == [shm[c] EXCEPT !["stamp"] = shot]
    <2>1. shm' = [shm EXCEPT ![c]["stamp"] = shot]
        BY <1>6, PublishStores, Names DEF Publish
    <2>2. shm' = [shm EXCEPT ![c] = new]
        BY <2>1
    <2>3. /\ new \in Header /\ new.stamp = shot /\ new.buffer = shm[c].buffer
          /\ new.seq = shm[c].seq /\ new.active = shm[c].active
        BY <1>2
    <2> HIDE DEF new
    <2>4. shm'[c] = new /\ (\A d \in Channels \ {c} : shm'[d] = shm[d]) /\ shm' \in [Channels -> Header]
        BY <1>1, <2>2, <2>3 DEF FramesTypeOK
    <2> QED BY <1>1, <1>6, <2>3, <2>4
<1>7. CASE at = 5
    <2> DEFINE new == [shm[c] EXCEPT !["seq"] = shm[c].seq + 1]
    <2>1. shm' = [shm EXCEPT ![c]["seq"] = @ + 1]
        BY <1>7, PublishStores, Names DEF Publish
    <2>2. shm' = [shm EXCEPT ![c] = new]
        BY <2>1
    <2>3. /\ new \in Header /\ new.seq = shm[c].seq + 1 /\ new.buffer = shm[c].buffer
          /\ new.active = shm[c].active /\ new.stamp = shm[c].stamp
        BY <1>2
    <2> HIDE DEF new
    <2>4. shm'[c] = new /\ (\A d \in Channels \ {c} : shm'[d] = shm[d]) /\ shm' \in [Channels -> Header]
        BY <1>1, <2>2, <2>3 DEF FramesTypeOK
    <2> QED BY <1>1, <1>7, <2>3, <2>4
<1>8. at \in 1..5
    BY DEF FramesTypeOK
<1>9. at = 1 \/ at = 2 \/ at = 3 \/ at = 4 \/ at = 5
    BY <1>8
<1> QED BY <1>3, <1>4, <1>5, <1>6, <1>7, <1>9

LEMMA Halving ==
    ASSUME NEW n \in Nat
    PROVE  /\ n % 2 \in 0..1 /\ (n + 1) % 2 \in 0..1 /\ n % 2 # (n + 1) % 2
           /\ (n + 2) % 2 = n % 2
OBVIOUS

BridgeStep == NextFrameSet \/ MapChannel \/ Publish \/ Kill

LEMMA ChannelTyped ==
    ASSUME FramesTypeOK, NEW c \in Channels
    PROVE  /\ shm[c].seq \in Nat /\ shm[c].active \in 0..1 /\ shm[c].stamp \in Nat
           /\ \A b \in 0..1, h \in Halves : shm[c].buffer[b][h] \in Nat
BY DEF FramesTypeOK

LEMMA Todo ==
    ASSUME FramesTypeOK, todo # <<>>
    PROVE  /\ Head(todo) \in Channels /\ InTodo(Head(todo))
           /\ Tail(todo) \notin {<<Head(todo)>>, <<"color", "depth">>}
           /\ Tail(todo) # <<>> => Head(Tail(todo)) # Head(todo)
           /\ Tail(todo) \in {<<>>, <<"depth">>}
           /\ \A d \in Channels \ {Head(todo)} : InTodo(d) <=> Tail(todo) \in {<<d>>, <<"color", "depth">>}
<1>1. CASE todo = <<"color">>
    BY <1>1, Names DEF InTodo
<1>2. CASE todo = <<"depth">>
    BY <1>2, Names DEF InTodo
<1>3. CASE todo = <<"color", "depth">>
    BY <1>3, Names DEF InTodo
<1> QED BY <1>1, <1>2, <1>3 DEF FramesTypeOK

LEMMA PublishKeepsChannels ==
    ASSUME FramesTypeOK, BridgeInv, \A d \in Channels : ChannelInv(d), Publish
    PROVE  BridgeInv' /\ \A d \in Channels : ChannelInv(d)'
<1>1. PICK c \in Channels : c = Head(todo)
    BY Todo DEF Publish
<1>2. c \in mapped /\ todo # <<>> /\ Storing(c) /\ at \in 1..5 /\ UNCHANGED <<mapped, shot, kills>>
    BY <1>1 DEF Storing, Publish, FramesTypeOK
<1>3. IF at = 5 THEN at' = 1 /\ todo' = Tail(todo) ELSE at' = at + 1 /\ todo' = todo
    BY PublishStores DEF Publish
<1>4. BridgeInv'
    BY <1>1, <1>2, <1>3 DEF BridgeInv, FramesTypeOK
<1>5. /\ InTodo(c)
      /\ at < 5 => InTodo(c)' /\ Storing(c)'
      /\ at = 5 => ~InTodo(c)' /\ ~Storing(c)'
    <2>1. InTodo(c) /\ Tail(todo) \notin {<<c>>, <<"color", "depth">>}
          /\ (Tail(todo) # <<>> => Head(Tail(todo)) # c)
        BY <1>1, <1>2, Todo
    <2>2. ASSUME at < 5 PROVE InTodo(c)' /\ Storing(c)'
        BY <1>2, <1>3, <2>1, <2>2 DEF InTodo, Storing
    <2>3. ASSUME at = 5 PROVE ~InTodo(c)' /\ ~Storing(c)'
        BY <1>2, <1>3, <2>1, <2>3 DEF InTodo, Storing
    <2> QED BY <2>1, <2>2, <2>3
<1>6. \A d \in Channels \ {c} : /\ ~Storing(d) /\ shm'[d] = shm[d] /\ (InTodo(d)' <=> InTodo(d))
                                /\ Storing(d)' => at' = 1
    <2>1. ASSUME NEW d \in Channels \ {c} PROVE InTodo(d)' <=> InTodo(d)
        BY <1>1, <1>2, <1>3, Todo, Names DEF InTodo
    <2>2. \A d \in Channels \ {c} : shm'[d] = shm[d]
        BY <1>1, Stored
    <2> QED BY <1>1, <1>2, <1>3, <2>1, <2>2 DEF Storing
<1>7. ASSUME NEW d \in Channels \ {c} PROVE ChannelInv(d)'
    <2>1. ChannelInv(d) /\ ~Storing(d) /\ shm'[d] = shm[d] /\ (Storing(d)' => at' = 1) /\ (InTodo(d)' <=> InTodo(d))
        BY <1>6
    <2> QED BY <1>2, <2>1, ChannelTyped DEF ChannelInv, Pending
<1>8. ChannelInv(c)'
    <2>1. ChannelInv(c)
        OBVIOUS
    <2>2. shm[c].seq \in Nat /\ shm[c].active \in 0..1 /\ shot \in Nat /\ shm[c].stamp \in Nat
        BY <1>1, ChannelTyped DEF FramesTypeOK
    <2>3. /\ shm[c].seq % 2 \in 0..1 /\ (shm[c].seq + 1) % 2 \in 0..1
          /\ shm[c].seq % 2 # (shm[c].seq + 1) % 2 /\ ((shm[c].seq + 1) + 1) % 2 = shm[c].seq % 2
        BY <2>2, Halving
    <2>4. CASE at = 1
        <3>1. /\ shm'[c].active = shm[c].active
              /\ shm'[c].stamp = shm[c].stamp
              /\ shm'[c].seq = shm[c].seq
              /\ shm'[c].buffer[Spare(c)]["top"] = shot /\ shm'[c].buffer[Spare(c)]["bottom"] = shm[c].buffer[Spare(c)]["bottom"]
              /\ shm'[c].buffer[shm[c].seq % 2]["top"] = shm[c].buffer[shm[c].seq % 2]["top"]
              /\ shm'[c].buffer[shm[c].seq % 2]["bottom"] = shm[c].buffer[shm[c].seq % 2]["bottom"]
              /\ at' = 2
            <4>1. /\ shm'[c].active = shm[c].active /\ shm'[c].stamp = shm[c].stamp /\ shm'[c].seq = shm[c].seq
                  /\ \A b \in 0..1 :
                        /\ shm'[c].buffer[b]["top"] = IF b = Spare(c) THEN shot ELSE shm[c].buffer[b]["top"]
                        /\ shm'[c].buffer[b]["bottom"] = shm[c].buffer[b]["bottom"]
                BY <1>1, <2>4, Stored
            <4>2. Spare(c) \in 0..1 /\ shm[c].seq % 2 \in 0..1 /\ shm[c].seq % 2 # Spare(c)
                BY <2>3 DEF Spare
            <4>3. at' = at + 1
                BY <1>3, <2>4
            <4> QED BY <2>4, <4>1, <4>2, <4>3
        <3>2. /\ shm[c].active = shm[c].seq % 2 /\ shm[c].stamp < shot
              /\ shm[c].buffer[shm[c].seq % 2]["top"] = shm[c].buffer[shm[c].seq % 2]["bottom"]
              /\ shm[c].stamp = shm[c].buffer[shm[c].seq % 2]["top"]
            BY <1>2, <1>5, <2>1, <2>2, <2>4 DEF ChannelInv, Pending
        <3>3. Spare(c) # shm[c].seq % 2 /\ Spare(c) = (shm'[c].seq + 1) % 2 /\ shot' = shot
            BY <1>2, <2>3, <3>1 DEF Spare
        <3>4. InTodo(c)' /\ Storing(c)'
            BY <1>5, <2>4
        <3>5. /\ shm'[c].buffer[shm'[c].seq % 2]["top"] = shm'[c].buffer[shm'[c].seq % 2]["bottom"]
              /\ shm'[c].active = shm'[c].seq % 2 /\ shm'[c].stamp < shot'
              /\ shm'[c].stamp = shm'[c].buffer[shm'[c].seq % 2]["top"]
              /\ shm'[c].buffer[(shm'[c].seq + 1) % 2]["top"] = shot'
            BY <3>1, <3>2, <3>3
        <3>6. ~(at' > 3) /\ at' # 5 /\ ~(at' > 2) /\ shm'[c].stamp <= shot'
            BY <2>2, <3>1, <3>2, <3>3
        <3> QED BY <3>4, <3>5, <3>6 DEF ChannelInv, Pending, Spare
    <2>5. CASE at = 2
        <3>1. /\ shm'[c].active = shm[c].active
              /\ shm'[c].stamp = shm[c].stamp
              /\ shm'[c].seq = shm[c].seq
              /\ shm'[c].buffer[Spare(c)]["bottom"] = shot /\ shm'[c].buffer[Spare(c)]["top"] = shm[c].buffer[Spare(c)]["top"]
              /\ shm'[c].buffer[shm[c].seq % 2]["top"] = shm[c].buffer[shm[c].seq % 2]["top"]
              /\ shm'[c].buffer[shm[c].seq % 2]["bottom"] = shm[c].buffer[shm[c].seq % 2]["bottom"]
              /\ at' = 3
            <4>1. /\ shm'[c].active = shm[c].active /\ shm'[c].stamp = shm[c].stamp /\ shm'[c].seq = shm[c].seq
                  /\ \A b \in 0..1 :
                        /\ shm'[c].buffer[b]["bottom"] = IF b = Spare(c) THEN shot ELSE shm[c].buffer[b]["bottom"]
                        /\ shm'[c].buffer[b]["top"] = shm[c].buffer[b]["top"]
                BY <1>1, <2>5, Stored
            <4>2. Spare(c) \in 0..1 /\ shm[c].seq % 2 \in 0..1 /\ shm[c].seq % 2 # Spare(c)
                BY <2>3 DEF Spare
            <4>3. at' = at + 1
                BY <1>3, <2>5
            <4> QED BY <2>5, <4>1, <4>2, <4>3
        <3>2. /\ shm[c].active = shm[c].seq % 2 /\ shm[c].stamp < shot
              /\ shm[c].buffer[shm[c].seq % 2]["top"] = shm[c].buffer[shm[c].seq % 2]["bottom"]
              /\ shm[c].stamp = shm[c].buffer[shm[c].seq % 2]["top"]
              /\ shm[c].buffer[Spare(c)]["top"] = shot
            BY <1>2, <1>5, <2>1, <2>2, <2>5 DEF ChannelInv, Pending
        <3>3. Spare(c) # shm[c].seq % 2 /\ Spare(c) = (shm'[c].seq + 1) % 2 /\ shot' = shot
            BY <1>2, <2>3, <3>1 DEF Spare
        <3>4. InTodo(c)' /\ Storing(c)'
            BY <1>5, <2>5
        <3>5. /\ shm'[c].buffer[shm'[c].seq % 2]["top"] = shm'[c].buffer[shm'[c].seq % 2]["bottom"]
              /\ shm'[c].active = shm'[c].seq % 2 /\ shm'[c].stamp < shot'
              /\ shm'[c].stamp = shm'[c].buffer[shm'[c].seq % 2]["top"]
              /\ shm'[c].buffer[(shm'[c].seq + 1) % 2]["top"] = shot'
            BY <3>1, <3>2, <3>3
        <3>6. ~(at' > 3) /\ at' # 5 /\ shm'[c].stamp <= shot'
            BY <2>2, <3>1, <3>2, <3>3
        <3>7. shm'[c].buffer[(shm'[c].seq + 1) % 2]["bottom"] = shot'
            BY <3>1, <3>3
        <3> QED BY <3>4, <3>5, <3>6, <3>7 DEF ChannelInv, Pending, Spare
    <2>6. CASE at = 3
        <3>1. /\ shm'[c].active = Spare(c)
              /\ shm'[c].stamp = shm[c].stamp
              /\ shm'[c].seq = shm[c].seq
              /\ shm'[c].buffer = shm[c].buffer
              /\ at' = 4
            BY <1>1, <1>3, <2>3, <2>6, Stored, Names DEF Spare
        <3>2. /\ shm[c].active = shm[c].seq % 2 /\ shm[c].stamp < shot
              /\ shm[c].buffer[shm[c].seq % 2]["top"] = shm[c].buffer[shm[c].seq % 2]["bottom"]
              /\ shm[c].stamp = shm[c].buffer[shm[c].seq % 2]["top"]
              /\ shm[c].buffer[Spare(c)]["top"] = shot /\ shm[c].buffer[Spare(c)]["bottom"] = shot
            BY <1>2, <1>5, <2>1, <2>2, <2>6 DEF ChannelInv, Pending
        <3>3. Spare(c) # shm[c].seq % 2 /\ Spare(c) = (shm'[c].seq + 1) % 2 /\ shot' = shot
            BY <1>2, <2>3, <3>1 DEF Spare
        <3>4. InTodo(c)' /\ Storing(c)'
            BY <1>5, <2>6
        <3>5. /\ shm'[c].buffer[shm'[c].seq % 2]["top"] = shm'[c].buffer[shm'[c].seq % 2]["bottom"]
              /\ shm'[c].buffer[(shm'[c].seq + 1) % 2]["top"] = shot'
              /\ shm'[c].buffer[(shm'[c].seq + 1) % 2]["bottom"] = shot'
            BY <3>1, <3>2, <3>3
        <3>6. shm'[c].active = (shm'[c].seq + 1) % 2 /\ shm'[c].active # shm'[c].seq % 2
            BY <2>3, <3>1, <3>2, <3>3
        <3>7. shm'[c].stamp < shot' /\ shm'[c].stamp <= shot' /\ at' > 3 /\ at' # 5
            BY <2>2, <3>1, <3>2, <3>3
        <3> QED BY <3>4, <3>5, <3>6, <3>7 DEF ChannelInv, Pending, Spare
    <2>7. CASE at = 4
        <3>1. /\ shm'[c].active = shm[c].active
              /\ shm'[c].stamp = shot
              /\ shm'[c].seq = shm[c].seq
              /\ shm'[c].buffer = shm[c].buffer
              /\ at' = 5
            BY <1>1, <1>3, <2>3, <2>7, Stored, Names DEF Spare
        <3>2. /\ shm[c].active # shm[c].seq % 2
              /\ shm[c].buffer[shm[c].seq % 2]["top"] = shm[c].buffer[shm[c].seq % 2]["bottom"]
              /\ shm[c].buffer[Spare(c)]["top"] = shot /\ shm[c].buffer[Spare(c)]["bottom"] = shot
            BY <1>2, <1>5, <2>1, <2>2, <2>7 DEF ChannelInv
        <3>3. Spare(c) = (shm'[c].seq + 1) % 2 /\ shm[c].active = Spare(c) /\ shot' = shot
            BY <1>2, <2>2, <2>3, <3>1, <3>2 DEF Spare
        <3>4. InTodo(c)' /\ Storing(c)'
            BY <1>5, <2>7
        <3>5. /\ shm'[c].buffer[shm'[c].seq % 2]["top"] = shm'[c].buffer[shm'[c].seq % 2]["bottom"]
              /\ shm'[c].buffer[(shm'[c].seq + 1) % 2]["top"] = shot'
              /\ shm'[c].buffer[(shm'[c].seq + 1) % 2]["bottom"] = shot'
            BY <3>1, <3>2, <3>3
        <3>6. shm'[c].active = (shm'[c].seq + 1) % 2 /\ shm'[c].active # shm'[c].seq % 2
            BY <2>3, <3>1, <3>2, <3>3
        <3>7. shm'[c].stamp = shot' /\ shm'[c].stamp <= shot' /\ at' > 3 /\ at' = 5
            BY <2>2, <3>1, <3>3
        <3> QED BY <3>4, <3>5, <3>6, <3>7 DEF ChannelInv, Pending, Spare
    <2>8. CASE at = 5
        <3>1. /\ shm'[c].active = shm[c].active
              /\ shm'[c].stamp = shm[c].stamp
              /\ shm'[c].seq = shm[c].seq + 1
              /\ shm'[c].buffer = shm[c].buffer
              /\ at' = 1
            BY <1>1, <1>2, <1>3, <2>3, <2>8, Stored DEF Spare
        <3>2. /\ shm[c].active # shm[c].seq % 2 /\ shm[c].stamp = shot
              /\ shm[c].buffer[Spare(c)]["top"] = shot /\ shm[c].buffer[Spare(c)]["bottom"] = shot
            BY <1>2, <2>1, <2>8 DEF ChannelInv
        <3>3. Spare(c) = shm'[c].seq % 2 /\ shm[c].active = Spare(c) /\ shot' = shot
            BY <1>2, <2>2, <2>3, <3>1, <3>2 DEF Spare
        <3>4. ~InTodo(c)' /\ ~Storing(c)'
            BY <1>5, <2>8
        <3>5. /\ shm'[c].buffer[shm'[c].seq % 2]["top"] = shot'
              /\ shm'[c].buffer[shm'[c].seq % 2]["bottom"] = shot'
              /\ shm'[c].active = shm'[c].seq % 2 /\ shm'[c].stamp = shot'
            BY <3>1, <3>2, <3>3
        <3>6. shm'[c].stamp <= shot'
            BY <2>2, <3>1, <3>2, <3>3
        <3> QED BY <3>1, <3>4, <3>5, <3>6 DEF ChannelInv, Pending
    <2> QED BY <1>2, <2>4, <2>5, <2>6, <2>7, <2>8
<1> QED BY <1>4, <1>7, <1>8

LEMMA BridgeKeepsChannels ==
    ASSUME FramesTypeOK, BridgeInv, \A d \in Channels : ChannelInv(d), BridgeStep
    PROVE  BridgeInv' /\ \A d \in Channels : ChannelInv(d)'
<1>1. CASE NextFrameSet
    <2>1. /\ todo = <<>> /\ todo' # <<>> /\ shot' = shot + 1 /\ shot \in Nat /\ at = 1
          /\ UNCHANGED <<shm, mapped, at>>
        <3>1. todo' # <<>>
            BY <1>1 DEF NextFrameSet
        <3> QED BY <1>1, <3>1 DEF NextFrameSet, FramesTypeOK, BridgeInv
    <2>2. ASSUME NEW c \in Channels PROVE ChannelInv(c)'
        <3>1. ChannelInv(c) /\ ~Storing(c) /\ shm[c].stamp \in Nat
            BY <2>1, ChannelTyped DEF Storing
        <3> QED BY <2>1, <3>1 DEF ChannelInv, Pending, Spare
    <2> QED BY <2>1, <2>2 DEF BridgeInv
<1>2. CASE MapChannel
    <2>1. PICK c \in Channels : c = Head(todo)
        BY <1>2, Todo DEF MapChannel
    <2>2. c \notin mapped /\ todo # <<>> /\ at = 1 /\ shot \in Nat /\ shot > 0
        BY <1>2, <2>1 DEF MapChannel, BridgeInv, FramesTypeOK
    <2>3. /\ shm'[c] = Zeroed /\ \A d \in Channels \ {c} : shm'[d] = shm[d]
          /\ mapped' = mapped \cup {c} /\ UNCHANGED <<shot, todo, at>>
        BY <1>2, <2>1 DEF MapChannel, FramesTypeOK
    <2>4. ASSUME NEW d \in Channels \ {c} PROVE ChannelInv(d)'
        <3>1. ChannelInv(d) /\ ~Storing(d) /\ ~Storing(d)' /\ shm'[d] = shm[d] /\ (d \in mapped' <=> d \in mapped)
            BY <2>1, <2>3 DEF Storing
        <3> QED BY <2>2, <2>3, <3>1, ChannelTyped DEF ChannelInv, Pending, InTodo
    <2>5. ChannelInv(c)'
        BY <2>2, <2>3, Names DEF ChannelInv, Pending, Zeroed
    <2> QED BY <2>2, <2>3, <2>4, <2>5 DEF BridgeInv
<1>3. CASE Kill
    <2>1. ASSUME NEW c \in Channels PROVE ChannelInv(c)'
        <3>1. ChannelInv(c) /\ shm' = shm /\ shot' = shot /\ ~InTodo(c)' /\ ~Storing(c)' /\ mapped' = {}
            BY <1>3 DEF Kill, InTodo, Storing
        <3> QED BY <3>1 DEF ChannelInv, Pending
    <2> QED BY <1>3, <2>1 DEF Kill, BridgeInv
<1> QED BY <1>1, <1>2, <1>3, PublishKeepsChannels DEF BridgeStep

-----------------------------------------------------------------------------
LEMMA GotTyped ==
    ASSUME FramesTypeOK
    PROVE  got.seq \in Nat /\ got.stamp \in Nat /\ got.top \in Nat /\ got.bottom \in Nat
BY Names DEF FramesTypeOK

LEMMA NothingTyped ==
    /\ Nothing \in [Words \cup Halves -> Nat]
    /\ Nothing.seq = 0 /\ Nothing.active = 0 /\ Nothing.stamp = 0 /\ Nothing.top = 0 /\ Nothing.bottom = 0
BY Names DEF Nothing

\* What one load changes.
LEMMA Loaded ==
    ASSUME FramesTypeOK, NEW c \in Channels, NEW f \in Words \cup Halves,
           got' = [got EXCEPT ![f] = Load(c, f)]
    PROVE  /\ got' \in [Words \cup Halves -> Nat] /\ got'.active \in 0..1
           /\ got'[f] = IF f \in Halves THEN shm[c].buffer[got.active][f] ELSE shm[c][f]
           /\ f # "seq" => got'.seq = got.seq
           /\ f # "active" => got'.active = got.active
           /\ f # "stamp" => got'.stamp = got.stamp
           /\ f # "top" => got'.top = got.top
           /\ f # "bottom" => got'.bottom = got.bottom
<1>1. CASE f \in Halves
    <2>1. Load(c, f) = shm[c].buffer[got.active][f] /\ shm[c].buffer[got.active][f] \in Nat
        BY <1>1, ChannelTyped DEF Load, FramesTypeOK
    <2> QED BY <1>1, <2>1, Names DEF FramesTypeOK
<1>2. CASE f \notin Halves
    <2>1. f = "seq" \/ f = "active" \/ f = "stamp"
        BY <1>2, Names
    <2>2. Load(c, f) = shm[c][f] /\ shm[c][f] \in Nat /\ (f = "active" => shm[c][f] \in 0..1)
        BY <1>2, <2>1, ChannelTyped DEF Load
    <2> QED BY <1>2, <2>1, <2>2, Names DEF FramesTypeOK
<1> QED BY <1>1, <1>2

\* What each load of read_latest changes, or finds unchanged.
LEMMA CacheLoads ==
    ASSUME FramesTypeOK, NEW c \in Channels, stage = c, ReadLatest
    PROVE  /\ step \in 1..8 /\ step' = step + 1 /\ UNCHANGED cacheVars
           /\ got' \in [Words \cup Halves -> Nat] /\ got'.active \in 0..1
           /\ step < 3 => got'.stamp = got.stamp
           /\ step = 3 => got'.stamp = shm[c].stamp
           /\ step > 3 => got'.seq = got.seq /\ got'.active = got.active /\ got'.stamp = got.stamp
           /\ step = 4 => got.active = got.seq % 2 /\ got'.top = shm[c].buffer[got.active].top
           /\ step = 5 => got'.top = got.top /\ got'.bottom = shm[c].buffer[got.active].bottom
           /\ step > 5 => got' = got
           /\ step = 6 => shm[c].seq = got.seq
           /\ step = 7 => shm[c].active = got.active
           /\ step = 8 => shm[c].stamp = got.stamp
<1>1. step \in 1..9 /\ UNCHANGED cacheVars /\ (LoadNext(c, Script, HeaderValid) \/ LoadAgain(c, Script))
    BY DEF ReadLatest, FramesTypeOK
<1>2. CASE LoadNext(c, Script, HeaderValid)
    <2>1. PICK f : f = Script[step]
        OBVIOUS
    <2>2. step \in 1..5 /\ step' = step + 1 /\ got' = [got EXCEPT ![f] = Load(c, f)]
          /\ (step = 4 => got.active = got.seq % 2)
        BY <1>1, <1>2, <2>1 DEF LoadNext, Copied, HeaderValid
    <2>3. f = CASE step = 1 -> (IF stage = "color" THEN "seq" ELSE "active")
               [] step = 2 -> (IF stage = "color" THEN "active" ELSE "seq")
               [] step = 3 -> "stamp" [] step = 4 -> "top" [] step = 5 -> "bottom"
        BY <2>1, <2>2, ScriptLoads
    <2>4. f \in Words \cup Halves
        BY <2>2, <2>3, Names
    <2>5. /\ got' \in [Words \cup Halves -> Nat] /\ got'.active \in 0..1
          /\ got'[f] = IF f \in Halves THEN shm[c].buffer[got.active][f] ELSE shm[c][f]
          /\ f # "seq" => got'.seq = got.seq
          /\ f # "active" => got'.active = got.active
          /\ f # "stamp" => got'.stamp = got.stamp
          /\ f # "top" => got'.top = got.top
          /\ f # "bottom" => got'.bottom = got.bottom
        BY <2>2, <2>4, Loaded
    <2> QED BY <1>1, <2>2, <2>3, <2>5, Names
<1>3. CASE LoadAgain(c, Script)
    <2>1. step \in 6..8 /\ step' = step + 1 /\ got' = got /\ Load(c, Script[step]) = got[Script[step]]
        BY <1>1, <1>3, ScriptLoads DEF LoadAgain, Copied
    <2>2. /\ step = 6 => shm[c].seq = got.seq
          /\ step = 7 => shm[c].active = got.active
          /\ step = 8 => shm[c].stamp = got.stamp
        BY <2>1, ScriptLoads, Names DEF Load
    <2> QED BY <1>1, <2>1, <2>2 DEF FramesTypeOK
<1> QED BY <1>1, <1>2, <1>3

\* The loads of the Runtime's capture.
LEMMA RuntimeLoads ==
    ASSUME FramesTypeOK, reader = "runtime", Read
    PROVE  /\ step \in 1..6 /\ step' = step + 1 /\ taken' = taken
           /\ got' \in [Words \cup Halves -> Nat] /\ got'.active \in 0..1
           /\ step = 1 => got'.seq = shm["color"].seq
           /\ step > 1 => got'.seq = got.seq
           /\ step = 2 => got'.active = shm["color"].active
           /\ step > 2 => got'.active = got.active
           /\ step = 4 => got.seq # 0 /\ got'.top = shm["color"].buffer[got.active].top
           /\ step = 5 => got'.top = got.top /\ got'.bottom = shm["color"].buffer[got.active].bottom
           /\ step > 5 => got' = got
           /\ step = 6 => shm["color"].seq = got.seq
<1>1. /\ Len(RuntimeScript) = 6
      /\ RuntimeScript[1] = "seq" /\ RuntimeScript[2] = "active" /\ RuntimeScript[3] = "stamp"
      /\ RuntimeScript[4] = "top" /\ RuntimeScript[5] = "bottom" /\ RuntimeScript[6] = "seq"
    BY DEF RuntimeScript
<1>2. /\ step \in 1..9 /\ taken' = taken /\ "color" \in Channels
      /\ LoadNext("color", RuntimeScript, RuntimeValid) \/ LoadAgain("color", RuntimeScript)
    BY Names DEF Read, ReaderChannel, ReaderScript, ReaderValid, FramesTypeOK
<1>3. CASE LoadNext("color", RuntimeScript, RuntimeValid)
    <2>1. PICK f : f = RuntimeScript[step]
        OBVIOUS
    <2>2. step \in 1..5 /\ step' = step + 1 /\ got' = [got EXCEPT ![f] = Load("color", f)]
          /\ (step = 4 => got.seq # 0)
        BY <1>2, <1>3, <2>1 DEF LoadNext, Copied, RuntimeValid
    <2>3. f = CASE step = 1 -> "seq" [] step = 2 -> "active"
               [] step = 3 -> "stamp" [] step = 4 -> "top" [] step = 5 -> "bottom"
        BY <1>1, <2>1, <2>2
    <2>4. f \in Words \cup Halves
        BY <2>2, <2>3, Names
    <2>5. /\ got' \in [Words \cup Halves -> Nat] /\ got'.active \in 0..1
          /\ got'[f] = IF f \in Halves THEN shm["color"].buffer[got.active][f] ELSE shm["color"][f]
          /\ f # "seq" => got'.seq = got.seq
          /\ f # "active" => got'.active = got.active
          /\ f # "top" => got'.top = got.top
        BY <1>2, <2>2, <2>4, Loaded
    <2> QED BY <1>2, <2>2, <2>3, <2>5, Names
<1>4. CASE LoadAgain("color", RuntimeScript)
    <2>1. step = 6 /\ step' = step + 1 /\ got' = got /\ shm["color"].seq = got.seq
        BY <1>1, <1>2, <1>4, Names DEF LoadAgain, Copied, Load
    <2> QED BY <1>2, <2>1 DEF FramesTypeOK
<1> QED BY <1>2, <1>3, <1>4

\* The loads of the depth sampler.
LEMMA SamplerLoads ==
    ASSUME FramesTypeOK, reader = "sampler", Read
    PROVE  /\ step \in 1..7 /\ step' = step + 1 /\ taken' = taken
           /\ got' \in [Words \cup Halves -> Nat] /\ got'.active \in 0..1
           /\ step = 2 => got'.seq = shm["depth"].seq
           /\ step > 2 => got'.seq = got.seq
           /\ step > 1 => got'.active = got.active
           /\ step = 3 => got'.stamp = shm["depth"].stamp
           /\ step > 3 => got'.stamp = got.stamp
           /\ step = 4 => got'.top = shm["depth"].buffer[got.active].top
           /\ step = 5 => got'.top = got.top /\ got'.bottom = shm["depth"].buffer[got.active].bottom
           /\ step > 5 => got' = got
           /\ step = 6 => shm["depth"].active = got.active
           /\ step = 7 => shm["depth"].seq = got.seq
<1>1. /\ Len(SamplerScript) = 7
      /\ SamplerScript[1] = "active" /\ SamplerScript[2] = "seq" /\ SamplerScript[3] = "stamp"
      /\ SamplerScript[4] = "top" /\ SamplerScript[5] = "bottom"
      /\ SamplerScript[6] = "active" /\ SamplerScript[7] = "seq"
    BY DEF SamplerScript
<1>2. /\ step \in 1..9 /\ taken' = taken /\ "depth" \in Channels
      /\ LoadNext("depth", SamplerScript, SamplerValid) \/ LoadAgain("depth", SamplerScript)
    BY Names DEF Read, ReaderChannel, ReaderScript, ReaderValid, FramesTypeOK
<1>3. CASE LoadNext("depth", SamplerScript, SamplerValid)
    <2>1. PICK f : f = SamplerScript[step]
        OBVIOUS
    <2>2. step \in 1..5 /\ step' = step + 1 /\ got' = [got EXCEPT ![f] = Load("depth", f)]
        BY <1>2, <1>3, <2>1 DEF LoadNext, Copied
    <2>3. f = CASE step = 1 -> "active" [] step = 2 -> "seq"
               [] step = 3 -> "stamp" [] step = 4 -> "top" [] step = 5 -> "bottom"
        BY <1>1, <2>1, <2>2
    <2>4. f \in Words \cup Halves
        BY <2>2, <2>3, Names
    <2>5. /\ got' \in [Words \cup Halves -> Nat] /\ got'.active \in 0..1
          /\ got'[f] = IF f \in Halves THEN shm["depth"].buffer[got.active][f] ELSE shm["depth"][f]
          /\ f # "seq" => got'.seq = got.seq
          /\ f # "active" => got'.active = got.active
          /\ f # "stamp" => got'.stamp = got.stamp
          /\ f # "top" => got'.top = got.top
        BY <1>2, <2>2, <2>4, Loaded
    <2> QED BY <1>2, <2>2, <2>3, <2>5, Names
<1>4. CASE LoadAgain("depth", SamplerScript)
    <2>1. /\ step \in 6..7 /\ step' = step + 1 /\ got' = got
          /\ step = 6 => shm["depth"].active = got.active
          /\ step = 7 => shm["depth"].seq = got.seq
        BY <1>1, <1>2, <1>4, Names DEF LoadAgain, Copied, Load
    <2> QED BY <1>2, <2>1 DEF FramesTypeOK
<1> QED BY <1>2, <1>3, <1>4

-----------------------------------------------------------------------------
\* The elements of a concatenation.
LEMMA Joined ==
    ASSUME NEW S, NEW a \in Seq(S), NEW b \in Seq(S)
    PROVE  /\ Len(a \o b) = Len(a) + Len(b) /\ a \o b \in Seq(S)
           /\ \A i \in 1..(Len(a) + Len(b)) :
                 (a \o b)[i] = IF i <= Len(a) THEN a[i] ELSE b[i - Len(a)]
OBVIOUS

\* _insert only drops pairs: each one of the new cache is the given one or was there.
LEMMA InsertKeepsPairs ==
    ASSUME cache \in Seq(Pairs), NEW pair \in Pairs, Insert(pair)
    PROVE  /\ cache' \in Seq(Pairs) /\ Len(cache') <= CacheFrames
           /\ \A i \in DOMAIN cache' : cache'[i] = pair \/ \E j \in DOMAIN cache : cache'[i] = cache[j]
<1> DEFINE rest == Without(pair.stamp)
           all == Append(rest, pair)
<1>1. rest \in Seq(Pairs) /\ \A i \in 1..Len(rest) : \E j \in DOMAIN cache : rest[i] = cache[j]
    <2> DEFINE same == {i \in DOMAIN cache : cache[i].stamp = pair.stamp}
    <2>1. CASE same = {}
        BY <2>1 DEF Without
    <2>2. CASE same # {}
        <3>1. PICK n : n = CHOOSE i \in same : TRUE
            OBVIOUS
        <3>2. n \in 1..Len(cache) /\ rest = RemoveAt(cache, n)
            BY <2>2, <3>1 DEF Without
        <3> DEFINE left == SubSeq(cache, 1, n - 1)
                   right == SubSeq(cache, n + 1, Len(cache))
        <3>3. /\ left \in Seq(Pairs) /\ right \in Seq(Pairs)
              /\ Len(left) = n - 1 /\ Len(right) = Len(cache) - n
              /\ \A i \in 1..(n - 1) : left[i] = cache[i]
              /\ \A i \in 1..(Len(cache) - n) : right[i] = cache[i + n]
            BY <3>2
        <3> HIDE DEF left, right
        <3>4. rest = left \o right
            BY <3>2 DEF RemoveAt, left, right
        <3>5. rest \in Seq(Pairs) /\ Len(rest) = Len(cache) - 1
              /\ \A i \in 1..Len(rest) : rest[i] = IF i <= n - 1 THEN left[i] ELSE right[i - (n - 1)]
            <4>1. /\ Len(left \o right) = Len(left) + Len(right) /\ left \o right \in Seq(Pairs)
                  /\ \A i \in 1..(Len(left) + Len(right)) :
                        (left \o right)[i] = IF i <= Len(left) THEN left[i] ELSE right[i - Len(left)]
                BY <3>3, Joined
            <4> QED BY <3>2, <3>3, <3>4, <4>1
        <3>6. ASSUME NEW i \in 1..Len(rest) PROVE \E j \in DOMAIN cache : rest[i] = cache[j]
            <4>1. CASE i <= n - 1
                <5>1. rest[i] = cache[i] /\ i \in DOMAIN cache
                    BY <3>2, <3>3, <3>5, <4>1
                <5> QED BY <5>1
            <4>2. CASE i > n - 1
                <5>1. rest[i] = cache[i + 1] /\ i + 1 \in DOMAIN cache
                    BY <3>2, <3>3, <3>5, <4>2
                <5> QED BY <5>1
            <4> QED BY <3>2, <4>1, <4>2
        <3> QED BY <3>5, <3>6
    <2> QED BY <2>1, <2>2
<1> HIDE DEF rest
<1>2. /\ all \in Seq(Pairs) /\ Len(all) = Len(rest) + 1 /\ Len(all) \in Nat
      /\ \A i \in 1..Len(all) : all[i] = pair \/ \E j \in DOMAIN cache : all[i] = cache[j]
    <2>1. \A i \in 1..Len(rest) : all[i] = rest[i]
        BY <1>1
    <2> QED BY <1>1, <2>1
<1>3. PICK n \in 0..CacheFrames : n <= Len(all) /\ cache' = SubSeq(all, Len(all) - n + 1, Len(all))
    BY DEF Insert, rest
<1> HIDE DEF all
<1>4. /\ cache' \in Seq(Pairs) /\ Len(cache') = n
      /\ \A i \in 1..n : cache'[i] = all[Len(all) - n + i]
    <2>1. n \in Nat
        BY CacheAssumption
    <2>2. /\ Len(all) - n + 1 \in Int /\ Len(all) \in Int
          /\ \A i \in Len(all) - n + 1..Len(all) : all[i] \in Pairs
        <3>1. \A i \in Len(all) - n + 1..Len(all) : i \in 1..Len(all)
            BY <1>2, <1>3, <2>1
        <3> QED BY <1>2, <2>1, <3>1, ElementOfSeq
    <2>3. LET q == SubSeq(all, Len(all) - n + 1, Len(all))
          IN  /\ q \in Seq(Pairs)
              /\ Len(q) = IF Len(all) - n + 1 <= Len(all) THEN Len(all) - (Len(all) - n + 1) + 1 ELSE 0
              /\ \A i \in 1..Len(all) - (Len(all) - n + 1) + 1 : q[i] = all[Len(all) - n + 1 + i - 1]
        BY <2>2, SubSeqProperties
    <2>4. /\ (IF Len(all) - n + 1 <= Len(all) THEN Len(all) - (Len(all) - n + 1) + 1 ELSE 0) = n
          /\ Len(all) - (Len(all) - n + 1) + 1 = n
          /\ \A i \in 1..n : Len(all) - n + 1 + i - 1 = Len(all) - n + i
        BY <1>2, <2>1
    <2> QED BY <1>3, <2>3, <2>4
<1>5. ASSUME NEW i \in DOMAIN cache' PROVE cache'[i] = pair \/ \E j \in DOMAIN cache : cache'[i] = cache[j]
    BY <1>2, <1>3, <1>4, CacheAssumption
<1> QED BY <1>3, <1>4, <1>5, CacheAssumption

-----------------------------------------------------------------------------
(* The types *)

LEMMA BridgeKeepsTypes ==
    ASSUME FramesTypeOK, BridgeInv, BridgeStep, UNCHANGED readerVars
    PROVE  FramesTypeOK' /\ shot \in Nat /\ shot' \in shot..LastFrame
<1>1. FramesAssumption /\ shot \in Nat /\ UNCHANGED <<step, got>>
    BY FramesAssumption DEF FramesTypeOK, readerVars
<1>2. CASE NextFrameSet
    BY <1>1, <1>2 DEF NextFrameSet, FramesTypeOK, FramesAssumption
<1>3. CASE MapChannel
    <2>1. Head(todo) \in Channels
        BY <1>3, Todo DEF MapChannel
    <2>2. Zeroed \in [seq: Nat, active: 0..1, stamp: Nat, buffer: [0..1 -> [Halves -> Nat]]]
        BY DEF Zeroed
    <2> QED BY <1>1, <1>3, <2>1, <2>2 DEF MapChannel, FramesTypeOK
<1>4. CASE Publish
    <2>1. PICK c \in Channels : c = Head(todo)
        BY <1>4, Todo DEF Publish
    <2>2. shm' \in [Channels -> [seq: Nat, active: 0..1, stamp: Nat, buffer: [0..1 -> [Halves -> Nat]]]]
        BY <1>4, <2>1, Stored
    <2>3. /\ UNCHANGED <<mapped, shot, kills>> /\ todo # <<>>
          /\ IF at = 5 THEN at' = 1 /\ todo' = Tail(todo) ELSE at' = at + 1 /\ todo' = todo
        BY <1>4, PublishStores DEF Publish
    <2>4. Tail(todo) \in {<<>>, <<"depth">>}
        BY <2>3, Todo
    <2>5. at' \in 1..5 /\ todo' \in {<<>>, <<"color">>, <<"depth">>, <<"color", "depth">>}
        <3>1. CASE at = 5
            <4>1. at' = 1 /\ todo' = Tail(todo)
                BY <2>3, <3>1
            <4>2. todo' = <<>> \/ todo' = <<"depth">>
                BY <2>4, <4>1
            <4> QED BY <4>1, <4>2
        <3>2. CASE at # 5
            BY <2>3, <3>2 DEF FramesTypeOK
        <3> QED BY <3>1, <3>2
    <2> QED BY <1>1, <2>2, <2>3, <2>5 DEF FramesTypeOK
<1>5. CASE Kill
    BY <1>1, <1>5 DEF Kill, FramesTypeOK, FramesAssumption
<1> QED BY <1>2, <1>3, <1>4, <1>5 DEF BridgeStep

LEMMA CacheKeepsTypes ==
    ASSUME CacheTypeOK, CacheStep
    PROVE  CacheTypeOK'
<1>1. /\ UNCHANGED bridgeVars /\ UNCHANGED <<wanted, givenUp>> /\ overtaken \in BOOLEAN
      /\ overtaken' = (overtaken /\ stage' # "peek")
      /\ inserted' = IF stage = "depth" /\ Accepted(Script) /\ SamePair THEN held.stamp ELSE inserted
    BY DEF CacheStep, CacheTypeOK
<1>2. /\ FramesTypeOK /\ inserted \in Nat /\ peeked \in Nat /\ held \in Images /\ held.stamp \in Nat
      /\ cache \in Seq(Pairs) /\ Len(cache) <= CacheFrames /\ lastCached \in Nat
    BY DEF CacheTypeOK, Images
<1>3. overtaken' \in BOOLEAN /\ inserted' \in Nat
    BY <1>1, <1>2
<1>4. NoImage \in Images /\ Image(got) \in Images
    BY <1>2, GotTyped DEF Images, Image, NoImage
<1>5. ASSUME step' \in 1..9, got' \in [Words \cup Halves -> Nat], got'.active \in 0..1
      PROVE  FramesTypeOK'
    BY <1>1, <1>2, <1>5 DEF FramesTypeOK, bridgeVars
<1>6. (UNCHANGED readerVars \/ StartOver) => FramesTypeOK'
    <2>1. ASSUME UNCHANGED readerVars PROVE FramesTypeOK'
        BY <1>2, <1>5, <2>1 DEF FramesTypeOK, readerVars
    <2>2. ASSUME StartOver PROVE FramesTypeOK'
        BY <1>5, <2>2, NothingTyped DEF StartOver
    <2> QED BY <2>1, <2>2
<1>7. ASSUME FramesTypeOK', stage' \in {"peek", "compare"} \cup Channels, peeked' \in Nat, held' \in Images,
             cache' \in Seq(Pairs), Len(cache') <= CacheFrames, lastCached' \in Nat
      PROVE  CacheTypeOK'
    BY <1>1, <1>3, <1>7 DEF CacheTypeOK, bridgeVars
<1>8. CASE PeekColor
    <2>1. shm["color"].stamp \in Nat
        BY <1>2, ChannelTyped, Names
    <2> QED BY <1>2, <1>6, <1>7, <1>8, <2>1 DEF PeekColor
<1>9. CASE PeekDepth
    BY <1>2, <1>6, <1>7, <1>9, Names DEF PeekDepth
<1>10. CASE ReadLatest
    <2>1. PICK c \in Channels : stage = c
        BY <1>10 DEF ReadLatest
    <2>2. /\ step \in 1..8 /\ step' = step + 1 /\ UNCHANGED <<stage, peeked, held, cache, lastCached>>
          /\ got' \in [Words \cup Halves -> Nat] /\ got'.active \in 0..1
        BY <1>2, <1>10, <2>1, CacheLoads DEF cacheVars
    <2> QED BY <1>2, <1>5, <1>7, <2>1, <2>2
<1>11. CASE ReadFails \/ KeepColor \/ DiscardPair
    <2>1. StartOver /\ stage' \in {"peek", "depth"} /\ held' \in Images /\ UNCHANGED <<peeked, cache, lastCached>>
        BY <1>4, <1>11 DEF ReadFails, KeepColor, DiscardPair
    <2> QED BY <1>2, <1>6, <1>7, <2>1, Names
<1>12. CASE InsertPair
    <2> DEFINE pair == [stamp |-> held.stamp, color |-> held, depth |-> Image(got), overtaken |-> overtaken]
    <2>1. pair \in Pairs
        BY <1>1, <1>2, <1>4 DEF Pairs
    <2>2. Insert(pair) /\ StartOver /\ stage' = "peek" /\ held' = NoImage /\ lastCached' = held.stamp /\ peeked' = peeked
        BY <1>12 DEF InsertPair, Newest
    <2> HIDE DEF pair
    <2>3. cache' \in Seq(Pairs) /\ Len(cache') <= CacheFrames
        BY <1>2, <2>1, <2>2, InsertKeepsPairs
    <2> QED BY <1>2, <1>4, <1>6, <1>7, <2>2, <2>3
<1> QED BY <1>8, <1>9, <1>10, <1>11, <1>12 DEF CacheStep, CacheThread

LEMMA TypesKept ==
    ASSUME TransportTypeOK, BridgeInv, [TransportNext]_AllVars
    PROVE  TransportTypeOK'
<1>1. /\ CacheTypeOK /\ FramesTypeOK /\ reader \in {"cache"} \cup Readers /\ taken \in [Words \cup Halves -> Nat]
      /\ shot \in Nat /\ wanted \in 0..shot /\ shot <= LastFrame /\ givenUp \subseteq 1..LastFrame
    BY FramesAssumption DEF TransportTypeOK, CacheTypeOK, FramesTypeOK, FramesAssumption
<1>2. ASSUME Bridge, UNCHANGED <<cacheVars, wanted, givenUp, inserted>>, overtaken' \in BOOLEAN
      PROVE  CacheTypeOK'
    <2>1. FramesTypeOK' /\ shot' \in shot..LastFrame
        BY <1>1, <1>2, BridgeKeepsTypes DEF Bridge, BridgeStep, TransportTypeOK
    <2> QED BY <1>1, <1>2, <2>1 DEF CacheTypeOK, cacheVars
<1>3. CASE CacheNext /\ UNCHANGED <<reader, taken>>
    <2>1. CASE Bridge /\ overtaken' = (overtaken \/ (step > 1 /\ shot' # shot)) /\ UNCHANGED <<cacheVars, wanted, givenUp, inserted>>
        BY <1>1, <1>2, <1>3, <2>1 DEF TransportTypeOK
    <2>2. CASE CacheStep
        BY <1>1, <1>3, <2>2, CacheKeepsTypes DEF TransportTypeOK
    <2>3. CASE GetExact /\ UNCHANGED <<bridgeVars, readerVars, cacheVars, inserted, overtaken>>
        <3>1. wanted' \in 0..shot /\ givenUp' \subseteq 1..LastFrame
            <4>1. CASE Ask \/ Hit \/ Timeout
                <5>1. givenUp' = givenUp /\ (wanted' \in 1..shot \/ wanted' = 0)
                    BY <4>1 DEF Ask, Hit, Timeout
                <5> QED BY <1>1, <5>1
            <4>2. CASE GiveUp
                <5>1. wanted # 0 /\ wanted' = 0 /\ givenUp' = givenUp \cup {wanted}
                    BY <4>2 DEF GiveUp
                <5>2. wanted \in 1..LastFrame
                    BY <1>1, <5>1, FramesAssumption DEF FramesAssumption
                <5> QED BY <1>1, <5>1, <5>2
            <4> QED BY <2>3, <4>1, <4>2 DEF GetExact
        <3>2. FramesTypeOK'
            BY <1>1, <2>3 DEF FramesTypeOK, bridgeVars, readerVars
        <3>3. CacheTypeOK'
            BY <1>1, <2>3, <3>1, <3>2 DEF CacheTypeOK, cacheVars, bridgeVars
        <3> QED BY <1>1, <1>3, <3>3 DEF TransportTypeOK
    <2> QED BY <1>3, <2>1, <2>2, <2>3 DEF CacheNext
<1>4. CASE /\ reader # "cache"
           /\ \/ Bridge /\ kills' = 0 /\ UNCHANGED taken
              \/ ReaderStep /\ UNCHANGED bridgeVars
           /\ UNCHANGED <<cacheVars, wanted, historyVars, reader>>
    <2>1. UNCHANGED <<cacheVars, wanted, givenUp, inserted, reader>> /\ overtaken' = overtaken /\ overtaken \in BOOLEAN
        BY <1>1, <1>4 DEF historyVars, CacheTypeOK
    <2>2. CASE Bridge /\ UNCHANGED taken
        BY <1>1, <1>2, <2>1, <2>2 DEF TransportTypeOK
    <2>3. CASE ReaderStep /\ UNCHANGED bridgeVars
        <3>1. step' \in 1..9 /\ got' \in [Words \cup Halves -> Nat] /\ got'.active \in 0..1
              /\ taken' \in [Words \cup Halves -> Nat]
            <4>1. reader \in {"runtime", "sampler"}
                BY <1>1, <1>4 DEF Readers
            <4>2. CASE Read
                BY <1>1, <4>1, <4>2, RuntimeLoads, SamplerLoads
            <4>3. CASE TryAgain \/ Deliver
                <5>1. step' = 1 /\ got' = Nothing /\ (taken' = taken \/ taken' = got)
                    BY <4>3 DEF TryAgain, Deliver, StartOver
                <5>2. got \in [Words \cup Halves -> Nat]
                    BY <1>1 DEF FramesTypeOK
                <5> QED BY <1>1, <5>1, <5>2, NothingTyped
            <4> QED BY <2>3, <4>2, <4>3 DEF ReaderStep
        <3>2. FramesTypeOK'
            BY <1>1, <2>3, <3>1 DEF FramesTypeOK, bridgeVars
        <3>3. CacheTypeOK'
            BY <1>1, <2>1, <2>3, <3>2 DEF CacheTypeOK, cacheVars, bridgeVars
        <3> QED BY <1>1, <2>1, <3>1, <3>3 DEF TransportTypeOK
    <2> QED BY <1>4, <2>2, <2>3
<1>5. CASE UNCHANGED AllVars
    <2>1. FramesTypeOK'
        BY <1>1, <1>5 DEF FramesTypeOK, AllVars, bridgeVars, readerVars
    <2> QED BY <1>1, <1>5, <2>1 DEF TransportTypeOK, CacheTypeOK, AllVars, bridgeVars, cacheVars, historyVars
<1> QED BY <1>3, <1>4, <1>5 DEF TransportNext

-----------------------------------------------------------------------------
(* The cache thread's copies while the bridge goes on *)

\* What a step of the bridge does to a stamp, and to the order of stamps and FrameSets.
LEMMA StampMoves ==
    ASSUME FramesTypeOK, BridgeInv, \A d \in Channels : ChannelInv(d), BridgeStep, NEW c \in Channels
    PROVE  /\ shot' \in {shot, shot + 1}
           /\ \/ shm'[c].stamp = shm[c].stamp
              \/ shm'[c].stamp = 0
              \/ shm'[c].stamp = shot /\ Pending(c)
           /\ Pending(c)' => Pending(c) \/ shot' = shot + 1
           /\ InTodo(c)' => InTodo(c) \/ shot' = shot + 1
<1>1. CASE NextFrameSet
    BY <1>1 DEF NextFrameSet
<1>2. CASE MapChannel
    <2>1. PICK d \in Channels : d = Head(todo) /\ d \notin mapped /\ todo # <<>>
        BY <1>2, Todo DEF MapChannel
    <2>2. /\ shm'[d] = Zeroed /\ \A e \in Channels \ {d} : shm'[e] = shm[e]
          /\ UNCHANGED <<shot, todo, at>> /\ mapped' = mapped \cup {d} /\ at = 1
        BY <1>2, <2>1 DEF MapChannel, FramesTypeOK, BridgeInv
    <2>3. InTodo(c)' <=> InTodo(c)
        BY <2>2 DEF InTodo
    <2>4. Pending(c)' => Pending(c)
        BY <2>2, <2>3 DEF Pending
    <2> QED BY <2>1, <2>2, <2>3, <2>4 DEF Zeroed
<1>3. CASE Publish
    <2>1. PICK d \in Channels : d = Head(todo) /\ todo # <<>> /\ d \in mapped
        BY <1>3, Todo, Stored DEF Publish
    <2>2. /\ UNCHANGED <<mapped, shot, kills>> /\ at \in 1..5
          /\ IF at = 5 THEN at' = 1 /\ todo' = Tail(todo) ELSE at' = at + 1 /\ todo' = todo
        BY <1>3, PublishStores DEF Publish, FramesTypeOK
    <2>3. CASE c # d
        <3>1. InTodo(c)' <=> InTodo(c)
            BY <2>1, <2>2, <2>3, Todo DEF InTodo
        <3>2. shm'[c] = shm[c] /\ ~Storing(c)
            BY <1>3, <2>1, <2>3, Stored DEF Storing
        <3> QED BY <2>2, <3>1, <3>2 DEF Pending
    <2>4. CASE c = d
        <3>1. InTodo(c) /\ Storing(c)
            BY <2>1, <2>4, Todo DEF Storing
        <3>2. CASE at = 5
            <4>1. todo' = Tail(todo) /\ Tail(todo) \notin {<<c>>, <<"color", "depth">>}
                BY <2>1, <2>2, <2>4, <3>2, Todo
            <4>2. shm'[c].stamp = shm[c].stamp
                BY <1>3, <2>1, <2>4, <3>2, Stored
            <4> QED BY <2>2, <4>1, <4>2 DEF Pending, InTodo
        <3>3. CASE at # 5
            <4>1. shm'[c].stamp = shm[c].stamp \/ shm'[c].stamp = shot
                BY <1>3, <2>1, <2>2, <2>4, Stored
            <4> QED BY <2>2, <3>1, <3>3, <4>1 DEF Pending
        <3> QED BY <3>2, <3>3
    <2> QED BY <2>3, <2>4
<1>4. CASE Kill
    BY <1>4 DEF Kill, InTodo, Pending
<1> QED BY <1>1, <1>2, <1>3, <1>4 DEF BridgeStep

\* The copy under way survives a step of the bridge: a FrameSet published
\* meanwhile changes the stamp for good.
LEMMA BridgeKeepsCopy ==
    ASSUME FramesTypeOK, BridgeInv, \A d \in Channels : ChannelInv(d), BridgeStep,
           NEW c \in Channels, CopyInv(c), overtaken \in BOOLEAN,
           UNCHANGED <<stage, step, got>>, overtaken' = (overtaken \/ (step > 1 /\ shot' # shot))
    PROVE  CopyInv(c)'
<1> SUFFICES ASSUME stage = c PROVE CopyInv(c)'
    BY DEF CopyInv
<1>1. /\ ChannelInv(c) /\ shot \in Nat /\ shot' \in Nat /\ step \in 1..9
      /\ shm[c].seq \in Nat /\ shm[c].active \in 0..1 /\ shm[c].stamp \in Nat
      /\ got.active \in 0..1 /\ got.seq \in Nat /\ got.stamp \in Nat /\ got.top \in Nat /\ got.bottom \in Nat
    BY ChannelTyped, GotTyped, StampMoves DEF FramesTypeOK
<1>2. /\ shot' \in {shot, shot + 1}
      /\ shm'[c].stamp = shm[c].stamp \/ shm'[c].stamp = 0 \/ (shm'[c].stamp = shot /\ Pending(c))
      /\ Pending(c)' => Pending(c) \/ shot' = shot + 1
      /\ InTodo(c)' => InTodo(c) \/ shot' = shot + 1
    BY StampMoves
<1>3. /\ step <= 3 => got.stamp = 0
      /\ Seen(got.stamp, c) /\ (Pending(c) => got.stamp < shot)
      /\ step > 4 => got.active = got.seq % 2
    BY DEF CopyInv
<1>4. Seen(got.stamp, c)' /\ (Pending(c)' => got.stamp < shot')
    BY <1>1, <1>2, <1>3 DEF Seen
<1>5. Same(c)' => Same(c) /\ shm'[c].stamp = shm[c].stamp
    BY <1>1, <1>2, <1>3 DEF Same
<1>6. Same(c)' => \/ shm'[c] = shm[c]
                  \/ Publish /\ c = Head(todo) /\ Storing(c) /\ at # 4
    <2>1. CASE NextFrameSet \/ Kill
        BY <2>1 DEF NextFrameSet, Kill
    <2>2. CASE MapChannel
        <3>1. PICK d \in Channels : d = Head(todo)
            BY <2>2, Todo DEF MapChannel
        <3>2. shm'[d] = Zeroed /\ \A e \in Channels \ {d} : shm'[e] = shm[e]
            BY <2>2, <3>1 DEF MapChannel, FramesTypeOK
        <3>3. d = c => ~Same(c)'
            BY <3>2 DEF Same, Zeroed
        <3> QED BY <3>2, <3>3
    <2>3. CASE Publish
        <3>1. PICK d \in Channels : d = Head(todo) /\ d \in mapped /\ todo # <<>>
            BY <2>3, Todo, Stored DEF Publish
        <3>2. d # c => shm'[c] = shm[c]
            BY <2>3, <3>1, Stored
        <3>3. ASSUME d = c, at = 4 PROVE ~Same(c)'
            <4>1. Pending(c) /\ shm'[c].stamp = shot
                BY <2>3, <3>1, <3>3, Todo, Stored DEF Pending
            <4> QED BY <1>1, <1>3, <4>1 DEF Same
        <3> QED BY <2>3, <3>1, <3>2, <3>3 DEF Storing
    <2> QED BY <2>1, <2>2, <2>3 DEF BridgeStep
<1>7. ASSUME Publish, c = Head(todo), Storing(c), at # 4, Same(c)
      PROVE  /\ InTodo(c) /\ (at # 5 => got.stamp < shot) /\ shot' = shot
             /\ shm'[c].seq = IF at = 5 THEN shm[c].seq + 1 ELSE shm[c].seq
             /\ shm'[c].active = IF at = 3 THEN Spare(c) ELSE shm[c].active
             /\ shm'[c].buffer[shm[c].seq % 2]["top"] = shm[c].buffer[shm[c].seq % 2]["top"]
             /\ shm'[c].buffer[shm[c].seq % 2]["bottom"] = shm[c].buffer[shm[c].seq % 2]["bottom"]
             /\ IF at > 2 THEN shm'[c].buffer = shm[c].buffer
                ELSE shm'[c].buffer[Spare(c)]["top"] # got.stamp
    <2>1. InTodo(c) /\ shot' = shot /\ (at # 5 => got.stamp < shot) /\ at \in 1..5
        BY <1>3, <1>7, Todo DEF Publish, Storing, Pending, FramesTypeOK
    <2>2. /\ shm[c].seq % 2 \in 0..1 /\ Spare(c) \in 0..1 /\ shm[c].seq % 2 # Spare(c)
        BY <1>1, Halving DEF Spare
    <2>3. /\ at # 5 => shm'[c].seq = shm[c].seq
          /\ at = 5 => shm'[c].seq = shm[c].seq + 1
          /\ at # 3 => shm'[c].active = shm[c].active
          /\ at = 3 => shm'[c].active = Spare(c)
          /\ at > 2 => shm'[c].buffer = shm[c].buffer
        BY <1>7, Stored
    <2>4. CASE at = 1
        <3>1. /\ shm'[c].buffer[Spare(c)]["top"] = shot
              /\ shm'[c].buffer[shm[c].seq % 2]["top"] = shm[c].buffer[shm[c].seq % 2]["top"]
              /\ shm'[c].buffer[shm[c].seq % 2]["bottom"] = shm[c].buffer[shm[c].seq % 2]["bottom"]
            BY <1>7, <2>2, <2>4, Stored
        <3> QED BY <1>1, <2>1, <2>3, <2>4, <3>1
    <2>5. CASE at = 2
        <3>1. /\ shm'[c].buffer[Spare(c)]["top"] = shm[c].buffer[Spare(c)]["top"]
              /\ shm'[c].buffer[shm[c].seq % 2]["top"] = shm[c].buffer[shm[c].seq % 2]["top"]
              /\ shm'[c].buffer[shm[c].seq % 2]["bottom"] = shm[c].buffer[shm[c].seq % 2]["bottom"]
            BY <1>7, <2>2, <2>5, Stored
        <3>2. shm[c].buffer[Spare(c)]["top"] = shot
            <4>1. ChannelInv(c) /\ Storing(c) /\ at > 1
                BY <1>1, <1>7, <2>5
            <4> QED BY <4>1 DEF ChannelInv
        <3> QED BY <1>1, <2>1, <2>3, <2>5, <3>1, <3>2
    <2>6. CASE at > 2
        BY <2>1, <2>3, <2>6
    <2> QED BY <2>1, <2>4, <2>5, <2>6
<1>8. step \in 5..6 /\ Same(c)' /\ (shm'[c].seq % 2 = got.active \/ shm'[c].buffer[got.active]["top"] = got.stamp) =>
         /\ got.top = shm'[c].buffer[got.active]["top"]
         /\ step = 6 => got.bottom = shm'[c].buffer[got.active]["bottom"]
    <2> SUFFICES ASSUME step \in 5..6, Same(c)',
                        shm'[c].seq % 2 = got.active \/ shm'[c].buffer[got.active]["top"] = got.stamp
                 PROVE  /\ got.top = shm'[c].buffer[got.active]["top"]
                        /\ step = 6 => got.bottom = shm'[c].buffer[got.active]["bottom"]
        OBVIOUS
    <2>1. Same(c) /\ (shm[c].seq % 2 = got.active \/ shm[c].buffer[got.active]["top"] = got.stamp =>
             /\ got.top = shm[c].buffer[got.active]["top"]
             /\ step = 6 => got.bottom = shm[c].buffer[got.active]["bottom"])
        BY <1>5 DEF CopyInv
    <2>2. CASE shm'[c] = shm[c]
        BY <2>1, <2>2
    <2>3. CASE Publish /\ c = Head(todo) /\ Storing(c) /\ at # 4
        <3>1. /\ shm[c].seq % 2 \in 0..1 /\ Spare(c) \in 0..1 /\ shm[c].seq % 2 # Spare(c)
              /\ Spare(c) = (shm[c].seq + 1) % 2
            BY <1>1, Halving DEF Spare
        <3>2. CASE at < 3
            <4>1. /\ shm'[c].seq = shm[c].seq
                  /\ shm'[c].buffer[shm[c].seq % 2]["top"] = shm[c].buffer[shm[c].seq % 2]["top"]
                  /\ shm'[c].buffer[shm[c].seq % 2]["bottom"] = shm[c].buffer[shm[c].seq % 2]["bottom"]
                  /\ shm'[c].buffer[Spare(c)]["top"] # got.stamp
                <5>1. at \in 1..5 /\ ~(at > 2) /\ at # 5
                    BY <3>2 DEF FramesTypeOK
                <5> QED BY <1>7, <2>1, <2>3, <5>1
            <4>2. got.active = shm[c].seq % 2
                BY <1>1, <3>1, <4>1
            <4> QED BY <2>1, <4>1, <4>2
        <3>3. CASE at = 3
            <4>1. shm'[c].seq = shm[c].seq /\ shm'[c].buffer = shm[c].buffer
                BY <2>3, <3>3, Stored
            <4> QED BY <2>1, <4>1
        <3>4. CASE at = 5
            <4>1. shm'[c].seq = shm[c].seq + 1 /\ shm'[c].buffer = shm[c].buffer
                BY <2>3, <3>4, Stored
            <4>2. shm[c].buffer[Spare(c)]["top"] = shm[c].stamp
                <5>1. ChannelInv(c) /\ at > 1
                    BY <1>1, <3>4
                <5>2. shm[c].buffer[Spare(c)]["top"] = shot /\ shm[c].stamp = shot
                    BY <2>3, <3>4, <5>1 DEF ChannelInv
                <5> QED BY <5>2
            <4>3. shm[c].stamp = got.stamp
                BY <2>1 DEF Same
            <4> QED BY <2>1, <3>1, <4>1, <4>2, <4>3
        <3> QED BY <2>3, <3>2, <3>3, <3>4 DEF FramesTypeOK
    <2> QED BY <1>6, <2>2, <2>3
<1>9. step > 6 /\ Same(c)' =>
         /\ got.top = got.bottom
         /\ ~overtaken' => shm'[c].seq = got.seq \/ ~InTodo(c)'
         /\ ~overtaken' /\ (step > 7 \/ shm'[c].active = got.active) => got.top = got.stamp
    <2> SUFFICES ASSUME step > 6, Same(c)'
                 PROVE  /\ got.top = got.bottom
                        /\ ~overtaken' => shm'[c].seq = got.seq \/ ~InTodo(c)'
                        /\ ~overtaken' /\ (step > 7 \/ shm'[c].active = got.active) => got.top = got.stamp
        OBVIOUS
    <2>1. /\ Same(c) /\ got.top = got.bottom
          /\ ~overtaken => shm[c].seq = got.seq \/ ~InTodo(c)
          /\ ~overtaken /\ (step > 7 \/ shm[c].active = got.active) => got.top = got.stamp
        BY <1>5 DEF CopyInv
    <2>2. ~overtaken' => ~overtaken /\ shot' = shot
        <3>1. step > 1
            BY <1>1
        <3> QED BY <3>1, Zenon
    <2>3. CASE shm'[c] = shm[c]
        BY <1>1, <1>2, <2>1, <2>2, <2>3
    <2>4. CASE Publish /\ c = Head(todo) /\ Storing(c) /\ at # 4
        <3>1. /\ InTodo(c)
              /\ shm'[c].seq = IF at = 5 THEN shm[c].seq + 1 ELSE shm[c].seq
              /\ shm'[c].active = IF at = 3 THEN Spare(c) ELSE shm[c].active
            BY <1>7, <2>1, <2>4
        <3>2. at = 5 => ~InTodo(c)'
            BY <2>4, Todo, PublishStores DEF Publish, InTodo
        <3>3. ~overtaken' /\ at = 3 /\ shm'[c].active = got.active => step <= 6
            <4>1. Spare(c) = (shm[c].seq + 1) % 2 /\ shm[c].seq % 2 # (shm[c].seq + 1) % 2
                BY <1>1, Halving DEF Spare
            <4> QED BY <1>1, <1>3, <2>1, <2>2, <3>1, <4>1
        <3> QED BY <1>1, <2>1, <2>2, <3>1, <3>2, <3>3
    <2> QED BY <1>6, <2>3, <2>4
<1>10. step > 8 /\ got.stamp # 0 => /\ got.top = got.bottom
                                    /\ ~overtaken' => got.top = got.stamp
    BY DEF CopyInv
<1> QED BY <1>3, <1>4, <1>8, <1>9, <1>10 DEF CopyInv

\* One more load of read_latest.
LEMMA ReadKeepsCopy ==
    ASSUME FramesTypeOK, \A d \in Channels : ChannelInv(d), overtaken \in BOOLEAN,
           NEW c \in Channels, stage = c, CopyInv(c), ReadLatest, UNCHANGED bridgeVars, overtaken' = overtaken
    PROVE  CopyInv(c)' /\ got'.stamp \in {got.stamp, shm[c].stamp}
<1>1. /\ ChannelInv(c) /\ shot \in Nat /\ UNCHANGED <<shm, shot, stage>>
      /\ (InTodo(c)' <=> InTodo(c)) /\ (Pending(c)' <=> Pending(c))
      /\ shm[c].seq \in Nat /\ shm[c].active \in 0..1 /\ shm[c].stamp \in Nat
      /\ got.active \in 0..1 /\ got.seq \in Nat /\ got.stamp \in Nat /\ got.top \in Nat /\ got.bottom \in Nat
    <2>1. UNCHANGED <<shm, mapped, shot, todo, at, stage>>
        BY CacheLoads DEF bridgeVars, cacheVars
    <2>2. (InTodo(c)' <=> InTodo(c)) /\ (Pending(c)' <=> Pending(c))
        BY <2>1 DEF InTodo, Pending, Storing
    <2>3. got.active \in 0..1 /\ shot \in Nat
        BY DEF FramesTypeOK
    <2> QED BY <2>1, <2>2, <2>3, ChannelTyped, GotTyped
<1>2. /\ step \in 1..8 /\ step' = step + 1
      /\ step < 3 => got'.stamp = got.stamp
      /\ step = 3 => got'.stamp = shm[c].stamp
      /\ step > 3 => got'.seq = got.seq /\ got'.active = got.active /\ got'.stamp = got.stamp
      /\ step = 4 => got.active = got.seq % 2 /\ got'.top = shm[c].buffer[got.active].top
      /\ step = 5 => got'.top = got.top /\ got'.bottom = shm[c].buffer[got.active].bottom
      /\ step > 5 => got' = got
      /\ step = 6 => shm[c].seq = got.seq
      /\ step = 7 => shm[c].active = got.active
      /\ step = 8 => shm[c].stamp = got.stamp
    BY CacheLoads
<1>3. /\ step <= 3 => got.stamp = 0
      /\ Seen(got.stamp, c) /\ (Pending(c) => got.stamp < shot)
      /\ step > 4 => got.active = got.seq % 2
    BY DEF CopyInv
<1>4. /\ shm[c].buffer[shm[c].seq % 2]["top"] = shm[c].buffer[shm[c].seq % 2]["bottom"]
      /\ shm[c].active = shm[c].seq % 2 => shm[c].stamp = shm[c].buffer[shm[c].active]["top"]
      /\ shm[c].stamp <= shot /\ (Pending(c) => shm[c].stamp < shot)
    BY <1>1 DEF ChannelInv
<1>5. got'.stamp \in {got.stamp, shm[c].stamp}
    BY <1>2
<1>6. /\ step' <= 3 => got'.stamp = 0
      /\ Seen(got.stamp, c)' /\ (Pending(c)' => got'.stamp < shot')
      /\ step' > 4 => got'.active = got'.seq % 2
    <2>1. Seen(got.stamp, c)' /\ (Pending(c)' => got'.stamp < shot')
        BY <1>1, <1>3, <1>4, <1>5 DEF Seen
    <2>2. step' <= 3 => got'.stamp = 0
        BY <1>2, <1>3
    <2>3. step' > 4 => got'.active = got'.seq % 2
        BY <1>2, <1>3
    <2> QED BY <2>1, <2>2, <2>3
<1>7. step' \in 5..6 /\ Same(c)' /\ (shm'[c].seq % 2 = got'.active \/ shm'[c].buffer[got'.active]["top"] = got'.stamp) =>
         /\ got'.top = shm'[c].buffer[got'.active]["top"]
         /\ step' = 6 => got'.bottom = shm'[c].buffer[got'.active]["bottom"]
    <2>1. CASE step = 4
        BY <1>1, <1>2, <2>1
    <2>2. CASE step = 5
        <3>1. Same(c)' => Same(c)
            BY <1>1, <1>2, <2>2 DEF Same
        <3>2. Same(c) /\ (shm[c].seq % 2 = got.active \/ shm[c].buffer[got.active]["top"] = got.stamp) =>
                got.top = shm[c].buffer[got.active]["top"]
            BY <2>2 DEF CopyInv
        <3> QED BY <1>1, <1>2, <2>2, <3>1, <3>2
    <2>3. CASE step \notin 4..5
        BY <1>2, <2>3
    <2> QED BY <2>1, <2>2, <2>3
<1>8. step' > 6 /\ Same(c)' =>
         /\ got'.top = got'.bottom
         /\ ~overtaken' => shm'[c].seq = got'.seq \/ ~InTodo(c)'
         /\ ~overtaken' /\ (step' > 7 \/ shm'[c].active = got'.active) => got'.top = got'.stamp
    <2> SUFFICES ASSUME step > 5, Same(c)
                 PROVE  /\ got.top = got.bottom
                        /\ ~overtaken => shm[c].seq = got.seq \/ ~InTodo(c)
                        /\ ~overtaken /\ (step > 6 \/ shm[c].active = got.active) => got.top = got.stamp
        BY <1>1, <1>2 DEF Same
    <2>1. CASE step = 6
        <3>1. shm[c].seq % 2 = got.active /\ shm[c].seq = got.seq
            BY <1>2, <1>3, <2>1
        <3>2. /\ got.top = shm[c].buffer[got.active]["top"]
              /\ got.bottom = shm[c].buffer[got.active]["bottom"]
            BY <2>1, <3>1 DEF CopyInv
        <3>3. shm[c].active = got.active => got.top = got.stamp
            BY <1>4, <3>1, <3>2 DEF Same
        <3> QED BY <1>4, <2>1, <3>1, <3>2, <3>3
    <2>2. CASE step > 6
        <3>1. /\ got.top = got.bottom
              /\ ~overtaken => shm[c].seq = got.seq \/ ~InTodo(c)
              /\ ~overtaken /\ (step > 7 \/ shm[c].active = got.active) => got.top = got.stamp
            BY <2>2 DEF CopyInv
        <3>2. step > 7 \/ shm[c].active = got.active
            BY <1>2, <2>2
        <3> QED BY <3>1, <3>2
    <2> QED BY <1>2, <2>1, <2>2
<1>9. step' > 8 /\ got'.stamp # 0 => /\ got'.top = got'.bottom
                                     /\ ~overtaken' => got'.top = got'.stamp
    <2> SUFFICES ASSUME step = 8, got.stamp # 0
                 PROVE  got.top = got.bottom /\ (~overtaken => got.top = got.stamp)
        BY <1>2
    <2>1. Same(c)
        BY <1>2 DEF Same
    <2> QED BY <2>1 DEF CopyInv
<1> QED BY <1>1, <1>5, <1>6, <1>7, <1>8, <1>9 DEF CopyInv

\* The cache thread keeps only times it has read, so that a floor stays one.
LEMMA FloorKept ==
    ASSUME NEW t \in Nat, Floor(t), UNCHANGED <<shm, shot>>,
           held'.stamp \in {0, held.stamp, got.stamp},
           got'.stamp \in {0, got.stamp, shm["color"].stamp, shm["depth"].stamp}
    PROVE  Floor(t)'
BY DEF Floor

LEMMA CacheStepKeeps ==
    ASSUME CacheTypeOK, BridgeFacts, CacheFacts, CacheStep, FramesTypeOK', BridgeFacts'
    PROVE  CacheFacts'
<1>1. /\ UNCHANGED bridgeVars /\ UNCHANGED <<wanted, givenUp>> /\ overtaken \in BOOLEAN /\ CacheThread
      /\ overtaken' = (overtaken /\ stage' # "peek")
    BY DEF CacheStep, CacheTypeOK
<1>2. /\ FramesTypeOK /\ BridgeInv /\ (\A c \in Channels : ChannelInv(c)) /\ BridgeInv'
      /\ UNCHANGED <<shm, mapped, shot, todo, at>>
      /\ shot \in Nat /\ held.stamp \in Nat /\ got.stamp \in Nat /\ cache \in Seq(Pairs)
      /\ \A c \in Channels : shm[c].stamp \in Nat
    BY <1>1, ChannelTyped, GotTyped DEF BridgeFacts, CacheTypeOK, FramesTypeOK, Images, bridgeVars
<1>3. StageInv /\ (\A c \in Channels : CopyInv(c)) /\ HeldInv /\ CacheInv /\ GiveUpInv
    BY DEF CacheFacts
<1>4. NoImage.stamp = 0 /\ Nothing.stamp = 0
    BY NothingTyped DEF NoImage
<1>12. ASSUME NEW i \in DOMAIN cache PROVE cache[i].stamp \in Nat /\ Floor(cache[i].stamp)
    <2>1. cache[i] \in Pairs
        BY <1>2
    <2> QED BY <1>3, <2>1 DEF GiveUpInv, Pairs
<1>13. ASSUME NEW g \in givenUp PROVE g \in Nat /\ g # 0 /\ g + 1 \in Nat /\ Floor(g + 1) /\ g \notin Stamps
    <2>1. g \in 1..LastFrame
        BY DEF CacheTypeOK
    <2> QED BY <1>3, <2>1, FramesAssumption DEF GiveUpInv, FramesAssumption
<1>5. ASSUME UNCHANGED cache,
             held'.stamp \in {0, held.stamp, got.stamp},
             got'.stamp \in {0, got.stamp, shm["color"].stamp, shm["depth"].stamp}
      PROVE  CacheInv' /\ GiveUpInv'
    <2>1. CacheInv'
        BY <1>3, <1>5 DEF CacheInv, Exact
    <2>2. ASSUME NEW i \in DOMAIN cache PROVE Floor(cache[i].stamp)'
        <3>1. PICK t \in Nat : t = cache[i].stamp
            BY <1>12
        <3>2. Floor(t)
            BY <1>12, <3>1
        <3>3. Floor(t)'
            BY <1>2, <1>5, <3>2, FloorKept
        <3> QED BY <1>5, <3>1, <3>3 DEF Floor
    <2>3. ASSUME NEW g \in givenUp PROVE Floor(g + 1)' /\ g \notin Stamps'
        <3>1. Floor(g + 1)'
            BY <1>2, <1>5, <1>13, FloorKept
        <3> QED BY <1>5, <1>13, <3>1 DEF Stamps
    <2> QED BY <1>1, <1>5, <2>1, <2>2, <2>3 DEF GiveUpInv
<1>6. ASSUME step' = 1, got' = Nothing, stage' # "depth" \/ HeldInv'
      PROVE  StageInv' /\ (\A c \in Channels : CopyInv(c)') /\ HeldInv'
    <2>1. ASSUME NEW c \in Channels PROVE CopyInv(c)'
        <3>1. got'.stamp = 0 /\ ~Same(c)' /\ shm'[c].stamp \in Nat /\ shot' \in Nat
            BY <1>2, <1>4, <1>6 DEF Same
        <3>2. Seen(got.stamp, c)' /\ (Pending(c)' => got'.stamp < shot')
            <4>1. Pending(c)' => todo' # <<>>
                BY DEF Pending, InTodo
            <4>2. todo' # <<>> => shot' > 0
                BY <1>2 DEF BridgeInv
            <4> QED BY <3>1, <4>1, <4>2 DEF Seen
        <3> QED BY <1>6, <3>1, <3>2 DEF CopyInv
    <2> QED BY <1>6, <2>1 DEF StageInv, HeldInv
<1>7. CASE PeekColor \/ PeekDepth
    <2>1. /\ UNCHANGED <<step, got, held, cache>> /\ stage \notin Channels /\ stage' # "depth"
        BY <1>7, Names DEF PeekColor, PeekDepth, readerVars
    <2>2. step = 1 /\ got = Nothing
        BY <1>3, <2>1 DEF StageInv
    <2>3. StageInv' /\ (\A c \in Channels : CopyInv(c)') /\ HeldInv'
        BY <1>6, <2>1, <2>2
    <2>4. CacheInv' /\ GiveUpInv'
        BY <1>5, <2>1
    <2> QED BY <2>3, <2>4 DEF CacheFacts
<1>8. CASE ReadLatest
    <2>1. PICK c \in Channels : stage = c
        BY <1>8 DEF ReadLatest
    <2>2. UNCHANGED <<stage, held, cache>> /\ stage' # "peek"
        BY <1>2, <1>8, <2>1, CacheLoads, Names DEF cacheVars
    <2>3. overtaken' = overtaken
        BY <1>1, <2>2
    <2>4. CopyInv(c)' /\ got'.stamp \in {got.stamp, shm[c].stamp}
        BY <1>1, <1>2, <1>3, <1>8, <2>1, <2>3, ReadKeepsCopy
    <2>5. ASSUME NEW d \in Channels \ {c} PROVE CopyInv(d)'
        BY <2>1, <2>2 DEF CopyInv
    <2>6. HeldInv'
        BY <1>2, <1>3, <2>2, <2>3 DEF HeldInv, Exact, Seen
    <2>7. CacheInv' /\ GiveUpInv'
        BY <1>5, <2>2, <2>4, Names
    <2> QED BY <2>1, <2>2, <2>4, <2>5, <2>6, <2>7 DEF CacheFacts, StageInv
<1>9. CASE ReadFails \/ DiscardPair
    <2>1. step' = 1 /\ got' = Nothing /\ stage' = "peek" /\ held' = NoImage /\ cache' = cache
        BY <1>9 DEF ReadFails, DiscardPair, StartOver
    <2>2. StageInv' /\ (\A c \in Channels : CopyInv(c)') /\ HeldInv'
        BY <1>6, <2>1, Names
    <2>3. CacheInv' /\ GiveUpInv'
        BY <1>4, <1>5, <2>1
    <2> QED BY <2>2, <2>3 DEF CacheFacts
<1>10. CASE KeepColor
    <2>1. /\ step = 9 /\ stage = "color" /\ held' = Image(got) /\ cache' = cache
          /\ step' = 1 /\ got' = Nothing /\ stage' = "depth"
        BY <1>10, ScriptLoads DEF KeepColor, StartOver, Accepted
    <2>2. overtaken' = overtaken
        BY <1>1, <2>1
    <2>3. CopyInv("color") /\ "color" \in Channels
        BY <1>3, Names
    <2>4. held'.stamp = got.stamp /\ held'.top = got.top /\ held'.bottom = got.bottom
        BY <2>1 DEF Image
    <2>5. Exact(held, ~overtaken)' /\ Seen(held.stamp, "color")'
        BY <1>2, <2>1, <2>2, <2>3, <2>4 DEF CopyInv, Exact, Seen
    <2>6. HeldInv'
        BY <2>5 DEF HeldInv
    <2>7. StageInv' /\ (\A c \in Channels : CopyInv(c)') /\ HeldInv'
        BY <1>6, <2>1, <2>6
    <2>8. CacheInv' /\ GiveUpInv'
        BY <1>4, <1>5, <2>1, <2>4
    <2> QED BY <2>7, <2>8 DEF CacheFacts
<1>11. CASE InsertPair
    <2>1. PICK pair : /\ pair = [stamp |-> held.stamp, color |-> held, depth |-> Image(got), overtaken |-> overtaken]
                      /\ Insert(pair)
        BY <1>11 DEF InsertPair
    <2>13. /\ step = 9 /\ stage = "depth" /\ held.stamp = got.stamp
           /\ step' = 1 /\ got' = Nothing /\ stage' = "peek" /\ held' = NoImage
        BY <1>11, ScriptLoads DEF InsertPair, StartOver, Accepted, SamePair
    <2>2. StageInv' /\ (\A c \in Channels : CopyInv(c)') /\ HeldInv'
        BY <1>6, <2>13, Names
    <2>3. /\ pair.stamp = held.stamp /\ pair.color = held /\ pair.depth = Image(got) /\ pair.overtaken = overtaken
          /\ Image(got).stamp = got.stamp /\ Image(got).top = got.top /\ Image(got).bottom = got.bottom
          /\ pair \in Pairs
        BY <1>1, <1>2, <2>1, GotTyped DEF Image, Images, Pairs, CacheTypeOK
    <2>4. CopyInv("depth") /\ "depth" \in Channels /\ Exact(held, ~overtaken) /\ Seen(held.stamp, "color")
        BY <1>3, <2>13, Names DEF HeldInv
    <2>5. Exact(pair.depth, ~pair.overtaken) /\ Exact(pair.color, ~pair.overtaken)
        BY <1>2, <2>13, <2>3, <2>4 DEF CopyInv, Exact
    <2>6. Seen(got.stamp, "depth")
        BY <2>13, <2>4 DEF CopyInv
    <2>10. ASSUME NEW t \in Nat, Floor(t) PROVE Floor(t)'
        BY <1>2, <1>4, <2>10, <2>13, FloorKept
    <2>7. Floor(pair.stamp)
        <3> QED BY <1>2, <1>4, <2>13, <2>3, <2>4, <2>6 DEF Floor, Seen
    <2>8. \A i \in DOMAIN cache' : cache'[i] = pair \/ \E j \in DOMAIN cache : cache'[i] = cache[j]
        BY <1>2, <2>1, <2>3, InsertKeepsPairs
    <2>9. CacheInv'
        <3> SUFFICES ASSUME NEW i \in DOMAIN cache'
                     PROVE  /\ cache'[i].color.stamp = cache'[i].stamp /\ cache'[i].depth.stamp = cache'[i].stamp
                            /\ Exact(cache'[i].color, ~cache'[i].overtaken)
                            /\ Exact(cache'[i].depth, ~cache'[i].overtaken)
            BY DEF CacheInv, Exact
        <3>1. CASE cache'[i] = pair
            BY <2>3, <2>5, <3>1, <2>13 DEF Exact
        <3>2. CASE \E j \in DOMAIN cache : cache'[i] = cache[j]
            BY <1>3, <3>2 DEF CacheInv
        <3> QED BY <2>8, <3>1, <3>2
    <2>11. ASSUME NEW i \in DOMAIN cache' PROVE Floor(cache[i].stamp)'
        <3>1. PICK p : p = cache'[i]
            OBVIOUS
        <3>2. p.stamp \in Nat /\ Floor(p.stamp)
            <4>1. CASE p = pair
                BY <1>2, <2>3, <2>7, <4>1
            <4>2. CASE \E j \in DOMAIN cache : p = cache[j]
                BY <1>12, <4>2
            <4> QED BY <2>8, <3>1, <4>1, <4>2
        <3>3. PICK t \in Nat : t = p.stamp
            BY <3>2
        <3>4. Floor(t)'
            BY <2>10, <3>2, <3>3
        <3> QED BY <3>1, <3>3, <3>4 DEF Floor
    <2>12. ASSUME NEW g \in givenUp PROVE Floor(g + 1)' /\ g \notin Stamps'
        <3>1. Floor(g + 1)'
            BY <1>13, <2>10
        <3>2. pair.stamp # g
            BY <1>2, <1>13, <2>3 DEF Floor
        <3> QED BY <1>13, <2>8, <3>1, <3>2 DEF Stamps
    <2> QED BY <1>1, <2>2, <2>9, <2>11, <2>12 DEF CacheFacts, GiveUpInv
<1> QED BY <1>1, <1>7, <1>8, <1>9, <1>10, <1>11 DEF CacheThread

LEMMA BridgeKeepsCache ==
    ASSUME CacheTypeOK, BridgeFacts, CacheFacts, BridgeStep, UNCHANGED <<readerVars, cacheVars, givenUp>>,
           overtaken' = (overtaken \/ (step > 1 /\ shot' # shot))
    PROVE  CacheFacts'
<1>1. /\ FramesTypeOK /\ BridgeInv /\ (\A c \in Channels : ChannelInv(c)) /\ overtaken \in BOOLEAN
      /\ UNCHANGED <<step, got, stage, held, cache, givenUp>>
      /\ StageInv /\ (\A c \in Channels : CopyInv(c)) /\ HeldInv /\ CacheInv /\ GiveUpInv
      /\ shot \in Nat /\ held.stamp \in Nat /\ got.stamp \in Nat /\ cache \in Seq(Pairs)
      /\ \A c \in Channels : shm[c].stamp \in Nat
    <2>1. FramesTypeOK /\ shot \in Nat /\ overtaken \in BOOLEAN /\ held.stamp \in Nat /\ cache \in Seq(Pairs)
        BY DEF CacheTypeOK, FramesTypeOK, Images
    <2>2. /\ BridgeInv /\ (\A c \in Channels : ChannelInv(c))
          /\ StageInv /\ (\A c \in Channels : CopyInv(c)) /\ HeldInv /\ CacheInv /\ GiveUpInv
        BY DEF BridgeFacts, CacheFacts
    <2>3. UNCHANGED <<step, got, stage, held, cache, givenUp>>
        BY DEF readerVars, cacheVars
    <2>4. got.stamp \in Nat /\ \A c \in Channels : shm[c].stamp \in Nat
        BY <2>1, ChannelTyped, GotTyped
    <2> QED BY <2>1, <2>2, <2>3, <2>4
<1>2. /\ shot' \in {shot, shot + 1}
      /\ \A c \in Channels : \/ shm'[c].stamp \in {shm[c].stamp, 0}
                             \/ shm'[c].stamp = shot
    <2>1. \E c \in Channels : TRUE
        BY Names
    <2>2. ASSUME NEW c \in Channels
          PROVE  /\ shot' \in {shot, shot + 1}
                 /\ shm'[c].stamp = shm[c].stamp \/ shm'[c].stamp = 0 \/ shm'[c].stamp = shot
        BY <1>1, StampMoves
    <2> QED BY <2>1, <2>2
<1>3. ASSUME NEW c \in Channels PROVE CopyInv(c)'
    BY <1>1, BridgeKeepsCopy
<1>4. ~overtaken' => ~overtaken
    OBVIOUS
<1>5. HeldInv'
    <2>1. ASSUME stage = "depth" PROVE Exact(held, ~overtaken)' /\ Seen(held.stamp, "color")'
        <3>1. Exact(held, ~overtaken) /\ Seen(held.stamp, "color")
            BY <1>1, <2>1 DEF HeldInv
        <3>2. Exact(held, ~overtaken)'
            BY <1>1, <1>4, <3>1 DEF Exact
        <3>3. Seen(held.stamp, "color")'
            BY <1>1, <1>2, <3>1, Names DEF Seen
        <3> QED BY <3>2, <3>3
    <2> QED BY <1>1, <2>1 DEF HeldInv
<1>6. CacheInv'
    BY <1>1 DEF CacheInv, Exact
<1>7. ASSUME NEW t \in Nat, Floor(t) PROVE Floor(t)'
    <2>1. t <= shot' /\ \A c \in Channels : shm'[c].stamp = 0 \/ t <= shm'[c].stamp
        BY <1>1, <1>2, <1>7, Names DEF Floor
    <2> QED BY <1>1, <1>7, <2>1, Names DEF Floor
<1>8. ASSUME NEW i \in DOMAIN cache PROVE Floor(cache[i].stamp)'
    <2>1. PICK p : p = cache[i]
        OBVIOUS
    <2>2. p \in Pairs
        BY <1>1, <2>1
    <2>3. PICK t \in Nat : t = p.stamp
        BY <2>2 DEF Pairs
    <2>4. Floor(t)'
        BY <1>1, <1>7, <2>1, <2>3 DEF GiveUpInv
    <2> QED BY <1>1, <2>1, <2>3, <2>4 DEF Floor
<1>9. ASSUME NEW g \in givenUp PROVE Floor(g + 1)' /\ g \notin Stamps'
    <2>1. g + 1 \in Nat
        BY FramesAssumption DEF CacheTypeOK, FramesAssumption
    <2> QED BY <1>1, <1>7, <2>1 DEF GiveUpInv, Stamps
<1> QED BY <1>1, <1>3, <1>5, <1>6, <1>8, <1>9 DEF CacheFacts, StageInv, GiveUpInv

\* get_exact gives up only what the cache has moved past.
LEMMA AskingKeepsCache ==
    ASSUME CacheTypeOK, CacheFacts, GetExact, UNCHANGED <<bridgeVars, readerVars, cacheVars, inserted, overtaken>>
    PROVE  CacheFacts'
<1>1. /\ UNCHANGED <<shm, mapped, shot, todo, at, step, got, stage, held, cache, overtaken>>
      /\ StageInv /\ (\A c \in Channels : CopyInv(c)) /\ HeldInv /\ CacheInv /\ GiveUpInv
      /\ FramesTypeOK /\ shot \in Nat /\ wanted \in Nat /\ cache \in Seq(Pairs) /\ held.stamp \in Nat
    BY DEF CacheFacts, CacheTypeOK, FramesTypeOK, bridgeVars, readerVars, cacheVars, Images
<1>2. StageInv' /\ (\A c \in Channels : CopyInv(c)') /\ HeldInv' /\ CacheInv'
    BY <1>1 DEF StageInv, CopyInv, HeldInv, CacheInv, Seen, Same, Pending, InTodo, Storing, Exact
<1>3. \A i \in DOMAIN cache : Floor(cache[i].stamp)'
    BY <1>1 DEF GiveUpInv, Floor
<1>4. ASSUME NEW g \in givenUp PROVE Floor(g + 1)' /\ g \notin Stamps'
    BY <1>1 DEF GiveUpInv, Floor, Stamps
<1>5. CASE Ask \/ Hit \/ Timeout
    BY <1>1, <1>2, <1>3, <1>4, <1>5 DEF Ask, Hit, Timeout, CacheFacts, GiveUpInv
<1>6. CASE GiveUp
    <2>1. wanted \notin Stamps /\ givenUp' = givenUp \cup {wanted} /\ MovedPast
        BY <1>6 DEF GiveUp
    <2>2. PICK i \in DOMAIN cache : cache[i].stamp > wanted
        BY <1>1, <2>1 DEF MovedPast, Last
    <2>3. cache[i] \in Pairs
        BY <1>1
    <2>4. cache[i].stamp \in Nat /\ Floor(cache[i].stamp)
        BY <1>1, <2>3 DEF GiveUpInv, Pairs
    <2>5. PICK w \in Nat : w = wanted
        BY <1>1
    <2>6. Floor(w + 1)
        <3>1. \A s \in {shm["color"].stamp, shm["depth"].stamp, held.stamp, got.stamp} : s \in Nat
            BY <1>1, ChannelTyped, GotTyped, Names
        <3>2. PICK t \in Nat : t = cache[i].stamp
            BY <2>4
        <3>3. Floor(t) /\ w + 1 <= t
            BY <2>2, <2>4, <2>5, <3>2
        <3> QED BY <1>1, <3>1, <3>3 DEF Floor
    <2>7. Floor(w + 1)' /\ w \notin Stamps'
        BY <1>1, <2>1, <2>5, <2>6 DEF Floor, Stamps
    <2>8. givenUp' = givenUp \cup {w}
        BY <2>1, <2>5
    <2>9. GiveUpInv'
        BY <1>1, <1>3, <1>4, <2>7, <2>8 DEF GiveUpInv
    <2> QED BY <1>2, <2>9 DEF CacheFacts
<1> QED BY <1>5, <1>6 DEF GetExact

-----------------------------------------------------------------------------
(* The readers that check less *)

\* What the bridge does to a channel as long as it is not restarted.
LEMMA UnbrokenChannel ==
    ASSUME FramesTypeOK, BridgeFacts, BridgeStep, kills = 0, kills' = 0, NEW c \in Channels,
           c \in mapped \/ shm[c] = Zeroed
    PROVE  /\ c \in mapped' \/ shm'[c] = Zeroed
           /\ \/ shm'[c] = shm[c]
              \/ /\ shm[c].active = shm[c].seq % 2
                 /\ shm'[c].seq = shm[c].seq /\ shm'[c].active = shm[c].active /\ shm'[c].stamp = shm[c].stamp
                 /\ \A h \in Halves : shm'[c].buffer[shm[c].active][h] = shm[c].buffer[shm[c].active][h]
              \/ /\ shm[c].active = shm[c].seq % 2
                 /\ shm'[c].seq = shm[c].seq /\ shm'[c].active # shm[c].seq % 2
                 /\ shm'[c].buffer = shm[c].buffer
              \/ /\ shm[c].active # shm[c].seq % 2
                 /\ shm'[c].seq = shm[c].seq /\ shm'[c].active = shm[c].active
                 /\ shm'[c].buffer = shm[c].buffer
              \/ shm'[c].seq = shm[c].seq + 1
<1>1. /\ BridgeInv /\ ChannelInv(c) /\ shm[c].seq \in Nat /\ at \in 1..5
      /\ shm[c].seq % 2 \in 0..1 /\ (shm[c].seq + 1) % 2 \in 0..1 /\ shm[c].seq % 2 # (shm[c].seq + 1) % 2
    BY ChannelTyped, Halving DEF BridgeFacts, FramesTypeOK
<1>2. CASE NextFrameSet
    BY <1>2 DEF NextFrameSet
<1>3. CASE MapChannel
    <2>1. PICK d \in Channels : d = Head(todo) /\ d \notin mapped
        BY <1>3, Todo DEF MapChannel
    <2>2. shm'[d] = Zeroed /\ (\A e \in Channels \ {d} : shm'[e] = shm[e]) /\ mapped' = mapped \cup {d}
        BY <1>3, <2>1 DEF MapChannel, FramesTypeOK
    <2> QED BY <2>1, <2>2
<1>4. CASE Publish
    <2>1. PICK d \in Channels : d = Head(todo) /\ d \in mapped /\ todo # <<>> /\ mapped' = mapped
        BY <1>4, Todo, Stored DEF Publish
    <2>2. CASE c # d
        <3>1. shm'[c] = shm[c]
            BY <1>4, <2>1, <2>2, Stored
        <3> QED BY <2>1, <3>1
    <2>3. CASE c = d
        <3>1. Storing(c) /\ c \in mapped'
            BY <2>1, <2>3 DEF Storing
        <3>2. shm[c].active # shm[c].seq % 2 <=> at > 3
            BY <1>1, <3>1, <2>1, <2>3 DEF ChannelInv
        <3>3. CASE at < 3
            <4>1. shm'[c].seq = shm[c].seq /\ shm'[c].active = shm[c].active /\ shm'[c].stamp = shm[c].stamp
                BY <1>1, <1>4, <2>1, <2>3, <3>3, Stored
            <4>2. shm[c].active = shm[c].seq % 2
                BY <1>1, <3>2, <3>3
            <4>3. \A h \in Halves : shm'[c].buffer[shm[c].active][h] = shm[c].buffer[shm[c].active][h]
                <5>1. CASE at = 1
                    <6>1. shm[c].active \in 0..1 /\ shm[c].active # Spare(c)
                        BY <1>1, <4>2 DEF Spare
                    <6>2. /\ shm'[c].buffer[shm[c].active]["top"] = shm[c].buffer[shm[c].active]["top"]
                          /\ shm'[c].buffer[shm[c].active]["bottom"] = shm[c].buffer[shm[c].active]["bottom"]
                        BY <1>4, <2>1, <2>3, <5>1, <6>1, Stored
                    <6> QED BY <6>2, Names
                <5>2. CASE at = 2
                    <6>1. shm[c].active \in 0..1 /\ shm[c].active # Spare(c)
                        BY <1>1, <4>2 DEF Spare
                    <6>2. /\ shm'[c].buffer[shm[c].active]["top"] = shm[c].buffer[shm[c].active]["top"]
                          /\ shm'[c].buffer[shm[c].active]["bottom"] = shm[c].buffer[shm[c].active]["bottom"]
                        BY <1>4, <2>1, <2>3, <5>2, <6>1, Stored
                    <6> QED BY <6>2, Names
                <5> QED BY <1>1, <3>3, <5>1, <5>2
            <4> QED BY <3>1, <4>1, <4>2, <4>3
        <3>4. CASE at = 3
            BY <1>1, <1>4, <2>1, <2>3, <3>1, <3>2, <3>4, Stored DEF Spare
        <3>5. CASE at = 4
            BY <1>1, <1>4, <2>1, <2>3, <3>1, <3>2, <3>5, Stored
        <3>6. CASE at = 5
            BY <1>1, <1>4, <2>1, <2>3, <3>1, <3>6, Stored
        <3> QED BY <1>1, <3>3, <3>4, <3>5, <3>6
    <2> QED BY <2>2, <2>3
<1>5. CASE Kill
    BY <1>5 DEF Kill
<1> QED BY <1>2, <1>3, <1>4, <1>5 DEF BridgeStep

LEMMA BridgeKeepsRuntime ==
    ASSUME FramesTypeOK, BridgeFacts, BridgeStep, kills = 0, kills' = 0, UNCHANGED <<readerVars, taken>>,
           "color" \in mapped \/ shm["color"] = Zeroed, RuntimeInv
    PROVE  RuntimeInv'
<1> DEFINE s == shm["color"]
<1>1. /\ step \in 1..9 /\ UNCHANGED <<step, got, taken>> /\ "color" \in Channels
      /\ s.seq \in Nat /\ got.seq \in Nat /\ got.active \in 0..1
    BY ChannelTyped, GotTyped, Names DEF FramesTypeOK, readerVars
<1>2. /\ step > 1 => got.seq <= s.seq
      /\ step > 2 /\ s.seq = got.seq => got.active \in {s.seq % 2, s.active}
      /\ step > 4 => got.seq # 0
      /\ step > 4 /\ s.seq = got.seq => got.top = s.buffer[got.active]["top"]
      /\ step > 5 /\ s.seq = got.seq => got.bottom = s.buffer[got.active]["bottom"]
      /\ step > 6 => got.top = got.bottom
      /\ taken.top = taken.bottom
    BY DEF RuntimeInv
<1>3. \/ s' = s
      \/ /\ s.active = s.seq % 2
         /\ s'.seq = s.seq /\ s'.active = s.active /\ s'.stamp = s.stamp
         /\ \A h \in Halves : s'.buffer[s.active][h] = s.buffer[s.active][h]
      \/ /\ s.active = s.seq % 2
         /\ s'.seq = s.seq /\ s'.active # s.seq % 2 /\ s'.buffer = s.buffer
      \/ /\ s.active # s.seq % 2
         /\ s'.seq = s.seq /\ s'.active = s.active /\ s'.buffer = s.buffer
      \/ s'.seq = s.seq + 1
    BY <1>1, UnbrokenChannel
<1>4. CASE s' = s
    BY <1>1, <1>2, <1>4 DEF RuntimeInv
<1>5. CASE /\ s.active = s.seq % 2
           /\ s'.seq = s.seq /\ s'.active = s.active
           /\ \A h \in Halves : s'.buffer[s.active][h] = s.buffer[s.active][h]
    <2>1. step > 2 /\ s.seq = got.seq => /\ got.active = s.active
                                         /\ s'.buffer[got.active]["top"] = s.buffer[got.active]["top"]
                                         /\ s'.buffer[got.active]["bottom"] = s.buffer[got.active]["bottom"]
        BY <1>2, <1>5, Names
    <2> HIDE DEF s
    <2>2. /\ step > 1 => got.seq <= s'.seq
          /\ step > 2 /\ s'.seq = got.seq => got.active \in {s'.seq % 2, s'.active}
          /\ step > 4 /\ s'.seq = got.seq => got.top = s'.buffer[got.active]["top"]
          /\ step > 5 /\ s'.seq = got.seq => got.bottom = s'.buffer[got.active]["bottom"]
        BY <1>1, <1>2, <1>5, <2>1
    <2> QED BY <1>1, <1>2, <2>2 DEF RuntimeInv, s
<1>6. CASE s'.seq = s.seq /\ s'.buffer = s.buffer /\ (s'.active = s.active \/ s.active = s.seq % 2)
    <2> HIDE DEF s
    <2>1. /\ step > 1 => got.seq <= s'.seq
          /\ step > 2 /\ s'.seq = got.seq => got.active \in {s'.seq % 2, s'.active}
          /\ step > 4 /\ s'.seq = got.seq => got.top = s'.buffer[got.active]["top"]
          /\ step > 5 /\ s'.seq = got.seq => got.bottom = s'.buffer[got.active]["bottom"]
        BY <1>2, <1>6
    <2> QED BY <1>1, <1>2, <2>1 DEF RuntimeInv, s
<1>7. CASE s'.seq = s.seq + 1
    <2>1. step > 1 => got.seq <= s'.seq /\ s'.seq # got.seq
        BY <1>1, <1>2, <1>7
    <2> QED BY <1>1, <1>2, <2>1 DEF RuntimeInv
<1> QED BY <1>3, <1>4, <1>5, <1>6, <1>7

LEMMA ReadKeepsRuntime ==
    ASSUME FramesTypeOK, BridgeFacts, reader = "runtime", RuntimeInv, ReaderStep, UNCHANGED bridgeVars
    PROVE  RuntimeInv'
<1> DEFINE s == shm["color"]
<1>1. /\ step \in 1..9 /\ shm' = shm /\ "color" \in Channels /\ ChannelInv("color")
      /\ s.seq \in Nat /\ got.seq \in Nat /\ got.active \in 0..1
    BY ChannelTyped, GotTyped, Names DEF FramesTypeOK, bridgeVars, BridgeFacts
<1>2. /\ step > 1 => got.seq <= s.seq
      /\ step > 2 /\ s.seq = got.seq => got.active \in {s.seq % 2, s.active}
      /\ step > 4 => got.seq # 0
      /\ step > 4 /\ s.seq = got.seq => got.top = s.buffer[got.active]["top"]
      /\ step > 5 /\ s.seq = got.seq => got.bottom = s.buffer[got.active]["bottom"]
      /\ step > 6 => got.top = got.bottom
      /\ taken.top = taken.bottom
    BY DEF RuntimeInv
<1>3. CASE Read
    <2>1. /\ step \in 1..6 /\ step' = step + 1 /\ taken' = taken
          /\ step = 1 => got'.seq = s.seq
          /\ step > 1 => got'.seq = got.seq
          /\ step = 2 => got'.active = s.active
          /\ step > 2 => got'.active = got.active
          /\ step = 4 => got.seq # 0 /\ got'.top = s.buffer[got.active].top
          /\ step = 5 => got'.top = got.top /\ got'.bottom = s.buffer[got.active].bottom
          /\ step > 5 => got' = got
          /\ step = 6 => s.seq = got.seq
        BY <1>3, RuntimeLoads
    <2>2. /\ s.buffer[s.seq % 2]["top"] = s.buffer[s.seq % 2]["bottom"]
          /\ s.buffer[s.active]["top"] = s.buffer[s.active]["bottom"]
        BY <1>1 DEF ChannelInv
    <2> HIDE DEF s
    <2>3. step' > 1 => got'.seq <= s.seq
        BY <1>1, <1>2, <2>1
    <2>4. step' > 2 /\ s.seq = got'.seq => got'.active \in {s.seq % 2, s.active}
        BY <1>1, <1>2, <2>1
    <2>5. step' > 4 => got'.seq # 0
        BY <1>1, <1>2, <2>1
    <2>6. step' > 4 /\ s.seq = got'.seq => got'.top = s.buffer[got'.active]["top"]
        <3>1. CASE step = 4
            BY <2>1, <3>1
        <3>2. CASE step = 5
            BY <1>2, <2>1, <3>2
        <3>3. CASE step = 6
            BY <1>2, <2>1, <3>3
        <3> QED BY <2>1, <3>1, <3>2, <3>3
    <2>7. step' > 5 /\ s.seq = got'.seq => got'.bottom = s.buffer[got'.active]["bottom"]
        <3>1. CASE step = 5
            BY <2>1, <3>1
        <3>2. CASE step = 6
            BY <1>2, <2>1, <3>2
        <3> QED BY <2>1, <3>1, <3>2
    <2>8. step' > 6 => got'.top = got'.bottom
        <3>1. CASE step = 6
            BY <1>2, <2>1, <2>2, <3>1
        <3> QED BY <2>1, <3>1
    <2> QED BY <1>1, <1>2, <2>1, <2>3, <2>4, <2>5, <2>6, <2>7, <2>8 DEF RuntimeInv, s
<1>4. CASE TryAgain
    BY <1>1, <1>2, <1>4, NothingTyped DEF TryAgain, StartOver, RuntimeInv
<1>5. CASE Deliver
    <2>1. step = 7 /\ step' = 1 /\ taken' = got
        BY <1>5 DEF Deliver, StartOver, Accepted, ReaderScript, RuntimeScript
    <2>2. taken'.top = taken'.bottom
        BY <1>2, <2>1
    <2> QED BY <2>1, <2>2 DEF RuntimeInv
<1> QED BY <1>3, <1>4, <1>5 DEF ReaderStep

LEMMA BridgeKeepsSampler ==
    ASSUME FramesTypeOK, BridgeFacts, BridgeStep, kills = 0, kills' = 0, UNCHANGED <<readerVars, taken>>,
           "depth" \in mapped \/ shm["depth"] = Zeroed, SamplerInv
    PROVE  SamplerInv'
<1> DEFINE s == shm["depth"]
           current(t) == step > 2 /\ t.seq = got.seq /\ t.active = got.active /\ got.active = t.seq % 2
<1>1. /\ step \in 1..9 /\ UNCHANGED <<step, got, taken>> /\ "depth" \in Channels
      /\ s.seq \in Nat /\ got.seq \in Nat /\ got.active \in 0..1
    BY ChannelTyped, GotTyped, Names DEF FramesTypeOK, readerVars
<1>2. /\ step > 2 => got.seq <= s.seq
      /\ current(s) => /\ step > 3 => got.stamp = s.stamp
                       /\ step > 4 => got.top = s.buffer[got.active]["top"]
                       /\ step > 5 => got.bottom = s.buffer[got.active]["bottom"]
      /\ step > 6 /\ s.seq = got.seq => ExactCopy(got)
      /\ step > 7 => ExactCopy(got)
      /\ ExactCopy(taken)
    BY DEF SamplerInv
<1>3. \/ s' = s
      \/ /\ s.active = s.seq % 2
         /\ s'.seq = s.seq /\ s'.active = s.active /\ s'.stamp = s.stamp
         /\ \A h \in Halves : s'.buffer[s.active][h] = s.buffer[s.active][h]
      \/ /\ s.active = s.seq % 2
         /\ s'.seq = s.seq /\ s'.active # s.seq % 2 /\ s'.buffer = s.buffer
      \/ /\ s.active # s.seq % 2
         /\ s'.seq = s.seq /\ s'.active = s.active /\ s'.buffer = s.buffer
      \/ s'.seq = s.seq + 1
    BY <1>1, UnbrokenChannel
<1>4. /\ step > 2 => got.seq <= s'.seq
      /\ current(s') => s' = s \/ /\ current(s) /\ s'.stamp = s.stamp
                                  /\ s'.buffer[got.active]["top"] = s.buffer[got.active]["top"]
                                  /\ s'.buffer[got.active]["bottom"] = s.buffer[got.active]["bottom"]
      /\ step > 6 /\ s'.seq = got.seq => s.seq = got.seq
    <2>1. CASE s' = s
        BY <1>2, <2>1
    <2>2. CASE /\ s.active = s.seq % 2
               /\ s'.seq = s.seq /\ s'.active = s.active /\ s'.stamp = s.stamp
               /\ \A h \in Halves : s'.buffer[s.active][h] = s.buffer[s.active][h]
        BY <1>2, <2>2, Names
    <2>3. CASE s'.seq = s.seq /\ s'.active # s.seq % 2
        BY <1>2, <2>3
    <2>4. CASE s'.seq = s.seq + 1
        BY <1>1, <1>2, <2>4
    <2> QED BY <1>3, <2>1, <2>2, <2>3, <2>4
<1>5. ExactCopy(got)' = ExactCopy(got) /\ ExactCopy(taken)' = ExactCopy(taken)
    BY <1>1 DEF ExactCopy
<1> QED BY <1>1, <1>2, <1>4, <1>5 DEF SamplerInv

LEMMA ReadKeepsSampler ==
    ASSUME FramesTypeOK, BridgeFacts, reader = "sampler", SamplerInv, ReaderStep, UNCHANGED bridgeVars
    PROVE  SamplerInv'
<1> DEFINE s == shm["depth"]
<1>1. /\ step \in 1..9 /\ shm' = shm /\ "depth" \in Channels /\ ChannelInv("depth")
      /\ s.seq \in Nat /\ got.seq \in Nat /\ got.active \in 0..1
    BY ChannelTyped, GotTyped, Names DEF FramesTypeOK, bridgeVars, BridgeFacts
<1>2. /\ step > 2 => got.seq <= s.seq
      /\ step > 2 /\ s.seq = got.seq /\ s.active = got.active /\ got.active = s.seq % 2 =>
            /\ step > 3 => got.stamp = s.stamp
            /\ step > 4 => got.top = s.buffer[got.active]["top"]
            /\ step > 5 => got.bottom = s.buffer[got.active]["bottom"]
      /\ step > 6 /\ s.seq = got.seq => ExactCopy(got)
      /\ step > 7 => ExactCopy(got)
      /\ ExactCopy(taken)
    BY DEF SamplerInv
<1>3. CASE Read
    <2>1. /\ step \in 1..7 /\ step' = step + 1 /\ taken' = taken
          /\ step = 2 => got'.seq = s.seq
          /\ step > 2 => got'.seq = got.seq
          /\ step > 1 => got'.active = got.active
          /\ step = 3 => got'.stamp = s.stamp
          /\ step > 3 => got'.stamp = got.stamp
          /\ step = 4 => got'.top = s.buffer[got.active].top
          /\ step = 5 => got'.top = got.top /\ got'.bottom = s.buffer[got.active].bottom
          /\ step > 5 => got' = got
          /\ step = 6 => s.active = got.active
          /\ step = 7 => s.seq = got.seq
        BY <1>3, SamplerLoads
    <2>2. s.active = s.seq % 2 => s.stamp = s.buffer[s.active]["top"] /\ s.stamp = s.buffer[s.active]["bottom"]
        BY <1>1 DEF ChannelInv
    <2>3. (ExactCopy(taken)' <=> ExactCopy(taken)) /\ (step > 5 => (ExactCopy(got)' <=> ExactCopy(got)))
        BY <2>1 DEF ExactCopy
    <2> HIDE DEF s
    <2>4. step' > 2 => got'.seq <= s.seq
        BY <1>1, <1>2, <2>1
    <2>5. step' > 2 /\ s.seq = got'.seq /\ s.active = got'.active /\ got'.active = s.seq % 2 =>
             /\ step' > 3 => got'.stamp = s.stamp
             /\ step' > 4 => got'.top = s.buffer[got'.active]["top"]
             /\ step' > 5 => got'.bottom = s.buffer[got'.active]["bottom"]
        <3>1. CASE step < 3
            BY <2>1, <3>1
        <3>2. CASE step = 3
            BY <2>1, <3>2
        <3>3. CASE step = 4
            BY <1>2, <2>1, <3>3
        <3>4. CASE step = 5
            BY <1>2, <2>1, <3>4
        <3>5. CASE step > 5
            BY <1>2, <2>1, <3>5
        <3> QED BY <2>1, <3>1, <3>2, <3>3, <3>4, <3>5
    <2>6. step = 6 /\ s.seq = got.seq => ExactCopy(got)
        BY <1>2, <2>1, <2>2 DEF ExactCopy
    <2>7. step' > 6 /\ s.seq = got'.seq => ExactCopy(got)'
        <3>1. CASE step = 6
            BY <2>1, <2>3, <2>6, <3>1
        <3>2. CASE step = 7
            BY <1>2, <2>1, <2>3, <3>2
        <3> QED BY <2>1, <3>1, <3>2
    <2>8. step' > 7 => ExactCopy(got)'
        <3>1. CASE step = 7
            BY <1>2, <2>1, <2>3, <3>1
        <3> QED BY <2>1, <3>1
    <2> QED BY <1>1, <1>2, <2>3, <2>4, <2>5, <2>7, <2>8 DEF SamplerInv, s
<1>4. CASE TryAgain
    <2>1. step' = 1 /\ taken' = taken
        BY <1>4 DEF TryAgain, StartOver
    <2>2. ExactCopy(taken)'
        BY <1>2, <2>1 DEF ExactCopy
    <2> QED BY <2>1, <2>2 DEF SamplerInv
<1>5. CASE Deliver
    <2>1. step = 8 /\ step' = 1 /\ taken' = got
        BY <1>5 DEF Deliver, StartOver, Accepted, ReaderScript, SamplerScript
    <2>2. ExactCopy(taken)'
        BY <1>2, <2>1 DEF ExactCopy
    <2> QED BY <2>1, <2>2 DEF SamplerInv
<1> QED BY <1>3, <1>4, <1>5 DEF ReaderStep

LEMMA ReadersKept ==
    ASSUME TransportTypeOK, BridgeFacts, RInv, [TransportNext]_AllVars
    PROVE  RInv'
<1> SUFFICES ASSUME reader # "cache", reader' = reader PROVE RInv'
    <2>1. reader' = reader
        BY DEF TransportNext, AllVars
    <2> QED BY <2>1 DEF RInv
<1>1. /\ FramesTypeOK /\ reader \in {"runtime", "sampler"}
      /\ kills = 0
      /\ \A c \in Channels \ mapped : shm[c] = Zeroed
      /\ stage = "peek" /\ cache = <<>> /\ givenUp = {} /\ held = NoImage
      /\ reader = "runtime" => RuntimeInv
      /\ reader = "sampler" => SamplerInv
    BY DEF RInv, TransportTypeOK, CacheTypeOK, Readers
<1>2. CASE Bridge /\ kills' = 0 /\ UNCHANGED taken /\ UNCHANGED <<cacheVars, historyVars>>
    <2>1. BridgeStep /\ UNCHANGED readerVars /\ UNCHANGED <<stage, cache, givenUp, held>>
        BY <1>2 DEF Bridge, BridgeStep, cacheVars, historyVars
    <2>2. ASSUME NEW c \in Channels PROVE c \in mapped' \/ shm'[c] = Zeroed
        BY <1>1, <1>2, <2>1, UnbrokenChannel
    <2>3. reader = "runtime" => RuntimeInv'
        BY <1>1, <1>2, <2>1, BridgeKeepsRuntime, Names
    <2>4. reader = "sampler" => SamplerInv'
        BY <1>1, <1>2, <2>1, BridgeKeepsSampler, Names
    <2> QED BY <1>1, <1>2, <2>1, <2>2, <2>3, <2>4 DEF RInv
<1>3. CASE ReaderStep /\ UNCHANGED bridgeVars /\ UNCHANGED <<cacheVars, historyVars>>
    <2>1. /\ UNCHANGED <<shm, mapped, kills, stage, cache, givenUp, held>>
          /\ reader = "runtime" => RuntimeInv'
          /\ reader = "sampler" => SamplerInv'
        BY <1>1, <1>3, ReadKeepsRuntime, ReadKeepsSampler DEF bridgeVars, cacheVars, historyVars
    <2> QED BY <1>1, <2>1 DEF RInv
<1>4. CASE UNCHANGED AllVars
    BY <1>1, <1>4 DEF AllVars, bridgeVars, readerVars, cacheVars, historyVars, RInv, RuntimeInv, SamplerInv, ExactCopy
<1> QED BY <1>2, <1>3, <1>4 DEF TransportNext

LEMMA InitFramesInv == TransportInit => FramesInv
<1> SUFFICES ASSUME TransportInit PROVE FramesInv
    OBVIOUS
<1>1. /\ shm = [c \in Channels |-> Zeroed] /\ mapped = {} /\ shot = 0 /\ todo = <<>> /\ at = 1
      /\ kills = 0 /\ step = 1 /\ got = Nothing
      /\ stage = "peek" /\ peeked = 0 /\ held = NoImage /\ cache = <<>> /\ lastCached = 0
      /\ wanted = 0 /\ givenUp = {} /\ inserted = 0 /\ overtaken = FALSE
      /\ reader \in {"cache"} \cup Readers /\ taken = Nothing
    BY DEF TransportInit, CacheInit, FramesInit
<1>2. /\ Zeroed.seq = 0 /\ Zeroed.active = 0 /\ Zeroed.stamp = 0
      /\ Zeroed.buffer[0]["top"] = 0 /\ Zeroed.buffer[0]["bottom"] = 0
      /\ Zeroed \in [seq: Nat, active: 0..1, stamp: Nat, buffer: [0..1 -> [Halves -> Nat]]]
    BY Names DEF Zeroed
<1>3. FramesTypeOK
    BY <1>1, <1>2, NothingTyped, FramesAssumption DEF FramesTypeOK, FramesAssumption
<1>4. TransportTypeOK
    <2>1. NoImage \in Images /\ cache \in Seq(Pairs) /\ Len(cache) <= CacheFrames
        BY <1>1, CacheAssumption DEF NoImage, Images, CacheAssumption
    <2>2. /\ wanted \in 0..shot /\ givenUp \subseteq 1..LastFrame /\ overtaken \in BOOLEAN
          /\ stage \in {"peek", "compare"} \cup Channels
        <3>1. wanted = 0 /\ shot = 0 /\ givenUp = {} /\ overtaken = FALSE /\ stage = "peek"
            BY <1>1
        <3>2. wanted \in 0..shot
            BY <3>1
        <3>3. givenUp \subseteq 1..LastFrame /\ overtaken \in BOOLEAN /\ stage \in {"peek", "compare"} \cup Channels
            BY <3>1, Zenon
        <3> QED BY <3>2, <3>3
    <2>3. peeked \in Nat /\ lastCached \in Nat /\ inserted \in Nat /\ held \in Images
        BY <1>1, <2>1
    <2> QED BY <1>1, <1>3, <2>1, <2>2, <2>3, NothingTyped DEF TransportTypeOK, CacheTypeOK
<1>5. BridgeFacts
    <2>1. ASSUME NEW c \in Channels PROVE ChannelInv(c)
        BY <1>1, <1>2 DEF ChannelInv, Pending, InTodo, Storing
    <2> QED BY <1>1, <2>1 DEF BridgeFacts, BridgeInv
<1>6. CacheFacts
    <2>1. \A c \in Channels : CopyInv(c)
        BY <1>1, Names DEF CopyInv
    <2> QED BY <1>1, <2>1 DEF CacheFacts, StageInv, HeldInv, CacheInv, GiveUpInv
<1>7. RInv
    <2>1. RuntimeInv
        BY <1>1, NothingTyped DEF RuntimeInv
    <2>2. SamplerInv
        BY <1>1, NothingTyped DEF SamplerInv, ExactCopy
    <2> QED BY <1>1, <2>1, <2>2 DEF RInv
<1> QED BY <1>4, <1>5, <1>6, <1>7 DEF FramesInv

LEMMA FramesInvKept == FramesInv /\ [TransportNext]_AllVars => FramesInv'
<1> SUFFICES ASSUME FramesInv, [TransportNext]_AllVars PROVE FramesInv'
    OBVIOUS
<1>1. /\ TransportTypeOK /\ CacheTypeOK /\ FramesTypeOK /\ BridgeFacts /\ BridgeInv /\ RInv
      /\ \A c \in Channels : ChannelInv(c)
    BY DEF FramesInv, TransportTypeOK, CacheTypeOK, BridgeFacts
<1>2. TransportTypeOK' /\ FramesTypeOK'
    BY <1>1, TypesKept DEF TransportTypeOK, CacheTypeOK
<1>3. RInv'
    BY <1>1, ReadersKept
<1>4. BridgeFacts'
    <2>1. CASE BridgeStep
        BY <1>1, <2>1, BridgeKeepsChannels DEF BridgeFacts
    <2>2. CASE UNCHANGED bridgeVars
        BY <1>1, <2>2 DEF bridgeVars, BridgeFacts, BridgeInv, ChannelInv, Pending, InTodo, Storing, Spare
    <2> QED BY <2>1, <2>2 DEF TransportNext, CacheNext, CacheStep, Bridge, BridgeStep, AllVars
<1>5. ASSUME reader' = "cache" PROVE CacheFacts'
    <2>1. reader = "cache" /\ CacheFacts
        BY <1>5 DEF FramesInv, TransportNext, AllVars
    <2>2. CASE Bridge /\ UNCHANGED <<cacheVars, givenUp>> /\ overtaken' = (overtaken \/ (step > 1 /\ shot' # shot))
        BY <1>1, <2>1, <2>2, BridgeKeepsCache DEF Bridge, BridgeStep
    <2>3. CASE CacheStep
        BY <1>1, <1>2, <1>4, <2>1, <2>3, CacheStepKeeps
    <2>4. CASE GetExact /\ UNCHANGED <<bridgeVars, readerVars, cacheVars, inserted, overtaken>>
        BY <1>1, <2>1, <2>4, AskingKeepsCache
    <2>5. CASE UNCHANGED AllVars
        BY <2>1, <2>5 DEF AllVars, bridgeVars, readerVars, cacheVars, historyVars, CacheFacts, StageInv, CopyInv,
                          HeldInv, CacheInv, GiveUpInv, Floor, Stamps, Seen, Same, Pending, InTodo, Storing, Exact
    <2> QED BY <2>1, <2>2, <2>3, <2>4, <2>5 DEF TransportNext, CacheNext
<1> QED BY <1>2, <1>3, <1>4, <1>5 DEF FramesInv

LEMMA FramesInvHolds == TransportSpec => []FramesInv
BY InitFramesInv, FramesInvKept, PTL DEF TransportSpec

-----------------------------------------------------------------------------
\* Types of the bridge, the cache and the readers, for any number of FrameSets,
\* restarts and cached pairs.
THEOREM TransportTyped == TransportSpec => []TransportTypeOK
<1>1. FramesInv => TransportTypeOK
    BY DEF FramesInv
<1> QED BY <1>1, FramesInvHolds, PTL

\* A pair copied before the next FrameSet came is one FrameSet, in both images
\* and in its stamp (rgbd_cache.py read_latest and _insert).
THEOREM PromptPairs == TransportSpec => []PromptPairIsOneFrameSet
<1>1. FramesInv => PromptPairIsOneFrameSet
    <2> SUFFICES ASSUME FramesInv, NEW i \in DOMAIN cache, ~cache[i].overtaken, cache[i].stamp # 0
                 PROVE  Parts(cache[i]) = {cache[i].stamp}
        BY DEF PromptPairIsOneFrameSet
    <2>1. CacheInv
        BY DEF FramesInv, CacheFacts, RInv, CacheInv
    <2> QED BY <2>1 DEF CacheInv, Exact, Parts
<1> QED BY <1>1, FramesInvHolds, PTL

\* Neither the cache nor the Runtime goes on with an image mixed from two
\* FrameSets (rgbd_cache.py read_latest, read_shared_memory_frame).
THEOREM WholeImages == TransportSpec => []ImagesAreWhole
<1>1. FramesInv => ImagesAreWhole
    <2> SUFFICES ASSUME FramesInv PROVE CachedImagesAreWhole /\ ImageIsWhole
        BY DEF ImagesAreWhole
    <2>1. CacheInv
        BY DEF FramesInv, CacheFacts, RInv, CacheInv
    <2>2. ImageIsWhole
        BY DEF FramesInv, RInv, RuntimeInv, ImageIsWhole
    <2> QED BY <2>1, <2>2 DEF CacheInv, Exact, CachedImagesAreWhole
<1> QED BY <1>1, FramesInvHolds, PTL

\* A capture time get_exact gave up early is never cached afterwards.
THEOREM GiveUpsStand == TransportSpec => []GiveUpIsFinal
<1>1. FramesInv => GiveUpIsFinal
    BY DEF FramesInv, CacheFacts, RInv, GiveUpInv, GiveUpIsFinal
<1> QED BY <1>1, FramesInvHolds, PTL

\* A depth snapshot of the published buffer is one image and carries its time
\* (carton bundle local_ipc.py _decode_header and the copy between).
THEOREM SnapshotsPublished == TransportSpec => []SnapshotOfPublished
<1>1. FramesInv => SnapshotOfPublished
    BY DEF FramesInv, RInv, SamplerInv, ExactCopy, SnapshotOfPublished
<1> QED BY <1>1, FramesInvHolds, PTL

-----------------------------------------------------------------------------
(* The choice of the placement's boxes                                         *)
(*                                                                             *)
(* The sorted sequences are characterised first (Sorted), then the cut         *)
(* (CutAtFirstGap); what is chosen follows from those two.                     *)

\* R orders the elements of S totally.
Orders(R, S) ==
    /\ \A i \in S : <<i, i>> \notin R
    /\ \A i, j \in S : i # j => <<i, j>> \in R \/ <<j, i>> \in R
    /\ \A i, j, k \in S : <<i, j>> \in R /\ <<j, k>> \in R => <<i, k>> \in R

\* The element of rank k stands at place k: ranks are different, so that as many
\* of them as there are elements leave no place empty.
LEMMA Sorted ==
    ASSUME NEW S, IsFiniteSet(S), NEW R, Orders(R, S)
    PROVE  LET s == InOrder(S, R)
           IN  /\ s \in Seq(S) /\ Len(s) = Cardinality(S) /\ Range(s) = S
               /\ \A k, l \in 1..Len(s) : k < l => <<s[k], s[l]>> \in R
               /\ \A k, l \in 1..Len(s) : s[k] = s[l] => k = l
<1> DEFINE n == Cardinality(S)
           rank == [i \in S |-> Cardinality(Before(S, R, i)) + 1]
<1>1. n \in Nat
    BY FS_CardinalityType
<1>2. ASSUME NEW i \in S
      PROVE  IsFiniteSet(Before(S, R, i)) /\ Cardinality(Before(S, R, i)) \in 0..(n - 1)
    <2>1. Before(S, R, i) \subseteq S \ {i}
        BY DEF Before, Orders
    <2>2. IsFiniteSet(S \ {i}) /\ Cardinality(S \ {i}) = n - 1
        BY FS_RemoveElement
    <2>3. IsFiniteSet(Before(S, R, i)) /\ Cardinality(Before(S, R, i)) <= n - 1
        BY <2>1, <2>2, FS_Subset
    <2>4. Cardinality(Before(S, R, i)) \in Nat
        BY <2>3, FS_CardinalityType
    <2> QED BY <1>1, <2>3, <2>4
<1>3. rank \in [S -> 1..n]
    BY <1>1, <1>2
<1>4. ASSUME NEW i \in S, NEW j \in S, <<i, j>> \in R
      PROVE  rank[i] < rank[j]
    <2>1. Before(S, R, i) \cup {i} \subseteq Before(S, R, j)
        BY <1>4 DEF Before, Orders
    <2>2. i \notin Before(S, R, i)
        BY DEF Before, Orders
    <2>3. /\ IsFiniteSet(Before(S, R, i) \cup {i})
          /\ Cardinality(Before(S, R, i) \cup {i}) = Cardinality(Before(S, R, i)) + 1
        BY <1>2, <2>2, FS_AddElement
    <2>4. Cardinality(Before(S, R, i) \cup {i}) <= Cardinality(Before(S, R, j))
        BY <1>2, <2>1, FS_Subset
    <2> QED BY <1>2, <2>3, <2>4
<1>5. \A i, j \in S : rank[i] = rank[j] => i = j
    <2> SUFFICES ASSUME NEW i \in S, NEW j \in S, rank[i] = rank[j], i # j PROVE FALSE
        OBVIOUS
    <2>1. rank[i] < rank[j] \/ rank[j] < rank[i]
        BY <1>4 DEF Orders
    <2>2. rank[i] \in 1..n /\ rank[j] \in 1..n
        BY <1>3
    <2> HIDE DEF rank
    <2> QED BY <2>1, <2>2
<1>6. \A k \in 1..n : \E i \in S : rank[i] = k
    <2> HIDE DEF rank
    <2>1. rank \in Injection(S, 1..n)
        BY <1>3, <1>5 DEF Injection, IsInjective
    <2>2. IsFiniteSet(1..n) /\ Cardinality(1..n) = n
        BY <1>1, FS_Interval
    <2>3. rank \in Surjection(S, 1..n)
        BY <2>1, <2>2, FS_Injection
    <2> QED BY <2>3 DEF Surjection
<1> DEFINE s == InOrder(S, R)
<1>7. DOMAIN s = 1..n
    BY DEF InOrder
<1>8. ASSUME NEW k \in 1..n PROVE s[k] \in S /\ rank[s[k]] = k
    <2>1. PICK i \in S : rank[i] = k
        BY <1>6
    <2>2. Cardinality(Before(S, R, i)) = k - 1
        BY <1>2, <2>1
    <2>3. s[k] = CHOOSE j \in S : Cardinality(Before(S, R, j)) = k - 1
        BY DEF InOrder
    <2>4. s[k] \in S /\ Cardinality(Before(S, R, s[k])) = k - 1
        BY <2>2, <2>3
    <2> QED BY <1>2, <2>4
<1> HIDE DEF s, rank
<1>9. s \in [1..n -> S]
    <2>1. s = [k \in 1..n |-> s[k]]
        BY <1>7 DEF s, InOrder
    <2> QED BY <1>8, <2>1
<1>10. s \in Seq(S) /\ Len(s) = n
    BY <1>1, <1>9, SeqDef, LenProperties
<1>11. Range(s) = S
    <2>1. Range(s) \subseteq S
        BY <1>7, <1>8 DEF Range
    <2>2. ASSUME NEW i \in S PROVE i \in Range(s)
        <3>1. rank[i] \in 1..n
            BY <1>3
        <3>2. s[rank[i]] = i
            BY <1>5, <1>8, <3>1
        <3> QED BY <1>7, <3>1, <3>2 DEF Range
    <2> QED BY <2>1, <2>2
<1>12. ASSUME NEW k \in 1..n, NEW l \in 1..n, k < l PROVE <<s[k], s[l]>> \in R
    <2>1. s[k] \in S /\ s[l] \in S /\ rank[s[k]] = k /\ rank[s[l]] = l
        BY <1>8
    <2>2. s[k] # s[l]
        BY <1>12, <2>1
    <2>3. CASE <<s[l], s[k]>> \in R
        <3>1. rank[s[l]] < rank[s[k]]
            BY <1>4, <2>1, <2>3
        <3> QED BY <1>1, <1>12, <2>1, <3>1
    <2> QED BY <2>1, <2>2, <2>3 DEF Orders
<1>13. \A k, l \in 1..n : s[k] = s[l] => k = l
    BY <1>8
<1> QED BY <1>10, <1>11, <1>12, <1>13 DEF s

-----------------------------------------------------------------------------
(* The orders the selection sorts by.                                          *)

\* What the detections are, as numbers.
LEMMA Measured ==
    ASSUME NEW boxes \in Seq(Boxes)
    PROVE  \A i \in DOMAIN boxes : /\ i \in Nat /\ boxes[i].depth \in Nat /\ boxes[i].score \in Nat
                                   /\ boxes[i].at \in Nat /\ boxes[i].overlap \in Nat
<1>1. DOMAIN boxes = 1..Len(boxes) /\ Len(boxes) \in Nat /\ \A i \in DOMAIN boxes : boxes[i] \in Boxes
    BY LenProperties
<1>2. ASSUME NEW b \in Boxes PROVE b.depth \in Nat /\ b.score \in Nat /\ b.at \in Nat /\ b.overlap \in Nat
    BY DEF Boxes
<1> QED BY <1>1, <1>2

LEMMA BoxesFinite ==
    ASSUME NEW boxes \in Seq(Boxes), NEW S \in SUBSET DOMAIN boxes
    PROVE  IsFiniteSet(S)
<1>1. DOMAIN boxes = 1..Len(boxes) /\ Len(boxes) \in Nat
    BY LenProperties
<1>2. IsFiniteSet(1..Len(boxes))
    BY <1>1, FS_Interval
<1>3. S \subseteq 1..Len(boxes)
    BY <1>1
<1> QED BY <1>2, <1>3, FS_Subset

LEMMA NearerOrders ==
    ASSUME NEW boxes \in Seq(Boxes), NEW S \in SUBSET DOMAIN boxes
    PROVE  Orders({p \in S \X S : Nearer(boxes, p[1], p[2])}, S)
<1>1. \A i \in S : i \in Nat /\ boxes[i].depth \in Nat /\ boxes[i].score \in Nat
    BY Measured
<1>2. \A i \in S : ~Nearer(boxes, i, i)
    BY <1>1 DEF Nearer
<1>3. \A i, j \in S : i # j => Nearer(boxes, i, j) \/ Nearer(boxes, j, i)
    BY <1>1 DEF Nearer
<1>4. \A i, j, k \in S : Nearer(boxes, i, j) /\ Nearer(boxes, j, k) => Nearer(boxes, i, k)
    BY <1>1 DEF Nearer
<1> QED BY <1>2, <1>3, <1>4 DEF Orders

LEMMA StrongerOrders ==
    ASSUME NEW boxes \in Seq(Boxes), NEW S \in SUBSET DOMAIN boxes
    PROVE  Orders({p \in S \X S : Stronger(boxes, p[1], p[2])}, S)
<1>1. \A i \in S : i \in Nat /\ boxes[i].depth \in Nat /\ boxes[i].score \in Nat
    BY Measured
<1>2. \A i \in S : ~Stronger(boxes, i, i)
    BY <1>1 DEF Stronger, Nearer
<1>3. \A i, j \in S : i # j => Stronger(boxes, i, j) \/ Stronger(boxes, j, i)
    BY <1>1 DEF Stronger, Nearer
<1>4. \A i, j, k \in S : Stronger(boxes, i, j) /\ Stronger(boxes, j, k) => Stronger(boxes, i, k)
    BY <1>1 DEF Stronger, Nearer
<1> QED BY <1>2, <1>3, <1>4 DEF Orders

LEMMA KnownNearerOrders ==
    ASSUME NEW boxes \in Seq(Boxes), NEW S \in SUBSET DOMAIN boxes
    PROVE  Orders({p \in S \X S : KnownNearer(boxes, p[1], p[2])}, S)
<1>1. \A i \in S : i \in Nat /\ boxes[i].depth \in Nat /\ boxes[i].score \in Nat
    BY Measured
<1>2. \A i \in S : ~KnownNearer(boxes, i, i)
    BY <1>1 DEF KnownNearer, Nearer
<1>3. \A i, j \in S : i # j => KnownNearer(boxes, i, j) \/ KnownNearer(boxes, j, i)
    BY <1>1 DEF KnownNearer, Nearer
<1>4. \A i, j, k \in S : KnownNearer(boxes, i, j) /\ KnownNearer(boxes, j, k) => KnownNearer(boxes, i, k)
    BY <1>1 DEF KnownNearer, Nearer
<1> QED BY <1>2, <1>3, <1>4 DEF Orders

LEMMA StrongerOutsideOrders ==
    ASSUME NEW boxes \in Seq(Boxes), NEW S \in SUBSET DOMAIN boxes
    PROVE  Orders({p \in S \X S : StrongerOutside(boxes, p[1], p[2])}, S)
<1>1. \A i \in S : i \in Nat /\ boxes[i].overlap \in Nat /\ boxes[i].score \in Nat
    BY Measured
<1>2. \A i \in S : ~StrongerOutside(boxes, i, i)
    BY <1>1 DEF StrongerOutside
<1>3. \A i, j \in S : i # j => StrongerOutside(boxes, i, j) \/ StrongerOutside(boxes, j, i)
    BY <1>1 DEF StrongerOutside
<1>4. \A i, j, k \in S : StrongerOutside(boxes, i, j) /\ StrongerOutside(boxes, j, k) => StrongerOutside(boxes, i, k)
    BY <1>1 DEF StrongerOutside
<1> QED BY <1>2, <1>3, <1>4 DEF Orders

\* The first of those sorted comes before all others.
LEMMA FirstOfSorted ==
    ASSUME NEW S, IsFiniteSet(S), S # {}, NEW R, Orders(R, S)
    PROVE  /\ InOrder(S, R)[1] \in S
           /\ \A i \in S \ {InOrder(S, R)[1]} : <<InOrder(S, R)[1], i>> \in R
<1> DEFINE s == InOrder(S, R)
<1>1. /\ s \in Seq(S) /\ Len(s) = Cardinality(S) /\ Range(s) = S
      /\ \A k, l \in 1..Len(s) : k < l => <<s[k], s[l]>> \in R
    BY Sorted
<1> HIDE DEF s
<1>2. DOMAIN s = 1..Len(s) /\ Len(s) \in Nat
    BY <1>1, LenProperties
<1>3. Len(s) # 0
    BY <1>1, FS_EmptySet
<1>4. 1 \in 1..Len(s) /\ s[1] \in S
    BY <1>1, <1>2, <1>3
<1>5. ASSUME NEW i \in S \ {s[1]} PROVE <<s[1], i>> \in R
    <2>1. PICK k \in 1..Len(s) : s[k] = i
        BY <1>1, <1>2 DEF Range
    <2>2. 1 < k
        BY <1>2, <1>5, <2>1
    <2> QED BY <1>1, <1>4, <2>1, <2>2
<1> QED BY <1>4, <1>5 DEF s

-----------------------------------------------------------------------------
(* The top layer.                                                              *)

\* Cutting sorted depths before the first that is too far from the one before or
\* from the nearest leaves those that are reached from the nearest without a
\* gap, and no others.
LEMMA CutAtFirstGap ==
    ASSUME NEW n \in Nat, NEW d \in [1..n -> Nat], \A k, l \in 1..n : k <= l => d[k] <= d[l],
           NEW gap \in Nat, NEW span \in Nat, NEW last \in 0..n,
           \A k \in 2..last : d[k] - d[k - 1] <= gap /\ d[k] - d[1] <= span,
           last < n => last # 0 /\ (d[last + 1] - d[last] > gap \/ d[last + 1] - d[1] > span),
           NEW k \in 1..n
    PROVE  k <= last <=> /\ \A l \in 1..n : d[k] <= d[l] + span
                         /\ \A l \in 1..n : d[l] < d[k] => \E m \in 1..n : d[l] < d[m] /\ d[m] <= d[l] + gap
<1>1. ASSUME k <= last, NEW l \in 1..n PROVE d[k] <= d[l] + span
    <2>1. 1 \in 1..n /\ d[1] <= d[l] /\ d[1] \in Nat /\ d[l] \in Nat /\ d[k] \in Nat
        OBVIOUS
    <2>2. CASE k = 1
        BY <2>1, <2>2
    <2>3. CASE k \in 2..last
        <3>1. d[k] - d[1] <= span
            BY <2>3
        <3> QED BY <2>1, <3>1
    <2> QED BY <1>1, <2>2, <2>3
<1>2. ASSUME k <= last, NEW l \in 1..n, d[l] < d[k]
      PROVE  \E m \in 1..n : d[l] < d[m] /\ d[m] <= d[l] + gap
    <2> DEFINE Above == {m \in 1..n : d[l] < d[m]}
    <2>1. Above \in SUBSET Nat /\ k \in Above
        BY <1>2
    <2>2. PICK m \in Above : \A o \in Above : m <= o
        BY <2>1, LeastOf
    <2>3. m \in 1..n /\ m <= k /\ d[l] < d[m]
        BY <2>1, <2>2
    <2>4. m # 1
        <3>1. d[1] <= d[l] /\ d[1] \in Nat /\ d[l] \in Nat
            OBVIOUS
        <3> QED BY <2>3, <3>1
    <2>5. m - 1 \in 1..n /\ m \in 2..last
        BY <1>2, <2>3, <2>4
    <2>6. m - 1 \notin Above
        BY <2>2, <2>3
    <2>7. d[m - 1] <= d[l]
        BY <2>5, <2>6
    <2>8. d[m] - d[m - 1] <= gap
        BY <2>5
    <2>9. d[m] \in Nat /\ d[m - 1] \in Nat /\ d[l] \in Nat
        BY <2>3, <2>5
    <2>10. d[m] <= d[l] + gap
        BY <2>7, <2>8, <2>9
    <2> QED BY <2>3, <2>10
<1>3. ASSUME ~(k <= last),
             \A l \in 1..n : d[k] <= d[l] + span,
             \A l \in 1..n : d[l] < d[k] => \E m \in 1..n : d[l] < d[m] /\ d[m] <= d[l] + gap
      PROVE  FALSE
    <2>1. last < n /\ last + 1 \in 1..n /\ last \in 1..n /\ 1 \in 1..n /\ last + 1 <= k
        BY <1>3
    <2>2. d[last + 1] <= d[k] /\ d[last + 1] \in Nat /\ d[last] \in Nat /\ d[1] \in Nat /\ d[k] \in Nat
        BY <2>1
    <2>3. d[k] <= d[1] + span
        BY <1>3, <2>1
    <2>4. d[last + 1] - d[last] > gap
        BY <2>1, <2>2, <2>3
    <2>5. d[last] < d[k]
        BY <2>2, <2>4
    <2>6. PICK m \in 1..n : d[last] < d[m] /\ d[m] <= d[last] + gap
        BY <1>3, <2>1, <2>5
    <2>7. d[m] \in Nat /\ d[m] < d[last + 1]
        BY <2>2, <2>4, <2>6
    <2>8. CASE m <= last
        <3>1. d[m] <= d[last]
            BY <2>1, <2>8
        <3> QED BY <2>2, <2>6, <2>7, <3>1
    <2>9. CASE last + 1 <= m
        <3>1. d[last + 1] <= d[m]
            BY <2>1, <2>9
        <3> QED BY <2>2, <2>7, <3>1
    <2> QED BY <2>8, <2>9
<1> QED BY <1>1, <1>2, <1>3

\* The boxes by depth: all those with a valid depth, each once, the nearest first.
LEMMA SortedByDepth ==
    ASSUME NEW boxes \in Seq(Boxes), NEW among \in SUBSET DOMAIN boxes
    PROVE  LET order == ByDepth(boxes, among)
               valid == Valid(boxes, among)
           IN  /\ order \in Seq(valid) /\ Len(order) = Cardinality(valid) /\ Range(order) = valid
               /\ \A k, l \in 1..Len(order) : k < l => Nearer(boxes, order[k], order[l])
               /\ \A k, l \in 1..Len(order) : k <= l => boxes[order[k]].depth <= boxes[order[l]].depth
               /\ \A k, l \in 1..Len(order) : order[k] = order[l] => k = l
<1> DEFINE valid == Valid(boxes, among)
           R == {p \in valid \X valid : Nearer(boxes, p[1], p[2])}
           order == InOrder(valid, R)
<1>1. valid \in SUBSET DOMAIN boxes
    BY DEF Valid
<1>2. IsFiniteSet(valid) /\ Orders(R, valid)
    BY <1>1, BoxesFinite, NearerOrders
<1>3. ByDepth(boxes, among) = order
    BY DEF ByDepth
<1>4. \A i, j \in valid : <<i, j>> \in R => Nearer(boxes, i, j)
    OBVIOUS
<1> HIDE DEF valid, R
<1>5. /\ order \in Seq(valid) /\ Len(order) = Cardinality(valid) /\ Range(order) = valid
      /\ \A k, l \in 1..Len(order) : k < l => <<order[k], order[l]>> \in R
      /\ \A k, l \in 1..Len(order) : order[k] = order[l] => k = l
    BY <1>2, Sorted
<1> HIDE DEF order
<1>6. \A k \in 1..Len(order) : order[k] \in valid
    BY <1>5, ElementOfSeq
<1>7. \A k, l \in 1..Len(order) : k < l => Nearer(boxes, order[k], order[l])
    BY <1>4, <1>5, <1>6
<1>8. ASSUME NEW k \in 1..Len(order), NEW l \in 1..Len(order), k <= l
      PROVE  boxes[order[k]].depth <= boxes[order[l]].depth
    <2>1. boxes[order[k]].depth \in Nat /\ boxes[order[l]].depth \in Nat
        BY <1>1, <1>6, Measured
    <2>2. CASE k = l
        BY <2>1, <2>2
    <2>3. CASE k < l
        <3>1. Nearer(boxes, order[k], order[l])
            BY <1>7, <2>3
        <3> QED BY <2>1, <3>1 DEF Nearer
    <2>4. Len(order) \in Nat
        BY <1>5, LenProperties
    <2> QED BY <1>8, <2>2, <2>3, <2>4
<1> QED BY <1>3, <1>5, <1>7, <1>8 DEF valid

\* The cluster is cut before the first box that CutsBefore names.
LEMMA ClusterIsPrefix ==
    ASSUME NEW boxes \in Seq(Boxes), NEW among \in SUBSET DOMAIN boxes, NEW cfg
    PROVE  LET order == ByDepth(boxes, among)
               cluster == TopCluster(boxes, among, cfg)
           IN  \E last \in 0..Len(order) :
                 /\ cluster \in Seq(Valid(boxes, among)) /\ Len(cluster) = last
                 /\ \A k \in 1..last : cluster[k] = order[k]
                 /\ \A k \in 2..last : ~CutsBefore(boxes, order, k, cfg)
                 /\ last < Len(order) => last # 0 /\ CutsBefore(boxes, order, last + 1, cfg)
<1> DEFINE order == ByDepth(boxes, among)
           valid == Valid(boxes, among)
           cuts == {k \in 2..Len(order) : CutsBefore(boxes, order, k, cfg)}
           n == Len(order)
           cluster == TopCluster(boxes, among, cfg)
<1>1. order \in Seq(valid)
    BY SortedByDepth
<1>2. n \in Nat /\ \A k \in 1..n : order[k] \in valid
    BY <1>1, LenProperties, ElementOfSeq
<1>3. CASE cuts = {}
    <2>1. cluster = order
        BY <1>3 DEF TopCluster
    <2>2. \A k \in 2..n : ~CutsBefore(boxes, order, k, cfg)
        BY <1>3
    <2> HIDE DEF order, valid, cuts
    <2>3. n \in 0..n /\ ~(n < n)
        BY <1>2
    <2> QED BY <1>1, <2>1, <2>2, <2>3 DEF order, valid
<1>4. CASE cuts # {}
    <2> DEFINE first == CHOOSE k \in cuts : \A l \in cuts : k <= l
               last == first - 1
    <2>1. cluster = SubSeq(order, 1, last)
        BY <1>4 DEF TopCluster
    <2>2. cuts \in SUBSET Nat /\ \A k \in cuts : k \in 2..n /\ CutsBefore(boxes, order, k, cfg)
        BY <1>2
    <2>3. \A k \in 2..n : k \notin cuts => ~CutsBefore(boxes, order, k, cfg)
        OBVIOUS
    <2> HIDE DEF order, valid, cuts, cluster
    <2>4. first \in cuts /\ \A l \in cuts : first <= l
        <3>1. \E k \in cuts : \A l \in cuts : k <= l
            BY <1>4, <2>2, LeastOf
        <3> QED BY <3>1, Zenon
    <2> HIDE DEF first
    <2>5. first \in 2..n /\ CutsBefore(boxes, order, first, cfg)
        BY <2>2, <2>4
    <2>6. last \in 1..n /\ last < n /\ last + 1 = first /\ last \in Int
        BY <1>2, <2>5
    <2>7. ASSUME NEW k \in 2..last PROVE ~CutsBefore(boxes, order, k, cfg)
        <3>1. k \in 2..n /\ k < first /\ k \in Int /\ first \in Int
            BY <1>2, <2>5, <2>6
        <3>2. k \notin cuts
            BY <2>4, <3>1
        <3> QED BY <2>3, <3>1, <3>2
    <2> HIDE DEF last
    <2>8. \A k \in 1..last : order[k] \in valid
        BY <1>2, <2>6
    <2>9. /\ cluster \in Seq(valid) /\ Len(cluster) = last
          /\ \A k \in 1..last : cluster[k] = order[k]
        <3>1. /\ SubSeq(order, 1, last) \in Seq(valid)
              /\ Len(SubSeq(order, 1, last)) = IF 1 <= last THEN last - 1 + 1 ELSE 0
              /\ \A i \in 1..(last - 1 + 1) : SubSeq(order, 1, last)[i] = order[1 + i - 1]
            BY <2>6, <2>8, SubSeqProperties
        <3>2. last - 1 + 1 = last /\ 1 <= last /\ \A i \in 1..last : 1 + i - 1 = i
            BY <2>6
        <3> QED BY <2>1, <3>1, <3>2
    <2>10. CutsBefore(boxes, order, last + 1, cfg)
        BY <2>5, <2>6
    <2>11. last \in 0..n /\ last # 0
        BY <2>6
    <2> QED BY <2>7, <2>9, <2>10, <2>11 DEF order, valid, cluster
<1> QED BY <1>3, <1>4

\* The cluster is the top layer, each box of it once.
LEMMA ClusterIsTopLayer ==
    ASSUME NEW boxes \in Seq(Boxes), NEW among \in SUBSET DOMAIN boxes, NEW cfg,
           cfg.gap \in Nat \ {0}, cfg.span \in Nat
    PROVE  LET cluster == TopCluster(boxes, among, cfg)
           IN  /\ cluster \in Seq(Valid(boxes, among)) /\ IsInjective(cluster)
               /\ Range(cluster) = TopLayer(boxes, among, cfg)
               /\ (Len(cluster) = 0) = (Valid(boxes, among) = {})
<1> DEFINE order == ByDepth(boxes, among)
           valid == Valid(boxes, among)
           n == Len(order)
           cluster == TopCluster(boxes, among, cfg)
           d == [k \in 1..n |-> boxes[order[k]].depth]
<1>1. /\ order \in Seq(valid) /\ n = Cardinality(valid) /\ Range(order) = valid
      /\ \A k, l \in 1..n : k <= l => boxes[order[k]].depth <= boxes[order[l]].depth
      /\ \A k, l \in 1..n : order[k] = order[l] => k = l
    BY SortedByDepth
<1>2. PICK last \in 0..n :
         /\ cluster \in Seq(valid) /\ Len(cluster) = last
         /\ \A k \in 1..last : cluster[k] = order[k]
         /\ \A k \in 2..last : ~CutsBefore(boxes, order, k, cfg)
         /\ last < n => last # 0 /\ CutsBefore(boxes, order, last + 1, cfg)
    BY ClusterIsPrefix
<1>3. \A i \in valid : boxes[i].depth \in Nat
    BY Measured DEF Valid
<1>4. Span(cfg) \in Nat /\ Span(cfg) >= cfg.gap /\ cfg.gap \in Nat
    BY DEF Span
<1>5. \A i : i \in TopLayer(boxes, among, cfg) <=>
         /\ i \in valid
         /\ \A j \in valid : boxes[i].depth <= boxes[j].depth + Span(cfg)
         /\ \A j \in valid : boxes[j].depth < boxes[i].depth =>
               \E e \in valid : boxes[j].depth < boxes[e].depth /\ boxes[e].depth <= boxes[j].depth + cfg.gap
    BY Zenon DEF TopLayer, Depths
<1> HIDE DEF order, valid, cluster
<1>6. n \in Nat /\ DOMAIN order = 1..n /\ DOMAIN cluster = 1..last /\ \A k \in 1..n : order[k] \in valid
    BY <1>1, <1>2, LenProperties, ElementOfSeq
<1>7. \A i \in valid : \E k \in 1..n : order[k] = i
    BY <1>1, <1>6, Zenon DEF Range
<1>8. d \in [1..n -> Nat] /\ \A k \in 1..n : d[k] = boxes[order[k]].depth
    BY <1>3, <1>6
<1> HIDE DEF d
<1>9. \A k, l \in 1..n : k <= l => d[k] <= d[l]
    BY <1>1, <1>8
<1>10. ASSUME NEW k \in 2..last PROVE d[k] - d[k - 1] <= cfg.gap /\ d[k] - d[1] <= Span(cfg)
    <2>1. k \in 1..n /\ k - 1 \in 1..n /\ 1 \in 1..n
        BY <1>6
    <2>2. ~CutsBefore(boxes, order, k, cfg)
        BY <1>2
    <2>3. d[k] \in Nat /\ d[k - 1] \in Nat /\ d[1] \in Nat
        BY <1>8, <2>1
    <2>4. /\ ~(d[k] - d[k - 1] > cfg.gap)
          /\ ~(d[k] - d[1] > Span(cfg))
        BY <1>8, <2>1, <2>2, Zenon DEF CutsBefore
    <2> QED BY <1>4, <2>3, <2>4
<1>11. ASSUME last < n PROVE last # 0 /\ (d[last + 1] - d[last] > cfg.gap \/ d[last + 1] - d[1] > Span(cfg))
    <2>1. last # 0 /\ CutsBefore(boxes, order, last + 1, cfg)
        BY <1>2, <1>11
    <2>2. last + 1 \in 1..n /\ last \in 1..n /\ 1 \in 1..n /\ last + 1 - 1 = last
        BY <1>6, <1>11, <2>1
    <2> QED BY <1>8, <2>1, <2>2 DEF CutsBefore
<1>12. \A k \in 1..n :
          k <= last <=> /\ \A l \in 1..n : d[k] <= d[l] + Span(cfg)
                        /\ \A l \in 1..n : d[l] < d[k] => \E m \in 1..n : d[l] < d[m] /\ d[m] <= d[l] + cfg.gap
    BY <1>4, <1>6, <1>8, <1>9, <1>10, <1>11, CutAtFirstGap
<1>13. ASSUME NEW k \in 1..n
       PROVE  k <= last <=> order[k] \in TopLayer(boxes, among, cfg)
    <2>1. order[k] \in valid
        BY <1>6
    <2>2. (\A l \in 1..n : d[k] <= d[l] + Span(cfg))
             <=> \A j \in valid : boxes[order[k]].depth <= boxes[j].depth + Span(cfg)
        <3>1. \A l \in 1..n : d[k] <= d[l] + Span(cfg)
                               <=> boxes[order[k]].depth <= boxes[order[l]].depth + Span(cfg)
            BY <1>8, Zenon
        <3> QED BY <1>6, <1>7, <3>1, Zenon
    <2>3. ASSUME NEW l \in 1..n
          PROVE  (\E m \in 1..n : d[l] < d[m] /\ d[m] <= d[l] + cfg.gap)
                   <=> \E e \in valid : /\ boxes[order[l]].depth < boxes[e].depth
                                        /\ boxes[e].depth <= boxes[order[l]].depth + cfg.gap
        <3>1. \A m \in 1..n : (d[l] < d[m] /\ d[m] <= d[l] + cfg.gap)
                                <=> /\ boxes[order[l]].depth < boxes[order[m]].depth
                                    /\ boxes[order[m]].depth <= boxes[order[l]].depth + cfg.gap
            BY <1>8, Zenon
        <3> QED BY <1>6, <1>7, <3>1, Zenon
    <2>4. (\A l \in 1..n : d[l] < d[k] => \E m \in 1..n : d[l] < d[m] /\ d[m] <= d[l] + cfg.gap)
             <=> \A j \in valid : boxes[j].depth < boxes[order[k]].depth =>
                    \E e \in valid : boxes[j].depth < boxes[e].depth /\ boxes[e].depth <= boxes[j].depth + cfg.gap
        <3>1. \A l \in 1..n : d[l] < d[k] <=> boxes[order[l]].depth < boxes[order[k]].depth
            BY <1>8, Zenon
        <3> QED BY <1>6, <1>7, <2>3, <3>1, Zenon
    <2> QED BY <1>5, <1>12, <2>1, <2>2, <2>4, Zenon
<1>14. Range(cluster) = TopLayer(boxes, among, cfg)
    <2>1. ASSUME NEW i \in Range(cluster) PROVE i \in TopLayer(boxes, among, cfg)
        <3>1. PICK k \in 1..last : cluster[k] = i
            BY <1>6 DEF Range
        <3>2. k \in 1..n /\ k <= last /\ order[k] = i
            BY <1>2, <1>6, <3>1
        <3> QED BY <1>13, <3>2
    <2>2. ASSUME NEW i \in TopLayer(boxes, among, cfg) PROVE i \in Range(cluster)
        <3>1. PICK k \in 1..n : order[k] = i
            BY <1>5, <1>7
        <3>2. k <= last
            BY <1>13, <3>1
        <3>3. k \in 1..last /\ cluster[k] = i
            BY <1>2, <1>6, <3>1, <3>2
        <3> QED BY <1>6, <3>3 DEF Range
    <2> QED BY <2>1, <2>2
<1>15. IsInjective(cluster)
    <2>1. \A k, l \in 1..last : cluster[k] = cluster[l] => k = l
        BY <1>1, <1>2, <1>6
    <2> QED BY <1>6, <2>1 DEF IsInjective
<1>16. (last = 0) = (valid = {})
    <2>1. CASE last = 0
        <3>1. n = 0
            BY <1>2, <1>6, <2>1
        <3>2. \A i \in valid : FALSE
            BY <1>7, <3>1
        <3> QED BY <2>1, <3>2
    <2>2. CASE last # 0
        <3>1. 1 \in 1..n
            BY <1>6, <2>2
        <3> QED BY <1>6, <2>2, <3>1
    <2> QED BY <2>1, <2>2
<1> QED BY <1>2, <1>14, <1>15, <1>16 DEF cluster, valid

-----------------------------------------------------------------------------
(* The boxes of the answer.                                                    *)

\* An injective sequence has as many places as values.
LEMMA InjectiveLength ==
    ASSUME NEW S, NEW s \in Seq(S), IsInjective(s)
    PROVE  IsFiniteSet(Range(s)) /\ Cardinality(Range(s)) = Len(s)
<1>1. DOMAIN s = 1..Len(s) /\ Len(s) \in Nat /\ \A k \in 1..Len(s) : s[k] \in Range(s)
    BY LenProperties DEF Range
<1>2. s \in [1..Len(s) -> Range(s)]
    <2>1. s = [k \in 1..Len(s) |-> s[k]]
        BY LenProperties
    <2> QED BY <1>1, <2>1
<1>3. s \in Injection(1..Len(s), Range(s))
    BY <1>1, <1>2 DEF IsInjective, Injection
<1>4. s \in Surjection(1..Len(s), Range(s))
    BY <1>1, <1>2 DEF Range, Surjection
<1>5. s \in Bijection(1..Len(s), Range(s))
    BY <1>3, <1>4 DEF Bijection
<1>6. IsFiniteSet(1..Len(s)) /\ Cardinality(1..Len(s)) = Len(s)
    BY <1>1, FS_Interval
<1>7. IsFiniteSet(Range(s)) /\ Cardinality(Range(s)) = Cardinality(1..Len(s))
    BY <1>5, <1>6, FS_Bijection DEF ExistsBijection
<1> QED BY <1>6, <1>7

\* When there are too many boxes, the ones left are the strongest.
LEMMA StrongestOfCluster ==
    ASSUME NEW boxes \in Seq(Boxes), NEW cluster \in Seq(DOMAIN boxes), IsInjective(cluster),
           NEW cfg, cfg.maxItems \in Nat \ {0}
    PROVE  LET kept == Strongest(boxes, cluster, cfg)
           IN  /\ kept \in Seq(Range(cluster)) /\ IsInjective(kept) /\ Len(kept) <= cfg.maxItems
               /\ (Len(kept) = 0) = (Len(cluster) = 0)
               /\ \/ Range(kept) = Range(cluster)
                  \/ /\ Len(kept) = cfg.maxItems
                     /\ \A i \in Range(kept), j \in Range(cluster) \ Range(kept) :
                           boxes[i].score >= boxes[j].score
<1> DEFINE all == Range(cluster)
           R == {p \in all \X all : Stronger(boxes, p[1], p[2])}
           s == InOrder(all, R)
           most == cfg.maxItems
           kept == Strongest(boxes, cluster, cfg)
<1>1. /\ DOMAIN cluster = 1..Len(cluster) /\ Len(cluster) \in Nat
      /\ IsFiniteSet(all) /\ Cardinality(all) = Len(cluster)
    BY LenProperties, InjectiveLength
<1>2. all \in SUBSET DOMAIN boxes
    BY <1>1, ElementOfSeq DEF Range
<1>3. \A i \in all : boxes[i].score \in Nat /\ boxes[i].depth \in Nat
    BY <1>2, Measured
<1>4. cluster \in Seq(all)
    <2>1. \A k \in 1..Len(cluster) : cluster[k] \in all
        BY <1>1 DEF Range
    <2>2. cluster \in [1..Len(cluster) -> all]
        BY <2>1, LenProperties
    <2>3. \A n \in Nat : cluster \in [1..n -> all] => cluster \in Seq(all)
        BY SeqDef
    <2> QED BY <1>1, <2>2, <2>3
<1>5. CASE Len(cluster) <= most
    <2>1. kept = cluster
        BY <1>5 DEF Strongest
    <2> QED BY <1>4, <1>5, <2>1 DEF all, kept
<1>6. CASE ~(Len(cluster) <= most)
    <2>1. kept = SubSeq(s, 1, most)
        BY <1>6 DEF Strongest
    <2>2. Orders(R, all)
        BY <1>2, StrongerOrders
    <2>3. \A i, j \in all : <<i, j>> \in R => boxes[i].score >= boxes[j].score
        BY <1>3 DEF Stronger
    <2> HIDE DEF all, R, kept
    <2>4. /\ s \in Seq(all) /\ Len(s) = Len(cluster) /\ Range(s) = all
          /\ \A k, l \in 1..Len(s) : k < l => <<s[k], s[l]>> \in R
          /\ \A k, l \in 1..Len(s) : s[k] = s[l] => k = l
        BY <1>1, <2>2, Sorted
    <2> HIDE DEF s
    <2>5. DOMAIN s = 1..Len(s) /\ \A k \in 1..Len(s) : s[k] \in all
        BY <2>4, LenProperties, ElementOfSeq
    <2>6. most \in Nat /\ most # 0 /\ most < Len(s)
        BY <1>1, <1>6, <2>4
    <2>7. \A k \in 1..most : k \in 1..Len(s) /\ s[k] \in all
        BY <1>1, <2>4, <2>5, <2>6
    <2>8. kept \in Seq(all) /\ Len(kept) = most /\ \A k \in 1..most : kept[k] = s[k]
        <3>1. /\ SubSeq(s, 1, most) \in Seq(all)
              /\ Len(SubSeq(s, 1, most)) = IF 1 <= most THEN most - 1 + 1 ELSE 0
              /\ \A i \in 1..(most - 1 + 1) : SubSeq(s, 1, most)[i] = s[1 + i - 1]
            BY <2>6, <2>7, SubSeqProperties
        <3>2. most - 1 + 1 = most /\ 1 <= most /\ \A i \in 1..most : 1 + i - 1 = i
            BY <2>6
        <3> HIDE DEF most
        <3> QED BY <2>1, <3>1, <3>2
    <2>9. DOMAIN kept = 1..most
        BY <2>8, LenProperties
    <2> HIDE DEF most
    <2>10. IsInjective(kept)
        BY <2>4, <2>7, <2>8, <2>9 DEF IsInjective
    <2>11. ASSUME NEW i \in Range(kept), NEW j \in all \ Range(kept)
           PROVE  boxes[i].score >= boxes[j].score
        <3>1. PICK k \in 1..most : kept[k] = i
            BY <2>9 DEF Range
        <3>2. PICK l \in 1..Len(s) : s[l] = j
            BY <2>4, <2>5 DEF Range
        <3>3. l \notin 1..most
            <4>1. \A o \in 1..most : s[o] \in Range(kept)
                BY <2>8, <2>9 DEF Range
            <4> QED BY <2>11, <3>2, <4>1
        <3>4. k < l /\ k \in 1..Len(s)
            BY <1>1, <2>4, <2>6, <2>7, <3>1, <3>2, <3>3
        <3>5. <<i, j>> \in R /\ i \in all /\ j \in all
            BY <2>4, <2>5, <2>8, <3>1, <3>2, <3>4
        <3> QED BY <2>3, <3>5
    <2>12. Len(kept) <= most /\ Len(kept) # 0 /\ Len(cluster) # 0
        BY <1>1, <2>4, <2>6, <2>8
    <2> QED BY <2>8, <2>10, <2>11, <2>12 DEF all, most, kept
<1> QED BY <1>5, <1>6

\* Putting the boxes in image order changes nothing but their order.
LEMMA ImageOrder ==
    ASSUME NEW boxes \in Seq(Boxes), NEW chosen \in Seq(DOMAIN boxes), IsInjective(chosen)
    PROVE  LET told == InImageOrder(boxes, chosen)
           IN  /\ told \in Seq(DOMAIN boxes) /\ IsInjective(told) /\ Len(told) = Len(chosen)
               /\ Range(told) = Range(chosen)
               /\ \A k \in 1..Len(told) - 1 : boxes[told[k]].at <= boxes[told[k + 1]].at
<1> DEFINE n == Len(chosen)
           places == DOMAIN chosen
           Earlier(k, l) == \/ boxes[chosen[k]].at < boxes[chosen[l]].at
                            \/ boxes[chosen[k]].at = boxes[chosen[l]].at /\ k < l
           R == {p \in places \X places : Earlier(p[1], p[2])}
           sorted == InOrder(places, R)
           told == InImageOrder(boxes, chosen)
<1>1. n \in Nat /\ places = 1..n /\ \A k \in places : chosen[k] \in DOMAIN boxes
    BY LenProperties, ElementOfSeq
<1>2. told = [k \in places |-> chosen[sorted[k]]]
    BY DEF InImageOrder
<1>3. \A k \in places : k \in Nat /\ boxes[chosen[k]].at \in Nat
    BY <1>1, Measured
<1>4. Orders(R, places)
    <2>1. \A k \in places : ~Earlier(k, k)
        BY <1>3
    <2>2. \A k, l \in places : k # l => Earlier(k, l) \/ Earlier(l, k)
        BY <1>3
    <2>3. \A k, l, m \in places : Earlier(k, l) /\ Earlier(l, m) => Earlier(k, m)
        BY <1>3
    <2> HIDE DEF Earlier
    <2> QED BY <2>1, <2>2, <2>3 DEF Orders
<1>5. \A k, l \in places : <<k, l>> \in R => boxes[chosen[k]].at <= boxes[chosen[l]].at
    BY <1>3
<1>6. IsFiniteSet(places) /\ Cardinality(places) = n
    <2>1. \A m \in Nat : IsFiniteSet(1..m) /\ Cardinality(1..m) = m
        BY FS_Interval
    <2> QED BY <1>1, <2>1
<1> HIDE DEF R, told
<1>7. /\ sorted \in Seq(places) /\ Len(sorted) = n /\ Range(sorted) = places
      /\ \A k, l \in 1..n : k < l => <<sorted[k], sorted[l]>> \in R
      /\ \A k, l \in 1..n : sorted[k] = sorted[l] => k = l
    BY <1>4, <1>6, Sorted
<1> HIDE DEF sorted
<1>8. DOMAIN sorted = 1..n /\ \A k \in 1..n : sorted[k] \in places
    BY <1>7, LenProperties, ElementOfSeq
<1>9. DOMAIN told = 1..n /\ \A k \in 1..n : told[k] = chosen[sorted[k]]
    BY <1>1, <1>2
<1>10. \A k \in 1..n : told[k] \in DOMAIN boxes
    BY <1>1, <1>8, <1>9
<1>11. told \in Seq(DOMAIN boxes) /\ Len(told) = n
    <2>1. told \in [1..n -> DOMAIN boxes]
        BY <1>1, <1>2, <1>8
    <2>2. \A m \in Nat : told \in [1..m -> DOMAIN boxes] => told \in Seq(DOMAIN boxes) /\ Len(told) = m
        BY SeqDef, LenProperties
    <2> HIDE DEF n
    <2> QED BY <1>1, <2>1, <2>2
<1>12. IsInjective(told)
    <2>1. ASSUME NEW k \in 1..n, NEW l \in 1..n, told[k] = told[l] PROVE k = l
        <3>1. sorted[k] = sorted[l]
            BY <1>8, <1>9, <2>1 DEF IsInjective
        <3> QED BY <1>7, <3>1
    <2> QED BY <1>9, <2>1 DEF IsInjective
<1>13. Range(told) = Range(chosen)
    <2>1. ASSUME NEW i \in Range(told) PROVE i \in Range(chosen)
        <3>1. PICK k \in 1..n : told[k] = i
            BY <1>9 DEF Range
        <3> QED BY <1>8, <1>9, <3>1 DEF Range
    <2>2. ASSUME NEW i \in Range(chosen) PROVE i \in Range(told)
        <3>1. PICK l \in places : chosen[l] = i
            BY DEF Range
        <3>2. PICK k \in 1..n : sorted[k] = l
            BY <1>7, <1>8, <3>1 DEF Range
        <3> QED BY <1>9, <3>1, <3>2 DEF Range
    <2> QED BY <2>1, <2>2
<1>14. ASSUME NEW k \in 1..n - 1 PROVE boxes[told[k]].at <= boxes[told[k + 1]].at
    <2>1. k \in 1..n /\ k + 1 \in 1..n /\ k < k + 1
        BY <1>1
    <2>2. <<sorted[k], sorted[k + 1]>> \in R
        BY <1>7, <2>1
    <2> QED BY <1>5, <1>8, <1>9, <2>1, <2>2
<1> QED BY <1>11, <1>12, <1>13, <1>14 DEF told

LEMMA TopSurfaceIsTopLayer ==
    ASSUME NEW boxes \in Seq(Boxes), NEW among \in SUBSET DOMAIN boxes, NEW cfg,
           cfg.gap \in Nat \ {0}, cfg.span \in Nat, cfg.maxItems \in Nat \ {0}
    PROVE  /\ TopSurface(boxes, among, cfg) \in Seq(DOMAIN boxes)
           /\ IsTopSurface(boxes, among, cfg, TopSurface(boxes, among, cfg))
<1> DEFINE cluster == TopCluster(boxes, among, cfg)
           kept == Strongest(boxes, cluster, cfg)
           told == InImageOrder(boxes, kept)
           layer == TopLayer(boxes, among, cfg)
<1>1. TopSurface(boxes, among, cfg) = told
    BY DEF TopSurface
<1>2. /\ cluster \in Seq(Valid(boxes, among)) /\ IsInjective(cluster) /\ Range(cluster) = layer
      /\ (Len(cluster) = 0) = (Valid(boxes, among) = {})
    BY ClusterIsTopLayer
<1>3. Valid(boxes, among) \subseteq DOMAIN boxes
    BY DEF Valid
<1> HIDE DEF cluster
<1>4. cluster \in Seq(DOMAIN boxes)
    BY <1>2, <1>3, SeqMonotonic
<1>5. /\ kept \in Seq(layer) /\ IsInjective(kept) /\ Len(kept) <= cfg.maxItems
      /\ (Len(kept) = 0) = (Len(cluster) = 0)
      /\ \/ Range(kept) = layer
         \/ /\ Len(kept) = cfg.maxItems
            /\ \A i \in Range(kept), j \in layer \ Range(kept) : boxes[i].score >= boxes[j].score
    BY <1>2, <1>4, StrongestOfCluster
<1> HIDE DEF kept
<1>6. layer \subseteq DOMAIN boxes
    BY <1>3 DEF TopLayer
<1>7. kept \in Seq(DOMAIN boxes)
    BY <1>5, <1>6, SeqMonotonic
<1>8. /\ told \in Seq(DOMAIN boxes) /\ IsInjective(told) /\ Len(told) = Len(kept)
      /\ Range(told) = Range(kept)
      /\ \A k \in 1..Len(told) - 1 : boxes[told[k]].at <= boxes[told[k + 1]].at
    BY <1>5, <1>7, ImageOrder
<1>9. Range(kept) \subseteq layer
    BY <1>5, LenProperties, ElementOfSeq DEF Range
<1> HIDE DEF told, layer
<1>10. (told = <<>>) = (Len(told) = 0)
    BY <1>8, EmptySeq
<1>11. (told = <<>>) = (Valid(boxes, among) = {})
    BY <1>2, <1>5, <1>8, <1>10
<1>12. IsTopSurface(boxes, among, cfg, told)
    BY <1>5, <1>8, <1>9, <1>11 DEF IsTopSurface, layer
<1> QED BY <1>1, <1>8, <1>12

-----------------------------------------------------------------------------
(* Targets and the held box.                                                   *)

\* The best tray has the highest score.
LEMMA BestTrayIsBest ==
    ASSUME NEW trays \in Seq(Trays), trays # <<>>
    PROVE  /\ BestTray(trays) \in DOMAIN trays
           /\ \A j \in DOMAIN trays : trays[j].score <= trays[BestTray(trays)].score
<1> DEFINE all == DOMAIN trays
           Better(i, j) ==
               \/ trays[i].score > trays[j].score
               \/ trays[i].score = trays[j].score /\ trays[i].area > trays[j].area
               \/ trays[i].score = trays[j].score /\ trays[i].area = trays[j].area /\ i < j
           R == {p \in all \X all : Better(p[1], p[2])}
           best == InOrder(all, R)[1]
<1>1. BestTray(trays) = best
    BY DEF BestTray
<1>2. all = 1..Len(trays) /\ Len(trays) \in Nat /\ Len(trays) # 0 /\ \A i \in all : trays[i] \in Trays
    BY LenProperties, EmptySeq, ElementOfSeq
<1>3. \A i \in all : i \in Nat /\ trays[i].score \in Nat /\ trays[i].area \in Nat
    <2>1. \A t \in Trays : t.score \in Nat /\ t.area \in Nat
        BY DEF Trays
    <2> QED BY <1>2, <2>1
<1>4. Orders(R, all)
    <2>1. \A k \in all : ~Better(k, k)
        BY <1>3
    <2>2. \A k, l \in all : k # l => Better(k, l) \/ Better(l, k)
        BY <1>3
    <2>3. \A k, l, m \in all : Better(k, l) /\ Better(l, m) => Better(k, m)
        BY <1>3
    <2> HIDE DEF Better
    <2> QED BY <2>1, <2>2, <2>3 DEF Orders
<1>5. \A i, j \in all : <<i, j>> \in R => trays[j].score <= trays[i].score
    BY <1>3
<1>6. IsFiniteSet(all) /\ all # {}
    <2>1. IsFiniteSet(1..Len(trays))
        BY <1>2, FS_Interval
    <2>2. 1 \in 1..Len(trays)
        BY <1>2
    <2> QED BY <1>2, <2>1, <2>2
<1> HIDE DEF R
<1>7. best \in all /\ \A i \in all \ {best} : <<best, i>> \in R
    BY <1>4, <1>6, FirstOfSorted
<1> HIDE DEF best
<1>8. ASSUME NEW j \in all PROVE trays[j].score <= trays[best].score
    <2>1. CASE j = best
        BY <1>3, <1>7, <2>1
    <2>2. CASE j # best
        BY <1>5, <1>7, <2>2
    <2> QED BY <2>1, <2>2
<1> QED BY <1>1, <1>7, <1>8

LEMMA TargetsAreTargets ==
    ASSUME NEW boxes \in Seq(Boxes), NEW trays \in Seq(Trays), NEW cfg,
           cfg.gap \in Nat \ {0}, cfg.span \in Nat, cfg.maxItems \in Nat \ {0}
    PROVE  AreTargets(boxes, trays, cfg, Targets(boxes, trays, cfg))
<1> DEFINE scoped == Scoped(boxes, cfg)
           top == TopSurface(boxes, scoped, cfg)
           named == [k \in DOMAIN top |-> boxes[top[k]]]
           kept == {i \in DOMAIN boxes :
                      cfg.filter => IF cfg.tray THEN boxes[i].inside ELSE cfg.withoutTray}
           told == Targets(boxes, trays, cfg)
<1>1. scoped = kept
    BY Zenon DEF Scoped
<1>2. scoped \in SUBSET DOMAIN boxes
    BY DEF Scoped
<1> HIDE DEF scoped, kept
<1>3. CASE scoped # {}
    <2>1. told.kind = "box" /\ told.targets = named
        BY <1>3 DEF Targets, scoped
    <2>2. top \in Seq(DOMAIN boxes) /\ IsTopSurface(boxes, scoped, cfg, top)
        BY <1>2, TopSurfaceIsTopLayer
    <2>3. /\ (top = <<>>) = (Valid(boxes, scoped) = {})
          /\ Range(top) \subseteq Valid(boxes, scoped)
        BY <2>2 DEF IsTopSurface, TopLayer
    <2> HIDE DEF top, told
    <2>4. DOMAIN top = 1..Len(top) /\ Len(top) \in Nat /\ \A k \in 1..Len(top) : top[k] \in Valid(boxes, scoped)
        BY <2>2, <2>3, LenProperties DEF Range
    <2>5. named = <<>> <=> top = <<>>
        <3>1. named = <<>> => DOMAIN named = {}
            OBVIOUS
        <3>2. DOMAIN named = DOMAIN top
            OBVIOUS
        <3>3. DOMAIN top = {} => top = <<>>
            BY <2>2, <2>4, EmptySeq
        <3>4. top = <<>> => named = <<>>
            OBVIOUS
        <3> QED BY <3>1, <3>2, <3>3, <3>4
    <2>6. Valid(boxes, scoped) = {} <=> \A i \in scoped : boxes[i].depth = 0
        <3>1. \A i \in scoped : boxes[i].depth \in Nat
            BY <1>2, Measured
        <3> QED BY <3>1 DEF Valid
    <2>7. \A t \in Range(named) : \E i \in Valid(boxes, scoped) : t = boxes[i]
        BY <2>4 DEF Range
    <2>8. \A i \in Valid(boxes, scoped) : i \in scoped /\ boxes[i].depth > 0
        BY DEF Valid
    <2>9. (told.targets = <<>>) = (\A i \in kept : boxes[i].depth = 0)
        BY <1>1, <2>1, <2>3, <2>5, <2>6
    <2>10. Range(told.targets) \subseteq {boxes[i] : i \in kept}
        BY <1>1, <2>1, <2>7, <2>8
    <2>11. \A t \in Range(told.targets) : t.depth > 0
        BY <2>1, <2>7, <2>8
    <2> QED BY <1>1, <1>3, <2>1, <2>9, <2>10, <2>11 DEF AreTargets, kept, told
<1>4. CASE scoped = {} /\ trays = <<>>
    <2>1. told.kind = "none" /\ told.targets = <<>>
        BY <1>4 DEF Targets, scoped
    <2>2. Range(<<>>) = {}
        BY DEF Range
    <2> HIDE DEF told
    <2> QED BY <1>1, <1>4, <2>1, <2>2 DEF AreTargets, kept, told
<1>5. CASE scoped = {} /\ trays # <<>>
    <2> DEFINE tray == trays[BestTray(trays)]
    <2>1. told.kind = "tray" /\ told.targets = IF tray.depth > 0 THEN <<tray>> ELSE <<>>
        BY <1>5 DEF Targets, scoped
    <2>2. /\ BestTray(trays) \in DOMAIN trays
          /\ \A j \in DOMAIN trays : trays[j].score <= tray.score
        BY <1>5, BestTrayIsBest
    <2>3. tray.depth \in Nat
        <3>1. tray \in Trays
            BY <2>2, LenProperties, ElementOfSeq
        <3> HIDE DEF tray
        <3> QED BY <3>1 DEF Trays
    <2>4. told.targets = IF tray.depth = 0 THEN <<>> ELSE <<tray>>
        BY <2>1, <2>3
    <2>5. \A t \in Range(told.targets) : t.depth > 0
        <3>1. CASE tray.depth = 0
            BY <2>4, <3>1 DEF Range
        <3>2. CASE tray.depth # 0
            <4>1. told.targets = <<tray>> /\ tray.depth > 0
                BY <2>3, <2>4, <3>2
            <4> HIDE DEF tray, told
            <4> QED BY <4>1 DEF Range
        <3> QED BY <3>1, <3>2
    <2>6. \E i \in DOMAIN trays :
             /\ \A j \in DOMAIN trays : trays[j].score <= trays[i].score
             /\ told.targets = IF trays[i].depth = 0 THEN <<>> ELSE <<trays[i]>>
        BY <2>2, <2>4
    <2> HIDE DEF told, tray
    <2> QED BY <1>1, <1>5, <2>1, <2>5, <2>6 DEF AreTargets, kept, told
<1> QED BY <1>3, <1>4, <1>5

LEMMA HeldBoxIsHeld ==
    ASSUME NEW boxes \in Seq(Boxes), NEW cfg, cfg.advantage \in Nat
    PROVE  IsHeldBox(boxes, cfg, HeldBox(boxes, cfg))
<1> DEFINE order == ByDepth(boxes, DOMAIN boxes)
           valid == Valid(boxes, DOMAIN boxes)
           picked == HeldBox(boxes, cfg)
           n == Len(order)
<1>1. /\ order \in Seq(valid) /\ Range(order) = valid
      /\ \A k, l \in 1..n : k <= l => boxes[order[k]].depth <= boxes[order[l]].depth
      /\ \A k, l \in 1..n : order[k] = order[l] => k = l
    BY SortedByDepth
<1>2. \A i \in valid : i \in Nat /\ i # 0 /\ boxes[i].depth \in Nat
    <2>1. valid \subseteq DOMAIN boxes /\ DOMAIN boxes = 1..Len(boxes)
        BY LenProperties DEF Valid
    <2> QED BY <2>1, Measured
<1>3. picked = IF order = <<>> THEN 0
             ELSE IF n > 1 /\ boxes[order[2]].depth - boxes[order[1]].depth < cfg.advantage THEN 0
             ELSE order[1]
    BY DEF HeldBox
<1> HIDE DEF order, valid, picked
<1>4. n \in Nat /\ DOMAIN order = 1..n /\ (order = <<>> <=> n = 0) /\ \A k \in 1..n : order[k] \in valid
    BY <1>1, LenProperties, ElementOfSeq, EmptySeq
<1>5. \A i \in valid : \E k \in 1..n : order[k] = i
    BY <1>1, <1>4, Zenon DEF Range
<1>6. CASE order = <<>>
    <2>1. picked = 0 /\ \A i \in valid : FALSE
        BY <1>3, <1>4, <1>5, <1>6
    <2> QED BY <2>1 DEF IsHeldBox, picked, valid
<1>7. CASE n > 1 /\ boxes[order[2]].depth - boxes[order[1]].depth < cfg.advantage
    <2>1. 1 \in 1..n /\ 2 \in 1..n /\ order # <<>>
        BY <1>4, <1>7
    <2>2. picked = 0
        BY <1>3, <1>7, <2>1
    <2>3. order[1] \in valid /\ order[2] \in valid /\ order[1] # order[2]
          /\ boxes[order[1]].depth <= boxes[order[2]].depth
        BY <1>1, <1>4, <2>1
    <2>4. /\ boxes[order[1]].depth < boxes[order[2]].depth + cfg.advantage
          /\ boxes[order[2]].depth < boxes[order[1]].depth + cfg.advantage
        BY <1>2, <1>7, <2>3
    <2> QED BY <2>2, <2>3, <2>4 DEF IsHeldBox, picked, valid
<1>8. CASE order # <<>> /\ ~(n > 1 /\ boxes[order[2]].depth - boxes[order[1]].depth < cfg.advantage)
    <2>1. picked = order[1] /\ 1 \in 1..n
        BY <1>3, <1>4, <1>8
    <2>2. picked \in valid /\ picked # 0
        BY <1>2, <1>4, <2>1
    <2>3. ASSUME NEW i \in valid \ {picked} PROVE boxes[i].depth >= boxes[picked].depth + cfg.advantage
        <3>1. PICK k \in 1..n : order[k] = i
            BY <1>5
        <3>2. k # 1 /\ 2 \in 1..n /\ 2 <= k /\ n > 1
            BY <1>4, <2>1, <2>3, <3>1
        <3>3. boxes[order[2]].depth <= boxes[i].depth
            BY <1>1, <3>1, <3>2
        <3>4. boxes[order[2]].depth \in Nat /\ boxes[i].depth \in Nat /\ boxes[order[1]].depth \in Nat
            BY <1>2, <1>4, <2>1, <2>3, <3>2
        <3>5. ~(boxes[order[2]].depth - boxes[order[1]].depth < cfg.advantage)
            BY <1>8, <3>2
        <3>6. \A a, b, e, g \in Nat : ~(b - a < g) /\ b <= e => e >= a + g
            OBVIOUS
        <3>7. boxes[i].depth >= boxes[order[1]].depth + cfg.advantage
            BY <3>3, <3>4, <3>5, <3>6
        <3> QED BY <2>1, <3>7
    <2> QED BY <2>2, <2>3 DEF IsHeldBox, picked, valid
<1> QED BY <1>6, <1>7, <1>8

LEMMA HeldOutsideIsHeld ==
    ASSUME NEW boxes \in Seq(Boxes), NEW cfg
    PROVE  IsHeldOutside(boxes, cfg, HeldOutside(boxes, cfg))
<1> DEFINE outside == Outside(boxes, cfg)
           near == InOrder(outside, {p \in outside \X outside : KnownNearer(boxes, p[1], p[2])})[1]
           strong == InOrder(outside, {p \in outside \X outside : StrongerOutside(boxes, p[1], p[2])})[1]
           picked == HeldOutside(boxes, cfg)
<1>1. outside \in SUBSET DOMAIN boxes
    BY DEF Outside
<1>2. \A i \in outside : i # 0 /\ i \in Nat /\ boxes[i].depth \in Nat /\ boxes[i].score \in Nat
    <2>1. DOMAIN boxes = 1..Len(boxes)
        BY LenProperties
    <2> QED BY <1>1, <2>1, Measured
<1>3. IsFiniteSet(outside)
    BY <1>1, BoxesFinite
<1>4. /\ ~cfg.tray \/ outside = {} => picked = 0
      /\ cfg.tray /\ outside # {} /\ cfg.preferNearest => picked = near
      /\ cfg.tray /\ outside # {} /\ ~cfg.preferNearest => picked = strong
    BY Zenon DEF HeldOutside
<1> HIDE DEF outside, picked
<1>5. ASSUME outside # {}
      PROVE  near \in outside /\ \A i \in outside \ {near} : KnownNearer(boxes, near, i)
    <2> DEFINE R == {p \in outside \X outside : KnownNearer(boxes, p[1], p[2])}
    <2>1. \A i, j \in outside : <<i, j>> \in R => KnownNearer(boxes, i, j)
        OBVIOUS
    <2>2. Orders(R, outside)
        BY <1>1, KnownNearerOrders
    <2> HIDE DEF R
    <2>3. InOrder(outside, R)[1] \in outside /\ \A i \in outside \ {InOrder(outside, R)[1]} : <<InOrder(outside, R)[1], i>> \in R
        BY <1>3, <1>5, <2>2, FirstOfSorted
    <2>4. near = InOrder(outside, R)[1]
        BY DEF R
    <2> HIDE DEF near
    <2> QED BY <2>1, <2>3, <2>4
<1>6. ASSUME outside # {}
      PROVE  strong \in outside /\ \A i \in outside \ {strong} : StrongerOutside(boxes, strong, i)
    <2> DEFINE R == {p \in outside \X outside : StrongerOutside(boxes, p[1], p[2])}
    <2>1. \A i, j \in outside : <<i, j>> \in R => StrongerOutside(boxes, i, j)
        OBVIOUS
    <2>2. Orders(R, outside)
        BY <1>1, StrongerOutsideOrders
    <2> HIDE DEF R
    <2>3. InOrder(outside, R)[1] \in outside /\ \A i \in outside \ {InOrder(outside, R)[1]} : <<InOrder(outside, R)[1], i>> \in R
        BY <1>3, <1>6, <2>2, FirstOfSorted
    <2>4. strong = InOrder(outside, R)[1]
        BY DEF R
    <2> HIDE DEF strong
    <2> QED BY <2>1, <2>3, <2>4
<1> HIDE DEF near, strong
<1>7. CASE ~cfg.tray \/ outside = {}
    <2>1. picked = 0
        BY <1>4, <1>7, Zenon
    <2> QED BY <1>7, <2>1, Zenon DEF IsHeldOutside, picked, outside
<1>8. CASE cfg.tray /\ outside # {} /\ cfg.preferNearest
    <2>1. picked = near
        BY <1>4, <1>8, Zenon
    <2>2. picked \in outside /\ picked # 0 /\ \A i \in outside \ {picked} : KnownNearer(boxes, picked, i)
        BY <1>2, <1>5, <1>8, <2>1
    <2>3. ASSUME NEW i \in outside, boxes[i].depth > 0
          PROVE  0 < boxes[picked].depth /\ boxes[picked].depth <= boxes[i].depth
        <3>1. boxes[i].depth \in Nat /\ boxes[picked].depth \in Nat
            BY <1>2, <2>2
        <3>2. CASE i = picked
            BY <2>3, <3>1, <3>2
        <3>3. CASE i # picked
            <4>1. KnownNearer(boxes, picked, i)
                BY <2>2, <3>3
            <4>2. boxes[i].depth > 0
                BY <2>3
            <4> QED BY <3>1, <4>1, <4>2 DEF KnownNearer, Nearer
        <3> QED BY <3>2, <3>3
    <2> QED BY <1>8, <2>2, <2>3, Zenon DEF IsHeldOutside, picked, outside
<1>9. CASE cfg.tray /\ outside # {} /\ ~cfg.preferNearest
    <2>1. picked = strong
        BY <1>4, <1>9, Zenon
    <2>2. picked \in outside /\ picked # 0 /\ \A i \in outside \ {picked} : StrongerOutside(boxes, picked, i)
        BY <1>2, <1>6, <1>9, <2>1
    <2>3. ASSUME NEW i \in outside PROVE boxes[i].score <= boxes[picked].score
        <3>1. boxes[i].score \in Nat /\ boxes[picked].score \in Nat
            BY <1>2, <2>2
        <3>2. CASE i = picked
            BY <3>1, <3>2
        <3>3. CASE i # picked
            <4>1. StrongerOutside(boxes, picked, i)
                BY <2>2, <3>3
            <4> QED BY <3>1, <4>1 DEF StrongerOutside
        <3> QED BY <3>2, <3>3
    <2> QED BY <1>9, <2>2, <2>3, Zenon DEF IsHeldOutside, picked, outside
<1> QED BY <1>7, <1>8, <1>9, Zenon

\* Every selection is what it should be.
LEMMA AllSelected ==
    \A s \in Selections : IsSelected(s)
<1> TAKE s \in Selections
<1>1. /\ s.boxes \in Seq(Boxes) /\ s.trays \in Seq(Trays)
      /\ s.cfg.gap \in Nat \ {0} /\ s.cfg.span \in Nat /\ s.cfg.maxItems \in Nat \ {0}
      /\ s.cfg.advantage \in Nat
    BY SelectionsAssumption
<1>2. Scoped(s.boxes, s.cfg) \in SUBSET DOMAIN s.boxes
    BY DEF Scoped
<1>3. IsTopSurface(s.boxes, Scoped(s.boxes, s.cfg), s.cfg, TopSurface(s.boxes, Scoped(s.boxes, s.cfg), s.cfg))
    BY <1>1, <1>2, TopSurfaceIsTopLayer
<1>4. AreTargets(s.boxes, s.trays, s.cfg, Targets(s.boxes, s.trays, s.cfg))
    BY <1>1, TargetsAreTargets
<1>5. IsHeldBox(s.boxes, s.cfg, HeldBox(s.boxes, s.cfg))
    BY <1>1, HeldBoxIsHeld
<1>6. IsHeldOutside(s.boxes, s.cfg, HeldOutside(s.boxes, s.cfg))
    BY <1>1, HeldOutsideIsHeld
<1> QED BY <1>3, <1>4, <1>5, <1>6 DEF IsSelected

\* The boxes, trays and held box the first-layer placement names
\* (trigger_protocol.py:183-465) are the ones they should be, whatever was
\* detected and for all settings.
THEOREM SelectionIsCorrect == ServiceSpec => []SelectionCorrect
<1>1. SelectionCorrect
    BY AllSelected DEF SelectionCorrect
<1> QED BY <1>1, PTL
================================================================================
