----------------------------- MODULE OnlineGrasp -----------------------------
(* The choice of one foam ring by OnlineGraspProcessor._finish_locked: the     *)
(* attempts on visible mouths, each a run of run_hybrid_grasp and of the stages *)
(* behind it, and the attempts on rings that lie on their side.  Branches B and *)
(* D and the fallbacks to M36 and M37 are off, as in config/line.yaml.          *)
(*                                                                              *)
(* A scene lists its rings in the order in which M38.1 ranks them, with what    *)
(* the geometry would find on each:                                             *)
(*   mouth    "none" matched, or matched and seen "edge" on, "flat" (a pseudo   *)
(*            mouth for the topology gate, as "edge" is) or "round";            *)
(*   clear    M38.1 finds a candidate that passes its collision checks;         *)
(*   evidence, surface  what VisibleSurface decides from;                       *)
(*   rim      M39.5.1 validates the rim nearest to the camera;                  *)
(*   side     how far side recovery gets: "none", "axis" or "ready".            *)
(* shallow is the order by depth, confident the ring of greatest confidence.    *)
EXTENDS VisibleSurface, Sequences, FiniteSets

CONSTANTS
    Scenes,                  \* the scenes a trigger may find
    MaximumPairs,            \* pairs M38.1 analyses (at least MaximumVisible)
    MaximumVisible,          \* maximum_visible_target_attempts
    MaximumSide,             \* maximum_side_target_attempts
    MaximumAxes,             \* maximum_rings_to_evaluate of the side axis
    NoRing                   \* no ring

ASSUME ScenesAssumption ==
    \A s \in Scenes :
        /\ DOMAIN s.rings \subseteq Nat \ {NoRing}
        /\ \A r \in DOMAIN s.rings :
              /\ s.rings[r].mouth \in {"none", "edge", "flat", "round"}
              /\ s.rings[r].evidence \in Evidence /\ s.rings[r].surface \in Surfaces
        /\ s.confident \in DOMAIN s.rings
        /\ s.shallow \in Seq(DOMAIN s.rings)

VARIABLES
    scene,
    phase,      \* "visible", then "side" unless a visible mouth is grasped, then "done"
    excluded,   \* visible targets rejected late
    tilted,     \* targets M39.5.1 refused
    pseudo,     \* pseudo mouths found by the last visible attempt
    refused,    \* targets of the side attempts that failed
    tried,      \* the attempts with a target, <<phase, target>> in order
    answer      \* [route, ring]

vars == <<scene, phase, excluded, tilted, pseudo, refused, tried, answer>>

Rings == DOMAIN scene.rings
Ring(r) == scene.rings[r]
First(numbers) == CHOOSE n \in numbers : \A m \in numbers : n <= m

Matched == {r \in Rings : Ring(r).mouth # "none"}

Init ==
    /\ scene \in Scenes
    /\ phase = "visible"
    /\ excluded = {} /\ tilted = {} /\ pseudo = {} /\ refused = {}
    /\ tried = <<>>
    /\ answer = [route |-> "none", ring |-> NoRing]

-----------------------------------------------------------------------------
(* One attempt on a visible mouth.                                           *)

\* Mutant of Scope: the rejected targets stay selectable.
ScopeOfAll == Matched

\* The pairs an attempt may select from.
Scope == Matched \ excluded

Budget == {r \in Scope : Cardinality({q \in Scope : q < r}) < MaximumPairs}

\* The first of the ranked pairs with a candidate ends the analysis ...
Target ==
    LET clear == {r \in Budget : Ring(r).clear}
    IN  IF clear = {} THEN NoRing ELSE First(clear)

\* ... and the pairs behind it are deferred.
Analyzed == {r \in Budget : Target = NoRing \/ r <= Target}

\* The ring M39.5.0 looks at; without a target, the most confident of all.
Examined == IF Target = NoRing THEN scene.confident ELSE Target

\* A matched ring that is not in the attempt's scope has no item to read from,
\* and M39.5.0 raises.  Without a target there is no candidate to anchor on.
Class ==
    IF Ring(Examined).mouth \in {"none", "edge"} THEN "PURE_SIDE"
    ELSE IF Examined \notin Scope THEN "RAISED"
    ELSE Classification(IF Target = NoRing THEN WithoutAnchor(Ring(Examined).evidence)
                                           ELSE Ring(Examined).evidence)

PseudoMouths == {r \in Analyzed : Ring(r).mouth \in {"edge", "flat"}}

\* The candidate is still there behind the topology gate.
Kept == Target # NoRing /\ Target \notin PseudoMouths

\* An upright mouth takes M38.1's candidate whatever the routing says.
Owns3 == Class = "UPRIGHT_VISIBLE" /\ Target # NoRing

RefusedTilted == Class = "TILTED_VISIBLE_SIDE" /\ ~Ring(Examined).rim

SurfaceRoute == IF Kept THEN Routing(Ring(Target).evidence, Ring(Target).surface) ELSE "none"

\* The routes by which the attempt leads to a candidate.
Routes ==
    {route \in {"clock3", "tilted", "rim"} :
        /\ Class # "RAISED"
        /\ route = "rim" => Class = "TILTED_VISIBLE_SIDE" /\ ~RefusedTilted
        /\ route # "rim" => Class # "TILTED_VISIBLE_SIDE"
        /\ route = "clock3" => Owns3 \/ SurfaceRoute = "keep"
        /\ route = "tilted" => ~Owns3 /\ SurfaceRoute = "replan"}

\* The rejection is the target's own, and not of the scene.
TargetRejected == Kept /\ (RefusedTilted \/ SurfaceRoute = "reject")

Rejected == IF TargetRejected THEN excluded \cup {Target} ELSE excluded

\* The targets that M39.5.1 refused never come back as rings on their side.
TiltedRefusals == IF RefusedTilted THEN tilted \cup {Examined} ELSE tilted

\* Every attempt but the last has excluded its target.
MayRetry ==
    /\ TargetRejected
    /\ Cardinality(excluded) + 1 < MaximumVisible
    /\ Analyzed \ Rejected # {}

Tried == IF Target = NoRing THEN tried ELSE Append(tried, <<phase, Target>>)

Answered(route, ring) == phase' = "done" /\ answer' = [route |-> route, ring |-> ring]

GraspVisible ==
    /\ phase = "visible"
    /\ \E route \in Routes : Answered(route, Examined)
    /\ tried' = Tried
    /\ UNCHANGED <<scene, excluded, tilted, pseudo, refused>>

VisibleRaises ==
    /\ phase = "visible" /\ Class = "RAISED"
    /\ Answered("raised", NoRing)
    /\ UNCHANGED <<scene, excluded, tilted, pseudo, refused, tried>>

NextVisible ==
    /\ phase = "visible" /\ Class # "RAISED" /\ Routes = {}
    /\ excluded' = Rejected /\ tilted' = TiltedRefusals /\ tried' = Tried
    /\ IF MayRetry
       THEN UNCHANGED <<phase, pseudo>>
       ELSE phase' = "side" /\ pseudo' = PseudoMouths
    /\ UNCHANGED <<scene, refused, answer>>

-----------------------------------------------------------------------------
(* One attempt on a ring that lies on its side.                              *)

SideCandidates == ((Rings \ Matched) \cup pseudo) \ (excluded \cup tilted \cup refused)

\* The shallowest few, of which the first with a reliable axis is taken.
SideTarget ==
    LET place == {i \in DOMAIN scene.shallow : scene.shallow[i] \in SideCandidates}
        sound == {i \in place : /\ Cardinality({j \in place : j <= i}) <= MaximumAxes
                                /\ Ring(scene.shallow[i]).side # "none"}
    IN  IF sound = {} THEN NoRing ELSE scene.shallow[First(sound)]

NoSide ==
    /\ phase = "side" /\ SideTarget = NoRing
    /\ Answered("none", NoRing)
    /\ UNCHANGED <<scene, excluded, tilted, pseudo, refused, tried>>

GraspSide ==
    /\ phase = "side" /\ SideTarget # NoRing
    /\ Ring(SideTarget).side = "ready"
    /\ Answered("side", SideTarget)
    /\ tried' = Append(tried, <<phase, SideTarget>>)
    /\ UNCHANGED <<scene, excluded, tilted, pseudo, refused>>

\* The opening or the entry fails.
NextSide ==
    /\ phase = "side" /\ SideTarget # NoRing
    /\ Ring(SideTarget).side = "axis"
    /\ refused' = refused \cup {SideTarget}
    /\ tried' = Append(tried, <<phase, SideTarget>>)
    /\ IF Cardinality(refused') < MaximumSide /\ SideCandidates # {SideTarget}
       THEN UNCHANGED <<phase, answer>>
       ELSE Answered("none", NoRing)
    /\ UNCHANGED <<scene, excluded, tilted, pseudo>>

Next == GraspVisible \/ VisibleRaises \/ NextVisible \/ NoSide \/ GraspSide \/ NextSide

Spec == Init /\ [][Next]_vars

-----------------------------------------------------------------------------
Found == phase = "done" /\ answer.route \in {"clock3", "tilted", "rim", "side"}

TypeOK ==
    /\ scene \in Scenes
    /\ phase \in {"visible", "side", "done"}
    /\ excluded \subseteq Rings /\ tilted \subseteq Rings
    /\ pseudo \subseteq Rings /\ refused \subseteq Rings
    /\ tried \in Seq({"visible", "side"} \X Rings)
    /\ answer.ring \in Rings \cup {NoRing}
    /\ answer.route \in {"none", "raised", "clock3", "tilted", "rim", "side"}

\* A ring gets one verdict per trigger (online_processor.py:1320, 1202 and
\* side_axis_recovery.py:755): no attempt is made twice, a target rejected late
\* is neither tried again nor grasped by another route, and a tilted mouth that
\* M39.5.1 refused is not grasped on its side.
OneVerdict ==
    /\ \A i, j \in DOMAIN tried :
          \/ tried[i] = tried[j]
          \/ tried[i][2] = tried[j][2] /\ tried[i][2] \in excluded
          => i = j
    /\ Found => answer.ring \notin excluded \cup refused \cup tilted
    /\ Found /\ answer.route = "side" =>
          \A i \in DOMAIN tried :
              tried[i] = <<"visible", answer.ring>> /\ Ring(answer.ring).mouth # "edge"
              => Classification(Ring(answer.ring).evidence) # "TILTED_VISIBLE_SIDE"

\* The evidence of the same ring seen a little less tilted.
LessTilted(e) ==
    {f \in [deficit : {e.deficit, e.deficit - 1}, sector : {e.sector, e.sector - 1},
            state : {e.state, "UNCERTAIN", "FLAT"}, sure : {e.sure},
            conic : {e.conic}, anchor : {e.anchor}] :
        /\ f.deficit = e.deficit \/ f.deficit >= 0
        /\ f.sector >= 0
        /\ StateRank(f.state) <= StateRank(e.state)}

\* More evidence for a tilt never brings the flat grasp back, neither in the
\* class of a visible mouth (visible_mouth_axis_m3950.py:516, 595) nor against a
\* surface that direct depth supports (tilted_production_routing.py:243): a ring
\* grasped flat would be grasped flat if it looked less tilted.
TiltNeverFlattens ==
    Found /\ answer.route = "clock3" =>
        LET ring == Ring(answer.ring)
        IN  \A e \in LessTilted(ring.evidence), dense \in {FALSE, ring.surface.dense} :
                \/ Classification(e) = "UPRIGHT_VISIBLE"
                \/ /\ Classification(e) = "UNCERTAIN" /\ ring.mouth = "round"
                   /\ Routing(e, [ring.surface EXCEPT !.dense = dense]) = "keep"
=============================================================================
