--------------------------- MODULE SurfaceSelection ---------------------------
(* select_top_surface_targets and select_held_box of the first-layer          *)
(* placement: which of the detected boxes the robot is told about.  A box is  *)
(* [depth, score, at, inside, clear, overlap]: its depth, 0 when no depth was *)
(* sampled, its place in image order, whether it lies in the tray's region,   *)
(* whether its centre is off the tray, and how much of it overlaps the tray.  *)
(* A tray is [depth, score, area].  Boxes are named by their index.           *)
EXTENDS Integers, Sequences, FiniteSets, Functions

CONSTANT Selections   \* the detections and settings one is asked to choose with

Boxes == [depth : Nat, score : Nat, at : Nat, inside : BOOLEAN, clear : BOOLEAN, overlap : Nat]
Trays == [depth : Nat, score : Nat, area : Nat]

ASSUME SelectionsAssumption ==
  \A s \in Selections :
    /\ s.boxes \in Seq(Boxes) /\ s.trays \in Seq(Trays)
    /\ s.cfg.gap \in Nat \ {0} /\ s.cfg.span \in Nat /\ s.cfg.maxItems \in Nat \ {0}
    /\ s.cfg.advantage \in Nat /\ s.cfg.maxOverlap \in Nat

-----------------------------------------------------------------------------
(* Sorting.  R holds the pairs <<i, j>> of S with i before j.  Python's sort  *)
(* is stable, so that the earlier element comes first where its key decides   *)
(* nothing, and the order is total.                                           *)

Before(S, R, i) == {j \in S : <<j, i>> \in R}
InOrder(S, R) == [k \in 1..Cardinality(S) |-> CHOOSE i \in S : Cardinality(Before(S, R, i)) = k - 1]

Nearer(boxes, i, j) ==
    \/ boxes[i].depth < boxes[j].depth
    \/ boxes[i].depth = boxes[j].depth /\ boxes[i].score > boxes[j].score
    \/ boxes[i].depth = boxes[j].depth /\ boxes[i].score = boxes[j].score /\ i < j

Stronger(boxes, i, j) ==
    \/ boxes[i].score > boxes[j].score
    \/ boxes[i].score = boxes[j].score /\ Nearer(boxes, i, j)

-----------------------------------------------------------------------------
(* select_top_surface_targets.                                               *)

\* The region filter: without a tray reference it accepts every box or none.
Scoped(boxes, cfg) ==
    {i \in DOMAIN boxes : ~cfg.filter \/ (IF cfg.tray THEN boxes[i].inside ELSE cfg.withoutTray)}

Valid(boxes, among) == {i \in among : boxes[i].depth > 0}

ByDepth(boxes, among) ==
    LET valid == Valid(boxes, among)
    IN  InOrder(valid, {p \in valid \X valid : Nearer(boxes, p[1], p[2])})

\* The span is never less than the gap.
Span(cfg) == IF cfg.span < cfg.gap THEN cfg.gap ELSE cfg.span

\* Mutant of CutsBefore: the gap to the nearest box, not to the one before.
CutsFromNearest(boxes, order, k, cfg) ==
    boxes[order[k]].depth - boxes[order[1]].depth > cfg.gap

CutsBefore(boxes, order, k, cfg) ==
    \/ boxes[order[k]].depth - boxes[order[k - 1]].depth > cfg.gap
    \/ boxes[order[k]].depth - boxes[order[1]].depth > Span(cfg)

TopCluster(boxes, among, cfg) ==
    LET order == ByDepth(boxes, among)
        cuts == {k \in 2..Len(order) : CutsBefore(boxes, order, k, cfg)}
    IN  IF cuts = {} THEN order
        ELSE SubSeq(order, 1, (CHOOSE k \in cuts : \A l \in cuts : k <= l) - 1)

Strongest(boxes, cluster, cfg) ==
    LET all == Range(cluster)
    IN  IF Len(cluster) <= cfg.maxItems THEN cluster
        ELSE SubSeq(InOrder(all, {p \in all \X all : Stronger(boxes, p[1], p[2])}), 1, cfg.maxItems)

InImageOrder(boxes, chosen) ==
    LET Earlier(k, l) == \/ boxes[chosen[k]].at < boxes[chosen[l]].at
                         \/ boxes[chosen[k]].at = boxes[chosen[l]].at /\ k < l
        places == DOMAIN chosen
        sorted == InOrder(places, {p \in places \X places : Earlier(p[1], p[2])})
    IN  [k \in places |-> chosen[sorted[k]]]

\* The boxes of the answer; <<>> when no depth is valid, which the caller
\* reports as a fault.
TopSurface(boxes, among, cfg) ==
    InImageOrder(boxes, Strongest(boxes, TopCluster(boxes, among, cfg), cfg))

\* The highest score, the larger one of equals, max() the first of the rest.
BestTray(trays) ==
    LET Better(i, j) ==
            \/ trays[i].score > trays[j].score
            \/ trays[i].score = trays[j].score /\ trays[i].area > trays[j].area
            \/ trays[i].score = trays[j].score /\ trays[i].area = trays[j].area /\ i < j
        all == DOMAIN trays
    IN  InOrder(all, {p \in all \X all : Better(p[1], p[2])})[1]

\* What is answered: the top boxes of the region, or a tray when no box is in it;
\* no target of a kind that was seen is a fault.
Targets(boxes, trays, cfg) ==
    LET scoped == Scoped(boxes, cfg)
        top == TopSurface(boxes, scoped, cfg)
    IN  IF scoped # {}
        THEN [kind |-> "box", targets |-> [k \in DOMAIN top |-> boxes[top[k]]]]
        ELSE IF trays = <<>> THEN [kind |-> "none", targets |-> <<>>]
        ELSE LET tray == trays[BestTray(trays)]
             IN  [kind |-> "tray", targets |-> IF tray.depth > 0 THEN <<tray>> ELSE <<>>]

-----------------------------------------------------------------------------
(* select_held_box; 0 for none.                                              *)

\* Mode outside_tray, which needs a tray to be outside of.
Outside(boxes, cfg) ==
    {i \in DOMAIN boxes : boxes[i].clear /\ boxes[i].overlap <= cfg.maxOverlap}

\* A box without a depth comes after those that have one.
KnownNearer(boxes, i, j) ==
    LET Known(k) == boxes[k].depth > 0
    IN  IF Known(i) = Known(j) THEN Nearer(boxes, i, j) ELSE Known(i)

StrongerOutside(boxes, i, j) ==
    \/ boxes[i].score > boxes[j].score
    \/ /\ boxes[i].score = boxes[j].score
       /\ \/ boxes[i].overlap < boxes[j].overlap
          \/ boxes[i].overlap = boxes[j].overlap /\ i < j

HeldOutside(boxes, cfg) ==
    LET outside == Outside(boxes, cfg)
    IN  IF ~cfg.tray \/ outside = {} THEN 0
        ELSE IF cfg.preferNearest
        THEN InOrder(outside, {p \in outside \X outside : KnownNearer(boxes, p[1], p[2])})[1]
        ELSE InOrder(outside, {p \in outside \X outside : StrongerOutside(boxes, p[1], p[2])})[1]

\* Mode nearest_depth; where no advantage is required it is 0.
HeldBox(boxes, cfg) ==
    LET order == ByDepth(boxes, DOMAIN boxes)
    IN  IF order = <<>> THEN 0
        ELSE IF Len(order) > 1 /\ boxes[order[2]].depth - boxes[order[1]].depth < cfg.advantage THEN 0
        ELSE order[1]

-----------------------------------------------------------------------------
(* What the selection should be, stated without sorting.                     *)

Depths(boxes, among) == {boxes[i].depth : i \in Valid(boxes, among)}

\* Within the span of the nearest box and reached from it without a gap.
TopLayer(boxes, among, cfg) ==
    {i \in Valid(boxes, among) :
        /\ \A d \in Depths(boxes, among) : boxes[i].depth <= d + Span(cfg)
        /\ \A d \in Depths(boxes, among) :
              d < boxes[i].depth => \E e \in Depths(boxes, among) : d < e /\ e <= d + cfg.gap}

IsTopSurface(boxes, among, cfg, answer) ==
    LET named == Range(answer)
        layer == TopLayer(boxes, among, cfg)
    IN  /\ (answer = <<>>) = (Valid(boxes, among) = {})
        /\ named \subseteq layer /\ IsInjective(answer)
        /\ \/ named = layer
           \/ /\ Len(answer) = cfg.maxItems
              /\ \A i \in named, j \in layer \ named : boxes[i].score >= boxes[j].score
        /\ Len(answer) <= cfg.maxItems
        /\ \A k \in 1..Len(answer) - 1 : boxes[answer[k]].at <= boxes[answer[k + 1]].at

\* One kind of target, boxes before trays, the best tray, and no target
\* whose depth is not known.
AreTargets(boxes, trays, cfg, answer) ==
    LET kept == {i \in DOMAIN boxes :
                   cfg.filter => IF cfg.tray THEN boxes[i].inside ELSE cfg.withoutTray}
    IN  /\ (answer.kind = "box") = (kept # {})
        /\ (answer.kind = "none") = (kept = {} /\ trays = <<>>)
        /\ answer.kind = "box" =>
              /\ (answer.targets = <<>>) = (\A i \in kept : boxes[i].depth = 0)
              /\ Range(answer.targets) \subseteq {boxes[i] : i \in kept}
        /\ answer.kind = "tray" =>
              \E i \in DOMAIN trays :
                 /\ \A j \in DOMAIN trays : trays[j].score <= trays[i].score
                 /\ answer.targets = IF trays[i].depth = 0 THEN <<>> ELSE <<trays[i]>>
        /\ \A t \in Range(answer.targets) : t.depth > 0

\* A box held off the tray; none of them that is known to be nearer.
IsHeldOutside(boxes, cfg, answer) ==
    LET outside == Outside(boxes, cfg)
    IN  IF answer = 0 THEN ~cfg.tray \/ outside = {}
        ELSE /\ cfg.tray /\ answer \in outside
             /\ \A i \in outside :
                   IF cfg.preferNearest
                   THEN boxes[i].depth > 0 =>
                            0 < boxes[answer].depth /\ boxes[answer].depth <= boxes[i].depth
                   ELSE boxes[i].score <= boxes[answer].score

IsHeldBox(boxes, cfg, answer) ==
    LET valid == Valid(boxes, DOMAIN boxes)
    IN  IF answer = 0
        THEN valid = {} \/ \E i, j \in valid :
                i # j /\ boxes[i].depth < boxes[j].depth + cfg.advantage
                      /\ boxes[j].depth < boxes[i].depth + cfg.advantage
        ELSE /\ answer \in valid
             /\ \A i \in valid \ {answer} : boxes[i].depth >= boxes[answer].depth + cfg.advantage

\* What one selection should be.
IsSelected(s) ==
    LET scoped == Scoped(s.boxes, s.cfg) IN
    /\ IsTopSurface(s.boxes, scoped, s.cfg, TopSurface(s.boxes, scoped, s.cfg))
    /\ AreTargets(s.boxes, s.trays, s.cfg, Targets(s.boxes, s.trays, s.cfg))
    /\ IsHeldBox(s.boxes, s.cfg, HeldBox(s.boxes, s.cfg))
    /\ IsHeldOutside(s.boxes, s.cfg, HeldOutside(s.boxes, s.cfg))
=============================================================================
