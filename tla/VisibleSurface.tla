---------------------------- MODULE VisibleSurface ----------------------------
(* The two decisions about a foam ring whose mouth is visible: the class that *)
(* attach_m3950_visible_mouth_axis_validation gives it and the route that      *)
(* apply_m39341_tilted_production_routing gives its candidate.  Evidence is    *)
(* kept as the level it reaches among the thresholds of the code:              *)
(*   deficit  flatness lost by the mouth's ellipse: -1 not measured, 0 within  *)
(*            the upright limit, 1 between, 2 beyond the tilted limit, 3 strong;*)
(*   sector   depth gradient round the annulus: 0 quiet, 1 neither, 2 beyond   *)
(*            the transition limits, 3 beyond the flat anchor's limits;         *)
(*   state, sure  the prior M39.3.1 state, and whether its confidence counts;  *)
(*   conic    the signed axis: "unresolved", or found at a "mild" or "steep"    *)
(*            angle (30 degrees parts them);                                    *)
(*   anchor   M38.1 has a clock-3 candidate on a sound front surface.           *)
EXTENDS Integers

Evidence == [deficit : -1..3, sector : 0..3, state : {"FLAT", "UNCERTAIN", "TILTED"},
             sure : BOOLEAN, conic : {"unresolved", "mild", "steep"}, anchor : BOOLEAN]

WithoutAnchor(e) == [e EXCEPT !.anchor = FALSE]

ShapeState(e) ==
    CASE e.deficit = 0 -> "UPRIGHT"
      [] e.deficit >= 2 -> "TILTED"
      [] e.deficit = 1 /\ e.sector >= 2 -> "TILTED"
      [] e.deficit = 1 /\ e.sector = 0 /\ e.state = "FLAT" -> "UPRIGHT"
      [] OTHER -> "TRANSITION"

\* Mutant of KeepsFlatAnchor: the limit of the deformation is read backwards.
KeepsDeformedAnchor(e) ==
    /\ e.anchor
    /\ e.deficit = -1 \/ e.deficit >= 3
    /\ ~(e.sure /\ e.state = "TILTED")
    /\ ~(e.sure /\ e.sector = 3)

\* An unresolved axis does not cost the flat candidate while nothing speaks
\* for a tilt.
KeepsFlatAnchor(e) ==
    /\ e.anchor
    /\ e.deficit < 3
    /\ ~(e.sure /\ e.state = "TILTED")
    /\ ~(e.sure /\ e.sector = 3)

Classification(e) ==
    CASE ShapeState(e) = "UPRIGHT" \/ e.conic = "mild" -> "UPRIGHT_VISIBLE"
      [] ShapeState(e) # "UPRIGHT" /\ e.conic = "steep" -> "TILTED_VISIBLE_SIDE"
      [] ShapeState(e) # "UPRIGHT" /\ e.conic = "unresolved" ->
            IF KeepsFlatAnchor(e) THEN "UPRIGHT_VISIBLE" ELSE "UNCERTAIN"

-----------------------------------------------------------------------------
(* The analytic surface of M39.3.4: its class, whether direct depth supports  *)
(* it ("dense"), whether the solver chose the floor as its reference; with a  *)
(* tilt in the permitted range, and a replanned clock that passes the checks. *)

Surfaces == [class : {"FLAT", "TILTED", "UNCERTAIN"}, dense : BOOLEAN, reference : BOOLEAN,
             inRange : BOOLEAN, replanned : BOOLEAN]

\* The flat candidate stands against a tilt that depth does not support.
ProtectsFlat(e, s) ==
    /\ e.state = "FLAT" /\ e.sure
    /\ \/ s.class = "TILTED" /\ ~s.dense
       \/ s.class = "UNCERTAIN" /\ (s.reference \/ ~s.dense)

\* "keep" the flat candidate, "replan" it on the tilted plane or "reject" it.
Routing(e, s) ==
    CASE s.class = "FLAT" \/ ProtectsFlat(e, s) -> "keep"
      [] s.class = "TILTED" /\ ~ProtectsFlat(e, s) /\ s.inRange /\ s.replanned -> "replan"
      [] OTHER -> "reject"

-----------------------------------------------------------------------------
(* Order of evidence for a tilt; the axis and the anchor are the same.        *)
StateRank(state) == CASE state = "FLAT" -> 0 [] state = "UNCERTAIN" -> 1 [] state = "TILTED" -> 2
=============================================================================
