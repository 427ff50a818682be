---------------------------- MODULE MCOnlineGrasp ----------------------------
(* Scenes for TLC.                                                           *)
EXTENDS OnlineGrasp

Upright == [deficit |-> 0, sector |-> 0, state |-> "FLAT", sure |-> TRUE,
            conic |-> "unresolved", anchor |-> TRUE]
Steep == [Upright EXCEPT !.deficit = 2, !.sector = 2, !.state = "TILTED", !.conic = "steep"]
Unsure == [Upright EXCEPT !.deficit = 3, !.state = "UNCERTAIN"]

Flat == [class |-> "FLAT", dense |-> TRUE, reference |-> FALSE, inRange |-> TRUE, replanned |-> TRUE]
Tilted == [Flat EXCEPT !.class = "TILTED"]
Jammed == [Tilted EXCEPT !.replanned = FALSE]

\* Three rings, what no stage would read held fixed; a mouth seen edge on
\* without a candidate is like a ring without a mouth.
Verdicts ==
    {v \in [mouth : {"none", "edge", "flat", "round"}, clear : BOOLEAN,
            evidence : {Upright, Steep, Unsure}, surface : {Flat, Tilted, Jammed},
            rim : BOOLEAN, side : {"none", "axis", "ready"}] :
        /\ v.mouth = "none" => ~v.clear
        /\ v.mouth = "edge" => v.clear /\ v.side # "axis"
        /\ v.mouth = "round" => v.side = "none"
        /\ v.mouth \in {"none", "edge"} => v.evidence = Unsure /\ ~v.rim
        /\ ~v.clear => v.evidence # Upright
        /\ v.mouth = "flat" /\ ~v.clear => v.side # "axis"
        /\ v.evidence # Unsure \/ v.mouth # "round" \/ ~v.clear => v.surface = Flat
        /\ v.rim => v.evidence = Steep}

\* One ring, with all that can be seen of it.
Alone == [mouth : {"round"}, clear : {TRUE}, evidence : Evidence, surface : Surfaces,
          rim : {FALSE}, side : {"none"}]

SomeScenes ==
    [rings : [1..3 -> Verdicts], shallow : {<<3, 1, 2>>}, confident : {1, 3}]
    \cup [rings : [{1} -> Alone], shallow : {<<1>>}, confident : {1}]
=============================================================================
