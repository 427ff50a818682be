-------------------------- MODULE MCPlacementService --------------------------
EXTENDS PlacementService
CONSTANTS k1, k2
TwoClients == {k1, k2}

\* As shipped, and as the code's defaults are.
SomeStatus == {[enabled |-> on, onConnect |-> on] : on \in BOOLEAN}

\* Up to three boxes, in image order or against it; depths that make equal, on
\* the limit and just beyond it; every setting of the cut.
Stacked == [depth : {0, 1, 2, 3, 5}, score : 1..2, at : 1..2,
            inside : {TRUE}, clear : {TRUE}, overlap : {0}]
Stacks == UNION {[1..n -> Stacked] : n \in 0..3}
Cuts == {[gap |-> g, span |-> p, maxItems |-> m, filter |-> FALSE, tray |-> FALSE, withoutTray |-> FALSE,
          advantage |-> p - 1, maxOverlap |-> 0, preferNearest |-> TRUE] :
           g \in 1..2, p \in 1..3, m \in 1..2}

\* Boxes on and off the tray, and trays, for what is chosen by place.
Around == [depth : {0, 1, 3}, score : 1..2, at : {1}, inside : BOOLEAN, clear : BOOLEAN, overlap : 0..1]
OnAndOff == UNION {[1..n -> {b \in Around : b.inside # b.clear}] : n \in 0..3}
SomeTrays == UNION {[1..n -> [depth : 0..1, score : 1..2, area : 1..2]] : n \in 0..2}
Regions == {[gap |-> 1, span |-> 1, maxItems |-> 2, filter |-> f, tray |-> t, withoutTray |-> w,
             advantage |-> 1, maxOverlap |-> o, preferNearest |-> f] :
              f \in BOOLEAN, t \in BOOLEAN, w \in BOOLEAN, o \in 0..1}

SomeSelections ==
    [boxes : Stacks, trays : {<<>>}, cfg : Cuts]
      \cup [boxes : UNION {[1..n -> Around] : n \in 0..1}, trays : SomeTrays, cfg : Regions]
      \cup [boxes : OnAndOff, trays : {<<>>}, cfg : Regions]
=============================================================================
