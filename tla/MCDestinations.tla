--------------------------- MODULE MCDestinations ---------------------------
(* Two rows whose settings differ in sensitivity, threshold, part-time and  *)
(* enabled; replies at and above the lower threshold.                       *)
EXTENDS Destinations

Setting(t, n, e, p) == [threshold |-> t, sensitivity |-> n, enabled |-> e, partTime |-> p]

MCConfigs == {Setting(t, n, TRUE, FALSE) : t \in {1, 2}, n \in {0, 2}}
             \cup {Setting(1, 1, TRUE, TRUE), Setting(1, 0, FALSE, FALSE)}
=============================================================================
