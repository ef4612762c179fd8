------------------------------- MODULE MCParts -------------------------------
(* Inputs of Parts for TLC: values at and around each edge. *)
EXTENDS Parts

EdgeBearings == {-180, -1, 0, 360, 361, 539}
EdgeRelatives == {-180, -1, 0, 180, 181, 359}
EdgeTenths == {0, 4, 5, 9, 10, 295149, 655339, 655340, 655344}

\* As long as fits and longer, with and without a right checksum.
EdgeLines ==
  {[length |-> length, sums |-> sums, command |-> TRUE] : length \in {2, 3, 4}, sums \in BOOLEAN}
  \cup {[length |-> 3, sums |-> TRUE, command |-> FALSE]}

\* Tables whose loops go over more than one slot get two, the others one.
Slots == [table \in Tables |-> IF table \in {"heading", "dcBattery", "wind", "possition"} THEN 2 ELSE 1]

\* Messages that share a sentence, or the figures, come together.
BusGroups ==
  {{129025, 129029}, {127250, 127258}, {130306}, {127257, 127258}, {128259}, {127245}, {129026},
   {128267}, {128275}, {129283}, {130312}, {130314}, {130316}}
=============================================================================
