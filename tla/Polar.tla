-------------------------------- MODULE Polar --------------------------------
(***************************************************************************)
(* The polar table of Performance: the search for the two entries a value  *)
(* lies between, and the pair kept from the search before while the whole  *)
(* part of the value is the same.  Values are in halves of a knot or       *)
(* degree; the interpolation in floating point is left out.                *)
(***************************************************************************)
EXTENDS Integers, FiniteSetsExt

CONSTANT MaxHalf  \* bound of the model: the greatest value looked up
ASSUME MaxHalfAssumption == MaxHalf \in Nat

VARIABLES
  axis,      \* the table searched
  idx,       \* twsidx or twaidx, from 0
  lastV,     \* lastTWSV or lastTWAV
  x,         \* the value looked up last
  warm       \* history: a value of one or more has been looked up

polarVars == <<axis, idx, lastV, x, warm>>

polar_tws == <<0, 4, 6, 8, 10, 12, 14, 16, 20, 25, 30, 35, 40, 45, 50, 55, 60>>
polar_twa == <<0, 5, 10, 15, 20, 25, 32, 36, 40, 45, 52, 60, 70, 80, 90, 100, 110, 120, 130,
               140, 150, 160, 170, 180>>

Above(v, a) == {i \in DOMAIN a : a[i] > v}

findIndexes(v, a) ==
  IF Above(v, a) = {} THEN <<Cardinality(DOMAIN a) - 1, Cardinality(DOMAIN a) - 1>>
  ELSE LET i == Min(Above(v, a)) - 1 IN IF i = 0 THEN <<0, 0>> ELSE <<i - 1, i>>

\* Mutant of Update: the value of the search is not kept.
UpdateOnly(v) ==
  /\ idx' = IF v # lastV THEN findIndexes(v, axis) ELSE idx
  /\ UNCHANGED lastV

\* updateTWSIdx() and updateTWAIdx()
Update(v) ==
  /\ idx' = IF v # lastV THEN findIndexes(v, axis) ELSE idx
  /\ lastV' = v

\* calcPolarSpeed() of a value, which the cast to uint8_t cuts off
LookUp(half) ==
  /\ Update(half \div 2)
  /\ x' = half
  /\ warm' = (warm \/ half >= 2)
  /\ UNCHANGED axis

PolarStep == \E half \in 0 .. MaxHalf : LookUp(half)

PolarInit ==
  /\ axis \in {polar_tws, polar_twa}
  /\ idx = <<0, 0>> /\ lastV = 0
  /\ x = 0 /\ warm = FALSE

----------------------------------------------------------------------------
\* The entries a speed is worked out from lie on either side of the value, in
\* whatever order values come, but for values below one before there was another.
PolarBrackets ==
  LET low  == 2 * axis[idx[1] + 1]
      high == 2 * axis[idx[2] + 1]
  IN  warm => low <= x /\ (x <= high \/ idx[2] = Cardinality(DOMAIN axis) - 1)
=============================================================================
