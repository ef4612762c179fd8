----------------------------- MODULE Performance -----------------------------
(***************************************************************************)
(* Performance::update(): what is worked out from the six values it is     *)
(* given, each of which may be missing (-1e9).  Numbers are left out; an   *)
(* output is missing, or from this calculation, or left from an earlier    *)
(* one, or a number made from one that is missing.                         *)
(*                                                                         *)
(* A call less than MIN_CALCULATION_PERIOD after the last does nothing and *)
(* is not a step: "this calculation" is the last that was made.            *)
(***************************************************************************)
EXTENDS Naturals

VARIABLES
  given,   \* the inputs of the last calculation that were there
  result   \* of each output: "none", "now", "old" or "invented"

performanceVars == <<given, result>>

PerformanceInputs == {"awa", "aws", "stw", "roll", "hdm", "variation"}

Outputs ==
  {"leeway", "twa", "tws", "polarSpeed", "polarSpeedRatio", "polarVmg", "vmg", "targetVmg",
   "targetTwa", "targetStw", "polarVmgRatio", "windDirectionMagnetic", "windDirectionTrue",
   "oppositeTrackHeadingMagnetic", "oppositeTrackMagnetic", "oppositeTrackHeadingTrue",
   "oppositeTrackTrue"}

\* Mutant of Reset: one output is left out, as another is reset twice.
ResetNotTarget == Outputs \ {"leeway", "tws", "targetStw"}
\* The outputs set to -1e9 at the start; twa is set twice and tws is not.
Reset == Outputs \ {"leeway", "tws"}

\* A number made from these inputs.
From(inputs) == IF inputs \subseteq given' THEN "now" ELSE "invented"

\* if ( awa != -1e9 && stw != -1e9 ): the wind speed is not asked after.
HasWind == {"awa", "stw"} \subseteq given'

\* The comparisons of numbers go either way: polarSpeed > 1E-8, a target above zero found,
\* targetVmg > 1E-8.
WindOutputs(fast, found, real) ==
  {"twa", "tws", "polarSpeed", "polarVmg", "vmg"}
  \cup (IF fast THEN {"polarSpeedRatio"} ELSE {})
  \cup (IF found THEN {"targetVmg", "targetTwa", "targetStw"} ELSE {})
  \cup (IF found /\ real THEN {"polarVmgRatio"} ELSE {})

\* variation != -1e-9 is true of a variation that is missing, -1e9, too.
ViaVariation ==
  {"windDirectionTrue", "oppositeTrackHeadingMagnetic", "oppositeTrackMagnetic",
   "oppositeTrackHeadingTrue", "oppositeTrackTrue"}

HeadingOutputs(found) ==
  {"windDirectionMagnetic", "windDirectionTrue"} \cup (IF found THEN ViaVariation ELSE {})

Inputs(output) ==
  CASE output \in ViaVariation            -> {"aws", "hdm", "variation"}
    [] output = "windDirectionMagnetic"   -> {"aws", "hdm"}
    [] output = "vmg"                     -> {"aws", "stw"}
    [] OTHER                              -> {"aws"}

\* leeway is zero, or worked out from a roll and a speed that are there.
UpdatePerformance(inputs) ==
  /\ given' = inputs
  /\ \E fast, found, real \in BOOLEAN :
       LET wind    == IF HasWind THEN WindOutputs(fast, found, real) ELSE {}
           heading == IF HasWind /\ "hdm" \in inputs THEN HeadingOutputs(found) ELSE {}
       IN  result' = [output \in Outputs |->
             CASE output = "leeway"                      -> "now"
               [] output \in wind \cup heading           -> From(Inputs(output))
               [] output \in Reset \ (wind \cup heading) -> "none"
               [] OTHER                                  -> IF result[output] = "none" THEN "none" ELSE "old"]

PerformanceStep == \E inputs \in SUBSET PerformanceInputs : UpdatePerformance(inputs)

PerformanceInit ==
  /\ given = {}
  /\ result = [output \in Outputs |-> "none"]

----------------------------------------------------------------------------
\* Whichever inputs come and go between calculations, no output outlives the inputs it
\* came from, and one made from a missing input only appears where the wind speed or the
\* variation is missing, which update() does not look at - but tws, which is never reset.
PerformanceFresh ==
  \A output \in Outputs :
    /\ result[output] = "old" => output = "tws"
    /\ result[output] = "invented" =>
         "aws" \notin given \/ (output \in ViaVariation /\ "variation" \notin given)
    /\ result[output] = "now" /\ output # "leeway" => {"awa", "stw"} \subseteq given
=============================================================================
