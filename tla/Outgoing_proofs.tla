--------------------------- MODULE Outgoing_proofs ---------------------------
(***************************************************************************)
(* Proofs about Outgoing, for all periods of at least a tick and three or  *)
(* more passes in one: no message of the BMS waits for its turn.           *)
(*                                                                         *)
(* What has been made in a tick or in the one before is not due again yet. *)
(* When a message is left over at the end of a tick, the passes of it were *)
(* used up, by three messages at least; so at most three are due in the    *)
(* next one, and these it has passes for.                                  *)
(***************************************************************************)
EXTENDS Outgoing, Integers, FiniteSetTheorems, TLAPS

----------------------------------------------------------------------------
(* The six messages. *)

LEMMA OneMore ==
  ASSUME NEW S, NEW x, IsFiniteSet(S), NEW n \in Nat, Cardinality(S) <= n
  PROVE  IsFiniteSet(S \cup {x}) /\ Cardinality(S \cup {x}) <= n + 1
<1>1. Cardinality(S) \in Nat
  BY FS_CardinalityType
<1>2. /\ IsFiniteSet(S \cup {x})
      /\ Cardinality(S \cup {x}) = Cardinality(S) \/ Cardinality(S \cup {x}) = Cardinality(S) + 1
  BY FS_AddElement
<1>3. QED
  BY <1>1, <1>2

LEMMA SixCount ==
  ASSUME NEW a, NEW b, NEW c, NEW d, NEW e, NEW f
  PROVE  IsFiniteSet({a, b, c, d, e, f}) /\ Cardinality({a, b, c, d, e, f}) <= 6
<1>1. IsFiniteSet({}) /\ Cardinality({}) <= 0
  BY FS_EmptySet
<1>2. /\ 0 + 1 = 1 /\ 1 + 1 = 2 /\ 2 + 1 = 3 /\ 3 + 1 = 4 /\ 4 + 1 = 5 /\ 5 + 1 = 6
      /\ 0 \in Nat /\ 1 \in Nat /\ 2 \in Nat /\ 3 \in Nat /\ 4 \in Nat /\ 5 \in Nat
  OBVIOUS
<1>3. /\ IsFiniteSet({} \cup {a})
      /\ Cardinality({} \cup {a}) <= 1
  <2>1. /\ IsFiniteSet({} \cup {a})
        /\ Cardinality({} \cup {a}) <= 0 + 1
    BY <1>1, <1>2, OneMore, Zenon
  <2>2. QED
    BY <1>2, <2>1, Zenon
<1>4. /\ IsFiniteSet({} \cup {a} \cup {b})
      /\ Cardinality({} \cup {a} \cup {b}) <= 2
  <2>1. /\ IsFiniteSet(({} \cup {a}) \cup {b})
        /\ Cardinality(({} \cup {a}) \cup {b}) <= 1 + 1
    BY <1>3, <1>2, OneMore, Zenon
  <2>2. QED
    BY <1>2, <2>1, Zenon
<1>5. /\ IsFiniteSet({} \cup {a} \cup {b} \cup {c})
      /\ Cardinality({} \cup {a} \cup {b} \cup {c}) <= 3
  <2>1. /\ IsFiniteSet(({} \cup {a} \cup {b}) \cup {c})
        /\ Cardinality(({} \cup {a} \cup {b}) \cup {c}) <= 2 + 1
    BY <1>4, <1>2, OneMore, Zenon
  <2>2. QED
    BY <1>2, <2>1, Zenon
<1>6. /\ IsFiniteSet({} \cup {a} \cup {b} \cup {c} \cup {d})
      /\ Cardinality({} \cup {a} \cup {b} \cup {c} \cup {d}) <= 4
  <2>1. /\ IsFiniteSet(({} \cup {a} \cup {b} \cup {c}) \cup {d})
        /\ Cardinality(({} \cup {a} \cup {b} \cup {c}) \cup {d}) <= 3 + 1
    BY <1>5, <1>2, OneMore, Zenon
  <2>2. QED
    BY <1>2, <2>1, Zenon
<1>7. /\ IsFiniteSet({} \cup {a} \cup {b} \cup {c} \cup {d} \cup {e})
      /\ Cardinality({} \cup {a} \cup {b} \cup {c} \cup {d} \cup {e}) <= 5
  <2>1. /\ IsFiniteSet(({} \cup {a} \cup {b} \cup {c} \cup {d}) \cup {e})
        /\ Cardinality(({} \cup {a} \cup {b} \cup {c} \cup {d}) \cup {e}) <= 4 + 1
    BY <1>6, <1>2, OneMore, Zenon
  <2>2. QED
    BY <1>2, <2>1, Zenon
<1>8. /\ IsFiniteSet({} \cup {a} \cup {b} \cup {c} \cup {d} \cup {e} \cup {f})
      /\ Cardinality({} \cup {a} \cup {b} \cup {c} \cup {d} \cup {e} \cup {f}) <= 6
  <2>1. /\ IsFiniteSet(({} \cup {a} \cup {b} \cup {c} \cup {d} \cup {e}) \cup {f})
        /\ Cardinality(({} \cup {a} \cup {b} \cup {c} \cup {d} \cup {e}) \cup {f}) <= 5 + 1
    BY <1>7, <1>2, OneMore, Zenon
  <2>2. QED
    BY <1>2, <2>1, Zenon
<1>9. {a, b, c, d, e, f} = {} \cup {a} \cup {b} \cup {c} \cup {d} \cup {e} \cup {f}
  OBVIOUS
<1>10. QED
  BY <1>8, <1>9

LEMMA KindsCount == IsFiniteSet(Kinds) /\ Cardinality(Kinds) <= 6
<1>1. DOMAIN Order = {1, 2, 3, 4, 5, 6}
  <2>1. DOMAIN Order = 1 .. 6
    BY DEF Order
  <2>2. 1 .. 6 = {1, 2, 3, 4, 5, 6}
    OBVIOUS
  <2>3. QED
    BY <2>1, <2>2
<1>2. Kinds = {Order[1], Order[2], Order[3], Order[4], Order[5], Order[6]}
  BY <1>1, Zenon DEF Kinds
<1>3. QED
  BY <1>2, SixCount

LEMMA PeriodsAre == \A kind \in Kinds : Period[kind] \in Nat /\ Period[kind] >= 1
BY PeriodAssumption

----------------------------------------------------------------------------
(* What is made in a tick. *)

Aged(n) == {kind \in Kinds : age[kind] = n}
Waiting == Kinds \ {3, 4}

OutgoingTypeOK == age \in [Kinds -> Nat] /\ passes \in 0 .. PassesPerTick /\ up \in Nat

\* Those left over once, and none twice.
LeftOver == \A kind \in Waiting : age[kind] > Period[kind] + 1 => Cardinality(Aged(1)) >= 3

PromptInv ==
  /\ OutgoingTypeOK
  /\ Cardinality(Aged(0)) >= passes
  /\ up >= 1 => LeftOver
  /\ up >= 2 => \A kind \in Waiting : age[kind] <= Period[kind] + 2

LEMMA AgedFinite ==
  ASSUME NEW n
  PROVE  IsFiniteSet(Aged(n)) /\ Cardinality(Aged(n)) \in Nat
<1>1. Aged(n) \subseteq Kinds
  BY DEF Aged
<1>2. QED
  BY <1>1, KindsCount, FS_Subset, FS_CardinalityType

\* With three messages made in this tick and three in the last, none is left.
LEMMA NoneLeftTwice ==
  ASSUME Cardinality(Aged(0)) >= 3, Cardinality(Aged(1)) >= 3, NEW kind \in Kinds
  PROVE  age[kind] \in {0, 1}
<1>1. SUFFICES ASSUME age[kind] \notin {0, 1} PROVE FALSE
  OBVIOUS
<1> DEFINE made == Aged(0) \cup Aged(1)
<1>2. Aged(0) \cap Aged(1) = {}
  BY DEF Aged
<1>3. IsFiniteSet(made) /\ Cardinality(made) = Cardinality(Aged(0)) + Cardinality(Aged(1)) - 0
  BY <1>2, AgedFinite, FS_Union, FS_EmptySet
<1>4. kind \notin made
  BY <1>1 DEF Aged
<1>5. IsFiniteSet(made \cup {kind}) /\ Cardinality(made \cup {kind}) = Cardinality(made) + 1
  BY <1>3, <1>4, FS_AddElement
<1>6. made \cup {kind} \subseteq Kinds
  BY DEF Aged
<1>7. Cardinality(made \cup {kind}) <= 6
  <2>1. Cardinality(made \cup {kind}) <= Cardinality(Kinds)
    BY <1>6, KindsCount, FS_Subset
  <2>2. Cardinality(Kinds) \in Nat /\ Cardinality(made \cup {kind}) \in Nat
    BY <1>5, KindsCount, FS_CardinalityType
  <2>3. QED
    BY <2>1, <2>2, KindsCount
<1>8. Cardinality(Aged(0)) \in Nat /\ Cardinality(Aged(1)) \in Nat
  BY AgedFinite
<1>9. Cardinality(made) \in Nat
  BY <1>3, FS_CardinalityType
<1> HIDE DEF made
<1>10. QED
  BY <1>3, <1>5, <1>7, <1>8, <1>9

LEMMA BuildKeeps == PromptInv /\ Build => PromptInv'
<1>1. SUFFICES ASSUME PromptInv, Build PROVE PromptInv'
  OBVIOUS
<1>2. PICK made \in Kinds :
        /\ Due(made) /\ age' = [age EXCEPT ![made] = 0] /\ UNCHANGED up
        /\ passes' = IF passes < PassesPerTick THEN passes + 1 ELSE passes
  BY <1>1 DEF Build, Stamped, Kinds
<1>3. age \in [Kinds -> Nat] /\ passes \in 0 .. PassesPerTick /\ PassesPerTick \in Nat
  BY <1>1, PeriodAssumption DEF PromptInv, OutgoingTypeOK
<1>4. age[made] > Period[made] /\ Period[made] \in Nat /\ Period[made] >= 1 /\ age[made] \in Nat
  BY <1>2, <1>3, PeriodsAre DEF Due
<1>5. OutgoingTypeOK'
  <2>1. age' \in [Kinds -> Nat]
    BY <1>2, <1>3
  <2>2. passes' \in 0 .. PassesPerTick
    BY <1>2, <1>3
  <2>3. QED
    BY <1>1, <1>2, <2>1, <2>2 DEF PromptInv, OutgoingTypeOK
<1>6. Aged(1)' = Aged(1)
  <2>1. age[made] # 1 /\ age'[made] # 1
    BY <1>2, <1>3, <1>4
  <2>2. \A kind \in Kinds : kind # made => age'[kind] = age[kind]
    BY <1>2, <1>3
  <2>3. QED
    BY <2>1, <2>2 DEF Aged
<1>7. Cardinality(Aged(0)') >= passes'
  <2>1. Aged(0)' = Aged(0) \cup {made} /\ made \notin Aged(0)
    BY <1>2, <1>3, <1>4 DEF Aged
  <2>2. Cardinality(Aged(0)') = Cardinality(Aged(0)) + 1
    BY <2>1, AgedFinite, FS_AddElement
  <2>3. Cardinality(Aged(0)) \in Nat /\ Cardinality(Aged(0)) >= passes
    BY <1>1, AgedFinite DEF PromptInv
  <2>4. QED
    BY <1>2, <1>3, <2>2, <2>3
<1>8. \A kind \in Kinds : age'[kind] = age[kind] \/ age'[kind] = 0
  BY <1>2, <1>3
<1>9. up' >= 1 => LeftOver'
  <2>1. SUFFICES ASSUME up >= 1, NEW kind \in Waiting, age'[kind] > Period[kind] + 1
                 PROVE  Cardinality(Aged(1)') >= 3
    BY <1>2 DEF LeftOver, Waiting
  <2>2. kind \in Kinds /\ Period[kind] \in Nat
    BY PeriodsAre DEF Waiting
  <2>3. age'[kind] = age[kind]
    BY <1>8, <2>1, <2>2
  <2>4. QED
    BY <1>1, <1>6, <2>1, <2>3 DEF PromptInv, LeftOver
<1>10. ASSUME up' >= 2, NEW kind \in Waiting PROVE age'[kind] <= Period[kind] + 2
  <2>1. kind \in Kinds /\ Period[kind] \in Nat
    BY PeriodsAre DEF Waiting
  <2>2. age[kind] <= Period[kind] + 2
    BY <1>1, <1>2, <1>10 DEF PromptInv
  <2>3. QED
    BY <1>8, <2>1, <2>2
<1>11. QED
  BY <1>5, <1>7, <1>9, <1>10 DEF PromptInv, Waiting

\* Everything is a tick older, and what was made in the last one is of age one.
LEMMA TickAges ==
  ASSUME PromptInv, Tick
  PROVE  /\ age' \in [Kinds -> Nat] /\ Aged(1)' = Aged(0) /\ Aged(0)' = {}
         /\ \A kind \in Kinds : age'[kind] <= age[kind] + 1
<1>1. age \in [Kinds -> Nat]
  BY DEF PromptInv, OutgoingTypeOK
<1>2. ASSUME NEW kind \in Kinds
      PROVE  /\ age'[kind] \in Nat /\ age'[kind] <= age[kind] + 1 /\ age'[kind] # 0
             /\ age'[kind] = 1 <=> age[kind] = 0
  <2> DEFINE bound == Period[kind] + (IF kind \in {3, 4} THEN 1 ELSE 3)
  <2>1. bound \in Nat /\ bound >= 2
    BY PeriodsAre
  <2>2. age'[kind] = Older(age[kind], bound)
    BY DEF Tick
  <2> HIDE DEF bound
  <2>3. age[kind] \in Nat
    BY <1>1
  <2>4. QED
    BY <2>1, <2>2, <2>3 DEF Older
<1>3. age' = [kind \in Kinds |-> age'[kind]]
  BY DEF Tick
<1>4. QED
  BY <1>2, <1>3 DEF Aged

LEMMA TickKeeps == PromptInv /\ Tick => PromptInv'
<1>1. SUFFICES ASSUME PromptInv, Tick PROVE PromptInv'
  OBVIOUS
<1>2. /\ age' \in [Kinds -> Nat] /\ Aged(1)' = Aged(0) /\ Aged(0)' = {}
      /\ \A kind \in Kinds : age'[kind] <= age[kind] + 1
  BY <1>1, TickAges
<1>3. /\ age \in [Kinds -> Nat] /\ passes \in 0 .. PassesPerTick /\ up \in Nat
      /\ PassesPerTick \in Nat /\ PassesPerTick >= 3
  BY <1>1, PeriodAssumption DEF PromptInv, OutgoingTypeOK
<1>4. passes' = 0 /\ up' = IF canUp THEN Older(up, Settled) ELSE 0
  BY <1>1 DEF Tick
<1>5. up' \in Nat /\ (up' >= 1 => canUp) /\ (up' >= 2 => up >= 1)
  BY <1>3, <1>4 DEF Older, Settled
<1>6. OutgoingTypeOK'
  BY <1>2, <1>3, <1>4, <1>5 DEF OutgoingTypeOK
<1>7. Cardinality(Aged(0)') >= passes'
  BY <1>2, <1>4, FS_EmptySet
<1>8. ASSUME canUp, NEW kind \in Waiting, age[kind] > Period[kind]
      PROVE  Cardinality(Aged(0)) >= 3
  <2>1. ~NoneDue
    BY <1>8 DEF NoneDue, Due, Waiting
  <2>2. passes = PassesPerTick
    BY <1>1, <1>8, <2>1 DEF Tick
  <2>3. Cardinality(Aged(0)) \in Nat /\ Cardinality(Aged(0)) >= passes
    BY <1>1, AgedFinite DEF PromptInv
  <2>4. QED
    BY <1>3, <2>2, <2>3
<1>9. ASSUME NEW kind \in Waiting
      PROVE  /\ kind \in Kinds /\ Period[kind] \in Nat /\ Period[kind] >= 1
             /\ age[kind] \in Nat /\ age'[kind] \in Nat /\ age'[kind] <= age[kind] + 1
  BY <1>2, <1>3, PeriodsAre DEF Waiting
<1>10. up' >= 1 => LeftOver'
  <2>1. SUFFICES ASSUME canUp, NEW kind \in Waiting, age'[kind] > Period[kind] + 1
                 PROVE  Cardinality(Aged(1)') >= 3
    BY <1>5 DEF LeftOver, Waiting
  <2>2. age[kind] > Period[kind]
    BY <1>9, <2>1
  <2>3. QED
    BY <1>2, <1>8, <2>1, <2>2
<1>11. ASSUME up' >= 2, NEW kind \in Waiting PROVE age'[kind] <= Period[kind] + 2
  <2>1. age[kind] <= Period[kind] + 1
    <3>1. SUFFICES ASSUME age[kind] > Period[kind] + 1 PROVE FALSE
      BY <1>9
    <3>2. Cardinality(Aged(1)) >= 3
      BY <1>1, <1>5, <1>11, <3>1 DEF PromptInv, LeftOver
    <3>3. Cardinality(Aged(0)) >= 3
      <4>1. age[kind] > Period[kind] /\ canUp
        <5>1. up' >= 1
          BY <1>5, <1>11
        <5>2. QED
          BY <1>5, <1>9, <3>1, <5>1
      <4>2. QED
        BY <1>8, <4>1
    <3>4. age[kind] \in {0, 1}
      BY <1>9, <3>2, <3>3, NoneLeftTwice
    <3>5. QED
      BY <1>9, <3>1, <3>4
  <2>2. QED
    BY <1>9, <2>1
<1>12. QED
  BY <1>6, <1>7, <1>10, <1>11 DEF PromptInv, Waiting

LEMMA PromptStep == PromptInv /\ [Next]_vars => PromptInv'
<1>1. SUFFICES ASSUME PromptInv, [Next]_vars PROVE PromptInv'
  OBVIOUS
<1>2. CASE UNCHANGED <<age, passes, up>>
  BY <1>1, <1>2 DEF PromptInv, OutgoingTypeOK, Aged, LeftOver, Waiting
<1>3. ASSUME NEW message \in Foreign, Receive(message) PROVE PromptInv'
  BY <1>2, <1>3 DEF Receive, bmsVars, passVars
<1>4. ASSUME NEW kind \in {3, 4}, CopyRegister(kind) PROVE PromptInv'
  BY <1>2, <1>4 DEF CopyRegister, passVars
<1>5. CASE Route
  BY <1>2, <1>5 DEF Route, bmsVars
<1>6. CASE SwitchNetwork
  BY <1>2, <1>6 DEF SwitchNetwork, bmsVars, passVars
<1>7. CASE SwitchCan
  <2>1. UNCHANGED <<age, passes>> /\ up' = 0
    BY <1>7 DEF SwitchCan, bmsVars, passVars
  <2>2. QED
    BY <1>1, <2>1 DEF PromptInv, OutgoingTypeOK, Aged
<1>8. CASE UNCHANGED vars
  BY <1>2, <1>8 DEF vars, bmsVars, passVars
<1>9. QED
  BY <1>1, <1>3, <1>4, <1>5, <1>6, <1>7, <1>8, BuildKeeps, TickKeeps DEF Next

LEMMA PromptInitially == Init => PromptInv
<1>1. SUFFICES ASSUME Init PROVE PromptInv
  OBVIOUS
<1>2. age \in [Kinds -> Nat] /\ passes = 0 /\ up = 0 /\ PassesPerTick \in Nat
  BY <1>1, PeriodAssumption DEF Init
<1>3. Cardinality(Aged(0)) \in Nat
  BY AgedFinite
<1>4. QED
  BY <1>2, <1>3 DEF PromptInv, OutgoingTypeOK

\* Once CAN has been up for a while, each message of the BMS that does not wait for its answers is
\* made within two ticks of its period, whatever else is due: setN2KMsg(), which makes the first
\* that is due and keeps the time it did.
THEOREM MessagesArePrompt == Spec => []Prompt
<1>1. PromptInv => Prompt
  BY DEF PromptInv, Prompt, Settled, Waiting
<1>2. QED
  BY <1>1, PromptInitially, PromptStep, PTL DEF Spec
=============================================================================
