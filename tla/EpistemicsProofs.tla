-------------------------- MODULE EpistemicsProofs --------------------------
(***************************************************************************)
(* What holds of Epistemics for every scale, every threshold and every     *)
(* number of pieces of evidence, as far as the score is exact and where    *)
(* rounding decides.                                                       *)
(***************************************************************************)
EXTENDS Epistemics, TLAPS

Mass == [supported : Nat, contradicted : Nat, unresolved : Nat]

-----------------------------------------------------------------------------
(* Arithmetic. *)

LEMMA ProductType ==
    ASSUME NEW m \in Nat, NEW n \in Nat
    PROVE  m * n \in Nat
OBVIOUS

LEMMA ProductMonotone ==
    ASSUME NEW m \in Int, NEW n \in Int, NEW k \in Nat, m <= n
    PROVE  m * k <= n * k /\ k * m <= k * n
OBVIOUS

LEMMA ProductSign ==
    ASSUME NEW m \in Int, NEW k \in Nat \ {0}, m * k >= 0
    PROVE  m >= 0
OBVIOUS

LEMMA ProductZero ==
    ASSUME NEW m \in Nat, NEW k \in Nat, m * k = 0
    PROVE  m = 0 \/ k = 0
OBVIOUS

LEMMA ReferenceType == ReferenceWeight \in Nat \ {0}
BY EpistemicsAssumption DEF ReferenceWeight

LEMMA Scales ==
    /\ Scale \in Nat \ {0}
    /\ \A t \in UnitInterval : t \in Nat /\ t <= Scale
    /\ \A t \in Thresholds : t \in Int
BY EpistemicsAssumption DEF UnitInterval

(* What the sums of valid evidence come to. *)
LEMMA MassBounds ==
    ASSUME NEW m \in Mass
    PROVE  /\ m.supported \in Nat /\ m.contradicted \in Nat /\ m.unresolved \in Nat
           /\ EvidenceWeight(m) \in Nat
           /\ EvidenceWeight(m) = m.supported + m.contradicted + m.unresolved
           /\ Base(m) \in Nat \ {0}
           /\ Base(m) >= EvidenceWeight(m) /\ Base(m) >= ReferenceWeight
           /\ Base(m) = EvidenceWeight(m) \/ Base(m) = ReferenceWeight
BY ReferenceType DEF Mass, EvidenceWeight, Base, Larger

-----------------------------------------------------------------------------
(* The score against the threshold.                                        *)

Net(m) == (m.supported - m.contradicted) * Scale
Bound(m, t) == t * Base(m)
Rounded(m) == m.supported + m.contradicted > 0

LEMMA ScoreStatesOf ==
    ASSUME NEW m \in Mass, NEW t \in UnitInterval
    PROVE  /\ Net(m) \in Int /\ Bound(m, t) \in Nat
           /\ ScoreStates(m, t) \subseteq EvidenceState
           /\ "+1" \in ScoreStates(m, t) <=>
                 Net(m) > Bound(m, t) \/ (Rounded(m) /\ Net(m) = Bound(m, t))
           /\ "-1" \in ScoreStates(m, t) <=>
                 -Net(m) > Bound(m, t) \/ (Rounded(m) /\ -Net(m) = Bound(m, t))
           /\ "0" \in ScoreStates(m, t) <=> Net(m) <= Bound(m, t) /\ -Net(m) <= Bound(m, t)
<1>1. Net(m) \in Int /\ Bound(m, t) \in Nat
  BY MassBounds, Scales DEF Net, Bound
<1>2. AbsValue(Net(m)) <= Bound(m, t) <=> Net(m) <= Bound(m, t) /\ -Net(m) <= Bound(m, t)
  BY <1>1 DEF AbsValue
<1>3. ScoreStates(m, t) =
        {s \in EvidenceState :
            \/ s = "+1" /\ (Net(m) > Bound(m, t) \/ (Rounded(m) /\ Net(m) = Bound(m, t)))
            \/ s = "-1" /\ (-Net(m) > Bound(m, t) \/ (Rounded(m) /\ -Net(m) = Bound(m, t)))
            \/ s = "0"  /\ AbsValue(Net(m)) <= Bound(m, t)}
  BY DEF ScoreStates, Net, Bound, Rounded
<1> HIDE DEF Net, Bound, Rounded
<1> QED
  BY <1>1, <1>2, <1>3 DEF EvidenceState

(* Evidence that counts has the states of its score, all other is          *)
(* unresolved.                                                             *)
LEMMA StatesByScore ==
    ASSUME NEW m \in Mass, NEW t \in UnitInterval
    PROVE  /\ States(m, t) \subseteq EvidenceState /\ States(m, t) # {}
           /\ \A s \in States(m, t) : s = "0" \/ s \in ScoreStates(m, t)
           /\ EvidenceWeight(m) > Negligible => States(m, t) = ScoreStates(m, t)
           /\ EvidenceWeight(m) < Negligible => States(m, t) = {"0"}
<1>1. EvidenceWeight(m) \in Nat /\ Negligible \in Nat
  BY MassBounds, EpistemicsAssumption
<1>2. ScoreStates(m, t) \subseteq EvidenceState /\ "0" \in EvidenceState
  BY ScoreStatesOf DEF EvidenceState
<1>3. ScoreStates(m, t) # {}
  BY ScoreStatesOf
<1> QED
  BY <1>1, <1>2, <1>3 DEF States

(* A claim is supported only with the greater mass, and so contradicted.   *)
LEMMA StateFollowsMass ==
    ASSUME NEW m \in Mass, NEW t \in UnitInterval
    PROVE  /\ "+1" \in States(m, t) => m.supported >= m.contradicted
           /\ "-1" \in States(m, t) => m.contradicted >= m.supported
<1>1. /\ "+1" \in States(m, t) => Net(m) >= 0
      /\ "-1" \in States(m, t) => -Net(m) >= 0
  BY ScoreStatesOf, StatesByScore
<1>2. -Net(m) = (m.contradicted - m.supported) * Scale
  BY MassBounds, Scales DEF Net
<1>3. /\ m.supported - m.contradicted \in Int /\ m.contradicted - m.supported \in Int
      /\ m.supported \in Int /\ m.contradicted \in Int
  BY MassBounds
<1>4. /\ Net(m) >= 0 => m.supported - m.contradicted >= 0
      /\ -Net(m) >= 0 => m.contradicted - m.supported >= 0
  BY <1>2, <1>3, Scales, ProductSign DEF Net
<1> QED
  BY <1>1, <1>3, <1>4

(* Less weight than the threshold's share of the reference decides nothing.*)
LEMMA WeakMassDecidesNothing ==
    ASSUME NEW m \in Mass, NEW t \in UnitInterval,
           EvidenceWeight(m) * Scale < t * ReferenceWeight
    PROVE  States(m, t) = {"0"} /\ ScoreStates(m, t) = {"0"}
<1>1. t * ReferenceWeight <= Bound(m, t)
  BY MassBounds, Scales, ReferenceType, ProductMonotone DEF Bound
<1>2. /\ Net(m) <= EvidenceWeight(m) * Scale
      /\ -Net(m) <= EvidenceWeight(m) * Scale
  <2>1. /\ m.supported - m.contradicted \in Int /\ m.contradicted - m.supported \in Int
        /\ m.supported - m.contradicted <= EvidenceWeight(m)
        /\ m.contradicted - m.supported <= EvidenceWeight(m)
        /\ EvidenceWeight(m) \in Int
    BY MassBounds
  <2>2. -Net(m) = (m.contradicted - m.supported) * Scale
    BY MassBounds, Scales DEF Net
  <2> QED
    BY <2>1, <2>2, Scales, ProductMonotone DEF Net
<1>3. EvidenceWeight(m) * Scale \in Nat /\ t * ReferenceWeight \in Nat
  BY MassBounds, Scales, ReferenceType, ProductType
<1>4. "+1" \notin ScoreStates(m, t) /\ "-1" \notin ScoreStates(m, t)
  BY <1>1, <1>2, <1>3, ScoreStatesOf
<1>5. /\ ScoreStates(m, t) \subseteq {"0"} /\ States(m, t) \subseteq {"0"}
      /\ States(m, t) # {}
  BY <1>4, ScoreStatesOf, StatesByScore DEF EvidenceState
<1>6. "0" \in ScoreStates(m, t)
  BY <1>4, ScoreStatesOf
<1> QED
  BY <1>5, <1>6

(* So evidence that counts has the states of its score.                    *)
LEMMA StatesOf ==
    ASSUME NEW m \in Mass, NEW t \in UnitInterval, Counts(m, t)
    PROVE  /\ Net(m) \in Int /\ Bound(m, t) \in Nat
           /\ States(m, t) \subseteq EvidenceState
           /\ "+1" \in States(m, t) <=>
                 Net(m) > Bound(m, t) \/ (Rounded(m) /\ Net(m) = Bound(m, t))
           /\ "-1" \in States(m, t) <=>
                 -Net(m) > Bound(m, t) \/ (Rounded(m) /\ -Net(m) = Bound(m, t))
           /\ "0" \in States(m, t) <=> Net(m) <= Bound(m, t) /\ -Net(m) <= Bound(m, t)
<1>1. EvidenceWeight(m) \in Nat /\ Negligible \in Nat
  BY MassBounds, EpistemicsAssumption
<1>2. CASE EvidenceWeight(m) > Negligible
  <2>1. States(m, t) = ScoreStates(m, t)
    BY <1>2, StatesByScore
  <2> QED
    BY <2>1, ScoreStatesOf
<1>3. CASE EvidenceWeight(m) <= Negligible
  <2>1. t * ReferenceWeight > Negligible * Scale
    BY <1>1, <1>3 DEF Counts
  <2>2. EvidenceWeight(m) * Scale <= Negligible * Scale
    BY <1>1, <1>3, Scales, ProductMonotone
  <2>3. /\ EvidenceWeight(m) * Scale \in Nat /\ Negligible * Scale \in Nat
        /\ t * ReferenceWeight \in Nat
    BY <1>1, Scales, ReferenceType, ProductType
  <2>4. EvidenceWeight(m) * Scale < t * ReferenceWeight
    BY <2>1, <2>2, <2>3
  <2>5. States(m, t) = ScoreStates(m, t)
    BY <2>4, WeakMassDecidesNothing
  <2> QED
    BY <2>5, ScoreStatesOf
<1> QED
  BY <1>1, <1>2, <1>3

-----------------------------------------------------------------------------
(* One more item.                                                          *)

LEMMA MaxOfRanks ==
    ASSUME NEW S, S \subseteq {-1, 0, 1}, S # {}
    PROVE  /\ Max(S) \in S /\ \A x \in S : x <= Max(S)
           /\ Min(S) \in S /\ \A x \in S : Min(S) <= x
<1>1. \E x \in S : \A y \in S : x >= y
  <2>1. CASE 1 \in S
    BY <2>1
  <2>2. CASE 1 \notin S /\ 0 \in S
    BY <2>2
  <2>3. CASE 1 \notin S /\ 0 \notin S
    <3>1. PICK x : x \in S
      OBVIOUS
    <3>2. \A y \in S : y = -1
      BY <2>3
    <3> QED
      BY <3>1, <3>2
  <2> QED
    BY <2>1, <2>2, <2>3
<1>2. \E x \in S : \A y \in S : x <= y
  <2>1. CASE -1 \in S
    BY <2>1
  <2>2. CASE -1 \notin S /\ 0 \in S
    BY <2>2
  <2>3. CASE -1 \notin S /\ 0 \notin S
    <3>1. PICK x : x \in S
      OBVIOUS
    <3>2. \A y \in S : y = 1
      BY <2>3
    <3> QED
      BY <3>1, <3>2
  <2> QED
    BY <2>1, <2>2, <2>3
<1> QED
  BY <1>1, <1>2 DEF Max, Min

LEMMA RanksOf ==
    ASSUME NEW m \in Mass, threshold \in UnitInterval
    PROVE  /\ Highest(m) \in {-1, 0, 1} /\ Lowest(m) \in {-1, 0, 1}
           /\ Highest(m) = 1 <=> "+1" \in States(m, threshold)
           /\ Highest(m) = -1 <=> States(m, threshold) = {"-1"}
           /\ Lowest(m) = -1 <=> "-1" \in States(m, threshold)
           /\ Lowest(m) = 1 <=> States(m, threshold) = {"+1"}
<1> DEFINE ranks == {Rank(s) : s \in States(m, threshold)}
<1>1. States(m, threshold) \subseteq {"+1", "0", "-1"}
  BY StatesByScore DEF EvidenceState
<1>2. States(m, threshold) # {}
  BY StatesByScore
<1>3. ranks \subseteq {-1, 0, 1} /\ ranks # {}
  BY <1>1, <1>2 DEF Rank
<1>4. /\ 1 \in ranks <=> "+1" \in States(m, threshold)
      /\ 0 \in ranks <=> "0" \in States(m, threshold)
      /\ -1 \in ranks <=> "-1" \in States(m, threshold)
  BY <1>1 DEF Rank
<1>5. Highest(m) = Max(ranks) /\ Lowest(m) = Min(ranks)
  BY DEF Highest, Lowest
<1> HIDE DEF ranks
<1>6. /\ Max(ranks) \in ranks /\ \A x \in ranks : x <= Max(ranks)
      /\ Min(ranks) \in ranks /\ \A x \in ranks : Min(ranks) <= x
  BY <1>3, MaxOfRanks
<1>7. /\ Max(ranks) \in {-1, 0, 1} /\ Min(ranks) \in {-1, 0, 1}
      /\ Max(ranks) = 1 <=> 1 \in ranks
      /\ Max(ranks) = -1 <=> 1 \notin ranks /\ 0 \notin ranks
      /\ Min(ranks) = -1 <=> -1 \in ranks
      /\ Min(ranks) = 1 <=> -1 \notin ranks /\ 0 \notin ranks
  <2>1. Max(ranks) \in {-1, 0, 1} /\ Min(ranks) \in {-1, 0, 1}
    BY <1>3, <1>6
  <2>2. \A x \in ranks : x = -1 \/ x = 0 \/ x = 1
    BY <1>3
  <2>3. Max(ranks) = 1 <=> 1 \in ranks
    BY <1>6, <2>1
  <2>4. Max(ranks) = -1 <=> 1 \notin ranks /\ 0 \notin ranks
    BY <1>6, <2>1
  <2>5. Min(ranks) = -1 <=> -1 \in ranks
    BY <1>6, <2>1
  <2>6. Min(ranks) = 1 <=> -1 \notin ranks /\ 0 \notin ranks
    BY <1>6, <2>1
  <2> QED
    BY <2>1, <2>3, <2>4, <2>5, <2>6
<1>8. /\ "+1" \notin States(m, threshold) /\ "0" \notin States(m, threshold)
           <=> States(m, threshold) = {"-1"}
      /\ "-1" \notin States(m, threshold) /\ "0" \notin States(m, threshold)
           <=> States(m, threshold) = {"+1"}
  BY <1>1, <1>2
<1> QED
  BY <1>4, <1>5, <1>7, <1>8

(* More support than the threshold's bound takes up moves the state up.    *)
LEMMA HigherScoreIsHigherState ==
    ASSUME NEW low \in Mass, NEW high \in Mass, threshold \in UnitInterval,
           Counts(low, threshold), Counts(high, threshold),
           Net(low) - Bound(low, threshold) <= Net(high) - Bound(high, threshold),
           Net(low) + Bound(low, threshold) <= Net(high) + Bound(high, threshold),
           Rounded(low) /\ Net(low) = Bound(low, threshold) => Rounded(high),
           Rounded(high) /\ -Net(high) = Bound(high, threshold)
              /\ -Net(low) = Bound(low, threshold) => Rounded(low)
    PROVE  Highest(high) >= Highest(low) /\ Lowest(high) >= Lowest(low)
<1>1. /\ Net(low) \in Int /\ Bound(low, threshold) \in Nat
      /\ Net(high) \in Int /\ Bound(high, threshold) \in Nat
  BY StatesOf
<1>2. "+1" \in States(low, threshold) => "+1" \in States(high, threshold)
  BY <1>1, StatesOf
<1>3. "-1" \in States(high, threshold) => "-1" \in States(low, threshold)
  BY <1>1, StatesOf
<1>4. States(high, threshold) = {"-1"} => States(low, threshold) = {"-1"}
  <2> SUFFICES ASSUME States(high, threshold) = {"-1"} PROVE States(low, threshold) = {"-1"}
    OBVIOUS
  <2>1. "+1" \notin States(high, threshold) /\ "0" \notin States(high, threshold)
    OBVIOUS
  <2>2. -Net(high) > Bound(high, threshold)
    BY <1>1, <2>1, StatesOf
  <2>3. -Net(low) > Bound(low, threshold)
    BY <1>1, <2>2
  <2>4. /\ "+1" \notin States(low, threshold) /\ "0" \notin States(low, threshold)
        /\ "-1" \in States(low, threshold)
    BY <1>1, <2>3, StatesOf
  <2> QED
    BY <2>4, StatesOf DEF EvidenceState
<1>5. States(low, threshold) = {"+1"} => States(high, threshold) = {"+1"}
  <2> SUFFICES ASSUME States(low, threshold) = {"+1"} PROVE States(high, threshold) = {"+1"}
    OBVIOUS
  <2>1. "-1" \notin States(low, threshold) /\ "0" \notin States(low, threshold)
    OBVIOUS
  <2>2. Net(low) > Bound(low, threshold)
    BY <1>1, <2>1, StatesOf
  <2>3. Net(high) > Bound(high, threshold)
    BY <1>1, <2>2
  <2>4. /\ "-1" \notin States(high, threshold) /\ "0" \notin States(high, threshold)
        /\ "+1" \in States(high, threshold)
    BY <1>1, <2>3, StatesOf
  <2> QED
    BY <2>4, StatesOf DEF EvidenceState
<1>6. /\ Highest(low) \in {-1, 0, 1} /\ Highest(high) \in {-1, 0, 1}
      /\ Lowest(low) \in {-1, 0, 1} /\ Lowest(high) \in {-1, 0, 1}
      /\ Highest(low) = 1 => Highest(high) = 1
      /\ Highest(high) = -1 => Highest(low) = -1
      /\ Lowest(high) = -1 => Lowest(low) = -1
      /\ Lowest(low) = 1 => Lowest(high) = 1
  BY <1>2, <1>3, <1>4, <1>5, RanksOf
<1> QED
  BY <1>6

(* The weight of a valid item. *)
LEMMA WeightType ==
    ASSUME NEW item, ItemIsValid(item)
    PROVE  ItemWeight(item) \in Nat
<1>1. item.confidence \in Nat /\ item.reliability \in Nat /\ item.provenance_quality \in Nat
  BY EpistemicsAssumption DEF ItemIsValid, UnitInterval
<1> QED
  BY <1>1, ProductType DEF ItemWeight

LEMMA WeighType ==
    ASSUME NEW m \in Mass, NEW item, ItemIsValid(item)
    PROVE  Weigh(m, item) \in Mass
<1>1. /\ Larger(item.direction, 0) \in Nat /\ Larger(-item.direction, 0) \in Nat
      /\ Scale - AbsValue(item.direction) \in Nat
  BY EpistemicsAssumption DEF ItemIsValid, Larger, AbsValue
<1>2. /\ ItemWeight(item) * Larger(item.direction, 0) \in Nat
      /\ ItemWeight(item) * Larger(-item.direction, 0) \in Nat
      /\ ItemWeight(item) * (Scale - AbsValue(item.direction)) \in Nat
  BY <1>1, WeightType, ProductType
<1> QED
  BY <1>2 DEF Weigh, Mass

(* What a purer item adds: all its weight on one side.                     *)
LEMMA PureItem ==
    ASSUME NEW m \in Mass, NEW item, ItemIsValid(item), NEW more, more = Weigh(m, item),
           NEW added, added = ItemWeight(item) * Scale
    PROVE  /\ added \in Nat
           /\ item.direction = Scale =>
                /\ more.supported = m.supported + added
                /\ more.contradicted = m.contradicted
                /\ more.unresolved = m.unresolved
           /\ item.direction = -Scale =>
                /\ more.supported = m.supported
                /\ more.contradicted = m.contradicted + added
                /\ more.unresolved = m.unresolved
           /\ item.direction = 0 =>
                /\ more.supported = m.supported
                /\ more.contradicted = m.contradicted
                /\ more.unresolved = m.unresolved + added
<1>1. ItemWeight(item) \in Nat /\ ItemWeight(item) * 0 = 0 /\ Scale \in Nat \ {0}
  BY WeightType, Scales
<1>2. added \in Nat
  BY <1>1, ProductType
<1>3. CASE item.direction = Scale
  <2>1. /\ Larger(item.direction, 0) = Scale /\ Larger(-item.direction, 0) = 0
        /\ Scale - AbsValue(item.direction) = 0
    BY <1>1, <1>3 DEF Larger, AbsValue
  <2> QED
    BY <1>1, <1>2, <1>3, <2>1, MassBounds DEF Weigh
<1>4. CASE item.direction = -Scale
  <2>1. /\ Larger(item.direction, 0) = 0 /\ Larger(-item.direction, 0) = Scale
        /\ Scale - AbsValue(item.direction) = 0
    BY <1>1, <1>4 DEF Larger, AbsValue
  <2> QED
    BY <1>1, <1>2, <1>4, <2>1, MassBounds DEF Weigh
<1>5. CASE item.direction = 0
  <2>1. /\ Larger(item.direction, 0) = 0 /\ Larger(-item.direction, 0) = 0
        /\ Scale - AbsValue(item.direction) = Scale
    <3>1. \A n \in Int : -n = 0 - n
      OBVIOUS
    <3>2. item.direction \in Int
      BY <1>5
    <3>3. -item.direction = 0 - item.direction
      BY <3>1, <3>2, Zenon
    <3> QED
      BY <1>1, <1>5, <3>3 DEF Larger, AbsValue
  <2> QED
    BY <1>1, <1>2, <1>5, <2>1, MassBounds DEF Weigh
<1> QED
  BY <1>2, <1>3, <1>4, <1>5

(* More weight raises the bound, by no more than the threshold's share. *)
LEMMA BoundGrows ==
    ASSUME NEW m \in Mass, NEW more \in Mass, NEW added \in Nat, NEW t \in UnitInterval,
           EvidenceWeight(more) = EvidenceWeight(m) + added
    PROVE  /\ Bound(m, t) <= Bound(more, t)
           /\ Bound(more, t) <= Bound(m, t) + added * Scale
           /\ added * Scale \in Nat
<1>1. /\ Base(m) \in Nat /\ Base(more) \in Nat
      /\ Base(m) <= Base(more) /\ Base(more) <= Base(m) + added
  BY MassBounds
<1>2. t \in Nat /\ t <= Scale /\ Scale \in Nat
  BY Scales
<1>3. t * Base(m) <= t * Base(more) /\ t * Base(more) <= t * (Base(m) + added)
  BY <1>1, <1>2, ProductMonotone
<1>4. t * (Base(m) + added) = t * Base(m) + t * added
  BY <1>1, <1>2
<1>5. t * added <= Scale * added /\ Scale * added = added * Scale
  BY <1>2, ProductMonotone
<1>6. t * added \in Nat /\ added * Scale \in Nat /\ t * Base(m) \in Nat /\ t * Base(more) \in Nat
  BY <1>1, <1>2, ProductType
<1> QED
  BY <1>3, <1>4, <1>5, <1>6 DEF Bound

LEMMA ItemMovesState ==
    ASSUME NEW m \in Mass, threshold \in UnitInterval, Counts(m, threshold),
           NEW item, ItemIsValid(item), NEW more, more = Weigh(m, item)
    PROVE  /\ item.direction = Scale =>
                Highest(more) >= Highest(m) /\ Lowest(more) >= Lowest(m)
           /\ item.direction = -Scale =>
                Highest(more) <= Highest(m) /\ Lowest(more) <= Lowest(m)
           /\ item.direction = 0 /\ States(m, threshold) = {"0"} =>
                States(more, threshold) = {"0"}
<1> DEFINE added == ItemWeight(item) * Scale
<1>1. more \in Mass /\ added \in Nat
  BY WeighType, PureItem
<1>2. /\ item.direction = Scale =>
           /\ more.supported = m.supported + added
           /\ more.contradicted = m.contradicted
           /\ more.unresolved = m.unresolved
      /\ item.direction = -Scale =>
           /\ more.supported = m.supported
           /\ more.contradicted = m.contradicted + added
           /\ more.unresolved = m.unresolved
      /\ item.direction = 0 =>
           /\ more.supported = m.supported
           /\ more.contradicted = m.contradicted
           /\ more.unresolved = m.unresolved + added
  BY PureItem
<1> HIDE DEF added
<1>3. item.direction \in {Scale, -Scale, 0} =>
         EvidenceWeight(more) = EvidenceWeight(m) + added
  BY <1>1, <1>2, MassBounds
<1>c. item.direction \in {Scale, -Scale, 0} => Counts(more, threshold)
  BY <1>1, <1>3, MassBounds, EpistemicsAssumption DEF Counts
<1>4. item.direction \in {Scale, -Scale, 0} =>
         /\ Bound(m, threshold) <= Bound(more, threshold)
         /\ Bound(more, threshold) <= Bound(m, threshold) + added * Scale
         /\ added * Scale \in Nat
  BY <1>1, <1>3, BoundGrows
<1>5. /\ Net(m) \in Int /\ Net(more) \in Int
      /\ Bound(m, threshold) \in Nat /\ Bound(more, threshold) \in Nat
  BY <1>1, ScoreStatesOf
<1>6. /\ m.supported \in Nat /\ m.contradicted \in Nat /\ Scale \in Nat \ {0}
      /\ added \in Nat
  BY <1>1, MassBounds, Scales
<1>7. CASE item.direction = Scale
  <2>1. Net(more) = Net(m) + added * Scale
    BY <1>2, <1>6, <1>7 DEF Net
  <2>2. Rounded(m) => Rounded(more)
    BY <1>2, <1>6, <1>7 DEF Rounded
  <2>3. ASSUME Rounded(more), -Net(more) = Bound(more, threshold),
               -Net(m) = Bound(m, threshold), ~Rounded(m)
        PROVE  FALSE
    <3>1. m.supported = 0 /\ m.contradicted = 0
      BY <1>6, <2>3 DEF Rounded
    <3>2. Net(m) = 0
      BY <1>6, <3>1 DEF Net
    <3>3. Net(more) >= 0 /\ Bound(more, threshold) >= 0
      BY <1>4, <1>5, <1>7, <2>1, <3>2
    <3>4. Net(more) = 0
      BY <1>5, <2>3, <3>3
    <3>5. added * Scale = 0
      BY <1>4, <1>7, <2>1, <3>2, <3>4
    <3>6. added = 0
      BY <1>6, <3>5, ProductZero
    <3> QED
      BY <1>2, <1>7, <2>3, <3>1, <3>6 DEF Rounded
  <2>4. /\ Net(m) - Bound(m, threshold) <= Net(more) - Bound(more, threshold)
        /\ Net(m) + Bound(m, threshold) <= Net(more) + Bound(more, threshold)
    BY <1>4, <1>5, <1>7, <2>1
  <2>5. Highest(more) >= Highest(m) /\ Lowest(more) >= Lowest(m)
    BY <1>1, <1>c, <1>7, <2>2, <2>3, <2>4, HigherScoreIsHigherState
  <2> QED
    BY <1>6, <1>7, <2>5
<1>8. CASE item.direction = -Scale
  <2>1. Net(more) = Net(m) - added * Scale
    BY <1>2, <1>6, <1>8 DEF Net
  <2>2. Rounded(m) => Rounded(more)
    BY <1>2, <1>6, <1>8 DEF Rounded
  <2>3. ASSUME Rounded(more), Net(more) = Bound(more, threshold),
               Net(m) = Bound(m, threshold), ~Rounded(m)
        PROVE  FALSE
    <3>1. m.supported = 0 /\ m.contradicted = 0
      BY <1>6, <2>3 DEF Rounded
    <3>2. Net(m) = 0
      BY <1>6, <3>1 DEF Net
    <3>3. added * Scale = 0
      BY <1>4, <1>5, <1>8, <2>1, <2>3, <3>2
    <3>4. added = 0
      BY <1>6, <3>3, ProductZero
    <3> QED
      BY <1>2, <1>8, <2>3, <3>1, <3>4 DEF Rounded
  <2>4. /\ Net(more) - Bound(more, threshold) <= Net(m) - Bound(m, threshold)
        /\ Net(more) + Bound(more, threshold) <= Net(m) + Bound(m, threshold)
    BY <1>4, <1>5, <1>8, <2>1
  <2>5. Rounded(more) /\ Net(more) = Bound(more, threshold) => Rounded(m)
    <3> SUFFICES ASSUME Rounded(more), Net(more) = Bound(more, threshold), ~Rounded(m)
                 PROVE  FALSE
      OBVIOUS
    <3>1. m.supported = 0 /\ m.contradicted = 0
      BY <1>6 DEF Rounded
    <3>2. Net(m) = 0
      BY <1>6, <3>1 DEF Net
    <3>3. Bound(m, threshold) = 0
      BY <1>4, <1>5, <1>8, <2>1, <3>2
    <3> QED
      BY <2>3, <3>2, <3>3
  <2>6. Highest(m) >= Highest(more) /\ Lowest(m) >= Lowest(more)
    BY <1>1, <1>c, <1>8, <2>2, <2>4, <2>5, HigherScoreIsHigherState
  <2>7. /\ Highest(m) \in {-1, 0, 1} /\ Highest(more) \in {-1, 0, 1}
        /\ Lowest(m) \in {-1, 0, 1} /\ Lowest(more) \in {-1, 0, 1}
    BY <1>1, RanksOf
  <2> QED
    BY <1>6, <1>8, <2>6, <2>7
<1>9. CASE item.direction = 0
  <2> SUFFICES ASSUME States(m, threshold) = {"0"}
               PROVE  States(more, threshold) = {"0"}
    BY <1>6, <1>9
  <2>1. Net(more) = Net(m) /\ (Rounded(more) <=> Rounded(m))
    BY <1>2, <1>9 DEF Net, Rounded
  <2>2. /\ "+1" \notin States(m, threshold) /\ "-1" \notin States(m, threshold)
        /\ "0" \in States(m, threshold)
    OBVIOUS
  <2>3. /\ Net(m) <= Bound(m, threshold) /\ -Net(m) <= Bound(m, threshold)
        /\ Rounded(m) => Net(m) # Bound(m, threshold) /\ -Net(m) # Bound(m, threshold)
    BY <2>2, StatesOf
  <2>4. /\ Net(more) <= Bound(more, threshold) /\ -Net(more) <= Bound(more, threshold)
        /\ Rounded(more) => Net(more) # Bound(more, threshold)
                              /\ -Net(more) # Bound(more, threshold)
    BY <1>4, <1>5, <1>9, <2>1, <2>3
  <2>5. /\ "+1" \notin States(more, threshold) /\ "-1" \notin States(more, threshold)
        /\ "0" \in States(more, threshold)
    BY <1>1, <1>5, <1>c, <1>9, <2>4, StatesOf
  <2> QED
    BY <1>1, <2>5, StatesByScore DEF EvidenceState
<1> QED
  BY <1>7, <1>8, <1>9
-----------------------------------------------------------------------------
(* The call.                                                               *)

(* The state is that of the evidence, the violations those of the claim,   *)
(* and the qualification that of both.                                     *)
ClaimInv ==
    /\ at \in {"new", "raised", "weighing", "assessed", "checked", "qualified"}
    /\ threshold \in Thresholds /\ mass \in Mass
    /\ at \in {"weighing", "assessed", "checked", "qualified"} => threshold \in UnitInterval
    /\ at \in {"assessed", "checked", "qualified"} => state \in States(mass, threshold)
    /\ claim \in [profile : Profiles \cup {"none"}, required : Requirements \cup {"none"},
                  violations : SUBSET Violation, source_class : SourceClasses \cup {"none"}]
    /\ at \in {"checked", "qualified"} =>
          /\ claim.profile \in Profiles /\ claim.required \in Requirements
          /\ claim.violations = Violations(claim.profile, claim.required)
    /\ qualification # "none" =>
          /\ at = "qualified"
          /\ qualification = QualifyFactualClaim(claim.source_class, claim.violations, state)

LEMMA ClaimInitInv == ASSUME ClaimInit PROVE ClaimInv
BY DEF ClaimInit, ClaimInv, NoMass, Mass, NoClaim

LEMMA ClaimStep ==
    ASSUME ClaimInv, [ClaimNext]_claimVars
    PROVE  ClaimInv'
<1>1. CASE StartEvaluation
  BY <1>1 DEF StartEvaluation, ClaimInv
<1>2. ASSUME NEW item \in Items, WeighItem(item) PROVE ClaimInv'
  <2>1. mass' \in Mass
    BY <1>2, WeighType DEF WeighItem, ClaimInv
  <2> QED
    BY <1>2, <2>1 DEF WeighItem, ClaimInv
<1>3. ASSUME NEW item \in Items, RefuseItem(item) PROVE ClaimInv'
  BY <1>3 DEF RefuseItem, ClaimInv
<1>4. CASE Assess
  BY <1>4 DEF Assess, ClaimInv
<1>5. ASSUME NEW profile \in Profiles, NEW required \in Requirements,
             CheckProfile(profile, required)
      PROVE  ClaimInv'
  <2>1. /\ at = "assessed" /\ at' = "checked" /\ qualification = "none"
        /\ UNCHANGED <<threshold, mass, state, qualification>>
    BY <1>5 DEF CheckProfile, ClaimInv
  <2>2. Violations(profile, required) \subseteq Violation
    BY DEF Violations
  <2>3. /\ claim'.profile = profile /\ claim'.required = required
        /\ claim'.violations = Violations(profile, required)
        /\ claim' \in [profile : Profiles \cup {"none"}, required : Requirements \cup {"none"},
                       violations : SUBSET Violation, source_class : SourceClasses \cup {"none"}]
    BY <1>5, <2>2 DEF CheckProfile, ClaimInv
  <2> QED
    BY <2>1, <2>3 DEF ClaimInv
<1>6. ASSUME NEW profile \in Profiles, NEW required \in Requirements,
             RefuseProfile(profile, required)
      PROVE  ClaimInv'
  BY <1>6 DEF RefuseProfile, ClaimInv
<1>7. ASSUME NEW source_class \in SourceClasses, Qualify(source_class) PROVE ClaimInv'
  <2>1. /\ claim' = [claim EXCEPT !.source_class = source_class]
        /\ claim'.source_class = source_class /\ claim'.violations = claim.violations
        /\ claim'.profile = claim.profile /\ claim'.required = claim.required
        /\ claim' \in [profile : Profiles \cup {"none"}, required : Requirements \cup {"none"},
                       violations : SUBSET Violation, source_class : SourceClasses \cup {"none"}]
    BY <1>7 DEF Qualify, ClaimInv
  <2> QED
    BY <1>7, <2>1 DEF Qualify, ClaimInv
<1>8. CASE UNCHANGED claimVars
  BY <1>8 DEF claimVars, ClaimInv
<1> QED
  BY <1>1, <1>2, <1>3, <1>4, <1>5, <1>6, <1>7, <1>8 DEF ClaimNext

LEMMA ClaimInvariance == ClaimSpec => []ClaimInv
<1>1. ClaimInit => ClaimInv
  BY ClaimInitInv
<1>2. ClaimInv /\ [ClaimNext]_claimVars => ClaimInv'
  BY ClaimStep
<1> QED
  BY <1>1, <1>2, PTL DEF ClaimSpec

(* A profile without violations meets every requirement. *)
LEMMA NoViolation ==
    ASSUME NEW profile \in Profiles, NEW required \in Requirements,
           Violations(profile, required) = {}
    PROVE  /\ required.resolution_level <= profile.resolution_level
           /\ required.cost_units <= profile.budget_units
           /\ required.observables \subseteq profile.observables
           /\ required.method \in profile.methods
           /\ required.regime_value \in -profile.cutoff .. profile.cutoff
<1>1. /\ ~(profile.resolution_level < required.resolution_level)
      /\ ~(profile.budget_units < required.cost_units)
      /\ required.observables \subseteq profile.observables
      /\ required.method \in profile.methods
      /\ ~(AbsValue(required.regime_value) > profile.cutoff)
  BY DEF Violations, Violation
<1>2. /\ profile.resolution_level \in Int /\ profile.budget_units \in Int
      /\ profile.cutoff \in Int
      /\ required.resolution_level \in Int /\ required.cost_units \in Int
      /\ required.regime_value \in Int
  BY ProfilesAssumption, RequirementsAssumption
<1> QED
  BY <1>1, <1>2 DEF AbsValue

(* A claim that is reported supported or contradicted is factual, in       *)
(* profile, and has the greater mass on its side.                          *)
THEOREM VerdictsAreFactual == ClaimSpec => []VerifiedIsFactual
<1>1. ASSUME ClaimInv PROVE VerifiedIsFactual
  <2> SUFFICES ASSUME qualification \in {"supported", "contradicted"}
               PROVE  /\ claim.source_class # "simulated"
                      /\ Violations(claim.profile, claim.required) = {}
                      /\ claim.profile \in Profiles /\ claim.required \in Requirements
                      /\ qualification = "supported" => mass.supported >= mass.contradicted
                      /\ qualification = "contradicted" => mass.contradicted >= mass.supported
    BY NoViolation DEF VerifiedIsFactual
  <2>1. /\ at = "qualified"
        /\ qualification = QualifyFactualClaim(claim.source_class, claim.violations, state)
        /\ claim.profile \in Profiles /\ claim.required \in Requirements
        /\ claim.violations = Violations(claim.profile, claim.required)
        /\ state \in States(mass, threshold) /\ mass \in Mass /\ threshold \in UnitInterval
    BY <1>1 DEF ClaimInv
  <2>2. /\ claim.source_class # "simulated" /\ claim.violations = {}
        /\ qualification = "supported" => state = "+1"
        /\ qualification = "contradicted" => state = "-1"
    BY <2>1 DEF QualifyFactualClaim
  <2> QED
    BY <2>1, <2>2, StateFollowsMass
<1> QED
  BY <1>1, ClaimInvariance, PTL

(* However pure, evidence that weighs less than the threshold's share of   *)
(* the reference decides nothing.                                          *)
THEOREM WeakEvidenceDecidesNothing == ClaimSpec => []WeakEvidenceIsUnresolved
<1>1. ASSUME ClaimInv PROVE WeakEvidenceIsUnresolved
  <2> SUFFICES ASSUME at \in {"assessed", "checked", "qualified"},
                      EvidenceWeight(mass) * Scale < threshold * ReferenceWeight
               PROVE  state = "0"
    BY DEF WeakEvidenceIsUnresolved
  <2>1. state \in States(mass, threshold) /\ mass \in Mass /\ threshold \in UnitInterval
    BY <1>1 DEF ClaimInv
  <2> QED
    BY <2>1, WeakMassDecidesNothing
<1> QED
  BY <1>1, ClaimInvariance, PTL

(* One more item of pure support, contradiction or neutrality moves the    *)
(* state its own way, whatever was weighed before it, unless it makes      *)
(* evidence count that did not, at a threshold that small.                 *)
THEOREM EvidencePullsItsWay == ClaimSpec => EvidenceMovesTheStateItsWay
<1> DEFINE Pulls(item) ==
      /\ item.direction = Scale =>
           Highest(mass') >= Highest(mass) /\ Lowest(mass') >= Lowest(mass)
      /\ item.direction = -Scale =>
           Highest(mass') <= Highest(mass) /\ Lowest(mass') <= Lowest(mass)
      /\ item.direction = 0 /\ States(mass, threshold) = {"0"} =>
           States(mass', threshold) = {"0"}
<1>1. ASSUME ClaimInv, NEW item \in Items, WeighItem(item), Counts(mass, threshold)
      PROVE  Pulls(item)
  <2>1. /\ mass \in Mass /\ threshold \in UnitInterval /\ ItemIsValid(item)
        /\ mass' = Weigh(mass, item)
    BY <1>1 DEF ClaimInv, WeighItem
  <2> QED
    BY <1>1, <2>1, ItemMovesState
<1> HIDE DEF Pulls
<1>2. ClaimInv /\ [ClaimNext]_claimVars
         => [\A item \in Items :
               WeighItem(item) /\ Counts(mass, threshold) => Pulls(item)]_claimVars
  BY <1>1
<1>3. ClaimSpec =>
         [][\A item \in Items :
              WeighItem(item) /\ Counts(mass, threshold) => Pulls(item)]_claimVars
  BY <1>2, ClaimInvariance, PTL DEF ClaimSpec
<1> QED
  BY <1>3 DEF Pulls, EvidenceMovesTheStateItsWay
=============================================================================
