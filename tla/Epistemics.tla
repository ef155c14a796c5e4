----------------------------- MODULE Epistemics -----------------------------
(***************************************************************************)
(* How a claim is qualified (src/migi/epistemics.py): what qualify_claim   *)
(* of src/migi/claim_runtime.py does between the authority it was given    *)
(* and the execution it stores, in GenesisNode one step, QualifyClaim or   *)
(* FailQualification. The evidence is an iterable, read item by item.      *)
(*                                                                         *)
(* A signal of 1.0 is the number Scale, so a weight, the product of three  *)
(* signals, is in units of 1/Scale^3 and a mass, weight times direction,   *)
(* in units of 1/Scale^4. The code computes in doubles: where the exact    *)
(* score is at a threshold, or the exact weight at 2^-52, rounding decides,*)
(* and either side is possible.                                            *)
(***************************************************************************)
EXTENDS Integers, FiniteSetsExt

CONSTANTS
    Scale,          \* a signal of 1.0
    Negligible,     \* 2^-52: evidence of this weight or less is none
    Thresholds,     \* the thresholds callers ask for, in and out of range
    Items,          \* the pieces of evidence, valid and not
    MaxItems,       \* bound on the evidence of one claim
    Profiles,       \* the LUFIT profiles, valid and not
    Requirements,   \* what claims require of them, valid and not
    SourceClasses   \* of the observation

ASSUME EpistemicsAssumption ==
    /\ Scale \in Nat \ {0} /\ MaxItems \in Nat /\ Thresholds \subseteq Int
    /\ Negligible \in Nat
ASSUME ProfilesAssumption ==
    \A profile \in Profiles :
        profile.resolution_level \in Int /\ profile.budget_units \in Int /\ profile.cutoff \in Int
ASSUME RequirementsAssumption ==
    \A required \in Requirements :
        required.resolution_level \in Int /\ required.cost_units \in Int
          /\ required.regime_value \in Int

UnitInterval == 0 .. Scale
ReferenceWeight == Scale * Scale * Scale * Scale

EvidenceState == {"+1", "0", "-1"}
Violation ==
    {"insufficient_resolution", "budget_exceeded", "missing_observable",
     "method_not_allowed", "cutoff_exceeded"}

NoMass == [supported |-> 0, contradicted |-> 0, unresolved |-> 0]

AbsValue(n) == IF n < 0 THEN -n ELSE n
Larger(m, n) == IF m < n THEN n ELSE m

-----------------------------------------------------------------------------
(* evaluate_evidence. *)

ItemIsValid(item) ==
    /\ item.direction \in -Scale .. Scale
    /\ item.confidence \in UnitInterval
    /\ item.reliability \in UnitInterval
    /\ item.provenance_quality \in UnitInterval

ItemWeight(item) == item.confidence * item.reliability * item.provenance_quality

(* Mutant of Weigh: the unresolved sum is assigned, not added to. *)
WeighForgetsUnresolved(m, item) ==
    LET w == ItemWeight(item)
    IN  [supported    |-> m.supported + w * Larger(item.direction, 0),
         contradicted |-> m.contradicted + w * Larger(-item.direction, 0),
         unresolved   |-> w * (Scale - AbsValue(item.direction))]

(* The loop's body: a valid item adds its weight to the three sums.        *)
Weigh(m, item) ==
    LET w == ItemWeight(item)
    IN  [supported    |-> m.supported + w * Larger(item.direction, 0),
         contradicted |-> m.contradicted + w * Larger(-item.direction, 0),
         unresolved   |-> m.unresolved + w * (Scale - AbsValue(item.direction))]

EvidenceWeight(m) == m.contradicted + m.unresolved + m.supported

(* Mutant of Base: the strength of the evidence is left out. *)
BaseOwnWeight(m) == Larger(EvidenceWeight(m), 1)

(* The probabilities are the shares of the sums, blended with thirds by    *)
(* strength = min(weight / reference, 1). The thirds cancel in the support *)
(* score, which is (supported - contradicted) / Base.                      *)
Base(m) == Larger(EvidenceWeight(m), ReferenceWeight)

(* score > threshold, score < -threshold, or neither. A score that is zero *)
(* because nothing was added to either sum is exact; any other may come    *)
(* out on either side of a threshold that it equals.                       *)
ScoreStates(m, t) ==
    LET net == (m.supported - m.contradicted) * Scale
        bound == t * Base(m)
        rounded == m.supported + m.contradicted > 0
    IN  {s \in EvidenceState :
            \/ s = "+1" /\ (net > bound \/ (rounded /\ net = bound))
            \/ s = "-1" /\ (-net > bound \/ (rounded /\ -net = bound))
            \/ s = "0"  /\ AbsValue(net) <= bound}

(* Evidence of negligible weight has the uniform probabilities and so the  *)
(* score 0, other evidence the score above.                                *)
States(m, t) ==
    {s \in EvidenceState :
        \/ EvidenceWeight(m) <= Negligible /\ s = "0"
        \/ EvidenceWeight(m) >= Negligible /\ s \in ScoreStates(m, t)}

-----------------------------------------------------------------------------
(* validate_profile. *)

BoundsAreValid(profile, required) ==
    /\ profile.resolution_level >= 0 /\ profile.budget_units >= 0 /\ profile.cutoff >= 0
    /\ required.resolution_level >= 0 /\ required.cost_units >= 0

(* The codes of the violations. *)
Violations(profile, required) ==
    {code \in Violation :
        CASE code = "insufficient_resolution" ->
                profile.resolution_level < required.resolution_level
          [] code = "budget_exceeded"         -> profile.budget_units < required.cost_units
          [] code = "missing_observable"      -> ~(required.observables \subseteq profile.observables)
          [] code = "method_not_allowed"      -> required.method \notin profile.methods
          [] code = "cutoff_exceeded"         -> AbsValue(required.regime_value) > profile.cutoff}

(* Mutant of QualifyFactualClaim: the evidence is looked at first. *)
QualifyFactualClaimEvidenceFirst(source_class, violations, s) ==
    CASE s = "+1" -> "supported"
      [] s = "-1" -> "contradicted"
      [] OTHER    -> IF violations # {} THEN "out_of_profile" ELSE "unresolved"

(* qualify_factual_claim: the first that applies. *)
QualifyFactualClaim(source_class, violations, s) ==
    IF source_class = "simulated" THEN "simulation_only"
    ELSE IF violations # {} THEN "out_of_profile"
    ELSE CASE s = "+1" -> "supported"
           [] s = "-1" -> "contradicted"
           [] OTHER    -> "unresolved"

-----------------------------------------------------------------------------
VARIABLES
    at,             \* how far the call has come
    threshold,
    count,          \* items read so far
    mass,           \* their sums
    state,          \* the assessment's Tre state
    claim,          \* the profile, what is required of it, the source class
    qualification

claimVars == <<at, threshold, count, mass, state, claim, qualification>>

NoClaim == [profile |-> "none", required |-> "none", violations |-> {}, source_class |-> "none"]

ClaimInit ==
    /\ at = "new"
    /\ threshold \in Thresholds
    /\ count = 0
    /\ mass = NoMass
    /\ state = "none"
    /\ claim = NoClaim
    /\ qualification = "none"

(* evaluate_evidence begins: the threshold is checked first. *)
StartEvaluation ==
    /\ at = "new"
    /\ at' = IF threshold \in UnitInterval THEN "weighing" ELSE "raised"
    /\ UNCHANGED <<threshold, count, mass, state, claim, qualification>>

WeighItem(item) ==
    /\ at = "weighing" /\ count < MaxItems
    /\ ItemIsValid(item)
    /\ count' = count + 1
    /\ mass' = Weigh(mass, item)
    /\ UNCHANGED <<at, threshold, state, claim, qualification>>

(* ValueError in the middle of the evidence: nothing is made of the rest. *)
RefuseItem(item) ==
    /\ at = "weighing" /\ count < MaxItems
    /\ ~ItemIsValid(item)
    /\ at' = "raised"
    /\ UNCHANGED <<threshold, count, mass, state, claim, qualification>>

(* The evidence is over. *)
Assess ==
    /\ at = "weighing"
    /\ at' = "assessed"
    /\ state' \in States(mass, threshold)
    /\ UNCHANGED <<threshold, count, mass, claim, qualification>>

CheckProfile(profile, required) ==
    /\ at = "assessed"
    /\ BoundsAreValid(profile, required)
    /\ at' = "checked"
    /\ claim' = [claim EXCEPT !.profile = profile, !.required = required,
                              !.violations = Violations(profile, required)]
    /\ UNCHANGED <<threshold, count, mass, state, qualification>>

RefuseProfile(profile, required) ==
    /\ at = "assessed"
    /\ ~BoundsAreValid(profile, required)
    /\ at' = "raised"
    /\ UNCHANGED <<threshold, count, mass, state, claim, qualification>>

Qualify(source_class) ==
    /\ at = "checked"
    /\ at' = "qualified"
    /\ claim' = [claim EXCEPT !.source_class = source_class]
    /\ qualification' = QualifyFactualClaim(source_class, claim.violations, state)
    /\ UNCHANGED <<threshold, count, mass, state>>

ClaimNext ==
    \/ StartEvaluation
    \/ \E item \in Items : WeighItem(item) \/ RefuseItem(item)
    \/ Assess
    \/ \E profile \in Profiles, required \in Requirements :
          CheckProfile(profile, required) \/ RefuseProfile(profile, required)
    \/ \E source_class \in SourceClasses : Qualify(source_class)

ClaimSpec == ClaimInit /\ [][ClaimNext]_claimVars

-----------------------------------------------------------------------------
(* A receipt says verified exactly for "supported", and "verified" must    *)
(* mean (docs/architecture/lufit-sfo-verifiable-core.md:118) an in-profile *)
(* factual claim with evidence behind it: not a simulated observation, no  *)
(* requirement that goes beyond the profile, and no less supporting than   *)
(* contradicting mass (as much, where rounding decides), whatever order    *)
(* the checks come in. And what is reported contradicted is so by mass, in *)
(* profile and not simulated.                                              *)
VerifiedIsFactual ==
    qualification \in {"supported", "contradicted"} =>
        /\ claim.source_class # "simulated"
        /\ claim.required.resolution_level <= claim.profile.resolution_level
        /\ claim.required.cost_units <= claim.profile.budget_units
        /\ claim.required.observables \subseteq claim.profile.observables
        /\ claim.required.method \in claim.profile.methods
        /\ claim.required.regime_value \in -claim.profile.cutoff .. claim.profile.cutoff
        /\ qualification = "supported" => mass.supported >= mass.contradicted
        /\ qualification = "contradicted" => mass.contradicted >= mass.supported

(* However pure its direction, evidence that weighs less in total than the *)
(* threshold's share of the reference weight decides nothing: "an          *)
(* arbitrarily weak source" never becomes perfect support.                 *)
WeakEvidenceIsUnresolved ==
    at \in {"assessed", "checked", "qualified"}
      /\ EvidenceWeight(mass) * Scale < threshold * ReferenceWeight
        => state = "0"

Rank(s) == CASE s = "+1" -> 1 [] s = "0" -> 0 [] s = "-1" -> -1
Highest(m) == Max({Rank(s) : s \in States(m, threshold)})
Lowest(m) == Min({Rank(s) : s \in States(m, threshold)})

(* The evidence is not taken for none, or would decide nothing anyway.     *)
Counts(m, t) ==
    EvidenceWeight(m) > Negligible \/ t * ReferenceWeight > Negligible * Scale

(* One more item moves the state its own way, whatever was weighed before: *)
(* full support never lowers it, full contradiction never raises it, and   *)
(* neutral evidence never takes it away from unresolved. (An item of       *)
(* partial support may lower it: it adds to the unresolved mass, too. And  *)
(* at a threshold of 2^-52 or less, full support may lower it by making    *)
(* earlier contradiction count that weighed no more than 2^-52.)           *)
EvidenceMovesTheStateItsWay ==
    [][ \A item \in Items : WeighItem(item) /\ Counts(mass, threshold) =>
          /\ item.direction = Scale =>
               Highest(mass') >= Highest(mass) /\ Lowest(mass') >= Lowest(mass)
          /\ item.direction = -Scale =>
               Highest(mass') <= Highest(mass) /\ Lowest(mass') <= Lowest(mass)
          /\ item.direction = 0 /\ States(mass, threshold) = {"0"} =>
               States(mass', threshold) = {"0"} ]_claimVars
=============================================================================
