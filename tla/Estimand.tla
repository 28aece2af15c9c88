------------------------------ MODULE Estimand ------------------------------
(***************************************************************************)
(* estimand_sdk: which variation of a feature a configuration serves to a  *)
(* unit.  A pure computation: a number the code keeps as a float is an     *)
(* integer here, in units of 1/Scale; coverage is in per cent.  The hash   *)
(* is a constant: for a seed, a unit and a version (1 or 2) any bucket.    *)
(***************************************************************************)
EXTENDS Naturals, Integers, Sequences, SequencesExt

CONSTANTS
    Scale,          \* one whole
    Hash(_, _, _),  \* hash_value: seed, unit, version
    Absent          \* no value, no variation

ASSUME ScaleAssumption == Scale \in Nat /\ Scale % 100 = 0

----------------------------------------------------------------------------
(***************************************************************************)
(* models.py: what a configuration is made of.  That no weight is negative *)
(* is Estimand's part.                                                     *)
(***************************************************************************)

IsSequence(s) == s \in Seq(ToSet(s))
IsRule(rule) ==
    /\ DOMAIN rule = {"condition", "default", "force", "keys", "coverage", "weights", "ranges", "seed", "version"}
    /\ IsSequence(rule.keys) /\ rule.coverage \in Int /\ rule.weights \in Seq(Nat)
    /\ rule.ranges \in Seq(Int \X Int)
IsFeature(feature) ==
    /\ DOMAIN feature = {"enabled", "published", "variations", "forced", "rules", "seed"}
    /\ IsSequence(feature.rules) /\ \A i \in DOMAIN feature.rules : IsRule(feature.rules[i])

----------------------------------------------------------------------------
(***************************************************************************)
(* assignment.py                                                           *)
(***************************************************************************)

Clamped(coverage) == IF coverage < 0 THEN 0 ELSE IF coverage > 100 THEN 100 ELSE coverage
Total(weights) == FoldSeq(+, 0, weights)
Equal(n) == [i \in 1..n |-> Scale \div n]
NearOne(total) == total >= (99 * Scale) \div 100 /\ total <= (101 * Scale) \div 100

\* weights that are percentages are scaled down; weights that do not make a whole are replaced
Normalized(n, weights) ==
    LET given == IF weights = <<>> \/ Len(weights) # n THEN Equal(n) ELSE weights
        total == Total(given)
        percent == total > (101 * Scale) \div 100 /\ total <= 100 * Scale /\ \A i \in 1..n : given[i] >= 0
        scaled == IF percent THEN [i \in 1..n |-> given[i] \div 100] ELSE given
    IN IF NearOne(Total(scaled)) THEN scaled ELSE Equal(n)

\* mutant: the ranges follow each other without the gaps
RangesPacked(n, coverage, weights) ==
    LET w == Normalized(n, weights)
        start(i) == (Clamped(coverage) * Total(SubSeq(w, 1, i - 1))) \div 100
    IN [i \in 1..n |-> <<start(i), start(i) + (Clamped(coverage) * w[i]) \div 100>>]

\* get_bucket_ranges: a range starts where it would at full coverage
Ranges(n, coverage, weights) ==
    LET w == Normalized(n, weights)
        start(i) == Total(SubSeq(w, 1, i - 1))
    IN [i \in 1..n |-> <<start(i), start(i) + (Clamped(coverage) * w[i]) \div 100>>]

\* the first range the bucket is in, 0 without one
ChooseVariation(bucket, ranges) ==
    SelectInSeq(ranges, LAMBDA range : bucket >= range[1] /\ bucket < range[2])

----------------------------------------------------------------------------
(***************************************************************************)
(* evaluator.py.  A condition is a set of [attribute, op, value]; a plain  *)
(* value is "is", a list of values "in".  The bot passes no attributes, so *)
(* `actual` is Absent and no comparison of numbers holds.                  *)
(***************************************************************************)

ConditionHolds(actual, c) ==
    CASE c.op = "in" -> actual \in c.value
      [] c.op = "nin" -> actual \notin c.value
      [] c.op = "ne" -> actual # c.value
      [] c.op \in {"is", "eq"} -> actual = c.value
      [] c.op \in {"gt", "gte", "lt", "lte"} -> FALSE

RuleMatches(rule) == \A c \in rule.condition : ConditionHolds(Absent, c)

\* rules with a condition of their own go before the default ones
SelectRule(rules) ==
    LET own(rule) == ~rule.default /\ RuleMatches(rule)
        default(rule) == rule.default /\ RuleMatches(rule)
        i == SelectInSeq(rules, own)
        j == SelectInSeq(rules, default)
    IN IF i > 0 THEN rules[i] ELSE IF j > 0 THEN rules[j] ELSE Absent

\* the keys that name variations, in their order (SelectSeq is nothing the provers expand)
Known(feature, keys) ==
    LET kept == {i \in DOMAIN keys : keys[i] \in ToSet(feature.variations)}
        nth(n) == CHOOSE i \in kept : Cardinality({j \in kept : j <= i}) = n
    IN [n \in 1..Cardinality(kept) |-> keys[nth(n)]]

\* hash_value raises ValueError for another version
Raises(feature, rule) ==
    /\ rule.force \notin ToSet(feature.variations)
    /\ Known(feature, rule.keys) # <<>> /\ rule.version \notin {1, 2}

SeedOf(feature, rule) == IF rule.seed # Absent THEN rule.seed ELSE feature.seed

EvaluateRule(feature, rule, unit) ==
    LET keys == Known(feature, rule.keys)
        ranges == IF rule.ranges # <<>> THEN rule.ranges ELSE Ranges(Len(keys), rule.coverage, rule.weights)
        i == ChooseVariation(Hash(SeedOf(feature, rule), unit, rule.version), ranges)
    IN IF rule.force \in ToSet(feature.variations) THEN rule.force
       ELSE IF keys = <<>> \/ i \notin 1..Len(keys) THEN Absent ELSE keys[i]

\* evaluate_feature: Absent unless the feature is served to the unit
Selected(feature, unit) ==
    IF unit \in DOMAIN feature.forced /\ feature.forced[unit] \in ToSet(feature.variations)
    THEN Absent ELSE SelectRule(feature.rules)
EvaluateFeature(feature, unit) ==
    IF ~feature.enabled \/ ~feature.published THEN Absent
    ELSE IF unit \in DOMAIN feature.forced /\ feature.forced[unit] \in ToSet(feature.variations)
    THEN feature.forced[unit]
    ELSE LET rule == SelectRule(feature.rules) IN
         IF rule = Absent THEN Absent ELSE EvaluateRule(feature, rule, unit)

EvaluationRaises(feature, unit) ==
    /\ feature.enabled /\ feature.published
    /\ Selected(feature, unit) # Absent /\ Raises(feature, Selected(feature, unit))

\* the configuration [revision, features] may not know the feature
Evaluated(config, key, unit) ==
    IF key \in DOMAIN config.features THEN EvaluateFeature(config.features[key], unit) ELSE Absent
Breaks(config, key, unit) ==
    key \in DOMAIN config.features /\ EvaluationRaises(config.features[key], unit)
=============================================================================
