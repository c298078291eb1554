------------------------------ MODULE Verdicts ------------------------------
(***************************************************************************)
(* What a candidate's evaluation says as more becomes known of them: the   *)
(* score of ScoringRules, the line it is close to under the policy in      *)
(* force (scoring/borderline.py), and how it is explained                  *)
(* (scoring/explain.py).                                                   *)
(***************************************************************************)
EXTENDS ScoringRules

CONSTANTS
    Fact,      \* what a column can say: values of some fields of a profile
    MaxFacts   \* bound of how many columns become known

ASSUME MaxFactsAssumption == MaxFacts \in Nat

VARIABLES
    facts,     \* what is known of a candidate
    verdict    \* its evaluation, with the near line under every policy, or None

verdictsVars == <<facts, verdict>>

Mode == {"entry", "headhunt"}

\* candidate_from_values: what no column says keeps the default.
Profile ==
    [field \in DOMAIN Blank |->
        LET says == {fact \in facts : field \in DOMAIN fact}
        IN  IF says = {} THEN Blank[field] ELSE (CHOOSE fact \in says : TRUE)[field]]

VerdictsInit == facts = {} /\ verdict = None

\* A column says one thing.
Learn(fact) ==
    /\ Cardinality(facts) < MaxFacts
    /\ \A known \in facts : DOMAIN known \cap DOMAIN fact = {}
    /\ facts' = facts \cup {fact}
    /\ verdict' = None

\* Whichever rule was signed for the criteria.
Evaluate(mode) ==
    LET result == ScoreCandidate(Profile, mode)
    IN  /\ verdict = None
        /\ verdict' = [mode |-> mode, result |-> result,
                       near |-> [policy \in Policy |->
                           IF result.reason # None THEN None
                           ELSE NearLine(result.score, mode, policy)]]
        /\ UNCHANGED facts

VerdictsNext ==
    \/ \E fact \in Fact : Learn(fact)
    \/ \E mode \in Mode : Evaluate(mode)

VerdictsSpec == VerdictsInit /\ [][VerdictsNext]_verdictsVars

-----------------------------------------------------------------------------
(* Properties.                                                              *)

(***************************************************************************)
(* scoring/borderline.py: lines are 20 apart, "so a candidate is never     *)
(* near two of them".  Whatever policy was agreed, the line a person is    *)
(* told of is the only one the score is near, and the tier it got is one   *)
(* of the two on its sides.                                                *)
(***************************************************************************)
NearOneLine ==
    verdict # None =>
        \A policy \in Policy :
            LET near == verdict.near[policy]
                lines == Lines[verdict.mode]
            IN  near # None =>
                    /\ verdict.result.tier \in {near[2], near[3]}
                    /\ \A i \in DOMAIN lines :
                          IsNear(verdict.result.score - lines[i][1], policy) => lines[i] = near

(***************************************************************************)
(* scoring/explain.py: the parts a person is shown stay within the most    *)
(* each "can come to", and with the rest make the total; a headhunt score  *)
(* has no rest.                                                            *)
(***************************************************************************)
ExplainedInFull ==
    verdict # None =>
        LET parts == verdict.result.parts
            most == OutOf[verdict.mode]
        IN  /\ \A part \in DOMAIN parts : parts[part] <= most[part]
            /\ Total(parts) + OtherAdjustments(Profile, verdict.mode) = verdict.result.score
            /\ verdict.mode = "headhunt" => OtherAdjustments(Profile, "headhunt") = 0
=============================================================================
