---------------------------- MODULE ScoringRules ----------------------------
(***************************************************************************)
(* The criteria of version 2026-08-04 (scoring/rulesets/v2026_08_04.py),   *)
(* the tier lines a score can be close to (scoring/borderline.py), the     *)
(* parts shown to a person (scoring/explain.py) and the reasons a          *)
(* disqualification becomes (scoring/platform.py).                         *)
(*                                                                         *)
(* A profile is what the scorer can tell apart of a candidate: which of    *)
(* its lists the texts match, the numbers, and what is missing.  A text is *)
(* the set of phrases found in it, so that a title with "associate team    *)
(* leader" in it has "team leader" in it as well.  Years are months here:  *)
(* the scorer takes fractions of a year and rounds them down for an age.   *)
(***************************************************************************)
EXTENDS Choice, FiniteSets, FiniteSetsExt

\* A number is known, and at least or at most so much.
AtLeast(number, least) == number # None /\ number >= least
AtMost(number, most) == number # None /\ number <= most

CurrentYear == 2026

\* What a location can match: the scorer's four lists, or none of them.
PlaceKind == {"near", "cairo", "outside", "abroad", "unlisted"}

\* The phrases of the title lists that are told apart.
Managerial == {"manager", "director"}
RoutedTitle == {"team_leader", "team-leader", "supervisor"}
TooSenior == {"director"}

TenuredTitle ==
    {<<"sales_manager", 25>>, <<"associate_sales_manager", 22>>, <<"team_leader", 20>>,
     <<"senior_team_leader", 22>>, <<"associate_team_leader", 18>>, <<"supervisor", 15>>,
     <<"senior_supervisor", 18>>, <<"associate_supervisor", 13>>}

\* The scorer's Candidate with its defaults: nothing is known.
Blank ==
    [own |-> FALSE, place |-> {}, title |-> {}, age |-> None, graduated |-> None,
     student |-> FALSE, postgraduate |-> FALSE, programme |-> "standard", months |-> None,
     saidAge |-> None, saysTwelve |-> FALSE, salesWords |-> 0, education |-> {},
     contact |-> {}, brokerage |-> FALSE, former |-> FALSE, employer |-> "unknown",
     tiktok |-> FALSE, remoteOnly |-> FALSE, activeDaysAgo |-> None, photo |-> TRUE,
     connections |-> None, openToWork |-> FALSE, tenure |-> None, signal |-> "passive"]

(***************************************************************************)
(* Age, and what disqualifies on track A.                                  *)
(***************************************************************************)
GraduationAge == [standard |-> 22, engineering |-> 23, medicine |-> 24]

\* Stated; else from the year of graduation, or of entry for a student; else
\* from the experience; else as a text says it.
InferredAge(c) ==
    IF c.age # None THEN c.age
    ELSE IF c.graduated # None /\ ~c.postgraduate
    THEN CurrentYear - c.graduated + IF c.student THEN 18 ELSE GraduationAge[c.programme]
    ELSE IF AtLeast(c.months, 0) THEN 22 + c.months \div 12
    ELSE c.saidAge

EntryDisqualification(c) ==
    LET age == InferredAge(c)
    IN  FirstOf(<< <<c.own, "current_employee">>,
                   <<"abroad" \in c.place, "abroad">>,
                   <<"outside" \in c.place, "outside_Cairo">>,
                   <<c.title \cap Managerial # {}, "managerial_title">>,
                   <<c.title \cap RoutedTitle # {}, "track_B_target">>,
                   <<AtLeast(age, 33), "over_32">>,
                   <<AtMost(age, 20), "under_21">>,
                   <<c.saysTwelve, "says_12_years">>,
                   <<AtLeast(c.months, 132), "11_years_or_more">> >>, None)

(***************************************************************************)
(* The parts of a track A score.                                           *)
(***************************************************************************)
LocationPoints(c) ==
    FirstOf(<< <<"near" \in c.place, 30>>, <<"cairo" \in c.place, 15>>, <<c.place # {}, 5>> >>, 0)

SalesPoints(c) ==
    FirstOf(<< <<c.salesWords >= 4, 25>>, <<c.salesWords >= 2, 15>>, <<c.salesWords = 1, 8>> >>, 0)

EntryLevelPoints(c) ==
    FirstOf(<< <<AtLeast(c.graduated, CurrentYear - 3), 20>>,
               <<AtLeast(c.graduated, 2022), 20>>,
               <<c.student, 15>>,
               <<AtMost(c.months, 36), 20>>,
               <<AtMost(c.months, 72), 12>>,
               <<AtMost(c.months, 96), 5>> >>, 0)

EducationPoints(c) ==
    FirstOf(<< <<"bachelor" \in c.education, 15>>, <<"undergraduate" \in c.education, 12>>,
               <<"diploma" \in c.education, 8>>, <<"high_school" \in c.education, 5>> >>, 0)

ContactPoints(c) ==
    FirstOf(<< <<"egyptian_phone" \in c.contact, 10>>,
               <<c.contact \cap {"other_phone", "email"} # {}, 5>>,
               <<"profile_url" \in c.contact, 3>> >>, 0)

\* A former employee of ours is a rehire: no bonus for the brokerage they came from.
BrokeragePoints(c) == IF c.brokerage /\ ~c.former THEN 10 ELSE 0

PlatformPoints(c) == IF c.tiktok THEN -5 ELSE 0

RemotePoints(c) == IF c.remoteOnly THEN -10 ELSE 0

RecencyPoints(c) ==
    FirstOf(<< <<AtMost(c.activeDaysAgo, 7), 10>>, <<AtMost(c.activeDaysAgo, 30), 5>>,
               <<AtLeast(c.activeDaysAgo, 91), -5>> >>, 0)

ProfilePoints(c) ==
    FirstOf(<< <<~c.photo /\ AtMost(c.connections, 9), -20>>, <<~c.photo, -10>>,
               <<AtMost(c.connections, 9), -5>> >>, 0)

IntentPoints(c) == IF c.openToWork THEN 10 ELSE 0

Capped(points) == Max({0, Min({100, points})})

EntryTier(score) ==
    FirstOf(<< <<score >= 75, "P1">>, <<score >= 55, "P2">>, <<score >= 35, "P3">> >>, "P4")

NoParts ==
    [location |-> 0, sales |-> 0, entry |-> 0, education |-> 0, contact |-> 0,
     employer |-> 0, platform |-> 0]

Total(parts) ==
    parts.location + parts.sales + parts.entry + parts.education + parts.contact
    + parts.employer + parts.platform

ScoreEntry(c) ==
    LET why == EntryDisqualification(c)
        parts == [location |-> LocationPoints(c), sales |-> SalesPoints(c),
                  entry |-> EntryLevelPoints(c), education |-> EducationPoints(c),
                  contact |-> ContactPoints(c), employer |-> BrokeragePoints(c),
                  platform |-> PlatformPoints(c)]
        score == Capped(Total(parts) + RemotePoints(c) + RecencyPoints(c)
                        + ProfilePoints(c) + IntentPoints(c))
    IN  IF why # None
        THEN [reason |-> why, score |-> 0, tier |-> "P4", parts |-> NoParts]
        ELSE [reason |-> None, score |-> score, tier |-> EntryTier(score), parts |-> parts]

(***************************************************************************)
(* Track B: people who already sell, for another firm.                     *)
(***************************************************************************)

\* The best of the phrases found, so a phrase inside another counts too.
TitlePoints(c) == Max({0} \cup {t[2] : t \in {t \in TenuredTitle : t[1] \in c.title}})

EmployerPoints(c) ==
    FirstOf(<< <<c.brokerage, 25>>, <<c.employer \in {"real_estate", "premium"}, 12>>,
               <<c.employer = "standard", 8>> >>, 0)

TenurePoints(c) ==
    FirstOf(<< <<AtLeast(c.tenure, 48), 20>>, <<AtLeast(c.tenure, 36), 16>>,
               <<AtLeast(c.tenure, 24), 10>> >>, 5)

MovePoints(c) ==
    FirstOf(<< <<c.signal = "open_to_work", 15>>, <<c.signal = "engaged_post", 10>> >>, 5)

HeadhuntLocation(c) ==
    FirstOf(<< <<"near" \in c.place, 15>>, <<"cairo" \in c.place, 10>>, <<c.place # {}, 3>> >>, 0)

HeadhuntTier(score) ==
    FirstOf(<< <<score >= 80, "T1">>, <<score >= 60, "T2">>, <<score >= 40, "T3">> >>, "T4")

HeadhuntDisqualification(c) ==
    LET age == InferredAge(c)
    IN  FirstOf(<< <<c.title \cap TooSenior # {}, "too_senior">>,
                   <<"outside" \in c.place, "outside_Cairo">>,
                   <<AtLeast(age, 39), "over_38">>,
                   <<AtMost(age, 24), "under_25">>,
                   <<TitlePoints(c) = 0, "no_tenured_title">>,
                   <<EmployerPoints(c) = 0, "employer_not_recognised">> >>, None)

ScoreHeadhunt(c) ==
    LET why == HeadhuntDisqualification(c)
        parts == [NoParts EXCEPT !.location = HeadhuntLocation(c), !.sales = TitlePoints(c),
                                 !.entry = TenurePoints(c), !.employer = EmployerPoints(c),
                                 !.platform = MovePoints(c)]
        score == Capped(Total(parts))
    IN  IF why # None
        THEN [reason |-> why, score |-> 0, tier |-> "T4", parts |-> NoParts]
        ELSE [reason |-> None, score |-> score, tier |-> HeadhuntTier(score), parts |-> parts]

ScoreCandidate(c, mode) == IF mode = "headhunt" THEN ScoreHeadhunt(c) ELSE ScoreEntry(c)

(***************************************************************************)
(* What becomes of a verdict: the reason a person is asked to confirm, and *)
(* whether the score is close to a line.                                   *)
(***************************************************************************)

\* The code of a disqualification; "route" is listed without one, and a
\* disqualification that is not listed has none that was agreed.
ReasonFor(why) ==
    FirstOf(<< <<why = "current_employee", "current_employee">>,
               <<why \in {"abroad", "outside_Cairo"}, "outside_hiring_area">>,
               <<why \in {"over_32", "under_21", "over_38"}, "age_outside_range">>,
               <<why \in {"managerial_title", "says_12_years", "11_years_or_more", "too_senior"},
                 "experience_not_a_fit">>,
               <<why \in {"track_B_target", "under_25"}, "route">> >>, None)

\* Mutant of MaxPoints: half the distance of two lines.
MaxPointsHalfway == 10

MaxPoints == 9

Policy == [rule : {"band", "below_line"}, points : 1 .. MaxPoints]

\* Highest first: the line, the tier from it up, and the tier under it.
Lines ==
    [entry |-> <<<<75, "P1", "P2">>, <<55, "P2", "P3">>, <<35, "P3", "P4">>>>,
     headhunt |-> <<<<80, "T1", "T2">>, <<60, "T2", "T3">>, <<40, "T3", "T4">>>>]

IsNear(distance, policy) ==
    \/ policy.rule = "band" /\ distance \in -policy.points .. policy.points
    \/ policy.rule = "below_line" /\ distance \in -policy.points .. -1

NearLine(score, mode, policy) ==
    FirstOf([i \in DOMAIN Lines[mode] |->
                <<IsNear(score - Lines[mode][i][1], policy), Lines[mode][i]>>], None)

\* What explain shows: the most each part can come to, and the rest of the total.
OutOf ==
    [entry |-> [location |-> 30, sales |-> 25, entry |-> 20, education |-> 15, contact |-> 10,
                employer |-> 10, platform |-> 0],
     headhunt |-> [location |-> 15, sales |-> 25, entry |-> 20, education |-> 0, contact |-> 0,
                   employer |-> 25, platform |-> 15]]

OtherAdjustments(c, mode) ==
    LET result == ScoreCandidate(c, mode)
    IN  IF result.reason # None THEN 0 ELSE result.score - Total(result.parts)
=============================================================================
