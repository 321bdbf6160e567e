---- MODULE EntryPointProofs ----
(***************************************************************************)
(* Proofs about the doors of the validator and its evaluation gate: what   *)
(* TLC checks in MCEntryPoints on a few projects, golden sets and rubrics, *)
(* for every one that the assumptions admit.                               *)
(***************************************************************************)
EXTENDS EntryPointProperties, FiniteSetTheorems, SequenceTheorems, TLAPS

(* The arithmetic of a mean.                                               *)

\* A fraction below a whole number of wholes is below that number.
LEMMA Below ==
    ASSUME NEW x \in Nat, NEW y \in Nat \ {0}, x < 10000 * y
    PROVE  x \div y \in Int /\ x \div y < 10000
<1>1. x \div y \in Int /\ y * (x \div y) <= x
  OBVIOUS
<1>2. SUFFICES ASSUME x \div y >= 10000 PROVE FALSE
  BY <1>1
<1>3. y * (x \div y) >= y * 10000
  BY <1>1, <1>2
<1>4. QED
  BY <1>1, <1>3

\* The scores of n examples, in a unit of their family, one of which is nought.
Misses(n, s, unit) ==
    /\ n \in Nat /\ n >= 1 /\ n < 20000 /\ unit \in {10000, 60}
    /\ s \in Nat /\ s <= (n - 1) * unit

BelowOne(mean) == mean \in Int /\ mean < One

\* Of fewer than 20,000 scores one that is nought keeps the rounded mean below
\* 1.0 (run_eval.py:349, 379, 484).
LEMMA OneMissShows == \A n, s, unit : Misses(n, s, unit) => BelowOne(Round4(s, n * unit))
<1> SUFFICES ASSUME NEW n, NEW s, NEW unit, Misses(n, s, unit)
             PROVE  BelowOne(Round4(s, n * unit))
  OBVIOUS
<1> USE DEF Misses, BelowOne
<1> DEFINE x == 2 * One * s + n * unit
           y == 2 * (n * unit)
<1>1. x \in Nat /\ y \in Nat \ {0} /\ x < 10000 * y
  <2>1. CASE unit = 60
    BY <2>1 DEF One
  <2>2. CASE unit = 10000
    BY <2>2 DEF One
  <2>3. QED
    BY <2>1, <2>2
<1>2. Round4(s, n * unit) = x \div y
  BY DEF Round4
<1> HIDE DEF x, y
<1>3. x \div y \in Int /\ x \div y < 10000
  BY <1>1, Below
<1>4. QED
  BY <1>2, <1>3 DEF One

----------------------------------------------------------------------------
(* The smoke run: what a passing safety row says of the examples behind it. *)

\* What a golden set must not hold if its safety metric is to stay at 1.0.
Spoils(family, example) ==
    IF family = "arch" THEN Leaks(example) ELSE Misjudged(example)

IsExample(line) == line.kind = "example"

\* The sum of the safety scores while a family is scored: an example that was
\* read and spoils it has cost a whole unit.
SumInv ==
    /\ progress.at \in 0..Len(Lines) /\ progress.scored \in 0..progress.at
    /\ progress.sums["safety"] \in Nat
    /\ progress.sums["safety"] <= progress.scored * Unit(progress.family)
    /\ \A i \in 1..progress.at : IsExample(Lines[i]) =>
           /\ progress.scored >= 1
           /\ Spoils(progress.family, Lines[i].example) =>
                  progress.sums["safety"] <= (progress.scored - 1) * Unit(progress.family)

\* A family that is settled: its golden set held something, and if every row of
\* the report passes then nothing in it spoilt the safety metric.
Settled(family) ==
    /\ \E i \in DOMAIN run.files[family] : IsExample(run.files[family][i])
    /\ (\A row \in report.rows : row.passed) =>
           \A i \in DOMAIN run.files[family] :
               IsExample(run.files[family][i]) => ~Spoils(family, run.files[family][i].example)

Scoring ==
    /\ Covered
    /\ \E i \in DOMAIN Lines : IsExample(Lines[i])
    /\ SumInv

IsProgress ==
    progress = [family |-> progress.family, at |-> progress.at, scored |-> progress.scored,
                sums |-> progress.sums, pooled |-> progress.pooled]

\* The gate, stage by stage.
GateInv ==
    /\ stage \in {"none", "load", "score", "decide", "evaluate", "confirm", "ended"}
    /\ IsProgress /\ progress.family \in Family
    /\ stage = "none" => progress = Unscored
    /\ stage # "ended" => exit = NoExit
    /\ stage \in {"load", "score", "decide"} =>
           run.mode = "smoke" /\ run.files \in GoldenFiles /\ run.rubric \in Rubrics
    /\ stage \in {"evaluate", "confirm"} => run.mode = "gate"
    /\ stage = "confirm" => run.profile \in {"platform", "gcp"}
    /\ stage \in {"load", "score"} /\ progress.family = "residency" => Settled("arch")
    /\ stage = "decide" => Settled("arch") /\ Settled("residency")
    /\ stage = "score" => Scoring
    /\ PromotionIsEarned

\* The bound on the lines of a golden file, as the arithmetic needs it.
LEMMA ShortList ==
    ASSUME NEW lines, NEW S, lines \in Seq(S), Len(lines) <= MaxLines
    PROVE  Len(lines) \in Nat /\ Len(lines) < 20000 /\ DOMAIN lines = 1..Len(lines)
<1>1. MaxLines \in Nat /\ MaxLines < 20000
  BY GoldenAssumption
<1>2. Len(lines) \in Nat /\ DOMAIN lines = 1..Len(lines)
  BY LenProperties
<1>3. QED
  BY <1>1, <1>2

\* The golden set of either family is a list of fewer than 20,000 lines.
LEMMA GoldenLines ==
    ASSUME NEW files \in GoldenFiles, NEW family \in Family
    PROVE  /\ Len(files[family]) \in Nat /\ Len(files[family]) < 20000
           /\ DOMAIN files[family] = 1..Len(files[family])
<1>1. /\ files["arch"] \in Seq(Line(GoldenSubmission)) /\ Len(files["arch"]) <= MaxLines
      /\ files["residency"] \in Seq(Line(GoldenScan)) /\ Len(files["residency"]) <= MaxLines
  BY GoldenAssumption
<1>2. /\ Len(files["arch"]) \in Nat /\ Len(files["arch"]) < 20000
      /\ DOMAIN files["arch"] = 1..Len(files["arch"])
  BY <1>1, ShortList
<1>3. /\ Len(files["residency"]) \in Nat /\ Len(files["residency"]) < 20000
      /\ DOMAIN files["residency"] = 1..Len(files["residency"])
  BY <1>1, ShortList
<1>4. family = "arch" \/ family = "residency"
  BY DEF Family
<1>5. CASE family = "arch"
  BY <1>2, <1>5
<1>6. CASE family = "residency"
  BY <1>3, <1>6
<1>7. QED
  BY <1>4, <1>5, <1>6

\* The safety score of an example is nought if it spoils the metric and a whole
\* unit if it does not (run_eval.py:307-311, 338-340).
LEMMA SafetyScore ==
    ASSUME NEW family \in Family, NEW example
    PROVE  Score(family, "safety", example)
               = IF Spoils(family, example) THEN 0 ELSE Unit(family)
<1>1. CASE family = "arch"
  BY <1>1 DEF Score, ArchSafety, Spoils, Leaks, Unit
<1>2. CASE family = "residency"
  BY <1>2 DEF Score, ResidencySafety, Spoils, Misjudged, Unit
<1>3. QED
  BY <1>1, <1>2 DEF Family

\* A family whose examples were all read, and one of which spoilt the metric, has
\* a mean below the bar.
LEMMA SpoiltMean ==
    ASSUME SumInv, progress.family \in Family, run.files \in GoldenFiles,
           progress.at = Len(Lines),
           NEW i \in DOMAIN Lines, IsExample(Lines[i]), Spoils(progress.family, Lines[i].example)
    PROVE  Mean("safety") \in Int /\ Mean("safety") < One
<1>1. Len(Lines) \in Nat /\ Len(Lines) < 20000 /\ DOMAIN Lines = 1..Len(Lines)
  BY GoldenLines DEF Lines
<1>2. /\ progress.scored \in Nat /\ progress.scored >= 1 /\ progress.scored < 20000
      /\ progress.sums["safety"] \in Nat
      /\ progress.sums["safety"] <= (progress.scored - 1) * Unit(progress.family)
  BY <1>1 DEF SumInv
<1>3. Unit(progress.family) \in {10000, 60}
  BY DEF Unit, One
<1> DEFINE scaled == Round4(progress.sums["safety"], progress.scored * Unit(progress.family))
<1>4. Misses(progress.scored, progress.sums["safety"], Unit(progress.family))
  BY <1>2, <1>3 DEF Misses
<1>5. BelowOne(scaled)
  BY <1>4, OneMissShows, Zenon
<1>6. Mean("safety") = scaled
  BY DEF Mean
<1>7. QED
  BY <1>5, <1>6 DEF BelowOne

\* Starting to score a family, with no line read yet, owes nothing.
LEMMA LoadStarts ==
    ASSUME GateInv, Load
    PROVE  GateInv'
<1>1. /\ stage = "load" /\ stage' = "score" /\ run' = run /\ report' = report /\ exit' = exit
      /\ exit = NoExit
      /\ progress.family \in Family /\ run.files \in GoldenFiles
  BY DEF Load, GateInv
<1>2. /\ progress'.family = progress.family /\ progress'.at = 0 /\ progress'.scored = 0
      /\ progress'.sums = [m \in Scored[progress.family] |-> 0]
      /\ IsProgress'
  BY DEF Load, GateInv, IsProgress
<1>3. progress'.sums["safety"] = 0
  BY <1>1, <1>2 DEF Family, Scored
<1>4. Lines' = Lines
  BY <1>1, <1>2 DEF Lines
<1>5. Len(Lines) \in Nat
  BY <1>1, GoldenLines DEF Lines
<1>6. SumInv'
  <2>1. Unit(progress.family) \in Nat
    BY DEF Unit, One
  <2>2. QED
    BY <1>2, <1>3, <1>4, <1>5, <2>1 DEF SumInv
<1>7. Scoring'
  BY <1>1, <1>2, <1>4, <1>6 DEF Scoring, Load, Covered, Unusable, IsExample, Line
<1>8. Settled("arch")' <=> Settled("arch")
  BY <1>1 DEF Settled
<1>9. QED
  BY <1>1, <1>2, <1>7, <1>8 DEF GateInv, PromotionIsEarned, NoExit

\* Reading on: a line that is no example costs nothing, and an example that
\* spoils the metric costs a whole unit.
LEMMA SumIsKept ==
    ASSUME GateInv, SkipLine \/ ScoreLine
    PROVE  SumInv'
<1>1. /\ stage = "score" /\ run' = run /\ progress.at < Len(Lines)
      /\ progress.family \in Family /\ run.files \in GoldenFiles
      /\ SumInv /\ IsProgress
  BY DEF SkipLine, ScoreLine, GateInv, Scoring
<1>2. /\ Len(Lines) \in Nat /\ progress.at \in Nat /\ progress.scored \in Nat
      /\ progress.scored <= progress.at /\ progress.sums["safety"] \in Nat
      /\ Unit(progress.family) \in Nat
  BY <1>1, GoldenLines DEF SumInv, Lines, Unit, One
<1>3. CASE SkipLine
  <2>1. /\ progress'.family = progress.family /\ progress'.at = progress.at + 1
        /\ progress'.scored = progress.scored /\ progress'.sums = progress.sums
    BY <1>1, <1>3 DEF SkipLine, IsProgress
  <2>2. Lines' = Lines /\ ~IsExample(Lines[progress.at + 1])
    BY <1>1, <1>3, <2>1 DEF Lines, SkipLine, IsExample
  <2>3. \A i \in 1..(progress.at + 1) : i \in 1..progress.at \/ i = progress.at + 1
    BY <1>2
  <2>4. QED
    BY <1>1, <1>2, <2>1, <2>2, <2>3 DEF SumInv
<1>4. CASE ScoreLine
  <2> DEFINE example == Lines[progress.at + 1].example
             cost == IF Spoils(progress.family, example) THEN 0 ELSE Unit(progress.family)
             before == progress.sums["safety"]
  <2>1. /\ progress'.family = progress.family /\ progress'.at = progress.at + 1
        /\ progress'.scored = progress.scored + 1
        /\ progress'.sums["safety"] = before + Score(progress.family, "safety", example)
    BY <1>1, <1>4 DEF ScoreLine, Family, Scored
  <2>2. progress'.sums["safety"] = before + cost
    BY <1>1, <2>1, SafetyScore
  <2>3. Lines' = Lines
    BY <1>1, <2>1 DEF Lines
  <2>4. \A i \in 1..(progress.at + 1) : i \in 1..progress.at \/ i = progress.at + 1
    BY <1>2
  <2>5. Unit(progress.family)' = Unit(progress.family) /\ Unit(progress.family) \in {10000, 60}
    BY <2>1 DEF Unit, One
  <2>6. /\ (progress.scored + 1) * Unit(progress.family)
                = progress.scored * Unit(progress.family) + Unit(progress.family)
        /\ (progress.scored - 1) * Unit(progress.family)
                = progress.scored * Unit(progress.family) - Unit(progress.family)
        /\ progress.scored * Unit(progress.family) \in Nat
    BY <1>2, <2>5
  <2>7. cost \in Nat /\ cost <= Unit(progress.family)
    BY <1>2
  <2>8. before \in Nat /\ before <= progress.scored * Unit(progress.family)
    BY <1>1 DEF SumInv
  <2>9. /\ progress'.at \in 0..Len(Lines) /\ progress'.scored \in 0..progress'.at
        /\ progress'.sums["safety"] \in Nat
        /\ progress'.sums["safety"] <= progress'.scored * Unit(progress.family)
    <3>1. progress'.at \in 0..Len(Lines) /\ progress'.scored \in 0..progress'.at
      BY <1>1, <1>2, <2>1
    <3>2. before + cost \in Nat
      BY <2>7, <2>8
    <3>3. before + cost <= progress.scored * Unit(progress.family) + Unit(progress.family)
      <4> HIDE DEF cost, before
      <4>1. QED
        BY <1>2, <2>6, <2>7, <2>8
    <3>4. QED
      BY <2>1, <2>2, <2>6, <3>1, <3>2, <3>3
  <2>10. ASSUME NEW i \in 1..progress'.at, IsExample(Lines[i]),
                Spoils(progress.family, Lines[i].example)
         PROVE  progress'.sums["safety"] <= progress.scored * Unit(progress.family)
    <3>1. CASE i = progress.at + 1
      BY <2>2, <2>8, <2>10, <3>1
    <3>2. CASE i \in 1..progress.at
      <4>1. before <= (progress.scored - 1) * Unit(progress.family)
        BY <1>1, <2>10, <3>2 DEF SumInv
      <4>2. QED
        BY <1>2, <2>2, <2>6, <2>7, <2>8, <4>1
    <3>3. QED
      BY <2>1, <2>4, <3>1, <3>2
  <2>11. (progress'.scored - 1) * Unit(progress.family)
             = progress.scored * Unit(progress.family)
    BY <1>2, <2>1
  <2>12. progress'.scored >= 1
    BY <1>2, <2>1
  <2>13. QED
    BY <2>1, <2>3, <2>5, <2>9, <2>10, <2>11, <2>12 DEF SumInv
<1>5. QED
  BY <1>3, <1>4

\* Scoring a line, or skipping a blank one, keeps the sum honest (eval/run_eval.py:366-374,469-479).
LEMMA ScoringIsKept ==
    ASSUME GateInv, SkipLine \/ ScoreLine
    PROVE  GateInv'
<1>1. /\ stage = "score" /\ stage' = stage /\ run' = run /\ report' = report /\ exit' = exit
      /\ exit = NoExit /\ progress'.family = progress.family /\ IsProgress'
  BY DEF SkipLine, ScoreLine, GateInv, IsProgress
<1>2. Lines' = Lines
  BY <1>1 DEF Lines
<1>3. Scoring'
  BY <1>1, <1>2, SumIsKept DEF Scoring, GateInv, Covered
<1>4. Settled("arch")' <=> Settled("arch")
  BY <1>1 DEF Settled
<1>5. QED
  BY <1>1, <1>3, <1>4 DEF GateInv, PromotionIsEarned, NoExit

\* The bar of a covered safety metric is 1.0.
LEMMA SafetyBar ==
    ASSUME Covered, run.rubric \in Rubrics, progress.family \in Family
    PROVE  Bar("safety") = One
<1>1. "safety" \in DOMAIN run.rubric[progress.family]
  BY DEF Covered, Scored, Family
<1>2. QED
  BY <1>1, RubricAssumption DEF Bar

\* Settling a family: if all rows pass, so does that of its safety metric. What
\* was settled before stays so, as rows are only added.
LEMMA SettleSettles ==
    ASSUME GateInv, Settle, NEW f \in Family, f = progress.family \/ Settled(f)
    PROVE  Settled(f)'
<1>1. /\ stage = "score" /\ run' = run /\ report'.rows = report.rows \cup Rows
      /\ progress.at = Len(Lines) /\ Scoring /\ progress.family \in Family
      /\ run.files \in GoldenFiles /\ run.rubric \in Rubrics
  BY DEF Settle, AllRead, GateInv
<1>2. CASE Settled(f)
  BY <1>1, <1>2 DEF Settled
<1>3. ASSUME \A row \in report'.rows : row.passed,
             NEW i \in DOMAIN Lines, IsExample(Lines[i])
      PROVE  ~Spoils(progress.family, Lines[i].example)
  <2>1. Row("safety") \in report'.rows
    BY <1>1 DEF Rows, Scored, Family
  <2>2. Mean("safety") >= One
    BY <1>1, <1>3, <2>1, SafetyBar DEF Row, Scoring
  <2>3. Spoils(progress.family, Lines[i].example)
            => Mean("safety") \in Int /\ Mean("safety") < One
    BY <1>1, <1>3, SpoiltMean DEF Scoring
  <2>4. QED
    BY <2>2, <2>3 DEF One
<1>4. CASE f = progress.family
  <2>1. /\ Lines = run.files[f] /\ Lines = run'.files[f]
        /\ \E i \in DOMAIN Lines : IsExample(Lines[i])
    BY <1>1, <1>4 DEF Lines, Scoring
  <2>2. (\A row \in report'.rows : row.passed) =>
            \A i \in DOMAIN Lines : IsExample(Lines[i]) => ~Spoils(f, Lines[i].example)
    BY <1>3, <1>4
  <2>3. QED
    BY <2>1, <2>2 DEF Settled, IsExample, Spoils, Leaks, Misjudged
<1>5. QED
  BY <1>2, <1>4

\* A family that is settled is one nothing spoilt, or fails its safety row.
LEMMA SettleIsKept ==
    ASSUME GateInv, Settle
    PROVE  GateInv'
<1>1. /\ stage = "score" /\ run' = run /\ exit' = exit /\ exit = NoExit
      /\ progress.family \in Family /\ run.mode = "smoke"
      /\ run.files \in GoldenFiles /\ run.rubric \in Rubrics
      /\ IsProgress /\ NextFamily
  BY DEF Settle, AllRead, GateInv
<1>2. CASE progress.family = "arch"
  <2>1. stage' = "load" /\ progress' = [Unscored EXCEPT !.family = "residency"]
    BY <1>1, <1>2 DEF NextFamily
  <2>2. IsProgress' /\ progress'.family = "residency"
    BY <2>1 DEF IsProgress, Unscored
  <2>3. Settled("arch")'
    BY <1>1, <1>2, SettleSettles DEF Family
  <2>4. QED
    BY <1>1, <2>1, <2>2, <2>3 DEF GateInv, PromotionIsEarned, NoExit, Family
<1>3. CASE progress.family = "residency"
  <2>1. stage' = "decide" /\ progress' = progress /\ IsProgress'
    BY <1>1, <1>3 DEF NextFamily, IsProgress
  <2>2. Settled("arch")
    BY <1>1, <1>3 DEF GateInv
  <2>3. Settled("arch")' /\ Settled("residency")'
    BY <1>3, <2>2, SettleSettles DEF Family
  <2>4. QED
    BY <1>1, <2>1, <2>3 DEF GateInv, PromotionIsEarned, NoExit
<1>4. QED
  BY <1>1, <1>2, <1>3 DEF Family

\* The smoke run ends with 0 only on a report that passes, over two families that
\* are settled.
LEMMA DecideIsKept ==
    ASSUME GateInv, Decide
    PROVE  GateInv'
<1>1. /\ stage = "decide" /\ stage' = "ended" /\ run' = run /\ progress' = progress
      /\ report' = report /\ exit' = (IF ReportPassed(report) THEN 0 ELSE 1)
      /\ run.mode = "smoke" /\ Settled("arch") /\ Settled("residency")
      /\ IsProgress /\ progress.family \in Family
  BY DEF Decide, Conclude, GateInv
<1>2. ASSUME ReportPassed(report)
      PROVE  /\ Examples(run.files.arch) # {} /\ Examples(run.files.residency) # {}
             /\ \A example \in Examples(run.files.arch) : ~Leaks(example)
             /\ \A scan \in Examples(run.files.residency) : ~Misjudged(scan)
  <2>1. \A row \in report.rows : row.passed
    BY <1>2 DEF ReportPassed
  <2>2. Examples(run.files.arch) # {} /\ \A example \in Examples(run.files.arch) : ~Leaks(example)
    BY <1>1, <2>1 DEF Settled, Examples, Spoils, IsExample
  <2>3. Examples(run.files.residency) # {} /\ \A scan \in Examples(run.files.residency) : ~Misjudged(scan)
    BY <1>1, <2>1 DEF Settled, Examples, Spoils, IsExample
  <2>4. QED
    BY <2>2, <2>3
<1>3. PromotionIsEarned'
  <2>1. CASE ReportPassed(report)
    BY <1>1, <1>2, <2>1 DEF PromotionIsEarned, ReportPassed
  <2>2. CASE ~ReportPassed(report)
    BY <1>1, <2>2 DEF PromotionIsEarned
  <2>3. QED
    BY <2>1, <2>2
<1>4. IsProgress'
  BY <1>1 DEF IsProgress
<1>5. QED
  BY <1>1, <1>3, <1>4 DEF GateInv, NoExit

----------------------------------------------------------------------------
(* The gate as a whole.                                                    *)

\* A gate that is left alone stays as it is.
LEMMA GateIsLeft ==
    ASSUME GateInv, UNCHANGED gate
    PROVE  GateInv'
<1>1. /\ run' = run /\ stage' = stage /\ progress' = progress
      /\ report' = report /\ exit' = exit
  BY DEF gate
<1>2. /\ Lines' = Lines /\ (Covered' <=> Covered) /\ (IsProgress' <=> IsProgress)
      /\ (SumInv' <=> SumInv)
  BY <1>1 DEF Lines, Covered, IsProgress, SumInv, Unit, One, IsExample, Spoils, Leaks, Misjudged
<1>3. Scoring' <=> Scoring
  BY <1>1, <1>2 DEF Scoring
<1>4. (Settled("arch")' <=> Settled("arch")) /\ (Settled("residency")' <=> Settled("residency"))
  BY <1>1 DEF Settled
<1>5. PromotionIsEarned' <=> PromotionIsEarned
  BY <1>1 DEF PromotionIsEarned, ReportPassed
<1>6. QED
  BY <1>1, <1>2, <1>3, <1>4, <1>5 DEF GateInv

\* However a run is started, it starts with nothing settled and nothing earned.
LEMMA RunStarts ==
    ASSUME GateInv, StartSmoke \/ \E profile : StartGate(profile)
    PROVE  GateInv'
<1>1. /\ stage = "none" /\ progress = Unscored /\ IsProgress
      /\ progress' = progress /\ report' = report /\ exit' = exit /\ exit = NoExit
  BY DEF GateInv, StartSmoke, StartGate
<1>2. IsProgress' /\ progress'.family = "arch" /\ "arch" \in Family
  BY <1>1 DEF IsProgress, Unscored, Family
<1>3. CASE StartSmoke
  <2>1. /\ stage' = "load" /\ run'.mode = "smoke"
        /\ run'.files \in GoldenFiles /\ run'.rubric \in Rubrics
    BY <1>3 DEF StartSmoke
  <2>2. QED
    BY <1>1, <1>2, <2>1 DEF GateInv, PromotionIsEarned, NoExit
<1>4. ASSUME NEW profile, StartGate(profile) PROVE GateInv'
  <2>1. stage' = "evaluate" /\ run'.mode = "gate"
    BY <1>4 DEF StartGate
  <2>2. QED
    BY <1>1, <1>2, <2>1 DEF GateInv, PromotionIsEarned, NoExit
<1>5. QED
  BY <1>3, <1>4

\* A step of the gate of either mode.
LEMMA GateStepIsKept ==
    ASSUME GateInv, GateStep
    PROVE  GateInv'
<1>1. ASSUME Conclude(1) PROVE GateInv'
  <2>1. stage' = "ended" /\ exit' = 1 /\ run' = run /\ progress' = progress
    BY <1>1 DEF Conclude
  <2>2. IsProgress' /\ progress'.family \in Family
    BY <2>1 DEF GateInv, IsProgress
  <2>3. QED
    BY <2>1, <2>2 DEF GateInv, PromotionIsEarned, NoExit
<1>2. CASE Evaluate
  <2>1. /\ stage = "evaluate" /\ stage' = "confirm" /\ run' = run /\ progress' = progress
        /\ exit' = exit /\ run.profile \in {"platform", "gcp"}
    BY <1>2 DEF Evaluate
  <2>2. IsProgress' /\ progress'.family \in Family /\ exit = NoExit /\ run.mode = "gate"
    BY <2>1 DEF GateInv, IsProgress
  <2>3. QED
    BY <2>1, <2>2 DEF GateInv, PromotionIsEarned, NoExit
<1>3. CASE Confirm
  <2>1. PICK code \in {0, 1} : Conclude(code) /\ (code = 0 => ReportPassed(report))
    BY <1>3 DEF Confirm
  <2>2. /\ stage' = "ended" /\ exit' = code /\ run' = run /\ progress' = progress
        /\ report' = report
    BY <2>1 DEF Conclude
  <2>3. /\ run.mode = "gate" /\ run.profile \in {"platform", "gcp"}
        /\ IsProgress' /\ progress'.family \in Family
    BY <1>3, <2>2 DEF Confirm, GateInv, IsProgress
  <2>4. PromotionIsEarned'
    BY <2>1, <2>2, <2>3 DEF PromotionIsEarned, ReportPassed
  <2>5. QED
    BY <2>2, <2>3, <2>4 DEF GateInv, NoExit
<1>4. CASE LoadFails \/ SettleFails \/ GateRefused \/ ServiceFails
  BY <1>1, <1>4 DEF LoadFails, SettleFails, GateRefused, ServiceFails
<1>5. QED
  BY <1>2, <1>3, <1>4, LoadStarts, ScoringIsKept, SettleIsKept, DecideIsKept DEF GateStep

\* What the gate keeps, stage by stage, on every run.
LEMMA GateHolds == Spec => []GateInv
<1>1. Init => GateInv
  <2>1. SUFFICES ASSUME GateInit PROVE GateInv
    BY DEF Init
  <2>2. QED
    BY <2>1 DEF GateInit, GateInv, IsProgress, Unscored, Family, PromotionIsEarned, NoExit
<1>2. GateInv /\ [Next]_vars => GateInv'
  <2> SUFFICES ASSUME GateInv, [Next]_vars PROVE GateInv'
    OBVIOUS
  <2>1. CASE UNCHANGED gate
    BY <2>1, GateIsLeft
  <2>2. CASE GateStep
    BY <2>2, GateStepIsKept
  <2>3. CASE StartSmoke
    BY <2>3, RunStarts
  <2>4. ASSUME NEW profile, StartGate(profile) PROVE GateInv'
    BY <2>4, RunStarts
  <2>5. ASSUME NEW c, Handle(c) PROVE UNCHANGED gate
    BY <2>5 DEF Handle, Refuse, Unavailable, Fails, Validate, Route, Answer,
                AnswerInjected, InjectOnly, TurnEnd, EvalReturns, Tell, Advance
  <2>6. QED
    BY <2>1, <2>2, <2>3, <2>4, <2>5
    DEF Next, vars, Begin, Advance, LateArrival, EvalCommand, Stop, Pipeline, Evaluation
<1>3. QED
  BY <1>1, <1>2, PTL DEF Spec

\* The exit code that lets a change through is earned, on every golden set, every
\* rubric and every answer of the evaluation service: no golden project that is
\* to fail was passed, and no golden scan was misjudged (run_eval.py:508-588).
THEOREM PromotionEarned == Spec => []PromotionIsEarned
<1>1. GateInv => PromotionIsEarned
  BY DEF GateInv
<1>2. QED
  BY <1>1, GateHolds, PTL

----------------------------------------------------------------------------
(* The doors: what a caller is told and what it leaves behind.             *)

\* The refusals and errors of a call.
Refusals == {"refused", "unavailable", "error"}

Handed(c) == c \in queue \cup inflight

NoRecord(c) == \A record \in trail : record.call = c => record.layer = "turn"

\* What a call may have left behind, stage by stage.
Kept(c) ==
    /\ call[c].stage \in {"idle", "begun", "judged", "handed", "told", "over", "lost", "evaluating"}
    /\ call[c].stage \notin {"told", "over"} => call[c].told = "none"
    /\ call[c].stage \in {"idle", "begun", "evaluating"} => ~Handed(c) /\ NoRecord(c)
    /\ call[c].stage = "judged" => ~Handed(c)
    /\ call[c].stage = "handed" =>
           /\ call[c].routing \in Routing
           /\ Handed(c) => call[c].routing \in {"routed", "failed"}
    /\ call[c].stage \in {"told", "over"} =>
           /\ Handed(c) => \/ call[c].told \in {"routed", "failed"}
                           \/ call[c].entry = "mcp_inject" /\ call[c].told = "requirements"
           /\ call[c].told \in Refusals => ~Handed(c) /\ NoRecord(c)

\* A call has its five fields.
IsCall(r) == {"stage", "entry", "findings", "routing", "told"} \subseteq DOMAIN r

IsCalls == call = [c \in Call |-> call[c]] /\ \A c \in Call : IsCall(call[c])

LedgerInv ==
    /\ IsCalls
    /\ queue \cup inflight \subseteq Call
    /\ \A c \in Call : Kept(c)

\* A call that is updated takes its new value, and the others keep theirs.
LEMMA OneCallMoves ==
    ASSUME IsCalls, NEW c \in Call, NEW next, IsCall(next), call' = [call EXCEPT ![c] = next]
    PROVE  IsCalls' /\ call'[c] = next /\ \A d \in Call \ {c} : call'[d] = call[d]
BY DEF IsCalls

\* A step of one call leaves the others alone.
Spares(c) ==
    \A d \in Call \ {c} :
        /\ call'[d] = call[d]
        /\ Handed(d)' => Handed(d)
        /\ \A record \in trail' : record.call = d => record \in trail

\* So what is kept of the other calls is kept after the step.
LEMMA OthersKeep ==
    ASSUME LedgerInv, NEW c \in Call, Spares(c), NEW d \in Call \ {c}
    PROVE  Kept(d)'
<1>1. Kept(d) /\ call'[d] = call[d] /\ (Handed(d)' => Handed(d)) /\ (NoRecord(d) => NoRecord(d)')
  BY DEF LedgerInv, Spares, NoRecord
<1> HIDE DEF Handed, NoRecord
<1>2. QED
  BY <1>1 DEF Kept

\* A step that writes no record and hands nothing off, for its own call.
LEMMA TellKeeps ==
    ASSUME LedgerInv, NEW c \in Call, NEW from, NEW what, Tell(c, from, what),
           from \in {"begun", "evaluating"} \/ (call[c].entry = "mcp_inject" /\ what = "requirements")
    PROVE  LedgerInv'
<1>1. /\ call[c].stage = from /\ trail' = trail /\ queue' = queue /\ inflight' = inflight
      /\ call' = [call EXCEPT ![c] = [call[c] EXCEPT !.stage = "told", !.told = what]]
  BY DEF Tell, Advance, sinks
<1>2. /\ IsCalls' /\ call'[c].stage = "told" /\ call'[c].told = what
      /\ call'[c].entry = call[c].entry
  <2> DEFINE next == [call[c] EXCEPT !.stage = "told", !.told = what]
  <2>1. IsCall(next) /\ next.stage = "told" /\ next.told = what /\ next.entry = call[c].entry
    BY DEF LedgerInv, IsCalls, IsCall
  <2>2. call' = [call EXCEPT ![c] = next]
    BY <1>1
  <2> HIDE DEF next
  <2>3. QED
    BY <2>1, <2>2, OneCallMoves DEF LedgerInv
<1>3. Spares(c)
  BY <1>1 DEF Spares, Handed, LedgerInv, IsCalls
<1>4. (Handed(c)' <=> Handed(c)) /\ (NoRecord(c)' <=> NoRecord(c))
  BY <1>1 DEF Handed, NoRecord
<1>5. Kept(c)'
  BY <1>1, <1>2, <1>4 DEF LedgerInv, Kept, Refusals
<1>6. QED
  BY <1>1, <1>2, <1>3, <1>5, OthersKeep DEF LedgerInv

\* A call begins with nothing recorded and nothing queued.
LEMMA BeginKeeps ==
    ASSUME LedgerInv, NEW c \in Call, NEW entry, Begin(c, entry)
    PROVE  LedgerInv'
<1>1. /\ call[c].stage = "idle" /\ trail' = trail /\ queue' = queue /\ inflight' = inflight
      /\ call' = [call EXCEPT ![c] = [NoCall EXCEPT !.stage = "begun", !.entry = entry]]
  BY DEF Begin, Advance, sinks
<1>2. IsCalls' /\ call'[c].stage = "begun" /\ call'[c].told = "none"
  BY <1>1 DEF LedgerInv, IsCalls, IsCall, NoCall
<1>3. Spares(c)
  BY <1>1 DEF Spares, Handed, LedgerInv, IsCalls
<1>4. (Handed(c)' <=> Handed(c)) /\ (NoRecord(c)' <=> NoRecord(c))
  BY <1>1 DEF Handed, NoRecord
<1>5. Kept(c)'
  BY <1>1, <1>2, <1>4 DEF LedgerInv, Kept
<1>6. QED
  BY <1>1, <1>2, <1>3, <1>5, OthersKeep DEF LedgerInv

\* The validation decides and records; it hands nothing over yet.
LEMMA ValidateKeeps ==
    ASSUME LedgerInv, NEW c \in Call, Validate(c)
    PROVE  LedgerInv'
<1> DEFINE findings == EvaluateAll(Submitted(c), AllowedRegions)
<1>1. /\ call[c].stage = "begun" /\ queue' = queue /\ inflight' = inflight
      /\ call' = [call EXCEPT ![c] = [call[c] EXCEPT !.stage = "judged", !.findings = findings]]
      /\ \A record \in trail' : record.call # c => record \in trail
  BY DEF Validate, Advance, Recorded
<1> HIDE DEF findings
<1>2. IsCalls' /\ call'[c].stage = "judged" /\ call'[c].told = call[c].told
  <2> DEFINE next == [call[c] EXCEPT !.stage = "judged", !.findings = findings]
  <2>1. IsCall(next) /\ next.stage = "judged" /\ next.told = call[c].told
    BY DEF LedgerInv, IsCalls, IsCall
  <2>2. call' = [call EXCEPT ![c] = next]
    BY <1>1
  <2> HIDE DEF next
  <2>3. QED
    BY <2>1, <2>2, OneCallMoves DEF LedgerInv
<1>3. Spares(c)
  BY <1>1 DEF Spares, Handed, LedgerInv, IsCalls
<1>4. Handed(c)' <=> Handed(c)
  BY <1>1 DEF Handed
<1>5. Kept(c)'
  BY <1>1, <1>2, <1>4 DEF LedgerInv, Kept
<1>6. QED
  BY <1>1, <1>2, <1>3, <1>5, OthersKeep DEF LedgerInv

\* What a hand-off reports is what was noted of it.
LEMMA RouteKeeps ==
    ASSUME LedgerInv, NEW c \in Call, Route(c)
    PROVE  LedgerInv'
<1>1. PICK outcome \in {"routed", "failed", "off"} :
          /\ call' = [call EXCEPT ![c] =
                         [call[c] EXCEPT !.stage = "handed", !.routing = Noted(c, outcome)]]
          /\ queue' = IF outcome = "routed" THEN queue \cup {c} ELSE queue
          /\ inflight' = inflight \/ (outcome = "failed" /\ inflight' = inflight \cup {c})
          /\ call[c].stage = "judged" /\ trail' = trail
  BY DEF Route, Advance
<1>2. Noted(c, outcome) = outcome
  BY DEF Noted, Outcome
<1>3. /\ IsCalls' /\ call'[c].stage = "handed" /\ call'[c].told = call[c].told
      /\ call'[c].routing = outcome
  <2> DEFINE next == [call[c] EXCEPT !.stage = "handed", !.routing = outcome]
  <2>1. IsCall(next) /\ next.stage = "handed" /\ next.told = call[c].told
        /\ next.routing = outcome
    BY DEF LedgerInv, IsCalls, IsCall
  <2>2. call' = [call EXCEPT ![c] = next]
    BY <1>1, <1>2
  <2> HIDE DEF next
  <2>3. QED
    BY <2>1, <2>2, OneCallMoves DEF LedgerInv
<1>4. Spares(c)
  BY <1>1 DEF Spares, Handed, LedgerInv, IsCalls
<1>5. Handed(c)' => Handed(c) \/ outcome \in {"routed", "failed"}
  BY <1>1 DEF Handed
<1>6. Kept(c)'
  BY <1>1, <1>3, <1>5 DEF LedgerInv, Kept, Routing
<1>7. QED
  BY <1>1, <1>3, <1>4, <1>6, OthersKeep DEF LedgerInv

\* The answer tells the outcome of the hand-off (api/disclosure.py:16-22).
LEMMA AnswerKeeps ==
    ASSUME LedgerInv, NEW c \in Call, Answer(c)
    PROVE  LedgerInv'
<1>1. /\ call[c].stage = "handed" /\ trail' = trail /\ queue' \subseteq queue
      /\ inflight' = inflight
      /\ call' = [call EXCEPT ![c] = [call[c] EXCEPT !.stage = "told", !.told = call[c].routing]]
  BY DEF Answer, Advance, Left
<1>2. IsCalls' /\ call'[c].stage = "told" /\ call'[c].told = call[c].routing
  <2> DEFINE next == [call[c] EXCEPT !.stage = "told", !.told = call[c].routing]
  <2>1. IsCall(next) /\ next.stage = "told" /\ next.told = call[c].routing
    BY DEF LedgerInv, IsCalls, IsCall
  <2>2. call' = [call EXCEPT ![c] = next]
    BY <1>1
  <2> HIDE DEF next
  <2>3. QED
    BY <2>1, <2>2, OneCallMoves DEF LedgerInv
<1>3. Spares(c)
  BY <1>1 DEF Spares, Handed, LedgerInv, IsCalls
<1>4. Handed(c)' => Handed(c)
  BY <1>1 DEF Handed
<1>5. Kept(c)'
  BY <1>1, <1>2, <1>4 DEF LedgerInv, Kept, Refusals, Routing
<1>6. QED
  BY <1>1, <1>2, <1>3, <1>5, OthersKeep DEF LedgerInv

\* A requirement list leaves no record and no review (agent/tools.py:86-112).
LEMMA InjectOnlyKeeps ==
    ASSUME LedgerInv, NEW c \in Call, InjectOnly(c)
    PROVE  LedgerInv'
<1> DEFINE findings == EvaluateAll(Submitted(c), DefaultRegions)
<1>1. /\ call[c].stage = "begun" /\ trail' = trail /\ queue' = queue /\ inflight' = inflight
      /\ call' = [call EXCEPT ![c] = [call[c] EXCEPT !.stage = "told", !.told = "requirements",
                                                    !.findings = findings]]
  BY DEF InjectOnly, Advance, sinks
<1> HIDE DEF findings
<1>2. IsCalls' /\ call'[c].stage = "told" /\ call'[c].told = "requirements"
  <2> DEFINE next == [call[c] EXCEPT !.stage = "told", !.told = "requirements",
                                    !.findings = findings]
  <2>1. IsCall(next) /\ next.stage = "told" /\ next.told = "requirements"
    BY DEF LedgerInv, IsCalls, IsCall
  <2>2. call' = [call EXCEPT ![c] = next]
    BY <1>1
  <2> HIDE DEF next
  <2>3. QED
    BY <2>1, <2>2, OneCallMoves DEF LedgerInv
<1>3. Spares(c)
  BY <1>1 DEF Spares, Handed, LedgerInv, IsCalls
<1>4. (Handed(c)' <=> Handed(c)) /\ (NoRecord(c)' <=> NoRecord(c))
  BY <1>1 DEF Handed, NoRecord
<1>5. Kept(c)'
  BY <1>1, <1>2, <1>4 DEF LedgerInv, Kept, Refusals
<1>6. QED
  BY <1>1, <1>2, <1>3, <1>5, OthersKeep DEF LedgerInv

\* The record at the end of a turn is none of the service's.
LEMMA TurnEndKeeps ==
    ASSUME LedgerInv, NEW c \in Call, TurnEnd(c)
    PROVE  LedgerInv'
<1>1. /\ call[c].stage = "told" /\ queue' = queue /\ inflight' = inflight
      /\ call' = [call EXCEPT ![c] = [call[c] EXCEPT !.stage = "over"]]
      /\ trail' \subseteq trail \cup {[call |-> c, layer |-> "turn", decision |-> "ESCALATED"]}
  BY DEF TurnEnd, Advance, Recorded
<1>2. /\ IsCalls' /\ call'[c].stage = "over" /\ call'[c].told = call[c].told
      /\ call'[c].entry = call[c].entry
  BY <1>1 DEF LedgerInv, IsCalls, IsCall
<1>3. Spares(c)
  BY <1>1 DEF Spares, Handed, LedgerInv, IsCalls
<1>4. (Handed(c)' <=> Handed(c)) /\ (NoRecord(c) => NoRecord(c)')
  BY <1>1 DEF Handed, NoRecord
<1>5. Kept(c)'
  BY <1>1, <1>2, <1>4 DEF LedgerInv, Kept
<1>6. QED
  BY <1>1, <1>2, <1>3, <1>5, OthersKeep DEF LedgerInv

\* A process that stops tells nothing and adds nothing to the queue.
LEMMA StopKeeps ==
    ASSUME LedgerInv, NEW host, Stop(host)
    PROVE  LedgerInv'
<1> DEFINE cut == {c \in Call : /\ Host(c) = host /\ call[c].stage # "idle"
                               /\ call[c].stage \in {"begun", "judged", "handed"}}
<1>1. /\ call' = [c \in Call |-> IF c \in cut THEN [call[c] EXCEPT !.stage = "lost"] ELSE call[c]]
      /\ trail' = trail /\ queue' \subseteq queue /\ inflight' = inflight
  BY DEF Stop, Left
<1>2. cut \subseteq {c \in Call : call[c].stage \in {"begun", "judged", "handed"}}
  OBVIOUS
<1> HIDE DEF cut
<1>3. IsCalls'
  BY <1>1 DEF LedgerInv, IsCalls, IsCall
<1>4. ASSUME NEW c \in Call PROVE Kept(c)'
  <2>1. (Handed(c)' => Handed(c)) /\ (NoRecord(c)' <=> NoRecord(c))
    BY <1>1 DEF Handed, NoRecord
  <2>2. CASE c \in cut
    <3>1. call'[c].stage = "lost" /\ call'[c].told = call[c].told
      BY <1>1, <2>2 DEF LedgerInv, IsCalls, IsCall
    <3>2. QED
      BY <1>2, <2>2, <3>1 DEF LedgerInv, Kept
  <2>3. CASE c \notin cut
    <3>1. call'[c] = call[c]
      BY <1>1, <2>3
    <3>2. QED
      BY <2>1, <3>1 DEF LedgerInv, Kept
  <2>4. QED
    BY <2>2, <2>3
<1>5. QED
  BY <1>1, <1>3, <1>4 DEF LedgerInv

\* The eval command touches neither sink (cli/main.py:301-334).
LEMMA EvalCommandKeeps ==
    ASSUME LedgerInv, NEW c \in Call, EvalCommand(c)
    PROVE  LedgerInv'
<1>1. /\ call[c].stage = "idle" /\ trail' = trail /\ queue' = queue /\ inflight' = inflight
      /\ call' = [call EXCEPT ![c] = [NoCall EXCEPT !.stage = "evaluating", !.entry = "eval"]]
  BY DEF EvalCommand, Quiet, sinks
<1>2. IsCalls' /\ call'[c].stage = "evaluating" /\ call'[c].told = "none"
  BY <1>1 DEF LedgerInv, IsCalls, IsCall, NoCall
<1>3. Spares(c)
  BY <1>1 DEF Spares, Handed, LedgerInv, IsCalls
<1>4. (Handed(c)' <=> Handed(c)) /\ (NoRecord(c)' <=> NoRecord(c))
  BY <1>1 DEF Handed, NoRecord
<1>5. Kept(c)'
  BY <1>1, <1>2, <1>4 DEF LedgerInv, Kept
<1>6. QED
  BY <1>1, <1>2, <1>3, <1>5, OthersKeep DEF LedgerInv

\* A late review arrives where it was already expected.
LEMMA LedgerIsLeft ==
    ASSUME LedgerInv,
           \/ UNCHANGED <<call, sinks>>
           \/ \E c \in Call : LateArrival(c)
    PROVE  LedgerInv'
<1>1. call' = call /\ trail' = trail /\ queue' \cup inflight' = queue \cup inflight
  BY DEF sinks, LateArrival
<1>2. ASSUME NEW c \in Call PROVE Kept(c)'
  <2>1. Kept(c) /\ (Handed(c)' <=> Handed(c)) /\ (NoRecord(c)' <=> NoRecord(c))
    BY <1>1 DEF Handed, NoRecord, LedgerInv
  <2>2. QED
    BY <1>1, <2>1 DEF Kept
<1>3. IsCalls'
  BY <1>1 DEF LedgerInv, IsCalls, IsCall
<1>4. QED
  BY <1>1, <1>2, <1>3 DEF LedgerInv

\* Every step of one call, action by action.
LEMMA HandleKeeps ==
    ASSUME LedgerInv, NEW c \in Call, Handle(c)
    PROVE  LedgerInv'
<1>1. CASE Refuse(c) \/ Unavailable(c) \/ Fails(c)
  BY <1>1, TellKeeps DEF Refuse, Unavailable, Fails
<1>2. CASE AnswerInjected(c)
  BY <1>2, TellKeeps DEF AnswerInjected
<1>3. CASE EvalReturns(c)
  BY <1>3, TellKeeps DEF EvalReturns
<1>4. QED
  BY <1>1, <1>2, <1>3, ValidateKeeps, RouteKeeps, AnswerKeeps, InjectOnlyKeeps, TurnEndKeeps
  DEF Handle

\* Whoever is told that nothing is queued is told the truth, for any number of
\* callers through any of the doors (controls.py:43-83,
\* cli/main.py:201-225, agent/tools.py:54-81, mcp/server.py:66-83).
THEOREM ReviewsAreTold == Spec => []QueuedIsTold
<1>1. Init => LedgerInv
  BY DEF Init, LedgerInv, IsCalls, IsCall, NoCall, Kept, Handed, NoRecord
<1>2. LedgerInv /\ [Next]_vars => LedgerInv'
  <2> SUFFICES ASSUME LedgerInv, [Next]_vars PROVE LedgerInv'
    OBVIOUS
  <2>1. CASE UNCHANGED vars
    BY <2>1, LedgerIsLeft DEF vars, sinks
  <2>2. CASE Pipeline \/ Evaluation
    BY <2>2, LedgerIsLeft DEF Pipeline, Evaluation
  <2>3. CASE \E c \in Call : LateArrival(c)
    BY <2>3, LedgerIsLeft
  <2>4. QED
    BY <2>1, <2>2, <2>3, BeginKeeps, HandleKeeps, EvalCommandKeeps, StopKeeps DEF Next
<1>3. LedgerInv => QueuedIsTold
  <2> SUFFICES ASSUME LedgerInv PROVE QueuedIsTold
    OBVIOUS
  <2>1. ASSUME NEW c \in Call, Handed(c), Ended(c)
        PROVE  \/ call[c].told \in {"routed", "failed"}
               \/ call[c].entry = "mcp_inject" /\ call[c].told = "requirements"
    BY <2>1 DEF LedgerInv, Kept, Ended
  <2>2. ASSUME NEW c \in Call, call[c].told \in Refusals
        PROVE  ~Handed(c) /\ NoRecord(c)
    BY <2>2 DEF LedgerInv, Kept, Refusals
  <2>3. queue \cup inflight \subseteq Call
    BY DEF LedgerInv
  <2>4. QED
    BY <2>1, <2>2, <2>3 DEF QueuedIsTold, Handed, NoRecord, Refusals
<1>4. QED
  BY <1>1, <1>2, <1>3, PTL DEF Spec

----------------------------------------------------------------------------
(* The readers: one document, whatever door it comes through.              *)

UnmetAt(s, id, allowed) == Check(s, id, allowed).status \in UnmetStatus

\* Two submissions that differ in nothing but their attributes.
Alike(s, t) ==
    /\ s.declared_controls = t.declared_controls /\ s.declared_region = t.declared_region
    /\ s.uses_pii = t.uses_pii /\ s.uses_rag = t.uses_rag
    /\ s.uses_fine_tuning = t.uses_fine_tuning /\ s.has_exit_plan = t.has_exit_plan

\* The attributes count for P-02 and P-03, the allowed regions for P-03
\* (principles_eval.py:85-135).
LEMMA OnlyTwoDiffer ==
    ASSUME NEW s, NEW t, Alike(s, t), NEW a, NEW b, NEW id, id \notin {"P-02", "P-03"}
    PROVE  Check(s, id, a) = Check(t, id, b)
<1>1. \A control : Has(s, control) <=> Has(t, control)
  BY DEF Has, Alike
<1>2. /\ P01(s) = P01(t) /\ P06(s) = P06(t) /\ P07(s) = P07(t) /\ P08(s) = P08(t)
      /\ P09(s) = P09(t) /\ P10(s) = P10(t) /\ P11(s) = P11(t)
  BY <1>1 DEF P01, P06, P07, P08, P09, P10, P11
<1>3. P04(s) = P04(t) /\ P05(s) = P05(t) /\ P12(s) = P12(t)
  BY <1>1 DEF P04, P05, P12, Alike
<1>4. QED
  BY <1>2, <1>3 DEF Check

\* An attribute can only excuse.
LEMMA AttributesExcuse ==
    ASSUME NEW s, NEW t, Alike(s, t), NEW a, NEW b, NEW id,
           id = "P-02" \/ (id = "P-03" /\ a = b),
           \A key \in {"documented_fallback", "region_exception"} : AttrTrue(t, key) => AttrTrue(s, key),
           UnmetAt(s, id, a)
    PROVE  UnmetAt(t, id, b)
<1>1. \A control : Has(s, control) <=> Has(t, control)
  BY DEF Has, Alike
<1>2. CASE id = "P-02"
  <2>1. P02(s).status \in UnmetStatus => P02(t).status \in UnmetStatus
    BY <1>1 DEF P02, Verdict, UnmetStatus
  <2>2. QED
    BY <1>2, <2>1 DEF UnmetAt, Check
<1>3. CASE id = "P-03" /\ a = b
  <2>1. StrippedRegion(s) = StrippedRegion(t)
    BY DEF StrippedRegion, Alike
  <2>2. P03(s, a).status \in UnmetStatus => P03(t, a).status \in UnmetStatus
    BY <2>1 DEF P03, Verdict, UnmetStatus
  <2>3. QED
    BY <1>3, <2>2 DEF UnmetAt, Check
<1>4. QED
  BY <1>2, <1>3

Doors == Validating \cup Injecting

\* A document that both readers accept, and that has the types of the schema if
\* the API is one of them, is the same submission but for its attributes, which
\* the MCP server leaves out.
LEMMA ReadersAgree ==
    ASSUME NEW d \in Document, NEW e \in Doors, NEW f \in Doors,
           ~Refuses(e, d), ~Refuses(f, d), Typed(d) \/ "api" \notin {e, f}
    PROVE  /\ Alike(Read(e, d), Read(f, d))
           /\ e \in OfMcp => Read(e, d).attributes = Unattributed
           /\ e \notin OfMcp => Read(e, d).attributes = d.attributes
           /\ f \in OfMcp => Read(f, d).attributes = Unattributed
           /\ f \notin OfMcp => Read(f, d).attributes = d.attributes
<1> DEFINE Plain(x) == SubmissionOf(d, x, Truthy(d))
<1>1. \A x, y : Plain(x).attributes = x /\ Alike(Plain(x), Plain(y))
  BY DEF SubmissionOf, Alike
<1> HIDE DEF Plain
<1>2. ASSUME NEW g \in Doors, ~Refuses(g, d), Typed(d) \/ g # "api", d.object
      PROVE  Read(g, d) = Plain(IF g \in OfMcp THEN Unattributed ELSE d.attributes)
  <2>1. CASE g = "api"
    <3>1. Coerced(d) = Truthy(d)
      BY <1>2, <2>1 DEF Typed, Coerced, Truthy
    <3>2. Read(g, d) = FromRequest(d) /\ g \notin OfMcp
      BY <2>1 DEF Read, OfMcp, OfAgent
    <3>3. QED
      BY <3>1, <3>2 DEF FromRequest, Plain
  <2>2. CASE g \in {"cli", "cli_inject"} \cup OfAgent
    BY <2>2 DEF Read, OfMcp, OfAgent, FromFile, FromArguments, Plain
  <2>3. CASE g \in OfMcp
    BY <1>2, <2>3 DEF Read, OfMcp, OfAgent, FromTool, Plain
  <2>4. QED
    BY <2>1, <2>2, <2>3 DEF Doors, Validating, Injecting, OfMcp, OfAgent
<1>3. CASE d.object
  <2>1. /\ Read(e, d) = Plain(IF e \in OfMcp THEN Unattributed ELSE d.attributes)
        /\ Read(f, d) = Plain(IF f \in OfMcp THEN Unattributed ELSE d.attributes)
    BY <1>2, <1>3
  <2>2. QED
    BY <1>1, <2>1
<1>4. CASE ~d.object
  <2>1. e \in OfMcp /\ f \in OfMcp
    BY <1>4 DEF Refuses, SchemaRefuses, Doors, Validating, Injecting, OfMcp, OfAgent
  <2>2. Read(e, d) = Read(f, d) /\ Read(e, d) = SubmissionOf(EmptyDocument, Unattributed, Truthy(EmptyDocument))
    BY <1>4, <2>1 DEF Read, OfMcp, OfAgent, FromTool
  <2>3. Read(e, d).attributes = Unattributed
    BY <2>2 DEF SubmissionOf
  <2>4. QED
    BY <2>1, <2>2, <2>3 DEF Alike
<1>5. QED
  BY <1>3, <1>4

RegionsOf(entry) == IF entry \in Validating THEN AllowedRegions ELSE DefaultRegions

\* What two doors ask for, of one document.
LEMMA DoorsAgree ==
    ASSUME NEW d \in Document, NEW e \in Doors, NEW f \in Doors,
           ~Refuses(e, d), ~Refuses(f, d), Typed(d) \/ "api" \notin {e, f},
           NEW id, UnmetAt(Read(e, d), id, RegionsOf(e)), ~UnmetAt(Read(f, d), id, RegionsOf(f))
    PROVE  \/ id = "P-03" /\ ~(e \in Validating <=> f \in Validating)
           \/ id \in {"P-02", "P-03"} /\ e \in OfMcp /\ f \notin OfMcp
<1> DEFINE s == Read(e, d)
           t == Read(f, d)
<1>1. /\ Alike(s, t)
      /\ e \in OfMcp => s.attributes = Unattributed
      /\ e \notin OfMcp => s.attributes = d.attributes
      /\ f \in OfMcp => t.attributes = Unattributed
      /\ f \notin OfMcp => t.attributes = d.attributes
  BY ReadersAgree
<1> HIDE DEF s, t
<1>2. UnmetAt(s, id, RegionsOf(e)) /\ ~UnmetAt(t, id, RegionsOf(f))
  BY DEF s, t
<1>3. id \in {"P-02", "P-03"}
  BY <1>1, <1>2, OnlyTwoDiffer DEF UnmetAt
<1>4. ASSUME e \notin OfMcp \/ f \in OfMcp
      PROVE  \A key \in {"documented_fallback", "region_exception"} :
                 AttrTrue(t, key) => AttrTrue(s, key)
  <2>1. \A key \in {"documented_fallback", "region_exception"} : Unattributed[key].word # "signed"
    BY DEF Unattributed, AttributeKey
  <2>2. QED
    BY <1>1, <1>4, <2>1 DEF AttrTrue
<1>5. (e \in Validating <=> f \in Validating) => RegionsOf(e) = RegionsOf(f)
  BY DEF RegionsOf
<1>6. QED
  BY <1>1, <1>2, <1>3, <1>4, <1>5, AttributesExcuse

UnmetIds(s, allowed) ==
    {PrincipleIds[i] : i \in {i \in 1..12 : UnmetAt(s, PrincipleIds[i], allowed)}}

\* The principles an evaluation finds unmet.
LEMMA AskedAre ==
    ASSUME NEW c, NEW s, NEW allowed, call[c].findings = EvaluateAll(s, allowed)
    PROVE  Asked(c) = UnmetIds(s, allowed)
<1> DEFINE findings == call[c].findings
<1>1. /\ DOMAIN findings = 1..12
      /\ \A i \in 1..12 : /\ findings[i].principle_id = PrincipleIds[i]
                          /\ findings[i].status = Check(s, PrincipleIds[i], allowed).status
  BY DEF EvaluateAll, EvaluatePrinciple
<1>2. Asked(c) = {findings[i].principle_id : i \in Unmet(findings)}
  BY DEF Asked
<1> HIDE DEF findings
<1>3. QED
  BY <1>1, <1>2 DEF Unmet, UnmetAt, UnmetIds

\* A call that has a verdict has that of the rules on what its reader made of the
\* document; one that has not begun to evaluate has none.
Verified(c) ==
    /\ call[c].stage \in {"idle", "begun", "evaluating"} => call[c].findings = << >>
    /\ Judged(c) =>
           /\ call[c].entry \in Doors /\ Readable(c)
           /\ call[c].findings = EvaluateAll(Submitted(c), RegionsOf(call[c].entry))

VerdictInv ==
    /\ IsCalls
    /\ deployment.document \in Document
    /\ \A c \in Call : Verified(c)

\* What the findings were made of suffices for two doors to ask alike.
LEMMA VerdictsAgree ==
    ASSUME VerdictInv
    PROVE  EntryPointsAgree
<1> SUFFICES ASSUME NEW c \in Call, NEW d \in Call, Judged(c), Judged(d),
                    Typed(deployment.document) \/ "api" \notin {call[c].entry, call[d].entry},
                    NEW id \in Asked(c) \ Asked(d)
             PROVE  id \in MayAskMore(c, d)
  BY DEF EntryPointsAgree
<1> DEFINE e == call[c].entry
           f == call[d].entry
           document == deployment.document
<1>1. /\ document \in Document /\ e \in Doors /\ f \in Doors
      /\ ~Refuses(e, document) /\ ~Refuses(f, document)
      /\ call[c].findings = EvaluateAll(Read(e, document), RegionsOf(e))
      /\ call[d].findings = EvaluateAll(Read(f, document), RegionsOf(f))
  BY DEF VerdictInv, Verified, Readable, Submitted
<1>2. Asked(c) = UnmetIds(Read(e, document), RegionsOf(e))
  BY <1>1, AskedAre
<1>3. Asked(d) = UnmetIds(Read(f, document), RegionsOf(f))
  BY <1>1, AskedAre
<1>4. \/ id = "P-03" /\ ~(e \in Validating <=> f \in Validating)
      \/ id \in {"P-02", "P-03"} /\ e \in OfMcp /\ f \notin OfMcp
  <2>1. UnmetAt(Read(e, document), id, RegionsOf(e)) /\ ~UnmetAt(Read(f, document), id, RegionsOf(f))
    BY <1>2, <1>3 DEF UnmetIds
  <2>2. QED
    BY <1>1, <2>1, DoorsAgree
<1>5. QED
  BY <1>4 DEF MayAskMore, ReadsConfig

\* A step of a call that neither evaluates nor starts anew.
LEMMA VerdictStays ==
    ASSUME VerdictInv, NEW c \in Call, NEW next, IsCall(next),
           call' = [call EXCEPT ![c] = next], deployment' = deployment,
           \/ next.findings = << >>
           \/ next.findings = call[c].findings /\ next.entry = call[c].entry
              /\ next.stage \notin {"idle", "begun", "evaluating"}
           \/ /\ next.entry \in Doors /\ Readable(c) /\ next.entry = call[c].entry
              /\ next.stage \notin {"idle", "begun", "evaluating"}
              /\ next.findings = EvaluateAll(Submitted(c), RegionsOf(next.entry))
    PROVE  VerdictInv'
<1>1. IsCalls' /\ call'[c] = next /\ \A d \in Call \ {c} : call'[d] = call[d]
  BY OneCallMoves DEF VerdictInv
<1>2. ASSUME NEW d \in Call \ {c} PROVE Verified(d)'
  BY <1>1, <1>2 DEF VerdictInv, Verified, Judged, Readable, Submitted
<1>3. Verified(c)'
  BY <1>1 DEF VerdictInv, Verified, Judged, Readable, Submitted
<1>4. QED
  BY <1>1, <1>2, <1>3 DEF VerdictInv

\* A step of a call keeps what its findings were made of,
LEMMA AdvanceStays ==
    ASSUME VerdictInv, NEW c \in Call, Handle(c)
    PROVE  VerdictInv'
<1> USE DEF IsCall
<1>1. IsCall(call[c])
  BY DEF VerdictInv, IsCalls
<1>2. ASSUME NEW from, NEW what, Tell(c, from, what) PROVE VerdictInv'
  <2> DEFINE next == [call[c] EXCEPT !.stage = "told", !.told = what]
  <2>1. /\ IsCall(next) /\ next.findings = call[c].findings /\ next.entry = call[c].entry
        /\ next.stage \notin {"idle", "begun", "evaluating"}
    BY <1>1
  <2>2. call' = [call EXCEPT ![c] = next] /\ deployment' = deployment
    BY <1>2 DEF Tell, Advance
  <2> HIDE DEF next, IsCall
  <2>3. QED
    BY <2>1, <2>2, VerdictStays
<1>3. CASE Validate(c)
  <2> DEFINE next == [call[c] EXCEPT !.stage = "judged",
                                    !.findings = EvaluateAll(Submitted(c), AllowedRegions)]
  <2>1. /\ IsCall(next) /\ next.findings = EvaluateAll(Submitted(c), AllowedRegions)
        /\ next.entry = call[c].entry /\ next.stage \notin {"idle", "begun", "evaluating"}
    BY <1>1
  <2>2. /\ call' = [call EXCEPT ![c] = next] /\ deployment' = deployment
        /\ Readable(c) /\ call[c].entry \in Validating
    BY <1>3 DEF Validate, Advance
  <2> HIDE DEF next, IsCall
  <2>3. QED
    BY <2>1, <2>2, VerdictStays DEF Doors, RegionsOf
<1>4. CASE InjectOnly(c)
  <2> DEFINE next == [call[c] EXCEPT !.stage = "told", !.told = "requirements",
                                    !.findings = EvaluateAll(Submitted(c), DefaultRegions)]
  <2>1. /\ IsCall(next) /\ next.findings = EvaluateAll(Submitted(c), DefaultRegions)
        /\ next.entry = call[c].entry /\ next.stage \notin {"idle", "begun", "evaluating"}
    BY <1>1
  <2>2. /\ call' = [call EXCEPT ![c] = next] /\ deployment' = deployment
        /\ Readable(c) /\ call[c].entry \in Doors \ Validating
    BY <1>4 DEF InjectOnly, Advance, Doors, Injecting, Validating
  <2> HIDE DEF next, IsCall
  <2>3. QED
    BY <2>1, <2>2, VerdictStays DEF RegionsOf
<1>5. CASE Route(c)
  <2>1. PICK outcome : call' = [call EXCEPT ![c] =
                           [call[c] EXCEPT !.stage = "handed", !.routing = Noted(c, outcome)]]
    BY <1>5 DEF Route, Advance
  <2> DEFINE next == [call[c] EXCEPT !.stage = "handed", !.routing = Noted(c, outcome)]
  <2>2. /\ IsCall(next) /\ next.findings = call[c].findings /\ next.entry = call[c].entry
        /\ next.stage \notin {"idle", "begun", "evaluating"}
    BY <1>1
  <2>3. call' = [call EXCEPT ![c] = next] /\ deployment' = deployment
    BY <1>5, <2>1 DEF Route, Advance
  <2> HIDE DEF next, IsCall
  <2>4. QED
    BY <2>2, <2>3, VerdictStays
<1>6. CASE Answer(c)
  <2> DEFINE next == [call[c] EXCEPT !.stage = "told", !.told = call[c].routing]
  <2>1. /\ IsCall(next) /\ next.findings = call[c].findings /\ next.entry = call[c].entry
        /\ next.stage \notin {"idle", "begun", "evaluating"}
    BY <1>1
  <2>2. call' = [call EXCEPT ![c] = next] /\ deployment' = deployment
    BY <1>6 DEF Answer, Advance
  <2> HIDE DEF next, IsCall
  <2>3. QED
    BY <2>1, <2>2, VerdictStays
<1>7. CASE TurnEnd(c)
  <2> DEFINE next == [call[c] EXCEPT !.stage = "over"]
  <2>1. /\ IsCall(next) /\ next.findings = call[c].findings /\ next.entry = call[c].entry
        /\ next.stage \notin {"idle", "begun", "evaluating"}
    BY <1>1
  <2>2. call' = [call EXCEPT ![c] = next] /\ deployment' = deployment
    BY <1>7 DEF TurnEnd, Advance
  <2> HIDE DEF next, IsCall
  <2>3. QED
    BY <2>1, <2>2, VerdictStays
<1> HIDE DEF IsCall
<1>8. QED
  BY <1>2, <1>3, <1>4, <1>5, <1>6, <1>7
  DEF Handle, Refuse, Unavailable, Fails, AnswerInjected, EvalReturns

\* A call begins without a verdict.
LEMMA StartStays ==
    ASSUME VerdictInv, NEW c \in Call, NEW entry, Begin(c, entry) \/ EvalCommand(c)
    PROVE  VerdictInv'
<1> DEFINE Started(there, door) == [NoCall EXCEPT !.stage = there, !.entry = door]
<1>1. \A there, door : IsCall(Started(there, door)) /\ Started(there, door).findings = << >>
  BY DEF NoCall, IsCall
<1>2. /\ deployment' = deployment
      /\ \/ call' = [call EXCEPT ![c] = Started("begun", entry)]
         \/ call' = [call EXCEPT ![c] = Started("evaluating", "eval")]
  BY DEF Begin, EvalCommand, Advance
<1> HIDE DEF Started
<1>3. QED
  BY <1>1, <1>2, VerdictStays

\* as does a process that stops,
LEMMA StopStays ==
    ASSUME VerdictInv, NEW host, Stop(host)
    PROVE  VerdictInv'
<1> DEFINE cut == {c \in Call : /\ Host(c) = host /\ call[c].stage # "idle"
                               /\ call[c].stage \in {"begun", "judged", "handed"}}
<1>1. /\ call' = [c \in Call |-> IF c \in cut THEN [call[c] EXCEPT !.stage = "lost"] ELSE call[c]]
      /\ deployment' = deployment
  BY DEF Stop
<1> HIDE DEF cut
<1>2. IsCalls' /\ \A c \in Call : /\ call'[c].findings = call[c].findings
                                /\ call'[c].entry = call[c].entry
                                /\ call'[c].stage \in {"lost", call[c].stage}
  BY <1>1 DEF VerdictInv, IsCalls, IsCall
<1>3. ASSUME NEW c \in Call PROVE Verified(c)'
  BY <1>1, <1>2 DEF VerdictInv, Verified, Judged, Readable, Submitted
<1>4. QED
  BY <1>1, <1>2, <1>3 DEF VerdictInv

\* and whatever leaves the calls alone.
LEMMA VerdictIsLeft ==
    ASSUME VerdictInv, UNCHANGED <<deployment, call>>
    PROVE  VerdictInv'
BY DEF VerdictInv, IsCalls, IsCall, Verified, Judged, Readable, Submitted

\* Whichever doors two calls come through, they are asked for the same, but for
\* what the MCP server does not read and the built-in regions of the requirement
\* lists (api/schemas.py:71-84, cli/main.py:101-123, agent/tools.py:36-51,
\* mcp/server.py:32-53).
THEOREM DoorsAskAlike == Spec => []EntryPointsAgree
<1>1. Init => VerdictInv
  BY EntryAssumption DEF Init, VerdictInv, Verified, Judged, IsCalls, IsCall, NoCall
<1>2. VerdictInv /\ [Next]_vars => VerdictInv'
  <2> SUFFICES ASSUME VerdictInv, [Next]_vars PROVE VerdictInv'
    OBVIOUS
  <2>1. CASE UNCHANGED vars \/ Pipeline \/ Evaluation \/ \E c \in Call : LateArrival(c)
    BY <2>1, VerdictIsLeft DEF vars, Pipeline, Evaluation, LateArrival
  <2>2. QED
    BY <2>1, AdvanceStays, StartStays, StopStays DEF Next
<1>3. VerdictInv => EntryPointsAgree
  BY VerdictsAgree
<1>4. QED
  BY <1>1, <1>2, <1>3, PTL DEF Spec

----------------------------------------------------------------------------
(* Types: a score is at most a whole unit of its family, so a mean is a     *)
(* fraction of 1.0, for every golden set and whatever the evaluator finds.  *)

\* Of no more than n wholes a share is no more than the whole.
LEMMA ShareIsBounded ==
    ASSUME NEW part \in Nat, NEW whole \in Nat \ {0}, NEW unit \in Nat, part <= whole * unit
    PROVE  part \div whole \in 0..unit
<1>1. part \div whole \in Int /\ whole * (part \div whole) <= part /\ part \div whole >= 0
  OBVIOUS
<1>2. SUFFICES ASSUME part \div whole >= unit + 1 PROVE FALSE
  BY <1>1
<1>3. whole * (part \div whole) >= whole * (unit + 1)
  BY <1>1, <1>2
<1>4. whole * (unit + 1) = whole * unit + whole
  OBVIOUS
<1>5. QED
  BY <1>1, <1>3, <1>4

\* A part of a whole, rounded to four digits, is no more than 1.0.
LEMMA RoundIsFraction ==
    ASSUME NEW n \in Nat, NEW d \in Nat \ {0}, n <= d
    PROVE  Round4(n, d) \in 0..One
<1> DEFINE x == 2 * One * n + d
           y == 2 * d
           q == x \div y
<1>1. x \in Nat /\ y \in Nat \ {0} /\ x < 10001 * y
  BY DEF One
<1>2. Round4(n, d) = q
  BY DEF Round4
<1> HIDE DEF x, y
<1>3. q \in Int /\ q >= 0 /\ y * q <= x
  BY <1>1
<1> HIDE DEF q
<1>4. q < 10001
  <2>1. SUFFICES ASSUME q >= 10001 PROVE FALSE
    BY <1>3
  <2>2. y * q >= y * 10001
    BY <1>1, <1>3, <2>1
  <2>3. QED
    BY <1>1, <1>3, <2>2
<1>5. QED
  BY <1>2, <1>3, <1>4 DEF One

\* A check answers with a status and a severity of the domain.
LEMMA CheckTypes ==
    ASSUME NEW s, NEW id, NEW allowed
    PROVE  Check(s, id, allowed).status \in CheckStatus /\ Check(s, id, allowed).severity \in Severity
<1> DEFINE Fits(v) == v.status \in CheckStatus /\ v.severity \in Severity
<1>1. Fits(P01(s)) /\ Fits(P02(s)) /\ Fits(P03(s, allowed)) /\ Fits(P04(s))
  BY DEF P01, P02, P03, P04, Verdict, CheckStatus, Severity
<1>2. Fits(P05(s)) /\ Fits(P06(s)) /\ Fits(P07(s)) /\ Fits(P08(s))
  BY DEF P05, P06, P07, P08, Verdict, CheckStatus, Severity
<1>3. Fits(P09(s)) /\ Fits(P10(s)) /\ Fits(P11(s)) /\ Fits(P12(s))
  BY DEF P09, P10, P11, P12, Verdict, CheckStatus, Severity
<1> HIDE DEF Fits
<1>4. Fits(Check(s, id, allowed))
  BY <1>1, <1>2, <1>3 DEF Check
<1>5. QED
  BY <1>4 DEF Fits

\* An evaluation has a finding for each of the twelve principles.
LEMMA VerdictTypes ==
    ASSUME NEW s, NEW allowed
    PROVE  EvaluateAll(s, allowed) \in [1..12 -> Finding] /\ DOMAIN EvaluateAll(s, allowed) = 1..12
<1>1. \A i \in 1..12 : PrincipleIds[i] \in PrincipleRef
  BY DEF PrincipleRef, Principles
<1>2. \A i \in 1..12 : EvaluatePrinciple(s, PrincipleIds[i], allowed) \in Finding
  BY <1>1, CheckTypes DEF EvaluatePrinciple, Finding
<1>3. QED
  BY <1>2 DEF EvaluateAll

\* A part of a finite set has at most as many members.
LEMMA Fewer ==
    ASSUME NEW whole, IsFiniteSet(whole), NEW part, part \subseteq whole
    PROVE  /\ Cardinality(part) \in Nat /\ Cardinality(whole) \in Nat
           /\ Cardinality(part) <= Cardinality(whole)
           /\ whole # {} => Cardinality(whole) # 0
<1>1. IsFiniteSet(part) /\ Cardinality(part) <= Cardinality(whole)
  BY FS_Subset
<1>2. QED
  BY <1>1, FS_CardinalityType, FS_EmptySet

\* The twelve positions.
LEMMA Twelve == IsFiniteSet(1..12) /\ Cardinality(1..12) = 12
<1>1. /\ IsFiniteSet(1..12)
      /\ Cardinality(1..12) = IF 1 > 12 THEN 0 ELSE 12 - 1 + 1
  BY FS_Interval, 1 \in Int, 12 \in Int, Zenon
<1>2. QED
  BY <1>1

\* The golden findings are twelve, and each unmet one has a requirement.
LEMMA GoldenCounts ==
    ASSUME NEW example
    PROVE  /\ DOMAIN GoldenFindings(example) = 1..12
           /\ DOMAIN GoldenInjected(example) \subseteq 1..12
<1>1. DOMAIN GoldenFindings(example) = 1..12
  BY VerdictTypes DEF GoldenFindings
<1>2. DOMAIN GoldenInjected(example) = Unmet(GoldenFindings(example))
  BY DEF GoldenInjected, Inject
<1>3. QED
  BY <1>1, <1>2 DEF Unmet

\* The scores of a golden project are fractions of 1.0 (run_eval.py:258-311).
LEMMA ArchScores ==
    ASSUME NEW example \in GoldenSubmission, NEW metric \in Scored.arch
    PROVE  Score("arch", metric, example) \in 0..One
<1>1. PrincipleAccuracy(example) \in 0..One
  <2> DEFINE findings == GoldenFindings(example)
             correct == {i \in DOMAIN findings :
                           findings[i].status = "FAIL" <=> findings[i].principle_id \in example.failed}
  <2>1. DOMAIN findings = 1..12 /\ correct \subseteq 1..12
    BY GoldenCounts
  <2>2. PrincipleAccuracy(example) = Round4(Cardinality(correct), Cardinality(DOMAIN findings))
    BY DEF PrincipleAccuracy
  <2> HIDE DEF findings, correct
  <2>3. Cardinality(correct) \in Nat /\ Cardinality(correct) <= 12
    BY <2>1, Twelve, Fewer
  <2>4. QED
    BY <2>1, <2>2, <2>3, Twelve, RoundIsFraction
<1>2. InjectionRecall(example) \in 0..One
  <2> DEFINE expected == ExpectedInjected(example)
             injected == {GoldenInjected(example)[i].principle_id : i \in Unmet(GoldenFindings(example))}
  <2>1. IsFiniteSet(expected)
    <3>1. IsFiniteSet(Principles)
      <4>1. Principles = {PrincipleIds[i] : i \in 1..12}
        BY DEF Principles
      <4>2. PrincipleIds \in Surjection(1..12, Principles)
        BY <4>1 DEF Surjection, PrincipleIds
      <4>3. QED
        BY <4>2, Twelve, FS_Surjection
    <3>2. expected \subseteq Principles
      BY DEF ExpectedInjected, GoldenSubmission
    <3> HIDE DEF expected
    <3>3. QED
      BY <3>1, <3>2, FS_Subset
  <2>2. InjectionRecall(example) =
            IF expected = {} THEN One
            ELSE Round4(Cardinality(expected \cap injected), Cardinality(expected))
    BY DEF InjectionRecall
  <2> HIDE DEF expected, injected
  <2>3. /\ Cardinality(expected \cap injected) \in Nat /\ Cardinality(expected) \in Nat
        /\ Cardinality(expected \cap injected) <= Cardinality(expected)
        /\ expected # {} => Cardinality(expected) # 0
    BY <2>1, Fewer
  <2>4. CASE expected = {}
    BY <2>2, <2>4 DEF One
  <2>5. CASE expected # {}
    BY <2>2, <2>3, <2>5, RoundIsFraction
  <2>6. QED
    BY <2>4, <2>5
<1>3. ArchCitationAccuracy(example) \in 0..One
  <2> DEFINE injected == GoldenInjected(example)
             bare == {i \in DOMAIN injected : injected[i].citations = {}}
             k == Cardinality(DOMAIN injected)
             b == Cardinality(bare)
  <2>1. DOMAIN GoldenFindings(example) = 1..12 /\ DOMAIN injected \subseteq 1..12
    BY GoldenCounts
  <2>2. CitedItems(example) = 12 + k
    BY <2>1, Twelve DEF CitedItems
  <2>3. ArchCitationAccuracy(example) = Round4(CitedItems(example) - b, CitedItems(example))
    BY DEF ArchCitationAccuracy
  <2>4. k \in Nat /\ b \in Nat /\ b <= k
    <3>1. IsFiniteSet(DOMAIN injected)
      BY <2>1, Twelve, FS_Subset
    <3>2. bare \subseteq DOMAIN injected
      OBVIOUS
    <3> HIDE DEF injected, bare
    <3>3. QED
      BY <3>1, <3>2, Fewer
  <2> HIDE DEF k, b
  <2>5. Round4((12 + k) - b, 12 + k) \in 0..One
    BY <2>4, RoundIsFraction
  <2>6. QED
    BY <2>2, <2>3, <2>5
<1>4. ArchSafety(example) \in 0..One
  BY DEF ArchSafety, One
<1>5. QED
  BY <1>1, <1>2, <1>3, <1>4 DEF Score, Scored

\* What the detector finds is a finite set of kinds.
LEMMA FoundTypes ==
    ASSUME NEW scan
    PROVE  Found(scan) \subseteq ViolationKind /\ IsFiniteSet(Found(scan)) /\ IsFiniteSet(ExpectedKinds(scan))
<1>1. IsFiniteSet(ViolationKind)
  <2>1. ViolationKind = {"region_not_allowed"} \cup {"residency_control_missing"}
             \cup {"global_endpoint"} \cup {"missing_cmek"} \cup {"public_egress"} \cup {"unknown_region"}
    BY DEF ViolationKind
  <2>2. QED
    BY <2>1, FS_Singleton, FS_Union
<1>2. Found(scan) \subseteq ViolationKind
  BY DEF Found, Detect, DetectOne, RegionViolations, ControlViolations
<1>3. ExpectedKinds(scan) \subseteq ViolationKind
  BY DEF ExpectedKinds
<1>4. QED
  BY <1>1, <1>2, <1>3, FS_Subset

\* The scores of a golden scan are fractions of 1.0 (run_eval.py:314-340).
LEMMA ResidencyScores ==
    ASSUME NEW scan, NEW metric \in Scored.residency
    PROVE  Score("residency", metric, scan) \in 0..60
<1>1. ASSUME NEW whole, IsFiniteSet(whole), whole # {}, NEW part, part \subseteq whole
      PROVE  Share(part, whole) \in 0..60
  <2> DEFINE p == Cardinality(part)
             w == Cardinality(whole)
  <2>1. p \in Nat /\ w \in Nat \ {0} /\ p <= w
    BY <1>1, Fewer
  <2>2. Share(part, whole) = (60 * p) \div w
    BY DEF Share
  <2> HIDE DEF p, w
  <2>3. 60 * p \in Nat /\ 60 * p <= w * 60
    BY <2>1
  <2>4. QED
    BY <2>1, <2>2, <2>3, ShareIsBounded
<1> DEFINE expected == ExpectedKinds(scan)
           found == Found(scan)
<1>2. IsFiniteSet(expected) /\ IsFiniteSet(found)
  BY FoundTypes
<1>3. DetectionRecall(scan) = IF expected = {} THEN 60 ELSE Share(expected \cap found, expected)
  BY DEF DetectionRecall
<1>4. Precision(scan) = CASE found = {} -> 60
                          [] found # {} /\ expected = {} -> 0
                          [] OTHER -> Share(expected \cap found, found)
  BY DEF Precision
<1>5. ResidencyCitationAccuracy(scan) \in 0..60 /\ ResidencySafety(scan) \in 0..60
  BY DEF ResidencyCitationAccuracy, ResidencySafety
<1> HIDE DEF expected, found
<1>6. DetectionRecall(scan) \in 0..60
  <2>1. CASE expected = {}
    BY <1>3, <2>1
  <2>2. CASE expected # {}
    BY <1>1, <1>2, <1>3, <2>2
  <2>3. QED
    BY <2>1, <2>2
<1>7. Precision(scan) \in 0..60
  <2>1. CASE found = {}
    BY <1>4, <2>1
  <2>2. CASE found # {} /\ expected = {}
    BY <1>4, <2>2
  <2>3. CASE found # {} /\ expected # {}
    BY <1>1, <1>2, <1>4, <2>3
  <2>4. QED
    BY <2>1, <2>2, <2>3
<1>8. QED
  BY <1>5, <1>6, <1>7 DEF Score, Scored

\* A family that is scored: the sum of each of its metrics is at most a unit for
\* an example, and what is reported is a fraction.
GateTypes ==
    /\ progress.at \in 0..MaxLines /\ progress.scored \in 0..progress.at
    /\ report.n_examples \in Nat /\ report.rows \subseteq MetricRow
    /\ exit \in {NoExit, 0, 1}
    /\ stage = "score" =>
           \A m \in Scored[progress.family] :
               /\ progress.sums[m] \in Nat
               /\ progress.sums[m] <= progress.scored * Unit(progress.family)

\* The score of an example of the golden set of either family.
LEMMA ScoreTypes ==
    ASSUME NEW files \in GoldenFiles, NEW family \in Family, NEW i \in DOMAIN files[family],
           IsExample(files[family][i]), NEW metric \in Scored[family]
    PROVE  Score(family, metric, files[family][i].example) \in 0..Unit(family)
<1>1. CASE family = "arch"
  <2>1. files["arch"] \in Seq(Line(GoldenSubmission)) /\ i \in DOMAIN files["arch"]
    BY <1>1, GoldenAssumption
  <2>2. files["arch"][i] \in Line(GoldenSubmission)
    BY <2>1
  <2>3. files["arch"][i].example \in GoldenSubmission
    BY <1>1, <2>2 DEF Line, IsExample
  <2>4. metric \in Scored.arch /\ Unit(family) = One
    BY <1>1 DEF Scored, Unit
  <2>5. QED
    BY <1>1, <2>3, <2>4, ArchScores
<1>2. CASE family = "residency"
  <2>1. metric \in Scored.residency /\ Unit(family) = 60
    BY <1>2 DEF Scored, Unit
  <2>2. QED
    BY <1>2, <2>1, ResidencyScores
<1>3. QED
  BY <1>1, <1>2 DEF Family

\* A golden file is no longer than the bound.
LEMMA GoldenBound ==
    ASSUME NEW files \in GoldenFiles, NEW family \in Family
    PROVE  Len(files[family]) <= MaxLines /\ MaxLines \in Nat
<1>1. Len(files["arch"]) <= MaxLines /\ Len(files["residency"]) <= MaxLines /\ MaxLines \in Nat
  BY GoldenAssumption
<1>2. QED
  BY <1>1 DEF Family

\* Reading a line keeps the types of what is counted.
LEMMA ReadingTypes ==
    ASSUME GateInv, GateTypes, SkipLine \/ ScoreLine
    PROVE  GateTypes'
<1>1. /\ stage = "score" /\ stage' = stage /\ report' = report /\ exit' = exit /\ run' = run
      /\ progress.at < Len(Lines) /\ progress.family \in Family /\ run.files \in GoldenFiles
      /\ IsProgress
  BY DEF SkipLine, ScoreLine, GateInv
<1>2. /\ progress.at \in Nat /\ progress.scored \in Nat /\ progress.scored <= progress.at
      /\ Len(Lines) \in Nat /\ DOMAIN Lines = 1..Len(Lines)
      /\ Len(Lines) <= MaxLines /\ MaxLines \in Nat
  BY <1>1, GoldenLines, GoldenBound DEF GateTypes, Lines
<1>3. CASE SkipLine
  <2>1. /\ progress'.family = progress.family /\ progress'.at = progress.at + 1
        /\ progress'.scored = progress.scored /\ progress'.sums = progress.sums
    BY <1>1, <1>3 DEF SkipLine, IsProgress
  <2>2. progress'.at \in 0..MaxLines /\ progress'.scored \in 0..progress'.at
    BY <1>1, <1>2, <2>1
  <2>3. Unit(progress'.family) = Unit(progress.family)
    BY <2>1
  <2>4. QED
    BY <1>1, <2>1, <2>2, <2>3 DEF GateTypes, Unit
<1>4. CASE ScoreLine
  <2> DEFINE family == progress.family
             example == Lines[progress.at + 1].example
  <2>1. /\ progress'.family = family /\ progress'.at = progress.at + 1
        /\ progress'.scored = progress.scored + 1
        /\ \A m \in Scored[family] : progress'.sums[m] = progress.sums[m] + Score(family, m, example)
    BY <1>4 DEF ScoreLine
  <2>2. progress'.at \in 0..MaxLines /\ progress'.scored \in 0..progress'.at
    BY <1>1, <1>2, <2>1
  <2>3. ASSUME NEW m \in Scored[family]
        PROVE  /\ progress'.sums[m] \in Nat
               /\ progress'.sums[m] <= progress'.scored * Unit(family)
    <3>1. Score(family, m, example) \in 0..Unit(family)
      <4>1. progress.at + 1 \in DOMAIN Lines /\ IsExample(Lines[progress.at + 1])
        BY <1>1, <1>2, <1>4 DEF ScoreLine, IsExample
      <4>2. QED
        BY <1>1, <4>1, ScoreTypes DEF Lines
    <3>2. progress.sums[m] \in Nat /\ progress.sums[m] <= progress.scored * Unit(family)
      BY <1>1 DEF GateTypes
    <3>3. Unit(family) \in Nat
      BY DEF Unit, One
    <3>4. (progress.scored + 1) * Unit(family) = progress.scored * Unit(family) + Unit(family)
      BY <1>2, <3>3
    <3>5. progress.scored * Unit(family) \in Nat
      BY <1>2, <3>3
    <3>6. progress'.sums[m] = progress.sums[m] + Score(family, m, example)
      BY <2>1
    <3> HIDE DEF family, example
    <3>7. QED
      BY <2>1, <3>1, <3>2, <3>3, <3>4, <3>5, <3>6
  <2>4. QED
    BY <1>1, <2>1, <2>2, <2>3 DEF GateTypes, Unit
<1>5. QED
  BY <1>3, <1>4

\* The row of a metric that was scored.
LEMMA RowTypes ==
    ASSUME GateInv, GateTypes, AllRead, NEW m \in Scored[progress.family]
    PROVE  Row(m) \in MetricRow
<1>1. /\ stage = "score" /\ progress.at = Len(Lines) /\ Scoring
      /\ progress.family \in Family /\ run.files \in GoldenFiles
  BY DEF AllRead, GateInv
<1>2. PICK i \in DOMAIN Lines : IsExample(Lines[i])
  BY <1>1 DEF Scoring
<1>3. progress.scored \in Nat /\ progress.scored >= 1
  <2>1. i \in 1..progress.at
    BY <1>1, <1>2, GoldenLines DEF Lines
  <2>2. QED
    BY <1>1, <1>2, <2>1 DEF Scoring, SumInv
<1>4. /\ progress.sums[m] \in Nat
      /\ progress.sums[m] <= progress.scored * Unit(progress.family)
  BY <1>1 DEF GateTypes
<1>5. Unit(progress.family) \in Nat \ {0}
  BY DEF Unit, One
<1> DEFINE whole == progress.scored * Unit(progress.family)
<1>6. whole \in Nat \ {0}
  <2>1. whole \in Nat /\ whole >= 1 * Unit(progress.family)
    BY <1>3, <1>5
  <2>2. QED
    BY <1>5, <2>1
<1>7. Mean(m) = Round4(progress.sums[m], whole)
  BY DEF Mean
<1> HIDE DEF whole
<1>8. Mean(m) \in 0..One
  BY <1>4, <1>6, <1>7, RoundIsFraction DEF whole
<1>9. m \in Metric
  BY <1>1 DEF Metric, Scored, Family
<1>10. QED
  BY <1>1, <1>8, <1>9 DEF Row, MetricRow

\* The report of an evaluation service, as the two adapters read it.
LEMMA AnswerTypes ==
    ASSUME NEW answer \in ServiceAnswers
    PROVE  ReportOf(answer).n_examples \in Nat /\ ReportOf(answer).rows \subseteq MetricRow
<1>1. /\ answer.n_examples \in Nat /\ DOMAIN answer.scores \subseteq Scored.arch
      /\ \A m \in DOMAIN answer.scores : answer.scores[m] \in [score : 0..One, bar : 0..One]
  BY EvaluationAssumption DEF IsServiceAnswer
<1>2. Scored.arch \subseteq Metric /\ "arch" \in Family /\ 0 \in 0..One
  BY DEF Metric, Family, One
<1>3. ASSUME NEW m \in Scored.arch
      PROVE  [family |-> "arch", metric |-> m, score |-> GenAiScore(answer, m),
              passed |-> GenAiScore(answer, m) >= GenAiBars[m]] \in MetricRow
  <2>1. GenAiScore(answer, m) \in 0..One
    BY <1>1, <1>2 DEF GenAiScore
  <2>2. QED
    BY <1>2, <1>3, <2>1 DEF MetricRow
<1>4. ASSUME NEW m \in DOMAIN answer.scores
      PROVE  [family |-> "arch", metric |-> m, score |-> answer.scores[m].score,
              passed |-> answer.scores[m].score >= answer.scores[m].bar] \in MetricRow
  <2>1. answer.scores[m].score \in 0..One
    BY <1>1, <1>4
  <2>2. m \in Metric
    BY <1>1, <1>2, <1>4
  <2>3. QED
    BY <1>2, <2>1, <2>2 DEF MetricRow
<1>5. GenAiReport(answer).n_examples \in Nat /\ GenAiReport(answer).rows \subseteq MetricRow
  BY <1>1, <1>3 DEF GenAiReport
<1>6. RemoteReport(answer).n_examples \in Nat /\ RemoteReport(answer).rows \subseteq MetricRow
  BY <1>1, <1>4 DEF RemoteReport
<1>7. QED
  BY <1>5, <1>6 DEF ReportOf

\* Every step of the gate keeps its types.
LEMMA GateStepTypes ==
    ASSUME GateInv, GateTypes, GateStep
    PROVE  GateTypes'
<1>1. ASSUME NEW code \in {0, 1}, Conclude(code) PROVE GateTypes'
  BY <1>1 DEF GateTypes, Conclude
<1>2. CASE Load
  <2>1. /\ stage' = "score" /\ report' = report /\ exit' = exit /\ IsProgress
        /\ progress.family \in Family
    BY <1>2 DEF Load, GateInv
  <2>2. /\ progress'.family = progress.family /\ progress'.at = 0 /\ progress'.scored = 0
        /\ progress'.sums = [m \in Scored[progress.family] |-> 0]
    BY <1>2, <2>1 DEF Load, IsProgress
  <2>3. Unit(progress.family) \in Nat /\ MaxLines \in Nat
    BY GoldenAssumption DEF Unit, One
  <2>4. 0 \in 0..MaxLines /\ 0 \in 0..0 /\ 0 <= 0 * Unit(progress.family)
    BY <2>3
  <2>5. QED
    BY <2>1, <2>2, <2>4 DEF GateTypes, Unit
<1>3. CASE Settle
  <2>1. /\ report'.n_examples = report.n_examples + progress.scored
        /\ report'.rows = report.rows \cup Rows /\ exit' = exit /\ NextFamily /\ AllRead
    BY <1>3 DEF Settle
  <2>2. report'.n_examples \in Nat
    BY <2>1 DEF GateTypes
  <2>3. report'.rows \subseteq MetricRow
    BY <2>1, RowTypes DEF GateTypes, Rows
  <2>4. MaxLines \in Nat
    BY GoldenAssumption
  <2>5. stage' # "score" /\ progress'.at \in 0..MaxLines /\ progress'.scored \in 0..progress'.at
    <3>1. CASE progress.family = "arch"
      BY <2>1, <2>4, <3>1 DEF NextFamily, Unscored
    <3>2. CASE progress.family # "arch"
      BY <2>1, <3>2 DEF NextFamily, GateTypes
    <3>3. QED
      BY <3>1, <3>2
  <2>6. QED
    BY <2>1, <2>2, <2>3, <2>5 DEF GateTypes
<1>4. CASE Evaluate
  <2>1. PICK answer \in ServiceAnswers : report' = ReportOf(answer)
    BY <1>4 DEF Evaluate
  <2>2. stage' = "confirm" /\ progress' = progress /\ exit' = exit
    BY <1>4 DEF Evaluate
  <2>3. QED
    BY <2>1, <2>2, AnswerTypes DEF GateTypes
<1>5. CASE LoadFails \/ SettleFails \/ Decide \/ GateRefused \/ Confirm \/ ServiceFails
  BY <1>1, <1>5 DEF LoadFails, SettleFails, Decide, GateRefused, Confirm, ServiceFails
<1>6. QED
  BY <1>2, <1>3, <1>4, <1>5, ReadingTypes DEF GateStep

CallRecord ==
    [stage    : {"idle", "begun", "judged", "handed", "told", "over", "lost", "evaluating"},
     entry    : Entry \cup {"none"},
     findings : Verdicts,
     routing  : Routing \cup {"none"},
     told     : Routing \cup {"none", "refused", "unavailable", "error", "requirements",
                              "accepted", "rejected"}]

AuditRecord == [call : Call, layer : {"service", "turn"}, decision : Decision]

DoorTypes ==
    /\ deployment \in [profile : Profiles, routing : BOOLEAN, document : Documents]
    /\ call \in [Call -> CallRecord]
    /\ trail \subseteq AuditRecord
    /\ queue \subseteq Call /\ inflight \subseteq Call

\* A call that is answered, or moves on, keeps its fields.
LEMMA HandleTypes ==
    ASSUME DoorTypes, NEW c \in Call, Handle(c)
    PROVE  DoorTypes'
<1>1. call[c] \in CallRecord
  BY DEF DoorTypes
<1>2. ASSUME NEW from, NEW next \in CallRecord, Advance(c, from, next)
      PROVE  call' \in [Call -> CallRecord] /\ deployment' = deployment
  BY <1>2 DEF Advance, DoorTypes
<1>3. ASSUME NEW from,
             NEW what \in Routing \cup {"none", "refused", "unavailable", "error", "requirements",
                                        "accepted", "rejected"},
             Tell(c, from, what)
      PROVE  DoorTypes'
  <2>1. [call[c] EXCEPT !.stage = "told", !.told = what] \in CallRecord
    BY <1>1 DEF CallRecord
  <2>2. QED
    BY <1>2, <1>3, <2>1 DEF Tell, DoorTypes, sinks
<1>4. ASSUME NEW layer \in {"service", "turn"}, NEW decision \in Decision,
             Recorded(c, layer, decision)
      PROVE  trail' \subseteq AuditRecord /\ queue' = queue /\ inflight' = inflight
  <2>1. [call |-> c, layer |-> layer, decision |-> decision] \in AuditRecord
    BY <1>4 DEF AuditRecord
  <2>2. QED
    BY <1>4, <2>1 DEF Recorded, DoorTypes
<1>5. CASE Validate(c)
  <2> DEFINE findings == EvaluateAll(Submitted(c), AllowedRegions)
             next == [call[c] EXCEPT !.stage = "judged", !.findings = findings]
  <2>1. findings \in Verdicts
    BY VerdictTypes DEF Verdicts
  <2>2. Advance(c, "begun", next) /\ Recorded(c, "service", AuditDecision(findings))
    BY <1>5 DEF Validate
  <2>3. AuditDecision(findings) \in Decision
    BY DEF AuditDecision, Decision
  <2> HIDE DEF findings
  <2>4. next \in CallRecord
    BY <1>1, <2>1 DEF CallRecord
  <2> HIDE DEF next
  <2>5. QED
    BY <1>2, <1>4, <2>2, <2>3, <2>4 DEF DoorTypes
<1>6. CASE Route(c)
  <2>1. PICK outcome \in {"routed", "failed", "off"} :
            /\ Advance(c, "judged", [call[c] EXCEPT !.stage = "handed", !.routing = Noted(c, outcome)])
            /\ queue' = IF outcome = "routed" THEN queue \cup {c} ELSE queue
            /\ inflight' = inflight \/ inflight' = inflight \cup {c}
            /\ trail' = trail
    BY <1>6 DEF Route
  <2>2. Noted(c, outcome) \in Routing
    BY DEF Noted, Outcome, Routing
  <2>3. [call[c] EXCEPT !.stage = "handed", !.routing = Noted(c, outcome)] \in CallRecord
    BY <1>1, <2>2 DEF CallRecord
  <2>4. queue' \subseteq Call /\ inflight' \subseteq Call
    BY <2>1 DEF DoorTypes
  <2>5. QED
    BY <1>2, <2>1, <2>3, <2>4 DEF DoorTypes
<1>7. CASE Answer(c)
  <2>1. [call[c] EXCEPT !.stage = "told", !.told = call[c].routing] \in CallRecord
    BY <1>1 DEF CallRecord
  <2>2. queue' \subseteq queue /\ trail' = trail /\ inflight' = inflight
    BY <1>7 DEF Answer, Left
  <2>3. QED
    BY <1>2, <1>7, <2>1, <2>2 DEF Answer, DoorTypes
<1>8. CASE InjectOnly(c)
  <2> DEFINE findings == EvaluateAll(Submitted(c), DefaultRegions)
             next == [call[c] EXCEPT !.stage = "told", !.told = "requirements", !.findings = findings]
  <2>1. findings \in Verdicts
    BY VerdictTypes DEF Verdicts
  <2>2. Advance(c, "begun", next) /\ UNCHANGED sinks
    BY <1>8 DEF InjectOnly
  <2> HIDE DEF findings
  <2>3. next \in CallRecord
    BY <1>1, <2>1 DEF CallRecord
  <2> HIDE DEF next
  <2>4. QED
    BY <1>2, <2>2, <2>3 DEF DoorTypes, sinks
<1>9. CASE TurnEnd(c)
  <2>1. [call[c] EXCEPT !.stage = "over"] \in CallRecord
    BY <1>1 DEF CallRecord
  <2>2. "ESCALATED" \in Decision
    BY DEF Decision
  <2>3. QED
    BY <1>2, <1>4, <1>9, <2>1, <2>2 DEF TurnEnd, DoorTypes
<1>10. CASE Refuse(c) \/ Unavailable(c) \/ Fails(c) \/ AnswerInjected(c) \/ EvalReturns(c)
  BY <1>3, <1>10 DEF Refuse, Unavailable, Fails, AnswerInjected, EvalReturns
<1>11. QED
  BY <1>5, <1>6, <1>7, <1>8, <1>9, <1>10 DEF Handle

\* A call that starts, a process that stops and a review that arrives late.
LEMMA OtherTypes ==
    ASSUME DoorTypes,
           \/ \E c \in Call, entry \in Entry : Begin(c, entry)
           \/ \E c \in Call : LateArrival(c) \/ EvalCommand(c)
           \/ \E host : Stop(host)
    PROVE  DoorTypes'
<1>1. ASSUME NEW c \in Call, NEW entry \in Entry, Begin(c, entry) PROVE DoorTypes'
  <2>1. [NoCall EXCEPT !.stage = "begun", !.entry = entry] \in CallRecord
    BY DEF NoCall, CallRecord, Verdicts
  <2>2. QED
    BY <1>1, <2>1 DEF Begin, Advance, DoorTypes, sinks
<1>2. ASSUME NEW c \in Call, EvalCommand(c) PROVE DoorTypes'
  <2>1. [NoCall EXCEPT !.stage = "evaluating", !.entry = "eval"] \in CallRecord
    BY DEF NoCall, CallRecord, Verdicts, Entry
  <2>2. QED
    BY <1>2, <2>1 DEF EvalCommand, DoorTypes, sinks
<1>3. ASSUME NEW c \in Call, LateArrival(c) PROVE DoorTypes'
  BY <1>3 DEF LateArrival, DoorTypes
<1>4. ASSUME NEW host, Stop(host) PROVE DoorTypes'
  <2>1. \A c \in Call : [call[c] EXCEPT !.stage = "lost"] \in CallRecord
    BY DEF DoorTypes, CallRecord
  <2>2. call' \in [Call -> CallRecord]
    BY <1>4, <2>1 DEF Stop, DoorTypes
  <2>3. queue' \subseteq queue /\ deployment' = deployment /\ trail' = trail /\ inflight' = inflight
    BY <1>4 DEF Stop, Left
  <2>4. QED
    BY <2>2, <2>3 DEF DoorTypes
<1>5. QED
  BY <1>1, <1>2, <1>3, <1>4

\* What the doors and the gate keep for every caller, document and golden set.
LEMMA EntryTypesStep ==
    ASSUME GateInv, GateTypes, DoorTypes, [Next]_vars
    PROVE  GateTypes' /\ DoorTypes'
<1>1. CASE UNCHANGED gate
  <2>1. GateTypes'
    BY <1>1 DEF gate, GateTypes
  <2> QED BY <1>1, <2>1, HandleTypes, OtherTypes
          DEF Next, vars, Pipeline, Evaluation, DoorTypes, sinks
<1>2. CASE GateStep /\ UNCHANGED <<deployment, call, sinks>>
  BY <1>2, GateStepTypes DEF DoorTypes, sinks
<1>3. ASSUME StartSmoke \/ \E profile : StartGate(profile)
      PROVE  GateTypes'
  BY <1>3 DEF StartSmoke, StartGate, GateTypes
<1>4. CASE Pipeline
  BY <1>3, <1>4 DEF Pipeline, DoorTypes, sinks
<1>5. CASE \E c \in Call : EvalCommand(c)
  BY <1>3, <1>5, OtherTypes DEF EvalCommand
<1>6. ASSUME NEW c, Handle(c) PROVE UNCHANGED gate
  BY <1>6 DEF Handle, Refuse, Unavailable, Fails, Validate, Route, Answer,
              AnswerInjected, InjectOnly, TurnEnd, EvalReturns, Tell, Advance
<1>7. QED
  BY <1>1, <1>2, <1>4, <1>5, <1>6
  DEF Next, vars, Begin, Advance, LateArrival, Stop, Evaluation

\* TypeOK: the scores that decide about a merge or a promotion stay fractions of
\* 1.0, on every golden set and with every answer of the evaluation service.
THEOREM EntryTypes == Spec => []TypeOK
<1>1. Init => GateInv /\ GateTypes /\ DoorTypes
  <2> SUFFICES ASSUME Init PROVE GateInv /\ GateTypes /\ DoorTypes
    OBVIOUS
  <2>1. GateInv
    BY DEF Init, GateInit, GateInv, IsProgress, Unscored, Family, PromotionIsEarned, NoExit
  <2>2. MaxLines \in Nat
    BY GoldenAssumption
  <2>3. GateTypes
    BY <2>2 DEF Init, GateInit, GateTypes, Unscored, NoReport
  <2>4. NoCall \in CallRecord
    BY DEF NoCall, CallRecord, Verdicts
  <2>5. DoorTypes
    BY <2>4 DEF Init, DoorTypes
  <2> QED BY <2>1, <2>3, <2>5
<1>2. GateInv /\ GateTypes /\ DoorTypes /\ [Next]_vars => GateTypes' /\ DoorTypes'
  BY EntryTypesStep
<1>3. GateInv /\ GateTypes /\ DoorTypes => TypeOK
  BY DEF GateInv, GateTypes, DoorTypes, CallRecord, AuditRecord, TypeOK
<1>4. Spec => []GateInv
  BY GateHolds
<1>5. QED
  BY <1>1, <1>2, <1>3, <1>4, PTL DEF Spec
====
