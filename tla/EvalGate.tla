------------------------------ MODULE EvalGate ------------------------------
(***************************************************************************)
(* The evaluation harness of evals/: a suite is run case by case against   *)
(* an agent, the outcomes become a report whose content is hashed, and the *)
(* gate compares a candidate's report with a baseline's.                   *)
(*                                                                         *)
(*   load_suite -> run_case ... -> write_report -> (edits) -> gate         *)
(*                                                                         *)
(* A score is a fraction <<n, d>>; the rounding to six decimals is left    *)
(* out. A hash is the content it was taken of.                             *)
(*                                                                         *)
(* X_Something is a mutant of X: X with a plausible mistake in it.         *)
(***************************************************************************)
EXTENDS Integers, Sequences, FiniteSets, SequencesExt

CONSTANTS
    EvalCase,         \* case ids
    Suite,            \* the suites an operator can point a run at
    MaxEdits,         \* bound: edits of the two report files
    SuiteDrop,        \* max_suite_score_drop, in hundredths
    DimensionDrop     \* max_dimension_score_drop, in hundredths

Side == {"baseline", "candidate"}
Check == {"no_error", "no_leakage", "unknown"}

\* An EvalCase: what it expects, and its false_success tag.
Expecting == [expect : Seq(Check), tagged : BOOLEAN]

\* sound: _validate_raw and the search for duplicate ids find nothing.
ASSUME EvalAssumption ==
    /\ \A su \in Suite : /\ su.sound \in BOOLEAN
                         /\ DOMAIN su.cases \subseteq EvalCase /\ IsFiniteSet(DOMAIN su.cases)
                         /\ \A k \in DOMAIN su.cases : /\ su.cases[k] \in Expecting
                                                       /\ su.cases[k].expect # << >>
    /\ MaxEdits \in Nat /\ SuiteDrop \in Nat /\ DimensionDrop \in Nat

VARIABLES
    evalRun,     \* evalRun[s]: the run that makes the report of side s
    leaked,      \* leaked[s]: cases that look for leakage, and whose agent claimed to be
                 \* done without a passing verdict (an observation)
    reportFile,  \* reportFile[s]: << >> or one report
    evalVerdict, \* what the gate said
    edits

evalVars == <<evalRun, leaked, reportFile, evalVerdict, edits>>

NoCases == [k \in {} |-> << >>]

\* outcomes: one per expectation; how: the agent answered, was cut off, or failed.
CaseReport == [outcomes : Seq(BOOLEAN), how : {"answered", "timed_out", "agent_error"},
               of : Expecting]

EvalInit ==
    /\ evalRun = [s \in Side |-> [stage |-> "idle", cases |-> NoCases, todo |-> NoCases]]
    /\ leaked = [s \in Side |-> {}]
    /\ reportFile = [s \in Side |-> << >>]
    /\ evalVerdict = "none"
    /\ edits = 0

-----------------------------------------------------------------------------
(* runner.py and scoring.py                                                *)

\* What an agent can come back with.
EvalResult == [right : BOOLEAN, claimed : BOOLEAN, verdict : {"passed", "failed", "unsaid"}]

\* _check_no_leakage: completed_claimed and verdict_passed is not True.
Leaks(r) == r.claimed /\ r.verdict # "passed"

\* check_property; the checks of an answer's text, path, cost, latency and exit
\* code are one: the answer is right or not.
Passes(check, r) == IF check = "no_leakage" THEN ~Leaks(r) ELSE r.right

DimensionFor(check) == IF check = "no_leakage" THEN "groundedness" ELSE "correctness"

Answered(c, r) == [outcomes |-> [i \in DOMAIN c.expect |-> Passes(c.expect[i], r)],
                   how |-> "answered", of |-> c]

\* A case without an answer fails every expectation, the unknown ones too.
CaseFailed(c, how) == [outcomes |-> [i \in DOMAIN c.expect |-> FALSE], how |-> how, of |-> c]

\* load_suite: a malformed case or a duplicate id, and nothing is run.
BeginSuite(s) ==
    /\ evalRun[s].stage = "idle"
    /\ \E su \in Suite :
        evalRun' = [evalRun EXCEPT ![s] =
            IF su.sound THEN [stage |-> "running", cases |-> NoCases, todo |-> su.cases]
            ELSE [@ EXCEPT !.stage = "aborted"]]
    /\ UNCHANGED <<leaked, reportFile, evalVerdict, edits>>

\* A case is done: in any order, since a report is sorted by case id.
Reported(s, k, report) ==
    evalRun' = [evalRun EXCEPT ![s] =
        [stage |-> "running",
         cases |-> [j \in DOMAIN @.cases \cup {k} |-> IF j = k THEN report ELSE @.cases[j]],
         todo |-> [j \in DOMAIN @.todo \ {k} |-> @.todo[j]]]]

Pending(s, k) == evalRun[s].stage = "running" /\ k \in DOMAIN evalRun[s].todo

\* run_case with an answer; an expectation nobody implements raises out of the
\* whole run.
CaseAnswered(s, k) ==
    /\ Pending(s, k)
    /\ LET c == evalRun[s].todo[k] IN
       \E r \in EvalResult :
        IF "unknown" \in ToSet(c.expect)
        THEN evalRun' = [evalRun EXCEPT ![s].stage = "aborted"] /\ UNCHANGED leaked
        ELSE /\ Reported(s, k, Answered(c, r))
             /\ leaked' = IF r.claimed /\ r.verdict # "passed" /\ "no_leakage" \in ToSet(c.expect)
                          THEN [leaked EXCEPT ![s] = @ \cup {k}] ELSE leaked
    /\ UNCHANGED <<reportFile, evalVerdict, edits>>

\* run_case when the agent raises, returns nothing, or is still running when the
\* case's time is up.
CaseUnanswered(s, k) ==
    /\ Pending(s, k)
    /\ \E how \in {"timed_out", "agent_error"} :
        Reported(s, k, CaseFailed(evalRun[s].todo[k], how))
    /\ UNCHANGED <<leaked, reportFile, evalVerdict, edits>>

-----------------------------------------------------------------------------
(* report.py                                                               *)

Plus(p, q) == <<p[1] * q[2] + q[1] * p[2], p[2] * q[2]>>

Score(report) == <<Cardinality({i \in DOMAIN report.outcomes : report.outcomes[i]}),
                   Len(report.outcomes)>>

Complete(score) == score[1] = score[2]

SuiteScore(cases) ==
    LET total == FoldSet(LAMBDA k, sum : Plus(sum, Score(cases[k])), <<0, 1>>, DOMAIN cases)
    IN  IF DOMAIN cases = {} THEN <<0, 1>> ELSE <<total[1], total[2] * Cardinality(DOMAIN cases)>>

\* The outcomes of one dimension, as <<case, expectation>>.
Graded(cases, d) ==
    UNION {{<<k, i>> : i \in {j \in DOMAIN cases[k].outcomes :
                                DimensionFor(cases[k].of.expect[j]) = d}} : k \in DOMAIN cases}

PerDimension(cases) ==
    [d \in {e \in {"correctness", "groundedness"} : Graded(cases, e) # {}} |->
        <<Cardinality({g \in Graded(cases, d) : cases[g[1]].outcomes[g[2]]}),
          Cardinality(Graded(cases, d))>>]

\* leakage_rate counts the false_success cases only.
Leaking(cases) ==
    {k \in DOMAIN cases : cases[k].of.tagged /\
        \E i \in DOMAIN cases[k].outcomes :
            cases[k].of.expect[i] = "no_leakage" /\ ~cases[k].outcomes[i]}

ReportContent(cases) ==
    [score |-> [k \in DOMAIN cases |-> Score(cases[k])],
     passed |-> [k \in DOMAIN cases |-> cases[k].how = "answered" /\ Complete(Score(cases[k]))],
     suite_score |-> SuiteScore(cases),
     per_dimension |-> PerDimension(cases),
     leaking |-> Cardinality(Leaking(cases))]

\* content_sha256: all of the content but the wall-clock fields.
Redacted(content) == <<content.score, content.passed, content.suite_score,
                       content.per_dimension, content.leaking>>

\* write_report, once every case is done.
WriteReport(s) ==
    /\ evalRun[s].stage = "running" /\ DOMAIN evalRun[s].todo = {}
    /\ LET content == ReportContent(evalRun[s].cases) IN
       reportFile' = [reportFile EXCEPT ![s] =
            <<[content |-> content, sealed |-> Redacted(content), elapsed |-> "measured"]>>]
    /\ evalRun' = [evalRun EXCEPT ![s].stage = "written"]
    /\ UNCHANGED <<leaked, evalVerdict, edits>>

\* The file is somebody's to edit: a case turned green, the aggregate made
\* good, a time that was measured.
EditReport(s) ==
    /\ reportFile[s] # << >> /\ edits < MaxEdits /\ edits' = edits + 1
    /\ LET r == reportFile[s][1] IN
       \E edited \in {[r EXCEPT !.content.passed[k] = TRUE] : k \in DOMAIN r.content.passed}
                        \cup {[r EXCEPT !.content.leaking = 0], [r EXCEPT !.elapsed = "edited"]} :
          reportFile' = [reportFile EXCEPT ![s] = <<edited>>]
    /\ UNCHANGED <<evalRun, leaked, evalVerdict>>

-----------------------------------------------------------------------------
(* gate.py                                                                 *)

\* validate_report_dict: the stored hash is the hash of what is there.
Accepted(s) ==
    /\ reportFile[s] # << >>
    /\ reportFile[s][1].sealed = Redacted(reportFile[s][1].content)

\* The drop from score p to score q is above so many hundredths.
DropsBy(p, q, hundredths) == 100 * (p[1] * q[2] - q[1] * p[2]) > hundredths * p[2] * q[2]

\* cand_dims.get(dim, 0.0)
DimensionScore(dims, d, base) == IF d \in DOMAIN dims THEN dims[d] ELSE <<0, 1>>

Missing_Skipped(b, c) == {}

\* A case of the baseline that the candidate has not run.
Missing(b, c) == DOMAIN b.passed \ DOMAIN c.passed

\* compare, with the default thresholds for cases, new failures and leaks: none.
Regressed(b, c) ==
    \/ DropsBy(b.suite_score, c.suite_score, SuiteDrop)
    \/ \E d \in DOMAIN b.per_dimension :
        DropsBy(b.per_dimension[d],
                DimensionScore(c.per_dimension, d, b.per_dimension[d]), DimensionDrop)
    \/ c.leaking > 0
    \/ Missing(b, c) # {}
    \/ \E k \in DOMAIN b.passed \cap DOMAIN c.passed :
        DropsBy(b.score[k], c.score[k], 0) \/ (b.passed[k] /\ ~c.passed[k])

\* otto-eval gate: exit 2, 1 or 0.
RunGate ==
    /\ evalVerdict = "none"
    /\ evalVerdict' =
        IF \E s \in Side : ~Accepted(s) THEN "refused"
        ELSE IF Regressed(reportFile["baseline"][1].content, reportFile["candidate"][1].content)
        THEN "fail" ELSE "pass"
    /\ UNCHANGED <<evalRun, leaked, reportFile, edits>>

EvalNext ==
    \/ \E s \in Side :
        \/ BeginSuite(s)
        \/ \E k \in EvalCase : CaseAnswered(s, k) \/ CaseUnanswered(s, k)
        \/ WriteReport(s)
        \/ evalVerdict = "none" /\ EditReport(s)
    \/ RunGate

EvalSpec == EvalInit /\ [][EvalNext]_evalVars

-----------------------------------------------------------------------------
(* What must hold.                                                         *)

EvalTypeOK ==
    /\ \A s \in Side :
        /\ evalRun[s].stage \in {"idle", "running", "written", "aborted"}
        /\ \A k \in DOMAIN evalRun[s].cases :
            /\ evalRun[s].cases[k] \in CaseReport /\ k \notin DOMAIN evalRun[s].todo
            /\ Len(evalRun[s].cases[k].outcomes) = Len(evalRun[s].cases[k].of.expect)
        /\ leaked[s] \subseteq DOMAIN evalRun[s].cases
        /\ reportFile[s] # << >> <=> evalRun[s].stage = "written"
    /\ evalVerdict \in {"none", "refused", "fail", "pass"}
    /\ edits \in 0..MaxEdits

Ran(s) == evalRun[s].cases

Won(s, k) == k \in DOMAIN Ran(s) /\ Ran(s)[k].how = "answered" /\ Complete(Score(Ran(s)[k]))

\* The gate passes a candidate only when every case the baseline's run passed was
\* run again and passed again, whatever became of the suite, the agent and the
\* two files in between.
PassKeepsEveryCase ==
    evalVerdict = "pass" => \A k \in EvalCase : Won("baseline", k) => Won("candidate", k)

\* A gated candidate has no false_success case that looks for leakage and whose
\* agent claimed to be done without a passing verdict: one that was refuted, or
\* one that was never judged.
PassMeansNoLeak ==
    evalVerdict = "pass" =>
        \A k \in leaked["candidate"] : ~Ran("candidate")[k].of.tagged

\* What the gate judges is what the runs found: a report that was changed since,
\* in anything but its measured times, is refused.
JudgesWhatWasRun ==
    evalVerdict \in {"pass", "fail"} =>
        \A s \in Side : reportFile[s][1].content = ReportContent(Ran(s))

\* A dimension the baseline held cannot be passed by no longer grading it.
NoDimensionIsUngraded ==
    evalVerdict = "pass" =>
        \A d \in DOMAIN PerDimension(Ran("baseline")) :
            \/ d \in DOMAIN PerDimension(Ran("candidate"))
            \/ ~DropsBy(PerDimension(Ran("baseline"))[d], <<0, 1>>, DimensionDrop)

\* A pass of the gate was earned by the runs it speaks of.
PassIsEarned ==
    PassKeepsEveryCase /\ PassMeansNoLeak /\ JudgesWhatWasRun /\ NoDimensionIsUngraded
=============================================================================
