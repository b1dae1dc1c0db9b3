------------------------------ MODULE MergePR ------------------------------
(* heydonna-open-pr-status/scripts/merge.py: before PR Merges squashes a PR, *)
(* the script proves from the runs of the exact head that the tests the PR   *)
(* needs were executed, or that a trusted classifier receipt exempts it, and *)
(* that what main gained since was reviewed. Pushes, new runs, new attempts  *)
(* and commits on main happen between any two of its reads.                  *)
EXTENDS Integers, Sequences, FiniteSets, TLC

CONSTANTS
    RunShapes,      \* the workflow runs that may appear, see ShapeType
    NeedsChoices,   \* what the change of the asked head may truly need
    MaxMergeMoves   \* bound on pushes, runs, attempts and commits on main

Family == {"ts", "py", "e2e"}
AskedHead == 0          \* the head the caller pins; a push makes the head greater
NoProof == "none"

VARIABLES
    ghPr,     \* GitHub: the head of the PR, merged, and main when it was merged
    ghMain,   \* GitHub: commits on main the asked head does not contain
    ghRuns,   \* GitHub: the runs of the asked head, oldest first
    mpc,      \* where the script stands
    ciProof, e2eProof,
    mainSeen, \* main as compared
    reviewed, \* --unrelated-main: the main the caller inspected
    refused,
    tested,   \* what was shown to have run, or "exempt" (history)
    needs,    \* the test families the change of the asked head truly needs (fixed)
    mergeMoves

mergeVars == <<ghPr, ghMain, ghRuns, mpc, ciProof, e2eProof, mainSeen, reviewed,
               refused, tested, needs, mergeMoves>>

\* scope: the classifier receipt of the run; needs: its flags; ran: the families whose
\* test steps succeeded; python: the job of that name succeeded, whatever ran in it;
\* trusted: bindings, parents, rules and blobs agree; confined: the files of the PR are
\* those of the receipt
ShapeType == [wf : {"ci", "e2e", "exempt"},
              scope : {"none", "skipped", "product", "test_only", "site", "control"},
              needs : SUBSET Family, ran : SUBSET Family, python : BOOLEAN,
              trusted : BOOLEAN, confined : BOOLEAN]
RunOf(s, state) ==
    [wf |-> s.wf, scope |-> s.scope, needs |-> s.needs, ran |-> s.ran, python |-> s.python,
     trusted |-> s.trusted, confined |-> s.confined, state |-> state]
Green(r) == r.state = "green"

\* the classifier of main, run at a trusted commit (and, in the shared exemption
\* workflow, over the files of the PR), is right
Truthful(s) ==
    (s.trusted /\ (s.wf = "exempt" => s.confined)) =>
                              CASE s.scope = "product" -> s.needs = needs
                                   [] s.scope = "test_only" -> needs = {"ts"}
                                   [] s.scope \in {"site", "control"} -> needs = {}
                                   [] OTHER -> TRUE

-----------------------------------------------------------------------------
(* What one run proves. *)

(* Wrong: the classifier of the branch is believed.                         *)
ExemptsUntrusted(r, scope) ==
    Green(r) /\ r.scope = scope /\ (r.wf = "exempt" => r.confined)

\* classifier_exemption: the control-plane or site receipt of a green run
Exempts(r, scope) ==
    Green(r) /\ r.scope = scope /\ r.trusted /\ (r.wf = "exempt" => r.confined)

\* app_test_only_classifier_proof
IsTestOnly(r) == Green(r) /\ r.wf = "ci" /\ r.scope = "test_only" /\ r.trusted /\ r.confined

\* ci_required_set_proof
HasRequiredSet(r) ==
    /\ Green(r) /\ r.wf = "ci" /\ r.scope = "product" /\ r.trusted /\ r.confined
    /\ r.needs \cap {"ts", "py"} # {}

\* verify_ci_required_jobs: every family the receipt requires, by its own steps
RequiredJobsRan(r) == (r.needs \ {"e2e"}) \subseteq r.ran

\* no receipt to rely on: the fixed jobs of the workflow succeeded, and the steps of the
\* unit tests or of E2E in them; of Python only the job is asked
FixedJobsRan(r) ==
    /\ Green(r) /\ (IF r.wf = "e2e" THEN "e2e" ELSE "ts") \in r.ran
    /\ r.wf = "ci" => r.python \/ IsTestOnly(r)

\* the newest run of a workflow decides; one of an ignored scope is passed over
Newest(wf, ignored) ==
    LET mine == {i \in DOMAIN ghRuns : ghRuns[i].wf = wf /\ ghRuns[i].scope \notin ignored}
    IN  {ghRuns[i] : i \in {j \in mine : \A k \in mine : k <= j}}

\* the ways of workflow_proof to accept one run, or to find no proof in it
ProofOf(r) ==
    CASE Exempts(r, "control") -> "exempt"
      [] HasRequiredSet(r) ->
           IF ~RequiredJobsRan(r) THEN NoProof
           ELSE IF "e2e" \in r.needs THEN "set_e2e" ELSE "set_no_e2e"
      [] OTHER -> IF ~FixedJobsRan(r) THEN NoProof
                  ELSE IF IsTestOnly(r) THEN "test_only" ELSE "fixed"

\* what the accepted run shows
Shown(r) == IF ProofOf(r) = "exempt" THEN {"exempt"}
            ELSE r.ran \cup IF r.python THEN {"python_job"} ELSE {}

\* workflow_proof: a run whose classifier was skipped does not count
WorkflowProof(wf) == {<<ProofOf(r), Shown(r)>> : r \in Newest(wf, {"skipped"})}

\* app_test_only_e2e_proof: the newest E2E run that ran anything skipped e2e
SkippedE2E ==
    \E r \in Newest("e2e", {"skipped"}) : Green(r) /\ "e2e" \notin r.ran

\* ci_exemption_proof: the newest run of the shared exemption workflow
SharedExemption ==
    \E r \in Newest("exempt", {}) : Exempts(r, "site") \/ Exempts(r, "control")

-----------------------------------------------------------------------------
Fixed == UNCHANGED <<ghPr, ghMain, ghRuns, needs, mergeMoves>>
Refuse == mpc' = "done" /\ refused' = TRUE
            /\ UNCHANGED <<ciProof, e2eProof, mainSeen, reviewed, tested>>

\* pr_at: the pinned head, open and not merged
ReadPR ==
    /\ mpc = "start" /\ Fixed
    /\ \/ (ghPr.head # AskedHead \/ ghPr.merged) /\ Refuse
       \/ /\ ghPr.head = AskedHead /\ ~ghPr.merged /\ mpc' = "exempt"
          /\ \E m \in 0 .. ghMain : reviewed' = m
          /\ UNCHANGED <<ciProof, e2eProof, mainSeen, refused, tested>>

\* any failure of this proof only means there is none
ReadExemption ==
    /\ mpc = "exempt" /\ Fixed
    /\ UNCHANGED <<e2eProof, mainSeen, reviewed, refused>>
    /\ \/ /\ SharedExemption
          /\ mpc' = "main" /\ ciProof' = "exempt" /\ tested' = {"exempt"}
       \/ mpc' = "ci" /\ UNCHANGED <<ciProof, tested>>

ReadCI ==
    /\ mpc = "ci" /\ Fixed
    /\ \/ Refuse
       \/ \E p \in WorkflowProof("ci") :
            /\ p[1] # NoProof
            /\ ciProof' = p[1] /\ tested' = p[2] /\ mpc' = "e2e"
            /\ UNCHANGED <<e2eProof, mainSeen, reviewed, refused>>

\* which E2E evidence the CI proof asks for; without one the classifier of main
\* (external) says what the change needs
NeedsE2ERun == ciProof = "set_e2e" \/ (ciProof \in {"fixed", "exempt"} /\ "e2e" \in needs)
NeedsE2ESkip == ciProof \in {"set_no_e2e", "test_only"}

ReadE2E ==
    /\ mpc = "e2e" /\ Fixed
    /\ \/ Refuse
       \/ /\ NeedsE2ERun
          /\ \E p \in WorkflowProof("e2e") :
               p[1] # NoProof /\ e2eProof' = p[1] /\ tested' = tested \cup p[2]
          /\ mpc' = "main" /\ UNCHANGED <<ciProof, mainSeen, reviewed, refused>>
       \/ /\ ~NeedsE2ERun /\ (NeedsE2ESkip => SkippedE2E)
          /\ e2eProof' = "skipped" /\ mpc' = "main"
          /\ UNCHANGED <<ciProof, mainSeen, reviewed, refused, tested>>

\* main and the comparison with the head; a later main must be the inspected one
ReadMain ==
    /\ mpc = "main" /\ Fixed
    /\ IF ghMain # 0 /\ reviewed # ghMain THEN Refuse
       ELSE mainSeen' = ghMain /\ mpc' = "recheck"
            /\ UNCHANGED <<ciProof, e2eProof, reviewed, refused, tested>>

RecheckPR ==
    /\ mpc = "recheck" /\ Fixed
    /\ IF ghPr.head # AskedHead THEN Refuse     \* merged by another is let through
       ELSE mpc' = "recheck_main" /\ UNCHANGED <<ciProof, e2eProof, mainSeen, reviewed, refused, tested>>

RecheckMain ==
    /\ mpc = "recheck_main" /\ Fixed
    /\ IF ghMain # mainSeen THEN Refuse
       ELSE mpc' = "merge" /\ UNCHANGED <<ciProof, e2eProof, mainSeen, reviewed, refused, tested>>

\* gh pr merge --match-head-commit: GitHub merges the pinned head or refuses; the
\* answer may be lost
Merge ==
    /\ mpc = "merge" /\ UNCHANGED <<ghMain, ghRuns, needs, mergeMoves>>
    /\ \/ UNCHANGED ghPr /\ Refuse
       \/ /\ ghPr.head = AskedHead /\ ~ghPr.merged
          /\ ghPr' = [head |-> ghPr.head, merged |-> TRUE, onto |-> ghMain, by |-> "script"]
          /\ \/ Refuse
             \/ mpc' = "confirm" /\ UNCHANGED <<ciProof, e2eProof, mainSeen, reviewed, refused, tested>>

Confirm ==
    /\ mpc = "confirm" /\ Fixed
    /\ \/ Refuse
       \/ /\ ghPr.head = AskedHead /\ ghPr.merged /\ mpc' = "done"
          /\ UNCHANGED <<ciProof, e2eProof, mainSeen, reviewed, refused, tested>>

-----------------------------------------------------------------------------
\* a push, a commit on main, a new run, its end, a new attempt of it
MergeMove ==
    /\ mergeMoves < MaxMergeMoves /\ mergeMoves' = mergeMoves + 1
    /\ \/ /\ ~ghPr.merged /\ ghPr' = [ghPr EXCEPT !.head = @ + 1] /\ UNCHANGED <<ghMain, ghRuns>>
       \/ ghMain' = ghMain + 1 /\ UNCHANGED <<ghPr, ghRuns>>
       \/ /\ \E s \in {x \in RunShapes : Truthful(x)} :
               ghRuns' = Append(ghRuns, RunOf(s, "pending"))
          /\ UNCHANGED <<ghPr, ghMain>>
       \/ /\ \E i \in DOMAIN ghRuns, st \in {"green", "red", "pending"} :
               /\ (st = "pending") # (ghRuns[i].state = "pending")
               /\ ghRuns' = [ghRuns EXCEPT ![i] = RunOf(@, st)]
          /\ UNCHANGED <<ghPr, ghMain>>
    /\ UNCHANGED <<mpc, ciProof, e2eProof, mainSeen, reviewed, refused, tested, needs>>

MergeInit ==
    /\ ghPr = [head |-> 0, merged |-> FALSE, onto |-> 0, by |-> "nobody"] /\ ghMain \in {0, 1}
    /\ needs \in NeedsChoices
    /\ \E a, b \in {x \in RunShapes : Truthful(x)}, s, t \in {"green", "red"} :
         ghRuns = <<RunOf(a, s), RunOf(b, t)>>
    /\ mpc = "start" /\ ciProof = NoProof /\ e2eProof = NoProof
    /\ mainSeen = 0 /\ reviewed = 0 /\ refused = FALSE /\ tested = {} /\ mergeMoves = 0

MergeNext == ReadPR \/ ReadExemption \/ ReadCI \/ ReadE2E \/ ReadMain \/ RecheckPR
               \/ RecheckMain \/ Merge \/ Confirm \/ MergeMove

MergeSpec == MergeInit /\ [][MergeNext]_mergeVars

-----------------------------------------------------------------------------
MergeTypeOK ==
    /\ mpc \in {"start", "exempt", "ci", "e2e", "main", "recheck", "recheck_main", "merge",
                "confirm", "done"}
    /\ tested \in SUBSET (Family \cup {"exempt", "python_job"}) /\ refused \in BOOLEAN
    /\ ghPr.by \in {"nobody", "script"}

\* Whatever is pushed meanwhile, the script merges the head it was asked for,
\* and only when every test family the change needs was executed by a green run
\* of that head: only a trusted exemption needs none, of a change that needs none.
\* Without a receipt to rely on, the successful job of the Python tests stands for them.
MergedIsTested ==
    ghPr.by = "script" =>
        /\ ghPr.head = AskedHead
        /\ needs \ {"py"} \subseteq tested
        /\ "py" \in needs \ tested => ciProof = "fixed" /\ "python_job" \in tested

(* What the proof of it carries along: every run is of a trusted classifier *)
(* that is right or of none, a proof of CI says which families it showed,   *)
(* and from the comparison with main on the whole change is shown tested.   *)
RunType == [wf : {"ci", "e2e", "exempt"},
            scope : {"none", "skipped", "product", "test_only", "site", "control"},
            needs : SUBSET Family, ran : SUBSET Family, python : BOOLEAN,
            trusted : BOOLEAN, confined : BOOLEAN, state : {"green", "red", "pending"}]

MergeShape ==
    /\ needs \in SUBSET Family /\ ghRuns \in Seq(RunType)
    /\ ghPr = [head |-> ghPr.head, merged |-> ghPr.merged, onto |-> ghPr.onto, by |-> ghPr.by]

RunsAreTruthful == \A i \in DOMAIN ghRuns : Truthful(ghRuns[i])

ProofIsEarned ==
    /\ mpc = "e2e" =>
         \/ ciProof = "exempt" /\ needs = {}
         \/ ciProof = "fixed" /\ {"ts", "python_job"} \subseteq tested
         \/ ciProof = "set_e2e" /\ needs \ {"e2e"} \subseteq tested
         \/ ciProof = "set_no_e2e" /\ needs \subseteq tested
         \/ ciProof = "test_only" /\ needs \subseteq tested
    /\ mpc \in {"main", "recheck", "recheck_main", "merge", "confirm"} =>
         /\ needs \ {"py"} \subseteq tested
         /\ "py" \in needs \ tested => ciProof = "fixed" /\ "python_job" \in tested

MergeInv ==
    /\ MergeShape /\ RunsAreTruthful /\ ProofIsEarned /\ MergedIsTested
    /\ ghPr.by = "script" => ghPr.merged /\ mpc \in {"confirm", "done"}
=============================================================================
