----------------------------- MODULE CIVerdict -----------------------------
(* ci/publish-ci-verdict.py: an investigation packet, a ready verdict or a   *)
(* successful capture becomes the one comment of a run's attempt on its PR.  *)
(* The run and the PR head are read live, the flake store of the machine and *)
(* the comments tell a repeated CI-only flake, and the comment is posted     *)
(* first and completed afterwards. Publishers run beside each other.         *)
EXTENDS Integers, Sequences, TLC

CONSTANTS
    Run,         \* CI runs; all failures here carry one fingerprint
    Publisher,   \* publisher processes
    PrOf,        \* the PR of each run
    FileOf,      \* what the operator hands over for each run, see FileType
    MaxCIMoves,  \* bound on pushes, new attempts and weeks that pass
    MaxPublishes,\* bound on started publications
    NoRun        \* no run at all

PRs == {PrOf[r] : r \in Run}

VARIABLES
    ciRuns,      \* GitHub: attempt and head of each run
    pulls,       \* GitHub: the head of each PR
    comments,    \* GitHub: per PR the sequence of verdict comments
    flakes,      \* the store: the run last recorded for the fingerprint, and if it is fresh
    pubs,        \* the publishers
    recorded,    \* runs whose verdict reached the store (history)
    recent,      \* those of the last seven days (history)
    ciMoves, publishes

verdictVars == <<ciRuns, pulls, comments, flakes, pubs, recorded, recent, ciMoves, publishes>>

\* input: verdict file, packet or dispatch receipt; class, result of the local repro,
\* requested action, a sanctioned recommendation, blocking flags, an open follow-up
FileType == [source : {"verdict", "packet", "capture"}, class : {"infra", "test", "other"},
             local : {"no_equivalent", "passed", "failed"},
             action : {"rerun", "none", "other"}, sanctioned : BOOLEAN,
             blocking : BOOLEAN, followup : BOOLEAN, attempt : {1}]

Heads == 0 .. MaxCIMoves
Quiet == [pc |-> "off", run |-> NoRun, attempt |-> 0, runHead |-> 0, listed |-> <<>>,
          blocked |-> "unset", repeated |-> FALSE, at |-> 0]

-----------------------------------------------------------------------------
\* verdict_from_investigation: which packets become a rerun verdict
LocalProves(f) == \/ f.class = "infra" /\ f.local = "no_equivalent"
                  \/ f.class = "test" /\ f.local = "passed"
RerunSanctioned(f) ==
    CASE f.class = "test" -> f.action # "other" /\ f.sanctioned
      [] f.class # "test" /\ f.action = "rerun" -> TRUE
      [] OTHER -> f.action = "none" /\ (f.sanctioned \/ f.local = "no_equivalent")
PacketAccepted(f) ==
    f.class # "other" /\ LocalProves(f) /\ RerunSanctioned(f) /\ f.blocking

\* capture_success_verdict: only the successful full capture of the exact head is
\* adopted; "blocking" of a capture file says that its receipt is the exact tuple
CaptureAccepted(f) == f.blocking

Accepted(f) == CASE f.source = "packet" -> PacketAccepted(f)
                 [] f.source = "capture" -> CaptureAccepted(f)
                 [] OTHER -> TRUE

\* what the published verdict says of the local repro (impossible for infra)
SaysPassed(f) == f.source # "capture" /\ f.local = "passed"

\* validate: the run's head is the PR's, the attempt the file's
Valid(p, head) ==
    /\ p.runHead = head /\ Accepted(FileOf[p.run])
    /\ FileOf[p.run].source = "capture" \/ p.attempt = FileOf[p.run].attempt

-----------------------------------------------------------------------------
Set(p, rec) == pubs' = [pubs EXCEPT ![p] = rec]

\* main reads the run ...
ReadRun(p) == \E r \in Run :
    /\ pubs[p].pc = "off" /\ publishes < MaxPublishes /\ publishes' = publishes + 1
    /\ Set(p, [pc |-> "pull", run |-> r, attempt |-> ciRuns[r].attempt, runHead |-> ciRuns[r].head,
               listed |-> <<>>, blocked |-> "unset", repeated |-> FALSE, at |-> 0])
    /\ UNCHANGED <<ciRuns, pulls, comments, flakes, recorded, recent, ciMoves>>

\* ... then the PR, and validates the materialised verdict against both
Materialize(p) ==
    /\ pubs[p].pc = "pull"
    /\ Set(p, IF Valid(pubs[p], pulls[PrOf[pubs[p].run]])
              THEN [pubs[p] EXCEPT !.pc = "list"] ELSE Quiet)
    /\ UNCHANGED <<ciRuns, pulls, comments, flakes, recorded, recent, ciMoves, publishes>>

ListComments(p) ==
    /\ pubs[p].pc = "list"
    /\ Set(p, [pc |-> "quarantine", run |-> pubs[p].run, attempt |-> pubs[p].attempt,
               runHead |-> pubs[p].runHead, listed |-> comments[PrOf[pubs[p].run]],
               blocked |-> "unset", repeated |-> FALSE, at |-> 0])
    /\ UNCHANGED <<ciRuns, pulls, comments, flakes, recorded, recent, ciMoves, publishes>>

(* Wrong: the entry of the same run counts.                                 *)
StoreEntries(run) == IF flakes.run # NoRun /\ flakes.fresh THEN 1 ELSE 0

\* quarantine_state: an entry of another run in the store, else in the comments of the PR
StoreOccurrences(run) == IF flakes.run \notin {NoRun, run} /\ flakes.fresh THEN 1 ELSE 0
\* (how many there are makes no difference)
CommentOccurrences(run, listed) ==
    IF \E i \in DOMAIN listed : listed[i].run # run /\ FileOf[listed[i].run].source # "capture"
    THEN 1 ELSE 0
PriorOccurrences(run, listed) ==
    IF StoreOccurrences(run) = 0 THEN CommentOccurrences(run, listed) ELSE StoreOccurrences(run)

IsBlocked(run, listed) ==
    /\ PriorOccurrences(run, listed) >= 1
    /\ SaysPassed(FileOf[run]) /\ ~FileOf[run].followup

Quarantine(p) ==
    LET me == pubs[p]
        capture == FileOf[me.run].source = "capture"
    IN  /\ me.pc = "quarantine"
        /\ Set(p, [pc |-> "post", run |-> me.run, attempt |-> me.attempt, runHead |-> me.runHead,
                   listed |-> me.listed,
                   blocked |-> IF ~capture /\ IsBlocked(me.run, me.listed) THEN "yes" ELSE "no",
                   repeated |-> recent \ {me.run} # {}, at |-> 0])
        /\ IF capture THEN UNCHANGED <<flakes, recorded, recent>>
           ELSE /\ flakes' = [run |-> me.run, fresh |-> TRUE]
                /\ recorded' = recorded \cup {me.run} /\ recent' = recent \cup {me.run}
        /\ UNCHANGED <<ciRuns, pulls, comments, ciMoves, publishes>>

\* the newest listed comment with the marker of this run, attempt and head
Existing(p) ==
    LET me == pubs[p]
        same == {i \in DOMAIN me.listed : me.listed[i].run = me.run
                     /\ me.listed[i].attempt = me.attempt /\ me.listed[i].head = me.runHead}
    IN  IF same = {} THEN 0 ELSE CHOOSE i \in same : \A j \in same : j <= i

\* render_comment: the first body is written before the quarantine is known
Comment(p, blocked) == [run |-> pubs[p].run, attempt |-> pubs[p].attempt,
                        head |-> pubs[p].runHead, blocked |-> blocked,
                        repeated |-> pubs[p].repeated]

Post(p) ==
    LET me == pubs[p]
        pr == PrOf[me.run]
        at == IF Existing(p) = 0 THEN Len(comments[pr]) + 1 ELSE Existing(p)
        body == Comment(p, "unset")
    IN  /\ pubs[p].pc = "post"
        /\ comments' = [comments EXCEPT ![pr] = IF at > Len(@) THEN Append(@, body)
                                                ELSE [@ EXCEPT ![at] = body]]
        /\ Set(p, [pc |-> "finish", run |-> me.run, attempt |-> me.attempt, runHead |-> me.runHead,
                   listed |-> me.listed, blocked |-> me.blocked, repeated |-> me.repeated, at |-> at])
        /\ UNCHANGED <<ciRuns, pulls, flakes, recorded, recent, ciMoves, publishes>>

Finish(p) ==
    /\ pubs[p].pc = "finish"
    /\ comments' = [comments EXCEPT ![PrOf[pubs[p].run]][pubs[p].at] = Comment(p, pubs[p].blocked)]
    /\ Set(p, Quiet)
    /\ UNCHANGED <<ciRuns, pulls, flakes, recorded, recent, ciMoves, publishes>>

\* the process dies, or GitHub refuses one of its calls
Fails(p) ==
    /\ pubs[p].pc # "off" /\ Set(p, Quiet)
    /\ UNCHANGED <<ciRuns, pulls, comments, flakes, recorded, recent, ciMoves, publishes>>

\* a new attempt, a push, seven days
CIMove ==
    /\ ciMoves < MaxCIMoves /\ ciMoves' = ciMoves + 1
    /\ \/ /\ \E r \in Run : ciRuns' = [ciRuns EXCEPT ![r] = [attempt |-> @.attempt + 1, head |-> @.head]]
          /\ UNCHANGED <<pulls, flakes, recent>>
       \/ /\ \E pr \in PRs : pulls' = [pulls EXCEPT ![pr] = @ + 1]
          /\ UNCHANGED <<ciRuns, flakes, recent>>
       \/ /\ flakes' = [run |-> flakes.run, fresh |-> FALSE] /\ recent' = {}
          /\ UNCHANGED <<ciRuns, pulls>>
    /\ UNCHANGED <<comments, pubs, recorded, publishes>>

-----------------------------------------------------------------------------
VerdictInit ==
    /\ ciRuns = [r \in Run |-> [attempt |-> 1, head |-> 0]] /\ pulls = [pr \in PRs |-> 0]
    /\ comments = [pr \in PRs |-> <<>>] /\ flakes = [run |-> NoRun, fresh |-> FALSE]
    /\ pubs = [p \in Publisher |-> Quiet] /\ recorded = {} /\ recent = {} /\ ciMoves = 0 /\ publishes = 0

VerdictNext ==
    \/ \E p \in Publisher : \/ ReadRun(p) \/ Materialize(p) \/ ListComments(p)
                            \/ Quarantine(p) \/ Post(p) \/ Finish(p) \/ Fails(p)
    \/ CIMove

VerdictSpec == VerdictInit /\ [][VerdictNext]_verdictVars

-----------------------------------------------------------------------------
VerdictTypeOK ==
    /\ \A r \in Run : ciRuns[r].head \in Heads
    /\ \A p \in Publisher : /\ pubs[p].pc \in {"off", "pull", "list", "quarantine", "post", "finish"}
                            /\ pubs[p].blocked \in {"unset", "yes", "no"}
    /\ \A pr \in PRs : \A i \in DOMAIN comments[pr] : PrOf[comments[pr][i].run] = pr

\* A flake is quarantined only on the evidence of another run that was
\* published before, never on that of its own earlier publication.
BlockedHasPrior ==
    \A pr \in PRs : \A i \in DOMAIN comments[pr] :
        comments[pr][i].blocked = "yes" => recorded \ {comments[pr][i].run} # {}

\* "A verdict whose local repro is passed (CI-only flake) is quarantined when the
\* same fingerprint already appeared in a prior verdict with no open follow-up":
\* a comment says "not blocked" only if no other run of the last seven days was
\* recorded before it. (The code keeps one run per fingerprint in the store.)
RepeatQuarantined ==
    \A pr \in PRs : \A i \in DOMAIN comments[pr] :
        LET c == comments[pr][i]
        IN  (c.blocked = "no" /\ c.repeated) => FileOf[c.run].followup \/ ~SaysPassed(FileOf[c.run])

(* What the proof of BlockedHasPrior carries along: the store, the comments  *)
(* and the copies of them a publisher listed speak of recorded runs only,    *)
(* because a publication is posted after its run was recorded.               *)
CommentType == [run : Run, attempt : Nat, head : Nat, blocked : {"unset", "yes", "no"},
                repeated : BOOLEAN]

VerdictShape ==
    /\ ciRuns \in [Run -> [attempt : Nat, head : Nat]]
    /\ comments \in [PRs -> Seq(CommentType)]
    /\ \A p \in Publisher :
         /\ pubs[p].listed \in Seq(CommentType) /\ pubs[p].repeated \in BOOLEAN
         /\ pubs[p].pc \in {"off", "pull", "list", "quarantine", "post", "finish"}
         /\ pubs[p].blocked \in {"unset", "yes", "no"}
         /\ pubs[p].attempt \in Nat /\ pubs[p].runHead \in Nat
         /\ pubs[p].pc # "off" => pubs[p].run \in Run

Recorded(run) == FileOf[run].source # "capture" => run \in recorded
HasPrior(run) == recorded \ {run} # {}

EvidenceIsRecorded ==
    /\ flakes.run \in recorded \cup {NoRun}
    /\ \A p \in Publisher :
         /\ \A i \in DOMAIN pubs[p].listed : Recorded(pubs[p].listed[i].run)
         /\ pubs[p].pc \in {"post", "finish"} => Recorded(pubs[p].run)
         /\ pubs[p].blocked = "yes" => HasPrior(pubs[p].run)
    /\ \A pr \in PRs : \A i \in DOMAIN comments[pr] :
         /\ Recorded(comments[pr][i].run)
         /\ comments[pr][i].blocked = "yes" => HasPrior(comments[pr][i].run)

VerdictInv == VerdictShape /\ EvidenceIsRecorded
=============================================================================
