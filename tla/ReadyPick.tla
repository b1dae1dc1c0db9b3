----------------------------- MODULE ReadyPick -----------------------------
(***************************************************************************)
(* `ready_pool_select.py`: which issue a free slot takes.  The full run    *)
(* loads the pool label by label, reads the dependencies and ranks; the    *)
(* check of a pick (`--check`) reads the pick alone first and then, best   *)
(* first and in chunks, only the issues whose labels sort before it.       *)
(* GitHub moves between any two reads, and a read may fail.                *)
(***************************************************************************)
EXTENDS Naturals, FiniteSets

CONSTANTS
    Issue,          \* issue numbers; the older is the smaller
    Shapes,         \* what an issue may look like
    Asked,          \* the issue `--check` is asked about
    Chunk,          \* candidates evaluated at once (8)
    MaxPoolMoves,   \* bound: changes on GitHub during the run
    NULL

Unranked == 9
Priority == {0, 1, 2, Unranked}
ShapeType == [
    kind : {"new", "rework", "none"},   \* what its labels make of it
    label : Priority, body : Priority,  \* its priority label, and the body's
    hidden : BOOLEAN,                   \* the body takes it out of the pool
    fit : BOOLEAN,                      \* the contract holds, nothing merged yet
    gate : {"no", "dependency", "other"},   \* dependency: its label, its body or
                                            \* GitHub itself names one
    met : BOOLEAN,                      \* the named dependencies are merged
    native : BOOLEAN,                   \* GitHub itself lists an open blocker
    owned : BOOLEAN]                    \* an open pull request closes it

VARIABLES
    pool,       \* GitHub
    mode,       \* fast: --check; full: the selection
    capped,     \* more than 25 open pull requests: rework only
    ppc, light, seen,
    native,     \* the native blockers read, per issue: yes, no, unread, failed
    latch,      \* the native API failed once
    blind,      \* issues whose named dependencies could not be looked up
    queue,      \* better candidates that are still to be evaluated
    answer, taken,
    steady,     \* issues nobody touched since the run began
    poolMoves

pickVars == <<pool, mode, capped, ppc, light, seen, native, latch, blind, queue,
              answer, taken, steady, poolMoves>>

Answers == {NULL, "ok", "PRIORITY_INVERSION", "GATED", "DEPENDENCY_OPEN", "PR_CAP",
            "not_eligible", "pick", "nothing", "error"}

PickTypeOK ==
    /\ pool \in [Issue -> ShapeType] /\ mode \in {"fast", "full"} /\ capped \in BOOLEAN
    /\ ppc \in {"pick", "new", "rework", "details", "chunk", "done"}
    /\ light \in [Issue -> ShapeType \cup {NULL}] /\ seen \in [Issue -> ShapeType \cup {NULL}]
    /\ native \in [Issue -> {"yes", "no", "unread", "failed"}] /\ latch \in BOOLEAN
    /\ blind \subseteq Issue /\ queue \subseteq Issue /\ answer \in Answers /\ taken \in Issue \cup {NULL}
    /\ steady \subseteq Issue /\ poolMoves \in 0 .. MaxPoolMoves

PickInit ==
    /\ pool \in [Issue -> Shapes] /\ mode \in {"fast", "full"} /\ capped \in BOOLEAN
    /\ ppc = IF mode = "fast" THEN "pick" ELSE "new"
    /\ light = [i \in Issue |-> NULL] /\ seen = light
    /\ native = [i \in Issue |-> "unread"] /\ latch = FALSE /\ blind = {}
    /\ queue = {} /\ answer = NULL /\ taken = NULL
    /\ steady = Issue /\ poolMoves = 0

----------------------------------------------------------------------------
(* The pure part: the class, the order, the gate.                          *)

PriorityRank(s) == IF s.label # Unranked THEN s.label ELSE s.body
ClassRank(s) == IF s.kind = "rework" THEN 0 ELSE 1
Tier(s) == 2 * PriorityRank(s) + ClassRank(s)
SortsBefore(i, s, j, t) == Tier(s) < Tier(t) \/ (Tier(s) = Tier(t) /\ i < j)

Classified(s) == s.kind # "none" /\ ~s.hidden

(* A native list that could not be read counts as an empty one. *)
Gated(s, met, listed) ==
    \/ s.gate = "other"
    \/ s.gate = "dependency" /\ ~met
    \/ listed

Candidate(s) == Classified(s) /\ (s.kind = "new" => s.fit)
Eligible(s) == Candidate(s) /\ (s.kind = "new" => ~s.owned)

(* check_decision and check_pick, of an issue and those read beside it *)
Decide(n, s, gated, better) ==
    IF Candidate(s) /\ gated THEN (IF s.gate = "other" THEN "GATED" ELSE "DEPENDENCY_OPEN")
    ELSE IF Candidate(s) /\ capped /\ s.kind = "new" THEN "PR_CAP"
    ELSE IF ~Eligible(s) THEN "not_eligible"
    ELSE IF better # {} THEN "PRIORITY_INVERSION" ELSE "ok"

----------------------------------------------------------------------------
(* The reads.                                                              *)

(* The native blockers of the candidates: what was read stays, and nothing *)
(* more is asked once a request failed.                                    *)
ReadNative(S) ==
    LET ask == {i \in S : native[i] = "unread" /\ ~latch} IN
    \E failed \in SUBSET ask :
        /\ native' = [i \in Issue |->
              IF i \in failed THEN "failed"
              ELSE IF i \in ask THEN (IF pool[i].native THEN "yes" ELSE "no")
              ELSE native[i]]
        /\ latch' = (latch \/ failed # {})

(* evaluate_dependency, of the candidates S as read in f: a dependency that *)
(* cannot be looked up counts as open.                                     *)
Evaluate(S, f) ==
    /\ ReadNative(S)
    /\ \E lost \in SUBSET {i \in S : f[i].gate = "dependency"} : blind' = blind \cup lost

IsGated(i, s) == Gated(s, pool[i].met /\ i \notin blind', native'[i] = "yes")

FastPick ==
    /\ ppc = "pick"
    /\ \/ answer' = "error" /\ ppc' = "done" /\ UNCHANGED <<seen, native, latch, blind, taken>>
       \/ LET s == pool[Asked] IN
          /\ seen' = [seen EXCEPT ![Asked] = s]
          /\ Evaluate({Asked}, pool)
          /\ LET verdict == Decide(Asked, s, IsGated(Asked, s), {}) IN
             IF verdict = "ok"
             THEN ppc' = "new" /\ UNCHANGED <<answer, taken>>
             ELSE ppc' = "done" /\ answer' = verdict /\ UNCHANGED taken
    /\ UNCHANGED <<pool, mode, capped, light, queue, steady, poolMoves>>

(* One query per label; a number met again is overwritten.  In the full    *)
(* run the bodies come along.                                              *)
Load(label, next) ==
    /\ ppc = label
    /\ LET page == {i \in Issue : pool[i].kind = label}
           merged(f) == [i \in Issue |-> IF i \in page THEN pool[i] ELSE f[i]] IN
       \/ /\ ppc' = next /\ UNCHANGED answer
          /\ IF mode = "fast" THEN light' = merged(light) /\ UNCHANGED seen
                              ELSE seen' = merged(seen) /\ UNCHANGED light
       \/ /\ answer' = "error" /\ ppc' = "done"     \* the population changed, no answer
          /\ UNCHANGED <<light, seen>>
    /\ UNCHANGED <<pool, mode, capped, native, latch, blind, queue, taken, steady, poolMoves>>

LoadNew == Load("new", "rework")
LoadRework == Load("rework", "details")

(* Wrong: an issue without a priority label sorts last.                     *)
PossibleByLabel(i) ==
    /\ i # Asked /\ light[i] # NULL /\ light[i].kind # "none"
    /\ ~(capped /\ light[i].kind = "new")
    /\ 2 * light[i].label + ClassRank(light[i]) < Tier(seen[Asked])

(* By its labels alone it may sort before the pick. *)
Possible(i) ==
    /\ i # Asked /\ light[i] # NULL /\ light[i].kind # "none"
    /\ ~(capped /\ light[i].kind = "new")
    /\ \/ light[i].label = Unranked
       \/ 2 * light[i].label + ClassRank(light[i]) < Tier(seen[Asked])

Details ==
    /\ ppc = "details" /\ mode = "fast"
    /\ \/ answer' = "error" /\ ppc' = "done" /\ UNCHANGED <<seen, queue>>
       \/ /\ seen' = [i \in Issue |-> IF Possible(i) THEN pool[i] ELSE seen[i]]
          /\ queue' = {i \in Issue : Possible(i) /\ Classified(pool[i])
                                     /\ Tier(pool[i]) < Tier(seen[Asked])}
          /\ ppc' = "chunk" /\ UNCHANGED answer
    /\ UNCHANGED <<pool, mode, capped, light, native, latch, blind, taken, steady, poolMoves>>

Before(i) == {j \in queue : SortsBefore(j, seen[j], i, seen[i])}
NextChunk == {i \in queue : Cardinality(Before(i)) < Chunk}
Best(S) == CHOOSE i \in S : \A j \in S \ {i} : SortsBefore(i, seen[i], j, seen[j])

Free(S) == {i \in S : /\ Eligible(seen[i]) /\ ~IsGated(i, seen[i])
                      /\ ~(capped /\ seen[i].kind = "new")}

(* An evaluation that runs out of time is no answer.                       *)
NoAnswer ==
    answer' = "error" /\ ppc' = "done" /\ UNCHANGED <<native, latch, blind, queue, taken>>

(* The pick is evaluated again beside each chunk, and may wait by now.     *)
EvaluateChunk ==
    /\ ppc = "chunk"
    /\ \/ queue # {} /\ NoAnswer
       \/ /\ queue = {} /\ answer' = "ok" /\ taken' = Asked /\ ppc' = "done"
          /\ UNCHANGED <<native, latch, blind, queue>>
       \/ /\ queue # {}
          /\ Evaluate({Asked} \cup {i \in NextChunk : Candidate(seen[i])}, seen)
          /\ LET better == Free(NextChunk)
                 verdict == Decide(Asked, seen[Asked], IsGated(Asked, seen[Asked]), better) IN
             /\ IF verdict = "ok" THEN queue' = queue \ NextChunk /\ UNCHANGED <<ppc, answer>>
                                  ELSE answer' = verdict /\ ppc' = "done" /\ UNCHANGED queue
             /\ taken' = IF verdict = "PRIORITY_INVERSION" THEN Best(better) ELSE taken
    /\ UNCHANGED <<pool, mode, capped, light, seen, steady, poolMoves>>

(* rank_candidates over everything, and the head of the ranking *)
Select ==
    /\ ppc = "details" /\ mode = "full" /\ ppc' = "done" /\ UNCHANGED queue
    /\ LET read == {i \in Issue : seen[i] # NULL} IN
       \/ NoAnswer
       \/ /\ Evaluate({i \in read : Candidate(seen[i])}, seen)
          /\ LET ranked == Free(read) IN
             IF ranked = {} THEN answer' = "nothing" /\ UNCHANGED taken
                            ELSE answer' = "pick" /\ taken' = Best(ranked)
    /\ UNCHANGED <<pool, mode, capped, light, seen, steady, poolMoves>>

PoolMoves(i) ==
    /\ poolMoves < MaxPoolMoves /\ poolMoves' = poolMoves + 1 /\ ppc # "done"
    /\ \E s \in Shapes \ {pool[i]} : pool' = [pool EXCEPT ![i] = s]
    /\ steady' = steady \ {i}
    /\ UNCHANGED <<mode, capped, ppc, light, seen, native, latch, blind, queue, answer, taken>>

PickNext ==
    \/ FastPick \/ LoadNew \/ LoadRework \/ Details \/ EvaluateChunk \/ Select
    \/ \E i \in Issue : PoolMoves(i)

PickSpec == PickInit /\ [][PickNext]_pickVars

----------------------------------------------------------------------------
(* Properties.                                                             *)

Takeable(s) ==
    Eligible(s) /\ ~Gated(s, s.met, s.native) /\ ~(capped /\ s.kind = "new")
Reference ==
    Decide(Asked, pool[Asked], Gated(pool[Asked], pool[Asked].met, pool[Asked].native),
           {i \in Issue \ {Asked} : Takeable(pool[i]) /\ Tier(pool[i]) < Tier(pool[Asked])})

(* "exactly the full path's should_take": the check that reads a few       *)
(* issues answers what the ranking of the whole pool would, and names the  *)
(* same issue, when GitHub stood still and answered every request.         *)
FastIsFull ==
    ppc = "done" /\ mode = "fast" /\ answer # "error"
        /\ steady = Issue /\ ~latch /\ blind = {} =>
        /\ answer = Reference
        /\ answer = "PRIORITY_INVERSION" => \A i \in Issue \ {Asked, taken} :
              Takeable(pool[i]) => SortsBefore(taken, pool[taken], i, pool[i])

(* While GitHub moves and requests fail, an issue that could be taken all  *)
(* along and sorts before is never passed over, in whichever of the        *)
(* queries it is found: unless its own dependencies could not be read.     *)
NoInversion ==
    answer \in {"ok", "pick"} => \A i \in steady \ (blind \cup {taken}) :
        Takeable(pool[i]) => Tier(seen[taken]) <= Tier(pool[i])

(* What the proofs of these carry along.  Of an issue that nobody touched   *)
(* what was read holds, and the query of its label has found it.            *)
Queried == IF ppc = "rework" THEN {"new"}
           ELSE IF ppc \in {"details", "chunk"} THEN {"new", "rework"} ELSE {}
ReadsHold ==
    /\ \A i \in steady :
         /\ light[i] \in {NULL, pool[i]} /\ seen[i] \in {NULL, pool[i]}
         /\ native[i] \in {"yes", "no"} => (native[i] = "yes" <=> pool[i].native)
         /\ pool[i].kind \in Queried => (IF mode = "fast" THEN light[i] ELSE seen[i]) # NULL
    /\ ~latch => \A i \in Issue : native[i] # "failed"

(* The pick was free to go when it was read, and has been kept since; in    *)
(* the queue are all that may come before it, and nothing else.             *)
PickIsRead ==
    /\ mode = "full" => ppc \notin {"pick", "chunk"}
    /\ ppc # "done" => answer = NULL
    /\ ppc = "pick" => ~latch /\ blind = {} /\ native[Asked] = "unread"
    /\ mode = "fast" /\ ppc \notin {"pick", "done"} =>
         /\ seen[Asked] # NULL
         /\ Asked \in steady /\ ~latch => Takeable(pool[Asked])

QueueIsAhead ==
    ppc = "chunk" =>
      /\ \A i \in queue : i # Asked /\ seen[i] # NULL /\ Tier(seen[i]) < Tier(seen[Asked])
      /\ \A i \in steady \ (blind \cup {Asked}) :
           Takeable(pool[i]) /\ Tier(pool[i]) < Tier(seen[Asked]) => i \in queue

PickInv == PickTypeOK /\ ReadsHold /\ PickIsRead /\ QueueIsAhead /\ FastIsFull /\ NoInversion
=============================================================================
