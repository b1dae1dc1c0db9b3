---------------------------- MODULE CodexBroker ----------------------------
(***************************************************************************)
(* The Codex brokers in `stale-process-cleanup.py`: the selection of       *)
(* orphaned trees, and the strict kill of one tree, which fences the whole *)
(* group and its activity before each TERM and each KILL.  Clients connect,*)
(* companions start, tools and servers come and go all the while.          *)
(***************************************************************************)
EXTENDS FiniteSets, Naturals

CONSTANTS MaxTurns,     \* bound: what the world does
          NULL

(* A broker, the app-server below it, and a tool the server may be running. *)
Member == {"broker", "server", "tool"}
Up(p) == CASE p = "broker" -> "init" [] p = "server" -> "broker" [] p = "tool" -> "server"

VARIABLES
    life,       \* per process: up, exiting, none, or reused by another
    parent,     \* its parent: a member, init, or an agent's session
    client,     \* an accepted connection on the broker's socket, or unknown
    companion,  \* none, inflight on this broker, incwd (in its directory), unknown
    aged,       \* at least two hours old
    bpc, planned, todo, sent, victim,
    result,     \* NULL, reported (not eligible), refused, terminated
    stirred,    \* the world moved since the last check
    turns

system == <<life, parent, client, companion, aged>>
brokerVars == <<system, bpc, planned, todo, sent, victim, result, stirred, turns>>

BrokerTypeOK ==
    /\ life \in [Member -> {"up", "exiting", "none", "reused"}]
    /\ parent \in [Member -> Member \cup {"init", "session"}]
    /\ client \in {"no", "yes", "unknown"}
    /\ companion \in {"none", "inflight", "incwd", "unknown"}
    /\ aged \in BOOLEAN
    /\ bpc \in {"plan", "term", "send_term", "wait", "kill", "send_kill", "read", "done"}
    /\ planned \subseteq Member /\ todo \subseteq Member /\ sent \subseteq Member
    /\ victim \in Member \cup {NULL}
    /\ result \in {NULL, "reported", "refused", "terminated"}
    /\ stirred \in BOOLEAN /\ turns \in 0 .. MaxTurns

BrokerInit ==
    /\ life \in [Member -> {"up", "none"}] /\ life["broker"] = "up"
    /\ life["tool"] = "up" => life["server"] = "up"
    /\ \E root \in {"init", "session"} :
          parent = [p \in Member |-> IF p = "broker" THEN root ELSE Up(p)]
    /\ client \in {"no", "yes"} /\ companion \in {"none", "inflight", "incwd"}
    /\ aged \in BOOLEAN
    /\ bpc = "plan" /\ planned = {} /\ todo = {} /\ sent = {} /\ victim = NULL
    /\ result = NULL /\ stirred = FALSE /\ turns = 0

----------------------------------------------------------------------------
(* Selection: codex_broker_plan, codex_broker_policy_plan and the strict   *)
(* rule that needs the orphan and the idle rule both.                      *)

Present == {p \in Member : life[p] # "none"}
Below(p) == {q \in Present : parent[q] = p}
Descendants(p) == Below(p) \cup UNION {Below(q) : q \in Below(p)}

OrphanRoot == life["broker"] = "up" /\ parent["broker"] = "init" /\ aged
Group == {p \in {"broker"} \cup Descendants("broker") : life[p] \in {"up", "reused"}}
IdleRoot == client = "no" /\ companion # "inflight"

StrictEligible == OrphanRoot /\ IdleRoot /\ companion = "none"

Plan ==
    /\ bpc = "plan"
    /\ \/ /\ StrictEligible
          /\ planned' = Group /\ todo' = Group /\ bpc' = "term" /\ UNCHANGED result
       \/ /\ ~StrictEligible \/ companion = "unknown"
          /\ bpc' = "done" /\ result' = "reported" /\ UNCHANGED <<planned, todo>>
    /\ UNCHANGED <<system, sent, victim, stirred, turns>>

----------------------------------------------------------------------------
(* codex_broker_strict_kill: what must hold before each signal.            *)

Remaining == planned \cap Present

ParentsKept == \A p \in Remaining : parent[p] = Up(p)
GroupKept == Descendants("broker") \subseteq planned /\ Group = Remaining
IdentityKept == "broker" \in Present /\ OrphanRoot /\ \A p \in Remaining : life[p] = "up"
(* Wrong: a companion without a connection is nobody.                       *)
QuietSocket == client = "no"
Quiet == client = "no" /\ companion = "none"
NoWork == "tool" \notin Remaining

Verified == ParentsKept /\ GroupKept /\ IdentityKept /\ Quiet /\ NoWork

(* Children first. *)
Last(S) == {p \in S : \A q \in S : Up(q) # p}

Check(from, send) ==
    /\ bpc = from /\ todo # {}
    /\ \/ ~Verified /\ bpc' = "done" /\ result' = "refused" /\ UNCHANGED <<todo, victim, stirred>>
       \/ /\ Verified
          /\ \E p \in Last(todo) :
                IF p \in Present THEN victim' = p /\ bpc' = send /\ UNCHANGED todo
                                 ELSE todo' = todo \ {p} /\ UNCHANGED <<victim, bpc>>
          /\ stirred' = FALSE /\ UNCHANGED result
    /\ UNCHANGED <<system, planned, sent, turns>>

CheckTerm == Check("term", "send_term")
CheckKill == Check("kill", "send_kill")

Exit(p) ==
    /\ life' = [life EXCEPT ![p] = "none"]
    /\ parent' = [q \in Member |-> IF parent[q] = p /\ life[q] # "none" THEN "init"
                                   ELSE IF q = p THEN Up(p) ELSE parent[q]]

Signal(from, next, effect) ==
    /\ bpc = from
    /\ todo' = todo \ {victim} /\ victim' = NULL
    /\ \/ victim \notin Present /\ bpc' = "done" /\ result' = "refused"
          /\ UNCHANGED <<life, parent, sent>>
       \/ victim \in Present /\ effect /\ bpc' = next
          /\ sent' = sent \cup {victim} /\ UNCHANGED result
    /\ UNCHANGED <<client, companion, aged, planned, stirred, turns>>

(* TERM is obeyed, ignored, or leaves the process exiting under swap. *)
SendTerm == Signal("send_term", "term",
    \/ Exit(victim)
    \/ UNCHANGED <<life, parent>>
    \/ life' = [life EXCEPT ![victim] = "exiting"] /\ UNCHANGED parent)

SendKill == Signal("send_kill", "kill", Exit(victim))

Wait ==
    /\ bpc = "term" /\ todo = {}
    /\ bpc' = "kill" /\ todo' = planned /\ sent' = {}
    /\ UNCHANGED <<system, planned, victim, result, stirred, turns>>

FinalRead ==
    /\ bpc = "kill" /\ todo = {}
    /\ bpc' = "done"
    /\ result' = IF \E p \in planned : life[p] \in {"up", "exiting"}
                 THEN "refused" ELSE "terminated"
    /\ UNCHANGED <<system, planned, todo, sent, victim, stirred, turns>>

----------------------------------------------------------------------------
(* The machine.                                                            *)

Stir(step) ==
    /\ turns < MaxTurns /\ turns' = turns + 1 /\ stirred' = TRUE
    /\ bpc # "done"
    /\ step
    /\ UNCHANGED <<aged, bpc, planned, todo, sent, victim, result>>

Connects == client' \in {"no", "yes", "unknown"} \ {client} /\ UNCHANGED <<life, parent, companion>>
Companion ==
    /\ companion' \in {"none", "inflight", "incwd", "unknown"} \ {companion}
    /\ UNCHANGED <<life, parent, client>>
Dies(p) == life[p] \in {"up", "exiting"} /\ Exit(p) /\ UNCHANGED <<client, companion>>
Spawns(p) ==
    /\ life[p] = "none" /\ p # "broker" /\ Up(p) \in Present
    /\ life' = [life EXCEPT ![p] = "reused"] /\ parent' = [parent EXCEPT ![p] = Up(p)]
    /\ UNCHANGED <<client, companion>>

BrokerNext ==
    \/ Plan \/ CheckTerm \/ SendTerm \/ Wait \/ CheckKill \/ SendKill \/ FinalRead
    \/ Stir(Connects) \/ Stir(Companion)
    \/ \E p \in Member : Stir(Dies(p)) \/ Stir(Spawns(p))

BrokerSpec == BrokerInit /\ [][BrokerNext]_brokerVars

----------------------------------------------------------------------------
(* Properties.                                                             *)

(* No broker that is used is signalled: no client, no companion, no tool   *)
(* below it, unless one came between the check and the signal.             *)
BusyIsSparedStep ==
    sent' # sent /\ sent' # {} /\ ~stirred =>
        /\ client = "no" /\ companion = "none"
        /\ \A p \in Descendants("broker") : p = "server" /\ life[p] # "reused"
BusyIsSpared == [][BusyIsSparedStep]_brokerVars

(* The broker goes last: whoever still lives below it was signalled before. *)
NobodyOrphanedStep ==
    victim = "broker" /\ sent' # sent /\ sent' # {} /\ ~stirred =>
        Descendants("broker") \subseteq sent
NobodyOrphaned == [][NobodyOrphanedStep]_brokerVars

(* "terminated" is said of a tree of which nothing is left. *)
TerminatedIsGone ==
    result = "terminated" => \A p \in planned : life[p] \notin {"up", "exiting"}

(* The invariant of which they follow: what was verified holds until the   *)
(* world moves, and of the planned tree only who is gone, or another by    *)
(* now, was left out of the signals of this round.                         *)
BrokerInv ==
    /\ BrokerTypeOK
    /\ todo \subseteq planned
    /\ bpc \in {"send_term", "send_kill"} =>
          victim \in todo /\ (~stirred => Verified /\ victim \in Last(todo))
    /\ bpc \in {"term", "send_term", "kill", "send_kill"} =>
          \A p \in planned \ (todo \cup sent) : life[p] \in {"none", "reused"}
    /\ result = "terminated" =>
          bpc = "done" /\ \A p \in planned : life[p] \notin {"up", "exiting"}

=============================================================================
