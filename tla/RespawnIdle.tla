---------------------------- MODULE RespawnIdle ----------------------------
(***************************************************************************)
(* A slot's agent is restarted with --continue: by an operator's call of   *)
(* the respawn route, by the ticker that calls it for a request persisted  *)
(* until the slot is idle, and by the health checker that finds a shell    *)
(* where an agent should be.  The route sends /exit under the slot's send  *)
(* lock, waits for the shell and sends the launch command; a mark tells    *)
(* the other two that it is at work.                                       *)
(***************************************************************************)
EXTENDS Naturals

CONSTANTS
    MaxRequests, MaxPrompts, MaxLaunches, MaxMoves, MaxRespawnCrash,  \* bounds
    MaxRespawns,    \* bound: requests and launches together
    NULL

Route == {"tick", "direct"}

VARIABLES
    slot,       \* its row: the epoch, the session of its hooks, the prompts it had, a turn open
    pane,       \* agent, exiting, shell, or booting: launched and still read as either
    request,    \* respawn_when_idle_<n> in the config table
    routes,     \* the two callers of the route
    sendLock,   \* the slot's send lock
    health,     \* a tick of the health checker
    mark,       \* pmInitiatedRespawns
    cooling,    \* lastRestart is within the cooldown
    asked, launches, moves, crashes,
    exits,      \* the /exit attempts of each request (history)
    quiet,      \* per route: no prompt since it was entered (history)
    forsaken    \* who launched stopped waiting for the boot (history)

respawnVars == <<slot, pane, request, routes, sendLock, health, mark, cooling, asked, launches,
                 moves, crashes, exits, quiet, forsaken>>

Slots == [epoch : 0 .. MaxMoves, session : 0 .. MaxMoves, prompts : 0 .. MaxPrompts, open : BOOLEAN]
Pins == [id : 0 .. MaxRequests, epoch : 0 .. MaxMoves, session : 0 .. MaxMoves]
Pending == [id : 1 .. MaxRequests, epoch : 0 .. MaxMoves, session : 0 .. MaxMoves,
            resumed : BOOLEAN, attempted : BOOLEAN]
RoutePc == {"off", "look", "busy", "entry", "deliver", "attempt", "paste", "enter", "exited",
            "launch", "boot"}

RespawnTypeOK ==
    /\ slot \in Slots /\ pane \in {"agent", "exiting", "shell", "booting"}
    /\ request \in Pending \cup {NULL}
    /\ \A r \in Route : /\ routes[r].pc \in RoutePc /\ routes[r].pin \in Pins
                        /\ routes[r].prompts \in 0 .. MaxPrompts /\ routes[r].marked \in BOOLEAN
    /\ sendLock \in Route \cup {NULL} /\ health \in {"off", "seen", "boot"}
    /\ mark \in BOOLEAN /\ cooling \in BOOLEAN /\ asked \in 0 .. MaxRequests
    /\ launches \in 0 .. MaxLaunches /\ moves \in 0 .. MaxMoves
    /\ slot.epoch <= moves /\ slot.session <= moves /\ crashes \in 0 .. MaxRespawnCrash
    /\ exits \in [1 .. MaxRequests -> Nat] /\ quiet \in [Route -> BOOLEAN] /\ forsaken \in BOOLEAN

NoRoute == [pc |-> "off", pin |-> [id |-> 0, epoch |-> 0, session |-> 0], prompts |-> 0, marked |-> FALSE]

RespawnInit ==
    /\ slot = [epoch |-> 0, session |-> 0, prompts |-> 0, open |-> FALSE] /\ pane = "agent"
    /\ request = NULL /\ routes = [r \in Route |-> NoRoute] /\ sendLock = NULL /\ health = "off"
    /\ mark = FALSE /\ cooling = FALSE /\ asked = 0 /\ launches = 0 /\ moves = 0 /\ crashes = 0
    /\ exits = [i \in 1 .. MaxRequests |-> 0] /\ quiet = [r \in Route |-> FALSE] /\ forsaken = FALSE

world == <<slot, pane, moves, launches, forsaken>>
counts == <<asked, crashes>>

-----------------------------------------------------------------------------
(* POST and DELETE of the request.  The second look at the table and the    *)
(* write follow the await at once.                                          *)
Schedule ==
    /\ request = NULL /\ asked < MaxRequests /\ asked + launches < MaxRespawns /\ asked' = asked + 1
    /\ request' = [id |-> asked', epoch |-> slot.epoch, session |-> slot.session,
                   resumed |-> FALSE, attempted |-> FALSE]
    /\ UNCHANGED <<world, routes, sendLock, health, mark, cooling, crashes, exits, quiet>>

Cancel ==
    /\ request # NULL /\ request' = NULL
    /\ UNCHANGED <<world, routes, sendLock, health, mark, cooling, counts, exits, quiet>>

Same(pin) == request # NULL /\ request.id = pin.id

(* requestFence: assignment and session are those of the schedule, or of    *)
(* the entry of a direct call; a request whose session has been restarted   *)
(* is satisfied, one that was attempted is not tried again.                 *)
Satisfied(pin) ==
    /\ pin.id # 0 /\ Same(pin) /\ slot.epoch = pin.epoch /\ slot.session = pin.session
    /\ request.resumed
Fence(pin, own) ==
    /\ pin.id # 0 => Same(pin) /\ ~request.resumed /\ (request.attempted => own)
    /\ slot.epoch = pin.epoch /\ slot.session = pin.session /\ ~slot.open

(* respawnWorkToken: the prompts themselves, a turn that came and went       *)
(* counts.  Wrong: only the open turn does.                                  *)
SameTurn(r) == ~slot.open
SameWork(r) == ~slot.open /\ slot.prompts = routes[r].prompts

Go(r, pc) == routes' = [routes EXCEPT ![r].pc = pc]

(* The ticker up to its call: the fence after each of two awaits. *)
Tick ==
    /\ routes["tick"].pc = "off" /\ request # NULL
    /\ routes' = [routes EXCEPT !["tick"] = [NoRoute EXCEPT !.pc = "look",
          !.pin = [id |-> request.id, epoch |-> request.epoch, session |-> request.session]]]
    /\ UNCHANGED <<world, request, sendLock, health, mark, cooling, counts, exits, quiet>>

TickLooked(pc, next) ==
    /\ routes["tick"].pc = pc
    /\ \/ Fence(routes["tick"].pin, FALSE) /\ Go("tick", next)
       \/ routes' = [routes EXCEPT !["tick"] = NoRoute]      \* the pane is not what it was, or busy
    /\ request' = IF Satisfied(routes["tick"].pin) THEN NULL ELSE request
    /\ Satisfied(routes["tick"].pin) => routes'["tick"] = NoRoute
    /\ UNCHANGED <<world, sendLock, health, mark, cooling, counts, exits, quiet>>

DirectCall ==
    /\ routes["direct"].pc = "off" /\ Go("direct", "entry")
    /\ UNCHANGED <<world, request, sendLock, health, mark, cooling, counts, exits, quiet>>

-----------------------------------------------------------------------------
(* How the answer of the route ends the ticker's request: a success clears  *)
(* it, a refusal before any effect leaves it, another failure clears it     *)
(* unless it was attempted.                                                 *)
Outcome(r, kind) ==
    /\ routes' = [routes EXCEPT ![r] = NoRoute]
    /\ quiet' = [quiet EXCEPT ![r] = FALSE]
    /\ sendLock' = (IF sendLock = r THEN NULL ELSE sendLock)
    /\ request' = IF r = "tick" /\ Same(routes[r].pin)
                     /\ (kind = "ok" \/ (kind = "failed" /\ ~request.attempted))
                  THEN NULL ELSE request

(* The end of a route that did not complete takes its own mark back. *)
Unmark(r) == mark' = (mark /\ ~routes[r].marked) /\ UNCHANGED cooling
NoMark == UNCHANGED <<mark, cooling>>

(* The entry: another respawn and an open turn refuse; the pins are taken.  *)
RouteEntered(r) ==
    /\ routes[r].pc = "entry"
    /\ \/ /\ ~mark /\ ~slot.open
          /\ routes' = [routes EXCEPT ![r] = [pc |-> "deliver", prompts |-> slot.prompts, marked |-> FALSE,
                 pin |-> IF r = "tick" THEN routes[r].pin
                         ELSE [id |-> 0, epoch |-> slot.epoch, session |-> slot.session]]]
          /\ quiet' = [quiet EXCEPT ![r] = TRUE] /\ UNCHANGED <<request, sendLock>>
       \/ Outcome(r, "retry")
    /\ NoMark /\ UNCHANGED <<world, health, counts, exits>>

(* Under the send lock: the fence before and after the looks at the pane.   *)
PaneLooked(r) ==
    /\ routes[r].pc = "deliver" /\ sendLock \in {NULL, r}
    /\ \/ /\ pane = "agent" /\ Fence(routes[r].pin, FALSE) /\ SameWork(r)
          /\ Go(r, "attempt") /\ sendLock' = r /\ UNCHANGED <<request, quiet>>
       \/ ~Satisfied(routes[r].pin) /\ Outcome(r, "retry")
       \/ Satisfied(routes[r].pin) /\ Outcome(r, "ok")
    /\ NoMark /\ UNCHANGED <<world, health, counts, exits>>

(* finalCheck before the first key, without an await: the fence, the mark   *)
(* and the attempt in the table.  Wrong: the table is written afterwards.   *)
UnrecordedAttempt == request
RecordedAttempt == IF request = NULL THEN NULL ELSE [request EXCEPT !.attempted = TRUE]

Attempt(r) ==
    /\ routes[r].pc = "attempt"
    /\ \/ /\ Fence(routes[r].pin, FALSE) /\ SameWork(r) /\ ~mark
          /\ mark' = TRUE
          /\ routes' = [routes EXCEPT ![r] = [pc |-> "paste", pin |-> @.pin, prompts |-> @.prompts, marked |-> TRUE]]
          /\ IF r = "tick"
             THEN request' = RecordedAttempt /\ exits' = [exits EXCEPT ![routes[r].pin.id] = @ + 1]
             ELSE UNCHANGED <<request, exits>>
          /\ UNCHANGED <<cooling, sendLock, quiet>>
       \/ /\ ~(Fence(routes[r].pin, FALSE) /\ SameWork(r) /\ ~mark) /\ ~Satisfied(routes[r].pin)
          /\ Outcome(r, "retry") /\ NoMark /\ UNCHANGED exits
       \/ Satisfied(routes[r].pin) /\ Outcome(r, "ok") /\ NoMark /\ UNCHANGED exits
    /\ UNCHANGED <<world, health, counts>>

(* The paste and the Enter, each behind the looks and the fence; from the   *)
(* first key on a refusal is an uncertain effect.                           *)
Paste(r) ==
    /\ routes[r].pc = "paste"
    /\ \/ /\ Fence(routes[r].pin, TRUE) /\ SameWork(r) /\ Go(r, "enter") /\ NoMark
          /\ UNCHANGED <<sendLock, request, quiet>>
       \/ Outcome(r, "failed") /\ Unmark(r)
    /\ UNCHANGED <<world, health, counts, exits>>

Enter(r) ==
    /\ routes[r].pc = "enter"
    /\ \/ /\ Fence(routes[r].pin, TRUE) /\ SameWork(r) /\ Go(r, "exited") /\ sendLock' = NULL
          /\ pane' = (IF pane = "agent" THEN "exiting" ELSE pane) /\ NoMark
          /\ UNCHANGED <<request, quiet>>
       \/ Outcome(r, "failed") /\ Unmark(r) /\ UNCHANGED pane
    /\ UNCHANGED <<slot, moves, launches, forsaken, health, counts, exits>>

(* Until the pane's command is a shell, or for twenty seconds. *)
ReadsShell == pane \in {"shell", "booting"}
ExitWaited(r) ==
    /\ routes[r].pc = "exited"
    /\ \/ ReadsShell /\ Go(r, "launch") /\ NoMark /\ UNCHANGED <<sendLock, request, quiet>>
       \/ Outcome(r, "failed") /\ Unmark(r)
    /\ UNCHANGED <<world, health, counts, exits>>

Typed ==
    /\ launches < MaxLaunches /\ asked + launches < MaxRespawns /\ launches' = launches + 1
    /\ pane' = (IF pane = "shell" THEN "booting" ELSE pane) /\ forsaken' = FALSE

(* The launch under the lock, with the shell and the owner looked at again. *)
Launch(r) ==
    /\ routes[r].pc = "launch" /\ sendLock = NULL
    /\ \/ /\ ReadsShell /\ slot.epoch = routes[r].pin.epoch /\ slot.session = routes[r].pin.session
          /\ SameWork(r) /\ Typed /\ Go(r, "boot") /\ NoMark /\ UNCHANGED <<sendLock, request, quiet>>
       \/ /\ ~(ReadsShell /\ slot.epoch = routes[r].pin.epoch
             /\ slot.session = routes[r].pin.session /\ SameWork(r))
          /\ Outcome(r, IF ReadsShell THEN "retry" ELSE "failed")
          /\ Unmark(r) /\ UNCHANGED <<launches, pane, forsaken>>
    /\ UNCHANGED <<slot, moves, health, counts, exits>>

(* completePmInitiatedRespawn: the cooldown begins before the mark goes.    *)
(* Wrong: it does not.                                                      *)
UncooledEnd == mark' = FALSE /\ UNCHANGED cooling
CompletedRespawn == mark' = FALSE /\ cooling' = TRUE

BootWaited(r) ==
    /\ routes[r].pc = "boot"
    /\ \/ pane \in {"booting", "agent"} /\ Outcome(r, "ok") /\ CompletedRespawn /\ UNCHANGED forsaken
       \/ Outcome(r, "failed") /\ Unmark(r) /\ forsaken' = TRUE
    /\ UNCHANGED <<slot, pane, moves, launches, health, counts, exits>>

-----------------------------------------------------------------------------
Suppressed == mark \/ cooling

(* checkAll: a shell where the agent should be, looked at again after the   *)
(* read; restartSlot looks once more before it types.                       *)
HealthSees ==
    /\ health = "off" /\ ~Suppressed /\ ReadsShell /\ health' = "seen"
    /\ UNCHANGED <<world, request, routes, sendLock, mark, cooling, counts, exits, quiet>>

HealthLaunches ==
    /\ health = "seen"
    /\ IF Suppressed THEN health' = "off" /\ UNCHANGED world
       ELSE health' = "boot" /\ Typed /\ UNCHANGED <<slot, moves>>
    /\ UNCHANGED <<request, routes, sendLock, mark, cooling, counts, exits, quiet>>

HealthWaited ==
    /\ health = "boot" /\ health' = "off" /\ cooling' = TRUE
    /\ forsaken' \in {forsaken, TRUE}
    /\ UNCHANGED <<slot, pane, moves, launches, request, routes, sendLock, mark, counts, exits, quiet>>

(* The cooldown of two minutes outlasts a boot that was seen to begin, and  *)
(* the lookups, of a few seconds each, between a look and a launch.         *)
CooldownEnds ==
    /\ cooling /\ (pane = "booting" => forsaken) /\ health # "seen" /\ cooling' = FALSE
    /\ UNCHANGED <<world, request, routes, sendLock, health, mark, counts, exits, quiet>>

-----------------------------------------------------------------------------
AgentExits ==
    /\ pane = "exiting" /\ pane' \in {"shell", "agent"}
    /\ UNCHANGED <<slot, moves, launches, forsaken, request, routes, sendLock, health, mark, cooling, counts, exits, quiet>>

(* The agent is up and its SessionStart arrives: the same session resumes.  *)
Boots ==
    /\ pane = "booting" /\ pane' = "agent"
    /\ request' = IF request # NULL /\ request.session = slot.session
                  THEN [request EXCEPT !.resumed = TRUE] ELSE request
    /\ UNCHANGED <<slot, moves, launches, forsaken, routes, sendLock, health, mark, cooling, counts, exits, quiet>>

(* An agent that dies on its own does so while no keys are being sent.      *)
AgentDies ==
    /\ pane = "agent" /\ sendLock = NULL /\ moves < MaxMoves /\ moves' = moves + 1
    /\ \A r \in Route : routes[r].pc \notin {"exited", "launch", "boot"}
    /\ pane' = "shell"
    /\ UNCHANGED <<slot, launches, forsaken, request, routes, sendLock, health, mark, cooling, counts, exits, quiet>>

Prompt ==
    /\ pane = "agent" /\ ~slot.open /\ slot.prompts < MaxPrompts
    /\ slot' = [epoch |-> slot.epoch, session |-> slot.session, prompts |-> slot.prompts + 1, open |-> TRUE]
    /\ quiet' = [r \in Route |-> FALSE]
    /\ UNCHANGED <<pane, moves, launches, forsaken, request, routes, sendLock, health, mark, cooling, counts, exits>>

Stop ==
    /\ slot.open /\ slot' = [slot EXCEPT !.open = FALSE]
    /\ UNCHANGED <<pane, moves, launches, forsaken, request, routes, sendLock, health, mark, cooling, counts, exits, quiet>>

(* A new owner, or a new session in the pane. *)
SlotMoves ==
    /\ moves < MaxMoves /\ moves' = moves + 1
    /\ \/ slot' = [slot EXCEPT !.epoch = @ + 1]
       \/ pane = "agent" /\ slot' = [slot EXCEPT !.session = @ + 1]
    /\ UNCHANGED <<pane, launches, forsaken, request, routes, sendLock, health, mark, cooling, counts, exits, quiet>>

(* What is in memory goes; the request stays. *)
Crash ==
    /\ crashes < MaxRespawnCrash /\ crashes' = crashes + 1
    /\ routes' = [r \in Route |-> NoRoute] /\ sendLock' = NULL /\ health' = "off"
    /\ mark' = FALSE /\ cooling' = FALSE /\ quiet' = [r \in Route |-> FALSE] /\ forsaken' = TRUE
    /\ UNCHANGED <<slot, pane, moves, launches, request, asked, exits>>

RespawnNext ==
    \/ Schedule \/ Cancel \/ Tick \/ TickLooked("look", "busy") \/ TickLooked("busy", "entry") \/ DirectCall
    \/ \E r \in Route : \/ RouteEntered(r) \/ PaneLooked(r) \/ Attempt(r) \/ Paste(r) \/ Enter(r)
                        \/ ExitWaited(r) \/ Launch(r) \/ BootWaited(r)
    \/ HealthSees \/ HealthLaunches \/ HealthWaited \/ CooldownEnds
    \/ AgentExits \/ Boots \/ AgentDies \/ Prompt \/ Stop \/ SlotMoves \/ Crash

RespawnSpec == RespawnInit /\ [][RespawnNext]_respawnVars

-----------------------------------------------------------------------------
(* Over crashes, ticks and cancellations /exit is attempted once for a      *)
(* request.                                                                 *)
ExitOnce == \A i \in 1 .. MaxRequests : exits[i] <= 1

(* The Enter of /exit never follows work that began after the route was     *)
(* entered, and a deferred one goes only to the assignment and session it   *)
(* was scheduled for, while its request stands.  A launch command is never  *)
(* typed over a boot somebody waits for.                                    *)
RestartIsDueStep ==
    /\ \A r \in Route : routes[r].pc = "enter" /\ routes'[r].pc = "exited" =>
          /\ quiet[r]
          /\ r = "tick" => /\ Same(routes[r].pin) /\ ~request.resumed
                           /\ slot.epoch = request.epoch /\ slot.session = request.session
    /\ launches' # launches => pane = "shell" \/ forsaken
RestartIsDue == [][RestartIsDueStep]_respawnVars

(* What the proofs of these two carry along.  Identities are given out once, *)
(* and a ticker's pin is that of a request; one route at most owns the mark, *)
(* and until it has sent the Enter it holds the lock, with the agent in the  *)
(* pane.                                                                     *)
AtWork == {"deliver", "attempt", "paste", "enter", "exited", "launch", "boot"}
Marked == {"paste", "enter", "exited", "launch", "boot"}
Unsent == {"attempt", "paste", "enter"}

Course == [pc : RoutePc, pin : [id : Nat, epoch : Nat, session : Nat], prompts : Nat, marked : BOOLEAN]

RespawnShape ==
    /\ slot \in [epoch : Nat, session : Nat, prompts : Nat, open : BOOLEAN]
    /\ request \in [id : Nat, epoch : Nat, session : Nat, resumed : BOOLEAN, attempted : BOOLEAN]
                    \cup {NULL}
    /\ routes \in [Route -> Course]
    /\ exits \in [1 .. MaxRequests -> Nat] /\ quiet \in [Route -> BOOLEAN]
    /\ asked \in 0 .. MaxRequests /\ launches \in Nat
    /\ mark \in BOOLEAN /\ cooling \in BOOLEAN /\ forsaken \in BOOLEAN

ExitsRecorded ==
    /\ \A i \in 1 .. MaxRequests : exits[i] <= 1 /\ (i > asked => exits[i] = 0)
    /\ request # NULL => /\ request.id = asked /\ asked > 0
                         /\ (exits[asked] = 1 => request.attempted)
    /\ routes["tick"].pin.id <= asked /\ (routes["tick"].pc # "off" => routes["tick"].pin.id > 0)
    /\ Same(routes["tick"].pin) => /\ routes["tick"].pin.epoch = request.epoch
                                   /\ routes["tick"].pin.session = request.session

QuietIsCounted ==
    \A r \in Route : routes[r].pc \in AtWork =>
        /\ routes[r].prompts <= slot.prompts
        /\ (routes[r].prompts = slot.prompts => quiet[r])

MarkIsOwned ==
    \A r \in Route :
        /\ routes[r].pc \in Marked =>
             /\ mark /\ routes[r].marked /\ \A q \in Route : routes[q].pc \in Marked => q = r
        /\ routes[r].marked => routes[r].pc \in Marked
        /\ routes[r].pc \in Unsent => sendLock = r /\ pane = "agent"
        /\ routes[r].pc \in {"exited", "launch"} => pane # "booting"

BootsAreAwaited ==
    /\ pane = "booting" => mark \/ cooling \/ forsaken \/ health = "boot"
    /\ health = "seen" =>
         \/ cooling \/ forsaken \/ \E r \in Route : routes[r].pc = "boot"
         \/ pane = "shell" /\ \A r \in Route : routes[r].pc \notin Marked

RespawnInv == RespawnShape /\ ExitsRecorded /\ QuietIsCounted /\ MarkIsOwned /\ BootsAreAwaited
=============================================================================
