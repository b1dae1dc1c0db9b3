--------------------------- MODULE ReleaseCutover ---------------------------
(***************************************************************************)
(* `install-release.py activate`: the cutover of the running service to a  *)
(* staged release and its recovery.  Two things change together: the       *)
(* symlink `current`, and the shared files that both releases install      *)
(* outside their own directories.  The service must never be started on    *)
(* the pointer of one release and the files of the other.                  *)
(*                                                                         *)
(* Operators and agents edit the shared files while this runs, others may  *)
(* move the pointer, and launchd may start or lose the service's child.    *)
(* Contents are abstract: a file holds the bytes (and mode) the old        *)
(* manifest lists, those the candidate lists, an edit, or nothing.         *)
(***************************************************************************)
EXTENDS Naturals

CONSTANTS
    Target,     \* shared files that both manifests list
    Same,       \* those of them the candidate leaves as they are
    Gone,       \* decommissioned mappings: in the old manifest, absent on disk
    Legacy,     \* files the inventory says to delete
    Edit,       \* what someone else may write into a file
    MaxEdits,   \* bound: writes by others
    NULL

File == Target \cup Gone \cup Legacy
Content == {"old", "new", "absent"} \cup Edit
Candidate(t) == IF t \in Same THEN "old" ELSE "new"

VARIABLES
    disk,       \* what each file holds
    current,    \* the release the symlink selects
    service,    \* the release the launchd child was started from, or "none"
    pc,
    aim,        \* the file compared last, which the next step replaces
    pre,        \* the pinned preimages of Target
    kept,       \* the rollback bundle of Legacy
    todo,       \* the files the present loop still has to visit
    written,    \* the targets this run replaced
    switched, returned,
    unseen,     \* files others wrote since the installer looked at all of them
    late,       \* files others wrote while the installer aimed at them
    edits

held == <<pre, kept>>
flags == <<switched, returned>>
others == <<late, edits>>
vars == <<disk, current, service, pc, aim, held, todo, written, flags,
          unseen, others>>

Final == {"refused", "activated", "restored", "blocked", "killed"}
Stage == {"plan", "capture", "check", "stop", "switch", "install", "rename",
          "undo", "undo_rename", "verify", "start", "health", "ready",
          "delete", "unlink", "recover", "r_check", "r_shared", "r_rename",
          "r_paired", "r_legacy", "r_switch", "r_recheck", "r_start",
          "r_health"}

CutoverTypeOK ==
    /\ disk \in [File -> Content]
    /\ current \in {"old", "new", "other"}
    /\ service \in {"none", "old", "new", "other"}
    /\ pc \in Stage \cup Final
    /\ aim \in File \cup {NULL}
    /\ pre \in [Target -> Content] /\ kept \in [Legacy -> Content]
    /\ todo \subseteq File /\ written \subseteq Target
    /\ switched \in BOOLEAN /\ returned \in BOOLEAN
    /\ unseen \subseteq File /\ late \subseteq File
    /\ edits \in 0 .. MaxEdits

CutoverInit ==
    /\ disk \in [File -> Content]
    /\ \A t \in Target : disk[t] # "absent"
    /\ \A g \in Gone : disk[g] \in {"absent"} \cup Edit
    /\ \A l \in Legacy : disk[l] \in {"old", "absent"}
    /\ current = "old" /\ service \in {"old", "none"}
    /\ pc = "plan" /\ aim = NULL
    /\ pre = [t \in Target |-> "absent"] /\ kept = [l \in Legacy |-> "absent"]
    /\ todo = {} /\ written = {}
    /\ switched = FALSE /\ returned = FALSE
    /\ unseen = {} /\ late = {} /\ edits = 0

----------------------------------------------------------------------------
(* What the installer asks of the disk.                                    *)

RetiredAbsent == \A g \in Gone : disk[g] = "absent"

Planned == {t \in Target : Candidate(t) # pre[t]}

(* Wrong: only what was replaced is compared again.                         *)
CapturedWritten == \A t \in Target : t \in written => disk[t] = Candidate(t)

(* A captured target still holds its pin or, once replaced, this run's write. *)
Captured == \A t \in Target :
    disk[t] = IF t \in written THEN Candidate(t) ELSE pre[t]

Pinned == \A t \in Target : disk[t] = pre[t]

(* The old manifest is the evidence for what is on disk.  Bytes that equal *)
(* the candidate's are taken only while a child of the service runs.       *)
Pinnable == \A t \in Target :
    \/ disk[t] = "old"
    \/ disk[t] = Candidate(t) /\ service # "none"

Goto(stage) == pc' = stage
Raise == pc' = IF pc \in {"plan", "capture", "check"} THEN "refused" ELSE "recover"
Block == pc' = "blocked"
Look(f) == aim' = f

----------------------------------------------------------------------------
(* Before anything changes.                                                *)

Plan ==
    /\ pc = "plan"
    /\ IF RetiredAbsent /\ Pinnable
       THEN pre' = [t \in Target |-> disk[t]] /\ Goto("capture")
       ELSE UNCHANGED pre /\ Raise
    /\ UNCHANGED <<disk, current, service, aim, kept, todo, written, flags,
                   unseen, others>>

Capture ==
    /\ pc = "capture"
    /\ kept' = [l \in Legacy |-> disk[l]]
    /\ IF Pinned /\ RetiredAbsent THEN Goto("check") ELSE Raise
    /\ UNCHANGED <<disk, current, service, aim, pre, todo, written, flags,
                   unseen, others>>

PreShutdown ==
    /\ pc = "check"
    /\ IF current = "old" /\ RetiredAbsent /\ Pinned THEN Goto("stop") ELSE Raise
    /\ UNCHANGED <<disk, current, service, aim, held, todo, written, flags,
                   unseen, others>>

----------------------------------------------------------------------------
(* launchd, as the installer sees it.  A probe may always come back        *)
(* unknown, and then nothing is started, stopped or restored on it.        *)

StopService(done, failed) ==
    \/ service' = "none" /\ pc' \in {done, failed}
    \/ service # "none" /\ UNCHANGED service /\ pc' = failed
    \/ UNCHANGED service /\ pc' = failed

StartService(done, failed) ==
    \/ service = "none" /\ service' = current /\ pc' \in {done, failed}
    \/ UNCHANGED service /\ pc' = failed

Healthy == service = current

Stop ==
    /\ pc = "stop"
    /\ StopService("switch", "recover")
    /\ UNCHANGED <<disk, current, aim, held, todo, written, flags, unseen, others>>

Switch ==
    /\ pc = "switch"
    /\ IF RetiredAbsent /\ current = "old"
       THEN /\ current' = "new" /\ switched' = TRUE
            /\ todo' = Planned /\ Goto("install")
       ELSE UNCHANGED <<current, switched, todo>> /\ Raise
    /\ UNCHANGED <<disk, service, aim, held, written, returned, unseen, others>>

----------------------------------------------------------------------------
(* install_one_shared_asset, once per planned file: compare, rename, read  *)
(* back; a failure after the rename puts the preimage back.                *)

InstallLook ==
    /\ pc = "install"
    /\ \/ /\ todo = {} /\ Goto("verify") /\ UNCHANGED aim
       \/ \E t \in todo :
             IF disk[t] = pre[t] THEN Look(t) /\ Goto("rename")
                                 ELSE UNCHANGED aim /\ Raise
    /\ UNCHANGED <<disk, current, service, held, todo, written, flags,
                   unseen, others>>

InstallRename ==
    /\ pc = "rename"
    /\ disk' = [disk EXCEPT ![aim] = Candidate(aim)]
    /\ late' = late \ {aim}
    /\ \/ /\ written' = written \cup {aim} /\ todo' = todo \ {aim}
          /\ Look(NULL) /\ Goto("install")
       \/ UNCHANGED <<written, todo, aim>> /\ Goto("undo")
    /\ UNCHANGED <<current, service, held, flags, unseen, edits>>

UndoLook ==
    /\ pc = "undo"
    /\ IF disk[aim] = Candidate(aim)
       THEN UNCHANGED aim /\ pc' \in {"undo_rename", "recover"}
       ELSE Look(NULL) /\ Raise
    /\ UNCHANGED <<disk, current, service, held, todo, written, flags,
                   unseen, others>>

UndoRename ==
    /\ pc = "undo_rename"
    /\ disk' = [disk EXCEPT ![aim] = pre[aim]]
    /\ late' = late \ {aim} /\ Look(NULL) /\ Raise
    /\ UNCHANGED <<current, service, held, todo, written, flags, unseen, edits>>

----------------------------------------------------------------------------
(* The new pair is verified, started and verified again; only then are the *)
(* legacy files deleted.                                                   *)

Verify ==
    /\ pc = "verify"
    /\ IF RetiredAbsent /\ Captured THEN unseen' = {} /\ Goto("start")
                                    ELSE UNCHANGED unseen /\ Raise
    /\ UNCHANGED <<disk, current, service, aim, held, todo, written, flags, others>>

Start ==
    /\ pc = "start"
    /\ StartService("health", "recover")
    /\ returned' = (pc' = "health")
    /\ UNCHANGED <<disk, current, aim, held, todo, written, switched, unseen, others>>

Health ==
    /\ pc = "health"
    /\ \/ Healthy /\ Goto("ready")
       \/ Raise
    /\ UNCHANGED <<disk, current, service, aim, held, todo, written, flags,
                   unseen, others>>

Ready ==
    /\ pc = "ready"
    /\ IF RetiredAbsent /\ Captured
       THEN unseen' = {} /\ todo' = Legacy /\ Goto("delete")
       ELSE UNCHANGED <<unseen, todo>> /\ Raise
    /\ UNCHANGED <<disk, current, service, aim, held, written, flags, others>>

DeleteLook ==
    /\ pc = "delete"
    /\ \/ todo = {} /\ Goto("activated") /\ UNCHANGED <<aim, todo>>
       \/ \E l \in todo :
             CASE disk[l] = "absent" -> todo' = todo \ {l} /\ UNCHANGED <<aim, pc>>
               [] disk[l] # "absent" /\ disk[l] = kept[l] ->
                     Look(l) /\ Goto("unlink") /\ UNCHANGED todo
               [] OTHER -> UNCHANGED <<aim, todo>> /\ Raise
    /\ UNCHANGED <<disk, current, service, held, written, flags, unseen, others>>

Unlink ==
    /\ pc = "unlink"
    /\ disk' = [disk EXCEPT ![aim] = "absent"]
    /\ todo' = todo \ {aim} /\ late' = late \ {aim}
    /\ Look(NULL) /\ Goto("delete")
    /\ UNCHANGED <<current, service, held, written, flags, unseen, edits>>

----------------------------------------------------------------------------
(* Recovery: the candidate is stopped first, files and pointer must both   *)
(* match the baseline, and only then is the old service started, once.     *)

Recover ==
    /\ pc = "recover"
    /\ IF returned
       THEN StopService("r_check", "blocked")
       ELSE /\ UNCHANGED service
            /\ \/ service = "none" /\ Goto("r_check")
               \/ Block
    /\ Look(NULL)
    /\ UNCHANGED <<disk, current, held, todo, written, flags, unseen, others>>

RecoverCheck ==
    /\ pc = "r_check"
    /\ IF /\ RetiredAbsent /\ current \in {"old", "new"}
          /\ \A t \in Planned : \/ disk[t] = pre[t]
                                \/ t \in written /\ disk[t] = Candidate(t)
       THEN Goto("r_shared") /\ todo' = written
       ELSE Block /\ UNCHANGED todo
    /\ UNCHANGED <<disk, current, service, aim, held, written, flags,
                   unseen, others>>

(* Only what still holds this run's write is put back. *)
RestoreShared ==
    /\ pc = "r_shared"
    /\ \/ todo = {} /\ Goto("r_paired") /\ UNCHANGED <<aim, todo>>
       \/ \E t \in todo :
             IF disk[t] = Candidate(t)
             THEN Look(t) /\ Goto("r_rename") /\ UNCHANGED todo
             ELSE todo' = todo \ {t} /\ UNCHANGED <<aim, pc>>
    /\ UNCHANGED <<disk, current, service, held, written, flags, unseen, others>>

RestoreRename ==
    /\ pc = "r_rename"
    /\ disk' = [disk EXCEPT ![aim] = pre[aim]]
    /\ todo' = todo \ {aim} /\ late' = late \ {aim} /\ Look(NULL)
    /\ pc' \in {"r_shared", "blocked"}
    /\ UNCHANGED <<current, service, held, written, flags, unseen, edits>>

RestorePaired ==
    /\ pc = "r_paired"
    /\ IF Pinned THEN Goto("r_legacy") /\ todo' = Legacy
                 ELSE Block /\ UNCHANGED todo
    /\ UNCHANGED <<disk, current, service, aim, held, written, flags,
                   unseen, others>>

(* The bundle of the legacy files is restored whatever they hold by now. *)
RestoreLegacy ==
    /\ pc = "r_legacy"
    /\ \/ todo = {} /\ Goto("r_switch") /\ UNCHANGED <<disk, todo>>
       \/ \E l \in todo : /\ disk' = [disk EXCEPT ![l] = kept[l]]
                          /\ todo' = todo \ {l}
                          /\ pc' \in {"r_legacy", "blocked"}
    /\ UNCHANGED <<current, service, aim, held, written, flags, unseen, others>>

RestoreSwitch ==
    /\ pc = "r_switch"
    /\ LET back == IF switched /\ current = "new" THEN "old" ELSE current
       IN IF switched => current = "new"
          THEN /\ current' = back
               /\ IF back # "old" THEN Block
                  ELSE IF returned THEN Goto("r_recheck")
                  ELSE \/ service = "none" /\ Goto("r_recheck")
                       \/ Block
          ELSE UNCHANGED current /\ Block
    /\ UNCHANGED <<disk, service, aim, held, todo, written, flags, unseen, others>>

RestoreRecheck ==
    /\ pc = "r_recheck"
    /\ IF RetiredAbsent /\ current = "old" /\ Pinned
       THEN unseen' = {} /\ Goto("r_start")
       ELSE UNCHANGED unseen /\ Block
    /\ UNCHANGED <<disk, current, service, aim, held, todo, written, flags, others>>

RestoreStart ==
    /\ pc = "r_start"
    /\ StartService("r_health", "blocked")
    /\ UNCHANGED <<disk, current, aim, held, todo, written, flags, unseen, others>>

RestoreHealth ==
    /\ pc = "r_health"
    /\ \/ Healthy /\ Goto("restored")
       \/ Block
    /\ UNCHANGED <<disk, current, service, aim, held, todo, written, flags,
                   unseen, others>>

----------------------------------------------------------------------------
(* Everyone else.                                                          *)

OthersEdit(f) ==
    /\ edits < MaxEdits
    /\ edits' = edits + 1
    /\ \E c \in Edit \cup {"absent"} :
          /\ c # disk[f]
          /\ disk' = [disk EXCEPT ![f] = c]
    /\ unseen' = unseen \cup {f}
    /\ late' = IF aim = f THEN late \cup {f} ELSE late
    /\ UNCHANGED <<current, service, pc, aim, held, todo, written, flags>>

OthersRepoint ==
    /\ edits < MaxEdits
    /\ edits' = edits + 1
    /\ current' \in {"old", "other"} \ {current}
    /\ UNCHANGED <<disk, service, pc, aim, held, todo, written, flags, unseen, late>>

ChildChanges ==
    /\ service' = IF service = "none" THEN current ELSE "none"
    /\ UNCHANGED <<disk, current, pc, aim, held, todo, written, flags,
                   unseen, others>>

Killed ==
    /\ pc \notin Final
    /\ Goto("killed")
    /\ UNCHANGED <<disk, current, service, aim, held, todo, written, flags,
                   unseen, others>>

Installer ==
    \/ Plan \/ Capture \/ PreShutdown \/ Stop \/ Switch
    \/ InstallLook \/ InstallRename \/ UndoLook \/ UndoRename
    \/ Verify \/ Start \/ Health \/ Ready \/ DeleteLook \/ Unlink
    \/ Recover \/ RecoverCheck \/ RestoreShared \/ RestoreRename
    \/ RestorePaired \/ RestoreLegacy \/ RestoreSwitch \/ RestoreRecheck
    \/ RestoreStart \/ RestoreHealth

CutoverNext ==
    \/ Installer \/ Killed \/ ChildChanges \/ OthersRepoint
    \/ \E f \in File : OthersEdit(f)

CutoverSpec == CutoverInit /\ [][CutoverNext]_vars

----------------------------------------------------------------------------
(* Properties.                                                             *)

(* The installer never boots a mixed pair: when it starts the service, on  *)
(* the way forward and in the recovery, every shared file that nobody      *)
(* touched since its last look belongs to the release it has selected: all *)
(* the candidate's when that is the candidate, and all the old ones        *)
(* ("never boot a mixed pair").                                            *)
Boots == pc \in {"start", "r_start"} /\ service = "none" /\ service' # "none" /\ pc' # pc
NoMixedPairStep ==
    Boots => \A t \in Target \ unseen :
        disk[t] = IF pc = "start" THEN Candidate(t) ELSE pre[t]
NoMixedPair == [][NoMixedPairStep]_vars

(* Fresh bytes are kept: a step of the installer that takes away what a    *)
(* shared file holds takes away its pin or this run's own write, unless    *)
(* the file was written between the last comparison and the rename.        *)
FreshBytesKeptStep ==
    Installer => \A t \in Target \ late :
        disk'[t] # disk[t] => disk[t] \in {pre[t], Candidate(t)}
FreshBytesKept == [][FreshBytesKeptStep]_vars

(* What the exit says is so: a refusal has changed nothing, an activation  *)
(* leaves every file the candidate's, and 'baseline restored' puts the     *)
(* pointer, the files and the legacy files back, others' writes aside.     *)
OutcomeTrueStep ==
    pc' # pc =>
      /\ pc' = "refused" => written = {} /\ ~switched
      /\ pc' = "activated" => /\ \A t \in Target \ unseen : disk[t] = Candidate(t)
                              /\ \A l \in Legacy \ unseen : disk[l] = "absent"
      /\ pc' = "restored" => \A t \in Target \ unseen : disk[t] = pre[t]
OutcomeTrue == [][OutcomeTrueStep]_vars

(* The invariant of which the three follow.  What each stage relies on: the *)
(* plan it works off, the file it aims at, and what the last look at all    *)
(* the files found, others' writes aside.                                   *)
CandidateStands == \A t \in Target \ unseen : disk[t] = Candidate(t)
BaselineStands == \A t \in Target \ unseen : disk[t] = pre[t]
AimHolds(content) == aim \notin late => disk[aim] = content

PlanKept ==
    /\ pc \in {"plan", "capture", "check", "stop", "switch"} => written = {} /\ ~switched
    /\ pc \in {"install", "rename"} => todo \cup written = Planned
    /\ pc \in {"verify", "start", "health", "ready", "delete", "unlink"} => written = Planned

AimKept ==
    /\ pc = "rename" => aim \in todo /\ aim \in Target /\ AimHolds(pre[aim])
    /\ pc \in {"undo", "undo_rename", "r_rename"} => aim \in Target /\ AimHolds(Candidate(aim))
    /\ pc \in {"r_shared", "r_rename"} => todo \subseteq Target
    /\ pc = "unlink" => aim \in Legacy
    /\ pc \in {"delete", "unlink", "r_legacy"} => todo \subseteq Legacy

LookKept ==
    /\ pc \in {"start", "health", "delete", "unlink"} => CandidateStands
    /\ pc \in {"delete", "unlink"} =>
          \A l \in Legacy : l \in unseen \cup todo \/ disk[l] = "absent"
    /\ pc \in {"r_start", "r_health"} => BaselineStands

CutoverInv == CutoverTypeOK /\ PlanKept /\ AimKept /\ LookKept

=============================================================================
