---------------------------- MODULE SharedAssets ----------------------------
(***************************************************************************)
(* The shared files of `install-release.py`, around the cutover: staging a *)
(* release (`stage`), the drift gate, the bulk installation with its       *)
(* backup and recovery (`shared-install`), and the way back for what was   *)
(* edited where it is deployed (`drift-check --sync-drift`).               *)
(*                                                                         *)
(* A source file of the repository may be deployed at several targets.     *)
(* Contents are abstract.  Editors write deployed files and the working    *)
(* tree at any moment; a run of the installer may die or fail at any step. *)
(***************************************************************************)
EXTENDS Naturals, FiniteSets

CONSTANTS
    Run,        \* runs of shared-install
    Source,     \* source files of the shared manifest
    Target,     \* where they are deployed
    Of,         \* the source of each target
    Bytes,      \* contents
    First,      \* what everything holds at the beginning
    MaxEdits,   \* bound: writes by editors
    NULL

VARIABLES
    disk,       \* deployed bytes, NULL when absent
    active,     \* what the manifest of the active release lists per source
    tree,       \* the working tree
    listed,     \* the digests in the working tree's manifest
    head,       \* committed bytes
    staged,     \* the release staged last, or NULL
    rpc, mine, allowed, backed, todo, wrote, raim,  \* per run; mine: its release
    spc, plan, seen, slist, stodo, saim,    \* the sync-back
    rlate,      \* per run: its target was written between compare and rename
    slate,      \* a receiver was written between compare and rename
    accepts,    \* the runs whose operator accepted the overwrite
    owner,      \* who wrote each target last: a run or NULL
    ever,       \* per source, the bytes that were ever committed
    edits

repo == <<tree, listed, head>>
run == <<rpc, mine, allowed, backed, todo, wrote, raim, accepts>>
sync == <<spc, plan, seen, slist, stodo, saim>>
sharedVars == <<disk, active, repo, staged, run, sync, rlate, slate, owner, ever, edits>>

Deployed == Bytes \cup {NULL}
RunStage == {"idle", "backup", "look", "rename", "undo", "undo_rename",
             "installed", "failed", "refused"}
SyncStage == {"idle", "look", "rename", "manifest", "proof",
              "synced", "mismatch", "refused"}

SharedTypeOK ==
    /\ disk \in [Target -> Deployed]
    /\ active \in [Source -> Bytes]
    /\ tree \in [Source -> Bytes] /\ listed \in [Source -> Bytes]
    /\ head \in [Source -> Bytes]
    /\ staged \in [Source -> Bytes] \cup {NULL}
    /\ mine \in [Run -> [Source -> Bytes] \cup {NULL}]
    /\ accepts \subseteq Run /\ owner \in [Target -> Run \cup {NULL}]
    /\ ever \in [Source -> SUBSET Bytes]
    /\ rpc \in [Run -> RunStage]
    /\ allowed \in [Run -> [Target -> SUBSET Deployed]]
    /\ backed \in [Run -> [Target -> Deployed]]
    /\ todo \in [Run -> SUBSET Target] /\ wrote \in [Run -> SUBSET Target]
    /\ raim \in [Run -> Target \cup {NULL}]
    /\ spc \in SyncStage
    /\ plan \in [Source -> Deployed] /\ seen \in [Source -> Deployed]
    /\ saim \in Source \cup {NULL} /\ stodo \subseteq Source
    /\ slist \in [Source -> Deployed]
    /\ rlate \in [Run -> BOOLEAN] /\ slate \in BOOLEAN
    /\ edits \in 0 .. MaxEdits

SharedInit ==
    /\ disk = [t \in Target |-> First]
    /\ active = [s \in Source |-> First]
    /\ tree = active /\ listed = active /\ head = active
    /\ staged = NULL
    /\ rpc = [r \in Run |-> "idle"] /\ mine = [r \in Run |-> NULL]
    /\ accepts = {} /\ owner = [t \in Target |-> NULL]
    /\ ever = [s \in Source |-> {First}]
    /\ allowed = [r \in Run |-> [t \in Target |-> {}]]
    /\ backed = [r \in Run |-> [t \in Target |-> NULL]]
    /\ todo = [r \in Run |-> {}] /\ wrote = [r \in Run |-> {}]
    /\ raim = [r \in Run |-> NULL]
    /\ spc = "idle" /\ saim = NULL
    /\ plan = [s \in Source |-> NULL] /\ seen = plan /\ slist = plan /\ stodo = {}
    /\ rlate = [r \in Run |-> FALSE] /\ slate = FALSE
    /\ edits = 0

----------------------------------------------------------------------------
(* The drift gate.  A deployed file may be absent, what the active release *)
(* installed, or what the candidate brings; an operator may accept a       *)
(* target by name.  Everything else is drift.                              *)

Permitted(t, candidate, accept) ==
    {NULL, active[Of[t]], candidate[Of[t]]}
        \cup (IF t \in accept THEN {disk[t]} ELSE {})

Drift(candidate, accept) ==
    {t \in Target : disk[t] \notin Permitted(t, candidate, accept)}

(* A manifest whose digests are not those of its files is refused. *)
Coherent == tree = listed

----------------------------------------------------------------------------
(* stage, and the cutover that makes the staged release the active one.    *)

Stage ==
    /\ tree = head /\ Coherent
    /\ Drift(listed, {}) = {}
    /\ staged' = head
    /\ UNCHANGED <<disk, active, repo, run, sync, rlate, slate, owner, ever, edits>>

Cutover ==
    /\ staged # NULL
    /\ \A t \in Target : disk[t] = staged[Of[t]]
    /\ active' = staged
    /\ UNCHANGED <<disk, repo, staged, run, sync, rlate, slate, owner, ever, edits>>

Commit ==
    /\ tree # head
    /\ head' = tree /\ listed' \in {listed, tree}
    /\ ever' = [s \in Source |-> ever[s] \cup {tree[s]}]
    /\ UNCHANGED <<disk, active, tree, staged, run, sync, rlate, slate, owner, edits>>

----------------------------------------------------------------------------
(* shared-install.                                                         *)

Gate(r) ==
    /\ rpc[r] = "idle" /\ staged # NULL
    /\ mine' = [mine EXCEPT ![r] = staged]
    /\ \E accept \in {{}, Target} :
          /\ accepts' = IF accept = {} THEN accepts ELSE accepts \cup {r}
          /\ allowed' = [allowed EXCEPT ![r] =
                            [t \in Target |-> Permitted(t, staged, accept)]]
          /\ rpc' = [rpc EXCEPT ![r] =
                        IF Drift(staged, accept) = {} THEN "backup" ELSE "refused"]
    /\ UNCHANGED <<disk, active, repo, staged, backed, todo, wrote, raim, sync,
                   rlate, slate, owner, ever, edits>>

Backup(r) ==
    /\ rpc[r] = "backup"
    /\ backed' = [backed EXCEPT ![r] = disk]
    /\ todo' = [todo EXCEPT ![r] = Target]
    /\ rpc' = [rpc EXCEPT ![r] = "look"]
    /\ UNCHANGED <<disk, active, repo, staged, mine, allowed, wrote, raim, accepts, sync,
                   rlate, slate, owner, ever, edits>>

(* Wrong: what the backup found counts as reviewed.                         *)
UnchangedSinceBackup(r, t) == disk[t] = backed[r][t]

(* The last look at the target before it is replaced. *)
Unchanged(r, t) ==
    /\ disk[t] = backed[r][t]
    /\ disk[t] \in allowed[r][t]

InstallLook(r) ==
    /\ rpc[r] = "look"
    /\ \/ /\ todo[r] = {}
          /\ rpc' = [rpc EXCEPT ![r] = "installed"]
          /\ UNCHANGED <<todo, raim>>
       \/ \E t \in todo[r] :
             IF Unchanged(r, t)
             THEN /\ raim' = [raim EXCEPT ![r] = t]
                  /\ rpc' = [rpc EXCEPT ![r] = "rename"]
                  /\ UNCHANGED todo
             ELSE /\ rpc' = [rpc EXCEPT ![r] = "undo"]
                  /\ todo' = [todo EXCEPT ![r] = wrote[r]]
                  /\ UNCHANGED raim
    /\ UNCHANGED <<disk, active, repo, staged, mine, allowed, backed, wrote, accepts, sync,
                   rlate, slate, owner, ever, edits>>

(* Wrong: the target of the failed step is not taken back.                  *)
UndoableBefore(r) == wrote[r]

(* A failure after the rename takes this target back as well.               *)
Undoable(r) == wrote[r] \cup {raim[r]}

InstallRename(r) ==
    /\ rpc[r] = "rename"
    /\ disk' = [disk EXCEPT ![raim[r]] = mine[r][Of[raim[r]]]]
    /\ wrote' = [wrote EXCEPT ![r] = @ \cup {raim[r]}]
    /\ \/ /\ rpc' = [rpc EXCEPT ![r] = "look"]
          /\ todo' = [todo EXCEPT ![r] = @ \ {raim[r]}]
       \/ /\ rpc' = [rpc EXCEPT ![r] = "undo"]
          /\ todo' = [todo EXCEPT ![r] = Undoable(r)]
    /\ raim' = [raim EXCEPT ![r] = NULL]
    /\ rlate' = [q \in Run |-> q # r /\ (rlate[q] \/ raim[q] = raim[r])]
    /\ owner' = [owner EXCEPT ![raim[r]] = r]
    /\ UNCHANGED <<active, repo, staged, mine, allowed, backed, accepts, sync, slate, ever, edits>>

(* Recovery: only what still holds this run's write is put back. *)
UndoLook(r) ==
    /\ rpc[r] = "undo"
    /\ \/ /\ todo[r] = {}
          /\ rpc' = [rpc EXCEPT ![r] = "failed"]
          /\ UNCHANGED <<todo, raim>>
       \/ \E t \in todo[r] :
             IF disk[t] = mine[r][Of[t]]
             THEN /\ raim' = [raim EXCEPT ![r] = t]
                  /\ rpc' = [rpc EXCEPT ![r] = "undo_rename"]
                  /\ UNCHANGED todo
             ELSE /\ todo' = [todo EXCEPT ![r] = @ \ {t}]
                  /\ UNCHANGED <<rpc, raim>>
    /\ UNCHANGED <<disk, active, repo, staged, mine, allowed, backed, wrote, accepts, sync,
                   rlate, slate, owner, ever, edits>>

UndoRename(r) ==
    /\ rpc[r] = "undo_rename"
    /\ disk' = [disk EXCEPT ![raim[r]] = backed[r][raim[r]]]
    /\ todo' = [todo EXCEPT ![r] = @ \ {raim[r]}]
    /\ rpc' = [rpc EXCEPT ![r] = "undo"]
    /\ raim' = [raim EXCEPT ![r] = NULL]
    /\ rlate' = [q \in Run |-> q # r /\ (rlate[q] \/ raim[q] = raim[r])]
    /\ owner' = [owner EXCEPT ![raim[r]] = r]
    /\ UNCHANGED <<active, repo, staged, mine, allowed, backed, wrote, accepts, sync, slate, ever, edits>>

----------------------------------------------------------------------------
(* drift-check --sync-drift: deployed edits go back to the working tree.   *)

Drifted == Drift(listed, {})

(* One deployed version per source, and a receiver that holds committed    *)
(* bytes or those that are being copied.                                   *)
Receivable(t) ==
    /\ disk[t] # NULL
    /\ \A u \in Drifted : Of[u] = Of[t] => disk[u] = disk[t]
    /\ tree[Of[t]] \in {disk[t], head[Of[t]]}

SyncPlan ==
    /\ spc = "idle" /\ Drifted # {}
    /\ IF \A t \in Drifted : Receivable(t)
       THEN /\ spc' = "look" /\ seen' = tree /\ slist' = listed
            /\ stodo' = {Of[t] : t \in Drifted}
            /\ plan' = [s \in Source |->
                  IF s \in stodo' THEN disk[CHOOSE t \in Drifted : Of[t] = s] ELSE NULL]
       ELSE spc' = "refused" /\ UNCHANGED <<plan, seen, slist, stodo>>
    /\ UNCHANGED <<disk, active, repo, staged, run, saim, rlate, slate, owner, ever, edits>>

SyncLook ==
    /\ spc = "look"
    /\ \/ stodo = {} /\ spc' = "manifest" /\ UNCHANGED saim
       \/ \E s \in stodo :
             IF tree[s] = seen[s] THEN saim' = s /\ spc' = "rename"
                                  ELSE UNCHANGED saim /\ spc' = "refused"
    /\ UNCHANGED <<disk, active, repo, staged, run, plan, seen, slist, stodo,
                   rlate, slate, owner, ever, edits>>

SyncRename ==
    /\ spc = "rename"
    /\ tree' = [tree EXCEPT ![saim] = plan[saim]]
    /\ stodo' = stodo \ {saim}
    /\ spc' = "look" /\ saim' = NULL /\ slate' = FALSE
    /\ UNCHANGED <<disk, active, listed, head, staged, run, plan, seen, slist,
                   rlate, owner, ever, edits>>

SyncManifest ==
    /\ spc = "manifest"
    /\ IF listed = slist
       THEN /\ listed' = [s \in Source |-> IF plan[s] # NULL THEN plan[s] ELSE listed[s]]
            /\ spc' = "proof"
       ELSE UNCHANGED listed /\ spc' = "refused"
    /\ UNCHANGED <<disk, active, tree, head, staged, run, plan, seen, slist, stodo,
                   saim, rlate, slate, owner, ever, edits>>

(* The proof after the write: source, manifest and every deployed copy. *)
SyncProof ==
    /\ spc = "proof"
    /\ spc' = IF \A s \in Source : plan[s] # NULL =>
                    /\ tree[s] = plan[s] /\ listed[s] = plan[s]
                    /\ \A t \in Drift(slist, {}) : Of[t] = s => disk[t] = plan[s]
              THEN "synced" ELSE "mismatch"
    /\ UNCHANGED <<disk, active, repo, staged, run, plan, seen, slist, stodo, saim,
                   rlate, slate, owner, ever, edits>>

----------------------------------------------------------------------------
(* Editors.                                                                *)

EditDeployed(t) ==
    /\ edits < MaxEdits /\ edits' = edits + 1
    /\ \E b \in Bytes \ {disk[t]} : disk' = [disk EXCEPT ![t] = b]
    /\ rlate' = [r \in Run |-> rlate[r] \/ raim[r] = t]
    /\ owner' = [owner EXCEPT ![t] = NULL]
    /\ UNCHANGED <<active, repo, staged, run, sync, slate, ever>>

EditTree(s) ==
    /\ edits < MaxEdits /\ edits' = edits + 1
    /\ \E b \in Bytes \ {tree[s]} : tree' = [tree EXCEPT ![s] = b]
    /\ slate' = (slate \/ saim = s)
    /\ UNCHANGED <<disk, active, listed, head, staged, run, sync, rlate, owner, ever>>

SharedNext ==
    \/ Stage \/ Cutover \/ Commit
    \/ \E r \in Run : Gate(r) \/ Backup(r) \/ InstallLook(r) \/ InstallRename(r)
                      \/ UndoLook(r) \/ UndoRename(r)
    \/ SyncPlan \/ SyncLook \/ SyncRename \/ SyncManifest \/ SyncProof
    \/ \E t \in Target : EditDeployed(t)
    \/ \E s \in Source : EditTree(s)

SharedSpec == SharedInit /\ [][SharedNext]_sharedVars

----------------------------------------------------------------------------
(* Properties.                                                             *)

(* No live edit is lost by an installation: bytes a run replaces were      *)
(* committed once, or are those an operator accepted and the run backed    *)
(* up.  A write between the last comparison and the rename is the window   *)
(* that remains.                                                           *)
LiveEditsKeptStep ==
    \A r \in Run : \A t \in Target :
      (InstallRename(r) \/ UndoRename(r)) /\ raim[r] = t /\ ~rlate[r] =>
          \/ disk[t] \in ever[Of[t]]
          \/ r \in accepts /\ disk[t] = backed[r][t]
LiveEditsKept == [][LiveEditsKeptStep]_sharedVars

(* A failed run leaves nothing of itself: what it wrote and nobody wrote   *)
(* again holds the bytes it found, though other runs and editors write the *)
(* same files.                                                             *)
FailedLeavesBackup ==
    \A r \in Run : rpc[r] = "failed" =>
        \A t \in Target : owner[t] = r => disk[t] = backed[r][t]

(* The sync-back never takes an uncommitted edit out of the working tree:  *)
(* it writes over committed bytes or over the same bytes.                  *)
TreeEditsKeptStep ==
    SyncRename /\ ~slate => tree[saim] \in {plan[saim]} \cup ever[saim]
TreeEditsKept == [][TreeEditsKeptStep]_sharedVars

----------------------------------------------------------------------------
(* The invariant of which they follow.                                     *)

(* What releases are made of was committed.                                *)
CommittedOnly ==
    /\ \A s \in Source : active[s] \in ever[s] /\ head[s] \in ever[s]
    /\ staged # NULL => \A s \in Source : staged[s] \in ever[s]
    /\ \A r \in Run : rpc[r] # "idle" =>
          mine[r] # NULL /\ \A s \in Source : mine[r][s] \in ever[s]

Writing == {"look", "rename", "undo", "undo_rename", "installed", "failed"}

(* A run replaces what it backed up and its gate allowed; its recovery     *)
(* replaces its own bytes, unless someone wrote after the last look.       *)
RunsLook ==
    \A r \in Run :
        /\ rpc[r] \in Writing => \A t \in Target : backed[r][t] \in Bytes
        /\ r \notin accepts => \A t \in Target : allowed[r][t] \subseteq ever[Of[t]] \cup {NULL}
        /\ rpc[r] \in {"rename", "undo_rename"} => raim[r] \in Target
        /\ rpc[r] \notin {"rename", "undo_rename"} => raim[r] = NULL
        /\ rpc[r] = "rename" /\ ~rlate[r] => Unchanged(r, raim[r])
        /\ rpc[r] = "undo_rename" /\ ~rlate[r] => disk[raim[r]] = mine[r][Of[raim[r]]]
        /\ rpc[r] = "failed" => todo[r] = {}

(* Whose write a target holds: until the recovery has put it back, the     *)
(* run knows that it wrote there, and the bytes are those of its release.  *)
OwnersKnow ==
    \A r \in Run : \A t \in Target : owner[t] = r =>
        /\ rpc[r] \in Writing
        /\ disk[t] # backed[r][t] => disk[t] = mine[r][Of[t]] /\ t \in wrote[r]
        /\ rpc[r] \in {"undo", "undo_rename", "failed"} /\ disk[t] # backed[r][t] => t \in todo[r]

(* The sync-back copies over what was committed or is the same.            *)
SyncLooks ==
    /\ spc = "rename" => saim \in stodo
    /\ spc \in {"look", "rename"} =>
          \A s \in stodo : plan[s] # NULL /\ seen[s] \in {plan[s]} \cup ever[s]
    /\ spc = "rename" /\ ~slate => tree[saim] = seen[saim]

SharedInv ==
    /\ SharedTypeOK /\ disk \in [Target -> Bytes]
    /\ CommittedOnly /\ RunsLook /\ OwnersKnow /\ SyncLooks

=============================================================================
