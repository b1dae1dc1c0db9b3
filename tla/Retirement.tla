----------------------------- MODULE Retirement -----------------------------
(***************************************************************************)
(* `install-release.py shared-retire`: deleting the decommissioned files a *)
(* canonical manifest lists, each only if it still holds the reviewed      *)
(* preimage.  A directory on the way may be swapped for a link to another  *)
(* tree, and the files may be written, at any step.                        *)
(***************************************************************************)
EXTENDS FiniteSets

CONSTANTS Retired,  \* the targets the manifest declares DELETE
          NULL

Tree == {"in", "out"}       \* the approved root, and whatever else
Dir == {"real", "link", "other"}    \* what the parent directory is now
Held == {"canon", "edit", "absent"}

VARIABLES
    dir, files,     \* the file system: files[tree][target]
    tpc, fence, captured, ttodo, taim,
    tlate           \* the aimed file or the directory changed since compared

retireVars == <<dir, files, tpc, fence, captured, ttodo, taim, tlate>>

RetireFinal == {"retired", "refused"}
RetireTypeOK ==
    /\ dir \in Dir /\ files \in [Tree -> [Retired -> Held]]
    /\ tpc \in {"check", "fence", "capture", "bound", "delete", "unlink"} \cup RetireFinal
    /\ fence \in Dir \cup {NULL} /\ captured \in [Retired -> Held]
    /\ ttodo \subseteq Retired /\ taim \in Retired \cup {NULL}
    /\ tlate \in BOOLEAN

RetireInit ==
    /\ dir \in {"real", "link"}
    /\ files \in [Tree -> [Retired -> Held]]
    /\ tpc = "check" /\ fence = NULL /\ captured = [l \in Retired |-> "absent"]
    /\ ttodo = Retired /\ taim = NULL /\ tlate = FALSE

(* Where a path under the directory leads. *)
Reached == IF dir = "real" THEN "in" ELSE "out"
Through(l) == files[Reached][l]

RetireGoto(ok, next) == tpc' = IF ok THEN next ELSE "refused"

RetireCheck ==
    /\ tpc = "check"
    /\ RetireGoto(dir # "link" /\ \A l \in Retired : Through(l) # "edit", "fence")
    /\ UNCHANGED <<dir, files, fence, captured, ttodo, taim, tlate>>

TakeFence ==
    /\ tpc = "fence"
    /\ fence' = dir
    /\ RetireGoto(dir # "link", "capture")
    /\ UNCHANGED <<dir, files, captured, ttodo, taim, tlate>>

CaptureAll ==
    /\ tpc = "capture"
    /\ captured' = [l \in Retired |-> Through(l)]
    /\ RetireGoto(\A l \in Retired : captured'[l] # "edit", "bound")
    /\ UNCHANGED <<dir, files, fence, ttodo, taim, tlate>>

AssertFence ==
    /\ tpc = "bound"
    /\ RetireGoto(dir = fence, "delete")
    /\ UNCHANGED <<dir, files, fence, captured, ttodo, taim, tlate>>

CompareOne ==
    /\ tpc = "delete"
    /\ \/ ttodo = {} /\ tpc' = "retired" /\ UNCHANGED <<ttodo, taim>>
       \/ \E l \in ttodo :
             \/ /\ Through(l) = "absent"
                /\ ttodo' = ttodo \ {l} /\ UNCHANGED <<tpc, taim>>
             \/ /\ Through(l) # "absent"
                /\ IF Through(l) = captured[l]
                   THEN tpc' = "unlink" /\ taim' = l
                   ELSE tpc' = "refused" /\ UNCHANGED taim
                /\ UNCHANGED ttodo
    /\ tlate' = FALSE
    /\ UNCHANGED <<dir, files, fence, captured>>

UnlinkOne ==
    /\ tpc = "unlink"
    /\ files' = [files EXCEPT ![Reached][taim] = "absent"]
    /\ ttodo' = ttodo \ {taim} /\ taim' = NULL /\ tpc' = "delete"
    /\ UNCHANGED <<dir, fence, captured, tlate>>

Write(tree, l) ==
    /\ \E c \in {"edit", "canon"} \ {files[tree][l]} :
          files' = [files EXCEPT ![tree][l] = c]
    /\ tlate' = (tlate \/ (taim = l /\ tree = Reached))
    /\ UNCHANGED <<dir, tpc, fence, captured, ttodo, taim>>

Swap ==
    /\ dir' \in Dir \ {dir}
    /\ tlate' = (tlate \/ taim # NULL)
    /\ UNCHANGED <<files, tpc, fence, captured, ttodo, taim>>

RetireNext ==
    \/ RetireCheck \/ TakeFence \/ CaptureAll \/ AssertFence
    \/ CompareOne \/ UnlinkOne \/ Swap
    \/ \E tree \in Tree, l \in Retired : Write(tree, l)

RetireSpec == RetireInit /\ [][RetireNext]_retireVars

----------------------------------------------------------------------------
(* Only the reviewed bytes are ever deleted, and only with a copy of them  *)
(* in the bundle, wherever a swapped directory makes the path lead; the    *)
(* window between the comparison and the unlink aside.                     *)
OnlyReviewedDeletedStep ==
    UnlinkOne /\ ~tlate =>
        Through(taim) = "canon" /\ captured[taim] = "canon"
OnlyReviewedDeleted == [][OnlyReviewedDeletedStep]_retireVars

(* The invariant of which it follows: no copy of an edit is in the bundle, *)
(* and a file about to go is the one compared, or something moved since.   *)
RetireInv ==
    /\ RetireTypeOK
    /\ tpc \in {"bound", "delete", "unlink"} => \A l \in Retired : captured[l] # "edit"
    /\ tpc = "unlink" =>
          /\ taim \in Retired
          /\ ~tlate => Through(taim) # "absent" /\ Through(taim) = captured[taim]

=============================================================================
