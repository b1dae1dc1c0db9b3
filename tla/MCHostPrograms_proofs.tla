------------------------ MODULE MCHostPrograms_proofs ------------------------
(* Proofs about the programs that look after the machine of the PM, for     *)
(* every value of their constants.  Each program is first shown to keep an  *)
(* invariant of its own (its module defines it); the theorems at the end    *)
(* put the programs together.                                               *)
EXTENDS MCHostPrograms, TLAPS, SequenceTheorems, WellFoundedInduction, Integers

-----------------------------------------------------------------------------
(* The cutover of a release (ReleaseCutover).                               *)

(* Before anything changes.                                                 *)

LEMMA CutPlan == ASSUME RC!CutoverInv, RC!Plan PROVE RC!CutoverInv'
<1>1. RC!CutoverTypeOK'
  BY DEF RC!Plan, RC!Raise, RC!Goto, RC!flags, RC!others, RC!CutoverInv, RC!CutoverTypeOK, RC!Stage, RC!Final,
     RC!File
<1>2. RC!PlanKept'
  BY DEF RC!Plan, RC!Raise, RC!Goto, RC!flags, RC!others, RC!CutoverInv, RC!PlanKept
<1>3. RC!AimKept'
  BY DEF RC!Plan, RC!Raise, RC!Goto, RC!flags, RC!others, RC!AimKept
<1>4. RC!LookKept'
  BY DEF RC!Plan, RC!Raise, RC!Goto, RC!flags, RC!others, RC!LookKept
<1> QED BY <1>1, <1>2, <1>3, <1>4 DEF RC!CutoverInv

LEMMA CutCapture == ASSUME RC!CutoverInv, RC!Capture PROVE RC!CutoverInv'
<1>1. RC!CutoverTypeOK'
  BY DEF RC!Capture, RC!Raise, RC!Goto, RC!flags, RC!others, RC!CutoverInv, RC!CutoverTypeOK, RC!Stage,
     RC!Final, RC!File
<1>2. RC!PlanKept'
  BY DEF RC!Capture, RC!Raise, RC!Goto, RC!flags, RC!others, RC!CutoverInv, RC!PlanKept
<1>3. RC!AimKept'
  BY DEF RC!Capture, RC!Raise, RC!Goto, RC!flags, RC!others, RC!AimKept
<1>4. RC!LookKept'
  BY DEF RC!Capture, RC!Raise, RC!Goto, RC!flags, RC!others, RC!LookKept
<1> QED BY <1>1, <1>2, <1>3, <1>4 DEF RC!CutoverInv

LEMMA CutPreShutdown == ASSUME RC!CutoverInv, RC!PreShutdown PROVE RC!CutoverInv'
<1>1. RC!CutoverTypeOK'
  BY DEF RC!PreShutdown, RC!Raise, RC!Goto, RC!held, RC!flags, RC!others, RC!CutoverInv, RC!CutoverTypeOK,
     RC!Stage, RC!Final
<1>2. RC!PlanKept'
  BY DEF RC!PreShutdown, RC!Raise, RC!Goto, RC!held, RC!flags, RC!others, RC!CutoverInv, RC!PlanKept
<1>3. RC!AimKept'
  BY DEF RC!PreShutdown, RC!Raise, RC!Goto, RC!held, RC!flags, RC!others, RC!AimKept
<1>4. RC!LookKept'
  BY DEF RC!PreShutdown, RC!Raise, RC!Goto, RC!held, RC!flags, RC!others, RC!LookKept
<1> QED BY <1>1, <1>2, <1>3, <1>4 DEF RC!CutoverInv

(* The switch and the installation of what is planned.                      *)

LEMMA CutStop == ASSUME RC!CutoverInv, RC!Stop PROVE RC!CutoverInv'
<1>1. RC!CutoverTypeOK'
  BY DEF RC!Stop, RC!StopService, RC!held, RC!flags, RC!others, RC!CutoverInv, RC!CutoverTypeOK, RC!Stage
<1>2. RC!PlanKept'
  BY DEF RC!Stop, RC!StopService, RC!held, RC!flags, RC!others, RC!CutoverInv, RC!PlanKept
<1>3. RC!AimKept'
  BY DEF RC!Stop, RC!StopService, RC!held, RC!flags, RC!others, RC!AimKept
<1>4. RC!LookKept'
  BY DEF RC!Stop, RC!StopService, RC!held, RC!flags, RC!others, RC!LookKept
<1> QED BY <1>1, <1>2, <1>3, <1>4 DEF RC!CutoverInv

LEMMA CutSwitch == ASSUME RC!CutoverInv, RC!Switch PROVE RC!CutoverInv'
<1>1. RC!CutoverTypeOK'
  BY CutAssumption DEF RC!Switch, RC!Raise, RC!Goto, RC!held, RC!others, RC!CutoverInv, RC!CutoverTypeOK,
     RC!Stage, RC!Final, RC!File, RC!Content, RC!Candidate, RC!Planned, RC!AimKept
<1>2. RC!PlanKept'
  BY DEF RC!Switch, RC!Raise, RC!Goto, RC!held, RC!others, RC!CutoverInv, RC!PlanKept, RC!Planned
<1>3. RC!AimKept'
  BY DEF RC!Switch, RC!Raise, RC!Goto, RC!held, RC!others, RC!AimKept
<1>4. RC!LookKept'
  BY DEF RC!Switch, RC!Raise, RC!Goto, RC!held, RC!others, RC!LookKept
<1> QED BY <1>1, <1>2, <1>3, <1>4 DEF RC!CutoverInv

LEMMA CutInstallLook == ASSUME RC!CutoverInv, RC!InstallLook PROVE RC!CutoverInv'
<1>1. RC!CutoverTypeOK'
  BY DEF RC!InstallLook, RC!Raise, RC!Goto, RC!Look, RC!held, RC!flags, RC!others, RC!CutoverInv,
     RC!CutoverTypeOK, RC!Stage
<1>2. RC!PlanKept'
  BY DEF RC!InstallLook, RC!Raise, RC!Goto, RC!Look, RC!held, RC!flags, RC!others, RC!CutoverInv, RC!PlanKept,
     RC!Planned
<1>3. RC!AimKept'
  BY DEF RC!InstallLook, RC!Raise, RC!Goto, RC!Look, RC!held, RC!flags, RC!others, RC!CutoverInv, RC!PlanKept,
     RC!AimKept, RC!AimHolds, RC!Planned
<1>4. RC!LookKept'
  BY DEF RC!InstallLook, RC!Raise, RC!Goto, RC!Look, RC!held, RC!flags, RC!others, RC!LookKept
<1> QED BY <1>1, <1>2, <1>3, <1>4 DEF RC!CutoverInv

LEMMA CutInstallRename == ASSUME RC!CutoverInv, RC!InstallRename PROVE RC!CutoverInv'
<1>1. RC!CutoverTypeOK'
  BY DEF RC!InstallRename, RC!Goto, RC!Look, RC!held, RC!flags, RC!CutoverInv, RC!CutoverTypeOK, RC!Stage,
     RC!Content, RC!Candidate, RC!AimKept
<1>2. RC!PlanKept'
  BY DEF RC!InstallRename, RC!Goto, RC!Look, RC!held, RC!flags, RC!CutoverInv, RC!PlanKept, RC!Planned,
     RC!AimKept
<1>3. RC!AimKept'
  BY DEF RC!InstallRename, RC!Goto, RC!Look, RC!held, RC!flags, RC!CutoverInv, RC!CutoverTypeOK, RC!AimKept,
     RC!AimHolds
<1>4. RC!LookKept'
  BY DEF RC!InstallRename, RC!Goto, RC!Look, RC!held, RC!flags, RC!LookKept
<1> QED BY <1>1, <1>2, <1>3, <1>4 DEF RC!CutoverInv

LEMMA CutUndoLook == ASSUME RC!CutoverInv, RC!UndoLook PROVE RC!CutoverInv'
<1>1. RC!CutoverTypeOK'
  BY DEF RC!UndoLook, RC!Raise, RC!Look, RC!held, RC!flags, RC!others, RC!CutoverInv, RC!CutoverTypeOK, RC!Stage
<1>2. RC!PlanKept'
  BY DEF RC!UndoLook, RC!Raise, RC!Look, RC!held, RC!flags, RC!others, RC!PlanKept
<1>3. RC!AimKept'
  BY DEF RC!UndoLook, RC!Raise, RC!Look, RC!held, RC!flags, RC!others, RC!CutoverInv, RC!AimKept, RC!AimHolds
<1>4. RC!LookKept'
  BY DEF RC!UndoLook, RC!Raise, RC!Look, RC!held, RC!flags, RC!others, RC!LookKept
<1> QED BY <1>1, <1>2, <1>3, <1>4 DEF RC!CutoverInv

LEMMA CutUndoRename == ASSUME RC!CutoverInv, RC!UndoRename PROVE RC!CutoverInv'
<1>1. RC!CutoverTypeOK'
  BY DEF RC!UndoRename, RC!Raise, RC!Look, RC!held, RC!flags, RC!CutoverInv, RC!CutoverTypeOK, RC!Stage,
     RC!File, RC!AimKept
<1>2. RC!PlanKept'
  BY DEF RC!UndoRename, RC!Raise, RC!Look, RC!held, RC!flags, RC!PlanKept
<1>3. RC!AimKept'
  BY DEF RC!UndoRename, RC!Raise, RC!Look, RC!held, RC!flags, RC!AimKept
<1>4. RC!LookKept'
  BY DEF RC!UndoRename, RC!Raise, RC!Look, RC!held, RC!flags, RC!LookKept
<1> QED BY <1>1, <1>2, <1>3, <1>4 DEF RC!CutoverInv

(* The start, and the deletion of what the inventory names.                  *)

LEMMA CutVerify == ASSUME RC!CutoverInv, RC!Verify PROVE RC!CutoverInv'
<1>1. RC!CutoverTypeOK'
  BY DEF RC!Verify, RC!Raise, RC!Goto, RC!held, RC!flags, RC!others, RC!CutoverInv, RC!CutoverTypeOK, RC!Stage
<1>2. RC!PlanKept'
  BY DEF RC!Verify, RC!Raise, RC!Goto, RC!held, RC!flags, RC!others, RC!CutoverInv, RC!PlanKept, RC!Planned
<1>3. RC!AimKept'
  BY DEF RC!Verify, RC!Raise, RC!Goto, RC!held, RC!flags, RC!others, RC!AimKept
<1>4. RC!LookKept'
  BY DEF RC!Verify, RC!Raise, RC!Goto, RC!held, RC!flags, RC!others, RC!CutoverInv, RC!PlanKept, RC!LookKept,
     RC!CandidateStands, RC!Captured, RC!Planned
<1> QED BY <1>1, <1>2, <1>3, <1>4 DEF RC!CutoverInv

LEMMA CutStart == ASSUME RC!CutoverInv, RC!Start PROVE RC!CutoverInv'
<1>1. RC!CutoverTypeOK'
  BY DEF RC!Start, RC!StartService, RC!held, RC!others, RC!CutoverInv, RC!CutoverTypeOK, RC!Stage
<1>2. RC!PlanKept'
  BY DEF RC!Start, RC!StartService, RC!held, RC!others, RC!CutoverInv, RC!PlanKept, RC!Planned
<1>3. RC!AimKept'
  BY DEF RC!Start, RC!StartService, RC!held, RC!others, RC!AimKept
<1>4. RC!LookKept'
  BY DEF RC!Start, RC!StartService, RC!held, RC!others, RC!CutoverInv, RC!LookKept, RC!CandidateStands
<1> QED BY <1>1, <1>2, <1>3, <1>4 DEF RC!CutoverInv

LEMMA CutHealth == ASSUME RC!CutoverInv, RC!Health PROVE RC!CutoverInv'
<1>1. RC!CutoverTypeOK'
  BY DEF RC!Health, RC!Raise, RC!Goto, RC!held, RC!flags, RC!others, RC!CutoverInv, RC!CutoverTypeOK, RC!Stage
<1>2. RC!PlanKept'
  BY DEF RC!Health, RC!Raise, RC!Goto, RC!held, RC!flags, RC!others, RC!CutoverInv, RC!PlanKept, RC!Planned
<1>3. RC!AimKept'
  BY DEF RC!Health, RC!Raise, RC!Goto, RC!held, RC!flags, RC!others, RC!AimKept
<1>4. RC!LookKept'
  BY DEF RC!Health, RC!Raise, RC!Goto, RC!held, RC!flags, RC!others, RC!LookKept
<1> QED BY <1>1, <1>2, <1>3, <1>4 DEF RC!CutoverInv

LEMMA CutReady == ASSUME RC!CutoverInv, RC!Ready PROVE RC!CutoverInv'
<1>1. RC!CutoverTypeOK'
  BY DEF RC!Ready, RC!Raise, RC!Goto, RC!held, RC!flags, RC!others, RC!CutoverInv, RC!CutoverTypeOK, RC!Stage,
     RC!File
<1>2. RC!PlanKept'
  BY DEF RC!Ready, RC!Raise, RC!Goto, RC!held, RC!flags, RC!others, RC!CutoverInv, RC!PlanKept, RC!Planned
<1>3. RC!AimKept'
  BY DEF RC!Ready, RC!Raise, RC!Goto, RC!held, RC!flags, RC!others, RC!AimKept
<1>4. RC!LookKept'
  BY DEF RC!Ready, RC!Raise, RC!Goto, RC!held, RC!flags, RC!others, RC!CutoverInv, RC!PlanKept, RC!LookKept,
     RC!CandidateStands, RC!Captured, RC!Planned
<1> QED BY <1>1, <1>2, <1>3, <1>4 DEF RC!CutoverInv

LEMMA CutDeleteLook == ASSUME RC!CutoverInv, RC!DeleteLook PROVE RC!CutoverInv'
<1>1. RC!CutoverTypeOK'
  BY DEF RC!DeleteLook, RC!Raise, RC!Goto, RC!Look, RC!held, RC!flags, RC!others, RC!CutoverInv,
     RC!CutoverTypeOK, RC!Stage, RC!Final
<1>2. RC!PlanKept'
  BY DEF RC!DeleteLook, RC!Raise, RC!Goto, RC!Look, RC!held, RC!flags, RC!others, RC!CutoverInv, RC!PlanKept,
     RC!Planned
<1>3. RC!AimKept'
  BY DEF RC!DeleteLook, RC!Raise, RC!Goto, RC!Look, RC!held, RC!flags, RC!others, RC!CutoverInv, RC!AimKept
<1>4. RC!LookKept'
  BY DEF RC!DeleteLook, RC!Raise, RC!Goto, RC!Look, RC!held, RC!flags, RC!others, RC!CutoverInv, RC!LookKept,
     RC!CandidateStands
<1> QED BY <1>1, <1>2, <1>3, <1>4 DEF RC!CutoverInv

LEMMA CutUnlink == ASSUME RC!CutoverInv, RC!Unlink PROVE RC!CutoverInv'
<1>1. RC!CutoverTypeOK'
  BY DEF RC!Unlink, RC!Goto, RC!Look, RC!held, RC!flags, RC!CutoverInv, RC!CutoverTypeOK, RC!Stage, RC!File,
     RC!Content, RC!AimKept
<1>2. RC!PlanKept'
  BY DEF RC!Unlink, RC!Goto, RC!Look, RC!held, RC!flags, RC!CutoverInv, RC!PlanKept, RC!Planned
<1>3. RC!AimKept'
  BY DEF RC!Unlink, RC!Goto, RC!Look, RC!held, RC!flags, RC!CutoverInv, RC!AimKept
<1>4. RC!LookKept'
  BY CutAssumption DEF RC!Unlink, RC!Goto, RC!Look, RC!held, RC!flags, RC!CutoverInv, RC!CutoverTypeOK,
     RC!AimKept, RC!LookKept, RC!CandidateStands
<1> QED BY <1>1, <1>2, <1>3, <1>4 DEF RC!CutoverInv

(* The recovery.                                                            *)

LEMMA CutRecover == ASSUME RC!CutoverInv, RC!Recover PROVE RC!CutoverInv'
<1>1. RC!CutoverTypeOK'
  BY DEF RC!Recover, RC!Block, RC!Goto, RC!Look, RC!StopService, RC!held, RC!flags, RC!others, RC!CutoverInv,
     RC!CutoverTypeOK, RC!Stage, RC!Final
<1>2. RC!PlanKept'
  BY DEF RC!Recover, RC!Block, RC!Goto, RC!Look, RC!StopService, RC!held, RC!flags, RC!others, RC!PlanKept
<1>3. RC!AimKept'
  BY DEF RC!Recover, RC!Block, RC!Goto, RC!Look, RC!StopService, RC!held, RC!flags, RC!others, RC!AimKept
<1>4. RC!LookKept'
  BY DEF RC!Recover, RC!Block, RC!Goto, RC!Look, RC!StopService, RC!held, RC!flags, RC!others, RC!LookKept
<1> QED BY <1>1, <1>2, <1>3, <1>4 DEF RC!CutoverInv

LEMMA CutRecoverCheck == ASSUME RC!CutoverInv, RC!RecoverCheck PROVE RC!CutoverInv'
<1>1. RC!CutoverTypeOK'
  BY DEF RC!RecoverCheck, RC!Block, RC!Goto, RC!held, RC!flags, RC!others, RC!CutoverInv, RC!CutoverTypeOK,
     RC!Stage, RC!Final, RC!File
<1>2. RC!PlanKept'
  BY DEF RC!RecoverCheck, RC!Block, RC!Goto, RC!held, RC!flags, RC!others, RC!PlanKept
<1>3. RC!AimKept'
  BY DEF RC!RecoverCheck, RC!Block, RC!Goto, RC!held, RC!flags, RC!others, RC!CutoverInv, RC!CutoverTypeOK,
     RC!AimKept
<1>4. RC!LookKept'
  BY DEF RC!RecoverCheck, RC!Block, RC!Goto, RC!held, RC!flags, RC!others, RC!LookKept
<1> QED BY <1>1, <1>2, <1>3, <1>4 DEF RC!CutoverInv

LEMMA CutRestoreShared == ASSUME RC!CutoverInv, RC!RestoreShared PROVE RC!CutoverInv'
<1>1. RC!CutoverTypeOK'
  BY DEF RC!RestoreShared, RC!Goto, RC!Look, RC!held, RC!flags, RC!others, RC!CutoverInv, RC!CutoverTypeOK,
     RC!Stage
<1>2. RC!PlanKept'
  BY DEF RC!RestoreShared, RC!Goto, RC!Look, RC!held, RC!flags, RC!others, RC!PlanKept
<1>3. RC!AimKept'
  BY DEF RC!RestoreShared, RC!Goto, RC!Look, RC!held, RC!flags, RC!others, RC!CutoverInv, RC!AimKept,
     RC!AimHolds
<1>4. RC!LookKept'
  BY DEF RC!RestoreShared, RC!Goto, RC!Look, RC!held, RC!flags, RC!others, RC!LookKept
<1> QED BY <1>1, <1>2, <1>3, <1>4 DEF RC!CutoverInv

LEMMA CutRestoreRename == ASSUME RC!CutoverInv, RC!RestoreRename PROVE RC!CutoverInv'
<1>1. RC!CutoverTypeOK'
  BY DEF RC!RestoreRename, RC!Look, RC!held, RC!flags, RC!CutoverInv, RC!CutoverTypeOK, RC!Stage, RC!Final,
     RC!File, RC!AimKept
<1>2. RC!PlanKept'
  BY DEF RC!RestoreRename, RC!Look, RC!held, RC!flags, RC!PlanKept
<1>3. RC!AimKept'
  BY DEF RC!RestoreRename, RC!Look, RC!held, RC!flags, RC!CutoverInv, RC!AimKept
<1>4. RC!LookKept'
  BY DEF RC!RestoreRename, RC!Look, RC!held, RC!flags, RC!LookKept
<1> QED BY <1>1, <1>2, <1>3, <1>4 DEF RC!CutoverInv

LEMMA CutRestorePaired == ASSUME RC!CutoverInv, RC!RestorePaired PROVE RC!CutoverInv'
<1>1. RC!CutoverTypeOK'
  BY DEF RC!RestorePaired, RC!Block, RC!Goto, RC!held, RC!flags, RC!others, RC!CutoverInv, RC!CutoverTypeOK,
     RC!Stage, RC!Final, RC!File
<1>2. RC!PlanKept'
  BY DEF RC!RestorePaired, RC!Block, RC!Goto, RC!held, RC!flags, RC!others, RC!PlanKept
<1>3. RC!AimKept'
  BY DEF RC!RestorePaired, RC!Block, RC!Goto, RC!held, RC!flags, RC!others, RC!AimKept
<1>4. RC!LookKept'
  BY DEF RC!RestorePaired, RC!Block, RC!Goto, RC!held, RC!flags, RC!others, RC!LookKept
<1> QED BY <1>1, <1>2, <1>3, <1>4 DEF RC!CutoverInv

LEMMA CutRestoreLegacy == ASSUME RC!CutoverInv, RC!RestoreLegacy PROVE RC!CutoverInv'
<1>1. RC!CutoverTypeOK'
  BY DEF RC!RestoreLegacy, RC!Goto, RC!held, RC!flags, RC!others, RC!CutoverInv, RC!CutoverTypeOK, RC!Stage,
     RC!Final, RC!AimKept
<1>2. RC!PlanKept'
  BY DEF RC!RestoreLegacy, RC!Goto, RC!held, RC!flags, RC!others, RC!PlanKept
<1>3. RC!AimKept'
  BY DEF RC!RestoreLegacy, RC!Goto, RC!held, RC!flags, RC!others, RC!CutoverInv, RC!AimKept
<1>4. RC!LookKept'
  BY DEF RC!RestoreLegacy, RC!Goto, RC!held, RC!flags, RC!others, RC!LookKept
<1> QED BY <1>1, <1>2, <1>3, <1>4 DEF RC!CutoverInv

LEMMA CutRestoreSwitch == ASSUME RC!CutoverInv, RC!RestoreSwitch PROVE RC!CutoverInv'
<1>1. RC!CutoverTypeOK'
  BY DEF RC!RestoreSwitch, RC!Block, RC!Goto, RC!held, RC!flags, RC!others, RC!CutoverInv, RC!CutoverTypeOK,
     RC!Stage, RC!Final
<1>2. RC!PlanKept'
  BY DEF RC!RestoreSwitch, RC!Block, RC!Goto, RC!held, RC!flags, RC!others, RC!PlanKept
<1>3. RC!AimKept'
  BY DEF RC!RestoreSwitch, RC!Block, RC!Goto, RC!held, RC!flags, RC!others, RC!AimKept
<1>4. RC!LookKept'
  BY DEF RC!RestoreSwitch, RC!Block, RC!Goto, RC!held, RC!flags, RC!others, RC!LookKept
<1> QED BY <1>1, <1>2, <1>3, <1>4 DEF RC!CutoverInv

LEMMA CutRestoreRecheck == ASSUME RC!CutoverInv, RC!RestoreRecheck PROVE RC!CutoverInv'
<1>1. RC!CutoverTypeOK'
  BY DEF RC!RestoreRecheck, RC!Block, RC!Goto, RC!held, RC!flags, RC!others, RC!CutoverInv, RC!CutoverTypeOK,
     RC!Stage, RC!Final
<1>2. RC!PlanKept'
  BY DEF RC!RestoreRecheck, RC!Block, RC!Goto, RC!held, RC!flags, RC!others, RC!PlanKept
<1>3. RC!AimKept'
  BY DEF RC!RestoreRecheck, RC!Block, RC!Goto, RC!held, RC!flags, RC!others, RC!AimKept
<1>4. RC!LookKept'
  BY DEF RC!RestoreRecheck, RC!Block, RC!Goto, RC!held, RC!flags, RC!others, RC!LookKept, RC!BaselineStands,
     RC!Pinned
<1> QED BY <1>1, <1>2, <1>3, <1>4 DEF RC!CutoverInv

LEMMA CutRestoreStart == ASSUME RC!CutoverInv, RC!RestoreStart PROVE RC!CutoverInv'
<1>1. RC!CutoverTypeOK'
  BY DEF RC!RestoreStart, RC!StartService, RC!held, RC!flags, RC!others, RC!CutoverInv, RC!CutoverTypeOK,
     RC!Stage, RC!Final
<1>2. RC!PlanKept'
  BY DEF RC!RestoreStart, RC!StartService, RC!held, RC!flags, RC!others, RC!PlanKept
<1>3. RC!AimKept'
  BY DEF RC!RestoreStart, RC!StartService, RC!held, RC!flags, RC!others, RC!AimKept
<1>4. RC!LookKept'
  BY DEF RC!RestoreStart, RC!StartService, RC!held, RC!flags, RC!others, RC!CutoverInv, RC!LookKept,
     RC!BaselineStands
<1> QED BY <1>1, <1>2, <1>3, <1>4 DEF RC!CutoverInv

LEMMA CutRestoreHealth == ASSUME RC!CutoverInv, RC!RestoreHealth PROVE RC!CutoverInv'
<1>1. RC!CutoverTypeOK'
  BY DEF RC!RestoreHealth, RC!Block, RC!Goto, RC!held, RC!flags, RC!others, RC!CutoverInv, RC!CutoverTypeOK,
     RC!Final
<1>2. RC!PlanKept'
  BY DEF RC!RestoreHealth, RC!Block, RC!Goto, RC!held, RC!flags, RC!others, RC!PlanKept
<1>3. RC!AimKept'
  BY DEF RC!RestoreHealth, RC!Block, RC!Goto, RC!held, RC!flags, RC!others, RC!AimKept
<1>4. RC!LookKept'
  BY DEF RC!RestoreHealth, RC!Block, RC!Goto, RC!held, RC!flags, RC!others, RC!LookKept
<1> QED BY <1>1, <1>2, <1>3, <1>4 DEF RC!CutoverInv

(* The installer dies, the child comes or goes, somebody moves the pointer.  *)

LEMMA CutKilled == ASSUME RC!CutoverInv, RC!Killed PROVE RC!CutoverInv'
<1>1. RC!CutoverTypeOK'
  BY DEF RC!Killed, RC!Goto, RC!held, RC!flags, RC!others, RC!CutoverInv, RC!CutoverTypeOK, RC!Final
<1>2. RC!PlanKept'
  BY DEF RC!Killed, RC!Goto, RC!held, RC!flags, RC!others, RC!PlanKept
<1>3. RC!AimKept'
  BY DEF RC!Killed, RC!Goto, RC!held, RC!flags, RC!others, RC!AimKept
<1>4. RC!LookKept'
  BY DEF RC!Killed, RC!Goto, RC!held, RC!flags, RC!others, RC!LookKept
<1> QED BY <1>1, <1>2, <1>3, <1>4 DEF RC!CutoverInv

LEMMA CutChildChanges == ASSUME RC!CutoverInv, RC!ChildChanges PROVE RC!CutoverInv'
<1>1. RC!CutoverTypeOK'
  BY DEF RC!ChildChanges, RC!held, RC!flags, RC!others, RC!CutoverInv, RC!CutoverTypeOK
<1>2. RC!PlanKept'
  BY DEF RC!ChildChanges, RC!held, RC!flags, RC!others, RC!CutoverInv, RC!PlanKept, RC!Planned
<1>3. RC!AimKept'
  BY DEF RC!ChildChanges, RC!held, RC!flags, RC!others, RC!CutoverInv, RC!AimKept, RC!AimHolds
<1>4. RC!LookKept'
  BY DEF RC!ChildChanges, RC!held, RC!flags, RC!others, RC!CutoverInv, RC!LookKept, RC!CandidateStands,
     RC!BaselineStands
<1> QED BY <1>1, <1>2, <1>3, <1>4 DEF RC!CutoverInv

LEMMA CutOthersRepoint == ASSUME RC!CutoverInv, RC!OthersRepoint PROVE RC!CutoverInv'
<1>1. RC!CutoverTypeOK'
  BY CutAssumption DEF RC!OthersRepoint, RC!held, RC!flags, RC!CutoverInv, RC!CutoverTypeOK
<1>2. RC!PlanKept'
  BY DEF RC!OthersRepoint, RC!held, RC!flags, RC!CutoverInv, RC!PlanKept, RC!Planned
<1>3. RC!AimKept'
  BY DEF RC!OthersRepoint, RC!held, RC!flags, RC!CutoverInv, RC!AimKept, RC!AimHolds
<1>4. RC!LookKept'
  BY DEF RC!OthersRepoint, RC!held, RC!flags, RC!CutoverInv, RC!LookKept, RC!CandidateStands, RC!BaselineStands
<1> QED BY <1>1, <1>2, <1>3, <1>4 DEF RC!CutoverInv

LEMMA OthersEditKeeps == ASSUME RC!CutoverInv, NEW f \in RC!File, RC!OthersEdit(f) PROVE RC!CutoverInv'
<1>1. PICK c \in Edit \cup {"absent"} : installDisk' = [installDisk EXCEPT ![f] = c]
  BY DEF RC!OthersEdit
<1>2. /\ unseen' = unseen \cup {f} /\ (late' = IF installAim = f THEN late \cup {f} ELSE late)
      /\ UNCHANGED <<current, service, pc, installAim, pre, kept, installTodo, written, switched, returned>>
  BY DEF RC!OthersEdit, RC!held, RC!flags
<1>3. RC!CutoverTypeOK'
  BY <1>1, <1>2, CutAssumption DEF RC!OthersEdit, RC!CutoverInv, RC!CutoverTypeOK, RC!Content
<1>4. RC!PlanKept'
  BY <1>2 DEF RC!CutoverInv, RC!PlanKept, RC!Planned, RC!Candidate
<1>5. RC!AimKept'
  BY <1>1, <1>2 DEF RC!CutoverInv, RC!CutoverTypeOK, RC!AimKept, RC!AimHolds, RC!File, RC!Candidate
<1>6. RC!LookKept'
  BY <1>1, <1>2 DEF RC!CutoverInv, RC!CutoverTypeOK, RC!LookKept, RC!CandidateStands, RC!BaselineStands, RC!File, RC!Candidate
<1> QED BY <1>3, <1>4, <1>5, <1>6 DEF RC!CutoverInv

LEMMA CutoverStarts == RC!CutoverInit => RC!CutoverInv
<1> SUFFICES ASSUME RC!CutoverInit PROVE RC!CutoverInv
  OBVIOUS
<1>1. pc = "plan" /\ written = {} /\ ~switched /\ installEdits \in 0 .. InstallMaxEdits
  BY CutAssumption DEF RC!CutoverInit
<1>2. RC!CutoverTypeOK
  BY <1>1 DEF RC!CutoverInit, RC!CutoverTypeOK, RC!Stage, RC!Final, RC!Content
<1> QED BY <1>1, <1>2 DEF RC!CutoverInv, RC!PlanKept, RC!AimKept, RC!LookKept

LEMMA CutoverGoes == RC!CutoverInv /\ [RC!CutoverNext]_installVars => RC!CutoverInv'
<1> SUFFICES ASSUME RC!CutoverInv, [RC!CutoverNext]_installVars PROVE RC!CutoverInv'
  OBVIOUS
<1>1. CASE UNCHANGED installVars
  BY <1>1 DEF installVars, RC!CutoverInv, RC!CutoverTypeOK, RC!PlanKept, RC!Planned, RC!Candidate, RC!AimKept,
     RC!AimHolds, RC!LookKept, RC!CandidateStands, RC!BaselineStands
<1>2. ASSUME RC!Installer PROVE RC!CutoverInv'
  BY <1>2, CutPlan, CutCapture, CutPreShutdown, CutStop, CutSwitch, CutInstallLook, CutInstallRename, CutUndoLook, CutUndoRename,
     CutVerify, CutStart, CutHealth, CutReady, CutDeleteLook, CutUnlink, CutRecover, CutRecoverCheck, CutRestoreShared, CutRestoreRename,
     CutRestorePaired, CutRestoreLegacy, CutRestoreSwitch, CutRestoreRecheck, CutRestoreStart, CutRestoreHealth DEF RC!Installer
<1>3. ASSUME RC!Killed \/ RC!ChildChanges \/ RC!OthersRepoint PROVE RC!CutoverInv'
  BY <1>3, CutKilled, CutChildChanges, CutOthersRepoint
<1>4. ASSUME NEW f \in RC!File, RC!OthersEdit(f) PROVE RC!CutoverInv'
  BY <1>4, OthersEditKeeps
<1> QED BY <1>1, <1>2, <1>3, <1>4 DEF RC!CutoverNext

(* The service starts on files that were all looked at.                     *)
LEMMA PairsRest == RC!CutoverInv => RC!NoMixedPairStep
BY DEF RC!CutoverInv, RC!LookKept, RC!CandidateStands, RC!BaselineStands, RC!NoMixedPairStep, RC!Boots

(* Only four steps of the installer write a file, each the one it aims at   *)
(* or a legacy file.                                                        *)
LEMMA FreshRests == RC!CutoverInv => RC!FreshBytesKeptStep
<1> SUFFICES ASSUME RC!CutoverInv, RC!Installer, NEW t \in InstallTarget \ late, installDisk'[t] # installDisk[t]
             PROVE  installDisk[t] \in {pre[t], RC!Candidate(t)}
  BY DEF RC!FreshBytesKeptStep
<1>1. installDisk' # installDisk /\ t \notin Legacy
  BY CutAssumption
<1>2. CASE RC!InstallRename
  BY <1>2 DEF RC!InstallRename, RC!CutoverInv, RC!CutoverTypeOK, RC!AimKept, RC!AimHolds
<1>3. CASE RC!UndoRename \/ RC!RestoreRename
  <2>1. installAim \in late \/ installDisk[installAim] = RC!Candidate(installAim)
    BY <1>3 DEF RC!UndoRename, RC!RestoreRename, RC!CutoverInv, RC!AimKept, RC!AimHolds
  <2>2. installDisk' = [installDisk EXCEPT ![installAim] = pre[installAim]]
    BY <1>3 DEF RC!UndoRename, RC!RestoreRename
  <2>3. t = installAim
    BY <2>2
  <2> QED BY <2>1, <2>3
<1>4. CASE RC!Unlink
  BY <1>1, <1>4 DEF RC!Unlink, RC!CutoverInv, RC!CutoverTypeOK, RC!AimKept
<1>5. CASE RC!RestoreLegacy
  <2>1. installTodo \subseteq Legacy
    BY <1>5 DEF RC!RestoreLegacy, RC!CutoverInv, RC!AimKept
  <2>2. PICK l \in installTodo : installDisk' = [installDisk EXCEPT ![l] = kept[l]]
    BY <1>1, <1>5 DEF RC!RestoreLegacy
  <2>3. t = l
    BY <2>2
  <2> QED BY <1>1, <2>1, <2>3
<1> QED BY <1>1, <1>2, <1>3, <1>4, <1>5 DEF RC!Installer, RC!Plan, RC!Capture, RC!PreShutdown, RC!Stop, RC!Switch,
     RC!InstallLook, RC!UndoLook, RC!Verify, RC!Start, RC!Health, RC!Ready, RC!DeleteLook, RC!Recover, RC!RecoverCheck,
     RC!RestoreShared, RC!RestorePaired, RC!RestoreSwitch, RC!RestoreRecheck, RC!RestoreStart, RC!RestoreHealth

(* Each exit is reached from one stage.                                     *)
LEMMA ExitsAreReached ==
  ASSUME [RC!CutoverNext]_installVars, pc' # pc
  PROVE  /\ pc' = "refused" => pc \in {"plan", "capture", "check"} /\ UNCHANGED <<written, switched>>
         /\ pc' = "activated" => pc = "delete" /\ installTodo = {}
         /\ pc' = "restored" => pc = "r_health"
<1>1. ~UNCHANGED installVars
  BY DEF installVars
<1>2. CASE RC!Killed \/ RC!ChildChanges \/ RC!OthersRepoint \/ \E f \in RC!File : RC!OthersEdit(f)
  BY <1>2 DEF RC!Killed, RC!Goto, RC!ChildChanges, RC!OthersRepoint, RC!OthersEdit
<1>3. CASE RC!Plan \/ RC!Capture \/ RC!PreShutdown
  BY <1>3 DEF RC!Plan, RC!Capture, RC!PreShutdown, RC!Goto, RC!Raise, RC!flags
<1>4. CASE RC!Stop \/ RC!Switch \/ RC!InstallLook \/ RC!InstallRename \/ RC!UndoLook \/ RC!UndoRename
  BY <1>4 DEF RC!Stop, RC!Switch, RC!InstallLook, RC!InstallRename, RC!UndoLook, RC!UndoRename, RC!StopService, RC!Goto, RC!Raise
<1>5. CASE RC!Verify \/ RC!Start \/ RC!Health \/ RC!Ready \/ RC!DeleteLook \/ RC!Unlink
  BY <1>5 DEF RC!Verify, RC!Start, RC!Health, RC!Ready, RC!DeleteLook, RC!Unlink, RC!StartService, RC!Goto, RC!Raise
<1>6. CASE RC!Recover \/ RC!RecoverCheck \/ RC!RestoreShared \/ RC!RestoreRename \/ RC!RestorePaired
  BY <1>6 DEF RC!Recover, RC!RecoverCheck, RC!RestoreShared, RC!RestoreRename, RC!RestorePaired, RC!StopService, RC!Goto, RC!Block
<1>7. CASE RC!RestoreLegacy \/ RC!RestoreSwitch \/ RC!RestoreRecheck \/ RC!RestoreStart \/ RC!RestoreHealth
  BY <1>7 DEF RC!RestoreLegacy, RC!RestoreSwitch, RC!RestoreRecheck, RC!RestoreStart, RC!RestoreHealth, RC!StartService, RC!Goto, RC!Block
<1> QED BY <1>1, <1>2, <1>3, <1>4, <1>5, <1>6, <1>7 DEF RC!CutoverNext, RC!Installer

LEMMA OutcomesRest == RC!CutoverInv /\ [RC!CutoverNext]_installVars => RC!OutcomeTrueStep
BY ExitsAreReached DEF RC!OutcomeTrueStep, RC!CutoverInv, RC!PlanKept, RC!LookKept, RC!CandidateStands, RC!BaselineStands

-----------------------------------------------------------------------------
(* The shared assets: drift gate, installation and sync-back (SharedAssets). *)

LEMMA GateKeeps == ASSUME SA!SharedInv, NEW r \in Run, SA!Gate(r) PROVE SA!SharedInv'
<1> USE AssetsAssumption DEF SA!repo, SA!run, SA!sync, SA!Deployed
<1>0. PICK accept \in {{}, AssetsTarget} :
         /\ accepts' = IF accept = {} THEN accepts ELSE accepts \cup {r}
         /\ allowed' = [allowed EXCEPT ![r] = [t \in AssetsTarget |-> SA!Permitted(t, staged, accept)]]
         /\ assetsRpc' = [assetsRpc EXCEPT ![r] = IF SA!Drift(staged, accept) = {} THEN "backup" ELSE "refused"]
  BY DEF SA!Gate
<1>p. ASSUME NEW t \in AssetsTarget
      PROVE  /\ SA!Permitted(t, staged, accept) \in SUBSET SA!Deployed
             /\ accept = {} => SA!Permitted(t, staged, accept) \subseteq ever[Of[t]] \cup {NULL}
  BY DEF SA!Permitted, SA!SharedInv, SA!SharedTypeOK, SA!CommittedOnly, SA!Gate
<1>1. SA!SharedTypeOK'
  <2>1. allowed' \in [Run -> [AssetsTarget -> SUBSET SA!Deployed]]
    BY <1>0, <1>p DEF SA!SharedInv, SA!SharedTypeOK
  <2>2. accepts' \subseteq Run /\ assetsRpc' \in [Run -> SA!RunStage]
    BY <1>0 DEF SA!SharedInv, SA!SharedTypeOK, SA!RunStage
  <2> QED BY <2>1, <2>2 DEF SA!SharedInv, SA!SharedTypeOK, SA!Gate
<1>4. SA!RunsLook'
  <2>1. r \notin accepts' => \A t \in AssetsTarget : allowed'[r][t] \subseteq ever[Of[t]] \cup {NULL}
    BY <1>0, <1>p DEF SA!SharedInv, SA!SharedTypeOK
  <2>2. \A q \in Run : /\ q # r => allowed'[q] = allowed[q] /\ assetsRpc'[q] = assetsRpc[q] /\ (q \in accepts <=> q \in accepts')
                       /\ assetsRpc'[r] \in {"backup", "refused"}
    BY <1>0 DEF SA!SharedInv, SA!SharedTypeOK
  <2>3. /\ raim[r] = NULL
        /\ UNCHANGED <<assetsDisk, backed, assetsTodo, raim, rlate, ever>>
        /\ \A q \in Run : q # r => mine'[q] = mine[q]
    <3>1. assetsRpc[r] = "idle" /\ mine' = [mine EXCEPT ![r] = staged]
          /\ UNCHANGED <<assetsDisk, backed, assetsTodo, raim, rlate, ever>>
      BY DEF SA!Gate
    <3>2. raim[r] = NULL
      BY <3>1 DEF SA!SharedInv, SA!RunsLook
    <3>3. \A q \in Run : q # r => mine'[q] = mine[q]
      BY <3>1 DEF SA!SharedInv, SA!SharedTypeOK
    <3> QED BY <3>1, <3>2, <3>3
  <2> QED BY <2>1, <2>2, <2>3 DEF SA!SharedInv, SA!RunsLook, SA!Writing, SA!Unchanged
<1>2. assetsDisk' \in [AssetsTarget -> Bytes]
  BY DEF SA!SharedInv, SA!SharedTypeOK, SA!Gate, SA!RunsLook, SA!Writing
<1>3. SA!CommittedOnly'
  BY DEF SA!SharedInv, SA!SharedTypeOK, SA!CommittedOnly, SA!Gate
<1>5. SA!OwnersKnow'
  BY DEF SA!SharedInv, SA!SharedTypeOK, SA!RunsLook, SA!OwnersKnow, SA!Writing, SA!Gate
<1>6. SA!SyncLooks'
  BY DEF SA!SharedInv, SA!SharedTypeOK, SA!CommittedOnly, SA!SyncLooks, SA!Gate
<1> QED BY <1>1, <1>2, <1>3, <1>4, <1>5, <1>6 DEF SA!SharedInv

LEMMA BackupKeeps == ASSUME SA!SharedInv, NEW r \in Run, SA!Backup(r) PROVE SA!SharedInv'
<1> USE AssetsAssumption DEF SA!repo, SA!run, SA!sync, SA!Deployed
<1>1. SA!SharedTypeOK'
  BY DEF SA!SharedInv, SA!SharedTypeOK, SA!Backup, SA!RunStage, SA!SyncStage
<1>2. assetsDisk' \in [AssetsTarget -> Bytes]
  BY DEF SA!SharedInv, SA!SharedTypeOK, SA!Backup, SA!RunsLook, SA!Writing
<1>3. SA!CommittedOnly'
  BY DEF SA!SharedInv, SA!SharedTypeOK, SA!CommittedOnly, SA!Backup
<1>4. SA!RunsLook'
  BY DEF SA!SharedInv, SA!SharedTypeOK, SA!CommittedOnly, SA!RunsLook, SA!Writing, SA!Backup, SA!Unchanged
<1>5. SA!OwnersKnow'
  BY DEF SA!SharedInv, SA!SharedTypeOK, SA!RunsLook, SA!OwnersKnow, SA!Writing, SA!Backup
<1>6. SA!SyncLooks'
  BY DEF SA!SharedInv, SA!SharedTypeOK, SA!CommittedOnly, SA!SyncLooks, SA!Backup
<1> QED BY <1>1, <1>2, <1>3, <1>4, <1>5, <1>6 DEF SA!SharedInv

LEMMA InstallLookKeeps == ASSUME SA!SharedInv, NEW r \in Run, SA!InstallLook(r) PROVE SA!SharedInv'
<1> USE AssetsAssumption DEF SA!repo, SA!run, SA!sync, SA!Deployed
<1>0. /\ assetsRpc[r] = "look"
      /\ \/ assetsRpc' = [assetsRpc EXCEPT ![r] = "installed"] /\ UNCHANGED <<assetsTodo, raim>>
         \/ \E t \in assetsTodo[r] : /\ SA!Unchanged(r, t) /\ raim' = [raim EXCEPT ![r] = t]
                                     /\ assetsRpc' = [assetsRpc EXCEPT ![r] = "rename"] /\ UNCHANGED assetsTodo
         \/ /\ assetsRpc' = [assetsRpc EXCEPT ![r] = "undo"] /\ UNCHANGED raim
            /\ assetsTodo' = [assetsTodo EXCEPT ![r] = wrote[r]]
      /\ UNCHANGED <<assetsDisk, active, SA!repo, staged, mine, allowed, backed, wrote, accepts, SA!sync,
                     rlate, slate, owner, ever, assetsEdits>>
  BY DEF SA!InstallLook
<1>t. /\ assetsRpc \in [Run -> SA!RunStage] /\ raim \in [Run -> AssetsTarget \cup {NULL}]
      /\ assetsTodo \in [Run -> SUBSET AssetsTarget] /\ wrote \in [Run -> SUBSET AssetsTarget]
  BY DEF SA!SharedInv, SA!SharedTypeOK
<1>r. assetsRpc' \in {assetsRpc, [assetsRpc EXCEPT ![r] = "installed"], [assetsRpc EXCEPT ![r] = "rename"], [assetsRpc EXCEPT ![r] = "undo"]}
  BY <1>0
<1>1. SA!SharedTypeOK'
  <2>1. assetsRpc' \in [Run -> SA!RunStage]
    BY <1>t, <1>r DEF SA!RunStage
  <2>2. raim' \in [Run -> AssetsTarget \cup {NULL}]
    <3>1. raim' = raim \/ \E t \in assetsTodo[r] : raim' = [raim EXCEPT ![r] = t]
      BY <1>0
    <3>2. \A t \in assetsTodo[r] : t \in AssetsTarget
      BY <1>t
    <3> QED BY <1>t, <3>1, <3>2
  <2>3. assetsTodo' \in [Run -> SUBSET AssetsTarget]
    <3>1. assetsTodo' = assetsTodo \/ assetsTodo' = [assetsTodo EXCEPT ![r] = wrote[r]]
      BY <1>0
    <3> QED BY <1>t, <3>1
  <2> QED BY <1>0, <2>1, <2>2, <2>3 DEF SA!SharedInv, SA!SharedTypeOK
<1>5. SA!OwnersKnow'
  <2>1. /\ assetsRpc'[r] \in {"installed", "rename"} \/ (assetsRpc'[r] = "undo" /\ assetsTodo'[r] = wrote[r])
        /\ \A q \in Run : q # r => assetsRpc'[q] = assetsRpc[q] /\ assetsTodo'[q] = assetsTodo[q]
    BY <1>0 DEF SA!SharedInv, SA!SharedTypeOK
  <2> QED BY <1>0, <2>1 DEF SA!SharedInv, SA!OwnersKnow, SA!Writing
<1>2. assetsDisk' \in [AssetsTarget -> Bytes]
  BY DEF SA!SharedInv, SA!SharedTypeOK, SA!InstallLook, SA!RunsLook, SA!Writing
<1>3. SA!CommittedOnly'
  BY DEF SA!SharedInv, SA!SharedTypeOK, SA!CommittedOnly, SA!InstallLook
<1>4. SA!RunsLook'
  BY DEF SA!SharedInv, SA!SharedTypeOK, SA!CommittedOnly, SA!RunsLook, SA!Writing, SA!InstallLook, SA!Unchanged
<1>6. SA!SyncLooks'
  BY DEF SA!SharedInv, SA!SharedTypeOK, SA!CommittedOnly, SA!SyncLooks, SA!InstallLook
<1> QED BY <1>1, <1>2, <1>3, <1>4, <1>5, <1>6 DEF SA!SharedInv

LEMMA InstallRenameKeeps == ASSUME SA!SharedInv, NEW r \in Run, SA!InstallRename(r) PROVE SA!SharedInv'
<1> USE AssetsAssumption DEF SA!repo, SA!run, SA!sync, SA!Deployed
<1> DEFINE new == mine[r][Of[raim[r]]]
<1>0. /\ assetsRpc[r] = "rename" /\ raim[r] \in AssetsTarget /\ new \in Bytes
      /\ assetsDisk' = [assetsDisk EXCEPT ![raim[r]] = new]
      /\ wrote' = [wrote EXCEPT ![r] = wrote[r] \cup {raim[r]}]
      /\ raim' = [raim EXCEPT ![r] = NULL]
      /\ owner' = [owner EXCEPT ![raim[r]] = r]
      /\ rlate' = [q \in Run |-> q # r /\ (rlate[q] \/ raim[q] = raim[r])]
      /\ \/ /\ assetsRpc' = [assetsRpc EXCEPT ![r] = "look"]
            /\ assetsTodo' = [assetsTodo EXCEPT ![r] = assetsTodo[r] \ {raim[r]}]
         \/ /\ assetsRpc' = [assetsRpc EXCEPT ![r] = "undo"]
            /\ assetsTodo' = [assetsTodo EXCEPT ![r] = wrote[r] \cup {raim[r]}]
      /\ UNCHANGED <<active, SA!repo, staged, mine, allowed, backed, accepts, SA!sync, slate, ever, assetsEdits>>
  <2>1. assetsRpc[r] = "rename" /\ raim[r] \in AssetsTarget
    BY DEF SA!InstallRename, SA!SharedInv, SA!RunsLook
  <2>2. new \in Bytes
    BY <2>1 DEF SA!SharedInv, SA!SharedTypeOK, SA!CommittedOnly
  <2> QED BY <2>1, <2>2 DEF SA!InstallRename, SA!Undoable, SA!SharedInv, SA!SharedTypeOK
<1> HIDE DEF new
<1>2. assetsDisk' \in [AssetsTarget -> Bytes]
  BY <1>0 DEF SA!SharedInv
<1>t. /\ assetsRpc \in [Run -> SA!RunStage] /\ raim \in [Run -> AssetsTarget \cup {NULL}]
      /\ assetsTodo \in [Run -> SUBSET AssetsTarget] /\ wrote \in [Run -> SUBSET AssetsTarget]
  BY DEF SA!SharedInv, SA!SharedTypeOK
<1>r. assetsRpc' \in {[assetsRpc EXCEPT ![r] = "look"], [assetsRpc EXCEPT ![r] = "undo"]}
  BY <1>0
<1>w. /\ wrote' = [wrote EXCEPT ![r] = wrote[r] \cup {raim[r]}]
      /\ \/ assetsTodo' = [assetsTodo EXCEPT ![r] = assetsTodo[r] \ {raim[r]}]
         \/ assetsTodo' = [assetsTodo EXCEPT ![r] = wrote[r] \cup {raim[r]}]
      /\ raim[r] \in AssetsTarget /\ raim' = [raim EXCEPT ![r] = NULL]
  BY <1>0
<1>1. SA!SharedTypeOK'
  <2>1. wrote' \in [Run -> SUBSET AssetsTarget] /\ assetsTodo' \in [Run -> SUBSET AssetsTarget]
    BY <1>t, <1>w
  <2>2. /\ assetsRpc' \in [Run -> SA!RunStage] /\ raim' \in [Run -> AssetsTarget \cup {NULL}]
    BY <1>t, <1>r, <1>w DEF SA!RunStage
  <2>3. rlate' \in [Run -> BOOLEAN] /\ owner' \in [AssetsTarget -> Run \cup {NULL}]
    BY <1>0 DEF SA!SharedInv, SA!SharedTypeOK
  <2> QED BY <1>0, <1>2, <2>1, <2>2, <2>3 DEF SA!SharedInv, SA!SharedTypeOK
<1>a. /\ assetsRpc'[r] \in {"look", "undo"} /\ raim'[r] = NULL /\ wrote'[r] = wrote[r] \cup {raim[r]}
      /\ assetsRpc'[r] = "undo" => assetsTodo'[r] = wrote'[r]
  BY <1>0 DEF SA!SharedInv, SA!SharedTypeOK
<1>b. assetsDisk'[raim[r]] = new /\ owner'[raim[r]] = r
      /\ \A t \in AssetsTarget : t # raim[r] => assetsDisk'[t] = assetsDisk[t] /\ owner'[t] = owner[t]
  BY <1>0 DEF SA!SharedInv, SA!SharedTypeOK
<1>c. \A q \in Run : q # r => /\ assetsRpc'[q] = assetsRpc[q] /\ assetsTodo'[q] = assetsTodo[q]
                               /\ raim'[q] = raim[q] /\ wrote'[q] = wrote[q]
                               /\ (rlate'[q] <=> rlate[q] \/ raim[q] = raim[r])
  <2>1. rlate' = [q \in Run |-> q # r /\ (rlate[q] \/ raim[q] = raim[r])]
    BY <1>0
  <2> QED BY <1>t, <1>r, <1>w, <2>1
<1>3. SA!CommittedOnly'
  BY <1>0, <1>a, <1>b, <1>c DEF SA!SharedInv, SA!CommittedOnly
<1>4. SA!RunsLook'
  BY <1>0, <1>a, <1>b, <1>c DEF SA!SharedInv, SA!RunsLook, SA!Writing, SA!Unchanged
<1>5. SA!OwnersKnow'
  BY <1>0, <1>a, <1>b, <1>c DEF SA!SharedInv, SA!OwnersKnow, SA!Writing, new
<1>6. SA!SyncLooks'
  BY DEF SA!SharedInv, SA!SharedTypeOK, SA!CommittedOnly, SA!SyncLooks, SA!InstallRename
<1> QED BY <1>1, <1>2, <1>3, <1>4, <1>5, <1>6 DEF SA!SharedInv

LEMMA UndoLookKeeps == ASSUME SA!SharedInv, NEW r \in Run, SA!UndoLook(r) PROVE SA!SharedInv'
<1> USE AssetsAssumption DEF SA!repo, SA!run, SA!sync, SA!Deployed
<1>0. /\ assetsRpc[r] = "undo"
      /\ \/ assetsTodo[r] = {} /\ assetsRpc' = [assetsRpc EXCEPT ![r] = "failed"] /\ UNCHANGED <<assetsTodo, raim>>
         \/ \E t \in assetsTodo[r] : /\ assetsDisk[t] = mine[r][Of[t]] /\ raim' = [raim EXCEPT ![r] = t]
                                     /\ assetsRpc' = [assetsRpc EXCEPT ![r] = "undo_rename"] /\ UNCHANGED assetsTodo
         \/ \E t \in assetsTodo[r] : /\ assetsDisk[t] # mine[r][Of[t]] /\ UNCHANGED <<assetsRpc, raim>>
                                     /\ assetsTodo' = [assetsTodo EXCEPT ![r] = assetsTodo[r] \ {t}]
      /\ UNCHANGED <<assetsDisk, active, SA!repo, staged, mine, allowed, backed, wrote, accepts, SA!sync,
                     rlate, slate, owner, ever, assetsEdits>>
  BY DEF SA!UndoLook
<1>t. /\ assetsRpc \in [Run -> SA!RunStage] /\ raim \in [Run -> AssetsTarget \cup {NULL}]
      /\ assetsTodo \in [Run -> SUBSET AssetsTarget] /\ wrote \in [Run -> SUBSET AssetsTarget]
  BY DEF SA!SharedInv, SA!SharedTypeOK
<1>r. assetsRpc' \in {assetsRpc, [assetsRpc EXCEPT ![r] = "failed"], [assetsRpc EXCEPT ![r] = "undo_rename"]}
  BY <1>0
<1>1. SA!SharedTypeOK'
  <2>1. assetsRpc' \in [Run -> SA!RunStage]
    BY <1>t, <1>r DEF SA!RunStage
  <2>2. raim' \in [Run -> AssetsTarget \cup {NULL}]
    <3>1. raim' = raim \/ \E t \in assetsTodo[r] : raim' = [raim EXCEPT ![r] = t]
      BY <1>0
    <3>2. \A t \in assetsTodo[r] : t \in AssetsTarget
      BY <1>t
    <3> QED BY <1>t, <3>1, <3>2
  <2>3. assetsTodo' \in [Run -> SUBSET AssetsTarget]
    <3>1. assetsTodo' = assetsTodo \/ \E t \in assetsTodo[r] : assetsTodo' = [assetsTodo EXCEPT ![r] = assetsTodo[r] \ {t}]
      BY <1>0
    <3> QED BY <1>t, <3>1
  <2> QED BY <1>0, <2>1, <2>2, <2>3 DEF SA!SharedInv, SA!SharedTypeOK
<1>5. SA!OwnersKnow'
  <2>1. assetsRpc'[r] \in {"undo", "undo_rename", "failed"}
        /\ \A t \in assetsTodo[r] : t \notin assetsTodo'[r] => assetsDisk[t] # mine[r][Of[t]]
    BY <1>0 DEF SA!SharedInv, SA!SharedTypeOK
  <2>2. \A q \in Run : q # r => assetsRpc'[q] = assetsRpc[q] /\ assetsTodo'[q] = assetsTodo[q]
    BY <1>0 DEF SA!SharedInv, SA!SharedTypeOK
  <2> QED BY <1>0, <2>1, <2>2 DEF SA!SharedInv, SA!OwnersKnow, SA!Writing
<1>2. assetsDisk' \in [AssetsTarget -> Bytes]
  BY DEF SA!SharedInv, SA!SharedTypeOK, SA!UndoLook, SA!RunsLook, SA!Writing
<1>3. SA!CommittedOnly'
  BY DEF SA!SharedInv, SA!SharedTypeOK, SA!CommittedOnly, SA!UndoLook
<1>4. SA!RunsLook'
  BY DEF SA!SharedInv, SA!SharedTypeOK, SA!CommittedOnly, SA!RunsLook, SA!Writing, SA!UndoLook, SA!Unchanged
<1>6. SA!SyncLooks'
  BY DEF SA!SharedInv, SA!SharedTypeOK, SA!CommittedOnly, SA!SyncLooks, SA!UndoLook
<1> QED BY <1>1, <1>2, <1>3, <1>4, <1>5, <1>6 DEF SA!SharedInv

LEMMA UndoRenameKeeps == ASSUME SA!SharedInv, NEW r \in Run, SA!UndoRename(r) PROVE SA!SharedInv'
<1> USE AssetsAssumption DEF SA!repo, SA!run, SA!sync, SA!Deployed
<1> DEFINE old == backed[r][raim[r]]
<1>0. /\ assetsRpc[r] = "undo_rename" /\ raim[r] \in AssetsTarget /\ old \in Bytes
      /\ assetsDisk' = [assetsDisk EXCEPT ![raim[r]] = old]
      /\ raim' = [raim EXCEPT ![r] = NULL]
      /\ owner' = [owner EXCEPT ![raim[r]] = r]
      /\ rlate' = [q \in Run |-> q # r /\ (rlate[q] \/ raim[q] = raim[r])]
      /\ assetsRpc' = [assetsRpc EXCEPT ![r] = "undo"]
      /\ assetsTodo' = [assetsTodo EXCEPT ![r] = assetsTodo[r] \ {raim[r]}]
      /\ UNCHANGED <<active, SA!repo, staged, mine, allowed, backed, wrote, accepts, SA!sync, slate, ever, assetsEdits>>
  <2>1. assetsRpc[r] = "undo_rename" /\ raim[r] \in AssetsTarget /\ old \in Bytes
    BY DEF SA!UndoRename, SA!SharedInv, SA!RunsLook, SA!Writing
  <2> QED BY <2>1 DEF SA!UndoRename, SA!SharedInv, SA!SharedTypeOK
<1>b. assetsDisk'[raim[r]] = backed[r][raim[r]] /\ owner'[raim[r]] = r
      /\ \A t \in AssetsTarget : t # raim[r] => assetsDisk'[t] = assetsDisk[t] /\ owner'[t] = owner[t]
  BY <1>0 DEF SA!SharedInv, SA!SharedTypeOK
<1> HIDE DEF old
<1>2. assetsDisk' \in [AssetsTarget -> Bytes]
  BY <1>0 DEF SA!SharedInv
<1>1. SA!SharedTypeOK'
  <2>1. assetsTodo' \in [Run -> SUBSET AssetsTarget]
    BY <1>0 DEF SA!SharedInv, SA!SharedTypeOK
  <2>2. /\ assetsRpc' \in [Run -> SA!RunStage] /\ raim' \in [Run -> AssetsTarget \cup {NULL}]
    BY <1>0 DEF SA!SharedInv, SA!SharedTypeOK, SA!RunStage
  <2>3. rlate' \in [Run -> BOOLEAN] /\ owner' \in [AssetsTarget -> Run \cup {NULL}]
    BY <1>0 DEF SA!SharedInv, SA!SharedTypeOK
  <2> QED BY <1>0, <1>2, <2>1, <2>2, <2>3 DEF SA!SharedInv, SA!SharedTypeOK
<1>a. assetsRpc'[r] = "undo" /\ raim'[r] = NULL /\ assetsTodo'[r] = assetsTodo[r] \ {raim[r]}
  BY <1>0 DEF SA!SharedInv, SA!SharedTypeOK
<1>c. \A q \in Run : q # r => /\ assetsRpc'[q] = assetsRpc[q] /\ assetsTodo'[q] = assetsTodo[q]
                               /\ raim'[q] = raim[q]
                               /\ (rlate'[q] <=> rlate[q] \/ raim[q] = raim[r])
  BY <1>0 DEF SA!SharedInv, SA!SharedTypeOK
<1>3. SA!CommittedOnly'
  BY <1>0, <1>a, <1>c DEF SA!SharedInv, SA!CommittedOnly
<1>4. SA!RunsLook'
  BY <1>0, <1>a, <1>b, <1>c DEF SA!SharedInv, SA!RunsLook, SA!Writing, SA!Unchanged
<1>5. SA!OwnersKnow'
  BY <1>0, <1>a, <1>b, <1>c DEF SA!SharedInv, SA!OwnersKnow, SA!Writing
<1>6. SA!SyncLooks'
  BY DEF SA!SharedInv, SA!SharedTypeOK, SA!CommittedOnly, SA!SyncLooks, SA!UndoRename
<1> QED BY <1>1, <1>2, <1>3, <1>4, <1>5, <1>6 DEF SA!SharedInv

LEMMA SyncPlanKeeps == ASSUME SA!SharedInv, SA!SyncPlan PROVE SA!SharedInv'
<1> USE AssetsAssumption DEF SA!repo, SA!run, SA!sync, SA!Deployed
<1> DEFINE from == [s \in Source |-> CHOOSE t \in SA!Drifted : Of[t] = s]
<1>0. /\ spc = "idle"
      /\ \/ spc' = "refused" /\ UNCHANGED <<plan, assetsSeen, slist, stodo>>
         \/ /\ \A t \in SA!Drifted : SA!Receivable(t)
            /\ spc' = "look" /\ assetsSeen' = assetsTree /\ slist' = listed
            /\ stodo' = {Of[t] : t \in SA!Drifted}
            /\ plan' = [s \in Source |-> IF s \in stodo' THEN assetsDisk[from[s]] ELSE NULL]
      /\ UNCHANGED <<assetsDisk, active, SA!repo, staged, SA!run, saim, rlate, slate, owner, ever, assetsEdits>>
  BY DEF SA!SyncPlan
<1>a. SA!Drifted \subseteq AssetsTarget
  BY DEF SA!Drifted, SA!Drift
<1>b. stodo' = {Of[t] : t \in SA!Drifted} => \A s \in stodo' : s \in Source /\ from[s] \in SA!Drifted /\ Of[from[s]] = s
  BY <1>a
<1> HIDE DEF from
<1>1. SA!SharedTypeOK'
  <2>1. plan' \in [Source -> SA!Deployed] /\ stodo' \subseteq Source /\ spc' \in SA!SyncStage
    BY <1>0, <1>a, <1>b DEF SA!SharedInv, SA!SharedTypeOK, SA!SyncStage
  <2> QED BY <1>0, <2>1 DEF SA!SharedInv, SA!SharedTypeOK
<1>6. SA!SyncLooks'
  <2>1. CASE spc' = "refused"
    BY <1>0, <2>1 DEF SA!SharedInv, SA!SyncLooks
  <2>2. CASE spc' = "look"
    <3>1. ASSUME NEW s \in stodo'  PROVE plan'[s] # NULL /\ assetsSeen'[s] \in {plan'[s]} \cup ever'[s]
      <4>1. SA!Receivable(from[s]) /\ Of[from[s]] = s /\ s \in Source
        BY <1>0, <1>b, <2>2, <3>1
      <4>2. plan'[s] = assetsDisk[from[s]] /\ assetsSeen'[s] = assetsTree[s] /\ head[s] \in ever'[s]
        BY <1>0, <2>2, <3>1, <4>1 DEF SA!SharedInv, SA!CommittedOnly
      <4> QED BY <4>1, <4>2 DEF SA!Receivable
    <3> QED BY <2>2, <3>1 DEF SA!SyncLooks
  <2> QED BY <1>0, <2>1, <2>2
<1>2. assetsDisk' \in [AssetsTarget -> Bytes]
  BY DEF SA!SharedInv, SA!SharedTypeOK, SA!SyncPlan, SA!RunsLook, SA!Writing
<1>3. SA!CommittedOnly'
  BY DEF SA!SharedInv, SA!SharedTypeOK, SA!CommittedOnly, SA!SyncPlan
<1>4. SA!RunsLook'
  BY DEF SA!SharedInv, SA!SharedTypeOK, SA!CommittedOnly, SA!RunsLook, SA!Writing, SA!SyncPlan, SA!Unchanged
<1>5. SA!OwnersKnow'
  BY DEF SA!SharedInv, SA!SharedTypeOK, SA!RunsLook, SA!OwnersKnow, SA!Writing, SA!SyncPlan
<1> QED BY <1>1, <1>2, <1>3, <1>4, <1>5, <1>6 DEF SA!SharedInv

LEMMA SyncLookKeeps == ASSUME SA!SharedInv, SA!SyncLook PROVE SA!SharedInv'
<1> USE AssetsAssumption DEF SA!repo, SA!run, SA!sync, SA!Deployed
<1>1. SA!SharedTypeOK'
  BY DEF SA!SharedInv, SA!SharedTypeOK, SA!SyncLook, SA!RunStage, SA!SyncStage
<1>2. assetsDisk' \in [AssetsTarget -> Bytes]
  BY DEF SA!SharedInv, SA!SharedTypeOK, SA!SyncLook, SA!RunsLook, SA!Writing
<1>3. SA!CommittedOnly'
  BY DEF SA!SharedInv, SA!SharedTypeOK, SA!CommittedOnly, SA!SyncLook
<1>4. SA!RunsLook'
  BY DEF SA!SharedInv, SA!SharedTypeOK, SA!CommittedOnly, SA!RunsLook, SA!Writing, SA!SyncLook, SA!Unchanged
<1>5. SA!OwnersKnow'
  BY DEF SA!SharedInv, SA!SharedTypeOK, SA!RunsLook, SA!OwnersKnow, SA!Writing, SA!SyncLook
<1>6. SA!SyncLooks'
  BY DEF SA!SharedInv, SA!SharedTypeOK, SA!CommittedOnly, SA!SyncLooks, SA!SyncLook
<1> QED BY <1>1, <1>2, <1>3, <1>4, <1>5, <1>6 DEF SA!SharedInv

LEMMA SyncRenameKeeps == ASSUME SA!SharedInv, SA!SyncRename PROVE SA!SharedInv'
<1> USE AssetsAssumption DEF SA!repo, SA!run, SA!sync, SA!Deployed
<1>0. saim \in stodo /\ stodo \subseteq Source
  BY DEF SA!SyncRename, SA!SharedInv, SA!SharedTypeOK, SA!SyncLooks
<1>1. SA!SharedTypeOK'
  <2>1. assetsTree' = [assetsTree EXCEPT ![saim] = plan[saim]] /\ stodo' = stodo \ {saim} /\ spc' = "look"
        /\ saim' = NULL /\ slate' = FALSE
        /\ UNCHANGED <<assetsDisk, active, listed, head, staged, SA!run, plan, assetsSeen, slist,
                       rlate, owner, ever, assetsEdits>>
    BY DEF SA!SyncRename
  <2>2. plan[saim] \in Bytes
    BY <1>0 DEF SA!SyncRename, SA!SharedInv, SA!SharedTypeOK, SA!SyncLooks
  <2> QED BY <1>0, <2>1, <2>2 DEF SA!SharedInv, SA!SharedTypeOK, SA!SyncStage
<1>2. assetsDisk' \in [AssetsTarget -> Bytes]
  BY DEF SA!SharedInv, SA!SharedTypeOK, SA!SyncRename, SA!RunsLook, SA!Writing
<1>3. SA!CommittedOnly'
  BY DEF SA!SharedInv, SA!SharedTypeOK, SA!CommittedOnly, SA!SyncRename
<1>4. SA!RunsLook'
  BY DEF SA!SharedInv, SA!SharedTypeOK, SA!CommittedOnly, SA!RunsLook, SA!Writing, SA!SyncRename, SA!Unchanged
<1>5. SA!OwnersKnow'
  BY DEF SA!SharedInv, SA!SharedTypeOK, SA!RunsLook, SA!OwnersKnow, SA!Writing, SA!SyncRename
<1>6. SA!SyncLooks'
  BY DEF SA!SharedInv, SA!SharedTypeOK, SA!CommittedOnly, SA!SyncLooks, SA!SyncRename
<1> QED BY <1>1, <1>2, <1>3, <1>4, <1>5, <1>6 DEF SA!SharedInv

LEMMA SyncManifestKeeps == ASSUME SA!SharedInv, SA!SyncManifest PROVE SA!SharedInv'
<1> USE AssetsAssumption DEF SA!repo, SA!run, SA!sync, SA!Deployed
<1>1. SA!SharedTypeOK'
  BY DEF SA!SharedInv, SA!SharedTypeOK, SA!SyncManifest, SA!RunStage, SA!SyncStage
<1>2. assetsDisk' \in [AssetsTarget -> Bytes]
  BY DEF SA!SharedInv, SA!SharedTypeOK, SA!SyncManifest, SA!RunsLook, SA!Writing
<1>3. SA!CommittedOnly'
  BY DEF SA!SharedInv, SA!SharedTypeOK, SA!CommittedOnly, SA!SyncManifest
<1>4. SA!RunsLook'
  BY DEF SA!SharedInv, SA!SharedTypeOK, SA!CommittedOnly, SA!RunsLook, SA!Writing, SA!SyncManifest, SA!Unchanged
<1>5. SA!OwnersKnow'
  BY DEF SA!SharedInv, SA!SharedTypeOK, SA!RunsLook, SA!OwnersKnow, SA!Writing, SA!SyncManifest
<1>6. SA!SyncLooks'
  BY DEF SA!SharedInv, SA!SharedTypeOK, SA!CommittedOnly, SA!SyncLooks, SA!SyncManifest
<1> QED BY <1>1, <1>2, <1>3, <1>4, <1>5, <1>6 DEF SA!SharedInv

LEMMA SyncProofKeeps == ASSUME SA!SharedInv, SA!SyncProof PROVE SA!SharedInv'
<1> USE AssetsAssumption DEF SA!repo, SA!run, SA!sync, SA!Deployed
<1>1. SA!SharedTypeOK'
  BY DEF SA!SharedInv, SA!SharedTypeOK, SA!SyncProof, SA!RunStage, SA!SyncStage
<1>2. assetsDisk' \in [AssetsTarget -> Bytes]
  BY DEF SA!SharedInv, SA!SharedTypeOK, SA!SyncProof, SA!RunsLook, SA!Writing
<1>3. SA!CommittedOnly'
  BY DEF SA!SharedInv, SA!SharedTypeOK, SA!CommittedOnly, SA!SyncProof
<1>4. SA!RunsLook'
  BY DEF SA!SharedInv, SA!SharedTypeOK, SA!CommittedOnly, SA!RunsLook, SA!Writing, SA!SyncProof, SA!Unchanged
<1>5. SA!OwnersKnow'
  BY DEF SA!SharedInv, SA!SharedTypeOK, SA!RunsLook, SA!OwnersKnow, SA!Writing, SA!SyncProof
<1>6. SA!SyncLooks'
  BY DEF SA!SharedInv, SA!SharedTypeOK, SA!CommittedOnly, SA!SyncLooks, SA!SyncProof
<1> QED BY <1>1, <1>2, <1>3, <1>4, <1>5, <1>6 DEF SA!SharedInv

LEMMA StageKeeps == ASSUME SA!SharedInv, SA!Stage PROVE SA!SharedInv'
<1> USE AssetsAssumption DEF SA!repo, SA!run, SA!sync, SA!Deployed
<1>1. SA!SharedTypeOK'
  BY DEF SA!SharedInv, SA!SharedTypeOK, SA!Stage, SA!RunStage, SA!SyncStage
<1>2. assetsDisk' \in [AssetsTarget -> Bytes]
  BY DEF SA!SharedInv, SA!SharedTypeOK, SA!Stage, SA!RunsLook, SA!Writing
<1>3. SA!CommittedOnly'
  BY DEF SA!SharedInv, SA!SharedTypeOK, SA!CommittedOnly, SA!Stage
<1>4. SA!RunsLook'
  BY DEF SA!SharedInv, SA!SharedTypeOK, SA!CommittedOnly, SA!RunsLook, SA!Writing, SA!Stage, SA!Unchanged
<1>5. SA!OwnersKnow'
  BY DEF SA!SharedInv, SA!SharedTypeOK, SA!RunsLook, SA!OwnersKnow, SA!Writing, SA!Stage
<1>6. SA!SyncLooks'
  BY DEF SA!SharedInv, SA!SharedTypeOK, SA!CommittedOnly, SA!SyncLooks, SA!Stage
<1> QED BY <1>1, <1>2, <1>3, <1>4, <1>5, <1>6 DEF SA!SharedInv

LEMMA CutoverKeeps == ASSUME SA!SharedInv, SA!Cutover PROVE SA!SharedInv'
<1> USE AssetsAssumption DEF SA!repo, SA!run, SA!sync, SA!Deployed
<1>1. SA!SharedTypeOK'
  BY DEF SA!SharedInv, SA!SharedTypeOK, SA!Cutover, SA!RunStage, SA!SyncStage
<1>2. assetsDisk' \in [AssetsTarget -> Bytes]
  BY DEF SA!SharedInv, SA!SharedTypeOK, SA!Cutover, SA!RunsLook, SA!Writing
<1>3. SA!CommittedOnly'
  BY DEF SA!SharedInv, SA!SharedTypeOK, SA!CommittedOnly, SA!Cutover
<1>4. SA!RunsLook'
  BY DEF SA!SharedInv, SA!SharedTypeOK, SA!CommittedOnly, SA!RunsLook, SA!Writing, SA!Cutover, SA!Unchanged
<1>5. SA!OwnersKnow'
  BY DEF SA!SharedInv, SA!SharedTypeOK, SA!RunsLook, SA!OwnersKnow, SA!Writing, SA!Cutover
<1>6. SA!SyncLooks'
  BY DEF SA!SharedInv, SA!SharedTypeOK, SA!CommittedOnly, SA!SyncLooks, SA!Cutover
<1> QED BY <1>1, <1>2, <1>3, <1>4, <1>5, <1>6 DEF SA!SharedInv

LEMMA CommitKeeps == ASSUME SA!SharedInv, SA!Commit PROVE SA!SharedInv'
<1> USE AssetsAssumption DEF SA!repo, SA!run, SA!sync, SA!Deployed
<1>1. SA!SharedTypeOK'
  BY DEF SA!SharedInv, SA!SharedTypeOK, SA!Commit, SA!RunStage, SA!SyncStage
<1>2. assetsDisk' \in [AssetsTarget -> Bytes]
  BY DEF SA!SharedInv, SA!SharedTypeOK, SA!Commit, SA!RunsLook, SA!Writing
<1>3. SA!CommittedOnly'
  BY DEF SA!SharedInv, SA!SharedTypeOK, SA!CommittedOnly, SA!Commit
<1>4. SA!RunsLook'
  BY DEF SA!SharedInv, SA!SharedTypeOK, SA!CommittedOnly, SA!RunsLook, SA!Writing, SA!Commit, SA!Unchanged
<1>5. SA!OwnersKnow'
  BY DEF SA!SharedInv, SA!SharedTypeOK, SA!RunsLook, SA!OwnersKnow, SA!Writing, SA!Commit
<1>6. SA!SyncLooks'
  BY DEF SA!SharedInv, SA!SharedTypeOK, SA!CommittedOnly, SA!SyncLooks, SA!Commit
<1> QED BY <1>1, <1>2, <1>3, <1>4, <1>5, <1>6 DEF SA!SharedInv

LEMMA EditDeployedKeeps == ASSUME SA!SharedInv, NEW t \in AssetsTarget, SA!EditDeployed(t) PROVE SA!SharedInv'
<1> USE AssetsAssumption DEF SA!repo, SA!run, SA!sync, SA!Deployed
<1>4. SA!RunsLook'
  <2>1. \A u \in AssetsTarget : u # t => assetsDisk'[u] = assetsDisk[u]
    BY DEF SA!EditDeployed, SA!SharedInv
  <2>2. /\ \A r \in Run : rlate'[r] <=> rlate[r] \/ raim[r] = t
        /\ UNCHANGED <<assetsRpc, backed, accepts, allowed, ever, raim, mine, assetsTodo>>
    BY DEF SA!EditDeployed
  <2> QED BY <2>1, <2>2 DEF SA!SharedInv, SA!RunsLook, SA!Writing, SA!Unchanged
<1>1. SA!SharedTypeOK'
  BY DEF SA!SharedInv, SA!SharedTypeOK, SA!EditDeployed, SA!RunStage, SA!SyncStage
<1>2. assetsDisk' \in [AssetsTarget -> Bytes]
  BY DEF SA!SharedInv, SA!SharedTypeOK, SA!EditDeployed, SA!RunsLook, SA!Writing
<1>3. SA!CommittedOnly'
  BY DEF SA!SharedInv, SA!SharedTypeOK, SA!CommittedOnly, SA!EditDeployed
<1>5. SA!OwnersKnow'
  BY DEF SA!SharedInv, SA!SharedTypeOK, SA!RunsLook, SA!OwnersKnow, SA!Writing, SA!EditDeployed
<1>6. SA!SyncLooks'
  BY DEF SA!SharedInv, SA!SharedTypeOK, SA!CommittedOnly, SA!SyncLooks, SA!EditDeployed
<1> QED BY <1>1, <1>2, <1>3, <1>4, <1>5, <1>6 DEF SA!SharedInv

LEMMA EditTreeKeeps == ASSUME SA!SharedInv, NEW s \in Source, SA!EditTree(s) PROVE SA!SharedInv'
<1> USE AssetsAssumption DEF SA!repo, SA!run, SA!sync, SA!Deployed
<1>1. SA!SharedTypeOK'
  BY DEF SA!SharedInv, SA!SharedTypeOK, SA!EditTree, SA!RunStage, SA!SyncStage
<1>2. assetsDisk' \in [AssetsTarget -> Bytes]
  BY DEF SA!SharedInv, SA!SharedTypeOK, SA!EditTree, SA!RunsLook, SA!Writing
<1>3. SA!CommittedOnly'
  BY DEF SA!SharedInv, SA!SharedTypeOK, SA!CommittedOnly, SA!EditTree
<1>4. SA!RunsLook'
  BY DEF SA!SharedInv, SA!SharedTypeOK, SA!CommittedOnly, SA!RunsLook, SA!Writing, SA!EditTree, SA!Unchanged
<1>5. SA!OwnersKnow'
  BY DEF SA!SharedInv, SA!SharedTypeOK, SA!RunsLook, SA!OwnersKnow, SA!Writing, SA!EditTree
<1>6. SA!SyncLooks'
  BY DEF SA!SharedInv, SA!SharedTypeOK, SA!CommittedOnly, SA!SyncLooks, SA!EditTree
<1> QED BY <1>1, <1>2, <1>3, <1>4, <1>5, <1>6 DEF SA!SharedInv

LEMMA SharedStarts == SA!SharedInit => SA!SharedInv
<1> SUFFICES ASSUME SA!SharedInit PROVE SA!SharedInv
  OBVIOUS
<1> USE AssetsAssumption DEF SA!SharedInit
<1>1. SA!SharedTypeOK /\ assetsDisk \in [AssetsTarget -> Bytes]
  <2>1. /\ assetsDisk \in [AssetsTarget -> Bytes] /\ active \in [Source -> Bytes]
        /\ assetsTree = active /\ listed = active /\ head = active
    OBVIOUS
  <2>2. /\ ever \in [Source -> SUBSET Bytes] /\ allowed \in [Run -> [AssetsTarget -> SUBSET SA!Deployed]]
        /\ backed \in [Run -> [AssetsTarget -> SA!Deployed]] /\ plan \in [Source -> SA!Deployed]
        /\ assetsSeen = plan /\ slist = plan /\ stodo = {} /\ assetsEdits \in 0 .. AssetsMaxEdits
    BY DEF SA!Deployed
  <2>3. /\ mine \in [Run -> [Source -> Bytes] \cup {NULL}] /\ owner \in [AssetsTarget -> Run \cup {NULL}]
        /\ raim \in [Run -> AssetsTarget \cup {NULL}] /\ rlate \in [Run -> BOOLEAN]
        /\ assetsTodo \in [Run -> SUBSET AssetsTarget] /\ wrote \in [Run -> SUBSET AssetsTarget]
        /\ assetsRpc \in [Run -> SA!RunStage] /\ spc \in SA!SyncStage /\ slate \in BOOLEAN /\ saim = NULL
        /\ staged = NULL /\ accepts = {}
    BY DEF SA!RunStage, SA!SyncStage
  <2> HIDE DEF SA!SharedInit
  <2>4. assetsDisk \in [AssetsTarget -> SA!Deployed]
    BY <2>1 DEF SA!Deployed
  <2> QED BY <2>1, <2>2, <2>3, <2>4 DEF SA!SharedTypeOK
<1>2. SA!CommittedOnly
  BY DEF SA!CommittedOnly
<1>3. SA!RunsLook
  BY DEF SA!RunsLook, SA!Writing
<1>4. SA!OwnersKnow
  BY DEF SA!OwnersKnow
<1>5. SA!SyncLooks
  BY DEF SA!SyncLooks
<1> QED BY <1>1, <1>2, <1>3, <1>4, <1>5 DEF SA!SharedInv

(* No step of the installer, of the sync-back or of an editor breaks it.    *)
LEMMA SharedGoes == SA!SharedInv /\ [SA!SharedNext]_assetsVars => SA!SharedInv'
<1> SUFFICES ASSUME SA!SharedInv, [SA!SharedNext]_assetsVars PROVE SA!SharedInv'
  OBVIOUS
<1>1. CASE UNCHANGED assetsVars
  BY <1>1 DEF assetsVars, SA!SharedInv, SA!SharedTypeOK, SA!CommittedOnly, SA!RunsLook, SA!OwnersKnow,
     SA!SyncLooks, SA!Unchanged
<1>2. CASE SA!Stage \/ SA!Cutover \/ SA!Commit
  BY <1>2, StageKeeps, CutoverKeeps, CommitKeeps
<1>3. ASSUME NEW r \in Run, SA!Gate(r) \/ SA!Backup(r) \/ SA!InstallLook(r) \/ SA!InstallRename(r)
                             \/ SA!UndoLook(r) \/ SA!UndoRename(r)
      PROVE  SA!SharedInv'
  BY <1>3, GateKeeps, BackupKeeps, InstallLookKeeps, InstallRenameKeeps, UndoLookKeeps, UndoRenameKeeps
<1>4. CASE SA!SyncPlan \/ SA!SyncLook \/ SA!SyncRename \/ SA!SyncManifest \/ SA!SyncProof
  BY <1>4, SyncPlanKeeps, SyncLookKeeps, SyncRenameKeeps, SyncManifestKeeps, SyncProofKeeps
<1>5. ASSUME NEW t \in AssetsTarget, SA!EditDeployed(t) PROVE SA!SharedInv'
  BY <1>5, EditDeployedKeeps
<1>6. ASSUME NEW s \in Source, SA!EditTree(s) PROVE SA!SharedInv'
  BY <1>6, EditTreeKeeps
<1> QED BY <1>1, <1>2, <1>3, <1>4, <1>5, <1>6 DEF SA!SharedNext

LEMMA SharedLeavesBackup == SA!SharedInv => SA!FailedLeavesBackup
BY DEF SA!SharedInv, SA!RunsLook, SA!OwnersKnow, SA!FailedLeavesBackup

(* What an installation replaces was committed, or backed up for an         *)
(* operator who accepted that.                                              *)
LEMMA LiveEditsRest == SA!SharedInv => SA!LiveEditsKeptStep
<1> SUFFICES ASSUME SA!SharedInv, NEW r \in Run, NEW t \in AssetsTarget, raim[r] = t, ~rlate[r],
                    SA!InstallRename(r) \/ SA!UndoRename(r)
             PROVE  \/ assetsDisk[t] \in ever[Of[t]]
                    \/ r \in accepts /\ assetsDisk[t] = backed[r][t]
  BY DEF SA!LiveEditsKeptStep
<1>0. assetsDisk[t] # NULL /\ Of[t] \in Source
  BY AssetsAssumption DEF SA!SharedInv
<1>1. CASE SA!InstallRename(r)
  BY <1>0, <1>1 DEF SA!SharedInv, SA!RunsLook, SA!InstallRename, SA!Unchanged
<1>2. CASE SA!UndoRename(r)
  BY <1>0, <1>2 DEF SA!SharedInv, SA!RunsLook, SA!CommittedOnly, SA!UndoRename
<1> QED BY <1>1, <1>2

LEMMA TreeEditsRest == SA!SharedInv => SA!TreeEditsKeptStep
BY DEF SA!SharedInv, SA!SyncLooks, SA!SyncRename, SA!TreeEditsKeptStep

-----------------------------------------------------------------------------
(* The retirement of decommissioned files (Retirement).                     *)

LEMMA RetireStarts == RT!RetireInit => RT!RetireInv
BY RetireAssumption DEF RT!RetireInit, RT!RetireInv, RT!RetireTypeOK, RT!Tree, RT!Dir, RT!Held

LEMMA RetireGoes == RT!RetireInv /\ [RT!RetireNext]_retireVars => RT!RetireInv'
<1> SUFFICES ASSUME RT!RetireInv, [RT!RetireNext]_retireVars PROVE RT!RetireInv'
  OBVIOUS
<1> USE RetireAssumption DEF RT!RetireInv, RT!RetireTypeOK, RT!Through, RT!Reached, RT!RetireGoto,
                             RT!RetireFinal, RT!Dir, RT!Tree
<1>1. CASE UNCHANGED retireVars
  BY <1>1 DEF retireVars
<1>2. CASE RT!RetireCheck
  BY <1>2 DEF RT!RetireCheck
<1>3. CASE RT!TakeFence
  BY <1>3 DEF RT!TakeFence
<1>4. CASE RT!CaptureAll
  BY <1>4 DEF RT!CaptureAll, RT!Held
<1>5. CASE RT!AssertFence
  BY <1>5 DEF RT!AssertFence
<1>6. CASE RT!CompareOne
  BY <1>6 DEF RT!CompareOne
<1>7. CASE RT!UnlinkOne
  BY <1>7 DEF RT!UnlinkOne, RT!Held
<1>8. CASE RT!Swap
  BY <1>8 DEF RT!Swap
<1>9. ASSUME NEW tree \in RT!Tree, NEW l \in Retired, RT!Write(tree, l) PROVE RT!RetireInv'
  <2>1. PICK c \in {"edit", "canon"} : files' = [files EXCEPT ![tree][l] = c]
    BY <1>9 DEF RT!Write
  <2>2. files' \in [RT!Tree -> [Retired -> RT!Held]]
    BY <2>1, <1>9 DEF RT!Held
  <2>3. /\ tlate' = (tlate \/ (taim = l /\ tree = RT!Reached))
        /\ UNCHANGED <<dir, tpc, fence, captured, ttodo, taim>>
    BY <1>9 DEF RT!Write
  <2>4. \A u \in RT!Tree, k \in Retired : u # tree \/ k # l => files'[u][k] = files[u][k]
    BY <2>1, <1>9
  <2>5. tpc = "unlink" /\ ~tlate' => RT!Through(taim)' = RT!Through(taim)
    BY <2>3, <2>4
  <2> QED BY <2>2, <2>3, <2>5
<1> QED BY <1>1, <1>2, <1>3, <1>4, <1>5, <1>6, <1>7, <1>8, <1>9 DEF RT!RetireNext

LEMMA RetireRests == RT!RetireInv => RT!OnlyReviewedDeletedStep
BY DEF RT!RetireInv, RT!RetireTypeOK, RT!OnlyReviewedDeletedStep, RT!UnlinkOne, RT!Held

-----------------------------------------------------------------------------
(* The cleanup of the processes of slots (ProcessCleanup).                  *)

(* The policy of a process suits what it is.                                *)
LEMMA PolicyOfSuits ==
  ASSUME NEW p \in PC!Live, PC!PolicyOf(p) # NULL
  PROVE  /\ PC!PolicyOf(p) \in PC!Policies
         /\ PC!PolicyOf(p) = "idle_agent_browser" => proc[p].cat = "agent-browser"
         /\ PC!PolicyOf(p) = "orphan_dev_tool" => proc[p].cat = "vitest"
         /\ PC!PolicyOf(p) \in {"dead_slot_session", "duplicate_dev_server"} =>
               proc[p].cat = "nextjs" /\ proc[p].home
         /\ PC!PolicyOf(p) = "stale_owner" => (proc[p].cat = "nextjs" => proc[p].home)
<1>1. CASE PC!IdleBrowser(p)
  <2>1. PC!PolicyOf(p) = "idle_agent_browser" /\ proc[p].cat = "agent-browser"
    BY <1>1 DEF PC!PolicyOf, PC!IdleBrowser
  <2> QED BY <2>1 DEF PC!Policies
<1>2. CASE ~PC!IdleBrowser(p) /\ PC!Orphan(p)
  <2>1. PC!PolicyOf(p) = "orphan_dev_tool" /\ proc[p].cat = "vitest"
    BY <1>2 DEF PC!PolicyOf, PC!Orphan
  <2> QED BY <2>1 DEF PC!Policies
<1>3. CASE ~PC!IdleBrowser(p) /\ ~PC!Orphan(p) /\ PC!DeadSession(proc[p])
  <2>1. PC!PolicyOf(p) = "dead_slot_session" /\ proc[p].cat = "nextjs" /\ proc[p].home
    BY <1>3 DEF PC!PolicyOf, PC!DeadSession
  <2> QED BY <2>1 DEF PC!Policies
<1>4. CASE ~PC!IdleBrowser(p) /\ ~PC!Orphan(p) /\ ~PC!DeadSession(proc[p]) /\ PC!StaleOwner(proc[p])
  <2>1. PC!PolicyOf(p) = "stale_owner" /\ (proc[p].cat = "nextjs" => proc[p].home)
    BY <1>4 DEF PC!PolicyOf, PC!StaleOwner
  <2> QED BY <2>1 DEF PC!Policies
<1>5. CASE ~PC!IdleBrowser(p) /\ ~PC!Orphan(p) /\ ~PC!DeadSession(proc[p]) /\ ~PC!StaleOwner(proc[p])
  <2>1. PC!PolicyOf(p) = "duplicate_dev_server" /\ PC!Duplicate(p)
    BY <1>5 DEF PC!PolicyOf
  <2>2. p \in PC!Dev
    BY <2>1 DEF PC!Duplicate, PC!DevTree, PC!WithChildren, PC!TopOf
  <2> QED BY <2>1, <2>2 DEF PC!Policies, PC!Dev
<1> QED BY <1>1, <1>2, <1>3, <1>4, <1>5

LEMMA CleanStarts == PC!CleanInit => PC!CleanInv
<1> SUFFICES ASSUME PC!CleanInit PROVE PC!CleanInv
  OBVIOUS
<1>1. /\ row = [p \in Pid |-> NULL] /\ policy = row /\ outcome = row
      /\ cpc = "scan" /\ cleanupTree = {} /\ trees = {} /\ cleanupAim = NULL /\ signalled = {}
      /\ moved = FALSE /\ moves = 0 /\ lane \in {"free", "held"} /\ session \in BOOLEAN
  BY DEF PC!CleanInit
<1>2. attested \in BOOLEAN
  BY DEF PC!CleanInit
<1>3. proc \in [Pid -> PC!Process] /\ \A p \in Pid : proc[p].start = 0
  <2>1. PICK kind \in PC!Category \ {"other"}, age \in {"mid", "old"}, home \in BOOLEAN,
             port \in [Pid -> {"slot", "stray", "none"}], up \in [Pid -> Pid \cup {"init", "shell"}] :
             /\ up[Root] \in {"init", "shell"}
             /\ \A p \in Pid \ {Root} : up[p] \in {Root, "init"}
             /\ kind # "nextjs" => \A p \in Pid : port[p] = "none"
             /\ kind = "nextjs" => home
             /\ proc = [p \in Pid |-> [start |-> 0, cat |-> kind, parent |-> up[p], home |-> home,
                                       port |-> port[p], age |-> age, busy |-> FALSE]]
             /\ attested \in {FALSE, kind = "agent-browser" /\ ~home}
    BY Zenon DEF PC!CleanInit
  <2>2. \A p \in Pid : up[p] \in Pid \cup {"init", "shell"}
                       /\ port[p] \in {"slot", "stray", "none", "unreadable"}
    OBVIOUS
  <2>3. 0 \in 0 .. MaxMoves /\ age \in {"new", "mid", "old"}
    BY ProcessAssumption
  <2>4. \A p \in Pid : [start |-> 0, cat |-> kind, parent |-> up[p], home |-> home,
                        port |-> port[p], age |-> age, busy |-> FALSE] \in PC!Process
    BY <2>2, <2>3 DEF PC!Process
  <2> QED BY <2>1, <2>4
<1>4. PC!CleanTypeOK
  <2>1. row \in [Pid -> PC!Process \cup {NULL}] /\ policy \in [Pid -> PC!Policies \cup {NULL}]
        /\ outcome \in [Pid -> {NULL, "refused", "terminated", "already_exited", "error"}]
    BY <1>1
  <2>2. moves \in 0 .. MaxMoves
    BY <1>1, ProcessAssumption
  <2>3. moved \in BOOLEAN
    BY <1>1
  <2> QED BY <1>1, <1>2, <1>3, <2>1, <2>2, <2>3 DEF PC!CleanTypeOK
<1>5. PC!ReportedIsGone
  BY <1>1, ProcessAssumption DEF PC!ReportedIsGone
<1> QED BY <1>1, <1>3, <1>4, <1>5 DEF PC!CleanInv

(* What the scan chose, it chose for a policy that suits it.                *)
LEMMA ScanKeeps == PC!CleanInv /\ PC!Scan => PC!CleanInv'
<1> SUFFICES ASSUME PC!CleanInv, PC!Scan PROVE PC!CleanInv'
  OBVIOUS
<1>1. /\ UNCHANGED <<proc, lane, session, attested, cleanupTree, cleanupAim, signalled, outcome, moved, moves>>
      /\ cpc = "scan" /\ cleanupAim = NULL /\ (\A p \in Pid : outcome[p] = NULL)
  BY DEF PC!Scan, PC!table, PC!CleanInv
<1>2. CASE lane = "unreadable"
  BY <1>1, <1>2, ProcessAssumption
     DEF PC!Scan, PC!CleanInv, PC!CleanTypeOK, PC!ReportedIsGone, PC!PolicySuits
<1>3. CASE lane # "unreadable"
  <2> DEFINE picked == {p \in PC!Live : PC!PolicyOf(p) # NULL}
  <2>1. /\ row' = [p \in Pid |-> IF p \in picked THEN proc[p] ELSE NULL]
        /\ policy' = [p \in Pid |-> IF p \in picked THEN PC!PolicyOf(p) ELSE NULL]
        /\ trees' = PC!Grouped(picked) /\ cpc' = "tree"
    BY <1>3 DEF PC!Scan
  <2>2. picked \subseteq Pid /\ \A p \in picked : proc[p] # NULL /\ p \in PC!Live /\ PC!PolicyOf(p) # NULL
    BY DEF PC!Live
  <2> HIDE DEF picked
  <2>3. /\ row' \in [Pid -> PC!Process \cup {NULL}]
        /\ \A p \in Pid : row'[p] # NULL => p \in picked /\ row'[p] = proc[p] /\ policy'[p] = PC!PolicyOf(p)
        /\ \A p \in picked : row'[p] # NULL
    BY <2>1, <2>2 DEF PC!CleanInv, PC!CleanTypeOK
  <2>4. policy' \in [Pid -> PC!Policies \cup {NULL}]
    BY <2>1, <2>2, PolicyOfSuits
  <2>5. \A t \in trees' : t \subseteq picked
    BY <2>1 DEF PC!Grouped, PC!WithChildren, PC!TopOf
  <2>6. PC!CleanTypeOK'
    BY <1>1, <2>1, <2>2, <2>3, <2>4, <2>5 DEF PC!CleanInv, PC!CleanTypeOK
  <2>7. ASSUME NEW p \in Pid, row'[p] # NULL
        PROVE  PC!PolicySuits(p)' /\ row'[p].start <= moves'
    BY <1>1, <2>2, <2>3, <2>7, PolicyOfSuits DEF PC!PolicySuits, PC!CleanInv
  <2>8. ASSUME NEW p \in Pid, row'[p] # NULL, proc'[p] # NULL
        PROVE  row'[p].start <= proc'[p].start
    <3>1. row'[p] = proc'[p] /\ row'[p] \in PC!Process
      BY <1>1, <2>3, <2>8
    <3>2. row'[p].start \in Int
      BY <3>1 DEF PC!Process
    <3> QED BY <3>1, <3>2
  <2>9. PC!ReportedIsGone'
    BY <1>1, ProcessAssumption DEF PC!ReportedIsGone
  <2>10. \A p \in cleanupTree : row'[p] # NULL
    <3>1. cleanupTree = {}
      BY <1>1 DEF PC!CleanInv
    <3> QED BY <3>1
  <2> QED BY <1>1, <2>1, <2>2, <2>3, <2>5, <2>6, <2>7, <2>8, <2>9, <2>10 DEF PC!CleanInv
<1> QED BY <1>2, <1>3

(* What a check of a process reads.                                         *)
LEMMA ValidKept ==
  ASSUME UNCHANGED <<proc, lane, session, row, policy, attested>>, NEW p, PC!Valid(p)
  PROVE  PC!Valid(p)'
BY DEF PC!Valid, PC!SameProcess, PC!Holds, PC!FreeOfOwner

(* Of a step of the cleaner that sends nothing: the outcomes it decides are *)
(* refusals, or of processes that are gone.                                 *)
LEMMA DecidesKeeps ==
  ASSUME PC!CleanInv, UNCHANGED <<proc, lane, session, row, policy, attested, signalled, moves>>,
         cpc # "scan", cpc' \in {"tree", "term", "kill", "done"}, cleanupAim' = NULL,
         moved' \in BOOLEAN,
         cleanupTree' \subseteq Pid, \A p \in cleanupTree' : row[p] # NULL,
         trees' \subseteq trees,
         outcome' \in [Pid -> {NULL, "refused", "terminated", "already_exited", "error"}],
         \A p \in Pid : \/ outcome'[p] \in {outcome[p], "refused"}
                        \/ row[p] # NULL /\ proc[p] = NULL
  PROVE  PC!CleanInv'
<1>1. PC!CleanTypeOK'
  BY DEF PC!CleanInv, PC!CleanTypeOK
<1>2. PC!ReportedIsGone'
  BY DEF PC!CleanInv, PC!ReportedIsGone
<1>3. \A p \in Pid : PC!PolicySuits(p) => PC!PolicySuits(p)'
  BY DEF PC!PolicySuits
<1>4. /\ cpc' \notin {"scan", "send_term", "send_kill"}
      /\ \A p \in Pid : /\ row[p] # NULL => row[p].start <= moves
                        /\ proc[p] # NULL => proc[p].start <= moves
                        /\ row[p] # NULL /\ proc[p] # NULL => row[p].start <= proc[p].start
      /\ \A p \in Pid : row[p] # NULL => PC!PolicySuits(p)
      /\ \A t \in trees : \A p \in t : row[p] # NULL
  BY DEF PC!CleanInv
<1> QED BY <1>1, <1>2, <1>3, <1>4 DEF PC!CleanInv

LEMMA NextTreeKeeps == PC!CleanInv /\ PC!NextTree => PC!CleanInv'
<1> SUFFICES ASSUME PC!CleanInv, PC!NextTree PROVE PC!CleanInv'
  OBVIOUS
<1>1. /\ UNCHANGED <<proc, lane, session, row, policy, attested, signalled, moves, moved, outcome, cleanupAim>>
      /\ cpc = "tree" /\ cpc' \in {"tree", "done"} /\ trees' \subseteq trees
  BY DEF PC!NextTree, PC!table, PC!rows
<1>2. cleanupTree' \subseteq Pid /\ \A p \in cleanupTree' : row[p] # NULL
  BY DEF PC!NextTree, PC!CleanInv, PC!CleanTypeOK
<1>3. cleanupAim = NULL /\ moved \in BOOLEAN
      /\ outcome \in [Pid -> {NULL, "refused", "terminated", "already_exited", "error"}]
  BY <1>1 DEF PC!CleanInv, PC!CleanTypeOK
<1> QED BY <1>1, <1>2, <1>3, DecidesKeeps

LEMMA CheckTreeKeeps == PC!CleanInv /\ PC!CheckTree => PC!CleanInv'
<1> SUFFICES ASSUME PC!CleanInv, PC!CheckTree PROVE PC!CleanInv'
  OBVIOUS
<1>1. /\ UNCHANGED <<proc, lane, session, row, policy, attested, signalled, moves, moved, trees, cleanupAim>>
      /\ cpc = "tree" /\ cpc' \in {"tree", "term"} /\ cleanupTree' \subseteq cleanupTree
  BY DEF PC!CheckTree, PC!table, PC!rows
<1>2. cleanupTree' \subseteq Pid /\ \A p \in cleanupTree' : row[p] # NULL
  BY <1>1 DEF PC!CleanInv, PC!CleanTypeOK
<1>3. cleanupAim = NULL /\ moved \in BOOLEAN
      /\ outcome \in [Pid -> {NULL, "refused", "terminated", "already_exited", "error"}]
  BY <1>1 DEF PC!CleanInv, PC!CleanTypeOK
<1>4. \/ outcome' = outcome
      \/ outcome' = [p \in Pid |-> IF p \in cleanupTree THEN "refused" ELSE outcome[p]]
  BY DEF PC!CheckTree, PC!Decide
<1>5. /\ outcome' \in [Pid -> {NULL, "refused", "terminated", "already_exited", "error"}]
      /\ \A p \in Pid : outcome'[p] \in {outcome[p], "refused"}
  BY <1>3, <1>4
<1> QED BY <1>1, <1>2, <1>3, <1>5, DecidesKeeps

(* A check before a signal finds the process as it was scanned, or refuses. *)
LEMMA VerifyKeeps ==
  ASSUME PC!CleanInv, NEW from \in {"term", "kill"}, NEW next \in {"send_term", "send_kill"},
         NEW todo \in SUBSET cleanupTree, PC!Verify(from, next, todo)
  PROVE  PC!CleanInv'
<1>1. /\ UNCHANGED <<proc, lane, session, row, policy, attested, signalled, moves, trees, cleanupTree>>
      /\ cpc = from /\ cleanupAim = NULL
  BY DEF PC!Verify, PC!table, PC!rows, PC!CleanInv
<1>2. /\ outcome \in [Pid -> {NULL, "refused", "terminated", "already_exited", "error"}]
      /\ moved \in BOOLEAN /\ cleanupTree \subseteq Pid /\ \A p \in cleanupTree : row[p] # NULL
  BY DEF PC!CleanInv, PC!CleanTypeOK
<1>3. PICK p \in todo : IF PC!Valid(p)
         THEN cpc' = next /\ cleanupAim' = p /\ moved' = FALSE /\ UNCHANGED outcome
         ELSE PC!Decide({p}, "refused") /\ UNCHANGED <<cpc, cleanupAim, moved>>
  BY DEF PC!Verify
<1>4. p \in Pid /\ row[p] # NULL
  BY <1>2
<1>5. CASE ~PC!Valid(p)
  <2>1. outcome' = [q \in Pid |-> IF q = p THEN "refused" ELSE outcome[q]] /\ UNCHANGED <<cpc, cleanupAim, moved>>
    BY <1>3, <1>5 DEF PC!Decide
  <2>2. /\ outcome' \in [Pid -> {NULL, "refused", "terminated", "already_exited", "error"}]
        /\ \A q \in Pid : outcome'[q] \in {outcome[q], "refused"}
    BY <1>2, <2>1
  <2> QED BY <1>1, <1>2, <2>1, <2>2, DecidesKeeps
<1>6. CASE PC!Valid(p)
  <2>1. cpc' = next /\ cleanupAim' = p /\ moved' = FALSE /\ UNCHANGED outcome
    BY <1>3, <1>6
  <2>2. PC!Valid(p)'
    BY <1>1, <1>6, ValidKept
  <2>3. PC!CleanTypeOK'
    BY <1>1, <1>4, <2>1 DEF PC!CleanInv, PC!CleanTypeOK
  <2>4. PC!ReportedIsGone'
    BY <1>1, <2>1 DEF PC!CleanInv, PC!ReportedIsGone
  <2>5. \A q \in Pid : PC!PolicySuits(q) => PC!PolicySuits(q)'
    BY <1>1 DEF PC!PolicySuits
  <2> QED BY <1>1, <1>4, <2>1, <2>2, <2>3, <2>4, <2>5 DEF PC!CleanInv
<1> QED BY <1>5, <1>6

(* What happens to the processes outside a check: starts only grow.         *)
LEMMA TableMoves ==
  ASSUME PC!CleanInv, UNCHANGED <<row, policy, attested, trees>>,
         lane' \in {"free", "held", "unreadable"}, session' \in BOOLEAN, moved' \in BOOLEAN,
         cleanupTree' \subseteq cleanupTree, signalled' \subseteq Pid,
         moves' \in 0 .. MaxMoves, moves <= moves',
         proc' \in [Pid -> PC!Process \cup {NULL}],
         \A p \in Pid : proc'[p] # NULL =>
            \/ proc[p] # NULL /\ proc'[p].start = proc[p].start
            \/ moves < moves' /\ proc'[p].start = moves',
         outcome' \in [Pid -> {NULL, "refused", "terminated", "already_exited", "error"}],
         \A p \in Pid : \/ outcome'[p] \in {outcome[p], "error"}
                        \/ row[p] # NULL /\ proc'[p] = NULL,
         cpc = "scan" => UNCHANGED outcome,
         \/ UNCHANGED <<cpc, cleanupAim>> /\ moved'
         \/ cpc # "scan" /\ cpc' \in {"term", "kill"} /\ cleanupAim' = NULL
  PROVE  PC!CleanInv'
<1>1. /\ row \in [Pid -> PC!Process \cup {NULL}] /\ moves \in Nat
      /\ proc \in [Pid -> PC!Process \cup {NULL}]
      /\ \A p \in PC!Process : p.start \in Nat
  BY ProcessAssumption DEF PC!CleanInv, PC!CleanTypeOK, PC!Process
<1>2. PC!CleanTypeOK'
  BY DEF PC!CleanInv, PC!CleanTypeOK
<1>3. ASSUME NEW p \in Pid
      PROVE  /\ row'[p] # NULL => PC!PolicySuits(p)' /\ row'[p].start <= moves'
             /\ proc'[p] # NULL => proc'[p].start <= moves'
             /\ row'[p] # NULL /\ proc'[p] # NULL => row'[p].start <= proc'[p].start
  <2>1. /\ row[p] # NULL => PC!PolicySuits(p) /\ row[p].start <= moves /\ row[p].start \in Nat
        /\ proc[p] # NULL => proc[p].start <= moves /\ proc[p].start \in Nat
        /\ row[p] # NULL /\ proc[p] # NULL => row[p].start <= proc[p].start
    BY <1>1 DEF PC!CleanInv
  <2>2. PC!PolicySuits(p) => PC!PolicySuits(p)'
    BY DEF PC!PolicySuits
  <2>3. row'[p] = row[p] /\ moves' \in Nat /\ moves <= moves'
    BY ProcessAssumption
  <2>4. proc'[p] # NULL =>
            \/ proc[p] # NULL /\ proc'[p].start = proc[p].start
            \/ moves < moves' /\ proc'[p].start = moves'
    OBVIOUS
  <2> QED BY <1>1, <2>1, <2>2, <2>3, <2>4
<1>4. PC!ReportedIsGone'
  <2> SUFFICES ASSUME NEW p \in Pid, outcome'[p] \in {"terminated", "already_exited"}
               PROVE  row'[p] # NULL /\ (proc'[p] = NULL \/ proc'[p].start # row'[p].start)
    BY DEF PC!ReportedIsGone
  <2>1. CASE row[p] # NULL /\ proc'[p] = NULL
    BY <2>1
  <2>2. CASE outcome'[p] = outcome[p] /\ proc'[p] # NULL
    <3>1. row[p] # NULL /\ (proc[p] = NULL \/ proc[p].start # row[p].start)
      BY <2>2 DEF PC!CleanInv, PC!ReportedIsGone
    <3>2. row[p].start <= moves /\ row[p].start \in Nat
      BY <1>1, <3>1 DEF PC!CleanInv
    <3>3. \/ proc[p] # NULL /\ proc'[p].start = proc[p].start
          \/ moves < moves' /\ proc'[p].start = moves'
      BY <2>2
    <3> QED BY <1>1, <3>1, <3>2, <3>3, ProcessAssumption
  <2>3. CASE outcome'[p] = outcome[p] /\ proc'[p] = NULL
    BY <2>3 DEF PC!CleanInv, PC!ReportedIsGone
  <2> QED BY <2>1, <2>2, <2>3
<1>5. /\ (cpc' = "scan" => cleanupTree' = {} /\ \A p \in Pid : outcome'[p] = NULL)
      /\ (\A p \in cleanupTree' : row'[p] # NULL) /\ (\A t \in trees' : \A p \in t : row'[p] # NULL)
  BY DEF PC!CleanInv
<1>6. /\ cpc' \in {"send_term", "send_kill"} =>
            cleanupAim' \in Pid /\ row'[cleanupAim'] # NULL /\ moved'
      /\ cpc' \notin {"send_term", "send_kill"} => cleanupAim' = NULL
  BY DEF PC!CleanInv
<1> QED BY <1>2, <1>3, <1>4, <1>5, <1>6 DEF PC!CleanInv

(* Who goes leaves its children to init.                                    *)
LEMMA OrphanedTypes ==
  ASSUME proc \in [Pid -> PC!Process \cup {NULL}], NEW p \in Pid
  PROVE  /\ PC!Orphaned(p) \in [Pid -> PC!Process \cup {NULL}] /\ PC!Orphaned(p)[p] = NULL
         /\ \A q \in Pid : PC!Orphaned(p)[q] # NULL =>
               proc[q] # NULL /\ PC!Orphaned(p)[q].start = proc[q].start
<1>1. \A r \in PC!Process : [r EXCEPT !.parent = "init"] \in PC!Process
                            /\ [r EXCEPT !.parent = "init"].start = r.start
  BY DEF PC!Process
<1>2. \A q \in Pid : proc[q] \in PC!Process \cup {NULL}
  OBVIOUS
<1>3. ASSUME NEW q \in Pid
      PROVE  /\ PC!Orphaned(p)[q] \in PC!Process \cup {NULL}
             /\ PC!Orphaned(p)[q] # NULL => proc[q] # NULL /\ PC!Orphaned(p)[q].start = proc[q].start
  BY <1>1, <1>2 DEF PC!Orphaned
<1>4. PC!Orphaned(p) = [q \in Pid |-> PC!Orphaned(p)[q]] /\ PC!Orphaned(p)[p] = NULL
  BY DEF PC!Orphaned
<1> QED BY <1>3, <1>4

LEMMA SendTermCleans == PC!CleanInv /\ PC!SendTerm => PC!CleanInv'
<1> SUFFICES ASSUME PC!CleanInv, PC!SendTerm PROVE PC!CleanInv'
  OBVIOUS
<1>1. /\ UNCHANGED <<lane, session, row, policy, attested, cleanupTree, trees, moved, moves>>
      /\ cpc = "send_term" /\ cpc' = "term" /\ cleanupAim' = NULL
  BY DEF PC!SendTerm, PC!rows
<1>2. /\ proc \in [Pid -> PC!Process \cup {NULL}] /\ cleanupAim \in Pid /\ row[cleanupAim] # NULL
      /\ outcome \in [Pid -> {NULL, "refused", "terminated", "already_exited", "error"}]
      /\ signalled \subseteq Pid /\ moves \in 0 .. MaxMoves
      /\ lane \in {"free", "held", "unreadable"}
  BY <1>1 DEF PC!CleanInv, PC!CleanTypeOK
<1>3. session \in BOOLEAN /\ moved \in BOOLEAN
  BY DEF PC!CleanInv, PC!CleanTypeOK
<1>4. signalled' \subseteq Pid /\ proc' \in {proc, PC!Orphaned(cleanupAim)}
  BY <1>2 DEF PC!SendTerm
<1>5. proc' \in [Pid -> PC!Process \cup {NULL}]
      /\ \A p \in Pid : proc'[p] # NULL => proc[p] # NULL /\ proc'[p].start = proc[p].start
  BY <1>2, <1>4, OrphanedTypes
<1>6. \/ outcome' = outcome
      \/ outcome' = [p \in Pid |-> IF p = cleanupAim THEN "error" ELSE outcome[p]]
      \/ /\ proc[cleanupAim] = NULL /\ proc' = proc
         /\ outcome' = [p \in Pid |-> IF p = cleanupAim THEN "already_exited" ELSE outcome[p]]
  BY DEF PC!SendTerm, PC!Decide
<1>7. /\ outcome' \in [Pid -> {NULL, "refused", "terminated", "already_exited", "error"}]
      /\ \A p \in Pid : outcome'[p] \in {outcome[p], "error"} \/ (row[p] # NULL /\ proc'[p] = NULL)
  BY <1>2, <1>6
<1> QED BY <1>1, <1>2, <1>3, <1>4, <1>5, <1>7, ProcessAssumption, TableMoves

LEMMA SendKillCleans == PC!CleanInv /\ PC!SendKill => PC!CleanInv'
<1> SUFFICES ASSUME PC!CleanInv, PC!SendKill PROVE PC!CleanInv'
  OBVIOUS
<1>1. /\ UNCHANGED <<lane, session, row, policy, attested, cleanupTree, trees, signalled, moved, moves>>
      /\ cpc = "send_kill" /\ cpc' = "kill" /\ cleanupAim' = NULL
  BY DEF PC!SendKill, PC!rows
<1>2. /\ proc \in [Pid -> PC!Process \cup {NULL}] /\ cleanupAim \in Pid /\ row[cleanupAim] # NULL
      /\ outcome \in [Pid -> {NULL, "refused", "terminated", "already_exited", "error"}]
      /\ signalled \subseteq Pid /\ moves \in 0 .. MaxMoves
      /\ lane \in {"free", "held", "unreadable"}
  BY <1>1 DEF PC!CleanInv, PC!CleanTypeOK
<1>3. session \in BOOLEAN /\ moved \in BOOLEAN
  BY DEF PC!CleanInv, PC!CleanTypeOK
<1>4. \/ /\ proc' = PC!Orphaned(cleanupAim)
         /\ outcome' = [p \in Pid |-> IF p = cleanupAim THEN "terminated" ELSE outcome[p]]
      \/ /\ proc' = proc
         /\ outcome' = [p \in Pid |-> IF p = cleanupAim THEN "error" ELSE outcome[p]]
  BY DEF PC!SendKill, PC!Decide
<1>5. proc' \in [Pid -> PC!Process \cup {NULL}]
      /\ \A p \in Pid : proc'[p] # NULL => proc[p] # NULL /\ proc'[p].start = proc[p].start
  BY <1>2, <1>4, OrphanedTypes
<1>6. proc' = PC!Orphaned(cleanupAim) => proc'[cleanupAim] = NULL
  BY <1>2, OrphanedTypes
<1>7. /\ outcome' \in [Pid -> {NULL, "refused", "terminated", "already_exited", "error"}]
      /\ \A p \in Pid : outcome'[p] \in {outcome[p], "error"} \/ (row[p] # NULL /\ proc'[p] = NULL)
  BY <1>2, <1>4, <1>6
<1> QED BY <1>1, <1>2, <1>3, <1>5, <1>7, ProcessAssumption, TableMoves

LEMMA KillStepsKeep == PC!CleanInv /\ (PC!Wait \/ PC!AlreadyGone \/ PC!TreeDone) => PC!CleanInv'
<1> SUFFICES ASSUME PC!CleanInv, PC!Wait \/ PC!AlreadyGone \/ PC!TreeDone PROVE PC!CleanInv'
  OBVIOUS
<1>1. /\ UNCHANGED <<proc, lane, session, row, policy, attested, signalled, moves, moved, trees, cleanupAim>>
      /\ cpc \in {"term", "kill"} /\ cpc' \in {"kill", "tree"} /\ cleanupTree' \in {cleanupTree, {}}
  BY DEF PC!Wait, PC!AlreadyGone, PC!TreeDone, PC!table, PC!rows
<1>2. /\ cleanupTree \subseteq Pid /\ \A p \in cleanupTree : row[p] # NULL
  BY DEF PC!CleanInv, PC!CleanTypeOK
<1>3. cleanupAim = NULL /\ moved \in BOOLEAN
      /\ outcome \in [Pid -> {NULL, "refused", "terminated", "already_exited", "error"}]
  BY <1>1 DEF PC!CleanInv, PC!CleanTypeOK
<1>4. \/ outcome' = outcome
      \/ \E p \in cleanupTree : /\ proc[p] = NULL
            /\ outcome' = [q \in Pid |-> IF q = p THEN "terminated" ELSE outcome[q]]
  BY DEF PC!Wait, PC!AlreadyGone, PC!TreeDone, PC!Decide, PC!Undecided
<1>5. /\ outcome' \in [Pid -> {NULL, "refused", "terminated", "already_exited", "error"}]
      /\ \A p \in Pid : outcome'[p] \in {outcome[p], "refused"} \/ (row[p] # NULL /\ proc[p] = NULL)
  BY <1>2, <1>3, <1>4
<1> QED BY <1>1, <1>2, <1>3, <1>5, DecidesKeeps

(* What every move of the world leaves alone.                               *)
Moves ==
    /\ moves < MaxMoves /\ moves' = moves + 1 /\ moved' = TRUE
    /\ UNCHANGED <<row, policy, attested, cpc, cleanupTree, trees, cleanupAim, signalled, outcome>>

LEMMA MovesKeep ==
  ASSUME PC!CleanInv, Moves, lane' \in {"free", "held", "unreadable"}, session' \in BOOLEAN,
         proc' \in [Pid -> PC!Process \cup {NULL}],
         \A p \in Pid : proc'[p] # NULL =>
            \/ proc[p] # NULL /\ proc'[p].start = proc[p].start
            \/ proc'[p].start = moves'
  PROVE  PC!CleanInv'
<1>1. /\ outcome \in [Pid -> {NULL, "refused", "terminated", "already_exited", "error"}]
      /\ signalled \subseteq Pid /\ moves \in 0 .. MaxMoves
  BY DEF PC!CleanInv, PC!CleanTypeOK
<1>2. moves' \in 0 .. MaxMoves /\ moves < moves' /\ moves <= moves'
  BY <1>1, ProcessAssumption DEF Moves
<1>3. moved' \in BOOLEAN /\ moved'
  BY DEF Moves
<1>4. UNCHANGED <<row, policy, attested, cpc, cleanupTree, trees, cleanupAim, signalled, outcome>>
  BY DEF Moves
<1> QED BY <1>1, <1>2, <1>3, <1>4, TableMoves

LEMMA ExitsKeeps == ASSUME NEW p \in Pid, PC!CleanInv, PC!World(PC!Exits(p)) PROVE PC!CleanInv'
<1>1. Moves /\ proc' = PC!Orphaned(p) /\ UNCHANGED <<lane, session>>
  BY DEF PC!World, PC!Exits, Moves, PC!rows
<1>2. proc \in [Pid -> PC!Process \cup {NULL}] /\ lane \in {"free", "held", "unreadable"} /\ session \in BOOLEAN
  BY DEF PC!CleanInv, PC!CleanTypeOK
<1>3. proc' \in [Pid -> PC!Process \cup {NULL}]
      /\ \A q \in Pid : proc'[q] # NULL => proc[q] # NULL /\ proc'[q].start = proc[q].start
  BY <1>1, <1>2, OrphanedTypes
<1> QED BY <1>1, <1>2, <1>3, MovesKeep

LEMMA ReusedKeeps == ASSUME NEW p \in Pid, PC!CleanInv, PC!World(PC!Reused(p)) PROVE PC!CleanInv'
<1>1. Moves /\ UNCHANGED <<lane, session>>
  BY DEF PC!World, PC!Reused, Moves, PC!rows
<1>2. PICK kind \in {"nextjs", "other"}, home \in BOOLEAN :
         proc' = [proc EXCEPT ![p] = [start |-> moves + 1, cat |-> kind, parent |-> "shell", home |-> home,
                                      port |-> "none", age |-> "new", busy |-> FALSE]]
  BY DEF PC!World, PC!Reused
<1>3. /\ proc \in [Pid -> PC!Process \cup {NULL}] /\ lane \in {"free", "held", "unreadable"}
      /\ moves' = moves + 1 /\ moves + 1 \in 0 .. MaxMoves
  BY <1>1, ProcessAssumption DEF PC!CleanInv, PC!CleanTypeOK, Moves
<1> DEFINE new == [start |-> moves + 1, cat |-> kind, parent |-> "shell", home |-> home,
                   port |-> "none", age |-> "new", busy |-> FALSE]
<1>4. new \in PC!Process /\ new.start = moves'
  BY <1>3 DEF PC!Process, PC!Category
<1>5. proc' = [proc EXCEPT ![p] = new]
  BY <1>2
<1> HIDE DEF new
<1>6. /\ proc' \in [Pid -> PC!Process \cup {NULL}]
      /\ \A q \in Pid : proc'[q] = proc[q] \/ proc'[q].start = moves'
  BY <1>3, <1>4, <1>5
<1>7. session \in BOOLEAN
  BY DEF PC!CleanInv, PC!CleanTypeOK
<1> QED BY <1>1, <1>3, <1>6, <1>7, MovesKeep

LEMMA ChangesKeep ==
  ASSUME NEW p \in Pid, PC!CleanInv, PC!World(PC!TakesPort(p)) \/ PC!World(PC!Works(p)) PROVE PC!CleanInv'
<1>1. Moves /\ UNCHANGED <<lane, session>> /\ proc[p] # NULL
  BY DEF PC!World, PC!TakesPort, PC!Works, Moves, PC!rows
<1>2. /\ proc \in [Pid -> PC!Process \cup {NULL}] /\ lane \in {"free", "held", "unreadable"}
  BY DEF PC!CleanInv, PC!CleanTypeOK
<1>3. PICK new \in PC!Process : new.start = proc[p].start /\ proc' = [proc EXCEPT ![p] = new]
  <2>1. proc[p] \in PC!Process
    BY <1>1, <1>2
  <2>2. CASE PC!World(PC!Works(p))
    <3>1. proc' = [proc EXCEPT ![p] = [proc[p] EXCEPT !.busy = TRUE]]
      BY <2>2 DEF PC!World, PC!Works
    <3>2. [proc[p] EXCEPT !.busy = TRUE] \in PC!Process /\ [proc[p] EXCEPT !.busy = TRUE].start = proc[p].start
      BY <2>1 DEF PC!Process
    <3> QED BY <3>1, <3>2
  <2>3. CASE PC!World(PC!TakesPort(p))
    <3>1. PICK port \in {"slot", "unreadable"} : proc' = [proc EXCEPT ![p] = [proc[p] EXCEPT !.port = port]]
      BY <2>3 DEF PC!World, PC!TakesPort
    <3>2. [proc[p] EXCEPT !.port = port] \in PC!Process /\ [proc[p] EXCEPT !.port = port].start = proc[p].start
      BY <2>1, <3>1 DEF PC!Process
    <3> QED BY <3>1, <3>2
  <2> QED BY <2>2, <2>3
<1>4. /\ proc' \in [Pid -> PC!Process \cup {NULL}]
      /\ \A q \in Pid : proc'[q] # NULL => proc[q] # NULL /\ proc'[q].start = proc[q].start
  BY <1>1, <1>2, <1>3
<1>5. session \in BOOLEAN
  BY DEF PC!CleanInv, PC!CleanTypeOK
<1> QED BY <1>1, <1>2, <1>4, <1>5, MovesKeep

LEMMA SlotMovesKeep == PC!CleanInv /\ PC!World(PC!SlotMoves) => PC!CleanInv'
<1> SUFFICES ASSUME PC!CleanInv, PC!World(PC!SlotMoves) PROVE PC!CleanInv'
  OBVIOUS
<1>1. Moves /\ UNCHANGED proc
  BY DEF PC!World, PC!SlotMoves, Moves, PC!rows
<1>2. lane' \in {"free", "held", "unreadable"} /\ proc' \in [Pid -> PC!Process \cup {NULL}]
  BY <1>1 DEF PC!World, PC!SlotMoves, PC!CleanInv, PC!CleanTypeOK
<1>3. session' \in BOOLEAN
  <2>1. session \in BOOLEAN
    BY DEF PC!CleanInv, PC!CleanTypeOK
  <2>2. session' = session \/ session' = ~session
    BY DEF PC!World, PC!SlotMoves
  <2> QED BY <2>1, <2>2
<1> QED BY <1>1, <1>2, <1>3, MovesKeep

LEMMA CleanGoes == PC!CleanInv /\ [PC!CleanNext]_cleanupVars => PC!CleanInv'
<1> SUFFICES ASSUME PC!CleanInv, [PC!CleanNext]_cleanupVars PROVE PC!CleanInv'
  OBVIOUS
<1>1. CASE UNCHANGED cleanupVars
  <2>1. UNCHANGED <<proc, lane, session, row, policy, attested, cpc, cleanupTree, trees, cleanupAim, signalled,
                    outcome, moved, moves>>
    BY <1>1 DEF cleanupVars
  <2>2. \A p \in Pid : (PC!PolicySuits(p) => PC!PolicySuits(p)') /\ (PC!Valid(p) => PC!Valid(p)')
    BY <2>1, ValidKept DEF PC!PolicySuits
  <2>3. PC!CleanTypeOK'
    BY <2>1 DEF PC!CleanInv, PC!CleanTypeOK
  <2>4. PC!ReportedIsGone'
    BY <2>1 DEF PC!CleanInv, PC!ReportedIsGone
  <2> QED BY <2>1, <2>2, <2>3, <2>4 DEF PC!CleanInv
<1>2. CASE PC!Scan \/ PC!NextTree \/ PC!CheckTree
  BY <1>2, ScanKeeps, NextTreeKeeps, CheckTreeKeeps
<1>3. CASE PC!VerifyForTerm
  <2>1. PC!Undecided \ signalled \in SUBSET cleanupTree
    BY DEF PC!Undecided
  <2> QED BY <1>3, <2>1, VerifyKeeps DEF PC!VerifyForTerm
<1>4. CASE PC!VerifyForKill
  <2>1. {p \in PC!Undecided : proc[p] # NULL} \in SUBSET cleanupTree
    BY DEF PC!Undecided
  <2> QED BY <1>4, <2>1, VerifyKeeps DEF PC!VerifyForKill
<1>5. CASE PC!SendTerm \/ PC!SendKill \/ PC!Wait \/ PC!AlreadyGone \/ PC!TreeDone
  BY <1>5, SendTermCleans, SendKillCleans, KillStepsKeep
<1>6. CASE PC!World(PC!SlotMoves)
  BY <1>6, SlotMovesKeep
<1>7. ASSUME NEW p \in Pid,
             PC!World(PC!Exits(p)) \/ PC!World(PC!Reused(p)) \/ PC!World(PC!TakesPort(p)) \/ PC!World(PC!Works(p))
      PROVE  PC!CleanInv'
  BY <1>7, ExitsKeeps, ReusedKeeps, ChangesKeep
<1> QED BY <1>1, <1>2, <1>3, <1>4, <1>5, <1>6, <1>7 DEF PC!CleanNext, PC!Cleaner

LEMMA CleanRests == PC!CleanInv => PC!ReportedIsGone
BY DEF PC!CleanInv

(* Between the check and the signal of a process nothing moved: it is the   *)
(* one that was scanned, and its policy still holds.                        *)
LEMMA SignalsRest == PC!CleanInv => PC!SignalsTheScannedStep
<1> SUFFICES ASSUME PC!CleanInv, NEW p \in Pid, cleanupAim = p, ~moved
             PROVE  /\ proc[p] # NULL => proc[p].start = row[p].start
                    /\ row[p].cat = "nextjs" => row[p].home /\ (session => lane = "free")
                    /\ row[p].cat = "agent-browser" /\ row[p].home => ~session
  BY DEF PC!SignalsTheScannedStep
<1>1. p # NULL
  BY ProcessAssumption
<1>2. PC!Valid(p) /\ row[p] # NULL /\ PC!PolicySuits(p)
  BY <1>1 DEF PC!CleanInv
<1>3. policy[p] \in PC!Policies
  BY <1>2 DEF PC!PolicySuits, PC!CleanInv, PC!CleanTypeOK
<1>4. proc[p].start = row[p].start /\ (row[p].cat = "agent-browser" /\ row[p].home => ~session) /\ PC!Holds(p)
  BY <1>2 DEF PC!Valid, PC!SameProcess
<1>5. ASSUME row[p].cat = "nextjs" PROVE row[p].home /\ (session => lane = "free")
  <2>1. policy[p] \in {"dead_slot_session", "duplicate_dev_server", "stale_owner"}
    BY <1>2, <1>3, <1>5 DEF PC!PolicySuits, PC!Policies
  <2>2. row[p].home
    BY <1>2, <1>5, <2>1 DEF PC!PolicySuits
  <2> QED BY <1>4, <2>1, <2>2 DEF PC!Holds, PC!FreeOfOwner
<1> QED BY <1>4, <1>5

-----------------------------------------------------------------------------
(* The brokers of Codex (CodexBroker).                                      *)

BrokerFacts == CB!Up("broker") = "init" /\ CB!Up("server") = "broker" /\ CB!Up("tool") = "server"

LEMMA UpIs == BrokerFacts
BY DEF BrokerFacts, CB!Up

LEMMA BrokerStarts == CB!BrokerInit => CB!BrokerInv
<1> SUFFICES ASSUME CB!BrokerInit PROVE CB!BrokerInv
  OBVIOUS
<1> USE BrokerAssumption, UpIs DEF BrokerFacts, CB!BrokerInit, CB!Member
<1>1. parent \in [CB!Member -> CB!Member \cup {"init", "session"}]
  <2>1. PICK root \in {"init", "session"} :
           parent = [p \in CB!Member |-> IF p = "broker" THEN root ELSE CB!Up(p)]
    OBVIOUS
  <2>2. \A p \in CB!Member : parent[p] \in CB!Member \cup {"init", "session"}
    BY <2>1
  <2> QED BY <2>1, <2>2
<1>2. life \in [CB!Member -> {"up", "exiting", "none", "reused"}]
  OBVIOUS
<1>3. /\ client \in {"no", "yes"} /\ companion \in {"none", "inflight", "incwd"}
      /\ aged \in BOOLEAN /\ bpc = "plan" /\ planned = {} /\ brokerTodo = {} /\ sent = {}
      /\ victim = NULL /\ result = NULL /\ stirred = FALSE /\ turns = 0
  OBVIOUS
<1> HIDE DEF CB!BrokerInit
<1>4. CB!BrokerTypeOK
  <2>1. client \in {"no", "yes", "unknown"} /\ companion \in {"none", "inflight", "incwd", "unknown"}
    BY <1>3
  <2>2. bpc \in {"plan", "term", "send_term", "wait", "kill", "send_kill", "read", "done"}
        /\ turns \in 0 .. MaxTurns
    BY <1>3
  <2>4. stirred \in BOOLEAN /\ aged \in BOOLEAN
    BY <1>3
  <2>3. victim \in CB!Member \cup {NULL} /\ result \in {NULL, "reported", "refused", "terminated"}
    BY <1>3
  <2> QED BY <1>1, <1>2, <1>3, <2>1, <2>2, <2>3, <2>4 DEF CB!BrokerTypeOK
<1> QED BY <1>3, <1>4 DEF CB!BrokerInv

LEMMA PlanKeeps == CB!BrokerInv /\ CB!Plan => CB!BrokerInv'
<1> SUFFICES ASSUME CB!BrokerInv, CB!Plan PROVE CB!BrokerInv'
  OBVIOUS
<1>1. CB!Group \subseteq CB!Member
  BY DEF CB!Group, CB!Descendants, CB!Below, CB!Present, CB!Member
<1> QED BY <1>1 DEF CB!BrokerInv, CB!BrokerTypeOK, CB!Plan, CB!system

LEMMA CheckKeeps ==
  ASSUME CB!BrokerInv, NEW from \in {"term", "kill"}, NEW send \in {"send_term", "send_kill"},
         CB!Check(from, send)
  PROVE  CB!BrokerInv'
<1>1. CASE ~CB!Verified /\ bpc' = "done" /\ result' = "refused" /\ UNCHANGED <<brokerTodo, victim, stirred>>
  BY <1>1 DEF CB!BrokerInv, CB!BrokerTypeOK, CB!Check, CB!system
<1>2. ASSUME CB!Verified, NEW p \in CB!Last(brokerTodo), p \in CB!Present, victim' = p, bpc' = send,
             UNCHANGED <<brokerTodo, result>>, stirred' = FALSE
      PROVE  CB!BrokerInv'
  <2>1. UNCHANGED <<CB!Verified, CB!Last(brokerTodo)>>
    BY <1>2 DEF CB!Check, CB!system, CB!Verified, CB!ParentsKept, CB!GroupKept, CB!IdentityKept, CB!Quiet, CB!NoWork,
       CB!Remaining, CB!Present, CB!Descendants, CB!Below, CB!Group, CB!OrphanRoot, CB!Last
  <2>2. p \in brokerTodo /\ p \in CB!Member
    BY <1>2 DEF CB!Last, CB!BrokerInv, CB!BrokerTypeOK
  <2> QED BY <1>2, <2>1, <2>2 DEF CB!BrokerInv, CB!BrokerTypeOK, CB!Check, CB!system
<1>3. ASSUME NEW p \in CB!Last(brokerTodo), p \notin CB!Present, brokerTodo' = brokerTodo \ {p},
             UNCHANGED <<victim, bpc, result>>, stirred' = FALSE
      PROVE  CB!BrokerInv'
  <2>1. life[p] = "none"
    BY <1>3 DEF CB!Last, CB!BrokerInv, CB!BrokerTypeOK, CB!Present
  <2> QED BY <1>3, <2>1 DEF CB!BrokerInv, CB!BrokerTypeOK, CB!Check, CB!system
<1> QED BY <1>1, <1>2, <1>3 DEF CB!Check

(* Who leaves the table is gone, and its children have another parent.      *)
LEMMA ExitTypes ==
  ASSUME CB!BrokerInv, NEW p \in CB!Member, CB!Exit(p)
  PROVE  /\ life' \in [CB!Member -> {"up", "exiting", "none", "reused"}]
         /\ parent' \in [CB!Member -> CB!Member \cup {"init", "session"}]
         /\ life'[p] = "none" /\ \A q \in CB!Member \ {p} : life'[q] = life[q]
<1>1. \A q \in CB!Member : CB!Up(q) \in CB!Member \cup {"init"}
  BY UpIs DEF BrokerFacts, CB!Member
<1>2. life \in [CB!Member -> {"up", "exiting", "none", "reused"}]
      /\ parent \in [CB!Member -> CB!Member \cup {"init", "session"}]
  BY DEF CB!BrokerInv, CB!BrokerTypeOK
<1> QED BY <1>1, <1>2 DEF CB!Exit

LEMMA SignalKeeps ==
  ASSUME CB!BrokerInv, NEW from \in {"send_term", "send_kill"}, NEW next \in {"term", "kill"},
         bpc = from, brokerTodo' = brokerTodo \ {victim}, victim' = NULL,
         UNCHANGED <<client, companion, aged, planned, stirred, turns>>,
         \/ bpc' = "done" /\ result' = "refused" /\ UNCHANGED <<life, parent, sent>>
         \/ /\ \/ CB!Exit(victim)
               \/ UNCHANGED <<life, parent>>
               \/ life' = [life EXCEPT ![victim] = "exiting"] /\ UNCHANGED parent
            /\ bpc' = next /\ sent' = sent \cup {victim} /\ UNCHANGED result
  PROVE  CB!BrokerInv'
<1>1. victim \in CB!Member /\ victim \in brokerTodo /\ brokerTodo \subseteq planned
  BY DEF CB!BrokerInv, CB!BrokerTypeOK
<1>2. /\ life' \in [CB!Member -> {"up", "exiting", "none", "reused"}]
      /\ parent' \in [CB!Member -> CB!Member \cup {"init", "session"}]
      /\ \A q \in CB!Member \ {victim} : life'[q] = life[q]
  <2>1. CASE CB!Exit(victim)
    BY <1>1, <2>1, ExitTypes
  <2>2. CASE ~CB!Exit(victim)
    BY <1>1, <2>2 DEF CB!BrokerInv, CB!BrokerTypeOK
  <2> QED BY <2>1, <2>2
<1>3. CB!BrokerTypeOK'
  BY <1>1, <1>2 DEF CB!BrokerInv, CB!BrokerTypeOK
<1> QED BY <1>1, <1>2, <1>3, BrokerAssumption DEF CB!BrokerInv, CB!BrokerTypeOK

LEMMA SendTermKeeps == CB!BrokerInv /\ CB!SendTerm => CB!BrokerInv'
<1> SUFFICES ASSUME CB!BrokerInv, CB!SendTerm PROVE CB!BrokerInv'
  OBVIOUS
<1>1. bpc = "send_term" /\ brokerTodo' = brokerTodo \ {victim} /\ victim' = NULL
      /\ UNCHANGED <<client, companion, aged, planned, stirred, turns>>
  BY DEF CB!SendTerm, CB!Signal
<1>2. \/ bpc' = "done" /\ result' = "refused" /\ UNCHANGED <<life, parent, sent>>
      \/ /\ \/ CB!Exit(victim)
            \/ UNCHANGED <<life, parent>>
            \/ life' = [life EXCEPT ![victim] = "exiting"] /\ UNCHANGED parent
         /\ bpc' = "term" /\ sent' = sent \cup {victim} /\ UNCHANGED result
  BY DEF CB!SendTerm, CB!Signal
<1> QED BY <1>1, <1>2, SignalKeeps

LEMMA SendKillKeeps == CB!BrokerInv /\ CB!SendKill => CB!BrokerInv'
<1> SUFFICES ASSUME CB!BrokerInv, CB!SendKill PROVE CB!BrokerInv'
  OBVIOUS
<1>1. bpc = "send_kill" /\ brokerTodo' = brokerTodo \ {victim} /\ victim' = NULL
      /\ UNCHANGED <<client, companion, aged, planned, stirred, turns>>
  BY DEF CB!SendKill, CB!Signal
<1>2. \/ bpc' = "done" /\ result' = "refused" /\ UNCHANGED <<life, parent, sent>>
      \/ CB!Exit(victim) /\ bpc' = "kill" /\ sent' = sent \cup {victim} /\ UNCHANGED result
  BY DEF CB!SendKill, CB!Signal
<1> QED BY <1>1, <1>2, SignalKeeps

(* What every move of the world leaves alone.                               *)
Stirs ==
    /\ turns < MaxTurns /\ turns' = turns + 1 /\ stirred' = TRUE /\ bpc # "done"
    /\ UNCHANGED <<aged, bpc, planned, brokerTodo, sent, victim, result>>

LEMMA StirKeeps ==
  ASSUME CB!BrokerInv, Stirs,
         client' \in {"no", "yes", "unknown"}, companion' \in {"none", "inflight", "incwd", "unknown"},
         life' \in [CB!Member -> {"up", "exiting", "none", "reused"}],
         parent' \in [CB!Member -> CB!Member \cup {"init", "session"}],
         \A p \in CB!Member : life'[p] \in {life[p], "none"} \/ (life[p] = "none" /\ life'[p] = "reused")
  PROVE  CB!BrokerInv'
<1>1. CB!BrokerTypeOK'
  BY BrokerAssumption DEF Stirs, CB!BrokerInv, CB!BrokerTypeOK
<1> QED BY <1>1 DEF Stirs, CB!BrokerInv, CB!BrokerTypeOK

LEMMA BrokerGoes == CB!BrokerInv /\ [CB!BrokerNext]_brokerVars => CB!BrokerInv'
<1> SUFFICES ASSUME CB!BrokerInv, [CB!BrokerNext]_brokerVars PROVE CB!BrokerInv'
  OBVIOUS
<1>1. CASE UNCHANGED brokerVars
  <2>1. UNCHANGED <<CB!Verified, CB!Last(brokerTodo)>>
    BY <1>1 DEF brokerVars, CB!Verified, CB!ParentsKept, CB!GroupKept, CB!IdentityKept, CB!Quiet, CB!NoWork,
       CB!Remaining, CB!Present, CB!Descendants, CB!Below, CB!Group, CB!OrphanRoot, CB!Last
  <2> QED BY <1>1, <2>1 DEF brokerVars, CB!BrokerInv, CB!BrokerTypeOK
<1>2. CASE CB!Plan
  BY <1>2, PlanKeeps
<1>3. CASE CB!CheckTerm \/ CB!CheckKill
  BY <1>3, CheckKeeps DEF CB!CheckTerm, CB!CheckKill
<1>4. CASE CB!SendTerm \/ CB!SendKill
  BY <1>4, SendTermKeeps, SendKillKeeps
<1>5. CASE CB!Wait
  BY <1>5 DEF CB!Wait, CB!system, CB!BrokerInv, CB!BrokerTypeOK
<1>6. CASE CB!FinalRead
  BY <1>6 DEF CB!FinalRead, CB!system, CB!BrokerInv, CB!BrokerTypeOK
<1>7. ASSUME CB!Stir(CB!Connects) \/ CB!Stir(CB!Companion) PROVE CB!BrokerInv'
  <2>1. Stirs /\ UNCHANGED <<life, parent>>
    BY <1>7 DEF CB!Stir, CB!Connects, CB!Companion, Stirs
  <2>2. client' \in {"no", "yes", "unknown"} /\ companion' \in {"none", "inflight", "incwd", "unknown"}
    BY <1>7 DEF CB!Stir, CB!Connects, CB!Companion, CB!BrokerInv, CB!BrokerTypeOK
  <2>3. life' \in [CB!Member -> {"up", "exiting", "none", "reused"}]
        /\ parent' \in [CB!Member -> CB!Member \cup {"init", "session"}]
        /\ \A q \in CB!Member : life'[q] = life[q]
    BY <2>1 DEF CB!BrokerInv, CB!BrokerTypeOK
  <2> QED BY <2>1, <2>2, <2>3, StirKeeps
<1>8. ASSUME NEW p \in CB!Member, CB!Stir(CB!Dies(p)) PROVE CB!BrokerInv'
  <2>1. Stirs /\ CB!Exit(p) /\ UNCHANGED <<client, companion>>
    BY <1>8 DEF CB!Stir, CB!Dies, Stirs
  <2>2. client' \in {"no", "yes", "unknown"} /\ companion' \in {"none", "inflight", "incwd", "unknown"}
    BY <2>1 DEF CB!BrokerInv, CB!BrokerTypeOK
  <2>3. /\ life' \in [CB!Member -> {"up", "exiting", "none", "reused"}]
        /\ parent' \in [CB!Member -> CB!Member \cup {"init", "session"}]
        /\ life'[p] = "none" /\ \A q \in CB!Member \ {p} : life'[q] = life[q]
    BY <2>1, ExitTypes
  <2>4. \A q \in CB!Member : life'[q] \in {life[q], "none"}
    BY <2>3
  <2> QED BY <2>1, <2>2, <2>3, <2>4, StirKeeps
<1>9. ASSUME NEW p \in CB!Member, CB!Stir(CB!Spawns(p)) PROVE CB!BrokerInv'
  <2>1. /\ Stirs /\ life[p] = "none" /\ life' = [life EXCEPT ![p] = "reused"]
        /\ parent' = [parent EXCEPT ![p] = CB!Up(p)] /\ UNCHANGED <<client, companion>>
    BY <1>9 DEF CB!Stir, CB!Spawns, Stirs
  <2>2. client' \in {"no", "yes", "unknown"} /\ companion' \in {"none", "inflight", "incwd", "unknown"}
    BY <2>1 DEF CB!BrokerInv, CB!BrokerTypeOK
  <2>3. CB!Up(p) \in CB!Member \cup {"init"}
    BY UpIs DEF BrokerFacts, CB!Member
  <2>4. /\ life' \in [CB!Member -> {"up", "exiting", "none", "reused"}]
        /\ parent' \in [CB!Member -> CB!Member \cup {"init", "session"}]
        /\ \A q \in CB!Member : q # p => life'[q] = life[q]
        /\ life'[p] = "reused"
    BY <2>1, <2>3 DEF CB!BrokerInv, CB!BrokerTypeOK
  <2>5. \A q \in CB!Member : life'[q] \in {life[q], "none"} \/ (life[q] = "none" /\ life'[q] = "reused")
    BY <2>1, <2>4
  <2> QED BY <2>1, <2>2, <2>4, <2>5, StirKeeps
<1> QED BY <1>1, <1>2, <1>3, <1>4, <1>5, <1>6, <1>7, <1>8, <1>9 DEF CB!BrokerNext

LEMMA TerminatedRests == CB!BrokerInv => CB!TerminatedIsGone
BY DEF CB!BrokerInv, CB!TerminatedIsGone

(* Whoever is about to be signalled was verified, and the tree below the    *)
(* broker is its server at most.                                            *)
LEMMA SignalledWhenQuiet ==
  ASSUME CB!BrokerInv, [CB!BrokerNext]_brokerVars, sent' # sent, sent' # {}, ~stirred
  PROVE  /\ CB!Verified /\ victim \in CB!Last(brokerTodo) /\ bpc \in {"send_term", "send_kill"}
<1>1. bpc \in {"send_term", "send_kill"}
  BY DEF CB!BrokerNext, brokerVars, CB!Plan, CB!CheckTerm, CB!CheckKill, CB!Check, CB!SendTerm, CB!SendKill,
     CB!Signal, CB!Wait, CB!FinalRead, CB!Stir
<1> QED BY <1>1 DEF CB!BrokerInv

LEMMA VerifiedBelow ==
  ASSUME CB!BrokerInv, CB!Verified
  PROVE  \A p \in CB!Descendants("broker") : p = "server" /\ p \in planned /\ life[p] = "up"
<1> SUFFICES ASSUME NEW p \in CB!Descendants("broker")
             PROVE  p = "server" /\ p \in planned /\ life[p] = "up"
  OBVIOUS
<1>1. p \in CB!Present /\ p \in planned /\ p \in CB!Member
  BY DEF CB!Verified, CB!GroupKept, CB!Descendants, CB!Below, CB!Present
<1>2. life[p] = "up" /\ p # "tool" /\ parent[p] = CB!Up(p)
  BY <1>1 DEF CB!Verified, CB!IdentityKept, CB!NoWork, CB!ParentsKept, CB!Remaining
<1>3. parent[p] \in CB!Member
  BY DEF CB!Descendants, CB!Below, CB!Present, CB!Member
<1> QED BY <1>1, <1>2, <1>3, UpIs DEF BrokerFacts, CB!Member

LEMMA BusyRests == CB!BrokerInv /\ [CB!BrokerNext]_brokerVars => CB!BusyIsSparedStep
<1> SUFFICES ASSUME CB!BrokerInv, [CB!BrokerNext]_brokerVars, sent' # sent, sent' # {}, ~stirred
             PROVE  /\ client = "no" /\ companion = "none"
                    /\ \A p \in CB!Descendants("broker") : p = "server" /\ life[p] # "reused"
  BY DEF CB!BusyIsSparedStep
<1>1. CB!Verified
  BY SignalledWhenQuiet
<1> QED BY <1>1, VerifiedBelow DEF CB!Verified, CB!Quiet

LEMMA OrphansRest == CB!BrokerInv /\ [CB!BrokerNext]_brokerVars => CB!NobodyOrphanedStep
<1> SUFFICES ASSUME CB!BrokerInv, [CB!BrokerNext]_brokerVars, victim = "broker",
                    sent' # sent, sent' # {}, ~stirred, NEW p \in CB!Descendants("broker")
             PROVE  p \in sent
  BY DEF CB!NobodyOrphanedStep
<1>1. CB!Verified /\ victim \in CB!Last(brokerTodo) /\ bpc \in {"send_term", "send_kill"}
  BY SignalledWhenQuiet
<1>2. p = "server" /\ p \in planned /\ life[p] = "up"
  BY <1>1, VerifiedBelow
<1>3. p \notin brokerTodo
  BY <1>1, <1>2, UpIs DEF CB!Last, BrokerFacts
<1> QED BY <1>1, <1>2, <1>3 DEF CB!BrokerInv

-----------------------------------------------------------------------------
(* The streaks of hot processes (CleanupStreaks).                           *)

(* The history is a sequence, of which a completed pass adds the last.      *)
LEMMA SightsGrow ==
  ASSUME streaksSeen \in Seq(CS!Sight), streaksNow \in CS!Sight,
         streaksSeen' = Append(streaksSeen, streaksNow)
  PROVE  /\ streaksSeen' \in Seq(CS!Sight) /\ Len(streaksSeen) \in Nat
         /\ Len(streaksSeen') = Len(streaksSeen) + 1
         /\ streaksSeen'[Len(streaksSeen) + 1] = streaksNow
         /\ \A i \in 1 .. Len(streaksSeen) : streaksSeen'[i] = streaksSeen[i]
BY LenProperties, AppendProperties

(* A sight that would do anywhere in a streak does as its oldest.           *)
LEMMA OldestIsEasier ==
  ASSUME NEW s, NEW key, NEW b \in BOOLEAN, CS!HotSight(s, key, b)
  PROVE  CS!HotSight(s, key, TRUE)
BY DEF CS!HotSight

(* Who recalls a streak recalls a shorter one.                              *)
LEMMA ShorterRecalls ==
  ASSUME NEW e, NEW n \in Nat, NEW m \in Nat, m <= n, CS!Recalls(e, n),
         Len(streaksSeen) \in Nat
  PROVE  CS!Recalls(e, m)
<1>1. ASSUME NEW i \in 1 .. m PROVE CS!HotSight(streaksSeen[Len(streaksSeen) + 1 - i], e.key, i = m)
  <2>1. i \in 1 .. n /\ CS!HotSight(streaksSeen[Len(streaksSeen) + 1 - i], e.key, i = n)
    BY DEF CS!Recalls
  <2>2. CASE i = m
    <3>1. (i = m) = TRUE /\ (i = n) \in BOOLEAN
      BY <2>2
    <3> QED BY <2>1, <3>1, OldestIsEasier
  <2>3. CASE i # m
    <3>1. (i = m) = (i = n)
      BY <2>1, <2>3
    <3> QED BY <2>1, <3>1
  <2> QED BY <2>2, <2>3
<1>2. m <= Len(streaksSeen)
  BY DEF CS!Recalls
<1> QED BY <1>1, <1>2 DEF CS!Recalls

(* What the last n sights say they say of the last n + 1 when the newest    *)
(* one agrees.                                                              *)
LEMMA OneMore ==
  ASSUME streaksSeen \in Seq(CS!Sight), streaksNow \in CS!Sight, UNCHANGED watch,
         streaksSeen' = Append(streaksSeen, streaksNow),
         NEW e \in CS!Entry, NEW n \in Nat, n > 0,
         CS!HotSight(streaksNow, e.key, n = 1), CS!Recalls(e, n - 1)
  PROVE  /\ n <= Len(streaksSeen')
         /\ \A i \in 1 .. n : CS!HotSight(streaksSeen'[Len(streaksSeen') + 1 - i], e.key, i = n)
<1>1. /\ Len(streaksSeen) \in Nat /\ Len(streaksSeen') = Len(streaksSeen) + 1
      /\ streaksSeen'[Len(streaksSeen) + 1] = streaksNow
      /\ \A i \in 1 .. Len(streaksSeen) : streaksSeen'[i] = streaksSeen[i]
  BY SightsGrow
<1>2. n - 1 <= Len(streaksSeen)
      /\ \A i \in 1 .. n - 1 : CS!HotSight(streaksSeen[Len(streaksSeen) + 1 - i], e.key, i = n - 1)
  BY DEF CS!Recalls
<1>3. ASSUME NEW i \in 1 .. n
      PROVE  CS!HotSight(streaksSeen'[Len(streaksSeen') + 1 - i], e.key, i = n)
  <2>1. CASE i = 1
    <3>1. Len(streaksSeen') + 1 - i = Len(streaksSeen) + 1 /\ (i = n) = (n = 1)
      BY <1>1, <2>1
    <3> QED BY <1>1, <3>1
  <2>2. CASE i # 1
    <3>0. /\ i \in Int /\ i > 1 /\ i <= n /\ n - 1 <= Len(streaksSeen)
          /\ Len(streaksSeen) \in Nat
      BY <1>1, <1>2, <2>2
    <3>1. i - 1 \in 1 .. n - 1 /\ Len(streaksSeen) + 1 - (i - 1) \in 1 .. Len(streaksSeen)
      BY <3>0
    <3>2. Len(streaksSeen') + 1 - i = Len(streaksSeen) + 1 - (i - 1) /\ (i - 1 = n - 1) = (i = n)
      BY <1>1
    <3>3. CS!HotSight(streaksSeen[Len(streaksSeen) + 1 - (i - 1)], e.key, i - 1 = n - 1)
      BY <1>2, <3>1
    <3> QED BY <1>1, <3>1, <3>2, <3>3
  <2> QED BY <2>1, <2>2
<1>4. n <= Len(streaksSeen')
  BY <1>1, <1>2
<1> QED BY <1>3, <1>4

(* An empty entry recalls nothing.                                          *)
LEMMA NoneRecalls ==
  ASSUME streaksSeen \in Seq(CS!Sight)
  PROVE  /\ CS!None \in CS!Entry /\ CS!None.streak = 0 /\ CS!None.key = 0
         /\ CS!Recalls(CS!None, CS!None.streak) /\ CS!Counts(CS!None)
<1>1. Len(streaksSeen) \in Nat
  BY LenProperties
<1> QED BY <1>1, StreakAssumption DEF CS!None, CS!Entry, CS!Recalls, CS!Counts

LEMMA NothingIsSight == CS!Nothing \in CS!Sight /\ CS!Nothing.of = 0
BY StreakAssumption DEF CS!Nothing, CS!Sight

LEMMA StreakStarts == CS!StreakInit => CS!StreakInv
<1> SUFFICES ASSUME CS!StreakInit PROVE CS!StreakInv
  OBVIOUS
<1> USE StreakAssumption DEF CS!StreakInit
<1>1. streaksSeen \in Seq(CS!Sight) /\ Len(streaksSeen) = 0
  BY EmptySeq
<1>2. /\ CS!None \in CS!Entry /\ CS!None.streak = 0 /\ CS!None.key = 0
      /\ CS!Recalls(CS!None, CS!None.streak)
  BY <1>1, NoneRecalls
<1>3. CS!StreakTypeOK
  <2>1. start \in 1 .. MaxRuns /\ shot \in 0 .. MaxRuns /\ runs \in 0 .. MaxRuns
    OBVIOUS
  <2>2. hot \in BOOLEAN /\ apply \in BOOLEAN
    OBVIOUS
  <2> QED BY <1>1, <1>2, NothingIsSight, <2>1, <2>2 DEF CS!StreakTypeOK
<1>4. saved.key <= start /\ loaded.key <= start /\ streaksNow.of <= start
  BY <1>2, NothingIsSight
<1>5. CS!Recalls(saved, saved.streak)
  BY <1>2
<1> QED BY <1>3, <1>4, <1>5 DEF CS!StreakInv

(* The facts every step starts from.                                        *)
LEMMA StreakShape ==
  ASSUME CS!StreakInv
  PROVE  /\ streaksSeen \in Seq(CS!Sight) /\ Len(streaksSeen) \in Nat /\ streaksNow \in CS!Sight
         /\ saved \in CS!Entry /\ loaded \in CS!Entry
         /\ saved.key \in Nat /\ loaded.key \in Nat /\ loaded.streak \in 0 .. Enough
         /\ streaksNow.of \in Nat /\ start \in 1 .. MaxRuns /\ start \in Nat
         /\ hot \in BOOLEAN /\ apply \in BOOLEAN /\ streaksNow.hot \in BOOLEAN
         /\ saved.key <= start /\ loaded.key <= start /\ streaksNow.of <= start
         /\ CS!Recalls(saved, saved.streak)
<1>1. streaksSeen \in Seq(CS!Sight) /\ streaksNow \in CS!Sight /\ saved \in CS!Entry /\ loaded \in CS!Entry
  BY DEF CS!StreakInv, CS!StreakTypeOK
<1>2. Len(streaksSeen) \in Nat
  BY <1>1, LenProperties
<1>3. /\ saved.key \in Nat /\ loaded.key \in Nat /\ loaded.streak \in 0 .. Enough
      /\ streaksNow.of \in Nat /\ streaksNow.hot \in BOOLEAN
  BY <1>1, StreakAssumption DEF CS!Entry, CS!Sight
<1>4. start \in 1 .. MaxRuns /\ start \in Nat /\ hot \in BOOLEAN /\ apply \in BOOLEAN
  BY StreakAssumption DEF CS!StreakInv, CS!StreakTypeOK
<1> QED BY <1>1, <1>2, <1>3, <1>4 DEF CS!StreakInv

LEMMA BeginKeeps == CS!StreakInv /\ CS!Begin => CS!StreakInv'
<1> SUFFICES ASSUME CS!StreakInv, CS!Begin PROVE CS!StreakInv'
  OBVIOUS
<1>1. UNCHANGED <<streaksSeen, watch, saved, start, streaksNow>> /\ loaded' \in {saved, CS!None}
  BY DEF CS!Begin
<1>2. loaded' \in CS!Entry /\ CS!Recalls(loaded', loaded'.streak) /\ loaded'.key <= start
  BY <1>1, NoneRecalls, StreakShape
<1>3. CS!StreakTypeOK'
  BY <1>2, StreakAssumption DEF CS!StreakTypeOK, CS!StreakInv, CS!Begin
<1>4. CS!Recalls(loaded, loaded.streak)' /\ CS!Recalls(saved, saved.streak)'
  BY <1>1, <1>2, StreakShape DEF CS!Recalls, CS!HotSight
<1> QED BY <1>1, <1>2, <1>3, <1>4, StreakShape DEF CS!StreakInv, CS!Begin

(* What a step that leaves the history alone must show of the count.        *)
LEMMA CountKept ==
  ASSUME CS!StreakInv, UNCHANGED <<watch, saved, apply, runs, streaksSeen>>,
         start' \in 1 .. MaxRuns, start <= start', hot' \in BOOLEAN,
         streaksNow' \in CS!Sight, streaksNow'.of <= start',
         loaded' \in CS!Entry, loaded'.key <= start',
         upc' \in {"act", "save"}, shot' = 0, apply => CS!Counts(loaded)'
  PROVE  CS!StreakInv'
<1>1. CS!StreakTypeOK'
  BY StreakAssumption DEF CS!StreakInv, CS!StreakTypeOK
<1>2. CS!Recalls(saved, saved.streak)'
  BY StreakShape DEF CS!Recalls, CS!HotSight
<1>3. saved'.key <= start'
  <2>1. start' \in Nat
    BY StreakAssumption
  <2> QED BY <2>1, StreakShape
<1> QED BY <1>1, <1>2, <1>3 DEF CS!StreakInv

(* One more sight of the entry's incarnation makes the streak one longer.   *)
LEMMA CountsOn ==
  ASSUME CS!StreakInv, CS!Recalls(loaded, loaded.streak), UNCHANGED <<watch, streaksSeen>>,
         NEW key \in 0 .. MaxRuns,
         loaded' = [key |-> key, streak |-> CS!AtMost(CS!Streak(key) + 1)],
         streaksNow'.hot, streaksNow'.key = key,
         watch = "renderer" \/ (loaded.key = key /\ key # 0) => streaksNow'.of = key
  PROVE  loaded' \in CS!Entry /\ loaded'.key = key /\ CS!Counts(loaded)'
<1>1. CS!Streak(key) \in 0 .. Enough /\ (CS!Streak(key) # 0 => loaded.key = key)
      /\ CS!Streak(key) <= loaded.streak
  BY StreakShape, StreakAssumption DEF CS!Streak
<1>2. CS!AtMost(CS!Streak(key) + 1) \in 1 .. Enough
      /\ CS!AtMost(CS!Streak(key) + 1) - 1 <= CS!Streak(key)
      /\ (CS!AtMost(CS!Streak(key) + 1) # 1 => CS!Streak(key) # 0)
  BY <1>1, StreakAssumption DEF CS!AtMost
<1>3. loaded' \in CS!Entry /\ loaded'.key = key /\ loaded'.streak \in 1 .. Enough
      /\ loaded'.streak - 1 <= CS!Streak(key) /\ (loaded'.streak # 1 => loaded.key = key)
  BY <1>1, <1>2, StreakAssumption DEF CS!Entry
<1>4. CS!HotSight(streaksNow, loaded.key, loaded.streak = 1)'
  BY <1>3 DEF CS!HotSight
<1>5. CS!Recalls(loaded, loaded.streak - 1)'
  <2>1. CASE loaded'.streak = 1
    BY <2>1, StreakShape DEF CS!Recalls
  <2>2. CASE loaded'.streak # 1
    <3>1. loaded.key = key /\ loaded.streak \in Nat /\ loaded'.streak - 1 \in Nat
          /\ loaded'.streak - 1 <= loaded.streak
      BY <1>1, <1>3, <2>2, StreakShape, StreakAssumption
    <3>2. CS!Recalls(loaded, loaded'.streak - 1)
      BY <3>1, StreakShape, ShorterRecalls
    <3> QED BY <1>3, <3>1, <3>2 DEF CS!Recalls, CS!HotSight
  <2> QED BY <2>1, <2>2
<1> QED BY <1>3, <1>4, <1>5 DEF CS!Counts

(* An entry that counts nothing counts rightly.                             *)
LEMMA ZeroCounts == ASSUME loaded'.streak = 0 PROVE CS!Counts(loaded)'
BY DEF CS!Counts

LEMMA NothingKeeps == CS!StreakInv /\ CS!ReadNothing => CS!StreakInv'
<1> SUFFICES ASSUME CS!StreakInv, CS!ReadNothing PROVE CS!StreakInv'
  OBVIOUS
<1>1. /\ UNCHANGED <<watch, saved, apply, runs, streaksSeen, start, hot>>
      /\ streaksNow' = CS!Nothing /\ loaded' = CS!None /\ upc' = "act" /\ shot' = 0
  BY DEF CS!ReadNothing, CS!StreakInv
<1>2. CS!Counts(loaded)'
  BY <1>1, NoneRecalls, StreakShape, ZeroCounts
<1>3. /\ loaded' \in CS!Entry /\ loaded'.key <= start' /\ streaksNow' \in CS!Sight
      /\ streaksNow'.of <= start'
  BY <1>1, NoneRecalls, NothingIsSight, StreakShape
<1> QED BY <1>1, <1>2, <1>3, StreakShape, CountKept

LEMMA RendererKeeps == CS!StreakInv /\ CS!ReadRenderer => CS!StreakInv'
<1> SUFFICES ASSUME CS!StreakInv, CS!ReadRenderer PROVE CS!StreakInv'
  OBVIOUS
<1>1. /\ UNCHANGED <<watch, saved, apply, runs, streaksSeen, start, hot>>
      /\ streaksNow' = [key |-> start, of |-> start, hot |-> hot] /\ upc' = "act" /\ shot' = 0
      /\ CS!Recalls(loaded, loaded.streak)
  BY DEF CS!ReadRenderer, CS!StreakInv
<1>2. start \in 0 .. MaxRuns
  BY StreakShape, StreakAssumption
<1>3. streaksNow' \in CS!Sight /\ streaksNow'.of <= start'
  BY <1>1, <1>2, StreakShape DEF CS!Sight
<1>4. loaded' \in CS!Entry /\ loaded'.key <= start' /\ CS!Counts(loaded)'
  <2>1. CASE hot
    <3>1. loaded' = [key |-> start, streak |-> CS!AtMost(CS!Streak(start) + 1)]
      BY <2>1 DEF CS!ReadRenderer
    <3>2. streaksNow'.hot /\ streaksNow'.key = start /\ streaksNow'.of = start
      BY <1>1, <2>1
    <3>3. loaded' \in CS!Entry /\ loaded'.key = start /\ CS!Counts(loaded)'
      BY <1>1, <1>2, <3>1, <3>2, CountsOn
    <3> QED BY <1>1, <3>3, StreakShape
  <2>2. CASE ~hot
    <3>1. loaded' = CS!None
      BY <2>2 DEF CS!ReadRenderer
    <3> QED BY <1>1, <3>1, NoneRecalls, StreakShape, ZeroCounts
  <2> QED BY <2>1, <2>2
<1> QED BY <1>1, <1>3, <1>4, StreakShape, CountKept

LEMMA CpuKeeps == CS!StreakInv /\ CS!ReadCpu => CS!StreakInv'
<1> SUFFICES ASSUME CS!StreakInv, CS!ReadCpu PROVE CS!StreakInv'
  OBVIOUS
<1>1. /\ UNCHANGED <<watch, saved, loaded, apply, runs, streaksSeen, start, hot, shot>>
      /\ streaksNow' = [key |-> 0, of |-> start, hot |-> hot] /\ watch = "replayd"
      /\ upc' = "start" /\ shot = 0 /\ CS!Recalls(loaded, loaded.streak)
  BY DEF CS!ReadCpu, CS!StreakInv
<1>2. start \in 0 .. MaxRuns /\ 0 \in 0 .. MaxRuns /\ start # 0
  BY StreakShape, StreakAssumption
<1>3. streaksNow' \in CS!Sight /\ streaksNow'.of = start
  BY <1>1, <1>2, StreakShape DEF CS!Sight
<1>4. CS!StreakTypeOK'
  BY <1>1, <1>3 DEF CS!StreakInv, CS!StreakTypeOK
<1>5. CS!Recalls(saved, saved.streak)' /\ CS!Recalls(loaded, loaded.streak)'
  BY <1>1, StreakShape DEF CS!Recalls, CS!HotSight
<1> QED BY <1>1, <1>2, <1>3, <1>4, <1>5, StreakShape DEF CS!StreakInv

LEMMA StartKeeps == CS!StreakInv /\ CS!ReadStart => CS!StreakInv'
<1> SUFFICES ASSUME CS!StreakInv, CS!ReadStart PROVE CS!StreakInv'
  OBVIOUS
<1>1. /\ UNCHANGED <<watch, saved, apply, runs, streaksSeen, start, hot>>
      /\ upc' = "act" /\ shot' = 0 /\ CS!Recalls(loaded, loaded.streak)
      /\ watch = "replayd" /\ loaded.key <= streaksNow.of
  BY DEF CS!ReadStart, CS!StreakInv
<1>2. PICK key \in {start, 0} :
          /\ streaksNow' = [streaksNow EXCEPT !.key = key]
          /\ loaded' = IF ~apply THEN loaded
                       ELSE [key |-> key,
                             streak |-> IF streaksNow.hot THEN CS!AtMost(CS!Streak(key) + 1) ELSE 0]
  BY DEF CS!ReadStart
<1>3. key \in 0 .. MaxRuns /\ key <= start
  BY StreakShape, StreakAssumption
<1>4. /\ streaksNow' \in CS!Sight /\ streaksNow'.of = streaksNow.of
      /\ streaksNow'.hot = streaksNow.hot /\ streaksNow'.key = key
  BY <1>2, <1>3, StreakShape DEF CS!Sight
<1>5. loaded' \in CS!Entry /\ loaded'.key <= start' /\ (apply => CS!Counts(loaded)')
  <2>1. CASE ~apply
    BY <1>1, <1>2, <2>1, StreakShape
  <2>2. CASE apply /\ streaksNow.hot
    <3>1. loaded' = [key |-> key, streak |-> CS!AtMost(CS!Streak(key) + 1)]
      BY <1>2, <2>2
    <3>2. loaded.key = key /\ key # 0 => streaksNow'.of = key
      BY <1>1, <1>4, StreakShape
    <3>3. streaksNow'.hot /\ streaksNow'.key = key /\ watch # "renderer"
      BY <1>1, <1>4, <2>2
    <3>4. loaded' \in CS!Entry /\ loaded'.key = key /\ CS!Counts(loaded)'
      BY <1>1, <1>3, <3>1, <3>2, <3>3, CountsOn
    <3> QED BY <1>1, <1>3, <3>4
  <2>3. CASE apply /\ ~streaksNow.hot
    <3>1. loaded' = [key |-> key, streak |-> 0]
      BY <1>2, <2>3
    <3>2. loaded' \in CS!Entry /\ loaded'.streak = 0 /\ loaded'.key = key
      BY <1>3, <3>1, StreakAssumption DEF CS!Entry
    <3> QED BY <1>1, <1>3, <3>2, ZeroCounts
  <2> QED BY <2>1, <2>2, <2>3, StreakShape
<1> QED BY <1>1, <1>4, <1>5, StreakShape, CountKept

LEMMA LookKeeps == CS!StreakInv /\ CS!Look => CS!StreakInv'
<1> SUFFICES ASSUME CS!StreakInv, CS!Look PROVE CS!StreakInv'
  OBVIOUS
<1>1. /\ UNCHANGED <<watch, streaksSeen, streaksNow, saved, loaded, start, hot, apply, runs>>
      /\ upc = "act" /\ upc' = "killing" /\ shot' = start /\ CS!Due /\ apply
      /\ loaded.key \in (IF watch = "replayd" THEN {start, 0} ELSE {start}) /\ CS!Counts(loaded)
  BY DEF CS!Look, CS!StreakInv, CS!Due
<1>2. CS!StreakTypeOK'
  BY <1>1, StreakAssumption DEF CS!StreakInv, CS!StreakTypeOK
<1>3. CS!Counts(loaded)' /\ CS!Recalls(saved, saved.streak)'
  BY <1>1, StreakShape DEF CS!Counts, CS!Recalls, CS!HotSight
<1>4. CS!Due' /\ loaded'.key \in (IF watch' = "replayd" THEN {shot', 0} ELSE {shot'})
  BY <1>1 DEF CS!Due
<1> QED BY <1>1, <1>2, <1>3, <1>4, StreakShape DEF CS!StreakInv

(* To refuse or to end leaves the count as it was, or nothing of it.        *)
LEMMA ForgettingKeeps ==
  ASSUME CS!StreakInv, UNCHANGED <<watch, saved, apply, runs, streaksSeen, streaksNow, hot>>,
         start' \in 1 .. MaxRuns, start <= start', upc \in {"act", "killing"}, upc' = "save",
         shot' = 0, loaded' \in {loaded, CS!None}
  PROVE  CS!StreakInv'
<1>1. loaded' \in CS!Entry /\ start' \in Nat /\ loaded'.key <= start' /\ streaksNow'.of <= start'
  <2>1. start' \in Nat
    BY StreakAssumption
  <2> QED BY <2>1, NoneRecalls, StreakShape
<1>2. ASSUME apply PROVE CS!Counts(loaded)'
  <2>1. CASE loaded' = loaded
    <3>1. CS!Counts(loaded)
      BY <1>2 DEF CS!StreakInv
    <3> QED BY <2>1, <3>1 DEF CS!Counts, CS!Recalls, CS!HotSight
  <2>2. CASE loaded' = CS!None
    BY <2>2, NoneRecalls, StreakShape, ZeroCounts
  <2> QED BY <2>1, <2>2
<1> QED BY <1>1, <1>2, StreakShape, CountKept

LEMMA RefuseKeeps == CS!StreakInv /\ CS!Refuse => CS!StreakInv'
<1> SUFFICES ASSUME CS!StreakInv, CS!Refuse PROVE CS!StreakInv'
  OBVIOUS
<1>1. /\ UNCHANGED <<watch, saved, apply, runs, streaksSeen, streaksNow, hot, start>>
      /\ upc = "act" /\ upc' = "save" /\ shot' = 0 /\ loaded' \in {loaded, CS!None}
  BY DEF CS!Refuse, CS!StreakInv
<1> QED BY <1>1, StreakShape, ForgettingKeeps

LEMMA EndKeeps == CS!StreakInv /\ CS!End => CS!StreakInv'
<1> SUFFICES ASSUME CS!StreakInv, CS!End PROVE CS!StreakInv'
  OBVIOUS
<1>1. /\ UNCHANGED <<watch, saved, apply, runs, streaksSeen, streaksNow, hot>>
      /\ upc = "killing" /\ upc' = "save" /\ shot' = 0 /\ loaded' \in {loaded, CS!None}
  BY DEF CS!End
<1>2. start' \in 1 .. MaxRuns /\ start <= start'
  BY StreakAssumption, StreakShape DEF CS!End
<1> QED BY <1>1, <1>2, ForgettingKeeps

LEMMA SaveKeeps == CS!StreakInv /\ CS!Save => CS!StreakInv'
<1> SUFFICES ASSUME CS!StreakInv, CS!Save PROVE CS!StreakInv'
  OBVIOUS
<1>1. /\ upc = "save" /\ upc' = "idle" /\ shot = 0 /\ shot' = 0
      /\ UNCHANGED <<watch, start, hot, loaded, apply, streaksNow, shot, runs>>
  BY DEF CS!Save, CS!StreakInv
<1>2. CASE apply /\ saved' = loaded /\ streaksSeen' = Append(streaksSeen, streaksNow)
  <2>1. CS!Counts(loaded)
    BY <1>1, <1>2 DEF CS!StreakInv
  <2>2. streaksSeen' \in Seq(CS!Sight) /\ Len(streaksSeen') \in Nat
    BY <1>2, StreakShape, SightsGrow
  <2>3. CS!Recalls(saved, saved.streak)'
    <3>1. CASE loaded.streak = 0
      BY <1>2, <2>2, <3>1 DEF CS!Recalls
    <3>2. CASE loaded.streak # 0
      <4>1. loaded.streak \in Nat /\ loaded.streak > 0
        BY <3>2, StreakShape, StreakAssumption
      <4>2. CS!HotSight(streaksNow, loaded.key, loaded.streak = 1) /\ CS!Recalls(loaded, loaded.streak - 1)
        BY <2>1, <4>1 DEF CS!Counts
      <4>3. /\ loaded.streak <= Len(streaksSeen')
            /\ \A i \in 1 .. loaded.streak :
                  CS!HotSight(streaksSeen'[Len(streaksSeen') + 1 - i], loaded.key, i = loaded.streak)
        BY <1>1, <1>2, <4>1, <4>2, StreakShape, OneMore
      <4> QED BY <1>1, <1>2, <4>3 DEF CS!Recalls, CS!HotSight
    <3> QED BY <3>1, <3>2
  <2>4. CS!StreakTypeOK'
    BY <1>1, <1>2, <2>2, StreakShape DEF CS!StreakInv, CS!StreakTypeOK
  <2> QED BY <1>1, <1>2, <2>3, <2>4, StreakShape DEF CS!StreakInv
<1>3. CASE UNCHANGED <<saved, streaksSeen>>
  <2>1. CS!StreakTypeOK'
    BY <1>1, <1>3 DEF CS!StreakInv, CS!StreakTypeOK
  <2>2. CS!Recalls(saved, saved.streak)'
    BY <1>1, <1>3, StreakShape DEF CS!Recalls, CS!HotSight
  <2> QED BY <1>1, <1>3, <2>1, <2>2, StreakShape DEF CS!StreakInv
<1> QED BY <1>2, <1>3 DEF CS!Save

(* What leaves the history, the present sight and the count alone.          *)
LEMMA StreakRestKeeps ==
  ASSUME CS!StreakInv, UNCHANGED <<watch, saved, loaded, apply, streaksSeen, streaksNow, runs>>,
         start' \in 1 .. MaxRuns, start <= start', hot' \in BOOLEAN,
         \/ UNCHANGED <<upc, shot>>
         \/ upc' = "idle" /\ shot' = 0
  PROVE  CS!StreakInv'
<1>1. CS!StreakTypeOK'
  BY StreakAssumption DEF CS!StreakInv, CS!StreakTypeOK
<1>2. /\ CS!Recalls(saved, saved.streak)' /\ (CS!Recalls(loaded, loaded.streak) => CS!Recalls(loaded, loaded.streak)')
      /\ (CS!Counts(loaded) => CS!Counts(loaded)')
  BY DEF CS!StreakInv, CS!Recalls, CS!Counts, CS!HotSight
<1>3. start' \in Nat /\ saved'.key <= start' /\ loaded'.key <= start' /\ streaksNow'.of <= start'
  <2>1. start' \in Nat
    BY StreakAssumption
  <2> QED BY <2>1, StreakShape
<1> QED BY <1>1, <1>2, <1>3 DEF CS!StreakInv, CS!Due

LEMMA StreakGoes == CS!StreakInv /\ [CS!StreakNext]_streaksVars => CS!StreakInv'
<1> SUFFICES ASSUME CS!StreakInv, [CS!StreakNext]_streaksVars PROVE CS!StreakInv'
  OBVIOUS
<1>1. start \in 1 .. MaxRuns /\ hot \in BOOLEAN /\ start <= start
  BY StreakShape
<1>2. CASE UNCHANGED streaksVars
  BY <1>1, <1>2, StreakRestKeeps DEF streaksVars
<1>3. CASE CS!Dies
  BY <1>1, <1>3, StreakRestKeeps DEF CS!Dies
<1>4. CASE CS!Heats
  <2>1. hot' \in BOOLEAN /\ UNCHANGED <<watch, start, upc, shot, saved, loaded, apply, streaksSeen, streaksNow, runs>>
    BY <1>1, <1>4 DEF CS!Heats
  <2> QED BY <1>1, <2>1, StreakRestKeeps
<1>5. CASE CS!Restarts
  <2>1. hot' \in BOOLEAN /\ UNCHANGED <<watch, upc, shot, saved, loaded, apply, streaksSeen, streaksNow, runs>>
    BY <1>5 DEF CS!Restarts
  <2>2. start' \in 1 .. MaxRuns /\ start <= start'
    BY <1>1, <1>5, StreakAssumption DEF CS!Restarts
  <2> QED BY <2>1, <2>2, StreakRestKeeps
<1> QED BY <1>2, <1>3, <1>4, <1>5, BeginKeeps, NothingKeeps, RendererKeeps, CpuKeeps, StartKeeps,
           LookKeeps, RefuseKeeps, EndKeeps, SaveKeeps DEF CS!StreakNext

LEMMA StreakRests == CS!StreakInv => CS!EndedAfterStreak
<1> SUFFICES ASSUME CS!StreakInv, shot # 0
             PROVE  /\ loaded.key \in (IF watch = "replayd" THEN {shot, 0} ELSE {shot})
                    /\ CS!HotSight(streaksNow, loaded.key, FALSE)
                    /\ Len(streaksSeen) >= Enough - 1
                    /\ \A i \in 1 .. Enough - 1 :
                          CS!HotSight(streaksSeen[Len(streaksSeen) + 1 - i], loaded.key, i = Enough - 1)
  BY DEF CS!EndedAfterStreak
<1>1. /\ apply /\ loaded.streak = Enough /\ CS!Counts(loaded)
      /\ loaded.key \in (IF watch = "replayd" THEN {shot, 0} ELSE {shot})
  BY DEF CS!StreakInv, CS!Due
<1>2. CS!HotSight(streaksNow, loaded.key, Enough = 1) /\ CS!Recalls(loaded, Enough - 1)
  BY <1>1, StreakAssumption DEF CS!Counts
<1>3. (Enough = 1) = FALSE /\ Enough \in Nat
  BY StreakAssumption
<1>4. CS!HotSight(streaksNow, loaded.key, FALSE)
  BY <1>2, <1>3
<1>5. Len(streaksSeen) \in Nat
  BY StreakShape
<1> QED BY <1>1, <1>2, <1>3, <1>4, <1>5 DEF CS!Recalls

-----------------------------------------------------------------------------
(* The scans of tools and previews (CleanupScans).                          *)

LEMMA ScansStart == SC!ScansInit => SC!ScansInv
<1> SUFFICES ASSUME SC!ScansInit PROVE SC!ScansInv
  OBVIOUS
<1>1. jobs \in [Scanned -> SC!Job \cup {NULL}]
  <2>1. [born : {0}, tool : SC!Tool, ran : SC!Duration, up : {"init"}, fat : BOOLEAN] \subseteq SC!Job
    BY ProcessAssumption DEF SC!Job
  <2>2. jobs \in [Scanned -> [born : {0}, tool : SC!Tool, ran : SC!Duration, up : {"init"}, fat : BOOLEAN]]
    BY DEF SC!ScansInit
  <2> QED BY <2>1, <2>2
<1>2. list \in [Scanned -> SC!Job \cup {NULL}] /\ gpc = "list" /\ doomed = {} /\ hit = {} /\ killed = NULL
      /\ steps = 0 /\ listedAt = 0 /\ 0 \in 0 .. MaxSteps
  BY ProcessAssumption DEF SC!ScansInit
<1>3. SC!ScansTypeOK
  BY <1>1, <1>2 DEF SC!ScansTypeOK
<1> QED BY <1>2, <1>3 DEF SC!ScansInv, SC!KilledWasListed

(* A match more condemns nobody less.                                       *)
LEMMA CondemnedStays ==
  ASSUME UNCHANGED list, hit \subseteq hit', NEW p \in Scanned, SC!Condemned(p)
  PROVE  SC!Condemned(p)'
BY DEF SC!Condemned, SC!Ancestors, SC!PreviewOrphan, SC!Over

(* A match is condemned, and what is listed below an orphaned preview.      *)
LEMMA DoomedAreCondemned ==
  ASSUME SC!ScansInv, NEW p \in Scanned, SC!Classified(list, p), UNCHANGED list, hit' = hit \cup {p},
         NEW q \in SC!DoomedBy(list, p)
  PROVE  q \in Scanned /\ SC!Condemned(q)'
<1>1. CASE q = p
  <2>1. list[p] # NULL
    BY DEF SC!Classified
  <2>2. list[p].tool \notin {"convex_dev", "git", "local_search", "preview_repo", "shell"}
    BY DEF SC!Classified, SC!Runaway, SC!ConvexRunaway, SC!PreviewOrphan
  <2> QED BY <1>1, <2>1, <2>2 DEF SC!Condemned
<1>2. CASE q # p
  <2>1. q \in Scanned /\ list[q] # NULL /\ p \in SC!Ancestors(list, q) /\ SC!PreviewOrphan(list, p)
    BY <1>2 DEF SC!DoomedBy
  <2>2. p \in SC!Ancestors(list, q)' /\ SC!PreviewOrphan(list, p)'
    BY <2>1 DEF SC!Ancestors, SC!PreviewOrphan, SC!Over
  <2> QED BY <2>1, <2>2 DEF SC!Condemned
<1> QED BY <1>1, <1>2

(* What was killed stays what was listed while the listing is not renewed.  *)
LEMMA KilledStays ==
  ASSUME SC!ScansInv, UNCHANGED <<list, killed, listedAt>>, hit \subseteq hit'
  PROVE  SC!KilledWasListed'
<1> SUFFICES ASSUME killed # NULL
             PROVE  SC!Condemned(killed.pid)'
                    /\ (killed.job.born <= listedAt => SC!Listed(killed.job, killed.pid)')
  BY DEF SC!KilledWasListed
<1>1. killed.pid \in Scanned /\ SC!Condemned(killed.pid)
      /\ (killed.job.born <= listedAt => SC!Listed(killed.job, killed.pid))
  BY DEF SC!ScansInv, SC!ScansTypeOK, SC!KilledWasListed
<1> QED BY <1>1, CondemnedStays DEF SC!Listed

LEMMA ListKeeps == SC!ScansInv /\ SC!ListAll => SC!ScansInv'
BY DEF SC!ScansInv, SC!ScansTypeOK, SC!ListAll, SC!Listed, SC!KilledWasListed

LEMMA PickKeeps == SC!ScansInv /\ SC!Pick => SC!ScansInv'
<1> SUFFICES ASSUME SC!ScansInv, SC!Pick PROVE SC!ScansInv'
  OBVIOUS
<1>1. UNCHANGED <<list, killed, listedAt, steps>> /\ gpc = "pick" /\ gpc' \in {"done", "wait"} /\ hit \subseteq hit'
  BY DEF SC!Pick
<1>2. jobs' \in [Scanned -> SC!Job \cup {NULL}] /\ \A p \in Scanned : jobs'[p] \in {jobs[p], NULL}
  <2>1. CASE UNCHANGED jobs
    BY <2>1 DEF SC!ScansInv, SC!ScansTypeOK
  <2>2. CASE ~UNCHANGED jobs
    <3>1. PICK obey \in SUBSET doomed' : jobs' = [q \in Scanned |-> IF q \in obey THEN NULL ELSE jobs[q]]
      BY <2>2 DEF SC!Pick
    <3> QED BY <3>1 DEF SC!ScansInv, SC!ScansTypeOK
  <2> QED BY <2>1, <2>2
<1>3. doomed' \subseteq Scanned /\ hit' \subseteq Scanned /\ \A q \in doomed' : SC!Condemned(q)'
  <2>1. CASE UNCHANGED <<doomed, hit>>
    BY <1>1, <2>1, CondemnedStays DEF SC!ScansInv, SC!ScansTypeOK
  <2>2. CASE ~UNCHANGED <<doomed, hit>>
    <3>1. PICK p \in Scanned \ hit : SC!Classified(list, p) /\ doomed' = SC!DoomedBy(list, p) /\ hit' = hit \cup {p}
      BY <2>2 DEF SC!Pick
    <3>2. \A q \in SC!DoomedBy(list, p) : q \in Scanned /\ SC!Condemned(q)'
      BY <1>1, <3>1, DoomedAreCondemned
    <3> QED BY <3>1, <3>2 DEF SC!ScansInv, SC!ScansTypeOK
  <2> QED BY <2>1, <2>2
<1>4. \A p \in Scanned : jobs'[p] # NULL /\ jobs'[p].born <= listedAt' => SC!Listed(jobs[p], p)'
  BY <1>1, <1>2 DEF SC!ScansInv, SC!Listed
<1>5. SC!KilledWasListed'
  BY <1>1, KilledStays
<1>6. SC!ScansTypeOK'
  BY <1>1, <1>2, <1>3 DEF SC!ScansInv, SC!ScansTypeOK
<1> QED BY <1>1, <1>3, <1>4, <1>5, <1>6 DEF SC!ScansInv

LEMMA KillOneKeeps == SC!ScansInv /\ SC!KillOne => SC!ScansInv'
<1> SUFFICES ASSUME SC!ScansInv, SC!KillOne PROVE SC!ScansInv'
  OBVIOUS
<1>1. UNCHANGED <<list, hit, listedAt, steps>> /\ gpc = "wait" /\ gpc' \in {"pick", "wait"} /\ doomed' \subseteq doomed
  BY DEF SC!KillOne
<1>2. /\ jobs' \in [Scanned -> SC!Job \cup {NULL}] /\ \A p \in Scanned : jobs'[p] \in {jobs[p], NULL}
      /\ \/ killed' = NULL
         \/ \E p \in doomed : jobs[p] # NULL /\ killed' = [pid |-> p, job |-> jobs[p]]
  BY DEF SC!KillOne, SC!ScansInv, SC!ScansTypeOK
<1>3. doomed \subseteq Scanned /\ \A p \in Scanned : SC!Condemned(p) => SC!Condemned(p)'
  BY <1>1, CondemnedStays DEF SC!ScansInv, SC!ScansTypeOK
<1>4. SC!ScansTypeOK'
  <2>1. killed' \in [pid : Scanned, job : SC!Job] \cup {NULL}
    BY <1>2, <1>3 DEF SC!ScansInv, SC!ScansTypeOK
  <2> QED BY <1>1, <1>2, <2>1 DEF SC!ScansInv, SC!ScansTypeOK
<1>5. \A p \in Scanned : jobs'[p] # NULL /\ jobs'[p].born <= listedAt' => SC!Listed(jobs[p], p)'
  BY <1>1, <1>2 DEF SC!ScansInv, SC!Listed
<1>6. SC!KilledWasListed'
  <2>1. CASE killed' = NULL
    BY <2>1 DEF SC!KilledWasListed
  <2>2. ASSUME NEW p \in doomed, jobs[p] # NULL, killed' = [pid |-> p, job |-> jobs[p]]
        PROVE  SC!KilledWasListed'
    <3>1. killed'.pid = p /\ killed'.job = jobs[p]
      BY <2>2
    <3>2. SC!Condemned(p)'
      BY <1>3 DEF SC!ScansInv
    <3>3. jobs[p].born <= listedAt => list[p] # NULL /\ jobs[p].born = list[p].born /\ jobs[p].tool = list[p].tool
      BY <1>1, <1>3, <2>2 DEF SC!ScansInv, SC!Listed
    <3>4. killed'.job.born <= listedAt' => SC!Listed(killed.job, killed.pid)'
      BY <1>1, <3>1, <3>3 DEF SC!Listed
    <3>5. SC!Condemned(killed.pid)'
      BY <3>1, <3>2 DEF SC!Condemned
    <3> QED BY <3>4, <3>5 DEF SC!KilledWasListed
  <2> QED BY <1>2, <2>1, <2>2
<1> QED BY <1>1, <1>3, <1>4, <1>5, <1>6 DEF SC!ScansInv, SC!ScansTypeOK

(* What the world does: a listed process is still the one that was listed,  *)
(* or another that started later.                                           *)
LEMMA WorldKeeps ==
  ASSUME SC!ScansInv, UNCHANGED <<list, gpc, doomed, hit, killed, listedAt>>,
         steps' \in 0 .. MaxSteps, steps <= steps',
         jobs' \in [Scanned -> SC!Job \cup {NULL}],
         \A p \in Scanned : \/ jobs'[p] \in {jobs[p], NULL}
                            \/ jobs[p] # NULL /\ jobs'[p].born = jobs[p].born /\ jobs'[p].tool = jobs[p].tool
                            \/ ~(jobs'[p].born <= listedAt)
  PROVE  SC!ScansInv'
<1>1. SC!ScansTypeOK' /\ listedAt' <= steps'
  BY DEF SC!ScansInv, SC!ScansTypeOK
<1>2. \A p \in Scanned : SC!Condemned(p) => SC!Condemned(p)'
  BY CondemnedStays
<1>3. gpc # "list" =>
        \A p \in Scanned : jobs'[p] # NULL /\ jobs'[p].born <= listedAt' => SC!Listed(jobs[p], p)'
  BY DEF SC!ScansInv, SC!Listed
<1>4. SC!KilledWasListed'
  BY KilledStays
<1> QED BY <1>1, <1>2, <1>3, <1>4 DEF SC!ScansInv, SC!ScansTypeOK

LEMMA LeavesKeeps == ASSUME NEW p \in Scanned, SC!ScansInv, SC!Leaves(p) PROVE SC!ScansInv'
<1>1. UNCHANGED <<list, gpc, doomed, hit, killed, listedAt>> /\ steps' \in 0 .. MaxSteps /\ steps <= steps'
  BY ProcessAssumption DEF SC!Leaves, SC!ScansInv, SC!ScansTypeOK
<1>2. jobs \in [Scanned -> SC!Job \cup {NULL}]
  BY DEF SC!ScansInv, SC!ScansTypeOK
<1>3. jobs' = [q \in Scanned |-> CASE q = p -> NULL
                  [] q # p /\ jobs[q] # NULL /\ jobs[q].up = p -> [jobs[q] EXCEPT !.up = "init"]
                  [] OTHER -> jobs[q]]
  BY DEF SC!Leaves
<1>4. \A q \in Scanned : \/ jobs'[q] \in {NULL, jobs[q]}
                         \/ jobs[q] # NULL /\ jobs'[q] = [jobs[q] EXCEPT !.up = "init"]
  BY <1>3
<1>5. \A job \in SC!Job : /\ [job EXCEPT !.up = "init"] \in SC!Job
                          /\ [job EXCEPT !.up = "init"].born = job.born
                          /\ [job EXCEPT !.up = "init"].tool = job.tool
  BY DEF SC!Job
<1>6. /\ DOMAIN jobs' = Scanned /\ jobs' = [q \in Scanned |-> jobs'[q]]
      /\ \A q \in Scanned : jobs'[q] \in SC!Job \cup {NULL}
      /\ \A q \in Scanned : \/ jobs'[q] \in {jobs[q], NULL}
                            \/ jobs[q] # NULL /\ jobs'[q].born = jobs[q].born /\ jobs'[q].tool = jobs[q].tool
  BY <1>2, <1>3, <1>4, <1>5
<1>7. jobs' \in [Scanned -> SC!Job \cup {NULL}]
  BY <1>6
<1> QED BY <1>1, <1>6, <1>7, WorldKeeps

LEMMA EntersKeeps == ASSUME NEW p \in Scanned, SC!ScansInv, SC!Enters(p) PROVE SC!ScansInv'
<1>1. UNCHANGED <<list, gpc, doomed, hit, killed, listedAt>> /\ steps' \in 0 .. MaxSteps /\ steps <= steps'
      /\ steps + 1 \in 1 .. MaxSteps /\ ~(steps + 1 <= listedAt)
  BY ProcessAssumption DEF SC!Enters, SC!ScansInv, SC!ScansTypeOK
<1>2. PICK tool \in {"convex_data", "shell"}, on \in {"init"} \cup Scanned :
         jobs' = [jobs EXCEPT ![p] =
              [born |-> steps + 1, tool |-> tool, ran |-> "young", up |-> on, fat |-> TRUE]]
  BY DEF SC!Enters
<1> DEFINE job == [born |-> steps + 1, tool |-> tool, ran |-> "young", up |-> on, fat |-> TRUE]
<1>3. job \in SC!Job /\ job.born = steps + 1
  BY <1>1, <1>2 DEF SC!Job, SC!Tool, SC!Duration
<1>4. jobs' = [jobs EXCEPT ![p] = job]
  BY <1>2
<1> HIDE DEF job
<1>5. jobs' \in [Scanned -> SC!Job \cup {NULL}] /\ jobs'[p] = job /\ \A q \in Scanned : q # p => jobs'[q] = jobs[q]
  BY <1>3, <1>4 DEF SC!ScansInv, SC!ScansTypeOK
<1>6. \A q \in Scanned : jobs'[q] \in {jobs[q], NULL} \/ ~(jobs'[q].born <= listedAt)
  BY <1>1, <1>3, <1>5
<1> QED BY <1>1, <1>5, <1>6, WorldKeeps

LEMMA ScansGo == SC!ScansInv /\ [SC!ScansNext]_scansVars => SC!ScansInv'
<1> SUFFICES ASSUME SC!ScansInv, [SC!ScansNext]_scansVars PROVE SC!ScansInv'
  OBVIOUS
<1>1. CASE UNCHANGED scansVars
  <2>1. /\ UNCHANGED <<list, gpc, doomed, hit, killed, listedAt, jobs, steps>>
        /\ steps \in 0 .. MaxSteps /\ jobs \in [Scanned -> SC!Job \cup {NULL}]
    BY <1>1 DEF scansVars, SC!ScansInv, SC!ScansTypeOK
  <2>2. steps <= steps'
    BY <2>1
  <2> QED BY <2>1, <2>2, WorldKeeps
<1>2. CASE SC!ListAll \/ SC!Pick \/ SC!KillOne
  BY <1>2, ListKeeps, PickKeeps, KillOneKeeps
<1>3. ASSUME NEW p \in Scanned, SC!Leaves(p) \/ SC!Enters(p) PROVE SC!ScansInv'
  BY <1>3, LeavesKeeps, EntersKeeps
<1> QED BY <1>1, <1>2, <1>3 DEF SC!ScansNext

LEMMA ScansRest == SC!ScansInv => SC!KilledWasListed
BY DEF SC!ScansInv

-----------------------------------------------------------------------------
(* The alerts on runner capacity (CapacityAlerts).                          *)

CapJob == [classify : BOOLEAN, paid : CA!Paid]
CapRun == [attempt : 1 .. MaxAttempts, live : BOOLEAN, jobs : [1 .. MaxAttempts -> CapJob]]
CapBeatRec == [pc : {"idle", "inventory", "jobs", "again", "report"}, old : SUBSET CA!Keys,
               view : [CapRuns -> [attempt : 0 .. MaxAttempts, live : BOOLEAN]],
               todo : SUBSET CapRuns, jobs : [CapRuns -> CapJob],
               prior : SUBSET CA!Keys, stateError : BOOLEAN, error : BOOLEAN, alerts : SUBSET CA!Keys]

LEMMA CapShapes == CA!CapShape <=> /\ capWorld \in [CapRuns -> CapRun]
                                   /\ capFile \in [kind : {"missing", "ok", "malformed"}, keys : SUBSET CA!Keys]
                                   /\ capBeat \in CapBeatRec /\ capEnded \subseteq CapRuns
BY DEF CA!CapShape, CapRun, CapBeatRec, CapJob

LEMMA CapShapesNext == CA!CapShape' <=> /\ capWorld' \in [CapRuns -> CapRun]
                                   /\ capFile' \in [kind : {"missing", "ok", "malformed"}, keys : SUBSET CA!Keys]
                                   /\ capBeat' \in CapBeatRec /\ capEnded' \subseteq CapRuns
BY DEF CA!CapShape, CapRun, CapBeatRec, CapJob

LEMMA IdleBeat ==
  /\ CA!Idle \in CapBeatRec /\ CA!Idle.pc = "idle" /\ CA!Idle.todo = {} /\ CA!Idle.alerts = {}
  /\ \A r \in CapRuns : CA!Idle.view[r].attempt = 0
<1>1. CA!Unread \in [CapRuns -> [attempt : 0 .. MaxAttempts, live : BOOLEAN]]
      /\ \A r \in CapRuns : CA!Unread[r].attempt = 0
  BY CapAssumption DEF CA!Unread
<1>2. [r \in CapRuns |-> CA!NoJobs] \in [CapRuns -> CapJob]
  BY DEF CA!NoJobs, CapJob, CA!Paid
<1> QED BY <1>1, <1>2 DEF CA!Idle, CapBeatRec

LEMMA CapStarts == CA!CapInit => CA!CapInv
<1> SUFFICES ASSUME CA!CapInit PROVE CA!CapInv
  OBVIOUS
<1>1. capBeat = CA!Idle /\ capEnded = {}
  BY DEF CA!CapInit
<1>2. /\ capWorld \in [CapRuns -> CapRun] /\ \A r \in CapRuns : capWorld[r].attempt = 1
  <2>1. capWorld = [r \in CapRuns |-> [attempt |-> 1, live |-> TRUE, jobs |-> [a \in 1 .. MaxAttempts |-> CA!NoJobs]]]
    BY DEF CA!CapInit
  <2>2. [a \in 1 .. MaxAttempts |-> CA!NoJobs] \in [1 .. MaxAttempts -> CapJob] /\ 1 \in 1 .. MaxAttempts
    BY CapAssumption DEF CA!NoJobs, CapJob, CA!Paid
  <2> QED BY <2>1, <2>2 DEF CapRun
<1>3. capFile \in [kind : {"missing", "ok", "malformed"}, keys : SUBSET CA!Keys]
  <2>1. ASSUME NEW r \in CapRuns PROVE <<r, 1>> \in CA!Keys
    BY CapAssumption DEF CA!Keys
  <2> QED BY <2>1 DEF CA!CapInit
<1>4. CA!CapShape
  BY <1>1, <1>2, <1>3, IdleBeat, CapShapes
<1>5. CA!AlertsAreCurrent
  BY <1>1 DEF CA!AlertsAreCurrent
<1> QED BY <1>1, <1>2, <1>4, <1>5, IdleBeat DEF CA!CapInv

(* GitHub moves: a run goes on, ends or starts again.                       *)
LEMMA GitHubKeeps ==
  ASSUME CA!CapInv, NEW r \in CapRuns, CA!JobMoves(r) \/ CA!RunEnds(r) \/ CA!RunAgain(r)
  PROVE  CA!CapInv'
<1>0. /\ capWorld \in [CapRuns -> CapRun] /\ capBeat \in CapBeatRec /\ capEnded \subseteq CapRuns
      /\ capFile \in [kind : {"missing", "ok", "malformed"}, keys : SUBSET CA!Keys]
  BY CapShapes DEF CA!CapInv
<1>1. capWorld[r].attempt \in 1 .. MaxAttempts /\ capWorld[r].live \in BOOLEAN
      /\ capWorld[r].jobs \in [1 .. MaxAttempts -> CapJob]
  BY <1>0 DEF CapRun
<1>2. UNCHANGED <<capFile, capBeat>>
  BY DEF CA!JobMoves, CA!RunEnds, CA!RunAgain
<1>3. PICK run \in CapRun :
        /\ capWorld' = [capWorld EXCEPT ![r] = run] /\ capWorld[r].attempt <= run.attempt
        /\ \/ run.live = capWorld[r].live /\ run.attempt = capWorld[r].attempt /\ capEnded' = capEnded
           \/ /\ ~run.live /\ run.attempt = capWorld[r].attempt
              /\ capEnded' = IF r \in capBeat.todo THEN capEnded \cup {r} ELSE capEnded
           \/ capWorld[r].attempt < run.attempt /\ ~capWorld[r].live /\ capEnded' = capEnded
  <2>1. CASE CA!JobMoves(r)
    <3>1. PICK j \in CapJob : capWorld' = [capWorld EXCEPT ![r].jobs[capWorld[r].attempt] = j]
      <4>1. CA!JobNow(r) \in CapJob
        BY <1>1 DEF CA!JobNow
      <4>2. [classify |-> TRUE, paid |-> "young"] \in CapJob
            /\ \A p \in {"old", "running"} : [CA!JobNow(r) EXCEPT !.paid = p] \in CapJob
        BY <4>1 DEF CapJob, CA!Paid
      <4>3. \/ CA!SetJob(r, [classify |-> TRUE, paid |-> "young"])
            \/ \E p \in {"old", "running"} : CA!SetJob(r, [CA!JobNow(r) EXCEPT !.paid = p])
        BY <2>1 DEF CA!JobMoves
      <4> QED BY <4>2, <4>3 DEF CA!SetJob
    <3> DEFINE run == [capWorld[r] EXCEPT !.jobs[capWorld[r].attempt] = j]
    <3>2. capWorld' = [capWorld EXCEPT ![r] = run]
      BY <3>1
    <3>3. run \in CapRun /\ run.attempt = capWorld[r].attempt /\ run.live = capWorld[r].live
      BY <1>0, <1>1 DEF CapRun
    <3>4. capEnded' = capEnded /\ capWorld[r].attempt <= capWorld[r].attempt
      BY <1>1, <2>1 DEF CA!JobMoves
    <3> HIDE DEF run
    <3> QED BY <3>2, <3>3, <3>4
  <2>2. CASE CA!RunEnds(r)
    <3> DEFINE run == [capWorld[r] EXCEPT !.live = FALSE, !.jobs[capWorld[r].attempt].paid = "done"]
    <3>1. capWorld' = [capWorld EXCEPT ![r] = run]
      BY <1>0, <2>2 DEF CA!RunEnds
    <3>2. run \in CapRun /\ run.attempt = capWorld[r].attempt /\ ~run.live
      <4>1. [capWorld[r].jobs[capWorld[r].attempt] EXCEPT !.paid = "done"] \in CapJob
        BY <1>1 DEF CapJob, CA!Paid
      <4> QED BY <1>0, <1>1, <4>1 DEF CapRun
    <3>3. (capEnded' = IF r \in capBeat.todo THEN capEnded \cup {r} ELSE capEnded) /\ capWorld[r].attempt <= capWorld[r].attempt
      BY <1>1, <2>2 DEF CA!RunEnds
    <3> HIDE DEF run
    <3> QED BY <3>1, <3>2, <3>3
  <2>3. CASE CA!RunAgain(r)
    <3> DEFINE run == [capWorld[r] EXCEPT !.live = TRUE, !.attempt = capWorld[r].attempt + 1]
    <3>1. capWorld' = [capWorld EXCEPT ![r] = run]
      BY <1>0, <2>3 DEF CA!RunAgain
    <3>2. capWorld[r].attempt + 1 \in 1 .. MaxAttempts /\ capWorld[r].attempt < capWorld[r].attempt + 1
      BY <1>1, <2>3, CapAssumption DEF CA!RunAgain
    <3>3. run \in CapRun /\ run.attempt = capWorld[r].attempt + 1
      BY <1>0, <1>1, <3>2 DEF CapRun
    <3>4. ~capWorld[r].live /\ capEnded' = capEnded
      BY <2>3 DEF CA!RunAgain
    <3>5. capWorld[r].attempt <= run.attempt /\ capWorld[r].attempt < run.attempt
      BY <1>1, <3>2, <3>3
    <3> HIDE DEF run
    <3> QED BY <3>1, <3>3, <3>4, <3>5
  <2> QED BY <2>1, <2>2, <2>3
<1>4. capWorld' \in [CapRuns -> CapRun] /\ capWorld'[r] = run /\ \A q \in CapRuns : q # r => capWorld'[q] = capWorld[q]
  BY <1>0, <1>3
<1>5. CA!CapShape'
  BY <1>0, <1>2, <1>3, <1>4, CapShapesNext
<1>6. \A q \in CapRuns : capBeat.view[q].attempt <= capWorld'[q].attempt
  <2>1. \A q \in CapRuns : capBeat.view[q].attempt \in Nat /\ capBeat.view[q].attempt <= capWorld[q].attempt
    BY <1>0, CapAssumption DEF CA!CapInv, CapBeatRec
  <2>2. run.attempt \in Nat /\ capWorld[r].attempt \in Nat
    BY <1>1, CapAssumption DEF CapRun
  <2> QED BY <1>3, <1>4, <2>1, <2>2
<1>7. CA!AlertsAreCurrent'
  <2>1. capBeat.alerts # {} => capEnded' = capEnded
    BY <1>3 DEF CA!CapInv
  <2> QED BY <1>2, <2>1 DEF CA!CapInv, CA!AlertsAreCurrent
<1>8. capBeat.pc \in {"jobs", "again", "report"} => CA!EndedIsFound'
  <2> SUFFICES ASSUME capBeat.pc \in {"jobs", "again", "report"}, NEW q \in capEnded', ~capBeat.error
               PROVE  q \in capBeat.todo /\ (~capWorld'[q].live \/ capBeat.view[q].attempt < capWorld'[q].attempt)
    BY <1>2 DEF CA!EndedIsFound
  <2>1. \A p \in capEnded : p \in CapRuns /\ p \in capBeat.todo
                            /\ (~capWorld[p].live \/ capBeat.view[p].attempt < capWorld[p].attempt)
    BY <1>0 DEF CA!CapInv, CA!EndedIsFound
  <2>2. CASE q # r
    BY <1>3, <1>4, <2>1, <2>2
  <2>3. CASE q = r
    <3>1. capBeat.view[r].attempt \in Nat /\ capBeat.view[r].attempt <= capWorld[r].attempt
          /\ run.attempt \in Nat /\ capWorld[r].attempt \in Nat
      BY <1>0, <1>1, CapAssumption DEF CA!CapInv, CapBeatRec, CapRun
    <3>2. CASE run.live = capWorld[r].live /\ run.attempt = capWorld[r].attempt /\ capEnded' = capEnded
      BY <1>4, <2>1, <2>3, <3>2
    <3>3. CASE ~run.live /\ capEnded' = IF r \in capBeat.todo THEN capEnded \cup {r} ELSE capEnded
      BY <1>4, <2>1, <2>3, <3>3
    <3>4. CASE capWorld[r].attempt < run.attempt /\ capEnded' = capEnded
      BY <1>4, <2>1, <2>3, <3>1, <3>4
    <3> QED BY <1>3, <3>2, <3>3, <3>4
  <2> QED BY <2>2, <2>3
<1> QED BY <1>2, <1>5, <1>6, <1>7, <1>8 DEF CA!CapInv

(* One run less to read: an error, or it was as the inventory named it.     *)
LEMMA DroppedKeeps ==
  ASSUME CA!CapInv, UNCHANGED <<capWorld, capFile, capEnded>>, capBeat.pc \in {"jobs", "again"},
         NEW r \in capBeat.todo, NEW bad \in BOOLEAN, capBeat' = CA!Dropped(r, bad),
         r \in capEnded => bad \/ capBeat.error
  PROVE  CA!CapInv'
<1>1. /\ capWorld \in [CapRuns -> CapRun] /\ capBeat \in CapBeatRec /\ capEnded \subseteq CapRuns
      /\ capFile \in [kind : {"missing", "ok", "malformed"}, keys : SUBSET CA!Keys]
  BY CapShapes DEF CA!CapInv
<1>2. /\ capBeat' \in CapBeatRec /\ capBeat'.todo = capBeat.todo \ {r} /\ capBeat'.view = capBeat.view
      /\ capBeat'.pc = (IF capBeat.todo \ {r} = {} THEN "report" ELSE "jobs")
      /\ capBeat'.alerts = capBeat.alerts
  BY <1>1 DEF CA!Dropped, CapBeatRec
<1>3. capBeat'.error = (capBeat.error \/ bad) /\ capBeat.error \in BOOLEAN
  BY <1>1 DEF CA!Dropped, CapBeatRec
<1>4. CA!CapShape'
  BY <1>1, <1>2, CapShapesNext
<1>5. CA!EndedIsFound'
  BY <1>1, <1>2, <1>3 DEF CA!CapInv, CA!EndedIsFound
<1>6. capBeat.alerts = {} /\ CA!AlertsAreCurrent'
  BY <1>2 DEF CA!CapInv, CA!AlertsAreCurrent
<1>7. (capBeat'.pc \in {"jobs", "again"}) = (capBeat'.todo # {})
  BY <1>2
<1>8. (\A q \in CapRuns : capBeat'.view[q].attempt <= capWorld'[q].attempt)
      /\ \A q \in capBeat'.todo : capBeat'.view[q].attempt # 0
  BY <1>2 DEF CA!CapInv
<1> QED BY <1>2, <1>4, <1>5, <1>6, <1>7, <1>8 DEF CA!CapInv

LEMMA CapGoes == CA!CapInv /\ [CA!CapNext]_capacityVars => CA!CapInv'
<1> SUFFICES ASSUME CA!CapInv, [CA!CapNext]_capacityVars PROVE CA!CapInv'
  OBVIOUS
<1>0. /\ capWorld \in [CapRuns -> CapRun] /\ capBeat \in CapBeatRec /\ capEnded \subseteq CapRuns
      /\ capFile \in [kind : {"missing", "ok", "malformed"}, keys : SUBSET CA!Keys]
  BY CapShapes DEF CA!CapInv
<1>01. \A r \in CapRuns : capWorld[r].attempt \in 1 .. MaxAttempts /\ capWorld[r].live \in BOOLEAN
                          /\ capWorld[r].attempt \in Nat /\ capWorld[r].attempt # 0
                          /\ capWorld[r].jobs \in [1 .. MaxAttempts -> CapJob]
  BY <1>0, CapAssumption DEF CapRun
<1>1. CASE UNCHANGED capacityVars
  BY <1>1 DEF capacityVars, CA!CapInv, CA!CapShape, CA!AlertsAreCurrent, CA!EndedIsFound
<1>2. ASSUME NEW r \in CapRuns, CA!JobMoves(r) \/ CA!RunEnds(r) \/ CA!RunAgain(r) PROVE CA!CapInv'
  BY <1>2, GitHubKeeps
<1>3. CASE CA!BeatStart
  <2>1. UNCHANGED <<capWorld, capFile, capEnded>>
    BY <1>3 DEF CA!BeatStart
  <2>2. /\ capBeat' \in CapBeatRec /\ capBeat'.pc = "inventory" /\ capBeat'.todo = {} /\ capBeat'.alerts = {}
        /\ \A r \in CapRuns : capBeat'.view[r].attempt = 0
    BY <1>3, IdleBeat DEF CA!BeatStart, CapBeatRec
  <2>3. CA!CapShape'
    BY <1>0, <2>1, <2>2, CapShapesNext
  <2>4. \A r \in CapRuns : capBeat'.view[r].attempt <= capWorld'[r].attempt
    BY <1>01, <2>1, <2>2
  <2>5. CA!AlertsAreCurrent'
    BY <2>2 DEF CA!AlertsAreCurrent
  <2> QED BY <2>2, <2>3, <2>4, <2>5 DEF CA!CapInv
<1>4. CASE CA!ReadInventory
  <2>1. UNCHANGED <<capWorld, capFile>> /\ capEnded' = {} /\ capBeat.pc = "inventory"
    BY <1>4 DEF CA!ReadInventory
  <2>2. capBeat.alerts = {} /\ capBeat.todo = {}
    BY <2>1 DEF CA!CapInv
  <2> DEFINE seen == [r \in CapRuns |-> [attempt |-> capWorld[r].attempt, live |-> capWorld[r].live]]
             some == {r \in CapRuns : CA!RunIsNonterminal(seen[r])}
  <2>3. seen \in [CapRuns -> [attempt : 0 .. MaxAttempts, live : BOOLEAN]]
        /\ \A r \in CapRuns : seen[r].attempt = capWorld[r].attempt
    BY <1>01, CapAssumption
  <2>4. some \subseteq CapRuns
    OBVIOUS
  <2>5. \/ capBeat' = [capBeat EXCEPT !.pc = "report", !.error = TRUE]
        \/ capBeat' = [capBeat EXCEPT !.view = seen, !.todo = some, !.pc = IF some = {} THEN "report" ELSE "jobs",
                                      !.prior = capFile.keys, !.stateError = CA!StateUnreadable]
    BY <1>4 DEF CA!ReadInventory
  <2>6. capFile.keys \subseteq CA!Keys /\ CA!StateUnreadable \in BOOLEAN
    BY <1>0 DEF CA!StateUnreadable
  <2> HIDE DEF seen, some
  <2>7. /\ capBeat' \in CapBeatRec /\ capBeat'.alerts = {}
        /\ \/ capBeat'.view = capBeat.view /\ capBeat'.todo = {} /\ capBeat'.pc = "report"
           \/ capBeat'.view = seen /\ capBeat'.todo = some /\ capBeat'.pc = IF some = {} THEN "report" ELSE "jobs"
    <3>1. CASE capBeat' = [capBeat EXCEPT !.pc = "report", !.error = TRUE]
      BY <1>0, <2>2, <3>1 DEF CapBeatRec
    <3>2. CASE capBeat' # [capBeat EXCEPT !.pc = "report", !.error = TRUE]
      <4> DEFINE next == IF some = {} THEN "report" ELSE "jobs"
      <4>1. next \in {"report", "jobs"}
        OBVIOUS
      <4>2. capBeat' = [capBeat EXCEPT !.view = seen, !.todo = some, !.pc = next,
                                       !.prior = capFile.keys, !.stateError = CA!StateUnreadable]
        BY <2>5, <3>2
      <4>3. capBeat'.pc = next /\ capBeat'.view = seen /\ capBeat'.todo = some /\ capBeat'.alerts = {}
        <5> HIDE DEF next
        <5> QED BY <1>0, <2>2, <4>2 DEF CapBeatRec
      <4>4. capBeat' \in CapBeatRec
        <5> HIDE DEF next
        <5> QED BY <1>0, <2>3, <2>4, <2>6, <4>1, <4>2 DEF CapBeatRec
      <4> QED BY <4>3, <4>4
    <3> QED BY <3>1, <3>2
  <2>8. CA!CapShape'
    BY <1>0, <2>1, <2>7, CapShapesNext
  <2>9. \A r \in CapRuns : capBeat'.view[r].attempt <= capWorld'[r].attempt
    BY <1>01, <2>1, <2>3, <2>7 DEF CA!CapInv
  <2>10. \A r \in capBeat'.todo : capBeat'.view[r].attempt # 0
    BY <1>01, <2>3, <2>4, <2>7
  <2>11. CA!AlertsAreCurrent' /\ CA!EndedIsFound'
    BY <2>1 DEF CA!AlertsAreCurrent, CA!EndedIsFound
  <2>12. (capBeat'.pc \in {"jobs", "again"}) = (capBeat'.todo # {})
    BY <2>7
  <2> QED BY <2>7, <2>8, <2>9, <2>10, <2>11, <2>12 DEF CA!CapInv
<1>5. CASE CA!ReadJobs
  <2>1. UNCHANGED <<capWorld, capFile, capEnded>> /\ capBeat.pc = "jobs" /\ capBeat.todo # {}
    BY <1>5 DEF CA!ReadJobs, CA!CapInv
  <2>2. PICK r \in capBeat.todo :
          \/ capBeat' = CA!Dropped(r, TRUE)
          \/ capBeat' = [capBeat EXCEPT !.pc = "again", !.jobs[r] = capWorld[r].jobs[capBeat.view[r].attempt]]
    <3>1. CA!OneOf(capBeat.todo) \in capBeat.todo
      BY <2>1 DEF CA!OneOf
    <3> QED BY <1>5, <3>1 DEF CA!ReadJobs
  <2>3. CASE capBeat' = CA!Dropped(r, TRUE)
    BY <2>1, <2>2, <2>3, DroppedKeeps
  <2>4. CASE capBeat' = [capBeat EXCEPT !.pc = "again", !.jobs[r] = capWorld[r].jobs[capBeat.view[r].attempt]]
    <3>1. r \in CapRuns /\ capBeat.view[r].attempt \in 1 .. MaxAttempts
      <4>1. r \in CapRuns /\ capBeat.view[r].attempt \in 0 .. MaxAttempts /\ capBeat.view[r].attempt # 0
        BY <1>0 DEF CapBeatRec, CA!CapInv
      <4> QED BY <4>1, CapAssumption
    <3>2. capWorld[r].jobs[capBeat.view[r].attempt] \in CapJob
      BY <1>01, <3>1
    <3>3. /\ capBeat' \in CapBeatRec /\ capBeat'.pc = "again" /\ capBeat'.todo = capBeat.todo
          /\ capBeat'.view = capBeat.view /\ capBeat'.alerts = capBeat.alerts /\ capBeat'.error = capBeat.error
      BY <1>0, <2>4, <3>2 DEF CapBeatRec
    <3>4. CA!CapShape'
      BY <1>0, <2>1, <3>3, CapShapesNext
    <3>5. CA!AlertsAreCurrent' /\ CA!EndedIsFound'
      BY <2>1, <3>3 DEF CA!CapInv, CA!AlertsAreCurrent, CA!EndedIsFound
    <3> QED BY <2>1, <3>3, <3>4, <3>5 DEF CA!CapInv
  <2> QED BY <2>2, <2>3, <2>4
<1>6. CASE CA!ReadAgain
  <2>1. UNCHANGED <<capWorld, capFile, capEnded>> /\ capBeat.pc = "again" /\ capBeat.todo # {}
    BY <1>6 DEF CA!ReadAgain, CA!CapInv
  <2>2. PICK r \in capBeat.todo : capBeat' = CA!Dropped(r, TRUE) \/ capBeat' = CA!Dropped(r, ~CA!Revalidated(r))
    <3>1. CA!OneOf(capBeat.todo) \in capBeat.todo
      BY <2>1 DEF CA!OneOf
    <3> QED BY <1>6, <3>1 DEF CA!ReadAgain
  <2>3. CASE capBeat' = CA!Dropped(r, TRUE)
    BY <2>1, <2>2, <2>3, DroppedKeeps
  <2>4. CASE capBeat' = CA!Dropped(r, ~CA!Revalidated(r))
    <3>1. r \in CapRuns /\ capBeat.view[r].attempt \in Nat
      BY <1>0, CapAssumption DEF CapBeatRec
    <3>2. r \in capEnded => ~CA!Revalidated(r) \/ capBeat.error
      BY <1>01, <2>1, <3>1 DEF CA!CapInv, CA!EndedIsFound, CA!Revalidated, CA!SameRunIdentity, CA!RunIsNonterminal
    <3>3. PICK bad \in BOOLEAN : bad = ~CA!Revalidated(r)
      BY DEF CA!Revalidated, CA!SameRunIdentity, CA!RunIsNonterminal
    <3>4. capBeat' = CA!Dropped(r, bad) /\ (r \in capEnded => bad \/ capBeat.error)
      BY <2>4, <3>2, <3>3
    <3> QED BY <2>1, <2>2, <3>3, <3>4, DroppedKeeps
  <2> QED BY <2>2, <2>3, <2>4
<1>7. CASE CA!Report
  <2>1. UNCHANGED <<capWorld, capFile, capEnded>> /\ capBeat.pc = "report" /\ capBeat' = [CA!Idle EXCEPT !.alerts = CA!NewAlerts]
    BY <1>7 DEF CA!Report
  <2>2. CA!NewAlerts \subseteq CA!Keys
    BY <1>0 DEF CA!NewAlerts, CA!EvaluateAlerts, CapBeatRec
  <2>3. /\ capBeat' \in CapBeatRec /\ capBeat'.pc = "idle" /\ capBeat'.todo = {} /\ capBeat'.alerts = CA!NewAlerts
        /\ \A r \in CapRuns : capBeat'.view[r].attempt = 0
    BY <2>1, <2>2, IdleBeat DEF CapBeatRec
  <2>4. CA!CapShape'
    BY <1>0, <2>1, <2>3, CapShapesNext
  <2>5. CA!AlertsAreCurrent'
    <3>1. capBeat.error \/ capEnded = {}
      BY <2>1 DEF CA!CapInv, CA!EndedIsFound
    <3>2. capBeat.error => CA!NewAlerts = {}
      BY DEF CA!NewAlerts
    <3> QED BY <2>1, <2>3, <3>1, <3>2 DEF CA!AlertsAreCurrent
  <2>6. \A r \in CapRuns : capBeat'.view[r].attempt <= capWorld'[r].attempt
    BY <1>01, <2>1, <2>3
  <2> QED BY <2>3, <2>4, <2>5, <2>6 DEF CA!CapInv
<1> QED BY <1>1, <1>2, <1>3, <1>4, <1>5, <1>6, <1>7 DEF CA!CapNext

LEMMA CapTypes == CA!CapInv => CA!CapTypeOK
<1> SUFFICES ASSUME CA!CapInv PROVE CA!CapTypeOK
  OBVIOUS
<1>0. capWorld \in [CapRuns -> CapRun] /\ capBeat \in CapBeatRec
      /\ capFile \in [kind : {"missing", "ok", "malformed"}, keys : SUBSET CA!Keys]
  BY CapShapes DEF CA!CapInv
<1>1. ASSUME NEW r \in CapRuns
      PROVE  /\ capWorld[r].attempt \in 1 .. MaxAttempts /\ capWorld[r].live \in BOOLEAN
             /\ \A a \in 1 .. MaxAttempts : capWorld[r].jobs[a].paid \in CA!Paid
  BY <1>0 DEF CapRun, CapJob
<1>2. capFile.kind \in {"missing", "ok", "malformed"} /\ capFile.keys \subseteq CA!Keys
  BY <1>0
<1>3. capBeat.pc \in {"idle", "inventory", "jobs", "again", "report"} /\ capBeat.alerts \subseteq CA!Keys
  BY <1>0 DEF CapBeatRec
<1> QED BY <1>1, <1>2, <1>3 DEF CA!CapTypeOK

-----------------------------------------------------------------------------
(* The audit of an open pull request (OpenPRAudit).                         *)

AuditView == [head : 0 .. AuHeads, slots : [AuSlots -> OA!Turn], live : SUBSET OA!Flow,
              unread : BOOLEAN, rows : SUBSET AuRows, dup : BOOLEAN]
AuditAnswer == [ok : BOOLEAN, state : OA!MotionStates \cup {"none"},
                from : {"none", "unreadable", "identity", "unread", "several", "live", "durable", "malformed"}]

LEMMA LaneStates ==
  /\ OA!StateOf["CI"] = "CI_IN_PROGRESS" /\ OA!StateOf["capture"] = "CAPTURE_IN_PROGRESS"
  /\ OA!StateOf["repro/proof"] = "REPRO_OR_PROOF_IN_PROGRESS" /\ OA!StateOf["rework"] = "REWORK_IN_PROGRESS"
  /\ OA!StateOf["rework-blocked"] = "REWORK_BLOCKED" /\ OA!StateOf["dependency-blocked"] = "DEPENDENCY_BLOCKED"
BY DEF OA!StateOf, OA!Durable

(* No two lanes are told by one state, and limbo and silence tell none.     *)
LEMMA StatesTellLanes ==
  /\ \A l, k \in OA!Durable : OA!StateOf[l] = OA!StateOf[k] => l = k
  /\ \A l \in OA!Durable : OA!StateOf[l] \in OA!MotionStates /\ OA!StateOf[l] \notin {"PROCESS_LIMBO", "none"}
  /\ \A l \in OA!Flow \cup {"repro/proof", "rework"} : OA!StateOf[l] \in OA!Progress
  /\ \A l \in OA!Flow, k \in OA!Durable : OA!StateOf[l] # OA!DurableState(k)
BY LaneStates DEF OA!Durable, OA!Flow, OA!MotionStates, OA!Progress, OA!DurableState

LEMMA KindLanes ==
  /\ DOMAIN OA!KindLane = {"repro", "rework", "other"}
  /\ OA!KindLane["repro"] = "repro/proof" /\ OA!KindLane["rework"] = "rework" /\ OA!KindLane["other"] = "none"
  /\ \A k \in DOMAIN OA!KindLane : OA!KindLane[k] \in {"repro/proof", "rework", "none"}
BY DEF OA!KindLane

LEMMA LaneExecutes ==
  ASSUME NEW h, NEW l \in OA!Durable
  PROVE  l \in OA!Executing(h) <=>
           \/ l \in OA!Flow /\ h \in auLive[l]
           \/ l # "none" /\ \E s \in AuSlots : auSlot[s].head = h /\ OA!KindLane[auSlot[s].kind] = l
BY DEF OA!Executing

LEMMA AuditStarts == OA!AuditInit => OA!AuditInv
<1> SUFFICES ASSUME OA!AuditInit PROVE OA!AuditInv
  OBVIOUS
<1>1. /\ auHead = 1 /\ auRows \subseteq AuRows /\ auView = OA!NoView /\ auPc = "slots" /\ auResult = OA!NoResult
      /\ auSteady = {} /\ auSeen = {} /\ auOff = {} /\ auMoves = 0
  BY DEF OA!AuditInit
<1>2. OA!NoTurn \in OA!Turn /\ OA!NoTurn.head = 0
  BY AuditAssumption, KindLanes DEF OA!NoTurn, OA!Turn
<1>3. auLive \in [OA!Flow -> SUBSET (1 .. AuHeads)] /\ auSlot \in [AuSlots -> OA!Turn]
  <2>1. 1 \in 1 .. AuHeads /\ 1 \in 0 .. AuHeads
    BY AuditAssumption
  <2>2. [head : {1}, kind : DOMAIN OA!KindLane] \subseteq OA!Turn
    BY <2>1 DEF OA!Turn
  <2> QED BY <1>2, <2>1, <2>2 DEF OA!AuditInit
<1>4. /\ OA!NoView \in AuditView /\ OA!NoView.head = 0 /\ OA!NoView.live = {} /\ OA!NoView.rows = {}
      /\ \A s \in AuSlots : OA!NoView.slots[s].head = 0
  BY <1>2, AuditAssumption DEF OA!NoView, AuditView
<1>5. OA!NoResult \in AuditAnswer /\ OA!NoResult.state = "none" /\ ~OA!NoResult.ok
  BY DEF OA!NoResult, AuditAnswer
<1>6. OA!AuditShape
  BY <1>1, <1>3, <1>4, <1>5, AuditAssumption DEF OA!AuditShape, AuditView, AuditAnswer
<1>7. OA!ProgressWasLive /\ OA!LiveEvidenceWins
  BY <1>1, <1>5, StatesTellLanes DEF OA!ProgressWasLive, OA!LiveEvidenceWins
<1>8. OA!GhostsHold /\ OA!ViewWasSeen /\ OA!SteadyWasSeen
  BY <1>1, <1>4 DEF OA!GhostsHold, OA!ViewWasSeen, OA!SteadyWasSeen
<1> QED BY <1>1, <1>4, <1>6, <1>7, <1>8 DEF OA!AuditInv

(* What was seen grows, what was there all along shrinks.                   *)
LEMMA AuditWorldKeeps == OA!AuditInv /\ OA!WorldMoves => OA!AuditInv'
<1> SUFFICES ASSUME OA!AuditInv, OA!WorldMoves PROVE OA!AuditInv'
  OBVIOUS
<1>1. /\ auPc # "done" /\ auMoves < AuMoves /\ auMoves' = auMoves + 1 /\ UNCHANGED <<auView, auPc, auResult, auOff>>
      /\ auSteady' = auSteady \cap {p \in OA!Durable \X (1 .. AuHeads) : p[1] \in OA!Executing(p[2])'}
      /\ auSeen' = auSeen \cup {p \in OA!Durable \X (1 .. AuHeads) : p[1] \in OA!Executing(p[2])'}
  BY DEF OA!WorldMoves, OA!Ghosts
<1>2. /\ auHead' \in 1 .. AuHeads /\ auLive' \in [OA!Flow -> SUBSET (1 .. AuHeads)]
      /\ auSlot' \in [AuSlots -> OA!Turn] /\ auRows' \subseteq AuRows
  <2>0. /\ auHead \in 1 .. AuHeads /\ auLive \in [OA!Flow -> SUBSET (1 .. AuHeads)]
        /\ auSlot \in [AuSlots -> OA!Turn] /\ auRows \subseteq AuRows
    BY DEF OA!AuditInv, OA!AuditShape
  <2>1. CASE auHead < AuHeads /\ auHead' = auHead + 1 /\ UNCHANGED <<auLive, auSlot, auRows>>
    BY <2>0, <2>1, AuditAssumption
  <2>2. ASSUME NEW l \in OA!Flow,
               auLive' = [auLive EXCEPT ![l] = IF auHead \in auLive[l] THEN auLive[l] \ {auHead} ELSE auLive[l] \cup {auHead}],
               UNCHANGED <<auHead, auSlot, auRows>>
        PROVE  auLive' \in [OA!Flow -> SUBSET (1 .. AuHeads)]
    BY <2>0, <2>2
  <2>3. ASSUME NEW s \in AuSlots, NEW k \in DOMAIN OA!KindLane,
               auSlot' = [auSlot EXCEPT ![s] = IF auSlot[s].head = 0 THEN [head |-> auHead, kind |-> k] ELSE OA!NoTurn],
               UNCHANGED <<auHead, auLive, auRows>>
        PROVE  auSlot' \in [AuSlots -> OA!Turn]
    <3>1. [head |-> auHead, kind |-> k] \in OA!Turn
      BY <2>0, AuditAssumption DEF OA!Turn
    <3>2. OA!NoTurn \in OA!Turn
      BY AuditAssumption, KindLanes DEF OA!NoTurn, OA!Turn
    <3> QED BY <2>0, <2>3, <3>1, <3>2
  <2>4. ASSUME NEW r \in AuRows, auRows' = auRows \cup {r}, UNCHANGED <<auHead, auLive, auSlot>>
        PROVE  auRows' \subseteq AuRows
    BY <2>0, <2>4
  <2> QED BY <2>0, <2>1, <2>2, <2>3, <2>4 DEF OA!WorldMoves
<1>3. OA!AuditShape'
  <2>1. auMoves' \in 0 .. AuMoves
    BY <1>1, AuditAssumption DEF OA!AuditInv, OA!AuditShape
  <2> QED BY <1>1, <1>2, <2>1 DEF OA!AuditInv, OA!AuditShape
<1>4. OA!GhostsHold'
  BY <1>1 DEF OA!GhostsHold
<1>5. OA!ViewWasSeen'
  BY <1>1 DEF OA!AuditInv, OA!ViewWasSeen
<1>6. OA!SteadyWasSeen'
  BY <1>1 DEF OA!AuditInv, OA!SteadyWasSeen, OA!LaneWasRead
<1>7. OA!ProgressWasLive' /\ OA!LiveEvidenceWins'
  <2>1. auResult' = OA!NoResult
    BY <1>1 DEF OA!AuditInv
  <2> QED BY <1>1, <2>1, StatesTellLanes DEF OA!ProgressWasLive, OA!LiveEvidenceWins, OA!NoResult
<1> QED BY <1>1, <1>3, <1>4, <1>5, <1>6, <1>7 DEF OA!AuditInv

LEMMA AuditSlotsKeeps == OA!AuditInv /\ OA!ReadSlots => OA!AuditInv'
<1> SUFFICES ASSUME OA!AuditInv, OA!ReadSlots PROVE OA!AuditInv'
  OBVIOUS
<1>1. /\ auPc = "slots" /\ auPc' = "prs" /\ UNCHANGED <<auHead, auLive, auSlot, auRows, auMoves, auResult, auOff>>
      /\ auView' = [auView EXCEPT !.slots = auSlot] \/ auView' = auView
      /\ auSteady' = {p \in OA!Durable \X (1 .. AuHeads) : p[1] \in OA!Executing(p[2])} /\ auSeen' = auSteady'
  BY DEF OA!ReadSlots, OA!World
<1>2. /\ auView = OA!NoView /\ auView \in AuditView /\ auSlot \in [AuSlots -> OA!Turn]
      /\ auView.head = 0 /\ auView.live = {} /\ auView.rows = {}
      /\ \A s \in AuSlots : auView.slots[s].head = 0
  <2>1. auView = OA!NoView
    BY <1>1 DEF OA!AuditInv
  <2>2. \A s \in AuSlots : auView.slots[s].head = 0
    BY <2>1 DEF OA!NoView, OA!NoTurn
  <2> QED BY <1>1, <2>1, <2>2 DEF OA!AuditInv, OA!AuditShape, AuditView
<1>3. /\ auView' \in AuditView /\ auView'.head = 0 /\ auView'.live = {} /\ auView'.rows = {}
      /\ auView'.slots = auSlot \/ auView'.slots = auView.slots
  BY <1>1, <1>2 DEF AuditView
<1>4. OA!AuditShape'
  BY <1>1, <1>3 DEF OA!AuditInv, OA!AuditShape, AuditView
<1>5. \A h : OA!Executing(h)' = OA!Executing(h)
  BY <1>1 DEF OA!Executing
<1>6. OA!GhostsHold'
  BY <1>1, <1>5 DEF OA!GhostsHold
<1>7. ASSUME NEW s \in AuSlots, auView'.slots[s].head # 0, OA!KindLane[auView'.slots[s].kind] # "none"
      PROVE  <<OA!KindLane[auView'.slots[s].kind], auView'.slots[s].head>> \in auSeen'
  <2>1. auView'.slots = auSlot
    BY <1>2, <1>3, <1>7
  <2>2. /\ auSlot[s].head \in 1 .. AuHeads /\ auSlot[s].kind \in DOMAIN OA!KindLane
        /\ OA!KindLane[auSlot[s].kind] \in OA!Durable
    BY <1>2, <1>7, <2>1, AuditAssumption, KindLanes DEF OA!Turn, OA!Durable
  <2>3. OA!KindLane[auSlot[s].kind] \in OA!Executing(auSlot[s].head)
    BY <1>7, <2>1, <2>2, LaneExecutes
  <2> QED BY <1>1, <2>1, <2>2, <2>3
<1>8. OA!ViewWasSeen'
  BY <1>3, <1>7 DEF OA!ViewWasSeen
<1>9. ASSUME auView'.slots # OA!NoView.slots, NEW l \in OA!Durable \ OA!Flow, NEW h \in 1 .. AuHeads, <<l, h>> \in auSteady'
      PROVE  \E s \in AuSlots : auView'.slots[s].head = h /\ OA!KindLane[auView'.slots[s].kind] = l
  <2>1. auView'.slots = auSlot
    BY <1>2, <1>3, <1>9
  <2>2. l \in OA!Executing(h)
    BY <1>1, <1>9
  <2> QED BY <1>9, <2>1, <2>2, LaneExecutes
<1>10. OA!SteadyWasSeen'
  BY <1>1, <1>9 DEF OA!SteadyWasSeen, OA!LaneWasRead
<1>11. OA!ProgressWasLive' /\ OA!LiveEvidenceWins'
  <2>1. auResult' = OA!NoResult
    BY <1>1 DEF OA!AuditInv
  <2> QED BY <1>1, <2>1, StatesTellLanes DEF OA!ProgressWasLive, OA!LiveEvidenceWins, OA!NoResult
<1>12. auResult' = OA!NoResult
  BY <1>1 DEF OA!AuditInv
<1> QED BY <1>1, <1>3, <1>4, <1>6, <1>8, <1>10, <1>11, <1>12 DEF OA!AuditInv

(* An audit that ends without a lane says nothing of one.                   *)
LEMMA SilentEnds ==
  ASSUME OA!AuditInv, auPc \in {"prs", "rows"}, UNCHANGED <<auHead, auLive, auSlot, auRows, auMoves, auSteady, auSeen, auOff, auView>>,
         NEW ok \in BOOLEAN, NEW state \in {"none", "PROCESS_LIMBO"}, NEW from \in {"unreadable", "identity", "unread"},
         OA!Answer(ok, state, from), ok => auView.head = 0 \/ auView.unread
  PROVE  OA!AuditInv'
<1>1. auPc' = "done" /\ auResult' \in AuditAnswer /\ auResult'.state = state /\ auResult'.ok = ok
  BY DEF OA!Answer, AuditAnswer, OA!MotionStates
<1>2. OA!AuditShape'
  BY <1>1 DEF OA!AuditInv, OA!AuditShape, AuditAnswer
<1>3. OA!GhostsHold'
  <2>1. \A h : OA!Executing(h)' = OA!Executing(h)
    BY DEF OA!Executing
  <2> QED BY <1>1, <2>1 DEF OA!AuditInv, OA!GhostsHold
<1>4. OA!ViewWasSeen'
  BY DEF OA!AuditInv, OA!ViewWasSeen
<1>5. OA!SteadyWasSeen'
  <2>1. ASSUME NEW l \in OA!Flow, auPc = "prs" PROVE <<l, auView.head>> \notin auSteady
    <3>1. auView.head = 0 /\ 0 \notin 1 .. AuHeads
      BY <2>1 DEF OA!AuditInv
    <3> QED BY <3>1 DEF OA!AuditInv, OA!AuditShape
  <2> QED BY <2>1 DEF OA!AuditInv, OA!SteadyWasSeen, OA!LaneWasRead
<1>6. OA!ProgressWasLive' /\ OA!LiveEvidenceWins'
  BY <1>1, StatesTellLanes DEF OA!ProgressWasLive, OA!LiveEvidenceWins
<1> QED BY <1>1, <1>2, <1>3, <1>4, <1>5, <1>6 DEF OA!AuditInv

LEMMA AuditPRsKeeps == OA!AuditInv /\ OA!ReadPRs => OA!AuditInv'
<1> SUFFICES ASSUME OA!AuditInv, OA!ReadPRs PROVE OA!AuditInv'
  OBVIOUS
<1>1. auPc = "prs" /\ UNCHANGED <<auHead, auLive, auSlot, auRows, auMoves, auSteady, auSeen, auOff>>
  BY DEF OA!ReadPRs, OA!World
<1>2. CASE OA!Answer(FALSE, "none", "unreadable") /\ UNCHANGED auView
  BY <1>1, <1>2, SilentEnds
<1>3. CASE OA!Answer(TRUE, "PROCESS_LIMBO", "identity") /\ UNCHANGED auView
  <2>1. auView.head = 0
    BY <1>1 DEF OA!AuditInv
  <2> QED BY <1>1, <1>3, <2>1, SilentEnds
<1>4. ASSUME NEW twin \in BOOLEAN, auView' = [auView EXCEPT !.head = auHead, !.dup = twin],
             auPc' = "CI", UNCHANGED auResult
      PROVE  OA!AuditInv'
  <2>1. auView \in AuditView /\ auHead \in 1 .. AuHeads /\ auView.live = {} /\ auView.rows = {}
    BY <1>1 DEF OA!AuditInv, OA!AuditShape, AuditView
  <2>2. auHead \in 0 .. AuHeads /\ auHead # 0
    BY <2>1, AuditAssumption
  <2>3. /\ auView' \in AuditView /\ auView'.head = auHead /\ auView'.live = {} /\ auView'.slots = auView.slots
    BY <1>4, <2>1, <2>2 DEF AuditView
  <2>4. OA!AuditShape'
    BY <1>1, <1>4, <2>3 DEF OA!AuditInv, OA!AuditShape, AuditView
  <2>5. OA!GhostsHold'
    <3>1. \A h : OA!Executing(h)' = OA!Executing(h)
      BY <1>1 DEF OA!Executing
    <3> QED BY <1>1, <1>4, <3>1 DEF OA!AuditInv, OA!GhostsHold
  <2>6. OA!ViewWasSeen'
    BY <1>1, <2>3 DEF OA!AuditInv, OA!ViewWasSeen
  <2>7. OA!SteadyWasSeen'
    BY <1>1, <1>4, <2>3 DEF OA!AuditInv, OA!SteadyWasSeen, OA!LaneWasRead
  <2>8. auResult' = OA!NoResult
    BY <1>1, <1>4 DEF OA!AuditInv
  <2>9. OA!ProgressWasLive' /\ OA!LiveEvidenceWins'
    BY <1>4, <2>8, StatesTellLanes DEF OA!ProgressWasLive, OA!LiveEvidenceWins, OA!NoResult
  <2> QED BY <1>4, <2>2, <2>3, <2>4, <2>5, <2>6, <2>7, <2>8, <2>9 DEF OA!AuditInv
<1> QED BY <1>2, <1>3, <1>4 DEF OA!ReadPRs

LEMMA AuditJobsKeeps ==
  ASSUME OA!AuditInv, NEW k \in OA!Flow, NEW next \in {"capture", "rows"}, OA!ReadJobsOf(k, next),
         (k = "CI" /\ next = "capture") \/ (k = "capture" /\ next = "rows")
  PROVE  OA!AuditInv'
<1>1. /\ auPc = k /\ auPc' = next /\ UNCHANGED <<auHead, auLive, auSlot, auRows, auMoves, auResult, auSteady, auSeen>>
      /\ auOff \subseteq auOff'
      /\ \/ /\ auView' = [auView EXCEPT !.live = IF auView.head \in auLive[k] THEN auView.live \cup {k} ELSE auView.live]
            /\ auOff' = auOff
         \/ auView' = auView /\ auOff' = auOff \cup {k}
         \/ auView' = [auView EXCEPT !.unread = TRUE] /\ auOff' = auOff
  BY DEF OA!ReadJobsOf, OA!World
<1>2. auView \in AuditView /\ auView.head \in 1 .. AuHeads /\ auResult' = OA!NoResult
  <2>1. auView \in AuditView /\ auView.head # 0
    BY <1>1 DEF OA!AuditInv, OA!AuditShape, AuditView, OA!Flow
  <2> QED BY <1>1, <2>1, AuditAssumption DEF AuditView, OA!AuditInv
<1>3. PICK live1 \in SUBSET OA!Flow, unread1 \in BOOLEAN :
        /\ auView' = [auView EXCEPT !.live = live1, !.unread = unread1] /\ auView.live \subseteq live1
        /\ ~unread1 => ~auView.unread /\ (auView.head \in auLive[k] => k \in live1 \cup auOff')
        /\ \A l \in live1 : l \in auView.live \/ (l = k /\ auView.head \in auLive[k])
  <2>1. auView.live \subseteq OA!Flow /\ auView.unread \in BOOLEAN
    BY <1>2 DEF AuditView
  <2>2. CASE auView' = [auView EXCEPT !.unread = TRUE]
    <3>1. auView' = [auView EXCEPT !.live = auView.live, !.unread = TRUE]
      BY <1>2, <2>2 DEF AuditView
    <3> QED BY <2>1, <3>1
  <2>3. CASE auView' = [auView EXCEPT !.live = IF auView.head \in auLive[k] THEN auView.live \cup {k} ELSE auView.live]
    <3> DEFINE new == IF auView.head \in auLive[k] THEN auView.live \cup {k} ELSE auView.live
    <3>1. new \in SUBSET OA!Flow /\ auView.live \subseteq new /\ (auView.head \in auLive[k] => k \in new)
          /\ \A l \in new : l \in auView.live \/ (l = k /\ auView.head \in auLive[k])
      BY <2>1
    <3>2. auView' = [auView EXCEPT !.live = new]
      BY <2>3
    <3> HIDE DEF new
    <3>3. auView' = [auView EXCEPT !.live = new, !.unread = auView.unread]
      BY <1>2, <3>2 DEF AuditView
    <3> QED BY <2>1, <3>1, <3>3
  <2>4. CASE auView' = auView /\ auOff' = auOff \cup {k}
    <3>1. auView' = [auView EXCEPT !.live = auView.live, !.unread = auView.unread]
      BY <1>2, <2>4 DEF AuditView
    <3> QED BY <2>1, <2>4, <3>1
  <2> QED BY <1>1, <2>2, <2>3, <2>4
<1>4. /\ auView' \in AuditView /\ auView'.head = auView.head /\ auView'.slots = auView.slots
      /\ auView'.live = live1 /\ auView'.unread = unread1 /\ auView'.rows = auView.rows
  BY <1>2, <1>3 DEF AuditView
<1>5. OA!AuditShape'
  <2>1. auOff' \subseteq OA!Flow /\ auOff \subseteq auOff'
    BY <1>1 DEF OA!AuditInv, OA!AuditShape
  <2> QED BY <1>1, <1>4, <2>1 DEF OA!AuditInv, OA!AuditShape, AuditView
<1>6. \A h : OA!Executing(h)' = OA!Executing(h)
  BY <1>1 DEF OA!Executing
<1>7. OA!GhostsHold'
  BY <1>1, <1>6 DEF OA!AuditInv, OA!GhostsHold, OA!Flow
<1>8. auPc # "slots" /\ k \in OA!Durable
  BY <1>1 DEF OA!Flow, OA!Durable
<1>9. OA!ViewWasSeen'
  <2>1. auView.head \in auLive[k] => <<k, auView.head>> \in auSeen
    BY <1>2, <1>8, LaneExecutes DEF OA!AuditInv, OA!GhostsHold
  <2> QED BY <1>1, <1>3, <1>4, <2>1 DEF OA!AuditInv, OA!ViewWasSeen
<1>10. OA!SteadyWasSeen'
  <2>1. <<k, auView.head>> \in auSteady => auView.head \in auLive[k]
    <3>1. ~\E s \in AuSlots : auSlot[s].head = auView.head /\ OA!KindLane[auSlot[s].kind] = k
      <4>1. \A s \in AuSlots : OA!KindLane[auSlot[s].kind] \in {"repro/proof", "rework", "none"}
        BY KindLanes DEF OA!AuditInv, OA!AuditShape, OA!Turn
      <4> QED BY <4>1 DEF OA!Flow
    <3> QED BY <1>2, <1>8, <3>1, LaneExecutes DEF OA!AuditInv, OA!GhostsHold
  <2>2. \A l \in OA!Flow : OA!LaneWasRead(l)' => l = k \/ OA!LaneWasRead(l)
    BY <1>1 DEF OA!LaneWasRead, OA!Flow
  <2> QED BY <1>1, <1>3, <1>4, <2>1, <2>2 DEF OA!AuditInv, OA!SteadyWasSeen
<1>11. OA!ProgressWasLive' /\ OA!LiveEvidenceWins'
  BY <1>1, <1>2, StatesTellLanes DEF OA!ProgressWasLive, OA!LiveEvidenceWins, OA!NoResult
<1>12. auView'.head # 0
  BY <1>2, <1>4
<1> QED BY <1>1, <1>2, <1>5, <1>7, <1>9, <1>10, <1>11, <1>12 DEF OA!AuditInv, OA!Flow

(* Every lane that counts as active was seen to execute; a lane that did    *)
(* alone, all along, is the only one that counts.                           *)
LEMMA ActiveWasSeen ==
  ASSUME OA!AuditInv, auView.head # 0, NEW l \in OA!ActiveLanes(auView)
  PROVE  l \in OA!Flow \cup {"repro/proof", "rework"} /\ <<l, auView.head>> \in auSeen
<1>1. CASE l \in auView.live
  BY <1>1 DEF OA!AuditInv, OA!AuditShape, OA!ViewWasSeen
<1>2. CASE l \in OA!Numbered(auView)
  <2>1. PICK s \in OA!Owners(auView) : l = OA!KindLane[auView.slots[s].kind] /\ l # "none"
    BY <1>2 DEF OA!Numbered
  <2>2. s \in AuSlots /\ auView.slots[s].head = auView.head /\ auView.slots[s].kind \in DOMAIN OA!KindLane
    BY <2>1 DEF OA!Owners, OA!AuditInv, OA!AuditShape, OA!Turn
  <2> QED BY <2>1, <2>2, KindLanes DEF OA!AuditInv, OA!ViewWasSeen
<1> QED BY <1>1, <1>2 DEF OA!ActiveLanes

LEMMA SteadyIsActive ==
  ASSUME OA!AuditInv, auPc = "rows", ~auView.unread, auView.slots # OA!NoView.slots, NEW l \in OA!Durable,
         l \notin auOff, <<l, auView.head>> \in auSteady, OA!AtMostOne(OA!Owners(auView))
  PROVE  l \in OA!ActiveLanes(auView)
<1>1. CASE l \in OA!Flow
  BY <1>1 DEF OA!AuditInv, OA!SteadyWasSeen, OA!LaneWasRead, OA!ActiveLanes
<1>2. CASE l \notin OA!Flow
  <2>1. auView.head \in 1 .. AuHeads
    BY DEF OA!AuditInv, OA!AuditShape
  <2>2. PICK s \in AuSlots : auView.slots[s].head = auView.head /\ OA!KindLane[auView.slots[s].kind] = l
    BY <1>2, <2>1 DEF OA!AuditInv, OA!SteadyWasSeen
  <2>3. s \in OA!Owners(auView) /\ l # "none"
    BY <2>2 DEF OA!Owners, OA!Durable
  <2> QED BY <2>2, <2>3 DEF OA!Numbered, OA!ActiveLanes
<1> QED BY <1>1, <1>2

(* What the evaluation answers, by the lanes that are active in its view.   *)
LEMMA EvaluationAnswers ==
  ASSUME NEW v, v.rows \subseteq AuRows, OA!ActiveLanes(v) \subseteq OA!Flow \cup {"repro/proof", "rework"}
  PROVE  /\ OA!EvaluateRow(v) \in AuditAnswer
         /\ \A l \in OA!Durable : OA!EvaluateRow(v).state = OA!StateOf[l] /\ (l \in OA!Flow \/ OA!EvaluateRow(v).from = "live")
               => l \in OA!ActiveLanes(v)
         /\ \A l : OA!ActiveLanes(v) = {l} /\ OA!AtMostOne(OA!Owners(v)) => OA!EvaluateRow(v).state = OA!StateOf[l]
<1> DEFINE lanes == OA!ActiveLanes(v)
<1>1. lanes # {} => (CHOOSE l \in lanes : TRUE) \in lanes
  OBVIOUS
<1>2. ASSUME NEW records \in SUBSET OA!Bound(v)
      PROVE  LET e == OA!EvaluateActivity(v, records) IN
             /\ e \in AuditAnswer
             /\ \/ e.from = "live" /\ lanes # {} /\ e.state = OA!StateOf[CHOOSE l \in lanes : TRUE] /\ ~OA!Ambiguous(v)
                \/ e.from # "live" /\ e.state = "PROCESS_LIMBO" /\ (OA!Ambiguous(v) \/ lanes = {})
                \/ e.from # "live" /\ (\E k \in OA!Durable : e.state = OA!DurableState(k)) /\ lanes = {}
  <2>1. CASE OA!Ambiguous(v)
    BY <2>1 DEF OA!EvaluateActivity, AuditAnswer, OA!MotionStates
  <2>2. CASE ~OA!Ambiguous(v) /\ lanes # {}
    <3>1. (CHOOSE l \in lanes : TRUE) \in OA!Durable
      BY <1>1, <2>2 DEF OA!Flow, OA!Durable
    <3>2. OA!StateOf[CHOOSE l \in lanes : TRUE] \in OA!MotionStates
      BY <3>1, StatesTellLanes
    <3>3. OA!EvaluateActivity(v, records) = [ok |-> TRUE, state |-> OA!StateOf[CHOOSE l \in lanes : TRUE], from |-> "live"]
      BY <2>2 DEF OA!EvaluateActivity
    <3> QED BY <2>2, <3>2, <3>3 DEF AuditAnswer
  <2>3. CASE ~OA!Ambiguous(v) /\ lanes = {} /\ records # {}
    <3> DEFINE r == CHOOSE x \in records : TRUE
    <3>1. r \in records
      BY <2>3
    <3>2. r.lane \in OA!Durable
      BY <3>1, AuditAssumption DEF OA!Bound
    <3>3. OA!EvaluateActivity(v, records) = [ok |-> TRUE, state |-> OA!DurableState(r.lane), from |-> "durable"]
      BY <2>3 DEF OA!EvaluateActivity
    <3>4. OA!DurableState(r.lane) \in OA!MotionStates
      BY <3>2, StatesTellLanes DEF OA!DurableState, OA!MotionStates
    <3> HIDE DEF r
    <3> QED BY <2>3, <3>2, <3>3, <3>4 DEF AuditAnswer
  <2>4. CASE ~OA!Ambiguous(v) /\ lanes = {} /\ records = {}
    BY <2>4 DEF OA!EvaluateActivity, AuditAnswer, OA!MotionStates
  <2> QED BY <2>1, <2>2, <2>3, <2>4
<1> DEFINE row1 == OA!EvaluateRow(v)
<1>3. /\ row1 \in AuditAnswer
      /\ \/ row1.from = "live" /\ lanes # {} /\ row1.state = OA!StateOf[CHOOSE l \in lanes : TRUE] /\ ~OA!Ambiguous(v)
         \/ row1.from # "live" /\ row1.state = "PROCESS_LIMBO" /\ (OA!Ambiguous(v) \/ lanes = {})
         \/ row1.from # "live" /\ (\E k \in OA!Durable : row1.state = OA!DurableState(k)) /\ lanes = {}
  <2>1. CASE ~OA!RowError(v)
    <3>1. OA!Bound(v) \in SUBSET OA!Bound(v) /\ row1 = OA!EvaluateActivity(v, OA!Bound(v))
      BY <2>1 DEF OA!EvaluateRow
    <3> HIDE DEF row1, lanes
    <3> QED BY <1>2, <3>1
  <2>2. CASE OA!RowError(v) /\ OA!EvaluateActivity(v, {}).state \in OA!Progress
    <3>1. {} \in SUBSET OA!Bound(v) /\ row1 = OA!EvaluateActivity(v, {})
      BY <2>2 DEF OA!EvaluateRow
    <3> HIDE DEF row1, lanes
    <3> QED BY <1>2, <3>1
  <2>3. CASE OA!RowError(v) /\ OA!EvaluateActivity(v, {}).state \notin OA!Progress
    <3>1. row1 = OA!MalformedRow
      BY <2>3 DEF OA!EvaluateRow
    <3>2. OA!Ambiguous(v) \/ lanes = {}
      <4> SUFFICES ASSUME ~OA!Ambiguous(v), lanes # {} PROVE FALSE
        OBVIOUS
      <4>1. OA!EvaluateActivity(v, {}) = [ok |-> TRUE, state |-> OA!StateOf[CHOOSE l \in lanes : TRUE], from |-> "live"]
        BY DEF OA!EvaluateActivity
      <4>2. OA!StateOf[CHOOSE l \in lanes : TRUE] \in OA!Progress
        BY <1>1, StatesTellLanes
      <4> QED BY <2>3, <4>1, <4>2
    <3> QED BY <3>1, <3>2 DEF OA!MalformedRow, AuditAnswer, OA!MotionStates
  <2> QED BY <2>1, <2>2, <2>3
<1> HIDE DEF row1
<1>4. ASSUME NEW l \in OA!Durable, row1.state = OA!StateOf[l], l \in OA!Flow \/ row1.from = "live"
      PROVE  l \in lanes
  <2>1. CASE row1.from = "live"
    <3>1. lanes # {} /\ row1.state = OA!StateOf[CHOOSE k \in lanes : TRUE] /\ (CHOOSE k \in lanes : TRUE) \in OA!Durable
      BY <1>1, <1>3, <2>1 DEF OA!Flow, OA!Durable
    <3> QED BY <1>1, <1>4, <3>1, StatesTellLanes
  <2>2. CASE row1.from # "live"
    BY <1>3, <1>4, <2>2, StatesTellLanes
  <2> QED BY <2>1, <2>2
<1>5. ASSUME NEW l, lanes = {l}, OA!AtMostOne(OA!Owners(v)) PROVE row1.state = OA!StateOf[l]
  <2>1. ~OA!Ambiguous(v)
    BY <1>5 DEF OA!Ambiguous, OA!AtMostOne
  <2> QED BY <1>3, <1>5, <2>1
<1> QED BY <1>3, <1>4, <1>5 DEF row1

LEMMA AuditRowsKeeps == OA!AuditInv /\ OA!ReadRows => OA!AuditInv'
<1> SUFFICES ASSUME OA!AuditInv, OA!ReadRows PROVE OA!AuditInv'
  OBVIOUS
<1>1. auPc = "rows" /\ UNCHANGED <<auHead, auLive, auSlot, auRows, auMoves, auSteady, auSeen, auOff>>
  BY DEF OA!ReadRows, OA!World
<1>2. auView \in AuditView /\ auView.head # 0 /\ auView.dup \in BOOLEAN /\ auRows \subseteq AuRows
  BY <1>1 DEF OA!AuditInv, OA!AuditShape, AuditView
<1>3. CASE auView.unread
  <2>1. OA!Answer(~auView.dup, "PROCESS_LIMBO", "unread") /\ UNCHANGED auView
    BY <1>3 DEF OA!ReadRows
  <2>2. PICK ok \in BOOLEAN : ok = ~auView.dup
    BY <1>2
  <2> QED BY <1>1, <1>3, <2>1, <2>2, SilentEnds
<1>4. CASE ~auView.unread /\ OA!Answer(FALSE, "none", "unreadable") /\ UNCHANGED auView
  BY <1>1, <1>4, SilentEnds
<1>5. CASE ~auView.unread /\ ~(OA!Answer(FALSE, "none", "unreadable") /\ UNCHANGED auView)
  <2>1. auView' = [auView EXCEPT !.rows = auRows]
        /\ OA!Answer(OA!EvaluateRow(auView').ok /\ ~auView.dup, OA!EvaluateRow(auView').state, OA!EvaluateRow(auView').from)
    BY <1>5 DEF OA!ReadRows
  <2>2. PICK v : v = auView'
    OBVIOUS
  <2>3. /\ v \in AuditView /\ v.head = auView.head /\ v.slots = auView.slots /\ v.live = auView.live
        /\ v.unread = auView.unread /\ v.dup = auView.dup /\ v.rows = auRows
    BY <1>2, <2>1, <2>2 DEF AuditView
  <2>4. OA!Owners(v) = OA!Owners(auView) /\ OA!ActiveLanes(v) = OA!ActiveLanes(auView)
    BY <2>3 DEF OA!Owners, OA!ActiveLanes, OA!Numbered
  <2>5. \A l \in OA!ActiveLanes(v) : l \in OA!Flow \cup {"repro/proof", "rework"} /\ <<l, auView.head>> \in auSeen
    BY <1>2, <2>4, ActiveWasSeen
  <2> DEFINE e == OA!EvaluateRow(v)
  <2>6. /\ e \in AuditAnswer
        /\ \A l \in OA!Durable : e.state = OA!StateOf[l] /\ (l \in OA!Flow \/ e.from = "live") => l \in OA!ActiveLanes(v)
        /\ \A l : OA!ActiveLanes(v) = {l} /\ OA!AtMostOne(OA!Owners(v)) => e.state = OA!StateOf[l]
    BY <1>2, <2>3, <2>5, EvaluationAnswers
  <2>7. auPc' = "done" /\ auResult' = [ok |-> e.ok /\ ~v.dup, state |-> e.state, from |-> e.from]
    BY <2>1, <2>2, <2>3 DEF OA!Answer
  <2> HIDE DEF e
  <2>8. auResult' \in AuditAnswer /\ auResult'.state = e.state /\ auResult'.from = e.from
    <3>1. (e.ok /\ ~v.dup) \in BOOLEAN
      OBVIOUS
    <3>2. e.state \in OA!MotionStates \cup {"none"} /\ e.from \in {"none", "unreadable", "identity", "unread", "several", "live", "durable", "malformed"}
      BY <2>6 DEF AuditAnswer
    <3> QED BY <2>7, <3>1, <3>2 DEF AuditAnswer
  <2>9. OA!AuditShape'
    BY <1>1, <2>2, <2>3, <2>7, <2>8 DEF OA!AuditInv, OA!AuditShape, AuditView, AuditAnswer
  <2>10. OA!GhostsHold'
    <3>1. \A h : OA!Executing(h)' = OA!Executing(h)
      BY <1>1 DEF OA!Executing
    <3> QED BY <1>1, <2>7, <3>1 DEF OA!AuditInv, OA!GhostsHold
  <2>11. OA!ViewWasSeen'
    BY <1>1, <2>2, <2>3 DEF OA!AuditInv, OA!ViewWasSeen
  <2>12. OA!SteadyWasSeen'
    BY <1>1, <2>2, <2>3 DEF OA!AuditInv, OA!SteadyWasSeen, OA!LaneWasRead
  <2>13. OA!ProgressWasLive'
    BY <1>1, <2>2, <2>3, <2>5, <2>6, <2>8 DEF OA!ProgressWasLive
  <2>14. ASSUME NEW l \in OA!Durable, v.slots # OA!NoView.slots, l \notin auOff, <<l, v.head>> \in auSteady,
                {x \in auSeen : x[2] = v.head} = {<<l, v.head>>}, OA!AtMostOne(OA!Owners(v))
         PROVE  auResult'.state = OA!StateOf[l]
    <3>1. l \in OA!ActiveLanes(v)
      BY <1>1, <1>5, <2>3, <2>4, <2>14, SteadyIsActive
    <3>2. \A k \in OA!ActiveLanes(v) : k = l
      <4> TAKE k \in OA!ActiveLanes(v)
      <4>1. <<k, v.head>> \in {x \in auSeen : x[2] = v.head}
        BY <2>3, <2>5
      <4> QED BY <2>14, <4>1
    <3>3. OA!ActiveLanes(v) = {l}
      BY <3>1, <3>2
    <3> QED BY <2>6, <2>8, <2>14, <3>3
  <2>15. OA!LiveEvidenceWins'
    BY <1>1, <2>2, <2>14 DEF OA!LiveEvidenceWins
  <2> QED BY <2>7, <2>9, <2>10, <2>11, <2>12, <2>13, <2>15 DEF OA!AuditInv
<1> QED BY <1>3, <1>4, <1>5

LEMMA AuditGoes == OA!AuditInv /\ [OA!AuditNext]_auditVars => OA!AuditInv'
<1> SUFFICES ASSUME OA!AuditInv, [OA!AuditNext]_auditVars PROVE OA!AuditInv'
  OBVIOUS
<1>1. CASE UNCHANGED auditVars
  BY <1>1 DEF auditVars, OA!AuditInv, OA!AuditShape, OA!GhostsHold, OA!Executing, OA!ViewWasSeen, OA!SteadyWasSeen,
     OA!LaneWasRead, OA!ProgressWasLive, OA!LiveEvidenceWins
<1>2. CASE OA!ReadJobsOf("CI", "capture")
  BY <1>2, AuditJobsKeeps DEF OA!Flow
<1>3. CASE OA!ReadJobsOf("capture", "rows")
  BY <1>3, AuditJobsKeeps DEF OA!Flow
<1> QED BY <1>1, <1>2, <1>3, AuditWorldKeeps, AuditSlotsKeeps, AuditPRsKeeps, AuditRowsKeeps DEF OA!AuditNext

LEMMA AuditTypes == OA!AuditInv => OA!AuditTypeOK
BY DEF OA!AuditInv, OA!AuditShape, OA!AuditTypeOK, OA!Turn

-----------------------------------------------------------------------------
(* The snapshot of an open pull request (PRSnapshot).                       *)

SnapView == [slot : BOOLEAN, mop : BOOLEAN, pr : SN!PullRequest \cup {SN!NoView.pr},
             threads : {"unread", "none", "live", "unknown"}, receipt : SN!Receipt,
             claim : {"none", "unknown", "known"},
             rows : [{"pr_admission", "pr_merge_ask"} -> SN!Row], held : BOOLEAN]

LEMMA SnapShapes ==
  ASSUME SN!SnapInv
  PROVE  /\ snPr \in SN!PullRequest /\ snSlot \in BOOLEAN /\ snRows \in [SN!ClaimKinds -> SN!Row]
         /\ snReceipt \in SN!Receipt /\ snView \in SnapView
         /\ snPr.head \in 1 .. SnHeads /\ snPr.head \in Nat /\ snView.pr.head \in 0 .. snPr.head
         /\ snView.pr.head \in Nat /\ snReceipt.head \in 0 .. snPr.head
<1>1. /\ snPr \in SN!PullRequest /\ snSlot \in BOOLEAN /\ snRows \in [SN!ClaimKinds -> SN!Row]
      /\ snReceipt \in SN!Receipt /\ snView \in SnapView /\ snView.pr.head \in 0 .. snPr.head
      /\ snReceipt.head \in 0 .. snPr.head
  BY DEF SN!SnapInv, SN!SnapShape, SnapView
<1>2. snPr.head \in 1 .. SnHeads
  BY <1>1 DEF SN!PullRequest
<1> QED BY <1>1, <1>2, SnapAssumption

(* What a fact that is true now says of the world.                          *)
LEMMA HeadFactsAreTrue ==
  ASSUME NEW f \in SN!ThisHeadFacts
  PROVE  /\ f \in SN!ThisHeadNames
         /\ f = "pending" => SN!GatesPending(snPr)
         /\ f = "red" => SN!RequiredRed(snPr) # {}
         /\ f = "not green" => ~SN!GatesGreen(snPr)
         /\ f = "block" => snPr.verdict = "BLOCK"
         /\ f = "rework row" => /\ snPr.verdict # "PASS" /\ snRows["pr_admission"].owner \in SN!ReworkOwners
                                /\ SN!RowHolds(snRows["pr_admission"], snPr.head)
         /\ f = "ask row" => SN!ExemptEligible(snPr) /\ SN!RowHolds(snRows["pr_merge_ask"], snPr.head)
BY DEF SN!ThisHeadFacts, SN!ThisHeadNames

LEMMA AnyFactsAreTrue ==
  ASSUME SN!SnapInv, NEW f \in SN!AnyHeadFacts
  PROVE  /\ f \in SnLabels => f \in snPr.labels
         /\ f \in SN!ClaimKinds => SN!PmWait(snRows[f])
         /\ f = "slot" => snSlot
         /\ f = "draft" => snPr.draft
         /\ f = "dnm" => snPr.dnm
         /\ f = "thread" => snPr.live
         /\ f \notin SN!ThisHeadNames
<1>1. snPr.labels \subseteq SnLabels
  BY SnapShapes DEF SN!PullRequest
<1>2. \/ f \in snPr.labels
      \/ f \in SN!ClaimKinds /\ SN!PmWait(snRows[f])
      \/ f = "slot" /\ snSlot
      \/ f = "draft" /\ snPr.draft
      \/ f = "dnm" /\ snPr.dnm
      \/ f = "thread" /\ snPr.live
  BY DEF SN!AnyHeadFacts
<1>3. SnLabels \cap (SN!ClaimKinds \cup {"slot", "draft", "dnm", "thread"} \cup SN!ThisHeadNames) = {}
  BY SnapAssumption
<1> QED BY <1>1, <1>2, <1>3 DEF SN!ClaimKinds, SN!ThisHeadNames

LEMMA FactsAreTrue ==
  ASSUME SN!SnapInv, snPc # "slots", NEW f \in snSteady
  PROVE  /\ f \in SnLabels => f \in snPr.labels
         /\ f \in SN!ClaimKinds => SN!PmWait(snRows[f])
         /\ f = "slot" => snSlot
         /\ f = "draft" => snPr.draft
         /\ f = "dnm" => snPr.dnm
         /\ f = "thread" => snPr.live
         /\ f = "pending" => SN!GatesPending(snPr)
         /\ f = "red" => SN!RequiredRed(snPr) # {}
         /\ f = "not green" => ~SN!GatesGreen(snPr)
         /\ f = "block" => snPr.verdict = "BLOCK"
         /\ f = "rework row" => /\ snPr.verdict # "PASS" /\ snRows["pr_admission"].owner \in SN!ReworkOwners
                                /\ SN!RowHolds(snRows["pr_admission"], snPr.head)
         /\ f = "ask row" => SN!ExemptEligible(snPr) /\ SN!RowHolds(snRows["pr_merge_ask"], snPr.head)
<1>1. CASE f \in SN!AnyHeadFacts
  BY <1>1, AnyFactsAreTrue DEF SN!ThisHeadNames
<1>2. CASE f \in SN!ThisHeadFacts
  <2>1. f \in SN!ThisHeadNames /\ f \notin SnLabels \cup SN!ClaimKinds \cup {"slot", "draft", "dnm", "thread"}
    BY <1>2, HeadFactsAreTrue, SnapAssumption DEF SN!ThisHeadNames, SN!ClaimKinds
  <2> QED BY <1>2, <2>1, HeadFactsAreTrue
<1> QED BY <1>1, <1>2 DEF SN!SnapInv

LEMMA NoViewIsView ==
  /\ SN!NoView \in SnapView /\ SN!NoView.pr.head = 0 /\ SN!NoView.claim = "none" /\ SN!NoView.threads = "unread"
  /\ SN!NoView.receipt = SN!NoReceipt /\ SN!NoReceipt \in SN!Receipt /\ SN!NoReceipt.resolution = "open"
  /\ SN!NoReceipt.head = 0
  /\ ~SN!NoView.mop
<1>1. SN!NoRow \in SN!Row /\ SN!NoReceipt \in SN!Receipt
  BY SnapAssumption DEF SN!NoRow, SN!Row, SN!Owners, SN!NoReceipt, SN!Receipt
<1> QED BY <1>1 DEF SN!NoView, SnapView, SN!NoReceipt

LEMMA SnapStarts == SN!SnapInit => SN!SnapInv
<1> SUFFICES ASSUME SN!SnapInit PROVE SN!SnapInv
  OBVIOUS
<1>1. /\ snPr \in SN!PullRequest /\ snPr.head = 1 /\ snSlot = FALSE /\ snMoves = 0 /\ snReceipt = SN!NoReceipt
      /\ snRows \in [SN!ClaimKinds -> SN!Row] /\ \A k \in SN!ClaimKinds : snRows[k].head \in {0, 1}
      /\ snView = SN!NoView /\ snPc = "slots" /\ snResult = SN!NoResult /\ snSteady = {}
  BY SnapAssumption DEF SN!SnapInit
<1>2. SN!SnapShape
  <2>1. snReceipt.head \in 0 .. snPr.head /\ snMoves \in 0 .. SnMoves /\ snView.pr.head \in 0 .. snPr.head
        /\ \A k \in SN!ClaimKinds : snRows[k].head \in 0 .. snPr.head
    BY <1>1, NoViewIsView, SnapAssumption
  <2> QED BY <1>1, <2>1, NoViewIsView DEF SN!SnapShape, SnapView
<1>3. SN!ListTold /\ SN!RestTold /\ SN!SeenTold
  BY <1>1, NoViewIsView DEF SN!ListTold, SN!RestTold, SN!SeenTold
<1> QED BY <1>1, <1>2, <1>3 DEF SN!SnapInv

(* The pull request, its rows, its receipt and the slot move.               *)
LEMMA RequestMoves ==
  ASSUME SN!SnapInv, SN!PrChanges
  PROVE  snPr' \in SN!PullRequest /\ snPr'.head \in Nat /\ snPr.head <= snPr'.head
<1>1. snPr \in SN!PullRequest /\ snPr.head \in 1 .. SnHeads /\ snPr.head \in Nat /\ snPr.live \in BOOLEAN
      /\ snPr.labels \subseteq SnLabels /\ snPr.head \in 0 .. SnHeads
      /\ snPr.runs \in [SN!Checks -> SUBSET {"PENDING", "SUCCESS", "FAILURE", "PLACEHOLDER"}]
      /\ snPr.draft \in BOOLEAN /\ snPr.dnm \in BOOLEAN
  BY SnapShapes, SnapAssumption DEF SN!PullRequest
<1>2. ASSUME snPr.head < SnHeads, NEW t \in {FALSE, snPr.live},
             snPr' = [snPr EXCEPT !.head = snPr.head + 1, !.runs = [c \in SN!Checks |-> {}], !.verdict = "none", !.live = t]
      PROVE  snPr' \in SN!PullRequest /\ snPr'.head = snPr.head + 1
  <2>0. snPr.head + 1 \in 1 .. SnHeads
    BY <1>1, <1>2, SnapAssumption
  <2>1. t \in BOOLEAN /\ [c \in SN!Checks |-> {}] \in [SN!Checks -> SUBSET {"PENDING", "SUCCESS", "FAILURE", "PLACEHOLDER"}]
    BY <1>1, <1>2
  <2> QED BY <1>1, <1>2, <2>0, <2>1 DEF SN!PullRequest
<1>3. ASSUME NEW c \in SN!Checks, NEW new \in SUBSET {"PENDING", "SUCCESS", "FAILURE", "PLACEHOLDER"},
             snPr' = [snPr EXCEPT !.runs[c] = new]
      PROVE  snPr' \in SN!PullRequest /\ snPr'.head = snPr.head
  BY <1>1, <1>3 DEF SN!PullRequest
<1>4. ASSUME NEW new \in SUBSET SnLabels, snPr' = [snPr EXCEPT !.labels = new]
      PROVE  snPr' \in SN!PullRequest /\ snPr'.head = snPr.head
  BY <1>1, <1>4 DEF SN!PullRequest
<1>5. ASSUME \/ snPr' = [snPr EXCEPT !.admit = snPr.head]
             \/ \E x \in {"PASS", "BLOCK"} : snPr' = [snPr EXCEPT !.verdict = x]
             \/ snPr' = [snPr EXCEPT !.draft = ~snPr.draft]
             \/ snPr' = [snPr EXCEPT !.dnm = ~snPr.dnm]
             \/ snPr' = [snPr EXCEPT !.live = ~snPr.live]
      PROVE  snPr' \in SN!PullRequest /\ snPr'.head = snPr.head
  BY <1>1, <1>5 DEF SN!PullRequest
<1>6. snPr' \in SN!PullRequest /\ snPr'.head \in {snPr.head, snPr.head + 1}
  <2>1. CASE \E c \in SN!Checks : snPr' = [snPr EXCEPT !.runs[c] = snPr.runs[c] \cup {"PENDING"}]
    <3>1. PICK c \in SN!Checks : snPr' = [snPr EXCEPT !.runs[c] = snPr.runs[c] \cup {"PENDING"}]
      BY <2>1
    <3>2. snPr.runs[c] \cup {"PENDING"} \in SUBSET {"PENDING", "SUCCESS", "FAILURE", "PLACEHOLDER"}
      BY <1>1
    <3> QED BY <1>3, <3>1, <3>2
  <2>2. CASE \E c \in SN!Checks, x \in {"SUCCESS", "FAILURE", "PLACEHOLDER"} :
               snPr' = [snPr EXCEPT !.runs[c] = (snPr.runs[c] \ {"PENDING"}) \cup {x}]
    <3>1. PICK c \in SN!Checks, x \in {"SUCCESS", "FAILURE", "PLACEHOLDER"} :
               snPr' = [snPr EXCEPT !.runs[c] = (snPr.runs[c] \ {"PENDING"}) \cup {x}]
      BY <2>2
    <3>2. (snPr.runs[c] \ {"PENDING"}) \cup {x} \in SUBSET {"PENDING", "SUCCESS", "FAILURE", "PLACEHOLDER"}
      BY <1>1
    <3> QED BY <1>3, <3>1, <3>2
  <2>3. CASE \E l \in SnLabels : snPr' = [snPr EXCEPT !.labels = IF l \in snPr.labels THEN snPr.labels \ {l} ELSE snPr.labels \cup {l}]
    <3>1. PICK l \in SnLabels : snPr' = [snPr EXCEPT !.labels = IF l \in snPr.labels THEN snPr.labels \ {l} ELSE snPr.labels \cup {l}]
      BY <2>3
    <3>2. (IF l \in snPr.labels THEN snPr.labels \ {l} ELSE snPr.labels \cup {l}) \in SUBSET SnLabels
      BY <1>1
    <3> QED BY <1>4, <3>1, <3>2
  <2>4. CASE \E t \in {FALSE, snPr.live} : /\ snPr.head < SnHeads
               /\ snPr' = [snPr EXCEPT !.head = snPr.head + 1, !.runs = [c \in SN!Checks |-> {}], !.verdict = "none", !.live = t]
    BY <1>2, <2>4
  <2>5. CASE \/ snPr' = [snPr EXCEPT !.admit = snPr.head]
             \/ \E x \in {"PASS", "BLOCK"} : snPr' = [snPr EXCEPT !.verdict = x]
             \/ snPr' = [snPr EXCEPT !.draft = ~snPr.draft]
             \/ snPr' = [snPr EXCEPT !.dnm = ~snPr.dnm]
             \/ snPr' = [snPr EXCEPT !.live = ~snPr.live]
    BY <1>5, <2>5
  <2> QED BY <2>1, <2>2, <2>3, <2>4, <2>5 DEF SN!PrChanges
<1> QED BY <1>1, <1>6

LEMMA SnapWorldKeeps == SN!SnapInv /\ SN!WorldMoves => SN!SnapInv'
<1> SUFFICES ASSUME SN!SnapInv, SN!WorldMoves PROVE SN!SnapInv'
  OBVIOUS
<1>1. /\ snPc \notin {"done", "failed"} /\ snMoves < SnMoves /\ snMoves' = snMoves + 1
      /\ UNCHANGED <<snView, snPc, snResult>>
  BY DEF SN!WorldMoves
<1>2. /\ snSteady' = snSteady \cap (SN!AnyHeadFacts' \cup (IF snPr'.head = snPr.head THEN SN!ThisHeadFacts' ELSE {}))
      /\ snSeen' = IF snPc = "slots" THEN snSeen
               ELSE [ready |-> snSeen.ready \cup SN!ReadyHeads', live |-> snSeen.live \cup SN!LiveHeads']
  BY DEF SN!WorldMoves, SN!Ghosts
<1>3. /\ snPr \in SN!PullRequest /\ snPr.head \in Nat /\ snRows \in [SN!ClaimKinds -> SN!Row]
      /\ snReceipt \in SN!Receipt /\ snReceipt.head \in 0 .. snPr.head /\ snView.pr.head \in 0 .. snPr.head
      /\ snPr.head \in 1 .. SnHeads
      /\ \A k \in SN!ClaimKinds : snRows[k].head \in 0 .. snPr.head
  BY SnapShapes DEF SN!SnapInv, SN!SnapShape
<1>4. snPr' \in SN!PullRequest /\ snPr'.head \in Nat /\ snPr.head <= snPr'.head
  BY <1>3, RequestMoves DEF SN!WorldMoves
<1>5. snRows' \in [SN!ClaimKinds -> SN!Row] /\ \A k \in SN!ClaimKinds : snRows'[k].head \in 0 .. snPr'.head
  <2>1. CASE UNCHANGED snRows
    BY <1>3, <1>4, <2>1
  <2>2. CASE SN!RowChanges /\ UNCHANGED snPr
    <3>1. PICK k \in SN!ClaimKinds, new \in SN!Row :
             snRows' = [snRows EXCEPT ![k] = new] /\ new.head \in 0 .. snPr.head
      <4>1. PICK k \in SN!ClaimKinds :
              \/ \E r \in SnRows \cup {SN!NoRow} : snRows' = [snRows EXCEPT ![k] =
                      [owner |-> r.owner, live |-> r.live, head |-> IF r.head = 0 THEN 0 ELSE snPr.head]]
              \/ snRows' = [snRows EXCEPT ![k].live = FALSE]
        BY <2>2 DEF SN!RowChanges
      <4>2. ASSUME NEW r \in SnRows \cup {SN!NoRow}, snRows' = [snRows EXCEPT ![k] =
                      [owner |-> r.owner, live |-> r.live, head |-> IF r.head = 0 THEN 0 ELSE snPr.head]]
            PROVE  \E new \in SN!Row : snRows' = [snRows EXCEPT ![k] = new] /\ new.head \in 0 .. snPr.head
        <5>1. r.owner \in SN!Owners /\ r.live \in BOOLEAN
          <6>1. SN!NoRow.owner \in SN!Owners /\ SN!NoRow.live \in BOOLEAN
            BY DEF SN!NoRow, SN!Owners
          <6> QED BY <4>2, <6>1, SnapAssumption
        <5>2. (IF r.head = 0 THEN 0 ELSE snPr.head) \in 0 .. snPr.head
              /\ (IF r.head = 0 THEN 0 ELSE snPr.head) \in 0 .. SnHeads
          BY <1>3, SnapAssumption
        <5> DEFINE new == [owner |-> r.owner, live |-> r.live, head |-> IF r.head = 0 THEN 0 ELSE snPr.head]
        <5>3. new \in SN!Row /\ new.head \in 0 .. snPr.head
          BY <5>1, <5>2 DEF SN!Row
        <5>4. snRows' = [snRows EXCEPT ![k] = new]
          BY <4>2
        <5> HIDE DEF new
        <5> QED BY <5>3, <5>4
      <4>3. ASSUME snRows' = [snRows EXCEPT ![k].live = FALSE]
            PROVE  \E new \in SN!Row : snRows' = [snRows EXCEPT ![k] = new] /\ new.head \in 0 .. snPr.head
        <5> DEFINE new == [snRows[k] EXCEPT !.live = FALSE]
        <5>1. new \in SN!Row /\ new.head \in 0 .. snPr.head
          BY <1>3 DEF SN!Row
        <5>2. snRows' = [snRows EXCEPT ![k] = new]
          BY <1>3, <4>3
        <5> HIDE DEF new
        <5> QED BY <5>1, <5>2
      <4> QED BY <4>1, <4>2, <4>3
    <3> QED BY <1>3, <2>2, <3>1
  <2> QED BY <2>1, <2>2 DEF SN!WorldMoves
<1>6. snReceipt' \in SN!Receipt /\ snReceipt'.head \in 0 .. snPr'.head /\ snSlot' \in BOOLEAN
  <2>1. snSlot' \in BOOLEAN
    BY SnapShapes DEF SN!WorldMoves
  <2>2. CASE UNCHANGED snReceipt
    BY <1>3, <1>4, <2>1, <2>2
  <2>3. CASE ~UNCHANGED snReceipt
    <3>1. PICK x \in {"merge_ready", "blocked"} : snReceipt' = [head |-> snPr.head, resolution |-> x] /\ UNCHANGED snPr
      BY <2>3 DEF SN!WorldMoves
    <3>2. snPr.head \in 0 .. SnHeads /\ snPr.head \in 0 .. snPr.head
      BY <1>3, SnapAssumption
    <3> QED BY <2>1, <3>1, <3>2 DEF SN!Receipt
  <2> QED BY <2>2, <2>3
<1>7. SN!SnapShape'
  <2>1. snMoves' \in 0 .. SnMoves
    <3>1. snMoves \in 0 .. SnMoves
      BY DEF SN!SnapInv, SN!SnapShape
    <3> QED BY <1>1, <3>1, SnapAssumption
  <2>2. snView'.pr.head \in 0 .. snPr'.head
    BY <1>1, <1>3, <1>4
  <2> QED BY <1>1, <1>4, <1>5, <1>6, <2>1, <2>2 DEF SN!SnapInv, SN!SnapShape
<1>8. snSteady' \subseteq snSteady /\ (snSteady' \cap SN!ThisHeadNames # {} => snPr'.head = snPr.head)
  <2>1. snPr'.labels \cap SN!ThisHeadNames = {}
    BY <1>4, SnapAssumption DEF SN!PullRequest
  <2>2. SN!AnyHeadFacts' \cap SN!ThisHeadNames = {}
    BY <2>1 DEF SN!AnyHeadFacts, SN!ThisHeadNames, SN!ClaimKinds
  <2> QED BY <1>2, <2>2
<1>9. SN!ListTold'
  BY <1>1, <1>8 DEF SN!SnapInv, SN!ListTold
<1>10. SN!RestTold'
  BY <1>1, <1>8 DEF SN!SnapInv, SN!RestTold, SN!ClaimWasRead
<1>11. SN!SeenTold'
  <2>1. CASE snPc = "slots"
    BY <1>1, <2>1, NoViewIsView DEF SN!SnapInv, SN!SeenTold
  <2>2. CASE snPc # "slots"
    <3>1. snSeen' = [ready |-> snSeen.ready \cup SN!ReadyHeads', live |-> snSeen.live \cup SN!LiveHeads']
      BY <1>2, <2>2
    <3>2. /\ snSeen.ready \subseteq snSeen'.ready /\ SN!ReadyHeads' \subseteq snSeen'.ready
          /\ snSeen.live \subseteq snSeen'.live /\ SN!LiveHeads' \subseteq snSeen'.live
      BY <3>1
    <3> QED BY <1>1, <2>2, <3>2 DEF SN!SnapInv, SN!SeenTold
  <2> QED BY <2>1, <2>2
<1>12. snSteady' \subseteq SN!AnyHeadFacts' \cup SN!ThisHeadFacts'
  BY <1>2
<1> QED BY <1>1, <1>7, <1>8, <1>9, <1>10, <1>11, <1>12 DEF SN!SnapInv

LEMMA SnapSlotsKeeps == SN!SnapInv /\ SN!ReadSlots => SN!SnapInv'
<1> SUFFICES ASSUME SN!SnapInv, SN!ReadSlots PROVE SN!SnapInv'
  OBVIOUS
<1>1. /\ snPc = "slots" /\ snPc' = "github" /\ UNCHANGED <<snPr, snSlot, snRows, snReceipt, snMoves, snResult>>
      /\ snView' = [snView EXCEPT !.slot = snSlot, !.mop = TRUE] \/ snView' = snView
      /\ snSteady' = SN!AnyHeadFacts \cup SN!ThisHeadFacts
      /\ snSeen' = [ready |-> SN!ReadyHeads, live |-> SN!LiveHeads]
  BY DEF SN!ReadSlots, SN!World
<1>2. snView = SN!NoView /\ snSlot \in BOOLEAN
  BY <1>1, SnapShapes DEF SN!SnapInv
<1>3. /\ snView' \in SnapView /\ snView'.pr = SN!NoView.pr /\ snView'.threads = "unread" /\ snView'.claim = "none"
      /\ snView'.receipt = SN!NoReceipt /\ (snView'.mop => snView'.slot = snSlot)
  BY <1>1, <1>2, NoViewIsView DEF SnapView
<1>4. SN!SnapShape'
  <2>1. snView'.pr.head \in 0 .. snPr'.head
    BY <1>1, <1>2, <1>3 DEF SN!SnapInv, SN!SnapShape
  <2> QED BY <1>1, <1>3, <2>1 DEF SN!SnapInv, SN!SnapShape, SnapView
<1>5. SN!ListTold'
  BY <1>3, NoViewIsView DEF SN!ListTold
<1>6. "slot" \in snSteady' => snSlot
  BY <1>1, AnyFactsAreTrue, HeadFactsAreTrue DEF SN!ThisHeadNames
<1>7. SN!RestTold'
  BY <1>1, <1>3, <1>6 DEF SN!RestTold, SN!ClaimWasRead
<1>8. SN!SeenTold'
  BY <1>1, <1>3, NoViewIsView DEF SN!SeenTold, SN!ReadyHeads, SN!LiveHeads
<1>9. snSteady' \subseteq SN!AnyHeadFacts' \cup SN!ThisHeadFacts'
  BY <1>1 DEF SN!AnyHeadFacts, SN!ThisHeadFacts
<1>10. snResult' = SN!NoResult
  BY <1>1 DEF SN!SnapInv
<1> QED BY <1>1, <1>3, <1>4, <1>5, <1>7, <1>8, <1>9, <1>10 DEF SN!SnapInv

(* A read of the snapshot changes its view and its place alone.             *)
LEMMA SnapReads ==
  ASSUME SN!SnapInv, snPc # "slots", UNCHANGED <<snPr, snSlot, snRows, snReceipt, snMoves, snSteady, snSeen>>,
         NEW v \in SnapView, snView' = v,
         snPc' \in {"github", "receipt", "hold 1", "hold 2", "done", "failed"} \cup SN!ClaimKinds,
         v.pr.head \in 0 .. snPr.head,
         snPc' = "github" => v.claim = "none" /\ v.receipt = SN!NoReceipt,
         snPc' \notin {"github", "failed"} => v.pr.head # 0 /\ v.threads # "unread",
         SN!ListTold', SN!RestTold', v.receipt.resolution = "merge_ready" => v.receipt.head \in snSeen.ready,
         v.claim = "known" => v.pr.head \in snSeen.live,
         snResult' = IF snPc' = "done" THEN SN!ClassifyPr(v) ELSE SN!NoResult
  PROVE  SN!SnapInv'
<1>1. SN!SnapShape'
  <2>1. SN!SnapShape
    BY DEF SN!SnapInv
  <2>2. snPc' \in {"slots", "github", "receipt", "hold 1", "hold 2", "done", "failed"} \cup SN!ClaimKinds
    OBVIOUS
  <2>3. snView'.pr.head \in 0 .. snPr'.head
    OBVIOUS
  <2> QED BY <2>1, <2>2, <2>3 DEF SN!SnapShape, SnapView
<1>2. SN!SeenTold'
  BY DEF SN!SnapInv, SN!SeenTold, SN!ReadyHeads, SN!LiveHeads
<1>3. snSteady' \subseteq SN!AnyHeadFacts' \cup SN!ThisHeadFacts'
  <2>1. SN!AnyHeadFacts' = SN!AnyHeadFacts /\ SN!ThisHeadFacts' = SN!ThisHeadFacts
    BY DEF SN!AnyHeadFacts, SN!ThisHeadFacts
  <2> QED BY <2>1 DEF SN!SnapInv
<1>4. snPc' # "slots"
  BY DEF SN!ClaimKinds
<1> QED BY <1>1, <1>2, <1>3, <1>4 DEF SN!SnapInv

(* The rest that was told stays told by a view with the same answers.       *)
LEMMA RestStays ==
  ASSUME SN!SnapInv, UNCHANGED <<snSteady>>, snView'.mop = snView.mop, snView'.slot = snView.slot,
         snView'.threads = snView.threads \/ (snView'.threads = "none" => "thread" \notin snSteady),
         \A k \in SN!ClaimKinds \cap snSteady : SN!ClaimWasRead(k)' => snView'.claim # "none",
         snPc' \notin {"hold 2", "done"}
  PROVE  SN!RestTold'
BY DEF SN!SnapInv, SN!RestTold

LEMMA SnapThreadsKeeps == SN!SnapInv /\ SN!ReadThreads => SN!SnapInv'
<1> SUFFICES ASSUME SN!SnapInv, SN!ReadThreads PROVE SN!SnapInv'
  OBVIOUS
<1>1. /\ snPc = "github" /\ snView.threads = "unread" /\ UNCHANGED <<snPr, snSlot, snRows, snReceipt, snMoves, snSteady, snSeen>>
      /\ snResult' = SN!NoResult
  BY DEF SN!ReadThreads, SN!Read, SN!World, SN!SnapInv
<1>2. PICK t \in {IF snPr.live THEN "live" ELSE "none", "unknown"} :
        snView' = [snView EXCEPT !.threads = t] /\ snPc' = SN!Both([snView EXCEPT !.threads = t])
  BY DEF SN!ReadThreads, SN!Read
<1>3. PICK v : v = [snView EXCEPT !.threads = t]
  OBVIOUS
<1>4. snView \in SnapView /\ snView.pr.head \in 0 .. snPr.head /\ snView.claim = "none" /\ snView.receipt = SN!NoReceipt
  BY <1>1, SnapShapes DEF SN!SnapInv
<1>5. /\ v \in SnapView /\ v.threads = t /\ v.pr = snView.pr /\ v.claim = snView.claim /\ v.receipt = snView.receipt
      /\ v.mop = snView.mop /\ v.slot = snView.slot /\ t # "unread" /\ t \in {"live", "none", "unknown"}
  BY <1>2, <1>3, <1>4 DEF SnapView
<1>6. snView' = v /\ (snPc' = IF v.pr.head # 0 THEN "receipt" ELSE "github")
  BY <1>2, <1>3, <1>5 DEF SN!Both
<1>7. SN!ListTold'
  BY <1>1, <1>5, <1>6 DEF SN!SnapInv, SN!ListTold
<1>8. t = "none" => "thread" \notin snSteady
  BY <1>1, <1>2, FactsAreTrue
<1>9. SN!RestTold'
  BY <1>1, <1>5, <1>6, <1>8, RestStays DEF SN!ClaimWasRead
<1> QED BY <1>1, <1>4, <1>5, <1>6, <1>7, <1>9, SnapReads, NoViewIsView

LEMMA SnapListKeeps == SN!SnapInv /\ SN!ReadList => SN!SnapInv'
<1> SUFFICES ASSUME SN!SnapInv, SN!ReadList PROVE SN!SnapInv'
  OBVIOUS
<1>1. /\ snPc = "github" /\ snView.pr.head = 0 /\ UNCHANGED <<snPr, snSlot, snRows, snReceipt, snMoves, snSteady, snSeen>>
      /\ snResult' = SN!NoResult
  BY DEF SN!ReadList, SN!Read, SN!World, SN!SnapInv
<1>4. /\ snView \in SnapView /\ snView.pr.head \in 0 .. snPr.head /\ snView.claim = "none" /\ snView.receipt = SN!NoReceipt
      /\ snPr \in SN!PullRequest /\ snPr.head \in 1 .. SnHeads /\ snPr.head \in Nat
  BY <1>1, SnapShapes DEF SN!SnapInv
<1>2. CASE snPc' = "failed" /\ snView' = snView
  <2>1. SN!ListTold'
    BY <1>1, <1>2 DEF SN!ListTold
  <2>2. SN!RestTold'
    BY <1>1, <1>2, RestStays DEF SN!ClaimWasRead
  <2> QED BY <1>1, <1>2, <1>4, <2>1, <2>2, SnapReads, NoViewIsView
<1>3. CASE snView' = [snView EXCEPT !.pr = snPr] /\ snPc' = SN!Both([snView EXCEPT !.pr = snPr])
  <2>3. PICK v : v = [snView EXCEPT !.pr = snPr]
    OBVIOUS
  <2>5. /\ v \in SnapView /\ v.threads = snView.threads /\ v.pr = snPr /\ v.claim = snView.claim
        /\ v.receipt = snView.receipt /\ v.mop = snView.mop /\ v.slot = snView.slot
    BY <1>4, <2>3 DEF SnapView
  <2>6. snView' = v /\ (snPc' = IF v.pr.head # 0 /\ v.threads # "unread" THEN "receipt" ELSE "github")
    BY <1>3, <2>3 DEF SN!Both
  <2>7. snPr.head # 0 /\ snPr.head \in 0 .. snPr.head
    BY <1>4
  <2>8. SN!ListTold'
    <3>1. snView'.pr = snPr
      BY <2>5, <2>6
    <3>2. /\ SnLabels \cap snSteady \subseteq snPr.labels
          /\ ("draft" \in snSteady => snPr.draft) /\ ("dnm" \in snSteady => snPr.dnm)
          /\ ("pending" \in snSteady => SN!GatesPending(snPr)) /\ ("red" \in snSteady => SN!RequiredRed(snPr) # {})
          /\ ("not green" \in snSteady => ~SN!GatesGreen(snPr)) /\ ("block" \in snSteady => snPr.verdict = "BLOCK")
          /\ ("rework row" \in snSteady => snPr.verdict # "PASS") /\ ("ask row" \in snSteady => SN!ExemptEligible(snPr))
      BY <1>1, FactsAreTrue
    <3>3. snSteady' = snSteady /\ snPr' = snPr
      BY <1>1
    <3> QED BY <3>1, <3>2, <3>3 DEF SN!ListTold
  <2>9. SN!RestTold'
    BY <1>1, <2>5, <2>6, RestStays DEF SN!ClaimWasRead
  <2> QED BY <1>1, <1>4, <2>5, <2>6, <2>7, <2>8, <2>9, SnapReads, NoViewIsView
<1> QED BY <1>2, <1>3 DEF SN!ReadList, SN!Read

LEMMA SnapReceiptKeeps == SN!SnapInv /\ SN!ReadReceipt => SN!SnapInv'
<1> SUFFICES ASSUME SN!SnapInv, SN!ReadReceipt PROVE SN!SnapInv'
  OBVIOUS
<1>1. /\ snPc = "receipt" /\ UNCHANGED <<snPr, snSlot, snRows, snReceipt, snMoves, snSteady, snSeen>>
      /\ snResult' = SN!NoResult /\ snPc' = "pr_admission"
  BY DEF SN!ReadReceipt, SN!Read, SN!World, SN!SnapInv
<1>2. PICK r \in {snReceipt, SN!NoReceipt} : snView' = [snView EXCEPT !.receipt = r]
  BY DEF SN!ReadReceipt, SN!Read
<1>3. PICK v : v = [snView EXCEPT !.receipt = r]
  OBVIOUS
<1>4. /\ snView \in SnapView /\ snView.pr.head \in 0 .. snPr.head /\ snReceipt \in SN!Receipt
      /\ snView.pr.head # 0 /\ snView.threads # "unread"
  BY <1>1, SnapShapes DEF SN!SnapInv
<1>5. /\ v \in SnapView /\ v.threads = snView.threads /\ v.pr = snView.pr /\ v.claim = snView.claim /\ v.receipt = r
      /\ v.mop = snView.mop /\ v.slot = snView.slot
  BY <1>2, <1>3, <1>4, NoViewIsView DEF SnapView
<1>6. v.receipt.resolution = "merge_ready" => v.receipt.head \in snSeen.ready
  BY <1>1, <1>2, <1>5, NoViewIsView DEF SN!SnapInv, SN!SeenTold, SN!ReadyHeads
<1>7. SN!ListTold'
  BY <1>1, <1>2, <1>3, <1>5 DEF SN!SnapInv, SN!ListTold
<1>8. \A k \in SN!ClaimKinds : ~SN!ClaimWasRead(k)'
  BY <1>1 DEF SN!ClaimWasRead
<1>9. SN!RestTold'
  BY <1>1, <1>2, <1>3, <1>5, <1>8, RestStays
<1>10. v.claim = "known" => v.pr.head \in snSeen.live
  BY <1>5 DEF SN!SnapInv, SN!SeenTold
<1> QED BY <1>1, <1>2, <1>3, <1>4, <1>5, <1>6, <1>7, <1>9, <1>10, SnapReads DEF SN!ClaimKinds

(* The claim is known only if the row held its head live; a kind whose row  *)
(* waits is never passed over in silence.                                   *)
LEMMA SnapClaimKeeps == ASSUME SN!SnapInv, NEW k \in SN!ClaimKinds, SN!ReadClaim(k) PROVE SN!SnapInv'
<1>1. /\ snPc = k /\ UNCHANGED <<snPr, snSlot, snRows, snReceipt, snMoves, snSteady, snSeen>>
      /\ snResult' = SN!NoResult
  <2>1. snPc = k /\ k # "done" /\ snResult' = snResult
    BY DEF SN!ReadClaim, SN!ClaimKinds
  <2> QED BY <2>1 DEF SN!ReadClaim, SN!Read, SN!World, SN!SnapInv
<1>2. /\ SN!After["pr_admission"] = "pr_red_unowned" /\ SN!After["pr_red_unowned"] = "pr_merge_ask"
      /\ SN!After["pr_merge_ask"] = "hold 1"
  BY DEF SN!After
<1>3. /\ snView \in SnapView /\ snView.pr.head \in 0 .. snPr.head
      /\ snView.pr.head # 0 /\ snView.threads # "unread"
  BY <1>1, SnapShapes DEF SN!SnapInv, SN!ClaimKinds
<1>4. PICK claim1 \in {"none", "unknown", "known"} :
        /\ snView' = [snView EXCEPT !.claim = claim1]
        /\ \/ snPc' = "hold 1" /\ claim1 = "known" /\ SN!KnownClaim(snRows[k], snView.pr.head)
           \/ snPc' = SN!After[k] /\ claim1 = "unknown"
           \/ snPc' = SN!After[k] /\ claim1 = snView.claim /\ ~SN!PmWait(snRows[k])
  <2>1. snView = [snView EXCEPT !.claim = snView.claim] /\ snView.claim \in {"none", "unknown", "known"}
    BY <1>3 DEF SnapView
  <2> QED BY <2>1 DEF SN!ReadClaim, SN!Read
<1>5. PICK v : v = [snView EXCEPT !.claim = claim1]
  OBVIOUS
<1>6. /\ v \in SnapView /\ v.threads = snView.threads /\ v.pr = snView.pr /\ v.claim = claim1 /\ v.receipt = snView.receipt
      /\ v.mop = snView.mop /\ v.slot = snView.slot /\ snView' = v
  BY <1>3, <1>4, <1>5 DEF SnapView
<1>7. claim1 = "known" => snView.pr.head \in snSeen.live
  <2>1. CASE SN!KnownClaim(snRows[k], snView.pr.head)
    <3>1. SN!ActiveClaim(snRows[k]) /\ snRows[k].head = snView.pr.head
      BY <2>1 DEF SN!KnownClaim, SN!PmWait, SN!ActiveClaim, SN!WaitOwners
    <3>2. snView.pr.head \in SN!LiveHeads
      BY <3>1 DEF SN!LiveHeads
    <3> QED BY <1>1, <3>2 DEF SN!SnapInv, SN!SeenTold, SN!ClaimKinds
  <2>2. CASE claim1 = snView.claim
    BY <2>2 DEF SN!SnapInv, SN!SeenTold
  <2> QED BY <1>4, <2>1, <2>2
<1>8. SN!ListTold'
  BY <1>1, <1>6 DEF SN!SnapInv, SN!ListTold
<1>9. \A j \in SN!ClaimKinds \cap snSteady : SN!ClaimWasRead(j)' => v.claim # "none"
  <2> SUFFICES ASSUME NEW j \in SN!ClaimKinds \cap snSteady, SN!ClaimWasRead(j)', claim1 = "none" PROVE FALSE
    BY <1>6
  <2>1. snPc' = SN!After[k] /\ snView.claim = "none" /\ ~SN!PmWait(snRows[k])
    BY <1>4
  <2>2. j # k
    BY <1>1, <2>1, FactsAreTrue DEF SN!ClaimKinds
  <2>3. SN!ClaimWasRead(j)
    BY <1>1, <1>2, <2>1, <2>2 DEF SN!ClaimWasRead, SN!ClaimKinds
  <2> QED BY <2>1, <2>3 DEF SN!SnapInv, SN!RestTold
<1>10. snPc' \in {"pr_red_unowned", "pr_merge_ask", "hold 1"}
  BY <1>2, <1>4 DEF SN!ClaimKinds
<1>11. SN!RestTold'
  BY <1>1, <1>6, <1>9, <1>10, RestStays
<1>12. v.receipt.resolution = "merge_ready" => v.receipt.head \in snSeen.ready
  BY <1>6 DEF SN!SnapInv, SN!SeenTold
<1>13. snPc # "slots" /\ snPc' \in {"github", "receipt", "hold 1", "hold 2", "done", "failed"} \cup SN!ClaimKinds
  BY <1>1, <1>10 DEF SN!ClaimKinds
<1> QED BY <1>1, <1>3, <1>6, <1>7, <1>8, <1>10, <1>11, <1>12, <1>13, SnapReads

LEMMA SnapHoldKeeps ==
  ASSUME SN!SnapInv,
         SN!ReadHold("hold 1", "pr_admission", "hold 2") \/ SN!ReadHold("hold 2", "pr_merge_ask", "done")
  PROVE  SN!SnapInv'
<1>1. PICK at, k, next :
        /\ \/ at = "hold 1" /\ k = "pr_admission" /\ next = "hold 2"
           \/ at = "hold 2" /\ k = "pr_merge_ask" /\ next = "done"
        /\ SN!ReadHold(at, k, next)
  OBVIOUS
<1>2. /\ snPc = at /\ snPc' = next /\ UNCHANGED <<snPr, snSlot, snRows, snReceipt, snMoves, snSteady, snSeen>>
      /\ snView' = [snView EXCEPT !.rows[k] = snRows[k]] \/ snView' = [snView EXCEPT !.held = FALSE]
      /\ snResult' = IF next = "done" THEN SN!ClassifyPr(snView') ELSE snResult
  BY <1>1 DEF SN!ReadHold, SN!Read, SN!World
<1>3. /\ snView \in SnapView /\ snView.pr.head \in 0 .. snPr.head /\ snRows \in [SN!ClaimKinds -> SN!Row]
      /\ snView.pr.head # 0 /\ snView.threads # "unread"
  BY <1>1, <1>2, SnapShapes DEF SN!SnapInv
<1>4. PICK v : v = snView'
  OBVIOUS
<1>5. snRows[k] \in SN!Row /\ k \in {"pr_admission", "pr_merge_ask"}
  BY <1>1, <1>3 DEF SN!ClaimKinds
<1>6. /\ v \in SnapView /\ v.threads = snView.threads /\ v.pr = snView.pr /\ v.claim = snView.claim
      /\ v.receipt = snView.receipt /\ v.mop = snView.mop /\ v.slot = snView.slot
      /\ v.held => /\ snView.held /\ v.rows[k] = snRows[k]
                   /\ \A j \in {"pr_admission", "pr_merge_ask"} : j # k => v.rows[j] = snView.rows[j]
  <2>1. CASE snView' = [snView EXCEPT !.held = FALSE]
    BY <1>3, <1>4, <2>1 DEF SnapView
  <2>2. CASE snView' = [snView EXCEPT !.rows[k] = snRows[k]]
    BY <1>3, <1>4, <1>5, <2>2 DEF SnapView
  <2> QED BY <1>2, <2>1, <2>2
<1>7. SN!ListTold'
  BY <1>2, <1>4, <1>6 DEF SN!SnapInv, SN!ListTold
<1>8. "rework row" \in snSteady \/ "ask row" \in snSteady => snView.pr.head = snPr.head
  BY <1>3 DEF SN!SnapInv, SN!ListTold, SN!ThisHeadNames
<1>9. v.held /\ "rework row" \in snSteady =>
        v.rows["pr_admission"].owner \in SN!ReworkOwners /\ SN!RowHolds(v.rows["pr_admission"], v.pr.head)
  <2>1. CASE k = "pr_admission"
    BY <1>1, <1>2, <1>6, <1>8, <2>1, FactsAreTrue
  <2>2. CASE k = "pr_merge_ask"
    BY <1>1, <1>2, <1>6, <2>2 DEF SN!SnapInv, SN!RestTold
  <2> QED BY <1>1, <2>1, <2>2
<1>10. k = "pr_merge_ask" /\ v.held /\ "ask row" \in snSteady => SN!RowHolds(v.rows["pr_merge_ask"], v.pr.head)
  BY <1>1, <1>2, <1>6, <1>8, FactsAreTrue
<1>11. \A j \in SN!ClaimKinds \cap snSteady : v.claim # "none"
  BY <1>1, <1>2, <1>6 DEF SN!SnapInv, SN!RestTold, SN!ClaimWasRead
<1>12. SN!RestTold'
  BY <1>1, <1>2, <1>4, <1>6, <1>9, <1>10, <1>11 DEF SN!SnapInv, SN!RestTold
<1>13. /\ v.receipt.resolution = "merge_ready" => v.receipt.head \in snSeen.ready
       /\ v.claim = "known" => v.pr.head \in snSeen.live
  BY <1>6 DEF SN!SnapInv, SN!SeenTold
<1>14. snResult' = IF snPc' = "done" THEN SN!ClassifyPr(v) ELSE SN!NoResult
  BY <1>1, <1>2, <1>4 DEF SN!SnapInv
<1>15. /\ snPc # "slots" /\ snPc' \in {"github", "receipt", "hold 1", "hold 2", "done", "failed"} \cup SN!ClaimKinds
       /\ snPc' # "github"
  BY <1>1, <1>2
<1> QED BY <1>2, <1>3, <1>4, <1>6, <1>7, <1>12, <1>13, <1>14, <1>15, SnapReads

LEMMA SnapGoes == SN!SnapInv /\ [SN!SnapNext]_snapshotVars => SN!SnapInv'
<1> SUFFICES ASSUME SN!SnapInv, [SN!SnapNext]_snapshotVars PROVE SN!SnapInv'
  OBVIOUS
<1>1. CASE UNCHANGED snapshotVars
  <2>1. UNCHANGED <<snPr, snSlot, snRows, snReceipt, snView, snPc, snResult, snSteady, snSeen, snMoves>>
    BY <1>1 DEF snapshotVars
  <2>2. SN!SnapShape' /\ SN!ListTold' /\ SN!RestTold' /\ SN!SeenTold'
    <3>1. SN!SnapShape'
      BY <2>1 DEF SN!SnapInv, SN!SnapShape
    <3>2. SN!ListTold'
      BY <2>1 DEF SN!SnapInv, SN!ListTold
    <3>3. SN!RestTold'
      BY <2>1 DEF SN!SnapInv, SN!RestTold, SN!ClaimWasRead
    <3>4. SN!SeenTold'
      BY <2>1 DEF SN!SnapInv, SN!SeenTold, SN!ReadyHeads, SN!LiveHeads
    <3> QED BY <3>1, <3>2, <3>3, <3>4
  <2>3. SN!AnyHeadFacts' = SN!AnyHeadFacts /\ SN!ThisHeadFacts' = SN!ThisHeadFacts
    BY <2>1 DEF SN!AnyHeadFacts, SN!ThisHeadFacts
  <2> QED BY <2>1, <2>2, <2>3 DEF SN!SnapInv
<1>2. CASE \E k \in SN!ClaimKinds : SN!ReadClaim(k)
  BY <1>2, SnapClaimKeeps
<1>3. CASE SN!ReadHold("hold 1", "pr_admission", "hold 2") \/ SN!ReadHold("hold 2", "pr_merge_ask", "done")
  BY <1>3, SnapHoldKeeps
<1> QED BY <1>1, <1>2, <1>3, SnapWorldKeeps, SnapSlotsKeeps, SnapThreadsKeeps, SnapListKeeps, SnapReceiptKeeps
        DEF SN!SnapNext

(* What the report says follows from what was read.                         *)
LEMMA ViewSays ==
  ASSUME SN!SnapInv, snPc = "done"
  PROVE  /\ SnLabels \cap snSteady \subseteq snView.pr.labels
         /\ ("draft" \in snSteady => snView.pr.draft) /\ ("dnm" \in snSteady => snView.pr.dnm)
         /\ ("pending" \in snSteady => SN!GatesPending(snView.pr)) /\ ("red" \in snSteady => SN!RequiredRed(snView.pr) # {})
         /\ ("not green" \in snSteady => ~SN!GatesGreen(snView.pr)) /\ ("block" \in snSteady => snView.pr.verdict = "BLOCK")
         /\ (snView.mop /\ "slot" \in snSteady => snView.slot)
         /\ (snView.threads = "none" => "thread" \notin snSteady) /\ snView.threads \in {"none", "live", "unknown"}
         /\ (SN!ClaimKinds \cap snSteady # {} => snView.claim # "none")
         /\ (snView.held /\ "rework row" \in snSteady => SN!Hold(snView) # "none")
         /\ (snView.held /\ "ask row" \in snSteady => SN!Hold(snView) # "none")
         /\ (snView.claim = "known" => snView.pr.head \in snSeen.live)
         /\ (snView.receipt.resolution = "merge_ready" => snView.receipt.head \in snSeen.ready)
         /\ ("block" \in snSteady => SN!Hold(snView) # "none")
<1>1. snView.pr.head # 0 /\ snView.threads \in {"none", "live", "unknown"}
  BY SnapShapes DEF SN!SnapInv, SnapView
<1>2. /\ SnLabels \cap snSteady \subseteq snView.pr.labels
      /\ ("draft" \in snSteady => snView.pr.draft) /\ ("dnm" \in snSteady => snView.pr.dnm)
      /\ ("pending" \in snSteady => SN!GatesPending(snView.pr)) /\ ("red" \in snSteady => SN!RequiredRed(snView.pr) # {})
      /\ ("not green" \in snSteady => ~SN!GatesGreen(snView.pr)) /\ ("block" \in snSteady => snView.pr.verdict = "BLOCK")
      /\ ("rework row" \in snSteady => snView.pr.verdict # "PASS") /\ ("ask row" \in snSteady => SN!ExemptEligible(snView.pr))
  BY <1>1 DEF SN!SnapInv, SN!ListTold
<1>3. /\ (snView.mop /\ "slot" \in snSteady => snView.slot) /\ (snView.threads = "none" => "thread" \notin snSteady)
      /\ (SN!ClaimKinds \cap snSteady # {} => snView.claim # "none")
      /\ snView.held /\ "rework row" \in snSteady =>
           /\ snView.rows["pr_admission"].owner \in SN!ReworkOwners
           /\ SN!RowHolds(snView.rows["pr_admission"], snView.pr.head)
      /\ snView.held /\ "ask row" \in snSteady => SN!RowHolds(snView.rows["pr_merge_ask"], snView.pr.head)
  BY DEF SN!SnapInv, SN!RestTold, SN!ClaimWasRead
<1>4. /\ snView.held /\ "rework row" \in snSteady => SN!Hold(snView) # "none"
      /\ snView.held /\ "ask row" \in snSteady => SN!Hold(snView) # "none"
      /\ "block" \in snSteady => SN!Hold(snView) # "none"
  BY <1>2, <1>3 DEF SN!Hold
<1>5. /\ snView.claim = "known" => snView.pr.head \in snSeen.live
      /\ snView.receipt.resolution = "merge_ready" => snView.receipt.head \in snSeen.ready
  BY DEF SN!SnapInv, SN!SeenTold
<1> QED BY <1>1, <1>2, <1>3, <1>4, <1>5

(* Which states lead to which answers.                                      *)
LEMMA StateIsOne ==
  ASSUME NEW v
  PROVE  SN!State(v) \in {"draft", "rework", "held", "red", "CI running", "green", "gate missing", "not admitted"}
BY DEF SN!State

LEMMA NextByState ==
  ASSUME NEW v
  PROVE  /\ SN!State(v) \in {"draft", "rework"} => SN!NextOf(v) = "slot rework"
         /\ SN!State(v) = "held" => SN!NextOf(v) = "wait"
         /\ SN!State(v) = "red" => SN!NextOf(v) = SN!RedNext(v)
         /\ SN!State(v) = "CI running" => SN!NextOf(v) \in {"CI running", "await terminal"}
         /\ SN!State(v) = "green" => SN!NextOf(v) = SN!GreenNext(v)
         /\ SN!State(v) = "gate missing" => SN!NextOf(v) = "await terminal"
         /\ SN!State(v) = "not admitted" => SN!NextOf(v) = SN!UnadmittedNext(v)
BY DEF SN!NextOf

LEMMA NextIsSaid == ASSUME NEW v PROVE SN!NextOf(v) # "none"
<1>1. SN!RedNext(v) # "none"
  BY DEF SN!RedNext
<1>2. SN!Hold(v) # "none" => SN!Hold(v) \in {"rework-queued", "merge-ask-pending"}
  BY DEF SN!Hold
<1>3. SN!GreenNext(v) # "none"
  BY <1>2 DEF SN!GreenNext, SN!MergeAskNext
<1>4. SN!UnadmittedNext(v) # "none"
  BY <1>2 DEF SN!UnadmittedNext
<1> QED BY <1>1, <1>3, <1>4, StateIsOne, NextByState

LEMMA DispatchIsFree ==
  ASSUME NEW v, "dispatch" \in SN!ActionsOf(v)
  PROVE  /\ SN!State(v) = "red" /\ ~v.pr.draft /\ ~SN!SlotRework(v) /\ ~SN!Blocked(v)
         /\ "slot:1" \notin v.pr.labels /\ ~v.slot /\ v.claim = "none" /\ ~SN!GatesPending(v.pr) /\ SN!Hold(v) = "none"
<1>1. SN!State(v) = "red" /\ SN!RedIsUnowned(v)
  BY DEF SN!ActionsOf
<1>2. ~v.pr.draft /\ ~SN!SlotRework(v) /\ ~SN!Blocked(v)
  BY <1>1 DEF SN!State
<1> QED BY <1>1, <1>2 DEF SN!RedIsUnowned

LEMMA AskIsFree ==
  ASSUME NEW v, SN!NextOf(v) \in SN!Asks
  PROVE  /\ ~v.pr.draft /\ ~SN!SlotRework(v) /\ ~SN!Blocked(v) /\ ~v.pr.dnm /\ SN!Hold(v) = "none"
         /\ SN!NextOf(v) = "CTO merge ask" => SN!GatesGreen(v.pr) /\ SN!Ready(v)
         /\ SN!NextOf(v) = "CI-exempt -> merge ask" => SN!RequiredRed(v.pr) = {}
<1>1. SN!Hold(v) \in {"none", "rework-queued", "merge-ask-pending"}
  BY DEF SN!Hold
<1>2. SN!RedNext(v) \notin SN!Asks
  BY DEF SN!RedNext, SN!Asks
<1>3. \/ SN!State(v) = "green" /\ SN!NextOf(v) = SN!GreenNext(v)
      \/ SN!State(v) = "not admitted" /\ SN!NextOf(v) = SN!UnadmittedNext(v)
  BY <1>2, StateIsOne, NextByState DEF SN!Asks
<1>4. ~v.pr.draft /\ ~SN!SlotRework(v) /\ ~SN!Blocked(v) /\ SN!RequiredRed(v.pr) = {}
  BY <1>3 DEF SN!State
<1>5. CASE SN!State(v) = "green" /\ SN!NextOf(v) = SN!GreenNext(v)
  <2>1. SN!GatesGreen(v.pr)
    BY <1>5 DEF SN!State
  <2>2. SN!Hold(v) = "none" /\ SN!NextOf(v) = SN!MergeAskNext(v)
    BY <1>1, <1>5 DEF SN!GreenNext, SN!Asks
  <2>3. SN!NextOf(v) = "CTO merge ask" /\ ~v.pr.dnm /\ SN!Ready(v)
    BY <2>2 DEF SN!MergeAskNext, SN!Asks
  <2> QED BY <1>4, <2>1, <2>2, <2>3
<1>6. CASE SN!State(v) = "not admitted" /\ SN!NextOf(v) = SN!UnadmittedNext(v)
  <2>1. SN!Hold(v) = "none" /\ ~v.pr.dnm /\ SN!NextOf(v) = "CI-exempt -> merge ask"
    BY <1>1, <1>6 DEF SN!UnadmittedNext, SN!Asks
  <2> QED BY <1>4, <2>1
<1> QED BY <1>3, <1>5, <1>6

LEMMA NoResultSays == SN!NoResult.actions = {} /\ SN!NoResult.next = "none" /\ SN!NoResult.owner = "none"
BY DEF SN!NoResult

LEMMA ReportSays ==
  ASSUME SN!SnapInv, snPc = "done"
  PROVE  /\ snResult.actions = SN!ActionsOf(snView) /\ snResult.next = SN!NextOf(snView)
         /\ snResult.owner = SN!OwnerOf(snView) /\ snResult.head = snView.pr.head
BY DEF SN!SnapInv, SN!ClassifyPr

LEMMA SnapRests == SN!SnapInv => SN!DispatchIsUnowned /\ SN!AsksAreEarned /\ SN!KnownOwnerWasLive
<1> SUFFICES ASSUME SN!SnapInv PROVE SN!DispatchIsUnowned /\ SN!AsksAreEarned /\ SN!KnownOwnerWasLive
  OBVIOUS
<1>1. CASE snPc # "done"
  <2>1. snResult = SN!NoResult
    BY <1>1 DEF SN!SnapInv
  <2> QED BY <2>1, NoResultSays DEF SN!DispatchIsUnowned, SN!AsksAreEarned, SN!KnownOwnerWasLive, SN!Asks
<1>2. CASE snPc = "done"
  <2> DEFINE v == snView
             Labels == {"pm-blocked:ci", "pm-state:blocked-rework", "slot:1", "pm-blocked:codex"}
  <2>0. \A l \in Labels : l \in snSteady => l \in v.pr.labels
    <3> SUFFICES ASSUME NEW l \in Labels, l \in snSteady PROVE l \in v.pr.labels
      OBVIOUS
    <3>1. l \notin SN!ClaimKinds \cup {"slot", "draft", "dnm", "thread"} \cup SN!ThisHeadNames
      BY DEF SN!ClaimKinds, SN!ThisHeadNames
    <3>2. l \in SN!AnyHeadFacts
      BY <1>2, <3>1, HeadFactsAreTrue DEF SN!SnapInv
    <3>3. l \in snPr.labels
      BY <3>1, <3>2 DEF SN!AnyHeadFacts
    <3>4. l \in SnLabels
      BY <3>3, SnapShapes DEF SN!PullRequest
    <3> QED BY <1>2, <3>4, ViewSays
  <2>1. SN!DispatchIsUnowned
    <3> SUFFICES ASSUME "dispatch" \in SN!ActionsOf(v)
                 PROVE  snSteady \cap (SN!Unheld \cup SN!ClaimKinds \cup {"slot:1", "pending"}
                          \cup SN!ReadWhen(snView.mop, "slot") \cup SN!ReadWhen(snView.held, "rework row")) = {}
      BY <1>2, ReportSays DEF SN!DispatchIsUnowned
    <3>1. /\ ~v.pr.draft /\ ~SN!SlotRework(v) /\ ~SN!Blocked(v) /\ "slot:1" \notin v.pr.labels /\ ~v.slot
          /\ v.claim = "none" /\ ~SN!GatesPending(v.pr) /\ SN!Hold(v) = "none"
      BY DispatchIsFree
    <3>2. "pm-blocked:ci" \notin v.pr.labels /\ "pm-state:blocked-rework" \notin v.pr.labels
      BY <3>1 DEF SN!Blocked, SN!SlotRework
    <3>3. /\ {"draft", "pm-blocked:ci", "pm-state:blocked-rework", "block", "slot:1", "pending"} \cap snSteady = {}
          /\ SN!ClaimKinds \cap snSteady = {}
          /\ (v.mop => "slot" \notin snSteady) /\ (v.held => "rework row" \notin snSteady)
      BY <1>2, <2>0, <3>1, <3>2, ViewSays
    <3> QED BY <3>3 DEF SN!Unheld, SN!ReadWhen
  <2>2. SN!AsksAreEarned
    <3> SUFFICES ASSUME SN!NextOf(v) \in SN!Asks
                 PROVE  /\ SN!NextOf(v) = "CTO merge ask" => v.pr.head \in snSeen.ready /\ "not green" \notin snSteady
                        /\ SN!NextOf(v) = "CI-exempt -> merge ask" => "red" \notin snSteady
                        /\ snSteady \cap (SN!Unheld \cup {"dnm"}
                             \cup SN!ReadWhen(v.mop, "slot") \cup SN!ReadWhen(v.held, "rework row")
                             \cup SN!ReadWhen(v.held /\ SN!NextOf(v) = "CI-exempt -> merge ask", "ask row")
                             \cup SN!ReadWhen(v.threads # "unknown", "thread")
                             \cup SN!ReadWhen(v.threads = "unknown", "pm-blocked:codex")) = {}
      BY <1>2, ReportSays DEF SN!AsksAreEarned
    <3>1. /\ ~v.pr.draft /\ ~SN!SlotRework(v) /\ ~SN!Blocked(v) /\ ~v.pr.dnm /\ SN!Hold(v) = "none"
          /\ SN!NextOf(v) = "CTO merge ask" => SN!GatesGreen(v.pr) /\ SN!Ready(v)
          /\ SN!NextOf(v) = "CI-exempt -> merge ask" => SN!RequiredRed(v.pr) = {}
      BY AskIsFree
    <3>2. "pm-blocked:ci" \notin v.pr.labels /\ "pm-state:blocked-rework" \notin v.pr.labels /\ ~v.slot
      BY <3>1 DEF SN!Blocked, SN!SlotRework
    <3>3. v.threads # "live" /\ (v.threads = "unknown" => "pm-blocked:codex" \notin v.pr.labels)
      BY <3>1 DEF SN!Blocked, SN!CodexHeld
    <3>4. /\ {"draft", "pm-blocked:ci", "pm-state:blocked-rework", "block", "dnm"} \cap snSteady = {}
          /\ (v.mop => "slot" \notin snSteady) /\ (v.held => "rework row" \notin snSteady /\ "ask row" \notin snSteady)
      BY <1>2, <2>0, <3>1, <3>2, ViewSays
    <3>5. /\ v.threads # "unknown" => "thread" \notin snSteady
          /\ v.threads = "unknown" => "pm-blocked:codex" \notin snSteady
      BY <1>2, <2>0, <3>3, ViewSays
    <3>6. SN!NextOf(v) = "CTO merge ask" => v.pr.head \in snSeen.ready /\ "not green" \notin snSteady
      BY <1>2, <3>1, ViewSays DEF SN!Ready
    <3>7. SN!NextOf(v) = "CI-exempt -> merge ask" => "red" \notin snSteady
      BY <1>2, <3>1, ViewSays
    <3> QED BY <3>4, <3>5, <3>6, <3>7 DEF SN!Unheld, SN!ReadWhen
  <2>3. SN!KnownOwnerWasLive
    <3> SUFFICES ASSUME SN!OwnerOf(v) = "claim" PROVE v.pr.head \in snSeen.live
      BY <1>2, ReportSays DEF SN!KnownOwnerWasLive
    <3>1. v.claim = "known"
      BY DEF SN!OwnerOf
    <3> QED BY <1>2, <3>1, ViewSays
  <2> QED BY <2>1, <2>2, <2>3
<1> QED BY <1>1, <1>2

LEMMA SnapTypes == SN!SnapInv => SN!PRSnapTypeOK
<1> SUFFICES ASSUME SN!SnapInv PROVE SN!PRSnapTypeOK
  OBVIOUS
<1>1. /\ snPr.head \in 1 .. SnHeads /\ snPr.admit \in 0 .. SnHeads
      /\ snView.threads \in {"unread", "none", "live", "unknown"} /\ snView.claim \in {"none", "unknown", "known"}
      /\ \A k \in SN!ClaimKinds : snRows[k].owner \in SN!Owners
  BY SnapShapes DEF SN!PullRequest, SnapView, SN!Row
<1>2. /\ \A k \in SN!ClaimKinds : snRows[k].head \in 0 .. snPr.head
      /\ snReceipt.head \in 0 .. snPr.head /\ snView.pr.head \in 0 .. snPr.head /\ snMoves \in 0 .. SnMoves
      /\ snPc \in {"slots", "github", "receipt", "hold 1", "hold 2", "done", "failed"} \cup SN!ClaimKinds
  BY DEF SN!SnapInv, SN!SnapShape
<1>3. (snPc = "done") = (snResult.next # "none")
  <2>1. snPc # "done" => snResult = SN!NoResult
    BY DEF SN!SnapInv
  <2> QED BY <2>1, NoResultSays, ReportSays, NextIsSaid
<1>4. snResult.owner \in {"none", "PM", "slot", "claim", "unknown"}
  <2>1. snPc # "done" => snResult = SN!NoResult
    BY DEF SN!SnapInv
  <2>2. SN!OwnerOf(snView) \in {"PM", "slot", "claim", "unknown"}
    BY DEF SN!OwnerOf
  <2> QED BY <2>1, <2>2, NoResultSays, ReportSays
<1> QED BY <1>1, <1>2, <1>3, <1>4 DEF SN!PRSnapTypeOK

-----------------------------------------------------------------------------
(* The age of a session (SessionAge).                                       *)

AgeRow == [occupied : BOOLEAN, turn : BOOLEAN]
AgeEye == [pc : {"idle", "pane", "full", "done"}, row : AgeRow, clear : Nat, at : Nat,
           chosen : {0} \cup AG!Tx, due : BOOLEAN, told : BOOLEAN, active : BOOLEAN, latest : Nat]

LEMMA NoEyeIsEye == AG!NoEye \in AgeEye /\ AG!NoEye.pc = "idle"
BY DEF AG!NoEye, AgeEye, AgeRow

LEMMA AgeStarts == AG!SessionInit => AG!AgeInv
<1> SUFFICES ASSUME AG!SessionInit PROVE AG!AgeInv
  OBVIOUS
<1>1. /\ saNow = 1 /\ saPane \in SaPanes /\ saClear = 0 /\ saEye = AG!NoEye
      /\ saTx = [t \in AG!Tx |-> IF t = 1 THEN [start |-> 1, last |-> 1, tool |-> 0] ELSE AG!Absent]
      /\ saRow \in AgeRow
  BY DEF AG!SessionInit, AgeRow
<1>2. /\ saTx \in [AG!Tx -> [start : Nat, last : Nat, tool : Nat]]
      /\ \A t \in AG!Tx : saTx[t].start <= saTx[t].last /\ saTx[t].last <= saNow /\ saTx[t].tool <= saNow
  BY <1>1 DEF AG!Tx, AG!Absent
<1>3. AG!SessionTypeOK
  BY <1>1, <1>2, NoEyeIsEye, AgeAssumption DEF AG!SessionTypeOK, AgeEye
<1>4. AG!DueMeansQuiet
  BY <1>1, NoEyeIsEye DEF AG!DueMeansQuiet
<1> QED BY <1>1, <1>2, <1>3, <1>4, NoEyeIsEye DEF AG!AgeInv, AgeEye, AgeRow

(* What moves beside the observation leaves it alone.                       *)
LEMMA AgeRests ==
  ASSUME AG!AgeInv, UNCHANGED <<saPane, saEye>>, saNow' \in 1 .. SaMaxTime, saClear' \in Nat, saClear' <= saNow',
         saRow' \in AgeRow, saTx' \in [AG!Tx -> [start : Nat, last : Nat, tool : Nat]],
         \A t \in AG!Tx : saTx'[t].start <= saTx'[t].last /\ saTx'[t].last <= saNow' /\ saTx'[t].tool <= saNow'
  PROVE  AG!AgeInv'
<1>1. AG!SessionTypeOK'
  BY DEF AG!AgeInv, AG!SessionTypeOK
<1>2. AG!DueMeansQuiet'
  BY DEF AG!AgeInv, AG!DueMeansQuiet
<1> QED BY <1>1, <1>2 DEF AG!AgeInv, AgeRow

(* A step of the observation that does not end it.                          *)
LEMMA EyeMoves ==
  ASSUME AG!AgeInv, UNCHANGED <<saNow, saPane, saTx, saRow, saClear>>, saEye' \in AgeEye, saEye'.pc # "done"
  PROVE  AG!AgeInv'
<1>1. AG!SessionTypeOK'
  BY DEF AG!AgeInv, AG!SessionTypeOK, AgeEye
<1>2. AG!DueMeansQuiet'
  BY DEF AG!DueMeansQuiet
<1> QED BY <1>1, <1>2 DEF AG!AgeInv, AgeEye, AgeRow

(* The transcript of a pane is one of those there, or none.                 *)
LEMMA ChosenIsThere ==
  ASSUME AG!AgeInv, NEW at PROVE AG!ClaudeChoice(at) \in {0} \cup AG!Tx /\ AG!OmpChoice \in {0} \cup AG!Tx
<1>1. ASSUME NEW s \in SUBSET AG!Tx PROVE AG!Unique(s) \in {0} \cup AG!Tx
  BY DEF AG!Unique
<1>2. AG!There \in SUBSET AG!Tx
  BY DEF AG!There
<1> DEFINE act == {t \in AG!There : ~AG!Quiet(t, at)}
           newest == {t \in act : \A u \in act : saTx[u].last <= saTx[t].last}
           begun == {t \in AG!There : \A u \in AG!There : saTx[u].start <= saTx[t].start}
<1>3. newest \in SUBSET AG!Tx /\ begun \in SUBSET AG!Tx
  BY <1>2
<1>4. AG!ClaudeChoice(at) = IF act # {} THEN AG!Unique(newest) ELSE AG!Unique(begun)
  BY DEF AG!ClaudeChoice
<1>5. AG!ClaudeChoice(at) \in {0} \cup AG!Tx
  <2> HIDE DEF act, newest, begun
  <2> QED BY <1>1, <1>3, <1>4
<1>6. ASSUME AG!There # {}
      PROVE  \E t \in AG!There : \A u \in AG!There :
               saTx[u].start < saTx[t].start \/ (saTx[u].start = saTx[t].start /\ (saTx[u].last <= saTx[t].last))
  <2>1. \A t \in AG!There : t \in {1, 2} /\ saTx[t].start \in Nat /\ saTx[t].last \in Nat
    BY DEF AG!There, AG!Tx, AG!AgeInv
  <2>2. CASE 1 \notin AG!There \/ 2 \notin AG!There
    BY <1>6, <2>1, <2>2
  <2>3. CASE 1 \in AG!There /\ 2 \in AG!There
    <3>1. CASE saTx[1].start < saTx[2].start
      BY <2>1, <2>3, <3>1
    <3>2. CASE saTx[2].start < saTx[1].start
      BY <2>1, <2>3, <3>2
    <3>3. CASE saTx[2].start = saTx[1].start /\ saTx[1].last <= saTx[2].last
      BY <2>1, <2>3, <3>3
    <3>4. CASE saTx[2].start = saTx[1].start /\ saTx[2].last <= saTx[1].last
      BY <2>1, <2>3, <3>4
    <3> QED BY <2>1, <2>3, <3>1, <3>2, <3>3, <3>4
  <2> QED BY <2>2, <2>3
<1>7. AG!OmpChoice \in {0} \cup AG!Tx
  <2>1. CASE AG!There = {}
    BY <2>1 DEF AG!OmpChoice
  <2>2. CASE AG!There # {}
    <3>1. AG!OmpChoice \in AG!There
      BY <1>6, <2>2 DEF AG!OmpChoice
    <3> QED BY <1>2, <3>1
  <2> QED BY <2>1, <2>2
<1> QED BY <1>5, <1>7

LEMMA ObserveKeeps == AG!AgeInv /\ AG!Observe => AG!AgeInv'
<1> SUFFICES ASSUME AG!AgeInv, AG!Observe PROVE AG!AgeInv'
  OBVIOUS
<1>1. UNCHANGED <<saNow, saPane, saTx, saRow, saClear>> /\ saEye.pc = "full"
  BY DEF AG!Observe
<1>2. /\ saEye \in AgeEye /\ saPane.pm \in BOOLEAN
      /\ saEye.chosen # 0 => saTx[saEye.chosen].start \in Nat /\ saTx[saEye.chosen].last \in Nat
  BY AgeAssumption DEF AG!AgeInv, AG!SessionTypeOK, AgeEye, AgeRow
<1> DEFINE t == saEye.chosen
           row1 == saEye.row
           boundary == IF t = 0 THEN 0 ELSE IF saPane.source = "claude" THEN saTx[t].start ELSE saTx[t].last
           evidence == AG!ActiveEvidence(t, saEye.at)
           busy == IF ~row1.occupied /\ ~evidence THEN FALSE ELSE row1.turn \/ evidence
           known == t # 0 \/ saPane.source = "claude"
           active1 == IF ~known THEN "unknown" ELSE IF busy THEN "yes" ELSE "no"
           due == AG!ClearDueFor(AG!Later(boundary, saEye.clear), active1, ~busy, row1, saEye.at)
           told == AG!Directive(saEye, due)
           latest == IF t = 0 THEN 0 ELSE saTx[t].last
<1>3. saEye' = [saEye EXCEPT !.pc = "done", !.due = due, !.told = told, !.active = busy, !.latest = latest]
  BY DEF AG!Observe
<1>4. evidence \in BOOLEAN
  BY DEF AG!ActiveEvidence
<1>5. row1 \in AgeRow /\ row1.turn \in BOOLEAN /\ row1.occupied \in BOOLEAN
  BY <1>2 DEF AgeEye, AgeRow
<1>6. busy \in BOOLEAN
  BY <1>4, <1>5
<1>7. due \in BOOLEAN /\ told \in BOOLEAN
  BY <1>2, <1>6 DEF AG!ClearDueFor, AG!Directive
<1>8. latest \in Nat /\ boundary \in Nat /\ saEye.at \in Nat /\ saEye.clear \in Nat
  BY <1>2 DEF AgeEye
<1>9. due =>
        /\ saEye.clear = 0 \/ saEye.at - saEye.clear >= 2
        /\ saPane.source = "claude" /\ t # 0 => latest + 2 < saEye.at
        /\ IF saPane.pm THEN told => saEye.at - saEye.clear > 2
           ELSE saEye.row.occupied /\ ~saEye.row.turn /\ ~told
  <2> SUFFICES ASSUME due
               PROVE  /\ saEye.clear = 0 \/ saEye.at - saEye.clear >= 2
                      /\ saPane.source = "claude" /\ t # 0 => latest + 2 < saEye.at
                      /\ IF saPane.pm THEN told => saEye.at - saEye.clear > 2
                         ELSE saEye.row.occupied /\ ~saEye.row.turn /\ ~told
    OBVIOUS
  <2> DEFINE effective == AG!Later(boundary, saEye.clear)
  <2>1. /\ effective # 0 /\ active1 = "no" /\ (saPane.pm \/ (row1.occupied /\ ~busy))
        /\ AG!Since(saEye.at, effective) >= 2
    BY DEF AG!ClearDueFor, AG!Threshold
  <2>2. effective \in Nat /\ effective >= saEye.clear
    <3> HIDE DEF boundary
    <3> QED BY <1>8 DEF AG!Later
  <2> HIDE DEF effective, boundary
  <2>3. saEye.at - effective >= 2
    BY <1>8, <2>1, <2>2 DEF AG!Since
  <2>4. saEye.at - saEye.clear >= 2
    BY <1>8, <2>2, <2>3
  <2>5. ~busy
    BY <2>1
  <2>6. ~evidence
    BY <1>4, <1>5, <2>5
  <2>7. saPane.source = "claude" /\ t # 0 => latest + 2 < saEye.at
    <3> SUFFICES ASSUME saPane.source = "claude", t # 0 PROVE latest + 2 < saEye.at
      OBVIOUS
    <3>1. ~(AG!Since(saEye.at, saTx[t].last) <= 2)
      BY <2>6 DEF AG!ActiveEvidence, AG!Fresh
    <3> QED BY <1>2, <1>8, <3>1 DEF AG!Since
  <2>8. saPane.pm => (told => saEye.at - saEye.clear > 2)
    <3> SUFFICES ASSUME told PROVE saEye.at - saEye.clear > 2
      OBVIOUS
    <3>1. saEye.clear = 0 \/ ~(AG!Since(saEye.at, saEye.clear) < 3)
      BY DEF AG!Directive, AG!RecentlyCleared
    <3>2. CASE saEye.clear = 0
      BY <1>8, <2>1, <2>2, <2>3, <3>2
    <3>3. CASE ~(AG!Since(saEye.at, saEye.clear) < 3)
      BY <1>8, <2>4, <3>3 DEF AG!Since
    <3> QED BY <3>1, <3>2, <3>3
  <2>9. ~saPane.pm => saEye.row.occupied /\ ~saEye.row.turn /\ ~told
    <3>1. ~saPane.pm => row1.occupied /\ ~row1.turn
      BY <1>4, <1>5, <2>1, <2>5
    <3>2. ~saPane.pm => ~told
      BY DEF AG!Directive
    <3> QED BY <3>1, <3>2
  <2> QED BY <1>2, <2>4, <2>7, <2>8, <2>9
<1> HIDE DEF busy, due, told, latest
<1>10. /\ saEye' \in AgeEye /\ saEye'.pc = "done" /\ saEye'.due = due /\ saEye'.told = told
       /\ saEye'.latest = latest /\ saEye'.chosen = t /\ saEye'.row = saEye.row /\ saEye'.at = saEye.at
       /\ saEye'.clear = saEye.clear
  BY <1>2, <1>3, <1>6, <1>7, <1>8 DEF AgeEye
<1>11. AG!DueMeansQuiet'
  BY <1>1, <1>9, <1>10 DEF AG!DueMeansQuiet, AG!Threshold, AG!Fresh
<1>12. AG!SessionTypeOK'
  BY <1>1, <1>10 DEF AG!AgeInv, AG!SessionTypeOK, AgeEye
<1> QED BY <1>1, <1>10, <1>11, <1>12 DEF AG!AgeInv, AgeEye, AgeRow

LEMMA AgeGoes == AG!AgeInv /\ [AG!SessionNext]_sessionsVars => AG!AgeInv'
<1> SUFFICES ASSUME AG!AgeInv, [AG!SessionNext]_sessionsVars PROVE AG!AgeInv'
  OBVIOUS
<1>1. /\ saNow \in 1 .. SaMaxTime /\ saNow \in Nat /\ saClear \in Nat /\ saClear <= saNow /\ saRow \in AgeRow
      /\ saTx \in [AG!Tx -> [start : Nat, last : Nat, tool : Nat]] /\ saEye \in AgeEye
      /\ \A t \in AG!Tx : saTx[t].start <= saTx[t].last /\ saTx[t].last <= saNow /\ saTx[t].tool <= saNow
  BY AgeAssumption DEF AG!AgeInv, AG!SessionTypeOK, AgeRow, AgeEye
<1>2. CASE UNCHANGED sessionsVars
  BY <1>1, <1>2, AgeRests DEF sessionsVars
<1>3. CASE AG!Tick
  <2>1. /\ saNow' \in 1 .. SaMaxTime /\ saNow <= saNow'
        /\ UNCHANGED <<saTx, saRow, saClear, saPane, saEye>>
    BY <1>1, <1>3, AgeAssumption DEF AG!Tick, AG!Rest
  <2>2. saClear' <= saNow' /\ \A t \in AG!Tx : saTx'[t].start <= saTx'[t].last /\ saTx'[t].last <= saNow' /\ saTx'[t].tool <= saNow'
    BY <1>1, <2>1
  <2> QED BY <1>1, <2>1, <2>2, AgeRests
<1>4. CASE AG!Turn
  <2>1. saRow' \in AgeRow /\ UNCHANGED <<saNow, saTx, saClear, saPane, saEye>>
    BY <1>1, <1>4 DEF AG!Turn, AG!Rest, AgeRow
  <2> QED BY <1>1, <2>1, AgeRests
<1>5. CASE AG!Cleared
  <2>1. saClear' = saNow /\ UNCHANGED <<saNow, saTx, saRow, saPane, saEye>>
    BY <1>5 DEF AG!Cleared, AG!Rest
  <2> QED BY <1>1, <2>1, AgeRests
<1>6. ASSUME NEW t \in AG!Tx, AG!Works(t) \/ AG!Tool(t) PROVE AG!AgeInv'
  <2> DEFINE Tr == [start : Nat, last : Nat, tool : Nat]
  <2>1. UNCHANGED <<saNow, saRow, saClear, saPane, saEye>>
    BY <1>6 DEF AG!Works, AG!Tool, AG!Rest
  <2>2. PICK rec \in Tr : saTx' = [saTx EXCEPT ![t] = rec] /\ rec.start <= rec.last /\ rec.last <= saNow /\ rec.tool <= saNow
    <3>1. CASE AG!Works(t)
      <4> DEFINE rec == [start |-> IF saTx[t].start = 0 THEN saNow ELSE saTx[t].start,
                         last |-> saNow, tool |-> saTx[t].tool]
      <4>1. saTx' = [saTx EXCEPT ![t] = rec]
        BY <3>1 DEF AG!Works
      <4>2. rec \in Tr /\ rec.start <= rec.last /\ rec.last <= saNow /\ rec.tool <= saNow
        BY <1>1
      <4> QED BY <4>1, <4>2
    <3>2. CASE AG!Tool(t)
      <4> DEFINE rec == [saTx[t] EXCEPT !.tool = IF saTx[t].tool = 0 THEN saNow ELSE 0, !.last = saNow]
      <4>1. saTx' = [saTx EXCEPT ![t] = rec]
        BY <3>2 DEF AG!Tool
      <4>2. saTx[t] \in Tr /\ saTx[t].start <= saTx[t].last /\ saTx[t].last <= saNow /\ 0 <= saNow
        BY <1>1
      <4>3. rec \in Tr /\ rec.start = saTx[t].start /\ rec.last = saNow /\ rec.tool \in {0, saNow}
        BY <1>1, <4>2
      <4>4. rec.start <= rec.last /\ rec.last <= saNow /\ rec.tool <= saNow
        BY <1>1, <4>2, <4>3
      <4> QED BY <4>1, <4>3, <4>4
    <3> QED BY <1>6, <3>1, <3>2
  <2>3. /\ saTx' \in [AG!Tx -> Tr]
        /\ \A u \in AG!Tx : saTx'[u].start <= saTx'[u].last /\ saTx'[u].last <= saNow' /\ saTx'[u].tool <= saNow'
    BY <1>1, <2>1, <2>2
  <2> QED BY <1>1, <2>1, <2>3, AgeRests
<1>7. CASE AG!ReadMoP
  <2>1. saEye' \in AgeEye /\ saEye'.pc # "done" /\ UNCHANGED <<saNow, saPane, saTx, saRow, saClear>>
    BY <1>1, <1>7, NoEyeIsEye DEF AG!ReadMoP, AgeEye
  <2> QED BY <2>1, EyeMoves
<1>8. CASE AG!ReadPane
  <2>1. PICK t : /\ t = CASE saPane.source = "omp" -> AG!OmpChoice [] saPane.source = "claude" -> AG!ClaudeChoice(saEye.at) [] OTHER -> 0
                 /\ saEye' = [saEye EXCEPT !.pc = "full", !.chosen = t]
    BY <1>8 DEF AG!ReadPane
  <2>2. t \in {0} \cup AG!Tx
    BY <2>1, ChosenIsThere
  <2>3. saEye' \in AgeEye /\ saEye'.pc # "done" /\ UNCHANGED <<saNow, saPane, saTx, saRow, saClear>>
    BY <1>1, <1>8, <2>1, <2>2 DEF AG!ReadPane, AgeEye
  <2> QED BY <2>3, EyeMoves
<1>9. CASE AG!Forget
  <2>1. saEye' \in AgeEye /\ saEye'.pc # "done" /\ UNCHANGED <<saNow, saPane, saTx, saRow, saClear>>
    BY <1>9, NoEyeIsEye DEF AG!Forget
  <2> QED BY <2>1, EyeMoves
<1> QED BY <1>2, <1>3, <1>4, <1>5, <1>6, <1>7, <1>8, <1>9, ObserveKeeps DEF AG!SessionNext

-----------------------------------------------------------------------------
(* The Stop hooks (StopGroup).                                              *)

HookRec == [pc : {"off", "run", "cooldown", "print"}, session : Session, long : BOOLEAN,
            found : SUBSET (Finding \cup SG!Hard), surfaced : SUBSET (Finding \cup SG!Hard)]

LEMMA IdleHook == SG!Idle \in HookRec /\ SG!Idle.pc = "off" /\ SG!Idle.surfaced = {} /\ SG!Idle.found = {}
<1>1. (CHOOSE s \in Session : TRUE) \in Session
  BY StopAssumption
<1> QED BY <1>1 DEF SG!Idle, HookRec

LEMMA StopStarts == SG!StopInit => SG!StopInv
<1> SUFFICES ASSUME SG!StopInit PROVE SG!StopInv
  OBVIOUS
<1>1. /\ stopNow = 0 /\ standing \in [Session -> SUBSET Finding]
      /\ cooldown = [s \in Session |-> [f \in Finding |-> SG!NeverShown]] /\ shown = cooldown /\ lost = cooldown
      /\ hooks = [h \in Hook |-> SG!Idle] /\ verdicts = [s \in Session |-> SG!NoVerdict]
  BY DEF SG!StopInit
<1>2. cooldown \in [Session -> [Finding -> Int]] /\ \A s \in Session, f \in Finding : cooldown[s][f] = SG!NeverShown
  BY <1>1 DEF SG!NeverShown
<1>3. hooks \in [Hook -> HookRec] /\ \A h \in Hook : hooks[h].pc = "off"
  BY <1>1, IdleHook
<1>4. SG!NoVerdict \in [blocked : BOOLEAN, found : SUBSET (Finding \cup SG!Hard),
                        shown : SUBSET (Finding \cup SG!Hard)]
      /\ SG!NoVerdict.found = {}
  BY DEF SG!NoVerdict
<1>5. SG!StopShape
  BY <1>1, <1>2, <1>3, <1>4, StopAssumption DEF SG!StopShape, HookRec
<1>6. SG!OnePerSession
  BY <1>3 DEF SG!OnePerSession, SG!Running
<1>7. SG!RecordedWasShown
  BY <1>1, <1>2 DEF SG!RecordedWasShown, SG!NeverShown, SG!Since
<1>8. SG!SuppressedWasShown
  BY <1>1, <1>4 DEF SG!SuppressedWasShown
<1> QED BY <1>3, <1>5, <1>6, <1>7, <1>8 DEF SG!StopInv

(* What is shown or lost now is so lately; what was stays so until the      *)
(* clock moves.                                                             *)
LEMMA LatelyStays ==
  ASSUME NEW a, NEW b, b = a \/ b = stopNow, stopNow # SG!NeverShown, SG!Lately(a)
  PROVE  SG!Lately(b)
BY DEF SG!Lately

(* In session t what was given is shown now, and what was cut is lost now.  *)
Given(given, cut, t) == \A s \in Session, f \in Finding :
    /\ shown'[s][f] = IF s = t /\ f \in given THEN stopNow ELSE shown[s][f]
    /\ lost'[s][f] = IF s = t /\ f \in cut THEN stopNow ELSE lost[s][f]

PrintsOn(ended, t) == \A s \in Session, f \in Finding :
    SG!Printing(s, f) => SG!Printing(s, f)' \/ (s = t /\ f \in ended)

StillLately == \A s \in Session, f \in Finding :
    (SG!Lately(shown[s][f]) \/ SG!Lately(lost[s][f]))
       => (SG!Lately(shown'[s][f]) \/ SG!Lately(lost'[s][f]))

(* More that is shown or lost keeps the records and the stops explained.    *)
LEMMA LosingKeeps ==
  ASSUME SG!StopInv, NEW given, NEW cut, NEW t \in Session, UNCHANGED <<stopNow, cooldown>>,
         shown' \in [Session -> [Finding -> Int]], lost' \in [Session -> [Finding -> Int]],
         Given(given, cut, t), PrintsOn(given \cup cut, t)
  PROVE  /\ SG!RecordedWasShown'
         /\ StillLately
         /\ \A f \in Finding : f \in cut => SG!Lately(lost'[t][f])
<1>1. stopNow \in Nat /\ stopNow # SG!NeverShown
  BY StopAssumption DEF SG!StopInv, SG!StopShape, SG!NeverShown
<1>2. ASSUME NEW s \in Session, NEW f \in Finding
      PROVE  /\ shown'[s][f] <= stopNow /\ lost'[s][f] <= stopNow /\ cooldown[s][f] <= stopNow
             /\ cooldown[s][f] # SG!NeverShown =>
                   \/ SG!Since(shown'[s][f], cooldown[s][f]) \/ SG!Since(lost'[s][f], cooldown[s][f])
                   \/ SG!Printing(s, f)'
  <2>1. /\ shown[s][f] <= stopNow /\ lost[s][f] <= stopNow /\ cooldown[s][f] <= stopNow
        /\ cooldown[s][f] # SG!NeverShown =>
              \/ SG!Since(shown[s][f], cooldown[s][f]) \/ SG!Since(lost[s][f], cooldown[s][f])
              \/ SG!Printing(s, f)
    BY DEF SG!StopInv, SG!RecordedWasShown
  <2>2. shown'[s][f] \in {shown[s][f], stopNow} /\ lost'[s][f] \in {lost[s][f], stopNow}
    BY DEF Given
  <2>3. SG!Printing(s, f) =>
           SG!Printing(s, f)' \/ shown'[s][f] = stopNow \/ lost'[s][f] = stopNow
    BY DEF Given, PrintsOn
  <2> QED BY <1>1, <2>1, <2>2, <2>3 DEF SG!Since
<1>3. SG!RecordedWasShown'
  BY <1>2 DEF SG!RecordedWasShown, SG!Since, SG!NeverShown
<1>4. ASSUME NEW s \in Session, NEW f \in Finding, SG!Lately(shown[s][f]) \/ SG!Lately(lost[s][f])
      PROVE  SG!Lately(shown'[s][f]) \/ SG!Lately(lost'[s][f])
  <2>1. (shown'[s][f] = shown[s][f] \/ shown'[s][f] = stopNow) /\ (lost'[s][f] = lost[s][f] \/ lost'[s][f] = stopNow)
    BY DEF Given
  <2> QED BY <1>1, <1>4, <2>1, LatelyStays
<1>5. ASSUME NEW f \in Finding, f \in cut PROVE SG!Lately(lost'[t][f])
  BY <1>1, <1>5 DEF SG!Lately, Given
<1> QED BY <1>3, <1>4, <1>5 DEF StillLately

(* A step of one hook that neither prints nor records.                      *)
LEMMA HookMoves ==
  ASSUME SG!StopInv, UNCHANGED <<stopNow, standing, cooldown, shown, lost, verdicts>>,
         NEW h \in Hook, NEW rec \in HookRec, hooks' = [hooks EXCEPT ![h] = rec],
         hooks[h].pc # "print", rec.pc # "print",
         \A g \in Hook : g # h /\ SG!Running(g) => hooks[g].session # rec.session
  PROVE  SG!StopInv'
<1>1. hooks \in [Hook -> HookRec]
  BY DEF SG!StopInv, SG!StopShape, HookRec
<1>2. hooks' \in [Hook -> HookRec] /\ hooks'[h] = rec /\ \A g \in Hook : g # h => hooks'[g] = hooks[g]
  BY <1>1
<1>3. SG!StopShape'
  BY <1>2 DEF SG!StopInv, SG!StopShape, HookRec
<1>4. SG!OnePerSession'
  BY <1>2 DEF SG!StopInv, SG!OnePerSession, SG!Running
<1>5. \A s \in Session, f \in Finding : SG!Printing(s, f) => SG!Printing(s, f)'
  BY <1>2 DEF SG!Printing
<1>6. SG!RecordedWasShown'
  BY <1>5 DEF SG!StopInv, SG!RecordedWasShown, SG!Since
<1>7. SG!SuppressedWasShown'
  BY DEF SG!StopInv, SG!SuppressedWasShown, SG!Lately
<1> QED BY <1>2, <1>3, <1>4, <1>6, <1>7 DEF SG!StopInv, SG!Told, SG!Lately

LEMMA StopKeeps == ASSUME SG!StopInv, NEW h \in Hook, SG!Stop(h) PROVE SG!StopInv'
<1>1. PICK s \in Session :
         /\ hooks[h].pc = "off" /\ \A g \in Hook : hooks[g].pc # "off" => hooks[g].session # s
         /\ hooks' = [hooks EXCEPT ![h] = [SG!Idle EXCEPT !.pc = "run", !.session = s, !.long = SG!LongTurnPassed(s)]]
  BY DEF SG!Stop, SG!Put
<1>2. UNCHANGED <<stopNow, standing, cooldown, shown, lost, verdicts>>
  BY DEF SG!Stop
<1> DEFINE rec == [SG!Idle EXCEPT !.pc = "run", !.session = s, !.long = SG!LongTurnPassed(s)]
<1>3. SG!LongTurnPassed(s) \in BOOLEAN
  BY DEF SG!LongTurnPassed
<1>4. rec \in HookRec /\ rec.pc = "run" /\ rec.session = s
  BY <1>3, IdleHook DEF HookRec
<1>5. hooks' = [hooks EXCEPT ![h] = rec]
  BY <1>1
<1> HIDE DEF rec
<1>6. hooks[h].pc # "print" /\ rec.pc # "print"
  BY <1>1, <1>4
<1>7. \A g \in Hook : g # h /\ SG!Running(g) => hooks[g].session # rec.session
  BY <1>1, <1>4 DEF SG!Running
<1> QED BY <1>2, <1>4, <1>5, <1>6, <1>7, HookMoves

LEMMA RunKeeps == ASSUME SG!StopInv, NEW h \in Hook, SG!RunChildren(h) PROVE SG!StopInv'
<1>1. UNCHANGED <<stopNow, standing, cooldown, shown, lost, verdicts>> /\ hooks[h].pc = "run"
  BY DEF SG!RunChildren
<1>2. hooks \in [Hook -> HookRec] /\ standing \in [Session -> SUBSET Finding]
  BY DEF SG!StopInv, SG!StopShape, HookRec
<1>3. PICK found1 \in SUBSET (Finding \cup SG!Hard) :
         hooks' = [hooks EXCEPT ![h] = [hooks[h] EXCEPT !.pc = "cooldown", !.found = found1]]
  <2>1. PICK ledgerFails \in BOOLEAN, otherFails \in BOOLEAN :
           hooks' = [hooks EXCEPT ![h] = [hooks[h] EXCEPT !.pc = "cooldown",
                    !.found = (IF drain /\ ~ledgerFails THEN {"drain"} ELSE {})
                              \cup (IF hooks[h].long THEN {}
                                    ELSE standing[hooks[h].session]
                                           \cup IF otherFails THEN {"failed"} ELSE {})]]
    BY DEF SG!RunChildren, SG!Put
  <2>2. standing[hooks[h].session] \subseteq Finding
    BY <1>2 DEF HookRec
  <2>3. (IF drain /\ ~ledgerFails THEN {"drain"} ELSE {})
                              \cup (IF hooks[h].long THEN {}
                                    ELSE standing[hooks[h].session]
                                           \cup IF otherFails THEN {"failed"} ELSE {})
        \in SUBSET (Finding \cup SG!Hard)
    BY <2>2 DEF SG!Hard
  <2> QED BY <2>1, <2>3
<1> DEFINE rec == [hooks[h] EXCEPT !.pc = "cooldown", !.found = found1]
<1>4. rec \in HookRec /\ rec.pc = "cooldown" /\ rec.session = hooks[h].session
  BY <1>2 DEF HookRec
<1>5. hooks' = [hooks EXCEPT ![h] = rec]
  BY <1>3
<1>6. \A g \in Hook : g # h /\ SG!Running(g) => hooks[g].session # hooks[h].session
  BY <1>1 DEF SG!StopInv, SG!OnePerSession, SG!Running
<1> HIDE DEF rec
<1>7. hooks[h].pc # "print" /\ rec.pc # "print"
  BY <1>1, <1>4
<1>8. \A g \in Hook : g # h /\ SG!Running(g) => hooks[g].session # rec.session
  BY <1>4, <1>6
<1> QED BY <1>1, <1>4, <1>5, <1>7, <1>8, HookMoves

(* A finding is left out of a stop only while its record holds, and then it *)
(* was shown or lost as late as it was recorded.                            *)
LEMMA CooldownKeeps == ASSUME SG!StopInv, NEW h \in Hook, SG!ApplyCooldown(h) PROVE SG!StopInv'
<1>0. PICK s : s = hooks[h].session
  OBVIOUS
<1> DEFINE fresh == {f \in hooks[h].found \ SG!Hard : ~SG!Cooling(s, f)}
<1>1. UNCHANGED <<stopNow, standing, shown, lost, verdicts>> /\ hooks[h].pc = "cooldown"
  BY DEF SG!ApplyCooldown
<1>2. /\ hooks \in [Hook -> HookRec] /\ stopNow \in Int /\ s \in Session
      /\ cooldown \in [Session -> [Finding -> Int]] /\ shown \in [Session -> [Finding -> Int]]
      /\ lost \in [Session -> [Finding -> Int]]
  BY <1>0 DEF SG!StopInv, SG!StopShape, HookRec
<1>3. PICK out \in SUBSET (Finding \cup SG!Hard) :
         /\ hooks' = [hooks EXCEPT ![h] = [hooks[h] EXCEPT !.pc = "print", !.surfaced = out]]
         /\ \/ out = hooks[h].found /\ cooldown' = cooldown
            \/ /\ out = (hooks[h].found \cap SG!Hard) \cup fresh
               /\ cooldown' = [t \in Session |-> [f \in Finding |->
                       IF t = s /\ f \in fresh THEN stopNow
                       ELSE IF SG!Retained(t, f) THEN cooldown[t][f] ELSE SG!NeverShown]]
  <2>1. hooks[h].found \in SUBSET (Finding \cup SG!Hard)
    BY <1>2 DEF HookRec
  <2>2. (hooks[h].found \cap SG!Hard) \cup fresh \in SUBSET (Finding \cup SG!Hard)
    BY <2>1
  <2> QED BY <1>0, <2>1, <2>2 DEF SG!ApplyCooldown, SG!Put
<1> HIDE DEF fresh
<1>4. fresh \subseteq Finding /\ \A f \in hooks[h].found \ (SG!Hard \cup fresh) : f \in Finding /\ SG!Cooling(s, f)
  BY <1>2 DEF HookRec, fresh
<1> DEFINE rec == [hooks[h] EXCEPT !.pc = "print", !.surfaced = out]
<1>5. rec \in HookRec /\ rec.pc = "print" /\ rec.session = s /\ rec.found = hooks[h].found /\ rec.surfaced = out
  BY <1>0, <1>2 DEF HookRec
<1>6. hooks' = [hooks EXCEPT ![h] = rec]
  BY <1>3
<1> HIDE DEF rec
<1>7. hooks' \in [Hook -> HookRec] /\ hooks'[h] = rec /\ \A g \in Hook : g # h => hooks'[g] = hooks[g]
  BY <1>2, <1>5, <1>6
<1>8. cooldown' \in [Session -> [Finding -> Int]]
      /\ \A t \in Session, f \in Finding :
            \/ cooldown'[t][f] \in {cooldown[t][f], SG!NeverShown}
            \/ cooldown'[t][f] = stopNow /\ t = s /\ f \in out
  BY <1>2, <1>3 DEF SG!NeverShown
<1>9. SG!StopShape'
  BY <1>1, <1>7, <1>8 DEF SG!StopInv, SG!StopShape, HookRec
<1>10. SG!OnePerSession'
  BY <1>0, <1>1, <1>5, <1>7 DEF SG!StopInv, SG!OnePerSession, SG!Running
<1>11. \A t \in Session, f \in Finding : SG!Printing(t, f) => SG!Printing(t, f)'
  BY <1>1, <1>7 DEF SG!Printing
<1>12. \A f \in out : SG!Printing(s, f)'
  BY <1>5, <1>7 DEF SG!Printing
<1>13. SG!RecordedWasShown'
  <2> SUFFICES ASSUME NEW t \in Session, NEW f \in Finding
               PROVE  /\ shown'[t][f] <= stopNow' /\ lost'[t][f] <= stopNow' /\ cooldown'[t][f] <= stopNow'
                      /\ cooldown'[t][f] # SG!NeverShown =>
                            \/ SG!Since(shown'[t][f], cooldown'[t][f]) \/ SG!Since(lost'[t][f], cooldown'[t][f])
                            \/ SG!Printing(t, f)'
    BY DEF SG!RecordedWasShown, SG!Since, SG!NeverShown
  <2>1. /\ shown[t][f] <= stopNow /\ lost[t][f] <= stopNow /\ cooldown[t][f] <= stopNow
        /\ cooldown[t][f] # SG!NeverShown =>
              \/ SG!Since(shown[t][f], cooldown[t][f]) \/ SG!Since(lost[t][f], cooldown[t][f])
              \/ SG!Printing(t, f)
    BY DEF SG!StopInv, SG!RecordedWasShown
  <2>2. stopNow \in Nat
    BY StopAssumption DEF SG!StopInv, SG!StopShape
  <2> QED BY <1>1, <1>8, <1>11, <1>12, <2>1, <2>2 DEF SG!NeverShown
<1>14. hooks[h].found \cap SG!Hard \subseteq out /\ SG!Told(hooks[h].found, out, s)
  <2>1. hooks[h].found \cap SG!Hard \subseteq out
    BY <1>3
  <2>2. ASSUME NEW f \in hooks[h].found \ (out \cup SG!Hard)
        PROVE  SG!Lately(shown[s][f]) \/ SG!Lately(lost[s][f])
    <3>1. out = (hooks[h].found \cap SG!Hard) \cup fresh
      BY <1>3, <2>2
    <3>2. f \in Finding /\ SG!Cooling(s, f)
      BY <1>4, <2>2, <3>1
    <3>3. cooldown[s][f] # SG!NeverShown /\ stopNow - cooldown[s][f] < Grace
      BY <3>2 DEF SG!Cooling, SG!Retained
    <3>4. ~SG!Printing(s, f)
      BY <1>0, <1>1 DEF SG!Printing, SG!StopInv, SG!OnePerSession, SG!Running
    <3>5. SG!Since(shown[s][f], cooldown[s][f]) \/ SG!Since(lost[s][f], cooldown[s][f])
      BY <1>2, <3>2, <3>3, <3>4 DEF SG!StopInv, SG!RecordedWasShown
    <3>6. shown[s][f] \in Int /\ lost[s][f] \in Int /\ cooldown[s][f] \in Int /\ Grace \in Int
      BY <1>2, <3>2, StopAssumption
    <3> QED BY <1>2, <3>3, <3>5, <3>6 DEF SG!Since, SG!Lately
  <2> QED BY <2>1, <2>2 DEF SG!Told
<1>15. \A g \in Hook : hooks'[g].pc = "print" =>
          /\ hooks'[g].found \cap SG!Hard \subseteq hooks'[g].surfaced
          /\ SG!Told(hooks[g].found, hooks[g].surfaced, hooks[g].session)'
  BY <1>1, <1>5, <1>7, <1>14 DEF SG!StopInv, SG!Told, SG!Lately
<1>16. SG!SuppressedWasShown'
  BY <1>1 DEF SG!StopInv, SG!SuppressedWasShown, SG!Lately
<1> QED BY <1>9, <1>10, <1>13, <1>15, <1>16 DEF SG!StopInv

(* A hook ends: what it was to show was shown or is lost.                   *)
LEMMA EndingKeeps ==
  ASSUME SG!StopInv, NEW h \in Hook, hooks[h].pc # "off", UNCHANGED <<stopNow, standing, cooldown>>,
         hooks' = [hooks EXCEPT ![h] = SG!Idle],
         NEW given, NEW cut, hooks[h].pc = "print" => hooks[h].surfaced \subseteq given \cup cut,
         shown' \in [Session -> [Finding -> Int]], lost' \in [Session -> [Finding -> Int]],
         NEW s, s = hooks[h].session, Given(given, cut, s),
         NEW verdict \in [blocked : BOOLEAN, found : SUBSET (Finding \cup SG!Hard),
                          shown : SUBSET (Finding \cup SG!Hard)],
         verdicts' = [verdicts EXCEPT ![s] = verdict],
         verdict.found \cap SG!Hard # {} => verdict.blocked,
         \/ verdict.found = {}
         \/ hooks[h].pc = "print" /\ verdict.found = hooks[h].found /\ hooks[h].surfaced \subseteq verdict.shown \cup cut
  PROVE  SG!StopInv'
<1> DEFINE Verdict == [blocked : BOOLEAN, found : SUBSET (Finding \cup SG!Hard), shown : SUBSET (Finding \cup SG!Hard)]
<1>1. hooks \in [Hook -> HookRec] /\ s \in Session /\ verdicts \in [Session -> Verdict]
  BY DEF SG!StopInv, SG!StopShape, HookRec
<1>2. hooks' \in [Hook -> HookRec] /\ hooks'[h].pc = "off" /\ \A g \in Hook : g # h => hooks'[g] = hooks[g]
  BY <1>1, IdleHook
<1>3. verdicts' \in [Session -> Verdict] /\ verdicts'[s] = verdict /\ \A t \in Session : t # s => verdicts'[t] = verdicts[t]
  BY <1>1
<1>4. SG!StopShape'
  BY <1>2, <1>3 DEF SG!StopInv, SG!StopShape, HookRec
<1>5. SG!OnePerSession'
  BY <1>2 DEF SG!StopInv, SG!OnePerSession, SG!Running
<1>6. PrintsOn(given \cup cut, s)
  BY <1>2 DEF SG!Printing, PrintsOn
<1> HIDE DEF Verdict
<1>7. /\ SG!RecordedWasShown' /\ StillLately
      /\ \A f \in Finding : f \in cut => SG!Lately(lost'[s][f])
  BY <1>1, <1>6, LosingKeeps
<1>8. ASSUME NEW g \in Hook, hooks'[g].pc = "print"
      PROVE  /\ hooks'[g].found \cap SG!Hard \subseteq hooks'[g].surfaced
             /\ SG!Told(hooks[g].found, hooks[g].surfaced, hooks[g].session)'
  <2>1. g # h /\ hooks'[g] = hooks[g] /\ hooks[g] \in HookRec
    BY <1>1, <1>2, <1>8
  <2>2. hooks[g].found \ SG!Hard \subseteq Finding /\ hooks[g].session \in Session
    BY <2>1 DEF HookRec
  <2>3. SG!Told(hooks[g].found, hooks[g].surfaced, hooks[g].session)
        /\ hooks[g].found \cap SG!Hard \subseteq hooks[g].surfaced
    BY <1>8, <2>1 DEF SG!StopInv
  <2>4. ASSUME NEW f \in hooks[g].found \ (hooks[g].surfaced \cup SG!Hard)
        PROVE  SG!Lately(shown'[hooks[g].session][f]) \/ SG!Lately(lost'[hooks[g].session][f])
    BY <1>7, <2>2, <2>3 DEF SG!Told, StillLately
  <2> QED BY <2>1, <2>3, <2>4 DEF SG!Told, SG!Lately
<1>9. ASSUME NEW t \in Session
      PROVE  /\ verdicts'[t].found \cap SG!Hard # {} => verdicts'[t].blocked
             /\ \A f \in verdicts'[t].found \ (verdicts'[t].shown \cup SG!Hard) :
                   SG!Lately(shown'[t][f]) \/ SG!Lately(lost'[t][f])
  <2>1. CASE t # s
    <3>1. verdicts[t].found \ SG!Hard \subseteq Finding
      BY <1>1 DEF Verdict
    <3> QED BY <1>3, <1>7, <2>1, <3>1 DEF SG!StopInv, SG!SuppressedWasShown, StillLately
  <2>2. CASE t = s
    <3>1. verdict.found \ SG!Hard \subseteq Finding
      OBVIOUS
    <3>2. ASSUME NEW f \in verdict.found \ (verdict.shown \cup SG!Hard)
          PROVE  SG!Lately(shown'[s][f]) \/ SG!Lately(lost'[s][f])
      <4>1. f \in Finding /\ hooks[h].pc = "print" /\ verdict.found = hooks[h].found
            /\ hooks[h].surfaced \subseteq verdict.shown \cup cut
        BY <3>1, <3>2
      <4>2. CASE f \in cut
        BY <1>7, <4>1, <4>2
      <4>3. CASE f \notin cut
        <5>1. f \in hooks[h].found \ (hooks[h].surfaced \cup SG!Hard)
          BY <3>2, <4>1, <4>3
        <5>2. SG!Told(hooks[h].found, hooks[h].surfaced, s)
          BY <4>1 DEF SG!StopInv
        <5> QED BY <1>1, <1>7, <4>1, <5>1, <5>2 DEF SG!Told, StillLately
      <4> QED BY <4>2, <4>3
    <3> QED BY <1>3, <2>2, <3>2
  <2> QED BY <2>1, <2>2
<1>10. SG!SuppressedWasShown'
  BY <1>9 DEF SG!SuppressedWasShown, SG!Lately
<1> QED BY <1>4, <1>5, <1>7, <1>8, <1>10 DEF SG!StopInv

LEMMA AnswerKeeps == ASSUME SG!StopInv, NEW h \in Hook, SG!Answer(h) PROVE SG!StopInv'
<1>0. PICK s : s = hooks[h].session
  OBVIOUS
<1>1. PICK cut \in SUBSET hooks[h].surfaced :
         /\ UNCHANGED <<stopNow, standing, cooldown>> /\ hooks[h].pc = "print"
         /\ cut # {} => hooks[h].surfaced \ cut # {}
         /\ hooks' = [hooks EXCEPT ![h] = SG!Idle]
         /\ verdicts' = [verdicts EXCEPT ![hooks[h].session] =
                             [blocked |-> hooks[h].surfaced \ cut # {}, found |-> hooks[h].found,
                              shown |-> hooks[h].surfaced \ cut]]
         /\ shown' = [shown EXCEPT ![hooks[h].session] =
                          [f \in Finding |-> IF f \in hooks[h].surfaced \ cut THEN stopNow ELSE shown[hooks[h].session][f]]]
         /\ lost' = [lost EXCEPT ![hooks[h].session] =
                          [f \in Finding |-> IF f \in cut THEN stopNow ELSE lost[hooks[h].session][f]]]
  <2>1. PICK cut \in SUBSET hooks[h].surfaced : SG!Answer(h)!(cut)
    BY DEF SG!Answer
  <2> QED BY <2>1 DEF SG!Put
<1>2. /\ hooks \in [Hook -> HookRec] /\ stopNow \in Nat /\ s \in Session
      /\ shown \in [Session -> [Finding -> Int]] /\ lost \in [Session -> [Finding -> Int]]
      /\ hooks[h].found \subseteq Finding \cup SG!Hard /\ hooks[h].surfaced \subseteq Finding \cup SG!Hard
  BY <1>0, StopAssumption DEF SG!StopInv, SG!StopShape, HookRec
<1>3. PICK given : given = hooks[h].surfaced \ cut
  OBVIOUS
<1>4. /\ shown' \in [Session -> [Finding -> Int]] /\ lost' \in [Session -> [Finding -> Int]]
      /\ Given(given, cut, s)
  BY <1>0, <1>1, <1>2, <1>3 DEF Given
<1>5. PICK verdict : verdict = [blocked |-> given # {}, found |-> hooks[h].found, shown |-> given]
  OBVIOUS
<1>6. verdict \in [blocked : BOOLEAN, found : SUBSET (Finding \cup SG!Hard), shown : SUBSET (Finding \cup SG!Hard)]
      /\ verdict.found = hooks[h].found /\ verdict.shown = given /\ verdict.blocked = (given # {})
  BY <1>2, <1>3, <1>5
<1>7. verdicts' = [verdicts EXCEPT ![s] = verdict]
  BY <1>0, <1>1, <1>3, <1>5
<1>8. hooks[h].found \cap SG!Hard \subseteq hooks[h].surfaced
  BY <1>1 DEF SG!StopInv
<1>9. verdict.found \cap SG!Hard # {} => verdict.blocked
  BY <1>1, <1>3, <1>6, <1>8
<1>10. hooks[h].surfaced \subseteq given \cup cut /\ hooks[h].surfaced \subseteq verdict.shown \cup cut
  BY <1>3, <1>6
<1>11. hooks[h].pc = "print" /\ hooks[h].pc # "off" /\ UNCHANGED <<stopNow, standing, cooldown>> /\ hooks' = [hooks EXCEPT ![h] = SG!Idle]
  BY <1>1
<1>12. \/ verdict.found = {}
       \/ hooks[h].pc = "print" /\ verdict.found = hooks[h].found /\ hooks[h].surfaced \subseteq verdict.shown \cup cut
  BY <1>6, <1>10, <1>11
<1> QED BY <1>0, <1>4, <1>6, <1>7, <1>9, <1>10, <1>11, <1>12, EndingKeeps

LEMMA KilledKeeps == ASSUME SG!StopInv, NEW h \in Hook, SG!Killed(h) PROVE SG!StopInv'
<1>0. PICK s, cut, given : s = hooks[h].session /\ cut = hooks[h].surfaced /\ given = {}
  OBVIOUS
<1>1. /\ UNCHANGED <<stopNow, standing, cooldown, shown>> /\ hooks[h].pc # "off"
      /\ hooks' = [hooks EXCEPT ![h] = SG!Idle]
      /\ verdicts' = [verdicts EXCEPT ![s] = SG!NoVerdict]
      /\ lost' = [lost EXCEPT ![s] = [f \in Finding |-> IF f \in cut THEN stopNow ELSE lost[s][f]]]
  BY <1>0 DEF SG!Killed, SG!Put
<1>2. /\ stopNow \in Nat /\ s \in Session /\ shown \in [Session -> [Finding -> Int]]
      /\ lost \in [Session -> [Finding -> Int]]
  BY <1>0, StopAssumption DEF SG!StopInv, SG!StopShape
<1>3. /\ shown' \in [Session -> [Finding -> Int]] /\ lost' \in [Session -> [Finding -> Int]]
      /\ Given(given, cut, s)
  BY <1>0, <1>1, <1>2 DEF Given
<1>4. PICK verdict : verdict = SG!NoVerdict
  OBVIOUS
<1>5. verdict \in [blocked : BOOLEAN, found : SUBSET (Finding \cup SG!Hard), shown : SUBSET (Finding \cup SG!Hard)]
      /\ verdict.found = {} /\ ~(verdict.found \cap SG!Hard # {})
  BY <1>4 DEF SG!NoVerdict
<1>7. hooks[h].surfaced \subseteq given \cup cut
  BY <1>0
<1> QED BY <1>0, <1>1, <1>3, <1>4, <1>5, <1>7, EndingKeeps

LEMMA AdvanceKeeps == SG!StopInv /\ SG!Advance => SG!StopInv'
<1> SUFFICES ASSUME SG!StopInv, SG!Advance PROVE SG!StopInv'
  OBVIOUS
<1>1. /\ stopNow < MaxStopTime /\ (\A h \in Hook : hooks[h].pc = "off") /\ stopNow' = stopNow + 1
      /\ verdicts' = [s \in Session |-> SG!NoVerdict] /\ UNCHANGED <<cooldown, hooks, shown, lost>>
  BY DEF SG!Advance
<1>2. standing' \in [Session -> SUBSET Finding]
  <2>1. standing \in [Session -> SUBSET Finding]
    BY DEF SG!StopInv, SG!StopShape
  <2>2. CASE UNCHANGED standing
    BY <2>1, <2>2
  <2>3. CASE ~UNCHANGED standing
    <3>1. PICK s \in Session, f \in Finding :
             standing' = [standing EXCEPT ![s] = IF f \in standing[s] THEN standing[s] \ {f} ELSE standing[s] \cup {f}]
      BY <2>3 DEF SG!Advance
    <3> QED BY <2>1, <3>1
  <2> QED BY <2>2, <2>3
<1>3. SG!NoVerdict \in [blocked : BOOLEAN, found : SUBSET (Finding \cup SG!Hard),
                        shown : SUBSET (Finding \cup SG!Hard)]
      /\ SG!NoVerdict.found = {}
  BY DEF SG!NoVerdict
<1>4. stopNow' \in 0 .. MaxStopTime /\ stopNow \in Nat
  BY <1>1, StopAssumption DEF SG!StopInv, SG!StopShape
<1>5. SG!StopShape'
  BY <1>1, <1>2, <1>3, <1>4 DEF SG!StopInv, SG!StopShape
<1>6. SG!OnePerSession'
  BY <1>1 DEF SG!OnePerSession, SG!Running
<1>7. SG!RecordedWasShown'
  <2> SUFFICES ASSUME NEW t \in Session, NEW f \in Finding
               PROVE  /\ shown[t][f] <= stopNow + 1 /\ lost[t][f] <= stopNow + 1 /\ cooldown[t][f] <= stopNow + 1
                      /\ cooldown[t][f] # SG!NeverShown =>
                            SG!Since(shown[t][f], cooldown[t][f]) \/ SG!Since(lost[t][f], cooldown[t][f])
    BY <1>1 DEF SG!RecordedWasShown, SG!Since, SG!NeverShown
  <2>1. /\ shown[t][f] <= stopNow /\ lost[t][f] <= stopNow /\ cooldown[t][f] <= stopNow
        /\ cooldown[t][f] # SG!NeverShown =>
              \/ SG!Since(shown[t][f], cooldown[t][f]) \/ SG!Since(lost[t][f], cooldown[t][f])
              \/ SG!Printing(t, f)
    BY DEF SG!StopInv, SG!RecordedWasShown
  <2>2. ~SG!Printing(t, f)
    BY <1>1 DEF SG!Printing
  <2>3. shown[t][f] \in Int /\ lost[t][f] \in Int /\ cooldown[t][f] \in Int
    BY DEF SG!StopInv, SG!StopShape
  <2> QED BY <1>4, <2>1, <2>2, <2>3
<1>8. SG!SuppressedWasShown'
  BY <1>1, <1>3 DEF SG!SuppressedWasShown
<1> QED BY <1>1, <1>5, <1>6, <1>7, <1>8 DEF SG!StopInv

LEMMA StopGoes == SG!StopInv /\ [SG!StopNext]_stopVars => SG!StopInv'
<1> SUFFICES ASSUME SG!StopInv, [SG!StopNext]_stopVars PROVE SG!StopInv'
  OBVIOUS
<1>1. CASE UNCHANGED stopVars
  BY <1>1 DEF stopVars, SG!StopInv, SG!StopShape, SG!OnePerSession, SG!Running, SG!RecordedWasShown,
     SG!Printing, SG!Told, SG!Lately, SG!Since, SG!SuppressedWasShown
<1>2. CASE SG!Advance
  BY <1>2, AdvanceKeeps
<1>3. ASSUME NEW h \in Hook, SG!Stop(h) \/ SG!RunChildren(h) \/ SG!ApplyCooldown(h) \/ SG!Answer(h) \/ SG!Killed(h)
      PROVE  SG!StopInv'
  BY <1>3, StopKeeps, RunKeeps, CooldownKeeps, AnswerKeeps, KilledKeeps
<1> QED BY <1>1, <1>2, <1>3 DEF SG!StopNext

LEMMA StopRests == SG!StopInv => SG!SuppressedWasShown
BY DEF SG!StopInv

LEMMA StopTypes == SG!StopInv => SG!StopTypeOK
BY DEF SG!StopInv, SG!StopShape, SG!StopTypeOK

-----------------------------------------------------------------------------
(* The ledger of obligations (ObligationLedger).                            *)

(* The half of the invariant that tells of the table; the other tells of    *)
(* the debt of the cleanup.                                                 *)
LedgerTable == OL!LedgerTypeOK /\ OL!HeadedRowAccepted /\ OL!OneOpenPerKey /\ OL!TwinsAreRead

(* The table is a function on 1 .. n.                                       *)
LEMMA TableShape == ASSUME OL!LedgerTypeOK
                    PROVE  /\ Len(rows) \in Nat /\ Len(rows) <= MaxRows /\ OL!Ids = 1 .. Len(rows)
                           /\ rows \in [1 .. Len(rows) -> OL!Row]
                           /\ OL!Ids \subseteq OL!RowId
BY LedgerAssumption, LenProperties DEF OL!LedgerTypeOK, OL!Ids, OL!RowId

LEMMA TableIs == ASSUME NEW n \in Nat, n <= MaxRows, NEW t \in [1 .. n -> OL!Row]
                 PROVE  t \in Seq(OL!Row) /\ Len(t) = n /\ DOMAIN t = 1 .. n
BY SeqDef, LenProperties

LEMMA StampedKeeps == ASSUME OL!LedgerTypeOK, NEW ids, OL!Stamped(ids)
                      PROVE  sweep' \in OL!Preview \cup {NULL} /\ (sweep' = NULL <=> sweep = NULL)
<1>1. CASE sweep' = sweep
  BY <1>1 DEF OL!LedgerTypeOK
<1>2. CASE sweep # NULL /\ \E at \in {sweep.at, FALSE} : sweep' = [sweep EXCEPT !.at = at]
  BY <1>2, LedgerAssumption DEF OL!LedgerTypeOK, OL!Preview
<1> QED BY <1>1, <1>2 DEF OL!Stamped

(* What Close leaves of the table.                                          *)
LEMMA CloseMoves ==
  ASSUME OL!LedgerTypeOK, NEW closing, NEW typed \in BOOLEAN, OL!Close(closing, typed)
  PROVE  /\ rows' \in Seq(OL!Row) /\ Len(rows') <= MaxRows /\ DOMAIN rows' = OL!Ids
         /\ sweep' \in OL!Preview \cup {NULL} /\ (sweep' = NULL <=> sweep = NULL)
         /\ \A i \in OL!Ids : rows'[i] = rows[i] \/ (~rows'[i].open /\ rows'[i].kind = rows[i].kind)
         /\ \A i \in OL!Ids : i \in closing => ~rows'[i].open
         /\ \A i \in OL!Ids : i \notin closing \/ ~rows[i].open => rows'[i] = rows[i]
<1>1. rows' = [i \in OL!Ids |-> IF i \in closing /\ rows[i].open THEN OL!Resolved(rows[i].kind, typed) ELSE rows[i]]
      /\ OL!Stamped({i \in closing : rows[i].open})
  BY DEF OL!Close
<1>2. ASSUME NEW i \in OL!Ids
      PROVE  LET res == OL!Resolved(rows[i].kind, typed)
             IN  res \in OL!Row /\ ~res.open /\ res.kind = rows[i].kind
  <2>1. rows[i].kind \in Kinds
    BY TableShape DEF OL!Row
  <2> QED BY <2>1 DEF OL!Resolved, OL!Fresh, OL!Row, OL!Evidence, OL!Owner
<1>3. rows' \in [1 .. Len(rows) -> OL!Row]
  BY <1>1, <1>2, TableShape
<1>4. rows' \in Seq(OL!Row) /\ Len(rows') <= MaxRows /\ DOMAIN rows' = OL!Ids
  BY <1>3, TableShape, TableIs
<1>5. sweep' \in OL!Preview \cup {NULL} /\ (sweep' = NULL <=> sweep = NULL)
  BY <1>1, StampedKeeps
<1> QED BY <1>1, <1>2, <1>4, <1>5

(* What an upsert leaves of it: an open row of the key it was asked for,    *)
(* which the heartbeat accepts, and no second one.                          *)
LEMMA UpsertMoves ==
  ASSUME OL!LedgerTypeOK, OL!HeadedRowAccepted,
         NEW k \in Kinds, NEW ev \in OL!Evidence \cup {NULL}, NEW who \in OL!Owner \cup {NULL},
         NEW claim \in BOOLEAN, OL!Upsert(k, ev, who, claim)
  PROVE  /\ rows' \in Seq(OL!Row) /\ Len(rows') <= MaxRows /\ OL!HeadedRowAccepted'
         /\ sweep' \in OL!Preview \cup {NULL} /\ (sweep' = NULL <=> sweep = NULL)
         /\ \A i, j \in DOMAIN rows' :
              rows'[i].open /\ rows'[j].open /\ rows'[i].kind = rows'[j].kind /\ i # j
                => /\ i \in OL!Ids /\ j \in OL!Ids /\ rows[i].open /\ rows[j].open
                   /\ rows[i].kind = rows'[i].kind /\ rows[j].kind = rows'[j].kind
         /\ \E i \in DOMAIN rows' : rows'[i].open /\ rows'[i].kind = k
         /\ \A i \in OL!Ids : /\ i \in DOMAIN rows' /\ rows'[i].kind = rows[i].kind
                               /\ rows'[i].open = rows[i].open
                               /\ (~rows[i].open => rows'[i] = rows[i])
<1>0. ev # NULL => ~OL!ContinuationRefused(k, ev, who)
  BY DEF OL!Upsert
<1>1. CASE OL!OpenOf(k) # {}
  <2>1. PICK i \in OL!OpenOf(k) : OL!Update(i, ev, who, claim)
    BY <1>1 DEF OL!Upsert, OL!Newest
  <2> DEFINE new == OL!Updated(rows[i], ev, who, claim)
  <2>2. i \in OL!Ids /\ rows[i] \in OL!Row /\ rows[i].open /\ rows[i].kind = k
    BY <2>1, TableShape DEF OL!OpenOf
  <2>3. /\ new \in OL!Row /\ new.open /\ new.kind = k
        /\ new.ev = (IF ev = NULL THEN rows[i].ev ELSE ev)
        /\ new.owner = (IF who = NULL THEN rows[i].owner ELSE who)
    BY <2>2 DEF OL!Updated, OL!Row
  <2>4. rows' = [rows EXCEPT ![i] = new] /\ OL!Stamped({i})
        /\ (ev = NULL => ~OL!RetainedRefused(rows[i], who))
    BY <2>1 DEF OL!Update
  <2>5. ~OL!ContinuationRefused(new.kind, new.ev, new.owner)
    BY <1>0, <2>2, <2>3, <2>4, LedgerAssumption DEF OL!RetainedRefused, OL!ContinuationRefused, OL!Row
  <2> HIDE DEF new
  <2>6. rows' \in [1 .. Len(rows) -> OL!Row] /\ i \in 1 .. Len(rows)
        /\ \A j \in 1 .. Len(rows) : rows'[j] = IF j = i THEN new ELSE rows[j]
    BY <2>2, <2>3, <2>4, TableShape
  <2>7. rows' \in Seq(OL!Row) /\ Len(rows') <= MaxRows /\ DOMAIN rows' = 1 .. Len(rows) /\ OL!Ids = 1 .. Len(rows)
    BY <2>6, TableShape, TableIs
  <2>8. OL!HeadedRowAccepted'
    BY <2>5, <2>6, <2>7 DEF OL!HeadedRowAccepted, OL!Ids, OL!ContinuationRefused
  <2>9. sweep' \in OL!Preview \cup {NULL} /\ (sweep' = NULL <=> sweep = NULL)
    BY <2>4, StampedKeeps
  <2>10. \A j \in OL!Ids : /\ j \in DOMAIN rows' /\ rows'[j].kind = rows[j].kind
                           /\ rows'[j].open = rows[j].open
                           /\ (~rows[j].open => rows'[j] = rows[j])
    <3> TAKE j \in OL!Ids
    <3>1. j \in DOMAIN rows' /\ rows'[j] = IF j = i THEN new ELSE rows[j]
      BY <2>6, <2>7
    <3>2. CASE j = i
      BY <2>2, <2>3, <3>1, <3>2
    <3>3. CASE j # i
      BY <3>1, <3>3
    <3> QED BY <3>2, <3>3
  <2>11. \E j \in DOMAIN rows' : rows'[j].open /\ rows'[j].kind = k
    BY <2>2, <2>3, <2>6, <2>7
  <2>12. \A a, b \in DOMAIN rows' : rows'[a].open /\ rows'[b].open /\ rows'[a].kind = rows'[b].kind /\ a # b
             => /\ a \in OL!Ids /\ b \in OL!Ids /\ rows[a].open /\ rows[b].open
                /\ rows[a].kind = rows'[a].kind /\ rows[b].kind = rows'[b].kind
    BY <2>7, <2>10
  <2> QED BY <2>7, <2>8, <2>9, <2>10, <2>11, <2>12
<1>2. CASE OL!OpenOf(k) = {}
  <2> DEFINE new == OL!Fresh(k, IF ev = NULL THEN "no_head" ELSE ev, IF who = NULL THEN "unknown" ELSE who, claim)
  <2>1. Len(rows) < MaxRows /\ rows' = Append(rows, new) /\ sweep' = sweep
    BY <1>2 DEF OL!Upsert, OL!Insert
  <2>2. new \in OL!Row /\ new.open /\ new.kind = k
        /\ new.ev = (IF ev = NULL THEN "no_head" ELSE ev) /\ new.owner = (IF who = NULL THEN "unknown" ELSE who)
    BY DEF OL!Fresh, OL!Row, OL!Evidence, OL!Owner
  <2>3. ~OL!ContinuationRefused(new.kind, new.ev, new.owner)
    BY <1>0, <2>2 DEF OL!ContinuationRefused
  <2> HIDE DEF new
  <2>4. /\ rows' \in Seq(OL!Row) /\ Len(rows') = Len(rows) + 1 /\ DOMAIN rows' = 1 .. Len(rows) + 1
        /\ rows'[Len(rows) + 1] = new /\ \A j \in 1 .. Len(rows) : rows'[j] = rows[j]
    BY <2>1, <2>2, AppendProperties, LenProperties DEF OL!LedgerTypeOK
  <2>5. Len(rows) \in Nat /\ OL!Ids = 1 .. Len(rows) /\ Len(rows') <= MaxRows
    BY <2>1, <2>4, TableShape, LedgerAssumption
  <2>6. \A j \in DOMAIN rows' : j = Len(rows) + 1 \/ j \in 1 .. Len(rows)
    BY <2>4, <2>5
  <2>7. OL!HeadedRowAccepted'
    BY <2>3, <2>4, <2>5, <2>6 DEF OL!HeadedRowAccepted, OL!Ids, OL!ContinuationRefused
  <2>8. \A j \in 1 .. Len(rows) : rows[j].open => rows[j].kind # k
    BY <1>2, <2>5 DEF OL!OpenOf
  <2>9. Len(rows) + 1 \in DOMAIN rows'
    BY <2>4, <2>5
  <2> QED BY <2>1, <2>2, <2>4, <2>5, <2>6, <2>7, <2>8, <2>9 DEF OL!LedgerTypeOK
<1> QED BY <1>1, <1>2

LEMMA UpsertIsAsked ==
  ASSUME OL!UpsertCommand
  PROVE  \E k \in Kinds, ev \in OL!Evidence \cup {NULL}, who \in OL!Owner \cup {NULL}, claim \in BOOLEAN :
            OL!Upsert(k, ev, who, claim)
<1>1. PICK k \in Kinds, claim \in BOOLEAN : \E asked \in OL!Asked(k) : OL!Upsert(k, asked[1], asked[2], claim)
  BY DEF OL!UpsertCommand
<1>2. PICK asked \in OL!Asked(k) : OL!Upsert(k, asked[1], asked[2], claim)
  BY <1>1
<1>3. asked[1] \in OL!Evidence \cup {NULL} /\ asked[2] \in OL!Owner \cup {NULL}
  BY DEF OL!Asked, OL!Evidence, OL!Owner
<1> QED BY <1>2, <1>3

LEMMA LedgerStarts == OL!LedgerInit => OL!LedgerInv
<1> SUFFICES ASSUME OL!LedgerInit PROVE OL!LedgerInv
  OBVIOUS
<1>1. PICK k \in Kinds, n \in {0, 2} :
        \/ rows = [i \in 1 .. n |-> OL!Fresh(k, "no_head", "slot", FALSE)]
        \/ rows = [i \in 1 .. n |-> OL!Fresh(k, "head", "slot", FALSE)]
  BY DEF OL!LedgerInit
<1>2. /\ pr = "open" /\ sweep = NULL /\ producer = NULL /\ ledgerRpc = "idle" /\ scan = {} /\ view = NULL
      /\ collapsed = FALSE /\ debt = "none" /\ upserts = 0
  BY DEF OL!LedgerInit
<1>3. PICK one : rows = [i \in 1 .. n |-> one] /\ one \in OL!Row /\ ~OL!ContinuationRefused(one.kind, one.ev, one.owner)
  <2> DEFINE bare == OL!Fresh(k, "no_head", "slot", FALSE)
             held == OL!Fresh(k, "head", "slot", FALSE)
  <2>1. bare \in OL!Row /\ ~OL!ContinuationRefused(bare.kind, bare.ev, bare.owner)
    BY DEF OL!Fresh, OL!Row, OL!Evidence, OL!Owner, OL!ContinuationRefused
  <2>2. held \in OL!Row /\ ~OL!ContinuationRefused(held.kind, held.ev, held.owner)
    BY LedgerAssumption DEF OL!Fresh, OL!Row, OL!Evidence, OL!Owner, OL!ContinuationRefused
  <2>3. rows = [i \in 1 .. n |-> bare] \/ rows = [i \in 1 .. n |-> held]
    BY <1>1
  <2> HIDE DEF bare, held
  <2> QED BY <2>1, <2>2, <2>3
<1>4. rows \in [1 .. n -> OL!Row] /\ n \in Nat /\ n <= MaxRows
  BY <1>3, LedgerAssumption
<1>5. rows \in Seq(OL!Row) /\ Len(rows) <= MaxRows /\ OL!Ids = 1 .. n
  BY <1>4, TableIs DEF OL!Ids
<1>6. OL!LedgerTypeOK
  <2>1. 0 \in 0 .. MaxUpserts
    BY LedgerAssumption
  <2> QED BY <1>2, <1>5, <2>1 DEF OL!LedgerTypeOK
<1>7. OL!HeadedRowAccepted
  BY <1>3, <1>5 DEF OL!HeadedRowAccepted
<1>8. OL!DebtIsCurrent /\ OL!HandoffKept
  BY <1>2, LedgerAssumption DEF OL!DebtIsCurrent, OL!HandoffKept
<1> QED BY <1>2, <1>6, <1>7, <1>8 DEF OL!LedgerInv, OL!OneOpenPerKey, OL!TwinsAreRead

(* A step that closes rows and no more keeps what the invariant says of     *)
(* the table.                                                               *)
LEMMA ClosingKeeps ==
  ASSUME OL!LedgerInv, NEW closing, NEW typed \in BOOLEAN, OL!Close(closing, typed),
         collapsed' = collapsed \/ OL!OneOpenPerKey',
         ledgerRpc' = "dups" => ledgerRpc = "dups" /\ scan' = scan
  PROVE  OL!HeadedRowAccepted' /\ (collapsed' = collapsed => OL!OneOpenPerKey') /\ OL!TwinsAreRead'
<1>1. /\ DOMAIN rows' = OL!Ids
      /\ \A i \in OL!Ids : rows'[i] = rows[i] \/ (~rows'[i].open /\ rows'[i].kind = rows[i].kind)
  BY CloseMoves DEF LedgerTable, OL!LedgerInv
<1>2. OL!HeadedRowAccepted'
  BY <1>1 DEF LedgerTable, OL!LedgerInv, OL!HeadedRowAccepted, OL!Ids, OL!ContinuationRefused
<1>3. \A k \in Kinds : OL!OpenOf(k)' \subseteq OL!OpenOf(k)
  BY <1>1 DEF OL!OpenOf, OL!Ids
<1> QED BY <1>2, <1>3 DEF LedgerTable, OL!LedgerInv, OL!OneOpenPerKey, OL!TwinsAreRead

LEMMA UpsertingKeeps ==
  ASSUME OL!LedgerInv, NEW k \in Kinds, NEW ev \in OL!Evidence \cup {NULL}, NEW who \in OL!Owner \cup {NULL},
         NEW claim \in BOOLEAN, OL!Upsert(k, ev, who, claim), collapsed' = collapsed,
         ledgerRpc' = "dups" => ledgerRpc = "dups" /\ scan' = scan
  PROVE  /\ rows' \in Seq(OL!Row) /\ Len(rows') <= MaxRows
         /\ sweep' \in OL!Preview \cup {NULL} /\ (sweep' = NULL <=> sweep = NULL)
         /\ OL!HeadedRowAccepted' /\ OL!OneOpenPerKey' /\ OL!TwinsAreRead'
<1>1. OL!LedgerTypeOK /\ OL!HeadedRowAccepted
  BY DEF LedgerTable, OL!LedgerInv
<1>2. /\ rows' \in Seq(OL!Row) /\ Len(rows') <= MaxRows /\ OL!HeadedRowAccepted'
      /\ sweep' \in OL!Preview \cup {NULL} /\ (sweep' = NULL <=> sweep = NULL)
      /\ \A i, j \in DOMAIN rows' :
              rows'[i].open /\ rows'[j].open /\ rows'[i].kind = rows'[j].kind /\ i # j
                => /\ i \in OL!Ids /\ j \in OL!Ids /\ rows[i].open /\ rows[j].open
                   /\ rows[i].kind = rows'[i].kind /\ rows[j].kind = rows'[j].kind
  BY <1>1, UpsertMoves
<1>3. \A l \in Kinds : \A i, j \in OL!OpenOf(l)' : i # j => i \in OL!OpenOf(l) /\ j \in OL!OpenOf(l)
  BY <1>2 DEF OL!OpenOf, OL!Ids
<1> QED BY <1>2, <1>3 DEF LedgerTable, OL!LedgerInv, OL!OneOpenPerKey, OL!TwinsAreRead

(* A row that only loses its claim.                                         *)
LEMMA UnclaimedKeeps ==
  ASSUME OL!LedgerInv, NEW i \in OL!Ids, OL!ClaimExpires(i) PROVE LedgerTable'
<1>1. /\ rows' = [rows EXCEPT ![i] = [rows[i] EXCEPT !.claimed = FALSE]]
      /\ UNCHANGED <<pr, sweep, producer, ledgerRpc, scan, view, collapsed, debt, upserts>>
  BY TableShape DEF OL!ClaimExpires, OL!reconcile, OL!beside, LedgerTable, OL!LedgerInv
<1> DEFINE new == [rows[i] EXCEPT !.claimed = FALSE]
<1>2. new \in OL!Row /\ new.open = rows[i].open /\ new.kind = rows[i].kind /\ new.ev = rows[i].ev
      /\ new.owner = rows[i].owner
  BY TableShape DEF LedgerTable, OL!LedgerInv, OL!Row
<1>3. rows' = [rows EXCEPT ![i] = new]
  BY <1>1
<1> HIDE DEF new
<1>4. rows' \in [1 .. Len(rows) -> OL!Row] /\ OL!Ids = 1 .. Len(rows)
      /\ \A j \in 1 .. Len(rows) : rows'[j] = IF j = i THEN new ELSE rows[j]
  BY <1>2, <1>3, TableShape DEF LedgerTable, OL!LedgerInv
<1>5. rows' \in Seq(OL!Row) /\ Len(rows') <= MaxRows /\ DOMAIN rows' = OL!Ids
  BY <1>4, TableShape, TableIs DEF LedgerTable, OL!LedgerInv
<1>6. \A k \in Kinds : OL!OpenOf(k)' = OL!OpenOf(k)
  BY <1>2, <1>4, <1>5 DEF OL!OpenOf, OL!Ids
<1>7. OL!HeadedRowAccepted'
  BY <1>2, <1>4, <1>5 DEF LedgerTable, OL!LedgerInv, OL!HeadedRowAccepted, OL!Ids, OL!ContinuationRefused
<1>8. OL!LedgerTypeOK'
  BY <1>1, <1>5 DEF LedgerTable, OL!LedgerInv, OL!LedgerTypeOK
<1> QED BY <1>1, <1>6, <1>7, <1>8 DEF LedgerTable, OL!LedgerInv, OL!OneOpenPerKey, OL!TwinsAreRead

(* The steps that leave the table alone.                                    *)
LEMMA TableKept ==
  ASSUME OL!LedgerInv, UNCHANGED <<rows, collapsed>>, OL!LedgerTypeOK',
         ledgerRpc' = "dups" => ledgerRpc = "dups" /\ scan' = scan
  PROVE  LedgerTable'
BY DEF LedgerTable, OL!LedgerInv, OL!HeadedRowAccepted, OL!OneOpenPerKey, OL!TwinsAreRead, OL!OpenOf, OL!Ids,
   OL!ContinuationRefused

LEMMA SweepKeeps == ASSUME OL!LedgerInv, OL!SweepResolves PROVE LedgerTable'
<1>1. sweep' = NULL /\ UNCHANGED <<pr, producer, ledgerRpc, scan, view, collapsed, upserts>>
      /\ debt' \in {"none", debt}
  BY DEF OL!SweepResolves, OL!reconcile
<1>2. CASE rows' = rows
  <2>1. OL!LedgerTypeOK'
    BY <1>1, <1>2 DEF LedgerTable, OL!LedgerInv, OL!LedgerTypeOK
  <2> QED BY <1>1, <1>2, <2>1, TableKept
<1>3. CASE rows' # rows
  <2> DEFINE i == sweep.id
  <2> DEFINE new == OL!Resolved(rows[i].kind, TRUE)
  <2>1. rows' = [rows EXCEPT ![i] = new]
    BY <1>3 DEF OL!SweepResolves
  <2>2. i \in OL!Ids
    BY <1>3, <2>1, TableShape DEF LedgerTable, OL!LedgerInv
  <2>3. new \in OL!Row /\ ~new.open /\ new.kind = rows[i].kind
    <3>1. rows[i].kind \in Kinds
      BY <2>2, TableShape DEF OL!Row, LedgerTable, OL!LedgerInv
    <3> QED BY <3>1 DEF OL!Resolved, OL!Fresh, OL!Row, OL!Evidence, OL!Owner
  <2> HIDE DEF new, i
  <2>4. rows' \in [1 .. Len(rows) -> OL!Row] /\ OL!Ids = 1 .. Len(rows)
        /\ \A j \in 1 .. Len(rows) : rows'[j] = IF j = i THEN new ELSE rows[j]
    BY <2>1, <2>2, <2>3, TableShape DEF LedgerTable, OL!LedgerInv
  <2>5. rows' \in Seq(OL!Row) /\ Len(rows') <= MaxRows /\ DOMAIN rows' = OL!Ids
    BY <2>4, TableShape, TableIs DEF LedgerTable, OL!LedgerInv
  <2>6. \A k \in Kinds : OL!OpenOf(k)' \subseteq OL!OpenOf(k)
    BY <2>3, <2>4, <2>5 DEF OL!OpenOf, OL!Ids
  <2>7. OL!HeadedRowAccepted'
    BY <2>3, <2>4, <2>5 DEF LedgerTable, OL!LedgerInv, OL!HeadedRowAccepted, OL!Ids, OL!ContinuationRefused
  <2>8. OL!LedgerTypeOK'
    BY <1>1, <2>5 DEF LedgerTable, OL!LedgerInv, OL!LedgerTypeOK
  <2> QED BY <1>1, <2>6, <2>7, <2>8 DEF LedgerTable, OL!LedgerInv, OL!OneOpenPerKey, OL!TwinsAreRead
<1> QED BY <1>2, <1>3

LEMMA DuplicatesGo == ASSUME OL!LedgerInv, OL!CloseDuplicates PROVE LedgerTable'
<1>1. /\ OL!Close(OL!Older(scan), FALSE) /\ ledgerRpc = "dups" /\ ledgerRpc' = "ask" /\ collapsed' = TRUE
      /\ UNCHANGED <<pr, producer, scan, view, debt, upserts>>
  BY DEF OL!CloseDuplicates
<1>2. /\ rows' \in Seq(OL!Row) /\ Len(rows') <= MaxRows /\ DOMAIN rows' = OL!Ids
      /\ sweep' \in OL!Preview \cup {NULL} /\ (sweep' = NULL <=> sweep = NULL)
      /\ \A i \in OL!Ids : rows'[i] = rows[i] \/ (~rows'[i].open /\ rows'[i].kind = rows[i].kind)
      /\ \A i \in OL!Ids : i \in OL!Older(scan) => ~rows'[i].open
  BY <1>1, CloseMoves DEF LedgerTable, OL!LedgerInv
<1>3. ASSUME NEW k \in Kinds, NEW i \in OL!OpenOf(k)', NEW j \in OL!OpenOf(k)', i < j  PROVE FALSE
  <2>1. i \in OL!OpenOf(k) /\ j \in OL!OpenOf(k) /\ rows'[i].open /\ i \in OL!Ids
    BY <1>2, <1>3 DEF OL!OpenOf, OL!Ids
  <2>2. i \in scan /\ j \in scan /\ rows[j].kind = rows[i].kind
    BY <1>1, <1>3, <2>1, TableShape DEF LedgerTable, OL!LedgerInv, OL!TwinsAreRead, OL!OpenOf
  <2> QED BY <1>2, <1>3, <2>1, <2>2 DEF OL!Older
<1>4. \A k \in Kinds : \A i, j \in OL!OpenOf(k)' : i = j
  <2>1. \A k \in Kinds : OL!OpenOf(k)' \subseteq Nat
    BY <1>2, TableShape DEF LedgerTable, OL!LedgerInv, OL!OpenOf, OL!Ids
  <2> QED BY <1>3, <2>1
<1>5. OL!OneOpenPerKey'
  BY <1>4 DEF OL!OneOpenPerKey
<1>6. OL!LedgerTypeOK'
  BY <1>1, <1>2 DEF LedgerTable, OL!LedgerInv, OL!LedgerTypeOK
<1>7. OL!HeadedRowAccepted' /\ OL!TwinsAreRead'
  BY <1>1, <1>5, ClosingKeeps
<1> QED BY <1>5, <1>6, <1>7 DEF LedgerTable, OL!LedgerInv

LEMMA ReadingKeeps == ASSUME OL!LedgerInv, OL!ReconcileReads PROVE LedgerTable'
<1>1. /\ scan' = {i \in OL!Ids : rows[i].open} /\ ledgerRpc' \in {"idle", "dups"} /\ view' = NULL
      /\ UNCHANGED <<rows, pr, sweep, producer, collapsed, debt, upserts>>
  BY DEF OL!ReconcileReads, OL!beside
<1>2. OL!LedgerTypeOK'
  BY <1>1, TableShape DEF LedgerTable, OL!LedgerInv, OL!LedgerTypeOK
<1>3. \A k \in Kinds : OL!OpenOf(k)' = OL!OpenOf(k) /\ OL!OpenOf(k) \subseteq scan'
  BY <1>1 DEF OL!OpenOf, OL!Ids
<1> QED BY <1>1, <1>2, <1>3 DEF LedgerTable, OL!LedgerInv, OL!HeadedRowAccepted, OL!OneOpenPerKey, OL!TwinsAreRead, OL!Ids,
   OL!ContinuationRefused

LEMMA TableGoes == OL!LedgerInv /\ [OL!LedgerNext]_ledgerVars => LedgerTable'
<1> SUFFICES ASSUME OL!LedgerInv, [OL!LedgerNext]_ledgerVars PROVE LedgerTable'
  OBVIOUS
<1> USE DEF OL!reconcile, OL!beside
<1>1. CASE UNCHANGED ledgerVars
  <2>1. OL!LedgerTypeOK'
    BY <1>1 DEF ledgerVars, LedgerTable, OL!LedgerInv, OL!LedgerTypeOK
  <2> QED BY <1>1, <2>1, TableKept DEF ledgerVars
<1>2. CASE OL!UpsertCommand
  <2>2. PICK k \in Kinds, ev \in OL!Evidence \cup {NULL}, who \in OL!Owner \cup {NULL}, claim \in BOOLEAN :
          OL!Upsert(k, ev, who, claim)
    BY <1>2, UpsertIsAsked
  <2>3. UNCHANGED <<pr, producer, ledgerRpc, scan, view, collapsed, debt>> /\ upserts' \in 0 .. MaxUpserts
    BY <1>2, LedgerAssumption DEF OL!UpsertCommand, LedgerTable, OL!LedgerInv, OL!LedgerTypeOK
  <2>4. /\ rows' \in Seq(OL!Row) /\ Len(rows') <= MaxRows /\ sweep' \in OL!Preview \cup {NULL}
        /\ OL!HeadedRowAccepted' /\ OL!OneOpenPerKey' /\ OL!TwinsAreRead'
    BY <2>2, <2>3, UpsertingKeeps
  <2> QED BY <2>3, <2>4 DEF LedgerTable, OL!LedgerInv, OL!LedgerTypeOK
<1>3. CASE OL!ProducerFiles
  <2>1. producer' = NULL /\ UNCHANGED <<pr, ledgerRpc, scan, view, collapsed, debt, upserts>>
    BY <1>3 DEF OL!ProducerFiles
  <2>2. CASE UNCHANGED <<rows, sweep>>
    <3>1. OL!LedgerTypeOK'
      BY <2>1, <2>2 DEF LedgerTable, OL!LedgerInv, OL!LedgerTypeOK
    <3> QED BY <2>1, <2>2, <3>1, TableKept
  <2>3. CASE ~UNCHANGED <<rows, sweep>>
    <3>1. producer \in Kinds /\ OL!Upsert(producer, "no_head", "slot", FALSE)
      BY <1>3, <2>3 DEF OL!ProducerFiles, LedgerTable, OL!LedgerInv, OL!LedgerTypeOK
    <3>2. /\ rows' \in Seq(OL!Row) /\ Len(rows') <= MaxRows /\ sweep' \in OL!Preview \cup {NULL}
          /\ OL!HeadedRowAccepted' /\ OL!OneOpenPerKey' /\ OL!TwinsAreRead'
      BY <2>1, <3>1, UpsertingKeeps DEF OL!Evidence, OL!Owner
    <3> QED BY <2>1, <3>2 DEF LedgerTable, OL!LedgerInv, OL!LedgerTypeOK
  <2> QED BY <2>2, <2>3
<1>4. CASE OL!SweepResolves
  BY <1>4, SweepKeeps
<1>5. ASSUME NEW k \in Kinds, OL!ProducerLooks(k) PROVE LedgerTable'
  <2>1. producer' = k /\ UNCHANGED <<rows, pr, sweep, ledgerRpc, scan, view, collapsed, debt, upserts>>
    BY <1>5 DEF OL!ProducerLooks
  <2>2. OL!LedgerTypeOK'
    BY <2>1 DEF LedgerTable, OL!LedgerInv, OL!LedgerTypeOK
  <2> QED BY <2>1, <2>2, TableKept
<1>6. ASSUME NEW closing, NEW typed \in BOOLEAN, OL!Close(closing, typed),
             UNCHANGED <<pr, producer, collapsed, upserts>>, debt' \in {"handed", "none", debt},
             \/ UNCHANGED <<ledgerRpc, scan, view>>
             \/ ledgerRpc' \in {"idle", "hand"} /\ scan' \in {scan, {}} /\ view' \in {view, NULL}
      PROVE LedgerTable'
  <2>1. OL!HeadedRowAccepted' /\ OL!OneOpenPerKey' /\ OL!TwinsAreRead'
    BY <1>6, ClosingKeeps
  <2>2. /\ rows' \in Seq(OL!Row) /\ Len(rows') <= MaxRows /\ sweep' \in OL!Preview \cup {NULL}
    BY <1>6, CloseMoves DEF LedgerTable, OL!LedgerInv
  <2>3. OL!LedgerTypeOK'
    BY <1>6, <2>2 DEF LedgerTable, OL!LedgerInv, OL!LedgerTypeOK
  <2> QED BY <2>1, <2>3 DEF LedgerTable, OL!LedgerInv
<1>7. ASSUME NEW k \in Kinds, OL!ResolveKey(k) PROVE LedgerTable'
  BY <1>6, <1>7 DEF OL!ResolveKey, OL!CloseAsked
<1>8. ASSUME NEW k \in Kinds \cup {NULL}, OL!ResolveTarget(k) PROVE LedgerTable'
  BY <1>6, <1>8 DEF OL!ResolveTarget, OL!CloseAsked
<1>9. ASSUME NEW i \in OL!Ids, NEW k \in Kinds, OL!ResolveId(i, k) PROVE LedgerTable'
  BY <1>6, <1>9 DEF OL!ResolveId, OL!CloseAsked
<1>10. CASE OL!CloseTerminal
  <2>1. PICK closing \in OL!Terminal(view) : OL!Close(closing, FALSE)
    BY <1>10 DEF OL!CloseTerminal
  <2>2. UNCHANGED <<pr, producer, collapsed, upserts>> /\ debt' \in {"handed", "none", debt} /\ ledgerRpc' \in {"idle", "hand"} /\ scan' \in {scan, {}} /\ view' \in {view, NULL}
    BY <1>10 DEF OL!CloseTerminal, OL!PassEnds
  <2> QED BY <1>6, <2>1, <2>2
<1>11. ASSUME NEW i \in OL!Ids, OL!ClaimExpires(i) PROVE LedgerTable'
  BY <1>11, UnclaimedKeeps
<1>12. ASSUME NEW i \in OL!Ids, OL!SweepReads(i) PROVE LedgerTable'
  <2>1. sweep' = [id |-> i, ev |-> rows[i].ev, at |-> TRUE]
        /\ UNCHANGED <<rows, pr, producer, ledgerRpc, scan, view, collapsed, debt, upserts>>
    BY <1>12 DEF OL!SweepReads
  <2>2. sweep' \in OL!Preview
    BY <2>1, TableShape DEF LedgerTable, OL!LedgerInv, OL!Preview, OL!Row
  <2>3. OL!LedgerTypeOK'
    BY <2>1, <2>2 DEF LedgerTable, OL!LedgerInv, OL!LedgerTypeOK
  <2> QED BY <2>1, <2>3, TableKept
<1>13. CASE OL!ReconcileReads
  BY <1>13, ReadingKeeps
<1>14. CASE OL!CloseDuplicates
  BY <1>14, DuplicatesGo
<1>15. CASE OL!AskGitHub \/ OL!CleanupCheck \/ OL!PassDies \/ OL!PRMoves
  <2>1. /\ UNCHANGED <<rows, sweep, producer, collapsed, upserts>> /\ debt' \in {"none", debt}
        /\ ledgerRpc' \in {"idle", "close", "file", ledgerRpc} /\ scan' \in {scan, {}}
        /\ ledgerRpc' = "dups" => ledgerRpc = "dups" /\ scan' = scan
        /\ view' \in {view, pr, NULL} /\ pr' \in {pr, "open", "merged", "closed", "clean"}
    BY <1>15 DEF OL!AskGitHub, OL!CleanupCheck, OL!PassDies, OL!PRMoves, OL!PassEnds
  <2>2. OL!LedgerTypeOK'
    BY <2>1 DEF LedgerTable, OL!LedgerInv, OL!LedgerTypeOK
  <2> QED BY <2>1, <2>2, TableKept
<1>16. CASE OL!CleanupFile
  <2>1. /\ OL!Upsert("cleanup_pr", "no_head", "slot", FALSE)
        /\ ledgerRpc' = "idle" /\ scan' = {} /\ view' = NULL /\ UNCHANGED <<pr, producer, collapsed, debt, upserts>>
    BY <1>16 DEF OL!CleanupFile, OL!PassEnds
  <2>2. /\ rows' \in Seq(OL!Row) /\ Len(rows') <= MaxRows /\ sweep' \in OL!Preview \cup {NULL}
        /\ OL!HeadedRowAccepted' /\ OL!OneOpenPerKey' /\ OL!TwinsAreRead'
    BY <2>1, UpsertingKeeps, LedgerAssumption DEF OL!Evidence, OL!Owner
  <2> QED BY <2>1, <2>2 DEF LedgerTable, OL!LedgerInv, OL!LedgerTypeOK
<1> QED BY <1>1, <1>2, <1>3, <1>4, <1>5, <1>7, <1>8, <1>9, <1>10, <1>11, <1>12, <1>13, <1>14, <1>15, <1>16
        DEF OL!LedgerNext

(* ------------------------- the debt of the cleanup ---------------------- *)

(* A set of row ids that is not empty has a newest one.                     *)
LEMMA NewestIs == ASSUME NEW S, S \subseteq 1 .. MaxRows, S # {}
                  PROVE  \E m \in S : \A i \in S : i <= m
<1> DEFINE R == OpToRel(<, Nat)
           D == {d \in Nat : \E i \in S : d = MaxRows - i}
<1>1. IsWellFoundedOn(R, Nat)
  BY NatLessThanWellFounded
<1>2. D \subseteq Nat /\ D # {}
  <2>1. PICK i \in S : TRUE
    OBVIOUS
  <2>2. MaxRows - i \in D
    BY <2>1, LedgerAssumption
  <2> QED BY <2>2
<1>3. \E x \in D : \A y \in D : ~(<<y, x>> \in R)
  <2> HIDE DEF R, D
  <2> QED BY <1>1, <1>2, WFMin
<1>4. PICK x \in D : \A y \in D : ~(y < x)
  BY <1>2, <1>3 DEF OpToRel
<1>5. PICK m \in S : x = MaxRows - m
  BY <1>4
<1>6. ASSUME NEW i \in S PROVE i <= m
  <2>1. MaxRows - i \in D /\ m \in Nat /\ i \in Nat
    BY LedgerAssumption
  <2>2. ~(MaxRows - i < x)
    BY <1>4, <2>1
  <2> QED BY <1>5, <2>1, <2>2, LedgerAssumption
<1> QED BY <1>6

(* No row is taken out, and a closed one stays as it is.                    *)
RowsStay == \A i \in OL!Ids : /\ i \in DOMAIN rows' /\ rows'[i].kind = rows[i].kind
                              /\ (~rows[i].open => rows'[i] = rows[i])
(* An open debt of a cleanup stays open.                                    *)
DebtsStay == \A i \in OL!Ids : rows[i].open /\ rows[i].kind = "cleanup_pr" => rows'[i].open

LEMMA PaidStays == ASSUME RowsStay, OL!Paid PROVE OL!Paid'
BY DEF RowsStay, OL!Paid, OL!Ids

LEMMA OpenDebtsStay ==
  ASSUME RowsStay, DebtsStay
  PROVE  OL!OpenOf("cleanup_pr") # {} => OL!OpenOf("cleanup_pr")' # {}
BY DEF RowsStay, DebtsStay, OL!OpenOf, OL!Ids

(* A step beside the reconciliation that settles no debt.                   *)
LEMMA BesideKeeps ==
  ASSUME OL!LedgerInv, RowsStay, debt = "handed" /\ debt' = "handed" => DebtsStay,
         UNCHANGED <<pr, ledgerRpc, scan, view>>, debt' \in {debt, "none"}, debt = "none" => debt' = "none"
  PROVE  OL!DebtIsCurrent' /\ OL!HandoffKept'
<1>1. scan \subseteq OL!RowId
  BY DEF OL!LedgerInv, OL!LedgerTypeOK
<1>2. OL!DebtIsCurrent'
  <2>1. ASSUME debt' = "handed", ledgerRpc = "dups", NEW i \in scan, TRUE
        PROVE  i \in OL!Ids' /\ (rows'[i].kind = "cleanup_pr" => rows'[i].open)
    <3>1. debt = "handed" /\ DebtsStay
      BY <2>1
    <3>2. i \in OL!Ids /\ (rows[i].kind = "cleanup_pr" => rows[i].open)
      BY <2>1, <3>1 DEF OL!LedgerInv, OL!DebtIsCurrent
    <3> QED BY <3>1, <3>2 DEF DebtsStay, RowsStay, OL!Ids
  <2> QED BY <2>1 DEF OL!LedgerInv, OL!DebtIsCurrent
<1>3. OL!HandoffKept'
  BY PaidStays, OpenDebtsStay DEF OL!LedgerInv, OL!HandoffKept
<1> QED BY <1>2, <1>3

(* A command that closes rows marks the debt of the cleanup as asked for.   *)
LEMMA AskedKeeps ==
  ASSUME OL!LedgerInv, NEW closing, closing \subseteq OL!Ids, NEW typed \in BOOLEAN,
         OL!CloseAsked(closing, typed), UNCHANGED <<pr, ledgerRpc, scan, view>>
  PROVE  OL!DebtIsCurrent' /\ OL!HandoffKept'
<1>1. /\ OL!Close(closing, typed)
      /\ debt' = IF debt = "handed" /\ \E i \in closing : rows[i].open /\ rows[i].kind = "cleanup_pr"
                 THEN "none" ELSE debt
  BY DEF OL!CloseAsked
<1>2. /\ DOMAIN rows' = OL!Ids
      /\ \A i \in OL!Ids : rows'[i] = rows[i] \/ (~rows'[i].open /\ rows'[i].kind = rows[i].kind)
      /\ \A i \in OL!Ids : i \notin closing \/ ~rows[i].open => rows'[i] = rows[i]
  BY <1>1, CloseMoves DEF OL!LedgerInv
<1>3. RowsStay
  BY <1>2 DEF RowsStay
<1>4. debt = "handed" /\ debt' = "handed" => DebtsStay
  BY <1>1, <1>2 DEF DebtsStay
<1> QED BY <1>1, <1>3, <1>4, BesideKeeps

(* So does the sweep.                                                       *)
LEMMA SweepAsks == ASSUME OL!LedgerInv, OL!SweepResolves PROVE OL!DebtIsCurrent' /\ OL!HandoffKept'
<1> DEFINE i == sweep.id
           closes == rows[i].open /\ ~rows[i].claimed /\ ~OL!SweepChanged
<1>1. /\ rows' = (IF closes THEN [rows EXCEPT ![i] = OL!Resolved(rows[i].kind, TRUE)] ELSE rows)
      /\ debt' = (IF debt = "handed" /\ closes /\ rows[i].kind = "cleanup_pr" THEN "none" ELSE debt)
      /\ UNCHANGED <<pr, ledgerRpc, scan, view>>
  BY DEF OL!SweepResolves, OL!reconcile
<1>2. OL!Ids = 1 .. Len(rows) /\ rows \in [1 .. Len(rows) -> OL!Row]
  BY TableShape DEF OL!LedgerInv
<1>3. OL!Resolved(rows[i].kind, TRUE).kind = rows[i].kind /\ ~OL!Resolved(rows[i].kind, TRUE).open
  BY DEF OL!Resolved, OL!Fresh
<1> HIDE DEF i
<1>4. \A j \in OL!Ids : /\ j \in DOMAIN rows' /\ rows'[j].kind = rows[j].kind
                        /\ (rows'[j] # rows[j] => j = i /\ closes)
  BY <1>1, <1>2, <1>3
<1>5. RowsStay
  BY <1>4 DEF RowsStay
<1>6. debt = "handed" /\ debt' = "handed" => DebtsStay
  BY <1>1, <1>4 DEF DebtsStay
<1> HIDE DEF closes
<1>7. debt' \in {debt, "none"} /\ (debt = "none" => debt' = "none")
  BY <1>1
<1> QED BY <1>1, <1>5, <1>6, <1>7, BesideKeeps

(* Of the duplicates the newest stays.                                      *)
LEMMA NewestStays == ASSUME OL!LedgerInv, OL!CloseDuplicates PROVE OL!DebtIsCurrent' /\ OL!HandoffKept'
<1>1. /\ OL!Close(OL!Older(scan), FALSE) /\ ledgerRpc = "dups" /\ ledgerRpc' = "ask"
      /\ UNCHANGED <<pr, scan, view, debt>>
  BY DEF OL!CloseDuplicates
<1>2. /\ DOMAIN rows' = OL!Ids
      /\ \A i \in OL!Ids : rows'[i] = rows[i] \/ (~rows'[i].open /\ rows'[i].kind = rows[i].kind)
      /\ \A i \in OL!Ids : i \notin OL!Older(scan) \/ ~rows[i].open => rows'[i] = rows[i]
  BY <1>1, CloseMoves DEF OL!LedgerInv
<1>3. RowsStay
  BY <1>2 DEF RowsStay
<1>4. OL!DebtIsCurrent'
  BY <1>1 DEF OL!LedgerInv, OL!DebtIsCurrent
<1>5. ASSUME debt = "handed", OL!OpenOf("cleanup_pr") # {} PROVE OL!OpenOf("cleanup_pr")' # {}
  <2>1. OL!OpenOf("cleanup_pr") \subseteq 1 .. MaxRows
    BY TableShape DEF OL!LedgerInv, OL!OpenOf, OL!RowId
  <2>2. PICK m \in OL!OpenOf("cleanup_pr") : \A i \in OL!OpenOf("cleanup_pr") : i <= m
    BY <1>5, <2>1, NewestIs
  <2>3. m \in OL!Ids /\ rows[m].open /\ rows[m].kind = "cleanup_pr"
    BY <2>2 DEF OL!OpenOf
  <2>4. m \notin OL!Older(scan)
    <3> SUFFICES ASSUME NEW j \in scan, j > m, rows[j].kind = rows[m].kind PROVE FALSE
      BY DEF OL!Older
    <3>1. j \in OL!OpenOf("cleanup_pr")
      BY <1>1, <1>5, <2>3 DEF OL!LedgerInv, OL!DebtIsCurrent, OL!OpenOf
    <3>2. j <= m /\ j \in Nat /\ m \in Nat
      BY <2>1, <2>2, <3>1
    <3> QED BY <3>2
  <2>5. rows'[m] = rows[m] /\ m \in DOMAIN rows'
    BY <1>2, <2>3, <2>4
  <2> QED BY <2>3, <2>5 DEF OL!OpenOf, OL!Ids
<1>6. OL!HandoffKept'
  BY <1>1, <1>3, <1>5, PaidStays DEF OL!LedgerInv, OL!HandoffKept
<1> QED BY <1>4, <1>6

(* A pass that closes the rows of a merged pull request owes its cleanup.   *)
LEMMA ClosingOwes == ASSUME OL!LedgerInv, OL!CloseTerminal PROVE OL!DebtIsCurrent' /\ OL!HandoffKept'
<1>1. ledgerRpc = "close" /\ UNCHANGED pr
  BY DEF OL!CloseTerminal
<1>2. CASE view = "merged"
  <2>1. ledgerRpc' = "hand" /\ debt' = "handed" /\ UNCHANGED view
    BY <1>2 DEF OL!CloseTerminal
  <2>2. pr \in {"merged", "clean"}
    BY <1>2 DEF OL!LedgerInv, OL!DebtIsCurrent
  <2> QED BY <1>1, <1>2, <2>1, <2>2 DEF OL!DebtIsCurrent, OL!HandoffKept
<1>3. CASE view # "merged"
  <2>1. ledgerRpc' = "idle" /\ view' = NULL /\ UNCHANGED debt
    BY <1>3 DEF OL!CloseTerminal, OL!PassEnds
  <2>2. ~(debt = "handed" /\ pr = "merged")
    BY <1>1, <1>3 DEF OL!LedgerInv, OL!DebtIsCurrent
  <2>3. NULL \notin {"merged", "clean"}
    BY LedgerAssumption
  <2> QED BY <1>1, <2>1, <2>2, <2>3 DEF OL!LedgerInv, OL!DebtIsCurrent, OL!HandoffKept
<1> QED BY <1>2, <1>3

(* The other steps of a pass, its death, and GitHub leave the table alone.  *)
LEMMA DebtRests ==
  ASSUME OL!LedgerInv, OL!ReconcileReads \/ OL!AskGitHub \/ OL!CleanupCheck \/ OL!PassDies \/ OL!PRMoves
  PROVE  OL!DebtIsCurrent' /\ OL!HandoffKept'
<1>1. NULL \notin {"merged", "clean"}
  BY LedgerAssumption
<1>2. UNCHANGED rows
  BY DEF OL!ReconcileReads, OL!AskGitHub, OL!CleanupCheck, OL!PassDies, OL!PRMoves
<1>3. (OL!OpenOf("cleanup_pr") # {})' = (OL!OpenOf("cleanup_pr") # {}) /\ OL!Paid' = OL!Paid /\ OL!Ids' = OL!Ids
  BY <1>2 DEF OL!OpenOf, OL!Ids, OL!Paid
<1> USE DEF OL!reconcile, OL!beside, OL!PassEnds
<1>4. CASE OL!ReconcileReads
  <2>1. /\ scan' = {i \in OL!Ids : rows[i].open} /\ ledgerRpc = "idle" /\ ledgerRpc' \in {"idle", "dups"}
        /\ view' = NULL /\ UNCHANGED <<pr, debt>>
    BY <1>4 DEF OL!ReconcileReads
  <2>2. OL!HandoffKept'
    BY <1>3, <2>1 DEF OL!LedgerInv, OL!HandoffKept
  <2>3. OL!DebtIsCurrent'
    BY <1>1, <1>2, <1>3, <2>1 DEF OL!LedgerInv, OL!DebtIsCurrent
  <2> QED BY <2>2, <2>3
<1>5. CASE OL!AskGitHub
  <2>1. /\ ledgerRpc = "ask" /\ ledgerRpc' \in {"idle", "close"} /\ UNCHANGED <<pr, debt>>
        /\ view' = pr \/ (ledgerRpc' = "idle" /\ view' = NULL)
    BY <1>5 DEF OL!AskGitHub
  <2> QED BY <1>1, <1>3, <2>1 DEF OL!LedgerInv, OL!DebtIsCurrent, OL!HandoffKept
<1>6. CASE OL!CleanupCheck
  <2>1. /\ ledgerRpc = "hand" /\ UNCHANGED <<pr, debt>>
        /\ \/ OL!TypedResolution("cleanup_pr") /\ ledgerRpc' = "idle" /\ view' = NULL
           \/ ledgerRpc' = "file" /\ view' = view
    BY <1>6 DEF OL!CleanupCheck
  <2>2. OL!TypedResolution("cleanup_pr") => OL!Paid
    BY DEF OL!TypedResolution, OL!Paid
  <2> QED BY <1>1, <1>3, <2>1, <2>2 DEF OL!LedgerInv, OL!DebtIsCurrent, OL!HandoffKept
<1>7. CASE OL!PassDies
  <2>1. /\ ledgerRpc' = "idle" /\ view' = NULL /\ UNCHANGED pr
        /\ debt' = IF ledgerRpc \in {"hand", "file"} THEN "none" ELSE debt
    BY <1>7 DEF OL!PassDies
  <2>2. debt' # "none" => pr \in {"merged", "clean"}
    BY <2>1 DEF OL!LedgerInv, OL!DebtIsCurrent
  <2>3. OL!DebtIsCurrent'
    BY <1>1, <2>1, <2>2 DEF OL!DebtIsCurrent
  <2>4. OL!HandoffKept'
    BY <1>3, <2>1 DEF OL!LedgerInv, OL!HandoffKept
  <2> QED BY <2>3, <2>4
<1>8. CASE OL!PRMoves
  <2>1. /\ UNCHANGED <<scan, ledgerRpc, view, debt>>
        /\ \/ pr = "open" /\ pr' \in {"merged", "closed"}
           \/ pr = "closed" /\ pr' = "open"
           \/ pr = "merged" /\ pr' = "clean"
    BY <1>8 DEF OL!PRMoves
  <2> QED BY <1>2, <1>3, <2>1 DEF OL!LedgerInv, OL!DebtIsCurrent, OL!HandoffKept
<1> QED BY <1>4, <1>5, <1>6, <1>7, <1>8

LEMMA UpsertKeepsDebt ==
  ASSUME OL!LedgerInv, NEW k \in Kinds, NEW ev \in OL!Evidence \cup {NULL}, NEW who \in OL!Owner \cup {NULL},
         NEW claim \in BOOLEAN, OL!Upsert(k, ev, who, claim)
  PROVE  RowsStay /\ DebtsStay
<1>1. OL!LedgerTypeOK /\ OL!HeadedRowAccepted
  BY DEF OL!LedgerInv
<1>2. \A i \in OL!Ids : /\ i \in DOMAIN rows' /\ rows'[i].kind = rows[i].kind
                        /\ rows'[i].open = rows[i].open
                        /\ (~rows[i].open => rows'[i] = rows[i])
  BY <1>1, UpsertMoves
<1> QED BY <1>2 DEF RowsStay, DebtsStay

LEMMA DebtGoes == OL!LedgerInv /\ [OL!LedgerNext]_ledgerVars => OL!DebtIsCurrent' /\ OL!HandoffKept'
<1> SUFFICES ASSUME OL!LedgerInv, [OL!LedgerNext]_ledgerVars PROVE OL!DebtIsCurrent' /\ OL!HandoffKept'
  OBVIOUS
<1> USE DEF OL!reconcile, OL!beside
<1>0. UNCHANGED rows => RowsStay /\ DebtsStay
  BY DEF RowsStay, DebtsStay, OL!Ids
<1>1. ASSUME RowsStay, DebtsStay, UNCHANGED <<pr, ledgerRpc, scan, view, debt>>
      PROVE  OL!DebtIsCurrent' /\ OL!HandoffKept'
  BY <1>1, BesideKeeps
<1>2. CASE UNCHANGED ledgerVars
  BY <1>0, <1>1, <1>2 DEF ledgerVars
<1>3. CASE OL!UpsertCommand
  <2>1. PICK k \in Kinds, ev \in OL!Evidence \cup {NULL}, who \in OL!Owner \cup {NULL}, claim \in BOOLEAN :
           OL!Upsert(k, ev, who, claim)
    BY <1>3, UpsertIsAsked
  <2>2. RowsStay /\ DebtsStay
    BY <2>1, UpsertKeepsDebt
  <2> QED BY <1>1, <1>3, <2>2 DEF OL!UpsertCommand
<1>4. CASE OL!ProducerFiles
  <2>1. RowsStay /\ DebtsStay
    <3>1. CASE UNCHANGED rows
      BY <1>0, <3>1
    <3>2. CASE ~UNCHANGED rows
      <4>1. producer \in Kinds /\ OL!Upsert(producer, "no_head", "slot", FALSE)
        BY <1>4, <3>2 DEF OL!ProducerFiles, OL!LedgerInv, OL!LedgerTypeOK
      <4>2. "no_head" \in OL!Evidence \cup {NULL} /\ "slot" \in OL!Owner \cup {NULL}
        BY DEF OL!Evidence, OL!Owner
      <4> QED BY <4>1, <4>2, UpsertKeepsDebt
    <3> QED BY <3>1, <3>2
  <2> QED BY <1>1, <1>4, <2>1 DEF OL!ProducerFiles
<1>5. CASE OL!SweepResolves
  BY <1>5, SweepAsks
<1>6. ASSUME NEW k \in Kinds, OL!ProducerLooks(k) PROVE OL!DebtIsCurrent' /\ OL!HandoffKept'
  BY <1>0, <1>1, <1>6 DEF OL!ProducerLooks
<1>7. ASSUME NEW k \in Kinds, OL!ResolveKey(k) PROVE OL!DebtIsCurrent' /\ OL!HandoffKept'
  <2>1. PICK closing : closing = OL!OpenOf(k) /\ closing \subseteq OL!Ids
    BY DEF OL!OpenOf
  <2> QED BY <1>7, <2>1, AskedKeeps DEF OL!ResolveKey
<1>8. ASSUME NEW k \in Kinds \cup {NULL}, OL!ResolveTarget(k) PROVE OL!DebtIsCurrent' /\ OL!HandoffKept'
  <2>1. PICK closing : closing = {i \in OL!Ids : k \in {NULL, rows[i].kind}} /\ closing \subseteq OL!Ids
    OBVIOUS
  <2> QED BY <1>8, <2>1, AskedKeeps DEF OL!ResolveTarget
<1>9. ASSUME NEW i \in OL!Ids, NEW k \in Kinds, OL!ResolveId(i, k) PROVE OL!DebtIsCurrent' /\ OL!HandoffKept'
  <2>1. {i} \subseteq OL!Ids
    OBVIOUS
  <2> QED BY <1>9, <2>1, AskedKeeps DEF OL!ResolveId
<1>10. ASSUME NEW i \in OL!Ids, OL!ClaimExpires(i) PROVE OL!DebtIsCurrent' /\ OL!HandoffKept'
  <2>1. rows' = [rows EXCEPT ![i] = [rows[i] EXCEPT !.claimed = FALSE]]
        /\ UNCHANGED <<pr, ledgerRpc, scan, view, debt>>
    BY <1>10 DEF OL!ClaimExpires
  <2>2. OL!Ids = 1 .. Len(rows) /\ rows \in [1 .. Len(rows) -> OL!Row] /\ rows[i] \in OL!Row
    BY TableShape DEF OL!LedgerInv
  <2>3. \A j \in OL!Ids : j \in DOMAIN rows' /\ (j # i => rows'[j] = rows[j])
    BY <2>1, <2>2
  <2>4. rows'[i].kind = rows[i].kind /\ rows'[i].open = rows[i].open /\ rows'[i].typed = rows[i].typed
    BY <2>1, <2>2 DEF OL!Row
  <2>5. OL!OpenOf("cleanup_pr")' = OL!OpenOf("cleanup_pr") /\ OL!Ids' = OL!Ids /\ OL!Paid' = OL!Paid
        /\ \A j \in OL!Ids : rows'[j].kind = rows[j].kind /\ rows'[j].open = rows[j].open
    BY <2>1, <2>2, <2>3, <2>4 DEF OL!OpenOf, OL!Paid, OL!Ids
  <2> QED BY <2>1, <2>5 DEF OL!LedgerInv, OL!DebtIsCurrent, OL!HandoffKept
<1>11. ASSUME NEW i \in OL!Ids, OL!SweepReads(i) PROVE OL!DebtIsCurrent' /\ OL!HandoffKept'
  BY <1>0, <1>1, <1>11 DEF OL!SweepReads
<1>12. CASE OL!CloseDuplicates
  BY <1>12, NewestStays
<1>13. CASE OL!CloseTerminal
  BY <1>13, ClosingOwes
<1>14. CASE OL!ReconcileReads \/ OL!AskGitHub \/ OL!CleanupCheck \/ OL!PassDies \/ OL!PRMoves
  BY <1>14, DebtRests
<1>15. CASE OL!CleanupFile
  <2>1. OL!LedgerTypeOK /\ OL!HeadedRowAccepted /\ OL!Upsert("cleanup_pr", "no_head", "slot", FALSE)
        /\ "no_head" \in OL!Evidence /\ "slot" \in OL!Owner
    BY <1>15 DEF OL!CleanupFile, OL!LedgerInv, OL!Evidence, OL!Owner
  <2>2. \E i \in DOMAIN rows' : rows'[i].open /\ rows'[i].kind = "cleanup_pr"
    BY <2>1, UpsertMoves, LedgerAssumption
  <2>3. OL!OpenOf("cleanup_pr")' # {}
    BY <2>2 DEF OL!OpenOf, OL!Ids
  <2>4. ledgerRpc' = "idle" /\ view' = NULL /\ UNCHANGED <<pr, debt>> /\ NULL \notin {"merged", "clean"}
    BY <1>15, LedgerAssumption DEF OL!CleanupFile, OL!PassEnds
  <2> QED BY <2>3, <2>4 DEF OL!LedgerInv, OL!DebtIsCurrent, OL!HandoffKept
<1> QED BY <1>2, <1>3, <1>4, <1>5, <1>6, <1>7, <1>8, <1>9, <1>10, <1>11, <1>12, <1>13, <1>14, <1>15
        DEF OL!LedgerNext

LEMMA LedgerGoes == OL!LedgerInv /\ [OL!LedgerNext]_ledgerVars => OL!LedgerInv'
BY TableGoes, DebtGoes DEF LedgerTable, OL!LedgerInv

LEMMA HandoffRests == OL!LedgerInv => OL!HandoffKept
BY DEF OL!LedgerInv

-----------------------------------------------------------------------------
(* The transition packets (TransitionPackets).                              *)

LEMMA PacketStarts == TP!PacketInit => TP!PacketInv
BY PacketAssumption DEF TP!PacketInit, TP!PacketInv, TP!PacketTypeOK, TP!ConsumedIsDated, TP!PacketStatus

LEMMA PacketGoes == TP!PacketInv /\ [TP!PacketNext]_packetVars => TP!PacketInv'
<1> SUFFICES ASSUME TP!PacketInv, [TP!PacketNext]_packetVars PROVE TP!PacketInv'
  OBVIOUS
<1> USE PacketAssumption DEF TP!PacketInv, TP!PacketTypeOK, TP!ConsumedIsDated, TP!PacketStatus, TP!At
<1>1. CASE UNCHANGED packetVars
  BY <1>1 DEF packetVars
<1>2. ASSUME NEW c \in Command, TP!PacketStart(c) PROVE TP!PacketInv'
  BY <1>2 DEF TP!PacketStart
<1>3. ASSUME NEW c \in Command, TP!PacketRead(c) PROVE TP!PacketInv'
  BY <1>3 DEF TP!PacketRead
<1>4. ASSUME NEW c \in Command, TP!PacketWrite(c) PROVE TP!PacketInv'
  BY <1>4 DEF TP!PacketWrite, TP!Written, TP!AskedStatus
<1>5. ASSUME NEW c \in Command, TP!PacketSet(c) PROVE TP!PacketInv'
  BY <1>5 DEF TP!PacketSet
<1> QED BY <1>1, <1>2, <1>3, <1>4, <1>5 DEF TP!PacketNext

-----------------------------------------------------------------------------
(* The programs together: each behaviour is one of them, which keeps its    *)
(* own invariant.                                                           *)

HostInv ==
    /\ program \in Programs
    /\ program = "install" => RC!CutoverInv
    /\ program = "assets" => SA!SharedInv
    /\ program = "retire" => RT!RetireInv
    /\ program = "cleanup" => PC!CleanInv
    /\ program = "broker" => CB!BrokerInv
    /\ program = "streaks" => CS!StreakInv
    /\ program = "scans" => SC!ScansInv
    /\ program = "capacity" => CA!CapInv
    /\ program = "audit" => OA!AuditInv
    /\ program = "snapshot" => SN!SnapInv
    /\ program = "sessions" => AG!AgeInv
    /\ program = "stop" => SG!StopInv
    /\ program = "ledger" => OL!LedgerInv
    /\ program = "packet" => TP!PacketInv

LEMMA HostStarts == HostProgramsInit => HostInv
BY CutoverStarts, SharedStarts, RetireStarts, CleanStarts, BrokerStarts, StreakStarts, ScansStart, CapStarts,
   AuditStarts, SnapStarts, AgeStarts, StopStarts, LedgerStarts, PacketStarts DEF HostProgramsInit, HostInv

(* A step is a step of the program that runs, or none of its variables move. *)
LEMMA ItsOwnStep ==
  ASSUME [HostProgramsNext]_hostProgramsVars
  PROVE  /\ program' = program
         /\ program = "install" => [RC!CutoverNext]_installVars
         /\ program = "assets" => [SA!SharedNext]_assetsVars
         /\ program = "retire" => [RT!RetireNext]_retireVars
         /\ program = "cleanup" => [PC!CleanNext]_cleanupVars
         /\ program = "broker" => [CB!BrokerNext]_brokerVars
         /\ program = "streaks" => [CS!StreakNext]_streaksVars
         /\ program = "scans" => [SC!ScansNext]_scansVars
         /\ program = "capacity" => [CA!CapNext]_capacityVars
         /\ program = "audit" => [OA!AuditNext]_auditVars
         /\ program = "snapshot" => [SN!SnapNext]_snapshotVars
         /\ program = "sessions" => [AG!SessionNext]_sessionsVars
         /\ program = "stop" => [SG!StopNext]_stopVars
         /\ program = "ledger" => [OL!LedgerNext]_ledgerVars
         /\ program = "packet" => [TP!PacketNext]_packetVars
BY DEF HostProgramsNext, hostProgramsVars

LEMMA HostGoes == HostInv /\ [HostProgramsNext]_hostProgramsVars => HostInv'
<1> SUFFICES ASSUME HostInv, [HostProgramsNext]_hostProgramsVars PROVE HostInv'
  OBVIOUS
<1>1. program' = program /\ program \in Programs
  BY ItsOwnStep DEF HostInv
<1>2. /\ program = "install" => RC!CutoverInv'
      /\ program = "assets" => SA!SharedInv'
      /\ program = "retire" => RT!RetireInv'
  BY ItsOwnStep, CutoverGoes, SharedGoes, RetireGoes DEF HostInv
<1>3. /\ program = "cleanup" => PC!CleanInv'
      /\ program = "broker" => CB!BrokerInv'
      /\ program = "streaks" => CS!StreakInv'
      /\ program = "scans" => SC!ScansInv'
  BY ItsOwnStep, CleanGoes, BrokerGoes, StreakGoes, ScansGo DEF HostInv
<1>4. /\ program = "capacity" => CA!CapInv'
      /\ program = "audit" => OA!AuditInv'
      /\ program = "snapshot" => SN!SnapInv'
      /\ program = "sessions" => AG!AgeInv'
  BY ItsOwnStep, CapGoes, AuditGoes, SnapGoes, AgeGoes DEF HostInv
<1>5. /\ program = "stop" => SG!StopInv'
      /\ program = "ledger" => OL!LedgerInv'
      /\ program = "packet" => TP!PacketInv'
  BY ItsOwnStep, StopGoes, LedgerGoes, PacketGoes DEF HostInv
<1> QED BY <1>1, <1>2, <1>3, <1>4, <1>5 DEF HostInv

LEMMA HostAlways == HostProgramsSpec => []HostInv
<1>1. HostProgramsInit => HostInv
  BY HostStarts
<1>2. HostInv /\ [HostProgramsNext]_hostProgramsVars => HostInv'
  BY HostGoes
<1> QED BY <1>1, <1>2, PTL DEF HostProgramsSpec

(* The variables of the program that runs hold values of their types.       *)
THEOREM HostTypes == HostProgramsSpec => []HostTypeOK
<1>1. HostInv => HostTypeOK
  <2> SUFFICES ASSUME HostInv PROVE HostTypeOK
    OBVIOUS
  <2>1. CASE program = "install"
    <3>1. RC!CutoverTypeOK
      BY <2>1 DEF HostInv, RC!CutoverInv
    <3> QED BY <2>1, <3>1 DEF HostTypeOK
  <2>2. CASE program = "assets"
    <3>1. SA!SharedTypeOK
      BY <2>2 DEF HostInv, SA!SharedInv
    <3> QED BY <2>2, <3>1 DEF HostTypeOK
  <2>3. CASE program = "retire"
    <3>1. RT!RetireTypeOK
      BY <2>3 DEF HostInv, RT!RetireInv
    <3> QED BY <2>3, <3>1 DEF HostTypeOK
  <2>4. CASE program = "cleanup"
    <3>1. PC!CleanTypeOK
      BY <2>4 DEF HostInv, PC!CleanInv
    <3> QED BY <2>4, <3>1 DEF HostTypeOK
  <2>5. CASE program = "broker"
    <3>1. CB!BrokerTypeOK
      BY <2>5 DEF HostInv, CB!BrokerInv
    <3> QED BY <2>5, <3>1 DEF HostTypeOK
  <2>6. CASE program = "streaks"
    <3>1. CS!StreakTypeOK
      BY <2>6 DEF HostInv, CS!StreakInv
    <3> QED BY <2>6, <3>1 DEF HostTypeOK
  <2>7. CASE program = "scans"
    <3>1. SC!ScansTypeOK
      BY <2>7 DEF HostInv, SC!ScansInv
    <3> QED BY <2>7, <3>1 DEF HostTypeOK
  <2>8. CASE program = "capacity"
    <3>1. CA!CapTypeOK
      BY <2>8, CapTypes DEF HostInv
    <3> QED BY <2>8, <3>1 DEF HostTypeOK
  <2>9. CASE program = "audit"
    <3>1. OA!AuditTypeOK
      BY <2>9, AuditTypes DEF HostInv
    <3> QED BY <2>9, <3>1 DEF HostTypeOK
  <2>10. CASE program = "snapshot"
    <3>1. SN!PRSnapTypeOK
      BY <2>10, SnapTypes DEF HostInv
    <3> QED BY <2>10, <3>1 DEF HostTypeOK
  <2>11. CASE program = "sessions"
    <3>1. AG!SessionTypeOK
      BY <2>11 DEF HostInv, AG!AgeInv
    <3> QED BY <2>11, <3>1 DEF HostTypeOK
  <2>12. CASE program = "stop"
    <3>1. SG!StopTypeOK
      BY <2>12, StopTypes DEF HostInv
    <3> QED BY <2>12, <3>1 DEF HostTypeOK
  <2>13. CASE program = "ledger"
    <3>1. OL!LedgerTypeOK
      BY <2>13 DEF HostInv, OL!LedgerInv
    <3> QED BY <2>13, <3>1 DEF HostTypeOK
  <2>14. CASE program = "packet"
    <3>1. TP!PacketTypeOK
      BY <2>14 DEF HostInv, TP!PacketInv
    <3> QED BY <2>14, <3>1 DEF HostTypeOK
  <2> QED BY <2>1, <2>2, <2>3, <2>4, <2>5, <2>6, <2>7, <2>8, <2>9, <2>10, <2>11, <2>12, <2>13, <2>14 DEF HostInv, Programs
<1> QED BY <1>1, HostAlways, PTL

(* Of install-release.py, whoever edits the shared files, moves the pointer *)
(* or starts a child meanwhile: the installer starts the service on no      *)
(* mixture of two releases, takes no fresh bytes away that it could see,    *)
(* and its exit says what happened.                                         *)
THEOREM CutoversAreSafe == HostProgramsSpec => CutoverSafe
<1>1. HostInv /\ [HostProgramsNext]_hostProgramsVars =>
        (program = "install" => RC!NoMixedPairStep /\ RC!FreshBytesKeptStep /\ RC!OutcomeTrueStep)
  BY ItsOwnStep, PairsRest, FreshRests, OutcomesRest DEF HostInv
<1> QED BY <1>1, HostAlways, PTL DEF HostProgramsSpec, CutoverSafe

(* A run of the shared-asset installer that failed has left nothing of      *)
(* itself over the bytes it found (install_shared_assets and its rollback). *)
THEOREM FailedRunsLeaveNothing == HostProgramsSpec => []AssetsRecoverable
<1>1. HostInv => AssetsRecoverable
  BY SharedLeavesBackup DEF HostInv, AssetsRecoverable
<1> QED BY <1>1, HostAlways, PTL

(* No installation, sync-back or retirement takes bytes away that nobody    *)
(* reviewed, committed or backed up, save those written between its last    *)
(* comparison and its rename.                                               *)
THEOREM EditsAreKept == HostProgramsSpec => EditsKept
<1>1. HostInv => EditsKeptStep
  BY LiveEditsRest, TreeEditsRest, RetireRests DEF HostInv, EditsKeptStep
<1> QED BY <1>1, HostAlways, PTL DEF EditsKept

(* stale-process-cleanup.py ends what it planned to end: what it reports    *)
(* terminated is gone, a streak ends the incarnation that was hot in enough *)
(* passes, and a scan's SIGKILL reaches a process it listed and matched, or *)
(* the one that has taken that pid since.                                   *)
THEOREM EndedWereDue == HostProgramsSpec => []EndedWasDue
<1>1. HostInv => EndedWasDue
  BY CleanRests, StreakRests, ScansRest, TerminatedRests DEF HostInv, EndedWasDue
<1> QED BY <1>1, HostAlways, PTL

(* Pids are reused, slots filled and brokers taken up while it works.  But  *)
(* for what moved after the last check, a signal reaches the process that   *)
(* was scanned, no broker in use, and the broker after all that lives below *)
(* it.                                                                      *)
THEOREM SignalsReachTheirAim == HostProgramsSpec => SignalsAreAimed
<1>1. HostInv /\ [HostProgramsNext]_hostProgramsVars => SignalsAreAimedStep
  BY ItsOwnStep, SignalsRest, BusyRests, OrphansRest DEF HostInv, SignalsAreAimedStep
<1> QED BY <1>1, HostAlways, PTL DEF HostProgramsSpec, SignalsAreAimed

(* The heartbeat, the open-PR snapshot and the Stop hooks read several      *)
(* sources one after the other while all of them move; what they report     *)
(* was so at their reads, and what was so through all of them is not hidden *)
(* but by a read that failed, a page that ended or a hook that was killed.  *)
THEOREM ReportsWereCurrent == HostProgramsSpec => []ReportsAreCurrent
<1>1. HostInv => /\ program = "capacity" => CA!AlertsAreCurrent
                 /\ program = "audit" => OA!ProgressWasLive /\ OA!LiveEvidenceWins
  BY DEF HostInv, CA!CapInv, OA!AuditInv
<1>2. HostInv => /\ program = "snapshot" => SN!DispatchIsUnowned /\ SN!AsksAreEarned /\ SN!KnownOwnerWasLive
                 /\ program = "sessions" => AG!DueMeansQuiet
                 /\ program = "stop" => SG!SuppressedWasShown
  BY SnapRests, StopRests DEF HostInv, AG!AgeInv
<1>3. HostInv => ReportsAreCurrent
  BY <1>1, <1>2 DEF ReportsAreCurrent
<1> QED BY <1>3, HostAlways, PTL

(* Several processes write the ledger of pm-ops-legacy.py: a row that names *)
(* a head is one the heartbeat accepts, a key has one open row once the     *)
(* duplicates were closed, and a consumed packet is dated.                  *)
THEOREM LedgerIsSound == HostProgramsSpec => []LedgerSound
<1>1. HostInv => LedgerSound
  BY DEF HostInv, LedgerSound, OL!LedgerInv, TP!PacketInv
<1> QED BY <1>1, HostAlways, PTL

(* Of the reconciliation of pm-ops-legacy.py: once a pass has closed the    *)
(* rows of a merged pull request, its cleanup is owed, by an open row or by *)
(* the pass itself, until a receipt, a command or the label settles it.     *)
(* Only a pass that dies between its two commits loses the debt.            *)
THEOREM DebtsAreKept == HostProgramsSpec => []DebtsKept
<1>1. HostInv => DebtsKept
  BY HandoffRests DEF HostInv, DebtsKept
<1> QED BY <1>1, HostAlways, PTL
=============================================================================
