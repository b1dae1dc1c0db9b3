\* One slot, two handlers, two effects, and whatever else writes the table.
CONSTANTS
    NULL = NULL
    Slot = {s1}
    Repo = {r1}
    Issue = {i1, i2}
    Pr = {}
    Branch = {}
    HeadSha = {}
    Work = {}
    Task = {k1}
    Activity = {a1}
    Turn = {t1}
    Effect = {f1, f2}
    Call = {c1, c2}
    Requests <- IssueLanes
    MaxEpoch = 2
SPECIFICATION RelSpec
INVARIANT RelTypeOK
INVARIANT TurnPointerConsistent
INVARIANT EpochReleasedOnce
INVARIANT InProgressExact
INVARIANT AckedEffectHasReceipt
INVARIANT NoPaneReleasesItsOwner
PROPERTY ReleasesEnd
