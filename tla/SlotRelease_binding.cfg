\* The same instance, with one property: what an outbox effect released.
CONSTANTS
    NULL = NULL
    Slot = {s1}
    Repo = {r1}
    Issue = {i1, i2}
    Pr = {}
    Branch = {}
    HeadSha = {}
    Work = {}
    Task = {k1}
    Activity = {}
    Turn = {t1}
    Effect = {f1, f2}
    Call = {c1, c2}
    Requests <- IssueLanes
    MaxEpoch = 2
SPECIFICATION RelSpec
INVARIANT EffectReleasesItsOwner
