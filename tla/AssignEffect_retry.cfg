\* Two overlapping requests for one effect, a new issue, that is released
\* and taken again.
CONSTANTS
    NULL = NULL
    Slot = {s1}
    Repo = {r1}
    Issue = {i1, i2}
    Pr = {}
    Branch = {b1}
    HeadSha = {h1}
    Work = {}
    Task = {k1}
    Activity = {}
    Turn = {t1}
    Effect = {f1}
    Call = {c1, c2}
    Requests = {}
    Wanted <- WantsOne
    MaxEpoch = 3
    MaxSession = 2
\* Nothing is left to do once every effect is final.
CHECK_DEADLOCK FALSE
SYMMETRY Handlers
SPECIFICATION AssignSpec
INVARIANT PinnedPasteToOwner
INVARIANT PastedOnce
INVARIANT AssignedMeansPasted
