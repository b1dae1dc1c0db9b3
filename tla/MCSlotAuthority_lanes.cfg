\* Two slots, lanes that clash in every way, no turns.
CONSTANTS
    s1 = s1  s2 = s2
    r1 = r1  r2 = r2  i1 = i1  i2 = i2  p1 = p1  b1 = b1  h1 = h1  h2 = h2
    w1 = w1  k1 = k1  a1 = a1  t1 = t1  t2 = t2  f1 = f1  f2 = f2
    NULL = NULL
    Slot = {s1, s2}
    Repo = {r1, r2}
    Issue = {i1, i2}
    Pr = {p1}
    Branch = {b1}
    HeadSha = {h1}
    Work = {w1}
    Task = {k1}
    Activity = {}
    Turn = {}
    Effect = {}
    Requests <- ContendingRequests
    MaxEpoch = 2
SPECIFICATION Spec
INVARIANT TypeOK
INVARIANT LanesExclusive
PROPERTY ImplementsOwnership
