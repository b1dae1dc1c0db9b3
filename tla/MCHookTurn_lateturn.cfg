\* The client gives up on a slow hook and the agent goes on: turns.
CONSTANTS
    s1 = s1  r1 = r1  i1 = i1  b1 = b1  b2 = b2  h1 = h1  h2 = h2  h3 = h3
    k1 = k1  t1 = t1  t2 = t2  w1 = w1  w2 = w2  f1 = f1  f2 = f2
    NULL = NULL
    Slot = {s1}
    Repo = {r1}
    Issue = {i1}
    Pr = {}
    Branch = {b1, b2}
    HeadSha = {h1, h2, h3}
    Work = {}
    Task = {k1}
    Activity = {}
    Turn = {t1, t2}
    Effect = {f1, f2}
    Requests <- OneLane
    MaxEpoch = 3
    Hook = {w1, w2}
    Ancestor <- Fork
    Patient = FALSE
SPECIFICATION HookSpec
PROPERTY AdmissionSparesRunningTurn
