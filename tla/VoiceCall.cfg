SPECIFICATION Spec
CONSTANTS
    best = best  step = step  retry = retry  c1 = c1  c2 = c2  l1 = l1  l2 = l2
    Dials = {best, step, retry}
    KindOf <- MCKindOf
    Rows = {c1, c2}
    Legs = {l1, l2}
    Answerable = {l1}
    NoRow = NoRow
    NoLeg = NoLeg
    MaxAttempts = 1
    VoicemailAfter = 1
    MaxFaults = 1
    MaxDials = 2
INVARIANTS EndedIsNotLive RingsOnce AttemptsHold OptOutStopsDials EndingsExplained TakenStaysOpen EveryCallEnds NoPhantomCall
CHECK_DEADLOCK FALSE
