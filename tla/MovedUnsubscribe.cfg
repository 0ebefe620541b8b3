SPECIFICATION Spec
CONSTANTS
    s1 = s1  d1 = d1  b1 = b1  s2 = s2  e1 = e1  p1 = p1  a1 = a1  c1 = c1
    interested = interested  notNow = notNow  main = main  again = again  moved = moved  movedAgain = movedAgain  enroll = enroll  move1 = move1
    reply = reply  unsub = unsub  bulk = bulk  mv = mv  end = end  pause = pause  suppress = suppress  re = re
    NoNode = NoNode  Default = Default  NoIntent = NoIntent  NoSlot = NoSlot
    Nodes <- ShortNodes
    Kind <- ShortKind
    Edges <- ShortEdges
    Cases <- ShortCases
    Entry = s1
    Intents <- MCIntents
    Runs <- MovedRuns
    Id <- MovedRunsId
    First = main
    Slots = {1, 2}
    Ops = {mv, unsub}
    OpKind <- MCKind
    Intent <- MCIntent
    Target <- MCTarget
    MoveId <- MCMoveId
    MaxAttempts = 1
    MaxFaults = 0
    MaxHolds = 0
    MaxLevels = 0
    AskFirst = FALSE
INVARIANTS UnsubscribeEndsRuns
CHECK_DEADLOCK FALSE
