SPECIFICATION Spec
CONSTANTS
    s1 = s1  d1 = d1  b1 = b1  s2 = s2  e1 = e1  p1 = p1  a1 = a1  c1 = c1
    interested = interested  notNow = notNow  main = main  again = again  moved = moved  movedAgain = movedAgain  enroll = enroll  move1 = move1
    reply = reply  unsub = unsub  bulk = bulk  mv = mv  end = end  pause = pause  suppress = suppress  re = re
    NoNode = NoNode  Default = Default  NoIntent = NoIntent  NoSlot = NoSlot
    Nodes <- WalkNodes
    Kind <- WalkKind
    Edges <- WalkEdges
    Cases <- WalkCases
    Entry = p1
    Intents <- MCIntents
    Runs <- OneRun
    Id <- OneRunId
    First = main
    Slots = {1}
    Ops = {reply, unsub, end}
    OpKind <- MCKind
    Intent <- MCIntent
    Target <- MCTarget
    MoveId <- MCMoveId
    MaxAttempts = 1
    MaxFaults = 0
    MaxHolds = 1
    MaxLevels = 1
    AskFirst = FALSE
INVARIANTS NoForgottenLead
PROPERTIES RunsSettle StandingStopsHold
CHECK_DEADLOCK FALSE
