SPECIFICATION Spec
CONSTANTS
    h1 = h1  h2 = h2  s1 = s1
    Handlers = {h1, h2}
    Sends = {s1}
    Via <- MCVia
    Scenarios <- MCScenarios
    MaxFaults = 1
    MaxEdits = 1
INVARIANTS TypeOK
PROPERTIES NoSendAfterOptOut RailsAgree DemandsLand
CHECK_DEADLOCK FALSE
