SPECIFICATION Spec
CONSTANTS
    ann = ann  bob = bob  r1 = r1  r2 = r2  d1 = d1
    Contacts <- MCContacts
    Answers <- MCAnswers
    Requests = {r1, r2}
    AskOf <- MCAskOf
    Drains = {d1}
    Cap = 1
    CapEnabled = TRUE
    Nobody = Nobody
    Routed = {bob}
    MaxFaults = 1
    MaxChanges = 1
INVARIANTS TypeOK ReleasedWasStarted CapHolds InvalidStaysOut SecondRunExplained
CHECK_DEADLOCK FALSE
PROPERTIES HoldsDrain
