SPECIFICATION Spec
CONSTANTS
    Rules <- MCRules
    Books <- MCBooks
    MaxDeliveries = 2
    MaxFaults = 3
INVARIANTS TypeOK FirstTerminalWins RowsTellTheTruth LateSignalsExplained
PROPERTIES EveryRuleRecorded
CHECK_DEADLOCK FALSE
