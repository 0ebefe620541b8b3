SPECIFICATION Spec
CONSTANTS
    a1 = a1  a2 = a2  csv = csv  single = single  first = first  second = second
    Contacts <- MCContacts
    Answers <- MCAnswers
    Undeliverable <- MCUndeliverable
    Batches <- MCBatches
    Spare <- MCSpare
    Imports <- MCImports
    ImportOf <- MCImportOf
    Turns = {t1, t2}
    Drains = {d1}
    NoContact = NoContact
    ChunkSize = 2
    Concurrency = 1
    Allowance = 1
    Suppressible <- MCSuppressible
    MaxJobs = 1
    MaxFaults = 1
INVARIANTS TypeOK DoubleBillExplained SpendWithinAllowance OneEventPerCompletion
PROPERTIES EveryItemSettles
CHECK_DEADLOCK FALSE
