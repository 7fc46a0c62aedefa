CONSTANTS
    Programs <- MCPrograms
    Steps = 2
    MaxFaults = 2
SPECIFICATION FairClientSpec
INVARIANTS
    ErrorsHaveCauses
PROPERTIES
    AnswersAreTrue
    CallsReturn
CHECK_DEADLOCK FALSE
