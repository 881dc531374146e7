SPECIFICATION Spec
CONSTANTS
    Clients = {1, 2}
    NoOne = 0
    MaxIterations = 3
    MaxElements = 2
    Plans <- MCPlans
INVARIANTS TypeOK AnswersAligned StateTracksTarget ToldInOrder ConditionsRespected EnrichedConsistently
PROPERTIES RequestsReturn
CHECK_DEADLOCK FALSE
