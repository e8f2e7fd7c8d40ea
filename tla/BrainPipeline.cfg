SPECIFICATION FairSpec
CONSTANTS
    Instances <- AllInstances
INVARIANTS
    QuestionsHoldPlanning
PROPERTIES
    PauseFencesPlanning
    AnswersAreRead
    PlanningEnds
CHECK_DEADLOCK FALSE
