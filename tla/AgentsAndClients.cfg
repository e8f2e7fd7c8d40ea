SPECIFICATION EdgesSpec
CONSTANTS
    Runs = 2
    Pauses = 1
    Halts = 1
    Limit = 1
    Overlap = 2
    Followers <- MCFollowers
    Missions <- MCMissions
    Proposals <- MCProposals
INVARIANTS
    OutcomeIsEarned
    NothingIsLeft
    FeedSkipsNothing
    PublishedIsScanned
    CompletedIsPublished
    AcceptedPlansAreWorkable
PROPERTIES
    RunsEnd
    ScreensCatchUp
CHECK_DEADLOCK FALSE
