SPECIFICATION Spec
CONSTANTS
    NumQueries <- ThreeQueries
CHECK_DEADLOCK FALSE
INVARIANTS TypeOK DataBehindStatus PunctualIsReported VerdictFollowsResults
PROPERTIES CallerReturns
