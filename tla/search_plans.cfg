SPECIFICATION Spec
CONSTANTS
    Subjects <- MCSubjects
    ResearchAnswers <- MCResearchAnswers
    WebAnswers <- MCWebAnswers
    MaxQueryChars = 50
    NoPlan = NoPlan
INVARIANTS TypeOK GatedBeforeBought ThreeDifferentSearches KnownWordingIsServed TemplatesServeTheRest
