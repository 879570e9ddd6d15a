SPECIFICATION Spec
CONSTANTS
    None = None
    Questions <- MCQuestions
    Facts <- MCFacts
    OptionIds = {"o1", "o2"}
    Texts = {"yes", "no"}
    Registry <- MCRegistry
    Records = {"r1", "r2", "r3", "r4"}
    Signed <- MCSigned
    Functional = {"f1", "f2"}
    NonFunctional = {"n1"}
    Limits = {"c1"}
    Asks <- MCAsks
    Candidates = {"e1"}
    Adrs = {"d1", "d2"}
    QuestionSets <- CriticalOnly
    Submissions <- MCSubmissions
    Designs <- ProposedOnly
    Plans <- MCPlans
    MaxRevisions = 2
CHECK_DEADLOCK FALSE
INVARIANTS
    ApprovalsAdvance
