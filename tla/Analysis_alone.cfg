SPECIFICATION FairSpec
CONSTANTS
    s1 = s1  s2 = s2  s3 = s3  q1 = q1  q2 = q2  a1 = a1  a2 = a2
    arch1 = arch1  arch2 = arch2  arch3 = arch3  arch4 = arch4
    plan1 = plan1  plan2 = plan2  plan3 = plan3  plan4 = plan4
    p1 = p1  p2 = p2  p3 = p3  r1 = r1  r2 = r2  r3 = r3
    None = None
    c1 = c1  c2 = c2
    Clients = {c1}
    Sources = {s1, s2, s3}
    Questions = {q1, q2}
    Adrs = {a1}
    Records = {r1, r2, r3}
    Architectures = {arch1, arch2, arch3, arch4}
    Plans = {plan1, plan2, plan3, plan4}
    PlanIds = {p1, p2, p3}
    QuestionsOf <- MCQuestionsOf
    Design <- MCDesign
    Outline <- MCOutline
    Inputs <- WithCorrection
    Resolutions <- OneAnswerEach
    Approvals <- MCApprovals
    Reports = {"FAIL_RETRYABLE"}
    MaxMishaps = 1
    MaxEvents = 30
PROPERTY CompletesUnlessStuck
CHECK_DEADLOCK FALSE
