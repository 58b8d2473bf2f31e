SPECIFICATION ApprovalLiveSpec
CONSTANTS
    q1 = q1
    q2 = q2
    r1 = r1
    c1 = c1
    Request = {q1, q2}
    Run = {r1}
    RunOf <- MCRunOf
    Caller = {c1}
INVARIANTS
    ToldOnce
    AllowedByUser
    CardsUpToDate
PROPERTIES
    EveryAskAnswered
