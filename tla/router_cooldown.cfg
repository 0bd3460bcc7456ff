CONSTANTS
    a = a
    b = b
    r1 = r1
    r2 = r2
    Request = {r1}
    Candidate = {a, b}
    N = 2
    CandidateAt <- MCCandidateAt
    Strategy = "failover"
    Cooldown = 1
    Kinds <- AnyKind
    MaxAttempts = 3
    MaxServerToolIterations = 2
SPECIFICATION Spec
PROPERTY CooldownExactlyForRateLimit
