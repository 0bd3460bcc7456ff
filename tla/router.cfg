CONSTANTS
    a = a
    b = b
    r1 = r1
    r2 = r2
    Request = {r1, r2}
    Candidate = {a, b}
    N = 2
    CandidateAt <- MCCandidateAt
    Strategy = "round_robin"
    Cooldown = 1
    Kinds <- MCKinds
    MaxAttempts = 3
    MaxServerToolIterations = 2
SPECIFICATION Spec
INVARIANT TypeOK
PROPERTIES KeepsPromise UsesSelector EveryCallCountsDown TransientFailuresNeverBench
