CONSTANTS
    a = a
    b = b
    Request = {r1, r2, r3}
    Candidate = {a, b}
    N = 3
    CandidateAt <- MCCandidateAt
    Strategy = "failover"
    Cooldown = 2
SPECIFICATION Spec
INVARIANTS TypeOK FailoverKeepsConfigOrder
PROPERTIES BenchedGainsNoHolder BenchedComesBack
