CONSTANTS
    a = a
    b = b
    c = c
    Request = {r1, r2}
    Candidate = {a, b, c}
    N = 3
    CandidateAt <- MCCandidateAt
    Strategy = "round_robin"
    Cooldown = 2
SPECIFICATION RotationSpec
PROPERTY NextCallStartsDifferently
