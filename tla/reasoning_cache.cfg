CONSTANTS
    Session = {s1, s2}
    CallId = {c1, c2, c3}
    MaxEntries = 2
    Partial = Partial
SPECIFICATION Spec
SYMMETRY Symmetry
INVARIANTS TypeOK EchoesOnlyOwnReasoning FileIsComplete OverflowIsOneSession
PROPERTY RenamePublishesCurrentMap
