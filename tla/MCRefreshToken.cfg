CONSTANTS
    h1 = h1
    h2 = h2
    Handlers = {h1, h2}
    Skew <- NoSkew
    MaxSkew = 0
    Window = 1
    Steps = 3
    MaxTime = 2
    MaxToken = 5
SPECIFICATION Spec
SYMMETRY Symmetry
INVARIANTS TypeOK RecoverySealed OneRetryIsEnough AnswerIsSuccessor
PROPERTIES RevokedStaysRevoked PredecessorKeptForWindow ImplementsChain SingleSuccessor
