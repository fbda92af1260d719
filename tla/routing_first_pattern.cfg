SPECIFICATION CallingSpec
CONSTANTS
    h1 = h1
    h2 = h2
    Uris = {u1, u2}
    Handlers = {h1, h2}
    NoHandler = NoHandler
    Patterns <- MCPatterns
    MaxRoutes = 2
    Names <- MCNames
    Keys <- MCKeys
    Snake <- MCSnake
    Injected = {"session"}
    Signature <- MCSignature
    MaxArgs = 2
INVARIANTS
    ResolvesToMatchingRoute
CHECK_DEADLOCK FALSE
