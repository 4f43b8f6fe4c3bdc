SPECIFICATION Spec
CONSTANTS
    Threads = {t1, t2}
    t1 = t1
    t2 = t2
    Address = {0, 1, 2, 3}
    Kinds = {"function", "color", "loop"}
    Calls <- MCCalls
    CallbackCalls <- MCCallbackCalls
    Saved <- MCSaved
    NPlugins = 2
    Threshold = 2
    MaxCalls <- MCMaxCalls
    MaxReentrant = 1
SYMMETRY Sym
INVARIANT MirrorExact
PROPERTY ColoursAsPainted
CHECK_DEADLOCK FALSE
