\* The smallest instance that shows the race: one service, one message.
CONSTANTS
    s1 = s1  s2 = s2
    w1 = w1  w2 = w2
    m1 = m1  m2 = m2
    Service = {s1}
    InitService = s1
    Message = {m1}
    Worker = {w1, w2}
    None = None
SPECIFICATION Spec

INVARIANT PopFrontAssert
