\* Pools of one thread (-t 1) and of two; two adders; one task never ends.
CONSTANTS
    w1 = w1  w2 = w2
    a1 = a1  a2 = a2
    net = net  t1 = t1  t2 = t2
    Worker = {w1, w2}
    Adder = {a1, a2}
    Task = {net, t1, t2}
    Endless = {net}
    None = None
SPECIFICATION FairSpec
INVARIANT PopFindsTask
PROPERTIES ImplementsQueue TaskStarts StopJoins
