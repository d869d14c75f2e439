\* A server and room for one more descriptor at a time, two connections in
\* all; the network thread and two handlers.
CONSTANTS
    o1 = o1  o2 = o2  o3 = o3  o4 = o4
    w1 = w1  w2 = w2  net = net
    Fd = {1, 2}
    Listener = 1
    Object = {o1, o2, o3}
    Net = net
    Worker = {w1, w2}
    Null = Null
SPECIFICATION Spec
SYMMETRY WorkerSymmetry
INVARIANTS FaultNeedsOverlap TableExact
