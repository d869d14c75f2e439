\* Two workers besides the network thread; three services; two messages.
CONSTANTS
    main = main  net = net  w1 = w1  w2 = w2
    Main = main
    Net = net
    Worker = {w1, w2}
    MaxService = 3
    MaxEvent = 2
    None = None
SPECIFICATION Spec
SYMMETRY WorkerSymmetry
CHECK_DEADLOCK FALSE
INVARIANTS IdsExact CleanShutdown JoinEnds
