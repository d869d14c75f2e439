\* Two threads, three lines, one of which panics, and main's stop().
CONSTANTS
    t1 = t1  t2 = t2  main = main
    l1 = l1  l2 = l2  p1 = p1
    Logger = {t1, t2}
    Stopper = main
    Line = {l1, l2, p1}
    Panicking = {p1}
    None = None
SPECIFICATION FairSpec
INVARIANTS WrittenInOrder LostOnlyLate SleepNeedsMiss
PROPERTIES StopEnds LineWritten
