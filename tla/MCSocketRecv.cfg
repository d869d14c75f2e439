\* Messages shorter and longer than one read, and an illegal one at the end.
CONSTANTS
    m1 = m1  m2 = m2  m3 = m3  bad = bad
    Stream <- MCStream
    Size <- MCSize
    Start <- MCStart
    Wire <- MCWire
    Illegal = {bad}
    LenField = 2
    ReadLen = 4
    KernelRoom = 6
SPECIFICATION FairSpec
INVARIANTS FramedInOrder InputArmed
PROPERTY ArrivedIsDelivered
