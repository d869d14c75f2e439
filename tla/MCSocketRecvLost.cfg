\* The comment of readBytes() on a result of 0.
CONSTANTS
    m1 = m1  m2 = m2  m3 = m3  bad = bad
    Stream <- MCStream
    Size <- MCSize
    Start <- MCStart
    Wire <- MCWire
    Illegal = {bad}
    LenField = 2
    ReadLen = 4
    KernelRoom = 6
SPECIFICATION Spec
INVARIANT LostMeansClosed
