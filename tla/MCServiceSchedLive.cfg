\* One service, two workers, two messages, with fairness.
CONSTANTS
    s1 = s1  s2 = s2
    w1 = w1  w2 = w2
    m1 = m1  m2 = m2
    Service = {s1}
    InitService = s1
    Message = {m1, m2}
    Worker = {w1, w2}
    None = None
SPECIFICATION FairSpec
PROPERTIES QueueDrains StoppedIsReaped
