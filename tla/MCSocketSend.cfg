\* Two senders and the network thread; three messages, six bytes in all,
\* through a send buffer of two bytes.
CONSTANTS
    s1 = s1  s2 = s2  net = net
    m1 = m1  m2 = m2  m3 = m3
    Sender = {s1, s2}
    Net = net
    Message = {m1, m2, m3}
    Size <- MCSize
    Capacity = 2
    None = None
SPECIFICATION FairSpec
INVARIANTS OwnedOnce OutputArmed
PROPERTIES ImplementsStream AcceptedIsSent
