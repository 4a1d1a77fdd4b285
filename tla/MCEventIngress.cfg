CONSTANTS
    Producers = {p1, p2}
    Capacity = 2
    MaxSends = 3
SPECIFICATION FairSpec
INVARIANTS TypeOK ExactlyOnce NoLostWakeup
PROPERTIES ImplementsChannel DeliversWithoutTimeout
\* A closed ingress whose producers have made all their calls really stops.
CHECK_DEADLOCK FALSE
