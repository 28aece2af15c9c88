\* Once the producers are done and every message is committed nothing is left to
\* do: the group idles, so deadlock is not checked.
SPECIFICATION FairSpec
CONSTANTS
    Workers = {w1, w2}
    NoOne = NoOne
    Partitions = {p1}
    Kinds = {"deliver", "ignored", "malformed", "poison", "garbled"}
    MaxLog = 2
    MaxFaults = 2
INVARIANTS TypeOK CommittedMeansHandled
PROPERTIES CommitsForward UnpoisonedIsHandled
CHECK_DEADLOCK FALSE
