\* The group idles once everything is committed, as in MCKafka.cfg.
SPECIFICATION Spec
CONSTANTS
    Workers = {w1, w2}
    NoOne = NoOne
    Partitions = {p1}
    Kinds = {"deliver", "ignored", "malformed", "poison", "garbled"}
    MaxLog = 2
    MaxFaults = 2
INVARIANT StartedIsKept
CHECK_DEADLOCK FALSE
