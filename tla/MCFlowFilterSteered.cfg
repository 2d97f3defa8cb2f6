CONSTANTS
    Flows = {f1, f2}
    CPUs = {c1, c2}
    MaxEntries = 1
    EvictFrom = 1
    Steered = TRUE
    None = None
SPECIFICATION Spec
INVARIANTS TypeOK EntriesHadHandshake EntriesAreCurrent
PROPERTIES PassedDataIsCurrent CurrentIsPassed GateSpec
