CONSTANTS
    f1 = f1
    f2 = f2
    Flows = {f1, f2}
    MaxEntries = 2
    EvictFrom = 2
    None = None
    Streams <- Players
    Faults = {"lose", "reorder"}
    Patient = TRUE
    Window <- Ahead
    MaxInFlight = 3
    MaxRestarts = 0
SPECIFICATION FairSpec
INVARIANTS PlayersPass
PROPERTIES EverythingArrives
\* Clients have a finite number of connections to make: the system may stop.
CHECK_DEADLOCK FALSE
