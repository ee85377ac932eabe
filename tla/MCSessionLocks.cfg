SPECIFICATION LocksSpec
CONSTANTS
    Session = {s1, s2}
    None = None
INVARIANTS OnlyAuthDeadlocks
