\* Two points, a team of two, four operations of the mapping thread.
CONSTANTS
    Points = {p1, p2}
    Searchers = {s1, s2}
    MaxOps = 4
SPECIFICATION Spec
CHECK_DEADLOCK FALSE
INVARIANTS NoReaderInside FreedUnread
PROPERTIES SwapPreserves RebuildEnds
