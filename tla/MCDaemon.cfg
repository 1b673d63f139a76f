SPECIFICATION LiveSpec
CONSTANTS
    Process = {p1, p2}
    Request = {r1}
    Work = {w1}
    Count = 2
INVARIANTS
    ActedStays
PROPERTIES
    OnlyFreshIsSeeded
    StopsWhenAsked
