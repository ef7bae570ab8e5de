\* Two payments, one of them declined; two handlers at a time; the first decline blocks.
CONSTANTS
    Spends = {s1, s2}
    Declined = {s2}
    Actors = {a, b}
    Start = 9
    Amount = 4
    Grown = 5
    Fee = 1
    MaxDeclines = 1
    Unasked = {"canceled", "inactive"}
    MaxDisturbances = 2
    None = None
SYMMETRY Symmetry
SPECIFICATION Spec
INVARIANTS RowsAgree Books OnlyFeesOverdraw FreezeFollowsStatus
