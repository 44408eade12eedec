\* Two contributors that disagree under policy Priority, both with the default
\* priority.
SPECIFICATION Spec
CHECK_DEADLOCK FALSE
CONSTANTS
    a = a
    b = b
    c = c
    p = p
    q = q
    Contributors = {a, b}
    Foreign = Foreign
    Paths = {p, q}
    Values = {1, 2, 3}
    NoValue = 0
    Specs <- MCSpecs
    Rank <- MCRank
    ForeignClaim <- MCForeignClaim
    EqualPriority = TRUE
    Forcers = {}
    Insists = 0
    MaxDisturbed = 0
PROPERTY Settles
