\* Two contributors of different priority that disagree about one field and
\* may agree about another, which a foreign controller wants as well.
SPECIFICATION Spec
CHECK_DEADLOCK FALSE
CONSTANTS
    a = a
    b = b
    c = c
    p = p
    q = q
    Contributors = {a, b}
    Foreign = Foreign
    Paths = {p, q}
    Values = {1, 2, 3}
    NoValue = 0
    Specs <- MCSpecs
    Rank <- MCRank
    ForeignClaim <- MCForeignClaim
    EqualPriority = FALSE
    Forcers = {b}
    Insists = 2
    MaxDisturbed = 1
INVARIANT TypeOK
INVARIANT StatusIsTrue
PROPERTY Settles
