\* Two hosts of one home, one of another whose ports overlap, two strangers' ports.
SPECIFICATION FairSpec
CONSTANTS
    a = a
    b = b
    c = c
    d = d
    p = p
    q = q
    r = r
    home = home
    other = other
    Hosts = {a, b, d}
    Homes = {home, other}
    HomeOf <- HomesOf
    Ports = {p, q, r}
    Candidates <- InOrder
    Strangers = {p, q}
    Prompt = FALSE
INVARIANTS
    SplitNeedsTurnover
PROPERTY AttemptsEnd
