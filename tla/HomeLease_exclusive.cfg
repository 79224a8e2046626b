\* Expected to fail: three hosts of one home that all answer in time, alone.
SPECIFICATION Spec
CONSTANTS
    a = a
    b = b
    c = c
    d = d
    p = p
    q = q
    r = r
    home = home
    other = other
    Hosts = {a, b, c}
    Homes = {home}
    HomeOf <- HomesOf
    Ports = {p, q}
    Candidates <- TwoInOrder
    Strangers = {}
    Prompt = TRUE
INVARIANT ExclusiveOwnership
