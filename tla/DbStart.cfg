SPECIFICATION DbSpec
CONSTANTS
    Starters = {s1, s2}
    s1 = s1
    s2 = s2
INVARIANT LeftoversDoNotHinder
