SPECIFICATION LiveSpec
CONSTANTS
    Agents = {a1, a2}
    MaxStarts = 2
    a1 = a1
    a2 = a2
CHECK_DEADLOCK FALSE
INVARIANTS NeitherEndsFirst
PROPERTIES HandlersEnd AgentsEnd
