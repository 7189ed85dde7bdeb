SPECIFICATION Spec
CONSTANTS
    None = None
    a = a
    Calls = {c1, c2, c3}
    LocalCalls = {c3}
    Names = {a}
    NameOf <- MCNameOf
CHECK_DEADLOCK FALSE
INVARIANTS
    RunsWhenAllAnswered
PROPERTIES
    CallsAnswered
