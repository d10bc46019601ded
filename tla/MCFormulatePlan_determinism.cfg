CONSTANTS
    LocatorBits = 5
    Vals = {1, 2, 3}
    MaxCount = 4
SPECIFICATION Spec
INVARIANT PlanDeterministic
