SPECIFICATION Spec
CONSTANTS
    Edit = {e1, e2}
    Branch = {b1, b2}
    MaxFaults = 0
INVARIANT
    AmendTakesAMessage
