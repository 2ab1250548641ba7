SPECIFICATION Spec
CONSTANTS
    Writers = {service, command}
    Original = original
    MaxCalls = 2
    MaxFaults = 3
INVARIANTS NeverTorn LeftoversArePaidFor IndInv
PROPERTIES ImplementsAtomicFile
CHECK_DEADLOCK FALSE
