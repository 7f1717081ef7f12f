SPECIFICATION Spec
CONSTANTS
    Tasks = {a, b, c}
    Shared = {b}
INVARIANTS NoTaskLost BlockOnDelivers NoLostWake
PROPERTY WokenIsPolled
