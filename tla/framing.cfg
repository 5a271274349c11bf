SPECIFICATION Spec
CONSTANTS
    Base = 4
    Directions <- MCDirections
    Variant <- MCVariant
    Messages <- MCMessages
    MaxSent = 2
INVARIANT NoneIsStuck
PROPERTY
    ImplementsMessageChannel
CHECK_DEADLOCK FALSE
