\* Up to two values of any type, in a stream or behind a header.
SPECIFICATION MessageSpec
CONSTANTS
    Base = 2
    MaxItems = 2
    Items <- SmallItems
    Envelopes <- SomeEnvelopes
INVARIANTS
    CursorAtNext
PROPERTIES
    IsFifo
