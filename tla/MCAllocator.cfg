CONSTANTS
  Half = 4
  Handles = {p, q, r}
  NoOne = none
SPECIFICATION Spec
INVARIANTS TypeOK Tiled Coalesced FreeCount
PROPERTIES ImplementsStore MovesOnlyIfAsked
