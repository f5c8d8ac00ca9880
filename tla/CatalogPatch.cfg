SPECIFICATION Spec
CONSTANTS
    Rests = {blank, r1, r2}
    BlankRest = blank
    Floors = {5, 10}
    DefaultFloor = 10
    Patchers = {p1}
    NULL = NULL
PROPERTIES
    PatchKeepsTheRest
