\* One endpoint whose filter is set, cleared and updated.
SPECIFICATION Spec
CONSTANTS
    p1 = p1
    None = None
    Endpoints = {p1}
    EventTypes <- ShortTypes
    Patterns <- SomePatterns
INVARIANT
    FiltersAreHeeded
