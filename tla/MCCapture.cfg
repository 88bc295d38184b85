CONSTANTS
    Hellos <- MCHellos
    Trailer <- MCTrailer
    Inputs <- Captures
SPECIFICATION CaptureSpec
INVARIANTS
    RoundTrip
    SidesAreDisjoint
    CutBeforeExtensionsIsNull
    DamageInventsNothing
