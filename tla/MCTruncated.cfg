CONSTANTS
    Hellos <- MCHellos
    Trailer <- MCTrailer
    Inputs <- Captures
SPECIFICATION CaptureSpec
INVARIANT TruncatedIsNull
