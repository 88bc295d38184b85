CONSTANTS
    Clients <- MCBinaryAlpn
    Grease <- MCGrease
SPECIFICATION Spec
INVARIANT AlpnFromBytes
