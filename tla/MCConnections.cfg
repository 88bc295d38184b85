CONSTANTS
    Clients <- MCClients
    Grease <- MCGrease
SPECIFICATION Spec
PROPERTIES
    GreaseInvisible
    OrderMatters
    ClientsToldApart
    RawMatchesHash
