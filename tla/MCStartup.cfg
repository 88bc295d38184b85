CONSTANTS
    Threads = {t1, t2, t3}
    Values = {"other"}
SPECIFICATION Spec
SYMMETRY Symmetry
INVARIANT OneCatalog
PROPERTY SettingsStay
