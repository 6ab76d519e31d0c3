SPECIFICATION MCSpec
CONSTANTS
    Orders = {o1, o2}
    Units = {A, B}
    Horizon = 4
    Total = 3
    Validity = 2
    MaxGranted = 3
SYMMETRY Symmetry
CHECK_DEADLOCK FALSE
INVARIANTS NightsAccounted CorrectionsAreSound
PROPERTIES CommandsAreTrue
