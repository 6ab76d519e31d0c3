SPECIFICATION Spec
CONSTANTS
    Orders = {o1}
    Units = {A, B}
    Horizon = 4
    Total = 2
    Validity = 3
    MaxGranted = 2
CHECK_DEADLOCK FALSE
INVARIANT NeverOverdrawn
