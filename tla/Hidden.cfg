SPECIFICATION Spec
CONSTANTS
    a = a
    b = b
    l1 = l1
    l2 = l2
    p1 = p1
    None = None
    Node = {a, b}
    License = {l1, l2}
    Owner <- OneOwner
    Provider = {p1}
    Confirmed <- Everything
    Instance = {1, 2, 3}
    MaxTimestamp = 1
    MaxAllowedLicenses = 2
    Queried = {a}
    Prefixes = {0, 4, 5, 6}
INVARIANT
    IndexComplete
