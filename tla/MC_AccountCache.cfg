CONSTANTS
    c1 = c1
    c2 = c2
    Callers = {c1, c2}
    RentValues = {0, 1, 2}
    MaxRentChanges = 2
    Undefined = Undefined
    NotServed = NotServed
    NoResult = NoResult
    Failed = Failed

SPECIFICATION Spec
INVARIANT TypeOK
PROPERTY RentExemptAbstract
