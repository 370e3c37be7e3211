SPECIFICATION Spec
CONSTANTS
    Blob = {b1, b2}
    MaxLength = 2
    Faults = {"crash"}
    Missing = Missing
PROPERTY AlwaysAtomic
