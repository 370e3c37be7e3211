SPECIFICATION Spec
CONSTANTS
    Capacities = {1, 2}
    Named = {1, 3}
    DefaultCapacity = 4
    SchemaSize = 4
    Lengths = {0, 1, 5}
    Partial = {2, 4}
    MaxFile = 20
INVARIANTS DataBehindIndex CapacityRecovered
