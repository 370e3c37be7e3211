SPECIFICATION Spec
CONSTANTS
    Capacities = {1}
    Named = {}
    DefaultCapacity = 4
    SchemaSize = 4
    Lengths = {4}
    Partial = {2}
    MaxFile = 30
INVARIANT DataAlwaysBehindIndex
