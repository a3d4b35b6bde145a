SPECIFICATION Spec
CONSTANTS
    MaxConns = 3
    MaxQueries = 2
INVARIANT NothingDangles
PROPERTY ClientSpec
