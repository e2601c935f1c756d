SPECIFICATION Spec
CONSTANTS
    Absent = Absent
    Null = Null
    Calling = Calling
    Nothing = Nothing
    a = a
    b = b
    c = c
    d = d
    home = home
    DeviceName = DeviceName
    Ids = {a, b, c, d}
    Builtin = {DeviceName}
    Variables <- AllVariables
    Files <- AllFiles
    MaxFiles = 4
    MaxInheritanceDepth = 3
SYMMETRY Symmetry
INVARIANT TypeOK
INVARIANT MergedWithParent
CHECK_DEADLOCK FALSE
