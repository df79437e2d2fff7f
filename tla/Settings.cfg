SPECIFICATION Spec
CONSTANTS
    Fields = {name}
    Values = {v1, v2}
    None = none
    Requests = {r1, r2}
    OpBound = 2
    RestartBound = 2
SYMMETRY SettingSymmetry
INVARIANTS
    TypeOK
    SettingsKept
    OneAddress
