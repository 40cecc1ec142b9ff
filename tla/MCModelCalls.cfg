CONSTANTS
    n1 = n1
    h = h
    x = x
    y = y
    z = z
    c1 = c1
    c2 = c2
    i1 = i1
    i2 = i2
    sonnet = sonnet
    snapshot = snapshot
    unknown = unknown
    Names = {n1, h}
    SharedHints = {h}
    Texts = {x, y, z}
    Slots <- MCSlots
    MaxReleases = 2
    Calls = {c1, c2}
    Instances = {i1, i2}
    Models = {sonnet, snapshot, unknown}
    Asked = {sonnet}
    Supplied <- MCSupplied
    Price <- MCPrices
    LastDay = 1
    Usages = {2}
SPECIFICATION Spec
INVARIANTS
    TypeOK
    VersionNamesText
    SpendAccounted
SYMMETRY Symmetry
CHECK_DEADLOCK FALSE
