SPECIFICATION Spec
CONSTANTS
    u = u
    g = g
    h = h
    doc = doc
    memo = memo
    viewer = viewer
    editor = editor
    east = east
    west = west
    c1 = c1
    c2 = c2
    Holder = {u}
    Group = {g, h}
    Object = {doc, memo}
    Rel = {viewer, editor}
    Includes <- MCIncludes
    Partition = {east, west}
    PartOf <- MCPartOf
    Client = {c1, c2}
    Scenes <- MCScenes
    WriteMax = 2
    MaxClock = 2
INVARIANTS DriversAgree PassNeverOpens PassLeaves CallsTellTrue PurgeIsWhole
CHECK_DEADLOCK FALSE
