SPECIFICATION Spec
CONSTANTS
    b1 = b1
    b2 = b2
    python = python
    script = script
    custom = custom
    other = other
    Builders = {b1, b2}
    Resolvers = {q1}
    Runtimes = {python}
    Alphabet <- TwoPackages
    Requests <- Lists
    Options <- ThreeOptions
    CustomTags = {custom, other}
    OwnTags = {custom}
    Prebuilt <- OnePrebuilt
    Versions = {1}
    Ids = {i1, i2, i3, i4}
    MaxMoves = 3
    None = None
SYMMETRY Symmetric
INVARIANTS
    NothingMissing
PROPERTIES
    SkippedIsAsAsked
CHECK_DEADLOCK FALSE
