SPECIFICATION Spec
CONSTANTS
    Pools = {"pool1", "pool12"}
    StartsWith <- MCStartsWith
    MaxFeatures = 3
INVARIANT Deployable
INVARIANT NetworkUntouched
INVARIANT OnlyItsNodes
