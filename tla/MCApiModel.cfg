SPECIFICATION Spec
CONSTANTS
    Known <- MCKnown
    Default <- MCDefault
    Definitions <- MCDefinitions
    MaxCommands = 2
INVARIANTS
    NodesAgree
    NothingRetired
    SettingsKept
    UpgradedLikeNew
    UpgradePathsSound
CHECK_DEADLOCK FALSE
