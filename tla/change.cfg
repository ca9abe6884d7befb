SPECIFICATION MCSpec
CONSTANTS
    Files <- MCFiles
    Governed <- Topic
    Contents <- MCContents
    Configs <- MCConfigs
    Identity <- MCIdentity
    MaxDepth = 3
    MaxNodes = 4
INVARIANTS
    DiffTellsAll
    EntryChangesAreTheEntries
    
