SPECIFICATION MCSpec
CONSTANTS
    Names <- MCNames
    Kinds = {"http", "exec", "repo-file", "resource-owner", "other"}
    Decls <- MCDecls
    Registries <- MCRegistries
    Checkouts <- MCCheckouts
    Anchor <- MCAnchor
    File = "f"
    Replies <- MCReplies
    Controlling = {"p"}
    Ceiling <- MCCeiling
    MaxTime = 2
    MaxMoves = 1
INVARIANTS
    ResolvedIsVetted
    BuiltinsReadGovernedFiles

    
