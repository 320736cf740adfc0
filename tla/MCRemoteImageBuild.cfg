SPECIFICATION MCSpec
CONSTANTS
    b1 = b1  b2 = b2  shared = shared  own1 = own1  app = app  web = web
    Builds = {b1, b2}
    Digests = {shared, own1}
    Entries = {app, web}
    Needs <- MCNeeds
    MaxFaults = 1
    MaxLosses = 1
    Contexts <- MCContexts
    Instructions <- MCInstructions
    Rules <- MCRules
    Blocks <- MCBlocks
    Globs <- MCGlobs
    Rank <- MCRank
    Nodes <- MCNodes
    Limit = 20
    MaxEdits = 1
INVARIANTS
    BuildInv ArtifactWhole NoInterference ContextExact
CHECK_DEADLOCK FALSE
