SPECIFICATION FairSpec
CONSTANTS
    Empty = Empty
    Identifiers <- MCIdentifiers
    Domains <- MCDomains
    Dotted <- MCDomains
    Templates <- MCTemplates
    Payloads <- MCPayloads
    Expand <- MCExpand
    Generated <- MCGenerated
    FirstField <- MCFirstField
    Hash <- MCHash
    name = name
    domain = domain
    p = p
    q = q
    Absent = Absent
    NoAnnotations = NoAnnotations
    NoHash = NoHash
    Nothing = Nothing
    Partial = Partial
    NoCondition = NoCondition
    Inputs <- TwoSetups
    Versions = {v1, v2}
    StaleThreshold = 0
    MaxClock = 2
    MaxEdits = 2
    MaxFaults = 1
    Environment = {"tie", "helmfail", "crash", "upgrade", "statusfault"}
CHECK_DEADLOCK FALSE
INVARIANTS
    LatestWins
    RunsHaveReasons
PROPERTIES
    BothComeToRest
