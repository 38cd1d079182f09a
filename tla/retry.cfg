SPECIFICATION FairSpec
CONSTANTS
    Empty = Empty
    Identifiers <- MCIdentifiers
    Domains <- MCDomains
    Dotted <- MCDotted
    Templates <- MCTemplates
    Payloads <- MCPayloads
    Expand <- MCExpand
    Generated <- MCGenerated
    FirstField <- MCFirstField
    Hash <- MCHash
    name = name
    dotted = dotted
    undotted = undotted
    template = template
    p = p
    q = q
    Absent = Absent
    NoAnnotations = NoAnnotations
    NoHash = NoHash
    Nothing = Nothing
    Partial = Partial
    NoCondition = NoCondition
    Inputs <- OpenSetups
    Versions = {v1}
    StaleThreshold = 1
    MaxClock = 3
    MaxEdits = 2
    MaxFaults = 1
    Environment = {"tie", "edit", "pause", "delete", "helmfail", "ingressfail", "crash", "handover", "statusfault"}
CHECK_DEADLOCK FALSE
INVARIANTS
    DeployedIsDeployable
PROPERTIES
    AttemptResolves
    FailedIsRetried
