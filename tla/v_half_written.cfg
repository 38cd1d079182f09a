SPECIFICATION Spec
CONSTANTS
    Empty = Empty
    Identifiers <- MCIdentifiers
    Domains <- MCDomains
    Dotted <- MCDotted
    Templates <- MCTemplates
    Payloads <- MCPayloads
    Expand <- MCExpand
    Generated <- MCGenerated
    FirstField <- MCFirstField
    Hash <- MCHash
    name = name
    dotted = dotted
    undotted = undotted
    template = template
    p = p
    q = q
    Absent = Absent
    NoAnnotations = NoAnnotations
    NoHash = NoHash
    Nothing = Nothing
    Partial = Partial
    NoCondition = NoCondition
    Inputs <- TwoSetups
    Versions = {v1}
    StaleThreshold = 1
    MaxClock = 5
    MaxEdits = 2
    MaxFaults = 1
    Environment = {"edit", "statusfault"}
CHECK_DEADLOCK FALSE
INVARIANTS
    InSync
