SPECIFICATION Spec
CONSTANTS
    Empty = Empty
    Identifiers <- MCIdentifiers
    Domains <- MCDomains
    Dotted <- MCDotted
    Templates <- MCTemplates
    Payloads <- MCPayloads
    Expand <- MCExpand
    Generated <- MCGenerated
    FirstField <- MCFirstField
    Hash <- MCHash
    name = name
    dotted = dotted
    undotted = undotted
    template = template
    p = p
    q = q
    Absent = Absent
    NoAnnotations = NoAnnotations
    NoHash = NoHash
    Nothing = Nothing
    Partial = Partial
    NoCondition = NoCondition
    Inputs <- TwoSetups
    Versions = {v1, v2}
    StaleThreshold = 0
    MaxClock = 1
    MaxEdits = 3
    MaxFaults = 1
    Environment = {"lag", "tie", "edit", "revisit", "replace", "pause", "delete", "foreground", "recreate", "helmfail", "ingressfail", "patchfault", "lostreply", "statusfault", "crash", "statuscrash", "upgrade"}
SYMMETRY Symmetric
CHECK_DEADLOCK FALSE
INVARIANTS
    TypeOK
    Settled
    PauseSettles
    PhaseSettles
