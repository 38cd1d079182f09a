SPECIFICATION Spec
CONSTANTS
    Empty = Empty
    NoObject = NoObject
    Nothing = Nothing
    Partial = Partial
    name = name
    here = here
    there = there
    undotted = undotted
    template = template
    p = p
    q = q
    r = r
    secret = secret
    secret2 = secret2
    mine = mine
    chartDefault = chartDefault
    role = role
    config = config
    route = route
    route2 = route2
    workload = workload
    Identifiers <- MCIdentifiers
    Domains <- MCDomains
    Templates <- MCTemplates
    Dotted <- MCDotted
    Payloads <- MCPayloads
    Expand <- MCExpand
    Generated <- MCGenerated
    FirstField <- MCFirstField
    Hash <- MCHash
    Mongo <- MCMongo
    Secrets = {secret, secret2}
    Customs = {mine, chartDefault}
    Default = chartDefault
    Routes <- MCRoutes
    Inputs <- Moved
    Charts = {1}
    CRDs = 2
    Images = 2
    Objects <- OneRoute
    MaxRetries = 10
    MaxCalls = 2
    MaxFaults = 10
    Environment = {"helm"}
CHECK_DEADLOCK FALSE
INVARIANTS
    SuccessIsComplete
