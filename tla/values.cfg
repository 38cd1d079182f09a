SPECIFICATION Spec
CONSTANTS
    Empty = Empty
    Malformed = Malformed
    ident = ident
    here = here
    there = there
    plain = plain
    secrets = secrets
    catalog = catalog
    mongo = mongo
    s3 = s3
    pvc = pvc
    mine = mine
    tuned = tuned
    verbose = verbose
    quiet = quiet
    Identifiers <- MCIdentifiers
    Domains <- MCDomains
    Templates <- MCTemplates
    Dotted <- MCDomains
    Payloads <- MCPayloads
    Expand <- MCExpand
    Generated <- MCGenerated
    FirstField <- MCFirstField
    Hash <- MCHash
    ClusterDomain <- MCClusterDomain
    Pvcs <- MCPvcs
    Mongo <- MCMongo
    S3Internal <- MCS3
    S3Graph <- MCS3
    PublicCatalog <- MCPublicCatalog
    Charts = {1, 2}
    Inputs <- MCInputs
    Customs <- MCCustoms
    MaxCalls = 3
    MaxCustoms = 1
CHECK_DEADLOCK FALSE
INVARIANTS
    AsFromScratch
    OneOwner
    CatalogIsReadOnly
    WorkflowsRegister
PROPERTIES
    ArgumentsKept
