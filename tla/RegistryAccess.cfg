CONSTANTS
    Hosts <- MCHosts
    Hub = "index.docker.io"
    HubAliases <- MCHubAliases
    WithScheme <- MCWithScheme
    Known <- MCKnown
    DefaultScope <- MCDefaultScope
    DefaultFiles <- MCDefaultFiles
    MaxInt = 7
    Second = 2
    Settings <- MCSettings
    Inputs <- MCInputs
    Disks <- MCDisks
    MaxConfigurations = 2
    MaxLogins = 1
    MaxRequests = 2
SPECIFICATION Spec
CONSTRAINTS RetriesAlone IdentitiesAlone
CHECK_DEADLOCK FALSE
INVARIANTS
    WholeConfiguration
    CredentialIsForTheRegistry
    DocumentedOrder
    BrokerFailureSurfaces
    IdentityBeforeRegistry
    RetriesAsAsked
