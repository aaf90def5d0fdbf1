SPECIFICATION PolicySpec
CONSTANTS
    r1 = r1
    s1 = s1
    s2 = s2
    h1 = h1
    h2 = h2
    NoHost = NoHost
    NoAuth = NoAuth
    NoRow = NoRow
    Senders <- MCSenders
    Savers <- MCSavers
    Hosts <- MCHosts
    Base <- MCBase
    Inputs <- MCInputs
    MaxVersions = 3
SYMMETRY MCSymmetry
INVARIANTS
    SavedIsObeyed
    AuthStaysHome
PROPERTIES
    MigrationKeepsPolicy
