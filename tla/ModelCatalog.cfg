SPECIFICATION CatalogSpec
CONSTANTS
    oauth = oauth
    key = key
    m1 = m1
    m2 = m2
    o1 = o1
    Accounts <- MCAccounts
    Models <- MCModels
    Names <- MCModels
    Jobs <- MCJobs
    Policies <- MCPolicies
    Answers <- MCAnswers
    Operators <- MCOperators
    MaxRows <- MCMaxRows
INVARIANTS
    OffersLastAnswer
    ServedIsNotDeprecated
    PublicNameWins
