CONSTANTS
    home = home
    away = away
    None = None
    Malformed = Malformed
    Ids <- MCIds
    Refs <- MCRefs
    RefOf <- MCRefOf
    Sessions <- MCSessions
    Controls <- MCControls
    ControlRef = "session"
    Offers <- MCOffers
    DefaultRegistry <- MCDefaultRegistry
    DefaultId = "a"
    Projects <- MCProjects
    Manifests <- MCManifests
    MaxEdits = 4
SPECIFICATION Spec
INVARIANTS
    TypeOK
    CredentialsStayBound
    WithdrawnCredentialsLeave
    ModulesWereVetted
    AdmittedBearersAreCurrent
