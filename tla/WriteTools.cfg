SPECIFICATION Spec
CONSTANTS
    k1 = k1
    k2 = k2
    Keys = {k1, k2}
    Texts = {"text"}
    Nothing = Nothing
    EditRequests <- MCEdits
    Editors = {1, 2}
    web = web
    db = db
    Callers = {1, 2}
    Deployments = {web}
    StatefulSets = {db}
    New = {web}
    Tasks <- MCTasks
    Gone = Gone
    Horizon = 2
    Exposers = {1, 2}
    Selectors <- MCSelectors
    NoService = NoService
    LastPort = 2
    Installers = {1, 2}
    NotThere = NotThere
    LastVersion = 4
    Notices = {1, 2}
    Hooks <- MCHooks
    Messages <- MCMessages
    Everyone = Everyone
    MaxTries = 2
INVARIANTS
    PortsLeadToPrometheus
    InstalledHasTheFlag
    FanOutIsReported
PROPERTIES
    
    PollsTellTheTruth
    EveryCallEnds
CHECK_DEADLOCK FALSE
