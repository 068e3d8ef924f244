SPECIFICATION Spec
CONSTANTS
    web = web
    agent = agent
    dedicated = dedicated
    gpu = gpu
    c1 = c1
    c2 = c2
    Calls = {c1, c2}
    Pods = {web, agent}
    DaemonPods = {agent}
    EmptyDirs = {web, agent}
    Taints = {dedicated, gpu}
    Requests <- MCRequests
SYMMETRY Interchangeable
INVARIANTS
    DrainMissesNothing
    DrainReportIsTrue
PROPERTY UntaintHitsUnlessRaced
CHECK_DEADLOCK FALSE
