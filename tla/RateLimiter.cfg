SPECIFICATION Spec
CONSTANTS
    list_pods = list_pods
    get_pod_logs = get_pod_logs
    Tools = {list_pods, get_pod_logs}
    Rpm = 14
    Hundredth = 2
    Steps = {428, 429, 857}
    MaxTime = 2144
INVARIANTS
    WindowBound
    RetryIsHonest
CHECK_DEADLOCK FALSE
