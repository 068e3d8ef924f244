SPECIFICATION Spec
CONSTANTS
    dedicated = dedicated
    gpu = gpu
    c1 = c1
    c2 = c2
    Calls = {c1, c2}
    Pods = {}
    DaemonPods = {}
    EmptyDirs = {}
    Taints = {dedicated, gpu}
    Requests <- TaintRequests
PROPERTY UntaintRemovesItsOwn
CHECK_DEADLOCK FALSE
