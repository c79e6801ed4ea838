SPECIFICATION Spec
CONSTANTS
    web = web
    dns = dns
    Instances = {i1, i2}
    Callers = {c1, c2}
    AgentWorkers = {w1}
    Pods <- TwoPods
    NamespaceOf <- Homes
    Protected = {"kube-system", "kube-public", "kube-node-lease", "cilium", "tetragon", "gmp-system", "gke-managed-cim", "knative-serving"}
    Pids = {1}
    TTL = 2
    NoRequest = norequest
    NoInstance = noinstance
    MaxRequests = 3
    MaxRestarts = 1
SYMMETRY Symmetry
INVARIANT TypeOK
INVARIANT QuarantinedIsIsolated
PROPERTY OncePerTTL
