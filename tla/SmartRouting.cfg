SPECIFICATION Spec
CONSTANTS
    o1 = o1
    o2 = o2
    v1 = v1
    cloud = cloud
    Servers = {o1, v1, o2}
    Vllm = {v1}
    Fallback = cloud
    Rank <- MCRank
    Requests = {r1}
    MaxRetries = 1
    Kinds = {"plain", "model", "cloud"}
    Payloads = {"valid", "rejected", "malformed"}
    Registries <- AnyRegistry
    MaxChanges = 1
INVARIANTS SmartRoutingServes
