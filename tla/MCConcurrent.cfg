SPECIFICATION HSpec
CONSTANTS
    o1 = o1
    v1 = v1
    cloud = cloud
    Servers = {o1, v1}
    Vllm = {v1}
    Fallback = cloud
    Rank <- MCRank
    Requests = {r1, r2}
    MaxRetries = 1
    Kinds = {"plain", "cloud"}
    Payloads = {"valid", "malformed"}
    Registries <- AllActive
    MaxChanges = 0
INVARIANTS ExhaustedMeansAllTried
PROPERTIES RoundRobin AllAnswered
