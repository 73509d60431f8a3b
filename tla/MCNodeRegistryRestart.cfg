SPECIFICATION FairSpec
CONSTANTS
    w1 = w1
    w2 = w2
    h1 = h1
    h2 = h2
    Workers = {w1, w2}
    Hosts = {h1, h2}
    Deployments <- MCDeployments
    Timeout = 2
    MaxFaults = 0
    MaxRestarts = 1
PROPERTIES
    SilentNodesShownInactive
