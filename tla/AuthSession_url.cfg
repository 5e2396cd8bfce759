SPECIFICATION Spec
CONSTANTS
    MaxClient = 1
    MaxOp = 1
    NoOp = NoOp
    NoSession = NoSession
    Broken = Broken
    Workloads = {{"urlToken"}}
    MaxFam = 3
    MaxGen = 1
    MaxFaults = 0
PROPERTY FailedUrlLoginKeepsSession
CHECK_DEADLOCK FALSE
