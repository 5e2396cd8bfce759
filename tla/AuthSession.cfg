SPECIFICATION FairSpec
CONSTANTS
    MaxClient = 2
    MaxOp = 2
    NoOp = NoOp
    NoSession = NoSession
    Broken = Broken
    Workloads = {{"getSession", "signOut", "use"}, {"updateUser", "use"},
        {"setSession"}, {"verify", "refreshSession"}, {"recover", "signIn"},
        {"urlCode", "startFlow"}, {"urlToken", "signOut"}, {"exchange", "redirect"},
        {"initialSession", "tick"}, {"link", "getUser"}, {"linkOAuth", "signUp"},
        {"getUserJwt", "initialize"}, {"refreshSupplied"}, {"signOutOthers", "read"}}
    MaxFam = 4
    MaxGen = 5
    MaxFaults = 1
INVARIANTS SingleFlight TokensUsedOnce SignedOutStays RefusedIsForgotten
           FailedFlowLeavesNoVerifier SessionInv
PROPERTY EveryCallEnds
CHECK_DEADLOCK FALSE
