SPECIFICATION FairSpec
CONSTANTS
    Tokens = {t1, t2}
    AnonKey = anon
    None = none
    Topics = {room}
    Calls = {c1, c2}
    MaxEvents = 3
INVARIANTS RelayInv JoinsWithLatest HandSetStands JoinedKnowLatest
PROPERTIES CallbackLeftAlone TokenFollowsSession
CHECK_DEADLOCK FALSE
