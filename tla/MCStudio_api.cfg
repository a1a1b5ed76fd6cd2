SPECIFICATION Spec
CONSTANTS
    Parts = {"accounts", "rooms", "community"}
    Browsers = {b1}
    Emails = {e1, e2}
    Handles = {h1}
    AuthSlots = {1, 2}
    RegisterLimit = 1
    LoginLimit = 1
    Window = 2
    SessionLife = 1
    MaxNow = 2
    MaxAuthRequests = 3
    Rooms = {r1, r2}
    Members = {m1}
    Creator = creator
    Scripts = {creator, m1}
    CallSlots = {1, 2}
    MaxCalls = 3
    InitialStates = {"active"}
    NoRoom = NoRoom
    Authors = {m1}
    Places = {t1, t2}
    Moderator = creator
    Profiles = {h1}
    PostLimit = 1
    Minute = 1
    DraftLimit = 2
    MaxTime = 2
    TalkSlots = {1, 2}
    MaxTalk = 4
INVARIANTS OneAccountPerAddress LimitersHold SignedOutStaysOut OnlyTheCreatorAdmits ReadersWereAdmitted BusyWorkspaceHasACall PostsPerMinute
PROPERTY ResolutionIsKept DraftsKept
SYMMETRY TabSymmetry
CHECK_DEADLOCK FALSE
