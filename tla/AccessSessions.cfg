SPECIFICATION Spec

CONSTANTS
    s1 = s1
    s2 = s2
    owner = owner
    ama = ama
    kofi = kofi
    root = root
    ada = ada
    l1 = l1
    l2 = l2
    k1 = k1
    k2 = k2
    Desks = {"visitors", "sessions", "limits", "panel", "owners"}
    Timeless = {}
    Slots = {s1, s2}
    MaxTime = 3
    Passes = {"p1"}
    WalkInStay = 1
    Users = {owner, ama, kofi}
    Owner = owner
    Seats = 1
    MaxRows = 2
    CodeLife = 1
    ResendGap = 1
    MaxAttempts = 1
    MaxCodes = 1
    Invitees = {ama}
    InviteRoles = {"MANAGER"}
    InviteLife = 1
    MaxInvites = 2
    Accounts = {ama}
    Devices = {"d1"}
    TokenLife = 3
    DeviceLife = 1
    ChallengeLife = 1
    MaxChallenges = 1
    MaxCount = 1
    Kinds = {"units", "residents"}
    Checked = {"units"}
    Limit = 1
    MaxHeld = 2
    CacheLife = 1
    Admins = {root}
    LogIns = {l1}
    Links = {k1, k2}
    PanelCodeLife = 1
    PanelLife = 1
    LinkLife = 1
    MaxSecret = 3
    OwnerCap = 1
    OwnerGap = 1
    OwnerCodeLife = 1
    Hour = 2

SYMMETRY Symmetry

INVARIANTS
    TypeOK
    VisitIsRecorded
    CodesAreRationed
    RevocationHolds
    ChallengeSpentOnce
    LimitsHold
    LogInsAreCurrent
    OwnerCodesApart

PROPERTIES
    EndedPassLetsNobodyIn

CHECK_DEADLOCK FALSE
