SPECIFICATION Spec

CONSTANTS
    s1 = s1
    s2 = s2
    owner = owner
    ama = ama
    kofi = kofi
    root = root
    ada = ada
    l1 = l1
    l2 = l2
    k1 = k1
    k2 = k2
    Desks = {"members", "invites", "panel"}
    Timeless = {"members", "panel"}
    Slots = {s1, s2}
    MaxTime = 2
    Passes = {"p1"}
    WalkInStay = 1
    Users = {owner, ama, kofi}
    Owner = owner
    Seats = 1
    MaxRows = 2
    CodeLife = 1
    ResendGap = 1
    MaxAttempts = 1
    MaxCodes = 2
    Invitees = {ama}
    InviteRoles = {"MANAGER"}
    InviteLife = 1
    MaxInvites = 2
    Accounts = {ama}
    Devices = {"d1"}
    TokenLife = 3
    DeviceLife = 1
    ChallengeLife = 1
    MaxChallenges = 1
    MaxCount = 1
    Kinds = {"units", "residents"}
    Checked = {"units"}
    Limit = 1
    MaxHeld = 2
    CacheLife = 1
    Admins = {root, ada}
    LogIns = {l1, l2}
    Links = {}
    PanelCodeLife = 1
    PanelLife = 2
    LinkLife = 1
    MaxSecret = 1
    OwnerCap = 1
    OwnerGap = 1
    OwnerCodeLife = 1
    Hour = 2

SYMMETRY Symmetry

INVARIANTS
    SeatsHold
    OneOpenInvite
    SuperAdminRemains
    LogInsAreCurrent

PROPERTIES
    InviteAdmitsOnce

CHECK_DEADLOCK FALSE
