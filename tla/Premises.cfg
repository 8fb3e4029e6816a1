SPECIFICATION Spec

CONSTANTS
    s1 = s1
    s2 = s2
    b1 = b1
    b2 = b2
    e1 = e1
    e2 = e2
    e3 = e3
    nobody = nobody
    noPlate = noPlate
    noUnit = noUnit
    u1 = u1
    u2 = u2
    t1 = t1
    t2 = t2
    ama = ama
    kofi = kofi
    Desks = {"bookings", "registry", "residents", "work", "charges", "leases", "meters", "tickets", "office", "maintenance", "equipment", "notices", "filing"}
    Slots = {s1, s2}
    MaxTime = 2
    Amenities = {"hall"}
    Bookings = {b1, b2}
    Windows <- Hours
    Entries = {e1, e2, e3}
    Plates = {"plate"}
    NoPlate = noPlate
    Units = {"unit"}
    People = {ama, kofi}
    NoUnit = noUnit
    Orders = {"order"}
    Charges = {"charge"}
    Amounts = {1, 2}
    DueIn = {0}
    DueSoon = 1
    Leases = {"lease"}
    Periods <- Terms
    Notice = 1
    Cutoff = 1
    Meters = {"meter"}
    Readings = {1, 2, 3}
    Tickets = {"ticket"}
    TicketKinds <- AllKinds
    Areas = {"area"}
    Staff = {"staff"}
    Nobody = nobody
    MaxFiled = 2
    Assets = {"asset"}
    MaxOrders = 2
    Machines = {"machine"}
    MaxInterval = 2
    Papers = {"paper"}
    Readers = {u1, u2}
    MaxFollowUps = 2
    Texts = {t1, t2}
    DedupeWindow = 0
    MaxRequests = 3

SYMMETRY Symmetry

INVARIANTS
    TypeOK
    NoDoubleBooking
    OnePrimary
    RemindedOnce
    DoneIsStamped
    OneActivePerUnit
    OccupancyFollowsResidents

PROPERTIES
    BooksBalance
    NothingIsLost
    ServiceDatesHold

CHECK_DEADLOCK FALSE
