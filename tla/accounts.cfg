SPECIFICATION MCSpec
CONSTANTS
    x1 = x1
    x2 = x2
    x3 = x3
    x4 = x4
    r1 = r1
    r2 = r2
    t1 = t1
    t2 = t2
    b1 = b1
    b2 = b2
    b3 = b3
    grant = grant
    plat = plat
    chief = chief
    chief2 = chief2
    head = head
    Nil = Nil
    None = None
    Users = {x1, x2}
    Requests = {r1, r2}
    MaxOps = 7
    Modes = {"alone", "overlap", "crash"}
    NoOffice = NoOffice
    Offices = {x1, x2, x3}
    Admins = {r1, r2}
    MaxChanges = 4
    OfficeModes = {"alone", "overlap"}
    Nobody = Nobody
    Persons = {x1, x2}
    Tenants = {t1, t2}
    Branches = {b1}
    GrantOffices = {b1, b2}
    FirstOffice = b1
    HeadOffice = b1
    MatrixPermissions = {grant}
    Consoles = {plat, chief, chief2, head}
    RoleOf <- TabRoles
    MaxOpen = 2
    GrantMaxOps <- FiveEach
    MaxLoads = 1
    GrantModes = {"alone", "lossy", "overlap"}
    ShownLists = {"organizations", "admins", "offices", "section"}
    PageSize = 1
    MaxRows = 2
    ListMaxOps <- ListActs
    OrgAdmins = {chief, chief2}
    FirstAdmin = chief
    OrgMaxOps <- OrgActs
    BureauOffices = {b1, b2, b3}
    Here = b1
    BureauStaff = {head}
    OfficeMaxOps <- OfficeActs
    PageModes = {"patient", "hasty", "lossy", "shared"}
    FaceSessions = {x1, x2}
    MaxCaptures = 2
    FaceCalls = {r1, r2}
    FaceModes = {"reliable", "lossy"}
SYMMETRY Alike
INVARIANTS
    AllTypesOK
    HierarchySound
    LastDecisionHolds
    DeviceBeforeSession
    DecisionSound
    FaceCheckSound
    PagesShowServer
PROPERTIES
    ProvisionedWhileActive
    ApplyIsWhole
CHECK_DEADLOCK FALSE
