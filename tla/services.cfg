SPECIFICATION MCSpec
CONSTANTS
    ana = ana
    rev = rev
    appr = appr
    x1 = x1
    x2 = x2
    x3 = x3
    r1 = r1
    r2 = r2
    l1 = l1
    l2 = l2
    l3 = l3
    aics = aics
    slp = slp
    k1 = k1
    t1 = t1
    t2 = t2
    tpl = tpl
    app = app
    People = {x1, x2, x3}
    Kinds = {"dependent"}
    Links = {l1, l2, l3}
    Requests = {r1, r2}
    MaxActive = 1
    MaxOps = 4
    Modes = {"alone", "overlap", "crash"}
    None = None
    SetupRequests = {r1, r2}
    Cases = {x1, x2}
    SetupKeys = {k1}
    SetupTemplates = {t1, t2}
    TemplateSteps <- TwoTemplates
    SetupMaxOps = 4
    SetupModes = {"alone", "overlap", "crash"}
    Tabs = {t1}
    Users = {ana, rev, appr}
    Roles = {"applicant", "reviewer", "approver"}
    RolesOf <- OneRoleEach
    Templates = {tpl}
    Applications = {app}
    Keys = {k1}
    Values = {r1, r2}
    SeedTypes <- Seeded
    MaxEdits = 1
    MaxVersions = 2
    MaxSteps = 13
    MaxResults = 2
    Chats = {r1, r2}
    Programs = {aics, slp}
    First = aics
    AiKinds <- KindsAsked
    AiLife = 3
    MaxAsked <- AiAsked
    MaxEvents <- AiEvents
    AiLastTime = 3
    AiModes = {"mock", "live", "strict"}
    Citizens = {x1, x2, x3}
    Complete = {x1, x2}
    ReportRequests = {r1, r2}
    LocalNumbers = {1, 2}
    ReportLife = 3
    MaxFiled <- FiledMost
    MaxLoads <- LoadsMost
    ReportLastTime <- LastMinute
    ReportModes = {"mock", "static", "code", "lossy"}
    Desks = {r1, r2}
    Bookings = {x1, x2}
    Sessions = {l1, l2}
    DeskMaxOps <- DeskOps
    DeskModes = {"alone", "lossy", "back", "overlap"}
SYMMETRY Ids
INVARIANTS
    AllTypesOK
    LinksSound
    SettingsKept
    EngineServesCases
    PinnedVersionGoverns
    ToldWasTrue
    ReportsTrackable
    TokensAccepted
    DeskSound
CHECK_DEADLOCK FALSE
