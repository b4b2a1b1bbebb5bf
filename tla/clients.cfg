SPECIFICATION MCSpec
CONSTANTS
    ana = ana
    ben = ben
    x1 = x1
    x2 = x2
    n1 = n1
    r1 = r1
    r2 = r2
    queue = queue
    calendar = calendar
    settings = settings
    None = None
    Citizens = {ana, ben}
    Fixtures = {ben}
    Accounts = {x1, x2}
    Changes = {n1}
    Requests = {r1, r2}
    Endpoints = {"exchange", "login", "enrol", "file", "decide"}
    MaxCalls <- FourAndOne
    Modes = {"alone", "overlap", "crash"}
    AidPrograms = {x1, x2}
    AppSlots = {queue}
    MaxCases = 2
    Journeys <- AllJourneys
    AppMaxOps <- Taps
    AppModes = {"reliable", "lossy"}
    PlanSlots = {r1, r2}
    PlanPages = {calendar, settings}
    KindOf <- PageKinds
    LastDay = 4
    LastToday = 1
    Spans <- FewSpans
    PlanModes = {"alone", "overlap", "lossy"}
    PlanMaxOps <- PlanActs
SYMMETRY Alike
INVARIANTS
    AllTypesOK
    ProfileSound
    ShownIsTrue
PROPERTIES
    EnrolmentPermanent
CHECK_DEADLOCK FALSE
