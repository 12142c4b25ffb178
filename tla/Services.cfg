SPECIFICATION Spec
CONSTANTS
    Parts = {"keys", "contacts", "vault", "broker", "reports", "push", "invites", "gate", "caches"}
    Slots = {1, 2}
    PreKeyIds = {1, 2}
    Senders = {s1, s2}
    NoRow = NoRow
    Focuses = {"prekeys", "slots"}
    QueueTTL = 1
    ConsumedAge = 1
    RevokedAge = 2
    RosterAge = 1
    MaxDay = 3
    MaxInstalls = 3
    MaxUploads = 2
    People = {1, 2}
    Handlers = {h1, h2}
    AcceptedGrace = 0
    DeclinedAge = 1
    MaxClock = 2
    MaxCalls = 5
    Nil = Nil
    Devices = {d1, d2}
    SlotNames = {sl1, sl2}
    MaxSlots = 1
    MaxTexts = 2
    MaxReissues = 1
    NoSlot = NoSlot
    Tags = {t1}
    Networks = {n1}
    Minters = {m1, m2}
    ReachQuorum = 1
    DeadAfter = 1
    MaxParked = 1
    MaxRows = 1
    MaxRegistered = 2
    MaxTenants = 3
    NoNode = NoNode
    Aims = {"relays", "tenants"}
    Kinds = {"bug", "crash", "abuse"}
    ReportAge = 1
    EvidenceAge = 1
    EvidenceGrace = 0
    MaxDays = 4
    MaxTurns = 1
    NoDay = NoDay
    Accounts = {1, 2}
    Installs = {"phone"}
    HereGrace = 0
    LegacyAge = 0
    NoDevice = NoDevice
    MaxHours = 1
    MaxTokens = 2
    MaxMoves = 2
    MaxSends = 3
    MaxWakes = 1
    Requests = {q1, q2}
    PaidTotal = 2
    FreeTotal = 2
    PeriodDays = 1
    InviteTTL = 1
    CutoffDay = 1
    MinAgeDays = 0
    CredentialAge = 0
    Unset = Unset
    MaxDate = 3
    Passes = {"i1"}
    Phones = {"pa", "pb"}
    CacheTTL = 1
    TokenAge = 0
    NoToken = NoToken
    MaxTime = 1
    MaxSerial = 2
    CacheKinds = {"settings", "logo", "count"}
    Contents = {"x", "boot"}
    Operators = {o1, o2}
    RowsTTL = 1
    RetryAfter = 1
    NoRefresh = NoRefresh
    MaxTicks = 1
    MaxSaves = 2
INVARIANTS
    
    VersionNamesBlob
    PrivateStaysPrivate
    CodesAccounted
    PassesAccounted
    CacheTruthful
PROPERTIES
    RequestsHonoured
    SeenBeforeOverwritten
    OneKeyPerCustomer
    FiledForever
    
CHECK_DEADLOCK FALSE
