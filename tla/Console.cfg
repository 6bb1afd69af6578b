\* Every area of the console, one after the other.
SPECIFICATION Spec
CONSTANTS
    Null = Null
    Areas = {"push-keys", "channels", "groups", "users", "message", "lists", "overview", "session", "limits"}
    PushKeys = {k1, k2}
    Channels = {1, 2}
    ChannelType = {wecom, dingtalk}
    Users = {u1, u2}
    Groups = {g1, g2}
    Deliveries = {d1, d2}
    MaxFailures = 2
    Classes = {s1, s2}
    PageSize = 1
    MaxRows = 2
    Ranges = {7, 15, 30}
    MaxCalls = 2
    MaxElsewhere = 1
    MaxGestures = 5
    MaxLooks = 4
INVARIANTS
    ShownSecretLive
    DefaultAsShown
    OneSaveAtATime
    TestResultOfDialog
    ShownLinksStored
    RetryOncePerFailure
    RowsAsAsked
    EmptyTableExplained
    PasswordEndsSessions
    TabShowsTokenOwner
    LimitHonoured
    RefusedForReason
    DeferralOutlasts
PROPERTIES
    SaveKeepsUntouched
    ChannelSaveKeeps
    GroupSaveKeeps
    MembershipsAsSent
    UserSaveKeeps
    FiguresOfRange
    LoginEnters
\* The user may simply stop.
CHECK_DEADLOCK FALSE
