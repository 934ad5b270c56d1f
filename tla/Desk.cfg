SPECIFICATION DeskSpec
CONSTANTS
    u1 = u1
    u2 = u2
    NoRow = NoRow
    Requests = {r1, r2}
    Areas = {"sessions", "roles", "incidents", "notices"}
    MaxOps <- AreaOps
    Tokens = {s1, s2, s3}
    ResetTokens = {t1, t2}
    Google = {g1, g2}
    Links = Links
    Roles = {admin, technician, resident, accountant}
    MaxRoles = 3
    User = User
    IncidentIds = {i1, i2}
    Technicians = {m1, m2}
    Admin = Admin
    Users = {u1, u2}
    Notices = {n1, n2}
    Channels <- ChannelsOf
    Recipients <- RecipientLists
    Wanting = {u2}
    BatchAttempts = 2
    MaxStalls = 1
    MaxFaults = 2
CHECK_DEADLOCK FALSE
INVARIANTS DeskTypeOK OneTokenUntilEnded WayInKept RolesKept ListCurrent
PROPERTIES StatusFollowsTable NoticeTried
