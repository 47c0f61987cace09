SPECIFICATION OfficeSpec
CONSTANTS
    m1 = m1  m2 = m2  n1 = n1  n2 = n2  d1 = d1  d2 = d2  f1 = f1  f2 = f2
    p1 = p1  p2 = p2  t1 = t1  v1 = v1  v2 = v2  w1 = w1  w2 = w2  a1 = a1  a2 = a2
    g1 = g1  g2 = g2  b1 = b1  b2 = b2  r1 = r1  x1 = x1  o1 = o1  o2 = o2  k1 = k1
    l1 = l1  l2 = l2  l3 = l3  q1 = q1
    Senders = {a1, a2}
    Refs = {f1, f2}
    Payloads <- BatchesSent
    Makes = {m1, m2}
    Bases = {b1, b2}
    Names = {n1, n2}
    Depots = {w1, w2}
    Nothing = Nothing
    Supervisors = {a1, a2}
    Cases = {t1}
    Numbers = {1, 2}
    Goods = {g1}
    Batches = {f1}
    MaxPulled = 1
    Missing = Missing
    Admins = {a1, a2}
    ProductFiles <- ProductUploads
    InvoiceFiles <- InvoiceUploads
    Codes = {p1, p2}
    Titles = {n1, n2}
    Invoices = {v1, v2}
    LineNos = {1}
    Sites = {w1, w2}
    Moves = {"DISPATCHED"}
    Blank = Blank
    Items = {g1, g2}
    Rooms = {w1, w2}
    Dates <- BoundaryDates
    Today = 100
    LastDay = 101
    PageLimit = 1
    Viewers <- Readers
    Unset = Unset
    People = {p1}
    Browsers = {b1, b2}
    Sessions = {t1}
    Roles = {r1}
    Rights = {x1}
    Stores = {w1, w2}
    RoleRequests = {r1}
    ScopeRequests <- OneWarehouse
    RightRequests <- OneRight
    Editors = {a1, a2}
    MaxFailedLogins = 2
    Lockout = 1
    SessionTtl = 1
    MaxTime = 1
    Nil = Nil
    Callers = {a1, a2}
    MaxAttempts = 2
    AttemptWindow = 2
    LastTick = 3
    Never = Never
    Orders = {o1, o2}
    Shops = {w1, w2}
    Wares = {m1, m2}
    Pieces = {b1, b2}
    WareOf <- WareOfPiece
    Cameras = {k1}
    MaxInFlight = 2
    MaxLines = 3
    Void = Void
    Columns = {1, 2}
    Lists <- RowLists
    CellOf <- Cells
    Terms = {q1}
    Words <- WordsOf
    PageSize = 2
    NoCell = NoCell
    Choices = {w1, w2}
    Narrower = {n1}
    Details = {t1, k1}
    MaxAsks = 2
    None = None
    Brands = {m1, m2}
    Prefixes <- PrefixesGiven
    Stamps <- StampsUsed
    Yards = {w1, w2}
    Unknown = Unknown
    MaxUnits = 2
    MaxRaised = 1
    Members <- KindsOfMember
    Visits = {"login", "admin", "invoices"}
    Nobody = Nobody
    Runners = {a1, a2}
    Releases = {2, 3}
    Bills = {v1, v2}
    Articles = {p1, p2}
    ArticlesOn <- SoldOn
    Halls = {w1}
    Amounts = {0, 1}
    MaxReturned = 2
    Nix = Nix
    Papers = {v1, v2}
    Freight = {p1, p2}
    FreightOn <- SoldOn
    RouteOf <- BackAndForth
    Docks = {w1, w2}
    Lookups = {1, 2}
    MaxLate = 1
    MaxMoved = 2
    Vacant = Vacant
INVARIANTS OfficeTypeOK ProcessedIsImported CorrectionsStand SyncedWasSent
    WrittenOrReported RoutesAreWhole BucketsAgree ScopeIsNotWidened
    AnswersAreCurrent OneRequestDecides EveryFailureCounts LimitKept
    StockIsCurrent CountIsTrue RowsReachable ScreenSettles
    ScansResolve GuardsAgree AppliedOnceInOrder ReturnIsAsShown TransferIsAsShown
PROPERTY DeliveriesOnlyAdd
CHECK_DEADLOCK FALSE
