SPECIFICATION Spec
CONSTANTS
    c1 = c1  c2 = c2  s1 = s1  s2 = s2  w1 = w1  w2 = w2  w3 = w3  f1 = f1  d1 = d1
    t1 = t1  t2 = t2  g1 = g1  g2 = g2  inverter = inverter
    None = None
    Clients = {c1}
    Serials = {s1, s2}
    Products = {inverter}
    ProductOf <- AllInverters
    Warehouses = {w1, w2}
    Active = {w1, w2}
    Docs = {f1, d1}
    Shipments <- OneShipped
    Invoices = {t1}
    Route <- BackRoute
    Cap <- OneOrTwo
    Grns = {g1, g2}
    ReturnsAt = {w2}
    ForeignReturns = FALSE
SYMMETRY Symmetry
INVARIANT ReceiptsWereExpected
