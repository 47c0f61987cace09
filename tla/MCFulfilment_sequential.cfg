SPECIFICATION Spec
CONSTANTS
    c1 = c1  c2 = c2  s1 = s1  s2 = s2  s3 = s3  w1 = w1  w2 = w2
    i1 = i1  i2 = i2  k1 = k1  k2 = k2  inverter = inverter  battery = battery
    None = None
    Clients = {c1}
    Serials = {s1, s2, s3}
    Warehouses = {w1, w2}
    Invoices = {i1}
    Products = {inverter, battery}
    Batteries = {battery}
    ProductOf <- Mixed
    Lines <- MixedLines
    Srns = {k1}
    Quantities = {}
    Tags = {"SALEABLE", "DEFECTIVE"}
    Corrections = {"SALEABLE", "DEFECTIVE"}
    ForeignAnswers = {FALSE}
    StartStatuses = {"IN_STOCK"}
    Closable = {w2}
INVARIANTS InvoiceStatusExact OvershootBounded ClosedIsEmpty
PROPERTIES WarehousePinned HeldStays
