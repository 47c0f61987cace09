SPECIFICATION Spec
CONSTANTS
    c1 = c1  c2 = c2  s1 = s1  s2 = s2  s3 = s3  w1 = w1  w2 = w2
    i1 = i1  i2 = i2  k1 = k1  k2 = k2  inverter = inverter  battery = battery
    None = None
    Clients = {c1, c2}
    Serials = {s1}
    Warehouses = {w1}
    Invoices = {i1, i2}
    Products = {inverter, battery}
    Batteries = {battery}
    ProductOf <- AllInverters
    Lines <- SingleLines
    Srns = {}
    Quantities = {1}
    Tags = {"SALEABLE"}
    Corrections = {"DEFECTIVE"}
    ForeignAnswers = {FALSE}
    StartStatuses = {"IN_STOCK"}
    Closable = {}
PROPERTY HeldStays
