SPECIFICATION CalmImportSpec
CONSTANTS
    c1 = c1  c2 = c2  m1 = m1  n1 = n1  b1 = b1  b2 = b2  w1 = w1  f1 = f1  f2 = f2
    Nothing = Nothing
    Senders = {c1, c2}
    Refs = {f1, f2}
    Payloads <- MalformedBatches
    Makes = {m1}
    Bases = {b1, b2}
    Names = {n1}
    Depots = {w1}
INVARIANTS NoBatchFailsForItsRows
CHECK_DEADLOCK FALSE
