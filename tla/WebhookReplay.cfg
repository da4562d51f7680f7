SPECIFICATION Spec
CONSTANTS
    None = None
    s1 = s1
    plain = plain
    r1 = r1
    r2 = r2
    p1 = p1
    Signatures = {s1}
    Plain = {plain}
    Requests = {r1}
    Processes = {p1}
    Tolerance = 2
    Skews <- MCAhead
    MaxFaults = 0
INVARIANT
    SignatureUsedOnce
