SPECIFICATION FairSpec
CONSTANTS
    a = a  b = b  p1 = p1  p2 = p2  p3 = p3  ula = ula  q1 = q1
    None = None
    Names = {a, b}
    PrefixesOf <- OwnPrefixes
    Acceptable = {p1, p2, p3, q1}
    HasService = TRUE
    MaxMarkers = 2
    MaxHistory = 2
    MaxChanges = 5
    MaxFaults = 1
    MaxLost = 1
CHECK_DEADLOCK FALSE
PROPERTIES NeverBare MarkersFollow ReportFollows
