SPECIFICATION PhoneSpec
CONSTANTS
    Safari = Safari
    SpringBoard = SpringBoard
    Other = Other
    Apps <- MCApps
    Pids = {p1, p2}
    Nobody = Nobody
    Numbers = {"zero"}
    MaxChanges = 1
    MaxRestarts = 1
INVARIANTS
    ReadersAgree
PROPERTIES
    LaunchEnds
    LimitIsRaised
