SPECIFICATION AccessSpec
CONSTANTS
    McpFlows = {m1}
    DemoFlows = {d1}
    Browsers = {b1, b2}
    MaxCodes = 2
    MaxCallbacks = 2
    MaxTroubles = 1
    MaxPages = 2
    Chats = {c1, c2}
    ChatsPerHour = 2
    MaxAllowed = 5
INVARIANTS
    GrantGoesHome
    SingleUse
    OnlyThatInterferes
    ThrottleOverrun
SYMMETRY Symmetry
CHECK_DEADLOCK FALSE
