SPECIFICATION DesktopSpec
CONSTANTS
    MaxTokens = 4
    MaxConns = 3
    MaxExpired = 1
    MaxRefresh = 1
    MaxRestarts = 1
    MaxFails = 3
    MaxClicks = 3
INVARIANTS SessionInv SocketInv
PROPERTY SessionReturnsWhenItMoves
CHECK_DEADLOCK FALSE
