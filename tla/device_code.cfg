SPECIFICATION Spec
CONSTANTS
    MaxSockets = 2
    MaxAutos = 1
    MaxCameras = 1
    MaxMishaps = 1
INVARIANTS AdmittedInTurn TurnedAwayStaysAway SocketsAreHeld CameraCanStart
CHECK_DEADLOCK FALSE
