\* One tick of the clock is half a minute of the capture at speed 1.
SPECIFICATION Spec
CONSTANTS
    Minute = 2
    Captures <- MCCaptures
    Callers = {ann, bob, eve}
    TokenHolders = {ann, bob}
    Keys <- MCKeys
    KeyOf <- MCKeyOf
    Window = 2
    MaxRequests = 1
    NoReading = NoReading
    Calls = {1, 2, 3}
    Speeds = {1, 2}
    StartTimes <- MCStartTimes
    Limits = {0}
    Unset = Unset
    TickCap = 1
    ClockMax = 4
INVARIANTS
    CaptureOrderRecovered VirtualTimesStayInBucket
    BurstBound
PROPERTIES
    PacesTheStream
SYMMETRY Operators
CHECK_DEADLOCK FALSE
