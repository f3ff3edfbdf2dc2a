SPECIFICATION MCSpec
CONSTANTS
    NoUrl = NoUrl
    Apps <- MCApps
    DecimalCap = 70000
    WordMax = 1048575
    LabelMax = 3
    HostMax = 7
    GroupCount = 3
    Digits = {0, 3, 5, 6, 9}
    MaxDigits = 7
    Alphabets <- MCAlphabets
    Instants <- SomeInstants
    PerSecond = 2
    PerMinute = 2
    PerHour = 2
    PerDay = 3
INVARIANT RoundTrips
INVARIANT NamesOneAddress
INVARIANT FillsOneWay
INVARIANT SameVerdict
INVARIANT SameInstant
INVARIANT Valid
PROPERTY ResolvesAsRfc
PROPERTY SegmentsAreKept
PROPERTY ParametersAreKept
CHECK_DEADLOCK FALSE
