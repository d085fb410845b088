SPECIFICATION Spec
CONSTANTS
    Byte = {0, 1}
    Second = 3
    MaxTime = 5
INVARIANT GoodWordsAreReadings
PROPERTY BusIsReleased
