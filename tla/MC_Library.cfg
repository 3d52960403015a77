CONSTANTS
    RxCapacity = 32
    MaxDecodedBytes = 6
    MaxEncodedBytes = 14
    MaxEdits = 2
    MaxBytes = 4
    SampleBytes = {0, 63, 126, 128, 252, 255}
    SampleRates = {0, 1, 184, 300, 732, 733, 1200, 9600, 115200, 230400, 921600, 1420000, 1500000, 1900000, 2000000, 2900000, 3000000, 5100000, 6000000, 12000000, 99000000}
    SampleTimes = {0, 57, 58, 114, 115, 287, 288, 1000, 5000, 19999, 100000, 999999, 7419338, 7477875, 2147483647}
SPECIFICATION LibrarySpec
INVARIANTS
    FunctionsAreFound
    PipesFit
    PacketsSurvive
    RatesAreReal
    RequestsDecode
    BoardIsDriven
CHECK_DEADLOCK FALSE
