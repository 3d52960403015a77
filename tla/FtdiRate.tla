------------------------------ MODULE FtdiRate ------------------------------
(***************************************************************************)
(* Baud rates of the FTDI driver (src/ftdi.rs): the divisor is an integer  *)
(* and eighths, the eighths go out as a three-bit code above the integer's *)
(* fourteen bits, and the bits above the sixteenth go into wIndex.         *)
(***************************************************************************)
EXTENDS Integers, Sequences, SequencesExt

Chips        == {"ft232am", "ft232bm", "ft2232c", "ft232r", "ft2232h", "ft4232h", "ft232h", "ft230x"}
MultiChannel == {"ft2232c", "ft2232h", "ft4232h"}
HType        == {"ft2232h", "ft4232h", "ft232h"}

(* The chips whose high divisor bit goes above the channel in wIndex.      *)
WideIndex == HType \cup {"ft2232c", "ft230x"}

Abs(n) == IF n < 0 THEN -n ELSE n
Lower(a, b) == IF a < b THEN a ELSE b

FractionCode == [eighths \in 0..7 |-> <<0, 3, 2, 4, 1, 5, 6, 7>>[eighths + 1]]

UsbIndex(chip, interface) == IF chip \in MultiChannel THEN interface + 1 ELSE 0

(* Mutated form: the eighths go out as they are.                           *)
EncodedPlain(divisor) == divisor \div 8 + (divisor % 8) * 2^14

Encoded(divisor) == divisor \div 8 + FractionCode[divisor % 8] * 2^14

Rate(actual, encoded) == [actual |-> actual, encoded |-> encoded]

(***************************************************************************)
(* Every chip but the FT232AM. top is clock / predivider.                  *)
(***************************************************************************)
ClockBits(baud, clock, predivider) ==
    LET top == clock \div predivider
        middle == clock \div (predivider + predivider \div 2)
        half == clock \div (2 * predivider)
        double == (clock * 16) \div predivider
        divisor == double \div baud
        best == Lower((divisor \div 2) + (divisor % 2), 2^17 - 1)
        twice == double \div best
    IN  IF baud >= top         THEN Rate(top, 0)
        ELSE IF baud >= middle THEN Rate(middle, 1)
        ELSE IF baud >= half   THEN Rate(half, 2)
        ELSE Rate((twice \div 2) + (twice % 2), Encoded(best))

(***************************************************************************)
(* The FT232AM: two candidates next to the divisor, the better one wins    *)
(***************************************************************************)
AmDown == <<0, 0, 0, 1, 0, 3, 2, 1>>
AmUp   == <<0, 0, 0, 1, 0, 1, 2, 3>>

ClockBitsAm(baud) ==
    LET exact == 24000000 \div baud
        divisor == exact - AmDown[(exact % 8) + 1]
        Candidate(n) == IF n <= 8 THEN 8
                        ELSE IF divisor < 16 THEN 16
                        ELSE Lower(n + AmUp[(n % 8) + 1], 2^17 - 8)
        Actual(candidate) == (24000000 + candidate \div 2) \div candidate
        Error(candidate) == Abs(Actual(candidate) - baud)
        first == Candidate(divisor)
        second == Candidate(divisor + 1)
        best == IF Error(second) < Error(first) THEN second ELSE first
        encoded == Encoded(best)
    IN  Rate(Actual(best), IF encoded = 1 THEN 0 ELSE IF encoded = 2^14 + 1 THEN 1 ELSE encoded)

(***************************************************************************)
(* convert_baud_rate and set_baud_rate                                     *)
(***************************************************************************)
FastClock(baud, chip) == chip \in HType /\ baud > 732

Converted(baud, chip) ==
    IF chip = "ft232am" THEN ClockBitsAm(baud)
    ELSE IF FastClock(baud, chip)
    THEN LET rate == ClockBits(baud, 120000000, 10)
         IN  Rate(rate.actual, rate.encoded + 2^17)
    ELSE ClockBits(baud, 48000000, 16)

ConvertBaudRate(baud, chip, channel) ==
    LET rate == Converted(baud, chip)
        high == rate.encoded \div 2^16
    IN  [actual |-> rate.actual, value |-> rate.encoded % 2^16,
         index |-> IF chip \in WideIndex THEN high * 256 + channel ELSE high]

SetBaudRate(baud, chip, channel) ==
    LET divisor == ConvertBaudRate(baud, chip, channel)
    IN  IF baud = 0 THEN [out |-> "InvalidBaudRate"]
        ELSE IF Abs(divisor.actual - baud) * 20 > baud THEN [out |-> "UnsupportedBaudRate"]
        ELSE [out |-> "ok", actual |-> divisor.actual, value |-> divisor.value,
              index |-> divisor.index]

(***************************************************************************)
(* What the chip makes of a request (external). Its divisor is in eighths  *)
(* of the clock it divides; the FT232AM has no third fraction bit.         *)
(***************************************************************************)
EighthsOf(code) == CHOOSE eighths \in 0..7 : FractionCode[eighths] = code

ChipHigh(chip, index) ==
    IF chip = "ft232am" THEN 0 ELSE IF chip \in WideIndex THEN index \div 256 ELSE index

ChipDivisor(chip, value, index) ==
    LET whole == value % 2^14
        eighths == EighthsOf(value \div 2^14 + 4 * (ChipHigh(chip, index) % 2))
    IN  IF whole = 0 THEN 8 ELSE IF whole = 1 THEN 12 ELSE 8 * whole + eighths

ChipClock(chip, index) == IF ChipHigh(chip, index) \div 2 = 1 THEN 12000000 ELSE 3000000

(* The rate is the divided clock, to the next integer.                     *)
RunsAt(chip, value, index, actual) ==
    LET divisor == ChipDivisor(chip, value, index)
    IN  Abs(actual * divisor - 8 * ChipClock(chip, index)) <= divisor
=============================================================================
