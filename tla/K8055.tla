------------------------------- MODULE K8055 -------------------------------
(***************************************************************************)
(* The K8055/P8055 example (examples/p8055): the board's reports, the      *)
(* interrupt transfers of HidHost and AudioInput they go through, and one  *)
(* session of the application with one device, as far as the LED tells it. *)
(***************************************************************************)
EXTENDS Integers, Sequences, FiniteSets, FiniteSetsExt

ReportLen == 8

(***************************************************************************)
(* Reports                                                                 *)
(***************************************************************************)
Bit(byte, k) == (byte \div 2^k) % 2

(* InputReport::digital_inputs: I1 to I5, one bit each.                    *)
DigitalInputs(raw) ==
    (Bit(raw, 4) + 2 * Bit(raw, 5)) + 4 * Bit(raw, 0) + 8 * (Bit(raw, 6) + 2 * Bit(raw, 7))

Counters(bytes) == <<bytes[5] + 256 * bytes[6], bytes[7] + 256 * bytes[8]>>

Distance(a, b) == IF a < b THEN b - a ELSE a - b

SettingError(raw, us) == Distance(115 * raw * raw, us)

(* Mutated form: the walk goes on only while it has not passed the time.   *)
DebounceRawBelow(us) == Max({raw \in 0..255 : 115 * raw * raw <= us})

(* debounce_raw_micros: the first setting the next one is not closer than. *)
DebounceRaw(us) ==
    Min({raw \in 0..255 : raw = 255 \/ SettingError(raw, us) <= SettingError(raw + 1, us)})

(* The reports that command the board: every one carries the outputs.      *)
CommandReport(command, outputs, debounce1, debounce2) ==
    <<command, outputs.digital, outputs.analog1, outputs.analog2, 0, 0, debounce1, debounce2>>

ResetReport              == [k \in 1..ReportLen |-> 0]
ApplyReport(outputs)     == CommandReport(5, outputs, 0, 0)
ResetCounter1(outputs)   == CommandReport(3, outputs, 0, 0)
ResetCounter2(outputs)   == CommandReport(4, outputs, 0, 0)
SetDebounce1(outputs, us) == CommandReport(1, outputs, DebounceRaw(us), 0)
SetDebounce2(outputs, us) == CommandReport(2, outputs, 0, DebounceRaw(us))

IsOriginalK8055(d) == d.vendor = 4303 /\ d.product \in 21760..21763

(***************************************************************************)
(* Interrupt transfers: endpoint is {} or the one endpoint of a direction, *)
(* sent what the device answers.                                           *)
(***************************************************************************)
WriteOutputReport(endpoint, length) ==
    IF endpoint = {} THEN "InterruptOutUnavailable"
    ELSE IF \E e \in endpoint : length > e.size THEN "OutputReportTooLong"
    ELSE "ok"

ReadInputReport(size, room, sent) ==
    IF room < size THEN [out |-> "InputBufferTooSmall", count |-> 0]
    ELSE IF sent > size THEN [out |-> "BufferOverflow", count |-> 0]
    ELSE [out |-> "ok", count |-> sent]

(* AudioInput::read_packet *)
ReadAudioPacket(capacity, subframe, room, sent) ==
    IF room < capacity THEN "BufferTooSmall"
    ELSE IF sent > capacity \/ sent % subframe # 0 THEN "InvalidPacketLength"
    ELSE "ok"

(***************************************************************************)
(* run_application, of a device: how far it gets (reached, 0 to 3, is the  *)
(* number of requests among configuration, report descriptor and output    *)
(* report it answers in time), and what its interrupt endpoints are.       *)
(***************************************************************************)
LedPattern(d) ==
    IF d.speed # "low" THEN "WrongSpeed"
    ELSE IF d.reached = 0 THEN "EnumerationError"
    ELSE IF ~IsOriginalK8055(d) THEN "WrongDevice"
    ELSE IF ~d.allocates THEN "HidAllocationError"
    ELSE IF d.reached = 1 THEN "ReportDescriptorError"
    ELSE IF d.reached = 2 \/ WriteOutputReport(d.out, ReportLen) # "ok" THEN "OutputError"
    ELSE LET read == ReadInputReport(d.in, ReportLen, d.sent)
         IN  IF read = [out |-> "ok", count |-> ReportLen] THEN "Success" ELSE "InputError"

(* The report the board is sent on the way there, if any.                  *)
Commanded(d) ==
    IF LedPattern(d) \in {"Success", "InputError"} THEN {ResetReport} ELSE {}

PulseCount(pattern) ==
    CASE pattern = "Success" -> 2            [] pattern = "EnumerationError" -> 3
      [] pattern = "WrongDevice" -> 4        [] pattern = "HidAllocationError" -> 5
      [] pattern = "ReportDescriptorError" -> 6 [] pattern = "OutputError" -> 7
      [] pattern = "InputError" -> 8         [] pattern = "WrongSpeed" -> 9

Phases == 24

(* LedPattern::level, while wait_for_root_removal counts the phases        *)
Lit(pattern, phase) == phase % Phases < 2 * PulseCount(pattern) /\ phase % 2 = 0

(* The addresses the application gives back before the next device.        *)
Freed(d) ==
    CASE d.speed # "low" -> {}
      [] d.speed = "low" /\ d.reached = 0 -> 1..127
      [] OTHER -> {d.address}
============================================================================
