--------------------------- MODULE ClassRequests ---------------------------
(***************************************************************************)
(* The control requests of the class drivers: SetupRequest and             *)
(* CdcLineCoding (src/usb.rs) and the calls that send them (src/cdc_acm.rs,*)
(* hid.rs, ftdi.rs, usbtmc.rs, audio.rs). A call is refused, or it is a    *)
(* control transfer: eight setup bytes, and the data to send or the room   *)
(* to receive.                                                             *)
(***************************************************************************)
EXTENDS FtdiRate

LowByte(n)  == n % 256
HighByte(n) == (n \div 256) % 256
Flag(b) == IF b THEN 1 ELSE 0

(* SetupRequest::to_bytes                                                  *)
Setup(type, request, value, index, length) ==
    <<type, request, LowByte(value), HighByte(value), LowByte(index), HighByte(index),
      LowByte(length), HighByte(length)>>

ControlIn(setup, room)  == [out |-> "control_in", setup |-> setup, room |-> room]
ControlOut(setup, data) == [out |-> "control_out", setup |-> setup, data |-> data]
Rejected(error)          == [out |-> "refused", error |-> error]

(* A device or interface request that sets something and has no data.      *)
Set(type, request, value, index) == ControlOut(Setup(type, request, value, index, 0), <<>>)

(***************************************************************************)
(* Line codings                                                            *)
(***************************************************************************)
StopBits == <<"One", "OnePointFive", "Two">>
Parities == <<"None", "Odd", "Even", "Mark", "Space">>
Code(names, name) == (CHOOSE i \in DOMAIN names : names[i] = name) - 1

(* data_terminal_rate stands for its four bytes.                           *)
LineCoding(rate, stop, parity, bits) ==
    [rate |-> rate, stop |-> stop, parity |-> parity, bits |-> bits]

ValidCoding(coding) == coding.bits \in {5, 6, 7, 8, 16}

CodingBytes(coding) ==
    coding.rate \o <<Code(StopBits, coding.stop), Code(Parities, coding.parity), coding.bits>>

CodingFrom(bytes) ==
    IF Len(bytes) # 7                            THEN Rejected("InvalidLength")
    ELSE IF bytes[5] \notin 0..2                 THEN Rejected("InvalidStopBits")
    ELSE IF bytes[6] \notin 0..4                 THEN Rejected("InvalidParity")
    ELSE IF bytes[7] \notin {5, 6, 7, 8, 16}     THEN Rejected("InvalidDataBits")
    ELSE [out |-> "ok", coding |-> LineCoding(SubSeq(bytes, 1, 4), StopBits[bytes[5] + 1],
                                              Parities[bytes[6] + 1], bytes[7])]

(***************************************************************************)
(* CDC-ACM. f is the function: its control interface, and what its ACM     *)
(* descriptor says it supports.                                            *)
(***************************************************************************)
SetLineCoding(f, coding) ==
    IF ~f.line_requests          THEN Rejected("LineRequestsUnsupported")
    ELSE IF ~ValidCoding(coding) THEN Rejected("InvalidDataBits")
    ELSE ControlOut(Setup(33, 32, 0, f.control, 7), CodingBytes(coding))

GetLineCoding(f) ==
    IF ~f.line_requests THEN Rejected("LineRequestsUnsupported")
    ELSE ControlIn(Setup(161, 33, 0, f.control, 7), 7)

SetControlLineState(f, dtr, rts) ==
    IF ~f.line_requests THEN Rejected("LineRequestsUnsupported")
    ELSE Set(33, 34, Flag(dtr) + 2 * Flag(rts), f.control)

SendBreak(f, duration) ==
    IF ~f.send_break THEN Rejected("SendBreakUnsupported") ELSE Set(33, 35, duration, f.control)

(***************************************************************************)
(* HID. n is the interface.                                                *)
(***************************************************************************)
ReportTypes == <<"Input", "Output", "Feature">>

(* Mutated form: the report type is not shifted above the identifier.      *)
ReportValueUnshifted(type, id) == Code(ReportTypes, type) + 1 + id

ReportValue(type, id) == (Code(ReportTypes, type) + 1) * 256 + id

GetReportDescriptor(n, expected, room) ==
    IF room < expected THEN Rejected("ReportDescriptorBufferTooSmall")
    ELSE ControlIn(Setup(129, 6, 34 * 256, n, expected), expected)

GetReport(n, type, id, room) ==
    IF room >= 2^16 THEN Rejected("RequestTooLong")
    ELSE ControlIn(Setup(161, 1, ReportValue(type, id), n, room), room)

SetReport(n, type, id, report) ==
    IF Len(report) >= 2^16 THEN Rejected("RequestTooLong")
    ELSE ControlOut(Setup(33, 9, ReportValue(type, id), n, Len(report)), report)

GetIdle(n, id) == ControlIn(Setup(161, 2, id, n, 1), 1)
SetIdle(n, id, duration) == Set(33, 10, duration * 256 + id, n)
GetProtocol(n) == ControlIn(Setup(161, 3, 0, n, 1), 1)
SetProtocol(n, protocol) == Set(33, 11, IF protocol = "Boot" THEN 0 ELSE 1, n)

(***************************************************************************)
(* FTDI. channel is what usb_index returns; baud rates are in FtdiRate.    *)
(***************************************************************************)
VendorOut(request, value, index) == Set(64, request, value, index)

SioReset == VendorOut(0, 0, 0)
PurgeRx(channel) == VendorOut(0, 2, channel)
PurgeTx(channel) == VendorOut(0, 1, channel)

VendorBaudRate(chip, channel, baud) ==
    LET set == SetBaudRate(baud, chip, channel)
    IN  IF set.out = "ok" THEN VendorOut(3, set.value, set.index) ELSE Rejected(set.out)

SetLineProperties(channel, bits, stop, parity, break_enabled) ==
    IF bits \notin {7, 8} THEN Rejected("InvalidDataBits")
    ELSE VendorOut(4, bits + Code(Parities, parity) * 2^8 + Code(StopBits, stop) * 2^11
                      + Flag(break_enabled) * 2^14, channel)

(* channel is below 256, so the disjunction with it is a sum.              *)
SetFlowControl(channel, flow, xon, xoff) ==
    VendorOut(2, IF flow = "XonXoff" THEN xon + xoff * 256 ELSE 0,
              channel + 256 * [Disabled |-> 0, RtsCts |-> 1, DtrDsr |-> 2, XonXoff |-> 4][flow])

SetDtrRts(channel, dtr, rts) == VendorOut(1, 768 + Flag(dtr) + 2 * Flag(rts), channel)

(* configure_8n1: six requests, in this order; the baud rate may be        *)
(* refused after the first three.                                          *)
Configure8n1(chip, channel, baud) ==
    <<SioReset, PurgeTx(channel), PurgeRx(channel), VendorBaudRate(chip, channel, baud),
      SetLineProperties(channel, 8, "One", "None", FALSE), SetFlowControl(channel, "Disabled", 0, 0)>>

(***************************************************************************)
(* USBTMC and audio                                                        *)
(***************************************************************************)
GetCapabilities(n) == ControlIn(Setup(161, 7, 0, n, 24), 24)
RemoteEnable(n, enabled) == ControlIn(Setup(161, 160, Flag(enabled), n, 1), 1)

SelectAlternate(n, alternate) == Set(1, 11, alternate, n)
SetSampleRate(address) == ControlOut(Setup(34, 1, 256, address, 3), <<128, 187, 0>>)

(***************************************************************************)
(* Answers: how many bytes came, and the first of them                     *)
(***************************************************************************)
WholeAnswer(call, received, error) == IF received # call.room THEN error ELSE "ok"

ProtocolAnswer(n, received, first) ==
    IF received # 1            THEN "UnexpectedControlResponseLength"
    ELSE IF first \notin {0, 1} THEN "InvalidProtocol" ELSE "ok"

CapabilitiesAnswer(received, first) ==
    IF received # 24 \/ first # 1 THEN "InvalidCapabilities" ELSE "ok"

RemoteEnableAnswer(received, first) ==
    IF received # 1 \/ first # 1 THEN "InvalidControlStatus" ELSE "ok"
=============================================================================
