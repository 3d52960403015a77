----------------------------- MODULE ByteStream -----------------------------
(***************************************************************************)
(* The byte streams of the CDC-ACM and FTDI drivers: read, with its packet *)
(* buffer, and the calls that discard it (src/cdc_acm.rs, src/ftdi.rs).    *)
(* A caller drops a read at its await; the packet the pipe had then        *)
(* acknowledged is lost, and so is that of a read that fails.              *)
(***************************************************************************)
EXTENDS Naturals, Sequences, SequencesExt

CONSTANTS
    PacketSize,     \* max_packet_size of the bulk-IN endpoint
    Words           \* what the bytes of the device's answers stand for

ASSUME ByteStreamAssumption == PacketSize \in Nat \ 0..2

VARIABLES
    driver,     \* "cdc" or "ftdi"
    wire,       \* what the device is to send
    rx_packet,  \* the packet buffer, rx_packet[rx_start..rx_end] unread
    rx_start,
    rx_end,
    reading,    \* the room of the read that waits for a packet, or 0
    reply       \* how the last call ended

streamVars == <<driver, wire, rx_packet, rx_start, rx_end, reading, reply>>

(* A byte stands for a part of what was sent as the answer to a command.   *)
AnyWord == Words \cup {"modem", "line"}
Byte == [word : AnyWord, of : Nat]

ModemStatus == [word |-> "modem", of |-> 0]
LineStatus == [word |-> "line", of |-> 0]

(* An FTDI packet starts with two bytes of modem and line status.          *)
Status == IF driver = "ftdi" THEN <<ModemStatus, LineStatus>> ELSE <<>>

StreamInit ==
    /\ driver \in {"cdc", "ftdi"}
    /\ wire = <<>> /\ rx_packet = <<>> /\ rx_start = 0 /\ rx_end = 0
    /\ reading = 0 /\ reply = [call |-> "none", bytes |-> <<>>]

Unread == SubSeq(rx_packet, rx_start + 1, rx_end)
From(bytes, k) == SubSeq(bytes, k + 1, Len(bytes))

(* copy_buffered_read, copy_buffered. What has been read of a packet is    *)
(* forgotten: the next one overwrites it.                                  *)
CopyBuffered(room, packet, start, end) ==
    LET count == IF room < end - start THEN room ELSE end - start
        taken == start + count
    IN  /\ reply' = [call |-> "read", bytes |-> SubSeq(packet, start + 1, taken)]
        /\ rx_packet' = IF taken = end THEN <<>> ELSE packet
        /\ rx_start' = IF taken = end THEN 0 ELSE taken
        /\ rx_end' = IF taken = end THEN 0 ELSE end

(* read, up to its await. A read without room returns 0 and does nothing.  *)
ReadCall(room) ==
    /\ reading = 0 /\ room > 0
    /\ IF rx_start # rx_end
       THEN CopyBuffered(room, rx_packet, rx_start, rx_end) /\ UNCHANGED reading
       ELSE reading' = room /\ UNCHANGED <<rx_packet, rx_start, rx_end, reply>>
    /\ UNCHANGED <<driver, wire>>

(* Mutated form: a packet that does not fit is not kept.                   *)
ArriveOnce(packet) ==
    IF Len(packet) <= Len(Status)
    THEN UNCHANGED <<rx_packet, rx_start, rx_end, reading, reply>>
    ELSE /\ CopyBuffered(reading, packet, Len(Status),
                         IF Len(packet) < reading + Len(Status) THEN Len(packet)
                         ELSE reading + Len(Status))
         /\ reading' = 0

(* What read does with a packet: one without payload, which is no end of   *)
(* the stream, is skipped.                                                 *)
Arrive(packet) ==
    IF Len(packet) <= Len(Status)
    THEN UNCHANGED <<rx_packet, rx_start, rx_end, reading, reply>>
    ELSE CopyBuffered(reading, packet, Len(Status), Len(packet)) /\ reading' = 0

(* request_in returns: a packet with the next k bytes, or a packet of a    *)
(* byte or none.                                                           *)
Receive ==
    /\ reading # 0
    /\ \/ \E k \in 0..Len(wire) :
             /\ Len(Status) + k <= PacketSize
             /\ Arrive(Status \o SubSeq(wire, 1, k))
             /\ wire' = From(wire, k)
       \/ driver = "ftdi" /\ Arrive(<<ModemStatus>>) /\ UNCHANGED wire
    /\ UNCHANGED driver

(* request_in fails, or the caller drops the read. (request_in returns     *)
(* BufferOverflow for a packet that is too long, which is an error too.)   *)
Broken(how) ==
    /\ reading # 0
    /\ reading' = 0
    /\ reply' = [call |-> how, bytes |-> <<>>]
    /\ \E k \in 0..Len(wire) : Len(Status) + k <= PacketSize /\ wire' = From(wire, k)
    /\ UNCHANGED <<driver, rx_packet, rx_start, rx_end>>

Discard ==
    /\ reading = 0
    /\ rx_packet' = <<>> /\ rx_start' = 0 /\ rx_end' = 0
    /\ reply' = [call |-> "cleared", bytes |-> <<>>]
    /\ UNCHANGED <<driver, reading>>

(* reset_data_toggles and into_parts: the driver's buffer goes, and the    *)
(* device's does not.                                                      *)
ResetDataToggles == Discard /\ UNCHANGED wire

(* reset and purge_rx of the FTDI driver: the device's buffer goes first.  *)
Purge == driver = "ftdi" /\ Discard /\ wire' = <<>>

(* The same when the request fails or is dropped: the buffer is kept,      *)
(* whether or not the device has purged.                                   *)
PurgeBroken ==
    /\ driver = "ftdi" /\ reading = 0
    /\ reply' = [call |-> "failed", bytes |-> <<>>]
    /\ wire' \in {wire, <<>>}
    /\ UNCHANGED <<driver, rx_packet, rx_start, rx_end, reading>>

Calls == {"none", "read", "failed", "dropped", "cleared"}

(* The buffer has no more than a packet, and a read waits for a packet only *)
(* while all of the one before is read.                                    *)
StreamOK ==
    /\ driver \in {"cdc", "ftdi"}
    /\ wire \in Seq(Byte) /\ rx_packet \in Seq(Byte) /\ Len(rx_packet) <= PacketSize
    /\ rx_end \in 0..Len(rx_packet) /\ rx_start \in 0..rx_end
    /\ (rx_start = rx_end => rx_end = 0)
    /\ reading \in Nat /\ (reading # 0 => rx_end = 0)
    /\ reply \in [call : Calls, bytes : Seq(Byte)]

Channel == INSTANCE ByteChannel WITH stream <- Unread \o wire
=============================================================================
