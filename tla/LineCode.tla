------------------------------ MODULE LineCode ------------------------------
(***************************************************************************)
(* Packets on the wire: bit stuffing and NRZI in the library               *)
(* (EncodedPacket, decode_nrzi; src/usb.rs) and in the PIO programs of the *)
(* packet engine (src/pio_host/rp2040.rs), the CRCs, and parse_packet.     *)
(*                                                                         *)
(* Bytes are sequences of eight bits, least significant first, and a       *)
(* packet is the sequence of its bits. Line states are "J" and "K".        *)
(***************************************************************************)
EXTENDS Naturals, Sequences, SequencesExt

CONSTANTS
    MaxDecodedBytes,        \* MAX_DECODED_BYTES
    MaxEncodedBytes         \* MAX_ENCODED_BYTES, each of four commands

ASSUME LineCodeAssumption ==
    MaxDecodedBytes \in Nat \ 0..3 /\ MaxEncodedBytes \in Nat \ {0}

BitsOf(n, width) == [i \in 1..width |-> (n \div 2^(i - 1)) % 2 = 1]

Other(line) == IF line = "J" THEN "K" ELSE "J"

(***************************************************************************)
(* EncodedPacket::encode. The commands are named as in the source: the     *)
(* command K is sent while the line is to be J.                            *)
(***************************************************************************)
Command(line) == IF line = "J" THEN "K" ELSE "J"

(* Mutated form: no zero is stuffed.                                       *)
EncodeBitUnstuffed(sent, bit) ==
    LET line == IF bit THEN sent.line ELSE Other(sent.line)
    IN  [line |-> line, ones |-> 0, commands |-> Append(sent.commands, Command(line))]

EncodeBit(sent, bit) ==
    LET line == IF bit THEN sent.line ELSE Other(sent.line)
        ones == IF bit THEN sent.ones + 1 ELSE 0
        plain == Append(sent.commands, Command(line))
    IN  IF ones = 6
        THEN [line |-> Other(line), ones |-> 0,
              commands |-> Append(plain, Command(Other(line)))]
        ELSE [line |-> line, ones |-> ones, commands |-> plain]

(***************************************************************************)
(* decode_nrzi                                                             *)
(***************************************************************************)
DecodeState(got, line) ==
    LET one == line = got.previous
        Next(ones, bits, error) ==
            [previous |-> line, ones |-> ones, bits |-> bits, error |-> error]
    IN  IF got.error # "none" THEN got
        ELSE IF got.ones = 6  THEN Next(IF one THEN 6 ELSE 0, got.bits, IF one THEN "BitStuff" ELSE "none")
        ELSE IF Len(got.bits) >= 8 * MaxDecodedBytes THEN Next(got.ones, got.bits, "PacketTooLong")
        ELSE Next(IF one THEN got.ones + 1 ELSE 0, Append(got.bits, one), "none")

(***************************************************************************)
(* The PIO programs. The transmitter counts the ones down in y and falls   *)
(* through to a level change after the sixth; the receiver drops whatever  *)
(* follows six ones, keeps the line's last level in x, and is clocked by   *)
(* the edge detector once a bit.                                           *)
(***************************************************************************)
TransmitBit(sm, bit) ==
    LET held == Append(sm.lines, sm.line)
        Changed(lines) == [line |-> Other(sm.line), y |-> 5, lines |-> Append(lines, Other(sm.line))]
    IN  IF ~bit          THEN Changed(sm.lines)
        ELSE IF sm.y # 0 THEN [line |-> sm.line, y |-> sm.y - 1, lines |-> held]
        ELSE Changed(held)

ReceiveState(sm, line) ==
    LET Got(x, y, bits) == [x |-> x, y |-> y, bits |-> bits]
    IN  IF sm.y = 0         THEN Got(Other(sm.x), 6, sm.bits)
        ELSE IF line = sm.x THEN Got(sm.x, sm.y - 1, Append(sm.bits, TRUE))
        ELSE Got(Other(sm.x), 6, Append(sm.bits, FALSE))

(***************************************************************************)
(* Each of the four reads one symbol after another.                        *)
(***************************************************************************)
CoderStart(coder) ==
    CASE coder = "encoder"     -> [line |-> "J", ones |-> 0, commands |-> <<>>]
      [] coder = "decoder"     -> [previous |-> "J", ones |-> 0, bits |-> <<>>, error |-> "none"]
      [] coder = "transmitter" -> [line |-> "J", y |-> 5, lines |-> <<>>]
      [] coder = "receiver"    -> [x |-> "J", y |-> 6, bits |-> <<>>]

CoderStep(coder, state, symbol) ==
    CASE coder = "encoder"     -> EncodeBit(state, symbol)
      [] coder = "decoder"     -> DecodeState(state, symbol)
      [] coder = "transmitter" -> TransmitBit(state, symbol)
      [] coder = "receiver"    -> ReceiveState(state, symbol)

Coded(coder, symbols) ==
    LET after[n \in 0..Len(symbols)] ==
            IF n = 0 THEN CoderStart(coder) ELSE CoderStep(coder, after[n - 1], symbols[n])
    IN  after[Len(symbols)]

(* The commands with the end of packet, padded to a full FIFO byte; <<>>   *)
(* stands for EncodeError.                                                 *)
Encode(bits) ==
    LET body == Coded("encoder", bits).commands
        ended == body \o <<"Se0", "Release">>
        padding == [i \in 1..((4 - (Len(ended) % 4)) % 4) |-> "K"]
    IN  IF Len(ended \o padding) > 4 * MaxEncodedBytes THEN <<>> ELSE ended \o padding

(* The line states before the end of packet.                               *)
Driven(commands) ==
    LET end == CHOOSE i \in DOMAIN commands : commands[i] = "Se0"
                   /\ \A j \in 1..(i - 1) : commands[j] # "Se0"
    IN  [i \in 1..(end - 1) |-> IF commands[i] = "K" THEN "J" ELSE "K"]

DecodeNrzi(lines) ==
    LET end == Coded("decoder", lines)
    IN  IF end.error = "none" /\ Len(end.bits) % 8 # 0
        THEN [end EXCEPT !.error = "TruncatedByte"] ELSE end

PioTransmit(bits) == Coded("transmitter", bits).lines

PioReceive(lines) == Coded("receiver", lines).bits

(***************************************************************************)
(* Checksums: shift registers, the next bit out at place 1                 *)
(***************************************************************************)
Crc5Step(crc, bit) ==
    LET mix == crc[1] # bit
    IN  <<crc[2], crc[3], crc[4] # mix, crc[5], mix>>

Crc16Step(crc, bit) ==
    LET mix == crc[1] # bit
    IN  [i \in 1..16 |-> IF i = 16 THEN mix
                         ELSE IF i \in {1, 14} THEN crc[i + 1] # mix ELSE crc[i + 1]]

Invert(bits) == [i \in DOMAIN bits |-> ~bits[i]]

Crc5(token) == Invert(FoldLeft(Crc5Step, BitsOf(31, 5), token))

Crc16(payload) == Invert(FoldLeft(Crc16Step, BitsOf(65535, 16), payload))

(***************************************************************************)
(* Packets                                                                 *)
(***************************************************************************)
Sync == BitsOf(128, 8)

(* The four bits of each packet identifier, without their complement.      *)
PidCode == [out |-> 1, in |-> 9, setup |-> 13, sof |-> 5, data0 |-> 3, data1 |-> 11,
            ack |-> 2, nak |-> 10, stall |-> 14]
Tokens     == {"out", "in", "setup", "sof"}
DataPids   == {"data0", "data1"}
Handshakes == {"ack", "nak", "stall"}

PidBits(pid) == BitsOf(PidCode[pid], 4) \o Invert(BitsOf(PidCode[pid], 4))

Handshake(pid) == Sync \o PidBits(pid)

(* sof_packet and token_packet: eleven bits, a frame number or an address  *)
(* and an endpoint.                                                        *)
Token(pid, value) == Sync \o PidBits(pid) \o value \o Crc5(value)

SofValue(frame) == BitsOf(frame % 2^11, 11)

TokenValue(address, endpoint) == BitsOf(address % 2^7, 7) \o BitsOf(endpoint % 2^4, 4)

(* RawDataPacket::new; <<>> stands for PayloadTooLong.                     *)
Data(pid, payload) ==
    IF Len(payload) > 8 * (MaxDecodedBytes - 4) THEN <<>>
    ELSE Sync \o PidBits(pid) \o payload \o Crc16(payload)

(* parse_packet on the bits of whole bytes.                                *)
Parse(bits) ==
    LET pid == SubSeq(bits, 9, 16)
        known == {p \in DOMAIN PidCode : PidBits(p) = pid}
        name == CHOOSE p \in known : TRUE
        value == SubSeq(bits, 17, 27)
        payload == SubSeq(bits, 17, Len(bits) - 16)
        size == Len(bits)
        error == IF size < 16                              THEN "TooShort"
                 ELSE IF SubSeq(bits, 1, 8) # Sync         THEN "InvalidSync"
                 ELSE IF SubSeq(pid, 1, 4) # Invert(SubSeq(pid, 5, 8)) THEN "InvalidPid"
                 ELSE IF known = {}                        THEN "UnsupportedPid"
                 ELSE IF name \in Handshakes
                 THEN IF size # 16 THEN "InvalidLength" ELSE "none"
                 ELSE IF name \in Tokens
                 THEN IF size # 32 THEN "InvalidLength"
                      ELSE IF Crc5(value) # SubSeq(bits, 28, 32) THEN "InvalidCrc5" ELSE "none"
                 ELSE IF size < 32 THEN "InvalidLength"
                 ELSE IF Crc16(payload) # SubSeq(bits, size - 15, size)
                 THEN "InvalidCrc16" ELSE "none"
    IN  IF error # "none" THEN [error |-> error]
        ELSE [error |-> "none", pid |-> name,
              value |-> IF name \in Tokens THEN value
                        ELSE IF name \in DataPids THEN payload ELSE <<>>]
=============================================================================
