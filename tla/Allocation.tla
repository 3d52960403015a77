----------------------------- MODULE Allocation -----------------------------
(***************************************************************************)
(* From a discovered function to its pipes: what the class drivers check   *)
(* before they allocate (src/cdc_acm.rs, src/ftdi.rs, src/hid.rs,          *)
(* src/usbtmc.rs, src/audio.rs) and what the controller's allocator        *)
(* accepts at the speed of the device (validate_pipe, src/pio_host.rs).    *)
(*                                                                         *)
(* A pipe is [kind, in, out, number, size, interval]: the type and         *)
(* direction the driver asks for, and the endpoint it passes. A port is    *)
(* [address, control, speed, split] with control the maximum packet size   *)
(* of endpoint zero.                                                       *)
(***************************************************************************)
EXTENDS CdcAcmDiscovery, HidDiscovery, InterfaceDiscovery

CONSTANT RxCapacity         \* RX_PACKET_CAPACITY of the byte-stream drivers
ASSUME RxCapacityAssumption == RxCapacity \in Nat \ {0}

ControlSizes == {8, 16, 32, 64}

(***************************************************************************)
(* The allocator                                                           *)
(***************************************************************************)
OneWay(p) == p.in # p.out

ValidateControl(p, sizes) == p.number = 0 /\ p.in /\ p.out /\ p.size \in sizes

(* validate_non_control_direction is part of OneWay: a class driver takes  *)
(* the direction from the endpoint itself.                                 *)
ValidateLowSpeed(p) ==
    CASE p.kind = "control"   -> ValidateControl(p, {8})
      [] p.kind = "interrupt" -> OneWay(p) /\ p.number # 0 /\ p.size \in 1..8 /\ p.interval >= 10
      [] p.kind \in {"bulk", "isochronous"} -> FALSE

ValidateFullSpeed(p) ==
    CASE p.kind = "control"     -> ValidateControl(p, ControlSizes)
      [] p.kind = "bulk"        -> OneWay(p) /\ p.number # 0 /\ p.size \in ControlSizes
      [] p.kind = "interrupt"   -> OneWay(p) /\ p.number # 0 /\ p.size \in 1..64 /\ p.interval # 0
      [] p.kind = "isochronous" -> /\ p.in /\ ~p.out /\ p.number # 0
                                   /\ p.size \in 1..100 /\ p.interval # 0

ValidatePipe(p, port) ==
    /\ port.address <= 127
    /\ ~port.split
    /\ p.number <= 15
    /\ CASE port.speed = "low"  -> ValidateLowSpeed(p)
         [] port.speed = "full" -> ValidateFullSpeed(p)
         [] port.speed = "high" -> FALSE

(***************************************************************************)
(* The drivers                                                             *)
(***************************************************************************)
ControlPipe(port) ==
    [kind |-> "control", in |-> TRUE, out |-> TRUE, number |-> 0, size |-> port.control,
     interval |-> 0]

EndpointPipe(d, kind, in) ==
    [kind |-> kind, in |-> in, out |-> ~in, number |-> d.number, size |-> d.size,
     interval |-> d.interval]

InputsValid(port) == port.address <= 127 /\ port.control \in ControlSizes


(* The pipes in the order they are allocated; the first one refused ends   *)
(* the allocation, and those before it are dropped with the error.         *)
Allocate(pipes, port) ==
    IF \A k \in DOMAIN pipes : ValidatePipe(pipes[k], port)
    THEN [out |-> "ok", pipes |-> pipes] ELSE [out |-> "Allocation", pipes |-> <<>>]

Refused(reason) == [out |-> reason, pipes |-> <<>>]

BulkPipes(r, port) ==
    <<ControlPipe(port), EndpointPipe(Only(r.bulkIn), "bulk", TRUE),
      EndpointPipe(Only(r.bulkOut), "bulk", FALSE)>>

(* Mutated form: the capacity is not compared with the endpoint.           *)
AllocateBulkUnchecked(r, port) == Allocate(BulkPipes(r, port), port)

(* An already selected function of the CDC-ACM, FTDI and USBTMC drivers:   *)
(* the capacity of the read buffer is checked before any pipe is allocated.*)
AllocateBulk(r, port) ==
    IF ~InputsValid(port)                    THEN Refused("InvalidInput")
    ELSE IF Only(r.bulkIn).size > RxCapacity THEN Refused("UnsupportedBulkInMaxPacketSize")
    ELSE Allocate(BulkPipes(r, port), port)

AllocateHidInterface(r, port) ==
    LET in == EndpointPipe(Only(r.interruptIn), "interrupt", TRUE)
        outs == IF r.interruptOut = {} THEN <<>>
                ELSE <<EndpointPipe(Only(r.interruptOut), "interrupt", FALSE)>>
    IN  IF ~InputsValid(port)        THEN Refused("InvalidInput")
        ELSE IF in.size \notin 1..64 THEN Refused("UnsupportedInterruptInMaxPacketSize")
        ELSE Allocate(<<ControlPipe(port), in>> \o outs, port)

(* The entry points: the address and the size of endpoint zero are looked  *)
(* at before the configuration, whose discovery results in r. The drivers  *)
(* with a bulk pair do alike.                                              *)
Refusal(r, port) == IF InputsValid(port) THEN r.out ELSE "InvalidInput"

AllocateAcm(r, port) ==
    IF Refusal(r, port) = "ok" THEN AllocateBulk(r, port) ELSE Refused(Refusal(r, port))
AllocateFtdi(r, port) == AllocateAcm(r, port)
AllocateTmc(r, port)  == AllocateAcm(r, port)
AllocateHid(r, port)  ==
    IF Refusal(r, port) = "ok" THEN AllocateHidInterface(r, port) ELSE Refused(Refusal(r, port))

(* The audio driver leaves the address to the allocator.                   *)
AllocateAudio(r, port) ==
    IF port.control \notin ControlSizes THEN Refused("InvalidControlMaxPacketSize")
    ELSE IF r.out # "ok"                THEN Refused(r.out)
    ELSE Allocate(<<ControlPipe(port), EndpointPipe(Only(r.endpoint), "isochronous", TRUE)>>, port)

(* The port as the enumeration describes it, for the entry points that     *)
(* take its result.                                                        *)
PortOf(enumeration) ==
    [address |-> enumeration.device_address, control |-> enumeration.max_packet_size0,
     speed |-> enumeration.speed, split |-> enumeration.split]
=============================================================================
