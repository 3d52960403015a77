---------------------------- MODULE HidDiscovery ----------------------------
(***************************************************************************)
(* HidInterface::discover (src/usb.rs): a HID interface, its one HID       *)
(* descriptor and its interrupt endpoints.                                 *)
(*                                                                         *)
(* A descriptor of type "hid" has short (its length does not fit its       *)
(* count) and reports, the lengths of the report descriptors it announces. *)
(***************************************************************************)
EXTENDS Descriptors

(* HidDescriptor::parse: every announced length is checked on the way to   *)
(* the second report descriptor.                                           *)
HidDescriptorError(d) ==
    IF d.short THEN "InvalidHidDescriptor"
    ELSE LET zero == {k \in DOMAIN d.reports : d.reports[k] = 0}
         IN  IF zero # {} /\ Min(zero) <= 2 THEN "InvalidHidDescriptor"
             ELSE IF Len(d.reports) > 1     THEN "DuplicateReportDescriptor"
             ELSE IF d.reports = <<>>       THEN "MissingReportDescriptor"
             ELSE "none"

StartHid(n) ==
    [out |-> "none", want |-> n, current |-> {}, selected |-> {}, seen |-> 0,
     hid |-> {}, in |-> {}, interruptOut |-> {}]

HidClassDescriptor(walk, d) ==
    IF HidDescriptorError(d) # "none" THEN Fail(walk, HidDescriptorError(d))
    ELSE PutOnce(walk, "hid", d, "DuplicateHidDescriptor")

HidEndpoint(walk, d) ==
    IF ~(ParseEndpoint(d) /\ SupportedHidInterrupt(d)) THEN Fail(walk, "InvalidEndpointDescriptor")
    ELSE LET seen == [walk EXCEPT !.seen = @ + 1]
         IN  IF d.in THEN PutOnce(seen, "in", d, "DuplicateInterruptInEndpoint")
                     ELSE PutOnce(seen, "interruptOut", d, "DuplicateInterruptOutEndpoint")

HidStep(walk, d) ==
    CASE d.type = "interface" -> EnterInterface(walk, d)
      [] d.type = "hid" /\ InWanted(walk, "hid") -> HidClassDescriptor(walk, d)
      [] d.type = "endpoint" /\ InWanted(walk, "hid") -> HidEndpoint(walk, d)
      [] OTHER -> walk

HidResult(end, n) ==
    LET found == Only(end.selected)
        out == IF end.out # "none"            THEN end.out
               ELSE IF end.selected = {}      THEN "MissingInterface"
               ELSE IF found.class # "hid"    THEN "MissingInterface"
               ELSE IF found.endpoints # end.seen \/ found.endpoints \notin {1, 2}
                                              THEN "InvalidEndpointDescriptor"
               ELSE IF end.hid = {}           THEN "MissingHidDescriptor"
               ELSE IF end.in = {}            THEN "MissingInterruptInEndpoint"
               ELSE "ok"
    IN  [out |-> out, number |-> n, hid |-> end.hid,
         interruptIn |-> end.in, interruptOut |-> end.interruptOut]

DiscoverHidCandidate(conf, n) ==
    Only({HidResult(end, n) : end \in {Walk(HidStep, StartHid(n), conf)}})

HidInterfaces(conf) ==
    Results(Frames(conf), "hid", LAMBDA n : DiscoverHidCandidate(conf, n))

DiscoverHidNumbered(conf, n) ==
    IF IterError(conf) # "none" THEN [out |-> IterError(conf)] ELSE DiscoverHidCandidate(conf, n)

DiscoverHid(conf) ==
    IF IterError(conf) # "none" THEN [out |-> IterError(conf)]
    ELSE FirstSound(HidInterfaces(conf), "MissingInterface")

(***************************************************************************)
(* The same interface, told by the layout alone                            *)
(***************************************************************************)
HidEndpoints(list, n) == {list[j] : j \in Members(list, PlaceOf(list, n), "endpoint")}

IsHid(list, n) ==
    LET i == PlaceOf(list, n)
        places == Members(list, i, "endpoint")
        in == {j \in places : list[j].in}
    IN  /\ Unique(list, n)
        /\ list[i].class = "hid"
        /\ \E j \in Members(list, i, "hid") :
              /\ Members(list, i, "hid") = {j}
              /\ ~list[j].short /\ Len(list[j].reports) = 1 /\ list[j].reports[1] # 0
        /\ \A j \in places : ParseEndpoint(list[j]) /\ SupportedHidInterrupt(list[j])
        /\ Cardinality(in) = 1 /\ Cardinality(places \ in) <= 1
        /\ list[i].endpoints = Cardinality(places)

(* Whether r is what discovery should return for interface n of conf: its  *)
(* alternate setting zero with the endpoints of that setting.              *)
IsHidResult(conf, n, r) ==
    LET list == Frames(conf).list
    IN  IF Framed(conf) /\ IsHid(list, n)
        THEN /\ r.out = "ok" /\ r.number = n
             /\ r.interruptIn \cup r.interruptOut = HidEndpoints(list, n)
        ELSE r.out # "ok"

(* Whether r is what discovery should return for conf: the first sound HID *)
(* interface, or an error.                                                 *)
IsFirstHid(conf, r) ==
    LET list == Frames(conf).list
        sound == {n \in {d.number : d \in {e \in ToSet(list) : CandidateIn(e, "hid")}} :
                      IsHid(list, n)}
    IN  IF ~Framed(conf) \/ sound = {} THEN r.out # "ok"
        ELSE /\ r.out = "ok"
             /\ IsHidResult(conf, r.number, r)
             /\ \A n \in sound : PlaceOf(list, r.number) <= PlaceOf(list, n)
=============================================================================
