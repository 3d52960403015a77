---------------------------- MODULE Descriptors ----------------------------
(***************************************************************************)
(* Configuration descriptors as the class discoveries read them            *)
(* (src/usb.rs): the nine-byte header, the iterator that cuts wTotalLength *)
(* bytes into descriptors, and the fields of interface and endpoint        *)
(* descriptors the checks look at.                                         *)
(*                                                                         *)
(* A configuration is a record                                             *)
(*   header : [len, type, value, attributes], as far as it is checked;     *)
(*   total  : wTotalLength;                                                *)
(*   list   : the descriptors after the header, in order.                  *)
(* A descriptor has a type and its length in bytes, len, and                *)
(*   interface : number, alt, endpoints (bNumEndpoints), class (which      *)
(*               stands for class, subclass and protocol);                 *)
(*   endpoint  : number, in, kind, size, interval, plain (no attribute     *)
(*               beyond the transfer type) and clean (no reserved bit in   *)
(*               the address, nor in the size for a class that looks).     *)
(* An optional value is a set of at most one element. A failed walk keeps  *)
(* its error in out; "none" means that it goes on.                         *)
(***************************************************************************)
EXTENDS Naturals, Sequences, SequencesExt, FiniteSetsExt

(* The one member of a slot, or of the set a result is bound through, so   *)
(* that it is computed once.                                               *)
Only(slot) == CHOOSE d \in slot : TRUE

HeaderLen == 9

(* The check of the leading descriptor, before anything else.              *)
HeaderError(conf) ==
    IF conf.header.len # HeaderLen             THEN "InvalidLength"
    ELSE IF conf.header.type # "configuration" THEN "InvalidType"
    ELSE IF conf.total < HeaderLen             THEN "InvalidTotalLength"
    ELSE IF conf.header.value = 0              THEN "InvalidConfigurationValue"
    ELSE IF ~conf.header.attributes            THEN "InvalidAttributes"
    ELSE "none"

(* Where the header and each descriptor after it end.                      *)
Ends(list) == FoldLeft(LAMBDA ends, d : Append(ends, Last(ends) + d.len), <<HeaderLen>>, list)

(* The bytes the device returned.                                          *)
Available(conf) == Last(Ends(conf.list))

(* The descriptors the iterator yields and the error that ends it.         *)
Cut(conf, ends) ==
    LET list == conf.list
        stops == {i \in DOMAIN list : list[i].len < 2 \/ ends[i + 1] > conf.total}
        n == IF stops = {} THEN Len(list) ELSE Min(stops) - 1
        left == conf.total - ends[n + 1]
    IN  [list |-> SubSeq(list, 1, n),
         error |-> IF left = 0 THEN "none"
                   ELSE IF left >= 2 /\ list[n + 1].len < 2 THEN "InvalidDescriptorLength"
                   ELSE "DescriptorOverrun"]

Frames(conf) == Only({Cut(conf, ends) : ends \in {Ends(conf.list)}})

(* What DescriptorIter::new rejects.                                       *)
IterError(conf) ==
    IF HeaderError(conf) # "none" THEN HeaderError(conf)
    ELSE IF Available(conf) < conf.total THEN "DescriptorOverrun" ELSE "none"

Fail(walk, error) == [walk EXCEPT !.out = error]

(* The loop is left, by an error or with a result.                         *)
Ended(walk) == walk.out # "none"

(* One walk over the descriptors: Step until an error, the end of the list *)
(* or an early end, and the iterator's own error last. The fold is written *)
(* out as a function, which the proofs can take apart.                     *)
Walk(Step(_, _), start, conf) ==
    IF IterError(conf) # "none" THEN Fail(start, IterError(conf))
    ELSE LET frames == Frames(conf)
             Advance(walk, d) == IF Ended(walk) THEN walk ELSE Step(walk, d)
             after[n \in 0..Len(frames.list)] ==
                 IF n = 0 THEN start ELSE Advance(after[n - 1], frames.list[n])
             end == after[Len(frames.list)]
         IN  IF Ended(end) THEN end ELSE Fail(end, frames.error)

(* slot.replace(value).is_some() is an error.                              *)
PutOnce(walk, slot, value, error) ==
    IF walk[slot] # {} THEN Fail(walk, error) ELSE [walk EXCEPT ![slot] = {value}]

(***************************************************************************)
(* Interfaces and endpoints                                                *)
(***************************************************************************)
Interface(d)  == d.type = "interface"
WellFormed(d) == d.len = 9

(* An interface descriptor, or what is left of one, that names the         *)
(* alternate setting zero of interface n.                                  *)
Names(d, n) == Interface(d) /\ d.len >= 4 /\ d.number = n /\ d.alt = 0

(* The arm for interface descriptors that the discoveries of CDC-ACM, its  *)
(* data interface and HID share.                                           *)
EnterInterface(walk, d) ==
    IF ~WellFormed(d)
    THEN IF Names(d, walk.want) THEN Fail(walk, "InvalidInterfaceDescriptor")
                                ELSE [walk EXCEPT !.current = {}]
    ELSE LET here == [walk EXCEPT !.current = {d}]
         IN  IF Names(d, walk.want) THEN PutOnce(here, "selected", d, "InvalidInterfaceDescriptor")
                                    ELSE here

InWanted(walk, class) ==
    \E i \in walk.current : i.number = walk.want /\ i.alt = 0 /\ (class = "any" \/ i.class = class)

ParseEndpoint(d) == d.len = 7 /\ d.clean /\ d.number # 0 /\ d.size # 0

BulkSize(size) == size \in {8, 16, 32, 64, 512}

SupportedBulk(d) == d.kind = "bulk" /\ d.plain /\ BulkSize(d.size)

SupportedInterruptIn(d) ==
    d.in /\ d.kind = "interrupt" /\ d.plain /\ d.size <= 64 /\ d.interval # 0

SupportedHidInterrupt(d) ==
    d.kind = "interrupt" /\ d.plain /\ d.size <= 1024 /\ d.interval # 0

Address(d) == <<d.number, d.in>>

(***************************************************************************)
(* A function is discovered candidate by candidate, in the order of their  *)
(* interface descriptors: the first sound one is the result, else the      *)
(* error of the first candidate. The results are indexed by place.         *)
(***************************************************************************)
FirstSound(results, missing) ==
    LET good == {k \in DOMAIN results : results[k].out = "ok"}
    IN  IF good # {} THEN results[Min(good)]
        ELSE IF DOMAIN results # {} THEN results[Min(DOMAIN results)] ELSE [out |-> missing]

(* The candidates: the places of the class' interfaces, each number once.  *)
(* Seven bytes of a malformed one are enough to name it. An error of the   *)
(* framing comes after them.                                               *)
CandidateIn(d, class) == Interface(d) /\ d.len >= 7 /\ d.alt = 0 /\ d.class = class

Candidates(list, class) ==
    LET all == {i \in DOMAIN list : CandidateIn(list[i], class)}
    IN  {i \in all : \A j \in all : j < i => list[j].number # list[i].number}

Results(frames, class, Discovered(_)) ==
    LET candidates == Candidates(frames.list, class)
        last == IF frames.error = "none" THEN {} ELSE {Len(frames.list) + 1}
    IN  [i \in candidates \cup last |->
            IF i \in last THEN [out |-> frames.error]
            ELSE IF WellFormed(frames.list[i]) THEN Discovered(frames.list[i].number)
            ELSE [out |-> "InvalidInterfaceDescriptor"]]

(***************************************************************************)
(* The same layout said without a walk: what belongs to an interface       *)
(* descriptor is what stands between it and the next one. The properties   *)
(* of the discoveries are stated with these.                               *)
(***************************************************************************)
Framed(conf) == IterError(conf) = "none" /\ Frames(conf).error = "none"

Places(list, n) == {i \in DOMAIN list : Names(list[i], n)}

(* Interface n has one alternate setting zero, and it is well formed.      *)
Unique(list, n) == \E i \in Places(list, n) : Places(list, n) = {i} /\ WellFormed(list[i])

PlaceOf(list, n) == CHOOSE i \in Places(list, n) : TRUE

Members(list, i, type) ==
    {j \in (i + 1)..Len(list) : /\ list[j].type = type
                                /\ \A k \in (i + 1)..j : ~Interface(list[k])}
=============================================================================
