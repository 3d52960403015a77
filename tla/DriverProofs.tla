---------------------------- MODULE DriverProofs ----------------------------
(***************************************************************************)
(* Proofs about the drivers: the message exchange of USBTMC, for every     *)
(* packet size, header, alignment and number of tags; and, of the library, *)
(* the line code for every string of bytes, the baud rates of the FTDI     *)
(* chips for every rate, the discoveries and their pipes, the control      *)
(* requests, and the commands of the K8055 board.                          *)
(***************************************************************************)
EXTENDS UsbtmcExchange, MC_Library, SequenceTheorems, FiniteSetTheorems, TLAPS

(***************************************************************************)
(* Arithmetic                                                              *)
(***************************************************************************)
LEMMA Quotient ==
    ASSUME NEW a \in Nat, NEW b \in Nat \ {0}
    PROVE  /\ a \div b \in Nat
           /\ (a \div b) * b <= a
           /\ a < (a \div b) * b + b
  BY SMT

LEMMA NoNearer ==
    ASSUME NEW k \in Nat, NEW q \in Nat, NEW b \in Nat \ {0}, q * b < k * b + b
    PROVE  q <= k
<1>1. SUFFICES ASSUME q >= k + 1 PROVE FALSE
  BY SMT
<1>2. q * b >= (k + 1) * b
  BY <1>1, SMT
<1> QED BY <1>2, SMT

LEMMA Multiple ==
    ASSUME NEW m \in Nat, NEW b \in Nat \ {0}, m % b = 0
    PROVE  m = (m \div b) * b
  BY SMT

LEMMA ProductIsMultiple ==
    ASSUME NEW k \in Nat, NEW b \in Nat \ {0}
    PROVE  (k * b) % b = 0
  BY SMT

LEMMA MultiplesSubtract ==
    ASSUME NEW m \in Nat, NEW n \in Nat, NEW b \in Nat \ {0}, m % b = 0, n % b = 0, n <= m
    PROVE  (m - n) % b = 0
<1>1. m = (m \div b) * b /\ n = (n \div b) * b /\ m \div b \in Nat /\ n \div b \in Nat
  BY Multiple, Quotient
<1> DEFINE j == m \div b
           l == n \div b
<1>2. l <= j
  <2> HIDE DEF j, l
  <2>1. l * b < j * b + b /\ j \in Nat /\ l \in Nat
    BY <1>1 DEF j, l
  <2> QED BY <2>1, NoNearer
<1>3. m - n = (j - l) * b /\ j - l \in Nat
  BY <1>1, <1>2, SMT
<1> HIDE DEF j, l
<1> QED BY <1>3, ProductIsMultiple

(***************************************************************************)
(* Messages                                                                *)
(***************************************************************************)
LEMMA Sizes ==
    /\ Header \in Nat \ {0} /\ Align \in Nat \ {0} /\ TagCount \in Nat \ {0}
    /\ Mps \in Nat \ {0} /\ Mps >= Header /\ Mps % Align = 0 /\ Header % Align = 0
    /\ MaxTags \in Nat
  BY FramingAssumption

(* Padded(n) is the next multiple of the alignment from n on.              *)
LEMMA PaddedIsNext ==
    ASSUME NEW n \in Nat
    PROVE  /\ Padded(n) \in Nat /\ Padded(n) >= n
           /\ \A m \in Nat : m % Align = 0 /\ m >= n => m >= Padded(n)
<1> DEFINE q == (n + Align - 1) \div Align
<1>1. n + Align - 1 \in Nat /\ Align \in Nat \ {0}
  BY Sizes
<1>2. q \in Nat /\ q * Align <= n + Align - 1 /\ n + Align - 1 < q * Align + Align
  BY <1>1, Quotient
<1>3. Padded(n) = q * Align
  BY DEF Padded
<1> HIDE DEF q
<1>4. Padded(n) \in Nat /\ Padded(n) >= n
  BY <1>1, <1>2, <1>3
<1>5. ASSUME NEW m \in Nat, m % Align = 0, m >= n PROVE m >= Padded(n)
  <2> DEFINE k == m \div Align
  <2>1. m = k * Align /\ k \in Nat
    BY <1>1, <1>5, Multiple, Quotient
  <2> HIDE DEF k
  <2>2. q * Align < k * Align + Align
    BY <1>1, <1>2, <1>5, <2>1
  <2>3. q <= k
    BY <1>1, <1>2, <2>1, <2>2, NoNearer
  <2>4. q * Align <= k * Align
    BY <1>1, <1>2, <2>1, <2>3
  <2> QED BY <1>3, <2>1, <2>4
<1> QED BY <1>4, <1>5

LEMMA NumberOfPacket ==
    ASSUME NEW p \in Packet
    PROVE  p.number \in Nat /\ p.number \in 1 .. MaxTags /\ p.tag \in 1 .. TagCount
           /\ p.size \in Nat /\ p.total \in Nat /\ p.start \in Nat /\ p.eom \in BOOLEAN
<1>1. p.number \in 1 .. MaxTags /\ p.tag \in 1 .. TagCount
      /\ p.size \in Nat /\ p.total \in Nat /\ p.start \in Nat /\ p.eom \in BOOLEAN
  BY DEF Packet
<1> QED BY <1>1

LEMMA LengthOfPacket ==
    ASSUME NEW p \in Packet, p.start <= p.total
    PROVE  /\ Length(p) \in 0 .. Mps
           /\ Length(p) = Mps <=> p.total - p.start >= Mps
           /\ Length(p) # Mps => Length(p) = p.total - p.start
  BY Sizes DEF Packet, Length, Least

(* The packets of a response are chained from its header to its end.       *)
IsResponse(s, r, n) ==
    /\ s \in Seq(Packet) /\ Len(s) > 0
    /\ \A i \in 1 .. Len(s) :
          /\ s[i].tag = r.tag /\ s[i].number = r.number /\ s[i].size = n
          /\ Sized(s[i])
          /\ s[i].start = 0 <=> i = 1
          /\ Length(s[i]) = Mps <=> i < Len(s)
          /\ i < Len(s) => s[i + 1] = [s[i] EXCEPT !.start = @ + Mps]

LEMMA ResponseIsChained ==
    ASSUME NEW r \in Request, NEW n \in Nat, NEW wire \in {n, Padded(n)}, NEW eom \in BOOLEAN,
           NEW s, s = Response(r, n, wire, eom)
    PROVE  IsResponse(s, r, n)
<1> DEFINE total == Header + wire
           last == total \div Mps
           packet(i) == [tag |-> r.tag, number |-> r.number, size |-> n, eom |-> eom,
                         total |-> total, start |-> (i - 1) * Mps]
<1>1. wire \in Nat /\ wire >= n
  BY PaddedIsNext
<1>2. total \in Nat /\ Mps \in Nat \ {0}
  BY <1>1, Sizes
<1>3. last \in Nat /\ last * Mps <= total /\ total < last * Mps + Mps
  BY <1>2, Quotient
<1>4. s = [i \in 1 .. last + 1 |-> packet(i)]
  BY DEF Response
<1>5. ASSUME NEW i \in 1 .. last + 1 PROVE packet(i) \in Packet
  <2>1. (i - 1) * Mps \in Nat
    BY <1>2, <1>3
  <2> QED BY <1>1, <1>2, <2>1 DEF Request, Packet
<1>6. s \in Seq(Packet) /\ Len(s) = last + 1
  <2>1. s \in [1 .. last + 1 -> Packet]
    BY <1>4, <1>5
  <2> QED BY <2>1, <1>3, LenProperties
<1>7. ASSUME NEW i \in 1 .. Len(s)
      PROVE  /\ s[i].tag = r.tag /\ s[i].number = r.number /\ s[i].size = n
             /\ Sized(s[i])
             /\ s[i].start = 0 <=> i = 1
             /\ Length(s[i]) = Mps <=> i < Len(s)
             /\ i < Len(s) => s[i + 1] = [s[i] EXCEPT !.start = @ + Mps]
  <2>1. i \in 1 .. last + 1 /\ s[i] = packet(i)
    BY <1>4, <1>6, <1>7
  <2> HIDE DEF last
  <2>2. (i - 1) * Mps \in Nat /\ (i - 1) * Mps <= last * Mps
    BY <1>2, <1>3, <2>1, SMT
  <2>3. (i - 1) * Mps = 0 <=> i = 1
    BY <1>2, <1>3, <2>1, SMT
  <2>4. i <= last <=> (i - 1) * Mps + Mps <= total
    BY <1>2, <1>3, <2>1, SMT
  <2>5. i * Mps = (i - 1) * Mps + Mps
    BY <1>2, <1>3, <2>1, SMT
  <2>6. (i - 1) * Mps % Align = 0
    <3> DEFINE k == i - 1
               q == Mps \div Align
    <3>1. Mps = q * Align /\ q \in Nat /\ k \in Nat /\ Align \in Nat \ {0}
      BY <2>1, <1>3, Sizes, Multiple, Quotient
    <3>2. (k * q) * Align = k * Mps /\ k * q \in Nat
      <4> HIDE DEF k, q
      <4>1. k * (q * Align) = (k * q) * Align
        BY <3>1, SMT
      <4> QED BY <3>1, <4>1
    <3> QED BY <3>1, <3>2, ProductIsMultiple
  <2>7. s[i].tag = r.tag /\ s[i].number = r.number /\ s[i].size = n /\ s[i].total = total
        /\ s[i].start = (i - 1) * Mps
    BY <2>1
  <2>8. Sized(s[i])
    <3>1. s[i].total \in {Header + s[i].size, Header + Padded(s[i].size)}
      BY <2>7
    <3>2. s[i].start <= s[i].total
      BY <2>2, <2>7, <1>2, <1>3
    <3>3. s[i].start % Align = 0
      BY <2>6, <2>7
    <3> QED BY <3>1, <3>2, <3>3 DEF Sized
  <2>9. Length(s[i]) = Mps <=> i < Len(s)
    BY <2>2, <2>4, <2>7, <1>2, <1>3, <1>6 DEF Length, Least
  <2>10. i < Len(s) => s[i + 1] = [s[i] EXCEPT !.start = @ + Mps]
    <3>1. SUFFICES ASSUME i < Len(s) PROVE s[i + 1] = [s[i] EXCEPT !.start = @ + Mps]
      OBVIOUS
    <3>2. s[i + 1] = packet(i + 1)
      BY <1>3, <1>4, <1>6, <2>1, <3>1
    <3>3. packet(i + 1).start = (i - 1) * Mps + Mps
      BY <2>5, <2>1, <1>3
    <3> QED BY <2>1, <3>2, <3>3
  <2> QED BY <2>3, <2>7, <2>8, <2>9, <2>10
<1> QED BY <1>3, <1>6, <1>7 DEF IsResponse

(***************************************************************************)
(* The queues                                                              *)
(***************************************************************************)
Queued == requests \in Seq(Request) /\ packets \in Seq(Packet)

LEMMA OnTheWayType ==
    ASSUME Queued, NEW x \in OnTheWay
    PROVE  x.tag \in 1 .. TagCount /\ x.number \in 1 .. MaxTags
<1>1. CASE x \in ToSet(requests)
  <2>1. PICK i \in 1 .. Len(requests) : x = requests[i]
    BY <1>1, LenProperties DEF ToSet, Queued
  <2>2. requests[i] \in Request
    BY <2>1, ElementOfSeq DEF Queued
  <2> QED BY <2>1, <2>2 DEF Request
<1>2. CASE x \in ToSet(packets)
  <2>1. PICK i \in 1 .. Len(packets) : x = packets[i]
    BY <1>2, LenProperties DEF ToSet, Queued
  <2>2. packets[i] \in Packet
    BY <2>1, ElementOfSeq DEF Queued
  <2> QED BY <2>1, <2>2 DEF Packet
<1> QED BY <1>1, <1>2 DEF OnTheWay

LEMMA PacketIsOnTheWay ==
    ASSUME Queued, NEW i \in DOMAIN packets
    PROVE  packets[i] \in OnTheWay /\ packets[i] \in Packet /\ i \in 1 .. Len(packets)
<1>1. i \in 1 .. Len(packets)
  BY LenProperties DEF Queued
<1> QED BY <1>1, ElementOfSeq DEF Queued, OnTheWay, ToSet

(* The packet at the head is taken. A full one leaves the next one of its  *)
(* response at the head, and a short one leaves nothing of it.             *)
LEMMA TakePacket ==
    ASSUME Queued, InOrder, Chained,
           packets # <<>>, packets' = Tail(packets), requests' = requests
    PROVE  /\ Queued' /\ InOrder' /\ Chained'
           /\ \A x \in OnTheWay' : x \in OnTheWay
           /\ Head(packets) \in Packet /\ Head(packets) \in OnTheWay /\ Sized(Head(packets))
           /\ Length(Head(packets)) = Mps =>
                 /\ packets' # <<>>
                 /\ Head(packets') = [Head(packets) EXCEPT !.start = @ + Mps]
           /\ Length(Head(packets)) # Mps =>
                 \A i \in DOMAIN packets' : packets'[i].number > Head(packets).number
<1>1. /\ packets' \in Seq(Packet) /\ Len(packets') = Len(packets) - 1
      /\ \A i \in 1 .. Len(packets') : packets'[i] = packets[i + 1]
      /\ Len(packets) \in Nat \ {0} /\ Head(packets) = packets[1]
      /\ DOMAIN packets = 1 .. Len(packets) /\ DOMAIN packets' = 1 .. Len(packets')
  BY HeadTailProperties, EmptySeq, LenProperties DEF Queued
<1>2. \A i \in DOMAIN packets' : i \in 1 .. Len(packets') /\ i + 1 \in DOMAIN packets
                                 /\ packets'[i] = packets[i + 1]
  BY <1>1
<1>3. Queued'
  BY <1>1 DEF Queued
<1>4. InOrder'
  <2>1. \A i, j \in DOMAIN requests' : i < j => requests'[i].number < requests'[j].number
    BY DEF InOrder
  <2>2. \A i \in DOMAIN packets', j \in DOMAIN requests' :
           packets'[i].number < requests'[j].number
    BY <1>2 DEF InOrder
  <2>3. \A i, j \in DOMAIN packets' : i < j =>
           /\ packets'[i].number <= packets'[j].number
           /\ packets'[j].start = 0 => packets'[i].number < packets'[j].number
    <3> TAKE i, j \in DOMAIN packets'
    <3>1. i < j => i + 1 < j + 1
      BY <1>2
    <3> QED BY <1>2, <3>1 DEF InOrder
  <2> QED BY <2>1, <2>2, <2>3 DEF InOrder
<1>5. Chained'
  <2> SUFFICES ASSUME NEW i \in DOMAIN packets'
               PROVE  /\ Sized(packets'[i])
                      /\ IF Length(packets'[i]) = Mps
                         THEN /\ i + 1 \in DOMAIN packets'
                              /\ packets'[i + 1] = [packets'[i] EXCEPT !.start = @ + Mps]
                         ELSE i + 1 \in DOMAIN packets' => packets'[i + 1].start = 0
    BY DEF Chained, Sized, Length
  <2>1. i + 1 \in DOMAIN packets' <=> (i + 1) + 1 \in DOMAIN packets
    BY <1>1
  <2> QED BY <1>2, <2>1 DEF Chained
<1>6. \A x \in OnTheWay' : x \in OnTheWay
  BY <1>2 DEF OnTheWay, ToSet
<1>7. 1 \in DOMAIN packets /\ (1 + 1 \in DOMAIN packets <=> 1 \in DOMAIN packets')
  BY <1>1
<1>8. Head(packets) \in Packet /\ Head(packets) \in OnTheWay /\ Sized(Head(packets))
  BY <1>1, <1>7, PacketIsOnTheWay DEF Chained
<1>9. ASSUME Length(Head(packets)) = Mps
      PROVE  packets' # <<>> /\ Head(packets') = [Head(packets) EXCEPT !.start = @ + Mps]
  <2>1. 1 \in DOMAIN packets' /\ packets[1 + 1] = [packets[1] EXCEPT !.start = @ + Mps]
    BY <1>1, <1>7, <1>9 DEF Chained
  <2>2. packets' # <<>>
    <3>1. Len(packets') # 0
      BY <1>1, <2>1
    <3> QED BY <3>1, EmptySeq
  <2>3. Head(packets') = packets'[1]
    BY <1>1, <2>2, HeadTailProperties
  <2> QED BY <1>1, <1>2, <2>1, <2>2, <2>3
<1>10. ASSUME Length(Head(packets)) # Mps, NEW i \in DOMAIN packets'
       PROVE  packets'[i].number > Head(packets).number
  <2>1. 1 \in DOMAIN packets' /\ 1 + 1 = 2
    BY <1>1
  <2>2. 2 \in DOMAIN packets
    BY <1>7, <2>1
  <2>3. packets[2].start = 0
    BY <1>1, <1>7, <1>10, <2>1, <2>2 DEF Chained
  <2>4. packets[1].number < packets[2].number
    BY <1>7, <2>2, <2>3 DEF InOrder
  <2>5. /\ packets[1] \in Packet /\ packets[2] \in Packet /\ packets[i + 1] \in Packet
    BY <1>2, <1>7, <2>2, PacketIsOnTheWay
  <2>6. /\ packets[1].number \in Nat /\ packets[2].number \in Nat
        /\ packets[i + 1].number \in Nat
    BY <2>5, NumberOfPacket
  <2>7. packets[2].number <= packets[i + 1].number
    <3>1. CASE i + 1 = 2
      BY <2>6, <3>1
    <3>2. CASE i + 1 # 2
      <4>1. 2 < i + 1
        BY <1>2, <3>2
      <4> QED BY <1>2, <2>2, <4>1 DEF InOrder
    <3> QED BY <3>1, <3>2
  <2> QED BY <1>1, <1>2, <2>4, <2>6, <2>7
<1> QED BY <1>3, <1>4, <1>5, <1>6, <1>8, <1>9, <1>10

(* A request with a new number joins the others.                           *)
LEMMA SendRequest ==
    ASSUME Queued, InOrder, Chained, NEW r \in Request,
           requests' = Append(requests, r), packets' = packets,
           \A x \in OnTheWay : x.number < r.number
    PROVE  /\ Queued' /\ InOrder' /\ Chained'
           /\ \A x \in OnTheWay' : x \in OnTheWay \/ x = r
<1>1. /\ requests' \in Seq(Request) /\ Len(requests') = Len(requests) + 1
      /\ \A i \in 1 .. Len(requests) : requests'[i] = requests[i]
      /\ requests'[Len(requests) + 1] = r /\ Len(requests) \in Nat
      /\ DOMAIN requests = 1 .. Len(requests) /\ DOMAIN requests' = 1 .. Len(requests')
  BY AppendProperties, LenProperties DEF Queued
<1>2. \A i \in DOMAIN requests' :
         \/ i \in DOMAIN requests /\ requests'[i] = requests[i] /\ requests[i] \in OnTheWay
         \/ i = Len(requests) + 1 /\ requests'[i] = r
  BY <1>1 DEF OnTheWay, ToSet
<1>3. InOrder'
  <2>1. \A i, j \in DOMAIN requests' : i < j => requests'[i].number < requests'[j].number
    <3> TAKE i, j \in DOMAIN requests'
    <3>1. i < j => i \in DOMAIN requests
      BY <1>1
    <3> QED BY <1>1, <1>2, <3>1 DEF InOrder
  <2>2. \A i \in DOMAIN packets', j \in DOMAIN requests' :
           packets'[i].number < requests'[j].number
    BY <1>2, PacketIsOnTheWay DEF InOrder
  <2> QED BY <2>1, <2>2 DEF InOrder
<1>4. Chained'
  BY DEF Chained, Sized, Length
<1>5. \A x \in OnTheWay' : x \in OnTheWay \/ x = r
  BY <1>2 DEF OnTheWay, ToSet
<1> QED BY <1>1, <1>3, <1>4, <1>5 DEF Queued

(* A response joins the others: its packets come last, and have the tag    *)
(* and the number of the request, which is gone.                           *)
LEMMA AnswerRequest ==
    ASSUME Queued, InOrder, Chained, requests # <<>>, requests' = Tail(requests),
           NEW n \in Nat, NEW wire \in {n, Padded(n)}, NEW eom \in BOOLEAN,
           packets' = packets \o Response(Head(requests), n, wire, eom)
    PROVE  /\ Queued' /\ InOrder' /\ Chained'
           /\ \A x \in OnTheWay' : \E y \in OnTheWay : x.tag = y.tag /\ x.number = y.number
           /\ \A i \in DOMAIN packets' :
                 i \in DOMAIN packets \/ packets'[i].number = Head(requests).number
           /\ packets' # <<>>
           /\ packets = <<>> =>
                 /\ Head(packets').start = 0 /\ Head(packets').tag = Head(requests).tag
                 /\ Head(packets').size = n
<1> DEFINE r == Head(requests)
           old == Len(packets)
<1>1. /\ r \in Request /\ requests' \in Seq(Request) /\ Len(requests') = Len(requests) - 1
      /\ \A i \in 1 .. Len(requests') : requests'[i] = requests[i + 1]
      /\ Len(requests) \in Nat \ {0} /\ r = requests[1]
      /\ DOMAIN requests = 1 .. Len(requests) /\ DOMAIN requests' = 1 .. Len(requests')
  BY HeadTailProperties, EmptySeq, LenProperties DEF Queued
<1>a. PICK s : s = Response(r, n, wire, eom)
  OBVIOUS
<1>2. IsResponse(s, r, n)
  BY <1>1, <1>a, ResponseIsChained
<1>b. /\ s \in Seq(Packet) /\ Len(s) > 0 /\ Len(s) \in Nat
      /\ \A i \in 1 .. Len(s) :
            s[i].tag = r.tag /\ s[i].number = r.number /\ s[i].size = n
      /\ s[1].start = 0 /\ \A i \in 1 .. Len(s) : i # 1 => s[i].start # 0
  <2>1. s \in Seq(Packet) /\ Len(s) > 0
    BY <1>2 DEF IsResponse
  <2>2. Len(s) \in Nat
    BY <2>1, LenProperties
  <2>3. 1 \in 1 .. Len(s)
    BY <2>1, <2>2
  <2> QED BY <1>2, <2>1, <2>2, <2>3 DEF IsResponse
<1>3. /\ packets' \in Seq(Packet) /\ Len(packets') = old + Len(s)
      /\ \A i \in 1 .. Len(packets') :
            packets'[i] = IF i <= old THEN packets[i] ELSE s[i - old]
      /\ old \in Nat /\ Len(s) \in Nat
      /\ DOMAIN packets = 1 .. old /\ DOMAIN packets' = 1 .. Len(packets')
  <2>1. packets \in Seq(Packet) /\ packets' = packets \o s
    BY <1>a DEF Queued
  <2>2. /\ packets' \in Seq(Packet) /\ Len(packets') = old + Len(s)
        /\ \A i \in 1 .. old + Len(s) :
              packets'[i] = IF i <= old THEN packets[i] ELSE s[i - old]
    <3>1. /\ packets \o s \in Seq(Packet) /\ Len(packets \o s) = Len(packets) + Len(s)
          /\ \A i \in 1 .. Len(packets) + Len(s) :
                (packets \o s)[i] = IF i <= Len(packets) THEN packets[i]
                                    ELSE s[i - Len(packets)]
      BY <1>b, <2>1, ConcatProperties
    <3> QED BY <2>1, <3>1
  <2> QED BY <1>b, <2>1, <2>2, LenProperties
<1>4. \A i \in DOMAIN packets' :
         \/ i \in DOMAIN packets /\ packets'[i] = packets[i] /\ i <= old
         \/ i - old \in 1 .. Len(s) /\ packets'[i] = s[i - old] /\ i > old
  BY <1>3
<1>5. \A i \in DOMAIN requests' : i + 1 \in DOMAIN requests /\ requests'[i] = requests[i + 1]
                                  /\ 1 < i + 1
  BY <1>1
<1>6. Queued'
  BY <1>1, <1>3 DEF Queued
<1>7. 1 \in DOMAIN requests /\ r = requests[1]
  BY <1>1
<1>8. \A j \in DOMAIN requests : requests[j].number \in Nat
  <2> SUFFICES ASSUME NEW j \in DOMAIN requests PROVE requests[j].number \in Nat
    OBVIOUS
  <2>1. requests[j] \in Request
    BY <1>1, ElementOfSeq DEF Queued
  <2> QED BY <2>1 DEF Request
<1>9. InOrder'
  <2>1. \A i, j \in DOMAIN requests' : i < j => requests'[i].number < requests'[j].number
    <3> TAKE i, j \in DOMAIN requests'
    <3>1. i < j => i + 1 < j + 1
      BY <1>1
    <3> QED BY <1>5, <3>1 DEF InOrder
  <2>2. \A j \in DOMAIN requests' : r.number < requests'[j].number
    BY <1>5, <1>7 DEF InOrder
  <2>3. \A i \in DOMAIN packets', j \in DOMAIN requests' :
           packets'[i].number < requests'[j].number
    <3> TAKE i \in DOMAIN packets', j \in DOMAIN requests'
    <3>1. CASE i <= old
      <4>1. i \in DOMAIN packets /\ packets'[i] = packets[i]
        BY <1>3, <3>1
      <4> QED BY <1>5, <4>1 DEF InOrder
    <3>2. CASE i > old
      <4>1. packets'[i].number = r.number
        BY <1>b, <1>4, <3>2, <1>3
      <4> QED BY <2>2, <4>1
    <3> QED BY <1>3, <3>1, <3>2
  <2>4. \A i, j \in DOMAIN packets' : i < j =>
           /\ packets'[i].number <= packets'[j].number
           /\ packets'[j].start = 0 => packets'[i].number < packets'[j].number
    <3> SUFFICES ASSUME NEW i \in DOMAIN packets', NEW j \in DOMAIN packets', i < j
                 PROVE  /\ packets'[i].number <= packets'[j].number
                        /\ packets'[j].start = 0 => packets'[i].number < packets'[j].number
      OBVIOUS
    <3>1. CASE j <= old
      <4>1. i <= old
        BY <1>3, <3>1
      <4> QED BY <1>4, <3>1, <4>1 DEF InOrder
    <3>2. CASE j > old /\ i <= old
      <4>1. packets'[i] = packets[i] /\ i \in DOMAIN packets /\ packets'[j].number = r.number
        BY <1>b, <1>3, <1>4, <3>2
      <4>2. packets[i].number < requests[1].number
        BY <1>7, <4>1 DEF InOrder
      <4>3. packets[i].number \in Nat /\ requests[1].number \in Nat
        BY <1>7, <1>8, <4>1, PacketIsOnTheWay, NumberOfPacket
      <4> QED BY <1>7, <4>1, <4>2, <4>3
    <3>3. CASE i > old
      <4>1. packets'[i] = s[i - old] /\ packets'[j] = s[j - old]
            /\ i - old \in 1 .. Len(s) /\ j - old \in 1 .. Len(s) /\ j - old # 1
        BY <1>3, <1>4, <3>3
      <4>2. packets'[i].number = r.number /\ packets'[j].number = r.number
            /\ packets'[j].start # 0
        BY <1>b, <4>1
      <4> QED BY <1>7, <1>8, <4>2
    <3> QED BY <1>3, <3>1, <3>2, <3>3
  <2> QED BY <2>1, <2>3, <2>4 DEF InOrder
<1>10. Chained'
  <2> SUFFICES ASSUME NEW i \in DOMAIN packets'
               PROVE  /\ Sized(packets'[i])
                      /\ IF Length(packets'[i]) = Mps
                         THEN /\ i + 1 \in DOMAIN packets'
                              /\ packets'[i + 1] = [packets'[i] EXCEPT !.start = @ + Mps]
                         ELSE i + 1 \in DOMAIN packets' => packets'[i + 1].start = 0
    BY DEF Chained, Sized, Length
  <2>1. CASE i < old
    <3>1. i \in DOMAIN packets /\ i + 1 \in DOMAIN packets /\ i + 1 \in DOMAIN packets'
          /\ packets'[i] = packets[i] /\ packets'[i + 1] = packets[i + 1]
      BY <1>3, <2>1
    <3> QED BY <3>1 DEF Chained
  <2>2. CASE i = old
    <3>1. i \in DOMAIN packets /\ i + 1 \notin DOMAIN packets /\ i + 1 \in DOMAIN packets'
          /\ packets'[i] = packets[i] /\ packets'[i + 1] = s[1]
      BY <1>b, <1>3, <2>2
    <3>2. Sized(packets[i]) /\ Length(packets[i]) # Mps
      BY <3>1 DEF Chained
    <3>3. s[1].start = 0
      BY <1>b
    <3> QED BY <3>1, <3>2, <3>3
  <2>3. CASE i > old
    <3>1. i - old \in 1 .. Len(s) /\ packets'[i] = s[i - old]
      BY <1>3, <1>4, <2>3
    <3>2. i + 1 \in DOMAIN packets' <=> i - old < Len(s)
      BY <1>3, <2>3
    <3>3. i + 1 \in DOMAIN packets' => packets'[i + 1] = s[(i - old) + 1]
      BY <1>3, <2>3
    <3>4. /\ Sized(s[i - old])
          /\ Length(s[i - old]) = Mps <=> i - old < Len(s)
          /\ i - old < Len(s) => s[(i - old) + 1] = [s[i - old] EXCEPT !.start = @ + Mps]
      BY <1>2, <3>1 DEF IsResponse
    <3> QED BY <3>1, <3>2, <3>3, <3>4
  <2>4. i < old \/ i = old \/ i > old
    BY <1>3
  <2> QED BY <2>1, <2>2, <2>3, <2>4
<1>11. \A x \in OnTheWay' : \E y \in OnTheWay : x.tag = y.tag /\ x.number = y.number
  <2> SUFFICES ASSUME NEW x \in OnTheWay'
               PROVE  \E y \in OnTheWay : x.tag = y.tag /\ x.number = y.number
    OBVIOUS
  <2>1. CASE x \in ToSet(requests')
    <3>1. x \in ToSet(requests)
      BY <1>5, <2>1 DEF ToSet
    <3> QED BY <3>1 DEF OnTheWay
  <2>2. CASE x \in ToSet(packets')
    <3>1. PICK i \in DOMAIN packets' : x = packets'[i]
      BY <2>2 DEF ToSet
    <3>2. CASE i <= old
      <4>1. x = packets[i] /\ i \in DOMAIN packets
        BY <1>3, <3>1, <3>2
      <4> QED BY <4>1, PacketIsOnTheWay
    <3>3. CASE i > old
      <4>1. x.tag = r.tag /\ x.number = r.number
        BY <1>b, <1>3, <1>4, <3>1, <3>3
      <4>2. r \in OnTheWay
        BY <1>7 DEF OnTheWay, ToSet
      <4> QED BY <4>1, <4>2
    <3> QED BY <1>3, <3>1, <3>2, <3>3
  <2> QED BY <2>1, <2>2 DEF OnTheWay
<1>12. \A i \in DOMAIN packets' : i \in DOMAIN packets \/ packets'[i].number = r.number
  BY <1>b, <1>4
<1>13. packets' # <<>>
  <2>1. Len(packets') # 0
    BY <1>b, <1>3
  <2> QED BY <2>1, EmptySeq
<1>14. ASSUME packets = <<>>
       PROVE  Head(packets').start = 0 /\ Head(packets').tag = r.tag /\ Head(packets').size = n
  <2>1. old = 0
    BY <1>14, EmptySeq
  <2>2. Head(packets') = packets'[1]
    BY <1>3, <1>13, HeadTailProperties
  <2>3. packets'[1] = s[1] /\ 1 \in 1 .. Len(s)
    BY <1>b, <1>3, <2>1
  <2> QED BY <1>b, <2>2, <2>3
<1> QED BY <1>6, <1>9, <1>10, <1>11, <1>12, <1>13, <1>14

LEMMA SameQueues ==
    ASSUME Queued, InOrder, Chained, requests' = requests, packets' = packets
    PROVE  Queued' /\ InOrder' /\ Chained' /\ OnTheWay' = OnTheWay
  BY DEF Queued, InOrder, Chained, Sized, Length, OnTheWay

(***************************************************************************)
(* Tags                                                                    *)
(***************************************************************************)
(* Everything on the way gets older by one with a tag that is taken.       *)
LEMMA Ages ==
    ASSUME TypeOK, TakeTag, NEW x \in OnTheWay, NEW more \in Nat, NEW before \in Nat,
           Aged(x, before), taken + 1 + more < x.number + TagCount
    PROVE  Aged(x, more)'
<1>1. x.tag \in 1 .. TagCount /\ x.number \in 1 .. MaxTags
  BY OnTheWayType DEF TypeOK, Queued
<1>2. taken \in Nat /\ nextTag \in 1 .. TagCount /\ TagCount \in Nat \ {0} /\ MaxTags \in Nat
  BY Sizes DEF TypeOK
<1>3. taken' = taken + 1 /\ nextTag' = IF nextTag = TagCount THEN 1 ELSE nextTag + 1
  BY DEF TakeTag
<1>4. /\ taken + 1 - x.number \in 1 .. TagCount - before
      /\ nextTag \in {x.tag + (taken + 1 - x.number), x.tag + (taken + 1 - x.number) - TagCount}
  BY DEF Aged
<1> DEFINE age == taken + 1 - x.number
           t == x.tag
           n == x.number
<1>5. /\ age \in 1 .. TagCount /\ age + 1 + more <= TagCount
      /\ nextTag = t + age \/ nextTag = t + age - TagCount
      /\ t \in 1 .. TagCount
      /\ taken' + 1 - n = age + 1
  BY <1>1, <1>2, <1>3, <1>4
<1>6. /\ age + 1 \in 1 .. TagCount - more
      /\ nextTag' = t + (age + 1) \/ nextTag' = t + (age + 1) - TagCount
  <2> HIDE DEF age, t
  <2> QED BY <1>2, <1>3, <1>5
<1> QED BY <1>5, <1>6 DEF Aged

(* With the tag of this read, it is this read's.                           *)
LEMMA TagIsMine ==
    ASSUME TypeOK, Numbered, pc \in Reading, NEW x \in OnTheWay, x.tag = tag
    PROVE  x.number = mine
<1>1. x.number \in 1 .. MaxTags /\ tag \in 1 .. TagCount
  BY OnTheWayType DEF TypeOK, Queued
<1>2. taken \in Nat /\ TagCount \in Nat \ {0} /\ mine = taken
      /\ nextTag \in {tag + 1, tag + 1 - TagCount}
  BY Sizes DEF TypeOK, Numbered
<1>3. Aged(x, 0)
  BY DEF Numbered, Reading
<1>4. /\ taken + 1 - x.number \in 1 .. TagCount
      /\ nextTag \in {tag + (taken + 1 - x.number), tag + (taken + 1 - x.number) - TagCount}
  BY <1>2, <1>3 DEF Aged
<1> QED BY <1>1, <1>2, <1>4

(* No number on the way is above the count, and a read's is at most its    *)
(* own.                                                                    *)
LEMMA NumbersTaken ==
    ASSUME TypeOK, Numbered, NEW x \in OnTheWay
    PROVE  x.number \in 1 .. taken
<1>1. x.number \in 1 .. MaxTags
  BY OnTheWayType DEF TypeOK, Queued
<1>2. PICK k \in {0, 1} : Aged(x, k)
  BY DEF Numbered
<1>3. taken + 1 - x.number \in 1 .. TagCount - k /\ taken \in Nat
  BY <1>2 DEF Aged, TypeOK
<1> QED BY <1>1, <1>3, Sizes

(***************************************************************************)
(* The initial state                                                       *)
(***************************************************************************)
LEMMA InitFraming ==
    ASSUME Init
    PROVE  Framing
<1>1. /\ requests \in Seq(Request) /\ packets \in Seq(Packet)
      /\ DOMAIN requests = {} /\ DOMAIN packets = {}
  BY EmptySeq, LenProperties DEF Init
<1>2. OnTheWay = {}
  BY <1>1 DEF OnTheWay, ToSet
<1>3. TypeOK
  <2>1. /\ nextTag \in 1 .. TagCount /\ tag \in 0 .. TagCount
        /\ taken \in 0 .. MaxTags /\ mine \in 0 .. taken /\ lastLength \in 0 .. Mps
        /\ announced \in Nat /\ copied \in 0 .. announced /\ received \in Nat
    BY Sizes DEF Init
  <2>2. /\ thenRead \in BOOLEAN /\ confused \in BOOLEAN /\ ended \in BOOLEAN
        /\ faulted \in BOOLEAN /\ outcome \in Outcomes /\ left \in Nat \cup {Nothing}
        /\ capacity \in Capacities \cup {0} /\ pc = "idle" /\ outcome = "none"
    BY DEF Init, Outcomes
  <2> QED BY <1>1, <2>1, <2>2 DEF TypeOK
<1>4. Numbered
  BY <1>2 DEF Init, Numbered, Reading
<1>5. InOrder /\ Chained
  BY <1>1 DEF InOrder, Chained
<1>6. MidRead /\ ResponseTaken
  BY DEF Init, MidRead, ResponseTaken
<1>7. InStep
  BY <1>1 DEF Init, InStep
<1> QED BY <1>3, <1>4, <1>5, <1>6, <1>7 DEF Framing

(***************************************************************************)
(* The host's requests                                                     *)
(***************************************************************************)
(* A read begins, at once or after the command of an exchange.             *)
LEMMA BeginReadTypes ==
    ASSUME TypeOK, NEW size \in Capacities, BeginRead(size), taken < MaxTags
    PROVE  /\ nextTag' \in 1 .. TagCount /\ tag' \in 1 .. TagCount
           /\ taken' = taken + 1 /\ taken' \in 1 .. MaxTags /\ mine' = taken'
           /\ nextTag' \in {tag' + 1, tag' + 1 - TagCount}
  BY Sizes DEF TypeOK, BeginRead, TakeTag

LEMMA ReadFraming ==
    ASSUME Framing, NEW size \in Capacities, Read(size)
    PROVE  Framing'
<1>1. /\ pc = "idle" /\ pc' = "request" /\ outcome' = "none" /\ BeginRead(size)
      /\ requests' = requests /\ packets' = packets /\ confused' = confused /\ left' = left
      /\ thenRead' = thenRead /\ faulted' = faulted /\ ended' = ended /\ capacity' = size
      /\ announced' = announced /\ copied' = copied /\ received' = received
      /\ lastLength' = lastLength /\ TakeTag
  BY DEF Read, BeginRead, instrument
<1>2. TypeOK /\ Numbered /\ InOrder /\ Chained /\ InStep
  BY DEF Framing
<1>3. taken < MaxTags /\ \A x \in OnTheWay : taken + 1 < x.number + TagCount
  BY <1>2, Sizes DEF TypeOK, Read, Room
<1>4. /\ nextTag' \in 1 .. TagCount /\ tag' \in 1 .. TagCount
      /\ taken' = taken + 1 /\ taken' \in 1 .. MaxTags /\ mine' = taken'
      /\ nextTag' \in {tag' + 1, tag' + 1 - TagCount}
  BY <1>1, <1>2, <1>3, BeginReadTypes
<1>5. Queued' /\ InOrder' /\ Chained' /\ OnTheWay' = OnTheWay
  BY <1>1, <1>2, SameQueues DEF TypeOK, Queued
<1>6. TypeOK'
  BY <1>1, <1>2, <1>4, <1>5 DEF TypeOK, Queued, Reading, Outcomes
<1>7. Numbered'
  <2>1. ASSUME NEW x \in OnTheWay PROVE Aged(x, 0)' /\ x.number < mine'
    <3>1. Aged(x, 0)
      BY <1>1, <1>2 DEF Numbered
    <3>2. taken + 1 + 0 < x.number + TagCount
      BY <1>2, <1>3 DEF TypeOK
    <3>3. Aged(x, 0)'
      BY <1>1, <1>2, <3>1, <3>2, Ages
    <3>4. x.number \in 1 .. taken
      BY <1>2, NumbersTaken
    <3> QED BY <1>2, <1>4, <3>3, <3>4 DEF TypeOK
  <2>2. \A x \in OnTheWay' : Aged(x, IF pc = "command" /\ thenRead THEN 1 ELSE 0)'
    BY <1>1, <1>5, <2>1
  <2>3. \A x \in OnTheWay' : x.number < mine'
    BY <1>5, <2>1
  <2>4. mine' > 0 /\ tag' > 0
    BY <1>4
  <2> QED BY <1>1, <1>4, <2>2, <2>3, <2>4 DEF Numbered
<1>8. MidRead' /\ ResponseTaken'
  BY <1>1 DEF MidRead, ResponseTaken
<1>9. InStep'
  BY <1>1, <1>2 DEF InStep
<1> QED BY <1>5, <1>6, <1>7, <1>8, <1>9 DEF Framing

LEMMA WriteFraming ==
    ASSUME Framing, NEW exchange \in BOOLEAN, NEW size \in Capacities, Write(exchange, size)
    PROVE  Framing'
<1>1. /\ pc = "idle" /\ pc' = "command" /\ outcome' = "none" /\ TakeTag
      /\ requests' = requests /\ packets' = packets /\ confused' = confused /\ left' = left
      /\ thenRead' = exchange /\ faulted' = faulted /\ ended' = ended /\ capacity' = size
      /\ announced' = announced /\ copied' = copied /\ received' = received
      /\ lastLength' = lastLength /\ tag' = tag /\ mine' = mine
  BY DEF Write, instrument
<1>2. TypeOK /\ Numbered /\ InOrder /\ Chained /\ InStep
  BY DEF Framing
<1> DEFINE calls == IF exchange THEN 2 ELSE 1
<1>3. taken + calls <= MaxTags /\ \A x \in OnTheWay : taken + calls < x.number + TagCount
  BY DEF Write, Room
<1>4. taken' = taken + 1 /\ taken' \in 1 .. MaxTags /\ nextTag' \in 1 .. TagCount
      /\ (exchange => taken' < MaxTags)
  BY <1>1, <1>2, <1>3, Sizes DEF TypeOK, TakeTag
<1>5. Queued' /\ InOrder' /\ Chained' /\ OnTheWay' = OnTheWay
  BY <1>1, <1>2, SameQueues DEF TypeOK, Queued
<1>6. TypeOK'
  BY <1>1, <1>2, <1>4, <1>5 DEF TypeOK, Queued, Outcomes
<1>7. Numbered'
  <2>1. ASSUME NEW x \in OnTheWay PROVE Aged(x, IF exchange THEN 1 ELSE 0)'
    <3>1. Aged(x, 0)
      BY <1>1, <1>2 DEF Numbered
    <3>2. CASE exchange
      <4>1. taken + 1 + 1 < x.number + TagCount
        BY <1>2, <1>3, <3>2 DEF TypeOK
      <4>2. Aged(x, 1)'
        BY <1>1, <1>2, <3>1, <4>1, Ages
      <4> QED BY <3>2, <4>2
    <3>3. CASE ~exchange
      <4>1. taken + 1 + 0 < x.number + TagCount
        BY <1>2, <1>3, <3>3 DEF TypeOK
      <4>2. Aged(x, 0)'
        BY <1>1, <1>2, <3>1, <4>1, Ages
      <4> QED BY <3>3, <4>2
    <3> QED BY <3>2, <3>3
  <2>2. \A x \in OnTheWay' : Aged(x, IF pc = "command" /\ thenRead THEN 1 ELSE 0)'
    BY <1>1, <1>5, <2>1
  <2> QED BY <1>1, <1>4, <2>2 DEF Numbered, Reading
<1>8. MidRead' /\ ResponseTaken'
  BY <1>1 DEF MidRead, ResponseTaken
<1>9. InStep'
  BY <1>1, <1>2 DEF InStep
<1> QED BY <1>5, <1>6, <1>7, <1>8, <1>9 DEF Framing

(* What the command does to the instrument leaves the queues alone.        *)
LEMMA CommandSentFraming ==
    ASSUME Framing, CommandSent
    PROVE  Framing'
<1>1. /\ pc = "command" /\ requests' = requests /\ packets' = packets /\ confused' = FALSE
      /\ thenRead' = thenRead /\ faulted' = faulted
      /\ left' = left \/ left' \in Replies \cup {Nothing}
  BY DEF CommandSent, Delivered, TakeCommand
<1>2. TypeOK /\ Numbered /\ InOrder /\ Chained /\ InStep
  BY DEF Framing
<1>3. Queued' /\ InOrder' /\ Chained' /\ OnTheWay' = OnTheWay
  BY <1>1, <1>2, SameQueues DEF TypeOK, Queued
<1>4. left' \in Nat \cup {Nothing}
  BY <1>1, <1>2, FramingAssumption DEF TypeOK
<1>5. CASE thenRead
  <2>1. /\ BeginRead(capacity) /\ pc' = "request" /\ outcome' = outcome /\ TakeTag
        /\ capacity' = capacity /\ announced' = announced /\ copied' = copied
        /\ received' = received /\ lastLength' = lastLength /\ ended' = ended
    BY <1>5 DEF CommandSent, BeginRead
  <2>2. capacity \in Capacities /\ outcome = "none" /\ taken < MaxTags
    BY <1>1, <1>2, <1>5 DEF Numbered
  <2>3. /\ nextTag' \in 1 .. TagCount /\ tag' \in 1 .. TagCount
        /\ taken' = taken + 1 /\ taken' \in 1 .. MaxTags /\ mine' = taken'
        /\ nextTag' \in {tag' + 1, tag' + 1 - TagCount}
    BY <1>2, <2>1, <2>2, BeginReadTypes
  <2>4. TypeOK'
    <3>1. tag' \in 0 .. TagCount /\ taken' \in 0 .. MaxTags /\ mine' \in 0 .. taken'
      BY <2>3
    <3>2. /\ thenRead' \in BOOLEAN /\ confused' \in BOOLEAN /\ ended' \in BOOLEAN
          /\ faulted' \in BOOLEAN /\ outcome' \in Outcomes /\ pc' \in Reading
      BY <1>1, <1>2, <2>1 DEF TypeOK, Reading
    <3>3. /\ announced' \in Nat /\ copied' \in 0 .. announced' /\ received' \in Nat
          /\ lastLength' \in 0 .. Mps
      BY <1>2, <2>1 DEF TypeOK
    <3> QED BY <1>3, <1>4, <2>1, <2>2, <2>3, <3>1, <3>2, <3>3 DEF TypeOK, Queued
  <2>5. Numbered'
    <3>1. ASSUME NEW x \in OnTheWay PROVE Aged(x, 0)' /\ x.number < mine'
      <4>1. Aged(x, 1)
        BY <1>1, <1>2, <1>5 DEF Numbered
      <4>2. x.number \in 1 .. taken
        BY <1>2, NumbersTaken
      <4>3. taken + 1 + 0 < x.number + TagCount
        BY <1>2, <4>1, <4>2, Sizes DEF TypeOK, Aged
      <4>4. Aged(x, 0)'
        BY <1>2, <2>1, <4>1, <4>3, Ages
      <4> QED BY <1>2, <2>3, <4>2, <4>4 DEF TypeOK
    <3>2. \A x \in OnTheWay' : Aged(x, IF pc = "command" /\ thenRead THEN 1 ELSE 0)'
      BY <2>1, <1>3, <3>1
    <3>3. \A x \in OnTheWay' : x.number < mine'
      BY <1>3, <3>1
    <3>4. mine' > 0 /\ tag' > 0
      BY <2>3
    <3> QED BY <2>1, <2>2, <2>3, <3>2, <3>3, <3>4 DEF Numbered
  <2>6. MidRead' /\ ResponseTaken'
    BY <2>1, <2>2 DEF MidRead, ResponseTaken
  <2>7. InStep'
    BY <1>1, <1>2, <2>1 DEF InStep
  <2> QED BY <1>3, <2>4, <2>5, <2>6, <2>7 DEF Framing
<1>6. CASE ~thenRead
  <2>1. /\ pc' = "idle" /\ outcome' = "sent" /\ nextTag' = nextTag /\ taken' = taken
        /\ tag' = tag /\ mine' = mine /\ capacity' = capacity /\ announced' = announced
        /\ copied' = copied /\ received' = received /\ lastLength' = lastLength
        /\ ended' = ended
    BY <1>6 DEF CommandSent, Return, numbering, read
  <2>2. TypeOK'
    BY <1>1, <1>2, <1>3, <1>4, <2>1 DEF TypeOK, Queued, Outcomes
  <2>3. Numbered'
    <3>1. \A x \in OnTheWay : Aged(x, 0)'
      BY <1>1, <1>2, <1>6, <2>1 DEF Numbered, Aged
    <3> QED BY <1>3, <2>1, <3>1 DEF Numbered, Reading
  <2>4. MidRead' /\ ResponseTaken'
    BY <2>1 DEF MidRead, ResponseTaken
  <2>5. InStep'
    BY <1>1, <1>2, <2>1 DEF InStep
  <2> QED BY <1>3, <2>2, <2>3, <2>4, <2>5 DEF Framing
<1> QED BY <1>5, <1>6

(* While no tag is taken, what has the tag and the number of something on  *)
(* the way keeps its age.                                                  *)
LEMMA KeepsAge ==
    ASSUME TypeOK, Numbered, nextTag' = nextTag, taken' = taken,
           NEW x, NEW y \in OnTheWay, x.tag = y.tag, x.number = y.number
    PROVE  Aged(x, 0)'
<1>1. PICK k \in {0, 1} : Aged(y, k)
  BY DEF Numbered
<1>2. y.number \in 1 .. taken
  BY NumbersTaken
<1> QED BY <1>1, <1>2, Sizes DEF Aged, TypeOK

(* The request of this read is the last one on the way.                    *)
LEMMA RequestIsLast ==
    ASSUME Framing, pc = "request", TakeRequest, nextTag' = nextTag, taken' = taken
    PROVE  /\ Queued' /\ InOrder' /\ Chained' /\ left' = left /\ packets' = packets
           /\ \A x \in OnTheWay' : Aged(x, 0)'
<1>0. PICK r : r = [tag |-> tag, number |-> mine, capacity |-> capacity]
  OBVIOUS
<1>1. TypeOK /\ Numbered /\ InOrder /\ Chained
  BY DEF Framing
<1>2. /\ requests' = Append(requests, r) /\ packets' = packets /\ left' = left
  BY <1>0 DEF TakeRequest
<1>3. /\ capacity \in Capacities /\ mine = taken /\ mine > 0 /\ tag > 0
      /\ nextTag \in {tag + 1, tag + 1 - TagCount}
      /\ \A x \in OnTheWay : x.number < r.number
  BY <1>0, <1>1 DEF Numbered, Reading
<1>4. mine \in 1 .. MaxTags /\ tag \in 1 .. TagCount
  BY <1>1, <1>3, Sizes DEF TypeOK
<1>5. r \in Request
  BY <1>0, <1>3, <1>4 DEF Request
<1>6. Queued' /\ InOrder' /\ Chained' /\ \A x \in OnTheWay' : x \in OnTheWay \/ x = r
  BY <1>1, <1>2, <1>3, <1>5, SendRequest DEF TypeOK, Queued
<1>7. Aged(r, 0)'
  <2>1. r.tag = tag /\ r.number = taken
    BY <1>0, <1>3
  <2>2. taken' + 1 - r.number = 1 /\ nextTag' \in {r.tag + 1, r.tag + 1 - TagCount}
    BY <1>1, <1>3, <2>1 DEF TypeOK
  <2> QED BY <2>2, Sizes DEF Aged
<1>8. \A x \in OnTheWay' : Aged(x, 0)'
  BY <1>1, <1>6, <1>7, KeepsAge
<1> QED BY <1>2, <1>6, <1>8

LEMMA RequestSentFraming ==
    ASSUME Framing, RequestSent
    PROVE  Framing'
<1>1. /\ pc = "request" /\ pc' = "first" /\ confused' = FALSE
      /\ nextTag' = nextTag /\ taken' = taken /\ thenRead' = thenRead
      /\ tag' = tag /\ mine' = mine /\ capacity' = capacity /\ announced' = announced
      /\ copied' = copied /\ received' = received /\ lastLength' = lastLength
      /\ ended' = ended /\ outcome' = outcome /\ faulted' = faulted
  BY DEF RequestSent, Delivered, numbering, read
<1>2. TypeOK /\ Numbered /\ InOrder /\ Chained /\ InStep
  BY DEF Framing
<1>3. /\ Queued' /\ InOrder' /\ Chained' /\ left' = left /\ packets' = packets
      /\ \A x \in OnTheWay' : Aged(x, 0)'
  <2>1. CASE confused
    <3>1. requests' = requests /\ packets' = packets /\ left' = left
      BY <2>1 DEF RequestSent, Delivered
    <3>2. Queued' /\ InOrder' /\ Chained' /\ OnTheWay' = OnTheWay
      BY <1>2, <3>1, SameQueues DEF TypeOK, Queued
    <3> QED BY <1>1, <1>2, <3>1, <3>2, KeepsAge
  <2>2. CASE ~confused
    BY <1>1, <2>2, RequestIsLast DEF RequestSent, Delivered
  <2> QED BY <2>1, <2>2
<1>4. outcome = "none" /\ capacity \in Capacities /\ mine = taken /\ mine > 0 /\ tag > 0
      /\ nextTag \in {tag + 1, tag + 1 - TagCount}
  BY <1>1, <1>2 DEF Numbered, Reading
<1>5. TypeOK'
  <2>1. /\ nextTag' \in 1 .. TagCount /\ tag' \in 0 .. TagCount
        /\ taken' \in 0 .. MaxTags /\ mine' \in 0 .. taken' /\ lastLength' \in 0 .. Mps
        /\ announced' \in Nat /\ copied' \in 0 .. announced' /\ received' \in Nat
    BY <1>1, <1>2 DEF TypeOK
  <2>2. /\ thenRead' \in BOOLEAN /\ confused' \in BOOLEAN /\ ended' \in BOOLEAN
        /\ faulted' \in BOOLEAN /\ outcome' \in Outcomes /\ left' \in Nat \cup {Nothing}
        /\ capacity' \in Capacities \cup {0} /\ pc' \in Reading
    BY <1>1, <1>2, <1>3 DEF TypeOK, Reading
  <2> QED BY <1>1, <1>3, <1>4, <2>1, <2>2 DEF TypeOK, Queued
<1>6. Numbered'
  BY <1>1, <1>3, <1>4 DEF Numbered
<1>7. MidRead' /\ ResponseTaken'
  BY <1>1, <1>4 DEF MidRead, ResponseTaken
<1>8. InStep'
  <2>1. SUFFICES ASSUME ~faulted PROVE InStep'
    BY <1>1 DEF InStep
  <2>2. ~confused /\ requests = <<>> /\ packets = <<>>
    BY <1>1, <1>2, <2>1 DEF InStep
  <2>3. requests' = <<[tag |-> tag, number |-> mine, capacity |-> capacity]>>
    BY <2>2 DEF RequestSent, Delivered, TakeRequest
  <2>4. DOMAIN packets' = {} /\ packets' = <<>>
    BY <1>3, <2>2, LenProperties, EmptySeq
  <2> QED BY <1>1, <1>4, <2>3, <2>4 DEF InStep
<1> QED BY <1>3, <1>5, <1>6, <1>7, <1>8 DEF Framing

LEMMA SendFailsFraming ==
    ASSUME Framing, SendFails
    PROVE  Framing'
<1>1. /\ pc \in {"command", "request"} /\ pc' = "idle" /\ outcome' = "transfer"
      /\ nextTag' = nextTag /\ taken' = taken /\ thenRead' = thenRead
      /\ tag' = tag /\ mine' = mine /\ capacity' = capacity /\ announced' = announced
      /\ copied' = copied /\ received' = received /\ lastLength' = lastLength
      /\ ended' = ended /\ faulted' = TRUE
  BY DEF SendFails, Return, numbering, read
<1>2. TypeOK /\ Numbered /\ InOrder /\ Chained
  BY DEF Framing
<1>3. /\ Queued' /\ InOrder' /\ Chained' /\ left' \in Nat \cup {Nothing}
      /\ confused' \in BOOLEAN /\ \A x \in OnTheWay' : Aged(x, 0)'
  <2>1. ASSUME requests' = requests, packets' = packets
        PROVE  Queued' /\ InOrder' /\ Chained' /\ \A x \in OnTheWay' : Aged(x, 0)'
    <3>1. Queued' /\ InOrder' /\ Chained' /\ OnTheWay' = OnTheWay
      BY <1>2, <2>1, SameQueues DEF TypeOK, Queued
    <3> QED BY <1>1, <1>2, <3>1, KeepsAge
  <2>2. CASE UNCHANGED instrument
    BY <1>2, <2>1, <2>2 DEF instrument, TypeOK
  <2>3. CASE confused' = TRUE /\ pc = "command" /\ TakeCommand
    <3>1. left' \in Nat \cup {Nothing} /\ requests' = requests /\ packets' = packets
      BY <2>3, FramingAssumption DEF TakeCommand
    <3> QED BY <2>1, <2>3, <3>1
  <2>4. CASE confused' = TRUE /\ pc = "request" /\ TakeRequest
    <3>1. left' \in Nat \cup {Nothing}
      BY <1>2, <2>4 DEF TypeOK, TakeRequest
    <3> QED BY <1>1, <2>4, <3>1, RequestIsLast
  <2> QED BY <1>1, <2>2, <2>3, <2>4 DEF SendFails
<1>4. TypeOK'
  <2>1. /\ nextTag' \in 1 .. TagCount /\ tag' \in 0 .. TagCount
        /\ taken' \in 0 .. MaxTags /\ mine' \in 0 .. taken' /\ lastLength' \in 0 .. Mps
        /\ announced' \in Nat /\ copied' \in 0 .. announced' /\ received' \in Nat
    BY <1>1, <1>2 DEF TypeOK
  <2>2. /\ thenRead' \in BOOLEAN /\ confused' \in BOOLEAN /\ ended' \in BOOLEAN
        /\ faulted' \in BOOLEAN /\ outcome' \in Outcomes /\ left' \in Nat \cup {Nothing}
        /\ capacity' \in Capacities \cup {0}
    BY <1>1, <1>2, <1>3 DEF TypeOK, Outcomes
  <2> QED BY <1>1, <1>3, <2>1, <2>2 DEF TypeOK, Queued
<1>5. Numbered'
  BY <1>1, <1>3 DEF Numbered, Reading
<1>6. MidRead' /\ ResponseTaken' /\ InStep'
  BY <1>1 DEF MidRead, ResponseTaken, InStep
<1> QED BY <1>3, <1>4, <1>5, <1>6 DEF Framing

(***************************************************************************)
(* The instrument's answers                                                *)
(***************************************************************************)
LEMMA AnswerFraming ==
    ASSUME Framing, Answer
    PROVE  Framing'
<1>1. /\ requests # <<>> /\ left # Nothing /\ requests' = Tail(requests)
      /\ pc' = pc /\ outcome' = outcome
      /\ nextTag' = nextTag /\ taken' = taken /\ thenRead' = thenRead
      /\ tag' = tag /\ mine' = mine /\ capacity' = capacity /\ announced' = announced
      /\ copied' = copied /\ received' = received /\ lastLength' = lastLength
      /\ ended' = ended /\ faulted' = faulted /\ confused' = confused
  BY DEF Answer, numbering, read
<1>2. TypeOK /\ Numbered /\ InOrder /\ Chained /\ MidRead /\ InStep /\ ResponseTaken
  BY DEF Framing
<1> DEFINE r == Head(requests)
           n == Least(left, r.capacity)
<1>3. r \in Request /\ r \in OnTheWay /\ Len(requests) \in Nat \ {0}
  <2>1. requests \in Seq(Request) /\ Len(requests) \in Nat \ {0} /\ r = requests[1]
    BY <1>1, <1>2, EmptySeq, LenProperties, HeadTailProperties DEF TypeOK
  <2>2. r \in Request /\ 1 \in DOMAIN requests
    BY <2>1, ElementOfSeq, LenProperties
  <2> QED BY <2>1, <2>2 DEF OnTheWay, ToSet
<1>4. r.capacity \in Nat /\ left \in Nat /\ n \in Nat /\ n <= left /\ n <= r.capacity
  <2>1. r.capacity \in Capacities
    BY <1>3 DEF Request
  <2>2. r.capacity \in Nat /\ left \in Nat
    BY <1>1, <1>2, <2>1, FramingAssumption DEF TypeOK
  <2> HIDE DEF r
  <2> QED BY <2>2 DEF Least
<1>5. PICK wire \in {n, Padded(n)} : packets' = packets \o Response(r, n, wire, n = left)
  BY DEF Answer
<1>6. left' \in Nat \cup {Nothing}
  BY <1>4 DEF Answer
<1>7. (n = left) \in BOOLEAN
  OBVIOUS
<1> HIDE DEF n
<1>8. /\ Queued' /\ InOrder' /\ Chained'
      /\ \A x \in OnTheWay' : \E y \in OnTheWay : x.tag = y.tag /\ x.number = y.number
      /\ \A i \in DOMAIN packets' : i \in DOMAIN packets \/ packets'[i].number = r.number
      /\ packets' # <<>>
      /\ packets = <<>> =>
            /\ Head(packets').start = 0 /\ Head(packets').tag = r.tag
            /\ Head(packets').size = n
  BY <1>1, <1>2, <1>4, <1>5, <1>7, AnswerRequest DEF TypeOK, Queued
<1>9. TypeOK'
  <2>1. /\ nextTag' \in 1 .. TagCount /\ tag' \in 0 .. TagCount
        /\ taken' \in 0 .. MaxTags /\ mine' \in 0 .. taken' /\ lastLength' \in 0 .. Mps
        /\ announced' \in Nat /\ copied' \in 0 .. announced' /\ received' \in Nat
    BY <1>1, <1>2 DEF TypeOK
  <2>2. /\ thenRead' \in BOOLEAN /\ confused' \in BOOLEAN /\ ended' \in BOOLEAN
        /\ faulted' \in BOOLEAN /\ outcome' \in Outcomes /\ left' \in Nat \cup {Nothing}
        /\ capacity' \in Capacities \cup {0} /\ pc' \in Reading \cup {"idle", "command"}
        /\ pc' \in {"more", "closing"} \/ outcome' = "read" => announced' <= capacity'
    BY <1>1, <1>2, <1>6 DEF TypeOK
  <2> QED BY <1>8, <2>1, <2>2 DEF TypeOK, Queued
<1>10. Numbered'
  <2>1. ASSUME NEW x \in OnTheWay'
        PROVE  Aged(x, IF pc = "command" /\ thenRead THEN 1 ELSE 0)'
    <3>1. PICK y \in OnTheWay : x.tag = y.tag /\ x.number = y.number
      BY <1>8
    <3>2. Aged(y, IF pc = "command" /\ thenRead THEN 1 ELSE 0)
      BY <1>2 DEF Numbered
    <3> QED BY <1>1, <3>1, <3>2 DEF Aged
  <2>2. pc' = "request" => \A x \in OnTheWay' : x.number < mine'
    BY <1>1, <1>2, <1>8 DEF Numbered
  <2> QED BY <1>1, <1>2, <2>1, <2>2 DEF Numbered
<1>11. MidRead' /\ ResponseTaken'
  BY <1>1, <1>2 DEF MidRead, ResponseTaken
<1>12. InStep'
  <2>1. SUFFICES ASSUME ~faulted PROVE InStep'
    BY <1>1 DEF InStep
  <2>2. pc = "first"
    BY <1>1, <1>2, <2>1 DEF InStep, MidRead, TypeOK, Reading
  <2>3. packets = <<>> /\ requests = <<[tag |-> tag, number |-> mine, capacity |-> capacity]>>
    BY <1>1, <1>2, <2>1, <2>2 DEF InStep
  <2>4. r.tag = tag /\ r.number = mine /\ r.capacity = capacity /\ requests' = <<>>
    BY <1>1, <2>3
  <2>5. DOMAIN packets = {}
    BY <2>3
  <2>6. \A i \in DOMAIN packets' : packets'[i].number = mine'
    BY <1>1, <1>8, <2>4, <2>5
  <2>7. Head(packets').start = 0 /\ Head(packets').tag = tag' /\ Head(packets').size <= capacity'
    BY <1>1, <1>4, <1>8, <2>3, <2>4
  <2> QED BY <1>1, <1>2, <1>8, <2>1, <2>2, <2>4, <2>6, <2>7 DEF InStep
<1> QED BY <1>8, <1>9, <1>10, <1>11, <1>12 DEF Framing

(***************************************************************************)
(* The packets of the response                                             *)
(***************************************************************************)
LEMMA PacketTaken ==
    ASSUME Framing, packets # <<>>, packets' = Tail(packets), requests' = requests,
           nextTag' = nextTag, taken' = taken
    PROVE  /\ Queued' /\ InOrder' /\ Chained' /\ \A x \in OnTheWay' : Aged(x, 0)'
           /\ Head(packets) \in Packet /\ Sized(Head(packets)) /\ Head(packets) \in OnTheWay
           /\ \A i \in DOMAIN packets' : i + 1 \in DOMAIN packets /\ packets'[i] = packets[i + 1]
           /\ Length(Head(packets)) = Mps =>
                 /\ packets' # <<>>
                 /\ Head(packets') = [Head(packets) EXCEPT !.start = @ + Mps]
           /\ Length(Head(packets)) # Mps =>
                 \A i \in DOMAIN packets' : packets'[i].number > Head(packets).number
<1>1. TypeOK /\ Numbered /\ InOrder /\ Chained /\ Queued
  BY DEF Framing, TypeOK, Queued
<1>2. /\ Queued' /\ InOrder' /\ Chained'
      /\ \A x \in OnTheWay' : x \in OnTheWay
      /\ Head(packets) \in Packet /\ Head(packets) \in OnTheWay /\ Sized(Head(packets))
      /\ Length(Head(packets)) = Mps =>
            /\ packets' # <<>>
            /\ Head(packets') = [Head(packets) EXCEPT !.start = @ + Mps]
      /\ Length(Head(packets)) # Mps =>
            \A i \in DOMAIN packets' : packets'[i].number > Head(packets).number
  BY <1>1, TakePacket
<1>3. \A x \in OnTheWay' : Aged(x, 0)'
  BY <1>1, <1>2, KeepsAge
<1>4. \A i \in DOMAIN packets' : i + 1 \in DOMAIN packets /\ packets'[i] = packets[i + 1]
  BY <1>1, HeadTailProperties, EmptySeq, LenProperties DEF Queued
<1> QED BY <1>2, <1>3, <1>4

(* While a packet of this read's response is on the way, no request is.    *)
LEMMA NoRequestBehind ==
    ASSUME TypeOK, Numbered, InOrder, pc \in Reading, packets # <<>>, Head(packets).number = mine
    PROVE  requests = <<>>
<1>1. /\ packets \in Seq(Packet) /\ requests \in Seq(Request) /\ taken \in Nat /\ mine = taken
  BY DEF TypeOK, Numbered
<1>2. 1 \in DOMAIN packets /\ packets[1] = Head(packets)
  BY <1>1, HeadTailProperties, EmptySeq, LenProperties
<1>3. SUFFICES ASSUME requests # <<>> PROVE FALSE
  OBVIOUS
<1>4. 1 \in DOMAIN requests
  BY <1>1, <1>3, EmptySeq, LenProperties
<1>5. requests[1] \in OnTheWay
  BY <1>4 DEF OnTheWay, ToSet
<1>6. requests[1].number \in 1 .. taken
  BY <1>5, NumbersTaken
<1>7. packets[1].number < requests[1].number
  BY <1>2, <1>4 DEF InOrder
<1> QED BY <1>1, <1>2, <1>6, <1>7

(* The first packet of a response is not too long for it.                  *)
LEMMA FirstIsSized ==
    ASSUME NEW p \in Packet, Sized(p), p.start = 0
    PROVE  Length(p) >= Header /\ Length(p) <= Header + Padded(p.size)
<1>1. /\ p.size \in Nat /\ p.total \in Nat /\ Padded(p.size) \in Nat /\ Padded(p.size) >= p.size
  BY NumberOfPacket, PaddedIsNext
<1>2. p.total = Header + p.size \/ p.total = Header + Padded(p.size)
  BY DEF Sized
<1> QED BY <1>1, <1>2, Sizes DEF Length, Least

(* What is left of a response is not too long either; its bytes stop at a  *)
(* short packet, and past them comes nothing but the end.                  *)
LEMMA RestIsSized ==
    ASSUME NEW p \in Packet, Sized(p), p.start >= Header
    PROVE  /\ p.start + Length(p) <= Header + Padded(p.size)
           /\ p.start - Header < p.size => Length(p) # 0
           /\ p.start - Header >= p.size => Length(p) = 0
           /\ p.start - Header + Length(p) < p.size => Length(p) = Mps
<1>1. /\ p.size \in Nat /\ p.total \in Nat /\ p.start \in Nat
      /\ Padded(p.size) \in Nat /\ Padded(p.size) >= p.size
  BY NumberOfPacket, PaddedIsNext
<1>2. /\ p.total = Header + p.size \/ p.total = Header + Padded(p.size)
      /\ p.start <= p.total /\ p.start % Align = 0
  BY DEF Sized
<1>3. p.start - Header \in Nat /\ (p.start - Header) % Align = 0
  BY <1>1, <1>2, Sizes, MultiplesSubtract
<1>4. p.start - Header >= p.size => p.start - Header >= Padded(p.size)
  BY <1>1, <1>3, PaddedIsNext
<1>5. /\ Length(p) \in Nat /\ Length(p) <= p.total - p.start
      /\ Length(p) = Mps \/ Length(p) = p.total - p.start
      /\ p.total - p.start = 0 => Length(p) = 0
  BY <1>1, <1>2, Sizes DEF Length, Least
<1>6. /\ p.total = Header + p.size \/ p.total = Header + Padded(p.size)
      /\ p.start <= p.total /\ Header \in Nat /\ Mps \in Nat \ {0}
  BY <1>2, Sizes
<1>7. p.start + Length(p) <= Header + Padded(p.size)
  BY <1>1, <1>5, <1>6
<1>8. p.start - Header < p.size => Length(p) # 0
  BY <1>1, <1>5, <1>6
<1>9. p.start - Header >= p.size => Length(p) = 0
  <2>1. SUFFICES ASSUME p.start - Header >= p.size PROVE p.total - p.start = 0
    BY <1>5
  <2> QED BY <1>1, <1>4, <1>6, <2>1
<1>10. p.start - Header + Length(p) < p.size => Length(p) = Mps
  BY <1>1, <1>5, <1>6
<1> QED BY <1>7, <1>8, <1>9, <1>10

LEMMA FirstPacketFraming ==
    ASSUME Framing, FirstPacket
    PROVE  Framing'
<1> DEFINE p == Head(packets)
           bytes == Least(Length(p) - Header, p.size)
<1>1. /\ pc = "first" /\ packets # <<>> /\ packets' = Tail(packets) /\ requests' = requests
      /\ nextTag' = nextTag /\ taken' = taken /\ thenRead' = thenRead
      /\ tag' = tag /\ mine' = mine /\ capacity' = capacity
      /\ faulted' = faulted /\ confused' = confused /\ left' = left
  BY DEF FirstPacket, numbering
<1>2. TypeOK /\ Numbered /\ InOrder /\ Chained /\ InStep
  BY DEF Framing
<1>3. /\ Queued' /\ InOrder' /\ Chained' /\ \A x \in OnTheWay' : Aged(x, 0)'
      /\ p \in Packet /\ Sized(p) /\ p \in OnTheWay
      /\ \A i \in DOMAIN packets' : i + 1 \in DOMAIN packets /\ packets'[i] = packets[i + 1]
      /\ Length(p) = Mps =>
            /\ packets' # <<>>
            /\ Head(packets') = [p EXCEPT !.start = @ + Mps]
      /\ Length(p) # Mps => \A i \in DOMAIN packets' : packets'[i].number > p.number
  BY <1>1, PacketTaken
<1>4. /\ mine = taken /\ outcome = "none" /\ capacity \in Capacities
      /\ mine > 0 /\ tag > 0 /\ nextTag \in {tag + 1, tag + 1 - TagCount}
  BY <1>1, <1>2 DEF Numbered, Reading
<1>5. p.size \in Nat /\ p.start \in Nat /\ p.number \in Nat /\ p.eom \in BOOLEAN
      /\ Length(p) \in 0 .. Mps
  BY <1>3, NumberOfPacket, LengthOfPacket DEF Sized
<1>6. ASSUME ~faulted PROVE requests = <<>> /\ HeaderOf(p) = "valid"
  <2>1. requests = <<>> /\ p.start = 0 /\ p.tag = tag /\ p.size <= capacity
    BY <1>1, <1>2, <1>6 DEF InStep
  <2>2. Length(p) >= Header /\ Length(p) <= Header + Padded(p.size)
    BY <1>3, <2>1, FirstIsSized
  <2>3. Padded(p.size) \in Nat
    BY <1>5, PaddedIsNext
  <2>4. /\ ~(p.start # 0 \/ Length(p) < Header) /\ ~(p.tag # tag) /\ ~(p.size > capacity)
        /\ ~(Length(p) > Header + Padded(p.size))
    BY <1>4, <1>5, <2>1, <2>2, <2>3, Sizes, FramingAssumption
  <2> HIDE DEF p
  <2> QED BY <2>1, <2>4 DEF HeaderOf
<1>7. CASE HeaderOf(p) # "valid"
  <2>1. /\ pc' = "idle" /\ outcome' = HeaderOf(p)
        /\ announced' = announced /\ copied' = copied /\ received' = received
        /\ lastLength' = lastLength /\ ended' = ended
    BY <1>7 DEF FirstPacket, Return
  <2>2. HeaderOf(p) \in {"invalidMessage", "tagMismatch", "tooSmall"}
    BY <1>7 DEF HeaderOf
  <2>3. TypeOK'
    <3>1. /\ nextTag' \in 1 .. TagCount /\ tag' \in 0 .. TagCount
          /\ taken' \in 0 .. MaxTags /\ mine' \in 0 .. taken' /\ lastLength' \in 0 .. Mps
          /\ announced' \in Nat /\ copied' \in 0 .. announced' /\ received' \in Nat
      BY <1>1, <1>2, <2>1 DEF TypeOK
    <3>2. /\ thenRead' \in BOOLEAN /\ confused' \in BOOLEAN /\ ended' \in BOOLEAN
          /\ faulted' \in BOOLEAN /\ outcome' \in Outcomes /\ left' \in Nat \cup {Nothing}
          /\ capacity' \in Capacities \cup {0} /\ outcome' # "read"
      BY <1>1, <1>2, <2>1, <2>2 DEF TypeOK, Outcomes
    <3> QED BY <1>3, <2>1, <3>1, <3>2 DEF TypeOK, Queued
  <2>4. Numbered'
    BY <1>1, <1>3, <2>1 DEF Numbered, Reading
  <2>5. MidRead' /\ ResponseTaken'
    BY <2>1, <2>2 DEF MidRead, ResponseTaken
  <2>6. InStep'
    BY <1>1, <1>6, <1>7 DEF InStep
  <2> QED BY <1>3, <2>3, <2>4, <2>5, <2>6 DEF Framing
<1>8. CASE HeaderOf(p) = "valid"
  <2>1. /\ announced' = p.size /\ copied' = bytes /\ received' = Length(p)
        /\ lastLength' = Length(p) /\ ended' = p.eom /\ Continue(bytes, p.size, Length(p))
    BY <1>8 DEF FirstPacket
  <2>2. p.start = 0 /\ p.tag = tag /\ p.size <= capacity /\ Length(p) >= Header
    <3>1. ~(p.start # 0 \/ Length(p) < Header) /\ ~(p.tag # tag) /\ ~(p.size > capacity)
      <4> HIDE DEF p
      <4> QED BY <1>8 DEF HeaderOf
    <3> QED BY <1>4, <1>5, <3>1, Sizes, FramingAssumption
  <2>3. p.number = mine
    BY <1>1, <1>2, <1>3, <2>2, TagIsMine DEF Reading
  <2>4. requests = <<>>
    BY <1>1, <1>2, <2>3, NoRequestBehind DEF Reading
  <2>5. p.total >= Header + p.size /\ p.total \in Nat
    <3>1. p.total = Header + p.size \/ p.total = Header + Padded(p.size)
      BY <1>3 DEF Sized
    <3> QED BY <1>3, <1>5, <3>1, NumberOfPacket, PaddedIsNext, Sizes
  <2>6. /\ bytes \in 0 .. p.size
        /\ bytes < p.size => Length(p) = Mps
        /\ bytes = Least(Length(p) - Header, p.size)
    <3> HIDE DEF p
    <3>1. Length(p) = Mps \/ Length(p) = p.total
      BY <2>2, <2>5, Sizes DEF Length, Least
    <3> QED BY <1>5, <2>2, <2>5, <3>1, Sizes DEF Least
  <2> HIDE DEF bytes
  <2>7. \/ /\ pc' \in {"more", "closing"} /\ outcome' = "none" /\ Length(p) = Mps
           /\ pc' = "more" <=> bytes < p.size
        \/ pc' = "idle" /\ outcome' = "read" /\ bytes = p.size /\ Length(p) # Mps
    <3>1. CASE bytes < p.size
      BY <1>4, <2>1, <2>6, <3>1 DEF Continue
    <3>2. CASE bytes = p.size /\ Length(p) = Mps
      BY <1>4, <1>5, <2>1, <3>2 DEF Continue
    <3>3. CASE bytes = p.size /\ Length(p) # Mps
      BY <1>5, <2>1, <3>3 DEF Continue, Return
    <3> QED BY <1>5, <2>6, <3>1, <3>2, <3>3
  <2>8. TypeOK'
    <3>1. /\ nextTag' \in 1 .. TagCount /\ tag' \in 0 .. TagCount
          /\ taken' \in 0 .. MaxTags /\ mine' \in 0 .. taken' /\ lastLength' \in 0 .. Mps
          /\ announced' \in Nat /\ copied' \in 0 .. announced' /\ received' \in Nat
      BY <1>1, <1>2, <1>5, <2>1, <2>6 DEF TypeOK
    <3>2. /\ thenRead' \in BOOLEAN /\ confused' \in BOOLEAN /\ ended' \in BOOLEAN
          /\ faulted' \in BOOLEAN /\ outcome' \in Outcomes /\ left' \in Nat \cup {Nothing}
          /\ capacity' \in Capacities \cup {0} /\ pc' \in Reading \cup {"idle", "command"}
      BY <1>1, <1>2, <1>5, <2>1, <2>7 DEF TypeOK, Outcomes, Reading
    <3> QED BY <1>1, <1>3, <2>1, <2>2, <3>1, <3>2 DEF TypeOK, Queued
  <2>9. Numbered'
    <3>1. /\ pc' \in {"more", "closing", "idle"} /\ pc' # "command" /\ pc' # "request"
          /\ (pc' \in Reading => outcome' = "none")
      BY <2>7 DEF Reading
    <3>2. \A x \in OnTheWay' : Aged(x, IF pc = "command" /\ thenRead THEN 1 ELSE 0)'
      BY <1>3, <3>1
    <3> QED BY <1>1, <1>4, <3>1, <3>2 DEF Numbered
  <2>10. MidRead'
    <3>1. SUFFICES ASSUME pc' \in {"more", "closing"} PROVE MidRead'
      BY DEF MidRead
    <3>2. Length(p) = Mps /\ (pc' = "more" <=> bytes < p.size)
      BY <2>7, <3>1
    <3>3. packets' # <<>> /\ Head(packets') = [p EXCEPT !.start = @ + Mps]
      BY <1>3, <3>2
    <3>4. /\ Head(packets').number = mine /\ Head(packets').tag = tag
          /\ Head(packets').size = p.size /\ Head(packets').start = Mps
      <4>1. p \in [tag : 1 .. TagCount, number : 1 .. MaxTags, size : Nat, eom : BOOLEAN,
                   total : Nat, start : Nat]
        BY <1>3 DEF Packet
      <4> HIDE DEF p
      <4> QED BY <2>2, <2>3, <3>3, <4>1, Sizes
    <3> QED BY <1>1, <2>1, <2>4, <2>6, <3>2, <3>3, <3>4, Sizes DEF MidRead
  <2>11. ASSUME pc' = "idle"
         PROVE  outcome' = "read" /\ copied' = announced'
                /\ \A i \in DOMAIN packets' : packets'[i].number # mine'
    <3>1. Length(p) # Mps /\ bytes = p.size /\ outcome' = "read"
      BY <2>7, <2>11
    <3>2. \A i \in DOMAIN packets' : packets'[i].number > mine
      BY <1>3, <2>3, <3>1
    <3>3. \A i \in DOMAIN packets' : packets'[i].number # mine
      BY <1>2, <3>2 DEF TypeOK
    <3> QED BY <1>1, <2>1, <3>1, <3>3
  <2>12. ResponseTaken'
    BY <1>1, <2>4, <2>7, <2>11 DEF ResponseTaken
  <2>13. InStep'
    <3>1. SUFFICES ASSUME ~faulted PROVE InStep'
      BY <1>1 DEF InStep
    <3>2. ~confused /\ \A i \in DOMAIN packets : packets[i].number = mine
      BY <1>2, <3>1 DEF InStep
    <3>3. \A i \in DOMAIN packets' : packets'[i].number = mine'
      BY <1>1, <1>3, <3>2
    <3>4. pc' = "idle" => requests' = <<>> /\ packets' = <<>>
      <4>1. SUFFICES ASSUME pc' = "idle" PROVE packets' = <<>>
        BY <1>1, <2>4
      <4>2. DOMAIN packets' = {}
        BY <2>11, <3>3, <4>1
      <4> QED BY <1>3, <4>2, EmptySeq, LenProperties DEF Queued
    <3> QED BY <1>1, <2>7, <3>1, <3>2, <3>3, <3>4 DEF InStep
  <2> QED BY <1>3, <2>8, <2>9, <2>10, <2>12, <2>13 DEF Framing
<1> QED BY <1>7, <1>8

LEMMA NextPacketFraming ==
    ASSUME Framing, NextPacket
    PROVE  Framing'
<1> DEFINE p == Head(packets)
           length == Length(p)
           bytes == copied + Least(length, announced - copied)
<1>1. /\ pc = "more" /\ packets # <<>> /\ packets' = Tail(packets) /\ requests' = requests
      /\ nextTag' = nextTag /\ taken' = taken /\ thenRead' = thenRead
      /\ tag' = tag /\ mine' = mine /\ capacity' = capacity /\ announced' = announced
      /\ ended' = ended /\ faulted' = faulted /\ confused' = confused /\ left' = left
  BY DEF NextPacket, numbering
<1>2. TypeOK /\ Numbered /\ InOrder /\ Chained /\ InStep /\ MidRead
  BY DEF Framing
<1>3. /\ Queued' /\ InOrder' /\ Chained' /\ \A x \in OnTheWay' : Aged(x, 0)'
      /\ p \in Packet /\ Sized(p) /\ p \in OnTheWay
      /\ \A i \in DOMAIN packets' : i + 1 \in DOMAIN packets /\ packets'[i] = packets[i + 1]
      /\ length = Mps =>
            /\ packets' # <<>>
            /\ Head(packets') = [p EXCEPT !.start = @ + Mps]
      /\ length # Mps => \A i \in DOMAIN packets' : packets'[i].number > p.number
  BY <1>1, PacketTaken
<1>4. /\ mine = taken /\ outcome = "none" /\ capacity \in Capacities
      /\ mine > 0 /\ tag > 0 /\ nextTag \in {tag + 1, tag + 1 - TagCount}
  BY <1>1, <1>2 DEF Numbered, Reading
<1>5. /\ requests = <<>> /\ p.number = mine /\ p.tag = tag /\ p.size = announced
      /\ p.start = received /\ received >= Header
      /\ copied = Least(received - Header, announced) /\ copied < announced
  BY <1>1, <1>2 DEF MidRead
<1>6. /\ length \in 0 .. Mps /\ received \in Nat /\ announced \in Nat /\ copied \in Nat
      /\ announced <= capacity
  BY <1>1, <1>2, <1>3, LengthOfPacket DEF Sized, TypeOK
<1>7. /\ received + length <= Header + Padded(announced)
      /\ received - Header < announced => length # 0
      /\ received - Header + length < announced => length = Mps
  <2> HIDE DEF p
  <2> QED BY <1>3, <1>5, RestIsSized
<1> HIDE DEF length
<1>8. /\ copied = received - Header /\ length # 0
      /\ bytes = Least(received + length - Header, announced)
      /\ bytes \in 0 .. announced /\ (bytes < announced => length = Mps)
  BY <1>5, <1>6, <1>7, Sizes DEF Least
<1>9. /\ copied' = bytes /\ received' = received + length /\ lastLength' = length
      /\ Continue(bytes, announced, length)
  <2>1. Fits(length)
    BY <1>7, <1>8 DEF Fits
  <2> QED BY <2>1 DEF NextPacket, length
<1> HIDE DEF bytes
<1>10. \/ /\ pc' \in {"more", "closing"} /\ outcome' = "none" /\ length = Mps
          /\ pc' = "more" <=> bytes < announced
       \/ pc' = "idle" /\ outcome' = "read" /\ bytes = announced /\ length # Mps
  <2>1. CASE bytes < announced
    BY <1>4, <1>8, <1>9, <2>1 DEF Continue
  <2>2. CASE bytes = announced /\ length = Mps
    BY <1>4, <1>6, <1>9, <2>2 DEF Continue
  <2>3. CASE bytes = announced /\ length # Mps
    BY <1>6, <1>9, <2>3 DEF Continue, Return
  <2> QED BY <1>6, <1>8, <2>1, <2>2, <2>3
<1>11. TypeOK'
  <2>1. /\ nextTag' \in 1 .. TagCount /\ tag' \in 0 .. TagCount
        /\ taken' \in 0 .. MaxTags /\ mine' \in 0 .. taken' /\ lastLength' \in 0 .. Mps
        /\ announced' \in Nat /\ copied' \in 0 .. announced' /\ received' \in Nat
    BY <1>1, <1>2, <1>6, <1>8, <1>9 DEF TypeOK
  <2>2. /\ thenRead' \in BOOLEAN /\ confused' \in BOOLEAN /\ ended' \in BOOLEAN
        /\ faulted' \in BOOLEAN /\ outcome' \in Outcomes /\ left' \in Nat \cup {Nothing}
        /\ capacity' \in Capacities \cup {0} /\ pc' \in Reading \cup {"idle", "command"}
    BY <1>1, <1>2, <1>10 DEF TypeOK, Outcomes, Reading
  <2> QED BY <1>1, <1>3, <1>6, <2>1, <2>2 DEF TypeOK, Queued
<1>12. Numbered'
  <2>1. /\ pc' \in {"more", "closing", "idle"} /\ pc' # "command" /\ pc' # "request"
        /\ (pc' \in Reading => outcome' = "none")
    BY <1>10 DEF Reading
  <2>2. \A x \in OnTheWay' : Aged(x, IF pc = "command" /\ thenRead THEN 1 ELSE 0)'
    BY <1>3, <2>1
  <2> QED BY <1>1, <1>4, <2>1, <2>2 DEF Numbered
<1>13. MidRead'
  <2>1. SUFFICES ASSUME pc' \in {"more", "closing"} PROVE MidRead'
    BY DEF MidRead
  <2>2. length = Mps /\ (pc' = "more" <=> bytes < announced)
    BY <1>10, <2>1
  <2>3. packets' # <<>> /\ Head(packets') = [p EXCEPT !.start = @ + Mps]
    BY <1>3, <2>2
  <2>4. /\ Head(packets').number = mine /\ Head(packets').tag = tag
        /\ Head(packets').size = announced /\ Head(packets').start = received + Mps
    <3>1. p \in [tag : 1 .. TagCount, number : 1 .. MaxTags, size : Nat, eom : BOOLEAN,
                 total : Nat, start : Nat]
      BY <1>3 DEF Packet
    <3> HIDE DEF p
    <3> QED BY <1>5, <2>3, <3>1
  <2>5. received' >= Header /\ copied' = Least(received' - Header, announced')
    BY <1>1, <1>5, <1>6, <1>8, <1>9, Sizes
  <2> QED BY <1>1, <1>5, <1>9, <2>2, <2>3, <2>4, <2>5 DEF MidRead
<1>14. ASSUME pc' = "idle"
       PROVE  outcome' = "read" /\ copied' = announced'
              /\ \A i \in DOMAIN packets' : packets'[i].number # mine'
  <2>1. length # Mps /\ bytes = announced /\ outcome' = "read"
    BY <1>10, <1>14
  <2>2. \A i \in DOMAIN packets' : packets'[i].number > mine
    BY <1>3, <1>5, <2>1
  <2>3. \A i \in DOMAIN packets' : packets'[i].number # mine
    BY <1>2, <2>2 DEF TypeOK
  <2> QED BY <1>1, <1>9, <2>1, <2>3
<1>15. ResponseTaken'
  BY <1>1, <1>5, <1>10, <1>14 DEF ResponseTaken
<1>16. InStep'
  <2>1. SUFFICES ASSUME ~faulted PROVE InStep'
    BY <1>1 DEF InStep
  <2>2. ~confused /\ \A i \in DOMAIN packets : packets[i].number = mine
    BY <1>2, <2>1 DEF InStep
  <2>3. \A i \in DOMAIN packets' : packets'[i].number = mine'
    BY <1>1, <1>3, <2>2
  <2>4. pc' = "idle" => requests' = <<>> /\ packets' = <<>>
    <3>1. SUFFICES ASSUME pc' = "idle" PROVE packets' = <<>>
      BY <1>1, <1>5
    <3>2. DOMAIN packets' = {}
      BY <1>14, <2>3, <3>1
    <3> QED BY <1>3, <3>2, EmptySeq, LenProperties DEF Queued
  <2> QED BY <1>1, <1>10, <2>1, <2>2, <2>3, <2>4 DEF InStep
<1> QED BY <1>3, <1>11, <1>12, <1>13, <1>15, <1>16 DEF Framing

LEMMA ClosingPacketFraming ==
    ASSUME Framing, ClosingPacket
    PROVE  Framing'
<1> DEFINE p == Head(packets)
<1>1. /\ pc = "closing" /\ packets # <<>> /\ packets' = Tail(packets) /\ requests' = requests
      /\ pc' = "idle" /\ outcome' = IF Length(p) = 0 THEN "read" ELSE "invalidMessage"
      /\ nextTag' = nextTag /\ taken' = taken /\ thenRead' = thenRead
      /\ tag' = tag /\ mine' = mine /\ capacity' = capacity /\ announced' = announced
      /\ copied' = copied /\ received' = received /\ lastLength' = lastLength
      /\ ended' = ended /\ faulted' = faulted /\ confused' = confused /\ left' = left
  BY DEF ClosingPacket, Return, numbering, read
<1>2. TypeOK /\ Numbered /\ InOrder /\ Chained /\ InStep /\ MidRead
  BY DEF Framing
<1>3. /\ Queued' /\ InOrder' /\ Chained' /\ \A x \in OnTheWay' : Aged(x, 0)'
      /\ p \in Packet /\ Sized(p)
      /\ \A i \in DOMAIN packets' : i + 1 \in DOMAIN packets /\ packets'[i] = packets[i + 1]
      /\ Length(p) # Mps => \A i \in DOMAIN packets' : packets'[i].number > p.number
  BY <1>1, PacketTaken
<1>4. /\ requests = <<>> /\ p.number = mine /\ p.size = announced
      /\ p.start = received /\ received >= Header
      /\ copied = Least(received - Header, announced) /\ ~(copied < announced)
  BY <1>1, <1>2 DEF MidRead
<1>5. received \in Nat /\ announced \in Nat /\ copied \in 0 .. announced /\ announced <= capacity
  BY <1>1, <1>2 DEF TypeOK
<1>6. copied = announced /\ received - Header >= announced
  BY <1>4, <1>5, Sizes DEF Least
<1>7. Length(p) = 0
  <2> HIDE DEF p
  <2> QED BY <1>3, <1>4, <1>6, RestIsSized
<1>8. outcome' = "read" /\ Length(p) # Mps
  BY <1>1, <1>7, Sizes
<1>9. TypeOK'
  <2>1. /\ nextTag' \in 1 .. TagCount /\ tag' \in 0 .. TagCount
        /\ taken' \in 0 .. MaxTags /\ mine' \in 0 .. taken' /\ lastLength' \in 0 .. Mps
        /\ announced' \in Nat /\ copied' \in 0 .. announced' /\ received' \in Nat
    BY <1>1, <1>2 DEF TypeOK
  <2>2. /\ thenRead' \in BOOLEAN /\ confused' \in BOOLEAN /\ ended' \in BOOLEAN
        /\ faulted' \in BOOLEAN /\ outcome' \in Outcomes /\ left' \in Nat \cup {Nothing}
        /\ capacity' \in Capacities \cup {0} /\ pc' \in Reading \cup {"idle", "command"}
    BY <1>1, <1>2, <1>8 DEF TypeOK, Outcomes
  <2> QED BY <1>1, <1>3, <1>5, <2>1, <2>2 DEF TypeOK, Queued
<1>10. Numbered'
  BY <1>1, <1>3 DEF Numbered, Reading
<1>11. MidRead'
  BY <1>1 DEF MidRead
<1>12. \A i \in DOMAIN packets' : packets'[i].number # mine'
  <2>1. \A i \in DOMAIN packets' : packets'[i].number > mine
    BY <1>3, <1>4, <1>8
  <2> QED BY <1>1, <1>2, <2>1 DEF TypeOK
<1>13. ResponseTaken'
  BY <1>1, <1>4, <1>6, <1>12 DEF ResponseTaken
<1>14. InStep'
  <2>1. SUFFICES ASSUME ~faulted PROVE InStep'
    BY <1>1 DEF InStep
  <2>2. ~confused /\ \A i \in DOMAIN packets : packets[i].number = mine
    BY <1>2, <2>1 DEF InStep
  <2>3. \A i \in DOMAIN packets' : packets'[i].number = mine'
    BY <1>1, <1>3, <2>2
  <2>4. DOMAIN packets' = {}
    BY <1>12, <2>3
  <2>5. packets' = <<>>
    BY <1>3, <2>4, EmptySeq, LenProperties DEF Queued
  <2> QED BY <1>1, <1>4, <1>8, <2>1, <2>2, <2>4, <2>5 DEF InStep
<1> QED BY <1>3, <1>9, <1>10, <1>11, <1>13, <1>14 DEF Framing

LEMMA ReceiveFailsFraming ==
    ASSUME Framing, ReceiveFails
    PROVE  Framing'
<1>1. /\ pc \in {"first", "more", "closing"} /\ requests' = requests
      /\ pc' = "idle" /\ outcome' = "transfer" /\ faulted' = TRUE
      /\ nextTag' = nextTag /\ taken' = taken /\ thenRead' = thenRead
      /\ tag' = tag /\ mine' = mine /\ capacity' = capacity /\ announced' = announced
      /\ copied' = copied /\ received' = received /\ lastLength' = lastLength
      /\ ended' = ended /\ confused' = confused /\ left' = left
  BY DEF ReceiveFails, Return, numbering, read
<1>2. TypeOK /\ Numbered /\ InOrder /\ Chained
  BY DEF Framing
<1>3. Queued' /\ InOrder' /\ Chained' /\ \A x \in OnTheWay' : Aged(x, 0)'
  <2>1. CASE packets' = packets
    <3>1. Queued' /\ InOrder' /\ Chained' /\ OnTheWay' = OnTheWay
      BY <1>1, <1>2, <2>1, SameQueues DEF TypeOK, Queued
    <3> QED BY <1>1, <1>2, <3>1, KeepsAge
  <2>2. CASE packets # <<>> /\ packets' = Tail(packets)
    BY <1>1, <2>2, PacketTaken
  <2> QED BY <2>1, <2>2 DEF ReceiveFails
<1>4. TypeOK'
  <2>1. /\ nextTag' \in 1 .. TagCount /\ tag' \in 0 .. TagCount
        /\ taken' \in 0 .. MaxTags /\ mine' \in 0 .. taken' /\ lastLength' \in 0 .. Mps
        /\ announced' \in Nat /\ copied' \in 0 .. announced' /\ received' \in Nat
    BY <1>1, <1>2 DEF TypeOK
  <2>2. /\ thenRead' \in BOOLEAN /\ confused' \in BOOLEAN /\ ended' \in BOOLEAN
        /\ faulted' \in BOOLEAN /\ outcome' \in Outcomes /\ left' \in Nat \cup {Nothing}
        /\ capacity' \in Capacities \cup {0}
    BY <1>1, <1>2 DEF TypeOK, Outcomes
  <2> QED BY <1>1, <1>3, <2>1, <2>2 DEF TypeOK, Queued
<1>5. Numbered'
  BY <1>1, <1>3 DEF Numbered, Reading
<1>6. MidRead' /\ ResponseTaken' /\ InStep'
  BY <1>1 DEF MidRead, ResponseTaken, InStep
<1> QED BY <1>3, <1>4, <1>5, <1>6 DEF Framing

LEMMA ReconfigureFraming ==
    ASSUME Framing, Reconfigure
    PROVE  Framing'
<1>1. /\ pc = "idle" /\ pc' = "idle" /\ outcome' = "none" /\ faulted' = FALSE
      /\ left' = Nothing /\ requests' = <<>> /\ packets' = <<>> /\ confused' = FALSE
      /\ nextTag' = nextTag /\ taken' = taken /\ thenRead' = thenRead
      /\ tag' = tag /\ mine' = mine /\ capacity' = capacity /\ announced' = announced
      /\ copied' = copied /\ received' = received /\ lastLength' = lastLength
      /\ ended' = ended
  BY DEF Reconfigure, numbering, read
<1>2. TypeOK
  BY DEF Framing
<1>3. /\ requests' \in Seq(Request) /\ packets' \in Seq(Packet)
      /\ DOMAIN requests' = {} /\ DOMAIN packets' = {}
  BY <1>1, EmptySeq, LenProperties
<1>4. OnTheWay' = {}
  BY <1>3 DEF OnTheWay, ToSet
<1>5. TypeOK'
  <2>1. /\ nextTag' \in 1 .. TagCount /\ tag' \in 0 .. TagCount
        /\ taken' \in 0 .. MaxTags /\ mine' \in 0 .. taken' /\ lastLength' \in 0 .. Mps
        /\ announced' \in Nat /\ copied' \in 0 .. announced' /\ received' \in Nat
    BY <1>1, <1>2 DEF TypeOK
  <2>2. /\ thenRead' \in BOOLEAN /\ confused' \in BOOLEAN /\ ended' \in BOOLEAN
        /\ faulted' \in BOOLEAN /\ outcome' \in Outcomes /\ left' \in Nat \cup {Nothing}
        /\ capacity' \in Capacities \cup {0}
    BY <1>1, <1>2 DEF TypeOK, Outcomes
  <2> QED BY <1>1, <1>3, <2>1, <2>2 DEF TypeOK
<1>6. Numbered'
  BY <1>1, <1>4 DEF Numbered, Reading
<1>7. InOrder' /\ Chained'
  BY <1>3 DEF InOrder, Chained
<1>8. MidRead' /\ ResponseTaken'
  BY <1>1 DEF MidRead, ResponseTaken
<1>9. InStep'
  BY <1>1, <1>3 DEF InStep
<1> QED BY <1>5, <1>6, <1>7, <1>8, <1>9 DEF Framing

LEMMA StutterFraming ==
    ASSUME Framing, UNCHANGED vars
    PROVE  Framing'
<1>1. /\ pc' = pc /\ nextTag' = nextTag /\ taken' = taken /\ thenRead' = thenRead
      /\ tag' = tag /\ mine' = mine /\ capacity' = capacity /\ announced' = announced
      /\ copied' = copied /\ received' = received /\ lastLength' = lastLength
      /\ ended' = ended /\ outcome' = outcome /\ left' = left /\ requests' = requests
      /\ packets' = packets /\ confused' = confused /\ faulted' = faulted
  BY DEF vars, numbering, read, instrument
<1>2. Queued' /\ InOrder' /\ Chained' /\ OnTheWay' = OnTheWay
  BY <1>1, SameQueues DEF Framing, TypeOK, Queued
<1>3. TypeOK'
  BY <1>1 DEF Framing, TypeOK
<1>4. Numbered'
  BY <1>1, <1>2 DEF Framing, Numbered, Aged
<1>5. MidRead' /\ ResponseTaken'
  BY <1>1 DEF Framing, MidRead, ResponseTaken
<1>6. InStep'
  BY <1>1 DEF Framing, InStep
<1> QED BY <1>2, <1>3, <1>4, <1>5, <1>6 DEF Framing

(***************************************************************************)
(* Theorems                                                                *)
(***************************************************************************)
(* UsbtmcHost::write, read and exchange keep in step with a conforming     *)
(* instrument: whatever has failed before, no tag is on the way twice, the *)
(* packets on the way are whole responses in the order of their requests,  *)
(* a read that returns Ok has all of its own one, and with no fault every  *)
(* call succeeds.                                                          *)
THEOREM ExchangesStayInStep == Spec => []Framing
<1>1. Init => Framing
  BY InitFraming
<1>2. Framing /\ [Next]_vars => Framing'
  <2> SUFFICES ASSUME Framing, [Next]_vars PROVE Framing'
    OBVIOUS
  <2>1. ASSUME NEW size \in Capacities, Read(size) PROVE Framing'
    BY <2>1, ReadFraming
  <2>2. ASSUME NEW exchange \in BOOLEAN, NEW size \in Capacities, Write(exchange, size)
        PROVE  Framing'
    BY <2>2, WriteFraming
  <2>3. CASE CommandSent
    BY <2>3, CommandSentFraming
  <2>4. CASE RequestSent
    BY <2>4, RequestSentFraming
  <2>5. CASE SendFails
    BY <2>5, SendFailsFraming
  <2>6. CASE Answer
    BY <2>6, AnswerFraming
  <2>7. CASE FirstPacket
    BY <2>7, FirstPacketFraming
  <2>8. CASE NextPacket
    BY <2>8, NextPacketFraming
  <2>9. CASE ClosingPacket
    BY <2>9, ClosingPacketFraming
  <2>10. CASE ReceiveFails
    BY <2>10, ReceiveFailsFraming
  <2>11. CASE Reconfigure
    BY <2>11, ReconfigureFraming
  <2>12. CASE UNCHANGED vars
    BY <2>12, StutterFraming
  <2> QED BY <2>1, <2>2, <2>3, <2>4, <2>5, <2>6, <2>7, <2>8, <2>9, <2>10, <2>11, <2>12
          DEF Next
<1> QED BY <1>1, <1>2, PTL DEF Spec

(* UsbtmcHost::read_response puts a byte into the caller's buffer only out *)
(* of a packet of the response to this very call, however many calls have  *)
(* failed and left their responses behind.                                 *)
THEOREM BytesAreOwn == Spec => OwnBytes
<1>1. Framing /\ [Next]_vars =>
         [<<announced, copied>>' # <<announced, copied>> => Head(packets).number = mine]_vars
  <2> SUFFICES ASSUME Framing, Next, <<announced, copied>>' # <<announced, copied>>
               PROVE  Head(packets).number = mine
    BY DEF vars, read
  <2>1. FirstPacket \/ NextPacket
    BY DEF Next, Read, Write, BeginRead, CommandSent, RequestSent, SendFails, Answer,
           ClosingPacket, ReceiveFails, Reconfigure, read
  <2>2. CASE FirstPacket
    <3>1. HeaderOf(Head(packets)) = "valid" /\ pc = "first" /\ packets # <<>>
      BY <2>2 DEF FirstPacket
    <3>2. Head(packets).tag = tag
      BY <3>1 DEF HeaderOf
    <3>3. Head(packets) \in OnTheWay
      <4>1. packets \in Seq(Packet)
        BY DEF Framing, TypeOK
      <4>2. 1 \in DOMAIN packets /\ Head(packets) = packets[1]
        BY <3>1, <4>1, HeadTailProperties, EmptySeq, LenProperties
      <4> QED BY <4>2 DEF OnTheWay, ToSet
    <3> QED BY <3>1, <3>2, <3>3, TagIsMine DEF Framing, Reading
  <2>3. CASE NextPacket
    BY <2>3 DEF NextPacket, Framing, MidRead
  <2> QED BY <2>1, <2>2, <2>3
<1> QED BY <1>1, ExchangesStayInStep, PTL DEF Spec, OwnBytes

LEMMA LeastOf ==
    ASSUME NEW T, T \subseteq Nat, T # {}
    PROVE  Min(T) \in T /\ \A k \in T : Min(T) <= k
<1>1. PICK R : R = OpToRel(<, Nat)
  OBVIOUS
<1>2. IsWellFoundedOn(R, Nat)
  BY <1>1, NatLessThanWellFounded
<1>3. PICK m \in T : \A k \in T : ~(<<k, m>> \in R)
  BY <1>2, WFMin
<1>4. \A k \in Nat, n \in Nat : <<k, n>> \in R <=> k < n
  BY <1>1 DEF OpToRel
<1>5. \A k \in T : ~(k < m) /\ k \in Nat /\ m \in Nat
  BY <1>3, <1>4
<1>6. \E x \in T : \A k \in T : x <= k
  BY <1>5
<1> QED BY <1>6 DEF Min

(***************************************************************************)
(* Runs                                                                    *)
(***************************************************************************)
(* A run over n symbols exists: were there a first number without one, the *)
(* run over one symbol less could be extended.                             *)
StepOf(kind, ctx, state, x) ==
    CASE kind = "coder" -> CoderStep(ctx, state, x)
      [] kind = "data"  -> IF Ended(state) THEN state ELSE DataStep(state, x)
      [] kind = "control" -> IF Ended(state) THEN state ELSE ControlStep(state, x)
      [] kind = "ftdi"  -> IF Ended(state) THEN state ELSE FtdiStep(state, x)
      [] kind = "tmc"   -> IF Ended(state) THEN state ELSE TmcStep(state, x)
      [] kind = "pick"  -> Only({PickData(state, data) : data \in {DiscoverData(ctx, x)}})

Run(f, kind, ctx, start, s, n) ==
    f = [i \in 0 .. n |->
            IF i = 0 THEN start ELSE StepOf(kind, ctx, f[i - 1], s[i])]

LEMMA RunUnfolds ==
    ASSUME NEW f, NEW kind, NEW ctx, NEW start, NEW s, NEW n \in Nat, Run(f, kind, ctx, start, s, n)
    PROVE  /\ DOMAIN f = 0 .. n /\ f[0] = start
           /\ \A i \in 1 .. n : f[i] = StepOf(kind, ctx, f[i - 1], s[i])
  BY DEF Run

LEMMA RunFolds ==
    ASSUME NEW f, NEW kind, NEW ctx, NEW start, NEW s, NEW n \in Nat, f = [i \in 0 .. n |-> f[i]],
           f[0] = start, \A i \in 1 .. n : f[i] = StepOf(kind, ctx, f[i - 1], s[i])
    PROVE  Run(f, kind, ctx, start, s, n)
<1>1. \A i \in 0 .. n : f[i] = IF i = 0 THEN start ELSE StepOf(kind, ctx, f[i - 1], s[i])
  <2> SUFFICES ASSUME NEW i \in 0 .. n
               PROVE  f[i] = IF i = 0 THEN start ELSE StepOf(kind, ctx, f[i - 1], s[i])
    OBVIOUS
  <2>1. CASE i = 0
    BY <2>1, Zenon
  <2>2. CASE i # 0
    <3>1. i \in 1 .. n
      BY <2>2
    <3> QED BY <2>2, <3>1, Zenon
  <2> QED BY <2>1, <2>2
<1> QED BY <1>1, Zenon DEF Run

LEMMA RunExtends ==
    ASSUME NEW f, NEW kind, NEW ctx, NEW start, NEW s, NEW n \in Nat, Run(f, kind, ctx, start, s, n),
           NEW t, \A i \in 1 .. n : t[i] = s[i],
           NEW g, g = [i \in 0 .. n + 1 |-> IF i = n + 1 THEN StepOf(kind, ctx, f[n], t[n + 1]) ELSE f[i]]
    PROVE  Run(g, kind, ctx, start, t, n + 1)
<1>1. g = [i \in 0 .. n + 1 |-> g[i]] /\ n + 1 \in Nat
  OBVIOUS
<1>2. /\ f[0] = start
      /\ \A i \in 1 .. n : f[i] = StepOf(kind, ctx, f[i - 1], s[i])
  BY RunUnfolds
<1>3. g[0] = start
  BY <1>2
<1>4. ASSUME NEW i \in 1 .. n + 1 PROVE g[i] = StepOf(kind, ctx, g[i - 1], t[i])
  <2>1. g[i - 1] = f[i - 1] /\ i \in 0 .. n + 1
    BY <1>4
  <2>2. CASE i = n + 1
    BY <2>1, <2>2
  <2>3. CASE i # n + 1
    <3>1. i \in 1 .. n /\ g[i] = f[i]
      BY <1>4, <2>3
    <3> QED BY <1>2, <2>1, <3>1
  <2> QED BY <2>2, <2>3
<1> QED BY <1>1, <1>3, <1>4, RunFolds

LEMMA RunExists ==
    ASSUME NEW kind, NEW ctx, NEW start, NEW s, NEW n \in Nat
    PROVE  \E f : Run(f, kind, ctx, start, s, n)
<1> DEFINE T == {k \in Nat : ~ \E f : Run(f, kind, ctx, start, s, k)}
<1>1. SUFFICES ASSUME T # {} PROVE FALSE
  OBVIOUS
<1>2. PICK m \in T : \A k \in T : m <= k
  <2>1. T \subseteq Nat
    OBVIOUS
  <2> HIDE DEF T
  <2> QED BY <1>1, <2>1, LeastOf
<1>3. m \in Nat /\ ~ \E f : Run(f, kind, ctx, start, s, m)
  BY <1>2
<1>4. CASE m = 0
  <2>1. PICK f : f = [i \in 0 .. 0 |-> start]
    OBVIOUS
  <2>2. Run(f, kind, ctx, start, s, 0)
    <3>1. f = [i \in 0 .. 0 |-> f[i]] /\ f[0] = start /\ 1 .. 0 = {} /\ 0 \in Nat
      BY <2>1
    <3> QED BY <3>1, RunFolds
  <2> QED BY <1>3, <1>4, <2>2
<1>5. CASE m # 0
  <2>1. PICK n1 \in Nat : m = n1 + 1 /\ ~(m <= n1)
    <3>1. m - 1 \in Nat /\ m = (m - 1) + 1 /\ ~(m <= m - 1)
      BY <1>3, <1>5
    <3> QED BY <3>1
  <2>2. n1 \notin T
    BY <1>2, <2>1
  <2>3. PICK f : Run(f, kind, ctx, start, s, n1)
    BY <2>1, <2>2
  <2>4. PICK g : g = [i \in 0 .. n1 + 1 |-> IF i = n1 + 1 THEN StepOf(kind, ctx, f[n1], s[n1 + 1]) ELSE f[i]]
    OBVIOUS
  <2>5. Run(g, kind, ctx, start, s, n1 + 1)
    BY <2>3, <2>4, RunExtends
  <2> QED BY <1>3, <2>1, <2>5
<1> QED BY <1>4, <1>5

(* and there is no other: the first place where two differ would have to   *)
(* follow one where they agree.                                            *)
LEMMA RunsAgree ==
    ASSUME NEW kind, NEW ctx, NEW start, NEW s, NEW n \in Nat, NEW f, Run(f, kind, ctx, start, s, n),
           NEW g, Run(g, kind, ctx, start, s, n)
    PROVE  f[n] = g[n]
<1> DEFINE T == {k \in 0 .. n : f[k] # g[k]}
<1>1. SUFFICES ASSUME T # {} PROVE FALSE
  OBVIOUS
<1>2. PICK m \in T : \A k \in T : m <= k
  <2>1. T \subseteq Nat
    OBVIOUS
  <2> HIDE DEF T
  <2> QED BY <1>1, <2>1, LeastOf
<1>3. m \in 0 .. n /\ f[m] # g[m]
  BY <1>2
<1>4. /\ f[0] = start /\ \A i \in 1 .. n : f[i] = StepOf(kind, ctx, f[i - 1], s[i])
  BY RunUnfolds
<1>5. /\ g[0] = start /\ \A i \in 1 .. n : g[i] = StepOf(kind, ctx, g[i - 1], s[i])
  BY RunUnfolds
<1>6. m \in 1 .. n
  BY <1>3, <1>4, <1>5
<1>7. m - 1 \in 0 .. n /\ ~(m <= m - 1)
  BY <1>6
<1>8. f[m - 1] = g[m - 1]
  BY <1>2, <1>7
<1> QED BY <1>3, <1>4, <1>5, <1>6, <1>8

(***************************************************************************)
(* Line code                                                               *)
(***************************************************************************)
LEMMA CoderStepOf ==
    ASSUME NEW coder, NEW state, NEW x
    PROVE  StepOf("coder", coder, state, x) = CoderStep(coder, state, x)
  BY DEF StepOf

CoderRun(f, coder, s, n) ==
    f = [i \in 0 .. n |-> IF i = 0 THEN CoderStart(coder) ELSE CoderStep(coder, f[i - 1], s[i])]

LEMMA CoderRuns ==
    ASSUME NEW coder, NEW s, NEW n \in Nat, NEW f
    PROVE  CoderRun(f, coder, s, n) <=> Run(f, "coder", coder, CoderStart(coder), s, n)
<1>1. ASSUME CoderRun(f, coder, s, n) PROVE Run(f, "coder", coder, CoderStart(coder), s, n)
  <2>1. /\ f = [i \in 0 .. n |-> f[i]] /\ f[0] = CoderStart(coder)
        /\ \A i \in 1 .. n : f[i] = CoderStep(coder, f[i - 1], s[i])
    BY <1>1 DEF CoderRun
  <2>2. \A i \in 1 .. n : f[i] = StepOf("coder", coder, f[i - 1], s[i])
    BY <2>1, CoderStepOf
  <2> QED BY <2>1, <2>2, RunFolds
<1>2. ASSUME Run(f, "coder", coder, CoderStart(coder), s, n) PROVE CoderRun(f, coder, s, n)
  <2>1. f = [i \in 0 .. n |-> f[i]]
    BY <1>2 DEF Run
  <2>2. f[0] = CoderStart(coder) /\ \A i \in 1 .. n : f[i] = CoderStep(coder, f[i - 1], s[i])
    BY <1>2, RunUnfolds, CoderStepOf
  <2>3. ASSUME NEW i \in 0 .. n
        PROVE  f[i] = IF i = 0 THEN CoderStart(coder) ELSE CoderStep(coder, f[i - 1], s[i])
    <3>1. CASE i = 0
      BY <2>2, <3>1, Zenon
    <3>2. CASE i # 0
      <4>1. i \in 1 .. n
        BY <3>2
      <4> QED BY <2>2, <3>2, <4>1, Zenon
    <3> QED BY <3>1, <3>2
  <2> QED BY <2>1, <2>3, Zenon DEF CoderRun
<1> QED BY <1>1, <1>2

LEMMA CodedRuns ==
    ASSUME NEW coder, NEW s, NEW n \in Nat, Len(s) = n,
           NEW f, Run(f, "coder", coder, CoderStart(coder), s, n)
    PROVE  Coded(coder, s) = f[n]
<1>1. PICK g : g = CHOOSE h : CoderRun(h, coder, s, n)
  OBVIOUS
<1>2. CoderRun(g, coder, s, n)
  BY <1>1, CoderRuns
<1>3. Coded(coder, s) = g[n]
  BY <1>1, Zenon DEF Coded, CoderRun
<1>4. Run(g, "coder", coder, CoderStart(coder), s, n)
  BY <1>2, CoderRuns
<1> QED BY <1>3, <1>4, RunsAgree

LEMMA NothingCoded ==
    ASSUME NEW coder
    PROVE  Coded(coder, <<>>) = CoderStart(coder)
<1>1. PICK f : Run(f, "coder", coder, CoderStart(coder), <<>>, 0)
  BY RunExists
<1>2. Len(<<>>) = 0
  OBVIOUS
<1>3. f[0] = CoderStart(coder)
  BY <1>1, RunUnfolds
<1> QED BY <1>1, <1>2, <1>3, CodedRuns

LEMMA OneMoreCoded ==
    ASSUME NEW coder, NEW S, NEW s \in Seq(S), NEW x \in S
    PROVE  Coded(coder, Append(s, x)) = CoderStep(coder, Coded(coder, s), x)
<1>1. PICK n, t : n = Len(s) /\ t = Append(s, x)
  OBVIOUS
<1>2. n \in Nat /\ Len(t) = n + 1 /\ t[n + 1] = x /\ \A i \in 1 .. n : t[i] = s[i]
  BY <1>1, AppendProperties, LenProperties
<1>3. PICK f : Run(f, "coder", coder, CoderStart(coder), s, n)
  BY <1>2, RunExists
<1>4. PICK g : g = [i \in 0 .. n + 1 |-> IF i = n + 1 THEN StepOf("coder", coder, f[n], t[n + 1]) ELSE f[i]]
  OBVIOUS
<1>5. Run(g, "coder", coder, CoderStart(coder), t, n + 1)
  BY <1>2, <1>3, <1>4, RunExtends
<1>6. n + 1 \in Nat /\ g[n + 1] = CoderStep(coder, f[n], x)
  BY <1>2, <1>4, CoderStepOf
<1>7. Coded(coder, t) = g[n + 1]
  BY <1>2, <1>5, <1>6, CodedRuns
<1>8. Coded(coder, s) = f[n]
  BY <1>1, <1>2, <1>3, CodedRuns
<1> QED BY <1>1, <1>6, <1>7, <1>8

(* The transmit program holds the line for a one, unless it is the sixth:  *)
(* then a changed line follows; and it changes it for a zero.              *)
Lines == {"J", "K"}

LEMMA OtherLine ==
    ASSUME NEW line \in Lines
    PROVE  /\ Other(line) \in Lines /\ Other(line) # line /\ Other(Other(line)) = line
           /\ Command(line) = Other(line)
  BY DEF Other, Lines, Command

Drives(sm, line, y, lines) == sm.line = line /\ sm.y = y /\ sm.lines = lines

LEMMA DrivesSo ==
    ASSUME NEW line, NEW y, NEW lines
    PROVE  Drives([line |-> line, y |-> y, lines |-> lines], line, y, lines)
  BY DEF Drives

LEMMA Transmits ==
    ASSUME NEW sm, NEW bit \in BOOLEAN
    PROVE  /\ bit = FALSE => Drives(TransmitBit(sm, bit), Other(sm.line), 5, Append(sm.lines, Other(sm.line)))
           /\ bit = TRUE /\ sm.y # 0 => Drives(TransmitBit(sm, bit), sm.line, sm.y - 1, Append(sm.lines, sm.line))
           /\ bit = TRUE /\ sm.y = 0 =>
                 Drives(TransmitBit(sm, bit), Other(sm.line), 5, Append(Append(sm.lines, sm.line), Other(sm.line)))
<1>1. ASSUME bit = FALSE
      PROVE  TransmitBit(sm, bit) = [line |-> Other(sm.line), y |-> 5, lines |-> Append(sm.lines, Other(sm.line))]
  BY <1>1, Zenon DEF TransmitBit
<1>2. ASSUME bit = TRUE, sm.y # 0
      PROVE  TransmitBit(sm, bit) = [line |-> sm.line, y |-> sm.y - 1, lines |-> Append(sm.lines, sm.line)]
  BY <1>2, Zenon DEF TransmitBit
<1>3. ASSUME bit = TRUE, sm.y = 0
      PROVE  TransmitBit(sm, bit) = [line |-> Other(sm.line), y |-> 5,
                     lines |-> Append(Append(sm.lines, sm.line), Other(sm.line))]
  BY <1>3, Zenon DEF TransmitBit
<1>4. bit = FALSE => Drives(TransmitBit(sm, bit), Other(sm.line), 5, Append(sm.lines, Other(sm.line)))
  BY <1>1, DrivesSo, Zenon
<1>5. bit = TRUE /\ sm.y # 0 => Drives(TransmitBit(sm, bit), sm.line, sm.y - 1, Append(sm.lines, sm.line))
  BY <1>2, DrivesSo, Zenon
<1>6. bit = TRUE /\ sm.y = 0 =>
         Drives(TransmitBit(sm, bit), Other(sm.line), 5, Append(Append(sm.lines, sm.line), Other(sm.line)))
  BY <1>3, DrivesSo, Zenon
<1> QED BY <1>4, <1>5, <1>6, Zenon

(* The receive program: line is what it last saw, y the ones left to count.*)
Hears(r, line, y, bits) == r.x = line /\ r.y = y /\ r.bits = bits

LEMMA HearsSo ==
    ASSUME NEW line, NEW y, NEW bits
    PROVE  Hears([x |-> line, y |-> y, bits |-> bits], line, y, bits)
  BY DEF Hears

LEMMA Receives ==
    ASSUME NEW r, NEW line, NEW y, NEW bits, Hears(r, line, y, bits),
           NEW l
    PROVE  /\ y = 0 => Hears(ReceiveState(r, l), Other(line), 6, bits)
           /\ y # 0 /\ l = line => Hears(ReceiveState(r, l), line, y - 1, Append(bits, TRUE))
           /\ y # 0 /\ l # line => Hears(ReceiveState(r, l), Other(line), 6, Append(bits, FALSE))
<1>1. r.x = line /\ r.y = y /\ r.bits = bits
  BY DEF Hears
<1>2. ASSUME y = 0 PROVE ReceiveState(r, l) = [x |-> Other(line), y |-> 6, bits |-> bits]
  BY <1>1, <1>2, Zenon DEF ReceiveState
<1>3. ASSUME y # 0, l = line PROVE ReceiveState(r, l) = [x |-> line, y |-> y - 1, bits |-> Append(bits, TRUE)]
  BY <1>1, <1>3, Zenon DEF ReceiveState
<1>4. ASSUME y # 0, l # line PROVE ReceiveState(r, l) = [x |-> Other(line), y |-> 6, bits |-> Append(bits, FALSE)]
  BY <1>1, <1>4, Zenon DEF ReceiveState
<1>5. y = 0 => Hears(ReceiveState(r, l), Other(line), 6, bits)
  BY <1>2, HearsSo, Zenon
<1>6. y # 0 /\ l = line => Hears(ReceiveState(r, l), line, y - 1, Append(bits, TRUE))
  BY <1>3, HearsSo, Zenon
<1>7. y # 0 /\ l # line => Hears(ReceiveState(r, l), Other(line), 6, Append(bits, FALSE))
  BY <1>4, HearsSo, Zenon
<1> QED BY <1>5, <1>6, <1>7, Zenon

(* decode_nrzi, while it finds no error                                    *)
Decodes(d, line, ones, bits) ==
    d.error = "none" /\ d.previous = line /\ d.ones = ones /\ d.bits = bits

LEMMA DecodesSo ==
    ASSUME NEW line, NEW ones, NEW bits
    PROVE  Decodes([previous |-> line, ones |-> ones, bits |-> bits, error |-> "none"], line, ones, bits)
  BY DEF Decodes

DecodesOnceMore(d, line, ones, bits, l) ==
    /\ ones = 6 /\ l # line => Decodes(DecodeState(d, l), l, 0, bits)
    /\ ones # 6 /\ Len(bits) >= 8 * MaxDecodedBytes => DecodeState(d, l).error = "PacketTooLong"
    /\ ones # 6 /\ ~(Len(bits) >= 8 * MaxDecodedBytes) /\ l = line =>
          Decodes(DecodeState(d, l), l, ones + 1, Append(bits, TRUE))
    /\ ones # 6 /\ ~(Len(bits) >= 8 * MaxDecodedBytes) /\ l # line =>
          Decodes(DecodeState(d, l), l, 0, Append(bits, FALSE))

LEMMA DecodesNext ==
    ASSUME NEW d, NEW line, NEW ones, NEW bits, Decodes(d, line, ones, bits), NEW l
    PROVE  DecodesOnceMore(d, line, ones, bits, l)
<1>1. d.error = "none" /\ d.previous = line /\ d.ones = ones /\ d.bits = bits
  BY DEF Decodes
<1>2. ASSUME ones = 6, l # line
      PROVE  DecodeState(d, l) = [previous |-> l, ones |-> 0, bits |-> bits, error |-> "none"]
  BY <1>1, <1>2, Zenon DEF DecodeState
<1>3. ASSUME ones # 6, Len(bits) >= 8 * MaxDecodedBytes
      PROVE  DecodeState(d, l) = [previous |-> l, ones |-> ones, bits |-> bits, error |-> "PacketTooLong"]
  BY <1>1, <1>3, Zenon DEF DecodeState
<1>4. ASSUME ones # 6, ~(Len(bits) >= 8 * MaxDecodedBytes), l = line
      PROVE  DecodeState(d, l) = [previous |-> l, ones |-> ones + 1, bits |-> Append(bits, TRUE), error |-> "none"]
  <2>1. (l = line) = TRUE
    BY <1>4
  <2>2. DecodeState(d, l) = [previous |-> l, ones |-> IF l = line THEN ones + 1 ELSE 0,
                bits |-> Append(bits, l = line), error |-> "none"]
    BY <1>1, <1>4, Zenon DEF DecodeState
  <2> QED BY <1>4, <2>1, <2>2, Zenon
<1>5. ASSUME ones # 6, ~(Len(bits) >= 8 * MaxDecodedBytes), l # line
      PROVE  DecodeState(d, l) = [previous |-> l, ones |-> 0, bits |-> Append(bits, FALSE), error |-> "none"]
  <2>1. (l = line) = FALSE
    BY <1>5
  <2>2. DecodeState(d, l) = [previous |-> l, ones |-> IF l = line THEN ones + 1 ELSE 0,
                bits |-> Append(bits, l = line), error |-> "none"]
    BY <1>1, <1>5, Zenon DEF DecodeState
  <2> QED BY <1>5, <2>1, <2>2, Zenon
<1>6. ones = 6 /\ l # line => Decodes(DecodeState(d, l), l, 0, bits)
  BY <1>2, DecodesSo, Zenon
<1>7. ones # 6 /\ Len(bits) >= 8 * MaxDecodedBytes => DecodeState(d, l).error = "PacketTooLong"
  BY <1>3
<1>8. ones # 6 /\ ~(Len(bits) >= 8 * MaxDecodedBytes) /\ l = line =>
         Decodes(DecodeState(d, l), l, ones + 1, Append(bits, TRUE))
  BY <1>4, DecodesSo, Zenon
<1>9. ones # 6 /\ ~(Len(bits) >= 8 * MaxDecodedBytes) /\ l # line =>
         Decodes(DecodeState(d, l), l, 0, Append(bits, FALSE))
  BY <1>5, DecodesSo, Zenon
<1> QED BY <1>6, <1>7, <1>8, <1>9, Zenon DEF DecodesOnceMore

LEMMA DecodesNoMore ==
    ASSUME NEW d, d.error = "PacketTooLong", NEW l
    PROVE  DecodeState(d, l) = d
  BY Zenon DEF DecodeState

(* The encoder has one command for each of the transmitter's levels.       *)
CommandsFor(commands, lines) ==
    /\ commands \in Seq(Lines) /\ Len(commands) = Len(lines)
    /\ \A i \in 1 .. Len(lines) : commands[i] = Command(lines[i])

LEMMA CommandsGrow ==
    ASSUME NEW commands, NEW lines \in Seq(Lines), CommandsFor(commands, lines), NEW line \in Lines
    PROVE  CommandsFor(Append(commands, Command(line)), Append(lines, line))
<1>1. PICK c, t : c = Append(commands, Command(line)) /\ t = Append(lines, line)
  OBVIOUS
<1>2. Command(line) \in Lines
  BY OtherLine
<1>3. /\ commands \in Seq(Lines) /\ Len(commands) = Len(lines)
      /\ \A i \in 1 .. Len(lines) : commands[i] = Command(lines[i])
  BY DEF CommandsFor
<1>4. /\ c \in Seq(Lines) /\ Len(c) = Len(commands) + 1 /\ c[Len(commands) + 1] = Command(line)
      /\ \A i \in 1 .. Len(commands) : c[i] = commands[i]
  BY <1>1, <1>2, <1>3, AppendProperties
<1>5. /\ Len(t) = Len(lines) + 1 /\ t[Len(lines) + 1] = line /\ Len(lines) \in Nat
      /\ \A i \in 1 .. Len(lines) : t[i] = lines[i]
  BY <1>1, AppendProperties, LenProperties
<1>6. ASSUME NEW i \in 1 .. Len(t) PROVE c[i] = Command(t[i])
  <2>1. CASE i = Len(lines) + 1
    BY <1>3, <1>4, <1>5, <2>1
  <2>2. CASE i # Len(lines) + 1
    BY <1>3, <1>4, <1>5, <2>2
  <2> QED BY <2>1, <2>2
<1>7. CommandsFor(c, t)
  BY <1>3, <1>4, <1>5, <1>6 DEF CommandsFor
<1> QED BY <1>1, <1>7

Encodes(e, line, ones, lines) == e.line = line /\ e.ones = ones /\ CommandsFor(e.commands, lines)

LEMMA EncodesSo ==
    ASSUME NEW line, NEW ones, NEW commands, NEW lines, CommandsFor(commands, lines)
    PROVE  Encodes([line |-> line, ones |-> ones, commands |-> commands], line, ones, lines)
  BY DEF Encodes

LEMMA EncodesNext ==
    ASSUME NEW e, NEW line \in Lines, NEW ones \in 0 .. 5, NEW lines \in Seq(Lines),
           Encodes(e, line, ones, lines), NEW bit \in BOOLEAN
    PROVE  /\ bit = FALSE => Encodes(EncodeBit(e, bit), Other(line), 0, Append(lines, Other(line)))
           /\ bit = TRUE /\ ones # 5 => Encodes(EncodeBit(e, bit), line, ones + 1, Append(lines, line))
           /\ bit = TRUE /\ ones = 5 =>
                 Encodes(EncodeBit(e, bit), Other(line), 0, Append(Append(lines, line), Other(line)))
<1>1. e.line = line /\ e.ones = ones /\ CommandsFor(e.commands, lines)
  BY DEF Encodes
<1>2. PICK held, other, both :
         /\ held = Append(e.commands, Command(line))
         /\ other = Append(e.commands, Command(Other(line)))
         /\ both = Append(held, Command(Other(line)))
  OBVIOUS
<1>3. Other(line) \in Lines /\ Append(lines, line) \in Seq(Lines)
  BY OtherLine, AppendProperties
<1>4. /\ CommandsFor(held, Append(lines, line))
      /\ CommandsFor(other, Append(lines, Other(line)))
  BY <1>1, <1>2, <1>3, CommandsGrow
<1>5. CommandsFor(both, Append(Append(lines, line), Other(line)))
  BY <1>2, <1>3, <1>4, CommandsGrow
<1>6. ASSUME bit = FALSE PROVE EncodeBit(e, bit) = [line |-> Other(line), ones |-> 0, commands |-> other]
  <2>1. 0 # 6
    OBVIOUS
  <2> QED BY <1>1, <1>2, <1>6, <2>1, Zenon DEF EncodeBit
<1>7. ASSUME bit = TRUE, ones # 5 PROVE EncodeBit(e, bit) = [line |-> line, ones |-> ones + 1, commands |-> held]
  <2>1. ones + 1 # 6
    BY <1>7
  <2> QED BY <1>1, <1>2, <1>7, <2>1, Zenon DEF EncodeBit
<1>8. ASSUME bit = TRUE, ones = 5 PROVE EncodeBit(e, bit) = [line |-> Other(line), ones |-> 0, commands |-> both]
  <2>1. ones + 1 = 6
    BY <1>8
  <2> QED BY <1>1, <1>2, <1>8, <2>1, Zenon DEF EncodeBit
<1>9. bit = FALSE => Encodes(EncodeBit(e, bit), Other(line), 0, Append(lines, Other(line)))
  BY <1>4, <1>6, EncodesSo, Zenon
<1>10. bit = TRUE /\ ones # 5 => Encodes(EncodeBit(e, bit), line, ones + 1, Append(lines, line))
  BY <1>4, <1>7, EncodesSo, Zenon
<1>11. bit = TRUE /\ ones = 5 =>
          Encodes(EncodeBit(e, bit), Other(line), 0, Append(Append(lines, line), Other(line)))
  BY <1>5, <1>8, EncodesSo, Zenon
<1> QED BY <1>9, <1>10, <1>11, Zenon

(* decode_nrzi stops at the first bit it has no room for.                  *)
DecodesOrStops(d, line, ones, bits) ==
    IF Len(bits) > 8 * MaxDecodedBytes THEN d.error = "PacketTooLong"
    ELSE Decodes(d, line, ones, bits)

LEMMA DecodesOrStopsNext ==
    ASSUME NEW d, NEW line \in Lines, NEW ones \in 0 .. 6, NEW bits \in Seq(BOOLEAN),
           DecodesOrStops(d, line, ones, bits), NEW l \in Lines
    PROVE  /\ ones = 6 /\ l # line => DecodesOrStops(DecodeState(d, l), l, 0, bits)
           /\ ones # 6 /\ l = line => DecodesOrStops(DecodeState(d, l), l, ones + 1, Append(bits, TRUE))
           /\ ones # 6 /\ l # line => DecodesOrStops(DecodeState(d, l), l, 0, Append(bits, FALSE))
<1>1. PICK one, zero : one = Append(bits, TRUE) /\ zero = Append(bits, FALSE)
  OBVIOUS
<1>2. /\ Len(bits) \in Nat /\ Len(one) = Len(bits) + 1 /\ Len(zero) = Len(bits) + 1
  BY <1>1, AppendProperties, LenProperties
<1>3. PICK room : room = 8 * MaxDecodedBytes
  OBVIOUS
<1>4. room \in Nat
  BY <1>3, LineCodeAssumption
<1>5. CASE Len(bits) > room
  <2>1. d.error = "PacketTooLong"
    BY <1>3, <1>5 DEF DecodesOrStops
  <2>2. DecodeState(d, l).error = "PacketTooLong"
    BY <2>1, DecodesNoMore
  <2>3. Len(one) > room /\ Len(zero) > room
    BY <1>2, <1>4, <1>5
  <2> QED BY <1>1, <1>3, <1>5, <2>2, <2>3 DEF DecodesOrStops
<1>6. CASE ~(Len(bits) > room)
  <2>1. Decodes(d, line, ones, bits)
    BY <1>3, <1>6 DEF DecodesOrStops
  <2>2. /\ ones = 6 /\ l # line => Decodes(DecodeState(d, l), l, 0, bits)
        /\ ones # 6 /\ Len(bits) >= room => DecodeState(d, l).error = "PacketTooLong"
        /\ ones # 6 /\ ~(Len(bits) >= room) /\ l = line => Decodes(DecodeState(d, l), l, ones + 1, one)
        /\ ones # 6 /\ ~(Len(bits) >= room) /\ l # line => Decodes(DecodeState(d, l), l, 0, zero)
    <3>1. DecodesOnceMore(d, line, ones, bits, l)
      BY <2>1, DecodesNext
    <3> QED BY <1>1, <1>3, <3>1, Zenon DEF DecodesOnceMore
  <2>3. ones = 6 /\ l # line => DecodesOrStops(DecodeState(d, l), l, 0, bits)
    BY <1>3, <1>6, <2>2, Zenon DEF DecodesOrStops
  <2>4. (Len(one) > room) <=> (Len(bits) >= room)
    BY <1>2, <1>4
  <2>5. (Len(zero) > room) <=> (Len(bits) >= room)
    BY <1>2, <1>4
  <2>6. ones # 6 /\ l = line => DecodesOrStops(DecodeState(d, l), l, ones + 1, one)
    BY <1>3, <2>2, <2>4, Zenon DEF DecodesOrStops
  <2>7. ones # 6 /\ l # line => DecodesOrStops(DecodeState(d, l), l, 0, zero)
    BY <1>3, <2>2, <2>5, Zenon DEF DecodesOrStops
  <2> QED BY <1>1, <2>3, <2>6, <2>7, Zenon
<1> QED BY <1>5, <1>6

(* The four agree after every bit: the line is at the same level, the ones *)
(* are counted up in the encoder and down in the state machines, and what  *)
(* the receivers have is what was sent.                                    *)
SentInStep(bits, line, y, lines) ==
    /\ line \in Lines /\ y \in 0 .. 5 /\ lines \in Seq(Lines)
    /\ Drives(Coded("transmitter", bits), line, y, lines)
    /\ Encodes(Coded("encoder", bits), line, 5 - y, lines)
    /\ Hears(Coded("receiver", lines), line, y + 1, bits)
    /\ DecodesOrStops(Coded("decoder", lines), line, 5 - y, bits)

LEMMA NothingInStep == SentInStep(<<>>, "J", 5, <<>>)
<1>1. "J" \in Lines /\ 5 \in 0 .. 5 /\ <<>> \in Seq(Lines) /\ Len(<<>>) = 0 /\ 5 - 5 = 0 /\ 5 + 1 = 6
  BY DEF Lines
<1>2. Coded("transmitter", <<>>) = [line |-> "J", y |-> 5, lines |-> <<>>]
  BY NothingCoded DEF CoderStart
<1>3. Coded("encoder", <<>>) = [line |-> "J", ones |-> 0, commands |-> <<>>]
  BY NothingCoded DEF CoderStart
<1>4. Coded("receiver", <<>>) = [x |-> "J", y |-> 6, bits |-> <<>>]
  BY NothingCoded DEF CoderStart
<1>5. Coded("decoder", <<>>) = [previous |-> "J", ones |-> 0, bits |-> <<>>, error |-> "none"]
  BY NothingCoded DEF CoderStart
<1>6. CommandsFor(<<>>, <<>>)
  BY <1>1 DEF CommandsFor
<1>7. Drives(Coded("transmitter", <<>>), "J", 5, <<>>)
  BY <1>2, DrivesSo
<1>8. Encodes(Coded("encoder", <<>>), "J", 0, <<>>)
  BY <1>3, <1>6, EncodesSo
<1>9. Hears(Coded("receiver", <<>>), "J", 6, <<>>)
  BY <1>4, HearsSo
<1>10. Decodes(Coded("decoder", <<>>), "J", 0, <<>>)
  BY <1>5, DecodesSo
<1>11. ~(Len(<<>>) > 8 * MaxDecodedBytes)
  BY <1>1, LineCodeAssumption
<1>12. DecodesOrStops(Coded("decoder", <<>>), "J", 0, <<>>)
  BY <1>10, <1>11, Zenon DEF DecodesOrStops
<1> QED BY <1>1, <1>7, <1>8, <1>9, <1>12, Zenon DEF SentInStep

LEMMA CoderSteps ==
    ASSUME NEW state, NEW symbol
    PROVE  /\ CoderStep("transmitter", state, symbol) = TransmitBit(state, symbol)
           /\ CoderStep("encoder", state, symbol) = EncodeBit(state, symbol)
           /\ CoderStep("receiver", state, symbol) = ReceiveState(state, symbol)
           /\ CoderStep("decoder", state, symbol) = DecodeState(state, symbol)
  BY DEF CoderStep

LEMMA InStepNext ==
    ASSUME NEW bits \in Seq(BOOLEAN), NEW line, NEW y, NEW lines, SentInStep(bits, line, y, lines),
           NEW bit \in BOOLEAN
    PROVE  \E l, c, ls : SentInStep(Append(bits, bit), l, c, ls)
<1>1. /\ line \in Lines /\ y \in 0 .. 5 /\ lines \in Seq(Lines)
      /\ Drives(Coded("transmitter", bits), line, y, lines)
      /\ Encodes(Coded("encoder", bits), line, 5 - y, lines)
      /\ Hears(Coded("receiver", lines), line, y + 1, bits)
      /\ DecodesOrStops(Coded("decoder", lines), line, 5 - y, bits)
  BY DEF SentInStep
<1>2. PICK other : other = Other(line)
  OBVIOUS
<1>3. other \in Lines /\ other # line /\ Other(other) = line
  BY <1>1, <1>2, OtherLine
<1>4. PICK more, held, changed, both :
         /\ more = Append(bits, bit)
         /\ held = Append(lines, line) /\ changed = Append(lines, other) /\ both = Append(held, other)
  OBVIOUS
<1>5. /\ more \in Seq(BOOLEAN) /\ held \in Seq(Lines) /\ changed \in Seq(Lines)
      /\ both \in Seq(Lines)
  BY <1>1, <1>3, <1>4, AppendProperties
<1>6. /\ Coded("transmitter", more) = TransmitBit(Coded("transmitter", bits), bit)
      /\ Coded("encoder", more) = EncodeBit(Coded("encoder", bits), bit)
  BY <1>4, OneMoreCoded, CoderSteps
<1>7. /\ Coded("receiver", held) = ReceiveState(Coded("receiver", lines), line)
      /\ Coded("decoder", held) = DecodeState(Coded("decoder", lines), line)
  BY <1>1, <1>4, OneMoreCoded, CoderSteps
<1>8. /\ Coded("receiver", changed) = ReceiveState(Coded("receiver", lines), other)
      /\ Coded("decoder", changed) = DecodeState(Coded("decoder", lines), other)
  BY <1>1, <1>3, <1>4, OneMoreCoded, CoderSteps
<1>9. /\ Coded("receiver", both) = ReceiveState(Coded("receiver", held), other)
      /\ Coded("decoder", both) = DecodeState(Coded("decoder", held), other)
  <2>1. /\ Coded("receiver", Append(held, other)) = CoderStep("receiver", Coded("receiver", held), other)
        /\ Coded("decoder", Append(held, other)) = CoderStep("decoder", Coded("decoder", held), other)
    BY <1>3, <1>5, OneMoreCoded
  <2> QED BY <1>4, <2>1, CoderSteps, Zenon
<1>10. PICK sm : sm = Coded("transmitter", bits)
  OBVIOUS
<1>11. sm.line = line /\ sm.y = y /\ sm.lines = lines
  BY <1>1, <1>10 DEF Drives
<1>12. /\ 5 - y \in 0 .. 5 /\ 5 - y \in 0 .. 6 /\ 5 - y # 6 /\ y + 1 # 0 /\ 5 - 5 = 0 /\ 5 + 1 = 6
       /\ 5 \in 0 .. 5 /\ (y + 1) - 1 = y
  BY <1>1
<1>13. CASE bit = FALSE
  <2>0. more = Append(bits, FALSE)
    BY <1>4, <1>13, Zenon
  <2>1. Drives(Coded("transmitter", more), other, 5, changed)
    BY <1>2, <1>4, <1>6, <1>10, <1>11, <1>13, Transmits
  <2>2. Encodes(Coded("encoder", more), other, 0, changed)
    BY <1>1, <1>2, <1>4, <1>6, <1>12, <1>13, EncodesNext
  <2>3. Hears(Coded("receiver", changed), other, 6, more)
    <3>1. Hears(Coded("receiver", changed), Other(line), 6, Append(bits, FALSE))
      BY <1>1, <1>3, <1>8, <1>12, Receives, Zenon
    <3> QED BY <1>2, <2>0, <3>1
  <2>4. DecodesOrStops(Coded("decoder", changed), other, 0, more)
    <3>1. DecodesOrStops(Coded("decoder", changed), other, 0, Append(bits, FALSE))
      BY <1>1, <1>3, <1>8, <1>12, DecodesOrStopsNext, Zenon
    <3> QED BY <2>0, <3>1
  <2>5. SentInStep(more, other, 5, changed)
    BY <1>3, <1>5, <1>12, <2>1, <2>2, <2>3, <2>4 DEF SentInStep
  <2> QED BY <1>4, <2>5
<1>14. CASE bit = TRUE /\ y # 0
  <2>1. PICK z \in 0 .. 5 : z = y - 1 /\ 5 - z = (5 - y) + 1 /\ z + 1 = y /\ 5 - y # 5
    BY <1>1, <1>14
  <2>2. Drives(Coded("transmitter", more), line, z, held)
    BY <1>2, <1>4, <1>6, <1>10, <1>11, <1>14, <2>1, Transmits
  <2>3. Encodes(Coded("encoder", more), line, 5 - z, held)
    BY <1>1, <1>2, <1>4, <1>6, <1>12, <1>14, <2>1, EncodesNext
  <2>4. Hears(Coded("receiver", held), line, z + 1, more)
    BY <1>1, <1>4, <1>7, <1>12, <1>14, <2>1, Receives
  <2>5. DecodesOrStops(Coded("decoder", held), line, 5 - z, more)
    BY <1>1, <1>4, <1>7, <1>12, <1>14, <2>1, DecodesOrStopsNext
  <2>6. SentInStep(more, line, z, held)
    BY <1>1, <1>5, <2>1, <2>2, <2>3, <2>4, <2>5 DEF SentInStep
  <2> QED BY <1>4, <2>6
<1>15. CASE bit = TRUE /\ y = 0
  <2>0. 5 - y = 5 /\ (5 - y) + 1 = 6 /\ (y + 1) - 1 = 0 /\ 6 \in 0 .. 6 /\ 0 = 0
    BY <1>15
  <2>1. Drives(Coded("transmitter", more), other, 5, both)
    BY <1>2, <1>4, <1>6, <1>10, <1>11, <1>15, Transmits
  <2>2. Encodes(Coded("encoder", more), other, 0, both)
    BY <1>1, <1>2, <1>4, <1>6, <1>12, <1>15, <2>0, EncodesNext
  <2>3. Hears(Coded("receiver", held), line, 0, more)
    BY <1>1, <1>4, <1>7, <1>12, <1>15, <2>0, Receives
  <2>4. Hears(Coded("receiver", both), other, 6, more)
    BY <1>2, <1>9, <2>3, Receives
  <2>5. DecodesOrStops(Coded("decoder", held), line, 6, more)
    BY <1>1, <1>4, <1>7, <1>12, <1>15, <2>0, DecodesOrStopsNext
  <2>6. DecodesOrStops(Coded("decoder", both), other, 0, more)
    <3>1. 6 \in 0 .. 6
      OBVIOUS
    <3>2. 6 = 6 /\ other # line => DecodesOrStops(Coded("decoder", both), other, 0, more)
      BY <1>1, <1>3, <1>5, <1>9, <2>5, <3>1, DecodesOrStopsNext, Zenon
    <3> QED BY <1>3, <3>2
  <2>7. SentInStep(more, other, 5, both)
    BY <1>3, <1>5, <1>12, <2>1, <2>2, <2>4, <2>6 DEF SentInStep
  <2> QED BY <1>4, <2>7
<1>16. y # 0 \/ y = 0
  OBVIOUS
<1> QED BY <1>13, <1>14, <1>15, <1>16

LEMMA AllInStep ==
    ASSUME NEW bits \in Seq(BOOLEAN)
    PROVE  \E line, y, lines : SentInStep(bits, line, y, lines)
<1> DEFINE Synced(b) == \E line, y, lines : SentInStep(b, line, y, lines)
           T == {n \in Nat : \E b \in Seq(BOOLEAN) : Len(b) = n /\ ~Synced(b)}
<1>1. SUFFICES ASSUME ~Synced(bits) PROVE FALSE
  OBVIOUS
<1>2. T # {} /\ T \subseteq Nat
  BY <1>1, LenProperties
<1>3. PICK m \in T : \A k \in T : m <= k
  <2> HIDE DEF T
  <2> QED BY <1>2, LeastOf
<1>4. m \in Nat
  BY <1>3
<1>5. PICK b \in Seq(BOOLEAN) : Len(b) = m /\ ~Synced(b)
  BY <1>3
<1>6. Synced(<<>>)
  BY NothingInStep
<1>7. b # <<>>
  BY <1>5, <1>6
<1>8. PICK front \in Seq(BOOLEAN), bit \in BOOLEAN : b = Append(front, bit)
  <2>1. PICK S : S = BOOLEAN
    OBVIOUS
  <2>2. b \in Seq(S)
    BY <1>5, <2>1, Zenon
  <2>3. \E s \in Seq(S), x \in S : b = Append(s, x)
    BY <1>7, <2>2, SequenceEmptyOrAppend
  <2> QED BY <2>1, <2>3, Zenon
<1>9. Len(front) \in Nat /\ m = Len(front) + 1
  <2>1. Len(front) \in Nat /\ Len(Append(front, bit)) = Len(front) + 1
    BY <1>8, AppendProperties, LenProperties
  <2> QED BY <1>5, <1>8, <2>1
<1>10. ~(m <= Len(front))
  BY <1>9
<1>11. Len(front) \notin T
  BY <1>3, <1>10
<1>12. Synced(front)
  BY <1>9, <1>11
<1>13. Synced(b)
  BY <1>8, <1>12, InStepNext
<1> QED BY <1>5, <1>13

(* The end of packet stands right behind the commands of the bits, and the *)
(* padding keeps the encoder from stopping where they would still fit.     *)
LEMMA EncodedIsDriven ==
    ASSUME NEW bits, NEW lines \in Seq(Lines), CommandsFor(Coded("encoder", bits).commands, lines)
    PROVE  /\ Encode(bits) # <<>> => Driven(Encode(bits)) = lines
           /\ Encode(bits) = <<>> => Len(lines) + 2 > 4 * MaxEncodedBytes
<1>1. PICK body : body = Coded("encoder", bits).commands
  OBVIOUS
<1>2. PICK n : n = Len(lines)
  OBVIOUS
<1>3. /\ n \in Nat /\ body \in Seq(Lines) /\ Len(body) = n
      /\ \A i \in 1 .. n : body[i] = Command(lines[i])
  BY <1>1, <1>2, LenProperties DEF CommandsFor
<1>4. PICK p : p = (4 - ((n + 2) % 4)) % 4
  OBVIOUS
<1>5. p \in 0 .. 3 /\ (n + 2 + p) % 4 = 0
  BY <1>3, <1>4
<1>6. PICK closed : closed = body \o <<"Se0", "Release">>
  OBVIOUS
<1> DEFINE Symbols == {"J", "K", "Se0", "Release"}
<1>7. body \in Seq(Symbols)
  BY <1>3, SeqMonotonic DEF Lines
<1>8. <<"Se0", "Release">> \in Seq(Symbols) /\ Len(<<"Se0", "Release">>) = 2
  OBVIOUS
<1>9. /\ closed \in Seq(Symbols) /\ Len(closed) = n + 2
      /\ \A i \in 1 .. n : closed[i] = body[i]
      /\ closed[n + 1] = "Se0"
  <2> HIDE DEF Symbols
  <2>1. /\ closed \in Seq(Symbols) /\ Len(closed) = Len(body) + Len(<<"Se0", "Release">>)
        /\ \A i \in 1 .. Len(body) + Len(<<"Se0", "Release">>) :
              closed[i] = IF i <= Len(body) THEN body[i] ELSE <<"Se0", "Release">>[i - Len(body)]
    BY <1>6, <1>7, <1>8, ConcatProperties
  <2>2. Len(closed) = n + 2
    BY <1>3, <1>8, <2>1
  <2>3. \A i \in 1 .. n : closed[i] = body[i]
    BY <1>3, <1>8, <2>1
  <2>4. closed[n + 1] = <<"Se0", "Release">>[(n + 1) - n]
    BY <1>3, <1>8, <2>1
  <2>5. (n + 1) - n = 1 /\ <<"Se0", "Release">>[1] = "Se0"
    BY <1>3
  <2> QED BY <2>1, <2>2, <2>3, <2>4, <2>5
<1>10. PICK padding : padding = [i \in 1 .. p |-> "K"]
  OBVIOUS
<1>11. padding \in Seq(Symbols) /\ Len(padding) = p
  BY <1>5, <1>10, IsASeq
<1>12. PICK all : all = closed \o padding
  OBVIOUS
<1>13. /\ all \in Seq(Symbols) /\ Len(all) = n + 2 + p
       /\ \A i \in 1 .. n + 2 : all[i] = closed[i]
  <2> HIDE DEF Symbols
  <2>1. /\ all \in Seq(Symbols) /\ Len(all) = Len(closed) + Len(padding)
        /\ \A i \in 1 .. Len(closed) + Len(padding) :
              all[i] = IF i <= Len(closed) THEN closed[i] ELSE padding[i - Len(closed)]
    BY <1>9, <1>11, <1>12, ConcatProperties
  <2> QED BY <1>3, <1>5, <1>9, <1>11, <2>1
<1>14. Encode(bits) = IF Len(all) > 4 * MaxEncodedBytes THEN <<>> ELSE all
  <2>1. [i \in 1 .. ((4 - (Len(closed) % 4)) % 4) |-> "K"] = padding
    BY <1>4, <1>9, <1>10
  <2> QED BY <1>1, <1>6, <1>12, <2>1, Zenon DEF Encode
<1>15. all # <<>>
  BY <1>3, <1>5, <1>13
<1>16. Encode(bits) = <<>> => n + 2 > 4 * MaxEncodedBytes
  <2>1. SUFFICES ASSUME Len(all) > 4 * MaxEncodedBytes PROVE n + 2 > 4 * MaxEncodedBytes
    BY <1>14, <1>15
  <2>2. PICK q : q = (n + 2 + p) \div 4
    OBVIOUS
  <2>3. q \in Nat /\ n + 2 + p = 4 * q
    BY <1>3, <1>5, <2>2
  <2>4. MaxEncodedBytes \in Nat
    BY LineCodeAssumption
  <2>5. q >= MaxEncodedBytes + 1
    BY <1>13, <2>1, <2>3, <2>4
  <2> QED BY <1>3, <1>5, <2>3, <2>4, <2>5
<1>17. \A i \in 1 .. n : all[i] = Command(lines[i])
  BY <1>3, <1>9, <1>13
<1>18. \A i \in 1 .. n : lines[i] \in Lines
  BY <1>2, ElementOfSeq
<1>19. DOMAIN all = 1 .. n + 2 + p
  BY <1>13, LenProperties
<1>20. all[n + 1] = "Se0" /\ n + 1 \in 1 .. n + 2 + p
  BY <1>3, <1>5, <1>9, <1>13
<1>21. \A i \in 1 .. n : all[i] # "Se0"
  BY <1>17, <1>18 DEF Command
<1> DEFINE First(i) == all[i] = "Se0" /\ \A j \in 1 .. (i - 1) : all[j] # "Se0"
<1>22. First(n + 1)
  BY <1>3, <1>20, <1>21
<1>23. ASSUME NEW i \in 1 .. n + 2 + p, First(i) PROVE i = n + 1
  BY <1>3, <1>5, <1>20, <1>21, <1>23
<1>24. (CHOOSE i \in DOMAIN all : First(i)) = n + 1
  <2> HIDE DEF First
  <2> QED BY <1>19, <1>20, <1>22, <1>23
<1>25. Driven(all) = [i \in 1 .. ((n + 1) - 1) |-> IF all[i] = "K" THEN "J" ELSE "K"]
  BY <1>24, Zenon DEF Driven
<1>26. \A i \in 1 .. n : (IF all[i] = "K" THEN "J" ELSE "K") = lines[i]
  BY <1>17, <1>18 DEF Command, Lines
<1>27. (n + 1) - 1 = n
  BY <1>3
<1>28. lines = [i \in 1 .. n |-> lines[i]]
  BY <1>2, LenProperties
<1>29. Driven(all) = lines
  BY <1>25, <1>26, <1>27, <1>28
<1>30. Encode(bits) # <<>> => Driven(Encode(bits)) = lines
  BY <1>14, <1>29
<1> QED BY <1>2, <1>16, <1>30

LEMMA CodersAlwaysAgree ==
    ASSUME NEW bits \in Seq(BOOLEAN), Len(bits) % 8 = 0
    PROVE  CodersAgreeOn(bits)
<1>1. PICK line, y, lines : SentInStep(bits, line, y, lines)
  BY AllInStep
<1>2. /\ line \in Lines /\ y \in 0 .. 5 /\ lines \in Seq(Lines)
      /\ Drives(Coded("transmitter", bits), line, y, lines)
      /\ Encodes(Coded("encoder", bits), line, 5 - y, lines)
      /\ Hears(Coded("receiver", lines), line, y + 1, bits)
      /\ DecodesOrStops(Coded("decoder", lines), line, 5 - y, bits)
  BY <1>1 DEF SentInStep
<1>3. PioTransmit(bits) = lines
  BY <1>2 DEF PioTransmit, Drives
<1>4. PioReceive(lines) = bits
  BY <1>2 DEF PioReceive, Hears
<1>5. PICK end : end = Coded("decoder", lines)
  OBVIOUS
<1>6. ASSUME Len(bits) > 8 * MaxDecodedBytes PROVE DecodeNrzi(lines).error = "PacketTooLong"
  <2>1. end.error = "PacketTooLong"
    BY <1>2, <1>5, <1>6 DEF DecodesOrStops
  <2>2. end.error # "none"
    BY <2>1
  <2>3. DecodeNrzi(lines) = end
    BY <1>5, <2>2, Zenon DEF DecodeNrzi
  <2> QED BY <2>1, <2>3
<1>7. ASSUME ~(Len(bits) > 8 * MaxDecodedBytes)
      PROVE  DecodeNrzi(lines).error = "none" /\ DecodeNrzi(lines).bits = bits
  <2>1. end.error = "none" /\ end.bits = bits
    BY <1>2, <1>5, <1>7 DEF DecodesOrStops, Decodes
  <2>2. ~(Len(end.bits) % 8 # 0)
    BY <2>1
  <2>3. DecodeNrzi(lines) = end
    BY <1>5, <2>2, Zenon DEF DecodeNrzi
  <2> QED BY <2>1, <2>3
<1>8. CommandsFor(Coded("encoder", bits).commands, lines)
  BY <1>2 DEF Encodes
<1>9. /\ Encode(bits) # <<>> => Driven(Encode(bits)) = lines
      /\ Encode(bits) = <<>> => Len(lines) + 2 > 4 * MaxEncodedBytes
  BY <1>2, <1>8, EncodedIsDriven
<1>10. IF Len(bits) > 8 * MaxDecodedBytes THEN DecodeNrzi(lines).error = "PacketTooLong"
       ELSE DecodeNrzi(lines).error = "none" /\ DecodeNrzi(lines).bits = bits
  BY <1>6, <1>7
<1> QED BY <1>3, <1>4, <1>9, <1>10, Zenon DEF CodersAgreeOn

(***************************************************************************)
(* FTDI baud rates                                                         *)
(***************************************************************************)
(* Half of a number, to the next integer                                   *)
LEMMA HalfUp ==
    ASSUME NEW q \in Nat
    PROVE  /\ (q \div 2) + (q % 2) \in Nat
           /\ 2 * ((q \div 2) + (q % 2)) \in {q, q + 1}
  BY SMT

(* A divisor of a clock in sixteenths, and the rate that comes of it       *)
LEMMA DivisorIsSmall ==
    ASSUME NEW d \in Nat, NEW baud \in Nat \ {0}, NEW q \in Nat, NEW best \in Nat,
           32 * baud <= d, q * baud <= d, d < q * baud + baud,
           2 * best \in {q, q + 1}
    PROVE  best >= 16
<1>1. q >= 32
  <2> SUFFICES ASSUME q <= 31 PROVE FALSE
    BY SMT
  <2>1. q * baud <= 31 * baud
    BY SMT
  <2> QED BY <2>1, SMT
<1> QED BY <1>1, SMT

LEMMA RateIsRounded ==
    ASSUME NEW d \in Nat, NEW best \in Nat \ {0}, NEW t \in Nat, NEW actual \in Nat,
           t * best <= d, d < t * best + best, 2 * actual \in {t, t + 1}
    PROVE  Abs(2 * (actual * best) - d) <= best
<1>1. CASE 2 * actual = t
  <2>1. 2 * (actual * best) = t * best
    BY <1>1, SMT
  <2> QED BY <2>1, SMT DEF Abs
<1>2. CASE 2 * actual = t + 1
  <2>1. 2 * (actual * best) = t * best + best
    BY <1>2, SMT
  <2> QED BY <2>1, SMT DEF Abs
<1> QED BY <1>1, <1>2

(* Twice dividing and rounding, the rate is within a twentieth of the one  *)
(* asked for.                                                              *)
Rounded(d, baud, q, best, t, actual) ==
    /\ d \in Nat /\ baud \in Nat /\ q \in Nat /\ best \in Nat /\ t \in Nat /\ actual \in Nat
    /\ baud >= 200 /\ best >= 16
    /\ q * baud <= d /\ d < q * baud + baud /\ 2 * best \in {q, q + 1}
    /\ t * best <= d /\ d < t * best + best /\ 2 * actual \in {t, t + 1}

LEMMA RateIsNear ==
    ASSUME NEW d, NEW baud, NEW q, NEW best, NEW t, NEW actual,
           Rounded(d, baud, q, best, t, actual)
    PROVE  Abs(actual - baud) * 20 <= baud
<1> USE DEF Rounded
<1>1. q * baud <= 2 * (best * baud) /\ 2 * (best * baud) <= q * baud + baud
  <2>1. CASE 2 * best = q
    <3>1. 2 * (best * baud) = q * baud
      BY <2>1, SMT
    <3> QED BY <3>1, SMT
  <2>2. CASE 2 * best = q + 1
    <3>1. 2 * (best * baud) = q * baud + baud
      BY <2>2, SMT
    <3> QED BY <3>1, SMT
  <2> QED BY <2>1, <2>2
<1>2. 16 * t <= 32 * baud + baud
  <2> SUFFICES ASSUME t > 2 * baud PROVE 16 * (t - 2 * baud) <= baud
    BY SMT
  <2>1. t * best = (t - 2 * baud) * best + 2 * (best * baud)
    BY SMT
  <2>2. (t - 2 * baud) * best < baud
    BY <1>1, <2>1, SMT
  <2>3. (t - 2 * baud) * 16 <= (t - 2 * baud) * best
    BY SMT
  <2> QED BY <2>2, <2>3, SMT
<1>3. 16 * (t + 1) + baud >= 32 * baud
  <2> SUFFICES ASSUME t + 1 < 2 * baud PROVE 16 * (2 * baud - t - 1) <= baud
    BY SMT
  <2>1. (2 * baud - t - 1) * best = 2 * (best * baud) - t * best - best
    BY SMT
  <2>2. (2 * baud - t - 1) * best < baud
    BY <1>1, <2>1, SMT
  <2>3. (2 * baud - t - 1) * 16 <= (2 * baud - t - 1) * best
    BY SMT
  <2> QED BY <2>2, <2>3, SMT
<1>4. t - 1 <= 2 * actual - 1 /\ 2 * actual <= t + 1
  BY SMT
<1> QED BY <1>2, <1>3, <1>4, SMT DEF Abs

(* The divisor a chip reads out of the seventeen bits it is told           *)
DivisorOf(e) ==
    LET whole == e % 2^14
    IN  IF whole = 0 THEN 8 ELSE IF whole = 1 THEN 12
        ELSE 8 * whole + EighthsOf(e \div 2^14)

LEMMA FractionsDecode ==
    ASSUME NEW e \in 0 .. 7
    PROVE  FractionCode[e] \in 0 .. 7 /\ EighthsOf(FractionCode[e]) = e
<1>1. \A x \in 0 .. 7 : FractionCode[x] = <<0, 3, 2, 4, 1, 5, 6, 7>>[x + 1]
  BY DEF FractionCode
<1>2. /\ FractionCode[0] = 0 /\ FractionCode[1] = 3 /\ FractionCode[2] = 2
      /\ FractionCode[3] = 4 /\ FractionCode[4] = 1 /\ FractionCode[5] = 5
      /\ FractionCode[6] = 6 /\ FractionCode[7] = 7
  BY <1>1
<1>3. \A x, y \in 0 .. 7 : FractionCode[x] = FractionCode[y] => x = y
  BY <1>2, SMT
<1>4. FractionCode[e] \in 0 .. 7
  BY <1>2, SMT
<1>5. EighthsOf(FractionCode[e]) \in 0 .. 7
      /\ FractionCode[EighthsOf(FractionCode[e])] = FractionCode[e]
  BY DEF EighthsOf
<1> QED BY <1>3, <1>4, <1>5

Divides(best) == best \in Nat /\ 16 <= best /\ best <= 131071
Parts(best, w, x, c) ==
    /\ w \in Nat /\ 2 <= w /\ w <= 16383
    /\ x \in Nat /\ x <= 7 /\ c \in Nat /\ c <= 7
    /\ best = 8 * w + x
SeventeenBits(e) == e \in Nat /\ e <= 131071

LEMMA EncodedDecodes ==
    ASSUME NEW best \in Nat, Divides(best)
    PROVE  SeventeenBits(Encoded(best)) /\ DivisorOf(Encoded(best)) = best
<1>1. PICK w, x, c : w = best \div 8 /\ x = best % 8 /\ c = FractionCode[best % 8]
  OBVIOUS
<1>2. x \in 0 .. 7
  BY <1>1, SMT DEF Divides
<1>3. c \in 0 .. 7 /\ EighthsOf(c) = x
  BY <1>1, <1>2, FractionsDecode, Zenon
<1>4. Parts(best, w, x, c)
  BY <1>1, <1>3, SMT DEF Divides, Parts
<1>5. PICK e : e = Encoded(best)
  OBVIOUS
<1>6. e = w + c * 2^14
  BY <1>1, <1>5, Zenon DEF Encoded
<1>7. SeventeenBits(e) /\ e % 2^14 = w /\ e \div 2^14 = c
  BY <1>4, <1>6, SMT DEF Parts, SeventeenBits
<1>8. DivisorOf(e) = 8 * w + x
  BY <1>3, <1>4, <1>7, SMT DEF DivisorOf, Parts
<1>9. best = 8 * w + x
  BY <1>4, SMT DEF Parts
<1> QED BY <1>5, <1>7, <1>8, <1>9, Zenon

(* The rate is the clock divided, and near the one asked for if that is    *)
(* neither so low that the divisor is cut off nor so high that there are   *)
(* few divisors.                                                           *)
Real(rate, clock) ==
    /\ rate.actual \in Nat /\ SeventeenBits(rate.encoded)
    /\ Abs(rate.actual * DivisorOf(rate.encoded) - 8 * clock) <= DivisorOf(rate.encoded)

Near(rate, baud) == Abs(rate.actual - baud) * 20 <= baud

Reachable(baud, clock) == baud >= 200 /\ 8 * clock <= 131071 * baud

Limited(n) == Lower(n, 2^17 - 1)

LEMMA LimitedDivides ==
    ASSUME NEW n \in Nat, n >= 16
    PROVE  Limited(n) \in Nat \ {0} /\ Limited(n) >= 16 /\ Divides(Limited(n))
<1>1. 2^17 = 131072
  BY SMT
<1>2. Limited(n) = IF n < 131071 THEN n ELSE 131071
  BY <1>1, SMT DEF Limited, Lower
<1> QED BY <1>2, SMT DEF Divides

LEMMA NotLimited ==
    ASSUME NEW clock \in Nat, NEW baud \in Nat, Reachable(baud, clock),
           NEW q \in Nat, q * baud <= 16 * clock, NEW n \in Nat, 2 * n \in {q, q + 1}
    PROVE  Limited(n) = n
<1>1. 2^17 = 131072
  BY SMT
<1>2. n <= 131071
  <2> SUFFICES ASSUME q >= 262143 PROVE FALSE
    BY SMT
  <2>1. 262143 * baud <= q * baud
    BY SMT DEF Reachable
  <2> QED BY <2>1, SMT DEF Reachable
<1> QED BY <1>1, <1>2, SMT DEF Limited, Lower

LEMMA HalvedRate ==
    ASSUME NEW clock \in Nat, NEW best \in Nat \ {0}, NEW actual \in Nat,
           Abs(2 * (actual * best) - 16 * clock) <= best
    PROVE  Abs(actual * best - 8 * clock) <= best
<1>1. PICK x \in Nat : x = actual * best
  BY SMT
<1> QED BY <1>1, SMT DEF Abs

LEMMA DividedIsReal ==
    ASSUME NEW clock \in Nat, NEW baud \in Nat \ {0}, 2 * baud < clock,
           NEW divisor, divisor = (16 * clock) \div baud,
           NEW best, best = Limited((divisor \div 2) + (divisor % 2)),
           NEW twice, twice = (16 * clock) \div best,
           NEW actual, actual = (twice \div 2) + (twice % 2)
    PROVE  /\ Real(Rate(actual, Encoded(best)), clock)
           /\ Reachable(baud, clock) => Near(Rate(actual, Encoded(best)), baud)
<1>1. PICK d, n : d = 16 * clock /\ n = (divisor \div 2) + (divisor % 2)
  OBVIOUS
<1>2. d \in Nat /\ 32 * baud <= d
  BY <1>1, SMT
<1>3. divisor \in Nat /\ divisor * baud <= d /\ d < divisor * baud + baud
  BY <1>1, <1>2, Quotient
<1>4. n \in Nat /\ 2 * n \in {divisor, divisor + 1}
  BY <1>1, <1>3, HalfUp
<1>5. n >= 16
  BY <1>2, <1>3, <1>4, DivisorIsSmall
<1>6. best \in Nat \ {0} /\ best >= 16 /\ Divides(best) /\ best = Limited(n)
  BY <1>1, <1>4, <1>5, LimitedDivides
<1>7. twice \in Nat /\ twice * best <= d /\ d < twice * best + best
  BY <1>1, <1>2, <1>6, Quotient
<1>8. actual \in Nat /\ 2 * actual \in {twice, twice + 1}
  BY <1>7, HalfUp
<1>9. PICK rate : rate = Rate(actual, Encoded(best))
  OBVIOUS
<1>10. rate.actual = actual /\ rate.encoded = Encoded(best)
  BY <1>9 DEF Rate
<1>11. SeventeenBits(Encoded(best)) /\ DivisorOf(Encoded(best)) = best
  BY <1>6, EncodedDecodes
<1>12. Abs(actual * best - 8 * clock) <= best
  <2>1. Abs(2 * (actual * best) - d) <= best
    BY <1>2, <1>6, <1>7, <1>8, RateIsRounded
  <2> QED BY <1>1, <1>6, <1>8, <2>1, HalvedRate
<1>13. Real(rate, clock)
  BY <1>8, <1>10, <1>11, <1>12, Zenon DEF Real
<1>14. ASSUME Reachable(baud, clock) PROVE Near(rate, baud)
  <2>1. best = n
    BY <1>1, <1>3, <1>4, <1>6, <1>14, NotLimited
  <2>2. baud >= 200
    BY <1>14, SMT DEF Reachable
  <2>3. Abs(actual - baud) * 20 <= baud
    <3>1. best \in Nat /\ 2 * best \in {divisor, divisor + 1} /\ baud \in Nat
      BY <1>4, <2>1
    <3>2. Rounded(d, baud, divisor, best, twice, actual)
      BY <1>2, <1>3, <1>6, <1>7, <1>8, <2>2, <3>1, Zenon DEF Rounded
    <3> QED BY <3>2, RateIsNear
  <2> QED BY <1>10, <2>3, Zenon DEF Near
<1> QED BY <1>9, <1>13, <1>14, Zenon

(* The clock of a chip, its two highest rates but one, and the rest        *)
Clock(clock, predivider, c) ==
    /\ c \in Nat /\ clock \div predivider = c
    /\ 3 * (clock \div (predivider + predivider \div 2)) = 2 * c
    /\ clock \div (predivider + predivider \div 2) \in Nat
    /\ 2 * (clock \div (2 * predivider)) = c
    /\ clock \div (2 * predivider) \in Nat
    /\ (clock * 16) \div predivider = 16 * c

LEMMA FewDivisors ==
    /\ SeventeenBits(0) /\ DivisorOf(0) = 8
    /\ SeventeenBits(1) /\ DivisorOf(1) = 12
    /\ SeventeenBits(2) /\ DivisorOf(2) = 16
<1>1. EighthsOf(0) = 0
  <2>1. FractionCode[0] = 0
    BY DEF FractionCode
  <2>2. 0 \in 0 .. 7
    BY SMT
  <2> QED BY <2>1, <2>2, FractionsDecode
<1>2. 0 % 2^14 = 0 /\ 1 % 2^14 = 1 /\ 2 % 2^14 = 2 /\ 2 \div 2^14 = 0
  BY SMT
<1> QED BY <1>1, <1>2, SMT DEF SeventeenBits, DivisorOf

LEMMA ClockBitsAreReal ==
    ASSUME NEW clock, NEW predivider, NEW c, Clock(clock, predivider, c), NEW baud \in Nat \ {0}
    PROVE  /\ Real(ClockBits(baud, clock, predivider), c)
           /\ Reachable(baud, c) /\ 2 * baud <= c => Near(ClockBits(baud, clock, predivider), baud)
<1>1. PICK middle, half : /\ middle = clock \div (predivider + predivider \div 2)
                          /\ half = clock \div (2 * predivider)
  OBVIOUS
<1>2. PICK divisor : divisor = (16 * c) \div baud
  OBVIOUS
<1>3. PICK best : best = Limited((divisor \div 2) + (divisor % 2))
  OBVIOUS
<1>4. PICK twice : twice = (16 * c) \div best
  OBVIOUS
<1>5. PICK actual : actual = (twice \div 2) + (twice % 2)
  OBVIOUS
<1>6. PICK rate : rate = ClockBits(baud, clock, predivider)
  OBVIOUS
<1>7. rate = IF baud >= c THEN Rate(c, 0)
             ELSE IF baud >= middle THEN Rate(middle, 1)
             ELSE IF baud >= half THEN Rate(half, 2)
             ELSE Rate(actual, Encoded(best))
  BY <1>1, <1>2, <1>3, <1>4, <1>5, <1>6, Zenon DEF ClockBits, Clock, Limited
<1>8. /\ c \in Nat /\ middle \in Nat /\ half \in Nat
      /\ 3 * middle = 2 * c /\ 2 * half = c
  BY <1>1, Zenon DEF Clock
<1>9. CASE baud >= c
  <2>1. rate.actual = c /\ rate.encoded = 0
    BY <1>7, <1>9 DEF Rate
  <2>2. Abs(c * 8 - 8 * c) <= 8
    BY <1>8, SMT DEF Abs
  <2>3. Real(rate, c)
    BY <1>8, <2>1, <2>2, FewDivisors, Zenon DEF Real
  <2>4. 2 * baud <= c => Near(rate, baud)
    BY <1>8, <1>9, SMT
  <2> QED BY <1>6, <2>3, <2>4, Zenon
<1>10. CASE ~(baud >= c) /\ baud >= middle
  <2>1. rate.actual = middle /\ rate.encoded = 1
    BY <1>7, <1>10 DEF Rate
  <2>2. Abs(middle * 12 - 8 * c) <= 12
    BY <1>8, SMT DEF Abs
  <2>3. Real(rate, c)
    BY <1>8, <2>1, <2>2, FewDivisors, Zenon DEF Real
  <2>4. 2 * baud <= c => Near(rate, baud)
    BY <1>8, <1>10, SMT
  <2> QED BY <1>6, <2>3, <2>4, Zenon
<1>11. CASE ~(baud >= c) /\ ~(baud >= middle) /\ baud >= half
  <2>1. rate.actual = half /\ rate.encoded = 2
    BY <1>7, <1>11 DEF Rate
  <2>2. Abs(half * 16 - 8 * c) <= 16
    BY <1>8, SMT DEF Abs
  <2>3. Real(rate, c)
    BY <1>8, <2>1, <2>2, FewDivisors, Zenon DEF Real
  <2>4. 2 * baud <= c => Abs(half - baud) * 20 <= baud
    BY <1>8, <1>11, SMT DEF Abs
  <2> QED BY <1>6, <2>1, <2>3, <2>4, Zenon DEF Near
<1>12. CASE ~(baud >= c) /\ ~(baud >= middle) /\ ~(baud >= half)
  <2>1. rate = Rate(actual, Encoded(best))
    BY <1>7, <1>12, Zenon
  <2>2. 2 * baud < c
    BY <1>8, <1>12, SMT
  <2>3. c \in Nat
    BY <1>8
  <2>4. Real(rate, c) /\ (Reachable(baud, c) => Near(rate, baud))
    BY <1>2, <1>3, <1>4, <1>5, <2>1, <2>2, <2>3, DividedIsReal, Zenon
  <2> QED BY <1>6, <2>4, Zenon
<1> QED BY <1>9, <1>10, <1>11, <1>12, Zenon

LEMMA TheClocks == Clock(48000000, 16, 3000000) /\ Clock(120000000, 10, 12000000)
  BY SMT DEF Clock

(* What goes into wValue and wIndex comes out of them.                     *)
LEMMA RequestSplits ==
    ASSUME NEW e \in Nat, SeventeenBits(e), NEW fast \in {0, 1}
    PROVE  LET encoded == e + fast * 2^17
               value == encoded % 2^16
               high == encoded \div 2^16
           IN  /\ high \in Nat /\ high \div 2 = fast
               /\ value % 2^14 = e % 2^14
               /\ value \div 2^14 + 4 * (high % 2) = e \div 2^14
<1>1. PICK w, r : w = e % 16384 /\ r = e \div 16384
  BY SMT
<1>2. w \in Nat /\ w < 16384 /\ r \in Nat /\ r < 8 /\ e = w + r * 16384
  BY <1>1, SMT DEF SeventeenBits
<1>3. PICK encoded : encoded = e + fast * 131072
  BY SMT
<1>4. PICK a, b : a = r % 4 /\ b = r \div 4
  BY SMT
<1>5. a \in Nat /\ a < 4 /\ b \in {0, 1} /\ r = a + 4 * b
  BY <1>2, <1>4, SMT
<1>6. encoded = (w + a * 16384) + (b + 2 * fast) * 65536
  BY <1>2, <1>3, <1>5, SMT
<1>7. encoded % 65536 = w + a * 16384 /\ encoded \div 65536 = b + 2 * fast
  BY <1>2, <1>5, <1>6, SMT
<1>8. /\ (w + a * 16384) % 16384 = w /\ (w + a * 16384) \div 16384 = a
      /\ (b + 2 * fast) \div 2 = fast /\ (b + 2 * fast) % 2 = b
  BY <1>2, <1>5, SMT
<1>9. 2^17 = 131072 /\ 2^16 = 65536 /\ 2^14 = 16384
  BY SMT
<1>10. encoded = e + fast * 2^17
  BY <1>3, <1>9, SMT
<1>11. /\ encoded \div 2^16 \in Nat /\ (encoded \div 2^16) \div 2 = fast
       /\ (encoded % 2^16) % 2^14 = w
       /\ (encoded % 2^16) \div 2^14 + 4 * ((encoded \div 2^16) % 2) = r
  BY <1>2, <1>5, <1>7, <1>8, <1>9, SMT
<1>12. w = e % 2^14 /\ r = e \div 2^14
  BY <1>1, <1>9, SMT
<1> QED BY <1>10, <1>11, <1>12, SMT

LEMMA IndexCarries ==
    ASSUME NEW high \in Nat, NEW channel \in 0 .. 255
    PROVE  (high * 256 + channel) \div 256 = high /\ (high * 256 + channel) % 256 = channel
  BY SMT

(* The clock that a request's uppermost bit stands for                     *)
ClockOf(fast) == IF fast = 1 THEN 12000000 ELSE 3000000

Channel(chip, channel) == channel \in 0 .. 255 /\ (chip \notin WideIndex => channel = 0)

Carries(value, index, encoded, chip, channel) ==
    LET high == encoded \div 2^16
    IN  /\ value = encoded % 2^16
        /\ index = IF chip \in WideIndex THEN high * 256 + channel ELSE high

LEMMA RequestIsDecoded ==
    ASSUME NEW chip \in Chips \ {"ft232am"}, NEW channel, Channel(chip, channel),
           NEW e, SeventeenBits(e), NEW fast \in {0, 1}, NEW value, NEW index,
           Carries(value, index, e + fast * 2^17, chip, channel)
    PROVE  /\ ChipDivisor(chip, value, index) = DivisorOf(e)
           /\ ChipClock(chip, index) = ClockOf(fast)
           /\ channel # 0 => index % 256 = channel
<1>1. PICK encoded, high :
         /\ encoded = e + fast * 2^17 /\ high = encoded \div 2^16
         /\ value = encoded % 2^16
         /\ index = IF chip \in WideIndex THEN high * 256 + channel ELSE high
  BY Zenon DEF Carries
<1>2. e \in Nat
  BY SMT DEF SeventeenBits
<1>3. /\ high \in Nat /\ high \div 2 = fast
      /\ value % 2^14 = e % 2^14
      /\ value \div 2^14 + 4 * (high % 2) = e \div 2^14
  BY <1>1, <1>2, RequestSplits, Zenon
<1>4. chip \in WideIndex => index \div 256 = high /\ index % 256 = channel
  <2>1. channel \in 0 .. 255
    BY SMT DEF Channel
  <2>2. (high * 256 + channel) \div 256 = high /\ (high * 256 + channel) % 256 = channel
    BY <1>3, <2>1, IndexCarries
  <2> QED BY <1>1, <2>2, Zenon
<1>5. ChipHigh(chip, index) = high
  BY <1>1, <1>4, SMT DEF ChipHigh
<1>6. ChipDivisor(chip, value, index) = DivisorOf(e)
  BY <1>3, <1>5, Zenon DEF ChipDivisor, DivisorOf
<1>7. ChipClock(chip, index) = ClockOf(fast)
  BY <1>3, <1>5, SMT DEF ChipClock, ClockOf
<1>8. channel # 0 => index % 256 = channel
  BY <1>4, SMT DEF Channel
<1> QED BY <1>6, <1>7, <1>8

LEMMA RequestIsRead ==
    ASSUME NEW chip \in Chips \ {"ft232am"}, NEW channel, Channel(chip, channel),
           NEW rate, NEW fast \in {0, 1}, Real(rate, ClockOf(fast)), NEW value, NEW index,
           Carries(value, index, rate.encoded + fast * 2^17, chip, channel)
    PROVE  RunsAt(chip, value, index, rate.actual) /\ (channel # 0 => index % 256 = channel)
<1>1. PICK e : e = rate.encoded
  OBVIOUS
<1>2. SeventeenBits(e) /\ Abs(rate.actual * DivisorOf(e) - 8 * ClockOf(fast)) <= DivisorOf(e)
  BY <1>1, Zenon DEF Real
<1>3. Carries(value, index, e + fast * 2^17, chip, channel)
  BY <1>1, Zenon
<1>4. /\ ChipDivisor(chip, value, index) = DivisorOf(e)
      /\ ChipClock(chip, index) = ClockOf(fast)
      /\ channel # 0 => index % 256 = channel
  BY <1>2, <1>3, RequestIsDecoded
<1> QED BY <1>2, <1>4, Zenon DEF RunsAt

(* convert_baud_rate, whichever of the two clocks it takes                 *)
Fast(baud, chip) == IF FastClock(baud, chip) THEN 1 ELSE 0

Chosen(baud, chip) ==
    IF FastClock(baud, chip) THEN ClockBits(baud, 120000000, 10) ELSE ClockBits(baud, 48000000, 16)

LEMMA ConvertedIsChosen ==
    ASSUME NEW baud \in Nat \ {0}, NEW chip \in Chips \ {"ft232am"}
    PROVE  /\ Real(Chosen(baud, chip), ClockOf(Fast(baud, chip)))
           /\ Fast(baud, chip) \in {0, 1}
           /\ Converted(baud, chip).actual = Chosen(baud, chip).actual
           /\ Converted(baud, chip).encoded = Chosen(baud, chip).encoded + Fast(baud, chip) * 2^17
<1>1. CASE FastClock(baud, chip)
  <2>1. PICK rate : rate = ClockBits(baud, 120000000, 10)
    BY SMT
  <2>2. Chosen(baud, chip) = rate /\ Fast(baud, chip) = 1
    BY <1>1, <2>1, SMT DEF Chosen, Fast
  <2>3. Real(rate, ClockOf(1))
    BY <2>1, TheClocks, ClockBitsAreReal, SMT DEF ClockOf
  <2>4. Converted(baud, chip) = Rate(rate.actual, rate.encoded + 2^17)
    BY <1>1, <2>1, SMT DEF Converted
  <2>5. rate.encoded \in Nat
    BY <2>3, SMT DEF Real, SeventeenBits
  <2>6. rate.encoded + 2^17 = rate.encoded + 1 * 2^17
    BY <2>5, SMT
  <2> QED BY <2>2, <2>3, <2>4, <2>6 DEF Rate
<1>2. CASE ~FastClock(baud, chip)
  <2>1. PICK rate : rate = ClockBits(baud, 48000000, 16)
    BY SMT
  <2>2. Chosen(baud, chip) = rate /\ Fast(baud, chip) = 0
    BY <1>2, <2>1, SMT DEF Chosen, Fast
  <2>3. Real(rate, ClockOf(0))
    BY <2>1, TheClocks, ClockBitsAreReal, SMT DEF ClockOf
  <2>4. Converted(baud, chip) = rate
    BY <1>2, <2>1, SMT DEF Converted
  <2>5. rate.encoded \in Nat
    BY <2>3, SMT DEF Real, SeventeenBits
  <2>6. rate.encoded = rate.encoded + 0 * 2^17
    BY <2>5, SMT
  <2> QED BY <2>2, <2>3, <2>4, <2>6
<1> QED BY <1>1, <1>2

HalfOf(chip) == (IF chip \in HType THEN 12000000 ELSE 3000000) \div 2

LEMMA ChosenIsNear ==
    ASSUME NEW baud \in Nat, baud >= 200, NEW chip \in Chips \ {"ft232am"}, baud <= HalfOf(chip)
    PROVE  Near(Chosen(baud, chip), baud)
<1>1. CASE FastClock(baud, chip)
  <2>1. Reachable(baud, 12000000) /\ 2 * baud <= 12000000
    BY <1>1, SMT DEF FastClock, Reachable, HalfOf
  <2> QED BY <1>1, <2>1, TheClocks, ClockBitsAreReal, SMT DEF Chosen
<1>2. CASE ~FastClock(baud, chip)
  <2>1. Reachable(baud, 3000000) /\ 2 * baud <= 3000000
    BY <1>2, SMT DEF FastClock, Reachable, HalfOf
  <2> QED BY <1>2, <2>1, TheClocks, ClockBitsAreReal, SMT DEF Chosen
<1> QED BY <1>1, <1>2

LEMMA ChannelIsAByte ==
    ASSUME NEW chip \in Chips, NEW interface \in 0 .. 254
    PROVE  Channel(chip, UsbIndex(chip, interface))
  BY SMT DEF Channel, UsbIndex, MultiChannel, WideIndex, HType

LEMMA RateIsRealForAll ==
    ASSUME NEW baud \in Nat, NEW chip \in Chips \ {"ft232am"}, NEW interface \in 0 .. 254
    PROVE  RateIsReal(baud, chip, interface)
<1>1. PICK channel : channel = UsbIndex(chip, interface)
  OBVIOUS
<1>2. PICK set : set = SetBaudRate(baud, chip, channel)
  OBVIOUS
<1>3. PICK divisor : divisor = ConvertBaudRate(baud, chip, channel)
  OBVIOUS
<1>4. set = IF baud = 0 THEN [out |-> "InvalidBaudRate"]
            ELSE IF Abs(divisor.actual - baud) * 20 > baud THEN [out |-> "UnsupportedBaudRate"]
            ELSE [out |-> "ok", actual |-> divisor.actual, value |-> divisor.value,
                  index |-> divisor.index]
  BY <1>2, <1>3, Zenon DEF SetBaudRate
<1>5. baud = 0 => set.out = "InvalidBaudRate"
  BY <1>4
<1>6. ASSUME set.out = "ok"
      PROVE  RunsAt(chip, set.value, set.index, set.actual) /\ (channel # 0 => set.index % 256 = channel)
  <2>1. set = [out |-> "ok", actual |-> divisor.actual, value |-> divisor.value, index |-> divisor.index]
        /\ baud # 0
    BY <1>4, <1>6
  <2>2. PICK rate, fast, encoded, high :
           /\ rate = Chosen(baud, chip) /\ fast = Fast(baud, chip)
           /\ encoded = rate.encoded + fast * 2^17 /\ high = encoded \div 2^16
    BY Zenon
  <2>3. /\ Real(rate, ClockOf(fast)) /\ fast \in {0, 1}
        /\ Converted(baud, chip).actual = rate.actual /\ Converted(baud, chip).encoded = encoded
    BY <2>1, <2>2, ConvertedIsChosen, Zenon
  <2>4. divisor = [actual |-> rate.actual, value |-> encoded % 2^16,
                   index |-> IF chip \in WideIndex THEN high * 256 + channel ELSE high]
    BY <1>3, <2>2, <2>3, Zenon DEF ConvertBaudRate
  <2>5. /\ set.actual = rate.actual /\ set.value = encoded % 2^16
        /\ set.index = IF chip \in WideIndex THEN high * 256 + channel ELSE high
    BY <2>1, <2>4
  <2>6. Channel(chip, channel)
    BY <1>1, ChannelIsAByte
  <2>7. PICK value, index : value = set.value /\ index = set.index
    BY Zenon
  <2>8. RunsAt(chip, value, index, rate.actual) /\ (channel # 0 => index % 256 = channel)
    <3>1. Real(rate, ClockOf(fast)) /\ fast \in {0, 1}
      BY <2>3, Zenon
    <3>2. Carries(value, index, rate.encoded + fast * 2^17, chip, channel)
      BY <2>2, <2>5, <2>7, Zenon DEF Carries
    <3> QED BY <2>6, <3>1, <3>2, RequestIsRead
  <2> QED BY <2>5, <2>7, <2>8, Zenon
<1>7. ASSUME baud >= 200, baud <= HalfOf(chip)
      PROVE  set.out = "ok"
  <2>1. baud \in Nat \ {0}
    BY <1>7, SMT
  <2>2. Near(Chosen(baud, chip), baud)
    BY <1>7, ChosenIsNear
  <2>3. divisor.actual = Chosen(baud, chip).actual
    BY <1>3, <2>1, ConvertedIsChosen DEF ConvertBaudRate
  <2>4. Abs(divisor.actual - baud) * 20 <= baud
    BY <2>2, <2>3, Zenon DEF Near
  <2>5. divisor.actual \in Nat
    BY <2>1, <2>3, ConvertedIsChosen, Zenon DEF Real
  <2>6. ~(Abs(divisor.actual - baud) * 20 > baud) /\ baud # 0
    BY <2>1, <2>4, <2>5, SMT DEF Abs
  <2> QED BY <1>4, <2>6
<1>8. baud \in 200 .. HalfOf(chip) => baud >= 200 /\ baud <= HalfOf(chip)
  BY SMT DEF HalfOf
<1>9. baud \in 200 .. HalfOf(chip) => set.out = "ok"
  BY <1>7, <1>8, Zenon
<1> QED BY <1>1, <1>2, <1>5, <1>6, <1>9, SMT DEF RateIsReal, HalfOf

(***************************************************************************)
(* The K8055 board                                                         *)
(***************************************************************************)
(* A setting is as far from a time below or above it as the squares are.   *)
LEMMA SquaresGrow ==
    ASSUME NEW m \in Nat, NEW n \in Nat, m <= n
    PROVE  115 * m * m <= 115 * n * n
<1>1. m * m <= n * n
  <2>1. m * m <= m * n /\ m * n <= n * n
    BY SMT
  <2> QED BY <2>1, SMT
<1> QED BY <1>1, SMT

LEMMA StrictSquares ==
    ASSUME NEW m \in Nat
    PROVE  115 * m * m < 115 * (m + 1) * (m + 1)
<1>1. (m + 1) * (m + 1) = m * m + 2 * m + 1
  BY SMT
<1>2. 115 * (m + 1) * (m + 1) = 115 * ((m + 1) * (m + 1)) /\ 115 * m * m = 115 * (m * m)
  BY SMT
<1> QED BY <1>1, <1>2, SMT

Square(m) == 115 * m * m

LEMMA NearerBelow ==
    ASSUME NEW a \in Nat, NEW b \in Nat, NEW c \in Nat, NEW us \in Nat,
           a <= b, b < c, Distance(b, us) > Distance(c, us)
    PROVE  Distance(c, us) <= Distance(a, us)
  BY SMT DEF Distance

LEMMA NearerAbove ==
    ASSUME NEW a \in Nat, NEW b \in Nat, NEW c \in Nat, NEW us \in Nat,
           a < b, b <= c, Distance(a, us) <= Distance(b, us)
    PROVE  Distance(a, us) <= Distance(c, us)
  BY SMT DEF Distance

LEMMA NearestSetting ==
    ASSUME NEW us \in Nat, NEW raw \in 0 .. 255
    PROVE  SettingError(DebounceRaw(us), us) <= SettingError(raw, us)
<1>1. PICK T : T = {r \in 0 .. 255 : r = 255 \/ SettingError(r, us) <= SettingError(r + 1, us)}
  OBVIOUS
<1>2. PICK m : m = Min(T)
  OBVIOUS
<1>3. T \subseteq Nat /\ 255 \in T
  BY <1>1
<1>4. m \in T /\ \A k \in T : m <= k
  BY <1>2, <1>3, LeastOf
<1>5. m \in 0 .. 255 /\ (m = 255 \/ SettingError(m, us) <= SettingError(m + 1, us))
  BY <1>1, <1>4
<1>6. \A k \in Nat : Square(k) \in Nat /\ Square(k) < Square(k + 1)
  BY StrictSquares, SMT DEF Square
<1>7. \A k, n \in Nat : k <= n => Square(k) <= Square(n)
  BY SquaresGrow, SMT DEF Square
<1>8. \A k \in Nat : SettingError(k, us) = Distance(Square(k), us)
  BY DEF SettingError, Square
<1>9. CASE raw = m
  <2>1. SettingError(m, us) \in Nat
    BY <1>5, <1>6, <1>8, SMT DEF Distance
  <2> QED BY <1>1, <1>2, <1>9, <2>1 DEF DebounceRaw
<1>10. CASE raw < m
  <2>1. m - 1 \in 0 .. 255 /\ m - 1 # 255 /\ (m - 1) + 1 = m /\ m - 1 < m /\ raw <= m - 1
    BY <1>5, <1>10, SMT
  <2>2. m - 1 \notin T
    BY <1>3, <1>4, <1>5, <2>1, SMT
  <2>3. ~(SettingError(m - 1, us) <= SettingError(m, us))
    BY <1>1, <2>1, <2>2
  <2>4. /\ Square(raw) \in Nat /\ Square(m - 1) \in Nat /\ Square(m) \in Nat
        /\ Square(raw) <= Square(m - 1) /\ Square(m - 1) < Square(m)
    <3>1. PICK n \in Nat : n = m - 1 /\ n + 1 = m /\ raw <= n /\ m \in Nat /\ raw \in Nat
      BY <1>5, <2>1, SMT
    <3> QED BY <1>6, <1>7, <3>1
  <2>5. ~(Distance(Square(m - 1), us) <= Distance(Square(m), us))
    BY <1>5, <1>8, <2>1, <2>3
  <2>6. Distance(Square(m - 1), us) > Distance(Square(m), us)
    BY <2>4, <2>5, SMT DEF Distance
  <2>7. Distance(Square(m), us) <= Distance(Square(raw), us)
    BY <2>4, <2>6, NearerBelow
  <2> QED BY <1>1, <1>2, <1>5, <1>8, <2>7 DEF DebounceRaw
<1>11. CASE raw > m
  <2>1. m # 255 /\ m + 1 \in Nat /\ m < m + 1 /\ m + 1 <= raw
    BY <1>5, <1>11, SMT
  <2>2. Distance(Square(m), us) <= Distance(Square(m + 1), us)
    BY <1>5, <1>8, <2>1
  <2>3. /\ Square(raw) \in Nat /\ Square(m + 1) \in Nat /\ Square(m) \in Nat
        /\ Square(m + 1) <= Square(raw) /\ Square(m) < Square(m + 1)
    BY <1>5, <1>6, <1>7, <2>1
  <2>4. Distance(Square(m), us) <= Distance(Square(raw), us)
    BY <2>2, <2>3, NearerAbove
  <2> QED BY <1>1, <1>2, <1>5, <1>8, <2>4 DEF DebounceRaw
<1> QED BY <1>5, <1>9, <1>10, <1>11, SMT

LEMMA CommandsRepeat ==
    ASSUME NEW o, NEW command, NEW a, NEW b
    PROVE  SubSeq(CommandReport(command, o, a, b), 2, 4) = <<o.digital, o.analog1, o.analog2>>
<1>1. PICK s, t : s = CommandReport(command, o, a, b) /\ t = SubSeq(s, 2, 4)
  OBVIOUS
<1>2. PICK x, y, z : x = o.digital /\ y = o.analog1 /\ z = o.analog2
  OBVIOUS
<1>3. s = <<command, x, y, z, 0, 0, a, b>>
  BY <1>1, <1>2, Zenon DEF CommandReport
<1>4. PICK S : S = {command, x, y, z, 0, a, b}
  OBVIOUS
<1>5. s \in Seq(S) /\ Len(s) = 8 /\ s[2] = x /\ s[3] = y /\ s[4] = z
  BY <1>3, <1>4
<1>6. t \in Seq(S) /\ Len(t) = 3 /\ t[1] = x /\ t[2] = y /\ t[3] = z
  <2>1. \A i \in 2 .. 4 : s[i] \in S
    BY <1>4, <1>5
  <2>2. t \in Seq(S) /\ Len(t) = 3 /\ \A i \in 1 .. 3 : t[i] = s[2 + i - 1]
    BY <1>1, <2>1, SubSeqProperties
  <2> QED BY <1>5, <2>2
<1>7. t = <<x, y, z>>
  BY <1>6
<1> QED BY <1>1, <1>2, <1>7

LEMMA BitsStay ==
    ASSUME NEW a \in {0, 1}, NEW b \in {0, 1}, NEW c \in {0, 1}, NEW d \in {0, 1}, NEW e \in {0, 1}
    PROVE  LET n == (a + 2 * b) + 4 * c + 8 * (d + 2 * e)
           IN  /\ (n \div 1) % 2 = a /\ (n \div 2) % 2 = b /\ (n \div 4) % 2 = c
               /\ (n \div 8) % 2 = d /\ (n \div 16) % 2 = e
  BY SMT

LEMMA InputIsRead ==
    ASSUME NEW raw \in 0 .. 255, NEW i \in 1 .. 5
    PROVE  Bit(DigitalInputs(raw), i - 1) = Bit(raw, InputBit[i])
<1>1. \A k \in 0 .. 7 : Bit(raw, k) \in {0, 1}
  <2>1. /\ 2^0 = 1 /\ 2^1 = 2 /\ 2^2 = 4 /\ 2^3 = 8 /\ 2^4 = 16
        /\ 2^5 = 32 /\ 2^6 = 64 /\ 2^7 = 128
    BY SMT
  <2> QED BY <2>1, SMT DEF Bit
<1>2. PICK a, b, c, d, e : /\ a = Bit(raw, 4) /\ b = Bit(raw, 5) /\ c = Bit(raw, 0)
                           /\ d = Bit(raw, 6) /\ e = Bit(raw, 7)
  OBVIOUS
<1>3. a \in {0, 1} /\ b \in {0, 1} /\ c \in {0, 1} /\ d \in {0, 1} /\ e \in {0, 1}
  BY <1>1, <1>2
<1>4. PICK n : n = DigitalInputs(raw)
  OBVIOUS
<1>5. n = (a + 2 * b) + 4 * c + 8 * (d + 2 * e)
  BY <1>2, <1>4 DEF DigitalInputs
<1>6. /\ 2^0 = 1 /\ 2^1 = 2 /\ 2^2 = 4 /\ 2^3 = 8 /\ 2^4 = 16
  BY SMT
<1>7. Bit(n, 0) = a /\ Bit(n, 1) = b /\ Bit(n, 2) = c /\ Bit(n, 3) = d /\ Bit(n, 4) = e
  BY <1>3, <1>5, <1>6, BitsStay DEF Bit
<1>8. /\ InputBit[1] = 4 /\ InputBit[2] = 5 /\ InputBit[3] = 0 /\ InputBit[4] = 6 /\ InputBit[5] = 7
  BY DEF InputBit
<1>9. i \in {1, 2, 3, 4, 5}
  BY SMT
<1> QED BY <1>2, <1>4, <1>7, <1>8, <1>9

LEMMA PulsesAreCounted ==
    ASSUME NEW pattern, PulseCount(pattern) \in 1 .. 9
    PROVE  /\ Cardinality({k \in 0..23 : Lit(pattern, k)}) = PulseCount(pattern)
           /\ \E k \in 0..23 : Dark(pattern, k)
<1>1. PICK p, S : p = PulseCount(pattern) /\ S = {k \in 0..23 : Lit(pattern, k)}
  OBVIOUS
<1>2. \A k \in 0 .. 23 : k \in S <=> k < 2 * p /\ k % 2 = 0
  BY <1>1, SMT DEF Lit, Phases
<1>3. ExistsBijection(1 .. p, S)
  <2> DEFINE f == [j \in 1 .. p |-> 2 * (j - 1)]
  <2>1. f \in [1 .. p -> S]
    BY <1>1, <1>2
  <2>2. \A i, j \in 1 .. p : f[i] = f[j] => i = j
    BY <1>1
  <2>3. \A k \in S : \E j \in 1 .. p : f[j] = k
    <3> SUFFICES ASSUME NEW k \in S PROVE \E j \in 1 .. p : f[j] = k
      OBVIOUS
    <3>1. k \in 0 .. 23 /\ k < 2 * p /\ k % 2 = 0
      BY <1>1, <1>2
    <3>2. (k \div 2) + 1 \in 1 .. p /\ 2 * (((k \div 2) + 1) - 1) = k
      BY <1>1, <3>1, SMT
    <3> QED BY <3>2
  <2> HIDE DEF f
  <2>4. f \in Bijection(1 .. p, S)
    BY <2>1, <2>2, <2>3, Zenon DEF Bijection, Injection, Surjection, IsInjective
  <2> QED BY <2>4 DEF ExistsBijection
<1>4. Cardinality(S) = p
  BY <1>1, <1>3, FS_CountingElements
<1>5. Dark(pattern, 20)
  <2>1. \A k \in 0 .. 2 : ~Lit(pattern, 20 + k)
    BY <1>1, SMT DEF Lit, Phases
  <2> QED BY <2>1 DEF Dark
<1> QED BY <1>1, <1>4, <1>5

LEMMA BoardsAreDriven ==
    ASSUME NEW d \in Boards
    PROVE  SessionIsTold(d)
<1>1. PICK pattern, sent, got :
         /\ pattern = LedPattern(d) /\ sent = WriteOutputReport(d.out, ReportLen)
         /\ got = ReadInputReport(d.in, ReportLen, d.sent)
  OBVIOUS
<1>2. pattern = IF d.speed # "low" THEN "WrongSpeed"
                ELSE IF d.reached = 0 THEN "EnumerationError"
                ELSE IF ~IsOriginalK8055(d) THEN "WrongDevice"
                ELSE IF ~d.allocates THEN "HidAllocationError"
                ELSE IF d.reached = 1 THEN "ReportDescriptorError"
                ELSE IF d.reached = 2 \/ sent # "ok" THEN "OutputError"
                ELSE IF got = [out |-> "ok", count |-> ReportLen] THEN "Success" ELSE "InputError"
  BY <1>1, Zenon DEF LedPattern
<1>3. got = [out |-> "ok", count |-> ReportLen] => d.sent = ReportLen
  BY <1>1 DEF ReadInputReport
<1>4. pattern = "Success" => d.sent = ReportLen /\ Commanded(d) = {ResetReport}
  BY <1>1, <1>2, <1>3 DEF Commanded
<1>5. pattern \in {"Success", "InputError"} => /\ d.speed = "low" /\ d.reached # 0
                                              /\ d.product \in 21760..21763
  BY <1>2 DEF IsOriginalK8055
<1>6. Commanded(d) # {} => d.product \in 21760..21763 /\ d.address \in Freed(d)
  BY <1>1, <1>5 DEF Commanded, Freed
<1>7. PulseCount(pattern) \in 1 .. 9
  BY <1>2 DEF PulseCount
<1>8. /\ Cardinality({k \in 0..23 : Lit(pattern, k)}) = PulseCount(pattern)
      /\ \E k \in 0..23 : Dark(pattern, k)
  BY <1>7, PulsesAreCounted
<1> QED BY <1>1, <1>4, <1>6, <1>8 DEF SessionIsTold

(***************************************************************************)
(* Discovered functions and their pipes                                    *)
(***************************************************************************)
(* An endpoint a bulk pipe can be made of; every discovery keeps such ones *)
(* only, and none makes a success of an error.                             *)
BulkEnd(d) == d.number # 0 /\ d.number \in 0 .. 15 /\ BulkSize(d.size)

Fine(d) ==
    /\ d.type = "endpoint" => d.number \in 0 .. 15
    /\ d.type = "class" /\ d.sub = "union" => Len(d.subs) \in Nat

Pair(r) ==
    r.out = "ok" => /\ r.bulkIn # {} /\ r.bulkOut # {}
                    /\ \A d \in r.bulkIn \cup r.bulkOut : BulkEnd(d)

(* The slots of a walk that are used later, and what may be in them.       *)
Walks == {"data", "control", "ftdi", "tmc"}

Watched(kind) == IF kind = "control" THEN {"union"} ELSE {"in", "bulkOut"}

Usable(kind, d) == IF kind = "control" THEN Len(d.subs) \in Nat ELSE BulkEnd(d)

SlotsKept(kind, w) ==
    Watched(kind) \subseteq DOMAIN w /\ \A slot \in Watched(kind) : \A d \in w[slot] : Usable(kind, d)

Kept(kind, w) ==
    IF kind = "pick" THEN Pair(w) ELSE "out" \in DOMAIN w /\ w.out # "ok" /\ SlotsKept(kind, w)

LEMMA KeptSo ==
    ASSUME NEW kind \in Walks, NEW w
    PROVE  Kept(kind, w) <=> "out" \in DOMAIN w /\ w.out # "ok" /\ SlotsKept(kind, w)
  BY DEF Kept, Walks

(* A step may set any field but the error, if it puts nothing unusable     *)
(* into a slot.                                                            *)
LEMMA ChangeKeeps ==
    ASSUME NEW kind \in Walks, NEW w, Kept(kind, w), NEW v, DOMAIN v = DOMAIN w, v.out # "ok",
           \A slot \in Watched(kind) : \A d \in v[slot] : d \in w[slot] \/ Usable(kind, d)
    PROVE  Kept(kind, v)
<1>1. "out" \in DOMAIN w /\ SlotsKept(kind, w)
  BY KeptSo
<1>2. SlotsKept(kind, v)
  BY <1>1 DEF SlotsKept
<1> QED BY <1>1, <1>2, KeptSo

LEMMA FailKeeps ==
    ASSUME NEW kind \in Walks, NEW w, Kept(kind, w), NEW error, error # "ok"
    PROVE  Kept(kind, Fail(w, error))
<1>1. PICK v : v = Fail(w, error)
  OBVIOUS
<1>2. "out" \in DOMAIN w /\ Watched(kind) \subseteq DOMAIN w
  BY KeptSo DEF SlotsKept
<1>3. DOMAIN v = DOMAIN w /\ v.out = error /\ \A slot \in DOMAIN w : slot # "out" => v[slot] = w[slot]
  BY <1>1, <1>2 DEF Fail
<1>4. \A slot \in Watched(kind) : v[slot] = w[slot]
  BY <1>2, <1>3 DEF Watched
<1> QED BY <1>1, <1>3, <1>4, ChangeKeeps

LEMMA SetKeeps ==
    ASSUME NEW kind \in Walks, NEW w, Kept(kind, w), NEW slot, slot # "out", NEW value,
           slot \in Watched(kind) => \A d \in value : Usable(kind, d)
    PROVE  Kept(kind, [w EXCEPT ![slot] = value])
<1>1. PICK v : v = [w EXCEPT ![slot] = value]
  OBVIOUS
<1>2. "out" \in DOMAIN w /\ w.out # "ok" /\ Watched(kind) \subseteq DOMAIN w
  BY KeptSo DEF SlotsKept
<1>3. DOMAIN v = DOMAIN w /\ v.out = w.out
  BY <1>1, <1>2
<1>4. ASSUME NEW other \in Watched(kind) PROVE \A d \in v[other] : d \in w[other] \/ Usable(kind, d)
  <2>1. CASE other = slot
    <3>1. v[other] = value
      BY <1>1, <1>2, <2>1
    <3> QED BY <2>1, <3>1
  <2>2. CASE other # slot
    <3>1. v[other] = w[other]
      BY <1>1, <1>2, <2>2
    <3> QED BY <3>1
  <2> QED BY <2>1, <2>2
<1> QED BY <1>1, <1>2, <1>3, <1>4, ChangeKeeps

LEMMA PutKeeps ==
    ASSUME NEW kind \in Walks, NEW w, Kept(kind, w), NEW slot, slot # "out", NEW d,
           slot \in Watched(kind) => Usable(kind, d), NEW error, error # "ok"
    PROVE  Kept(kind, PutOnce(w, slot, d, error))
<1>1. Kept(kind, Fail(w, error))
  BY FailKeeps
<1>2. PICK v : v = [w EXCEPT ![slot] = {d}]
  OBVIOUS
<1>3. Kept(kind, v)
  BY <1>2, SetKeeps
<1>4. PutOnce(w, slot, d, error) \in {Fail(w, error), v}
  BY <1>2, Zenon DEF PutOnce
<1> QED BY <1>1, <1>3, <1>4

LEMMA CountKeeps ==
    ASSUME NEW kind \in Walks, NEW w, Kept(kind, w), NEW count
    PROVE  Kept(kind, [w EXCEPT !.seen = count])
<1>1. "seen" # "out" /\ "seen" \notin Watched(kind)
  BY DEF Watched
<1> QED BY <1>1, SetKeeps

LEMMA EnterKeeps ==
    ASSUME NEW kind \in Walks, NEW w, Kept(kind, w), NEW here
    PROVE  Kept(kind, [w EXCEPT !.current = here])
<1>1. "current" # "out" /\ "current" \notin Watched(kind)
  BY DEF Watched
<1> QED BY <1>1, SetKeeps

LEMMA InterfaceKeeps ==
    ASSUME NEW kind \in Walks, NEW w, NEW d, Kept(kind, w)
    PROVE  Kept(kind, EnterInterface(w, d))
<1>1. PICK here, none : here = [w EXCEPT !.current = {d}] /\ none = [w EXCEPT !.current = {}]
  OBVIOUS
<1>2. Kept(kind, here) /\ Kept(kind, none)
  BY <1>1, EnterKeeps
<1>3. Kept(kind, Fail(w, "InvalidInterfaceDescriptor"))
  BY FailKeeps
<1>4. Kept(kind, PutOnce(here, "selected", d, "InvalidInterfaceDescriptor"))
  <2>1. "selected" # "out" /\ "selected" \notin Watched(kind)
    BY DEF Watched
  <2> QED BY <1>2, <2>1, PutKeeps
<1>5. EnterInterface(w, d) \in {Fail(w, "InvalidInterfaceDescriptor"), none, here,
                               PutOnce(here, "selected", d, "InvalidInterfaceDescriptor")}
  <2>1. CASE ~WellFormed(d)
    BY <1>1, <2>1, Zenon DEF EnterInterface
  <2>2. CASE WellFormed(d)
    BY <1>1, <2>2, Zenon DEF EnterInterface
  <2> QED BY <2>1, <2>2
<1> QED BY <1>2, <1>3, <1>4, <1>5

LEMMA ParsedEndpoint ==
    ASSUME NEW d, Fine(d), d.type = "endpoint", ParseEndpoint(d), BulkSize(d.size),
           NEW kind \in Walks \ {"control"}
    PROVE  Usable(kind, d)
  BY DEF ParseEndpoint, BulkEnd, Fine, Usable

LEMMA DataStepKeeps ==
    ASSUME NEW w, Kept("data", w), NEW d, Fine(d)
    PROVE  Kept("data", DataStep(w, d))
<1>1. "data" \in Walks
  BY DEF Walks
<1>2. CASE d.type = "interface"
  <2>1. DataStep(w, d) = EnterInterface(w, d)
    BY <1>2 DEF DataStep
  <2> QED BY <1>1, <2>1, InterfaceKeeps
<1>3. CASE d.type = "endpoint" /\ InWanted(w, "any")
  <2>1. DataStep(w, d) = DataEndpoint(w, d)
    BY <1>3 DEF DataStep
  <2>2. CASE ~(ParseEndpoint(d) /\ SupportedBulk(d))
    <3>1. DataEndpoint(w, d) = Fail(w, BadEndpoint)
      BY <2>2, Zenon DEF DataEndpoint
    <3> QED BY <1>1, <2>1, <3>1, FailKeeps DEF BadEndpoint
  <2>3. CASE ParseEndpoint(d) /\ SupportedBulk(d)
    <3>1. PICK v, slot : v = [w EXCEPT !.seen = @ + 1] /\ slot = IF d.in THEN "in" ELSE "bulkOut"
      OBVIOUS
    <3>2. DataEndpoint(w, d) = PutOnce(v, slot, d, BadEndpoint)
      BY <2>3, <3>1, Zenon DEF DataEndpoint
    <3>3. Kept("data", v)
      BY <1>1, <3>1, CountKeeps
    <3>4. Usable("data", d) /\ slot # "out"
      BY <1>3, <2>3, <3>1, ParsedEndpoint DEF SupportedBulk, Walks
    <3> QED BY <1>1, <2>1, <3>2, <3>3, <3>4, PutKeeps DEF BadEndpoint
  <2> QED BY <2>2, <2>3
<1>4. CASE d.type # "interface" /\ ~(d.type = "endpoint" /\ InWanted(w, "any"))
  <2>1. DataStep(w, d) = w
    BY <1>4 DEF DataStep
  <2> QED BY <2>1
<1> QED BY <1>2, <1>3, <1>4

LEMMA FtdiStepKeeps ==
    ASSUME NEW w, Kept("ftdi", w), NEW d, Fine(d)
    PROVE  Kept("ftdi", FtdiStep(w, d))
<1>1. "ftdi" \in Walks
  BY DEF Walks
<1>2. PICK within \in BOOLEAN :
          within <=> \E c \in w.current, s \in w.selected : c.number = s.number /\ c.alt = 0
  OBVIOUS
<1>3. CASE d.type = "interface"
  <2>1. FtdiStep(w, d) = FtdiInterfaceStep(w, d)
    BY <1>3 DEF FtdiStep
  <2>2. PICK v, here :
            /\ v = [w EXCEPT !.current = {d}, !.selected = {d}, !.seen = 0, !.in = {}, !.bulkOut = {}]
            /\ here = [w EXCEPT !.current = {d}]
    OBVIOUS
  <2>3. FtdiInterfaceStep(w, d) \in {Fail(w, InvalidInterface), here, Fail(w, "stopped"), v}
    <3>1. CASE ~WellFormed(d)
      BY <3>1, Zenon DEF FtdiInterfaceStep
    <3>2. CASE WellFormed(d) /\ ~FtdiWanted(w, d)
      BY <2>2, <3>2, Zenon DEF FtdiInterfaceStep
    <3>3. CASE WellFormed(d) /\ FtdiWanted(w, d) /\ w.selected # {}
      BY <3>3, Zenon DEF FtdiInterfaceStep
    <3>4. CASE WellFormed(d) /\ FtdiWanted(w, d) /\ ~(w.selected # {})
      BY <2>2, <3>4, Zenon DEF FtdiInterfaceStep
    <3> QED BY <3>1, <3>2, <3>3, <3>4
  <2>4. Kept("ftdi", Fail(w, InvalidInterface)) /\ Kept("ftdi", Fail(w, "stopped"))
    BY <1>1, FailKeeps DEF InvalidInterface
  <2>5. Kept("ftdi", here)
    BY <1>1, <2>2, EnterKeeps
  <2>6. Kept("ftdi", v)
    <3>1. "out" \in DOMAIN w /\ w.out # "ok" /\ {"in", "bulkOut"} \subseteq DOMAIN w
      BY <1>1, KeptSo DEF SlotsKept, Watched
    <3>2. DOMAIN v = DOMAIN w /\ v.out = w.out /\ v.in = {} /\ v.bulkOut = {}
      BY <2>2, <3>1
    <3>3. \A slot \in Watched("ftdi") : v[slot] = {}
      BY <3>2 DEF Watched
    <3> QED BY <1>1, <3>1, <3>2, <3>3, ChangeKeeps
  <2> QED BY <2>1, <2>3, <2>4, <2>5, <2>6
<1>4. CASE d.type = "endpoint" /\ within
  <2>1. FtdiStep(w, d) = FtdiEndpointStep(w, d)
    BY <1>2, <1>4 DEF FtdiStep
  <2>2. CASE ~ParseBulkEndpoint(d)
    <3>1. FtdiEndpointStep(w, d) = Fail(w, InvalidEndpoint)
      BY <2>2, Zenon DEF FtdiEndpointStep
    <3> QED BY <1>1, <2>1, <3>1, FailKeeps DEF InvalidEndpoint
  <2>3. CASE ParseBulkEndpoint(d)
    <3>1. PICK v, slot : v = [w EXCEPT !.seen = @ + 1] /\ slot = IF d.in THEN "in" ELSE "bulkOut"
      OBVIOUS
    <3>2. FtdiEndpointStep(w, d) = PutOnce(v, slot, d, InvalidEndpoint)
      BY <2>3, <3>1, Zenon DEF FtdiEndpointStep
    <3>3. Kept("ftdi", v)
      BY <1>1, <3>1, CountKeeps
    <3>4. Usable("ftdi", d) /\ slot # "out"
      BY <1>4, <2>3, <3>1, ParsedEndpoint DEF ParseBulkEndpoint, Walks
    <3> QED BY <1>1, <2>1, <3>2, <3>3, <3>4, PutKeeps DEF InvalidEndpoint
  <2> QED BY <2>2, <2>3
<1>5. CASE d.type # "interface" /\ ~(d.type = "endpoint" /\ within)
  <2>1. FtdiStep(w, d) = w
    BY <1>2, <1>5 DEF FtdiStep
  <2> QED BY <2>1
<1> QED BY <1>3, <1>4, <1>5

LEMMA TmcStepKeeps ==
    ASSUME NEW w, Kept("tmc", w), NEW d, Fine(d)
    PROVE  Kept("tmc", TmcStep(w, d))
<1>1. "tmc" \in Walks
  BY DEF Walks
<1>2. "out" \in DOMAIN w /\ w.out # "ok" /\ {"in", "bulkOut"} \subseteq DOMAIN w
  BY <1>1, KeptSo DEF SlotsKept, Watched
<1>3. CASE d.type = "interface"
  <2>1. PICK away, here :
            /\ away = [w EXCEPT !.within = FALSE]
            /\ here = [w EXCEPT !.within = TRUE, !.selected = {d}, !.in = {}, !.bulkOut = {},
                                !.interruptIn = {}]
    OBVIOUS
  <2>2. /\ DOMAIN away = DOMAIN w /\ away.out = w.out /\ away.in = w.in /\ away.bulkOut = w.bulkOut
        /\ DOMAIN here = DOMAIN w /\ here.out = w.out /\ here.in = {} /\ here.bulkOut = {}
    BY <1>2, <2>1
  <2>3. TmcStep(w, d) = TmcInterfaceStep(w, d)
    BY <1>3 DEF TmcStep
  <2>4. TmcInterfaceStep(w, d) \in {Fail(w, InvalidInterface), away, Fail(w, "stopped"), here}
    <3>1. CASE ~WellFormed(d)
      BY <3>1, Zenon DEF TmcInterfaceStep
    <3>2. CASE WellFormed(d) /\ ~(d.alt = 0 /\ d.class = "tmc")
      BY <2>1, <3>2, Zenon DEF TmcInterfaceStep
    <3>3. CASE WellFormed(d) /\ (d.alt = 0 /\ d.class = "tmc") /\ w.selected # {}
      BY <3>3, Zenon DEF TmcInterfaceStep
    <3>4. CASE WellFormed(d) /\ (d.alt = 0 /\ d.class = "tmc") /\ ~(w.selected # {})
      BY <2>1, <3>4, Zenon DEF TmcInterfaceStep
    <3> QED BY <3>1, <3>2, <3>3, <3>4
  <2>5. Kept("tmc", Fail(w, InvalidInterface)) /\ Kept("tmc", Fail(w, "stopped"))
    BY <1>1, FailKeeps DEF InvalidInterface
  <2>6. Kept("tmc", away) /\ Kept("tmc", here)
    <3>1. \A slot \in Watched("tmc") : away[slot] = w[slot] /\ here[slot] = {}
      BY <2>2 DEF Watched
    <3> QED BY <1>1, <1>2, <2>2, <3>1, ChangeKeeps
  <2> QED BY <2>3, <2>4, <2>5, <2>6
<1>4. CASE d.type = "endpoint" /\ w.within
  <2>1. TmcStep(w, d) = TmcEndpointStep(w, d)
    BY <1>4 DEF TmcStep
  <2>2. CASE ~ParseEndpoint(d)
    <3>1. TmcEndpointStep(w, d) = Fail(w, InvalidEndpoint)
      BY <2>2, Zenon DEF TmcEndpointStep
    <3> QED BY <1>1, <2>1, <3>1, FailKeeps DEF InvalidEndpoint
  <2>3. CASE ParseEndpoint(d) /\ d.kind = "bulk" /\ BulkSize(d.size)
    <3>1. PICK slot : slot = IF d.in THEN "in" ELSE "bulkOut"
      OBVIOUS
    <3>2. TmcEndpointStep(w, d) = PutOnce(w, slot, d, InvalidEndpoint)
      BY <2>3, <3>1, Zenon DEF TmcEndpointStep
    <3>3. Usable("tmc", d) /\ slot # "out"
      BY <1>4, <2>3, <3>1, ParsedEndpoint DEF Walks
    <3> QED BY <1>1, <2>1, <3>2, <3>3, PutKeeps DEF InvalidEndpoint
  <2>4. CASE ParseEndpoint(d) /\ ~(d.kind = "bulk" /\ BulkSize(d.size))
    <3>1. TmcEndpointStep(w, d) \in {Fail(w, InvalidEndpoint), PutOnce(w, "interruptIn", d, InvalidEndpoint)}
      BY <2>4, Zenon DEF TmcEndpointStep
    <3>2. "interruptIn" # "out" /\ "interruptIn" \notin Watched("tmc")
      BY DEF Watched
    <3>3. Kept("tmc", Fail(w, InvalidEndpoint)) /\ Kept("tmc", PutOnce(w, "interruptIn", d, InvalidEndpoint))
      BY <1>1, <3>2, FailKeeps, PutKeeps DEF InvalidEndpoint
    <3> QED BY <2>1, <3>1, <3>3
  <2> QED BY <2>2, <2>3, <2>4
<1>5. CASE d.type # "interface" /\ ~(d.type = "endpoint" /\ w.within)
  <2>1. TmcStep(w, d) = w
    BY <1>5 DEF TmcStep
  <2> QED BY <2>1
<1> QED BY <1>3, <1>4, <1>5

LEMMA ControlStepKeeps ==
    ASSUME NEW w, Kept("control", w), NEW d, Fine(d)
    PROVE  Kept("control", ControlStep(w, d))
<1>1. "control" \in Walks
  BY DEF Walks
<1>2. CASE d.type = "interface"
  <2>1. ControlStep(w, d) = EnterInterface(w, d)
    BY <1>2 DEF ControlStep
  <2> QED BY <1>1, <2>1, InterfaceKeeps
<1>3. CASE d.type = "class" /\ InWanted(w, "acm")
  <2>1. ControlStep(w, d) = Functional(w, d)
    BY <1>3 DEF ControlStep
  <2>2. PICK v : v = [w EXCEPT !["functional"] = TRUE]
    OBVIOUS
  <2>3. Kept("control", v)
    BY <1>1, <2>2, SetKeeps DEF Watched
  <2>4. CASE ~SoundFunctional(d) \/ (~w.functional /\ d.sub # "header")
    <3>1. Functional(w, d) = Fail(w, BadFunctional)
      BY <2>4, Zenon DEF Functional
    <3> QED BY <1>1, <2>1, <3>1, FailKeeps DEF BadFunctional
  <2>5. CASE ~(~SoundFunctional(d) \/ (~w.functional /\ d.sub # "header"))
    <3>1. CASE d.sub \in {"header", "call", "acm", "union"}
      <4>1. Functional(w, d) = PutOnce(v, d.sub, d, BadFunctional)
        BY <2>2, <2>5, <3>1, Zenon DEF Functional
      <4>2. d.sub # "out" /\ (d.sub \in Watched("control") => Usable("control", d))
        BY <1>3, <3>1 DEF Watched, Usable, Fine
      <4> QED BY <1>1, <2>1, <2>3, <4>1, <4>2, PutKeeps DEF BadFunctional
    <3>2. CASE d.sub \notin {"header", "call", "acm", "union"}
      <4>1. Functional(w, d) = v
        BY <2>2, <2>5, <3>2, Zenon DEF Functional
      <4> QED BY <2>1, <2>3, <4>1
    <3> QED BY <3>1, <3>2
  <2> QED BY <2>4, <2>5
<1>4. CASE d.type = "endpoint" /\ InWanted(w, "acm")
  <2>1. ControlStep(w, d) = NotificationEndpoint(w, d)
    BY <1>4 DEF ControlStep
  <2>2. PICK v : v = [w EXCEPT !.seen = @ + 1]
    OBVIOUS
  <2>3. Kept("control", v)
    BY <1>1, <2>2, CountKeeps
  <2>4. NotificationEndpoint(w, d) \in {Fail(w, BadEndpoint), PutOnce(v, "notification", d, BadEndpoint)}
    BY <2>2, Zenon DEF NotificationEndpoint
  <2>5. Kept("control", Fail(w, BadEndpoint)) /\ Kept("control", PutOnce(v, "notification", d, BadEndpoint))
    BY <1>1, <2>3, FailKeeps, PutKeeps DEF BadEndpoint, Watched
  <2> QED BY <2>1, <2>4, <2>5
<1>5. CASE d.type # "interface" /\ ~(d.type \in {"class", "endpoint"} /\ InWanted(w, "acm"))
  <2>1. ControlStep(w, d) = w
    BY <1>5 DEF ControlStep
  <2> QED BY <2>1
<1> QED BY <1>2, <1>3, <1>4, <1>5

LEMMA RunKeeps ==
    ASSUME NEW kind, NEW ctx, NEW start, NEW s, NEW n \in Nat, NEW f, Run(f, kind, ctx, start, s, n),
           Kept(kind, start),
           \A i \in 1 .. n : \A w : Kept(kind, w) => Kept(kind, StepOf(kind, ctx, w, s[i]))
    PROVE  Kept(kind, f[n])
<1> DEFINE T == {k \in 0 .. n : ~Kept(kind, f[k])}
<1>1. SUFFICES ASSUME T # {} PROVE FALSE
  OBVIOUS
<1>2. PICK m \in T : \A k \in T : m <= k
  <2>1. T \subseteq Nat
    OBVIOUS
  <2> HIDE DEF T
  <2> QED BY <1>1, <2>1, LeastOf
<1>3. m \in 0 .. n /\ ~Kept(kind, f[m])
  BY <1>2
<1>4. f[0] = start /\ \A i \in 1 .. n : f[i] = StepOf(kind, ctx, f[i - 1], s[i])
  BY RunUnfolds
<1>5. m \in 1 .. n
  BY <1>3, <1>4
<1>6. m - 1 \in 0 .. n /\ ~(m <= m - 1)
  BY <1>5
<1>7. Kept(kind, f[m - 1])
  BY <1>2, <1>6
<1> QED BY <1>3, <1>4, <1>5, <1>7

LEMMA WalkStepKeeps ==
    ASSUME NEW kind \in Walks, NEW ctx, NEW d, Fine(d), NEW w, Kept(kind, w)
    PROVE  Kept(kind, StepOf(kind, ctx, w, d))
<1>1. CASE Ended(w)
  <2>1. StepOf(kind, ctx, w, d) = w
    BY <1>1 DEF StepOf, Walks
  <2> QED BY <2>1
<1>2. CASE ~Ended(w) /\ kind = "data"
  <2>1. StepOf(kind, ctx, w, d) = DataStep(w, d)
    BY <1>2 DEF StepOf
  <2> QED BY <1>2, <2>1, DataStepKeeps
<1>3. CASE ~Ended(w) /\ kind = "control"
  <2>1. StepOf(kind, ctx, w, d) = ControlStep(w, d)
    BY <1>3 DEF StepOf
  <2> QED BY <1>3, <2>1, ControlStepKeeps
<1>4. CASE ~Ended(w) /\ kind = "ftdi"
  <2>1. StepOf(kind, ctx, w, d) = FtdiStep(w, d)
    BY <1>4 DEF StepOf
  <2> QED BY <1>4, <2>1, FtdiStepKeeps
<1>5. CASE ~Ended(w) /\ kind = "tmc"
  <2>1. StepOf(kind, ctx, w, d) = TmcStep(w, d)
    BY <1>5 DEF StepOf
  <2> QED BY <1>5, <2>1, TmcStepKeeps
<1> QED BY <1>1, <1>2, <1>3, <1>4, <1>5 DEF Walks

LEMMA OnlyOne ==
    ASSUME NEW x
    PROVE  Only({x}) = x
  BY DEF Only

(* The iterator yields the first descriptors of the list.                  *)
LEMMA FramesAreCut ==
    ASSUME NEW conf, NEW S, conf.list \in Seq(S)
    PROVE  Frames(conf).list \in Seq(S) /\ Frames(conf).error # "ok"
<1>1. PICK ends : ends = Ends(conf.list)
  OBVIOUS
<1>2. PICK cut : cut = Cut(conf, ends)
  OBVIOUS
<1>3. {Cut(conf, e) : e \in {Ends(conf.list)}} = {cut}
  BY <1>1, <1>2
<1>4. Frames(conf) = cut
  BY <1>3, OnlyOne, Zenon DEF Frames
<1>5. PICK list, stops : list = conf.list
          /\ stops = {i \in DOMAIN list : list[i].len < 2 \/ ends[i + 1] > conf.total}
  OBVIOUS
<1>6. PICK n : n = IF stops = {} THEN Len(list) ELSE Min(stops) - 1
  OBVIOUS
<1>7. list \in Seq(S) /\ Len(list) \in Nat /\ DOMAIN list = 1 .. Len(list)
  BY <1>5, LenProperties
<1>8. n \in 0 .. Len(list)
  <2>1. CASE stops = {}
    BY <1>6, <1>7, <2>1
  <2>2. CASE stops # {}
    <3>1. stops \subseteq Nat /\ stops \subseteq 1 .. Len(list)
      BY <1>5, <1>7
    <3>2. Min(stops) \in 1 .. Len(list)
      BY <2>2, <3>1, LeastOf
    <3> QED BY <1>6, <1>7, <2>2, <3>2
  <2> QED BY <2>1, <2>2
<1>9. cut.list = SubSeq(list, 1, n)
  BY <1>2, <1>5, <1>6, Zenon DEF Cut
<1>10. SubSeq(list, 1, n) \in Seq(S)
  <2>1. n \in 1 .. Len(list) \/ n = 0
    BY <1>7, <1>8
  <2> QED BY <1>7, <2>1, SubSeqProperties, EmptySeq
<1>11. cut.error # "ok"
  <2>1. PICK short, error : short = conf.total - ends[n + 1]
                /\ error = IF short = 0 THEN "none"
                           ELSE IF short >= 2 /\ list[n + 1].len < 2 THEN "InvalidDescriptorLength"
                           ELSE "DescriptorOverrun"
    OBVIOUS
  <2>2. cut.error = error
    BY <1>2, <1>5, <1>6, <2>1, Zenon DEF Cut
  <2> QED BY <2>1, <2>2
<1> QED BY <1>4, <1>9, <1>10, <1>11

LEMMA IterNotOk ==
    ASSUME NEW conf
    PROVE  IterError(conf) # "ok"
<1>1. HeaderError(conf) # "ok"
  BY DEF HeaderError
<1> QED BY <1>1 DEF IterError

(* What a walk leaves when it is over.                                     *)
LEMMA EndOfWalk ==
    ASSUME NEW kind \in Walks, NEW conf, NEW S, \A d \in S : Fine(d), conf.list \in Seq(S),
           NEW start, Kept(kind, start), NEW n \in Nat, n = Len(Frames(conf).list),
           NEW f, Run(f, kind, conf, start, Frames(conf).list, n)
    PROVE  Kept(kind, IF Ended(f[n]) THEN f[n] ELSE Fail(f[n], Frames(conf).error))
<1>1. Frames(conf).list \in Seq(S) /\ Frames(conf).error # "ok"
  BY FramesAreCut
<1>2. \A i \in 1 .. n : Fine(Frames(conf).list[i])
  BY <1>1
<1>3. \A i \in 1 .. n : \A w : Kept(kind, w) => Kept(kind, StepOf(kind, conf, w, Frames(conf).list[i]))
  BY <1>2, WalkStepKeeps
<1>4. Kept(kind, f[n])
  BY <1>3, RunKeeps
<1>5. Kept(kind, Fail(f[n], Frames(conf).error))
  BY <1>1, <1>4, FailKeeps
<1> QED BY <1>4, <1>5

DataRun(f, start, s, n) ==
    f = [i \in 0 .. n |->
            IF i = 0 THEN start
            ELSE IF Ended(f[i - 1]) THEN f[i - 1] ELSE DataStep(f[i - 1], s[i])]

DataEnd(start, s) == (CHOOSE f : DataRun(f, start, s, Len(s)))[Len(s)]

LEMMA DataWalkEnds ==
    ASSUME NEW start, NEW conf, IterError(conf) = "none"
    PROVE  Walk(DataStep, start, conf) =
               IF Ended(DataEnd(start, Frames(conf).list)) THEN DataEnd(start, Frames(conf).list)
               ELSE Fail(DataEnd(start, Frames(conf).list), Frames(conf).error)
  BY Zenon DEF Walk, DataEnd, DataRun

LEMMA DataRuns ==
    ASSUME NEW conf, NEW start, NEW s, NEW n \in Nat, NEW f
    PROVE  DataRun(f, start, s, n) <=> Run(f, "data", conf, start, s, n)
<1>1. \A i \in 1 .. n : (IF Ended(f[i - 1]) THEN f[i - 1] ELSE DataStep(f[i - 1], s[i]))
                        = StepOf("data", conf, f[i - 1], s[i])
  BY DEF StepOf
<1>2. ASSUME DataRun(f, start, s, n) PROVE Run(f, "data", conf, start, s, n)
  <2>1. f = [i \in 0 .. n |-> f[i]] /\ f[0] = start
    BY <1>2 DEF DataRun
  <2>2. \A i \in 1 .. n : f[i] = IF Ended(f[i - 1]) THEN f[i - 1] ELSE DataStep(f[i - 1], s[i])
    BY <1>2 DEF DataRun
  <2> QED BY <1>1, <2>1, <2>2, RunFolds
<1>3. ASSUME Run(f, "data", conf, start, s, n) PROVE DataRun(f, start, s, n)
  <2>1. f = [i \in 0 .. n |-> f[i]]
    BY <1>3 DEF Run
  <2>2. f[0] = start /\ \A i \in 1 .. n : f[i] = IF Ended(f[i - 1]) THEN f[i - 1] ELSE DataStep(f[i - 1], s[i])
    BY <1>1, <1>3, RunUnfolds
  <2>3. ASSUME NEW i \in 0 .. n
        PROVE  f[i] = IF i = 0 THEN start
                      ELSE IF Ended(f[i - 1]) THEN f[i - 1] ELSE DataStep(f[i - 1], s[i])
    <3>1. CASE i = 0
      BY <2>2, <3>1, Zenon
    <3>2. CASE i # 0
      <4>1. i \in 1 .. n
        BY <3>2
      <4> QED BY <2>2, <3>2, <4>1, Zenon
    <3> QED BY <3>1, <3>2
  <2> QED BY <2>1, <2>3, Zenon DEF DataRun
<1> QED BY <1>2, <1>3

LEMMA DataWalkKeeps ==
    ASSUME NEW conf, NEW S, \A d \in S : Fine(d), conf.list \in Seq(S), NEW start, Kept("data", start)
    PROVE  Kept("data", Walk(DataStep, start, conf))
<1>1. "data" \in Walks
  BY DEF Walks
<1>2. CASE IterError(conf) # "none"
  <2>1. Walk(DataStep, start, conf) = Fail(start, IterError(conf))
    BY <1>2, Zenon DEF Walk
  <2> QED BY <1>1, <2>1, IterNotOk, FailKeeps
<1>3. CASE IterError(conf) = "none"
  <2>1. PICK list, n : list = Frames(conf).list /\ n = Len(list)
    OBVIOUS
  <2>2. n \in Nat
    BY <2>1, FramesAreCut, LenProperties
  <2>3. PICK g : g = CHOOSE f : DataRun(f, start, list, n)
    OBVIOUS
  <2>4. \E f : DataRun(f, start, list, n)
    BY <2>2, RunExists, DataRuns
  <2>5. DataRun(g, start, list, n)
    BY <2>3, <2>4
  <2>6. Run(g, "data", conf, start, list, n)
    BY <2>2, <2>5, DataRuns
  <2>7. DataEnd(start, list) = g[n]
    BY <2>1, <2>3, Zenon DEF DataEnd
  <2>8. Kept("data", IF Ended(g[n]) THEN g[n] ELSE Fail(g[n], Frames(conf).error))
    BY <1>1, <2>1, <2>2, <2>6, EndOfWalk
  <2> QED BY <1>3, <2>1, <2>7, <2>8, DataWalkEnds
<1> QED BY <1>2, <1>3

ControlRun(f, start, s, n) ==
    f = [i \in 0 .. n |->
            IF i = 0 THEN start
            ELSE IF Ended(f[i - 1]) THEN f[i - 1] ELSE ControlStep(f[i - 1], s[i])]

ControlEnd(start, s) == (CHOOSE f : ControlRun(f, start, s, Len(s)))[Len(s)]

LEMMA ControlWalkEnds ==
    ASSUME NEW start, NEW conf, IterError(conf) = "none"
    PROVE  Walk(ControlStep, start, conf) =
               IF Ended(ControlEnd(start, Frames(conf).list)) THEN ControlEnd(start, Frames(conf).list)
               ELSE Fail(ControlEnd(start, Frames(conf).list), Frames(conf).error)
  BY Zenon DEF Walk, ControlEnd, ControlRun

LEMMA ControlRuns ==
    ASSUME NEW conf, NEW start, NEW s, NEW n \in Nat, NEW f
    PROVE  ControlRun(f, start, s, n) <=> Run(f, "control", conf, start, s, n)
<1>1. \A i \in 1 .. n : (IF Ended(f[i - 1]) THEN f[i - 1] ELSE ControlStep(f[i - 1], s[i]))
                        = StepOf("control", conf, f[i - 1], s[i])
  BY DEF StepOf
<1>2. ASSUME ControlRun(f, start, s, n) PROVE Run(f, "control", conf, start, s, n)
  <2>1. f = [i \in 0 .. n |-> f[i]] /\ f[0] = start
    BY <1>2 DEF ControlRun
  <2>2. \A i \in 1 .. n : f[i] = IF Ended(f[i - 1]) THEN f[i - 1] ELSE ControlStep(f[i - 1], s[i])
    BY <1>2 DEF ControlRun
  <2> QED BY <1>1, <2>1, <2>2, RunFolds
<1>3. ASSUME Run(f, "control", conf, start, s, n) PROVE ControlRun(f, start, s, n)
  <2>1. f = [i \in 0 .. n |-> f[i]]
    BY <1>3 DEF Run
  <2>2. f[0] = start /\ \A i \in 1 .. n : f[i] = IF Ended(f[i - 1]) THEN f[i - 1] ELSE ControlStep(f[i - 1], s[i])
    BY <1>1, <1>3, RunUnfolds
  <2>3. ASSUME NEW i \in 0 .. n
        PROVE  f[i] = IF i = 0 THEN start
                      ELSE IF Ended(f[i - 1]) THEN f[i - 1] ELSE ControlStep(f[i - 1], s[i])
    <3>1. CASE i = 0
      BY <2>2, <3>1, Zenon
    <3>2. CASE i # 0
      <4>1. i \in 1 .. n
        BY <3>2
      <4> QED BY <2>2, <3>2, <4>1, Zenon
    <3> QED BY <3>1, <3>2
  <2> QED BY <2>1, <2>3, Zenon DEF ControlRun
<1> QED BY <1>2, <1>3

LEMMA ControlWalkKeeps ==
    ASSUME NEW conf, NEW S, \A d \in S : Fine(d), conf.list \in Seq(S), NEW start, Kept("control", start)
    PROVE  Kept("control", Walk(ControlStep, start, conf))
<1>1. "control" \in Walks
  BY DEF Walks
<1>2. CASE IterError(conf) # "none"
  <2>1. Walk(ControlStep, start, conf) = Fail(start, IterError(conf))
    BY <1>2, Zenon DEF Walk
  <2> QED BY <1>1, <2>1, IterNotOk, FailKeeps
<1>3. CASE IterError(conf) = "none"
  <2>1. PICK list, n : list = Frames(conf).list /\ n = Len(list)
    OBVIOUS
  <2>2. n \in Nat
    BY <2>1, FramesAreCut, LenProperties
  <2>3. PICK g : g = CHOOSE f : ControlRun(f, start, list, n)
    OBVIOUS
  <2>4. \E f : ControlRun(f, start, list, n)
    BY <2>2, RunExists, ControlRuns
  <2>5. ControlRun(g, start, list, n)
    BY <2>3, <2>4
  <2>6. Run(g, "control", conf, start, list, n)
    BY <2>2, <2>5, ControlRuns
  <2>7. ControlEnd(start, list) = g[n]
    BY <2>1, <2>3, Zenon DEF ControlEnd
  <2>8. Kept("control", IF Ended(g[n]) THEN g[n] ELSE Fail(g[n], Frames(conf).error))
    BY <1>1, <2>1, <2>2, <2>6, EndOfWalk
  <2> QED BY <1>3, <2>1, <2>7, <2>8, ControlWalkEnds
<1> QED BY <1>2, <1>3

FtdiRun(f, start, s, n) ==
    f = [i \in 0 .. n |->
            IF i = 0 THEN start
            ELSE IF Ended(f[i - 1]) THEN f[i - 1] ELSE FtdiStep(f[i - 1], s[i])]

FtdiEnd(start, s) == (CHOOSE f : FtdiRun(f, start, s, Len(s)))[Len(s)]

LEMMA FtdiWalkEnds ==
    ASSUME NEW start, NEW conf, IterError(conf) = "none"
    PROVE  Walk(FtdiStep, start, conf) =
               IF Ended(FtdiEnd(start, Frames(conf).list)) THEN FtdiEnd(start, Frames(conf).list)
               ELSE Fail(FtdiEnd(start, Frames(conf).list), Frames(conf).error)
  BY Zenon DEF Walk, FtdiEnd, FtdiRun

LEMMA FtdiRuns ==
    ASSUME NEW conf, NEW start, NEW s, NEW n \in Nat, NEW f
    PROVE  FtdiRun(f, start, s, n) <=> Run(f, "ftdi", conf, start, s, n)
<1>1. \A i \in 1 .. n : (IF Ended(f[i - 1]) THEN f[i - 1] ELSE FtdiStep(f[i - 1], s[i]))
                        = StepOf("ftdi", conf, f[i - 1], s[i])
  BY DEF StepOf
<1>2. ASSUME FtdiRun(f, start, s, n) PROVE Run(f, "ftdi", conf, start, s, n)
  <2>1. f = [i \in 0 .. n |-> f[i]] /\ f[0] = start
    BY <1>2 DEF FtdiRun
  <2>2. \A i \in 1 .. n : f[i] = IF Ended(f[i - 1]) THEN f[i - 1] ELSE FtdiStep(f[i - 1], s[i])
    BY <1>2 DEF FtdiRun
  <2> QED BY <1>1, <2>1, <2>2, RunFolds
<1>3. ASSUME Run(f, "ftdi", conf, start, s, n) PROVE FtdiRun(f, start, s, n)
  <2>1. f = [i \in 0 .. n |-> f[i]]
    BY <1>3 DEF Run
  <2>2. f[0] = start /\ \A i \in 1 .. n : f[i] = IF Ended(f[i - 1]) THEN f[i - 1] ELSE FtdiStep(f[i - 1], s[i])
    BY <1>1, <1>3, RunUnfolds
  <2>3. ASSUME NEW i \in 0 .. n
        PROVE  f[i] = IF i = 0 THEN start
                      ELSE IF Ended(f[i - 1]) THEN f[i - 1] ELSE FtdiStep(f[i - 1], s[i])
    <3>1. CASE i = 0
      BY <2>2, <3>1, Zenon
    <3>2. CASE i # 0
      <4>1. i \in 1 .. n
        BY <3>2
      <4> QED BY <2>2, <3>2, <4>1, Zenon
    <3> QED BY <3>1, <3>2
  <2> QED BY <2>1, <2>3, Zenon DEF FtdiRun
<1> QED BY <1>2, <1>3

LEMMA FtdiWalkKeeps ==
    ASSUME NEW conf, NEW S, \A d \in S : Fine(d), conf.list \in Seq(S), NEW start, Kept("ftdi", start)
    PROVE  Kept("ftdi", Walk(FtdiStep, start, conf))
<1>1. "ftdi" \in Walks
  BY DEF Walks
<1>2. CASE IterError(conf) # "none"
  <2>1. Walk(FtdiStep, start, conf) = Fail(start, IterError(conf))
    BY <1>2, Zenon DEF Walk
  <2> QED BY <1>1, <2>1, IterNotOk, FailKeeps
<1>3. CASE IterError(conf) = "none"
  <2>1. PICK list, n : list = Frames(conf).list /\ n = Len(list)
    OBVIOUS
  <2>2. n \in Nat
    BY <2>1, FramesAreCut, LenProperties
  <2>3. PICK g : g = CHOOSE f : FtdiRun(f, start, list, n)
    OBVIOUS
  <2>4. \E f : FtdiRun(f, start, list, n)
    BY <2>2, RunExists, FtdiRuns
  <2>5. FtdiRun(g, start, list, n)
    BY <2>3, <2>4
  <2>6. Run(g, "ftdi", conf, start, list, n)
    BY <2>2, <2>5, FtdiRuns
  <2>7. FtdiEnd(start, list) = g[n]
    BY <2>1, <2>3, Zenon DEF FtdiEnd
  <2>8. Kept("ftdi", IF Ended(g[n]) THEN g[n] ELSE Fail(g[n], Frames(conf).error))
    BY <1>1, <2>1, <2>2, <2>6, EndOfWalk
  <2> QED BY <1>3, <2>1, <2>7, <2>8, FtdiWalkEnds
<1> QED BY <1>2, <1>3

TmcRun(f, start, s, n) ==
    f = [i \in 0 .. n |->
            IF i = 0 THEN start
            ELSE IF Ended(f[i - 1]) THEN f[i - 1] ELSE TmcStep(f[i - 1], s[i])]

TmcEnd(start, s) == (CHOOSE f : TmcRun(f, start, s, Len(s)))[Len(s)]

LEMMA TmcWalkEnds ==
    ASSUME NEW start, NEW conf, IterError(conf) = "none"
    PROVE  Walk(TmcStep, start, conf) =
               IF Ended(TmcEnd(start, Frames(conf).list)) THEN TmcEnd(start, Frames(conf).list)
               ELSE Fail(TmcEnd(start, Frames(conf).list), Frames(conf).error)
  BY Zenon DEF Walk, TmcEnd, TmcRun

LEMMA TmcRuns ==
    ASSUME NEW conf, NEW start, NEW s, NEW n \in Nat, NEW f
    PROVE  TmcRun(f, start, s, n) <=> Run(f, "tmc", conf, start, s, n)
<1>1. \A i \in 1 .. n : (IF Ended(f[i - 1]) THEN f[i - 1] ELSE TmcStep(f[i - 1], s[i]))
                        = StepOf("tmc", conf, f[i - 1], s[i])
  BY DEF StepOf
<1>2. ASSUME TmcRun(f, start, s, n) PROVE Run(f, "tmc", conf, start, s, n)
  <2>1. f = [i \in 0 .. n |-> f[i]] /\ f[0] = start
    BY <1>2 DEF TmcRun
  <2>2. \A i \in 1 .. n : f[i] = IF Ended(f[i - 1]) THEN f[i - 1] ELSE TmcStep(f[i - 1], s[i])
    BY <1>2 DEF TmcRun
  <2> QED BY <1>1, <2>1, <2>2, RunFolds
<1>3. ASSUME Run(f, "tmc", conf, start, s, n) PROVE TmcRun(f, start, s, n)
  <2>1. f = [i \in 0 .. n |-> f[i]]
    BY <1>3 DEF Run
  <2>2. f[0] = start /\ \A i \in 1 .. n : f[i] = IF Ended(f[i - 1]) THEN f[i - 1] ELSE TmcStep(f[i - 1], s[i])
    BY <1>1, <1>3, RunUnfolds
  <2>3. ASSUME NEW i \in 0 .. n
        PROVE  f[i] = IF i = 0 THEN start
                      ELSE IF Ended(f[i - 1]) THEN f[i - 1] ELSE TmcStep(f[i - 1], s[i])
    <3>1. CASE i = 0
      BY <2>2, <3>1, Zenon
    <3>2. CASE i # 0
      <4>1. i \in 1 .. n
        BY <3>2
      <4> QED BY <2>2, <3>2, <4>1, Zenon
    <3> QED BY <3>1, <3>2
  <2> QED BY <2>1, <2>3, Zenon DEF TmcRun
<1> QED BY <1>2, <1>3

LEMMA TmcWalkKeeps ==
    ASSUME NEW conf, NEW S, \A d \in S : Fine(d), conf.list \in Seq(S), NEW start, Kept("tmc", start)
    PROVE  Kept("tmc", Walk(TmcStep, start, conf))
<1>1. "tmc" \in Walks
  BY DEF Walks
<1>2. CASE IterError(conf) # "none"
  <2>1. Walk(TmcStep, start, conf) = Fail(start, IterError(conf))
    BY <1>2, Zenon DEF Walk
  <2> QED BY <1>1, <2>1, IterNotOk, FailKeeps
<1>3. CASE IterError(conf) = "none"
  <2>1. PICK list, n : list = Frames(conf).list /\ n = Len(list)
    OBVIOUS
  <2>2. n \in Nat
    BY <2>1, FramesAreCut, LenProperties
  <2>3. PICK g : g = CHOOSE f : TmcRun(f, start, list, n)
    OBVIOUS
  <2>4. \E f : TmcRun(f, start, list, n)
    BY <2>2, RunExists, TmcRuns
  <2>5. TmcRun(g, start, list, n)
    BY <2>3, <2>4
  <2>6. Run(g, "tmc", conf, start, list, n)
    BY <2>2, <2>5, TmcRuns
  <2>7. TmcEnd(start, list) = g[n]
    BY <2>1, <2>3, Zenon DEF TmcEnd
  <2>8. Kept("tmc", IF Ended(g[n]) THEN g[n] ELSE Fail(g[n], Frames(conf).error))
    BY <1>1, <2>1, <2>2, <2>6, EndOfWalk
  <2> QED BY <1>3, <2>1, <2>7, <2>8, TmcWalkEnds
<1> QED BY <1>2, <1>3

(* What the discoveries return.                                            *)
Sound(conf) == \E S : (\A d \in S : Fine(d)) /\ conf.list \in Seq(S)

LEMMA ErrorIsNoPair ==
    ASSUME NEW error, error # "ok"
    PROVE  Pair([out |-> error])
  BY DEF Pair

LEMMA FullPair ==
    ASSUME NEW r, r.out = "ok" => r.bulkIn # {} /\ r.bulkOut # {},
           \A d \in r.bulkIn \cup r.bulkOut : BulkEnd(d)
    PROVE  Pair(r)
  BY DEF Pair

LEMMA DataIsPair ==
    ASSUME NEW conf, NEW n, Sound(conf)
    PROVE  Pair(DiscoverData(conf, n))
<1>1. PICK S : (\A d \in S : Fine(d)) /\ conf.list \in Seq(S)
  BY DEF Sound
<1>2. PICK end : end = Walk(DataStep, StartData(n), conf)
  OBVIOUS
<1>3. Kept("data", StartData(n))
  <2>1. PICK start : start = StartData(n)
    OBVIOUS
  <2>2. {"in", "bulkOut", "out"} \subseteq DOMAIN start /\ start.out = "none" /\ start.in = {} /\ start.bulkOut = {}
    BY <2>1 DEF StartData
  <2> QED BY <2>1, <2>2, KeptSo DEF SlotsKept, Watched, Walks
<1>4. Kept("data", end)
  BY <1>1, <1>2, <1>3, DataWalkKeeps
<1>5. end.out # "ok" /\ \A d \in end.in \cup end.bulkOut : BulkEnd(d)
  BY <1>4, KeptSo DEF SlotsKept, Watched, Usable, Walks
<1>6. {DataResult(e, n) : e \in {Walk(DataStep, StartData(n), conf)}} = {DataResult(end, n)}
  BY <1>2
<1>7. DiscoverData(conf, n) = DataResult(end, n)
  BY <1>6, OnlyOne, Zenon DEF DiscoverData
<1>8. PICK r : r = DataResult(end, n)
  OBVIOUS
<1>9. r.bulkIn = end.in /\ r.bulkOut = end.bulkOut
  BY <1>8 DEF DataResult
<1>10. r.out = "ok" => end.in # {} /\ end.bulkOut # {}
  BY <1>5, <1>8 DEF DataResult, BadEndpoint
<1> QED BY <1>5, <1>7, <1>8, <1>9, <1>10, FullPair

LEMMA FtdiIsPair ==
    ASSUME NEW device, NEW conf, NEW requested, Sound(conf)
    PROVE  Pair(DiscoverFtdi(device, conf, requested))
<1>1. PICK S : (\A d \in S : Fine(d)) /\ conf.list \in Seq(S)
  BY DEF Sound
<1>2. PICK end : end = Walk(FtdiStep, StartFtdi(requested), conf)
  OBVIOUS
<1>3. Kept("ftdi", StartFtdi(requested))
  <2>1. PICK start : start = StartFtdi(requested)
    OBVIOUS
  <2>2. {"in", "bulkOut", "out"} \subseteq DOMAIN start /\ start.out = "none" /\ start.in = {} /\ start.bulkOut = {}
    BY <2>1 DEF StartFtdi
  <2> QED BY <2>1, <2>2, KeptSo DEF SlotsKept, Watched, Walks
<1>4. Kept("ftdi", end)
  BY <1>1, <1>2, <1>3, FtdiWalkKeeps
<1>5. end.out # "ok" /\ \A d \in end.in \cup end.bulkOut : BulkEnd(d)
  BY <1>4, KeptSo DEF SlotsKept, Watched, Usable, Walks
<1>6. {FtdiResult(device, e) : e \in {Walk(FtdiStep, StartFtdi(requested), conf)}} = {FtdiResult(device, end)}
  BY <1>2
<1>7. DiscoverFtdi(device, conf, requested) = FtdiResult(device, end)
  BY <1>6, OnlyOne, Zenon DEF DiscoverFtdi
<1>8. PICK r : r = FtdiResult(device, end)
  OBVIOUS
<1>9. r.bulkIn = end.in /\ r.bulkOut = end.bulkOut
  BY <1>8 DEF FtdiResult
<1>10. r.out = "ok" => end.in # {} /\ end.bulkOut # {}
  BY <1>5, <1>8 DEF FtdiResult, InvalidEndpoint
<1> QED BY <1>5, <1>7, <1>8, <1>9, <1>10, FullPair

LEMMA TmcIsPair ==
    ASSUME NEW conf, Sound(conf)
    PROVE  Pair(DiscoverTmc(conf))
<1>1. PICK S : (\A d \in S : Fine(d)) /\ conf.list \in Seq(S)
  BY DEF Sound
<1>2. PICK end : end = Walk(TmcStep, StartTmc, conf)
  OBVIOUS
<1>3. Kept("tmc", StartTmc)
  <2>1. PICK start : start = StartTmc
    OBVIOUS
  <2>2. {"in", "bulkOut", "out"} \subseteq DOMAIN start /\ start.out = "none" /\ start.in = {} /\ start.bulkOut = {}
    BY <2>1 DEF StartTmc
  <2> QED BY <2>1, <2>2, KeptSo DEF SlotsKept, Watched, Walks
<1>4. Kept("tmc", end)
  BY <1>1, <1>2, <1>3, TmcWalkKeeps
<1>5. end.out # "ok" /\ \A d \in end.in \cup end.bulkOut : BulkEnd(d)
  BY <1>4, KeptSo DEF SlotsKept, Watched, Usable, Walks
<1>6. {TmcResult(e) : e \in {Walk(TmcStep, StartTmc, conf)}} = {TmcResult(end)}
  BY <1>2
<1>7. DiscoverTmc(conf) = TmcResult(end)
  BY <1>6, OnlyOne, Zenon DEF DiscoverTmc
<1>8. PICK r : r = TmcResult(end)
  OBVIOUS
<1>9. r.bulkIn = end.in /\ r.bulkOut = end.bulkOut
  BY <1>8 DEF TmcResult
<1>10. r.out = "ok" => end.in # {} /\ end.bulkOut # {}
  BY <1>5, <1>8 DEF TmcResult
<1> QED BY <1>5, <1>7, <1>8, <1>9, <1>10, FullPair

(* The data interface is one of those asked for, or there is none.         *)
PickRun(f, conf, s, n) ==
    f = [i \in 0 .. n |->
            IF i = 0 THEN [out |-> "MissingDataInterface"]
            ELSE Only({PickData(f[i - 1], data) : data \in {DiscoverData(conf, s[i])}})]

PickEnd(conf, s) == (CHOOSE f : PickRun(f, conf, s, Len(s)))[Len(s)]

LEMMA PickRuns ==
    ASSUME NEW conf, NEW s, NEW n \in Nat, NEW f
    PROVE  PickRun(f, conf, s, n) <=> Run(f, "pick", conf, [out |-> "MissingDataInterface"], s, n)
<1>1. \A i \in 1 .. n : Only({PickData(f[i - 1], data) : data \in {DiscoverData(conf, s[i])}})
                        = StepOf("pick", conf, f[i - 1], s[i])
  BY DEF StepOf
<1>2. PICK start : start = [out |-> "MissingDataInterface"]
  OBVIOUS
<1>3. ASSUME PickRun(f, conf, s, n) PROVE Run(f, "pick", conf, start, s, n)
  <2>1. f = [i \in 0 .. n |-> f[i]] /\ f[0] = start
    BY <1>2, <1>3 DEF PickRun
  <2>2. \A i \in 1 .. n : f[i] = Only({PickData(f[i - 1], data) : data \in {DiscoverData(conf, s[i])}})
    <3> SUFFICES ASSUME NEW i \in 1 .. n
                 PROVE  f[i] = Only({PickData(f[i - 1], data) : data \in {DiscoverData(conf, s[i])}})
      OBVIOUS
    <3>1. i \in 0 .. n /\ i # 0
      OBVIOUS
    <3> QED BY <1>3, <3>1, Zenon DEF PickRun
  <2> QED BY <1>1, <2>1, <2>2, RunFolds
<1>4. ASSUME Run(f, "pick", conf, start, s, n) PROVE PickRun(f, conf, s, n)
  <2>1. f = [i \in 0 .. n |-> f[i]]
    BY <1>4 DEF Run
  <2>2. /\ f[0] = start
        /\ \A i \in 1 .. n : f[i] = Only({PickData(f[i - 1], data) : data \in {DiscoverData(conf, s[i])}})
    BY <1>1, <1>4, RunUnfolds
  <2>3. ASSUME NEW i \in 0 .. n
        PROVE  f[i] = IF i = 0 THEN [out |-> "MissingDataInterface"]
                      ELSE Only({PickData(f[i - 1], data) : data \in {DiscoverData(conf, s[i])}})
    <3>1. CASE i = 0
      BY <1>2, <2>2, <3>1, Zenon
    <3>2. CASE i # 0
      <4>1. i \in 1 .. n
        BY <3>2
      <4> QED BY <2>2, <3>2, <4>1, Zenon
    <3> QED BY <3>1, <3>2
  <2> QED BY <2>1, <2>3, Zenon DEF PickRun
<1> QED BY <1>2, <1>3, <1>4

LEMMA PickKeeps ==
    ASSUME NEW conf, NEW m, Sound(conf), NEW picked, Kept("pick", picked)
    PROVE  Kept("pick", StepOf("pick", conf, picked, m))
<1>1. PICK data : data = DiscoverData(conf, m)
  OBVIOUS
<1>2. {PickData(picked, x) : x \in {DiscoverData(conf, m)}} = {PickData(picked, data)}
  BY <1>1
<1>3. StepOf("pick", conf, picked, m) = PickData(picked, data)
  BY <1>2, OnlyOne DEF StepOf
<1>4. Pair(data)
  BY <1>1, DataIsPair
<1>5. PickData(picked, data) \in {picked, data, [out |-> "AmbiguousDataInterface"]}
  BY Zenon DEF PickData
<1>6. Pair([out |-> "AmbiguousDataInterface"])
  BY ErrorIsNoPair
<1> QED BY <1>3, <1>4, <1>5, <1>6 DEF Kept

LEMMA PickedIsPair ==
    ASSUME NEW conf, Sound(conf), NEW s, Len(s) \in Nat
    PROVE  Pair(PickEnd(conf, s))
<1>1. PICK n \in Nat : n = Len(s)
  OBVIOUS
<1> DEFINE start == [out |-> "MissingDataInterface"]
<1>2. PICK g : g = CHOOSE f : PickRun(f, conf, s, n)
  OBVIOUS
<1>3. \E f : PickRun(f, conf, s, n)
  BY <1>1, RunExists, PickRuns
<1>4. PickRun(g, conf, s, n)
  BY <1>2, <1>3
<1>5. Run(g, "pick", conf, start, s, n)
  BY <1>1, <1>4, PickRuns
<1>6. Kept("pick", start)
  BY ErrorIsNoPair DEF Kept
<1>7. \A i \in 1 .. n : \A w : Kept("pick", w) => Kept("pick", StepOf("pick", conf, w, s[i]))
  BY PickKeeps
<1>8. Kept("pick", g[n])
  BY <1>5, <1>6, <1>7, RunKeeps
<1>9. PickEnd(conf, s) = g[n]
  BY <1>1, <1>2, Zenon DEF PickEnd
<1> QED BY <1>8, <1>9 DEF Kept

(* call is the slot of the call management descriptor, subs the list of    *)
(* the union. Either may have anything in it.                              *)
LEMMA SelectedIsPair ==
    ASSUME NEW conf, Sound(conf), NEW subs, Len(subs) \in Nat, NEW call
    PROVE  Pair(SelectData(conf, subs, call))
<1>1. PICK managed : managed = {c.interface : c \in {d \in call : d.handles /\ d.data}}
  OBVIOUS
<1>2. PICK asked : asked = IF managed # {} THEN <<Only(managed)>> ELSE subs
  OBVIOUS
<1>3. Len(asked) \in Nat
  BY <1>2
<1>4. CASE managed \subseteq ToSet(subs)
  <2>1. SelectData(conf, subs, call) = PickEnd(conf, asked)
    BY <1>1, <1>2, <1>4, Zenon DEF SelectData, PickEnd, PickRun
  <2> QED BY <1>3, <2>1, PickedIsPair
<1>5. CASE ~(managed \subseteq ToSet(subs))
  <2>1. SelectData(conf, subs, call) = [out |-> BadUnion]
    BY <1>1, <1>5, Zenon DEF SelectData
  <2> QED BY <2>1, ErrorIsNoPair DEF BadUnion
<1> QED BY <1>4, <1>5

LEMMA UnionNotOk ==
    ASSUME NEW conf, NEW subs, NEW n, Sound(conf)
    PROVE  UnionError(conf, subs, n) # "ok"
<1>1. \A m : InterfaceError(conf, m) # "ok"
  <2> SUFFICES ASSUME NEW m PROVE InterfaceError(conf, m) # "ok"
    OBVIOUS
  <2>1. Frames(conf).error # "ok"
    BY FramesAreCut DEF Sound
  <2>2. InterfaceError(conf, m) \in {"none", "InvalidInterfaceDescriptor", Frames(conf).error, BadUnion}
    BY Zenon DEF InterfaceError
  <2> QED BY <2>1, <2>2 DEF BadUnion
<1>2. UnionError(conf, subs, n) = "none"
      \/ \E k : UnionError(conf, subs, n) = BadUnion \/ UnionError(conf, subs, n) = InterfaceError(conf, subs[k])
  BY Zenon DEF UnionError
<1> QED BY <1>1, <1>2 DEF BadUnion

LEMMA CandidateIsPair ==
    ASSUME NEW conf, NEW n, Sound(conf)
    PROVE  Pair(DiscoverCandidate(conf, n))
<1>1. PICK S : (\A d \in S : Fine(d)) /\ conf.list \in Seq(S)
  BY DEF Sound
<1>2. PICK end : end = Walk(ControlStep, StartControl(n), conf)
  OBVIOUS
<1>3. Kept("control", StartControl(n))
  <2>1. PICK start : start = StartControl(n)
    OBVIOUS
  <2>2. {"union", "out"} \subseteq DOMAIN start /\ start.out = "none" /\ start.union = {}
    BY <2>1 DEF StartControl
  <2> QED BY <2>1, <2>2, KeptSo DEF SlotsKept, Watched, Walks
<1>4. Kept("control", end)
  BY <1>1, <1>2, <1>3, ControlWalkKeeps
<1>5. end.out # "ok" /\ \A d \in end.union : Len(d.subs) \in Nat
  BY <1>4, KeptSo DEF SlotsKept, Watched, Usable, Walks
<1>6. {AfterControl(conf, n, e) : e \in {Walk(ControlStep, StartControl(n), conf)}} = {AfterControl(conf, n, end)}
  BY <1>2
<1>7. DiscoverCandidate(conf, n) = AfterControl(conf, n, end)
  BY <1>6, OnlyOne, Zenon DEF DiscoverCandidate
<1>8. PICK subs : subs = Only(end.union).subs
  OBVIOUS
<1>9. CASE ControlError(end, n) # "none"
  <2>1. AfterControl(conf, n, end) = [out |-> ControlError(end, n)]
    BY <1>9, Zenon DEF AfterControl
  <2>2. ControlError(end, n) # "ok"
    BY <1>5 DEF ControlError, BadEndpoint, BadUnion
  <2> QED BY <1>7, <2>1, <2>2, ErrorIsNoPair
<1>10. CASE ControlError(end, n) = "none" /\ UnionError(conf, subs, n) # "none"
  <2>1. AfterControl(conf, n, end) = [out |-> UnionError(conf, subs, n)]
    BY <1>8, <1>10, Zenon DEF AfterControl
  <2> QED BY <1>7, <2>1, UnionNotOk, ErrorIsNoPair
<1>11. CASE ControlError(end, n) = "none" /\ UnionError(conf, subs, n) = "none"
  <2>1. PICK data : data = SelectData(conf, subs, end.call)
    OBVIOUS
  <2>2. {CandidateResult(n, end, x) : x \in {SelectData(conf, subs, end.call)}} = {CandidateResult(n, end, data)}
    BY <2>1
  <2>3. Only({CandidateResult(n, end, x) : x \in {SelectData(conf, subs, end.call)}}) = CandidateResult(n, end, data)
    BY <2>2, OnlyOne
  <2>4. AfterControl(conf, n, end) = CandidateResult(n, end, data)
    BY <1>8, <1>11, <2>3, Zenon DEF AfterControl
  <2>5. Len(subs) \in Nat
    <3>1. end.union # {}
      BY <1>5, <1>11 DEF ControlError, BadEndpoint, BadUnion
    <3>2. Only(end.union) \in end.union
      BY <3>1 DEF Only
    <3> QED BY <1>5, <1>8, <3>2
  <2>6. Pair(data)
    BY <2>1, <2>5, SelectedIsPair
  <2>7. PICK r : r = CandidateResult(n, end, data)
    OBVIOUS
  <2>8. r.out = "ok" => data.out = "ok" /\ r.bulkIn = data.bulkIn /\ r.bulkOut = data.bulkOut
    <3>1. PICK shared \in BOOLEAN :
              shared <=> \E e \in end.notification, b \in data.bulkIn : Address(e) = Address(b)
      OBVIOUS
    <3>2. CASE data.out # "ok"
      <4>1. r = [out |-> data.out]
        BY <2>7, <3>2, Zenon DEF CandidateResult
      <4> QED BY <3>2, <4>1
    <3>3. CASE data.out = "ok" /\ shared
      <4>1. r = [out |-> BadEndpoint]
        BY <2>7, <3>1, <3>3, Zenon DEF CandidateResult
      <4> QED BY <4>1 DEF BadEndpoint
    <3>4. CASE data.out = "ok" /\ ~shared
      <4>1. r = [out |-> "ok", number |-> n, data |-> data.number, bulkIn |-> data.bulkIn,
                 bulkOut |-> data.bulkOut, notification |-> end.notification]
        BY <2>7, <3>1, <3>4, Zenon DEF CandidateResult
      <4> QED BY <3>4, <4>1
    <3> QED BY <3>2, <3>3, <3>4
  <2>9. Pair(r)
    BY <2>6, <2>8 DEF Pair
  <2> QED BY <1>7, <2>4, <2>7, <2>9
<1> QED BY <1>9, <1>10, <1>11

(* The first sound function is one of the results.                         *)
LEMMA FirstIsPair ==
    ASSUME NEW results, DOMAIN results \subseteq Nat, \A k \in DOMAIN results : Pair(results[k]),
           NEW missing, missing # "ok"
    PROVE  Pair(FirstSound(results, missing))
<1>1. PICK good : good = {k \in DOMAIN results : results[k].out = "ok"}
  OBVIOUS
<1>2. CASE good # {}
  <2>1. good \subseteq Nat
    BY <1>1
  <2>2. Min(good) \in DOMAIN results
    BY <1>1, <1>2, <2>1, LeastOf
  <2>3. FirstSound(results, missing) = results[Min(good)]
    BY <1>1, <1>2, Zenon DEF FirstSound
  <2> QED BY <2>2, <2>3
<1>3. CASE good = {} /\ DOMAIN results # {}
  <2>1. Min(DOMAIN results) \in DOMAIN results
    BY <1>3, LeastOf
  <2>2. FirstSound(results, missing) = results[Min(DOMAIN results)]
    BY <1>1, <1>3, Zenon DEF FirstSound
  <2> QED BY <2>1, <2>2
<1>4. CASE good = {} /\ DOMAIN results = {}
  <2>1. FirstSound(results, missing) = [out |-> missing]
    BY <1>1, <1>4, Zenon DEF FirstSound
  <2> QED BY <2>1, ErrorIsNoPair
<1> QED BY <1>2, <1>3, <1>4

LEMMA AcmIsPair ==
    ASSUME NEW conf, Sound(conf)
    PROVE  Pair(Discover(conf))
<1>1. CASE IterError(conf) # "none"
  <2>1. Discover(conf) = [out |-> IterError(conf)]
    BY <1>1, Zenon DEF Discover
  <2> QED BY <2>1, IterNotOk, ErrorIsNoPair
<1>2. CASE IterError(conf) = "none"
  <2>1. PICK frames, candidates, last, results :
            /\ frames = Frames(conf) /\ candidates = Candidates(frames.list, "acm")
            /\ last = (IF frames.error = "none" THEN {} ELSE {Len(frames.list) + 1})
            /\ results = AcmFunctions(conf)
    OBVIOUS
  <2>2. frames.error # "ok" /\ Len(frames.list) \in Nat /\ DOMAIN frames.list \subseteq Nat
    <3>1. PICK S : frames.list \in Seq(S)
      BY <2>1, FramesAreCut DEF Sound
    <3> QED BY <2>1, <3>1, FramesAreCut, LenProperties DEF Sound
  <2>3. results = [i \in candidates \cup last |->
                      IF i \in last THEN [out |-> frames.error]
                      ELSE IF WellFormed(frames.list[i]) THEN DiscoverCandidate(conf, frames.list[i].number)
                      ELSE [out |-> "InvalidInterfaceDescriptor"]]
    BY <2>1, Zenon DEF AcmFunctions, Results
  <2>4. candidates \cup last \subseteq Nat
    BY <2>1, <2>2 DEF Candidates
  <2>5. ASSUME NEW k \in candidates \cup last PROVE Pair(results[k])
    <3>1. \E m : results[k] \in {[out |-> frames.error], DiscoverCandidate(conf, m),
                                 [out |-> "InvalidInterfaceDescriptor"]}
      BY <2>3, <2>5, Zenon
    <3>2. Pair([out |-> frames.error]) /\ Pair([out |-> "InvalidInterfaceDescriptor"])
      BY <2>2, ErrorIsNoPair
    <3> QED BY <3>1, <3>2, CandidateIsPair
  <2>6. DOMAIN results = candidates \cup last
    BY <2>3, Zenon
  <2>7. Pair(FirstSound(results, "MissingControlInterface"))
    BY <2>4, <2>5, <2>6, FirstIsPair
  <2>8. Discover(conf) = FirstSound(results, "MissingControlInterface")
    BY <1>2, <2>1, Zenon DEF Discover
  <2> QED BY <2>7, <2>8
<1> QED BY <1>1, <1>2

(* A pipe the allocator accepts is legal, whatever it was made of, unless  *)
(* it is a driver's read buffer that it does not fit.                      *)
Kinds == {"control", "bulk", "interrupt", "isochronous"}

Speeds3 == {"low", "full", "high"}

LEMMA AcceptedIsLegal ==
    ASSUME NEW p, p.kind \in Kinds, NEW port, port.speed \in Speeds3, ValidatePipe(p, port),
           p.kind = "bulk" /\ p.in => ~(p.size > RxCapacity)
    PROVE  Legal(p, port)
<1>1. ~port.split /\ port.speed # "high"
  BY DEF ValidatePipe, Speeds3
<1>2. CASE port.speed = "low"
  <2>1. ValidateLowSpeed(p)
    BY <1>2 DEF ValidatePipe
  <2>2. (p.kind = "control" /\ p.size = 8) \/ (p.kind = "interrupt" /\ p.size \in 1 .. 8 /\ p.interval >= 10)
    <3>1. CASE p.kind = "control"
      <4>1. ValidateControl(p, {8})
        BY <2>1, <3>1, Zenon DEF ValidateLowSpeed
      <4>2. p.size \in {8}
        BY <4>1, Zenon DEF ValidateControl
      <4>3. p.size = 8
        BY <4>2
      <4> QED BY <3>1, <4>3
    <3>2. CASE p.kind = "interrupt"
      BY <2>1, <3>2, Zenon DEF ValidateLowSpeed
    <3>3. CASE p.kind = "bulk"
      BY <2>1, <3>3, Zenon DEF ValidateLowSpeed
    <3>4. CASE p.kind = "isochronous"
      BY <2>1, <3>4, Zenon DEF ValidateLowSpeed
    <3> QED BY <3>1, <3>2, <3>3, <3>4 DEF Kinds
  <2>3. Limit(p, port) = 8
    BY <1>2 DEF Limit
  <2> QED BY <1>1, <1>2, <2>2, <2>3 DEF Legal
<1>3. CASE port.speed = "full"
  <2>1. ValidateFullSpeed(p)
    BY <1>3 DEF ValidatePipe
  <2>2. CASE p.kind = "control" \/ p.kind = "interrupt"
    <3>1. p.size \in 1 .. 64 /\ (p.kind = "interrupt" => p.interval # 0)
      <4>1. CASE p.kind = "control"
        <5>1. p.size \in ControlSizes
          BY <2>1, <4>1, Zenon DEF ValidateFullSpeed, ValidateControl
        <5> QED BY <4>1, <5>1 DEF ControlSizes
      <4>2. CASE p.kind = "interrupt"
        BY <2>1, <4>2, Zenon DEF ValidateFullSpeed
      <4> QED BY <2>2, <4>1, <4>2
    <3>2. Limit(p, port) = 64
      BY <1>3, <2>2 DEF Limit
    <3> QED BY <1>1, <1>3, <3>1, <3>2 DEF Legal
  <2>3. CASE p.kind = "isochronous"
    <3>1. p.size \in 1 .. 100
      BY <2>1, <2>3 DEF ValidateFullSpeed
    <3>2. Limit(p, port) = 100
      BY <1>3, <2>3 DEF Limit
    <3> QED BY <1>1, <1>3, <2>3, <3>1, <3>2 DEF Legal
  <2>4. CASE p.kind = "bulk"
    <3>1. p.size \in ControlSizes
      BY <2>1, <2>4 DEF ValidateFullSpeed
    <3>2. p.in => Limit(p, port) = Lower(RxCapacity, 64)
      BY <1>3, <2>4 DEF Limit
    <3>3. ~p.in => Limit(p, port) = 64
      BY <1>3, <2>4 DEF Limit
    <3>4. p.size \in 1 .. Limit(p, port)
      BY <2>4, <3>1, <3>2, <3>3, RxCapacityAssumption DEF ControlSizes, Lower
    <3> QED BY <1>1, <1>3, <2>4, <3>4 DEF Legal
  <2> QED BY <2>2, <2>3, <2>4 DEF Kinds
<1> QED BY <1>1, <1>2, <1>3 DEF Speeds3

AllLegal(pipes, port) == \A j \in DOMAIN pipes : Legal(pipes[j], port)

LEMMA AllocatedIsLegal ==
    ASSUME NEW port, port.speed \in Speeds3, NEW pipes,
           \A j \in DOMAIN pipes : pipes[j].kind \in Kinds,
           \A j \in DOMAIN pipes : pipes[j].kind = "bulk" /\ pipes[j].in => ~(pipes[j].size > RxCapacity)
    PROVE  AllLegal(Allocate(pipes, port).pipes, port)
<1>1. CASE \A k \in DOMAIN pipes : ValidatePipe(pipes[k], port)
  <2>1. Allocate(pipes, port).pipes = pipes
    BY <1>1 DEF Allocate
  <2>2. \A j \in DOMAIN pipes : Legal(pipes[j], port)
    BY <1>1, AcceptedIsLegal
  <2> QED BY <2>1, <2>2 DEF AllLegal
<1>2. CASE ~ \A k \in DOMAIN pipes : ValidatePipe(pipes[k], port)
  <2>1. Allocate(pipes, port).pipes = <<>>
    BY <1>2 DEF Allocate
  <2> QED BY <2>1 DEF AllLegal
<1> QED BY <1>1, <1>2

LEMMA RefusedIsLegal ==
    ASSUME NEW port, NEW reason
    PROVE  AllLegal(Refused(reason).pipes, port)
  BY DEF AllLegal, Refused

LEMMA BulkIsLegal ==
    ASSUME NEW port, port.speed \in Speeds3, NEW r
    PROVE  AllLegal(AllocateAcm(r, port).pipes, port)
<1>1. CASE Refusal(r, port) # "ok"
  <2>1. AllocateAcm(r, port) = Refused(Refusal(r, port))
    BY <1>1, Zenon DEF AllocateAcm
  <2> QED BY <2>1, RefusedIsLegal
<1>2. CASE Refusal(r, port) = "ok"
  <2>1. AllocateAcm(r, port) = AllocateBulk(r, port)
    BY <1>2, Zenon DEF AllocateAcm
  <2>2. CASE ~InputsValid(port)
    <3>1. AllocateBulk(r, port) = Refused("InvalidInput")
      BY <2>2, Zenon DEF AllocateBulk
    <3> QED BY <2>1, <3>1, RefusedIsLegal
  <2>3. CASE InputsValid(port) /\ Only(r.bulkIn).size > RxCapacity
    <3>1. AllocateBulk(r, port) = Refused("UnsupportedBulkInMaxPacketSize")
      BY <2>3, Zenon DEF AllocateBulk
    <3> QED BY <2>1, <3>1, RefusedIsLegal
  <2>4. CASE InputsValid(port) /\ ~(Only(r.bulkIn).size > RxCapacity)
    <3>1. AllocateBulk(r, port) = Allocate(BulkPipes(r, port), port)
      BY <2>4, Zenon DEF AllocateBulk
    <3>2. PICK a, b, c : /\ a = ControlPipe(port) /\ b = EndpointPipe(Only(r.bulkIn), "bulk", TRUE)
                         /\ c = EndpointPipe(Only(r.bulkOut), "bulk", FALSE)
      OBVIOUS
    <3>3. BulkPipes(r, port) = <<a, b, c>>
      BY <3>2, Zenon DEF BulkPipes
    <3>4. a.kind = "control" /\ b.kind = "bulk" /\ c.kind = "bulk" /\ ~c.in /\ b.size = Only(r.bulkIn).size
      <4>1. a.kind = "control"
        BY <3>2 DEF ControlPipe
      <4>2. b.kind = "bulk" /\ b.size = Only(r.bulkIn).size
        BY <3>2 DEF EndpointPipe
      <4>3. c.kind = "bulk" /\ ~c.in
        BY <3>2 DEF EndpointPipe
      <4> QED BY <4>1, <4>2, <4>3
    <3>5. PICK pipes : pipes = <<a, b, c>>
      OBVIOUS
    <3>6. DOMAIN pipes = {1, 2, 3} /\ pipes[1] = a /\ pipes[2] = b /\ pipes[3] = c
      BY <3>5
    <3>7. AllLegal(Allocate(pipes, port).pipes, port)
      BY <2>4, <3>4, <3>6, AllocatedIsLegal DEF Kinds
    <3> QED BY <2>1, <3>1, <3>3, <3>5, <3>7
  <2> QED BY <2>2, <2>3, <2>4
<1> QED BY <1>1, <1>2

LEMMA HidIsLegal ==
    ASSUME NEW port, port.speed \in Speeds3, NEW r
    PROVE  AllLegal(AllocateHid(r, port).pipes, port)
<1>1. CASE Refusal(r, port) # "ok"
  <2>1. AllocateHid(r, port) = Refused(Refusal(r, port))
    BY <1>1, Zenon DEF AllocateHid
  <2> QED BY <2>1, RefusedIsLegal
<1>2. CASE Refusal(r, port) = "ok"
  <2>1. AllocateHid(r, port) = AllocateHidInterface(r, port)
    BY <1>2, Zenon DEF AllocateHid
  <2>2. PICK a, b, c : /\ a = ControlPipe(port) /\ b = EndpointPipe(Only(r.interruptIn), "interrupt", TRUE)
                       /\ c = EndpointPipe(Only(r.interruptOut), "interrupt", FALSE)
    OBVIOUS
  <2>3. a.kind = "control" /\ b.kind = "interrupt" /\ c.kind = "interrupt"
    <3>1. a.kind = "control"
      BY <2>2 DEF ControlPipe
    <3>2. b.kind = "interrupt"
      BY <2>2 DEF EndpointPipe
    <3>3. c.kind = "interrupt"
      BY <2>2 DEF EndpointPipe
    <3> QED BY <3>1, <3>2, <3>3
  <2>4. PICK outs : outs = IF r.interruptOut = {} THEN <<>> ELSE <<c>>
    OBVIOUS
  <2>5. PICK pipes : pipes = <<a, b>> \o outs
    OBVIOUS
  <2>6. \A j \in DOMAIN pipes : pipes[j] \in {a, b, c}
    <3>1. PICK T : T = {a, b, c}
      OBVIOUS
    <3>2. <<a, b>> \in Seq(T) /\ <<>> \in Seq(T) /\ <<c>> \in Seq(T)
      BY <3>1
    <3>3. pipes \in Seq(T)
      BY <2>4, <2>5, <3>2, ConcatProperties
    <3> QED BY <3>1, <3>3
  <2>7. AllLegal(Allocate(pipes, port).pipes, port)
    <3>1. \A j \in DOMAIN pipes : pipes[j].kind \in Kinds /\ pipes[j].kind # "bulk"
      BY <2>3, <2>6 DEF Kinds
    <3> QED BY <3>1, AllocatedIsLegal
  <2>8. \/ AllocateHidInterface(r, port) = Refused("InvalidInput")
        \/ AllocateHidInterface(r, port) = Refused("UnsupportedInterruptInMaxPacketSize")
        \/ AllocateHidInterface(r, port) = Allocate(pipes, port)
    BY <2>2, <2>4, <2>5, Zenon DEF AllocateHidInterface
  <2> QED BY <2>1, <2>7, <2>8, RefusedIsLegal
<1> QED BY <1>1, <1>2

LEMMA AudioIsLegal ==
    ASSUME NEW port, port.speed \in Speeds3, NEW r
    PROVE  AllLegal(AllocateAudio(r, port).pipes, port)
<1>1. PICK a, b : a = ControlPipe(port) /\ b = EndpointPipe(Only(r.endpoint), "isochronous", TRUE)
  OBVIOUS
<1>2. a.kind = "control" /\ b.kind = "isochronous"
  <2>1. a.kind = "control"
    BY <1>1 DEF ControlPipe
  <2>2. b.kind = "isochronous"
    BY <1>1 DEF EndpointPipe
  <2> QED BY <2>1, <2>2
<1>3. PICK pipes : pipes = <<a, b>>
  OBVIOUS
<1>4. AllLegal(Allocate(pipes, port).pipes, port)
  <2>1. DOMAIN pipes = {1, 2} /\ pipes[1] = a /\ pipes[2] = b
    BY <1>3
  <2> QED BY <1>2, <2>1, AllocatedIsLegal DEF Kinds
<1>5. \/ AllocateAudio(r, port) = Refused("InvalidControlMaxPacketSize")
      \/ AllocateAudio(r, port) = Refused(r.out)
      \/ AllocateAudio(r, port) = Allocate(pipes, port)
  BY <1>1, <1>3, Zenon DEF AllocateAudio
<1> QED BY <1>4, <1>5, RefusedIsLegal

(* A sound pair within the limits is accepted.                             *)
LEMMA LegalIsAccepted ==
    ASSUME NEW r, Pair(r), r.out = "ok", NEW port, port.speed \in Speeds3, InputsValid(port),
           NEW pipes, pipes = BulkPipes(r, port), \A j \in 1 .. 3 : Legal(pipes[j], port)
    PROVE  AllocateAcm(r, port).pipes = pipes
<1>1. PICK i, o : i = Only(r.bulkIn) /\ o = Only(r.bulkOut)
  OBVIOUS
<1>2. BulkEnd(i) /\ BulkEnd(o)
  <2>1. i \in r.bulkIn /\ o \in r.bulkOut
    BY <1>1 DEF Pair, Only
  <2> QED BY <2>1 DEF Pair
<1>3. PICK a, b, c : a = ControlPipe(port) /\ b = EndpointPipe(i, "bulk", TRUE) /\ c = EndpointPipe(o, "bulk", FALSE)
  OBVIOUS
<1>4. pipes = <<a, b, c>>
  BY <1>1, <1>3, Zenon DEF BulkPipes
<1>5. DOMAIN pipes = 1 .. 3 /\ pipes[1] = a /\ pipes[2] = b /\ pipes[3] = c
  BY <1>4
<1>6. Legal(a, port) /\ Legal(b, port) /\ Legal(c, port)
  BY <1>5
<1>7. /\ a.kind = "control" /\ a.number = 0 /\ a.in /\ a.out /\ a.size = port.control
  BY <1>3 DEF ControlPipe
<1>8. b.kind = "bulk" /\ b.in /\ ~b.out /\ b.number = i.number /\ b.size = i.size
  BY <1>3 DEF EndpointPipe
<1>9. c.kind = "bulk" /\ ~c.in /\ c.out /\ c.number = o.number /\ c.size = o.size
  BY <1>3 DEF EndpointPipe
<1>10. port.address <= 127 /\ port.control \in ControlSizes
  BY DEF InputsValid
<1>11. port.speed = "full" /\ ~port.split
  BY <1>6, <1>8 DEF Legal, Speeds3
<1>12. b.size <= 64 /\ b.size <= RxCapacity /\ b.size \in ControlSizes
  <2>1. b.size \in 1 .. Lower(RxCapacity, 64)
    BY <1>6, <1>8, <1>11 DEF Legal, Limit
  <2>2. BulkSize(b.size)
    BY <1>2, <1>8 DEF BulkEnd
  <2> QED BY <2>1, <2>2, RxCapacityAssumption DEF Lower, BulkSize, ControlSizes
<1>13. c.size \in ControlSizes
  <2>1. c.size \in 1 .. 64
    BY <1>6, <1>9, <1>11 DEF Legal, Limit
  <2>2. BulkSize(c.size)
    BY <1>2, <1>9 DEF BulkEnd
  <2> QED BY <2>1, <2>2 DEF BulkSize, ControlSizes
<1>14. ValidatePipe(a, port)
  <2>1. ValidateControl(a, ControlSizes)
    BY <1>7, <1>10 DEF ValidateControl
  <2>2. ValidateFullSpeed(a)
    BY <1>7, <2>1, Zenon DEF ValidateFullSpeed
  <2>3. a.number <= 15
    BY <1>7
  <2> QED BY <1>10, <1>11, <2>2, <2>3, Zenon DEF ValidatePipe
<1>15. ASSUME NEW p \in {b, c} PROVE ValidatePipe(p, port)
  <2>1. p.kind = "bulk" /\ p.size \in ControlSizes /\ p.number # 0 /\ p.number <= 15
    BY <1>2, <1>8, <1>9, <1>12, <1>13, <1>15 DEF BulkEnd
  <2>2. OneWay(p)
    BY <1>8, <1>9, <1>15 DEF OneWay
  <2>3. ValidateFullSpeed(p)
    BY <2>1, <2>2, Zenon DEF ValidateFullSpeed
  <2> QED BY <1>10, <1>11, <2>1, <2>3, Zenon DEF ValidatePipe
<1>16. \A k \in DOMAIN pipes : ValidatePipe(pipes[k], port)
  BY <1>5, <1>14, <1>15
<1>17. Allocate(pipes, port).pipes = pipes
  BY <1>16 DEF Allocate
<1>18. ~(i.size > RxCapacity)
  BY <1>8, <1>12, RxCapacityAssumption DEF ControlSizes
<1>19. AllocateBulk(r, port) = Allocate(pipes, port)
  BY <1>1, <1>18, Zenon DEF AllocateBulk
<1>20. Refusal(r, port) = "ok"
  BY Zenon DEF Refusal
<1>21. AllocateAcm(r, port) = Allocate(pipes, port)
  BY <1>19, <1>20, Zenon DEF AllocateAcm
<1> QED BY <1>17, <1>21

LEMMA PortsAreOf ==
    ASSUME NEW port \in Ports
    PROVE  port.speed \in Speeds3
<1>1. PICK e \in Enumerations : port = PortOf(e)
  BY DEF Ports
<1>2. e.speed \in {"low", "full", "high"}
  BY DEF Enumerations
<1> QED BY <1>1, <1>2 DEF PortOf, Speeds3

GetsAll(r, pipes, port) ==
    /\ InputsValid(port) /\ r.out = "ok"
    /\ \A j \in 1 .. 3 : Legal(BulkPipes(r, port)[j], port)
    => pipes = BulkPipes(r, port)

LEMMA PipesFitFound ==
    ASSUME NEW conf, Sound(conf), input.of = "configuration", input.found = Found(conf)
    PROVE  PipesFit
<1>1. PICK acm, ftdi, tmc, hid, audio :
          /\ acm = input.found.acm /\ ftdi = input.found.ftdi /\ tmc = input.found.tmc
          /\ hid = input.found.hid /\ audio = input.found.audio
  OBVIOUS
<1>2. acm = Discover(conf) /\ ftdi = DiscoverFtdi(FtdiDevice, conf, {}) /\ tmc = DiscoverTmc(conf)
  BY <1>1 DEF Found
<1>3. Pair(acm) /\ Pair(ftdi) /\ Pair(tmc)
  BY <1>2, AcmIsPair, FtdiIsPair, TmcIsPair
<1>4. ASSUME NEW port \in Ports, NEW g
      PROVE  /\ g \in {AllocateAcm(acm, port), AllocateFtdi(ftdi, port), AllocateTmc(tmc, port),
                        AllocateHid(hid, port), AllocateAudio(audio, port)}
                    => AllLegal(g.pipes, port)
             /\ \A r \in {acm, ftdi, tmc} : GetsAll(r, AllocateAcm(r, port).pipes, port)
  <2>1. port.speed \in Speeds3
    BY PortsAreOf
  <2>2. AllocateFtdi(ftdi, port) = AllocateAcm(ftdi, port) /\ AllocateTmc(tmc, port) = AllocateAcm(tmc, port)
    BY DEF AllocateFtdi, AllocateTmc
  <2>3. /\ AllLegal(AllocateAcm(acm, port).pipes, port) /\ AllLegal(AllocateAcm(ftdi, port).pipes, port)
        /\ AllLegal(AllocateAcm(tmc, port).pipes, port) /\ AllLegal(AllocateHid(hid, port).pipes, port)
        /\ AllLegal(AllocateAudio(audio, port).pipes, port)
    BY <2>1, BulkIsLegal, HidIsLegal, AudioIsLegal
  <2>4. ASSUME NEW r \in {acm, ftdi, tmc}, InputsValid(port), r.out = "ok",
               \A j \in 1 .. 3 : Legal(BulkPipes(r, port)[j], port)
        PROVE  AllocateAcm(r, port).pipes = BulkPipes(r, port)
    BY <1>3, <2>1, <2>4, LegalIsAccepted
  <2> QED BY <2>2, <2>3, <2>4 DEF GetsAll
<1>5. \A port \in Ports : \A g : g \in {AllocateAcm(input.found.acm, port), AllocateFtdi(input.found.ftdi, port),
                            AllocateTmc(input.found.tmc, port), AllocateHid(input.found.hid, port),
                            AllocateAudio(input.found.audio, port)}
                    => AllLegal(g.pipes, port)
  BY <1>1, <1>4, Zenon
<1>6. \A port \in Ports : /\ GetsAll(input.found.acm, AllocateAcm(input.found.acm, port).pipes, port)
                          /\ GetsAll(input.found.ftdi, AllocateFtdi(input.found.ftdi, port).pipes, port)
                          /\ GetsAll(input.found.tmc, AllocateTmc(input.found.tmc, port).pipes, port)
  BY <1>1, <1>4, Zenon DEF AllocateFtdi, AllocateTmc
<1> QED BY <1>5, <1>6, Zenon DEF PipesFit, AllLegal, GetsAll

(* The configurations that are edited, and what goes into them.            *)
Written(conf, spare) ==
    \E S : /\ \A d \in S : Fine(d)
           /\ "list" \in DOMAIN conf /\ conf.list \in Seq(S) /\ spare \subseteq S

LEMMA WrittenIsSound ==
    ASSUME NEW conf, NEW spare, Written(conf, spare)
    PROVE  Sound(conf)
  BY DEF Written, Sound

LEMMA OtherIsFine ==
    ASSUME NEW d, d.type # "endpoint", ~(d.type = "class" /\ d.sub = "union")
    PROVE  Fine(d)
  BY DEF Fine

LEMMA IfaceIsFine ==
    ASSUME NEW n, NEW alt, NEW eps, NEW class, NEW len
    PROVE  Fine(Iface(n, alt, eps, class)) /\ Fine([Iface(n, alt, eps, class) EXCEPT !.len = len])
<1>1. PICK d, e : d = Iface(n, alt, eps, class) /\ e = [d EXCEPT !.len = len]
  OBVIOUS
<1>2. d.type = "interface" /\ e.type = "interface"
  BY <1>1 DEF Iface
<1> QED BY <1>1, <1>2, OtherIsFine

LEMMA EndpointIsFine ==
    ASSUME NEW n \in 0 .. 15, NEW in, NEW kind, NEW size, NEW interval, NEW other
    PROVE  /\ Fine(Endpoint(n, in, kind, size, interval))
           /\ Fine([Endpoint(n, in, kind, size, interval) EXCEPT !.len = other])
<1>1. PICK d, a : d = Endpoint(n, in, kind, size, interval) /\ a = [d EXCEPT !.len = other]
  OBVIOUS
<1>2. d.type = "endpoint" /\ d.number = n /\ {"type", "number"} \subseteq DOMAIN d
  BY <1>1 DEF Endpoint
<1>3. a.type = "endpoint" /\ a.number = n
  BY <1>1, <1>2
<1> QED BY <1>1, <1>2, <1>3 DEF Fine

LEMMA ClassIsFine ==
    ASSUME NEW sub, sub # "union", NEW len
    PROVE  Fine(Class(sub, len))
<1>1. Class(sub, len).type = "class" /\ Class(sub, len).sub = sub
  BY DEF Class
<1> QED BY <1>1, OtherIsFine

LEMMA PartIsFine ==
    ASSUME NEW x
    PROVE  /\ Fine(Call(x)) /\ Fine(Acm)
           /\ Fine(General(x)) /\ Fine(Format(x)) /\ Fine(Unknown(x)) /\ Fine(Hid(x))
<1>1. Fine(Call(x))
  <2>1. Call(x).type = "class" /\ Call(x).sub = "call"
    BY DEF Call
  <2> QED BY <2>1, OtherIsFine
<1>2. Fine(Acm)
  <2>1. Acm.type = "class" /\ Acm.sub = "acm"
    BY DEF Acm
  <2> QED BY <2>1, OtherIsFine
<1>3. Fine(General(x))
  <2>1. General(x).type = "class" /\ General(x).sub = "general"
    BY DEF General
  <2> QED BY <2>1, OtherIsFine
<1>4. Fine(Format(x))
  <2>1. Format(x).type = "class" /\ Format(x).sub = "format"
    BY DEF Format
  <2> QED BY <2>1, OtherIsFine
<1>5. Fine(Unknown(x))
  <2>1. Unknown(x).type = "unknown"
    BY DEF Unknown
  <2> QED BY <2>1, OtherIsFine
<1>6. Fine(Hid(x))
  <2>1. Hid(x).type = "hid"
    BY DEF Hid
  <2> QED BY <2>1, OtherIsFine
<1> QED BY <1>1, <1>2, <1>3, <1>4, <1>5, <1>6

LEMMA UnionIsFine ==
    ASSUME NEW n, NEW subs, Len(subs) \in Nat
    PROVE  Fine(Union(n, subs))
<1>1. Union(n, subs).type = "class" /\ Union(n, subs).subs = subs
  BY DEF Union
<1> QED BY <1>1 DEF Fine

LEMMA SizedIsWritten ==
    ASSUME NEW S, \A d \in S : Fine(d), NEW list \in Seq(S), NEW spare, spare \subseteq S
    PROVE  Written(OfSize(list), spare)
<1>1. PICK conf : conf = [header |-> SoundHeader, total |-> 0, list |-> list]
  OBVIOUS
<1>2. PICK size : size = Available(conf)
  OBVIOUS
<1>3. OfSize(list) = [conf EXCEPT !.total = size]
  BY <1>1, <1>2, Zenon DEF OfSize
<1>4. "list" \in DOMAIN OfSize(list) /\ OfSize(list).list = list
  BY <1>1, <1>3
<1> QED BY <1>4 DEF Written

FineList(list) == \E S : (\A d \in S : Fine(d)) /\ list \in Seq(S)

LEMMA Widened ==
    ASSUME NEW S, NEW T, S \subseteq T, NEW list \in Seq(S)
    PROVE  list \in Seq(T)
<1>1. Len(list) \in Nat /\ list = [i \in 1 .. Len(list) |-> list[i]]
  OBVIOUS
<1>2. \A i \in 1 .. Len(list) : list[i] \in T
  OBVIOUS
<1> QED BY <1>1, <1>2, IsASeq

LEMMA FineConcat ==
    ASSUME NEW a, NEW b, FineList(a), FineList(b)
    PROVE  FineList(a \o b)
<1>1. PICK S : (\A d \in S : Fine(d)) /\ a \in Seq(S)
  BY DEF FineList
<1>2. PICK T : (\A d \in T : Fine(d)) /\ b \in Seq(T)
  BY DEF FineList
<1>3. a \in Seq(S \cup T) /\ b \in Seq(S \cup T)
  BY <1>1, <1>2, Widened
<1>4. a \o b \in Seq(S \cup T)
  BY <1>3, ConcatProperties
<1> QED BY <1>1, <1>2, <1>4 DEF FineList

LEMMA FineThree ==
    ASSUME NEW a, NEW b, NEW c, Fine(a), Fine(b), Fine(c)
    PROVE  FineList(<<a, b, c>>)
<1>1. <<a, b, c>> \in Seq({a, b, c})
  OBVIOUS
<1> QED BY <1>1 DEF FineList

LEMMA FineFour ==
    ASSUME NEW a, NEW b, NEW c, NEW d, Fine(a), Fine(b), Fine(c), Fine(d)
    PROVE  FineList(<<a, b, c, d>>)
<1>1. <<a, b, c, d>> \in Seq({a, b, c, d})
  OBVIOUS
<1> QED BY <1>1 DEF FineList

LEMMA FineFive ==
    ASSUME NEW a, NEW b, NEW c, NEW d, NEW e, Fine(a), Fine(b), Fine(c), Fine(d), Fine(e)
    PROVE  FineList(<<a, b, c, d, e>>)
<1>1. <<a, b, c, d, e>> \in Seq({a, b, c, d, e})
  OBVIOUS
<1> QED BY <1>1 DEF FineList

LEMMA FineEight ==
    ASSUME NEW a, NEW b, NEW c, NEW d, NEW e, NEW f, NEW g, NEW h,
           Fine(a), Fine(b), Fine(c), Fine(d), Fine(e), Fine(f), Fine(g), Fine(h)
    PROVE  FineList(<<a, b, c, d, e, f, g, h>>)
<1>1. <<a, b, c, d, e, f, g, h>> \in Seq({a, b, c, d, e, f, g, h})
  OBVIOUS
<1> QED BY <1>1 DEF FineList

LEMMA FineEleven ==
    ASSUME NEW a, NEW b, NEW c, NEW d, NEW e, NEW f, NEW g, NEW h, NEW i, NEW j, NEW k,
           Fine(a), Fine(b), Fine(c), Fine(d), Fine(e), Fine(f), Fine(g), Fine(h), Fine(i),
           Fine(j), Fine(k)
    PROVE  FineList(<<a, b, c, d, e, f, g, h, i, j, k>>)
<1>1. <<a, b, c, d, e, f, g, h, i, j, k>> \in Seq({a, b, c, d, e, f, g, h, i, j, k})
  OBVIOUS
<1> QED BY <1>1 DEF FineList

FineSet(set) == \A d \in set : Fine(d)

LEMMA PartsWritten ==
    ASSUME NEW list, FineList(list), NEW spare, FineSet(spare)
    PROVE  Written(OfSize(list), spare)
<1>1. PICK S : (\A d \in S : Fine(d)) /\ list \in Seq(S)
  BY DEF FineList
<1>2. \A d \in S \cup spare : Fine(d)
  BY <1>1 DEF FineSet
<1>3. list \in Seq(S \cup spare)
  BY <1>1, Widened
<1> QED BY <1>2, <1>3, SizedIsWritten

LEMMA BulkIsFine ==
    ASSUME NEW size
    PROVE  Fine(BulkIn(size)) /\ Fine(BulkOut(size)) /\ Fine(Notify)
<1>1. 1 \in 0 .. 15 /\ 2 \in 0 .. 15 /\ 3 \in 0 .. 15
  OBVIOUS
<1> QED BY <1>1, EndpointIsFine, Zenon DEF BulkIn, BulkOut, Notify

LEMMA OddBulkIsFine ==
    Fine([BulkOut(8) EXCEPT !.plain = FALSE]) /\ Fine([BulkOut(8) EXCEPT !.clean = FALSE])
<1>1. PICK d, a, b : /\ d = BulkOut(8) /\ a = [d EXCEPT !.plain = FALSE]
                     /\ b = [d EXCEPT !.clean = FALSE]
  OBVIOUS
<1>2. d.type = "endpoint" /\ d.number = 2 /\ {"type", "number"} \subseteq DOMAIN d
  BY <1>1 DEF BulkOut, Endpoint
<1>3. a.type = "endpoint" /\ a.number = 2 /\ b.type = "endpoint" /\ b.number = 2
  BY <1>1, <1>2
<1> QED BY <1>1, <1>2, <1>3 DEF Fine

LEMMA FineSetOfFour ==
    ASSUME NEW a, NEW b, NEW c, NEW d, Fine(a), Fine(b), Fine(c), Fine(d)
    PROVE  FineSet({a, b, c, d})
  BY DEF FineSet

LEMMA FineSetOfEight ==
    ASSUME NEW a, NEW b, NEW c, NEW d, NEW e, NEW f, NEW g, NEW h, Fine(a), Fine(b),
           Fine(c), Fine(d), Fine(e), Fine(f), Fine(g), Fine(h)
    PROVE  FineSet({a, b, c, d, e, f, g, h})
  BY DEF FineSet

LEMMA FineSetOfNine ==
    ASSUME NEW a, NEW b, NEW c, NEW d, NEW e, NEW f, NEW g, NEW h, NEW i, Fine(a),
           Fine(b), Fine(c), Fine(d), Fine(e), Fine(f), Fine(g), Fine(h), Fine(i)
    PROVE  FineSet({a, b, c, d, e, f, g, h, i})
  BY DEF FineSet

LEMMA FineSetOfTen ==
    ASSUME NEW a, NEW b, NEW c, NEW d, NEW e, NEW f, NEW g, NEW h, NEW i, NEW j, Fine(a),
           Fine(b), Fine(c), Fine(d), Fine(e), Fine(f), Fine(g), Fine(h), Fine(i), Fine(j)
    PROVE  FineSet({a, b, c, d, e, f, g, h, i, j})
  BY DEF FineSet

LEMMA FineSetOfEleven ==
    ASSUME NEW a, NEW b, NEW c, NEW d, NEW e, NEW f, NEW g, NEW h, NEW i, NEW j, NEW
           k, Fine(a), Fine(b), Fine(c), Fine(d), Fine(e), Fine(f), Fine(g), Fine(h),
           Fine(i), Fine(j), Fine(k)
    PROVE  FineSet({a, b, c, d, e, f, g, h, i, j, k})
  BY DEF FineSet

LEMMA HeaderIsFine ==
    ASSUME NEW len
    PROVE  Fine(Class("header", len))
  BY ClassIsFine

LEMMA UnionsAreFine ==
    ASSUME NEW n, NEW a, NEW b
    PROVE  Fine(Union(n, <<a>>)) /\ Fine(Union(n, <<a, b>>))
  BY UnionIsFine

LEMMA ListsAreFine ==
    FineList(AcmList) /\ FineList(HidList) /\ FineList(FtdiList) /\ FineList(TmcList)
    /\ FineList(AudioList)
<1>0. 4 \in 0 .. 15 /\ 5 \in 0 .. 15
  OBVIOUS
<1>1. FineList(AcmList)
  BY HeaderIsFine, UnionsAreFine, PartIsFine, IfaceIsFine, BulkIsFine, FineEight, Zenon DEF AcmList
<1>2. FineList(HidList)
  BY <1>0, EndpointIsFine, IfaceIsFine, PartIsFine, FineThree, Zenon DEF HidList
<1>3. FineList(FtdiList)
  BY IfaceIsFine, BulkIsFine, FineThree, Zenon DEF FtdiList
<1>4. FineList(TmcList)
  BY IfaceIsFine, BulkIsFine, FineFour, Zenon DEF TmcList
<1>5. FineList(AudioList)
  BY <1>0, EndpointIsFine, PartIsFine, IfaceIsFine, FineFive, Zenon DEF AudioList
<1> QED BY <1>1, <1>2, <1>3, <1>4, <1>5

FineBase(base) == FineList(base.list) /\ FineSet(base.spare)

LEMMA BasesAreFine == \A base \in Bases : FineBase(base)
<1>0. 4 \in 0 .. 15 /\ 5 \in 0 .. 15 /\ 6 \in 0 .. 15 /\ 7 \in 0 .. 15
  OBVIOUS
<1>1. FineBase(AcmBase)
  <2>1. /\ Fine(Iface(0, 0, 1, "acm")) /\ Fine(Iface(1, 1, 2, "data")) /\ Fine(Iface(2, 0, 1, "hid"))
        /\ Fine([Iface(0, 0, 1, "acm") EXCEPT !.len = 8])
        /\ Fine([Iface(1, 0, 2, "data") EXCEPT !.len = 3])
    BY IfaceIsFine, Zenon
  <2>2. /\ Fine(Class("header", 5)) /\ Fine(Call(1)) /\ Fine(Union(0, <<1, 2>>))
        /\ Fine(BulkIn(512)) /\ Fine(BulkOut(8)) /\ Fine(Unknown(1))
    BY HeaderIsFine, UnionsAreFine, PartIsFine, BulkIsFine, Zenon
  <2>3. FineSet(AcmBase.spare)
    BY <2>1, <2>2, FineSetOfEleven, ZenonT(60) DEF AcmBase
  <2>4. AcmBase.list = AcmList
    BY Zenon DEF AcmBase
  <2> QED BY <2>3, <2>4, ListsAreFine DEF FineBase
<1>2. FineBase(HidAcmBase)
  <2>1. HidAcmBase.list = HidList \o AcmList /\ FineSet(HidAcmBase.spare)
    BY PartIsFine, IfaceIsFine, BulkIsFine, FineSetOfFour,
       Zenon DEF HidAcmBase
  <2> QED BY <2>1, ListsAreFine, FineConcat DEF FineBase
<1>3. FineBase(CallBase)
  <2>1. FineList(CallBase.list)
    BY <1>0, HeaderIsFine, UnionsAreFine, PartIsFine, IfaceIsFine, BulkIsFine, EndpointIsFine,
       FineEleven, Zenon DEF CallBase
  <2>2. FineSet(CallBase.spare)
    BY PartIsFine, IfaceIsFine, BulkIsFine, FineSetOfFour,
       Zenon DEF CallBase
  <2> QED BY <2>1, <2>2 DEF FineBase
<1>4. FineBase(HidBase)
  <2>1. FineList(HidBase.list)
    <3>1. FineList(<<Iface(6, 0, 2, "hid"), Hid(<<9>>), Endpoint(6, FALSE, "interrupt", 512, 1),
                     Endpoint(7, TRUE, "interrupt", 64, 4)>>)
      <4>1. /\ Fine(Endpoint(6, FALSE, "interrupt", 512, 1))
            /\ Fine(Endpoint(7, TRUE, "interrupt", 64, 4))
        BY <1>0, EndpointIsFine, Zenon
      <4> QED BY <4>1, PartIsFine, IfaceIsFine, FineFour, Zenon
    <3> QED BY <3>1, ListsAreFine, FineConcat, Zenon DEF HidBase
  <2>2. FineSet(HidBase.spare)
    BY <1>0, PartIsFine, IfaceIsFine, BulkIsFine, EndpointIsFine, FineSetOfNine,
       Zenon DEF HidBase
  <2> QED BY <2>1, <2>2 DEF FineBase
<1>5. FineBase(VendorBase)
  <2>1. FineList(VendorBase.list)
    BY ListsAreFine, FineConcat, Zenon DEF VendorBase
  <2>2. FineSet(VendorBase.spare)
    <3>1. /\ Fine(Iface(3, 1, 2, "vendor")) /\ Fine(Iface(6, 0, 2, "vendor"))
          /\ Fine(Iface(4, 1, 2, "tmc")) /\ Fine([Iface(3, 0, 2, "vendor") EXCEPT !.len = 8])
          /\ Fine(Iface(3, 0, 3, "vendor")) /\ Fine(Iface(7, 0, 2, "tmc"))
      BY IfaceIsFine, Zenon
    <3>2. Fine(BulkIn(512)) /\ Fine(Notify)
      BY BulkIsFine, Zenon
    <3> QED BY <3>1, <3>2, OddBulkIsFine, FineSetOfTen, ZenonT(60) DEF VendorBase
  <2> QED BY <2>1, <2>2 DEF FineBase
<1>6. FineBase(AudioBase)
  <2>1. AudioBase.list = AudioList /\ FineSet(AudioBase.spare)
    <3>1. /\ Fine(Iface(5, 2, 1, "audio")) /\ Fine([Iface(5, 3, 1, "audio") EXCEPT !.len = 8])
          /\ Fine(Iface(6, 1, 1, "hid"))
      BY IfaceIsFine, Zenon
    <3>2. /\ Fine([Endpoint(5, TRUE, "isochronous", 192, 1) EXCEPT !.len = 9])
          /\ Fine([Endpoint(6, TRUE, "isochronous", 96, 1) EXCEPT !.len = 9])
      BY <1>0, EndpointIsFine, Zenon
    <3>3. Fine(General(FALSE)) /\ Fine(General(TRUE)) /\ Fine(Format(FALSE))
      BY PartIsFine, Zenon
    <3> QED BY <3>1, <3>2, <3>3, FineSetOfEight, Zenon DEF AudioBase
  <2> QED BY <2>1, ListsAreFine DEF FineBase
<1> QED BY <1>1, <1>2, <1>3, <1>4, <1>5, <1>6, Zenon DEF Bases

LEMMA EditedIsWritten ==
    ASSUME NEW conf, NEW spare, Written(conf, spare)
    PROVE  /\ \A d \in spare, k \in 1 .. (Len(conf.list) + 1) :
                 Written(OfSize(InsertAt(conf.list, k, d)), spare)
           /\ \A k \in DOMAIN conf.list : Written(OfSize(RemoveAt(conf.list, k)), spare)
           /\ \A k \in 1 .. (Len(conf.list) - 1) :
                 Written(OfSize([conf.list EXCEPT ![k] = conf.list[k + 1],
                                                  ![k + 1] = conf.list[k]]), spare)
<1>1. PICK S : /\ \A d \in S : Fine(d)
               /\ "list" \in DOMAIN conf /\ conf.list \in Seq(S) /\ spare \subseteq S
  BY DEF Written
<1>2. PICK list \in Seq(S), n \in Nat : list = conf.list /\ n = Len(list)
  BY <1>1, LenProperties
<1>3. ASSUME NEW d \in spare, NEW k \in 1 .. (n + 1)
      PROVE  InsertAt(list, k, d) \in Seq(S)
  <2>1. SubSeq(list, 1, k - 1) \in Seq(S) /\ SubSeq(list, k, n) \in Seq(S)
    BY <1>2, SubSeqProperties
  <2>2. <<d>> \in Seq(S)
    BY <1>1
  <2>3. SubSeq(list, 1, k - 1) \o <<d>> \in Seq(S)
    BY <2>1, <2>2, ConcatProperties
  <2>4. (SubSeq(list, 1, k - 1) \o <<d>>) \o SubSeq(list, k, n) \in Seq(S)
    BY <2>1, <2>3, ConcatProperties
  <2> QED BY <2>4, <1>2 DEF InsertAt
<1>4. ASSUME NEW k \in 1 .. n
      PROVE  RemoveAt(list, k) \in Seq(S)
  <2>1. SubSeq(list, 1, k - 1) \in Seq(S) /\ SubSeq(list, k + 1, n) \in Seq(S)
    BY <1>2, SubSeqProperties
  <2>2. SubSeq(list, 1, k - 1) \o SubSeq(list, k + 1, n) \in Seq(S)
    BY <2>1, ConcatProperties
  <2> QED BY <2>2, <1>2 DEF RemoveAt
<1>5. ASSUME NEW k \in 1 .. (n - 1)
      PROVE  [list EXCEPT ![k] = list[k + 1], ![k + 1] = list[k]] \in Seq(S)
  <2>1. PICK a, b : a = list[k + 1] /\ b = list[k]
    OBVIOUS
  <2>2. a \in S /\ b \in S
    BY <1>2, <2>1
  <2>3. [list EXCEPT ![k] = a] \in Seq(S)
    BY <1>2, <2>2, ExceptSeq
  <2>4. [list EXCEPT ![k] = a, ![k + 1] = b] \in Seq(S)
    BY <1>2, <2>2, <2>3, ExceptSeq
  <2> QED BY <2>1, <2>4
<1>6. DOMAIN list = 1 .. n
  BY <1>2
<1> QED BY <1>1, <1>2, <1>3, <1>4, <1>5, <1>6, SizedIsWritten

LEMMA ListIsWritten ==
    ASSUME NEW conf, NEW spare, Written(conf, spare), NEW other, DOMAIN other = DOMAIN conf,
           other.list = conf.list
    PROVE  Written(other, spare)
  BY DEF Written

LEMMA MisstatedIsWritten ==
    ASSUME NEW conf, NEW spare, Written(conf, spare), NEW totals,
           NEW other \in {[conf EXCEPT !.total = total] : total \in totals}
                         \cup {[conf EXCEPT !.header.len = 8],
                               [conf EXCEPT !.header.type = "device"],
                               [conf EXCEPT !.header.value = 0],
                               [conf EXCEPT !.header.attributes = FALSE]}
    PROVE  Written(other, spare)
<1>1. CASE other \in {[conf EXCEPT !.total = total] : total \in totals}
  <2>1. PICK total \in totals : other = [conf EXCEPT !.total = total]
    BY <1>1
  <2>2. DOMAIN other = DOMAIN conf /\ other.list = conf.list
    BY <2>1 DEF Written
  <2> QED BY <2>2, ListIsWritten
<1>2. CASE other \in {[conf EXCEPT !.header.len = 8], [conf EXCEPT !.header.type = "device"],
                      [conf EXCEPT !.header.value = 0], [conf EXCEPT !.header.attributes = FALSE]}
  <2>1. PICK header : other = [conf EXCEPT !.header = header]
    BY <1>2
  <2>2. DOMAIN other = DOMAIN conf /\ other.list = conf.list
    BY <2>1 DEF Written
  <2> QED BY <2>2, ListIsWritten
<1> QED BY <1>1, <1>2

(***************************************************************************)
(* Control requests                                                        *)
(***************************************************************************)
(* What a device reads: of two bytes the sixteen bits they came from, and  *)
(* of a request the call that was made.                                    *)
IsWord(n) == n \in Nat /\ n < 256 * 256

LEMMA BytesOfWord ==
    ASSUME NEW n, IsWord(n)
    PROVE  LowByte(n) + 256 * HighByte(n) = n
  BY SMT DEF LowByte, HighByte, IsWord

ValueOf(setup)  == setup[3] + 256 * setup[4]
IndexOf(setup)  == setup[5] + 256 * setup[6]
LengthOf(setup) == setup[7] + 256 * setup[8]

LEMMA SetupIsRead ==
    ASSUME NEW type, NEW request, NEW value, IsWord(value), NEW index, IsWord(index), NEW length, IsWord(length),
           NEW setup, setup = Setup(type, request, value, index, length)
    PROVE  /\ setup[1] = type /\ setup[2] = request
           /\ ValueOf(setup) = value /\ IndexOf(setup) = index /\ LengthOf(setup) = length
<1>1. PICK a, b, c, d, e, f : /\ a = LowByte(value) /\ b = HighByte(value)
                              /\ c = LowByte(index) /\ d = HighByte(index)
                              /\ e = LowByte(length) /\ f = HighByte(length)
  OBVIOUS
<1>2. a + 256 * b = value /\ c + 256 * d = index /\ e + 256 * f = length
  BY <1>1, BytesOfWord
<1>3. setup = <<type, request, a, b, c, d, e, f>>
  BY <1>1, Zenon DEF Setup
<1> QED BY <1>2, <1>3 DEF ValueOf, IndexOf, LengthOf

(* A call that goes out goes in the direction of its data stage, which is  *)
(* as long as the request says.                                            *)
IsSent(does, type, request, value, index) ==
    /\ IsWord(value) /\ IsWord(index)
    /\ \/ \E length : IsWord(length) /\ type >= 128 /\ does = ControlIn(Setup(type, request, value, index, length), length)
       \/ \E data : /\ IsWord(Len(data)) /\ type < 128
                    /\ does = ControlOut(Setup(type, request, value, index, Len(data)), data)

StageFits(does) ==
    IF does.out = "control_in" THEN does.setup[1] >= 128 /\ LengthOf(does.setup) = does.room
    ELSE does.setup[1] < 128 /\ LengthOf(does.setup) = Len(does.data)

LEMMA SentIsRead ==
    ASSUME NEW does, NEW type \in Nat, NEW request, NEW value, NEW index,
           IsSent(does, type, request, value, index)
    PROVE  /\ does.setup[1] = type /\ does.setup[2] = request
           /\ ValueOf(does.setup) = value /\ IndexOf(does.setup) = index
           /\ StageFits(does)
<1>1. CASE \E length : IsWord(length) /\ type >= 128 /\ does = ControlIn(Setup(type, request, value, index, length), length)
  <2>1. PICK length, setup : /\ IsWord(length) /\ type >= 128 /\ setup = Setup(type, request, value, index, length)
                                        /\ does = ControlIn(setup, length)
    BY <1>1
  <2>2. does.out = "control_in" /\ does.setup = setup /\ does.room = length
    BY <2>1 DEF ControlIn
  <2> QED BY <2>1, <2>2, SetupIsRead DEF StageFits, IsSent
<1>2. CASE \E data : /\ IsWord(Len(data)) /\ type < 128
                     /\ does = ControlOut(Setup(type, request, value, index, Len(data)), data)
  <2>1. PICK data, setup : /\ IsWord(Len(data)) /\ type < 128
                           /\ setup = Setup(type, request, value, index, Len(data))
                           /\ does = ControlOut(setup, data)
    BY <1>2
  <2>2. does.out = "control_out" /\ does.setup = setup /\ does.data = data
    BY <2>1 DEF ControlOut
  <2> QED BY <2>1, <2>2, SetupIsRead DEF StageFits, IsSent
<1> QED BY <1>1, <1>2 DEF IsSent

LEMMA SetIsSent ==
    ASSUME NEW type \in 0 .. 127, NEW request, NEW value, IsWord(value), NEW index, IsWord(index)
    PROVE  IsSent(Set(type, request, value, index), type, request, value, index)
<1>0. Len(<<>>) = 0
  OBVIOUS
<1>1. IsWord(0)
  BY DEF IsWord
<1>2. Set(type, request, value, index) = ControlOut(Setup(type, request, value, index, 0), <<>>)
  BY DEF Set
<1>3. PICK data : data = <<>> /\ Len(data) = 0
  BY <1>0
<1>4. Set(type, request, value, index) = ControlOut(Setup(type, request, value, index, Len(data)), data)
  BY <1>2, <1>3
<1> QED BY <1>1, <1>3, <1>4 DEF IsSent

(* The rate is the clock over the divisor, in sixteenths and halved to the *)
(* next integer, also where the code returns one of its three rates.       *)
HalvedUp(n) == (n \div 2) + (n % 2)
Told(divisor, clock) == HalvedUp((16 * clock) \div divisor)

LEMMA ThreeRates ==
    ASSUME NEW c \in Nat, NEW middle \in Nat, NEW half \in Nat, 3 * middle = 2 * c, 2 * half = c
    PROVE  Told(8, c) = c /\ Told(12, c) = middle /\ Told(16, c) = half
<1>1. (16 * c) \div 8 = 2 * c /\ (16 * c) \div 12 = 2 * middle /\ (16 * c) \div 16 = 2 * half
  BY SMT
<1>2. HalvedUp(2 * c) = c /\ HalvedUp(2 * middle) = middle /\ HalvedUp(2 * half) = half
  BY SMT DEF HalvedUp
<1> QED BY <1>1, <1>2, Zenon DEF Told

LEMMA ClockBitsAreTold ==
    ASSUME NEW clock, NEW predivider, NEW c, Clock(clock, predivider, c), NEW baud \in Nat \ {0}
    PROVE  ClockBits(baud, clock, predivider).actual
             = Told(DivisorOf(ClockBits(baud, clock, predivider).encoded), c)
<1>1. PICK middle, half : /\ middle = clock \div (predivider + predivider \div 2)
                          /\ half = clock \div (2 * predivider)
  OBVIOUS
<1>2. PICK divisor, n : divisor = (16 * c) \div baud /\ n = HalvedUp(divisor)
  OBVIOUS
<1>3. PICK best : best = Limited(n)
  OBVIOUS
<1>4. PICK rate : rate = ClockBits(baud, clock, predivider)
  OBVIOUS
<1>5. rate = IF baud >= c THEN Rate(c, 0)
             ELSE IF baud >= middle THEN Rate(middle, 1)
             ELSE IF baud >= half THEN Rate(half, 2)
             ELSE Rate(Told(best, c), Encoded(best))
  BY <1>1, <1>2, <1>3, <1>4, Zenon DEF ClockBits, Clock, Limited, Told, HalvedUp
<1>6. /\ c \in Nat /\ middle \in Nat /\ half \in Nat
      /\ 3 * middle = 2 * c /\ 2 * half = c
  BY <1>1, Zenon DEF Clock
<1>7. Told(8, c) = c /\ Told(12, c) = middle /\ Told(16, c) = half
  BY <1>6, ThreeRates
<1>8. CASE rate = Rate(c, 0) \/ rate = Rate(middle, 1) \/ rate = Rate(half, 2)
  BY <1>4, <1>7, <1>8, FewDivisors DEF Rate
<1>9. CASE rate = Rate(Told(best, c), Encoded(best)) /\ baud < half
  <2>1. 16 * c \in Nat /\ 32 * baud <= 16 * c
    BY <1>6, <1>9, SMT
  <2>2. divisor \in Nat /\ divisor * baud <= 16 * c /\ 16 * c < divisor * baud + baud
    BY <1>2, <2>1, Quotient
  <2>3. n \in Nat /\ 2 * n \in {divisor, divisor + 1}
    BY <1>2, <2>2, HalfUp DEF HalvedUp
  <2>4. n >= 16
    BY <2>1, <2>2, <2>3, DivisorIsSmall
  <2>5. best \in Nat /\ Divides(best)
    BY <1>3, <2>3, <2>4, LimitedDivides
  <2>6. DivisorOf(Encoded(best)) = best
    BY <2>5, EncodedDecodes
  <2> QED BY <1>4, <1>9, <2>6 DEF Rate
<1>10. \/ rate = Rate(c, 0) \/ rate = Rate(middle, 1) \/ rate = Rate(half, 2)
       \/ rate = Rate(Told(best, c), Encoded(best)) /\ baud < half
  BY <1>5, <1>6
<1> QED BY <1>8, <1>9, <1>10

(* The rate a request asks for                                             *)
RateAsked(chip, value, index) ==
    [out |-> "ok", actual |-> Told(ChipDivisor(chip, value, index), ChipClock(chip, index)),
     value |-> value, index |-> index]

Splits(encoded, e, fast, high, value) ==
    encoded = e + fast * 2^17 /\ high = encoded \div 2^16 /\ value = encoded % 2^16

LEMMA SmallParts ==
    ASSUME NEW e \in Nat, SeventeenBits(e), NEW fast \in {0, 1}, NEW channel \in 0 .. 255,
           NEW encoded, NEW high, NEW value, Splits(encoded, e, fast, high, value)
    PROVE  IsWord(value) /\ IsWord(high) /\ IsWord(high * 256 + channel)
<1>1. 2^17 = 131072 /\ 2^16 = 65536
  BY SMT
<1>2. encoded \in Nat /\ encoded < 262144
  BY <1>1, SMT DEF SeventeenBits, Splits
<1>3. value = encoded % 65536 /\ high = encoded \div 65536
  BY <1>1 DEF Splits
<1>4. value \in Nat /\ value < 65536 /\ high \in Nat /\ high < 4
  BY <1>2, <1>3, SMT
<1>5. IsWord(value) /\ IsWord(high)
  BY <1>4, SMT DEF IsWord
<1>6. IsWord(high * 256 + channel)
  BY <1>4, SMT DEF IsWord
<1> QED BY <1>5, <1>6

LEMMA SetRateIsAsked ==
    ASSUME NEW baud \in Nat, NEW chip \in Chips \ {"ft232am"}, NEW channel, Channel(chip, channel),
           NEW set, set = SetBaudRate(baud, chip, channel), set.out = "ok"
    PROVE  /\ set = RateAsked(chip, set.value, set.index)
           /\ IsWord(set.value) /\ IsWord(set.index)
<1>1. PICK divisor : divisor = ConvertBaudRate(baud, chip, channel)
  OBVIOUS
<1>2. set = IF baud = 0 THEN [out |-> "InvalidBaudRate"]
            ELSE IF Abs(divisor.actual - baud) * 20 > baud THEN [out |-> "UnsupportedBaudRate"]
            ELSE [out |-> "ok", actual |-> divisor.actual, value |-> divisor.value,
                  index |-> divisor.index]
  BY <1>1, Zenon DEF SetBaudRate
<1>3. set = [out |-> "ok", actual |-> divisor.actual, value |-> divisor.value, index |-> divisor.index]
      /\ baud # 0
  BY <1>2
<1>4. PICK rate, fast, encoded, high :
         /\ rate = Chosen(baud, chip) /\ fast = Fast(baud, chip)
         /\ encoded = rate.encoded + fast * 2^17 /\ high = encoded \div 2^16
  BY Zenon
<1>5. /\ Real(rate, ClockOf(fast)) /\ fast \in {0, 1}
      /\ Converted(baud, chip).actual = rate.actual /\ Converted(baud, chip).encoded = encoded
  BY <1>3, <1>4, ConvertedIsChosen, Zenon
<1>6. divisor = [actual |-> rate.actual, value |-> encoded % 2^16,
                 index |-> IF chip \in WideIndex THEN high * 256 + channel ELSE high]
  BY <1>1, <1>4, <1>5, Zenon DEF ConvertBaudRate
<1>7. PICK value, index : /\ value = encoded % 2^16
                          /\ index = IF chip \in WideIndex THEN high * 256 + channel ELSE high
  OBVIOUS
<1>8. set = [out |-> "ok", actual |-> rate.actual, value |-> value, index |-> index]
  BY <1>3, <1>6, <1>7
<1>9. SeventeenBits(rate.encoded) /\ rate.encoded \in Nat /\ channel \in 0 .. 255
  BY <1>5, SMT DEF Real, SeventeenBits, Channel
<1>10. IsWord(value) /\ IsWord(index)
  <2>1. PICK e : e = rate.encoded
    OBVIOUS
  <2>2. SeventeenBits(e) /\ e \in Nat /\ fast \in {0, 1} /\ channel \in 0 .. 255
    BY <1>5, <1>9, <2>1, Zenon
  <2>3. Splits(encoded, e, fast, high, value)
    BY <1>4, <1>7, <2>1, Zenon DEF Splits
  <2>4. IsWord(value) /\ IsWord(high) /\ IsWord(high * 256 + channel)
    BY <2>2, <2>3, SmallParts
  <2> QED BY <1>7, <2>4, Zenon
<1>11. rate.actual = Told(DivisorOf(rate.encoded), ClockOf(fast))
  <2>1. CASE FastClock(baud, chip)
    <3>1. rate = ClockBits(baud, 120000000, 10) /\ fast = 1
      BY <1>4, <2>1, SMT DEF Chosen, Fast
    <3>2. ClockOf(fast) = 12000000
      BY <3>1 DEF ClockOf
    <3> QED BY <1>3, <3>1, <3>2, TheClocks, ClockBitsAreTold
  <2>2. CASE ~FastClock(baud, chip)
    <3>1. rate = ClockBits(baud, 48000000, 16) /\ fast = 0
      BY <1>4, <2>2, SMT DEF Chosen, Fast
    <3>2. ClockOf(fast) = 3000000
      BY <3>1 DEF ClockOf
    <3> QED BY <1>3, <3>1, <3>2, TheClocks, ClockBitsAreTold
  <2> QED BY <2>1, <2>2
<1>12. Carries(value, index, rate.encoded + fast * 2^17, chip, channel)
  BY <1>4, <1>7, Zenon DEF Carries
<1>13. /\ ChipDivisor(chip, value, index) = DivisorOf(rate.encoded)
       /\ ChipClock(chip, index) = ClockOf(fast)
  <2>1. PICK e : e = rate.encoded
    OBVIOUS
  <2> QED BY <1>5, <1>9, <1>12, <2>1, RequestIsDecoded
<1>14. set = RateAsked(chip, value, index)
  BY <1>8, <1>11, <1>13, Zenon DEF RateAsked
<1>15. set.value = value /\ set.index = index
  BY <1>8
<1> QED BY <1>10, <1>14, <1>15

(* The call a device reads out of a request and its data stage             *)
CdcCall(request, value, does) ==
    IF request = 32 THEN <<"SetLineCoding", CodingFrom(does.data).coding>>
    ELSE IF request = 33 THEN <<"GetLineCoding">>
    ELSE IF request = 34 THEN <<"SetControlLineState", value % 2 = 1, (value \div 2) % 2 = 1>>
    ELSE <<"SendBreak", value>>

HidCall(type, request, value, does) ==
    IF type = 129 THEN <<"GetReportDescriptor">>
    ELSE IF request = 3 THEN <<"GetProtocol">>
    ELSE IF request = 1 THEN <<"GetReport", ReportTypes[value \div 256], value % 256, does.room>>
    ELSE IF request = 9 THEN <<"SetReport", ReportTypes[value \div 256], value % 256, does.data>>
    ELSE IF request = 2 THEN <<"GetIdle", value>>
    ELSE IF request = 10 THEN <<"SetIdle", value % 256, value \div 256>>
    ELSE <<"SetProtocol", IF value = 0 THEN "Boot" ELSE "Report">>

FlowOf(bits) ==
    IF bits = 0 THEN "Disabled" ELSE IF bits = 1 THEN "RtsCts" ELSE IF bits = 2 THEN "DtrDsr" ELSE "XonXoff"

FtdiCall(request, value, index) ==
    IF request = 0
    THEN IF value = 0 THEN <<"Reset">> ELSE IF value = 2 THEN <<"PurgeRx">> ELSE <<"PurgeTx">>
    ELSE IF request = 1 THEN <<"SetDtrRts", value % 2 = 1, (value \div 2) % 2 = 1>>
    ELSE IF request = 2 THEN <<"SetFlowControl", FlowOf(index \div 256)>>
    ELSE IF request = 3 THEN <<"SetBaudRate", RateAsked("ft2232h", value, index)>>
    ELSE <<"SetLineProperties", value % 256, StopBits[((value \div 2048) % 8) + 1],
           Parities[((value \div 256) % 8) + 1], (value \div 16384) % 2 = 1>>

TmcCall(request, value) ==
    IF request = 7 THEN <<"GetCapabilities">> ELSE <<"RemoteEnable", value % 2 = 1>>

AudioCall(request, value, index) ==
    IF request = 11 THEN <<"SelectAlternate", value>> ELSE <<"SetSampleRate", index>>

Asked(driver, type, request, value, index, does) ==
    CASE driver = "cdc"   -> CdcCall(request, value, does)
      [] driver = "hid"   -> HidCall(type, request, value, does)
      [] driver = "ftdi"  -> FtdiCall(request, value, index)
      [] driver = "tmc"   -> TmcCall(request, value)
      [] driver = "audio" -> AudioCall(request, value, index)

LEMMA WhatIsAsked ==
    ASSUME NEW type, NEW request, NEW value, NEW index, NEW does
    PROVE  /\ Asked("cdc", type, request, value, index, does) = CdcCall(request, value, does)
           /\ Asked("hid", type, request, value, index, does) = HidCall(type, request, value, does)
           /\ Asked("ftdi", type, request, value, index, does) = FtdiCall(request, value, index)
           /\ Asked("tmc", type, request, value, index, does) = TmcCall(request, value)
           /\ Asked("audio", type, request, value, index, does) = AudioCall(request, value, index)
<1>1. Asked("cdc", type, request, value, index, does) = CdcCall(request, value, does)
  BY DEF Asked
<1>2. Asked("hid", type, request, value, index, does) = HidCall(type, request, value, does)
  BY DEF Asked
<1>3. Asked("ftdi", type, request, value, index, does) = FtdiCall(request, value, index)
  BY DEF Asked
<1>4. Asked("tmc", type, request, value, index, does) = TmcCall(request, value)
  BY DEF Asked
<1>5. Asked("audio", type, request, value, index, does) = AudioCall(request, value, index)
  BY DEF Asked
<1> QED BY <1>1, <1>2, <1>3, <1>4, <1>5

(* A call is heard if the device reads it out of what was sent.            *)
Heard(driver, c) ==
    /\ c.call = Asked(driver, c.does.setup[1], c.does.setup[2], ValueOf(c.does.setup),
                      IndexOf(c.does.setup), c.does)
    /\ StageFits(c.does)

LEMMA SentIsHeard ==
    ASSUME NEW driver, NEW c, NEW type \in Nat, NEW request, NEW value, NEW index,
           IsSent(c.does, type, request, value, index),
           c.call = Asked(driver, type, request, value, index, c.does)
    PROVE  Heard(driver, c)
<1>1. PICK does : does = c.does
  OBVIOUS
<1>2. /\ does.setup[1] = type /\ does.setup[2] = request
      /\ ValueOf(does.setup) = value /\ IndexOf(does.setup) = index /\ StageFits(does)
  BY <1>1, SentIsRead
<1> QED BY <1>1, <1>2, Zenon DEF Heard

Goes(does) == does.out \in {"control_in", "control_out"}

LEMMA InIsSent ==
    ASSUME NEW type \in Nat, type >= 128, NEW request, NEW value, IsWord(value), NEW index, IsWord(index),
           NEW room, IsWord(room), NEW does, does = ControlIn(Setup(type, request, value, index, room), room)
    PROVE  IsSent(does, type, request, value, index) /\ does.room = room
<1>1. does.room = room
  BY DEF ControlIn
<1> QED BY <1>1, Zenon DEF IsSent

LEMMA OutIsSent ==
    ASSUME NEW type \in Nat, type < 128, NEW request, NEW value, IsWord(value), NEW index, IsWord(index),
           NEW data, NEW length, length = Len(data), IsWord(length),
           NEW does, does = ControlOut(Setup(type, request, value, index, length), data)
    PROVE  IsSent(does, type, request, value, index) /\ does.data = data
<1>1. does.data = data
  BY DEF ControlOut
<1> QED BY <1>1, Zenon DEF IsSent

(* Two flags of a word                                                     *)
LEMMA TwoFlags ==
    ASSUME NEW a \in BOOLEAN, NEW b \in BOOLEAN, NEW base \in {0, 768},
           NEW value, value = base + Flag(a) + 2 * Flag(b)
    PROVE  IsWord(value) /\ a = (value % 2 = 1) /\ b = ((value \div 2) % 2 = 1)
<1>1. PICK x, y : x = Flag(a) /\ y = Flag(b)
  OBVIOUS
<1>2. x \in {0, 1} /\ y \in {0, 1} /\ (a <=> x = 1) /\ (b <=> y = 1)
  BY <1>1 DEF Flag
<1>3. value = base + x + 2 * y
  BY <1>1
<1>4. IsWord(value) /\ value % 2 = x /\ (value \div 2) % 2 = y
  BY <1>2, <1>3, SMT DEF IsWord
<1> QED BY <1>2, <1>4

LEMMA CodeOfPlace ==
    ASSUME NEW names, NEW n \in Nat, DOMAIN names = 1 .. n, NEW i \in 1 .. n,
           \A j, k \in 1 .. n : names[j] = names[k] => j = k
    PROVE  Code(names, names[i]) = i - 1
<1>1. PICK place : place = CHOOSE j \in DOMAIN names : names[j] = names[i]
  OBVIOUS
<1>2. place \in DOMAIN names /\ names[place] = names[i]
  BY <1>1
<1>3. place = i
  BY <1>2
<1> QED BY <1>1, <1>3 DEF Code

LEMMA NameTables ==
    /\ DOMAIN ReportTypes = 1 .. 3 /\ DOMAIN StopBits = 1 .. 3 /\ DOMAIN Parities = 1 .. 5
    /\ \A j, k \in 1 .. 3 : ReportTypes[j] = ReportTypes[k] => j = k
    /\ \A j, k \in 1 .. 3 : StopBits[j] = StopBits[k] => j = k
    /\ \A j, k \in 1 .. 5 : Parities[j] = Parities[k] => j = k
<1>1. DOMAIN ReportTypes = 1 .. 3 /\ DOMAIN StopBits = 1 .. 3 /\ DOMAIN Parities = 1 .. 5
  BY DEF ReportTypes, StopBits, Parities
<1>2. ReportTypes[1] = "Input" /\ ReportTypes[2] = "Output" /\ ReportTypes[3] = "Feature"
  BY DEF ReportTypes
<1>3. StopBits[1] = "One" /\ StopBits[2] = "OnePointFive" /\ StopBits[3] = "Two"
  BY DEF StopBits
<1>4. /\ Parities[1] = "None" /\ Parities[2] = "Odd" /\ Parities[3] = "Even"
      /\ Parities[4] = "Mark" /\ Parities[5] = "Space"
  BY DEF Parities
<1>5. \A j, k \in 1 .. 3 : ReportTypes[j] = ReportTypes[k] => j = k
  BY <1>2
<1>6. \A j, k \in 1 .. 3 : StopBits[j] = StopBits[k] => j = k
  BY <1>3
<1>7. \A j, k \in 1 .. 5 : Parities[j] = Parities[k] => j = k
  BY <1>4
<1> QED BY <1>1, <1>5, <1>6, <1>7

LEMMA NamedCode ==
    ASSUME NEW names, NEW n \in Nat, DOMAIN names = 1 .. n,
           \A j, k \in 1 .. n : names[j] = names[k] => j = k, NEW name \in Range(names)
    PROVE  \E i \in 1 .. n : name = names[i] /\ Code(names, name) = i - 1
<1>1. PICK i \in 1 .. n : name = names[i]
  BY DEF Range
<1>2. Code(names, names[i]) = i - 1
  BY CodeOfPlace
<1> QED BY <1>1, <1>2

LEMMA NamedCodes ==
    /\ \A t \in Range(ReportTypes) : \E i \in 1 .. 3 : t = ReportTypes[i] /\ Code(ReportTypes, t) = i - 1
    /\ \A t \in Range(StopBits) : \E i \in 1 .. 3 : t = StopBits[i] /\ Code(StopBits, t) = i - 1
    /\ \A t \in Range(Parities) : \E i \in 1 .. 5 : t = Parities[i] /\ Code(Parities, t) = i - 1
<1>1. 3 \in Nat /\ 5 \in Nat
  OBVIOUS
<1> QED BY <1>1, NameTables, NamedCode, Zenon

TwoOf(value, high, low) ==
    high \in Nat /\ high < 256 /\ low \in Nat /\ low < 256 /\ value = high * 256 + low

LEMMA TwoBytes ==
    ASSUME NEW high, NEW low, NEW value, TwoOf(value, high, low)
    PROVE  IsWord(value) /\ value \div 256 = high /\ value % 256 = low
<1>1. IsWord(value)
  BY SMT DEF IsWord, TwoOf
<1>2. value \div 256 = high
  BY SMT DEF TwoOf
<1>3. value % 256 = low
  BY SMT DEF TwoOf
<1> QED BY <1>1, <1>2, <1>3

LEMMA HidSent ==
    ASSUME NEW c, NEW type \in Nat, NEW request, NEW value, NEW index,
           IsSent(c.does, type, request, value, index), c.call = HidCall(type, request, value, c.does)
    PROVE  Heard("hid", c)
<1>1. Asked("hid", type, request, value, index, c.does) = HidCall(type, request, value, c.does)
  BY WhatIsAsked
<1> QED BY <1>1, SentIsHeard

LEMMA HidMade ==
    ASSUME NEW c, c \in HidCalls
    PROVE  \/ c.call = <<"GetReportDescriptor">> /\ c.does = GetReportDescriptor(3, 300, 400)
           \/ c.call = <<"GetProtocol">> /\ c.does = GetProtocol(3)
           \/ \E t \in Range(ReportTypes), id \in 0..3, room \in {0, 1, 300, 65536} :
                 c.call = <<"GetReport", t, id, room>> /\ c.does = GetReport(3, t, id, room)
           \/ \E t \in Range(ReportTypes), id \in 0..3, report \in {<<>>, <<1>>, <<1, 2>>} :
                 c.call = <<"SetReport", t, id, report>> /\ c.does = SetReport(3, t, id, report)
           \/ \E id \in {0, 1, 255} : c.call = <<"GetIdle", id>> /\ c.does = GetIdle(3, id)
           \/ \E id, d \in {0, 1, 255} : c.call = <<"SetIdle", id, d>> /\ c.does = SetIdle(3, id, d)
           \/ \E p \in {"Boot", "Report"} : c.call = <<"SetProtocol", p>> /\ c.does = SetProtocol(3, p)
  BY SMTT(60) DEF HidCalls, Sends

LEMMA ReportIsNamed ==
    ASSUME NEW t \in Range(ReportTypes), NEW id \in Nat, id < 256, NEW value, value = ReportValue(t, id)
    PROVE  IsWord(value) /\ ReportTypes[value \div 256] = t /\ value % 256 = id
<1>1. PICK i \in 1 .. 3 : t = ReportTypes[i] /\ value = i * 256 + id
  BY NamedCodes DEF ReportValue
<1>2. TwoOf(value, i, id)
  BY <1>1 DEF TwoOf
<1>3. IsWord(value) /\ value \div 256 = i /\ value % 256 = id
  BY <1>2, TwoBytes
<1> QED BY <1>1, <1>3

LEMMA GetReportHeard ==
    ASSUME NEW c, NEW n, IsWord(n), NEW t \in Range(ReportTypes), NEW id \in Nat, id < 256, NEW room \in Nat,
           c.call = <<"GetReport", t, id, room>>, c.does = GetReport(n, t, id, room), Goes(c.does)
    PROVE  Heard("hid", c)
<1>1. IsWord(room)
  <2>1. CASE room >= 2^16
    BY <2>1 DEF GetReport, Rejected, Goes
  <2>2. CASE ~(room >= 2^16)
    BY <2>2 DEF IsWord
  <2> QED BY <2>1, <2>2
<1>2. PICK value : value = ReportValue(t, id)
  OBVIOUS
<1>3. IsWord(value) /\ ReportTypes[value \div 256] = t /\ value % 256 = id
  BY <1>2, ReportIsNamed
<1>4. c.does = ControlIn(Setup(161, 1, value, n, room), room)
  BY <1>1, <1>2 DEF GetReport, IsWord
<1>5. IsSent(c.does, 161, 1, value, n) /\ c.does.room = room
  BY <1>1, <1>3, <1>4, InIsSent
<1>6. c.call = HidCall(161, 1, value, c.does)
  BY <1>3, <1>5 DEF HidCall
<1> QED BY <1>5, <1>6, HidSent

LEMMA SetReportHeard ==
    ASSUME NEW c, NEW n, IsWord(n), NEW t \in Range(ReportTypes), NEW id \in Nat, id < 256,
           NEW report, Len(report) \in Nat,
           c.call = <<"SetReport", t, id, report>>, c.does = SetReport(n, t, id, report), Goes(c.does)
    PROVE  Heard("hid", c)
<1>1. PICK length : length = Len(report)
  OBVIOUS
<1>2. IsWord(length)
  <2>1. CASE length >= 2^16
    BY <1>1, <2>1 DEF SetReport, Rejected, Goes
  <2>2. CASE ~(length >= 2^16)
    BY <1>1, <2>2 DEF IsWord
  <2> QED BY <2>1, <2>2
<1>3. PICK value : value = ReportValue(t, id)
  OBVIOUS
<1>4. IsWord(value) /\ ReportTypes[value \div 256] = t /\ value % 256 = id
  BY <1>3, ReportIsNamed
<1>5. c.does = ControlOut(Setup(33, 9, value, n, length), report)
  BY <1>1, <1>2, <1>3 DEF SetReport, IsWord
<1>6. IsSent(c.does, 33, 9, value, n) /\ c.does.data = report
  BY <1>1, <1>2, <1>4, <1>5, OutIsSent
<1>7. c.call = HidCall(33, 9, value, c.does)
  BY <1>4, <1>6 DEF HidCall
<1> QED BY <1>6, <1>7, HidSent

LEMMA HidHeard ==
    ASSUME NEW c, c \in HidCalls, Goes(c.does)
    PROVE  Heard("hid", c)
<1>0. /\ IsWord(0) /\ IsWord(1) /\ IsWord(3) /\ IsWord(300) /\ IsWord(34 * 256)
      /\ 129 \in Nat /\ 161 \in Nat /\ 33 \in Nat /\ 33 \in 0 .. 127
  BY DEF IsWord
<1>1. CASE c.call = <<"GetReportDescriptor">> /\ c.does = GetReportDescriptor(3, 300, 400)
  <2>0. PICK value, length : value = 34 * 256 /\ length = 300
    OBVIOUS
  <2>1. c.does = ControlIn(Setup(129, 6, value, 3, length), length)
    BY <1>1, <2>0 DEF GetReportDescriptor
  <2>2. IsSent(c.does, 129, 6, value, 3)
    <3>1. IsWord(value) /\ IsWord(length) /\ IsWord(3)
      BY <1>0, <2>0
    <3>2. 129 >= 128
      OBVIOUS
    <3> QED BY <2>1, <3>1, <3>2, Zenon DEF IsSent
  <2>3. c.call = HidCall(129, 6, value, c.does)
    BY <1>1 DEF HidCall
  <2> QED BY <1>0, <2>2, <2>3, HidSent
<1>2. CASE c.call = <<"GetProtocol">> /\ c.does = GetProtocol(3)
  <2>1. c.does = ControlIn(Setup(161, 3, 0, 3, 1), 1)
    BY <1>2 DEF GetProtocol
  <2>2. IsSent(c.does, 161, 3, 0, 3)
    BY <1>0, <2>1, InIsSent
  <2>3. c.call = HidCall(161, 3, 0, c.does)
    BY <1>2 DEF HidCall
  <2> QED BY <1>0, <2>2, <2>3, HidSent
<1>3. ASSUME NEW t \in Range(ReportTypes), NEW id \in 0..3, NEW room \in {0, 1, 300, 65536},
             c.call = <<"GetReport", t, id, room>> /\ c.does = GetReport(3, t, id, room)
      PROVE  Heard("hid", c)
  <2>1. room \in Nat /\ id \in Nat /\ id < 256
    OBVIOUS
  <2> QED BY <1>0, <1>3, <2>1, GetReportHeard
<1>4. ASSUME NEW t \in Range(ReportTypes), NEW id \in 0..3, NEW report \in {<<>>, << 1 >>, << 1, 2 >>},
             c.call = <<"SetReport", t, id, report>> /\ c.does = SetReport(3, t, id, report)
      PROVE  Heard("hid", c)
  <2>1. Len(report) \in Nat /\ id \in Nat /\ id < 256
    OBVIOUS
  <2> QED BY <1>0, <1>4, <2>1, SetReportHeard
<1>5. ASSUME NEW id \in {0, 1, 255}, c.call = <<"GetIdle", id>> /\ c.does = GetIdle(3, id)
      PROVE  Heard("hid", c)
  <2>1. c.does = ControlIn(Setup(161, 2, id, 3, 1), 1) /\ IsWord(id)
    BY <1>5 DEF GetIdle, IsWord
  <2>2. IsSent(c.does, 161, 2, id, 3)
    BY <1>0, <2>1, InIsSent
  <2>3. c.call = HidCall(161, 2, id, c.does)
    BY <1>5 DEF HidCall
  <2> QED BY <1>0, <2>2, <2>3, HidSent
<1>6. ASSUME NEW id \in {0, 1, 255}, NEW d \in {0, 1, 255},
             c.call = <<"SetIdle", id, d>> /\ c.does = SetIdle(3, id, d)
      PROVE  Heard("hid", c)
  <2>1. PICK value : value = d * 256 + id
    OBVIOUS
  <2>2. IsWord(value) /\ value \div 256 = d /\ value % 256 = id
    <3>1. TwoOf(value, d, id)
      BY <2>1 DEF TwoOf
    <3> QED BY <3>1, TwoBytes
  <2>3. c.does = Set(33, 10, value, 3)
    BY <1>6, <2>1 DEF SetIdle
  <2>4. IsSent(c.does, 33, 10, value, 3)
    BY <1>0, <2>2, <2>3, SetIsSent
  <2>5. c.call = HidCall(33, 10, value, c.does)
    BY <1>6, <2>2 DEF HidCall
  <2> QED BY <1>0, <2>4, <2>5, HidSent
<1>7. ASSUME NEW p \in {"Boot", "Report"}, c.call = <<"SetProtocol", p>> /\ c.does = SetProtocol(3, p)
      PROVE  Heard("hid", c)
  <2>1. PICK value : value = IF p = "Boot" THEN 0 ELSE 1
    OBVIOUS
  <2>2. IsWord(value) /\ p = IF value = 0 THEN "Boot" ELSE "Report"
    BY <1>0, <2>1
  <2>3. c.does = Set(33, 11, value, 3)
    BY <1>7, <2>1 DEF SetProtocol
  <2>4. IsSent(c.does, 33, 11, value, 3)
    BY <1>0, <2>2, <2>3, SetIsSent
  <2>5. c.call = HidCall(33, 11, value, c.does)
    BY <1>7, <2>2 DEF HidCall
  <2> QED BY <1>0, <2>4, <2>5, HidSent
<1> QED BY <1>1, <1>2, <1>3, <1>4, <1>5, <1>6, <1>7, HidMade

LEMMA FtdiSent ==
    ASSUME NEW c, NEW request, NEW value, IsWord(value), NEW index, IsWord(index),
           c.does = VendorOut(request, value, index), c.call = FtdiCall(request, value, index)
    PROVE  Heard("ftdi", c)
<1>1. Asked("ftdi", 64, request, value, index, c.does) = FtdiCall(request, value, index)
  BY WhatIsAsked
<1>2. 64 \in 0 .. 127 /\ 64 \in Nat
  OBVIOUS
<1>3. IsSent(c.does, 64, request, value, index)
  <2>1. IsSent(Set(64, request, value, index), 64, request, value, index)
    BY <1>2, SetIsSent
  <2> QED BY <2>1, Zenon DEF VendorOut
<1> QED BY <1>1, <1>2, <1>3, SentIsHeard

LEMMA FtdiMade ==
    ASSUME NEW c, c \in FtdiCalls
    PROVE  \/ c.call = <<"Reset">> /\ c.does = SioReset
           \/ c.call = <<"PurgeRx">> /\ c.does = PurgeRx(2)
           \/ c.call = <<"PurgeTx">> /\ c.does = PurgeTx(2)
           \/ \E b \in SampleRates : /\ c.call = <<"SetBaudRate", SetBaudRate(b, "ft2232h", 2)>>
                                     /\ c.does = VendorBaudRate("ft2232h", 2, b)
           \/ \E n \in 6..8, s \in Range(StopBits), p \in Range(Parities), b \in BOOLEAN :
                 c.call = <<"SetLineProperties", n, s, p, b>> /\ c.does = SetLineProperties(2, n, s, p, b)
           \/ \E flow \in {"Disabled", "RtsCts", "DtrDsr", "XonXoff"} :
                 c.call = <<"SetFlowControl", flow>> /\ c.does = SetFlowControl(2, flow, 17, 19)
           \/ \E dtr, rts \in BOOLEAN : c.call = <<"SetDtrRts", dtr, rts>> /\ c.does = SetDtrRts(2, dtr, rts)
  BY SMTT(60) DEF FtdiCalls, Sends

LEMMA BaudRateHeard ==
    ASSUME NEW c, NEW baud \in Nat, Goes(c.does),
           c.call = <<"SetBaudRate", SetBaudRate(baud, "ft2232h", 2)>>,
           c.does = VendorBaudRate("ft2232h", 2, baud)
    PROVE  Heard("ftdi", c)
<1>1. PICK set : set = SetBaudRate(baud, "ft2232h", 2)
  OBVIOUS
<1>2. c.does = IF set.out = "ok" THEN VendorOut(3, set.value, set.index) ELSE Rejected(set.out)
  BY <1>1, Zenon DEF VendorBaudRate
<1>3. set.out = "ok"
  <2> SUFFICES ASSUME set.out # "ok" PROVE FALSE
    OBVIOUS
  <2>1. c.does = Rejected(set.out)
    BY <1>2
  <2> QED BY <2>1 DEF Rejected, Goes
<1>4. "ft2232h" \in Chips \ {"ft232am"} /\ Channel("ft2232h", 2)
  BY DEF Chips, Channel, WideIndex, HType
<1>5. PICK value, index : value = set.value /\ index = set.index
  OBVIOUS
<1>6. set = RateAsked("ft2232h", value, index) /\ IsWord(value) /\ IsWord(index)
  BY <1>1, <1>3, <1>4, <1>5, SetRateIsAsked
<1>7. c.call = <<"SetBaudRate", set>>
  BY <1>1, Zenon
<1>8. c.call = FtdiCall(3, value, index)
  BY <1>6, <1>7 DEF FtdiCall
<1>9. c.does = VendorOut(3, value, index)
  BY <1>2, <1>3, <1>5
<1> QED BY <1>6, <1>8, <1>9, FtdiSent

LineValue(bits, p, s, b) == bits + p * 2^8 + s * 2^11 + b * 2^14

LEMMA LineValueIsRead ==
    ASSUME NEW bits \in {7, 8}, NEW p \in 0 .. 4, NEW s \in 0 .. 2, NEW b \in {0, 1},
           NEW value, value = LineValue(bits, p, s, b)
    PROVE  /\ IsWord(value) /\ value % 256 = bits
           /\ (value \div 256) % 8 = p /\ (value \div 2048) % 8 = s /\ (value \div 16384) % 2 = b
<1>1. 2^8 = 256 /\ 2^11 = 2048 /\ 2^14 = 16384
  BY SMT
<1>2. value = bits + p * 256 + s * 2048 + b * 16384
  BY <1>1 DEF LineValue
<1>3. IsWord(value) /\ value % 256 = bits
  BY <1>2, SMT DEF IsWord
<1>4. value \div 256 = p + 8 * s + 64 * b
  BY <1>2, SMT
<1>5. value \div 2048 = s + 8 * b
  BY <1>2, SMT
<1>6. value \div 16384 = b
  BY <1>2, SMT
<1> QED BY <1>3, <1>4, <1>5, <1>6, SMT

LEMMA LinePropertiesHeard ==
    ASSUME NEW c, NEW channel, IsWord(channel), NEW n \in Nat, NEW s \in Range(StopBits), NEW p \in Range(Parities),
           NEW b \in BOOLEAN, Goes(c.does),
           c.call = <<"SetLineProperties", n, s, p, b>>, c.does = SetLineProperties(channel, n, s, p, b)
    PROVE  Heard("ftdi", c)
<1>1. n \in {7, 8}
  BY DEF SetLineProperties, Rejected, Goes
<1>2. PICK i \in 1 .. 3 : s = StopBits[i] /\ Code(StopBits, s) = i - 1
  BY NamedCodes
<1>3. PICK j \in 1 .. 5 : p = Parities[j] /\ Code(Parities, p) = j - 1
  BY NamedCodes
<1>4. PICK f \in {0, 1} : f = Flag(b) /\ b = (f = 1)
  BY DEF Flag
<1>5. PICK k, m : k = i - 1 /\ m = j - 1
  OBVIOUS
<1>6. k \in 0 .. 2 /\ m \in 0 .. 4 /\ k + 1 = i /\ m + 1 = j
  BY <1>5
<1>7. PICK value : value = LineValue(n, m, k, f)
  OBVIOUS
<1>8. c.does = VendorOut(4, value, channel)
  BY <1>1, <1>2, <1>3, <1>4, <1>5, <1>7 DEF SetLineProperties, LineValue
<1>9. /\ IsWord(value) /\ value % 256 = n
      /\ (value \div 256) % 8 = m /\ (value \div 2048) % 8 = k /\ (value \div 16384) % 2 = f
  BY <1>1, <1>6, <1>7, LineValueIsRead
<1>10. c.call = FtdiCall(4, value, channel)
  BY <1>2, <1>3, <1>4, <1>6, <1>9 DEF FtdiCall
<1> QED BY <1>8, <1>9, <1>10, FtdiSent

FlowArguments(channel, flow, xon, xoff) ==
    /\ flow \in {"Disabled", "RtsCts", "DtrDsr", "XonXoff"}
    /\ channel \in 0 .. 255 /\ xon \in 0 .. 255 /\ xoff \in 0 .. 255

FlowSent(flow, sent) ==
    \E value, index : /\ IsWord(value) /\ IsWord(index) /\ FlowOf(index \div 256) = flow
                      /\ sent = VendorOut(2, value, index)

LEMMA FlowIsRead ==
    ASSUME NEW channel, NEW flow, NEW xon, NEW xoff, FlowArguments(channel, flow, xon, xoff)
    PROVE  FlowSent(flow, SetFlowControl(channel, flow, xon, xoff))
<1>1. PICK bits : bits = [Disabled |-> 0, RtsCts |-> 1, DtrDsr |-> 2, XonXoff |-> 4][flow]
  OBVIOUS
<1>2. bits \in {0, 1, 2, 4} /\ FlowOf(bits) = flow
  BY <1>1 DEF FlowOf, FlowArguments
<1>3. PICK value, index : /\ value = IF flow = "XonXoff" THEN xon + xoff * 256 ELSE 0
                          /\ index = channel + 256 * bits
  OBVIOUS
<1>4. IsWord(value)
  BY <1>3, SMT DEF IsWord, FlowArguments
<1>5. IsWord(index) /\ index \div 256 = bits
  BY <1>2, <1>3, SMT DEF IsWord, FlowArguments
<1>6. SetFlowControl(channel, flow, xon, xoff) = VendorOut(2, value, index)
  BY <1>1, <1>3, Zenon DEF SetFlowControl
<1> QED BY <1>2, <1>4, <1>5, <1>6, Zenon DEF FlowSent

LEMMA FtdiHeard ==
    ASSUME NEW c, c \in FtdiCalls, Goes(c.does)
    PROVE  Heard("ftdi", c)
<1>0. /\ IsWord(0) /\ IsWord(1) /\ IsWord(2)
  BY DEF IsWord
<1>1. CASE c.call = <<"Reset">> /\ c.does = SioReset
  <2>1. c.does = VendorOut(0, 0, 0) /\ c.call = FtdiCall(0, 0, 0)
    BY <1>1 DEF SioReset, FtdiCall
  <2> QED BY <1>0, <2>1, FtdiSent
<1>2. CASE c.call = <<"PurgeRx">> /\ c.does = PurgeRx(2)
  <2>1. c.does = VendorOut(0, 2, 2) /\ c.call = FtdiCall(0, 2, 2)
    BY <1>2 DEF PurgeRx, FtdiCall
  <2> QED BY <1>0, <2>1, FtdiSent
<1>3. CASE c.call = <<"PurgeTx">> /\ c.does = PurgeTx(2)
  <2>1. c.does = VendorOut(0, 1, 2) /\ c.call = FtdiCall(0, 1, 2)
    BY <1>3 DEF PurgeTx, FtdiCall
  <2> QED BY <1>0, <2>1, FtdiSent
<1>4. ASSUME NEW b \in SampleRates,
             c.call = <<"SetBaudRate", SetBaudRate(b, "ft2232h", 2)>> /\ c.does = VendorBaudRate("ft2232h", 2, b)
      PROVE  Heard("ftdi", c)
  BY <1>4, LibraryAssumption, BaudRateHeard
<1>5. ASSUME NEW n \in 6..8, NEW s \in Range(StopBits), NEW p \in Range(Parities), NEW b \in BOOLEAN,
             c.call = <<"SetLineProperties", n, s, p, b>> /\ c.does = SetLineProperties(2, n, s, p, b)
      PROVE  Heard("ftdi", c)
  BY <1>0, <1>5, LinePropertiesHeard
<1>6. ASSUME NEW flow \in {"Disabled", "RtsCts", "DtrDsr", "XonXoff"},
             c.call = <<"SetFlowControl", flow>> /\ c.does = SetFlowControl(2, flow, 17, 19)
      PROVE  Heard("ftdi", c)
  <2>1. FlowArguments(2, flow, 17, 19)
    BY <1>6 DEF FlowArguments
  <2>2. FlowSent(flow, SetFlowControl(2, flow, 17, 19))
    BY <2>1, FlowIsRead
  <2>3. FlowSent(flow, c.does)
    BY <1>6, <2>2
  <2>4. PICK value, index : /\ IsWord(value) /\ IsWord(index) /\ FlowOf(index \div 256) = flow
                            /\ c.does = VendorOut(2, value, index)
    BY <2>3 DEF FlowSent
  <2>5. c.call = FtdiCall(2, value, index)
    BY <1>6, <2>4 DEF FtdiCall
  <2> QED BY <2>4, <2>5, FtdiSent
<1>7. ASSUME NEW dtr \in BOOLEAN, NEW rts \in BOOLEAN,
             c.call = <<"SetDtrRts", dtr, rts>> /\ c.does = SetDtrRts(2, dtr, rts)
      PROVE  Heard("ftdi", c)
  <2>1. PICK value : value = 768 + Flag(dtr) + 2 * Flag(rts)
    OBVIOUS
  <2>2. IsWord(value) /\ dtr = (value % 2 = 1) /\ rts = ((value \div 2) % 2 = 1)
    BY <2>1, TwoFlags
  <2>3. c.does = VendorOut(1, value, 2)
    BY <1>7, <2>1, Zenon DEF SetDtrRts
  <2>4. c.call = FtdiCall(1, value, 2)
    BY <1>7, <2>2 DEF FtdiCall
  <2> QED BY <1>0, <2>2, <2>3, <2>4, FtdiSent
<1> QED BY <1>1, <1>2, <1>3, <1>4, <1>5, <1>6, <1>7, FtdiMade

LEMMA FourAndThree ==
    ASSUME NEW S, NEW s \in Seq(S), Len(s) = 4, NEW t \in Seq(S), Len(t) = 3
    PROVE  /\ Len(s \o t) = 7 /\ SubSeq(s \o t, 1, 4) = s
           /\ (s \o t)[5] = t[1] /\ (s \o t)[6] = t[2] /\ (s \o t)[7] = t[3]
<1>1. /\ s \o t \in Seq(S) /\ Len(s \o t) = Len(s) + Len(t)
      /\ \A n \in 1 .. Len(s) + Len(t) : (s \o t)[n] = IF n <= Len(s) THEN s[n] ELSE t[n - Len(s)]
  BY ConcatProperties
<1>2. PICK both : both = s \o t
  OBVIOUS
<1>3. /\ both \in Seq(S) /\ Len(both) = 7
      /\ \A n \in 1 .. 7 : both[n] = IF n <= 4 THEN s[n] ELSE t[n - 4]
  BY <1>1, <1>2
<1>4. PICK part : part = SubSeq(both, 1, 4)
  OBVIOUS
<1>5. ASSUME NEW n \in 1 .. 4 PROVE both[n] \in S
  <2>1. n \in 1 .. Len(both)
    BY <1>3
  <2> QED BY <1>3, <2>1, ElementOfSeq
<1>6. part \in Seq(S) /\ Len(part) = 4 /\ \A n \in 1 .. 4 : part[n] = both[n]
  BY <1>4, <1>5, SubSeqProperties
<1>7. part = s
  BY <1>3, <1>6, SeqEqual
<1> QED BY <1>2, <1>3, <1>4, <1>7

LEMMA CodingIsRead ==
    ASSUME NEW rate, rate \in Seq(Nat), Len(rate) = 4,
           NEW stop \in Range(StopBits), NEW parity \in Range(Parities), NEW bits \in Nat,
           NEW bytes, bytes = CodingBytes(LineCoding(rate, stop, parity, bits))
    PROVE  /\ Len(bytes) = 7
           /\ IF bits \in {5, 6, 7, 8, 16}
              THEN CodingFrom(bytes) = [out |-> "ok", coding |-> LineCoding(rate, stop, parity, bits)]
              ELSE CodingFrom(bytes).out = "refused"
<1>1. PICK i \in 1 .. 3 : stop = StopBits[i] /\ Code(StopBits, stop) = i - 1
  BY NamedCodes
<1>2. PICK j \in 1 .. 5 : parity = Parities[j] /\ Code(Parities, parity) = j - 1
  BY NamedCodes
<1>3. PICK k, m : k = i - 1 /\ m = j - 1
  OBVIOUS
<1>4. k \in 0 .. 2 /\ m \in 0 .. 4 /\ k + 1 = i /\ m + 1 = j /\ k \in Nat /\ m \in Nat
  BY <1>3
<1>5. bytes = rate \o <<k, m, bits>>
  BY <1>1, <1>2, <1>3 DEF CodingBytes, LineCoding
<1>6. PICK tail : tail = <<k, m, bits>>
  OBVIOUS
<1>7. tail \in Seq(Nat) /\ Len(tail) = 3 /\ tail[1] = k /\ tail[2] = m /\ tail[3] = bits
  BY <1>4, <1>6
<1>8. /\ Len(bytes) = 7 /\ SubSeq(bytes, 1, 4) = rate
      /\ bytes[5] = k /\ bytes[6] = m /\ bytes[7] = bits
  <2>1. PICK S : S = Nat
    OBVIOUS
  <2>2. rate \in Seq(S) /\ tail \in Seq(S)
    BY <1>7, <2>1
  <2>3. bytes = rate \o tail
    BY <1>5, <1>6
  <2> QED BY <1>7, <2>2, <2>3, FourAndThree
<1>9. CASE bits \in {5, 6, 7, 8, 16}
  <2>1. CodingFrom(bytes) = [out |-> "ok", coding |-> LineCoding(rate, StopBits[k + 1], Parities[m + 1], bits)]
    BY <1>4, <1>8, <1>9 DEF CodingFrom
  <2> QED BY <1>1, <1>2, <1>4, <1>8, <1>9, <2>1
<1>10. CASE bits \notin {5, 6, 7, 8, 16}
  <2>1. CodingFrom(bytes) = Rejected("InvalidDataBits")
    BY <1>4, <1>8, <1>10 DEF CodingFrom
  <2> QED BY <1>8, <1>10, <2>1 DEF Rejected
<1> QED BY <1>9, <1>10

LEMMA CdcSent ==
    ASSUME NEW c, NEW type \in Nat, NEW request, NEW value, NEW index,
           IsSent(c.does, type, request, value, index), c.call = CdcCall(request, value, c.does)
    PROVE  Heard("cdc", c)
<1>1. Asked("cdc", type, request, value, index, c.does) = CdcCall(request, value, c.does)
  BY WhatIsAsked
<1> QED BY <1>1, SentIsHeard

(* What the descriptor of the function says it supports                    *)
AcmOf(f) == IsWord(f.control) /\ f.line_requests = TRUE /\ f.send_break = TRUE

LEMMA CodingHeard ==
    ASSUME NEW c, NEW f, AcmOf(f), NEW coding, NEW rate, rate \in Seq(Nat), Len(rate) = 4,
           NEW stop \in Range(StopBits), NEW parity \in Range(Parities), NEW bits \in Nat,
           coding = LineCoding(rate, stop, parity, bits),
           c.call = <<"SetLineCoding", coding>>, c.does = SetLineCoding(f, coding), Goes(c.does)
    PROVE  Heard("cdc", c)
<1>1. coding.bits = bits
  BY DEF LineCoding
<1>2. f.line_requests /\ IsWord(f.control)
  BY DEF AcmOf
<1>3. bits \in {5, 6, 7, 8, 16}
  BY <1>1, <1>2 DEF SetLineCoding, ValidCoding, Rejected, Goes
<1>4. PICK bytes : bytes = CodingBytes(coding)
  OBVIOUS
<1>5. Len(bytes) = 7 /\ CodingFrom(bytes) = [out |-> "ok", coding |-> coding]
  BY <1>3, <1>4, CodingIsRead
<1>6. PICK control, length : control = f.control /\ length = 7
  OBVIOUS
<1>7. c.does = ControlOut(Setup(33, 32, 0, control, length), bytes)
  BY <1>1, <1>2, <1>3, <1>4, <1>6 DEF SetLineCoding, ValidCoding
<1>8. IsWord(0) /\ IsWord(length) /\ IsWord(control) /\ length = Len(bytes)
  BY <1>2, <1>5, <1>6 DEF IsWord
<1>9. IsSent(c.does, 33, 32, 0, control) /\ c.does.data = bytes
  BY <1>7, <1>8, OutIsSent
<1>10. c.call = CdcCall(32, 0, c.does)
  BY <1>5, <1>9 DEF CdcCall
<1> QED BY <1>9, <1>10, CdcSent

CodingsHold ==
    \A c \in Codings : \E rate, stop, parity, bits :
        /\ rate \in Seq(Nat) /\ Len(rate) = 4 /\ stop \in Range(StopBits) /\ parity \in Range(Parities)
        /\ bits \in Nat /\ c = LineCoding(rate, stop, parity, bits)

LEMMA CodingsAreCodings == CodingsHold
<1> SUFFICES ASSUME NEW c \in Codings
             PROVE  \E rate, stop, parity, bits :
                       /\ rate \in Seq(Nat) /\ Len(rate) = 4
                       /\ stop \in Range(StopBits) /\ parity \in Range(Parities)
                       /\ bits \in Nat /\ c = LineCoding(rate, stop, parity, bits)
  BY DEF CodingsHold
<1>1. PICK rate \in {<<0, 0, 0, 0>>, <<0, 194, 1, 0>>}, stop \in Range(StopBits),
           parity \in Range(Parities), bits \in {4, 5, 8, 16} : c = LineCoding(rate, stop, parity, bits)
  BY SMT DEF Codings
<1>2. rate \in Seq(Nat) /\ Len(rate) = 4
  <2>1. CASE rate = <<0, 0, 0, 0>>
    BY <2>1
  <2>2. CASE rate = <<0, 194, 1, 0>>
    BY <2>2
  <2> QED BY <1>1, <2>1, <2>2
<1> QED BY <1>1, <1>2

Modem == [control |-> 2, line_requests |-> TRUE, send_break |-> TRUE]

LEMMA CdcMade ==
    ASSUME NEW c, c \in CdcCalls
    PROVE  \/ \E coding \in Codings :
                 c.call = <<"SetLineCoding", coding>> /\ c.does = SetLineCoding(Modem, coding)
           \/ c.call = <<"GetLineCoding">> /\ c.does = GetLineCoding(Modem)
           \/ \E dtr, rts \in BOOLEAN : /\ c.call = <<"SetControlLineState", dtr, rts>>
                                        /\ c.does = SetControlLineState(Modem, dtr, rts)
           \/ \E d \in {0, 255, 256, 65535} : c.call = <<"SendBreak", d>> /\ c.does = SendBreak(Modem, d)
  BY SMTT(60) DEF CdcCalls, Sends, Modem

LEMMA CdcHeard ==
    ASSUME NEW c, c \in CdcCalls, Goes(c.does)
    PROVE  Heard("cdc", c)
<1>0. AcmOf(Modem) /\ IsWord(0) /\ IsWord(2) /\ IsWord(7) /\ 161 \in Nat /\ 33 \in 0 .. 127
  BY DEF AcmOf, Modem, IsWord
<1>1. ASSUME NEW coding \in Codings,
             c.call = <<"SetLineCoding", coding>> /\ c.does = SetLineCoding(Modem, coding)
      PROVE  Heard("cdc", c)
  <2>1. PICK rate, stop, parity, bits :
           /\ rate \in Seq(Nat) /\ Len(rate) = 4 /\ stop \in Range(StopBits) /\ parity \in Range(Parities)
           /\ bits \in Nat /\ coding = LineCoding(rate, stop, parity, bits)
    BY <1>1, CodingsAreCodings, Zenon DEF CodingsHold
  <2> QED BY <1>0, <1>1, <2>1, CodingHeard
<1>2. CASE c.call = <<"GetLineCoding">> /\ c.does = GetLineCoding(Modem)
  <2>1. c.does = ControlIn(Setup(161, 33, 0, 2, 7), 7)
    BY <1>2 DEF GetLineCoding, Modem
  <2>2. IsSent(c.does, 161, 33, 0, 2)
    BY <1>0, <2>1, InIsSent
  <2>3. c.call = CdcCall(33, 0, c.does)
    BY <1>2 DEF CdcCall
  <2> QED BY <1>0, <2>2, <2>3, CdcSent
<1>3. ASSUME NEW dtr \in BOOLEAN, NEW rts \in BOOLEAN,
             c.call = <<"SetControlLineState", dtr, rts>> /\ c.does = SetControlLineState(Modem, dtr, rts)
      PROVE  Heard("cdc", c)
  <2>1. PICK flags, value : flags = Flag(dtr) + 2 * Flag(rts) /\ value = 0 + Flag(dtr) + 2 * Flag(rts)
    OBVIOUS
  <2>2. IsWord(value) /\ dtr = (value % 2 = 1) /\ rts = ((value \div 2) % 2 = 1)
    BY <1>3, <2>1, TwoFlags
  <2>3. flags = value
    BY <2>1 DEF Flag
  <2>4. c.does = Set(33, 34, value, 2)
    BY <1>3, <2>1, <2>3 DEF SetControlLineState, Modem
  <2>5. IsSent(c.does, 33, 34, value, 2)
    BY <1>0, <2>2, <2>4, SetIsSent
  <2>6. c.call = CdcCall(34, value, c.does)
    BY <1>3, <2>2 DEF CdcCall
  <2> QED BY <1>0, <2>5, <2>6, CdcSent
<1>4. ASSUME NEW d \in {0, 255, 256, 65535}, c.call = <<"SendBreak", d>> /\ c.does = SendBreak(Modem, d)
      PROVE  Heard("cdc", c)
  <2>1. c.does = Set(33, 35, d, 2)
    BY <1>4 DEF SendBreak, Modem
  <2>2. IsWord(d)
    BY <1>4 DEF IsWord
  <2>3. IsSent(c.does, 33, 35, d, 2)
    BY <1>0, <2>1, <2>2, SetIsSent
  <2>4. c.call = CdcCall(35, d, c.does)
    BY <1>4 DEF CdcCall
  <2> QED BY <1>0, <2>3, <2>4, CdcSent
<1> QED BY <1>1, <1>2, <1>3, <1>4, CdcMade

LEMMA TmcHeard ==
    ASSUME NEW c, c \in Calls("tmc")
    PROVE  Heard("tmc", c)
<1>0. /\ IsWord(0) /\ IsWord(1) /\ IsWord(3) /\ IsWord(24) /\ 161 \in Nat
      /\ Flag(TRUE) = 1 /\ Flag(FALSE) = 0
  BY DEF IsWord, Flag
<1>1. \/ c.call = <<"GetCapabilities">> /\ c.does = GetCapabilities(3)
      \/ \E enabled \in BOOLEAN : c.call = <<"RemoteEnable", enabled>> /\ c.does = RemoteEnable(3, enabled)
  <2>1. PICK yes, no \in BOOLEAN : yes = TRUE /\ no = FALSE
    OBVIOUS
  <2>2. Calls("tmc") = {Sends(<<"GetCapabilities">>, GetCapabilities(3)),
                        Sends(<<"RemoteEnable", yes>>, RemoteEnable(3, yes)),
                        Sends(<<"RemoteEnable", no>>, RemoteEnable(3, no))}
    BY <2>1, Zenon DEF Calls
  <2>3. \/ c.call = <<"GetCapabilities">> /\ c.does = GetCapabilities(3)
        \/ c.call = <<"RemoteEnable", yes>> /\ c.does = RemoteEnable(3, yes)
        \/ c.call = <<"RemoteEnable", no>> /\ c.does = RemoteEnable(3, no)
    BY <2>2, SMT DEF Sends
  <2> QED BY <2>1, <2>3
<1>2. ASSUME NEW request, NEW value, IsSent(c.does, 161, request, value, 3), c.call = TmcCall(request, value)
      PROVE  Heard("tmc", c)
  <2>1. Asked("tmc", 161, request, value, 3, c.does) = TmcCall(request, value)
    BY WhatIsAsked
  <2> QED BY <1>0, <1>2, <2>1, SentIsHeard
<1>3. CASE c.call = <<"GetCapabilities">> /\ c.does = GetCapabilities(3)
  <2>1. c.does = ControlIn(Setup(161, 7, 0, 3, 24), 24) /\ c.call = TmcCall(7, 0)
    BY <1>3 DEF GetCapabilities, TmcCall
  <2> QED BY <1>0, <1>2, <2>1, InIsSent
<1>4. ASSUME NEW enabled \in BOOLEAN, c.call = <<"RemoteEnable", enabled>> /\ c.does = RemoteEnable(3, enabled)
      PROVE  Heard("tmc", c)
  <2>1. PICK value \in {0, 1} : value = Flag(enabled) /\ enabled = (value % 2 = 1)
    BY <1>4 DEF Flag
  <2>2. c.does = ControlIn(Setup(161, 160, value, 3, 1), 1)
    BY <1>4, <2>1 DEF RemoteEnable
  <2>3. c.call = TmcCall(160, value)
    BY <1>4, <2>1 DEF TmcCall
  <2>4. IsWord(value)
    BY <1>0, <2>1
  <2>5. IsSent(c.does, 161, 160, value, 3)
    BY <1>0, <2>2, <2>4, InIsSent
  <2> QED BY <1>2, <2>3, <2>5
<1> QED BY <1>1, <1>3, <1>4

LEMMA AudioHeard ==
    ASSUME NEW c, c \in Calls("audio")
    PROVE  Heard("audio", c)
<1>1. \/ \E a \in 1..2 : c.call = <<"SelectAlternate", a>> /\ c.does = SelectAlternate(3, a)
      \/ \E a \in {129, 130} : c.call = <<"SetSampleRate", a>> /\ c.does = SetSampleRate(a)
  BY SMTT(60) DEF Calls, Sends
<1>2. ASSUME NEW type \in Nat, NEW request, NEW value, NEW index, IsSent(c.does, type, request, value, index),
             c.call = AudioCall(request, value, index)
      PROVE  Heard("audio", c)
  <2>1. Asked("audio", type, request, value, index, c.does) = AudioCall(request, value, index)
    BY WhatIsAsked
  <2> QED BY <1>2, <2>1, SentIsHeard
<1>3. ASSUME NEW a \in 1..2, c.call = <<"SelectAlternate", a>> /\ c.does = SelectAlternate(3, a)
      PROVE  Heard("audio", c)
  <2>1. c.does = Set(1, 11, a, 3) /\ c.call = AudioCall(11, a, 3)
    BY <1>3 DEF SelectAlternate, AudioCall
  <2>2. IsWord(a) /\ IsWord(3) /\ 1 \in 0 .. 127 /\ 1 \in Nat
    BY <1>3 DEF IsWord
  <2>3. IsSent(c.does, 1, 11, a, 3)
    BY <2>1, <2>2, SetIsSent
  <2> QED BY <1>2, <2>1, <2>2, <2>3
<1>4. ASSUME NEW a \in {129, 130}, c.call = <<"SetSampleRate", a>> /\ c.does = SetSampleRate(a)
      PROVE  Heard("audio", c)
  <2>0. PICK data : data = <<128, 187, 0>>
    OBVIOUS
  <2>1. PICK length : length = 3 /\ length = Len(data) /\ data = <<128, 187, 0>>
    BY <2>0
  <2>2. c.does = ControlOut(Setup(34, 1, 256, a, length), data)
    BY <1>4, <2>1 DEF SetSampleRate
  <2>3. c.call = AudioCall(1, 256, a)
    BY <1>4 DEF AudioCall
  <2>4. IsWord(a) /\ IsWord(256) /\ IsWord(length) /\ 34 \in Nat
    BY <1>4, <2>1 DEF IsWord
  <2>5. length = Len(data)
    BY <2>1
  <2>6. IsSent(c.does, 34, 1, 256, a)
    BY <2>2, <2>4, <2>5, OutIsSent
  <2> QED BY <1>2, <2>3, <2>4, <2>6
<1> QED BY <1>1, <1>3, <1>4

Drivers == {"cdc", "hid", "ftdi", "tmc", "audio"}

LEMMA CallsAreHeard ==
    ASSUME NEW driver \in Drivers, NEW c, c \in Calls(driver), Goes(c.does)
    PROVE  Heard(driver, c)
<1>1. Calls("cdc") = CdcCalls /\ Calls("hid") = HidCalls /\ Calls("ftdi") = FtdiCalls
  BY DEF Calls
<1> QED BY <1>1, CdcHeard, HidHeard, FtdiHeard, TmcHeard, AudioHeard DEF Drivers

LEMMA HeardIsDecoded ==
    ASSUME NEW driver, NEW a, NEW b, Heard(driver, a), Heard(driver, b), a.does = b.does
    PROVE  a.call = b.call
<1>1. PICK does : does = a.does
  OBVIOUS
<1>2. b.does = does
  BY <1>1
<1>3. PICK call : call = Asked(driver, does.setup[1], does.setup[2], ValueOf(does.setup),
                               IndexOf(does.setup), does)
  OBVIOUS
<1>4. a.call = call
  BY <1>1, <1>3, Zenon DEF Heard
<1>5. b.call = call
  BY <1>2, <1>3, Zenon DEF Heard
<1> QED BY <1>4, <1>5

LEMMA CodingsComeBack ==
    \A c \in Codings : LET back == CodingFrom(CodingBytes(c))
                       IN  IF ValidCoding(c) THEN back = [out |-> "ok", coding |-> c] ELSE back.out # "ok"
<1> SUFFICES ASSUME NEW c \in Codings
             PROVE  IF ValidCoding(c) THEN CodingFrom(CodingBytes(c)) = [out |-> "ok", coding |-> c]
                    ELSE CodingFrom(CodingBytes(c)).out # "ok"
  BY Zenon
<1>1. PICK rate, stop, parity, bits :
         /\ rate \in Seq(Nat) /\ Len(rate) = 4 /\ stop \in Range(StopBits) /\ parity \in Range(Parities)
         /\ bits \in Nat /\ c = LineCoding(rate, stop, parity, bits)
  BY CodingsAreCodings, Zenon DEF CodingsHold
<1>2. PICK bytes : bytes = CodingBytes(c)
  OBVIOUS
<1>3. IF bits \in {5, 6, 7, 8, 16} THEN CodingFrom(bytes) = [out |-> "ok", coding |-> c]
      ELSE CodingFrom(bytes).out = "refused"
  BY <1>1, <1>2, CodingIsRead
<1>4. ValidCoding(c) <=> bits \in {5, 6, 7, 8, 16}
  BY <1>1 DEF ValidCoding, LineCoding
<1> QED BY <1>2, <1>3, <1>4

LEMMA RequestsOf ==
    ASSUME input.driver \in Drivers
    PROVE  RequestsDecode
<1>0. PICK driver \in Drivers : driver = input.driver
  OBVIOUS
<1>1. PICK calls : calls = {c \in Calls(driver) : c.does.out \in {"control_in", "control_out"}}
  OBVIOUS
<1>2. \A c \in calls : Heard(driver, c)
  BY <1>0, <1>1, CallsAreHeard DEF Goes
<1>3. \A a, b \in calls : a.does = b.does => a.call = b.call
  BY <1>2, HeardIsDecoded
<1>4. ASSUME NEW c \in calls
      PROVE  IF c.does.out = "control_in"
             THEN c.does.setup[1] >= 128 /\ c.does.setup[7] + 256 * c.does.setup[8] = c.does.room
             ELSE c.does.setup[1] < 128 /\ c.does.setup[7] + 256 * c.does.setup[8] = Len(c.does.data)
  BY <1>2, <1>4, Zenon DEF Heard, StageFits, LengthOf
<1> QED BY <1>0, <1>1, <1>3, <1>4, CodingsComeBack, Zenon DEF RequestsDecode

(***************************************************************************)
(* The inputs                                                              *)
(***************************************************************************)
(* Only configurations and strings are edited, and what is found in a      *)
(* configuration is kept with it.                                          *)
Fields == {"of", "conf", "found", "spare", "edits"}

InputOK ==
    /\ "of" \in DOMAIN input
    /\ input.of = "configuration" => /\ Fields \subseteq DOMAIN input
                                     /\ input.found = Found(input.conf)
                                     /\ Written(input.conf, input.spare)
    /\ input.of = "bytes" => /\ "bits" \in DOMAIN input
                             /\ input.bits \in Seq(BOOLEAN) /\ Len(input.bits) % 8 = 0
    /\ input.of = "debounce" => input.us \in Nat
    /\ input.of = "calls" => input.driver \in Drivers
    /\ input.of = "inputs" => input.raw \in 0 .. 255
    /\ input.of = "rate" => /\ input.baud \in Nat /\ input.chip \in Chips
                            /\ input.interface \in {0, 3}

LEMMA ByteBits ==
    ASSUME NEW byte
    PROVE  BitsOf(byte, 8) \in Seq(BOOLEAN) /\ Len(BitsOf(byte, 8)) = 8
<1> DEFINE bits == [i \in 1 .. 8 |-> (byte \div 2^(i - 1)) % 2 = 1]
<1>1. \A i \in 1 .. 8 : bits[i] \in BOOLEAN
  BY Zenon
<1>2. bits = [i \in 1 .. 8 |-> bits[i]]
  BY Zenon
<1> HIDE DEF bits
<1>3. bits \in Seq(BOOLEAN) /\ Len(bits) = 8
  BY <1>1, <1>2, IsASeq
<1> QED BY <1>3 DEF bits, BitsOf

LEMMA WholeBytes ==
    ASSUME NEW S, NEW bits \in Seq(S), NEW more \in Seq(S), Len(bits) % 8 = 0, Len(more) = 8
    PROVE  bits \o more \in Seq(S) /\ Len(bits \o more) % 8 = 0
<1>1. bits \o more \in Seq(S) /\ Len(bits \o more) = Len(bits) + Len(more)
  BY ConcatProperties
<1>2. Len(bits) \in Nat /\ Len(bits) + Len(more) = Len(bits) + 8
  BY LenProperties
<1>3. PICK n \in Nat : n = Len(bits) /\ n % 8 = 0
  BY <1>2
<1>4. (n + 8) % 8 = 0
  BY <1>3
<1> QED BY <1>1, <1>2, <1>3, <1>4

LEMMA InputsStart == LibraryInit => InputOK
<1> SUFFICES ASSUME LibraryInit PROVE InputOK
  OBVIOUS
<1>1. CASE \E base \in Bases : input = Start(base)
  <2>1. PICK base \in Bases : input = Start(base)
    BY <1>1
  <2>2. PICK conf, found, spare : /\ conf = OfSize(base.list) /\ found = Found(OfSize(base.list))
                                  /\ spare = base.spare
    OBVIOUS
  <2>3. input = [of |-> "configuration", conf |-> conf, found |-> found, spare |-> spare,
                 edits |-> 0] /\ found = Found(conf)
    BY <2>1, <2>2, Zenon DEF Start
  <2>4. Written(conf, spare)
    BY <2>2, BasesAreFine, PartsWritten DEF FineBase
  <2> QED BY <2>3, <2>4 DEF InputOK, Fields
<1>2. CASE \E bits \in Packets : input = [of |-> "packet", bits |-> bits]
  BY <1>2 DEF InputOK
<1>3. CASE input = [of |-> "bytes", bits |-> <<>>]
  BY <1>3 DEF InputOK
<1>4. CASE input \in [of : {"calls"}, driver : {"cdc", "hid", "ftdi", "tmc", "audio"}]
  BY <1>4 DEF InputOK, Drivers
<1>5. CASE input \in [of : {"debounce"}, us : SampleTimes]
  BY <1>5, LibraryAssumption DEF InputOK
<1>6. CASE input \in [of : {"inputs"}, raw : 0..255]
  BY <1>6 DEF InputOK
<1>7. CASE input = [of |-> "boards"]
  BY <1>7 DEF InputOK
<1>8. CASE input \in [of : {"rate"}, chip : Chips, baud : SampleRates, interface : {0, 3}]
  BY <1>8, LibraryAssumption DEF InputOK
<1> QED BY <1>1, <1>2, <1>3, <1>4, <1>5, <1>6, <1>7, <1>8, Zenon DEF LibraryInit

LEMMA InputsStay == InputOK /\ [LibraryNext]_input => InputOK'
<1> SUFFICES ASSUME InputOK, [LibraryNext]_input PROVE InputOK'
  OBVIOUS
<1>1. ASSUME NEW confs, Editable, Edits(confs), \A conf \in confs : Written(conf, input.spare)
      PROVE  InputOK'
  <2>1. PICK conf \in confs :
           input' = [input EXCEPT !.conf = conf, !.found = Found(conf), !.edits = @ + 1]
    BY <1>1 DEF Edits
  <2>2. PICK found, edits : found = Found(conf) /\ edits = input.edits + 1
    OBVIOUS
  <2>3. input' = [input EXCEPT !.conf = conf, !.found = found, !.edits = edits]
    BY <2>1, <2>2, Zenon
  <2>4. input.of = "configuration" /\ Fields \subseteq DOMAIN input
    BY <1>1 DEF Editable, InputOK
  <2>5. /\ input'.of = "configuration" /\ DOMAIN input' = DOMAIN input
        /\ input'.conf = conf /\ input'.found = found /\ input'.spare = input.spare
    BY <2>3, <2>4 DEF Fields
  <2>6. Fields \subseteq DOMAIN input' /\ "of" \in DOMAIN input'
    BY <2>4, <2>5 DEF Fields
  <2>7. Written(input'.conf, input'.spare)
    BY <1>1, <2>5
  <2> QED BY <2>2, <2>5, <2>6, <2>7 DEF InputOK
<1>2. CASE AppendByte
  <2>1. PICK byte : input' = [input EXCEPT !.bits = @ \o BitsOf(byte, 8)] /\ input.of = "bytes"
    BY <1>2, Zenon DEF AppendByte
  <2>2. PICK bits, more, both : bits = input.bits /\ more = BitsOf(byte, 8) /\ both = bits \o more
    OBVIOUS
  <2>3. "bits" \in DOMAIN input /\ bits \in Seq(BOOLEAN) /\ Len(bits) % 8 = 0
    BY <2>1, <2>2, Zenon DEF InputOK
  <2>4. input' = [input EXCEPT !.bits = both]
    BY <2>1, <2>2, Zenon
  <2>5. DOMAIN input' = DOMAIN input /\ input'.of = "bytes" /\ input'.bits = both
    BY <2>1, <2>3, <2>4 DEF InputOK
  <2>6. both \in Seq(BOOLEAN) /\ Len(both) % 8 = 0
    BY <2>2, <2>3, ByteBits, WholeBytes
  <2> QED BY <2>3, <2>5, <2>6 DEF InputOK
<1>3. CASE UNCHANGED input
  BY <1>3 DEF InputOK
<1>4. CASE Insert \/ Drop \/ Exchange
  <2>1. Editable /\ Written(input.conf, input.spare)
    <3>1. Editable
      BY <1>4 DEF Insert, Drop, Exchange
    <3> QED BY <3>1, Zenon DEF Editable, InputOK
  <2>2. CASE Insert
    <3>1. PICK confs : /\ Edits(confs)
                       /\ confs = {OfSize(InsertAt(input.conf.list, k, d)) :
                                     d \in input.spare, k \in 1 .. (Len(input.conf.list) + 1)}
      BY <2>2 DEF Insert
    <3>2. \A conf \in confs : Written(conf, input.spare)
      BY <2>1, <3>1, EditedIsWritten
    <3> QED BY <1>1, <2>1, <3>1, <3>2
  <2>3. CASE Drop
    <3>1. PICK confs : /\ Edits(confs)
                       /\ confs = {OfSize(RemoveAt(input.conf.list, k)) : k \in DOMAIN input.conf.list}
      BY <2>3, Zenon DEF Drop
    <3>2. \A conf \in confs : Written(conf, input.spare)
      BY <2>1, <3>1, EditedIsWritten
    <3> QED BY <1>1, <2>1, <3>1, <3>2
  <2>4. CASE Exchange
    BY <1>1, <2>1, <2>4, EditedIsWritten, Zenon DEF Exchange
  <2> QED BY <1>4, <2>2, <2>3, <2>4
<1>5. CASE Misstate
  <2>1. Editable /\ Written(input.conf, input.spare)
    BY <1>5, Zenon DEF Misstate, Editable, InputOK
  <2>2. PICK totals, confs :
           /\ Edits(confs)
           /\ confs = {[input.conf EXCEPT !.total = total] : total \in totals}
                       \cup {[input.conf EXCEPT !.header.len = 8],
                             [input.conf EXCEPT !.header.type = "device"],
                             [input.conf EXCEPT !.header.value = 0],
                             [input.conf EXCEPT !.header.attributes = FALSE]}
    BY <1>5, Zenon DEF Misstate
  <2>3. \A conf \in confs : Written(conf, input.spare)
    BY <2>1, <2>2, MisstatedIsWritten
  <2> QED BY <1>1, <2>1, <2>2, <2>3
<1> QED BY <1>2, <1>3, <1>4, <1>5, Zenon DEF LibraryNext

LEMMA InputIsOK == LibrarySpec => []InputOK
  BY InputsStart, InputsStay, PTL DEF LibrarySpec

(* Whatever the edits make of a configuration, alternate settings and      *)
(* damaged interfaces among its descriptors included, no driver gets a     *)
(* pipe whose packets the speed of the device, the engine or the read      *)
(* buffer of a byte stream does not allow, or whose polling interval       *)
(* validate_pipe would refuse; and a function found that is within these   *)
(* limits gets all of its pipes (src/pio_host.rs, src/cdc_acm.rs,          *)
(* src/hid.rs, src/audio.rs). PipesFitFound says it of every list of       *)
(* descriptors whose endpoints have four-bit numbers.                      *)
THEOREM ThePipesFit == LibrarySpec => []PipesFit
<1>1. ASSUME InputOK PROVE PipesFit
  <2>1. CASE input.of = "configuration"
    <3>1. input.found = Found(input.conf) /\ Sound(input.conf)
      BY <1>1, <2>1, WrittenIsSound, Zenon DEF InputOK
    <3> QED BY <2>1, <3>1, PipesFitFound
  <2>2. CASE input.of # "configuration"
    BY <2>2, Zenon DEF PipesFit
  <2> QED BY <2>1, <2>2
<1> QED BY <1>1, InputIsOK, PTL

(* EncodedPacket::encode and the transmit program drive the same levels,   *)
(* and decode_nrzi and the receive program read back what was sent, for    *)
(* every string of bytes: in step after every bit, stuffed or not, and     *)
(* refused only for want of room (src/usb.rs, src/pio_host/rp2040.rs).     *)
THEOREM TheCodersAgree == LibrarySpec => []CodersAgree
<1>1. ASSUME InputOK PROVE CodersAgree
  <2> SUFFICES ASSUME input.of = "bytes" PROVE CodersAgreeOn(input.bits)
    BY Zenon DEF CodersAgree
  <2>1. input.bits \in Seq(BOOLEAN) /\ Len(input.bits) % 8 = 0
    BY <1>1, Zenon DEF InputOK
  <2> QED BY <2>1, CodersAlwaysAgree
<1> QED BY <1>1, InputIsOK, PTL

(* The rate set_baud_rate of src/ftdi.rs returns is the one the chip runs  *)
(* at when it reads the request, for every baud rate and every chip but    *)
(* the FT232AM; no rate between 200 baud and half of the chip's highest is *)
(* refused.                                                                *)
THEOREM EveryRateIsReal == LibrarySpec => []RatesAreReal
<1>1. ASSUME InputOK PROVE RatesAreReal
  <2> SUFFICES ASSUME input.of = "rate", input.chip # "ft232am"
               PROVE  RateIsReal(input.baud, input.chip, input.interface)
    BY Zenon DEF RatesAreReal
  <2>1. /\ input.baud \in Nat /\ input.chip \in Chips \ {"ft232am"}
        /\ input.interface \in 0 .. 254
    BY <1>1 DEF InputOK
  <2> QED BY <2>1, RateIsRealForAll
<1> QED BY <1>1, InputIsOK, PTL

(* No two calls of a driver that differ send the same request: a device    *)
(* reads the call out of what was sent, rates of every kind included. The  *)
(* direction and length in the eight bytes are those of the data stage, by *)
(* which the engine goes; and the line coding a device is told is the one  *)
(* it can report (src/usb.rs, src/cdc_acm.rs, src/hid.rs, src/ftdi.rs,     *)
(* src/usbtmc.rs, src/audio.rs).                                           *)
THEOREM EveryCallIsHeard == LibrarySpec => []RequestsDecode
<1>1. ASSUME InputOK PROVE RequestsDecode
  <2>1. CASE input.of = "calls"
    <3>1. input.driver \in Drivers
      BY <1>1, <2>1 DEF InputOK
    <3> QED BY <3>1, RequestsOf
  <2>2. CASE input.of # "calls"
    BY <2>2, Zenon DEF RequestsDecode
  <2> QED BY <2>1, <2>2
<1> QED BY <1>1, InputIsOK, PTL

(* The board is driven as examples/p8055/protocol.rs and application.rs    *)
(* say, whatever debounce time is asked for.                               *)
THEOREM TheBoardIsDriven == LibrarySpec => []BoardIsDriven
<1>1. ASSUME InputOK PROVE BoardIsDriven
  <2>1. ASSUME input.of = "debounce" PROVE SettingIsNearest(input.us)
    BY <1>1, <2>1, NearestSetting DEF InputOK, SettingIsNearest
  <2>2. OutputsRepeat(input.us)
    BY CommandsRepeat, Zenon DEF OutputsRepeat, ApplyReport, ResetCounter1, ResetCounter2, SetDebounce1,
                                 SetDebounce2
  <2>3. ASSUME input.of = "inputs" PROVE InputsAreRead(input.raw)
    BY <1>1, <2>3, InputIsRead DEF InputOK, InputsAreRead
  <2> QED BY <2>1, <2>2, <2>3, BoardsAreDriven, Zenon DEF BoardIsDriven
<1> QED BY <1>1, InputIsOK, PTL
=============================================================================
