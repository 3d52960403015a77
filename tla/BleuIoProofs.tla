---------------------------- MODULE BleuIoProofs ----------------------------
(***************************************************************************)
(* Proofs about the BleuIO client and its byte stream, for every size of   *)
(* the packets and of the buffer, and for every way the device answers.    *)
(***************************************************************************)
EXTENDS BleuIo, SequenceTheorems, WellFoundedInduction, TLAPS

(***************************************************************************)
(* Stretches of sequences                                                  *)
(***************************************************************************)
Stretch(s, a, b) == SubSeq(s, a + 1, b)

LEMMA Slice ==
    ASSUME NEW s \in Seq(Byte), NEW a \in Nat, NEW b \in Nat, a <= b, b <= Len(s)
    PROVE  /\ SubSeq(s, a + 1, b) \in Seq(Byte)
           /\ Len(SubSeq(s, a + 1, b)) = b - a
           /\ \A i \in 1 .. b - a : SubSeq(s, a + 1, b)[i] = s[a + i]
<1>1. a + 1 \in Int /\ b \in Int /\ Len(s) \in Nat
  BY LenProperties
<1>2. \A i \in a + 1 .. b : s[i] \in Byte
  BY <1>1, ElementOfSeq
<1>3. /\ SubSeq(s, a + 1, b) \in Seq(Byte)
      /\ Len(SubSeq(s, a + 1, b)) = IF a + 1 <= b THEN b - (a + 1) + 1 ELSE 0
      /\ \A i \in 1 .. b - (a + 1) + 1 : SubSeq(s, a + 1, b)[i] = s[(a + 1) + i - 1]
  BY <1>1, <1>2, SubSeqProperties
<1> QED BY <1>3

LEMMA StretchType ==
    ASSUME NEW s \in Seq(Byte), NEW a \in Nat, NEW b \in Nat, a <= b, b <= Len(s)
    PROVE  Stretch(s, a, b) \in Seq(Byte) /\ Len(Stretch(s, a, b)) = b - a
  BY Slice DEF Stretch

(* To read on from a to t leaves what is after t.                          *)
LeavesTheRest(p, w, a, t, e) ==
    LET stream == Stretch(p, a, e) \o w
    IN  /\ stream \in Seq(Byte) /\ Len(stream) = (e - a) + Len(w)
        /\ SubSeq(stream, 1, t - a) = Stretch(p, a, t)
        /\ Stretch(stream, t - a, Len(stream)) = Stretch(p, t, e) \o w

LEMMA ReadOn ==
    ASSUME NEW p \in Seq(Byte), NEW w \in Seq(Byte),
           NEW a \in Nat, NEW t \in Nat, NEW e \in Nat, a <= t, t <= e, e <= Len(p)
    PROVE  LeavesTheRest(p, w, a, t, e)
<1>0. PICK stream, n : stream = Stretch(p, a, e) \o w /\ n = t - a
  OBVIOUS
<1>1. /\ n \in Nat /\ Len(p) \in Nat /\ Len(w) \in Nat /\ a <= e /\ n <= e - a
      /\ t \in Nat /\ e \in Nat /\ a <= t /\ t <= e /\ e <= Len(p)
  BY <1>0, LenProperties
<1>2. PICK u : u = SubSeq(p, a + 1, e)
  OBVIOUS
<1>3. u \in Seq(Byte) /\ Len(u) = e - a /\ \A i \in 1 .. e - a : u[i] = p[a + i]
  <2>1. a <= e /\ e <= Len(p) /\ e \in Nat
    BY <1>1
  <2>2. /\ SubSeq(p, a + 1, e) \in Seq(Byte) /\ Len(SubSeq(p, a + 1, e)) = e - a
        /\ \A i \in 1 .. e - a : SubSeq(p, a + 1, e)[i] = p[a + i]
    BY <2>1, Slice
  <2> QED BY <1>2, <2>2
<1>4. /\ stream \in Seq(Byte) /\ Len(stream) = (e - a) + Len(w)
      /\ \A i \in 1 .. (e - a) + Len(w) :
            stream[i] = IF i <= e - a THEN u[i] ELSE w[i - (e - a)]
  <2>1. stream = u \o w
    BY <1>0, <1>2 DEF Stretch
  <2>2. /\ u \o w \in Seq(Byte) /\ Len(u \o w) = Len(u) + Len(w)
        /\ \A i \in 1 .. Len(u) + Len(w) :
              (u \o w)[i] = IF i <= Len(u) THEN u[i] ELSE w[i - Len(u)]
    BY <1>3, ConcatProperties
  <2> QED BY <1>3, <2>1, <2>2
<1>5. PICK head : head = SubSeq(stream, 0 + 1, n)
  OBVIOUS
<1>6. head \in Seq(Byte) /\ Len(head) = n /\ \A i \in 1 .. n : head[i] = stream[i]
  BY <1>1, <1>4, <1>5, Slice
<1>7. PICK taken : taken = SubSeq(p, a + 1, t)
  OBVIOUS
<1>8. taken \in Seq(Byte) /\ Len(taken) = n /\ \A i \in 1 .. n : taken[i] = p[a + i]
  BY <1>0, <1>1, <1>7, Slice
<1>9. head = taken
  <2>1. \A i \in 1 .. n : head[i] = taken[i]
    <3> TAKE i \in 1 .. n
    <3>1. i \in 1 .. e - a /\ i \in 1 .. (e - a) + Len(w) /\ i <= e - a
      BY <1>1
    <3> QED BY <1>3, <1>4, <1>6, <1>8, <3>1
  <2> QED BY <1>6, <1>8, <2>1, SeqEqual
<1>10. PICK tail : tail = SubSeq(stream, n + 1, Len(stream))
  OBVIOUS
<1>11. /\ tail \in Seq(Byte) /\ Len(tail) = Len(stream) - n
       /\ \A i \in 1 .. Len(stream) - n : tail[i] = stream[n + i]
  <2>1. stream \in Seq(Byte) /\ Len(stream) \in Nat /\ n \in Nat /\ n <= Len(stream)
    BY <1>1, <1>4
  <2> QED BY <1>10, <2>1, Slice
<1>12. PICK v : v = SubSeq(p, t + 1, e)
  OBVIOUS
<1>13. v \in Seq(Byte) /\ Len(v) = e - t /\ \A i \in 1 .. e - t : v[i] = p[t + i]
  BY <1>1, <1>12, Slice
<1>14. /\ v \o w \in Seq(Byte) /\ Len(v \o w) = (e - t) + Len(w)
       /\ \A i \in 1 .. (e - t) + Len(w) :
             (v \o w)[i] = IF i <= e - t THEN v[i] ELSE w[i - (e - t)]
  <2>1. /\ v \o w \in Seq(Byte) /\ Len(v \o w) = Len(v) + Len(w)
        /\ \A i \in 1 .. Len(v) + Len(w) :
              (v \o w)[i] = IF i <= Len(v) THEN v[i] ELSE w[i - Len(v)]
    BY <1>13, ConcatProperties
  <2> QED BY <1>13, <2>1
<1>15. tail = v \o w
  <2>1. Len(tail) = Len(v \o w) /\ Len(tail) = (e - t) + Len(w)
    BY <1>0, <1>1, <1>4, <1>11, <1>14
  <2>2. \A i \in 1 .. Len(tail) : tail[i] = (v \o w)[i]
    <3> TAKE i \in 1 .. Len(tail)
    <3>1. i \in 1 .. (e - t) + Len(w) /\ n + i \in 1 .. (e - a) + Len(w)
          /\ tail[i] = stream[n + i]
      BY <1>0, <1>1, <1>4, <1>11, <2>1
    <3>2. CASE i <= e - t
      <4>0. i \in Nat \ {0} /\ a \in Nat /\ t \in Nat /\ e \in Nat /\ a <= t /\ t <= e
        BY <1>1, <3>1
      <4>1. n + i <= e - a /\ n + i \in 1 .. e - a /\ a + (n + i) = t + i /\ i \in 1 .. e - t
        BY <1>0, <3>2, <4>0
      <4>2. stream[n + i] = p[t + i]
        BY <1>3, <1>4, <3>1, <4>1
      <4>3. (v \o w)[i] = p[t + i]
        BY <1>13, <1>14, <3>1, <3>2, <4>1
      <4> QED BY <3>1, <4>2, <4>3
    <3>3. CASE ~(i <= e - t)
      <4>1. ~(n + i <= e - a) /\ (n + i) - (e - a) = i - (e - t)
        BY <1>0, <1>1, <3>1, <3>3
      <4> QED BY <1>4, <1>14, <3>1, <3>3, <4>1
    <3> QED BY <3>2, <3>3
  <2> QED BY <1>11, <1>14, <2>1, <2>2, SeqEqual
<1>16. SubSeq(stream, 1, n) = head
  BY <1>5 DEF Stretch
<1>17. stream \in Seq(Byte) /\ Len(stream) = (e - a) + Len(w)
  BY <1>4
<1>18. SubSeq(stream, 1, n) = Stretch(p, a, t)
  BY <1>7, <1>9, <1>16 DEF Stretch
<1>19. Stretch(stream, n, Len(stream)) = Stretch(p, t, e) \o w
  BY <1>10, <1>12, <1>15 DEF Stretch
<1> QED BY <1>0, <1>17, <1>18, <1>19 DEF LeavesTheRest

(* A packet of status bytes and the first bytes of the wire stands for the *)
(* wire: read from its payload on, it leaves the wire as it was.           *)
LEMMA PacketStandsForWire ==
    ASSUME NEW h \in Seq(Byte), NEW w \in Seq(Byte), NEW k \in Nat, k <= Len(w)
    PROVE  /\ h \o SubSeq(w, 1, k) \in Seq(Byte) /\ Len(h \o SubSeq(w, 1, k)) = Len(h) + k
           /\ From(w, k) \in Seq(Byte)
           /\ Stretch(h \o SubSeq(w, 1, k), Len(h), Len(h \o SubSeq(w, 1, k))) \o From(w, k) = w
<1>0. PICK packet : packet = h \o SubSeq(w, 1, k)
  OBVIOUS
<1>1. k \in Nat /\ k <= Len(w) /\ Len(w) \in Nat /\ Len(h) \in Nat
  BY LenProperties
<1>2. PICK x : x = SubSeq(w, 0 + 1, k)
  OBVIOUS
<1>3. x \in Seq(Byte) /\ Len(x) = k /\ \A i \in 1 .. k : x[i] = w[i]
  BY <1>1, <1>2, Slice
<1>4. PICK y : y = SubSeq(w, k + 1, Len(w))
  OBVIOUS
<1>5. /\ y \in Seq(Byte) /\ Len(y) = Len(w) - k /\ y = From(w, k)
      /\ \A i \in 1 .. Len(w) - k : y[i] = w[k + i]
  <2>1. y = From(w, k)
    BY <1>4 DEF From, Stretch
  <2> QED BY <1>1, <1>4, <2>1, Slice
<1>6. packet = h \o x
  BY <1>0, <1>2
<1>7. /\ packet \in Seq(Byte) /\ Len(packet) = Len(h) + k
      /\ \A i \in 1 .. Len(h) + k : packet[i] = IF i <= Len(h) THEN h[i] ELSE x[i - Len(h)]
  <2>1. /\ h \o x \in Seq(Byte) /\ Len(h \o x) = Len(h) + Len(x)
        /\ \A i \in 1 .. Len(h) + Len(x) :
              (h \o x)[i] = IF i <= Len(h) THEN h[i] ELSE x[i - Len(h)]
    BY <1>3, ConcatProperties
  <2> QED BY <1>3, <1>6, <2>1
<1>8. PICK v : v = SubSeq(packet, Len(h) + 1, Len(packet))
  OBVIOUS
<1>9. /\ v \in Seq(Byte) /\ Len(v) = k /\ \A i \in 1 .. k : v[i] = packet[Len(h) + i]
  <2>1. /\ v \in Seq(Byte) /\ Len(v) = Len(packet) - Len(h)
        /\ \A i \in 1 .. Len(packet) - Len(h) : v[i] = packet[Len(h) + i]
    BY <1>1, <1>7, <1>8, Slice
  <2> QED BY <1>1, <1>7, <2>1
<1>10. /\ v \o y \in Seq(Byte) /\ Len(v \o y) = k + (Len(w) - k)
       /\ \A i \in 1 .. k + (Len(w) - k) : (v \o y)[i] = IF i <= k THEN v[i] ELSE y[i - k]
  <2>1. /\ v \o y \in Seq(Byte) /\ Len(v \o y) = Len(v) + Len(y)
        /\ \A i \in 1 .. Len(v) + Len(y) :
              (v \o y)[i] = IF i <= Len(v) THEN v[i] ELSE y[i - Len(v)]
    <3>1. v \in Seq(Byte) /\ y \in Seq(Byte)
      BY <1>5, <1>9
    <3> QED BY ONLY <3>1, ConcatProperties
  <2> QED BY <1>5, <1>9, <2>1
<1>11. v \o y = w
  <2>1. Len(v \o y) = Len(w) /\ k + (Len(w) - k) = Len(w)
    BY <1>1, <1>10
  <2>2. \A i \in 1 .. Len(w) : (v \o y)[i] = w[i]
    <3> TAKE i \in 1 .. Len(w)
    <3>1. CASE i <= k
      <4>1. i \in 1 .. k /\ Len(h) + i \in 1 .. Len(h) + k /\ ~(Len(h) + i <= Len(h))
            /\ (Len(h) + i) - Len(h) = i
        BY <1>1, <3>1
      <4> QED BY <1>3, <1>7, <1>9, <1>10, <2>1, <3>1, <4>1
    <3>2. CASE ~(i <= k)
      <4>1. i - k \in 1 .. Len(w) - k /\ k + (i - k) = i
        BY <1>1, <3>2
      <4> QED BY <1>5, <1>10, <2>1, <3>2, <4>1
    <3> QED BY <3>1, <3>2
  <2> QED BY <1>10, <2>1, <2>2, SeqEqual
<1>12. Stretch(packet, Len(h), Len(packet)) \o From(w, k) = w
  BY <1>5, <1>8, <1>11 DEF Stretch
<1> QED BY <1>0, <1>5, <1>7, <1>12

(***************************************************************************)
(* The byte stream                                                         *)
(***************************************************************************)
LEMMA StatusType ==
    Status \in Seq(Byte) /\ Len(Status) \in {0, 2} /\ (driver = "ftdi" => Len(Status) = 2)
<1>1. ModemStatus \in Byte /\ LineStatus \in Byte
  BY DEF ModemStatus, LineStatus, Byte, AnyWord
<1>2. CASE driver = "ftdi"
  BY <1>1, <1>2 DEF Status
<1>3. CASE driver # "ftdi"
  BY <1>3, EmptySeq DEF Status
<1> QED BY <1>2, <1>3

(* In a state of the stream, what is unread and the wire are sequences.    *)
LEMMA UnreadType ==
    ASSUME StreamOK
    PROVE  /\ Unread \in Seq(Byte) /\ Len(Unread) = rx_end - rx_start
           /\ rx_start \in Nat /\ rx_end \in Nat /\ rx_start <= rx_end
           /\ rx_end <= Len(rx_packet) /\ Len(rx_packet) \in Nat /\ Len(wire) \in Nat
           /\ (rx_end = 0 => Unread = <<>>)
<1>1. /\ rx_packet \in Seq(Byte) /\ wire \in Seq(Byte)
      /\ Len(rx_packet) \in Nat /\ Len(wire) \in Nat
  BY LenProperties DEF StreamOK
<1>2. /\ rx_start \in Nat /\ rx_end \in Nat /\ rx_start <= rx_end /\ rx_end <= Len(rx_packet)
  BY <1>1 DEF StreamOK
<1>3. Unread \in Seq(Byte) /\ Len(Unread) = rx_end - rx_start
  <2>1. Unread = Stretch(rx_packet, rx_start, rx_end)
    BY DEF Unread, Stretch
  <2> QED BY <1>1, <1>2, <2>1, StretchType
<1>4. rx_end = 0 => Unread = <<>>
  BY <1>2, SubSeqEmpty DEF Unread, Stretch
<1> QED BY <1>1, <1>2, <1>3, <1>4

(* What a read leaves, and what it took from the front of a stream.        *)
Copied(room) ==
    /\ reply' \in [call : Calls, bytes : Seq(Byte)] /\ Len(reply'.bytes) \in 1 .. room
    /\ rx_packet' \in Seq(Byte) /\ Len(rx_packet') <= PacketSize
    /\ rx_end' \in 0 .. Len(rx_packet') /\ rx_start' \in 0 .. rx_end'
    /\ (rx_start' = rx_end' => rx_end' = 0)

ReadsFrom(stream) ==
    \E n \in 1 .. Len(stream) :
        /\ reply' = [call |-> "read", bytes |-> SubSeq(stream, 1, n)]
        /\ (Unread \o wire)' = Stretch(stream, n, Len(stream))

(* A read that copies is a read of the channel, and keeps the rest.        *)
LEMMA Copy ==
    ASSUME NEW room \in Nat \ {0}, NEW p \in Seq(Byte), Len(p) <= PacketSize,
           NEW start \in Nat, NEW end \in Nat, start < end, end <= Len(p),
           NEW w \in Seq(Byte), wire' = w, CopyBuffered(room, p, start, end)
    PROVE  Copied(room) /\ ReadsFrom(Stretch(p, start, end) \o w)
<1> DEFINE count == IF room < end - start THEN room ELSE end - start
<1>0. PICK taken, stream : taken = start + count /\ stream = Stretch(p, start, end) \o w
  OBVIOUS
<1>1. /\ reply' = [call |-> "read", bytes |-> Stretch(p, start, taken)]
      /\ rx_packet' = IF taken = end THEN <<>> ELSE p
      /\ rx_start' = IF taken = end THEN 0 ELSE taken
      /\ rx_end' = IF taken = end THEN 0 ELSE end
  BY <1>0 DEF CopyBuffered, Stretch
<1>2. /\ count \in 1 .. room /\ taken \in Nat /\ start <= taken /\ taken <= end
      /\ taken - start = count /\ Len(p) \in Nat /\ PacketSize \in Nat
      /\ taken <= Len(p) /\ start < taken
  BY <1>0, LenProperties, ByteStreamAssumption
<1> HIDE DEF count
<1>3. Stretch(p, start, taken) \in Seq(Byte) /\ Len(Stretch(p, start, taken)) = count
  <2>1. taken \in Nat /\ start <= taken /\ taken <= Len(p)
    BY <1>2
  <2>2. Stretch(p, start, taken) \in Seq(Byte) /\ Len(Stretch(p, start, taken)) = taken - start
    BY <2>1, StretchType
  <2> QED BY <1>2, <2>2
<1>4. reply' \in [call : Calls, bytes : Seq(Byte)] /\ Len(reply'.bytes) \in 1 .. room
  BY <1>1, <1>2, <1>3 DEF Calls
<1>5. /\ stream \in Seq(Byte) /\ Len(stream) = (end - start) + Len(w) /\ Len(w) \in Nat
      /\ SubSeq(stream, 1, count) = Stretch(p, start, taken)
      /\ Stretch(stream, count, Len(stream)) = Stretch(p, taken, end) \o w
  <2>1. taken \in Nat /\ start <= taken /\ taken <= end
    BY <1>2
  <2>2. LeavesTheRest(p, w, start, taken, end)
    BY <2>1, ReadOn
  <2>3. Len(w) \in Nat
    BY LenProperties
  <2> QED BY <1>0, <1>2, <2>2, <2>3, Zenon DEF LeavesTheRest
<1>6. /\ rx_packet' \in Seq(Byte) /\ Len(rx_packet') <= PacketSize
      /\ rx_end' \in 0 .. Len(rx_packet') /\ rx_start' \in 0 .. rx_end'
      /\ (rx_start' = rx_end' => rx_end' = 0)
      /\ Unread' = Stretch(p, taken, end)
  <2>1. CASE taken = end
    <3>1. rx_packet' = <<>> /\ rx_start' = 0 /\ rx_end' = 0
      BY <1>1, <2>1
    <3>2. Unread' = <<>> /\ Stretch(p, taken, end) = <<>>
      BY <1>2, <2>1, <3>1, SubSeqEmpty DEF Unread, Stretch
    <3>3. rx_packet' \in Seq(Byte) /\ Len(rx_packet') = 0
      BY <3>1, EmptySeq
    <3>4. Unread' = Stretch(p, taken, end)
      BY <3>2
    <3> QED BY <1>2, <3>1, <3>3, <3>4
  <2>2. CASE taken # end
    <3>1. rx_packet' = p /\ rx_start' = taken /\ rx_end' = end
      BY <1>1, <2>2
    <3> QED BY <1>2, <2>2, <3>1 DEF Unread, Stretch
  <2> QED BY <2>1, <2>2
<1>7. /\ count \in 1 .. Len(stream)
      /\ reply' = [call |-> "read", bytes |-> SubSeq(stream, 1, count)]
      /\ (Unread \o wire)' = Stretch(stream, count, Len(stream))
  <2>1. count \in 1 .. Len(stream)
    BY <1>2, <1>5
  <2>2. (Unread \o wire)' = Stretch(p, taken, end) \o w
    BY <1>6, Zenon
  <2> QED BY <1>1, <1>2, <1>5, <2>1, <2>2, Zenon
<1>8. ReadsFrom(stream)
  BY <1>7 DEF ReadsFrom
<1> QED BY <1>0, <1>4, <1>6, <1>8 DEF Copied

(* What the channel may do in a step                                       *)
ChannelStep == Channel!Next \/ UNCHANGED <<Unread \o wire, reply>>

(* What is read from the front of the channel's stream is a step of it.    *)
LEMMA ReadsChannel ==
    ASSUME ReadsFrom(Unread \o wire)
    PROVE  ChannelStep
  BY DEF ReadsFrom, ChannelStep, Channel!Next, Channel!Read, Stretch

(* A read that returns has read the front of the stream; one that waits    *)
(* has not touched it.                                                     *)
Hands ==
    IF reading' = 0 THEN ReadsFrom(Unread \o wire) ELSE (Unread \o wire)' = Unread \o wire

LEMMA ReadCallReads ==
    ASSUME StreamOK, NEW room \in Nat \ {0}, ReadCall(room)
    PROVE  /\ StreamOK' /\ ChannelStep /\ Hands /\ reading' \in {0, room}
           /\ reading' = 0 => Len(reply'.bytes) \in 1 .. room
<1>1. reading = 0 /\ driver' = driver /\ wire' = wire
  BY DEF ReadCall
<1>2. /\ rx_start \in Nat /\ rx_end \in Nat /\ rx_start <= rx_end /\ rx_end <= Len(rx_packet)
  BY UnreadType
<1>3. CASE rx_start # rx_end
  <2>1. CopyBuffered(room, rx_packet, rx_start, rx_end) /\ reading' = reading
    BY <1>3 DEF ReadCall
  <2>2. /\ rx_packet \in Seq(Byte) /\ Len(rx_packet) <= PacketSize /\ wire \in Seq(Byte)
        /\ rx_start < rx_end
    BY <1>2, <1>3 DEF StreamOK
  <2>3. PICK p, start, end : p = rx_packet /\ start = rx_start /\ end = rx_end
    OBVIOUS
  <2>4. /\ p \in Seq(Byte) /\ Len(p) <= PacketSize /\ start \in Nat /\ end \in Nat
        /\ start < end /\ end <= Len(p) /\ CopyBuffered(room, p, start, end)
    BY <1>2, <2>1, <2>2, <2>3, Zenon
  <2>5. Copied(room) /\ ReadsFrom(Stretch(p, start, end) \o wire)
    BY <1>1, <2>2, <2>4, Copy
  <2>6. StreamOK'
    BY <1>1, <2>1, <2>2, <2>5 DEF StreamOK, Copied
  <2>7. Stretch(p, start, end) \o wire = Unread \o wire
    BY <2>3 DEF Unread, Stretch
  <2>8. ChannelStep
    BY <2>5, <2>7, ReadsChannel
  <2>9. Hands
    BY <1>1, <2>1, <2>5, <2>7 DEF Hands
  <2> QED BY <1>1, <2>1, <2>5, <2>6, <2>8, <2>9 DEF Copied
<1>4. CASE rx_start = rx_end
  <2>1. /\ reading' = room /\ rx_packet' = rx_packet /\ rx_start' = rx_start
        /\ rx_end' = rx_end /\ reply' = reply
    BY <1>4 DEF ReadCall
  <2>2. rx_end = 0
    BY <1>4 DEF StreamOK
  <2>3. StreamOK'
    BY <1>1, <2>1, <2>2 DEF StreamOK
  <2> QED BY <1>1, <2>1, <2>3 DEF ChannelStep, Hands, Unread
<1> QED BY <1>3, <1>4

LEMMA ReceiveReads ==
    ASSUME StreamOK, Receive
    PROVE  /\ StreamOK' /\ ChannelStep /\ Hands /\ reading' \in {0, reading}
           /\ reading' = 0 => Len(reply'.bytes) \in 1 .. reading
<1>1. reading \in Nat \ {0} /\ driver' = driver /\ rx_end = 0 /\ wire \in Seq(Byte)
  BY DEF Receive, StreamOK
<1>2. Unread = <<>> /\ Len(wire) \in Nat
  BY <1>1, UnreadType
<1>3. Status \in Seq(Byte) /\ Len(Status) \in {0, 2} /\ (driver = "ftdi" => Len(Status) = 2)
  BY StatusType
<1>4. ASSUME rx_packet' = rx_packet, rx_start' = rx_start, rx_end' = rx_end,
             reading' = reading, reply' = reply, wire' = wire
      PROVE  StreamOK' /\ ChannelStep /\ Hands
  BY <1>1, <1>4 DEF StreamOK, ChannelStep, Hands, Unread
<1>5. ASSUME NEW k \in 0 .. Len(wire), Len(Status) + k <= PacketSize,
             Arrive(Status \o SubSeq(wire, 1, k)), wire' = From(wire, k)
      PROVE  /\ StreamOK' /\ ChannelStep /\ Hands /\ reading' \in {0, reading}
             /\ reading' = 0 => Len(reply'.bytes) \in 1 .. reading
  <2>0. k \in Nat /\ k <= Len(wire)
    BY <1>2
  <2>1. PICK packet, start, end, room, w :
           /\ packet = Status \o SubSeq(wire, 1, k) /\ start = Len(Status)
           /\ end = Len(packet) /\ room = reading /\ w = From(wire, k)
    OBVIOUS
  <2>2. /\ packet \in Seq(Byte) /\ end = start + k /\ w \in Seq(Byte) /\ wire' = w
        /\ Stretch(packet, start, end) \o w = wire
    <3>1. /\ Status \o SubSeq(wire, 1, k) \in Seq(Byte)
          /\ Len(Status \o SubSeq(wire, 1, k)) = Len(Status) + k
          /\ From(wire, k) \in Seq(Byte)
          /\ Stretch(Status \o SubSeq(wire, 1, k), Len(Status),
                     Len(Status \o SubSeq(wire, 1, k))) \o From(wire, k) = wire
      BY <1>1, <1>3, <2>0, PacketStandsForWire
    <3> QED BY <1>5, <2>1, <3>1, Zenon
  <2>3. CASE k = 0
    <3>1. wire' = wire
      BY <1>1, <1>5, <2>3, SubSeqFull DEF From
    <3>2. Len(packet) <= Len(Status)
      BY <1>3, <2>1, <2>2, <2>3
    <3>3. /\ rx_packet' = rx_packet /\ rx_start' = rx_start /\ rx_end' = rx_end
          /\ reading' = reading /\ reply' = reply
      BY <1>5, <2>1, <3>2 DEF Arrive
    <3> QED BY <1>1, <1>4, <3>1, <3>3
  <2>4. CASE k # 0
    <3>1. /\ ~(Len(packet) <= Len(Status)) /\ start < end /\ start \in Nat /\ end \in Nat
          /\ end <= Len(packet) /\ Len(packet) <= PacketSize
      BY <1>3, <1>5, <2>0, <2>1, <2>2, <2>4
    <3>2. CopyBuffered(room, packet, start, end) /\ reading' = 0 /\ room \in Nat \ {0}
      BY <1>1, <1>5, <2>1, <3>1 DEF Arrive
    <3>3. Copied(room) /\ ReadsFrom(Stretch(packet, start, end) \o w)
      BY <2>2, <3>1, <3>2, Copy
    <3>4. Stretch(packet, start, end) \o w = Unread \o wire
      BY <1>1, <1>2, <2>2, ConcatEmptySeq
    <3>5. StreamOK'
      BY <1>1, <2>2, <3>2, <3>3 DEF StreamOK, Copied
    <3>6. ChannelStep
      BY <3>3, <3>4, ReadsChannel
    <3>7. Hands
      BY <3>2, <3>3, <3>4 DEF Hands
    <3> QED BY <2>1, <3>2, <3>3, <3>5, <3>6, <3>7 DEF Copied
  <2> QED BY <2>3, <2>4
<1>6. ASSUME driver = "ftdi", Arrive(<<ModemStatus>>), wire' = wire
      PROVE  StreamOK' /\ ChannelStep /\ Hands /\ reading' = reading
  <2>1. Len(<<ModemStatus>>) <= Len(Status)
    BY <1>3, <1>6
  <2>2. /\ rx_packet' = rx_packet /\ rx_start' = rx_start /\ rx_end' = rx_end
        /\ reading' = reading /\ reply' = reply
    BY <1>6, <2>1 DEF Arrive
  <2> QED BY <1>4, <1>6, <2>2
<1> QED BY <1>1, <1>5, <1>6 DEF Receive

(* What is lost is one stretch of the stream.                              *)
LEMMA Loses ==
    ASSUME NEW how \in {"failed", "dropped", "cleared"}, reply' = [call |-> how, bytes |-> <<>>],
           NEW stream, stream = Unread \o wire, stream \in Seq(Byte),
           NEW i \in Nat, NEW j \in Nat, i <= j, j <= Len(stream),
           (Unread \o wire)' = SubSeq(stream, 1, i) \o Stretch(stream, j, Len(stream))
    PROVE  ChannelStep
<1>1. reply' \in [call : Channel!Losing, bytes : {<<>>}]
  BY DEF Channel!Losing
<1>2. i \in 0 .. Len(stream) /\ j \in i .. Len(stream)
  BY LenProperties
<1>3. Channel!Lose
  BY <1>1, <1>2 DEF Channel!Lose, Stretch
<1> QED BY <1>3 DEF ChannelStep, Channel!Next

LEMMA BrokenLoses ==
    ASSUME StreamOK, NEW how \in {"failed", "dropped"}, Broken(how)
    PROVE  StreamOK' /\ ChannelStep /\ reading' = 0
<1>1. /\ reading # 0 /\ reading' = 0 /\ reply' = [call |-> how, bytes |-> <<>>]
      /\ driver' = driver /\ rx_packet' = rx_packet /\ rx_start' = rx_start /\ rx_end' = rx_end
  BY DEF Broken
<1>2. PICK k \in 0 .. Len(wire) : wire' = From(wire, k)
  BY DEF Broken
<1>3. /\ wire \in Seq(Byte) /\ Len(wire) \in Nat /\ Unread = <<>> /\ Unread' = <<>>
  <2>1. Unread = <<>> /\ Len(wire) \in Nat
    BY <1>1, UnreadType DEF StreamOK
  <2> QED BY <1>1, <2>1 DEF StreamOK, Unread
<1>4. wire' \in Seq(Byte)
  <2>1. From(wire, k) = Stretch(wire, k, Len(wire))
    BY DEF From, Stretch
  <2> QED BY <1>2, <1>3, <2>1, StretchType
<1>5. StreamOK'
  <2>1. reply' \in [call : Calls, bytes : Seq(Byte)]
    BY <1>1, EmptySeq DEF Calls
  <2> QED BY <1>1, <1>4, <2>1 DEF StreamOK
<1>6. PICK stream : stream = Unread \o wire
  OBVIOUS
<1>7. stream = wire /\ (Unread \o wire)' = wire'
  BY <1>3, <1>4, <1>6, ConcatEmptySeq
<1>8. SubSeq(stream, 1, 0) \o Stretch(stream, k, Len(stream)) = wire'
  <2>1. SubSeq(stream, 1, 0) = <<>>
    BY SubSeqEmpty
  <2>2. Stretch(stream, k, Len(stream)) = wire'
    BY <1>2, <1>7 DEF From, Stretch
  <2> QED BY <1>4, <2>1, <2>2, ConcatEmptySeq
<1>9. ChannelStep
  <2>1. /\ k \in Nat /\ 0 \in Nat /\ 0 <= k /\ k <= Len(stream) /\ stream \in Seq(Byte)
        /\ how \in {"failed", "dropped", "cleared"}
    BY <1>2, <1>3, <1>7
  <2> QED BY <1>1, <1>6, <1>7, <1>8, <2>1, Loses
<1> QED BY <1>1, <1>5, <1>9

(* The two parts of a concatenation                                        *)
LEMMA Parts ==
    ASSUME NEW u \in Seq(Byte), NEW w \in Seq(Byte)
    PROVE  /\ u \o w \in Seq(Byte) /\ Len(u \o w) = Len(u) + Len(w)
           /\ Len(u) \in Nat /\ Len(w) \in Nat
           /\ SubSeq(u \o w, 1, Len(u)) = u
           /\ Stretch(u \o w, Len(u), Len(u \o w)) = w
<1>1. PICK l : l = Len(u)
  OBVIOUS
<1>2. l \in Nat /\ 0 \in Nat /\ 0 <= l /\ l <= l /\ l <= Len(u) /\ Len(w) \in Nat
  BY <1>1, LenProperties
<1>3. LeavesTheRest(u, w, 0, l, l)
  BY <1>2, ReadOn
<1>4. Stretch(u, 0, l) = u
  BY <1>1, SubSeqFull DEF Stretch
<1>5. Stretch(u, l, l) = <<>>
  BY <1>2, SubSeqEmpty DEF Stretch
<1>6. <<>> \o w = w
  BY ConcatEmptySeq
<1>7. l - 0 = l
  BY <1>2
<1>8. /\ u \o w \in Seq(Byte) /\ SubSeq(u \o w, 1, l) = u
      /\ Stretch(u \o w, l, Len(u \o w)) = w
  BY <1>3, <1>4, <1>5, <1>6, <1>7, Zenon DEF LeavesTheRest
<1>9. Len(u \o w) = Len(u) + Len(w)
  BY ConcatProperties
<1> QED BY <1>1, <1>2, <1>8, <1>9

(* The buffer goes, and the wire stays or goes with it.                    *)
LEMMA DiscardLoses ==
    ASSUME StreamOK, Discard, wire' \in {wire, <<>>}
    PROVE  StreamOK' /\ ChannelStep /\ reading' = 0
<1>1. /\ reading = 0 /\ reading' = 0 /\ driver' = driver
      /\ rx_packet' = <<>> /\ rx_start' = 0 /\ rx_end' = 0
      /\ reply' = [call |-> "cleared", bytes |-> <<>>]
  BY DEF Discard
<1>2. wire \in Seq(Byte) /\ wire' \in Seq(Byte) /\ <<>> \in Seq(Byte) /\ Len(<<>>) = 0
  BY EmptySeq DEF StreamOK
<1>3. StreamOK'
  <2>1. reply' \in [call : Calls, bytes : Seq(Byte)]
    BY <1>1, <1>2 DEF Calls
  <2>2. PacketSize \in Nat
    BY ByteStreamAssumption
  <2> QED BY <1>1, <1>2, <2>1, <2>2 DEF StreamOK
<1>4. Unread \in Seq(Byte)
  BY UnreadType
<1>5. Unread' = <<>>
  BY <1>1, SubSeqEmpty DEF Unread
<1>6. PICK stream, u, w : stream = Unread \o wire /\ u = Len(Unread) /\ w = Len(stream)
  OBVIOUS
<1>7. /\ stream \in Seq(Byte) /\ u \in Nat /\ w \in Nat /\ 0 \in Nat /\ u <= w
      /\ 0 <= u /\ 0 <= w /\ w <= w
      /\ Stretch(stream, u, Len(stream)) = wire
  <2>1. /\ Unread \o wire \in Seq(Byte) /\ Len(Unread \o wire) = Len(Unread) + Len(wire)
        /\ Len(Unread) \in Nat /\ Len(wire) \in Nat
        /\ Stretch(Unread \o wire, Len(Unread), Len(Unread \o wire)) = wire
    BY <1>2, <1>4, Parts
  <2> QED BY <1>6, <2>1
<1>8. SubSeq(stream, 1, 0) = <<>> /\ Stretch(stream, w, Len(stream)) = <<>>
  BY <1>6, <1>7, SubSeqEmpty DEF Stretch
<1>9. (Unread \o wire)' = wire'
  BY <1>2, <1>5, ConcatEmptySeq
<1>10. CASE wire' = wire
  <2>1. (Unread \o wire)' = SubSeq(stream, 1, 0) \o Stretch(stream, u, Len(stream))
    BY <1>2, <1>7, <1>8, <1>9, <1>10, ConcatEmptySeq
  <2>2. u <= Len(stream)
    BY <1>6, <1>7
  <2> QED BY <1>1, <1>3, <1>6, <1>7, <2>1, <2>2, Loses
<1>11. CASE wire' = <<>>
  <2>1. (Unread \o wire)' = SubSeq(stream, 1, 0) \o Stretch(stream, w, Len(stream))
    BY <1>2, <1>8, <1>9, <1>11, ConcatEmptySeq
  <2>2. w <= Len(stream)
    BY <1>6, <1>7
  <2> QED BY <1>1, <1>3, <1>6, <1>7, <2>1, <2>2, Loses
<1> QED BY <1>10, <1>11

LEMMA PurgeBrokenLoses ==
    ASSUME StreamOK, PurgeBroken
    PROVE  StreamOK' /\ ChannelStep /\ reading' = 0
<1>1. /\ reading = 0 /\ reading' = 0 /\ driver' = driver /\ wire' \in {wire, <<>>}
      /\ rx_packet' = rx_packet /\ rx_start' = rx_start /\ rx_end' = rx_end
      /\ reply' = [call |-> "failed", bytes |-> <<>>]
  BY DEF PurgeBroken
<1>2. wire \in Seq(Byte) /\ wire' \in Seq(Byte) /\ <<>> \in Seq(Byte)
  BY <1>1, EmptySeq DEF StreamOK
<1>3. StreamOK'
  <2>1. reply' \in [call : Calls, bytes : Seq(Byte)]
    BY <1>1, <1>2 DEF Calls
  <2> QED BY <1>1, <1>2, <2>1 DEF StreamOK
<1>4. Unread \in Seq(Byte) /\ Unread' = Unread
  BY <1>1, UnreadType DEF Unread
<1>5. PICK stream, u, w : stream = Unread \o wire /\ u = Len(Unread) /\ w = Len(stream)
  OBVIOUS
<1>6. /\ stream \in Seq(Byte) /\ u \in Nat /\ w \in Nat /\ u <= w /\ w <= w
      /\ SubSeq(stream, 1, u) = Unread /\ Stretch(stream, u, Len(stream)) = wire
  <2>1. /\ Unread \o wire \in Seq(Byte) /\ Len(Unread \o wire) = Len(Unread) + Len(wire)
        /\ Len(Unread) \in Nat /\ Len(wire) \in Nat
        /\ SubSeq(Unread \o wire, 1, Len(Unread)) = Unread
        /\ Stretch(Unread \o wire, Len(Unread), Len(Unread \o wire)) = wire
    BY <1>2, <1>4, Parts
  <2> QED BY <1>5, <2>1
<1>7. Stretch(stream, w, Len(stream)) = <<>>
  BY <1>5, <1>6, SubSeqEmpty DEF Stretch
<1>8. w <= Len(stream) /\ u <= Len(stream) /\ u <= u
  BY <1>5, <1>6
<1>9. CASE wire' = wire
  <2>1. (Unread \o wire)' = SubSeq(stream, 1, u) \o Stretch(stream, u, Len(stream))
    BY <1>4, <1>6, <1>9
  <2> QED BY <1>1, <1>3, <1>5, <1>6, <1>8, <2>1, Loses
<1>10. CASE wire' = <<>>
  <2>1. (Unread \o wire)' = SubSeq(stream, 1, u) \o Stretch(stream, w, Len(stream))
    BY <1>4, <1>6, <1>7, <1>10
  <2> QED BY <1>1, <1>3, <1>5, <1>6, <1>8, <2>1, Loses
<1> QED BY <1>1, <1>9, <1>10

(* The device sends an answer, which may be empty.                         *)
LEMMA SymbolsType ==
    ASSUME NEW lines \in Seq(Words), NEW n \in Nat
    PROVE  Symbols(lines, n) \in Seq(Byte) /\ Len(Symbols(lines, n)) = Len(lines)
<1>1. DOMAIN lines = 1 .. Len(lines) /\ Len(lines) \in Nat
  BY LenProperties
<1>2. \A i \in 1 .. Len(lines) : [word |-> lines[i], of |-> n] \in Byte
  BY <1>1, ElementOfSeq DEF Byte, AnyWord
<1> QED BY <1>1, <1>2, IsASeq DEF Symbols

LEMMA Regrouped ==
    ASSUME NEW u \in Seq(Byte), NEW w \in Seq(Byte), NEW s \in Seq(Byte)
    PROVE  u \o (w \o s) = (u \o w) \o s
<1>1. \A S : \A x, y, z \in Seq(S) : (x \o y) \o z = x \o (y \o z)
  BY ConcatAssociative
<1> QED BY <1>1

LEMMA HearsSends ==
    ASSUME StreamOK, NEW n \in Nat, command \in DOMAIN Responses, Hears(n),
           UNCHANGED <<driver, rx_packet, rx_start, rx_end, reading, reply>>
    PROVE  StreamOK' /\ ChannelStep
<1>1. PICK response \in Seq(Words) : wire' = wire \o Symbols(response, n)
  <2>1. Error \in Seq(Words)
    BY BleuIoAssumption DEF Error
  <2>2. Responses[command] \subseteq Seq(Words)
    BY BleuIoAssumption
  <2> QED BY <2>1, <2>2 DEF Hears
<1>2. PICK s : s = Symbols(response, n)
  OBVIOUS
<1>3. s \in Seq(Byte) /\ Len(s) = Len(response) /\ Len(s) \in Nat
  BY <1>2, SymbolsType, LenProperties
<1>4. wire \in Seq(Byte) /\ wire' \in Seq(Byte) /\ wire' = wire \o s
  BY <1>1, <1>2, <1>3, ConcatProperties DEF StreamOK
<1>5. StreamOK'
  BY <1>4 DEF StreamOK
<1>6. Unread \in Seq(Byte) /\ Unread' = Unread /\ reply' = reply
  BY UnreadType DEF Unread
<1>7. PICK stream : stream = Unread \o wire
  OBVIOUS
<1>8. stream \in Seq(Byte) /\ (Unread \o wire)' = stream \o s
  <2>1. Unread \o wire \in Seq(Byte)
    BY <1>4, <1>6, Parts
  <2>2. Unread \in Seq(Byte) /\ wire \in Seq(Byte) /\ s \in Seq(Byte)
    BY <1>3, <1>4, <1>6
  <2>3. Unread \o (wire \o s) = (Unread \o wire) \o s
    BY <2>2, Regrouped
  <2> QED BY <1>4, <1>6, <1>7, <2>1, <2>3
<1>9. CASE s = <<>>
  <2>1. (Unread \o wire)' = Unread \o wire
    BY <1>7, <1>8, <1>9, ConcatEmptySeq
  <2> QED BY <1>5, <1>6, <2>1 DEF ChannelStep
<1>10. CASE s # <<>>
  <2>1. Len(s) > 0
    BY <1>3, <1>10, EmptySeq
  <2>2. Len(stream \o s) > Len(stream) /\ SubSeq(stream \o s, 1, Len(stream)) = stream
    <3>1. /\ Len(stream \o s) = Len(stream) + Len(s) /\ Len(stream) \in Nat /\ Len(s) \in Nat
          /\ SubSeq(stream \o s, 1, Len(stream)) = stream
      BY <1>3, <1>8, Parts
    <3> QED BY <2>1, <3>1
  <2>3. Channel!Send
    BY <1>6, <1>7, <1>8, <2>2 DEF Channel!Send
  <2> QED BY <1>5, <2>3 DEF ChannelStep, Channel!Next
<1> QED BY <1>9, <1>10

(***************************************************************************)
(* The parsers                                                             *)
(***************************************************************************)
LEMMA Least ==
    ASSUME NEW T, T \subseteq Nat, T # {}
    PROVE  \E m \in T : \A k \in T : m <= k
<1>1. PICK R : R = OpToRel(<, Nat)
  OBVIOUS
<1>2. IsWellFoundedOn(R, Nat)
  BY <1>1, NatLessThanWellFounded
<1>3. PICK m \in T : \A k \in T : ~(<<k, m>> \in R)
  BY <1>2, WFMin
<1>4. \A k \in Nat, n \in Nat : <<k, n>> \in R <=> k < n
  BY <1>1 DEF OpToRel
<1>5. \A k \in T : ~(k < m) /\ k \in Nat /\ m \in Nat
  BY <1>3, <1>4
<1> QED BY <1>5

(* One symbol more: it is consumed, unless an end was or is reached.       *)
Consumes(p, q) ==
    /\ q.used \in {p.used, p.used + 1}
    /\ q.end = "Pending" => p.end = "Pending" /\ q.used = p.used + 1

(* One symbol more: a buffer never holds more than it has room for.        *)
LEMMA AtStepType ==
    ASSUME NEW p \in AtAccumulator, NEW s \in Byte
    PROVE  AtStep(p, s) \in AtAccumulator /\ Consumes(p, AtStep(p, s))
<1>0. PICK next, line :
         /\ next = [p EXCEPT !.len = @ + 1, !.used = @ + 1, !.of = s.of]
         /\ line = Append(p.line, s.word)
  OBVIOUS
<1>1. p.line \in Seq(AnyWord) /\ s.word \in AnyWord /\ s.of \in Nat /\ MaxResponse \in Nat
  BY BleuIoAssumption DEF AtAccumulator, Byte
<1>2. line \in Seq(AnyWord) /\ <<>> \in Seq(AnyWord)
  BY <1>0, <1>1, AppendProperties, EmptySeq
<1>3. CASE p.end # "Pending"
  BY <1>3 DEF AtStep, Consumes, AtAccumulator
<1>4. CASE p.end = "Pending" /\ p.len = MaxResponse
  BY <1>4 DEF AtStep, AtAccumulator, AtEnds, Consumes
<1>5. CASE p.end = "Pending" /\ p.len # MaxResponse
  <2>1. next \in AtAccumulator /\ next.used = p.used + 1
    <3>1. next = [len |-> p.len + 1, line |-> p.line, end |-> p.end, of |-> s.of,
                  used |-> p.used + 1]
      BY <1>0 DEF AtAccumulator
    <3>2. p.len + 1 \in 0 .. MaxResponse /\ p.used + 1 \in Nat /\ p.end \in AtEnds
      BY <1>1, <1>5 DEF AtAccumulator
    <3> QED BY <1>1, <3>1, <3>2 DEF AtAccumulator
  <2>2. AtStep(p, s) \in {[next EXCEPT !.end = "Ok"], [next EXCEPT !.end = "Error"],
                          [next EXCEPT !.line = <<>>], [next EXCEPT !.line = line]}
    BY <1>0, <1>5 DEF AtStep
  <2>3. \A x \in {[next EXCEPT !.end = "Ok"], [next EXCEPT !.end = "Error"],
                   [next EXCEPT !.line = <<>>], [next EXCEPT !.line = line]} :
           x \in AtAccumulator /\ x.used = p.used + 1
    BY <1>2, <2>1 DEF AtAccumulator, AtEnds
  <2> QED BY <1>5, <2>2, <2>3 DEF Consumes
<1> QED BY <1>3, <1>4, <1>5

LEMMA ScanStepType ==
    ASSUME NEW p \in ScanAccumulator, NEW s \in Byte
    PROVE  ScanStep(p, s) \in ScanAccumulator /\ Consumes(p, ScanStep(p, s))
<1>0. PICK next, line, longer :
         /\ next = [p EXCEPT !.used = @ + 1, !.of = s.of]
         /\ line = ScanLine(SubSeq(p.line, 1, Len(p.line) - 1))
         /\ longer = Append(p.line, s.word)
  OBVIOUS
<1>1. /\ p.line \in Seq(AnyWord) /\ s.word \in AnyWord /\ s.of \in Nat /\ MaxLine \in Nat
      /\ Len(p.line) \in Nat /\ Len(p.line) <= MaxLine
  BY BleuIoAssumption, LenProperties DEF ScanAccumulator, Byte
<1>2. /\ longer \in Seq(AnyWord) /\ Len(longer) = Len(p.line) + 1
      /\ <<>> \in Seq(AnyWord) /\ Len(<<>>) = 0
  BY <1>0, <1>1, AppendProperties, EmptySeq
<1>3. next \in ScanAccumulator /\ next.used = p.used + 1
  <2>1. next = [line |-> p.line, end |-> p.end, of |-> s.of, used |-> p.used + 1,
                scanning |-> p.scanning, device |-> p.device]
    BY <1>0 DEF ScanAccumulator
  <2>2. /\ p.used + 1 \in Nat /\ p.end \in ScanEnds
        /\ p.scanning \in BOOLEAN /\ p.device \in BOOLEAN
        /\ p.line \in {l \in Seq(AnyWord) : Len(l) <= MaxLine}
    BY DEF ScanAccumulator
  <2> QED BY <1>1, <2>1, <2>2 DEF ScanAccumulator
<1>4. ASSUME NEW end \in ScanEnds
      PROVE  /\ [next EXCEPT !.end = end] \in ScanAccumulator
             /\ [next EXCEPT !.end = end].used = p.used + 1
  BY <1>3 DEF ScanAccumulator
<1>5. PICK read : read = [next EXCEPT !.line = <<>>]
  OBVIOUS
<1>6. read \in ScanAccumulator /\ read.used = p.used + 1
  <2>1. <<>> \in {l \in Seq(AnyWord) : Len(l) <= MaxLine}
    BY <1>1, <1>2
  <2>2. read = [line |-> <<>>, end |-> next.end, of |-> next.of, used |-> next.used,
                scanning |-> next.scanning, device |-> next.device]
    BY <1>3, <1>5 DEF ScanAccumulator
  <2>3. /\ next.used \in Nat /\ next.of \in Nat /\ next.end \in ScanEnds
        /\ next.scanning \in BOOLEAN /\ next.device \in BOOLEAN
    BY <1>3 DEF ScanAccumulator
  <2> QED BY <1>3, <2>1, <2>2, <2>3 DEF ScanAccumulator
<1>7. CASE p.end # "Pending"
  BY <1>7 DEF ScanStep, Consumes, ScanAccumulator
<1>8. CASE p.end = "Pending" /\ ~(s.word = "lf" /\ p.line # <<>> /\ p.line[Len(p.line)] = "cr")
  <2>1. CASE Len(p.line) = MaxLine
    <3>1. ScanStep(p, s) = [next EXCEPT !.end = "LineOverflow"]
      BY <1>0, <1>8, <2>1 DEF ScanStep
    <3> QED BY <1>4, <1>8, <3>1 DEF ScanEnds, Consumes
  <2>2. CASE Len(p.line) # MaxLine
    <3>1. ScanStep(p, s) = [next EXCEPT !.line = longer]
      BY <1>0, <1>8, <2>2 DEF ScanStep
    <3>2. Len(longer) <= MaxLine
      BY <1>1, <1>2, <2>2
    <3>3. ScanStep(p, s) \in ScanAccumulator /\ ScanStep(p, s).used = p.used + 1
      BY <1>2, <1>3, <3>1, <3>2 DEF ScanAccumulator
    <3> QED BY <1>8, <3>3 DEF Consumes
  <2> QED BY <2>1, <2>2
<1>9. CASE p.end = "Pending" /\ s.word = "lf" /\ p.line # <<>> /\ p.line[Len(p.line)] = "cr"
  <2>1. line \in {"Scanning", "Complete", "Error", "Device", "Malformed", "Ignore"}
    BY <1>0 DEF ScanLine
  <2>2. ScanStep(p, s) \in {read, [read EXCEPT !.scanning = TRUE], [read EXCEPT !.device = TRUE],
                            [read EXCEPT !.end = "Complete"]}
                          \cup {[next EXCEPT !.end = end] : end \in ScanEnds}
    BY <1>0, <1>5, <1>9, <2>1 DEF ScanStep, ScanEnds
  <2>3. \A x \in {read, [read EXCEPT !.scanning = TRUE], [read EXCEPT !.device = TRUE],
                   [read EXCEPT !.end = "Complete"]} :
           x \in ScanAccumulator /\ x.used = p.used + 1
    BY <1>6 DEF ScanAccumulator, ScanEnds
  <2> QED BY <1>4, <1>9, <2>2, <2>3 DEF Consumes
<1> QED BY <1>7, <1>8, <1>9

LEMMA StepType ==
    ASSUME NEW p \in Accumulator, NEW s \in Byte
    PROVE  Step(p, s) \in Accumulator /\ Consumes(p, Step(p, s))
  BY AtStepType, ScanStepType DEF Step, Accumulator

(* The parser's run over what is kept exists: were there a first symbol    *)
(* without one, the run up to the symbol before could be extended.         *)
RunTo(f, n) ==
    f = [i \in 0 .. n |->
            IF i = 0 THEN [parser EXCEPT !.used = 0] ELSE Step(f[i - 1], kept[i])]

LEMMA RunExists ==
    ASSUME NEW n \in Nat
    PROVE  \E f : RunTo(f, n)
<1> DEFINE T == {k \in Nat : ~ \E f : RunTo(f, k)}
<1>1. SUFFICES ASSUME T # {} PROVE FALSE
  OBVIOUS
<1>2. PICK m \in T : \A k \in T : m <= k
  <2>1. T \subseteq Nat
    OBVIOUS
  <2> HIDE DEF T
  <2> QED BY <1>1, <2>1, Least
<1>3. m \in Nat /\ ~ \E f : RunTo(f, m)
  BY <1>2
<1>4. CASE m = 0
  <2>1. PICK f : f = [i \in 0 .. 0 |-> [parser EXCEPT !.used = 0]]
    OBVIOUS
  <2>2. RunTo(f, 0)
    BY <2>1 DEF RunTo
  <2> QED BY <1>3, <1>4, <2>2
<1>5. CASE m # 0
  <2>1. m - 1 \in Nat /\ ~(m <= m - 1)
    BY <1>3, <1>5
  <2>2. m - 1 \notin T
    BY <1>2, <2>1
  <2>3. PICK f : RunTo(f, m - 1)
    BY <2>1, <2>2
  <2>4. PICK g : g = [i \in 0 .. m |-> IF i = m THEN Step(f[m - 1], kept[m]) ELSE f[i]]
    OBVIOUS
  <2>5. \A i \in 0 .. m : i # 0 => g[i] = Step(g[i - 1], kept[i])
    <3> SUFFICES ASSUME NEW i \in 0 .. m, i # 0
                 PROVE  g[i] = Step(g[i - 1], kept[i])
      OBVIOUS
    <3>1. i - 1 \in 0 .. m - 1 /\ i - 1 \in 0 .. m /\ i - 1 # m
      BY <1>3
    <3>2. g[i - 1] = f[i - 1]
      BY <2>4, <3>1
    <3>3. CASE i = m
      BY <2>4, <3>2, <3>3
    <3>4. CASE i # m
      <4>1. i \in 0 .. m - 1
        BY <1>3, <3>4
      <4>2. f[i] = Step(f[i - 1], kept[i])
        BY <2>3, <4>1 DEF RunTo
      <4> QED BY <2>4, <3>2, <3>4, <4>2
    <3> QED BY <3>3, <3>4
  <2>6. g[0] = [parser EXCEPT !.used = 0]
    <3>1. 0 \in 0 .. m - 1 /\ 0 \in 0 .. m /\ 0 # m
      BY <1>3, <1>5
    <3>2. f[0] = [parser EXCEPT !.used = 0]
      BY <2>3, <3>1 DEF RunTo
    <3> QED BY <2>4, <3>1, <3>2
  <2>7. RunTo(g, m)
    <3>1. DOMAIN g = 0 .. m /\ g = [i \in 0 .. m |-> g[i]]
      BY <2>4
    <3>2. \A i \in 0 .. m : g[i] = IF i = 0 THEN [parser EXCEPT !.used = 0]
                                   ELSE Step(g[i - 1], kept[i])
      BY <2>5, <2>6
    <3> QED BY <3>1, <3>2 DEF RunTo
  <2> QED BY <1>3, <2>7
<1> QED BY <1>4, <1>5

LEMMA AfterRuns ==
    ASSUME kept \in Seq(Byte)
    PROVE  RunTo(After, Len(kept))
<1>1. PICK f : RunTo(f, Len(kept))
  BY RunExists, LenProperties
<1> QED BY <1>1 DEF After, RunTo

(* A parser consumes no more than it is given.                             *)
LEMMA AfterType ==
    ASSUME kept \in Seq(Byte), parser \in Accumulator
    PROVE  \A i \in 0 .. Len(kept) :
              /\ After[i] \in Accumulator /\ After[i].used \in 0 .. i
              /\ After[i].end = "Pending" => After[i].used = i
<1>1. PICK n : n = Len(kept)
  OBVIOUS
<1>2. n \in Nat
  BY <1>1, LenProperties
<1>3. RunTo(After, n)
  BY <1>1, AfterRuns
<1> DEFINE Fits(k) == /\ After[k] \in Accumulator /\ After[k].used \in 0 .. k
                      /\ After[k].end = "Pending" => After[k].used = k
           T == {k \in 0 .. n : ~Fits(k)}
<1>4. ASSUME T # {} PROVE FALSE
  <2>1. PICK m \in T : \A k \in T : m <= k
    <3>1. T \subseteq Nat
      OBVIOUS
    <3> HIDE DEF T
    <3> QED BY <1>4, <3>1, Least
  <2>2. m \in 0 .. n /\ ~Fits(m)
    BY <2>1
  <2>3. CASE m = 0
    <3>1. After[0] = [parser EXCEPT !.used = 0]
      BY <1>2, <1>3 DEF RunTo
    <3>2. CASE command = "scan"
      <4>1. parser \in ScanAccumulator
        BY <3>2 DEF Accumulator
      <4>2. After[0] \in ScanAccumulator /\ After[0].used = 0
        BY <3>1, <4>1 DEF ScanAccumulator
      <4> QED BY <2>2, <2>3, <3>2, <4>2 DEF Accumulator
    <3>3. CASE command # "scan"
      <4>1. parser \in AtAccumulator
        BY <3>3 DEF Accumulator
      <4>2. After[0] \in AtAccumulator /\ After[0].used = 0
        BY <3>1, <4>1 DEF AtAccumulator
      <4> QED BY <2>2, <2>3, <3>3, <4>2 DEF Accumulator
    <3> QED BY <3>2, <3>3
  <2>4. CASE m # 0
    <3>1. m - 1 \in 0 .. n /\ ~(m <= m - 1) /\ m \in 1 .. n
      BY <1>2, <2>2, <2>4
    <3>2. Fits(m - 1)
      BY <2>1, <3>1
    <3>3. After[m] = Step(After[m - 1], kept[m])
      BY <1>3, <2>2, <2>4 DEF RunTo
    <3>4. kept[m] \in Byte
      BY <1>1, <3>1, ElementOfSeq
    <3>5. After[m] \in Accumulator /\ Consumes(After[m - 1], After[m])
      BY <3>2, <3>3, <3>4, StepType
    <3>6. After[m].used \in 0 .. m /\ (After[m].end = "Pending" => After[m].used = m)
      BY <3>1, <3>2, <3>5 DEF Consumes
    <3> QED BY <2>2, <3>5, <3>6
  <2> QED BY <2>3, <2>4
<1> QED BY <1>1, <1>4

LEMMA ParsedType ==
    ASSUME kept \in Seq(Byte), parser \in Accumulator
    PROVE  /\ Parsed \in Accumulator /\ Parsed.used \in 0 .. Len(kept)
           /\ Parsed.end = "Pending" => Parsed.used = Len(kept)
  BY AfterType, LenProperties DEF Parsed

(***************************************************************************)
(* The steps of the client                                                 *)
(***************************************************************************)
(* What TypeOK says besides the stream.                                    *)
ClientOK ==
    /\ command \in {"none"} \cup DOMAIN Responses /\ pc \in {"idle", "writing", "reading"}
    /\ (command = "none" <=> pc = "idle")
    /\ reading \in {0, RxBytes} /\ (reading # 0 => kept = <<>>)
    /\ kept \in Seq(Byte) /\ Len(kept) <= RxBytes /\ number \in 0 .. MaxCommands + 3
    /\ garbled \in BOOLEAN /\ upset \in BOOLEAN /\ parser \in Accumulator
    /\ result \in [end : AtEnds \cup ScanEnds \cup {"none", "failed", "dropped"}, of : Nat]

OuterOK ==
    /\ caller \in {"app", "any"}
    /\ phase \in {"waiting", "enumerating", "session", "served", "unknown"}
    /\ leased \subseteq Free /\ own \in Free \cup {0}

LEMMA TypeOKParts == TypeOK <=> (StreamOK /\ ClientOK /\ OuterOK)
  BY DEF TypeOK, ClientOK, OuterOK

LEMMA EmptyAccumulators ==
    AtResponse \in AtAccumulator /\ ScanResponse \in ScanAccumulator
<1>1. /\ <<>> \in Seq(AnyWord) /\ Len(<<>>) = 0 /\ MaxResponse \in Nat /\ MaxLine \in Nat
  BY EmptySeq, BleuIoAssumption
<1>2. AtResponse \in AtAccumulator
  BY <1>1 DEF AtResponse, AtAccumulator, AtEnds
<1>3. ScanResponse \in ScanAccumulator
  BY <1>1 DEF ScanResponse, ScanAccumulator, ScanEnds
<1> QED BY <1>2, <1>3

LEMMA IdleStream ==
    ASSUME StreamOK, UNCHANGED streamVars
    PROVE  StreamOK' /\ ChannelStep
  BY DEF StreamOK, streamVars, ChannelStep, Unread

LEMMA CommandSteps ==
    ASSUME StreamOK, ClientOK, NEW c \in {"basic", "scan"}, Command(c),
           number < MaxCommands \/ number < 3
    PROVE  StreamOK' /\ ClientOK' /\ ChannelStep
<1>1. StreamOK' /\ ChannelStep
  BY IdleStream DEF Command
<1>2. parser' \in Accumulator'
  <2>1. command' = c /\ parser' = IF c = "scan" THEN ScanResponse ELSE AtResponse
    BY DEF Command
  <2> QED BY <2>1, EmptyAccumulators DEF Accumulator
<1>3. command' \in DOMAIN Responses /\ command' # "none" /\ number' \in 0 .. MaxCommands + 3
  BY BleuIoAssumption DEF Command, ClientOK
<1>4. /\ pc' = "writing" /\ reading' = reading /\ kept' = kept /\ garbled' = garbled
      /\ upset' = upset /\ result' = result
  BY DEF Command, streamVars
<1>5. ClientOK'
  BY <1>2, <1>3, <1>4 DEF ClientOK
<1> QED BY <1>1, <1>5

(* A command that ends leaves a fresh parser.                              *)
LEMMA FinishSteps ==
    ASSUME ClientOK, NEW end \in AtEnds \cup ScanEnds \cup {"none", "failed", "dropped"},
           NEW of \in Nat, Finish(end, of)
    PROVE  /\ command' = "none" /\ pc' = "idle" /\ parser' \in Accumulator'
           /\ number' \in 0 .. MaxCommands + 3
           /\ result' \in [end : AtEnds \cup ScanEnds \cup {"none", "failed", "dropped"}, of : Nat]
  BY EmptyAccumulators DEF Finish, ClientOK, Accumulator

LEMMA WriteSteps ==
    ASSUME StreamOK, ClientOK, Write
    PROVE  StreamOK' /\ ClientOK' /\ ChannelStep
<1>1. command \in DOMAIN Responses /\ number \in Nat
  BY BleuIoAssumption DEF Write, ClientOK
<1>2. Hears(number) /\ UNCHANGED <<driver, rx_packet, rx_start, rx_end, reading, reply>>
  BY DEF Write
<1>3. StreamOK' /\ ChannelStep
  BY <1>1, <1>2, HearsSends
<1>4. ClientOK'
  BY <1>1 DEF Write, ClientOK, Accumulator
<1> QED BY <1>3, <1>4

LEMMA WriteBrokenSteps ==
    ASSUME StreamOK, ClientOK, NEW how \in {"failed", "dropped"}, WriteBroken(how)
    PROVE  StreamOK' /\ ClientOK' /\ ChannelStep
<1>1. command \in DOMAIN Responses /\ number \in Nat
  BY BleuIoAssumption DEF WriteBroken, ClientOK
<1>2. UNCHANGED <<driver, rx_packet, rx_start, rx_end, reading, reply>>
  BY DEF WriteBroken
<1>3. StreamOK' /\ ChannelStep
  <2>1. CASE Hears(number)
    BY <1>1, <1>2, <2>1, HearsSends
  <2>2. CASE wire' = wire
    <3>1. UNCHANGED streamVars
      BY <1>2, <2>2 DEF streamVars
    <3> QED BY <3>1, IdleStream
  <2> QED BY <2>1, <2>2 DEF WriteBroken
<1>4. ClientOK'
  <2>1. Finish(how, 0) /\ upset' = TRUE /\ kept' = kept /\ reading' = reading
    BY DEF WriteBroken
  <2>2. garbled' \in BOOLEAN
    BY DEF WriteBroken, ClientOK
  <2> QED BY <2>1, <2>2, FinishSteps DEF ClientOK
<1> QED BY <1>3, <1>4

LEMMA ReadSteps ==
    ASSUME StreamOK, ClientOK, StartRead \/ Read
    PROVE  StreamOK' /\ ClientOK' /\ ChannelStep
<1>1. /\ StreamOK' /\ ChannelStep /\ reading' \in {0, RxBytes}
      /\ reading' = 0 => Len(reply'.bytes) \in 1 .. RxBytes
  <2>1. CASE StartRead
    <3>1. ReadCall(RxBytes) /\ RxBytes \in Nat \ {0}
      BY <2>1, BleuIoAssumption DEF StartRead
    <3> QED BY <3>1, ReadCallReads
  <2>2. CASE Read
    <3>1. Receive /\ reading = RxBytes
      BY <2>2 DEF Read, Receive, ClientOK
    <3> QED BY <3>1, ReceiveReads
  <2> QED BY <2>1, <2>2
<1>2. KeepReply
  BY DEF StartRead, Read
<1>3. /\ kept = <<>> /\ kept' = IF reading' = 0 THEN reply'.bytes ELSE kept
      /\ UNCHANGED <<command, pc, number, parser, garbled, result, upset>>
  BY <1>2 DEF KeepReply
<1>4. kept' \in Seq(Byte) /\ Len(kept') <= RxBytes /\ (reading' # 0 => kept' = <<>>)
  <2>1. reply'.bytes \in Seq(Byte)
    BY <1>1 DEF StreamOK
  <2>2. CASE reading' = 0
    BY <1>1, <1>3, <2>1, <2>2, BleuIoAssumption
  <2>3. CASE reading' # 0
    BY <1>3, <2>3, BleuIoAssumption DEF ClientOK
  <2> QED BY <2>2, <2>3
<1>5. ClientOK'
  BY <1>1, <1>3, <1>4 DEF ClientOK, Accumulator
<1> QED BY <1>1, <1>5

LEMMA ReadBrokenSteps ==
    ASSUME StreamOK, ClientOK, NEW how \in {"failed", "dropped"}, ReadBroken(how)
    PROVE  StreamOK' /\ ClientOK' /\ ChannelStep
<1>1. Broken(how) /\ Finish(how, 0) /\ upset' = TRUE /\ UNCHANGED <<kept, garbled>>
  BY DEF ReadBroken
<1>2. StreamOK' /\ ChannelStep /\ reading' = 0
  BY <1>1, BrokenLoses
<1>3. ClientOK'
  BY <1>1, <1>2, FinishSteps DEF ClientOK
<1> QED BY <1>2, <1>3

(* What the parser has not consumed stays in the buffer.                   *)
LEMMA ParseSteps ==
    ASSUME StreamOK, ClientOK, Parse
    PROVE  StreamOK' /\ ClientOK' /\ ChannelStep
<1>1. StreamOK' /\ ChannelStep
  BY IdleStream DEF Parse
<1>2. PICK p, k : p = Parsed /\ k = p.used
  OBVIOUS
<1>3. /\ p \in Accumulator /\ k \in Nat /\ k <= Len(kept) /\ Len(kept) \in Nat
      /\ kept \in Seq(Byte) /\ Len(kept) <= RxBytes
  BY <1>2, ParsedType, LenProperties DEF ClientOK
<1>4. From(kept, k) \in Seq(Byte) /\ Len(From(kept, k)) <= RxBytes
  <2>1. PICK s, l : s = kept /\ l = Len(kept)
    OBVIOUS
  <2>2. Stretch(s, k, l) \in Seq(Byte) /\ Len(Stretch(s, k, l)) = l - k
    <3>1. s \in Seq(Byte) /\ k \in Nat /\ l \in Nat /\ k <= l /\ l <= Len(s)
      BY <1>3, <2>1
    <3> QED BY <3>1, StretchType
  <2>3. From(kept, k) = Stretch(s, k, l)
    BY <2>1 DEF From, Stretch
  <2> QED BY <1>3, <2>1, <2>2, <2>3, BleuIoAssumption
<1>5. reading = 0 /\ reading' = 0 /\ garbled' = garbled
  BY DEF Parse, ClientOK, streamVars
<1>6. CASE p.end = "Pending"
  <2>1. /\ kept' = From(kept, k) /\ parser' = p
        /\ UNCHANGED <<command, pc, number, result, upset>>
    BY <1>2, <1>6 DEF Parse
  <2>2. ClientOK'
    BY <1>3, <1>4, <1>5, <2>1 DEF ClientOK, Accumulator
  <2> QED BY <1>1, <2>2
<1>7. CASE p.end # "Pending"
  <2>1. /\ Finish(p.end, p.of) /\ kept' \in {kept, From(kept, k)} /\ upset' \in {upset, TRUE}
    BY <1>2, <1>7 DEF Parse
  <2>2. p.end \in AtEnds \cup ScanEnds /\ p.of \in Nat
    BY <1>3 DEF Accumulator, AtAccumulator, ScanAccumulator
  <2>3. PICK end, of : end = p.end /\ of = p.of
    OBVIOUS
  <2>4. /\ command' = "none" /\ pc' = "idle" /\ parser' \in Accumulator'
        /\ number' \in 0 .. MaxCommands + 3
        /\ result' \in [end : AtEnds \cup ScanEnds \cup {"none", "failed", "dropped"}, of : Nat]
    BY <2>1, <2>2, <2>3, FinishSteps
  <2>5. upset' \in BOOLEAN
    BY <2>1 DEF ClientOK
  <2>6. kept' \in Seq(Byte) /\ Len(kept') <= RxBytes
    BY <1>3, <1>4, <2>1
  <2>7. ClientOK'
    BY <1>5, <2>4, <2>5, <2>6 DEF ClientOK
  <2> QED BY <1>1, <2>7
<1> QED BY <1>6, <1>7

LEMMA ClientSteps ==
    ASSUME StreamOK, ClientOK, ClientStep
    PROVE  StreamOK' /\ ClientOK' /\ ChannelStep
  BY WriteSteps, WriteBrokenSteps, ReadSteps, ReadBrokenSteps, ParseSteps DEF ClientStep

LEMMA RewrapSteps ==
    ASSUME StreamOK, ClientOK, Rewrap
    PROVE  StreamOK' /\ ClientOK' /\ ChannelStep
<1>1. StreamOK' /\ ChannelStep /\ reading' \in {0, reading}
  <2>1. CASE ResetDataToggles
    BY <2>1, DiscardLoses DEF ResetDataToggles
  <2>2. CASE Purge
    BY <2>2, DiscardLoses DEF Purge
  <2>3. CASE PurgeBroken
    BY <2>3, PurgeBrokenLoses
  <2>4. CASE UNCHANGED streamVars
    BY <2>4, IdleStream DEF streamVars
  <2> QED BY <2>1, <2>2, <2>3, <2>4 DEF Rewrap
<1>2. kept' \in Seq(Byte) /\ Len(kept') <= RxBytes
  BY EmptySeq, BleuIoAssumption DEF Rewrap
<1>3. ClientOK'
  BY <1>1, <1>2 DEF Rewrap, ClientOK, Accumulator
<1> QED BY <1>1, <1>3

LEMMA RemovalSteps ==
    ASSUME StreamOK, Removal
    PROVE  StreamOK' /\ ClientOK' /\ ChannelStep
<1>1. /\ rx_packet' = <<>> /\ rx_start' = 0 /\ rx_end' = 0 /\ reading' = 0 /\ wire' = <<>>
      /\ reply' = [call |-> "cleared", bytes |-> <<>>] /\ driver' = driver
  BY DEF Removal
<1>2. <<>> \in Seq(Byte) /\ Len(<<>>) = 0 /\ PacketSize \in Nat /\ RxBytes \in Nat
      /\ MaxCommands \in Nat
  BY EmptySeq, ByteStreamAssumption, BleuIoAssumption
<1>3. StreamOK'
  <2>1. reply' \in [call : Calls, bytes : Seq(Byte)]
    BY <1>1, <1>2 DEF Calls
  <2> QED BY <1>1, <1>2, <2>1 DEF StreamOK
<1>4. ClientOK'
  <2>1. parser' \in Accumulator'
    BY EmptyAccumulators DEF Removal, Accumulator
  <2>2. /\ command' = "none" /\ pc' = "idle" /\ number' = 0 /\ kept' = <<>>
        /\ garbled' = FALSE /\ upset' = FALSE /\ result' = [end |-> "none", of |-> 0]
    BY DEF Removal
  <2>3. result' \in [end : AtEnds \cup ScanEnds \cup {"none", "failed", "dropped"}, of : Nat]
    BY <2>2
  <2>4. number' \in 0 .. MaxCommands + 3 /\ Len(kept') <= RxBytes /\ kept' \in Seq(Byte)
    BY <1>2, <2>2
  <2> QED BY <1>1, <2>1, <2>2, <2>3, <2>4 DEF ClientOK
<1>5. PICK stream, w : stream = Unread \o wire /\ w = Len(stream)
  OBVIOUS
<1>6. stream \in Seq(Byte) /\ w \in Nat /\ 0 \in Nat /\ 0 <= w /\ w <= Len(stream)
  <2>1. Unread \in Seq(Byte) /\ wire \in Seq(Byte)
    BY UnreadType DEF StreamOK
  <2>2. stream \in Seq(Byte)
    BY <1>5, <2>1, Parts
  <2> QED BY <1>5, <2>2, LenProperties
<1>7. (Unread \o wire)' = SubSeq(stream, 1, 0) \o Stretch(stream, w, Len(stream))
  <2>1. SubSeq(stream, 1, 0) = <<>> /\ Stretch(stream, w, Len(stream)) = <<>>
    BY <1>5, <1>6, SubSeqEmpty DEF Stretch
  <2>2. Unread' = <<>>
    BY <1>1, SubSeqEmpty DEF Unread
  <2> QED BY <1>1, <2>1, <2>2
<1>8. ChannelStep
  BY <1>1, <1>5, <1>6, <1>7, Loses
<1> QED BY <1>3, <1>4, <1>8

(***************************************************************************)
(* The answers                                                             *)
(***************************************************************************)
(* A line of three words whose first is terminal is no longer than what    *)
(* has been read of the answer it is traced to.                            *)
LEMMA TracedEnds ==
    ASSUME NEW words \in Seq(Words), NEW m \in Int, m <= Len(words), NEW word \in TerminalWords,
           NEW c \in DOMAIN Responses, word \in EndWords[c],
           Traced(<<word, "cr", "lf">>, words, m)
    PROVE  EndsAt(words, c, m)
<1>1. PICK line : line = <<word, "cr", "lf">>
  OBVIOUS
<1>2. /\ Len(line) = 3 /\ DOMAIN line = 1 .. 3
      /\ line[1] = word /\ line[2] = "cr" /\ line[3] = "lf"
  BY <1>1
<1>3. \A i \in 1 .. 3 : IF m - 3 + i >= 1 THEN line[i] = words[m - 3 + i]
                        ELSE line[i] \notin TerminalWords
  BY <1>1, <1>2 DEF Traced
<1>4. m - 3 + 1 >= 1 /\ line[1] = words[m - 3 + 1]
  BY <1>2, <1>3
<1>5. line[2] = words[m - 3 + 2] /\ line[3] = words[m - 3 + 3]
  <2>1. m - 3 + 2 >= 1 /\ m - 3 + 3 >= 1
    BY <1>4
  <2> QED BY <1>3, <2>1
<1>6. m - 3 + 1 = m - 2 /\ m - 3 + 2 = m - 1 /\ m - 3 + 3 = m
  OBVIOUS
<1>7. m \in 3 .. Len(words)
  BY <1>4, LenProperties
<1> QED BY <1>2, <1>4, <1>5, <1>6, <1>7 DEF EndsAt

(* The symbol at place n of what follows an answer's beginning             *)
Belongs(s, words, n) ==
    IF n >= 1 THEN s = [word |-> words[n], of |-> number] ELSE s.word \notin TerminalWords

LEMMA AppendTraced ==
    ASSUME NEW line \in Seq(AnyWord), NEW words, NEW n \in Int, NEW s \in Byte,
           Traced(line, words, n), Belongs(s, words, n + 1)
    PROVE  /\ Traced(Append(line, s.word), words, n + 1)
           /\ Traced(<<>>, words, n + 1)
<1>1. PICK longer, l : longer = Append(line, s.word) /\ l = Len(line)
  OBVIOUS
<1>2. /\ l \in Nat /\ Len(longer) = l + 1 /\ DOMAIN longer = 1 .. l + 1 /\ DOMAIN line = 1 .. l
      /\ longer[l + 1] = s.word /\ \A i \in 1 .. l : longer[i] = line[i]
  <2>1. s.word \in AnyWord
    BY DEF Byte
  <2>2. /\ Append(line, s.word) \in Seq(AnyWord)
        /\ Len(Append(line, s.word)) = Len(line) + 1
        /\ \A i \in 1 .. Len(line) : Append(line, s.word)[i] = line[i]
        /\ Append(line, s.word)[Len(line) + 1] = s.word
    BY <2>1, AppendProperties
  <2> QED BY <1>1, <2>2, LenProperties
<1>3. ASSUME NEW i \in 1 .. l + 1
      PROVE  IF n + 1 - (l + 1) + i >= 1 THEN longer[i] = words[n + 1 - (l + 1) + i]
             ELSE longer[i] \notin TerminalWords
  <2>1. CASE i = l + 1
    <3>1. n + 1 - (l + 1) + i = n + 1
      BY <1>2, <2>1
    <3> QED BY <1>2, <2>1, <3>1 DEF Belongs
  <2>2. CASE i # l + 1
    <3>1. i \in 1 .. l /\ n + 1 - (l + 1) + i = n - l + i
      BY <1>2, <2>2
    <3>2. IF n - l + i >= 1 THEN line[i] = words[n - l + i] ELSE line[i] \notin TerminalWords
      BY <1>1, <1>2, <3>1 DEF Traced
    <3> QED BY <1>2, <3>1, <3>2
  <2> QED BY <2>1, <2>2
<1>4. Traced(longer, words, n + 1)
  BY <1>2, <1>3 DEF Traced
<1>5. Traced(<<>>, words, n + 1)
  BY DEF Traced
<1> QED BY <1>1, <1>4, <1>5

(* A symbol more: an unended line stays traced to the answer, and a parser *)
(* that reaches a terminal line is at the end of the answer.               *)
Reads(p, q, words, n) ==
    /\ q.end = "Pending" => Traced(q.line, words, n)
    /\ q.end \in Terminal =>
          q.of = number /\ q.used = p.used + 1 /\ EndsAt(words, command, n)

LEMMA AtStepTraces ==
    ASSUME NEW p \in AtAccumulator, p.end = "Pending", NEW s \in Byte, command = "basic",
           NEW words \in Seq(Words), NEW n \in Int, n + 1 <= Len(words),
           Traced(p.line, words, n), Belongs(s, words, n + 1)
    PROVE  Reads(p, AtStep(p, s), words, n + 1)
<1>1. PICK next, line, q : /\ next = [p EXCEPT !.len = @ + 1, !.used = @ + 1, !.of = s.of]
                           /\ line = Append(p.line, s.word) /\ q = AtStep(p, s)
  OBVIOUS
<1>2. Traced(line, words, n + 1) /\ Traced(<<>>, words, n + 1)
  <2>1. p.line \in Seq(AnyWord)
    BY DEF AtAccumulator
  <2> QED BY <1>1, <2>1, AppendTraced
<1>3. next.used = p.used + 1 /\ next.of = s.of /\ next.end = "Pending"
      /\ next = [len |-> p.len + 1, line |-> p.line, end |-> p.end, of |-> s.of,
                 used |-> p.used + 1]
  BY <1>1 DEF AtAccumulator
<1>4. ASSUME NEW word \in {"OK", "ERROR"}, line = <<word, "cr", "lf">>
      PROVE  EndsAt(words, "basic", n + 1) /\ s.of = number
  <2>1. EndsAt(words, "basic", n + 1)
    <3>1. word \in TerminalWords /\ word \in EndWords["basic"] /\ "basic" \in DOMAIN Responses
      BY BleuIoAssumption DEF TerminalWords, EndWords
    <3> QED BY <1>2, <1>4, <3>1, TracedEnds
  <2>2. n + 1 >= 1
    BY <2>1, LenProperties DEF EndsAt
  <2> QED BY <2>1, <2>2 DEF Belongs
<1>5. CASE p.len = MaxResponse
  <2>1. q.end = "Overflow"
    BY <1>1, <1>5 DEF AtStep, AtAccumulator
  <2> QED BY <1>1, <2>1 DEF Reads, Terminal
<1>6. CASE p.len # MaxResponse /\ line = <<"OK", "cr", "lf">>
  <2>1. q = [next EXCEPT !.end = "Ok"]
    BY <1>1, <1>6 DEF AtStep
  <2>2. q.end = "Ok" /\ q.of = s.of /\ q.used = p.used + 1
    BY <1>3, <2>1
  <2> QED BY <1>1, <1>4, <1>6, <2>2 DEF Reads
<1>7. CASE p.len # MaxResponse /\ line = <<"ERROR", "cr", "lf">>
  <2>1. q = [next EXCEPT !.end = "Error"]
    <3>1. line # <<"OK", "cr", "lf">>
      BY <1>7
    <3> QED BY <1>1, <1>7, <3>1 DEF AtStep
  <2>2. q.end = "Error" /\ q.of = s.of /\ q.used = p.used + 1
    BY <1>3, <2>1
  <2> QED BY <1>1, <1>4, <1>7, <2>2 DEF Reads
<1>8. CASE p.len # MaxResponse /\ line # <<"OK", "cr", "lf">> /\ line # <<"ERROR", "cr", "lf">>
  <2>1. q = [next EXCEPT !.line = IF s.word = "lf" THEN <<>> ELSE line]
    BY <1>1, <1>8 DEF AtStep
  <2>2. q.end = "Pending" /\ q.line \in {<<>>, line}
    BY <1>3, <2>1
  <2> QED BY <1>1, <1>2, <2>2 DEF Reads, Terminal
<1> QED BY <1>5, <1>6, <1>7, <1>8

(* A scan's terminal line, from what ScanStep looks at                     *)
LEMMA CompleteLine ==
    ASSUME NEW line \in Seq(AnyWord), line # <<>>, line[Len(line)] = "cr",
           ScanLine(SubSeq(line, 1, Len(line) - 1)) = "Complete"
    PROVE  Append(line, "lf") = <<"COMPLETE", "cr", "lf">>
<1>1. PICK l, front : l = Len(line) /\ front = SubSeq(line, 1, l - 1)
  OBVIOUS
<1>2. l \in Nat \ {0}
  BY <1>1, EmptySeq, LenProperties
<1>3. front = <<"COMPLETE">>
  <2>1. ScanLine(front) = "Complete"
    BY <1>1
  <2> QED BY <2>1 DEF ScanLine
<1>4. Len(front) = l - 1 /\ \A i \in 1 .. l - 1 : front[i] = line[i]
  <2>1. l - 1 \in Int /\ 1 \in Int /\ \A i \in 1 .. l - 1 : line[i] \in AnyWord
    BY <1>1, <1>2, ElementOfSeq
  <2>2. /\ Len(front) = IF 1 <= l - 1 THEN l - 1 - 1 + 1 ELSE 0
        /\ \A i \in 1 .. l - 1 - 1 + 1 : front[i] = line[1 + i - 1]
    BY <1>1, <2>1, SubSeqProperties
  <2> QED BY <1>2, <2>2
<1>5. l = 2 /\ line[1] = "COMPLETE" /\ line[2] = "cr"
  <2>1. Len(front) = 1 /\ front[1] = "COMPLETE"
    BY <1>3
  <2>2. PICK m : m = Len(front)
    OBVIOUS
  <2>3. m = 1 /\ m = l - 1
    BY <1>4, <2>1, <2>2
  <2>4. l = 2
    BY <1>2, <2>3
  <2> QED BY <1>1, <1>4, <2>1, <2>4
<1>6. PICK longer, whole : longer = Append(line, "lf") /\ whole = <<"COMPLETE", "cr", "lf">>
  OBVIOUS
<1>7. "lf" \in AnyWord /\ "COMPLETE" \in AnyWord /\ "cr" \in AnyWord
  <2>1. "lf" \in AnyWord
    BY BleuIoAssumption DEF AnyWord
  <2>2. line[1] \in AnyWord /\ line[2] \in AnyWord
    <3>1. 1 \in 1 .. Len(line) /\ 2 \in 1 .. Len(line)
      BY <1>1, <1>5
    <3> QED BY <3>1, ElementOfSeq
  <2> QED BY <1>5, <2>1, <2>2
<1>8. /\ longer \in Seq(AnyWord) /\ Len(longer) = 3
      /\ longer[1] = "COMPLETE" /\ longer[2] = "cr" /\ longer[3] = "lf"
  <2>1. /\ Append(line, "lf") \in Seq(AnyWord) /\ Len(Append(line, "lf")) = Len(line) + 1
        /\ \A i \in 1 .. Len(line) : Append(line, "lf")[i] = line[i]
        /\ Append(line, "lf")[Len(line) + 1] = "lf"
    BY <1>7, AppendProperties
  <2> QED BY <1>1, <1>5, <1>6, <2>1
<1>9. /\ whole \in Seq(AnyWord) /\ Len(whole) = 3
      /\ whole[1] = "COMPLETE" /\ whole[2] = "cr" /\ whole[3] = "lf"
  BY <1>6, <1>7
<1>10. \A i \in 1 .. 3 : longer[i] = whole[i]
  BY <1>8, <1>9
<1> QED BY <1>6, <1>8, <1>9, <1>10, SeqEqual

LEMMA ScanStepTraces ==
    ASSUME NEW p \in ScanAccumulator, p.end = "Pending", NEW s \in Byte, command = "scan",
           NEW words \in Seq(Words), NEW n \in Int, n + 1 <= Len(words),
           Traced(p.line, words, n), Belongs(s, words, n + 1)
    PROVE  Reads(p, ScanStep(p, s), words, n + 1)
<1>1. PICK next, read, line, q, kind :
         /\ next = [p EXCEPT !.used = @ + 1, !.of = s.of]
         /\ read = [next EXCEPT !.line = <<>>]
         /\ line = Append(p.line, s.word) /\ q = ScanStep(p, s)
         /\ kind = ScanLine(SubSeq(p.line, 1, Len(p.line) - 1))
  OBVIOUS
<1>2. p.line \in Seq(AnyWord) /\ Traced(line, words, n + 1) /\ Traced(<<>>, words, n + 1)
  <2>1. p.line \in Seq(AnyWord)
    BY DEF ScanAccumulator
  <2> QED BY <1>1, <2>1, AppendTraced
<1>3. /\ next = [line |-> p.line, end |-> p.end, of |-> s.of, used |-> p.used + 1,
                 scanning |-> p.scanning, device |-> p.device]
      /\ read = [line |-> <<>>, end |-> p.end, of |-> s.of, used |-> p.used + 1,
                 scanning |-> p.scanning, device |-> p.device]
  BY <1>1 DEF ScanAccumulator
<1>4. ASSUME NEW end \in {"LineOverflow", "MalformedDeviceLine", "DeviceError",
                           "UnexpectedDevice", "UnexpectedComplete", "NoDevice"},
             q = [next EXCEPT !.end = end]
      PROVE  Reads(p, q, words, n + 1)
  <2>1. q.end = end
    BY <1>3, <1>4
  <2> QED BY <1>4, <2>1 DEF Reads, Terminal
<1>5. CASE ~(s.word = "lf" /\ p.line # <<>> /\ p.line[Len(p.line)] = "cr")
  <2>1. CASE Len(p.line) = MaxLine
    <3>1. q = [next EXCEPT !.end = "LineOverflow"]
      BY <1>1, <1>5, <2>1 DEF ScanStep
    <3> QED BY <1>1, <1>4, <3>1
  <2>2. CASE Len(p.line) # MaxLine
    <3>1. q = [next EXCEPT !.line = line]
      BY <1>1, <1>5, <2>2 DEF ScanStep
    <3>2. q.end = "Pending" /\ q.line = line
      BY <1>3, <3>1
    <3> QED BY <1>1, <1>2, <3>2 DEF Reads, Terminal
  <2> QED BY <2>1, <2>2
<1>6. CASE s.word = "lf" /\ p.line # <<>> /\ p.line[Len(p.line)] = "cr"
  <2>1. CASE kind = "Complete" /\ p.scanning /\ p.device
    <3>1. q = [read EXCEPT !.end = "Complete"]
      BY <1>1, <1>6, <2>1 DEF ScanStep
    <3>2. q.end = "Complete" /\ q.of = s.of /\ q.used = p.used + 1
      BY <1>3, <3>1
    <3>3. line = <<"COMPLETE", "cr", "lf">>
      BY <1>1, <1>2, <1>6, <2>1, CompleteLine
    <3>4. EndsAt(words, "scan", n + 1)
      <4>1. /\ "COMPLETE" \in TerminalWords /\ "COMPLETE" \in EndWords["scan"]
            /\ "scan" \in DOMAIN Responses
        BY BleuIoAssumption DEF TerminalWords, EndWords
      <4> QED BY <1>2, <3>3, <4>1, TracedEnds
    <3>5. n + 1 >= 1
      BY <3>4, LenProperties DEF EndsAt
    <3>6. s.of = number
      BY <3>5 DEF Belongs
    <3> QED BY <1>1, <3>2, <3>4, <3>6 DEF Reads
  <2>2. CASE kind \in {"Ignore", "Scanning"} \/ (kind = "Device" /\ p.scanning)
    <3>1. q \in {read, [read EXCEPT !.scanning = TRUE], [read EXCEPT !.device = TRUE]}
      BY <1>1, <1>6, <2>2 DEF ScanStep
    <3>2. q.end = "Pending" /\ q.line = <<>>
      BY <1>3, <3>1
    <3> QED BY <1>1, <1>2, <3>2 DEF Reads, Terminal
  <2>3. CASE \/ kind \in {"Malformed", "Error"} \/ (kind = "Device" /\ ~p.scanning)
             \/ (kind = "Complete" /\ ~(p.scanning /\ p.device))
    <3>1. PICK end \in {"MalformedDeviceLine", "DeviceError", "UnexpectedDevice",
                        "UnexpectedComplete", "NoDevice"} : q = [next EXCEPT !.end = end]
      BY <1>1, <1>6, <2>3 DEF ScanStep
    <3> QED BY <1>1, <1>4, <3>1
  <2>4. kind \in {"Scanning", "Complete", "Error", "Device", "Malformed", "Ignore"}
    BY <1>1 DEF ScanLine
  <2> QED BY <2>1, <2>2, <2>3, <2>4
<1> QED BY <1>1, <1>5, <1>6

(* The symbols that are kept are of the answer from its place n + 1 on: as *)
(* long as the parser goes on it is traced to the answer, and if it ends   *)
(* with a terminal line, it has consumed the answer up to that line's end. *)
Consumed(p, i, words, n) ==
    /\ p.end = "Pending" => Traced(p.line, words, n + i)
    /\ p.end \in Terminal =>
          p.of = number /\ p.used \in 0 .. i /\ EndsAt(words, command, n + p.used)

LEMMA AfterTraces ==
    ASSUME kept \in Seq(Byte), parser \in Accumulator, parser.end = "Pending",
           command \in DOMAIN Responses, NEW words \in Seq(Words), NEW n \in Int,
           n + Len(kept) <= Len(words), Traced(parser.line, words, n),
           \A i \in 1 .. Len(kept) : Belongs(kept[i], words, n + i)
    PROVE  Consumed(Parsed, Len(kept), words, n)
<1>1. PICK l : l = Len(kept)
  OBVIOUS
<1>2. l \in Nat /\ Len(words) \in Nat /\ n + l <= Len(words)
  BY <1>1, LenProperties
<1>3. RunTo(After, l)
  BY <1>1, AfterRuns
<1>4. \A i \in 0 .. l : /\ After[i] \in Accumulator /\ After[i].used \in 0 .. i
                        /\ After[i].end = "Pending" => After[i].used = i
  BY <1>1, AfterType
<1>5. command \in {"basic", "scan"}
  BY BleuIoAssumption
<1> DEFINE T == {k \in 0 .. l : ~Consumed(After[k], k, words, n)}
<1>6. ASSUME T # {} PROVE FALSE
  <2>1. PICK m \in T : \A k \in T : m <= k
    <3>1. T \subseteq Nat
      OBVIOUS
    <3> HIDE DEF T
    <3> QED BY <1>6, <3>1, Least
  <2>2. m \in 0 .. l /\ ~Consumed(After[m], m, words, n)
    BY <2>1
  <2>3. CASE m = 0
    <3>1. After[0] = [parser EXCEPT !.used = 0]
      BY <1>2, <1>3 DEF RunTo
    <3>2. After[0].end = parser.end /\ After[0].line = parser.line
      BY <3>1 DEF Accumulator, AtAccumulator, ScanAccumulator
    <3>3. n + 0 = n
      OBVIOUS
    <3> QED BY <2>2, <2>3, <3>2, <3>3 DEF Consumed, Terminal
  <2>4. CASE m # 0
    <3>1. m - 1 \in 0 .. l /\ ~(m <= m - 1) /\ m \in 1 .. l
      BY <1>2, <2>2, <2>4
    <3>2. Consumed(After[m - 1], m - 1, words, n)
      BY <2>1, <3>1
    <3>3. After[m] = Step(After[m - 1], kept[m])
      BY <1>3, <2>2, <2>4 DEF RunTo
    <3>4. kept[m] \in Byte /\ Belongs(kept[m], words, n + m)
      BY <1>1, <3>1, ElementOfSeq
    <3>5. PICK p, q, s, k : p = After[m - 1] /\ q = After[m] /\ s = kept[m] /\ k = n + (m - 1)
      OBVIOUS
    <3>6. CASE p.end = "Pending"
      <4>1. /\ k \in Int /\ k + 1 = n + m /\ k + 1 <= Len(words) /\ s \in Byte
            /\ Traced(p.line, words, k) /\ Belongs(s, words, k + 1) /\ p \in Accumulator
            /\ p.used = m - 1
        BY <1>2, <1>4, <3>1, <3>2, <3>4, <3>5, <3>6 DEF Consumed
      <4>2. Reads(p, q, words, k + 1)
        <5>1. CASE command = "scan"
          <6>1. p \in ScanAccumulator /\ q = ScanStep(p, s)
            BY <3>3, <3>5, <4>1, <5>1 DEF Accumulator, Step
          <6> QED BY <3>6, <4>1, <5>1, <6>1, ScanStepTraces
        <5>2. CASE command = "basic"
          <6>1. p \in AtAccumulator /\ q = AtStep(p, s)
            BY <3>3, <3>5, <4>1, <5>2 DEF Accumulator, Step
          <6> QED BY <3>6, <4>1, <5>2, <6>1, AtStepTraces
        <5> QED BY <1>5, <5>1, <5>2
      <4>3. q.end \in Terminal => q.used = m /\ m \in 0 .. m
        BY <2>2, <3>1, <4>1, <4>2 DEF Reads
      <4> QED BY <2>2, <3>5, <4>1, <4>2, <4>3 DEF Reads, Consumed
    <3>7. CASE p.end # "Pending"
      <4>1. q = p
        BY <3>3, <3>5, <3>7 DEF Step, AtStep, ScanStep
      <4>2. p.used \in 0 .. m - 1 => p.used \in 0 .. m
        BY <3>1
      <4> QED BY <2>2, <3>2, <3>5, <3>7, <4>1, <4>2 DEF Consumed
    <3> QED BY <3>6, <3>7
  <2> QED BY <2>3, <2>4
<1> QED BY <1>1, <1>2, <1>6 DEF Parsed

(* What is ahead is what is kept, and after it the stream.                 *)
LEMMA AheadType ==
    ASSUME StreamOK, ClientOK
    PROVE  /\ Unread \o wire \in Seq(Byte) /\ Ahead \in Seq(Byte)
           /\ Len(kept) \in Nat /\ Len(Ahead) \in Nat /\ Len(kept) <= Len(Ahead)
           /\ \A i \in 1 .. Len(kept) : Ahead[i] = kept[i]
<1>1. PICK u, stream : u = kept /\ stream = Unread \o wire
  OBVIOUS
<1>2. u \in Seq(Byte) /\ stream \in Seq(Byte)
  <2>1. Unread \in Seq(Byte) /\ wire \in Seq(Byte)
    BY UnreadType DEF StreamOK
  <2> QED BY <1>1, <2>1, Parts DEF ClientOK
<1>3. /\ u \o stream \in Seq(Byte) /\ Len(u \o stream) = Len(u) + Len(stream)
      /\ \A i \in 1 .. Len(u) + Len(stream) :
            (u \o stream)[i] = IF i <= Len(u) THEN u[i] ELSE stream[i - Len(u)]
  BY <1>2, ConcatProperties
<1>4. Ahead = u \o stream
  BY <1>1 DEF Ahead
<1>5. Len(u) \in Nat /\ Len(stream) \in Nat
  BY <1>2, LenProperties
<1>6. PICK a : a = u \o stream
  OBVIOUS
<1>7. \A i \in 1 .. Len(u) : a[i] = u[i]
  <2> TAKE i \in 1 .. Len(u)
  <2>1. i \in 1 .. Len(u) + Len(stream) /\ i <= Len(u)
    BY <1>5
  <2> QED BY <1>3, <1>6, <2>1
<1>8. a \in Seq(Byte) /\ Len(a) \in Nat /\ Len(u) <= Len(a)
  BY <1>3, <1>5, <1>6
<1> QED BY <1>1, <1>2, <1>4, <1>5, <1>6, <1>7, <1>8

(* A stretch and what follows it                                           *)
LEMMA Rejoin ==
    ASSUME NEW s \in Seq(Byte), NEW n \in Nat, n <= Len(s)
    PROVE  SubSeq(s, 1, n) \o Stretch(s, n, Len(s)) = s
<1>1. <<>> \in Seq(Byte) /\ Len(<<>>) = 0
  BY EmptySeq
<1>2. /\ Stretch(<<>> \o SubSeq(s, 1, n), Len(<<>>), Len(<<>> \o SubSeq(s, 1, n))) \o From(s, n) = s
      /\ Len(<<>> \o SubSeq(s, 1, n)) = Len(<<>>) + n
  BY <1>1, PacketStandsForWire
<1>3. PICK head : head = SubSeq(s, 1, n)
  OBVIOUS
<1>4. head \in Seq(Byte) /\ Len(head) = n
  <2>1. SubSeq(s, 0 + 1, n) \in Seq(Byte) /\ Len(SubSeq(s, 0 + 1, n)) = n - 0
    BY Slice
  <2> QED BY <1>3, <2>1
<1>5. <<>> \o head = head /\ SubSeq(head, 1, n) = head
  BY <1>4, ConcatEmptySeq, SubSeqFull
<1>6. Stretch(<<>> \o head, Len(<<>>), Len(<<>> \o head)) = head
  <2>1. Stretch(head, 0, n) = head
    BY <1>5 DEF Stretch
  <2> QED BY <1>1, <1>4, <1>5, <2>1
<1>7. From(s, n) = Stretch(s, n, Len(s))
  BY DEF From, Stretch
<1> QED BY <1>2, <1>3, <1>6, <1>7

(* A read moves the bytes from the stream to the buffer.                   *)
LEMMA ReadsKeepAhead ==
    ASSUME StreamOK, ClientOK, StartRead \/ Read
    PROVE  Ahead' = Ahead
<1>1. Hands /\ KeepReply
  <2>1. CASE StartRead
    <3>1. ReadCall(RxBytes) /\ RxBytes \in Nat \ {0}
      BY <2>1, BleuIoAssumption DEF StartRead
    <3> QED BY <2>1, <3>1, ReadCallReads DEF StartRead
  <2>2. CASE Read
    BY <2>2, ReceiveReads DEF Read
  <2> QED BY <2>1, <2>2
<1>2. PICK stream : stream = Unread \o wire
  OBVIOUS
<1>3. stream \in Seq(Byte)
  BY <1>2, AheadType
<1>4. kept = <<>> /\ kept' = IF reading' = 0 THEN reply'.bytes ELSE kept
  BY <1>1 DEF KeepReply
<1>5. Ahead = stream
  BY <1>2, <1>3, <1>4, ConcatEmptySeq DEF Ahead
<1>6. CASE reading' = 0
  <2>1. PICK n \in 1 .. Len(stream) :
           /\ reply' = [call |-> "read", bytes |-> SubSeq(stream, 1, n)]
           /\ (Unread \o wire)' = Stretch(stream, n, Len(stream))
    BY <1>1, <1>2, <1>6 DEF Hands, ReadsFrom
  <2>2. kept' = SubSeq(stream, 1, n)
    BY <1>4, <1>6, <2>1
  <2>3. Ahead' = SubSeq(stream, 1, n) \o Stretch(stream, n, Len(stream))
    BY <2>1, <2>2 DEF Ahead
  <2>4. n \in Nat /\ n <= Len(stream)
    BY <1>3, LenProperties
  <2> QED BY <1>3, <1>5, <2>3, <2>4, Rejoin
<1>7. CASE reading' # 0
  <2>1. kept' = <<>> /\ (Unread \o wire)' = stream
    BY <1>1, <1>2, <1>4, <1>7 DEF Hands
  <2>2. Ahead' = <<>> \o stream
    BY <2>1 DEF Ahead
  <2> QED BY <1>3, <1>5, <2>2, ConcatEmptySeq
<1> QED BY <1>6, <1>7

(* What an answer adds comes after all that was ahead.                     *)
LEMMA HearsAhead ==
    ASSUME StreamOK, ClientOK, NEW s \in Seq(Byte), wire' = wire \o s,
           UNCHANGED <<rx_packet, rx_start, rx_end, kept>>
    PROVE  Ahead' = Ahead \o s
<1>1. PICK k, u, w : k = kept /\ u = Unread /\ w = wire
  OBVIOUS
<1>2. k \in Seq(Byte) /\ u \in Seq(Byte) /\ w \in Seq(Byte)
  BY <1>1, UnreadType DEF StreamOK, ClientOK
<1>3. Ahead' = k \o (u \o (w \o s))
  BY <1>1 DEF Ahead, Unread
<1>4. u \o (w \o s) = (u \o w) \o s
  BY <1>2, Regrouped
<1>5. u \o w \in Seq(Byte)
  BY <1>2, Parts
<1>6. k \o ((u \o w) \o s) = (k \o (u \o w)) \o s
  BY <1>2, <1>5, Regrouped
<1>7. Ahead = k \o (u \o w)
  BY <1>1 DEF Ahead
<1> QED BY <1>3, <1>4, <1>6, <1>7

(* Without the symbols that are consumed, the rest is ahead.               *)
LEMMA ConsumeAhead ==
    ASSUME StreamOK, ClientOK, NEW n \in Nat, n <= Len(kept), kept' = From(kept, n),
           UNCHANGED streamVars
    PROVE  Ahead' = Stretch(Ahead, n, Len(Ahead))
<1>1. PICK k, stream, l : k = kept /\ stream = Unread \o wire /\ l = Len(kept)
  OBVIOUS
<1>2. /\ k \in Seq(Byte) /\ stream \in Seq(Byte) /\ l \in Nat /\ n <= l /\ 0 \in Nat
      /\ 0 <= n /\ l <= Len(k)
  BY <1>1, AheadType DEF ClientOK
<1>3. LeavesTheRest(k, stream, 0, n, l)
  BY <1>2, ReadOn
<1>4. Stretch(k, 0, l) = k
  BY <1>1, <1>2, SubSeqFull DEF Stretch
<1>5. n - 0 = n
  OBVIOUS
<1>6. Stretch(k \o stream, n, Len(k \o stream)) = Stretch(k, n, l) \o stream
  BY <1>3, <1>4, <1>5, Zenon DEF LeavesTheRest
<1>7. kept' = Stretch(k, n, l)
  BY <1>1 DEF From, Stretch
<1>8. (Unread \o wire)' = stream
  BY <1>1 DEF streamVars, Unread
<1>9. Ahead = k \o stream /\ Ahead' = Stretch(k, n, l) \o stream
  BY <1>1, <1>7, <1>8 DEF Ahead
<1> QED BY <1>6, <1>9

LEMMA QuietParts ==
    ASSUME NEW u \in Seq(Byte), NEW w \in Seq(Byte), Quiet(u \o w)
    PROVE  Quiet(u) /\ Quiet(w)
<1>1. PICK a, l, m : a = u \o w /\ l = Len(u) /\ m = Len(w)
  OBVIOUS
<1>2. /\ l \in Nat /\ m \in Nat /\ DOMAIN u = 1 .. l /\ DOMAIN w = 1 .. m
      /\ DOMAIN a = 1 .. l + m
      /\ \A i \in 1 .. l + m : a[i] = IF i <= l THEN u[i] ELSE w[i - l]
  <2>1. /\ u \o w \in Seq(Byte) /\ Len(u \o w) = Len(u) + Len(w)
        /\ \A i \in 1 .. Len(u) + Len(w) :
              (u \o w)[i] = IF i <= Len(u) THEN u[i] ELSE w[i - Len(u)]
    BY ConcatProperties
  <2> QED BY <1>1, <2>1, LenProperties
<1>3. \A i \in 1 .. l + m : a[i].word \notin TerminalWords
  BY <1>1, <1>2 DEF Quiet
<1>4. \A i \in 1 .. l : u[i].word \notin TerminalWords
  <2> TAKE i \in 1 .. l
  <2>1. i \in 1 .. l + m /\ a[i] = u[i]
    BY <1>2
  <2> QED BY <1>3, <2>1
<1>5. \A i \in 1 .. m : w[i].word \notin TerminalWords
  <2> TAKE i \in 1 .. m
  <2>1. l + i \in 1 .. l + m /\ ~(l + i <= l) /\ (l + i) - l = i
    BY <1>2
  <2>2. a[l + i] = w[i]
    BY <1>2, <2>1
  <2> QED BY <1>3, <2>1, <2>2
<1> QED BY <1>2, <1>4, <1>5 DEF Quiet

(* Each action of the client leaves answers in turn.                       *)
LEMMA BrokenInTurn == upset' = TRUE => AnswersInTurn'
  BY DEF AnswersInTurn

LEMMA CommandInTurn ==
    ASSUME StreamOK, ClientOK, AnswersInTurn, NEW c \in {"basic", "scan"}, Command(c)
    PROVE  AnswersInTurn'
<1>1. /\ pc = "idle" /\ pc' = "writing" /\ garbled' = garbled /\ upset' = upset
      /\ Ahead' = Ahead /\ parser' = IF c = "scan" THEN ScanResponse ELSE AtResponse
  BY DEF Command, streamVars, Ahead, Unread
<1>2. parser'.end = "Pending" /\ parser'.line = <<>>
  BY <1>1 DEF ScanResponse, AtResponse
<1>3. ~upset => Quiet(Ahead)'
  BY <1>1 DEF AnswersInTurn, Quiet
<1> QED BY <1>1, <1>2, <1>3 DEF AnswersInTurn

LEMMA WriteInTurn ==
    ASSUME StreamOK, ClientOK, AnswersInTurn, Write
    PROVE  AnswersInTurn'
<1> SUFFICES ASSUME ~upset'
             PROVE  AnswersInTurn'
  BY DEF AnswersInTurn
<1>1. /\ pc = "writing" /\ pc' = "reading" /\ garbled' = FALSE /\ ~upset
      /\ parser' = parser /\ command' = command /\ number' = number
      /\ UNCHANGED <<rx_packet, rx_start, rx_end, kept>>
  BY DEF Write
<1>2. ~garbled /\ Quiet(Ahead) /\ parser.end = "Pending" /\ parser.line = <<>>
  BY <1>1 DEF AnswersInTurn
<1>3. command \in DOMAIN Responses /\ number \in Nat
  BY <1>1, BleuIoAssumption DEF ClientOK
<1>4. PICK words \in Responses[command] : wire' = wire \o Symbols(words, number)
  BY <1>2 DEF Write, Hears
<1>5. PICK a, s, b, n : a = Ahead /\ s = Symbols(words, number) /\ b = Ahead' /\ n = 0 - Len(a)
  OBVIOUS
<1>6. /\ a \in Seq(Byte) /\ s \in Seq(Byte) /\ Len(s) = Len(words) /\ words \in Seq(Words)
      /\ Len(a) \in Nat /\ Len(words) \in Nat /\ DOMAIN words = 1 .. Len(words)
  <2>1. words \in Seq(Words)
    BY <1>3, BleuIoAssumption
  <2> QED BY <1>3, <1>5, <2>1, AheadType, SymbolsType, LenProperties
<1>7. b = a \o s
  <2>1. wire' = wire \o s /\ s \in Seq(Byte)
    BY <1>4, <1>5, <1>6
  <2>2. Ahead' = Ahead \o s
    BY <1>1, <2>1, HearsAhead
  <2> QED BY <1>5, <2>2
<1>8. /\ Len(b) = Len(a) + Len(words) /\ DOMAIN b = 1 .. Len(a) + Len(words)
      /\ \A i \in 1 .. Len(a) + Len(words) : b[i] = IF i <= Len(a) THEN a[i] ELSE s[i - Len(a)]
  <2>1. /\ a \o s \in Seq(Byte) /\ Len(a \o s) = Len(a) + Len(s)
        /\ \A i \in 1 .. Len(a) + Len(s) :
              (a \o s)[i] = IF i <= Len(a) THEN a[i] ELSE s[i - Len(a)]
    BY <1>6, ConcatProperties
  <2> QED BY <1>6, <1>7, <2>1, LenProperties
<1>9. Follows(b, words, n)
  <2>1. ASSUME NEW i \in 1 .. Len(a) + Len(words)
        PROVE  IF n + i >= 1 THEN b[i] = [word |-> words[n + i], of |-> number]
               ELSE b[i].word \notin TerminalWords
    <3>1. CASE i <= Len(a)
      <4>1. ~(n + i >= 1) /\ i \in 1 .. Len(a)
        BY <1>5, <1>6, <3>1
      <4>2. a[i].word \notin TerminalWords
        BY <1>2, <1>5, <1>6, <4>1, LenProperties DEF Quiet
      <4> QED BY <1>8, <3>1, <4>1, <4>2
    <3>2. CASE ~(i <= Len(a))
      <4>1. i - Len(a) = n + i /\ i - Len(a) \in 1 .. Len(words) /\ n + i >= 1
        BY <1>5, <1>6, <3>2
      <4>2. s[i - Len(a)] = [word |-> words[i - Len(a)], of |-> number]
        BY <1>5, <1>6, <4>1 DEF Symbols
      <4> QED BY <1>8, <3>2, <4>1, <4>2
    <3> QED BY <3>1, <3>2
  <2> QED BY <1>8, <2>1 DEF Follows
<1>10. n = Len(words) - Len(b)
  BY <1>5, <1>6, <1>8
<1>11. Traced(<<>>, words, n)
  BY DEF Traced
<1>12. Arrives(words)'
  <2>1. Follows(b, words, n)'
    BY <1>1, <1>9 DEF Follows
  <2>2. parser'.line = <<>>
    BY <1>1, <1>2
  <2> QED BY <1>5, <1>10, <1>11, <2>1, <2>2 DEF Arrives, Follows
<1>13. \E w \in Responses[command'] : Arrives(w)'
  BY <1>1, <1>12
<1> QED BY <1>1, <1>2, <1>13 DEF AnswersInTurn

LEMMA ReadInTurn ==
    ASSUME StreamOK, ClientOK, AnswersInTurn, StartRead \/ Read
    PROVE  AnswersInTurn'
<1>1. Ahead' = Ahead
  BY ReadsKeepAhead
<1>2. UNCHANGED <<command, pc, number, parser, garbled, upset>>
  BY DEF StartRead, Read, KeepReply
<1>3. (\E words \in Responses[command] : Arrives(words))
          => \E words \in Responses[command'] : Arrives(words)'
  BY <1>1, <1>2 DEF Arrives, Follows, Traced
<1>4. Quiet(Ahead) => Quiet(Ahead)'
  BY <1>1 DEF Quiet
<1> QED BY <1>2, <1>3, <1>4 DEF AnswersInTurn

(* What the parser finds in the buffer, of the answer that arrives         *)
LEMMA ParsedTraces ==
    ASSUME StreamOK, ClientOK, AnswersInTurn, ~upset, pc = "reading"
    PROVE  \E words \in Responses[command] :
              /\ Arrives(words) /\ words \in Seq(Words)
              /\ Consumed(Parsed, Len(kept), words, Len(words) - Len(Ahead))
<1>1. PICK words \in Responses[command] : Arrives(words)
  BY DEF AnswersInTurn
<1>2. PICK n, l : n = Len(words) - Len(Ahead) /\ l = Len(kept)
  OBVIOUS
<1>3. command \in DOMAIN Responses /\ words \in Seq(Words) /\ parser.end = "Pending"
  BY BleuIoAssumption DEF ClientOK, AnswersInTurn
<1>4. /\ Ahead \in Seq(Byte) /\ l \in Nat /\ Len(Ahead) \in Nat /\ l <= Len(Ahead)
      /\ \A i \in 1 .. l : Ahead[i] = kept[i]
  BY <1>2, AheadType
<1>5. n \in Int /\ n + l <= Len(words) /\ Len(words) \in Nat
  <2>1. Len(words) \in Nat
    BY <1>3, LenProperties
  <2> QED BY <1>2, <1>4, <2>1
<1>6. Follows(Ahead, words, n) /\ Traced(parser.line, words, n)
  BY <1>1, <1>2 DEF Arrives
<1>7. \A i \in 1 .. l : Belongs(kept[i], words, n + i)
  <2> TAKE i \in 1 .. l
  <2>1. i \in DOMAIN Ahead /\ Ahead[i] = kept[i]
    <3>1. i \in 1 .. Len(Ahead)
      BY <1>4
    <3> QED BY <1>4, <3>1, LenProperties
  <2> QED BY <1>6, <2>1 DEF Follows, Belongs
<1>8. Consumed(Parsed, Len(kept), words, n)
  <2>1. kept \in Seq(Byte) /\ parser \in Accumulator
    BY DEF ClientOK
  <2> QED BY <1>2, <1>3, <1>5, <1>6, <1>7, <2>1, AfterTraces
<1> QED BY <1>1, <1>2, <1>3, <1>8

(* The rest of what follows an answer's beginning follows a longer one.    *)
LEMMA StretchFollows ==
    ASSUME NEW a \in Seq(Byte), NEW words, NEW n \in Int, Follows(a, words, n),
           NEW k \in Nat, k <= Len(a)
    PROVE  /\ Follows(Stretch(a, k, Len(a)), words, n + k)
           /\ Len(Stretch(a, k, Len(a))) = Len(a) - k
<1>1. PICK b, l : b = Stretch(a, k, Len(a)) /\ l = Len(a)
  OBVIOUS
<1>2. /\ b \in Seq(Byte) /\ Len(b) = l - k /\ l \in Nat
      /\ DOMAIN b = 1 .. l - k /\ DOMAIN a = 1 .. l
      /\ \A i \in 1 .. l - k : b[i] = a[k + i]
  <2>1. l \in Nat /\ k <= l /\ l <= Len(a)
    BY <1>1, LenProperties
  <2>2. /\ SubSeq(a, k + 1, l) \in Seq(Byte) /\ Len(SubSeq(a, k + 1, l)) = l - k
        /\ \A i \in 1 .. l - k : SubSeq(a, k + 1, l)[i] = a[k + i]
    BY <2>1, Slice
  <2>3. b = SubSeq(a, k + 1, l)
    BY <1>1 DEF Stretch
  <2> QED BY <1>1, <2>1, <2>2, <2>3, LenProperties
<1>3. ASSUME NEW i \in 1 .. l - k
      PROVE  IF n + k + i >= 1 THEN b[i] = [word |-> words[n + k + i], of |-> number]
             ELSE b[i].word \notin TerminalWords
  <2>1. k + i \in DOMAIN a /\ n + (k + i) = n + k + i /\ b[i] = a[k + i]
    BY <1>2
  <2>2. IF n + (k + i) >= 1 THEN a[k + i] = [word |-> words[n + (k + i)], of |-> number]
        ELSE a[k + i].word \notin TerminalWords
    BY <2>1 DEF Follows
  <2> QED BY <2>1, <2>2
<1> QED BY <1>1, <1>2, <1>3 DEF Follows

(* After a terminal line, the rest of an answer has no other.              *)
LEMMA RestIsQuiet ==
    ASSUME NEW b \in Seq(Byte), NEW c \in DOMAIN Responses, NEW words \in Responses[c],
           NEW k \in Int, EndsAt(words, c, k), Follows(b, words, k), k + Len(b) = Len(words)
    PROVE  Quiet(b)
<1>1. words \in Seq(Words)
  BY BleuIoAssumption
<1>2. /\ DOMAIN words = 1 .. Len(words) /\ DOMAIN b = 1 .. Len(b)
      /\ Len(words) \in Nat /\ Len(b) \in Nat /\ k >= 3 /\ k \in 1 .. Len(words)
  BY <1>1, LenProperties DEF EndsAt
<1>3. ASSUME NEW i \in 1 .. Len(b)
      PROVE  b[i].word \notin TerminalWords
  <2>1. k + i >= 1 /\ k < k + i /\ k + i \in 1 .. Len(words)
    BY <1>2
  <2>2. b[i] = [word |-> words[k + i], of |-> number]
    BY <1>2, <2>1 DEF Follows
  <2>3. words[k + i] \notin TerminalWords
    BY <1>2, <2>1, TerminalAssumption
  <2> QED BY <2>2, <2>3
<1> QED BY <1>2, <1>3 DEF Quiet

LEMMA ParseInTurn ==
    ASSUME StreamOK, ClientOK, AnswersInTurn, Parse
    PROVE  AnswersInTurn'
<1> SUFFICES ASSUME ~upset'
             PROVE  AnswersInTurn'
  BY DEF AnswersInTurn
<1>1. pc = "reading" /\ UNCHANGED streamVars /\ garbled' = garbled /\ number' = number
  BY DEF Parse, Finish
<1>2. ~upset
  BY DEF Parse
<1>3. PICK words \in Responses[command] :
         /\ Arrives(words) /\ words \in Seq(Words)
         /\ Consumed(Parsed, Len(kept), words, Len(words) - Len(Ahead))
  BY <1>1, <1>2, ParsedTraces
<1>4. PICK p, a, b, n, k : /\ p = Parsed /\ a = Ahead /\ b = Ahead'
                           /\ n = Len(words) - Len(Ahead) /\ k = p.used
  OBVIOUS
<1>5. /\ p \in Accumulator /\ k \in 0 .. Len(kept) /\ (p.end = "Pending" => k = Len(kept))
      /\ Len(kept) \in Nat
  <2>1. kept \in Seq(Byte) /\ parser \in Accumulator
    BY DEF ClientOK
  <2> QED BY <1>4, <2>1, ParsedType, LenProperties
<1>6. /\ a \in Seq(Byte) /\ Len(a) \in Nat /\ k \in Nat /\ k <= Len(a) /\ k <= Len(kept)
      /\ Len(words) \in Nat /\ n \in Int /\ Follows(a, words, n)
  <2>1. Len(words) \in Nat
    BY <1>3, LenProperties
  <2>2. Follows(a, words, n)
    BY <1>3, <1>4 DEF Arrives
  <2> QED BY <1>4, <1>5, <2>1, <2>2, AheadType
<1>7. PICK rest : rest = Stretch(a, k, Len(a))
  OBVIOUS
<1>8. rest \in Seq(Byte) /\ Len(rest) = Len(a) - k /\ Follows(rest, words, n + k)
  <2>1. Len(a) \in Nat /\ Len(a) <= Len(a)
    BY <1>6
  <2> QED BY <1>6, <1>7, <2>1, StretchFollows, StretchType
<1>9. kept' = From(kept, k) => b = rest
  BY <1>1, <1>4, <1>6, <1>7, ConsumeAhead
<1>10. CASE p.end = "Pending"
  <2>1. /\ kept' = From(kept, k) /\ parser' = p /\ command' = command /\ pc' = pc
    BY <1>4, <1>10 DEF Parse
  <2>2. Traced(p.line, words, n + k)
    BY <1>3, <1>4, <1>5, <1>10 DEF Consumed
  <2>3. n + k = Len(words) - Len(b) /\ b = rest
    <3>1. b = rest
      BY <1>9, <2>1
    <3>2. PICK w, x, y : w = Len(words) /\ x = Len(a) /\ y = Len(b)
      OBVIOUS
    <3>3. n = w - x /\ y = x - k /\ w \in Nat /\ x \in Nat /\ k \in Nat
      BY <1>4, <1>6, <1>8, <3>1, <3>2
    <3>4. n + k = w - y
      BY <3>3
    <3> QED BY <3>1, <3>2, <3>4
  <2>4. Follows(b, words, n + k)'
    BY <1>1, <1>8, <2>3 DEF Follows
  <2>5. Arrives(words)'
    BY <1>4, <2>1, <2>2, <2>3, <2>4 DEF Arrives, Follows, Traced
  <2>6. ~garbled' /\ parser'.end = "Pending"
    BY <1>1, <1>2, <1>10, <2>1 DEF AnswersInTurn
  <2>7. \E w \in Responses[command'] : Arrives(w)'
    BY <2>1, <2>5
  <2> QED BY <1>1, <2>1, <2>6, <2>7 DEF AnswersInTurn
<1>11. CASE p.end # "Pending"
  <2>1. p.end \in Terminal /\ kept' = From(kept, k) /\ pc' = "idle"
    BY <1>4, <1>11 DEF Parse, Finish
  <2>2. EndsAt(words, command, n + k)
    BY <1>3, <1>4, <2>1 DEF Consumed
  <2>3. Quiet(rest)
    <3>1. command \in DOMAIN Responses
      BY <1>1, BleuIoAssumption DEF ClientOK
    <3>2. (n + k) + Len(rest) = Len(words) /\ n + k \in Int
      BY <1>4, <1>6, <1>8
    <3> QED BY <1>3, <1>8, <2>2, <3>1, <3>2, RestIsQuiet
  <2>4. Quiet(Ahead)'
    BY <1>4, <1>9, <2>1, <2>3 DEF Quiet
  <2>5. ~garbled'
    BY <1>1, <1>2 DEF AnswersInTurn
  <2> QED BY <2>1, <2>4, <2>5 DEF AnswersInTurn
<1> QED BY <1>10, <1>11

(* Between two commands a part of what is ahead may be discarded.          *)
LEMMA RewrapInTurn ==
    ASSUME StreamOK, ClientOK, AnswersInTurn, Rewrap
    PROVE  AnswersInTurn'
<1> SUFFICES ASSUME ~upset'
             PROVE  AnswersInTurn'
  BY DEF AnswersInTurn
<1>1. /\ pc = "idle" /\ pc' = "idle" /\ kept' = <<>> /\ ~upset
      /\ garbled' = garbled /\ parser' = parser
  BY DEF Rewrap
<1>2. Quiet(Ahead) /\ ~garbled
  BY <1>1 DEF AnswersInTurn
<1>3. PICK k, u, w : k = kept /\ u = Unread /\ w = wire
  OBVIOUS
<1>4. k \in Seq(Byte) /\ u \in Seq(Byte) /\ w \in Seq(Byte) /\ u \o w \in Seq(Byte)
      /\ <<>> \in Seq(Byte)
  <2>1. k \in Seq(Byte) /\ u \in Seq(Byte) /\ w \in Seq(Byte)
    BY <1>3, UnreadType DEF StreamOK, ClientOK
  <2> QED BY <2>1, Parts, EmptySeq
<1>5. Quiet(u \o w) /\ Quiet(u) /\ Quiet(w) /\ Quiet(<<>>)
  <2>1. Quiet(k \o (u \o w))
    BY <1>2, <1>3 DEF Ahead
  <2>2. Quiet(u \o w)
    BY <1>4, <2>1, QuietParts
  <2>3. Quiet(<<>>)
    BY DEF Quiet
  <2> QED BY <1>4, <2>2, <2>3, QuietParts
<1>6. Unread' \in {<<>>, u} /\ wire' \in {<<>>, w}
  <2>1. ASSUME Discard
        PROVE  Unread' = <<>>
    BY <2>1, SubSeqEmpty DEF Discard, Unread
  <2>2. CASE ResetDataToggles
    BY <1>3, <2>1, <2>2 DEF ResetDataToggles
  <2>3. CASE Purge
    BY <1>3, <2>1, <2>3 DEF Purge
  <2>4. CASE PurgeBroken
    BY <1>3, <2>4 DEF PurgeBroken, Unread
  <2>5. CASE UNCHANGED streamVars
    BY <1>3, <2>5 DEF streamVars, Unread
  <2> QED BY <2>2, <2>3, <2>4, <2>5 DEF Rewrap
<1>7. (Unread \o wire)' \in {<<>>, u, w, u \o w}
  <2>1. \A x, y \in {<<>>, u, w} : x = <<>> => x \o y = y
    BY <1>4, ConcatEmptySeq
  <2>2. u \o <<>> = u
    BY <1>4, ConcatEmptySeq
  <2> QED BY <1>6, <2>1, <2>2
<1>8. Ahead' \in {<<>>, u, w, u \o w}
  <2>1. \A x \in {<<>>, u, w, u \o w} : <<>> \o x = x
    BY <1>4, ConcatEmptySeq
  <2>2. Ahead' = <<>> \o (Unread \o wire)'
    BY <1>1 DEF Ahead
  <2> QED BY <1>7, <2>1, <2>2
<1>9. Quiet(Ahead)'
  BY <1>5, <1>8 DEF Quiet
<1> QED BY <1>1, <1>2, <1>9 DEF AnswersInTurn

LEMMA RemovalInTurn == Removal => AnswersInTurn'
<1> SUFFICES ASSUME Removal
             PROVE  AnswersInTurn'
  OBVIOUS
<1>1. /\ pc' = "idle" /\ garbled' = FALSE /\ kept' = <<>> /\ wire' = <<>>
      /\ rx_packet' = <<>> /\ rx_start' = 0 /\ rx_end' = 0
  BY DEF Removal
<1>2. Unread' = <<>>
  BY <1>1, SubSeqEmpty DEF Unread
<1>3. Ahead' = <<>>
  BY <1>1, <1>2, EmptySeq, ConcatEmptySeq DEF Ahead
<1>4. Quiet(Ahead)'
  BY <1>3 DEF Quiet
<1> QED BY <1>1, <1>4 DEF AnswersInTurn

LEMMA IdleInTurn ==
    ASSUME AnswersInTurn, UNCHANGED streamVars, UNCHANGED clientVars
    PROVE  AnswersInTurn'
<1>1. Ahead' = Ahead /\ UNCHANGED <<command, pc, number, parser, garbled, upset>>
  BY DEF streamVars, clientVars, Ahead, Unread
<1>2. (\E words \in Responses[command] : Arrives(words))
          => \E words \in Responses[command'] : Arrives(words)'
  BY <1>1 DEF Arrives, Follows, Traced
<1>3. Quiet(Ahead) => Quiet(Ahead)'
  BY <1>1 DEF Quiet
<1> QED BY <1>1, <1>2, <1>3 DEF AnswersInTurn

LEMMA ClientInTurn ==
    ASSUME StreamOK, ClientOK, AnswersInTurn, ClientStep
    PROVE  AnswersInTurn'
<1>1. CASE Write
  BY <1>1, WriteInTurn
<1>2. CASE WriteBroken("failed")
  BY <1>2, BrokenInTurn DEF WriteBroken
<1>3. CASE StartRead \/ Read
  BY <1>3, ReadInTurn
<1>4. CASE ReadBroken("failed")
  BY <1>4, BrokenInTurn DEF ReadBroken
<1>5. CASE Parse
  BY <1>5, ParseInTurn
<1> QED BY <1>1, <1>2, <1>3, <1>4, <1>5 DEF ClientStep

LEMMA InitInTurn == Init => AnswersInTurn
<1> SUFFICES ASSUME Init
             PROVE  AnswersInTurn
  OBVIOUS
<1>1. /\ pc = "idle" /\ garbled = FALSE /\ kept = <<>> /\ wire = <<>>
      /\ rx_packet = <<>> /\ rx_start = 0 /\ rx_end = 0
  BY DEF Init, StreamInit, ClientInit
<1>2. Unread = <<>>
  BY <1>1, SubSeqEmpty DEF Unread
<1>3. Ahead = <<>>
  BY <1>1, <1>2, EmptySeq, ConcatEmptySeq DEF Ahead
<1> QED BY <1>1, <1>3 DEF AnswersInTurn, Quiet

LEMMA NextInTurn ==
    ASSUME TypeOK, AnswersInTurn, [Next]_vars
    PROVE  AnswersInTurn'
<1>1. StreamOK /\ ClientOK
  BY TypeOKParts
<1>2. CASE AnyCaller
  <2>1. CASE \E c \in {"basic", "scan"} : Command(c)
    BY <1>1, <2>1, CommandInTurn
  <2>2. CASE ClientStep
    BY <1>1, <2>2, ClientInTurn
  <2>3. CASE WriteBroken("dropped") \/ ReadBroken("dropped")
    BY <2>3, BrokenInTurn DEF WriteBroken, ReadBroken
  <2>4. CASE Rewrap
    BY <1>1, <2>4, RewrapInTurn
  <2> QED BY <1>2, <2>1, <2>2, <2>3, <2>4 DEF AnyCaller
<1>3. CASE Session
  <2>1. CASE NextCommand
    <3>1. number \in {0, 1, 2}
      BY <1>1, <2>1, BleuIoAssumption DEF NextCommand, ClientOK
    <3>2. PICK c : c = Script[number + 1]
      OBVIOUS
    <3>3. c \in {"basic", "scan"}
      BY <3>1, <3>2 DEF Script
    <3> QED BY <1>1, <2>1, <3>2, <3>3, CommandInTurn DEF NextCommand
  <2>2. CASE ClientStep
    BY <1>1, <2>2, ClientInTurn
  <2> QED BY <1>3, <2>1, <2>2 DEF Session
<1>4. CASE Timeout
  BY <1>4, BrokenInTurn DEF Timeout, WriteBroken, ReadBroken
<1>5. CASE Removal
  BY <1>5, RemovalInTurn
<1>6. CASE Connect \/ Enumerate \/ Leave \/ UNCHANGED vars
  <2>1. UNCHANGED streamVars /\ UNCHANGED clientVars
    BY <1>6 DEF Connect, Enumerate, Leave, vars
  <2> QED BY <2>1, IdleInTurn
<1> QED BY <1>2, <1>3, <1>4, <1>5, <1>6 DEF Next

(* A command that ends as the terminal line of an answer says has read the *)
(* line of its own.                                                        *)
LEMMA EndsWithItsOwn ==
    ASSUME TypeOK, AnswersInTurn, [Next]_vars, pc = "reading", pc' = "idle",
           result'.end \in Terminal, ~upset
    PROVE  result'.of = number
<1>1. StreamOK /\ ClientOK
  BY TypeOKParts
<1>2. CASE Parse
  <2>1. PICK p : p = Parsed
    OBVIOUS
  <2>2. p.end # "Pending" /\ result' = [end |-> p.end, of |-> p.of]
    BY <1>2, <2>1 DEF Parse, Finish
  <2>3. PICK words, n : Consumed(Parsed, Len(kept), words, n)
    BY <1>1, <1>2, ParsedTraces
  <2>4. p.end \in Terminal
    BY <2>2
  <2> QED BY <2>1, <2>2, <2>3, <2>4 DEF Consumed
<1>3. CASE \E how \in {"failed", "dropped"} : WriteBroken(how) \/ ReadBroken(how)
  <2>1. result'.end \in {"failed", "dropped"}
    BY <1>3 DEF WriteBroken, ReadBroken, Finish
  <2> QED BY <2>1 DEF Terminal
<1>4. CASE Removal
  <2>1. result'.end = "none"
    BY <1>4 DEF Removal
  <2> QED BY <2>1 DEF Terminal
<1>5. CASE Write \/ StartRead \/ Read \/ Rewrap \/ \E c : Command(c)
  BY <1>5 DEF Write, StartRead, Read, KeepReply, Rewrap, Command
<1>6. CASE Connect \/ Enumerate \/ Leave \/ UNCHANGED vars
  BY <1>6 DEF Connect, Enumerate, Leave, vars, clientVars
<1> QED BY <1>2, <1>3, <1>4, <1>5, <1>6
        DEF Next, AnyCaller, Session, NextCommand, ClientStep, Timeout

(***************************************************************************)
(* The theorems                                                            *)
(***************************************************************************)
(* All of the invariant that a step has to keep: what the parsers consume  *)
(* follows from the types.                                                 *)
StateOK == TypeOK /\ AddressesReturn

LEMMA InitOK == Init => StateOK /\ Channel!Init
<1> SUFFICES ASSUME Init PROVE StateOK /\ Channel!Init
  OBVIOUS
<1>1. <<>> \in Seq(Byte) /\ Len(<<>>) = 0 /\ PacketSize \in Nat /\ RxBytes \in Nat
      /\ MaxCommands \in Nat
  BY EmptySeq, ByteStreamAssumption, BleuIoAssumption
<1>2. StreamOK
  <2>1. reply \in [call : Calls, bytes : Seq(Byte)]
    BY <1>1 DEF Init, StreamInit, Calls
  <2> QED BY <1>1, <2>1 DEF Init, StreamInit, StreamOK
<1>3. ClientOK
  <2>1. parser \in Accumulator
    BY EmptyAccumulators DEF Init, ClientInit, Accumulator
  <2>2. reading = 0
    BY DEF Init, StreamInit
  <2>3. /\ command = "none" /\ pc = "idle" /\ number = 0 /\ kept = <<>>
        /\ garbled = FALSE /\ upset = FALSE /\ result = [end |-> "none", of |-> 0]
    BY DEF Init, ClientInit
  <2>4. result \in [end : AtEnds \cup ScanEnds \cup {"none", "failed", "dropped"}, of : Nat]
    BY <2>3
  <2>5. number \in 0 .. MaxCommands + 3 /\ Len(kept) <= RxBytes /\ kept \in Seq(Byte)
    BY <1>1, <2>3
  <2> QED BY <2>1, <2>2, <2>3, <2>4, <2>5 DEF ClientOK
<1>4. OuterOK /\ AddressesReturn
  BY DEF Init, OuterOK, AddressesReturn
<1>5. Channel!Init
  <2>1. Unread \o wire = <<>>
    <3>1. Unread = <<>>
      BY <1>2, UnreadType DEF Init, StreamInit
    <3> QED BY <1>1, <3>1, ConcatEmptySeq DEF Init, StreamInit
  <2> QED BY <2>1 DEF Init, StreamInit, Channel!Init
<1> QED BY <1>2, <1>3, <1>4, <1>5, TypeOKParts DEF StateOK

LEMMA NextOK ==
    ASSUME StateOK, [Next]_vars
    PROVE  StateOK' /\ [Channel!Next]_<<Unread \o wire, reply>>
<1>1. StreamOK /\ ClientOK /\ OuterOK /\ AddressesReturn
  BY TypeOKParts DEF StateOK
<1>2. ASSUME UNCHANGED streamVars, UNCHANGED clientVars
      PROVE  StreamOK' /\ ClientOK' /\ ChannelStep
  <2>1. StreamOK' /\ ChannelStep
    BY <1>1, <1>2, IdleStream
  <2>2. ClientOK'
    BY <1>1, <1>2 DEF ClientOK, Accumulator, streamVars, clientVars
  <2> QED BY <2>1, <2>2
<1>3. ASSUME UNCHANGED <<caller, phase, leased, own>>
      PROVE  OuterOK' /\ AddressesReturn'
  BY <1>1, <1>3 DEF OuterOK, AddressesReturn
<1>4. ASSUME AnyCaller
      PROVE  StreamOK' /\ ClientOK' /\ ChannelStep /\ OuterOK' /\ AddressesReturn'
  <2>1. OuterOK' /\ AddressesReturn'
    BY <1>3, <1>4 DEF AnyCaller
  <2>2. CASE number < MaxCommands /\ \E c \in {"basic", "scan"} : Command(c)
    BY <1>1, <2>1, <2>2, CommandSteps
  <2>3. CASE ClientStep
    BY <1>1, <2>1, <2>3, ClientSteps
  <2>4. CASE WriteBroken("dropped")
    BY <1>1, <2>1, <2>4, WriteBrokenSteps
  <2>5. CASE ReadBroken("dropped")
    BY <1>1, <2>1, <2>5, ReadBrokenSteps
  <2>6. CASE Rewrap
    BY <1>1, <2>1, <2>6, RewrapSteps
  <2> QED BY <1>4, <2>2, <2>3, <2>4, <2>5, <2>6 DEF AnyCaller
<1>5. ASSUME Connect
      PROVE  StreamOK' /\ ClientOK' /\ ChannelStep /\ OuterOK' /\ AddressesReturn'
  <2>1. UNCHANGED streamVars /\ UNCHANGED clientVars
    BY <1>5 DEF Connect
  <2>2. OuterOK' /\ AddressesReturn'
    BY <1>1, <1>5 DEF Connect, OuterOK, AddressesReturn
  <2> QED BY <1>2, <2>1, <2>2
<1>6. ASSUME Enumerate
      PROVE  StreamOK' /\ ClientOK' /\ ChannelStep /\ OuterOK' /\ AddressesReturn'
  <2>1. UNCHANGED streamVars /\ UNCHANGED clientVars
    BY <1>6 DEF Enumerate
  <2>2. OuterOK' /\ AddressesReturn'
    BY <1>1, <1>6 DEF Enumerate, OuterOK, AddressesReturn, Free
  <2> QED BY <1>2, <2>1, <2>2
<1>7. ASSUME Session
      PROVE  StreamOK' /\ ClientOK' /\ ChannelStep /\ OuterOK' /\ AddressesReturn'
  <2>1. OuterOK' /\ AddressesReturn'
    BY <1>3, <1>7 DEF Session
  <2>2. CASE NextCommand
    <3>1. number \in {0, 1, 2}
      BY <1>1, <2>2, BleuIoAssumption DEF NextCommand, ClientOK
    <3>2. PICK c : c = Script[number + 1]
      OBVIOUS
    <3>3. c \in {"basic", "scan"}
      BY <3>1, <3>2 DEF Script
    <3>4. Command(c) /\ number < 3
      BY <2>2, <3>2 DEF NextCommand
    <3> QED BY <1>1, <2>1, <3>3, <3>4, CommandSteps
  <2>3. CASE ClientStep
    BY <1>1, <2>1, <2>3, ClientSteps
  <2> QED BY <1>7, <2>2, <2>3 DEF Session
<1>8. ASSUME Leave
      PROVE  StreamOK' /\ ClientOK' /\ ChannelStep /\ OuterOK' /\ AddressesReturn'
  <2>1. UNCHANGED streamVars /\ UNCHANGED clientVars
    BY <1>8 DEF Leave
  <2>2. OuterOK' /\ AddressesReturn'
    BY <1>1, <1>8 DEF Leave, OuterOK, AddressesReturn
  <2> QED BY <1>2, <2>1, <2>2
<1>9. ASSUME Timeout
      PROVE  StreamOK' /\ ClientOK' /\ ChannelStep /\ OuterOK' /\ AddressesReturn'
  <2>1. OuterOK' /\ AddressesReturn'
    BY <1>1, <1>9 DEF Timeout, OuterOK, AddressesReturn
  <2> QED BY <1>1, <1>9, <2>1, WriteBrokenSteps, ReadBrokenSteps DEF Timeout
<1>10. ASSUME Removal
       PROVE  StreamOK' /\ ClientOK' /\ ChannelStep /\ OuterOK' /\ AddressesReturn'
  <2>1. OuterOK' /\ AddressesReturn'
    BY <1>1, <1>10 DEF Removal, OuterOK, AddressesReturn, StillLeased
  <2> QED BY <1>1, <1>10, <2>1, RemovalSteps
<1>11. ASSUME UNCHANGED vars
       PROVE  StreamOK' /\ ClientOK' /\ ChannelStep /\ OuterOK' /\ AddressesReturn'
  <2>1. UNCHANGED streamVars /\ UNCHANGED clientVars /\ UNCHANGED <<caller, phase, leased, own>>
    BY <1>11 DEF vars
  <2> QED BY <1>2, <1>3, <2>1
<1>12. StreamOK' /\ ClientOK' /\ ChannelStep /\ OuterOK' /\ AddressesReturn'
  BY <1>4, <1>5, <1>6, <1>7, <1>8, <1>9, <1>10, <1>11 DEF Next
<1>13. TypeOK'
  BY <1>12 DEF TypeOK, StreamOK, ClientOK, OuterOK
<1> QED BY <1>12, <1>13 DEF StateOK, ChannelStep

LEMMA TypesConsume == TypeOK => ParsersConsume
  BY ParsedType DEF TypeOK, ParsersConsume

LEMMA StatesAreOK == Spec => [](StateOK /\ AnswersInTurn)
<1>1. Init => StateOK /\ AnswersInTurn
  BY InitOK, InitInTurn
<1>2. StateOK /\ AnswersInTurn /\ [Next]_vars => (StateOK /\ AnswersInTurn)'
  BY NextOK, NextInTurn DEF StateOK
<1> QED BY <1>1, <1>2, PTL DEF Spec

(* Every variable of the client, of the stream and of the application has  *)
(* its type: neither parser outgrows its buffer. None consumes more than   *)
(* is kept, or less without being at an end; between commands nothing that *)
(* could end the next one is ahead, in either buffer or on the wire; and   *)
(* an enumeration always finds an address.                                 *)
THEOREM ApplicationIsSound == Spec => []ApplicationInv
<1>1. StateOK /\ AnswersInTurn => ApplicationInv
  BY TypesConsume DEF StateOK, ApplicationInv
<1> QED BY <1>1, StatesAreOK, PTL

(* As long as every command has got its terminal line, a command ends with *)
(* a line of its own answer, whatever the answers, wherever packets and    *)
(* buffers cut them, and whatever of them is discarded between commands.   *)
THEOREM AnswersBelong == Spec => AnswersMatch
<1>1. StateOK /\ AnswersInTurn /\ [Next]_vars
         => [pc = "reading" /\ pc' = "idle" /\ result'.end \in Terminal /\ ~upset
                => result'.of = number]_vars
  BY EndsWithItsOwn DEF StateOK
<1>2. Spec => [](StateOK /\ AnswersInTurn)
  BY StatesAreOK
<1> QED BY <1>1, <1>2, PTL DEF Spec, AnswersMatch

(* The driver's read path delivers the bytes of the device in order and    *)
(* each once, whatever the sizes of the packets and of the caller's buffer:*)
(* every step of the client and of the application is a step of the        *)
(* channel, or leaves it alone.                                            *)
THEOREM StreamsImplementChannel == Spec => ImplementsChannel
<1>1. Init => Channel!Init
  BY InitOK
<1>2. StateOK /\ [Next]_vars => [Channel!Next]_<<Unread \o wire, reply>>
  BY NextOK
<1>3. Spec => []StateOK
  BY StatesAreOK, PTL
<1> QED BY <1>1, <1>2, <1>3, PTL DEF Spec, ImplementsChannel, Channel!Spec
=============================================================================
