-------------------------- MODULE ConnectionProofs --------------------------
(***************************************************************************)
(* Proofs about Protocol: deserializing undoes serializing, for every      *)
(* request and response, and accepts nothing else: whatever it accepts is  *)
(* the serialization of what it returns, followed by bytes it ignores.     *)
(*                                                                         *)
(* Proofs about Connection: for every set of requests and responses, every *)
(* number of calls and every way the kernel cuts the streams, a connection *)
(* does what Exchange says.                                                *)
(***************************************************************************)
EXTENDS Connection, TLAPS, SequenceTheorems

-----------------------------------------------------------------------------
LEMMA EncodeType ==
    ASSUME NEW n \in Nat
    PROVE  Encode(n) \in Seq(Byte) /\ Len(Encode(n)) = 4
<1>1. /\ (n \div Power3) % 256 \in Byte /\ (n \div Power2) % 256 \in Byte
      /\ (n \div 256) % 256 \in Byte /\ n % 256 \in Byte
  BY SMT DEF Byte, Power2, Power3
<1> QED
  BY <1>1 DEF Encode

LEMMA NumberOfDigits ==
    ASSUME NEW n \in Nat, n < 256 * Power3
    PROVE  Number((n \div Power3) % 256, (n \div Power2) % 256,
                  (n \div 256) % 256, n % 256) = n
<1> DEFINE q1 == n \div 256
           q2 == n \div Power2
           q3 == n \div Power3
<1>1. n = 256 * q1 + (n % 256) /\ q1 \in Nat
  BY SMT
<1>2. q1 = 256 * q2 + (q1 % 256) /\ q2 \in Nat
  BY SMT DEF Power2
<1>3. q2 = 256 * q3 + (q2 % 256) /\ q3 \in Nat
  BY SMT DEF Power2, Power3
<1>4. q3 = q3 % 256
  BY SMT DEF Power3
<1>5. ASSUME NEW a \in Nat, NEW b \in Nat, NEW c \in Nat, NEW r \in Int,
             NEW s \in Int, NEW t \in Int,
             n = 256 * a + r, a = 256 * b + s, b = 256 * c + t
      PROVE  n = Power3 * c + Power2 * t + 256 * s + r
  BY <1>5, SMT DEF Power2, Power3
<1>6. n = Power3 * q3 + Power2 * (q2 % 256) + 256 * (q1 % 256) + (n % 256)
  <2>1. (n % 256) \in Int /\ (q1 % 256) \in Int /\ (q2 % 256) \in Int
    BY <1>1, <1>2, SMT
  <2> HIDE DEF q1, q2, q3
  <2> QED
    BY <1>1, <1>2, <1>3, <1>5, <2>1
<1> QED
  BY <1>4, <1>6 DEF Number

(* ntohl undoes htonl, wherever in a sequence the four bytes are. *)
LEMMA DecodeEncode ==
    ASSUME NEW n \in Nat, n < 256 * Power3, NEW s, NEW i,
           <<s[i], s[i + 1], s[i + 2], s[i + 3]>> = Encode(n)
    PROVE  Decode(s, i) = n
<1>1. /\ s[i] = (n \div Power3) % 256 /\ s[i + 1] = (n \div Power2) % 256
      /\ s[i + 2] = (n \div 256) % 256 /\ s[i + 3] = n % 256
  BY DEF Encode
<1> QED
  BY <1>1, NumberOfDigits DEF Decode

(* The four bytes behind a position. *)
LEMMA FourBytes ==
    ASSUME NEW s, NEW m \in Nat, NEW n \in Nat,
           \A j \in 1 .. 4 : s[m + j] = Encode(n)[j]
    PROVE  <<s[m + 1], s[(m + 1) + 1], s[(m + 1) + 2], s[(m + 1) + 3]>> = Encode(n)
<1>1. /\ s[m + 1] = Encode(n)[1] /\ s[m + 2] = Encode(n)[2]
      /\ s[m + 3] = Encode(n)[3] /\ s[m + 4] = Encode(n)[4]
  OBVIOUS
<1>2. (m + 1) + 1 = m + 2 /\ (m + 1) + 2 = m + 3 /\ (m + 1) + 3 = m + 4
  OBVIOUS
<1> QED
  BY <1>1, <1>2 DEF Encode

-----------------------------------------------------------------------------
(* Where the elements of a concatenation come from. *)
LEMMA Joined ==
    ASSUME NEW s \in Seq(Byte), NEW t \in Seq(Byte)
    PROVE  /\ s \o t \in Seq(Byte)
           /\ Len(s \o t) = Len(s) + Len(t)
           /\ \A i \in 1 .. Len(s) : (s \o t)[i] = s[i]
           /\ \A j \in 1 .. Len(t) : (s \o t)[Len(s) + j] = t[j]
<1>1. Len(s) \in Nat /\ Len(t) \in Nat
  OBVIOUS
<1>2. /\ s \o t \in Seq(Byte) /\ Len(s \o t) = Len(s) + Len(t)
      /\ \A i \in 1 .. Len(s) + Len(t) :
            (s \o t)[i] = IF i <= Len(s) THEN s[i] ELSE t[i - Len(s)]
  BY ConcatProperties
<1>3. ASSUME NEW j \in 1 .. Len(t) PROVE (s \o t)[Len(s) + j] = t[j]
  <2>1. Len(s) + j \in 1 .. Len(s) + Len(t) /\ ~(Len(s) + j <= Len(s)) /\ (Len(s) + j) - Len(s) = j
    BY <1>1
  <2>2. (s \o t)[Len(s) + j] = t[(Len(s) + j) - Len(s)]
    BY <1>2, <2>1
  <2> QED
    BY <2>1, <2>2
<1>4. ASSUME NEW i \in 1 .. Len(s) PROVE (s \o t)[i] = s[i]
  BY <1>1, <1>2
<1> QED
  BY <1>2, <1>3, <1>4

(* Where the parts of a serialized request are. *)
LEMMA RequestLayout ==
    ASSUME NEW r \in WireRequest
    PROVE  LET data == SerializeRequest(r)
               k == Len(r.key)
               v == Len(r.value)
           IN  /\ data \in Seq(Byte)
               /\ Len(data) = 9 + k + v
               /\ data[1] = r.command
               /\ \A j \in 1 .. 4 : data[1 + j] = Encode(k)[j]
               /\ \A j \in 1 .. k : data[5 + j] = r.key[j]
               /\ \A j \in 1 .. 4 : data[(5 + k) + j] = Encode(v)[j]
               /\ \A j \in 1 .. v : data[9 + k + j] = r.value[j]
<1> DEFINE data == SerializeRequest(r)
           k == Len(r.key)
           v == Len(r.value)
           a == <<r.command>>
           b == a \o Encode(k)
           c == b \o r.key
           d == c \o Encode(v)
<1>1. /\ r.command \in Byte /\ r.key \in Seq(Byte) /\ r.value \in Seq(Byte)
      /\ k \in Nat /\ v \in Nat
  BY DEF WireRequest
<1>2. a \in Seq(Byte) /\ Len(a) = 1 /\ a[1] = r.command
  BY <1>1
<1>3. /\ Encode(k) \in Seq(Byte) /\ Len(Encode(k)) = 4
      /\ Encode(v) \in Seq(Byte) /\ Len(Encode(v)) = 4
  BY <1>1, EncodeType
<1> HIDE DEF a, data
<1>4. /\ b \in Seq(Byte) /\ Len(b) = 5
      /\ b[1] = r.command /\ \A j \in 1 .. 4 : b[1 + j] = Encode(k)[j]
  <2>1. /\ b \in Seq(Byte)
        /\ Len(b) = Len(a) + Len(Encode(k))
        /\ \A i \in 1 .. Len(a) : b[i] = a[i]
        /\ \A j \in 1 .. Len(Encode(k)) : b[Len(a) + j] = Encode(k)[j]
    BY <1>2, <1>3, Joined, Zenon
  <2> HIDE DEF b
  <2> QED
    BY <1>2, <1>3, <2>1
<1> HIDE DEF b
<1>5. /\ c \in Seq(Byte) /\ Len(c) = 5 + k
      /\ \A i \in 1 .. 5 : c[i] = b[i]
      /\ \A j \in 1 .. k : c[5 + j] = r.key[j]
  <2>1. /\ c \in Seq(Byte)
        /\ Len(c) = Len(b) + Len(r.key)
        /\ \A i \in 1 .. Len(b) : c[i] = b[i]
        /\ \A j \in 1 .. Len(r.key) : c[Len(b) + j] = r.key[j]
    BY <1>1, <1>4, Joined, Zenon
  <2> HIDE DEF c
  <2> QED
    BY <1>1, <1>4, <2>1
<1> HIDE DEF c
<1>6. /\ d \in Seq(Byte) /\ Len(d) = 9 + k
      /\ \A i \in 1 .. 5 + k : d[i] = c[i]
      /\ \A j \in 1 .. 4 : d[5 + k + j] = Encode(v)[j]
  <2>1. /\ d \in Seq(Byte)
        /\ Len(d) = Len(c) + Len(Encode(v))
        /\ \A i \in 1 .. Len(c) : d[i] = c[i]
        /\ \A j \in 1 .. Len(Encode(v)) : d[Len(c) + j] = Encode(v)[j]
    BY <1>3, <1>5, Joined, Zenon
  <2> HIDE DEF d
  <2> QED
    BY <1>1, <1>3, <1>5, <2>1
<1> HIDE DEF d
<1>7. data = d \o r.value
  BY DEF SerializeRequest, data, a, b, c, d
<1>8. /\ data \in Seq(Byte) /\ Len(data) = 9 + k + v
      /\ \A i \in 1 .. 9 + k : data[i] = d[i]
      /\ \A j \in 1 .. v : data[9 + k + j] = r.value[j]
  <2> DEFINE e == d \o r.value
  <2>1. /\ e \in Seq(Byte)
        /\ Len(e) = Len(d) + Len(r.value)
        /\ \A i \in 1 .. Len(d) : e[i] = d[i]
        /\ \A j \in 1 .. Len(r.value) : e[Len(d) + j] = r.value[j]
    BY <1>1, <1>6, Joined, Zenon
  <2>2. data = e
    BY <1>7
  <2> HIDE DEF e
  <2> QED
    BY <1>1, <1>6, <2>1, <2>2
<1>9. \A i \in 1 .. 5 : data[i] = b[i]
  <2> SUFFICES ASSUME NEW i \in 1 .. 5 PROVE data[i] = b[i]
    OBVIOUS
  <2>1. i \in 1 .. 5 + k /\ i \in 1 .. 9 + k
    BY <1>1
  <2> QED
    BY <1>5, <1>6, <1>8, <2>1
<1>10. \A j \in 1 .. k : data[5 + j] = r.key[j]
  <2> SUFFICES ASSUME NEW j \in 1 .. k PROVE data[5 + j] = r.key[j]
    OBVIOUS
  <2>1. 5 + j \in 1 .. 5 + k /\ 5 + j \in 1 .. 9 + k
    BY <1>1
  <2> QED
    BY <1>5, <1>6, <1>8, <2>1
<1>11. \A j \in 1 .. 4 : data[(5 + k) + j] = Encode(v)[j]
  <2> SUFFICES ASSUME NEW j \in 1 .. 4 PROVE data[(5 + k) + j] = Encode(v)[j]
    OBVIOUS
  <2>1. (5 + k) + j = 5 + k + j /\ 5 + k + j \in 1 .. 9 + k
    BY <1>1
  <2> QED
    BY <1>6, <1>8, <2>1
<1>12. \A j \in 1 .. 4 : data[1 + j] = Encode(k)[j]
  <2> SUFFICES ASSUME NEW j \in 1 .. 4 PROVE data[1 + j] = Encode(k)[j]
    OBVIOUS
  <2>1. 1 + j \in 1 .. 5
    OBVIOUS
  <2> QED
    BY <1>4, <1>9, <2>1
<1>13. data[1] = r.command
  BY <1>4, <1>9
<1> QED
  BY <1>8, <1>10, <1>11, <1>12, <1>13 DEF data

(* A part of a sequence that has the elements of another is that sequence. *)
LEMMA PartEqual ==
    ASSUME NEW data \in Seq(Byte), NEW part \in Seq(Byte), NEW m \in Nat,
           m + Len(part) <= Len(data),
           \A j \in 1 .. Len(part) : data[m + j] = part[j]
    PROVE  SubSeq(data, m + 1, m + Len(part)) = part
<1> DEFINE sub == SubSeq(data, m + 1, m + Len(part))
<1>1. Len(part) \in Nat /\ Len(data) \in Nat
  OBVIOUS
<1>2. \A i \in m + 1 .. m + Len(part) : data[i] \in Byte
  BY <1>1, ElementOfSeq
<1>3. /\ sub \in Seq(Byte) /\ Len(sub) = Len(part)
      /\ \A i \in 1 .. Len(part) : sub[i] = data[m + i]
  <2>1. /\ sub \in Seq(Byte)
        /\ Len(sub) = IF m + 1 <= m + Len(part) THEN m + Len(part) - (m + 1) + 1 ELSE 0
        /\ \A i \in 1 .. m + Len(part) - (m + 1) + 1 : sub[i] = data[(m + 1) + i - 1]
    BY <1>1, <1>2, SubSeqProperties
  <2> QED
    BY <1>1, <2>1
<1> HIDE DEF sub
<1>4. sub = part
  BY <1>1, <1>3, SeqEqual
<1> QED
  BY <1>4 DEF sub

(* protocol.cpp: what deserializeRequest makes of the bytes that           *)
(* serializeRequest produced is the request that was sent, whatever bytes  *)
(* the key and the value hold, empty ones included.                        *)
THEOREM RequestRoundTrip ==
    ASSUME NEW r \in WireRequest
    PROVE  DeserializeRequest(SerializeRequest(r)) = r
<1> DEFINE data == SerializeRequest(r)
           k == Len(r.key)
           v == Len(r.value)
<1>1. /\ r = [command |-> r.command, key |-> r.key, value |-> r.value]
      /\ r.key \in Seq(Byte) /\ r.value \in Seq(Byte)
      /\ k \in Nat /\ v \in Nat /\ k + v < 127 * Power3
  BY DEF WireRequest, Short
<1>2. /\ data \in Seq(Byte)
      /\ Len(data) = 9 + k + v
      /\ data[1] = r.command
      /\ \A j \in 1 .. 4 : data[1 + j] = Encode(k)[j]
      /\ \A j \in 1 .. k : data[5 + j] = r.key[j]
      /\ \A j \in 1 .. 4 : data[(5 + k) + j] = Encode(v)[j]
      /\ \A j \in 1 .. v : data[9 + k + j] = r.value[j]
  BY RequestLayout, Zenon
<1> HIDE DEF data
<1>3. k < 256 * Power3 /\ v < 256 * Power3
  BY <1>1, SMT DEF Power3
<1>4. Decode(data, 1 + 1) = k
  <2> DEFINE m == 1
  <2>2. m \in Nat /\ \A j \in 1 .. 4 : data[m + j] = Encode(k)[j]
    BY <1>2
  <2> HIDE DEF k, v, m
  <2>3. <<data[m + 1], data[(m + 1) + 1], data[(m + 1) + 2], data[(m + 1) + 3]>> = Encode(k)
    BY <1>1, <2>2, FourBytes, Zenon
  <2>4. Decode(data, m + 1) = k
    BY <1>1, <1>3, <2>3, DecodeEncode, Zenon
  <2> QED
    BY <2>4 DEF m
<1>5. Decode(data, (5 + k) + 1) = v
  <2>1. 5 + k \in Nat
    BY <1>1
  <2> DEFINE m == 5 + k
  <2>2. m \in Nat /\ \A j \in 1 .. 4 : data[m + j] = Encode(v)[j]
    BY <1>2, <2>1
  <2> HIDE DEF k, v, m
  <2>3. <<data[m + 1], data[(m + 1) + 1], data[(m + 1) + 2], data[(m + 1) + 3]>> = Encode(v)
    BY <1>1, <2>2, FourBytes, Zenon
  <2>4. Decode(data, m + 1) = v
    BY <1>1, <1>3, <2>3, DecodeEncode, Zenon
  <2> QED
    BY <2>4 DEF m
<1>6. SubSeq(data, 5 + 1, 5 + Len(r.key)) = r.key
  <2>1. 5 \in Nat /\ 5 + Len(r.key) <= Len(data)
    BY <1>1, <1>2
  <2> QED
    BY <1>1, <1>2, <2>1, PartEqual, Zenon
<1>7. SubSeq(data, (9 + k) + 1, (9 + k) + Len(r.value)) = r.value
  <2>1. 9 + k \in Nat /\ (9 + k) + Len(r.value) <= Len(data)
    BY <1>1, <1>2
  <2> QED
    BY <1>1, <1>2, <2>1, PartEqual
<1>8. /\ 1 + 1 = 2 /\ 5 + 1 = 6 /\ (5 + k) + 1 = 6 + k /\ (9 + k) + 1 = 10 + k
      /\ ~(Len(data) < 9) /\ ~(Len(data) < 5 + k + 4) /\ ~(Len(data) < 9 + k + v)
  BY <1>1, <1>2
<1> HIDE DEF k, v
<1>9. DeserializeRequest(data) = [command |-> r.command, key |-> r.key, value |-> r.value]
  <2>1. SubSeq(data, 6, 5 + k) = r.key /\ SubSeq(data, 10 + k, 9 + k + v) = r.value
    BY <1>6, <1>7, <1>8 DEF k, v
  <2> QED
    BY <1>2, <1>4, <1>5, <1>8, <2>1 DEF DeserializeRequest
<1> QED
  BY <1>1, <1>9 DEF data

(* Where the parts of a serialized response are. *)
LEMMA ResponseLayout ==
    ASSUME NEW r \in WireResponse
    PROVE  LET data == SerializeResponse(r)
               v == Len(r.value)
           IN  /\ data \in Seq(Byte)
               /\ Len(data) = 5 + v
               /\ data[1] = r.status
               /\ \A j \in 1 .. 4 : data[1 + j] = Encode(v)[j]
               /\ \A j \in 1 .. v : data[5 + j] = r.value[j]
<1> DEFINE data == SerializeResponse(r)
           v == Len(r.value)
           a == <<r.status>>
           b == a \o Encode(v)
           c == b \o r.value
<1>1. r.status \in Byte /\ r.value \in Seq(Byte) /\ v \in Nat
  BY DEF WireResponse
<1>2. a \in Seq(Byte) /\ Len(a) = 1 /\ a[1] = r.status
  BY <1>1
<1>3. Encode(v) \in Seq(Byte) /\ Len(Encode(v)) = 4
  BY <1>1, EncodeType
<1> HIDE DEF a, data
<1>4. /\ b \in Seq(Byte) /\ Len(b) = 5
      /\ b[1] = r.status
      /\ \A j \in 1 .. 4 : b[1 + j] = Encode(v)[j]
  <2>1. /\ b \in Seq(Byte)
        /\ Len(b) = Len(a) + Len(Encode(v))
        /\ \A i \in 1 .. Len(a) : b[i] = a[i]
        /\ \A j \in 1 .. Len(Encode(v)) : b[Len(a) + j] = Encode(v)[j]
    BY <1>2, <1>3, Joined, Zenon
  <2> HIDE DEF b
  <2> QED
    BY <1>2, <1>3, <2>1
<1> HIDE DEF b
<1>5. /\ c \in Seq(Byte) /\ Len(c) = 5 + v
      /\ \A i \in 1 .. 5 : c[i] = b[i]
      /\ \A j \in 1 .. v : c[5 + j] = r.value[j]
  <2>1. /\ c \in Seq(Byte)
        /\ Len(c) = Len(b) + Len(r.value)
        /\ \A i \in 1 .. Len(b) : c[i] = b[i]
        /\ \A j \in 1 .. Len(r.value) : c[Len(b) + j] = r.value[j]
    BY <1>1, <1>4, Joined, Zenon
  <2> HIDE DEF c
  <2> QED
    BY <1>1, <1>4, <2>1
<1>6. data = c
  BY DEF SerializeResponse, data, a, b, c
<1> HIDE DEF c
<1>7. c[1] = r.status /\ \A j \in 1 .. 4 : c[1 + j] = Encode(v)[j]
  <2>1. \A j \in 1 .. 4 : 1 + j \in 1 .. 5
    OBVIOUS
  <2> QED
    BY <1>4, <1>5, <2>1
<1> QED
  BY <1>5, <1>6, <1>7 DEF data

(* protocol.cpp: what deserializeResponse makes of the bytes that          *)
(* serializeResponse produced is the response that was sent.               *)
THEOREM ResponseRoundTrip ==
    ASSUME NEW r \in WireResponse
    PROVE  DeserializeResponse(SerializeResponse(r)) = r
<1> DEFINE data == SerializeResponse(r)
           v == Len(r.value)
<1>1. /\ r = [status |-> r.status, value |-> r.value]
      /\ r.value \in Seq(Byte) /\ v \in Nat /\ v < 127 * Power3
  BY DEF WireResponse, Short
<1>2. /\ data \in Seq(Byte)
      /\ Len(data) = 5 + v
      /\ data[1] = r.status
      /\ \A j \in 1 .. 4 : data[1 + j] = Encode(v)[j]
      /\ \A j \in 1 .. v : data[5 + j] = r.value[j]
  BY ResponseLayout, Zenon
<1> HIDE DEF data
<1>3. v < 256 * Power3
  BY <1>1, SMT DEF Power3
<1>4. Decode(data, 1 + 1) = v
  <2> DEFINE m == 1
  <2>2. m \in Nat /\ \A j \in 1 .. 4 : data[m + j] = Encode(v)[j]
    BY <1>2
  <2> HIDE DEF v, m
  <2>3. <<data[m + 1], data[(m + 1) + 1], data[(m + 1) + 2], data[(m + 1) + 3]>> = Encode(v)
    BY <1>1, <2>2, FourBytes, Zenon
  <2>4. Decode(data, m + 1) = v
    BY <1>1, <1>3, <2>3, DecodeEncode, Zenon
  <2> QED
    BY <2>4 DEF m
<1>5. SubSeq(data, 5 + 1, 5 + Len(r.value)) = r.value
  <2>1. 5 \in Nat /\ 5 + Len(r.value) <= Len(data)
    BY <1>1, <1>2
  <2> QED
    BY <1>1, <1>2, <2>1, PartEqual, Zenon
<1>6. 1 + 1 = 2 /\ 5 + 1 = 6 /\ ~(Len(data) < 5) /\ ~(Len(data) < 5 + v)
  BY <1>1, <1>2
<1> HIDE DEF v
<1>7. DeserializeResponse(data) = [status |-> r.status, value |-> r.value]
  <2>1. SubSeq(data, 6, 5 + v) = r.value
    BY <1>5, <1>6 DEF v
  <2> QED
    BY <1>2, <1>4, <1>6, <2>1 DEF DeserializeResponse
<1> QED
  BY <1>1, <1>7 DEF data

-----------------------------------------------------------------------------
(* What writeFrame sends. *)
LEMMA FrameLayout ==
    ASSUME NEW data \in Seq(Byte), Len(data) < 256 * Power3
    PROVE  /\ Frame(data) \in Seq(Byte)
           /\ Len(Frame(data)) = 4 + Len(data)
           /\ \A j \in 1 .. 4 : Frame(data)[j] = Encode(Len(data))[j]
           /\ SubSeq(Frame(data), 5, Len(Frame(data))) = data
<1> DEFINE head == Encode(Len(data))
           frame == head \o data
<1>1. head \in Seq(Byte) /\ Len(head) = 4 /\ Len(data) \in Nat
  BY EncodeType
<1> HIDE DEF head
<1>2. /\ frame \in Seq(Byte)
      /\ Len(frame) = Len(head) + Len(data)
      /\ \A i \in 1 .. Len(head) : frame[i] = head[i]
      /\ \A j \in 1 .. Len(data) : frame[Len(head) + j] = data[j]
  BY <1>1, Joined, Zenon
<1> HIDE DEF frame
<1>3. SubSeq(frame, Len(head) + 1, Len(head) + Len(data)) = data
  <2>1. Len(head) \in Nat /\ Len(head) + Len(data) <= Len(frame)
    BY <1>1, <1>2
  <2> QED
    BY <1>2, <2>1, PartEqual, Zenon
<1>4. Frame(data) = frame
  BY DEF Frame, frame, head
<1>5. Len(head) + 1 = 5 /\ Len(head) + Len(data) = Len(frame) /\ Len(frame) = 4 + Len(data)
  BY <1>1, <1>2
<1>6. \A j \in 1 .. 4 : frame[j] = Encode(Len(data))[j]
  BY <1>1, <1>2 DEF head
<1> QED
  BY <1>2, <1>3, <1>4, <1>5, <1>6

(* The first four bytes of a frame tell how many follow. *)
LEMMA FrameLength ==
    ASSUME NEW data \in Seq(Byte), Len(data) < 256 * Power3,
           NEW s \in Seq(Byte), NEW t \in Seq(Byte),
           s \o t = Frame(data), Len(s) >= 4
    PROVE  Decode(s, 1) = Len(data)
<1>1. /\ Len(s) \in Nat /\ Len(data) \in Nat
      /\ \A i \in 1 .. Len(s) : (s \o t)[i] = s[i]
  BY Joined
<1>2. \A j \in 1 .. 4 : s[0 + j] = Encode(Len(data))[j]
  <2> SUFFICES ASSUME NEW j \in 1 .. 4 PROVE s[0 + j] = Encode(Len(data))[j]
    OBVIOUS
  <2>1. j \in 1 .. Len(s) /\ 0 + j = j
    BY <1>1
  <2>2. Frame(data)[j] = Encode(Len(data))[j]
    BY FrameLayout
  <2>3. s[j] = Frame(data)[j]
    BY <1>1, <2>1
  <2> QED
    BY <2>1, <2>2, <2>3
<1> DEFINE m == 0
           n == Len(data)
<1>3. m \in Nat /\ n \in Nat /\ n < 256 * Power3 /\ \A j \in 1 .. 4 : s[m + j] = Encode(n)[j]
  BY <1>1, <1>2
<1> HIDE DEF m, n
<1>4. <<s[m + 1], s[(m + 1) + 1], s[(m + 1) + 2], s[(m + 1) + 3]>> = Encode(n)
  BY <1>3, FourBytes, Zenon
<1>5. Decode(s, m + 1) = n
  BY <1>3, <1>4, DecodeEncode, Zenon
<1> QED
  BY <1>5 DEF m, n

(* A receiver that has read as many bytes as the first four of them tell   *)
(* has read the frame, and nothing of it is still to come.                 *)
LEMMA FrameComplete ==
    ASSUME NEW data \in Seq(Byte), Len(data) < 256 * Power3,
           NEW s \in Seq(Byte), NEW t \in Seq(Byte),
           s \o t = Frame(data), Len(s) >= 4, Len(s) = 4 + Decode(s, 1)
    PROVE  t = <<>> /\ SubSeq(s, 5, Len(s)) = data
<1>1. Decode(s, 1) = Len(data)
  BY FrameLength
<1>2. Len(s) + Len(t) = 4 + Len(data) /\ Len(t) \in Nat /\ Len(data) \in Nat
  <2>1. Len(s \o t) = Len(s) + Len(t)
    BY Joined
  <2>2. Len(Frame(data)) = 4 + Len(data)
    BY FrameLayout
  <2> QED
    BY <2>1, <2>2
<1>3. Len(t) = 0
  BY <1>1, <1>2
<1>4. t = <<>>
  BY <1>3, EmptySeq
<1>5. s = Frame(data)
  BY <1>4, ConcatEmptySeq
<1> QED
  BY <1>4, <1>5, FrameLayout

-----------------------------------------------------------------------------
(* What is on its way from a side: read by its peer, on the wire, and      *)
(* still to be written.                                                    *)
Chain(b, w, r) == (b \o w) \o r

Flow(side) == Chain(buf[Peer(side)], wire[side], rest[side])

Idle(side) == buf[Peer(side)] = <<>> /\ wire[side] = <<>> /\ rest[side] = <<>>

(* One call at a time is under way: its request has not reached the        *)
(* handler, or the handler has it, or its response has not reached the     *)
(* client.                                                                 *)
OneCall ==
    /\ Len(got) <= Len(replied) /\ Len(replied) <= Len(seen)
    /\ Len(seen) <= Len(asked) /\ Len(asked) <= Len(got) + 1

(* What is on its way is the frame of the message that was sent last and   *)
(* has not arrived.                                                        *)
RequestFlow ==
    IF Len(seen) < Len(asked)
    THEN Flow("client") = Frame(SerializeRequest(asked[Len(asked)]))
    ELSE Idle("client")

ResponseFlow ==
    IF Len(got) < Len(replied)
    THEN Flow("server") = Frame(SerializeResponse(replied[Len(replied)]))
    ELSE Idle("server")

Control ==
    /\ pc["client"] = "idle" => Len(asked) = Len(got)
    /\ pc["server"] = "handling" => Len(replied) < Len(seen)

(* The inductive invariant. *)
IInv == TypeOK /\ OneCall /\ RequestFlow /\ ResponseFlow /\ Control

-----------------------------------------------------------------------------
LEMMA Associative ==
    ASSUME NEW s \in Seq(Byte), NEW t \in Seq(Byte), NEW u \in Seq(Byte)
    PROVE  (s \o t) \o u = s \o (t \o u)
BY ConcatAssociative

(* Cutting a sequence in two. *)
LEMMA Cut ==
    ASSUME NEW r \in Seq(Byte), NEW n \in 1 .. Len(r)
    PROVE  /\ SubSeq(r, 1, n) \in Seq(Byte)
           /\ SubSeq(r, n + 1, Len(r)) \in Seq(Byte)
           /\ SubSeq(r, 1, n) \o SubSeq(r, n + 1, Len(r)) = r
<1>1. Len(r) \in Nat /\ n \in Nat /\ n <= Len(r)
  OBVIOUS
<1>2. \A i \in 1 .. Len(r) : r[i] \in Byte
  BY ElementOfSeq
<1>3. SubSeq(r, 1, n) \in Seq(Byte)
  <2>1. \A i \in 1 .. n : r[i] \in Byte
    BY <1>1, <1>2
  <2> QED
    BY <1>1, <2>1, SubSeqProperties
<1>4. SubSeq(r, n + 1, Len(r)) \in Seq(Byte)
  <2>1. \A i \in n + 1 .. Len(r) : r[i] \in Byte
    BY <1>1, <1>2
  <2> QED
    BY <1>1, <2>1, SubSeqProperties
<1>5. SubSeq(r, 1, n) \o SubSeq(r, n + 1, Len(r)) = SubSeq(r, 1, Len(r))
  <2>1. 1 \in 1 .. Len(r) + 1 /\ n \in 1 - 1 .. Len(r) /\ Len(r) \in n .. Len(r)
    BY <1>1
  <2> QED
    BY <2>1, ConcatAdjacentSubSeq
<1> QED
  BY <1>3, <1>4, <1>5, SubSeqFull

(* What a write takes from the front of rest it puts at the end of wire. *)
LEMMA WriteFlow ==
    ASSUME NEW b \in Seq(Byte), NEW w \in Seq(Byte), NEW r \in Seq(Byte),
           NEW n \in 1 .. Len(r)
    PROVE  /\ w \o SubSeq(r, 1, n) \in Seq(Byte)
           /\ SubSeq(r, n + 1, Len(r)) \in Seq(Byte)
           /\ Chain(b, w \o SubSeq(r, 1, n), SubSeq(r, n + 1, Len(r))) = Chain(b, w, r)
<1> DEFINE x == SubSeq(r, 1, n)
           y == SubSeq(r, n + 1, Len(r))
<1>1. x \in Seq(Byte) /\ y \in Seq(Byte) /\ x \o y = r
  BY Cut
<1> HIDE DEF x, y
<1>2. w \o x \in Seq(Byte) /\ b \o w \in Seq(Byte)
  BY <1>1, Joined
<1>3. b \o (w \o x) = (b \o w) \o x
  BY <1>1, Associative, ZenonT(30)
<1>4. ((b \o w) \o x) \o y = (b \o w) \o (x \o y)
  <2> DEFINE bw == b \o w
  <2>1. bw \in Seq(Byte)
    BY <1>2
  <2> HIDE DEF bw
  <2>2. (bw \o x) \o y = bw \o (x \o y)
    BY <1>1, <2>1, Associative, ZenonT(30)
  <2> QED
    BY <2>2 DEF bw
<1>5. (b \o (w \o x)) \o y = (b \o w) \o r
  BY <1>1, <1>3, <1>4, ZenonT(30)
<1> QED
  BY <1>1, <1>2, <1>5, ZenonT(30) DEF x, y, Chain

(* What a read takes from the front of wire it puts at the end of buf. *)
LEMMA ReadFlow ==
    ASSUME NEW b \in Seq(Byte), NEW w \in Seq(Byte), NEW r \in Seq(Byte),
           NEW n \in 1 .. Len(w)
    PROVE  /\ b \o SubSeq(w, 1, n) \in Seq(Byte)
           /\ SubSeq(w, n + 1, Len(w)) \in Seq(Byte)
           /\ Chain(b \o SubSeq(w, 1, n), SubSeq(w, n + 1, Len(w)), r) = Chain(b, w, r)
<1> DEFINE x == SubSeq(w, 1, n)
           y == SubSeq(w, n + 1, Len(w))
<1>1. x \in Seq(Byte) /\ y \in Seq(Byte) /\ x \o y = w
  BY Cut
<1> HIDE DEF x, y
<1>2. b \o x \in Seq(Byte)
  BY <1>1, Joined
<1>3. (b \o x) \o y = b \o w
  BY <1>1, Associative, ZenonT(30)
<1> QED
  BY <1>1, <1>2, <1>3, ZenonT(30) DEF x, y, Chain

-----------------------------------------------------------------------------
LEMMA RequestData ==
    ASSUME NEW r \in Requests
    PROVE  /\ SerializeRequest(r) \in Seq(Byte)
           /\ Len(SerializeRequest(r)) < 256 * Power3
           /\ DeserializeRequest(SerializeRequest(r)) = r
           /\ r # Nullopt
<1>1. r \in WireRequest
  BY ConnectionAssumption
<1>2. /\ SerializeRequest(r) \in Seq(Byte)
      /\ Len(SerializeRequest(r)) = 9 + Len(r.key) + Len(r.value)
  BY <1>1, RequestLayout, Zenon
<1>3. Len(r.key) \in Nat /\ Len(r.value) \in Nat /\ Len(r.key) + Len(r.value) < 127 * Power3
  BY <1>1 DEF WireRequest, Short
<1>4. 9 + Len(r.key) + Len(r.value) < 256 * Power3
  <2>1. \A k, v \in Nat : k + v < 127 * Power3 => 9 + k + v < 256 * Power3
    BY SMT DEF Power3
  <2> QED
    BY <1>3, <2>1, ZenonT(30)
<1>5. r # Nullopt
  <2>1. DOMAIN r = {"command", "key", "value"}
    BY <1>1 DEF WireRequest
  <2>2. DOMAIN Nullopt = {"nullopt"}
    BY DEF Nullopt
  <2> QED
    BY <2>1, <2>2
<1> QED
  BY <1>1, <1>2, <1>4, <1>5, RequestRoundTrip

LEMMA ResponseData ==
    ASSUME NEW r \in Responses
    PROVE  /\ SerializeResponse(r) \in Seq(Byte)
           /\ Len(SerializeResponse(r)) < 256 * Power3
           /\ DeserializeResponse(SerializeResponse(r)) = r
           /\ r # Nullopt
<1>1. r \in WireResponse
  BY ConnectionAssumption
<1>2. /\ SerializeResponse(r) \in Seq(Byte)
      /\ Len(SerializeResponse(r)) = 5 + Len(r.value)
  BY <1>1, ResponseLayout, Zenon
<1>3. Len(r.value) \in Nat /\ Len(r.value) < 127 * Power3
  BY <1>1 DEF WireResponse, Short
<1>4. 5 + Len(r.value) < 256 * Power3
  BY <1>3, SMT DEF Power3
<1>5. r # Nullopt
  <2>1. DOMAIN r = {"status", "value"}
    BY <1>1 DEF WireResponse
  <2>2. DOMAIN Nullopt = {"nullopt"}
    BY DEF Nullopt
  <2> QED
    BY <2>1, <2>2
<1> QED
  BY <1>1, <1>2, <1>4, <1>5, ResponseRoundTrip

(* What is on its way and has been read to its end. *)
LEMMA Arrived ==
    ASSUME NEW data \in Seq(Byte), Len(data) < 256 * Power3,
           NEW b \in Seq(Byte), NEW w \in Seq(Byte), NEW r \in Seq(Byte),
           (b \o w) \o r = Frame(data),
           Len(b) >= 4, 4 + Decode(b, 1) - Len(b) = 0
    PROVE  w = <<>> /\ r = <<>> /\ SubSeq(b, 5, Len(b)) = data
<1> DEFINE t == w \o r
<1>1. t \in Seq(Byte)
  BY Joined
<1>2. b \o t = Frame(data)
  <2>1. (b \o w) \o r = b \o (w \o r)
    BY Associative, ZenonT(30)
  <2> QED
    BY <2>1
<1> HIDE DEF t
<1>3. Decode(b, 1) = Len(data)
  BY <1>1, <1>2, FrameLength
<1>4. Len(b) = 4 + Decode(b, 1)
  <2>1. Len(b) \in Nat /\ Len(data) \in Nat
    OBVIOUS
  <2> QED
    BY <1>3, <2>1
<1>5. t = <<>> /\ SubSeq(b, 5, Len(b)) = data
  BY <1>1, <1>2, <1>4, FrameComplete
<1>6. Len(w) = 0 /\ Len(r) = 0
  <2>1. Len(t) = Len(w) + Len(r)
    BY Joined DEF t
  <2>2. Len(t) = 0 /\ Len(w) \in Nat /\ Len(r) \in Nat
    BY <1>5
  <2>3. \A m, n \in Nat : m + n = 0 => m = 0 /\ n = 0
    OBVIOUS
  <2> QED
    BY <2>1, <2>2, <2>3
<1> QED
  BY <1>5, <1>6, EmptySeq

(* A side that needs no more bytes has the length and what it tells. *)
LEMMA NeedNone ==
    ASSUME NEW side, Len(buf[side]) \in Nat, Need(side) = 0
    PROVE  Len(buf[side]) >= 4 /\ 4 + Decode(buf[side], 1) - Len(buf[side]) = 0
<1> DEFINE n == Len(buf[side])
<1>1. CASE n < 4
  <2>1. 4 - n = 0
    BY <1>1 DEF Need
  <2>2. n \in Nat
    OBVIOUS
  <2> HIDE DEF n
  <2>3. FALSE
    BY <1>1, <2>1, <2>2
  <2> QED
    BY <2>3
<1>2. CASE ~(n < 4)
  <2>1. 4 + Decode(buf[side], 1) - n = 0
    BY <1>2 DEF Need
  <2>2. n >= 4
    <3>1. n \in Nat
      OBVIOUS
    <3> HIDE DEF n
    <3> QED
      BY <1>2, <3>1
  <2> QED
    BY <2>1, <2>2
<1> QED
  BY <1>1, <1>2

(* A request that readFrame returns is the one that was asked last. *)
LEMMA RequestArrived ==
    ASSUME IInv, Need("server") = 0
    PROVE  /\ Len(seen) < Len(asked)
           /\ DeserializeRequest(Body("server")) = asked[Len(asked)]
           /\ asked[Len(asked)] \in Requests
           /\ asked[Len(asked)] # Nullopt
           /\ wire["client"] = <<>> /\ rest["client"] = <<>>
<1> DEFINE b == buf["server"]
           w == wire["client"]
           r == rest["client"]
           last == asked[Len(asked)]
<1>1. b \in Seq(Byte) /\ w \in Seq(Byte) /\ r \in Seq(Byte)
  BY DEF IInv, TypeOK, Bytes, Side
<1>2. Len(b) >= 4 /\ 4 + Decode(b, 1) - Len(b) = 0
  <2>1. Len(b) \in Nat
    BY <1>1
  <2> QED
    BY <2>1, NeedNone
<1>3. Len(seen) < Len(asked)
  <2>1. b # <<>>
    BY <1>2
  <2>2. Peer("client") = "server"
    BY DEF Peer
  <2> QED
    BY <2>1, <2>2 DEF IInv, RequestFlow, Idle
<1>4. last \in Requests
  <2>1. asked \in Seq(Requests) /\ Len(seen) \in Nat /\ Len(asked) \in Nat
    BY DEF IInv, TypeOK
  <2>2. Len(asked) \in 1 .. Len(asked)
    BY <1>3, <2>1
  <2> QED
    BY <2>1, <2>2, ElementOfSeq
<1>5. (b \o w) \o r = Frame(SerializeRequest(last))
  BY <1>3 DEF IInv, RequestFlow, Flow, Chain, Peer
<1>6. /\ SerializeRequest(last) \in Seq(Byte)
      /\ Len(SerializeRequest(last)) < 256 * Power3
      /\ DeserializeRequest(SerializeRequest(last)) = last
      /\ last # Nullopt
  BY <1>4, RequestData
<1> HIDE DEF b, w, r, last
<1>7. w = <<>> /\ r = <<>> /\ SubSeq(b, 5, Len(b)) = SerializeRequest(last)
  BY <1>1, <1>2, <1>5, <1>6, Arrived
<1> QED
  BY <1>3, <1>4, <1>6, <1>7 DEF Body, b, w, r, last

(* A response that readFrame returns is the one that was given last. *)
LEMMA ResponseArrived ==
    ASSUME IInv, Need("client") = 0
    PROVE  /\ Len(got) < Len(replied)
           /\ DeserializeResponse(Body("client")) = replied[Len(replied)]
           /\ replied[Len(replied)] \in Responses
           /\ replied[Len(replied)] # Nullopt
           /\ wire["server"] = <<>> /\ rest["server"] = <<>>
<1> DEFINE b == buf["client"]
           w == wire["server"]
           r == rest["server"]
           last == replied[Len(replied)]
<1>1. b \in Seq(Byte) /\ w \in Seq(Byte) /\ r \in Seq(Byte)
  BY DEF IInv, TypeOK, Bytes, Side
<1>2. Len(b) >= 4 /\ 4 + Decode(b, 1) - Len(b) = 0
  <2>1. Len(b) \in Nat
    BY <1>1
  <2> QED
    BY <2>1, NeedNone
<1>3. Len(got) < Len(replied)
  <2>1. b # <<>>
    BY <1>2
  <2>2. Peer("server") = "client"
    BY DEF Peer
  <2> QED
    BY <2>1, <2>2 DEF IInv, ResponseFlow, Idle
<1>4. last \in Responses
  <2>1. replied \in Seq(Responses) /\ Len(got) \in Nat /\ Len(replied) \in Nat
    BY DEF IInv, TypeOK
  <2>2. Len(replied) \in 1 .. Len(replied)
    BY <1>3, <2>1
  <2> QED
    BY <2>1, <2>2, ElementOfSeq
<1>5. (b \o w) \o r = Frame(SerializeResponse(last))
  BY <1>3 DEF IInv, ResponseFlow, Flow, Chain, Peer
<1>6. /\ SerializeResponse(last) \in Seq(Byte)
      /\ Len(SerializeResponse(last)) < 256 * Power3
      /\ DeserializeResponse(SerializeResponse(last)) = last
      /\ last # Nullopt
  BY <1>4, ResponseData
<1> HIDE DEF b, w, r, last
<1>7. w = <<>> /\ r = <<>> /\ SubSeq(b, 5, Len(b)) = SerializeResponse(last)
  BY <1>1, <1>2, <1>5, <1>6, Arrived
<1> QED
  BY <1>3, <1>4, <1>6, <1>7 DEF Body, b, w, r, last

-----------------------------------------------------------------------------
(* The facts about the histories that the steps below use. *)
LEMMA Counts ==
    ASSUME IInv
    PROVE  /\ asked \in Seq(Requests) /\ seen \in Seq(Requests)
           /\ replied \in Seq(Responses) /\ got \in Seq(Responses)
           /\ Len(asked) \in Nat /\ Len(seen) \in Nat
           /\ Len(replied) \in Nat /\ Len(got) \in Nat
           /\ Len(got) <= Len(replied) /\ Len(replied) <= Len(seen)
           /\ Len(seen) <= Len(asked) /\ Len(asked) <= Len(got) + 1
BY DEF IInv, TypeOK, OneCall

LEMMA PeerFacts ==
    /\ Peer("client") = "server" /\ Peer("server") = "client"
    /\ "client" # "server" /\ Side = {"client", "server"}
BY DEF Peer, Side

(* A frame alone on its way. *)
LEMMA Alone ==
    ASSUME NEW f \in Seq(Byte)
    PROVE  (<<>> \o <<>>) \o f = f
<1>1. <<>> \in Seq(Byte)
  OBVIOUS
<1>2. <<>> \o <<>> = <<>>
  BY <1>1, ConcatEmptySeq
<1> QED
  BY <1>2, ConcatEmptySeq

LEMMA AskStep ==
    ASSUME IInv, NEW r \in Requests, Ask(r)
    PROVE  IInv' /\ E!Ask
<1> DEFINE f == Frame(SerializeRequest(r))
<1>1. f \in Seq(Byte)
  BY RequestData, FrameLayout
<1> HIDE DEF f
<1>2. /\ Len(asked) = Len(got) /\ Len(seen) = Len(asked) /\ Len(replied) = Len(got)
  <2>1. Len(asked) = Len(got)
    BY DEF Ask, IInv, Control
  <2> QED
    BY <2>1, Counts
<1>3. Idle("client") /\ Idle("server")
  <2>1. ~(Len(seen) < Len(asked)) /\ ~(Len(got) < Len(replied))
    BY <1>2, Counts
  <2> QED
    BY <2>1 DEF IInv, RequestFlow, ResponseFlow
<1>4. /\ asked' \in Seq(Requests) /\ Len(asked') = Len(asked) + 1
      /\ asked'[Len(asked')] = r
  <2>1. asked' = Append(asked, r)
    BY DEF Ask
  <2>2. asked' \in Seq(Requests) /\ Len(asked') = Len(asked) + 1 /\ asked'[Len(asked) + 1] = r
    BY <2>1, Counts, AppendProperties
  <2> QED
    BY <2>2
<1>5. /\ rest' = [rest EXCEPT !["client"] = f]
      /\ pc' = [pc EXCEPT !["client"] = "writing"]
      /\ wire' = wire /\ buf' = buf /\ gone' = gone
      /\ seen' = seen /\ replied' = replied /\ got' = got
  BY DEF Ask, f
<1>6. TypeOK'
  BY <1>1, <1>4, <1>5 DEF IInv, TypeOK, Bytes, Side
<1>7. /\ pc'["client"] = "writing" /\ pc'["server"] = pc["server"]
      /\ rest'["client"] = f /\ rest'["server"] = rest["server"]
  BY <1>5, PeerFacts DEF IInv, TypeOK
<1>8. OneCall'
  BY <1>2, <1>4, <1>5, Counts DEF OneCall
<1>9. RequestFlow'
  <2>1. Len(seen') < Len(asked')
    BY <1>2, <1>4, <1>5, Counts
  <2>2. Flow("client")' = (buf["server"] \o wire["client"]) \o f
    BY <1>5, <1>7, PeerFacts DEF Flow, Chain
  <2>3. Flow("client")' = f
    BY <1>1, <1>3, <2>2, Alone, PeerFacts DEF Idle
  <2> QED
    BY <1>4, <2>1, <2>3 DEF RequestFlow, f
<1>10. ResponseFlow'
  <2>1. ~(Len(got') < Len(replied'))
    BY <1>2, <1>5, Counts
  <2>2. Idle("server")'
    BY <1>3, <1>5, <1>7, PeerFacts DEF Idle
  <2> QED
    BY <2>1, <2>2 DEF ResponseFlow
<1>11. Control'
  BY <1>5, <1>7 DEF IInv, Control
<1>12. E!Ask
  BY <1>2, <1>5 DEF E!Ask, Ask
<1> QED
  BY <1>6, <1>8, <1>9, <1>10, <1>11, <1>12 DEF IInv

(* What a step that only moves bytes has to keep. *)
LEMMA MoveStep ==
    ASSUME IInv, TypeOK', Control', UNCHANGED history,
           \A side \in Side : Flow(side)' = Flow(side) /\ (Idle(side) => Idle(side)')
    PROVE  IInv'
<1>1. asked' = asked /\ seen' = seen /\ replied' = replied /\ got' = got
  BY DEF history
<1>2. RequestFlow'
  BY <1>1, PeerFacts DEF IInv, RequestFlow
<1>3. ResponseFlow'
  BY <1>1, PeerFacts DEF IInv, ResponseFlow
<1>4. OneCall'
  BY <1>1 DEF IInv, OneCall
<1> QED
  BY <1>2, <1>3, <1>4 DEF IInv

LEMMA WriteStep ==
    ASSUME IInv, NEW side \in Side, NEW n \in 1 .. Capacity, Write(side, n)
    PROVE  IInv' /\ UNCHANGED E!vars
<1> DEFINE b == buf[Peer(side)]
           w == wire[side]
           r == rest[side]
           ww == w \o SubSeq(r, 1, n)
           rr == SubSeq(r, n + 1, Len(r))
<1>1. b \in Seq(Byte) /\ w \in Seq(Byte) /\ r \in Seq(Byte)
  <2>1. Peer(side) \in Side
    BY PeerFacts
  <2> QED
    BY <2>1 DEF IInv, TypeOK, Bytes
<1>2. n \in 1 .. Len(r)
  <2>1. n <= Len(r) /\ Len(r) \in Nat
    BY <1>1 DEF Write
  <2>2. n \in Nat /\ n >= 1
    BY ConnectionAssumption
  <2> QED
    BY <2>1, <2>2
<1>3. ww \in Seq(Byte) /\ rr \in Seq(Byte) /\ Chain(b, ww, rr) = Chain(b, w, r)
  <2> HIDE DEF b, w, r
  <2> QED
    BY <1>1, <1>2, WriteFlow, Zenon
<1>4. /\ wire' = [wire EXCEPT ![side] = ww]
      /\ rest' = [rest EXCEPT ![side] = rr]
      /\ pc' = [pc EXCEPT ![side] = IF n = Len(rest[side]) THEN "reading" ELSE @]
      /\ pc[side] = "writing" /\ buf' = buf /\ gone' = gone /\ UNCHANGED history
  BY DEF Write
<1>5. r # <<>>
  BY <1>2
<1> HIDE DEF ww, rr
<1>6. TypeOK'
  BY <1>3, <1>4 DEF IInv, TypeOK, Bytes, history
<1>7. Control'
  <2>1. \A s \in Side : pc'[s] = pc[s] \/ pc'[s] \in {"reading", "writing"}
    BY <1>4 DEF IInv, TypeOK
  <2> QED
    BY <1>4, <2>1, PeerFacts DEF IInv, Control, history
<1>8. ASSUME NEW s \in Side
      PROVE  Flow(s)' = Flow(s) /\ (Idle(s) => Idle(s)')
  <2>1. CASE s = side
    <3>1. Flow(s)' = Chain(b, ww, rr)
      BY <1>4, <2>1 DEF Flow, IInv, TypeOK
    <3>2. Flow(s) = Chain(b, w, r)
      BY <2>1 DEF Flow
    <3>3. ~Idle(s)
      BY <1>5, <2>1 DEF Idle
    <3> QED
      BY <1>3, <3>1, <3>2, <3>3
  <2>2. CASE s # side
    <3>1. wire'[s] = wire[s] /\ rest'[s] = rest[s] /\ buf' = buf
      BY <1>4, <2>2 DEF IInv, TypeOK
    <3> QED
      BY <3>1 DEF Flow, Idle
  <2> QED
    BY <2>1, <2>2
<1>9. UNCHANGED E!vars
  BY <1>4 DEF E!vars, history
<1> QED
  BY <1>4, <1>6, <1>7, <1>8, <1>9, MoveStep

LEMMA ReadStep ==
    ASSUME IInv, NEW side \in Side, NEW n \in 1 .. Capacity, Read(side, n)
    PROVE  IInv' /\ UNCHANGED E!vars
<1> DEFINE from == Peer(side)
           b == buf[side]
           w == wire[from]
           r == rest[from]
           bb == b \o SubSeq(w, 1, n)
           ww == SubSeq(w, n + 1, Len(w))
<1>0. from \in Side /\ Peer(from) = side
  BY PeerFacts
<1> HIDE DEF from
<1>1. b \in Seq(Byte) /\ w \in Seq(Byte) /\ r \in Seq(Byte)
  BY <1>0 DEF IInv, TypeOK, Bytes
<1>2. n \in 1 .. Len(w)
  <2>1. n <= Len(w) /\ Len(w) \in Nat
    BY <1>1 DEF Read, from
  <2>2. n \in Nat /\ n >= 1
    BY ConnectionAssumption
  <2> QED
    BY <2>1, <2>2
<1>3. bb \in Seq(Byte) /\ ww \in Seq(Byte) /\ Chain(bb, ww, r) = Chain(b, w, r)
  <2> HIDE DEF b, w, r
  <2> QED
    BY <1>1, <1>2, ReadFlow, Zenon
<1>4. /\ buf' = [buf EXCEPT ![side] = bb]
      /\ wire' = [wire EXCEPT ![from] = ww]
      /\ pc' = pc /\ rest' = rest /\ gone' = gone /\ UNCHANGED history
  BY DEF Read, from
<1>5. w # <<>>
  BY <1>2
<1> HIDE DEF bb, ww
<1>6. TypeOK'
  BY <1>0, <1>3, <1>4 DEF IInv, TypeOK, Bytes, history
<1>7. Control'
  BY <1>4 DEF IInv, Control, history
<1>8. ASSUME NEW s \in Side
      PROVE  Flow(s)' = Flow(s) /\ (Idle(s) => Idle(s)')
  <2>1. CASE s = from
    <3>1. Flow(s)' = Chain(bb, ww, r)
      BY <1>0, <1>4, <2>1 DEF Flow, IInv, TypeOK
    <3>2. Flow(s) = Chain(b, w, r)
      BY <1>0, <2>1 DEF Flow
    <3>3. ~Idle(s)
      BY <1>5, <2>1 DEF Idle
    <3> QED
      BY <1>3, <3>1, <3>2, <3>3
  <2>2. CASE s # from
    <3>1. Peer(s) # side
      BY <1>0, <2>2, PeerFacts
    <3>2. wire'[s] = wire[s] /\ rest'[s] = rest[s] /\ buf'[Peer(s)] = buf[Peer(s)]
      BY <1>4, <2>2, <3>1, PeerFacts DEF IInv, TypeOK
    <3> QED
      BY <3>2 DEF Flow, Idle
  <2> QED
    BY <2>1, <2>2
<1>9. UNCHANGED E!vars
  BY <1>4 DEF E!vars, history
<1> QED
  BY <1>4, <1>6, <1>7, <1>8, <1>9, MoveStep

LEMMA HandleStep ==
    ASSUME IInv, Handle
    PROVE  IInv' /\ E!Handle
<1> DEFINE last == asked[Len(asked)]
<1>1. /\ Len(seen) < Len(asked)
      /\ DeserializeRequest(Body("server")) = last
      /\ last \in Requests /\ last # Nullopt
      /\ wire["client"] = <<>> /\ rest["client"] = <<>>
  BY RequestArrived DEF Handle
<1>2. /\ Len(asked) = Len(seen) + 1 /\ Len(replied) = Len(seen) /\ Len(got) = Len(seen)
  BY <1>1, Counts
<1>3. /\ buf' = [buf EXCEPT !["server"] = <<>>]
      /\ seen' = Append(seen, last)
      /\ pc' = [pc EXCEPT !["server"] = "handling"]
      /\ gone' = gone /\ "server" \notin gone /\ rest' = rest /\ wire' = wire
      /\ asked' = asked /\ replied' = replied /\ got' = got
  BY <1>1 DEF Handle
<1> HIDE DEF last
<1>4. seen' \in Seq(Requests) /\ Len(seen') = Len(seen) + 1
  BY <1>1, <1>3, Counts, AppendProperties
<1>5. TypeOK'
  BY <1>3, <1>4 DEF IInv, TypeOK, Bytes, Side
<1>6. OneCall'
  BY <1>2, <1>3, <1>4, Counts DEF OneCall
<1>7. /\ buf'["server"] = <<>> /\ buf'["client"] = buf["client"]
      /\ pc'["server"] = "handling" /\ pc'["client"] = pc["client"]
  BY <1>3, PeerFacts DEF IInv, TypeOK
<1>8. RequestFlow'
  <2>1. ~(Len(seen') < Len(asked'))
    BY <1>2, <1>3, <1>4, Counts
  <2>2. Idle("client")'
    BY <1>1, <1>3, <1>7, PeerFacts DEF Idle
  <2> QED
    BY <2>1, <2>2 DEF RequestFlow
<1>9. ResponseFlow'
  <2>1. Idle("server") => Idle("server")'
    BY <1>3, <1>7, PeerFacts DEF Idle
  <2>2. Flow("server")' = Flow("server")
    BY <1>3, <1>7, PeerFacts DEF Flow
  <2> QED
    BY <1>3, <2>1, <2>2 DEF IInv, ResponseFlow
<1>10. Control'
  <2>1. Len(replied') < Len(seen')
    BY <1>2, <1>3, <1>4, Counts
  <2> QED
    BY <1>3, <1>7, <2>1 DEF IInv, Control
<1>11. E!Handle
  BY <1>1, <1>2, <1>3 DEF E!Handle, last
<1> QED
  BY <1>5, <1>6, <1>8, <1>9, <1>10, <1>11 DEF IInv

LEMMA ReplyStep ==
    ASSUME IInv, NEW r \in Responses, Reply(r)
    PROVE  IInv' /\ E!Reply
<1> DEFINE f == Frame(SerializeResponse(r))
<1>1. f \in Seq(Byte)
  BY ResponseData, FrameLayout
<1> HIDE DEF f
<1>2. /\ Len(seen) = Len(replied) + 1 /\ Len(got) = Len(replied) /\ Len(asked) = Len(seen)
  <2>1. Len(replied) < Len(seen)
    BY DEF Reply, IInv, Control
  <2> QED
    BY <2>1, Counts
<1>3. Idle("client") /\ Idle("server")
  <2>1. ~(Len(seen) < Len(asked)) /\ ~(Len(got) < Len(replied))
    BY <1>2, Counts
  <2> QED
    BY <2>1 DEF IInv, RequestFlow, ResponseFlow
<1>4. /\ replied' \in Seq(Responses) /\ Len(replied') = Len(replied) + 1
      /\ replied'[Len(replied')] = r
  <2>1. replied' = Append(replied, r)
    BY DEF Reply
  <2>2. /\ replied' \in Seq(Responses) /\ Len(replied') = Len(replied) + 1
        /\ replied'[Len(replied) + 1] = r
    BY <2>1, Counts, AppendProperties
  <2> QED
    BY <2>2
<1>5. /\ rest' = [rest EXCEPT !["server"] = f]
      /\ pc' = [pc EXCEPT !["server"] = "writing"]
      /\ wire' = wire /\ buf' = buf /\ gone' = gone /\ "server" \notin gone
      /\ asked' = asked /\ seen' = seen /\ got' = got
  BY DEF Reply, f
<1>6. TypeOK'
  BY <1>1, <1>4, <1>5 DEF IInv, TypeOK, Bytes, Side
<1>7. /\ pc'["server"] = "writing" /\ pc'["client"] = pc["client"]
      /\ rest'["server"] = f /\ rest'["client"] = rest["client"]
  BY <1>5, PeerFacts DEF IInv, TypeOK
<1>8. OneCall'
  BY <1>2, <1>4, <1>5, Counts DEF OneCall
<1>9. ResponseFlow'
  <2>1. Len(got') < Len(replied')
    BY <1>2, <1>4, <1>5, Counts
  <2>2. Flow("server")' = (buf["client"] \o wire["server"]) \o f
    BY <1>5, <1>7, PeerFacts DEF Flow, Chain
  <2>3. Flow("server")' = f
    BY <1>1, <1>3, <2>2, Alone, PeerFacts DEF Idle
  <2> QED
    BY <1>4, <2>1, <2>3 DEF ResponseFlow, f
<1>10. RequestFlow'
  <2>1. ~(Len(seen') < Len(asked'))
    BY <1>2, <1>5, Counts
  <2>2. Idle("client")'
    BY <1>3, <1>5, <1>7, PeerFacts DEF Idle
  <2> QED
    BY <2>1, <2>2 DEF RequestFlow
<1>11. Control'
  BY <1>5, <1>7 DEF IInv, Control
<1>12. E!Reply
  <2>1. Len(replied) < Len(seen)
    BY <1>2, Counts
  <2> QED
    BY <1>5, <2>1 DEF E!Reply, Reply
<1> QED
  BY <1>6, <1>8, <1>9, <1>10, <1>11, <1>12 DEF IInv

LEMMA ReturnStep ==
    ASSUME IInv, Return
    PROVE  IInv' /\ E!Return
<1> DEFINE last == replied[Len(replied)]
<1>1. /\ Len(got) < Len(replied)
      /\ DeserializeResponse(Body("client")) = last
      /\ last \in Responses /\ last # Nullopt
      /\ wire["server"] = <<>> /\ rest["server"] = <<>>
  BY ResponseArrived DEF Return
<1>2. /\ Len(replied) = Len(got) + 1 /\ Len(seen) = Len(replied) /\ Len(asked) = Len(replied)
  BY <1>1, Counts
<1>3. /\ buf' = [buf EXCEPT !["client"] = <<>>]
      /\ got' = Append(got, last)
      /\ pc' = [pc EXCEPT !["client"] = "idle"]
      /\ gone' = gone /\ "client" \notin gone /\ rest' = rest /\ wire' = wire
      /\ asked' = asked /\ seen' = seen /\ replied' = replied
  BY <1>1 DEF Return
<1> HIDE DEF last
<1>4. got' \in Seq(Responses) /\ Len(got') = Len(got) + 1
  BY <1>1, <1>3, Counts, AppendProperties
<1>5. TypeOK'
  BY <1>3, <1>4 DEF IInv, TypeOK, Bytes, Side
<1>6. OneCall'
  BY <1>2, <1>3, <1>4, Counts DEF OneCall
<1>7. /\ buf'["client"] = <<>> /\ buf'["server"] = buf["server"]
      /\ pc'["client"] = "idle" /\ pc'["server"] = pc["server"]
  BY <1>3, PeerFacts DEF IInv, TypeOK
<1>8. ResponseFlow'
  <2>1. ~(Len(got') < Len(replied'))
    BY <1>2, <1>3, <1>4, Counts
  <2>2. Idle("server")'
    BY <1>1, <1>3, <1>7, PeerFacts DEF Idle
  <2> QED
    BY <2>1, <2>2 DEF ResponseFlow
<1>9. RequestFlow'
  <2>1. Idle("client") => Idle("client")'
    BY <1>3, <1>7, PeerFacts DEF Idle
  <2>2. Flow("client")' = Flow("client")
    BY <1>3, <1>7, PeerFacts DEF Flow
  <2> QED
    BY <1>3, <2>1, <2>2 DEF IInv, RequestFlow
<1>10. Control'
  <2>1. Len(asked') = Len(got')
    BY <1>2, <1>3, <1>4, Counts
  <2> QED
    BY <1>3, <1>7, <2>1 DEF IInv, Control
<1>11. E!Return
  BY <1>1, <1>2, <1>3 DEF E!Return, last
<1> QED
  BY <1>5, <1>6, <1>8, <1>9, <1>10, <1>11 DEF IInv

(* Closing an end leaves the other state alone. *)
LEMMA CloseStep ==
    ASSUME IInv, NEW side \in Side, side \notin gone,
           gone' = gone \cup {side}, UNCHANGED <<state, history>>
    PROVE  IInv' /\ E!Leave
<1>1. /\ pc' = pc /\ rest' = rest /\ wire' = wire /\ buf' = buf
      /\ asked' = asked /\ seen' = seen /\ replied' = replied /\ got' = got
  BY DEF state, history
<1>2. TypeOK'
  BY <1>1 DEF IInv, TypeOK
<1>3. IInv'
  BY <1>1, <1>2 DEF IInv, OneCall, RequestFlow, ResponseFlow, Flow, Idle, Control
<1>4. E!Leave
  BY <1>1 DEF E!Leave
<1> QED
  BY <1>3, <1>4

LEMMA InvariantInit ==
    Init => IInv
<1> SUFFICES ASSUME Init PROVE IInv
  OBVIOUS
<1>1. <<>> \in Seq(Byte) /\ <<>> \in Seq(Requests) /\ <<>> \in Seq(Responses)
  OBVIOUS
<1>2. TypeOK
  BY <1>1 DEF Init, TypeOK, Bytes, Side
<1>3. \A side \in Side : Idle(side)
  BY PeerFacts DEF Init, Idle
<1>4. Len(asked) = 0 /\ Len(seen) = 0 /\ Len(replied) = 0 /\ Len(got) = 0
  BY DEF Init
<1>5. OneCall
  BY <1>4 DEF OneCall
<1>6. RequestFlow /\ ResponseFlow
  BY <1>3, <1>4, PeerFacts DEF RequestFlow, ResponseFlow
<1>7. Control
  BY <1>4, PeerFacts DEF Init, Control
<1> QED
  BY <1>2, <1>5, <1>6, <1>7 DEF IInv

LEMMA InvariantStep ==
    ASSUME IInv, [Next]_vars
    PROVE  IInv' /\ [E!Next]_(E!vars)
<1>1. CASE UNCHANGED vars
  <2>1. /\ UNCHANGED <<pc, rest, wire, buf, gone>>
        /\ UNCHANGED <<asked, seen, replied, got>>
    BY <1>1 DEF vars, state, history
  <2>2. IInv'
    BY <2>1 DEF IInv, TypeOK, OneCall, RequestFlow, ResponseFlow, Flow, Idle, Control
  <2>3. UNCHANGED E!vars
    BY <2>1 DEF E!vars
  <2> QED
    BY <2>2, <2>3
<1>2. ASSUME NEW r \in Requests, Ask(r)
      PROVE  IInv' /\ E!Next
  BY <1>2, AskStep DEF E!Next
<1>3. ASSUME NEW side \in Side, Transfer(side)
      PROVE  IInv' /\ UNCHANGED E!vars
  BY <1>3, WriteStep, ReadStep DEF Transfer
<1>4. ASSUME NEW side \in Side, Leave(side) \/ LearnGone(side)
      PROVE  IInv' /\ E!Next
  BY <1>4, CloseStep DEF Leave, LearnGone, E!Next
<1>5. CASE Handle
  BY <1>5, HandleStep DEF E!Next
<1>6. CASE Answer
  BY <1>6, ReplyStep DEF Answer, E!Next
<1>7. CASE Return
  BY <1>7, ReturnStep DEF E!Next
<1>8. CASE Done
  BY <1>1, <1>8 DEF Done
<1> QED
  BY <1>1, <1>2, <1>3, <1>4, <1>5, <1>6, <1>7, <1>8 DEF Next

LEMMA Invariant ==
    Spec => []IInv
BY InvariantInit, InvariantStep, PTL DEF Spec

(* A connection does what Exchange says, whatever is asked and answered    *)
(* over it, however often, and however the kernel cuts the two streams of  *)
(* bytes: readFrame, writeFrame and the two pairs of conversions together  *)
(* hand over each request and each response whole, in order and once       *)
(* (protocol.cpp:10-132, tcp_connection.cpp:33-51).                        *)
THEOREM ConnectionIsExchange ==
    Spec => IsExchange
<1>1. Init => E!Init
  BY DEF Init, E!Init
<1> QED
  BY <1>1, Invariant, InvariantStep, PTL DEF Spec, IsExchange, E!Spec

(* Every variable of a connection always holds a value of its type: no     *)
(* read and no write leaves the bytes of its stream.                       *)
THEOREM ConnectionTypes ==
    Spec => []TypeOK
<1>1. IInv => TypeOK
  BY DEF IInv
<1> QED
  BY <1>1, Invariant, PTL

(* What readFrame returns is a whole frame, it parses, and nothing of the  *)
(* message is left to be taken for the next one (protocol.cpp:96-132).     *)
THEOREM FramesAlwaysParse ==
    Spec => []FramesParse
<1>1. IInv => FramesParse
  BY RequestArrived, ResponseArrived DEF IInv, FramesParse
<1> QED
  BY <1>1, Invariant, PTL
=============================================================================
