------------------------------ MODULE Protocol ------------------------------
(***************************************************************************)
(* The wire format of protocol.cpp: requests and responses as sequences of *)
(* bytes, and the frame, a four-byte length in network byte order before   *)
(* them.                                                                   *)
(***************************************************************************)
EXTENDS Naturals, Sequences

Byte == 0 .. 255

Power2 == 256 * 256

Power3 == 256 * 256 * 256

(* Messages of less than about two gigabytes.  A string longer than the    *)
(* 2^32 bytes that a length field counts would not survive the encoding;   *)
(* the store accepts values of up to 64 KB.                                *)
Short(n) == n < 127 * Power3

WireRequest ==
    {r \in [command : Byte, key : Seq(Byte), value : Seq(Byte)] :
        Short(Len(r.key) + Len(r.value))}

WireResponse ==
    {r \in [status : Byte, value : Seq(Byte)] : Short(Len(r.value))}

(* What deserializing returns for data it rejects: std::nullopt. *)
Nullopt == [nullopt |-> TRUE]

(* htonl, which counts modulo 2^32. *)
Encode(n) ==
    <<(n \div Power3) % 256, (n \div Power2) % 256, (n \div 256) % 256, n % 256>>

(* ntohl. *)
Number(a, b, c, d) == Power3 * a + Power2 * b + 256 * c + d

(* The number in the four bytes of s from position i on. *)
Decode(s, i) == Number(s[i], s[i + 1], s[i + 2], s[i + 3])

SerializeRequest(r) ==
    <<r.command>> \o Encode(Len(r.key)) \o r.key
                  \o Encode(Len(r.value)) \o r.value

(* Mutant: the key is cut one byte short. *)
DeserializeRequestShort(data) ==
    LET keyLen == Decode(data, 2)
        valLen == Decode(data, 6 + keyLen)
    IN  IF Len(data) < 9 + keyLen + valLen
        THEN Nullopt
        ELSE [command |-> data[1],
              key |-> SubSeq(data, 6, 4 + keyLen),
              value |-> SubSeq(data, 10 + keyLen, 9 + keyLen + valLen)]

(* Bytes behind the value are ignored, any command byte is accepted. *)
DeserializeRequest(data) ==
    LET keyLen == Decode(data, 2)
        valLen == Decode(data, 6 + keyLen)
    IN  IF \/ Len(data) < 9
           \/ Len(data) < 5 + keyLen + 4
           \/ Len(data) < 9 + keyLen + valLen
        THEN Nullopt
        ELSE [command |-> data[1],
              key |-> SubSeq(data, 6, 5 + keyLen),
              value |-> SubSeq(data, 10 + keyLen, 9 + keyLen + valLen)]

SerializeResponse(r) == <<r.status>> \o Encode(Len(r.value)) \o r.value

DeserializeResponse(data) ==
    LET valLen == Decode(data, 2)
    IN  IF Len(data) < 5 \/ Len(data) < 5 + valLen
        THEN Nullopt
        ELSE [status |-> data[1], value |-> SubSeq(data, 6, 5 + valLen)]

Frame(data) == Encode(Len(data)) \o data
=============================================================================
