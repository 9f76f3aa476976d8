------------------------------- MODULE Codec -------------------------------
(***************************************************************************)
(* The packets of mqttc++: CMqttPkt, a cursor over the bytes of a packet,  *)
(* and the encode() and decode() of the messages that a broker gets.       *)
(*                                                                         *)
(* A byte is a number below 2 * Base; Base is its continuation bit in a    *)
(* length field (128 in the code).  The fixed header is the message type:  *)
(* the flags next to it are read by no decode().  A message is its type    *)
(* and its fields in the order of the packet; each field is a sequence, of *)
(* the characters of a string or payload, or of one number.                *)
(***************************************************************************)
EXTENDS Integers, Sequences, FiniteSets, FiniteSetsExt, SequencesExt

CONSTANTS
    Bits,     \* the value bits of a length byte, 7 in the code
    Char,     \* the character of the strings and payloads of clients
    Flags,    \* the flags of their CONNECTs
    Payloads  \* the lengths of the payloads of their PUBLISHs

Base == 2 ^ Bits
Byte == 0 .. 2 * Base - 1
MAX_REMAIN_LENGTH_BYTES == 4

ASSUME ByteAssumption == Bits \in Nat /\ Bits > 2 /\ Char \in Byte
ASSUME FieldAssumption == Flags \subseteq 0 .. 15 /\ Payloads \subseteq Nat

(* MqttType *)
Code == [CONNECT |-> 1, PUBLISH |-> 3, PUBACK |-> 4, SUBSCRIBE |-> 8, UNSUBSCRIBE |-> 10]

(* ConnectFlag: clean_session is bit 0, the others ask for these strings   *)
(* after the client id: topic and message of a will, password, user name.  *)
Bit(n, flag) == (flag \div 2 ^ n) % 2
Optional(flag) == 2 * Bit(1, flag) + Bit(2, flag) + Bit(3, flag)

Message ==
    LET text(n) == [j \in 1 .. n |-> Char]
        msg(type, fields) == [type |-> type, fields |-> fields]
        version == <<3>>
        keep_alive == <<60 % (2 * Base) ^ 2>>
        msg_id == <<2 * Base + 1>>
    IN  {msg("CONNECT", <<text(1), version, <<flag>>, keep_alive, text(n)>> \o
                [j \in 1 .. Optional(flag) |-> text(1)]) : flag \in Flags, n \in 0 .. 1}
        \cup {msg("PUBLISH", <<text(1), msg_id, text(n)>>) : n \in Payloads}
        \cup {msg("PUBACK", <<msg_id>>)}
        \cup {msg("SUBSCRIBE", <<msg_id>> \o [j \in 1 .. 2 * n |-> <<Char>>]) : n \in 1 .. 2}
        \cup {msg("UNSUBSCRIBE", <<msg_id>> \o [j \in 1 .. n |-> <<Char>>]) : n \in 1 .. 2}

-----------------------------------------------------------------------------
(* The number of bytes of an encoded length.                               *)
Digits(n) == Min({k \in 1 .. MAX_REMAIN_LENGTH_BYTES : n < Base ^ k})

(* Least significant digit first, the continuation bit on all but the last.*)
write_remain_length(n) ==
    [j \in 1 .. Digits(n) |->
        ((n \div Base ^ (j - 1)) % Base) + (IF j < Digits(n) THEN Base ELSE 0)]

write_short(n) == <<(n \div (2 * Base)) % (2 * Base), n % (2 * Base)>>

write_string(s) == write_short(Len(s)) \o s

write_strings(ss) == FlattenSeq([j \in DOMAIN ss |-> write_string(ss[j])])

(* The length of strings, each with its own length.                        *)
StringsLength(ss) == Len(ss) * 2 + MapThenSumSet(LAMBDA j : Len(ss[j]), DOMAIN ss)

(* The client id and the strings that the flags announce.  (encode() knows *)
(* no flag but clean_session.)                                             *)
encode_connect(f) ==
    LET strings == SubSeq(f, 5, Len(f)) IN
    [length |-> 2 + Len(f[1]) + 1 + 1 + 2 + StringsLength(strings),
     body |-> write_string(f[1]) \o f[2] \o f[3] \o write_short(f[4][1]) \o write_strings(strings)]

encode_publish(f) ==
    [length |-> Len(f[1]) + 2 + 2 + Len(f[3]),
     body |-> write_string(f[1]) \o write_short(f[2][1]) \o f[3]]

encode_puback(f) == [length |-> 2, body |-> write_short(f[1][1])]

(* Topics, each with its QoS.                                              *)
encode_subscribe(f) ==
    LET topic(j) == f[2 * j]
        n == Len(f) \div 2
    IN  [length |-> MapThenSumSet(LAMBDA j : Len(topic(j)) + 2 + 1, 1 .. n) + 2,
         body |-> write_short(f[1][1]) \o
                  FlattenSeq([j \in 1 .. n |-> write_string(topic(j)) \o f[2 * j + 1]])]

encode_unsubscribe(f) ==
    [length |-> 2 + StringsLength(Tail(f)), body |-> write_short(f[1][1]) \o write_strings(Tail(f))]

(* m_remain_length_value is counted before the body is written.            *)
Encoded(m) ==
    CASE m.type = "CONNECT" -> encode_connect(m.fields)
      [] m.type = "PUBLISH" -> encode_publish(m.fields)
      [] m.type = "PUBACK" -> encode_puback(m.fields)
      [] m.type = "SUBSCRIBE" -> encode_subscribe(m.fields)
      [] m.type = "UNSUBSCRIBE" -> encode_unsubscribe(m.fields)

encode(m) == <<Code[m.type]>> \o write_remain_length(Encoded(m).length) \o Encoded(m).body

-----------------------------------------------------------------------------
(* The bitwise or of a set of numbers of Bits bits.                        *)
Or(S) == MapThenSumSet(LAMBDA b : 2 ^ b, {b \in 0 .. Bits - 1 : \E d \in S : (d \div 2 ^ b) % 2 = 1})

(* Every length byte after the first is shifted by Bits, whatever its      *)
(* place.                                                                  *)
Value(digits) == (digits[1] % Base) + Base * Or({digits[j] % Base : j \in 2 .. Len(digits)})

(* CMqttPkt: the packet, m_offset, the fields that were read, and whether  *)
(* the last read has failed; after a failure nothing more is read.         *)
Pkt(bytes, offset) == [buf |-> bytes, offset |-> offset, fields |-> <<>>, ok |-> TRUE]

left_size(p) == Len(p.buf) - p.offset

Took(p, n, field) ==
    IF p.ok /\ left_size(p) >= n
    THEN [p EXCEPT !.offset = @ + n, !.fields = Append(@, field)]
    ELSE [p EXCEPT !.ok = FALSE]

ShortAt(p) == p.buf[p.offset + 1] * 2 * Base + p.buf[p.offset + 2]

read_bytes(p, n) == Took(p, n, SubSeq(p.buf, p.offset + 1, p.offset + n))
read_byte(p) == read_bytes(p, 1)
read_short(p) == IF left_size(p) < 2 THEN [p EXCEPT !.ok = FALSE] ELSE Took(p, 2, <<ShortAt(p)>>)

read_string(p) ==
    IF ~p.ok \/ left_size(p) < 2 THEN [p EXCEPT !.ok = FALSE]
    ELSE LET n == ShortAt(p)
             skipped == [p EXCEPT !.offset = @ + 2]
         IN  read_bytes(skipped, n)

(* Topics, with a QoS in SUBSCRIBE, while there are any: one that cannot be *)
(* read to its end is left out, and is no failure.                         *)
RECURSIVE read_topics(_, _)
read_topics(p, qos) ==
    LET next == IF qos THEN read_byte(read_string(p)) ELSE read_string(p) IN
    IF next.ok THEN read_topics(next, qos) ELSE p

RECURSIVE read_strings(_, _)
read_strings(p, n) == IF n = 0 THEN p ELSE read_strings(read_string(p), n - 1)

(* Mutant: the strings that the flags announce are not read.               *)
decode_connect_NoOptions(p) == read_string(read_short(read_byte(read_byte(read_string(p)))))

decode_connect(p) ==
    LET client_id == read_string(read_short(read_byte(read_byte(read_string(p))))) IN
    IF client_id.ok THEN read_strings(client_id, Optional(client_id.fields[3][1])) ELSE client_id

decode_publish(p) ==
    LET msg_id == read_short(read_string(p)) IN
    IF msg_id.ok THEN read_bytes(msg_id, left_size(msg_id)) ELSE msg_id

decode_subscribe(p) ==
    LET msg_id == read_short(p) IN
    IF msg_id.ok THEN read_topics(msg_id, TRUE) ELSE msg_id

decode_unsubscribe(p) ==
    LET msg_id == read_short(p) IN
    IF msg_id.ok THEN read_topics(msg_id, FALSE) ELSE msg_id

decode_puback(p) == read_short(p)

(* What decode() makes of the body of a packet of a type.                  *)
Decoded(type, p) ==
    CASE type = "CONNECT" -> decode_connect(p)
      [] type = "PUBLISH" -> decode_publish(p)
      [] type = "PUBACK" -> decode_puback(p)
      [] type = "SUBSCRIBE" -> decode_subscribe(p)
      [] type = "UNSUBSCRIBE" -> decode_unsubscribe(p)

Undecoded == [type |-> "none", fields |-> <<>>]

(* decode() of the message class that process() chooses by the type: the   *)
(* fixed header, a length that fits, and the body.                         *)
decode(bytes) ==
    LET types == {t \in DOMAIN Code : Code[t] = bytes[1]}
        last == {k \in 1 .. MAX_REMAIN_LENGTH_BYTES : k < Len(bytes) /\ bytes[k + 1] < Base}
        k == Min(last)
        type == CHOOSE t \in types : TRUE
        p == Decoded(type, Pkt(bytes, k + 1))
    IN  IF \/ types = {} \/ Len(bytes) < 3 \/ last = {}
           \/ Value(SubSeq(bytes, 2, k + 1)) + k + 1 > Len(bytes)
           \/ ~p.ok
        THEN Undecoded
        ELSE [type |-> type, fields |-> p.fields]
=============================================================================
