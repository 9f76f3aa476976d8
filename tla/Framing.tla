------------------------------ MODULE Framing ------------------------------
(***************************************************************************)
(* How CMqttConnection cuts the bytes of a TCP stream into MQTT packets:   *)
(* handle_input() reads what the kernel has behind what is left in         *)
(* m_recv_buffer, and process_mqtt() splits the buffer with the help of    *)
(* remain_length().                                                        *)
(*                                                                         *)
(* The stream is that of a client that connects first.  The buffer keeps   *)
(* stale bytes beyond m_cur_buf_pos, and remain_length() looks at them.    *)
(***************************************************************************)
EXTENDS Codec

CONSTANTS
    BufSize,    \* MAX_BUF_SIZE, 4096 in the code
    Garbage,    \* the bytes of a buffer that was never written
    MaxPackets  \* bound: packets the client sends

ASSUME BufAssumption == BufSize \in Nat \ {0} /\ MaxPackets \in Nat /\ Garbage \subseteq Byte

VARIABLES
    sent,    \* the messages of the client
    stream,  \* their bytes
    got,     \* how many of these have been read
    buffer,  \* m_recv_buffer
    pos,     \* m_cur_buf_pos
    offset,  \* offset of process_mqtt()
    handled, \* history: what was handed to process(), as bytes
    state    \* "read", "split" inside process_mqtt(), or why it was closed

client == <<sent, stream>>
vars == <<client, got, buffer, pos, offset, handled, state>>

-----------------------------------------------------------------------------
(* A byte of the buffer, counted from 0.  What follows the buffer in the   *)
(* object is m_cur_buf_pos, least significant byte first.                  *)
At(i) == IF i < BufSize THEN buffer[i + 1] ELSE (pos \div (2 * Base) ^ (i - BufSize)) % (2 * Base)

FAILTURE == -1
NEED_MORE_DATA == -2

(* Mutant: lengths of several bytes are not understood.                    *)
LastByte_One(o) == {k \in 1 .. 1 : At(o + k) < Base}

(* The length bytes found behind the fixed header at offset o: those up to *)
(* the first without the continuation bit.                                 *)
LastByte(o) == {k \in 1 .. MAX_REMAIN_LENGTH_BYTES : At(o + k) < Base}

(* The length of the packet with its fixed header.                         *)
Total(o) == LET k == Min(LastByte(o)) IN Value([j \in 1 .. k |-> At(o + j)]) + k + 1

(* remain_length(), called with the bytes from offset o to the end of the  *)
(* data.  It returns what was found, or how long the packet is.            *)
remain_length(o) ==
    IF LastByte(o) = {} THEN FAILTURE
    ELSE IF Total(o) > pos - o THEN NEED_MORE_DATA
    ELSE Total(o)

-----------------------------------------------------------------------------
(* m_recv_buffer is not initialised.                                       *)
Init ==
    /\ sent \in UNION {[1 .. n -> Message] : n \in 1 .. MaxPackets}
    /\ \A i \in DOMAIN sent : i = 1 <=> sent[i].type = "CONNECT"
    /\ stream = FlattenSeq([i \in DOMAIN sent |-> encode(sent[i])])
    /\ \E garbage \in Garbage : buffer = [i \in 1 .. BufSize |-> garbage]
    /\ got = 0 /\ pos = 0 /\ offset = 0 /\ handled = <<>> /\ state = "read"

(* Mutant: the room in the buffer is one byte too large.                   *)
Read_OneTooMany(n) ==
    /\ state = "read" /\ n \in 1 .. BufSize - pos + 1 /\ got + n <= Len(stream)
    /\ buffer' = [i \in 1 .. BufSize |-> IF i \in pos + 1 .. pos + n THEN stream[got + i - pos] ELSE buffer[i]]
    /\ pos' = pos + n /\ got' = got + n
    /\ offset' = 0 /\ state' = "split"
    /\ UNCHANGED <<client, handled>>

(* handle_input(): the kernel gives n bytes, the buffer has room for them. *)
Read(n) ==
    /\ state = "read" /\ n \in 1 .. BufSize - pos /\ got + n <= Len(stream)
    /\ buffer' = [i \in 1 .. BufSize |-> IF i \in pos + 1 .. pos + n THEN stream[got + i - pos] ELSE buffer[i]]
    /\ pos' = pos + n /\ got' = got + n
    /\ offset' = 0 /\ state' = "split"
    /\ UNCHANGED <<client, handled>>

(* Mutant: a full buffer is waited on like an empty socket.                *)
ReadFull_Waits ==
    /\ state = "read" /\ pos = BufSize /\ got < Len(stream)
    /\ UNCHANGED vars

(* read() with no room left returns 0, which is taken for the end of the   *)
(* stream.                                                                 *)
ReadFull ==
    /\ state = "read" /\ pos = BufSize /\ got < Len(stream)
    /\ state' = "full"
    /\ UNCHANGED <<client, got, buffer, pos, offset, handled>>

(* The peer closes, or the connection breaks.                              *)
Hangup ==
    /\ state = "read" /\ state' = "hangup"
    /\ UNCHANGED <<client, got, buffer, pos, offset, handled>>

(* One turn of the loop in process_mqtt(): a whole packet is processed.    *)
(* (PUBLISH also puts a new id into these bytes, which nobody reads again  *)
(* but as stale ones.)                                                     *)
Process ==
    /\ state = "split" /\ offset < pos /\ remain_length(offset) > 0
    /\ handled' = Append(handled, SubSeq(buffer, offset + 1, offset + Total(offset)))
    /\ \/ offset' = offset + Total(offset) /\ UNCHANGED state
       \/ state' = "refused" /\ UNCHANGED offset
    /\ UNCHANGED <<client, got, buffer, pos>>

(* Mutant: the rest of the data stays where it is.                         *)
NeedMore_NoMove ==
    /\ state = "split" /\ offset < pos /\ remain_length(offset) = NEED_MORE_DATA
    /\ pos' = pos - offset
    /\ state' = "read"
    /\ UNCHANGED <<client, got, buffer, offset, handled>>

(* The rest of the data is moved to the front of the buffer.               *)
NeedMore ==
    /\ state = "split" /\ offset < pos /\ remain_length(offset) = NEED_MORE_DATA
    /\ buffer' = [i \in 1 .. BufSize |-> IF i <= pos - offset THEN buffer[offset + i] ELSE buffer[i]]
    /\ pos' = pos - offset
    /\ state' = "read"
    /\ UNCHANGED <<client, got, offset, handled>>

Malformed ==
    /\ state = "split" /\ offset < pos /\ remain_length(offset) = FAILTURE
    /\ state' = "failed"
    /\ UNCHANGED <<client, got, buffer, pos, offset, handled>>

(* Mutant: m_cur_buf_pos is not reset.                                     *)
AllDealt_NoReset ==
    /\ state = "split" /\ offset = pos
    /\ state' = "read"
    /\ UNCHANGED <<client, got, buffer, pos, offset, handled>>

(* All packets have been dealt with.                                       *)
AllDealt ==
    /\ state = "split" /\ offset = pos
    /\ pos' = 0 /\ state' = "read"
    /\ UNCHANGED <<client, got, buffer, offset, handled>>

Input == ReadFull \/ \E n \in 1 .. BufSize : Read(n)
Split == Process \/ NeedMore \/ Malformed \/ AllDealt
Next == Input \/ Split \/ Hangup

(* The level-triggered poller calls handle_input() while there are bytes.  *)
Spec == Init /\ [][Next]_vars /\ WF_vars(Input) /\ WF_vars(Split)

-----------------------------------------------------------------------------
TypeOK ==
    /\ got \in 0 .. Len(stream)
    /\ buffer \in [1 .. BufSize -> Byte]
    /\ pos \in 0 .. BufSize /\ offset \in 0 .. BufSize
    /\ handled \in Seq(Seq(Byte))
    /\ state \in {"read", "split", "full", "hangup", "refused", "failed"}

(* However TCP cuts the stream into pieces, process() is called with the   *)
(* packets of the client, whole, in order, none twice and none skipped.    *)
HandledArePackets ==
    /\ Len(handled) <= Len(sent)
    /\ \A i \in DOMAIN handled : handled[i] = encode(sent[i])

(* What decode() makes of them are the messages of the client, field by    *)
(* field: encoder, length, splitting and decoder agree.                    *)
DecodedAreMessages == \A i \in DOMAIN handled : decode(handled[i]) = sent[i]

(* Between two reads the buffer holds less than one packet: what has come  *)
(* in completely has been processed, it does not wait for more input.      *)
NoPacketWaits ==
    state = "read" =>
        \/ Len(handled) = Len(sent) /\ pos = 0
        \/ Len(handled) < Len(sent) /\ pos < Len(encode(sent[Len(handled) + 1]))

(* Every packet is processed in the end, or the connection is closed; a    *)
(* packet that the buffer cannot hold does not leave it hanging.           *)
Settled == <>(Len(handled) = Len(sent) \/ state \notin {"read", "split"})

(* A stream of well-formed packets is refused only when a read has ended   *)
(* inside a fixed header, so that remain_length() looked at stale bytes.   *)
FailedOnlyInHeader ==
    state = "failed" => pos - offset <= Digits(Encoded(sent[Len(handled) + 1]).length)
=============================================================================
