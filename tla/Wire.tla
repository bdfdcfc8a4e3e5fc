-------------------------------- MODULE Wire --------------------------------
(***************************************************************************)
(* What the two ends of a connection write and read (DataWriter,           *)
(* DataReader, Message and the nine kinds of message).  A write task turns *)
(* messages into bytes; the bytes arrive in pieces of any size; a read     *)
(* task asks the stream for a few at a time, and the bytes it has read     *)
(* tell it what to ask for next.                                           *)
(*                                                                         *)
(* The reader is a machine: plan holds the reads still to be made for the  *)
(* message at hand, tokens the values made of those that are done.  A      *)
(* string is its bytes, which a library encodes and decodes.               *)
(***************************************************************************)
EXTENDS Integers, SequencesExt, FiniteSets

CONSTANTS
    Messages,       \* the messages that may be written
    MessageBound,   \* bounds how many are
    GuidBytes,      \* the width of a Guid, 16
    Null            \* no value

-----------------------------------------------------------------------------
(* Integers: four bytes, the highest first, in two's complement.           *)

Byte == 0..255
MaxInt == 2147483647
Int32 == (-MaxInt - 1)..MaxInt

\* Without the mask and the cast to a byte.
BytesOfInt_Uncut(n) == <<n \div 16777216, n \div 65536, n \div 256, n>>
BytesOfInt(n) ==
    <<(n \div 16777216) % 256, (n \div 65536) % 256, (n \div 256) % 256, n % 256>>

\* The highest byte is shifted into the sign.
IntOfBytes_Unsigned(bytes) ==
    (bytes[1] % 128) * 16777216 + bytes[2] * 65536 + bytes[3] * 256 + bytes[4]
IntOfBytes(bytes) ==
    (IF bytes[1] < 128 THEN bytes[1] ELSE bytes[1] - 256) * 16777216
        + bytes[2] * 65536 + bytes[3] * 256 + bytes[4]

-----------------------------------------------------------------------------
(* Messages: a type and the values of its fields, in the order in which    *)
(* both the writer and the reader of that type take them.                  *)

Fields == <<
    <<"string", "string", "string", "packets">>,                              \* MulticastData
    <<"guid", "string", "string", "string", "packets">>,                      \* UnicastData
    <<"string", "string", "guid", "string", "string", "boolean">>,            \* ForwardedSubscriptionRequest
    <<"string", "boolean">>,                                                  \* NotificationRequest
    <<"string", "string", "boolean">>,                                        \* SubscriptionRequest
    <<"guid", "string", "string", "string", "string">>,                       \* AuthorizationRequest
    <<"guid", "string", "string", "boolean", "set">>,                         \* AuthorizationResponse
    <<"string", "string", "string", "string", "string", "packets">>,          \* ForwardedMulticastData
    <<"string", "string", "guid", "string", "string", "string", "packets">> >> \* ForwardedUnicastData

\* The values of a field.  A string stands for its bytes.
ByteArrays == {bytes \in Seq(Byte) : Len(bytes) <= MaxInt}
IntSets == {set \in SUBSET Int32 : Cardinality(set) <= MaxInt}
Packets == [entitlements : {Null} \cup IntSets, data : {Null} \cup ByteArrays]
FieldValues(kind) ==
    CASE kind = "boolean" -> BOOLEAN
      [] kind = "guid" -> {bytes \in Seq(Byte) : Len(bytes) = GuidBytes}
      [] kind = "string" -> {Null} \cup ByteArrays
      [] kind = "set" -> {Null} \cup IntSets
      [] kind = "packets" -> {Null} \cup {packets \in Seq(Packets) : Len(packets) <= MaxInt}

ASSUME ConstantsAssumption ==
    /\ MessageBound \in Nat
    /\ GuidBytes \in Nat \ {0}
    /\ \A m \in Messages :
        /\ m.type \in DOMAIN Fields
        /\ DOMAIN m.body = DOMAIN Fields[m.type]
        /\ \A i \in DOMAIN m.body : m.body[i] \in FieldValues(Fields[m.type][i])

-----------------------------------------------------------------------------
(* The writer.                                                             *)

\* A null is written as a count of 0.
WriteBytes(bytes) == IF bytes = Null THEN BytesOfInt(0) ELSE BytesOfInt(Len(bytes)) \o bytes
WriteSet(set) ==
    IF set = Null THEN BytesOfInt(0)
    ELSE LET members == SetToSeq(set)
         IN  BytesOfInt(Len(members)) \o FlattenSeq([i \in DOMAIN members |-> BytesOfInt(members[i])])
WritePackets(packets) ==
    IF packets = Null THEN BytesOfInt(0)
    ELSE BytesOfInt(Len(packets)) \o FlattenSeq([i \in DOMAIN packets |->
            WriteSet(packets[i].entitlements) \o WriteBytes(packets[i].data)])

WriteField(kind, value) ==
    CASE kind = "boolean" -> <<IF value THEN 1 ELSE 0>>
      [] kind = "guid" -> value
      [] kind = "string" -> WriteBytes(value)
      [] kind = "set" -> WriteSet(value)
      [] kind = "packets" -> WritePackets(value)

WriteMessage(m) ==
    <<m.type>> \o FlattenSeq([i \in DOMAIN m.body |-> WriteField(Fields[m.type][i], m.body[i])])

VARIABLES
    written,    \* the messages handed to the writer
    outgoing,   \* the bytes of the last of them that have not been sent
    pipe,       \* the bytes that have arrived and have not been read
    ended,      \* the writer has closed its end
    cut,        \* it did so in the middle of a message
    plan,       \* the reads still to be made for the message at hand
    tokens,     \* the values read for it
    buf,        \* the bytes ReadFully has for the read at hand
    heard,      \* the messages read
    reader      \* "reading", or "closed": EndOfStreamException was thrown

sender == <<written, outgoing, ended, cut>>
vars == <<sender, pipe, plan, tokens, buf, heard, reader>>

TypeOK ==
    /\ written \in Seq(Messages)
    /\ outgoing \in Seq(Byte) /\ pipe \in Seq(Byte) /\ buf \in Seq(Byte)
    /\ ended \in BOOLEAN /\ cut \in BOOLEAN
    /\ ended => outgoing = <<>>
    /\ plan # <<>> => Len(buf) < Head(plan)[2]
    /\ plan = <<>> => buf = <<>> /\ tokens = <<>>
    /\ reader \in {"reading", "closed"}

Init ==
    /\ written = <<>> /\ outgoing = <<>> /\ pipe = <<>>
    /\ ended = FALSE /\ cut = FALSE
    /\ plan = <<>> /\ tokens = <<>> /\ buf = <<>> /\ heard = <<>>
    /\ reader = "reading"

-----------------------------------------------------------------------------
(* The writer's end, and the connection.                                   *)

Write(m) ==
    /\ ~ended /\ outgoing = <<>> /\ Len(written) < MessageBound
    /\ written' = Append(written, m)
    /\ outgoing' = WriteMessage(m)
    /\ UNCHANGED <<ended, cut, pipe, plan, tokens, buf, heard, reader>>

Transmit ==
    /\ outgoing # <<>>
    /\ pipe' = Append(pipe, Head(outgoing))
    /\ outgoing' = Tail(outgoing)
    /\ UNCHANGED <<written, ended, cut, plan, tokens, buf, heard, reader>>

\* The writer goes; what it has not sent is lost.
Close ==
    /\ ~ended
    /\ ended' = TRUE
    /\ cut' = (outgoing # <<>>)
    /\ outgoing' = <<>>
    /\ UNCHANGED <<written, pipe, plan, tokens, buf, heard, reader>>

-----------------------------------------------------------------------------
(* The reader.  A read is <<what, how many bytes>>.                        *)

\* What a field begins with: strings, sets and packets with their count.
ReadField(kind) ==
    CASE kind = "boolean" -> <<"boolean", 1>>
      [] kind = "guid" -> <<"bytes", GuidBytes>>
      [] OTHER -> <<kind, 4>>

ReadPacket == <<ReadField("set"), ReadField("data")>>
Repeat(reads, n) == FlattenSeq([i \in 1..n |-> reads])

\* The reads that a count asks for, and the values it gives at once.
AfterCount(what, n) ==
    CASE what = "string" -> [reads |-> IF n = 0 THEN <<>> ELSE <<<<"bytes", n>>>>,
                             values |-> IF n = 0 THEN <<<<>>>> ELSE <<>>]
      [] what = "data" -> [reads |-> IF n = 0 THEN <<>> ELSE <<<<"bytes", n>>>>,
                           values |-> IF n = 0 THEN <<Null>> ELSE <<>>]
      [] what = "set" -> [reads |-> Repeat(<<<<"member", 4>>>>, n),
                          values |-> IF n = 0 THEN <<Null>> ELSE <<{}>>]
      [] what = "packets" -> [reads |-> Repeat(ReadPacket, n),
                              values |-> IF n = 0 THEN <<Null>> ELSE <<n>>]

\* What a read asks for when it has got its bytes, and the values after it.
AfterRead(what, bytes, values) ==
    CASE what = "bytes" -> [reads |-> <<>>, values |-> Append(values, bytes)]
      [] what = "boolean" -> [reads |-> <<>>, values |-> Append(values, bytes[1] # 0)]
      [] what = "member" -> [reads |-> <<>>, values |->
                [values EXCEPT ![Len(values)] = @ \cup {IntOfBytes(bytes)}]]
      [] OTHER -> LET after == AfterCount(what, IntOfBytes(bytes))
                  IN  [reads |-> after.reads, values |-> values \o after.values]

\* A read has got its bytes; the last read of a message gives the message.
Complete(what, bytes) ==
    LET next == AfterRead(what, bytes, tokens)
        rest == next.reads \o Tail(plan)
    IN  /\ buf' = <<>>
        /\ plan' = rest
        /\ IF rest = <<>>
           THEN heard' = Append(heard, next.values) /\ tokens' = <<>>
           ELSE tokens' = next.values /\ UNCHANGED heard

\* A type that is read as ReadFully reads.
ReadHeader_Fully ==
    /\ reader = "reading" /\ plan = <<>> /\ pipe # <<>>
    /\ plan' = [i \in DOMAIN Fields[Head(pipe)] |-> ReadField(Fields[Head(pipe)][i])]
    /\ tokens' = <<Head(pipe)>>
    /\ pipe' = Tail(pipe)
    /\ UNCHANGED <<sender, buf, heard, reader>>

\* Message.Read: ReadByte for the type throws at the end of the stream.
ReadHeader ==
    /\ reader = "reading" /\ plan = <<>>
    /\ \/ /\ pipe # <<>>
          /\ plan' = [i \in DOMAIN Fields[Head(pipe)] |-> ReadField(Fields[Head(pipe)][i])]
          /\ tokens' = <<Head(pipe)>>
          /\ pipe' = Tail(pipe)
          /\ UNCHANGED reader
       \/ /\ pipe = <<>> /\ ended
          /\ reader' = "closed"
          /\ UNCHANGED <<plan, tokens, pipe>>
    /\ UNCHANGED <<sender, buf, heard>>

\* ReadBoolean: what is not 0 is true, and so is the -1 at the end of the stream.
ReadBoolean ==
    /\ plan # <<>> /\ Head(plan)[1] = "boolean"
    /\ \/ pipe # <<>> /\ Complete("boolean", <<Head(pipe)>>) /\ pipe' = Tail(pipe)
       \/ pipe = <<>> /\ ended /\ Complete("boolean", <<-1>>) /\ UNCHANGED pipe
    /\ UNCHANGED <<sender, reader>>

\* The loop goes on when the last byte is there: Read is asked for no bytes.
ReadFully_Past ==
    /\ plan # <<>> /\ Head(plan)[1] # "boolean" /\ pipe # <<>>
    /\ LET size == Head(plan)[2] - Len(buf)
           count == IF Len(pipe) < size THEN Len(pipe) ELSE size
       IN  /\ buf' = buf \o SubSeq(pipe, 1, count)
           /\ pipe' = SubSeq(pipe, count + 1, Len(pipe))
    /\ UNCHANGED <<sender, reader, plan, tokens, heard>>

\* ReadFully: Read after Read, until the bytes asked for are there.  At the
\* end of the stream Read gives 0 bytes, for which ReadFully reads again.
ReadFully ==
    /\ plan # <<>> /\ Head(plan)[1] # "boolean" /\ pipe # <<>>
    /\ LET what == Head(plan)[1]
           size == Head(plan)[2] - Len(buf)
           count == IF Len(pipe) < size THEN Len(pipe) ELSE size
           bytes == buf \o SubSeq(pipe, 1, count)
       IN  /\ pipe' = SubSeq(pipe, count + 1, Len(pipe))
           /\ IF count = size
              THEN Complete(what, bytes)
              ELSE buf' = bytes /\ UNCHANGED <<plan, tokens, heard>>
    /\ UNCHANGED <<sender, reader>>

Read == ReadHeader \/ ReadBoolean \/ ReadFully

Next ==
    \/ \E m \in Messages : Write(m)
    \/ Transmit
    \/ Close
    \/ Read

Fairness == WF_vars(Transmit) /\ WF_vars(Read)

Spec == Init /\ [][Next]_vars /\ Fairness

-----------------------------------------------------------------------------
(* Properties.                                                             *)

\* What the other end is to hear of a field: the empty and the missing set,
\* array or string are the same on the wire.
OrNull(value, empty) == IF value = empty THEN Null ELSE value
HeardField(kind, value) ==
    CASE kind = "string" -> <<IF value = Null THEN <<>> ELSE value>>
      [] kind = "set" -> <<OrNull(value, {})>>
      [] kind = "packets" ->
            IF OrNull(value, <<>>) = Null THEN <<Null>>
            ELSE <<Len(value)>> \o FlattenSeq([i \in DOMAIN value |->
                    <<OrNull(value[i].entitlements, {}), OrNull(value[i].data, <<>>)>>])
      [] OTHER -> <<value>>
HeardMessage(m) ==
    <<m.type>> \o FlattenSeq([i \in DOMAIN m.body |-> HeardField(Fields[m.type][i], m.body[i])])

\* How many messages were sent whole.
Whole == IF cut \/ outgoing # <<>> THEN Len(written) - 1 ELSE Len(written)

\* Message.Read gives what Message.Write was given, message after message, in
\* whatever pieces the bytes arrive, and never reads past the end of one.
ReadIsWritten ==
    /\ Len(heard) <= Len(written)
    /\ \A i \in 1..Len(heard) : i <= Whole => heard[i] = HeardMessage(written[i])

\* Every message that was sent whole is read: the reader asks for no byte too many.
WrittenIsRead == \A n \in 1..MessageBound : Whole >= n ~> Len(heard) >= n

\* A connection closed between two messages is seen to be closed.
EndIsSeen == ended /\ ~cut ~> reader = "closed"

\* DataReader: "Read a boolean" returns "The boolean read": a message is read only
\* when all of its bytes were sent.
OnlyWholeIsRead == Len(heard) <= Whole
=============================================================================
