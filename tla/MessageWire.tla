----------------------------- MODULE MessageWire -----------------------------
(***************************************************************************)
(* The protobuf-style messages of hdcutils/_serial.py: varints, tagged      *)
(* fields, the writer and the parser of a message, one step per field.  The *)
(* header of a DATA frame is such a message filled up to 64 bytes with NULs *)
(* and parsed with them; a TransferConfig is not filled up.                 *)
(***************************************************************************)
EXTENDS Naturals, Sequences, FiniteSetsExt

CONSTANTS Messages,   \* the messages sent: [fields, known, padded]
          Prefix      \* TRANSFER_PAYLOAD_PREFIX

\* A field is [no, kind, value].  Of the kinds, the peers of this library may
\* also send the fixed-width ones, in fields it does not know.
WireOf == [varint |-> 0, fixed64 |-> 1, bytes |-> 2, fixed32 |-> 5]
Octet  == 0 .. 255
-----------------------------------------------------------------------------
(* Varints.                                                                 *)

\* The value at each turn of _encode_varint's loop: value >>= 7.  Ten turns are
\* enough for 64 bits.
Turns(v) == LET b == v \div 128   c == b \div 128   d == c \div 128
                e == d \div 128   f == e \div 128   g == f \div 128
                h == g \div 128   i == h \div 128   j == i \div 128
            IN  <<v, b, c, d, e, f, g, h, i, j>>

Fits(v) == v \in Nat /\ Turns(v)[10] < 128

VarintLen(v) == Min({n \in 1 .. 10 : n = 10 \/ Turns(v)[n + 1] = 0})

\* _encode_varint: seven bits a byte, the low ones first
Varint(v) == [k \in 1 .. VarintLen(v) |->
                 (Turns(v)[k] % 128) + (IF k < VarintLen(v) THEN 128 ELSE 0)]

Tag(no, wire) == Varint(8 * no + wire)

\* serialize_message: one field, zero or not
Field(f) == Tag(f.no, WireOf[f.kind])
               \o (CASE f.kind = "varint" -> Varint(f.value)
                     [] f.kind = "bytes"  -> Varint(Len(f.value)) \o f.value
                     [] OTHER             -> f.value)
-----------------------------------------------------------------------------
(* What is sent.  A DATA header is four numbers; nothing that the parser    *)
(* knows has a fixed width, or comes twice.                                 *)

IsField(f) == /\ f.kind \in DOMAIN WireOf
              /\ f.no \in Nat /\ Fits(8 * f.no + WireOf[f.kind])
              /\ f.kind = "varint"  => Fits(f.value)
              /\ f.kind # "varint"  => f.value \in Seq(Octet)
              /\ f.kind = "bytes"   => Fits(Len(f.value))
              /\ f.kind = "fixed64" => Len(f.value) = 8
              /\ f.kind = "fixed32" => Len(f.value) = 4

IsMessage(m) ==
    LET n == Len(m.fields)
    IN  /\ n \in Nat /\ DOMAIN m.fields = 1 .. n /\ \A i \in 1 .. n : IsField(m.fields[i])
        /\ 0 \notin m.known
        /\ \A i \in 1 .. n : m.fields[i].no \in m.known =>
              /\ m.fields[i].kind \in {"varint", "bytes"}
              /\ \A j \in 1 .. n : m.fields[j].no = m.fields[i].no => j = i
        /\ m.padded => n <= 4 /\ \A i \in 1 .. n : m.fields[i].kind = "varint"
                                                   /\ m.fields[i].no < 16

ASSUME MessageAssumption == /\ \A m \in Messages : IsMessage(m)
                            /\ Prefix \in Nat /\ Prefix > 44

VARIABLES message,    \* the message
          data,       \* its bytes
          cuts,       \* where each field of it begins, and the last one ends
          offset,     \* how far parse_message is
          got,        \* {field_no: value}
          status      \* "writing", "parsing", "done" or "raised"

messageVars == <<message, data, cuts, offset, got, status>>
-----------------------------------------------------------------------------
(* Writing.                                                                 *)

MessageInit == /\ message \in Messages
               /\ data = << >>
               /\ cuts = <<0>>
               /\ offset = 0
               /\ got = << >>
               /\ status = "writing"

\* serialize_message: one turn of its loop
WriteField == /\ status = "writing"
              /\ Len(cuts) <= Len(message.fields)
              /\ data' = data \o Field(message.fields[Len(cuts)])
              /\ cuts' = Append(cuts, Len(data'))
              /\ UNCHANGED <<message, offset, got, status>>

\* Mutant: the terminating NUL that the size check counts is left out.
ShortPad(body) == body \o [i \in 1 .. (Prefix - Len(body) - 1) |-> 0]

\* TransferPayload.serialize.  Its ValueError for a body that is too large is
\* dead code: MessageTypeOK.
Pad(body) == body \o [i \in 1 .. (Prefix - Len(body)) |-> 0]

Send == /\ status = "writing"
        /\ Len(cuts) > Len(message.fields)
        /\ data' = IF message.padded THEN Pad(data) ELSE data
        /\ status' = "parsing"
        /\ UNCHANGED <<message, cuts, offset, got>>
-----------------------------------------------------------------------------
(* Parsing.                                                                 *)

\* Where the varint at offset o stops: the first byte without the high bit.
\* There is none when the data ends before it, or after more than 11 bytes.
Stops(o)    == {e \in o .. (o + 10) : e < Len(data) /\ data[e + 1] < 128}
IsVarint(o) == Stops(o) # {}
After(o)    == Min(Stops(o)) + 1

\* _decode_varint: seven bits a byte, the low ones first
ValueAt(o) == LET d(k) == IF o + k < After(o) THEN data[o + k + 1] % 128 ELSE 0
                  h9 == d(9) + 128 * d(10)
                  h8 == d(8) + 128 * h9
                  h7 == d(7) + 128 * h8
                  h6 == d(6) + 128 * h7
                  h5 == d(5) + 128 * h6
                  h4 == d(4) + 128 * h5
                  h3 == d(3) + 128 * h4
                  h2 == d(2) + 128 * h3
                  h1 == d(1) + 128 * h2
              IN  d(0) + 128 * h1

HasTag  == status = "parsing" /\ offset < Len(data) /\ IsVarint(offset)
FieldNo == ValueAt(offset) \div 8
WireNo  == ValueAt(offset) % 8
Start   == After(offset)                 \* the field's value, after its tag
Known   == FieldNo \in message.known
IsSized == WireNo = 2 /\ IsVarint(Start)
End     == After(Start) + ValueAt(Start) \* of a sized value

Store(v) == got' = [n \in DOMAIN got \cup {FieldNo} |->
                       IF n = FieldNo THEN v ELSE got[n]]

TakeVarint == /\ HasTag /\ Known /\ WireNo = 0 /\ IsVarint(Start)
              /\ Store(ValueAt(Start))
              /\ offset' = After(Start)
              /\ UNCHANGED <<message, data, cuts, status>>

\* Mutant: the slice begins with the length.
LengthAndBytes == /\ HasTag /\ Known /\ IsSized
                  /\ Store(SubSeq(data, Start + 1, Min({End, Len(data)})))
                  /\ offset' = End
                  /\ UNCHANGED <<message, data, cuts, status>>

\* A slice: what is missing at the end of the data is simply not there.
TakeBytes == /\ HasTag /\ Known /\ IsSized
             /\ Store(SubSeq(data, After(Start) + 1, Min({End, Len(data)})))
             /\ offset' = End
             /\ UNCHANGED <<message, data, cuts, status>>

\* Mutant: an unknown field is not consumed.
StuckSkip == HasTag /\ ~ Known /\ WireNo \in {0, 1, 2, 5} /\ UNCHANGED messageVars

\* A field of another version is skipped by its wire type.
Skip == /\ HasTag /\ ~ Known
        /\ \/ WireNo = 0 /\ IsVarint(Start) /\ offset' = After(Start)
           \/ IsSized /\ offset' = End
           \/ WireNo = 1 /\ offset' = Start + 8
           \/ WireNo = 5 /\ offset' = Start + 4
        /\ UNCHANGED <<message, data, cuts, got, status>>

\* A varint breaks off, or the wire type is not one of these: ValueError.
Raise == /\ status = "parsing" /\ offset < Len(data)
         /\ \/ ~ IsVarint(offset)
            \/ HasTag /\ WireNo \in {0, 2} /\ ~ IsVarint(Start)
            \/ HasTag /\ WireNo \notin {0, 2} \cup (IF Known THEN {} ELSE {1, 5})
         /\ status' = "raised"
         /\ UNCHANGED <<message, data, cuts, offset, got>>

Finish == /\ status = "parsing" /\ offset >= Len(data)
          /\ status' = "done"
          /\ UNCHANGED <<message, data, cuts, offset, got>>

Parse == TakeVarint \/ TakeBytes \/ Skip \/ Raise \/ Finish
Work  == WriteField \/ Send \/ Parse

Parsed == status \in {"done", "raised"}

Done        == Parsed /\ UNCHANGED messageVars
MessageNext == Work \/ Done
MessageSpec == MessageInit /\ [][MessageNext]_messageVars /\ WF_messageVars(Work)
-----------------------------------------------------------------------------
(* Properties.                                                              *)

MessageTypeOK == /\ message \in Messages
                 /\ data \in Seq(Octet)
                 /\ message.padded => Len(data) <= Prefix
                 /\ cuts \in Seq(Nat) /\ cuts # << >>
                 /\ offset \in 0 .. Len(data)
                 /\ DOMAIN got \subseteq message.known
                 /\ status \in {"writing", "parsing", "done", "raised"}

\* What a parser that finishes has found is what was written, field by field:
\* no length, tag or padding is taken for another field's value, and the
\* parser never reads beyond the message (MessageTypeOK).
ParsedAsWritten ==
    LET wrote == {i \in DOMAIN message.fields : message.fields[i].no \in message.known}
    IN  /\ MessageTypeOK
        /\ status = "done" =>
           /\ DOMAIN got = {message.fields[i].no : i \in wrote}
           /\ \A i \in wrote : got[message.fields[i].no] = message.fields[i].value

\* parse_message raises on one kind of message: a header with an odd number
\* of NULs, which are read as pairs of a tag and a value.  Unknown fields, of
\* whatever wire type a newer peer uses, and varints of every length do not
\* make it raise.
RaisesOnOddPadding ==
    LET odd == message.padded /\ (Prefix - cuts[Len(cuts)]) % 2 = 1
    IN  /\ status = "raised" => odd
        /\ status = "done" => ~ odd

\* The parser reaches the end of every message or raises.
ParseEnds == <>Parsed

\* "assert TransferPayload.parse(raw) == head" (tests/test_file_app.py, on one
\* header): the header of a DATA frame parses.
HeadersParse == status # "raised"
=============================================================================
