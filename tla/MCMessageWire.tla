---------------------------- MODULE MCMessageWire ----------------------------
(***************************************************************************)
(* DATA headers around every size at which a varint of the index or of the  *)
(* chunk grows by a byte, and CHECK messages with short, empty and long     *)
(* strings and the unknown fields of a newer peer.                          *)
(***************************************************************************)
EXTENDS MessageWire

V(no, v) == [no |-> no, kind |-> "varint", value |-> v]
B(no, v) == [no |-> no, kind |-> "bytes", value |-> v]

Indexes == {0, 1, 127, 128, 16383, 16384, 49152, 2097151, 2097152, 268435455}
Sizes   == {1, 127, 128, 49152, 2097152}

Headers ==
    {[fields |-> <<V(1, i), V(2, 0), V(3, c), V(4, u)>>, known |-> 1 .. 4, padded |-> TRUE] :
        i \in Indexes, c \in Sizes, u \in Sizes}

Strings == {<< >>, <<8>>, <<255, 0, 47>>, [i \in 1 .. 130 |-> 128 + (i % 100)]}
Extras  == {<< >>, <<V(14, 300)>>, <<B(15, <<255, 255>>)>>,
            <<[no |-> 16, kind |-> "fixed64", value |-> <<1, 2, 3, 4, 7, 7, 7, 7>>],
              [no |-> 17, kind |-> "fixed32", value |-> <<128, 128, 128, 128>>]>>}

Configs ==
    {[fields |-> <<V(1, size), V(2, 0), V(3, size), B(4, << >>), B(5, path), B(6, name),
                   V(7, 1), V(8, 0), V(9, 0), B(10, name), B(11, path), B(12, << >>),
                   B(13, << >>)>> \o extra,
      known |-> 1 .. 13, padded |-> FALSE] :
        size \in {0, 128, 2097152}, path \in Strings, name \in Strings, extra \in Extras}

MCMessages == Headers \cup Configs
=============================================================================
