---------------------------- MODULE MCFrameReader ----------------------------
(* Every byte stream of a small alphabet up to a length, for TLC.           *)
EXTENDS FrameReader, SequencesExt

CONSTANT StreamLen   \* the longest stream

MCShort == UNION {[1 .. n -> Byte] : n \in 0 .. StreamLen}

\* Streams as encode_frame writes them: up to three frames, of sizes from none
\* to the limit, with payloads that look like headers.
MCPayloads == {<< >>, <<1>>, <<0, 0, 0, 1>>, <<1, 0, 0, 0, 1>>}

MCLists == UNION {[1 .. n -> MCPayloads] : n \in 0 .. 3}

MCStream(ps) ==
    LET frames == [i \in DOMAIN ps |-> EncodeFrame(ps[i])]
    IN  [payloads |-> ps, bytes |-> FlattenSeq(frames),
         at |-> [i \in 1 .. Len(ps) + 1 |-> Len(FlattenSeq(SubSeq(frames, 1, i - 1)))]]

MCWritten == {MCStream(ps) : ps \in MCLists}

MCStreams == MCShort \cup {s.bytes : s \in MCWritten}

\* The reference decoding of a stream: its non-empty payloads, and why there
\* are no more.
RECURSIVE Decode(_, _)
Decode(w, p) ==
    CASE Oversize(w, p, Len(w))   -> [frames |-> << >>, end |-> "toobig"]
      [] HasFrame(w, p, Len(w))   ->
            LET rest == Decode(w, FrameEnd(w, p))
            IN  IF SizeAt(w, p) = 0 THEN rest
                ELSE [rest EXCEPT !.frames = <<PayloadAt(w, p)>> \o @]
      [] p = Len(w)               -> [frames |-> << >>, end |-> "eof"]
      [] OTHER                    -> [frames |-> << >>, end |-> "truncated"]

\* Of any stream at all, torn or written by somebody else, the caller has seen a
\* prefix of what the stream holds, and all of it once a call reports the end.
PrefixOfStream ==
    LET d == Decode(wire, 0)
    IN  /\ Len(out) <= Len(d.frames)
        /\ out = SubSeq(d.frames, 1, Len(out))
        /\ Ended => out = d.frames /\ result = d.end
=============================================================================
