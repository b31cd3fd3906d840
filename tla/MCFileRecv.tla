----------------------------- MODULE MCFileRecv -----------------------------
(* Files of up to MaxFile chunks over two chunk contents, for TLC.          *)
EXTENDS FileRecv

CONSTANTS a, b, h, o

MCChunk == {a, b}
=============================================================================
