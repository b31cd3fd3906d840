----------------------------- MODULE MCFileSend -----------------------------
(* Files of up to MaxFile chunks over two chunk contents, for TLC.          *)
EXTENDS FileSend

CONSTANTS a, b, NoFile

MCChunk == {a, b}
=============================================================================
