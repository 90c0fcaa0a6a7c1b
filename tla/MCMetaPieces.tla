----------------------------- MODULE MCMetaPieces -----------------------------
(* Values for checking MetaPieces: sections smaller than, as large as and   *)
(* larger than the buffer, buffers of one or several sections, and none.    *)
EXTENDS MetaPieces

MCUnlimited == -1
MCBuffers == {-1, 0, 1, 2, 4}
=============================================================================
