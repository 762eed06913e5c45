----------------------------- MODULE MCTmpStream -----------------------------
(***************************************************************************)
(* TmpStream with two bytes besides zero, written one or two at a time.    *)
(***************************************************************************)
EXTENDS TmpStream

MCByte == {0, 1, 2}

MCChunk == {<<1>>, <<2, 1>>}

MCOffset == {-1, 0, 1, 3}

MCLength == {0, 1, 3}
=============================================================================
