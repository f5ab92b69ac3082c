---------------------------- MODULE MCRDCArchive ----------------------------
(* Small instance of RDCArchive, and of the codec under it: an empty text,  *)
(* one that shrinks, one that does not, and one whose length does not       *)
(* change.                                                                  *)
EXTENDS RDCArchive, BlockCodec, TLC
CONSTANTS note, archive
MCSizes == (note :> 3) @@ (archive :> 336)
MCLists == {<<"directory">>, <<"file", "file">>}

MCRawBytes    == (0 :> 0) @@ (1 :> 3) @@ (2 :> 336) @@ (3 :> 40)
MCPackedBytes == (0 :> 8) @@ (1 :> 11) @@ (2 :> 90) @@ (3 :> 40)

ASSUME CodecIsSound ==
  \A text \in Raw, info \in CompressionInfo :
    BlockReadsBack(text, info) /\ RawSizeIsLength(text, info)
=============================================================================
