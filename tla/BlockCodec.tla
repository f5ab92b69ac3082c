----------------------------- MODULE BlockCodec -----------------------------
(***************************************************************************)
(* What BlockProcessor does to the bytes of a block: compression on the    *)
(* way to the device, by the mode its descriptor asks for, and             *)
(* decompression on the way back, by the mode the descriptor was left      *)
(* with.  The device is RDCArchive's, whose exporter never asks for        *)
(* compression; archives of other users of the builder may be compressed.  *)
(*                                                                         *)
(* zlib is external: a text has a stream of its own that may be longer     *)
(* than the text, and nothing else decompresses to it.  The assertions on  *)
(* its answers stop the program.                                           *)
(***************************************************************************)
EXTENDS Integers

CONSTANTS
  Raw,          \* the texts that are written
  RawBytes,     \* the bytes of each
  PackedBytes,  \* the bytes of its zlib stream, at the level asked for
  Word          \* the descriptor's sizes are modulo this (2^32)

Modes == {"None", "ZLib", "Unknown"}

CompressionInfo == [mode : Modes, raw : 0 .. Word - 1]

(* CompressionInfo::Reset. *)
NoCompression == [mode |-> "None", raw |-> 0]

Plain(text) == [packed |-> FALSE, of |-> text]

Packed(text) == [packed |-> TRUE, of |-> text]

(* What the caller takes for success. *)
BlockOk(b) == b.result \in {"Success", "NotEnabled", "UnableToReduceSize"}

-----------------------------------------------------------------------------
(* Zlib::Compress gives the stream as many bytes as the text has: for an    *)
(* empty text deflate makes no progress, which the assertion does not       *)
(* expect.  deflateInit may fail.                                           *)
Compress(text) ==
  {"Failure",
   IF RawBytes[text] = 0 THEN "Aborted"
   ELSE IF PackedBytes[text] =< RawBytes[text] THEN "Success"
   ELSE "UnableToReduceSize"}


(* A text that did not shrink is written as it is; after a failure it is,   *)
(* too, but the descriptor still says that it was compressed.               *)
Compressed(text, info, result) ==
  [result |-> result,
   bytes  |-> IF result = "Success" THEN Packed(text) ELSE Plain(text),
   info   |-> IF result = "UnableToReduceSize" THEN NoCompression ELSE info]

ProcessCompression(text, info) ==
  IF info.mode = "ZLib"
  THEN {Compressed(text, [info EXCEPT !.raw = RawBytes[text] % Word], result) :
          result \in Compress(text)}
  ELSE {Compressed(text, info, "Failure")}

ProcessOutputBlock(text, info) ==
  IF info.mode = "None" THEN {Compressed(text, info, "NotEnabled")}
  ELSE ProcessCompression(text, info)

(* The bytes of a block on the device. *)
ContainerSize(b) ==
  (IF b.bytes.packed THEN PackedBytes[b.bytes.of] ELSE RawBytes[b.bytes.of]) % Word

GetRawSize(b) ==
  IF b.info.mode = "None" THEN ContainerSize(b) ELSE b.info.raw

-----------------------------------------------------------------------------
(* Zlib::Decompress into a table of raw bytes: what is no stream, or does   *)
(* not fit, fails the assertion; inflateInit may fail.                      *)
Decompress(bytes, raw) ==
  {"Failure", IF bytes.packed /\ raw >= RawBytes[bytes.of] THEN "Success" ELSE "Aborted"}

ProcessDecompression(bytes, info) ==
  IF info.mode = "ZLib"
  THEN {[result |-> result, bytes |-> IF result = "Success" THEN Plain(bytes.of) ELSE bytes] :
          result \in Decompress(bytes, info.raw)}
  ELSE {[result |-> "Failure", bytes |-> bytes]}

ProcessInputBlock(bytes, info) ==
  IF info.mode = "None" THEN {[result |-> "NotEnabled", bytes |-> bytes]}
  ELSE ProcessDecompression(bytes, info)

-----------------------------------------------------------------------------
(* A block that was written with success, compressed or not, is read as     *)
(* the text it was written from, unless zlib runs out of memory; it never   *)
(* stops the reader.  The bytes on the device must fit the descriptor.      *)
BlockReadsBack(text, info) ==
  RawBytes[text] < Word =>
    \A b \in ProcessOutputBlock(text, info) : BlockOk(b) =>
      /\ \A r \in ProcessInputBlock(b.bytes, b.info) :
           r.result # "Aborted" /\ (BlockOk(r) => r.bytes = Plain(text))
      /\ \E r \in ProcessInputBlock(b.bytes, b.info) : BlockOk(r)

(* The size a mounted archive gives its file is the length of the text the  *)
(* file reads as, whichever way its block went.                             *)
RawSizeIsLength(text, info) ==
  RawBytes[text] < Word =>
    \A b \in ProcessOutputBlock(text, info) : BlockOk(b) => GetRawSize(b) = RawBytes[text]
=============================================================================
