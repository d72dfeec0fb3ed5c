--------------------------- MODULE MCChunkUpload ---------------------------
(* Instances of the chunked upload for TLC. *)
EXTENDS ChunkUpload, TLC

Symmetry == Permutations(Users) \cup Permutations(Uploads) \cup Permutations(Data)
=============================================================================
