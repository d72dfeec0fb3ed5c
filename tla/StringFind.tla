----------------------------- MODULE StringFind -----------------------------
(***************************************************************************)
(* std::string::find on sequences of atoms, which the parser of uploads    *)
(* (src/src/server/FastCgiServer.cpp) and the reader of cached records     *)
(* (src/src/common/RedisCache.cpp) are built from.                         *)
(***************************************************************************)
EXTENDS Naturals, Sequences, SequencesExt

\* Where the first occurrence of a pattern begins, 0 if there is none.
FindIn(data, pattern, from) ==
    LET hits == {i \in from..(Len(data) - Len(pattern) + 1) :
                    SubSeq(data, i, i + Len(pattern) - 1) = pattern}
    IN  IF hits = {} THEN 0 ELSE Min(hits)
=============================================================================
