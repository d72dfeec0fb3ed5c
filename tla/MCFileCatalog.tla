--------------------------- MODULE MCFileCatalog ---------------------------
(* Instances of the file catalogue for TLC. *)
EXTENDS FileCatalog, TLC

\* FastDFS with the in-memory caches, local files with Redis.  A start without
\* FastDFS is the third pair, local files with the in-memory caches.
MCConfigs == {[storage |-> "fastdfs", cache |-> "lru"],
              [storage |-> "local", cache |-> "redis"]}

MCPlain == {[storage |-> "local", cache |-> "lru"]}

\* Two failures where the caches outlive the process, one with FastDFS.
MCMaxFaults == [c \in MCConfigs |-> IF c.cache = "redis" THEN 2 ELSE 1]
NoFaults == [c \in MCPlain |-> 0]

Symmetry == Permutations(Users) \cup Permutations(Hashes)
=============================================================================
