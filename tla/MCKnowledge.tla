---------------------------- MODULE MCKnowledge ----------------------------
(* The parts behind the semantic search side by side for TLC: a behaviour   *)
(* is one of the index, of the chunker that cuts texts for it, or of the     *)
(* calls that leave the process, the model server's among them.             *)
EXTENDS SearchIndex, TextChunker, Outbound, TLC

CONSTANTS plainText, wideText, cutText, image

VARIABLE part   \* the part this behaviour is about

KnowledgeInit ==
    /\ part \in {"index", "chunker", "calls"}
    /\ Init /\ CallInit /\ ChunkerInit
    /\ part # "chunker" => entry = "size" /\ text = <<>> /\ size = Default /\ overlap = 0

KnowledgeNext ==
    \/ part = "index" /\ Next /\ UNCHANGED <<part, chunkerVars, callVars>>
    \/ part = "chunker" /\ ChunkerNext /\ UNCHANGED <<part, vars, callVars>>
    \/ part = "calls" /\ CallNext /\ UNCHANGED <<part, vars, chunkerVars>>

KnowledgeVars == <<part, vars, chunkerVars, callVars>>

KnowledgeSpec == KnowledgeInit /\ [][KnowledgeNext]_KnowledgeVars

\* Two chunks; one chunk; a second chunk that is no UTF-8; nothing to extract.
MCChunks == [c \in Contents |->
    CASE c = plainText -> <<"plain", "plain">>
      [] c = wideText  -> <<"wide">>
      [] c = cutText   -> <<"plain", "cut">>
      [] c = image     -> <<>>]
=============================================================================
