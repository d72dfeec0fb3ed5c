------------------------------ MODULE Outbound ------------------------------
(***************************************************************************)
(* The calls that leave the process: httpPostJson and LlmService::embed of *)
(* src/src/service/LlmService.cpp, FastDfsClient of                        *)
(* src/src/common/FastDfsClient.cpp, and TextExtractor::extractPdf of      *)
(* src/src/common/TextExtractor.cpp, which runs pdftotext.                 *)
(*                                                                         *)
(* Each takes what it has to give back (a socket, a temporary file), and   *)
(* each hears from a peer that answers piece by piece, stops half way or   *)
(* does not answer.  The request loop makes one call at a time.            *)
(***************************************************************************)
EXTENDS Naturals, FiniteSets

CONSTANTS
    MaxPieces,   \* bound: pieces of an answer
    PipeSize,    \* pieces that fit into a pipe nobody reads
    Limit        \* pieces of kMaxExtractSize

\* What the model server may answer: the vector; the vector in the chunked
\* coding of HTTP/1.1; another status than 200, or one that is no number;
\* status 200 without a vector.  A converter writes a text.
HttpAnswers == {"vector", "chunked", "refused", "garbled", "empty"}

Calls == {"embed", "upload", "download", "remove", "pdf"}

VARIABLES
    call,      \* the call in progress, or the last one
    at,        \* where it is, "idle" once it has returned
    held,      \* what it has taken and not given back
    misused,   \* history: something was given back that was not held
    answer,    \* what the peer has to say, and its length in pieces
    written,   \* pieces the peer has sent
    got,       \* pieces the call has read
    peer,      \* "none", "talking", "ended" after its last piece, "failed" before
    marked,    \* the text says that it was cut
    result     \* "none", "ok", "failed"; "thrown" past embed()

talk == <<answer, written, got, peer>>
callVars == <<call, at, held, misused, talk, marked, result>>

Nothing == [is |-> "nothing", length |-> 0]

CallInit ==
    /\ call = "embed" /\ at = "idle"
    /\ held = {} /\ misused = FALSE
    /\ answer = Nothing /\ written = 0 /\ got = 0 /\ peer = "none"
    /\ marked = FALSE /\ result = "none"

Take(r)     == held' = held \cup {r} /\ UNCHANGED misused
Release(rs) == held' = held \ rs /\ misused' = (misused \/ ~(rs \subseteq held))
Swap(r, s)  == held' = (held \ {r}) \cup {s} /\ misused' = (misused \/ r \notin held)

GoTo(p)    == at' = p /\ UNCHANGED <<call, marked, result>>
End(r)  == at' = "idle" /\ result' = r /\ UNCHANGED <<call, marked>>
Silent     == UNCHANGED talk
Listen(is) == /\ \E n \in 0..MaxPieces : answer' = [is |-> is, length |-> n]
              /\ written' = 0 /\ got' = 0 /\ peer' = "talking"

Begin(c) ==
    /\ at = "idle"
    /\ call' = c /\ result' = "none" /\ marked' = FALSE
    /\ at' = CASE c = "embed" -> "resolve" [] c = "pdf" -> "create" [] OTHER -> "tracker"
    /\ answer' = Nothing /\ written' = 0 /\ got' = 0 /\ peer' = "none"
    /\ UNCHANGED <<held, misused>>

-----------------------------------------------------------------------------
(* The peer.                                                               *)

Room == call # "pdf" \/ written - got < PipeSize

PeerWrites ==
    /\ peer = "talking" /\ written < answer.length /\ Room
    /\ written' = written + 1
    /\ UNCHANGED <<call, at, held, misused, answer, got, peer, marked, result>>

PeerStops ==
    /\ peer = "talking"
    /\ peer' \in IF written = answer.length THEN {"ended", "failed"} ELSE {"failed"}
    /\ UNCHANGED <<call, at, held, misused, answer, written, got, marked, result>>

ReadPiece == got < written /\ got' = got + 1 /\ UNCHANGED <<answer, written, peer>>
Silence   == got = written /\ peer # "talking"

-----------------------------------------------------------------------------
(* httpPostJson and embed.                                                 *)

Resolve ==
    /\ at = "resolve" /\ Silent
    /\ \/ Take("addrinfo") /\ GoTo("socket")
       \/ End("failed") /\ UNCHANGED <<held, misused>>

Socket ==
    /\ at = "socket" /\ Silent
    /\ \/ Take("socket") /\ GoTo("connect")
       \/ Release({"addrinfo"}) /\ End("failed")

\* Mutant: the socket is not closed.
ConnectFailsOpen == Release({"addrinfo"}) /\ End("failed")

ConnectFails == Release({"socket", "addrinfo"}) /\ End("failed")

Connect ==
    /\ at = "connect" /\ Silent
    /\ (Release({"addrinfo"}) /\ GoTo("send")) \/ ConnectFails

Send ==
    /\ at = "send"
    /\ \/ /\ UNCHANGED <<held, misused>> /\ GoTo("receive")
          /\ \E is \in HttpAnswers : Listen(is)
       \/ Release({"socket"}) /\ End("failed") /\ Silent

\* recv: bytes, the end of the answer, or an error after 30 seconds of
\* silence, which is taken for the end too.
Receive ==
    /\ at = "receive"
    /\ \/ ReadPiece /\ GoTo("receive") /\ UNCHANGED <<held, misused>>
       \/ got = written /\ Release({"socket"}) /\ GoTo("parse") /\ Silent

\* The first piece ends with the blank line behind the headers.
HasHeaders == got > 0

\* Only the whole text is JSON, and chunked text is none.
IsJson == got = answer.length /\ answer.is # "chunked"

\* The status first, then the JSON.  stoi of the status throws outside the try.
ParseAnswer ==
    /\ at = "parse" /\ Silent /\ UNCHANGED <<held, misused>>
    /\ End(CASE ~HasHeaders            -> "failed"
                [] answer.is = "garbled"  -> "thrown"
                [] answer.is = "refused"  -> "failed"
                [] ~IsJson                -> "failed"
                [] answer.is = "empty"    -> "failed"
                [] OTHER                  -> "ok")

-----------------------------------------------------------------------------
(* FastDfsClient: the library talks to the tracker and to the storage.     *)

Tracker ==
    /\ at = "tracker" /\ Silent
    /\ \/ Take("tracker") /\ GoTo(IF call = "upload" THEN "query" ELSE "transfer")
       \/ End("failed") /\ UNCHANGED <<held, misused>>

Query ==
    /\ at = "query" /\ Silent
    /\ \/ GoTo("transfer") /\ UNCHANGED <<held, misused>>
       \/ Release({"tracker"}) /\ End("failed")

\* The tracker connection goes whatever came of it; a download has a buffer
\* when it succeeded, and may have one when it did not.
Transfer ==
    /\ at = "transfer" /\ Silent
    /\ \E ok, buffer \in BOOLEAN :
         /\ (ok \/ call # "download") => (buffer <=> call = "download")
         /\ IF buffer THEN Swap("tracker", "buffer") ELSE Release({"tracker"})
         /\ GoTo(IF ok THEN "transferred" ELSE "not transferred")

\* content.assign copies the buffer before it is freed.
Transferred ==
    /\ at \in {"transferred", "not transferred"} /\ Silent
    /\ IF call = "download" /\ (at = "transferred" \/ "buffer" \in held)
         THEN Release({"buffer"}) ELSE UNCHANGED <<held, misused>>
    /\ End(IF at = "transferred" THEN "ok" ELSE "failed")

-----------------------------------------------------------------------------
(* writeTempFile and extractPdf.                                           *)

Create ==
    /\ at = "create" /\ Silent
    /\ \/ held' = held \cup {"file", "descriptor"} /\ UNCHANGED misused /\ GoTo("open")
       \/ End("failed") /\ UNCHANGED <<held, misused>>

\* fdopen makes the descriptor part of the stream.
Open ==
    /\ at = "open" /\ Silent
    /\ \/ Swap("descriptor", "stream") /\ GoTo("fill")
       \/ Release({"descriptor", "file"}) /\ End("failed")

\* fwrite and fclose: a full disk is noticed.
Fill ==
    /\ at = "fill" /\ Silent
    /\ \/ Release({"stream"}) /\ GoTo("run")
       \/ Release({"stream", "file"}) /\ End("failed")

Run ==
    /\ at = "run"
    /\ \/ Take("pipe") /\ GoTo("read") /\ Listen("text")
       \/ Release({"file"}) /\ End("failed") /\ Silent

\* fgets until the end, or until there is more than the limit.
ReadText ==
    /\ at = "read" /\ UNCHANGED <<held, misused, call, result>>
    /\ \/ /\ ReadPiece
          /\ IF got' > Limit THEN at' = "close" /\ marked' = TRUE
                             ELSE UNCHANGED <<at, marked>>
       \/ Silence /\ at' = "close" /\ UNCHANGED <<talk, marked>>

\* Mutant: the exit status of the converter is not looked at.
ConverterOkAnyway == {TRUE}

\* What pclose reports: a converter that has more to write than the pipe holds
\* dies of it, one that has written everything still ends by itself.
ConverterOk ==
    CASE peer = "ended"  -> {TRUE}
      [] peer = "failed" -> {FALSE}
      [] OTHER -> IF answer.length - got <= PipeSize THEN BOOLEAN ELSE {FALSE}

ClosePipe ==
    /\ at = "close"
    /\ Release({"pipe", "file"})
    /\ \E ok \in ConverterOk :
         End(IF ok /\ got > 0 THEN "ok" ELSE "failed")
    /\ peer' = IF peer = "talking" THEN "failed" ELSE peer
    /\ UNCHANGED <<answer, written, got>>

CallNext == \/ \E c \in Calls : Begin(c)
        \/ PeerWrites \/ PeerStops
        \/ Resolve \/ Socket \/ Connect \/ Send \/ Receive \/ ParseAnswer
        \/ Tracker \/ Query \/ Transfer \/ Transferred
        \/ Create \/ Open \/ Fill \/ Run \/ ReadText \/ ClosePipe

CallSpec == CallInit /\ [][CallNext]_callVars

-----------------------------------------------------------------------------
(* Properties.                                                             *)

\* Whichever step of a call fails, it returns with everything given back, and
\* gives back nothing twice or before it has it.
ReleasedOnce == ~misused /\ (at = "idle" => held = {})

\* What a call reports as a success is complete, although the peer may stop
\* anywhere: a vector comes from the whole of an answer that has one, and a
\* text that is not marked as cut is all that the converter wrote.
CompleteAnswer ==
    at = "idle" /\ result = "ok" =>
        /\ call = "embed" => answer.is = "vector" /\ got = answer.length
        /\ call = "pdf" /\ ~marked => got = answer.length /\ peer = "ended"
=============================================================================
