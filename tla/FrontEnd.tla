------------------------------ MODULE FrontEnd ------------------------------
(***************************************************************************)
(* The request loop: FastCgiServer of src/src/server/FastCgiServer.cpp and *)
(* the routes that main() registers in src/src/main.cpp.                   *)
(*                                                                         *)
(* One thread accepts a request, parses it, hands it to the handler of the *)
(* first route that matches and sends the response.  A handler here is the *)
(* order in which it may fill the response and throw; what it does is in   *)
(* the modules of the components.                                          *)
(***************************************************************************)
EXTENDS Naturals, Sequences, FiniteSets, Functions

CONSTANTS
    Clients,   \* connections of Nginx, each with one request at a time
    Values,    \* what a client may put in the place of a path parameter
    Backlog    \* bound: requests that wait to be accepted

ASSUME FrontEndAssumption == Backlog \in Nat \ {0}

-----------------------------------------------------------------------------
(* The routes, in the order of registration.                               *)

Params == {"{uploadId}", "{chunkIndex}", "{fileId}", "{token}", "{userId}"}

R(method, segments, handler) ==
    [method |-> method, segments |-> segments, handler |-> handler]

InitRoute     == R("POST", <<"api", "files", "upload", "init">>, "ChunkInit")
CompleteRoute == R("POST", <<"api", "files", "upload", "{uploadId}", "complete">>, "ChunkComplete")
StatusRoute   == R("GET",  <<"api", "files", "upload", "{uploadId}", "status">>, "ChunkStatus")
ChunkRoute    == R("POST", <<"api", "files", "upload", "{uploadId}", "{chunkIndex}">>, "ChunkUpload")
UploadRoute   == R("POST", <<"api", "files", "upload">>, "Upload")

\* Mutant: the chunk route is registered before the completion.
UploadRoutesSwapped == <<InitRoute, ChunkRoute, CompleteRoute, StatusRoute, UploadRoute>>

UploadRoutes == <<InitRoute, CompleteRoute, StatusRoute, ChunkRoute, UploadRoute>>

ShareRoutes ==
    << R("GET",    <<"api", "shares", "{token}">>, "ShareDownload"),
       R("POST",   <<"api", "shares">>, "ShareCreate"),
       R("GET",    <<"api", "shares">>, "ShareList"),
       R("DELETE", <<"api", "shares", "{token}">>, "ShareDelete"),
       R("POST",   <<"api", "shares", "{token}", "save">>, "ShareSave"),
       R("GET",    <<"api", "shares", "ranking">>, "ShareRanking") >>

UserRoutes ==
    << R("GET",  <<"health">>, "Health"),
       R("POST", <<"api", "user", "register">>, "Register"),
       R("POST", <<"api", "user", "login">>, "Login"),
       R("POST", <<"api", "user", "logout">>, "Logout"),
       R("POST", <<"api", "files", "check">>, "FileCheck") >>

FileRoutes ==
    << R("GET",    <<"api", "files">>, "ListFiles"),
       R("GET",    <<"api", "files", "{fileId}">>, "Download"),
       R("DELETE", <<"api", "files", "{fileId}">>, "Delete") >>

OtherRoutes ==
    << R("POST",  <<"api", "llm", "chat">>, "LlmChat"),
       R("POST",  <<"api", "llm", "analyze">>, "LlmAnalyze"),
       R("POST",  <<"api", "search">>, "Search"),
       R("POST",  <<"api", "agent", "chat">>, "AgentChat"),
       R("GET",   <<"api", "admin", "users">>, "AdminUsers"),
       R("PATCH", <<"api", "admin", "users", "{userId}", "status">>, "AdminSetStatus"),
       R("PATCH", <<"api", "admin", "users", "{userId}", "admin">>, "AdminSetAdmin") >>

Routes == UserRoutes \o UploadRoutes \o FileRoutes \o ShareRoutes \o OtherRoutes

\* What each handler asks getParam for.
Reads(handler) ==
    CASE handler = "ChunkUpload"                      -> {"{uploadId}", "{chunkIndex}"}
      [] handler \in {"ChunkComplete", "ChunkStatus"} -> {"{uploadId}"}
      [] handler \in {"Download", "Delete"}           -> {"{fileId}"}
      [] handler \in {"ShareDownload", "ShareDelete", "ShareSave"} -> {"{token}"}
      [] handler \in {"AdminSetStatus", "AdminSetAdmin"} -> {"{userId}"}
      [] OTHER                                        -> {}

Matches(route, method, path) ==
    /\ route.method = method
    /\ Len(route.segments) = Len(path)
    /\ \A i \in DOMAIN path : route.segments[i] \in Params \/ route.segments[i] = path[i]

\* The number of the first route that matches, 0 when none does.
Dispatch(method, path) ==
    LET hits == {n \in DOMAIN Routes : Matches(Routes[n], method, path)}
    IN  IF hits = {} THEN 0 ELSE CHOOSE n \in hits : \A m \in hits : n <= m

\* Mutant: only the first parameter of a pattern is kept.
BoundFirst(route, path) ==
    {<<route.segments[i], path[i]>> : i \in {j \in DOMAIN path :
        route.segments[j] \in Params /\ \A k \in 1..(j - 1) : route.segments[k] \notin Params}}

\* The parameters of a matched path: pairs of a name and a segment.
Bound(route, path) ==
    {<<route.segments[i], path[i]>> : i \in {j \in DOMAIN path : route.segments[j] \in Params}}

-----------------------------------------------------------------------------
(* The loop.                                                               *)

\* What a client may ask for: every route with values for its parameters, and
\* a path that no route knows.
Instances(route) ==
    {[i \in DOMAIN route.segments |->
        IF route.segments[i] \in Params THEN v[i] ELSE route.segments[i]] :
            v \in [{i \in DOMAIN route.segments : route.segments[i] \in Params} -> Values]}

Asked == {<<"GET", <<"nowhere">>>>}
            \cup UNION {{<<Routes[n].method, p>> : p \in Instances(Routes[n])} : n \in DOMAIN Routes}

\* The length of the body that Nginx lets through: what an int holds, or the
\* 2 GB that its limit still allows and an int does not hold.
Lengths == {"int", "2G"}

Requests == {[client |-> c, method |-> a[1], path |-> a[2], length |-> l] :
                c \in Clients, a \in Asked, l \in Lengths}

\* A response, by who set its status.  HttpResponse() is a fresh one.
Answers == {"fresh", "handled", "route not found", "internal error"}

VARIABLES
    backlog,   \* requests not yet accepted, oldest first
    phase,     \* where run() is
    req,       \* the request in hand, or the last one
    params,    \* req.params
    resp,      \* the response in hand
    outcome    \* per client: its last answer

vars == <<backlog, phase, req, params, resp, outcome>>

Waiting(c) == outcome[c] = "awaited"

Init ==
    /\ backlog = <<>> /\ phase = "accept"
    /\ req \in {r \in Requests : r.path = <<"nowhere">> /\ r.length = "int"}
    /\ params = {} /\ resp = "fresh"
    /\ outcome = [c \in Clients |-> "unasked"]

\* A client sends its next request.
Ask(c) ==
    /\ ~Waiting(c) /\ phase # "dead" /\ Len(backlog) < Backlog
    /\ \E r \in Requests : r.client = c /\ backlog' = Append(backlog, r)
    /\ outcome' = [outcome EXCEPT ![c] = "awaited"]
    /\ UNCHANGED <<phase, req, params, resp>>

\* FCGX_Accept_r gives a request; a new HttpRequest and a new HttpResponse.
Accept ==
    /\ phase = "accept" /\ backlog # <<>>
    /\ req' = Head(backlog) /\ backlog' = Tail(backlog)
    /\ phase' = "parse"
    /\ params' = {} /\ resp' = "fresh"
    /\ UNCHANGED outcome

\* The process ends: Nginx answers for it who is still waiting.
Die ==
    /\ phase' = "dead" /\ backlog' = <<>>
    /\ outcome' = [c \in Clients |-> IF Waiting(c) THEN "lost" ELSE outcome[c]]
    /\ UNCHANGED <<req, params, resp>>

\* parseFcgiRequest: stoi of CONTENT_LENGTH throws, outside any try block.
ParseThrows == phase = "parse" /\ req.length = "2G" /\ Die

\* The request is read and the first route that matches is taken; without one
\* the answer is 404.
Parse ==
    /\ phase = "parse" /\ req.length = "int"
    /\ LET n == Dispatch(req.method, req.path)
       IN  IF n = 0
             THEN /\ phase' = "send" /\ resp' = "route not found"
                  /\ UNCHANGED params
             ELSE /\ phase' = "handle" /\ params' = Bound(Routes[n], req.path)
                  /\ UNCHANGED resp
    /\ UNCHANGED <<backlog, req, outcome>>

\* The handler writes into the response: a header, a body, a status.
Write ==
    /\ phase = "handle"
    /\ resp' = "handled"
    /\ UNCHANGED <<backlog, phase, req, params, outcome>>

Return ==
    /\ phase = "handle"
    /\ phase' = "send"
    /\ UNCHANGED <<backlog, req, params, resp, outcome>>

\* An exception leaves the handler (a field of the JSON body with another type,
\* an id that is no number): a fresh response replaces what it wrote.
Throw ==
    /\ phase = "handle"
    /\ phase' = "send" /\ resp' = "internal error"
    /\ UNCHANGED <<backlog, req, params, outcome>>

\* Mutant: a request without a route is dropped.
SendMatched ==
    /\ phase = "send"
    /\ outcome' = IF resp = "route not found" THEN outcome ELSE [outcome EXCEPT ![req.client] = resp]
    /\ phase' = "accept"
    /\ UNCHANGED <<backlog, req, params, resp>>

\* sendResponse and FCGX_Finish_r.
Send ==
    /\ phase = "send"
    /\ outcome' = [outcome EXCEPT ![req.client] = resp]
    /\ phase' = "accept"
    /\ UNCHANGED <<backlog, req, params, resp>>

\* FCGX_Accept_r fails: the loop ends and the socket is closed.
AcceptFails == phase = "accept" /\ Die

Next == \/ \E c \in Clients : Ask(c)
        \/ Accept \/ ParseThrows \/ Parse \/ Write \/ Return \/ Throw \/ Send
        \/ AcceptFails

Spec == Init /\ [][Next]_vars

\* The loop keeps running and every handler ends: it is straight-line code
\* whose calls of MySQL, of the blob store and of the model server return.
Fairness ==
    /\ WF_vars(Accept) /\ WF_vars(ParseThrows) /\ WF_vars(Parse)
    /\ WF_vars(Return \/ Throw) /\ WF_vars(Send)

FairSpec == Spec /\ Fairness

-----------------------------------------------------------------------------
(* Properties.                                                             *)

\* The route of the request in hand.
Chosen == Routes[Dispatch(req.method, req.path)]

\* A handler finds each parameter it asks for, once, so getParam never falls
\* back to the empty string (which stoi and stoull would throw on).
ParamsFound ==
    phase = "handle" =>
        \A name \in Reads(Chosen.handler) :
            Cardinality({p \in params : p[1] = name}) = 1

\* Where a route spells out the segment of the path.
Literal(route, path) == {i \in DOMAIN path : route.segments[i] = path[i]}

\* No route that matches spells out more of the path than the one chosen.
BestMatch ==
    \A n \in DOMAIN Routes : Matches(Routes[n], req.method, req.path) =>
        ~(Literal(Chosen, req.path) \subseteq Literal(Routes[n], req.path)
            /\ Literal(Chosen, req.path) # Literal(Routes[n], req.path))

\* The order of registration never hands a request to the handler of a route
\* less explicit than another that matches: a completion, a status query or an
\* initialisation never reaches the handler of a chunk, whatever the client
\* puts into the parameters.  One request is the exception: the ranking of the
\* shares is taken for a share whose token is "ranking".
RoutesApart ==
    phase = "handle" =>
        \/ BestMatch
        \/ req.method = "GET" /\ req.path = <<"api", "shares", "ranking">>

\* "GET /api/shares/ranking": the ranking of the shares is served by its own
\* handler.
RankingServed ==
    phase = "handle" /\ req.method = "GET" /\ req.path = <<"api", "shares", "ranking">> =>
        Chosen.handler = "ShareRanking"

\* Every request is answered in the end, with a route or without, after an
\* exception too; when the process has ended Nginx answers.
EveryoneAnswered == \A c \in Clients : Waiting(c) ~> ~Waiting(c)
=============================================================================
