----------------------------- MODULE RedisCache -----------------------------
(***************************************************************************)
(* The caches of src/src/common/RedisCache.cpp: RedisClient, and the three *)
(* implementations of CacheInterface that write records into Redis as a    *)
(* text of their own, made and read without a JSON library.                *)
(*                                                                         *)
(* A text is a sequence of atoms: the quote, the colon, the name of a      *)
(* field, a number, any other character.  put, get and remove send one     *)
(* command each, so each is one step.                                      *)
(***************************************************************************)
EXTENDS StringFind, FiniteSets

CONSTANTS
    FileNames,     \* texts a file may be named: any atoms
    UserIds,       \* numbers, as atoms
    MaxRefusals,   \* bound: commands Redis answers with an error
    MaxLosses,     \* bound: losses of the connection
    MaxRestarts    \* bound: restarts of the process

\* The atoms that are numbers.
Numbers == {"0", "1", "2"}

ASSUME RedisAssumption ==
    /\ UserIds \subseteq Numbers
    /\ \A n \in FileNames : n \in Seq(Range(n))

-----------------------------------------------------------------------------
(* The text of a record.                                                   *)

Quote == "'"
Colon == ":"
Comma == ","

Text(s) == <<Quote>> \o s \o <<Quote>>

Prefix(f) == Text(<<f>>) \o <<Colon>>

\* A field of a text: a number bare, a string between quotes as it is.
Number(f, x) == Prefix(f) \o <<x>> \o <<Comma>>
String(f, s) == Prefix(f) \o Text(s) \o <<Comma>>

\* Mutant: the name comes before the ids.
FileTextNameFirst(r) ==
    String("filename", r.filename) \o Number("id", r.id) \o Number("user_id", r.user_id)
        \o String("file_hash", r.file_hash) \o Number("file_size", r.file_size)
        \o String("storage_path", r.storage_path) \o Number("status", r.status)
        \o String("created_at", r.created_at)

\* serializeRecord, which leaves out the summary and the tags; the last comma
\* stands for the brace.
FileText(r) ==
    Number("id", r.id) \o Number("user_id", r.user_id) \o String("filename", r.filename)
        \o String("file_hash", r.file_hash) \o Number("file_size", r.file_size)
        \o String("storage_path", r.storage_path) \o Number("status", r.status)
        \o String("created_at", r.created_at)

SessionText(r) ==
    Number("id", r.id) \o Number("user_id", r.user_id) \o String("session_token", r.session_token)
        \o String("expires_at", r.expires_at) \o String("created_at", r.created_at)

Serialize(kind, r) == IF kind = "session" THEN SessionText(r) ELSE FileText(r)

FindInt(data, f) ==
    LET pos == FindIn(data, Prefix(f), 1)
    IN  IF pos = 0 \/ data[pos + Len(Prefix(f))] \notin Numbers
          THEN "0" ELSE data[pos + Len(Prefix(f))]

\* From the quote behind the name of the field to the next one.
FindStr(data, f) ==
    LET key == Prefix(f) \o <<Quote>>
        pos == FindIn(data, key, 1)
        end == FindIn(data, <<Quote>>, pos + Len(key))
    IN  IF pos = 0 \/ end = 0 THEN <<>> ELSE SubSeq(data, pos + Len(key), end - 1)

FileOf(data) ==
    [id |-> FindInt(data, "id"), user_id |-> FindInt(data, "user_id"),
     filename |-> FindStr(data, "filename"), file_hash |-> FindStr(data, "file_hash"),
     file_size |-> FindInt(data, "file_size"), storage_path |-> FindStr(data, "storage_path"),
     status |-> FindInt(data, "status"), created_at |-> FindStr(data, "created_at")]

SessionOf(data) ==
    [id |-> FindInt(data, "id"), user_id |-> FindInt(data, "user_id"),
     session_token |-> FindStr(data, "session_token"),
     expires_at |-> FindStr(data, "expires_at"), created_at |-> FindStr(data, "created_at")]

Deserialize(kind, data) == IF kind = "session" THEN SessionOf(data) ELSE FileOf(data)

-----------------------------------------------------------------------------
(* Redis and the connection to it.                                         *)

NoRecord == [id |-> "none"]
NoGot == [key |-> <<>>, record |-> NoRecord]

\* What the server puts into its caches, each under a key of the record.
FileRecords ==
    {[id |-> "1", user_id |-> u, filename |-> n, file_hash |-> <<"h">>, file_size |-> "2",
      storage_path |-> <<"p">>, status |-> "1", created_at |-> <<"d">>] :
        u \in UserIds, n \in FileNames}

SessionRecords ==
    {[id |-> "1", user_id |-> u, session_token |-> <<"t">>, expires_at |-> <<"d">>,
      created_at |-> <<"d">>] : u \in UserIds}

Records(kind) == IF kind = "session" THEN SessionRecords ELSE FileRecords

\* makeKey: the three caches share one Redis.
MakeKey(kind) ==
    CASE kind = "id"      -> <<"file:id:", "1">>
      [] kind = "hash"    -> <<"file:hash:", "h">>
      [] kind = "session" -> <<"session:", "t">>

Kinds == {"id", "hash", "session"}
RedisKeys  == {MakeKey(kind) : kind \in Kinds}

VARIABLES
    redis,     \* what Redis holds: a text for each of its keys
    serving,   \* Redis runs
    context,   \* context_: "up"; "broken", which nobody has noticed; "err"; "none"
    got,       \* the last answer of a get
    source,    \* history: the record each text of Redis was made from
    latest,    \* history: the record put last under a key and not removed since
    refusals, losses, restarts

faults == <<refusals, losses, restarts>>
redisVars == <<redis, serving, context, got, source, latest, faults>>

RedisInit ==
    /\ redis = [k \in {} |-> <<>>] /\ source = [k \in {} |-> NoRecord]
    /\ serving \in BOOLEAN
    /\ context = IF serving THEN "up" ELSE "none"
    /\ got = NoGot
    /\ latest = [k \in RedisKeys |-> NoRecord]
    /\ refusals = 0 /\ losses = 0 /\ restarts = 0

\* isConnected: a broken connection passes for one until a command fails.
IsConnected == context \in {"up", "broken"}

Set(k, kind, r) ==
    /\ redis' = [x \in DOMAIN redis \cup {k} |-> IF x = k THEN Serialize(kind, r) ELSE redis[x]]
    /\ source' = [x \in DOMAIN source \cup {k} |-> IF x = k THEN r ELSE source[x]]

\* Mutant: nothing is deleted.
DelNot(ks) == UNCHANGED <<redis, source>>

Del(ks) ==
    /\ redis' = [x \in DOMAIN redis \ ks |-> redis[x]]
    /\ source' = [x \in DOMAIN source \ ks |-> source[x]]

\* A command: skipped without a connection; done; refused by Redis with an
\* error reply; or it meets a broken connection, which ends the context.
Command(effect) ==
    \/ ~IsConnected /\ UNCHANGED <<redis, source, context, refusals>>
    \/ context = "up" /\ effect /\ UNCHANGED <<context, refusals>>
    \/ /\ context = "up" /\ refusals < MaxRefusals /\ refusals' = refusals + 1
       /\ UNCHANGED <<redis, source, context>>
    \/ context = "broken" /\ context' = "err" /\ UNCHANGED <<redis, source, refusals>>

PutRecord(kind, r) ==
    /\ Command(Set(MakeKey(kind), kind, r))
    /\ latest' = [latest EXCEPT ![MakeKey(kind)] = r]
    /\ got' = NoGot
    /\ UNCHANGED <<serving, losses, restarts>>

RemoveRecord(kind) ==
    /\ Command(Del({MakeKey(kind)}))
    /\ latest' = [latest EXCEPT ![MakeKey(kind)] = NoRecord]
    /\ got' = NoGot
    /\ UNCHANGED <<serving, losses, restarts>>

GetRecord(kind) ==
    /\ Command(UNCHANGED <<redis, source>>)
    /\ got' = IF context = "up" /\ refusals' = refusals /\ MakeKey(kind) \in DOMAIN redis
                THEN [key |-> MakeKey(kind), record |-> Deserialize(kind, redis[MakeKey(kind)])]
                ELSE NoGot
    /\ UNCHANGED <<serving, latest, losses, restarts>>

\* A key's hour, or its seven days, are over.
Expire ==
    /\ \E k \in DOMAIN redis : Del({k})
    /\ got' = NoGot
    /\ UNCHANGED <<serving, context, latest, faults>>

\* Redis, or the network, fails: the command under way may be done all the same.
Lose ==
    /\ context = "up" /\ losses < MaxLosses /\ losses' = losses + 1
    /\ \/ context' = "broken" /\ UNCHANGED <<redis, source, latest>>
       \/ /\ context' = "err"
          /\ \E kind \in Kinds :
               \/ \E r \in Records(kind) :
                     Set(MakeKey(kind), kind, r) /\ latest' = [latest EXCEPT ![MakeKey(kind)] = r]
               \/ Del({MakeKey(kind)}) /\ latest' = [latest EXCEPT ![MakeKey(kind)] = NoRecord]
    /\ serving' \in BOOLEAN
    /\ got' = NoGot
    /\ UNCHANGED <<refusals, restarts>>

RedisStarts ==
    /\ ~serving /\ serving' = TRUE
    /\ got' = NoGot
    /\ UNCHANGED <<redis, context, source, latest, faults>>

\* The process ends and starts again: the only time a connection is made.
Restart ==
    /\ restarts < MaxRestarts /\ restarts' = restarts + 1
    /\ context' = IF serving THEN "up" ELSE "none"
    /\ got' = NoGot
    /\ latest' = [k \in RedisKeys |-> NoRecord]
    /\ UNCHANGED <<redis, serving, source, refusals, losses>>

RedisNext ==
    \/ \E kind \in Kinds :
          (\E r \in Records(kind) : PutRecord(kind, r)) \/ RemoveRecord(kind) \/ GetRecord(kind)
    \/ Expire \/ Lose \/ RedisStarts \/ Restart

RedisSpec == RedisInit /\ [][RedisNext]_redisVars

-----------------------------------------------------------------------------
(* Properties.                                                             *)

HasQuote(r) == "filename" \in DOMAIN r /\ Quote \in Range(r.filename)

\* Whatever a file is called, and whatever was refused or lost on the way, the
\* cache answers with the id and the owner of the record Redis was given, and
\* with all of its stored fields unless a quote ends its name early.
AnswersRecord ==
    got # NoGot =>
        LET r == source[got.key]
        IN  /\ got.record.id = r.id /\ got.record.user_id = r.user_id
            /\ ~HasQuote(r) => got.record = r

\* Until Redis refuses a command or the process restarts, no answer is older
\* than the last put or remove of its key, wherever the connection broke.
AnswersLatest ==
    got # NoGot /\ refusals = 0 /\ restarts = 0 =>
        got.record.id = latest[got.key].id /\ source[got.key] = latest[got.key]
=============================================================================
