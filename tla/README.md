# fileagent-server in TLA+

A model of the server under `src/src`: modules of its parts, model-checked with TLC on small
instances, and theorems about them, checked by TLAPS for all values of the constants. Every
safety property of the passing runs is proved; only liveness is left to TLC alone. Paths
below are relative to the repository, `src/src/...` for its C++ code.

## 1. The system

The server is one process behind Nginx. **One** thread accepts FastCGI requests and runs
one handler at a time, from the first statement to the answer. Beside it run the producer
and the recycler thread of the connection pool and the cleanup thread of the chunked
uploads. What a handler does is cut by calls that may fail (MySQL, the blob store, Redis,
the model server) and by crashes of the process.

| component | state | operations | talks to |
|---|---|---|---|
| start (`main.cpp`, `ConfigLoader.cpp`, `CacheManager.cpp`) | the configuration, which parts are built | load, validate, one step per part | every server it needs |
| ConnectionPool (`db/ConnectionPool.cpp`) | queue of idle connections, active count, `running_`, one mutex, one condition variable | init, getConnection, the deleter of its guard, producerLoop, recyclerLoop, shutdown | MySQL; every DAO borrows from it |
| statements (`db/PreparedStatement.cpp`, `db/MysqlConn.cpp`) | buffers, the open statement, the result of the connection | prepare, bind, execute, fetch, query, next, free | MySQL, on a lent connection |
| files and shares (`main.cpp`, FileService, FileDao, ShareService, ShareDao) | tables `files`, `shares`; blobs; caches by id and by hash | upload, check, download, delete, share, unshare, save, public download | pool, blob store, caches |
| lists (`main.cpp`, FileDao, UserDao) | none | one page per request | pool |
| upload form (`FastCgiServer.cpp`) | position in the body, the parts found | one turn of the loop per part | called by upload |
| chunked upload (`ChunkUploadService.cpp`, `main.cpp`) | table of sessions in memory, chunk files | init, chunk, status, complete, cleanup thread, destructor | catalogue of files, disk |
| accounts and sessions (AuthService, UserDao, SessionDao, `main.cpp`) | tables `users`, `sessions`; session cache | register, login, authenticate, logout, the two admin switches | pool, cache, rate limiter |
| rate limiter (`common/RateLimiter.h`) | per key the times of the requests | allow | called by register and login |
| front end (`FastCgiServer.cpp`, `HttpContext.h`, route table in `main.cpp`) | backlog, the request and response in hand | accept, parse, match, dispatch, answer | Nginx, all handlers |
| caches (`common/LruCache.h`, `common/RedisCache.cpp`) | list of entries and map of iterators; the keys and texts in Redis, the connection | put, get, remove, clear, exists | the services above |
| text chunker (`vector/TextChunker.cpp`) | the local variables of its loops | chunkByParagraph, chunkBySize | upload |
| search index (`VectorStore.cpp`, LlmService::embed, `main.cpp`) | list of embedded chunks in memory | index an upload, search, delete, restart | model server, files |
| calls out of the process (`LlmService.cpp`, `FastDfsClient.cpp`, `TextExtractor.cpp`) | sockets, buffers, temporary files, pipes | embed, FastDFS upload, download, remove, extraction of a PDF | model server, FastDFS, pdftotext |

What is hard here, and hardly tested: `running_` of the pool is written and notified
without its mutex; one condition variable serves clients and the producer; the queue is
filled from two sides; a delete touches blob, two caches and a row in that order; uniqueness
of a content rests on a lookup, not on a key; the cleanup thread may erase a session under
a running handler; a login writes row then cache and a logout cache then row; the first
route that matches wins; window arithmetic is unsigned; the index outlives the files it
describes; a peer that falls silent looks like one that has finished; a cached record is
found again by searching a text that users write into. `PROJECT.json` lists each at its
line, with the property that watches it.

## 2. Modules

A module `M` is the component, `MCM` instantiates it for TLC, `MProofs` holds its theorems.
Four MC modules put parts that share no state side by side, so that a behaviour is one of
them and one run checks all: `MCAccounts` (RateLimiter, Sessions, Statement), `MCCaches`
(LruCache, RedisCache), `MCServer` (FrontEnd, Startup, MultipartForm, Listing) and
`MCKnowledge` (SearchIndex, TextChunker, Outbound). `AccountsProofs`, `CachesProofs`, `ServerProofs`
and `KnowledgeProofs` hold the theorems of the same groups, each about the specification of one
part. Modules that are extended side by side prefix their `Init`, `Next` and `Spec` (`LimiterInit`,
`LookupNext`, `CallSpec`, `ChunkerInit`, `RedisInit`, `StartInit`, `FormInit`, `ListInit`).

* **Startup.** The configuration file gives each setting a value or none; `Read` is the
  fallback of every `as<T>`, `Offered` what a file may say, `Valid` the checks, and then one action per part. Redis and
  FastDFS may be unreachable, the provider of models unknown, the socket taken.
* **ConnectionPool.** A critical section is one action; the mutex is a variable because the
  producer holds it over a whole refill and because a waiter that has found its predicate
  false (`PrepareWait`) blocks (`Block`) in a second step, between which `Shutdown` may write
  the flag and notify in vain. `NotifyOne` wakes any one waiter, client or producer.
  `Deadline` and `Wake` are the timeout and the spurious wake-up of `wait_for`. `Return` is
  the deleter, also after shutdown. `Age` lets a prefix of the queue pass `idle_timeout`;
  `DbRestart` closes all sessions from the server's side.
* **Statement.** The lookup by name prepares a statement, the one by id sends a text, both on
  the connection the pool lent. `held` is what the statement has allocated, `results` the
  result that stays with the connection until its next query; each call may fail. Lengths
  are in units of 64 bytes: the widest address of the column is 8, the buffer 16.
* **FileCatalog.** One task at a time; each handler is a chain of actions named by
  `task.at`, one per call of the database, the store or the caches. A failed SELECT looks
  like an empty answer; a failed update may or may not have taken effect (`Update`).
  `config` is one of the configurations: local disk or FastDFS, LRU or Redis.
* **Listing.** A reader asks for page after page by position while other requests insert
  and delete rows; he stops at a page that is not full. The order of a list is said by the rows
  before each (`Before`): the n-th row has n - 1 before it.
* **MultipartForm.** A body is a sequence of atoms: the boundary, dashes, line breaks, letters.
  A form is a file, perhaps with a field behind it; `Body` is what a client sends for it, `ParsePart` one turn of the parser, `Upload`
  what the handler makes of the parts, `Check` the pre-check of the same content. A hash is
  the content it is made from.
* **ChunkUpload.** Handlers as above, cut at each call of the session manager, interleaved
  with `CleanerLoop`/`Sweep`. Chunk files are keyed by the index **as spelled** ("1", "01"),
  the set of received chunks by its number, as in the code.
* **Sessions.** Users, tokens, the session cache; `Expire` is MySQL's clock.
* **RateLimiter.** One action `Allow`. `KeyOf` is constant: see section 6.
* **FrontEnd.** The route table in registration order with its matcher, the loop around it,
  what a handler wrote before it threw.
* **LruCache / RecencyStore.** RecencyStore is the abstract promise of
  `CacheInterface.h`: bounded, loses only the least recently used entry, and only for want
  of room. LruCache is the list and the map of iterators; `Store` is the refinement mapping.
* **RedisCache.** A record becomes the text of its fields one behind the other, a number bare and a
  string between quotes, whatever characters it has; it is read back by searching for the
  quoted name of each field, as the code does. A command may be refused; once the connection is lost it stays lost until
  the process starts again, while Redis keeps what it holds.
* **StringFind.** `std::string::find`, on which the two parsers (MultipartForm, RedisCache) are built.
* **TextChunker.** One action per loop turn; a chunk is the sequence of text positions its
  bytes come from; size_t wraps at `Word`.
* **SearchIndex.** Uploads reduced to the outcomes the index depends on; embedding chunk by
  chunk; search over an arbitrary ranking.
* **Outbound.** `at` is the statement a call is at, `held` what it has taken, and the peer is an
  actor of its own: it writes piece by piece, ends, or stops half way. A pipe holds
  `PipeSize` pieces nobody has read.

Definitions marked "Mutant" are deliberate bugs: no specification uses them. Each replaces
the definition below it in one run, to show that the run's property can fail.

## 3. Runs

| run | properties | instance | distinct states |
|---|---|---|---|
| pool_safety | OneOwner NoLeak QueueBound ActiveExact CleanStop RetireJustified | 2 clients, 4 connections, min 1, max 2, 1 database restart | 95 798 |
| pool_liveness | CallReturns ShutdownReturns | 2 clients, 2 connections, min = max = 1 | 39 750 |
| pool_total (violated) | TotalBounded | 1 client, min = max = 2 | |
| files | HashUnique Intact ContentKept CacheCoherent ReadsExact | 2 users, 2 contents, 1 share, 2 ids, 3 configurations, faults of each kind, 1 crash | 1 318 618 |
| files_save (violated) | SavedIsOwned | no faults | |
| chunks | Whole Once SessionEnds StopReturns | 2 users, 1 upload of up to 2 chunks, 2 spellings, every fault | 256 270 |
| accounts | SlidingLimit RefusalJustified LogoutFinal LoginLasts ExpiryBinds RecordWhole GivenBackClean | limit 2, window 2, 8 instants; 2 users, 2 tokens, both caches, 1 fault, 1 crash; addresses of 1 and 8 units | 550 518 |
| caches | AnswersRecord AnswersLatest IsRecencyStore | 4 keys, room for 3, 2 values; a plain file name and one that spells a field | 11 026 |
| server | ParamsFound RoutesApart EveryoneAnswered ServesWhole Delivered PagesComplete | 2 clients, backlog 1, all routes, a parameter named like a route; every configuration; contents of up to 3 atoms, 2 uploads; 4 rows, 5 page sizes, 1 failed query | 268 478 |
| front_ranking (violated) | RankingServed | as server | |
| upload_break (violated) | UploadedIsFound | as server | |
| knowledge | ResultsExist ChunkIdUnique UploadSucceeds NothingLost Advances ReleasedOnce CompleteAnswer | 4 contents, 2 ids, 2 + 1 faults, 1 restart; all texts of at most 10 bytes, sizes 1 to 8 and the default, overlaps 0 to 2; answers of up to 4 pieces, a pipe of 1, a limit of 2 | 709 965 |

What they show:

* **pool_safety**: a connection is queued once or lent once, none leaks or is used after
  its deletion, the queue stays within max_size although two sides fill it, the count is the
  number of borrowers, the recycler destroys only connections idle for too long and never goes
  below min_size, and after shutdown nothing is left or comes back.
* **pool_liveness**: the wake-up that `shutdown()` may lose and the wake-up that may reach
  the wrong thread cost a waiter its deadline, not more.
* **files**: no two rows of one content while the database answers (HashUnique); rows and
  blobs correspond until a call fails (Intact); a file keeps its content until its owner asks
  to delete it, over failed uploads and crashes (ContentKept); between requests the in-memory
  caches hold what the table holds, whatever failed (CacheCoherent); a download gives
  the content of the row it was asked for (ReadsExact).
* **chunks**: a file made from an upload is its owner's and whole, once, over expiry in the
  middle of a handler.
* **accounts**: the limit holds in every window and a refusal does not prolong the wait; a
  logout is final, a login lasts, and an expired session lives on in its cache entry only
  (ExpiryBinds); a lookup finds the whole record or nobody (RecordWhole), and the
  connection comes back with no statement open (GivenBackClean).
* **caches**: the list and the map of the LRU implement RecencyStore; the text of a record
  gives the same record back whatever its file is called, and a cache that answers has the
  latest record put or none.
* **server**: everyone is answered; parameters are found; the order of registration hides
  no more explicit route, one excepted (section 6). When the loop starts, everything a handler
  relies on without asking is there (ServesWhole). The parser gives back the parts of a form
  to the byte, but for a line break at the end (Delivered). A reader sees every row that was
  there when he began unless one was deleted or a query failed (PagesComplete).
* **knowledge**: what a search names exists; a chunk is in the index once; only a text cut
  inside a character fails its upload; no text is lost by the chunker and every turn of it
  advances; every call that leaves the process gives back what it took exactly once
  (ReleasedOnce), and what it reports as a success is complete (CompleteAnswer).

Why the bounds are enough. Two clients are the fewest that compete for a connection beside
the producer; four connections are more than max_size with both lent, so the deleter meets a
full queue. Two ids, two users and one fault of each kind give every pair of requests with a
failure in one of them or between them; the file handlers never look at more than two rows
at once. An instant past the fourth already looks like an earlier one to a window of two.
Ten bytes hold two paragraphs longer than the small sizes with a separator. Four keys with
room for three are moved and removed at both ends and in the middle of the list. Three atoms hold
a boundary inside a line, a line break at either end and one doubled, and a second part
meets every content of one atom; two uploads meet a content stored before. Four rows let a
page begin before and after an insertion and a deletion. Four pieces are more than the limit
and the pipe together, so a converter dies of what it cannot write, or does not.
`MaxId`, `MaxRow`, `MaxUploads`, `MaxTime` and the fault bounds occur in guards only.

`CHECK_DEADLOCK FALSE` stands where the system may stop: a pool that is down, a clock or an
id counter at its bound, a process that has ended. Symmetry is used for safety properties only.

## 4. Fairness

* **Pool.** Every thread keeps running and every deadline passes (weak fairness). A thread
  that wants the mutex gets it in the end although others keep taking it: `std::mutex` does
  not promise this, the kernel's futex queue gives it in practice, so these steps have strong
  fairness, one condition per client. A borrower returns what it borrowed (a handler ends). A
  client need not call, `shutdown()` need not be called, no connect need succeed.
* **Cleanup thread.** It keeps running and its sleep ends.
* **Front end.** The loop keeps running and a handler ends: straight-line code, one bounded
  loop for the chunks of a text, and calls of MySQL, the store and the model server that are
  taken to return. No fairness on clients.

## 5. What is proved

Eight modules, each for every value of the constants its assumption allows. The bounds of the
runs (`MaxId`, fault counts, `MaxText` and so on) are constants like the others: a theorem
holds for every value of them, that is for any number of rows, faults or bytes.

| module | theorems (property of a run) | of |
|---|---|---|
| ConnectionPoolProofs | TypeCorrect, ConnectionHasOneOwner (OneOwner), NothingLeaks (NoLeak), ActiveCountExact (ActiveExact), QueueIsBounded (QueueBound), ShutdownIsClean (CleanStop), RetirementIsJustified (RetireJustified) | any finite set of clients, any connections, 1 <= MinSize <= MaxSize |
| FileCatalogProofs | TypeCorrect, RowsAreUnique (HashUnique), RowsMatchContents (Intact), ContentsAreKept (ContentKept), CachesAgree (CacheCoherent), ReadsAreExact (ReadsExact) | any users, contents, shares, configurations |
| ChunkUploadProofs | TypeCorrect, FilesAreWhole (Whole), FilesMadeOnce (Once) | any users, uploads, contents, chunk counts, set of faults |
| AccountsProofs | LogoutStays (LogoutFinal), LoginStays (LoginLasts), ExpiryHolds (ExpiryBinds); TypeCorrect, LimitHolds (SlidingLimit), RefusalsAreJustified (RefusalJustified); GivenBackAlways (GivenBackClean), RecordAlwaysWhole (RecordWhole) | any users, tokens and caches; any limit >= 1 and window; any addresses |
| CachesProofs | ImplementsStore (IsRecencyStore), MapMatchesList; AnswersRight (AnswersRecord), AnswersFresh (AnswersLatest) | any keys and values, any capacity, more nodes than it; any file names and any refusals, losses and restarts |
| ServerProofs | HandlersFindParams (ParamsFound), OrderSeparates (RoutesApart); StartsWhole (ServesWhole); FormsArrive (Delivered); PagesMissNothing (PagesComplete) | any clients, parameters and backlog; any values in the configuration; contents of any length, any number of uploads; any page sizes, rows and failed queries |
| KnowledgeProofs | SearchShowsFiles (ResultsExist), ChunksAreUnique (ChunkIdUnique), UploadsSucceed (UploadSucceeds); AllReleased (ReleasedOnce), AnswersComplete (CompleteAnswer); NothingIsLost (NothingLost), WindowsAdvance (Advances) | any contents cut into any chunks; any length of an answer, any pipe, any limit; any text, and sizes and overlaps that `ChunkerAssumption` and, for the last, `OverlapsSmall` allow |
| StringFindProofs | lemmas: FindIsFirst (what is found is the first occurrence), FindOne, FindTwo, FindNone (in a text known by its pieces) | any sequences |

Hardly any of these properties is inductive. What each proof adds, and why:

**ConnectionPoolProofs.**
1. `TypeInv` is TypeOK and "a client that holds has a connection"; each action keeps it.
2. `Phase` orders the life of the pool: who holds the mutex is at a place where it does
   (`MutexInv`), threads exist only after init (`StartInv`), and behind each stage of shutdown
   the flag is down and the joined thread is gone (`StopInv`).
3. `Shapes` reduces all actions to five effects on queue, objects and holders (a fresh
   connection is queued, one is taken, one comes back, some are dropped, all are drained).
   Ownership needs nothing else.
4. `Owned` = OneOwner and NoLeak is inductive only jointly: that a fresh address is not queued
   follows from NoLeak, that a deletion removes one owner from OneOwner. `Counted` adds the
   finiteness of the set of holders.
5. QueueBound is not inductive: the producer adds without looking at max_size. `QueueInv`
   says that while it fills (or init does) the queue is below min_size, which holds because it
   keeps the mutex from its test to its push. `EmptyInv` then gives CleanStop, since `Requeue` reads
   `running_`, which `Phase` says is down.

**FileCatalogProofs.** The properties speak of the state between requests, so the invariant
says what a handler in progress owes, one conjunct for each property:
* `Carries`: what `task` carries from call to call is what it was given, and a path is
  one of the content it stands for.
* `Unique`: whoever stands in front of the INSERT of createFile has found no row of the content.
  This is where "one handler at a time" is used; two handlers would break it.
* `Coherent`: the two caches are subsets of the table at every step, and a delete that is
  about to erase a row has taken it out of both. That its entry by hash is gone rests on
  `forget` finding the one by id, hence "the id is cached" from the lookup to `forget`.
* `Kept`: a delete removes the content of the row it deletes and of no other (HashUnique is
  needed: two rows of a content would share one path), and what an upload has stored is there until
  its row is. A save never reaches the INSERT.
* `Matched`: the stored contents are `Due`: the paths of the rows, without the one a delete
  has unlinked, with the one an upload has yet to give a row. FastDFS gives each copy a
  name of its own, local disk does not, and so `Named` distinguishes them.
* ReadsExact, about steps, follows from `Coherent` with Redis and from `Inv` without: a
  hit is the row of the table, and its content is stored.

**ChunkUploadProofs.** `Owned`: nothing is known of an id that was not given out. `MadeOnce`: once
a file is made the session is in the table only while its own handler is about to erase it,
or was erased by the cleanup thread, a crash or the destructor, none of which brings it back.
`Carried` follows a byte from the request to the file: the chunk file the session counts as
received, under the plain spelling that the merge reads, holds what was last acknowledged
(`Agrees`), and the merged content is complete (`Complete`) although the session may have gone
while it was read. All steps of the thread and of a crash are one case (`Losing`).

**AccountsProofs.** *Rate limiter*: the records alone do not determine the past, so `LimitInv`
relates them to the history: the records of a key are the end of what was granted, and everything
before them has left the window (`Remembers`).

*Sessions*: `Shape` says what a handler in progress looks like. LogoutFinal looks at an answer
only; it follows from `Gone`, which speaks of table and cache at every step: a token logged out is
in neither, and between the two steps of a logout it has left the cache already. `Kept` does the
same for a login: what was given out has its row until it is logged out (`LoginStays` asks that
the name for "no user" is none of a user).

*Lookups*: the places of a lookup (`Places`) and what its answer is at each of them (`Right`);
`RecordAlwaysWhole` asks that every address fits the buffer.

**CachesProofs.** *LRU*: `ImplementsStore` is the refinement: Init maps to Init of RecencyStore,
each operation to a step of it or a stutter, under the mapping `Store`. It needs `Linked` (the map
leads each key to its entry, and no entry is without one) and `Apart` (no two entries share a node
or a key): only with them does "the iterator the map has" name the entry the store means, and only
because keys do not repeat is the length of the list the number of keys held, which decides the
eviction. Every operation takes an entry out, puts one in front, or both, so two lemmas about
lists carry the order of use through all of them.

*Redis*: an answer is read from a text that other commands have written, so `RedisInv` speaks of
all that Redis holds: each text is the serialisation of the record it was made from (`TextsKept`),
an answer was read from one that is there, over a connection that is up (`Answered`), and what is
held is the latest while this process has its connection and no command was refused (`Fresh`; a
connection lost in the middle of a command ends the answers, so it does not matter whether the
command was done). The rest is about texts. A field is read right when no earlier piece of the
text holds its quoted name with a colon behind it (`NoPrefix`, which for two pieces in a row
follows from each). A number never holds a quote, so the id and the owner, which stand first, are
read right whatever the file is called; the fields behind the name are when the name has no quote.
The mutant that writes the name first breaks exactly this.

**ServerProofs.** *Routes*: `FrontInv` says that the requests are ones a client can make and that
a handler runs for the route that was chosen, with the parameters of its pattern. The rest is
about the table: `Shape` lists for each of the 26 routes what a request looks like that it
matches, `Overlap` which two can match the same one: a completion also fits the pattern of a
chunk, and is registered before it; the ranking of the shares is the exception of RoutesApart.

*Start*: `StartInv` has one conjunct per part, "there from the place behind the one that builds
it", and keeps what `Validate` found; `ReadNumbers` says that what was read is a number.

*Uploads*: `FormInv` places the parser in the body. The body is that of the form, as many parts as
there are files were read, each is the part of the form with that number up to a line break at the
end, and the parser stands at the delimiter of the next part or at the line break in front of it
(`At`, `DelimAt`). A step keeps this because the delimiter found next is that one, the line break
found next ends its line, and the end found is the end of this part: in a content that a client
may send no delimiter begins a line (`Clean`), so no line break in it is followed by one. In the
part that is cut out the empty line found first is the one behind the header, since headers have
no line break, and so header and content are those that were sent.

*Lists*: a reader pages by position while rows come and go. `UsersRead`: what he has read of the
users is the beginning of the list (the n-th he saw has n - 1 before it), for users are inserted
at the end and never deleted; so nobody is seen twice. `FoundRead`: of the rows that were there
when he began, those before his position were read. An insertion moves the files towards the end,
so he may see one twice and misses none; a deletion would move one past him, hence the condition.
That a page holds the rows of its positions is `PageRows`, which rests on `OrderByRank`: rows can
be told apart by the number of rows before them, and every number occurs.

**KnowledgeProofs.** *Index*: `Sound`: whatever the index, the summaries or the upload in progress
say of a row is its content or the row is deleted, because ids are given out in order and never
again. `IndexedOnce`: an upload has indexed the chunks before the one it is at, each once. The
assumption that the mark for a missing row is no content (`NoContent \notin Contents`) keeps the
two apart.

*Calls*: the first needs to know what is held on the way: `HeldAt` reads it off the place the call
is at, and `Places` which calls pass it. The second needs `Heard`: a peer that has ended has
written everything, and a loop that was left without the mark found nothing more to read from a
peer that does not talk.

*Chunker*: a chunk is a sequence of positions; `Block` is one without a gap, `Piece` one that
skips newlines only. `ChunkerInv` follows the text through the loops: at every step each byte that
is no newline is in a chunk, in the chunk being filled, in a paragraph not merged yet, or in the
part of the long paragraph the window has not reached (`Covered`), and those follow each other in
the text (`Paragraphs`, `Current`, `Long`). `NextStarts` is the arithmetic of the window: in
size_t nothing wraps, the next window begins behind the start of this one and not behind its end.
`ChunkerAssumption` says that a text and a window fit a word and that an overlap is at most a half
of the size and one; without it the lemma is false (section 6). `OverlapsSmall` asks for a quarter
and two, below which the advance is a quarter too. The server's callers take a fifth.

What the theorems rest on: the assumptions named in the modules (each an `ASSUME` that TLC
evaluates), and three hypotheses stated where they are used: no user has the name of "no user"
(`LoginStays`), the addresses fit the buffer (`RecordAlwaysWhole`), overlaps are small
(`WindowsAdvance`). The instances of the runs satisfy all of them.

Only model-checked: all liveness (CallReturns, ShutdownReturns, SessionEnds, StopReturns, EveryoneAnswered).
Fairness and ENABLED are out of the prover's reach. The four violated runs are counterexamples
and need no proof.

## 6. Where the code and its documents differ

Four are checked, as runs TLC refutes:

* `pool_total`: `ConnectionPool.cpp:240` counts idle connections only, so open ones exceed
  the documented maximum (`FileAgent_Server_需求文档.md:219`).
* `files_save`: `FileService.cpp:60` returns the sharer's row, so "share saved" leaves the
  user without a file (`main.cpp:1052`, 需求文档:517).
* `front_ranking`: `GET /api/shares/ranking` (`main.cpp:1681`) is taken by the route of a
  share token (`main.cpp:1629`); 需求文档:1058 lists it. Hence the exception in RoutesApart.
* `upload_break`: `FastCgiServer.cpp:85` drops a line break that belongs to the content, so
  the file is stored under another hash and the pre-check of `PROJECT_INTRODUCE.md:51`
  misses it. Hence the exception in Delivered.

The others were met while reading and are in the models (a property that denied one would
fail); they are the reason why some properties are stated under a condition:

* No heartbeat: `heartbeat_interval` is unused and `ConnectionPool.cpp:138` lends a dead
  connection again and again; 需求文档:217 and `PROJECT_INTRODUCE.md:61` promise one.
* `RedisCache.cpp:109`: a remove is skipped while Redis is lost and the entry answers after a
  restart; `PROJECT_INTRODUCE.md:30` promises seamless degradation, `RedisCache.h:22` a
  reconnection that nothing does. Hence `NoRevival` in ContentKept and the condition on
  restarts in LogoutFinal.
* `main.cpp:827`: after a deduplicated upload the answer names a row its uploader may not
  download; 需求文档:490 and `PROJECT_INTRODUCE.md:51` say he can refer to it.
* `main.cpp:702`: a completion whose createFile failed has removed its chunks; 需求文档:509
  says they are kept for another attempt.
* `main.cpp:595`: the result of writing a chunk is not looked at; with the fault "cut" a
  merged file may be short, and Whole compares it with what was written.
* `ChunkUploadService.cpp:117`: expiry forgets a session and leaves its chunk files;
  需求文档:507 says they are cleaned up.
* `SessionDao.cpp:50`: a cached session is answered after its expiry; `SessionDao.h:24` says it is
  checked. Hence ExpiryBinds speaks of the cache entry.
* A user who is disabled keeps the session he has: `authenticateRequest` does not look at his
  status.
* `main.cpp:342`: the result of the logout's DELETE is ignored and line 344 logs success.
* `FastCgiServer.cpp:231`: the headers with the client's address are not copied, so all clients
  share the key "unknown"; `RateLimiter.h:15` says "每个 IP".
* `TextChunker.cpp:51`: a window may end one byte behind its size (line 126 says it does not); sizes
  count bytes, not characters (`TextChunker.h:32`).
* `TextChunker.cpp:71` compares the next start with the end of the window, not with its start, where the
  comment of line 70 promises to advance a quarter of the size ("至少前进 chunk_size/4"). With an overlap
  above a quarter and two, and a window that ends at an early newline, the advance is shorter (size 8,
  overlap 5, a newline at the sixth byte: 1, as TLC shows with `Overlaps = {5}`); above a half
  and one the next window begins where this one did, or before it, and line 69 may wrap. The
  server asks for a fifth. Hence ChunkerAssumption and OverlapsSmall.
* `LlmService.cpp:315`: `dump()` of a chunk cut inside a character throws outside every try
  of the upload, and so do `stoi` of a port (301) and of a status line (116); `main.cpp:434` says a
  failing AI does not matter. Hence the exception in UploadSucceeds and the result "thrown"
  of Outbound.
* `LlmService.cpp:119`: an answer in the chunked coding of HTTP/1.1 is not decoded, so its
  embedding fails; an answer `[[]]` gives an empty vector; the timeout of line 62 is one of each
  call of recv, not of the answer.
* `TextExtractor.cpp:145`: a text longer than the limit by more than a pipe holds makes the
  extraction fail instead of cutting it: the converter dies of the closed pipe and its status
  is not 0. The mark may also stand behind a text that is whole.
* `PreparedStatement.cpp:218`: the comment says a truncated row is no error, and line 219 answers
  that there is none. `bindInt64` leaks, as its own comment says; nothing calls it.
* `FileDao.cpp:96`: a list whose query failed is an empty page with code 0; "total" of the
  list of files is the size of the page (`main.cpp:802`).
* `ConfigLoader.cpp:120`: `threads` is checked and nothing uses it; when the socket cannot be
  opened, `main` ends with 0 (`FastCgiServer.cpp:315`).
* `FastCgiServer.cpp:106`: the content type of a part is lost when it is its last header.
* `FileService.cpp:60`: with a failing lookup an upload indexes an existing row again, so
  chunk ids repeat (`VectorStore.h:23`). Hence `dbFaults = 0` in ChunkIdUnique.
* Nothing rebuilds the index after a restart, as `VectorStore.h:14` says.

## 7. Abstractions to know of, and what is not modelled

Contents, hashes, names and tokens are model values; equal hashes mean equal contents. The
sizes of files, the download counter and the summary of a cached row are not kept. Redis
keeps what it held over a restart of the server. A local file that is written short without
an error (`main.cpp:162`) counts as written. Time in Sessions and ChunkUpload is a set
of things that have expired. The query string is not parsed. The parts of a composed MC
module share no state in the model; where one depends on another in the code (a handler on
the parser, the index on the model server) the other appears as its outcomes.

Not modelled: TransactionGuard and the transaction calls of MysqlConn (nothing calls them);
the loop of the agent and the chat and analysis of LlmService, whose logic is in agents-cpp,
which the repository does not contain; hashing and string helpers (library code, equal hashes
are equal contents); logging; the text branch of TextExtractor (one cut of a string); health, the
list of shares and the ranking (one SELECT each); the web client and the deployment.

## 8. What could come next

1. Model: the completion of a chunked upload composed with FileCatalog, so that Whole and
   HashUnique meet in one state.
2. RedisCache: an abstract cache that both it and LruCache implement.
