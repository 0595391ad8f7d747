# A verification project for hyperfox

TLA+ modules of hyperfox, TLC runs that model-check them on small instances, and
theorems that TLAPS proves for every instance. Every definition names the lines
of the source it stands for, in `PROJECT.json` ("map"). This file is for a reader
who has the repository.

## The system

Hyperfox is an HTTP/HTTPS proxy that records what passes through it. One process
holds all of it:

```
 client --> net/http server --> Proxy.ServeHTTP --> http.Transport --> origin
                                     |  Close of the capture writer
                                     v
                          channel res (256 records)
                                     |  one goroutine that ranges over it
                                     v
                   one goroutine per record: storage.Insert, wsBroadcast
                                     |                    |
                                     v                    v
                               SQLite table       websocket clients (GET /live)
                                     ^
                                     |
                               REST API (GET /records...)
```

| component | code | state | operations |
|---|---|---|---|
| Live feed | `websocket_service.go` | `wsClients` under `wsMu`; per connection: socket, reader goroutine | `liveHandler`, `wsAddConn`, `wsReadMessages`, `wsBroadcast`, `wsRemoveConn` |
| Recorder | `main.go` 126-147, `capture.go` | channel `res`, a goroutine per record, the table | send, receive, insert, announce, the end of the process |
| Proxy requests | `proxy.go` 189-308, `capture.go` 67-107 | per request: the body buffers, `out.Body`, the writers; the lists of directors, interceptors, writers, loggers | `ServeHTTP`, `Close` |
| Certificates | `gencert.go`, `proxy.go` 377-389 | mutex `mu`, two files per host, the root CA | `CreateKeyPair`, `certificateLookup` |
| Listeners and DNS | `proxy.go` 132-138, 310-423 | `p.srv`, `p.ln`, `p.rt`, `p.dnsServer`, all unlocked | `Start`, `StartTLS`, `Stop`, `SetCustomDNS`, `dialContext` |
| Database start-up | `database.go`, `main.go` 79-90 | files `hyperfox-%05d.db` or any file named with `-db`, the table in them | `initDB` |
| REST API | `api_service.go`, `services.go` 83-138 | none of its own; reads the table | list with search and pages, one record, its bodies; the token |
| Keyword index | `keywords.go` | none | `peek`, `extractKeywords` |
| Start-up and services | `main.go` 62-180, `services.go` 140-284 | the flags, the API and UI servers, the wait for the proxy servers | `main`, `startServices` |
| Logger, web UI | `logger.go`, `ui/` | none | printing, static files |

How they meet: `ServeHTTP` calls `Close` on the capture writer, which sends on the
channel; the saving goroutine calls `wsBroadcast`; a client of the feed reads the
list again through the REST API when it is told of a record; TLS handshakes call
`certificateLookup` from goroutines of `net/http`; `main` starts `Start` and
`StartTLS` on the *same* `Proxy`, so both servers share its fields.

What is hard in it: goroutines that write to one connection, or remove it while
others use it; a lock held across network writes that may never return; a bounded
channel between the client's goroutine and the database; origins that answer
before the request was sent, and copies that break off; a process that ends
between any two steps and leaves files; several processes that start in one
directory; two servers that overwrite each other's fields; a client that walks
through pages of a table that grows under it. `PROJECT.json`
("hazards") lists each at its line, with the properties that would catch it.

What makes each component correct:

- live feed: one writer per connection, none after `Close`, nothing delivered
  twice, departed clients let go, every broadcast ends;
- recorder: a record is never in two places or in none, is stored once, is
  announced after it is stored, and a crash loses only what was not stored;
- proxy requests: what is recorded is what was relayed; every way out closes what
  it opened; `ServeHTTP` returns;
- certificates: a pair that `CreateKeyPair` names loads; a whole pair is kept; the
  mutex is always given back;
- listeners: no request without a transport; `-dns` is honoured;
- start-up: hyperfox serves all it was asked for, or ends;
- REST API and keywords: a search finds what was stored, once, on pages that a
  client can walk through, and a body is given back as it was captured;
- database: a process that goes on has its table; without `-db` it does not store in
  the database of one that ran before it.

## Modules

| module | models | state and code |
|---|---|---|
| `LiveFeed` | `websocket_service.go` | `clients`, `mu` are `wsClients`, `wsMu`; `adder`, `reader`, `caster` are the program counters of the three kinds of goroutine; `todo`, `writing`, `failed` are the loop of `wsBroadcast` and its deferred calls; `closed`, `peer`, `frames` are the connections |
| `Recorder` | `main.go` 126-147 | `exchange` is how far `ServeHTTP` is, `ch` the channel, `saving` the goroutine of each record, `db` the rows in the order of their ids, `process` whether it runs |
| `TrafficLog` | abstract: what the recorder promises | taken, pending and stored records; no channel, no goroutines |
| `Hyperfox` | `main.go` 126-147 with the feed | composes `Recorder` and `LiveFeed`: the broadcast of a record is the call its goroutine makes (`Announce`, `Announced`) |
| `Proxy` | `ServeHTTP`, `CaptureWriteCloser.Close` | `at` is the program counter; `sent`, `body`, `bodyCopy`, `outBody` the request body and its two buffers; `origin`, `given`, `copied` the chunks of the response that came, that the client got, that each writer got; `shut` the writers closed; `ExchangeOf` and `SavingOf` say where `Recorder` sees a request |
| `Gencert` | `CreateKeyPair`, `certificateLookup` | `mu` is `mu`; `cert` and `key` are the two files, each absent, torn or of a pair; `root` is the root CA of the running process |
| `Listeners` | `Start`, `StartTLS`, `Stop`, `dialContext` | `pc` is the statement each of the two is at; `ln`, `rt`, `dns` are `p.ln`, `p.rt`, `p.dnsServer`; `locked` is the mutex inside `p.srv` |
| `Startup` | `main`, `startServices`, `SetCustomDNS` | `flags` is what the command line asks for, `main` where the goroutine of `main` is, `service` the API and the UI. It holds an instance of `Listeners`: `OpenBrowser` is the wait for the program that shows the UI, `StartServer` is where their goroutines begin, `ServerEnds` where one takes the process with it |
| `Keywords` | `keywords.go` | no state: `peek` and `extractKeywords` as operators over buffers of short texts, with what `peek` leaves of a buffer (`Peeked`) |
| `RecordsAPI` | `capturesHandler`, `recordHandler`, `replyBinary`, `Close` of `capture.go` 67-107 | `at`, `q`, `size`, `page`, `rows`, `pages` are a client that walks through a search; `got` is what it fetched; the table is an instance of `TrafficLog`, which goes on storing; `content` is what each exchange was |
| `Database` | `initDB`, `main` 79-90 | `flag` says who was started with `-db`; `name`, `file` are `databaseName` and the files of the directory; `ran`, `over` are history: who has run, and who had when each started |
| `MC...` | instances for TLC | |
| `LiveFeedProofs`, `RecorderProofs`, `HyperfoxProofs`, `ProxyProofs`, `GencertProofs`, `StartupProofs` (with `Listeners`), `RecordsAPIProofs` (with `Keywords`), `DatabaseProofs` | theorems | one for each row above with state of its own |

A definition whose comment begins with "Fault:" is not the code: it is a wrong form
of the definition after it, used by `PROJECT.json` ("mutants") to show that a
property can fail. Where a decision of the code is worth getting wrong, it has an
operator of its own (`Enqueue`, `Hold`, `TransportOf`, `Usable`), so that the fault is
as small as the decision.

### Choices that matter

- **Goroutines are interleaved at every point where another can be seen**: a lock,
  a channel operation, one network write, one file operation. What runs under a
  lock and cannot block (`wsRemoveConn`) is one step.
- **A write to a websocket returns only if the peer lets it.** `Send` and `Greet`
  are enabled while the peer is there, but nothing obliges them to happen:
  `Progress` makes them fair only once the peer has left. `PeersRead` is the
  separate assumption that peers read; the server cannot enforce it.
- **A write to a departed peer may succeed**: TCP buffers it. So `Write` may lose a
  message without an error.
- **A body is the number of its chunks.** The code copies in order and changes
  nothing, so a prefix is its length. `io.MultiWriter` writes a chunk to the client
  first, then to each writer, and stops at the first error: `CopyChunk`.
- **The transport reads the buffer `body` also after `RoundTrip` has returned**
  (`Upload`): an origin may answer early. `Close` reads `bodyCopy` instead, because
  `out.Body` was reset in between.
- **An insert is one atomic append that may fail**; a failed one returns a nil id.
- **A file is absent, torn or whole.** `os.Create` and `os.OpenFile` truncate; the
  write that follows makes the file whole or fails. Two whole files load as a pair
  only when they are of the same pair.
- **An error in reading a file that is there** is not told apart from its absence by
  the code. It is in the model, and `readError` remembers it: `LookupSucceeds` and
  `PairKept` are stated for runs without one, since after one the code does replace
  a good pair.
- **Assigning `p.srv` replaces the mutex in it.** `net/http` locks it around every
  change of a connection's state; unlocking a fresh one is a fatal error of the Go
  runtime (`Tracked`).

- **Two servers or services want one port** only when `-ui-addr` has no port: then
  `uiServer` takes the API's default (`PortTaken`). Any other bind may fail for reasons
  outside, and then ends the process: `ServiceFails`, `ListenFails` and `ServerEnds`.
- **`RecordsAPI` reads `TrafficLog`, not `Recorder`.** `Recorder` implements it
  (`ImplementsLog`, and for every instance the theorem `RecorderImplementsLog`), and the
  API sees nothing of the recorder but the rows. The two queries of `capturesHandler` are
  two steps; the recorder may store between them.
- **A text is a short sequence of characters of three kinds**: those that make words,
  blanks, the others. It is also the bytes of a body. Keywords are a set of words: a
  `LIKE` of a term without blanks cannot see their order.
- **gzip is external**: `Gunzip` is a constant operator that says what some bytes
  decompress to, up to where the stream ends or breaks, or `NotGzip`. `replyBinary` ignores
  the error of a stream that breaks off and sends what came before; so does `Reply`.
- **A `bytes.Buffer` has its bytes and how many of them have been read.** `Close` copies the
  request body to one, and the capture writer is another; `Bytes` is what has not been
  read. `extractKeywords` reads both (`Peeked`), so that what `Bytes` gives depends on
  when it is called: `MakeRecord` evaluates the fields in the order of the literal.
- **A body goes through hex and back.** The query selects `hex(body)`, and
  `getCaptureRecord` decodes it, with the errors of `hex.DecodeString`: an odd length, or
  what is no digit. The coding (`HexOf`) is a constant, two digits for each byte and no
  two bytes alike.
- **A fetch answers 500** when there is no row, when the query or the decoding fails, and when
  `url.Parse` refuses the record's URL (`url` of an exchange). `Close` makes no record of a
  request body that cannot be read (`read`).
- **The status is a number**: its column is an INTEGER, so that SQLite compares a term with it
  as a number, and `0200` finds 200 (`NumberIn`).
- **Any file may be named with `-db`, also one called `hyperfox-%05d.db`.** That is how one
  goes back to an earlier capture.
- **main waits for the program that opens the UI** (`browser.OpenURL`) before it starts the
  proxy servers: `OpenBrowser`, which is fair only under `BrowserEnds`.
- **The hits of a search are a function of the found rows and their ranks** (`FoundRows`,
  `Rank`, `Hits`): the order of the ids, without recursion, so that it can be reasoned about.
- **One column stands for each kind of comparison** in a search: the host for those
  compared with `LIKE`, which ignores case, the method for those compared with `=` as texts,
  the status for the one compared as a number.

## Runs

| run | question | bounds | states |
|---|---|---|---|
| `live_feed` | the seven properties of the feed | 2 connections, 2 broadcasts | 23,902 |
| `recorder` | accounting, storing once, the traffic log, liveness | 3 exchanges, channel of 1 | 1,689 |
| `recorder_insert` | does a failed insert cost only its record? **violated** | as above | |
| `hyperfox` | does a live client learn of every record? does a stalled one stop the recording? | 2 exchanges, 2 clients, channel of 1 | 689,044 |
| `proxy` | the record against what was relayed; every way out; `Recorder` implemented | 2 requests, 2 writers (the capture tool last), 0-1 chunks up, 0-2 down, channel of 1 | 86,813 |
| `proxy_partial` | is `Close` called only after the whole body? **violated** | as above | |
| `gencert` | loading after the mutex, keeping pairs, ending | 3 handshakes for one host, 2 root CAs, any number of restarts | 110,156 |
| `gencert_root` | is the certificate signed with the root CA given? **violated** | as above | |
| `listeners` | a transport for every request; one server alone; all that was asked for or an end | every choice of `-http`, a CA certificate, `-api`, `-ui`, `-dns` and a `-ui-addr` without a port; 2 requests | 390,182 |
| `listeners_dns` | does `-dns` bypass the OS resolver? **violated** | as above | |
| `records_api` | does a walk through a search find what it should, once? is a page within the count? is a body what was captured? | 3 records, one of which has any response body of up to 3 characters, or one of four gzip bodies, below, at and above what is peeked; once more with a URL that does not parse and a request that is not read (20 contents in all); pages of 1 and 2; 3 searches, of 0, 2 and 2 terms; words of at least 2 characters, 2 characters peeked; bytes of two digits of base 3 | 126,197 |
| `database` | a table for every process; a new database without `-db` | 3 processes, each with `-db`, for any of 4 files, or without | 383,045 |

Why the bounds are enough:

For safety no bound matters in the end: every invariant that a passing run checks, the
action property and the safety part of both refinements are also proved, for any values
of the constants ("Proofs"). The bounds have to be enough for liveness, and for a run to
find a fault before a proof is tried:

- Two connections and two broadcasts are the least with which two goroutines wait
  for the lock that a third holds, one connection fails while another is visited,
  and two broadcasts both defer the removal of the same connection.
- A channel of one record is full as soon as one waits, so the second and third
  sender block; the code's 256 only make that later.
- Two chunks down let a copy break off before, between and after chunks; one chunk
  up lets the transport be before or after sending it. A second writer placed before
  the capture tool is the case in which client and record may differ; `main.go`
  itself adds one writer only. Two requests compete for the channel.
- Three handshakes: one holds the mutex, one waits, one has left it and reads.
- With one connection per request, two requests put one in the window where `p.srv`
  is replaced while the other holds the mutex inside it. Every choice of the flags is an
  initial state: both proxy servers, one or none, with and without the services.
- Three records on pages of one and two make walks of one to three pages, with a record
  stored before, between and after any two queries. Texts of three characters over a
  letter and a character that separates words hold no word, a word that is
  too short, one of the least length, one longer, one cut by what is peeked and one next
  to a separator. The code's 3 characters and 10 MB are 2 and 2 here (`MinWord`,
  `PeekLength`, `ReadAhead`); nothing but their comparison with a length depends on them.
- Three processes: an earlier one, one that starts, and one that overlaps it. Four files:
  one for each number that the search can need, and one with another name.

Deadlock is checked in `records_api`, whose client can always ask again. In the other
runs it is not (`CHECK_DEADLOCK FALSE`): their instances end when all connections,
requests or processes have been used up, or with the process. Waiting for ever is
what the liveness properties are about.

## Properties

Stated in the modules, with the code behaviour each is about. The ones that take
most to see:

- `NoMissedRecord` (`Hyperfox`): a record is either in the list a client reads when it
  gets the nil message, or among the messages it got, or on its way in a broadcast
  that has the client still to visit. It holds because `wsAddConn` registers and
  greets under the same lock that a broadcast takes to choose its connections, and
  because the insert comes before the broadcast.
- `StalledClientLosesNothing` (`Hyperfox`): a client that never reads holds `wsMu` for
  ever, and with it the goroutines that announce, but storing goes on, because each
  record has its own goroutine. A single saving goroutine would break it.
- `RequestBodyWhole`, `RecordIsWhatClientGot` (`Proxy`): the record holds the whole
  request body although the origin answered early, and the response the client got,
  up to the one chunk that a writer in front of the capture tool refused.
- `ImplementsRecorder` (`Proxy`), `ImplementsLog` (`Recorder`): `ServeHTTP` does to the
  channel what `Recorder` assumes, and `Recorder` does to the table what `TrafficLog`
  promises, so that the detailed request handling sits under the abstract log.
- `WalkFindsAll` (`RecordsAPI`): a client that follows the pages sees each record that was
  stored before it began, and that has the words it searches for, exactly once. It holds
  because pages are cut in the order of the ids, so that what is stored meanwhile comes
  behind. It joins the whole way of a word: what `peek` reads of a body, how both sides
  are normalised, the search in the database. What it has to leave out is a limit of
  the code: a gzip body shorter than what is peeked is indexed compressed.
- `PageCounted` (`RecordsAPI`): the count comes after the page, and the table only grows;
  in the other order a page could lie beyond the count.
- `FetchedIsCaptured` (`RecordsAPI`): the keywords are extracted by draining the buffers
  that the record's bodies are taken from, and the order within one literal decides what
  is left to take; then the bodies go through hex and back, and are decompressed or not.
  What comes out is what was captured, of a record that is stored and of a request that
  was read to its end.
- `NewDatabase` (`Database`): without `-db` a process never stores in the database of one that
  ran before it, and one that starts after it ran comes to its database only by `-db`. A
  file that was used stays taken, whatever processes named it with `-db`, or died between
  making it and its table.
- `AllOrNone` (`Startup`): whatever the flags, and whichever port is taken, in the end
  every server asked for accepts or the process is over. It takes `log.Fatalf` in four
  goroutines, and a `main` that waits for the proxy servers only.
- `OneServerAlone` (`Startup`): what goes wrong between two servers, the replaced mutex and
  the replaced transport, cannot go wrong with one.
- `LookupSucceeds`, `PairKept` (`Gencert`): the mutex is given back before the pair is
  read, which is right only because a pair that loads is never rewritten.

## Findings

Four statements of the documentation or of the code's own comments that the code
does not keep (`PROJECT.json`, "findings"):

1. `main.go` 137-141: a failed insert is logged as survivable, then `id.(int64)`
   panics on the nil id and ends the process (`recorder_insert`).
2. `proxy.go` 54-56 says that a writer is closed "after the body has been written
   entirely"; it is also closed after a copy that broke off, and the truncated body
   is recorded as a whole one (`proxy_partial`).
3. `README.md` 141-144 says that the certificate for a destination is signed with the
   root CA given; a pair kept from an earlier root CA is served as it is
   (`gencert_root`).
4. `README.md` 182-190 says that `-dns` makes hyperfox skip the OS resolver; with HTTPS
   enabled, `StartTLS` replaces the shared transport by one that does not use it
   (`listeners_dns`).

A fifth is known and has no run of its own. `README.md` 41 says "Everytime Hyperfox
starts, a new database is created". Two processes whose starts overlap may both find one
name unused (`database.go` 46) and then share the file: one makes the table, the other
takes it as it is. `NewDatabase` therefore speaks of processes of which one ran before the
other started. `Database` contains the overlapping starts: if `NewDatabase` asked for two
different names of any two processes without `-db`, TLC would violate it in 12 states.

## Fairness

- Goroutines that can take a step do, in the end (weak fairness of each program
  counter's steps): the Go scheduler is preemptive and fair in this sense.
- A mutex or a channel needs no strong fairness here: each goroutine takes it a
  bounded number of times, so one that waits sees it free for ever in the end. The Go
  mutex also hands itself to waiters that starve.
- `LiveFeed`: a read or write on a broken connection returns (`Progress`). That peers
  read what is sent (`PeersRead`) is assumed for `BroadcastsEnd` and `GoneIsClosed` and
  for nothing else; `Hyperfox` assumes no fairness of any write.
- Nothing makes a request arrive, an origin answer, a client leave, a process start.
  In `Proxy` no step of the client or the origin is fair: only what `ServeHTTP` does after
  the copy, and the goroutine that receives. In `Startup` the goroutine of `main` goes on,
  and those it starts (`Scheduling`). `BrowserEnds` is a separate assumption about the
  environment: the program that `browser.OpenURL` runs comes to its end. hyperfox cannot
  enforce it, and `AllOrNone` needs it: until then no proxy server is started. A request may wait at any point, and nothing calls `Stop`.
  `RecordsAPI` has safety properties only and no fairness. In `Gencert` a handshake that is through a lock goes on or fails.

## Proofs

Every invariant that a passing run checks, the action property `PairKept` and the safety
of both refinements are theorems: they hold for any connections, requests, capacities,
processes, texts and page sizes. Each module of proofs has the same order: the inductive
invariant `IInv` as a conjunction of named parts, one lemma per part that every step
keeps, `Inductive`, and the theorems that follow. Assumptions are only those the modules
state in an `ASSUME`, which TLC evaluates on every run.

**`LiveFeedProofs`**, from `LiveFeedAssumption` (connections, messages and the marker
values are different things). None of the properties is inductive alone: that two
goroutines do not write to one connection follows from who holds the mutex, so `LockInv`
says which program counters hold it; `LifeInv` relates a connection's registration, its
reader and its being closed; `CastInv` keeps what a broadcast has to visit inside the
registered connections while it holds the mutex. This gives `OneWriter`,
`ClosedIsNotWritten`, `EndedIsUnregistered`. `FramesAreInOrder` needs in addition that a
message that reached a connection was visited by its broadcast (`VisitedInv`) and that
the nil message is written first (`HelloInv`): together, `FrameInv`.

**`RecorderProofs`**, for any channel capacity of at least 1. `PlaceInv` says for each
state of an exchange and of its goroutine where its record is, and that channel and table
hold nothing twice: hence `RecordsAccounted`, `RowsStoredOnce`, `AnnouncedAreStored`.
`RecorderImplementsLog`: every step is one of `TrafficLog` or a stutter.

**`HyperfoxProofs`**, from `HyperfoxAssumption` (exchanges are no connections, and neither
is a marker). It holds instances of the two modules above.

- `ProcessRunsBoth`: every step of the process is a step of `Recorder` or leaves it alone,
  and likewise for `LiveFeed`. So the process satisfies both specifications and all that
  is proved of them; with `RecorderImplementsLog`, `ProcessKeepsLog`: its table is the log
  that `RecordsAPI` reads.
- `ToldAreStored`, `NoRecordMissed`: what joins the parts. `CastInv` says that a broadcast
  runs for a stored record only, and is over when the goroutine that called it goes on;
  `SavedInv` that a stored record has such a goroutine. `TellInv` is the core: once a
  broadcast has taken the lock, every registered client either has the record in the list
  it read, or has got it, or is still to be visited. It needs `LiveFeed`'s invariant,
  because a client that registers meanwhile must not come between the choice of the
  connections and their greeting.

**`ProxyProofs`**, for any number of requests, writers and chunks, the capture tool at any
place among the writers.

- `RecordHasRequestBody` needs `BodyInv`: `bodyCopy` is whole from when it is made until the
  record is, although the transport drains `body` at any time.
- `RecordIsOfClient` needs `CopyInv` (no writer is ahead of the client) and `SameInv`: the
  capture tool has as much as the client, or one chunk less once the copy is over because
  a writer before it failed. A lemma says what one chunk does (`CopyChunk`).
- `FinishedIsClean` needs `CloseInv`: the record is made when its writer is closed.
- `ProxyImplementsRecorder`: the request handling is the recorder's, step by step.

**`GencertProofs`**, for any handshakes and root CAs. `LookupFindsPair` is about reads outside
the mutex. `NeededInv` says that whoever makes a pair found that the one there does not
load, and `LookupInv` that a pair looked up loads: a writer and a reader of one host
exclude each other without a lock. The two are kept by each other, with the mutex (in
`TypeOK`) between writers. `FreshInv` keeps a new pair from being one that is there.
`LoadablePairIsKept` is the action property, from the same invariant.

**`StartupProofs`**, for any requests and all flags, from `StartupAssumption` (`None` is no
server, transport or resolver); with `Listeners`. `RequestsHaveTransport`: `FieldsInv` says
that `p.rt` is set before `Start` or `StartTLS` accepts and never unset, `AcceptInv` that a
connection comes after one of them accepts. `OneServerIsSafe` needs `LockInv` (a connection
unlocks the mutex it locked) and `DialInv` (all dials go through `dialContext`), which
hold for one server only, and `SpawnInv`: `SetCustomDNS` runs before any server starts.

**`DatabaseProofs`**, for any finite set of processes. `TableIsAlwaysThere` from `OpenedInv`.
`DatabaseIsNew` needs `OverInv` (who had run when a process started is still among those
that have), `SearchInv` and `TakenInv`: from the moment a process without `-db` has chosen a
name, nobody that ran before it is on that file, and nobody that starts after it ran comes
to that file by searching. Nothing is assumed of the files that `-db` names. `TypeCorrect` is not shallow here: that the search never runs out of
names is a counting argument (`NamesSuffice`, by the pigeonhole principle): each file that
is passed was made by another process (`MakerInv`, `FirstInv`).

**`RecordsAPIProofs`**, for any alphabet, `MinWord`, `PeekLength`, contents, searches and page
sizes, any `Gunzip` and `NumberIn`, from `KeywordsAssumption`, `RecordsAssumption` (the contents
are texts, and what a body decompresses to is one) and `HexAssumption` (no two bytes have the
same digits).

- About the rows: `Ranks` says that the ranks of the found rows are 1, 2, ... without gap
  or repetition; `HitsByRank`, `HitsAreFound`, `HitsInjective` that the hits are exactly the
  found rows, each once; `HitsGrow` that rows stored later come behind.
- About pages: `PageCut` says which hits a page has; `Stretch` is a run of hits, `StretchesJoin`
  that two adjacent ones are one. `SeenInv` says that what the client has seen is the stretch
  up to the page it is at, `CountInv` that a count covers the hits of the table at the
  start and the page read before it. `PagesAreCounted` follows.
- About texts: `OccursSits` and `SitsTransitive` say what it is to be part of a text;
  `LowerKeeps` that lower case moves no character; `WithinWord` that every stretch of word
  characters is inside one of the words (the longest stretch around it, by least and
  greatest elements: `Extremes`). `WordIsKept`: what may be expected to be found in a body
  is part of a keyword that `extractKeywords` keeps. `KeywordSits` is the converse: a keyword is
  part of its body.
- `WalkIsComplete` joins the three; `HitsHaveReasons` needs the last, and that the rows are
  found (`RowsInv`).
- `FetchedAreCaptured`: a buffer that has not been read holds what was written to it
  (`FreshBuffer`), so that the record has the captured bodies as long as they are taken first;
  `HexInverts` says that decoding undoes `hex`, for a text of any length, and `DecodedIs` joins
  the two. That the record is stored and its request was read comes from `TableInv`.

Only model-checked, because TLAPS does not reach it: liveness under fairness. These are
`BroadcastsEnd`, `GoneIsClosed` (`LiveFeed`), `RelayedIsStored` (`Recorder`),
`StalledClientLosesNothing` (`Hyperfox`), `CloseEnds` (`Proxy`), `HandshakeEnds` (`Gencert`),
`StartEnds` (`Database`), `AllOrNone` (`Startup`), and the fairness part of `ImplementsLog`. The
four findings are counterexamples of TLC.

## Not modelled, and why

- External code by its effect only: gorilla/websocket, net/http, SQLite and upper.io/db,
  the file system, DNS.
- Headers, the parts of URLs, formatting, log lines, the QR code; the logger prints.
- Directors and interceptors: `main.go` adds none; their errors are only logged.
- `Reset` and the `Add...` methods: called before a proxy serves.
- The dates of a certificate, and `os.Stat` errors other than absence.
- `authMiddleware` (`services.go` 83-99): it compares a token and changes nothing; the client
  of `RecordsAPI` has the token. `recordMetaHandler` gives the columns of one row as they are.
- A page or page size of 0 or near 2^64: what they do is in upper.io/db, outside the
  repository.
- The web UI (`ui/`): generated assets, read-only. The logger: it prints.

## Plan

Done: all modules of the table above, and the proofs of every safety property that a run
checks.

Left to prove:

1. What does hold where a document says more: that a writer is closed after the whole body
   unless the copy broke off (`CloseAfterWholeBody`), that a pair made under the present root
   CA is signed with it (`SignedByRoot`).
2. That no step of `TrafficLog`, and so of the process, changes or moves a row, as an action
   property of its own.
3. `HyperfoxProofs` for a feed whose clients read their list through `RecordsAPI`: that what
   a client was told of is on a page it can ask for.

Left for the model: a run for `README.md` 41 and overlapping starts, a program that embeds
a proxy with two capture writers, and the records a walk may skip when they are stored in
the middle of it.
