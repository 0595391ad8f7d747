----------------------------- MODULE RecordsAPI -----------------------------
(***************************************************************************)
(* api_service.go 78-380: the REST API over the table of records, which    *)
(* the recorder goes on filling.  Handlers only read, so that one client   *)
(* stands for all: it walks through the pages of a search, or fetches one  *)
(* record.  capturesHandler asks the database twice, for the page and for  *)
(* the number of pages; records are stored in between.                     *)
(*                                                                         *)
(* The recorder is taken at its word: its part is TrafficLog, which        *)
(* Recorder implements.  The paginator of upper.io/db is external: LIMIT   *)
(* and OFFSET for page and size of at least 1.  The client has the token.  *)
(***************************************************************************)
EXTENDS Keywords, Functions

CONSTANTS
  Requests,     \* the exchanges that are recorded
  Contents,     \* what they may have been: functions from Requests to exchanges
  Queries,      \* the texts searched for
  Sizes,        \* the page sizes
  NumberIn(_),  \* SQLite's reading of a term as a number, or -1
  HexDigit,
  HexOf,        \* the two digits of a character or byte
  Nothing

Char == Safe \cup Unsafe \cup {Blank}
Text == Seq(Char)

\* An exchange: the columns of its record, the bodies `up` and `down`, the sides
\* whose Content-Type begins with "image/", whether url.Parse takes its URL, and
\* whether the request's body can be read to its end.
Exchanges ==
  [host : Text, method : Text, status : Nat, up : Text, down : Text,
   images : SUBSET {"request", "response"}, url : BOOLEAN, read : BOOLEAN]

ASSUME RecordsAssumption ==
  /\ Sizes \subseteq Nat \ {0}
  /\ Queries \subseteq Text
  /\ Contents \subseteq [Requests -> Exchanges]
  /\ \A c \in Contents, r \in Requests : \A body \in {c[r].up, c[r].down} :
       Gunzip(body) \in Text \cup {NotGzip}

ASSUME HexAssumption ==
  /\ HexOf \in [Char -> HexDigit \X HexDigit]
  /\ \A c, d \in Char : HexOf[c] = HexOf[d] => c = d

VARIABLES
  taken, pending, log,  \* of TrafficLog: log is the table, in the order of ids
  content,  \* content[r]: what the exchange r is
  at,       \* the client: "idle", "asked", "counting" or "answered"
  q, size,  \* its search and page size
  page,     \* the page it asks for
  rows,     \* the records of that page
  pages,    \* the number of pages it was told
  got,      \* the last record it fetched by uuid
  base,     \* history: the table when the walk began
  seen,     \* history: the records of all pages of the walk
  miscount  \* history: a count failed in this walk

tableVars == <<taken, pending, log, content>>
walkVars  == <<at, q, size, page, rows, pages, base, seen, miscount>>
vars      == <<tableVars, walkVars, got>>

Table == INSTANCE TrafficLog

-----------------------------------------------------------------------------
(* Records                                                                 *)

\* Fault: the keywords are extracted before the bodies are taken.
RecordDrained(c) ==
  LET cwc     == NewBuffer(c.down)
      reqbody == NewBuffer(c.up)
  IN  [host |-> c.host, method |-> c.method, status |-> c.status, url |-> c.url,
       images |-> c.images, keywords |-> extractKeywords({cwc, reqbody}),
       body |-> Bytes(Peeked(cwc)), request_body |-> Bytes(Peeked(reqbody))]

\* Close of the capture tool: the request's body is copied to a buffer of its own,
\* and the fields of the record are evaluated in this order.  The keywords are the
\* last, for they drain both buffers: none is left to be read afterwards.
MakeRecord(c) ==
  LET cwc     == NewBuffer(c.down)
      reqbody == NewBuffer(c.up)
  IN  [host |-> c.host, method |-> c.method, status |-> c.status, url |-> c.url,
       images |-> c.images, body |-> Bytes(cwc), request_body |-> Bytes(reqbody),
       keywords |-> extractKeywords({cwc, reqbody})]

\* host stands for the columns compared with LIKE (origin, path, content_type
\* are the others), method for those compared with = (scheme).  status is an
\* INTEGER column: the term is compared with it as a number.
Matches(record, term) ==
  \/ \E w \in record.keywords \cup {Lower(record.host)} : Occurs(Lower(term), w)
  \/ term = record.method
  \/ NumberIn(term) = record.status

\* Fault: the terms are alternatives.
FoundByAny(r, query) ==
  Words(query) = {} \/ \E t \in Words(query) : Matches(MakeRecord(content[r]), t)

\* The record matches every term.  Splitting at blanks may leave empty terms,
\* which match everything.
Found(r, query) == \A t \in Words(query) : Matches(MakeRecord(content[r]), t)

\* The rows that are found, and the place of one among them.
FoundRows(s, query) == {i \in DOMAIN s : Found(s[i], query)}
Rank(i, rowIds)     == Cardinality({j \in rowIds : j <= i})

\* Fault: the newest first.
HitsBackwards(s, query) ==
  LET I == FoundRows(s, query)
  IN  [k \in 1..Cardinality(I) |-> s[CHOOSE i \in I : Rank(i, I) = Cardinality(I) + 1 - k]]

\* All records that are found, in the order of their ids.
Hits(s, query) ==
  LET I == FoundRows(s, query)
  IN  [k \in 1..Cardinality(I) |-> s[CHOOSE i \in I : Rank(i, I) = k]]

\* Fault: the page has no limit.
PageToEnd(s) == SubSeq(s, size * (page - 1) + 1, Len(s))

\* One page of s, and the number of pages.
PageOf(s)     == SubSeq(s, size * (page - 1) + 1,
                        IF size * page < Len(s) THEN size * page ELSE Len(s))
TotalPages(s) == (Len(s) + size - 1) \div size

\* SELECT hex(body), and hex.DecodeString, which refuses an odd length and what is
\* no digit.
hex(s) == [i \in 1..(2 * Len(s)) |-> HexOf[s[(i + 1) \div 2]][IF i % 2 = 1 THEN 1 ELSE 2]]

IsByte(c, s, k) == HexOf[c] = <<s[2 * k - 1], s[2 * k]>>

DecodeString(s) ==
  IF Len(s) % 2 = 0 /\ \A k \in 1..(Len(s) \div 2) : \E c \in Char : IsByte(c, s, k)
  THEN [k \in 1..(Len(s) \div 2) |-> CHOOSE c \in Char : IsByte(c, s, k)]
  ELSE Nothing

\* The record of a row, with its bodies decoded.
Decoded(record) ==
  LET up   == DecodeString(hex(record.request_body))
      down == DecodeString(hex(record.body))
  IN  IF up = Nothing \/ down = Nothing THEN Nothing
      ELSE [record EXCEPT !.request_body = up, !.body = down]

\* replyBinary: the bytes of one body, with its header, decompressed, or as they
\* are; 500 if the URL cannot be parsed.  opts holds "request" or "response", and
\* "wire" or "embed" or neither.  What a stream that breaks off decompresses to is
\* sent: the error is ignored.
Reply(record, opts) ==
  LET side  == IF "request" \in opts THEN "request" ELSE "response"
      body  == IF side = "request" THEN record.request_body ELSE record.body
      plain == Gunzip(body)
  IN  IF ~record.url THEN Nothing
      ELSE [head |-> "wire" \in opts,
            data |-> IF "embed" \in opts /\ plain # NotGzip THEN plain ELSE body,
            type |-> IF "embed" \notin opts THEN "attachment"
                     ELSE IF side \in record.images THEN "image" ELSE "text"]

Options == {{side} \cup form : side \in {"request", "response"},
                               form \in {{}, {"wire"}, {"embed"}}}

-----------------------------------------------------------------------------
Init ==
  /\ Table!Init
  /\ content \in Contents
  /\ at = "idle" /\ q = <<>> /\ size = 1 /\ page = 1 /\ rows = <<>> /\ pages = 0
  /\ base = <<>> /\ seen = <<>> /\ miscount = FALSE
  /\ got = Nothing

\* The recorder takes, stores or loses a record.  Close returns before it makes one
\* when the request's body cannot be read.
Record ==
  /\ Table!Next
  /\ \A r \in taken' \ taken : content[r].read
  /\ UNCHANGED <<content, walkVars, got>>

\* The client has done with its search.
Done ==
  /\ at' = "idle" /\ q' = <<>> /\ size' = 1 /\ page' = 1 /\ rows' = <<>> /\ pages' = 0
  /\ base' = <<>> /\ seen' = <<>> /\ miscount' = FALSE
  /\ UNCHANGED <<tableVars, got>>

\* A search begins, at page 1.
Search ==
  /\ at = "idle"
  /\ q' \in Queries /\ size' \in Sizes
  /\ at' = "asked"
  /\ base' = log
  /\ got' = Nothing
  /\ UNCHANGED <<tableVars, page, rows, pages, seen, miscount>>

\* capturesHandler: the page of records ...
PullPage ==
  /\ at = "asked"
  /\ rows' = PageOf(Hits(log, q))
  /\ at' = "counting"
  /\ UNCHANGED <<tableVars, q, size, page, pages, got, base, seen, miscount>>

\* ... which may fail: 500, and the walk is over.
PullFails == at = "asked" /\ Done

Answer(n) ==
  /\ at = "counting"
  /\ pages' = n
  /\ seen' = seen \o rows
  /\ at' = "answered"
  /\ UNCHANGED <<tableVars, q, size, page, rows, got, base>>

\* Fault: the pages are counted once, when the walk begins.
CountOnce == Answer(TotalPages(Hits(base, q))) /\ UNCHANGED miscount

\* Then the number of pages; its error is ignored.
CountPages == Answer(TotalPages(Hits(log, q))) /\ UNCHANGED miscount
CountFails == Answer(0) /\ miscount' = TRUE

\* The client goes on while it is told of more pages.
NextPage ==
  /\ at = "answered"
  /\ page < pages
  /\ page' = page + 1
  /\ at' = "asked"
  /\ UNCHANGED <<tableVars, q, size, rows, pages, got, base, seen, miscount>>

EndWalk == at = "answered" /\ page >= pages /\ Done

\* One row by its uuid.
getCaptureRecord(r) ==
  IF r \in Range(log) THEN Decoded(MakeRecord(content[r])) ELSE Nothing

\* recordHandler, for any uuid the client has heard of: 500 without a record.
Fetch(r, opts) ==
  /\ at = "idle"
  /\ LET record == getCaptureRecord(r)
         reply  == IF record = Nothing THEN Nothing ELSE Reply(record, opts)
     IN  got' = IF reply = Nothing THEN Nothing ELSE [of |-> r, opts |-> opts, reply |-> reply]
  /\ UNCHANGED <<tableVars, walkVars>>

\* The query fails: 500 as well.
FetchFails ==
  /\ at = "idle"
  /\ got' = Nothing
  /\ UNCHANGED <<tableVars, walkVars>>

Next ==
  \/ Record \/ Search \/ PullPage \/ PullFails \/ CountPages \/ CountFails
  \/ NextPage \/ EndWalk \/ FetchFails
  \/ \E r \in Requests, opts \in Options : Fetch(r, opts)

Spec == Init /\ [][Next]_vars

-----------------------------------------------------------------------------
(* Properties                                                              *)

\* Every variable holds values of its kind; a page is never longer than asked.
TypeOK ==
  /\ at \in {"idle", "asked", "counting", "answered"}
  /\ q \in Queries \cup {<<>>} /\ size \in Sizes \cup {1}
  /\ page \in Nat \ {0} /\ pages \in Nat
  /\ rows \in Seq(Requests) /\ Len(rows) <= size
  /\ base \in Seq(Requests) /\ seen \in Seq(Requests)
  /\ miscount \in BOOLEAN

\* A term of a search and a place of s where it is part of a stretch of at least
\* MinWord safe characters.
InWord(t, s) ==
  \E i \in 1..Len(s) : \E j \in (i + MinWord - 1)..Len(s) :
    /\ \A k \in i..j : s[k] \in Safe
    /\ Occurs(Lower(t), Lower(SubSeq(s, i, j)))

\* What a user may expect to be searched in a body: the text of its beginning,
\* but nothing of a gzip stream that is shorter than what is peeked.
Searchable(body) ==
  LET plain == Gunzip(body)
  IN  IF plain = NotGzip THEN Prefix(body, PeekLength)
      ELSE IF Len(plain) >= PeekLength THEN Prefix(plain, PeekLength) ELSE <<>>

\* The columns that are searched besides the bodies.
InColumns(t, c) ==
  Occurs(Lower(t), Lower(c.host)) \/ t = c.method \/ NumberIn(t) = c.status

Findable(c) ==
  \A t \in Words(q) :
    InWord(t, Searchable(c.up)) \/ InWord(t, Searchable(c.down)) \/ InColumns(t, c)

\* A client that has walked through the pages has seen every record that was
\* stored when it began and that its search should find, and none twice, however
\* many records were stored between its requests and within them.
WalkFindsAll ==
  /\ IsInjective(seen)
  /\ at = "answered" /\ page >= pages /\ ~miscount =>
       \A r \in Range(base) : Findable(content[r]) => r \in Range(seen)

\* Nothing is found by chance: every term of the search is in a body of each
\* record listed, or in its columns.
FoundForAReason ==
  \A r \in Range(rows) : \A t \in Words(q) :
    \/ \E body \in {content[r].up, content[r].down} :
         \/ Occurs(Lower(t), Lower(body))
         \/ Gunzip(body) # NotGzip /\ Occurs(Lower(t), Lower(Gunzip(body)))
    \/ InColumns(t, content[r])

\* A page with records on it is never beyond the number of pages that comes with
\* it, although records are stored between the two queries.
PageCounted ==
  at = "answered" /\ rows # <<>> => page <= pages \/ miscount

\* What is fetched is what was captured, and all of it, although the buffers it was
\* captured in were drained for the keywords and it was read as digits: the bytes
\* of the body of the side asked for, or, where they are to be shown, the text they
\* decompress to.  Only an image is shown as one, and nothing is there of a request
\* that was not read to its end.
FetchedIsCaptured ==
  got # Nothing =>
    LET c    == content[got.of]
        side == IF "request" \in got.opts THEN "request" ELSE "response"
        body == IF side = "request" THEN c.up ELSE c.down
    IN  /\ got.of \in Range(log) /\ c.read
        /\ got.reply.data = IF "embed" \in got.opts /\ Gunzip(body) # NotGzip
                            THEN Gunzip(body) ELSE body
        /\ (got.reply.type = "image") <=> ("embed" \in got.opts /\ side \in c.images)
=============================================================================
