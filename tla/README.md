# A verification project for fast-http

fast-http is a small HTTP server in C on top of libuv: one thread, memory in
pools and pages, replies written without copying.  The repository also carries
the libraries it is built from: the parser of messages, a red-black tree, lists,
a log, formatted output, a parser of JSON, codecs, a memory debugger.  This
directory holds TLA+ models of them, the TLC runs that check them on small
instances, and theorems about the core proved with TLAPS.  Paths are relative
to `src/`.

## 1. The system

    libuv ── on_new_connection, on_allocing, on_readed, on_writed, on_closed ──▶ httpserver.c
                                                             │
      http_parser ◀── httpctx_parser_execute ── httpctx.c ◀──┤  serve_cb (the application)
           └── on_url, on_header_field, ... ──▶ httpctx.c    │
                                                             ▼
          pool.c (contexts, header nodes)      dynmem.c (pages of requests and replies)

| component | state it keeps | operations | what is hard | what makes it correct |
|---|---|---|---|---|
| object pool, `pool.c` | bit words of a fixed array, the hint `last`, a list of entries from malloc | `pool_malloc`, `pool_get`, `pool_put`, `pool_free` | the hint is a cache; a full pool overflows to malloc; an entry's kind is told by its address | an entry is handed out once, the lowest free one first, nothing leaks |
| paged buffer, `dynmem.c` | list of pages, length, capacity | write, read, append, align, set_len, set_cap, lastpage, copy, clear; offset, chr, rchr, equal | ranges that start and end inside pages, capacities that cut the length | it is a flat array of bytes |
| connections, `httpserver.c` | one `httpctx_t` per connection, arrays of write buffers, libuv's queue | the callbacks of libuv | callbacks of one connection overlap; closes with writes pending; reads that end inside a request or do not fill the page | memory of a reply outlives its write, nothing is freed twice or lost, each request received is answered |
| start and exit, `httpserver.c:84-93,305-349` | list of pools, handlers of atexit | `http_server`, the exit function | one registration per call, nodes freed while walked, a port that cannot be had | every pool is given back |
| composition of replies, `httpserver.c`, `httpctx.h` | `httpres_t` over its buffer | setters, `write_http_header`, `fill_uv_buf_ts`, `write_http_resp` | header behind the body, counted and filled buffers differ | the bytes sent are the reply composed |
| request fields, `httpctx.c` | `httpreq_t`: offsets and lengths in the buffer | callbacks of http_parser, lookups, comparisons of paths | an element arrives in parts; callbacks run before the read is counted | fields denote what the client sent |
| message parser, `http_parser.c` | state, counters, half-matched words, one mark per datum | `http_parser_execute`, `http_parser_pause`, `http_parser_parse_url`, `http_should_keep_alive` | any cut of the stream, callbacks that fail, pause or skip the body, limits | callbacks tell the stream as it was written, wherever it is cut |
| red-black tree, `rbtree.c` | nodes, parents, colours | insert, erase, replace, search, iterate, augmented values | the cases of rebalancing, a successor that is a child | order, balance, parents, sizes |
| lists, `list.h` | links | add, delete, replace, walks | a walk that deletes; an entry keeps old links | a list is one sequence both ways |
| log, `log.c` | level, console, file, its size and limit | start, write, replace the file | rename or open that fails | records stay in order, none lost between two |
| two-level buffer, `buffer.c` | blocks behind an array of pointers | growth, length, write, read, trim, clone, copy, destroy | growth at the boundary of one block and several | what was written is read |
| strings and pointers, `str.c`, `ptr.h` | length, capacity, count of holders | append, grow, trim, concatenate; add and drop references | growth of what others hold | an object is freed at its last reference, lengths count |
| formatted output, `printf.c` | the place in the format, flags, output | `_vsnprintf` | padding, precision and signs meet; buffers that are full | the text C asks for |
| JSON tokens, `jsmn.h` | place, tokens, open token | `jsmn_parse` | it is called again after running out of text or of tokens | the tokens of one call with everything |
| codecs: `urlencode.c`, `hex.c`, `base64.c` | none | encode, decode, lengths | room that is just enough, bad digits, affixes, short last lines | decode inverts encode |
| memory debugger, `memwatch.c` | chain of headers, counters, grabbed memory, no-mans-land, the mutex | the allocator, marks, limits, tests, repair | damage by the program, memory that runs out, calls within calls | the chain and counters tell what is in use; damage is found |
| not modelled (section 5) | | | | route table, account files, hash table, ciphers and digests, `main.c` and `simple.c` |

The hazards of the code, each at its line and with the properties that cover
it, are in `PROJECT.json`.

One remark on the source: `httpserver.c:157` and `:264` call
`dynmem_grow(buf, n)`, while `dynmem.c:95` has a static function of that name
with one parameter, which adds a page.  The file was written for an earlier
form of the buffer; the models take the call by its comment
(`设置读取缓冲区的当前长度`, set the current length): the length grows by n.

## 2. The modules

Each component has a module with the names of the source and where there are
proofs a `Proofs` module; `DataInduction` holds the lemmas on numbers and
sequences that these share.  The values of the constants are in five `MC`
modules, with a `.cfg` for each question.  `MCHttpServer` and `MCHttpCtx` are for
one module.  `MCMemory` (`Pool`, `DynMem`, `Memwatch`), `MCMessages`
(`HttpMessage`, `HttpUrl`, `RespBufs`) and `MCLibrary` (the rest) have a behaviour
choose one of their modules when it begins; the others stand still.

| module | models | correct when |
|---|---|---|
| `Pool` | `pool.c`: `bits`, `last`, `nodes` (the list), `heap` (malloc); `held` is what clients hold | it implements `PoolAbs`, an allocator of disjoint objects |
| `DynMem` | `dynmem.c`: `pages`, `len`, `cap`; `call` records the last operation for the abstract buffer | it implements `FlatBuf`, an array with a length |
| `HttpServer` | `httpserver.c`, per context: `conn` (the handle), `ctx` (parser, header nodes, buffers, `write_bufs`), `wq` (libuv's queue), `peer` (the other end) | it implements `HttpConn`, a request-reply connection |
| `ServerExit` | `http_server` and the exit function: `pools` (the list, the handlers, the blocks in use), `ending` (the walk) | pools are given back |
| `RespBufs` | composition and layout of one reply: `data` (the buffer), `res`, `out` (start, header size, array given to `uv_write`) | what is sent is what was composed |
| `HttpCtx` | the fields of a request: `reads`, `reading`, `done` (the parser's place), `len`, `req` | fields are those of the request sent |
| `HttpParser` | `http_parser_execute`, all of its states: `parser` is `struct http_parser`, with the locals of the call while it runs; `stream` and `fed` are what is sent and consumed, `events` the callbacks made | they are those `HttpMessage` reads off the parts of the message |
| `UrlBytes` | `parse_url_char` and the characters of addresses, which the next and the one above share | |
| `HttpUrl` | `http_parser_parse_url` | the fields are the parts the url was made of |
| `Memwatch` | `memwatch.c`: `mw` is its statics and the memory, `owned` the program's blocks, `hits` the damage the program did | counters and chain are those of `owned`; damage is told |
| `RBTree`, `ListHead`, `LogFile`, `OldBuffer`, `CountedStr` | the structures, each with its operations and a ghost that keeps what was asked for (`inserted`, `order`, `wanted`, `text`, `counted` and `held`) | the structure holds what the ghost says, until an operation that loses it |
| `Printf`, `Jsmn`, `Codecs` | the text libraries as functions of their input; `pf` and `jp` are a call step by step, `coded` a datum on its way there and back | `CFormat` and `JsonText` say what is right from the parts of a conversion or value, not from its text |

How they fit: `HttpServer` takes a read as one step with the outcomes the
parser can have, and an allocation of the pools as a choice of free nodes;
`HttpCtx` opens that step and shows what each callback does to the request;
`HttpParser` shows that the callbacks are those of the stream however it is
cut, which `HttpCtx` takes as its input;
`RespBufs` opens `write_http_resp`; `Pool` and `DynMem` are the memory below.
Every action is a whole callback or function (of `_vsnprintf`, one directive; of
the exit function, one node); the code has one thread, so what interleaves is
the callbacks.

Abstractions: bytes of headers and bodies are records of the piece they belong
to (`RespBufs`) or letters (`HttpCtx`), the parsers read characters; texts have
small lengths; the pool's words have two bits; pages have two, eight or twelve
bytes.  `HttpServer` has no bytes: a read brings a whole request, a first part or
a rest, and behind its last byte the buffer has no room, zeros, or what the page
held before (`Tails`), since pages come from plain malloc.  Old bytes can leave
the parser anywhere; `misled` remembers that it was given some since the last
reply.  The requests of `HttpCtx` have a body in one sequence and no
trailers (section 5).  A block of `Memwatch` is an address;
its zones, its checksum and the filling of no-mans-land are whole or not, and a
message is its kind.  The words of `Printf` have 4, 6 and 8 bits, and a double
is an exact decimal.  The loops of `http_parser_execute` over the bytes of a
name and a value are as many turns as there are bytes, and the one over a piece
four times as many, since REEXECUTE looks at a byte again; all in rows of
sixteen so that TLC's recursion stays shallow.  A turn that finds the loop ended
changes nothing, and no turn more is needed, as `ParserProofs` shows.

### What would come next

1. The chain of `Memwatch` without recursive operators, as `ListHead`, `OldBuffer` and `HttpParser` are, and what the runs check of it as a theorem, by the induction of `DataInduction`.
2. `HttpCtx` as an implementation of a request whose elements are texts, and its composition with `HttpParser` through the callbacks.

## 3. The runs

| run | shows | bounds |
|---|---|---|
| `memory` | the pool: accounting, hint, disjointness, lowest first (refinement). The buffer: flat array (refinement), reads, searches, comparisons, pages as asked. The debugger: counters and chain, damage told, repairs, limits, leaks, the mutex | a pool of six slots in three words with two heap addresses: every word boundary and the overflow occur; four pages of two bytes, writes up to four: ranges over three pages with both ends inside; three places of memory, and four calls on blocks, or three with another call and one damage, or two with two others: a block freed, kept in no-mans-land, given up and handed out again |
| `server_serial` | all safety of the server for peers that wait for replies, old tails included; refinement | two contexts sharing three header nodes, two requests each |
| `server_answer` | a request received is answered, contexts return | liveness under `FairSpec`, one context, two requests, tails of every kind |
| `httpctx` | elements under all cuts, lookups and content length, split of the url, comparisons of paths | pages of twelve, names of two letters: two names in the first page, elements over up to three; nine urls, up to two fields of eight forms, three bodies |
| `messages` | what arrives: callbacks as sent, no trace of cuts, the code's assertions, the limit of headers, the fields of urls. What is sent: header first and whole, short replies exact, entries inside pages and array | some seventy streams that between them reach every state and every error, in pieces of one and three bytes in every order, so that every datum and word is cut everywhere; each callback fails, pauses or skips; headers of 100 bytes, lengths to 2000, ports to 99, so that streams of that size pass the limits; replies in pages of eight, texts of 0, 1 and 4, bodies of 1, 7 and 8 around the page |
| `library` | the exit of servers, and each library beside them, on its own | four servers; ten tree nodes, two with one key, which reaches every case of erasure; four list entries; five records; blocks of two to four bytes; conversions with every set of flags around the lengths of their numbers; JSON texts of up to three characters, six values and a dozen errors at every cut, with 0, 1, 3 and 9 tokens; data up to 14 bytes, every byte alone; words of up to three characters, three holders |
| `server_pipelined`, `server_stale_tail`, `respbufs_exact`, `one_read`, `messages_paused`, `exit_twice` | must find a violation, see below | |

Symmetry is used in `server_serial` only, over the header nodes, which are only
compared and moved.  `memory` has a VIEW without the last call on a buffer, which
no guard or expression reads, and without the last call to the debugger and its
answer, which no action reads; the action properties look at the primed values in
the step itself, which TLC evaluates before states are merged.

Deadlock is checked except where a behaviour ends: in `messages` with the end of
the stream or a refusal, with the url parsed or the reply written; in `library`
when a conversion, a walk or the budget of records is done; in `memory` when the
program has stopped or the budget is spent; and in the runs for a violation,
`respbufs_exact` apart, of which the process may have stopped or the behaviour
have come to its end.

Fairness (`FairSpec`): weak fairness of the callbacks for the end of a peer, of
a write and of a close.  libuv calls each of them once the event has happened;
nothing is assumed of peers, which may stop at any time.

Every property has a mutant in `PROJECT.json`: a changed definition (an order
swapped, a bound moved, a reset left out) under which its run fails.

### Disagreements the runs show

Each has a run that must find a violation; `PROJECT.json` quotes the lines.

| run | what happens |
|---|---|
| `server_pipelined` | `on_writed` resets the context, also when a second reply is under way |
| `server_stale_tail` | `buf->len` bytes are parsed, not `nread`: old bytes complete a request |
| `respbufs_exact` | a header or body of several pages is followed by the rest of its last page |
| `one_read` | the read is counted after it was parsed (`httpserver.c:264`), and the question mark is looked for below the count: the path of a request of one read keeps its parameters, though `httpctx.h:72` says they are taken off |
| `messages_paused` | a callback that pauses returns without storing the bytes that the call has counted (`http_parser.c:84`): headers of more than `max_header_size` are completed, against `http_parser.c:143` |
| `exit_twice` | the flag that guards `atexit` is never set (`httpserver.c:319`): with two servers every pool is freed twice, though `:318` says the function is registered at the first run |

### Preconditions, and what the code does without them

The passing properties hold under preconditions that their definitions name.
Each marks a place where the code does something else.

| precondition | what the code does without it |
|---|---|
| `ShortFragments = FALSE` in `server_answer` | the zeros behind a short read stop the parser (`httpserver.c:262`): the request is never answered |
| no old bytes since the last reply (`misled`) in `Answered` | what a page held before is parsed behind the request, and may begin a message that swallows the next one: that one is received and never answered |
| peers that wait, and no request cut inside a buffer, in `server_serial` and the theorems of `SerialInv` | `server_pipelined` and `server_stale_tail` |
| length at the end of a page in `PagesAsAsked` | `dynmem_lastpage` answers the start of the last page (`dynmem.c:215`) |
| range inside the capacity, not empty, in `SearchesExact` | `dynmem_chr` of a clipped range answers the capacity (`dynmem.c:291`), `dynmem_rchr` of an empty one 0 (`dynmem.c:296`) |
| first page in `SearchesExact` | `dynmem_offset` forgets the pages before (`dynmem.c:229`) |
| at most one entry more in `ArraySound` | a body that starts inside a page touches a page that was not counted: its entry takes the place of the terminator and is not sent (`httpserver.c:195`) |
| the names compared lie in the first page (`SearchedInFirstPage`) in `RequestExact` | a lookup compares names until it has found its own: one cut by the end of a page is compared by its first part (`httpctx.c:104`), one behind it has the offset of other bytes.  What follows the field found may lie anywhere |
| a read counted before, and the value in the first page, for the content length in `RequestExact` | in a request of one read `dynmem_read` finds nothing below the length, and the number is read from an array that was never written (`httpctx.c:138`) |
| several reads or no parameters (`Divided`) for the split and for equality in `PathsMatch` | `one_read`.  Prefixes are right for every request |
| a url that does not begin with `?` in `HttpCtx` | only `CONNECT ?x` is of this form: its path is empty, and the byte looked at for a slash lies before the url (`httpctx.c:185`) |
| a path asked for has no `?` and at most one slash at its end in `PathsMatch` | one slash is dropped from what is asked and from what came: `/a//` as a prefix does not match `/a/` (`httpctx.c:312`); parameters asked for are compared with a path that has none |
| no pause in `LimitUnpaused` | `messages_paused` |
| the first walk, and links of freed nodes still whole, in `PoolsGivenBack` | the exit function follows a link of freed memory (`httpserver.c:89`); later walks are those of `exit_twice` |
| the rename succeeds and the limit is not zero in `LogKeepsOrder` | the closed file stays in use (`log.c:115`).  With a limit of zero an empty file replaces the backup when the new file cannot be opened.  The property says nothing of how much is kept: after the limit the file is replaced at every record, since its size is not set back (`log.c:116`) |
| growth does not go at once from a small block to several in `BufferExact` | the first block is replaced, with what it held (`buffer.c:102`) |
| capacities above zero in `OldBuffer` | doubling from zero does not end (`buffer.c:98`) |
| `Conforms` in `PrintfExact`, integers | `#` takes back digits of a number as wide as its field or precision (`printf.c:215`); `ll` does not compile (`:665`); a number longer than its buffer is cut |
| `Conforms` in `PrintfExact`, doubles | NaN and infinity are never in capitals, lose signs asked for and are not padded as C does (`:305`); zero loses its sign; `#` is not looked at; `%f` of a large number has an exponent (`:316`); digits behind the ninth are zeros (`:334`); a fraction of nines and a half is rounded without a carry (`:352`) |
| `Conforms` in `PrintfExact`, `%e` and `%g` | the exponent of zero is not found (`:435`); a mantissa rounded to ten is left so, `10E-01` for `1E+00` (`:487`); `%g` bounds the numbers it writes out by a constant and not by the precision (`:455`), keeps zeros at the end, takes a precision of zero as it stands, and without one has six digits behind the point of an exponent form (`:465`) |
| steps below 256, no short last line in `CodecsInvert` | `hex_decode` keeps its step in a byte (`hex.c:69`); base64 reads four characters behind a line break, and estimates lengths of 76-character lines (`base64.c:164`, `:87`) |
| the flag of the character is found (`FlagFound`) in `CodecsInvert` | the map has a bit for each character and the comments say that a flagged one is encoded (`urlencode.c:5`, `:8`, `:25`), but the shift at `:27` takes the whole distance and not its last three bits: `+ , / : ; = ? @` stay in a component, and `< > [ \ ] ^ { \| }` in any url |
| `string_cats` was not called (`crossed`) in `StringsCounted` | it leaves the length as it was (`str.c:89`), so the next append overwrites what it added |
| a block lost through `ptr_free` is not asked for in `StringsCounted` | it counts down a copy (`ptr.h:43`): a block with two holders is never freed |
| the size of the call does not wrap (`Wraps`) in `Caught` | a refused size keeps the mutex (`memwatch.c:880`) |
| no call that takes the mutex twice (`Relocks`) in `Caught` | `mwRealloc` and `mwStrdup` wait for themselves where the mutex is not recursive (`memwatch.c:996`) |

## 4. The proofs

`tlapm` checks every leaf.  The assumptions are those the modules name:
`PoolAssumption` (positive sizes, heap addresses that do not overlap the block
or one another), `DynMemAssumption` and `PageRounded` (a page is a power of
two), `ServerAssumption` and `RespAssumption` (types of the bounds), and for
`HttpCtx` `PageAssumption` (a page of at least two bytes: the method is in the
first), `RequestsAssumption` (urls and names are not empty, as http_parser sees
to, and a url begins with its path), `NamesAssumption` (the names looked up are
texts) and `PathsAssumption` (section 3).  For the libraries they are
`EntriesAssumption` (finitely many entries, none of them the head),
`StrAssumption` (capacities to start with and to grow by that are not zero, as
the macros of `str.c` define them), `LogAssumption` (types of the bounds) and
`BufferAssumption` (doubling the least capacity of a block meets its full one,
as the powers of two of `buffer.h` do).  `ParserAssumption` (types of the limits,
a longest length of at least sixteen, as ULLONG_MAX is) also says that a text
has a length, that a piece of it has the length of its range and that a digit
has a value: the provers know nothing of strings.

* `PoolProofs`: `TypeCorrect`, `Accounting`, `HintSound`, `ObjectsDisjoint`,
  `TakesLowest`, `PoolImplementsAbs`, for every capacity, object size and word
  width.  The invariant is `PoolTypeOK`, `HeldMatches`, `NoLeak` and `LastHint`
  together: `HeldMatches` alone is not kept, since a put must know that an
  address inside the block is a slot in use, and `LastHint` needs the type of
  the words.  The rest is arithmetic of slot numbers and addresses (`DivMod`,
  `MulRoom`), from which disjointness follows.
* `HttpServerProofs`: for any peers, `ServerTypeCorrect` and `NodesConserved`
  from `NodesInv`, which adds that a free context owns no node.  For peers that
  wait and do not cut requests inside a buffer, six more (`ReplyKeptUntilWritten`,
  `BuffersBack`, `NeverFaults`, `OnlyReceivedServed`, `NothingDropped`,
  `ImplementsConn`) from `SerialInv`: it ties parser place, parser state, write
  queue and counters of a connection together into the phases it can be in
  (idle, inside a request, stuck behind a swallowed one, writing), and each
  callback moves between phases.  `ImplementsConn` is the refinement of the
  request-reply connection.
  `ExitGivesPoolsBack`, for any number of servers, is about the first walk of the
  exit function: `exit_twice` shows what the others do.  `ExitInv` is the way of
  it: every pool in use while the program runs; in the first walk those up to its
  place, with the newer ones freed in order; none after it.  A walk may lose
  itself at any freed link, and a second one does at its first node.
* `DynMemProofs`: `BufferTypeCorrect` (type, capacity and length) for every page
  size and bound; lemmas on how a range is cut into chunks (each byte in exactly
  one, pages in order), from which `ReadsExactly`, `PagesForCallers` and
  `PagesImplementFlat` follow.  `SearchesAreExact`: the walk finds the first (or
  last) chunk that holds the letter and the place in it, which is the first (or
  last) place of the range; two buffers are equal when no chunk tells them apart.
* `RespBufsProofs`: `EntriesInPages` and `ArrayFits` are about the operators
  that fill the array of `write_http_resp`, for every page size, position and
  length.  `ReplyTypeCorrect`, `WriteArraySound`, `HeaderSentFirst` and
  `ShortReplySentExactly` are invariants of every order of setters, from
  `ReplyInv`: what the callback put in is where its range says (`Placed`), a
  body that may be appended to ends the buffer (`BodyAtEnd`), and a composed
  header starts a page, ends the buffer and is described by the array
  (`Composed`).  The properties alone are not kept: they say nothing before the
  write.  What is sent is the entries joined (`JoinBlock`): those of the header
  are its pages, all full but the last, so that the join begins with it.
* `HttpCtxProofs`: `FoundAsSent` and `PathsMatched`, for every page size and cut,
  from `CtxInvariant`.  Lengths of elements, texts of those in the first page and
  prefixes of paths are for every request; lookups, the content length, the split
  of the url and equality for those that section 3 names.  A request is a sequence of parts, and the calls
  of http_parser are the pieces of these parts in order; `CallsTo` counts the
  calls up to the end of each part, so that every call belongs to one part
  (`CallOf`), and `Span` is the range of a part that the first `d` calls have
  told.  `CtxInv` says that each field of `httpreq_t` is the `Span` of its part
  (`Known`), that `parser_state` is that of the last call (`StateRight`), and
  what the completion has set (`Completed`).  The first call of a part finds the
  state of another part and opens an element; a later one finds its own state
  and the end of the range where it begins, and extends it.  `PathsMatch` then is
  a matter of where the first question mark and the last slash are.
* `ParserProofs`: `ParserAsserts` (no assertion of
  `http_parser.c` fails, those on the error at the entry of a callback included) and
  `ParserConsumes` (a call returns and takes no more than it was given), for
  every stream, every cut of it, every limit and every answer of the callbacks.
  `AssertsHold` says nothing of the next call; `ParserInv` adds, for the time
  between two calls, what each state takes for granted of the other fields
  (`StateFits`): a header's name is read with a `header_state` of names, a value
  is never read in `h_connection` or `h_transfer_encoding`, a body expects bytes
  and fewer than ULLONG_MAX, in a chunk's states the message is chunked, and a
  size is read with `nread` at zero.  A call that cut a datum leaves the state
  that reads it, from which the next call sets the mark again (`EntryMarks`).
  Inside a call a datum is marked only in the states that read it (`MarksFit`),
  so that one at most is cut by the end of the piece (`OneMark`).  There is one
  lemma for each handler, `Good(q, r)`: it leaves a state that fits, or returns.
  A handler that asks for another look at its byte (REEXECUTE) leaves a state of
  lower rank (`Rank`), and no rank is above three: four looks are enough.  Each
  turn of the loop is one look, and adds to `Effort` (four for a byte passed, and
  the looks the rank shows for the one at `p`) or has returned (`Passed`); since
  the effort is bounded (`EffortBounded`) the call returns within the turns the
  model has (`WalkReturns`).  Content-Length
  and chunk sizes stay below ULLONG_MAX by the checks before the products
  (`LengthByteKeeps`, `ChunkSizeGood`).
* `LibraryProofs`: four libraries, each on its own.  `ListIsOneSequence`:
  `ListInv` says that the links of the head and of the entries of `order` lead to
  their neighbours in this order (`Chain`); those of other entries may lead
  anywhere, since `list_del` leaves them.  The lemmas `ChainAdd`, `ChainDelete`
  and `ChainReplace` are the operations.  For a loop whose body removes entries,
  the place of the loop has to be known at every round: forward, the list is what
  was kept so far and then what is still ahead (`Ahead`); backward, the entries
  not visited yet and then what was kept of the others (`Behind`).  That the loop
  is back at the head after as many rounds as there are entries needs that a list
  has no entry twice (`LengthBound`).
  `StringsAreCounted` counts as long as `string_cats` was not called; the bounds
  of the block hold always.  `StrInv` adds to the property the types of header and
  bytes and that the block is one byte longer than its capacity (`Str`), without
  which an append could write behind it; that a grown capacity reaches what is
  asked for is `CapacityEnough`.  `PtrInv` adds that a block with two holders
  does not count one (`ptr_free` frees at one), and that what was written is
  within the block.
  `BufferIsExact` and `LostOnlyAcross`: `BufferInv` adds to what can be read that
  a capacity below a full block doubles to it and one above is a multiple of it
  (`CapacityFits`), and that the entries of the array behind the capacity hold no
  block (`Blocks_`), without which growth would replace a block in use.  Two
  positions are in one block exactly when their quotients are equal
  (`BlockPlace`), so that a write changes no other byte.  Once a block was lost
  the invariant keeps the types only; `LostOnlyAcross` says which step loses one.
  `LogInOrder`, for every limit that is not zero (`main.c:188` asks for a
  megabyte): `LogInv` adds what makes the latest record stay when a new file
  cannot be opened, that a file at its limit holds a record
  (`FullFileHoldsOne`).
* `DataInduction`: what the arguments about data share.  The
  induction theorems of the library take a predicate and cannot be used here, so
  the principle is stated for sets: a set of naturals that holds zero and each
  successor is all of them (`NatSetInduction`), and one that is not empty has a
  least element (`LeastNat`, from the well-founded order of finite sets).  A
  proof names the set `{n \in Nat : ...}` and cites these.  With them follow the
  existence of recursive functions: those that repeat a step (`RepeatedExists`:
  the walks of lists), those that climb to a bound and where they end
  (`ClimbExists`, `ClimbReaches`: capacities), and those that join sequences,
  with the place of each block in the join (`FlattenSteps`, `FlattenBlocks`,
  `JoinBlock`).

Only model-checked:

* `Answered` and `ContextReturned`: liveness is out of the prover's reach.
* The other properties of `HttpMessage`: what is told is a matter of the texts
  themselves, of which the provers know the lengths only.
* The properties of `HttpUrl`, `CFormat`, `JsonText`, `Codecs`, `RBTree` and
  `Memwatch`.  They rest on operators declared RECURSIVE, over texts, chains and
  trees, of which the prover can say nothing; their models would first have to
  be written with recursive functions, as `HttpParser`, `HttpCtx`, `ListHead`
  and `CountedStr` were.

## 5. What is not modelled

* Route table (`httpserver.c:351-466`): `_route_cmp` takes its arguments for
  route nodes, while `rb_search` and `rb_insert` pass what lies behind a tree
  node.  The first comparison follows a pointer that is none, so past one path
  there is no behaviour to model; matching and serving are empty functions.
* Account files: `aidb.c` includes a header that is not in the repository, and
  nothing uses it or its older form.  `hashmap.c` is unfinished and does not
  compile.  `main.c` and `simple.c` are applications with fixed replies.
* Ciphers and digests: functions on words of 32 bits without control flow that
  depends on data; a model would be the same formulas again.
* libuv is given as headers; its callbacks are the environment of `HttpServer`.
* Of the requests of `HttpCtx`: chunked bodies and trailers, whose callbacks
  `HttpParser` has.
* Of the modelled components: the trace log (`log_trace_req`), the table of
  status messages, version and method of a request, the wording of records and
  reports, the printed statistics of memwatch, the `long long` forms of
  `printf.c` (they do not compile, `printf.c:665`), its read behind `pow10` for
  precisions that fill its buffer, where no digit has room, the errors of floating
  arithmetic, the shift of `urlencode.c:27` beyond the width of its word (taken
  modulo 32, as the processors of the build do), the wrap of 32-bit positions
  in `dynmem.c:49` (out of the server's range), and allocation failure outside
  memwatch, which the code does not handle (it uses what malloc returns).
