# Verification of the vids-content programs

The repository holds small, independent programs, most of them in C, each
written to demonstrate one interface of Linux: copying streams with `splice()`
and `tee()`, gifting pages with `vmsplice()`, raw ICMP sockets, gathered writes,
small-string and flexible-array layouts, event descriptors. They share no code
and do not talk to each other. What makes them hard is the same in all of them:
system calls that move less than they were asked to, that fail in the middle of
a sequence, or that block; peers that write, leave or reset at the wrong
moment; and memory that is referred to after it moved.

This directory models the programs that keep state across such calls, checks
the models with TLC and proves their safety properties with TLAPS.

| file | what it is |
| --- | --- |
| `*.tla` with a `.cfg` of the same name | a component (or an `MC` module that runs several) and its model |
| `TeeSpliceChunks.cfg`, `ProxyNaiveReset.cfg`, `ProxySpliceReset.cfg`, `TracerouteAssert.cfg` | models in which TLC finds a statement of the repository violated |
| `*Proofs.tla`, `StreamLemmas.tla` | theorems and the lemmas they rest on |
| `PROJECT.json` | runs, properties, source lines of every definition, hazards, findings, theorems |

## Conventions

* **Bytes are offsets.** The copying programs never look at what they copy, so
  the k-th byte of a stream *is* the number k (`Streams`). "Exactly the first n
  bytes, in order" is `Upto(n)`; a loss, a repetition and a reordering are all
  different sequences. In `VmspliceBench`, where all bytes are `'a'`, bytes are
  counted; in `WritevChain` a byte is its address.
* **Short transfers.** A call that may move fewer bytes than asked is an
  `\E n \in 1..limit`. The bound of the quantifier is the program's argument or
  what the kernel can provide, whichever is less.
* **Blocking** is a guard: the action is not enabled until the call can return.
* **Failures.** Where the code checks (`die_if`), an action `DieIf` ends the
  program at any moment. `die_if` also `puts()` a text on stdout. Where stdout
  is what the program copies to (`TeeNaive`, `TeeSplice`) that is part of the
  action: `out[0]` may get a `Message`, bytes that are not of the input. It may,
  since nothing arrives there when stdout is what failed. Where it does not
  check, the failure is one of the results of the call, and the model carries it
  on as the code does (`n = -1` in the proxies).
* **Histories** are marked as such in the comment of the variable; no guard of
  the program reads them.
* `CHECK_DEADLOCK FALSE` is given everywhere, because every program here ends,
  or waits for a peer that may never come. That nobody waits *for itself* is
  stated as a property instead (`NeverStuckOnOwnPipe`, `PipeMatchesLoop`,
  `TeeNeverShort`, `StopsWithItsSource`, `ExactUnlessShort`).
* Operators whose names end in `Mutant` are broken variants of the definition
  that follows them. No specification uses them; `PROJECT.json` pairs each
  property with a variant under which it fails.

## Inventory

### Modelled

| component | code | state it keeps | operations | hard behaviours |
| --- | --- | --- | --- | --- |
| tee_naive | `tee-splice/tee_naive.c` | position in the open / read / write loops, the chunk, progress of `write_all` | open each file, read a chunk, write it to stdout and to each file | short writes; death between two sinks, or between two `open()`s |
| tee | `tee-splice/tee.c` | loop index, one pipe per file | `tee()` stdin into each pipe, drain each pipe into its file, `splice()` stdin to stdout | the producer writes between `tee()` and `splice()`; pipes too small; short splices; the program holds both ends of its pipes |
| proxy_naive | `tee-splice/proxy_naive.c` | result of `read()`, buffer | bind, accept, connect twice, read, write twice | unchecked `-1`; a source that resets; subscribers that refuse or leave |
| proxy | `tee-splice/proxy.c` | result of `splice()`, two pipes | as above with splice, tee, splice, splice | the same, and waiting on its own pipes |
| vmsplice benchmarks | `vmsplice/bench.c`, `bench_naive.c`, `recv.c` | bytes sent, the pipe, the connection, the server | fill the pipe, drain it into the socket; accept, receive, count | short splices; either process dies; the last, incomplete chunk |
| vmsplice demonstration | `vmsplice/main.c` | the mapping, the pipe, the file | gift, splice, overwrite, gift, splice | the pipe refers to pages that are overwritten |
| traceroute | `traceroute/main.c`, `icmp.c` | ttl, rows printed | send a probe, wait for one message or the timeout | loss, delay, duplication, reordering, messages for other programs |
| checksum | `traceroute/icmp.c:13-20` | none | 16-bit ones' complement sum | a carry out of the fold |
| small string | `small-string-optimization/main.c` | union of inline text and heap block | new, push, copy | when the text moves; copies of large strings |
| vector | `flexible-array-member/main.c` | header, capacity, length, the caller's pointer | new, push | doubling in `size_t`; `realloc()` moves the header |
| nginx chain writer | `readv-writev/nginx_writev_chain.c` | the chain, what was sent | build iovecs, `writev()`, advance the chain | short writes inside an iovec; returning without an event to come back |
| APR sendfile | `readv-writev/apr_sendrecv.c` | cork, incomplete-write flag, `*len` | headers, file, trailers | each part short, failing or timing out; early returns with the cork set |
| APR send and receive | `readv-writev/apr_sendrecv.c:32-112` | a flag per direction, `*len` | try, wait, try again | a flag that outlives the timeout it was set under; a peer that closes; requests of zero bytes |
| HTTP servers | `readv-writev/main.c`, `main_naive.c` | the client being served | accept, read once, write, close | every result dropped, `SIGPIPE`; silent clients; requests in pieces |
| signalfd | `signalfd/main.c` | none but the descriptors | poll, read stdin, read a signal | stdin is looked at first; `POLLIN \| POLLHUP`; signals that merge |
| inotify | `inotify/main.c` | `wd`, the events in `buf` | read events, remove and put back the watch | the watch follows the file and not its name; the queue overflows; the name is missing at the wrong moment |
| list_holes | `file_hole/list_holes.c`, `main.c` | offset | seek to a hole, to data, step back | fewer than 32 bytes of data at the end |
| cpu-idle-governor | `cpu-idle-governor/main.c` | next deadline, samples | set a deadline, sleep, record | carries between seconds; lateness that might add up; interrupted sleeps; indices of percentiles |
| copy loops | `copy_file_range/*.c`, `tee-splice/llm_splice_copy.c` | what is in hand | move in, move out | the result of the second call is dropped; the program waits for its own pipe |
| tee log | `tee-splice/llm_tee_example.c` | what is left of a chunk | `tee()`, `splice()` until done | the producer writes in between; the inner loop is left early |

The repository's processes interact only through the kernel. The model of each
program therefore contains its peers as actions: the producer on stdin
(`Produce`, `CloseInput`), the source and the subscribers (`ProxyPeers`), the
server (`BenchPeers`), the network (`Traceroute!Network`), nginx's event loop
(`Call`, `BecomesReady`), the caller of APR (`Sendfile!Return`,
`SocketIo!Call`), web clients (`HttpServer!Others`), whoever writes to stdin and
sends signals (`SignalLoop!Others`), and whoever uses `./foo`
(`WatchLoop!Others`).

### Not modelled

| component | reason |
| --- | --- |
| `timerfd` | one `read()` in a loop whose result is printed; the count of expirations is the kernel's to get right |
| `fork-vs-vfork`, `huge-pages`, `max-instruction` | measurements; nothing but time could be stated about them |
| `static-initialization-fiasco` | two initialisers in an order the linker chooses |
| `getrandom`, `mknod`, `umask`, `unshare`, `nice`, `sched-affinity`, `cpu-governor`, `x-macro` | one or two system calls, no state |
| `pybind11`, `node-addon-api`, `ieee-decimal`, `parquet-*` | library glue and scripts |
| `*.sh`, `Vagrantfile` | harness |

Clocks, printed text, rusage and option parsing are left out throughout.
`socket()`, `accept()` and `pipe()` failing for lack of descriptors are left out
where the code ignores their results (the proxies, `vmsplice/main.c`): nothing
is copied then.

## Modules

```
Streams ── Broadcast                       what a copier promises
   │           ▲ implemented by
   ├── TeeNaive ────────────────────────── TeeNaiveProofs
   ├── TeeSplice ───────────────────────── TeeSpliceProofs   (stdout only)
   ├── ProxyPeers ─┬─ ProxyNaive ──┬── MCProxies ── ProxiesProofs
   │               └─ ProxySplice ─┘
   ├── BenchPeers ─┬─ WriteBench           bench_naive.c
   │               └─ VmspliceBench ─┐     bench.c, implements WriteBench
   ├── VmspliceGift ─────────────────┤
   │   SmallString ──────────────────┼── MCBuffers ── BuffersProofs
   │   Vec ──────────────────────────┘
   ├── Sendfile ─────┐
   │   SocketIo ─────┼── MCSenders ── SendersProofs
   │   WritevChain ──┘
   ├── CopyLoops ────┐
   ├── TeeLog ───────┤
   │   SignalLoop ───┤
   │   WatchLoop ────┼── MCLoops ── LoopsProofs
   │   ListHoles ────┤
   │   HttpServer ───┤
   │   Deadlines ────┘
   └── StreamLemmas                        used by the proofs about streams
Checksum ── Traceroute ── TracerouteProofs
```

**`Broadcast`** is the abstract specification of all copying programs, taken
from the scenario in `tee-splice/REPORT.md`: a source writes and ends; each sink
receives, on its own, the next bytes of the source; the program finishes only
when every sink has everything, and may abort at any time, which leaves each
sink with a prefix, and one of the sinks in `Reporting` possibly with a message
behind its prefix. `Deliver` may extend any one sink by any amount, so buffers,
chunks and pipes do not show.

**`TeeNaive`.** `pc`/`cur` are the position in `main` ("open" with the file to
open, "read", "write" with the sink being written). `OpenFile` truncates:
a file holds `Stale` until then. `ReadChunk` and `ReadEof` are `read()`.
`WriteSome` is one turn of the loop in `write_all`, and moves to the next sink,
or back to `read()`, when nothing is left. `DieIf` may leave a `Message` on stdout.
The refinement mapping counts a file that still has its old contents as an empty
sink, and names stdout as the one reporting sink. `SkewWithinOneBuffer` speaks of
the input bytes of the sinks (`InputIn`), the message apart, and
`NothingCopiedBeforeAllOpen` allows on stdout what a failed `open()` prints there.

**`TeeSplice`.** `TeeFile`, `DrainFile` and `Forward` are the two loops over the
files and the last `splice()`. A unit of data is one pipe buffer, and room in a
pipe is counted in the same unit; a `splice()` that takes only a part of a
buffer, and so frees no slot for the next `tee()`, is outside the model. The
kernel's side (how much `tee()` and `splice()` move) is in the bounds of the
quantifiers. The history `upsets` records the four kinds of event that make the
files differ from stdout, so that the properties can say what holds without
them. `DieIf` may leave a `Message` on stdout, the one sink that implements
`Broadcast` here.

**`ProxyPeers`, `ProxyNaive`, `ProxySplice`.** `ProxyPeers` has what `main` of
both proxies shares (`BindAndListen`, `Accept`, `ConnectTo`), the source and the
subscribers. A reset loses bytes that are under way (`reach`), is reported to
the program once (`reset`, then `dead`), and a socket whose subscriber left may
still accept some bytes. Nothing compares a result with -1: `n = -1` goes on
into `write()` and `tee()` as the code passes it on. `SIGPIPE` and a failed
`assert` are the same to an observer, "aborted".

**`BenchPeers`, `WriteBench`, `VmspliceBench`.** The connection is a counter with
a capacity. `recv.c` serves one connection after the other, does not know how
much to expect, and may die or never be started. `VmspliceBench` is the nested
loop of `bench.c` and is checked to implement `WriteBench`, that is
`bench_naive.c`, with fairness, when the bytes drained count as sent.

**`VmspliceGift`.** The pipe holds references: `splice()` writes what the mapping
holds by then. `gifted` remembers what it held when it was gifted.

**`Traceroute`, `Checksum`.** `rows` is what the program prints. `wire` has the
probes whose answer is still to come, `sock` the queue of the raw socket, which
receives *every* ICMP message of the host; the program reads the next one,
whatever probe it answers. `Recv` is the mapping of types to return values, and
a fourth type meets `assert(0)`. `Checksum` takes the number of values of a word
as a parameter.

**`SmallString`, `Vec`.** `SmallString` keeps the union, a heap of blocks with
indeterminate bytes, and what has been pushed; `main` is one of the sequences of
calls. `malloc()` and `realloc()` are taken to succeed. `Vec` computes sizes
modulo `SizeMax + 1`; allocation fails beyond `HeapMax`, or at any time.

**`WritevChain`.** `ToIovec` is `ngx_output_chain_to_iovec()`, `UpdateSent` is
`ngx_chain_update_sent()` (not in the repository; modelled from how the excerpt
uses it); both are recursive functions over the number of buffers gone through.
`Writev` is one round of the loop. Chains are any sequences of `Buffer`s; the run
has `ShortChains`.

**`Sendfile`.** One action for each way through each of the three parts; `Return`
adds `*len` to what the caller knows and lets it call again with the rest.
Uncorking is taken to succeed.

**`SocketIo`.** `apr_socket_send()` and `apr_socket_recv()` are the same code but
for the direction, which is the variable `op`. "wait" is the label `do_select`,
which a call reaches at once when the last one in its direction left its flag;
the caller may change the timeout between calls. *len* and *status* are what the
call returns, `moved` what really happened.

**`HttpServer`.** One action per system call; `gather` says which of the two
programs runs, that is whether the answer takes one call or nine. `peer` is the
state of a connection as the server's kernel sees it, since that is what decides
between a write that is accepted, one that fails and one that raises `SIGPIPE`.
A client may leave twice: after an orderly shutdown ("fin") a reset makes the
connection "aborted", and then `read()` still reports the end of the stream but the
first write raises `SIGPIPE`. Requests are counted in bytes: `Send` is the arrival
of one piece of any size, and `ReadRequest` takes what is there, at most `ReadMax`
of it (`sizeof buf`, 4096), so that a request may be left partly unread because it
came in pieces or because it is too long.
`answer` is what a client that stays can count on.

**`SignalLoop`.** `Revents` is what `poll()` reports for stdin, `Readable` the
comparison of the code, which demands `POLLIN` and nothing else. Signals of one
kind merge while they are pending.

**`WatchLoop`.** A watch belongs to a file; the file lives while it has a name or
is kept otherwise (`kept`), and `Refer` says what happens when either changes.
`RemoveWatch` and `AddWatch` are two actions, because others may act between the
two calls.

**`ListHoles`.** The file is any set of blocks. `HoleStarts` defines the answer
independently of `lseek()`, and `ListsTheHoles` compares what was printed with it.

**`Deadlines`.** Times are records of seconds and nanoseconds, with the arithmetic
of the code; the clock may advance between any two steps, which stands for the
work, preemption and late wake-ups alike. `Due(i)` is when request i is due by
the first reading of the clock, not by the program's own additions.

**`CopyLoops`.** The loops that copy a file by `read()` and `write()`, by
`copy_file_range()`, and by two `splice()` calls through a pipe of the program's
own; `tool` says which. `upset` records that a call failed or moved out less than
it was given, the case that none of them looks at.

**`TeeLog`.** The loop that duplicates stdin to stdout and then consumes exactly
what it duplicated: the counterpart to the loop of `TeeSplice`, which does not.

**`MCBuffers`, `MCSenders`, `MCProxies`, `MCLoops`** put programs that share
nothing into one model: the variable `demo` says which one runs in a behaviour,
while the others rest in an initial state. The state graph is the union of the
programs' graphs. `bench.c` is in `MCBuffers` for what is proved about it, and has
the run `vmsplice_bench` of its own for its liveness.

## Runs

| run | instance | what it shows |
| --- | --- | --- |
| `tee_naive` | 3 files, buffer 3, input up to 6 | `ImplementsBroadcast`, with the message of a failure on stdout at most; the input in the sinks is at most one buffer apart and in order (`SkewWithinOneBuffer`); nothing is copied before all files are open; every byte is copied in the end |
| `tee_splice` | 2 files, BUF_SIZE 3, pipes of 2, stdin of 4, input up to 4 | stdout implements `Broadcast`, with the message of a failure at most; the files are copies of it exactly as long as nothing upsets a chunk; a file never repeats input until a last `splice()` was short; the program never waits on its own full pipe; every byte reaches stdout |
| `tee_splice_chunks` | 1 file, buffer 2 | **violated**: a file misses bytes that stdout got |
| `proxies` | chunk 4, pipes of 3, up to 7 bytes | both proxies implement `Broadcast` (an exit after a reset counts as an abort), whichever subscriber refuses or leaves; the subscribers are at most one chunk apart (`SkewWithinOneChunk`); the pipes of proxy.c hold exactly what is still to be sent, and its `tee()` is never short; both stop when the source closes, and proxy_naive after a reset too (`StopsWithItsSource`) |
| `proxy_naive_reset` | chunk 2, up to 2 bytes | **violated**: a normal exit after a loss |
| `proxy_splice_reset` | chunk 2, 1 byte | **violated**: `tee()` waits for ever after a reset |
| `vmsplice_bench` | chunk 4, pipe 5, total 10, receive buffer and socket 3 | `bench.c` implements `bench_naive.c`; everything ends, and a printed result means that all of TOTAL got through |
| `traceroute` | ttl up to 4, destination at 3, 2 messages of noise | checksums verify; which rows are right; answers are shown late but never early or twice; why the loop stops; it ends |
| `traceroute_assert` | ttl up to 3, destination at 2, 1 message | **violated**: `assert(0)` is reached |
| `buffers` | `size_t` of 7 bits, inline text of 3, two strings, up to 4 pushes, mapping of 16, `bench.c` as in `vmsplice_bench` | no write outside a block; blocks neither shared, lost nor dangling, and the caller of `vec_push()` has the block that is alive; the text survives every move; the file gets the gifted bytes; the inner loop of `bench.c` always finds its bytes in the pipe and leaves it empty (`PipeMatchesLoop`) |
| `senders` | iovec arrays of 2, chains up to 4, limits 0, 2, 5, 100; up to 3 bytes each of headers, file and trailers; requests of up to 2 bytes | the wire and the rest make up the chain, the loop of nginx ends only for a reason; `*len` is the truth; the ways in which a socket stays corked; what a send or receive returns is what happened (`ResultIsTruth`) |
| `loops` | see below | the programs of `MCLoops`: deadlines are kept (`OnSchedule`); which input and which signals are heard (`Heard`); when `./foo` is watched (`NoticedUnless`, `WatchedUnless`); which holes are listed (`ListsTheHoles`); who can kill or hold the HTTP server, and whose answer is whole (`KilledOnlyByLeaver`, `ServedUnlessHeld`); when a copy and a log are exact (`ExactUnlessShort`, `LogFollowsStdout`) |

### Why the bounds are enough

* *Copying programs.* The input is at least two full buffers or pipes long, so
  that a full chunk, a short chunk and a chunk after a short one all occur, and
  at least one transfer has an incomplete chunk left over. Two files already
  give a first, a last and stdout; tee_naive has three for one in the middle.
* *tee.* A chunk (3) is larger than a pipe (2) and smaller than stdin (4), so
  each of the three may be the one that limits a call.
* *proxy.* A pipe is smaller than CHUNK, as a pipe is whose buffers hold short
  TCP segments.
* *vmsplice_bench.* TOTAL is not a multiple of CHUNK, and the socket is smaller
  than a chunk, so that chunks are drained in several turns and the last is
  shorter than the others. `F_SETPIPE_SZ` may round up, and the pipe has room
  for more than a chunk.
* *traceroute.* The destination lies before the last ttl, with routers before
  it and a probe after it. Two messages of noise are enough for a duplicate of
  an answer and a foreign reply in the same trace. Words are 16 bits wide.
* *buffers.* `bench.c` has the sizes of *vmsplice_bench*. A `size_t` of 7 bits
  lets the capacity double up to the heap's limit and lets both products of a
  size computation wrap around; every argument of `vec_new()` is considered.
  Strings of 3 inline bytes move to the heap with the third push and are pushed
  onto once more there.
* *senders.* Chains of up to four memory buffers over two iovecs, two of the
  three buffers adjacent, so that coalescing, a full array and a short write
  inside a coalesced iovec occur; 0 and 100 are the limits that become the
  largest one. A request of two bytes can be empty, short and whole.
* *loops.* A second of 3 ns and an interval of 4 make deadlines fall at the
  beginning, inside and at the end of a second. A read of 2 with 3 bytes on
  stdin leaves some unread. Two files are enough for one to take the other's
  name, and a queue of two overflows. Files of up to 14 bytes with blocks of 3
  and a probe of 2 have every pattern of up to five blocks, with tails shorter
  than, equal to and longer than the probe. Of the two HTTP clients each may be
  ahead of the other; a request of up to 3 bytes against a buffer of 2 may fit,
  be too long, or come in up to three pieces; three writes (for nine) are the
  least with one that is neither first nor last. Files of 5 bytes in chunks of 2
  leave an incomplete one, and a pipe of 3 fills up with the rests of chunks.

### Fairness

`WF_vars(Program)` in the copying programs says that the process is scheduled
and that a blocked call returns when it can, which is what the kernel provides.
It is weak fairness of the program as a whole, since the program is sequential.
The proxies' also says that subscribers which stay connected read what they are
sent; one that does not may leave, and `Accepted` covers that. `VmspliceBench`
adds the same for `recv.c`. Nothing is assumed of producers, sources, the
network or of failures: an input that never ends, an answer that never comes and
a system call that never fails are all allowed. `Traceroute!TraceEnds` therefore
holds because of `SO_RCVTIMEO` alone. `LoopsSpec` assumes `WF` of each program
that has a liveness property, and nothing of those around it. Where such a
property needs something of them, it is a premise of the property: `Heard`
speaks of signals that stdin does not keep waiting for ever, `WatchedUnless` of
a name that stays what it is, `ServedUnlessHeld` of clients that do not hold the
server for ever.

## What the violated runs show

* **`tee.c` loses file contents** (`FilesGetEveryChunk`, tee.c:69). `tee()` copies
  what stdin holds at that time; the `splice()` to stdout moves up to BUF_SIZE of
  what it holds *later*. `copied_size` does not limit it. A write of the producer
  in between goes to stdout only, while the comment at tee.c:27-36 has each
  chunk go both ways.
* **`proxy_naive.c` exits normally after a loss** (`EveryByteDelivered`,
  proxy_naive.c:47). `read()` returns -1, `write(…, (size_t)-1)` returns -1, and
  `assert(w == n)` holds.
* **`proxy.c` waits for itself** (`StopsAfterSource`, proxy.c:65). After the same
  error `tee()` waits on `main_p`, which only the program itself could fill.
* **traceroute aborts on other people's traffic** (`OnlyKnownTypes`, icmp.c:125).

Seen while modelling, and visible in the definitions, without a run of their own:

* `vmsplice/bench.c:33` and `bench_naive.c` set TOTAL to 25 GiB where the comment
  beside it says 4 GiB.
* `vmsplice/main.c:51` overwrites gifted pages, which vmsplice's REPORT says not
  to touch; `FileAsGifted` shows that only a short first `splice()` makes it
  matter.
* `string_copy()` sets the copy's length to the capacity of the original
  (`small-string-optimization/main.c:81`): `TextStaysWhole` makes the exception
  explicit.
* A vector of capacity zero never grows and is written past its end
  (`Vec!Sensible` excludes it).
* `apr_sendrecv.c` leaves the cork on after failed headers (229), a failed wait
  (261) and a file sent without trailers (301-313), and no later call removes it
  (`CorkHeldOnlyBy`).
* `apr_socket_send()` and `apr_socket_recv()` wait when the call before was short,
  even if the socket has been set not to wait since (77-80, 37-40): one
  `APR_TIMEUP` where `EAGAIN` was due. A receive of zero bytes returns `APR_EOF`
  (`ResultIsTruth`).
* `signalfd/main.c:29` compares `revents` with `POLLIN`: after the writer of a
  pipe has hung up, what is left in it is never read, and the loop turns without
  waiting. At the end of a file stdin is readable for ever, and SIGQUIT is not
  noticed (`Heard`).
* `inotify/main.c:43` keeps -1 as `wd` when the name does not exist at that
  moment, and nothing makes it try again (`NoticedUnless`).
* `file_hole/list_holes.c:26` steps back 32 bytes however many were read: with
  fewer, at the end of a file behind a hole, the walk never ends
  (`ListsTheHoles`). The files of `file_hole/main.c` are not of that kind.
* `die_if()` reports failures with `puts()`, that is on stdout
  (`tee_naive.c:12`, `tee.c:13`), which is also one of the copies: whoever reads
  it gets "read", "write file" and the like behind the input, and before any
  input when an `open()` fails. `perror()` beside it goes to stderr.
* The HTTP servers are killed by `SIGPIPE`: with nine writes by any client that
  leaves in the middle of its answer, with `writev()` by one that resets its
  connection before it has sent anything, and with either by one that sends its
  request, shuts down its side and then resets (`KilledOnlyByLeaver`).
* A request of more than 4096 bytes is left partly unread even when it arrives at
  once (`main.c:31-32`): `close()` resets the connection, and the answer may be lost
  (`CutOnlyIfNotReadAtOnce`).
* `llm_splice_copy.c:14` drops a result, and `copy_file_range/main.c:22` and
  `foo.c:20` do; the exceptions are in `ExactUnlessShort`. `llm_tee_example.c`
  keeps log and stdout equal where `tee.c` does not, because it limits the
  `splice()` to what `tee()` copied (`LogFollowsStdout`).

## What is proved

Every safety property that a passing run checks is also a theorem, for every
value of the constants that the assumptions allow, and so are the refinements of
`Broadcast` by all four copying programs and the safety half of that of
`WriteBench` by `bench.c`. TLAPS checks the proofs from these assumptions, which
TLC evaluates in the runs:

| assumption | what it says | why |
| --- | --- | --- |
| `ConstantsAssumption` (tee_naive, tee), `PeersAssumption`, `PipeAssumption`, `BenchAssumption` | sizes of buffers, chunks, pipes and sockets are positive, the input is finite, there is a file | `#define`s; `assert(argc > 1)`; a pipe or socket without room would move nothing |
| `StringAssumption`, `GiftAssumption`, `VecAssumption` | sizes are natural numbers, the union has two bytes or more, the heap is at most half of the address space | `sizeof`; `PTRDIFF_MAX` |
| `ChainAssumption`, `IoAssumption` | chains are finite, buffers in memory are not empty, limits are natural numbers | nginx drops empty buffers before it calls |
| `BaseAssumption`, `TracerouteAssumption` | a word has more than two values; the words of a header add up to less than the number of them | 16 bits, and 8 + 42 + 31 |
| `DeadlinesAssumption`, `LoopsAssumption` | intervals, buffers and queues are positive; the servers' write calls are more than one in `main_naive.c`; a block of the file system is larger than what is read | the literals in the code; blocks have 512 bytes at least and 32 are read |

None of the properties is inductive. Each module states the invariant that is,
checks that it holds at first, that every action keeps it (one lemma each) and
that it implies the properties. In the modules of several programs the invariant
is the conjunction of those of the programs, and a step of one program leaves
the other conjuncts alone.

**`StreamLemmas`** has the facts about slices of a stream, foremost that a prefix
joined with the next slice is a longer prefix, and about fronts and rests of
sequences. The definitions `Slice`, `Upto`, `Joined`, `Part` and `Rest` are used
through these lemmas only.

**`TeeNaiveProofs`** (`TypeCorrect`, `SkewBounded`, `OpenBeforeCopy`,
`Refinement`). That a sink is a prefix does not say *which* prefix, and so not
that the next `write()` continues it. `IInv` says exactly what every sink holds
in each phase:

* `Opening`: files before `cur` are empty, the others stale, nothing is taken;
* `Between`: every sink has all that was taken;
* `Writing`: the chunk is the last `Len(buf)` bytes taken, sinks before `cur` have
  all of it, `cur` has the first `off` bytes, the sinks after it have none.

A program that died is in one of the three, but for a message at the end of stdout
(`Reported`): the three are therefore predicates on the contents of the sinks, and
hold of `out` or of `out` without that message. The skew follows from `Has(s)`, which
decreases along the sinks from `Len(buf) <= BufSize` to 0; each step under `IInv`
maps to a step of `Broadcast` or to a stutter.

**`TeeSpliceProofs`.** `Base` says that stdout is `Upto(taken)`, after a failure
possibly followed by the message, whatever happens to the files (`StdoutExact`,
`TypeCorrect`), which gives `Refinement`. `Rooms` says that a pipe is full only
between the `tee()` into it and the `splice()` out of it (`PipesBounded`,
`NeverStuck`). `Balanced` says what each file and its pipe hold in each of the
three loops as long as nothing upsets a chunk (`FilesEqual`). For
`FilesOrdered`, where chunks may be upset, `Ordered` says of the file and its
pipe together that they increase, and bounds them by the latest byte that a
`tee()` can have seen (`Newest`): without a short last `splice()` the next
`tee()` starts behind it.

**`ProxiesProofs`** (`TypeCorrect`, `TeeComplete`, `PipesComplete`, `SkewBounded`,
`Refinement`). `IInv` says for each step of the chunk under way what the pipes (or
the buffer) and both subscribers hold: `Given(a, b)` for the subscribers,
`Slice(Before, taken)` for the chunk. The chunk of proxy.c is at most a pipe long,
since it came through one, so that the `tee()` into the empty other pipe is
never short. After a reset, `n = -1` and nothing is left to copy.

**`TracerouteProofs`.** `ChecksumAccepted` and `ChecksumRejected`: if the one
fold of `checksum()` does not carry, a receiver accepts the header, and if it
does, every receiver rejects it, for every width. The two are the exact limit of
the code, and `ProbesAreAccepted` shows the headers of this program on the right
side of it. `IInv` says that an answer is at one place only: on its way, in the
socket's queue or in a row, and none of them ahead of its probe (`Orderly`,
`OnlyOnce`), which gives `AnswersOnlyMoveDown`, `TrustedUntilFirstMiss` and
`StopsOnlyThere` for any number of hops and any amount of noise.

**`BuffersProofs`.**

* `VecInv`: the block of a sensible vector has *exactly* the size that its capacity
  needs (`VecTypeCorrect`, `VecNeverStray`). Doubling preserves it because a block
  that exists is at most `HeapMax`, and `2 * HeapMax <= SizeMax`: the size asked for
  next cannot have wrapped around.
* `StringInv`: what the bytes of each string are for the history that it has
  (`SmallSound`, `LargeSound`), and that blocks and large strings correspond one to
  one (`Owned`); `BlocksAreOwned`, `TextSurvives`.
* `GiftInv`: the first `Size` bytes gifted are of one kind and the others of the
  other, and so are those in the file up to where the first `splice()` stopped
  (`OnlyLeftoversChange`).
* `BenchInv`: the pipe holds what the inner loop has still to drain, within the
  mapping and within `TOTAL` (`PipeIsTheLoop`, `BenchTypeCorrect`,
  `BenchImplementsWrite`). `BenchCount` adds that no byte is lost between pipe,
  socket and recv.c, so that a printed result means that all of TOTAL has got
  through (`ResultsMeanTotal`).

**`SendersProofs`.**

* `ChainInv`: the wire and the rest make up the chain, and a call that goes on is
  below its limit (`ChainIsKept`, `CallsEndForAReason`). What the recursive functions
  `ToIovec` and `UpdateSent` return is proved by induction on the number of buffers
  gone through (lemma `Induction`): `Built`, the iovecs gather the front of the
  chain, coalesced or not; `Dropped`, what is left is the chain without its front.
  A round sends something because `NothingYet`: only special buffers, or a file,
  give an empty array, and the first are dropped while the second ends the call.
* `FileInv`: what the caller was told and what the call has written is on the
  wire, and the cork belongs to the call under way or to one of three reasons
  (`SendfileTypeCorrect`, `SendfileTellsTheTruth`, `CorkIsHeldOnlyBy`).
* `IoInv`: a call moves nothing before it returns, and waits because of the flag or
  of a timeout (`ResultsAreTrue`).

**`LoopsProofs`.**

* `DeadlinesInv` (`KeepsSchedule`): `next` is always a valid timespec and equals the
  time at which the last request was due (the coming one while the program sleeps);
  `ts_add_ns()` adds and its one carry is enough, and the percentiles are indices
  into the samples.
* `CopyInv` (`CopiesExactly`): what is in hand is the last `n` bytes taken.
* `LogInv` (`LogsWhatPasses`): the log has what was consumed, stdout also what is due.
* `HttpInv` (`OnlyLeaversKill`): nobody has read from those who wait, each waits once,
  and a connection that raises `SIGPIPE` before the first write is one that was reset
  after its shutdown or that sent nothing.
  `AnswerInv` (`AnswersAreWhole`): what is unread of the client being served once the
  server has read is either more than one `read()` takes or came in a later piece.
* `WatchInv` (`NoticesFoo`): there is at most one `IN_DELETE_SELF` to be seen, and it
  is there exactly when the watch is gone and not yet noticed.
* `HolesInv` (`WalksListTheHoles`): without a short tail, the walk has listed the
  holes that begin before where it is; with one, it never gets past the tail. A
  run of data behind a hole begins with a block, so that the tail begins at least 32
  bytes into the file and stepping back ends inside. `MainMakesNoShortTail`: the last
  record of `file_hole/main.c` is as long as what is read, and no block of data
  begins behind the start of a record.

### Only model-checked

Liveness is beyond the prover, which handles neither `ENABLED` nor progress
under fairness: `EveryByteCopied`, `EveryByteForwarded`, `StopsWithItsSource`,
`Heard`, `WatchedUnless`, that the walk of `ListsTheHoles` ends, that everyone
is served in `ServedUnlessHeld`, that `vmsplice_bench` and `traceroute` end
(`Ends`, `TraceEnds`), and the fair part of `ImplementsWriteBench`. What
`SumFunction` computes is proved for the four words of the program's header, not
for sequences of any length. The violated runs are counterexamples and need no
proof.

## Plan

1. *Done:* every program that keeps state across system calls is modelled, every
   safety property of the runs is proved.
2. Next: what a liveness property needs short of fairness, for the loops whose
   progress has a measure that every step of the program lowers (the walk of
   `ListHoles`, the rounds of `WriteBench`); the internet checksum of headers of any
   length, by the induction that `SendersProofs` uses; for `SignalLoop`, what can
   still be read after a hangup.
3. Not planned: the programs under "Not modelled".
