# Arlib: models and proofs

TLA+ specifications of the parts of Arlib that hold its concurrent logic: the
coroutine mutex, the runloop, one-time initialisation between threads, the DNS
resolver, the buffered socket, and the HTTP client that pipelines requests over one
connection; and of two data structures whose correctness is a matter of long sequences of
calls: the hash map kept in a file, which must survive a crash, and the hash set. Arlib is a C++ utility
library (`src/arlib/`); a program built on it has one runloop per thread, and
coroutines that wait on that runloop's events. Threads meet only in the few
primitives of `src/arlib/thread/`.

## Inventory

| Part | State it keeps | Operations | What is hard | What makes it correct |
|---|---|---|---|---|
| `co_mutex` (`runloop2.h`) | `the_lock`, list of waiters at `first`, one timeout `next_unlocker` | `co_await`, release, hand-off, destroy a waiter, a lock or the mutex | the hand-off is two steps with the runloop between; everything may be destroyed in between | one inside; first come, first in; no hand-off lost; no lock outlives its mutex unnoticed |
| waiters, producers, `async` (`runloop2.h`) | two pointers at each other, moved with the objects | complete, cancel, move | a completion runs client code before it returns | pointers always agree |
| runloop (`runloop-poll.cpp`) | tables of descriptors and of timeouts, free lists inside them | register, cancel, `step()` | client code runs inside both dispatch loops, and may reallocate what they walk | no event lost, none given to a later registration, no freed slot used |
| `runonce`, Linux (`linux-thr.cpp`) | one futex word | `run(fn)` | races, early wake-ups, memory order | `fn` once, nobody returns early, nobody sleeps for ever |
| `runonce`, generic (`once-thr.cpp`) | a list of nodes on the stacks of sleeping threads | `run(fn)` | nodes die when their thread is woken | the same |
| HTTP client (`http.cpp`) | socket, its origin and age, three counters, two `co_mutex` | `request()`, cancellation at any `co_await` | pipelining, orphaned answers, retries, a server that closes | each request gets its own answer, in order; nothing is sent too often |
| DNS resolver (`dns.cpp`) | lookups in an `allocatable_array`, one socket, one timer | lookup, answer, retry, expiry, cancel | completions start new lookups inside the expiry loop | every lookup ends, the socket lives as long as a lookup does |
| byte pipe (`bytepipe.cpp`) | two buffers | push, pull, pull a line | bytes move between buffers, which swap, are joined and grow | a queue of bytes |
| buffered socket (`socket-helpers.cpp`, `socket.h`) | two byte pipes, pending read, a waiter for each direction, who waits for the sends | read, read a line, send, wait for sends, cancel, failure, a new socket | a waiter must be armed exactly while something is left to do | bytes in order; no read waits for what is there; reads and sends end |
| static map (`staticmap.cpp`) | hash map, objects and free lists in a mapped file | open, recover, insert, remove, reset, sync | a crash between two writes, also of a recovery | the old or the new map; objects, lists, hashmap and counts as `fsck()` requires them |
| hash set (`set.h`) | slots, some of them tombstones, two counters | add, remove, find, rehash, copy, iterate | the last empty slot; a loop over a set that changes | a set; items found and shown once |
| heap (`heap.h`, `prioqueue.h`) | array | push, pop | indices | a priority queue |
| processes (`process-linux.cpp`) | descriptors to renumber | `set_fds` | a target that is another's source | each descriptor ends where it was asked to |

How they interact: client coroutines register waiters with the runloop, whose
`step()` calls them back. `co_mutex` asks the runloop for a timeout of zero to
resume its next waiter. `http_t` serialises its requests with two `co_mutex`,
reads through a buffered socket, and resolves names with the DNS resolver,
which again waits on the runloop for its socket and its timer. `runonce` is used
below all of it, for the initialisation of process-wide tables.

`PROJECT.json` lists every component with its status, and every hazard at its
line with the properties that cover it.

## Modules

| Module | Models | Of |
|---|---|---|
| `FifoMutex` | what `co_mutex` promises: one line, its head may be inside | comments of `runloop2.h:174-176` |
| `CoMutex` | the mutex itself | `runloop2.h`, class `co_mutex` |
| `CoMutexProofs` | theorems about `CoMutex` | |
| `Once` | what `runonce::run()` promises | `thread.h` |
| `RunOnceThreads` | threads inside `run()`, which the next two extend | |
| `RunOnceFutex` | the futex protocol | `linux-thr.cpp`, `thread.h`, `atomic.h` |
| `RunOnceList` | the list of semaphores | `once-thr.cpp` |
| `RunOnceProofs` | theorems about both | |
| `RunloopPoll` | both tables, registration, cancellation, `step()` | `runloop-poll.cpp`, `allocatable_array` and `waiter` of `runloop2.h` |
| `RunloopPollProofs` | theorems about `RunloopPoll` | |
| `RequestLine` | what one `http_t` promises its callers: answers in the order of requests | `http.h`, the test "http 4" |
| `Http` | `http_t::request()` and `http_t::set_error()` | `http.cpp`, `http.h` |
| `HttpProofs` | theorems about `Http` | |
| `Dns` | lookups, answers, retries, expiry, cancellation | `dns.cpp`, class `dns_t` |
| `DnsProofs` | theorems about `Dns` | |
| `Bytepipe` | the methods of a byte pipe, as operators on a record | `bytepipe.cpp`, `bytepipe.h` |
| `Socketbuf` | both directions of a buffered socket, each with a pipe | `socket-helpers.cpp`, `socket.h`, class `socketbuf` |
| `MCSocketbuf` | the reads its clients make | |
| `SocketbufProofs` | theorems about `Bytepipe` and `Socketbuf` | |
| `AtomicMap` | what a static map promises: operations that happen or do not | `staticmap.h` |
| `Staticmap` | every write of every operation, and the end of the process between two | `staticmap.cpp` |
| `StaticmapProofs` | theorems about `Staticmap` | |
| `HashSet` | the table and an iterator over it | `set.h`, class `set` |
| `MCHashSet` | that its items are alike | |
| `HashSetProofs` | theorems about `HashSet` | |

### From the code to the variables

*`CoMutex`.* `queue` is the list at `first` (its order is the pointer `next`),
`theLock` is `the_lock`, named by the coroutine that owns the lock object,
`holders` are the coroutines whose lock object has a `parent`, and `timer` says
whether `next_unlocker` is connected. A coroutine runs until it suspends, so one
action is one synchronous run: `AcquireFree` is `await_ready` to the end of the
waiter's destructor; `Release` is `~lock` with `unlock()`; `UnlockerRun` is the
timeout's callback with the waiter it completes; `CancelWait` is the destructor
of a suspended coroutine's waiter; `Destroy` and `Construct` are the mutex's own.
`Barging` says whether a `co_await` may begin while a hand-off is under way.

*`RunOnceFutex`.* One action per atomic access or system call of `run()`; `pc`
is the access a thread makes next. `sees` are the threads that the return of
`fn` happens before: an acquiring load joins it when it reads `done`. `LLSC` and
`WeakOrder` select the hardware.

*`RunloopPoll`.* A table is a record: `next` is the link of each unused slot
(the negative descriptor or the expired time the code threads its free list
through), `wait` is the waiter of each used slot, `gen` counts the arrays the
table has lived in. `prod` is the pointer of each waiter. `phase`, `n`, `end`
and `endGen` are where `step()` is; `inCallback` says that client code runs below
it. `ready` is a history variable: the waiters whose event the last poll found.
Time is counted in units; `left` is the time to a deadline and nothing below
zero is told apart. A poll with an empty result is one with `wait == false`, or
one a signal interrupted, or one that reached the first deadline.

*`Http`.* `line1`/`inside1` is `mut1`, through the promise of `FifoMutex`. `line2`/`inside2` is
`mut2`: the request `the_lock` names, if any, and the waiters behind it. Nothing is assumed of its callers, so
`beside` are the requests that hold a lock of it besides, and `due` says that its timeout is pending although
`the_lock` is set; `barged`, a history variable, says that it was ever taken past somebody who waits. `Join2`, `Leave2` and `Enter2` are
the `co_await`, the end of a lock or a waiter, and the timeout. `pc` is the `co_await` a request is at, and `retry`,
`mine` and `got` are locals of the coroutine. `http` are the members that
describe the socket: whether there is one, whether it is for the other origin,
whether the two seconds of keep-alive have passed (`fresh`), and the three
counters. `conn` is the far end: `wire` are the answers on their way, in the order
requests were sent; `closed` and `cut` say that the server closed the connection,
perhaps within the last answer; `far` are the requests for another origin; `torn` says that a cancelled reader left the rest of
an answer behind. `got` is the request whose answer was really read, which the
code cannot see. What a broken send or a new socket does to another's pending read happens below the request that
causes it: at `sending`, `failing` and `replacing` that reader goes first. A second reader at once ends the program
(`socket.h:245`); everybody is `aborted` then.

*`Dns`.* `node` is the array `waiting` (`left` is the time to `expiry`, `who` stands for
the waiter and for the name in `send_buf`, one name for each lookup), `free` its free list, `recvW` says
whether `recv_w` waits, `timer` is what `time_w` was registered with. `timeout()`
is the one function that runs client code in the middle of a loop over state which that
code changes, so it is split: one action per slot it looks at (`Pass`, `Retry`,
`Expire`) and one for its end. `loops` are the calls of it on the stack, with the locals
`i`, `next_expiry` and `special`; `running` says whether the innermost is at
work or client code below it; `receiving` that `complete_recv()` is further down.
`net` are the packets of this socket on their way; a packet may be received any
number of times or never, and a query, with its id and its name, is taken for its answer: `Answers` is the comparison of that name with
the one in `send_buf`, whose outcome for a late reply is an error. `Restart` says whether the
callback of a lookup that expired may ask again at once.

*`RunOnceList`.* A pointer to a node is the thread on whose stack the node lies. `m_st`
is the word, `next` and `sem` are the members of the nodes, `st`, `stp` and `after` locals of
`run()`. A node is on the list (`Listed`) while its thread sleeps and was not released; it is gone
when the thread returns from `sem.wait()`.

*`Bytepipe`, `Socketbuf`.* A byte is its place in the stream, so that order, loss and doubling are
visible in what a pipe holds. A pipe is a record of the two buffers and their four
offsets; `Content` is what it will give. `recv_by`, `send_by`, `recv_op` and `sock` are the members of
that name; `recv_wait`, `send_wait` and `send_prod` say whether those waiters are connected. `hushed` is a history variable: a wait
for the sends was cancelled, which stops the socket's calls, and nothing was sent or flushed since.
Reads of 1, 2, 4 and 8 bytes are reads of so many bytes. `nl` are the bytes
that end a line. `come`, `taken`, `out`, `wrote` and `sent` count bytes on their way.
The socket gives any part of what has come and takes any part of what it is offered.

*`Staticmap`.* `file` is the whole file: its size, whether it is marked as in use (`active`), the
root object's members, the heads of the free lists, and the object at each offset, with `junk`
inside objects and `blank` where nothing was written since the file grew. An operation is
computed as a run: the file as it is now (`file`) and the files there were after each write
(`past`); `Write` adds one. The process ends in any of them (`EndsIn`), also within `open()`. `lost` says that
it ended in an operation on a file that is not marked as in use, or that `recover()` found nothing free and left its buffer
(`Overrun`): nothing is done with the file after that. The
loops of `alloc()`, `dealloc()` and `recover()` are recursive functions whose value is the run so far:
`Split` by the size of the part to cut off next (`Cut` is one turn), `UnlinkSiblings` by the size the freed
object has reached, `Found` by the number of turns (`Visit` is one). `dealloc()` decides how far to go as it
goes; `JoinedSize` says so beforehand, since what the loop writes are links and what it reads are
headers. Offsets are in units of the smallest object. The probing of
the hashmap is left out: it is a function from keys to objects with a count of tombstones, and
whether a new key reuses one is a choice.

*`HashSet`.* `slot` is `m_data` with `m_valid`: an item, `Free` or `Tomb`. The hash of each item
is chosen at the start, so every pattern of collisions occurs. `content` is the set
it stands for; `pos`, `moved`, `stayed` and `seen` are one iterator and what it has shown. `Rehash`
is the loop of `rehash()` as a recursive function: the table after each of its turns.

## Composition

`Http` uses `mut1` as the first-come-first-in line of `FifoMutex` instead of
the list and the timeout of `CoMutex`. The theorem `Ordered` of `CoMutexProofs`
says that `CoMutex` implements that line when no `co_await` begins during a
hand-off; `Http` states the same assumption in the guard of `Arrive`, so its
results hold for callers that keep it. For `mut2` no caller can keep it: `request()` itself, resumed with `mut1`,
begins to wait for `mut2` while a hand-off of it is pending. So `mut2` is modelled with its timeout and with
more than one holder (findings 1 and 2). `CoMutex` takes from
`RunloopPoll` that a registered timeout is reported in the end
(`TimeoutServed`), which is the fairness of `UnlockerRun`, and that a cancelled
one is not (`LinksAgree`, `EventsPaired`), and so does `Dns` for `TimerFires`. How an
`allocatable_array` grows is `RunloopPoll`'s matter; `Dns` gives its array a slot for
every lookup.

`Socketbuf` uses two pipes of `Bytepipe`, which therefore are checked in every state a socket can
bring them to. `Http` reads through a buffered socket whose reads end and give the bytes
in order (`ReadEnds`, `InOrder`). Both builds of `runonce` implement `Once`, under the same
refinement mapping, and `Staticmap` implements `AtomicMap`.

## Runs

The longest passing runs (`http`, `hashset`) take some two minutes on two workers.

| Run | Question | Instance |
|---|---|---|
| `comutex` | Does the mutex exclude, keep order, never lose a hand-off, never leave a stale lock, and let every waiter in? | five coroutines, cancelled at will; the mutex is destroyed and rebuilt |
| `runonce` | Is `fn` called once, does nobody return early, does nobody sleep for ever? | three threads that call again and again; early wake-ups |
| `runonce_list` | The same, and is a node never touched after its thread is gone? | four threads |
| `runloop` | Do pointers, free lists and events survive whatever callbacks do? | three waiters; tables that start with one slot and double to four; delays of 0 and 1 |
| `http` | Is each request sent over a connection to its own origin, no more than allowed, and does it end; and until `mut2` is taken past a waiter, does it get its own answer, in order? | three GETs and a POST; one GET for another origin; a server that closes at any point |
| `dns` | Can whoever waits be heard, in time, until it ends, and is the socket closed when nobody waits? | two names, three ids, two tries of two units of time |
| `socketbuf` | Are bytes kept in order, does no read wait for what is there, do reads and sends end? | four bytes to read and two to send per connection, pipes of two bytes, reads of one and three bytes, of up to two, and lines of up to three |
| `staticmap` | Is the map the old or the new one, and the file whole, wherever the process ends in a file that says that it is in use? | two keys, two values of one unit and one of two, a file of four units that grows to eight, a hashmap that doubles and is cleaned |
| `hashset` | Does every probe end and find what is there, and does a loop show what stays once? | five items, hashes 0, 1, 3 and 6, tables from four slots |
| `comutex_barging` | Is the mutex one when callers barge? (no) | three coroutines |
| `http_orphan` | May any request be cancelled without harm to the next? (no) | a GET and a POST |
| `dns_restart` | May the callback of an expired lookup ask again? (no) | two names, one try |

Why the bounds are enough. In `CoMutex` an action looks at the head, one waiter
and the list's being empty: five coroutines give a holder, a first waiter, a last
one and two between; what they show is proved for any number. In `RunOnceFutex`
three threads are a runner, a sleeper and one on its way to sleep; in `RunOnceList` a
fourth makes the list long enough to have a middle, and the proofs cover any number. The
tables of `RunloopPoll` start with one slot so that both grow, twice, with three
waiters; in the real program the first growth comes later and is the same code.
In `Http` three requests on one origin are what it takes for a socket to be
replaced under a request that was pipelined on the old one, with as many requests
sent on the new one as had been sent before it, which is the case the
generation counter exists for; a fourth is the one that cannot be pipelined, or is for
the other origin. In `Dns` two lookups are one that waits and one whose
callback does something about it, in slots on either side of each other; a third id
leaves a choice while both are in use, two units of time let deadlines differ,
and two tries make an expiry that is a retry and one that is not. In `Socketbuf` a read of three
bytes is more than a buffer of two, so pipes swap, are joined in place and move to a larger
buffer, and four bytes are one more than the largest read. In `Staticmap` a value of
two units and a hashmap of two make the allocator split and merge at two levels and the file
grow once; the thresholds of the hashmap are lowered (`GrowAt`, `RehashAt`) so that two keys cross
both. In `HashSet` a table of four holds two items before it grows to eight, five items fill and shrink
it again, and the hashes wrap at its end in either size. `PROJECT.json` names, for each property, a
fault of the code that violates it on the very instance of its run.

`MinSize` of `HashSet` is four and not eight, as in the code, so that five items reach
every way in which a table grows, is cleaned of tombstones and shrinks. `MCHashSet` declares its items alike: they
differ in their hash only, and that is a variable.

`CHECK_DEADLOCK FALSE` stands in the two `Http` configurations and in that of `Staticmap`. A request is made
once in the former, so the system ends when all have returned, or when a second reader aborts it; a file that is `lost` is not
followed in the latter.

## Fairness

- `CoMutex`: the runloop dispatches a timeout that is due, and a coroutine inside
  the region leaves it. Nobody has to arrive or be cancelled. The first is what
  `RunloopPoll` shows of the runloop; the second is the caller's part of any mutex.
- `RunOnceFutex`: every thread inside `run()` is scheduled, and `fn` returns.
  Early wake-ups are never needed.
- `RunloopPoll`: the program calls `step()` again and again, callbacks return,
  and `ppoll()` takes some time infinitely often. The last is strong fairness: a
  poll that returns at once because a descriptor is always ready may be taken any
  number of times, but not to the exclusion of the clock.
- `Http`: hand-offs are dispatched, a connection is made or refused, and a server
  that was asked answers or closes. After a second reader nothing happens any more. An `http_t` has no timeout of its own, so
  nothing is promised about a server that stays silent.
- `RunOnceList`: every thread inside `run()` is scheduled, and `fn` returns.
- `Socketbuf`: the runloop calls a waiter whose socket is ready, a socket that is ready gives or takes a byte
  or fails, and the peer sends until it closes. This is the weak fairness of `RecvReady` and
  `SendReady` restricted to steps that make progress, written with what enables them. A read
  of `bytes_partial()` is not promised an end when the connection breaks under it, since what the code
  does then is undefined.
- `Dns`: the loop of `timeout()` runs; callbacks return, time passes, and the runloop
  reports a timer that is due, each under strong fairness because client
  code may ask, cancel and receive in between for as long as it likes. No packet ever has to
  arrive, and no client has to stop asking.

## Proofs

`CoMutexProofs`, for any set of coroutines:

- `TypeCorrect` and `HandoffNeverLost` with or without barging. The inductive
  invariant `HandoffInv` is `TypeOK /\ NoLostHandoff`: the timeout exists while
  somebody waits for an empty region, and never for an empty list. Neither half of
  `NoLostHandoff` is inductive alone, since a cancellation needs the first to keep the
  second.
- `OneInside`, `NoStaleLock` and `Ordered` assume `Barging = FALSE`. `PoliteInv`
  adds `LockKnown` to `HandoffInv`: exclusion follows because the only lock object
  with a parent is the one `the_lock` names, and that in turn needs that a timer
  runs only while the region is empty. `Ordered` is the refinement of `FifoMutex`;
  each action maps to one abstract action or a stutter (destroying the mutex
  under its holder is that holder's `Leave`).

`RunOnceProofs`, of `RunOnceFutex`, for any set of threads on a strong build (`LLSC` and
`WeakOrder` both false): `CalledOnce`, `NoEarlyReturn`, `NoLostWakeup` and the
refinement of `Once` (`Implements`). The inductive invariant joins the run's
invariants with `WordInv` (which word goes with which thread being where), because that `fn`
runs once is only inductive if the word stays claimed as long as its claimant is at it.

`RunloopPollProofs`, for any set of waiters, any first size of the table of descriptors, any longest delay, and
callbacks that do or do not make the table of timeouts grow: `LinksAlwaysAgree`, `FreeListsAlwaysWhole`,
`EventsAlwaysPaired` and `NoEventEverLost`, the whole of what the run checks but liveness. `PollInv` has the types, with
a free list inside each table stated as a path: a sequence of
different unused slots, each linked to the next, that reaches them all and ends outside (`HasFreePath`). That
form survives what the code does to it, a slot taken off the front, one pushed back, and a chain of
new ones put before it when the array doubles; the recursive walk of `FreeListsWhole` is then shown to follow
the path. `LoopInv` says where in the two loops of `step()` a waiter whose event was found still lies ahead: that is why no event
is lost when a callback moves or cancels other waiters.

`HttpProofs`, for any set of GETs and POSTs and any choice of those for another origin. Three theorems hold whoever
holds `mut2` beside whom: `PostsSentOnce`, `SentToItsOrigin` and `ReadersServed`. Each has an invariant of its own, which says nothing of
`mut2`: `RequestsInv` (what may be retried was not sent, or may be sent again), `SocketInv` (what is on its way is for the origin the
members name), and `ServedInv` (what was sent over an open connection and not received is on its way, and who remembers that connection was sent
over it; so the counters that pair a request with its place also tell it that something is there).

The others hold as long as `barged` is false: `HttpInvariant`, `SocketNeverShared`, `CheckedAnswersRight`, and `AnswersInOrder`, the
refinement of `RequestLine` up to the first such step. `HttpInv` ties the two lines to the places requests are at (`Line1Inv`, `Line2Inv`: whoever
is inside the first is the last of the second, and nobody holds the second beside another), the counters to what is on its way (`WireInv`: received and on
its way make what was sent, until the server closes), and what a pipelined request remembers to its answer (`MineInv`: if
the generation is still the one it saw, the answer at its place is its own, whatever was cancelled). `OrderInv` says the same
of everybody before the first cancellation of a request that was sent, and `ReaderInv` of who reads. `CheckedAnswersRight` rests on
the last three and nothing else: an answer that is not checked may be another's afterwards, which is what
`http_orphan` shows. The refinement maps the promised line to line 2 without a request that is returning, followed by line 1 without
its holder if he is in line 2 already; a step of the client takes a request out of that exactly where `RequestLine` does.
The condition is needed: TLC violates `OneOnSocket`, `CheckedRightAnswer` and `KeepsOrder` without it (finding 2).

`DnsProofs` has two parts. The first, for any number of lookups, ids, tries and units of time, needs
`Restart = FALSE`: `AlwaysHeard`, `TimerInTime`, `TridsDiffer`. The inductive
invariant `HeardInv` has four parts. `StackInv` are the types, and that at most one
call of `timeout()` is on the stack, which is what the assumption buys: what the loop has
passed then only goes away, and is never filled again. `SocketInv`: every used slot has a socket, and a socket has
somebody who listens. `LoopInv`: `next_expiry` is no later than any deadline already
passed, and the lookup that called is still in its slot with its time untouched, so the loop
neither retries nor expires it, and a `complete_recv()` below keeps its socket.
`TimerInv`: the timer is no later than any deadline, or `timeout()` is about to set it. `Heard` is
not inductive without `LoopInv`, since closing the socket is decided by
`next_expiry` alone. The assumption is needed: the run `dns_restart` violates `Heard` without it.

The second part needs no such assumption: `DnsTypes`, `SocketTimed` and `SlotsNeverLost` hold whatever callbacks ask, with
calls of `timeout()` nested as deep as they like. `BookInv` says that a lookup about to wait keeps its slot and all its time
below every call on the stack (`SpecialInv`), that a slot is used or on the free list once (`FreeInv`), and that the lookups asked
for are those in the slots, each in one (`AskedInv`). `SocketTimed` says that outside of `timeout()` an open socket has a timer that
will look at it again; it is what `SocketCloses` rests on. So what goes wrong in `dns_restart` is that a socket is closed too early, never that
it is left open, and no slot is lost.

`RunOnceProofs`, of `RunOnceList`, for any set of threads that are not words of the state: `NodesLive`, `ListWhole` and the
refinement of `Once` (`ListImplements`). The names the two builds share start with `List` in this one, so that one module can
extend both. `ListInv` has the types; `WordInv`, which
says what the word tells about the function and the threads (one active thread, a word that is
`done` while it wakes); `ChainInv` (every pointer on the list leads to a sleeper or ends it);
`SingleInv` and `ReachedInv`, which say that no two pointers lead to one sleeper and that one does.
That a node is alive when it is read is not inductive without them: the next node was read one step
earlier, and only its being on the list, once, keeps its thread asleep until then.

`SocketbufProofs`, for reads, buffers and streams of any size: `NoByteLost` (`InOrder`), `ReadersWait` (`ReadWaits`) and
`SendersAreHeard`, which gives an exception to who waits while `hushed` is true (finding 10). A pipe *holds* the bytes from a to b of a stream if its two buffers, from their `st` to their `end`,
have them in order, one after the other (`Lies`); there is a lemma for each method of `bytepipe`, which says what it does to a and b
(`PushHolds`, `PullHolds`, `PullLineHolds`, and the three ways of `pull_begin()`). `SockInv` then says, for each direction, that
its pipe holds what is between the two counters, and what a read that waits is short of. That a line's end is never overlooked needs
both halves of it: `pull_line()` skips what was there when the read began to wait (`SearchRest`), and `SockInv` says that this had none.
The size of a buffer that grows is the first of s, 2s, 4s ... that is enough; that there is one (`DoubledFits`) is shown by a
least number without one (`LeastOfNat`), which takes the place of induction in this, in `RunloopPollProofs` and in `HashSetProofs`.

`HashSetProofs`, for any items, any hashes and a first table of any size the module allows: `AlwaysFindable` (`Findable`) and
`AlwaysShownOnce` (`ShownOnce`). `Reached` is what tombstones are for: on the way round from an item's hash, no
slot before its own was never used. `Sound` adds that the counters count, `m_used_slots` the slots
that are not `Free`, and are less than the slots, so that there is one at which every probe ends. Both are needed for each other:
`FindPosIs` (a probe finds what is there and ends at a free slot otherwise) takes `Reached` and the free slot, and `grow()` keeps the slot
only because tombstones are counted (`GrownIs`); that is what the mutant `GrowsHalfFull` forgets. That
`rehash()` gives the same items, all reached and without tombstones (`RehashIs`), goes through the turns of its loop
(`MovedOne`) to a least turn that fails; the recursive function is shown to exist in the same way (`LoopRuns`). The places of the ring
of slots are numbers modulo its size; what is used of them (`RingOnce`, `RingAll`) holds for every size, not only for the powers of
two the code has. `IterInv` says of the loop over the set that it has shown what stayed in the slots up to `pos` once and
nothing behind them.

`StaticmapProofs`, for any keys, values, thresholds and sizes of files: `Mends` (the inductive invariant), `StaysWellFormed`, `OneStrayHolds`, and
`MapKept`, the refinement of `AtomicMap` up to a step that makes the file `lost`. A file is *divided* (`Divided`) if its objects tile it, each aligned to its
size and no two free siblings of one size, with at most an object without header behind the old end: `recover()` can walk it. It is *tidy* if also
the freelists have the free objects, and what is inside objects is junk. `Torn` and `Whole` say that there is such a division.
The hashmap has the data (`Tabled`), or all but one object is the only one of its key and the hashmap is the only one but for that (`Single`).
So a file is `Sound` (whole and tabled) between two operations and `Mendable` (torn and single) within one.

`IInv` says: a file somebody has open is sound; one that nobody has open is empty, or cleanly closed and sound, or says
that it is in use and is then worthless or mendable. A file in which the process ended unmarked is mendable too when that happens, but `open()` does
not mend it (finding 7). The invariant is inductive because of what holds of the past of each run. Whatever the allocator writes before
the last header leaves the same objects in use (`Kin`), and so the same map; taking an object (`UsedIs`) or
giving one back (`DeallocIs`) is one write among them. A second hashmap is the one object too many (`TwinCalm`, `RehashIs`); so is a key's
new object until the old one is given back (`AddsUnder`), and after that the new one alone is found though the hashmap still points to the old
(`ChangesUnder`): so each file of the past of `insert()` (`InsertIs`) and `remove()` (`RemoveIs`) has the map before or after. `recover()` rebuilds the
lists as it walks, which keeps the file torn at every write (`VisitSeen`), finds all there is to find (`FoundSeen`), and writes the root, the hashmap
and the header of the object too many, each of which leaves a file that can be mended to the same map (`RecoverIs`, of a file with an object free): so a
recovery may be cut short any number of times. Under the invariant the map a reader sees is the one that a
recovery would find (`ContentIs`), and each action that does not make the file `lost` is a step of `AtomicMap`. `WellFormed` and `OneStray` are consequences.

The constants' assumption that
a value is no larger than a new file is the one of finding 11, and that a new file is smaller than the bound
`MaxSize` is what makes the bound one of the model only: a file that would reach it is not modelled further.

What the theorems assume of the constants is in the assumptions of the modules, and no more: sets of requests, waiters and
lookups are any sets (those of `Dns` finite, since the code gives each a slot), values such as `None` and `Nil` are
none of the others (`NilOK`, `DnsOK`), and sizes and delays are positive.

Only model-checked: all liveness (`WaiterServed` and the like), which needs ENABLED. Those instances are
finite, and so is what they cover. Where a loop of the code is a recursive function (`Rehash` of `HashSet`; `Split`, `UnlinkSiblings`
and `Found` of `Staticmap`), its result is related to its turns by lemmas (`TurnsExist`, `ScanExists`, `LoopRuns`), and what the turns preserve is shown
by a least turn that fails to.

## Findings

Three have a violation run, and `PROJECT.json` quotes the line the code disagrees with.

1. *`co_mutex` admits two coroutines* (`runloop2.h:859`). `unlock()` empties
   `the_lock` at once and resumes the first waiter by a timeout; a `co_await` in between
   enters, and then so does the waiter. Run `comutex_barging`.
2. *`http_t` admits two requests to one socket* (`http.cpp:205`), by the same step and without any caller at fault. A
   request that is resumed with `mut1` begins to wait for `mut2`; if `mut2` was released just before, its timeout is
   still pending, `the_lock` is null, and it enters past the waiters, the first of whom the timeout then lets in as
   well. The same happens where a send fails below another's reader, who gives `mut2` back on
   its way out. The second reader ends the program (`socket.h:245`), replaces the socket under the first, or reads
   the answer of another. The model has all of it (`barged`); the properties of the
   run `http` that need one holder say so.
3. *A request that is not pipelined may get a cancelled request's answer*
   (`http.cpp:172`). Only the pipelined branch compares the counters. Run
   `http_orphan`; reproduced with a real server.
4. *A lookup can lose the socket it waits on* (`dns.cpp:341`). A client that asks again from
   the callback of a failed lookup gets the slot the loop has just passed, and the loop
   closes the socket. Run `dns_restart`; a coroutine that awaits `socket2::dns()` again after it
   failed crashes the real program at `dns.cpp:326`, two seconds later.

Switches of the models show two more; the configurations that are kept leave them off.

5. *`runonce` may run `fn` twice on load-linked/store-conditional hardware*
   (`atomic.h:48`). The compare-exchange is weak and its failure is not
   reported. `RunOnceFutex` with `LLSC = TRUE` and two threads violates `RunsOnce`. x86 is not
   affected. The generic build has the same weakness, and there a waiter may also sleep without
   having put its node on the list.
6. *The loop over timeouts walks an array a callback may reallocate*
   (`runloop-poll.cpp:256`). The comment at the loop before it asks for an index.
   `RunloopPoll` with `GrowInTimeouts = TRUE` violates `NeverDangling`; a sanitizer build of the
   code reports a use after free.

Four are in the models, and the properties state what is left of them.

7. *A static map that was closed cleanly and opened again is not marked as in use*
   (`staticmap.cpp:85`). `open()` leaves `synced` at 0, so `desync()` does not write the
   mark that `staticmap.cpp:37` says is there, and a crash in a later operation is not recovered from.
   The end of the process there makes the file `lost`, and `KeepsMap` ends with it; without that condition TLC
   finds a map that points to a free object.
8. *Recovery of a file with nothing free runs below its buffer* (`staticmap.cpp:206`): the loop looks for the
   largest list that has something. Two keys and a larger hashmap fill the file of the run. `Overrun` makes the file `lost`, too.
9. *A body cut short is a complete, empty one* (`http.cpp:250`); reproduced with a
   real server. `CutBody` does what the code does.
10. *`send_prod_cancel()` stops the sending* (`socket.h:333`): it cancels the socket's call, and `await_send()` (`socket.h:355`) does not
    ask for it again. Bytes that wait then stay until the next send or flush, and a wait that begins after the cancelled one hangs
    until then, although `socket.h:351` says that it completes when nothing is left to send. `SendEnds` excludes
    just those waits (`hushed`); without that TLC violates it.

And these the models leave out, or take as harmless, where the code was read for them.

11. *`alloc()` doubles the file once* (`staticmap.cpp:269`), also for an object larger than the
    file, which then does not fit. Values are small in `Staticmap`.
12. *The marks of empty free lists may be wrong* (`staticmap.cpp:206`, `:245`, `:265`), and `fsck()` aborts at line 575 although the
    map is intact. The loop at 245 is to clear the marks of the smaller lists too, but clears the same one; so a list below one
    that was filled may keep its mark, after a recovery or after growth. Without any recovery: insert a value that takes 2^16 bytes and one that
    takes 2^17 into a new file, remove the second and insert it again, and the list of 2^17 is 0 above that of 2^16 marked 1. `Staticmap` keeps
    the marks as the code does; `WellFormed` is what `fsck()` requires without them.
13. *A pending `bytes_partial()` meets a failing socket* (`socket-helpers.cpp:86`) and
    reaches `__builtin_unreachable()`; so does moving the object. `Socketbuf` does not follow it.
14. *`insert()` returns a slice eight bytes off* (`staticmap.cpp:432`): `off_r_entries` instead of
    `off_d_keystart`.
15. *`get_or_prepare_create()` with `known_new`* (`set.h:166`) writes slot 0 unless the table grows. No
    caller asks for it. Assigning a set to itself destroys it (`set.h:239`).

## What is left out

- The build with `ARLIB_OPT`, in which `async::then()` on a busy waiter does not
  cancel the older registration, and the build with GTK.
- `step()` called from a callback.
- The overflow of the 16-bit counters of `http_t`, which needs 65536 requests on one
  socket; the counters of the model are natural numbers and never reach that.
- The text of HTTP: parsing of URLs, headers and chunks appears as "a status line is read",
  "the rest is read", "what is read is not HTTP". `get_any()` and forms.
- The text of DNS: whether a name can be encoded, is an address or is in the hosts file,
  and what a reply with the right id and name says, appear as outcomes. Two lookups for one name
  at a time, which may take each other's late answers without harm. What
  `sock->send()` does on no socket, which is undefined.
- Relaxed memory order beyond the `WeakOrder` switch of `RunOnceFutex`.
- Of `socketbuf`: moving it, a callback that destroys it, `can_recv()`, and bytes that `send_buf()` leaves without a flush. A
  callback of a failed send that assigns a new socket and reads at once, whose read `socket_failed()` then fails.
- Of `staticmap`: where a key is in the hashmap, iteration, the writable mapping, and disks that
  reorder writes (`staticmap.h:11`).
- Of `set.h`: class `map` beyond its nodes being items of a set, more than one iterator at a time, and
  a callback of `map::get_create` that changes the map.
- `heap.h` and `prioqueue.h`: two loops over an array, without state between calls. `set_fds()` of
  `process-linux.cpp`: straight-line system calls on a table only the kernel keeps.
- Strings, arrays, JSON, zip, images, and other sequential data processing; the
  wrappers of the operating system's sockets, threads, files, windows and OpenGL; the TLS
  libraries; `split-thr.cpp`, which no build compiles; the applications that use Arlib.

## Plan

1. Done: `FifoMutex`, `CoMutex`, `Once`, `RunOnceFutex`, `RunOnceList`, `RunloopPoll`,
   `RequestLine`, `Http`, `Dns`, `Bytepipe`, `Socketbuf`, `AtomicMap`, `Staticmap`, `HashSet`, and the proofs of
   every safety property their runs check.
2. Still to prove: the probing of the hashmap of a static map (`hashmap_locate()`), once it is modelled.
3. Modules still to do: `async::then` and `multi_waiter_t` beside `CoMutex`; the heap against a
   reference definition.
