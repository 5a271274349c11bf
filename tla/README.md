# A formal model of ss15

ss15 is a multiplayer game in C++ (boost::asio, C++11 threads and atomics): a
server that owns the game and sends what changes in it, and clients that log in
over TCP, send inputs over UDP and keep a copy of the game. This directory holds
TLA+ specifications of the parts of it in which threads, messages and copies
meet, the TLC configurations that check them on small instances, and proofs,
checked by TLAPS, of theorems about nine of them.

The repository is work in progress, and the models follow it:

* `client_game.hpp:28-30` hands `m_game_state` to `apply_update` where the loop
  variable `update` is meant, and no file includes it. The model uses `update`.
* `handle_tick` (`server.cpp:181-330`) names variables that are not declared,
  nothing launches the tick timer, and nothing sets the `m_game_state` without
  which it returns at once. Its selection of a player's input is modelled, with
  that test and without assuming that it ever happens; the rest of it is not.
* `diff`, `apply_update`, `enqueue_updates`, `dequeue_updates` and the objects of a
  game have no caller yet that fixes the order of calls. The model lets a server
  call them in every order, assumes no caller that comes back, and marks external
  what must stand between `diff` and `enqueue_updates` (`Report`).
* The client's `update_queue` is never set, and the server sends no updates.

## 1. Inventory

| component | state | operations | hard because |
|---|---|---|---|
| `out_of_order_queue` (`threadsafe_queue.hpp`) | ring of slots with value and exists flag, `m_awaiting`, a condition variable | `set(v)`, `set(v, i)`, `pop`, `skip`, `has`, `awaiting` | several threads wait; values arrive out of order and repeatedly; few calls notify |
| `threadsafe_queue` (`threadsafe_queue.hpp`) | deque, maximal size, mutex, condition variable | `push`, `pop`, `try_pop`, `flush`, `swap` of two queues | `push` wakes one of several consumers, others take its value first; `swap` brings values to sleepers without a push, and lets go of one mutex before the other |
| `flush_queue` (`threadsafe_queue.hpp`) | vector under a mutex, atomic capacity hint | `emplace_back`, `try_pop_back`, `flush`, `container` | `flush` works on a hint it loaded earlier, reserves outside of the mutex, and has a hand-written compare-exchange loop |
| `sharable_pool`, `shared_pooled_ptr` (`pool.hpp`) | blocks with an atomic flag, a counter and an owner; pointers | `make_shared_from_pool`, copy, move, swap, reset, destruction | lock-free scan, last holder on any thread, fallback on `new` |
| `free_list_pool` and server objects (`pool.hpp`, `server_src/game.cpp`) | chunks of blocks, free list; object per block, frame of what changed | `alloc`, `free`; `create_object`, `destroy_object`, `free_object`, `set_xy` | scripts keep pointers for good; two functions give the same block back; a `noexcept` function must not allocate |
| game state (`game.cpp`, `game.hpp`) | players, objects, grid of sets of objects | `add_`/`remove_player`, `add_`/`remove_`/`move_object`, `set_player_object`, `do_action`, copy, serialize and rebuild, `diff`, `apply_update` | pointers in both directions, two indexes of the same objects, preconditions nobody tests |
| client update queue (`client_game.hpp`) | `m_update_queue` under a mutex, `m_game_state` | `enqueue_updates`, `dequeue_updates` | updates arrive while taken ones are half applied |
| sessions (`server.cpp`, `client.cpp`, `net.hpp`) | connection per client, map of weak_ptrs by address, sockets | accept, handshake of three messages, reads and writes, lookup, stop by a signal, teardown in `main` | lifetime hangs on handlers; connections break anywhere; two sides must never both wait; what is destroyed at the end is destroyed in the order of declarations |
| input path (`client.cpp`, `server.cpp`) | client's counter, UDP, pooled packets, `m_udp_received` | `send_input`, `udp_receive`, `handle_udp_receive`, selection in `handle_tick` | loss, repetition, reordering, several workers, counters of different widths |
| client UDP receive | `update_queue` | duplicates filtered with `has` | unfinished |
| frame history (`server.cpp:245-260`) | deque of frames of object past | merging | merged pasts; unfinished |
| serialization (`serialize.hpp`, `serialize_impl.hpp`, `endian.hpp`) | bytes | read, write and size of integers, strings, lists, arrays, structs, variants | integers are cast to the width on the wire, and tested in a third, common type |
| TCP messages (`client.hpp`, `server.hpp`, `net.hpp`, `type_index.hpp`, `buffer.hpp`) | buffers, what is read next | `tcp_send_message`, `tcp_read_message`, `tcp_read_message_body` | a stream cut anywhere; sizes computed apart from the bytes they announce |
| `threadsafe_map`, `safe_strand`, `atomic_fetch_min/max` | | wrappers | partly used, see below |
| rendering, Lua, compression, hashes, containers | | | no protocol |

How they interact. A client's main thread posts inputs to the strand of its
network thread (`safe_strand`), which serializes and sends them. A worker of the
server receives a packet into a block of the `sharable_pool`, posts the next
receive, looks the sender up in the address map (a `threadsafe_map` of weak_ptrs
to what the TCP side keeps alive) and puts the message into a `flush_queue`,
which the tick flushes. The tick is to run the game and to send each client the
`diff` to what it has. The client's network thread is to pass updates through
the `out_of_order_queue` and `enqueue_updates` to the main thread, which applies
them in `dequeue_updates`.

What makes each part correct:

* out_of_order_queue: pops return each index once, in order, with the value set
  last; no thread sleeps through a value; a duplicate stays recognizable.
* threadsafe_queue: no queue exceeds its limit, through any swaps; no consumer
  sleeps beside a value that nobody is on his way to; calls take effect as one.
* flush_queue: every call takes effect at one moment, so that each element is
  handed out once and in order; the hint never shrinks; `flush` ends.
* sharable_pool: the count is the number of handles, a block is in use while and
  only while somebody refers to it, and returns to where it came from.
* free_list_pool: a block is owned by one script or stands once in the free list,
  and there is always room to give it back, but for what `free_object` gives back
  twice.
* game state: the grid and the objects agree, and players and objects do.
* updates: the client converges to the reported game and no update is refused.
* sessions: one side always has the next move; logins complete; the connection_t
  of a client that is gone is destroyed, also at shutdown, and never found again;
  a pointer into the pool is never left without its block.
* TCP messages: what one side sends the handler of the other side gets, value
  for value and in order, and no reader waits for bytes that nobody sent.
* input path: numbers of a client only increase, the newest input of a tick is
  selected, what a worker handles is seen by the ticks there are.

`PROJECT.json` lists the components, the hazards each property is aimed at (each
at its line, with a reason where no property covers it yet), and, under `map`,
the source lines each definition models.

## 2. Modules

| module | models | abstract promise |
|---|---|---|
| `OutOfOrderQueue` | `threadsafe_queue.hpp:182-276` | `OrderedDelivery`, by `ImplementsOrderedDelivery` |
| `ThreadsafeQueue` | `threadsafe_queue.hpp:74-180` | `BoundedQueues`, by `ImplementsBoundedQueues` |
| `FlushQueue` | `threadsafe_queue.hpp:15-73` | `MessageBuffer`, by `ImplementsMessageBuffer` |
| `SharedPool` | `pool.hpp:15-176` | `SharedOwnership`, by `ImplementsSharedOwnership` |
| `FreeListPool` | `pool.hpp:176-232` as operators on pools | |
| `ServerObjects` | `server_src/game.cpp`; composes `FreeListPool` | |
| `GameState` | `game.cpp`, `game.hpp`: every member function as an operator on records | |
| `GameReplication` | a server's calls, `client_game.hpp`; composes `GameState` | |
| `Session` | TCP handshake, connection lifetime, address map, shutdown | |
| `InputPipeline` | `send_input` to the tick; composes `MessageBuffer` | |
| `Serialize` | `serialize.hpp`, `serialize_impl.hpp`, `endian.hpp` as operators | |
| `TcpFraming` | one direction of a TCP connection, byte by byte; uses `Serialize` | `MessageChannel`, by `ImplementsMessageChannel` |
| `...MC` | constants for TLC | |
| `PoolProofs` | theorems about `SharedPool` and `ServerObjects` | |
| other `...Proofs` | theorems about the module they are named after, `TcpFramingProofs` about `Serialize` too | |

Operators called "Faulty variant" are never used by the specifications. Each is
a plausible mistake in the definition that follows it, and shows, put in its
place, that a property can fail.

**OutOfOrderQueue.** Each member function holds the mutex throughout and is one
action. `pop` is cut where `wait` releases the mutex: a consumer is `idle`,
`waiting` (in the wait set) or `ready` (woken, without the mutex yet). Spurious
wakeups are allowed. `set(v, i)` is two actions, `SetAccepted` and `SetIgnored`.
Indices are natural numbers; the 64-bit wrap is out of any program's reach.
`OrderedDelivery` has a partial function of pending values and no ring; the
refinement mapping reads it from the slots of the window. `origin` is a history
variable, the index that a slot's value was set for; with it the mapping does not
take a value of another round for a pending one.

**ThreadsafeQueue.** A call that holds the mutex throughout is one step. `pop` is
cut at `wait` as above. `swap` locks two mutexes, and is cut where it releases the
first (`Swap`, `SwapEnds`), with the consumers of the second still asleep;
`m_mutex` names the swapper that holds one between two steps. Values and limits
are exchanged, and who waits stays where it waits. The move constructor is a
`swap` with a queue nobody else knows; the copy constructor names a member that
does not exist, and does not compile. `BoundedQueues` has neither mutexes nor
threads inside of a call.

**FlushQueue.** Elements are numbered in the order of `emplace_back`. `flush` is
cut at every operation on the hint: `FlushReserve` (load, reserve), `FlushSwap`
(the mutex), `RaiseSucceeds`, `RaiseFails` (one weak exchange; it may fail
spuriously) and `FlushReturn`. The loop is modelled as it is written: it goes on
after a success and stops at a failure, where the usual idiom does the opposite.
Vectors double, which is what the hint sees of the memory. `taken` is a history
variable, what the last call handed out; with it `MessageBuffer` says that a flush
takes effect at one moment, though it reserves before it and exchanges after it.

**SharedPool.** A step is one atomic operation: one `test_and_set` of the scan,
one `fetch_add`, one `fetch_sub`, and the release. A handle is worked on by one
thread at a time, as with `std::shared_ptr`, so a handle stands for its thread.
Flags are clear at the start, as the pool's users assume. Only one scan runs at a
time: both programs allocate in handlers of one strand. Without that a scan may
miss blocks freed behind it while it fails at those taken ahead of it
(`StartAllocAnytime`), and `FallbackOnlyWhenFull` fails. Moves and assignments
are compositions of `Copy`, `Swap` and `Drop`, as in the code.

**FreeListPool, ServerObjects.** Blocks are numbered through the chunks. Scripts
(Lua, external) call the server's functions in any order with any pointer they
ever got, as the comment at `pool.hpp:177` allows; only what they give back must be
theirs. Nothing in the repository gives an object its id, though `destroy_object`
tests it, so `AssignId` is external too. `free_object` is modelled as it is: an
object with an id is given back by `destroy_object` and then once more
(`FreeTwice`). An assertion that fails sets `aborted` and ends the behaviour, since
the Makefile leaves assertions in. `owners` and `given_twice` are history variables
that count, per block, who got it and did not give it back, and how often
`free_object` gave it back twice. A recycled block keeps its old position, and no
`updated` flag is ever reset, as in the code.

**GameState, GameReplication.** A game is a record of players, objects and grid;
a member function is an operator on games. What the code asks of its callers
without testing it (an object inside the grid, a player with an object, pointers
that are not dangling) are operators `Undefined...`, what it tests and throws on
are `Throws...`. In `GameReplication` a call outside of its domain sets `fault`,
and the behaviour ends. With `Careful` the server keeps to the conditions. `Report`
is external: `diff` takes a previous game, which no code keeps, and somebody must
keep it (`base`) and pass the updates to `enqueue_updates`. `Dequeue` swaps the queue
under the mutex, `ApplyUpdate` is one round of the loop outside of it. The
`visited` marks of `diff` are the set of ids they stand for. Coordinates are row
numbers, since only rows are ever changed by an action.

**Session.** A client and its connection are two state machines with a channel
each way. A message is one step, header, body and all, as `TcpFraming` shows that
it may be. `TcpHolds` and `udp_handler` are the shared_ptrs; a connection_t is
`Alive` while there is one. `Break` may happen at any time after connecting, and
what was under way is lost or still read. `AcceptThrows` is `remote_endpoint`
throwing out of `io_service.run`, which ends the server; `AcceptFails` and
`ReceiveFails` are handlers called with an error. A client that sends no login
where one is read is left alone, and its connection goes. `Stop` is a signal: no
further handler begins. When those under way are through, `DestroyServer`
destroys the `server_t` with its pool, and `End` the `io_service` with the handlers
that never ran, in the reverse order of their declaration in `main`. `Arm` is
`udp_receive`, whose handler holds a block of that pool. `connection_t::stop` is
private, called nowhere, and left out.

**InputPipeline.** `network` is a set of packets. Receiving one may leave it
there (repetition), any may be received first (reordering), `Lose` removes it.
The counter starts with any of `FirstNumbers`: the code does not initialize it.
`NetworkThreadThrows` covers the number that does not fit 16 bits and every
socket error; the process ends. The message queue is an instance of
`MessageBuffer`, what `FlushQueue` is shown to implement, so a `flush` is one step.
`HandleThrows` and `HandleCaught` are the message that cannot be read, which is
dropped. `StartGame` is external: it stands for what sets `m_game_state`.
All inputs are filed under player 0,
as the code does.

**Serialize, TcpFraming.** A struct is the list of its members, and a struct in it
stands in place, as in the bytes. Writing gives bytes; reading consumes them and
ends with a value or an exception. Each integer has its type in the program and
its type on the wire, and is tested in their common type, as `int_serialize` does
it. `IsStruct` and `IsValue` say what the compiler makes sure of: which members a
struct may have and which values those. `tcp_send_message` throws before anything is sent if a member does not fit.
`Arrive` moves any number of bytes to the receiver's socket; a read completes
when it has all it asked for. Both sides have the same code, so one direction is
modelled with the variant of each. Names hold no zero byte.

## 3. Runs

| run | question | states | result |
|---|---|---|---|
| `ooq` | 2 consumers, ring of 3, indices to 4: lost wakeups, duplicates, ordered delivery, progress | 59 thousand | holds |
| `queue` | 2 queues with limits 1 and 2, 2 consumers, 2 swappers, 3 values: limits, lost wakeups, bounded queues, progress | 85 thousand | holds |
| `flush` | 2 flushes, 4 elements: message buffer, hint, termination | 11 thousand | holds |
| `pool` | 3 handles, 2 blocks, 2 heap addresses: counts, leaks, origin, shared ownership | 38 thousand | holds |
| `objects` | 2 chunks of 2 blocks, 1 id, 2 positions, any calls, each block given back twice at most once: owners and entries add up | 1.2 million | holds |
| `game_replication` | no players, 2 objects, 3 rows (one off the grid), 2 queued updates, any calls | 180 thousand | holds |
| `game_careful` | 2 players, 2 objects, 1 queued update, `Careful` server | 240 thousand | holds |
| `game_copy` | may every game be copied? | | violated |
| `session` | 2 clients (one of a wrong version) behind one address, 2 workers, a signal at any time | 62 thousand | holds |
| `shutdown` | 2 clients, 1 worker: does the block of an armed receive outlive its pointer? | | violated |
| `input` | 1 client, 2 workers, wire numbers to 3, counter modulo 6, 2 inputs, 2 messages per tick | 102 thousand | holds |
| `framing` | 2 messages a direction, every cut, members at and beyond the limits of their types | 4 thousand | holds |

### Why the bounds are enough

* `ooq`: indices 0 to 4 go once around a ring of three and on, so a slot is used
  by two indices; two consumers are the fewest between which a wakeup can be
  lost. `MaxIndex` bounds producers and `skip`, not `pop`.
* `queue`: with limits 1 and 2 a swap takes a full queue's limit away; two
  consumers can wait at one queue and at different ones while either swapper is
  between its two steps. Three values fill both queues; a fourth would be refused.
* `flush`: two flushes overlap at every step; four elements make the vector grow
  from nothing to 1, 2 and 4, so that a flush sees a hint raised by the other one
  that is smaller or larger than its own capacity.
* `pool`: three handles fill two blocks and still allocate; two heap addresses
  are used at once only when both blocks of the pool are held at the time of the
  fallback and freed later.
* `objects`: the second chunk is added while blocks of the first are owned, and
  then there are as many free as ever will be. One id tells objects with one from
  those without; two positions tell whether an object was moved. `MaxTwice` bounds
  how often one block is given back twice: once is enough for two owners, and with
  several blocks for a list as long as its capacity.
* `game_replication`: two ids let one object vanish and another appear in one
  report; one row above the grid is the row that `action_move_up` leads to.
  Two queued updates let a second report arrive while the first is half applied.
  Players are left out of this run, since updates say nothing of them.
* `game_careful`: two players compete for two objects. Without `Careful` the
  links do break: `remove_player` leaves its object a dangling pointer, and
  `set_player_object` takes an object without telling its former player. Nothing
  in the repository says otherwise, so this run states what callers must do.
* `session`: connections share only the map and the workers; two of each show
  every pair, and one address for both makes them share an entry of the map. The handshake has three messages, so nothing is bounded. `shutdown`
  asks about the receive, which no client shares; one worker is enough.
* `input`: the counter wraps after 6 and the wire ends at 3, so two inputs
  reach both edges from the starts 0, 3 and 5, and from 1 both are larger than 0.
  `MaxReceived` bounds what is received between two ticks; it never stops a
  worker that has a packet.
* `framing`: with two messages under way the end of the first is also the
  beginning of the second, and any cut falls before, in or behind it. Types have the program's widths, 1, 2, 4
  and 8 bytes; only a byte has four values instead of 256, which makes limits
  small and the theorems below show to be no loss. Values are 0, 1, the limits,
  and one more than the wire can take.

Deadlock is checked except in `session` and `shutdown`, where clients exit and the
server ends, in `objects`, where an assertion that fails ends the program, in `framing`, where all messages may have been sent and read, and in
`game_replication` and `game_copy`, where a fault ends the program and where a
server out of ids with an empty game has nothing left to do.

### Fairness

Weak fairness only, of steps that a running program takes by itself: a woken
consumer gets the mutex (`ooq`, `queue`), a thread inside `swap`, `flush` or a
destructor goes on (`queue`, `flush`, `pool`), a thread inside `dequeue_updates`
goes on with its loop (`game_replication`), io_services run the handlers of
operations that can complete (`session`), a worker that has a packet goes on with it
(`input`), and a `main` whose `run` was stopped goes on to its end (`session`). That
somebody calls `dequeue_updates`, or that the tick's timer is started and the server
has a game, is not assumed, as no code sees to it: `ReportsArrive` and
`HandledReachesTick` say what follows if the queue in question is emptied again
and again. In `ooq` and `queue`
fairness is for the group of consumers woken at a queue: which of them gets the
mutex is left open, so a single consumer may starve and the properties speak of
the values. No fairness is assumed of callers, of users, of signals, of the
network, or of a weak exchange succeeding or failing: that `flush` ends follows
from the hint growing.

### What the violated properties show

* `game.cpp:12` (`game_copy`): the fix-up loop of the copy constructor
  dereferences the object of every player, also of one that has none.
* `main.cpp:154` (`shutdown`): the `server_t` and its pool (`server.hpp:114`) are
  destroyed before the `io_service`, whose handler of the armed receive still
  holds a `shared_pooled_ptr`. Its destructor decrements the counter of a block
  that is gone, where `pool.hpp:72` promises what a shared_ptr does.

### Also met, without a run of its own

* `threadsafe_queue.hpp:227`: `set(v)` stores the value but not `exists`, so the
  next `pop` still waits, although the comment at line 221 promises the value.
* `server.cpp:164`: the map has one connection per IP address. Of two clients
  behind one address the later one takes the entry, and when it goes, packets of
  the earlier one, who is still connected, are discarded (`server.cpp:118`). The
  `session` run does this; nothing in the repository promises otherwise.
* `server.cpp:202`: the search for the most recent input starts from number 0
  and asks for a larger one, so an input numbered 0 is ignored.
* `server_src/game.cpp:37`: `free_object` calls `destroy_object`, which gives a
  block with an id back already, and gives it back again. In the `objects` run the
  block is then twice in the free list, handed out to two, or the assertion at
  `pool.hpp:208` fails. `BlocksAddUp` says that this is the only way to either.

## 4. Theorems

TLC says what holds for three handles or a ring of three. TLAPS proves it for
every value of the constants.

`OutOfOrderQueueProofs` (for every `Size > 0`, every set of consumers and values,
every starting index):

* `TypeCorrect`, `NeverLosesWakeup`. `NoLostWakeup` is inductive together with
  the types: while a value is awaited nobody sleeps, so a `pop` that takes it
  leaves no sleeper behind to notify, and this is why `pop` need not notify.
* `RoundsKeptApart`, `DuplicatesStayKnown`, `Refines`. All three rest on
  arithmetic of slots: two indices of one window never share a slot (`SlotsOfWindowDiffer`), and the slot freed by
  advancing is that of the one index the window gains (`SlotOneRoundLater`).
  These are proved from the laws of division with remainder. `Refines` uses
  `RoundsKeptApart` as its invariant: without it a value set for a later round
  could be delivered in this one.

`ThreadsafeQueueProofs` (for every number of queues and swappers, every finite set
of consumers, all limits):

* `TypeCorrect`: among the types, that no queue exceeds its limit.
* `NeverLosesWakeup`: `NoValueSleeps` needs to know besides that a consumer that
  sleeps is not also among the woken, or waking it would not add to them
  (`WakeupInv`). A `push` adds a value and a woken consumer, a woken consumer goes
  away with a value or finds none, a swap wakes all.
* `Refines`: every step is one of `BoundedQueues` or a stutter.

`FlushQueueProofs` (for every number of flushers and elements):

* `TypeCorrect`, `HintNeverShrinks`, `Refines`. The hint is only exchanged for a
  larger one, since the exchange compares with the value that was found smaller.
  `Refines` says that each element is handed out once and in order, however many
  flushes overlap.

`PoolProofs`, of `SharedPool` (for every number of blocks, every finite set of handles,
every heap apart from the pool):

* `OwnershipCorrect`: the invariant `OwnershipInv`, one lemma per action. None
  of its parts is inductive alone. That a new count of 1 is right needs that a
  raw block is exclusive, that needs that a clear flag means that nobody points
  to the block, and that needs exact counts, by which the last holder is known to
  be the last. `TypeCorrect`, `RefcountsExact` (`HandlesCounted`) and
  `NoLeakNoDangling` (`BlocksGoHome`) are its parts.
* `FallbackNeedsFullPool`: from two further invariants. At most one thread scans
  (`OneScanner`), and until a scan has seen the pool full a free block lies ahead
  of it (`FreeBlockAhead`).
* `Refines`: every step of the pool is a step of `SharedOwnership` or a stutter.

and of `ServerObjects` (for every chunk size and number of chunks, all ids and
positions, any calls, and any number of blocks given back twice):

* `BooksBalance`: `BlocksAddUp` is inductive with the capacity added, chunks times
  chunk size, and that blocks to come were never given back twice (`Whole`). Each
  lemma counts what a call does to the entries of a block (`OccAppend`,
  `FreeEntries`). That the assertion of `free` holds as long as nothing was given
  back twice is the pigeonhole principle (`WholeFree`): the list is then without
  repetition and lacks the block that is owned, so it is shorter than the number
  of blocks.

`GameReplicationProofs` (for every grid, every set of numbers as player ids, any
number of objects, rows and queued updates):

* `GamesSound`: the invariant `GamesInv`. One lemma per member function of
  `GameState` says that it keeps a sound game sound: the ids are numbers and
  finitely many, pointers lead to what is there, to nothing, or are marked
  dangling, and an object is in the cell of its position and in no other. The
  numbers matter because copies and reports go through the ids in order, and that
  there is an n-th id is proved by counting (`EachRank`).
* `TypeCorrect`, `ObjectsAreFound` (`GridsFindObjects`), for any calls.
* `LinksNeverBreak` (`LinksStayMutual`): with a `Careful` server, for the game, its
  copies and the client's game between any two updates.
* `Follows`: the invariant `FollowInv`, for any calls. What updates say is only which
  object is where, so a game is looked at through its places (`PlacesOf`): a row
  for each object, `Null` for an id that is free. A sequence of updates `Leads` from some
  places to others if there is a path between them on which each update finds its
  object, or finds it missing, as its kind expects. `FollowInv` says that the
  updates a client has not applied lead from its game to the game reported last.
  `ClientFollows` alone is not inductive: that the end is right does not say that
  the next update can be applied. A report adds a path at the end (`DiffLeads`: a
  `diff` names each id once, so its updates cannot get in each other's way, and
  none is missing), an applied update takes the first step (`PathGoesOn`,
  `ApplyPlaces`), and a swap of the queues moves nothing.
* `ClientConverges` (`ClientFollows`): the places at the end of the path are what
  the client gets by applying everything (`ReplayLeads`).
* `NoUpdateThrows` (`UpdatesNeverThrow`): the next update is the first step of a path.
* `CarefulServersAreSafe` (`CarefulIsSafe`): needs besides that every object of the
  server and of the client is inside the grid, and that no pending update puts
  one outside (`SafeInv`). That an update does not meet a bad pointer follows from
  `LinksStayMutual`.
* `DiffIsComplete`: between any two games with whole grids, `diff` and
  `apply_update` fit together. `CopiesAreExact`: where links are mutual, the copy
  constructor and construction from `serialized()` give the very same game.

`SessionProofs` (for any clients, addresses and workers):

* `SessionsStaged`: a session, that is client, connection, channels and break, is
  always in one of ten stages (`SessionInv`), the handshake's steps and its ends.
  `TypeCorrect` and `BatonsNeverLost` (`OneBaton`) follow by looking at the stages.
* `DestroyedForGood` (`DestroyedStaysDestroyed`): a closed connection gets no TCP
  operation, and a lookup returns living ones only.

`InputPipelineProofs` (for every width of the wire below that of the counter, any
clients, workers and number of messages in a tick):

* `NumbersNeverRepeat` (`NumbersIncrease`): what is posted counts on from what was
  sent up to the counter (`NumbersInv`). The counter may wrap among the posted
  numbers, but those behind the wrap are never sent, because a number before it
  does not fit the wire and ends the client.
* `ServerSound`: the invariant `ServerInv`, the types of what lies between socket and
  tick, and that the packet selected is the newest of the messages the loop went
  over. `TypeCorrect` (`TypeOK`) and `TickSelectsNewest` (`NewestIsSelected`) follow.
  That a round of the loop keeps the newest is `RoundKeepsNewest`, that all rounds do
  is `SelectNewest`.

`TcpFramingProofs` (for every number of values of a byte, at least two, any variants of
any messages, any number of them, and any pieces TCP cuts the bytes into). First
of the serializers:

* An integer is read back from its bytes. The bytes are the digits of the number, and
  adding them up again, each times its power, gives the number modulo the power of the
  width (`BytesSum`): round `n` of the loop adds the digit that takes the remainder by
  one power to the remainder by the next (`DigitStep`). A type is all remainders by
  its power, shifted by a half if it is signed, so converting one to its own type and
  back changes nothing (`AsItself`).
* The tests against overflow are exact: `Overflows` is true of just the values outside
  of the target's limits (`OverflowsOutside`). `int_serialize` compares after
  converting to `std::common_type`, and a conversion may wrap; it does not here, since the
  common type has all values of both when one type contains the other
  (`CommonTypeIsWider`). This is where the assumption is used that every cast is to a
  type whose values the own type has too, which holds of all messages.
* `RoundTrip`: reading what was written, with any bytes behind it, gives back the
  struct and leaves those bytes. One lemma per kind of member (`ReadIntBack`,
  `ReadStringBack`, `ReadListBack`), each over what follows it: after `n` members
  the reading has the first `n` values, and the bytes of the others and of what is
  behind them are left (`WhatFollows`).
* `SizeIsExact`: `size()` is the number of bytes written. That a list has its length
  times the constant size of an element is `SumOfSame`.

Then of the stream:

* `FramingSound`: the invariant `FramingInv`. The bytes that have arrived, followed by those
  under way, are exactly what the receiver needs for the messages it has not: all of
  each, or, with a header read, the payload it announced and then all of the others.
  `NoneIsStuck` is not inductive, since it says nothing of bytes before they are all
  there, and neither is the mapping to `MessageChannel`, which does not see bytes.
  `Send` adds a message at the end, whose buffer its size fills exactly (`BufferFull`);
  `Arrive` moves the border between the two halves; a read takes the front of
  the stream when it has arrived (`TakeFront`), which `RoundTrip` reads back.
* `NoReaderIsStuck` (`NoneIsStuck`): what the receiver asks for is no longer than what is
  left, so with nothing under way it waits only if nothing is left.
* `Refines`: sending a message is a step of `MessageChannel`, so is handing its body to
  the handler, and everything else is a stutter.

Loops. The loops of `dequeue_updates`, of `handle_tick` and of the serializers are recursive
functions on the numbers of their rounds, and a recursive function is what a `CHOOSE`
takes: nothing is known of it until there is shown to be one. `AfterEachUpdate`,
`EachRound` and, for any loop, `LoopRuns` show this for `m` rounds, by going from round
to round; `UpTo` is the induction they go by, on sets of numbers, proved from `Nat` being
well-founded.

The assumptions are the named `ASSUME`s of the modules, which TLC evaluates on
every run: sizes, indices and ids are natural numbers, `Null`, `Nothing`,
`Dangling`, `Nobody`, `None` and heap addresses are not taken for others, the sets of
handles and of consumers are finite, the counter is wider than the wire, a byte
has at least two values (`BaseAssumption`). `MessagesAssumption` says that messages are
of the types of their variant, that the own type of each integer in them has all values
of the type it is cast to, that strings hold no zero, and that sizes and kinds fit a
64-bit integer. `Careful` is part of the properties `CarefulIsSafe` and `LinksStayMutual`, which
say what a server gets that keeps to the conditions, and of nothing else.

Only model-checked: all liveness, eight properties. It needs fairness and ENABLED,
which the prover does not do. Every other property of a passing run is the property
of a theorem.

Proved but not seen by TLC: `FollowInv` and `FramingInv` speak of all paths of places
and of all ways to split a stream, which cannot be enumerated. What they imply,
`ClientFollows`, `UpdatesNeverThrow`, `NoneIsStuck` and `ImplementsMessageChannel`, is
checked in `game_replication` and `framing`.

## 5. Not modelled

* The merging of frames in `handle_tick` (`server.cpp:245-260`): `m_game_state` is
  never set, `m_frame_history` never filled, names are not declared, and nothing
  starts the tick. What the frames record is in `ServerObjects`.
* The client's UDP path: nothing sets `update_queue`, and the server sends
  nothing by UDP. The queue's `has` is in `OutOfOrderQueue`.
* serialization of variants with their index, of lists of lists, in big endian,
  and of floats: no message has them.
* `atomic_fetch_min`, `atomic_fetch_max`: used nowhere, and not compilable as
  they are (the parameter for the memory order has no name).
* The operations of `threadsafe_map` beyond the two that the address map uses:
  each is one call on a `std::map` under the mutex, and used nowhere. Its `swap`
  names a lock of another mutex's type. The two that are used are steps of
  `Session`.
* `safe_strand` as a module: that handlers of one strand do not overlap is boost's
  promise, and part of the models' guards.
* `threadsafe_queue`'s copy constructor, which does not compile, and
  `connection_t::stop`, which nothing calls.
* Lua, rendering, compression, hashing, containers: no shared state.
* Players in updates: `diff` reports objects only. A client learns of players
  once, when it joins.

## 6. Plan

Written, in this order, the most shared parts first: `OutOfOrderQueue` with
`OrderedDelivery` and its proofs, `SharedPool` with `SharedOwnership` and its
proofs, `FlushQueue`, `GameState`, `GameReplication`, `Session`, `InputPipeline`,
`Serialize`, `TcpFraming`; then `ThreadsafeQueue` with `BoundedQueues` and its
proofs, `MessageBuffer` and that `FlushQueue` implements it, the shutdown of
`Session`, `FreeListPool` and `ServerObjects`, and the proofs about
`ServerObjects`, `Session`, `InputPipeline`, `GameReplication`, `Serialize` and `TcpFraming`.

Next modules, when the code has come so far: the tick with its frame history (does
a merged past still know that an object moved?), and the client's UDP path over
`OutOfOrderQueue` (what happens when the 16-bit time of a packet wraps?).
