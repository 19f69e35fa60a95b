# Client_Server_Zookeeper: a verification project

This directory holds a TLA+ model of the replicated key-value table in
`src/Distributed Systems/`: the request service of a server (`invoke()` and
`update_stats()`), the chain of servers kept together by ZooKeeper
(`table_skel_init()`, `child_watcher()`, the forwarding of writes), the
table with its ordered lists and its hash, the bytes of a connection between a
stub and a server, and the loop that accepts connections. TLC checks the models on small instances, TLAPS
proves their safety properties for every value of the constants.

All line numbers refer to `src/Distributed Systems/source/` unless said
otherwise.

## 1. The system

| Component | Code | State | Operations |
|---|---|---|---|
| Request service | `table_skel.c` `invoke`, `update_stats` | `table`, `readers_count`, `writers_count`, `stats_readers`, `lock_data`, `condition`, `stats_cond`, `stats` | put, del, get, size, getkeys, gettable, stats, unknown opcodes |
| Replication chain | `table_skel.c` `table_skel_init`, `child_watcher`, `get_successor`, `get_anteccessor` | `children_list`, `successor_metadata`, `server_identifier`, the znodes under `/chain`, the watch | join, copy the antecessor's table, follow changes of the children, forward writes |
| Table and lists | `table.c`, `list.c`, `entry.c` | an array of linked lists, each with a size counter, ordered by key; `hash_code` | put, get, remove, size, get_keys |
| Client stub | `client_stub.c` | a connection (`struct rtable_t`) | connect, disconnect, one call per opcode |
| Client network layer | `network_client.c`, `message.c` | a socket | connect, `network_send_receive`, close |
| Server network layer | `network_server.c` | the listening socket, `connsockfd`, `num_clients` | accept, one thread per connection, receive / invoke / send |
| Client program | `table_client.c` | connections to head and tail, the children | put, del (head); get, size, getkeys, gettable, stats (tail); a watcher |
| Server program | `table_server.c` | the process | init, main loop (entered again when `accept` fails), signal handler |
| Data, message format | `data.h`, `sdmessage.proto` | - | copying, (un)marshalling (generated) |
| ZooKeeper | library and service | znodes, sessions, watches | create (ephemeral, sequential), wget_children, wexists, wget |

**How they interact.** A client connects to the server with the lowest number
(the head) for writes and to the one with the highest (the tail) for reads. Each
server runs one thread per connection; all of them run `invoke()` over the same
table. A put or del is applied and, still inside the writers' section,
passed on with `rtable_put()` / `rtable_del()` over the connection to the
successor, which the call waits for. The successor is chosen from `children_list`,
which the ZooKeeper completion thread (`child_watcher`) rewrites while request
threads read the connection, without a lock. A joining server registers its
znode, lists the children, connects to its successor, copies the table of its
antecessor and only then listens.

**What is hard.** Threads share counters of which some are changed under
`lock_data` and some are not; broadcasts are made with and without the mutex;
one condition variable is never signalled. SIGINT frees the table twice, beside the
threads that use it. The chain is rebuilt by callbacks
that race with joining servers, writers and failures; watches fire once; a
connection can be refused, lost in the middle of a call or freed by another thread;
a server can lose its ZooKeeper session and go on serving. Messages are preceded by a
length of two bytes that may be too small for them, and an error in the middle of a
message is not noticed everywhere. A new thread reads its descriptor through a
pointer to a global.

**What makes each component correct.**

* Request service: writers exclude each other; what a writer did stands until
  it answers; the successor receives the writes in the order of the table;
  every request is answered; `num_ops` counts the operations.
* Chain: connections go towards higher numbers, so no circle of servers can wait for
  itself; a write is at the successor before it is answered; tables agree
  on the order of writes; no change of the children goes unnoticed; no successor
  is kept that is known to be gone; clients are answered.
* Table: lists ordered, counted and free of duplicates, keys where `hash_code`
  puts them; the whole behaves as a map.
* Network layers: a stream keeps its framing, so that a call returns its own answer;
  each accepted connection is served by exactly one thread, which comes to its end;
  descriptors are given back.

The hazards, each at the line where it bites and with the properties that
watch it, are listed in `PROJECT.json`.

## 2. The modules

```
KeyValue <--refines-- Table --uses--> List      Rpc <--refines-- Framing <-- MCFraming
                      ^   ^                                      ^
            TableProofs   MCTable                    FramingProofs

Replica <--refines-- Invoke <-- MCInvoke        ChainProofs --> Chain <-- MCChain
                     ^
          InvokeProofs

AcceptProofs --> Accept <-- MCAccept            HashProofs --> HashCode <-- MCHashCode

Extrema <-- ChainProofs, AcceptProofs, Inductions <-- TableProofs, HashProofs
```

The models divide the system where its parts meet in one narrow place. `Invoke`
is one server seen from inside, with its successor as a fixed connection.
`Chain` is all servers seen from outside: since `Invoke` shows (and
`InvokeProofs` proves) that it implements `Replica`, where a write is one step that
changes the table and the successor's, a server of `Chain` has one `job` at a time
and answers it when the successor has. `Table` is
what the operation on the table inside the writers' section does, and `HashCode`
the number its parameter `hash_code` stands for. `Accept` is how a thread of
`Invoke` comes to its connection, and `Framing` what happens on it: that it is a
sequence of calls (`Rpc`) is what a request and its answer in `Invoke` and
`Chain` rest on.

### Invoke

One process per client thread. `pc[t]` names the next access to shared memory;
a step is one such access, or one stretch under `lock_data` that only other holders
of the mutex could tell apart.

| Code | Actions |
|---|---|
| `client_thread_handler` (`network_server.c:60-82`) | `Receive`; the answer goes out with the last step of a request |
| put, del (217-260, 290-322) | `Lock`, `Check` (the `while` condition, 220), `CondWait` / `Spurious`, `Claim` (`writers_count++`, 224, and unlock), `Apply` (table), `Forward` or `ForwardLost` (239, 302), the `Update...` steps, `Relock`, `Release` (`writers_count--`, broadcast, unlock) |
| get, size (263-287, 325-344) | `Enter`, `EnterStore` (`readers_count++` is a load and a store), `Read` or `ReadCrash`, `Update...`, `Leave`, `LeaveStore` (`--`), `Signal` |
| getkeys, gettable (347-412) | as above with `ListKeys`, `Alloc`, `CopyNext` / `CopyCrash`, `CopyDone`, `Count`: the table size is read again at each of them |
| stats, unknown (415-441) | `StatsEnter`, `StatsEnterStore`, `StatsLeave`, `StatsLeaveStore` |
| `update_stats` (444-459) | `UpdateCheck`, `u_wait` (the wait on `stats_cond`, which only `Spurious` leaves), `UpdateLoad`, `UpdateStore` (`num_ops++`) |
| `sigint_handler` (`table_server.c:22-28`), `table_skel_destroy` (190-196) | `Interrupt` (the first `table_destroy` begins; nobody stops the client threads), `Close` (the second free of the same memory: the allocator aborts or the process exits), `UseDestroyed` (a thread touches the lists meanwhile) |

`process` says whether the process is up, closing, gone by itself or crashed.
`applied`, `forwarded`, `executed` and `raced` are history variables; `raced` names
the counters of which one thread loaded the value (`Load`) while another was between
its load and its store, so that one of the two updates is lost. The table is the
set of its keys. `TableUnsound` is when the lists cannot be trusted: a writer is
in the middle of changing them, or the signal handler frees them. A
reader that walks a list then may crash (`ReadCrash`: a freed entry, or the `NULL` that
`list_get_keys` made of a list that was empty a moment before) or miss what is there;
reading freed or half-linked nodes is a nondeterministic choice.
`op_time`, the mutex around it and the reply payloads are left out.
`Replica` is the same server as its writing clients should see it: a request is
asked, takes effect in one step, and is answered with what the log of writes says;
the server may stop at any time. `WritesAtomic` maps `Invoke` to it. The step that
takes effect is `Forward` (`Apply` without a successor), so that an answer speaks for
the successor's table too; a write applied here and not yet there when the server
goes down is one that never happened and is never answered.
`Garbage` is what `malloc` (151) may leave in `num_ops`: the code never
initialises it, so properties of `num_ops` are relative to a starting value.

### Chain

Server `s` is the one whose znode has number `s`; a restarted server has a new number.

| Code | Actions |
|---|---|
| `table_skel_init` | `Register` (106-115), `List` (118-125, sets the watch), `LookUp` (the `wexists` loop 127-135 and `get_successor`, 140), `GiveUp` (133), `Dial` (`rtable_connect`, 142), `Link` (the store of 142), `AskTable` (160-165), `Copy`, `CopyTears` or `CopyCrash` (the answer, 165-177), `ListCrash` (the list was freed by the handler) |
| `network_main_loop` | `Listen`: from then on connections are accepted |
| `child_watcher` (461-493) | `Refetch` (new list and watch, disconnect), `Relink` (new successor, connect, free of the list), `RefetchCrash` |
| `invoke`, `rtable_put`, `rtable_del` | `Sleep` (the waits of 220 and 448 that nobody ends), `Apply`, `NoSuccessor`, `Forward`, `Answer`; `PeerGone` is the NULL answer of `network_send_receive` that `rtable_put` dereferences (`client_stub.c:129`); `UseFreed` is a write over a connection that was freed |
| `table_client.c` main | `Start` (the children are listed), `OpenHead`, `OpenTail` (the lowest and the highest are looked up and connected, or are not there any more), `Submit`, `CommandCrash`, `ClientCrash` |
| ZooKeeper (external) | `ChildrenChange` (one-shot watches), `Expire` (session of a dead server), `Lose` (session of a server that runs) |
| a server stopping by itself | `Fail`, at most `MaxFaults` times together with `Lose` |

Joining is in steps because `child_watcher` may run between any two of them: the
main thread looks a successor up in the list it has, dials it, and then stores what
came of it over whatever the handler has stored (`late` remembers that the handler ran
in between). The antecessor reads its table list by list beside its writes: a table
that grew since it was asked (`seen`) may be answered with any of its writes left out
(`Copies`), or take the antecessor down (`CopyTears`).
`child_watcher` is two steps because request threads run between the free of
the old connection and the store of the new one. A server that stops
loses all it knew (`Die`); only its znode lasts until `Expire`. A server that
loses its session (`lost`) loses znode and watch and serves on; nothing in the code
reacts. If an event was pending its handler runs without a session: the fetch
fails, and the handler goes on with the list `malloc` returned. `Lossy` bounds which
servers this may happen to. A table is the sequence of
writes that made it, which is what the replication properties tell apart.
A server whose thread sleeps in `invoke()` for ever (`job.at = "asleep"`) answers nothing more;
`Invoke` shows how that comes about, and any reader, a client at the tail or a joining
server, can be the cause.
Using freed memory is undefined: the model lets the server crash or the request hang for ever (`job.at = "hung"`), and merges all other
outcomes with these two. A client that lists no children, or whose tail has gone
before it is looked up, ends; so does one that finds no number below `LowestId`, where
`get_lowest_id_node` starts (100000, `table_client.c:258`); one that has no head connection ends with its first write.
Reads that succeed and clients that quit change nothing in this model.

### Framing, Rpc

One connection between a stub and the thread that serves it. A byte is
`<<m, i>>`, the i-th of the m-th message of its direction, and the two bytes of a length are one
symbol `<<m, 0>>`. `up` and `down` are the bytes on their way.

| Code | Actions |
|---|---|
| `rtable_*` (`client_stub.c`), `network_send_receive` (`network_client.c:76-160`) | `Call`, `SendSize`, `SendBody`, `RecvSize`, `RecvBody`, `CallFails`, `Disconnect` |
| `network_receive` (`network_server.c:118-147`) | `ReceiveSize`, `ReceiveEnd`, `ReceiveBody` |
| `invoke` by its answer, `network_send` (149-172) | `Invoke`, or `Sleep` (it never returns), `ReplySize`, `ReplyBody` |
| a process that ends between two bytes | `CallerStops`, `ServerStops` |

A length is cut to a short, `Half` being 2^15 in the code; the server reads it into a signed
short, the stub into an unsigned one, which is why replies of up to twice the length
survive. What a length or a message read from the wrong bytes says is left open: any length, any
result, or nothing that unpacks. `network_receive` does not treat the end of the
stream inside a message as an error, so what it holds then is a request nobody sent (`held = 0`).
The streams take whatever is written: writes never wait for the reader, as the
socket buffers (much larger than two calls) have it.

`Rpc` says what the connection is used as: one call at a time, executed
at most once and in order, answered with its own answer. `CallsInStep` is the
refinement, and it has two carve-outs, which the code has: a reply
longer than two bytes can say (`Oversize`) and a caller that ended between two writes of a
request (`torn`).

### Accept

The thread started for connection `c` is called `c`. `connsockfd` is the global;
`table[f]` is the connection descriptor `f` stands for, looked up at
each use, since a descriptor closed by one thread and given out again means
another connection to a thread that still holds it.

| Code | Actions |
|---|---|
| `network_main_loop` (`network_server.c:93-116`), called again by `main` (`table_server.c:57-63`) | `AcceptOne`, `AcceptFails` (out of descriptors, or by itself), `Create`, `CreateFails` |
| `client_thread_handler` (60-82) | `LoadCount`, `StoreCount` (`num_clients++`, `--`), `CopyFd` (the read through the pointer), `Sleep` (in `invoke`, 70, for ever), `ServeEnds`, `Close` |
| clients | `Connect`, `HangUp` |

`overlapped` remembers that the global was written while a started thread had not
read it, `raced` that two threads were inside an update of `num_clients`.
They are history: the properties say what holds until the code's two races have
happened, the last sentence of each names what is lost afterwards.

### HashCode

`Step` is one turn of the loop of `hash_code` (`table.c:132-137`) and `Finish` its
return. `atoi` is what the C library does: blanks, sign, digits read from the first to the
last (`Number`), the limits of a `long` (`Limit`), then the cut to an `int` (`Cut`).
`HalfInt` and `HalfLong` are half of what each can say. The sum wraps and `Remainder`
has the sign of its argument, as in C.

### Table, List, KeyValue

`List` gives each operation of `list.c` as an operator on a record of nodes and
a size counter; `list_get_keys` and `list_remove` trust the counter, as in the
code. `Table` keeps `Lists` of them. `table_put` and `table_remove` use
`hash_code`, a parameter; `table_get` looks in every list, as `table.c:65-78`
does. `list_get_keys` ends by destroying the node after the last key it copied
(`list.c:211`, `list_after_keys`), which is none as long as the counter is right.
`KeyValue` is a map with the same operations and the answers `table.h` documents;
`Refinement` maps the lists to the map and is checked as a property of the detailed
specification. One answer is not the documented one: a put that replaces returns 1,
where `table.h:25` says 0 or -1. `Documented` is the place in the mapping where the
1 is read as the 0 the header promises, as the caller does (`table_skel.c:241` looks for -1);
with the code's answer unchanged `Refinement` is violated by any second put of a key.

### Extrema, Inductions and the proofs

`Extrema` proves that a nonempty set of naturals has a least element, and a
bounded one a greatest, from the well-foundedness of `<`: the `CHOOSE` in
`Highest`, `Lowest` and the position of an insertion picks what it is meant to.
`Inductions` goes on to two rules of induction, over `0 .. n` (`UpTo`) and over the
subsets of a finite set (`OverSubsets`). They take the set of the values the claim
holds for, where the library's rules take a predicate, which the provers cannot instantiate: with
them, what a fold or a recursive function computes can be proved. Its second part
is about sums over a finite set (`SumFunction`): that they are integers, how one
changes with a single term (`SumChanges`), and what bounds it. The
`...Proofs` modules hold the theorems of section 5.

## 3. The runs

| Run | Instance | Shows |
|---|---|---|
| `MCInvoke_writers` | 2 clients that put and 1 that deletes, 2 requests each, 1 key, SIGINT, fair | type, exclusion, stability of a write until it is answered, forwarding order, exact count, no lost wake-up, every request answered; the server implements `Replica`, whenever a SIGINT comes |
| `MCInvoke_readers` | 1 client that puts or sends an unknown opcode, 1 that reads in every way or asks for statistics, 1 that gets, asks for statistics or deletes, 1 request each, fair | until two updates of a counter overlap it is right, no writer is let in over a reader that counted itself and nobody is shut out afterwards; reads are answered, but for stats requests beside them; `num_ops` never runs ahead |
| `MCTable_map` | 2 lists, 4 keys of which 3 share a list, 2 values | the table implements the map, but for the 1 a put may answer; lists ordered, counted, placed |
| `MCChain_safety` | 3 servers, 1 client, 2 writes, 1 fault or the lost session of server 3 | the safety of the chain under joins, failures and late events |
| `MCChain_served` | 3 servers, 1 client that knows no number from 3 on, 1 write, 1 fault or the lost session of server 3, fair | clients are answered, or lose their head, or a server on the way sleeps in `invoke()` or sits on a freed connection |
| `MCFraming_calls` | 2 calls of put, get, size or gettable, lengths on both sides of what a short says, either end stopping at any byte, fair | calls stay in step with their answers and end, unless the thread sleeps in `invoke()`; only a torn last request makes the server execute what nobody sent; its thread ends |
| `MCAccept_threads` | 3 clients, 2 descriptors, 1 failing call, fair | until the global is overwritten early: own thread, nobody cut off, everybody admitted, descriptors returned by all threads but those asleep in `invoke()`; an exact `num_clients` until two threads meet in it |
| `MCHashCode_keys` | all keys of up to 5 characters of 1, 9, tab, sign, letter | the loop adds up the numbers of the key; without tabs and overflow the index is that of a list |
| `MCInvoke_lost_wakeup` | put beside get and stats, fair | **violation**: a writer sleeps for ever |
| `MCInvoke_crash` | puts beside gettable | **violation**: `table_get_keys` runs while a put changes the lists, and takes the server down |
| `MCChain_next` | 3 servers | **violation**: the successor is the last server, not the next |
| `MCChain_visible` | 2 servers, 1 write | **violation**: server 1 is refused by 2, which does not listen yet, and never tries again: what it answers later is not at the tail |

**Bounds.** `MaxRequests` (requests a thread serves), `N` (servers that ever
join), `MaxWrites`, `MaxFaults`, `Lossy`, `MaxCalls`, `MaxFd`, `MaxFails`, `MaxLen`;
`Key`, `Value`, `Thread`, `Client` and `Conn` are small sets.
Three writers are the fewest in which one sleeps, one is woken and one
claims the section in between; two requests let a thread meet what its own first request
left behind (a count that is off, an order). In `MCInvoke_readers` two readers are the fewest that
can both be between load and store, and with the third client they
meet every other kind of request. Three servers are the
fewest in which the next and the last server differ, and in which a middle
server joins, forwards and loses its successor; two writes are the fewest that can be
in two orders; one fault already takes down the chain below it. Server 3
is the one that can lose its session: the others connect past it while it serves. `HeadFollowed` is proved
whoever loses it, the head too. In `MCChain_served` `LowestId` is 3, so that a
client meets a list with no number it looks for. What is proved of `Chain` holds for any
number of faults, whoever loses its session. In `MCTable_map` the three
keys that share a list give every position of an insertion and a removal:
first, middle, last. In `MCFraming_calls` a short of 3 bits is 0 to 7 unsigned and
-4 to 3 signed; the replies of 2, 5, 8 and 10 bytes are a length both sides read
alike, one only the unsigned reading gets right, one that is cut to 0 and one
cut to less than itself; a second call is what meets what the first left on
the stream. Two descriptors for three clients mean that one is given out again
and that `accept` runs out of them. In `MCHashCode_keys` the `int` has 8 bits
and the `long` 11, so that three digits overflow the one and four the other.
The theorems of section 5 remove the bounds for most of the safety properties.

**No symmetry** is used: clients have different roles, servers are ordered, keys are
ordered. **Deadlock** is checked in `MCTable_map`, where some call is
always possible, and not in the others: threads stop after `MaxRequests`, servers may all be
down, connections end, and a server waiting in `accept` is a legal end.

**Fairness.** In `Invoke`, weak fairness on each thread's steps: the scheduler
runs every thread. Weak fairness on `Lock` says only that a thread gets a mutex
that stays free, which POSIX gives; contention for it ends because requests are
bounded, so the liveness runs do not claim that a mutex is fair under unending
load. `Receive` is not among the steps: nobody owes a request. A signal handler
that was entered ends (`Close`).
`Spurious` has no fairness: POSIX allows spurious wake-ups and promises none, and
`FairSpec` says there are finitely many, so that a property can neither lean on them
nor be kept alive by them. In `Chain`, only the threads that serve requests and a
client whose head is gone: nobody has to join, to finish joining, to handle an event,
to write or to fail. In `Framing`, the stub inside a call and the serving thread; no
call, disconnection or failure. In `Accept`, the main thread accepts what is
queued and starts the thread, and threads run; clients need not come or go.

The code does not guarantee that `invoke()` returns: `MCInvoke_lost_wakeup` shows a thread that
waits at 220 or 448 for ever. So no other model assumes it. `Chain`,
`Framing` and `Accept` each have a `Sleep` action, outside every fairness assumption, after which
the thread does nothing more, and `ClientServed`, `CallEnds`, `ThreadEnds` and
`DescriptorsReturn` name it as what they cannot promise over.

## 4. Where code and documentation disagree

The four violation runs above, each quoted with its line in
`PROJECT.json`. The model shows more that has no run of its own:

* A stats request beside a put is a second way to the violation of
  `MCInvoke_lost_wakeup`: `update_stats` waits on `stats_cond` (448), which no code signals.
* `num_ops` starts uninitialised (151) and two operations can count as one
  (457); `table_client.c:212` prints it as the total of operations.
  `NumOpsBounded` and `NumOpsExact` say what is left of that. `num_clients` is the
  same (`network_server.c:61`): `ClientsCounted` holds until `raced`.
* A get runs beside a put: readers do not look at `writers_count` (265), although
  `network_server.c:69` leaves "single writer - multi reader" to `invoke`.
  `MCInvoke_crash` is one consequence: `table_get_keys` sees a list empty and, reading its size
  again after the put, one key long. A longer way to the same end is `CopyCrash`: gettable
  allocates for one table size (392), lists the keys of a second and loops to a third (394).
* Two readers, or two stats requests, lose an update of their counter (`raced`): a
  `readers_count` that stays above zero shuts every writer out. `QuiescentCounters`,
  `AdmissionSeesReader` and `ReadsReturn` hold until then.
* `table_put` answers 1 when it replaces (`table.c:59`, `list.c:89`), `table.h:25` says 0 or -1.
  `KeyValue` states the documented answer and `Documented` names the difference; no caller
  in the program tells 1 from 0, so the clients of the server see none.
* When the successor goes, the sender dereferences NULL (`client_stub.c:129`) and goes
  too, where `client_stub.c:91` promises -1: one failure takes down the chain below it, and a
  joining server goes with its antecessor (`CopyCrash`). No property promises otherwise.
* The main thread of a joining server stores the successor it looked up (142) after the handler
  may have run for that successor's end: it then keeps a connection to a server that is
  gone, with no event to come. `NoDeadSuccessor` holds but for such servers (`late`).
* A server whose antecessor is registered but not listening crashes in
  `table_skel_init` (163-165), where `table_skel.c:67` promises NULL.
* A read at a tail, or the copy of a joining server, can put a write of that server
  to sleep for ever (220, 272), and with it every write of the chain above.
* A write may use a connection the handler has freed (471): it crashes or hangs, and
  `ClientServed` makes an exception of it.
* A listing longer than two bytes can say is read in part (`network_client.c:114`):
  `CallsInStep` and `CallEnds` hold for replies that fit.
* A thread that is slow to read `connsockfd` serves the next client's connection, and
  its own is served by nobody (`network_server.c:107`): `OwnThread` and
  `Admitted` hold until `overlapped`.

## 5. What is proved

For any number of threads, keys, requests, servers, clients, writes, faults,
connections, descriptors and lists, from `InvokeAssumption` (finite nonempty `Key`,
requests well formed, `None` no thread), `ChainAssumption` (`Null`, `Freed` and clients
are no servers), `FramingAssumption` (`Half` is positive, requests are shorter than it), `AcceptAssumption` (finitely many connections, `None` is none of them) and
`ListAssumption`, `TableAssumption` (keys are naturals, `NoValue` no value, `hash_code` finds one of
the lists, which `HashFindsList` proves of the code's function for keys of small numbers and no tab) and `HashAssumption`
(digits are at most 9, there is a list, a `long` is at least as wide as an `int`):

| Theorem | Property | Argument |
|---|---|---|
| `InvokeProofs!TypeCorrect` | `TypeOK` | part of `IndInv` |
| `InvokeProofs!WritersExcluded` | `WriterExclusion` | `IndInv`: `TypeOK`, `LockInv` (who is at a step under the mutex holds it), `ClaimInv` (at `claim`, `writers_count` is 0), `RoleInv` (steps of a writer belong to put and del), `SectionInv` (`writers_count` is 0 or 1, and 1 while somebody is between `++` and `--`). Exclusion alone is not inductive: a thread at `claim` has already checked, and only the mutex keeps the count at 0 until it increments |
| `InvokeProofs!WritesStable` | `WriteStable` | exclusion: only a writer's `Apply` changes the table |
| `InvokeProofs!ForwardsInOrder` | `ForwardOrder` | `ForwardInv`: `applied` is `forwarded`, plus the one write between `Apply` and `Forward` |
| `InvokeProofs!WritesAreAtomic` | `WritesAtomic` | `ReplyInv`: the table holds what the writes applied to it say (`HoldsAppend`), and the answer of a write on its way to the successor is what the writes before it say, which with `ForwardInv` are the successor's. Every step either leaves what `Replica` sees alone (`Quiet`, one lemma per group of actions), or ends the process (`Ending`), or is one of the four that ask, apply, forward and answer. The answer alone is not inductive: it is decided at `Apply` and must still be right at `Forward`, because nobody else writes in between |
| `InvokeProofs!SleepersAreWoken` | `SleeperHasWaker` | if clients only write; `WakeInv`: `readers_count` stays 0, so a sleeper saw a writer, and that writer's broadcast under the mutex wakes all |
| `InvokeProofs!OperationsCounted` | `NumOpsExact` | if clients only write; `CountInv`: the loaded value is current, because the section covers the unlocked increment |
| `InvokeProofs!OperationsBounded` | `NumOpsBounded` | any mix; `LagInv`: `num_ops` and every value loaded from it and not yet stored is at most a starting value plus `executed`, which never falls |
| `ChainProofs!ChainTypeCorrect` | `TypeOK` | with `Extrema` for the range of `Highest` and `Lowest` |
| `ChainProofs!ForwardsUp` | `ForwardUp` | `get_successor` compares with the own number; a waiting job's peer was the successor |
| `ChainProofs!ChangesNoticed` | `NoMissedChange` | `WatchInv`: a server with a session and no event pending has its watch set and the current list, since list and watch come from one call; that the list is current is not inductive without the watch |
| `ChainProofs!NoWriteToTheGone` | `NoDeadSuccessor` | `FreshInv` and `ListedInv` with `WatchInv`: a successor was a child whose znode was there when it was looked up, `child_watcher` stores one from a list as current as its watch, and a znode that goes afterwards leaves an event. What the joining thread holds between lookup and store needs the same, which is why the property alone is not inductive, and where `late` comes in |
| `ChainProofs!AnswersMeanPeers` | `DoneMeansPeer` | `PassInv`: a busy server has its write in its table, and a write in an inbox or in a job is still outstanding at the server that sent it, unless that is down; so an answer goes to a sender that waits for this very write, and a table loses no write |
| `AcceptProofs!AcceptTypeCorrect` | `TypeOK` | with `Extrema` for the descriptor given out |
| `AcceptProofs!ThreadsOwn` | `OwnThread` | `TableInv` (descriptors stand for different, open connections) and, until `overlapped`, `OwnInv`: the global stands for the connection being handed over, then the thread's own copy does, and a thread ends only when its client has gone. Ownership alone is not inductive: a closed descriptor is given out again |
| `AcceptProofs!NobodyCut` | `CutsNobody` | the same invariant: what a thread closes is its own connection |
| `AcceptProofs!NumClientsExact` | `ClientsCounted` | `CountInv`: until `raced`, one thread at most is between load and store and has loaded the current value |
| `TableProofs!TableTypeCorrect` | `TypeOK` | part of `TableInv`: every list is `Sound` (nodes and counter well typed, the counter is the length) |
| `TableProofs!CountersExact` | `SizesExact` | `Sound` |
| `TableProofs!OrderKept` | `ListsOrdered` | `Ordered`, with a lemma for an insertion, a replacement and a removal: where `list_add` stops, everything before is smaller and everything after larger |
| `TableProofs!KeysStayPlaced` | `KeysPlaced` | each lemma also says which keys the new list holds (`KeysOf`) |
| `TableProofs!TableRefines` | `Refinement` | from `TableInv`: the lemmas say exactly which nodes a call leaves (`Others`), a list finds the nodes it has and no others (`GetFinds`, `GetMisses`), and looking in every list finds what the one list of the key holds (`LooksRight`). `table_size` and `table_get_keys` go over all lists: their folds are unfolded by `OverSubsets` and `UpTo`, and since no key is in two lists (`HeldMore`), the counters add up to the number of keys present (`SizesAddUp`) and the lists one after the other hold each of them once (`KeysListed`) |
| `ChainProofs!HeadFollowed` | `FollowsHead` | with one client; `Ordered`: a write that is not done is in one place only (`TokenInv`: the client's next, one server's job or one inbox), it is applied by the head before anybody else has it (`HeadInv`), tables are strictly increasing and what any holds the head holds (`OrderInv`). A joining server that copies and a server that dies keep this; a head that lost its session does too |
| `InvokeProofs!WriterSeesReader` | `AdmissionSeesReader` | for any number of readers; `ReadersInv`: until `raced`, `readers_count` is the number of threads in a reader's section (`Reading`), one thread at most is between its load and its store, and what it has loaded is current |
| `InvokeProofs!CountersSettle` | `QuiescentCounters` | the same, with `StatsInv` (`stats_readers` is at most the number of stats requests in progress) and `WriterThere` (a `writers_count` of 1 belongs to a writer that will take it down) |
| `FramingProofs!FramingTypes` | `TypeOK` | part of `IndInv` |
| `FramingProofs!FramingInventsLast` | `InventedLast` | `IndInv`: the bytes on their way and those a process still has to read or write make one stream from the byte the thread reads next to the byte the stub writes next (`UpInv`), and back (`DownInv`); what the thread holds is the request of the call under way (`HeldInv`), what is answered is what was executed (`ReturnInv`), and the call is at the place the stream says (`CallInv`). That calls and answers match is not inductive without the bytes between |
| `FramingProofs!FramingInStep` | `CallsInStep` | every step of either end is a step of `Rpc`, or none, from the same invariant: an answer the stub takes is the last message of a stream that began with its own request |
| `HashProofs!HashTypeCorrect` | `TypeOK` | part of `HashInv`: what `Cut` leaves is an int, a remainder is smaller than the divisor |
| `HashProofs!NumbersSummed` | `SumsNumbers` | `HashInv`: the sum is what the numbers have added up to the loop variable (`Passed`, `Total`). `atoi` at a position reads the rest of the number there (`ReadsRest`), the number after the blanks and the sign there (`ReadsAll`) or nothing (`ReadsNothing`), and no position belongs to two numbers (`NumbersApart`, `LeadsApart`), so each turn of the loop adds to one number at most (`TotalGrows`). What one number has added stays within its `Weight` and all of them within `HalfInt` (`PassedBounds`, `TotalBounds`), so no cut changes anything: that is what `Small` is for. At the end every number has added its `Share` (`AllPassed`) |
| `HashProofs!HashFindsList` | `ListFound` | from the same: without a tab the only position in front of a number that counts is its sign, and its digits have been added once in full before, so no share is negative (`ShareOfNoTab`) |

`HeadFollowed` assumes one client (`OneClient`): with two, the writes of one
overtake those of the other on their way to a server that has just become a
successor, and there is no one order to follow. `SleepersAreWoken` and
`OperationsCounted` assume that clients only write, and the violation runs show
what happens when they do not.

**Only model-checked:** all liveness (`InvokeReturns`, `ReadsReturn`,
`ClientServed`, `CallEnds`, `ThreadEnds`, `Admitted`, `DescriptorsReturn`), which the
prover does not reach. Every safety property of a passing run is a theorem, some of
them under the hypotheses above.

## 6. What is not modelled

* `list_destroy`, the freeing of keys and entries, and the copying of strings: they give
  memory back or make private copies, and change nothing another part sees. Lengths
  of keys are not represented, so neither is what `list_get_keys` copies past its
  allocation (`list.c:206`).
* `data.c` is a compiled object, protobuf code is generated: what an unpacked message
  of the right bytes says is what was packed. `get_host_address` is pure I/O.
* A failing `malloc` or an unreachable ZooKeeper while a server joins: both end the
  process, which `Fail` does. A signal handler that hangs in `malloc` because a thread held
  the allocator's lock.
* The loss of the client's own ZooKeeper session: its watcher acts only when fetching the
  children failed (`table_client.c:236`), so with a session a client keeps the head and
  tail it started with, which is what the program and the model do.

## 7. Plan

Done, in order of importance: `Invoke` and its proofs; `List`, `Table`,
`KeyValue`; `Chain` and its proofs; lost sessions, the client's start and SIGINT in
them; `Framing` and `Rpc`; `Accept` and its proofs; `HashCode`; the proofs about `Table`
with the whole refinement of the map, `Framing` with that of `Rpc`, the head of
a chain and the counters of the readers; the sums of `hash_code`; the writers of
`Invoke` as an implementation of `Replica`.

Left, should the code change: the client's own ZooKeeper session once its watcher
reacts to it (section 6), and a read in `Replica`, which needs the code to keep
readers out while a writer is inside (section 4).
