# Formal models of the NEMEA framework

TLA+ specifications of the NEMEA framework's core, the configurations with which
TLC checks them on small instances, and theorems about them checked by TLAPS.
Paths below are relative to the repository.

## 1. The system

NEMEA modules are processes that exchange messages (UniRec records, JSON, ...)
over *interfaces* provided by **libtrap**. An output interface serves many input
interfaces; a module's context holds its interfaces and a service thread.

| Component | Source | State it keeps | Operations | Hard parts |
|---|---|---|---|---|
| TCP/UNIX output interface | `libtrap/src/ifc_tcpip.c` 1060-1985, `trap_mbuf.c`, `trap_container.h`, `trap_ring_buffer.h`, `trap_stack.h` | ring of published containers (`head_`, `tail_`), stacks of empty and deferred ones, the active container, the list of clients with their `container_id`, counters, `is_terminated` | send, flush, autoflush, accept, one sending thread per client (blocking or not), disconnect, terminate, destroy | lock-free readers of a ring that is overwritten, reference counters, a lock released in the middle of an operation, termination |
| TCP/UNIX input interface | `ifc_tcpip.c` 120-1060 | socket, partial header or payload, session and total counters | connect, receive with timeout, disconnect, terminate | partial reads, timeouts in the middle of a frame, reconnection |
| Receive buffer | `trap.c` 250-334 | unread bytes, pointer, running sequence number | recv | malformed buffers, format changes |
| Negotiation | `trap.c` 2812-3400 | formats of both sides, `client_state` | output side, input side, comparison | two processes, renegotiation after a change |
| Context | `trap.c`, `trap_internal.c` | lists of interfaces, `terminated`, counters | init, ifcctl, send, recv, set_data_fmt, terminate, finalize | several threads, order of teardown |
| Service thread | `trap.c` 2188-2505, `ifc_service.c` | table of service clients | accept, requests (statistics, timeouts), replies | table changed while it is walked |
| TLS interface | `ifc_tls.c` | as TCP, and an SSL session per client | as TCP | as TCP |
| File interface | `ifc_file.c` | current file, name template, index, size | open, rotate, write, read | rotation, partial write, negotiation in the file |
| UniRec | `unirec/` | table of fields with their ids, templates, records; the intervals of a prefix search | define, undefine, create, expand, set, copy, clear; fold in a network, search, destroy | ids that are used again, values that move when another changes its length |
| common | `common/` | hash tables, hash filter, B+ tree, prefix tree | insert, find, remove, resize, iterate | many cases, row locks, lookups without a lock, iteration with deletion |
| pytrap | `pytrap/src/` | a template's pointer into a byte array and its references | setData, createMessage, recv, attributes, iteration | pointers that only a reference keeps alive |
| pycommon | `pycommon/ip_prefix_search.py` | the intervals once more | as in C | as in C |

What makes each correct:

* *Output interface*: what a client receives is the sequence of published
  containers from the one current when it joined, unchanged while it is being
  sent; every message is published once and in order; containers are neither
  lost nor in two places; nobody waits for ever without a reason; a container's
  header describes it.
* *Input interface*: a call returns a whole payload or none; counters agree with
  what was received and missed; a timeout loses no position in the stream.
* *Receive buffer*: messages come out as they went in, with their numbers.
* *Negotiation*: both sides agree on the format in use before data flow.
* *Context*: no thread uses what finalize has freed; the last messages go out.
* *Service thread*: every client that stays is answered, and one client's leaving
  harms no other.
* *File interface*: the files hold every accepted message, in order, each after the
  hello message of its format.
* *UniRec*: a template finds the fields it was made for; a field reads as what was
  put into it last; an address leads to the data of the networks around it.
* *Containers of `common`*: each behaves as the map or the set it implements.
* *pytrap*: memory that a template points into is alive.

How they interact: the application's threads call `trap_ctx_send`, which calls
the interface's `send` with the context's timeout; the autoflush thread calls
`flush`; both store into the active container under the interface's `ifc_mtx`.
The accepting thread negotiates under the same mutex and starts a thread for
each client; client threads take **no** lock while they read the ring. On the
other side `trap_ctx_recv` takes messages out of the buffer and asks the input
interface for another container when it is empty. The service thread reads
counters and settings of all of them.

Left out for good are jansson (vendored), the dummy interfaces, the reporters of
pycommon, the command line tools, the examples and small utilities; section 5 says why.
`PROJECT.json` lists every component with its status, and every hazard found in
the code with the properties that cover it.

## 2. Modules

    TcpipSender            shared part of the TCP/UNIX output interface
      SenderBlocking       + client threads of TRAP_WAIT and TRAP_HALFWAIT
        MCSenderBlocking       for TLC (symmetry of clients)
        SenderBlockingProofs   its inductive invariant; that it implements Broadcast; order of
                               messages, containers, framing, draining
      SenderNonBlocking    + client threads of every other timeout
        MCSenderNonBlocking    for TLC
        SenderNonBlockingProofs its inductive invariants and theorems
      MCSenders            both modes for TLC, one run of their liveness
      SenderLemmas           operators, types and the mutex of the shared part
    Broadcast              what the blocking sender promises
    TcpipReceiver          TCP/UNIX input interface, and the other side of its connection
      TrapBuffer           + the receive buffer of the context and its caller
        TrapBufferProofs       its inductive invariant and theorems

    Formats                data formats: set, negotiated, changed, told to the module
    Service                service thread and its clients
      MCControl                both for TLC, one run
    Context                the life of a context: init, terminate, finalize
      ControlProofs          inductive invariants of the three, and theorems

    TlsSender              output interface over TLS (extends SenderNonBlocking)
    TlsReceiver            input interface over TLS
    IfcFile                file interface, writing and reading
      InterfaceProofs        theorems about the three, and their invariants
    UniRecFields           table of fields and templates
    UniRecRecord           records, and the setting of attributes in Python
    IpPrefixSearch         prefix search, in C and in Python
    PyTemplate             templates of Python and the memory they point into
    BPlusTree, FastHashTable, FastHashFilter, CuckooHash, CuckooHashV2, PrefixTree
                           the containers of common
      MCCuckoo                 the second cuckoo table for TLC
      MCStores                 all of these for TLC, one run
      StoreProofs              theorems about PyTemplate, FastHashFilter and FastHashTable
      UniRecProofs             theorems about UniRecFields and IpPrefixSearch

### TcpipSender

A step is what one thread does between two points where another thread could
see the difference: an atomic operation, a lock, an unlock, a store into a shared
word that is read without a lock. What is done under `ifc_mtx` and read only
under it is not split further.

| State | Code |
|---|---|
| `head`, `tail`, `slot` | `t_mbuf.to_send.head_`, `tail_`, `buff` |
| `cont[k]` | a `trap_container_s`: `ref` is `ref_counter`, `seq` is `seq_num`, `msgs` the messages behind the header, `hdr` the header bytes in the buffer |
| `active`, `empty`, `deferred` | the fields of `trap_mbuf_s` |
| `processed` | `processed_messages` |
| `mtx` | the owner of `ifc_mtx` |
| `pc`, `task`, `old`, `scan` | where a storing thread is, its caller, and the locals of `finish_container` and `t_mbuf_get_empty_container` |
| `lowest` | `lowest_container_id` |
| `connected`, `waiting` | `connected_clients`, `clients_waiting_for_connection` |
| `acc`, `accClient` | the accepting thread |
| `st[c]`, `cid[c]` | a client's thread and its `container_id`; "off" is not on the list |
| `bufferswitch`, `terminated`, `term`, `drainFrom` | `bufferswitch`, `is_terminated`, the caller of terminate, `head_` when it was called |
| `log`, `accepted` | history: contents published under each id, messages stored |

Messages are numbered 1, 2, ... in the order in which they are stored, so a
message's number says where it belongs. A container's header bytes survive
`t_cont_clear`, which only resets the fields; that is why `hdr` is kept apart.
`t_cont_clear` is two steps: the plain store of 1 into `ref_counter`, then
the rest, in program order. The counter is 8 bits wide and wraps.

`finish_container` is the sequence `FinishHeader`, then `FinishRepeat` (with
`FinishYield` and `FinishRelock` when a client waits to be let in) if the ring is
full and the timeout says to wait, `RingStore`, `RingPublish`,
`RingAdvanceTail`, and `OldPeek`/`OldUnref`/`OldClear`/`OldWipe` for the
container that was replaced. `t_mbuf_get_empty_container` is `ScanBegin` ...
`ScanEnd` and `TakeEmpty`; the three callers end in `TakeForSend`,
`TakeForSwitch` (no buffering) and `TakeForFlush`. A thread at "pop" with
no empty container is where the assertion of `t_stack_pop` stops the program.

The accepting thread looks at `is_terminated` before it sleeps in `poll()`, so
a client may still arrive afterwards (`AcceptTop`, `AcceptPeer`); a client is
listed and its thread started (`AcceptList`) before it is counted
(`AcceptCount`). `disconnect_client` decrements the counter and takes the client
off the list under the list's mutex; the model does both in one step.

Definitions whose name ends in `Bug` are faulty variants of the definition that
follows them. They show that each property notices a plausible slip;
no action uses one.

### SenderBlocking, SenderNonBlocking

One thread per client. `PeerTop` ... `PeerLeave` follow `send_blocking_mode`
and `send_non_blocking_mode`. The send of a container is one step, when its last byte has gone
out; until then the container must not change, which is what `ReadsPublished` and
`SentIntact` say. A failing `send()` is `PeerBroken`. `rcvd` and `sent`
are histories, `skipped` and `nextSeq` the counters of the non-blocking thread.
After a failed send at termination that thread leaves without releasing
its reference (`break` at 1266), and its inner loop does not look at
`is_terminated`; both are in the model.

### Broadcast

A log of batches; a client joins at its end, reads batches in order, and the
publisher is never more than `Window` batches ahead of a client.
`SenderBlocking!ImplementsBroadcast` maps `joined` to the listed clients,
`pos` to their `container_id` and `Window` to the number of slots.

### TcpipReceiver

One call of `tcpip_receiver_recv` at a time, as `ifc_mtx` of the interface makes
it; `pc` is the label or the place in `receive_part` where the call is.

| State | Code |
|---|---|
| `connected`, `dataPointer`, `waitSize`, `terminated`, `isReset` | the fields of `tcpip_receiver_private_t`; `dataPointer` is a position in the buffer, 0 for NULL |
| `session`, `total` | the `session_` and `total_` counters |
| `frame`, `length` | `messageframe`; `length` is -1 while it was not written |
| `phase`, `at`, `left`, `timeout` | arguments and locals of `receive_part` |
| `buf` | the context's buffer |
| `made`, `link`, `wire` | the other side: messages it has numbered, the connection, the bytes under way |

| pc | Code | Actions |
|---|---|---|
| "init" | `init` | `RecvInit` |
| "connect" | `conn_wait` | `ConnectFails`, `ConnectSucceeds`, `ConnectMismatch`, `ConnectUnanswered` |
| "check", "poll", "read" | `receive_part` called from `head_wait` or `mess_wait` | `PartCheck`; `PollReady`, `PollTimeout`; `ReadByte`, `ReadAgain`, `ReadInterrupted`, `ReadBroken` |
| "head" | a header is complete | `HeaderRead`, `HeaderMisread` |
| "mess" | a payload is complete | `PayloadRead` |
| "reset" | `discard` and `reset` | `Reset` |

A byte of the model is a part of a header (`HeadLen` of them) or a message, so
that every call can be cut inside a header and inside a payload, and a header has the
number and the size of its container in each of its bytes. The other side
publishes containers without regard to the receiver: each is sent or, when the
client is too slow, skipped. A connection that closes may lose its last bytes.

`slipped`, `cut` and `garbled` are histories: this connection's stream is out of
step, the counters were reset inside the last payload, the module was given
something wrong.

### TrapBuffer

`trap_ctx_recv_with_seq_number`: `Call` is the test of `terminated`, `Refill` the
call of the interface when nothing is unread, `TakeBuffered` and `TakeReceived`
the end of `trap_read_from_buffer` without and with one, `Fails` its `exit` with
an error. `Negotiated` puts the result that `input_ifc_negotiation` leaves in
`client_state` beside the step of the connection. `Closing` and `TerminateInput` are
the two stores of `trap_ctx_terminate`, in another thread. `last` is a history of the
last message given to the module and its number.

### Formats

One output interface, one input interface and the connection between them. A format
is a type and the set of its fields; `NULL` is no specifier.

| State | Code |
|---|---|
| `out`, `open` | `data_type` and `data_fmt_spec` of the output interface; the messages of its active container, each with the format it was stored in |
| `link`, `hello`, `wire` | the connection, the hello message and the containers under way |
| `req`, `in`, `fmtState` | `req_data_type` ..., `data_type` ..., `client_state` of the input interface |
| `linked`, `unread`, `call`, `code` | `connected`, the receive buffer, where `trap_recv` is, what it returned |
| `known` | the format the module believes in: what it required, or last asked for |

`SetDataFmt` is `trap_ctx_vset_data_fmt` with `disconnect_all_clients`;
`AcceptNegotiate` is `output_ifc_negotiation`; `NegotiateRead`, `NegotiateUnknown`,
`NegotiateFailed` and `NegotiateUnanswered` are the outcomes of
`input_ifc_negotiation`, `Judged` its comparison of formats; `TakeMessage` is the
place in `trap_read_from_buffer` that tells the module of a change. `overwritten`
is a history: a change was negotiated and its connection lost before the first message.

### Service

`service_thread_routine`, from one place where it can be interrupted to the next:
`PreparePoll`, `PollEvents` or `PollFails`, one `WalkRow` for each row of the table
(`row` is `i`, `poll` is `j`), `ReadRequest` and `Reply` for a client that is
ready, `AcceptClient`. `clients` is the table, `pfds` the poll set. Supervisors
connect, ask, in one part or two, and hang up whenever they like.

### Context

| State | Code |
|---|---|
| `phase` | where the thread that owns the context is, from `trap_ctx_init2` to `trap_free_ctx_t` |
| `made` | interfaces constructed so far; later those flushed, terminated or freed |
| `ifc[i]` | an interface: not constructed, live, destroyed, or `lost`, and whether it was told to end |
| `timeout[i]` | who has set `datatimeout`: the default, `ifcctl`, or a setter in the specifier (`datatimeout_fixed`) |
| `threadState`, `walker` | the service thread; another thread inside `trap_ctx_terminate` |

`ConstructFails` is every exit of `trap_ctx_init2` that destroys what was
constructed; `TerminateOther` and `TerminateWalk` are a signal handler's or another
thread's `trap_ctx_terminate`, one interface at a time, while the owner goes on.

### TlsSender, TlsReceiver

`ifc_tls.c` has the ring and the storing threads of `ifc_tcpip.c` over again, so
`TlsSender` uses the actions of `TcpipSender` and `SenderNonBlocking`, grouped
by the function of `ifc_tls.c` that performs them. It adds where the two differ:
`TlsHandshake` runs with `ifc_mtx` locked and may turn the client away, and
`TlsPeerUnhandled` leaves on an error of `SSL_write` without giving the container
back (`leaks` counts these).

`TlsReceiver` is `tls_receiver_recv` and its `receive_part`. The other side writes
records (`trWire`), the SSL object takes one and gives it away in parts (`trHeld`,
`TrDecrypt`, `TrTake`); `select()` sees only the socket, so a rest in the SSL
object does not wake a call (`TrSelect`). `trConfig` is `connected`,
`data_pointer` and `data_wait_size`. `SSL_read` fails in three ways: with EAGAIN
(`TrAgain`), with the end of the connection (`TrBroken`), and with any other error
(`TrReadFails`), of which `trSlipped` is the history. `trGiven` is what a
call has returned, with the `size` it says; `begun` tells whether this call has read the header
the size comes from. Bytes that are taken for a header by mistake end what is
followed (`TlsHeadMisread`, "lost").

### IfcFile

`file` is `fd`, `filename`, `file_index`, `create_time`, `neg_initialized` and
the disk, a function from names (time stamp, suffix) to sequences of hello messages
and buffers. `NextName` is `create_next_filename`, `Switched` is `switch_file`,
`Buffered` is `file_write_buffer` with the change of files (`Rotated`) and the hello
message (`Announced`) before it; a fault may strike in any of them. `FileFinalize`
ends the writing, and `rd` then reads the files as `file_recv` does.

### UniRecFields, UniRecRecord, PyTemplate

`UniRecFields` is the table of fields: `names`, `types`, `lastId`, `allocated`
and the list of free ids `undefineFields`. `DefineField`, `UndefineField`,
`CreateTemplate`, `ExpandTemplate` and `UpdateTemplate` (`TRAP_RECEIVE`, with the
failure of any field of an announced format, one of `DataFmts`) work on `Table` as the code does on
`ur_field_specs`; `DefinedSet` is the loop over the fields of a format.

In `UniRecRecord` a record is its static part (`stat`), offsets and lengths of its
dynamic fields (`off`, `len`) and the bytes behind it (`heap`).
`VarChangeSize` is `ur_var_change_size`, on which every setter rests; `Set`,
`SetText`, `SetBytes`, `SetArray`, `ArrayAppend`, `ArraySet`, `PySetList`,
`PySetSingle`, `Clear`, `Copy` and `Clone` are the operations. `held` is a
history of what each field should hold.

`PyTemplate` has for each template `dataObj` and `data`, and the reference `count`
of each byte array; each action changes them where `unirecmodule.c` does.

### IpPrefixSearch

Networks come in the order of the sort. In C, `FoldNetwork` takes the branch of
`ipps_init` that applies (`ToAppend`, `ToInside`, `ToEnd`, `ToStart`, `ToSame`) with
the conductor `cursor`; in Python, `SplitOverlaps` is `split_overlaps_intervals`.
`Search` and `PySearch` are the binary searches, `IppsDestroy` the freeing
of data that intervals share.

### The containers of common

* `BPlusTree`: `tree.node` is the memory. `InsertKey` and `InsertToNewNode` split on
  the way up, `NdCheck` and `NdinCheck` borrow from a brother or merge with it.
  `ListStart`, `ListItemNext` and `ListItemDel` are an iteration.
* `FastHashTable`: `table`, `stash` and `lock` (a spin lock for each row and the stash).
  An insertion is `InsertBegin` (row locked), `InsertSearch` (stash) and
  `InsertStore`; `ReplacementVector` is the table of that name. `used` is a
  history: of each row, the pairs of its keys of which the first was used last.
* `FastHashFilter`: `filter` is the table that callers get, `resize` a
  resizing under way, `oldTable` what a reader without a lock may still be reading.
* `CuckooHash`, `CuckooHashV2`: `CkInserted` and `CvInserted` are whole insertions, with
  15 attempts at most, and growth inside or outside of them. `ret` is what `ht_insert` returns,
  `kicked` the item that `ht_insert_v2` hands back, which `cvKick` keeps for the caller to make the table grow;
  `CvLockInserted` is the insertion under locks. Histories: what the caller has put in
  (`ckOwed`, `cvOwed`), how many items it was told to be missing (`ckRefused`), what `rehash_v2` has
  lost (`cvLost`), and a locking insertion that left rows in disorder (`cvAstray`).
* `PrefixTree`: `trie.node` and `trie.dom` are nodes and domains. `Add` is the recursion
  of the insertion, `SplitNode` and `JoinNodes` the surgery, `Walk` both searches.


## 3. What TLC checks

All runs set `CHECK_DEADLOCK FALSE`: once the messages allowed by `MaxMsgs` are
stored and the interface is terminated nothing has to happen, and a popped empty
stack stops the program; so do contexts that are freed and calls that were all made.

The parts of `control` and of `stores` share no state, nor do the modes of
`sender_liveness`. A behaviour belongs to the
part that `part` names from its first state on, the others keep their initial
values, so that one run checks each of them completely: the number of states is the
sum, not the product, of those of the parts. `StoresView` only looks at the chosen
part. In "table" it makes the keys interchangeable, and the threads, which is sound
because all keys hash to one row and the properties name neither. In "tls" it leaves
out what no step and not the property depends on: the contents of containers but for
their number, what was counted, written into headers and sent.

| Run | Instance | Shows |
|---|---|---|
| `wait_safety` | TRAP_WAIT, 2 slots, 2 clients, 1 sender + autoflush, 3 messages | `ReadsPublished`, `NothingLost`, `Numbered`, `ContainersKept`, `DrainedFirst`, `CacheIsLow` |
| `wait_broadcast` | TRAP_WAIT, 2 clients, one storing thread, `bufferswitch` changing while it runs | headers are right (`WellFramed`) and the blocking sender implements `Broadcast` |
| `sender_liveness`, part "wait" | TRAP_WAIT, 1 client, autoflush, containers of two messages, fair | a full ring is left (`WaitEnds`), autoflush delivers (`Delivered`), terminate returns (`TerminateEnds`) |
| part "nowait" | TRAP_NO_WAIT, 1 client, no autoflush, 4 messages, fair but for the clients' `send()` | storing never depends on a client (`StoreEnds`), a client that reads gets past every container (`Advances`) |
| `nowait_safety` | TRAP_NO_WAIT, 2 clients that take turns (max_clients 1), 6 messages | `SentIntactUntilMiss`, `SkippedCounted` |
| `input_safety` | headers of 2 bytes, up to 2 messages a container, 3 messages, calls with TRAP_WAIT and with a timeout, TCP | the stream is in place over every interruption (`InPlace`), unread messages are the next ones of one container and new to the module (`UnreadInOrder`), the counters add up (`Accounted`), numbers tell what was lost (`NumbersGrow`), calls end (`CallEnds`) |
| `control`, part "formats" | 7 formats set (UniRec, raw, JSON, with and without a specifier), 3 required, 2 changes, 2 messages, one break | `FormatIsKnown`, `NegotiatedFormat`, `Reconciled` |
| `control`, part "service" | 3 supervisors, a table of 2 rows, whole and partial requests | `Attended`, `Answered` |
| `stores`, part "context" | 2 input and 2 output interfaces, one other thread that terminates | `CleanEnd` |
| part "tls" | as `nowait_safety`, one client, no autoflush, 4 messages | `OnlyLeaksDrainPool` |
| part "tls_input" | payloads of 1 and 3 bytes, 2 containers, 2 connections | what a call returns is one payload, whole (`TlsReadWhole`) |
| part "file" | append by time, and splitting by size; two files already there; 3 messages, one change of format, one fault | `Archive`, `ReadBack` |
| part "fields" | a static field, 3 names, 2 types, a table with one free place and 3 at most | `TemplatesResolve` |
| part "record" | 2 records of 2 templates with a static, an array and two text fields | `FieldsRead` |
| part "search" | all networks of 3-bit addresses, up to 4 of them | `PrefixesFound` |
| part "python" | 2 templates, 3 byte arrays | `DataAlive` |
| part "bplus" | order 3, 6 keys | `TreeHolds` |
| part "table" | one row and a stash of one, 6 keys, 2 threads | `KeptInOrder`, `IterationComplete` |
| part "filter" | rows of 2 columns, 3 keys, 2 hashes, up to 8 rows | `FilterKeeps` |
| part "trie" | 5 strings of one and two labels, with and without joining, 4 calls | `TrieFinds` |
| parts "cuckoo", "cuckoo_v2" | 5 keys, 3 rows that may grow to 6 | `CuckooFinds` |

Five runs end in a violation, each a disagreement between the code and what the
repository says of it (`findings` in `PROJECT.json` quotes the lines):

* `framing_autoflush` - `finish_container` releases `ifc_mtx` between writing the
  header and publishing. If another thread finishes the container meanwhile, a
  container without a header is published. It takes a full ring, a client that
  connects at that moment and a second thread (autoflush is one).
* `nowait_first_id` - a recycled container has `idx` 0, so a late client at id 0
  takes it for the one it wants.
* `input_size` - a call that goes on with a payload returns
  `messageframe.data_length`, which only a call that has read the header has set. It
  takes one timeout between two bytes of a payload.
* `input_numbers` - a reset inside a payload moves the container it belongs to into
  the totals before its messages are numbered, and the next session starts from
  that container again: two containers get the same numbers. It takes one signal.
* `cuckoo_rehash` - the larger table of `rehash_v2` lacks an item of the old one: moving
  the items calls `ht_insert_v2` and does not look at what it hands back. It takes an item
  that finds no place in the larger table either, here one two of whose places are the same. Nor does
  `rehash_v2` insert the item that was handed back to its caller, as its comment (117, 118) says.

Known deviations the models also contain and the properties make exceptions for:

* With `bufferswitch` 0 a container is numbered before the message that closed
  the previous one is counted (1614 and 1617), so its number is one too low;
  `Numbered` holds with buffering on only.
* A store into a full ring of a terminated interface drops the active container
  (1472); enough of them empty the pool, and `t_stack_pop` asserts.
  `ContainersKept` ends with termination.
* TRAP_HALFWAIT looks at `connected_clients` once (1465); a thread in the loop
  waits on when the last client has left. `WaitEnds` asks for a listed client.
* `buffer_count=1` blocks for ever at the second container (1467); the
  runs have rings of two slots.
* A failed `t_cont_acquiere` increments and decrements a counter that
  `t_cont_clear` sets to 1 in between (1252, 1253): the counter loses one, wraps below 0, and
  containers stay deferred until none is left.
* `t_cont_clear` sets the counter before the `idx` (`trap_container.h` 97, 99), and
  `t_mbuf_get_empty_container` does not change the `idx` of a deferred container first
  (`trap_mbuf.c` 126-128), as `finish_container` does (1500). A client that has read the slot
  of a container that another client held when it was replaced can acquire it between the
  two stores, find its own id and send while the container is emptied. It takes two clients
  at the same time (`Recovering`).
* `SentIntactUntilMiss`, `SkippedCounted` and `OnlyLeaksDrainPool` end with the first
  client that is too late in one of these two ways (`missed`).
* The reference counter is a byte, and `max_clients` has no upper bound. Each client
  that leaves a container behind at termination leaves its reference as well, so with more than
  253 clients the counter of one container can wrap. The theorems about the non-blocking
  modes are for `MaxClients` up to 253.
* With `buffer_count=1`, the decrement at 1500 gives a container the id of the one before it,
  whose slot is the same, so a client that wants that one takes it while it is cleared.
  `SentIntactUntilMiss` is about rings of two slots or more.
* The position inside a header is not kept: EAGAIN in the middle of one, which takes a
  timeout and a header in two segments, leaves the stream out of step.
* `receive_part` treats EINTR of `recv()` as a read of -1 bytes (244, 245).
  Both set `slipped`; from there on the connection is exempt, and the model stops at
  the first bytes that are taken for a header (`HeaderMisread`), because
  their length would be believed.
* When a hello message does not come in time, `connected` is set all the
  same (458), and the message is read as a header when it comes: `slipped` again.
* After an idle timeout the session is reset, so messages lost meanwhile are not
  counted as missed. `NumbersGrow` asks for the exact gap only without a reset
  between two messages.
* `terminate` wakes nobody: a call with TRAP_WAIT, asleep in `ppoll()` or `recv()`,
  ends when data or a signal come (`Asleep`). `trap.h` 495-500 suggests more.

Formats and contexts:

* A change of format that was negotiated is forgotten when the connection breaks before
  the first message: the next negotiation compares with the format the module was
  never told of (`overwritten`).
* Messages that are in the active container when the format is set go out in the old
  format to clients that have negotiated the new one (`stale`).
* After a mismatch or a failed negotiation the connection is kept, and the next call reads on
  from it. Both exempt `NegotiatedFormat` while `client_state` says so.
* The service thread calls `send()` without `MSG_NOSIGNAL`: unless the module ignores
  SIGPIPE, a client that hangs up before its reply ends the program (`ReplyKilled`).
* When the mutex of an output interface cannot be initialised, `trap_ctx_init2` (1957)
  destroys input interfaces only; the others live on ("lost").
* `finalize`'s 100 ms timeout does not reach an interface whose timeout is fixed, nor
  the TCP sender's copy; and it does not terminate again when another thread has begun to.

TLS and files:

* A client's thread that leaves on an error of `SSL_write` other than a closed
  connection keeps its container (`OnlyLeaksDrainPool` says that nothing else drains the pool).
* `else if (TRAP_E_BAD_CERT)` (`ifc_tls.c` 544) is always true: each failed connect
  but a mismatch returns `TRAP_E_TERMINATED`, with or without a timeout.
* `select()` does not see what the SSL object has already decrypted, so a call may
  wait for a timeout with its payload at hand.
* `receive_part` over TLS treats every error of `SSL_read` but EBADF, EPIPE and EAGAIN as a read
  of -1 bytes (`ifc_tls.c` 325-343): EINTR, unless the interface is terminated, ECONNRESET, which
  the `switch` over TCP does have, and whatever else `errno` says. What is
  read afterwards lands one byte too low (`TrReadFails`); `TlsReadWhole` makes an exception for what a
  connection delivers in which it happened (`slipped`). Where the position would leave
  the buffer, the model stops.
* A call that continues a payload returns the `data_length` of a header it has not read (595), as
  over TCP (`input_size`): `TlsReadWhole` speaks of the size only of a call that has (`begun`), and of
  the bytes in the buffer of every call.
* After a write that failed, the call that writes the buffer again succeeds and does not
  store its own message: `Archive` allows one message for each failure.
* Without append mode, a change of format and an index that wraps or a clock that
  shows a time twice open a file of the same name again and empty it (`reused`);
  `README.ifcspec.md` 139-144 describes suffixes.
* A JSON format that changes inside a list of files is no case of the reader's
  `switch`: containers and hello messages get out of step (`confused`).

UniRec, pytrap and common:

* `TRAP_RECEIVE` sets its template to NULL when a field of the new format cannot be
  defined; the old one is lost (`lost`). Ids of undefined fields are used
  again while older templates may still hold them; README of UniRec forbids it.
* `ur_array_set` beyond the end shows bytes that were left behind (`Junk`).
* `setFromDict` makes a message by `createMessage` and forgets the reference it
  gets back, so the byte array is never freed (`leaked`).
* `prefix_tree_delete_inner_node` joins a parent that has one child left, also when
  it is the root of a domain's tree, which has no string of its own. It gets one then:
  its strings are not read back and insertions that have to split it fail.
  `README` (`prefix_tree` 86-87) presents joining as merging only. `TrieFinds`
  ends with the first such join (`rootJoined`).
* `ht_insert` returns 20 after its 15 attempts also when the table has grown and nothing is
  missing (`cuckoo_hash.c` 247; its comment, 163, says 0), and otherwise does not tell which item
  it dropped. `CuckooFinds` therefore counts: as many items are missing as such returns have
  told with growing disabled (`ckRefused`), and none with growing enabled. `item_count`
  counts items again when the table grows, and a key inserted twice is there twice.
* `rehash_v2` loses what its insertions hand back (the run `cuckoo_rehash`). `CuckooFinds` says
  that these are the only items that are missing (`cvLost`).
* The locking insertion of the second cuckoo hash (`ht_lock_insert_v2`) takes the number of a row
  for that of a place (`cuckoo_hash_v2.c` 292, 293, 327-331, 356). `CuckooFinds` holds of it
  as long as it need not kick, or finds a free place while each row is at its own place, as
  in a table in which nothing has been kicked yet. After any other the table is not
  looked at any more (`cvAstray`).

### Bounds

In the senders' runs `Capacity` is 1 (2 in `sender_liveness` with TRAP_WAIT, so that autoflush
finds a container half full), so every second message finishes a container, and the
ring has two slots: `head - tail` then reaches `BufferCount - 1`
after one publication, and three to six messages overwrite every slot and
reuse recycled containers. The pool has `BufferCount + MaxClients + 1` containers
as in the code. Two clients are enough for a slow one and a fast one, for
one that joins while another reads, and for one that leaves while the other
stays. Two storing threads (a sender and autoflush) suffice for
every race on the active container, because all storing threads run the same code. `MaxMsgs`
is the only bound that the code does not have; `accepted` counts against
it in `SendCall`. `nowait_safety` has `MaxClients` 1 with two peers: reference
counting with one reader and its successor, and six messages, so that deferred containers
are recovered. With `MaxClients` 2 the same module can be checked up to four messages
(10.8 million states, no error), which is too few to empty the larger pool.

On the input side `HeadLen` 2 and `MaxBatch` 2 are the smallest sizes at which
headers and payloads can be split and containers differ in size; three messages make
up to three containers, over as many connections as the run likes, and a session
before and after every reset. A call starts only while nothing went wrong
(`garbled`), so what a module does with wrong data is not followed.

`control`: two changes of the format give old, new and newer; `Room` 1 makes the second
message publish the first, so a container can lie open over a change. One break can fall
on each step of a connection. Three supervisors on two rows make one wait in the
backlog, be refused, and take the place of one that has left in the middle of a walk.

`stores`: each bound is the smallest at which every branch is taken. `IndexMod` 3
makes a file index wrap that in the code wraps at 65536. Six keys in a B+ tree of order 3
give three levels, borrowing and merging on both. Six keys in one row of four columns
and a stash of one fill both. One of the two hashes of the filter overflows rows of two columns
in every larger table, so that the resizing succeeds late, or fails. The hashes of the five cuckoo keys contain
a circle. Networks of three bits come in all nestings of four. Five strings share
prefixes inside a label and whole labels, and four calls insert, delete and insert again.
Free ids, a full table and a failed definition need three ids and one name more. The sizes of rows and
columns (4 in the hash table) are those of the code where an algorithm depends on them.

### Fairness

* Strong fairness of each storing thread's steps: a thread blocked on
  `ifc_mtx` gets it if it is free again and again, as `pthread_mutex` does
  under a fair scheduler. Weak fairness would let the others
  always be first.
* Weak fairness of the accepting thread's steps after a peer was accepted, of
  terminate's loop, of the autoflush thread's timer, and of client threads. With
  TRAP_WAIT, `send()` returns because the peer reads or the connection breaks: a
  peer that does neither stops the sender by design. Without
  waiting a client stuck in `send()` is allowed: `StoreEnds` must not need it.
* No fairness of callers, of peers that connect, or of `trap_ifcctl`.
* Of the input side: the calling thread goes on unless it is `Asleep`, and time that
  is checked again and again in `reset` is up some day (strong fairness of that
  outcome). Nothing has to come from the other side, and no signal.
* Of `Formats` (`FormatsFair`): the module goes on calling `trap_recv`, as its loop
  does, asks for the format after being told of a change, as `TRAP_RECEIVE` does, and
  the accepting thread accepts. Nothing of the sending module, and timeouts need not happen.
* Of `Service` (`ServiceFair`): the thread goes on, and not every `ppoll()` is
  interrupted by a signal. Nothing of its clients.
* `stores` checks safety only.

## 4. What is proved

`SenderBlockingProofs` proves for every ring size, capacity, set of clients and
threads (assumptions: the named ASSUMEs of `TcpipSender` and
`SenderBlocking`: positive sizes, disjoint thread names, a finite set of clients):

| Theorem | Statement |
|---|---|
| `Invariance` | `Spec => []Inv` |
| `TypeCorrect` | `Spec => []TypeOK` |
| `ReadsWhatWasPublished` | `Spec => []ReadsPublished` |
| `CachedIdIsLow` | `Spec => []CacheIsLow` |

and from it that the sender implements its abstract
specification, initial states to initial states and each step to a step of
`Broadcast` or none: `Refinement`, `Spec => ImplementsBroadcast`.

`ReadsPublished` is not inductive. `Inv` adds why it holds:

1. `Mutex`: a storing thread inside `finish_container` (but for the two
   states in which it lets a client in) or the accepting thread holds `ifc_mtx`.
2. `Serving`: the accepting thread serves a client; `waiting` counts it.
3. `NeverDeferred`: no reference is taken in these modes, so a replaced
   container goes straight back to the empty stack.
4. `Owned`: a container is in one slot, or once on the stack, or active, or
   being recycled.
5. `Counted`: `connected` is the length of the list but for a client just
   listed, so TRAP_HALFWAIT's test of it is right; a client being accepted
   starts at `head`.
6. `Window`: ids from `tail` to `head` are in the ring with the contents
   of `log`; no listed client is behind `tail`; **a thread about to
   overwrite a full ring has seen every client past `tail`**; `lowest` passes
   nobody.

The step lemmas follow these parts (`TypeStep`, `MutexStep`, `ServingStep`, `DeferStep`,
`OwnedStep`, `CountedStep`, `WindowStep`), each with one case per action that can disturb it.
What storing, accepting and terminating do to types and to the mutex is the same for all kinds of
clients and is proved once, in `SenderLemmas` (`SharedType`, `SharedMutex`).
`DistinctSlots` is the arithmetic of the ring: ids less than a ring apart are in
different slots.

One observation from the proof: the ring stops one slot early
(`size - 1`), so the slot overwritten is that of id `tail - 1`, which
nobody can be reading; the strict comparison with `tail` is not needed for safety.

The second half of `SenderBlockingProofs` goes on from `Inv` to what clients are promised:

| Theorem | Statement | Condition |
|---|---|---|
| `NoMessageLost` | `Spec => []NothingLost` | |
| `ContainersStay` | `Spec => []ContainersKept` | |
| `TerminationDrains` | `Spec => []DrainedFirst` | |
| `FirstMessagesNumbered` | `Spec => []Numbered` | `BufferSwitches \subseteq {1}`: buffering stays on |
| `FramedForOneThread` | `Spec => []WellFramed` | at most one storing thread |

The two conditions are those under which the statements are true: without buffering
a number may be one too low, and two storing threads publish a container without a header
(`framing_autoflush`). The parts added to `Inv`, at the end of `SenderBlocking`:

* `Located`: until termination, each container is active, in the ring, on the stack of
  empty ones, or the `old` one that a thread inside `finish_container` has in hand.
  `ContainersKept` follows, with the counting that `Owned` of `Inv` gives.
* `Clean`: what waits on the stack has been wiped, so a container that is taken from it holds
  only what is stored from then on. A step that stores appends one number to the active
  container, a step that publishes moves its contents to the end of `log`;
  `NothingLost` follows by the equation `FlattenSeq(Append(s, x)) = FlattenSeq(s) \o x`.
* `Numbering`: with buffering on, `processed` is the number of the last message stored, and the
  active container carries the number of the message before its first.
* `Framing`: from the writing of its header to its storing in the ring the active
  container does not change, nor does any container in the ring.
* `Draining`: the client that has been listed and not yet counted has nothing to read, so
  `connected_clients = 0` does tell terminate that nobody has.

`FlattenSeq` is a recursive function of the community modules. What it computes
needs induction over the length of a sequence; the induction theorems
of the library take an operator and cannot be instantiated here, but `WFMin`, the least element of a
set of naturals, can: a counterexample of least length is refuted
(`FlattensExists`, `FlattensUnique`, `FlattenAppend` in `SenderLemmas`).

`SenderNonBlockingProofs` proves about the clients that take no lock and make nobody wait:

| Theorem | Statement | Condition |
|---|---|---|
| `StructureKept`, `NonBlockingTypeCorrect` | `Spec => []Structure`, `Spec => []TypeOK` | |
| `NonBlockingInvariance` | `Spec => []Inv` | at least two slots, at most 253 clients |
| `SentWhole` | `Spec => []SentIntactUntilMiss` | the same |
| `SkippedRight` | `Spec => []SkippedCounted` | the same, and buffering stays on |

Nothing stops the ring from overwriting a slot a client has just read, so the argument is not
about where containers are but about what a client finds in the one it has picked:

* `Structure` holds whatever the clients are late for. `Single`: a container is in one place,
  one of the ring, the stack, the deferred ones, the active one, `old`. `Contents`: a container in
  the ring, deferred or just replaced has the `idx` and the messages it was published with, at
  least a ring before `head` if it was replaced; one on the stack has `idx` 0.
* `References`: a counter is one for the place a container is in (none if it is deferred or
  about to be cleared) and one for each client in `verify`, `send`, `release` or `giveup`
  that works on it. After termination it may be larger by the references that leaving
  clients keep, each at most once, so that it fits in the byte. A container is emptied or
  recovered only at counter 0, so not under a client that holds it.
* `Picked`: between `PeerPick` and `PeerVerify` a client's container may be replaced, emptied,
  numbered anew. It finds its own id only in the container it wants: one that was published again is
  ahead by the length of the ring at least, and the decrement at 1500, which comes before the
  clearing, takes only one away (this is where a ring of one slot fails). What remains is the client
  that takes a container while it is being recovered, which sets `missed`.
* `Whole`: a client that sends holds the container with its id, published and not being cleared.

`SkippedRight` adds `Numbering` (containers carry the number before their first message,
published ones follow each other without gaps), `Forward` (a client's ids grow) and
`Accounted`: what was sent and skipped so far add up to the distance of the numbers. The first
container sent sets the base; `PeerJump` and `PeerVerify` skip ids, and the number in the
next header tells by how much. Without buffering a container's number can be one too low (see
section 3), so the statement is for buffering.

`InterfaceProofs` proves for any ring and at most 253 clients `OnlyLeaksDrain`,
`TlsSpec => []OnlyLeaksDrainPool`. The steps over TLS are those above, but for a client that
leaves on an unhandled error (`LostKept`), so `Structure` and `References` carry over. The rest is counting,
over containers that are all somewhere (`NoneLost`). Should a thread find the stack empty after it has
looked at all deferred containers, each of those had a client that held it when it was looked at. `Scanning`
says that those already passed and the clients that still hold one further on (`Ahead`)
are together no more than the clients: a client that lets go of a container can take
another only from the ring. So at most `MaxClients` containers are deferred, at most `BufferCount`
are in the ring with the active one among them, and there is one more in the pool
(`PoolSuffices`, by the pigeonhole principle).

The same module proves `TlsReadsWhole`, `TlsReceiverSpec => []TlsReadWhole`, for containers of any
sizes, as long as the caller's buffer takes the largest (assumption: `TlsReceiverAssumption`). It says of every
call that returns data that the bytes in the buffer are the payload of one container, whole and
in order, and of a later one than before, and that the size returned is theirs; with two
exceptions, both as the code has them: not once an error of `SSL_read` has moved the position back
in this connection (`slipped`), and not of the size if the call continues a payload (not `begun`).
`TrInv` says that, until such an error (`TrInPlace`), there
is a place `q` in the peer's stream of bytes such that what the SSL object holds and what
is on the wire go on from `q`, up to where the peer is (`TrStream`), and `q` is what the receiver takes its
next byte for (`TrExpects`): the header of a container not seen before, or the byte at the kept
position of a payload whose first bytes are in the buffer. `TrRuns` says that a record is
a run of bytes of one container, `TrConfigured` what a call may leave for the next: a position only
inside of a payload, and none without its connection. `TrCounted` holds with errors too: position and missing
bytes always add up to the size that some header has told, since the -1 is taken off one and added
to the other. That is why the size is right even then.

Of files it proves `FilesArchive`, `FileSpec => []Archive`, and `FilesReadBack`, `FileSpec => []ReadBack`, for
any sizes of files and buffers, any formats, any local times and any files already there (assumption:
`FileAssumption`). Their common invariant `FileInv` is at the end of `IfcFile`:

* `FileRight`: each file begins with its hello message and has no other; only the open file, which is the
  last one, is written, and it has its hello message exactly when it counts as negotiated. No file is in
  the list twice, and in append mode none is opened again.
* `MessagesKept`: the numbers of the messages in the files and the buffer grow. Where no file was opened
  again, the accepted messages that are missing are no more than the failures, and
  one less while the buffer waits to be written: such a buffer has a failure to its account,
  which pays for the message of the call that repeats the write, accepted and not stored.
* `ReaderRight`: the reader has exactly what is before its place (`ReadSoFar`); where it waits
  for a hello message it is at the start of a file, or the format is of JSON.

The work is in the operators. `OthersIs` and `SwitchedMsgs` say what opening a file does to the list
of files and their contents: one of them is emptied and goes to the end, or an empty one is
added. So the messages are those of before but for a part cut out (`SwitchedContent`, `CutKeeps`), which
keeps their order, and none is cut out if the file is new. `FlattenConcat`, proved by a least counterexample,
and from it `FlattenSplits` and `FlattenRemove`, carry this through the
flattening of files and of entries, and give for the reader that what is before
its place is a beginning of the whole (`SoFarPrefix`).

`TrapBufferProofs` proves for every size of headers and containers and every
choice of timeouts (assumption: `ReceiverAssumption`, positive sizes):

| Theorem | Statement |
|---|---|
| `InputInvariance` | `Spec => []Inv` |
| `InputTypeCorrect` | `Spec => []TypeOK`: every position stays in the buffer |
| `CountsAddUp` | `Spec => []Accounted` |
| `ReceiverInPlace` | `Spec => []InPlace` |
| `MessagesInOrder` | `Spec => []UnreadInOrder` |
| `NumbersTellLosses` | `Spec => NumbersGrow`, an action property |

`TypeOK` is not inductive, because a position is kept over calls and used by a later
one. `Extent` adds that what is missing fits behind the position, that it is kept
only with the connection it belongs to (or until termination), and that a header is
never read while a payload is half read. There is one lemma per action, with one
step per part of the invariant that it touches.

The other three rest on `StreamInv`, which adds to `Inv`, at the end of `TrapBuffer`:

* `Stops`: where a part is entered and left, and when a position is kept.
* `Aligned`: what is on the wire, seen from where the receiver has stopped. After
  a byte of a header at position p come the rest of that header, its payload, and a header
  or nothing (`ContainerAt`; p is negative when part of the header has been
  read). A payload is split between the buffer and the beginning of the wire
  (`PayloadSplit`), and a position that is kept for a later call is such a split.
* `Ordered`: the messages in the buffer are the next after some message n, which is not
  before the last one the module has seen, and whatever is still to come is newer.
* `Tallied`: the counters of the interface and the numbers given to the module
  measure from the same message. Until a reset they know of all messages up to some b, and
  what is still to be read comes after b; after one they know of fewer, which is why
  numbers then tell at most what was lost. A header read next counts the messages that
  it skips, so the tally is at its end again (`HeaderCounted`).

Three lemmas carry a fact about the wire over a step: it grows at its end by a whole container
or loses a tail (`Grown`), it is read from (`Shifted`), or it is left alone. As `InPlace` and
`UnreadInOrder` speak of sequences, while the invariant speaks of single
bytes, `SplitAt` and `FollowsOn` translate at the end.

`ControlProofs` proves about the context for any number of input and output interfaces (assumption:
`ContextAssumption`, at least one interface):

| Theorem | Statement |
|---|---|
| `ContextInvariance` | `ContextSpec => []ContextInv` |
| `ContextEndsClean` | `ContextSpec => []CleanEnd`: no interface is gone while the service thread runs, none is destroyed before it was told to end, none lives on when the context is freed |

`CleanEnd` is not inductive: it speaks of the moment of destruction. `Held` adds what the
owner has constructed in each phase and when the service thread may run, `EndedInOrder`
which interfaces the owner and the other thread have told to end so far. The step lemmas
follow the phases (`ConstructKeeps`, `FailKeeps`, `IfcCtlKeeps`, `TerminateKeeps`,
`FinalizeKeeps`, `FreeKeeps`).

It proves about the service thread for every size of its table and any set
of supervisors, and about formats for any finite or infinite set of them
(`ServiceAssumption`, `FormatAssumption`: a format is a type with a set of fields or
none, and raw data have none):

| Theorem | Statement |
|---|---|
| `ReadsWhatIsThere` | `ServiceSpec => []Attended` |
| `ModuleKnowsFormat` | `FormatsSpec => []FormatIsKnown` |
| `DeliversNegotiated` | `FormatsSpec => []NegotiatedFormat` |

`Attended` holds because the poll set lists, in the order of the rows, those clients that were
there when it was made, and a client leaves the table only in its own row: `Walking`
says that the rows from `row` on agree with the poll set from `poll` on
(`InStep`), although rows behind may have changed; `OnePlace` that no client
is in two rows or waiting as well. For the formats, `Connection` relates the hello message and the
containers under way to the formats of the two sides, `Agreed` what the states of
`client_state` mean, `Delivered` and `Calling` what the message in hand has to do with the
last one the module was told of.

`StoreProofs` proves for any finite set of templates and any byte arrays
(`PyAssumption`), for any keys, hash functions, row width and number of rows of the filter
(`FhfAssumption`), and for any keys, threads, number of rows and size of the stash of the table, with and
without the calls that use the stash (`FhtAssumption`):

| Theorem | Statement |
|---|---|
| `TemplatesKeepData` | `PySpec => []DataAlive` |
| `FilterLosesNothing` | `FhfSpec => []FilterKeeps` |
| `TableInOrder` | `FhtSpec => []KeptInOrder` |
| `IterationsComplete` | `FhtSpec => []IterationComplete` |

`DataAlive` is inductive with the types. Each action is a case of one lemma, `Rebind`: a
template moves from one array to another, and count, program's reference and lost references change by as
much as its owners do. For the filter, `Placed` says that each key is in its own row,
once; `Resizing` that the new table holds exactly the keys the iterator has
passed (`Moved`), also after the new table was thrown away and filled again; `Looking`
that a key that stays is in a column the reader has not read yet, in the table it reads.

The two theorems about the fast hash table rest on one invariant, `FhtInv` at the end of its module:

* `Sound`: an item is in its own row or in the stash, once, and the ages in a row's vector order
  its items as the pairs in `used` do (`Ordered`). That the lookup tables keep this is a
  computation over their 24 vectors (`AgesFollow`).
* `LocksMatch`: a lock is held by the thread that is at its place, and by no other.
* `CallRight`: what a thread has seen in the places it has locked is still so. An insertion that has
  searched its row and the stash stores a key that is still nowhere, since only the thread that holds
  the key's row could bring it there; and the keys an iteration has still to be given are ahead of
  it (`Later`), in its own place, in a later row or in the stash.

`RowStep` and `StashStep` reduce the order of the whole to the row, or the stash, that a step changes.
For the threads that do not move, `Spared` says what a step leaves them: the places they have
locked are as they were, a key only enters a row that nobody else has locked, and an item given up by
a row goes forward, to the stash, which every iteration visits last. `OthersRight` draws the
conclusion once for all actions.

`UniRecProofs` proves for any fields defined by the module, any formats announced and any
capacity of the table (`FieldsAssumption`: static names differ, and no name is the mark of an undefined
field), and for addresses of any width and any number of networks (`PrefixAssumption`):

| Theorem | Statement |
|---|---|
| `TemplatesFindFields` | `FieldsSpec => []TemplatesResolve` |
| `SearchesFind` | `PrefixSpec => []PrefixesFound` |

`FieldsInv` is what `TemplatesResolve` says, of the table as the next call finds it
(`TableRight`): before `ur_init` that is the table `ur_init` will make, which has memory for
more fields than the variables say. One lemma for the definition of a field
carries `TableRight`, and with it what every template finds (`Resolves`), through
`DefinedSet` by induction over the fields of a format: a name that is defined keeps its id
and its type, and an id used again belongs to no template, since a program that undefines a
field has freed the templates that have it.

`PrefixInv`, at the end of `IpPrefixSearch`, says of the list that is being built: the intervals
are in order and each has, for all its addresses alike, the data of the networks around them
(`InOrderAndRight`); every address of a network is in an interval (`Covered`); an interval ends where a
network ends or before one begins (`EndsRight`); and those before the conductor end before the
network folded in last (`CursorRight`), so that going on from there misses nothing.
Two networks are nested or apart, by the arithmetic of powers of two (`Nested`). With the order
of the sort, and with `EndsRight`, a network therefore never sticks out of the interval it meets
(`NetworkFits`): the cases the code has are all there are. They are then one: the interval is
replaced by pieces that are in order, have its ends, and have the new data inside of the network
only (`Split`, `SplitKeeps`); the branches in C and the three tests in Python all make such
pieces. For the search, `HitHalves` says that the half that is given up has no
interval around the address, and `HalvingHits` draws the conclusion by induction over the
distance of the bounds, once for both programs. That each datum is freed once is `Collected`, an
induction over the intervals, with `Covered` for those that must not be forgotten.

Proving changed the models in seven places. The comparison of formats (`Judged`) and a
step of the second cuckoo hash (`CvInserted`) used CASE with guards that overlap, which TLA+
leaves open and TLC decides by order: they say now which branch the code takes. A set
difference behind UNION, which SANY and TLAPS read differently, has its parentheses.
`PyAssumption` and a stronger `FormatAssumption` were missing. The lookup tables of the fast hash table
are functions over the vectors that occur, and its history is a relation instead of a sequence,
so that forgetting a key is one set. `DefinedSet` is a function over the fields of
a format instead of a fold, and the formats are a constant, so that the theorem is about all of them.
The powers of two, the binary search and the freeing of data in `IpPrefixSearch` are recursive functions
instead of `^` and folds, for the proofs by induction. The list of files that
`Switched` extends is an operator (`Others`), and the disk afterwards one function over its names.

Only model-checked:

* Liveness, which is out of the prover's reach, and the action properties other than
  `NumbersGrow`.
* `FieldsRead`: the algorithms are folds over the fields of a record whose results would have to be
  characterised by induction first.
* `TreeHolds`, `TrieFinds`, `CuckooFinds`: the modules use RECURSIVE operators, which the prover does not
  support.

## 5. Not modelled, and why

Left out of the models:

* Bytes: containers hold message numbers, a header is its sequence number and
  count. Sizes other than "fits" and "does not fit" make no difference to control.
* Partial `send()`: the loop around it changes nothing but locals.
* What threads do with memory that another has freed: `disconnect_all_clients` (called
  when the data format changes) and `destroy` free client structures that threads
  may use, a failing `malloc` or `pthread_create` in the accepting thread does the
  same, and two resizings of a hash filter free a table under a reader. No step
  after that is determined by the code.
* The timeout an interface was created with does not change at run time
  (`TRAPCTL_SETTIMEOUT` changes the context's copy only).
* Wrap-around of 64-bit ids. `connected` is an integer whose -1 stands for the
  wrapped value; it occurs when a client leaves before it is counted.
* On the input side: the socket calls inside one attempt to connect; `trap_recv` without
  numbers mixed with calls that ask for them, `trap_get_internal_buffer`; the contents
  of a message, and its 16-bit size field, but for whether it is that of a message at
  all; a session whose last container has more messages than 16 bits count.
* What a receiver does with bytes it takes for a header by mistake, and a connection
  whose hello message comes after its time (`lost`).
* Of TLS: certificates, keys and SSL contexts, but for success or failure; the blocking
  mode of the sender, which relates to the one over TCP as the other does.
* Of UniRec: text to values and back. Of pytrap: the conversion of values to objects and
  the calls that only pass arguments on. Of the prefix tree: the counters of strings
  and subdomains. Of the cuckoo hashes: keys of different lengths. Of the hash filter:
  calls that hand out a locked item. Failing allocations in `common`.
* Reordering of plain stores by compiler or processor.

Seen while modelling, outside of what the models follow:

* `container_buff_len` (`trap_container.h`) is one variable of the process, while
  `README.ifcspec.md` 41-44 has a `buffer_size` for each interface; and the first
  containers are allocated (`t_mbuf_init`) before it is set (`ifc_tcpip.c` 1940,
  `ifc_tls.c` 2012).
* `fhf_get_data` of the hash filter takes no lock, and its comment (`fast_hash_filter.h` 486-491)
  says not to use it with several threads. `FilterKeeps` shows what holds nevertheless while another
  thread inserts, removes and resizes: a key that stays is found. The data it points to may
  change under its reader.
* A B+ tree of order 2 leaves empty leaves behind; `BptAssumption` asks for 3.
* Mixing the insertions of the hash table with and without stash puts a key there
  twice; `FhtStashed` chooses one kind. A thread that holds the stash's lock and
  inserts waits for itself.
* In the prefix search, two results of allocations are not looked at (`ip_prefix_search.c`
  818), and an IPv6 address whose first half is zero and last word all ones is
  taken for an IPv4 address.
* `trap_ctx_init2` with a wrong number of interfaces returns a context without lists, which
  `trap_ctx_terminate` dereferences.

Components that are not modelled at all:

* Dummy interfaces (`ifc_dummy.c`): one drops messages, the other repeats one.
* Error messages and conversions (`trap_error.c`, `trap_mbuf.h` as far as it declares).
* jansson: vendored.
* `unirec++` and `unirec2csv`: each call is one call of the C libraries.
* Counting sort, Bloom filter, real-time sending and configurator: one pass over
  data, floating point, waiting, and XML.
* The reporters of pycommon, the tools and the examples: formatting, delivery and options.

`PROJECT.json` lists every component with its status.

## 6. Plan

Done: the output interface over TCP, waiting and not waiting, and over TLS, with their proofs; the
input interface and the receive buffer with theirs; formats, the service thread and the context
with theirs; files; UniRec, pytrap and the containers of common; and the theorems of section 4.
Left, all of it proof: the invariants that section 4 lists as only model-checked.
