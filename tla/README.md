# A TLA+ model of RustNet

RustNet is a terminal network monitor: it captures packets, groups them into
connections, finds the process and the protocol behind each, and shows the
result. It runs as one process with about a dozen threads that share a few
concurrent maps. This directory holds TLA+ modules of the parts where those
threads meet and of the protocol tracking they perform, TLC configurations that
check them on small instances, and TLAPS proofs of the theorems that matter
most. Every definition follows the Rust source under `src/`; `PROJECT.json`
maps it to the lines it stands for.

## 1. Inventory of the system

| Part | State | Operations | What is hard about it | What makes it correct |
|---|---|---|---|---|
| **Connection table** (`app.rs` `update_connection`, cleanup thread, `clear_all_connections`) | `connections` (DashMap), `historic_connections`, `QUIC_CONNECTION_MAPPING` | look-up, limit check and upsert by up to 4 processors; removal, archival, eviction every 5 s; clear by the user | every step takes its own lock; the limit check is separate from the insertion; keys and mappings are used after their locks are released; the pool's length is read twice around a subtraction | bounded size, one home for each connection, mappings that lead somewhere, oldest evicted first, expired ones removed |
| **Snapshot provider and PCAP sidecar** (`app.rs` `start_snapshot_provider`, `log_pcap_connection`, `stop`, `Drop`) | `connections_snapshot`, `show_historic`, the JSONL file | copy of table and pool each second; toggle; a line per removed connection; the rest at `stop` | iterates two maps that a third thread moves entries between; a clear races with a collected snapshot; `stop` runs twice | what stays active is shown, a cleared row leaves, each removed connection has its line |
| **TCP tracking** (`merge.rs` `update_tcp_state`, `create_connection_from_packet`; `types.rs` `get_tcp_timeout`) | state and direction of an entry | transition per segment, direction from the first one, timeout from the state | half-open, lost, repeated and overtaking segments; the first segment seen may be any; a wrong state removes a live connection | claims of direction and close are true, phases only advance, established connections are kept as long as documented |
| **Capture pipeline** (`app.rs` `start_capture_thread`, `start_packet_processor`) | batch, bounded channel, `linktype`, counters, `should_stop` | read, batch, `try_send`, `recv_timeout`, process, stop | partial batches on a quiet line, full channel, disconnection with batches queued, counters written by several threads | no packet lost between two threads or processed twice, order kept to the processors, no wait for ever, threads end |
| **TCP analytics** (`merge.rs` `analyze_tcp_segment`) | expected sequence numbers, last acknowledgement, four counters | counts retransmissions, late segments, duplicate acknowledgements, fast retransmits | plain comparison of 32-bit numbers that wrap, zero as "nothing seen", segments missed by the capture or applied out of order | counters claim only what happened |
| **QUIC merging and CRYPTO reassembly** (`merge.rs` `merge_quic_info`; `types.rs` `CryptoFrameReassembler`; `dpi/quic.rs`) | `QuicInfo`: state, close, server name, reassembler | add a fragment, search for the name, merge coalesced packets and datagrams, timeout from the result | fragments repeated, reordered and cut differently; two places that merge by slightly different rules; results of a repeated search replace what is known | the bytes are the stream, the buffer bounded, a whole name kept, a closed connection leaves |
| **Process enrichment** (`app.rs` `run_process_enrichment`; `platform/linux/enhanced.rs`, `process.rs`) | caches, the process fields of entries | refresh of `/proc` in two scans, a pass over the connections, eBPF first, then the cache with relaxed keys | ports reused between scan, look-up and fill; sockets closed in between; a field that is filled once | the process shown held a socket on that port; open connections get one |
| **eBPF socket tracker** (`socket_tracker.bpf.c`, `maps_libbpf.rs`, `tracker_libbpf.rs`) | `socket_map`, shared by kernel and user space | seven hooks that note the process, exact and zero-source look-up, cleanup | what a hook can read depends on the moment the kernel calls it; two byte orders of one key; full map; entries that outlive their sockets; two clocks | both sides build the same key, an answer is about a user of the flow |
| **Reverse DNS resolver** (`dns.rs`) | cache (DashMap), request channel, `should_stop` | request, resolve by a few threads, expiry, eviction | check, mark and result are separate accesses; expiry and eviction under the threads' feet; the length is read twice | nothing stays "in progress", bounded cache, answers come, threads end |
| DPI merging of other protocols (`merge.rs`) | protocol information | first value of a field wins | repeated partial information | information is not lost again |
| Packet and DPI parsers (`parser.rs`, `link_layer/`, `protocol/`, `dpi/`) | none | pure functions of bytes | input of any shape | total, no panic (they run under `catch_unwind`) |
| RTT tracker (`types.rs`) | pending SYNs | record SYN, match SYN+ACK | retransmitted SYN | an RTT belongs to its handshake |
| Rate tracker, traffic history (`types.rs`) | window of samples | update, prune, rate | empty and short windows, floating point | window bounded, rates non-negative |
| Interface statistics, GeoIP, services, OUI, bogon | maps | periodic rebuild, look-ups | reader sees a map half rebuilt | deltas non-negative |
| UI, filter, start-up, sandbox, CLI | view state | rendering and keys | I/O | - |

Parts in bold are modelled.

### How the parts interact

```
 libpcap -> capture thread -> bounded channel -> processors (up to 4) -> connections (DashMap)
                                                      |                  ^      |      |   ^
                                   QUIC_CONNECTION_MAPPING               |      |      |   process enrichment
                                                      ^                  |      |      v        |
 UI thread: clear, toggle, stop                       |                  |      | snapshot -> UI  asks
   (touches all of them)                cleanup thread: retain -> archive -> evict     |        |
                                              |               |             names      v        v
                                              v               v             from  DNS resolver  eBPF map, /proc
                                        sidecar JSONL   historic_connections                    ^
                                                                              kernel hooks -----+
```

All sharing is by lock per access (a DashMap shard, a `Mutex`, a `RwLock`) and
by relaxed atomics; there is no lock held across two structures. So the
correctness of the whole is a matter of what may happen between two accesses,
which is what the modules below interleave. Section 7 of this file and
`PROJECT.json` ("hazards") list where that bites.

## 2. Modules

| Module | What it is | Code |
|---|---|---|
| `ConnLifecycle` | abstract: the stages a connection goes through, once each | - |
| `ConnTable` | the table, the pool, the QUIC mapping and the threads that change them | `app.rs` 1564-1705, 1890-1946, 1968-2085 |
| `ConnTableProps`, `ConnTableProofs`, `MCConnTable` | properties, theorems, TLC instance | |
| `SnapshotView` | composes `ConnTable` with the snapshot thread, the sidecar and `stop` | `app.rs` 1224-1343, 290-337, 1943-1965, 2087-2093 |
| `SnapshotViewProps`, `SnapshotViewProofs`, `MCSnapshotView` | properties, theorems, TLC instance | |
| `TcpEndpoints` | external: two RFC 793 endpoints, the network, the capture point | - |
| `TcpTracker` | state, direction, timeout and removal of one entry | `merge.rs` 26-61, 167-430; `types.rs` 2128-2200 |
| `TcpTrackerProps`, `TcpTrackerProofs`, `MCTcpTracker` | properties, theorems, TLC instance | |
| `CapturePipeline` | capture thread, channel, processors, counters, stop | `app.rs` 646-1028, 1928-1946 |
| `CapturePipelineProps`, `CapturePipelineProofs`, `MCCapturePipeline` | properties, theorems, TLC instance | |
| `SocketTracker` | kernel hooks, the shared map, look-up and cleanup | `socket_tracker.bpf.c`, `maps_libbpf.rs`, `tracker_libbpf.rs` |
| `ProcessLookup` | extends `SocketTracker` with the enrichment thread and `/proc` | `app.rs` `run_process_enrichment`, `enhanced.rs`, `process.rs` |
| `SocketTrackerProps`, `SocketTrackerProofs`, `ProcessLookupProps`, `MCProcessLookup` | properties, theorems, TLC instance | |
| `DnsResolver` | requests, resolver threads, cleanup thread | `dns.rs` |
| `DnsResolverProps`, `DnsResolverProofs`, `MCDnsResolver` | properties, theorems, TLC instance | |
| `TcpAnalytics` | sequence and acknowledgement numbers of one connection, its two streams (external) | `merge.rs` 63-165, 209-227 |
| `CryptoReassembler`, `CryptoReassemblerProofs` | the fragments of a CRYPTO stream, and what its walks over them compute | `types.rs` 917-1045 |
| `QuicMerge` | packets of a datagram, merging, the timeout | `quic.rs` 181-564, 767-1039, 1179-1242; `merge.rs` 13-24, 556-769; `types.rs` 2164-2194 |
| `PacketMerge` | composes `TcpAnalytics` and `QuicMerge`: what later packets add to an entry | `merge.rs` 167-245 |
| `PacketMergeProps`, `PacketMergeProofs`, `MCPacketMerge` | properties, theorems, TLC instance | |

Definitions whose comment starts with "Mutant" are not part of the model. Each
is a plausible mistake in the definition that follows it; putting it in its
place makes TLC find one of the properties violated, which shows that the
property depends on the code being as it is.

### ConnTable

One action per step that takes a lock. A processor (`pc`, `pkey`, `pown`)
resolves its key through the mapping (`ResolveKey`), asks `contains_key`
(`CheckContains`) and then `len` (`CheckLimit`), and upserts under the shard
lock (`UpsertEntry`). The cleanup thread (`cpc`) starts a pass, visits each key
(`CleanupVisit`, the `retain` closure), archives (`Archive`), compares the
pool's length and collects it (`CollectForEviction`), reads the length again
and evicts (`EvictOldest`, or `EvictUnderflow` when a clear came in between),
and drops mappings (`CleanMapping`). The UI thread (`upc`) clears structure by
structure, and stops.

What an entry holds is abstracted to: `id`, its place in the order of creation
(for `created_at`); `own`, the key of the packet that created it (what
`Connection::key()` returns); `age` and `timeout`, of which only the comparison
matters. `closed_at` is the rank of the cleanup pass (`now`). `retain` and
`iter` of DashMap visit shard by shard, so each key is a step of its own and in
any order; `len` and `clear` are taken as one step. The pass reads the clock
once, the model evaluates expiry at the visit: entries that expire during a
pass may go with it, which only adds behaviours. The system clock is assumed
not to go back.

`OverflowChecks` distinguishes debug from release builds: the subtraction at
`app.rs:1673` panics in the former and wraps in the latter, where `take` then
removes everything collected. The runs use the release profile, which
`Cargo.toml` does not give overflow checks.

### SnapshotView

`SnapBegin`, `SnapVisit(k)`, `SnapHistoric`, `SnapPublish` are the snapshot
thread's loop; the iteration of the pool is one step (what matters is that it
is separate from the iteration of the table). `CleanupVisitLogged` is
`CleanupVisit` with the sidecar line the closure writes. `StopRaise`,
`StopWrite` and `DropWrite` are `stop` called by `main` and again by `Drop`.
Other steps of `ConnTable` leave the view alone (`TableStep`), so what is proved
of the table holds here too; this is how the module is composed, not a property
of the code, and is used as a lemma (`ViewTable`). Rows are identified by
connection and by `is_historic`. Three history variables follow a pass: `steady`,
the connections shown all along; `known`, those that were shown, on their way to
the pool (`to_archive`) or in it all along; `missed`, those that were on their
way when the pool was read.

### TcpTracker

`update_tcp_state` is a table of rules (`Rules`), each with the state, the
exact flags and the direction it matches; RST comes first, anything else leaves
the state. `Apply(i)` is a processor merging the i-th captured segment that is
not merged yet: `i > 1` is the overtaking that parallel processors allow.
`Cleanup(i)` removes the entry in the first of the idle times
5/30/60/120/300/600/1800 s at which `should_cleanup` says so; a pass comes every
five seconds, so an entry is not observed much beyond it. The endpoints are
ordinary RFC 793 machines with lost and repeated segments. Simultaneous open and
a second connection on the same ports are left out.

### CapturePipeline

The capture thread goes `setup`, `loop` (look at `should_stop`), `read`,
`stats`, `exited`; `TrySend` is the send shared by the full and the overdue
batch. A processor goes `linktype`, `loop`, `recv`, `work`, `exited`. The
history variables `finished`, `refused`, `discarded` record where each packet
ended. A batch is applied packet by packet (`ApplyPacket`) and counted afterwards,
in a step of its own (`CountBatch`, the `fetch_add` after the loop, `app.rs:1006`);
between the two its packets are in `applied`. The user's reset stores the two
counters one after the other (`ClearProcessed`, `ClearDropped`; `clearing` is the
UI thread between them) and may fall anywhere. `cleared` and `straddling` remember
how many packets had been applied, and how many of these not counted, at the last
reset. What a packet does to the table is in `ConnTable`.

### SocketTracker and ProcessLookup

A socket goes `unused`, `open`, `connecting` (inside an IPv6 `connect`, or in a
dual-stack socket's send between the IPv6 hook and the IPv4 one), `called` (a hook has seen it in use), `accepted`, `closed`; what its program
asked for is the constant `desc`. `Hooks(c)` are the seven kernel hooks, each with the
addresses the kernel has filled in by then (`sock_common`) and the key that
follows (`conn_key`). Look-up, cleanup and iterator are steps key by key
(`LookupExact`, `LookupZeroSource`, `CleanupVisit`, `CleanupDelete`), so hooks
and other sockets come in between. Addresses and ports are pairs of bytes:
`bpf_ntohs` and the little-endian load of an address are operators that swap
them, so that a missing conversion gives another key.

The family of a socket is `inet`, `inet6`, or `dual`: an `AF_INET6` socket with an
IPv4 peer. Its packets are IPv4 (`FlowOf`), its own IPv6 addresses `::ffff:a.b.c.d`
(`Mapped`), and the kernel hands its calls on to the IPv4 code, so both the IPv6 and
the IPv4 hook fire for it. An ICMP socket has two flows to be looked up by, with the
echo identifier and, after an ICMP error, without (`FlowsOf`).

`ProcessLookup` adds the enrichment thread: `Refresh` scans the descriptors of
every process, `ReadTables` joins them with the kernel's tables as they are then,
`Visit(r)` starts an eBPF look-up for a connection of the pass, `Fill` puts its
answer, or that of the cache of `/proc`, where no process is shown yet. The rows of
dual-stack sockets stand in `tcp6` and `udp6` with mapped addresses (`Row`). A
connection of the table is keyed by its flow, but one of ICMP by the two addresses
alone (`ConnOf`, `icmp.rs:44`): `asks` is the flow it is looked up as, with the
identifier of its last packet (`Echo`). Left out
are the process name (one value with the pid), the uid, the stop flag (the
thread only ends by it), and a failing refresh (the cache stays as it is). The
two-second cache of `enhanced.rs` never answers, because a pass asks about each
connection once and sleeps two seconds.

A row of the connections names no peer when it is that of a listener or of a
datagram socket that sends by name; the same holds of the key of a datagram
socket that was bound before it was connected (`WithoutPeer`). Such a match is by
port alone, so the process found may be that of another socket on the port:
`Served` says of which sockets a row may show the process.

What the model shows of the tracker besides its properties: IPv6 keys never match
(`maps_libbpf.rs:58` loads words big-endian, the hooks store them as the machine
has them), although the look-up claims IPv6 (`maps_libbpf.rs:8`);
`tcp_connect` also fires for IPv6 with an IPv4 key; `inet_csk_accept` is hooked
on entry and so records the listener, without a peer; `tcp_v6_connect` on entry
has no destination; the IPv6 UDP hook ignores `msg_name`; a datagram socket that
sends by name to 0.0.0.0 is not recorded; an old exact key hides a newer
zero-source one; a full map refuses without a trace; the uid shown is the gid
(`bpf.c:57` shifts by 32). A pid that was shown once stays when the port is used
again. For all of these the fallback is what makes `OpenFlowsIdentified` hold.

It does not help the IPv4 flow of a dual-stack socket, such as an IPv4 client of a
`[::]` listener: `/proc/net/tcp6` has it under `::ffff:a.b.c.d` addresses
(`process.rs:199`), and the relaxed keys try 0.0.0.0 but neither those nor `[::]`
(`platform/mod.rs:210`). Only the eBPF map can identify it, and for an accepted
connection the map has the listener's key without a peer; so it stays without a
process while it is open, and `OpenFlowsIdentified` is not stated of it. The other
properties of the two modules are. Two programs that ping one host share a
connection, which shows the process of whichever was looked up first
(`ShownServed` says no more than that it pinged this host).

### DnsResolver

A caller is one step (`RequestResolution`: cache check, `send`). A resolver
thread goes `loop`, `recv`, `mark`, `lookup`; `Receive` takes an address and
checks the cache, `MarkPending` and `LookupAddr` insert. The check and the
insertion are apart, so two threads may look up one address at a time. The
cleanup thread visits key by key (`RetainVisit`), reads the length
(`CountEntries`), collects (`CollectEntries`), reads it again (`CountExcess`) and
removes by name what was oldest when it was collected (`EvictOldest`). A failed
and a found name are both settled; names are not told apart.

What it shows besides its properties: the race above repeats look-ups, which the
module's header excludes (`dns.rs:3`, "avoid repeated lookups"); a look-up of more
than 30 s loses its pending entry, is started again, and an older answer may
overwrite a newer one; the "LRU cache" evicts by resolution time, not by use; the
channel is unbounded.

### TcpAnalytics, CryptoReassembler, QuicMerge, PacketMerge

`PacketMerge` is `merge_packet_into_connection` for one entry, which is a TCP or
a QUIC connection (`protocol`). `TcpAnalytics` counts positions of a stream
without a bound; a segment's sequence number is its position modulo `Modulus`.
`Captured`, `Missed`, `Hold` and `Release` are what happens between the wire and
the counters: seen and applied, missed by the capture, or left in another
processor's batch while later segments are applied. The first packet creates the
entry and is not analyzed, as in the code.

`QuicMerge` reads a datagram of coalesced packets (`DatagramResults`) and merges
it (`MergeQuicInfo`). Only Initial packets can be read; a CRYPTO fragment holds
the positions of its bytes, so a byte out of place shows. The reassembler walks
its `BTreeMap` in the order of the offsets (`InOrder`); its state is `[buffer,
cached]`. The results of a datagram are built packet by packet by the recursive
function `Coalesced`, up to `MaxCoalesced`. An empty CRYPTO frame is not added
(`quic.rs:863`), and the reassembler relies on that: an empty fragment overlaps
none and would replace the one stored under its offset. The search for the server name
(`try_extract_tls_from_reassembler`, `try_reconstruct_sni_from_fragments`) goes
over bytes in several ways; what it leaves in `tls` is one of `none`, `alpn`
(information without a name), `partial` (a name marked as cut), `wrong` (not the
name, for instance its beginning cut at a fragment's end, but not marked) and
`complete`. The parser accepts the name as a whole once the stream is contiguous
up to its end and to at least 100 bytes (`HelloLen`, `quic.rs:1065`), if
`is_valid_hostname` accepts it at all (`NameAccepted`: a name without a dot is
refused). Before that, or when it is refused, the search may yield any of the
five, `complete` only if the name is accepted (`Extracted`). A `wrong` or
`complete` result is cached in the reassembler and ends the search
(`merge.rs:613`). Packets are well formed: the client's frames parse to the end.

What they show besides their properties:

- an orderly download counts fast retransmits, because data segments that carry
  the same acknowledgement count as duplicates (`merge.rs:142`; RFC 2581, which
  the comment names, and `USAGE.md:622` mean acknowledgements without data);
- an outbound gap never moves the expected number (`merge.rs:97`), so later
  retransmissions beyond it are not counted; after a wrap with a gap one late
  segment makes the following ones count too, which is why `CountsReal` speaks of
  streams without gaps there;
- an overlapping CRYPTO fragment is dropped whole, so a hole may never be filled;
- when coalesced packets are merged, the close and the reassembler of a later
  packet are dropped, and its state is kept (`quic.rs:249-320`);
- an application close without an error is Draining in the packet (`quic.rs:992`)
  and Closed after the merge (`merge.rs:741`), and a later transport close takes
  a Closed connection back to Draining, although `merge.rs:14` says that states
  only progress forward; the timeout stays within ten seconds (`ClosedLeavesSoon`);
- a marked cut name may be replaced by information without a name (`merge.rs:630`);
- a name cut at a fragment's end that happens to look like a host name is not
  marked, is cached as complete and is never corrected, although `quic.rs:2258`
  means to "only accept complete valid hostnames": `NameSettles` says that the name
  settles, and on the right one unless such a name came first;
- `idle_timeout` is never set by the parser, so the timeout of a connected flow
  is always three minutes, whatever was negotiated.

## 3. What the runs check

Each run is one question. Properties are stated, with their reason, in the
`...Props` modules.

| Run | Configuration | Instance | Properties |
|---|---|---|---|
| table_limit | `ConnTable_limit.cfg` | 2 processors, 3 keys, limit 1, pool of 1, 3 connections | `TypeOK`, `TableBounded`, `OneHome`, `HistoricBounded` |
| table_quic | `ConnTable_quic.cfg` | 2 processors, 2 keys, 2 connection IDs, mapping of 1 | `MappingBacked` |
| table_archive | `ConnTable_archive.cfg` | 1 processor, 2 keys, 4 connections, pool of 1 | `EvictsOldestFirst`, `ImplementsLifecycle`, `ExpiredEventuallyRemoved` |
| view_safety | `SnapshotView_safety.cfg` | 2 keys (one hidden by the loopback filter), rows leave the screen before they expire | `SteadyShown`, `LinesMatchRemovals` |
| view_live | `SnapshotView_live.cfg` | 1 key, 2 connections, which expire and move to the pool while they are active | `KnownShown`, `ClearedRowsLeave` |
| tcp_track | `TcpTracker_track.cfg` | either side opens, 1 data segment, nothing inspected in it, 1 loss, 1 repetition, window 2 | `TrackerTypeOK`, `DirectionTruthful`, `CloseIsReal`, `FollowsActiveOpen`, `PhaseMonotone`, `ActiveOpenKept` |
| pipeline_flow | `CapturePipeline_flow.cfg` | 4 packets, batches of 2, channel of 2, 2 processors | `PipelineTypeOK`, `OnePlace`, `OrderKept`, `DrainedBeforeExit`, `CountersAgree`, `EveryPacketSettled`, `StopEndsThreads` |
| process_owner | `ProcessLookup_owner.cfg` | any 2 of 8 sockets of two processes (one pair of pings with one connection, a dual-stack client and an IPv4 client of a `[::]` listener among them), a map of 2, one tracked flow at a time | `SocketTypeOK`, `TcpAnswerIsOwner`, `AnswersAreUsers`, `CalledIsFound`, `ShownServed`, `OpenFlowsIdentified` |
| dns_resolver | `DnsResolver.cfg` | 2 threads, 2 addresses, a cache of 1, a queue of 2 | `DnsTypeOK`, `PendingHasWorker`, `CacheWithinMax`, `RequestsAnswered`, `ResolverEnds` |
| packet_merge | `PacketMerge.cfg` | 5 TCP segments of 1 or 2 positions over a wrap at 8; or a CRYPTO stream of 4 bytes, a buffer of 3, 2 frames in a packet, 2 packets in a datagram, any number of datagrams | `CountsReal`, `ContiguousIsPrefix`, `ClosedLeavesSoon`, `NameSettles` |

and two runs in which the code does not do what the repository says:

| Run | Property | Where the text and the code part |
|---|---|---|
| tcp_passive | `EstablishedKept` | `USAGE.md:822` gives an idle established connection five minutes. One that the remote side opened stays in SYN_RECV, because the rule expects an outgoing ACK (`merge.rs:39`), and goes after one minute. |
| process_clock | `OnlyStaleMarked` | `maps_libbpf.rs:223` removes "stale entries from the map based on timestamp". The timestamps count from the boot, the clock they are compared with from 1970 (`maps_libbpf.rs:227`, `:254`): every entry visited is removed. |

More things became clear while modelling and have no run of their own:

- a QUIC packet redirected to a mapped key whose entry is gone creates an entry
  under that key with its own addresses; a later packet of the same path makes a
  second entry with the same `key()`, which `types.rs:1890` calls unique;
- a connection archived between the iteration of the table and that of the pool
  is in a snapshot twice, which `ARCHITECTURE.md:98` calls consistent;
- a connection that the cleanup thread holds in `to_archive` while a pass reads
  the pool is in neither and missing from one snapshot (`KnownShown` names the
  exception, `missed`);
- a reset between the packets of a batch and their `fetch_add` leaves
  `packets_processed` too high for good, by at most a batch for each processor
  (`CountersAgree`);
- `stop` writes a line for every row of the snapshot, not for those "that haven't
  been cleaned up yet" (`app.rs:1949`), and runs twice, from `main.rs:412` and from
  `Drop`; it writes none for connections that are tracked but not in the snapshot,
  which is filtered and up to a refresh old;
- `MAX_PACKET_QUEUE` (`app.rs:147`) limits batches, not packets;
- the table may exceed `MAX_CONNECTIONS` (`app.rs:151`) by one entry for each
  processor but one; `TableBounded` is the bound that does hold;
- a build with overflow checks panics in the cleanup thread when a clear falls
  between the two reads of the pool's length (`app.rs:1673`); in a release build
  the same subtraction wraps and the pass empties what it collected;
- `clear_all_connections` does not stop a cleanup pass from archiving afterwards
  what it removed before (`USAGE.md:886` says that the pool is cleared);
- when the capture cannot be opened the processors wait for a link type for ever
  and never look at `should_stop`, although `App::stop` is documented to stop all
  threads; only the end of the process ends them. libpcap's count overwrites the
  number of refused batches in `packets_dropped` (`app.rs:845`).

### Bounds

Bounds are constants, named in the modules, and enforced in guards or given by
the sets in a configuration:

- *Processors*: two. The races are between the check and the insertion of
  different processors; the table may overshoot by |Procs| - 1, and 2 is the
  first value where this is not 0. The theorem covers any number.
- *Keys, connection IDs, connections* (`MaxCreated`): two or three keys against
  a limit of one make the table full, overshoot and drain; four connections
  against a pool of one give evictions with a choice, and re-created connections
  on one key. Two IDs against a mapping of one make the mapping overflow and be
  emptied. `MaxCreated` makes the system stop in the end, and `stop` does
  anyway, hence `CHECK_DEADLOCK FALSE`.
- *Limits of one or two* where the code has 50,000, 10,000 and 5,000: the
  boundary is crossed in a few steps. Nothing in the code depends on the values.
- *Ages*: `Timeouts` and `ActiveAge` are one or two ticks; what matters is
  whether a connection leaves the screen before it expires (300 s against up to
  1800 s in the code), as in `view_safety`, or is removed while it is active (60 s
  for UDP), as in `view_live`, where it has to be found in the pool.
- *Segments*: one loss, one repetition and one free data segment on top of the
  handshake and the close; a lag of two captured segments and a window of two
  give every swap of neighbours, at each point of the connection's life.
- *Packets*: four packets in batches of two fill a channel of two and, sent
  early by the deadline, overfill it.
- *Sockets*: fourteen descriptions in `process_clock`, eight in `process_owner`.
  They differ in what makes a difference to a key (IPv4, IPv6 and dual-stack, three
  protocols, client or listener, connected or by name, bound or not) and share
  ports and peers, so that each pair is a reuse of a port or a confusion of two
  sockets. Two are open in a behaviour and one flow is tracked at a time, in any
  order. IPv6 clients and datagrams are in `process_clock` only, and ages are
  followed only there; in `process_owner` IPv6 is present through the listener and
  the dual-stack clients. The theorems are about sockets of every kind.
- *Addresses of the resolver*: two against a cache of one make it evict, two
  threads race for one address; lifetimes of one tick let an entry expire at any
  point of a look-up. The queue is bounded by two in the guard of the request.
- *Sequence numbers*: eight, starting at five, so that five segments of one or
  two positions cross the wrap, begin or end on the number zero, and give the
  four acknowledgements of a fast retransmit. A repetition starts at most two
  positions back, one segment is held at a time. Random behaviours of nine
  segments were simulated as well.
- *CRYPTO stream*: four bytes give ten fragments, with holes, overlaps of every
  kind, and a buffer limit below the stream; the name ends within the buffer. A
  packet with a close has one CRYPTO frame at most. The number of datagrams is
  not bounded. `NameAccepted` is TRUE in the run; the proof covers both values.

Section 4 frees the invariants, the action properties and the refinement of the
passing runs from these bounds; the liveness properties depend on them.

`view_safety` compares states without `known`, `missed` and `clearedUpTo` (the VIEW
`SafetyView`): its two invariants do not read them, and no step depends on them.

Symmetry is used for keys, processors and connection IDs in the two safety runs
`table_limit` and `table_quic`, where these sets are interchangeable, never with
liveness.

### Fairness

- `WF(Cleanup)`: the cleanup thread is a loop of a bounded pass and a sleep of
  five seconds, with no wait for anything but short locks.
- `WF(Snapshotter)`: likewise with the refresh interval, until the process exits.
- `WF(Capture)`: `next_packet` returns with a packet, an error, or nothing after
  the read timeout of the capture handle; and `try_send` never blocks.
- `WF(Processor(p))`: `recv_timeout` returns after 100 ms at the latest.
- `WF(DeadlinePasses)`: time passes.
- `WF(Enrichment)`, `SF(Refresh)`: the enrichment thread is a loop of a bounded
  pass and a sleep; a refresh is due at the top of the loop when five seconds have
  passed, which happens again and again, though not at each turn. That asks for
  strong fairness.
- `WF(Resolver(t))`, `WF(Cleanup)` of the resolver: `recv_timeout` and the cleanup's
  sleep are bounded, and `lookup_addr` returns by the system resolver's timeout.

No fairness is assumed of the network, the user, or the arrival of packets, and
none that makes a capture start.

## 4. What is proved

Every invariant, every action property and the refinement that the passing
runs check are proved. The theorems hold for all values of the constants, under
the named assumptions of the modules: finite sets of processors and keys, limits
that are natural numbers, and the values that stand for "none" being none of the
things they are told apart from (`NoConnAssumption`, `NoneAssumption`). TLC
evaluates these assumptions in every run. Two theorems have a hypothesis of their
own, given with them below.

Each argument has the same shape: an invariant that is inductive, with one lemma
for each kind of step that can disturb one of its parts.

### The connection table (`ConnTableProofs`)

| Theorem | Statement | Argument |
|---|---|---|
| `TypeCorrect` | `Spec => []TypeOK` | `TypeOK` is inductive; it contains what a cleanup pass leaves behind (nothing) because eviction relies on it. |
| `TableIsBounded` | `Spec => []TableBounded` | The bound on `Tracked` alone is not inductive: a processor that passed the check will insert whatever happens before. `TableInv` bounds `Committed`, the tracked keys together with the keys of the processors between check and insertion. When a processor passes the check, fewer than `MaxConnections` keys are tracked and the other processors contribute at most `Cardinality(Procs) - 1` (`LimitCheckPassed`, `PendingOfOthers`); inserting moves a key from pending to tracked; everything else only shrinks the set (`NothingNew`). |
| `ConnectionsHaveOneHome` | `Spec => []OneHome` | A new connection must be new everywhere, so `HomeInv` adds to `OneHome` that every identity in the table, on its way to the pool and in the pool was given out before (`IdsGivenOut`). Three lemmas treat the steps that move a connection (`UpsertKeepsHome`, `RemovalKeepsHome`, `ArchivalKeepsHome`); all others only let connections leave (`LeavingKeepsHome`). |
| `HistoricIsBounded` | `Spec => []HistoricBounded` | The excess is computed from one reading of the length and taken from a list collected before. `HistoricInv` says what connects them: between the collection and the eviction the pool is still the list, or a clear has emptied it. `RestSize` counts what is left. |
| `OldestEvictedFirst` | `Spec => EvictsOldestFirst` | By the same invariant what is sorted is what is in the pool, so the first of the list are the oldest of the pool. |
| `MappingBackedUnlessRefused` | `Spec /\ [][NoRefusal]_vars => []MappingBacked` | A packet that is refused because the table is full leaves the mapping it has inserted (`app.rs:2035`), so the statement is about behaviours without a refusal. `BackedKeys` are the keys tracked, in the hands of a processor, or removed by the pass in progress; a step either takes no key from them (`BackedKept`) or is part of a clear, or removes the mappings too. |
| `MappingIsBacked` | `Cardinality(Keys) <= MaxConnections` gives `Spec => []MappingBacked` | A table that holds all keys but the one at hand is below its limit, so nothing is refused. This is the case of the run `table_quic`, and shows that a refusal is the only cause. |
| `TableImplementsLifecycle` | `Spec => ImplementsLifecycle` | The refinement mapping reads the stage of a connection from where it is (`StageMap`); with `HomeInv` it is in one place, and `StageOf` computes the map after each step from the three sets it depends on. |

### The snapshot and the sidecar (`SnapshotViewProofs`)

| Theorem | Statement | Argument |
|---|---|---|
| `LinesAreRemovals` | `ViewSpec => []LinesMatchRemovals` | One line for whatever was removed, before it reaches the pool; none for what is tracked; and on top of that at most two for each call of `stop` so far, one for each kind of row. `LinesInv` adds that a connection not created yet has none but those. The rows of one connection are at most two (`RowsOfOne`), and the closure's line is written for a tracked one, which has none yet (`RemovalKeepsLines`). |
| `SteadyAreShown` | `ViewSpec => []SteadyShown` | `SteadyInv` follows the iteration: a steady connection's key is still to be visited or its row has been collected. A connection keeps its key while tracked (`KeyIsKept`), which needs `HomeInv`. |
| `KnownAreShown` | `ViewSpec => []KnownShown` | `KnownInv`: a known connection has been collected, is still before the pass in the table, or has left the table (`Gone`). It does not come back (`GoneStaysGone`), and the pool is read last: what is gone then is in the pool, or in `to_archive` and so in `missed`. |

### TCP tracking (`TcpTrackerProofs`)

| Theorem | Statement | Argument |
|---|---|---|
| `TcpPhaseMonotone` | `Spec => PhaseMonotone` | Every rule leads to a later or the same phase (`RulesForward`), hence `update_tcp_state` does (`UpdateForward`), and the entry is typed. Nothing is used of the endpoints, so this holds for segments of any kind in any order. |
| `TrackerTyped` | `Spec => []TrackerTypeOK` | From `TruthInv` below. |
| `DirectionIsTruthful` | `Spec => []DirectionTruthful` | `EndpointInv` says what a segment tells of its sender (`Uttered`: who opens, who has sent a FIN, whether there was a reset), and holds of every segment on the wire and captured, however old. An entry in UNKNOWN was made by a SYN+ACK (`DirectionKnown`). |
| `CloseIsAlwaysReal` | `Spec => []CloseIsReal` | `TruthInv` puts both together; the transition table, as a function (`Goal`), shows which FINs each state has seen. |
| `ActiveOpenFollowed` | `Spec => []FollowsActiveOpen` | `FollowInv`: there is a history of the local endpoint, one state for each captured segment not applied yet, in which each segment explains one move (`Explains`), from a state the entry agrees with to the present one. A capture lengthens it, an application shortens it. It needs of the endpoints that nothing but the handshake is under way before the SYN+ACK (`HandshakeFirst`), and that who closed first stays on that side (`ActiveStaysActive`). |
| `ActiveOpenStays` | `Spec => ActiveOpenKept` | By `FollowInv` the entry is in ESTABLISHED when the endpoint is, and its timeout is that of the established state. |

### The capture pipeline (`CapturePipelineProofs`)

| Theorem | Statement | Argument |
|---|---|---|
| `PipelineTypeCorrect` | `Spec => []PipelineTypeOK` | Inductive; batches are sent only when they hold a packet. |
| `PacketsInOnePlace` | `Spec => []OnePlace` | With the type invariant `OnePlace` is inductive. `OnePlaceWith` states it for the packets the capture thread has at hand in the middle of a step, which is what `TrySend` starts from; `AppendQueued` and `TailQueued` say what the channel holds after a send and a receive. |
| `CaptureOrderKept` | `Spec => []OrderKept` | `OrderWith`, in the same way: the batches of the channel, then the batch being filled, ascend. |
| `CountersAreRight` | `Spec => []CountersAgree` | What is applied and not counted is apart from one processor to the next and part of what is finished (`AppliedApart`), so applying a packet (`ApplyCounted`) and counting a batch (`BatchCounted`) both keep the balance, and a reset moves it into `cleared` and `straddling`. `straddling` is bounded by a batch for each processor (`UncountedBounded`). The counter of drops is bounded by what was refused and what the kernel dropped (`DropsCounted`), not equal, since `stats` overwrites it. |
| `ProcessorsDrain` | `Spec => []DrainedBeforeExit` | Once the capture thread has ended the channel only shrinks (`ChannelClosed`); before `should_stop` a processor ends only through `Disconnected`. |

### The socket tracker and the enrichment (`SocketTrackerProofs`)

| Theorem | Statement | Argument |
|---|---|---|
| `EnrichmentUsesTracker` | `Spec => TrackerSpec` | Every step of the enrichment thread is a step of the tracker or leaves its state alone, because it asks only about flows of sockets that were opened (`TrackedAreUsed`) and one at a time. What is proved of the tracker by itself (`TrackerSafe`) so holds in the composition. |
| `EnrichmentTypes` | `Spec => []SocketTypeOK` | Inductive; the keys in the hands of iterator and cleanup are keys of the map since only the cleanup removes. |
| `AnswersAboutUsers` | `Spec => []AnswersAreUsers` | `EntriesHaveUsers`, part of `TrackerInv`: each entry of the map was written by a socket whose hooks can build that key (the mapped addresses of a dual-stack socket are those of no flow, `Key4Value`); an answer comes from a key that the exact or the zero-source attempt builds, and only users of the flow write those. |
| `OwnersOnly` | `Spec => []TcpAnswerIsOwner` | `TcpEntriesCurrent`: the entry under the exact key of an open client is its own, because `tcp_connect` overwrites and two open sockets do not share a four-tuple (`NoConflicts`); no TCP hook writes a zero-source key with its peer. |
| `CalledFound` | `Spec => []CalledIsFound` | `CalledNoted`: the keys of a socket whose hook has fired are in the map or were dropped, by the full map or by a cleanup; one of the two attempts builds each IPv4 key. |
| `ShownAreServed` | `NoMirroredFlows => (Spec => []ShownServed)` | `ThreadInv` follows a pid on its way: in the cache (`CacheServed`), among the descriptors of a scan (`InodesUsed`), in the answer under way (`AnswerServed`), in the row. The hypothesis is needed: a look-up turns the words of an IPv6 address round and the hooks do not, so an IPv6 socket whose addresses are another's with the bytes of each word reversed is mistaken for it. A row is followed by its connection (`ConnOf`), which a change of the echo identifier keeps (`OneConnection`). TLC finds `ShownServed` violated by such a pair; the sockets of the run are none. |

### The resolver (`DnsResolverProofs`)

| Theorem | Statement | Argument |
|---|---|---|
| `ResolverTyped` | `Spec => []DnsTypeOK` | Inductive. |
| `PendingIsWorkedOn` | `Spec => []PendingHasWorker` | Inductive with the types: a thread leaves `lookup` by replacing the entry of its address. |
| `CacheBounded` | `Spec => []CacheWithinMax` | `SizeInv` follows a pass: how many collected keys are beyond the maximum, and how many of them it has still to remove; keys that come in meanwhile are in `added`. |

### What packets add (`CryptoReassemblerProofs`, `PacketMergeProofs`)

| Theorem | Statement | Argument |
|---|---|---|
| `PrefixIsContiguous` | `Spec => []ContiguousIsPrefix` | `BufferOK`: the fragments are disjoint, the offset is the first byte none of them covers, the count is the number of bytes covered. The walks over the fragments are recursive functions along the order of the map, which exists because the fragments are finitely many with different offsets (`InOrder`); what they compute is shown by an induction over their indices (`Upwards`), stated for a set of indices because the provers cannot instantiate one for a formula. `FragmentsOK` and `FramesOK` carry it through merged reassemblers and packets. |
| `ClosedLeaves` | `Spec => []ClosedLeavesSoon` | `InfoOK` of what is stored and `ResultOK` of what a packet yields: a close is never forgotten by a merge, and a state that is left leads to no timeout above ten seconds. A datagram is treated by a least counterexample over its packets (`LeastElement`). |
| `NameIsSettled` | `Spec => NameSettles` | The same invariant, which says of the stored information that the name is shown, or another that passed for whole, as soon as the reassembled stream reaches it (`HelloRead`), by whichever packets, and that a cached result is never lost by a merge. Holds for both values of `NameAccepted`. |
| `CountersAreReal` | `Spec => []CountsReal` | `TcpInv` compares the analyzer with the traffic. While no stream has wrapped, an expected number is at most the end of its stream (`Reached`), so each count is paid for by a repetition, with one in hand where a repetition has pushed the expected number beyond data still held (`OutboundPaid`, `InboundPaid`), and the counts are the repetitions when nothing was missed or overtaken (`Exact`). While a stream is orderly the expected number is its end, across the wrap (`Followed`), which rests on lemmas about remainders. Duplicate acknowledgements are paid for by acknowledgements: each fast retransmit costs four (`AcksPaid`). |

Only model-checked: liveness (`ExpiredEventuallyRemoved`, `ClearedRowsLeave`,
`EveryPacketSettled`, `StopEndsThreads`, `OpenFlowsIdentified`, `RequestsAnswered`,
`ResolverEnds`), which needs ENABLED and so is out of the prover's reach, and the
two runs that end in a violation.

## 5. What is not modelled

- The parsers (packets, link layers, DPI, QUIC headers and decryption): pure
  functions of bytes whose result is the input of the modules here. There is no
  state and no order in them, and modelling them byte by byte would repeat them.
- The merging of HTTP, TLS, DNS, SSH and other DPI fields: each field is filled
  once, the first value wins.
- The rate tracker and the traffic history: floating point. The RTT tracker: one
  insertion and one removal under a mutex; what it yields is a duration.
- Interface statistics, GeoIP, service, OUI and bogon tables; user interface,
  filter, start-up, sandbox, device selection; the process look-ups of the other
  operating systems: rendering, calls of the system, or read-only tables.
- The kernel type declarations `resources/ebpf/vmlinux/*/vmlinux.h` are generated
  and hold most of the repository's lines; nothing in them is executed.
- In `ConnTable`: a panic in `update_connection` (only the parser runs under
  `catch_unwind`), poisoned locks, and a clock that goes back.
- In `SnapshotView`: reverse DNS and service names, sorting, the JSON log.
- In `TcpTracker`: simultaneous open, a second connection on the same ports
  while the first is still tracked, other flags than SYN, ACK, FIN and RST (the
  code ignores them), and payload other than what sets the timeout class.
- In `QuicMerge`: version, connection ID and packet type (shown, never read back),
  and malformed frames. In `TcpAnalytics`: the window size and the sums over all
  connections.
- In `DnsResolver`: what a name is. In `ProcessLookup`: names, uids, and sockets
  shared by several processes.
- In `CapturePipeline`: the choice of the device, the pcap export file, and
  what libpcap's buffer does.

## 6. What is left

The modules planned are written and their safety properties are proved. Worth
doing next, in this order:

1. What the liveness properties rest on and is safety: that each wait of a thread
   ends in a state where one of its steps can be taken, as invariants.
2. `TcpTracker` and `PacketMerge` as the content of the entries of `ConnTable`, so
   that an entry that is removed and created again in the middle of a connection
   is part of one model. Today `Cleanup` of `TcpTracker` stands for it.
3. The RTT tracker (a SYN that is repeated, or answered after its entry was
   dropped), with the deadline as an age.
4. The process look-ups of the other systems, as far as they keep a cache.

## 7. Hazards

The hazards the properties are aimed at, with the line where each bites, are in
`PROJECT.json`. The important ones in a few words: the limit check that is not
atomic with the insertion; keys and mappings used after their lock is released;
connections between the table and the pool while a third thread looks; a clear
that is seven separate steps; a shutdown that runs twice; a TCP machine that
must guess from a one-sided, possibly reordered view; batches that wait,
overflow, or are dropped with their thread; a key built by the kernel at one
moment and by user space at another; a socket that is closed, and its port used
again, between two scans; a marker "in progress" that must never be orphaned;
numbers that wrap; information that a repeated search may replace by less; a counter that
is reset between an event and its count; an address with two forms.

## 8. Running

    tlc -workers 2 -config ConnTable_limit.cfg MCConnTable
    tlapm ConnTableProofs.tla

The passing runs take between ten seconds and about three and a half minutes on two
cores; the violation runs stop with a counterexample.
