----------------------------- MODULE DnsResolver -----------------------------
(***************************************************************************)
(* The background DNS resolver of dns.rs: callers of get_hostname put an   *)
(* address that the cache does not answer into an unbounded channel, a few *)
(* threads take addresses from it, mark them pending and look them up, and *)
(* a cleanup thread drops expired entries and, when the cache is too       *)
(* large, the oldest.  The cache is a DashMap: every access is a step of   *)
(* its own, and nothing is locked between two of them.                     *)
(*                                                                         *)
(* What a lookup finds is left open (a name or an error), names are not    *)
(* told apart.  Ages count ticks since an entry's resolved_at.             *)
(***************************************************************************)
EXTENDS Naturals, Sequences, FiniteSets

CONSTANTS
    Addrs,           \* the addresses asked for
    SkippedAddrs,    \* those of them that are loopback or link-local
    Threads,         \* the resolver threads
    cache_ttl, negative_cache_ttl, pending_timeout,  \* lifetimes, in ticks
    max_cache_size,
    MaxAge,          \* bound: older entries are not told apart
    MaxQueue,        \* bound: requests waiting at a time
    NoAddr           \* the absence of an address

ASSUME AddrsAssumption == IsFiniteSet(Addrs) /\ NoAddr \notin Addrs
\* A lifetime of 0 would expire an entry at once.
ASSUME LifetimesAssumption ==
    {cache_ttl, negative_cache_ttl, pending_timeout} \subseteq Nat \ {0} /\ max_cache_size \in Nat
ASSUME DnsBoundsAssumption == MaxAge \in Nat /\ MaxQueue \in Nat

VARIABLES
    cache,           \* address -> [state, age]
    requests,        \* the channel
    pc, ip,          \* a resolver thread -> where it is, and the address it has received
    should_stop,
    cpc,             \* the cleanup thread: asleep, retain, collect, excess, evict, exited
    unvisited,       \* retain: the keys it has still to visit
    entries,         \* the keys collected for eviction, with their ages then
    to_remove,       \* how many of them are still to go
    added            \* history: keys added to the cache since a pass last counted or collected it

cleanupVars == <<cpc, unvisited, entries, to_remove>>
threadVars == <<pc, ip>>
vars == <<cache, requests, threadVars, should_stop, cleanupVars, added>>

Cached == DOMAIN cache

\* age < the lifetime of an entry in its state, where a pending one has `pending`.
Fresh(e, pending) ==
    e.age < CASE e.state = "resolved" -> cache_ttl
              [] e.state = "failed" -> negative_cache_ttl
              [] e.state = "pending" -> pending

\* The entry saves a request: it is pending, however old, or not yet expired.
Answers(a) == a \in Cached /\ (cache[a].state = "pending" \/ Fresh(cache[a], 0))

Insert(a, state) ==
    /\ cache' = [b \in Cached \cup {a} |-> IF b = a THEN [state |-> state, age |-> 0] ELSE cache[b]]
    /\ added' = IF a \in Cached THEN added ELSE added \cup {a}

Without(a) == [b \in Cached \ {a} |-> cache[b]]

-----------------------------------------------------------------------------
(* The callers: get_hostname, which also reads the cache for its answer *)

\* (A caller may be held up between its check and the send; the address then waits
\* there instead of in the channel.)
RequestResolution(a) ==
    /\ a \notin SkippedAddrs /\ ~Answers(a)
    /\ Len(requests) < MaxQueue
    /\ requests' = Append(requests, a)
    /\ UNCHANGED <<cache, threadVars, should_stop, cleanupVars, added>>

\* From App's end, by Drop of the resolver.
Stop ==
    /\ ~should_stop
    /\ should_stop' = TRUE
    /\ UNCHANGED <<cache, requests, threadVars, cleanupVars, added>>

-----------------------------------------------------------------------------
(* A resolver thread *)

Goto(t, next, a) ==
    /\ pc' = [pc EXCEPT ![t] = next]
    /\ ip' = [ip EXCEPT ![t] = a]
    /\ UNCHANGED <<should_stop, cleanupVars>>

Loop(t) ==
    /\ pc[t] = "loop"
    /\ Goto(t, IF should_stop THEN "exited" ELSE "recv", NoAddr)
    /\ UNCHANGED <<cache, requests, added>>

(* Mutant: a thread that finds the channel empty ends. *)
EndWhenIdle(t) ==
    /\ pc[t] = "recv" /\ requests = <<>>
    /\ Goto(t, "exited", NoAddr)
    /\ UNCHANGED <<cache, requests, added>>

(* Mutant: an address the cache answers stays in hand. *)
ReceiveAndKeep(t) ==
    /\ pc[t] = "recv" /\ requests # <<>>
    /\ requests' = Tail(requests)
    /\ Goto(t, IF Answers(Head(requests)) THEN "loop" ELSE "mark", Head(requests))
    /\ UNCHANGED <<cache, added>>

\* recv_timeout and the look into the cache in one step: what another thread does in
\* between could as well come before the receive.
Receive(t) ==
    /\ pc[t] = "recv" /\ requests # <<>>
    /\ requests' = Tail(requests)
    /\ IF Answers(Head(requests)) THEN Goto(t, "loop", NoAddr) ELSE Goto(t, "mark", Head(requests))
    /\ UNCHANGED <<cache, added>>

\* (Disconnected, after the resolver was dropped, only ends the loop a round earlier.)
RecvTimeout(t) ==
    /\ pc[t] = "recv" /\ requests = <<>>
    /\ Goto(t, "loop", NoAddr)
    /\ UNCHANGED <<cache, requests, added>>

MarkPending(t) ==
    /\ pc[t] = "mark"
    /\ Insert(ip[t], "pending")
    /\ Goto(t, "lookup", ip[t])
    /\ UNCHANGED requests

(* Mutant: a failed lookup leaves the entry as it is. *)
LookupForgetsFailure(t) ==
    /\ pc[t] = "lookup"
    /\ Insert(ip[t], "resolved") \/ UNCHANGED <<cache, added>>
    /\ Goto(t, "loop", NoAddr)
    /\ UNCHANGED requests

LookupAddr(t) ==
    /\ pc[t] = "lookup"
    /\ \E result \in {"resolved", "failed"} : Insert(ip[t], result)
    /\ Goto(t, "loop", NoAddr)
    /\ UNCHANGED requests

-----------------------------------------------------------------------------
(* The cleanup thread *)

CleanupStep(next) ==
    /\ cpc' = next
    /\ UNCHANGED <<requests, threadVars, should_stop>>

(* Mutant: the cleanup thread does not look at the flag after its sleep. *)
WakeAnyway ==
    /\ cpc = "asleep"
    /\ unvisited' = Cached
    /\ CleanupStep("retain")
    /\ UNCHANGED <<cache, entries, to_remove, added>>

\* thirty seconds later
Wake ==
    /\ cpc = "asleep"
    /\ unvisited' = IF should_stop THEN {} ELSE Cached
    /\ CleanupStep(IF should_stop THEN "exited" ELSE "retain")
    /\ UNCHANGED <<cache, entries, to_remove, added>>

RetainVisit(a) ==
    /\ cpc = "retain" /\ a \in unvisited
    /\ cache' = IF Fresh(cache[a], pending_timeout) THEN cache ELSE Without(a)
    /\ unvisited' = unvisited \ {a}
    /\ CleanupStep("retain")
    /\ UNCHANGED <<entries, to_remove, added>>

TooLarge == Cardinality(Cached) > max_cache_size

CountEntries ==
    /\ cpc = "retain" /\ unvisited = {}
    /\ added' = {}
    /\ CleanupStep(IF TooLarge THEN "collect" ELSE "asleep")
    /\ UNCHANGED <<cache, unvisited, entries, to_remove>>

CollectEntries ==
    /\ cpc = "collect"
    /\ entries' = [a \in Cached |-> cache[a].age]
    /\ added' = {}
    /\ CleanupStep("excess")
    /\ UNCHANGED <<cache, unvisited, to_remove>>

(* Mutant: one entry too few is evicted. *)
ExcessShort == Cardinality(Cached) - max_cache_size - 1

\* len is read again: the cache may have grown, it has not shrunk.
Excess == Cardinality(Cached) - max_cache_size

CountExcess ==
    /\ cpc = "excess"
    /\ to_remove' = Excess
    /\ CleanupStep("evict")
    /\ UNCHANGED <<cache, unvisited, entries, added>>

Oldest(a) == \A b \in DOMAIN entries : entries[b] <= entries[a]

\* The entry goes by its key, whatever has become of it since it was collected.
EvictOldest(a) ==
    /\ cpc = "evict" /\ to_remove > 0 /\ a \in DOMAIN entries /\ Oldest(a)
    /\ cache' = Without(a)
    /\ entries' = [b \in DOMAIN entries \ {a} |-> entries[b]]
    /\ to_remove' = to_remove - 1
    /\ CleanupStep("evict")
    /\ UNCHANGED <<unvisited, added>>

EvictionDone == to_remove = 0 \/ DOMAIN entries = {}

EvictEnd ==
    /\ cpc = "evict" /\ EvictionDone
    /\ entries' = [a \in {} |-> 0] /\ to_remove' = 0
    /\ CleanupStep("asleep")
    /\ UNCHANGED <<cache, unvisited, added>>

-----------------------------------------------------------------------------
Tick ==
    /\ cache' = [a \in Cached |-> [cache[a] EXCEPT !.age = IF @ < MaxAge THEN @ + 1 ELSE @]]
    /\ UNCHANGED <<requests, threadVars, should_stop, cleanupVars, added>>

Init ==
    /\ cache = [a \in {} |-> [state |-> "pending", age |-> 0]]
    /\ requests = <<>>
    /\ pc = [t \in Threads |-> "loop"] /\ ip = [t \in Threads |-> NoAddr]
    /\ should_stop = FALSE
    /\ cpc = "asleep" /\ unvisited = {} /\ added = {}
    /\ entries = [a \in {} |-> 0] /\ to_remove = 0

Resolver(t) ==
    \/ Loop(t) \/ Receive(t) \/ RecvTimeout(t)
    \/ MarkPending(t) \/ LookupAddr(t)

Cleanup ==
    \/ Wake \/ CountEntries \/ CollectEntries \/ CountExcess \/ EvictEnd
    \/ \E a \in unvisited : RetainVisit(a)
    \/ \E a \in DOMAIN entries : EvictOldest(a)

Next ==
    \/ Tick \/ Stop \/ Cleanup
    \/ \E a \in Addrs : RequestResolution(a)
    \/ \E t \in Threads : Resolver(t)

\* lookup_addr returns in the end (the system's resolver has a timeout), the
\* channel's and the cleanup's waits are bounded.
Fairness ==
    /\ \A t \in Threads : WF_vars(Resolver(t))
    /\ WF_vars(Cleanup)

Spec == Init /\ [][Next]_vars
LiveSpec == Spec /\ Fairness
=============================================================================
