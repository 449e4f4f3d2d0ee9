--------------------------- MODULE DnsResolverProps ---------------------------
(***************************************************************************)
(* What the DNS resolver promises to its callers, and its cache's bounds.  *)
(***************************************************************************)
EXTENDS DnsResolver

Entry == [state : {"pending", "resolved", "failed"}, age : Nat]
Working == {"mark", "lookup"}

\* The types; a thread has an address in hand exactly while it works on one, and
\* what the cleanup has in hand is in the cache (only the cleanup removes).
DnsTypeOK ==
    /\ Cached \subseteq Addrs /\ \A a \in Cached : cache[a] \in Entry
    /\ requests \in Seq(Addrs)
    /\ pc \in [Threads -> {"loop", "recv", "exited"} \cup Working]
    /\ ip \in [Threads -> Addrs \cup {NoAddr}]
    /\ \A t \in Threads : pc[t] \in Working <=> ip[t] # NoAddr
    /\ should_stop \in BOOLEAN
    /\ cpc \in {"asleep", "retain", "collect", "excess", "evict", "exited"}
    /\ unvisited \subseteq Cached /\ DOMAIN entries \subseteq Cached
    /\ \A a \in DOMAIN entries : entries[a] \in Nat
    /\ to_remove \in Nat /\ added \subseteq Addrs

\* An entry that says "in progress" has a thread that will replace it: requests are
\* refused on the strength of it, so an orphan would keep its address without a name.
\* Threads race for one address, expired and evicted entries go under their feet, and
\* stop comes in between; still a pending entry is never left behind.
PendingHasWorker ==
    \A a \in Cached : cache[a].state = "pending" => \E t \in Threads : pc[t] = "lookup" /\ ip[t] = a

\* Between two passes of the cleanup the cache holds at most max_cache_size entries
\* besides those added since the last pass counted or collected them, though len is read twice
\* while the threads insert and keys are removed by name long after they were sorted.
CacheWithinMax ==
    cpc \in {"asleep", "retain"} => Cardinality(Cached \ added) <= max_cache_size

Waiting(a) == a \in {requests[i] : i \in DOMAIN requests}
Settled(a) == a \in Cached /\ cache[a].state # "pending"

\* A request that is in the channel gets an answer, a name or a failure, whoever else
\* asks for the address and whatever expires or is evicted, unless the resolver is
\* stopped: no thread skips it because of an entry nobody completes.
RequestsAnswered == \A a \in Addrs : Waiting(a) ~> (Settled(a) \/ should_stop)

\* Stop ends all threads, and then no entry claims to be in progress.
ResolverEnds ==
    should_stop ~> /\ \A t \in Threads : pc[t] = "exited"
                   /\ cpc = "exited"
                   /\ \A a \in Cached : cache[a].state # "pending"
=============================================================================
