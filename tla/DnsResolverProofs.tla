-------------------------- MODULE DnsResolverProofs --------------------------
(***************************************************************************)
(* Proofs about the DNS resolver.                                          *)
(*                                                                         *)
(* PendingHasWorker is inductive with the types: the step that ends a      *)
(* thread's lookup also replaces the entry of its address.  The bound of   *)
(* the cache needs SizeInv: the entries not added lately are among those   *)
(* collected, so that each eviction takes one of them, and there are at    *)
(* most to_remove of them too many.                                        *)
(***************************************************************************)
EXTENDS DnsResolverProps, FiniteSetTheorems, TLAPS

\* The entries that were there when a pass last counted or collected.
Old == Cached \ added

\* What a phase of the cleanup has in hand is empty in the other phases.
CleanupPhases ==
    /\ cpc # "retain" => unvisited = {}
    /\ cpc \notin {"excess", "evict"} => DOMAIN entries = {}

SizeInv ==
    /\ cpc \in {"asleep", "retain"} => Cardinality(Old) <= max_cache_size
    /\ cpc \in {"collect", "excess"} => Cardinality(Cached) > max_cache_size
    /\ cpc \in {"excess", "evict"} => Old \subseteq DOMAIN entries /\ DOMAIN entries \cap added = {}
    /\ cpc = "evict" => Cardinality(Old) <= max_cache_size + to_remove

DnsInv == DnsTypeOK /\ CleanupPhases /\ PendingHasWorker /\ SizeInv

-----------------------------------------------------------------------------
(* Sizes *)

\* The cache is finite, and a smaller part of it has no more entries.
LEMMA SmallerPart ==
    ASSUME DnsTypeOK, NEW S, NEW T, S \subseteq T, T \subseteq Cached
    PROVE  /\ IsFiniteSet(S) /\ IsFiniteSet(T)
           /\ Cardinality(S) \in Nat /\ Cardinality(T) \in Nat
           /\ Cardinality(S) <= Cardinality(T)
<1>1. T \subseteq Addrs
  BY DEF DnsTypeOK
<1>2. IsFiniteSet(T) /\ IsFiniteSet(S)
  BY <1>1, AddrsAssumption, FS_Subset
<1> QED
  BY <1>2, FS_Subset, FS_CardinalityType

\* An insertion keeps every key, adds at most its own, and makes nothing old.
LEMMA InsertKeys ==
    ASSUME NEW a, NEW state, Insert(a, state)
    PROVE  /\ Cached' = Cached \cup {a}
           /\ cache'[a] = [state |-> state, age |-> 0]
           /\ \A b \in Cached \ {a} : cache'[b] = cache[b]
           /\ added' \subseteq added \cup {a}
           /\ Old' \subseteq Old
           /\ added' \subseteq added \/ (added' = added \cup {a} /\ a \notin Cached)
BY DEF Insert, Cached, Old

\* A step outside the cleanup that makes nothing old keeps the sizes as they are.
LEMMA SizeKept ==
    ASSUME DnsTypeOK, SizeInv, UNCHANGED <<cpc, entries, to_remove>>,
           Old' \subseteq Old, Cached \subseteq Cached', Cached' \subseteq Addrs,
           DOMAIN entries \cap added' = {}
    PROVE  SizeInv'
<1>1. IsFiniteSet(Cached') /\ Cardinality(Cached) <= Cardinality(Cached')
  BY AddrsAssumption, FS_Subset
<1>2. Cardinality(Cached) \in Nat /\ Cardinality(Cached') \in Nat
  BY <1>1, SmallerPart, FS_CardinalityType
<1>3. /\ Cardinality(Old') <= Cardinality(Old)
      /\ Cardinality(Old) \in Nat /\ Cardinality(Old') \in Nat
  BY SmallerPart DEF Old
<1>4. max_cache_size \in Nat /\ to_remove \in Nat
  BY LifetimesAssumption DEF DnsTypeOK
<1>5. (cpc \in {"asleep", "retain"} => Cardinality(Old) <= max_cache_size)'
  BY <1>3, <1>4 DEF SizeInv
<1>6. (cpc \in {"collect", "excess"} => Cardinality(Cached) > max_cache_size)'
  BY <1>1, <1>2, <1>4 DEF SizeInv
<1>7. (cpc \in {"excess", "evict"} => Old \subseteq DOMAIN entries /\ DOMAIN entries \cap added = {})'
  BY DEF SizeInv
<1>8. (cpc = "evict" => Cardinality(Old) <= max_cache_size + to_remove)'
  BY <1>3, <1>4 DEF SizeInv
<1> QED
  BY <1>5, <1>6, <1>7, <1>8 DEF SizeInv

-----------------------------------------------------------------------------
(* The steps of the threads and of the callers *)

\* A thread's insertion of an entry for the address it has in hand.
LEMMA InsertionTyped ==
    ASSUME DnsInv, NEW t \in Threads, ip[t] \in Addrs,
           NEW state \in {"pending", "resolved", "failed"}, Insert(ip[t], state),
           UNCHANGED <<cpc, entries, to_remove, unvisited>>
    PROVE  /\ Cached' \subseteq Addrs /\ \A a \in Cached' : cache'[a] \in Entry
           /\ added' \subseteq Addrs
           /\ unvisited' \subseteq Cached' /\ DOMAIN entries' \subseteq Cached'
           /\ CleanupPhases' /\ SizeInv'
<1> USE DEF DnsInv, DnsTypeOK
<1>1. /\ Cached' = Cached \cup {ip[t]}
      /\ cache'[ip[t]] = [state |-> state, age |-> 0]
      /\ \A b \in Cached \ {ip[t]} : cache'[b] = cache[b]
      /\ added' \subseteq added \cup {ip[t]}
      /\ Old' \subseteq Old
      /\ added' \subseteq added \/ (added' = added \cup {ip[t]} /\ ip[t] \notin Cached)
  BY InsertKeys
<1>2. [state |-> state, age |-> 0] \in Entry
  BY DEF Entry
<1>3. \A a \in Cached' : cache'[a] \in Entry
  BY <1>1, <1>2
<1>4. CleanupPhases'
  BY DEF CleanupPhases
<1>5. DOMAIN entries \cap added' = {}
  <2>1. DOMAIN entries \cap added = {}
    BY DEF CleanupPhases, SizeInv
  <2> QED
    BY <2>1, <1>1
<1>6. SizeInv'
  BY <1>1, <1>5, SizeKept
<1> QED
  BY <1>1, <1>3, <1>4, <1>6

\* A step that leaves the cache and the cleanup alone keeps their part of the invariant.
LEMMA CacheAlone ==
    ASSUME DnsInv, UNCHANGED <<cache, cleanupVars, added>>
    PROVE  /\ Cached' \subseteq Addrs /\ \A a \in Cached' : cache'[a] \in Entry
           /\ added' \subseteq Addrs
           /\ unvisited' \subseteq Cached' /\ DOMAIN entries' \subseteq Cached'
           /\ CleanupPhases' /\ SizeInv'
BY DEF DnsInv, DnsTypeOK, CleanupPhases, SizeInv, Cached, Old, cleanupVars

LEMMA ThreadStep ==
    ASSUME DnsInv, NEW t \in Threads, Resolver(t)
    PROVE  DnsInv'
<1> USE DEF DnsInv
<1>1. CASE Loop(t) \/ Receive(t) \/ RecvTimeout(t)
  <2>1. UNCHANGED <<cache, cleanupVars, added, should_stop>>
    BY <1>1 DEF Loop, Receive, RecvTimeout, Goto
  <2>2. requests' \in Seq(Addrs)
    BY <1>1 DEF Loop, Receive, RecvTimeout, DnsTypeOK
  <2>3. PICK next \in {"loop", "recv", "mark", "exited"}, a \in Addrs \cup {NoAddr} :
          /\ Goto(t, next, a) /\ (next = "mark" <=> a # NoAddr)
    <3>1. CASE Loop(t)
      BY <3>1, AddrsAssumption DEF Loop
    <3>2. CASE RecvTimeout(t)
      BY <3>2, AddrsAssumption DEF RecvTimeout
    <3>3. CASE Receive(t)
      <4>1. Head(requests) \in Addrs
        BY <3>3 DEF Receive, DnsTypeOK
      <4> QED
        BY <3>3, <4>1, AddrsAssumption DEF Receive
    <3> QED
      BY <1>1, <3>1, <3>2, <3>3
  <2>4. /\ pc' \in [Threads -> {"loop", "recv", "exited"} \cup Working]
        /\ ip' \in [Threads -> Addrs \cup {NoAddr}]
        /\ \A s \in Threads : pc'[s] \in Working <=> ip'[s] # NoAddr
    BY <2>3 DEF Goto, DnsTypeOK, Working
  <2>5. pc[t] # "lookup"
    BY <1>1 DEF Loop, Receive, RecvTimeout
  <2>6. PendingHasWorker'
    BY <2>1, <2>3, <2>5 DEF Goto, PendingHasWorker, Cached, DnsTypeOK
  <2>7. DnsTypeOK'
    BY <2>1, <2>2, <2>4, CacheAlone DEF DnsTypeOK, cleanupVars
  <2> QED
    BY <2>1, <2>6, <2>7, CacheAlone
<1>2. CASE MarkPending(t)
  <2>1. ip[t] \in Addrs
    BY <1>2 DEF MarkPending, DnsTypeOK, Working
  <2>2. Insert(ip[t], "pending") /\ UNCHANGED <<requests, should_stop, cleanupVars>>
    BY <1>2 DEF MarkPending, Goto
  <2>3. /\ pc' = [pc EXCEPT ![t] = "lookup"] /\ ip' = [ip EXCEPT ![t] = ip[t]]
    BY <1>2 DEF MarkPending, Goto
  <2>4. Cached' = Cached \cup {ip[t]} /\ \A b \in Cached \ {ip[t]} : cache'[b] = cache[b]
    BY <2>2, InsertKeys
  <2>5. /\ pc' \in [Threads -> {"loop", "recv", "exited"} \cup Working]
        /\ ip' \in [Threads -> Addrs \cup {NoAddr}]
        /\ \A s \in Threads : pc'[s] \in Working <=> ip'[s] # NoAddr
    BY <2>1, <2>3, <1>2, AddrsAssumption DEF MarkPending, DnsTypeOK, Working
  <2>6. PendingHasWorker'
    <3> SUFFICES ASSUME NEW a \in Cached', cache'[a].state = "pending"
                 PROVE  \E s \in Threads : pc'[s] = "lookup" /\ ip'[s] = a
      BY DEF PendingHasWorker
    <3>1. CASE a = ip[t]
      BY <3>1, <2>3, <2>5 DEF DnsTypeOK
    <3>2. CASE a # ip[t]
      <4>1. a \in Cached /\ cache[a].state = "pending"
        BY <3>2, <2>4
      <4>2. PICK s \in Threads : pc[s] = "lookup" /\ ip[s] = a
        BY <4>1 DEF PendingHasWorker
      <4> QED
        BY <4>2, <2>3, <3>2 DEF DnsTypeOK
    <3> QED
      BY <3>1, <3>2
  <2>7. DnsTypeOK'
    BY <2>1, <2>2, <2>5, InsertionTyped DEF DnsTypeOK, cleanupVars
  <2> QED
    BY <2>1, <2>2, <2>6, <2>7, InsertionTyped DEF cleanupVars
<1>3. CASE LookupAddr(t)
  <2>1. ip[t] \in Addrs
    BY <1>3 DEF LookupAddr, DnsTypeOK, Working
  <2>2. PICK result \in {"resolved", "failed"} : Insert(ip[t], result)
    BY <1>3 DEF LookupAddr
  <2>3. /\ pc' = [pc EXCEPT ![t] = "loop"] /\ ip' = [ip EXCEPT ![t] = NoAddr]
        /\ UNCHANGED <<requests, should_stop, cleanupVars>>
    BY <1>3 DEF LookupAddr, Goto
  <2>4. /\ Cached' = Cached \cup {ip[t]} /\ \A b \in Cached \ {ip[t]} : cache'[b] = cache[b]
        /\ cache'[ip[t]] = [state |-> result, age |-> 0]
    BY <2>2, InsertKeys
  <2>5. /\ pc' \in [Threads -> {"loop", "recv", "exited"} \cup Working]
        /\ ip' \in [Threads -> Addrs \cup {NoAddr}]
        /\ \A s \in Threads : pc'[s] \in Working <=> ip'[s] # NoAddr
    BY <2>3 DEF DnsTypeOK, Working
  <2>6. PendingHasWorker'
    <3> SUFFICES ASSUME NEW a \in Cached', cache'[a].state = "pending"
                 PROVE  \E s \in Threads : pc'[s] = "lookup" /\ ip'[s] = a
      BY DEF PendingHasWorker
    <3>1. a # ip[t]
      BY <2>4
    <3>2. a \in Cached /\ cache[a].state = "pending"
      BY <3>1, <2>4
    <3>3. PICK s \in Threads : pc[s] = "lookup" /\ ip[s] = a
      BY <3>2 DEF PendingHasWorker
    <3> QED
      BY <3>3, <3>1, <2>3 DEF DnsTypeOK
  <2>7. DnsTypeOK'
    BY <2>1, <2>2, <2>3, <2>5, InsertionTyped DEF DnsTypeOK, cleanupVars
  <2> QED
    BY <2>1, <2>2, <2>3, <2>6, <2>7, InsertionTyped DEF cleanupVars
<1> QED
  BY <1>1, <1>2, <1>3 DEF Resolver

LEMMA CallerStep ==
    ASSUME DnsInv, Stop \/ \E a \in Addrs : RequestResolution(a)
    PROVE  DnsInv'
<1> USE DEF DnsInv
<1>1. UNCHANGED <<cache, threadVars, cleanupVars, added>>
  BY DEF Stop, RequestResolution
<1>2. requests' \in Seq(Addrs) /\ should_stop' \in BOOLEAN
  <2>1. CASE Stop
    BY <2>1 DEF Stop, DnsTypeOK
  <2>2. CASE \E a \in Addrs : RequestResolution(a)
    <3>1. PICK a \in Addrs : RequestResolution(a)
      BY <2>2
    <3>2. requests' = Append(requests, a) /\ should_stop' = should_stop
      BY <3>1 DEF RequestResolution
    <3> QED
      BY <3>2 DEF DnsTypeOK
  <2> QED
    BY <2>1, <2>2
<1>3. PendingHasWorker'
  BY <1>1 DEF PendingHasWorker, Cached, threadVars
<1>4. DnsTypeOK'
  BY <1>1, <1>2, CacheAlone DEF DnsTypeOK, cleanupVars, threadVars
<1> QED
  BY <1>1, <1>3, <1>4, CacheAlone

LEMMA TickStep ==
    ASSUME DnsInv, Tick
    PROVE  DnsInv'
<1> USE DEF DnsInv
<1>1. /\ Cached' = Cached
      /\ \A a \in Cached : cache'[a] = [cache[a] EXCEPT !.age = IF @ < MaxAge THEN @ + 1 ELSE @]
      /\ UNCHANGED <<requests, threadVars, should_stop, cleanupVars, added>>
  BY DEF Tick, Cached
<1>2. \A a \in Cached : cache'[a] \in Entry /\ cache'[a].state = cache[a].state
  <2> SUFFICES ASSUME NEW a \in Cached
               PROVE  cache'[a] \in Entry /\ cache'[a].state = cache[a].state
    OBVIOUS
  <2> DEFINE older == IF cache[a].age < MaxAge THEN cache[a].age + 1 ELSE cache[a].age
  <2>1. cache[a] \in Entry
    BY DEF DnsTypeOK
  <2>2. older \in Nat
    BY <2>1 DEF Entry
  <2>3. cache'[a] = [cache[a] EXCEPT !.age = older]
    BY <1>1
  <2> HIDE DEF older
  <2> QED
    BY <2>1, <2>2, <2>3 DEF Entry
<1>3. Old' = Old
  BY <1>1 DEF Old
<1>4. DnsTypeOK'
  BY <1>1, <1>2 DEF DnsTypeOK, cleanupVars, threadVars
<1>5. PendingHasWorker'
  BY <1>1, <1>2 DEF PendingHasWorker, threadVars
<1>6. CleanupPhases' /\ SizeInv'
  BY <1>1, <1>3 DEF CleanupPhases, SizeInv, cleanupVars
<1> QED
  BY <1>4, <1>5, <1>6

-----------------------------------------------------------------------------
(* The steps of the cleanup thread *)

\* Removing an entry, or keeping the cache, leaves each pending entry with its worker.
LEMMA RemovalKeepsWorkers ==
    ASSUME PendingHasWorker, UNCHANGED threadVars,
           Cached' \subseteq Cached, \A a \in Cached' : cache'[a] = cache[a]
    PROVE  PendingHasWorker'
BY DEF PendingHasWorker, threadVars

LEMMA RetainStep ==
    ASSUME DnsInv, NEW a \in unvisited, RetainVisit(a)
    PROVE  DnsInv'
<1> USE DEF DnsInv
<1>1. /\ cpc = "retain" /\ cpc' = "retain" /\ unvisited' = unvisited \ {a}
      /\ UNCHANGED <<requests, threadVars, should_stop, entries, to_remove, added>>
  BY DEF RetainVisit, CleanupStep
<1>2. /\ Cached' = Cached \/ Cached' = Cached \ {a}
      /\ \A b \in Cached' : cache'[b] = cache[b]
  BY DEF RetainVisit, Without, Cached
<1>3. DnsTypeOK'
  BY <1>1, <1>2 DEF DnsTypeOK, CleanupPhases, threadVars
<1>4. PendingHasWorker'
  BY <1>1, <1>2, RemovalKeepsWorkers
<1>5. CleanupPhases'
  BY <1>1 DEF CleanupPhases
<1>6. SizeInv'
  <2>1. Old' \subseteq Old
    BY <1>1, <1>2 DEF Old
  <2>2. /\ Cardinality(Old') <= Cardinality(Old)
        /\ Cardinality(Old) \in Nat /\ Cardinality(Old') \in Nat
    BY <2>1, SmallerPart DEF Old
  <2>3. Cardinality(Old) <= max_cache_size
    BY <1>1 DEF SizeInv
  <2>4. Cardinality(Old') <= max_cache_size
    BY <2>2, <2>3, LifetimesAssumption
  <2> QED
    BY <1>1, <2>4 DEF SizeInv
<1> QED
  BY <1>3, <1>4, <1>5, <1>6

LEMMA EvictStep ==
    ASSUME DnsInv, NEW a \in DOMAIN entries, EvictOldest(a)
    PROVE  DnsInv'
<1> USE DEF DnsInv
<1>1. /\ cpc = "evict" /\ cpc' = "evict" /\ to_remove > 0 /\ to_remove' = to_remove - 1
      /\ Cached' = Cached \ {a} /\ \A b \in Cached' : cache'[b] = cache[b]
      /\ DOMAIN entries' = DOMAIN entries \ {a} /\ \A b \in DOMAIN entries' : entries'[b] = entries[b]
      /\ UNCHANGED <<requests, threadVars, should_stop, unvisited, added>>
  BY DEF EvictOldest, CleanupStep, Without, Cached
<1>2. unvisited = {}
  BY <1>1 DEF CleanupPhases
<1>3. to_remove \in Nat /\ to_remove' \in Nat /\ max_cache_size \in Nat
  BY <1>1, LifetimesAssumption DEF DnsTypeOK
<1>4. DnsTypeOK'
  BY <1>1, <1>2, <1>3 DEF DnsTypeOK, threadVars
<1>5. PendingHasWorker'
  BY <1>1, RemovalKeepsWorkers
<1>6. CleanupPhases'
  BY <1>1, <1>2 DEF CleanupPhases
<1>7. SizeInv'
  <2>1. a \in Cached /\ a \notin added /\ Old \subseteq DOMAIN entries
    BY <1>1 DEF SizeInv, DnsTypeOK
  <2>2. a \in Old /\ Old' = Old \ {a}
    BY <2>1, <1>1 DEF Old
  <2>3. IsFiniteSet(Old) /\ Cardinality(Old) \in Nat
    BY SmallerPart DEF Old
  <2>4. Cardinality(Old') = Cardinality(Old) - 1
    BY <2>2, <2>3, FS_RemoveElement
  <2>5. Cardinality(Old) <= max_cache_size + to_remove
    BY <1>1 DEF SizeInv
  <2>6. Cardinality(Old') <= max_cache_size + to_remove'
    BY <2>3, <2>4, <2>5, <1>1, <1>3
  <2>7. Old' \subseteq DOMAIN entries' /\ DOMAIN entries' \cap added' = {}
    BY <1>1, <2>1, <2>2 DEF SizeInv
  <2> QED
    BY <1>1, <2>6, <2>7 DEF SizeInv
<1> QED
  BY <1>4, <1>5, <1>6, <1>7

\* The steps of the cleanup that leave the cache as it is.
LEMMA CleanupBetween ==
    ASSUME DnsInv, Wake \/ CountEntries \/ CollectEntries \/ CountExcess \/ EvictEnd
    PROVE  DnsInv'
<1> USE DEF DnsInv
<1>1. UNCHANGED <<cache, requests, threadVars, should_stop>> /\ Cached' = Cached
  BY DEF Wake, CountEntries, CollectEntries, CountExcess, EvictEnd, CleanupStep, Cached
<1>2. PendingHasWorker'
  BY <1>1 DEF PendingHasWorker, threadVars
<1>3. /\ Cardinality(Cached) \in Nat /\ Cardinality(Old) \in Nat
      /\ Cardinality(Old) <= Cardinality(Cached) /\ max_cache_size \in Nat
  BY SmallerPart, LifetimesAssumption DEF Old
<1>4. CASE Wake
  <2>1. cpc = "asleep" /\ cpc' \in {"exited", "retain"} /\ Old' = Old /\ UNCHANGED <<entries, to_remove, added>>
    BY <1>1, <1>4 DEF Wake, CleanupStep, Old
  <2>2. unvisited' \subseteq Cached /\ (cpc' = "exited" => unvisited' = {})
    BY <1>4 DEF Wake, CleanupStep
  <2>3. DnsTypeOK' /\ CleanupPhases'
    BY <1>1, <2>1, <2>2 DEF DnsTypeOK, CleanupPhases, threadVars
  <2>4. SizeInv'
    BY <2>1 DEF SizeInv
  <2> QED
    BY <1>2, <2>3, <2>4
<1>5. CASE CountEntries
  <2>1. /\ cpc = "retain" /\ unvisited = {} /\ added' = {} /\ Old' = Cached
        /\ UNCHANGED <<unvisited, entries, to_remove>>
    BY <1>1, <1>5 DEF CountEntries, CleanupStep, Old
  <2>2. \/ cpc' = "collect" /\ Cardinality(Cached) > max_cache_size
        \/ cpc' = "asleep" /\ ~(Cardinality(Cached) > max_cache_size)
    BY <1>5 DEF CountEntries, CleanupStep, TooLarge
  <2>3. DnsTypeOK' /\ CleanupPhases'
    BY <1>1, <2>1, <2>2 DEF DnsTypeOK, CleanupPhases, threadVars
  <2>4. SizeInv'
    BY <1>1, <1>3, <2>1, <2>2 DEF SizeInv
  <2> QED
    BY <1>2, <2>3, <2>4
<1>6. CASE CollectEntries
  <2>1. /\ cpc = "collect" /\ cpc' = "excess" /\ added' = {} /\ Old' = Cached
        /\ UNCHANGED <<unvisited, to_remove>>
    BY <1>1, <1>6 DEF CollectEntries, CleanupStep, Old
  <2>2. DOMAIN entries' = Cached /\ \A a \in Cached : entries'[a] \in Nat
    BY <1>6 DEF CollectEntries, DnsTypeOK, Entry
  <2>3. DnsTypeOK' /\ CleanupPhases'
    BY <1>1, <2>1, <2>2 DEF DnsTypeOK, CleanupPhases, threadVars
  <2>4. SizeInv'
    BY <1>1, <2>1, <2>2 DEF SizeInv
  <2> QED
    BY <1>2, <2>3, <2>4
<1>7. CASE CountExcess
  <2>1. /\ cpc = "excess" /\ cpc' = "evict" /\ Old' = Old
        /\ UNCHANGED <<unvisited, entries, added>>
        /\ to_remove' = Cardinality(Cached) - max_cache_size
    BY <1>1, <1>7 DEF CountExcess, Excess, CleanupStep, Old
  <2>2. Cardinality(Cached) > max_cache_size
    BY <2>1 DEF SizeInv
  <2>3. to_remove' \in Nat /\ Cardinality(Old) <= max_cache_size + to_remove'
    BY <1>3, <2>1, <2>2
  <2>4. DnsTypeOK' /\ CleanupPhases'
    BY <1>1, <2>1, <2>3 DEF DnsTypeOK, CleanupPhases, threadVars
  <2>5. SizeInv'
    BY <2>1, <2>3 DEF SizeInv
  <2> QED
    BY <1>2, <2>4, <2>5
<1>8. CASE EvictEnd
  <2>1. /\ cpc = "evict" /\ cpc' = "asleep" /\ Old' = Old
        /\ DOMAIN entries' = {} /\ to_remove' = 0 /\ UNCHANGED <<unvisited, added>>
    BY <1>1, <1>8 DEF EvictEnd, CleanupStep, Old
  <2>2. Cardinality(Old) <= max_cache_size
    <3>1. CASE to_remove = 0
      BY <1>3, <2>1, <3>1 DEF SizeInv
    <3>2. CASE DOMAIN entries = {}
      <4>1. Old = {}
        BY <2>1, <3>2 DEF SizeInv
      <4> QED
        BY <4>1, <1>3, FS_EmptySet
    <3> QED
      BY <1>8, <3>1, <3>2 DEF EvictEnd, EvictionDone
  <2>3. DnsTypeOK' /\ CleanupPhases'
    BY <1>1, <2>1 DEF DnsTypeOK, CleanupPhases, threadVars
  <2>4. SizeInv'
    BY <2>1, <2>2 DEF SizeInv
  <2> QED
    BY <1>2, <2>3, <2>4
<1> QED
  BY <1>4, <1>5, <1>6, <1>7, <1>8

-----------------------------------------------------------------------------
(* The theorems *)

LEMMA DnsInitially == Init => DnsInv
<1> SUFFICES ASSUME Init PROVE DnsInv
  OBVIOUS
<1>1. Cached = {} /\ Old = {} /\ DOMAIN entries = {}
  BY DEF Init, Cached, Old
<1>2. /\ pc \in [Threads -> {"loop", "recv", "exited"} \cup Working]
      /\ ip \in [Threads -> Addrs \cup {NoAddr}]
      /\ \A t \in Threads : pc[t] \in Working <=> ip[t] # NoAddr
  BY DEF Init, Working
<1>3. requests \in Seq(Addrs)
  BY DEF Init
<1>4. DnsTypeOK
  BY <1>1, <1>2, <1>3 DEF Init, DnsTypeOK
<1>5. CleanupPhases /\ PendingHasWorker
  BY <1>1 DEF Init, CleanupPhases, PendingHasWorker
<1>6. SizeInv
  BY <1>1, FS_EmptySet, LifetimesAssumption DEF Init, SizeInv
<1> QED
  BY <1>4, <1>5, <1>6 DEF DnsInv

LEMMA DnsStep == DnsInv /\ [Next]_vars => DnsInv'
<1> SUFFICES ASSUME DnsInv, [Next]_vars PROVE DnsInv'
  OBVIOUS
<1>1. CASE Tick
  BY <1>1, TickStep
<1>2. CASE Stop \/ \E a \in Addrs : RequestResolution(a)
  BY <1>2, CallerStep
<1>3. CASE \E t \in Threads : Resolver(t)
  BY <1>3, ThreadStep
<1>4. CASE Cleanup
  <2>1. CASE \E a \in unvisited : RetainVisit(a)
    BY <2>1, RetainStep
  <2>2. CASE \E a \in DOMAIN entries : EvictOldest(a)
    BY <2>2, EvictStep
  <2> QED
    BY <1>4, <2>1, <2>2, CleanupBetween DEF Cleanup
<1>5. CASE UNCHANGED vars
  BY <1>5 DEF vars, cleanupVars, threadVars, DnsInv, DnsTypeOK, CleanupPhases, PendingHasWorker,
             SizeInv, Cached, Old
<1> QED
  BY <1>1, <1>2, <1>3, <1>4, <1>5 DEF Next

LEMMA DnsSafe == Spec => []DnsInv
BY DnsInitially, DnsStep, PTL DEF Spec

\* The resolver's variables keep their types (dns.rs 86-230), for any numbers of
\* addresses and threads, any lifetimes and any cache size.
THEOREM ResolverTyped == Spec => []DnsTypeOK
<1>1. DnsInv => DnsTypeOK
  BY DEF DnsInv
<1> QED
  BY <1>1, DnsSafe, PTL

\* No entry is left "in progress" without a thread that will complete it, however many
\* threads race for an address and whatever the cleanup removes meanwhile.
THEOREM PendingIsWorkedOn == Spec => []PendingHasWorker
<1>1. DnsInv => PendingHasWorker
  BY DEF DnsInv
<1> QED
  BY <1>1, DnsSafe, PTL

\* After a pass of the cleanup the cache holds max_cache_size entries at most, besides
\* those the threads have added since.
THEOREM CacheBounded == Spec => []CacheWithinMax
<1>1. DnsInv => CacheWithinMax
  BY DEF DnsInv, SizeInv, CacheWithinMax, Old
<1> QED
  BY <1>1, DnsSafe, PTL
=============================================================================
