------------------------------- MODULE Cache -------------------------------
(***************************************************************************)
(* The cache of the local store: chunks that are worth keeping although    *)
(* they are not (or no longer) part of the reserve, dropped in the order   *)
(* of their last access when there are more than the capacity.             *)
(*                                                                         *)
(* Put and Get run under the lock of the address and the shared side of    *)
(* glock, ShallowCopy and the removal under its exclusive side: each is    *)
(* one step.  The worker that removes the oldest entries lists them first, *)
(* without a lock.                                                         *)
(***************************************************************************)
EXTENDS Integers, FiniteSets, FiniteSetsExt, Functions

CONSTANTS CacheAddrs, CacheScenarios

VARIABLES
    entry,    \* cacheEntry: the time of the last access, 0 for none
    order,    \* cacheOrderIndex: pairs of a time and an address
    refs,     \* references of the chunk store
    held,     \* the addresses the reserve holds a reference of
    csize,    \* the size in memory
    clock,    \* now()
    shallow,  \* what an open transaction that has copied would undo
    worker,   \* cacheWorker
    over,     \* the signal cacheOverCapacity
    chist,    \* what has happened, for the properties
    csc       \* the scenario

cacheVars == <<entry, order, refs, held, csize, clock, shallow, worker, over, chist, csc>>

Cached == {a \in CacheAddrs : entry[a] # 0}

NoCopy == [open |-> FALSE, new |-> <<>>, refs |-> <<>>, raced |-> FALSE]
NoRemoval == [pc |-> "idle", items |-> {}]

CacheInit ==
    /\ csc \in CacheScenarios
    /\ entry = [a \in CacheAddrs |-> 0] /\ order = {}
    /\ refs = [a \in CacheAddrs |-> 0] /\ held = {}
    /\ csize = 0 /\ clock = 0
    /\ shallow = NoCopy /\ worker = NoRemoval /\ over = FALSE
    /\ chist = [touched |-> FALSE, undone |-> FALSE, fails |-> 0, restarts |-> 0]

\* triggerCacheEviction
Signal(n) == over \/ n > csc.capacity

\* now(), and the bound of the model on how often it is asked
Ticks(n) == clock + n <= csc.ticks /\ clock' = clock + n

\* the worker has listed entries and not yet removed them
Listed == {i[2] : i \in worker.items}

\* an operation on addresses whose records an open transaction would undo
Raced(addrs) ==
    [shallow EXCEPT !.raced = @ \/ addrs \cap (DOMAIN shallow.new \cup DOMAIN shallow.refs) # {}]

\* seeded fault: the reference of an address the cache knows is kept
DroppedNot(addrs) == refs

\* chunkstore.Delete, which ignores an address it does not know
Dropped(addrs) == [a \in CacheAddrs |-> IF a \in addrs /\ refs[a] > 0 THEN refs[a] - 1 ELSE refs[a]]

Fault == chist.fails < csc.fails

-----------------------------------------------------------------------------
(* Cache().Put and Lookup().Get                                             *)

CachePut(a) ==
    /\ entry[a] = 0 /\ Ticks(1)
    /\ entry' = [entry EXCEPT ![a] = clock + 1]
    /\ order' = order \cup {<<clock + 1, a>>}
    /\ refs' = [refs EXCEPT ![a] = @ + 1]
    /\ csize' = csize + 1
    /\ over' = Signal(csize + 1)
    /\ shallow' = Raced({a})
    /\ UNCHANGED <<held, worker, chist, csc>>

\* the access moves the entry to the end of the order
CacheGet(a) ==
    /\ refs[a] > 0 /\ entry[a] # 0 /\ Ticks(1)
    /\ entry' = [entry EXCEPT ![a] = clock + 1]
    /\ order' = (order \ {<<entry[a], a>>}) \cup {<<clock + 1, a>>}
    /\ shallow' = Raced({a})
    /\ chist' = [chist EXCEPT !.touched = @ \/ a \in Listed]
    /\ UNCHANGED <<refs, held, csize, worker, over, csc>>

-----------------------------------------------------------------------------
(* The reserve                                                              *)

ReserveTakes(a) ==
    /\ a \notin held /\ a \in csc.reserve
    /\ held' = held \cup {a}
    /\ refs' = [refs EXCEPT ![a] = @ + 1]
    /\ shallow' = Raced({a})
    /\ UNCHANGED <<entry, order, csize, clock, worker, over, chist, csc>>

\* ShallowCopy: addresses the cache knows lose a reference, as do those that do not fit;
\* "at" gives the others their times
ShallowCopies(addrs, at, open) ==
    LET new == addrs \ Cached
        fit == {a \in new : Cardinality({x \in new : at[x] > at[a]}) < csc.capacity}
    IN  /\ addrs # {} /\ addrs \subseteq held /\ ~shallow.open
        /\ Ticks(Cardinality(new))
        /\ at \in Injection(new, clock + 1 .. clock + Cardinality(new))
        /\ held' = held \ addrs
        /\ refs' = Dropped(addrs \ fit)
        /\ entry' = [a \in CacheAddrs |-> IF a \in fit THEN at[a] ELSE entry[a]]
        /\ order' = order \cup {<<at[a], a>> : a \in fit}
        /\ csize' = csize + Cardinality(fit)
        /\ over' = Signal(csize + Cardinality(fit))
        /\ shallow' = IF open THEN [open |-> TRUE, new |-> [a \in fit |-> at[a]],
                                    refs |-> [a \in addrs \ fit |-> refs[a]], raced |-> FALSE]
                      ELSE NoCopy
        /\ UNCHANGED <<worker, chist, csc>>

\* its batch cannot be written: the references are given up instead
ShallowFails(addrs) ==
    /\ Fault /\ addrs # {} /\ addrs \subseteq held /\ ~shallow.open
    /\ held' = held \ addrs
    /\ refs' = Dropped(addrs)
    /\ chist' = [chist EXCEPT !.fails = @ + 1]
    /\ UNCHANGED <<entry, order, csize, clock, shallow, worker, over, csc>>

\* the put of the reserve that replaced the chunk commits, or is rolled back
CopyCommits ==
    /\ shallow.open
    /\ shallow' = NoCopy
    /\ UNCHANGED <<entry, order, refs, held, csize, clock, worker, over, chist, csc>>

\* the records get their old values; the size is not taken back
Undo ==
    LET new == DOMAIN shallow.new
    IN  /\ entry' = [a \in CacheAddrs |-> IF a \in new THEN 0 ELSE entry[a]]
        /\ order' = order \ {<<shallow.new[a], a>> : a \in new}
        /\ refs' = [a \in CacheAddrs |->
                      IF a \in DOMAIN shallow.refs THEN shallow.refs[a] ELSE refs[a]]
        /\ held' = held \cup new \cup DOMAIN shallow.refs
        /\ shallow' = NoCopy

CopyUndone ==
    /\ shallow.open /\ Fault
    /\ Undo
    /\ chist' = [chist EXCEPT !.fails = @ + 1, !.undone = TRUE]
    /\ UNCHANGED <<csize, clock, worker, over, csc>>

-----------------------------------------------------------------------------
(* cacheWorker                                                              *)

\* seeded fault: from the other end
Newest(n) == {i \in order : Cardinality({j \in order : j[1] > i[1]}) < n}

\* the n oldest of the order
Oldest(n) == {i \in order : Cardinality({j \in order : j[1] < i[1]}) < n}

ListOldest ==
    /\ worker.pc = "idle" /\ over
    /\ over' = FALSE
    /\ worker' = IF csize <= csc.capacity THEN NoRemoval
                 ELSE [pc |-> "listed", items |-> Oldest(csize - csc.capacity)]
    /\ UNCHANGED <<entry, order, refs, held, csize, clock, shallow, chist, csc>>

\* entries are deleted by their address, the items of the order by what was listed
RemoveOldest ==
    LET n == csize - Cardinality(worker.items)
    IN  /\ worker.pc = "listed"
        /\ entry' = [a \in CacheAddrs |-> IF a \in Listed THEN 0 ELSE entry[a]]
        /\ order' = order \ worker.items
        /\ refs' = [a \in CacheAddrs |-> Max({0, refs[a] - Cardinality({i \in worker.items :
                                                                          i[2] = a})})]
        /\ csize' = n
        /\ over' = Signal(n)
        /\ worker' = NoRemoval
        /\ shallow' = Raced(Listed)
        /\ UNCHANGED <<held, clock, chist, csc>>

\* seeded fault: the worker waits for the next signal
RemoveFailsQuiet ==
    /\ worker.pc = "listed" /\ Fault
    /\ worker' = NoRemoval
    /\ chist' = [chist EXCEPT !.fails = @ + 1]
    /\ UNCHANGED <<entry, order, refs, held, csize, clock, shallow, over, csc>>

\* the transaction of the removal is rolled back
RemoveFails ==
    /\ worker.pc = "listed" /\ Fault
    /\ over' = Signal(csize)
    /\ worker' = NoRemoval
    /\ chist' = [chist EXCEPT !.fails = @ + 1]
    /\ UNCHANGED <<entry, order, refs, held, csize, clock, shallow, csc>>

\* the process stops and starts: New counts the entries
CacheRestart ==
    /\ chist.restarts < csc.restarts
    /\ IF shallow.open THEN Undo ELSE UNCHANGED <<entry, order, refs, held, shallow>>
    /\ csize' = Cardinality({a \in CacheAddrs : entry'[a] # 0})
    /\ over' = (csize' > csc.capacity)
    /\ worker' = NoRemoval
    /\ chist' = [chist EXCEPT !.restarts = @ + 1, !.undone = @ \/ shallow.raced]
    /\ UNCHANGED <<clock, csc>>

Reserves == \E addrs \in SUBSET csc.reserve :
    \/ \E open \in BOOLEAN :
          \E at \in Injection(addrs \ Cached, clock + 1 .. clock + Cardinality(addrs \ Cached)) :
              ShallowCopies(addrs, at, open)
    \/ ShallowFails(addrs)
Removes == ListOldest \/ RemoveOldest

CacheNext ==
    \/ \E a \in CacheAddrs : CachePut(a) \/ CacheGet(a) \/ ReserveTakes(a)
    \/ Reserves \/ CopyCommits \/ CopyUndone \/ Removes \/ RemoveFails \/ CacheRestart

\* the worker's goroutine goes on when it can
CacheFairness == WF_cacheVars(Removes)

-----------------------------------------------------------------------------
(* Properties                                                               *)

\* Every variable of the cache keeps its type; the size never gets negative, which Size
\* would turn into a huge unsigned number.
CacheTypeOK ==
    /\ entry \in [CacheAddrs -> 0 .. csc.ticks]
    /\ order \subseteq (1 .. csc.ticks) \X CacheAddrs
    /\ refs \in [CacheAddrs -> Nat] /\ held \subseteq CacheAddrs
    /\ csize \in Nat /\ clock \in 0 .. csc.ticks
    /\ worker.pc \in {"idle", "listed"} /\ over \in BOOLEAN

\* what the operations cannot be expected to keep: an entry was accessed between the listing
\* and the removal, or a copy was rolled back
Disturbed == chist.touched \/ chist.undone

\* Entries and the order of their accesses correspond one to one: nothing is in the order
\* twice, nothing can never be removed.
OrderAgrees == ~Disturbed => order = {<<entry[a], a>> : a \in Cached}

\* The size is the number of entries.
CacheSizeExact == ~Disturbed => csize = Cardinality(Cached)

\* The cache holds one reference of each of its chunks and never gives up one of the
\* reserve's.
CacheRefsExact ==
    ~Disturbed => \A a \in CacheAddrs : refs[a] = (IF a \in Cached THEN 1 ELSE 0)
                                                   + (IF a \in held THEN 1 ELSE 0)

\* A removal takes the entries whose last access is oldest, also when entries are added
\* between the listing and the removal.
OldestGo ==
    \A a, b \in CacheAddrs :
       RemoveOldest /\ ~Disturbed /\ a \in Cached /\ b \in Cached
          /\ entry'[a] = 0 /\ entry'[b] # 0 => entry[a] < entry[b]

\* The cache gets back to its capacity again and again, whatever was added while its worker
\* was at work, also after a failed removal and after a restart.
CacheWithinCapacity == []<>(csize <= csc.capacity)

\* What the cache keeps in several places - entries, order, size, references - agrees after
\* Putter, Getter, ShallowCopy and RemoveOldest, until the cache is disturbed.
CacheConsistent == OrderAgrees /\ CacheSizeExact /\ CacheRefsExact
=============================================================================
