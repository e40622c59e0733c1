----------------------------- MODULE StateStore -----------------------------
(***************************************************************************)
(* The node's state store: LevelDB behind a cache of the entries used last *)
(* (storage/cache), read and written through StateStorerAdapter.  Clients  *)
(* run at the same time; a call is two steps, one of the cache and one of  *)
(* the database, in the order of the code.  A key is <<class, n>>, which   *)
(* stands for a key that begins with the name of its class.                *)
(***************************************************************************)
EXTENDS Integers, Sequences, FiniteSets, SequencesExt, TLC

CONSTANTS
    StateClients,   \* the callers
    StateScripts,   \* [disk, nukes, calls]: for each client a sequence of calls [op, key, val]
    CacheCapacity   \* the entries the cache holds

VARIABLES
    stSc,           \* the script of this behaviour
    disk,           \* the database: a function from keys to values
    lru,            \* the cache: a sequence of [key, val], the one used last at the end
    call,           \* for each client: [pc, todo, got]: what it does, is to do, and last got
    expect          \* history: what each key should hold, by the calls that have returned

stateVars == <<stSc, disk, lru, call, expect>>

NotThere == 0    \* values are positive

\* the entries Nuke keeps
Preserved == {"non-mineable-overlay", "overlayV2_nonce", "pseudosettle", "accounting", "swap"}

-----------------------------------------------------------------------------
\* The cache.

Without(k) == SelectSeq(lru, LAMBDA e : e.key # k)
InCache(k) == \E n \in DOMAIN lru : lru[n].key = k
CachedVal(k) == (CHOOSE e \in Range(lru) : e.key = k).val

\* lru.Add: the oldest entry leaves when there are too many
LruAdd(k, v) ==
    LET all == Append(Without(k), [key |-> k, val |-> v])
    IN  IF Len(all) > CacheCapacity THEN Tail(all) ELSE all

\* lru.Get: the entry becomes the one used last
LruTouch(k) == Append(Without(k), [key |-> k, val |-> CachedVal(k)])

Holds(k) == IF k \in DOMAIN disk THEN disk[k] ELSE NotThere

-----------------------------------------------------------------------------
\* The calls.

Op(c) == Head(call[c].todo)
Working(c, op, pc) == call[c].todo # <<>> /\ call[c].pc = pc /\ Op(c).op = op
To(c, pc) == call' = [call EXCEPT ![c].pc = pc]
Return(c, result) ==
    call' = [call EXCEPT ![c] = [pc |-> "idle", todo |-> Tail(@.todo), got |-> result]]

\* Cache.Get: of the cache, else of the database, whose entry is then added
GetHit(c) ==
    /\ Working(c, "get", "idle")
    /\ InCache(Op(c).key)
    /\ lru' = LruTouch(Op(c).key)
    /\ Return(c, CachedVal(Op(c).key))
    /\ UNCHANGED <<disk, expect>>

GetMiss(c) ==
    /\ Working(c, "get", "idle")
    /\ ~InCache(Op(c).key)
    /\ IF Holds(Op(c).key) = NotThere THEN Return(c, NotThere)
       ELSE call' = [call EXCEPT ![c].pc = "add", ![c].got = Holds(Op(c).key)]
    /\ UNCHANGED <<disk, lru, expect>>

GetAdd(c) ==
    /\ Working(c, "get", "add")
    /\ lru' = LruAdd(Op(c).key, call[c].got)
    /\ Return(c, call[c].got)
    /\ UNCHANGED <<disk, expect>>

\* Cache.Put: into the cache, then into the database
PutAdd(c) ==
    /\ Working(c, "put", "idle")
    /\ lru' = LruAdd(Op(c).key, Op(c).val)
    /\ To(c, "write")
    /\ UNCHANGED <<disk, expect>>

PutWrite(c) ==
    /\ Working(c, "put", "write")
    /\ disk' = (Op(c).key :> Op(c).val) @@ disk
    /\ expect' = (Op(c).key :> Op(c).val) @@ expect
    /\ Return(c, NotThere)
    /\ UNCHANGED lru

\* Cache.Delete: out of the cache, then out of the database
RemoveNothing(k) == lru
Removed(k) == Without(k)

DeleteRemove(c) ==
    /\ Working(c, "delete", "idle")
    /\ lru' = Removed(Op(c).key)
    /\ To(c, "write")
    /\ UNCHANGED <<disk, expect>>

DeleteWrite(c) ==
    /\ Working(c, "delete", "write")
    /\ disk' = [k \in DOMAIN disk \ {Op(c).key} |-> disk[k]]
    /\ expect' = [k \in DOMAIN expect \ {Op(c).key} |-> expect[k]]
    /\ Return(c, NotThere)
    /\ UNCHANGED lru

\* Iterate goes to the database and not through the cache: the keys of a prefix
IterateKeys(c) ==
    /\ Working(c, "iterate", "idle")
    /\ Return(c, Cardinality({k \in DOMAIN disk : k[1] = Op(c).key[1]}))
    /\ UNCHANGED <<disk, lru, expect>>

\* Nuke: the keys are collected, then deleted one by one
Nuke(c) ==
    LET keys == SetToSeq({k \in DOMAIN disk : k[1] \notin Preserved})
    IN  /\ Working(c, "nuke", "idle")
        /\ call' = [call EXCEPT ![c].todo =
                      [n \in DOMAIN keys |-> [op |-> "delete", key |-> keys[n], val |-> 0]]
                        \o Tail(@)]
        /\ UNCHANGED <<disk, lru, expect>>

StateInit ==
    /\ stSc \in StateScripts
    /\ disk = stSc.disk
    /\ expect = stSc.disk
    /\ lru = <<>>
    /\ call = [c \in StateClients |-> [pc |-> "idle", todo |-> stSc.calls[c], got |-> NotThere]]

StateCall(c) ==
    GetHit(c) \/ GetMiss(c) \/ GetAdd(c) \/ PutAdd(c) \/ PutWrite(c) \/ DeleteRemove(c)
      \/ DeleteWrite(c) \/ IterateKeys(c) \/ Nuke(c)

StateNext == (\E c \in StateClients : StateCall(c)) /\ UNCHANGED stSc

-----------------------------------------------------------------------------
\* the keys a call under way is about
Busy == {Op(c).key : c \in {d \in StateClients : call[d].pc # "idle"}}

\* A cached entry is what the database holds for its key, and both are what the calls that
\* have returned left there, whenever no call on the key is under way (Cache.Get, Put and
\* Delete).  The clients of one key take turns, as accounting and the settlements do under
\* the lock of a peer; nothing in the cache itself makes them.
CacheCoherent ==
    /\ \A k \in {e.key : e \in Range(lru)} \ Busy : CachedVal(k) = Holds(k)
    /\ \A k \in (DOMAIN disk \cup DOMAIN expect) \ Busy :
           k \in DOMAIN expect /\ Holds(k) = expect[k]
    /\ Len(lru) <= CacheCapacity
    /\ (\A c \in StateClients : call[c].todo = <<>>) /\ stSc.nukes =>
           {k \in DOMAIN disk : k[1] \notin Preserved} = {}
============================================================================
