------------------------------ MODULE MCStorer ------------------------------
(***************************************************************************)
(* The reserve, the cache and the upload and pin stores for TLC.  A        *)
(* behaviour is of one of them, chosen by focus, while the others rest in  *)
(* their initial state: what they share is the reference counts of the     *)
(* chunk store, and each module has the counts its own operations make.    *)
(***************************************************************************)
EXTENDS Reserve, Cache, Uploads, TLC

CONSTANTS a1, a2, a3, b1, b2, s1, s2, r1

VARIABLE focus

Chunk(a, b, i, t) == [addr |-> a, batch |-> b, idx |-> i, ts |-> t]

\* a capacity that is soon exceeded, and an address that comes twice with one batch
QuietReserve ==
    [chunks |-> {Chunk(a1, b1, 1, 1), Chunk(a1, b1, 2, 3), Chunk(a2, b2, 1, 2),
                 Chunk(a3, b2, 2, 1)},
     bin |-> (a1 :> 0) @@ (a2 :> 0) @@ (a3 :> 1), capacity |-> 1, radius |-> 0, subBin |-> 2,
     fails |-> 0, crashes |-> 0, expiries |-> 0]

\* stamps of two batches that collide over the same addresses, a rollback and a crash
Colliding == [QuietReserve EXCEPT !.chunks = {Chunk(a1, b1, 1, 1), Chunk(a2, b1, 1, 2),
                                              Chunk(a1, b2, 1, 1), Chunk(a2, b2, 1, 2)},
                                  !.capacity = 3, !.fails = 1, !.crashes = 1]

\* two batches of which one expires
Expiring == [QuietReserve EXCEPT !.chunks = {Chunk(a1, b1, 1, 1), Chunk(a2, b2, 1, 2)},
                                 !.capacity = 3, !.expiries = 1]

\* a batch that expires over a crash and a failed eviction
Interrupted == [QuietReserve EXCEPT !.chunks = {Chunk(a1, b1, 1, 1)}, !.capacity = 3,
                                    !.expiries = 1, !.crashes = 1, !.fails = 1]

\* a subscriber of the bin that two batches fill
Subscribed == [QuietReserve EXCEPT !.chunks = {Chunk(a1, b1, 1, 1), Chunk(a2, b2, 1, 2)},
                                   !.capacity = 3, !.subBin = 0]

SafeReserve == {QuietReserve, Colliding, Expiring, Interrupted}
LiveReserve == {[QuietReserve EXCEPT !.chunks = {Chunk(a1, b1, 1, 1), Chunk(a1, b1, 2, 3),
                                                 Chunk(a2, b2, 1, 2)}],
                [Interrupted EXCEPT !.fails = 0], [Interrupted EXCEPT !.crashes = 0], Subscribed}

Lookups == [capacity |-> 1, ticks |-> 5, reserve |-> {}, fails |-> 1, restarts |-> 1]
Copies == [capacity |-> 1, ticks |-> 3, reserve |-> {a1, a2}, fails |-> 1, restarts |-> 1]
AllCache == {Lookups, Copies}
LiveCache == {[Lookups EXCEPT !.ticks = 4], [Copies EXCEPT !.ticks = 2], [Copies EXCEPT !.fails = 0]}

Session(t, r, cs) == [tag |-> t, root |-> r, chunks |-> cs]

\* two uploads that have a chunk in common
TwoUploads == [plan |-> (s1 :> Session(1, NoRoot, {a1, a2})) @@ (s2 :> Session(2, NoRoot, {a1})),
               fails |-> 1, crashes |-> 1, deletes |-> FALSE]

\* an upload and a collection with one root
UploadAndPin == [TwoUploads EXCEPT !.plan = (s1 :> Session(1, r1, {a1})) @@
                                            (s2 :> Session(0, r1, {a1}))]

\* two collections with one root
TwoPins == [TwoUploads EXCEPT !.plan = (s1 :> Session(0, r1, {a1})) @@
                                       (s2 :> Session(0, r1, {a1, a2})), !.fails = 0]

\* two uploads with one tag, which may be deleted
OneTag == [TwoUploads EXCEPT !.plan = (s1 :> Session(1, NoRoot, {a1})) @@
                                      (s2 :> Session(1, NoRoot, {a1})),
                             !.fails = 0, !.crashes = 0, !.deletes = TRUE]

SafeUploads == {TwoUploads, UploadAndPin, TwoPins, OneTag}

\* two uploads of one chunk
LiveUploads == {[TwoUploads EXCEPT !.plan = (s1 :> Session(1, NoRoot, {a1})) @@
                                            (s2 :> Session(2, NoRoot, {a1}))]}

ReserveOnly == {Subscribed}

MCInit ==
    /\ ReserveInit /\ CacheInit /\ UploadInit
    /\ focus \in {"reserve", "cache", "uploads"}
    \* the resting components have one initial state
    /\ focus # "reserve" => rsc = CHOOSE x \in ReserveScenarios : TRUE
    /\ focus # "cache" => csc = CHOOSE x \in CacheScenarios : TRUE
    /\ focus # "uploads" => usc = CHOOSE x \in UploadScenarios : TRUE

MCNext ==
    \/ focus = "reserve" /\ ReserveNext /\ UNCHANGED <<cacheVars, uploadVars, focus>>
    \/ focus = "cache" /\ CacheNext /\ UNCHANGED <<reserveVars, uploadVars, focus>>
    \/ focus = "uploads" /\ UploadNext /\ UNCHANGED <<reserveVars, cacheVars, focus>>

MCSpec == MCInit /\ [][MCNext]_<<reserveVars, cacheVars, uploadVars, focus>>

\* The types of the three components.
StorerTypeOK == ReserveTypeOK /\ CacheTypeOK /\ UploadTypeOK

\* What the upload and pin stores keep agrees, and sessions and collections are whole or gone.
UploadsSound == UploadsConsistent /\ SessionsKept /\ PinsKept

\* What leaves reserve and cache may leave: newer stamps replace older ones, evictions take
\* chunks outside the radius, removals the oldest entries (Put, EvictBatchBin, RemoveOldest).
RemovalsRight ==
    [][StampMonotonic /\ EvictedOutside /\ OldestGo]_<<reserveVars, cacheVars>>

\* Reserve and cache agree with their indexes, sizes and reference counts.
StoresConsistent == StorerTypeOK /\ ReserveConsistent /\ CacheConsistent
=============================================================================
