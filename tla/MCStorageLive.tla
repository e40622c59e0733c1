--------------------------- MODULE MCStorageLive ---------------------------
(***************************************************************************)
(* What the local storage does eventually: the reserve, the cache and the  *)
(* uploads of MCStorer, and sharky beside them.  As in MCStorer a          *)
(* behaviour is of one component, chosen by focus.                         *)
(***************************************************************************)
EXTENDS MCStorer, Sharky

storerVars == <<reserveVars, cacheVars, uploadVars>>

StorageInit ==
    /\ ReserveInit /\ CacheInit /\ UploadInit /\ SharkyInit
    /\ focus \in {"reserve", "cache", "uploads", "sharky"}
    /\ focus # "reserve" => rsc = CHOOSE x \in ReserveScenarios : TRUE
    /\ focus # "cache" => csc = CHOOSE x \in CacheScenarios : TRUE
    /\ focus # "uploads" => usc = CHOOSE x \in UploadScenarios : TRUE

StorageNext ==
    \/ MCNext /\ UNCHANGED sharkyVars
    \/ focus = "sharky" /\ SharkyNext /\ UNCHANGED <<storerVars, focus>>

\* the fairness of the component that is chosen: each conjunct stands for a goroutine, and what
\* a goroutine of one component is granted stands beside what a goroutine of another is
StorageFairness ==
    LET vars == <<storerVars, sharkyVars, focus>>
        R(A) == focus = "reserve" /\ A /\ UNCHANGED <<cacheVars, uploadVars, sharkyVars, focus>>
        C(A) == focus = "cache" /\ A /\ UNCHANGED <<reserveVars, uploadVars, sharkyVars, focus>>
        U(A) == focus = "uploads" /\ A /\ UNCHANGED <<reserveVars, cacheVars, sharkyVars, focus>>
        S(A) == focus = "sharky" /\ A /\ UNCHANGED <<storerVars, focus>>
    IN  /\ WF_vars(R(Evicts) \/ C(Removes) \/ U(Feeds) \/ S(ShardQuits))
        /\ WF_vars(R(Counts) \/ U(CleanupDirty \/ Start) \/ S(ReceiveLimbo))
        /\ WF_vars(R(Subscribes) \/ S(SlotsQuit))
        /\ WF_vars(R(Flag(TRUE) \/ Flag(FALSE)) \/ S(CloseIn))
        /\ \A w \in Writers : WF_vars(R(WriterStep(w)) \/ S(SlotsDone))
        /\ WF_vars(S(StoreClosed))
        /\ SF_vars(S(TakeSlot))
        /\ \A c \in Clients :
              /\ SF_vars(S(TakeRead(c) \/ TakeWrite(c, calls[c].blob) \/ ReceiveRelease(c)))
              /\ WF_vars(S(Reply(c))) /\ WF_vars(S(Returns(c)))

StorageSpec ==
    StorageInit /\ [][StorageNext]_<<storerVars, sharkyVars, focus>> /\ StorageFairness

-----------------------------------------------------------------------------
\* No signal between the goroutines of the store is lost: reserve, cache and uploads get on
\* (evictionWorker, cacheWorker, SubscribeBin, SubscribePush), each with the exceptions its
\* module names.
StorerProgress == ReserveProgress /\ CacheWithinCapacity /\ PushFed

\* A caller of sharky gets its answer and Close returns, whatever other callers do, which
\* contexts end and which reads and writes fail (Store.Write, Read, Release, Close).
SharkyReturns == CallsReturn /\ CloseEnds
=============================================================================
