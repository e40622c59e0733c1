--------------------------- MODULE Redistribution ---------------------------
(***************************************************************************)
(* The redistribution game's agent (pkg/storageincentives): it follows the *)
(* block number, publishes the phase it has entered, and plays a round in  *)
(* four handlers, each its own goroutine with a context of its phase:      *)
(* sample, commit, reveal, claim.  status is written to the state store at *)
(* every change, so a crash loses the goroutines only.  The contract is    *)
(* external: it takes one commitment per round, in the commit phase, opens *)
(* it in the reveal phase and pays in the claim phase.                     *)
(***************************************************************************)
EXTENDS Integers, Sequences, FiniteSets, FiniteSetsExt

CONSTANTS BlocksPerRound, BlocksPerPhase,
          StaleRounds       \* purgeStaleDataThreshold

VARIABLES redSc, chainBlock, status, agent, tasks, agentGen, contract, redHist

rvars == <<redSc, chainBlock, status, agent, tasks, agentGen, contract, redHist>>

Phases == {"commit", "reveal", "claim", "sample"}

Phase(b) == LET p == b % BlocksPerRound IN
            CASE p < BlocksPerPhase -> "commit"
              [] p >= BlocksPerPhase /\ p < 2 * BlocksPerPhase -> "reveal"
              [] p >= 2 * BlocksPerPhase -> "claim"

Round(b) == b \div BlocksPerRound

NoData == [sample |-> 0, key |-> 0, revealed |-> FALSE]

RoundData(r) == IF r \in DOMAIN status.data THEN status.data[r] ELSE NoData

SetData(r, d) ==
    [status EXCEPT !.data = [x \in DOMAIN @ \cup {r} |-> IF x = r THEN d ELSE @[x]]]

---------------------------------------------------------------------------
(* The events: Publish starts the phase's handler in the phase's present    *)
(* context, Cancel ends that context and makes a new one.                   *)
Task(k) == [k |-> k, pc |-> "new", round |-> 0, value |-> 0, gen |-> agentGen[k],
            with |-> [sample |-> 0, key |-> 0], n |-> redHist.tasks]

Publish(k) == tasks \cup {Task(k)}

Cancel(K) == [k \in Phases |-> IF k \in K THEN agentGen[k] + 1 ELSE agentGen[k]]

Live(t) == t.gen = agentGen[t.k]

Goes(t, u) == (tasks \ {t}) \cup u

---------------------------------------------------------------------------
(* phaseCheck: the phase is written once, when it is new, and then          *)
(* published.  A phase that is left and entered again between two checks is *)
(* not noticed.                                                             *)
PhaseCheck ==
    LET b == chainBlock
        new == Phase(b) # agent.prev
        s == [status EXCEPT !.block = b]
        old == {r \in DOMAIN s.data : Round(b) > StaleRounds /\ r < Round(b) - StaleRounds}
    IN /\ agent.pc = "check" /\ (status.block # b \/ new)
       /\ status' = IF new
                    THEN [s EXCEPT !.phase = Phase(b), !.round = Round(b),
                                   !.frozen = Round(b) \in redSc.frozen,
                                   !.fit = Round(b) \notin redSc.unfit,
                                   !.data = [r \in DOMAIN @ \ old |-> @[r]]]
                    ELSE s
       /\ agent' = [pc |-> IF new THEN "publish" ELSE "check", prev |-> Phase(b)]
       /\ UNCHANGED <<redSc, chainBlock, tasks, agentGen, contract, redHist>>

PhasePublish ==
    /\ agent.pc = "publish"
    /\ tasks' = Publish(agent.prev)
    /\ agent' = [agent EXCEPT !.pc = "check"]
    /\ redHist' = [redHist EXCEPT !.tasks = @ + 1]
    /\ UNCHANGED <<redSc, chainBlock, status, agentGen, contract>>

---------------------------------------------------------------------------
(* The commit handler.  The round is read before the lock is taken.         *)
CommitNew(t) ==
    /\ t.k = "commit" /\ t.pc = "new"
    /\ agentGen' = Cancel({"claim"})
    /\ tasks' = Goes(t, {[t EXCEPT !.pc = "lock", !.round = status.round]})
    /\ UNCHANGED <<redSc, chainBlock, status, agent, contract, redHist>>

RedLocked == \E t \in tasks : t.k = "commit" /\ t.pc \in {"send", "keep"}

CommitLock(t) ==
    /\ t.k = "commit" /\ t.pc = "lock" /\ ~RedLocked
    /\ tasks' = IF RoundData(t.round).key # 0 \/ RoundData(t.round - 1).sample = 0
                THEN Goes(t, {})
                ELSE Goes(t, {[t EXCEPT !.pc = "send",
                                        !.value = RoundData(t.round - 1).sample]})
    /\ UNCHANGED <<redSc, chainBlock, status, agent, agentGen, contract, redHist>>

(* What the contract does with a transaction (external). *)
TakesCommit(r) == Phase(chainBlock) = "commit" /\ Round(chainBlock) = r
                  /\ r \notin DOMAIN contract.commits

Committed(r, c) == [contract EXCEPT !.commits =
                      [x \in DOMAIN @ \cup {r} |-> IF x = r THEN c ELSE @[x]]]

(* An answer is good when the transaction was taken; a context that ended,  *)
(* or a lost receipt, makes an error of a transaction that was taken.       *)
Answers(t, taken) ==
    {a \in BOOLEAN : /\ a => taken
                     /\ (taken /\ ~a) => (~Live(t) \/ redHist.lost < redSc.lost)}

(* A mutant: the key is kept although the transaction failed. *)
CommitSendKeeps(t, taken, good) ==
    /\ t.k = "commit" /\ t.pc = "send"
    /\ taken = TakesCommit(t.round) \/ (~taken /\ ~Live(t))
    /\ good \in Answers(t, taken)
    /\ contract' = IF taken
                   THEN Committed(t.round, [sample |-> t.value, key |-> redHist.tasks])
                   ELSE contract
    /\ tasks' = Goes(t, {[t EXCEPT !.pc = "keep", !.value = redHist.tasks]})
    /\ redHist' = [redHist EXCEPT !.tasks = @ + 1]
    /\ UNCHANGED <<redSc, chainBlock, status, agent, agentGen>>

CommitSend(t, taken, good) ==
    /\ t.k = "commit" /\ t.pc = "send"
    /\ taken = TakesCommit(t.round) \/ (~taken /\ ~Live(t))
    /\ good \in Answers(t, taken)
    /\ contract' = IF taken
                   THEN Committed(t.round, [sample |-> t.value, key |-> redHist.tasks])
                   ELSE contract
    /\ tasks' = IF good THEN Goes(t, {[t EXCEPT !.pc = "keep", !.value = redHist.tasks]})
                ELSE Goes(t, {})
    /\ redHist' = [redHist EXCEPT !.tasks = @ + 1,
                    !.lost = IF taken /\ ~good /\ Live(t) THEN @ + 1 ELSE @,
                    !.forgotten = IF taken /\ ~good THEN @ \cup {t.round} ELSE @]
    /\ UNCHANGED <<redSc, chainBlock, status, agent, agentGen>>

CommitKeep(t) ==
    /\ t.k = "commit" /\ t.pc = "keep"
    /\ status' = [SetData(t.round, [RoundData(t.round) EXCEPT !.key = t.value])
                    EXCEPT !.played = t.round]
    /\ tasks' = Goes(t, {})
    /\ UNCHANGED <<redSc, chainBlock, agent, agentGen, contract, redHist>>

---------------------------------------------------------------------------
(* The reveal handler: the key of the round and the sample of the one       *)
(* before it, read when the phase begins.                                   *)
Opening(r) == [sample |-> RoundData(r - 1).sample, key |-> RoundData(r).key]

RevealNew(t) ==
    LET r == status.round IN
    /\ t.k = "reveal" /\ t.pc = "new"
    /\ agentGen' = Cancel({"commit", "sample"})
    /\ tasks' = IF RoundData(r).key = 0 \/ RoundData(r - 1).sample = 0 THEN Goes(t, {})
                ELSE Goes(t, {[t EXCEPT !.pc = "send", !.round = r, !.with = Opening(r)]})
    /\ UNCHANGED <<redSc, chainBlock, status, agent, contract, redHist>>

TakesReveal(r, with) ==
    /\ Phase(chainBlock) = "reveal" /\ Round(chainBlock) = r
    /\ r \in DOMAIN contract.commits /\ contract.commits[r] = with
    /\ r \notin contract.reveals

RevealSend(t, taken, good) ==
    /\ t.k = "reveal" /\ t.pc = "send"
    /\ taken = TakesReveal(t.round, t.with) \/ (~taken /\ ~Live(t))
    /\ good \in Answers(t, taken)
    /\ contract' = [contract EXCEPT !.reveals = IF taken THEN @ \cup {t.round} ELSE @]
    /\ tasks' = IF good THEN Goes(t, {[t EXCEPT !.pc = "keep"]}) ELSE Goes(t, {})
    /\ redHist' = [redHist EXCEPT
                    !.lost = IF taken /\ ~good /\ Live(t) THEN @ + 1 ELSE @,
                    !.opened = @ \cup {[round |-> t.round, with |-> t.with]}]
    /\ UNCHANGED <<redSc, chainBlock, status, agent, agentGen>>

RevealKeep(t) ==
    /\ t.k = "reveal" /\ t.pc = "keep"
    /\ status' = SetData(t.round, [RoundData(t.round) EXCEPT !.revealed = TRUE])
    /\ tasks' = Goes(t, {})
    /\ UNCHANGED <<redSc, chainBlock, agent, agentGen, contract, redHist>>

---------------------------------------------------------------------------
(* The claim handler: it starts the next sample, and claims if this round   *)
(* was revealed and won.                                                    *)
ClaimNew(t, won) ==
    LET r == status.round IN
    /\ t.k = "claim" /\ t.pc = "new"
    /\ agentGen' = Cancel({"reveal"})
    /\ won => RoundData(r).revealed /\ r \in contract.reveals
    /\ tasks' = Goes(t, {Task("sample")} \cup
                    (IF won /\ RoundData(r - 1).sample # 0
                     THEN {[t EXCEPT !.pc = "send", !.round = r]} ELSE {}))
    /\ status' = IF won THEN [status EXCEPT !.won = r] ELSE status
    /\ redHist' = [redHist EXCEPT !.tasks = @ + 1]
    /\ UNCHANGED <<redSc, chainBlock, agent, contract>>

ClaimSend(t, taken) ==
    /\ t.k = "claim" /\ t.pc = "send"
    /\ \/ taken = (/\ Phase(chainBlock) = "claim" /\ Round(chainBlock) = t.round
                   /\ t.round \notin contract.claims)
       \/ ~taken /\ ~Live(t)
    /\ contract' = [contract EXCEPT !.claims = IF taken THEN @ \cup {t.round} ELSE @]
    /\ tasks' = Goes(t, {})
    /\ UNCHANGED <<redSc, chainBlock, status, agent, agentGen, redHist>>

---------------------------------------------------------------------------
(* The sample handler.  A sample that is ready only in the commit phase of  *)
(* the next round publishes that phase once more.                           *)
SampleNew(t) ==
    LET r == status.round
        plays == ~status.frozen /\ r + 1 \in redSc.selected
    IN /\ t.k = "sample" /\ t.pc = "new"
       /\ status' = IF plays THEN [status EXCEPT !.selected = r + 1] ELSE status
       /\ tasks' = IF plays /\ status.fit
                   THEN Goes(t, {[t EXCEPT !.pc = "work", !.round = r]})
                   ELSE Goes(t, {})
       /\ UNCHANGED <<redSc, chainBlock, agent, agentGen, contract, redHist>>

SampleFails(t) ==
    /\ t.k = "sample" /\ t.pc = "work" /\ ~Live(t)
    /\ tasks' = Goes(t, {})
    /\ UNCHANGED <<redSc, chainBlock, status, agent, agentGen, contract, redHist>>

AgentSampled(t) ==
    /\ t.k = "sample" /\ t.pc = "work"
    /\ status' = SetData(t.round, [RoundData(t.round) EXCEPT !.sample = redHist.tasks])
    /\ tasks' = Goes(t, {[t EXCEPT !.pc = "told"]})
    /\ redHist' = [redHist EXCEPT !.tasks = @ + 1,
                    !.replaced = IF RoundData(t.round).sample # 0 THEN @ \cup {t.round + 1} ELSE @]
    /\ UNCHANGED <<redSc, chainBlock, agent, agentGen, contract>>

(* A mutant: a late sample does not publish commit again. *)
SampleQuiet(t) ==
    /\ t.k = "sample" /\ t.pc = "told"
    /\ tasks' = Goes(t, {})
    /\ UNCHANGED <<redSc, chainBlock, status, agent, agentGen, contract, redHist>>

SampleTold(t) ==
    /\ t.k = "sample" /\ t.pc = "told"
    /\ tasks' = IF status.phase = "commit" /\ status.round - 1 = t.round
                THEN Goes(t, {Task("commit")}) ELSE Goes(t, {})
    /\ redHist' = [redHist EXCEPT !.tasks = @ + 1]
    /\ UNCHANGED <<redSc, chainBlock, status, agent, agentGen, contract>>

---------------------------------------------------------------------------
(* In a patient scenario a block comes only when the agent has looked at    *)
(* the last one and its handlers have ended, but for a sample in the making *)
(* when the claim phase ends.                                               *)
NextBlock ==
    /\ chainBlock < redSc.blocks
    /\ redSc.patient =>
         /\ agent = [pc |-> "check", prev |-> Phase(chainBlock)]
         /\ status.block = chainBlock
         /\ \A t \in tasks : t.pc = "work" /\ Phase(chainBlock) = "claim"
    /\ chainBlock' = chainBlock + 1
    /\ UNCHANGED <<redSc, status, agent, tasks, agentGen, contract, redHist>>

(* A crash, or a stop and a start: the status is read back. *)
AgentRestart ==
    /\ redHist.crashes < redSc.crashes
    /\ agent' = [pc |-> "check", prev |-> "none"]
    /\ tasks' = {}
    /\ agentGen' = [k \in Phases |-> 0]
    /\ redHist' = [redHist EXCEPT !.crashes = @ + 1,
                   !.forgotten = @ \cup {t.round : t \in {u \in tasks :
                                            u.k = "commit" /\ u.pc = "keep"}},
                   !.unsampled = @ \cup {t.round + 1 : t \in {u \in tasks :
                                            u.k = "sample" /\ u.pc = "work"}}]
    /\ UNCHANGED <<redSc, chainBlock, status, contract>>

RedistributionInit(sc) ==
    /\ redSc = sc /\ chainBlock = sc.from
    /\ status = [phase |-> "none", round |-> 0, block |-> -1, frozen |-> FALSE,
                 fit |-> TRUE, data |-> [r \in {} |-> NoData], played |-> 0,
                 selected |-> 0, won |-> 0]
    /\ agent = [pc |-> "check", prev |-> "none"]
    /\ tasks = {} /\ agentGen = [k \in Phases |-> 0]
    /\ contract = [commits |-> [r \in {} |-> 0], reveals |-> {}, claims |-> {}]
    /\ redHist = [tasks |-> 1, lost |-> 0, crashes |-> 0, forgotten |-> {}, opened |-> {},
                replaced |-> {}, unsampled |-> {}]

Handle(t) ==
    \/ CommitNew(t) \/ CommitLock(t) \/ CommitKeep(t)
    \/ RevealNew(t) \/ RevealKeep(t)
    \/ SampleNew(t) \/ SampleFails(t) \/ AgentSampled(t) \/ SampleTold(t)
    \/ \E taken \in BOOLEAN :
          \/ ClaimSend(t, taken) \/ ClaimNew(t, taken)
          \/ \E good \in BOOLEAN : CommitSend(t, taken, good) \/ RevealSend(t, taken, good)

RedistributionNext ==
    \/ PhaseCheck \/ PhasePublish \/ NextBlock \/ AgentRestart
    \/ \E t \in tasks : Handle(t)

---------------------------------------------------------------------------
(* Every reveal the agent sends opens the commitment the contract holds for *)
(* that round: the sample of the round before and the key that were         *)
(* committed, whatever handlers ran late, twice or were cancelled and       *)
(* wherever the node crashed.  The exception: a restart in the claim phase  *)
(* starts a second sample, which may replace the one that was committed.    *)
(* A commitment the contract took is either known to the status or was      *)
(* taken with an answer that got lost (handleCommit, handleReveal, the      *)
(* commit lock).                                                            *)
RevealOpens ==
    /\ \A o \in redHist.opened : /\ o.round \in DOMAIN contract.commits
                               /\ \/ contract.commits[o.round] = o.with
                                  \/ o.round \in redHist.replaced /\ redHist.crashes > 0
    /\ \A r \in DOMAIN contract.commits :
          \/ r \in redHist.forgotten \/ RoundData(r).key = contract.commits[r].key
          \/ \E t \in tasks : t.k = "commit" /\ t.pc = "keep" /\ t.round = r
          \/ r \notin DOMAIN status.data /\ Round(status.block) > r + StaleRounds

(* When the handlers keep pace with the blocks, a round the node was chosen *)
(* for is revealed, even if its sample was ready only in the commit phase   *)
(* and the first commit found none (the second publication of commit), or   *)
(* the node was restarted on the way; but for a restart that ends a sample  *)
(* in the making, or comes between a commitment and its key being saved.    *)
SelectedRevealed ==
    \A r \in 1 .. 3 :
        (redSc.patient /\ r \in redSc.selected /\ Round(redSc.blocks) > r /\ r - 1 \notin redSc.unfit \cup redSc.frozen
         /\ chainBlock < r * BlocksPerRound)
        ~> (r \in contract.reveals \cup redHist.replaced
                \cup redHist.forgotten \cup redHist.unsampled)
=============================================================================
