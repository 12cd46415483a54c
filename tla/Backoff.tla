------------------------------ MODULE Backoff -------------------------------
(***************************************************************************)
(* The delay before a reconnection (backoff.c): doubled on every attempt,  *)
(* capped, jittered, capped again.  One behaviour is one call, one step an *)
(* iteration of its loop.  The arguments are any of their type: the bot    *)
(* counts attempts in an unsigned that may wrap.                           *)
(***************************************************************************)
EXTENDS Naturals

CONSTANTS Word32, Word64, \* one more than the largest uint32_t, uint64_t
          Jitters         \* the jitter_ms that are tried

ASSUME WordsAssumption ==
    Word32 \in Nat \ {0} /\ Word64 \in Nat /\ 2 * Word32 <= Word64 /\ Jitters \subseteq 0 .. Word32 - 1

VARIABLES
    attempt, base_ms, cap_ms, jitter_ms,  \* the arguments
    i, delay,                             \* the loop
    calculating                           \* what is left to do, or "nothing"

argumentVars == <<attempt, base_ms, cap_ms, jitter_ms>>
backoffVars  == <<argumentVars, i, delay, calculating>>

Uint32 == 0 .. Word32 - 1

BackoffTypeOK ==
    /\ attempt \in Uint32 /\ base_ms \in Uint32 /\ cap_ms \in Uint32 /\ jitter_ms \in Jitters
    /\ i \in 1 .. Word32 /\ delay \in 0 .. Word64 - 1
    /\ calculating \in {"doubling", "jitter", "nothing"}

Least(a, b) == IF a < b THEN a ELSE b

BackoffInit ==
    /\ attempt \in Uint32 /\ base_ms \in Uint32 /\ cap_ms \in Uint32 /\ jitter_ms \in Jitters
    /\ i = 1 /\ delay = base_ms
    /\ calculating = "doubling"

BugDoubleUnchecked ==
    /\ calculating = "doubling" /\ i < attempt
    /\ delay' = (2 * delay) % Word32 /\ i' = i + 1
    /\ UNCHANGED <<argumentVars, calculating>>

Double ==
    /\ calculating = "doubling" /\ i < attempt /\ delay < cap_ms
    /\ delay' = (2 * delay) % Word64 /\ i' = i + 1
    /\ UNCHANGED <<argumentVars, calculating>>

(* Both returns of evergram_backoff_base_ms from the loop, and the early   *)
(* one for attempt 0.                                                      *)
Cap ==
    /\ calculating = "doubling" /\ (i >= attempt \/ delay >= cap_ms)
    /\ delay' = Least(delay, cap_ms) % Word32
    /\ calculating' = "jitter"
    /\ UNCHANGED <<argumentVars, i>>

AddJitter ==
    /\ calculating = "jitter"
    /\ \/ jitter_ms = 0 /\ UNCHANGED delay
       \/ \E jitter \in 0 .. jitter_ms - 1 :
             delay' = Least((delay + jitter) % Word64, cap_ms) % Word32
    /\ calculating' = "nothing"
    /\ UNCHANGED <<argumentVars, i>>

BackoffNext == Double \/ Cap \/ AddJitter

BackoffSpec == BackoffInit /\ [][BackoffNext]_backoffVars

-----------------------------------------------------------------------------
(* The delay, as one writes it down.                                       *)
PowersOfTwo[n \in Nat] == IF n = 0 THEN 1 ELSE 2 * PowersOfTwo[n - 1]

Doublings == IF attempt = 0 THEN 0 ELSE attempt - 1
Reference == Least(base_ms * PowersOfTwo[Doublings], cap_ms)

(* backoff.h: the delay is the reference's, plus less than jitter_ms, and  *)
(* never above the cap: no doubling, sum or conversion on the way to it    *)
(* loses a bit, whatever the arguments.                                    *)
DelayIsReference ==
    calculating = "nothing" =>
        /\ Reference <= delay /\ delay <= cap_ms
        /\ delay <= Reference + (IF jitter_ms = 0 THEN 0 ELSE jitter_ms - 1)

(* What the proofs carry through the loop: the width of the delay, and     *)
(* what it has come to.                                                    *)
DelayBounded ==
    /\ calculating = "doubling" => Least(base_ms, cap_ms) <= delay /\ delay < 2 * Word32
    /\ calculating # "doubling" => Least(base_ms, cap_ms) <= delay /\ delay <= cap_ms

DelayFollows ==
    /\ calculating = "doubling" => delay = base_ms * PowersOfTwo[i - 1] /\ (i = 1 \/ i <= attempt)
    /\ calculating = "jitter" => delay = Reference
    /\ DelayIsReference
=============================================================================
