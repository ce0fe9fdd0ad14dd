------------------------------ MODULE PollLoop ------------------------------
(***************************************************************************)
(* The clock arithmetic of the polling loops.  waitForIntentOutcome        *)
(* ("intent") and pollTransactionOnChain ("transaction") shorten the last  *)
(* sleep to land on the deadline; PalisadeTxTracker.pollUntil ("palisade") *)
(* and assertOnLedgerSuccess ("ledger") give up rather than sleep to the   *)
(* deadline or past it.  Delays double up to a ceiling (pollDelayMs).  A   *)
(* caller's budget need not be a number: comparisons with NaN are false.   *)
(*                                                                         *)
(* Time is discrete.  A read is answered within MaxRead, with the          *)
(* custodian's state of some instant in between, or fails: the loop takes  *)
(* it for no answer or throws the error, each by its own rules.  Palisade  *)
(* gives its requests no timeout, so that they take any time.  A timer may *)
(* fire up to MaxLate late.                                                *)
(***************************************************************************)
EXTENDS Naturals

CONSTANTS Initial,    \* initialMs
          MaxDelay,   \* maxMs
          Budget,     \* timeoutMs
          NaN,        \* a timeoutMs that is not a number
          MaxRead,    \* bound: duration of a read that has a timeout
          MaxLate,    \* bound: lateness of a timer
          Horizon     \* bound: last instant looked at

ASSUME ClockAssumption ==
  /\ Initial \in Nat \ {0} /\ MaxDelay \in Nat \ {0} /\ Budget \in Nat
  /\ MaxRead \in Nat /\ MaxLate \in Nat
  /\ Horizon \in Nat /\ Budget < Horizon
  /\ NaN \notin Nat

VARIABLES
  loop,
  budget,
  now,
  at,         \* reading, served, sleeping, or one of Stops
  attempt,    \* reads completed
  mark,       \* when the read began, or when the sleep is to end
  saw,        \* the last read showed a terminal state
  heardAt,    \* when the last read began that was answered
  settledAt   \* when the custodian's state became terminal

loopVars == <<loop, budget, now, at, attempt, mark, saw, heardAt, settledAt>>

Never == Horizon + 1

\* The clock starts when the deadline is computed.
Deadline == budget
Numeric == budget # NaN

Loops == {"intent", "transaction", "palisade", "ledger"}

\* Loops whose reads have a timeout.
Timed == Loops \ {"palisade"}

\* Loops that cut the last sleep short.
Clamped == {"intent", "transaction"}

\* A state that is reported, a wait that ran out, an error.
Stops == {"done", "gaveUp", "threw"}

\* The wait for the ledger's result has a fixed budget.
BudgetsOf(l) == IF l = "ledger" THEN {Budget} ELSE {Budget, NaN}

LoopTypeOK ==
  /\ loop \in Loops /\ budget \in BudgetsOf(loop)
  /\ now \in 0..Horizon
  /\ at \in {"reading", "served", "sleeping"} \cup Stops
  /\ attempt \in Nat
  /\ mark \in 0..(Horizon + MaxDelay)
  /\ saw \in BOOLEAN /\ heardAt \in 0..Horizon
  /\ settledAt \in 0..Never

\* The Ripple loops start with a read, the Palisade loop with the answer to the
\* submission, which was not terminal.
LoopInit ==
  /\ loop \in Loops /\ budget \in BudgetsOf(loop)
  /\ now = 0 /\ attempt = 0 /\ mark = 0
  /\ at = (IF loop = "palisade" THEN "served" ELSE "reading")
  /\ saw = FALSE /\ heardAt = 0
  /\ settledAt = Never

Smaller(x, y) == IF x < y THEN x ELSE y

\* Defect kept for comparison: the interval does not grow.
FlatDelay(n) == Initial

\* How much a delay has grown, which doubles from one poll to the next.
FACTOR == 2
Growth[n \in Nat] == IF n = 0 THEN 1 ELSE FACTOR * Growth[n - 1]
Grown(n) == Initial * Growth[n]

\* The doubled delay while it is within the ceiling, from then on the ceiling.
PollDelay(n) == Smaller(MaxDelay, Grown(n))

-----------------------------------------------------------------------------

\* The custodian's read model shows its state at some instant of the read that is
\* answered.
Serve ==
  /\ at = "reading"
  /\ at' = "served"
  /\ saw' = (settledAt <= now)
  /\ heardAt' = mark
  /\ UNCHANGED <<loop, budget, now, attempt, mark, settledAt>>

\* Reads that are taken for no answer: a timeout for an intent or an order's
\* transactions, a 404 for an intent, any error for the ledger.
Unanswered ==
  /\ at = "reading" /\ loop \in Timed
  /\ at' = "served"
  /\ saw' = FALSE
  /\ UNCHANGED <<loop, budget, now, attempt, mark, heardAt, settledAt>>

\* Any other error ends the wait, and of Palisade's reads every one.
ReadThrows ==
  /\ at = "reading" /\ loop # "ledger"
  /\ at' = "threw"
  /\ UNCHANGED <<loop, budget, now, attempt, mark, saw, heardAt, settledAt>>

Over(how) == at' = how /\ UNCHANGED <<attempt, mark>>

Sleep(ms) ==
  /\ at' = "sleeping"
  /\ attempt' = attempt + 1
  /\ mark' = now + ms

\* Give up rather than sleep to the deadline.
UnclampedGoOn ==
  IF Numeric /\ now + PollDelay(attempt) >= Deadline
  THEN Over("gaveUp") ELSE Sleep(PollDelay(attempt))

\* Never sleep past the deadline, so that the last read lands on it.  Math.min of
\* a delay and NaN is NaN, for which a timer fires after the least delay there is.
GoOnUnless(expired) ==
  CASE expired -> Over("gaveUp")
    [] ~expired /\ Numeric -> Sleep(Smaller(PollDelay(attempt), Deadline - now))
    [] ~expired /\ ~Numeric -> Sleep(1)

\* `remaining <= 0`, never true of NaN.
IntentGoOn == GoOnUnless(Numeric /\ now >= Deadline)

\* `!(remaining > 0)`, true of NaN.
TransactionGoOn == GoOnUnless(~Numeric \/ now >= Deadline)

\* The read returns.
Decide ==
  /\ at = "served"
  /\ IF saw THEN Over("done")
            ELSE CASE loop = "intent" -> IntentGoOn
                   [] loop = "transaction" -> TransactionGoOn
                   [] loop \in {"palisade", "ledger"} -> UnclampedGoOn
  /\ UNCHANGED <<loop, budget, now, saw, heardAt, settledAt>>

Wake ==
  /\ at = "sleeping" /\ now >= mark
  /\ at' = "reading"
  /\ mark' = now
  /\ UNCHANGED <<loop, budget, now, attempt, saw, heardAt, settledAt>>

Settle ==
  /\ settledAt = Never
  /\ settledAt' = now
  /\ UNCHANGED <<loop, budget, now, at, attempt, mark, saw, heardAt>>

\* The time a read or a sleep may take; a loop that has ended takes none, nor does
\* Palisade's to look at the answer to the submission.
Tick ==
  /\ now < Horizon
  /\ \/ at \in {"reading", "served"} /\ loop \in Timed /\ now < mark + MaxRead
     \/ at \in {"reading", "served"} /\ loop \notin Timed /\ attempt > 0
     \/ at = "sleeping" /\ now < mark + MaxLate
  /\ now' = now + 1
  /\ UNCHANGED <<loop, budget, at, attempt, mark, saw, heardAt, settledAt>>

LoopNext == Serve \/ Unanswered \/ ReadThrows \/ Decide \/ Wake \/ Settle \/ Tick

LoopSpec == LoopInit /\ [][LoopNext]_loopVars

-----------------------------------------------------------------------------
(* Properties                                                               *)

\* What Ripple's loops report as unfinished had not settled when the last read began
\* that was answered, and if that was their last read, not until one read before the
\* deadline.  A last read that times out leaves unreported what settled long before.
SettledInTimeIsReported ==
  Numeric /\ loop \in Clamped /\ at = "gaveUp" =>
    /\ settledAt >= heardAt
    /\ heardAt = mark => settledAt + MaxRead >= Deadline

\* A loop ends within one late timer and one read of its deadline, except that no time
\* limits Palisade's last read, which begins by then; with a budget that is not a
\* number the transaction loop ends after its first read.  The other two have no
\* deadline then, and end only when the custodian's state is terminal or a read fails.
EndsOnTime ==
  at \notin Stops =>
    /\ Numeric /\ loop \in Timed => now <= Deadline + MaxLate + MaxRead
    /\ Numeric /\ loop \notin Timed =>
         (IF at = "sleeping" THEN now ELSE mark) <= Deadline + MaxLate
    /\ ~Numeric /\ loop = "transaction" => now <= MaxRead

\* Delays of this number of reads are below the ceiling.
Ramp == CHOOSE n \in 0..MaxDelay :
          /\ Grown(n) >= MaxDelay
          /\ \A k \in 0..(n - 1) : Grown(k) < MaxDelay

\* After the first few, reads are at least the ceiling apart, but for the last one,
\* on the deadline: a long wait costs few requests.  Not so in the intent loop with a
\* budget that is not a number, which reads as fast as it is answered.
ReadsAreSpaced ==
  Numeric \/ loop # "intent" => now + MaxDelay * (Ramp + 1) >= attempt * MaxDelay

-----------------------------------------------------------------------------
(* Why it does so                                                           *)

\* The transaction loop with a budget that is not a number does not sleep.
ReadsOnce == ~Numeric /\ loop = "transaction"

\* A read began when the deadline was at most a late timer past, and takes no longer
\* than reads do where they have a timeout.
ReadInv ==
  at \in {"reading", "served"} =>
    /\ mark <= now /\ (loop \in Timed => now <= mark + MaxRead)
    /\ Numeric => mark <= Deadline + MaxLate
    /\ ReadsOnce => mark = 0

\* No sleep is planned past the deadline.
SleepInv ==
  at = "sleeping" =>
    /\ now <= mark + MaxLate
    /\ Numeric => mark <= Deadline
    /\ ~ReadsOnce

\* What was not terminal when read has not been since before the read began, so that
\* the last read, on the deadline, misses at most what settled while it ran.
OutcomeInv ==
  /\ heardAt <= now
  /\ settledAt >= heardAt \/ at = "done" \/ (at = "served" /\ saw)
  /\ at = "gaveUp" /\ Numeric /\ loop \in Clamped => mark <= now /\ now <= mark + MaxRead /\ now >= Deadline

ClockInv == LoopTypeOK /\ ReadInv /\ SleepInv /\ OutcomeInv

\* The clamped loops sleep to the deadline at the latest, and do not sleep after it.
LastAt(t) == Numeric /\ loop \in Clamped /\ t >= Deadline

\* A read begins, and a sleep ends, once the ceiling has passed for every earlier sleep
\* but those of the ramp; the sleep that is cut short is the last one.
SpacingInv ==
  Numeric \/ loop # "intent" =>
    /\ now + MaxDelay * (Ramp + 1) >= attempt * MaxDelay
    /\ at \in {"reading", "served"} => now + MaxDelay * Ramp >= attempt * MaxDelay \/ LastAt(now)
    /\ at = "sleeping" => mark + MaxDelay * Ramp >= attempt * MaxDelay \/ LastAt(mark)
=============================================================================
