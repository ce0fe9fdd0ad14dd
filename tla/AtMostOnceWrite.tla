-------------------------- MODULE AtMostOnceWrite --------------------------
(***************************************************************************)
(* What a custodied write promises its callers.  The write is tried under  *)
(* one idempotency key at a time; the key in use either applies it, once   *)
(* and for good, or dies, and only then is the next key taken.  A caller   *)
(* is told "ok" or "dead" only when that is what became of a key, and may  *)
(* always be told nothing definite.                                        *)
(***************************************************************************)
EXTENDS Naturals, FiniteSets

CONSTANTS Workers, MaxKey

Keys == 1..MaxKey

VARIABLES current, fate, verdict

vars == <<current, fate, verdict>>

TypeOK ==
  /\ current \in Keys
  /\ fate \in [Keys -> {"open", "applied", "dead"}]
  /\ verdict \in [Workers -> {"none", "ok", "dead", "unsure"}]

Init ==
  /\ current = 1
  /\ fate = [k \in Keys |-> "open"]
  /\ verdict = [w \in Workers |-> "none"]

Settle(outcome) ==
  /\ fate[current] = "open"
  /\ fate' = [fate EXCEPT ![current] = outcome]
  /\ UNCHANGED <<current, verdict>>

Answer(w, v) ==
  /\ verdict[w] = "none"
  /\ v = "ok" => fate[current] = "applied"
  /\ v = "dead" => \E k \in 1..current : fate[k] = "dead"
  /\ verdict' = [verdict EXCEPT ![w] = v]
  /\ UNCHANGED <<current, fate>>

\* A caller takes note; told that the key is dead, it may move to the next one.
Note(w) ==
  /\ verdict[w] # "none"
  /\ verdict' = [verdict EXCEPT ![w] = "none"]
  /\ \/ current' = current
     \/ /\ verdict[w] = "dead" /\ fate[current] = "dead" /\ current < MaxKey
        /\ current' = current + 1
  /\ UNCHANGED fate

Next ==
  \/ \E outcome \in {"applied", "dead"} : Settle(outcome)
  \/ \E w \in Workers : Note(w) \/ \E v \in {"ok", "dead", "unsure"} : Answer(w, v)

Spec == Init /\ [][Next]_vars

\* The write is applied under at most one key.
AtMostOnce == Cardinality({k \in Keys : fate[k] = "applied"}) <= 1

\* Who was told "ok" or "dead" was told so because of a key of which it is true.
AnswersHold ==
  \A w \in Workers :
    /\ verdict[w] = "ok" => \E k \in Keys : fate[k] = "applied"
    /\ verdict[w] = "dead" => \E k \in Keys : fate[k] = "dead"

\* Keys are taken in order, and only a dead one is left behind.
WriteInv ==
  /\ TypeOK
  /\ \A k \in Keys : k < current => fate[k] = "dead"
  /\ \A k \in Keys : k > current => fate[k] = "open"
  /\ AnswersHold
=============================================================================
