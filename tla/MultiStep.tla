----------------------------- MODULE MultiStep ------------------------------
(***************************************************************************)
(* An operation of the SDK from its options to the ledger.  A call becomes *)
(* one or more transactions (Requests), each submitted in a form of its    *)
(* signer's custodian (NativeForms) by one run of the pipeline, committed  *)
(* before the next one starts; there is no rollback, so a failure leaves   *)
(* the caller with the steps committed and an order that may still be open *)
(* at the custodian.                                                       *)
(*                                                                         *)
(* CustodySubmission has the inside of a step; here a step ends in one of  *)
(* the three answers that module shows it can give.  Every call posts its  *)
(* own request for a step; a request that carries the caller's key finds   *)
(* the order another one has made under it, at the custodian.              *)
(***************************************************************************)
EXTENDS NativeForms

CONSTANTS Inputs,   \* what is called: pairs of a call and the signers of its two accounts
          MaxRun    \* bound: calls the caller makes

Custodians == [kind : {"local", "ripple-custody", "palisade"}, allowRaw : BOOLEAN]

ASSUME StepAssumption ==
  /\ MaxRun \in Nat \ {0}
  /\ \A i \in Inputs : i[1] \in Calls /\ i[2] \in [from : Custodians, other : Custodians]

Runs == 1..MaxRun

VARIABLES
  operation,   \* the operation that is called
  steps,       \* the steps the call is made of
  signer,      \* the custodian of each of its accounts
  run, step,   \* the call in progress and its current step
  pc,          \* ready, waiting, failed, inDoubt, done
  committed,   \* the steps this call reports as committed
  fate,        \* of the request of each call for each step: unsent, sent, lost, the
               \* order it made (open, applied, dead), or found
  careful      \* the caller has only ever resumed, never called again from the top

called == <<operation, steps, signer>>
vars == <<called, run, step, pc, committed, fate, careful>>

Steps == 1..Len(steps)

\* What step k is posted as, if its custodian has a form for it.
Asks(k) == Request(signer[steps[k].by], steps[k].tx)
Keyed(k) == steps[k].keyed /\ \A q \in Asks(k) : CarriesKey(q, steps[k].tx)

\* The call's own request for its step.
Current == <<run, step>>

\* The orders made for step k.
Made(k) == {r \in Runs : fate[<<r, k>>] \in {"open", "applied", "dead"}}

\* The step's order, posted by this call or found under its key, has come to this.
Became(f) ==
  \/ fate[Current] = f
  \/ fate[Current] = "found" /\ \E r \in Made(step) : fate[<<r, step>>] = f

\* Custody had the step's manifest already.
Conflicts == fate[Current] = "found" /\ \E q \in Asks(step) : ConflictIsThrown(q)

Orders == Runs \X Steps

Init ==
  /\ \E i \in Inputs : operation = i[1].op /\ steps = Build(i[1]) /\ signer = i[2]
  /\ steps # <<>>
  /\ run = 1 /\ step = 1 /\ pc = "ready"
  /\ committed = {}
  /\ fate = [o \in Orders |-> "unsent"]
  /\ careful = TRUE

-----------------------------------------------------------------------------
(* One step                                                                 *)

\* Validation, dispatch, autofill or the mapping refuses the step: nothing is
\* posted.  A step without a form has no other way.
Refuse ==
  /\ pc = "ready"
  /\ pc' = "failed"
  /\ UNCHANGED <<called, run, step, committed, fate, careful>>

\* Defect kept for comparison: the steps are not awaited one by one.
PostNextToo ==
  /\ pc = "ready" /\ Asks(step) # {}
  /\ pc' = "waiting"
  /\ fate' = [o \in Orders |-> IF o \in {Current, <<run, step + 1>>} /\ fate[o] = "unsent"
                               THEN "sent" ELSE fate[o]]
  /\ UNCHANGED <<called, run, step, committed, careful>>

Post ==
  /\ pc = "ready" /\ Asks(step) # {}
  /\ pc' = "waiting"
  /\ fate' = [fate EXCEPT ![Current] = "sent"]
  /\ UNCHANGED <<called, run, step, committed, careful>>

\* The raw path throws Custody's conflict, whatever became of the first request.
PostConflicts ==
  /\ pc = "waiting" /\ Conflicts
  /\ pc' = "failed"
  /\ UNCHANGED <<called, run, step, committed, fate, careful>>

\* The step's answer is success; the loop goes on, or the operation returns.
Commit ==
  /\ committed' = committed \cup {step}
  /\ IF step = Len(steps) THEN pc' = "done" /\ UNCHANGED step
                      ELSE pc' = "ready" /\ step' = step + 1
  /\ UNCHANGED <<called, run, fate, careful>>

StepSucceeds ==
  /\ pc = "waiting" /\ ~Conflicts /\ Became("applied")
  /\ Commit

\* The step ended without effect: MultiStepFailureError.
StepDies ==
  /\ pc = "waiting" /\ ~Conflicts /\ Became("dead")
  /\ pc' = "failed"
  /\ UNCHANGED <<called, run, step, committed, fate, careful>>

\* Defect kept for comparison: every failure of a step reads as definite.
DoubtIsDeath ==
  /\ pc = "waiting"
  /\ pc' = "failed"
  /\ UNCHANGED <<called, run, step, committed, fate, careful>>

\* The step ends in doubt (its hour passed, an answer was lost): the same error,
\* around a pending or ambiguous one; the order may still be applied.
StepInDoubt ==
  /\ pc = "waiting"
  /\ pc' = "inDoubt"
  /\ UNCHANGED <<called, run, step, committed, fate, careful>>

-----------------------------------------------------------------------------
(* The custodian, and the caller                                            *)

Move(o, f) == fate' = [fate EXCEPT ![o] = f] /\ UNCHANGED <<called, run, step, pc, committed, careful>>

\* A request makes an order, unless its key has made one.
Arrive(o) == /\ fate[o] = "sent"
             /\ Move(o, IF Keyed(o[2]) /\ Made(o[2]) # {} THEN "found" ELSE "open")
Lose(o)   == fate[o] = "sent" /\ Move(o, "lost")
Apply(o)  == fate[o] = "open" /\ Move(o, "applied")
Die(o)    == fate[o] = "open" /\ Move(o, "dead")

Failed == pc \in {"failed", "inDoubt"}

\* The caller calls again from the first step.
CallAgain ==
  /\ Failed /\ run < MaxRun /\ careful' = FALSE
  /\ run' = run + 1 /\ step' = 1 /\ pc' = "ready"
  /\ committed' = {}
  /\ UNCHANGED <<called, fate>>

\* The caller goes on from the step that failed, with the matching operations.
ResumeAt ==
  /\ pc = "failed" \/ (pc = "inDoubt" /\ (fate[Current] = "lost" \/ Became("dead")))
  /\ run < MaxRun
  /\ run' = run + 1 /\ pc' = "ready"
  /\ UNCHANGED <<called, step, committed, fate, careful>>

\* A step in doubt is first awaited by its id; if it was applied after all the
\* caller goes on after it.
ResumeAfter ==
  /\ pc = "inDoubt" /\ Became("applied")
  /\ run < MaxRun /\ run' = run + 1
  /\ committed' = committed \cup {step}
  /\ IF step = Len(steps) THEN pc' = "done" /\ UNCHANGED step
                      ELSE pc' = "ready" /\ step' = step + 1
  /\ UNCHANGED <<called, fate, careful>>

CallStep == Refuse \/ Post \/ PostConflicts \/ StepSucceeds \/ StepDies \/ StepInDoubt
OrderStep(o) == Arrive(o) \/ Lose(o) \/ Apply(o) \/ Die(o)

Next == CallStep \/ CallAgain \/ ResumeAt \/ ResumeAfter \/ \E o \in Orders : OrderStep(o)

Spec == Init /\ [][Next]_vars

-----------------------------------------------------------------------------
(* Properties                                                               *)

AppliedOrders(k) == {r \in Runs : fate[<<r, k>>] = "applied"}

\* A step is a barrier: nothing of a later step is ever posted before an order
\* of the step preceding it has been applied ("nothing after it runs until it
\* lands"), whatever calls failed before.
Barrier ==
  \A r \in Runs, k \in Steps :
    k > 1 /\ fate[<<r, k>>] # "unsent" => AppliedOrders(k - 1) # {}

\* The committed results carried by MultiStepFailureError, and those of a call
\* that returned, are on the ledger.
CommittedIsApplied ==
  /\ \A k \in committed : AppliedOrders(k) # {}
  /\ pc = "done" => committed = Steps

\* No two orders of one step take effect.
Once(k) == \A r, q \in AppliedOrders(k) : r = q

\* No step takes effect twice, however often a careful caller resumes after a
\* failure, and whether or not the failed order was applied late.
AppliedOnce == careful => \A k \in Steps : Once(k)

\* Operations of which no step is given the caller's key.
Keyless == {"iou.issue", "iou.lock", "iou.unlock", "account.fund"}

\* Custody takes a key with everything; Palisade with payments and with what it only
\* signs.
TakesKey(k) ==
  LET custodian == signer[steps[k].by]
  IN \/ custodian.kind = "ripple-custody"
     \/ custodian.kind = "palisade" /\ steps[k].tx.type \notin PalisadeNative \ {"Payment"}

\* With a key the first step of every other operation takes effect once where the
\* custodian takes keys, even if the caller knows nothing and calls again from the
\* top: requests may cross, be lost or be found, and any of them make the order.
KeyedOnce == \A k \in Steps : k = 1 /\ operation \notin Keyless /\ TakesKey(k) => Once(k)

\* Palisade's offers are mapped without looking for these parts.
Overlooked(q, k) ==
  IF q.method = "transfer" /\ steps[k].tx.type = "OfferCreate"
  THEN {<<"DomainID", "given">>, <<"Flags", "tfHybrid">>} ELSE {}

\* A step on its way carries everything the vertical built into it: what a custodian
\* has no slot for is refused or signed whole, with the one exception above.
FormIsWhole ==
  pc = "waiting" =>
    \A q \in Asks(step) : steps[step].tx.parts \ Overlooked(q, step) \subseteq q.carries

\* What IOUWriteOptions.idempotencyKey says of every IOU write: with the key of a
\* prior submission, "a retry resolves to the same submission instead of
\* duplicating it".
RetryDoesNotDuplicate == \A k \in Steps : Once(k)
-----------------------------------------------------------------------------
(* The invariant these rest on                                              *)

Fates == {"unsent", "sent", "open", "applied", "dead", "lost", "found"}

StepTypes ==
  /\ Len(steps) \in Nat \ {0}
  /\ run \in Runs /\ step \in Steps
  /\ pc \in {"ready", "waiting", "failed", "inDoubt", "done"}
  /\ committed \subseteq Steps
  /\ fate \in [Orders -> Fates]
  /\ careful \in BOOLEAN

\* A call has come as far as it has committed.
ProgressInv == 1..(step - 1) \subseteq committed

\* What is yet to be posted: later calls' requests, and this call's for later steps.
OrdersInv ==
  /\ \A r \in Runs, k \in Steps : r > run \/ (r = run /\ k > step) => fate[<<r, k>>] = "unsent"
  /\ pc = "ready" => fate[Current] = "unsent"

\* A key makes one order, and nothing else is found.
KeyInv ==
  \A k \in Steps :
    /\ Keyed(k) => \A r, q \in Made(k) : r = q
    /\ \A r \in Runs : fate[<<r, k>>] = "found" => Keyed(k)

\* A request that has taken effect, or may still.
Live(o) == fate[o] \in {"sent", "open", "applied"}

\* What a careful caller keeps: nothing beyond the step has been posted; and where no
\* key does it for him, one request of a step at most is live, the step's own being
\* this call's, and none by the time the step may be posted again.
CarefulInv ==
  /\ \A k \in Steps : Keyed(k) \/ \A r, q \in Runs : Live(<<r, k>>) /\ Live(<<q, k>>) => r = q
  /\ \A r \in Runs, k \in Steps : k > step => fate[<<r, k>>] = "unsent"
  /\ pc \in {"waiting", "inDoubt"} => Keyed(step) \/ \A r \in Runs : Live(<<r, step>>) => r = run
  /\ pc \in {"ready", "failed"} => Keyed(step) \/ \A r \in Runs : ~Live(<<r, step>>)

StepInv ==
  /\ StepTypes /\ ProgressInv /\ OrdersInv /\ KeyInv
  /\ CommittedIsApplied /\ Barrier
  /\ careful => CarefulInv

\* The operation, its steps and their signers are those of the call throughout.
FormsInv == \E i \in Inputs : operation = i[1].op /\ steps = Build(i[1]) /\ signer = i[2]
=============================================================================
