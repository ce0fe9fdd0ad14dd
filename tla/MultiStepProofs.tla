-------------------------- MODULE MultiStepProofs ---------------------------
(***************************************************************************)
(* Proofs about MultiStep: for any calls, on any custodians, retried and   *)
(* resumed any number of times, the steps of an operation stay in order,   *)
(* what is reported as committed is on the ledger, a step given the        *)
(* caller's key is applied once, and for a careful caller every step is.   *)
(*                                                                         *)
(* For these nothing is used of the operations but that a call has         *)
(* finitely many steps, and nothing of the custodians' forms but which     *)
(* steps are keyed.  That a form is whole takes both in full: every part   *)
(* every operation can build against every slot and refusal of every form. *)
(***************************************************************************)
EXTENDS MultiStep, TLAPS

-----------------------------------------------------------------------------
(* Calls and steps                                                          *)

\* A call that is not refused has at least one step, and finitely many.
LEMMA CallsHaveSteps ==
  ASSUME NEW c \in Calls, Build(c) # <<>>
  PROVE  Len(Build(c)) \in Nat \ {0}
<1>1. c.op \in Operations
  BY DEF Calls
<1>2. \A tx : One(tx) # <<>> /\ Len(One(tx)) = 1
  BY DEF One
<1>3. Len(IouIssue(c)) \in {2, 3}
  BY DEF IouIssue
<1>4. /\ \A f, g : Len(SetFreeze(f, g)) = 2
      /\ Len(Activate) = 2 /\ Len(Fund) = 1
  BY DEF SetFreeze, Activate, Fund
<1>5. CASE c.op \in {"iou.issue", "iou.lock", "iou.unlock", "account.activate", "account.fund"}
  <2>1. Build(c) \in {IouIssue(c), SetFreeze("tfSetFreeze", "tfSetDeepFreeze"),
                      SetFreeze("tfClearDeepFreeze", "tfClearFreeze"), Activate, Fund}
    BY <1>5 DEF Build
  <2> QED
    BY <1>3, <1>4, <2>1
<1>6. CASE c.op \in {"xrp.buyOffer", "xrp.sellOffer", "iou.buyOffer", "iou.sellOffer", "account.set"}
  <2>1. Build(c) \in {XrpOffer(FALSE, c), XrpOffer(TRUE, c), IouOffer(FALSE, c), IouOffer(TRUE, c),
                      AccountSet(c)}
    BY <1>6 DEF Build
  <2>2. \A own, sell : Offer(own, sell, c) # <<>> => Len(Offer(own, sell, c)) = 1
    BY <1>2 DEF Offer
  <2>3. AccountSet(c) # <<>> => Len(AccountSet(c)) = 1
    BY <1>2 DEF AccountSet
  <2> QED
    BY <2>1, <2>2, <2>3 DEF XrpOffer, IouOffer
<1>7. CASE c.op \in {"xrp.transfer", "iou.transfer", "token.transfer", "iou.authorize", "cancelOffer",
                     "iou.clawback", "token.clawback"}
  <2>1. Build(c) \in {XrpTransfer, IouTransfer, TokenTransfer, IouAuthorize, CancelOffer,
                      IouClawback, TokenClawback}
    BY <1>7 DEF Build
  <2> QED
    BY <1>2, <2>1 DEF XrpTransfer, IouTransfer, TokenTransfer, IouAuthorize, CancelOffer,
                      IouClawback, TokenClawback
<1>8. CASE c.op \in {"token.issue", "token.authorize", "token.unauthorize", "token.lock",
                     "token.unlock", "token.destroy"}
  <2>1. Build(c) \in {TokenIssue(c), TokenAuthorize(FALSE, c), TokenAuthorize(TRUE, c),
                      TokenLock(TRUE, c), TokenLock(FALSE, c), TokenDestroy}
    BY <1>8 DEF Build
  <2> QED
    BY <1>2, <2>1 DEF TokenIssue, TokenAuthorize, TokenLock, TokenDestroy
<1>9. CASE c.op \in {"domain.set", "domain.delete", "credential.issue", "credential.accept",
                     "credential.delete", "account.setRegularKey", "account.depositPreauth"}
  <2>1. Build(c) \in {DomainSet(c), DomainDelete, CredentialIssue(c), CredentialAccept,
                      CredentialDelete(c), SetRegularKey(c), DepositPreauth(c)}
    BY <1>9 DEF Build
  <2> QED
    BY <1>2, <2>1 DEF DomainSet, DomainDelete, CredentialIssue, CredentialAccept,
                      CredentialDelete, SetRegularKey, DepositPreauth
<1> QED
  BY <1>1, <1>5, <1>6, <1>7, <1>8, <1>9 DEF Operations

\* A call of any other operation gives its first step the caller's key.
LEMMA CallsPassTheKey ==
  ASSUME NEW c \in Calls, c.op \notin Keyless, Build(c) # <<>>
  PROVE  Build(c)[1].keyed
<1>1. c.op \in Operations
  BY DEF Calls
<1>2. \A tx : One(tx)[1].keyed
  BY DEF One, Step
<1>3. Activate[1].keyed
  BY DEF Activate, Step
<1>4. CASE c.op \in {"xrp.buyOffer", "xrp.sellOffer", "iou.buyOffer", "iou.sellOffer", "account.set"}
  <2>1. Build(c) \in {XrpOffer(FALSE, c), XrpOffer(TRUE, c), IouOffer(FALSE, c), IouOffer(TRUE, c),
                      AccountSet(c)}
    BY <1>4 DEF Build
  <2>2. \A own, sell : Offer(own, sell, c) # <<>> => Offer(own, sell, c)[1].keyed
    BY <1>2 DEF Offer
  <2>3. AccountSet(c) # <<>> => AccountSet(c)[1].keyed
    BY <1>2 DEF AccountSet
  <2>4. CASE Build(c) = AccountSet(c)
    BY <2>3, <2>4
  <2>5. CASE \E own, sell : Build(c) = Offer(own, sell, c)
    BY <2>2, <2>5
  <2> QED
    BY <2>1, <2>4, <2>5 DEF XrpOffer, IouOffer
<1>5. CASE c.op \in {"xrp.transfer", "iou.transfer", "token.transfer", "iou.authorize", "cancelOffer",
                     "iou.clawback", "token.clawback", "account.activate"}
  <2>1. Build(c) \in {XrpTransfer, IouTransfer, TokenTransfer, IouAuthorize, CancelOffer,
                      IouClawback, TokenClawback, Activate}
    BY <1>5 DEF Build
  <2> QED
    BY <1>2, <1>3, <2>1 DEF XrpTransfer, IouTransfer, TokenTransfer, IouAuthorize, CancelOffer,
                            IouClawback, TokenClawback
<1>6. CASE c.op \in {"token.issue", "token.authorize", "token.unauthorize", "token.lock",
                     "token.unlock", "token.destroy"}
  <2>1. Build(c) \in {TokenIssue(c), TokenAuthorize(FALSE, c), TokenAuthorize(TRUE, c),
                      TokenLock(TRUE, c), TokenLock(FALSE, c), TokenDestroy}
    BY <1>6 DEF Build
  <2> QED
    BY <1>2, <2>1 DEF TokenIssue, TokenAuthorize, TokenLock, TokenDestroy
<1>7. CASE c.op \in {"domain.set", "domain.delete", "credential.issue", "credential.accept",
                     "credential.delete", "account.setRegularKey", "account.depositPreauth"}
  <2>1. Build(c) \in {DomainSet(c), DomainDelete, CredentialIssue(c), CredentialAccept,
                      CredentialDelete(c), SetRegularKey(c), DepositPreauth(c)}
    BY <1>7 DEF Build
  <2> QED
    BY <1>2, <2>1 DEF DomainSet, DomainDelete, CredentialIssue, CredentialAccept,
                      CredentialDelete, SetRegularKey, DepositPreauth
<1> QED
  BY <1>1, <1>4, <1>5, <1>6, <1>7 DEF Operations, Keyless

\* A custodian that takes keys has a place for one in every request it is sent.
LEMMA TakersCarryTheKey ==
  ASSUME NEW custodian \in Custodians, NEW tx, NEW q \in Request(custodian, tx),
         \/ custodian.kind = "ripple-custody"
         \/ custodian.kind = "palisade" /\ tx.type \notin PalisadeNative \ {"Payment"}
  PROVE  CarriesKey(q, tx)
<1>1. CASE custodian.kind = "ripple-custody"
  <2>1. q \in RippleRequest(custodian.allowRaw, tx)
    BY <1>1 DEF Request
  <2>2. q.method \in {"order", "manifest"}
    BY <2>1 DEF RippleRequest, Mapped, Whole
  <2> QED
    BY <2>2 DEF CarriesKey
<1>2. CASE custodian.kind = "palisade" /\ tx.type \notin PalisadeNative \ {"Payment"}
  <2>1. q \in PalisadeRequest(custodian.allowRaw, tx)
    BY <1>2 DEF Request
  <2>2. \/ q.method = "transfer" /\ tx.type \in PalisadeNative
        \/ q.method = "raw"
    BY <2>1 DEF PalisadeRequest, Mapped, Whole
  <2> QED
    BY <1>2, <2>2 DEF CarriesKey
<1> QED
  BY <1>1, <1>2

\* What a step is posted as depends on the call only, and so does whether it is keyed.
LEMMA CallIsKept ==
  ASSUME UNCHANGED called
  PROVE  /\ Steps' = Steps /\ Orders' = Orders /\ Len(steps)' = Len(steps)
         /\ \A k : Keyed(k)' <=> Keyed(k)
BY DEF called, Steps, Orders, Keyed, Asks

\* An operation starts with nothing posted.
LEMMA InitCorrect == Init => StepInv
<1> SUFFICES ASSUME Init PROVE StepInv
  OBVIOUS
<1>1. Len(steps) \in Nat \ {0}
  BY StepAssumption, CallsHaveSteps DEF Init
<1>2. StepTypes
  BY <1>1, StepAssumption DEF Init, StepTypes, Steps, Runs, Orders, Fates
<1>3. \A r \in Runs, k \in Steps : fate[<<r, k>>] = "unsent"
  BY DEF Init, Orders
<1>4. run \in Runs /\ step \in Steps
  BY <1>2 DEF StepTypes
<1>5. ProgressInv /\ CommittedIsApplied /\ OrdersInv /\ Barrier
  BY <1>3, <1>4 DEF Init, ProgressInv, CommittedIsApplied, OrdersInv, Barrier, Current
<1>6. KeyInv
  BY <1>3 DEF KeyInv, Made
<1>7. CarefulInv
  BY <1>2, <1>3 DEF Init, CarefulInv, Live, StepTypes
<1> QED
  BY <1>2, <1>5, <1>6, <1>7 DEF StepInv

-----------------------------------------------------------------------------
(* The custodian                                                            *)

\* A request may arrive, be lost, land or die at any time: what has been applied stays
\* so, nothing comes to life, and an order is made under a key only if there is none.
LEMMA CustodianCorrect ==
  ASSUME StepInv, NEW o \in Orders, OrderStep(o)
  PROVE  StepInv'
<1>. USE DEF StepInv
<1>1. UNCHANGED <<called, run, step, pc, committed, careful>>
  BY DEF OrderStep, Arrive, Lose, Apply, Die, Move
<1>2. /\ Steps' = Steps /\ Orders' = Orders /\ Len(steps)' = Len(steps)
      /\ \A k : Keyed(k)' <=> Keyed(k)
  BY <1>1, CallIsKept
<1>3. PICK f \in Fates : /\ fate' = [fate EXCEPT ![o] = f]
                         /\ fate[o] \in {"sent", "open"} /\ f \notin {"unsent", "sent"}
                         /\ f = "open" => fate[o] = "sent" /\ (Keyed(o[2]) => Made(o[2]) = {})
                         /\ f = "found" => Keyed(o[2])
                         /\ f \in {"applied", "dead"} => fate[o] = "open"
  BY DEF OrderStep, Arrive, Lose, Apply, Die, Move, Fates
<1>4. /\ fate \in [Orders -> Fates] /\ fate'[o] = f
      /\ \A x \in Orders : x # o => fate'[x] = fate[x]
  BY <1>3 DEF StepTypes
<1>5. StepTypes'
  BY <1>1, <1>2, <1>3 DEF StepTypes
<1>6. \A x \in Orders : /\ fate'[x] = "unsent" <=> fate[x] = "unsent"
                        /\ fate[x] = "applied" => fate'[x] = "applied"
                        /\ Live(x)' => Live(x)
  BY <1>3, <1>4 DEF Live
<1>7. \A k \in Steps : AppliedOrders(k) \subseteq AppliedOrders(k)'
  BY <1>6 DEF AppliedOrders, Orders
<1>8. ProgressInv'
  BY <1>1 DEF ProgressInv
<1>9. OrdersInv'
  BY <1>1, <1>2, <1>6 DEF OrdersInv, Orders, Current, StepTypes
<1>10. KeyInv'
  <2> SUFFICES ASSUME NEW k \in Steps
               PROVE  /\ Keyed(k) => \A r, q \in Made(k)' : r = q
                      /\ \A r \in Runs : fate'[<<r, k>>] = "found" => Keyed(k)
    BY <1>2 DEF KeyInv
  <2>1. PICK r0 \in Runs, k0 \in Steps : o = <<r0, k0>>
    BY DEF Orders
  <2>2. \A r \in Runs : <<r, k>> \in Orders
    BY DEF Orders
  <2>3. \A r \in Runs : r \in Made(k)' => r \in Made(k) \/ (<<r, k>> = o /\ (Keyed(k) => Made(k) = {}))
    BY <1>3, <1>4, <2>1, <2>2 DEF Made
  <2>4. \A r \in Made(k)' : r \in Runs
    BY DEF Made
  <2>5. Keyed(k) => \A r, q \in Made(k)' : r = q
    BY <2>1, <2>3, <2>4 DEF KeyInv
  <2>6. \A r \in Runs : fate'[<<r, k>>] = "found" => Keyed(k)
    BY <1>3, <1>4, <2>1, <2>2 DEF KeyInv
  <2> QED
    BY <2>5, <2>6
<1>11. CommittedIsApplied'
  BY <1>1, <1>2, <1>7 DEF CommittedIsApplied, StepTypes
<1>12. Barrier'
  <2>1. \A k \in Steps : k > 1 => k - 1 \in Steps
    BY DEF Steps, StepTypes
  <2> QED
    BY <1>2, <1>6, <1>7, <2>1 DEF Barrier, Orders
<1>13. ASSUME careful' PROVE CarefulInv'
  <2>1. CarefulInv
    BY <1>1, <1>13
  <2>2. \A r \in Runs, k \in Steps : /\ Live(<<r, k>>)' => Live(<<r, k>>)
                                     /\ fate'[<<r, k>>] = "unsent" <=> fate[<<r, k>>] = "unsent"
    BY <1>6 DEF Orders
  <2>3. step \in Steps
    BY DEF StepTypes
  <2> QED
    BY <1>1, <1>2, <2>1, <2>2, <2>3 DEF CarefulInv
<1> QED
  BY <1>5, <1>8, <1>9, <1>10, <1>11, <1>12, <1>13

-----------------------------------------------------------------------------
(* The call                                                                 *)

\* A step is posted when those before it have been applied and, if the caller is
\* careful, when no earlier request for it is live that its key would not find.
LEMMA PostCorrect == StepInv /\ Post => StepInv'
<1> SUFFICES ASSUME StepInv, Post PROVE StepInv'
  OBVIOUS
<1>. USE DEF StepInv
<1>1. /\ UNCHANGED <<called, run, step, committed, careful>>
      /\ pc = "ready" /\ pc' = "waiting"
  BY DEF Post
<1>2. /\ Steps' = Steps /\ Orders' = Orders /\ Len(steps)' = Len(steps)
      /\ \A k : Keyed(k)' <=> Keyed(k)
  BY <1>1, CallIsKept
<1>3. /\ run \in Runs /\ step \in Steps /\ fate \in [Orders -> Fates]
      /\ \A r \in Runs, k \in Steps : <<r, k>> \in Orders
      /\ fate[<<run, step>>] = "unsent"
  BY <1>1 DEF StepTypes, Orders, OrdersInv, Current
<1>4. fate' = [fate EXCEPT ![<<run, step>>] = "sent"]
  BY DEF Post, Current
<1>5. StepTypes'
  BY <1>1, <1>2, <1>4 DEF StepTypes, Fates
<1>6. /\ fate'[<<run, step>>] = "sent"
      /\ \A r \in Runs, k \in Steps : r # run \/ k # step => fate'[<<r, k>>] = fate[<<r, k>>]
  BY <1>3, <1>4
<1>7. \A k \in Steps : AppliedOrders(k)' = AppliedOrders(k) /\ Made(k)' = Made(k)
  BY <1>3, <1>6 DEF AppliedOrders, Made
<1>8. ProgressInv'
  BY <1>1 DEF ProgressInv
<1>9. OrdersInv'
  <2>1. \A r \in Runs, k \in Steps : r > run \/ (r = run /\ k > step) => r # run \/ k # step
    BY <1>3, StepAssumption DEF Runs, Steps, StepTypes
  <2> QED
    BY <1>1, <1>2, <1>6, <2>1 DEF OrdersInv
<1>10. KeyInv'
  BY <1>2, <1>3, <1>6, <1>7 DEF KeyInv
<1>11. CommittedIsApplied'
  BY <1>1, <1>2, <1>7 DEF CommittedIsApplied, StepTypes
<1>12. Barrier'
  <2> SUFFICES ASSUME NEW r \in Runs, NEW k \in Steps, k > 1, fate'[<<r, k>>] # "unsent"
               PROVE  AppliedOrders(k - 1) # {}
    <3>1. \A k \in Steps : k > 1 => k - 1 \in Steps
      BY DEF Steps, StepTypes
    <3> QED
      BY <1>2, <1>7, <3>1 DEF Barrier
  <2>1. CASE k = step
    <3>1. k - 1 \in committed
      BY <2>1 DEF ProgressInv, Steps, StepTypes
    <3> QED
      BY <3>1 DEF CommittedIsApplied
  <2>2. CASE k # step
    BY <1>6, <2>2 DEF Barrier
  <2> QED
    BY <2>1, <2>2
<1>13. ASSUME careful' PROVE CarefulInv'
  <2>1. CarefulInv
    BY <1>1, <1>13
  <2>2. \A r \in Runs, k \in Steps : Live(<<r, k>>)' => Live(<<r, k>>) \/ (r = run /\ k = step)
    BY <1>6 DEF Live
  <2>3. Keyed(step) \/ \A r \in Runs : ~Live(<<r, step>>)
    BY <1>1, <2>1 DEF CarefulInv
  <2>4. \A k \in Steps : Keyed(k) \/ \A r, q \in Runs : Live(<<r, k>>)' /\ Live(<<q, k>>)' => r = q
    BY <2>1, <2>2, <2>3 DEF CarefulInv
  <2>5. \A r \in Runs, k \in Steps : k > step => fate'[<<r, k>>] = "unsent"
    <3>1. \A k \in Steps : k > step => k # step
      BY <1>3 DEF Steps, StepTypes
    <3> QED
      BY <1>6, <2>1, <3>1 DEF CarefulInv
  <2>6. Keyed(step) \/ \A r \in Runs : Live(<<r, step>>)' => r = run
    <3> SUFFICES ASSUME ~Keyed(step), NEW r \in Runs, Live(<<r, step>>)'
                 PROVE  r = run
      OBVIOUS
    <3>1. step \in Steps
      BY DEF StepTypes
    <3>2. Live(<<r, step>>) \/ r = run
      BY <1>1, <1>6, <3>1 DEF Live
    <3> QED
      BY <2>3, <3>2
  <2> QED
    BY <1>1, <1>2, <2>4, <2>5, <2>6 DEF CarefulInv
<1> QED
  BY <1>5, <1>8, <1>9, <1>10, <1>11, <1>12, <1>13

\* The other steps of a call, and its caller's, leave the requests alone; they keep what
\* is said of orders if no request yet to come is used.
LEMMA OrdersStand ==
  ASSUME StepInv, UNCHANGED <<called, fate>>, run' \in Runs, step' \in Steps,
         run' > run \/ (run' = run /\ step' >= step), pc' = "ready" => fate[Current'] = "unsent"
  PROVE  /\ OrdersInv' /\ Barrier' /\ KeyInv'
         /\ \A k \in Steps : AppliedOrders(k)' = AppliedOrders(k)
<1>1. /\ Steps' = Steps /\ Orders' = Orders
      /\ \A k : Keyed(k)' <=> Keyed(k)
  BY CallIsKept
<1>2. OrdersInv'
  <2>1. /\ run \in Nat /\ run' \in Nat /\ step \in Nat /\ step' \in Nat
        /\ \A r \in Runs : r \in Nat
        /\ \A k \in Steps : k \in Nat
    BY StepAssumption DEF StepInv, StepTypes, Runs, Steps
  <2>2. \A r \in Runs, k \in Steps : r > run' \/ (r = run' /\ k > step') => r > run \/ (r = run /\ k > step)
    BY <2>1
  <2> QED
    BY <1>1, <2>2 DEF StepInv, OrdersInv
<1>3. \A k : AppliedOrders(k)' = AppliedOrders(k) /\ Made(k)' = Made(k)
  BY DEF AppliedOrders, Made
<1>4. Barrier'
  BY <1>1, <1>3 DEF StepInv, Barrier
<1>5. KeyInv'
  BY <1>1, <1>3 DEF StepInv, KeyInv
<1> QED
  BY <1>2, <1>3, <1>4, <1>5

\* What is yet to be posted when the call goes on, or is made again.
LEMMA NextIsUnsent ==
  ASSUME StepInv
  PROVE  /\ \A k \in Steps : k > step => fate[<<run, k>>] = "unsent"
         /\ \A r \in Runs, k \in Steps : r > run => fate[<<r, k>>] = "unsent"
BY DEF StepInv, StepTypes, OrdersInv

\* A refused step, a conflict, a step that died and one in doubt end the call; only
\* the last, or a step with a key, leaves an order that may be live.
LEMMA FailureCorrect ==
  ASSUME StepInv, Refuse \/ PostConflicts \/ StepDies \/ StepInDoubt
  PROVE  StepInv'
<1>. USE DEF StepInv
<1>1. /\ UNCHANGED <<called, run, step, committed, fate, careful>>
      /\ \/ pc = "ready" /\ pc' = "failed"
         \/ pc = "waiting" /\ pc' = "failed" /\ fate[Current] \in {"dead", "found"}
         \/ pc = "waiting" /\ pc' = "inDoubt"
  BY DEF Refuse, PostConflicts, Conflicts, StepDies, Became, StepInDoubt
<1>2. /\ Steps' = Steps /\ Orders' = Orders /\ Len(steps)' = Len(steps)
      /\ \A k : Keyed(k)' <=> Keyed(k)
  BY <1>1, CallIsKept
<1>3. run \in Runs /\ step \in Steps /\ run \in Nat /\ step \in Nat
  BY StepAssumption DEF StepTypes, Runs, Steps
<1>4. StepTypes'
  BY <1>1, <1>2 DEF StepTypes
<1>5. /\ OrdersInv' /\ Barrier' /\ KeyInv'
      /\ \A k \in Steps : AppliedOrders(k)' = AppliedOrders(k)
  BY <1>1, <1>2, <1>3, OrdersStand
<1>6. ProgressInv' /\ CommittedIsApplied'
  BY <1>1, <1>2, <1>5 DEF ProgressInv, CommittedIsApplied, StepTypes
<1>7. ASSUME careful' PROVE CarefulInv'
  <2>1. CarefulInv
    BY <1>1, <1>7
  <2>2. pc' = "failed" => Keyed(step) \/ \A r \in Runs : ~Live(<<r, step>>)
    <3>1. CASE pc = "ready"
      BY <2>1, <3>1 DEF CarefulInv
    <3>2. CASE pc = "waiting" /\ fate[Current] \in {"dead", "found"}
      <4>1. fate[Current] = "found" => Keyed(step)
        BY <1>3 DEF KeyInv, Current
      <4>2. ~Live(<<run, step>>)
        BY <3>2 DEF Live, Current
      <4> QED
        BY <2>1, <3>2, <4>2 DEF CarefulInv
    <3> QED
      BY <1>1, <3>1, <3>2
  <2> QED
    BY <1>1, <1>2, <2>1, <2>2 DEF CarefulInv, Live
<1> QED
  BY <1>4, <1>5, <1>6, <1>7

\* A step that has been applied is committed, by the call or by the caller that
\* awaited it, and the next one starts with nothing of it posted.
LEMMA CommitCorrect == StepInv /\ (StepSucceeds \/ ResumeAfter) => StepInv'
<1> SUFFICES ASSUME StepInv, StepSucceeds \/ ResumeAfter PROVE StepInv'
  OBVIOUS
<1>. USE DEF StepInv
<1>1. /\ UNCHANGED <<called, fate, careful>>
      /\ Became("applied")
      /\ run' \in Runs /\ (run' = run \/ run' = run + 1)
      /\ committed' = committed \cup {step}
      /\ \/ step = Len(steps) /\ pc' = "done" /\ step' = step
         \/ step # Len(steps) /\ pc' = "ready" /\ step' = step + 1
  BY StepAssumption DEF StepSucceeds, Commit, ResumeAfter, StepTypes, Runs
<1>2. /\ Steps' = Steps /\ Orders' = Orders /\ Len(steps)' = Len(steps)
      /\ \A k : Keyed(k)' <=> Keyed(k)
  BY <1>1, CallIsKept
<1>3. StepTypes'
  BY <1>1, <1>2 DEF StepTypes, Steps
<1>4. run \in Runs /\ step \in Steps /\ run \in Nat /\ step \in Nat /\ step' \in Steps /\ step' \in Nat
  BY <1>1, <1>2, <1>3, StepAssumption DEF StepTypes, Runs, Steps
<1>5. /\ OrdersInv' /\ Barrier' /\ KeyInv'
      /\ \A k \in Steps : AppliedOrders(k)' = AppliedOrders(k)
  <2>1. run' > run \/ (run' = run /\ step' >= step)
    BY <1>1, <1>4
  <2>2. pc' = "ready" => fate[Current'] = "unsent"
    <3>1. pc' = "ready" => (run' = run \/ run' > run) /\ step' > step
      BY <1>1, <1>4
    <3>2. Current' = <<run', step'>>
      BY DEF Current
    <3> QED
      BY <1>1, <1>4, <3>1, <3>2, NextIsUnsent
  <2> QED
    BY <1>1, <1>4, <2>1, <2>2, OrdersStand
<1>6. ProgressInv'
  BY <1>1 DEF ProgressInv, StepTypes, Steps
<1>7. AppliedOrders(step) # {}
  BY <1>1, <1>4 DEF AppliedOrders, Became, Current, Made
<1>8. CommittedIsApplied'
  <2>1. \A k \in committed' : AppliedOrders(k)' # {}
    BY <1>1, <1>5, <1>7 DEF CommittedIsApplied, StepTypes
  <2>2. pc' = "done" => committed' = Steps
    <3>1. \A k \in Steps : step = Len(steps) => k \in 1..(step - 1) \/ k = step
      BY DEF StepTypes, Steps
    <3>2. pc' = "done" => step = Len(steps)
      BY <1>1
    <3> QED
      BY <1>1, <3>1, <3>2 DEF ProgressInv, StepTypes
  <2> QED
    BY <1>2, <2>1, <2>2 DEF CommittedIsApplied
<1>9. ASSUME careful' PROVE CarefulInv'
  <2>1. CarefulInv
    BY <1>1, <1>9
  <2>2. \A r \in Runs, k \in Steps : k > step' => fate[<<r, k>>] = "unsent"
    BY <1>1, <2>1 DEF CarefulInv, StepTypes, Steps
  <2>3. pc' = "ready" => \A r \in Runs : ~Live(<<r, step'>>)
    BY <1>1, <1>2, <1>3, <2>1 DEF CarefulInv, StepTypes, Steps, Live
  <2> QED
    BY <1>1, <1>2, <2>1, <2>2, <2>3 DEF CarefulInv, Live
<1> QED
  BY <1>3, <1>5, <1>6, <1>8, <1>9

-----------------------------------------------------------------------------
(* The caller                                                               *)

\* Called again, an operation starts from the top, and its caller is careful no more.
LEMMA CallAgainCorrect == StepInv /\ CallAgain => StepInv'
<1> SUFFICES ASSUME StepInv, CallAgain PROVE StepInv'
  OBVIOUS
<1>. USE DEF StepInv
<1>1. /\ UNCHANGED <<called, fate>>
      /\ run' \in Runs /\ run' > run
      /\ step' = 1 /\ pc' = "ready" /\ committed' = {} /\ careful' = FALSE
  BY StepAssumption DEF CallAgain, StepTypes, Runs
<1>2. Steps' = Steps /\ Orders' = Orders /\ Len(steps)' = Len(steps)
  BY <1>1, CallIsKept
<1>3. step' \in Steps
  BY <1>1 DEF StepTypes, Steps
<1>4. StepTypes'
  <2>1. careful' \in BOOLEAN
    BY <1>1, Zenon
  <2> QED
    BY <1>1, <1>2, <1>3, <2>1 DEF StepTypes
<1>5. OrdersInv' /\ Barrier' /\ KeyInv'
  <2>1. fate[Current'] = "unsent"
    BY <1>1, <1>3, NextIsUnsent DEF Current
  <2> QED
    BY <1>1, <1>3, <2>1, OrdersStand
<1>6. ProgressInv' /\ CommittedIsApplied'
  BY <1>1 DEF ProgressInv, CommittedIsApplied
<1> QED
  BY <1>1, <1>4, <1>5, <1>6

\* A caller that resumes knows that its last request is dead, or its key will find it.
LEMMA ResumeCorrect == StepInv /\ ResumeAt => StepInv'
<1> SUFFICES ASSUME StepInv, ResumeAt PROVE StepInv'
  OBVIOUS
<1>. USE DEF StepInv
<1>1. /\ UNCHANGED <<called, step, committed, fate, careful>>
      /\ run' \in Runs /\ run' > run
      /\ pc' = "ready"
      /\ pc = "failed" \/ (pc = "inDoubt" /\ fate[Current] \in {"dead", "lost", "found"})
  BY StepAssumption DEF ResumeAt, Became, StepTypes, Runs
<1>2. /\ Steps' = Steps /\ Orders' = Orders /\ Len(steps)' = Len(steps)
      /\ \A k : Keyed(k)' <=> Keyed(k)
  BY <1>1, CallIsKept
<1>3. run \in Runs /\ step \in Steps /\ step' \in Steps
  BY <1>1 DEF StepTypes
<1>4. StepTypes'
  BY <1>1, <1>2 DEF StepTypes
<1>5. /\ OrdersInv' /\ Barrier' /\ KeyInv'
      /\ \A k \in Steps : AppliedOrders(k)' = AppliedOrders(k)
  <2>1. fate[Current'] = "unsent"
    BY <1>1, <1>3, NextIsUnsent DEF Current
  <2> QED
    BY <1>1, <1>3, <2>1, OrdersStand
<1>6. ProgressInv' /\ CommittedIsApplied'
  BY <1>1, <1>2, <1>5 DEF ProgressInv, CommittedIsApplied, StepTypes
<1>7. ASSUME careful' PROVE CarefulInv'
  <2>1. CarefulInv
    BY <1>1, <1>7
  <2>2. Keyed(step) \/ \A r \in Runs : ~Live(<<r, step>>)
    <3>1. CASE pc = "failed"
      BY <2>1, <3>1 DEF CarefulInv
    <3>2. CASE pc = "inDoubt" /\ fate[Current] \in {"dead", "lost", "found"}
      <4>1. ~Live(<<run, step>>)
        BY <3>2 DEF Live, Current
      <4> QED
        BY <2>1, <3>2, <4>1 DEF CarefulInv
    <3> QED
      BY <1>1, <3>1, <3>2
  <2> QED
    BY <1>1, <1>2, <2>1, <2>2 DEF CarefulInv, Live
<1> QED
  BY <1>4, <1>5, <1>6, <1>7

-----------------------------------------------------------------------------
(* Forms                                                                    *)

\* A part that a mapping neither takes over nor looks for is dropped in silence;
\* Palisade's mapping of an offer drops these two.
Known(form) == form.slots \cup form.throws
Dropped(type) == IF type = "OfferCreate" THEN {<<"DomainID", "given">>, <<"Flags", "tfHybrid">>} ELSE {}

\* A transaction of which no mapping drops anything else.
Expressed(tx) ==
  /\ tx.type \in RippleNative => tx.parts \subseteq Known(RippleForm(tx.type))
  /\ tx.type \in PalisadeNative => tx.parts \ Dropped(tx.type) \subseteq Known(PalisadeForm(tx.type))

\* A mapping that knows a part carries it or refuses the transaction.
LEMMA MappedIsWhole ==
  ASSUME NEW method, NEW form, NEW tx, NEW D,
         tx.parts \ D \subseteq Known(form), NEW q \in Mapped(method, form, tx)
  PROVE  q.method = method /\ tx.parts \ D \subseteq q.carries
BY DEF Known, Mapped

\* The amount of a payment decides whether it is mapped.
LEMMA PaymentIsExpressed ==
  ASSUME NEW kind \in {"XRP", "IOU", "MPT"}
  PROVE  Expressed(Payment(kind))
<1>1. RippleForm("Payment") = RipplePayment /\ PalisadeForm("Payment") = PalisadePayment
  BY DEF RippleForm, PalisadeForm
<1>2. Payment(kind).type = "Payment"
  BY DEF Payment, Tx
<1>3. \A p \in Payment(kind).parts : p = <<"Destination", "given">> \/ p = <<"Amount", kind>>
  BY DEF Payment, Tx, Given
<1>4. <<"Destination", "given">> \in Known(RipplePayment) \cap Known(PalisadePayment)
  BY DEF Known, RipplePayment, PalisadePayment, Given
<1>5. <<"Amount", kind>> \in Known(RipplePayment) \cap Known(PalisadePayment)
  BY DEF Known, RipplePayment, PalisadePayment, Amounts
<1> QED
  BY <1>1, <1>2, <1>3, <1>4, <1>5 DEF Expressed, Dropped

\* The flags, the sides and the domain of an offer are all known to Ripple Custody.
LEMMA OfferIsExpressed ==
  ASSUME NEW own \in {"XRP", "IOU"}, NEW sell \in BOOLEAN, NEW c
  PROVE  Expressed(BuildOfferCreate(own, sell, c))
<1> DEFINE tx == BuildOfferCreate(own, sell, c)
<1>1. RippleForm("OfferCreate") = RippleOfferCreate /\ PalisadeForm("OfferCreate") = PalisadeOfferCreate
  BY DEF RippleForm, PalisadeForm
<1>2. tx.type = "OfferCreate"
  BY DEF BuildOfferCreate, Tx
<1>3. \A p \in tx.parts :
        \/ p \in {"TakerGets", "TakerPays"} \X {"XRP", "IOU"}
        \/ p \in Flags({"tfImmediateOrCancel", "tfFillOrKill", "tfPassive", "tfSell", "tfHybrid"})
        \/ p \in Given({"DomainID", "OfferSequence"})
  <2>1. PricedIn(c) \subseteq {"XRP", "IOU"}
    BY DEF PricedIn
  <2>2. OrderTypeFlags(c) \subseteq Flags({"tfImmediateOrCancel", "tfFillOrKill", "tfPassive"})
    <3>1. \A f \in OrderTypeFlag : f[2] \in {"tfImmediateOrCancel", "tfFillOrKill", "tfPassive"}
      BY DEF OrderTypeFlag
    <3> QED
      BY <3>1 DEF OrderTypeFlags, Flags
  <2> QED
    BY <2>1, <2>2 DEF BuildOfferCreate, Tx, When, Flags, Given
<1>. HIDE DEF tx
<1>4. tx.parts \subseteq Known(RippleOfferCreate)
  BY <1>3 DEF Known, RippleOfferCreate, Legs, Flags, Given
<1>5. tx.parts \ Dropped("OfferCreate") \subseteq Known(PalisadeOfferCreate)
  BY <1>3 DEF Known, PalisadeOfferCreate, Legs, Flags, Given, Dropped
<1> QED
  BY <1>1, <1>2, <1>4, <1>5 DEF Expressed, tx

\* Deep freezes are refused by Ripple Custody and taken over by Palisade.
LEMMA TrustSetIsExpressed ==
  ASSUME NEW flags \in SUBSET {"tfSetfAuth", "tfSetFreeze", "tfClearFreeze", "tfSetDeepFreeze", "tfClearDeepFreeze"}
  PROVE  Expressed(TrustSet(flags))
<1>1. RippleForm("TrustSet") = RippleTrustSet /\ PalisadeForm("TrustSet") = PalisadeTrustSet
  BY DEF RippleForm, PalisadeForm
<1>2. TrustSet(flags).type = "TrustSet"
  BY DEF TrustSet, Tx
<1>3. TrustSet(flags).parts = Given({"LimitAmount"}) \cup Flags(flags)
  BY DEF TrustSet, Tx
<1>4. Given({"LimitAmount"}) \cup Flags(flags) \subseteq Known(RippleTrustSet)
  BY DEF Known, RippleTrustSet, Flags, Given
<1>5. Given({"LimitAmount"}) \cup Flags(flags) \subseteq Known(PalisadeTrustSet)
  BY DEF Known, PalisadeTrustSet, Flags, Given
<1> QED
  BY <1>1, <1>2, <1>3, <1>4, <1>5 DEF Expressed

\* The flags and settings of an account are all known to both custodians.
LEMMA AccountSetIsExpressed ==
  ASSUME NEW parts,
         parts \subseteq Asf(AccountFlags) \cup Given({"TransferRate", "TickSize", "Domain"})
  PROVE  Expressed(Tx("AccountSet", parts))
<1>1. RippleForm("AccountSet") = RippleAccountSet /\ PalisadeForm("AccountSet") = PalisadeAccountSet
  BY DEF RippleForm, PalisadeForm
<1>2. Asf(AccountFlags) \subseteq Asf(RippleAsf) \cup Asf(AccountFlags \ RippleAsf)
  BY DEF Asf
<1>3. Asf(AccountFlags) \subseteq Asf({"trustLineLocking"}) \cup Asf(AccountFlags \ {"trustLineLocking"})
  BY DEF Asf
<1>4. parts \subseteq Known(RippleAccountSet)
  BY <1>2 DEF Known, RippleAccountSet, Given
<1>5. parts \subseteq Known(PalisadeAccountSet)
  BY <1>3 DEF Known, PalisadeAccountSet, Given
<1> QED
  BY <1>1, <1>4, <1>5 DEF Expressed, Tx

\* Clawbacks, deposit preauthorisations and MPTs are native to Ripple Custody only.
LEMMA RippleOnlyIsExpressed ==
  ASSUME NEW type \in {"Clawback", "DepositPreauth", "MPTokenAuthorize", "MPTokenIssuanceCreate",
                       "MPTokenIssuanceDestroy", "MPTokenIssuanceSet"},
         NEW parts, parts \subseteq Known(RippleForm(type))
  PROVE  Expressed(Tx(type, parts))
BY DEF Expressed, Tx, PalisadeNative

\* What neither custodian has a form for is signed whole.
LEMMA OthersAreExpressed ==
  ASSUME NEW type, type \notin RippleNative, NEW parts,
         type \in PalisadeNative => parts \subseteq Known(PalisadeForm(type))
  PROVE  Expressed(Tx(type, parts))
BY DEF Expressed, Tx

-----------------------------------------------------------------------------
(* What the operations build                                                *)

\* A well-formed step: one of the call's two accounts, and a known transaction.
Expressible(s) == s.by \in {"from", "other"} /\ Expressed(s.tx)
AllExpressible(call) == \A k \in 1..Len(call) : Expressible(call[k])

\* An operation of one step is as expressible as its transaction.
LEMMA OneIsExpressible ==
  ASSUME NEW tx, Expressed(tx)
  PROVE  AllExpressible(One(tx))
BY DEF AllExpressible, Expressible, One, Step

\* The operations, by what they are built of.
LEMMA TransfersExpressible ==
  AllExpressible(XrpTransfer) /\ AllExpressible(IouTransfer) /\ AllExpressible(TokenTransfer)
BY PaymentIsExpressed, OneIsExpressible DEF XrpTransfer, IouTransfer, TokenTransfer

\* Offers of both verticals, buying and selling.
LEMMA OffersExpressible ==
  ASSUME NEW sell \in BOOLEAN, NEW c
  PROVE  AllExpressible(XrpOffer(sell, c)) /\ AllExpressible(IouOffer(sell, c))
<1>1. \A own \in {"XRP", "IOU"} : AllExpressible(Offer(own, sell, c))
  BY OfferIsExpressed, OneIsExpressible DEF Offer, AllExpressible
<1> QED
  BY <1>1 DEF XrpOffer, IouOffer

\* Only Palisade maps a cancellation.
LEMMA CancelExpressible == AllExpressible(CancelOffer)
<1>1. PalisadeForm("OfferCancel") = PalisadeOfferCancel
  BY DEF PalisadeForm
<1>2. "OfferCancel" \notin RippleNative
  BY DEF RippleNative
<1>3. Given({"OfferSequence"}) \subseteq Known(PalisadeOfferCancel)
  BY DEF Known, PalisadeOfferCancel
<1> QED
  BY <1>1, <1>2, <1>3, OthersAreExpressed, OneIsExpressible DEF CancelOffer

\* The step that enables rippling on an account.
LEMMA EnableExpressed == Expressed(Tx("AccountSet", {<<"SetFlag", "defaultRipple">>}))
<1>1. {<<"SetFlag", "defaultRipple">>} \subseteq Asf(AccountFlags)
  BY DEF Asf, AccountFlags
<1> QED
  BY <1>1, AccountSetIsExpressed

\* The IOU vertical's steps.
LEMMA IouExpressible ==
  ASSUME NEW c
  PROVE  /\ AllExpressible(IouIssue(c)) /\ AllExpressible(IouAuthorize) /\ AllExpressible(IouClawback)
         /\ AllExpressible(SetFreeze("tfSetFreeze", "tfSetDeepFreeze"))
         /\ AllExpressible(SetFreeze("tfClearDeepFreeze", "tfClearFreeze"))
<1>1. AllExpressible(IouIssue(c))
  BY TrustSetIsExpressed, EnableExpressed, PaymentIsExpressed
     DEF IouIssue, AllExpressible, Expressible, Step
<1>2. AllExpressible(IouAuthorize)
  BY TrustSetIsExpressed, OneIsExpressible DEF IouAuthorize
<1>3. AllExpressible(IouClawback)
  <2>1. RippleForm("Clawback") = RippleClawback
    BY DEF RippleForm
  <2>2. {<<"Amount", "IOU">>} \subseteq Known(RippleClawback)
    BY DEF Known, RippleClawback, Amounts
  <2> QED
    BY <2>1, <2>2, RippleOnlyIsExpressed, OneIsExpressible DEF IouClawback
<1>4. \A f, g \in {"tfSetFreeze", "tfClearFreeze", "tfSetDeepFreeze", "tfClearDeepFreeze"} :
        AllExpressible(SetFreeze(f, g))
  BY TrustSetIsExpressed DEF SetFreeze, AllExpressible, Expressible, Step
<1> QED
  BY <1>1, <1>2, <1>3, <1>4

\* The Token vertical's steps.
LEMMA TokenExpressible ==
  ASSUME NEW c, NEW b \in BOOLEAN
  PROVE  /\ AllExpressible(TokenIssue(c)) /\ AllExpressible(TokenAuthorize(b, c))
         /\ AllExpressible(TokenLock(b, c)) /\ AllExpressible(TokenDestroy)
         /\ AllExpressible(TokenClawback)
<1>1. AllExpressible(TokenIssue(c))
  <2>1. RippleForm("MPTokenIssuanceCreate") = RippleMPTokenIssuanceCreate
    BY DEF RippleForm
  <2>2. Given({"AssetScale", "MPTokenMetadata"})
         \cup Given({f \in {"MaximumAmount", "TransferFee"} : Asked(c, f)})
         \cup Flags({f \in IssueFlags : (f = "tfMPTRequireAuth") <=> (<<"switch", f>> \in c.opts)})
        \subseteq Known(RippleMPTokenIssuanceCreate)
    BY DEF Known, RippleMPTokenIssuanceCreate, Given, Flags
  <2> QED
    BY <2>1, <2>2, RippleOnlyIsExpressed, OneIsExpressible DEF TokenIssue
<1>2. AllExpressible(TokenAuthorize(b, c))
  <2>1. RippleForm("MPTokenAuthorize") = RippleMPTokenAuthorize
    BY DEF RippleForm
  <2>2. Given({"MPTokenIssuanceID"}) \cup When(Asked(c, "Holder"), Given({"Holder"}))
         \cup When(b, Flags({"tfMPTUnauthorize"}))
        \subseteq Known(RippleMPTokenAuthorize)
    BY DEF Known, RippleMPTokenAuthorize, Given, Flags, When
  <2> QED
    BY <2>1, <2>2, RippleOnlyIsExpressed, OneIsExpressible DEF TokenAuthorize
<1>3. AllExpressible(TokenLock(b, c))
  <2>1. RippleForm("MPTokenIssuanceSet") = RippleMPTokenIssuanceSet
    BY DEF RippleForm
  <2>2. Given({"MPTokenIssuanceID"}) \cup When(Asked(c, "Holder"), Given({"Holder"}))
         \cup Flags({IF b THEN "tfMPTLock" ELSE "tfMPTUnlock"})
        \subseteq Known(RippleMPTokenIssuanceSet)
    BY DEF Known, RippleMPTokenIssuanceSet, Given, Flags, When
  <2> QED
    BY <2>1, <2>2, RippleOnlyIsExpressed, OneIsExpressible DEF TokenLock
<1>4. AllExpressible(TokenDestroy)
  <2>1. RippleForm("MPTokenIssuanceDestroy") = RippleMPTokenIssuanceDestroy
    BY DEF RippleForm
  <2>2. Given({"MPTokenIssuanceID"}) \subseteq Known(RippleMPTokenIssuanceDestroy)
    BY DEF Known, RippleMPTokenIssuanceDestroy
  <2> QED
    BY <2>1, <2>2, RippleOnlyIsExpressed, OneIsExpressible DEF TokenDestroy
<1>5. AllExpressible(TokenClawback)
  <2>1. RippleForm("Clawback") = RippleClawback
    BY DEF RippleForm
  <2>2. {<<"Amount", "MPT">>} \cup Given({"Holder"}) \subseteq Known(RippleClawback)
    BY DEF Known, RippleClawback, Amounts
  <2> QED
    BY <2>1, <2>2, RippleOnlyIsExpressed, OneIsExpressible DEF TokenClawback
<1> QED
  BY <1>1, <1>2, <1>3, <1>4, <1>5

\* Domains, credentials and regular keys have no native form.
LEMMA UnmappedExpressible ==
  ASSUME NEW c
  PROVE  /\ AllExpressible(DomainSet(c)) /\ AllExpressible(DomainDelete)
         /\ AllExpressible(CredentialIssue(c)) /\ AllExpressible(CredentialAccept)
         /\ AllExpressible(CredentialDelete(c)) /\ AllExpressible(SetRegularKey(c))
<1>1. ASSUME NEW type \in {"PermissionedDomainSet", "PermissionedDomainDelete", "CredentialCreate",
                           "CredentialAccept", "CredentialDelete", "SetRegularKey"}, NEW parts
      PROVE  AllExpressible(One(Tx(type, parts)))
  BY OthersAreExpressed, OneIsExpressible DEF RippleNative, PalisadeNative
<1> QED
  BY <1>1 DEF DomainSet, DomainDelete, CredentialIssue, CredentialAccept, CredentialDelete, SetRegularKey

\* The Account vertical's steps.
LEMMA AccountExpressible ==
  ASSUME NEW c
  PROVE  /\ AllExpressible(AccountSet(c)) /\ AllExpressible(Fund) /\ AllExpressible(Activate)
         /\ AllExpressible(DepositPreauth(c))
<1>1. AllExpressible(AccountSet(c))
  <2> DEFINE parts == ({"SetFlag"} \X FlagsAsked("true", c)) \cup ({"ClearFlag"} \X FlagsAsked("false", c))
                      \cup Given({f \in {"TransferRate", "TickSize", "Domain"} : Asked(c, f)})
  <2>1. \A v : FlagsAsked(v, c) \subseteq AccountFlags
    BY DEF FlagsAsked
  <2>2. parts \subseteq Asf(AccountFlags) \cup Given({"TransferRate", "TickSize", "Domain"})
    BY <2>1 DEF Asf, Given
  <2>3. AllExpressible(One(Tx("AccountSet", parts)))
    BY <2>2, AccountSetIsExpressed, OneIsExpressible
  <2>4. AllExpressible(<<>>)
    BY DEF AllExpressible
  <2> QED
    BY <2>3, <2>4 DEF AccountSet
<1>2. AllExpressible(Fund) /\ AllExpressible(Activate)
  BY EnableExpressed, PaymentIsExpressed
     DEF Fund, Activate, EnableRippling, AllExpressible, Expressible, Step
<1>3. AllExpressible(DepositPreauth(c))
  <2>1. RippleForm("DepositPreauth") = RippleDepositPreauth
    BY DEF RippleForm
  <2>2. Given({f \in {"Authorize", "Unauthorize"} : Asked(c, f)}) \subseteq Known(RippleDepositPreauth)
    BY DEF Known, RippleDepositPreauth, Given
  <2> QED
    BY <2>1, <2>2, RippleOnlyIsExpressed, OneIsExpressible DEF DepositPreauth
<1> QED
  BY <1>1, <1>2, <1>3

\* Whatever is called, each of its steps is expressible.
LEMMA CallsAreExpressible ==
  ASSUME NEW c \in Calls
  PROVE  AllExpressible(Build(c))
<1>1. c.op \in Operations
  BY DEF Calls
<1>2. CASE c.op \in {"xrp.transfer", "iou.transfer", "token.transfer", "xrp.buyOffer", "xrp.sellOffer",
                     "iou.buyOffer", "iou.sellOffer", "cancelOffer"}
  <2>1. Build(c) \in {XrpTransfer, IouTransfer, TokenTransfer, XrpOffer(FALSE, c), XrpOffer(TRUE, c),
                      IouOffer(FALSE, c), IouOffer(TRUE, c), CancelOffer}
    BY <1>2 DEF Build
  <2> QED
    BY <2>1, TransfersExpressible, OffersExpressible, CancelExpressible
<1>3. CASE c.op \in {"iou.issue", "iou.authorize", "iou.lock", "iou.unlock", "iou.clawback"}
  <2>1. Build(c) \in {IouIssue(c), IouAuthorize, SetFreeze("tfSetFreeze", "tfSetDeepFreeze"),
                      SetFreeze("tfClearDeepFreeze", "tfClearFreeze"), IouClawback}
    BY <1>3 DEF Build
  <2> QED
    BY <2>1, IouExpressible
<1>4. CASE c.op \in {"token.issue", "token.authorize", "token.unauthorize", "token.lock", "token.unlock",
                     "token.destroy", "token.clawback"}
  <2>1. Build(c) \in {TokenIssue(c), TokenAuthorize(FALSE, c), TokenAuthorize(TRUE, c),
                      TokenLock(TRUE, c), TokenLock(FALSE, c), TokenDestroy, TokenClawback}
    BY <1>4 DEF Build
  <2> QED
    BY <2>1, TokenExpressible
<1>5. CASE c.op \in {"domain.set", "domain.delete", "credential.issue", "credential.accept",
                     "credential.delete", "account.setRegularKey"}
  <2>1. Build(c) \in {DomainSet(c), DomainDelete, CredentialIssue(c), CredentialAccept,
                      CredentialDelete(c), SetRegularKey(c)}
    BY <1>5 DEF Build
  <2> QED
    BY <2>1, UnmappedExpressible
<1>6. CASE c.op \in {"account.set", "account.fund", "account.activate", "account.depositPreauth"}
  <2>1. Build(c) \in {AccountSet(c), Fund, Activate, DepositPreauth(c)}
    BY <1>6 DEF Build
  <2> QED
    BY <2>1, AccountExpressible
<1> QED
  BY <1>1, <1>2, <1>3, <1>4, <1>5, <1>6 DEF Operations

\* Every request for a known transaction carries it whole, but for Palisade's offers.
LEMMA RequestsAreWhole ==
  ASSUME NEW custodian \in Custodians, NEW tx, Expressed(tx), NEW q \in Request(custodian, tx)
  PROVE  tx.parts \ (IF q.method = "transfer" THEN Dropped(tx.type) ELSE {}) \subseteq q.carries
<1>1. \A method : \A r \in Whole(method, tx) : r.method = method /\ r.carries = tx.parts
  BY DEF Whole
<1>2. CASE custodian.kind = "local"
  <2>1. Request(custodian, tx) = Whole("blob", tx)
    BY <1>2 DEF Request
  <2> QED
    BY <1>1, <2>1
<1>3. CASE custodian.kind = "ripple-custody"
  <2>1. Request(custodian, tx) = RippleRequest(custodian.allowRaw, tx)
    BY <1>3 DEF Request
  <2>2. CASE tx.type \in RippleNative
    <3>1. q \in Mapped("order", RippleForm(tx.type), tx)
      BY <2>1, <2>2 DEF RippleRequest
    <3>2. q.method = "order" /\ tx.parts \ {} \subseteq q.carries
      BY <2>2, <3>1, MappedIsWhole DEF Expressed
    <3> QED
      BY <3>2
  <2>3. CASE tx.type \notin RippleNative
    BY <1>1, <2>1, <2>3 DEF RippleRequest
  <2> QED
    BY <2>2, <2>3
<1>4. CASE custodian.kind = "palisade"
  <2>1. Request(custodian, tx) = PalisadeRequest(custodian.allowRaw, tx)
    BY <1>4 DEF Request
  <2>2. \/ q \in Whole("raw", tx)
        \/ tx.type \in PalisadeNative /\ q \in Mapped("transfer", PalisadeForm(tx.type), tx)
    BY <2>1 DEF PalisadeRequest
  <2>3. CASE q \in Whole("raw", tx)
    BY <1>1, <2>3
  <2>4. CASE tx.type \in PalisadeNative /\ q \in Mapped("transfer", PalisadeForm(tx.type), tx)
    BY <2>4, MappedIsWhole DEF Expressed
  <2> QED
    BY <2>2, <2>3, <2>4
<1> QED
  BY <1>2, <1>3, <1>4 DEF Custodians

-----------------------------------------------------------------------------
(* The theorems                                                             *)

\* Every step keeps the invariant.
LEMMA NextCorrect == StepInv /\ [Next]_vars => StepInv'
<1> SUFFICES ASSUME StepInv, [Next]_vars PROVE StepInv'
  OBVIOUS
<1>1. CASE UNCHANGED vars
  <2>1. UNCHANGED <<called, run, step, pc, committed, fate, careful>>
    BY <1>1 DEF vars
  <2>2. /\ Steps' = Steps /\ Orders' = Orders /\ Len(steps)' = Len(steps)
        /\ \A k : Keyed(k)' <=> Keyed(k)
    BY <2>1, CallIsKept
  <2>3. Current' = Current
    BY <2>1 DEF Current
  <2>4. StepTypes' /\ ProgressInv' /\ CommittedIsApplied'
    BY <2>1, <2>2 DEF StepInv, StepTypes, ProgressInv, CommittedIsApplied, AppliedOrders
  <2>5. OrdersInv' /\ Barrier' /\ KeyInv'
    BY <2>1, <2>2, <2>3 DEF StepInv, OrdersInv, Barrier, AppliedOrders, KeyInv, Made
  <2>6. careful' => CarefulInv'
    BY <2>1, <2>2 DEF StepInv, CarefulInv, Live
  <2> QED
    BY <2>4, <2>5, <2>6 DEF StepInv
<1>2. CASE CallStep
  BY <1>2, PostCorrect, FailureCorrect, CommitCorrect DEF CallStep
<1>3. CASE CallAgain \/ ResumeAt \/ ResumeAfter
  BY <1>3, CallAgainCorrect, ResumeCorrect, CommitCorrect
<1>4. CASE \E o \in Orders : OrderStep(o)
  BY <1>4, CustodianCorrect
<1> QED
  BY <1>1, <1>2, <1>3, <1>4 DEF Next

\* The invariant of an operation and its retries: how far it has come, which orders
\* can have been posted, and what a careful caller keeps.
THEOREM StepsCorrect == Spec => []StepInv
<1>1. Init => StepInv
  BY InitCorrect
<1>2. StepInv /\ [Next]_vars => StepInv'
  BY NextCorrect
<1> QED
  BY <1>1, <1>2, PTL DEF Spec

\* No step of an operation is posted before the one preceding it has been applied
\* (runMultiStep), however often the operation was called, resumed or failed.
THEOREM StepsAreBarriers == Spec => []Barrier
<1>1. StepInv => Barrier
  BY DEF StepInv
<1> QED
  BY <1>1, StepsCorrect, PTL

\* What MultiStepFailureError and a returning operation report as committed has been
\* applied.
THEOREM CommittedAlwaysApplied == Spec => []CommittedIsApplied
<1>1. StepInv => CommittedIsApplied
  BY DEF StepInv
<1> QED
  BY <1>1, StepsCorrect, PTL

\* For a caller that settles what is in doubt and resumes where the operation failed,
\* no step is applied twice, keyed or not.
THEOREM CarefulAppliedOnce == Spec => []AppliedOnce
<1>1. StepInv => AppliedOnce
  BY DEF StepInv, CarefulInv, KeyInv, AppliedOnce, Once, AppliedOrders, Made, Live
<1> QED
  BY <1>1, StepsCorrect, PTL

\* The steps are those of a call, and stay so.
LEMMA FormsStand == Spec => []FormsInv
<1>1. Init => FormsInv
  BY DEF Init, FormsInv
<1>2. FormsInv /\ [Next]_vars => FormsInv'
  <2> SUFFICES ASSUME FormsInv, [Next]_vars PROVE FormsInv'
    OBVIOUS
  <2>1. UNCHANGED called
    BY DEF Next, vars, CallStep, Refuse, Post, PostConflicts, StepSucceeds, Commit, StepDies,
           StepInDoubt, CallAgain, ResumeAt, ResumeAfter, OrderStep, Arrive, Lose, Apply, Die, Move
  <2> QED
    BY <2>1 DEF FormsInv, called
<1> QED
  BY <1>1, <1>2, PTL DEF Spec

\* The first step of an operation that takes the caller's key is applied once where the
\* custodian takes keys, whatever the caller does: the operation passes the key on, its
\* request has a place for it, and of all the requests that carry it one makes an order.
THEOREM KeyedAppliedOnce == Spec => []KeyedOnce
<1>1. StepInv /\ FormsInv => KeyedOnce
  <2> SUFFICES ASSUME StepInv, FormsInv, 1 \in Steps, operation \notin Keyless, TakesKey(1)
               PROVE  Once(1)
    BY DEF KeyedOnce
  <2>1. PICK i \in Inputs : operation = i[1].op /\ steps = Build(i[1]) /\ signer = i[2]
    BY DEF FormsInv
  <2>2. i[1] \in Calls /\ steps # <<>>
    BY <2>1, StepAssumption DEF StepInv, StepTypes
  <2>3. steps[1].keyed
    BY <2>1, <2>2, CallsPassTheKey
  <2>4. signer[steps[1].by] \in Custodians
    BY <2>1, <2>2, StepAssumption, CallsAreExpressible DEF AllExpressible, Expressible, Steps
  <2>5. \A q \in Asks(1) : CarriesKey(q, steps[1].tx)
    BY <2>4, TakersCarryTheKey DEF TakesKey, Asks
  <2>6. Keyed(1)
    BY <2>3, <2>5 DEF Keyed
  <2> QED
    BY <2>6 DEF StepInv, KeyInv, Once, AppliedOrders, Made
<1> QED
  BY <1>1, StepsCorrect, FormsStand, PTL

\* A request on its way carries all that the operation put into its transaction:
\* whatever a custodian's form has no slot for is refused or signed whole
\* (txToOperation, txToNativeSubmit), but for the domain and the hybrid flag of an
\* offer on Palisade.
THEOREM FormsAreWhole == Spec => []FormIsWhole
<1>1. StepInv /\ FormsInv => FormIsWhole
  <2> SUFFICES ASSUME StepInv, FormsInv, NEW q \in Asks(step)
               PROVE  steps[step].tx.parts \ Overlooked(q, step) \subseteq q.carries
    BY DEF FormIsWhole
  <2>1. PICK i \in Inputs : operation = i[1].op /\ steps = Build(i[1]) /\ signer = i[2]
    BY DEF FormsInv
  <2>2. step \in 1..Len(steps)
    BY DEF StepInv, StepTypes, Steps
  <2>3. Expressible(steps[step])
    BY <2>1, <2>2, StepAssumption, CallsAreExpressible DEF AllExpressible
  <2>4. signer[steps[step].by] \in Custodians
    BY <2>1, <2>3, StepAssumption DEF Expressible
  <2>5. steps[step].tx.parts \ (IF q.method = "transfer" THEN Dropped(steps[step].tx.type) ELSE {})
        \subseteq q.carries
    BY <2>3, <2>4, RequestsAreWhole DEF Expressible, Asks
  <2> QED
    BY <2>5 DEF Overlooked, Dropped
<1> QED
  BY <1>1, StepsCorrect, FormsStand, PTL
=============================================================================
