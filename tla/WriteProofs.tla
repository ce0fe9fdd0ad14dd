----------------------------- MODULE WriteProofs -----------------------------
(***************************************************************************)
(* Proofs about one write: the way it takes to its first request           *)
(* (WriteRoute), for any transactors, any Custody versions and whatever    *)
(* each of them takes; and what its submission promises (AtMostOnceWrite), *)
(* for any callers and keys.                                               *)
(***************************************************************************)
EXTENDS WriteRoute, AtMostOnceWrite, FiniteSetTheorems, TLAPS

-----------------------------------------------------------------------------
(* The route                                                                *)

\* A custodian as it is configured, before its first write.
LEMMA RouteStarts == RouteInit => RouteInv
<1>. SUFFICES ASSUME RouteInit PROVE RouteInv
  OBVIOUS
<1>1. RouteTypeOK
  BY DEF RouteInit, RouteTypeOK, Signers, Kinds, Labels, Refusals, Paths
<1>2. ConfigInv
  BY DEF RouteInit, ConfigInv
<1>. QED
  BY <1>1, <1>2
     DEF RouteInit, RouteInv, PathInv, ChoiceInv, FilledInv, DryRunInv, SentInv, BlockInv,
         ControlsHonoured, SignedIsFilled, RefusalIsHarmless, Refusals

\* Every step of a write, and an upgrade of the instance, keeps the types.
LEMMA TypeCorrectStep ==
  ASSUME RouteInv, [RouteNext]_routeVars
  PROVE  RouteTypeOK'
<1>. USE DEF RouteTypeOK
<1>0. RouteTypeOK
  BY DEF RouteInv
<1>1. CASE Create
  BY <1>0, <1>1, RouteAssumption DEF Create, Labels
<1>2. CASE Upgrade
  BY <1>0, <1>2 DEF Upgrade, callVars
<1>3. CASE Begin
  BY <1>0, <1>3 DEF Begin, config, Labels, Paths
<1>4. CASE Dispatch
  <2>1. PathOf(write.transactor) \in Paths
    BY <1>0 DEF PathOf, NativeOps, Paths, Signers, Kinds, Ripple
  <2>. QED  BY <1>0, <1>4, <2>1 DEF Dispatch, config, Refuse, Goto, Labels, Refusals
<1>5. CASE Resolve
  BY <1>0, <1>5 DEF Resolve, config, Refuse, Goto, LeftToCustodian, Labels, Refusals
<1>6. CASE ChooseLocal \/ ChooseRipple \/ ChoosePalisade
  BY <1>0, <1>6 DEF ChooseLocal, ChooseRipple, ChoosePalisade, Choose, config, Refuse, Goto,
                    Labels, Refusals, Methods
<1>7. CASE FillRaw \/ DryRun \/ SignatureFails
  BY <1>0, <1>7 DEF FillRaw, DryRun, SignatureFails, config, Refuse, Goto, Labels, Refusals
<1>8. CASE Post \/ Broadcast
  <2>1. ASSUME NEW m \in Methods, Record(m)
        PROVE  sent' \in SUBSET Request
    <3>. DEFINE carried == write.fee /\ m = "order"
    <3>1. carried \in BOOLEAN
      OBVIOUS
    <3>. HIDE DEF carried
    <3>2. [method |-> m, filled |-> filled, fee |-> carried, passed |-> passed,
           guard |-> guard, served |-> served] \in Request
      BY <1>0, <3>1 DEF Request
    <3>. QED  BY <1>0, <2>1, <3>2 DEF Record, carried
  <2>. QED  BY <1>0, <1>8, <2>1 DEF Post, Broadcast, ReadyToPost, Methods, config, Labels
<1>9. CASE UNCHANGED routeVars
  BY <1>0, <1>9 DEF routeVars
<1>. QED
  BY <1>1, <1>2, <1>3, <1>4, <1>5, <1>6, <1>7, <1>8, <1>9 DEF RouteNext

\* Where dispatch sends a transaction, custodian by custodian.
LEMMA PathOfKind ==
  ASSUME RouteTypeOK, NEW t
  PROVE  /\ signer.kind \in {"local", "external"} => PathOf(t) = signer.kind
         /\ signer.kind = Ripple /\ t \in RippleNative => PathOf(t) = "ripple-native"
         /\ signer.kind = Ripple /\ t \notin RippleNative =>
              PathOf(t) \in {"ripple-raw", "none"}
         /\ signer.kind = "palisade" => PathOf(t) \in {"palisade-native", "palisade-raw", "none"}
<1>1. signer.kind \in Kinds /\ signer.allowRaw \in BOOLEAN
  BY DEF RouteTypeOK, Signers
<1>2. CASE signer.kind \in {"local", "external"}
  BY <1>2 DEF PathOf, Ripple
<1>3. CASE signer.kind = Ripple
  BY <1>1, <1>3 DEF PathOf, NativeOps, Ripple
<1>4. CASE signer.kind = "palisade"
  BY <1>1, <1>4 DEF PathOf, NativeOps, Ripple
<1>. QED
  BY <1>1, <1>2, <1>3, <1>4 DEF Kinds, Ripple

\* A choice the custodian has made: the way it was dispatched on, and who honours
\* the controls.
LEMMA Chosen ==
  ASSUME RouteInv, pc \in {"chosen", "preflighted", "signed"}
  PROVE  /\ method = "order" => path = "ripple-native" /\ pc # "signed"
         /\ method = "manifest" => path = "ripple-raw"
         /\ method = "blob" => path \in {"local", "external"}
         /\ signer.kind = Ripple => method \in {"order", "manifest"} /\ Admits(method)
         /\ signer.kind # Ripple => ~AsksDryRun /\ ~write.fee /\ method \notin {"order", "manifest"}
         /\ WantsDryRun <=> AsksDryRun
<1>. DEFINE t == write.transactor
<1>1. RouteTypeOK /\ ChoiceInv /\ ConfigInv /\ path = PathOf(t) /\ path # "none"
  BY DEF RouteInv, PathInv
<1>2. signer.kind # Ripple => ~AsksDryRun /\ ~write.fee
  BY <1>1 DEF ChoiceInv, ConfigInv, NoControlsAsked, AsksDryRun
<1>3. WantsDryRun <=> AsksDryRun
  BY <1>2 DEF WantsDryRun, AsksDryRun
<1>4. CASE signer.kind = Ripple
  <2>1. /\ method = IF t \in RippleNative THEN "order" ELSE "manifest"
        /\ Admits(method)
        /\ pc = "signed" => method \in {"manifest", "raw"}
    BY <1>1, <1>4 DEF ChoiceInv
  <2>. QED  BY <1>1, <1>3, <1>4, <2>1, PathOfKind DEF Ripple
<1>5. CASE signer.kind = "palisade"
  <2>1. method \in {"transfer", "raw"}
    BY <1>1, <1>5 DEF ChoiceInv, Ripple
  <2>. QED  BY <1>2, <1>3, <1>5, <2>1 DEF Ripple
<1>6. CASE signer.kind \in {"local", "external"}
  <2>1. method = "blob"
    BY <1>1, <1>6 DEF ChoiceInv, Ripple
  <2>. QED  BY <1>1, <1>2, <1>3, <1>6, <2>1, PathOfKind DEF Ripple
<1>. QED
  BY <1>1, <1>4, <1>5, <1>6 DEF RouteTypeOK, Signers, Kinds, Ripple

\* Everything but the types, and the parts of it that only look at what was sent.
Way == ConfigInv /\ PathInv /\ ChoiceInv /\ FilledInv /\ DryRunInv /\ BlockInv
Traffic == SentInv /\ ControlsHonoured /\ SignedIsFilled /\ RefusalIsHarmless

\* A write stays on its way: from dispatch to the last request, path, choice, filled-in
\* fields and pre-flight fit each other.
LEMMA WayStep ==
  ASSUME RouteInv, [RouteNext]_routeVars
  PROVE  Way'
<1>. USE DEF Way, ConfigInv, PathInv, ChoiceInv, FilledInv, DryRunInv, BlockInv
<1>0. Way /\ SentInv
  BY DEF RouteInv
<1>1. CASE Create
  BY <1>0, <1>1 DEF Create, NoControlsAsked
<1>2. CASE Upgrade
  BY <1>0, <1>2 DEF Upgrade, callVars, PathOf, NativeOps, NoControlsAsked, Admits, Takes, WantsDryRun, LeftToCustodian
<1>3. CASE Begin
  BY <1>0, <1>3 DEF Begin, config
<1>4. CASE Dispatch
  BY <1>0, <1>4 DEF Dispatch, config, Refuse, Goto, PathOf, NativeOps
<1>5. CASE Resolve
  BY <1>0, <1>5 DEF Resolve, config, Refuse, Goto, PathOf, NativeOps, LeftToCustodian
<1>6. CASE ChooseLocal
  <2>1. /\ UNCHANGED <<signer, guard, write, path, filled, passed>>
        /\ pc = "resolved" /\ signer.kind \in {"local", "external"}
        /\ \/ pc' \in {"refused", "unready"}
           \/ pc' = "chosen" /\ method' = "blob" /\ NoControlsAsked
    BY <1>6 DEF ChooseLocal, config, Refuse, Goto, Choose
  <2>2. ConfigInv' /\ PathInv'
    BY <1>0, <2>1 DEF PathOf, NativeOps
  <2>3. ChoiceInv'
    BY <1>0, <2>1 DEF NoControlsAsked, Ripple
  <2>4. FilledInv' /\ DryRunInv' /\ BlockInv'
    BY <1>0, <2>1 DEF LeftToCustodian
  <2>. QED  BY <2>2, <2>3, <2>4
<1>7. CASE ChooseRipple
  <2>. DEFINE m == IF write.transactor \in RippleNative THEN "order" ELSE "manifest"
  <2>1. /\ UNCHANGED <<signer, guard, write, path, filled, passed>>
        /\ pc = "resolved" /\ signer.kind = Ripple
        /\ \/ pc' \in {"refused", "unready"}
           \/ pc' = "unsupported" /\ ~Admits(m)
           \/ pc' = "chosen" /\ method' = m /\ Admits(m)
    BY <1>7 DEF ChooseRipple, config, Refuse, Goto, Choose
  <2>2. ConfigInv' /\ PathInv'
    BY <1>0, <2>1 DEF PathOf, NativeOps
  <2>3. ChoiceInv'
    BY <1>0, <2>1 DEF Admits, Takes, Ripple
  <2>4. BlockInv'
    <3>1. path = PathOf(write.transactor) /\ path # "none" /\ RouteTypeOK
      BY <1>0, <2>1 DEF RouteInv
    <3>2. path = "ripple-native" <=> m = "order"
      BY <2>1, <3>1, PathOfKind
    <3>. QED  BY <2>1, <3>2 DEF Admits, Takes
  <2>5. FilledInv' /\ DryRunInv'
    BY <1>0, <2>1 DEF LeftToCustodian
  <2>. QED  BY <2>2, <2>3, <2>4, <2>5
<1>8. CASE ChoosePalisade
  <2>1. /\ UNCHANGED <<signer, guard, write, path, filled, passed>>
        /\ pc = "resolved" /\ signer.kind = "palisade"
        /\ \/ pc' = "refused"
           \/ pc' = "chosen" /\ method' \in {"transfer", "raw"} /\ NoControlsAsked
    BY <1>8 DEF ChoosePalisade, config, Refuse, Goto, Choose
  <2>2. ConfigInv' /\ PathInv'
    BY <1>0, <2>1 DEF PathOf, NativeOps
  <2>3. ChoiceInv'
    BY <1>0, <2>1 DEF NoControlsAsked, Ripple
  <2>4. FilledInv' /\ DryRunInv' /\ BlockInv'
    BY <1>0, <2>1 DEF LeftToCustodian
  <2>. QED  BY <2>2, <2>3, <2>4
<1>9. CASE FillRaw
  <2>1. UNCHANGED <<signer, guard, write, path, method>>
    BY <1>9 DEF FillRaw, config, Refuse, Goto
  <2>2. /\ pc = "chosen" /\ pc' \in {"chosen", "unready"}
        /\ filled' = filled \/ filled' = TRUE
    BY <1>9 DEF FillRaw, Refuse, Goto
  <2>3. ConfigInv' /\ PathInv'
    BY <1>0, <2>1, <2>2 DEF PathOf, NativeOps
  <2>4. ChoiceInv'
    BY <1>0, <2>1, <2>2 DEF NoControlsAsked, Admits, Takes
  <2>5. FilledInv' /\ DryRunInv' /\ BlockInv'
    BY <1>0, <2>1, <2>2 DEF LeftToCustodian
  <2>. QED  BY <2>3, <2>4, <2>5
<1>10. CASE DryRun
  <2>1. UNCHANGED <<signer, guard, write, path, method>>
    BY <1>10 DEF DryRun, config, Refuse, Goto
  <2>2. /\ pc = "chosen" /\ filled' = filled
        /\ pc' \in {"preflight", "unready"} \/ (pc' = "preflighted" /\ passed')
    BY <1>10 DEF DryRun, Refuse, Goto
  <2>3. ConfigInv' /\ PathInv'
    BY <1>0, <2>1, <2>2 DEF PathOf, NativeOps
  <2>4. ChoiceInv'
    BY <1>0, <2>1, <2>2 DEF NoControlsAsked, Admits, Takes
  <2>5. FilledInv' /\ DryRunInv' /\ BlockInv'
    BY <1>0, <2>1, <2>2 DEF LeftToCustodian
  <2>. QED  BY <2>3, <2>4, <2>5
<1>11. CASE Post
  <2>1. UNCHANGED <<signer, guard, write, path, method>>
    BY <1>11 DEF Post, config
  <2>2. /\ pc \in {"chosen", "preflighted"} /\ (method = "raw" => filled)
        /\ WantsDryRun => pc = "preflighted"
        /\ pc' = "sent" \/ (pc' = "signed" /\ method \in {"manifest", "raw"})
        /\ filled' = filled /\ passed' = passed
    BY <1>11 DEF Post, ReadyToPost
  <2>3. ConfigInv' /\ PathInv'
    BY <1>0, <2>1, <2>2 DEF PathOf, NativeOps
  <2>4. ChoiceInv'
    BY <1>0, <2>1, <2>2 DEF NoControlsAsked, Admits, Takes
  <2>5. FilledInv'
    BY <1>0, <2>1, <2>2, Chosen DEF LeftToCustodian
  <2>6. DryRunInv' /\ BlockInv'
    BY <1>0, <2>1, <2>2 DEF WantsDryRun
  <2>. QED  BY <2>3, <2>4, <2>5, <2>6
<1>12. CASE SignatureFails
  BY <1>0, <1>12 DEF SignatureFails, config, Refuse, Goto
<1>13. CASE Broadcast
  BY <1>0, <1>13 DEF Broadcast, config
<1>14. CASE UNCHANGED routeVars
  BY <1>0, <1>14 DEF routeVars, PathOf, NativeOps, NoControlsAsked, Admits, Takes, WantsDryRun, LeftToCustodian
<1>. QED
  BY <1>1, <1>2, <1>3, <1>4, <1>5, <1>6, <1>7, <1>8, <1>9, <1>10, <1>11, <1>12, <1>13, <1>14 DEF RouteNext

\* As long as nothing has been sent, nothing can be wrong with it.
LEMMA NothingSent ==
  ASSUME sent' = {}
  PROVE  Traffic'
BY DEF Traffic, SentInv, ControlsHonoured, SignedIsFilled, RefusalIsHarmless

\* Post and Broadcast put one request on record, as it is at that moment.
LEMMA Recorded ==
  ASSUME NEW m, Record(m)
  PROVE  \E r : /\ sent' = sent \cup {r}
                /\ r.method = m /\ r.filled = filled /\ r.passed = passed
                /\ r.guard = guard /\ r.served = served
                /\ r.fee = (write.fee /\ m = "order")
<1>. DEFINE e == [method |-> m, filled |-> filled, fee |-> write.fee /\ m = "order",
                  passed |-> passed, guard |-> guard, served |-> served]
<1>1. sent' = sent \cup {e}
  BY DEF Record
<1>2. /\ e.method = m /\ e.filled = filled /\ e.passed = passed
      /\ e.guard = guard /\ e.served = served
      /\ e.fee = (write.fee /\ m = "order")
  OBVIOUS
<1>. HIDE DEF e
<1>. QED  BY <1>1, <1>2

\* What goes out is what the choice, the fill-in and the pre-flight before it allow.
LEMMA TrafficStep ==
  ASSUME RouteInv, [RouteNext]_routeVars
  PROVE  Traffic'
<1>. USE DEF Traffic, SentInv, ControlsHonoured, SignedIsFilled, RefusalIsHarmless
<1>0. Traffic
  BY DEF RouteInv
<1>1. CASE Create \/ Begin \/ Dispatch \/ Resolve \/ ChooseLocal \/ ChooseRipple \/ ChoosePalisade
           \/ FillRaw \/ DryRun
  <2>1. sent' = {}
    BY <1>0, <1>1 DEF Create, Begin, Dispatch, Resolve, ChooseLocal, ChooseRipple, ChoosePalisade,
                      FillRaw, DryRun, Refuse, Goto, Choose
  <2>. QED  BY <2>1, NothingSent
<1>2. CASE Upgrade \/ UNCHANGED routeVars
  <2>1. UNCHANGED <<signer, guard, write, path, pc, sent>>
    BY <1>2 DEF Upgrade, routeVars, config, callVars
  <2>. QED  BY <1>0, <2>1 DEF AsksDryRun, Admits, Takes
<1>3. CASE Post
  <2>1. /\ UNCHANGED <<signer, guard, write, path>>
        /\ pc \in {"chosen", "preflighted"} /\ (method = "raw" => filled)
        /\ WantsDryRun => pc = "preflighted"
        /\ pc' = IF method \in {"manifest", "raw"} THEN "signed" ELSE "sent"
        /\ method \in {"order", "manifest", "transfer", "raw"}
    BY <1>3 DEF Post, ReadyToPost, config
  <2>2. PICK r : /\ sent' = {r}
                 /\ r.method = method /\ r.filled = filled /\ r.passed = passed /\ r.guard = guard
                 /\ r.fee = (write.fee /\ method = "order")
    <3>1. sent = {}
      BY <1>0, <2>1
    <3>2. Record(method)
      BY <1>3 DEF Post
    <3>. QED  BY <3>1, <3>2, Recorded
  <2>3. SentInv'
    BY <1>0, <2>1, <2>2, Chosen DEF Admits, Takes
  <2>4. ControlsHonoured'
    BY <1>0, <2>1, <2>2, Chosen DEF AsksDryRun, RouteInv, DryRunInv
  <2>5. SignedIsFilled'
    BY <1>0, <2>1, <2>2, Chosen DEF RouteInv, FilledInv, LeftToCustodian
  <2>. QED  BY <2>1, <2>3, <2>4, <2>5 DEF Refusals
<1>4. CASE SignatureFails
  <2>1. UNCHANGED <<signer, guard, write, path, sent>> /\ pc = "signed" /\ pc' \in {"refused", "unready"}
    BY <1>4 DEF SignatureFails, config, Refuse, Goto
  <2>. QED  BY <1>0, <2>1 DEF AsksDryRun, Admits, Takes
<1>5. CASE Broadcast
  <2>1. /\ UNCHANGED <<signer, guard, write, path>> /\ pc' = "sent"
        /\ pc = "signed" \/ (pc = "chosen" /\ method = "blob")
    BY <1>5 DEF Broadcast, config
  <2>2. PICK r : /\ sent' = sent \cup {r}
                 /\ r.method = "blob" /\ r.filled = filled /\ r.passed = passed /\ r.guard = guard
    BY <1>5, Recorded DEF Broadcast
  <2>3. SentInv'
    BY <1>0, <2>1, <2>2 DEF Admits, Takes
  <2>4. /\ AsksDryRun => passed
        /\ write.fee => path = "ripple-raw"
        /\ filled
    BY <1>0, <2>1, Chosen DEF RouteInv, DryRunInv, FilledInv, LeftToCustodian
  <2>5. ControlsHonoured' /\ SignedIsFilled'
    BY <1>0, <2>1, <2>2, <2>4 DEF AsksDryRun
  <2>. QED  BY <2>1, <2>3, <2>5 DEF Refusals
<1>. QED
  BY <1>1, <1>2, <1>3, <1>4, <1>5 DEF RouteNext

\* The inductive invariant holds in every state, whatever the tables say.
THEOREM RouteCorrect == RouteSpec => []RouteInv
<1>1. RouteInv /\ [RouteNext]_routeVars => RouteInv'
  BY TypeCorrectStep, WayStep, TrafficStep DEF RouteInv, Way, Traffic
<1>. QED  BY <1>1, RouteStarts, PTL DEF RouteSpec

\* No request goes out whose dry-run was due and has not passed, nor, except as a
\* manifest of Ripple Custody, without the fee the caller asked for.
THEOREM ControlsAlwaysHonoured == RouteSpec => []ControlsHonoured
BY RouteCorrect, PTL DEF RouteInv

\* Nothing is signed whose network fields neither the pipeline nor the custodian filled in.
THEOREM SignedAlwaysFilled == RouteSpec => []SignedIsFilled
BY RouteCorrect, PTL DEF RouteInv

\* A write that is refused has proposed nothing and broadcast nothing.
THEOREM RefusalAlwaysHarmless == RouteSpec => []RefusalIsHarmless
BY RouteCorrect, PTL DEF RouteInv

\* The version guard is exact as long as the instance runs the version it knows.
THEOREM GuardAlwaysExact == RouteSpec => []GuardIsExact
<1>1. RouteInv => GuardIsExact
  <2>. SUFFICES ASSUME RouteInv PROVE GuardIsExact
    OBVIOUS
  <2>1. SentInv /\ BlockInv
    BY DEF RouteInv
  <2>2. guard # "open" /\ guard = served => \A r \in sent : r.method \in {"order", "manifest"} => Takes(served, r.method)
    BY <2>1 DEF SentInv, Admits
  <2>3. ASSUME NEW r \in sent, r.guard = r.served, r.served = served, r.method \in {"order", "manifest"}
        PROVE  Takes(served, r.method)
    <3>1. guard = served /\ guard # "open"
      BY <2>1, <2>3, RouteAssumption DEF SentInv, RouteInv, RouteTypeOK
    <3>. QED  BY <2>2, <2>3, <3>1
  <2>4. pc = "unsupported" =>
          /\ guard # "open"
          /\ ~Takes(guard, IF path = "ripple-native" THEN "order" ELSE "manifest")
    BY <2>1 DEF BlockInv, Admits
  <2>. QED  BY <2>3, <2>4 DEF GuardIsExact, Takes
<1>. QED  BY <1>1, RouteCorrect, PTL

-----------------------------------------------------------------------------
(* The promise.  These hold of every submission shown to implement it.      *)

\* Until a key has died the next one is not in use, so whatever settles is the key
\* in use; an answer is given of what has settled, and what has settled stays so.
LEMMA WriteKeeps ==
  ASSUME MaxKey \in Nat \ {0}
  PROVE  WriteInv /\ [Next]_vars => WriteInv'
<1>. SUFFICES ASSUME WriteInv, [Next]_vars PROVE WriteInv'
  OBVIOUS
<1>. USE DEF WriteInv, TypeOK, Keys, AnswersHold
<1>1. ASSUME NEW outcome \in {"applied", "dead"}, Settle(outcome) PROVE WriteInv'
  BY <1>1 DEF Settle
<1>2. ASSUME NEW w \in Workers, NEW v \in {"ok", "dead", "unsure"}, Answer(w, v) PROVE WriteInv'
  BY <1>2 DEF Answer
<1>3. ASSUME NEW w \in Workers, Note(w) PROVE WriteInv'
  BY <1>3 DEF Note
<1>4. CASE UNCHANGED vars
  BY <1>4 DEF vars
<1>. QED
  BY <1>1, <1>2, <1>3, <1>4 DEF Next

\* The invariant of the abstract write.
THEOREM WriteCorrect ==
  ASSUME MaxKey \in Nat \ {0}
  PROVE  Spec => []WriteInv
<1>1. Init => WriteInv
  BY DEF Init, WriteInv, TypeOK, Keys, AnswersHold
<1>. QED
  BY <1>1, WriteKeeps, PTL DEF Spec

\* What implementing AtMostOnceWrite is worth: the write is applied under one key at
\* most, since every key but the one in use is dead or has not been used.
THEOREM WriteIsAtMostOnce ==
  ASSUME MaxKey \in Nat \ {0}
  PROVE  Spec => []AtMostOnce
<1>1. WriteInv => AtMostOnce
  <2>. SUFFICES ASSUME WriteInv PROVE AtMostOnce
    OBVIOUS
  <2>1. \A k \in Keys : fate[k] = "applied" => k = current
    <3>1. \A k \in Keys : k < current \/ k > current \/ k = current
      BY DEF WriteInv, TypeOK, Keys
    <3>. QED
      BY <3>1 DEF WriteInv
  <2>2. IsFiniteSet({current}) /\ Cardinality({current}) = 1
    BY FS_Singleton
  <2>3. Cardinality({k \in Keys : fate[k] = "applied"}) <= Cardinality({current})
    BY <2>1, <2>2, FS_Subset
  <2>. QED
    BY <2>2, <2>3, FS_CardinalityType DEF AtMostOnce
<1>. QED
  BY <1>1, WriteCorrect, PTL

\* And no caller is told that the write succeeded, or that a key is dead, of which it
\* is not true, at the time or ever after.
THEOREM AnswersAlwaysHold ==
  ASSUME MaxKey \in Nat \ {0}
  PROVE  Spec => []AnswersHold
<1>1. WriteInv => AnswersHold
  BY DEF WriteInv
<1>. QED
  BY <1>1, WriteCorrect, PTL

\* What became of a key is final, so that no answer given of it goes stale, and callers
\* move from one key to the next and never back.
THEOREM SettledIsFinal ==
  ASSUME MaxKey \in Nat \ {0}
  PROVE  Spec => [][ /\ \A k \in Keys : fate[k] # "open" => fate'[k] = fate[k]
                     /\ current' \in {current, current + 1}
                     /\ current' # current => fate[current] = "dead" ]_vars
<1>. DEFINE Final == /\ \A k \in Keys : fate[k] # "open" => fate'[k] = fate[k]
                     /\ current' \in {current, current + 1}
                     /\ current' # current => fate[current] = "dead"
<1>1. WriteInv /\ Next => Final
  <2>. SUFFICES ASSUME WriteInv, Next  PROVE Final
    OBVIOUS
  <2>1. ASSUME NEW outcome \in {"applied", "dead"}, Settle(outcome)  PROVE Final
    BY <2>1 DEF Settle, WriteInv, TypeOK
  <2>2. ASSUME NEW w \in Workers, Note(w)  PROVE Final
    BY <2>2 DEF Note
  <2>3. ASSUME NEW w \in Workers, NEW v \in {"ok", "dead", "unsure"}, Answer(w, v)  PROVE Final
    BY <2>3 DEF Answer
  <2>. QED  BY <2>1, <2>2, <2>3 DEF Next
<1>2. WriteInv /\ [Next]_vars => [Final]_vars
  BY <1>1
<1>. QED  BY <1>2, WriteCorrect, PTL DEF Spec
=============================================================================
