----------------------------- MODULE WriteRoute -----------------------------
(***************************************************************************)
(* The way of one write from the pipeline to the first request that has an *)
(* effect: validate, dispatch, autofill (pipeline.ts, dispatch.ts), then   *)
(* the custodian, which chooses its way by itself and refuses what it      *)
(* cannot honour (context-guards.ts), what its account or field mapping    *)
(* has no form for, and what the Custody version cannot serve              *)
(* (versioning/).                                                          *)
(*                                                                         *)
(* The instance may be upgraded at any time; what the guard knows is from  *)
(* when the custodian was built.  What comes after the request is the      *)
(* subject of CustodySubmission, PalisadeSubmission and SignedWrite.       *)
(***************************************************************************)
EXTENDS FiniteSets

CONSTANTS Transactors,     \* transaction types
          RippleNative,    \* NATIVE_XRPL_TRANSACTORS
          PalisadeNative,  \* PALISADE_NATIVE_TRANSACTORS
          Versions,        \* Custody versions
          Bundled,         \* those with bundled data, which may be pinned
          Operations,      \* the native operations each version takes
          Intents          \* the intent types each version takes

ASSUME RouteAssumption ==
  /\ RippleNative \subseteq Transactors /\ PalisadeNative \subseteq Transactors
  /\ Bundled \subseteq Versions /\ "open" \notin Versions /\ "none" \notin Versions
  /\ Operations \in [Versions -> SUBSET Transactors]
  /\ Intents \in [Versions -> SUBSET {"order", "manifest"}]

Kinds == {"local", "external", "ripple-custody", "palisade"}
Ripple == "ripple-custody"
Signers == [kind : Kinds, allowRaw : BOOLEAN, dryRun : BOOLEAN]
\* What a caller hands over: slots says whether the custodian's own form has a
\* place for every field.
Writes == [transactor : Transactors, slots : BOOLEAN, fee : BOOLEAN,
           dryRun : {"unset", "yes", "no"}, async : BOOLEAN]
\* The custodians' own forms of a request, a raw signature, or a signed blob.
Methods == {"order", "manifest", "transfer", "raw", "blob"}
Paths == {"none", "local", "external", "ripple-native", "ripple-raw", "palisade-native", "palisade-raw"}
\* unsupported: UnsupportedInVersionError; refused: SignerCapabilityError and the
\* like; unready: the ledger or a read failed first; preflight: DryRunFailedError.
Refusals == {"unsupported", "refused", "unready", "preflight"}
Labels == {"new", "idle", "begun", "routed", "resolved", "chosen", "preflighted", "signed", "sent"}
          \cup Refusals

VARIABLES
  signer, pin, detects,  \* how the account's custodian is configured
  guard,                 \* the version the guard knows, or "open"
  served,                \* the version the instance runs
  pc, write, path, method, filled,
  passed,                \* this write's dry-run has passed
  sent                   \* requests of this write that had an effect

config == <<signer, pin, detects>>
callVars == <<pc, write, path, method, filled, passed, sent>>
routeVars == <<signer, pin, detects, guard, served, pc, write, path, method, filled, passed, sent>>

\* The fee is the caller's; guard and served are of the moment it went out.
Request == [method : Methods, filled : BOOLEAN, fee : BOOLEAN, passed : BOOLEAN,
            guard : Versions \cup {"open"}, served : Versions]

RouteTypeOK ==
  /\ signer \in Signers /\ pin \in Bundled \cup {"none"} /\ detects \in BOOLEAN
  /\ guard \in Versions \cup {"open"} /\ served \in Versions
  /\ pc \in Labels /\ write \in Writes /\ path \in Paths
  /\ method \in Methods \cup {"none"}
  /\ filled \in BOOLEAN /\ passed \in BOOLEAN
  /\ sent \in SUBSET Request

RouteInit ==
  /\ signer \in Signers /\ pin \in Bundled \cup {"none"} /\ detects \in BOOLEAN
  /\ signer.kind # Ripple => pin = "none" /\ ~detects /\ ~signer.dryRun
  /\ signer.kind \in {"local", "external"} => signer.allowRaw
  /\ guard = "open" /\ served \in Versions
  /\ pc = "new" /\ path = "none" /\ method = "none"
  /\ write \in {x \in Writes : x.slots /\ ~x.fee /\ x.dryRun = "unset" /\ ~x.async}
  /\ filled = FALSE /\ passed = FALSE /\ sent = {}

-----------------------------------------------------------------------------
(* Construction                                                             *)

\* resolveVersionGuard: the pinned version, else what the instance serves, else,
\* detection being off or failing, nothing known.
Create ==
  /\ pc = "new"
  /\ guard' \in IF pin # "none" THEN {pin} ELSE IF detects THEN {served, "open"} ELSE {"open"}
  /\ pc' = "idle"
  /\ UNCHANGED <<signer, pin, detects, served, write, path, method, filled, passed, sent>>

\* Custody's operators put another version in place.
Upgrade ==
  /\ signer.kind = Ripple
  /\ served' \in Versions \ {served}
  /\ UNCHANGED <<signer, pin, detects, guard>> /\ UNCHANGED callVars

-----------------------------------------------------------------------------
(* The pipeline                                                             *)

Goto(label) ==
  /\ pc' = label
  /\ UNCHANGED <<write, path, method, filled, passed, sent>>
Refuse(why) == Goto(why)

\* A vertical hands over a transaction, which validates.
Begin ==
  /\ pc \in {"idle", "sent"} \cup Refusals
  /\ write' \in Writes
  /\ pc' = "begun" /\ path' = "none" /\ method' = "none"
  /\ filled' = FALSE /\ passed' = FALSE /\ sent' = {}
  /\ UNCHANGED config /\ UNCHANGED <<guard, served>>

NativeOps == CASE signer.kind = Ripple -> RippleNative
               [] signer.kind = "palisade" -> PalisadeNative
               [] OTHER -> {}

\* dispatch: the path by the custodian's capabilities, or "none".
PathOf(t) ==
  CASE signer.kind \in {"local", "external"} -> signer.kind
    [] signer.kind = Ripple /\ t \in NativeOps -> "ripple-native"
    [] signer.kind = Ripple /\ t \notin NativeOps /\ signer.allowRaw -> "ripple-raw"
    [] signer.kind = "palisade" /\ t \in NativeOps -> "palisade-native"
    [] signer.kind = "palisade" /\ t \notin NativeOps /\ signer.allowRaw -> "palisade-raw"
    [] OTHER -> "none"

Dispatch ==
  /\ pc = "begun"
  /\ LET p == PathOf(write.transactor) IN
       IF p = "none" THEN Refuse("refused")
       ELSE path' = p /\ pc' = "routed" /\ UNCHANGED <<write, method, filled, passed, sent>>
  /\ UNCHANGED config /\ UNCHANGED <<guard, served>>

LeftToCustodian == path \in {"ripple-native", "palisade-native"}

\* The SDK fills in the network fields of what it will sign itself; the node may
\* not answer.
Resolve ==
  /\ pc = "routed"
  /\ \/ /\ filled' = ~LeftToCustodian
        /\ pc' = "resolved" /\ UNCHANGED <<write, path, method, passed, sent>>
     \/ ~LeftToCustodian /\ Refuse("unready")
  /\ UNCHANGED config /\ UNCHANGED <<guard, served>>

-----------------------------------------------------------------------------
(* The custodian                                                            *)

Choose(m) == method' = m /\ pc' = "chosen" /\ UNCHANGED <<write, path, filled, passed, sent>>

\* Defect kept for comparison: only the fee is looked at.
FeeOnlyHonoured == ~write.fee

\* assertDryRunHonored, assertFeeHonored: neither is asked for.
NoControlsAsked == write.dryRun # "yes" /\ ~write.fee

\* LocalSigner.sign, ExternalSigner.sign; a KMS may not answer.
ChooseLocal ==
  /\ pc = "resolved" /\ signer.kind \in {"local", "external"}
  /\ IF ~NoControlsAsked THEN Refuse("refused")
     ELSE \/ Choose("blob")
          \/ signer.kind = "external" /\ Refuse("unready")
  /\ UNCHANGED config /\ UNCHANGED <<guard, served>>

\* Defect kept for comparison: only the type of the intent is asked about.
TakesIntentOnly(v, m) == m \in Intents[v]

\* What a version takes: the intent type, and an order's operation.
Takes(v, m) == m \in Intents[v] /\ (m = "order" => write.transactor \in Operations[v])

\* The guard lets pass what its version takes, and anything if it knows none.
Admits(m) == guard # "open" => Takes(guard, m)

\* RippleCustody.submitAndWait and submitAsync: natively modelled transactors go
\* as an order, others as a manifest, which is never asynchronous; the account must
\* be one of Custody's ("refused" otherwise), and the fields have a place.
ChooseRipple ==
  /\ pc = "resolved" /\ signer.kind = Ripple
  /\ LET m == IF write.transactor \in RippleNative THEN "order" ELSE "manifest" IN
       \/ Refuse("refused")
       \/ /\ m = "manifest" => ~write.async /\ signer.allowRaw
          /\ ~Admits(m)
          /\ Refuse("unsupported")
       \/ /\ m = "manifest" => ~write.async /\ signer.allowRaw
          /\ Admits(m)
          /\ m = "order" => write.slots
          /\ Choose(m)
       \* the account's public key cannot be read
       \/ /\ m = "manifest" /\ ~write.async /\ signer.allowRaw /\ Admits(m)
          /\ Refuse("unready")
  /\ UNCHANGED config /\ UNCHANGED <<guard, served>>

\* PalisadeCustody.submitAndWait and submitAsync: a payment or operation if the
\* transactor and its fields have one; raw, if allowed and not asynchronous,
\* otherwise.
ChoosePalisade ==
  /\ pc = "resolved" /\ signer.kind = "palisade"
  /\ LET native == write.transactor \in PalisadeNative /\ write.slots IN
       \/ Refuse("refused")
       \/ NoControlsAsked /\ native /\ Choose("transfer")
       \/ NoControlsAsked /\ ~native /\ ~write.async /\ signer.allowRaw /\ Choose("raw")
  /\ UNCHANGED config /\ UNCHANGED <<guard, served>>

\* PalisadeCustody.sign: a transaction that came for the native path has no
\* network fields yet.
FillRaw ==
  /\ pc = "chosen" /\ method = "raw" /\ ~filled
  /\ \/ filled' = TRUE /\ UNCHANGED <<pc, write, path, method, passed, sent>>
     \/ Refuse("unready")
  /\ UNCHANGED config /\ UNCHANGED <<guard, served>>

\* maybeDryRun: the write's own wish, else the custodian's default.
WantsDryRun ==
  /\ signer.kind = Ripple
  /\ write.dryRun = "yes" \/ (write.dryRun = "unset" /\ signer.dryRun)

\* Custody pre-flights the payload about to be proposed.
DryRun ==
  /\ pc = "chosen" /\ WantsDryRun
  /\ \/ passed' = TRUE /\ pc' = "preflighted" /\ UNCHANGED <<write, path, method, filled, sent>>
     \/ Refuse("preflight")
     \/ Refuse("unready")
  /\ UNCHANGED config /\ UNCHANGED <<guard, served>>

Record(m) ==
  sent' = sent \cup {[method |-> m, filled |-> filled, fee |-> write.fee /\ m = "order",
                      passed |-> passed, guard |-> guard, served |-> served]}

\* Defect kept for comparison: raw requests are posted as they came.
ReadyUnfilled ==
  /\ method \in {"order", "manifest", "transfer", "raw"}
  /\ pc = IF WantsDryRun THEN "preflighted" ELSE "chosen"

ReadyToPost ==
  /\ method \in {"order", "manifest", "transfer", "raw"}
  /\ pc = IF WantsDryRun THEN "preflighted" ELSE "chosen"
  /\ method = "raw" => filled

\* The request that proposes the write.
Post ==
  /\ ReadyToPost
  /\ Record(method)
  /\ pc' = IF method \in {"manifest", "raw"} THEN "signed" ELSE "sent"
  /\ UNCHANGED <<write, path, method, filled, passed>>
  /\ UNCHANGED config /\ UNCHANGED <<guard, served>>

\* The wait for the signature ends without one.
SignatureFails ==
  /\ pc = "signed"
  /\ Refuse("refused") \/ Refuse("unready")
  /\ UNCHANGED config /\ UNCHANGED <<guard, served>>

\* Defect kept for comparison: what the ledger refuses is reported like what the
\* custodian cannot do.
BroadcastRefused ==
  /\ pc = "signed" \/ (pc = "chosen" /\ method = "blob")
  /\ Record("blob")
  /\ pc' \in {"sent", "refused"}
  /\ UNCHANGED <<write, path, method, filled, passed>>
  /\ UNCHANGED config /\ UNCHANGED <<guard, served>>

\* What the SDK has a signature for goes to the ledger.
Broadcast ==
  /\ pc = "signed" \/ (pc = "chosen" /\ method = "blob")
  /\ Record("blob")
  /\ pc' = "sent"
  /\ UNCHANGED <<write, path, method, filled, passed>>
  /\ UNCHANGED config /\ UNCHANGED <<guard, served>>

-----------------------------------------------------------------------------
RouteNext ==
  \/ Create \/ Upgrade
  \/ Begin \/ Dispatch \/ Resolve
  \/ ChooseLocal \/ ChooseRipple \/ ChoosePalisade
  \/ FillRaw \/ DryRun \/ Post \/ SignatureFails \/ Broadcast

RouteSpec == RouteInit /\ [][RouteNext]_routeVars

(***************************************************************************)
(* Properties                                                              *)
(***************************************************************************)

AsksDryRun == write.dryRun = "yes" \/ (write.dryRun = "unset" /\ signer.dryRun)

\* A control the caller or the custodian's configuration asks for is honoured or
\* the write refused, on every path: nothing goes out that should have been
\* pre-flighted and was not, nor without the fee asked for.  Excepted is the fee on
\* the raw path of Ripple Custody, which applies it no more than it refuses it.
ControlsHonoured ==
  \A r \in sent : /\ AsksDryRun => r.passed
                  /\ write.fee => r.fee \/ path = "ripple-raw"

\* Whatever gets a signature has its network fields, whichever of the two choices
\* of a path, the pipeline's or the custodian's, led to it.
SignedIsFilled == \A r \in sent : r.method \in {"manifest", "raw", "blob"} => r.filled

\* With the instance at the version the guard knows, it is asked for nothing that
\* version does not take, and a write is blocked only for what it does not take.
GuardIsExact ==
  LET Lacks(m) == \/ m \notin Intents[served]
                  \/ m = "order" /\ write.transactor \notin Operations[served]
  IN /\ \A r \in sent : r.guard = r.served /\ r.served = served /\ r.method \in {"order", "manifest"}
                          => ~Lacks(r.method)
     /\ pc = "unsupported" => guard # "open"
     /\ pc = "unsupported" /\ guard = served
          => Lacks(IF path = "ripple-native" THEN "order" ELSE "manifest")

\* A write that ends in a refusal has had no effect: at most a signature was asked
\* for, which is submitted by nobody.
RefusalIsHarmless == pc \in Refusals => \A r \in sent : r.method \in {"manifest", "raw"}
-----------------------------------------------------------------------------
(* The inductive invariant                                                   *)

\* Only Ripple Custody is configured to pre-flight every write.
ConfigInv == signer.kind # Ripple => ~signer.dryRun

\* A write is on the path the pipeline dispatched it to.
PathInv ==
  pc \in {"routed", "resolved", "chosen", "preflighted", "signed"}
    => path = PathOf(write.transactor) /\ path # "none"

\* The custodian's choice fits its kind and, if nothing but Custody could have
\* honoured the controls, there are none; the guard has let it pass.
ChoiceInv ==
  pc \in {"chosen", "preflighted", "signed"} =>
    /\ signer.kind = Ripple =>
         /\ method = IF write.transactor \in RippleNative THEN "order" ELSE "manifest"
         /\ Admits(method)
    /\ signer.kind # Ripple => NoControlsAsked
    /\ signer.kind = "palisade" => method \in {"transfer", "raw"}
    /\ signer.kind \in {"local", "external"} => method = "blob"
    /\ pc = "signed" => method \in {"manifest", "raw"}

\* What the pipeline does not leave to the custodian is filled in, and so is what
\* waits for a signature.
FilledInv ==
  /\ pc \in {"resolved", "chosen", "preflighted", "signed"} => filled \/ LeftToCustodian
  /\ pc = "signed" => filled

\* A write past its pre-flight has passed it, or none was due.
DryRunInv ==
  /\ pc = "preflighted" => passed
  /\ pc = "signed" => passed \/ ~WantsDryRun

\* Nothing is sent before the choice is made, at most a request for a signature
\* before the signature, and nothing the guard did not know to be served.
SentInv ==
  /\ pc \in {"new", "idle", "begun", "routed", "resolved", "chosen", "preflighted"} => sent = {}
  /\ pc = "signed" => \A r \in sent : r.method \in {"manifest", "raw"}
  /\ \A r \in sent : r.guard = guard /\ (r.method \in {"order", "manifest"} => Admits(r.method))

\* A write was blocked for what the guard's version does not take.
BlockInv ==
  pc = "unsupported" => ~Admits(IF path = "ripple-native" THEN "order" ELSE "manifest")

RouteInv ==
  /\ RouteTypeOK /\ ConfigInv /\ PathInv /\ ChoiceInv /\ FilledInv /\ DryRunInv /\ SentInv /\ BlockInv
  /\ ControlsHonoured /\ SignedIsFilled /\ RefusalIsHarmless
=============================================================================
