------------------------------ MODULE Requests ------------------------------
(***************************************************************************)
(* What the SDK's operations ask a custodian to do.  The verticals turn    *)
(* the options of a call into one or more xrpl transactions; the account's *)
(* custodian turns a transaction into its own form, refuses a field it has *)
(* no slot for, or has the whole transaction signed.                       *)
(*                                                                         *)
(* A transaction is its type and the set of its parts beyond the account:  *)
(* pairs of a field and what it holds, a flag being a part of its own.     *)
(* Values are not modelled: that a field is there is what a form can lose. *)
(***************************************************************************)
EXTENDS Naturals, Sequences, FiniteSets

Given(fields) == fields \X {"given"}
Flags(flags) == {"Flags"} \X flags
When(c, parts) == IF c THEN parts ELSE {}

Tx(type, parts) == [type |-> type, parts |-> parts]

\* A call: the operation and the options given, as pairs of a name and a value.
Asked(call, name) == <<name, "given">> \in call.opts

\* One step of an operation: whose account signs (the resolved one, or the other
\* one named), the transaction, and whether the caller's idempotency key is passed.
Step(by, tx, keyed) == [by |-> by, tx |-> tx, keyed |-> keyed]
One(tx) == <<Step("from", tx, TRUE)>>

-----------------------------------------------------------------------------
(* The verticals                                                             *)

\* A Payment in the amount's kind: XRP.transfer, IOU.transfer, Token.transfer.
Payment(kind) == Tx("Payment", Given({"Destination"}) \cup {<<"Amount", kind>>})
XrpTransfer == One(Payment("XRP"))
IouTransfer == One(Payment("IOU"))
TokenTransfer == One(Payment("MPT"))

OrderTypes == {"limit", "market", "fok", "passive"}
OrderTypeFlag == {<<"market", "tfImmediateOrCancel">>, <<"fok", "tfFillOrKill">>, <<"passive", "tfPassive">>}
OrderTypeFlags(call) == Flags({f[2] : f \in {f \in OrderTypeFlag : <<"orderType", f[1]>> \in call.opts}})

\* priceToLedgerAmount: an offer has no MPT side.
PricedIn(call) == {k \in {"XRP", "IOU"} : <<"price", k>> \in call.opts}

\* buildOfferCreate: a domain makes the offer hybrid unless that is switched off.
BuildOfferCreate(own, sell, call) ==
  LET Side(mine) == IF mine THEN {own} ELSE PricedIn(call)
  IN Tx("OfferCreate",
        ({"TakerGets"} \X Side(sell)) \cup ({"TakerPays"} \X Side(~sell))
        \cup OrderTypeFlags(call) \cup When(sell, Flags({"tfSell"}))
        \cup When(Asked(call, "DomainID") /\ <<"hybrid", "false">> \notin call.opts, Flags({"tfHybrid"}))
        \cup Given({f \in {"DomainID", "OfferSequence"} : Asked(call, f)}))

\* XRP and IOU offers; one priced in an MPT is invalid.
Offer(own, sell, call) ==
  IF PricedIn(call) = {} THEN <<>> ELSE One(BuildOfferCreate(own, sell, call))
XrpOffer(sell, call) == Offer("XRP", sell, call)
IouOffer(sell, call) == Offer("IOU", sell, call)
CancelOffer == One(Tx("OfferCancel", Given({"OfferSequence"})))

TrustSet(flags) == Tx("TrustSet", Given({"LimitAmount"}) \cup Flags(flags))

\* IOU.issue: the issuer enables rippling, the holder extends trust, and the issuer
\* distributes if an amount is given; no step gets the caller's key.
IouIssue(call) ==
  <<Step("from", Tx("AccountSet", {<<"SetFlag", "defaultRipple">>}), FALSE),
    Step("other", TrustSet({}), FALSE)>>
  \o (IF Asked(call, "amount") THEN <<Step("from", Payment("IOU"), FALSE)>> ELSE <<>>)

IouAuthorize == One(TrustSet({"tfSetfAuth"}))

\* IOU.lock and unlock: one flag per step, deep freeze innermost.
SetFreeze(first, second) ==
  <<Step("from", TrustSet({first}), FALSE), Step("from", TrustSet({second}), FALSE)>>

\* The holder of an IOU clawback is the issuer of its amount.
IouClawback == One(Tx("Clawback", {<<"Amount", "IOU">>}))
TokenClawback == One(Tx("Clawback", {<<"Amount", "MPT">>} \cup Given({"Holder"})))

IssueFlags == {"tfMPTCanLock", "tfMPTRequireAuth", "tfMPTCanEscrow", "tfMPTCanTrade",
               "tfMPTCanTransfer", "tfMPTCanClawback"}
\* buildIssuance: every capability but requireAuth is on unless switched the other
\* way by the caller.
TokenIssue(call) ==
  One(Tx("MPTokenIssuanceCreate",
         Given({"AssetScale", "MPTokenMetadata"})
         \cup Given({f \in {"MaximumAmount", "TransferFee"} : Asked(call, f)})
         \cup Flags({f \in IssueFlags : (f = "tfMPTRequireAuth") <=> (<<"switch", f>> \in call.opts)})))

\* Token.authorize, unauthorize, grantHolder, revokeHolder.
TokenAuthorize(unauthorize, call) ==
  One(Tx("MPTokenAuthorize", Given({"MPTokenIssuanceID"})
         \cup When(Asked(call, "Holder"), Given({"Holder"}))
         \cup When(unauthorize, Flags({"tfMPTUnauthorize"}))))
\* Token.lock, unlock.
TokenLock(lock, call) ==
  One(Tx("MPTokenIssuanceSet", Given({"MPTokenIssuanceID"})
         \cup When(Asked(call, "Holder"), Given({"Holder"}))
         \cup Flags({IF lock THEN "tfMPTLock" ELSE "tfMPTUnlock"})))
TokenDestroy == One(Tx("MPTokenIssuanceDestroy", Given({"MPTokenIssuanceID"})))

\* Domain.create, setCredentials; Domain.delete.
DomainSet(call) ==
  One(Tx("PermissionedDomainSet",
         Given({"AcceptedCredentials"}) \cup When(Asked(call, "DomainID"), Given({"DomainID"}))))
DomainDelete == One(Tx("PermissionedDomainDelete", Given({"DomainID"})))

CredentialIssue(call) ==
  One(Tx("CredentialCreate",
         Given({"Subject", "CredentialType"}) \cup Given({f \in {"Expiration", "URI"} : Asked(call, f)})))
CredentialAccept == One(Tx("CredentialAccept", Given({"Issuer", "CredentialType"})))
CredentialDelete(call) ==
  One(Tx("CredentialDelete",
         Given({"CredentialType"}) \cup Given({f \in {"Subject", "Issuer"} : Asked(call, f)})))

AccountFlags == {"noFreeze", "clawbackEnabled", "trustLineLocking", "disableMaster", "requireAuth",
                 "requireDest", "defaultRipple", "globalFreeze", "disallowXRP"}
FlagsAsked(value, call) == {f \in AccountFlags : <<f, value>> \in call.opts}

\* Account.set: at most one flag each way (resolveFlags), and something at all.
AccountSet(call) ==
  LET on == FlagsAsked("true", call)
      off == FlagsAsked("false", call)
      parts == ({"SetFlag"} \X on) \cup ({"ClearFlag"} \X off)
               \cup Given({f \in {"TransferRate", "TickSize", "Domain"} : Asked(call, f)})
  IN IF Cardinality(on) > 1 \/ Cardinality(off) > 1 \/ parts = {}
     THEN <<>> ELSE One(Tx("AccountSet", parts))

EnableRippling(by) == Step(by, Tx("AccountSet", {<<"SetFlag", "defaultRipple">>}), FALSE)
\* Account.fund, after the faucet has paid.
Fund == <<EnableRippling("other")>>
\* Defect kept for comparison: no step gets the caller's key.
ActivateUnkeyed == <<Step("from", Payment("XRP"), FALSE), EnableRippling("other")>>

\* Account.activate: only the payment gets the caller's key.
Activate == <<Step("from", Payment("XRP"), TRUE), EnableRippling("other")>>
SetRegularKey(call) ==
  One(Tx("SetRegularKey", When(Asked(call, "RegularKey"), Given({"RegularKey"}))))
DepositPreauth(call) ==
  One(Tx("DepositPreauth", Given({f \in {"Authorize", "Unauthorize"} : Asked(call, f)})))

\* The steps of a call; none if it is refused before anything is submitted.
Build(call) ==
  CASE call.op = "xrp.transfer" -> XrpTransfer
    [] call.op = "xrp.buyOffer" -> XrpOffer(FALSE, call)
    [] call.op = "xrp.sellOffer" -> XrpOffer(TRUE, call)
    [] call.op = "iou.buyOffer" -> IouOffer(FALSE, call)
    [] call.op = "iou.sellOffer" -> IouOffer(TRUE, call)
    [] call.op = "cancelOffer" -> CancelOffer
    [] call.op = "iou.issue" -> IouIssue(call)
    [] call.op = "iou.authorize" -> IouAuthorize
    [] call.op = "iou.lock" -> SetFreeze("tfSetFreeze", "tfSetDeepFreeze")
    [] call.op = "iou.unlock" -> SetFreeze("tfClearDeepFreeze", "tfClearFreeze")
    [] call.op = "iou.clawback" -> IouClawback
    [] call.op = "iou.transfer" -> IouTransfer
    [] call.op = "token.issue" -> TokenIssue(call)
    [] call.op = "token.authorize" -> TokenAuthorize(FALSE, call)
    [] call.op = "token.unauthorize" -> TokenAuthorize(TRUE, call)
    [] call.op = "token.lock" -> TokenLock(TRUE, call)
    [] call.op = "token.unlock" -> TokenLock(FALSE, call)
    [] call.op = "token.destroy" -> TokenDestroy
    [] call.op = "token.transfer" -> TokenTransfer
    [] call.op = "token.clawback" -> TokenClawback
    [] call.op = "domain.set" -> DomainSet(call)
    [] call.op = "domain.delete" -> DomainDelete
    [] call.op = "credential.issue" -> CredentialIssue(call)
    [] call.op = "credential.accept" -> CredentialAccept
    [] call.op = "credential.delete" -> CredentialDelete(call)
    [] call.op = "account.set" -> AccountSet(call)
    [] call.op = "account.fund" -> Fund
    [] call.op = "account.activate" -> Activate
    [] call.op = "account.setRegularKey" -> SetRegularKey(call)
    [] call.op = "account.depositPreauth" -> DepositPreauth(call)

\* What a caller may give: each operation with its options.
Optional(names) == SUBSET Given(names)
OfferOptions(kinds) ==
  {{<<"orderType", o>>, <<"price", k>>} \cup more : o \in OrderTypes, k \in kinds,
     more \in SUBSET (Given({"DomainID", "OfferSequence"}) \cup {<<"hybrid", "false">>})}
AccountSetOptions ==
  {flags \cup more :
     flags \in {f \in SUBSET (AccountFlags \X {"true", "false"}) :
                 Cardinality(f) <= 2 /\ \A x, y \in f : x[1] = y[1] => x = y},
     more \in Optional({"TransferRate", "TickSize", "Domain"})}
Options(op) ==
  CASE op \in {"xrp.buyOffer", "xrp.sellOffer"} -> OfferOptions({"IOU", "MPT"})
    [] op \in {"iou.buyOffer", "iou.sellOffer"} -> OfferOptions({"XRP", "IOU", "MPT"})
    [] op = "iou.issue" -> Optional({"amount"})
    [] op = "token.issue" -> {a \cup b : a \in Optional({"MaximumAmount", "TransferFee"}),
                                         b \in SUBSET ({"switch"} \X IssueFlags)}
    [] op \in {"token.authorize", "token.unauthorize", "token.lock", "token.unlock"} -> Optional({"Holder"})
    [] op = "domain.set" -> Optional({"DomainID"})
    [] op = "credential.issue" -> Optional({"Expiration", "URI"})
    [] op = "credential.delete" -> Optional({"Subject", "Issuer"})
    [] op = "account.set" -> AccountSetOptions
    [] op = "account.setRegularKey" -> Optional({"RegularKey"})
    [] op = "account.depositPreauth" -> Optional({"Authorize", "Unauthorize"})
    [] OTHER -> {{}}

Operations ==
  {"xrp.transfer", "xrp.buyOffer", "xrp.sellOffer", "iou.buyOffer", "iou.sellOffer", "cancelOffer",
   "iou.issue", "iou.authorize", "iou.lock", "iou.unlock", "iou.clawback", "iou.transfer",
   "token.issue", "token.authorize", "token.unauthorize", "token.lock", "token.unlock",
   "token.destroy", "token.transfer", "token.clawback", "domain.set", "domain.delete",
   "credential.issue", "credential.accept", "credential.delete", "account.set", "account.fund",
   "account.activate", "account.setRegularKey", "account.depositPreauth"}

Calls == UNION {{[op |-> op, opts |-> o] : o \in Options(op)} : op \in Operations}
=============================================================================
