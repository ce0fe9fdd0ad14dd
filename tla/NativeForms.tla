---------------------------- MODULE NativeForms ------------------------------
(***************************************************************************)
(* What a custodian makes of a transaction.  Each models some transactors  *)
(* natively; a native form has a slot for some parts of the transaction    *)
(* and the mapping is to throw SignerCapabilityError for the others.       *)
(* Everything else is signed whole: by the SDK for a local or external     *)
(* signer, by the custodian's raw path if that is allowed.                 *)
(*                                                                         *)
(* For each transactor, Slots are the parts its native form takes over and *)
(* Throws those its mapping looks for in order to refuse them.             *)
(***************************************************************************)
EXTENDS Requests

Amounts == {"Amount"} \X {"XRP", "IOU", "MPT"}
Legs(kinds) == {"TakerGets", "TakerPays"} \X kinds
AnyFlag(type) == Flags(CASE type = "Payment" -> {"tfNoDirectRipple", "tfPartialPayment", "tfLimitQuality"}
                         [] type = "AccountSet" -> {"tfRequireDestTag", "tfRequireAuth", "tfDisallowXRP"})
Asf(flags) == {"SetFlag", "ClearFlag"} \X flags

-----------------------------------------------------------------------------
(* Ripple Custody                                                            *)

RippleNative == {"AccountSet", "Clawback", "DepositPreauth", "EscrowFinish", "MPTokenAuthorize",
                 "MPTokenIssuanceCreate", "MPTokenIssuanceDestroy", "MPTokenIssuanceSet",
                 "OfferCreate", "Payment", "TrustSet"}

RipplePayment == [slots  |-> Given({"Destination", "DestinationTag"}) \cup Amounts,
                  throws |-> Given({"SendMax", "Paths", "DeliverMin", "DeliverMax", "InvoiceID",
                                    "CredentialIDs", "DomainID"}) \cup AnyFlag("Payment")]
\* Defect kept for comparison: the domain of an offer is not looked for.
RippleOfferAnyDomain == [slots  |-> Legs({"XRP", "IOU"}) \cup Flags({"tfImmediateOrCancel", "tfFillOrKill", "tfSell"}),
                         throws |-> Given({"Expiration", "OfferSequence"}) \cup Legs({"MPT"})
                                    \cup Flags({"tfPassive"})]
RippleOfferCreate == [slots  |-> Legs({"XRP", "IOU"}) \cup Flags({"tfImmediateOrCancel", "tfFillOrKill", "tfSell"}),
                      throws |-> Given({"Expiration", "OfferSequence", "DomainID"}) \cup Legs({"MPT"})
                                 \cup Flags({"tfPassive", "tfHybrid"})]
\* The two ripple flags become enableRippling.
RippleTrustSet == [slots  |-> Given({"LimitAmount"})
                              \cup Flags({"tfSetFreeze", "tfClearFreeze", "tfSetfAuth",
                                          "tfSetNoRipple", "tfClearNoRipple"}),
                   throws |-> Given({"QualityIn", "QualityOut"})
                              \cup Flags({"tfSetDeepFreeze", "tfClearDeepFreeze"})]
RippleAsf == {"requireDest", "requireAuth", "noFreeze", "globalFreeze", "defaultRipple", "clawbackEnabled"}
RippleAccountSet == [slots  |-> Asf(RippleAsf) \cup Given({"TransferRate"}),
                     throws |-> Asf(AccountFlags \ RippleAsf) \cup AnyFlag("AccountSet")
                                \cup Given({"Domain", "EmailHash", "MessageKey", "WalletLocator",
                                            "TickSize", "NFTokenMinter"})]
RippleClawback == [slots |-> Amounts \cup Given({"Holder"}), throws |-> {}]
RippleDepositPreauth == [slots  |-> Given({"Authorize", "Unauthorize"}),
                         throws |-> Given({"AuthorizeCredentials", "UnauthorizeCredentials"})]
RippleMPTokenAuthorize == [slots  |-> Given({"MPTokenIssuanceID", "Holder"}) \cup Flags({"tfMPTUnauthorize"}),
                           throws |-> {}]
RippleMPTokenIssuanceCreate == [slots  |-> Given({"AssetScale", "TransferFee", "MaximumAmount", "MPTokenMetadata"})
                                           \cup Flags(IssueFlags),
                                throws |-> {}]
RippleMPTokenIssuanceDestroy == [slots |-> Given({"MPTokenIssuanceID"}), throws |-> {}]
RippleMPTokenIssuanceSet == [slots  |-> Given({"MPTokenIssuanceID", "Holder"}) \cup Flags({"tfMPTLock", "tfMPTUnlock"}),
                             throws |-> {}]
RippleEscrowFinish == [slots  |-> Given({"Owner", "OfferSequence", "Condition", "Fulfillment", "CredentialIDs"}),
                       throws |-> {}]

\* txToOperation
RippleForm(type) ==
  CASE type = "AccountSet" -> RippleAccountSet
    [] type = "Clawback" -> RippleClawback
    [] type = "DepositPreauth" -> RippleDepositPreauth
    [] type = "EscrowFinish" -> RippleEscrowFinish
    [] type = "MPTokenAuthorize" -> RippleMPTokenAuthorize
    [] type = "MPTokenIssuanceCreate" -> RippleMPTokenIssuanceCreate
    [] type = "MPTokenIssuanceDestroy" -> RippleMPTokenIssuanceDestroy
    [] type = "MPTokenIssuanceSet" -> RippleMPTokenIssuanceSet
    [] type = "OfferCreate" -> RippleOfferCreate
    [] type = "Payment" -> RipplePayment
    [] type = "TrustSet" -> RippleTrustSet

-----------------------------------------------------------------------------
(* Palisade                                                                  *)

\* Clawback is left out on purpose: there is no place for an IOU's holder.
PalisadeNative == {"Payment", "OfferCreate", "OfferCancel", "TrustSet", "AccountSet"}

PalisadePayment == [slots  |-> Given({"Destination", "DestinationTag", "SourceTag"}) \cup ({"Amount"} \X {"XRP", "IOU"}),
                    throws |-> Given({"SendMax", "DeliverMin", "Paths", "InvoiceID"})
                               \cup {<<"Amount", "MPT">>} \cup AnyFlag("Payment")]
\* mapOfferCreate looks neither for a domain nor for tfHybrid.
PalisadeOfferCreate == [slots  |-> Legs({"XRP", "IOU"}) \cup Given({"Expiration", "OfferSequence"})
                                   \cup Flags({"tfPassive", "tfImmediateOrCancel", "tfFillOrKill", "tfSell"}),
                        throws |-> Legs({"MPT"})]
PalisadeOfferCancel == [slots |-> Given({"OfferSequence"}), throws |-> {}]
PalisadeTrustSet == [slots  |-> Given({"LimitAmount", "QualityIn", "QualityOut"})
                                \cup Flags({"tfSetfAuth", "tfSetNoRipple", "tfClearNoRipple", "tfSetFreeze",
                                            "tfClearFreeze", "tfSetDeepFreeze", "tfClearDeepFreeze"}),
                     throws |-> {}]
PalisadeAccountSet == [slots  |-> Asf(AccountFlags \ {"trustLineLocking"})
                                  \cup Given({"Domain", "TransferRate", "TickSize"}),
                       throws |-> Asf({"trustLineLocking"})]

\* txToNativeSubmit
PalisadeForm(type) ==
  CASE type = "Payment" -> PalisadePayment
    [] type = "OfferCreate" -> PalisadeOfferCreate
    [] type = "OfferCancel" -> PalisadeOfferCancel
    [] type = "TrustSet" -> PalisadeTrustSet
    [] type = "AccountSet" -> PalisadeAccountSet

-----------------------------------------------------------------------------
(* The choice of a form                                                      *)

Whole(method, tx) == {[method |-> method, carries |-> tx.parts]}
Mapped(method, form, tx) ==
  IF tx.parts \cap form.throws = {}
  THEN {[method |-> method, carries |-> tx.parts \cap form.slots]} ELSE {}

\* RippleCustody.submitAndWait: the transactor alone decides between an order and
\* a manifest, so a field without a slot is refused even where raw signing is on.
RippleRequest(allowRaw, tx) ==
  IF tx.type \in RippleNative THEN Mapped("order", RippleForm(tx.type), tx)
  ELSE IF allowRaw THEN Whole("manifest", tx) ELSE {}

\* PalisadeCustody.submitAndWait: what the native form refuses goes raw if allowed.
PalisadeRequest(allowRaw, tx) ==
  LET native == IF tx.type \in PalisadeNative THEN Mapped("transfer", PalisadeForm(tx.type), tx) ELSE {}
  IN IF native # {} THEN native
     ELSE IF allowRaw THEN Whole("raw", tx) ELSE {}

\* The request a transaction goes out in, if any.
Request(signer, tx) ==
  CASE signer.kind = "local" -> Whole("blob", tx)
    [] signer.kind = "ripple-custody" -> RippleRequest(signer.allowRaw, tx)
    [] signer.kind = "palisade" -> PalisadeRequest(signer.allowRaw, tx)

\* The caller's key goes with the request: Custody's intent id is the key, Palisade
\* takes it as externalId of a transfer and of a raw request; its other operations
\* have no place for it, and what the SDK signs itself is signed afresh.
CarriesKey(request, tx) ==
  \/ request.method \in {"order", "manifest", "raw"}
  \/ request.method = "transfer" /\ tx.type = "Payment"

\* A second manifest under the key is answered 409, which the raw path throws; a
\* second of the others finds the first.
ConflictIsThrown(request) == request.method = "manifest"
=============================================================================
