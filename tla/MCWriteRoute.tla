---------------------------- MODULE MCWriteRoute ----------------------------
(* A transactor both custodians model, one each that only one of them does,  *)
(* and one that neither does; three bundled Custody versions (before 1.32    *)
(* there is no native EscrowFinish, from 1.23 to 1.31 no native operation at *)
(* all), and an instance outside the bundled data that signs no manifests.   *)
EXTENDS WriteRoute

MCTransactors == {"Payment", "EscrowFinish", "OfferCancel", "EscrowCreate"}
MCRippleNative == {"Payment", "EscrowFinish"}
MCPalisadeNative == {"Payment", "OfferCancel"}
MCBundled == {"1.22", "1.23", "1.43"}
MCVersions == MCBundled \cup {"other"}
MCOperations == [v \in MCVersions |->
  CASE v = "1.23" -> {} [] v = "1.43" -> MCRippleNative [] OTHER -> {"Payment"}]
MCIntents == [v \in MCVersions |-> IF v = "other" THEN {"order"} ELSE {"order", "manifest"}]
=============================================================================
