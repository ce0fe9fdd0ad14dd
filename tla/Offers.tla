------------------------------- MODULE Offers -------------------------------
(***************************************************************************)
(* DEX offers as reads/offers.ts shapes them and as IOU.buyOffer and       *)
(* sellOffer place them.  A currency code and a ticker are both [hex,      *)
(* text]: forty hex digits that stand for a text, or a plain text.  Of an  *)
(* amount's value only its precision matters.                              *)
(***************************************************************************)
CONSTANTS Three,    \* texts of three characters
          Longer,   \* texts of four characters and more
          Shorter,  \* texts of fewer
          Binary,   \* codes that are no printable text
          Issuers,  \* addresses
          Account   \* the one of them the client places offers from

Texts == Three \cup Longer \cup Shorter \cup Binary

ASSUME TextsAssumption ==
  /\ Three \cap (Longer \cup Shorter \cup Binary) = {}
  /\ Longer \cap (Shorter \cup Binary) = {} /\ Shorter \cap Binary = {}
  /\ Account \in Issuers

\* On the ledger a plain code has three characters; the others are hex.
Codes == [hex : {FALSE}, text : Three] \cup [hex : {TRUE}, text : Texts]

\* An issued value may have sixteen digits there; the SDK takes fifteen.
Precisions == {"fifteen", "sixteen"}

XRPAmounts == [kind : {"XRP"}, value : {"drops"}]
IOUAmounts == [kind : {"IOU"}, code : Codes, issuer : Issuers, value : Precisions]
LedgerAmounts == XRPAmounts \cup IOUAmounts

LedgerOffers ==
  {o \in [gets : LedgerAmounts, pays : LedgerAmounts, passive : BOOLEAN, sell : BOOLEAN] :
     /\ o.gets.kind = "XRP" => o.pays.kind = "IOU"
     /\ o.gets.kind = "IOU" /\ o.pays.kind = "IOU" =>
          <<o.gets.code, o.gets.issuer>> # <<o.pays.code, o.pays.issuer>>}

-----------------------------------------------------------------------------
(* Codes and tickers                                                        *)

decodeCurrency(code) ==
  IF code.hex /\ code.text \in Three \cup Longer THEN [code EXCEPT !.hex = FALSE] ELSE code

encodeCurrencyCode(ticker) ==
  IF ticker.hex \/ ticker.text \in Three THEN ticker ELSE [ticker EXCEPT !.hex = TRUE]

\* A ticker names the code it encodes to; this code is lost in its own ticker.
Ambiguous(code) == encodeCurrencyCode(decodeCurrency(code)) # code

-----------------------------------------------------------------------------
(* Shaping a listed offer                                                   *)

toPrice(amount) ==
  IF amount.kind = "XRP" THEN amount
  ELSE [kind |-> "IOU", ticker |-> decodeCurrency(amount.code),
        issuer |-> amount.issuer, value |-> amount.value]

isReference(amount, reference) ==
  /\ amount.kind = "IOU"
  /\ decodeCurrency(amount.code) = reference.ticker /\ amount.issuer = reference.issuer

NoReference == [ticker |-> [hex |-> FALSE, text |-> ""], issuer |-> ""]

\* Whether the offer buys or sells its base: the reference, else what is not XRP.
orient(gets, pays, reference) ==
  IF isReference(gets, reference) THEN "sell"
  ELSE IF isReference(pays, reference) \/ gets.kind = "XRP" THEN "buy" ELSE "sell"

Base(offer, type) == IF type = "sell" THEN offer.gets ELSE offer.pays
Counter(offer, type) == IF type = "sell" THEN offer.pays ELSE offer.gets

shapeOffer(offer, reference) ==
  LET type == orient(offer.gets, offer.pays, reference)
  IN [amount |-> Base(offer, type).value, price |-> toPrice(Counter(offer, type)),
      orderType |-> IF offer.passive THEN "passive" ELSE "limit", type |-> type]

-----------------------------------------------------------------------------
(* Placing an offer                                                         *)

\* iouValue refuses more than fifteen digits; drops are exact.
Acceptable(value) == value # "sixteen"

\* Defect kept for comparison: the price's ticker goes out as it stands.
PriceUnencoded(price) ==
  IF price.kind = "XRP" THEN price
  ELSE [kind |-> "IOU", code |-> price.ticker, issuer |-> price.issuer, value |-> price.value]

priceToLedgerAmount(price) ==
  IF price.kind = "XRP" THEN price
  ELSE [kind |-> "IOU", code |-> encodeCurrencyCode(price.ticker),
        issuer |-> price.issuer, value |-> price.value]

\* buyOffer or sellOffer of a base the caller names by its ticker: it is always
\* the placing account's own IOU.  sellOffer sets tfSell.
placeOffer(summary, ticker) ==
  LET base == [kind |-> "IOU", code |-> encodeCurrencyCode(ticker),
               issuer |-> Account, value |-> summary.amount]
      price == priceToLedgerAmount(summary.price)
      sells == summary.type = "sell"
  IN [gets |-> IF sells THEN base ELSE price, pays |-> IF sells THEN price ELSE base,
      passive |-> summary.orderType = "passive", sell |-> sells]
=============================================================================
