---------------------------- MODULE BackendProofs ----------------------------
(***************************************************************************)
(* Proofs about what the SDK asks of its backends around a write: page by  *)
(* page (Discovery), under which token (TokenRefresh), when it asks again  *)
(* (PollLoop), and what it concludes from the answers (LedgerReads).  The  *)
(* four are specifications of their own; each theorem is about one.        *)
(***************************************************************************)
EXTENDS Discovery, TokenRefresh, PollLoop, LedgerReads,
        FiniteSetTheorems, WellFoundedInduction, TLAPS

-----------------------------------------------------------------------------
(* Induction on the numbers, from the order on them being well-founded.      *)

\* What holds of 0, and with a number of the next one, holds of every number: a set of
\* numbers without a least element is empty.
LEMMA InductionOnNat ==
  ASSUME NEW S, 0 \in S, \A n \in Nat : n \in S => n + 1 \in S
  PROVE  \A n \in Nat : n \in S
<1>. DEFINE T == Nat \ S
            R == OpToRel(<, Nat)
<1>. SUFFICES ASSUME T # {}  PROVE FALSE
  OBVIOUS
<1>1. IsWellFoundedOn(R, Nat)
  BY NatLessThanWellFounded
<1>2. PICK n \in T : \A m \in T : ~(<<m, n>> \in R)
  <2>1. T \subseteq Nat
    OBVIOUS
  <2>. HIDE DEF T, R
  <2>. QED  BY <1>1, <2>1, WFMin, Zenon
<1>3. n \in Nat /\ n # 0
  OBVIOUS
<1>4. n - 1 \in Nat /\ n - 1 < n /\ (n - 1) + 1 = n
  BY <1>3
<1>5. <<n - 1, n>> \in R
  BY <1>3, <1>4 DEF OpToRel
<1>. QED  BY <1>2, <1>3, <1>4, <1>5

\* What a set of numbers holds, a least number of it does.
LEMMA LeastOfNat ==
  ASSUME NEW T \in SUBSET Nat, T # {}
  PROVE  \E n \in T : \A m \in T : n <= m
<1>. DEFINE R == OpToRel(<, Nat)
<1>1. IsWellFoundedOn(R, Nat)
  BY NatLessThanWellFounded
<1>2. PICK n \in T : \A m \in T : ~(<<m, n>> \in R)
  <2>. HIDE DEF R
  <2>. QED  BY <1>1, WFMin, Zenon
<1>3. ASSUME NEW m \in T  PROVE n <= m
  <2>1. m \in Nat /\ n \in Nat
    OBVIOUS
  <2>2. ~(m < n)
    BY <1>2, <2>1 DEF OpToRel
  <2>. QED  BY <2>1, <2>2
<1>. QED  BY <1>3

-----------------------------------------------------------------------------
(* Discovery, for any entries and any changes of them.                     *)

\* What the assumption on the entries says of each of them.
LEMMA EntryIsRecord ==
  /\ \A e \in Entries : /\ e.id \in 1..MaxId /\ e.account \in 1..MaxId /\ e.ledger \in 1..MaxId
                        /\ e.account \in Accounts /\ e.ledger \in Ledgers /\ e.domain \in Domains
  /\ \A e, f \in Entries : e.id = f.id => e = f
  /\ Accounts \subseteq 1..MaxId /\ Ledgers \subseteq 1..MaxId
  /\ UserDomains \subseteq Domains /\ NoDomain \notin Domains /\ MaxId \in Nat
BY EntriesAssumption DEF Accounts, Ledgers, Domains

\* Before a backend is created nothing is listed.
LEMMA DiscoveryStarts == Init => DiscoveryInv
<1>. SUFFICES ASSUME Init  PROVE DiscoveryInv
  OBVIOUS
<1>1. TypeOK
  <2>1. kind \in {"ripple", "palisade"} /\ configured \in Domains \cup {NoDomain}
    BY DEF Init
  <2>2. status \in [Entries -> {"none", "activated", "addressed"}]
    BY DEF Init
  <2>3. ledgers \subseteq Ledgers /\ changes \in 0..MaxChange /\ cursor \in 0..MaxId
    BY EntryIsRecord, EntriesAssumption DEF Init
  <2>. QED  BY <2>1, <2>2, <2>3 DEF Init, TypeOK
<1>2. PlaceInv /\ StandingInv /\ WalkInv /\ HandedInv /\ ListingIsExact /\ DomainIsTheOnlyOne
  BY DEF Init, PlaceInv, StandingInv, WalkInv, HandedInv, ListingIsExact, DomainIsTheOnlyOne, Walks
<1>. QED  BY <1>1, <1>2 DEF DiscoveryInv

\* What a page is taken from, and what is kept of it.
LEMMA WalkedOf ==
  ASSUME NEW i
  PROVE  /\ pc = "references" =>
              (i \in Collection <=>
                 \E e \in Entries : status[e] = "addressed" /\ e.primary /\ i = e.id)
         /\ pc = "ledgers" => (i \in Collection <=> i \in ledgers)
         /\ pc = "accounts" =>
              (i \in Collection <=>
                 \E e \in Entries : e.domain = domain /\ status[e] # "none" /\ i = e.account)
         /\ pc = "addresses" =>
              (i \in Collection <=>
                 \E e \in Entries : status[e] = "addressed" /\ e.account = Joining /\ i = e.id)
         /\ pc = "wallets" => (i \in Collection <=> \E e \in Entries : status[e] # "none" /\ i = e.id)
<1>1. /\ pc = "references" => Collection = {e.id : e \in {f \in Addressed(status) : f.primary}}
      /\ pc = "ledgers" => Collection = ledgers
      /\ pc = "accounts" =>
           Collection = {e.account : e \in {f \in Entries : f.domain = domain /\ status[f] # "none"}}
      /\ pc = "addresses" => Collection = {e.id : e \in {f \in Addressed(status) : f.account = Joining}}
      /\ pc = "wallets" => Collection = {e.id : e \in {f \in Entries : status[f] # "none"}}
  BY Zenon DEF Collection
<1>. HIDE DEF Collection, Joining
<1>2. CASE pc = "references"
  BY <1>1, <1>2 DEF Addressed
<1>3. CASE pc = "accounts"
  BY <1>1, <1>3
<1>4. CASE pc = "addresses"
  BY <1>1, <1>4 DEF Addressed
<1>5. CASE pc = "wallets"
  BY <1>1, <1>5
<1>. QED  BY <1>1, <1>2, <1>3, <1>4, <1>5

\* Accounts are kept for an address on an XRPL ledger, wallets for one at all.
LEMMA KeptOf ==
  ASSUME NEW page, NEW i
  PROVE  /\ pc = "accounts" =>
              (i \in Kept(page) <=>
                 /\ i \in page
                 /\ \E e \in Entries : status[e] # "none" /\ e.ledger \in xrplLedgers /\ i = e.account)
         /\ pc = "wallets" =>
              (i \in Kept(page) <=> i \in page /\ \E e \in Entries : status[e] = "addressed" /\ i = e.id)
         /\ pc \in {"references", "ledgers", "addresses"} => (i \in Kept(page) <=> i \in page)
<1>1. /\ pc = "accounts" =>
           Kept(page) = page \cap {e.account : e \in {f \in Entries :
                                                        status[f] # "none" /\ f.ledger \in xrplLedgers}}
      /\ pc = "wallets" => Kept(page) = page \cap {e.id : e \in Addressed(status)}
      /\ pc \in {"references", "ledgers", "addresses"} => Kept(page) = page
  BY Zenon DEF Kept
<1>2. CASE pc = "accounts"
  BY <1>1, <1>2
<1>3. CASE pc = "wallets"
  BY <1>1, <1>3 DEF Addressed
<1>. QED  BY <1>1, <1>2, <1>3

\* The next page, even of a server that leads the walk astray: the walk passes by
\* nothing that stands.
LEMMA PageCorrect ==
  ASSUME DiscoveryInv, Page \/ PageAstray
  PROVE  DiscoveryInv'
<1>1. PICK upto \in cursor..MaxId :
        /\ PageRead(upto)
        /\ \/ upto > cursor /\ cursor' = upto /\ answer' = "more"
           \/ (\A i \in Collection : i <= upto) /\ answer' = "end" /\ cursor' = cursor
           \/ answer' = "back" /\ cursor' = cursor
           \/ cursor' \in 1..(cursor - 1) /\ answer' = answer
  BY DEF Page, PageAstray, Follows
<1>2. pc \in Walks /\ answer = "more"
  BY <1>1 DEF PageRead
<1>3. UNCHANGED <<kind, configured, status, ledgers, changes, pc, built, domain, xrplLedgers, left, listed,
                  steady, been, kept>>
  BY <1>1 DEF PageRead, config, world
<1>4. TypeOK /\ PlaceInv /\ StandingInv /\ WalkInv /\ HandedInv /\ ListingIsExact /\ DomainIsTheOnlyOne
  BY DEF DiscoveryInv
<1>5. cursor \in Nat /\ upto \in Nat /\ upto <= MaxId /\ MaxId \in Nat
  BY <1>1, <1>4, EntryIsRecord DEF TypeOK
<1>e. /\ steady \subseteq Entries /\ kept \subseteq Entries /\ been \subseteq Entries
      /\ ledgers \subseteq Ledgers /\ read \subseteq 1..MaxId
      /\ \A e \in steady : status[e] = "addressed" /\ (kind = "ripple" => e.ledger \in ledgers)
      /\ \A e \in kept : status[e] = "addressed"
      /\ pc # "references" => \A e \in Entries : status[e] = "addressed" => e \in been
      /\ kind # "ripple" => pc = "wallets"
  BY <1>2, <1>4 DEF TypeOK, StandingInv, PlaceInv, Usable, Addressed, Walks
<1>6. Collection \subseteq 1..MaxId
  <2>1. ASSUME NEW i \in Collection  PROVE i \in 1..MaxId
    <3>. USE <2>1, <1>e, WalkedOf, EntryIsRecord
    <3>1. CASE pc = "references"
      BY <3>1
    <3>2. CASE pc = "ledgers"
      BY <3>2
    <3>3. CASE pc = "accounts"
      BY <3>3
    <3>4. CASE pc = "addresses"
      BY <3>4
    <3>5. CASE pc = "wallets"
      BY <3>5
    <3>. QED  BY <1>2, <3>1, <3>2, <3>3, <3>4, <3>5 DEF Walks
  <2>. QED  BY <2>1
<1>. DEFINE page == PageTo(upto)
<1>7. page \subseteq Collection
  BY DEF PageTo
<1>8. Kept(page) \subseteq page
  BY <1>2, KeptOf DEF Walks
<1>9. ASSUME NEW i \in Collection, answer' = "end" \/ i <= cursor'
      PROVE  i <= cursor \/ i \in page
  BY <1>1, <1>2, <1>5, <1>6, <1>9 DEF PageTo
<1>10. Joining' = Joining
  BY <1>3 DEF Joining
<1>. HIDE DEF page
<1>11. read' = read \cup Kept(page)
  BY <1>1 DEF PageRead, page
<1>12. TypeOK'
  <2>1. read' \subseteq 1..MaxId
    BY <1>e, <1>6, <1>7, <1>8, <1>11
  <2>2. cursor' \in 0..MaxId /\ answer' \in {"more", "end", "back"}
    BY <1>1, <1>2, <1>4, <1>5 DEF TypeOK
  <2>. QED  BY <1>3, <1>4, <2>1, <2>2 DEF TypeOK
<1>13. PlaceInv' /\ StandingInv' /\ HandedInv' /\ ListingIsExact' /\ DomainIsTheOnlyOne'
  BY <1>3, <1>4 DEF PlaceInv, StandingInv, HandedInv, ListingIsExact, DomainIsTheOnlyOne, Usable, Addressed
<1>14. WalkInv'
  <2>. USE <1>e, <1>9, <1>11, WalkedOf, KeptOf
  <2>w. /\ WalkInv /\ ~(answer = "end")
        /\ \A i : Passed(i)' <=> answer' = "end" \/ i <= cursor'
    BY <1>2, <1>4 DEF Passed
  <2>1. ASSUME pc = "references", NEW e \in kept, e.primary, Passed(e.id)'
        PROVE  e.id \in read'
    BY <2>1, <2>w DEF WalkInv, Passed
  <2>2. ASSUME pc = "ledgers"
        PROVE  read' \subseteq Ledgers /\ \A e \in steady : Passed(e.ledger)' => e.ledger \in read'
    BY <1>7, <2>2, <2>w DEF WalkInv, Passed
  <2>3. ASSUME pc = "accounts"  PROVE read' \subseteq Accounts
    <3>1. ASSUME NEW i \in Kept(page)  PROVE i \in Accounts
      BY <2>3, <3>1, EntryIsRecord
    <3>. QED  BY <2>3, <2>w, <3>1 DEF WalkInv
  <2>4. ASSUME pc = "accounts", NEW e \in steady, e.domain = domain, Passed(e.account)'
        PROVE  e.account \in read'
    <3>1. e.account \in Collection /\ e.ledger \in xrplLedgers
      BY <1>4, <2>4 DEF HandedInv
    <3>. QED  BY <2>4, <2>w, <3>1 DEF WalkInv, Passed
  <2>5. ASSUME pc = "addresses", NEW e \in steady, e.account = Joining, Passed(e.id)'
        PROVE  e.id \in read'
    BY <2>5, <2>w DEF WalkInv, Passed
  <2>6. ASSUME pc = "wallets", NEW e \in steady, Passed(e.id)'
        PROVE  e.id \in read'
    BY <2>6, <2>w DEF WalkInv, Passed
  <2>7. ASSUME pc \in {"addresses", "wallets"}
        PROVE  read' \subseteq {e.id : e \in been}
    <3>1. ASSUME NEW i \in Kept(page)  PROVE \E e \in been : i = e.id
      <4>1. \E e \in Entries : status[e] = "addressed" /\ i = e.id
        BY <1>7, <1>8, <2>7, <3>1
      <4>. QED  BY <2>7, <4>1
    <3>. QED  BY <2>7, <2>w, <3>1 DEF WalkInv
  <2>. QED  BY <1>2, <1>3, <1>10, <2>1, <2>2, <2>3, <2>4, <2>5, <2>6, <2>7 DEF WalkInv
<1>. QED  BY <1>12, <1>13, <1>14 DEF DiscoveryInv

\* A walk that begins has passed by nothing.
LEMMA NothingPassed ==
  ASSUME cursor' = 0, answer' = "more", NEW i \in 1..MaxId
  PROVE  ~(answer' = "end" \/ i <= cursor')
BY EntryIsRecord

\* A listing begins: what stands is what it is held against from here on.
LEMMA BeginCorrect ==
  ASSUME DiscoveryInv, BeginListing, NEW w, WalkNext(w),
         w = (IF kind = "ripple" THEN "ledgers" ELSE "wallets"),
         UNCHANGED <<config, world, built, left>>, kept' \in SUBSET Addressed(status),
         domain' \in Domains \cup {NoDomain}, xrplLedgers' \in SUBSET Ledgers, listed' = {},
         DomainIsTheOnlyOne'
  PROVE  DiscoveryInv'
<1>1. /\ pc' = w /\ cursor' = 0 /\ read' = {} /\ answer' = "more"
      /\ steady' = Usable(status, ledgers) /\ been' = Addressed(status)
      /\ UNCHANGED <<kind, configured, status, ledgers, changes, built, left>>
  BY DEF WalkNext, BeginListing, config, world
<1>2. TypeOK /\ kept' \subseteq Addressed(status)
  BY DEF DiscoveryInv
<1>3. steady' \subseteq Entries /\ been' \subseteq Entries /\ kept' \subseteq Entries
  BY <1>1 DEF Usable, Addressed
<1>4. TypeOK'
  <2>1. pc' \in Walks /\ cursor' \in 0..MaxId /\ read' \subseteq 1..MaxId
    BY <1>1, EntryIsRecord DEF Walks
  <2>. QED  BY <1>1, <1>2, <1>3, <2>1 DEF TypeOK
<1>5. PlaceInv' /\ ListingIsExact' /\ HandedInv'
  BY <1>1, <1>2 DEF PlaceInv, ListingIsExact, HandedInv, TypeOK
<1>6. StandingInv'
  BY <1>1, <1>2 DEF StandingInv, Usable, Addressed
<1>7. WalkInv'
  BY <1>1, <1>3, NothingPassed, EntryIsRecord DEF WalkInv, Passed
<1>. QED  BY <1>4, <1>5, <1>6, <1>7 DEF DiscoveryInv

\* A creation or a listing that fails leaves nothing to be held against it.
LEMMA AbandonCorrect ==
  ASSUME DiscoveryInv, Abandon, pc \in Walks
  PROVE  DiscoveryInv'
<1>1. /\ pc' \in {"ready", "failed"}
      /\ cursor' = 0 /\ read' = {} /\ answer' = "more"
      /\ listed' = {} /\ left' = {} /\ xrplLedgers' = {} /\ steady' = {} /\ been' = {}
      /\ UNCHANGED <<kind, configured, status, ledgers, changes, built, domain, kept>>
  BY DEF Abandon, config, world
<1>2. TypeOK /\ StandingInv /\ DomainIsTheOnlyOne
  BY DEF DiscoveryInv
<1>3. TypeOK'
  BY <1>1, <1>2, EntryIsRecord DEF TypeOK
<1>4. StandingInv' /\ PlaceInv'
  BY <1>1, <1>2 DEF StandingInv, PlaceInv, Addressed, Usable, Walks
<1>5. WalkInv' /\ HandedInv' /\ ListingIsExact' /\ DomainIsTheOnlyOne'
  BY <1>1, <1>2 DEF WalkInv, HandedInv, ListingIsExact, DomainIsTheOnlyOne, Walks
<1>. QED  BY <1>3, <1>4, <1>5 DEF DiscoveryInv

\* Asking for a page again passes by nothing new.
LEMMA AskAgainCorrect ==
  ASSUME DiscoveryInv, AskAgain
  PROVE  DiscoveryInv'
<1>1. /\ answer' = "more"
      /\ UNCHANGED <<kind, configured, status, ledgers, changes, pc, built, cursor, read, domain, xrplLedgers,
                     left, listed, steady, been, kept>>
  BY DEF AskAgain, config, world
<1>2. Joining' = Joining
  BY <1>1 DEF Joining
<1>3. TypeOK' /\ PlaceInv' /\ StandingInv' /\ HandedInv' /\ ListingIsExact' /\ DomainIsTheOnlyOne'
  BY <1>1 DEF DiscoveryInv, TypeOK, PlaceInv, StandingInv, HandedInv, ListingIsExact, DomainIsTheOnlyOne,
              Usable, Addressed
<1>4. WalkInv'
  BY <1>1, <1>2 DEF DiscoveryInv, WalkInv, Passed
<1>. QED  BY <1>3, <1>4 DEF DiscoveryInv

\* create: the domain given, or the one to be looked up.
LEMMA CreateCorrect ==
  ASSUME DiscoveryInv, Create
  PROVE  DiscoveryInv'
<1>1. /\ pc = "new" /\ kept' = Addressed(status) /\ domain' = configured
      /\ UNCHANGED <<kind, configured, status, ledgers, changes, built, xrplLedgers, left, listed>>
  BY DEF Create, config, world
<1>2. TypeOK /\ StandingInv
  BY DEF DiscoveryInv
<1>3. listed = {} /\ answer = "more"
  BY <1>1, <1>2 DEF StandingInv, DiscoveryInv, WalkInv, Walks
<1>4. DomainIsTheOnlyOne' /\ domain' \in Domains \cup {NoDomain}
  BY <1>1, <1>2 DEF DomainIsTheOnlyOne, TypeOK
<1>5. CASE BeginListing /\ WalkNext(IF kind = "ripple" THEN "ledgers" ELSE "wallets")
  BY <1>1, <1>2, <1>3, <1>4, <1>5, BeginCorrect DEF TypeOK, config, world
<1>6. ASSUME \/ WalkNext("references") /\ kind = "ripple"
             \/ pc' = "failed" /\ UNCHANGED walk,
             UNCHANGED <<steady, been>>
      PROVE  DiscoveryInv'
  <2>1. TypeOK'
    <3>1. pc' \in Walks \cup {"new", "ready", "failed"}
      BY <1>6 DEF WalkNext, Walks
    <3>2. cursor' \in 0..MaxId /\ read' \subseteq 1..MaxId /\ answer' \in {"more", "end", "back"}
      BY <1>2, <1>6, EntryIsRecord DEF WalkNext, walk, TypeOK
    <3>3. kept' \subseteq Entries
      BY <1>1 DEF Addressed
    <3>. QED  BY <1>1, <1>2, <1>4, <1>6, <3>1, <3>2, <3>3 DEF TypeOK
  <2>2. PlaceInv' /\ StandingInv' /\ HandedInv' /\ ListingIsExact'
    BY <1>1, <1>2, <1>3, <1>6
       DEF WalkNext, walk, PlaceInv, StandingInv, HandedInv, ListingIsExact, Usable, Addressed, Walks
  <2>3. WalkInv'
    <3>1. CASE WalkNext("references")
      BY <1>1, <3>1, NothingPassed, EntryIsRecord DEF WalkNext, WalkInv, Passed, Addressed, Walks
    <3>2. CASE pc' = "failed" /\ UNCHANGED walk
      BY <1>3, <3>2 DEF WalkInv, walk
    <3>. QED  BY <1>6, <3>1, <3>2
  <2>. QED  BY <1>4, <2>1, <2>2, <2>3 DEF DiscoveryInv
<1>7. kind \in {"ripple", "palisade"}
  BY <1>2 DEF TypeOK
<1>. QED  BY <1>5, <1>6, <1>7 DEF Create

\* Two domains of the user's that hold the address are an error.
LEMMA OneHoldingIsOne ==
  ASSUME OneHolding, NEW c \in HoldingDomains, NEW d \in HoldingDomains, read \subseteq 1..MaxId
  PROVE  c = d
<1>. DEFINE Holding == {e \in Entries : e.id \in read /\ e.domain \in UserDomains}
            Id == [e \in Holding |-> e.id]
            DomainOf == [e \in Holding |-> e.domain]
<1>1. IsFiniteSet(Holding)
  <2>1. Id \in Injection(Holding, 1..MaxId)
    BY EntryIsRecord DEF Injection, IsInjective
  <2>2. IsFiniteSet(1..MaxId)
    BY EntryIsRecord, FS_Interval
  <2>. QED  BY <2>1, <2>2, FS_Injection
<1>2. DomainOf \in Surjection(Holding, HoldingDomains)
  BY DEF Surjection, HoldingDomains
<1>3. IsFiniteSet(HoldingDomains)
  BY <1>1, <1>2, FS_Surjection
<1>. QED  BY <1>3, FS_Singleton DEF OneHolding

\* The domain looked up is the one that holds every primary entry that stood.
LEMMA ResolveDomainCorrect ==
  ASSUME DiscoveryInv, ResolveDomain
  PROVE  DiscoveryInv'
<1>1. pc = "references" /\ answer = "end"
  BY DEF ResolveDomain
<1>2. TypeOK /\ StandingInv /\ WalkInv /\ PlaceInv
  BY DEF DiscoveryInv
<1>3. CASE Abandon
  BY <1>1, <1>3, AbandonCorrect DEF Walks
<1>4. CASE /\ OneHolding
           /\ domain' \in HoldingDomains
           /\ WalkNext("ledgers") /\ BeginListing
           /\ UNCHANGED <<config, world, built, xrplLedgers, left, listed, kept>>
  <2>1. kind = "ripple" /\ listed = {} /\ kept \subseteq Addressed(status) /\ xrplLedgers \subseteq Ledgers
    BY <1>1, <1>2 DEF PlaceInv, StandingInv, TypeOK
  <2>2. domain' \in UserDomains
    BY <1>4 DEF HoldingDomains
  <2>3. ASSUME NEW e \in kept, e.primary, e.domain \in UserDomains  PROVE e.domain = domain'
    <3>1. e \in Entries /\ e.id \in read /\ read \subseteq 1..MaxId
      BY <1>1, <1>2, <2>3 DEF WalkInv, Passed, TypeOK
    <3>2. e.domain \in HoldingDomains
      BY <2>3, <3>1 DEF HoldingDomains
    <3>. QED  BY <1>4, <3>1, <3>2, OneHoldingIsOne
  <2>4. DomainIsTheOnlyOne'
    BY <1>4, <2>2, <2>3 DEF DomainIsTheOnlyOne
  <2>. QED  BY <1>4, <2>1, <2>2, <2>4, BeginCorrect, EntryIsRecord
<1>. QED  BY <1>3, <1>4 DEF ResolveDomain

\* The ledgers are read: what stands is on one of them.
LEMMA ResolveLedgersCorrect ==
  ASSUME DiscoveryInv, ResolveLedgers
  PROVE  DiscoveryInv'
<1>1. /\ pc = "ledgers" /\ answer = "end" /\ xrplLedgers' = read
      /\ pc' = "accounts" /\ cursor' = 0 /\ read' = {} /\ answer' = "more"
      /\ UNCHANGED <<kind, configured, status, ledgers, changes, built, domain, left, listed,
                     steady, been, kept>>
  BY DEF ResolveLedgers, WalkNext, config, world
<1>2. TypeOK /\ StandingInv /\ WalkInv /\ PlaceInv /\ DomainIsTheOnlyOne
  BY DEF DiscoveryInv
<1>3. read \subseteq Ledgers /\ \A e \in steady : e.ledger \in read
  BY <1>1, <1>2 DEF WalkInv, Passed
<1>4. TypeOK'
  <2>1. pc' \in Walks /\ cursor' \in 0..MaxId /\ read' \subseteq 1..MaxId
    BY <1>1, EntryIsRecord DEF Walks
  <2>. QED  BY <1>1, <1>2, <1>3, <2>1 DEF TypeOK
<1>5. PlaceInv' /\ StandingInv' /\ HandedInv' /\ ListingIsExact' /\ DomainIsTheOnlyOne'
  BY <1>1, <1>2, <1>3 DEF PlaceInv, StandingInv, HandedInv, ListingIsExact, DomainIsTheOnlyOne, Usable,
                          Addressed, Walks
<1>6. WalkInv'
  BY <1>1, <1>2, NothingPassed, EntryIsRecord DEF WalkInv, Passed, TypeOK
<1>. QED  BY <1>4, <1>5, <1>6 DEF DiscoveryInv

\* A listing ends with everything that stood, and nothing that had gone before.
LEMMA ConcludeCorrect ==
  ASSUME DiscoveryInv, NEW found \in SUBSET been, Conclude(found),
         UNCHANGED <<config, world, domain, xrplLedgers, steady, been, kept>>,
         \A e \in steady : kind = "palisade" \/ e.domain = domain => e \in found
  PROVE  DiscoveryInv'
<1>1. /\ pc' \in {"ready", "failed"} /\ built' \in BOOLEAN
      /\ listed' = found
      /\ cursor' = 0 /\ read' = {} /\ answer' = "more" /\ left' = {}
      /\ UNCHANGED <<kind, configured, status, ledgers, changes, domain, xrplLedgers, steady, been, kept>>
  BY DEF Conclude, config, world, DiscoveryInv, TypeOK
<1>2. TypeOK /\ StandingInv /\ DomainIsTheOnlyOne
  BY DEF DiscoveryInv
<1>3. TypeOK'
  BY <1>1, <1>2, EntryIsRecord DEF TypeOK
<1>4. PlaceInv' /\ StandingInv' /\ HandedInv' /\ DomainIsTheOnlyOne' /\ WalkInv'
  BY <1>1, <1>2 DEF PlaceInv, StandingInv, HandedInv, WalkInv, DomainIsTheOnlyOne, Usable, Addressed, Walks
<1>5. ListingIsExact'
  BY <1>1 DEF ListingIsExact
<1>. QED  BY <1>3, <1>4, <1>5 DEF DiscoveryInv

\* What is not joined yet and what has been found make up what stands.
LEMMA JoinCorrect ==
  ASSUME DiscoveryInv, pc \in {"accounts", "addresses"},
         NEW accounts \in SUBSET Accounts, NEW found \in SUBSET been, Join(accounts, found),
         UNCHANGED <<config, world, domain, xrplLedgers, steady, been, kept>>,
         \A e \in steady : e.domain = domain => e.account \in accounts \/ e \in found
  PROVE  DiscoveryInv'
<1>1. TypeOK /\ StandingInv /\ HandedInv /\ PlaceInv /\ DomainIsTheOnlyOne
  BY DEF DiscoveryInv
<1>2. kind = "ripple"
  BY <1>1 DEF PlaceInv
<1>3. CASE accounts = {}
  BY <1>2, <1>3, ConcludeCorrect DEF Join
<1>4. CASE accounts # {}
  <2>1. /\ pc' = "addresses" /\ cursor' = 0 /\ read' = {} /\ answer' = "more"
        /\ left' = accounts /\ listed' = found
        /\ UNCHANGED <<kind, configured, status, ledgers, changes, built, domain, xrplLedgers,
                       steady, been, kept>>
    BY <1>4 DEF Join, WalkNext, config, world
  <2>2. TypeOK'
    <3>1. pc' \in Walks /\ cursor' \in 0..MaxId /\ read' \subseteq 1..MaxId
      BY <2>1, EntryIsRecord DEF Walks
    <3>. QED  BY <1>1, <2>1, <3>1 DEF TypeOK
  <2>3. PlaceInv' /\ StandingInv' /\ HandedInv' /\ ListingIsExact' /\ DomainIsTheOnlyOne'
    BY <1>1, <1>2, <2>1 DEF PlaceInv, StandingInv, HandedInv, ListingIsExact, DomainIsTheOnlyOne, Usable,
                            Addressed, Walks
  <2>4. WalkInv'
    BY <1>1, <2>1, NothingPassed, EntryIsRecord DEF WalkInv, Passed, TypeOK
  <2>. QED  BY <2>2, <2>3, <2>4 DEF DiscoveryInv
<1>. QED  BY <1>3, <1>4

\* The accounts are read: each that stands is to be joined with its addresses.
LEMMA ResolveAccountsCorrect ==
  ASSUME DiscoveryInv, ResolveAccounts
  PROVE  DiscoveryInv'
<1>1. pc = "accounts" /\ answer = "end" /\ Join(read, {})
      /\ UNCHANGED <<config, world, domain, xrplLedgers, steady, been, kept>>
  BY DEF ResolveAccounts
<1>2. read \subseteq Accounts /\ \A e \in steady : e.domain = domain => e.account \in read
  BY <1>1 DEF DiscoveryInv, WalkInv, Passed
<1>. QED  BY <1>1, <1>2, JoinCorrect

\* The addresses of one account are joined to it.
LEMMA ResolveAddressesCorrect ==
  ASSUME DiscoveryInv, ResolveAddresses
  PROVE  DiscoveryInv'
<1>. DEFINE new == {e \in Entries : e.id \in read /\ e.ledger \in xrplLedgers}
<1>1. pc = "addresses" /\ answer = "end" /\ Join(left \ {Joining}, listed \cup new)
      /\ UNCHANGED <<config, world, domain, xrplLedgers, steady, been, kept>>
  BY DEF ResolveAddresses
<1>2. TypeOK /\ StandingInv /\ HandedInv /\ WalkInv
  BY DEF DiscoveryInv
<1>3. new \subseteq been
  BY <1>1, <1>2, EntryIsRecord DEF WalkInv, TypeOK
<1>4. ASSUME NEW e \in steady, e.domain = domain
      PROVE  e.account \in left \ {Joining} \/ e \in listed \cup new
  <2>1. e \in Entries /\ e.ledger \in xrplLedgers /\ (e.account \in left \/ e \in listed)
    BY <1>1, <1>2, <1>4 DEF HandedInv, TypeOK
  <2>2. e.account = Joining => e.id \in read
    BY <1>1, <1>2 DEF WalkInv, Passed
  <2>. QED  BY <2>1, <2>2
<1>5. left \ {Joining} \subseteq Accounts /\ listed \cup new \subseteq been
  BY <1>2, <1>3 DEF TypeOK, StandingInv
<1>. QED  BY <1>1, <1>4, <1>5, JoinCorrect

\* Palisade's wallets are one collection.
LEMMA ResolveWalletsCorrect ==
  ASSUME DiscoveryInv, ResolveWallets
  PROVE  DiscoveryInv'
<1>. DEFINE found == {e \in Entries : e.id \in read}
<1>1. pc = "wallets" /\ answer = "end" /\ Conclude(found)
      /\ UNCHANGED <<config, world, domain, xrplLedgers, steady, been, kept>>
  BY DEF ResolveWallets
<1>2. TypeOK /\ WalkInv
  BY DEF DiscoveryInv
<1>3. found \subseteq been
  BY <1>1, <1>2, EntryIsRecord DEF WalkInv, TypeOK
<1>4. \A e \in steady : e \in found
  BY <1>1, <1>2 DEF WalkInv, Passed, TypeOK
<1>. QED  BY <1>1, <1>3, <1>4, ConcludeCorrect

\* A listing after the first starts from the ledgers, under the domain found before.
LEMMA ListCorrect ==
  ASSUME DiscoveryInv, List
  PROVE  DiscoveryInv'
<1>1. /\ kind = "ripple" /\ WalkNext("ledgers") /\ BeginListing
      /\ listed' = {} /\ xrplLedgers' = {}
      /\ UNCHANGED <<config, world, built, domain, left, kept>>
  BY DEF List
<1>2. TypeOK /\ StandingInv /\ DomainIsTheOnlyOne
  BY DEF DiscoveryInv
<1>3. DomainIsTheOnlyOne'
  BY <1>1, <1>2 DEF DomainIsTheOnlyOne, config
<1>. QED  BY <1>1, <1>2, <1>3, BeginCorrect DEF TypeOK, StandingInv

\* Whatever comes and goes, what still stands was there before.
LEMMA ChangeCorrect ==
  ASSUME DiscoveryInv, NEW st \in [Entries -> {"none", "activated", "addressed"}], NEW ls \in SUBSET Ledgers,
         ChangeTo(st, ls)
  PROVE  DiscoveryInv'
<1>1. /\ status' = st /\ ledgers' = ls /\ changes' = changes + 1 /\ changes < MaxChange
      /\ steady' = steady \cap Usable(st, ls) /\ been' = been \cup Addressed(st)
      /\ kept' = kept \cap Addressed(st)
      /\ UNCHANGED <<kind, configured, pc, built, cursor, read, answer, domain, xrplLedgers, left, listed>>
  BY DEF ChangeTo, config, walk
<1>2. TypeOK /\ PlaceInv /\ StandingInv /\ WalkInv /\ HandedInv /\ ListingIsExact /\ DomainIsTheOnlyOne
  BY DEF DiscoveryInv
<1>3. TypeOK'
  <2>1. /\ changes' \in 0..MaxChange
        /\ been' \subseteq Entries /\ steady' \subseteq Entries /\ kept' \subseteq Entries
    BY <1>1, <1>2, EntriesAssumption DEF TypeOK, Addressed
  <2>. QED  BY <1>1, <1>2, <2>1 DEF TypeOK
<1>4. Joining' = Joining
  BY <1>1 DEF Joining
<1>5. StandingInv' /\ PlaceInv'
  BY <1>1, <1>2 DEF StandingInv, PlaceInv, Usable, Addressed
<1>6. WalkInv'
  BY <1>1, <1>2, <1>4 DEF WalkInv, Passed
<1>7. HandedInv' /\ ListingIsExact' /\ DomainIsTheOnlyOne'
  BY <1>1, <1>2 DEF HandedInv, ListingIsExact, DomainIsTheOnlyOne
<1>. QED  BY <1>3, <1>5, <1>6, <1>7 DEF DiscoveryInv

\* The invariant of the walks is inductive.
THEOREM DiscoveryCorrect == Spec => []DiscoveryInv
<1>1. DiscoveryInv /\ [Next]_vars => DiscoveryInv'
  <2>. SUFFICES ASSUME DiscoveryInv, [Next]_vars  PROVE DiscoveryInv'
    OBVIOUS
  <2>1. CASE Create \/ List \/ RequestFails
    BY <2>1, CreateCorrect, ListCorrect, AbandonCorrect DEF RequestFails
  <2>2. CASE Page \/ PageAstray
    BY <2>2, PageCorrect
  <2>3. CASE PointedBack
    <3>1. pc \in Walks
      BY <2>3 DEF PointedBack, DiscoveryInv, WalkInv
    <3>. QED  BY <2>3, <3>1, AskAgainCorrect, AbandonCorrect DEF PointedBack
  <2>4. CASE ResolveDomain \/ ResolveLedgers \/ ResolveAccounts \/ ResolveAddresses \/ ResolveWallets
    BY <2>4, ResolveDomainCorrect, ResolveLedgersCorrect, ResolveAccountsCorrect, ResolveAddressesCorrect,
       ResolveWalletsCorrect
  <2>5. CASE \/ \E e \in Entries : Advances(e)
             \/ \E a \in Accounts : Goes(a)
             \/ \E l \in Ledgers : LedgerToggles(l)
    <3>1. TypeOK
      BY DEF DiscoveryInv
    <3>2. ASSUME NEW e \in Entries, Advances(e)  PROVE DiscoveryInv'
      <4>1. [status EXCEPT ![e] = IF @ = "none" THEN "activated" ELSE "addressed"]
              \in [Entries -> {"none", "activated", "addressed"}]
        BY <3>1 DEF TypeOK
      <4>. QED  BY <3>1, <3>2, <4>1, ChangeCorrect DEF Advances, TypeOK
    <3>3. ASSUME NEW a \in Accounts, Goes(a)  PROVE DiscoveryInv'
      <4>1. [e \in Entries |-> IF e.account = a THEN "none" ELSE status[e]]
              \in [Entries -> {"none", "activated", "addressed"}]
        BY <3>1 DEF TypeOK
      <4>. QED  BY <3>1, <3>3, <4>1, ChangeCorrect DEF Goes, TypeOK
    <3>4. ASSUME NEW l \in Ledgers, LedgerToggles(l)  PROVE DiscoveryInv'
      <4>1. (IF l \in ledgers THEN ledgers \ {l} ELSE ledgers \cup {l}) \in SUBSET Ledgers
        BY <3>1 DEF TypeOK
      <4>. QED  BY <3>1, <3>4, <4>1, ChangeCorrect DEF LedgerToggles, TypeOK
    <3>. QED  BY <2>5, <3>2, <3>3, <3>4
  <2>6. CASE UNCHANGED vars
    <3>1. Joining' = Joining
      BY <2>6 DEF vars, Joining
    <3>. QED
      BY <2>6, <3>1 DEF vars, config, world, walk, DiscoveryInv, TypeOK, PlaceInv, StandingInv, WalkInv,
                        HandedInv,
                        ListingIsExact, DomainIsTheOnlyOne, Usable, Addressed, Passed
  <2>. QED  BY <2>1, <2>2, <2>3, <2>4, <2>5, <2>6 DEF Next, Proceed
<1>. QED  BY <1>1, DiscoveryStarts, PTL DEF Spec

\* A listing has every entry of its domain that stood throughout it and none that stood
\* at no time of it, however the collections change between its pages.
THEOREM ListingsAreExact == Spec => []ListingIsExact
<1>1. DiscoveryInv => ListingIsExact
  BY DEF DiscoveryInv
<1>. QED  BY <1>1, DiscoveryCorrect, PTL

\* A domain that was looked up is the only one of the user's with a primary address
\* that stood throughout the lookup.
THEOREM LookedUpDomainIsTheOnlyOne == Spec => []DomainIsTheOnlyOne
<1>1. DiscoveryInv => DomainIsTheOnlyOne
  BY DEF DiscoveryInv
<1>. QED  BY <1>1, DiscoveryCorrect, PTL

\* How many more steps a walk of Ripple Custody can take, and the walks after it, at the
\* most, unless it is led astray: the pages it can still be handed, the one that points
\* back, and a walk for each account that is to be joined.
WalksLeft == CASE pc = "references" -> MaxId + 3
               [] pc = "ledgers" -> MaxId + 2
               [] pc = "accounts" -> MaxId + 1
               [] pc = "addresses" -> Cardinality(left)
PagesLeft == 2 * (MaxId - cursor) + (IF answer = "more" THEN 1 ELSE 0)
Walking == kind = "ripple" /\ pc \in Walks
StepsLeft == IF Walking THEN (2 * MaxId + 2) * WalksLeft + PagesLeft ELSE 0

\* While addresses are listed there is an account they belong to.
JoiningInv == pc = "addresses" => left # {}

LEMMA JoiningKept == JoiningInv /\ [Next]_vars => JoiningInv'
<1>. SUFFICES ASSUME JoiningInv, [Next]_vars  PROVE JoiningInv'
  OBVIOUS
<1>1. CASE pc' = pc /\ left' = left
  BY <1>1 DEF JoiningInv
<1>2. CASE pc' # "addresses"
  BY <1>2 DEF JoiningInv
<1>3. ASSUME NEW accounts, NEW found, Join(accounts, found), pc' = "addresses"  PROVE JoiningInv'
  BY <1>3 DEF Join, Conclude, WalkNext, JoiningInv
<1>4. CASE Create \/ List \/ RequestFails \/ ResolveDomain \/ ResolveLedgers \/ ResolveWallets
  BY <1>2, <1>4 DEF Create, List, RequestFails, ResolveDomain, ResolveLedgers, ResolveWallets, Conclude, Abandon,
                    WalkNext
<1>5. CASE Page \/ PageAstray \/ PointedBack
  BY <1>1, <1>2, <1>5 DEF Page, PageAstray, PageRead, PointedBack, Abandon, AskAgain
<1>6. CASE ResolveAccounts \/ ResolveAddresses
  BY <1>2, <1>3, <1>6 DEF ResolveAccounts, ResolveAddresses
<1>7. CASE (\E e \in Entries : Advances(e)) \/ (\E a \in Accounts : Goes(a)) \/ (\E l \in Ledgers : LedgerToggles(l))
  BY <1>1, <1>7 DEF Advances, Goes, LedgerToggles, ChangeTo
<1>8. CASE UNCHANGED vars
  BY <1>1, <1>8 DEF vars
<1>. QED  BY <1>4, <1>5, <1>6, <1>7, <1>8 DEF Next, Proceed

\* There are no more accounts than ids.
LEMMA AccountsAreFew ==
  ASSUME NEW S \in SUBSET Accounts
  PROVE  /\ IsFiniteSet(S) /\ Cardinality(S) \in 0..MaxId
         /\ S # {} => Cardinality(S) \in 1..MaxId
<1>1. S \subseteq 1..MaxId /\ MaxId \in Nat
  BY EntryIsRecord
<1>2. IsFiniteSet(1..MaxId) /\ Cardinality(1..MaxId) = MaxId
  BY <1>1, FS_Interval
<1>3. IsFiniteSet(S) /\ Cardinality(S) <= MaxId
  BY <1>1, <1>2, FS_Subset
<1>4. Cardinality(S) \in Nat /\ (S # {} => Cardinality(S) # 0)
  BY <1>3, FS_CardinalityType, FS_EmptySet
<1>. QED  BY <1>1, <1>3, <1>4

\* An account is joined at a time, and one less is left.
LEMMA OneLessToJoin ==
  ASSUME left \in SUBSET Accounts, left # {}
  PROVE  /\ Cardinality(left) \in 1..MaxId
         /\ left \ {Joining} \in SUBSET Accounts
         /\ Cardinality(left \ {Joining}) = Cardinality(left) - 1
<1>1. left \in SUBSET Nat
  BY EntryIsRecord
<1>2. \E a \in left : \A b \in left : a <= b
  BY <1>1, LeastOfNat
<1>3. Joining \in left
  BY <1>2 DEF Joining
<1>4. IsFiniteSet(left) /\ Cardinality(left) \in 1..MaxId
  BY AccountsAreFew
<1>5. Cardinality(left \ {Joining}) = Cardinality(left) - 1
  BY <1>3, <1>4, FS_RemoveElement
<1>. QED  BY <1>4, <1>5

\* What is left is a number, and that of a later walk is less than that of an earlier one.
LEMMA StepsOf ==
  ASSUME NEW w \in Nat, NEW x \in Nat, NEW y \in Nat, NEW p \in Nat, NEW q \in Nat, x < y, p < w
  PROVE  w * x + p < w * y + q /\ w * x + p \in Nat
<1>1. y - x - 1 \in Nat /\ y = x + 1 + (y - x - 1)
  OBVIOUS
<1>2. PICK d \in Nat : y = x + 1 + d
  BY <1>1
<1>3. w * y = w * x + w + w * d /\ w * x \in Nat /\ w * d \in Nat
  BY <1>2
<1>. QED  BY <1>3

\* What is left at each point of a listing.
StepsCounted ==
  /\ PagesLeft \in 0..(2 * MaxId + 1)
  /\ Walking => /\ WalksLeft \in 1..(MaxId + 3)
                /\ StepsLeft = (2 * MaxId + 2) * WalksLeft + PagesLeft
                /\ pc = "references" => WalksLeft = MaxId + 3
                /\ pc = "ledgers" => WalksLeft = MaxId + 2
                /\ pc = "accounts" => WalksLeft = MaxId + 1
                /\ pc = "addresses" => WalksLeft = Cardinality(left) /\ WalksLeft \in 1..MaxId
  /\ ~Walking => StepsLeft = 0
  /\ StepsLeft \in Nat
  /\ Walking => StepsLeft > 0

LEMMA CountingSteps == DiscoveryInv /\ JoiningInv => StepsCounted
<1>. SUFFICES ASSUME DiscoveryInv, JoiningInv  PROVE StepsCounted
  OBVIOUS
<1>1. MaxId \in Nat /\ TypeOK /\ PlaceInv
  BY EntryIsRecord DEF DiscoveryInv
<1>2. PagesLeft \in 0..(2 * MaxId + 1)
  BY <1>1 DEF PagesLeft, TypeOK
<1>3. /\ pc = "references" => WalksLeft = MaxId + 3
      /\ pc = "ledgers" => WalksLeft = MaxId + 2
      /\ pc = "accounts" => WalksLeft = MaxId + 1
      /\ pc = "addresses" => WalksLeft = Cardinality(left)
  BY Zenon DEF WalksLeft
<1>4. ASSUME pc = "addresses"  PROVE Cardinality(left) \in 1..MaxId
  <2>1. left \in SUBSET Accounts /\ left # {}
    BY <1>1, <1>4 DEF TypeOK, JoiningInv
  <2>. QED  BY <2>1, OneLessToJoin
<1>5. Walking => pc \in {"references", "ledgers", "accounts", "addresses"}
  BY <1>1 DEF PlaceInv, Walking, Walks
<1>. HIDE DEF WalksLeft, PagesLeft
<1>6. CASE Walking
  <2>1. WalksLeft \in 1..(MaxId + 3)
    BY <1>1, <1>3, <1>4, <1>5, <1>6
  <2>2. StepsLeft = (2 * MaxId + 2) * WalksLeft + PagesLeft
    BY <1>6 DEF StepsLeft
  <2>3. StepsLeft \in Nat /\ StepsLeft > 0
    <3>1. PICK w \in Nat, x \in Nat, p \in Nat :
            w = 2 * MaxId + 2 /\ x = WalksLeft /\ p = PagesLeft /\ p < w /\ 0 < x
      BY <1>1, <1>2, <2>1
    <3>2. w * 0 + p < w * x + p
      BY <3>1, StepsOf
    <3>3. w * x \in Nat /\ w * 0 = 0
      BY <3>1
    <3>. QED  BY <2>2, <3>1, <3>2, <3>3
  <2>. QED  BY <1>2, <1>3, <1>4, <1>6, <2>1, <2>2, <2>3 DEF StepsCounted
<1>7. CASE ~Walking
  <2>1. StepsLeft = 0
    BY <1>7 DEF StepsLeft
  <2>. QED  BY <1>2, <1>7, <2>1 DEF StepsCounted
<1>. QED  BY <1>6, <1>7

LEMMA CountingStepsNext == (DiscoveryInv /\ JoiningInv)' => StepsCounted'
BY CountingSteps, PTL

\* The next walk is one of those that were left.
LEMMA NextWalkCounts ==
  ASSUME StepsCounted, StepsCounted', Walking, Walking' => WalksLeft' < WalksLeft
  PROVE  StepsLeft' < StepsLeft
<1>1. CASE Walking'
  <2>1. MaxId \in Nat
    BY EntryIsRecord
  <2>2. PICK w \in Nat, x \in Nat, y \in Nat, p \in Nat, q \in Nat :
          /\ w = 2 * MaxId + 2 /\ x = WalksLeft' /\ y = WalksLeft /\ p = PagesLeft' /\ q = PagesLeft
          /\ x < y /\ p < w
    BY <1>1, <2>1 DEF StepsCounted
  <2>3. w * x + p < w * y + q
    BY <2>2, StepsOf
  <2>. QED  BY <1>1, <2>2, <2>3 DEF StepsCounted
<1>2. CASE ~Walking'
  BY <1>2 DEF StepsCounted
<1>. QED  BY <1>1, <1>2

\* The next page is one of those that were left.
LEMMA NextPageCounts ==
  ASSUME DiscoveryInv, StepsCounted, StepsCounted', Walking, UNCHANGED <<kind, pc, left>>,
         \/ PagesLeft' < PagesLeft
         \/ PagesLeft' = PagesLeft
  PROVE  /\ PagesLeft' < PagesLeft => StepsLeft' < StepsLeft
         /\ PagesLeft' = PagesLeft => StepsLeft' = StepsLeft
<1>1. Walking' /\ WalksLeft' = WalksLeft
  BY DEF Walking, WalksLeft
<1>2. MaxId \in Nat
  BY EntryIsRecord
<1>3. PICK c \in Nat : c = (2 * MaxId + 2) * WalksLeft
  BY <1>2 DEF StepsCounted
<1>. QED  BY <1>1, <1>2, <1>3 DEF StepsCounted

\* No walk goes on for ever that is not led astray: whatever the pages are like and
\* whatever changes between them, each step of a listing of Ripple Custody, or of the
\* lookup of the domain before it, leaves fewer, and nothing but an earlier cursor adds
\* to them.
THEOREM WalksAreFinite ==
  Spec => [][ Walking => /\ StepsLeft \in Nat /\ StepsLeft' \in Nat
                         /\ ~PageAstray => StepsLeft' <= StepsLeft
                         /\ Proceed => StepsLeft' < StepsLeft ]_vars
<1>. DEFINE Fewer == Walking => /\ StepsLeft \in Nat /\ StepsLeft' \in Nat
                                /\ ~PageAstray => StepsLeft' <= StepsLeft
                                /\ Proceed => StepsLeft' < StepsLeft
            Inv == DiscoveryInv /\ JoiningInv
<1>1. Spec => []JoiningInv
  <2>1. Init => JoiningInv
    BY DEF Init, JoiningInv
  <2>. QED  BY <2>1, JoiningKept, PTL DEF Spec
<1>2. Inv /\ Inv' /\ Next => Fewer
  <2>. SUFFICES ASSUME Inv, Inv', Next, Walking
                PROVE  /\ StepsLeft \in Nat /\ StepsLeft' \in Nat
                       /\ ~PageAstray => StepsLeft' <= StepsLeft
                       /\ Proceed => StepsLeft' < StepsLeft
    OBVIOUS
  <2>1. StepsCounted /\ StepsCounted'
    BY CountingSteps, CountingStepsNext
  <2>2. /\ StepsLeft \in Nat /\ StepsLeft' \in Nat
        /\ TypeOK /\ PlaceInv /\ kind = "ripple" /\ pc \in Walks /\ MaxId \in Nat
        /\ (~Walking' => StepsLeft' < StepsLeft)
    BY <2>1, EntryIsRecord DEF StepsCounted, DiscoveryInv, Walking
  <2>3. ASSUME WalksLeft' < WalksLeft  PROVE StepsLeft' < StepsLeft
    BY <2>1, <2>3, NextWalkCounts
  <2>4. ASSUME NEW accounts \in SUBSET Accounts, NEW found, Join(accounts, found), kind' = kind,
               Cardinality(accounts) < WalksLeft
        PROVE  StepsLeft' < StepsLeft
    <3>1. CASE accounts = {}
      BY <2>2, <2>4, <3>1 DEF Join, Conclude, Walking, Walks
    <3>2. CASE accounts # {}
      <4>1. pc' = "addresses" /\ left' = accounts
        BY <2>4, <3>2 DEF Join, WalkNext
      <4>2. Walking'
        BY <2>2, <2>4, <4>1 DEF Walking, Walks
      <4>3. WalksLeft' = Cardinality(accounts)
        BY <2>1, <4>1, <4>2 DEF StepsCounted
      <4>. QED  BY <2>3, <2>4, <4>3
    <3>. QED  BY <3>1, <3>2
  <2>5. CASE Page
    <3>1. UNCHANGED <<kind, pc, left>> /\ answer = "more"
      BY <2>5 DEF Page, PageRead, config
    <3>2. \/ cursor' \in cursor..MaxId /\ cursor' > cursor
          \/ cursor' = cursor /\ answer' \in {"end", "back"}
      BY <2>5 DEF Page
    <3>3. PagesLeft' < PagesLeft
      BY <2>2, <3>1, <3>2 DEF PagesLeft, TypeOK
    <3>. QED  BY <2>1, <2>2, <3>1, <3>3, NextPageCounts
  <2>6. CASE PointedBack \/ RequestFails
    <3>1. pc' \in {"ready", "failed"}
      BY <2>2, <2>6 DEF PointedBack, RequestFails, Abandon
    <3>. QED  BY <2>2, <3>1 DEF Walking, Walks
  <2>7. CASE ResolveDomain
    <3>1. pc = "references" /\ pc' \in {"ledgers", "ready", "failed"}
      BY <2>7 DEF ResolveDomain, WalkNext, Abandon
    <3>2. CASE Walking'
      <4>1. WalksLeft = MaxId + 3 /\ WalksLeft' = MaxId + 2
        BY <2>1, <3>1, <3>2 DEF StepsCounted, Walking, Walks
      <4>. QED  BY <2>2, <2>3, <4>1
    <3>. QED  BY <2>2, <3>2
  <2>8. CASE ResolveLedgers
    <3>1. pc = "ledgers" /\ pc' = "accounts" /\ Walking'
      BY <2>2, <2>8 DEF ResolveLedgers, WalkNext, Walking, Walks, config
    <3>2. WalksLeft = MaxId + 2 /\ WalksLeft' = MaxId + 1
      BY <2>1, <3>1 DEF StepsCounted
    <3>. QED  BY <2>2, <2>3, <3>2
  <2>9. CASE ResolveAccounts
    <3>1. pc = "accounts" /\ answer = "end" /\ Join(read, {}) /\ kind' = kind
      BY <2>9 DEF ResolveAccounts, config
    <3>2. read \in SUBSET Accounts
      BY <3>1 DEF DiscoveryInv, WalkInv
    <3>3. Cardinality(read) \in 0..MaxId /\ WalksLeft = MaxId + 1
      BY <2>1, <3>1, <3>2, AccountsAreFew DEF StepsCounted
    <3>. QED  BY <2>2, <2>4, <3>1, <3>2, <3>3
  <2>10. CASE ResolveAddresses
    <3>1. PICK found : Join(left \ {Joining}, found)
      BY <2>10 DEF ResolveAddresses
    <3>2. pc = "addresses" /\ kind' = kind
      BY <2>10 DEF ResolveAddresses, config
    <3>3. left \in SUBSET Accounts /\ left # {} /\ WalksLeft = Cardinality(left)
      BY <2>1, <2>2, <3>2 DEF StepsCounted, TypeOK, JoiningInv
    <3>4. /\ Cardinality(left) \in 1..MaxId /\ left \ {Joining} \in SUBSET Accounts
          /\ Cardinality(left \ {Joining}) = Cardinality(left) - 1
      BY <3>3, OneLessToJoin
    <3>5. Cardinality(left \ {Joining}) < WalksLeft
      BY <2>2, <3>3, <3>4
    <3>6. StepsLeft' < StepsLeft
      BY <2>4, <3>1, <3>2, <3>4, <3>5
    <3>. QED  BY <2>2, <3>6
  <2>11. CASE Create \/ List \/ ResolveWallets
    BY <2>2, <2>11 DEF Create, List, ResolveWallets, PlaceInv, Walks
  <2>12. ASSUME NEW st, NEW ls, ChangeTo(st, ls)  PROVE StepsLeft' = StepsLeft
    <3>1. UNCHANGED <<kind, pc, left, cursor, answer>>
      BY <2>12 DEF ChangeTo, config, walk
    <3>2. PagesLeft' = PagesLeft
      BY <3>1 DEF PagesLeft
    <3>. QED  BY <2>1, <3>1, <3>2, NextPageCounts
  <2>13. ASSUME (\E e \in Entries : Advances(e)) \/ (\E a \in Accounts : Goes(a)) \/ (\E l \in Ledgers : LedgerToggles(l))
         PROVE  StepsLeft' = StepsLeft
    <3>1. \E st, ls : ChangeTo(st, ls)
      BY <2>13 DEF Advances, Goes, LedgerToggles
    <3>. QED  BY <2>12, <3>1
  <2>14. Proceed => StepsLeft' < StepsLeft
    BY <2>5, <2>6, <2>7, <2>8, <2>9, <2>10, <2>11 DEF Proceed
  <2>15. ~PageAstray => StepsLeft' <= StepsLeft
    BY <2>2, <2>6, <2>11, <2>13, <2>14 DEF Next
  <2>. QED  BY <2>2, <2>14, <2>15
<1>3. Inv /\ Inv' /\ [Next]_vars => [Fewer]_vars
  BY <1>2
<1>. QED  BY <1>1, <1>3, DiscoveryCorrect, PTL DEF Spec

-----------------------------------------------------------------------------
(* TokenRefresh, for any number of concurrent requests.                    *)

\* Before the first request there is no token and no refresh.
LEMMA TokensStart == TokenInit => RefreshInv
BY RefreshAssumption
   DEF TokenInit, RefreshInv, TokenTypeOK, NumberingInv, WaitingInv, SharedIsPending, ReplayIsFresh,
       Refreshes, NoRefresh, Phases

\* What starting a refresh does, whoever asks for it.
LEMMA RefreshStarts ==
  ASSUME RefreshInv, NEW r \in Requests, StartRefresh(r)
  PROVE  /\ started' = started + 1 /\ started' \in Refreshes
         /\ phase' = [phase EXCEPT ![started'] = "exchanging"]
         /\ shared' = started'
         /\ request' = [request EXCEPT ![r] = "waiting"]
         /\ awaits' = [awaits EXCEPT ![r] = started']
         /\ token' = token
BY RefreshAssumption DEF RefreshInv, TokenTypeOK, StartRefresh, Await, Refreshes

\* It keeps the invariant if the request had its 401, if any, before.
LEMMA RefreshStartsRight ==
  ASSUME RefreshInv, NEW r \in Requests, StartRefresh(r),
         UNCHANGED <<cached, stale, revoked, sends, since>>
  PROVE  RefreshInv'
<1>. USE RefreshStarts, RefreshAssumption DEF RefreshInv
<1>1. TokenTypeOK'
  <2>. USE DEF TokenTypeOK
  <2>1. started' \in 0..MaxRefresh /\ shared' \in Refreshes \cup {NoRefresh}
    BY DEF Refreshes
  <2>2. phase' \in [Refreshes -> Phases]
    BY DEF Phases
  <2>3. request' \in [Requests -> {"idle", "waiting", "sending", "rejected", "done", "authError", "failed"}]
    OBVIOUS
  <2>4. awaits' \in [Requests -> Refreshes \cup {NoRefresh}]
    OBVIOUS
  <2>. QED  BY <2>1, <2>2, <2>3, <2>4
<1>2. NumberingInv'
  BY DEF TokenTypeOK, NumberingInv, Refreshes
<1>3. WaitingInv'
  BY DEF TokenTypeOK, WaitingInv, Refreshes
<1>4. SharedIsPending'
  BY DEF TokenTypeOK, SharedIsPending, Refreshes
<1>5. ReplayIsFresh'
  BY DEF TokenTypeOK, ReplayIsFresh, WaitingInv, Refreshes
<1>. QED  BY <1>1, <1>2, <1>3, <1>4, <1>5

\* getToken(false): the cached token, the shared refresh, or a new one.
LEMMA RequestBegins ==
  ASSUME RefreshInv, NEW r \in Requests, Begin(r)
  PROVE  RefreshInv'
<1>1. CASE StartRefresh(r)
  BY <1>1, RefreshStartsRight DEF Begin
<1>2. CASE /\ cached # NoRefresh
           /\ request' = [request EXCEPT ![r] = "sending"]
           /\ token' = [token EXCEPT ![r] = cached]
           /\ UNCHANGED <<awaits, shared, started, phase>>
  BY <1>2, RefreshAssumption
     DEF Begin, RefreshInv, TokenTypeOK, NumberingInv, WaitingInv, SharedIsPending, ReplayIsFresh, Refreshes
<1>3. CASE shared # NoRefresh /\ Await(r, shared) /\ UNCHANGED <<shared, started, phase>>
  BY <1>3, RefreshAssumption
     DEF Begin, Await, RefreshInv, TokenTypeOK, NumberingInv, WaitingInv, SharedIsPending, ReplayIsFresh,
         Refreshes, NoRefresh
<1>. QED
  BY <1>1, <1>2, <1>3 DEF Begin, GetToken

\* Requests past their first step.
LEMMA RequestGoesOn ==
  ASSUME RefreshInv, NEW r \in Requests, Request(r)
  PROVE  RefreshInv'
<1>. USE RefreshAssumption
     DEF RefreshInv, TokenTypeOK, NumberingInv, WaitingInv, SharedIsPending, ReplayIsFresh, Refreshes, NoRefresh
<1>1. CASE Resume(r)
  BY <1>1 DEF Resume
<1>2. CASE Answered(r)
  BY <1>2 DEF Answered
<1>3. CASE Unauthorized(r)
  <2>1. /\ UNCHANGED <<cached, stale, shared, started, phase, revoked, awaits, token>>
        /\ request[r] = "sending"
        /\ \/ /\ request' = [request EXCEPT ![r] = "rejected"]
              /\ sends' = [sends EXCEPT ![r] = 2]
              /\ since' = [since EXCEPT ![r] = started]
           \/ request' = [request EXCEPT ![r] = "authError"] /\ sends' = sends /\ since' = since
    BY <1>3 DEF Unauthorized
  <2>2. TokenTypeOK'
    <3>1. request' \in [Requests -> {"idle", "waiting", "sending", "rejected", "done", "authError", "failed"}]
      BY <2>1
    <3>2. sends' \in [Requests -> 1..2]
      BY <2>1
    <3>3. since' \in [Requests -> 0..MaxRefresh]
      BY <2>1
    <3>. QED  BY <2>1, <3>1, <3>2, <3>3
  <2>3. NumberingInv' /\ SharedIsPending'
    BY <2>1
  <2>4. WaitingInv'
    BY <2>1
  <2>5. ReplayIsFresh'
    BY <2>1
  <2>. QED  BY <2>2, <2>3, <2>4, <2>5
<1>4. CASE Replay(r)
  BY <1>4, RefreshStartsRight DEF Replay, ForceRefresh
<1>. QED
  BY <1>1, <1>2, <1>3, <1>4 DEF Request

\* Refreshes, on their way from request to answer to the finally block.
LEMMA RefreshGoesOn ==
  ASSUME RefreshInv, NEW n \in Refreshes, Refresh(n)
  PROVE  RefreshInv'
<1>. USE RefreshAssumption
     DEF RefreshInv, TokenTypeOK, NumberingInv, WaitingInv, SharedIsPending, ReplayIsFresh, Refreshes,
         NoRefresh, requestVars, Phases
<1>1. CASE Issue(n)
  BY <1>1 DEF Issue
<1>2. CASE Obtain(n)
  BY <1>2 DEF Obtain
<1>3. CASE Break(n)
  BY <1>3 DEF Break
<1>4. CASE Clear(n)
  BY <1>4 DEF Clear
<1>. QED
  BY <1>1, <1>2, <1>3, <1>4 DEF Refresh

\* A token running out, a revocation, a stutter.
LEMMA TokensRunOut ==
  ASSUME RefreshInv, GoStale \/ (\E n \in Refreshes : Revoke(n)) \/ UNCHANGED tokenVars
  PROVE  RefreshInv'
BY DEF RefreshInv, TokenTypeOK, NumberingInv, WaitingInv, SharedIsPending, ReplayIsFresh, GoStale, Revoke,
       tokenVars, requestVars

\* The invariant holds in every state.
THEOREM RefreshInvariant == TokenSpec => []RefreshInv
<1>1. RefreshInv /\ [TokenNext]_tokenVars => RefreshInv'
  BY RequestBegins, RequestGoesOn, RefreshGoesOn, TokensRunOut DEF TokenNext
<1>. QED  BY <1>1, TokensStart, PTL DEF TokenSpec

\* getToken never hands a later caller a refresh that has already settled.
THEOREM SharedAlwaysPending == TokenSpec => []SharedIsPending
BY RefreshInvariant, PTL DEF RefreshInv

\* A request is refused for good only with a token asked for after its first 401.
THEOREM ReplayAlwaysFresh == TokenSpec => []ReplayIsFresh
BY RefreshInvariant, PTL DEF RefreshInv

\* How many more steps a request can take at the most: a token, a send, and once more
\* for a 401.
RequestLeft(r) == CASE request[r] = "waiting" -> IF sends[r] = 1 THEN 5 ELSE 2
                    [] request[r] = "sending" -> IF sends[r] = 1 THEN 4 ELSE 1
                    [] request[r] = "rejected" -> 3
                    [] OTHER -> 0

\* At each point of a request, written out.
LeftIs(state, sent, n) ==
  /\ state = "waiting" => n = IF sent = 1 THEN 5 ELSE 2
  /\ state = "sending" => n = IF sent = 1 THEN 4 ELSE 1
  /\ state = "rejected" => n = 3
  /\ state \in {"done", "authError", "failed"} => n = 0

LEMMA RequestAt == \A r : LeftIs(request[r], sends[r], RequestLeft(r))
BY Zenon DEF RequestLeft, LeftIs

LEMMA RequestAtNext == (\A r : LeftIs(request[r], sends[r], RequestLeft(r)))'
BY RequestAt, PTL

\* No request goes on for ever, whatever tokens the server rejects: each step of its own
\* leaves it fewer, of five at most, and no refresh and no other request adds to them.
THEOREM RequestsAreFinite ==
  TokenSpec => [][ \A r \in Requests : request[r] \in {"waiting", "sending", "rejected"} =>
                     /\ RequestLeft(r) \in 1..5
                     /\ RequestLeft(r)' <= RequestLeft(r)
                     /\ Request(r) => RequestLeft(r)' < RequestLeft(r) ]_tokenVars
<1>. DEFINE Fewer(r) == /\ RequestLeft(r) \in 1..5
                        /\ RequestLeft(r)' <= RequestLeft(r)
                        /\ Request(r) => RequestLeft(r)' < RequestLeft(r)
            Fewest == \A r \in Requests : request[r] \in {"waiting", "sending", "rejected"} => Fewer(r)
<1>1. RefreshInv /\ TokenNext => Fewest
  <2>. SUFFICES ASSUME RefreshInv, TokenNext, NEW r \in Requests,
                       request[r] \in {"waiting", "sending", "rejected"}
                PROVE  Fewer(r)
    OBVIOUS
  <2>1. PICK m : m = RequestLeft(r)'
    OBVIOUS
  <2>2. /\ LeftIs(request[r], sends[r], RequestLeft(r)) /\ LeftIs(request'[r], sends'[r], m)
        /\ TokenTypeOK /\ sends[r] \in 1..2 /\ (request[r] = "rejected" => sends[r] = 2)
    BY <2>1, RequestAt, RequestAtNext DEF RefreshInv, TokenTypeOK, WaitingInv
  <2>3. RequestLeft(r) \in 1..5
    BY <2>2 DEF LeftIs
  <2>4. CASE Request(r)
    <3>1. \/ request[r] = "waiting" /\ request'[r] \in {"sending", "failed"} /\ sends'[r] = sends[r]
          \/ request[r] = "sending" /\ sends[r] = 1 /\ request'[r] = "rejected"
          \/ request[r] = "sending" /\ request'[r] \in {"done", "authError"}
          \/ request[r] = "rejected" /\ request'[r] = "waiting" /\ sends'[r] = sends[r]
      BY <2>2, <2>4 DEF TokenTypeOK, Request, Resume, Answered, Unauthorized, Replay, ForceRefresh, StartRefresh, Await
    <3>2. m < RequestLeft(r)
      BY <2>2, <3>1 DEF LeftIs
    <3>3. m \in 0..5
      BY <2>2, <3>1 DEF LeftIs
    <3>. QED  BY <2>1, <2>3, <3>2, <3>3
  <2>5. CASE request'[r] = request[r] /\ sends'[r] = sends[r] /\ ~Request(r)
    <3>1. m = RequestLeft(r)
      BY <2>2, <2>5 DEF LeftIs
    <3>. QED  BY <2>1, <2>3, <2>5, <3>1
  <2>6. ASSUME NEW q \in Requests, q # r, Begin(q) \/ Request(q)
        PROVE  request'[r] = request[r] /\ sends'[r] = sends[r]
    BY <2>2, <2>6 DEF TokenTypeOK, Begin, GetToken, Request, Resume, Answered, Unauthorized, Replay,
                      ForceRefresh, StartRefresh, Await
  <2>7. ASSUME (\E n \in Refreshes : Refresh(n) \/ Revoke(n)) \/ GoStale
        PROVE  request'[r] = request[r] /\ sends'[r] = sends[r]
    BY <2>7 DEF Refresh, Revoke, GoStale, Issue, Obtain, Break, Clear, requestVars
  <2>8. ~Begin(r)
    BY DEF Begin
  <2>. QED  BY <2>4, <2>5, <2>6, <2>7, <2>8 DEF TokenNext
<1>2. RefreshInv /\ [TokenNext]_tokenVars => [Fewest]_tokenVars
  BY <1>1
<1>. QED  BY <1>2, RefreshInvariant, PTL DEF TokenSpec

\* The sends for which a request has asked for its token.
AskedFor == {<<r, 1>> : r \in {q \in Requests : request[q] # "idle"}}
            \cup {<<r, 2>> : r \in {q \in Requests : sends[q] = 2 /\ request[q] # "rejected"}}

LEMMA AskedForIsSo ==
  AskedFor = {x \in Requests \X {1, 2} : /\ x[2] = 1 => request[x[1]] # "idle"
                                         /\ x[2] = 2 => sends[x[1]] = 2 /\ request[x[1]] # "rejected"}
BY DEF AskedFor

LEMMA AskedForIsSoNext ==
  (AskedFor = {x \in Requests \X {1, 2} : /\ x[2] = 1 => request[x[1]] # "idle"
                                          /\ x[2] = 2 => sends[x[1]] = 2 /\ request[x[1]] # "rejected"})'
BY AskedForIsSo, PTL

\* No refresh is started but for a send: of any number of requests that are turned down
\* together, each starts one at the most for its first send and one for its replay.
THEOREM RefreshesAreFew ==
  ASSUME IsFiniteSet(Requests)
  PROVE  TokenSpec => [](started <= 2 * Cardinality(Requests))
<1>. DEFINE Sends == Requests \X {1, 2}
            Fewer == started <= Cardinality(AskedFor)
<1>1. IsFiniteSet(Sends) /\ Cardinality(Sends) = 2 * Cardinality(Requests) /\ Cardinality(Requests) \in Nat
  <2>1. IsFiniteSet({1, 2}) /\ Cardinality({1, 2}) = 2
    <3>1. IsFiniteSet({1}) /\ Cardinality({1}) = 1
      BY FS_Singleton
    <3>2. /\ IsFiniteSet({1} \cup {2})
          /\ 2 \in {1} \/ Cardinality({1} \cup {2}) = Cardinality({1}) + 1
      BY <3>1, FS_AddElement
    <3>3. {1} \cup {2} = {1, 2} /\ 2 \notin {1}
      OBVIOUS
    <3>. QED  BY <3>1, <3>2, <3>3
  <2>2. Cardinality(Requests) \in Nat
    BY FS_CardinalityType
  <2>. QED  BY <2>1, <2>2, FS_Product
<1>2. ASSUME NEW S \in SUBSET Sends
      PROVE  IsFiniteSet(S) /\ Cardinality(S) \in Nat /\ Cardinality(S) <= 2 * Cardinality(Requests)
  BY <1>1, FS_Subset, FS_CardinalityType
<1>. HIDE DEF Sends
<1>3. TokenInit => Fewer
  <2>. SUFFICES ASSUME TokenInit  PROVE Fewer
    OBVIOUS
  <2>1. AskedFor \in SUBSET Sends
    BY AskedForIsSo DEF Sends
  <2>. QED  BY <1>2, <2>1 DEF TokenInit
<1>4. RefreshInv /\ Fewer /\ [TokenNext]_tokenVars => Fewer'
  <2>. SUFFICES ASSUME RefreshInv, Fewer, [TokenNext]_tokenVars  PROVE Fewer'
    OBVIOUS
  <2>1. TokenTypeOK /\ WaitingInv /\ started \in Nat
    BY RefreshAssumption DEF RefreshInv, TokenTypeOK
  <2>2. PICK S \in SUBSET Sends, T \in SUBSET Sends : S = AskedFor /\ T = AskedFor'
    BY AskedForIsSo, AskedForIsSoNext DEF Sends
  <2>3. ASSUME NEW r \in Requests, Begin(r) \/ Request(r)  PROVE S \subseteq T
    BY <2>1, <2>2, <2>3, AskedForIsSo, AskedForIsSoNext
       DEF Sends, TokenTypeOK, WaitingInv, Begin, GetToken, Request, Resume, Answered, Unauthorized, Replay,
           ForceRefresh, StartRefresh, Await
  <2>4. ASSUME UNCHANGED <<request, sends>>  PROVE S = T
    BY <2>2, <2>4 DEF AskedFor
  <2>5. ASSUME S \subseteq T, started' = started  PROVE Fewer'
    <3>1. Cardinality(S) <= Cardinality(T) /\ Cardinality(S) \in Nat /\ Cardinality(T) \in Nat
      BY <1>2, <2>5, FS_Subset
    <3>. QED  BY <2>1, <2>2, <2>5, <3>1
  <2>6. ASSUME NEW x \in Sends, x \in T \ S, S \subseteq T, started' = started + 1  PROVE Fewer'
    <3>1. Cardinality(S \cup {x}) = Cardinality(S) + 1 /\ Cardinality(S) \in Nat
      BY <1>2, <2>6, FS_AddElement
    <3>2. Cardinality(S \cup {x}) <= Cardinality(T) /\ Cardinality(T) \in Nat
      BY <1>2, <2>6, FS_Subset
    <3>. QED  BY <2>1, <2>2, <2>6, <3>1, <3>2
  <2>7. ASSUME NEW r \in Requests, StartRefresh(r), request[r] = "idle" \/ request[r] = "rejected",
               UNCHANGED sends, S \subseteq T
        PROVE  Fewer'
    <3>1. started' = started + 1 /\ request'[r] = "waiting" /\ sends'[r] = sends[r]
      BY <2>1, <2>7 DEF TokenTypeOK, StartRefresh, Await
    <3>2. CASE request[r] = "idle"
      <4>1. <<r, 1>> \in T \ S /\ <<r, 1>> \in Sends
        BY <2>2, <3>1, <3>2, AskedForIsSo, AskedForIsSoNext DEF Sends
      <4>. QED  BY <2>6, <2>7, <3>1, <4>1
    <3>3. CASE request[r] = "rejected"
      <4>1. <<r, 2>> \in T \ S /\ <<r, 2>> \in Sends
        BY <2>1, <2>2, <3>1, <3>3, AskedForIsSo, AskedForIsSoNext DEF Sends, WaitingInv
      <4>. QED  BY <2>6, <2>7, <3>1, <4>1
    <3>. QED  BY <2>7, <3>2, <3>3
  <2>8. ASSUME NEW r \in Requests, Begin(r) \/ Request(r)  PROVE Fewer'
    <3>1. started' = started \/ (StartRefresh(r) /\ (request[r] = "idle" \/ request[r] = "rejected") /\ UNCHANGED sends)
      BY <2>8 DEF Begin, GetToken, Request, Resume, Answered, Unauthorized, Replay, ForceRefresh
    <3>. QED  BY <2>3, <2>5, <2>7, <2>8, <3>1
  <2>9. ASSUME (\E n \in Refreshes : Refresh(n) \/ Revoke(n)) \/ GoStale \/ UNCHANGED tokenVars
        PROVE  UNCHANGED <<request, sends, started>>
    BY <2>9 DEF Refresh, Revoke, GoStale, Issue, Obtain, Break, Clear, tokenVars, requestVars
  <2>. QED  BY <2>4, <2>5, <2>8, <2>9 DEF TokenNext
<1>5. RefreshInv /\ Fewer => started <= 2 * Cardinality(Requests)
  <2>. SUFFICES ASSUME RefreshInv, Fewer  PROVE started <= 2 * Cardinality(Requests)
    OBVIOUS
  <2>1. AskedFor \in SUBSET Sends /\ started \in Nat
    BY AskedForIsSo, RefreshAssumption DEF Sends, RefreshInv, TokenTypeOK
  <2>. QED  BY <1>1, <1>2, <2>1
<1>. QED  BY <1>3, <1>4, <1>5, RefreshInvariant, PTL DEF TokenSpec

-----------------------------------------------------------------------------
(* PollLoop, for any schedule and any budget.                              *)

\* What the growth is as far as the n-th poll.
GrowthUpTo(n) == {g \in [0..n -> Nat] : \A i \in 0..n : g[i] = IF i = 0 THEN 1 ELSE FACTOR * g[i - 1]}

\* It is something, for any number of polls.
LEMMA GrowthExists == \A n \in Nat : \E g : g \in GrowthUpTo(n)
<1>. DEFINE S == {n \in Nat : \E g : g \in GrowthUpTo(n)}
<1>1. 0 \in S
  <2>1. [i \in 0..0 |-> 1] \in GrowthUpTo(0)
    BY DEF GrowthUpTo
  <2>. QED  BY <2>1
<1>2. ASSUME NEW n \in Nat, n \in S  PROVE n + 1 \in S
  <2>1. PICK g : g \in GrowthUpTo(n)
    BY <1>2
  <2>. DEFINE h == [i \in 0..(n + 1) |-> IF i = n + 1 THEN FACTOR * g[n] ELSE g[i]]
  <2>2. g \in [0..n -> Nat] /\ \A i \in 0..n : g[i] = IF i = 0 THEN 1 ELSE FACTOR * g[i - 1]
    BY <2>1 DEF GrowthUpTo
  <2>3. h \in [0..(n + 1) -> Nat]
    BY <2>2 DEF FACTOR
  <2>4. ASSUME NEW i \in 0..(n + 1)  PROVE h[i] = IF i = 0 THEN 1 ELSE FACTOR * h[i - 1]
    <3>1. CASE i = n + 1
      <4>1. n \in 0..(n + 1) /\ n # n + 1 /\ i # 0 /\ i - 1 = n
        BY <3>1
      <4>. QED  BY <3>1, <4>1
    <3>2. CASE i # n + 1
      <4>1. i \in 0..n
        BY <3>2
      <4>2. i # 0 => i - 1 \in 0..n /\ i - 1 \in 0..(n + 1) /\ i - 1 # n + 1
        BY <4>1
      <4>. QED  BY <2>2, <3>2, <4>1, <4>2
    <3>. QED  BY <3>1, <3>2
  <2>5. h \in GrowthUpTo(n + 1)
    <3>. HIDE DEF h
    <3>. QED  BY <2>3, <2>4 DEF GrowthUpTo
  <2>. QED  BY <2>5
<1>. QED
  <2>. HIDE DEF S
  <2>1. \A n \in Nat : n \in S
    BY <1>1, <1>2, InductionOnNat
  <2>. QED  BY <2>1 DEF S

\* It is the same however far one looks.
LEMMA GrowthIsUnique ==
  \A i, m, n \in Nat : \A g \in GrowthUpTo(m), h \in GrowthUpTo(n) : i <= m /\ i <= n => g[i] = h[i]
<1>. DEFINE S == {i \in Nat : \A m, n \in Nat : \A g \in GrowthUpTo(m), h \in GrowthUpTo(n) :
                                 i <= m /\ i <= n => g[i] = h[i]}
<1>1. 0 \in S
  BY DEF GrowthUpTo
<1>2. ASSUME NEW i \in Nat, i \in S  PROVE i + 1 \in S
  <2>. SUFFICES ASSUME NEW m \in Nat, NEW n \in Nat, NEW g \in GrowthUpTo(m), NEW h \in GrowthUpTo(n),
                       i + 1 <= m, i + 1 <= n
                PROVE  g[i + 1] = h[i + 1]
    OBVIOUS
  <2>1. g[i] = h[i]
    BY <1>2
  <2>2. i + 1 \in 0..m /\ i + 1 \in 0..n /\ i + 1 # 0 /\ (i + 1) - 1 = i
    OBVIOUS
  <2>. QED  BY <2>1, <2>2 DEF GrowthUpTo
<1>. QED
  <2>. HIDE DEF S
  <2>1. \A n \in Nat : n \in S
    BY <1>1, <1>2, InductionOnNat
  <2>. QED  BY <2>1 DEF S

\* The growth of the delays is what its definition says of it, for every poll.
LEMMA GrowthDoubles ==
  /\ Growth[0] = 1
  /\ \A n \in Nat : Growth[n] \in Nat /\ Growth[n + 1] = FACTOR * Growth[n]
<1>. DEFINE growth(n) == CHOOSE g : g \in GrowthUpTo(n)
            f == [n \in Nat |-> growth(n)[n]]
<1>1. \A n \in Nat : growth(n) \in GrowthUpTo(n)
  BY GrowthExists
<1>2. ASSUME NEW n \in Nat  PROVE f[n] \in Nat /\ f[n] = IF n = 0 THEN 1 ELSE FACTOR * f[n - 1]
  <2>. DEFINE g == growth(n)
  <2>1. g \in GrowthUpTo(n) /\ f[n] = g[n]
    BY <1>1
  <2>. HIDE DEF g
  <2>2. g[n] \in Nat /\ g[n] = IF n = 0 THEN 1 ELSE FACTOR * g[n - 1]
    BY <2>1 DEF GrowthUpTo
  <2>3. CASE n # 0
    <3>. DEFINE h == growth(n - 1)
    <3>1. n - 1 \in Nat /\ n - 1 <= n
      BY <2>3
    <3>2. h \in GrowthUpTo(n - 1) /\ f[n - 1] = h[n - 1]
      BY <1>1, <3>1
    <3>. HIDE DEF h, f
    <3>3. g[n - 1] = h[n - 1]
      BY <2>1, <3>1, <3>2, GrowthIsUnique
    <3>. QED  BY <2>1, <2>2, <2>3, <3>2, <3>3
  <2>4. CASE n = 0
    <3>. HIDE DEF f
    <3>. QED  BY <2>1, <2>2, <2>4
  <2>. QED  BY <2>3, <2>4
<1>3. f = [n \in Nat |-> IF n = 0 THEN 1 ELSE FACTOR * f[n - 1]]
  <2>1. f = [n \in Nat |-> f[n]]
    OBVIOUS
  <2>2. \A n \in Nat : f[n] = IF n = 0 THEN 1 ELSE FACTOR * f[n - 1]
    BY <1>2
  <2>. HIDE DEF f
  <2>. QED  BY <2>1, <2>2, Zenon
<1>4. \E g : g = [n \in Nat |-> IF n = 0 THEN 1 ELSE FACTOR * g[n - 1]]
  <2>. HIDE DEF f
  <2>. QED  BY <1>3
<1>5. Growth = [n \in Nat |-> IF n = 0 THEN 1 ELSE FACTOR * Growth[n - 1]]
  BY <1>4 DEF Growth
<1>6. \A n \in Nat : Growth[n] = IF n = 0 THEN 1 ELSE FACTOR * Growth[n - 1]
  <2>. HIDE DEF f
  <2>. QED  BY ONLY <1>5
<1>7. \A n \in Nat : Growth[n + 1] = FACTOR * Growth[n]
  <2>. SUFFICES ASSUME NEW n \in Nat PROVE Growth[n + 1] = FACTOR * Growth[n]
    OBVIOUS
  <2>1. n + 1 \in Nat /\ n + 1 # 0 /\ (n + 1) - 1 = n
    OBVIOUS
  <2>. QED  BY <1>6, <2>1
<1>8. \A n \in Nat : Growth[n] \in Nat
  <2>. DEFINE S == {n \in Nat : Growth[n] \in Nat}
  <2>1. 0 \in S
    BY <1>6
  <2>2. \A n \in Nat : n \in S => n + 1 \in S
    BY <1>7 DEF FACTOR
  <2>. HIDE DEF S
  <2>3. \A n \in Nat : n \in S
    BY <2>1, <2>2, InductionOnNat
  <2>. QED  BY <2>3 DEF S
<1>. QED  BY <1>6, <1>7, <1>8

\* Delays never shrink, and reach any ceiling within as many polls.
LEMMA DelaysGrow ==
  /\ \A n \in Nat : Grown(n) \in Nat /\ n + 1 <= Grown(n)
  /\ \A m, n \in Nat : m <= n => Grown(m) <= Grown(n)
<1>1. \A n \in Nat : Grown(n) \in Nat /\ Grown(n + 1) = 2 * Grown(n)
  <2>. SUFFICES ASSUME NEW n \in Nat  PROVE Grown(n) \in Nat /\ Grown(n + 1) = 2 * Grown(n)
    OBVIOUS
  <2>1. Growth[n] \in Nat /\ Growth[n + 1] = 2 * Growth[n] /\ Initial \in Nat
    BY GrowthDoubles, ClockAssumption DEF FACTOR
  <2>2. \A i, g \in Nat : i * g \in Nat /\ i * (2 * g) = 2 * (i * g)
    OBVIOUS
  <2>. QED  BY <2>1, <2>2 DEF Grown
<1>2. \A n \in Nat : n + 1 <= Grown(n)
  <2>. DEFINE S == {n \in Nat : n + 1 <= Grown(n)}
  <2>1. 0 \in S
    BY GrowthDoubles, ClockAssumption DEF Grown
  <2>2. \A n \in Nat : n \in S => n + 1 \in S
    BY <1>1
  <2>. HIDE DEF S
  <2>3. \A n \in Nat : n \in S
    BY <2>1, <2>2, InductionOnNat
  <2>. QED  BY <2>3 DEF S
<1>3. \A n \in Nat : \A m \in Nat : m <= n => Grown(m) <= Grown(n)
  <2>. DEFINE S == {n \in Nat : \A m \in Nat : m <= n => Grown(m) <= Grown(n)}
  <2>1. 0 \in S
    BY <1>1
  <2>2. ASSUME NEW n \in Nat, n \in S  PROVE n + 1 \in S
    <3>1. ASSUME NEW m \in Nat, m <= n + 1  PROVE Grown(m) <= Grown(n + 1)
      <4>1. CASE m <= n
        BY <1>1, <2>2, <4>1
      <4>2. CASE m = n + 1
        BY <1>1, <3>1, <4>2
      <4>. QED  BY <3>1, <4>1, <4>2
    <3>. QED  BY <3>1
  <2>. HIDE DEF S
  <2>3. \A n \in Nat : n \in S
    BY <2>1, <2>2, InductionOnNat
  <2>. QED  BY <2>3 DEF S
<1>. QED  BY <1>1, <1>2, <1>3

\* The ramp of a schedule ends, and every delay after it is the ceiling.
LEMMA RampEnds ==
  /\ Ramp \in 0..MaxDelay
  /\ \A n \in Nat : n >= Ramp => PollDelay(n) = MaxDelay
<1>. DEFINE T == {n \in Nat : Grown(n) >= MaxDelay}
<1>1. MaxDelay \in Nat
  BY ClockAssumption
<1>2. MaxDelay \in T
  BY <1>1, DelaysGrow
<1>3. PICK r \in T : \A m \in T : r <= m
  BY <1>2, LeastOfNat
<1>4. /\ r \in 0..MaxDelay
      /\ Grown(r) >= MaxDelay
      /\ \A k \in 0..(r - 1) : Grown(k) < MaxDelay
  <2>1. \A k \in Nat : k < r => Grown(k) < MaxDelay
    BY <1>1, <1>3, DelaysGrow
  <2>. QED  BY <1>1, <1>2, <1>3, <2>1
<1>5. Ramp \in 0..MaxDelay /\ Grown(Ramp) >= MaxDelay
  BY <1>4 DEF Ramp
<1>6. ASSUME NEW n \in Nat, n >= Ramp  PROVE PollDelay(n) = MaxDelay
  <2>1. Ramp \in Nat
    BY <1>1, <1>5
  <2>2. Grown(Ramp) <= Grown(n) /\ Grown(n) \in Nat /\ Grown(Ramp) \in Nat
    BY <1>6, <2>1, DelaysGrow
  <2>. QED  BY <1>1, <1>5, <2>2 DEF PollDelay, Smaller
<1>. QED  BY <1>5, <1>6

\* A delay is a time, and no longer than the ceiling.
LEMMA DelayIsTime == \A n \in Nat : PollDelay(n) \in 1..MaxDelay
BY DelaysGrow, ClockAssumption DEF PollDelay, Smaller

\* No loop has read or slept yet.
LEMMA LoopStarts == LoopInit => ClockInv
<1>. SUFFICES ASSUME LoopInit  PROVE ClockInv
  OBVIOUS
<1>1. LoopTypeOK
  <2>1. at \in {"reading", "served"} /\ loop \in Loops /\ budget \in BudgetsOf(loop)
    BY DEF LoopInit
  <2>2. now \in 0..Horizon /\ mark \in 0..(Horizon + MaxDelay) /\ attempt \in Nat /\ settledAt \in 0..Never
    BY ClockAssumption DEF LoopInit, Never
  <2>3. saw \in BOOLEAN
    BY DEF LoopInit
  <2>4. heardAt \in 0..Horizon
    BY ClockAssumption DEF LoopInit
  <2>. QED  BY <2>1, <2>2, <2>3, <2>4 DEF LoopTypeOK
<1>2. ReadInv
  BY ClockAssumption DEF LoopInit, ReadInv, ReadsOnce, Numeric, Deadline, BudgetsOf, Timed, Loops
<1>3. SleepInv /\ OutcomeInv
  BY ClockAssumption DEF LoopInit, SleepInv, OutcomeInv, Never
<1>. QED  BY <1>1, <1>2, <1>3 DEF ClockInv

\* Neither reading, waiting nor the custodian disturbs what the clock shows.
LEMMA WaitingKeepsTime ==
  ASSUME ClockInv, Serve \/ Unanswered \/ ReadThrows \/ Wake \/ Settle \/ Tick \/ UNCHANGED loopVars
  PROVE  ClockInv'
<1>s. ASSUME Serve  PROVE saw' \in BOOLEAN /\ (~saw' => ~(settledAt <= now))
  <2>1. saw' = (settledAt <= now)
    BY <1>s DEF Serve
  <2>2. CASE settledAt <= now
    BY <2>1, <2>2
  <2>3. CASE ~(settledAt <= now)
    BY <2>1, <2>3
  <2>. QED  BY <2>2, <2>3
<1>. USE ClockAssumption
     DEF ClockInv, LoopTypeOK, ReadInv, SleepInv, OutcomeInv, ReadsOnce, Numeric, Deadline, Never,
       Loops, BudgetsOf, Timed, Clamped, Stops
<1>1. CASE Serve
  <2>1. saw' \in BOOLEAN /\ (~saw' => settledAt > now)
    BY <1>s, <1>1
  <2>. QED  BY <1>1, <2>1 DEF Serve
<1>2. CASE Wake
  BY <1>2 DEF Wake
<1>3. CASE Settle
  BY <1>3 DEF Settle
<1>4. CASE Tick
  BY <1>4 DEF Tick
<1>5. CASE Unanswered
  BY <1>5 DEF Unanswered
<1>6. CASE ReadThrows
  <2>1. at = "reading" /\ at' = "threw" /\ UNCHANGED <<loop, budget, now, attempt, mark, saw, heardAt, settledAt>>
    BY <1>6 DEF ReadThrows
  <2>2. LoopTypeOK'
    <3>. HIDE DEF ReadInv, SleepInv, OutcomeInv, ReadsOnce, Timed, Clamped, Loops, BudgetsOf, Never
    <3>1. saw' \in BOOLEAN
      BY <2>1
    <3>2. at' \in {"reading", "served", "sleeping"} \cup Stops
      BY <2>1
    <3>. QED  BY <2>1, <3>1, <3>2
  <2>3. ReadInv' /\ SleepInv' /\ OutcomeInv'
    BY <2>1
  <2>. QED  BY <2>2, <2>3
<1>7. CASE UNCHANGED loopVars
  BY <1>7 DEF loopVars
<1>. QED  BY <1>1, <1>2, <1>3, <1>4, <1>5, <1>6, <1>7

\* A sleep that is planned ends by the deadline, where there is one.
LEMMA SleepKeepsTime ==
  ASSUME ClockInv, at = "served", NEW ms \in 1..MaxDelay, Sleep(ms),
         UNCHANGED <<loop, budget, now, saw, heardAt, settledAt>>,
         Numeric => now + ms <= Deadline, ~ReadsOnce, ~saw
  PROVE  ClockInv'
<1>. USE ClockAssumption
     DEF ClockInv, LoopTypeOK, ReadInv, SleepInv, OutcomeInv, ReadsOnce, Numeric, Deadline, Never,
       Loops, BudgetsOf, Timed, Clamped, Stops, Sleep
<1>1. LoopTypeOK'
  OBVIOUS
<1>2. ReadInv' /\ SleepInv'
  OBVIOUS
<1>3. OutcomeInv'
  <2>1. settledAt >= heardAt /\ heardAt <= now
    OBVIOUS
  <2>. HIDE DEF ClockInv, LoopTypeOK, ReadInv, SleepInv, ReadsOnce, Loops, BudgetsOf
  <2>. QED  BY <2>1
<1>. QED  BY <1>1, <1>2, <1>3

\* A loop that ends without an outcome has read on its deadline.
LEMMA EndKeepsTime ==
  ASSUME ClockInv, at = "served", NEW how \in {"done", "gaveUp"}, Over(how),
         UNCHANGED <<loop, budget, now, saw, heardAt, settledAt>>,
         how = "gaveUp" => ~saw,
         how = "gaveUp" /\ Numeric /\ loop \in Clamped => now >= Deadline
  PROVE  ClockInv'
<1>. USE ClockAssumption
     DEF ClockInv, LoopTypeOK, ReadInv, SleepInv, OutcomeInv, ReadsOnce, Numeric, Deadline, Never,
       Loops, BudgetsOf, Timed, Clamped, Stops, Over
<1>1. LoopTypeOK'
  <2>. HIDE DEF ReadInv, SleepInv, OutcomeInv, ReadsOnce, Timed, Clamped, Loops, BudgetsOf, Never
  <2>1. saw' \in BOOLEAN
    OBVIOUS
  <2>2. at' \in {"reading", "served", "sleeping"} \cup Stops
    OBVIOUS
  <2>. QED  BY <2>1, <2>2
<1>2. ReadInv' /\ SleepInv'
  OBVIOUS
<1>3. OutcomeInv'
  <2>1. (~saw => settledAt >= heardAt) /\ heardAt <= now
    OBVIOUS
  <2>2. how = "gaveUp" /\ Numeric /\ loop \in Clamped => mark <= now /\ now <= mark + MaxRead /\ now >= Deadline
    OBVIOUS
  <2>. HIDE DEF ClockInv, LoopTypeOK, ReadInv, SleepInv, ReadsOnce, Loops, BudgetsOf, Timed, Clamped, Stops
  <2>. QED  BY <2>1, <2>2
<1>. QED  BY <1>1, <1>2, <1>3

\* Each of the four loops goes on, or gives up, by the rules of its own.
LEMMA DecideKeepsTime ==
  ASSUME ClockInv, Decide
  PROVE  ClockInv'
<1>1. at = "served" /\ UNCHANGED <<loop, budget, now, saw, heardAt, settledAt>>
  BY DEF Decide
<1>2. /\ now \in Nat /\ (Numeric => Deadline \in Nat) /\ loop \in Loops
      /\ PollDelay(attempt) \in 1..MaxDelay /\ 1 \in 1..MaxDelay
      /\ MaxDelay \in Nat
  BY DelayIsTime, ClockAssumption DEF ClockInv, LoopTypeOK, BudgetsOf, Loops, Deadline, Numeric
<1>3. CASE saw
  BY <1>1, <1>3, EndKeepsTime DEF Decide
<1>4. CASE ~saw /\ loop \in {"palisade", "ledger"}
  <2>1. UnclampedGoOn
    BY <1>4 DEF Decide
  <2>2. ~ReadsOnce
    BY <1>4 DEF ReadsOnce
  <2>3. CASE Numeric /\ now + PollDelay(attempt) >= Deadline
    BY <1>1, <1>4, <2>1, <2>3, EndKeepsTime DEF UnclampedGoOn, Clamped
  <2>4. CASE ~(Numeric /\ now + PollDelay(attempt) >= Deadline)
    <3>1. Sleep(PollDelay(attempt))
      BY <2>1, <2>4 DEF UnclampedGoOn
    <3>2. Numeric => now + PollDelay(attempt) <= Deadline
      BY <1>2, <2>4
    <3>. QED  BY <1>1, <1>2, <1>4, <2>2, <3>1, <3>2, SleepKeepsTime
  <2>. QED  BY <2>3, <2>4
<1>5. CASE ~saw /\ loop \in Clamped
  <2>1. PICK expired \in BOOLEAN :
          /\ GoOnUnless(expired)
          /\ Numeric => (expired <=> now >= Deadline)
          /\ ReadsOnce => expired
    BY <1>5 DEF Decide, IntentGoOn, TransactionGoOn, ReadsOnce, Clamped
  <2>2. CASE expired
    BY <1>1, <1>2, <1>5, <2>1, <2>2, EndKeepsTime DEF GoOnUnless
  <2>3. CASE ~expired /\ Numeric
    <3>1. Sleep(Smaller(PollDelay(attempt), Deadline - now))
      BY <2>1, <2>3 DEF GoOnUnless
    <3>2. /\ Smaller(PollDelay(attempt), Deadline - now) \in 1..MaxDelay
          /\ now + Smaller(PollDelay(attempt), Deadline - now) <= Deadline
      BY <1>2, <2>1, <2>3 DEF Smaller
    <3>. QED  BY <1>1, <1>5, <2>1, <2>3, <3>1, <3>2, SleepKeepsTime
  <2>4. CASE ~expired /\ ~Numeric
    BY <1>1, <1>2, <1>5, <2>1, <2>4, SleepKeepsTime DEF GoOnUnless
  <2>. QED  BY <2>2, <2>3, <2>4
<1>. QED  BY <1>2, <1>3, <1>4, <1>5 DEF Loops, Clamped

\* The invariant of the clock is inductive.
THEOREM LoopCorrect == LoopSpec => []ClockInv
<1>1. ClockInv /\ [LoopNext]_loopVars => ClockInv'
  BY WaitingKeepsTime, DecideKeepsTime DEF LoopNext
<1>2. LoopInit => ClockInv
  BY LoopStarts
<1>. QED  BY <1>1, <1>2, PTL DEF LoopSpec

\* What Ripple's loops report as unfinished had not settled at the last read that was
\* answered, and if the last read was, not until one read before the deadline.
THEOREM SettledInTime == LoopSpec => []SettledInTimeIsReported
<1>1. ClockInv => SettledInTimeIsReported
  BY ClockAssumption
     DEF ClockInv, LoopTypeOK, OutcomeInv, SettledInTimeIsReported, BudgetsOf, Deadline, Numeric, Never, Clamped
<1>2. LoopSpec => []ClockInv
  BY LoopCorrect
<1>. QED  BY <1>1, <1>2, PTL

\* While a loop goes on, its clock is bounded.
LEMMA ClockBoundsEnd == ClockInv => EndsOnTime
BY ClockAssumption
   DEF ClockInv, LoopTypeOK, ReadInv, SleepInv, EndsOnTime, ReadsOnce, Numeric, Deadline, BudgetsOf, Loops,
       Timed, Stops

\* A loop whose reads have a timeout is over by one late timer and one read after its
\* deadline, and Palisade's begins no read later than that timer; with a budget that is
\* not a number, the transaction loop is over after its first read.
THEOREM LoopsEndOnTime == LoopSpec => []EndsOnTime
<1>1. ClockInv => EndsOnTime
  BY ClockBoundsEnd
<1>2. LoopSpec => []ClockInv
  BY LoopCorrect
<1>. QED  BY <1>1, <1>2, PTL

\* The products the spacing is made of.
LEMMA Products ==
  ASSUME NEW a \in Nat, NEW r \in Nat, NEW m \in Nat
  PROVE  /\ a * m \in Nat /\ m * r \in Nat /\ (a + 1) * m = a * m + m /\ m * (r + 1) = m * r + m
         /\ a < r => (a + 1) * m <= m * r
<1>1. a * m \in Nat /\ m * r \in Nat /\ (a + 1) * m = a * m + m /\ m * (r + 1) = m * r + m
  OBVIOUS
<1>2. ASSUME a < r  PROVE (a + 1) * m <= m * r
  <2>1. PICK d \in Nat : r = (a + 1) + d
    <3>1. r - (a + 1) \in Nat /\ r = (a + 1) + (r - (a + 1))
      BY <1>2
    <3>. QED  BY <3>1
  <2>2. m * r = (a + 1) * m + d * m /\ d * m \in Nat /\ (a + 1) * m \in Nat
    BY <2>1
  <2>. QED  BY <2>2
<1>. QED  BY <1>1, <1>2

\* What a sleep that is not cut short adds to the spacing, and one that is.
LEMMA SleepIsSpaced ==
  ASSUME ClockInv, SpacingInv, Numeric \/ loop # "intent", at = "served", ~LastAt(now),
         NEW ms \in 1..MaxDelay, Sleep(ms), UNCHANGED <<loop, budget, now, saw, heardAt, settledAt>>,
         ms = PollDelay(attempt) \/ LastAt(now + ms)
  PROVE  SpacingInv'
<1>. DEFINE slept == attempt * MaxDelay
            ramp == MaxDelay * Ramp
<1>1. now \in Nat /\ attempt \in Nat /\ MaxDelay \in Nat /\ Ramp \in Nat
  BY ClockAssumption, RampEnds DEF ClockInv, LoopTypeOK
<1>2. /\ slept \in Nat /\ ramp \in Nat /\ (attempt + 1) * MaxDelay = slept + MaxDelay
      /\ MaxDelay * (Ramp + 1) = ramp + MaxDelay
      /\ attempt < Ramp => slept + MaxDelay <= ramp
  BY <1>1, Products
<1>3. now + ramp >= slept
  BY DEF SpacingInv
<1>4. at' = "sleeping" /\ attempt' = attempt + 1 /\ mark' = now + ms /\ now' = now
  BY DEF Sleep
<1>5. now' + MaxDelay * (Ramp + 1) >= attempt' * MaxDelay
  BY <1>1, <1>2, <1>3, <1>4
<1>6. mark' + ramp >= attempt' * MaxDelay \/ LastAt(mark)'
  <2>1. CASE LastAt(now + ms)
    BY <1>4, <2>1 DEF LastAt, Numeric, Deadline
  <2>2. CASE ms = PollDelay(attempt) /\ attempt >= Ramp
    <3>1. ms = MaxDelay
      BY <1>1, <2>2, RampEnds
    <3>. QED  BY <1>1, <1>2, <1>3, <1>4, <3>1
  <2>3. CASE attempt < Ramp
    BY <1>1, <1>2, <1>4, <2>3
  <2>. QED  BY <1>1, <2>1, <2>2, <2>3
<1>. QED  BY <1>4, <1>5, <1>6 DEF SpacingInv

\* All else only lets time pass.
LEMMA ElseIsSpaced ==
  ASSUME ClockInv, SpacingInv, UNCHANGED <<loop, budget, attempt>>, now' \in Nat, now <= now',
         at' = "sleeping" => at = "sleeping" /\ mark' = mark,
         at' \in {"reading", "served"} => at \in {"reading", "served"} \/ (at = "sleeping" /\ mark <= now)
  PROVE  SpacingInv'
<1>1. /\ now \in Nat /\ mark \in Nat /\ attempt * MaxDelay \in Nat /\ MaxDelay * Ramp \in Nat
      /\ MaxDelay * (Ramp + 1) \in Nat
  BY ClockAssumption, RampEnds, Products DEF ClockInv, LoopTypeOK
<1>2. budget \in Nat \cup {NaN}
  BY ClockAssumption DEF ClockInv, LoopTypeOK, BudgetsOf
<1>. QED  BY <1>1, <1>2 DEF SpacingInv, LastAt, Numeric, Deadline

\* A decision to sleep is one of the loop's own, and whole but for the last.
LEMMA DecideIsSpaced ==
  ASSUME ClockInv, SpacingInv, Decide
  PROVE  SpacingInv'
<1>1. at = "served" /\ UNCHANGED <<loop, budget, now, saw, heardAt, settledAt>>
  BY DEF Decide
<1>2. /\ now \in Nat /\ (Numeric => Deadline \in Nat) /\ loop \in Loops
      /\ PollDelay(attempt) \in 1..MaxDelay /\ MaxDelay \in Nat
  BY DelayIsTime, ClockAssumption DEF ClockInv, LoopTypeOK, BudgetsOf, Loops, Deadline, Numeric
<1>3. ASSUME NEW how \in {"done", "gaveUp"}, Over(how)  PROVE SpacingInv'
  BY <1>1, <1>2, <1>3, ElseIsSpaced DEF Over
<1>4. CASE ~(Numeric \/ loop # "intent")
  BY <1>1, <1>4 DEF SpacingInv, Numeric
<1>5. CASE saw
  BY <1>3, <1>5 DEF Decide
<1>6. CASE ~saw /\ loop \in {"palisade", "ledger"}
  <2>1. UnclampedGoOn /\ ~LastAt(now)
    BY <1>6 DEF Decide, LastAt, Clamped
  <2>2. CASE Numeric /\ now + PollDelay(attempt) >= Deadline
    BY <1>3, <2>1, <2>2 DEF UnclampedGoOn
  <2>3. CASE ~(Numeric /\ now + PollDelay(attempt) >= Deadline)
    BY <1>1, <1>2, <1>6, <2>1, <2>3, SleepIsSpaced DEF UnclampedGoOn
  <2>. QED  BY <2>2, <2>3
<1>7. CASE ~saw /\ loop \in Clamped /\ (Numeric \/ loop # "intent")
  <2>1. PICK expired \in BOOLEAN :
          GoOnUnless(expired) /\ (expired <=> ~Numeric \/ now >= Deadline)
    BY <1>7 DEF Decide, IntentGoOn, TransactionGoOn, Clamped
  <2>2. CASE expired
    BY <1>3, <2>1, <2>2 DEF GoOnUnless
  <2>3. CASE ~expired
    <3>1. Sleep(Smaller(PollDelay(attempt), Deadline - now)) /\ Numeric /\ ~(now >= Deadline)
      BY <2>1, <2>3 DEF GoOnUnless
    <3>2. PICK ms : ms = Smaller(PollDelay(attempt), Deadline - now)
      OBVIOUS
    <3>3. ms \in 1..MaxDelay /\ (ms = PollDelay(attempt) \/ ms = Deadline - now)
      BY <1>2, <3>1, <3>2 DEF Smaller
    <3>4. (ms = PollDelay(attempt) \/ LastAt(now + ms)) /\ ~LastAt(now)
      BY <1>2, <1>7, <3>1, <3>3 DEF LastAt
    <3>. QED  BY <1>1, <1>7, <3>1, <3>2, <3>3, <3>4, SleepIsSpaced
  <2>. QED  BY <2>2, <2>3
<1>. QED  BY <1>2, <1>4, <1>5, <1>6, <1>7 DEF Loops, Clamped

\* After the ramp, whose length the schedule sets, reads are at least the ceiling apart
\* but for the last one: a long wait costs few requests.
THEOREM ReadsSpaced == LoopSpec => []ReadsAreSpaced
<1>1. LoopInit => SpacingInv
  <2>1. Ramp \in Nat /\ MaxDelay \in Nat
    BY ClockAssumption, RampEnds
  <2>2. MaxDelay * Ramp \in Nat /\ MaxDelay * (Ramp + 1) \in Nat /\ 0 * MaxDelay = 0
    BY <2>1, Products
  <2>. QED  BY <2>2 DEF LoopInit, SpacingInv
<1>2. ClockInv /\ SpacingInv /\ [LoopNext]_loopVars => SpacingInv'
  <2>. SUFFICES ASSUME ClockInv, SpacingInv, [LoopNext]_loopVars  PROVE SpacingInv'
    OBVIOUS
  <2>1. now \in Nat /\ mark \in Nat
    BY ClockAssumption DEF ClockInv, LoopTypeOK
  <2>2. CASE Serve
    BY <2>1, <2>2, ElseIsSpaced DEF Serve
  <2>3. CASE Wake
    BY <2>1, <2>3, ElseIsSpaced DEF Wake
  <2>4. CASE Settle
    BY <2>1, <2>4, ElseIsSpaced DEF Settle
  <2>5. CASE Tick
    BY <2>1, <2>5, ElseIsSpaced DEF Tick
  <2>6. CASE Unanswered
    BY <2>1, <2>6, ElseIsSpaced DEF Unanswered
  <2>7. CASE ReadThrows
    BY <2>1, <2>7, ElseIsSpaced DEF ReadThrows
  <2>8. CASE UNCHANGED loopVars
    BY <2>1, <2>8, ElseIsSpaced DEF loopVars
  <2>. QED  BY <2>2, <2>3, <2>4, <2>5, <2>6, <2>7, <2>8, DecideIsSpaced DEF LoopNext
<1>3. SpacingInv => ReadsAreSpaced
  BY DEF SpacingInv, ReadsAreSpaced
<1>4. LoopSpec => []ClockInv
  BY LoopCorrect
<1>. QED  BY <1>1, <1>2, <1>3, <1>4, PTL DEF LoopSpec

\* Before another read comes a sleep.
LEMMA AnotherReadSleeps ==
  ASSUME ClockInv, Decide, attempt' # attempt
  PROVE  at' = "sleeping" /\ now' <= mark'
<1>1. now' = now /\ now \in Nat /\ PollDelay(attempt) \in 1..MaxDelay /\ (Numeric => Deadline \in Nat)
      /\ MaxDelay \in Nat
  BY DelayIsTime, ClockAssumption DEF Decide, ClockInv, LoopTypeOK, BudgetsOf, Deadline, Numeric
<1>2. ASSUME NEW ms \in Nat, Sleep(ms)  PROVE at' = "sleeping" /\ now' <= mark'
  BY <1>1, <1>2 DEF Sleep
<1>3. \A how : ~Over(how)
  BY DEF Over
<1>4. CASE UnclampedGoOn
  BY <1>1, <1>2, <1>3, <1>4 DEF UnclampedGoOn
<1>5. ASSUME NEW expired \in BOOLEAN, GoOnUnless(expired), Numeric => (expired <=> now >= Deadline)
      PROVE  at' = "sleeping" /\ now' <= mark'
  <2>1. CASE expired
    BY <1>3, <1>5, <2>1 DEF GoOnUnless
  <2>2. CASE ~expired /\ Numeric
    <3>1. Smaller(PollDelay(attempt), Deadline - now) \in Nat
      BY <1>1, <1>5, <2>2 DEF Smaller
    <3>. QED  BY <1>2, <1>5, <2>2, <3>1 DEF GoOnUnless
  <2>3. CASE ~expired /\ ~Numeric
    BY <1>2, <1>5, <2>3 DEF GoOnUnless
  <2>. QED  BY <2>1, <2>2, <2>3
<1>6. CASE IntentGoOn
  <2>1. PICK expired \in BOOLEAN : GoOnUnless(expired) /\ (Numeric => (expired <=> now >= Deadline))
    BY <1>6 DEF IntentGoOn
  <2>. QED  BY <1>5, <2>1
<1>7. CASE TransactionGoOn
  <2>1. PICK expired \in BOOLEAN : GoOnUnless(expired) /\ (Numeric => (expired <=> now >= Deadline))
    BY <1>7 DEF TransactionGoOn
  <2>. QED  BY <1>5, <2>1
<1>. QED  BY <1>3, <1>4, <1>6, <1>7 DEF Decide, ClockInv, LoopTypeOK, Loops

\* How many requests a wait costs: its budget by the ceiling, beside those of the ramp,
\* however long its reads take.
THEOREM ReadsAreFew ==
  LoopSpec => [](Numeric => attempt * MaxDelay <= Deadline + MaxDelay * (Ramp + 1))
<1>. DEFINE Few == Numeric => attempt * MaxDelay <= Deadline + MaxDelay * (Ramp + 1)
<1>1. LoopInit => Few
  <2>. SUFFICES ASSUME LoopInit, Numeric  PROVE attempt * MaxDelay <= Deadline + MaxDelay * (Ramp + 1)
    OBVIOUS
  <2>1. Ramp \in Nat /\ MaxDelay \in Nat /\ budget \in Nat /\ attempt = 0
    BY ClockAssumption, RampEnds DEF LoopInit, BudgetsOf, Numeric
  <2>2. MaxDelay * (Ramp + 1) \in Nat /\ 0 * MaxDelay = 0
    BY <2>1, Products
  <2>. QED  BY <2>1, <2>2 DEF Deadline
<1>2. ClockInv /\ ClockInv' /\ ReadsAreSpaced' /\ Few /\ [LoopNext]_loopVars => Few'
  <2>. SUFFICES ASSUME ClockInv, ClockInv', ReadsAreSpaced', Few, [LoopNext]_loopVars, Numeric'
                PROVE  attempt' * MaxDelay <= Deadline' + MaxDelay * (Ramp + 1)
    OBVIOUS
  <2>1. budget' = budget /\ Numeric /\ Deadline' = Deadline
    BY DEF LoopNext, Serve, Unanswered, ReadThrows, Decide, Wake, Settle, Tick, loopVars, Numeric, Deadline
  <2>2. CASE attempt' = attempt
    BY <2>1, <2>2
  <2>3. CASE attempt' # attempt
    <3>1. Decide
      BY <2>3 DEF LoopNext, Serve, Unanswered, ReadThrows, Wake, Settle, Tick, loopVars
    <3>2. at' = "sleeping" /\ now' <= mark'
      BY <2>3, <3>1, AnotherReadSleeps
    <3>3. now' <= Deadline' /\ now' \in Nat /\ Deadline' \in Nat
      BY <2>1, <3>2, ClockAssumption DEF ClockInv, SleepInv, LoopTypeOK, BudgetsOf, Deadline, Numeric
    <3>4. now' + MaxDelay * (Ramp + 1) >= attempt' * MaxDelay
      BY <2>1 DEF ReadsAreSpaced, Numeric
    <3>5. attempt' * MaxDelay \in Nat /\ MaxDelay * (Ramp + 1) \in Nat
      <4>1. attempt' \in Nat /\ MaxDelay \in Nat /\ Ramp \in Nat
        BY ClockAssumption, RampEnds DEF ClockInv, LoopTypeOK
      <4>2. PICK n \in Nat : n = attempt'
        BY <4>1
      <4>3. n * MaxDelay \in Nat /\ MaxDelay * (Ramp + 1) \in Nat
        BY <4>1
      <4>. QED  BY <4>2, <4>3
    <3>. QED  BY <3>3, <3>4, <3>5
  <2>. QED  BY <2>2, <2>3
<1>. QED  BY <1>1, <1>2, LoopCorrect, ReadsSpaced, PTL DEF LoopSpec

-----------------------------------------------------------------------------
(* LedgerReads, for any codes, offers and moves of the ledger.             *)

\* A code on the ledger names itself, and comes out of its ticker as a code.
LEMMA CodesAreTickers ==
  ASSUME NEW code \in Codes
  PROVE  /\ encodeCurrencyCode(code) = code
         /\ encodeCurrencyCode(decodeCurrency(code)) \in Codes
BY TextsAssumption DEF Codes, Texts, encodeCurrencyCode, decodeCurrency

\* Either side of an offer is an amount of the ledger, and one of them an IOU.
LEMMA OffersHaveSides ==
  ASSUME NEW offer \in LedgerOffers
  PROVE  /\ offer.gets \in LedgerAmounts /\ offer.pays \in LedgerAmounts
         /\ offer.passive \in BOOLEAN
         /\ offer.gets.kind = "XRP" => offer.pays.kind = "IOU"
BY DEF LedgerOffers

\* The two kinds of amounts of the ledger, and what each of them is made of.
LEMMA KindsOf ==
  ASSUME NEW amount \in LedgerAmounts
  PROVE  /\ amount.kind \in {"XRP", "IOU"}
         /\ amount.kind = "IOU" => amount \in IOUAmounts
         /\ amount.kind = "XRP" => amount \in XRPAmounts
         /\ amount \in IOUAmounts => amount.kind = "IOU" /\ amount.code \in Codes /\ amount.issuer \in Issuers
                                     /\ amount.value \in Precisions
         /\ amount.kind = "XRP" => amount = [kind |-> "XRP", value |-> "drops"]
BY DEF LedgerAmounts, IOUAmounts, XRPAmounts

\* Whatever the reference, the base of a shaped offer is an IOU.
LEMMA BaseIsIssued ==
  ASSUME NEW offer \in LedgerOffers, NEW reference,
         NEW type, type = orient(offer.gets, offer.pays, reference)
  PROVE  /\ type \in {"buy", "sell"}
         /\ Base(offer, type) \in IOUAmounts
         /\ Counter(offer, type) \in LedgerAmounts
         /\ {Base(offer, type), Counter(offer, type)} = {offer.gets, offer.pays}
BY OffersHaveSides, KindsOf DEF orient, isReference, Base, Counter

\* Placing a shaped offer gives it back, but for the issuer of the base and a code that
\* its ticker loses; the ledger refuses it only where both make it an offer for itself.
LEMMA PlacedAgain ==
  ASSUME NEW old \in LedgerOffers, NEW summary, NEW ticker, NEW type \in {"buy", "sell"},
         summary.type = type,
         summary.amount = Base(old, type).value,
         summary.price = toPrice(Counter(old, type)),
         summary.orderType = (IF old.passive THEN "passive" ELSE "limit"),
         Base(old, type) \in IOUAmounts, encodeCurrencyCode(ticker) = Base(old, type).code,
         NEW new, new = placeOffer(summary, ticker)
  PROVE  /\ new.passive = old.passive
         /\ Base(new, type) = [Base(old, type) EXCEPT !.issuer = Account]
         /\ Counter(new, type) = Counter(old, type) \/ LosesCode(Counter(old, type))
         /\ new \notin LedgerOffers =>
              /\ Counter(old, type).kind = "IOU" /\ Counter(old, type).issuer = Account
              /\ Base(old, type).code = Counter(old, type).code \/ LosesCode(Counter(old, type))
<1>. DEFINE base == Base(old, type)
            price == Counter(old, type)
            again == priceToLedgerAmount(toPrice(price))
<1>1. /\ base \in IOUAmounts /\ base \in LedgerAmounts /\ price \in LedgerAmounts
      /\ old.passive \in BOOLEAN
  BY OffersHaveSides DEF Counter, LedgerAmounts
<1>2. base = [kind |-> "IOU", code |-> base.code, issuer |-> base.issuer, value |-> base.value]
  BY <1>1 DEF IOUAmounts
<1>3. /\ price.kind = "XRP" => again = price
      /\ price.kind = "IOU" =>
           again = [kind |-> "IOU", code |-> encodeCurrencyCode(decodeCurrency(price.code)),
                    issuer |-> price.issuer, value |-> price.value]
  BY DEF priceToLedgerAmount, toPrice
<1>4. again \in LedgerAmounts /\ (again = price \/ LosesCode(price)) /\ again.kind = price.kind
  <2>1. CASE price.kind = "XRP"
    BY <1>1, <1>3, <2>1
  <2>2. CASE price.kind = "IOU"
    <3>1. price = [kind |-> "IOU", code |-> price.code, issuer |-> price.issuer, value |-> price.value]
      BY <1>1, <2>2, KindsOf DEF IOUAmounts
    <3>2. price.code \in Codes /\ price.issuer \in Issuers /\ price.value \in Precisions
      BY <1>1, <2>2, KindsOf
    <3>. QED  BY <1>3, <2>2, <3>1, <3>2, CodesAreTickers DEF LosesCode, Ambiguous, LedgerAmounts, IOUAmounts
  <2>. QED  BY <1>1, <2>1, <2>2, KindsOf
<1>. DEFINE own == [kind |-> "IOU", code |-> base.code, issuer |-> Account, value |-> base.value]
<1>5. own \in LedgerAmounts /\ own = [base EXCEPT !.issuer = Account]
  BY <1>1, <1>2, KindsOf, TextsAssumption DEF LedgerAmounts, IOUAmounts
<1>6. /\ new.gets = (IF type = "sell" THEN own ELSE again) /\ new.pays = (IF type = "sell" THEN again ELSE own)
      /\ new.passive = (summary.orderType = "passive") /\ new.sell = (type = "sell")
      /\ new = [gets |-> new.gets, pays |-> new.pays, passive |-> new.passive, sell |-> new.sell]
  BY DEF placeOffer
<1>7. new.passive = old.passive /\ new.passive \in BOOLEAN /\ new.sell \in BOOLEAN
  BY <1>1, <1>6
<1>8. Base(new, type) = own /\ Counter(new, type) = again
  BY <1>6 DEF Base, Counter
<1>9. ASSUME new \notin LedgerOffers
      PROVE  /\ price.kind = "IOU" /\ price.issuer = Account
             /\ base.code = price.code \/ LosesCode(price)
  <2>1. again.kind = "IOU" /\ again.code = own.code /\ again.issuer = own.issuer
    <3>1. new.gets \in LedgerAmounts /\ new.pays \in LedgerAmounts
      BY <1>4, <1>5, <1>6
    <3>2. new \in [gets : LedgerAmounts, pays : LedgerAmounts, passive : BOOLEAN, sell : BOOLEAN]
      BY <1>6, <1>7, <3>1
    <3>3. \/ new.gets.kind = "XRP" /\ new.pays.kind # "IOU"
          \/ /\ new.gets.kind = "IOU" /\ new.pays.kind = "IOU"
             /\ new.gets.code = new.pays.code /\ new.gets.issuer = new.pays.issuer
      BY <1>9, <3>2 DEF LedgerOffers
    <3>4. own.kind = "IOU"
      OBVIOUS
    <3>. QED  BY <1>6, <3>3, <3>4
  <2>. QED  BY <1>3, <1>4, <2>1 DEF LosesCode, Ambiguous
<1>. QED  BY <1>4, <1>5, <1>7, <1>8, <1>9

\* Nothing has been read yet.
LEMMA ReadsStart == ReadsInit => ReadsInv
<1>. SUFFICES ASSUME ReadsInit  PROVE ReadsInv
  OBVIOUS
<1>1. ReadsTypeOK
  <2>1. book \subseteq LedgerOffers
    BY DEF ReadsInit
  <2>2. met \in BOOLEAN
    BY DEF ReadsInit, Obstacle
  <2>3. op \in Operations /\ outstanding \in {"absent", "zero", "some"} /\ flags \in [Flagged -> BOOLEAN]
        /\ source \in Sources /\ polls \in BOOLEAN
    BY DEF ReadsInit
  <2>4. moves \in 0..MaxMoves /\ stage = "reading" /\ shown = {} /\ moved = FALSE /\ unread = FALSE
    BY MovesAssumption DEF ReadsInit
  <2>. QED  BY <2>1, <2>2, <2>3, <2>4 DEF ReadsTypeOK
<1>2. CheckInv /\ ShapedInv /\ ToldIsSo /\ ReplacedAsListed
  BY DEF ReadsInit, CheckInv, ShapedInv, ToldIsSo, ReplacedAsListed
<1>. QED  BY <1>1, <1>2 DEF ReadsInv

\* The check reads, and decides by what it has read.
LEMMA ChecksAreSo ==
  ASSUME ReadsInv, ServeEntry \/ EntryUnreadable \/ ServeFlags \/ FlagsUnreadable \/ Check
  PROVE  ReadsInv'
<1>. USE DEF ReadsInv
<1>1. /\ op \in {"destroy"} \cup Flagged
      /\ stage \in {"reading", "read"} /\ stage' \in {"read", "thrown", "refused", "submitted"}
      /\ UNCHANGED <<outstanding, flags, book, moves, op, source, polls, shown, met>>
      /\ moved' \in BOOLEAN /\ unread' \in BOOLEAN
  BY DEF ServeEntry, EntryUnreadable, ServeFlags, FlagsUnreadable, Check, Read, End, ledgerVars, historyVars,
         CheckInv, ReadsTypeOK
<1>2. op # "replace" /\ op # "issue"
  BY <1>1 DEF Flagged
<1>3. ReadsTypeOK'
  BY <1>1 DEF ReadsTypeOK, Ends
<1>4. ShapedInv' /\ ReplacedAsListed'
  BY <1>1, <1>2 DEF ShapedInv, ReplacedAsListed
<1>5. /\ Obstacle(outstanding, flags)' <=> Obstacle(outstanding, flags)
      /\ ToldIsSo' <=> (stage' = "refused" => met)
      /\ outstanding \in {"absent", "zero", "some"}
  BY <1>1, <1>2 DEF Obstacle, ToldIsSo, ReadsTypeOK
<1>6. CASE ServeEntry
  <2>1. op = "destroy" /\ stage' = "read" /\ seen' = outstanding
    BY <1>6 DEF ServeEntry, Read
  <2>. QED  BY <1>1, <1>3, <1>4, <1>5, <2>1 DEF CheckInv, Obstacle, Refuses, Flagged
<1>7. CASE EntryUnreadable
  <2>1. stage' = "read" /\ seen' = "absent" /\ unread' = TRUE
    BY <1>7 DEF EntryUnreadable
  <2>. QED  BY <1>1, <1>3, <1>4, <1>5, <2>1 DEF CheckInv, Refuses
<1>8. CASE ServeFlags
  <2>1. op \in Flagged /\ stage' = "read" /\ seen' = (IF flags[op] THEN "set" ELSE "clear")
    BY <1>8 DEF ServeFlags, Read
  <2>. QED  BY <1>1, <1>3, <1>4, <1>5, <2>1 DEF CheckInv, Obstacle, Refuses, Flagged
<1>9. CASE FlagsUnreadable
  <2>1. stage' = "thrown"
    BY <1>9 DEF FlagsUnreadable, End
  <2>. QED  BY <1>1, <1>3, <1>4, <1>5, <2>1 DEF CheckInv
<1>10. CASE Check
  <2>1. /\ stage = "read" /\ stage' = (IF Refuses THEN "refused" ELSE "submitted")
        /\ UNCHANGED <<seen, moved, unread>>
    BY <1>10 DEF Check, End, historyVars
  <2>. QED  BY <1>1, <1>3, <1>4, <1>5, <2>1 DEF CheckInv
<1>. QED  BY <1>6, <1>7, <1>8, <1>9, <1>10

\* The ledger turns the write down for what it shows by then.
LEMMA LandIsSo ==
  ASSUME ReadsInv, Land
  PROVE  ReadsInv'
<1>. USE DEF ReadsInv
<1>1. /\ stage = "submitted"
      /\ stage' = (IF Obstacle(outstanding, flags) THEN "obstructed"
                   ELSE IF op = "destroy" /\ outstanding = "absent" THEN "failed" ELSE "done")
      /\ outstanding' = (IF op = "destroy" /\ outstanding = "zero" THEN "absent" ELSE outstanding)
      /\ UNCHANGED <<flags, book, moves, op, seen, source, polls, shown, met, moved, unread>>
  BY DEF Land, End, historyVars
<1>2. op \in {"destroy"} \cup Flagged /\ op # "replace" /\ op # "issue"
  BY <1>1 DEF CheckInv, Flagged
<1>3. stage' \in {"obstructed", "failed", "done"} /\ outstanding' \in {"absent", "zero", "some"}
  BY <1>1 DEF ReadsTypeOK
<1>4. ReadsTypeOK'
  BY <1>1, <1>3 DEF ReadsTypeOK, Ends
<1>5. ShapedInv' /\ ReplacedAsListed'
  BY <1>1, <1>2, <1>3 DEF ShapedInv, ReplacedAsListed
<1>6. Obstacle(outstanding, flags)' => Obstacle(outstanding, flags)
  BY <1>1 DEF Obstacle
<1>7. CheckInv'
  BY <1>1, <1>2, <1>3, <1>6 DEF CheckInv
<1>8. ToldIsSo'
  BY <1>1, <1>2, <1>3 DEF ToldIsSo, CheckInv
<1>. QED  BY <1>4, <1>5, <1>7, <1>8

\* An issuance id that is told is of the order, or could not be read.
LEMMA IssuanceIsSo ==
  ASSUME ReadsInv, FromMetadata \/ PollPrimary \/ PollThrows \/ FromLedger
  PROVE  ReadsInv'
<1>. USE DEF ReadsInv
<1>1. /\ op = "issue"
      /\ stage' \in {"told", "polling", "looking", "thrown"}
      /\ stage' = "told" => seen' = "own" \/ unread'
      /\ unread' \in BOOLEAN
      /\ UNCHANGED <<outstanding, flags, book, moves, op, source, polls, shown, met, moved>>
  <2>. USE DEF End, ledgerVars, historyVars, CheckInv, ReadsTypeOK
  <2>1. CASE FromMetadata
    BY <2>1 DEF FromMetadata
  <2>2. CASE PollPrimary
    BY <2>2 DEF PollPrimary
  <2>3. CASE PollThrows
    BY <2>3 DEF PollThrows
  <2>4. CASE FromLedger
    BY <2>4 DEF FromLedger
  <2>. QED  BY <2>1, <2>2, <2>3, <2>4
<1>2. ReadsTypeOK'
  BY <1>1 DEF ReadsTypeOK, Ends
<1>3. CheckInv' /\ ToldIsSo' /\ ShapedInv' /\ ReplacedAsListed'
  BY <1>1 DEF CheckInv, ToldIsSo, ShapedInv, ReplacedAsListed, Obstacle, Flagged
<1>. QED  BY <1>2, <1>3

\* A listing shapes the offer it reads.
LEMMA ListingShapes ==
  ASSUME ReadsInv, ListBook \/ ListAccount
  PROVE  ReadsInv'
<1>. USE DEF ReadsInv
<1>1. /\ op = "replace" /\ stage' = "shaped" /\ moved' = FALSE
      /\ UNCHANGED <<op, source, polls, met, unread, outstanding, flags, book, moves>>
  BY DEF ListBook, ListAccount, ledgerVars
<1>2. PICK offer, reference, ticker :
        /\ offer \in LedgerOffers
        /\ shown' = {offer}
        /\ seen' = [summary |-> shapeOffer(offer, reference), ticker |-> ticker]
        /\ encodeCurrencyCode(ticker) = Base(offer, shapeOffer(offer, reference).type).code
  <2>1. CASE ListBook
    <3>1. PICK offer \in book : 
            /\ InBook(offer) /\ shown' = {offer}
            /\ \E iou \in {offer.gets, offer.pays} \cap IOUAmounts :
                 \E ticker \in Tickers(iou.code) :
                   seen' = [summary |-> shapeOffer(offer, [ticker |-> ticker, issuer |-> iou.issuer]),
                            ticker |-> ticker]
      BY <2>1 DEF ListBook
    <3>a. PICK iou \in {offer.gets, offer.pays} \cap IOUAmounts :
            \E ticker \in Tickers(iou.code) :
              seen' = [summary |-> shapeOffer(offer, [ticker |-> ticker, issuer |-> iou.issuer]),
                      ticker |-> ticker]
      BY <3>1
    <3>2. PICK ticker \in Tickers(iou.code) :
            seen' = [summary |-> shapeOffer(offer, [ticker |-> ticker, issuer |-> iou.issuer]),
                      ticker |-> ticker]
      BY <3>a
    <3>. DEFINE reference == [ticker |-> ticker, issuer |-> iou.issuer]
                type == orient(offer.gets, offer.pays, reference)
    <3>3. offer \in LedgerOffers /\ encodeCurrencyCode(ticker) = iou.code
      BY <3>1 DEF ReadsTypeOK, Tickers
    <3>4. Base(offer, type) = iou
      <4>. HIDE DEF reference, type
      <4>1. type \in {"buy", "sell"} /\ Base(offer, type) \in IOUAmounts
            /\ {Base(offer, type), Counter(offer, type)} = {offer.gets, offer.pays}
        BY <3>3, BaseIsIssued DEF type
      <4>2. ~(offer.gets.kind = "IOU" /\ offer.pays.kind = "IOU")
        BY <3>1 DEF InBook
      <4>. QED  BY <3>3, <4>1, <4>2, OffersHaveSides, KindsOf DEF LedgerAmounts
    <3>5. shapeOffer(offer, reference).type = type
      BY DEF shapeOffer
    <3>. QED  BY <3>1, <3>2, <3>3, <3>4, <3>5
  <2>2. CASE ListAccount
    <3>1. PICK offer \in book :
            /\ shown' = {offer}
            /\ seen' = [summary |-> shapeOffer(offer, NoReference),
                        ticker |-> Base(offer, shapeOffer(offer, NoReference).type).code]
      BY <2>2 DEF ListAccount
    <3>2. offer \in LedgerOffers
      BY <3>1 DEF ReadsTypeOK
    <3>3. Base(offer, shapeOffer(offer, NoReference).type) \in IOUAmounts
      BY <3>2, BaseIsIssued DEF shapeOffer
    <3>4. Base(offer, shapeOffer(offer, NoReference).type).code \in Codes
      BY <3>3, KindsOf DEF LedgerAmounts
    <3>. QED  BY <3>1, <3>2, <3>4, CodesAreTickers
  <2>. QED  BY <2>1, <2>2
<1>. DEFINE type == orient(offer.gets, offer.pays, reference)
<1>3. ReadsTypeOK'
  BY <1>1, <1>2 DEF ReadsTypeOK
<1>4. ShapedInv'
  <2>1. /\ seen'.ticker = ticker /\ seen'.summary = shapeOffer(offer, reference)
    BY <1>2
  <2>2. /\ shapeOffer(offer, reference).type = type
        /\ shapeOffer(offer, reference).amount = Base(offer, type).value
        /\ shapeOffer(offer, reference).price = toPrice(Counter(offer, type))
        /\ shapeOffer(offer, reference).orderType = (IF offer.passive THEN "passive" ELSE "limit")
    BY DEF shapeOffer
  <2>3. type \in {"buy", "sell"} /\ Base(offer, type) \in IOUAmounts
    <3>1. offer \in LedgerOffers
      BY <1>2
    <3>. QED  BY <3>1, BaseIsIssued
  <2>. HIDE DEF type
  <2>. QED  BY <1>1, <1>2, <2>1, <2>2, <2>3 DEF ShapedInv
<1>5. CheckInv' /\ ToldIsSo' /\ ReplacedAsListed'
  BY <1>1 DEF CheckInv, ToldIsSo, ReplacedAsListed, Obstacle, Flagged
<1>. QED  BY <1>3, <1>4, <1>5

\* What is placed is the offer that was listed.
LEMMA PlaceIsSo ==
  ASSUME ReadsInv, Place
  PROVE  ReadsInv'
<1>. USE DEF ReadsInv
<1>. DEFINE new == placeOffer(seen.summary, seen.ticker)
            fine == Acceptable(seen.summary.amount) /\ Acceptable(seen.summary.price.value)
<1>1. /\ stage = "shaped"
      /\ \/ ~fine /\ stage' = "refused" /\ book' = book
         \/ fine /\ new \in LedgerOffers /\ stage' = "done" /\ book' = {new}
         \/ fine /\ new \notin LedgerOffers /\ stage' = "failed" /\ book' = book
      /\ UNCHANGED <<outstanding, flags, moves, op, seen, source, polls, shown, met, moved, unread>>
  BY DEF Place, End, historyVars
<1>2. op = "replace"
  BY <1>1 DEF ShapedInv
<1>3. PICK old \in LedgerOffers, type \in {"buy", "sell"} :
        /\ shown = {old} /\ seen.summary.type = type
        /\ seen.summary.amount = Base(old, type).value
        /\ seen.summary.price = toPrice(Counter(old, type))
        /\ seen.summary.orderType = (IF old.passive THEN "passive" ELSE "limit")
        /\ Base(old, type) \in IOUAmounts /\ encodeCurrencyCode(seen.ticker) = Base(old, type).code
  BY <1>1 DEF ShapedInv
<1>4. /\ new.passive = old.passive
      /\ Base(new, type) = [Base(old, type) EXCEPT !.issuer = Account]
      /\ Counter(new, type) = Counter(old, type) \/ LosesCode(Counter(old, type))
      /\ new \notin LedgerOffers =>
           /\ Counter(old, type).kind = "IOU" /\ Counter(old, type).issuer = Account
           /\ Base(old, type).code = Counter(old, type).code \/ LosesCode(Counter(old, type))
  BY <1>3, PlacedAgain
<1>5. ~fine <=> TooFine(old)
  <2>1. toPrice(Counter(old, type)).value = Counter(old, type).value
    BY DEF toPrice
  <2>. QED  BY <1>3, <2>1 DEF Acceptable, TooFine, Base, Counter
<1>. HIDE DEF new, fine
<1>6. ReadsTypeOK'
  BY <1>1 DEF ReadsTypeOK, Ends
<1>7. CheckInv' /\ ShapedInv' /\ ToldIsSo'
  BY <1>1, <1>2 DEF CheckInv, ShapedInv, ToldIsSo, Obstacle, Flagged
<1>8. ReplacedAsListed'
  BY <1>1, <1>3, <1>4, <1>5 DEF ReplacedAsListed
<1>. QED  BY <1>6, <1>7, <1>8

\* The ledger moves under a call: what it had seen may no longer be there.
LEMMA MovesAreSo ==
  ASSUME ReadsInv, Circulate \/ SetFlag \/ Cross
  PROVE  ReadsInv'
<1>. USE DEF ReadsInv
<1>1. PICK state \in {"absent", "zero", "some"}, set \in [Flagged -> BOOLEAN] :
        Moves(state, set) /\ book' \in SUBSET book
  BY DEF Circulate, SetFlag, Cross, ReadsTypeOK
<1>2. /\ stage \notin Ends /\ moves < MaxMoves /\ moves' = moves + 1
      /\ outstanding' = state /\ flags' = set
      /\ met' = (met \/ Obstacle(state, set)) /\ moved' = TRUE
      /\ UNCHANGED <<op, stage, seen, source, polls, shown, unread>>
  BY <1>1 DEF Moves, callVars
<1>3. ReadsTypeOK'
  <2>1. met' \in BOOLEAN /\ moves' \in 0..MaxMoves
    BY <1>2, MovesAssumption DEF ReadsTypeOK
  <2>. QED  BY <1>1, <1>2, <2>1 DEF ReadsTypeOK
<1>4. Obstacle(outstanding, flags)' <=> Obstacle(state, set)
  BY <1>2 DEF Obstacle
<1>5. CheckInv' /\ ToldIsSo'
  BY <1>2, <1>4 DEF CheckInv, ToldIsSo, Ends, Refuses
<1>6. ShapedInv' /\ ReplacedAsListed'
  BY <1>2 DEF ShapedInv, ReplacedAsListed, Ends
<1>. QED  BY <1>3, <1>5, <1>6

\* The invariant of the reads is inductive.
THEOREM ReadsCorrect == ReadsSpec => []ReadsInv
<1>1. ReadsInv /\ [ReadsNext]_readsVars => ReadsInv'
  <2>1. ASSUME ReadsInv, UNCHANGED readsVars  PROVE ReadsInv'
    <3>. USE <2>1 DEF ReadsInv, readsVars, ledgerVars, callVars, historyVars
    <3>1. ReadsTypeOK'
      BY DEF ReadsTypeOK
    <3>2. CheckInv'
      BY DEF CheckInv, Obstacle, Refuses
    <3>3. ShapedInv'
      BY DEF ShapedInv
    <3>4. ToldIsSo'
      BY DEF ToldIsSo
    <3>5. ReplacedAsListed'
      BY DEF ReplacedAsListed
    <3>. QED  BY <3>1, <3>2, <3>3, <3>4, <3>5
  <2>. QED
    BY <2>1, ChecksAreSo, LandIsSo, IssuanceIsSo, ListingShapes, PlaceIsSo, MovesAreSo DEF ReadsNext
<1>. QED  BY <1>1, ReadsStart, PTL DEF ReadsSpec

\* A refusal names an obstacle that was there during the call; the ledger turns a write
\* down only if it moved since the check or could not be read; an issuance id is missing
\* only if the ledger did not answer.
THEOREM WhatIsToldIsSo == ReadsSpec => []ToldIsSo
<1>1. ReadsInv => ToldIsSo
  BY DEF ReadsInv
<1>. QED  BY <1>1, ReadsCorrect, PTL

\* An offer that is listed and placed again is the same exchange, but for the exceptions
\* ReplacedAsListed names, whatever codes and offers there are.
THEOREM OffersAreReplacedAsListed == ReadsSpec => []ReplacedAsListed
<1>1. ReadsInv => ReplacedAsListed
  BY DEF ReadsInv
<1>. QED  BY <1>1, ReadsCorrect, PTL
=============================================================================
