------------------------ MODULE PaymentIntentsProofs ------------------------
(***************************************************************************)
(* Proofs about PaymentIntents for every finite set of users and intents,  *)
(* every set of requests and screenshots, and all limits.                  *)
(*                                                                         *)
(* PromoLimitsHold is not inductive: between the count and the commit of a *)
(* request the use is only promised.  WithinLimits leaves room for the one *)
(* request that holds the lock of the code.  Nothing but a commit adds to  *)
(* InTime, and what the code counts is never less (Counts): an approval in *)
(* time goes on counting when its intent expires.                          *)
(*                                                                         *)
(* EvidenceKept rests on what a request may still rely on when it deletes  *)
(* its object or commits it: the object is there, or it is Lost, which no  *)
(* step undoes.                                                            *)
(***************************************************************************)
EXTENDS PaymentIntents, SumTheorems

(* The rows of payments and the phases of a request. *)
Statuses == {"none", "awaiting_upload", "uploaded", "in_review", "approved", "rejected"}
Rows == [status : Statuses, discounted : BOOLEAN, expired : BOOLEAN, late : BOOLEAN,
         evidence : Contents \cup {None}]
Phases == {"idle", "creating", "redeeming", "putting", "stored", "deleting"}

(* An object no payment will ever name: the payment has another screenshot *)
(* or can have none any more.                                              *)
Lost(object) ==
    LET payment == payments[object[1]]
    IN  payment.evidence # object[2] /\ (payment.evidence # None \/ payment.expired)

(* What a request has seen and still may rely on.                          *)
Knows(c) ==
    LET it == procs[c]
    IN  /\ it.phase \in Phases
        /\ it.phase = "creating" =>
             /\ it.payment \in Intents /\ it.discounted \in BOOLEAN
             /\ it.payment \in it.locks
             /\ it.discounted => PromoLocks \subseteq it.locks
             /\ payments[it.payment].status = "none"
        /\ it.phase = "redeeming" => it.user \in Users /\ PromoLocks \subseteq it.locks
        /\ it.phase \in {"putting", "stored", "deleting"} =>
             it \in [phase : Phases, locks : {{}}, object : Uploads]
        /\ it.phase \in {"putting", "stored"} => payments[it.object[1]].status # "none"
        /\ it.phase = "stored" => it.object \in objects \cup dropped \/ Lost(it.object)
        /\ it.phase = "deleting" => it.object \in dropped \/ Lost(it.object)

(* Every request knows that. *)
RequestsKnow == DOMAIN procs = Clients /\ \A c \in Clients : Knows(c)

(* A lock has one holder. *)
LocksApart == \A c, d \in Clients : c # d => procs[c].locks \cap procs[d].locks = {}

(* The uses that never lapsed, of all and of one user, with the            *)
(* redemptions.                                                            *)
Used == Cardinality(InTime) + SumOf(redeemed, Users)
UsedBy(u) == Cardinality(InTimeOf(u)) + redeemed[u]

(* The request is about to use the code for u. *)
Uses(c, u) ==
    \/ procs[c].phase = "creating" /\ procs[c].discounted /\ UserOf[procs[c].payment] = u
    \/ procs[c].phase = "redeeming" /\ procs[c].user = u

(* They stay within the limits, with room for the one that is coming.      *)
WithinLimits ==
    /\ Used <= promo.limit
    /\ \A u \in Users : UsedBy(u) <= PerUserLimit
    /\ \A c \in Clients, u \in Users :
         Uses(c, u) => Used < promo.limit /\ UsedBy(u) < PerUserLimit

IInv == TypeOK /\ RequestsKnow /\ LocksApart /\ WithinLimits /\ EvidenceKept
-----------------------------------------------------------------------------
(* Facts about the counts *)

(* The types in the form the other proofs use.                             *)
LEMMA RowTypes ==
    ASSUME TypeOK
    PROVE  /\ payments \in [Intents -> Rows]
           /\ promo.limit \in Nat
           /\ redeemed \in [Users -> Nat]
           /\ \A p \in Intents : UserOf[p] \in Users
  BY LimitsAssumption, UserOfAssumption DEF TypeOK, Rows, Statuses

(* An element more adds at most one.                                       *)
LEMMA OneMore ==
    ASSUME NEW S, IsFiniteSet(S), NEW e, NEW T \in SUBSET (S \cup {e})
    PROVE  Cardinality(T) <= Cardinality(S) + 1
  <1>1. /\ IsFiniteSet(S \cup {e})
        /\ Cardinality(S \cup {e}) = IF e \in S THEN Cardinality(S) ELSE Cardinality(S) + 1
    BY FS_AddElement
  <1>2. IsFiniteSet(T) /\ Cardinality(T) <= Cardinality(S \cup {e})
    BY <1>1, FS_Subset
  <1>3. /\ Cardinality(S) \in Nat /\ Cardinality(T) \in Nat
        /\ Cardinality(S \cup {e}) \in Nat
    BY <1>1, <1>2, FS_CardinalityType
  <1> QED
    BY <1>1, <1>2, <1>3

(* All counts are numbers; the code counts every use that never lapsed.    *)
Countable ==
    /\ SumOf(redeemed, Users) \in Nat
    /\ IsFiniteSet(InTime) /\ Cardinality(InTime) \in Nat
    /\ Used \in Nat /\ Usage \in Nat /\ Used <= Usage
    /\ \A u \in Users :
         /\ IsFiniteSet(InTimeOf(u)) /\ Cardinality(InTimeOf(u)) \in Nat
         /\ UsedBy(u) \in Nat
         /\ UsedBy(u) <= Cardinality(CountedOf(u)) + redeemed[u]
         /\ Cardinality(CountedOf(u)) \in Nat

(* They are, since the counted intents are some of finitely many, and an   *)
(* intent in time is approved, or open and not expired.                    *)
LEMMA Counts == TypeOK => Countable
  <1> SUFFICES ASSUME TypeOK PROVE Countable
    OBVIOUS
  <1>1. redeemed \in [Users -> Nat]
    BY RowTypes
  <1>2. SumOf(redeemed, Users) \in Nat
    BY <1>1, FiniteAssumption, SumNat
  <1>3. IsFiniteSet(Counted) /\ Cardinality(Counted) \in Nat
    BY FiniteAssumption, FS_Subset, FS_CardinalityType DEF Counted
  <1>4. IsFiniteSet(InTime) /\ Cardinality(InTime) \in Nat /\ Cardinality(InTime) <= Cardinality(Counted)
    <2>1. InTime \subseteq Counted
      BY DEF InTime, Counted
    <2> QED
      BY <1>3, <2>1, FS_Subset, FS_CardinalityType
  <1>5. Usage = Cardinality(Counted) + SumOf(redeemed, Users)
    BY DEF Usage, SumOf
  <1>6. Used \in Nat /\ Usage \in Nat /\ Used <= Usage
    BY <1>2, <1>3, <1>4, <1>5 DEF Used
  <1>7. ASSUME NEW u \in Users
        PROVE  /\ IsFiniteSet(InTimeOf(u)) /\ Cardinality(InTimeOf(u)) \in Nat
               /\ UsedBy(u) \in Nat
               /\ UsedBy(u) <= Cardinality(CountedOf(u)) + redeemed[u]
               /\ Cardinality(CountedOf(u)) \in Nat
    <2>1. IsFiniteSet(CountedOf(u)) /\ Cardinality(CountedOf(u)) \in Nat
      BY <1>3, FS_Subset, FS_CardinalityType DEF CountedOf
    <2>2. /\ IsFiniteSet(InTimeOf(u)) /\ Cardinality(InTimeOf(u)) \in Nat
          /\ Cardinality(InTimeOf(u)) <= Cardinality(CountedOf(u))
      <3>1. InTimeOf(u) \subseteq CountedOf(u)
        BY DEF InTimeOf, InTime, CountedOf, Counted
      <3> QED
        BY <2>1, <3>1, FS_Subset, FS_CardinalityType
    <2>3. redeemed[u] \in Nat
      BY <1>1
    <2> QED
      BY <2>1, <2>2, <2>3 DEF UsedBy
  <1> QED
    BY <1>2, <1>4, <1>6, <1>7 DEF Countable

(* What no step uses up stays within the limits.                           *)
LEMMA LimitsKept ==
    ASSUME TypeOK, TypeOK', WithinLimits, redeemed' = redeemed, promo'.limit = promo.limit,
           InTime' \subseteq InTime, \A u \in Users : InTimeOf(u)' \subseteq InTimeOf(u),
           \A c \in Clients, u \in Users : Uses(c, u)' => Uses(c, u)
    PROVE  WithinLimits'
  <1>0. Countable /\ Countable'
    BY Counts, PTL
  <1>1. Used' <= Used /\ Used \in Nat /\ Used' \in Nat
    <2>1. /\ SumOf(redeemed, Users) \in Nat /\ IsFiniteSet(InTime)
          /\ Cardinality(InTime) \in Nat /\ Used \in Nat
      BY <1>0 DEF Countable
    <2>2. Cardinality(InTime)' \in Nat /\ Used' \in Nat
      BY <1>0 DEF Countable
    <2>3. Cardinality(InTime') <= Cardinality(InTime)
      BY <2>1, FS_Subset
    <2> QED
      BY <2>1, <2>2, <2>3 DEF Used
  <1>2. ASSUME NEW u \in Users PROVE UsedBy(u)' <= UsedBy(u) /\ UsedBy(u) \in Nat /\ UsedBy(u)' \in Nat
    <2>1. /\ redeemed[u] \in Nat /\ IsFiniteSet(InTimeOf(u))
          /\ Cardinality(InTimeOf(u)) \in Nat /\ UsedBy(u) \in Nat
      BY <1>0, RowTypes DEF Countable
    <2>2. Cardinality(InTimeOf(u))' \in Nat /\ UsedBy(u)' \in Nat
      BY <1>0 DEF Countable
    <2>3. Cardinality(InTimeOf(u)') <= Cardinality(InTimeOf(u))
      BY <2>1, FS_Subset
    <2> QED
      BY <2>1, <2>2, <2>3 DEF UsedBy
  <1>3. promo.limit \in Nat /\ PerUserLimit \in Nat
    BY LimitsAssumption, RowTypes
  <1> QED
    BY <1>1, <1>2, <1>3 DEF WithinLimits

-----------------------------------------------------------------------------
(* Facts about requests and screenshots *)

(* A step of one request leaves the others where they are.                 *)
LEMMA Becomes ==
    ASSUME RequestsKnow, NEW c \in Clients, NEW state, Become(c, state)
    PROVE  /\ DOMAIN procs' = Clients
           /\ \A d \in Clients : procs'[d] = IF d = c THEN state ELSE procs[d]
  BY DEF RequestsKnow, Become

(* Two requests cannot both be using the code.                             *)
LEMMA OneUses ==
    ASSUME RequestsKnow, LocksApart, NEW c \in Clients, NEW d \in Clients, NEW u, NEW v,
           Uses(c, u), Uses(d, v)
    PROVE  c = d
  <1>1. PromoLocks \subseteq procs[c].locks /\ PromoLocks \subseteq procs[d].locks
    BY DEF RequestsKnow, Knows, Uses
  <1> QED
    BY <1>1 DEF LocksApart, PromoLocks

(* Nobody does while the lock of the code is free.                         *)
LEMMA NobodyUses ==
    ASSUME RequestsKnow, NEW locks, Free(locks), PromoLocks \subseteq locks,
           NEW c \in Clients, NEW u
    PROVE  ~Uses(c, u)
  <1> SUFFICES ASSUME Uses(c, u) PROVE FALSE
    OBVIOUS
  <1>1. PromoLocks \subseteq procs[c].locks
    BY DEF RequestsKnow, Knows, Uses
  <1> QED
    BY <1>1 DEF Free, PromoLocks

(* How rows may change: a screenshot stays, and one that cannot come any   *)
(* more does not.                                                          *)
Later ==
    \A p \in Intents :
        /\ payments[p].status # "none" => payments'[p].status # "none"
        /\ payments[p].evidence # None \/ payments[p].expired =>
             payments'[p].evidence = payments[p].evidence
        /\ payments[p].expired => payments'[p].expired

(* An object that is lost stays lost.                                      *)
LEMMA LostStays ==
    ASSUME Later, NEW object \in Uploads, Lost(object)
    PROVE  Lost(object)'
  <1>1. object[1] \in Intents
    BY UploadsAssumption
  <1> QED
    BY <1>1 DEF Later, Lost

(* What a request knows while others work.                                 *)
LEMMA KnowsKept ==
    ASSUME NEW c \in Clients, Knows(c), procs'[c] = procs[c], Later,
           procs[c].phase = "creating" => payments'[procs[c].payment].status = "none",
           dropped \subseteq dropped',
           \A object \in objects : object \in objects' \cup dropped' \/ Lost(object)'
    PROVE  Knows(c)'
  <1>1. ASSUME procs[c].phase \in {"putting", "stored", "deleting"}
        PROVE  procs[c].object \in Uploads /\ procs[c].object[1] \in Intents
    BY <1>1, UploadsAssumption DEF Knows
  <1>2. procs[c].phase \in {"putting", "stored"} => payments'[procs[c].object[1]].status # "none"
    BY <1>1 DEF Knows, Later
  <1>3. procs[c].phase = "stored" =>
          procs[c].object \in objects' \cup dropped' \/ Lost(procs[c].object)'
    BY <1>1, LostStays DEF Knows
  <1>4. procs[c].phase = "deleting" => procs[c].object \in dropped' \/ Lost(procs[c].object)'
    BY <1>1, LostStays DEF Knows
  <1> QED
    BY <1>2, <1>3, <1>4 DEF Knows, Lost

-----------------------------------------------------------------------------
(* The invariant *)

(* The invariant holds at first.                                           *)
LEMMA InvInit == Init => IInv
  <1> SUFFICES ASSUME Init PROVE IInv
    OBVIOUS
  <1>1. TypeOK
    BY DEF Init, TypeOK
  <1>2. RequestsKnow /\ LocksApart /\ EvidenceKept
    BY DEF Init, RequestsKnow, Knows, LocksApart, EvidenceKept, Idle, Phases
  <1>3. WithinLimits
    <2>1. InTime = {} /\ \A u \in Users : InTimeOf(u) = {}
      BY DEF Init, InTime, InTimeOf
    <2>2. Cardinality({}) = 0
      BY FS_EmptySet
    <2>3. SumOf(redeemed, Users) = 0
      BY FiniteAssumption, SumZero DEF Init
    <2>4. promo.limit \in Nat \ {0} /\ PerUserLimit \in Nat \ {0}
      BY LimitsAssumption DEF Init
    <2>5. \A c \in Clients, u \in Users : ~Uses(c, u)
      BY DEF Init, Uses, Idle
    <2>6. Used = 0 /\ \A u \in Users : UsedBy(u) = 0
      BY <2>1, <2>2, <2>3 DEF Used, UsedBy, Init
    <2> QED
      BY <2>4, <2>5, <2>6 DEF WithinLimits
  <1> QED
    BY <1>1, <1>2, <1>3 DEF IInv

(* A step of a request that decides nothing about the code or a payment.   *)
LEMMA QuietInv ==
    ASSUME IInv, NEW c \in Clients, NEW state, Become(c, state),
           UNCHANGED <<promo, payments, redeemed>>,
           state.phase \notin {"creating", "redeeming"}, state.locks = {}, Knows(c)',
           objects' \subseteq Uploads, dropped' \subseteq Uploads, dropped \subseteq dropped',
           \A object \in objects : object \in objects' \cup dropped' \/ Lost(object)
    PROVE  IInv'
  <1>1. /\ DOMAIN procs' = Clients
        /\ \A d \in Clients : procs'[d] = IF d = c THEN state ELSE procs[d]
    BY Becomes DEF IInv
  <1>2. TypeOK'
    BY DEF IInv, TypeOK
  <1>3. Later
    BY DEF Later
  <1>4. ASSUME NEW object \in objects
        PROVE  object \in objects' \cup dropped' \/ Lost(object)'
    BY DEF Lost
  <1>5. RequestsKnow'
    <2>1. ASSUME NEW d \in Clients, d # c PROVE Knows(d)'
      BY <1>1, <1>3, <1>4, <2>1, KnowsKept DEF IInv, RequestsKnow, Knows
    <2> QED
      BY <1>1, <2>1 DEF RequestsKnow
  <1>6. LocksApart'
    BY <1>1 DEF IInv, LocksApart
  <1>7. WithinLimits'
    <2>1. InTime' = InTime /\ \A u \in Users : InTimeOf(u)' = InTimeOf(u)
      BY DEF InTime, InTimeOf
    <2>2. \A d \in Clients, u \in Users : Uses(d, u)' => Uses(d, u)
      BY <1>1 DEF Uses
    <2> QED
      BY <1>2, <2>1, <2>2, LimitsKept DEF IInv
  <1>8. EvidenceKept'
    <2>1. ASSUME NEW p \in Intents, payments[p].evidence # None
          PROVE  <<p, payments[p].evidence>> \in objects' \cup dropped'
      <3> DEFINE object == <<p, payments[p].evidence>>
      <3>1. ~Lost(object)
        BY DEF Lost
      <3>2. object \in objects \cup dropped
        BY <2>1 DEF IInv, EvidenceKept
      <3> QED
        BY <3>1, <3>2
    <2> QED
      BY <2>1 DEF EvidenceKept
  <1> QED
    BY <1>2, <1>5, <1>6, <1>7, <1>8 DEF IInv

(* Every step of an upload but the one that commits, and a crash.          *)
LEMMA UploadInv ==
    ASSUME IInv, NEW c \in Clients,
           \/ \E upload \in Uploads : Upload(c, upload[1], upload[2])
           \/ Put(c) \/ FailUpload(c) \/ Delete(c) \/ Crash(c)
    PROVE  IInv'
  <1>1. objects \subseteq Uploads /\ dropped \subseteq Uploads
    BY DEF IInv, TypeOK
  <1>2. Knows(c)
    BY DEF IInv, RequestsKnow
  <1>3. ASSUME NEW state, Become(c, state) PROVE procs'[c] = state
    BY <1>3, Becomes DEF IInv
  <1>4. CASE \E upload \in Uploads : Upload(c, upload[1], upload[2])
    <2>1. PICK upload \in Uploads : Upload(c, upload[1], upload[2])
      BY <1>4
    <2> DEFINE state == [phase |-> "putting", locks |-> {}, object |-> <<upload[1], upload[2]>>]
    <2>2. /\ Become(c, state) /\ Uploadable(upload[1])
          /\ UNCHANGED <<promo, payments, redeemed, objects, dropped>>
      BY <2>1 DEF Upload, store
    <2>3. upload = <<upload[1], upload[2]>> /\ upload[1] \in Intents
      BY UploadsAssumption
    <2>4. /\ state \in [phase : Phases, locks : {{}}, object : Uploads]
          /\ state.phase = "putting" /\ state.object = upload /\ state.locks = {}
      BY <2>3 DEF Phases
    <2> HIDE DEF state
    <2>5. procs'[c] = state
      BY <1>3, <2>2
    <2>6. payments'[upload[1]].status # "none"
      BY <2>2 DEF Uploadable
    <2>7. Knows(c)'
      BY <2>4, <2>5, <2>6 DEF Knows, Phases
    <2> QED
      BY <1>1, <2>2, <2>4, <2>7, QuietInv
  <1>5. CASE Put(c)
    <2> DEFINE state == [procs[c] EXCEPT !.phase = "stored"]
    <2>1. /\ procs[c].phase = "putting" /\ Become(c, state)
          /\ objects' = objects \cup {procs[c].object}
          /\ UNCHANGED <<promo, payments, redeemed, dropped>>
      BY <1>5 DEF Put
    <2>2. procs[c] \in [phase : Phases, locks : {{}}, object : Uploads]
      BY <1>2, <2>1 DEF Knows
    <2>3. /\ state \in [phase : Phases, locks : {{}}, object : Uploads]
          /\ state.phase = "stored" /\ state.object = procs[c].object /\ state.locks = {}
      BY <2>2 DEF Phases
    <2> HIDE DEF state
    <2>4. procs'[c] = state
      BY <1>3, <2>1
    <2>5. payments'[procs[c].object[1]].status # "none"
      BY <1>2, <2>1 DEF Knows
    <2>6. Knows(c)'
      BY <2>1, <2>3, <2>4, <2>5 DEF Knows, Phases
    <2>7. objects' \subseteq Uploads
      BY <1>1, <2>1, <2>2
    <2> QED
      BY <1>1, <2>1, <2>3, <2>6, <2>7, QuietInv
  <1>6. CASE FailUpload(c)
    <2> DEFINE state == [procs[c] EXCEPT !.phase = "deleting"]
    <2>1. /\ procs[c].phase = "stored" /\ Become(c, state)
          /\ dropped' = dropped \cup {procs[c].object}
          /\ UNCHANGED <<promo, payments, redeemed, objects>>
      BY <1>6 DEF FailUpload
    <2>2. procs[c] \in [phase : Phases, locks : {{}}, object : Uploads]
      BY <1>2, <2>1 DEF Knows
    <2>3. /\ state \in [phase : Phases, locks : {{}}, object : Uploads]
          /\ state.phase = "deleting" /\ state.object = procs[c].object /\ state.locks = {}
      BY <2>2 DEF Phases
    <2> HIDE DEF state
    <2>4. procs'[c] = state
      BY <1>3, <2>1
    <2>5. Knows(c)'
      BY <2>1, <2>3, <2>4 DEF Knows, Phases
    <2>6. dropped' \subseteq Uploads
      BY <1>1, <2>1, <2>2
    <2> QED
      BY <1>1, <2>1, <2>3, <2>5, <2>6, QuietInv
  <1>7. ASSUME Become(c, Idle), UNCHANGED <<promo, payments, redeemed, dropped>>,
               objects' \subseteq Uploads,
               \A object \in objects : object \in objects' \cup dropped' \/ Lost(object)
        PROVE  IInv'
    <2>1. procs'[c] = Idle /\ Idle.phase = "idle" /\ Idle.locks = {}
      BY <1>3, <1>7 DEF Idle
    <2>2. Knows(c)'
      BY <2>1 DEF Knows, Phases
    <2> QED
      BY <1>1, <1>7, <2>1, <2>2, QuietInv
  <1>8. CASE Delete(c)
    <2>1. procs[c].object \in dropped \/ Lost(procs[c].object)
      BY <1>2, <1>8 DEF Delete, Knows
    <2> QED
      BY <1>1, <1>7, <1>8, <2>1 DEF Delete
  <1>9. CASE Crash(c)
    BY <1>1, <1>7, <1>9 DEF Crash, store
  <1> QED
    BY <1>4, <1>5, <1>6, <1>8, <1>9

(* A request checks the limits under the lock of the code before it uses   *)
(* it: from then on there is room for the one use.                         *)
LEMMA ReserveInv ==
    ASSUME IInv, NEW c \in Clients, NEW state, Become(c, state),
           UNCHANGED <<promo, payments, redeemed, store>>, Free(state.locks), Knows(c)',
           \A u \in Users : Uses(c, u)' => Available(u)
    PROVE  IInv'
  <1>1. /\ DOMAIN procs' = Clients
        /\ \A d \in Clients : procs'[d] = IF d = c THEN state ELSE procs[d]
    BY Becomes DEF IInv
  <1>2. TypeOK'
    BY DEF IInv, TypeOK, store
  <1>3. Later
    BY DEF Later
  <1>4. RequestsKnow'
    <2>1. ASSUME NEW d \in Clients, d # c PROVE Knows(d)'
      BY <1>1, <1>3, <2>1, KnowsKept DEF IInv, RequestsKnow, Knows, store
    <2> QED
      BY <1>1, <2>1 DEF RequestsKnow
  <1>5. LocksApart'
    BY <1>1 DEF IInv, LocksApart, Free
  <1>6. WithinLimits'
    <2>1. InTime' = InTime /\ \A u \in Users : InTimeOf(u)' = InTimeOf(u)
      BY DEF InTime, InTimeOf
    <2>2. Used' = Used /\ \A u \in Users : UsedBy(u)' = UsedBy(u)
      BY <2>1 DEF Used, UsedBy
    <2>3. Countable
      BY Counts DEF IInv
    <2>4. promo.limit \in Nat /\ PerUserLimit \in Nat /\ redeemed \in [Users -> Nat]
      BY LimitsAssumption, RowTypes DEF IInv
    <2>5. ASSUME NEW d \in Clients, NEW u \in Users, Uses(d, u)'
          PROVE  Used < promo.limit /\ UsedBy(u) < PerUserLimit
      <3>1. CASE d # c
        <4>1. Uses(d, u)
          BY <1>1, <2>5, <3>1 DEF Uses
        <4> QED
          BY <4>1 DEF IInv, WithinLimits
      <3>2. CASE d = c
        <4>1. /\ Usage < promo.limit
              /\ Cardinality(CountedOf(u)) + redeemed[u] < PerUserLimit
          BY <2>5, <3>2 DEF Available
        <4>2. /\ Used \in Nat /\ Usage \in Nat /\ Used <= Usage /\ UsedBy(u) \in Nat
              /\ UsedBy(u) <= Cardinality(CountedOf(u)) + redeemed[u]
              /\ Cardinality(CountedOf(u)) \in Nat /\ redeemed[u] \in Nat
          BY <2>3, <2>4 DEF Countable
        <4>3. Cardinality(CountedOf(u)) + redeemed[u] \in Nat
          BY <4>2
        <4> QED
          BY <2>4, <4>1, <4>2, <4>3
      <3> QED
        BY <3>1, <3>2
    <2> QED
      BY <2>2, <2>5 DEF IInv, WithinLimits
  <1>7. EvidenceKept'
    BY DEF IInv, EvidenceKept, store
  <1> QED
    BY <1>2, <1>4, <1>5, <1>6, <1>7 DEF IInv

(* An intent is about to be created, with or without the code.             *)
LEMMA CreateInv ==
    ASSUME IInv, NEW c \in Clients, NEW p \in Intents, NEW discounted \in BOOLEAN,
           CreateIntent(c, p, discounted)
    PROVE  IInv'
  <1> DEFINE locks == {p} \cup IF discounted THEN PromoLocks ELSE {}
             state == [phase |-> "creating", payment |-> p, discounted |-> discounted,
                       locks |-> locks]
  <1>1. /\ Become(c, state) /\ Free({p}) /\ payments[p].status = "none"
        /\ discounted => Free(PromoLocks) /\ Available(UserOf[p])
        /\ UNCHANGED <<promo, payments, redeemed, store>>
    BY DEF CreateIntent
  <1>2. Free(locks)
    <2>1. CASE discounted
      BY <1>1, <2>1 DEF Free
    <2>2. CASE ~discounted
      BY <1>1, <2>2 DEF Free
    <2> QED
      BY <2>1, <2>2
  <1>3. /\ state.phase = "creating" /\ state.payment = p /\ state.locks = locks
        /\ state.discounted = discounted
    OBVIOUS
  <1>4. p \in locks /\ (discounted => PromoLocks \subseteq locks)
    OBVIOUS
  <1> HIDE DEF locks, state
  <1>5. procs'[c] = state
    BY <1>1, Becomes DEF IInv
  <1>6. Knows(c)'
    BY <1>1, <1>3, <1>4, <1>5 DEF Knows, Phases, PromoLocks
  <1>7. ASSUME NEW u \in Users, Uses(c, u)' PROVE Available(u)
    BY <1>1, <1>3, <1>5, <1>7 DEF Uses
  <1> QED
    BY <1>1, <1>2, <1>3, <1>6, <1>7, ReserveInv

(* A user is about to redeem free days.                                    *)
LEMMA RedeemInv ==
    ASSUME IInv, NEW c \in Clients, NEW u \in Users, RedeemFreeDays(c, u)
    PROVE  IInv'
  <1> DEFINE locks == PromoLocks \cup {u}
             state == [phase |-> "redeeming", locks |-> locks, user |-> u]
  <1>1. /\ Become(c, state) /\ Free(locks) /\ Available(u)
        /\ UNCHANGED <<promo, payments, redeemed, store>>
    BY DEF RedeemFreeDays
  <1>2. /\ state.phase = "redeeming" /\ state.locks = locks /\ state.user = u
        /\ PromoLocks \subseteq locks
    OBVIOUS
  <1> HIDE DEF locks, state
  <1>3. procs'[c] = state
    BY <1>1, Becomes DEF IInv
  <1>4. Knows(c)'
    BY <1>2, <1>3 DEF Knows, Phases, PromoLocks
  <1>5. ASSUME NEW v \in Users, Uses(c, v)' PROVE Available(v)
    BY <1>1, <1>2, <1>3, <1>5 DEF Uses
  <1> QED
    BY <1>1, <1>2, <1>4, <1>5, ReserveInv

(* The new intent uses the code once, as was left room for.                *)
LEMMA CommitIntentInv ==
    ASSUME IInv, NEW c \in Clients, CommitIntent(c)
    PROVE  IInv'
  <1>0. PICK p \in Intents : p = procs[c].payment
    BY DEF CommitIntent, IInv, RequestsKnow, Knows
  <1> DEFINE row == [payments[p] EXCEPT !.status = "awaiting_upload",
                                        !.discounted = procs[c].discounted]
  <1>1. /\ procs[c].phase = "creating" /\ Become(c, Idle)
        /\ payments' = [payments EXCEPT ![p] = row]
        /\ UNCHANGED <<promo, redeemed, store>>
    BY <1>0 DEF CommitIntent
  <1>2. /\ p \in Intents /\ procs[c].discounted \in BOOLEAN /\ p \in procs[c].locks
        /\ payments[p].status = "none"
    BY <1>0, <1>1 DEF IInv, RequestsKnow, Knows
  <1>3. payments \in [Intents -> Rows]
    BY RowTypes DEF IInv
  <1>4. /\ row \in Rows /\ row.status = "awaiting_upload"
        /\ row.discounted = procs[c].discounted
        /\ row.expired = payments[p].expired /\ row.evidence = payments[p].evidence
    BY <1>2, <1>3 DEF Rows, Statuses
  <1>5. payments[p].evidence = None
    BY <1>2 DEF IInv, TypeOK
  <1> HIDE DEF row
  <1>6. \A q \in Intents : payments'[q] = IF q = p THEN row ELSE payments[q]
    BY <1>1, <1>3
  <1>7. /\ DOMAIN procs' = Clients
        /\ \A d \in Clients : procs'[d] = IF d = c THEN Idle ELSE procs[d]
    BY <1>1, Becomes DEF IInv
  <1>8. TypeOK'
    <2>1. payments' \in [Intents -> Rows]
      BY <1>1, <1>2, <1>3, <1>4
    <2>2. \A q \in Intents :
            /\ payments'[q].status = "rejected" => ~payments'[q].discounted
            /\ payments'[q].evidence = None <=> payments'[q].status \in {"none", "awaiting_upload"}
      BY <1>4, <1>5, <1>6 DEF IInv, TypeOK
    <2> QED
      BY <1>1, <2>1, <2>2 DEF IInv, TypeOK, Rows, Statuses, store
  <1>9. Later
    BY <1>4, <1>6 DEF Later
  <1>10. RequestsKnow'
    <2>1. ASSUME NEW d \in Clients, d # c PROVE Knows(d)'
      <3>1. procs[d].phase = "creating" => payments'[procs[d].payment].status = "none"
        <4>1. procs[d].phase = "creating" =>
                /\ procs[d].payment \in procs[d].locks /\ procs[d].payment \in Intents
                /\ payments[procs[d].payment].status = "none"
          BY DEF IInv, RequestsKnow, Knows
        <4>2. procs[d].phase = "creating" => procs[d].payment # p
          BY <1>2, <2>1, <4>1 DEF IInv, LocksApart
        <4> QED
          BY <1>6, <4>1, <4>2
      <3>2. Knows(d) /\ procs'[d] = procs[d]
        BY <1>7, <2>1 DEF IInv, RequestsKnow
      <3> QED
        BY <1>1, <1>9, <3>1, <3>2, KnowsKept DEF store
    <2>2. Knows(c)'
      BY <1>7 DEF Knows, Idle, Phases
    <2> QED
      BY <1>7, <2>1, <2>2 DEF RequestsKnow
  <1>11. LocksApart'
    BY <1>7 DEF IInv, LocksApart, Idle
  <1>12. WithinLimits'
    <2>1. \A d \in Clients, u \in Users : Uses(d, u)' => d # c /\ Uses(d, u)
      <3>1. ASSUME NEW d \in Clients, NEW u \in Users, Uses(d, u)' PROVE d # c /\ Uses(d, u)
        BY <1>7, <3>1 DEF Uses, Idle
      <3> QED
        BY <3>1
    <2>2. CASE ~procs[c].discounted
      <3>1. InTime' \subseteq InTime /\ \A u \in Users : InTimeOf(u)' \subseteq InTimeOf(u)
        BY <1>4, <1>6, <2>2 DEF InTime, InTimeOf
      <3> QED
        BY <1>1, <1>8, <2>1, <3>1, LimitsKept DEF IInv
    <2>3. CASE procs[c].discounted
      <3> DEFINE owner == UserOf[p]
      <3>1. owner \in Users /\ Uses(c, owner)
        BY <1>0, <1>1, <1>2, <2>3, RowTypes DEF IInv, Uses
      <3>2. \A d \in Clients, u \in Users : ~Uses(d, u)'
        BY <2>1, <3>1, OneUses DEF IInv
      <3>3. /\ InTime' \subseteq InTime \cup {p}
            /\ InTimeOf(owner)' \subseteq InTimeOf(owner) \cup {p}
            /\ \A u \in Users : u # owner => InTimeOf(u)' \subseteq InTimeOf(u)
        BY <1>6 DEF InTime, InTimeOf
      <3>4. Countable /\ Countable'
        <4>1. TypeOK
          BY DEF IInv
        <4> QED
          BY <1>8, <4>1, Counts, PTL
      <3>5. promo.limit \in Nat /\ PerUserLimit \in Nat /\ redeemed \in [Users -> Nat]
        BY LimitsAssumption, RowTypes DEF IInv
      <3>6. Cardinality(InTime') <= Cardinality(InTime) + 1
        BY <3>3, <3>4, OneMore DEF Countable
      <3>7. ASSUME NEW u \in Users
            PROVE  Cardinality(InTimeOf(u)') <= Cardinality(InTimeOf(u)) + IF u = owner THEN 1 ELSE 0
        <4>1. IsFiniteSet(InTimeOf(u)) /\ Cardinality(InTimeOf(u)) \in Nat
          BY <3>4 DEF Countable
        <4>2. CASE u # owner
          <5>1. Cardinality(InTimeOf(u)') <= Cardinality(InTimeOf(u))
            BY <3>3, <4>1, <4>2, FS_Subset
          <5> QED
            BY <4>1, <4>2, <5>1
        <4>3. CASE u = owner
          <5>1. InTimeOf(u)' \subseteq InTimeOf(u) \cup {p}
            BY <3>3, <4>3
          <5>2. Cardinality(InTimeOf(u)') <= Cardinality(InTimeOf(u)) + 1
            BY <4>1, <5>1, OneMore
          <5> QED
            BY <4>3, <5>2
        <4> QED
          BY <4>2, <4>3
      <3>8. Used' <= promo'.limit
        <4>1. Used < promo.limit
          BY <3>1 DEF IInv, WithinLimits
        <4>2. /\ Used \in Nat /\ Cardinality(InTime) \in Nat /\ Cardinality(InTime)' \in Nat
              /\ SumOf(redeemed, Users) \in Nat
          BY <3>4 DEF Countable
        <4> QED
          BY <1>1, <3>5, <3>6, <4>1, <4>2 DEF Used
      <3>9. ASSUME NEW u \in Users PROVE UsedBy(u)' <= PerUserLimit
        <4>1. UsedBy(u) <= PerUserLimit /\ (u = owner => UsedBy(u) < PerUserLimit)
          BY <3>1 DEF IInv, WithinLimits
        <4>2. /\ UsedBy(u) \in Nat /\ Cardinality(InTimeOf(u)) \in Nat
              /\ Cardinality(InTimeOf(u))' \in Nat /\ redeemed[u] \in Nat
          BY <3>4, <3>5 DEF Countable
        <4>3. UsedBy(u)' = Cardinality(InTimeOf(u)') + redeemed[u]
          BY <1>1 DEF UsedBy
        <4> QED
          BY <3>5, <3>7, <4>1, <4>2, <4>3 DEF UsedBy
      <3> QED
        BY <3>2, <3>8, <3>9 DEF WithinLimits
    <2> QED
      BY <1>2, <2>2, <2>3
  <1>13. EvidenceKept'
    BY <1>1, <1>4, <1>5, <1>6 DEF IInv, EvidenceKept, store
  <1> QED
    BY <1>8, <1>10, <1>11, <1>12, <1>13 DEF IInv

(* A redemption uses the code once, as was left room for.                  *)
LEMMA CommitRedemptionInv ==
    ASSUME IInv, NEW c \in Clients, CommitRedemption(c)
    PROVE  IInv'
  <1> DEFINE owner == procs[c].user
  <1>1. /\ procs[c].phase = "redeeming" /\ Become(c, Idle)
        /\ redeemed' = [redeemed EXCEPT ![owner] = @ + 1]
        /\ UNCHANGED <<promo, payments, store>>
    BY DEF CommitRedemption
  <1>2. owner \in Users /\ redeemed \in [Users -> Nat]
    BY <1>1, RowTypes DEF IInv, RequestsKnow, Knows
  <1>3. /\ DOMAIN procs' = Clients
        /\ \A d \in Clients : procs'[d] = IF d = c THEN Idle ELSE procs[d]
    BY <1>1, Becomes DEF IInv
  <1>4. redeemed' \in [Users -> Nat] /\
        \A u \in Users : redeemed'[u] = IF u = owner THEN redeemed[u] + 1 ELSE redeemed[u]
    BY <1>1, <1>2
  <1>5. TypeOK'
    BY <1>1, <1>4 DEF IInv, TypeOK, store
  <1>6. Later
    BY <1>1 DEF Later
  <1>7. RequestsKnow'
    <2>1. ASSUME NEW d \in Clients, d # c PROVE Knows(d)'
      BY <1>1, <1>3, <1>6, <2>1, KnowsKept DEF IInv, RequestsKnow, Knows, store
    <2>2. Knows(c)'
      BY <1>3 DEF Knows, Idle, Phases
    <2> QED
      BY <1>3, <2>1, <2>2 DEF RequestsKnow
  <1>8. LocksApart'
    BY <1>3 DEF IInv, LocksApart, Idle
  <1>9. WithinLimits'
    <2>1. Uses(c, owner)
      BY <1>1 DEF Uses
    <2>2. ASSUME NEW d \in Clients, NEW u \in Users, Uses(d, u)' PROVE FALSE
      <3>1. d # c /\ Uses(d, u)
        BY <1>3, <2>2 DEF Uses, Idle
      <3> QED
        BY <2>1, <3>1, OneUses DEF IInv
    <2>3. InTime' = InTime /\ \A u \in Users : InTimeOf(u)' = InTimeOf(u)
      BY <1>1 DEF InTime, InTimeOf
    <2>4. Countable
      BY Counts DEF IInv
    <2>5. SumOf(redeemed', Users) = SumOf(redeemed, Users) + 1
      <3>1. SumOf(redeemed', Users) = SumOf(redeemed, Users) - redeemed[owner] + redeemed'[owner]
        <4>1. \A u \in Users : /\ redeemed[u] \in Int /\ redeemed'[u] \in Int
                               /\ u # owner => redeemed[u] = redeemed'[u]
          BY <1>2, <1>4
        <4> HIDE DEF owner
        <4> QED
          BY <1>2, <4>1, FiniteAssumption, SumChange
      <3>2. redeemed[owner] \in Nat /\ redeemed'[owner] = redeemed[owner] + 1
        BY <1>2, <1>4
      <3>3. SumOf(redeemed, Users) \in Nat
        BY <2>4 DEF Countable
      <3> QED
        BY <3>1, <3>2, <3>3
    <2>6. promo.limit \in Nat /\ PerUserLimit \in Nat
      BY LimitsAssumption, RowTypes DEF IInv
    <2>7. Used' <= promo'.limit
      <3>1. Used < promo.limit
        BY <1>2, <2>1 DEF IInv, WithinLimits
      <3>2. /\ Used \in Nat /\ Cardinality(InTime) \in Nat /\ SumOf(redeemed, Users) \in Nat
        BY <2>4 DEF Countable
      <3> QED
        BY <1>1, <2>3, <2>5, <2>6, <3>1, <3>2 DEF Used
    <2>8. ASSUME NEW u \in Users PROVE UsedBy(u)' <= PerUserLimit
      <3>1. UsedBy(u) <= PerUserLimit /\ (u = owner => UsedBy(u) < PerUserLimit)
        BY <1>2, <2>1 DEF IInv, WithinLimits
      <3>2. Cardinality(InTimeOf(u)) \in Nat /\ redeemed[u] \in Nat
        BY <1>2, <2>4 DEF Countable
      <3> QED
        BY <1>4, <2>3, <2>6, <3>1, <3>2 DEF UsedBy
    <2> QED
      BY <2>2, <2>7, <2>8 DEF WithinLimits
  <1>10. EvidenceKept'
    BY <1>1 DEF IInv, EvidenceKept, store
  <1> QED
    BY <1>5, <1>7, <1>8, <1>9, <1>10 DEF IInv

(* An administrator lowers no limit below what is used, and changes        *)
(* nothing while a request holds the lock of the code.                     *)
LEMMA CodeInv ==
    ASSUME IInv, ArchiveCode \/ \E active \in BOOLEAN, limit \in Limits : UpdateCode(active, limit)
    PROVE  IInv'
  <1>1. PICK active \in BOOLEAN, limit \in Limits :
          /\ Free(PromoLocks) /\ (limit # promo.limit => limit >= Usage)
          /\ promo' = [promo EXCEPT !.active = active, !.limit = limit]
          /\ UNCHANGED <<payments, redeemed, store, procs>>
    <2>1. CASE ArchiveCode
      <3> DEFINE same == promo.limit
      <3>1. promo' = [promo EXCEPT !.active = FALSE, !.limit = same] /\ same \in Limits
        BY <2>1 DEF ArchiveCode, IInv, TypeOK
      <3> QED
        BY <2>1, <3>1 DEF ArchiveCode
    <2>2. CASE \E active \in BOOLEAN, limit \in Limits : UpdateCode(active, limit)
      BY <2>2 DEF UpdateCode
    <2> QED
      BY <2>1, <2>2
  <1>2. /\ promo' \in [type : {"discount", "free"}, active : BOOLEAN, limit : Limits]
        /\ promo'.limit = limit
    BY <1>1 DEF IInv, TypeOK
  <1>3. TypeOK'
    BY <1>1, <1>2 DEF IInv, TypeOK, store
  <1>4. RequestsKnow' /\ LocksApart' /\ EvidenceKept'
    BY <1>1 DEF IInv, RequestsKnow, Knows, Lost, LocksApart, EvidenceKept, store
  <1>5. WithinLimits'
    <2>1. Used' = Used /\ \A u \in Users : UsedBy(u)' = UsedBy(u)
      BY <1>1 DEF Used, UsedBy, InTime, InTimeOf, CountedOf, Counted
    <2>2. \A c \in Clients, u \in Users : ~Uses(c, u)
      BY <1>1, NobodyUses DEF IInv
    <2>3. \A c \in Clients, u \in Users : ~Uses(c, u)'
      BY <1>1, <2>2 DEF Uses
    <2>4. Used <= limit
      <3>1. Used \in Nat /\ Usage \in Nat /\ Used <= Usage
        BY Counts DEF IInv, Countable
      <3>2. limit \in Nat
        BY LimitsAssumption
      <3> QED
        BY <1>1, <3>1, <3>2 DEF IInv, WithinLimits
    <2> QED
      BY <1>2, <2>1, <2>3, <2>4 DEF IInv, WithinLimits
  <1> QED
    BY <1>3, <1>4, <1>5 DEF IInv

(* A change of one payment that is under way: it keeps its screenshot,     *)
(* does not come to count among the uses in time, and ends at most one     *)
(* request.                                                                *)
LEMMA RowInv ==
    ASSUME IInv, NEW p \in Intents, NEW row \in Rows, payments' = [payments EXCEPT ![p] = row],
           payments[p].status # "none", row.status # "none",
           row.status = "rejected" => ~row.discounted,
           row.evidence = None <=> row.status = "awaiting_upload",
           payments[p].evidence # None \/ payments[p].expired => row.evidence = payments[p].evidence,
           row.evidence # None =>
               \/ row.evidence = payments[p].evidence
               \/ <<p, row.evidence>> \in objects \cup dropped,
           payments[p].expired => row.expired,
           row.discounted => payments[p].discounted,
           row.status = "approved" /\ ~row.late =>
               IF payments[p].status = "approved" THEN ~payments[p].late ELSE ~payments[p].expired,
           row.status # "approved" => payments[p].status # "approved",
           NEW c, UNCHANGED <<promo, redeemed, store>>,
           UNCHANGED procs \/ (c \in Clients /\ Become(c, Idle))
    PROVE  IInv'
  <1>1. payments \in [Intents -> Rows]
    BY RowTypes DEF IInv
  <1>2. \A q \in Intents : payments'[q] = IF q = p THEN row ELSE payments[q]
    BY <1>1
  <1>3. /\ DOMAIN procs' = Clients
        /\ \A d \in Clients : procs'[d] = procs[d] \/ procs'[d] = Idle
    BY Becomes DEF IInv, RequestsKnow
  <1>4. TypeOK'
    <2>1. payments' \in [Intents -> Rows]
      BY <1>1
    <2>2. \A q \in Intents :
            /\ payments'[q].status = "rejected" => ~payments'[q].discounted
            /\ payments'[q].evidence = None <=> payments'[q].status \in {"none", "awaiting_upload"}
      BY <1>2 DEF IInv, TypeOK
    <2> QED
      BY <2>1, <2>2 DEF IInv, TypeOK, Rows, Statuses, store
  <1>5. Later
    BY <1>2 DEF Later
  <1>6. RequestsKnow'
    <2>1. ASSUME NEW d \in Clients, procs'[d] = procs[d] PROVE Knows(d)'
      <3>1. procs[d].phase = "creating" => payments'[procs[d].payment].status = "none"
        BY <1>2 DEF IInv, RequestsKnow, Knows
      <3> QED
        BY <1>5, <2>1, <3>1, KnowsKept DEF IInv, RequestsKnow, store
    <2>2. ASSUME NEW d \in Clients, procs'[d] = Idle PROVE Knows(d)'
      BY <2>2 DEF Knows, Idle, Phases
    <2> QED
      BY <1>3, <2>1, <2>2 DEF RequestsKnow
  <1>7. LocksApart'
    BY <1>3 DEF IInv, LocksApart, Idle
  <1>8. WithinLimits'
    <2>1. InTime' \subseteq InTime /\ \A u \in Users : InTimeOf(u)' \subseteq InTimeOf(u)
      <3>1. ASSUME NEW q \in Intents, q \in InTime' PROVE q \in InTime
        <4>1. CASE q # p
          BY <1>2, <3>1, <4>1 DEF InTime
        <4>2. CASE q = p
          <5>1. /\ row.discounted /\ row.status # "rejected"
                /\ IF row.status = "approved" THEN ~row.late ELSE ~row.expired
            BY <1>2, <3>1, <4>2 DEF InTime
          <5>2. payments[p].status # "rejected"
            BY <5>1 DEF IInv, TypeOK
          <5> QED
            BY <4>2, <5>1, <5>2 DEF InTime
        <4> QED
          BY <4>1, <4>2
      <3>2. InTime' \subseteq Intents
        BY DEF InTime
      <3>3. InTime' \subseteq InTime
        BY <3>1, <3>2
      <3>4. \A u \in Users : InTimeOf(u)' = {q \in InTime' : UserOf[q] = u}
        BY DEF InTimeOf
      <3> QED
        BY <3>3, <3>4 DEF InTimeOf
    <2>2. \A d \in Clients, u \in Users : Uses(d, u)' => Uses(d, u)
      BY <1>3 DEF Uses, Idle
    <2> QED
      BY <1>4, <2>1, <2>2, LimitsKept DEF IInv
  <1>9. EvidenceKept'
    <2>1. ASSUME NEW q \in Intents, payments'[q].evidence # None
          PROVE  <<q, payments'[q].evidence>> \in objects \cup dropped
      BY <1>2, <2>1 DEF IInv, EvidenceKept
    <2> QED
      BY <2>1 DEF EvidenceKept, store
  <1> QED
    BY <1>4, <1>6, <1>7, <1>8, <1>9 DEF IInv

(* The clock, the analysis and the reviewer.                               *)
LEMMA ReviewInv ==
    ASSUME IInv, NEW p \in Intents,
           Expire(p) \/ Claim(p) \/ \E status \in {"approved", "rejected"} : Decide(p, status)
    PROVE  IInv'
  <1>1. payments[p] \in Rows
    BY RowTypes DEF IInv
  <1>2. payments[p].evidence = None <=> payments[p].status \in {"none", "awaiting_upload"}
    BY DEF IInv, TypeOK
  <1>3. payments[p].status = "rejected" => ~payments[p].discounted
    BY DEF IInv, TypeOK
  <1>4. CASE Expire(p)
    <2> DEFINE row == [payments[p] EXCEPT !.expired = TRUE]
    <2>1. /\ payments' = [payments EXCEPT ![p] = row] /\ payments[p].status # "none"
          /\ UNCHANGED <<promo, redeemed, store, procs>>
      BY <1>4 DEF Expire
    <2>2. /\ row \in Rows /\ row.status = payments[p].status /\ row.expired
          /\ row.late = payments[p].late
          /\ row.evidence = payments[p].evidence /\ row.discounted = payments[p].discounted
      BY <1>1 DEF Rows
    <2> HIDE DEF row
    <2> QED
      BY <1>2, <1>3, <2>1, <2>2, RowInv
  <1>5. CASE Claim(p)
    <2> DEFINE row == [payments[p] EXCEPT !.status = "in_review"]
    <2>1. /\ payments' = [payments EXCEPT ![p] = row] /\ payments[p].status = "uploaded"
          /\ UNCHANGED <<promo, redeemed, store, procs>>
      BY <1>5 DEF Claim
    <2>2. /\ row \in Rows /\ row.status = "in_review" /\ row.expired = payments[p].expired
          /\ row.evidence = payments[p].evidence /\ row.discounted = payments[p].discounted
      BY <1>1 DEF Rows, Statuses
    <2> HIDE DEF row
    <2> QED
      BY <1>2, <1>3, <2>1, <2>2, RowInv
  <1>6. ASSUME NEW status \in {"approved", "rejected"}, Decide(p, status) PROVE IInv'
    <2> DEFINE row == [payments[p] EXCEPT !.status = status,
                                          !.discounted = @ /\ status # "rejected",
                                          !.late = status = "approved" /\ payments[p].expired]
    <2>1. /\ payments' = [payments EXCEPT ![p] = row] /\ payments[p].status = "in_review"
          /\ UNCHANGED <<promo, redeemed, store, procs>>
      BY <1>6 DEF Decide
    <2>2. /\ row \in Rows /\ row.status = status /\ row.expired = payments[p].expired
          /\ row.evidence = payments[p].evidence
          /\ row.discounted => payments[p].discounted
          /\ status = "rejected" => ~row.discounted
          /\ status = "approved" => row.late = payments[p].expired
      BY <1>1 DEF Rows, Statuses
    <2> HIDE DEF row
    <2> QED
      BY <1>2, <1>3, <2>1, <2>2, RowInv
  <1> QED
    BY <1>4, <1>5, <1>6

(* The upload that commits names an object that is there, or whose         *)
(* transaction the database failed; one that lost a race deletes its own   *)
(* object only when no payment names it.                                   *)
LEMMA CommitUploadInv ==
    ASSUME IInv, NEW c \in Clients, CommitUpload(c)
    PROVE  IInv'
  <1> DEFINE object == procs[c].object
  <1>1. Knows(c) /\ procs[c].phase = "stored"
    BY DEF CommitUpload, IInv, RequestsKnow
  <1>2. /\ procs[c] \in [phase : Phases, locks : {{}}, object : Uploads]
        /\ payments[object[1]].status # "none"
        /\ object \in objects \cup dropped \/ Lost(object)
    BY <1>1 DEF Knows
  <1>3. PICK p \in Intents, content \in Contents : object = <<p, content>>
    BY <1>2, UploadsAssumption
  <1>4. object[1] = p /\ object[2] = content /\ object \in Uploads
    BY <1>2, <1>3
  <1>5. payments[p] \in Rows
    BY RowTypes DEF IInv
  <1>6. payments[p].evidence = None <=> payments[p].status \in {"none", "awaiting_upload"}
    BY DEF IInv, TypeOK
  <1>7. CASE payments[p].evidence = None /\ Uploadable(p)
    <2> DEFINE row == [payments[p] EXCEPT !.evidence = content, !.status = "uploaded"]
    <2>1. /\ payments' = [payments EXCEPT ![p] = row] /\ Become(c, Idle)
          /\ UNCHANGED <<promo, redeemed, store>>
      BY <1>4, <1>7 DEF CommitUpload
    <2>2. /\ row \in Rows /\ row.status = "uploaded" /\ row.expired = payments[p].expired
          /\ row.evidence = content /\ row.discounted = payments[p].discounted
          /\ content # None
      BY <1>5, NoneAssumption DEF Rows, Statuses
    <2> HIDE DEF row
    <2>3. ~payments[p].expired
      BY <1>7 DEF Uploadable
    <2>4. ~Lost(object)
      BY <1>4, <1>7, <2>3 DEF Lost
    <2>5. <<p, content>> \in objects \cup dropped
      BY <1>2, <1>3, <2>4
    <2>6. payments[p].status # "none" /\ payments[p].status # "approved"
      BY <1>2, <1>4, <1>7 DEF Uploadable
    <2> QED
      BY <1>7, <2>1, <2>2, <2>3, <2>5, <2>6, RowInv
  <1>8. CASE ~(payments[p].evidence = None /\ Uploadable(p))
    <2>1. /\ Become(c, IF RacedSame(procs[c]) THEN Idle ELSE [procs[c] EXCEPT !.phase = "deleting"])
          /\ UNCHANGED <<promo, payments, redeemed, store>>
      BY <1>4, <1>8 DEF CommitUpload
    <2>2. objects' = objects /\ dropped' = dropped /\ objects \subseteq Uploads /\ dropped \subseteq Uploads
      BY <2>1 DEF store, IInv, TypeOK
    <2>3. CASE RacedSame(procs[c])
      <3>1. Become(c, Idle) /\ Idle.phase = "idle" /\ Idle.locks = {}
        BY <2>1, <2>3 DEF Idle
      <3>2. procs'[c] = Idle
        BY <3>1, Becomes DEF IInv
      <3>3. Knows(c)'
        BY <3>1, <3>2 DEF Knows, Phases
      <3> QED
        BY <2>1, <2>2, <3>1, <3>3, QuietInv
    <2>4. CASE ~RacedSame(procs[c])
      <3> DEFINE state == [procs[c] EXCEPT !.phase = "deleting"]
      <3>1. Become(c, state)
        BY <2>1, <2>4
      <3>2. /\ state \in [phase : Phases, locks : {{}}, object : Uploads]
            /\ state.phase = "deleting" /\ state.object = object /\ state.locks = {}
        BY <1>2 DEF Phases
      <3> HIDE DEF state
      <3>3. procs'[c] = state
        BY <3>1, Becomes DEF IInv
      <3>4. payments[p].evidence # content
        BY <1>4, <2>4 DEF RacedSame
      <3>5. payments[p].evidence # None \/ payments[p].expired
        BY <1>2, <1>4, <1>6, <1>8 DEF Uploadable
      <3>6. payments' = payments
        BY <2>1
      <3>7. procs'[c].object = <<p, content>> /\ procs'[c].phase = "deleting"
        BY <1>3, <3>2, <3>3
      <3>8. Knows(c)'
        <4>1. procs'[c] \in [phase : Phases, locks : {{}}, object : Uploads]
          BY <3>2, <3>3
        <4>2. Lost(procs[c].object)'
          BY <3>4, <3>5, <3>6, <3>7 DEF Lost
        <4> QED
          BY <3>7, <4>1, <4>2 DEF Knows, Phases
      <3> QED
        BY <2>1, <2>2, <3>1, <3>2, <3>8, QuietInv
    <2> QED
      BY <2>3, <2>4
  <1> QED
    BY <1>7, <1>8

(* Every step keeps the invariant. *)
LEMMA InvStep == IInv /\ [Next]_vars => IInv'
  <1> SUFFICES ASSUME IInv, [Next]_vars PROVE IInv'
    OBVIOUS
  <1>1. ASSUME NEW c \in Clients, Request(c) PROVE IInv'
    BY <1>1, CreateInv, RedeemInv, CommitIntentInv, CommitRedemptionInv, UploadInv,
       CommitUploadInv DEF Request
  <1>2. CASE UNCHANGED vars
    <2>1. UNCHANGED <<promo, payments, redeemed, objects, dropped, procs>>
      BY <1>2 DEF vars, store
    <2>2. TypeOK' /\ LocksApart' /\ EvidenceKept' /\ Later
      BY <2>1 DEF IInv, TypeOK, LocksApart, EvidenceKept, Later
    <2>3. RequestsKnow'
      BY <2>1, <2>2, KnowsKept DEF IInv, RequestsKnow, Knows
    <2>4. WithinLimits'
      <3>1. InTime' = InTime /\ \A u \in Users : InTimeOf(u)' = InTimeOf(u)
        BY <2>1 DEF InTime, InTimeOf
      <3>2. \A c \in Clients, u \in Users : Uses(c, u)' => Uses(c, u)
        BY <2>1 DEF Uses
      <3> QED
        BY <2>1, <2>2, <3>1, <3>2, LimitsKept DEF IInv
    <2> QED
      BY <2>2, <2>3, <2>4 DEF IInv
  <1>3. CASE \E c \in Clients : Request(c)
    BY <1>1, <1>3
  <1>4. CASE ArchiveCode \/ \E active \in BOOLEAN, limit \in Limits : UpdateCode(active, limit)
    BY <1>4, CodeInv
  <1>5. ASSUME NEW p \in Intents,
               Expire(p) \/ Claim(p) \/ \E status \in {"approved", "rejected"} : Decide(p, status)
        PROVE  IInv'
    BY <1>5, ReviewInv
  <1> QED
    BY <1>2, <1>3, <1>4, <1>5 DEF Next

(* The invariant holds in every reachable state. *)
THEOREM Invariant == Spec => []IInv
  BY InvInit, InvStep, PTL DEF Spec

-----------------------------------------------------------------------------
(* The properties the runs check *)

(* Every variable keeps its type, and a payment has a screenshot exactly   *)
(* from its upload on.                                                     *)
THEOREM TypeCorrect == Spec => []TypeOK
  <1>1. IInv => TypeOK
    BY DEF IInv
  <1> QED
    BY <1>1, Invariant, PTL

(* upload_evidence: the screenshot a payment names is never deleted by an  *)
(* upload that lost a race or came late, only by one whose transaction the *)
(* database failed.                                                        *)
THEOREM EvidenceAlwaysKept == Spec => []EvidenceKept
  <1>1. IInv => EvidenceKept
    BY DEF IInv
  <1> QED
    BY <1>1, Invariant, PTL

(* _require_available: the redemptions of a code and the payments that use *)
(* it and were approved before they expired, or still can be, stay within  *)
(* its limits, in all and of one user.                                     *)
THEOREM PromoLimitsAlwaysHold == Spec => []PromoLimitsHold
  <1>1. IInv => PromoLimitsHold
    BY DEF IInv, WithinLimits, Used, UsedBy, SumOf, PromoLimitsHold
  <1> QED
    BY <1>1, Invariant, PTL

=============================================================================
