--------------------------- MODULE LiveRates_proofs ---------------------------
(***************************************************************************)
(* For any currencies, rates and batches, and any number of failures and   *)
(* restarts: the screens and the tables follow the signed proofs, save     *)
(* where the database lost something, and only a late response puts an     *)
(* older proof in a newer one's place.                                     *)
(***************************************************************************)
EXTENDS LiveRates, SequenceTheorems, TLAPS

\* The types of what holds a value per currency.
ProofMap == [Currencies -> Proofs \cup {NoProof}]
RateMap == [Currencies -> Fx \cup {NoFx}]

\* The last rate of c in the queue q is v.
EndsWith(q, c, v) ==
    \E i \in 1..Len(q) :
        /\ c \in DOMAIN q[i] /\ q[i][c] = v
        /\ \A j \in 1..Len(q) : j > i => c \notin DOMAIN q[j]

Absent(q, c) == \A i \in 1..Len(q) : c \notin DOMAIN q[i]

\* What the queues will make of a map of rates, for c.
After(q, map, c, v) == EndsWith(q, c, v) \/ (Absent(q, c) /\ map[c] = v)

\* What the screens and the table of rates will have of c.
WillShow(c, v) == After(ratesPublisher, cachedRates, c, v)
WillStore(c, v) ==
    EndsWith(ratesPublisher, c, v) \/ (Absent(ratesPublisher, c)
                                           /\ After(rateWriteQueue, rate, c, v))

\* The screens will show the rate of the proof in memory.
MemoryShown ==
    \A c \in Currencies :
        exchangeRates[c] # NoProof /\ (c \notin parted \/ c \in published)
            => WillShow(c, exchangeRates[c].fx)

\* Screens and table will have the rate of the proof in the other table.
TableShown ==
    \A c \in Currencies \ parted :
        verifiedRate[c] # NoProof
            => WillShow(c, verifiedRate[c].fx) /\ WillStore(c, verifiedRate[c].fx)

\* A proof in memory is in the table.
MemoryStored ==
    \A c \in Currencies \ parted :
        exchangeRates[c] # NoProof => verifiedRate[c] = exchangeRates[c]

\* A currency that was published since memory was emptied is in memory.
PublishedInMemory == \A c \in published : exchangeRates[c] # NoProof

\* The inductive invariant.
Inv == TypeOK /\ MemoryShown /\ TableShown /\ MemoryStored /\ PublishedInMemory

-----------------------------------------------------------------------------
(* Queues of rates.                                                        *)

\* One more at the end.
LEMMA AppendAfter ==
    ASSUME NEW q \in Seq(Rates), NEW r \in Rates, NEW c, NEW v
    PROVE  /\ c \in DOMAIN r /\ r[c] = v => EndsWith(Append(q, r), c, v)
           /\ c \notin DOMAIN r /\ EndsWith(q, c, v) => EndsWith(Append(q, r), c, v)
           /\ c \notin DOMAIN r /\ Absent(q, c) => Absent(Append(q, r), c)
<1> DEFINE t == Append(q, r)
<1>1. /\ Len(t) = Len(q) + 1 /\ Len(q) \in Nat
      /\ \A i \in 1..Len(q) : t[i] = q[i]
      /\ t[Len(q) + 1] = r
    BY AppendProperties
<1> HIDE DEF t
<1>2. ASSUME c \in DOMAIN r, r[c] = v PROVE EndsWith(t, c, v)
  <2>1. /\ Len(t) \in 1..Len(t) /\ t[Len(t)] = r
        /\ \A j \in 1..Len(t) : ~(j > Len(t))
      BY <1>1
  <2> QED
      BY <1>2, <2>1 DEF EndsWith
<1>3. ASSUME c \notin DOMAIN r, EndsWith(q, c, v) PROVE EndsWith(t, c, v)
  <2>1. PICK i \in 1..Len(q) : /\ c \in DOMAIN q[i] /\ q[i][c] = v
                               /\ \A j \in 1..Len(q) : j > i => c \notin DOMAIN q[j]
      BY <1>3 DEF EndsWith
  <2>2. i \in 1..Len(t) /\ t[i] = q[i]
      BY <1>1
  <2>3. ASSUME NEW j \in 1..Len(t), j > i PROVE c \notin DOMAIN t[j]
    <3>1. CASE j = Len(q) + 1
        BY <1>1, <1>3, <3>1
    <3>2. CASE j # Len(q) + 1
      <4>1. j \in 1..Len(q)
          BY <1>1, <3>2
      <4> QED
          BY <1>1, <2>1, <2>3, <4>1
    <3> QED
        BY <3>1, <3>2
  <2> QED
      BY <2>1, <2>2, <2>3 DEF EndsWith
<1>4. ASSUME c \notin DOMAIN r, Absent(q, c) PROVE Absent(t, c)
  <2> SUFFICES ASSUME NEW j \in 1..Len(t) PROVE c \notin DOMAIN t[j]
      BY DEF Absent
  <2>1. CASE j = Len(q) + 1
      BY <1>1, <1>4, <2>1
  <2>2. CASE j # Len(q) + 1
    <3>1. j \in 1..Len(q)
        BY <1>1, <2>2
    <3> QED
        BY <1>1, <1>4, <3>1 DEF Absent
  <2> QED
      BY <2>1, <2>2
<1> QED
    BY <1>2, <1>3, <1>4 DEF t

\* The first is taken.
LEMMA TailAfter ==
    ASSUME NEW q \in Seq(Rates), q # <<>>, NEW c, NEW v
    PROVE  /\ EndsWith(q, c, v) =>
                  \/ EndsWith(Tail(q), c, v)
                  \/ Absent(Tail(q), c) /\ c \in DOMAIN Head(q) /\ Head(q)[c] = v
           /\ Absent(q, c) => Absent(Tail(q), c) /\ c \notin DOMAIN Head(q)
<1> DEFINE t == Tail(q)
<1>1. /\ Len(t) = Len(q) - 1 /\ Len(q) \in Nat \ {0}
      /\ \A i \in 1..Len(t) : t[i] = q[i + 1]
      /\ Head(q) = q[1]
    BY HeadTailProperties, EmptySeq
<1> HIDE DEF t
<1>2. ASSUME EndsWith(q, c, v)
      PROVE  \/ EndsWith(t, c, v)
             \/ Absent(t, c) /\ c \in DOMAIN Head(q) /\ Head(q)[c] = v
  <2>1. PICK i \in 1..Len(q) : /\ c \in DOMAIN q[i] /\ q[i][c] = v
                               /\ \A j \in 1..Len(q) : j > i => c \notin DOMAIN q[j]
      BY <1>2 DEF EndsWith
  <2>2. ASSUME NEW j \in 1..Len(t), j + 1 > i PROVE c \notin DOMAIN t[j]
    <3>1. j + 1 \in 1..Len(q) /\ t[j] = q[j + 1]
        BY <1>1
    <3> QED
        BY <2>1, <2>2, <3>1
  <2>3. CASE i = 1
    <3>1. \A j \in 1..Len(t) : j + 1 > i
        BY <1>1, <2>3
    <3> QED
        BY <1>1, <2>1, <2>2, <2>3, <3>1 DEF Absent
  <2>4. CASE i # 1
    <3>1. i - 1 \in 1..Len(t) /\ (i - 1) + 1 = i
        BY <1>1, <2>4
    <3>2. t[i - 1] = q[i]
        BY <1>1, <3>1
    <3>3. \A j \in 1..Len(t) : j > i - 1 => j + 1 > i
        BY <1>1
    <3> QED
        BY <2>1, <2>2, <3>1, <3>2, <3>3 DEF EndsWith
  <2> QED
      BY <2>3, <2>4
<1>3. ASSUME Absent(q, c) PROVE Absent(t, c) /\ c \notin DOMAIN Head(q)
  <2>1. 1 \in 1..Len(q) /\ \A j \in 1..Len(t) : j + 1 \in 1..Len(q)
      BY <1>1
  <2> QED
      BY <1>1, <1>3, <2>1 DEF Absent
<1> QED
    BY <1>2, <1>3 DEF t

\* The first is taken and laid over the map: what will be there stays the same.
LEMMA TakenOver ==
    ASSUME NEW q \in Seq(Rates), q # <<>>, NEW map \in RateMap,
           NEW c \in Currencies, NEW v, After(q, map, c, v)
    PROVE  After(Tail(q), Over(Head(q), map), c, v)
<1>1. CASE EndsWith(q, c, v)
  <2>1. CASE EndsWith(Tail(q), c, v)
      BY <2>1 DEF After
  <2>2. CASE Absent(Tail(q), c) /\ c \in DOMAIN Head(q) /\ Head(q)[c] = v
      BY <2>2 DEF After, Over
  <2> QED
      BY <1>1, <2>1, <2>2, TailAfter
<1>2. CASE Absent(q, c) /\ map[c] = v
  <2>1. Absent(Tail(q), c) /\ c \notin DOMAIN Head(q)
      BY <1>2, TailAfter
  <2> QED
      BY <1>2, <2>1 DEF After, Over
<1> QED
    BY <1>1, <1>2 DEF After

LEMMA EmptyAfter ==
    ASSUME NEW c, NEW v, NEW map
    PROVE  /\ Absent(<<>>, c) /\ ~EndsWith(<<>>, c, v)
           /\ After(<<>>, map, c, v) <=> map[c] = v
BY DEF Absent, EndsWith, After

\* The type of the rates of some currencies, alone and laid over a map.
LEMMA RatesType ==
    /\ \A r \in Rates : DOMAIN r \in SUBSET Currencies /\ r \in [DOMAIN r -> Fx]
    /\ \A map \in RateMap, r \in Rates : Over(r, map) \in RateMap
<1>1. ASSUME NEW r \in Rates PROVE DOMAIN r \in SUBSET Currencies /\ r \in [DOMAIN r -> Fx]
    BY DEF Rates
<1>2. ASSUME NEW map \in RateMap, NEW r \in Rates PROVE Over(r, map) \in RateMap
    BY <1>1 DEF RateMap, Over
<1> QED
    BY <1>1, <1>2

LEMMA NoProofIsNone == NoProof \notin Proofs
BY LiveRatesAssumption DEF NoProof, Proofs

\* A proof of memory that has no rate is no proof.
LEMMA NoFxNoProof ==
    ASSUME NEW p \in Proofs \cup {NoProof}
    PROVE  /\ p.fx \in Fx \cup {NoFx} /\ p.at \in 0..MaxProofs
           /\ p.fx = NoFx <=> p = NoProof
           /\ p # NoProof => p \in Proofs
BY LiveRatesAssumption DEF NoProof, Proofs

LEMMA InvInit == Init => Inv
<1> SUFFICES ASSUME Init PROVE Inv
    OBVIOUS
<1>1. TypeOK
    BY LiveRatesAssumption DEF Init, TypeOK
<1>2. MemoryShown /\ TableShown /\ MemoryStored /\ PublishedInMemory
    BY DEF Init, MemoryShown, TableShown, MemoryStored, PublishedInMemory
<1> QED
    BY <1>1, <1>2 DEF Inv

\* A step that leaves memory, queues, screens and tables alone.
LEMMA Untouched ==
    ASSUME Inv, TypeOK',
           UNCHANGED <<exchangeRates, ratesPublisher, cachedRates, rateWriteQueue,
                       databaseVars, parted, published>>
    PROVE  Inv'
BY DEF Inv, MemoryShown, TableShown, MemoryStored, PublishedInMemory, WillShow, WillStore,
       databaseVars

-----------------------------------------------------------------------------
(* A batch is saved.                                                       *)

LEMMA BatchType ==
    ASSUME NEW b \in Batches
    PROVE  /\ b.at \in 1..MaxProofs /\ b.fx \in Rates
           /\ DOMAIN b.fx \in SUBSET Currencies
           /\ \A c \in DOMAIN b.fx : b.fx[c] \in Fx /\ ProofsOf(b)[c] \in Proofs
           /\ \A c \in DOMAIN b.fx : /\ ProofsOf(b)[c] = [at |-> b.at, fx |-> b.fx[c]]
                                     /\ ProofsOf(b)[c].fx = b.fx[c]
           /\ \A map \in ProofMap : Over(ProofsOf(b), map) \in ProofMap
<1>1. b.at \in 1..MaxProofs /\ b.fx \in Rates
    BY DEF Batches
<1>2. DOMAIN b.fx \in SUBSET Currencies /\ \A c \in DOMAIN b.fx : b.fx[c] \in Fx
    BY <1>1, RatesType
<1>3. /\ DOMAIN ProofsOf(b) = DOMAIN b.fx
      /\ \A c \in DOMAIN b.fx : ProofsOf(b)[c] = [at |-> b.at, fx |-> b.fx[c]]
    BY DEF ProofsOf
<1>4. \A c \in DOMAIN b.fx : ProofsOf(b)[c] \in Proofs /\ ProofsOf(b)[c].fx = b.fx[c]
  <2> SUFFICES ASSUME NEW c \in DOMAIN b.fx
               PROVE  ProofsOf(b)[c] \in Proofs /\ ProofsOf(b)[c].fx = b.fx[c]
      OBVIOUS
  <2>1. ProofsOf(b)[c] = [at |-> b.at, fx |-> b.fx[c]] /\ b.fx[c] \in Fx
      BY <1>2, <1>3
  <2> QED
      BY <1>1, <2>1 DEF Proofs
<1>5. \A map \in ProofMap : Over(ProofsOf(b), map) \in ProofMap
    BY <1>2, <1>3, <1>4 DEF ProofMap, Over
<1> QED
    BY <1>1, <1>2, <1>3, <1>4, <1>5

LEMMA FailsType ==
    ASSUME TypeOK, NEW some \in SUBSET Currencies, Fails(some)
    PROVE  failures' \in 0..MaxFailures /\ parted' \in SUBSET Currencies
BY LiveRatesAssumption DEF TypeOK, Fails

\* What changed is published, the rest stays as it was on its way.
LEMMA PublishKeeps ==
    ASSUME ratesPublisher \in Seq(Rates), NEW fx \in Rates, NEW changed \in SUBSET DOMAIN fx,
           Publish(fx, changed)
    PROVE  /\ ratesPublisher' \in Seq(Rates)
           /\ \A c \in changed : EndsWith(ratesPublisher', c, fx[c])
           /\ \A c \in Currencies \ changed : \A v :
                  /\ EndsWith(ratesPublisher, c, v) => EndsWith(ratesPublisher', c, v)
                  /\ Absent(ratesPublisher, c) => Absent(ratesPublisher', c)
<1>1. CASE changed = {}
    BY <1>1 DEF Publish
<1>2. CASE changed # {}
  <2> DEFINE r == [c \in changed |-> fx[c]]
  <2>1. r \in Rates
    <3>1. DOMAIN fx \in SUBSET Currencies /\ \A c \in DOMAIN fx : fx[c] \in Fx
        BY RatesType
    <3>2. r \in [changed -> Fx] /\ changed \in (SUBSET Currencies) \ {{}}
        BY <1>2, <3>1
    <3> QED
        BY <3>2 DEF Rates
  <2>2. DOMAIN r = changed /\ \A c \in changed : r[c] = fx[c]
      OBVIOUS
  <2>3. ratesPublisher' = Append(ratesPublisher, r)
      BY <1>2 DEF Publish
  <2> HIDE DEF r
  <2> QED
      BY <2>1, <2>2, <2>3, AppendAfter, AppendProperties
<1> QED
    BY <1>1, <1>2

LEMMA SaveKeeps ==
    ASSUME Inv, NEW b \in responses, SaveRates(b)
    PROVE  Inv'
<1> DEFINE some == DOMAIN b.fx
<1>0. /\ TypeOK /\ MemoryShown /\ TableShown /\ MemoryStored /\ PublishedInMemory
      /\ b \in Batches /\ exchangeRates \in ProofMap /\ verifiedRate \in ProofMap
      /\ ratesPublisher \in Seq(Rates)
    BY DEF Inv, TypeOK, ProofMap
<1>1. /\ some \in SUBSET Currencies /\ b.fx \in Rates
      /\ FxChanged(b) \in SUBSET some
      /\ exchangeRates' \in ProofMap
      /\ \A c \in some : /\ exchangeRates'[c] = ProofsOf(b)[c]
                         /\ exchangeRates'[c].fx = b.fx[c] /\ exchangeRates'[c] # NoProof
      /\ \A c \in Currencies \ some : exchangeRates'[c] = exchangeRates[c]
  <2>1. /\ some \in SUBSET Currencies /\ b.fx \in Rates
        /\ \A c \in some : /\ ProofsOf(b)[c] \in Proofs
                           /\ ProofsOf(b)[c].fx = b.fx[c]
        /\ exchangeRates' = Over(ProofsOf(b), exchangeRates)
        /\ exchangeRates' \in ProofMap /\ DOMAIN ProofsOf(b) = some
      BY <1>0, BatchType DEF SaveRates, ProofsOf
  <2>2. FxChanged(b) \in SUBSET some
      BY DEF FxChanged
  <2> QED
      BY <2>1, <2>2, NoProofIsNone DEF Over
<1>2. /\ ratesPublisher' \in Seq(Rates)
      /\ \A c \in FxChanged(b) : EndsWith(ratesPublisher', c, b.fx[c])
      /\ \A c \in Currencies \ FxChanged(b) : \A v :
             /\ EndsWith(ratesPublisher, c, v) => EndsWith(ratesPublisher', c, v)
             /\ Absent(ratesPublisher, c) => Absent(ratesPublisher', c)
    BY <1>0, <1>1, PublishKeeps DEF SaveRates
<1>3. /\ verifiedRate' \in ProofMap
      /\ failures' \in 0..MaxFailures /\ parted' \in SUBSET Currencies
      /\ parted \subseteq parted'
      /\ \A c \in Currencies \ parted' :
             verifiedRate'[c] = IF c \in some THEN ProofsOf(b)[c] ELSE verifiedRate[c]
  <2>1. CASE verifiedRate' = Over(ProofsOf(b), verifiedRate) /\ UNCHANGED <<failures, parted>>
    <3>1. verifiedRate' \in ProofMap /\ DOMAIN ProofsOf(b) = some
        BY <1>0, <2>1, BatchType DEF ProofsOf
    <3> QED
        BY <1>0, <2>1, <3>1 DEF Over, TypeOK
  <2>2. CASE Fails(some) /\ UNCHANGED verifiedRate
    <3>1. failures' \in 0..MaxFailures /\ parted' \in SUBSET Currencies
        BY <1>0, <1>1, <2>2, FailsType
    <3> QED
        BY <1>0, <2>2, <3>1 DEF Fails
  <2> QED
      BY <2>1, <2>2 DEF SaveRates
<1>4. /\ published' = published \cup FxChanged(b)
      /\ UNCHANGED <<serverVars, warming, cachedRates, rateWriteQueue, rate, launches>>
      /\ responses' \subseteq responses
    BY DEF SaveRates
<1>5. TypeOK'
    BY <1>0, <1>1, <1>2, <1>3, <1>4 DEF TypeOK, ProofMap, serverVars
<1>6. ASSUME NEW c \in Currencies \ FxChanged(b), NEW v
      PROVE  /\ WillShow(c, v) => WillShow(c, v)'
             /\ WillStore(c, v) => WillStore(c, v)'
    BY <1>2, <1>4 DEF WillShow, WillStore, After
<1>7. ASSUME NEW c \in FxChanged(b)
      PROVE  WillShow(c, b.fx[c])' /\ WillStore(c, b.fx[c])'
    BY <1>2 DEF WillShow, WillStore, After
<1>8. \A c \in some \ FxChanged(b) :
          exchangeRates[c] # NoProof /\ exchangeRates[c].fx = b.fx[c]
  <2> SUFFICES ASSUME NEW c \in some \ FxChanged(b)
               PROVE  exchangeRates[c] # NoProof /\ exchangeRates[c].fx = b.fx[c]
      OBVIOUS
  <2>1. exchangeRates[c].fx = b.fx[c] /\ b.fx[c] # NoFx
      BY <1>0, BatchType, LiveRatesAssumption DEF FxChanged
  <2> QED
      BY <2>1 DEF NoProof
<1>9. MemoryShown'
  <2> SUFFICES ASSUME NEW c \in Currencies, exchangeRates'[c] # NoProof,
                      c \notin parted' \/ c \in published'
               PROVE  WillShow(c, exchangeRates[c].fx)'
      BY DEF MemoryShown
  <2>1. CASE c \in FxChanged(b)
      BY <1>1, <1>7, <2>1
  <2>2. CASE c \in some \ FxChanged(b)
    <3>1. WillShow(c, b.fx[c])
        BY <1>0, <1>1, <1>3, <1>4, <1>8, <2>2 DEF MemoryShown
    <3> QED
        BY <1>1, <1>6, <2>2, <3>1
  <2>3. CASE c \notin some
    <3>1. WillShow(c, exchangeRates[c].fx) /\ c \notin FxChanged(b)
        BY <1>0, <1>1, <1>3, <1>4, <2>3 DEF MemoryShown
    <3> QED
        BY <1>1, <1>6, <2>3, <3>1
  <2> QED
      BY <2>1, <2>2, <2>3
<1>10. TableShown'
  <2> SUFFICES ASSUME NEW c \in Currencies \ parted', verifiedRate'[c] # NoProof
               PROVE  /\ WillShow(c, verifiedRate[c].fx)'
                      /\ WillStore(c, verifiedRate[c].fx)'
      BY DEF TableShown
  <2>1. CASE c \in FxChanged(b)
    <3>1. verifiedRate'[c].fx = b.fx[c]
        BY <1>1, <1>3, <2>1
    <3> QED
        BY <1>7, <2>1, <3>1
  <2>2. CASE c \in some \ FxChanged(b)
    <3>1. verifiedRate'[c].fx = b.fx[c]
        BY <1>1, <1>3, <2>2
    <3>2. verifiedRate[c] # NoProof /\ verifiedRate[c].fx = b.fx[c] /\ c \notin parted
        BY <1>0, <1>3, <1>8, <2>2 DEF MemoryStored
    <3>3. WillShow(c, b.fx[c]) /\ WillStore(c, b.fx[c])
        BY <1>0, <3>2 DEF TableShown
    <3> QED
        BY <1>6, <2>2, <3>1, <3>3
  <2>3. CASE c \notin some
    <3>1. verifiedRate'[c] = verifiedRate[c] /\ c \notin parted /\ c \notin FxChanged(b)
        BY <1>1, <1>3, <2>3
    <3> QED
        BY <1>0, <1>6, <3>1 DEF TableShown
  <2> QED
      BY <2>1, <2>2, <2>3
<1>11. MemoryStored'
    BY <1>0, <1>1, <1>3 DEF MemoryStored
<1>12. PublishedInMemory'
    BY <1>0, <1>1, <1>4 DEF PublishedInMemory, TypeOK
<1> QED
    BY <1>5, <1>9, <1>10, <1>11, <1>12 DEF Inv

-----------------------------------------------------------------------------
(* The other steps.                                                        *)

LEMMA WarmLoadKeeps ==
    ASSUME Inv, WarmLoadFromStore
    PROVE  Inv'
<1>0. TypeOK /\ MemoryShown /\ TableShown /\ MemoryStored /\ PublishedInMemory
    BY DEF Inv
<1>1. UNCHANGED <<serverVars, responses, ratesPublisher, cachedRates, rateWriteQueue,
                  databaseVars, launches, published>>
    BY DEF WarmLoadFromStore
<1>2. /\ exchangeRates' \in ProofMap
      /\ failures' \in 0..MaxFailures /\ parted' = parted
      /\ \A c \in Currencies : \/ exchangeRates'[c] = exchangeRates[c]
                               \/ exchangeRates[c] = NoProof /\ exchangeRates'[c] = verifiedRate[c]
  <2>1. CASE /\ exchangeRates' = [c \in Currencies |->
                        IF IsLoaded(c) THEN verifiedRate[c] ELSE exchangeRates[c]]
             /\ UNCHANGED <<failures, parted>>
      BY <1>0, <2>1 DEF TypeOK, ProofMap, IsLoaded
  <2>2. CASE Fails({}) /\ UNCHANGED exchangeRates
    <3>1. parted' = parted
        BY <2>2 DEF Fails
    <3>2. {} \in SUBSET Currencies
        OBVIOUS
    <3>3. failures' \in 0..MaxFailures
        BY <1>0, <2>2, <3>2, FailsType
    <3> QED
        BY <1>0, <2>2, <3>1, <3>3 DEF TypeOK, ProofMap
  <2> QED
      BY <2>1, <2>2 DEF WarmLoadFromStore
<1>3. TypeOK'
    BY <1>0, <1>1, <1>2 DEF WarmLoadFromStore, TypeOK, ProofMap, serverVars, databaseVars
<1>4. ASSUME NEW c, NEW v PROVE /\ WillShow(c, v)' <=> WillShow(c, v)
                                /\ WillStore(c, v)' <=> WillStore(c, v)
    BY <1>1 DEF WillShow, WillStore, databaseVars
<1>5. TableShown'
    BY <1>0, <1>1, <1>2, <1>4 DEF TableShown, databaseVars
<1>6. MemoryStored'
    BY <1>0, <1>1, <1>2 DEF MemoryStored, databaseVars
<1>7. MemoryShown'
  <2> SUFFICES ASSUME NEW c \in Currencies, exchangeRates'[c] # NoProof,
                      c \notin parted \/ c \in published
               PROVE  WillShow(c, exchangeRates'[c].fx)
      BY <1>1, <1>2, <1>4 DEF MemoryShown
  <2>1. CASE exchangeRates'[c] = exchangeRates[c]
      BY <1>0, <2>1 DEF MemoryShown
  <2>2. CASE exchangeRates[c] = NoProof /\ exchangeRates'[c] = verifiedRate[c]
    <3>1. c \notin parted
        BY <1>0, <2>2 DEF PublishedInMemory
    <3> QED
        BY <1>0, <2>2, <3>1 DEF TableShown
  <2> QED
      BY <1>2, <2>1, <2>2
<1>8. PublishedInMemory'
    BY <1>0, <1>1, <1>2 DEF PublishedInMemory, TypeOK
<1> QED
    BY <1>3, <1>5, <1>6, <1>7, <1>8 DEF Inv

LEMMA ClearKeeps ==
    ASSUME Inv, Clear
    PROVE  Inv'
<1>1. TypeOK'
    BY DEF Inv, Clear, TypeOK, serverVars, databaseVars, bounds
<1>2. /\ \A c \in Currencies : exchangeRates'[c] = NoProof
      /\ published' = {}
      /\ UNCHANGED <<ratesPublisher, cachedRates, rateWriteQueue, databaseVars, parted>>
    BY DEF Clear
<1>3. MemoryShown' /\ MemoryStored' /\ PublishedInMemory'
    BY <1>2 DEF MemoryShown, MemoryStored, PublishedInMemory
<1>4. TableShown'
    BY <1>2 DEF Inv, TableShown, WillShow, WillStore, databaseVars
<1> QED
    BY <1>1, <1>3, <1>4 DEF Inv

LEMMA UpdateKeeps ==
    ASSUME Inv, UpdateRates
    PROVE  Inv'
<1> DEFINE head == Head(ratesPublisher)
<1>0. /\ TypeOK /\ MemoryShown /\ TableShown /\ MemoryStored /\ PublishedInMemory
      /\ ratesPublisher \in Seq(Rates) /\ ratesPublisher # <<>>
      /\ rateWriteQueue \in Seq(Rates) /\ cachedRates \in RateMap /\ rate \in RateMap
    BY DEF Inv, TypeOK, UpdateRates, RateMap
<1>1. /\ ratesPublisher' = Tail(ratesPublisher)
      /\ cachedRates' = Over(head, cachedRates)
      /\ rateWriteQueue' = Append(rateWriteQueue, head)
      /\ UNCHANGED <<serverVars, responses, exchangeRates, warming, databaseVars, bounds,
                     parted, published>>
    BY DEF UpdateRates
<1>2. /\ head \in Rates /\ ratesPublisher' \in Seq(Rates)
      /\ rateWriteQueue' \in Seq(Rates) /\ cachedRates' \in RateMap
    BY <1>0, <1>1, HeadTailProperties, AppendProperties, RatesType
<1>3. TypeOK'
    BY <1>0, <1>1, <1>2 DEF TypeOK, RateMap, serverVars, databaseVars, bounds
<1>4. ASSUME NEW c \in Currencies, NEW v, WillShow(c, v) PROVE WillShow(c, v)'
    BY <1>0, <1>1, <1>4, TakenOver DEF WillShow
<1>5. ASSUME NEW c \in Currencies, NEW v, WillStore(c, v) PROVE WillStore(c, v)'
  <2>1. CASE EndsWith(ratesPublisher, c, v)
    <3>1. CASE EndsWith(ratesPublisher', c, v)
        BY <3>1 DEF WillStore
    <3>2. CASE Absent(ratesPublisher', c) /\ c \in DOMAIN head /\ head[c] = v
      <4>1. EndsWith(rateWriteQueue', c, v)
          BY <1>0, <1>1, <1>2, <3>2, AppendAfter
      <4> QED
          BY <3>2, <4>1 DEF WillStore, After
    <3> QED
        BY <1>0, <1>1, <2>1, <3>1, <3>2, TailAfter
  <2>2. CASE Absent(ratesPublisher, c) /\ After(rateWriteQueue, rate, c, v)
    <3>1. Absent(ratesPublisher', c) /\ c \notin DOMAIN head
        BY <1>0, <1>1, <2>2, TailAfter
    <3>2. After(rateWriteQueue', rate', c, v)
        BY <1>0, <1>1, <1>2, <2>2, <3>1, AppendAfter DEF After, databaseVars
    <3> QED
        BY <3>1, <3>2 DEF WillStore
  <2> QED
      BY <1>5, <2>1, <2>2 DEF WillStore
<1>6. MemoryShown'
    BY <1>0, <1>1, <1>4 DEF MemoryShown
<1>7. TableShown'
    BY <1>0, <1>1, <1>4, <1>5 DEF TableShown, databaseVars
<1>8. MemoryStored' /\ PublishedInMemory'
    BY <1>0, <1>1 DEF MemoryStored, PublishedInMemory, databaseVars
<1> QED
    BY <1>3, <1>6, <1>7, <1>8 DEF Inv

LEMMA UpsertKeeps ==
    ASSUME Inv, UpsertRates
    PROVE  Inv'
<1> DEFINE head == Head(rateWriteQueue)
<1>0. /\ TypeOK /\ MemoryShown /\ TableShown /\ MemoryStored /\ PublishedInMemory
      /\ rateWriteQueue \in Seq(Rates) /\ rateWriteQueue # <<>> /\ rate \in RateMap
    BY DEF Inv, TypeOK, UpsertRates, RateMap
<1>1. /\ rateWriteQueue' = Tail(rateWriteQueue)
      /\ UNCHANGED <<serverVars, responses, exchangeRates, warming, ratesPublisher,
                     cachedRates, verifiedRate, launches, published>>
    BY DEF UpsertRates
<1>2. head \in Rates /\ rateWriteQueue' \in Seq(Rates) /\ DOMAIN head \in SUBSET Currencies
    BY <1>0, <1>1, HeadTailProperties, RatesType
<1>3. /\ rate' \in RateMap /\ failures' \in 0..MaxFailures
      /\ parted' \in SUBSET Currencies /\ parted \subseteq parted'
      /\ \A c \in Currencies \ parted' : \A v :
             After(rateWriteQueue, rate, c, v) => After(rateWriteQueue', rate', c, v)
  <2>1. CASE rate' = Over(head, rate) /\ UNCHANGED <<failures, parted>>
    <3>1. rate' \in RateMap
        BY <1>0, <1>2, <2>1, RatesType
    <3>2. \A c \in Currencies : \A v :
              After(rateWriteQueue, rate, c, v) => After(rateWriteQueue', rate', c, v)
        BY <1>0, <1>1, <2>1, TakenOver
    <3> QED
        BY <1>0, <2>1, <3>1, <3>2 DEF TypeOK
  <2>2. CASE Fails(DOMAIN head) /\ UNCHANGED rate
    <3>1. failures' \in 0..MaxFailures /\ parted' \in SUBSET Currencies
        BY <1>0, <1>2, <2>2, FailsType
    <3>2. parted' = parted \cup DOMAIN head
        BY <2>2 DEF Fails
    <3>3. ASSUME NEW c \in Currencies \ parted', NEW v, After(rateWriteQueue, rate, c, v)
          PROVE  After(rateWriteQueue', rate', c, v)
      <4>1. c \notin DOMAIN head
          BY <3>2
      <4> QED
          BY <1>0, <1>1, <2>2, <3>3, <4>1, TailAfter DEF After
    <3> QED
        BY <1>0, <2>2, <3>1, <3>2, <3>3
  <2> QED
      BY <2>1, <2>2 DEF UpsertRates
<1>4. TypeOK'
    BY <1>0, <1>1, <1>2, <1>3 DEF TypeOK, RateMap, serverVars
<1>5. ASSUME NEW c \in Currencies, NEW v PROVE WillShow(c, v)' <=> WillShow(c, v)
    BY <1>1 DEF WillShow
<1>6. ASSUME NEW c \in Currencies \ parted', NEW v, WillStore(c, v) PROVE WillStore(c, v)'
    BY <1>1, <1>3, <1>6 DEF WillStore
<1>7. MemoryShown'
    BY <1>0, <1>1, <1>3, <1>5 DEF MemoryShown
<1>8. TableShown'
    BY <1>0, <1>1, <1>3, <1>5, <1>6 DEF TableShown
<1>9. MemoryStored' /\ PublishedInMemory'
    BY <1>0, <1>1, <1>3 DEF MemoryStored, PublishedInMemory
<1> QED
    BY <1>4, <1>7, <1>8, <1>9 DEF Inv

LEMMA RelaunchKeeps ==
    ASSUME Inv, Relaunch
    PROVE  Inv'
<1>0. /\ TypeOK /\ TableShown /\ rate \in RateMap
      /\ ratesPublisher \in Seq(Rates) /\ rateWriteQueue \in Seq(Rates)
    BY DEF Inv, TypeOK, RateMap
<1>1. /\ launches' \in 0..MaxLaunches
      /\ responses' = {} /\ ratesPublisher' = <<>> /\ rateWriteQueue' = <<>>
      /\ exchangeRates' \in ProofMap /\ \A c \in Currencies : exchangeRates'[c] = NoProof
      /\ warming' = TRUE /\ published' = {}
      /\ UNCHANGED <<serverVars, databaseVars>>
    BY <1>0, LiveRatesAssumption DEF Relaunch, TypeOK, ProofMap
<1>2. \A c \in OnTheirWay : c \in Currencies
  <2>1. \A i \in 1..Len(ratesPublisher) : DOMAIN ratesPublisher[i] \in SUBSET Currencies
      BY <1>0, ElementOfSeq, RatesType
  <2>2. \A i \in 1..Len(rateWriteQueue) : DOMAIN rateWriteQueue[i] \in SUBSET Currencies
      BY <1>0, ElementOfSeq, RatesType
  <2> QED
      BY <2>1, <2>2 DEF OnTheirWay
<1>3. /\ cachedRates' \in RateMap /\ failures' \in 0..MaxFailures
      /\ parted' \in SUBSET Currencies
      /\ \A c \in Currencies \ parted' :
             cachedRates'[c] = rate[c] /\ c \notin parted /\ c \notin OnTheirWay
  <2>1. CASE cachedRates' = rate /\ parted' = parted \cup OnTheirWay /\ UNCHANGED failures
      BY <1>0, <1>2, <2>1 DEF TypeOK
  <2>2. CASE cachedRates' = [c \in Currencies |-> NoFx] /\ Fails(Currencies)
    <3>1. failures' \in 0..MaxFailures /\ parted' \in SUBSET Currencies
        BY <1>0, <2>2, FailsType
    <3>2. Currencies \ parted' = {}
        BY <2>2 DEF Fails
    <3> QED
        BY <2>2, <3>1, <3>2 DEF RateMap
  <2> QED
      BY <2>1, <2>2 DEF Relaunch
<1>4. TypeOK'
    BY <1>0, <1>1, <1>3 DEF TypeOK, ProofMap, RateMap, serverVars, databaseVars
<1>5. MemoryShown' /\ MemoryStored' /\ PublishedInMemory'
    BY <1>1 DEF MemoryShown, MemoryStored, PublishedInMemory
<1>6. TableShown'
  <2> SUFFICES ASSUME NEW c \in Currencies \ parted', verifiedRate[c] # NoProof
               PROVE  /\ WillShow(c, verifiedRate[c].fx)'
                      /\ WillStore(c, verifiedRate[c].fx)'
      BY <1>1 DEF TableShown, databaseVars
  <2> DEFINE v == verifiedRate[c].fx
  <2>1. WillStore(c, v) /\ c \notin OnTheirWay
      BY <1>0, <1>3 DEF TableShown
  <2>2. ~EndsWith(ratesPublisher, c, v) /\ ~EndsWith(rateWriteQueue, c, v)
      BY <2>1 DEF OnTheirWay, EndsWith
  <2>3. rate[c] = v
      BY <2>1, <2>2 DEF WillStore, After
  <2>4. verifiedRate'[c].fx = v /\ rate'[c] = v /\ cachedRates'[c] = v
      BY <1>1, <1>3, <2>3 DEF databaseVars
  <2> HIDE DEF v
  <2>5. /\ After(ratesPublisher', cachedRates', c, v)
        /\ Absent(ratesPublisher', c) /\ After(rateWriteQueue', rate', c, v)
      BY <1>1, <2>4, EmptyAfter
  <2> QED
      BY <2>4, <2>5 DEF WillShow, WillStore
<1> QED
    BY <1>4, <1>5, <1>6 DEF Inv

LEMMA InvNext == Inv /\ [Next]_vars => Inv'
<1> SUFFICES ASSUME Inv, [Next]_vars PROVE Inv'
    OBVIOUS
<1>0. TypeOK
    BY DEF Inv
<1>1. CASE ServerSigns
  <2>1. signed' \in 1..MaxProofs /\ signed' \in 0..MaxProofs /\ staleUpTo' \in 0..signed'
      BY <1>0, <1>1, LiveRatesAssumption DEF ServerSigns, TypeOK
  <2>2. responses' \subseteq Batches
    <3>1. PICK fx \in Rates : responses' = responses \cup {[at |-> signed', fx |-> fx]}
        BY <1>1 DEF ServerSigns
    <3>2. [at |-> signed', fx |-> fx] \in Batches
        BY <2>1 DEF Batches
    <3> QED
        BY <1>0, <3>1, <3>2 DEF TypeOK
  <2>3. TypeOK'
      BY <1>0, <1>1, <2>1, <2>2 DEF ServerSigns, TypeOK, databaseVars, bounds
  <2> QED
      BY <1>1, <2>3, Untouched DEF ServerSigns, databaseVars
<1>2. CASE ProofGoesStale
  <2>1. TypeOK'
      BY <1>0, <1>2 DEF ProofGoesStale, TypeOK, databaseVars, bounds
  <2> QED
      BY <1>2, <2>1, Untouched DEF ProofGoesStale, databaseVars
<1>3. ASSUME NEW b \in responses, HandleStale(b) PROVE Inv'
  <2>1. TypeOK'
      BY <1>0, <1>3 DEF HandleStale, TypeOK, serverVars, databaseVars, bounds
  <2> QED
      BY <1>3, <2>1, Untouched DEF HandleStale, databaseVars
<1>4. ASSUME NEW b \in responses, SaveRates(b) PROVE Inv'
    BY <1>4, SaveKeeps
<1>5. CASE WarmLoadFromStore
    BY <1>5, WarmLoadKeeps
<1>6. CASE Clear
    BY <1>6, ClearKeeps
<1>7. CASE UpdateRates
    BY <1>7, UpdateKeeps
<1>8. CASE UpsertRates
    BY <1>8, UpsertKeeps
<1>9. CASE Relaunch
    BY <1>9, RelaunchKeeps
<1>10. CASE UNCHANGED vars
  <2>1. TypeOK'
      BY <1>0, <1>10 DEF vars, TypeOK, serverVars, databaseVars, bounds
  <2> QED
      BY <1>10, <2>1, Untouched DEF vars
<1> QED
    BY <1>1, <1>2, <1>3, <1>4, <1>5, <1>6, <1>7, <1>8, <1>9, <1>10 DEF Next

-----------------------------------------------------------------------------
(* The theorems.                                                           *)

\* The inductive invariant: memory, queues, screens and tables of VerifiedProtoService
\* and RatesController.
THEOREM SpecInv == Spec => []Inv
BY InvInit, InvNext, PTL DEF Spec

\* Type correctness of VerifiedProtoService's proofs, the tables and what is on its way
\* between them; in particular saveRates publishes no batch without a rate.
THEOREM TypeCorrect == Spec => []TypeOK
<1>1. Inv => TypeOK
    BY DEF Inv
<1> QED
    BY <1>1, SpecInv, PTL

\* RatesController's screens follow VerifiedProtoService's proofs, save after the
\* database lost something and until the rate changes.
THEOREM ScreensFollow == Spec => []DisplayFollowsProofs
<1>1. Inv => DisplayFollowsProofs
  <2> SUFFICES ASSUME Inv, ratesPublisher = <<>>, NEW c \in Currencies,
                      exchangeRates[c] # NoProof, c \notin parted \/ c \in published
               PROVE  exchangeRates[c].fx = cachedRates[c]
      BY DEF DisplayFollowsProofs
  <2>1. After(<<>>, cachedRates, c, exchangeRates[c].fx)
      BY DEF Inv, MemoryShown, WillShow
  <2> QED
      BY <2>1, EmptyAfter
<1> QED
    BY <1>1, SpecInv, PTL

\* The table of rates RatesController writes and the table of proofs agree once the
\* queues are empty, save on what a failure or a restart parted.
THEOREM TablesStayTogether == Spec => []TablesAgree
<1>1. Inv => TablesAgree
  <2> SUFFICES ASSUME Inv, ratesPublisher = <<>>, rateWriteQueue = <<>>,
                      NEW c \in Currencies \ parted, verifiedRate[c] # NoProof
               PROVE  rate[c] = verifiedRate[c].fx
      BY DEF TablesAgree
  <2> DEFINE v == verifiedRate[c].fx
  <2>1. EndsWith(<<>>, c, v) \/ After(<<>>, rate, c, v)
      BY DEF Inv, TableShown, WillStore
  <2> QED
      BY <2>1, EmptyAfter
<1> QED
    BY <1>1, SpecInv, PTL

\* In VerifiedProtoService only a late response puts an older proof in a newer one's
\* place; warmLoadFromStore never does.
THEOREM OlderOnlyByResponse == Spec => OlderProofHasACause
<1> DEFINE Caused ==
        \A c \in Currencies :
            exchangeRates'[c] # NoProof /\ exchangeRates'[c].at < exchangeRates[c].at =>
                \E b \in responses \ responses' : b.at = exchangeRates'[c].at
<1>1. Inv /\ [Next]_vars => [Caused]_vars
  <2> SUFFICES ASSUME Inv, Next, NEW c \in Currencies,
                      exchangeRates'[c] # NoProof, exchangeRates'[c].at < exchangeRates[c].at
               PROVE  \E b \in responses \ responses' : b.at = exchangeRates'[c].at
      OBVIOUS
  <2>0. /\ exchangeRates \in ProofMap /\ exchangeRates[c].at \in Nat
        /\ exchangeRates[c].at # 0 => exchangeRates[c] # NoProof
    <3>1. exchangeRates \in ProofMap /\ exchangeRates[c] \in Proofs \cup {NoProof}
        BY DEF Inv, TypeOK, ProofMap
    <3>2. exchangeRates[c].at \in 0..MaxProofs
        BY <3>1, NoFxNoProof
    <3>3. NoProof.at = 0
        BY DEF NoProof
    <3> QED
        BY <3>1, <3>2, <3>3, LiveRatesAssumption
  <2>1. exchangeRates'[c] # exchangeRates[c]
      BY <2>0
  <2>2. CASE \E b \in responses : SaveRates(b)
    <3>1. PICK b \in responses : SaveRates(b)
        BY <2>2
    <3>2. responses' = responses \ {b} /\ exchangeRates' = Over(ProofsOf(b), exchangeRates)
        BY <3>1 DEF SaveRates
    <3>3. c \in DOMAIN b.fx /\ exchangeRates'[c] = [at |-> b.at, fx |-> b.fx[c]]
        BY <2>1, <3>2 DEF Over, ProofsOf
    <3> QED
        BY <3>2, <3>3
  <2>3. CASE WarmLoadFromStore
    <3>1. exchangeRates[c] = NoProof
        BY <2>0, <2>1, <2>3 DEF WarmLoadFromStore, IsLoaded
    <3>2. exchangeRates[c].at = 0 /\ exchangeRates'[c].at \in Nat
      <4>1. Inv'
          BY InvNext
      <4>2. exchangeRates'[c] \in Proofs \cup {NoProof}
          BY <4>1 DEF Inv, TypeOK
      <4>3. exchangeRates'[c].at \in 0..MaxProofs
          BY <4>2, NoFxNoProof
      <4> QED
          BY <3>1, <4>3, LiveRatesAssumption DEF NoProof
    <3> QED
        BY <3>2
  <2>4. CASE Clear \/ Relaunch
      BY <2>4 DEF Clear, Relaunch
  <2>5. CASE \/ ServerSigns \/ ProofGoesStale \/ UpdateRates \/ UpsertRates
             \/ \E b \in responses : HandleStale(b)
      BY <2>1, <2>5 DEF ServerSigns, ProofGoesStale, UpdateRates, UpsertRates, HandleStale
  <2> QED
      BY <2>2, <2>3, <2>4, <2>5 DEF Next
<1> QED
    BY <1>1, SpecInv, PTL DEF Spec, OlderProofHasACause
=============================================================================
