------------------------------ MODULE LiveRates ------------------------------
(***************************************************************************)
(* What the stream of module LiveMints delivers: batches of signed         *)
(* exchange rates.  VerifiedProtoService, an actor, keeps the proofs in    *)
(* memory and in a table of its own, and publishes the rates that changed; *)
(* RatesController shows them and writes them, later, to a second table it *)
(* reads at the next launch.  The proofs are what a payment is signed      *)
(* with, the rates what the screens show; they have to agree through late  *)
(* batches, failed writes and restarts.                                    *)
(*                                                                         *)
(* Reserve states take the same way through the service, without the       *)
(* second table, and are left out.  Every response is handled in a task of *)
(* its own, which two actors enqueue: batches are saved in any order.      *)
(***************************************************************************)
EXTENDS Naturals, Sequences

CONSTANTS
    Currencies,
    Fx,             \* the exchange rates a currency may have
    NoFx,           \* none known
    MaxProofs,      \* bound: batches the server ever signs
    MaxFailures,    \* bound: failed reads and writes of the database
    MaxLaunches     \* bound: restarts of the app

ASSUME LiveRatesAssumption ==
    /\ NoFx \notin Fx
    /\ MaxProofs \in Nat /\ MaxFailures \in Nat /\ MaxLaunches \in Nat

VARIABLES
    \* the server's, and the responses whose tasks wait for the actors
    signed,             \* how many batches were signed
    staleUpTo,          \* how many of them are past the freshness window
    responses,
    \* VerifiedProtoService's
    exchangeRates,
    warming,            \* warmLoadFromStore has not run yet
    ratesPublisher,     \* what it published and the main actor has not received
    \* RatesController's
    cachedRates,
    rateWriteQueue,
    \* the database's
    verifiedRate,       \* the table of proofs
    rate,               \* the table of rates
    failures, launches,
    \* history
    parted,             \* currencies of which the database lost a write or a read
    published           \* currencies published since exchangeRates was last emptied

serverVars == <<signed, staleUpTo>>
databaseVars == <<verifiedRate, rate>>
bounds == <<failures, launches>>
vars == <<serverVars, responses, exchangeRates, warming, ratesPublisher, cachedRates,
          rateWriteQueue, databaseVars, bounds, parted, published>>

NoProof == [at |-> 0, fx |-> NoFx]
Proofs == [at : 1..MaxProofs, fx : Fx]

\* Rates of some currencies, as they are published and written together.
Rates == UNION {[some -> Fx] : some \in (SUBSET Currencies) \ {{}}}
Batches == [at : 1..MaxProofs, fx : Rates]

TypeOK ==
    /\ signed \in 0..MaxProofs /\ staleUpTo \in 0..signed
    /\ responses \subseteq Batches
    /\ exchangeRates \in [Currencies -> Proofs \cup {NoProof}]
    /\ warming \in BOOLEAN
    /\ ratesPublisher \in Seq(Rates) /\ rateWriteQueue \in Seq(Rates)
    /\ cachedRates \in [Currencies -> Fx \cup {NoFx}]
    /\ verifiedRate \in [Currencies -> Proofs \cup {NoProof}]
    /\ rate \in [Currencies -> Fx \cup {NoFx}]
    /\ failures \in 0..MaxFailures /\ launches \in 0..MaxLaunches
    /\ parted \subseteq Currencies /\ published \subseteq Currencies

\* The first launch: empty tables.
Init ==
    /\ signed = 0 /\ staleUpTo = 0 /\ responses = {}
    /\ exchangeRates = [c \in Currencies |-> NoProof] /\ warming = TRUE
    /\ ratesPublisher = <<>> /\ rateWriteQueue = <<>>
    /\ cachedRates = [c \in Currencies |-> NoFx]
    /\ verifiedRate = [c \in Currencies |-> NoProof]
    /\ rate = [c \in Currencies |-> NoFx]
    /\ failures = 0 /\ launches = 0
    /\ parted = {} /\ published = {}

-----------------------------------------------------------------------------
(* The stream.                                                             *)

\* The server signs rates and sends them.
ServerSigns ==
    /\ signed < MaxProofs
    /\ signed' = signed + 1
    /\ \E fx \in Rates : responses' = responses \cup {[at |-> signed', fx |-> fx]}
    /\ UNCHANGED <<staleUpTo, exchangeRates, warming, ratesPublisher, cachedRates,
                   rateWriteQueue, databaseVars, bounds, parted, published>>

ProofGoesStale ==
    /\ staleUpTo < signed
    /\ staleUpTo' = staleUpTo + 1
    /\ UNCHANGED <<signed, responses, exchangeRates, warming, ratesPublisher, cachedRates,
                   rateWriteQueue, databaseVars, bounds, parted, published>>

\* The stream was reopened before the task ran: the response is of an old generation.
HandleStale(b) ==
    /\ b \in responses
    /\ responses' = responses \ {b}
    /\ UNCHANGED <<serverVars, exchangeRates, warming, ratesPublisher, cachedRates,
                   rateWriteQueue, databaseVars, bounds, parted, published>>

-----------------------------------------------------------------------------
(* VerifiedProtoService.                                                   *)

\* The rates of "newer" over those of "older".
Over(newer, older) ==
    [c \in Currencies |-> IF c \in DOMAIN newer THEN newer[c] ELSE older[c]]

ProofsOf(b) == [c \in DOMAIN b.fx |-> [at |-> b.at, fx |-> b.fx[c]]]

\* Mutant: compared after the proof was stored.
FxChangedTooLate(b) == {c \in DOMAIN b.fx : b.fx[c] # Over(ProofsOf(b), exchangeRates)[c].fx}

\* The currencies whose rate is not the one of the proof in memory.
FxChanged(b) == {c \in DOMAIN b.fx : b.fx[c] # exchangeRates[c].fx}

\* Mutant: a batch without a change is published too.
PublishAlways(fx, changed) ==
    ratesPublisher' = Append(ratesPublisher, [c \in changed |-> fx[c]])

\* Only what changed is published.
Publish(fx, changed) ==
    ratesPublisher' = IF changed = {} THEN ratesPublisher
                      ELSE Append(ratesPublisher, [c \in changed |-> fx[c]])

\* A failure of the database, of which the currencies "some" are the victims.
Fails(some) ==
    /\ failures < MaxFailures
    /\ failures' = failures + 1
    /\ parted' = parted \cup some

\* Every proof is kept, in memory and in the table (one transaction), and the rates
\* that changed are published.
SaveRates(b) ==
    /\ b \in responses
    /\ responses' = responses \ {b}
    /\ exchangeRates' = Over(ProofsOf(b), exchangeRates)
    /\ \/ verifiedRate' = Over(ProofsOf(b), verifiedRate) /\ UNCHANGED <<failures, parted>>
       \/ Fails(DOMAIN b.fx) /\ UNCHANGED verifiedRate
    /\ Publish(b.fx, FxChanged(b))
    /\ published' = published \cup FxChanged(b)
    /\ UNCHANGED <<serverVars, warming, cachedRates, rateWriteQueue, rate, launches>>

\* Mutant: the table's proof takes the place of the stream's.
IsLoadedOver(c) == verifiedRate[c].at > staleUpTo

\* A proof of the table is loaded if it is fresh and memory has none.
IsLoaded(c) == exchangeRates[c] = NoProof /\ verifiedRate[c].at > staleUpTo

\* A single turn of the actor, at some time after the launch.
WarmLoadFromStore ==
    /\ warming
    /\ warming' = FALSE
    /\ \/ /\ exchangeRates' = [c \in Currencies |->
                                   IF IsLoaded(c) THEN verifiedRate[c] ELSE exchangeRates[c]]
          /\ UNCHANGED <<failures, parted>>
       \/ Fails({}) /\ UNCHANGED exchangeRates
    /\ UNCHANGED <<serverVars, responses, ratesPublisher, cachedRates, rateWriteQueue,
                   databaseVars, launches, published>>

\* Logout: the table keeps its proofs.
Clear ==
    /\ exchangeRates' = [c \in Currencies |-> NoProof]
    /\ published' = {}
    /\ UNCHANGED <<serverVars, responses, warming, ratesPublisher, cachedRates,
                   rateWriteQueue, databaseVars, bounds, parted>>

-----------------------------------------------------------------------------
(* RatesController.                                                        *)

\* On the main queue, in the order of the publications.
UpdateRates ==
    /\ ratesPublisher # <<>>
    /\ ratesPublisher' = Tail(ratesPublisher)
    /\ cachedRates' = Over(Head(ratesPublisher), cachedRates)
    /\ rateWriteQueue' = Append(rateWriteQueue, Head(ratesPublisher))
    /\ UNCHANGED <<serverVars, responses, exchangeRates, warming, databaseVars, bounds,
                   parted, published>>

\* Mutant: a concurrent queue.
UpsertRatesConcurrently ==
    /\ \E i \in 1..Len(rateWriteQueue) :
           /\ rateWriteQueue' = [j \in 1..(Len(rateWriteQueue) - 1) |->
                                    rateWriteQueue[IF j < i THEN j ELSE j + 1]]
           /\ rate' = Over(rateWriteQueue[i], rate)
    /\ UNCHANGED <<serverVars, responses, exchangeRates, warming, ratesPublisher, failures,
                   parted, cachedRates, verifiedRate, launches, published>>

\* The serial queue's next write, a transaction.
UpsertRates ==
    /\ rateWriteQueue # <<>>
    /\ rateWriteQueue' = Tail(rateWriteQueue)
    /\ \/ rate' = Over(Head(rateWriteQueue), rate) /\ UNCHANGED <<failures, parted>>
       \/ Fails(DOMAIN Head(rateWriteQueue)) /\ UNCHANGED rate
    /\ UNCHANGED <<serverVars, responses, exchangeRates, warming, ratesPublisher,
                   cachedRates, verifiedRate, launches, published>>

\* The currencies on their way to the controller or to its table.
OnTheirWay ==
    UNION ({DOMAIN ratesPublisher[i] : i \in 1..Len(ratesPublisher)}
               \cup {DOMAIN rateWriteQueue[i] : i \in 1..Len(rateWriteQueue)})

\* The process ends, whatever was queued is gone, and the next one starts: the
\* controller reads its table, the service's warm load is a task.
Relaunch ==
    /\ launches < MaxLaunches
    /\ launches' = launches + 1
    /\ responses' = {} /\ ratesPublisher' = <<>> /\ rateWriteQueue' = <<>>
    /\ exchangeRates' = [c \in Currencies |-> NoProof]
    /\ warming' = TRUE
    /\ published' = {}
    /\ \/ cachedRates' = rate /\ parted' = parted \cup OnTheirWay /\ UNCHANGED failures
       \/ cachedRates' = [c \in Currencies |-> NoFx] /\ Fails(Currencies)
    /\ UNCHANGED <<serverVars, databaseVars>>

Next ==
    \/ ServerSigns \/ ProofGoesStale
    \/ \E b \in responses : HandleStale(b) \/ SaveRates(b)
    \/ WarmLoadFromStore \/ Clear
    \/ UpdateRates \/ UpsertRates
    \/ Relaunch

Spec == Init /\ [][Next]_vars

-----------------------------------------------------------------------------
(* Properties.                                                             *)

\* When nothing published is on its way, the screens show the rate a payment would be
\* signed with; save after the database lost a write or a read, and only until that
\* currency's rate changes again.
DisplayFollowsProofs ==
    ratesPublisher = <<>> =>
        \A c \in Currencies :
            \/ exchangeRates[c] = NoProof \/ exchangeRates[c].fx = cachedRates[c]
            \/ c \in parted \ published

\* The two tables, written at different times, agree once the queues are empty, save on
\* what a failure or a restart parted.
TablesAgree ==
    ratesPublisher = <<>> /\ rateWriteQueue = <<>> =>
        \A c \in Currencies \ parted :
            verifiedRate[c] # NoProof => rate[c] = verifiedRate[c].fx

\* An older proof takes a newer one's place in memory only by a late response: the warm
\* load, whenever it runs, yields to the stream.
OlderProofHasACause ==
    [][\A c \in Currencies :
           exchangeRates'[c] # NoProof /\ exchangeRates'[c].at < exchangeRates[c].at =>
               \E b \in responses \ responses' : b.at = exchangeRates'[c].at]_vars

\* What RatesController.init's comment says: the stream overwrites a rate that was
\* read from the table.
StreamOverwritesDisplay ==
    [][\A b \in responses, c \in Currencies :
           c \in DOMAIN b.fx /\ SaveRates(b) =>
               cachedRates[c] = b.fx[c] \/ ratesPublisher' # <<>>]_vars

\* What saveRates' comment says: a payment is always signed with the freshest proof.
FreshestProof ==
    [][\A c \in Currencies :
           exchangeRates'[c] # NoProof => exchangeRates'[c].at >= exchangeRates[c].at]_vars
=============================================================================
