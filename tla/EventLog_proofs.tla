-------------------------- MODULE EventLog_proofs --------------------------
(* Proofs about EventLog: its types, rows that never go back, and cursors  *)
(* that never run ahead of the rows.                                       *)
EXTENDS EventLog, TLAPS

-----------------------------------------------------------------------------
(* Lemmas about the operators *)

LEMMA UpsertKeeps ==
    ASSUME NEW rows, NEW S
    PROVE  rows \subseteq Upsert(rows, S)
  BY DEF Upsert

LEMMA UpsertStaysInLog ==
    ASSUME NEW rows \in SUBSET Sequences, NEW S
    PROVE  Upsert(rows, S) \subseteq Sequences
  BY DEF Upsert

LEMMA UpsertTakes ==
    ASSUME NEW rows, NEW S \in SUBSET Sequences
    PROVE  S \subseteq Upsert(rows, S)
  BY DEF Upsert, Sequences

LEMMA PageInLog ==
    ASSUME NEW n, NEW ids
    PROVE  Page(n, ids) \subseteq 1..n
  BY DEF Page

LEMMA PreviewInRows ==
    ASSUME NEW rows, NEW p, NEW L, rows \subseteq L, p \subseteq L
    PROVE  FreshPreview(rows, p) \subseteq L
  BY DEF FreshPreview, Newest, Visible, Rows

LEMMA LastMessageInLog ==
    ASSUME NEW n
    PROVE  LastMessage(n) \subseteq 1..n
  BY DEF LastMessage, Newest

-----------------------------------------------------------------------------
(* Rows never go back *)

\* A page lands on rows that are kept, or dropped together.
LEMMA PageDropsOnlyEpochs ==
    ASSUME NEW page, NEW seat, PageLands(page, seat)
    PROVE  \/ stored \subseteq stored'
           \/ \A s \in stored, t \in stored' : Log[s].id < Log[t].id
<1>1. CASE KeptUnder(page) = stored
  BY <1>1, UpsertKeeps DEF PageLands
<1>2. CASE KeptUnder(page) # stored
  <2>1. KeptUnder(page) = {} /\ IsStaleEpoch(page)
    BY <1>2 DEF KeptUnder
  <2>2. CASE stored' = Upsert(KeptUnder(page), page)
    <3> SUFFICES ASSUME NEW s \in stored, NEW t \in stored'
                 PROVE  Log[s].id < Log[t].id
      OBVIOUS
    <3>1. PICK u \in page : Log[t].id = Log[u].id
      BY <2>1, <2>2 DEF Upsert
    <3> QED BY <2>1, <3>1 DEF IsStaleEpoch
  <2>3. CASE stored' \in {stored, KeptUnder(page)}
    BY <2>1, <2>3
  <2> QED BY <2>2, <2>3 DEF PageLands
<1> QED BY <1>1, <1>2

\* A row never goes back to an older state of its message, and rows go only
\* together, under newer ones (writeMessage, dropStaleEpochIfNeeded).
THEOREM RowsStay == Spec => RowsNeverRegress
<1>1. ASSUME [Next]_vars
      PROVE  \/ stored \subseteq stored'
             \/ \A s \in stored, t \in stored' : Log[s].id < Log[t].id
  <2> USE DEF database, calls
  <2>1. CASE UNCHANGED vars
    BY <2>1 DEF vars
  <2>2. CASE Mutate \/ Process
    BY <2>2 DEF Mutate, Process, Start, Kill
  <2>3. ASSUME NEW rows, PreviewAndPersist(rows), stored \subseteq rows
        PROVE  stored \subseteq stored'
    BY <2>3, UpsertKeeps DEF PreviewAndPersist, PersistConversation
  <2>4. CASE Stream
    <3>1. ASSUME NEW E, ChatEvents(E) PROVE stored \subseteq stored'
      BY <3>1, <2>3, UpsertKeeps DEF ChatEvents
    <3>2. ASSUME NEW s, NewMessage(s) PROVE stored \subseteq stored'
      BY <3>2, <2>3, UpsertKeeps DEF NewMessage
    <3>3. CASE ChatEventsUnwritten \/ NewMessageUnwritten
      BY <3>3, <2>3 DEF ChatEventsUnwritten, NewMessageUnwritten
    <3>5. CASE ConversationTouched
      BY <3>5, UpsertKeeps DEF ConversationTouched, PersistConversation
    <3>4. ASSUME NEW n, Adopt(n) PROVE stored \subseteq stored'
      BY <3>4, UpsertKeeps DEF Adopt
    <3> QED BY <2>4, <3>1, <3>2, <3>3, <3>4, <3>5 DEF Stream, MetadataRefresh, ChatFetched
  <2>5. CASE Feed
    BY <2>5, UpsertKeeps DEF Feed, FeedLoaded
  <2>6. CASE Pages
    <3>1. ASSUME NEW n, MessagesLoaded(n)
          PROVE  \/ stored \subseteq stored'
                 \/ \A s \in stored, t \in stored' : Log[s].id < Log[t].id
      BY <3>1, PageDropsOnlyEpochs DEF MessagesLoaded
    <3>2. ASSUME NEW n, NEW ok, OlderLoaded(n, ok)
          PROVE  stored \subseteq stored'
      BY <3>2, UpsertKeeps DEF OlderLoaded
    <3>3. CASE LoadMessages \/ LoadFailed \/ LoadOlder \/ OlderFailed
      BY <3>3 DEF LoadMessages, LoadFailed, LoadOlder, OlderFailed
    <3> QED BY <2>6, <3>1, <3>2, <3>3 DEF Pages
  <2>7. CASE Delta
    <3>1. ASSUME NEW n, ResyncLoaded(n)
          PROVE  \/ stored \subseteq stored'
                 \/ \A s \in stored, t \in stored' : Log[s].id < Log[t].id
      BY <3>1, PageDropsOnlyEpochs DEF ResyncLoaded
    <3>2. ASSUME NEW c, NEW ok, DeltaBatch(c, ok)
          PROVE  stored \subseteq stored'
      BY <3>2, UpsertKeeps DEF DeltaBatch
    <3>3. ASSUME NEW ok, DeltaCompleted(ok) \/ ResetRequired(ok)
          PROVE  stored = stored'
      BY <3>3 DEF DeltaCompleted, ResetRequired
    <3>4. CASE CatchUp \/ GapTimerFires \/ DeltaOpened \/ DeltaFailed \/ ResyncFailed
      BY <3>4 DEF CatchUp, GapTimerFires, DeltaOpened, DeltaFailed, ResyncFailed
    <3> QED BY <2>7, <3>1, <3>2, <3>3, <3>4 DEF Delta
  <2> QED BY <1>1, <2>1, <2>2, <2>4, <2>5, <2>6, <2>7 DEF Next
<1> QED BY <1>1, PTL DEF Spec, RowsNeverRegress

-----------------------------------------------------------------------------
(* Types *)

LEMMA StreamTypes ==
    ASSUME TypeOK, Stream
    PROVE  TypeOK'
<1> USE DEF TypeOK, database, calls, Sequences, Minted, DeltaStates
<1>1. ASSUME NEW rows \in SUBSET Sequences, PreviewAndPersist(rows)
      PROVE  /\ stored' \subseteq Sequences /\ preview' \subseteq Sequences
             /\ dbConv' \in BOOLEAN
  <2>1. Refreshed(rows) \subseteq Sequences
    BY <1>1, PreviewInRows DEF Refreshed
  <2>2. Upsert(rows, preview') \subseteq Sequences
    BY UpsertStaysInLog
  <2> QED BY <1>1, <2>1, <2>2 DEF PreviewAndPersist, PersistConversation
<1>2. ASSUME NEW E \in SUBSET Sequences, ChatEvents(E)
      PROVE  TypeOK'
  <2>1. Upsert(stored, E) \in SUBSET Sequences
    BY UpsertStaysInLog
  <2>2. cursor' \in 0..head /\ dbCursor' \in 0..head /\ gapTimer' \in BOOLEAN
    BY <1>2 DEF ChatEvents, Advanced
  <2> QED BY <1>1, <1>2, <2>1, <2>2 DEF ChatEvents
<1>3. ASSUME NEW s \in Sequences, NewMessage(s)
      PROVE  TypeOK'
  <2>1. Upsert(stored, {s}) \in SUBSET Sequences
    BY UpsertStaysInLog
  <2> QED BY <1>1, <1>3, <2>1 DEF NewMessage
<1>4. CASE ChatEventsUnwritten
  BY <1>1, <1>4 DEF ChatEventsUnwritten
<1>5. CASE NewMessageUnwritten
  BY <1>1, <1>5 DEF NewMessageUnwritten
<1>6. ASSUME NEW n \in Sequences, Adopt(n), preview' \subseteq stored' \union LastMessage(n)
      PROVE  TypeOK'
  <2>1. Upsert(stored, LastMessage(n)) \subseteq Sequences /\ LastMessage(n) \subseteq Sequences
    BY UpsertStaysInLog, LastMessageInLog
  <2> QED BY <1>6, <2>1 DEF Adopt
<1>7. CASE MetadataRefresh
  <2>1. preview' \subseteq stored' \union LastMessage(head)
    BY <1>7, PreviewInRows DEF MetadataRefresh
  <2> QED BY <1>6, <1>7, <2>1 DEF MetadataRefresh
<1>8. ASSUME NEW n \in Sequences, ChatFetched(n)
      PROVE  TypeOK'
  BY <1>6, <1>8 DEF ChatFetched
<1>9. CASE ConversationTouched
  <2>1. Upsert(stored, preview) \subseteq Sequences
    BY UpsertStaysInLog
  <2> QED BY <1>9, <2>1 DEF ConversationTouched, PersistConversation
<1> QED BY <1>2, <1>3, <1>4, <1>5, <1>7, <1>8, <1>9 DEF Stream

\* What a landing page leaves well typed.
LEMMA PageTypes ==
    ASSUME TypeOK, NEW page \in SUBSET Sequences, NEW seat \in 0..head, PageLands(page, seat),
           head' = head, inFeed' = inFeed, preview' = Refreshed(stored')
    PROVE  /\ stored' \subseteq Sequences /\ passedOver' \subseteq Sequences
           /\ preview' \subseteq Sequences
           /\ dbCursor' \in 0..head /\ cursor' \in 0..head
<1> USE DEF TypeOK, Sequences
<1>1. KeptUnder(page) \subseteq Sequences
  BY DEF KeptUnder
<1>2. Upsert(KeptUnder(page), page) \subseteq Sequences
  BY <1>1, UpsertStaysInLog
<1>3. stored' \subseteq Sequences
  BY <1>1, <1>2 DEF PageLands
<1>4. passedOver' \subseteq Sequences
  BY DEF PageLands, LeftBehind
<1>5. dbCursor' \in 0..head /\ cursor' \in 0..head
  BY DEF PageLands, Advanced, Higher
<1>6. preview' \subseteq Sequences
  BY <1>3, PreviewInRows DEF Refreshed
<1> QED BY <1>3, <1>4, <1>5, <1>6

LEMMA PagesTypes ==
    ASSUME TypeOK, Pages
    PROVE  TypeOK'
<1> USE DEF TypeOK, database, calls, Sequences, Minted, DeltaStates
<1>1. CASE LoadMessages
  BY <1>1 DEF LoadMessages
<1>2. CASE LoadFailed
  BY <1>2 DEF LoadFailed
<1>3. CASE LoadOlder
  BY <1>3 DEF LoadOlder
<1>4. CASE OlderFailed
  BY <1>4 DEF OlderFailed
<1>5. ASSUME NEW n \in 0..head, MessagesLoaded(n)
      PROVE  TypeOK'
  <2>1. NewestPage(n) \in SUBSET Sequences
    BY PageInLog DEF NewestPage
  <2>2. PICK top \in IF NewestPage(n) = {} THEN {0} ELSE NewestPage(n) :
             PageLands(NewestPage(n), top)
    BY <1>5 DEF MessagesLoaded
  <2>3. top \in 0..head
    BY <2>1
  <2>4. /\ stored' \subseteq Sequences /\ passedOver' \subseteq Sequences
        /\ preview' \subseteq Sequences
        /\ dbCursor' \in 0..head /\ cursor' \in 0..head
    BY <1>5, <2>1, <2>2, <2>3, PageTypes DEF MessagesLoaded
  <2> QED BY <1>5, <2>4 DEF MessagesLoaded
<1>6. ASSUME NEW n \in 0..head, NEW ok \in BOOLEAN, OlderLoaded(n, ok)
      PROVE  TypeOK'
  <2>1. Upsert(stored, PageBelow(n, olderCall)) \subseteq Sequences
    BY UpsertStaysInLog
  <2>2. stored' \subseteq Sequences /\ hasMore' \in BOOLEAN
    BY <1>6, <2>1 DEF OlderLoaded
  <2> QED BY <1>6, <2>2 DEF OlderLoaded
<1> QED BY <1>1, <1>2, <1>3, <1>4, <1>5, <1>6 DEF Pages

LEMMA IdleIsTyped ==
    ASSUME head \in Nat
    PROVE  NoDelta \in DeltaStates
  BY DEF NoDelta, DeltaStates

LEMMA DeltaTypes ==
    ASSUME TypeOK, Delta
    PROVE  TypeOK'
<1> USE DEF TypeOK, database, calls, Sequences, Minted, DeltaStates
<1>0. NoDelta \in DeltaStates
  BY IdleIsTyped
<1>1. CASE CatchUp
  BY <1>1 DEF CatchUp, Started
<1>8. CASE GapTimerFires
  <2>1. delta' \in DeltaStates
    BY <1>8 DEF GapTimerFires, Started
  <2> QED BY <1>8, <2>1 DEF GapTimerFires
<1>2. CASE DeltaOpened
  BY <1>2 DEF DeltaOpened
<1>3. CASE DeltaFailed \/ ResyncFailed
  BY <1>0, <1>3 DEF DeltaFailed, ResyncFailed
<1>4. ASSUME NEW ok \in BOOLEAN, DeltaCompleted(ok)
      PROVE  TypeOK'
  <2>1. cursor' \in 0..head
    BY <1>4 DEF DeltaCompleted, Higher
  <2>2. dbCursor' \in 0..head
    BY <1>4, <2>1 DEF DeltaCompleted, Reseated
  <2> QED BY <1>0, <1>4, <2>1, <2>2 DEF DeltaCompleted
<1>5. ASSUME NEW ok \in BOOLEAN, ResetRequired(ok)
      PROVE  TypeOK'
  BY <1>5 DEF ResetRequired, Reseated
<1>6. ASSUME NEW c \in Sequences, NEW ok \in BOOLEAN, DeltaBatch(c, ok)
      PROVE  TypeOK'
  <2>1. \A S : Upsert(stored, S) \subseteq Sequences
    BY UpsertStaysInLog
  <2>2. stored' \subseteq Sequences
    BY <1>6, <2>1 DEF DeltaBatch
  <2>3. dbCursor' \in 0..head /\ cursor' \in 0..head
    BY <1>6 DEF DeltaBatch, Advanced, Higher
  <2>4. passedOver' \subseteq Sequences
    BY <1>6 DEF DeltaBatch, LeftBehind
  <2>5. preview' \subseteq Sequences
    BY <1>6, <2>2, PreviewInRows DEF DeltaBatch, Refreshed
  <2>6. delta' \in DeltaStates
    BY <1>6 DEF DeltaBatch
  <2> QED BY <1>6, <2>2, <2>3, <2>4, <2>5, <2>6 DEF DeltaBatch
<1>7. ASSUME NEW n \in 0..head, ResyncLoaded(n)
      PROVE  TypeOK'
  <2>1. NewestPage(n) \in SUBSET Sequences
    BY PageInLog DEF NewestPage
  <2>2. PICK floor \in NewestPage(n) : PageLands(NewestPage(n), floor)
    BY <1>7 DEF ResyncLoaded
  <2>4. floor \in 0..head /\ head' = head /\ inFeed' = inFeed /\ preview' = Refreshed(stored')
    BY <1>7, <2>1 DEF ResyncLoaded
  <2>3. /\ stored' \subseteq Sequences /\ passedOver' \subseteq Sequences
        /\ preview' \subseteq Sequences
        /\ dbCursor' \in 0..head /\ cursor' \in 0..head
    BY <2>1, <2>2, <2>4, PageTypes
  <2> QED BY <1>0, <1>7, <2>3 DEF ResyncLoaded
<1> QED BY <1>1, <1>2, <1>3, <1>4, <1>5, <1>6, <1>7, <1>8 DEF Delta

\* Rows, cursors and calls stay within the log the server has made.
THEOREM TypesHold == Spec => []TypeOK
<1>1. Init => TypeOK
  <2>1. Len(Log) \in Nat
    BY EventLogAssumption
  <2> SUFFICES ASSUME Init PROVE TypeOK
    OBVIOUS
  <2>2. delta \in DeltaStates
    BY IdleIsTyped DEF Init, DeltaStates
  <2>3. head \in 0..Len(Log) /\ dbCursor \in 0..head /\ cursor \in 0..head
    BY <2>1 DEF Init
  <2>4. /\ stored \subseteq Sequences /\ preview \subseteq Sequences
        /\ passedOver \subseteq Sequences
    BY DEF Init
  <2> QED BY <2>2, <2>3, <2>4 DEF Init, TypeOK
<1>2. TypeOK /\ [Next]_vars => TypeOK'
  <2> SUFFICES ASSUME TypeOK, [Next]_vars PROVE TypeOK'
    OBVIOUS
  <2> USE DEF TypeOK, database, calls, Sequences, Minted, DeltaStates
  <2>1. CASE UNCHANGED vars
    BY <2>1 DEF vars
  <2>2. CASE Mutate
    BY <2>2, EventLogAssumption DEF Mutate
  <2>3. CASE Process
    <3>1. CASE Start
      <4>1. Newest(Visible(stored)) \subseteq Sequences
        BY DEF Newest, Visible, Rows
      <4> QED BY <3>1, <4>1 DEF Start
    <3>2. CASE Kill
      <4>1. delta' \in DeltaStates
        BY <3>2, IdleIsTyped DEF Kill
      <4>2. /\ pageCall' \in {None} \union 0..head'
            /\ olderCall' \in {None} \union Minted(head)'
        BY <3>2 DEF Kill
      <4>3. preview' \subseteq Sequences' /\ cursor' \in 0..head'
        BY <3>2 DEF Kill
      <4> QED BY <3>2, <4>1, <4>2, <4>3 DEF Kill
    <3> QED BY <2>3, <3>1, <3>2 DEF Process
  <2>4. CASE Feed
    <3>1. ASSUME NEW n \in 0..head, FeedLoaded(n)
          PROVE  TypeOK'
      <4>1. Upsert(stored, LastMessage(n)) \subseteq Sequences /\ LastMessage(n) \subseteq Sequences
        BY UpsertStaysInLog, LastMessageInLog
      <4>2. inFeed' \in BOOLEAN
        BY <3>1 DEF FeedLoaded
      <4>4. dbConv' \in BOOLEAN
        BY <3>1 DEF FeedLoaded
      <4>3. stored' \subseteq Sequences /\ preview' \subseteq Sequences /\ dbCursor' \in 0..head
        BY <3>1, <4>1 DEF FeedLoaded
      <4> QED BY <3>1, <4>2, <4>3, <4>4 DEF FeedLoaded
    <3> QED BY <2>4, <3>1 DEF Feed
  <2> QED BY <2>1, <2>2, <2>3, <2>4, StreamTypes, PagesTypes, DeltaTypes DEF Next
<1> QED BY <1>1, <1>2, PTL DEF Spec

-----------------------------------------------------------------------------
(* Cursors run behind the rows *)

\* The catch-up in flight asks for what follows rows that are held, and what it
\* has received, no batch lost, is held.
CatchUpRunsBehindRows ==
    delta.phase = "asked" \/ (delta.phase = "streaming" /\ ~delta.failed)
       => Covers(delta.after)

CursorInv == CursorsRunBehindRows /\ CatchUpRunsBehindRows

\* Steps lose no current row unnoticed; and a value covered in the next state.
NothingLost ==
    /\ head' \in {head, head + 1}
    /\ \A s \in stored \union passedOver : Current(s) => s \in stored' \union passedOver'
CoversNext(c) ==
    \A s \in 1..head' : s <= c /\ CurrentAt(s, head') => s \in stored' \union passedOver'

LEMMA StaysCovered ==
    ASSUME TypeOK, NothingLost, NEW c \in 0..head, Covers(c)
    PROVE  CoversNext(c)
<1> SUFFICES ASSUME NEW s \in 1..head', s <= c, CurrentAt(s, head')
             PROVE  s \in stored' \union passedOver'
  BY DEF CoversNext
<1>1. head \in Nat /\ s \in Sequences
  BY EventLogAssumption DEF TypeOK, NothingLost, Sequences
<1>2. Current(s)
  BY <1>1 DEF Current, CurrentAt, NothingLost, Sequences
<1> QED BY <1>1, <1>2 DEF Covers, NothingLost

\* What seats no cursor beyond the rows, and starts a catch-up only from the
\* cursor, keeps the invariant.
LEMMA CarefulStep ==
    ASSUME TypeOK, CursorInv, NothingLost,
           cursor' \in {0, cursor, dbCursor} \/ CoversNext(cursor'),
           dbCursor' \in {0, dbCursor} \/ CoversNext(dbCursor'),
           delta' \in {delta, NoDelta, Started} \/ delta'.phase = "resync"
    PROVE  CursorInv'
<1>1. CoversNext(0)
  BY DEF CoversNext
<1>2. CoversNext(cursor) /\ CoversNext(dbCursor)
  BY StaysCovered DEF CursorInv, CursorsRunBehindRows, TypeOK
<1>3. CoversNext(cursor') /\ CoversNext(dbCursor')
  BY <1>1, <1>2
<1>4. CursorsRunBehindRows'
  BY <1>3 DEF CursorsRunBehindRows, Covers, CoversNext, Current, Sequences
<1>5. CatchUpRunsBehindRows'
  <2>1. CASE delta' = delta
    <3>1. delta.after \in 0..head
      BY DEF TypeOK, DeltaStates
    <3>2. delta.phase = "asked" \/ (delta.phase = "streaming" /\ ~delta.failed)
            => CoversNext(delta.after)
      BY <3>1, StaysCovered DEF CursorInv, CatchUpRunsBehindRows
    <3> QED BY <2>1, <3>2
            DEF CatchUpRunsBehindRows, Covers, CoversNext, Current, Sequences
  <2>2. CASE delta' = NoDelta \/ delta'.phase = "resync"
    BY <2>2 DEF CatchUpRunsBehindRows, NoDelta
  <2>3. CASE delta' = Started
    <3>1. delta'.phase = "asked" /\ delta'.after = cursor
      BY <2>3 DEF Started
    <3> QED BY <1>2, <3>1
            DEF CatchUpRunsBehindRows, Covers, CoversNext, Current, Sequences
  <2> QED BY <2>1, <2>2, <2>3
<1> QED BY <1>4, <1>5 DEF CursorInv

\* A page is covered by what it writes and by what it is known to leave behind.
LEMMA PageCovers ==
    ASSUME TypeOK, NEW page, NEW seat \in 0..head, PageLands(page, seat), head' = head
    PROVE  /\ NothingLost
           /\ cursor' = cursor \/ CoversNext(cursor')
           /\ dbCursor' = dbCursor \/ CoversNext(dbCursor')
<1>1. NothingLost
  BY DEF PageLands, LeftBehind, NothingLost, TypeOK
<1>2. CASE passedOver' = LeftBehind(stored', seat)
  <2>1. CoversNext(seat)
    BY <1>2 DEF CoversNext, LeftBehind, Current, Sequences
  <2>2. cursor' \in {cursor, seat} /\ dbCursor' \in {dbCursor, seat}
    BY DEF PageLands, Higher, Advanced
  <2> QED BY <1>1, <2>1, <2>2
<1>3. CASE UNCHANGED <<dbCursor, cursor>>
  BY <1>1, <1>3
<1> QED BY <1>2, <1>3 DEF PageLands

LEMMA StreamCovers ==
    ASSUME TypeOK, CursorInv, Stream
    PROVE  CursorInv'
<1> USE DEF database, calls
<1>1. ASSUME NEW rows, PreviewAndPersist(rows), stored \subseteq rows
      PROVE  rows \subseteq stored'
  BY <1>1, UpsertKeeps DEF PreviewAndPersist, PersistConversation
<1>2. ASSUME NEW E \in SUBSET Sequences, ChatEvents(E)
      PROVE  CursorInv'
  <2>1. stored \subseteq stored' /\ E \subseteq stored'
    <3>1. stored \subseteq Upsert(stored, E) /\ E \subseteq Upsert(stored, E)
      BY UpsertKeeps, UpsertTakes
    <3> QED BY <1>1, <1>2, <3>1 DEF ChatEvents
  <2>2. NothingLost
    BY <1>2, <2>1 DEF ChatEvents, NothingLost
  <2>3. PICK f \in 0..head : IsFrontier(f, E) /\ cursor' = f /\ dbCursor' = Advanced(f)
    BY <1>2 DEF ChatEvents
  <2>4. CoversNext(f)
    <3> SUFFICES ASSUME NEW s \in 1..head', s <= f, CurrentAt(s, head')
                 PROVE  s \in stored' \union passedOver'
      BY DEF CoversNext
    <3>1. head' = head /\ cursor \in 0..head /\ cursor # 0
      BY <1>2, <2>3 DEF ChatEvents, TypeOK, IsFrontier
    <3>2. CoversNext(cursor)
      BY <2>2, <3>1, StaysCovered DEF CursorInv, CursorsRunBehindRows
    <3>3. CASE s <= cursor
      BY <3>2, <3>3 DEF CoversNext
    <3>4. CASE ~(s <= cursor)
      BY <2>1, <2>3, <3>1, <3>4 DEF IsFrontier
    <3> QED BY <3>3, <3>4
  <2>5. delta' = delta
    BY <1>2 DEF ChatEvents
  <2> QED BY <2>2, <2>3, <2>4, <2>5, CarefulStep DEF Advanced
<1>3. ASSUME NEW s, NewMessage(s)
      PROVE  CursorInv'
  <2>1. NothingLost
    BY <1>1, <1>3, UpsertKeeps DEF NewMessage, NothingLost
  <2> QED BY <1>3, <2>1, CarefulStep DEF NewMessage
<1>4. CASE ChatEventsUnwritten
  <2>1. NothingLost
    BY <1>1, <1>4 DEF ChatEventsUnwritten, NothingLost
  <2> QED BY <1>4, <2>1, CarefulStep DEF ChatEventsUnwritten
<1>5. CASE NewMessageUnwritten
  <2>1. NothingLost
    BY <1>1, <1>5 DEF NewMessageUnwritten, NothingLost
  <2> QED BY <1>5, <2>1, CarefulStep DEF NewMessageUnwritten
<1>6. ASSUME NEW n, Adopt(n)
      PROVE  CursorInv'
  <2>1. NothingLost
    BY <1>6, UpsertKeeps DEF Adopt, NothingLost
  <2> QED BY <1>6, <2>1, CarefulStep DEF Adopt
<1>7. CASE ConversationTouched
  <2>1. NothingLost
    BY <1>7, UpsertKeeps DEF ConversationTouched, PersistConversation, NothingLost
  <2> QED BY <1>7, <2>1, CarefulStep DEF ConversationTouched
<1> QED BY <1>2, <1>3, <1>4, <1>5, <1>6, <1>7 DEF Stream, MetadataRefresh, ChatFetched

LEMMA PagesCover ==
    ASSUME TypeOK, CursorInv, Pages
    PROVE  CursorInv'
<1> USE DEF database, calls
<1>1. ASSUME NEW n \in 0..head, MessagesLoaded(n)
      PROVE  CursorInv'
  <2>1. PICK top \in IF NewestPage(n) = {} THEN {0} ELSE NewestPage(n) :
             PageLands(NewestPage(n), top)
    BY <1>1 DEF MessagesLoaded
  <2>2. top \in 0..head /\ head' = head /\ delta' = delta
    BY <1>1, <2>1, PageInLog DEF MessagesLoaded, NewestPage, TypeOK
  <2> QED BY <2>1, <2>2, PageCovers, CarefulStep
<1>2. ASSUME NEW n, NEW ok, OlderLoaded(n, ok)
      PROVE  CursorInv'
  <2>1. NothingLost
    BY <1>2, UpsertKeeps DEF OlderLoaded, NothingLost
  <2> QED BY <1>2, <2>1, CarefulStep DEF OlderLoaded
<1>3. CASE LoadMessages \/ LoadFailed \/ LoadOlder \/ OlderFailed
  <2>1. UNCHANGED <<head, stored, passedOver, cursor, dbCursor, delta>>
    BY <1>3 DEF LoadMessages, LoadFailed, LoadOlder, OlderFailed
  <2> QED BY <2>1, CarefulStep DEF NothingLost
<1> QED BY <1>1, <1>2, <1>3 DEF Pages

\* The catch-up: what a batch leaves covered, in order or after a lost one.
LEMMA BatchCovers ==
    ASSUME TypeOK, CursorInv, NEW c \in Sequences, NEW ok \in BOOLEAN, DeltaBatch(c, ok)
    PROVE  CursorInv'
<1>1. /\ delta.phase = "streaming" /\ head' = head
      /\ delta'.phase = "streaming" /\ delta'.after = c
      /\ delta'.failed = (delta.failed \/ ~ok)
  BY DEF DeltaBatch
<1>2. NothingLost
  <2>1. /\ stored \subseteq stored'
        /\ passedOver' = passedOver \/ passedOver' = LeftBehind(stored', c)
    BY UpsertKeeps DEF DeltaBatch
  <2>2. passedOver \subseteq Sequences
    BY DEF TypeOK
  <2> QED BY <1>1, <2>1, <2>2 DEF NothingLost, LeftBehind
<1>3. delta.after \in 0..head /\ delta.upTo \in 0..head
      /\ c \in 0..head /\ cursor \in 0..head /\ dbCursor \in 0..head
  BY DEF TypeOK, DeltaStates, Sequences
<1>4. CoversNext(cursor) /\ CoversNext(dbCursor)
  BY <1>1, <1>2, <1>3, StaysCovered DEF CursorInv, CursorsRunBehindRows
<1>5. ok => CoversNext(c)
  <2> SUFFICES ASSUME ok, NEW s \in 1..head', s <= c, CurrentAt(s, head')
               PROVE  s \in stored' \union passedOver'
    BY DEF CoversNext
  <2>1. CASE delta.failed
    <3>1. passedOver' = LeftBehind(stored', c)
      BY <2>1 DEF DeltaBatch
    <3> QED BY <1>1, <3>1 DEF LeftBehind, Current, CurrentAt, Sequences
  <2>2. CASE ~delta.failed
    <3> DEFINE batch == {t \in Sequences : CurrentAt(t, delta.upTo) /\ delta.after < t /\ t <= c}
    <3>1. batch \subseteq stored'
      <4>1. stored' = Upsert(stored, batch)
        BY DEF DeltaBatch
      <4> QED BY <4>1, UpsertTakes
    <3>2. CASE s <= delta.after
      <4>1. CoversNext(delta.after)
        BY <1>1, <1>2, <1>3, <2>2, StaysCovered DEF CursorInv, CatchUpRunsBehindRows
      <4> QED BY <3>2, <4>1 DEF CoversNext
    <3>3. CASE ~(s <= delta.after)
      <4>1. c <= delta.upTo
        BY DEF DeltaBatch, CurrentAt
      <4>2. s \in Sequences /\ delta.after < s /\ s <= c
        BY <1>1, <1>3, <3>3 DEF Sequences
      <4>3. CurrentAt(s, delta.upTo)
        <5>1. s <= delta.upTo
          BY <1>3, <4>1, <4>2 DEF Sequences
        <5>2. \A t \in 1..delta.upTo : t \in 1..head'
          <6>1. head \in Nat
            BY EventLogAssumption DEF TypeOK
          <6> QED BY <1>1, <1>3, <6>1
        <5> QED BY <5>1, <5>2 DEF CurrentAt
      <4> QED BY <3>1, <4>2, <4>3
    <3> QED BY <3>2, <3>3
  <2> QED BY <2>1, <2>2
<1>6. CoversNext(cursor') /\ CoversNext(dbCursor')
  BY <1>4, <1>5 DEF DeltaBatch, Advanced, Higher
<1>7. CursorsRunBehindRows'
  BY <1>6 DEF CursorsRunBehindRows, Covers, CoversNext, Current, Sequences
<1>8. CatchUpRunsBehindRows'
  BY <1>1, <1>4, <1>5 DEF CatchUpRunsBehindRows, Covers, CoversNext, Current, Sequences
<1> QED BY <1>7, <1>8 DEF CursorInv

LEMMA DeltaCovers ==
    ASSUME TypeOK, CursorInv, Delta
    PROVE  CursorInv'
<1> USE DEF database, calls
<1>1. CASE CatchUp \/ GapTimerFires \/ DeltaFailed \/ ResyncFailed
  <2>1. UNCHANGED <<head, stored, passedOver, cursor, dbCursor>>
    BY <1>1 DEF CatchUp, GapTimerFires, DeltaFailed, ResyncFailed
  <2>2. delta' \in {delta, NoDelta, Started}
    BY <1>1 DEF CatchUp, GapTimerFires, DeltaFailed, ResyncFailed
  <2> QED BY <2>1, <2>2, CarefulStep DEF NothingLost
<1>2. CASE DeltaOpened
  <2>1. UNCHANGED <<head, stored, passedOver, cursor, dbCursor>>
    BY <1>2 DEF DeltaOpened
  <2>2. delta.phase = "asked" /\ delta'.after = delta.after /\ ~delta'.failed
    BY <1>2 DEF DeltaOpened
  <2>3. Covers(delta.after) /\ CursorsRunBehindRows
    BY <1>2, <2>2 DEF CursorInv, CatchUpRunsBehindRows
  <2> QED BY <2>1, <2>2, <2>3
          DEF CursorInv, CursorsRunBehindRows, CatchUpRunsBehindRows, Covers, Current,
              CurrentAt, Sequences
<1>3. ASSUME NEW ok \in BOOLEAN, DeltaCompleted(ok)
      PROVE  CursorInv'
  <2>1. UNCHANGED <<head, stored, passedOver>> /\ delta' = NoDelta
    BY <1>3 DEF DeltaCompleted
  <2>2. NothingLost
    BY <2>1 DEF NothingLost
  <2>3. CASE delta.failed
    BY <1>3, <2>1, <2>2, <2>3, CarefulStep DEF DeltaCompleted
  <2>4. CASE ~delta.failed
    <3>1. /\ delta.phase = "streaming" /\ delta.after \in 0..head /\ delta.upTo <= delta.after
          /\ delta.upTo \in 0..head /\ cursor \in 0..head
      BY <1>3 DEF DeltaCompleted, TypeOK, DeltaStates
    <3>2. Covers(delta.after)
      BY <2>4, <3>1 DEF CursorInv, CatchUpRunsBehindRows
    <3>3. Covers(delta.upTo)
      BY <3>1, <3>2, EventLogAssumption DEF Covers, Sequences, TypeOK
    <3>4. CoversNext(delta.upTo) /\ CoversNext(cursor)
      BY <2>2, <3>1, <3>3, StaysCovered DEF CursorInv, CursorsRunBehindRows
    <3>5. cursor' \in {cursor, delta.upTo} /\ dbCursor' \in {dbCursor, cursor'}
      BY <1>3, <2>4 DEF DeltaCompleted, Higher, Reseated
    <3> QED BY <2>1, <2>2, <3>4, <3>5, CarefulStep
  <2> QED BY <2>3, <2>4
<1>4. ASSUME NEW ok \in BOOLEAN, ResetRequired(ok)
      PROVE  CursorInv'
  <2>1. UNCHANGED <<head, stored, passedOver>> /\ delta'.phase = "resync"
    BY <1>4 DEF ResetRequired
  <2>2. cursor' = 0 /\ dbCursor' \in {0, dbCursor}
    BY <1>4 DEF ResetRequired, Reseated
  <2> QED BY <2>1, <2>2, CarefulStep DEF NothingLost
<1>5. ASSUME NEW n \in 0..head, ResyncLoaded(n)
      PROVE  CursorInv'
  <2>1. PICK floor \in NewestPage(n) : PageLands(NewestPage(n), floor)
    BY <1>5 DEF ResyncLoaded
  <2>2. floor \in 0..head /\ head' = head /\ delta' = NoDelta
    BY <1>5, <2>1, PageInLog DEF ResyncLoaded, NewestPage, TypeOK
  <2> QED BY <2>1, <2>2, PageCovers, CarefulStep
<1> QED BY <1>1, <1>2, <1>3, <1>4, <1>5, BatchCovers DEF Delta

\* Neither cursor runs ahead of the rows: what the server last changed at or
\* below it is stored in that state, or a newest page or a lost batch of a
\* delta is to blame (persistMessages' atomic cursor, reseatCursor).
THEOREM CursorsStayBehind == Spec => []CursorsRunBehindRows
<1>1. Init => CursorInv
  BY DEF Init, CursorInv, CursorsRunBehindRows, CatchUpRunsBehindRows, Covers, Sequences, NoDelta
<1>2. TypeOK /\ CursorInv /\ [Next]_vars => CursorInv'
  <2> SUFFICES ASSUME TypeOK, CursorInv, [Next]_vars PROVE CursorInv'
    OBVIOUS
  <2> USE DEF database, calls
  <2>1. CASE UNCHANGED vars
    <3>1. UNCHANGED <<head, stored, passedOver, cursor, dbCursor, delta>>
      BY <2>1 DEF vars
    <3> QED BY <3>1, CarefulStep DEF NothingLost
  <2>2. CASE Mutate \/ Process
    <3>1. /\ head' \in {head, head + 1} /\ UNCHANGED <<stored, passedOver, dbCursor>>
          /\ cursor' \in {0, cursor, dbCursor} /\ delta' \in {delta, NoDelta}
      BY <2>2 DEF Mutate, Process, Start, Kill
    <3> QED BY <3>1, CarefulStep DEF NothingLost
  <2>3. CASE Feed
    <3>1. /\ stored \subseteq stored' /\ UNCHANGED <<head, passedOver, cursor, delta>>
          /\ dbCursor' \in {0, dbCursor}
      BY <2>3, UpsertKeeps DEF Feed, FeedLoaded
    <3> QED BY <3>1, CarefulStep DEF NothingLost
  <2> QED BY <2>1, <2>2, <2>3, StreamCovers, PagesCover, DeltaCovers DEF Next
<1>3. CursorInv => CursorsRunBehindRows
  BY DEF CursorInv
<1> QED BY <1>1, <1>2, <1>3, TypesHold, PTL DEF Spec
=============================================================================
