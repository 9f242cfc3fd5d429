------------------------------ MODULE EventLog ------------------------------
(***************************************************************************)
(* One conversation's event log as this client keeps it: the server's log, *)
(* the message rows and catch-up cursor in the database, and the cursor in *)
(* memory, with every path that writes them -- live events, the deprecated *)
(* overlay, confirmed sends, GetDelta with its batches and its reset, the  *)
(* newest page, older pages, the feed -- and every write that may fail.    *)
(*                                                                         *)
(* A mutation is named by its event sequence.  An event here carries one   *)
(* mutation (count = 1).  The row of a message is known by the mutations   *)
(* it includes: `stored` holds s when the row of Log[s].id is at version s *)
(* or newer, so the row itself is at the newest stored mutation.           *)
(*                                                                         *)
(* ConversationStore's pending sends, read pointers, activity dates and    *)
(* hidden flags are left out: none of them decides which rows or cursors   *)
(* are written, but for hasMessages in CatchUp's guard.                    *)
(***************************************************************************)
EXTENDS Integers, Sequences, FiniteSets

CONSTANTS
    Log,       \* the mutations the server makes: of which message, left how
    MaxUpdate, \* events in one live update
    PageSize,  \* messages in a page of GetMessages
    MaxCalls   \* calls to the server in flight at a time

ASSUME EventLogAssumption ==
    /\ Log \in Seq([id : Nat \ {0}, deleted : BOOLEAN])
    /\ MaxUpdate \in Nat
    /\ MaxCalls \in Nat
    /\ PageSize \in Nat \ {0}

VARIABLES
    head,       \* how many of them it has made
    stored,     \* rows of conversation_message, as the mutations they include
    dbConv,     \* the conversation has a row
    dbCursor,   \* its catchupCursor, 0 for none
    running,    \* the process runs, hydrated and subscribed
    inFeed,     \* the store holds the conversation
    preview,    \* its lastMessage: a set of at most one mutation
    cursor,     \* appliedCursorByConversation, 0 for none
    pageCall,   \* loadMessages' getMessages in flight
    olderCall,  \* loadOlderMessages' getMessages in flight before this id
    hasMore,    \* olderPageState.hasMore
    delta,      \* the catch-up in flight, after what it has asked for or received
    gapTimer,   \* gapCatchUpTasks holds a task
    passedOver  \* history: what a cursor was seated over without being stored

database == <<stored, dbConv, dbCursor>>
calls == <<pageCall, olderCall, hasMore, delta>>
vars == <<head, database, running, inFeed, preview, cursor, calls, gapTimer, passedOver>>

-----------------------------------------------------------------------------
(* The server's log and what it answers from it *)

None == -1
Sequences == 1..head
Minted(n) == {Log[s].id : s \in 1..n}

\* s is its message's latest mutation among the first n.
CurrentAt(s, n) == s <= n /\ \A t \in 1..n : Log[t].id = Log[s].id => t <= s
Current(s) == CurrentAt(s, head)

\* The newest PageSize messages of those with these ids, in their state at n.
Page(n, ids) ==
    {s \in 1..n : /\ CurrentAt(s, n) /\ Log[s].id \in ids
                  /\ Cardinality({j \in ids : Log[s].id < j}) < PageSize}
PageBelow(n, before) == Page(n, {j \in Minted(n) : j < before})
NewestPage(n) == Page(n, Minted(n))

Newest(S) == {s \in S : \A t \in S : Log[t].id <= Log[s].id}
LastMessage(n) == Newest({s \in 1..n : CurrentAt(s, n)})

-----------------------------------------------------------------------------
(* The database *)

\* Mutant: the row is replaced whatever its version.
UpsertReplaces(rows, S) ==
    {t \in rows : \A s \in S : Log[s].id # Log[t].id}
    \union {t \in Sequences : \E s \in S : Log[t].id = Log[s].id /\ t <= s}

\* writeMessage: the version with the higher event sequence wins.
Upsert(rows, S) ==
    rows \union {t \in Sequences : \E s \in S : Log[t].id = Log[s].id /\ t <= s}

Rows(rows) == {s \in rows : \A t \in rows : Log[t].id = Log[s].id => t <= s}
Visible(rows) == {s \in Rows(rows) : ~Log[s].deleted}

\* persistMessages: forward only, and only onto an existing row.
Advanced(seat) == IF dbConv /\ seat > dbCursor THEN seat ELSE dbCursor

\* dropStaleEpochIfNeeded: a page that starts above every row drops them all.
IsStaleEpoch(page) == \A t \in stored, s \in page : Log[t].id < Log[s].id
KeptUnder(page) == IF page # {} /\ IsStaleEpoch(page) THEN {} ELSE stored

\* updateCatchupCursor: any value, onto an existing row.
Reseated(value) == IF dbConv THEN value ELSE dbCursor

-----------------------------------------------------------------------------
(* The store and its feed row *)

Higher(a, b) == IF a > b THEN a ELSE b

\* setFeedPreview's comparison: the preview is as new as the candidate.
IsNoOlder(p, v) ==
    \E s \in p, t \in v : Log[s].id > Log[t].id \/ (Log[s].id = Log[t].id /\ s >= t)

\* refreshFeedPreview: the newest visible row, never an older one, unless
\* the newest row of all is a tombstone.
FreshPreview(rows, p) ==
    LET visible == Newest(Visible(rows))
        newestIsTombstone == Newest(Rows(rows)) # visible
    IN IF visible = {} \/ (~newestIsTombstone /\ IsNoOlder(p, visible)) THEN p ELSE visible

Refreshed(rows) == IF inFeed THEN FreshPreview(rows, preview) ELSE preview

\* persistConversation: the row, if the store has the conversation, and with
\* it the preview as a message row, unless the write fails.
PersistConversation(rows, p) ==
    \/ inFeed /\ stored' = Upsert(rows, p) /\ dbConv' = TRUE
    \/ stored' = rows /\ UNCHANGED dbConv

\* The end of every stream handler: the preview of what the database now
\* holds, then the conversation.
PreviewAndPersist(rows) ==
    /\ preview' = Refreshed(rows)
    /\ PersistConversation(rows, preview')

\* applyChatEvents: the frontier moves over the events that follow it without
\* a hole; an unestablished one does not move.
IsFrontier(f, E) ==
    IF cursor = 0 THEN f = 0
    ELSE f >= cursor /\ (cursor + 1)..f \subseteq E /\ f + 1 \notin E

NoDelta == [phase |-> "idle", after |-> 0, upTo |-> 0, failed |-> FALSE]
CallsInFlight ==
    Cardinality({c \in {"page", "older", "delta"} :
                   \/ c = "page" /\ pageCall # None
                   \/ c = "older" /\ olderCall # None
                   \/ c = "delta" /\ delta # NoDelta})
MayCall == CallsInFlight < MaxCalls

Init ==
    /\ head = 0
    /\ stored = {} /\ dbConv = FALSE /\ dbCursor = 0
    /\ running = FALSE
    /\ inFeed = FALSE /\ preview = {} /\ cursor = 0
    /\ pageCall = None /\ olderCall = None /\ hasMore = TRUE
    /\ delta = NoDelta /\ gapTimer = FALSE
    /\ passedOver = {}

-----------------------------------------------------------------------------
(* The server *)

\* A message is sent, edited or deleted.
Mutate ==
    /\ head < Len(Log)
    /\ head' = head + 1
    /\ UNCHANGED <<database, running, inFeed, preview, cursor, calls, gapTimer, passedOver>>

-----------------------------------------------------------------------------
(* Start and kill *)

\* start: hydrateFromDatabase seeds the store from the rows, unless the read
\* fails or finds nothing; then the stream opens.
Start ==
    /\ ~running
    /\ running' = TRUE
    /\ \/ /\ dbConv
          /\ inFeed' = TRUE
          /\ preview' = Newest(Visible(stored))
          /\ cursor' = dbCursor
       \/ UNCHANGED <<inFeed, preview, cursor>>
    /\ UNCHANGED <<head, database, calls, gapTimer, passedOver>>

\* The process ends: only the database survives.
Kill ==
    /\ running
    /\ running' = FALSE
    /\ inFeed' = FALSE /\ preview' = {} /\ cursor' = 0
    /\ pageCall' = None /\ olderCall' = None /\ hasMore' = TRUE
    /\ delta' = NoDelta /\ gapTimer' = FALSE
    /\ UNCHANGED <<head, database, passedOver>>

-----------------------------------------------------------------------------
(* The event stream *)

\* A live update of any events, late, repeated or with others missing: the
\* frontier moves first, then rows and cursor are written together; an event
\* beyond a hole calls for a catch-up.
ChatEvents(E) ==
    /\ running
    /\ \E f \in 0..head :
         /\ IsFrontier(f, E)
         /\ cursor' = f
         /\ dbCursor' = Advanced(f)
         /\ gapTimer' = (gapTimer \/ (cursor > 0 /\ \E e \in E : e > f))
    /\ PreviewAndPersist(Upsert(stored, E))
    /\ UNCHANGED <<head, running, inFeed, calls, passedOver>>

\* Mutant: the frontier stays where the events left it.
ChatEventsUnwrittenKeepsFrontier ==
    /\ running /\ head > 0
    /\ \E E \in SUBSET Sequences : \E f \in 0..head : IsFrontier(f, E) /\ cursor' = f
    /\ gapTimer' = TRUE
    /\ PreviewAndPersist(stored)
    /\ UNCHANGED <<head, dbCursor, running, inFeed, calls, passedOver>>

\* The write fails: the frontier goes back to the database's, read again, and
\* a catch-up is due.
ChatEventsUnwritten ==
    /\ running /\ head > 0
    /\ cursor' \in {0, dbCursor}
    /\ gapTimer' = TRUE
    /\ PreviewAndPersist(stored)
    /\ UNCHANGED <<head, dbCursor, running, inFeed, calls, passedOver>>

\* A row without a cursor: a message of the new_messages overlay, or the
\* confirmed copy of an own send.
NewMessage(s) ==
    /\ running
    /\ PreviewAndPersist(Upsert(stored, {s}))
    /\ UNCHANGED <<head, dbCursor, running, inFeed, cursor, calls, gapTimer, passedOver>>

NewMessageUnwritten ==
    /\ running /\ head > 0
    /\ gapTimer' = TRUE
    /\ PreviewAndPersist(stored)
    /\ UNCHANGED <<head, dbCursor, running, inFeed, cursor, calls, passedOver>>

\* A new activity date or read pointer: only the conversation is written.
ConversationTouched ==
    /\ running
    /\ PersistConversation(stored, preview)
    /\ UNCHANGED <<head, dbCursor, running, inFeed, preview, cursor, calls, gapTimer, passedOver>>

\* The store takes the conversation as it was after n mutations, and
\* persistConversation writes it.
Adopt(n) ==
    /\ running
    /\ inFeed' = TRUE
    /\ \/ stored' = Upsert(stored, LastMessage(n)) /\ dbConv' = TRUE
       \/ UNCHANGED <<stored, dbConv>>
    /\ UNCHANGED <<head, dbCursor, running, cursor, calls, gapTimer, passedOver>>

\* A full refresh on the stream: the preview is then that of the rows.
MetadataRefresh ==
    /\ head > 0
    /\ Adopt(head)
    /\ preview' = FreshPreview(stored', LastMessage(head))

\* getChat answers, however late, for a conversation the stream named before
\* the feed did.
ChatFetched(n) == Adopt(n) /\ preview' = LastMessage(n)

-----------------------------------------------------------------------------
(* The feed *)

\* loadFeed answers with the feed as of n mutations, however late: loads may
\* overlap.  A conversation it does not hold leaves the store, and its row goes
\* with its cursor; its messages stay.
FeedLoaded(n) ==
    /\ running
    /\ inFeed' = (n > 0)
    /\ preview' = LastMessage(n)
    /\ \/ /\ n > 0
          /\ stored' = Upsert(stored, LastMessage(n)) /\ dbConv' = TRUE
          /\ UNCHANGED dbCursor
       \/ /\ n = 0
          /\ dbConv' = FALSE /\ dbCursor' = 0
          /\ UNCHANGED stored
       \/ UNCHANGED database
    /\ UNCHANGED <<head, running, cursor, calls, gapTimer, passedOver>>

-----------------------------------------------------------------------------
(* The transcript's pages *)

\* What rows seated at `seat` leave behind: current mutations the cursor now
\* claims, and rows that were dropped, now or before.
LeftBehind(rows, seat) ==
    {s \in Sequences \ rows : Current(s) /\ (s <= seat \/ s \in stored \union passedOver)}

\* A newest page lands: a stale epoch is dropped, then page and cursor are
\* written together and the store's cursor follows.  The drop is a write of
\* its own, and may be all that happens.
PageLands(page, seat) ==
    \/ /\ stored' = Upsert(KeptUnder(page), page)
       /\ dbCursor' = Advanced(seat)
       /\ cursor' = Higher(cursor, seat)
       /\ passedOver' = LeftBehind(stored', seat)
    \/ /\ stored' \in {stored, KeptUnder(page)}
       /\ passedOver' = LeftBehind(stored', 0)
       /\ UNCHANGED <<dbCursor, cursor>>

\* Opening the chat.
LoadMessages ==
    /\ running /\ pageCall = None /\ MayCall
    /\ pageCall' = head
    /\ UNCHANGED <<head, database, running, inFeed, preview, cursor, olderCall, hasMore,
                   delta, gapTimer, passedOver>>

\* The cursor is seated at the page's highest event sequence.
MessagesLoaded(n) ==
    LET page == NewestPage(n)
    IN /\ pageCall # None /\ n = pageCall
       /\ pageCall' = None
       /\ \E top \in IF page = {} THEN {0} ELSE page :
            /\ \A s \in page : s <= top
            /\ PageLands(page, top)
       /\ preview' = Refreshed(stored')
       /\ UNCHANGED <<head, dbConv, running, inFeed, olderCall, hasMore, delta,
                      gapTimer>>

LoadFailed ==
    /\ pageCall # None
    /\ pageCall' = None
    /\ UNCHANGED <<head, database, running, inFeed, preview, cursor, olderCall, hasMore,
                   delta, gapTimer, passedOver>>

\* Paging back from the oldest row, answered from any state of the server's
\* that has it.
LoadOlder ==
    /\ running /\ hasMore /\ olderCall = None /\ MayCall
    /\ \E s \in stored :
         /\ \A t \in stored : Log[s].id <= Log[t].id
         /\ olderCall' = Log[s].id
    /\ UNCHANGED <<head, database, running, inFeed, preview, cursor, pageCall, hasMore,
                   delta, gapTimer, passedOver>>

OlderLoaded(n, ok) ==
    LET page == PageBelow(n, olderCall)
    IN /\ olderCall \in Minted(n)
       /\ olderCall' = None
       /\ hasMore' = (page # {})
       /\ stored' = IF ok THEN Upsert(stored, page) ELSE stored
       /\ UNCHANGED <<head, dbConv, dbCursor, running, inFeed, preview, cursor, pageCall,
                      delta, gapTimer, passedOver>>

OlderFailed ==
    /\ olderCall # None
    /\ olderCall' = None
    /\ UNCHANGED <<head, database, running, inFeed, preview, cursor, pageCall, hasMore,
                   delta, gapTimer, passedOver>>

-----------------------------------------------------------------------------
(* Catch-up *)

\* catchUp's guards: something is held, a pending send included, and no other
\* catch-up of the conversation is in flight.
MayCatchUp(pendingSend) ==
    /\ inFeed \/ stored # {} \/ cursor > 0 \/ pendingSend
    /\ delta = NoDelta /\ MayCall

Started == [phase |-> "asked", after |-> cursor, upTo |-> 0, failed |-> FALSE]

\* Foreground or reconnect, with the chat on screen.
CatchUp ==
    /\ running
    /\ \E pendingSend \in BOOLEAN : MayCatchUp(pendingSend)
    /\ delta' = Started
    /\ UNCHANGED <<head, database, running, inFeed, preview, cursor, pageCall, olderCall,
                   hasMore, gapTimer, passedOver>>

\* The debounce of a detected gap is over.
GapTimerFires ==
    /\ gapTimer /\ (delta = NoDelta => MayCall)
    /\ gapTimer' = FALSE
    /\ \E pendingSend \in BOOLEAN :
         delta' = IF MayCatchUp(pendingSend) THEN Started ELSE delta
    /\ UNCHANGED <<head, database, running, inFeed, preview, cursor, pageCall, olderCall,
                   hasMore, passedOver>>

\* The server opens the delta up to its head ...
DeltaOpened ==
    /\ delta.phase = "asked"
    /\ delta' = [phase |-> "streaming", after |-> delta.after, upTo |-> head, failed |-> FALSE]
    /\ UNCHANGED <<head, database, running, inFeed, preview, cursor, pageCall, olderCall,
                   hasMore, gapTimer, passedOver>>

\* ... and sends the messages changed since, by ascending event sequence.  A
\* batch is written with its checkpoint; only then does the cursor follow.
DeltaBatch(c, ok) ==
    LET batch == {s \in Sequences : CurrentAt(s, delta.upTo) /\ delta.after < s /\ s <= c}
    IN /\ delta.phase = "streaming"
       /\ c \in batch
       /\ IF ok
          THEN /\ stored' = Upsert(stored, batch)
               /\ dbCursor' = Advanced(c)
               /\ cursor' = Higher(cursor, c)
               /\ passedOver' = IF delta.failed THEN LeftBehind(stored', c) ELSE passedOver
          ELSE UNCHANGED <<stored, dbCursor, cursor, passedOver>>
       /\ delta' = [phase |-> "streaming", after |-> c, upTo |-> delta.upTo,
                    failed |-> delta.failed \/ ~ok]
       /\ preview' = Refreshed(stored')
       /\ UNCHANGED <<head, dbConv, running, inFeed, pageCall, olderCall, hasMore,
                      gapTimer>>

\* Mutant: the head is taken for the sequence of the next event.
DeltaCompletedOneBeyond(ok) ==
    /\ delta.phase = "streaming" /\ delta.after >= delta.upTo
    /\ delta' = NoDelta
    /\ cursor' = Higher(cursor, delta.upTo + 1)
    /\ dbCursor' = IF ok THEN Reseated(cursor') ELSE dbCursor
    /\ UNCHANGED <<head, stored, dbConv, running, inFeed, preview, pageCall,
                   olderCall, hasMore, gapTimer, passedOver>>

\* The delta is complete: the head is the cursor, unless a batch was lost.
DeltaCompleted(ok) ==
    /\ delta.phase = "streaming" /\ delta.after >= delta.upTo
    /\ delta' = NoDelta
    /\ IF delta.failed
       THEN /\ cursor' \in {0, dbCursor}
            /\ gapTimer' = TRUE
            /\ UNCHANGED dbCursor
       ELSE /\ cursor' = Higher(cursor, delta.upTo)
            /\ dbCursor' = IF ok /\ cursor' > 0 THEN Reseated(cursor') ELSE dbCursor
            /\ UNCHANGED gapTimer
    /\ UNCHANGED <<head, stored, dbConv, running, inFeed, preview, pageCall,
                   olderCall, hasMore, passedOver>>

DeltaFailed ==
    /\ delta.phase \in {"asked", "streaming"}
    /\ delta' = NoDelta
    /\ UNCHANGED <<head, database, running, inFeed, preview, cursor, pageCall, olderCall,
                   hasMore, gapTimer, passedOver>>

\* RESET_REQUIRED: the cursor is behind what the server can resolve.  It is
\* discarded in memory and in the database and the newest page is asked for.
ResetRequired(ok) ==
    /\ delta.phase = "asked" /\ delta.after > 0 /\ delta.after < head
    /\ delta' = [phase |-> "resync", after |-> 0, upTo |-> head, failed |-> FALSE]
    /\ cursor' = 0
    /\ dbCursor' = IF ok THEN Reseated(0) ELSE dbCursor
    /\ UNCHANGED <<head, stored, dbConv, running, inFeed, preview, pageCall,
                   olderCall, hasMore, gapTimer, passedOver>>

\* The page of the re-sync is seated at its lowest event sequence.
ResyncLoaded(n) ==
    LET page == NewestPage(n)
    IN /\ delta.phase = "resync" /\ n >= delta.upTo
       /\ delta' = NoDelta
       /\ \E floor \in page : (\A s \in page : floor <= s) /\ PageLands(page, floor)
       /\ preview' = Refreshed(stored')
       /\ UNCHANGED <<head, dbConv, running, inFeed, pageCall, olderCall, hasMore,
                      gapTimer>>

ResyncFailed ==
    /\ delta.phase = "resync"
    /\ delta' = NoDelta
    /\ UNCHANGED <<head, database, running, inFeed, preview, cursor, pageCall, olderCall,
                   hasMore, gapTimer, passedOver>>

Process == Start \/ Kill
Stream ==
    \/ \E E \in SUBSET Sequences : Cardinality(E) \in 1..MaxUpdate /\ ChatEvents(E)
    \/ \E s \in Sequences : NewMessage(s)
    \/ ChatEventsUnwritten \/ NewMessageUnwritten \/ ConversationTouched
    \/ MetadataRefresh \/ \E n \in 1..head : ChatFetched(n)
Feed == \E n \in 0..head : FeedLoaded(n)
Pages ==
    \/ LoadMessages \/ LoadFailed \/ LoadOlder \/ OlderFailed
    \/ \E n \in 0..head : MessagesLoaded(n)
    \/ \E n \in 0..head, ok \in BOOLEAN : OlderLoaded(n, ok)
Delta ==
    \/ CatchUp \/ GapTimerFires \/ DeltaOpened \/ DeltaFailed \/ ResyncFailed
    \/ \E ok \in BOOLEAN : DeltaCompleted(ok) \/ ResetRequired(ok)
    \/ \E c \in Sequences, ok \in BOOLEAN : DeltaBatch(c, ok)
    \/ \E n \in 0..head : ResyncLoaded(n)

Next == Mutate \/ Process \/ Stream \/ Feed \/ Pages \/ Delta

Spec == Init /\ [][Next]_vars

-----------------------------------------------------------------------------
(* Properties *)

\* Cursors and snapshots lie within the log, and rows and previews name
\* mutations of it.
DeltaStates ==
    [phase : {"idle", "asked", "streaming", "resync"},
     after : 0..head, upTo : 0..head, failed : BOOLEAN]
TypeOK ==
    /\ head \in 0..Len(Log)
    /\ stored \subseteq Sequences /\ preview \subseteq Sequences
    /\ passedOver \subseteq Sequences
    /\ running \in BOOLEAN /\ dbConv \in BOOLEAN /\ inFeed \in BOOLEAN
    /\ gapTimer \in BOOLEAN /\ hasMore \in BOOLEAN
    /\ dbCursor \in 0..head /\ cursor \in 0..head
    /\ pageCall \in {None} \union 0..head
    /\ olderCall \in {None} \union Minted(head)
    /\ delta \in DeltaStates

\* Every message the server last changed at or below a cursor is stored in
\* that state, but for those a newest page was seated over and those of a
\* delta batch that failed to persist.
Covers(c) ==
    \A s \in Sequences :
       s <= c /\ Current(s) => s \in stored \union passedOver

\* Neither the cursor in memory nor the one a relaunch resumes from runs ahead
\* of the rows: not through a gap, a failed write, a batch cut short, a reset
\* or a kill.
CursorsRunBehindRows == Covers(cursor) /\ Covers(dbCursor)

\* A row never goes back to an older state of its message, whatever arrives
\* late, and rows go away only together, for newer messages than all of them.
RowsNeverRegress ==
    [][\/ stored \subseteq stored'
       \/ \A s \in stored, t \in stored' : Log[s].id < Log[t].id]_vars

\* "The interior gap would render seamlessly stitched and can never be
\* fetched (older paging anchors below the oldest persisted row). Drop the
\* stale older epoch" (ConversationController.swift:589-591): no message is
\* missing between two rows once the cursor is past it, where neither a delta
\* nor an older page asks for it.
UnfetchableGap ==
    \E s \in Sequences :
       /\ s <= cursor /\ Current(s) /\ s \notin stored
       /\ \E t \in stored : Log[t].id < Log[s].id
       /\ \E t \in stored : Log[t].id > Log[s].id
PageStitchesNoGap ==
    [][pageCall' # pageCall /\ UnfetchableGap' => UnfetchableGap]_vars
=============================================================================
