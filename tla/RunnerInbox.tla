---------------------------- MODULE RunnerInbox ----------------------------
(***************************************************************************)
(* The input path of the SDK runner (packages/sdk-runner): chats, call     *)
(* words and notes are queued in bounded lanes, handed to the Agent SDK    *)
(* one at a time, and every chat is kept in a file until its turn is over  *)
(* so that a crash neither loses it nor runs it twice.                     *)
(*                                                                         *)
(*   inbox.ts, input-queue.ts   queue, lane, first, ledger, dispatched     *)
(*   session-watch.ts           awaiting, busy, hold                       *)
(*   session-store.ts           saved, interrupted, savedSession (a file)  *)
(*   runner.ts                  phase, compactAsked                        *)
(*   the Agent SDK (external)   session, transcript, sdkQueue, turn, events*)
(*                                                                         *)
(* An input is a natural number, given out in order of arrival within its  *)
(* lane. The queue, the ledger and the file each keep their own order.     *)
(***************************************************************************)
EXTENDS Naturals, Sequences, FiniteSets, FiniteSetsExt, Lists

CONSTANTS
    Chat, Call, Note,   \* the inputs of each lane
    Bytes,              \* size of each input
    Caps,               \* CAPS: how many of a lane (0 chat, 1 call, 2 note)
    BytesMax, InputMax, \* BYTES_MAX, INPUT_MAX
    LedgerMax,          \* LEDGER_MAX
    Sessions,           \* SDK session ids, numbered as they are created
    Uncorrelated,       \* may a result carry no input ids?
    Repeats,            \* may the SDK report a completion more than once?
    MaxStops,           \* bound: how often the process may go down
    None

Inputs == Chat \union Call \union Note
Lanes == 0..2

ASSUME InputsAssumption ==
    /\ Inputs \subseteq Nat /\ IsFiniteSet(Inputs)
    /\ Chat \intersect Call = {} /\ Chat \intersect Note = {} /\ Call \intersect Note = {}
    /\ None \notin Inputs

ASSUME BoundsAssumption ==
    /\ Bytes \in [Inputs -> Nat \ {0}]
    /\ Caps \in [Lanes -> Nat \ {0}]
    /\ {BytesMax, InputMax, LedgerMax, MaxStops} \subseteq Nat
    /\ Sessions \subseteq Nat \ {0}
    /\ {Uncorrelated, Repeats} \subseteq BOOLEAN

VARIABLES
    phase,         \* is the process "down", "recovered" (state file read and
                   \* rewritten, inputs not yet queued), "up", or "stopped"
    items,         \* InputQueue.items
    lane,          \* InputQueue.lane, the lane to serve next
    first,         \* InputQueue.first, a compaction request to serve first
    ledger,        \* Inbox.ledger: chats not yet answered
    ledgerOrder,   \* the insertion order of that Map
    dispatched,    \* Inbox.dispatched: chats handed to the SDK
    awaiting,      \* SessionWatch.awaitingInput
    busy,          \* SessionWatch.busy
    hold,          \* the SDK asks for approval in the main thread, or compacts
    compactAsked,  \* Runner.compactAsked
    known,         \* Runner.sessionId is set: the session was announced
    saved,         \* file: unanswered
    savedOrder,    \* the order of that array
    interrupted,   \* file: interrupted
    savedSession,  \* file: sessionId, 0 for null
    session,       \* SDK: the conversation this process runs, 0 for none
    transcript,    \* SDK: inputs written to each conversation's transcript
    sdkQueue,      \* SDK: inputs taken from the iterator, not yet consumed
    turn,          \* SDK: inputs the current turn works on
    events,        \* SDK messages the run loop has not read yet
    fate,          \* history: what became of each chat
    consumed,      \* history: chats whose start the runner has observed
    old,           \* chats that arrived more than LEDGER_AGE_MS ago
    arrived,       \* history: inputs that were ever accepted
    stops          \* how often the process went down

queueVars == <<items, lane, first>>
memory == <<ledger, ledgerOrder, dispatched, awaiting, busy, hold, compactAsked, known>>
file == <<saved, savedOrder, interrupted, savedSession>>
sdk == <<session, transcript, sdkQueue, turn, events>>
history == <<fate, consumed, old, arrived, stops>>
vars == <<phase, queueVars, memory, file, sdk, history>>

LedgerState == {"absent", "queued", "started"}
Fates == {"new", "open", "finished", "cancelled", "handled"}
Event == [type : {"init", "started", "completed", "result", "idle"}, ids : SUBSET Inputs]

Lane(l) == CASE l = 0 -> Chat [] l = 1 -> Call [] l = 2 -> Note
LaneOf(u) == IF u \in Chat THEN 0 ELSE IF u \in Call THEN 1 ELSE 2
Size(S) == MapThenSumSet(LAMBDA u : Bytes[u], S)
InLedger(l) == {u \in Chat : l[u] # "absent"}
NoLedger == [u \in Chat |-> "absent"]
Ev(type, ids) == [type |-> type, ids |-> ids]

\* The inputs that wait in the queue.
queue == Elements(items)

(***************************************************************************)
(* The queue.                                                              *)
(***************************************************************************)
\* InputQueue.accepts, for a queue that holds q
Fits(u, q) ==
    /\ Bytes[u] <= InputMax
    /\ Size(q) + Bytes[u] <= BytesMax
    /\ Cardinality(q \intersect Lane(LaneOf(u))) < Caps[LaneOf(u)]
Accepts(u) == Fits(u, queue)

\* How many lanes after the current one lane l is.
Turns(l) == (l + 3 - lane) % 3

\* The entry InputQueue.take removes: the preferred input while it is queued,
\* otherwise the first entry of the first nonempty lane in round-robin order.
IsNext(i) ==
    IF first \in queue THEN items[i] = first
    ELSE \A j \in DOMAIN items :
            \/ Turns(LaneOf(items[i])) < Turns(LaneOf(items[j]))
            \/ LaneOf(items[i]) = LaneOf(items[j]) /\ i <= j

\* Mutant: the lane is not wrapped around.
LaneAfterUnwrapped(u) == IF u = first THEN lane ELSE LaneOf(u) + 1

LaneAfter(u) == IF u = first THEN lane ELSE (LaneOf(u) + 1) % 3

\* Inbox.unanswered: what is written to the file for a ledger. An entry that
\* was not started is left out once it is too old.
Unanswered(l) ==
    [u \in Chat |-> IF l[u] = "queued" /\ u \in old THEN "absent" ELSE l[u]]

\* A list of the chats of s, without those l no longer has.
Listed(s, l) == Without(s, {u \in Chat : l[u] = "absent"})

\* SessionStore.saveUnanswered: the file is rewritten from the ledger.
Saves ==
    /\ saved' = Unanswered(ledger')
    /\ savedOrder' = Listed(ledgerOrder', saved')

\* Mutant: the next input does not wait for the last one to be consumed.
AdmittingEager == ~hold

\* SessionWatch.admitting
Admitting == awaiting = None /\ ~hold

(***************************************************************************)
(* Inputs arrive.                                                          *)
(***************************************************************************)
\* Numbers are given out in arrival order.
Arrives(u) == u \notin arrived /\ \A v \in arrived : LaneOf(v) = LaneOf(u) => v < u

\* Inbox.remember refuses a chat once the ledger is full.
LedgerFull == Cardinality(InLedger(ledger)) >= LedgerMax

\* Mutant: the file is written before the chat is in the ledger.
AcceptChatSavedEarly(u) ==
    /\ phase = "up" /\ Arrives(u)
    /\ Accepts(u) /\ ~LedgerFull
    /\ ledger' = [ledger EXCEPT ![u] = "queued"]
    /\ ledgerOrder' = Append(ledgerOrder, u)
    /\ saved' = Unanswered(ledger)
    /\ savedOrder' = Listed(ledgerOrder, saved')
    /\ items' = Append(items, u)
    /\ fate' = [fate EXCEPT ![u] = "open"]
    /\ arrived' = arrived \union {u}
    /\ UNCHANGED <<phase, lane, first, dispatched, awaiting, busy, hold, compactAsked, known,
                   interrupted, savedSession, sdk, consumed, old, stops>>

\* Runner.chat and Inbox.enqueue for a chat: remembered and saved before it
\* is queued.
AcceptChat(u) ==
    /\ phase = "up" /\ Arrives(u)
    /\ Accepts(u) /\ ~LedgerFull
    /\ ledger' = [ledger EXCEPT ![u] = "queued"]
    /\ ledgerOrder' = Append(ledgerOrder, u)
    /\ Saves
    /\ items' = Append(items, u)
    /\ fate' = [fate EXCEPT ![u] = "open"]
    /\ arrived' = arrived \union {u}
    /\ UNCHANGED <<phase, lane, first, dispatched, awaiting, busy, hold, compactAsked, known,
                   interrupted, savedSession, sdk, consumed, old, stops>>

\* Inbox.enqueue for a call word or a note: kept in memory only.
AcceptOther(u) ==
    /\ phase = "up" /\ Arrives(u) /\ Accepts(u)
    /\ items' = Append(items, u)
    /\ arrived' = arrived \union {u}
    /\ UNCHANGED <<phase, lane, first, memory, file, sdk, fate, consumed, old, stops>>

\* Runner.askCompact: a "/compact" note that is served before anything else.
AskCompact(u) ==
    /\ phase = "up" /\ Arrives(u) /\ Accepts(u)
    /\ compactAsked = None /\ ~busy /\ Admitting
    /\ items' = Append(items, u)
    /\ first' = u
    /\ compactAsked' = u
    /\ arrived' = arrived \union {u}
    /\ UNCHANGED <<phase, lane, ledger, ledgerOrder, dispatched, awaiting, busy, hold, known, file,
                   sdk, fate, consumed, old, stops>>

\* RunnerCalls.end and Inbox.cancel: a hangup takes the call's words out of the
\* host queue, never a chat, and leaves a note if one fits.
Hangup ==
    LET rest == queue \ Call
        notes == {n \in Note : Arrives(n) /\ Fits(n, rest)}
    IN  /\ phase = "up" /\ arrived \intersect Call # {}
        /\ \E n \in IF notes = {} THEN {<<>>} ELSE {<<u>> : u \in notes} :
              /\ items' = Without(items, Call) \o n
              /\ arrived' = arrived \union Elements(n)
        /\ UNCHANGED <<phase, lane, first, memory, file, sdk, fate, consumed, old, stops>>

(***************************************************************************)
(* Inputs are handed to the SDK.                                           *)
(***************************************************************************)
\* One pass of the inbox's iterator: take, note the dispatch, yield.
Dispatch(u) ==
    /\ phase = "up" /\ Admitting
    /\ \E i \in DOMAIN items : items[i] = u /\ IsNext(i)
    /\ items' = Without(items, {u})
    /\ lane' = LaneAfter(u)
    /\ first' = None
    /\ dispatched' = IF u \in InLedger(ledger) THEN dispatched \union {u} ELSE dispatched
    /\ awaiting' = u
    /\ busy' = TRUE
    /\ sdkQueue' = sdkQueue \union {u}
    /\ UNCHANGED <<phase, ledger, ledgerOrder, hold, compactAsked, known, file, session,
                   transcript, turn, events, history>>

\* Inputs the messages that are on their way tell of.
EventIds(s) == UNION {s[i].ids : i \in DOMAIN s}

\* The SDK consumes an input: it writes it to the transcript and says so. An
\* input the conversation already holds is only reported as completed. The
\* first turn of a process announces the session.
SdkBegin(u) ==
    /\ phase = "up" /\ u \in sdkQueue
    /\ sdkQueue' = sdkQueue \ {u}
    /\ IF u \in transcript[session]
       THEN /\ events' = Append(events, Ev("completed", {u}))
            /\ UNCHANGED <<transcript, turn>>
       ELSE /\ transcript' = [transcript EXCEPT ![session] = @ \union {u}]
            /\ turn' = turn \union {u}
            /\ events' = (IF turn = {} THEN Append(events, Ev("init", {})) ELSE events)
                         \o <<Ev("started", {u})>>
    /\ UNCHANGED <<phase, queueVars, memory, file, session, history>>

\* The SDK reports one command of the turn as completed.
SdkComplete(u) ==
    /\ phase = "up" /\ u \in turn /\ ~hold
    /\ turn' = turn \ {u}
    /\ events' = events \o <<Ev("completed", {u})>>
                 \o (IF turn = {u} /\ sdkQueue = {} THEN <<Ev("idle", {})>> ELSE <<>>)
    /\ UNCHANGED <<phase, queueVars, memory, file, session, transcript, sdkQueue, history>>

\* The SDK ends its turn. The result names the inputs of the turn, or none.
SdkEnd ==
    /\ phase = "up" /\ turn # {} /\ ~hold
    /\ \E ids \in {turn} \union (IF Uncorrelated THEN {{}} ELSE {}) :
          events' = events \o <<Ev("result", ids)>>
                    \o (IF sdkQueue = {} THEN <<Ev("idle", {})>> ELSE <<>>)
    /\ turn' = {}
    /\ UNCHANGED <<phase, queueVars, memory, file, session, transcript, sdkQueue, history>>

\* The main thread waits for an approval, or the conversation is compacted:
\* the turn stands still until that is over.
SdkHold ==
    /\ phase = "up" /\ turn # {}
    /\ hold' = ~hold
    /\ UNCHANGED <<phase, queueVars, ledger, ledgerOrder, dispatched, awaiting, busy, compactAsked,
                   known, file, sdk, history>>

\* The SDK says again, or late, that an input of the conversation is completed.
SdkRepeat(u) ==
    /\ Repeats /\ phase = "up"
    /\ u \in transcript[session] \ (turn \union EventIds(events))
    /\ events' = Append(events, Ev("completed", {u}))
    /\ UNCHANGED <<phase, queueVars, memory, file, session, transcript, sdkQueue, turn, history>>

(***************************************************************************)
(* The run loop reads the SDK's messages.                                  *)
(***************************************************************************)
Reads(type) == phase = "up" /\ events # <<>> /\ Head(events).type = type
Ids == Head(events).ids

\* Mutant: consumption is never noticed.
AcknowledgeNever == awaiting' = awaiting

\* SessionWatch.acknowledge
Acknowledge == awaiting' = IF awaiting \in Ids THEN None ELSE awaiting

\* Runner.started keeps the session id for the next start. A failed write is
\* only logged.
ReadInit ==
    /\ Reads("init")
    /\ savedSession' \in IF known THEN {savedSession} ELSE {session, savedSession}
    /\ known' = TRUE
    /\ events' = Tail(events)
    /\ UNCHANGED <<phase, queueVars, ledger, ledgerOrder, dispatched, awaiting, busy, hold,
                   compactAsked, saved, savedOrder, interrupted, session, transcript, sdkQueue,
                   turn, history>>

\* Inbox.started
ReadStarted ==
    LET now == {u \in Ids \intersect Chat : ledger[u] = "queued"} IN
    /\ Reads("started")
    /\ ledger' = [u \in Chat |-> IF u \in now THEN "started" ELSE ledger[u]]
    /\ ledgerOrder' = ledgerOrder
    /\ IF now # {} THEN Saves ELSE UNCHANGED <<saved, savedOrder>>
    /\ consumed' = consumed \union now
    /\ Acknowledge
    /\ busy' = TRUE
    /\ events' = Tail(events)
    /\ UNCHANGED <<phase, queueVars, dispatched, hold, compactAsked, known, interrupted,
                   savedSession, session, transcript, sdkQueue, turn, fate, old, arrived, stops>>

\* Mutant: the file is not written when a turn ends.
ReadFinishedUnsaved(type) ==
    LET now == Ids \intersect InLedger(ledger) IN
    /\ Reads(type)
    /\ ledger' = [u \in Chat |-> IF u \in now THEN "absent" ELSE ledger[u]]
    /\ ledgerOrder' = Without(ledgerOrder, now)
    /\ dispatched' = dispatched \ Ids
    /\ fate' = [u \in Chat |-> IF u \in now THEN "finished" ELSE fate[u]]
    /\ compactAsked' = IF type = "result" /\ compactAsked \in Ids THEN None ELSE compactAsked
    /\ Acknowledge
    /\ events' = Tail(events)
    /\ UNCHANGED <<phase, queueVars, busy, hold, known, file, session,
                   transcript, sdkQueue, turn, consumed, old, arrived, stops>>

\* Inbox.finished, for a turn's result and for a completed command; a result
\* also ends the compaction it answers.
ReadFinished(type) ==
    LET now == Ids \intersect InLedger(ledger) IN
    /\ Reads(type)
    /\ ledger' = [u \in Chat |-> IF u \in now THEN "absent" ELSE ledger[u]]
    /\ ledgerOrder' = Without(ledgerOrder, now)
    /\ dispatched' = dispatched \ Ids
    /\ IF now # {} THEN Saves ELSE UNCHANGED <<saved, savedOrder>>
    /\ fate' = [u \in Chat |-> IF u \in now THEN "finished" ELSE fate[u]]
    /\ compactAsked' = IF type = "result" /\ compactAsked \in Ids THEN None ELSE compactAsked
    /\ Acknowledge
    /\ events' = Tail(events)
    /\ UNCHANGED <<phase, queueVars, busy, hold, known, interrupted, savedSession, session,
                   transcript, sdkQueue, turn, consumed, old, arrived, stops>>

\* SessionWatch.sessionState
ReadIdle ==
    /\ Reads("idle")
    /\ busy' = FALSE
    /\ events' = Tail(events)
    /\ UNCHANGED <<phase, queueVars, ledger, ledgerOrder, dispatched, awaiting, hold, compactAsked,
                   known, file, session, transcript, sdkQueue, turn, history>>

\* SessionStore.saveTasks: the agent acknowledged the notice about an
\* interrupted chat.
Handled(u) ==
    /\ phase = "up" /\ u \in interrupted
    /\ interrupted' = interrupted \ {u}
    /\ fate' = [fate EXCEPT ![u] = "handled"]
    /\ UNCHANGED <<phase, queueVars, memory, saved, savedOrder, savedSession, sdk, consumed, old,
                   arrived, stops>>

\* Six hours pass for a chat.
Age(u) ==
    /\ fate[u] = "open" /\ u \notin old
    /\ old' = old \union {u}
    /\ UNCHANGED <<phase, queueVars, memory, file, sdk, fate, consumed, arrived, stops>>

(***************************************************************************)
(* The process goes down and comes back.                                   *)
(***************************************************************************)
\* Everything in memory is gone, on both sides of the pipe.
Gone ==
    /\ items' = <<>> /\ lane' = 0 /\ first' = None
    /\ ledger' = NoLedger /\ ledgerOrder' = <<>> /\ dispatched' = {}
    /\ awaiting' = None /\ busy' = FALSE /\ hold' = FALSE /\ compactAsked' = None
    /\ known' = FALSE
    /\ session' = 0 /\ sdkQueue' = {} /\ turn' = {} /\ events' = <<>>
    /\ stops' = stops + 1
    /\ UNCHANGED <<transcript, consumed, old, arrived>>

\* A crash, TERM, a lost connection, a failed write, or the SDK's death.
Crash ==
    /\ phase \in {"recovered", "up"} /\ stops < MaxStops
    /\ phase' = "down"
    /\ Gone
    /\ UNCHANGED <<file, fate>>

\* Runner.chat closes the runner when the chat does not fit, and the run loop
\* fails when a compaction request does not.
RefusedInput(u) ==
    /\ phase = "up" /\ stops < MaxStops /\ Arrives(u)
    /\ \/ u \in Chat /\ (~Accepts(u) \/ LedgerFull)
       \/ u \in Note /\ ~Accepts(u) /\ compactAsked = None /\ ~busy /\ Admitting
    /\ phase' = "down"
    /\ Gone
    /\ UNCHANGED <<file, fate>>

\* Runner.close(true), the Harness page's Stop: chats the SDK has are dropped
\* from the file together with the interrupted ones.
Active == dispatched \union {u \in Chat : ledger[u] = "started"}

StopCancel ==
    LET gone == interrupted \union Active \union {u \in Chat : saved[u] = "started"} IN
    /\ phase = "up" /\ stops < MaxStops
    /\ phase' = "stopped"
    /\ saved' = [u \in Chat |-> IF u \in gone THEN "absent" ELSE saved[u]]
    /\ savedOrder' = Without(savedOrder, gone)
    /\ interrupted' = {}
    /\ fate' = [u \in Chat |-> IF u \in gone THEN "cancelled" ELSE fate[u]]
    /\ Gone
    /\ UNCHANGED savedSession

\* The transcript recoverInputs scans, none when no session id is kept.
Seen == IF savedSession = 0 THEN {} ELSE transcript[savedSession]

\* Mutant: the transcript is not looked at.
RecoverBlind ==
    LET begun == {u \in Chat : saved[u] = "started"} IN
    /\ phase \in {"down", "stopped"}
    /\ phase' = "recovered"
    /\ saved' = [u \in Chat |-> IF u \in begun THEN "absent" ELSE saved[u]]
    /\ savedOrder' = Without(savedOrder, begun)
    /\ interrupted' = interrupted \union begun
    /\ UNCHANGED <<queueVars, memory, savedSession, sdk, history>>

\* Mutant: every saved chat counts as begun.
RecoverAll ==
    LET begun == {u \in Chat : saved[u] # "absent"} IN
    /\ phase \in {"down", "stopped"}
    /\ phase' = "recovered"
    /\ saved' = [u \in Chat |-> IF u \in begun THEN "absent" ELSE saved[u]]
    /\ savedOrder' = Without(savedOrder, begun)
    /\ interrupted' = interrupted \union begun
    /\ UNCHANGED <<queueVars, memory, savedSession, sdk, history>>

\* SessionStore.recover: a chat that was started, or that the transcript
\* holds, is interrupted; the others go in again.
Recover ==
    LET begun == {u \in Chat : saved[u] = "started" \/ (saved[u] = "queued" /\ u \in Seen)} IN
    /\ phase \in {"down", "stopped"}
    /\ phase' = "recovered"
    /\ saved' = [u \in Chat |-> IF u \in begun THEN "absent" ELSE saved[u]]
    /\ savedOrder' = Without(savedOrder, begun)
    /\ interrupted' = interrupted \union begun
    /\ UNCHANGED <<queueVars, memory, savedSession, sdk, history>>

\* Does every saved chat fit in an empty queue?
RestoreFits ==
    LET again == InLedger(saved) IN
    /\ Size(again) <= BytesMax
    /\ Cardinality(again) <= Caps[0]
    /\ Cardinality(again) <= LedgerMax

\* SessionStore.resumable: the saved conversation if it has a transcript.
Resumes(s) ==
    IF Seen # {} THEN s = savedSession
    ELSE s \in Sessions /\ transcript[s] = {} /\ \A r \in Sessions : transcript[r] = {} => s <= r

\* Mutant: the saved chats are taken from the end of the list.
AgainNewestFirst(s) ==
    /\ phase = "recovered" /\ RestoreFits /\ Resumes(s)
    /\ phase' = "up"
    /\ ledger' = saved
    /\ ledgerOrder' = savedOrder
    /\ items' = [i \in DOMAIN savedOrder |-> savedOrder[Len(savedOrder) + 1 - i]]
    /\ Saves
    /\ session' = s
    /\ UNCHANGED <<lane, first, dispatched, awaiting, busy, hold, compactAsked, known, interrupted,
                   savedSession, transcript, sdkQueue, turn, events, history>>

\* Inbox.again queues the saved chats and writes the file once, then the SDK
\* session is opened.
Again(s) ==
    /\ phase = "recovered" /\ RestoreFits /\ Resumes(s)
    /\ phase' = "up"
    /\ ledger' = saved
    /\ ledgerOrder' = savedOrder
    /\ items' = savedOrder
    /\ Saves
    /\ session' = s
    /\ UNCHANGED <<lane, first, dispatched, awaiting, busy, hold, compactAsked, known, interrupted,
                   savedSession, transcript, sdkQueue, turn, events, history>>

\* Inbox.again throws out of the Runner's constructor.
AgainRefused ==
    /\ phase = "recovered" /\ ~RestoreFits /\ stops < MaxStops
    /\ phase' = "down"
    /\ Gone
    /\ UNCHANGED <<file, fate>>

(***************************************************************************)
(* The specification.                                                      *)
(***************************************************************************)
Init ==
    /\ phase = "down"
    /\ items = <<>> /\ lane = 0 /\ first = None
    /\ ledger = NoLedger /\ ledgerOrder = <<>> /\ dispatched = {}
    /\ awaiting = None /\ busy = FALSE /\ hold = FALSE /\ compactAsked = None
    /\ known = FALSE
    /\ saved = NoLedger /\ savedOrder = <<>> /\ interrupted = {} /\ savedSession = 0
    /\ session = 0 /\ transcript = [s \in Sessions |-> {}]
    /\ sdkQueue = {} /\ turn = {} /\ events = <<>>
    /\ fate = [u \in Chat |-> "new"]
    /\ consumed = {} /\ old = {} /\ arrived = {} /\ stops = 0

Next ==
    \/ \E u \in Chat : AcceptChat(u) \/ Handled(u) \/ Age(u)
    \/ \E u \in Call \union Note : AcceptOther(u)
    \/ \E u \in Note : AskCompact(u)
    \/ \E u \in Inputs : \/ Dispatch(u) \/ SdkBegin(u) \/ SdkComplete(u) \/ SdkRepeat(u)
                        \/ RefusedInput(u)
    \/ Hangup \/ SdkEnd \/ SdkHold
    \/ ReadInit \/ ReadStarted \/ ReadFinished("result") \/ ReadFinished("completed") \/ ReadIdle
    \/ Crash \/ StopCancel \/ Recover \/ AgainRefused
    \/ \E s \in Sessions : Again(s)

Spec == Init /\ [][Next]_vars

\* The run loop, the iterator and the SDK keep going, a turn that is not held
\* again and again ends, and the service manager starts a runner that died.
\* Nobody has to start one that was stopped, and nothing else is fair.
Fairness ==
    /\ WF_vars(\E u \in Inputs : Dispatch(u))
    /\ WF_vars(\E u \in Inputs : SdkBegin(u))
    /\ WF_vars(hold /\ SdkHold)
    /\ SF_vars(SdkEnd)
    /\ WF_vars(ReadInit \/ ReadStarted \/ ReadFinished("result") \/ ReadFinished("completed")
               \/ ReadIdle)
    /\ WF_vars(phase = "down" /\ Recover)
    /\ WF_vars(\E s \in Sessions : Again(s))

FairSpec == Spec /\ Fairness

(***************************************************************************)
(* Properties.                                                             *)
(***************************************************************************)
TypeOK ==
    /\ phase \in {"down", "recovered", "up", "stopped"}
    /\ items \in Seq(Inputs) /\ lane \in Lanes /\ first \in Note \union {None}
    /\ ledger \in [Chat -> LedgerState] /\ ledgerOrder \in Seq(Chat) /\ dispatched \subseteq Chat
    /\ awaiting \in Inputs \union {None}
    /\ busy \in BOOLEAN /\ hold \in BOOLEAN /\ known \in BOOLEAN
    /\ compactAsked \in Note \union {None}
    /\ saved \in [Chat -> LedgerState] /\ savedOrder \in Seq(Chat) /\ interrupted \subseteq Chat
    /\ savedSession \in Sessions \union {0}
    /\ session \in Sessions \union {0}
    /\ transcript \in [Sessions -> SUBSET Inputs]
    /\ sdkQueue \subseteq Inputs /\ turn \subseteq Inputs /\ events \in Seq(Event)
    /\ fate \in [Chat -> Fates] /\ consumed \subseteq Chat /\ old \subseteq Chat
    /\ arrived \subseteq Inputs /\ stops \in Nat

\* A chat the runner accepted is on disk until its turn is over, the user
\* stops it, or the agent has dealt with its interruption - at every instant,
\* so that a crash between any two steps keeps it. Only a chat that waited
\* longer than six hours without being started may go; once the runner has seen
\* the SDK start it, the file says so however old it is, and a restart reports
\* it as interrupted.
NothingLost ==
    \A u \in Chat : fate[u] = "open" =>
        /\ u \notin old => saved[u] # "absent" \/ u \in interrupted
        /\ u \in consumed => saved[u] = "started" \/ u \in interrupted

\* A chat that is finished, cancelled or dealt with is gone for good: no file,
\* queue or conversation gives it to the agent again.
SettledStaysSettled ==
    \A u \in Chat : fate[u] \in {"finished", "cancelled", "handled"}
        => saved[u] = "absent" /\ u \notin interrupted /\ u \notin queue

\* The SDK is never given a chat its conversation already holds: it would drop
\* it as a duplicate and report it completed. Holds across crashes because
\* recovery looks the saved chats up in the transcript.
NeverDeduplicated == \A u \in sdkQueue \intersect Chat : u \notin transcript[session]

\* "The runner gives the SDK at most one not-yet-consumed input."
OneUnconsumed ==
    Cardinality(sdkQueue \union UNION {events[i].ids : i \in
        {j \in DOMAIN events : events[j].type = "started"}}) <= 1

\* Chats are handed over in the order they arrived, restarts included.
InOrder ==
    [][\A u, v \in Chat : u < v /\ v \in sdkQueue' /\ v \notin sdkQueue => u \notin queue]_vars

\* Whatever was saved can be queued again by the next start.
RestartTakesAll == phase = "recovered" => RestoreFits

\* Every chat is answered in the end, reported as interrupted, or given up
\* because the user stopped the session or it waited too long.
EveryChatSettles ==
    \A u \in Chat : fate[u] = "open" ~>
        (fate[u] # "open" \/ u \in interrupted \/ u \in old \/ phase = "stopped")

(***************************************************************************)
(* The inductive invariant behind NothingLost and SettledStaysSettled.     *)
(***************************************************************************)
\* While the process runs, the file is as good as the ledger.
FileMatches ==
    phase = "up" => \A u \in Chat :
        /\ ledger[u] = "started" => saved[u] = "started"
        /\ ledger[u] = "queued" /\ u \notin old => saved[u] = "queued"

\* While it does not, nothing is left of its memory.
MemoryGone ==
    phase # "up" => /\ ledger = NoLedger /\ ledgerOrder = <<>> /\ items = <<>>
                    /\ sdkQueue = {} /\ turn = {} /\ events = <<>>

\* An open chat is in the ledger, or in the file when there is no ledger.
Kept(u) == IF phase = "up" THEN ledger[u] ELSE saved[u]
OpenKept ==
    \A u \in Chat : fate[u] = "open" =>
        /\ u \notin old => Kept(u) # "absent" \/ u \in interrupted
        /\ u \in consumed => Kept(u) = "started" \/ u \in interrupted

\* A chat is in one place, and only an open chat is in any.
OneHome ==
    \A u \in Chat :
        /\ ledger[u] # "absent" \/ saved[u] # "absent" => fate[u] = "open" /\ u \notin interrupted
        /\ u \in interrupted => fate[u] = "open"
        /\ u \in queue => ledger[u] # "absent"
        /\ fate[u] # "new" \/ u \in consumed \/ u \in dispatched => u \in arrived

\* What the SDK has, or has reported, has left the queue.
SdkApart ==
    /\ queue \subseteq arrived
    /\ sdkQueue \union turn \union EventIds(events) \subseteq arrived \ queue

\* The Map and the array list what ledger and file hold.
ListsMatch == Elements(ledgerOrder) = InLedger(ledger) /\ Elements(savedOrder) = InLedger(saved)

InputInv == TypeOK /\ FileMatches /\ MemoryGone /\ OpenKept /\ OneHome /\ SdkApart /\ ListsMatch

\* The inductive invariant behind InOrder: wherever chats are listed, the
\* earlier comes first.
InLine(s) == \A i, j \in DOMAIN s : i < j /\ s[i] \in Chat /\ s[j] \in Chat => s[i] < s[j]
AllInLine == InLine(items) /\ InLine(ledgerOrder) /\ InLine(savedOrder)

(***************************************************************************)
(* The promise of Mailbox, seen in the state of the runner.                *)
(***************************************************************************)
\* An open chat that neither ledger nor file holds was given up.
BoxOf(u) ==
    CASE u \in interrupted -> "interrupted"
      [] u \notin interrupted /\ fate[u] = "open" /\ Kept(u) = "absent" -> "expired"
      [] OTHER -> fate[u]

Given == {u \in Chat : \E s \in Sessions : u \in transcript[s]}

M == INSTANCE Mailbox WITH
    Chats <- Chat, box <- [u \in Chat |-> BoxOf(u)], given <- Given, begun <- consumed,
    late <- old, stopped <- phase = "stopped"

\* The runner keeps the promise of Mailbox across crashes, refusals and
\* restarts: no chat is answered before the agent got it or twice, none is
\* called interrupted that the agent never saw (recoverInputs), and none goes
\* out of the file but by its answer, its age or the user's Stop.
KeepsMail == M!Spec
=============================================================================
