---------------------------- MODULE TaskRecovery ----------------------------
(***************************************************************************)
(* The durable task ledger of the SDK runner (packages/sdk-runner).        *)
(* Workers that fail, turns that fail and chats a restart cut off are      *)
(* obligations: each has a notice in the state file, of which the main     *)
(* agent is reminded a bounded number of times until it writes the         *)
(* notice's marker in a turn that succeeds.                                *)
(*                                                                         *)
(*   task-ledger.ts, task-state.ts   rows (memory and file: every change   *)
(*                                   is saved before anything else happens)*)
(*   task-recovery.ts                deliveries, acknowledged, reply       *)
(*   inbox.ts, session-store.ts      queued, chat (see RunnerInbox)        *)
(*   the Agent SDK (external)        transcript, unseen, turn, commands,   *)
(*                                   results                               *)
(*                                                                         *)
(* Left out: the delay before a reminder (a reminder may come at any       *)
(* time), which row of a kind is the oldest, texts, owners, the last 16    *)
(* event ids by which a repeated event is recognised, ambient workers      *)
(* (their rows go as soon as the SDK says so) and the actions of local     *)
(* automation that were cut off (noted as cut off chats are). The SDK      *)
(* announces its turns: the fallback for one that does not is left out.    *)
(* Tokens and the uuids of reminders and chats are random in the code;     *)
(* here a name that nothing refers to any more is used again.              *)
(***************************************************************************)
EXTENDS Naturals, Sequences, FiniteSets

CONSTANTS
    Workers,     \* SDK tasks
    Chats,       \* chat inputs, and their rows "input:<uuid>"
    Turns,       \* rows "turn:<uuid>" of failed turns
    Reminders,   \* uuids of reminders
    Tokens,      \* tells the notices of one task apart
    TaskLimit, NoticeDeliveries, BatchMax, NoteCap,
    Unstamped,   \* may a result come without the ids of its inputs?
    MaxWork,     \* bound: attempts of workers and chats
    MaxStops,    \* bound: ends of the process
    HeldMax,     \* bound: results the run loop has not read
    None

Tasks == Workers \union Chats \union Turns
Inputs == Chats \union Reminders

ASSUME TasksAssumption ==
    /\ IsFiniteSet(Tasks) /\ IsFiniteSet(Reminders)
    /\ Workers \intersect (Chats \union Turns) = {} /\ Chats \intersect (Turns \union Reminders) = {}
    /\ Tokens \subseteq Nat /\ Reminders \subseteq Nat
    /\ Tokens # {} /\ None \notin Tasks \union Inputs

ASSUME LimitsAssumption ==
    /\ {TaskLimit, NoticeDeliveries, BatchMax, NoteCap} \subseteq Nat \ {0}
    /\ {MaxWork, MaxStops, HeldMax} \subseteq Nat
    /\ Unstamped \in BOOLEAN

VARIABLES
    phase,         \* is the runner "up", "down", or "stopped" by the user
    rows,          \* TaskLedger.rows, and the file
    deliveries,    \* TaskRecovery.deliveries
    acknowledged,  \* TaskRecovery.acknowledged
    reply,         \* TaskRecovery.replyInputs, None for null
    queued,        \* reminders in the note lane, each with the tokens it names
    chat,          \* what became of each chat; file
    transcript,    \* SDK: reminders the conversation holds, until the runner knows
    unseen,        \* SDK: reminders consumed, the event not read yet
    turn,          \* SDK: inputs of the current turn
    commands,      \* SDK: inputs begun and not reported as completed
    results,       \* SDK: results the run loop has not read
    marks,         \* history: tokens written in the current turn
    shown,         \* history: how often the agent has seen the current notice
    work, stops    \* attempts and chats so far, ends of the process so far

memory == <<deliveries, acknowledged, reply, queued>>
sdk == <<unseen, turn, commands, results, marks>>
vars == <<phase, rows, memory, chat, transcript, sdk, shown, work, stops>>

Token == Tasks \X Tokens
Notice == [token : Token, attempt : 0..MaxWork, told : 0..NoticeDeliveries,
           consumed : BOOLEAN, offered : Reminders \union {None}]
Row == [state : {"running", "failed", "ended"}, attempt : 0..MaxWork,
        handled : (0..MaxWork) \union {None}, notice : Notice \union {None}]
Delivery == [tokens : SUBSET Token, consumed : BOOLEAN, completed : BOOLEAN]
Result == [inputs : SUBSET Inputs, stamped : BOOLEAN, ok : BOOLEAN, marks : SUBSET Token]

ASSUME NoneAssumption ==
    None \notin Nat /\ None \notin Token /\ None \notin Notice /\ None \notin Row /\ None \notin Delivery

(***************************************************************************)
(* Rows and notices.                                                       *)
(***************************************************************************)
Owed(R, t) == R[t] # None /\ R[t].notice # None
TokenOf(R, t) == IF Owed(R, t) THEN R[t].notice.token ELSE None
NewRow == [state |-> "failed", attempt |-> 0, handled |-> None, notice |-> None]

\* A token that nothing refers to.
InUse ==
    {TokenOf(rows, t) : t \in Tasks} \union {k \in Token : acknowledged[k] # {}}
    \union (UNION {deliveries[u].tokens : u \in {v \in Reminders : deliveries[v] # None}})
    \union (UNION {q.tokens : q \in queued})
    \union (UNION {results[i].marks : i \in DOMAIN results}) \union marks
Fresh(t) ==
    LET free == {k \in Tokens : <<t, k>> \notin InUse}
    IN  CHOOSE k \in Tokens : free # {} => k \in free

\* pendingNotice
Pending(t, n) ==
    [token |-> <<t, Fresh(t)>>, attempt |-> n, told |-> 0, consumed |-> FALSE, offered |-> None]

\* Mutant: a new row needs no room.
RoomsAlways(R, n) == {{}}

\* The rows TaskLedger.room may give up: finished ones first, then the ones
\* whose reminders were all delivered.
Done(R) == {t \in Tasks : R[t] # None /\ R[t].notice = None /\ R[t].state # "running"}
Spent(R) == {t \in Tasks : /\ Owed(R, t) /\ R[t].state # "running"
                           /\ R[t].notice.told >= NoticeDeliveries /\ R[t].notice.offered = None}
Rooms(R, n) ==
    LET size == Cardinality({t \in Tasks : R[t] # None})
        excess == IF size + n > TaskLimit THEN size + n - TaskLimit ELSE 0
    IN  {gone \in SUBSET (Done(R) \union Spent(R)) :
            /\ Cardinality(gone) = excess
            /\ gone \intersect Spent(R) # {} => Done(R) \subseteq gone}
Without(R, gone) == [t \in Tasks |-> IF t \in gone THEN None ELSE R[t]]

\* TaskLedger.get: the ledgers in which t has a row; without room for it the
\* work goes on untracked.
WithRow(R, t) ==
    IF R[t] # None \/ Rooms(R, 1) = {} THEN {R}
    ELSE {[Without(R, gone) EXCEPT ![t] = NewRow] : gone \in Rooms(R, 1)}

\* TaskLedger.interrupted, input after input: a row with a notice for each, as
\* long as there is room. A row that gave way to another input is one of those
\* without a row when its own turn comes later.
Noted(R, inputs) ==
    [t \in Tasks |->
        IF t \notin inputs \/ Owed(R, t) THEN R[t]
        ELSE LET r == IF R[t] = None THEN NewRow ELSE R[t]
             IN  [r EXCEPT !.state = "failed", !.notice = Pending(t, r.attempt)]]
Interrupted(R, inputs) ==
    LET new == {u \in inputs : R[u] = None}
        again == inputs \intersect Spent(R)
        Taken == {n \in SUBSET (new \union again) :
                    new \subseteq n \/ Rooms(R, Cardinality(n) + 1) = {}}
    IN  UNION {{Noted(Without(R, gone), (inputs \ (new \union gone)) \union taken) :
                    gone \in {g \in Rooms(R, Cardinality(taken)) : taken \intersect again \subseteq g}} :
               taken \in Taken}

\* The history follows the notice: a new notice was not shown yet.
ShownFor(R) == [t \in Tasks |-> IF TokenOf(R, t) = TokenOf(rows, t) THEN shown[t] ELSE 0]
Saves(R) == rows' = R /\ shown' = ShownFor(R)

(***************************************************************************)
(* Workers.                                                                *)
(***************************************************************************)
\* TaskLedger.start: a started worker, one found in the inventory, or one
\* resumed by a message.
Start(w) ==
    /\ phase = "up"
    /\ rows[w] # None => rows[w].state # "running"
    /\ work < MaxWork /\ work' = work + 1
    /\ \E R \in WithRow(rows, w) :
          Saves(IF R[w] = None THEN R
                ELSE [R EXCEPT ![w].state = "running", ![w].attempt = @ + 1])
    /\ UNCHANGED <<phase, memory, chat, transcript, sdk, stops>>

\* Mutant: the notice of an earlier attempt is kept for the new one.
FailedTaskKeepsOld(w, r) ==
    IF r.handled = r.attempt \/ r.notice # None THEN r
    ELSE [r EXCEPT !.notice = Pending(w, r.attempt)]

\* Mutant: an attempt that was dealt with is looked at again.
FailedTaskReopens(w, r) ==
    IF r.notice # None /\ r.notice.attempt = r.attempt THEN r
    ELSE [r EXCEPT !.notice = Pending(w, r.attempt)]

\* TaskLedger.failedTask: one notice for each attempt that failed, none for
\* an attempt that was dealt with.
FailedTask(w, r) ==
    IF r.handled = r.attempt \/ (r.notice # None /\ r.notice.attempt = r.attempt) THEN r
    ELSE [r EXCEPT !.notice = Pending(w, r.attempt)]

\* TaskLedger.end: the worker failed or its worker process was restarted, or
\* it completed or was stopped.
End(w, fails) ==
    /\ phase = "up" /\ (rows[w] = None => work < MaxWork)
    /\ work' = IF rows[w] = None THEN work + 1 ELSE work
    /\ \E R \in WithRow(rows, w) :
          Saves(IF R[w] = None THEN R
                ELSE [R EXCEPT ![w] = IF fails THEN FailedTask(w, [@ EXCEPT !.state = "failed"])
                                      ELSE [@ EXCEPT !.state = "ended"]])
    /\ UNCHANGED <<phase, memory, chat, transcript, sdk, stops>>

(***************************************************************************)
(* Reminders.                                                              *)
(***************************************************************************)
\* Mutant: reminders come without end.
EligibleForever(t) == Owed(rows, t) /\ \A u \in Reminders : deliveries[u] # None
            => TokenOf(rows, t) \notin deliveries[u].tokens

\* TaskRecovery.eligible
Eligible(t) ==
    /\ Owed(rows, t) /\ rows[t].notice.told < NoticeDeliveries
    /\ \A u \in Reminders : deliveries[u] # None /\ ~deliveries[u].completed
            => TokenOf(rows, t) \notin deliveries[u].tokens

\* A reminder uuid that nothing refers to.
Unused(u) ==
    /\ deliveries[u] = None /\ u \notin turn \union commands \union unseen
    /\ \A t \in Tasks : Owed(rows, t) => rows[t].notice.offered # u
    /\ \A q \in queued : q.uuid # u
    /\ \A k \in Token : u \notin acknowledged[k]
    /\ \A i \in DOMAIN results : u \notin results[i].inputs
    /\ reply # None => u \notin reply

\* Mutant: every delivery has a new uuid.
OfferAnew(S, u) == Unused(u)

\* Mutant: what was offered once is not offered again.
OfferOnce(S, u) == Unused(u) /\ \A t \in S : rows[t].notice.offered = None

\* The uuid of a reminder: the one it was offered under before, which it keeps
\* across restarts until it was consumed, or a new one.
Offer(S, u) ==
    IF \E t \in S : rows[t].notice.offered # None
    THEN S = {t \in Tasks : Eligible(t) /\ rows[t].notice.offered = u}
    ELSE Unused(u) /\ \A v \in Reminders : v < u => ~Unused(v)

\* TaskRecovery.deliver: the notices that were offered together, or some that
\* were not offered yet. The file says so before the note is queued.
Deliver(S, u) ==
    LET tokens == {TokenOf(rows, t) : t \in S} IN
    /\ phase = "up" /\ S # {} /\ Cardinality(S) <= BatchMax
    /\ S \subseteq {t \in Tasks : Eligible(t)} /\ Offer(S, u)
    /\ Cardinality({v \in Reminders : deliveries[v] # None}) < TaskLimit * 3
    /\ Cardinality(queued) < NoteCap
    /\ rows' = [t \in Tasks |-> IF t \in S THEN [rows[t] EXCEPT !.notice.offered = u] ELSE rows[t]]
    /\ deliveries' = [deliveries EXCEPT ![u] =
            [tokens |-> tokens, consumed |-> FALSE, completed |-> FALSE]]
    /\ queued' = queued \union {[uuid |-> u, tokens |-> tokens]}
    /\ transcript' = IF Unused(u) THEN transcript \ {u} ELSE transcript
    /\ UNCHANGED <<phase, acknowledged, reply, chat, sdk, shown, work, stops>>

\* The SDK consumes a reminder, which it is given once the one before was seen
\* to be consumed (RunnerInbox, OneUnconsumed); what it already has is only reported as
\* completed.
SdkBegin(q) ==
    /\ phase = "up" /\ q \in queued /\ unseen = {} /\ (Unstamped => results = <<>>)
    /\ queued' = queued \ {q}
    /\ commands' = commands \union {q.uuid}
    /\ transcript' = transcript \union {q.uuid}
    /\ IF q.uuid \in transcript THEN UNCHANGED <<unseen, turn, shown>>
       ELSE /\ unseen' = unseen \union {q.uuid}
            /\ turn' = turn \union {q.uuid}
            /\ shown' = [t \in Tasks |-> IF TokenOf(rows, t) \in q.tokens THEN shown[t] + 1
                                         ELSE shown[t]]
    /\ UNCHANGED <<phase, rows, deliveries, acknowledged, reply, chat, results, marks, work, stops>>

\* Mutant: the budget is spent again and again by one reminder.
ConsumedKeepsOffer(R, ids) ==
    [t \in Tasks |-> IF Owed(R, t) /\ R[t].notice.offered \in ids
                     THEN [R[t] EXCEPT !.notice.consumed = TRUE, !.notice.offered = None]
                     ELSE R[t]]

\* TaskRecovery.consumed: the reminder counts for every notice it was offered
\* for.
Consumed(R, ids) ==
    [t \in Tasks |-> IF Owed(R, t) /\ R[t].notice.offered \in ids
                     THEN [R[t] EXCEPT !.notice.told = @ + 1, !.notice.consumed = TRUE,
                                       !.notice.offered = None]
                     ELSE R[t]]
DeliveriesConsumed(ids) ==
    [u \in Reminders |-> IF deliveries[u] # None /\ u \in ids
                         THEN [deliveries[u] EXCEPT !.consumed = TRUE] ELSE deliveries[u]]

\* The run loop reads that a reminder was started; the first input of a turn
\* comes after the message that announces the turn.
ReadStarted(u) ==
    /\ phase = "up" /\ u \in unseen
    /\ unseen' = unseen \ {u}
    /\ Saves(Consumed(rows, {u}))
    /\ deliveries' = DeliveriesConsumed({u})
    /\ reply' = IF turn = {u} THEN None ELSE reply
    /\ transcript' = transcript \ {u}
    /\ UNCHANGED <<phase, acknowledged, queued, chat, turn, commands, results, marks, work, stops>>

\* A chat that nothing refers to.
Unsent(c) ==
    /\ chat[c] = "new" /\ rows[c] = None /\ c \notin turn \union commands
    /\ \A k \in Token : c \notin acknowledged[k]
    /\ \A i \in DOMAIN results : c \notin results[i].inputs
    /\ reply # None => c \notin reply

\* The SDK starts a chat, in a turn of its own or in the current one.
ChatStarted(c) ==
    /\ phase = "up" /\ work < MaxWork /\ Unsent(c) /\ unseen = {} /\ (Unstamped => results = <<>>)
    /\ chat' = [chat EXCEPT ![c] = "started"]
    /\ work' = work + 1
    /\ turn' = turn \union {c}
    /\ commands' = commands \union {c}
    /\ reply' = IF turn = {} THEN None ELSE reply
    /\ UNCHANGED <<phase, rows, deliveries, acknowledged, queued, transcript, unseen, results,
                   marks, shown, stops>>

(***************************************************************************)
(* Acknowledgment.                                                         *)
(***************************************************************************)
\* The agent writes the marker of a notice it has seen, once in a turn. The
\* message names the inputs of its turn, or the ones named before in the same
\* turn count; with none named before it counts for nothing and is left out.
Reply(t, stamped) ==
    LET k == TokenOf(rows, t)
        ids == IF stamped THEN turn ELSE IF reply # None THEN reply ELSE {}
    IN  /\ phase = "up" /\ turn # {} /\ unseen = {} /\ shown[t] > 0 /\ Owed(rows, t)
        /\ k \notin marks /\ (stamped \/ reply # None)
        /\ marks' = marks \union {k}
        /\ reply' = IF stamped THEN turn ELSE reply
        /\ acknowledged' = IF rows[t].notice.consumed
                           THEN [acknowledged EXCEPT ![k] = @ \union ids] ELSE acknowledged
        /\ UNCHANGED <<phase, rows, deliveries, queued, chat, transcript, unseen, turn, commands,
                       results, shown, work, stops>>

FreeTurns == {x \in Turns : rows[x] = None}
Failures == {i \in DOMAIN results : ~results[i].ok}

\* The SDK ends its turn; the next may begin before the result is read.
EndTurn(ok, stamped) ==
    /\ phase = "up" /\ turn # {} /\ unseen = {} /\ Len(results) < HeldMax
    /\ stamped \/ Unstamped
    /\ ok \/ Cardinality(Failures) < Cardinality(FreeTurns)
    /\ results' = Append(results, [inputs |-> turn, stamped |-> stamped, ok |-> ok,
                                   marks |-> marks])
    /\ turn' = {} /\ marks' = {}
    /\ UNCHANGED <<phase, rows, memory, chat, transcript, unseen, commands, shown, work, stops>>

\* Mutant: the result of a reminder's turn is like any other.
RecoveryOnlyNever(ids) == FALSE

\* TaskRecovery.recoveryOnly: the turn worked on nothing but reminders.
RecoveryOnly(ids) ==
    IF ids # {}
    THEN \A u \in ids : \/ u \in Reminders /\ deliveries[u] # None
                        \/ \E t \in Tasks : Owed(rows, t) /\ rows[t].notice.offered = u
    ELSE /\ \A c \in Chats : chat[c] # "started"
         /\ \E u \in Reminders : deliveries[u] # None /\ deliveries[u].consumed

\* TaskLedger.turnFailed
TurnFailed(R, x) ==
    {IF Q[x] = None THEN Q
     ELSE [Q EXCEPT ![x].state = "failed", ![x].notice = Pending(x, Q[x].attempt)] :
        Q \in WithRow(R, x)}

\* Mutant: a marker counts in any turn that succeeds.
HandledTasksAnyTurn(R, ids) == {t \in Tasks : Owed(R, t) /\ acknowledged[TokenOf(R, t)] # {}}

\* TaskRecovery.handledTasks
HandledTasks(R, ids) ==
    {t \in Tasks : Owed(R, t) /\ acknowledged[TokenOf(R, t)] \intersect ids # {}}
Handle(R, S) ==
    [t \in Tasks |-> IF t \in S THEN [R[t] EXCEPT !.handled = R[t].notice.attempt, !.notice = None]
                     ELSE R[t]]

ChatsOpen(status) == {c \in Chats : chat[c] = status}

\* The run loop reads a result: TaskLedger.result and TaskRecovery.settle. A
\* turn that failed is an obligation of its own unless it was only a reminder;
\* in one that succeeded the acknowledgments of its inputs count. Every
\* settled row may make room for an interrupted chat.
ReadResult(x) ==
    LET r == Head(results)
        ids == IF r.stamped THEN r.inputs ELSE {}
        minted == IF r.ok \/ RecoveryOnly(ids) THEN {rows} ELSE TurnFailed(rows, x)
    IN  /\ phase = "up" /\ results # <<>> /\ unseen = {}
        /\ x \in IF r.ok THEN {None} ELSE FreeTurns
        /\ \E R \in minted :
              LET told == Consumed(R, ids)
                  handled == IF r.ok THEN HandledTasks(told, ids) ELSE {}
              IN  /\ \E Q \in IF handled = {} THEN {told}
                              ELSE Interrupted(Handle(told, handled),
                                               ChatsOpen("interrupted") \ handled) : Saves(Q)
                  /\ chat' = [c \in Chats |-> IF c \in handled \union ids THEN "new" ELSE chat[c]]
        /\ deliveries' = [u \in Reminders |-> IF u \in ids THEN None ELSE deliveries[u]]
        /\ acknowledged' = [k \in Token |-> acknowledged[k] \ ids]
        /\ reply' = IF reply # None /\ reply \intersect ids # {} THEN None ELSE reply
        /\ results' = Tail(results)
        /\ commands' = commands \ ids
        /\ UNCHANGED <<phase, queued, transcript, unseen, turn, marks, work, stops>>

\* The SDK reports an input as completed: TaskRecovery.consume and
\* retireDeliveries, Inbox.finished for a chat.
ReadCompleted(u) ==
    /\ phase = "up" /\ u \in commands /\ unseen = {}
    /\ commands' = commands \ {u}
    /\ Saves(Consumed(rows, {u}))
    /\ deliveries' = [v \in Reminders |->
            IF v = u /\ deliveries[v] # None
            THEN [deliveries[v] EXCEPT !.consumed = TRUE, !.completed = TRUE] ELSE deliveries[v]]
    /\ reply' = IF reply # None /\ u \in reply THEN None ELSE reply
    /\ chat' = [c \in Chats |-> IF c = u THEN "new" ELSE chat[c]]
    /\ transcript' = transcript \ {u}
    /\ UNCHANGED <<phase, acknowledged, queued, unseen, turn, results, marks, work, stops>>

\* The SDK is idle: reminders reported as completed are forgotten.
ReadIdle ==
    /\ phase = "up" /\ turn = {} /\ results = <<>> /\ unseen = {}
    /\ deliveries' = [u \in Reminders |-> IF deliveries[u] # None /\ deliveries[u].completed
                                          THEN None ELSE deliveries[u]]
    /\ reply' = None
    /\ <<deliveries, reply>>' # <<deliveries, reply>>
    /\ UNCHANGED <<phase, rows, acknowledged, queued, chat, transcript, sdk, shown, work, stops>>

(***************************************************************************)
(* The process ends and starts again.                                      *)
(***************************************************************************)
Gone ==
    /\ deliveries' = [u \in Reminders |-> None]
    /\ acknowledged' = [k \in Token |-> {}]
    /\ reply' = None /\ queued' = {}
    /\ unseen' = {} /\ turn' = {} /\ commands' = {} /\ results' = <<>> /\ marks' = {}
    /\ stops' = stops + 1
    /\ UNCHANGED <<transcript, work>>

\* A crash, TERM, or a write that failed.
Crash ==
    /\ phase = "up" /\ stops < MaxStops
    /\ phase' = "down"
    /\ Gone
    /\ UNCHANGED <<rows, chat, shown>>

\* TaskLedger.cancel: the user's Stop settles everything.
Cancelled ==
    [t \in Tasks |-> IF rows[t] = None THEN None
                     ELSE [rows[t] EXCEPT !.state = "ended",
                                          !.handled = rows[t].attempt, !.notice = None]]

\* Runner.close(true)
Stop ==
    /\ phase = "up" /\ stops < MaxStops
    /\ phase' = "stopped"
    /\ Saves(Cancelled)
    /\ chat' = [c \in Chats |-> "new"]
    /\ Gone

\* recoveredTasks: what was running was interrupted, and a notice says so.
Recovered ==
    [t \in Tasks |->
        IF rows[t] # None /\ rows[t].state = "running"
        THEN [rows[t] EXCEPT !.state = "failed",
                !.notice = IF @ # None /\ rows[t].notice.attempt = rows[t].attempt THEN @
                           ELSE Pending(t, rows[t].attempt)]
        ELSE rows[t]]

\* SessionStore.recover and the constructor of TaskRecovery.
Restart ==
    LET cut == ChatsOpen("started") \union ChatsOpen("interrupted") IN
    /\ phase # "up"
    /\ phase' = "up"
    /\ chat' = [c \in Chats |-> IF c \in cut THEN "interrupted" ELSE chat[c]]
    /\ \E R \in Interrupted(Recovered, cut) : Saves(R)
    /\ UNCHANGED <<memory, transcript, sdk, work, stops>>

(***************************************************************************)
(* The specification.                                                      *)
(***************************************************************************)
Init ==
    /\ phase = "up"
    /\ rows = [t \in Tasks |-> None]
    /\ deliveries = [u \in Reminders |-> None]
    /\ acknowledged = [k \in Token |-> {}]
    /\ reply = None /\ queued = {}
    /\ chat = [c \in Chats |-> "new"]
    /\ transcript = {} /\ unseen = {} /\ turn = {} /\ commands = {} /\ results = <<>>
    /\ marks = {}
    /\ shown = [t \in Tasks |-> 0]
    /\ work = 0 /\ stops = 0

Next ==
    \/ \E w \in Workers : Start(w) \/ \E fails \in BOOLEAN : End(w, fails)
    \/ \E S \in SUBSET {t \in Tasks : Eligible(t)}, u \in Reminders : Deliver(S, u)
    \/ \E q \in queued : SdkBegin(q)
    \/ \E u \in Reminders : ReadStarted(u)
    \/ \E c \in Chats : ChatStarted(c)
    \/ \E t \in Tasks, stamped \in BOOLEAN : Reply(t, stamped)
    \/ \E ok, stamped \in BOOLEAN : EndTurn(ok, stamped)
    \/ \E x \in Turns \union {None} : ReadResult(x)
    \/ \E u \in Inputs : ReadCompleted(u)
    \/ ReadIdle \/ Crash \/ Stop \/ Restart

Spec == Init /\ [][Next]_vars

\* What only a step of ReadResult does; EndTurn leaves a row for every failure,
\* so that one is always possible.
ResultRead ==
    /\ phase = "up" /\ phase' = "up" /\ unseen = {}
    /\ results # <<>> /\ results' = Tail(results)

\* The run loop and the timer keep going, the SDK consumes what it is given,
\* ends its turns and reports every command, and the service manager starts a
\* runner that died.
Fairness ==
    /\ WF_vars(\E S \in SUBSET {t \in Tasks : Eligible(t)}, u \in Reminders : Deliver(S, u))
    /\ WF_vars(\E q \in queued : SdkBegin(q))
    /\ WF_vars(\E u \in Reminders : ReadStarted(u))
    /\ WF_vars(\E ok, stamped \in BOOLEAN : EndTurn(ok, stamped))
    /\ WF_results(ResultRead)
    /\ WF_vars(\E u \in Inputs : ReadCompleted(u))
    /\ WF_vars(phase = "down" /\ Restart)

FairSpec == Spec /\ Fairness

(***************************************************************************)
(* Properties.                                                             *)
(***************************************************************************)
TypeOK ==
    /\ phase \in {"up", "down", "stopped"}
    /\ rows \in [Tasks -> Row \union {None}]
    /\ deliveries \in [Reminders -> Delivery \union {None}]
    /\ acknowledged \in [Token -> SUBSET Inputs]
    /\ reply \in (SUBSET Inputs) \union {None}
    /\ queued \subseteq [uuid : Reminders, tokens : SUBSET Token]
    /\ chat \in [Chats -> {"new", "started", "interrupted"}]
    /\ transcript \subseteq Reminders /\ unseen \subseteq Reminders
    /\ turn \subseteq Inputs /\ commands \subseteq Inputs
    /\ results \in Seq(Result) /\ marks \subseteq Token
    /\ shown \in [Tasks -> Nat] /\ work \in 0..MaxWork /\ stops \in Nat

\* A turn that holds the marker of t's notice has succeeded, its result unread.
Agreed(t) == \E i \in DOMAIN results : results[i].ok /\ TokenOf(rows, t) \in results[i].marks

\* The promise, read off the rows and the history of what the agent saw.
D == INSTANCE Duties WITH
    Duty <- Tasks, Limit <- NoticeDeliveries,
    owed <- {t \in Tasks : Owed(rows, t)}, told <- [t \in Tasks |-> shown[t]],
    agreed <- {t \in Tasks : Agreed(t)}, stopped <- phase = "stopped",
    full <- Cardinality({t \in Tasks : rows[t] # None}) >= TaskLimit

\* The ledger keeps the promise of Duties for every task: a failure stays in the
\* file, through any crash, until the agent's marker came in a turn that
\* succeeded, the user stopped the session, or all its reminders were told
\* and its place was needed; and the agent is never reminded of one failure
\* more often than allowed, even when a crash hides that it was.
KeepsDuty == D!Spec

\* savedTasks refuses a file with more rows than TASK_LIMIT, which would stop
\* the runner for good: no order of failures, interruptions and evictions
\* writes one.
FileReadable == Cardinality({t \in Tasks : rows[t] # None}) <= TaskLimit

\* "A handled attempt remains handled when a later terminal event arrives."
HandledStays == \A t \in Tasks : Owed(rows, t) => rows[t].notice.attempt # rows[t].handled

\* The state file never forgets a failure of the attempt it records: a row in a
\* failed state was dealt with for this attempt, or its notice is about this
\* attempt and not an earlier one.
EachAttemptCounts ==
    \A t \in Tasks : rows[t] # None /\ rows[t].state = "failed" =>
        \/ rows[t].handled = rows[t].attempt
        \/ Owed(rows, t) /\ rows[t].notice.attempt = rows[t].attempt

\* A reminder whose own turn fails never becomes an obligation that needs
\* reminders of its own.
RemindersBreedNothing ==
    [][\A x \in Turns : rows[x] = None /\ rows'[x] # None
            => Head(results).inputs \intersect Chats # {}]_vars

\* Every obligation is settled in the end, or the agent was reminded of it as
\* often as it may be.
EveryDutyTold ==
    \A t \in Tasks : []<>(~Owed(rows, t) \/ shown[t] = NoticeDeliveries)
=============================================================================
