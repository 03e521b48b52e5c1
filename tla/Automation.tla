----------------------------- MODULE Automation -----------------------------
(***************************************************************************)
(* Local scheduled work of the SDK runner: cron submits a prompt for a     *)
(* routine and a time slot, the runner hands it to the Agent SDK, and a    *)
(* worker records a receipt when the work is done.  Three kinds of process *)
(* share one SQLite file (packages/core/src/automation-store.ts): the      *)
(* submitters, the workers' "finish" commands, and one runner, which alone *)
(* writes statuses (packages/sdk-runner/src/automation.ts).                *)
(*                                                                         *)
(* The uuid of a request is a hash of its routine and slot, so a request   *)
(* is that pair.  A status keeps the token it was first saved with and a   *)
(* request gets no second status, so tokens are left out.  A crash may hit *)
(* between any two of the runner's writes.                                 *)
(***************************************************************************)
EXTENDS Naturals, FiniteSets, FiniteSetsExt

CONSTANTS
    Routines,    \* routines, numbered in the order of their names
    Slots,       \* the times work is scheduled for
    Retention,   \* AUTOMATION_RETENTION_MS
    Ahead,       \* how far ahead of its slot a request may come
    RequestMax,  \* AUTOMATION_REQUEST_MAX
    MaxClock,    \* bound: when the clock stops
    MaxStops,    \* bound: how often the runner goes down
    None

Requests == Routines \X Slots
Routine(r) == r[1]
Slot(r) == r[2]

ASSUME AutomationAssumption ==
    /\ Routines \subseteq Nat /\ Slots \subseteq Nat
    /\ IsFiniteSet(Routines) /\ IsFiniteSet(Slots)
    /\ {Retention, Ahead, RequestMax, MaxClock, MaxStops} \subseteq Nat
    /\ None \notin Requests

VARIABLES
    clock,      \* Date.now()
    state,      \* file: the state of a request's status; "pending" when it
                \* has none, "absent" when there is no such request
    updated,    \* file: updatedAt of the status
    receipts,   \* file: outcomes recorded for a request
    phase,      \* is the runner "down", "starting", "up" or "stopped"
    staged,     \* Automation.staged: in the input queue, not yet dispatched
    hand,       \* the request between the dispatch fence and the SDK
    working,    \* SDK: requests whose turn is not over
    handed,     \* history: how often the SDK was given a request
    stops       \* how often the runner went down

file == <<state, updated, receipts>>
memory == <<phase, staged, hand, working>>
vars == <<clock, file, memory, handed, stops>>

Live == {"dispatched", "consumed", "awaiting"}
Settled == {"completed", "coalesced", "cancelled"}
Statuses == Live \union Settled \union {"failed", "interrupted"}
HasStatus(r, st) == st[r] \in Statuses
Open(r, st) == HasStatus(r, st) /\ st[r] \notin Settled
Of(rt) == {r \in Requests : Routine(r) = rt}
Stored == {r \in Requests : state[r] # "absent"}

(***************************************************************************)
(* The other processes.                                                    *)
(***************************************************************************)
\* validSlot
ValidSlot(r) == clock <= Slot(r) + Retention /\ Slot(r) <= clock + Ahead

\* AutomationStore.submit: a slot that is there already is left as it is.
Submit(r) ==
    /\ ValidSlot(r)
    /\ state[r] = "absent" /\ Cardinality(Stored) < RequestMax
    /\ state' = [state EXCEPT ![r] = "pending"]
    /\ UNCHANGED <<clock, updated, receipts, memory, handed, stops>>

\* Mutant: the outcome is not checked.
FinishRaw(r, outcome) ==
    /\ HasStatus(r, state)
    /\ receipts' = [receipts EXCEPT ![r] = @ \union {outcome, "unknown"}]
    /\ UNCHANGED <<clock, state, updated, memory, handed, stops>>

\* AutomationStore.finish, by whoever read the token from the prompt or from
\* "metro task status".
Finish(r, outcome) ==
    /\ HasStatus(r, state)
    /\ receipts' = [receipts EXCEPT ![r] = @ \union {outcome}]
    /\ UNCHANGED <<clock, state, updated, memory, handed, stops>>

Tick ==
    /\ clock < MaxClock
    /\ clock' = clock + 1
    /\ UNCHANGED <<file, memory, handed, stops>>

(***************************************************************************)
(* The parts of a poll, as functions of the statuses.                      *)
(***************************************************************************)
\* Mutant: a receipt counts even for work that is settled.
ResolvedAgain ==
    [r \in Requests |->
        IF ~HasStatus(r, state) THEN state[r]
        ELSE IF "completed" \in receipts[r] THEN "completed"
        ELSE IF "blocked" \in receipts[r] THEN "failed"
        ELSE state[r]]

\* Automation.resolve: receipts come ordered by outcome, "blocked" first.
Resolved ==
    [r \in Requests |->
        IF ~Open(r, state) THEN state[r]
        ELSE IF "completed" \in receipts[r] THEN "completed"
        ELSE IF "blocked" \in receipts[r] THEN "failed"
        ELSE state[r]]

\* Mutant: failed and interrupted work does not hold its routine.
AdmitsPastFailures(rt, st) == \A r \in Of(rt) : r \notin staged /\ st[r] \notin Live

\* Automation.admit takes a routine with nothing staged and nothing unsettled.
Admits(rt, st) == \A r \in Of(rt) : r \notin staged /\ ~Open(r, st)

Due(rt, st) == {r \in Of(rt) : st[r] = "pending" /\ Slot(r) <= clock}
Newest(r, rt, st) == r \in Due(rt, st) /\ \A q \in Due(rt, st) : Slot(q) <= Slot(r)

\* Mutant: an old slot may run after a newer one.
PastWatermarkAlways(r, st) == TRUE

\* Is a slot newer than every slot of its routine that has a status?
PastWatermark(r, st) == \A q \in Of(Routine(r)) : HasStatus(q, st) => Slot(q) < Slot(r)

\* What Automation.coalesce returns.
Latest(r, st) ==
    /\ Admits(Routine(r), st)
    /\ Newest(r, Routine(r), st) /\ PastWatermark(r, st)

Coalesced(st) ==
    [r \in Requests |->
        IF Admits(Routine(r), st) /\ r \in Due(Routine(r), st) /\ ~Latest(r, st)
        THEN "coalesced" ELSE st[r]]

\* Requests are listed by slot and routine; routines come in the order of
\* their first request.
Precedes(p, q) == Slot(p) < Slot(q) \/ (Slot(p) = Slot(q) /\ Routine(p) <= Routine(q))
Leads(rt, other) == \E p \in Of(rt) \intersect Stored : \A q \in Of(other) \intersect Stored : Precedes(p, q)

\* The request that is staged: an input queue that holds something takes none.
Staged(r, st) ==
    /\ staged = {} /\ Latest(r, st)
    /\ \A q \in Requests : Latest(q, st) => Leads(Routine(r), Routine(q))

\* Mutant: a slot may go while it can still be submitted.
ExpiredEarly(r, st) ==
    /\ st[r] \in Settled /\ st[r] = state[r]
    /\ Slot(r) + Retention <= clock /\ updated[r] + Retention <= clock

\* Mutant: pruning does not ask whether the work is settled.
ExpiredOpen(r, st) ==
    /\ HasStatus(r, st) /\ st[r] = state[r]
    /\ Slot(r) + Retention < clock /\ updated[r] + Retention < clock

\* expiredRequests; what this poll has just written is not old.
Expired(r, st) ==
    /\ st[r] \in Settled /\ st[r] = state[r]
    /\ Slot(r) + Retention < clock /\ updated[r] + Retention < clock

Pruned(st) == [r \in Requests |-> IF Expired(r, st) THEN "absent" ELSE st[r]]

\* Mutant: receipts outlive the request they are for.
WriteOrphans(st) ==
    /\ state' = st
    /\ updated' = [r \in Requests |-> IF st[r] # state[r] THEN clock ELSE updated[r]]
    /\ UNCHANGED receipts

\* The runner's writes; deleting a request deletes its status and receipts.
Write(st) ==
    /\ state' = st
    /\ updated' = [r \in Requests |-> IF st[r] # state[r] THEN clock ELSE updated[r]]
    /\ receipts' = [r \in Requests |-> IF st[r] = "absent" THEN {} ELSE receipts[r]]

(***************************************************************************)
(* The runner.                                                             *)
(***************************************************************************)
\* Automation.start: what the last process left unfinished is uncertain.
Uncertain == [r \in Requests |-> IF state[r] \in Live THEN "interrupted" ELSE state[r]]

Start ==
    /\ phase \in {"down", "stopped"}
    /\ phase' = "starting"
    /\ Write(Uncertain)
    /\ UNCHANGED <<clock, staged, hand, working, handed, stops>>

\* Automation.poll; "crowded" says that other input is queued.
Poll(crowded) ==
    LET st == Coalesced(Resolved) IN
    /\ phase \in {"starting", "up"}
    /\ phase' = "up"
    /\ Write(Pruned(st))
    /\ staged' = staged \union {r \in Requests : ~crowded /\ Staged(r, st)}
    /\ UNCHANGED <<clock, hand, working, handed, stops>>

\* Mutant: the fence is not saved before the input is yielded.
DispatchUnfenced(r) ==
    /\ phase = "up" /\ r \in staged /\ hand = None
    /\ staged' = staged \ {r}
    /\ hand' = r
    /\ UNCHANGED <<clock, file, phase, working, handed, stops>>

\* Mutant: the request stays staged.
DispatchKept(r) ==
    /\ phase = "up" /\ r \in staged /\ hand = None /\ state[r] = "pending"
    /\ Write([state EXCEPT ![r] = "dispatched"])
    /\ hand' = r
    /\ UNCHANGED <<clock, phase, staged, working, handed, stops>>

\* Automation.dispatched: the fence is on disk before the SDK gets the input.
\* When it cannot be written the runner closes, which is a crash.
Dispatch(r) ==
    /\ phase = "up" /\ r \in staged /\ hand = None
    /\ Write([state EXCEPT ![r] = "dispatched"])
    /\ staged' = staged \ {r}
    /\ hand' = r
    /\ UNCHANGED <<clock, phase, working, handed, stops>>

\* The iterator yields.
Yield ==
    /\ phase = "up" /\ hand # None
    /\ hand' = None
    /\ working' = working \union {hand}
    /\ handed' = [handed EXCEPT ![hand] = @ + 1]
    /\ UNCHANGED <<clock, file, phase, staged, stops>>

\* Automation.observe: the SDK says that it started the input.
Consumed(r) ==
    /\ phase = "up" /\ r \in working /\ state[r] = "dispatched"
    /\ Write([state EXCEPT ![r] = "consumed"])
    /\ UNCHANGED <<clock, memory, handed, stops>>

\* Mutant: a successful turn completes the work.
ResultCompletes(r, ok) ==
    /\ phase = "up" /\ r \in working
    /\ working' = working \ {r}
    /\ Write(IF state[r] \notin Live THEN state
             ELSE [state EXCEPT ![r] = IF ok THEN "completed" ELSE "failed"])
    /\ UNCHANGED <<clock, phase, staged, hand, handed, stops>>

\* Automation.observe: the turn is over; its worker may still be busy.
Result(r, ok) ==
    /\ phase = "up" /\ r \in working
    /\ working' = working \ {r}
    /\ Write(IF state[r] \notin Live THEN state
             ELSE [state EXCEPT ![r] = IF ok THEN "awaiting" ELSE "failed"])
    /\ UNCHANGED <<clock, phase, staged, hand, handed, stops>>

Gone ==
    /\ staged' = {} /\ hand' = None /\ working' = {}
    /\ stops' = stops + 1
    /\ UNCHANGED <<clock, handed>>

\* Automation.close(true), the Harness page's Stop.
Cancelled(st) == [r \in Requests |-> IF st[r] \in Live THEN "cancelled" ELSE st[r]]

Stop ==
    /\ phase = "up" /\ stops < MaxStops
    /\ phase' = "stopped"
    /\ Write(Cancelled(Resolved))
    /\ Gone

\* The runner goes down with none of the writes of a poll, a start or a stop
\* made, or with some: those of one part come after all of the part before.
Torn(from, to) == {[r \in Requests |-> IF r \in S THEN to[r] ELSE from[r]] : S \in SUBSET Requests}

Crash ==
    /\ phase \in {"starting", "up"} /\ stops < MaxStops
    /\ phase' = "down"
    /\ \E st \in Torn(state, Resolved) \union Torn(Resolved, Coalesced(Resolved))
                 \union Torn(Resolved, Cancelled(Resolved)) : Write(st)
    /\ Gone

CrashStarting ==
    /\ phase \in {"down", "stopped"} /\ stops < MaxStops
    /\ phase' = "down"
    /\ \E st \in Torn(state, Uncertain) : Write(st)
    /\ Gone

(***************************************************************************)
(* The specification.                                                      *)
(***************************************************************************)
Init ==
    /\ clock = 0
    /\ state = [r \in Requests |-> "absent"]
    /\ updated = [r \in Requests |-> 0]
    /\ receipts = [r \in Requests |-> {}]
    /\ phase = "down" /\ staged = {} /\ hand = None /\ working = {}
    /\ handed = [r \in Requests |-> 0] /\ stops = 0

Next ==
    \/ Tick \/ Start \/ Yield \/ Stop \/ Crash \/ CrashStarting
    \/ \E crowded \in BOOLEAN : Poll(crowded)
    \/ \E r \in Requests :
          \/ Submit(r) \/ Dispatch(r) \/ Consumed(r)
          \/ \E outcome \in {"blocked", "completed"} : Finish(r, outcome)
          \/ \E ok \in BOOLEAN : Result(r, ok)

Spec == Init /\ [][Next]_vars

\* Time passes, the interval fires again and again with an empty input queue,
\* the SDK takes what it is given, and a runner that died is started.
Fairness ==
    /\ WF_vars(Tick)
    /\ WF_vars(phase = "down" /\ Start)
    /\ SF_vars(Poll(FALSE))
    /\ SF_vars(\E r \in Requests : Dispatch(r))
    /\ WF_vars(Yield)

FairSpec == Spec /\ Fairness

(***************************************************************************)
(* Properties.                                                             *)
(***************************************************************************)
TypeOK ==
    /\ clock \in 0..MaxClock
    /\ state \in [Requests -> Statuses \union {"absent", "pending"}]
    /\ updated \in [Requests -> 0..MaxClock]
    /\ receipts \in [Requests -> SUBSET {"blocked", "completed"}]
    /\ phase \in {"down", "starting", "up", "stopped"}
    /\ staged \subseteq Requests /\ hand \in Requests \union {None} /\ working \subseteq Requests
    /\ handed \in [Requests -> Nat] /\ stops \in 0..MaxStops

\* "The action prompt is not replayed": the SDK is given a slot at most once,
\* whatever crashes, retries of the submitter and prunings there are.
AtMostOnce == \A r \in Requests : handed[r] <= 1

\* A routine's slots run forward only: a late slot never runs behind a newer
\* one, not even when the newer one has been pruned.
Forward ==
    [][\A r \in Requests : handed'[r] # handed[r]
        => \A q \in Of(Routine(r)) : handed[q] > 0 => Slot(q) < Slot(r)]_vars

\* Failed, blocked or interrupted work holds its routine: there is never a
\* second request on the way to the agent or unresolved.
OneOpen ==
    \A p, q \in Requests :
        /\ Routine(p) = Routine(q)
        /\ p \in staged \/ Open(p, state)
        /\ q \in staged \/ Open(q, state)
        => p = q

\* Unresolved work is not forgotten, pruned or settled before somebody said it
\* is done, or the user stopped it while the agent was at it: not by a turn's
\* result, a crash between two writes or any age of the record.
\* "A parent response or worker launch does not complete this routine."
KeptUntilReceipt ==
    [][\A r \in Requests : Open(r, state) =>
        \/ Open(r, state')
        \/ state'[r] = "completed" /\ "completed" \in receipts[r]
        \/ state'[r] = "cancelled" /\ state[r] \in Live]_vars

\* "Completion is monotonic": nothing reopens or rewrites settled work.
Monotonic ==
    [][\A r \in Requests : state[r] \in Settled => state'[r] \in {state[r], "absent"}]_vars

\* A receipt always belongs to a status; Automation.resolve throws otherwise,
\* and the runner would fail at every start.
ReceiptsMatch == \A r \in Requests : receipts[r] # {} => HasStatus(r, state)

\* A due slot is handed over or coalesced in the end, unless its routine is
\* held or the session stays stopped.
EverySlotSettles ==
    \A r \in Requests :
        []<>(state[r] # "pending" \/ phase = "stopped" \/ \E q \in Of(Routine(r)) : Open(q, state))

(***************************************************************************)
(* The inductive invariant behind AtMostOnce, OneOpen and Monotonic.       *)
(***************************************************************************)
\* What is staged has not been dispatched.
StagedPending == \A r \in staged : state[r] = "pending"

\* What was handed over, or is being, has a status for as long as the slot
\* could be submitted again.
Spent(r) == handed[r] > 0 \/ hand = r
SpentFenced ==
    \A r \in Requests : Spent(r) =>
        /\ state[r] # "pending"
        /\ state[r] = "absent" => Slot(r) + Retention < clock

\* The input at the fence was not handed over before.
HandFresh == \A r \in Requests : handed[r] <= 1 /\ (hand = r => handed[r] = 0)

DeliveryInv ==
    TypeOK /\ StagedPending /\ SpentFenced /\ HandFresh /\ OneOpen /\ ReceiptsMatch

(***************************************************************************)
(* What Forward needs beyond that.                                         *)
(***************************************************************************)
SameRoutine(p, q) == Routine(p) = Routine(q)

\* What is staged or was handed over was due.
DueFirst == \A r \in Requests : r \in staged \/ Spent(r) => Slot(r) <= clock

\* What is staged is newer than all that has a status or was handed over, and
\* the input at the fence is newer than all that was handed over.
StagedTop ==
    \A r \in staged, q \in Requests :
        SameRoutine(q, r) /\ (HasStatus(q, state) \/ Spent(q)) => Slot(q) < Slot(r)
HandTop ==
    \A r, q \in Requests :
        hand = r /\ SameRoutine(q, r) /\ handed[q] > 0 => Slot(q) < Slot(r)

\* Unresolved work is the newest of its routine that has a status.
OpenTop ==
    \A r, q \in Requests :
        SameRoutine(q, r) /\ Open(r, state) /\ HasStatus(q, state) => Slot(q) <= Slot(r)

\* A pending slot older than one that was handed over will not be staged: the
\* file has a status at least as new as that, or a newer slot that is due.
Shadows(w, r, q) ==
    /\ SameRoutine(w, r) /\ Slot(q) <= Slot(w)
    /\ HasStatus(w, state) \/ (state[w] = "pending" /\ Slot(w) <= clock /\ Slot(r) < Slot(w))
Shadowed ==
    \A r, q \in Requests :
        SameRoutine(q, r) /\ Spent(q) /\ state[r] = "pending" /\ Slot(r) <= Slot(q)
            => \E w \in Requests : Shadows(w, r, q)

ForwardInv == DueFirst /\ StagedTop /\ HandTop /\ OpenTop /\ Shadowed
=============================================================================
