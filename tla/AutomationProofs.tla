-------------------------- MODULE AutomationProofs --------------------------
(***************************************************************************)
(* Proofs about Automation, for any routines, slots and bounds.            *)
(*                                                                         *)
(* Every write of the runner but the dispatch fence and the pruning moves  *)
(* statuses in one way only (Moves): unresolved work gets another status,  *)
(* pending work that is not staged is coalesced.  The lemmas show that of  *)
(* each part of a poll, a start and a stop, and of every torn write, and   *)
(* the invariant follows from Moves without looking at the parts again.    *)
(***************************************************************************)
EXTENDS Automation, TLAPS

States == Statuses \union {"absent", "pending"}

Moves(st) ==
    /\ st \in [Requests -> States]
    /\ \A r \in Requests :
        \/ st[r] = state[r]
        \/ Open(r, state) /\ HasStatus(r, st)
        \/ state[r] = "pending" /\ r \notin staged /\ st[r] = "coalesced"

\* A request's routine and slot are what the constants say.
LEMMA RequestParts ==
    \A r \in Requests : Routine(r) \in Routines /\ Slot(r) \in Slots /\ Slot(r) \in Nat
BY AutomationAssumption DEF Requests, Routine, Slot

\* A request is its routine and its slot: requestUuid has no other input.
LEMMA RequestIdentity ==
    \A p, q \in Requests : Routine(p) = Routine(q) /\ Slot(p) = Slot(q) => p = q
BY AutomationAssumption DEF Requests, Routine, Slot

\* The bounds are natural numbers.
LEMMA Bounds ==
    /\ Retention \in Nat /\ Ahead \in Nat /\ MaxClock \in Nat /\ MaxStops \in Nat
    /\ None \notin Requests
BY AutomationAssumption

\* Automation.resolve only changes unresolved work.
LEMMA ResolvedMoves ==
    ASSUME TypeOK PROVE Moves(Resolved)
BY DEF TypeOK, Moves, Resolved, States, Open, HasStatus, Statuses, Settled, Live

\* Resolving and then coalescing changes unresolved work, and pending work
\* that is not staged.
LEMMA CoalescedMoves ==
    ASSUME TypeOK PROVE Moves(Coalesced(Resolved))
<1>1. Moves(Resolved)
  BY ResolvedMoves
<1>2. Resolved \in [Requests -> States]
  BY <1>1 DEF Moves
<1>3. Coalesced(Resolved) \in [Requests -> States]
  BY <1>2 DEF Coalesced, States, Statuses, Settled
<1>4. ASSUME NEW r \in Requests
      PROVE \/ Coalesced(Resolved)[r] = state[r]
            \/ Open(r, state) /\ HasStatus(r, Coalesced(Resolved))
            \/ state[r] = "pending" /\ r \notin staged /\ Coalesced(Resolved)[r] = "coalesced"
  <2>1. CASE Coalesced(Resolved)[r] = Resolved[r]
    BY <1>1, <2>1 DEF Moves, HasStatus, Statuses, Settled
  <2>2. CASE Coalesced(Resolved)[r] # Resolved[r]
    <3>1. /\ Coalesced(Resolved)[r] = "coalesced"
          /\ Admits(Routine(r), Resolved) /\ r \in Due(Routine(r), Resolved)
      BY <2>2 DEF Coalesced
    <3>2. Resolved[r] = "pending" /\ r \notin staged
      BY <3>1 DEF Due, Admits, Of
    <3>3. state[r] = "pending"
      BY <3>2 DEF Resolved
    <3> QED BY <3>1, <3>2, <3>3
  <2> QED BY <2>1, <2>2
<1> QED BY <1>3, <1>4 DEF Moves

\* Resolving and then cancelling only changes unresolved work.
LEMMA CancelledMoves ==
    ASSUME TypeOK PROVE Moves(Cancelled(Resolved))
<1>1. Moves(Resolved)
  BY ResolvedMoves
<1> QED BY <1>1 DEF Moves, Cancelled, Resolved, States, Open, HasStatus, Statuses, Settled, Live

\* Start only changes unresolved work.
LEMMA UncertainMoves ==
    ASSUME TypeOK PROVE Moves(Uncertain)
BY DEF TypeOK, Moves, Uncertain, States, Open, HasStatus, Statuses, Settled, Live

\* A write that was cut short between two good ones is good.
LEMMA TornMoves ==
    ASSUME NEW a, NEW b, Moves(a), Moves(b), NEW st \in Torn(a, b)
    PROVE  Moves(st)
<1>1. PICK S \in SUBSET Requests : st = [r \in Requests |-> IF r \in S THEN b[r] ELSE a[r]]
  BY DEF Torn
<1> QED BY <1>1 DEF Moves, HasStatus

\* Nothing is a move too.
LEMMA StutterMoves ==
    ASSUME TypeOK PROVE Moves(state)
BY DEF TypeOK, Moves, States

\* The state functions of the invariant do not notice the clock, the phase or
\* the set of working turns, as long as the rest stands.
LEMMA MovesKeep ==
    ASSUME DeliveryInv, NEW st, Moves(st), Write(st),
           clock' = clock, handed' = handed,
           staged' \subseteq staged, hand' \in {hand, None}
    PROVE  /\ state' \in [Requests -> States]
           /\ updated' \in [Requests -> 0..MaxClock]
           /\ receipts' \in [Requests -> SUBSET {"blocked", "completed"}]
           /\ StagedPending' /\ SpentFenced' /\ HandFresh' /\ OneOpen' /\ ReceiptsMatch'
<1> USE DEF DeliveryInv
<1>1. state' = st /\ st \in [Requests -> States]
  BY DEF Write, Moves
<1>2. updated' \in [Requests -> 0..MaxClock]
  BY DEF Write, TypeOK
<1>3. receipts' \in [Requests -> SUBSET {"blocked", "completed"}]
  BY DEF Write, TypeOK
<1>4. ASSUME NEW r \in Requests
      PROVE \/ state'[r] = state[r]
            \/ Open(r, state) /\ HasStatus(r, state')
            \/ state[r] = "pending" /\ r \notin staged /\ state'[r] = "coalesced"
  BY <1>1 DEF Moves
<1>5. StagedPending'
  BY <1>4 DEF StagedPending, TypeOK, Open, HasStatus, Statuses, Settled, Live
<1>6. SpentFenced'
  BY <1>4, Bounds DEF SpentFenced, Spent, Open, HasStatus, Statuses, Settled, Live
<1>7. HandFresh'
  BY Bounds DEF HandFresh
<1>8. \A r \in Requests : Open(r, state)' => Open(r, state)
  BY <1>4 DEF Open, HasStatus, Statuses, Settled, Live
<1>9. OneOpen'
  BY <1>8 DEF OneOpen
<1>10. ReceiptsMatch'
  <2> SUFFICES ASSUME NEW r \in Requests, receipts'[r] # {} PROVE HasStatus(r, state')
    BY DEF ReceiptsMatch
  <2>1. receipts[r] # {}
    BY DEF Write
  <2>2. HasStatus(r, state)
    BY <2>1 DEF ReceiptsMatch
  <2> QED BY <1>4, <2>2 DEF HasStatus, Statuses, Settled
<1> QED BY <1>1, <1>2, <1>3, <1>5, <1>6, <1>7, <1>9, <1>10

\* A write that only moves statuses, with the rest of the memory in its type.
LEMMA MovesInvariant ==
    ASSUME DeliveryInv, NEW st, Moves(st), Write(st),
           clock' = clock, handed' = handed,
           staged' \subseteq staged, hand' \in {hand, None},
           phase' \in {"down", "starting", "up", "stopped"},
           working' \subseteq working, stops' \in 0..MaxStops
    PROVE  DeliveryInv'
<1>1. /\ state' \in [Requests -> States]
      /\ updated' \in [Requests -> 0..MaxClock]
      /\ receipts' \in [Requests -> SUBSET {"blocked", "completed"}]
      /\ StagedPending' /\ SpentFenced' /\ HandFresh' /\ OneOpen' /\ ReceiptsMatch'
  BY MovesKeep
<1>2. TypeOK'
  BY <1>1 DEF DeliveryInv, TypeOK, States
<1> QED BY <1>1, <1>2 DEF DeliveryInv

\* Going down or stopping loses the memory and moves statuses.
LEMMA GoneInvariant ==
    ASSUME DeliveryInv, NEW st, Moves(st), Write(st), Gone, stops < MaxStops,
           phase' \in {"down", "stopped"}
    PROVE  DeliveryInv'
<1>1. stops' \in 0..MaxStops
  BY Bounds DEF Gone, DeliveryInv, TypeOK
<1> QED BY <1>1, MovesInvariant DEF Gone

\* A submitted slot was absent, so it was not handed over within its retention.
LEMMA SubmitInvariant ==
    ASSUME DeliveryInv, NEW r \in Requests, Submit(r) PROVE DeliveryInv'
<1> USE DEF DeliveryInv
<1>1. state' = [state EXCEPT ![r] = "pending"] /\ state[r] = "absent"
  BY DEF Submit
<1>2. TypeOK'
  BY <1>1 DEF Submit, TypeOK, memory
<1>3. StagedPending'
  BY <1>1 DEF Submit, StagedPending, TypeOK, memory
<1>4. ~Spent(r)
  BY RequestParts, Bounds DEF Submit, SpentFenced, ValidSlot, TypeOK
<1>5. SpentFenced'
  BY <1>1, <1>4 DEF Submit, SpentFenced, Spent, TypeOK, memory
<1>6. HandFresh'
  BY DEF Submit, HandFresh, memory
<1>7. \A q \in Requests : Open(q, state)' => Open(q, state)
  BY <1>1 DEF Open, HasStatus, Statuses, Live, Settled, TypeOK
<1>8. OneOpen'
  BY <1>7 DEF Submit, OneOpen, memory
<1>9. ReceiptsMatch'
  BY <1>1 DEF Submit, ReceiptsMatch, HasStatus, TypeOK, Statuses, Live, Settled
<1> QED BY <1>2, <1>3, <1>5, <1>6, <1>8, <1>9

\* The fence takes the place of the staged entry.
LEMMA DispatchInvariant ==
    ASSUME DeliveryInv, NEW r \in Requests, Dispatch(r) PROVE DeliveryInv'
<1> USE DEF DeliveryInv
<1>1. /\ state' = [state EXCEPT ![r] = "dispatched"] /\ state[r] = "pending"
      /\ staged' = staged \ {r} /\ r \in staged /\ hand' = r /\ hand = None
      /\ clock' = clock /\ handed' = handed
  BY DEF Dispatch, Write, StagedPending
<1>2. TypeOK'
  <2>1. state' \in [Requests -> States]
    BY <1>1 DEF TypeOK, States, Statuses, Live
  <2>2. updated' \in [Requests -> 0..MaxClock] /\ receipts' \in [Requests -> SUBSET {"blocked", "completed"}]
    BY DEF Dispatch, Write, TypeOK
  <2> QED BY <1>1, <2>1, <2>2 DEF Dispatch, TypeOK, States
<1>3. StagedPending'
  BY <1>1 DEF StagedPending, TypeOK
<1>4. SpentFenced' /\ HandFresh'
  <2>1. handed[r] = 0
    BY <1>1 DEF SpentFenced, Spent, TypeOK
  <2> QED BY <1>1, <2>1, Bounds DEF SpentFenced, HandFresh, Spent, TypeOK
<1>5. \A q \in Requests : q \in staged' \/ Open(q, state)' => q \in staged \/ Open(q, state)
  BY <1>1 DEF Open, HasStatus, TypeOK
<1>6. OneOpen'
  BY <1>5 DEF OneOpen
<1>7. ReceiptsMatch'
  BY <1>1 DEF Dispatch, Write, ReceiptsMatch, HasStatus, TypeOK, Statuses, Live
<1> QED BY <1>2, <1>3, <1>4, <1>6, <1>7

\* A poll resolves, coalesces, stages one request of a free routine, and
\* prunes what can no longer be submitted.
LEMMA PollInvariant ==
    ASSUME DeliveryInv, NEW crowded \in BOOLEAN, Poll(crowded) PROVE DeliveryInv'
<1> DEFINE st == Coalesced(Resolved)
<1> DEFINE new == {r \in Requests : ~crowded /\ Staged(r, st)}
<1> USE DEF DeliveryInv
<1>1. Moves(st)
  BY CoalescedMoves
<1>2. /\ state' = Pruned(st) /\ staged' = staged \union new
      /\ clock' = clock /\ hand' = hand /\ handed' = handed /\ working' = working
      /\ stops' = stops /\ phase' = "up"
  BY DEF Poll, Write
<1>3. ASSUME NEW r \in Requests
      PROVE \/ state'[r] = state[r]
            \/ Open(r, state) /\ HasStatus(r, state')
            \/ state[r] = "pending" /\ r \notin staged /\ state'[r] = "coalesced"
            \/ state[r] \in Settled /\ state'[r] = "absent" /\ Slot(r) + Retention < clock
  <2>1. CASE Expired(r, st)
    BY <1>2, <2>1 DEF Pruned, Expired
  <2>2. CASE ~Expired(r, st)
    <3>1. state'[r] = st[r]
      BY <1>2, <2>2 DEF Pruned
    <3> QED BY <1>1, <3>1 DEF Moves, HasStatus
  <2> QED BY <2>1, <2>2
<1>4. \A r \in new : st[r] = "pending" /\ Admits(Routine(r), st)
  BY DEF Staged, Latest, Newest, Due
<1>5. \A r \in new : state[r] = "pending" /\ state'[r] = "pending"
  <2> SUFFICES ASSUME NEW r \in new PROVE state[r] = "pending" /\ state'[r] = "pending"
    OBVIOUS
  <2>1. st[r] = "pending" /\ r \in Requests
    BY <1>4
  <2>2. state[r] = "pending"
    BY <1>1, <2>1 DEF Moves, HasStatus, Statuses, Live, Settled
  <2>3. state'[r] = "pending"
    BY <1>2, <2>1 DEF Pruned, Expired, Settled
  <2> QED BY <2>2, <2>3
<1>6. TypeOK'
  <2>1. state' \in [Requests -> States]
    BY <1>1, <1>2 DEF Moves, Pruned, States
  <2>2. updated' \in [Requests -> 0..MaxClock] /\ receipts' \in [Requests -> SUBSET {"blocked", "completed"}]
    BY DEF Poll, Write, TypeOK
  <2> QED BY <1>2, <2>1, <2>2 DEF TypeOK, States
<1>7. StagedPending'
  BY <1>2, <1>3, <1>5 DEF StagedPending, TypeOK, Open, HasStatus, Statuses, Live, Settled
<1>8. SpentFenced'
  BY <1>2, <1>3 DEF SpentFenced, Spent, Open, HasStatus, Statuses, Live, Settled
<1>9. HandFresh'
  BY <1>2 DEF HandFresh
<1>10. \A r \in Requests : Open(r, state)' => Open(r, state) /\ Open(r, st)
  <2> SUFFICES ASSUME NEW r \in Requests, Open(r, state') PROVE Open(r, state) /\ Open(r, st)
    OBVIOUS
  <2>1. state'[r] = st[r]
    BY <1>2 DEF Pruned, Open, HasStatus, Statuses, Live, Settled
  <2>2. Open(r, st)
    BY <2>1 DEF Open, HasStatus
  <2> QED BY <1>3, <2>2 DEF Open, HasStatus, Statuses, Live, Settled
<1>11. OneOpen'
  <2> SUFFICES ASSUME NEW p \in Requests, NEW q \in Requests, Routine(p) = Routine(q),
                      p \in staged' \/ Open(p, state'), q \in staged' \/ Open(q, state')
               PROVE  p = q
    BY DEF OneOpen
  <2>1. ASSUME NEW a \in new, NEW b \in Requests, Routine(a) = Routine(b),
               b \in staged' \/ Open(b, state')
        PROVE  a = b
    <3>1. b \notin staged /\ ~Open(b, st)
      BY <1>4, <2>1 DEF Admits, Of
    <3>2. b \in new
      BY <1>2, <1>10, <2>1, <3>1
    <3>3. /\ a \in Due(Routine(a), st) /\ b \in Due(Routine(b), st)
          /\ Slot(a) <= Slot(b) /\ Slot(b) <= Slot(a)
      BY <2>1, <3>2 DEF Staged, Latest, Newest
    <3> QED BY <2>1, <3>3, RequestParts, RequestIdentity
  <2>2. CASE p \in new
    BY <2>1, <2>2
  <2>3. CASE q \in new
    BY <2>1, <2>3
  <2>4. CASE p \notin new /\ q \notin new
    BY <1>2, <1>10, <2>4 DEF OneOpen
  <2> QED BY <2>2, <2>3, <2>4
<1>12. ReceiptsMatch'
  <2> SUFFICES ASSUME NEW r \in Requests, receipts'[r] # {} PROVE HasStatus(r, state')
    BY DEF ReceiptsMatch
  <2>1. receipts[r] # {} /\ state'[r] # "absent"
    BY <1>2 DEF Poll, Write
  <2>2. HasStatus(r, state)
    BY <2>1 DEF ReceiptsMatch
  <2> QED BY <1>3, <2>1, <2>2 DEF HasStatus, Statuses, Settled
<1> QED BY <1>6, <1>7, <1>8, <1>9, <1>11, <1>12

\* Every step keeps the invariant.
LEMMA StepInvariant ==
    ASSUME DeliveryInv, [Next]_vars PROVE DeliveryInv'
<1>1. ASSUME NEW r \in Requests, Submit(r) PROVE DeliveryInv'
  BY <1>1, SubmitInvariant
<1>2. ASSUME NEW r \in Requests, NEW outcome \in {"blocked", "completed"}, Finish(r, outcome)
      PROVE  DeliveryInv'
  <2>1. TypeOK'
    BY <1>2 DEF Finish, DeliveryInv, TypeOK, memory
  <2>2. ReceiptsMatch'
    BY <1>2 DEF Finish, DeliveryInv, TypeOK, ReceiptsMatch, HasStatus
  <2> QED BY <1>2, <2>1, <2>2 DEF Finish, DeliveryInv, memory, StagedPending, SpentFenced, Spent,
               HandFresh, OneOpen, Open, HasStatus
<1>3. CASE Tick
  <2>1. TypeOK'
    BY <1>3, Bounds DEF Tick, DeliveryInv, TypeOK, file, memory
  <2>2. SpentFenced'
    BY <1>3, Bounds, RequestParts DEF Tick, DeliveryInv, TypeOK, SpentFenced, Spent, file, memory
  <2> QED BY <1>3, <2>1, <2>2 DEF Tick, DeliveryInv, file, memory, StagedPending,
               HandFresh, OneOpen, ReceiptsMatch, Open, HasStatus
<1>4. CASE Start
  <2>1. Moves(Uncertain)
    BY UncertainMoves DEF DeliveryInv
  <2> QED BY <1>4, <2>1, MovesInvariant DEF Start, DeliveryInv, TypeOK
<1>5. ASSUME NEW crowded \in BOOLEAN, Poll(crowded) PROVE DeliveryInv'
  BY <1>5, PollInvariant
<1>6. ASSUME NEW r \in Requests, Dispatch(r) PROVE DeliveryInv'
  BY <1>6, DispatchInvariant
<1>7. CASE Yield
  <2> USE DEF DeliveryInv
  <2>1. /\ hand \in Requests /\ hand' = None
        /\ handed' = [handed EXCEPT ![hand] = @ + 1] /\ handed[hand] = 0
        /\ UNCHANGED <<clock, state, updated, receipts, phase, staged, stops>>
    BY <1>7 DEF Yield, TypeOK, HandFresh, file
  <2>2. TypeOK'
    BY <1>7, <2>1 DEF Yield, TypeOK
  <2>3. SpentFenced'
    BY <2>1, Bounds DEF SpentFenced, Spent, TypeOK
  <2>4. HandFresh'
    BY <2>1, Bounds DEF HandFresh, TypeOK
  <2> QED BY <2>1, <2>2, <2>3, <2>4 DEF StagedPending, OneOpen, ReceiptsMatch, Open, HasStatus
<1>8. ASSUME NEW r \in Requests, Consumed(r) PROVE DeliveryInv'
  <2>1. Moves([state EXCEPT ![r] = "consumed"])
    BY <1>8 DEF Consumed, DeliveryInv, TypeOK, Moves, States, Open, HasStatus, Statuses, Live, Settled
  <2> QED BY <1>8, <2>1, MovesInvariant DEF Consumed, memory, DeliveryInv, TypeOK
<1>9. ASSUME NEW r \in Requests, NEW ok \in BOOLEAN, Result(r, ok) PROVE DeliveryInv'
  <2> DEFINE st == IF state[r] \notin Live THEN state
                   ELSE [state EXCEPT ![r] = IF ok THEN "awaiting" ELSE "failed"]
  <2>1. Moves(st)
    BY StutterMoves DEF DeliveryInv, TypeOK, Moves, States, Open, HasStatus, Statuses, Live, Settled
  <2>2. /\ Write(st) /\ working' \subseteq working
        /\ UNCHANGED <<clock, phase, staged, hand, handed, stops>>
    BY <1>9 DEF Result
  <2>3. phase' \in {"down", "starting", "up", "stopped"} /\ stops' \in 0..MaxStops
    BY <2>2 DEF DeliveryInv, TypeOK
  <2> QED BY <2>1, <2>2, <2>3, MovesInvariant
<1>10. CASE Stop
  <2>1. Moves(Cancelled(Resolved))
    BY CancelledMoves DEF DeliveryInv
  <2> QED BY <1>10, <2>1, GoneInvariant DEF Stop
<1>11. CASE Crash
  <2>1. PICK st \in Torn(state, Resolved) \union Torn(Resolved, Coalesced(Resolved))
                    \union Torn(Resolved, Cancelled(Resolved)) : Write(st)
    BY <1>11 DEF Crash
  <2>2. Moves(st)
    BY <2>1, TornMoves, StutterMoves, ResolvedMoves, CoalescedMoves, CancelledMoves DEF DeliveryInv
  <2> QED BY <1>11, <2>1, <2>2, GoneInvariant DEF Crash
<1>12. CASE CrashStarting
  <2>1. PICK st \in Torn(state, Uncertain) : Write(st)
    BY <1>12 DEF CrashStarting
  <2>2. Moves(st)
    BY <2>1, TornMoves, StutterMoves, UncertainMoves DEF DeliveryInv
  <2> QED BY <1>12, <2>1, <2>2, GoneInvariant DEF CrashStarting
<1>13. CASE UNCHANGED vars
  BY <1>13 DEF vars, file, memory, DeliveryInv, TypeOK, StagedPending, SpentFenced, Spent, HandFresh,
     OneOpen, ReceiptsMatch, Open, HasStatus
<1> QED BY <1>1, <1>2, <1>3, <1>4, <1>5, <1>6, <1>7, <1>8, <1>9, <1>10, <1>11, <1>12, <1>13 DEF Next

\* The inductive invariant of the automation store and its runner.
THEOREM DeliveryInvariant == Spec => []DeliveryInv
<1>1. Init => DeliveryInv
  BY Bounds DEF Init, DeliveryInv, TypeOK, StagedPending, SpentFenced, Spent, HandFresh, OneOpen,
     ReceiptsMatch, Open, HasStatus, Statuses, Live, Settled
<1> QED BY <1>1, StepInvariant, PTL DEF Spec

\* Types: every reachable status, receipt, clock and counter is what the
\* code's parsers accept.
THEOREM AutomationTypes == Spec => []TypeOK
BY DeliveryInvariant, PTL DEF DeliveryInv

\* The SDK is given a scheduled slot at most once, for any number of crashes,
\* stops, resubmissions and prunings.
THEOREM AtMostOnceAlways == Spec => []AtMostOnce
<1>1. DeliveryInv => AtMostOnce
  BY DEF DeliveryInv, HandFresh, AtMostOnce
<1> QED BY <1>1, DeliveryInvariant, PTL

\* A routine never has two requests staged or unresolved.
THEOREM OneOpenAlways == Spec => []OneOpen
BY DeliveryInvariant, PTL DEF DeliveryInv

\* Automation.resolve never meets a receipt without its status.
THEOREM ReceiptsMatchAlways == Spec => []ReceiptsMatch
BY DeliveryInvariant, PTL DEF DeliveryInv

\* Moves leave settled work alone.
LEMMA MovesSettled ==
    ASSUME NEW st, Moves(st), NEW r \in Requests, state[r] \in Settled PROVE st[r] = state[r]
BY DEF Moves, Open, Settled

\* No step rewrites a settled status; pruning removes it.
LEMMA StepMonotonic ==
    ASSUME DeliveryInv, [Next]_vars, NEW r \in Requests, state[r] \in Settled
    PROVE  state'[r] \in {state[r], "absent"}
<1> USE DEF DeliveryInv
<1>1. ASSUME NEW st, Moves(st), Write(st) PROVE state'[r] = state[r]
  BY <1>1, MovesSettled DEF Write
<1>2. ASSUME NEW q \in Requests, Submit(q) PROVE state'[r] = state[r]
  BY <1>2 DEF Submit, TypeOK, Settled
<1>3. ASSUME NEW q \in Requests, NEW outcome \in {"blocked", "completed"}, Finish(q, outcome)
      PROVE  state'[r] = state[r]
  BY <1>3 DEF Finish
<1>4. CASE Tick \/ Yield \/ UNCHANGED vars
  BY <1>4 DEF Tick, Yield, vars, file
<1>5. CASE Start
  BY <1>1, <1>5, UncertainMoves DEF Start
<1>6. ASSUME NEW crowded \in BOOLEAN, Poll(crowded) PROVE state'[r] \in {state[r], "absent"}
  <2>1. Coalesced(Resolved)[r] = state[r]
    BY CoalescedMoves, MovesSettled
  <2> QED BY <1>6, <2>1 DEF Poll, Write, Pruned
<1>7. ASSUME NEW q \in Requests, Dispatch(q) PROVE state'[r] = state[r]
  BY <1>7 DEF Dispatch, Write, StagedPending, TypeOK, Settled
<1>8. ASSUME NEW q \in Requests, Consumed(q) PROVE state'[r] = state[r]
  BY <1>8 DEF Consumed, Write, TypeOK, Settled
<1>9. ASSUME NEW q \in Requests, NEW ok \in BOOLEAN, Result(q, ok) PROVE state'[r] = state[r]
  BY <1>9 DEF Result, Write, TypeOK, Settled, Live
<1>10. CASE Stop
  BY <1>1, <1>10, CancelledMoves DEF Stop
<1>11. CASE Crash
  <2>1. PICK st \in Torn(state, Resolved) \union Torn(Resolved, Coalesced(Resolved))
                    \union Torn(Resolved, Cancelled(Resolved)) : Write(st)
    BY <1>11 DEF Crash
  <2>2. Moves(st)
    BY <2>1, TornMoves, StutterMoves, ResolvedMoves, CoalescedMoves, CancelledMoves
  <2> QED BY <1>1, <2>1, <2>2
<1>12. CASE CrashStarting
  <2>1. PICK st \in Torn(state, Uncertain) : Write(st)
    BY <1>12 DEF CrashStarting
  <2>2. Moves(st)
    BY <2>1, TornMoves, StutterMoves, UncertainMoves
  <2> QED BY <1>1, <2>1, <2>2
<1> QED BY <1>2, <1>3, <1>4, <1>5, <1>6, <1>7, <1>8, <1>9, <1>10, <1>11, <1>12 DEF Next

\* "Completion is monotonic": settled work is never reopened or rewritten.
THEOREM MonotonicAlways == Spec => Monotonic
<1>1. DeliveryInv /\ [Next]_vars
        => [\A r \in Requests : state[r] \in Settled => state'[r] \in {state[r], "absent"}]_vars
  BY StepMonotonic
<1> QED BY <1>1, DeliveryInvariant, PTL DEF Spec, Monotonic

(***************************************************************************)
(* Forward.  A routine is only coalesced when nothing of it is staged or   *)
(* unresolved (Calm), so the newest status of a routine is never passed    *)
(* by an older slot, and the record that shadows an old pending slot is    *)
(* pruned only after that slot was coalesced in the same poll.             *)
(***************************************************************************)
Calm(st) ==
    \A r \in Requests : state[r] = "pending" /\ st[r] = "coalesced"
        => \A p \in Of(Routine(r)) : p \notin staged /\ ~Open(p, st)

\* Resolving, cancelling and starting coalesce nothing.
LEMMA QuietCalm ==
    ASSUME TypeOK, NEW st \in Torn(state, Resolved) \union Torn(Resolved, Cancelled(Resolved))
                              \union Torn(state, Uncertain)
    PROVE  Calm(st)
<1>1. \A r \in Requests : state[r] = "pending"
        => Resolved[r] = "pending" /\ Cancelled(Resolved)[r] = "pending" /\ Uncertain[r] = "pending"
  BY DEF Resolved, Cancelled, Uncertain, Open, HasStatus, Statuses, Live, Settled
<1>2. \A r \in Requests : state[r] = "pending" => st[r] = "pending"
  BY <1>1 DEF Torn
<1> QED BY <1>2 DEF Calm

\* A write cut short while coalescing is calm.
LEMMA CoalesceCalm ==
    ASSUME TypeOK, NEW st \in Torn(Resolved, Coalesced(Resolved)) PROVE Calm(st)
<1>1. PICK S \in SUBSET Requests :
        st = [r \in Requests |-> IF r \in S THEN Coalesced(Resolved)[r] ELSE Resolved[r]]
  BY DEF Torn
<1> SUFFICES ASSUME NEW r \in Requests, state[r] = "pending", st[r] = "coalesced",
                    NEW p \in Of(Routine(r))
             PROVE  p \notin staged /\ ~Open(p, st)
  BY DEF Calm
<1>2. Resolved[r] = "pending"
  BY DEF Resolved, Open, HasStatus, Statuses, Live, Settled
<1>3. Admits(Routine(r), Resolved)
  BY <1>1, <1>2 DEF Coalesced
<1>4. p \notin staged /\ ~Open(p, Resolved) /\ p \in Requests
  BY <1>3 DEF Admits, Of
<1>5. st[p] \in {Resolved[p], "coalesced"}
  BY <1>1, <1>4 DEF Coalesced
<1> QED BY <1>4, <1>5 DEF Open, HasStatus, Settled

\* The whole of a poll's writes, cut short nowhere.
LEMMA TornWhole ==
    ASSUME NEW a, NEW b, a \in [Requests -> States], b \in [Requests -> States]
    PROVE  a \in Torn(a, b) /\ b \in Torn(a, b)
<1>1. a = [r \in Requests |-> IF r \in {} THEN b[r] ELSE a[r]]
  OBVIOUS
<1>2. b = [r \in Requests |-> IF r \in Requests THEN b[r] ELSE a[r]]
  OBVIOUS
<1>3. a \in Torn(a, b)
  <2>1. \E S \in SUBSET Requests : a = [r \in Requests |-> IF r \in S THEN b[r] ELSE a[r]]
    <3> WITNESS {} \in SUBSET Requests
    <3> QED BY <1>1
  <2> QED BY <2>1 DEF Torn
<1>4. b \in Torn(a, b)
  <2>1. \E S \in SUBSET Requests : b = [r \in Requests |-> IF r \in S THEN b[r] ELSE a[r]]
    <3> WITNESS Requests \in SUBSET Requests
    <3> QED BY <1>2
  <2> QED BY <2>1 DEF Torn
<1> QED BY <1>3, <1>4

\* Calm moves keep the order of slots.
LEMMA CalmKeeps ==
    ASSUME DeliveryInv, ForwardInv, NEW st, Moves(st), Calm(st), state' = st,
           clock' = clock, handed' = handed, staged' \subseteq staged, hand' \in {hand, None}
    PROVE  ForwardInv'
<1> USE DEF DeliveryInv, ForwardInv
<1>0. staged \subseteq Requests /\ None \notin Requests
  BY Bounds DEF TypeOK
<1>1. \A r \in Requests : Spent(r)' => Spent(r)
  BY <1>0 DEF Spent
<1>2. \A r \in Requests :
        /\ HasStatus(r, state) => HasStatus(r, state')
        /\ state'[r] = "pending" => state[r] = "pending"
        /\ state[r] = "pending" => state'[r] \in {"pending", "coalesced"}
        /\ Open(r, state') => Open(r, state)
  BY DEF Moves, Open, HasStatus, Statuses, Live, Settled
<1>3. \A r \in Requests : HasStatus(r, state') /\ ~HasStatus(r, state)
        => \A p \in Of(Routine(r)) : p \notin staged /\ ~Open(p, state')
  BY DEF Moves, Calm, Open, HasStatus
<1>4. DueFirst'
  BY <1>1 DEF DueFirst
<1>5. StagedTop'
  BY <1>0, <1>1, <1>3 DEF StagedTop, SameRoutine, Of
<1>6. HandTop'
  BY <1>0 DEF HandTop
<1>7. OpenTop'
  BY <1>2, <1>3 DEF OpenTop, SameRoutine, Of
<1>8. Shadowed'
  <2> SUFFICES ASSUME NEW r \in Requests, NEW q \in Requests, SameRoutine(q, r), Spent(q)',
                      state'[r] = "pending", Slot(r) <= Slot(q)
               PROVE  \E w \in Requests : Shadows(w, r, q)'
    BY DEF Shadowed
  <2>1. PICK w \in Requests : Shadows(w, r, q)
    BY <1>1, <1>2 DEF Shadowed
  <2>2. Shadows(w, r, q)'
    BY <1>2, <2>1 DEF Shadows, HasStatus, Statuses, Settled
  <2> QED BY <2>2
<1> QED BY <1>4, <1>5, <1>6, <1>7, <1>8

\* A slot that can be submitted again is not shadowed by anything pruned.
LEMMA SubmitForward ==
    ASSUME DeliveryInv, ForwardInv, NEW x \in Requests, Submit(x) PROVE ForwardInv'
<1> USE DEF DeliveryInv, ForwardInv
<1>1. /\ state' = [state EXCEPT ![x] = "pending"] /\ state[x] = "absent"
      /\ clock' = clock /\ handed' = handed /\ staged' = staged /\ hand' = hand
  BY DEF Submit, memory
<1>2. \A r \in Requests : (HasStatus(r, state') <=> HasStatus(r, state)) /\ (Open(r, state') <=> Open(r, state))
  BY <1>1 DEF HasStatus, Open, Statuses, Live, Settled, TypeOK
<1>3. DueFirst' /\ StagedTop' /\ HandTop' /\ OpenTop'
  BY <1>1, <1>2 DEF DueFirst, StagedTop, HandTop, OpenTop, Spent, SameRoutine, TypeOK
<1>4. Shadowed'
  <2> SUFFICES ASSUME NEW r \in Requests, NEW q \in Requests, SameRoutine(q, r), Spent(q),
                      state'[r] = "pending", Slot(r) <= Slot(q)
               PROVE  \E w \in Requests : Shadows(w, r, q)'
    BY <1>1 DEF Shadowed, Spent
  <2>1. CASE r = x
    <3>1. state[q] # "absent"
      BY <2>1, RequestParts, Bounds DEF Submit, ValidSlot, SpentFenced, TypeOK
    <3>2. HasStatus(q, state)
      BY <3>1 DEF SpentFenced, HasStatus, TypeOK
    <3>3. Shadows(q, r, q)'
      BY <1>2, <3>2, RequestParts DEF Shadows
    <3> QED BY <3>3
  <2>2. CASE r # x
    <3>1. PICK w \in Requests : Shadows(w, r, q)
      BY <1>1, <2>2 DEF Shadowed, TypeOK
    <3>2. Shadows(w, r, q)'
      BY <1>1, <1>2, <3>1 DEF Shadows, TypeOK
    <3> QED BY <3>2
  <2> QED BY <2>1, <2>2
<1> QED BY <1>3, <1>4

\* The fence of the newest slot shadows every older one.
LEMMA DispatchForward ==
    ASSUME DeliveryInv, ForwardInv, NEW x \in Requests, Dispatch(x) PROVE ForwardInv'
<1> USE DEF DeliveryInv, ForwardInv
<1>1. /\ state' = [state EXCEPT ![x] = "dispatched"] /\ state[x] = "pending"
      /\ staged' = staged \ {x} /\ x \in staged /\ hand' = x /\ hand = None
      /\ clock' = clock /\ handed' = handed
  BY DEF Dispatch, Write, StagedPending
<1>2. \A r \in Requests :
        /\ HasStatus(r, state') <=> (HasStatus(r, state) \/ r = x)
        /\ Open(r, state') <=> (Open(r, state) \/ r = x)
        /\ Spent(r)' <=> (Spent(r) \/ r = x)
  BY <1>1, Bounds DEF HasStatus, Open, Spent, Statuses, Live, Settled, TypeOK
<1>3. \A r \in Requests : SameRoutine(r, x) /\ (r \in staged \/ Open(r, state)) => r = x
  BY <1>1 DEF OneOpen, SameRoutine
<1>4. DueFirst'
  BY <1>1, <1>2 DEF DueFirst
<1>5. StagedTop'
  BY <1>1, <1>2, <1>3 DEF StagedTop, SameRoutine, TypeOK
<1>6. HandTop'
  BY <1>1 DEF HandTop, StagedTop, Spent
<1>7. OpenTop'
  BY <1>1, <1>2, <1>3, RequestParts DEF OpenTop, StagedTop, SameRoutine
<1>8. Shadowed'
  <2> SUFFICES ASSUME NEW r \in Requests, NEW q \in Requests, SameRoutine(q, r), Spent(q)',
                      state'[r] = "pending", Slot(r) <= Slot(q)
               PROVE  \E w \in Requests : Shadows(w, r, q)'
    BY DEF Shadowed
  <2>1. CASE q = x
    <3>1. Shadows(x, r, q)'
      BY <1>2, <2>1, RequestParts DEF Shadows, SameRoutine
    <3> QED BY <3>1
  <2>2. CASE q # x
    <3>1. PICK w \in Requests : Shadows(w, r, q)
      BY <1>1, <1>2, <2>2 DEF Shadowed, TypeOK
    <3>2. Shadows(w, r, q)'
      BY <1>1, <1>2, <3>1 DEF Shadows, TypeOK
    <3> QED BY <3>2
  <2> QED BY <2>1, <2>2
<1> QED BY <1>4, <1>5, <1>6, <1>7, <1>8

\* A poll keeps the order of slots: what it stages is past the watermark, and
\* when it prunes the record that shadows an old slot, another one does.
LEMMA PollForward ==
    ASSUME DeliveryInv, ForwardInv, NEW crowded \in BOOLEAN, Poll(crowded) PROVE ForwardInv'
<1> DEFINE st == Coalesced(Resolved)
<1> DEFINE new == {r \in Requests : ~crowded /\ Staged(r, st)}
<1> USE DEF DeliveryInv, ForwardInv
<1>1. Moves(st)
  BY CoalescedMoves
<1>2. Calm(st)
  BY CoalesceCalm, TornWhole, ResolvedMoves, CoalescedMoves DEF Moves
<1>3. /\ state' = Pruned(st) /\ staged' = staged \union new
      /\ clock' = clock /\ hand' = hand /\ handed' = handed
  BY DEF Poll, Write
<1> HIDE DEF st
<1>4. \A r \in Requests :
        /\ HasStatus(r, state) => HasStatus(r, st)
        /\ st[r] = "pending" => state[r] = "pending"
        /\ state[r] = "pending" => st[r] \in {"pending", "coalesced"}
        /\ Open(r, st) => Open(r, state)
        /\ HasStatus(r, st) /\ ~HasStatus(r, state)
             => \A p \in Of(Routine(r)) : p \notin staged /\ ~Open(p, st)
  BY <1>1, <1>2 DEF Moves, Calm, Open, HasStatus, Statuses, Live, Settled
<1>5. \A r \in Requests :
        /\ HasStatus(r, state') => HasStatus(r, st)
        /\ state'[r] = "pending" <=> st[r] = "pending"
        /\ Open(r, state') <=> Open(r, st)
        /\ HasStatus(r, st) => HasStatus(r, state') \/ Expired(r, st)
  BY <1>1, <1>3 DEF Moves, States, Pruned, Expired, Open, HasStatus, Statuses, Live, Settled
<1>6. \A r \in Requests : Spent(r)' <=> Spent(r)
  BY <1>3 DEF Spent
<1>7. \A r \in new : /\ r \in Requests /\ st[r] = "pending" /\ Slot(r) <= clock
                     /\ Admits(Routine(r), st) /\ PastWatermark(r, st)
                     /\ \A q \in Due(Routine(r), st) : Slot(q) <= Slot(r)
  BY DEF Staged, Latest, Newest, Due
<1>8. DueFirst'
  BY <1>3, <1>6, <1>7 DEF DueFirst
<1>9. ASSUME NEW r \in Requests, NEW q \in Requests, st[r] = "pending", PastWatermark(r, st),
             \A p \in Due(Routine(r), st) : Slot(p) <= Slot(r),
             SameRoutine(q, r), Spent(q)
      PROVE  Slot(q) < Slot(r)
  <2> SUFFICES ASSUME Slot(r) <= Slot(q) PROVE FALSE
    BY RequestParts
  <2>1. state[r] = "pending"
    BY <1>4, <1>9
  <2>2. PICK w \in Requests : Shadows(w, r, q)
    BY <1>9, <2>1 DEF Shadowed
  <2>3. w \in Of(Routine(r)) /\ Slot(r) <= Slot(w)
    BY <2>2, RequestParts DEF Shadows, SameRoutine, Of
  <2>4. ~HasStatus(w, st)
    BY <1>9, <2>3, RequestParts DEF PastWatermark
  <2>5. state[w] = "pending" /\ Slot(w) <= clock /\ Slot(r) < Slot(w)
    BY <1>4, <2>2, <2>4 DEF Shadows
  <2>6. st[w] = "pending"
    BY <1>4, <2>4, <2>5 DEF HasStatus, Statuses, Settled
  <2>7. w \in Due(Routine(r), st)
    BY <2>3, <2>5, <2>6 DEF Due
  <2> QED BY <1>9, <2>5, <2>7, RequestParts
<1>10. StagedTop'
  <2> SUFFICES ASSUME NEW r \in staged', NEW q \in Requests, SameRoutine(q, r),
                      HasStatus(q, state') \/ Spent(q)'
               PROVE  Slot(q) < Slot(r)
    BY DEF StagedTop
  <2>1. CASE r \in new
    <3>1. CASE Spent(q)
      BY <1>7, <1>9, <2>1, <3>1
    <3>2. CASE HasStatus(q, state')
      BY <1>5, <1>7, <2>1, <3>2 DEF PastWatermark, Of, SameRoutine
    <3> QED BY <1>6, <3>1, <3>2
  <2>2. CASE r \in staged
    <3>1. r \in Requests /\ r \in Of(Routine(q))
      BY <2>2 DEF TypeOK, Of, SameRoutine
    <3>2. HasStatus(q, state') => HasStatus(q, state)
      BY <1>4, <1>5, <2>2, <3>1
    <3> QED BY <1>6, <2>2, <3>2 DEF StagedTop
  <2> QED BY <1>3, <2>1, <2>2
<1>11. HandTop'
  BY <1>3 DEF HandTop
<1>12. \A r, q \in Requests :
         SameRoutine(q, r) /\ Open(r, st) /\ HasStatus(q, st) => Slot(q) <= Slot(r)
  BY <1>4 DEF OpenTop, SameRoutine, Of
<1>13. OpenTop'
  BY <1>5, <1>12 DEF OpenTop
<1>14. Shadowed'
  <2> SUFFICES ASSUME NEW r \in Requests, NEW q \in Requests, SameRoutine(q, r), Spent(q),
                      state'[r] = "pending", Slot(r) <= Slot(q)
               PROVE  \E w \in Requests : Shadows(w, r, q)'
    BY <1>6 DEF Shadowed
  <2>1. state[r] = "pending" /\ st[r] = "pending"
    BY <1>4, <1>5
  <2>2. PICK w \in Requests : Shadows(w, r, q)
    BY <2>1 DEF Shadowed
  <2>3. CASE ~Expired(w, st)
    <3>1. HasStatus(w, state') \/ (state'[w] = "pending" /\ state[w] = "pending")
      BY <1>4, <1>5, <2>2, <2>3 DEF Shadows, HasStatus, Statuses, Settled
    <3>2. Shadows(w, r, q)'
      BY <1>3, <2>2, <3>1 DEF Shadows, HasStatus, Statuses, Live, Settled
    <3> QED BY <3>2
  <2>4. CASE Expired(w, st)
    <3>1. HasStatus(w, st) /\ HasStatus(w, state)
      BY <2>4 DEF Expired, HasStatus, Statuses
    <3>2. /\ r \in Due(Routine(r), st) /\ w \in Of(Routine(r)) /\ SameRoutine(w, r)
          /\ Slot(q) <= Slot(w) /\ Slot(r) <= Slot(w)
      BY <2>1, <2>2, RequestParts DEF DueFirst, Due, Of, Shadows, SameRoutine, TypeOK
    <3>3. ~Admits(Routine(r), st)
      <4> SUFFICES ASSUME Admits(Routine(r), st) PROVE FALSE
        OBVIOUS
      <4>1. ~Latest(r, Resolved)
        <5>1. HasStatus(w, Resolved)
          BY <3>1, ResolvedMoves DEF Moves, HasStatus, Statuses, Live, Settled
        <5> QED BY <3>2, <5>1, RequestParts DEF Latest, PastWatermark
      <4>2. Resolved[r] = "pending"
        BY <2>1 DEF Resolved, Open, HasStatus, Statuses, Live, Settled
      <4>3. r \in Due(Routine(r), Resolved)
        BY <3>2, <4>2 DEF Due
      <4>4. Admits(Routine(r), Resolved)
        <5> SUFFICES ASSUME NEW p \in Of(Routine(r)) PROVE p \notin staged /\ ~Open(p, Resolved)
          BY DEF Admits
        <5>1. p \in Requests /\ p \notin staged /\ ~Open(p, st)
          BY DEF Admits, Of
        <5>2. CASE st[p] = Resolved[p]
          BY <5>1, <5>2 DEF Open, HasStatus
        <5>3. CASE st[p] # Resolved[p]
          <6>1. p \in Due(Routine(p), Resolved)
            BY <5>1, <5>3 DEF st, Coalesced
          <6> QED BY <5>1, <6>1 DEF Due, Open, HasStatus, Statuses, Live, Settled
        <5> QED BY <5>2, <5>3
      <4> QED BY <2>1, <4>1, <4>3, <4>4 DEF st, Coalesced
    <3>4. PICK p \in Of(Routine(r)) : p \in staged \/ Open(p, st)
      BY <3>3 DEF Admits
    <3>5. p \in Requests /\ SameRoutine(p, r) /\ SameRoutine(w, p)
      BY <3>2, <3>4 DEF Of, SameRoutine
    <3>6. CASE Open(p, st)
      <4>1. Slot(w) <= Slot(p)
        BY <1>12, <3>1, <3>5, <3>6
      <4>2. Open(p, state')
        BY <1>5, <3>5, <3>6
      <4>3. Shadows(p, r, q)'
        BY <3>2, <3>5, <4>1, <4>2, RequestParts DEF Shadows, Open
      <4> QED BY <3>5, <4>3
    <3>7. CASE p \in staged
      <4>1. Slot(w) < Slot(p) /\ Slot(p) <= clock
        BY <3>1, <3>5, <3>7 DEF StagedTop, DueFirst
      <4>2. state[p] = "pending" /\ st[p] = "pending" /\ state'[p] = "pending"
        BY <1>1, <1>5, <3>5, <3>7 DEF StagedPending, Moves, Open, HasStatus, Statuses, Live, Settled
      <4>3. Shadows(p, r, q)'
        BY <1>3, <3>2, <3>5, <4>1, <4>2, RequestParts DEF Shadows
      <4> QED BY <3>5, <4>3
    <3> QED BY <3>4, <3>6, <3>7
  <2> QED BY <2>3, <2>4
<1> QED BY <1>8, <1>10, <1>11, <1>13, <1>14

\* Every step keeps the order of slots.
LEMMA StepForward ==
    ASSUME DeliveryInv, ForwardInv, [Next]_vars PROVE ForwardInv'
<1> USE DEF DeliveryInv
<1>1. ASSUME NEW r \in Requests, Submit(r) PROVE ForwardInv'
  BY <1>1, SubmitForward
<1>2. ASSUME NEW r \in Requests, NEW outcome \in {"blocked", "completed"}, Finish(r, outcome)
      PROVE  ForwardInv'
  BY <1>2, StutterMoves, CalmKeeps DEF Finish, memory, Calm
<1>3. CASE Tick
  <2>1. DueFirst'
    BY <1>3, RequestParts DEF Tick, file, memory, ForwardInv, DueFirst, Spent, TypeOK
  <2>2. StagedTop' /\ HandTop' /\ OpenTop'
    BY <1>3 DEF Tick, file, memory, ForwardInv, StagedTop, HandTop, OpenTop, Spent, Open, HasStatus
  <2>3. Shadowed'
    <3> SUFFICES ASSUME NEW r \in Requests, NEW q \in Requests, SameRoutine(q, r), Spent(q),
                        state[r] = "pending", Slot(r) <= Slot(q)
                 PROVE  \E w \in Requests : Shadows(w, r, q)'
      BY <1>3 DEF Tick, file, memory, Shadowed, Spent
    <3>1. PICK w \in Requests : Shadows(w, r, q)
      BY DEF ForwardInv, Shadowed
    <3>2. Shadows(w, r, q)'
      BY <1>3, <3>1, RequestParts DEF Tick, file, Shadows, HasStatus, TypeOK
    <3> QED BY <3>2
  <2> QED BY <2>1, <2>2, <2>3 DEF ForwardInv
<1>4. ASSUME NEW st, Moves(st), Calm(st), Write(st), clock' = clock, handed' = handed,
             staged' \subseteq staged, hand' \in {hand, None}
      PROVE  ForwardInv'
  BY <1>4, CalmKeeps DEF Write
<1>5. CASE Start
  <2>1. Moves(Uncertain) /\ Calm(Uncertain)
    BY UncertainMoves, QuietCalm, TornWhole, StutterMoves DEF Moves
  <2> QED BY <1>4, <1>5, <2>1 DEF Start
<1>6. ASSUME NEW crowded \in BOOLEAN, Poll(crowded) PROVE ForwardInv'
  BY <1>6, PollForward
<1>7. ASSUME NEW r \in Requests, Dispatch(r) PROVE ForwardInv'
  BY <1>7, DispatchForward
<1>8. CASE Yield
  <2> USE DEF ForwardInv
  <2>1. /\ hand \in Requests /\ hand' = None /\ handed' = [handed EXCEPT ![hand] = @ + 1]
        /\ UNCHANGED <<clock, state, staged>>
    BY <1>8 DEF Yield, TypeOK, file
  <2>2. \A r \in Requests : Spent(r)' <=> Spent(r)
    BY <2>1, Bounds DEF Spent, TypeOK
  <2>3. DueFirst' /\ StagedTop' /\ OpenTop'
    BY <2>1, <2>2 DEF DueFirst, StagedTop, OpenTop, Open, HasStatus
  <2>4. HandTop'
    BY <2>1, Bounds DEF HandTop
  <2>5. Shadowed'
    BY <2>1, <2>2 DEF Shadowed, Shadows, HasStatus
  <2> QED BY <2>3, <2>4, <2>5
<1>9. ASSUME NEW r \in Requests, Consumed(r) PROVE ForwardInv'
  <2>1. Moves([state EXCEPT ![r] = "consumed"]) /\ Calm([state EXCEPT ![r] = "consumed"])
    BY <1>9 DEF Consumed, TypeOK, Moves, Calm, States, Open, HasStatus, Statuses, Live, Settled
  <2> QED BY <1>4, <1>9, <2>1 DEF Consumed, memory
<1>10. ASSUME NEW r \in Requests, NEW ok \in BOOLEAN, Result(r, ok) PROVE ForwardInv'
  <2> DEFINE st == IF state[r] \notin Live THEN state
                   ELSE [state EXCEPT ![r] = IF ok THEN "awaiting" ELSE "failed"]
  <2>1. Moves(st) /\ Calm(st)
    BY StutterMoves DEF TypeOK, Moves, Calm, States, Open, HasStatus, Statuses, Live, Settled
  <2>2. Write(st) /\ UNCHANGED <<clock, staged, hand, handed>>
    BY <1>10 DEF Result
  <2> QED BY <1>4, <2>1, <2>2
<1>11. CASE Stop
  <2>1. Moves(Cancelled(Resolved)) /\ Calm(Cancelled(Resolved))
    BY CancelledMoves, QuietCalm, TornWhole, ResolvedMoves DEF Moves
  <2> QED BY <1>4, <1>11, <2>1 DEF Stop, Gone
<1>12. CASE Crash
  <2>1. PICK st \in Torn(state, Resolved) \union Torn(Resolved, Coalesced(Resolved))
                    \union Torn(Resolved, Cancelled(Resolved)) : Write(st)
    BY <1>12 DEF Crash
  <2>2. Moves(st)
    BY <2>1, TornMoves, StutterMoves, ResolvedMoves, CoalescedMoves, CancelledMoves
  <2>3. Calm(st)
    BY <2>1, QuietCalm, CoalesceCalm
  <2> QED BY <1>4, <1>12, <2>1, <2>2, <2>3 DEF Crash, Gone
<1>13. CASE CrashStarting
  <2>1. PICK st \in Torn(state, Uncertain) : Write(st)
    BY <1>13 DEF CrashStarting
  <2>2. Moves(st) /\ Calm(st)
    BY <2>1, TornMoves, StutterMoves, UncertainMoves, QuietCalm
  <2> QED BY <1>4, <1>13, <2>1, <2>2 DEF CrashStarting, Gone
<1>14. CASE UNCHANGED vars
  BY <1>14 DEF vars, file, memory, ForwardInv, DueFirst, StagedTop, HandTop, OpenTop, Shadowed, Shadows,
     Spent, Open, HasStatus
<1> QED BY <1>1, <1>2, <1>3, <1>5, <1>6, <1>7, <1>8, <1>9, <1>10, <1>11, <1>12, <1>13, <1>14 DEF Next

\* Only Yield hands anything over, and what it hands over is the newest.
LEMMA StepHandsForward ==
    ASSUME DeliveryInv, ForwardInv, [Next]_vars, NEW r \in Requests, handed'[r] # handed[r],
           NEW q \in Of(Routine(r)), handed[q] > 0
    PROVE  Slot(q) < Slot(r)
<1>1. CASE Yield
  <2>1. hand = r
    BY <1>1 DEF Yield, DeliveryInv, TypeOK
  <2> QED BY <2>1 DEF ForwardInv, HandTop, Of, SameRoutine
<1>2. CASE ~Yield
  <2>1. handed' = handed
    BY <1>2 DEF Next, vars, Tick, Start, Stop, Crash, CrashStarting, Gone, Poll, Submit, Dispatch, Consumed,
       Finish, Result
  <2> QED BY <2>1
<1> QED BY <1>1, <1>2

\* A routine's slots are handed over in increasing order, each once, through
\* any crashes, late submissions and prunings.
THEOREM ForwardAlways == Spec => Forward
<1>1. Init => ForwardInv
  BY Bounds DEF Init, ForwardInv, DueFirst, StagedTop, HandTop, OpenTop, Shadowed, Spent, Open, HasStatus,
     Statuses, Live, Settled
<1>2. DeliveryInv /\ ForwardInv /\ [Next]_vars => ForwardInv'
  BY StepForward
<1>3. DeliveryInv /\ ForwardInv /\ [Next]_vars
        => [\A r \in Requests : handed'[r] # handed[r]
              => \A q \in Of(Routine(r)) : handed[q] > 0 => Slot(q) < Slot(r)]_vars
  BY StepHandsForward
<1> QED BY <1>1, <1>2, <1>3, DeliveryInvariant, PTL DEF Spec, Forward

(***************************************************************************)
(* Unresolved work is not forgotten.                                       *)
(***************************************************************************)
\* A request that stays unresolved, or was resolved by a receipt or by the
\* user's stop, never by the writer's own judgement.
Answered(r, st) ==
    \/ Open(r, st)
    \/ st[r] = "completed" /\ "completed" \in receipts[r]
    \/ st[r] = "cancelled" /\ state[r] \in Live
Honest(st) == \A r \in Requests : Open(r, state) => Answered(r, st)

\* A poll, a start and a stop, whole or cut short, are honest.
LEMMA WritesHonest ==
    /\ Honest(state) /\ Honest(Resolved) /\ Honest(Coalesced(Resolved))
    /\ Honest(Cancelled(Resolved)) /\ Honest(Uncertain)
<1> USE DEF Answered, Open, HasStatus, Statuses, Settled, Live
<1>1. Honest(state)
  BY DEF Honest
<1>2. Honest(Resolved)
  BY DEF Honest, Resolved
<1>3. ASSUME NEW r \in Requests, Open(r, state)
      PROVE  Coalesced(Resolved)[r] = Resolved[r] /\ Resolved[r] # "pending"
  <2>1. Resolved[r] # "pending"
    BY <1>3 DEF Resolved
  <2> QED BY <2>1 DEF Coalesced, Due
<1>4. Honest(Coalesced(Resolved))
  BY <1>2, <1>3 DEF Honest
<1>5. Honest(Cancelled(Resolved))
  <2> SUFFICES ASSUME NEW r \in Requests, Open(r, state) PROVE Answered(r, Cancelled(Resolved))
    BY DEF Honest
  <2>1. CASE Resolved[r] \in Live
    <3>1. state[r] \in Live /\ Cancelled(Resolved)[r] = "cancelled"
      BY <2>1 DEF Resolved, Cancelled
    <3> QED BY <3>1
  <2>2. CASE Resolved[r] \notin Live
    <3>1. Cancelled(Resolved)[r] = Resolved[r] /\ Answered(r, Resolved)
      BY <1>2, <2>2 DEF Honest, Cancelled
    <3> QED BY <3>1
  <2> QED BY <2>1, <2>2
<1>6. Honest(Uncertain)
  BY DEF Honest, Uncertain
<1> QED BY <1>1, <1>2, <1>4, <1>5, <1>6

LEMMA TornHonest ==
    ASSUME NEW a, NEW b, Honest(a), Honest(b), NEW st \in Torn(a, b)
    PROVE  Honest(st)
<1>1. PICK S \in SUBSET Requests : st = [r \in Requests |-> IF r \in S THEN b[r] ELSE a[r]]
  BY DEF Torn
<1> QED BY <1>1 DEF Honest, Answered, Open, HasStatus

\* No step forgets unresolved work: what is pruned is settled.
LEMMA StepKept ==
    ASSUME DeliveryInv, [Next]_vars, NEW r \in Requests, Open(r, state)
    PROVE  Answered(r, state')
<1> USE DEF DeliveryInv
<1>1. ASSUME NEW st, Honest(st), Write(st) PROVE Answered(r, state')
  BY <1>1 DEF Honest, Write
<1>2. ASSUME state'[r] = state[r] PROVE Answered(r, state')
  BY <1>2 DEF Answered, Open, HasStatus
<1>3. ASSUME NEW q \in Requests, Submit(q) PROVE state'[r] = state[r]
  BY <1>3 DEF Submit, TypeOK, Open, HasStatus, Statuses, Live, Settled
<1>4. ASSUME NEW q \in Requests, NEW outcome \in {"blocked", "completed"}, Finish(q, outcome)
      PROVE  state'[r] = state[r]
  BY <1>4 DEF Finish
<1>5. CASE Tick \/ Yield \/ UNCHANGED vars
  BY <1>2, <1>5 DEF Tick, Yield, vars, file
<1>6. CASE Start
  BY <1>1, <1>6, WritesHonest DEF Start
<1>7. ASSUME NEW crowded \in BOOLEAN, Poll(crowded) PROVE Answered(r, state')
  <2> DEFINE st == Coalesced(Resolved)
  <2>1. Answered(r, st)
    BY WritesHonest DEF Honest
  <2>2. state' = Pruned(st)
    BY <1>7 DEF Poll, Write
  <2> HIDE DEF st
  <2>3. CASE Expired(r, st)
    BY <2>3 DEF Expired, Open
  <2>4. CASE ~Expired(r, st)
    BY <2>1, <2>2, <2>4 DEF Pruned, Answered, Open, HasStatus
  <2> QED BY <2>3, <2>4
<1>8. ASSUME NEW q \in Requests, Dispatch(q) PROVE state'[r] = state[r]
  BY <1>8 DEF Dispatch, Write, StagedPending, TypeOK, Open, HasStatus, Statuses, Live, Settled
<1>9. ASSUME NEW q \in Requests, Consumed(q) PROVE Answered(r, state')
  BY <1>9 DEF Consumed, Write, TypeOK, Answered, Open, HasStatus, Statuses, Live, Settled
<1>10. ASSUME NEW q \in Requests, NEW ok \in BOOLEAN, Result(q, ok) PROVE Answered(r, state')
  BY <1>10 DEF Result, Write, TypeOK, Answered, Open, HasStatus, Statuses, Live, Settled
<1>11. CASE Stop
  BY <1>1, <1>11, WritesHonest DEF Stop
<1>12. CASE Crash
  <2>1. PICK st \in Torn(state, Resolved) \union Torn(Resolved, Coalesced(Resolved))
                    \union Torn(Resolved, Cancelled(Resolved)) : Write(st)
    BY <1>12 DEF Crash
  <2> QED BY <1>1, <2>1, TornHonest, WritesHonest
<1>13. CASE CrashStarting
  <2>1. PICK st \in Torn(state, Uncertain) : Write(st)
    BY <1>13 DEF CrashStarting
  <2> QED BY <1>1, <2>1, TornHonest, WritesHonest
<1> QED
  BY <1>2, <1>3, <1>4, <1>5, <1>6, <1>7, <1>8, <1>9, <1>10, <1>11, <1>12, <1>13 DEF Next

\* "A parent response or worker launch does not complete this routine":
\* unresolved work stays in the file, however old it gets and whatever crashes
\* cut the writes short, until a receipt or the user's stop.
THEOREM KeptUntilReceiptAlways == Spec => KeptUntilReceipt
<1>1. DeliveryInv /\ [Next]_vars
        => [\A r \in Requests : Open(r, state) =>
              \/ Open(r, state')
              \/ state'[r] = "completed" /\ "completed" \in receipts[r]
              \/ state'[r] = "cancelled" /\ state[r] \in Live]_vars
  BY StepKept DEF Answered
<1> QED BY <1>1, DeliveryInvariant, PTL DEF Spec, KeptUntilReceipt
=============================================================================
