------------------------- MODULE RunnerInboxProofs -------------------------
(***************************************************************************)
(* Proofs about RunnerInbox for every set of inputs, every bound and any   *)
(* number of crashes: type correctness, that no accepted chat is ever      *)
(* absent from the disk or brought back after it was settled, and that the *)
(* runner implements Mailbox.                                              *)
(***************************************************************************)
EXTENDS RunnerInbox, ListProofs

(***************************************************************************)
(* The queue, and the lists of the ledger and of the file.                 *)
(***************************************************************************)
\* What becomes of the inputs that wait when the items change.
LEMMA QueueIs ==
    ASSUME items \in Seq(Inputs)
    PROVE  /\ items' = items => queue' = queue
           /\ \A u \in Inputs : items' = Append(items, u) => queue' = queue \union {u}
           /\ \A S : items' = Without(items, S) => queue' = queue \ S
           /\ items' = <<>> => queue' = {}
           /\ items = <<>> => queue = {}
<1>1. ASSUME NEW u \in Inputs, items' = Append(items, u) PROVE queue' = queue \union {u}
  BY <1>1, AppendIs DEF queue
<1>2. ASSUME NEW S, items' = Without(items, S) PROVE queue' = queue \ S
  BY <1>2, WithoutIs DEF queue
<1>3. Elements(<<>>) = {}
  BY DEF Elements
<1> QED  BY <1>1, <1>2, <1>3 DEF queue

\* Calls dropped from the queue, and at most one note added.
LEMMA QueueHangs ==
    ASSUME items \in Seq(Inputs), NEW n \in {<<>>} \union {<<u>> : u \in Note},
           items' = Without(items, Call) \o n
    PROVE  /\ items' \in Seq(Inputs) /\ queue' = (queue \ Call) \union Elements(n)
           /\ Elements(n) \subseteq Note
<1> DEFINE w == Without(items, Call)
<1>1. w \in Seq(Inputs) /\ Elements(w) = queue \ Call
  BY WithoutIs DEF queue
<1>2. n \in Seq(Inputs) /\ Elements(n) \subseteq Note
  <2>1. CASE n = <<>>
    BY <2>1 DEF Elements
  <2>2. ASSUME NEW u \in Note, n = <<u>> PROVE n \in Seq(Inputs) /\ Elements(n) \subseteq Note
    <3>1. u \in Inputs
      BY DEF Inputs
    <3>2. DOMAIN <<u>> = {1} /\ <<u>>[1] = u
      OBVIOUS
    <3>3. <<u>> \in Seq(Inputs)
      BY <3>1
    <3> QED  BY <2>2, <3>2, <3>3 DEF Elements
  <2> QED  BY <2>1, <2>2
<1> HIDE DEF w
<1>3. w \o n \in Seq(Inputs) /\ Elements(w \o n) = Elements(w) \union Elements(n)
  BY <1>1, <1>2, JoinIs
<1> QED  BY <1>1, <1>2, <1>3 DEF queue, w

\* What is taken was queued.
LEMMA TakenIs ==
    ASSUME TypeOK, NEW u, Dispatch(u)
    PROVE  u \in queue /\ queue' = queue \ {u}
<1>1. u \in queue
  BY DEF Dispatch, queue, Elements
<1>2. items' = Without(items, {u}) /\ items \in Seq(Inputs)
  BY DEF Dispatch, TypeOK
<1> QED  BY <1>1, <1>2, QueueIs

\* The list of the file follows what is saved.
LEMMA SavesIs ==
    ASSUME ledger' \in [Chat -> LedgerState], ledgerOrder' \in Seq(Chat), Saves
    PROVE  /\ saved' \in [Chat -> LedgerState] /\ savedOrder' \in Seq(Chat)
           /\ \A u \in Chat : saved'[u] = IF ledger'[u] = "queued" /\ u \in old THEN "absent"
                                          ELSE ledger'[u]
           /\ Elements(ledgerOrder') = InLedger(ledger') => Elements(savedOrder') = InLedger(saved')
<1>1. \A u \in Chat : saved'[u] = IF ledger'[u] = "queued" /\ u \in old THEN "absent" ELSE ledger'[u]
  BY DEF Saves, Unanswered
<1>2. saved' \in [Chat -> LedgerState]
  BY DEF Saves, Unanswered, LedgerState
<1>3. /\ savedOrder' \in Seq(Chat)
      /\ Elements(savedOrder') = Elements(ledgerOrder') \ {u \in Chat : saved'[u] = "absent"}
  BY WithoutIs DEF Saves, Listed
<1>4. ASSUME Elements(ledgerOrder') = InLedger(ledger') PROVE Elements(savedOrder') = InLedger(saved')
  BY <1>1, <1>3, <1>4 DEF InLedger
<1> QED  BY <1>1, <1>2, <1>3, <1>4

(***************************************************************************)
(* Type correctness.                                                       *)
(***************************************************************************)
LEMMA LaneType ==
    ASSUME TypeOK, NEW u \in Inputs
    PROVE  LaneOf(u) \in Lanes /\ LaneAfter(u) \in Lanes
  BY DEF LaneOf, LaneAfter, Lanes, TypeOK

LEMMA EventType ==
    ASSUME NEW ids \in SUBSET Inputs,
           NEW type \in {"init", "started", "completed", "result", "idle"}
    PROVE  Ev(type, ids) \in Event
  BY DEF Ev, Event

LEMMA HeadType ==
    ASSUME TypeOK, events # <<>>
    PROVE  Ids \subseteq Inputs /\ Tail(events) \in Seq(Event)
<1>1. Head(events) \in Event /\ Tail(events) \in Seq(Event)
  BY DEF TypeOK
<1> QED  BY <1>1 DEF Ids, Event

LEMMA NoEvents == <<>> \in Seq(Event)
  OBVIOUS

\* Every step keeps the variables in their types.
LEMMA TypeStep == TypeOK /\ [Next]_vars => TypeOK'
<1> SUFFICES ASSUME TypeOK, [Next]_vars PROVE TypeOK'
  OBVIOUS
<1> USE DEF TypeOK, queueVars, memory, file, sdk, history, LedgerState, Fates
<1>1. ASSUME NEW u \in Chat, AcceptChat(u) PROVE TypeOK'
  <2>1. /\ ledger' \in [Chat -> LedgerState] /\ ledgerOrder' \in Seq(Chat) /\ items' \in Seq(Inputs)
        /\ fate' \in [Chat -> Fates] /\ u \in Inputs /\ Saves
    BY <1>1 DEF AcceptChat, Inputs
  <2>2. saved' \in [Chat -> LedgerState] /\ savedOrder' \in Seq(Chat)
    BY <2>1, SavesIs
  <2> QED  BY <1>1, <2>1, <2>2 DEF AcceptChat
<1>2. ASSUME NEW u \in Chat, Handled(u) PROVE TypeOK'
  BY <1>2 DEF Handled
<1>3. ASSUME NEW u \in Chat, Age(u) PROVE TypeOK'
  BY <1>3 DEF Age
<1>4. ASSUME NEW u \in Call \union Note, AcceptOther(u) PROVE TypeOK'
  BY <1>4 DEF AcceptOther, Inputs
<1>5. ASSUME NEW u \in Note, AskCompact(u) PROVE TypeOK'
  BY <1>5 DEF AskCompact, Inputs
<1>6. ASSUME NEW u \in Inputs, Dispatch(u) PROVE TypeOK'
  <2>1. u \in Chat \/ u \notin InLedger(ledger)
    BY DEF InLedger
  <2>2. items' \in Seq(Inputs)
    BY <1>6, WithoutIs DEF Dispatch
  <2> QED  BY <1>6, <2>1, <2>2, LaneType DEF Dispatch
<1>7. ASSUME NEW u \in Inputs, SdkBegin(u) PROVE TypeOK'
  <2> USE DEF SdkBegin
  <2>1. /\ Ev("completed", {u}) \in Event /\ Ev("init", {}) \in Event
        /\ Ev("started", {u}) \in Event
    BY EventType
  <2>2. CASE u \in transcript[session]
    <3>1. Append(events, Ev("completed", {u})) \in Seq(Event)
      BY <2>1
    <3>2. /\ events' = Append(events, Ev("completed", {u})) /\ UNCHANGED <<transcript, turn>>
          /\ sdkQueue' = sdkQueue \ {u}
          /\ UNCHANGED <<phase, queueVars, memory, file, session, history>>
      BY <1>7, <2>2
    <3> HIDE DEF SdkBegin
    <3> QED  BY <3>1, <3>2
  <2>3. CASE u \notin transcript[session]
    <3>1. events' \in Seq(Event)
      <4>1. Append(events, Ev("init", {})) \in Seq(Event)
        BY <2>1
      <4>2. (IF turn = {} THEN Append(events, Ev("init", {})) ELSE events) \in Seq(Event)
        BY <4>1
      <4>3. <<Ev("started", {u})>> \in Seq(Event)
        BY <2>1
      <4>4. events' = (IF turn = {} THEN Append(events, Ev("init", {})) ELSE events)
                      \o <<Ev("started", {u})>>
        BY <1>7, <2>3
      <4> HIDE DEF SdkBegin
      <4> QED  BY <4>2, <4>3, <4>4
    <3>2. transcript' \in [Sessions -> SUBSET Inputs]
      BY <1>7, <2>3
    <3> QED  BY <1>7, <2>3, <3>1, <3>2
  <2> QED  BY <2>2, <2>3
<1>8. ASSUME NEW u \in Inputs, SdkComplete(u) PROVE TypeOK'
  <2>1. Ev("completed", {u}) \in Event /\ Ev("idle", {}) \in Event
    BY EventType
  <2>2. events' \in Seq(Event)
    BY <1>8, <2>1 DEF SdkComplete
  <2> QED  BY <1>8, <2>2 DEF SdkComplete
<1>9. CASE SdkEnd
  <2>1. PICK ids \in {turn} \union (IF Uncorrelated THEN {{}} ELSE {}) :
           events' = events \o <<Ev("result", ids)>>
                     \o (IF sdkQueue = {} THEN <<Ev("idle", {})>> ELSE <<>>)
    BY <1>9 DEF SdkEnd
  <2>2. Ev("result", ids) \in Event /\ Ev("idle", {}) \in Event
    BY EventType
  <2>3. events' \in Seq(Event)
    BY <2>1, <2>2
  <2> QED  BY <1>9, <2>3 DEF SdkEnd
<1>10. CASE Hangup
  <2>1. PICK n \in {<<>>} \union {<<u>> : u \in Note} :
           items' = Without(items, Call) \o n /\ arrived' = arrived \union Elements(n)
    BY <1>10 DEF Hangup
  <2>2. items' \in Seq(Inputs) /\ arrived' \subseteq Inputs
    BY <2>1, QueueHangs DEF Inputs
  <2> QED  BY <1>10, <2>2 DEF Hangup
<1>11. CASE SdkHold
  BY <1>11 DEF SdkHold
<1>12. CASE ReadInit
  BY <1>12, HeadType DEF ReadInit, Reads
<1>13. CASE ReadStarted
  <2>1. ledger' \in [Chat -> LedgerState] /\ ledgerOrder' \in Seq(Chat) /\ consumed' \subseteq Chat
    BY <1>13 DEF ReadStarted
  <2>2. Saves \/ UNCHANGED <<saved, savedOrder>>
    BY <1>13 DEF ReadStarted
  <2>3. saved' \in [Chat -> LedgerState] /\ savedOrder' \in Seq(Chat)
    BY <2>1, <2>2, SavesIs
  <2> QED  BY <1>13, <2>1, <2>3, HeadType DEF ReadStarted, Reads, Acknowledge
<1>14. ASSUME NEW type \in {"result", "completed"}, ReadFinished(type) PROVE TypeOK'
  <2>1. ledger' \in [Chat -> LedgerState] /\ fate' \in [Chat -> Fates]
    BY <1>14 DEF ReadFinished
  <2>2. ledgerOrder' \in Seq(Chat) /\ (Saves \/ UNCHANGED <<saved, savedOrder>>)
    BY <1>14, WithoutIs DEF ReadFinished
  <2>3. saved' \in [Chat -> LedgerState] /\ savedOrder' \in Seq(Chat)
    BY <2>1, <2>2, SavesIs
  <2> QED  BY <1>14, <2>1, <2>2, <2>3, HeadType DEF ReadFinished, Reads, Acknowledge
<1>15. CASE ReadIdle
  BY <1>15, HeadType DEF ReadIdle, Reads
<1>16. ASSUME Gone, file' = file, fate' = fate, phase' = "down" PROVE TypeOK'
  <2>1. ledger' \in [Chat -> LedgerState] /\ lane' \in Lanes /\ events' \in Seq(Event)
    BY <1>16, NoEvents DEF Gone, NoLedger, Lanes
  <2>2. busy' \in BOOLEAN /\ hold' \in BOOLEAN /\ known' \in BOOLEAN
    BY <1>16 DEF Gone
  <2>3. /\ saved' = saved /\ savedOrder' = savedOrder
        /\ interrupted' = interrupted /\ savedSession' = savedSession
    BY <1>16
  <2> QED  BY <1>16, <2>1, <2>2, <2>3 DEF Gone
<1>17. CASE Crash
  BY <1>16, <1>17 DEF Crash
<1>18. ASSUME NEW u \in Inputs, RefusedInput(u) PROVE TypeOK'
  BY <1>16, <1>18 DEF RefusedInput
<1>19. CASE AgainRefused
  BY <1>16, <1>19 DEF AgainRefused
<1>20. CASE StopCancel
  <2>1. ledger' \in [Chat -> LedgerState] /\ lane' \in Lanes /\ events' \in Seq(Event)
    BY <1>20, NoEvents DEF StopCancel, Gone, NoLedger, Lanes
  <2>2. busy' \in BOOLEAN /\ hold' \in BOOLEAN /\ known' \in BOOLEAN
    BY <1>20 DEF StopCancel, Gone
  <2>3. /\ saved' \in [Chat -> LedgerState] /\ fate' \in [Chat -> Fates] /\ interrupted' = {}
        /\ savedOrder' \in Seq(Chat)
    BY <1>20, WithoutIs DEF StopCancel
  <2> QED  BY <1>20, <2>1, <2>2, <2>3 DEF StopCancel, Gone
<1>21. CASE Recover
  <2>1. savedOrder' \in Seq(Chat)
    BY <1>21, WithoutIs DEF Recover
  <2> QED  BY <1>21, <2>1 DEF Recover
<1>22. ASSUME NEW s \in Sessions, Again(s) PROVE TypeOK'
  <2>1. ledger' \in [Chat -> LedgerState] /\ ledgerOrder' \in Seq(Chat) /\ Saves
    BY <1>22 DEF Again
  <2>2. saved' \in [Chat -> LedgerState] /\ savedOrder' \in Seq(Chat)
    BY <2>1, SavesIs
  <2>3. items' \in Seq(Inputs)
    BY <1>22 DEF Again, Inputs
  <2> QED  BY <1>22, <2>1, <2>2, <2>3 DEF Again
<1>23. CASE UNCHANGED vars
  BY <1>23 DEF vars
<1>24. ASSUME NEW u \in Inputs, SdkRepeat(u) PROVE TypeOK'
  <2>1. Ev("completed", {u}) \in Event
    BY EventType
  <2>2. events' \in Seq(Event)
    BY <1>24, <2>1 DEF SdkRepeat
  <2> QED  BY <1>24, <2>2 DEF SdkRepeat
<1> QED
  BY <1>1, <1>2, <1>3, <1>4, <1>5, <1>6, <1>7, <1>8, <1>9, <1>10, <1>11, <1>12, <1>13, <1>14,
     <1>15, <1>17, <1>18, <1>19, <1>20, <1>21, <1>22, <1>23, <1>24 DEF Next

LEMMA InitType == Init => TypeOK
<1> SUFFICES ASSUME Init PROVE TypeOK
  OBVIOUS
<1>1. /\ ledger \in [Chat -> LedgerState] /\ saved \in [Chat -> LedgerState]
      /\ fate \in [Chat -> Fates] /\ transcript \in [Sessions -> SUBSET Inputs]
  BY DEF Init, NoLedger, LedgerState, Fates
<1>2. /\ lane \in Lanes /\ stops \in Nat /\ events \in Seq(Event)
      /\ items \in Seq(Inputs) /\ ledgerOrder \in Seq(Chat) /\ savedOrder \in Seq(Chat)
  BY NoEvents DEF Init, Lanes
<1>3. busy \in BOOLEAN /\ hold \in BOOLEAN /\ known \in BOOLEAN
  BY DEF Init
<1> QED  BY <1>1, <1>2, <1>3 DEF Init, TypeOK

\* The runner's memory, its file and the SDK's state always have their types.
THEOREM TypeCorrect == Spec => []TypeOK
  BY InitType, TypeStep, PTL DEF Spec

(***************************************************************************)
(* The ids in the event channel.                                           *)
(***************************************************************************)
LEMMA HeadIds ==
    ASSUME TypeOK, events # <<>>
    PROVE  Ids \subseteq EventIds(events) /\ EventIds(Tail(events)) \subseteq EventIds(events)
<1>1. 1 \in DOMAIN events /\ Head(events) = events[1]
  BY DEF TypeOK
<1>2. \A i \in DOMAIN Tail(events) : i + 1 \in DOMAIN events /\ Tail(events)[i] = events[i + 1]
  BY DEF TypeOK
<1> QED  BY <1>1, <1>2 DEF Ids, EventIds

LEMMA ConcatIds ==
    ASSUME NEW s \in Seq(Event), NEW t \in Seq(Event)
    PROVE  EventIds(s \o t) \subseteq EventIds(s) \union EventIds(t)
<1>1. ASSUME NEW i \in DOMAIN (s \o t)
      PROVE  \/ i \in DOMAIN s /\ (s \o t)[i] = s[i]
             \/ \E j \in DOMAIN t : (s \o t)[i] = t[j]
  <2>1. CASE i <= Len(s)
    BY <1>1, <2>1
  <2>2. CASE i > Len(s)
    <3>1. i - Len(s) \in DOMAIN t /\ (s \o t)[i] = t[i - Len(s)]
      BY <1>1, <2>2
    <3> QED  BY <3>1
  <2> QED  BY <1>1, <2>1, <2>2
<1> QED  BY <1>1 DEF EventIds

LEMMA SingleIds ==
    ASSUME NEW ids \in SUBSET Inputs,
           NEW type \in {"init", "started", "completed", "result", "idle"}
    PROVE  <<Ev(type, ids)>> \in Seq(Event) /\ EventIds(<<Ev(type, ids)>>) = ids
<1> DEFINE e == Ev(type, ids)
<1>1. e \in Event /\ e.ids = ids
  BY EventType DEF Ev
<1> HIDE DEF e
<1>2. <<e>> \in Seq(Event) /\ DOMAIN <<e>> = {1} /\ <<e>>[1] = e
  BY <1>1
<1>3. EventIds(<<e>>) = ids
  BY <1>1, <1>2 DEF EventIds
<1> QED  BY <1>2, <1>3 DEF e

LEMMA NoIds == EventIds(<<>>) = {}
  BY DEF EventIds

\* What SdkComplete and SdkEnd append.
LEMMA AppendedIds ==
    ASSUME TypeOK, NEW ids \in SUBSET Inputs, NEW type \in {"completed", "result"}, NEW b \in BOOLEAN,
           events' = events \o <<Ev(type, ids)>> \o (IF b THEN <<Ev("idle", {})>> ELSE <<>>)
    PROVE  EventIds(events') \subseteq EventIds(events) \union ids
<1> DEFINE last == IF b THEN <<Ev("idle", {})>> ELSE <<>>
<1>1. last \in Seq(Event) /\ EventIds(last) = {}
  <2>1. <<Ev("idle", {})>> \in Seq(Event) /\ EventIds(<<Ev("idle", {})>>) = {}
    BY SingleIds
  <2>2. CASE b
    BY <2>1, <2>2
  <2>3. CASE ~b
    BY <2>3, NoIds, NoEvents
  <2> QED  BY <2>2, <2>3
<1> DEFINE one == <<Ev(type, ids)>>
<1>2. events \in Seq(Event) /\ one \in Seq(Event) /\ EventIds(one) = ids
  BY SingleIds DEF TypeOK
<1>3. events' = events \o one \o last
  OBVIOUS
<1> HIDE DEF one, last
<1>4. events \o one \in Seq(Event) /\ EventIds(events \o one) \subseteq EventIds(events) \union ids
  BY <1>2, ConcatIds
<1>5. EventIds((events \o one) \o last) \subseteq EventIds(events) \union ids
  BY <1>1, <1>4, ConcatIds
<1> QED  BY <1>3, <1>5

\* What SdkRepeat appends.
LEMMA RepeatIds ==
    ASSUME TypeOK, NEW u \in Inputs, SdkRepeat(u)
    PROVE  EventIds(events') \subseteq EventIds(events) \union {u}
<1>1. <<Ev("completed", {u})>> \in Seq(Event) /\ EventIds(<<Ev("completed", {u})>>) = {u}
  BY SingleIds
<1>2. events' = events \o <<Ev("completed", {u})>> /\ events \in Seq(Event)
  <2>1. Ev("completed", {u}) \in Event
    BY EventType
  <2>2. events' = Append(events, Ev("completed", {u})) /\ events \in Seq(Event)
    BY DEF SdkRepeat, TypeOK
  <2>3. \A e \in Event : Append(events, e) = events \o <<e>>
    BY <2>2
  <2> QED  BY <2>1, <2>2, <2>3
<1> QED  BY <1>1, <1>2, ConcatIds

\* What SdkBegin appends.
LEMMA BeginIds ==
    ASSUME TypeOK, NEW u \in Inputs, SdkBegin(u)
    PROVE  EventIds(events') \subseteq EventIds(events) \union {u}
<1> DEFINE base == IF turn = {} THEN events \o <<Ev("init", {})>> ELSE events
           one == <<Ev("started", {u})>>
           done == <<Ev("completed", {u})>>
<1>1. /\ one \in Seq(Event) /\ done \in Seq(Event) /\ events \in Seq(Event)
      /\ EventIds(one) = {u} /\ EventIds(done) = {u}
  BY SingleIds DEF TypeOK
<1>2. base \in Seq(Event) /\ EventIds(base) \subseteq EventIds(events)
  <2> DEFINE ini == <<Ev("init", {})>>
  <2>1. ini \in Seq(Event) /\ EventIds(ini) = {}
    BY SingleIds
  <2>2. base = IF turn = {} THEN events \o ini ELSE events
    OBVIOUS
  <2> HIDE DEF ini, base
  <2>3. events \o ini \in Seq(Event) /\ EventIds(events \o ini) \subseteq EventIds(events)
    BY <1>1, <2>1, ConcatIds
  <2> QED  BY <1>1, <2>2, <2>3
<1>3. \A e \in Event : Append(events, e) = events \o <<e>>
  BY <1>1
<1>4. events' \in {events \o done, base \o one}
  BY <1>3, EventType DEF SdkBegin
<1> HIDE DEF base, one, done
<1>5. EventIds(events \o done) \subseteq EventIds(events) \union {u}
  BY <1>1, ConcatIds
<1>6. EventIds(base \o one) \subseteq EventIds(events) \union {u}
  BY <1>1, <1>2, ConcatIds
<1> QED  BY <1>4, <1>5, <1>6

(***************************************************************************)
(* What the conversation does not hold yet.                                *)
(***************************************************************************)
\* What waits for the SDK is not in the conversation this process runs, and
\* what recovery leaves to be queued again is not in the one it may resume.
NotHeld ==
    /\ \A s \in Sessions : transcript[s] \subseteq arrived
    /\ phase = "up" =>
          /\ session \in Sessions
          /\ transcript[session] \intersect (queue \union sdkQueue) = {}
    /\ phase = "recovered" => \A u \in Chat : saved[u] # "absent" => u \notin Seen

\* A hangup queues nothing but a new note.
LEMMA HangupIs ==
    ASSUME TypeOK, Hangup
    PROVE  /\ queue' \subseteq queue \union (arrived' \ arrived) /\ arrived \subseteq arrived'
           /\ arrived' \ arrived \subseteq Note
           /\ phase = "up" /\ UNCHANGED <<phase, memory, file, sdk, fate, consumed, old>>
<1>1. PICK n \in {<<>>} \union {<<u>> : u \in {v \in Note : Arrives(v)}} :
         items' = Without(items, Call) \o n /\ arrived' = arrived \union Elements(n)
  BY DEF Hangup
<1>2. queue' = (queue \ Call) \union Elements(n) /\ Elements(n) \subseteq Note
  BY <1>1, QueueHangs DEF TypeOK
<1>3. Elements(n) \intersect arrived = {}
  <2>1. CASE n = <<>>
    BY <2>1 DEF Elements
  <2>2. ASSUME NEW u, n = <<u>>, Arrives(u) PROVE Elements(n) \intersect arrived = {}
    <3>1. DOMAIN <<u>> = {1} /\ <<u>>[1] = u
      OBVIOUS
    <3> QED  BY <2>2, <3>1 DEF Elements, Arrives
  <2> QED  BY <1>1, <2>1, <2>2
<1> QED  BY <1>1, <1>2, <1>3 DEF Hangup

\* The SDK writes a new input to the transcript and takes it off its queue.
LEMMA NotHeldBegin ==
    ASSUME InputInv, NotHeld, NEW u \in Inputs, SdkBegin(u)
    PROVE  NotHeld'
<1>1. /\ phase = "up" /\ phase' = phase /\ u \in sdkQueue /\ sdkQueue' = sdkQueue \ {u}
      /\ UNCHANGED <<session, queue, arrived>> /\ session \in Sessions
  BY QueueIs DEF SdkBegin, queueVars, history, NotHeld, InputInv, TypeOK
<1>2. \A s \in Sessions : transcript'[s] \subseteq transcript[s] \union {u}
  BY DEF SdkBegin, InputInv, TypeOK
<1>3. u \in arrived /\ u \notin queue
  BY <1>1 DEF InputInv, SdkApart
<1> QED  BY <1>1, <1>2, <1>3 DEF NotHeld

\* The conversation that goes on was searched, and a new one holds nothing.
LEMMA NotHeldAgain ==
    ASSUME InputInv, NotHeld, NEW s \in Sessions, Again(s)
    PROVE  NotHeld'
<1>1. /\ phase = "recovered" /\ phase' = "up" /\ session' = s
      /\ UNCHANGED <<sdkQueue, transcript, arrived>> /\ Resumes(s)
  BY DEF Again, history
<1>2. sdkQueue = {}
  BY <1>1 DEF InputInv, MemoryGone
<1>3. transcript[s] \subseteq Seen
  BY <1>1 DEF Resumes, Seen
<1>4. queue' = InLedger(saved)
  BY DEF Again, queue, InputInv, ListsMatch
<1> QED  BY <1>1, <1>2, <1>3, <1>4 DEF NotHeld, InLedger

\* Recovery sets aside what the transcript holds.
LEMMA NotHeldRecover ==
    ASSUME InputInv, NotHeld, Recover
    PROVE  NotHeld'
<1>1. /\ phase' = "recovered" /\ Seen' = Seen /\ UNCHANGED <<transcript, arrived>>
      /\ \A u \in Chat : saved'[u] # "absent" => saved[u] = saved'[u] /\ saved[u] # "started"
                                                 /\ ~(saved[u] = "queued" /\ u \in Seen)
  BY DEF Recover, Seen, sdk, history
<1>2. \A u \in Chat : saved[u] \in {"absent", "queued", "started"}
  BY DEF InputInv, TypeOK, LedgerState
<1> QED  BY <1>1, <1>2 DEF NotHeld

LEMMA NotHeldStep == InputInv /\ NotHeld /\ [Next]_vars => NotHeld'
<1> SUFFICES ASSUME InputInv, NotHeld, [Next]_vars PROVE NotHeld'
  OBVIOUS
<1>0. items \in Seq(Inputs) /\ (items' = items => queue' = queue)
  BY QueueIs DEF InputInv, TypeOK
<1>1. ASSUME UNCHANGED <<phase, session, transcript>>, phase = "up", arrived \subseteq arrived',
             queue' \union sdkQueue' \subseteq queue \union sdkQueue \union (arrived' \ arrived)
      PROVE  NotHeld'
  BY <1>1 DEF NotHeld
<1> USE <1>0 DEF queueVars, memory, file, sdk, history
<1>2. ASSUME NEW u \in Chat, AcceptChat(u) PROVE NotHeld'
  <2>1. u \notin arrived /\ queue' = queue \union {u}
    BY <1>2, QueueIs DEF AcceptChat, Arrives, Inputs
  <2> QED  BY <1>1, <1>2, <2>1 DEF AcceptChat
<1>3. ASSUME NEW u \in Chat, Handled(u) PROVE NotHeld'
  BY <1>1, <1>3 DEF Handled
<1>4. ASSUME NEW u \in Chat, Age(u) PROVE NotHeld'
  BY <1>4 DEF Age, NotHeld, Seen
<1>5. ASSUME NEW u \in Call \union Note, AcceptOther(u) PROVE NotHeld'
  <2>1. u \notin arrived /\ queue' = queue \union {u}
    BY <1>5, QueueIs DEF AcceptOther, Arrives, Inputs
  <2> QED  BY <1>1, <1>5, <2>1 DEF AcceptOther
<1>6. ASSUME NEW u \in Note, AskCompact(u) PROVE NotHeld'
  <2>1. u \notin arrived /\ queue' = queue \union {u}
    BY <1>6, QueueIs DEF AskCompact, Arrives, Inputs
  <2> QED  BY <1>1, <1>6, <2>1 DEF AskCompact
<1>7. ASSUME NEW u \in Inputs, Dispatch(u) PROVE NotHeld'
  <2>1. u \in queue /\ queue' = queue \ {u}
    BY <1>7, TakenIs DEF InputInv
  <2> QED  BY <1>1, <1>7, <2>1 DEF Dispatch
<1>8. ASSUME NEW u \in Inputs, SdkBegin(u) PROVE NotHeld'
  BY <1>8, NotHeldBegin
<1>9. ASSUME NEW u \in Inputs, SdkComplete(u) \/ SdkRepeat(u) PROVE NotHeld'
  BY <1>1, <1>9 DEF SdkComplete, SdkRepeat
<1>10. CASE Hangup
  <2>1. /\ queue' \subseteq queue \union (arrived' \ arrived) /\ arrived \subseteq arrived'
        /\ phase = "up" /\ UNCHANGED <<phase, memory, file, sdk>>
    BY <1>10, HangupIs DEF InputInv
  <2> QED  BY <1>1, <2>1
<1>11. CASE SdkEnd \/ SdkHold
  BY <1>1, <1>11 DEF SdkEnd, SdkHold
<1>12. CASE ReadInit \/ ReadStarted \/ ReadIdle
  BY <1>1, <1>12 DEF ReadInit, ReadStarted, ReadIdle, Reads
<1>13. ASSUME NEW type, ReadFinished(type) PROVE NotHeld'
  BY <1>1, <1>13 DEF ReadFinished, Reads
<1>14. CASE Crash \/ StopCancel \/ AgainRefused \/ \E u \in Inputs : RefusedInput(u)
  BY <1>14 DEF Crash, StopCancel, AgainRefused, RefusedInput, Gone, NotHeld
<1>15. CASE Recover
  BY <1>15, NotHeldRecover
<1>16. ASSUME NEW s \in Sessions, Again(s) PROVE NotHeld'
  BY <1>16, NotHeldAgain
<1>17. CASE UNCHANGED vars
  BY <1>17 DEF vars, NotHeld, Seen
<1> QED
  BY <1>2, <1>3, <1>4, <1>5, <1>6, <1>7, <1>8, <1>9, <1>10, <1>11, <1>12, <1>13, <1>14, <1>15,
     <1>16, <1>17 DEF Next

(***************************************************************************)
(* The inductive invariant.                                                *)
(***************************************************************************)
\* The steps that only move an input on its way to and through the SDK leave
\* ledger, file and fates alone.
LEMMA SdkSteps ==
    ASSUME InputInv, TypeOK',
           UNCHANGED <<phase, ledger, saved, interrupted, fate, consumed, old>>,
           UNCHANGED <<ledgerOrder, savedOrder>>,
           phase = "up", arrived \subseteq arrived', queue' \subseteq arrived',
           \A u \in Chat : u \in queue' => u \in queue,
           dispatched' \subseteq arrived',
           sdkQueue' \union turn' \union EventIds(events') \subseteq arrived' \ queue'
    PROVE  InputInv'
<1>1. FileMatches'
  BY DEF InputInv, FileMatches
<1>2. MemoryGone'
  BY DEF MemoryGone
<1>3. OpenKept'
  BY DEF InputInv, OpenKept, Kept
<1>4. OneHome'
  BY DEF InputInv, OneHome
<1>5. SdkApart'
  BY DEF SdkApart
<1>6. ListsMatch'
  BY DEF InputInv, ListsMatch, InLedger
<1> QED  BY <1>1, <1>2, <1>3, <1>4, <1>5, <1>6 DEF InputInv

\* Nothing is listed of an empty ledger.
LEMMA NothingListed == Elements(<<>>) = {} /\ InLedger(NoLedger) = {}
  BY DEF Elements, InLedger, NoLedger

\* The process goes down without touching the file: it keeps what it has.
LEMMA DownStep ==
    ASSUME InputInv, TypeOK', Gone, UNCHANGED <<file, fate>>, phase' = "down",
           phase \in {"up", "recovered"}
    PROVE  InputInv'
<1>0. queue' = {}
  BY QueueIs DEF InputInv, TypeOK, Gone
<1> USE <1>0 DEF InputInv, Gone, file
<1>1. FileMatches'
  BY DEF FileMatches
<1>2. MemoryGone'
  BY DEF MemoryGone
<1>3. OpenKept'
  <2> SUFFICES ASSUME NEW u \in Chat, fate[u] = "open"
               PROVE  /\ u \notin old => saved[u] # "absent" \/ u \in interrupted
                      /\ u \in consumed => saved[u] = "started" \/ u \in interrupted
    BY DEF OpenKept, Kept
  <2>1. ledger[u] \in LedgerState
    BY DEF TypeOK
  <2> QED  BY <2>1 DEF OpenKept, Kept, FileMatches, LedgerState
<1>4. OneHome'
  BY DEF OneHome, NoLedger
<1>5. SdkApart'
  BY NoIds DEF SdkApart
<1>6. ListsMatch'
  BY NothingListed DEF ListsMatch, InLedger
<1> QED  BY <1>1, <1>2, <1>3, <1>4, <1>5, <1>6

\* A new chat is in the ledger and in the file before it is in the queue.
LEMMA AcceptStep ==
    ASSUME InputInv, TypeOK', NEW u \in Chat, AcceptChat(u)
    PROVE  InputInv'
<1>1. /\ ledger' = [ledger EXCEPT ![u] = "queued"] /\ ledgerOrder' = Append(ledgerOrder, u)
      /\ Saves /\ u \notin arrived /\ queue' = queue \union {u}
  BY QueueIs DEF AcceptChat, Arrives, InputInv, TypeOK, Inputs
<1>9. /\ \A v \in Chat : saved'[v] = IF ledger'[v] = "queued" /\ v \in old THEN "absent" ELSE ledger'[v]
      /\ Elements(ledgerOrder') = InLedger(ledger') => Elements(savedOrder') = InLedger(saved')
  BY <1>1, SavesIs DEF TypeOK
<1> USE DEF InputInv, AcceptChat, sdk
<1>2. /\ \A v \in Chat \ {u} : ledger'[v] = ledger[v] /\ fate'[v] = fate[v]
      /\ ledger'[u] = "queued" /\ fate'[u] = "open"
  BY <1>1 DEF TypeOK
<1> USE <1>9
<1>3. FileMatches'
  BY <1>2 DEF FileMatches
<1>4. MemoryGone'
  BY DEF MemoryGone
<1>5. OpenKept'
  BY <1>1, <1>2 DEF OpenKept, Kept, OneHome
<1>6. OneHome'
  BY <1>1, <1>2 DEF OneHome
<1>7. SdkApart'
  BY <1>1 DEF SdkApart
<1>8. ListsMatch'
  <2>1. Elements(ledgerOrder') = Elements(ledgerOrder) \union {u}
    BY <1>1, AppendIs DEF TypeOK
  <2>2. InLedger(ledger') = InLedger(ledger) \union {u}
    BY <1>2 DEF InLedger
  <2> QED  BY <1>9, <2>1, <2>2 DEF ListsMatch, InLedger
<1> QED  BY <1>3, <1>4, <1>5, <1>6, <1>7, <1>8

\* The file follows the ledger when the SDK starts a chat.
LEMMA StartedStep ==
    ASSUME InputInv, TypeOK', ReadStarted
    PROVE  InputInv'
<1> DEFINE now == {u \in Ids \intersect Chat : ledger[u] = "queued"}
<1> USE DEF InputInv
<1>1. /\ phase = "up" /\ UNCHANGED <<phase, queue, interrupted, fate, old, arrived, sdkQueue, turn>>
      /\ dispatched' = dispatched
      /\ consumed' = consumed \union now /\ events' = Tail(events) /\ events # <<>>
      /\ IF now # {} THEN Saves ELSE UNCHANGED <<saved, savedOrder>>
      /\ ledger' = [u \in Chat |-> IF u \in now THEN "started" ELSE ledger[u]]
      /\ ledgerOrder' = ledgerOrder
  BY QueueIs DEF ReadStarted, Reads, queueVars, TypeOK
<1>9. /\ \A u \in Chat : saved'[u] = IF now = {} THEN saved[u]
                                     ELSE IF ledger'[u] = "queued" /\ u \in old THEN "absent"
                                     ELSE ledger'[u]
      /\ now # {} /\ Elements(ledgerOrder') = InLedger(ledger') => Elements(savedOrder') = InLedger(saved')
  BY <1>1, SavesIs DEF TypeOK
<1>2. /\ Ids \subseteq EventIds(events) /\ EventIds(Tail(events)) \subseteq EventIds(events)
      /\ Ids \subseteq arrived
  BY <1>1, HeadIds DEF SdkApart
<1>3. \A u \in Chat : ledger'[u] = IF u \in now THEN "started" ELSE ledger[u]
  BY <1>1
<1>4. FileMatches'
  BY <1>1, <1>3, <1>9 DEF FileMatches
<1>5. MemoryGone'
  BY <1>1 DEF MemoryGone
<1>6. OpenKept'
  <2> SUFFICES ASSUME NEW u \in Chat, fate[u] = "open"
               PROVE  /\ u \notin old => ledger'[u] # "absent" \/ u \in interrupted
                      /\ u \in consumed' => ledger'[u] = "started" \/ u \in interrupted
    BY <1>1 DEF OpenKept, Kept
  <2> QED  BY <1>1, <1>3 DEF OpenKept, Kept
<1>7. OneHome'
  <2>1. ASSUME NEW u \in Chat, saved'[u] # "absent" \/ ledger'[u] # "absent"
        PROVE  saved[u] # "absent" \/ ledger[u] # "absent"
    BY <2>1, <1>3, <1>9
  <2>2. ASSUME NEW u \in consumed' PROVE u \in arrived
    BY <1>1, <1>2, <2>2 DEF OneHome, TypeOK
  <2>3. ASSUME NEW u \in queue' \intersect Chat PROVE ledger'[u] # "absent"
    BY <1>1, <1>3 DEF OneHome
  <2> QED  BY <1>1, <2>1, <2>2, <2>3 DEF OneHome
<1>8. SdkApart'
  BY <1>1, <1>2 DEF SdkApart
<1>10. ListsMatch'
  <2>1. InLedger(ledger') = InLedger(ledger)
    BY <1>3 DEF InLedger
  <2> QED  BY <1>1, <1>9, <2>1 DEF ListsMatch, InLedger
<1> QED  BY <1>4, <1>5, <1>6, <1>7, <1>8, <1>10

\* A finished chat leaves ledger and file in one step, and was not queued.
LEMMA FinishedStep ==
    ASSUME InputInv, TypeOK', NEW type, ReadFinished(type)
    PROVE  InputInv'
<1> DEFINE now == Ids \intersect InLedger(ledger)
<1> USE DEF InputInv
<1>1. /\ phase = "up" /\ UNCHANGED <<phase, queue, interrupted, consumed, old, arrived, sdkQueue, turn>>
      /\ events' = Tail(events) /\ events # <<>> /\ dispatched' \subseteq dispatched
      /\ IF now # {} THEN Saves ELSE UNCHANGED <<saved, savedOrder>>
      /\ ledger' = [u \in Chat |-> IF u \in now THEN "absent" ELSE ledger[u]]
      /\ fate' = [u \in Chat |-> IF u \in now THEN "finished" ELSE fate[u]]
      /\ ledgerOrder' = Without(ledgerOrder, now)
  BY QueueIs DEF ReadFinished, Reads, queueVars, TypeOK
<1>9. /\ \A u \in Chat : now # {} => saved'[u] = IF ledger'[u] = "queued" /\ u \in old THEN "absent"
                                                 ELSE ledger'[u]
      /\ now # {} /\ Elements(ledgerOrder') = InLedger(ledger') => Elements(savedOrder') = InLedger(saved')
  BY <1>1, SavesIs DEF TypeOK
<1>2. /\ EventIds(Tail(events)) \subseteq EventIds(events)
      /\ \A u \in Ids : u \in arrived /\ u \notin queue
  BY <1>1, HeadIds DEF SdkApart
<1>3. \A u \in Chat : /\ ledger'[u] = IF u \in now THEN "absent" ELSE ledger[u]
                      /\ fate'[u] = IF u \in now THEN "finished" ELSE fate[u]
                      /\ now # {} => saved'[u] = IF ledger'[u] = "queued" /\ u \in old
                                                 THEN "absent" ELSE ledger'[u]
  BY <1>1, <1>9
<1>4. FileMatches'
  BY <1>1, <1>3 DEF FileMatches
<1>5. MemoryGone'
  BY <1>1 DEF MemoryGone
<1>6. OpenKept'
  BY <1>1, <1>3 DEF OpenKept, Kept
<1>7. OneHome'
  <2>1. ASSUME NEW u \in Chat, saved'[u] # "absent" \/ ledger'[u] # "absent"
        PROVE  fate'[u] = "open" /\ u \notin interrupted
    <3>1. u \notin now
      <4> SUFFICES ASSUME u \in now PROVE FALSE
        OBVIOUS
      <4> QED  BY <1>3, <2>1
    <3> QED  BY <1>1, <1>3, <2>1, <3>1 DEF OneHome
  <2>2. ASSUME NEW u \in Chat, u \in interrupted PROVE fate'[u] = "open"
    BY <1>3, <2>2 DEF OneHome, InLedger
  <2>3. ASSUME NEW u \in queue \intersect Chat PROVE ledger'[u] # "absent"
    BY <1>2, <1>3 DEF OneHome
  <2>4. ASSUME NEW u \in Chat, fate'[u] # "new" \/ u \in consumed \/ u \in dispatched'
        PROVE  u \in arrived
    BY <1>1, <1>2, <1>3, <2>4 DEF OneHome
  <2> QED  BY <1>1, <2>1, <2>2, <2>3, <2>4 DEF OneHome
<1>8. SdkApart'
  BY <1>1, <1>2 DEF SdkApart
<1>10. ListsMatch'
  <2>1. Elements(ledgerOrder') = Elements(ledgerOrder) \ now
    BY <1>1, WithoutIs DEF TypeOK
  <2>2. InLedger(ledger') = InLedger(ledger) \ now
    BY <1>3 DEF InLedger
  <2>3. now = {} => saved' = saved /\ savedOrder' = savedOrder
    BY <1>1
  <2> HIDE DEF now
  <2> QED  BY <1>9, <2>1, <2>2, <2>3 DEF ListsMatch, InLedger
<1> QED  BY <1>4, <1>5, <1>6, <1>7, <1>8, <1>10

\* Stop drops what the SDK has from the file and keeps what is queued.
LEMMA StopStep ==
    ASSUME InputInv, TypeOK', StopCancel
    PROVE  InputInv'
<1> DEFINE gone == interrupted \union Active \union {u \in Chat : saved[u] = "started"}
<1>0. queue' = {}
  BY QueueIs DEF InputInv, TypeOK, StopCancel, Gone
<1> USE <1>0 DEF InputInv
<1>1. /\ phase = "up" /\ phase' = "stopped" /\ Gone /\ interrupted' = {}
      /\ \A u \in Chat : /\ saved'[u] = IF u \in gone THEN "absent" ELSE saved[u]
                         /\ fate'[u] = IF u \in gone THEN "cancelled" ELSE fate[u]
  BY DEF StopCancel
<1>2. ASSUME NEW u \in gone PROVE u \in arrived
  BY <1>1, <1>2 DEF OneHome, Active, TypeOK
<1>3. FileMatches'
  BY <1>1 DEF FileMatches
<1>4. MemoryGone'
  BY <1>1 DEF MemoryGone, Gone
<1>5. OpenKept'
  <2> SUFFICES ASSUME NEW u \in Chat, fate'[u] = "open"
               PROVE  /\ u \notin old => saved'[u] # "absent"
                      /\ u \notin consumed
    BY <1>1 DEF OpenKept, Kept, Gone
  <2>1. u \notin gone /\ fate[u] = "open" /\ saved'[u] = saved[u]
    BY <1>1
  <2>2. ledger[u] # "started" /\ u \notin interrupted /\ ledger[u] \in LedgerState
    BY <2>1 DEF Active, TypeOK
  <2> QED  BY <1>1, <2>1, <2>2 DEF OpenKept, Kept, FileMatches, LedgerState
<1>6. OneHome'
  BY <1>1, <1>2 DEF OneHome, Gone, NoLedger
<1>7. SdkApart'
  BY <1>1, NoIds DEF SdkApart, Gone
<1>8. ListsMatch'
  <2>1. Elements(savedOrder') = Elements(savedOrder) \ gone
    BY WithoutIs DEF StopCancel, TypeOK
  <2>2. InLedger(saved') = InLedger(saved) \ gone
    BY <1>1 DEF InLedger
  <2>3. ledger' = NoLedger /\ ledgerOrder' = <<>>
    BY <1>1 DEF Gone
  <2> HIDE DEF gone
  <2> QED  BY <2>1, <2>2, <2>3, NothingListed DEF ListsMatch, InLedger
<1> QED  BY <1>3, <1>4, <1>5, <1>6, <1>7, <1>8

\* Recovery moves what was begun from one list of the file to the other.
LEMMA RecoverStep ==
    ASSUME InputInv, TypeOK', Recover
    PROVE  InputInv'
<1> DEFINE begun == {u \in Chat : saved[u] = "started" \/ (saved[u] = "queued" /\ u \in Seen)}
<1> USE DEF InputInv
<1>1. /\ phase # "up" /\ phase' = "recovered" /\ interrupted' = interrupted \union begun
      /\ \A u \in Chat : saved'[u] = IF u \in begun THEN "absent" ELSE saved[u]
      /\ UNCHANGED <<items, queue, ledger, dispatched, sdkQueue, turn, events, fate, consumed, old, arrived>>
      /\ ledgerOrder' = ledgerOrder /\ savedOrder' = Without(savedOrder, begun)
  BY QueueIs DEF Recover, queueVars, memory, sdk, history, TypeOK
<1>7. queue = {}
  BY <1>1, QueueIs DEF MemoryGone, TypeOK
<1>2. FileMatches'
  BY <1>1 DEF FileMatches
<1>3. MemoryGone'
  BY <1>1 DEF MemoryGone
<1>4. OpenKept'
  BY <1>1 DEF OpenKept, Kept
<1>5. OneHome'
  BY <1>1, <1>7 DEF OneHome, MemoryGone, NoLedger
<1>6. SdkApart'
  BY <1>1 DEF SdkApart
<1>8. ListsMatch'
  <2>1. Elements(savedOrder') = Elements(savedOrder) \ begun
    BY <1>1, WithoutIs DEF TypeOK
  <2>2. InLedger(saved') = InLedger(saved) \ begun
    BY <1>1 DEF InLedger
  <2> HIDE DEF begun
  <2> QED  BY <1>1, <2>1, <2>2 DEF ListsMatch, InLedger
<1> QED  BY <1>2, <1>3, <1>4, <1>5, <1>6, <1>8

\* The saved chats become the ledger and the queue.
LEMMA AgainStep ==
    ASSUME InputInv, TypeOK', NEW s, Again(s)
    PROVE  InputInv'
<1> USE DEF InputInv
<1>0. /\ ledger' = saved /\ ledgerOrder' = savedOrder /\ Saves
      /\ queue' = InLedger(saved) /\ Elements(ledgerOrder') = InLedger(ledger')
  BY DEF Again, queue, ListsMatch
<1>7. /\ \A u \in Chat : saved'[u] = IF saved[u] = "queued" /\ u \in old THEN "absent" ELSE saved[u]
      /\ Elements(savedOrder') = InLedger(saved')
  BY <1>0, SavesIs DEF TypeOK
<1>1. /\ phase = "recovered" /\ phase' = "up" /\ ledger' = saved /\ queue' = InLedger(saved)
      /\ \A u \in Chat : saved'[u] = IF saved[u] = "queued" /\ u \in old THEN "absent" ELSE saved[u]
      /\ UNCHANGED <<interrupted, dispatched, sdkQueue, turn, events, fate, consumed, old, arrived>>
  BY <1>0, <1>7 DEF Again, history
<1>2. FileMatches'
  BY <1>1 DEF FileMatches
<1>3. MemoryGone'
  BY <1>1 DEF MemoryGone
<1>4. OpenKept'
  BY <1>1 DEF OpenKept, Kept
<1>5. OneHome'
  BY <1>1 DEF OneHome, InLedger
<1>6. SdkApart'
  BY <1>1, NoIds DEF SdkApart, MemoryGone, InLedger, OneHome
<1>8. ListsMatch'
  BY <1>0, <1>7 DEF ListsMatch, InLedger
<1> QED  BY <1>2, <1>3, <1>4, <1>5, <1>6, <1>8

\* An acknowledged interruption, and the passing of time.
LEMMA HandledStep ==
    ASSUME InputInv, TypeOK', NEW u \in Chat, Handled(u)
    PROVE  InputInv'
<1> USE DEF InputInv
<1>1. /\ u \in interrupted /\ interrupted' = interrupted \ {u}
      /\ \A v \in Chat : fate'[v] = IF v = u THEN "handled" ELSE fate[v]
      /\ UNCHANGED <<phase, queue, ledger, saved, dispatched, sdkQueue, turn, events, consumed, old, arrived>>
      /\ UNCHANGED <<items, ledgerOrder, savedOrder>>
  BY QueueIs DEF Handled, queueVars, memory, sdk, TypeOK
<1>2. FileMatches' /\ MemoryGone' /\ SdkApart' /\ ListsMatch'
  BY <1>1 DEF FileMatches, MemoryGone, SdkApart, ListsMatch, InLedger
<1>3. OpenKept'
  BY <1>1 DEF OpenKept, Kept
<1>4. OneHome'
  BY <1>1 DEF OneHome
<1> QED  BY <1>2, <1>3, <1>4

LEMMA AgeStep ==
    ASSUME InputInv, TypeOK', NEW u \in Chat, Age(u)
    PROVE  InputInv'
<1> USE DEF InputInv
<1>1. /\ old \subseteq old'
      /\ UNCHANGED <<phase, queue, ledger, saved, interrupted, dispatched, sdkQueue, turn, events, fate,
                     consumed, arrived>>
      /\ UNCHANGED <<items, ledgerOrder, savedOrder>>
  BY QueueIs DEF Age, queueVars, memory, file, sdk, TypeOK
<1> QED  BY <1>1 DEF FileMatches, MemoryGone, SdkApart, OpenKept, Kept, OneHome, ListsMatch, InLedger

\* Every step of the specification keeps the inductive invariant.
LEMMA InvStep == InputInv /\ NotHeld /\ [Next]_vars => InputInv'
<1> SUFFICES ASSUME InputInv, NotHeld, [Next]_vars PROVE InputInv'
  OBVIOUS
<1>0. /\ TypeOK /\ TypeOK' /\ dispatched \subseteq arrived /\ items \in Seq(Inputs)
      /\ items' = items => queue' = queue
  BY TypeStep, QueueIs DEF InputInv, OneHome, TypeOK
<1> USE <1>0 DEF queueVars, memory, file, sdk, history
<1>1. ASSUME NEW u \in Chat, AcceptChat(u) PROVE InputInv'
  BY <1>1, AcceptStep
<1>2. ASSUME NEW u \in Chat, Handled(u) PROVE InputInv'
  BY <1>2, HandledStep
<1>3. ASSUME NEW u \in Chat, Age(u) PROVE InputInv'
  BY <1>3, AgeStep
<1>4. ASSUME NEW u \in Call \union Note, AcceptOther(u) PROVE InputInv'
  <2>1. /\ u \notin Chat /\ u \notin arrived /\ u \in arrived'
        /\ queue' = queue \union {u} /\ arrived' = arrived \union {u}
    BY <1>4, QueueIs, InputsAssumption DEF AcceptOther, Arrives, Inputs
  <2> QED  BY <1>4, <2>1, SdkSteps DEF AcceptOther, InputInv, SdkApart
<1>5. ASSUME NEW u \in Note, AskCompact(u) PROVE InputInv'
  <2>1. /\ u \notin Chat /\ u \notin arrived /\ u \in arrived'
        /\ queue' = queue \union {u} /\ arrived' = arrived \union {u}
    BY <1>5, QueueIs, InputsAssumption DEF AskCompact, Arrives, Inputs
  <2> QED  BY <1>5, <2>1, SdkSteps DEF AskCompact, InputInv, SdkApart
<1>6. ASSUME NEW u \in Inputs, Dispatch(u) PROVE InputInv'
  <2>1. u \in queue /\ u \in arrived /\ queue' = queue \ {u}
    BY <1>6, TakenIs DEF InputInv, SdkApart
  <2> QED  BY <1>6, <2>1, SdkSteps DEF Dispatch, InputInv, SdkApart
<1>7. ASSUME NEW u \in Inputs, SdkBegin(u) PROVE InputInv'
  <2>1. EventIds(events') \subseteq EventIds(events) \union {u}
    BY <1>7, BeginIds
  <2>2. u \in arrived \ queue
    BY <1>7 DEF SdkBegin, InputInv, SdkApart
  <2>3. /\ sdkQueue' \subseteq sdkQueue /\ turn' \subseteq turn \union {u} /\ phase = "up"
        /\ UNCHANGED <<phase, ledger, saved, interrupted, fate, consumed, old, queue, arrived, dispatched>>
        /\ UNCHANGED <<ledgerOrder, savedOrder>>
    BY <1>7 DEF SdkBegin
  <2> QED  BY <2>1, <2>2, <2>3, SdkSteps DEF InputInv, SdkApart
<1>8. ASSUME NEW u \in Inputs, SdkComplete(u) PROVE InputInv'
  <2>1. EventIds(events') \subseteq EventIds(events) \union {u}
    BY <1>8, AppendedIds DEF SdkComplete
  <2> QED  BY <1>8, <2>1, SdkSteps DEF SdkComplete, InputInv, SdkApart
<1>9. CASE SdkEnd
  <2>1. PICK ids \in {turn} \union (IF Uncorrelated THEN {{}} ELSE {}) :
           events' = events \o <<Ev("result", ids)>>
                     \o (IF sdkQueue = {} THEN <<Ev("idle", {})>> ELSE <<>>)
    BY <1>9 DEF SdkEnd
  <2>2. ids \subseteq turn /\ ids \in SUBSET Inputs
    BY DEF TypeOK
  <2>3. EventIds(events') \subseteq EventIds(events) \union ids
    BY <2>1, <2>2, AppendedIds
  <2> QED  BY <1>9, <2>2, <2>3, SdkSteps DEF SdkEnd, InputInv, SdkApart
<1>10. CASE Hangup
  <2>1. /\ queue' \subseteq queue \union (arrived' \ arrived) /\ arrived \subseteq arrived'
        /\ \A u \in arrived' \ arrived : u \notin Chat
        /\ phase = "up" /\ UNCHANGED <<phase, memory, file, sdk, fate, consumed, old>>
    BY <1>10, HangupIs, InputsAssumption
  <2>2. /\ UNCHANGED <<phase, ledger, saved, interrupted, fate, consumed, old, ledgerOrder, savedOrder>>
        /\ UNCHANGED <<dispatched, sdkQueue, turn, events>>
    BY <2>1
  <2> QED  BY <2>1, <2>2, SdkSteps DEF InputInv, SdkApart
<1>11. CASE SdkHold
  BY <1>11, SdkSteps DEF SdkHold, InputInv, SdkApart
<1>12. CASE ReadInit
  BY <1>12, HeadIds, SdkSteps DEF ReadInit, Reads, InputInv, SdkApart
<1>13. CASE ReadStarted
  BY <1>13, StartedStep
<1>14. ASSUME NEW type, ReadFinished(type) PROVE InputInv'
  BY <1>14, FinishedStep
<1>15. CASE ReadIdle
  BY <1>15, HeadIds, SdkSteps DEF ReadIdle, Reads, InputInv, SdkApart
<1>16. CASE Crash
  BY <1>16, DownStep DEF Crash
<1>17. ASSUME NEW u \in Inputs, RefusedInput(u) PROVE InputInv'
  BY <1>17, DownStep DEF RefusedInput
<1>18. CASE AgainRefused
  BY <1>18, DownStep DEF AgainRefused
<1>19. CASE StopCancel
  BY <1>19, StopStep
<1>20. CASE Recover
  BY <1>20, RecoverStep
<1>21. ASSUME NEW s \in Sessions, Again(s) PROVE InputInv'
  BY <1>21, AgainStep
<1>22. CASE UNCHANGED vars
  BY <1>22 DEF vars, InputInv, FileMatches, MemoryGone, OpenKept, Kept, OneHome, SdkApart,
               ListsMatch, InLedger
<1>23. ASSUME NEW u \in Inputs, SdkRepeat(u) PROVE InputInv'
  <2>1. EventIds(events') \subseteq EventIds(events) \union {u}
    BY <1>23, RepeatIds
  <2>2. u \in arrived \ queue
    BY <1>23 DEF SdkRepeat, NotHeld
  <2> QED  BY <1>23, <2>1, <2>2, SdkSteps DEF SdkRepeat, InputInv, SdkApart
<1> QED
  BY <1>1, <1>2, <1>3, <1>4, <1>5, <1>6, <1>7, <1>8, <1>9, <1>10, <1>11, <1>12, <1>13, <1>14,
     <1>15, <1>16, <1>17, <1>18, <1>19, <1>20, <1>21, <1>22, <1>23 DEF Next

LEMMA InitInv == Init => InputInv /\ NotHeld
<1> SUFFICES ASSUME Init PROVE InputInv /\ NotHeld
  OBVIOUS
<1>1. queue = {}
  BY DEF Init, queue, Elements
<1>2. FileMatches /\ MemoryGone /\ OpenKept /\ OneHome /\ SdkApart
  BY <1>1, NoIds DEF Init, FileMatches, MemoryGone, OpenKept, Kept, OneHome, SdkApart, NoLedger
<1>3. ListsMatch
  BY NothingListed DEF Init, ListsMatch
<1>4. NotHeld
  BY DEF Init, NotHeld
<1> QED  BY <1>2, <1>3, <1>4, InitType DEF InputInv

\* The file, the ledger and the fates always agree, and nothing waits that the
\* conversation holds already.
THEOREM InputInvariant == Spec => [](InputInv /\ NotHeld)
  BY InitInv, InvStep, NotHeldStep, PTL DEF Spec

\* No accepted chat is ever absent from the disk before it is settled, and
\* started work is never dropped for its age, whatever the number of chats,
\* crashes, refusals and restarts.
THEOREM NothingLostAlways == Spec => []NothingLost
<1>1. InputInv => NothingLost
  <2> SUFFICES ASSUME InputInv, NEW u \in Chat, fate[u] = "open"
               PROVE  /\ u \notin old => saved[u] # "absent" \/ u \in interrupted
                      /\ u \in consumed => saved[u] = "started" \/ u \in interrupted
    BY DEF NothingLost
  <2>1. ledger[u] \in LedgerState
    BY DEF InputInv, TypeOK
  <2>2. u \notin old => saved[u] # "absent" \/ u \in interrupted
    BY <2>1 DEF InputInv, OpenKept, Kept, FileMatches, LedgerState
  <2>3. u \in consumed => saved[u] = "started" \/ u \in interrupted
    BY DEF InputInv, OpenKept, Kept, FileMatches
  <2> QED  BY <2>2, <2>3
<1> QED  BY <1>1, InputInvariant, PTL

\* A settled chat never comes back.
THEOREM SettledForGood == Spec => []SettledStaysSettled
<1>1. InputInv => SettledStaysSettled
  BY DEF InputInv, SettledStaysSettled, OneHome
<1> QED  BY <1>1, InputInvariant, PTL

(***************************************************************************)
(* Order within the chat lane.                                             *)
(***************************************************************************)
\* Dropping chats from a list keeps the others in line, and so does adding one
\* that came after them, or an input of another lane.
LEMMA LineWithout ==
    ASSUME NEW X, NEW s \in Seq(X), NEW S, InLine(s)
    PROVE  InLine(Without(s, S))
<1> DEFINE w == Without(s, S)
<1>1. ASSUME NEW j \in DOMAIN w, NEW k \in DOMAIN w, j < k, w[j] \in Chat, w[k] \in Chat
      PROVE  w[j] < w[k]
  <2>1. PICK p, q \in DOMAIN s : p < q /\ w[j] = s[p] /\ w[k] = s[q]
    BY <1>1, WithoutKeepsOrder
  <2> QED  BY <1>1, <2>1 DEF InLine
<1> QED  BY <1>1 DEF InLine

LEMMA LineAppend ==
    ASSUME NEW X, NEW s \in Seq(X), NEW x \in X, InLine(s),
           x \in Chat => \A v \in Elements(s) : v \in Chat => v < x
    PROVE  InLine(Append(s, x))
<1> DEFINE t == Append(s, x)
<1>1. /\ Len(s) \in Nat /\ DOMAIN s = 1..Len(s) /\ DOMAIN t = 1..(Len(s) + 1)
      /\ \A k \in 1..Len(s) : t[k] = s[k] /\ s[k] \in Elements(s)
      /\ t[Len(s) + 1] = x
  BY AppendProperties, LenProperties DEF Elements
<1> HIDE DEF t
<1>2. ASSUME NEW j \in DOMAIN t, NEW k \in DOMAIN t, j < k, t[j] \in Chat, t[k] \in Chat
      PROVE  t[j] < t[k]
  <2>1. j \in 1..Len(s)
    BY <1>1, <1>2
  <2>2. CASE k \in 1..Len(s)
    BY <1>1, <1>2, <2>1, <2>2 DEF InLine
  <2>3. CASE k = Len(s) + 1
    BY <1>1, <1>2, <2>1, <2>3
  <2> QED  BY <1>1, <2>2, <2>3
<1> QED  BY <1>2 DEF InLine, t

\* What is written to the file is in line when the ledger is.
LEMMA LineSaves ==
    ASSUME ledgerOrder' \in Seq(Chat), InLine(ledgerOrder'), Saves
    PROVE  InLine(savedOrder')
  BY LineWithout DEF Saves, Listed

LEMMA LineEmpty == InLine(<<>>)
  BY DEF InLine

\* A chat comes after all chats that are in the queue or in the ledger.
LEMMA LineAccept ==
    ASSUME InputInv, AllInLine, TypeOK', NEW u \in Chat, AcceptChat(u)
    PROVE  AllInLine'
<1>1. /\ ledgerOrder' = Append(ledgerOrder, u) /\ items' = Append(items, u) /\ Saves /\ Arrives(u)
      /\ u \in Inputs
  BY DEF AcceptChat, Inputs
<1>2. \A v \in arrived \intersect Chat : v < u
  BY <1>1 DEF Arrives, LaneOf
<1>3. queue \subseteq arrived /\ InLedger(ledger) \subseteq arrived
  BY DEF InputInv, SdkApart, OneHome, InLedger
<1>4. InLine(items')
  <2>1. \A v \in Elements(items) : v \in Chat => v < u
    BY <1>2, <1>3 DEF queue
  <2> QED  BY <1>1, <2>1, LineAppend DEF InputInv, TypeOK, AllInLine
<1>5. InLine(ledgerOrder')
  <2>1. \A v \in Elements(ledgerOrder) : v \in Chat => v < u
    BY <1>2, <1>3 DEF InputInv, ListsMatch
  <2> QED  BY <1>1, <2>1, LineAppend DEF InputInv, TypeOK, AllInLine
<1>6. InLine(savedOrder')
  BY <1>1, <1>5, LineSaves DEF TypeOK
<1> QED  BY <1>4, <1>5, <1>6 DEF AllInLine

\* The chats stay in line when a call is hung up.
LEMMA LineHangup ==
    ASSUME InputInv, AllInLine, Hangup
    PROVE  AllInLine'
<1>1. PICK n \in {<<>>} \union {<<u>> : u \in Note} : items' = Without(items, Call) \o n
  BY DEF Hangup
<1> DEFINE w == Without(items, Call)
<1>2. w \in Seq(Inputs) /\ InLine(w)
  BY WithoutIs, LineWithout DEF InputInv, TypeOK, AllInLine
<1> HIDE DEF w
<1>3. InLine(w \o n)
  <2>1. CASE n = <<>>
    BY <1>2, <2>1
  <2>2. ASSUME NEW u \in Note, n = <<u>> PROVE InLine(w \o n)
    <3>1. u \in Inputs /\ u \notin Chat
      BY InputsAssumption DEF Inputs
    <3>2. w \o n = Append(w, u)
      BY <1>2, <2>2, <3>1
    <3> QED  BY <1>2, <3>1, <3>2, LineAppend
  <2> QED  BY <1>1, <2>1, <2>2
<1>4. UNCHANGED <<ledgerOrder, savedOrder>>
  BY DEF Hangup, memory, file
<1> QED  BY <1>1, <1>3, <1>4 DEF AllInLine, w

LEMMA LineStep == InputInv /\ AllInLine /\ [Next]_vars => AllInLine'
<1> SUFFICES ASSUME InputInv, AllInLine, [Next]_vars PROVE AllInLine'
  OBVIOUS
<1>0. /\ items \in Seq(Inputs) /\ ledgerOrder \in Seq(Chat) /\ savedOrder \in Seq(Chat)
      /\ InLine(items) /\ InLine(ledgerOrder) /\ InLine(savedOrder) /\ TypeOK'
  BY TypeStep DEF InputInv, TypeOK, AllInLine
<1> USE DEF queueVars, memory, file
<1>1. ASSUME NEW u \in Chat, AcceptChat(u) PROVE AllInLine'
  BY <1>0, <1>1, LineAccept
<1>2. ASSUME NEW u \in Call \union Note, AcceptOther(u) \/ AskCompact(u) PROVE AllInLine'
  <2>1. u \in Inputs /\ u \notin Chat
    BY InputsAssumption DEF Inputs
  <2>2. items' = Append(items, u) /\ UNCHANGED <<ledgerOrder, savedOrder>>
    BY <1>2 DEF AcceptOther, AskCompact
  <2> QED  BY <1>0, <2>1, <2>2, LineAppend DEF AllInLine
<1>3. CASE Hangup
  BY <1>3, LineHangup
<1>4. ASSUME NEW u \in Inputs, Dispatch(u) PROVE AllInLine'
  BY <1>0, <1>4, LineWithout DEF Dispatch, AllInLine
<1>5. CASE ReadStarted
  <2>1. /\ UNCHANGED <<items, ledgerOrder>> /\ (Saves \/ savedOrder' = savedOrder)
        /\ InLine(ledgerOrder')
    BY <1>0, <1>5 DEF ReadStarted
  <2>2. InLine(savedOrder')
    BY <1>0, <2>1, LineSaves DEF TypeOK
  <2> QED  BY <1>0, <2>1, <2>2 DEF AllInLine
<1>6. ASSUME NEW type, ReadFinished(type) PROVE AllInLine'
  <2>1. items' = items /\ InLine(ledgerOrder') /\ (Saves \/ savedOrder' = savedOrder)
    BY <1>0, <1>6, LineWithout DEF ReadFinished
  <2>2. InLine(savedOrder')
    BY <1>0, <2>1, LineSaves DEF TypeOK
  <2> QED  BY <1>0, <2>1, <2>2 DEF AllInLine
<1>7. CASE Crash \/ AgainRefused \/ \E u \in Inputs : RefusedInput(u)
  <2>1. items' = <<>> /\ ledgerOrder' = <<>> /\ savedOrder' = savedOrder
    BY <1>7 DEF Crash, AgainRefused, RefusedInput, Gone
  <2> QED  BY <1>0, <2>1, LineEmpty DEF AllInLine
<1>8. CASE StopCancel
  <2>1. items' = <<>> /\ ledgerOrder' = <<>> /\ InLine(savedOrder')
    BY <1>0, <1>8, LineWithout DEF StopCancel, Gone
  <2> QED  BY <2>1, LineEmpty DEF AllInLine
<1>9. CASE Recover
  <2>1. UNCHANGED <<items, ledgerOrder>> /\ InLine(savedOrder')
    BY <1>0, <1>9, LineWithout DEF Recover
  <2> QED  BY <1>0, <2>1 DEF AllInLine
<1>10. ASSUME NEW s, Again(s) PROVE AllInLine'
  <2>1. items' = savedOrder /\ ledgerOrder' = savedOrder /\ Saves
    BY <1>10 DEF Again
  <2>2. InLine(items') /\ InLine(ledgerOrder')
    BY <1>0, <2>1
  <2>3. InLine(savedOrder')
    BY <1>0, <2>1, <2>2, LineSaves DEF TypeOK
  <2> QED  BY <2>2, <2>3 DEF AllInLine
<1>11. ASSUME UNCHANGED <<items, ledgerOrder, savedOrder>> PROVE AllInLine'
  BY <1>0, <1>11 DEF AllInLine
<1>12. CASE \/ \E u \in Chat : Handled(u) \/ Age(u)
            \/ \E u \in Inputs : SdkBegin(u) \/ SdkComplete(u) \/ SdkRepeat(u)
            \/ SdkEnd \/ SdkHold \/ ReadInit \/ ReadIdle \/ UNCHANGED vars
  BY <1>11, <1>12 DEF Handled, Age, SdkBegin, SdkComplete, SdkRepeat, SdkEnd, SdkHold, ReadInit,
                      ReadIdle, vars
<1> QED
  BY <1>1, <1>2, <1>3, <1>4, <1>5, <1>6, <1>7, <1>8, <1>9, <1>10, <1>12 DEF Next

\* No chat overtakes one that came before it and still waits: queue, ledger and
\* file stay in the order of arrival through every save, removal and restart.
THEOREM InOrderAlways == Spec => InOrder
<1>1. Init => AllInLine
  BY LineEmpty DEF Init, AllInLine
<1>2. InputInv /\ AllInLine /\ [Next]_vars
      => [\A u, v \in Chat : u < v /\ v \in sdkQueue' /\ v \notin sdkQueue => u \notin queue]_vars
  <2> SUFFICES ASSUME InputInv, AllInLine, [Next]_vars, NEW u \in Chat, NEW v \in Chat, u < v,
                      u \in queue, v \in sdkQueue', v \notin sdkQueue
               PROVE  FALSE
    OBVIOUS
  <2>1. \E w \in Inputs : Dispatch(w)
    <3> SUFFICES ASSUME \A w \in Inputs : ~Dispatch(w) PROVE sdkQueue' \subseteq sdkQueue
      OBVIOUS
    <3> QED
      BY DEF Next, vars, AcceptChat, Handled, Age, AcceptOther, AskCompact, SdkBegin, SdkComplete,
             SdkRepeat, RefusedInput, Hangup, SdkEnd, SdkHold, ReadInit, ReadStarted, ReadFinished,
             ReadIdle, Crash, StopCancel, Recover, AgainRefused, Again, Gone, sdk
  <2>2. v \in Inputs /\ Dispatch(v)
    BY <2>1 DEF Dispatch, Inputs
  <2>3. PICK i \in DOMAIN items : items[i] = v /\ IsNext(i)
    BY <2>2 DEF Dispatch
  <2>4. PICK j \in DOMAIN items : items[j] = u
    BY DEF queue, Elements
  <2>5. first \notin Chat
    BY InputsAssumption DEF InputInv, TypeOK, Inputs
  <2>6. Turns(0) \in Nat /\ LaneOf(u) = 0 /\ LaneOf(v) = 0
    BY DEF InputInv, TypeOK, Lanes, Turns, LaneOf
  <2>7. i <= j
    BY <2>3, <2>4, <2>5, <2>6 DEF IsNext
  <2>8. i \in Nat /\ j \in Nat /\ u \in Nat /\ v \in Nat
    BY InputsAssumption, LenProperties DEF Inputs, InputInv, TypeOK
  <2>9. i < j => v < u
    BY <2>3, <2>4 DEF AllInLine, InLine
  <2> QED  BY <2>3, <2>4, <2>7, <2>8, <2>9
<1> QED  BY <1>1, <1>2, LineStep, InputInvariant, PTL DEF Spec, InOrder

(***************************************************************************)
(* At most one input is on its way.                                        *)
(***************************************************************************)
\* What the SDK holds unconsumed, and what it has reported as started but the
\* run loop has not read, is the one input the iterator waits for; nothing
\* reported before its start names it.
Unread(s, i) == \A j \in DOMAIN s : j < i => s[i].ids \intersect s[j].ids = {}
Waits ==
    /\ \A u \in sdkQueue : awaiting = u /\ u \notin turn \union EventIds(events)
    /\ \A i \in DOMAIN events : events[i].type = "started" =>
          Unread(events, i) /\ \A u \in events[i].ids : awaiting = u

\* Where the entries of two joined sequences are.
LEMMA JoinAt ==
    ASSUME NEW s \in Seq(Event), NEW t \in Seq(Event), NEW i \in DOMAIN (s \o t)
    PROVE  /\ i \in Nat
           /\ i <= Len(s) => i \in DOMAIN s /\ (s \o t)[i] = s[i]
           /\ i > Len(s) => i - Len(s) \in DOMAIN t /\ (s \o t)[i] = t[i - Len(s)]
  OBVIOUS

\* Reports about what the SDK already consumed start nothing.
LEMMA WaitsAppend ==
    ASSUME InputInv, Waits, NEW t \in Seq(Event), events' = events \o t,
           \A i \in DOMAIN t : t[i].type # "started",
           sdkQueue' = sdkQueue, turn' \subseteq turn, awaiting' = awaiting,
           EventIds(t) \intersect sdkQueue = {}
    PROVE  Waits'
<1>1. events \in Seq(Event)
  BY DEF InputInv, TypeOK
<1>2. EventIds(events') \subseteq EventIds(events) \union EventIds(t)
  BY <1>1, ConcatIds
<1>3. ASSUME NEW i \in DOMAIN events', events'[i].type = "started"
      PROVE  Unread(events', i) /\ \A u \in events'[i].ids : awaiting = u
  <2>1. i \in DOMAIN events /\ events'[i] = events[i] /\ i <= Len(events)
    <3>1. CASE i <= Len(events)
      BY <3>1, <1>1, JoinAt
    <3>2. CASE ~(i <= Len(events))
      BY <3>2, <1>1, <1>3, JoinAt
    <3> QED  BY <3>1, <3>2
  <2>2. \A j \in DOMAIN events' : j < i => j \in DOMAIN events /\ events'[j] = events[j]
    BY <1>1, <2>1, JoinAt
  <2> QED  BY <1>3, <2>1, <2>2 DEF Waits, Unread
<1> QED  BY <1>2, <1>3 DEF Waits

\* Reading a message frees the iterator when it names the input it waits for.
LEMMA WaitsRead ==
    ASSUME InputInv, Waits, events # <<>>, events' = Tail(events),
           sdkQueue' = sdkQueue, turn' = turn, awaiting' = awaiting \/ Acknowledge
    PROVE  Waits'
<1>1. /\ 1 \in DOMAIN events /\ Head(events) = events[1] /\ Ids = events[1].ids
      /\ \A i \in DOMAIN Tail(events) :
            i \in Nat /\ i > 0 /\ i + 1 \in DOMAIN events /\ Tail(events)[i] = events[i + 1]
  BY DEF InputInv, TypeOK, Ids
<1>2. Ids \subseteq EventIds(events) /\ EventIds(Tail(events)) \subseteq EventIds(events)
  BY HeadIds DEF InputInv
<1>3. ASSUME NEW u \in sdkQueue PROVE awaiting' = u
  BY <1>2, <1>3 DEF Waits, Acknowledge
<1>4. ASSUME NEW i \in DOMAIN events', events'[i].type = "started"
      PROVE  Unread(events', i) /\ \A u \in events'[i].ids : awaiting' = u
  <2>1. i + 1 \in DOMAIN events /\ events'[i] = events[i + 1] /\ Unread(events, i + 1)
    BY <1>1, <1>4 DEF Waits
  <2>2. \A j \in DOMAIN events' : j < i => j + 1 < i + 1
    BY <1>1
  <2>3. Unread(events', i)
    BY <1>1, <2>1, <2>2 DEF Unread
  <2>4. 1 < i + 1
    BY <1>1, <1>4
  <2>5. ASSUME NEW u \in events'[i].ids PROVE awaiting = u /\ u \notin Ids
    BY <1>1, <1>4, <2>1, <2>4, <2>5 DEF Waits, Unread
  <2> QED  BY <2>3, <2>5 DEF Acknowledge
<1> QED  BY <1>2, <1>3, <1>4 DEF Waits

\* The SDK consumes the input: it is the one that was waited for.
LEMMA WaitsBegin ==
    ASSUME InputInv, Waits, NEW u \in Inputs, SdkBegin(u)
    PROVE  Waits'
<1>1. /\ events \in Seq(Event) /\ u \in sdkQueue /\ sdkQueue' = sdkQueue \ {u} /\ awaiting' = awaiting
      /\ awaiting = u /\ u \notin EventIds(events)
  BY DEF SdkBegin, memory, InputInv, TypeOK, Waits
<1>2. sdkQueue' = {}
  BY <1>1 DEF Waits
<1>3. \A i \in DOMAIN events : events[i].type = "started" => events[i].ids = {}
  BY <1>1 DEF Waits, EventIds
<1>4. PICK t \in Seq(Event) :
         /\ events' = events \o t
         /\ \A i \in DOMAIN t :
               /\ t[i].type = "started" => t[i].ids = {u}
               /\ \A j \in DOMAIN t : j < i => t[j].ids = {}
  <2> DEFINE ini == Ev("init", {})
             one == Ev("started", {u})
             done == Ev("completed", {u})
  <2>1. /\ ini \in Event /\ one \in Event /\ done \in Event /\ ini.ids = {} /\ ini.type = "init"
        /\ one.ids = {u} /\ done.type = "completed"
    BY EventType DEF Ev
  <2>2. \/ events' = Append(events, done)
        \/ events' = (IF turn = {} THEN Append(events, ini) ELSE events) \o <<one>>
    BY DEF SdkBegin
  <2> HIDE DEF ini, one, done
  <2>3. CASE events' = Append(events, done)
    <3> DEFINE t == <<done>>
    <3>1. events' = events \o t /\ t \in Seq(Event) /\ DOMAIN t = {1} /\ t[1] = done
      BY <1>1, <2>1, <2>3
    <3> HIDE DEF t
    <3>2. \A i \in DOMAIN t : /\ t[i].type = "started" => t[i].ids = {u}
                             /\ \A j \in DOMAIN t : j < i => t[j].ids = {}
      BY <3>1, <2>1
    <3> QED  BY <3>1, <3>2
  <2>4. CASE turn = {} /\ events' = Append(events, ini) \o <<one>>
    <3> DEFINE t == <<ini, one>>
    <3>1. events' = events \o t /\ t \in Seq(Event) /\ DOMAIN t = {1, 2} /\ t[1] = ini /\ t[2] = one
      BY <1>1, <2>1, <2>4
    <3> HIDE DEF t
    <3>2. \A i \in DOMAIN t : /\ t[i].type = "started" => t[i].ids = {u}
                             /\ \A j \in DOMAIN t : j < i => t[j].ids = {}
      BY <3>1, <2>1
    <3> QED  BY <3>1, <3>2
  <2>5. CASE events' = events \o <<one>>
    <3> DEFINE t == <<one>>
    <3>1. events' = events \o t /\ t \in Seq(Event) /\ DOMAIN t = {1} /\ t[1] = one
      BY <1>1, <2>1, <2>5
    <3> HIDE DEF t
    <3>2. \A i \in DOMAIN t : /\ t[i].type = "started" => t[i].ids = {u}
                             /\ \A j \in DOMAIN t : j < i => t[j].ids = {}
      BY <3>1, <2>1
    <3> QED  BY <3>1, <3>2
  <2> QED  BY <2>2, <2>3, <2>4, <2>5
<1>5. ASSUME NEW i \in DOMAIN events', events'[i].type = "started"
      PROVE  Unread(events', i) /\ \A w \in events'[i].ids : awaiting = w
  <2>1. CASE i <= Len(events)
    <3>1. events'[i].ids = {}
      BY <1>1, <1>3, <1>4, <1>5, <2>1, JoinAt
    <3> QED  BY <3>1 DEF Unread
  <2>2. CASE ~(i <= Len(events))
    <3>1. i \in Nat /\ i - Len(events) \in DOMAIN t /\ events'[i] = t[i - Len(events)]
          /\ events'[i].ids = {u}
      BY <1>1, <1>4, <1>5, <2>2, JoinAt
    <3>2. ASSUME NEW j \in DOMAIN events', j < i PROVE u \notin events'[j].ids
      <4>1. CASE j <= Len(events)
        <5>1. j \in DOMAIN events /\ events'[j] = events[j]
          BY <1>1, <1>4, <4>1, JoinAt
        <5> QED  BY <5>1, <1>1 DEF EventIds
      <4>2. CASE ~(j <= Len(events))
        <5>1. j \in Nat /\ j - Len(events) \in DOMAIN t /\ events'[j] = t[j - Len(events)]
          BY <1>1, <1>4, <4>2, JoinAt
        <5>2. j - Len(events) < i - Len(events)
          BY <1>1, <3>1, <3>2, <5>1
        <5> QED  BY <1>4, <3>1, <5>1, <5>2
      <4> QED  BY <4>1, <4>2
    <3> QED  BY <1>1, <3>1, <3>2 DEF Unread
  <2> QED  BY <2>1, <2>2
<1> QED  BY <1>1, <1>2, <1>5 DEF Waits

\* The iterator hands over an input only when it waits for none.
LEMMA WaitsDispatch ==
    ASSUME InputInv, Waits, NEW u \in Inputs, Dispatch(u)
    PROVE  Waits'
<1>1. /\ awaiting = None /\ None \notin Inputs /\ sdkQueue \subseteq Inputs /\ u \in queue
      /\ awaiting' = u /\ sdkQueue' = sdkQueue \union {u} /\ UNCHANGED <<turn, events>>
  BY InputsAssumption, TakenIs DEF Dispatch, Admitting, InputInv, TypeOK
<1>2. sdkQueue' = {u} /\ u \notin turn \union EventIds(events)
  BY <1>1 DEF Waits, InputInv, SdkApart
<1>3. \A i \in DOMAIN events : events[i].ids \subseteq Inputs
  <2>1. \A i \in DOMAIN events : events[i] \in Event
    BY DEF InputInv, TypeOK
  <2> QED  BY <2>1 DEF Event
<1> QED  BY <1>1, <1>2, <1>3 DEF Waits

LEMMA WaitsStep == InputInv /\ NotHeld /\ Waits /\ [Next]_vars => Waits'
<1> SUFFICES ASSUME InputInv, NotHeld, Waits, [Next]_vars PROVE Waits'
  OBVIOUS
<1>12. turn \intersect sdkQueue = {}
  BY DEF Waits
<1>0. \A type \in {"completed", "result"} : \A ids \in SUBSET turn : \A b \in BOOLEAN :
         LET t == <<Ev(type, ids)>> \o (IF b THEN <<Ev("idle", {})>> ELSE <<>>)
         IN  /\ t \in Seq(Event) /\ EventIds(t) \subseteq turn
             /\ \A i \in DOMAIN t : t[i].type # "started"
             /\ \A s \in Seq(Event) :
                   s \o <<Ev(type, ids)>> \o (IF b THEN <<Ev("idle", {})>> ELSE <<>>) = s \o t
  <2> SUFFICES ASSUME NEW type \in {"completed", "result"}, NEW ids \in SUBSET turn, NEW b \in BOOLEAN
               PROVE  LET t == <<Ev(type, ids)>> \o (IF b THEN <<Ev("idle", {})>> ELSE <<>>)
                      IN  /\ t \in Seq(Event) /\ EventIds(t) \subseteq turn
                          /\ \A i \in DOMAIN t : t[i].type # "started"
                          /\ \A s \in Seq(Event) :
                                s \o <<Ev(type, ids)>> \o (IF b THEN <<Ev("idle", {})>> ELSE <<>>) = s \o t
    OBVIOUS
  <2> DEFINE one == Ev(type, ids)
             idle == Ev("idle", {})
  <2>1. ids \in SUBSET Inputs
    BY DEF InputInv, TypeOK
  <2>2. /\ one \in Event /\ idle \in Event /\ one.ids = ids /\ idle.ids = {}
        /\ one.type # "started" /\ idle.type # "started"
    BY <2>1, EventType DEF Ev
  <2> HIDE DEF one, idle
  <2>3. CASE b
    <3> DEFINE t == <<one>> \o <<idle>>
    <3>1. t \in Seq(Event) /\ DOMAIN t = {1, 2} /\ t[1] = one /\ t[2] = idle
      BY <2>2
    <3>2. \A s \in Seq(Event) : s \o <<one>> \o <<idle>> = s \o t
      BY <2>2
    <3> HIDE DEF t
    <3>3. EventIds(t) \subseteq turn /\ \A i \in DOMAIN t : t[i].type # "started"
      BY <3>1, <2>2 DEF EventIds
    <3> QED  BY <2>3, <3>1, <3>2, <3>3 DEF t, one, idle
  <2>4. CASE ~b
    <3> DEFINE t == <<one>> \o <<>>
    <3>1. t \in Seq(Event) /\ DOMAIN t = {1} /\ t[1] = one
      BY <2>2
    <3>2. \A s \in Seq(Event) : s \o <<one>> \o <<>> = s \o t
      BY <2>2
    <3> HIDE DEF t
    <3>3. EventIds(t) \subseteq turn /\ \A i \in DOMAIN t : t[i].type # "started"
      BY <3>1, <2>2 DEF EventIds
    <3> QED  BY <2>4, <3>1, <3>2, <3>3 DEF t, one, idle
  <2> QED  BY <2>3, <2>4
<1>1. ASSUME NEW u \in Inputs, Dispatch(u) PROVE Waits'
  BY <1>1, WaitsDispatch
<1>2. ASSUME NEW u \in Inputs, SdkBegin(u) PROVE Waits'
  BY <1>2, WaitsBegin
<1>3. ASSUME NEW u \in Inputs, SdkComplete(u) PROVE Waits'
  <2> DEFINE b == turn = {u} /\ sdkQueue = {}
             t == <<Ev("completed", {u})>> \o (IF b THEN <<Ev("idle", {})>> ELSE <<>>)
  <2>1. {u} \in SUBSET turn /\ b \in BOOLEAN /\ events \in Seq(Event)
    BY <1>3 DEF SdkComplete, InputInv, TypeOK
  <2>2. /\ t \in Seq(Event) /\ EventIds(t) \subseteq turn
        /\ \A i \in DOMAIN t : t[i].type # "started"
        /\ events \o <<Ev("completed", {u})>> \o (IF b THEN <<Ev("idle", {})>> ELSE <<>>) = events \o t
    BY <1>0, <2>1
  <2>3. /\ events' = events \o <<Ev("completed", {u})>> \o (IF b THEN <<Ev("idle", {})>> ELSE <<>>)
        /\ turn' \subseteq turn /\ sdkQueue' = sdkQueue /\ awaiting' = awaiting
    BY <1>3 DEF SdkComplete, memory
  <2> HIDE DEF t, b
  <2> QED  BY <1>12, <2>2, <2>3, WaitsAppend
<1>4. CASE SdkEnd
  <2> DEFINE b == sdkQueue = {}
  <2>1. PICK ids \in SUBSET turn :
           events' = events \o <<Ev("result", ids)>> \o (IF b THEN <<Ev("idle", {})>> ELSE <<>>)
    BY <1>4 DEF SdkEnd
  <2> DEFINE t == <<Ev("result", ids)>> \o (IF b THEN <<Ev("idle", {})>> ELSE <<>>)
  <2>2. b \in BOOLEAN /\ events \in Seq(Event)
    BY DEF InputInv, TypeOK
  <2>3. /\ t \in Seq(Event) /\ EventIds(t) \subseteq turn
        /\ \A i \in DOMAIN t : t[i].type # "started"
        /\ events \o <<Ev("result", ids)>> \o (IF b THEN <<Ev("idle", {})>> ELSE <<>>) = events \o t
    BY <1>0, <2>2
  <2>4. turn' \subseteq turn /\ sdkQueue' = sdkQueue /\ awaiting' = awaiting
    BY <1>4 DEF SdkEnd, memory
  <2> HIDE DEF t, b
  <2> QED  BY <1>12, <2>1, <2>3, <2>4, WaitsAppend
<1>5. CASE ReadInit \/ ReadIdle
  BY <1>5, WaitsRead DEF ReadInit, ReadIdle, Reads, sdk
<1>6. ASSUME NEW type, ReadFinished(type) PROVE Waits'
  BY <1>6, WaitsRead DEF ReadFinished, Reads
<1>7. CASE ReadStarted
  <2>1. /\ events # <<>> /\ events' = Tail(events) /\ Acknowledge
        /\ sdkQueue' = sdkQueue /\ turn' = turn
    BY <1>7 DEF ReadStarted, Reads
  <2> QED  BY <2>1, WaitsRead
<1>8. ASSUME Gone PROVE Waits'
  <2>1. sdkQueue' = {} /\ events' = <<>> /\ DOMAIN events' = {}
    BY <1>8 DEF Gone
  <2> QED  BY <2>1 DEF Waits
<1>9. ASSUME UNCHANGED <<sdkQueue, turn, events, awaiting>> PROVE Waits'
  BY <1>9 DEF Waits, Unread, EventIds
<1>10. CASE Crash \/ StopCancel \/ AgainRefused \/ \E u \in Inputs : RefusedInput(u)
  BY <1>8, <1>10 DEF Crash, StopCancel, AgainRefused, RefusedInput
<1>11. CASE \/ \E u \in Chat : AcceptChat(u) \/ Handled(u) \/ Age(u)
            \/ \E u \in Call \union Note : AcceptOther(u)
            \/ \E u \in Note : AskCompact(u)
            \/ Hangup \/ SdkHold \/ Recover \/ \E s \in Sessions : Again(s)
            \/ UNCHANGED vars
  BY <1>9, <1>11 DEF AcceptChat, Handled, Age, AcceptOther, AskCompact, Hangup, SdkHold, Recover,
                     Again, vars, sdk, memory
<1>13. ASSUME NEW u \in Inputs, SdkRepeat(u) PROVE Waits'
  <2> DEFINE done == Ev("completed", {u})
             t == <<done>>
  <2>1. done \in Event /\ done.type = "completed" /\ t \in Seq(Event) /\ EventIds(t) = {u}
    BY EventType, SingleIds DEF Ev
  <2>2. events' = Append(events, done) /\ events \in Seq(Event)
    BY <1>13 DEF SdkRepeat, InputInv, TypeOK
  <2> HIDE DEF done
  <2>3. \A i \in DOMAIN t : t[i].type # "started"
    <3>1. DOMAIN t = {1} /\ t[1] = done
      OBVIOUS
    <3> QED  BY <2>1, <3>1
  <2>4. events' = events \o t
    BY <2>1, <2>2
  <2>5. turn' = turn /\ sdkQueue' = sdkQueue /\ awaiting' = awaiting /\ u \notin sdkQueue
    BY <1>13 DEF SdkRepeat, memory, NotHeld
  <2> HIDE DEF t
  <2> QED  BY <2>1, <2>3, <2>4, <2>5, WaitsAppend
<1> QED
  BY <1>1, <1>2, <1>3, <1>4, <1>5, <1>6, <1>7, <1>10, <1>11, <1>13 DEF Next

\* "The runner gives the SDK at most one not-yet-consumed input", until it has
\* itself seen the input start.
THEOREM OneUnconsumedAlways == Spec => []OneUnconsumed
<1>1. Init => Waits
  BY DEF Init, Waits
<1>2. Waits => OneUnconsumed
  <2> SUFFICES ASSUME Waits PROVE OneUnconsumed
    OBVIOUS
  <2> DEFINE begun == {j \in DOMAIN events : events[j].type = "started"}
             S == sdkQueue \union UNION {events[i].ids : i \in begun}
  <2>1. S \subseteq {awaiting}
    BY DEF Waits
  <2> HIDE DEF S
  <2>2. S = {} \/ S = {awaiting}
    BY <2>1
  <2>3. Cardinality(S) = 0 \/ Cardinality(S) = 1
    BY <2>2, FS_EmptySet, FS_Singleton
  <2>4. Cardinality(S) <= 1
    BY <2>3
  <2> QED  BY <2>4 DEF OneUnconsumed, S
<1> QED  BY <1>1, <1>2, WaitsStep, InputInvariant, PTL DEF Spec

(***************************************************************************)
(* The SDK never drops a chat as a duplicate.                              *)
(***************************************************************************)
\* No chat handed over is in the conversation already, so none is answered by
\* being dropped: recovery looks for it in the very transcript that is resumed.
THEOREM NeverDeduplicatedAlways == Spec => []NeverDeduplicated
<1>1. InputInv /\ NotHeld => NeverDeduplicated
  <2> SUFFICES ASSUME InputInv, NotHeld, NEW u \in sdkQueue, u \in Chat PROVE u \notin transcript[session]
    BY DEF NeverDeduplicated
  <2>1. phase = "up"
    BY DEF InputInv, MemoryGone
  <2> QED  BY <2>1 DEF NotHeld
<1> QED  BY <1>1, InputInvariant, PTL

(***************************************************************************)
(* The runner keeps the promise of Mailbox.                                *)
(***************************************************************************)
\* Whoever speaks of a chat has it: the turn and the SDK's messages tell of what
\* the conversation holds, what the SDK or the file has is in the ledger, and a
\* chat counts as started only once the agent got it.
Traced ==
    /\ phase = "up" =>
          /\ turn \union EventIds(events) \subseteq transcript[session]
          /\ \A u \in Chat : saved[u] # "absent" => ledger[u] # "absent"
          /\ (sdkQueue \intersect Chat) \union dispatched \subseteq InLedger(ledger)
    /\ phase # "up" => dispatched = {}
    /\ \A u \in Chat : ledger[u] = "started" \/ saved[u] = "started" => u \in Given

MailInv == InputInv /\ Waits /\ NotHeld /\ Traced

\* A step that leaves every chat where it is.
LEMMA MailStays ==
    ASSUME \A u \in Chat : BoxOf(u)' = BoxOf(u), Given' = Given, consumed' = consumed,
           old \subseteq old'
    PROVE  M!Next
  BY DEF M!Next, M!Stay, M!Move

\* Inputs on their way, and time: nothing is said of any chat.
LEMMA TracedQuiet ==
    ASSUME MailInv, UNCHANGED <<phase, ledger, saved, interrupted, fate, consumed, session, transcript>>,
           old \subseteq old', dispatched' = dispatched, sdkQueue' = sdkQueue, turn' \subseteq turn,
           phase = "up" => EventIds(events') \subseteq EventIds(events) \union turn \union transcript[session]
    PROVE  Traced' /\ M!Next
<1>1. Given' = Given
  BY DEF Given
<1>2. Traced'
  BY <1>1 DEF MailInv, Traced, InLedger
<1>3. \A u \in Chat : BoxOf(u)' = BoxOf(u)
  BY DEF BoxOf, Kept
<1> QED  BY <1>1, <1>2, <1>3, MailStays

\* The iterator hands over what is in the queue, and so in the ledger.
LEMMA TracedDispatch ==
    ASSUME MailInv, NEW u \in Inputs, Dispatch(u)
    PROVE  Traced' /\ M!Next
<1>1. /\ phase = "up" /\ u \in queue /\ sdkQueue' = sdkQueue \union {u}
      /\ dispatched' = IF u \in InLedger(ledger) THEN dispatched \union {u} ELSE dispatched
      /\ UNCHANGED <<phase, ledger, saved, interrupted, fate, consumed, old>>
      /\ UNCHANGED <<session, transcript, turn, events>>
  BY TakenIs DEF Dispatch, file, history, MailInv, InputInv
<1>2. u \in Chat => u \in InLedger(ledger)
  BY <1>1 DEF MailInv, InputInv, OneHome, InLedger
<1>3. Given' = Given /\ InLedger(ledger)' = InLedger(ledger)
  BY <1>1 DEF Given, InLedger
<1>4. Traced'
  BY <1>1, <1>2, <1>3 DEF MailInv, Traced
<1>5. \A v \in Chat : BoxOf(v)' = BoxOf(v)
  BY <1>1 DEF BoxOf, Kept
<1> QED  BY <1>1, <1>3, <1>4, <1>5, MailStays

\* A new chat.
LEMMA TracedAccept ==
    ASSUME MailInv, NEW u \in Chat, AcceptChat(u)
    PROVE  Traced' /\ M!Next
<1>1. /\ phase = "up" /\ phase' = phase /\ u \notin arrived
      /\ UNCHANGED <<dispatched, interrupted, consumed, old, session, transcript>>
      /\ UNCHANGED <<sdkQueue, turn, events>>
  BY DEF AcceptChat, Arrives, sdk
<1>2. \A v \in Chat : /\ ledger'[v] = IF v = u THEN "queued" ELSE ledger[v]
                      /\ fate'[v] = IF v = u THEN "open" ELSE fate[v]
                      /\ saved'[v] = IF ledger'[v] = "queued" /\ v \in old THEN "absent" ELSE ledger'[v]
  BY DEF AcceptChat, Saves, Unanswered, MailInv, InputInv, TypeOK
<1>3. fate[u] = "new" /\ u \notin interrupted
  BY <1>1 DEF MailInv, InputInv, OneHome
<1>4. Given' = Given /\ InLedger(ledger) \subseteq InLedger(ledger)'
  BY <1>1, <1>2 DEF Given, InLedger
<1>5. Traced'
  BY <1>1, <1>2, <1>4 DEF MailInv, Traced
<1>6. BoxOf(u) = "new" /\ BoxOf(u)' = "open"
  BY <1>1, <1>2, <1>3 DEF BoxOf, Kept
<1>7. \A v \in Chat \ {u} : BoxOf(v)' = BoxOf(v)
  BY <1>1, <1>2 DEF BoxOf, Kept
<1>8. M!Next
  BY <1>1, <1>4, <1>6, <1>7 DEF M!Next, M!Stay, M!Accept, M!Move
<1> QED  BY <1>5, <1>8

\* The SDK takes a chat to its conversation.
LEMMA TracedBegin ==
    ASSUME MailInv, NEW u \in Inputs, SdkBegin(u)
    PROVE  Traced' /\ M!Next
<1>1. /\ phase = "up" /\ u \in sdkQueue /\ sdkQueue' = sdkQueue \ {u}
      /\ UNCHANGED <<phase, ledger, saved, dispatched, interrupted, fate, consumed, old, session>>
  BY DEF SdkBegin, memory, file, history
<1>2. /\ session \in Sessions /\ transcript \in [Sessions -> SUBSET Inputs]
      /\ transcript'[session] = transcript[session] \union {u} /\ turn' \subseteq turn \union {u}
      /\ \A s \in Sessions \ {session} : transcript'[s] = transcript[s]
  BY <1>1 DEF SdkBegin, MailInv, NotHeld, InputInv, TypeOK
<1>3. EventIds(events') \subseteq EventIds(events) \union {u}
  BY BeginIds DEF MailInv, InputInv
<1>4. \A v \in Chat : v \in Given' <=> v \in Given \/ v = u
  BY <1>1, <1>2 DEF Given
<1>5. InLedger(ledger)' = InLedger(ledger)
  BY <1>1 DEF InLedger
<1>6. Traced'
  BY <1>1, <1>2, <1>3, <1>4, <1>5 DEF MailInv, Traced
<1>7. \A v \in Chat : BoxOf(v)' = BoxOf(v)
  BY <1>1 DEF BoxOf, Kept
<1>8. u \in Chat => BoxOf(u) = "open"
  BY <1>1 DEF BoxOf, Kept, MailInv, Traced, InputInv, OneHome, InLedger
<1>9. M!Next
  BY <1>1, <1>4, <1>7, <1>8 DEF M!Next, M!Stay, M!Give, M!Move
<1> QED  BY <1>6, <1>9

\* The runner sees that a chat was begun, which the conversation holds.
LEMMA TracedStarted ==
    ASSUME MailInv, ReadStarted
    PROVE  Traced' /\ M!Next
<1> DEFINE now == {u \in Ids \intersect Chat : ledger[u] = "queued"}
<1>1. /\ phase = "up" /\ phase' = phase /\ events # <<>> /\ events' = Tail(events)
      /\ UNCHANGED <<dispatched, interrupted, fate, old, session, transcript, sdkQueue, turn>>
      /\ consumed' = consumed \union now
      /\ saved' = IF now # {} THEN Unanswered(ledger') ELSE saved
      /\ ledger' = [u \in Chat |-> IF u \in now THEN "started" ELSE ledger[u]]
  BY DEF ReadStarted, Reads, Saves
<1>2. /\ Ids \subseteq EventIds(events) /\ EventIds(events') \subseteq EventIds(events)
      /\ session \in Sessions
  BY <1>1, HeadIds DEF MailInv, InputInv, NotHeld
<1>3. \A u \in now : u \in Chat /\ u \in Given /\ ledger[u] = "queued"
  BY <1>1, <1>2 DEF MailInv, Traced, Given
<1>4. \A u \in Chat :
         /\ ledger'[u] = IF u \in now THEN "started" ELSE ledger[u]
         /\ saved'[u] = IF now = {} THEN saved[u]
                        ELSE IF ledger'[u] = "queued" /\ u \in old THEN "absent" ELSE ledger'[u]
  BY <1>1 DEF Unanswered
<1> HIDE DEF now
<1>5. Given' = Given
  BY <1>1 DEF Given
<1>6. InLedger(ledger)' = InLedger(ledger)
  BY <1>3, <1>4 DEF InLedger
<1>7. Traced'
  BY <1>1, <1>2, <1>3, <1>4, <1>5, <1>6 DEF MailInv, Traced
<1>8. \A u \in now : u \notin interrupted /\ fate[u] = "open"
  BY <1>3 DEF MailInv, InputInv, OneHome
<1>9. \A u \in now : BoxOf(u) = "open" /\ BoxOf(u)' = "open"
  BY <1>1, <1>3, <1>4, <1>8 DEF BoxOf, Kept
<1>10. \A u \in Chat : u \notin now => BoxOf(u)' = BoxOf(u)
  BY <1>1, <1>4 DEF BoxOf, Kept
<1>11. M!Next
  BY <1>1, <1>3, <1>5, <1>9, <1>10 DEF M!Next, M!Stay, M!Begin, M!Move
<1> QED  BY <1>7, <1>11

\* A turn's result or a completed command answers chats the agent got.
LEMMA TracedFinished ==
    ASSUME MailInv, NEW type, ReadFinished(type)
    PROVE  Traced' /\ M!Next
<1> DEFINE now == Ids \intersect InLedger(ledger)
<1>1. /\ phase = "up" /\ phase' = phase /\ events # <<>> /\ events' = Tail(events)
      /\ UNCHANGED <<interrupted, consumed, old, session, transcript, sdkQueue, turn>>
      /\ dispatched' = dispatched \ Ids
      /\ saved' = IF now # {} THEN Unanswered(ledger') ELSE saved
      /\ ledger' = [u \in Chat |-> IF u \in now THEN "absent" ELSE ledger[u]]
      /\ fate' = [u \in Chat |-> IF u \in now THEN "finished" ELSE fate[u]]
  BY DEF ReadFinished, Reads, Saves
<1>2. /\ Ids \subseteq EventIds(events) /\ EventIds(events') \subseteq EventIds(events)
      /\ session \in Sessions
  BY <1>1, HeadIds DEF MailInv, InputInv, NotHeld
<1>3. \A u \in now : u \in Chat /\ u \in Ids /\ u \in Given /\ ledger[u] # "absent"
  BY <1>1, <1>2 DEF MailInv, Traced, Given, InLedger
<1>4. \A u \in Chat :
         /\ ledger'[u] = IF u \in now THEN "absent" ELSE ledger[u]
         /\ fate'[u] = IF u \in now THEN "finished" ELSE fate[u]
         /\ saved'[u] = IF now = {} THEN saved[u]
                        ELSE IF ledger'[u] = "queued" /\ u \in old THEN "absent" ELSE ledger'[u]
  BY <1>1 DEF Unanswered
<1>5. \A u \in sdkQueue : u \notin Ids
  BY <1>2 DEF MailInv, Waits
<1>6. Given' = Given
  BY <1>1 DEF Given
<1>7. \A u \in Chat : u \in InLedger(ledger)' <=> u \in InLedger(ledger) /\ u \notin Ids
  BY <1>4 DEF InLedger
<1> HIDE DEF now
<1>8. Traced'
  <2>1. (sdkQueue \intersect Chat) \union dispatched' \subseteq InLedger(ledger)'
    BY <1>1, <1>5, <1>7 DEF MailInv, Traced, InLedger
  <2> QED  BY <1>1, <1>2, <1>4, <1>6, <2>1 DEF MailInv, Traced
<1>9. \A u \in now : u \notin interrupted /\ fate[u] = "open"
  BY <1>3 DEF MailInv, InputInv, OneHome
<1>10. \A u \in now : BoxOf(u) = "open" /\ BoxOf(u)' = "finished"
  BY <1>1, <1>3, <1>4, <1>9 DEF BoxOf, Kept
<1>11. \A u \in Chat : u \notin now => BoxOf(u)' = BoxOf(u)
  BY <1>1, <1>4 DEF BoxOf, Kept
<1>12. M!Next
  BY <1>1, <1>3, <1>6, <1>10, <1>11 DEF M!Next, M!Stay, M!Answer, M!Move
<1> QED  BY <1>8, <1>12

\* The agent has dealt with an interruption.
LEMMA TracedHandled ==
    ASSUME MailInv, NEW u \in Chat, Handled(u)
    PROVE  Traced' /\ M!Next
<1>1. /\ u \in interrupted /\ interrupted' = interrupted \ {u}
      /\ UNCHANGED <<phase, ledger, saved, dispatched, consumed, old, session, transcript>>
      /\ UNCHANGED <<sdkQueue, turn, events>>
  BY DEF Handled, memory, sdk
<1>2. \A v \in Chat : fate'[v] = IF v = u THEN "handled" ELSE fate[v]
  BY DEF Handled, MailInv, InputInv, TypeOK
<1>3. Given' = Given
  BY <1>1 DEF Given
<1>4. Traced'
  BY <1>1, <1>3 DEF MailInv, Traced, InLedger
<1>5. BoxOf(u) = "interrupted" /\ BoxOf(u)' = "handled"
  BY <1>1, <1>2 DEF BoxOf
<1>6. \A v \in Chat \ {u} : BoxOf(v)' = BoxOf(v)
  BY <1>1, <1>2 DEF BoxOf, Kept
<1>7. M!Next
  BY <1>1, <1>3, <1>5, <1>6 DEF M!Next, M!Stay, M!Handle, M!Move
<1> QED  BY <1>4, <1>7

\* The process goes down: what the file does not hold was given up.
LEMMA TracedDown ==
    ASSUME MailInv, Gone, UNCHANGED <<file, fate>>, phase' = "down", phase \in {"up", "recovered"}
    PROVE  Traced' /\ M!Next
<1>1. /\ UNCHANGED <<saved, interrupted, fate, transcript, consumed, old>>
      /\ ledger' = NoLedger /\ dispatched' = {}
  BY DEF Gone, file
<1>2. Given' = Given
  BY <1>1 DEF Given
<1>3. Traced'
  BY <1>1, <1>2 DEF MailInv, Traced, NoLedger
<1>4. CASE phase = "recovered"
  <2>1. \A u \in Chat : BoxOf(u)' = BoxOf(u)
    BY <1>1, <1>4 DEF BoxOf, Kept
  <2> QED  BY <1>1, <1>2, <1>3, <2>1, MailStays
<1>5. CASE phase = "up"
  <2>1. ASSUME NEW u \in Chat, BoxOf(u)' # BoxOf(u)
        PROVE  u \in old /\ u \notin consumed /\ BoxOf(u) = "open" /\ BoxOf(u)' = "expired"
    <3>1. u \notin interrupted /\ fate[u] = "open"
      BY <1>1, <2>1 DEF BoxOf
    <3>2. ledger[u] # "absent" /\ saved[u] = "absent"
      BY <1>1, <1>5, <2>1, <3>1 DEF BoxOf, Kept, MailInv, Traced
    <3>3. ledger[u] = "queued" /\ u \in old
      BY <1>5, <3>2 DEF MailInv, InputInv, FileMatches, TypeOK, LedgerState
    <3>4. u \notin consumed
      BY <1>5, <3>1, <3>3 DEF MailInv, InputInv, OpenKept, Kept
    <3> QED  BY <1>1, <1>5, <3>1, <3>2, <3>3, <3>4 DEF BoxOf, Kept
  <2>2. M!Next
    BY <1>1, <1>2, <2>1 DEF M!Next, M!Stay, M!Expire, M!Move
  <2> QED  BY <1>3, <2>2
<1> QED  BY <1>4, <1>5

\* The user's Stop cancels what the SDK has and what was interrupted.
LEMMA TracedStop ==
    ASSUME MailInv, StopCancel
    PROVE  Traced' /\ M!Next
<1> DEFINE gone == interrupted \union Active \union {u \in Chat : saved[u] = "started"}
<1>1. /\ phase = "up" /\ phase' = "stopped" /\ interrupted' = {}
      /\ UNCHANGED <<transcript, consumed, old>> /\ ledger' = NoLedger /\ dispatched' = {}
      /\ \A u \in Chat : /\ saved'[u] = IF u \in gone THEN "absent" ELSE saved[u]
                         /\ fate'[u] = IF u \in gone THEN "cancelled" ELSE fate[u]
  BY DEF StopCancel, Gone
<1>2. Given' = Given
  BY <1>1 DEF Given
<1>3. Traced'
  BY <1>1, <1>2 DEF MailInv, Traced, NoLedger
<1>4. ASSUME NEW u \in Chat, u \in gone
      PROVE  BoxOf(u) \in {"open", "interrupted"} /\ BoxOf(u)' = "cancelled"
  <2>1. u \in interrupted \/ ledger[u] # "absent"
    BY <1>1, <1>4 DEF Active, MailInv, Traced, InLedger
  <2>2. u \notin interrupted => fate[u] = "open"
    BY <2>1 DEF MailInv, InputInv, OneHome
  <2> QED  BY <1>1, <1>4, <2>1, <2>2 DEF BoxOf, Kept
<1>5. ASSUME NEW u \in Chat, u \notin gone, BoxOf(u)' # BoxOf(u)
      PROVE  u \in old /\ u \notin consumed /\ BoxOf(u) = "open" /\ BoxOf(u)' = "expired"
  <2>1. u \notin interrupted /\ fate[u] = "open" /\ fate'[u] = "open" /\ saved'[u] = saved[u]
    BY <1>1, <1>5 DEF BoxOf
  <2>2. ledger[u] # "absent" /\ saved[u] = "absent"
    BY <1>1, <1>5, <2>1 DEF BoxOf, Kept, MailInv, Traced
  <2>3. ledger[u] = "queued" /\ u \in old
    BY <1>1, <2>2 DEF MailInv, InputInv, FileMatches, TypeOK, LedgerState
  <2>4. u \notin consumed
    BY <1>1, <2>1, <2>3 DEF MailInv, InputInv, OpenKept, Kept
  <2> QED  BY <1>1, <2>1, <2>2, <2>3, <2>4 DEF BoxOf, Kept
<1> HIDE DEF gone
<1>6. M!Next
  BY <1>1, <1>2, <1>4, <1>5 DEF M!Next, M!Stay, M!Cancel, M!Expire, M!Move
<1> QED  BY <1>3, <1>6

\* Recovery calls interrupted what was started or is in the transcript, and the
\* agent got both.
LEMMA TracedRecover ==
    ASSUME MailInv, Recover
    PROVE  Traced' /\ M!Next
<1> DEFINE now == {u \in Chat : saved[u] = "started" \/ (saved[u] = "queued" /\ u \in Seen)}
<1>1. /\ phase \in {"down", "stopped"} /\ phase' = "recovered" /\ interrupted' = interrupted \union now
      /\ \A u \in Chat : saved'[u] = IF u \in now THEN "absent" ELSE saved[u]
      /\ UNCHANGED <<ledger, dispatched, fate, consumed, old, transcript>>
      /\ UNCHANGED <<sdkQueue, turn, events>>
  BY DEF Recover, memory, sdk, history
<1>2. \A u \in Seen : savedSession \in Sessions /\ u \in transcript[savedSession]
  BY DEF Seen, MailInv, InputInv, TypeOK
<1>3. \A u \in now : u \in Chat /\ u \in Given /\ saved[u] # "absent"
  BY <1>2 DEF Given, MailInv, Traced
<1>4. \A u \in now : u \notin interrupted /\ fate[u] = "open"
  BY <1>3 DEF MailInv, InputInv, OneHome
<1> HIDE DEF now
<1>5. Given' = Given
  BY <1>1 DEF Given
<1>6. Traced'
  BY <1>1, <1>5 DEF MailInv, Traced
<1>7. \A u \in now : BoxOf(u) = "open" /\ BoxOf(u)' = "interrupted"
  BY <1>1, <1>3, <1>4 DEF BoxOf, Kept
<1>8. \A u \in Chat : u \notin now => BoxOf(u)' = BoxOf(u)
  BY <1>1 DEF BoxOf, Kept
<1>9. M!Next
  BY <1>1, <1>3, <1>5, <1>7, <1>8 DEF M!Next, M!Stay, M!Interrupt, M!Move
<1> QED  BY <1>6, <1>9

\* The saved chats go in again: the ledger is the file.
LEMMA TracedAgain ==
    ASSUME MailInv, NEW s \in Sessions, Again(s)
    PROVE  Traced' /\ M!Next
<1>1. /\ phase = "recovered" /\ phase' = "up" /\ ledger' = saved
      /\ \A u \in Chat : saved'[u] = IF saved[u] = "queued" /\ u \in old THEN "absent" ELSE saved[u]
      /\ UNCHANGED <<dispatched, interrupted, fate, consumed, old, transcript>>
      /\ UNCHANGED <<sdkQueue, turn, events>>
  BY DEF Again, history, Saves, Unanswered
<1>2. sdkQueue = {} /\ turn = {} /\ EventIds(events) = {} /\ dispatched = {}
  BY <1>1, NoIds DEF MailInv, InputInv, MemoryGone, Traced
<1>3. Given' = Given /\ EventIds(events)' = EventIds(events)
  BY <1>1 DEF Given
<1>4. Traced'
  BY <1>1, <1>2, <1>3 DEF MailInv, Traced
<1>5. \A u \in Chat : BoxOf(u)' = BoxOf(u)
  BY <1>1 DEF BoxOf, Kept
<1> QED  BY <1>1, <1>3, <1>4, <1>5, MailStays

LEMMA MailStep ==
    ASSUME MailInv, Next PROVE MailInv' /\ M!Next
<1>1. TypeOK /\ InputInv' /\ Waits' /\ NotHeld'
  BY InvStep, WaitsStep, NotHeldStep DEF MailInv, InputInv
<1>2. SUFFICES Traced' /\ M!Next
  BY <1>1 DEF MailInv
<1> USE DEF memory, file, sdk, history
<1>3. ASSUME NEW u \in Chat, AcceptChat(u) \/ Handled(u) PROVE Traced' /\ M!Next
  BY <1>3, TracedAccept, TracedHandled
<1>4. ASSUME NEW u \in Chat, Age(u) PROVE Traced' /\ M!Next
  BY <1>4, TracedQuiet DEF Age
<1>5. ASSUME NEW u \in Call \union Note, AcceptOther(u) PROVE Traced' /\ M!Next
  BY <1>5, TracedQuiet DEF AcceptOther
<1>6. ASSUME NEW u \in Note, AskCompact(u) PROVE Traced' /\ M!Next
  BY <1>6, TracedQuiet DEF AskCompact
<1>7. ASSUME NEW u \in Inputs, Dispatch(u) PROVE Traced' /\ M!Next
  BY <1>7, TracedDispatch
<1>8. ASSUME NEW u \in Inputs, SdkBegin(u) PROVE Traced' /\ M!Next
  BY <1>8, TracedBegin
<1>9. ASSUME NEW u \in Inputs, SdkComplete(u) PROVE Traced' /\ M!Next
  <2>1. EventIds(events') \subseteq EventIds(events) \union {u}
    BY <1>1, <1>9, AppendedIds DEF SdkComplete
  <2> QED  BY <1>9, <2>1, TracedQuiet DEF SdkComplete
<1>10. CASE SdkEnd
  <2>1. PICK ids \in {turn} \union (IF Uncorrelated THEN {{}} ELSE {}) :
           events' = events \o <<Ev("result", ids)>>
                     \o (IF sdkQueue = {} THEN <<Ev("idle", {})>> ELSE <<>>)
    BY <1>10 DEF SdkEnd
  <2>2. ids \subseteq turn /\ ids \in SUBSET Inputs
    BY <1>1 DEF TypeOK
  <2>3. EventIds(events') \subseteq EventIds(events) \union ids
    BY <1>1, <2>1, <2>2, AppendedIds
  <2> QED  BY <1>10, <2>2, <2>3, TracedQuiet DEF SdkEnd
<1>11. CASE Hangup \/ SdkHold
  BY <1>1, <1>11, HangupIs, TracedQuiet DEF SdkHold
<1>12. CASE ReadInit \/ ReadIdle
  BY <1>1, <1>12, HeadIds, TracedQuiet DEF ReadInit, ReadIdle, Reads
<1>13. CASE ReadStarted
  BY <1>13, TracedStarted
<1>14. ASSUME NEW type, ReadFinished(type) PROVE Traced' /\ M!Next
  BY <1>14, TracedFinished
<1>15. CASE Crash \/ AgainRefused \/ \E u \in Inputs : RefusedInput(u)
  BY <1>15, TracedDown DEF Crash, AgainRefused, RefusedInput
<1>16. CASE StopCancel
  BY <1>16, TracedStop
<1>17. CASE Recover
  BY <1>17, TracedRecover
<1>18. ASSUME NEW s \in Sessions, Again(s) PROVE Traced' /\ M!Next
  BY <1>18, TracedAgain
<1>19. ASSUME NEW u \in Inputs, SdkRepeat(u) PROVE Traced' /\ M!Next
  <2>1. EventIds(events') \subseteq EventIds(events) \union {u}
    BY <1>1, <1>19, RepeatIds
  <2> QED  BY <1>19, <2>1, TracedQuiet DEF SdkRepeat
<1> QED
  BY <1>3, <1>4, <1>5, <1>6, <1>7, <1>8, <1>9, <1>10, <1>11, <1>12, <1>13, <1>14, <1>15, <1>16,
     <1>17, <1>18, <1>19 DEF Next

LEMMA MailStutter ==
    ASSUME MailInv, UNCHANGED vars PROVE MailInv' /\ UNCHANGED M!mailbox
<1>1. /\ UNCHANGED <<phase, ledger, saved, interrupted, fate, consumed, old, session, transcript>>
      /\ UNCHANGED <<dispatched, sdkQueue, turn, events>>
  BY DEF vars, memory, file, sdk, history
<1>2. InputInv' /\ Waits' /\ NotHeld'
  BY InvStep, WaitsStep, NotHeldStep DEF MailInv
<1>3. Given' = Given /\ \A u \in Chat : BoxOf(u)' = BoxOf(u)
  BY <1>1 DEF Given, BoxOf, Kept
<1>4. Traced'
  BY <1>1, <1>3 DEF MailInv, Traced, InLedger
<1>5. UNCHANGED M!mailbox
  BY <1>1, <1>3 DEF M!mailbox
<1> QED  BY <1>2, <1>4, <1>5 DEF MailInv

\* Every step of the runner is a step of Mailbox, for any number of chats, crashes,
\* refusals and restarts: no chat is answered before the agent got it, none is
\* called interrupted that it never got, and each comes to at most one end.
THEOREM ImplementsMailbox == Spec => KeepsMail
<1>1. ASSUME Init PROVE MailInv /\ M!Init
  <2>1. InputInv /\ NotHeld
    BY <1>1, InitInv
  <2>2. Waits
    BY <1>1 DEF Init, Waits
  <2>3. Given = {} /\ \A u \in Chat : BoxOf(u) = "new"
    BY <1>1 DEF Init, Given, BoxOf
  <2>4. Traced
    BY <1>1 DEF Init, Traced, NoLedger
  <2>5. M!Init
    BY <1>1, <2>3 DEF Init, M!Init
  <2> QED  BY <2>1, <2>2, <2>4, <2>5 DEF MailInv
<1>2. MailInv /\ [Next]_vars => MailInv' /\ [M!Next]_M!mailbox
  BY MailStep, MailStutter
<1> QED  BY <1>1, <1>2, PTL DEF Spec, KeepsMail, M!Spec
=============================================================================
