----------------------- MODULE TaskRecoveryRefinement -----------------------

(***************************************************************************)
(* Every step of TaskRecovery is a step of Duties or changes none of its   *)
(* variables, for any tasks, limits and crashes, as long as a new notice   *)
(* finds a token that nothing refers to (in the code 128 random bits); in  *)
(* a set of tokens without end it always does.                             *)
(***************************************************************************)
EXTENDS TaskRecoveryProofs

(***************************************************************************)
(* The invariant: what deliveries, queue, conversation and results have to *)
(* do with the notices.                                                    *)
(***************************************************************************)
TokensSuffice == \A t \in Tasks : \E k \in Tokens : <<t, k>> \notin InUse

OfferOf(t) == rows[t].notice.offered
InResults(u) == \E i \in DOMAIN results : u \in results[i].inputs
AtSdk(u) == u \in turn \/ u \in commands \/ InResults(u)
Silent(u) == \A k \in Token : u \notin acknowledged[k]
Incomplete(u) == deliveries[u] # None /\ ~deliveries[u].completed

\* A token names its task.
Named == \A t \in Tasks : Owed(rows, t) => \E k \in Tokens : TokenOf(rows, t) = <<t, k>>

\* What the agent saw was counted, or the reminder that is out is in the
\* conversation and will be.
Told ==
    \A t \in Tasks :
        IF Owed(rows, t)
        THEN shown[t] = rows[t].notice.told + (IF OfferOf(t) \in transcript THEN 1 ELSE 0)
        ELSE shown[t] = 0

\* A reminder that is on offer is not known to be consumed; it is out, or
\* nothing but the conversation knows it.
Offers ==
    \A t \in Tasks : Owed(rows, t) /\ OfferOf(t) # None =>
        LET u == OfferOf(t) IN
        /\ u \in turn => u \in unseen
        /\ ~InResults(u)
        /\ u \in commands => u \in transcript
        /\ deliveries[u] # None => Incomplete(u) /\ TokenOf(rows, t) \in deliveries[u].tokens
        /\ deliveries[u] = None => ~AtSdk(u) /\ Silent(u) /\ \A q \in queued : q.uuid # u

\* A notice is out under one reminder.
Blocks ==
    \A t \in Tasks, u \in Reminders :
        Owed(rows, t) /\ Incomplete(u) /\ TokenOf(rows, t) \in deliveries[u].tokens
            => OfferOf(t) \in {None, u}

\* A queued reminder has not reached the SDK.
Waiting ==
    \A q \in queued :
        /\ Incomplete(q.uuid) /\ deliveries[q.uuid].tokens = q.tokens
        /\ ~AtSdk(q.uuid) /\ Silent(q.uuid)
        /\ \A t \in Tasks : Owed(rows, t) /\ TokenOf(rows, t) \in q.tokens => OfferOf(t) = q.uuid

\* At most one consumed reminder is unseen; a message without ids counts for
\* inputs of its own turn.
Announced ==
    /\ unseen \subseteq turn /\ unseen \subseteq transcript
    /\ \A u, v \in unseen : u = v
    /\ reply # None /\ turn \ unseen # {} => reply \subseteq turn

\* An input belongs to one turn.
Apart ==
    /\ \A i \in DOMAIN results : turn \intersect results[i].inputs = {}
    /\ \A i, j \in DOMAIN results : i # j => results[i].inputs \intersect results[j].inputs = {}

\* An input acknowledges only what was written in its turn.
Marked ==
    \A k \in Token : \A u \in acknowledged[k] :
        /\ u \in turn => k \in marks
        /\ \A i \in DOMAIN results : u \in results[i].inputs => k \in results[i].marks

\* The agent writes only markers it has seen.
MarkedSeen(k) == k \in marks \/ \E i \in DOMAIN results : k \in results[i].marks
SeenFirst == \A t \in Tasks : Owed(rows, t) /\ MarkedSeen(TokenOf(rows, t)) => shown[t] > 0

Linked == Named /\ Told /\ Offers /\ Blocks /\ Waiting /\ Announced /\ Apart /\ Marked /\ SeenFirst
DutyInv == RowsInv /\ Linked

(***************************************************************************)
(* A step, duty by duty.                                                   *)
(***************************************************************************)
Full(R) == Cardinality(TasksOf(R)) >= TaskLimit

LEMMA DutyStep ==
    ASSUME \A d \in Tasks :
              \/ Owed(rows', d) /\ shown'[d] = 0 /\ ~Agreed(d)'
              \/ /\ Owed(rows, d) /\ shown[d] < NoticeDeliveries
                 /\ Owed(rows', d) /\ shown'[d] = shown[d] + 1 /\ (Agreed(d)' <=> Agreed(d))
              \/ /\ (Owed(rows', d) <=> Owed(rows, d)) /\ shown'[d] = shown[d]
                 /\ Agreed(d)' => Owed(rows, d) /\ shown[d] > 0
              \/ /\ Owed(rows, d) /\ ~Owed(rows', d) /\ shown'[d] = 0 /\ ~Agreed(d)'
                 /\ Agreed(d) \/ (Full(rows') /\ shown[d] = NoticeDeliveries)
    PROVE  D!Next
<1> SUFFICES ASSUME NEW d \in Tasks
             PROVE  D!Incur(d) \/ D!Tell(d) \/ D!Agree(d) \/ D!Forget(d) \/ D!Settle(d) \/ D!GiveWay(d)
  BY DEF D!Next
<1>1. CASE Owed(rows', d) /\ shown'[d] = 0 /\ ~Agreed(d)'
  BY <1>1 DEF D!Incur
<1>2. CASE /\ Owed(rows, d) /\ shown[d] < NoticeDeliveries
           /\ Owed(rows', d) /\ shown'[d] = shown[d] + 1 /\ (Agreed(d)' <=> Agreed(d))
  BY <1>2 DEF D!Tell
<1>3. CASE /\ (Owed(rows', d) <=> Owed(rows, d)) /\ shown'[d] = shown[d]
           /\ Agreed(d)' => Owed(rows, d) /\ shown[d] > 0
  BY <1>3 DEF D!Agree, D!Forget, D!Same
<1>4. CASE /\ Owed(rows, d) /\ ~Owed(rows', d) /\ shown'[d] = 0 /\ ~Agreed(d)'
           /\ Agreed(d) \/ (Full(rows') /\ shown[d] = NoticeDeliveries)
  BY <1>4 DEF D!Settle, D!GiveWay, D!Over, Full, TasksOf
<1> QED  BY <1>1, <1>2, <1>3, <1>4

(***************************************************************************)
(* What may become of the notices when rows are made, evicted and noted.   *)
(***************************************************************************)
Exhausted(R, t) == R[t].notice.told >= NoticeDeliveries /\ R[t].notice.offered = None
Kept1(P, R, t) == Owed(P, t) /\ Owed(R, t) /\ R[t].notice = P[t].notice
New1(R, t) == Owed(R, t) /\ \E n \in 0..MaxWork : R[t].notice = Pending(t, n)
None1(P, R, t) == ~Owed(P, t) /\ ~Owed(R, t)
Lost1(P, R, t) == Owed(P, t) /\ ~Owed(R, t) /\ Exhausted(P, t) /\ Full(R)

\* What gives way and what takes its place leave no room.
LEMMA RoomFull ==
    ASSUME NEW R, NEW new, IsFiniteSet(new), NEW gone \in Rooms(R, Cardinality(new)),
           NEW t \in gone, new \intersect (TasksOf(R) \ gone) = {},
           NEW Q, TasksOf(Q) = (TasksOf(R) \ gone) \union new
    PROVE  Full(Q)
<1> DEFINE n == Cardinality(new)
           size == Cardinality(TasksOf(R))
           excess == IF size + n > TaskLimit THEN size + n - TaskLimit ELSE 0
           rest == TasksOf(R) \ gone
<1>1. gone \subseteq TasksOf(R)
  BY DEF Rooms, Done, Spent, Owed, TasksOf
<1>2. Cardinality(gone) = excess
  BY DEF Rooms, TasksOf
<1>3. /\ IsFiniteSet(TasksOf(R)) /\ size \in Nat /\ IsFiniteSet(gone) /\ n \in Nat
      /\ Cardinality(gone) \in Nat
  BY <1>1, TasksFinite, FS_Subset, FS_CardinalityType
<1>4. IsFiniteSet(rest) /\ Cardinality(rest) = size - Cardinality(gone)
  <2>1. Cardinality(TasksOf(R) \ gone) = Cardinality(TasksOf(R)) - Cardinality(TasksOf(R) \intersect gone)
    BY <1>3, FS_Difference
  <2>2. TasksOf(R) \intersect gone = gone
    BY <1>1
  <2> QED  BY <1>3, <2>1, <2>2, FS_Difference
<1>5. Cardinality(rest \union new) = Cardinality(rest) + n
  <2>1. Cardinality(rest \union new) =
                Cardinality(rest) + Cardinality(new) - Cardinality(rest \intersect new)
    BY <1>4, FS_Union
  <2>2. rest \intersect new = {}
    OBVIOUS
  <2>3. Cardinality(rest \intersect new) = 0
    BY <2>2, FS_EmptySet
  <2>4. Cardinality(rest) \in Nat
    BY <1>4, FS_CardinalityType
  <2> HIDE DEF rest
  <2> QED  BY <1>3, <2>1, <2>3, <2>4
<1>6. Cardinality(gone) # 0
  BY <1>3, FS_EmptySet
<1>7. TaskLimit \in Nat
  BY LimitsAssumption
<1>8. Cardinality(TasksOf(Q)) = Cardinality(rest) + n
  BY <1>5
<1> HIDE DEF size, rest, n
<1>9. excess = size + n - TaskLimit
  BY <1>2, <1>6
<1> HIDE DEF excess
<1>10. Cardinality(TasksOf(Q)) = TaskLimit
  BY <1>2, <1>3, <1>4, <1>7, <1>8, <1>9
<1> QED  BY <1>7, <1>10 DEF Full

\* get: a row for w, and what gave way to it.
LEMMA WithRowMoves ==
    ASSUME NEW R \in [Tasks -> Row \union {None}], NEW w \in Tasks, NEW Q \in WithRow(R, w),
           NEW P \in [Tasks -> Row \union {None}], NEW r \in Row, P = [Q EXCEPT ![w] = r]
    PROVE  \A t \in Tasks \ {w} : Kept1(R, P, t) \/ None1(R, P, t) \/ Lost1(R, P, t)
<1>1. CASE Q = R
  BY <1>1, NoneAssumption DEF Kept1, None1, Owed
<1>2. ASSUME NEW gone \in Rooms(R, 1), R[w] = None, Q = [Without(R, gone) EXCEPT ![w] = NewRow],
             NEW t \in Tasks \ {w}
      PROVE  Kept1(R, P, t) \/ None1(R, P, t) \/ Lost1(R, P, t)
  <2>1. /\ P[w] = r /\ r # None
        /\ \A s \in Tasks \ {w} : P[s] = IF s \in gone THEN None ELSE R[s]
    BY <1>2, NoneAssumption DEF Without
  <2>2. CASE t \notin gone
    BY <2>1, <2>2 DEF Kept1, None1, Owed
  <2>3. CASE t \in gone
    <3>1. t \in Done(R) \union Spent(R) /\ ~Owed(P, t)
      BY <2>1, <2>3 DEF Rooms, Owed
    <3>2. TasksOf(P) = (TasksOf(R) \ gone) \union {w}
      BY <2>1 DEF TasksOf
    <3>3. IsFiniteSet({w}) /\ Cardinality({w}) = 1 /\ {w} \intersect (TasksOf(R) \ gone) = {}
      BY <1>2, FS_Singleton DEF TasksOf
    <3>4. Full(P)
      BY <2>3, <3>2, <3>3, RoomFull
    <3> QED  BY <3>1, <3>4 DEF Done, Spent, None1, Lost1, Exhausted, Owed
  <2> QED  BY <2>2, <2>3
<1>3. Q = R \/ (R[w] = None /\ \E gone \in Rooms(R, 1) : Q = [Without(R, gone) EXCEPT ![w] = NewRow])
  BY DEF WithRow
<1> QED  BY <1>1, <1>2, <1>3

\* interrupted: notices for inputs, and what gave way to them.
LEMMA InterruptedMoves ==
    ASSUME NEW R \in [Tasks -> Row \union {None}], NEW inputs \in SUBSET Tasks,
           NEW Q \in Interrupted(R, inputs), NEW t \in Tasks
    PROVE  Kept1(R, Q, t) \/ New1(Q, t) \/ None1(R, Q, t) \/ Lost1(R, Q, t)
<1> DEFINE new == {u \in inputs : R[u] = None}
           again == inputs \intersect Spent(R)
<1>0. PICK taken \in SUBSET (new \union again) :
         \E gone \in {g \in Rooms(R, Cardinality(taken)) : taken \intersect again \subseteq g} :
            Q = Noted(Without(R, gone), (inputs \ (new \union gone)) \union taken)
  BY DEF Interrupted
<1>1. PICK gone \in Rooms(R, Cardinality(taken)) :
         /\ taken \intersect again \subseteq gone
         /\ Q = Noted(Without(R, gone), (inputs \ (new \union gone)) \union taken)
  BY <1>0
<1> DEFINE W == Without(R, gone)
           noted == (inputs \ (new \union gone)) \union taken
<1>2. gone \subseteq TasksOf(R) /\ \A s \in gone : s \in Done(R) \union Spent(R)
  BY DEF Rooms, Done, Spent, Owed, TasksOf
<1>3. taken \subseteq inputs /\ IsFiniteSet(taken)
  BY TasksAssumption, FS_Subset
<1>4. /\ W \in [Tasks -> Row \union {None}]
      /\ \A s \in Tasks : W[s] = IF s \in gone THEN None ELSE R[s]
  BY DEF Without
<1> HIDE DEF W
<1>5. ASSUME NEW s \in Tasks
      PROVE  \/ Q[s] = W[s] /\ (s \in noted => Owed(W, s))
             \/ New1(Q, s) /\ s \in noted /\ Q[s] # None
  <2>1. CASE s \notin noted \/ Owed(W, s)
    BY <1>1, <2>1 DEF Noted, W
  <2>2. CASE s \in noted /\ ~Owed(W, s)
    <3> DEFINE r == IF W[s] = None THEN NewRow ELSE W[s]
    <3>1. Q[s] = [r EXCEPT !.state = "failed", !.notice = Pending(s, r.attempt)]
      BY <1>1, <2>2 DEF Noted, W
    <3>2. r \in Row
      BY <1>4, NewRowIs
    <3> HIDE DEF r
    <3>3. r.attempt \in 0..MaxWork
      BY <3>2 DEF Row
    <3>4. Pending(s, r.attempt) \in Notice /\ Pending(s, r.attempt) # None
      BY <3>3, PendingIs
    <3>5. Q[s] \in Row /\ Q[s].notice = Pending(s, r.attempt)
      BY <3>1, <3>2, <3>4 DEF Row
    <3>6. Q[s] # None
      BY <3>5, NoneAssumption
    <3> QED  BY <2>2, <3>3, <3>4, <3>5, <3>6 DEF New1, Owed
  <2> QED  BY <2>1, <2>2
<1>6. CASE New1(Q, t)
  BY <1>6
<1>7. CASE ~New1(Q, t)
  <2>1. Q[t] = W[t]
    BY <1>5, <1>7
  <2>2. CASE t \notin gone
    BY <1>4, <2>1, <2>2 DEF Kept1, None1, Owed
  <2>3. CASE t \in gone
    <3>1. ~Owed(Q, t) /\ (Owed(R, t) => t \in Spent(R))
      BY <1>2, <1>4, <2>1, <2>3 DEF Owed, Done
    <3>2. TasksOf(Q) = (TasksOf(R) \ gone) \union taken
      <4>1. ASSUME NEW s \in Tasks, Q[s] # None, s \notin taken PROVE s \in TasksOf(R) \ gone
        <5>1. W[s] # None
          BY <1>4, <1>5, <4>1
        <5> QED  BY <1>4, <5>1 DEF TasksOf
      <4>2. ASSUME NEW s \in TasksOf(R) \ gone PROVE Q[s] # None
        BY <1>4, <1>5, <4>2 DEF TasksOf
      <4>3. ASSUME NEW s \in taken PROVE Q[s] # None
        BY <1>3, <1>5, <4>3 DEF Owed
      <4> QED  BY <1>3, <4>1, <4>2, <4>3 DEF TasksOf
    <3>3. taken \intersect (TasksOf(R) \ gone) = {}
      BY <1>1 DEF TasksOf
    <3>4. Full(Q)
      BY <1>3, <2>3, <3>2, <3>3, RoomFull
    <3> QED  BY <3>1, <3>4 DEF Spent, None1, Lost1, Exhausted
  <2> QED  BY <2>2, <2>3
<1> QED  BY <1>6, <1>7

(***************************************************************************)
(* The steps that change the rows.                                         *)
(***************************************************************************)
Settled1(R, t) == Owed(rows, t) /\ ~Owed(R, t) /\ Agreed(t)
Moved(R) ==
    \A t \in Tasks : \/ Kept1(rows, R, t) \/ New1(R, t) \/ None1(rows, R, t)
                     \/ Lost1(rows, R, t) \/ Settled1(R, t)

\* A row that is made or changed by get, with the notice it has or a new one.
LEMMA GetMoves ==
    ASSUME RowsInv, NEW w \in Tasks, NEW Q \in WithRow(rows, w), NEW r \in Row, Q[w] # None,
           r.notice = Q[w].notice \/ \E n \in 0..MaxWork : r.notice = Pending(w, n)
    PROVE  Moved([Q EXCEPT ![w] = r])
<1> DEFINE P == [Q EXCEPT ![w] = r]
<1>1. rows \in [Tasks -> Row \union {None}] /\ Fits(rows)
  BY DEF RowsInv, TypeOK, Kept
<1>2. Q \in [Tasks -> Row \union {None}] /\ (Q[w] = rows[w] \/ (rows[w] = None /\ Q[w] = NewRow))
  BY <1>1, WithRowIs
<1>3. P \in [Tasks -> Row \union {None}] /\ P[w] = r /\ r # None
  BY <1>2, NoneAssumption
<1>4. \A t \in Tasks \ {w} : Kept1(rows, P, t) \/ None1(rows, P, t) \/ Lost1(rows, P, t)
  BY <1>1, <1>3, WithRowMoves
<1> HIDE DEF P
<1>5. CASE \E n \in 0..MaxWork : r.notice = Pending(w, n)
  <2>1. PICK n \in 0..MaxWork : r.notice = Pending(w, n)
    BY <1>5
  <2>2. Pending(w, n) # None
    BY <2>1, PendingIs
  <2>3. New1(P, w)
    BY <1>3, <2>1, <2>2 DEF New1, Owed
  <2> QED  BY <1>4, <2>3 DEF Moved, P
<1>6. CASE r.notice = Q[w].notice
  <2>1. rows[w] = None => r.notice = None
    BY <1>2, <1>6 DEF NewRow
  <2>2. rows[w] # None => r.notice = rows[w].notice
    BY <1>2, <1>6
  <2>3. Kept1(rows, P, w) \/ None1(rows, P, w)
    BY <1>3, <2>1, <2>2 DEF Kept1, None1, Owed
  <2> QED  BY <1>4, <2>3 DEF Moved, P
<1> QED  BY <1>5, <1>6

LEMMA SameMoved == Moved(rows)
  BY DEF Moved, Kept1, None1

LEMMA StartMoves == ASSUME RowsInv, NEW w \in Workers, Start(w) PROVE Moved(rows')
<1>1. /\ w \in Tasks /\ rows \in [Tasks -> Row \union {None}] /\ Fits(rows)
      /\ work \in 0..MaxWork /\ work < MaxWork /\ MaxWork \in Nat
      /\ Counted(rows, work)
  BY LimitsAssumption DEF RowsInv, TypeOK, Tasks, Kept, Start
<1>2. PICK Q \in WithRow(rows, w) :
         rows' = IF Q[w] = None THEN Q
                 ELSE [Q EXCEPT ![w].state = "running", ![w].attempt = @ + 1]
  BY DEF Start, Saves
<1>3. /\ Q \in [Tasks -> Row \union {None}]
      /\ Q[w] = None => Q = rows
      /\ Q[w] = rows[w] \/ (rows[w] = None /\ Q[w] = NewRow)
  BY <1>1, WithRowIs
<1>4. CASE Q[w] = None
  BY <1>2, <1>3, <1>4, SameMoved
<1>5. CASE Q[w] # None
  <2> DEFINE r == [Q[w] EXCEPT !.state = "running", !.attempt = @ + 1]
  <2>1. Q[w] \in Row /\ rows' = [Q EXCEPT ![w] = r]
    BY <1>1, <1>2, <1>3, <1>5
  <2>2. Q[w].attempt \in 0..MaxWork /\ Q[w].attempt <= work
    BY <1>1, <1>3, <1>5, <2>1 DEF Row, Counted, NewRow
  <2>3. Q[w].attempt + 1 \in 0..MaxWork
    BY <1>1, <2>2
  <2>4. r \in Row /\ r.notice = Q[w].notice
    BY <2>1, <2>3 DEF Row
  <2> HIDE DEF r
  <2> QED  BY <1>1, <1>5, <2>1, <2>4, GetMoves
<1> QED  BY <1>4, <1>5

LEMMA EndMoves == ASSUME RowsInv, NEW w \in Workers, NEW fails \in BOOLEAN, End(w, fails) PROVE Moved(rows')
<1>1. w \in Tasks /\ rows \in [Tasks -> Row \union {None}] /\ Fits(rows)
  BY DEF RowsInv, TypeOK, Tasks, Kept
<1>2. PICK Q \in WithRow(rows, w) :
         rows' = IF Q[w] = None THEN Q
                 ELSE [Q EXCEPT ![w] = IF fails THEN FailedTask(w, [@ EXCEPT !.state = "failed"])
                                       ELSE [@ EXCEPT !.state = "ended"]]
  BY DEF End, Saves
<1>3. /\ Q \in [Tasks -> Row \union {None}]
      /\ Q[w] = None => Q = rows
      /\ Q[w] = rows[w] \/ (rows[w] = None /\ Q[w] = NewRow)
  BY <1>1, WithRowIs
<1>4. CASE Q[w] = None
  BY <1>2, <1>3, <1>4, SameMoved
<1>5. CASE Q[w] # None
  <2> DEFINE f == [Q[w] EXCEPT !.state = "failed"]
             e == [Q[w] EXCEPT !.state = "ended"]
             r == IF fails THEN FailedTask(w, f) ELSE e
  <2>1. Q[w] \in Row /\ rows' = [Q EXCEPT ![w] = r]
    BY <1>1, <1>2, <1>3, <1>5
  <2>2. e \in Row /\ e.notice = Q[w].notice /\ f \in Row /\ f.notice = Q[w].notice
    BY <2>1 DEF Row
  <2>3. f.attempt \in 0..MaxWork
    BY <2>2 DEF Row
  <2> HIDE DEF f, e
  <2>4. Pending(w, f.attempt) \in Notice
    BY <1>1, <2>3, PendingIs
  <2>5. r \in Row /\ (r.notice = Q[w].notice \/ r.notice = Pending(w, f.attempt))
    BY <2>2, <2>4 DEF FailedTask, Row
  <2> HIDE DEF r
  <2> QED  BY <1>1, <1>5, <2>1, <2>3, <2>5, GetMoves
<1> QED  BY <1>4, <1>5

\* What was noted or evicted after rows were moved without evicting any.
LEMMA ThenInterrupted ==
    ASSUME NEW R \in [Tasks -> Row \union {None}], NEW inputs \in SUBSET Tasks,
           \A t \in Tasks : Kept1(rows, R, t) \/ New1(R, t) \/ None1(rows, R, t) \/ Settled1(R, t),
           NEW Q \in Interrupted(R, inputs)
    PROVE  Moved(Q)
<1> SUFFICES ASSUME NEW t \in Tasks
             PROVE  \/ Kept1(rows, Q, t) \/ New1(Q, t) \/ None1(rows, Q, t)
                    \/ Lost1(rows, Q, t) \/ Settled1(Q, t)
  BY DEF Moved
<1>1. Kept1(R, Q, t) \/ New1(Q, t) \/ None1(R, Q, t) \/ Lost1(R, Q, t)
  BY InterruptedMoves
<1>2. CASE Kept1(rows, R, t)
  BY <1>1, <1>2 DEF Kept1, None1, Lost1, Exhausted
<1>3. CASE New1(R, t)
  <2>1. PICK n \in 0..MaxWork : R[t].notice = Pending(t, n)
    BY <1>3 DEF New1
  <2>2. ~Exhausted(R, t) /\ Owed(R, t)
    BY <1>3, <2>1, LimitsAssumption DEF Exhausted, Pending, New1
  <2>3. Kept1(R, Q, t) => New1(Q, t)
    BY <2>1 DEF Kept1, New1
  <2> QED  BY <1>1, <2>2, <2>3 DEF None1, Lost1
<1>4. CASE None1(rows, R, t) \/ Settled1(R, t)
  BY <1>1, <1>4 DEF Kept1, None1, Lost1, Settled1
<1> HIDE DEF Moved
<1> QED  BY <1>2, <1>3, <1>4

LEMMA RestartMoves == ASSUME RowsInv, Restart PROVE Moved(rows')
<1>1. /\ Open \subseteq Tasks /\ rows' \in Interrupted(Recovered, Open)
      /\ rows \in [Tasks -> Row \union {None}]
  BY OpenIs DEF Restart, Saves, RowsInv, TypeOK, Open, ChatsOpen
<1>2. Recovered \in [Tasks -> Row \union {None}]
  BY RecoveredKept DEF Kept, Good
<1>3. ASSUME NEW t \in Tasks
      PROVE  Kept1(rows, Recovered, t) \/ New1(Recovered, t) \/ None1(rows, Recovered, t)
  <2>1. CASE rows[t] = None \/ rows[t].state # "running"
    <3>1. Recovered[t] = rows[t]
      BY <2>1 DEF Recovered
    <3> QED  BY <3>1 DEF Kept1, None1, Owed
  <2>2. CASE rows[t] # None /\ rows[t].state = "running"
    <3> DEFINE n == rows[t].notice
               m == IF n # None /\ n.attempt = rows[t].attempt THEN n ELSE Pending(t, rows[t].attempt)
    <3>1. rows[t] \in Row /\ rows[t].attempt \in 0..MaxWork
      BY <1>1, <2>2 DEF Row
    <3>2. Recovered[t] = [rows[t] EXCEPT !.state = "failed", !.notice = m]
      BY <2>2, <3>1 DEF Recovered, Row
    <3>3. Pending(t, rows[t].attempt) \in Notice /\ Pending(t, rows[t].attempt) # None
      BY <3>1, PendingIs
    <3>4. Recovered[t].notice = m
      BY <3>1, <3>2 DEF Row
    <3>5. Recovered[t] \in Row
      BY <3>1, <3>2, <3>3 DEF Row
    <3>6. Recovered[t] # None
      BY <3>5, NoneAssumption
    <3> QED  BY <2>2, <3>1, <3>3, <3>4, <3>6 DEF Kept1, New1, Owed
  <2> QED  BY <2>1, <2>2
<1> QED  BY <1>1, <1>2, <1>3, ThenInterrupted

\* The result of a turn tells nothing of reminders that are on offer: what was
\* in the turn was seen to be consumed.
LEMMA ResultTellsNothing ==
    ASSUME DutyInv, results # <<>>, NEW ids, ids \subseteq Head(results).inputs, NEW t \in Tasks, Owed(rows, t)
    PROVE  OfferOf(t) \notin ids
<1> SUFFICES ASSUME OfferOf(t) \in ids PROVE FALSE
  OBVIOUS
<1>1. results \in Seq(Result) /\ Head(results) = results[1] /\ 1 \in DOMAIN results
  BY DEF DutyInv, RowsInv, TypeOK
<1>2. InResults(OfferOf(t))
  BY <1>1 DEF InResults
<1>3. Head(results).inputs \subseteq Inputs
  BY ResultType DEF DutyInv, RowsInv
<1>4. OfferOf(t) # None
  BY <1>3, TasksAssumption
<1> QED  BY <1>2, <1>4 DEF DutyInv, Linked, Offers

\* What is handled was agreed to: its marker was written in the turn of this
\* result.
LEMMA HandledAgreed ==
    ASSUME DutyInv, results # <<>>, Head(results).ok, NEW ids, ids \subseteq Head(results).inputs,
           NEW t \in HandledTasks(rows, ids)
    PROVE  Agreed(t) /\ t \in Tasks /\ Owed(rows, t)
<1>1. t \in Tasks /\ Owed(rows, t)
  BY DEF HandledTasks
<1>2. results \in Seq(Result) /\ Head(results) = results[1] /\ 1 \in DOMAIN results
  BY DEF DutyInv, RowsInv, TypeOK
<1>3. TokenOf(rows, t) \in Token
  BY <1>1, TokenType DEF DutyInv, RowsInv, TypeOK, TokenOf
<1>4. PICK u : u \in acknowledged[TokenOf(rows, t)] /\ u \in ids
  BY DEF HandledTasks
<1>5. TokenOf(rows, t) \in results[1].marks
  BY <1>2, <1>3, <1>4 DEF DutyInv, Linked, Marked
<1> QED  BY <1>1, <1>2, <1>5 DEF Agreed

LEMMA ResultMoves ==
    ASSUME DutyInv, NEW x \in Turns \union {None}, ReadResult(x)
    PROVE  Moved(rows')
<1> DEFINE r == Head(results)
           ids == IF r.stamped THEN r.inputs ELSE {}
           minted == IF r.ok \/ RecoveryOnly(ids) THEN {rows} ELSE TurnFailed(rows, x)
<1>1. /\ work \in 0..MaxWork /\ Open \subseteq Tasks /\ Kept(rows, work, Open)
      /\ rows \in [Tasks -> Row \union {None}] /\ Fits(rows) /\ results # <<>>
      /\ ~r.ok => x \in FreeTurns
  BY OpenIs DEF ReadResult, DutyInv, RowsInv, TypeOK, Kept, Good
<1>2. /\ ids \subseteq r.inputs /\ None \notin ids /\ ids \subseteq Inputs
  <2>1. Head(results) \in Result
    BY <1>1 DEF DutyInv, RowsInv, TypeOK
  <2> QED  BY <2>1, TasksAssumption DEF Result
<1>3. PICK R \in minted :
         LET told == Consumed(R, ids)
             handled == IF r.ok THEN HandledTasks(told, ids) ELSE {}
         IN  \E Q \in IF handled = {} THEN {told}
                      ELSE Interrupted(Handle(told, handled),
                                       ChatsOpen("interrupted") \ handled) : rows' = Q
  BY DEF ReadResult, Saves
<1>4. R \in [Tasks -> Row \union {None}] /\ Moved(R) /\ (r.ok => R = rows)
  <2>1. CASE R = rows
    BY <1>1, <2>1, SameMoved
  <2>2. CASE ~r.ok /\ R \in TurnFailed(rows, x)
    <3>1. x \in Tasks /\ rows[x] = None
      BY <1>1, <2>2 DEF FreeTurns, Tasks
    <3>2. PICK Q \in WithRow(rows, x) :
             R = IF Q[x] = None THEN Q
                 ELSE [Q EXCEPT ![x].state = "failed", ![x].notice = Pending(x, Q[x].attempt)]
      BY <2>2 DEF TurnFailed
    <3>3. Q \in [Tasks -> Row \union {None}] /\ (Q[x] = None => Q = rows)
      BY <1>1, <3>1, WithRowIs
    <3>4. CASE Q[x] = None
      BY <2>2, <3>2, <3>3, <3>4, SameMoved
    <3>5. CASE Q[x] # None
      <4> DEFINE q == [Q[x] EXCEPT !.state = "failed", !.notice = Pending(x, Q[x].attempt)]
      <4>1. Q[x] \in Row /\ Q[x].attempt \in 0..MaxWork
        BY <3>1, <3>3, <3>5 DEF Row
      <4>2. R = [Q EXCEPT ![x] = q]
        BY <3>1, <3>2, <3>3, <3>5, <4>1
      <4>3. Pending(x, Q[x].attempt) \in Notice
        BY <3>1, <4>1, PendingIs
      <4>4. q \in Row /\ q.notice = Pending(x, Q[x].attempt)
        BY <4>1, <4>3 DEF Row
      <4> HIDE DEF q
      <4>5. Moved(R)
        BY <3>1, <3>5, <4>1, <4>2, <4>4, GetMoves DEF DutyInv
      <4> QED  BY <2>2, <3>1, <3>3, <4>2, <4>4, <4>5
    <3> QED  BY <3>4, <3>5
  <2> QED  BY <1>3, <2>1, <2>2
<1>5. Consumed(R, ids) = R
  <2>1. ASSUME NEW t \in Tasks, Owed(R, t) PROVE R[t].notice.offered \notin ids
    <3>1. CASE Kept1(rows, R, t)
      BY <1>1, <1>2, <3>1, ResultTellsNothing DEF Kept1, OfferOf
    <3>2. CASE New1(R, t)
      BY <1>2, <3>2, PendingIs DEF New1
    <3> QED  BY <1>4, <2>1, <3>1, <3>2 DEF Moved, None1, Lost1, Settled1
  <2> QED  BY <1>4, <2>1 DEF Consumed
<1> DEFINE handled == IF r.ok THEN HandledTasks(R, ids) ELSE {}
<1>6. PICK Q \in IF handled = {} THEN {R}
                 ELSE Interrupted(Handle(R, handled), ChatsOpen("interrupted") \ handled) : rows' = Q
  BY <1>3, <1>5
<1>7. CASE handled = {}
  BY <1>4, <1>6, <1>7
<1>8. CASE handled # {}
  <2>1. r.ok /\ R = rows /\ handled = HandledTasks(rows, ids)
    BY <1>4, <1>8
  <2>2. \A t \in handled : Agreed(t) /\ t \in Tasks /\ Owed(rows, t)
    BY <1>1, <1>2, <2>1, HandledAgreed
  <2> HIDE DEF handled, ids, r
  <2>3. Handle(rows, handled) \in [Tasks -> Row \union {None}]
    BY <1>1, <2>2, HandleKept DEF Kept, Good
  <2>4. ASSUME NEW t \in Tasks
        PROVE  \/ Kept1(rows, Handle(rows, handled), t) \/ None1(rows, Handle(rows, handled), t)
               \/ Settled1(Handle(rows, handled), t)
    <3>1. CASE t \notin handled
      BY <3>1 DEF Handle, Kept1, None1, Owed
    <3>2. CASE t \in handled
      <4>1. rows[t] \in Row
        BY <1>1, <2>2, <3>2 DEF Owed
      <4>2. Handle(rows, handled)[t].notice = None
        BY <3>2, <4>1 DEF Handle, Row
      <4> QED  BY <2>2, <3>2, <4>2 DEF Settled1, Owed
    <3> QED  BY <3>1, <3>2
  <2>5. ChatsOpen("interrupted") \ handled \in SUBSET Tasks
    BY DEF ChatsOpen, Tasks
  <2> QED  BY <1>6, <1>8, <2>1, <2>3, <2>4, <2>5, ThenInterrupted
<1> QED  BY <1>7, <1>8
LEMMA OfferType ==
    ASSUME TypeOK, NEW t \in Tasks, Owed(rows, t)
    PROVE  /\ OfferOf(t) \in Reminders \union {None} /\ rows[t].notice \in Notice /\ rows[t] \in Row
           /\ rows[t].notice.told \in 0..NoticeDeliveries /\ TokenOf(rows, t) = rows[t].notice.token
<1>1. rows[t].notice \in Notice /\ rows[t] \in Row
  BY DEF TypeOK, Row, Owed
<1> QED  BY <1>1 DEF Notice, OfferOf, TokenOf

(***************************************************************************)
(* A new token is one that nothing refers to.                              *)
(***************************************************************************)
LEMMA FreshIs ==
    ASSUME TokensSuffice, NEW t \in Tasks
    PROVE  LET k == <<t, Fresh(t)>> IN
           /\ Fresh(t) \in Tokens /\ k \in Token
           /\ \A s \in Tasks : TokenOf(rows, s) # k
           /\ acknowledged[k] = {}
           /\ \A u \in Reminders : deliveries[u] # None => k \notin deliveries[u].tokens
           /\ \A q \in queued : k \notin q.tokens
           /\ ~MarkedSeen(k)
<1> DEFINE k == <<t, Fresh(t)>>
<1>1. Fresh(t) \in Tokens /\ k \notin InUse
  BY DEF TokensSuffice, Fresh
<1>2. k \in Token
  BY <1>1 DEF Token
<1>3. /\ \A s \in Tasks : TokenOf(rows, s) \in InUse
      /\ acknowledged[k] # {} => k \in InUse
      /\ \A u \in Reminders : deliveries[u] # None => deliveries[u].tokens \subseteq InUse
      /\ \A q \in queued : q.tokens \subseteq InUse
      /\ marks \subseteq InUse
      /\ \A i \in DOMAIN results : results[i].marks \subseteq InUse
  BY <1>2 DEF InUse
<1> HIDE DEF k
<1> QED  BY <1>1, <1>2, <1>3 DEF MarkedSeen, k

\* The notice a task has after the rows moved.
LEMMA MovedAt ==
    ASSUME TokensSuffice, NEW R, Moved(R), NEW t \in Tasks, Owed(R, t)
    PROVE  \/ /\ Owed(rows, t) /\ R[t].notice = rows[t].notice
              /\ TokenOf(R, t) = TokenOf(rows, t)
           \/ /\ TokenOf(R, t) = <<t, Fresh(t)>> /\ TokenOf(R, t) # TokenOf(rows, t)
              /\ R[t].notice.told = 0 /\ R[t].notice.offered = None
<1>1. Kept1(rows, R, t) \/ New1(R, t)
  BY DEF Moved, None1, Lost1, Settled1
<1>2. CASE Kept1(rows, R, t)
  BY <1>2 DEF Kept1, TokenOf
<1>3. CASE New1(R, t)
  <2>1. PICK n \in 0..MaxWork : R[t].notice = Pending(t, n)
    BY <1>3 DEF New1
  <2>2. TokenOf(R, t) = <<t, Fresh(t)>> /\ R[t].notice.told = 0 /\ R[t].notice.offered = None
    BY <2>1 DEF TokenOf, Pending
  <2> QED  BY <2>2, FreshIs
<1> QED  BY <1>1, <1>2, <1>3

\* Such a step is one of Duties.
LEMMA MovedDuty ==
    ASSUME DutyInv, TokensSuffice, Moved(rows'), shown' = ShownFor(rows'),
           \A i \in DOMAIN results' : \E j \in DOMAIN results : results'[i].marks = results[j].marks
    PROVE  D!Next
<1>0. \A d \in Tasks : shown'[d] = IF TokenOf(rows', d) = TokenOf(rows, d) THEN shown[d] ELSE 0
  BY DEF ShownFor
<1>1. ASSUME NEW d \in Tasks, Agreed(d)' PROVE MarkedSeen(TokenOf(rows', d))
  BY <1>1 DEF Agreed, MarkedSeen
<1>2. ASSUME NEW d \in Tasks, ~Owed(rows', d) PROVE ~Agreed(d)'
  <2>1. TokenOf(rows', d) = None
    BY <1>2 DEF TokenOf
  <2>2. ~MarkedSeen(None)
    <3>1. marks \subseteq Token /\ results \in Seq(Result)
      BY DEF DutyInv, RowsInv, TypeOK
    <3>2. \A i \in DOMAIN results : results[i] \in Result
      BY <3>1
    <3>3. \A i \in DOMAIN results : results[i].marks \subseteq Token
      BY <3>2 DEF Result
    <3> QED  BY <3>1, <3>3, NoneAssumption DEF MarkedSeen
  <2> QED  BY <1>1, <2>1, <2>2
<1>3. ASSUME NEW d \in Tasks
      PROVE  \/ Owed(rows', d) /\ shown'[d] = 0 /\ ~Agreed(d)'
             \/ /\ (Owed(rows', d) <=> Owed(rows, d)) /\ shown'[d] = shown[d]
                /\ Agreed(d)' => Owed(rows, d) /\ shown[d] > 0
             \/ /\ Owed(rows, d) /\ ~Owed(rows', d) /\ shown'[d] = 0 /\ ~Agreed(d)'
                /\ Agreed(d) \/ (Full(rows') /\ shown[d] = NoticeDeliveries)
  <2>1. CASE Owed(rows', d)
    <3>1. CASE Owed(rows, d) /\ TokenOf(rows', d) = TokenOf(rows, d)
      BY <1>0, <1>1, <2>1, <3>1 DEF DutyInv, Linked, SeenFirst
    <3>2. CASE TokenOf(rows', d) = <<d, Fresh(d)>> /\ TokenOf(rows', d) # TokenOf(rows, d)
      BY <1>0, <1>1, <2>1, <3>2, FreshIs
    <3> QED  BY <2>1, <3>1, <3>2, MovedAt
  <2>2. CASE ~Owed(rows', d) /\ ~Owed(rows, d)
    BY <1>0, <1>2, <2>2 DEF TokenOf
  <2>3. CASE ~Owed(rows', d) /\ Owed(rows, d)
    <3>1. Lost1(rows, rows', d) \/ Settled1(rows', d)
      BY <2>3 DEF Moved, Kept1, New1, None1
    <3>2. shown'[d] = 0
      <4>1. TokenOf(rows', d) = None /\ TokenOf(rows, d) \in Token
        BY <2>3, TokenType DEF TokenOf, DutyInv, RowsInv
      <4> QED  BY <1>0, <4>1, NoneAssumption
    <3>3. CASE Lost1(rows, rows', d)
      <4>1. rows[d].notice \in Notice
        BY <2>3 DEF DutyInv, RowsInv, TypeOK, Row, Owed
      <4>2. rows[d].notice.told = NoticeDeliveries /\ OfferOf(d) = None
        BY <3>3, <4>1, LimitsAssumption DEF Lost1, Exhausted, Notice, OfferOf
      <4>3. None \notin transcript
        BY TasksAssumption DEF DutyInv, RowsInv, TypeOK, Inputs
      <4>4. shown[d] = NoticeDeliveries
        BY <2>3, <4>2, <4>3, LimitsAssumption DEF DutyInv, Linked, Told
      <4> QED  BY <1>2, <2>3, <3>2, <3>3, <4>4 DEF Lost1
    <3>4. CASE Settled1(rows', d)
      BY <1>2, <2>3, <3>2, <3>4 DEF Settled1
    <3> QED  BY <3>1, <3>3, <3>4
  <2> QED  BY <2>1, <2>2, <2>3
<1> QED  BY <1>3, DutyStep

(***************************************************************************)
(* Moved rows stay linked, when reminders in ids are forgotten and results *)
(* were read.                                                              *)
(***************************************************************************)
LEMMA MovedLinked ==
    ASSUME DutyInv, TokensSuffice, Moved(rows'), shown' = ShownFor(rows'),
           UNCHANGED <<queued, transcript, unseen, turn, marks>>,
           commands' \subseteq commands, reply' = reply \/ reply' = None,
           NEW s \in Nat, results' \in Seq(Result),
           \A i \in DOMAIN results' : i + s \in DOMAIN results /\ results'[i] = results[i + s],
           NEW ids,
           deliveries' = [u \in Reminders |-> IF u \in ids THEN None ELSE deliveries[u]],
           acknowledged' = [k \in Token |-> acknowledged[k] \ ids],
           \A t \in Tasks : Owed(rows, t) => OfferOf(t) \notin ids,
           \A q \in queued : q.uuid \notin ids
    PROVE  Linked'
<1> USE DEF DutyInv, Linked
<1>1. ASSUME NEW t \in Tasks, Owed(rows', t)
      PROVE  \/ /\ Owed(rows, t) /\ OfferOf(t)' = OfferOf(t) /\ rows'[t].notice = rows[t].notice
                /\ TokenOf(rows', t) = TokenOf(rows, t) /\ shown'[t] = shown[t]
             \/ /\ TokenOf(rows', t) = <<t, Fresh(t)>> /\ OfferOf(t)' = None
                /\ rows'[t].notice.told = 0 /\ shown'[t] = 0
  BY <1>1, MovedAt DEF OfferOf, ShownFor
<1>2. None \notin transcript /\ queued \subseteq [uuid : Reminders, tokens : SUBSET Token]
  BY TasksAssumption DEF RowsInv, TypeOK, Inputs
<1>3. /\ \A u : InResults(u)' => InResults(u)
      /\ \A u : AtSdk(u)' => AtSdk(u)
      /\ \A u : Silent(u) => Silent(u)'
      /\ \A k : MarkedSeen(k)' => MarkedSeen(k)
      /\ \A u \in Reminders : Incomplete(u)' => Incomplete(u) /\ deliveries'[u] = deliveries[u]
  <2>1. \A u : InResults(u)' => InResults(u)
    BY DEF InResults
  <2>2. \A u : AtSdk(u)' => AtSdk(u)
    BY <2>1 DEF AtSdk
  <2>3. \A k : MarkedSeen(k)' => MarkedSeen(k)
    BY DEF MarkedSeen
  <2>4. \A u : Silent(u) => Silent(u)'
    BY DEF Silent
  <2>5. \A u \in Reminders : Incomplete(u)' => Incomplete(u) /\ deliveries'[u] = deliveries[u]
    BY DEF Incomplete
  <2> QED  BY <2>1, <2>2, <2>3, <2>4, <2>5
<1>4. Named'
  <2> SUFFICES ASSUME NEW t \in Tasks, Owed(rows', t)
               PROVE  \E k \in Tokens : TokenOf(rows', t) = <<t, k>>
    BY DEF Named
  <2>1. Fresh(t) \in Tokens
    BY FreshIs
  <2> QED  BY <1>1, <2>1 DEF Named
<1>5. Told'
  <2> SUFFICES ASSUME NEW t \in Tasks
               PROVE  IF Owed(rows', t)
                      THEN shown'[t] = rows'[t].notice.told + (IF OfferOf(t)' \in transcript' THEN 1 ELSE 0)
                      ELSE shown'[t] = 0
    BY DEF Told
  <2>1. CASE Owed(rows', t)
    BY <1>1, <1>2, <2>1 DEF Told
  <2>2. CASE ~Owed(rows', t)
    <3>1. CASE ~Owed(rows, t)
      BY <2>2, <3>1 DEF Told, ShownFor
    <3>2. CASE Owed(rows, t)
      <4>1. TokenOf(rows', t) = None /\ TokenOf(rows, t) \in Token
        BY <2>2, <3>2, TokenType DEF TokenOf, RowsInv
      <4> QED  BY <2>2, <4>1, NoneAssumption DEF ShownFor
    <3> QED  BY <3>1, <3>2
  <2> QED  BY <2>1, <2>2
<1>6. Offers'
  <2> SUFFICES ASSUME NEW t \in Tasks, Owed(rows', t), OfferOf(t)' # None,
                      NEW u, u = OfferOf(t)'
               PROVE  /\ u \in turn' => u \in unseen'
                      /\ ~InResults(u)'
                      /\ u \in commands' => u \in transcript'
                      /\ deliveries'[u] # None => Incomplete(u)' /\ TokenOf(rows', t) \in deliveries'[u].tokens
                      /\ deliveries'[u] = None => ~AtSdk(u)' /\ Silent(u)' /\ \A q \in queued' : q.uuid # u
    BY DEF Offers
  <2>1. /\ Owed(rows, t) /\ OfferOf(t) = u /\ TokenOf(rows', t) = TokenOf(rows, t)
    BY <1>1
  <2>2. u \in Reminders
    BY <2>1, OfferType DEF RowsInv
  <2>3. deliveries'[u] = deliveries[u]
    BY <2>1, <2>2
  <2>4. Incomplete(u)' = Incomplete(u)
    BY <2>3 DEF Incomplete
  <2> QED  BY <1>3, <2>1, <2>3, <2>4 DEF Offers
<1>7. Blocks'
  <2> SUFFICES ASSUME NEW t \in Tasks, NEW u \in Reminders, Owed(rows', t), Incomplete(u)',
                      TokenOf(rows', t) \in deliveries'[u].tokens
               PROVE  OfferOf(t)' \in {None, u}
    BY DEF Blocks
  <2>1. Incomplete(u) /\ deliveries'[u] = deliveries[u]
    BY <1>3
  <2> QED  BY <1>1, <2>1 DEF Blocks
<1>8. Waiting'
  <2> SUFFICES ASSUME NEW q \in queued
               PROVE  /\ Incomplete(q.uuid)' /\ deliveries'[q.uuid].tokens = q.tokens
                      /\ ~AtSdk(q.uuid)' /\ Silent(q.uuid)'
                      /\ \A t \in Tasks : Owed(rows', t) /\ TokenOf(rows', t) \in q.tokens
                            => OfferOf(t)' = q.uuid
    BY DEF Waiting
  <2>1. deliveries'[q.uuid] = deliveries[q.uuid]
    BY <1>2
  <2>2. Incomplete(q.uuid)' = Incomplete(q.uuid)
    BY <2>1 DEF Incomplete
  <2>3. ASSUME NEW t \in Tasks, Owed(rows', t), TokenOf(rows', t) \in q.tokens PROVE OfferOf(t)' = q.uuid
    <3>1. <<t, Fresh(t)>> \notin q.tokens
      BY FreshIs
    <3> QED  BY <1>1, <2>3, <3>1 DEF Waiting
  <2> QED  BY <1>3, <2>1, <2>2, <2>3 DEF Waiting
<1>9. Announced'
  BY DEF Announced
<1>10. Apart'
  <2>1. DOMAIN results' = 1..Len(results') /\ Len(results') \in Nat
    OBVIOUS
  <2>2. \A i, j \in DOMAIN results' : i # j => i + s # j + s
    BY <2>1
  <2>3. ASSUME NEW i \in DOMAIN results', NEW j \in DOMAIN results', i # j
        PROVE  results'[i].inputs \intersect results'[j].inputs = {}
    <3>1. i + s \in DOMAIN results /\ j + s \in DOMAIN results /\ i + s # j + s
      BY <2>2, <2>3
    <3> QED  BY <3>1 DEF Apart
  <2>4. ASSUME NEW i \in DOMAIN results' PROVE turn' \intersect results'[i].inputs = {}
    BY DEF Apart
  <2> QED  BY <2>3, <2>4 DEF Apart
<1>11. Marked'
  BY DEF Marked
<1>12. SeenFirst'
  <2> SUFFICES ASSUME NEW t \in Tasks, Owed(rows', t), NEW k, k = TokenOf(rows', t), MarkedSeen(k)'
               PROVE  shown'[t] > 0
    BY DEF SeenFirst
  <2>1. MarkedSeen(TokenOf(rows', t))
    BY <1>3
  <2>2. ~MarkedSeen(<<t, Fresh(t)>>)
    BY FreshIs
  <2> QED  BY <1>1, <2>1, <2>2 DEF SeenFirst
<1> QED  BY <1>4, <1>5, <1>6, <1>7, <1>8, <1>9, <1>10, <1>11, <1>12

\* Workers and a restart move rows and nothing else.
LEMMA RowsLinked ==
    ASSUME DutyInv, TokensSuffice, Moved(rows'), shown' = ShownFor(rows'),
           UNCHANGED <<memory, transcript, sdk>>
    PROVE  Linked' /\ D!Next
<1>1. /\ UNCHANGED <<queued, transcript, unseen, turn, marks>>
      /\ UNCHANGED <<commands, reply, results, deliveries, acknowledged>>
  BY DEF memory, sdk
<1>2. /\ results' \in Seq(Result)
      /\ deliveries' = [u \in Reminders |-> IF u \in {} THEN None ELSE deliveries[u]]
      /\ acknowledged' = [k \in Token |-> acknowledged[k] \ {}]
  BY <1>1 DEF DutyInv, RowsInv, TypeOK
<1>3. \A i \in DOMAIN results' : i + 0 \in DOMAIN results /\ results'[i] = results[i + 0]
  BY <1>1 DEF DutyInv, RowsInv, TypeOK
<1>4. Linked'
  <2> DEFINE ids == {}
  <2>1. /\ deliveries' = [u \in Reminders |-> IF u \in ids THEN None ELSE deliveries[u]]
        /\ acknowledged' = [k \in Token |-> acknowledged[k] \ ids]
        /\ \A t \in Tasks : Owed(rows, t) => OfferOf(t) \notin ids
        /\ \A q \in queued : q.uuid \notin ids
    BY <1>2
  <2>2. commands' \subseteq commands /\ (reply' = reply \/ reply' = None) /\ 0 \in Nat
    BY <1>1
  <2> HIDE DEF ids
  <2> QED  BY <1>1, <1>2, <1>3, <2>1, <2>2, MovedLinked
<1>5. D!Next
  BY <1>1, MovedDuty
<1> QED  BY <1>4, <1>5

LEMMA ResultLinked ==
    ASSUME DutyInv, TokensSuffice, NEW x \in Turns \union {None}, ReadResult(x)
    PROVE  Linked' /\ D!Next
<1> DEFINE r == Head(results)
           ids == IF r.stamped THEN r.inputs ELSE {}
<1>1. Moved(rows') /\ shown' = ShownFor(rows')
  BY ResultMoves DEF ReadResult, Saves
<1>2. /\ results # <<>> /\ results' = Tail(results) /\ commands' \subseteq commands
      /\ reply' = reply \/ reply' = None
      /\ UNCHANGED <<queued, transcript, unseen, turn, marks>>
      /\ deliveries' = [u \in Reminders |-> IF u \in ids THEN None ELSE deliveries[u]]
      /\ acknowledged' = [k \in Token |-> acknowledged[k] \ ids]
  BY DEF ReadResult
<1>3. results \in Seq(Result) /\ ids \subseteq Head(results).inputs
  BY DEF DutyInv, RowsInv, TypeOK
<1>4. /\ results' \in Seq(Result) /\ Head(results) = results[1] /\ 1 \in DOMAIN results
      /\ \A i \in DOMAIN results' : i + 1 \in DOMAIN results /\ results'[i] = results[i + 1]
  BY <1>2, <1>3
<1>5. \A t \in Tasks : Owed(rows, t) => OfferOf(t) \notin ids
  BY <1>2, <1>3, ResultTellsNothing
<1>6. \A q \in queued : q.uuid \notin ids
  BY <1>3, <1>4 DEF DutyInv, Linked, Waiting, AtSdk, InResults
<1> HIDE DEF ids
<1>7. Linked'
  BY <1>1, <1>2, <1>4, <1>5, <1>6, MovedLinked
<1>8. D!Next
  BY <1>1, <1>4, MovedDuty
<1> QED  BY <1>7, <1>8

(***************************************************************************)
(* Steps after which the same duties are owed and were as often told.      *)
(***************************************************************************)
\* Only the notice of an owed duty can have been agreed to.
LEMMA MarkedOwed ==
    ASSUME NEW R, NEW d \in Tasks, NEW rs \in Seq(Result), NEW i \in DOMAIN rs,
           TokenOf(R, d) \in rs[i].marks
    PROVE  Owed(R, d)
<1>1. rs[i] \in Result
  OBVIOUS
<1> QED  BY <1>1, NoneAssumption DEF Result, TokenOf

LEMMA AgreedShown ==
    ASSUME DutyInv, NEW d \in Tasks, Agreed(d) PROVE Owed(rows, d) /\ shown[d] > 0
<1>1. PICK i \in DOMAIN results : TokenOf(rows, d) \in results[i].marks
  BY DEF Agreed
<1>2. results \in Seq(Result) /\ SeenFirst
  BY DEF DutyInv, RowsInv, TypeOK, Linked
<1> QED  BY <1>1, <1>2, MarkedOwed DEF SeenFirst, MarkedSeen

LEMMA SameDuty ==
    ASSUME DutyInv, DutyInv', shown' = shown,
           \A t \in Tasks : Owed(rows', t) <=> Owed(rows, t)
    PROVE  D!Next
<1>1. ASSUME NEW d \in Tasks, Agreed(d)' PROVE Owed(rows, d) /\ shown[d] > 0
  <2>1. PICK i \in DOMAIN results' : TokenOf(rows', d) \in results'[i].marks
    BY <1>1 DEF Agreed
  <2>2. results' \in Seq(Result) /\ SeenFirst'
    BY DEF DutyInv, RowsInv, TypeOK, Linked
  <2> QED  BY <2>1, <2>2, MarkedOwed DEF SeenFirst, MarkedSeen
<1> QED  BY <1>1, DutyStep

\* A reminder that may be queued is unknown to the SDK, and no other notice is
\* offered under it.
LEMMA MayQueue ==
    ASSUME DutyInv, NEW S \in SUBSET {t \in Tasks : Eligible(t)}, S # {}, NEW u \in Reminders, Offer(S, u)
    PROVE  /\ ~AtSdk(u) /\ Silent(u) /\ deliveries[u] = None /\ \A q \in queued : q.uuid # u
           /\ \A t \in Tasks \ S : Owed(rows, t) => OfferOf(t) # u
           /\ \/ Unused(u) /\ \A t \in S : OfferOf(t) = None
              \/ ~Unused(u) /\ \A t \in S : OfferOf(t) = u
<1> USE DEF DutyInv, Linked
<1>1. CASE \E t \in S : OfferOf(t) # None
  <2>1. S = {t \in Tasks : Eligible(t) /\ OfferOf(t) = u}
    BY <1>1 DEF Offer, OfferOf
  <2>2. PICK s \in S : TRUE
    OBVIOUS
  <2>3. /\ Owed(rows, s) /\ Eligible(s) /\ s \in Tasks /\ OfferOf(s) = u /\ u # None
    BY <2>1, <2>2, TasksAssumption DEF Eligible, Inputs
  <2>4. deliveries[u] = None
    BY <2>3 DEF Offers, Eligible, Incomplete
  <2>5. ~AtSdk(u) /\ Silent(u) /\ \A q \in queued : q.uuid # u
    BY <2>3, <2>4 DEF Offers
  <2>6. ASSUME NEW t \in Tasks \ S, Owed(rows, t), OfferOf(t) = u PROVE FALSE
    <3>1. rows[t].notice.told < NoticeDeliveries
      BY <2>3, <2>6 DEF RowsInv, Kept, Good, Sound, Owed, OfferOf
    <3>2. PICK v \in Reminders : Incomplete(v) /\ TokenOf(rows, t) \in deliveries[v].tokens
      BY <2>1, <2>6, <3>1 DEF Eligible, Incomplete
    <3>3. v = u
      BY <2>3, <2>6, <3>2 DEF Blocks
    <3> QED  BY <2>4, <3>2, <3>3 DEF Incomplete
  <2>7. ~Unused(u)
    BY <2>3 DEF Unused, OfferOf
  <2> QED  BY <2>1, <2>4, <2>5, <2>6, <2>7
<1>2. CASE \A t \in S : OfferOf(t) = None
  <2>1. Unused(u)
    BY <1>2 DEF Offer, OfferOf
  <2> QED  BY <1>2, <2>1 DEF Unused, AtSdk, Silent, InResults, OfferOf
<1> QED  BY <1>1, <1>2

LEMMA DeliverLinked ==
    ASSUME DutyInv, NEW S \in SUBSET {t \in Tasks : Eligible(t)}, NEW u \in Reminders, Deliver(S, u)
    PROVE  Linked' /\ \A t \in Tasks : Owed(rows', t) <=> Owed(rows, t)
<1> USE DEF DutyInv, Linked
<1> DEFINE tokens == {TokenOf(rows, t) : t \in S}
           new == [uuid |-> u, tokens |-> tokens]
<1>1. /\ ~AtSdk(u) /\ Silent(u) /\ deliveries[u] = None /\ \A q \in queued : q.uuid # u
      /\ \A t \in Tasks \ S : Owed(rows, t) => OfferOf(t) # u
      /\ \/ Unused(u) /\ \A t \in S : OfferOf(t) = None
         \/ ~Unused(u) /\ \A t \in S : OfferOf(t) = u
  BY MayQueue DEF Deliver
<1>2. /\ deliveries' = [deliveries EXCEPT ![u] = [tokens |-> tokens, consumed |-> FALSE, completed |-> FALSE]]
      /\ queued' = queued \union {new}
      /\ transcript' = IF Unused(u) THEN transcript \ {u} ELSE transcript
      /\ UNCHANGED <<unseen, turn, commands, results, marks, shown, acknowledged, reply>>
  BY DEF Deliver, sdk
<1>3. ASSUME NEW t \in Tasks
      PROVE  /\ Owed(rows', t) <=> Owed(rows, t)
             /\ Owed(rows, t) => /\ TokenOf(rows', t) = TokenOf(rows, t)
                                /\ rows'[t].notice.told = rows[t].notice.told
                                /\ OfferOf(t)' = IF t \in S THEN u ELSE OfferOf(t)
  <2>1. rows' = [s \in Tasks |-> IF s \in S THEN [rows[s] EXCEPT !.notice.offered = u] ELSE rows[s]]
    BY DEF Deliver
  <2>2. CASE t \notin S
    BY <2>1, <2>2 DEF Owed, TokenOf, OfferOf
  <2>3. CASE t \in S
    <3>1. Owed(rows, t) /\ rows[t] \in Row /\ rows[t].notice \in Notice
      BY <2>3, OfferType DEF Eligible, RowsInv
    <3> DEFINE m == [rows[t].notice EXCEPT !.offered = u]
    <3>2. m \in Notice /\ m.token = rows[t].notice.token /\ m.told = rows[t].notice.told /\ m.offered = u
      BY <3>1 DEF Notice
    <3>3. rows'[t] = [rows[t] EXCEPT !.notice = m]
      BY <2>1, <2>3, <3>1 DEF Row, Notice
    <3> HIDE DEF m
    <3>4. rows'[t] \in Row /\ rows'[t].notice = m
      BY <3>1, <3>2, <3>3 DEF Row
    <3>5. rows'[t] # None /\ m # None
      BY <3>2, <3>4, NoneAssumption
    <3> QED  BY <2>3, <3>1, <3>2, <3>4, <3>5 DEF Owed, TokenOf, OfferOf
  <2> QED  BY <2>2, <2>3
<1>4. /\ \A t \in S : t \in Tasks /\ Owed(rows, t)
      /\ \A t \in S, v \in Reminders : Incomplete(v) => TokenOf(rows, t) \notin deliveries[v].tokens
  BY DEF Eligible, Incomplete
<1>5. /\ deliveries'[u] = [tokens |-> tokens, consumed |-> FALSE, completed |-> FALSE]
      /\ deliveries'[u] # None /\ Incomplete(u)'
      /\ \A v \in Reminders \ {u} : deliveries'[v] = deliveries[v] /\ (Incomplete(v)' <=> Incomplete(v))
  <2>1. deliveries'[u] = [tokens |-> tokens, consumed |-> FALSE, completed |-> FALSE]
    BY <1>2 DEF RowsInv, TypeOK
  <2>2. tokens \subseteq Token
    BY <1>4, TokenType DEF RowsInv
  <2>3. deliveries'[u] \in Delivery /\ ~deliveries'[u].completed
    BY <2>1, <2>2 DEF Delivery
  <2>4. \A v \in Reminders \ {u} : deliveries'[v] = deliveries[v]
    BY <1>2 DEF RowsInv, TypeOK
  <2> QED  BY <2>1, <2>3, <2>4, NoneAssumption DEF Incomplete
<1>6. /\ \A v : InResults(v)' = InResults(v)
      /\ \A v : AtSdk(v)' = AtSdk(v)
      /\ \A v : Silent(v)' = Silent(v)
      /\ \A k : MarkedSeen(k)' = MarkedSeen(k)
  BY <1>2 DEF InResults, AtSdk, Silent, MarkedSeen
<1>7. \A v : v # u => (v \in transcript' <=> v \in transcript)
  BY <1>2
<1>8. ASSUME NEW t \in Tasks, Owed(rows, t), TokenOf(rows, t) \in tokens PROVE t \in S
  <2>1. PICK s \in S : TokenOf(rows, t) = TokenOf(rows, s)
    BY <1>8
  <2>2. s = t
    BY <1>4, <1>8, <2>1 DEF Named
  <2> QED  BY <2>2
<1>9. Named' /\ SeenFirst' /\ Apart' /\ Marked'
  <2>1. Named' /\ SeenFirst'
    BY <1>2, <1>3, <1>6 DEF Named, SeenFirst
  <2>2. Apart' /\ Marked'
    BY <1>2 DEF Apart, Marked
  <2> QED  BY <2>1, <2>2
<1>10. Told'
  <2> SUFFICES ASSUME NEW t \in Tasks
               PROVE  IF Owed(rows', t)
                      THEN shown'[t] = rows'[t].notice.told + (IF OfferOf(t)' \in transcript' THEN 1 ELSE 0)
                      ELSE shown'[t] = 0
    BY DEF Told
  <2>1. CASE ~Owed(rows, t)
    BY <1>2, <1>3, <2>1 DEF Told
  <2>2. CASE Owed(rows, t) /\ t \notin S
    BY <1>1, <1>2, <1>3, <1>7, <2>2 DEF Told
  <2>3. CASE Owed(rows, t) /\ t \in S
    <3>1. None \notin transcript
      BY TasksAssumption DEF RowsInv, TypeOK, Inputs
    <3>2. OfferOf(t)' \in transcript' <=> OfferOf(t) \in transcript
      BY <1>1, <1>2, <1>3, <2>3, <3>1
    <3> QED  BY <1>2, <1>3, <2>3, <3>2 DEF Told
  <2> QED  BY <2>1, <2>2, <2>3
<1>11. Offers'
  <2> SUFFICES ASSUME NEW t \in Tasks, Owed(rows', t), OfferOf(t)' # None,
                      NEW v, v = OfferOf(t)'
               PROVE  /\ v \in turn' => v \in unseen'
                      /\ ~InResults(v)'
                      /\ v \in commands' => v \in transcript'
                      /\ deliveries'[v] # None => Incomplete(v)' /\ TokenOf(rows', t) \in deliveries'[v].tokens
                      /\ deliveries'[v] = None => ~AtSdk(v)' /\ Silent(v)' /\ \A q \in queued' : q.uuid # v
    BY DEF Offers
  <2>1. CASE t \in S
    <3>1. v = u /\ TokenOf(rows', t) \in tokens
      BY <1>3, <2>1
    <3> QED  BY <1>1, <1>2, <1>5, <1>6, <3>1 DEF AtSdk
  <2>2. CASE t \notin S
    <3>1. Owed(rows, t) /\ v = OfferOf(t) /\ v # u /\ TokenOf(rows', t) = TokenOf(rows, t)
      BY <1>1, <1>3, <2>2
    <3>2. v \in Reminders \ {u}
      BY <3>1, OfferType DEF RowsInv
    <3>3. deliveries'[v] = deliveries[v] /\ (Incomplete(v)' <=> Incomplete(v))
      BY <1>5, <3>2
    <3> QED  BY <1>2, <1>6, <1>7, <3>1, <3>3 DEF Offers
  <2> QED  BY <2>1, <2>2
<1>12. Blocks'
  <2> SUFFICES ASSUME NEW t \in Tasks, NEW v \in Reminders, Owed(rows', t), Incomplete(v)',
                      TokenOf(rows', t) \in deliveries'[v].tokens
               PROVE  OfferOf(t)' \in {None, v}
    BY DEF Blocks
  <2>1. CASE v = u
    BY <1>3, <1>5, <1>8, <2>1
  <2>2. CASE v # u
    BY <1>3, <1>4, <1>5, <2>2 DEF Blocks
  <2> QED  BY <2>1, <2>2
<1>13. Waiting'
  <2> SUFFICES ASSUME NEW q \in queued'
               PROVE  /\ Incomplete(q.uuid)' /\ deliveries'[q.uuid].tokens = q.tokens
                      /\ ~AtSdk(q.uuid)' /\ Silent(q.uuid)'
                      /\ \A t \in Tasks : Owed(rows', t) /\ TokenOf(rows', t) \in q.tokens
                            => OfferOf(t)' = q.uuid
    BY DEF Waiting
  <2>1. CASE q = new
    BY <1>1, <1>3, <1>5, <1>6, <1>8, <2>1
  <2>2. CASE q \in queued
    <3>1. q.uuid \in Reminders \ {u}
      BY <1>1, <2>2 DEF RowsInv, TypeOK
    <3>2. \A t \in S : TokenOf(rows, t) \notin q.tokens
      BY <1>4, <2>2, <3>1 DEF Waiting
    <3> QED  BY <1>3, <1>5, <1>6, <2>2, <3>1, <3>2 DEF Waiting
  <2> QED  BY <1>2, <2>1, <2>2
<1>14. Announced'
  <2>1. u \notin unseen
    BY <1>1 DEF Announced, AtSdk
  <2> QED  BY <1>2, <1>7, <2>1 DEF Announced
<1> QED  BY <1>3, <1>9, <1>10, <1>11, <1>12, <1>13, <1>14

\* The SDK consumes a reminder: the agent sees the notices that are on offer
\* under it, unless the conversation had it already.
LEMMA BeginLinked ==
    ASSUME DutyInv, NEW q \in queued, SdkBegin(q)
    PROVE  Linked' /\ D!Next
<1> USE DEF DutyInv, Linked
<1> DEFINE u == q.uuid
<1>1. /\ unseen = {} /\ queued' = queued \ {q} /\ commands' = commands \union {u}
      /\ transcript' = transcript \union {u}
      /\ UNCHANGED <<rows, deliveries, acknowledged, reply, results, marks>>
  BY DEF SdkBegin
<1>2. /\ u \in Reminders /\ u # None /\ q.tokens \subseteq Token /\ None \notin q.tokens
      /\ Incomplete(u) /\ deliveries[u] # None /\ deliveries[u].tokens = q.tokens
      /\ ~AtSdk(u) /\ Silent(u)
  BY TasksAssumption, NoneAssumption DEF Waiting, Incomplete, RowsInv, TypeOK, Inputs
<1>3. /\ \A t \in Tasks : Owed(rows, t) => (TokenOf(rows, t) \in q.tokens <=> OfferOf(t) = u)
      /\ \A t \in Tasks : ~Owed(rows, t) => TokenOf(rows, t) \notin q.tokens
  BY <1>2 DEF Waiting, Offers, TokenOf
<1>4. ASSUME NEW p \in queued' PROVE p \in queued /\ p.uuid # u
  <2>1. p \in queued /\ p # q
    BY <1>1
  <2>2. p.uuid = u => p.tokens = q.tokens
    BY <1>2, <2>1 DEF Waiting
  <2>3. /\ p = [uuid |-> p.uuid, tokens |-> p.tokens]
        /\ q = [uuid |-> q.uuid, tokens |-> q.tokens]
    BY <2>1 DEF RowsInv, TypeOK
  <2> QED  BY <2>1, <2>2, <2>3
<1>5. /\ \A v : InResults(v)' = InResults(v) /\ Silent(v)' = Silent(v)
      /\ \A v : Incomplete(v)' = Incomplete(v)
      /\ \A k : MarkedSeen(k)' = MarkedSeen(k)
      /\ \A t \in Tasks : OfferOf(t)' = OfferOf(t) /\ (Agreed(t)' <=> Agreed(t))
  BY <1>1 DEF InResults, Silent, Incomplete, MarkedSeen, OfferOf, Agreed
<1>6. \/ u \in transcript /\ UNCHANGED <<transcript, unseen, turn, shown>>
      \/ /\ u \notin transcript /\ unseen' = {u} /\ turn' = turn \union {u}
         /\ shown' = [t \in Tasks |-> IF TokenOf(rows, t) \in q.tokens THEN shown[t] + 1 ELSE shown[t]]
  BY <1>1 DEF SdkBegin
<1>7. \A v : v # u => (AtSdk(v)' <=> AtSdk(v)) /\ (v \in transcript' <=> v \in transcript)
  BY <1>1, <1>5, <1>6 DEF AtSdk
<1>8. ASSUME NEW t \in Tasks
      PROVE  /\ shown[t] \in Nat
             /\ shown'[t] = shown[t] + IF Owed(rows, t) /\ OfferOf(t) = u /\ u \notin transcript THEN 1 ELSE 0
  BY <1>3, <1>6 DEF RowsInv, TypeOK
<1>9. Named' /\ SeenFirst' /\ Blocks'
  <2>1. Named' /\ Blocks'
    BY <1>1, <1>5 DEF Named, Blocks
  <2>2. \A t \in Tasks : shown[t] > 0 => shown'[t] > 0
    BY <1>8
  <2> QED  BY <1>1, <1>5, <2>1, <2>2 DEF SeenFirst
<1>10. Told'
  <2> SUFFICES ASSUME NEW t \in Tasks
               PROVE  IF Owed(rows, t)
                      THEN shown'[t] = rows[t].notice.told + (IF OfferOf(t) \in transcript' THEN 1 ELSE 0)
                      ELSE shown'[t] = 0
    BY <1>1, <1>5 DEF Told
  <2>1. CASE ~Owed(rows, t)
    BY <1>8, <2>1 DEF Told
  <2>2. CASE Owed(rows, t)
    <3>1. rows[t].notice.told \in Nat
      BY <2>2, OfferType, LimitsAssumption DEF RowsInv
    <3>2. CASE OfferOf(t) = u
      BY <1>1, <1>8, <2>2, <3>1, <3>2 DEF Told
    <3>3. CASE OfferOf(t) # u
      BY <1>7, <1>8, <2>2, <3>1, <3>3 DEF Told
    <3> QED  BY <3>2, <3>3
  <2> QED  BY <2>1, <2>2
<1>11. Offers'
  <2> SUFFICES ASSUME NEW t \in Tasks, Owed(rows, t), OfferOf(t) # None, NEW v, v = OfferOf(t)
               PROVE  /\ v \in turn' => v \in unseen'
                      /\ ~InResults(v)
                      /\ v \in commands' => v \in transcript'
                      /\ deliveries[v] # None => Incomplete(v) /\ TokenOf(rows, t) \in deliveries[v].tokens
                      /\ deliveries[v] = None => ~AtSdk(v)' /\ Silent(v) /\ \A p \in queued' : p.uuid # v
    BY <1>1, <1>5 DEF Offers
  <2>1. CASE v = u
    BY <1>1, <1>2, <1>3, <1>6, <2>1 DEF AtSdk
  <2>2. CASE v # u
    BY <1>1, <1>4, <1>6, <1>7, <2>2 DEF Offers
  <2> QED  BY <2>1, <2>2
<1>12. Waiting'
  <2> SUFFICES ASSUME NEW p \in queued'
               PROVE  /\ Incomplete(p.uuid) /\ deliveries[p.uuid].tokens = p.tokens
                      /\ ~AtSdk(p.uuid)' /\ Silent(p.uuid)
                      /\ \A t \in Tasks : Owed(rows, t) /\ TokenOf(rows, t) \in p.tokens
                            => OfferOf(t) = p.uuid
    BY <1>1, <1>5 DEF Waiting
  <2> QED  BY <1>4, <1>7 DEF Waiting
<1>13. Announced' /\ Apart' /\ Marked'
  <2>1. CASE u \in transcript /\ UNCHANGED <<transcript, unseen, turn, shown>>
    BY <1>1, <2>1 DEF Announced, Apart, Marked
  <2>2. CASE u \notin transcript /\ unseen' = {u} /\ turn' = turn \union {u}
    <3>1. u \notin turn /\ \A i \in DOMAIN results : u \notin results[i].inputs
      BY <1>2 DEF AtSdk, InResults
    <3>2. Announced'
      BY <1>1, <2>2, <3>1 DEF Announced
    <3>3. Apart'
      BY <1>1, <2>2, <3>1 DEF Apart
    <3>4. Marked'
      BY <1>1, <1>2, <2>2 DEF Marked, Silent
    <3> QED  BY <3>2, <3>3, <3>4
  <2> QED  BY <1>6, <2>1, <2>2
<1>14. D!Next
  <2>1. ASSUME NEW d \in Tasks, Owed(rows, d), OfferOf(d) = u, u \notin transcript
        PROVE  /\ shown[d] < NoticeDeliveries /\ Owed(rows', d) /\ shown'[d] = shown[d] + 1
               /\ Agreed(d)' <=> Agreed(d)
    <3>1. rows[d].notice.told < NoticeDeliveries
      BY <1>2, <2>1 DEF RowsInv, Kept, Good, Sound, Owed, OfferOf
    <3>2. shown[d] = rows[d].notice.told + 0
      BY <2>1 DEF Told
    <3>3. rows[d].notice.told \in Nat
      BY <2>1, OfferType, LimitsAssumption DEF RowsInv
    <3> QED  BY <1>1, <1>5, <1>8, <2>1, <3>1, <3>2, <3>3
  <2>2. ASSUME NEW d \in Tasks, ~(Owed(rows, d) /\ OfferOf(d) = u /\ u \notin transcript)
        PROVE  /\ (Owed(rows', d) <=> Owed(rows, d)) /\ shown'[d] = shown[d]
               /\ Agreed(d)' => Owed(rows, d) /\ shown[d] > 0
    <3>1. shown'[d] = shown[d]
      BY <1>8, <2>2
    <3> QED  BY <1>1, <1>5, <3>1, AgreedShown
  <2> QED  BY <2>1, <2>2, DutyStep
<1> QED  BY <1>9, <1>10, <1>11, <1>12, <1>13, <1>14

\* The runner learns that a reminder was consumed: what the conversation knew
\* is now counted in the rows, so that nothing was told anew.
LEMMA ConsumedIs ==
    ASSUME RowsInv, NEW u \in Inputs, NEW t \in Tasks
    PROVE  LET R == Consumed(rows, {u}) IN
           /\ Owed(R, t) <=> Owed(rows, t)
           /\ Owed(rows, t) => TokenOf(R, t) = TokenOf(rows, t)
           /\ Owed(rows, t) /\ OfferOf(t) # u => R[t] = rows[t]
           /\ Owed(rows, t) /\ OfferOf(t) = u =>
                R[t].notice.offered = None /\ R[t].notice.told = rows[t].notice.told + 1
<1> DEFINE R == Consumed(rows, {u})
<1>1. u # None
  BY TasksAssumption
<1>2. CASE ~(Owed(rows, t) /\ OfferOf(t) = u)
  <2>1. R[t] = rows[t]
    BY <1>2 DEF Consumed, OfferOf
  <2> QED  BY <1>2, <2>1 DEF Owed, TokenOf
<1>3. CASE Owed(rows, t) /\ OfferOf(t) = u
  <2>1. /\ rows[t] \in Row /\ rows[t].notice \in Notice
        /\ rows[t].notice.told < NoticeDeliveries /\ rows[t].notice.told \in 0..NoticeDeliveries
    BY <1>1, <1>3, OfferType DEF RowsInv, Kept, Good, Sound, Owed, OfferOf
  <2> DEFINE n == [rows[t].notice EXCEPT !.told = @ + 1, !.consumed = TRUE, !.offered = None]
  <2>2. rows[t].notice.told + 1 \in 0..NoticeDeliveries
    BY <2>1, LimitsAssumption
  <2>3. /\ n \in Notice /\ n.token = rows[t].notice.token /\ n.offered = None
        /\ n.told = rows[t].notice.told + 1
    BY <2>1, <2>2 DEF Notice
  <2>4. R[t] = [rows[t] EXCEPT !.notice = n]
    BY <1>3, <2>1 DEF Consumed, OfferOf, Row, Notice
  <2> HIDE DEF n
  <2>5. R[t] \in Row /\ R[t].notice = n
    BY <2>1, <2>3, <2>4 DEF Row
  <2>6. R[t] # None /\ n # None
    BY <2>3, <2>5, NoneAssumption
  <2> QED  BY <1>3, <2>3, <2>5, <2>6 DEF Owed, TokenOf
<1> QED  BY <1>2, <1>3

LEMMA ConsumeLinked ==
    ASSUME DutyInv, NEW u \in Inputs, u \in turn \union commands, u \in unseen \/ unseen = {},
           rows' = Consumed(rows, {u}), shown' = ShownFor(rows'),
           transcript' = transcript \ {u}, unseen' = unseen \ {u}, commands' \subseteq commands,
           UNCHANGED <<acknowledged, queued, turn, results, marks>>,
           reply' = None \/ (reply' = reply /\ (u \in unseen => turn # {u})),
           \A v \in Reminders \ {u} : deliveries'[v] = deliveries[v],
           u \in Reminders /\ deliveries[u] # None => deliveries'[u].tokens = deliveries[u].tokens,
           u \in Reminders /\ deliveries[u] = None => deliveries'[u] = None,
           u \in Reminders /\ Incomplete(u)' => Incomplete(u)
    PROVE  /\ Linked' /\ shown' = shown
           /\ \A t \in Tasks : Owed(rows', t) <=> Owed(rows, t)
<1> USE DEF DutyInv, Linked
<1>1. ASSUME NEW t \in Tasks
      PROVE  /\ Owed(rows', t) <=> Owed(rows, t)
             /\ Owed(rows, t) => TokenOf(rows', t) = TokenOf(rows, t)
             /\ Owed(rows, t) /\ OfferOf(t) # u =>
                    OfferOf(t)' = OfferOf(t) /\ rows'[t].notice.told = rows[t].notice.told
             /\ Owed(rows, t) /\ OfferOf(t) = u =>
                    OfferOf(t)' = None /\ rows'[t].notice.told = rows[t].notice.told + 1
  BY ConsumedIs DEF OfferOf
<1>2. shown' = shown
  <2>1. \A t \in Tasks : TokenOf(rows', t) = TokenOf(rows, t)
    BY <1>1 DEF TokenOf
  <2> QED  BY <2>1 DEF ShownFor, RowsInv, TypeOK
<1>3. ASSUME NEW t \in Tasks, Owed(rows, t), OfferOf(t) = u
      PROVE  u \in transcript
  <2>1. u # None
    BY TasksAssumption
  <2> QED  BY <1>3, <2>1 DEF Offers, Announced
<1>4. AtSdk(u) /\ None \notin transcript
  BY TasksAssumption DEF AtSdk, RowsInv, TypeOK, Inputs
<1>5. /\ \A v : InResults(v)' = InResults(v) /\ Silent(v)' = Silent(v)
      /\ \A v : AtSdk(v)' => AtSdk(v)
      /\ \A k : MarkedSeen(k)' = MarkedSeen(k)
      /\ \A v \in Reminders \ {u} : Incomplete(v)' <=> Incomplete(v)
  BY DEF InResults, Silent, AtSdk, MarkedSeen, Incomplete
<1>6. Named' /\ SeenFirst' /\ Apart' /\ Marked'
  BY <1>1, <1>2, <1>5 DEF Named, SeenFirst, Apart, Marked
<1>7. Told'
  <2> SUFFICES ASSUME NEW t \in Tasks
               PROVE  IF Owed(rows', t)
                      THEN shown'[t] = rows'[t].notice.told + (IF OfferOf(t)' \in transcript' THEN 1 ELSE 0)
                      ELSE shown'[t] = 0
    BY DEF Told
  <2>1. CASE ~Owed(rows, t)
    BY <1>1, <1>2, <2>1 DEF Told
  <2>2. CASE Owed(rows, t) /\ OfferOf(t) # u
    BY <1>1, <1>2, <2>2 DEF Told
  <2>3. CASE Owed(rows, t) /\ OfferOf(t) = u
    <3>1. shown[t] = rows[t].notice.told + 1
      BY <1>3, <2>3 DEF Told
    <3>2. rows[t].notice.told \in Nat
      BY <2>3, OfferType, LimitsAssumption DEF RowsInv
    <3>3. /\ Owed(rows', t) /\ OfferOf(t)' \notin transcript'
          /\ rows'[t].notice.told = rows[t].notice.told + 1 /\ shown'[t] = shown[t]
      BY <1>1, <1>2, <1>4, <2>3
    <3> QED  BY <3>1, <3>2, <3>3
  <2> QED  BY <2>1, <2>2, <2>3
<1>8. Offers'
  <2> SUFFICES ASSUME NEW t \in Tasks, Owed(rows', t), OfferOf(t)' # None, NEW v, v = OfferOf(t)'
               PROVE  /\ v \in turn' => v \in unseen'
                      /\ ~InResults(v)'
                      /\ v \in commands' => v \in transcript'
                      /\ deliveries'[v] # None => Incomplete(v)' /\ TokenOf(rows', t) \in deliveries'[v].tokens
                      /\ deliveries'[v] = None => ~AtSdk(v)' /\ Silent(v)' /\ \A p \in queued' : p.uuid # v
    BY DEF Offers
  <2>1. /\ Owed(rows, t) /\ v = OfferOf(t) /\ v # u /\ v # None
        /\ TokenOf(rows', t) = TokenOf(rows, t)
    BY <1>1
  <2>2. v \in Reminders \ {u}
    BY <2>1, OfferType DEF RowsInv
  <2>3. deliveries'[v] = deliveries[v] /\ (Incomplete(v)' <=> Incomplete(v))
    BY <1>5, <2>2
  <2> QED  BY <1>5, <2>1, <2>3 DEF Offers
<1>9. Blocks'
  <2> SUFFICES ASSUME NEW t \in Tasks, NEW v \in Reminders, Owed(rows', t), Incomplete(v)',
                      TokenOf(rows', t) \in deliveries'[v].tokens
               PROVE  OfferOf(t)' \in {None, v}
    BY DEF Blocks
  <2>1. Incomplete(v) /\ deliveries'[v].tokens = deliveries[v].tokens
    BY <1>5 DEF Incomplete
  <2> QED  BY <1>1, <2>1 DEF Blocks
<1>10. Waiting'
  <2> SUFFICES ASSUME NEW p \in queued
               PROVE  /\ Incomplete(p.uuid)' /\ deliveries'[p.uuid].tokens = p.tokens
                      /\ ~AtSdk(p.uuid)' /\ Silent(p.uuid)'
                      /\ \A t \in Tasks : Owed(rows', t) /\ TokenOf(rows', t) \in p.tokens
                            => OfferOf(t)' = p.uuid
    BY DEF Waiting
  <2>1. p.uuid \in Reminders \ {u}
    BY <1>4 DEF Waiting, RowsInv, TypeOK
  <2>2. deliveries'[p.uuid] = deliveries[p.uuid] /\ (Incomplete(p.uuid)' <=> Incomplete(p.uuid))
    BY <1>5, <2>1
  <2> QED  BY <1>1, <1>5, <2>1, <2>2 DEF Waiting
<1>11. Announced'
  BY DEF Announced
<1> QED  BY <1>1, <1>2, <1>6, <1>7, <1>8, <1>9, <1>10, <1>11

LEMMA StartedLinked ==
    ASSUME DutyInv, NEW u \in Reminders, ReadStarted(u)
    PROVE  /\ Linked' /\ shown' = shown
           /\ \A t \in Tasks : Owed(rows', t) <=> Owed(rows, t)
<1>1. /\ u \in Inputs /\ u \in turn \union commands /\ u \in unseen
      /\ rows' = Consumed(rows, {u}) /\ shown' = ShownFor(rows')
      /\ transcript' = transcript \ {u} /\ unseen' = unseen \ {u} /\ commands' \subseteq commands
      /\ UNCHANGED <<acknowledged, queued, turn, results, marks>>
      /\ reply' = None \/ (reply' = reply /\ (u \in unseen => turn # {u}))
  BY DEF ReadStarted, Saves, Inputs, DutyInv, Linked, Announced
<1>2. \A v \in Reminders : deliveries'[v] =
         IF deliveries[v] # None /\ v = u THEN [deliveries[v] EXCEPT !.consumed = TRUE] ELSE deliveries[v]
  BY DEF ReadStarted, DeliveriesConsumed
<1>3. deliveries[u] # None => deliveries[u] \in Delivery /\ deliveries'[u] \in Delivery
           /\ deliveries'[u].tokens = deliveries[u].tokens
           /\ deliveries'[u].completed = deliveries[u].completed
  BY <1>2 DEF Delivery, DutyInv, RowsInv, TypeOK
<1>4. /\ \A v \in Reminders \ {u} : deliveries'[v] = deliveries[v]
      /\ deliveries[u] # None => deliveries'[u].tokens = deliveries[u].tokens
      /\ deliveries[u] = None => deliveries'[u] = None
      /\ Incomplete(u)' => Incomplete(u)
  BY <1>2, <1>3 DEF Incomplete
<1> QED  BY <1>1, <1>4, ConsumeLinked

LEMMA CompletedLinked ==
    ASSUME DutyInv, NEW u \in Inputs, ReadCompleted(u)
    PROVE  /\ Linked' /\ shown' = shown
           /\ \A t \in Tasks : Owed(rows', t) <=> Owed(rows, t)
<1>1. /\ u \in turn \union commands /\ unseen = {}
      /\ rows' = Consumed(rows, {u}) /\ shown' = ShownFor(rows')
      /\ transcript' = transcript \ {u} /\ unseen' = unseen \ {u} /\ commands' \subseteq commands
      /\ UNCHANGED <<acknowledged, queued, turn, results, marks>>
      /\ reply' = None \/ (reply' = reply /\ (u \in unseen => turn # {u}))
  BY DEF ReadCompleted, Saves
<1>2. \A v \in Reminders : deliveries'[v] =
         IF v = u /\ deliveries[v] # None
         THEN [deliveries[v] EXCEPT !.consumed = TRUE, !.completed = TRUE] ELSE deliveries[v]
  BY DEF ReadCompleted
<1>3. u \in Reminders /\ deliveries[u] # None =>
           deliveries'[u].tokens = deliveries[u].tokens /\ deliveries'[u].completed
  BY <1>2 DEF Delivery, DutyInv, RowsInv, TypeOK
<1>4. /\ \A v \in Reminders \ {u} : deliveries'[v] = deliveries[v]
      /\ u \in Reminders /\ deliveries[u] # None => deliveries'[u].tokens = deliveries[u].tokens
      /\ u \in Reminders /\ deliveries[u] = None => deliveries'[u] = None
      /\ u \in Reminders /\ Incomplete(u)' => Incomplete(u)
  BY <1>2, <1>3 DEF Incomplete
<1> QED  BY <1>1, <1>4, ConsumeLinked

(***************************************************************************)
(* Chats, markers and the ends of turns.                                   *)
(***************************************************************************)
LEMMA ChatLinked == ASSUME DutyInv, NEW c \in Chats, ChatStarted(c) PROVE Linked'
<1> USE DEF DutyInv, Linked
<1>1. /\ unseen = {} /\ turn' = turn \union {c} /\ commands' = commands \union {c}
      /\ reply' = IF turn = {} THEN None ELSE reply
      /\ UNCHANGED <<rows, deliveries, acknowledged, queued, transcript, unseen, results, marks, shown>>
      /\ \A k \in Token : c \notin acknowledged[k]
      /\ \A i \in DOMAIN results : c \notin results[i].inputs
  BY DEF ChatStarted, Unsent
<1>2. c \notin Reminders /\ None \notin Reminders
  BY TasksAssumption DEF Inputs
<1>3. /\ \A v : InResults(v)' = InResults(v) /\ Silent(v)' = Silent(v)
      /\ \A v : Incomplete(v)' = Incomplete(v)
      /\ \A v : v # c => (AtSdk(v)' <=> AtSdk(v))
      /\ \A k : MarkedSeen(k)' = MarkedSeen(k)
      /\ \A t \in Tasks : OfferOf(t)' = OfferOf(t)
  BY <1>1 DEF InResults, Silent, Incomplete, AtSdk, MarkedSeen, OfferOf
<1>4. Named' /\ Told' /\ Blocks' /\ SeenFirst'
  BY <1>1, <1>3 DEF Named, Told, Blocks, SeenFirst
<1>5. Offers'
  <2> SUFFICES ASSUME NEW t \in Tasks, Owed(rows, t), OfferOf(t) # None, NEW v, v = OfferOf(t)
               PROVE  /\ v \in turn' => v \in unseen
                      /\ ~InResults(v)
                      /\ v \in commands' => v \in transcript
                      /\ deliveries[v] # None => Incomplete(v) /\ TokenOf(rows, t) \in deliveries[v].tokens
                      /\ deliveries[v] = None => ~AtSdk(v)' /\ Silent(v) /\ \A p \in queued : p.uuid # v
    BY <1>1, <1>3 DEF Offers
  <2>1. v # c
    BY <1>2, OfferType DEF RowsInv
  <2> QED  BY <1>1, <1>3, <2>1 DEF Offers
<1>6. Waiting'
  <2>1. \A q \in queued : q.uuid # c
    BY <1>2 DEF RowsInv, TypeOK
  <2> QED  BY <1>1, <1>3, <2>1 DEF Waiting
<1>7. Announced' /\ Apart' /\ Marked'
  BY <1>1 DEF Announced, Apart, Marked
<1> QED  BY <1>4, <1>5, <1>6, <1>7

\* A message counts for inputs of its own turn, in which the marker it holds
\* was written.
LEMMA ReplyLinked ==
    ASSUME DutyInv, NEW t \in Tasks, NEW stamped \in BOOLEAN, Reply(t, stamped)
    PROVE  Linked'
<1> USE DEF DutyInv, Linked
<1> DEFINE k == TokenOf(rows, t)
           ids == IF stamped THEN turn ELSE IF reply # None THEN reply ELSE {}
<1>1. /\ turn # {} /\ unseen = {} /\ shown[t] > 0 /\ Owed(rows, t)
      /\ marks' = marks \union {k}
      /\ reply' = IF stamped THEN turn ELSE reply
      /\ UNCHANGED <<rows, deliveries, queued, transcript, unseen, turn, commands, results, shown>>
  BY DEF Reply
<1>2. ids \subseteq turn
  BY <1>1 DEF Announced
<1>3. k \in Token
  BY <1>1, TokenType DEF RowsInv
<1>4. \A j \in Token : /\ acknowledged[j] \subseteq acknowledged'[j]
                       /\ acknowledged'[j] \subseteq acknowledged[j] \union (IF j = k THEN ids ELSE {})
  BY <1>3 DEF Reply, RowsInv, TypeOK
<1> HIDE DEF ids
<1>5. /\ \A v : InResults(v)' = InResults(v) /\ AtSdk(v)' = AtSdk(v)
      /\ \A v : Incomplete(v)' = Incomplete(v)
      /\ \A s \in Tasks : OfferOf(s)' = OfferOf(s)
      /\ \A j : MarkedSeen(j)' => MarkedSeen(j) \/ j = k
  BY <1>1 DEF InResults, AtSdk, Incomplete, OfferOf, MarkedSeen
<1>6. \A v : Silent(v) /\ ~AtSdk(v) => Silent(v)'
  BY <1>2, <1>4 DEF Silent, AtSdk
<1>7. Named' /\ Told' /\ Blocks' /\ Apart'
  BY <1>1, <1>5 DEF Named, Told, Blocks, Apart
<1>8. Offers' /\ Waiting'
  BY <1>1, <1>5, <1>6 DEF Offers, Waiting
<1>9. Announced'
  BY <1>1 DEF Announced
<1>10. Marked'
  <2> SUFFICES ASSUME NEW j \in Token, NEW u \in acknowledged'[j]
               PROVE  /\ u \in turn => j \in marks'
                      /\ \A i \in DOMAIN results : u \in results[i].inputs => j \in results[i].marks
    BY <1>1 DEF Marked
  <2>1. CASE u \in acknowledged[j]
    BY <1>1, <2>1 DEF Marked
  <2>2. CASE j = k /\ u \in ids
    BY <1>1, <1>2, <2>2 DEF Apart
  <2> QED  BY <1>4, <2>1, <2>2
<1>11. SeenFirst'
  <2> SUFFICES ASSUME NEW s \in Tasks, Owed(rows, s), MarkedSeen(TokenOf(rows, s))'
               PROVE  shown[s] > 0
    BY <1>1 DEF SeenFirst
  <2>1. MarkedSeen(TokenOf(rows, s)) \/ TokenOf(rows, s) = TokenOf(rows, t)
    BY <1>1, <1>5
  <2>2. TokenOf(rows, s) = TokenOf(rows, t) => s = t
    BY <1>1 DEF Named
  <2> QED  BY <1>1, <2>1, <2>2 DEF SeenFirst
<1> QED  BY <1>7, <1>8, <1>9, <1>10, <1>11

LEMMA EndLinked ==
    ASSUME DutyInv, NEW ok \in BOOLEAN, NEW stamped \in BOOLEAN, EndTurn(ok, stamped)
    PROVE  Linked'
<1> USE DEF DutyInv, Linked
<1> DEFINE r == [inputs |-> turn, stamped |-> stamped, ok |-> ok, marks |-> marks]
           n == Len(results)
<1>1. /\ unseen = {} /\ turn' = {} /\ marks' = {} /\ results' = Append(results, r)
      /\ UNCHANGED <<rows, deliveries, acknowledged, reply, queued, transcript, unseen, commands, shown>>
  BY DEF EndTurn, memory
<1>2. results \in Seq(Result) /\ r.inputs = turn /\ r.marks = marks /\ r \in Result
  BY DEF RowsInv, TypeOK, Result
<1> HIDE DEF r
<1>3. /\ n \in Nat /\ DOMAIN results = 1..n /\ DOMAIN results' = 1..(n + 1)
      /\ \A i \in 1..n : results'[i] = results[i]
      /\ results'[n + 1] = r
  BY <1>1, <1>2
<1> HIDE DEF n
<1>4. /\ n + 1 \in 1..(n + 1) /\ \A i \in 1..n : i \in 1..(n + 1)
      /\ \A i \in 1..(n + 1) : i \in 1..n \/ i = n + 1
  BY <1>3
<1>5. /\ \A v : InResults(v)' <=> InResults(v) \/ v \in turn
      /\ \A j : MarkedSeen(j)' <=> MarkedSeen(j)
  BY <1>1, <1>2, <1>3, <1>4 DEF InResults, MarkedSeen
<1>6. /\ \A v : AtSdk(v)' <=> AtSdk(v)
      /\ \A v : Silent(v)' = Silent(v) /\ Incomplete(v)' = Incomplete(v)
      /\ \A t \in Tasks : OfferOf(t)' = OfferOf(t)
  BY <1>1, <1>5 DEF AtSdk, Silent, Incomplete, OfferOf
<1>7. Named' /\ Told' /\ Blocks' /\ SeenFirst' /\ Announced'
  BY <1>1, <1>5, <1>6 DEF Named, Told, Blocks, SeenFirst, Announced
<1>8. Offers' /\ Waiting'
  BY <1>1, <1>5, <1>6 DEF Offers, Waiting
<1>9. Apart'
  <2>1. ASSUME NEW i \in 1..(n + 1), NEW j \in 1..(n + 1), i # j
        PROVE  results'[i].inputs \intersect results'[j].inputs = {}
    <3>1. CASE i \in 1..n /\ j \in 1..n
      BY <1>3, <2>1, <3>1 DEF Apart
    <3>2. CASE i = n + 1 /\ j \in 1..n
      BY <1>2, <1>3, <3>2 DEF Apart
    <3>3. CASE j = n + 1 /\ i \in 1..n
      BY <1>2, <1>3, <3>3 DEF Apart
    <3> QED  BY <1>4, <2>1, <3>1, <3>2, <3>3
  <2> QED  BY <1>1, <1>3, <2>1 DEF Apart
<1>10. Marked'
  <2> SUFFICES ASSUME NEW k \in Token, NEW u \in acknowledged[k], NEW i \in 1..(n + 1),
                      u \in results'[i].inputs
               PROVE  k \in results'[i].marks
    BY <1>1, <1>3 DEF Marked
  <2>1. CASE i \in 1..n
    BY <1>3, <2>1 DEF Marked
  <2>2. CASE i = n + 1
    BY <1>2, <1>3, <2>2 DEF Marked
  <2> QED  BY <1>4, <2>1, <2>2
<1> QED  BY <1>7, <1>8, <1>9, <1>10

LEMMA IdleLinked == ASSUME DutyInv, ReadIdle PROVE Linked'
<1> USE DEF DutyInv, Linked
<1>1. /\ turn = {} /\ unseen = {} /\ reply' = None
      /\ deliveries' = [u \in Reminders |-> IF deliveries[u] # None /\ deliveries[u].completed
                                            THEN None ELSE deliveries[u]]
      /\ UNCHANGED <<rows, acknowledged, queued, transcript, unseen, turn, commands, results, marks, shown>>
  BY DEF ReadIdle, sdk
<1>2. /\ \A v : InResults(v)' = InResults(v) /\ AtSdk(v)' = AtSdk(v) /\ Silent(v)' = Silent(v)
      /\ \A k : MarkedSeen(k)' = MarkedSeen(k)
      /\ \A t \in Tasks : OfferOf(t)' = OfferOf(t)
  BY <1>1 DEF InResults, AtSdk, Silent, MarkedSeen, OfferOf
<1>3. \A v \in Reminders : /\ deliveries[v] = None \/ Incomplete(v) => deliveries'[v] = deliveries[v]
                           /\ Incomplete(v)' <=> Incomplete(v)
  BY <1>1 DEF Incomplete
<1>4. Named' /\ Told' /\ SeenFirst' /\ Announced' /\ Apart' /\ Marked'
  BY <1>1, <1>2 DEF Named, Told, SeenFirst, Announced, Apart, Marked
<1>5. Offers'
  <2> SUFFICES ASSUME NEW t \in Tasks, Owed(rows, t), OfferOf(t) # None, NEW v, v = OfferOf(t)
               PROVE  /\ v \in turn => v \in unseen
                      /\ ~InResults(v)
                      /\ v \in commands => v \in transcript
                      /\ deliveries'[v] # None => Incomplete(v)' /\ TokenOf(rows, t) \in deliveries'[v].tokens
                      /\ deliveries'[v] = None => ~AtSdk(v) /\ Silent(v) /\ \A p \in queued : p.uuid # v
    BY <1>1, <1>2 DEF Offers
  <2>1. v \in Reminders
    BY OfferType DEF RowsInv
  <2> QED  BY <1>3, <2>1 DEF Offers
<1>6. Blocks'
  <2> SUFFICES ASSUME NEW t \in Tasks, NEW u \in Reminders, Owed(rows, t), Incomplete(u)',
                      TokenOf(rows, t) \in deliveries'[u].tokens
               PROVE  OfferOf(t) \in {None, u}
    BY <1>1, <1>2 DEF Blocks
  <2> QED  BY <1>3 DEF Blocks
<1>7. Waiting'
  <2>1. \A q \in queued : deliveries'[q.uuid] = deliveries[q.uuid] /\ (Incomplete(q.uuid)' <=> Incomplete(q.uuid))
    BY <1>3 DEF Waiting, RowsInv, TypeOK
  <2> QED  BY <1>1, <1>2, <2>1 DEF Waiting
<1> QED  BY <1>4, <1>5, <1>6, <1>7

(***************************************************************************)
(* The end of the process: what is left is the file and the conversation.  *)
(***************************************************************************)
LEMMA GoneIs ==
    ASSUME RowsInv, Gone
    PROVE  /\ transcript' = transcript /\ queued' = {} /\ unseen' = {} /\ turn' = {}
           /\ DOMAIN results' = {} /\ reply' = None
           /\ \A u : ~AtSdk(u)' /\ Silent(u)' /\ u \notin commands'
           /\ \A u \in Reminders : deliveries'[u] = None /\ ~Incomplete(u)'
           /\ \A k \in Token : acknowledged'[k] = {}
           /\ \A k : ~MarkedSeen(k)'
<1>1. /\ transcript' = transcript /\ queued' = {} /\ unseen' = {} /\ turn' = {}
      /\ commands' = {} /\ results' = <<>> /\ marks' = {} /\ reply' = None
      /\ \A u \in Reminders : deliveries'[u] = None
      /\ \A k \in Token : acknowledged'[k] = {}
  BY DEF Gone
<1>2. DOMAIN results' = {}
  BY <1>1
<1> QED  BY <1>1, <1>2 DEF AtSdk, InResults, Silent, Incomplete, MarkedSeen

LEMMA CrashLinked == ASSUME DutyInv, Crash PROVE Linked'
<1> USE DEF DutyInv, Linked
<1>1. UNCHANGED <<rows, shown>> /\ Gone
  BY DEF Crash
<1>2. \A t \in Tasks : OfferOf(t)' = OfferOf(t)
  BY <1>1 DEF OfferOf
<1>3. Named' /\ Told' /\ SeenFirst'
  BY <1>1, <1>2, GoneIs DEF Named, Told, SeenFirst
<1>4. Blocks' /\ Waiting' /\ Announced' /\ Apart' /\ Marked'
  BY <1>1, GoneIs DEF Blocks, Waiting, Announced, Apart, Marked
<1>5. Offers'
  <2> SUFFICES ASSUME NEW t \in Tasks, Owed(rows, t), OfferOf(t) # None, NEW v, v = OfferOf(t)
               PROVE  /\ v \in turn' => v \in unseen'
                      /\ ~InResults(v)'
                      /\ v \in commands' => v \in transcript'
                      /\ deliveries'[v] # None => Incomplete(v)' /\ TokenOf(rows', t) \in deliveries'[v].tokens
                      /\ deliveries'[v] = None => ~AtSdk(v)' /\ Silent(v)' /\ \A p \in queued' : p.uuid # v
    BY <1>1, <1>2 DEF Offers
  <2>1. v \in Reminders
    BY OfferType DEF RowsInv
  <2> QED  BY <1>1, <2>1, GoneIs DEF AtSdk
<1> QED  BY <1>3, <1>4, <1>5

\* The user's Stop is the one step that ends every duty.
LEMMA StopLinked == ASSUME DutyInv, Stop PROVE Linked' /\ D!Next
<1> USE DEF DutyInv, Linked
<1>1. Gone /\ rows' = Cancelled /\ shown' = ShownFor(rows') /\ phase' = "stopped"
  BY DEF Stop, Saves
<1>2. ASSUME NEW t \in Tasks PROVE ~Owed(rows', t) /\ TokenOf(rows', t) = None
  <2>1. rows[t] \in Row \union {None}
    BY DEF RowsInv, TypeOK
  <2>2. rows[t] \in Row =>
            [rows[t] EXCEPT !.state = "ended", !.handled = rows[t].attempt, !.notice = None].notice = None
    BY DEF Row
  <2> QED  BY <1>1, <2>1, <2>2 DEF Cancelled, Owed, TokenOf
<1>3. ASSUME NEW t \in Tasks PROVE shown'[t] = 0
  <2>1. TokenOf(rows, t) = None => ~Owed(rows, t)
    BY TokenType, NoneAssumption DEF RowsInv
  <2> QED  BY <1>1, <1>2, <2>1 DEF ShownFor, Told
<1>4. Named' /\ Told' /\ SeenFirst' /\ Offers' /\ Blocks'
  BY <1>2, <1>3 DEF Named, Told, SeenFirst, Offers, Blocks
<1>5. Waiting' /\ Announced' /\ Apart' /\ Marked'
  BY <1>1, GoneIs DEF Waiting, Announced, Apart, Marked
<1>6. \A d \in Tasks : ~Agreed(d)'
  BY <1>1, GoneIs DEF Agreed
<1>7. D!Next
  BY <1>1, <1>2, <1>3, <1>6 DEF D!Next, D!Stop, D!Over
<1> QED  BY <1>4, <1>5, <1>7

(***************************************************************************)
(* The theorems.                                                           *)
(***************************************************************************)
LEMMA InitLinked == ASSUME Init PROVE Linked /\ D!Init
<1>1. /\ \A t \in Tasks : ~Owed(rows, t) /\ shown[t] = 0
      /\ DOMAIN results = {} /\ turn = {} /\ unseen = {} /\ queued = {}
      /\ \A u \in Reminders : deliveries[u] = None
      /\ \A k \in Token : acknowledged[k] = {}
  BY DEF Init, Owed
<1>2. Linked
  BY <1>1 DEF Linked, Named, Told, Offers, Blocks, Waiting, Announced, Apart, Marked, SeenFirst,
              Incomplete
<1>3. D!Init
  <2>1. shown = [d \in Tasks |-> 0] /\ phase = "up"
    BY DEF Init
  <2>2. /\ {t \in Tasks : Owed(rows, t)} = {}
        /\ {t \in Tasks : Agreed(t)} = {}
        /\ [t \in Tasks |-> shown[t]] = [d \in Tasks |-> 0]
        /\ (phase = "stopped") = FALSE
        /\ (Cardinality({t \in Tasks : rows[t] # None}) >= TaskLimit) \in BOOLEAN
    BY <1>1, <2>1 DEF Agreed
  <2> QED  BY <2>2 DEF D!Init
<1> QED  BY <1>2, <1>3

\* Every step of the runner, with a token to spare, is a step of the promise.
LEMMA DutiesStep ==
    ASSUME DutyInv, TokensSuffice, Next PROVE DutyInv' /\ D!Next
<1>1. RowsInv'
  <2>1. RowsInv /\ [Next]_vars
    BY DEF DutyInv
  <2>2. Kept(rows', work', Open')
    BY <2>1, RowsStep
  <2>3. TypeOK'
    BY <2>1, <2>2, TypeStep DEF Kept, Good, RowsInv
  <2> QED  BY <2>2, <2>3 DEF RowsInv
<1>2. Linked' => DutyInv'
  BY <1>1 DEF DutyInv
<1>3. ASSUME Linked', shown' = shown, \A t \in Tasks : Owed(rows', t) <=> Owed(rows, t)
      PROVE  DutyInv' /\ D!Next
  BY <1>2, <1>3, SameDuty
<1>4. ASSUME Moved(rows'), shown' = ShownFor(rows'), UNCHANGED <<memory, transcript, sdk>>
      PROVE  DutyInv' /\ D!Next
  BY <1>2, <1>4, RowsLinked
<1>5. ASSUME NEW w \in Workers, Start(w) PROVE DutyInv' /\ D!Next
  BY <1>4, <1>5, StartMoves DEF Start, Saves, DutyInv
<1>6. ASSUME NEW w \in Workers, NEW fails \in BOOLEAN, End(w, fails) PROVE DutyInv' /\ D!Next
  BY <1>4, <1>6, EndMoves DEF End, Saves, DutyInv
<1>7. ASSUME NEW S \in SUBSET {t \in Tasks : Eligible(t)}, NEW u \in Reminders, Deliver(S, u)
      PROVE  DutyInv' /\ D!Next
  BY <1>3, <1>7, DeliverLinked DEF Deliver
<1>8. ASSUME NEW q \in queued, SdkBegin(q) PROVE DutyInv' /\ D!Next
  BY <1>2, <1>8, BeginLinked
<1>9. ASSUME NEW u \in Reminders, ReadStarted(u) PROVE DutyInv' /\ D!Next
  BY <1>3, <1>9, StartedLinked
<1>10. ASSUME NEW c \in Chats, ChatStarted(c) PROVE DutyInv' /\ D!Next
  BY <1>3, <1>10, ChatLinked DEF ChatStarted
<1>11. ASSUME NEW t \in Tasks, NEW stamped \in BOOLEAN, Reply(t, stamped) PROVE DutyInv' /\ D!Next
  BY <1>3, <1>11, ReplyLinked DEF Reply
<1>12. ASSUME NEW ok \in BOOLEAN, NEW stamped \in BOOLEAN, EndTurn(ok, stamped) PROVE DutyInv' /\ D!Next
  BY <1>3, <1>12, EndLinked DEF EndTurn
<1>13. ASSUME NEW x \in Turns \union {None}, ReadResult(x) PROVE DutyInv' /\ D!Next
  BY <1>2, <1>13, ResultLinked
<1>14. ASSUME NEW u \in Inputs, ReadCompleted(u) PROVE DutyInv' /\ D!Next
  BY <1>3, <1>14, CompletedLinked
<1>15. CASE ReadIdle
  BY <1>3, <1>15, IdleLinked DEF ReadIdle
<1>16. CASE Crash
  BY <1>3, <1>16, CrashLinked DEF Crash
<1>17. CASE Stop
  BY <1>2, <1>17, StopLinked
<1>18. CASE Restart
  BY <1>4, <1>18, RestartMoves DEF Restart, Saves, DutyInv
<1> QED
  BY <1>5, <1>6, <1>7, <1>8, <1>9, <1>10, <1>11, <1>12, <1>13, <1>14, <1>15, <1>16, <1>17, <1>18
  DEF Next

\* When nothing changes, nothing changes in the promise.
LEMMA DutiesStutter ==
    ASSUME DutyInv, UNCHANGED vars PROVE DutyInv' /\ UNCHANGED D!duties
<1>1. /\ UNCHANGED <<phase, rows, deliveries, acknowledged, reply, queued, chat, transcript>>
      /\ UNCHANGED <<unseen, turn, commands, results, marks, shown, work, stops>>
  BY DEF vars, memory, sdk
<1>2. RowsInv'
  BY <1>1 DEF DutyInv, RowsInv, TypeOK, Kept, Counted, Untouched, Open, ChatsOpen
<1>3. Linked'
  BY <1>1 DEF DutyInv, Linked, Named, Told, Offers, Blocks, Waiting, Announced, Apart, Marked,
              SeenFirst, OfferOf, AtSdk, InResults, Silent, Incomplete, MarkedSeen
<1>4. UNCHANGED D!duties
  BY <1>1 DEF D!duties, Agreed
<1> QED  BY <1>2, <1>3, <1>4 DEF DutyInv

\* Deliveries, queue, conversation and results agree with the notices in every
\* reachable state.
THEOREM DutyInvariant == Spec /\ []TokensSuffice => []DutyInv
<1>1. Init => DutyInv
  BY InitRows, InitLinked DEF DutyInv
<1>2. DutyInv /\ TokensSuffice /\ [Next]_vars => DutyInv'
  BY DutiesStep, DutiesStutter
<1> QED  BY <1>1, <1>2, PTL DEF Spec

\* The ledger implements Duties: no order of failures, reminders, replies,
\* results, evictions, crashes and restarts loses a failure that was not dealt
\* with, settles it on a marker whose turn failed, or reminds the agent of it
\* once too often.
THEOREM ImplementsDuties == Spec /\ []TokensSuffice => KeepsDuty
<1>1. Init => D!Init
  BY InitLinked
<1>2. DutyInv /\ TokensSuffice /\ [Next]_vars => [D!Next]_D!duties
  BY DutiesStep, DutiesStutter
<1> QED  BY <1>1, <1>2, DutyInvariant, PTL DEF Spec, KeepsDuty, D!Spec

(***************************************************************************)
(* With tokens without end one is always free: only those of notices that  *)
(* were made are in use.                                                   *)
(***************************************************************************)
LEMMA InUseIs ==
    ASSUME NEW k
    PROVE  k \in InUse <=>
           \/ \E t \in Tasks : k = TokenOf(rows, t)
           \/ k \in Token /\ acknowledged[k] # {}
           \/ \E u \in Reminders : deliveries[u] # None /\ k \in deliveries[u].tokens
           \/ \E q \in queued : k \in q.tokens
           \/ MarkedSeen(k)
  BY DEF InUse, MarkedSeen

\* A set with an element for every task is finite.
LEMMA TokensOfTasks == ASSUME NEW R PROVE IsFiniteSet({TokenOf(R, t) : t \in Tasks})
<1> DEFINE T == {TokenOf(R, t) : t \in Tasks}
           f == [t \in Tasks |-> TokenOf(R, t)]
<1>1. f \in Surjection(Tasks, T)
  BY DEF Surjection
<1> HIDE DEF f, T
<1>2. IsFiniteSet(T)
  BY <1>1, FS_Surjection, TasksAssumption
<1> QED  BY <1>2 DEF T

\* What a step may do to the tokens that deliveries, queue and markers name.
LEMMA TokenSteps ==
    ASSUME [Next]_vars
    PROVE  \/ UNCHANGED <<deliveries, acknowledged, queued, results, marks>>
           \/ \E S \in SUBSET {t \in Tasks : Eligible(t)}, u \in Reminders : Deliver(S, u)
           \/ \E q \in queued : SdkBegin(q)
           \/ \E u \in Reminders : ReadStarted(u)
           \/ \E t \in Tasks, stamped \in BOOLEAN : Reply(t, stamped)
           \/ \E ok, stamped \in BOOLEAN : EndTurn(ok, stamped)
           \/ \E x \in Turns \union {None} : ReadResult(x)
           \/ \E u \in Inputs : ReadCompleted(u)
           \/ ReadIdle \/ Gone
<1>1. ASSUME NEW w \in Workers, Start(w) \/ \E fails \in BOOLEAN : End(w, fails)
      PROVE  UNCHANGED <<deliveries, acknowledged, queued, results, marks>>
  BY <1>1 DEF Start, End, memory, sdk
<1>2. ASSUME NEW c \in Chats, ChatStarted(c)
      PROVE  UNCHANGED <<deliveries, acknowledged, queued, results, marks>>
  BY <1>2 DEF ChatStarted
<1>3. Restart \/ UNCHANGED vars => UNCHANGED <<deliveries, acknowledged, queued, results, marks>>
  BY DEF Restart, vars, memory, sdk
<1>4. Crash \/ Stop => Gone
  BY DEF Crash, Stop
<1> QED  BY <1>1, <1>2, <1>3, <1>4 DEF Next

\* What a step names, it takes from what was in use or from the new rows.
LEMMA InUseStep ==
    ASSUME TypeOK, [Next]_vars, NEW k, k \in InUse'
    PROVE  k \in InUse \union {TokenOf(rows', t) : t \in Tasks}
<1>1. \/ \E t \in Tasks : k = TokenOf(rows', t)
      \/ k \in Token /\ acknowledged'[k] # {}
      \/ \E u \in Reminders : deliveries'[u] # None /\ k \in deliveries'[u].tokens
      \/ \E q \in queued' : k \in q.tokens
      \/ MarkedSeen(k)'
  BY DEF InUse, MarkedSeen
<1>2. \A t \in Tasks : TokenOf(rows, t) \in InUse
  BY DEF InUse
<1>3. ASSUME \/ k \in Token /\ acknowledged[k] # {}
             \/ \E u \in Reminders : deliveries[u] # None /\ k \in deliveries[u].tokens
             \/ \E q \in queued : k \in q.tokens
             \/ MarkedSeen(k)
      PROVE  k \in InUse
  BY <1>3, InUseIs
<1>4. ASSUME k \in Token, acknowledged'[k] # {} PROVE k \in InUse
  <2>1. CASE acknowledged[k] # {}
    BY <1>3, <1>4, <2>1
  <2>2. CASE acknowledged[k] = {}
    <3>1. \/ acknowledged' = acknowledged
          \/ acknowledged'[k] \subseteq acknowledged[k]
          \/ Gone
          \/ \E t \in Tasks, stamped \in BOOLEAN : Reply(t, stamped)
      BY <1>4, TokenSteps
         DEF memory, Deliver, SdkBegin, ReadStarted, EndTurn, ReadResult, ReadCompleted, ReadIdle
    <3>2. PICK t \in Tasks, stamped \in BOOLEAN : Reply(t, stamped)
      BY <1>4, <2>2, <3>1 DEF Gone
    <3>3. k = TokenOf(rows, t)
      <4>1. \/ acknowledged' = acknowledged
            \/ \E ids : acknowledged' = [acknowledged EXCEPT ![TokenOf(rows, t)] = ids]
        BY <3>2 DEF Reply
      <4>2. acknowledged'[k] # acknowledged[k]
        BY <1>4, <2>2
      <4>3. PICK ids : acknowledged' = [acknowledged EXCEPT ![TokenOf(rows, t)] = ids]
        BY <4>1, <4>2
      <4> QED  BY <1>4, <4>2, <4>3 DEF TypeOK
    <3> QED  BY <1>2, <3>3
  <2> QED  BY <2>1, <2>2
<1>5. ASSUME NEW u \in Reminders, deliveries'[u] # None, k \in deliveries'[u].tokens PROVE k \in InUse
  <2>1. CASE \E S \in SUBSET {t \in Tasks : Eligible(t)}, v \in Reminders : Deliver(S, v)
    <3>1. PICK S \in SUBSET {t \in Tasks : Eligible(t)}, v \in Reminders : Deliver(S, v)
      BY <2>1
    <3>2. \/ deliveries'[u] = deliveries[u]
          \/ deliveries'[u].tokens = {TokenOf(rows, t) : t \in S}
      BY <3>1 DEF Deliver, TypeOK
    <3> QED  BY <1>2, <1>3, <1>5, <3>2
  <2>2. CASE ~\E S \in SUBSET {t \in Tasks : Eligible(t)}, v \in Reminders : Deliver(S, v)
    <3>1. \/ deliveries'[u] = deliveries[u] \/ deliveries'[u] = None
          \/ deliveries'[u] = [deliveries[u] EXCEPT !.consumed = TRUE] /\ deliveries[u] # None
          \/ /\ deliveries'[u] = [deliveries[u] EXCEPT !.consumed = TRUE, !.completed = TRUE]
             /\ deliveries[u] # None
      <4>1. CASE UNCHANGED deliveries \/ Gone
        BY <4>1 DEF Gone
      <4>2. CASE \E v \in Reminders : ReadStarted(v)
        BY <4>2 DEF ReadStarted, DeliveriesConsumed
      <4>3. CASE (\E x \in Turns \union {None} : ReadResult(x)) \/ ReadIdle
        BY <4>3 DEF ReadResult, ReadIdle
      <4>4. CASE \E v \in Inputs : ReadCompleted(v)
        BY <4>4 DEF ReadCompleted
      <4> QED  BY <2>2, <4>1, <4>2, <4>3, <4>4, TokenSteps DEF memory, SdkBegin, Reply, EndTurn
    <3>2. deliveries[u] # None /\ deliveries'[u].tokens = deliveries[u].tokens
      BY <1>5, <3>1 DEF TypeOK, Delivery
    <3> QED  BY <1>3, <1>5, <3>2
  <2> QED  BY <2>1, <2>2
<1>6. ASSUME NEW q \in queued', k \in q.tokens PROVE k \in InUse
  <2>1. CASE \E S \in SUBSET {t \in Tasks : Eligible(t)}, v \in Reminders : Deliver(S, v)
    <3>1. PICK S \in SUBSET {t \in Tasks : Eligible(t)}, v \in Reminders : Deliver(S, v)
      BY <2>1
    <3>2. q \in queued \/ q.tokens = {TokenOf(rows, t) : t \in S}
      BY <3>1 DEF Deliver
    <3> QED  BY <1>2, <1>3, <1>6, <3>2
  <2>2. CASE ~\E S \in SUBSET {t \in Tasks : Eligible(t)}, v \in Reminders : Deliver(S, v)
    <3>1. q \in queued
      <4>1. CASE (\E p \in queued : SdkBegin(p)) \/ Gone
        BY <1>6, <4>1 DEF SdkBegin, Gone
      <4>2. CASE ~((\E p \in queued : SdkBegin(p)) \/ Gone)
        <5>1. queued' = queued
          BY <2>2, <4>2, TokenSteps DEF memory, ReadStarted, Reply, EndTurn, ReadResult, ReadCompleted, ReadIdle
        <5> QED  BY <1>6, <5>1
      <4> QED  BY <4>1, <4>2
    <3> QED  BY <1>3, <1>6, <3>1
  <2> QED  BY <2>1, <2>2
<1>7. ASSUME MarkedSeen(k)' PROVE k \in InUse
  <2>1. CASE \E t \in Tasks, stamped \in BOOLEAN : Reply(t, stamped)
    BY <1>2, <1>3, <1>7, <2>1 DEF Reply, MarkedSeen
  <2>2. CASE \E ok, stamped \in BOOLEAN : EndTurn(ok, stamped)
    <3>1. PICK ok \in BOOLEAN, stamped \in BOOLEAN : EndTurn(ok, stamped)
      BY <2>2
    <3> DEFINE r == [inputs |-> turn, stamped |-> stamped, ok |-> ok, marks |-> marks]
    <3>2. /\ marks' = {} /\ results' = Append(results, r) /\ r.marks = marks
          /\ results \in Seq(Result) /\ r \in Result
      BY <3>1 DEF EndTurn, TypeOK, Result
    <3> HIDE DEF r
    <3>3. \A i \in DOMAIN results' : \/ i \in DOMAIN results /\ results'[i] = results[i]
                                     \/ results'[i] = r
      BY <3>2
    <3> QED  BY <1>3, <1>7, <3>2, <3>3 DEF MarkedSeen
  <2>3. CASE \E x \in Turns \union {None} : ReadResult(x)
    <3>1. marks' = marks /\ results # <<>> /\ results' = Tail(results) /\ results \in Seq(Result)
      BY <2>3 DEF ReadResult, TypeOK
    <3>2. \A i \in DOMAIN results' : i + 1 \in DOMAIN results /\ results'[i] = results[i + 1]
      BY <3>1
    <3> QED  BY <1>3, <1>7, <3>1, <3>2 DEF MarkedSeen
  <2>4. CASE \/ UNCHANGED <<results, marks>>
             \/ Gone
    <3>1. Gone => marks' = {} /\ DOMAIN results' = {}
      BY DEF Gone
    <3> QED  BY <1>3, <1>7, <2>4, <3>1 DEF MarkedSeen
  <2>5. \/ \E t \in Tasks, stamped \in BOOLEAN : Reply(t, stamped)
        \/ \E ok, stamped \in BOOLEAN : EndTurn(ok, stamped)
        \/ \E x \in Turns \union {None} : ReadResult(x)
        \/ UNCHANGED <<results, marks>>
        \/ Gone
    BY TokenSteps DEF sdk, Deliver, SdkBegin, ReadStarted, ReadCompleted, ReadIdle
  <2> QED  BY <2>1, <2>2, <2>3, <2>4, <2>5
<1> QED  BY <1>1, <1>4, <1>5, <1>6, <1>7

LEMMA TokensFree ==
    ASSUME ~IsFiniteSet(Tokens), IsFiniteSet(InUse) PROVE TokensSuffice
<1> SUFFICES ASSUME NEW t \in Tasks, \A k \in Tokens : <<t, k>> \in InUse
             PROVE  IsFiniteSet(Tokens)
  BY DEF TokensSuffice
<1> DEFINE S == InUse \intersect Token
           f == [p \in S |-> p[2]]
<1>1. IsFiniteSet(S)
  BY FS_Subset
<1>2. f \in Surjection(S, Tokens)
  <2>1. \A k \in Tokens : <<t, k>> \in S /\ f[<<t, k>>] = k
    BY DEF Token
  <2>2. f \in [S -> Tokens]
    BY DEF Token
  <2> HIDE DEF f, S
  <2> QED  BY <2>1, <2>2 DEF Surjection
<1> HIDE DEF f, S
<1> QED  BY <1>1, <1>2, FS_Surjection

\* With tokens without end, a new notice always finds one that nothing refers to.
THEOREM TokensAlwaysSuffice == ASSUME ~IsFiniteSet(Tokens) PROVE Spec => []TokensSuffice
<1> DEFINE Finite == IsFiniteSet(InUse)
<1>1. Init => Finite
  <2> SUFFICES ASSUME Init PROVE Finite
    OBVIOUS
  <2> DEFINE T == {TokenOf(rows, t) : t \in Tasks}
  <2>1. InUse \in SUBSET T
    BY InUseIs DEF Init, MarkedSeen
  <2>2. IsFiniteSet(T)
    BY TokensOfTasks
  <2> HIDE DEF T
  <2> QED  BY <2>1, <2>2, FS_Subset
<1>2. Finite /\ TypeOK /\ [Next]_vars => Finite'
  <2> SUFFICES ASSUME Finite, TypeOK, [Next]_vars PROVE Finite'
    OBVIOUS
  <2> DEFINE T == {TokenOf(rows', t) : t \in Tasks}
  <2>1. InUse' \subseteq InUse \union T
    BY InUseStep
  <2>2. IsFiniteSet(T)
    BY TokensOfTasks
  <2> HIDE DEF T
  <2>3. IsFiniteSet(InUse \union T)
    BY <2>2, FS_Union
  <2> QED  BY <2>1, <2>3, FS_Subset
<1>3. Finite => TokensSuffice
  BY TokensFree
<1> HIDE DEF Finite
<1> QED  BY <1>1, <1>2, <1>3, RecoveryTypes, PTL DEF Spec

\* With tokens without end the runner keeps its promise whatever happens.
THEOREM DutiesKept == ASSUME ~IsFiniteSet(Tokens) PROVE Spec => KeepsDuty
  BY TokensAlwaysSuffice, ImplementsDuties, PTL

(***************************************************************************)
(* A reminder's own turn that fails leaves no duty of its own, as long as  *)
(* every result names its inputs.                                          *)
(***************************************************************************)
\* What a turn or an unread result worked on and is no chat is a reminder that
\* the runner knows it sent; and every result names what it worked on.
Remembered ==
    /\ \A u \in Reminders : u \in turn \/ InResults(u) => deliveries[u] # None
    /\ \A i \in DOMAIN results : results[i].stamped /\ results[i].inputs # {}

LEMMA RememberedStep ==
    ASSUME ~Unstamped, DutyInv, Remembered, [Next]_vars PROVE Remembered'
<1> USE DEF DutyInv, Linked
<1>1. results \in Seq(Result)
  BY DEF RowsInv, TypeOK
<1>2. CASE \E q \in queued : SdkBegin(q)
  <2>1. PICK q \in queued : SdkBegin(q)
    BY <1>2
  <2>2. deliveries[q.uuid] # None
    BY DEF Waiting, Incomplete
  <2>3. turn' \subseteq turn \union {q.uuid} /\ UNCHANGED <<results, deliveries>>
    BY <2>1 DEF SdkBegin
  <2> QED  BY <2>2, <2>3 DEF Remembered, InResults
<1>3. CASE \E c \in Chats : ChatStarted(c)
  <2>1. PICK c \in Chats : ChatStarted(c)
    BY <1>3
  <2>2. c \notin Reminders /\ turn' = turn \union {c} /\ UNCHANGED <<results, deliveries>>
    BY <2>1, TasksAssumption DEF ChatStarted
  <2> QED  BY <2>2 DEF Remembered, InResults
<1>4. CASE \E ok, stamped \in BOOLEAN : EndTurn(ok, stamped)
  <2>1. PICK ok \in BOOLEAN, stamped \in BOOLEAN : EndTurn(ok, stamped)
    BY <1>4
  <2> DEFINE r == [inputs |-> turn, stamped |-> stamped, ok |-> ok, marks |-> marks]
  <2>2. /\ stamped /\ turn # {} /\ turn' = {} /\ results' = Append(results, r)
        /\ UNCHANGED deliveries
    BY <2>1 DEF EndTurn, memory
  <2>3. r \in Result /\ r.inputs = turn /\ r.stamped = stamped
    BY DEF RowsInv, TypeOK, Result
  <2> HIDE DEF r
  <2>4. \A i \in DOMAIN results' : \/ i \in DOMAIN results /\ results'[i] = results[i]
                                   \/ results'[i] = r
    BY <1>1, <2>2, <2>3
  <2> QED  BY <2>2, <2>3, <2>4 DEF Remembered, InResults
<1>5. CASE \E x \in Turns \union {None} : ReadResult(x)
  <2> DEFINE r == Head(results)
             ids == IF r.stamped THEN r.inputs ELSE {}
  <2>1. /\ results # <<>> /\ results' = Tail(results) /\ turn' = turn
        /\ deliveries' = [u \in Reminders |-> IF u \in ids THEN None ELSE deliveries[u]]
    BY <1>5 DEF ReadResult
  <2>2. /\ 1 \in DOMAIN results /\ ids \subseteq results[1].inputs
        /\ \A i \in DOMAIN results' :
              i + 1 \in DOMAIN results /\ i + 1 # 1 /\ results'[i] = results[i + 1]
    BY <1>1, <2>1
  <2> HIDE DEF ids
  <2>3. \A u \in Reminders : (u \in turn \/ InResults(u)') => u \notin ids /\ (u \in turn \/ InResults(u))
    BY <2>2 DEF Apart, InResults
  <2> QED  BY <2>1, <2>2, <2>3 DEF Remembered
<1>6. CASE Gone
  <2>1. turn' = {} /\ DOMAIN results' = {}
    BY <1>6 DEF Gone
  <2> QED  BY <2>1 DEF Remembered, InResults
<1>7. CASE ReadIdle
  <2>1. turn' = {} /\ DOMAIN results' = {}
    BY <1>7 DEF ReadIdle, sdk
  <2> QED  BY <2>1 DEF Remembered, InResults
<1>8. CASE UNCHANGED <<turn, results>> /\ \A u \in Reminders : deliveries[u] # None => deliveries'[u] # None
  BY <1>8 DEF Remembered, InResults
<1>9. CASE \E S \in SUBSET {t \in Tasks : Eligible(t)}, u \in Reminders : Deliver(S, u)
  <2>1. PICK S \in SUBSET {t \in Tasks : Eligible(t)}, u \in Reminders : Deliver(S, u)
    BY <1>9
  <2>2. \A v \in Reminders \ {u} : deliveries'[v] = deliveries[v]
    BY <2>1 DEF Deliver, RowsInv, TypeOK
  <2>3. deliveries[u] = None
    BY <2>1, MayQueue DEF Deliver
  <2> QED  BY <1>8, <2>1, <2>2, <2>3 DEF Deliver, sdk
<1>10. CASE \/ \E u \in Reminders : ReadStarted(u)
            \/ \E u \in Inputs : ReadCompleted(u)
  <2>1. UNCHANGED <<turn, results>>
    BY <1>10 DEF ReadStarted, ReadCompleted
  <2>2. ASSUME NEW v \in Reminders, deliveries[v] # None PROVE deliveries'[v] # None
    <3>1. /\ [deliveries[v] EXCEPT !.consumed = TRUE] \in Delivery
          /\ [deliveries[v] EXCEPT !.consumed = TRUE, !.completed = TRUE] \in Delivery
      BY <2>2 DEF RowsInv, TypeOK, Delivery
    <3>2. \/ deliveries'[v] = deliveries[v]
          \/ deliveries'[v] = [deliveries[v] EXCEPT !.consumed = TRUE]
          \/ deliveries'[v] = [deliveries[v] EXCEPT !.consumed = TRUE, !.completed = TRUE]
      <4>1. CASE \E u \in Reminders : ReadStarted(u)
        BY <4>1 DEF ReadStarted, DeliveriesConsumed
      <4>2. CASE \E u \in Inputs : ReadCompleted(u)
        BY <4>2 DEF ReadCompleted
      <4> QED  BY <1>10, <4>1, <4>2
    <3> QED  BY <2>2, <3>1, <3>2, NoneAssumption
  <2> QED  BY <1>8, <2>1, <2>2
<1>11. CASE UNCHANGED <<turn, results, deliveries>>
  BY <1>8, <1>11
<1>12. \/ \E q \in queued : SdkBegin(q)
       \/ \E c \in Chats : ChatStarted(c)
       \/ \E ok, stamped \in BOOLEAN : EndTurn(ok, stamped)
       \/ \E x \in Turns \union {None} : ReadResult(x)
       \/ Gone \/ ReadIdle
       \/ \E S \in SUBSET {t \in Tasks : Eligible(t)}, u \in Reminders : Deliver(S, u)
       \/ \E u \in Reminders : ReadStarted(u)
       \/ \E u \in Inputs : ReadCompleted(u)
       \/ UNCHANGED <<turn, results, deliveries>>
  BY DEF Next, vars, memory, sdk, Start, End, Reply, Crash, Stop, Restart
<1> QED  BY <1>2, <1>3, <1>4, <1>5, <1>6, <1>7, <1>9, <1>10, <1>11, <1>12

\* interrupted makes rows for its inputs only.
LEMMA InterruptedOnly ==
    ASSUME NEW R, NEW inputs, NEW Q \in Interrupted(R, inputs), NEW t \in Tasks \ inputs, R[t] = None
    PROVE  Q[t] = None
<1> DEFINE new == {u \in inputs : R[u] = None}
           again == inputs \intersect Spent(R)
<1>1. PICK taken \in SUBSET (new \union again) :
         \E gone \in Rooms(R, Cardinality(taken)) :
            Q = Noted(Without(R, gone), (inputs \ (new \union gone)) \union taken)
  BY DEF Interrupted
<1>2. PICK gone \in Rooms(R, Cardinality(taken)) :
         Q = Noted(Without(R, gone), (inputs \ (new \union gone)) \union taken)
  BY <1>1
<1> QED  BY <1>1, <1>2 DEF Noted, Without

\* Only a result makes the row of a turn, and only of one that worked on a chat.
LEMMA BreedsNothing ==
    ASSUME DutyInv, Remembered, [Next]_vars, NEW x \in Turns, rows[x] = None, rows'[x] # None
    PROVE  Head(results).inputs \intersect Chats # {}
<1>1. /\ x \in Tasks /\ x \notin Workers /\ x \notin Chats
      /\ rows \in [Tasks -> Row \union {None}] /\ Fits(rows)
  BY TasksAssumption DEF Tasks, DutyInv, RowsInv, TypeOK, Kept
<1>2. ASSUME NEW w \in Workers, Start(w) \/ \E fails \in BOOLEAN : End(w, fails) PROVE FALSE
  <2>1. ASSUME NEW R \in WithRow(rows, w), NEW r, rows' = R \/ rows' = [R EXCEPT ![w] = r] PROVE FALSE
    <3>1. w \in Tasks /\ x \in Tasks \ {w}
      BY <1>1, <1>2 DEF Tasks
    <3>2. R \in [Tasks -> Row \union {None}] /\ \A t \in Tasks \ {w} : R[t] = None \/ R[t] = rows[t]
      BY <1>1, <2>1, <3>1, WithRowIs
    <3>3. rows'[x] = R[x]
      BY <2>1, <3>1, <3>2
    <3> QED  BY <1>2, <3>1, <3>2, <3>3
  <2>2. CASE Start(w)
    <3>1. PICK R \in WithRow(rows, w) :
             \/ rows' = R
             \/ rows' = [R EXCEPT ![w].state = "running", ![w].attempt = @ + 1]
      BY <2>2 DEF Start, Saves
    <3> QED  BY <2>1, <3>1
  <2>3. ASSUME NEW fails \in BOOLEAN, End(w, fails) PROVE FALSE
    <3>1. PICK R \in WithRow(rows, w) :
             \/ rows' = R
             \/ rows' = [R EXCEPT ![w] = IF fails THEN FailedTask(w, [@ EXCEPT !.state = "failed"])
                                         ELSE [@ EXCEPT !.state = "ended"]]
      BY <2>3 DEF End, Saves
    <3> QED  BY <2>1, <3>1
  <2> QED  BY <1>2, <2>2, <2>3
<1>3. ASSUME NEW ids, rows' = Consumed(rows, ids) PROVE FALSE
  BY <1>1, <1>3 DEF Consumed, Owed
<1>4. ASSUME NEW S \in SUBSET {t \in Tasks : Eligible(t)}, NEW u \in Reminders, Deliver(S, u) PROVE FALSE
  BY <1>1, <1>4 DEF Deliver, Eligible, Owed
<1>5. CASE Stop
  BY <1>1, <1>5 DEF Stop, Saves, Cancelled
<1>6. CASE Restart
  <2>1. Recovered[x] = None
    BY <1>1 DEF Recovered
  <2>2. rows' \in Interrupted(Recovered, Open) /\ x \notin Open
    BY <1>1, <1>6, OpenIs DEF Restart, Saves, Open
  <2> QED  BY <1>1, <2>1, <2>2, InterruptedOnly
<1>7. ASSUME NEW y \in Turns \union {None}, ReadResult(y)
      PROVE  Head(results).inputs \intersect Chats # {}
  <2> DEFINE r == Head(results)
             ids == IF r.stamped THEN r.inputs ELSE {}
             minted == IF r.ok \/ RecoveryOnly(ids) THEN {rows} ELSE TurnFailed(rows, y)
  <2>1. /\ results \in Seq(Result) /\ results # <<>> /\ r = results[1] /\ 1 \in DOMAIN results
        /\ r \in Result
    BY <1>7 DEF ReadResult, DutyInv, RowsInv, TypeOK
  <2>2. r.stamped /\ ids = r.inputs /\ ids # {} /\ ids \subseteq Inputs
    BY <2>1 DEF Remembered, Result
  <2>3. PICK R \in minted :
           \/ rows' = Consumed(R, ids)
           \/ rows' \in Interrupted(Handle(Consumed(R, ids), HandledTasks(Consumed(R, ids), ids)),
                               ChatsOpen("interrupted") \ HandledTasks(Consumed(R, ids), ids))
    BY <1>7 DEF ReadResult, Saves
  <2>4. R[x] # None
    <3>1. SUFFICES ASSUME R[x] = None PROVE FALSE
      OBVIOUS
    <3>2. Consumed(R, ids)[x] = None
      BY <1>1, <3>1 DEF Consumed, Owed
    <3>3. Handle(Consumed(R, ids), HandledTasks(Consumed(R, ids), ids))[x] = None
      BY <1>1, <3>2 DEF Handle, HandledTasks, Owed
    <3>4. x \notin ChatsOpen("interrupted") \ HandledTasks(Consumed(R, ids), ids)
      BY <1>1 DEF ChatsOpen
    <3> QED  BY <1>1, <2>3, <3>2, <3>3, <3>4, InterruptedOnly
  <2>5. ~RecoveryOnly(ids)
    BY <2>3, <2>4
  <2>6. PICK u \in ids : ~(u \in Reminders /\ deliveries[u] # None)
    BY <2>2, <2>5 DEF RecoveryOnly
  <2>7. u \in Reminders => deliveries[u] # None
    BY <2>1, <2>2 DEF Remembered, InResults
  <2> QED  BY <2>2, <2>6, <2>7 DEF Inputs
<1>8. CASE rows' = rows
  BY <1>8
<1>9. \/ \E w \in Workers : Start(w) \/ \E fails \in BOOLEAN : End(w, fails)
      \/ \E ids : rows' = Consumed(rows, ids)
      \/ \E S \in SUBSET {t \in Tasks : Eligible(t)}, u \in Reminders : Deliver(S, u)
      \/ Stop \/ Restart
      \/ \E y \in Turns \union {None} : ReadResult(y)
      \/ rows' = rows
  BY DEF Next, vars, SdkBegin, ReadStarted, ReadCompleted, ChatStarted, Reply, EndTurn, ReadIdle,
         Crash, Saves
<1> QED  BY <1>2, <1>3, <1>4, <1>5, <1>6, <1>7, <1>8, <1>9

\* When every result names its inputs, the failure of a reminder's own turn is
\* never a duty of its own, of which the agent would be reminded in turn.
THEOREM BreedsNothingAlways ==
    ASSUME ~IsFiniteSet(Tokens), ~Unstamped PROVE Spec => RemindersBreedNothing
<1> DEFINE Bred == \A x \in Turns : rows[x] = None /\ rows'[x] # None
                        => Head(results).inputs \intersect Chats # {}
<1>1. Init => Remembered
  <2> SUFFICES ASSUME Init PROVE Remembered
    OBVIOUS
  <2>1. turn = {} /\ DOMAIN results = {}
    BY DEF Init
  <2> QED  BY <2>1 DEF Remembered, InResults
<1>2. DutyInv /\ Remembered /\ [Next]_vars => Remembered'
  BY RememberedStep
<1>3. DutyInv /\ Remembered /\ [Next]_vars => [Bred]_vars
  BY BreedsNothing
<1>4. RemindersBreedNothing <=> [][Bred]_vars
  BY DEF RemindersBreedNothing
<1> HIDE DEF Bred
<1> QED
  BY <1>1, <1>2, <1>3, <1>4, TokensAlwaysSuffice, DutyInvariant, PTL DEF Spec
=============================================================================
