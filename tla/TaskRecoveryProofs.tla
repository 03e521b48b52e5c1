------------------------- MODULE TaskRecoveryProofs -------------------------
(***************************************************************************)
(* Proofs about the rows of TaskRecovery for any workers, chats, limits    *)
(* and crashes: a failure of the attempt a row records is never forgotten, *)
(* one that was dealt with is not brought up again, and the file can       *)
(* always be read back.                                                    *)
(***************************************************************************)
EXTENDS TaskRecovery, FiniteSetTheorems, TLAPS

(***************************************************************************)
(* The inductive invariant.                                                *)
(***************************************************************************)
\* A row: its notice is about an attempt that was not dealt with, a running
\* attempt was neither dealt with nor noticed, and what is on offer may be told.
Sound(r) ==
    /\ r \in Row
    /\ r.handled # None => r.handled <= r.attempt
    /\ r.state = "running" => r.handled # r.attempt
    /\ r.notice # None =>
        /\ r.notice.attempt <= r.attempt /\ r.notice.attempt # r.handled
        /\ r.handled # r.attempt
        /\ r.state = "running" => r.notice.attempt # r.attempt
        /\ r.notice.offered # None => r.notice.told < NoticeDeliveries
Counts(r) ==
    r.state = "failed" =>
        r.handled = r.attempt \/ (r.notice # None /\ r.notice.attempt = r.attempt)
Good(R) ==
    /\ R \in [Tasks -> Row \union {None}]
    /\ \A t \in Tasks : R[t] # None => Sound(R[t]) /\ Counts(R[t])

\* No attempt is counted that was not made.
Counted(R, n) == \A t \in Tasks : R[t] # None => R[t].attempt <= n

\* The row of a chat that is open was not dealt with: what is dealt with is
\* closed in the same step.
Untouched(R, cs) == \A c \in cs : R[c] # None => R[c].handled = None

TasksOf(R) == {t \in Tasks : R[t] # None}
Fits(R) == Cardinality(TasksOf(R)) <= TaskLimit

Kept(R, n, cs) == Good(R) /\ Counted(R, n) /\ Fits(R) /\ Untouched(R, cs)
Open == ChatsOpen("started") \union ChatsOpen("interrupted")

RowsInv == TypeOK /\ Kept(rows, work, Open)

(***************************************************************************)
(* Rows.                                                                   *)
(***************************************************************************)
LEMMA NewRowIs == NewRow \in Row /\ NewRow # None /\ Sound(NewRow)
<1>1. NewRow \in Row
  BY LimitsAssumption DEF NewRow, Row
<1> QED  BY <1>1, NoneAssumption DEF NewRow, Sound

\* A new notice.
LEMMA PendingIs ==
    ASSUME NEW t \in Tasks, NEW n \in 0..MaxWork
    PROVE  /\ Pending(t, n) \in Notice /\ Pending(t, n) # None
           /\ Pending(t, n).attempt = n /\ Pending(t, n).offered = None
<1>1. Fresh(t) \in Tokens
  BY TasksAssumption DEF Fresh
<1>2. Pending(t, n) \in Notice
  BY <1>1, LimitsAssumption DEF Pending, Notice, Token
<1> QED  BY <1>2, NoneAssumption DEF Pending

\* A row that failed in its attempt, with a notice that says so.
LEMMA FailedIs ==
    ASSUME NEW t \in Tasks, NEW r \in Row, r.handled # r.attempt,
           r.handled # None => r.handled <= r.attempt
    PROVE  LET f == [r EXCEPT !.state = "failed", !.notice = Pending(t, r.attempt)]
           IN  Sound(f) /\ Counts(f) /\ f # None /\ f.attempt = r.attempt /\ f.handled = r.handled
<1> DEFINE f == [r EXCEPT !.state = "failed", !.notice = Pending(t, r.attempt)]
<1>1. r.attempt \in 0..MaxWork
  BY DEF Row
<1>2. /\ Pending(t, r.attempt) \in Notice /\ Pending(t, r.attempt) # None
      /\ Pending(t, r.attempt).attempt = r.attempt /\ Pending(t, r.attempt).offered = None
  BY <1>1, PendingIs
<1>3. /\ f \in Row /\ f.notice = Pending(t, r.attempt) /\ f.state = "failed"
      /\ f.attempt = r.attempt /\ f.handled = r.handled
  BY <1>2 DEF Row
<1> HIDE DEF f
<1>4. f # None /\ Counts(f)
  BY <1>2, <1>3, NoneAssumption DEF Counts
<1>5. Sound(f)
  <2>1. /\ f.notice.attempt = f.attempt /\ f.notice.offered = None
        /\ f.attempt <= f.attempt /\ f.handled # f.attempt /\ f.state # "running"
        /\ f.handled # None => f.handled <= f.attempt
    BY <1>1, <1>2, <1>3
  <2> QED  BY <1>3, <2>1 DEF Sound
<1> QED  BY <1>3, <1>4, <1>5 DEF f

\* The sets of rows.
LEMMA TasksFinite ==
    ASSUME NEW R
    PROVE  IsFiniteSet(TasksOf(R)) /\ Cardinality(TasksOf(R)) \in Nat
  BY TasksAssumption, FS_Subset, FS_CardinalityType DEF TasksOf

\* A ledger whose rows are among those of another one still fits.
LEMMA FewerFit ==
    ASSUME NEW R, NEW Q, Fits(R), TasksOf(Q) \subseteq TasksOf(R) PROVE Fits(Q)
<1>1. Cardinality(TasksOf(Q)) <= Cardinality(TasksOf(R))
  BY TasksFinite, FS_Subset
<1>2. Cardinality(TasksOf(Q)) \in Nat /\ Cardinality(TasksOf(R)) \in Nat /\ TaskLimit \in Nat
  BY TasksFinite, LimitsAssumption
<1> QED  BY <1>1, <1>2 DEF Fits

\* What is given up makes the room that was asked for.
LEMMA RoomMade ==
    ASSUME NEW R, NEW n \in Nat, NEW gone \in Rooms(R, n), Fits(R),
           NEW new, IsFiniteSet(new), Cardinality(new) <= n
    PROVE  /\ gone \subseteq TasksOf(R)
           /\ Cardinality((TasksOf(R) \ gone) \union new) <= TaskLimit
<1> DEFINE size == Cardinality(TasksOf(R))
           excess == IF size + n > TaskLimit THEN size + n - TaskLimit ELSE 0
           rest == TasksOf(R) \ gone
<1>1. gone \subseteq TasksOf(R)
  BY DEF Rooms, Done, Spent, Owed, TasksOf
<1>2. Cardinality(gone) = excess
  BY DEF Rooms, TasksOf
<1>3. IsFiniteSet(TasksOf(R)) /\ size \in Nat /\ IsFiniteSet(gone) /\ Cardinality(new) \in Nat
  BY <1>1, TasksFinite, FS_Subset, FS_CardinalityType
<1>4. IsFiniteSet(rest) /\ Cardinality(rest) = size - Cardinality(gone)
  <2>1. Cardinality(TasksOf(R) \ gone) = Cardinality(TasksOf(R)) - Cardinality(TasksOf(R) \intersect gone)
    BY <1>3, FS_Difference
  <2>2. TasksOf(R) \intersect gone = gone
    BY <1>1
  <2> QED  BY <1>3, <2>1, <2>2, FS_Difference
<1>5. Cardinality(rest \union new) <= Cardinality(rest) + Cardinality(new)
  <2>1. /\ Cardinality(rest \union new) =
                Cardinality(rest) + Cardinality(new) - Cardinality(rest \intersect new)
        /\ IsFiniteSet(rest \intersect new)
    BY <1>4, FS_Union, FS_Intersection
  <2>2. Cardinality(rest \intersect new) \in Nat /\ Cardinality(rest) \in Nat
    BY <1>4, <2>1, FS_CardinalityType
  <2> QED  BY <1>3, <2>1, <2>2
<1>6. Cardinality(rest \union new) \in Nat
  BY <1>4, FS_Union, FS_CardinalityType
<1>7. TaskLimit \in Nat /\ size <= TaskLimit
  BY LimitsAssumption DEF Fits
<1> HIDE DEF size, rest
<1>8. Cardinality(rest \union new) <= TaskLimit
  BY <1>2, <1>3, <1>4, <1>5, <1>6, <1>7
<1> QED  BY <1>1, <1>8 DEF rest

\* get: at most one row is new, and it finds room.
LEMMA WithRowIs ==
    ASSUME NEW R \in [Tasks -> Row \union {None}], Fits(R), NEW w \in Tasks, NEW Q \in WithRow(R, w)
    PROVE  /\ Q \in [Tasks -> Row \union {None}] /\ Fits(Q)
           /\ \A t \in Tasks \ {w} : Q[t] = None \/ Q[t] = R[t]
           /\ Q[w] = None => Q = R
           /\ Q[w] = R[w] \/ (R[w] = None /\ Q[w] = NewRow)
<1>1. CASE Q = R
  BY <1>1
<1>2. ASSUME NEW gone \in Rooms(R, 1), R[w] = None, Q = [Without(R, gone) EXCEPT ![w] = NewRow]
      PROVE  /\ Q \in [Tasks -> Row \union {None}] /\ Fits(Q)
             /\ \A t \in Tasks \ {w} : Q[t] = None \/ Q[t] = R[t]
             /\ Q[w] = NewRow
  <2>1. /\ Q \in [Tasks -> Row \union {None}] /\ Q[w] = NewRow
        /\ \A t \in Tasks \ {w} : Q[t] = IF t \in gone THEN None ELSE R[t]
    BY <1>2, NewRowIs DEF Without
  <2>2. IsFiniteSet({w}) /\ Cardinality({w}) <= 1
    <3>1. IsFiniteSet({w}) /\ Cardinality({w}) = 1
      BY FS_Singleton
    <3> QED  BY <3>1
  <2>3. /\ gone \subseteq TasksOf(R)
        /\ Cardinality((TasksOf(R) \ gone) \union {w}) <= TaskLimit
    BY <2>2, RoomMade
  <2>4. TasksOf(Q) \subseteq (TasksOf(R) \ gone) \union {w}
    BY <2>1 DEF TasksOf
  <2>5. Fits(Q)
    <3>1. IsFiniteSet((TasksOf(R) \ gone) \union {w})
      BY TasksFinite, <2>2, FS_Difference, FS_Union
    <3>2. Cardinality(TasksOf(Q)) <= Cardinality((TasksOf(R) \ gone) \union {w})
      BY <2>4, <3>1, FS_Subset
    <3>3. /\ Cardinality(TasksOf(Q)) \in Nat /\ TaskLimit \in Nat
          /\ Cardinality((TasksOf(R) \ gone) \union {w}) \in Nat
      BY <3>1, TasksFinite, FS_CardinalityType, LimitsAssumption
    <3> QED  BY <2>3, <3>2, <3>3 DEF Fits
  <2> QED  BY <2>1, <2>5
<1>3. Q = R \/ (R[w] = None /\ \E gone \in Rooms(R, 1) : Q = [Without(R, gone) EXCEPT ![w] = NewRow])
  BY DEF WithRow
<1> QED  BY <1>1, <1>2, <1>3, NewRowIs

\* A row is changed to a good one, where there is room for it.
LEMMA OneRow ==
    ASSUME NEW R, NEW n \in 0..MaxWork, NEW m \in 0..MaxWork, n <= m, NEW cs \in SUBSET Tasks,
           Kept(R, n, cs), NEW w \in Tasks \ cs, NEW Q \in WithRow(R, w), Q[w] # None,
           NEW r, Sound(r), Counts(r), r.attempt <= m
    PROVE  Kept([Q EXCEPT ![w] = r], m, cs)
<1> DEFINE P == [Q EXCEPT ![w] = r]
<1>1. R \in [Tasks -> Row \union {None}] /\ Fits(R)
  BY DEF Kept, Good
<1>2. /\ Q \in [Tasks -> Row \union {None}] /\ Fits(Q)
      /\ \A t \in Tasks \ {w} : Q[t] = None \/ Q[t] = R[t]
  BY <1>1, WithRowIs
<1>3. r \in Row /\ r # None
  BY NoneAssumption DEF Sound
<1>4. /\ P \in [Tasks -> Row \union {None}] /\ P[w] = r
      /\ \A t \in Tasks \ {w} : P[t] = None \/ P[t] = R[t]
  BY <1>2, <1>3
<1>5. TasksOf(P) \subseteq TasksOf(Q)
  BY <1>2 DEF TasksOf
<1> HIDE DEF P
<1>6. Fits(P)
  BY <1>2, <1>5, FewerFit
<1>7. Good(P)
  BY <1>4 DEF Kept, Good
<1>8. Counted(P, m)
  <2> SUFFICES ASSUME NEW t \in Tasks, P[t] # None PROVE P[t].attempt <= m
    BY DEF Counted
  <2>1. CASE t = w
    BY <1>4, <2>1
  <2>2. CASE t # w
    <3>1. P[t] = R[t] /\ R[t].attempt <= n /\ R[t].attempt \in 0..MaxWork
      BY <1>1, <1>4, <2>2 DEF Kept, Counted, Row
    <3> QED  BY <3>1
  <2> QED  BY <2>1, <2>2
<1>9. Untouched(P, cs)
  BY <1>4 DEF Kept, Untouched
<1> QED  BY <1>6, <1>7, <1>8, <1>9 DEF Kept, P

LEMMA NotedLeaves ==
    ASSUME NEW R, NEW inputs, NEW t \in Tasks, t \notin inputs \/ Owed(R, t)
    PROVE  Noted(R, inputs)[t] = R[t]
  BY DEF Noted

\* interrupted: every input that was not dealt with gets its notice.
LEMMA InterruptedKept ==
    ASSUME NEW R, NEW n \in 0..MaxWork, NEW cs \in SUBSET Tasks, Kept(R, n, cs),
           NEW inputs \in SUBSET cs, NEW Q \in Interrupted(R, inputs)
    PROVE  Kept(Q, n, cs)
<1> DEFINE new == {u \in inputs : R[u] = None}
           again == inputs \intersect Spent(R)
<1>0. PICK taken \in SUBSET (new \union again) : \E gone \in Rooms(R, Cardinality(taken)) :
         Q = Noted(Without(R, gone), (inputs \ (new \union gone)) \union taken)
  BY DEF Interrupted
<1>1. PICK gone \in Rooms(R, Cardinality(taken)) :
         Q = Noted(Without(R, gone), (inputs \ (new \union gone)) \union taken)
  BY <1>0
<1> DEFINE W == Without(R, gone)
           noted == (inputs \ (new \union gone)) \union taken
<1>2. R \in [Tasks -> Row \union {None}] /\ Fits(R) /\ inputs \subseteq Tasks
  BY DEF Kept, Good
<1>3. IsFiniteSet(taken) /\ Cardinality(taken) \in Nat /\ taken \subseteq inputs
  BY <1>2, TasksAssumption, FS_Subset, FS_CardinalityType
<1>4. /\ W \in [Tasks -> Row \union {None}]
      /\ \A t \in Tasks : W[t] = IF t \in gone THEN None ELSE R[t]
  BY <1>2 DEF Without
<1>10. Q = Noted(W, noted)
  BY <1>1
<1> HIDE DEF W
<1>5. \A t \in noted : W[t] = None => t \in taken
  BY <1>2, <1>4
<1>6. ASSUME NEW t \in Tasks
      PROVE  \/ Q[t] = W[t] /\ (W[t] = None \/ W[t] = R[t])
             \/ /\ Sound(Q[t]) /\ Counts(Q[t]) /\ Q[t] # None /\ Q[t].attempt <= n
                /\ Q[t].handled = None /\ t \in noted
  <2>1. CASE t \notin noted \/ Owed(W, t)
    <3>1. Q[t] = W[t]
      BY <1>10, <2>1, NotedLeaves
    <3> QED  BY <1>4, <3>1
  <2>2. CASE t \in noted /\ ~Owed(W, t)
    <3> DEFINE r == IF W[t] = None THEN NewRow ELSE W[t]
    <3>1. Q[t] = [r EXCEPT !.state = "failed", !.notice = Pending(t, r.attempt)]
      BY <1>10, <2>2 DEF Noted
    <3>2. t \in inputs
      BY <1>3, <2>2
    <3>3. r \in Row /\ r.handled = None /\ r.attempt <= n
      <4>1. CASE W[t] = None
        BY <4>1, NewRowIs DEF NewRow
      <4>2. CASE W[t] # None
        BY <1>2, <1>4, <3>2, <4>2 DEF Kept, Untouched, Counted
      <4> QED  BY <4>1, <4>2
    <3>4. r.handled # r.attempt
      BY <3>3, NoneAssumption DEF Row
    <3> HIDE DEF r
    <3> DEFINE f == [r EXCEPT !.state = "failed", !.notice = Pending(t, r.attempt)]
    <3>5. /\ Sound(f) /\ Counts(f) /\ f # None
          /\ f.attempt = r.attempt /\ f.handled = r.handled
      BY <3>3, <3>4, FailedIs
    <3>6. Q[t] = f
      BY <3>1
    <3> HIDE DEF f
    <3> QED  BY <2>2, <3>3, <3>5, <3>6
  <2> QED  BY <2>1, <2>2
<1>7. Good(Q)
  <2>1. Q \in [Tasks -> Row \union {None}]
    <3>1. \A t \in Tasks : Q[t] \in Row \union {None}
      BY <1>4, <1>6 DEF Sound
    <3>2. Q = [t \in Tasks |-> Q[t]]
      BY <1>1 DEF Noted
    <3> QED  BY <3>1, <3>2
  <2>2. ASSUME NEW t \in Tasks, Q[t] # None PROVE Sound(Q[t]) /\ Counts(Q[t])
    BY <1>6, <2>2 DEF Kept, Good
  <2> QED  BY <2>1, <2>2 DEF Good
<1>8. Counted(Q, n)
  BY <1>6 DEF Kept, Counted
<1>9. Untouched(Q, cs)
  BY <1>6 DEF Kept, Untouched
<1>11. Fits(Q)
  <2>1. /\ gone \subseteq TasksOf(R)
        /\ Cardinality((TasksOf(R) \ gone) \union taken) <= TaskLimit
    BY <1>2, <1>3, RoomMade
  <2>2. TasksOf(Q) \subseteq (TasksOf(R) \ gone) \union taken
    <3> SUFFICES ASSUME NEW t \in Tasks, Q[t] # None, t \notin taken PROVE t \in TasksOf(R) \ gone
      BY DEF TasksOf
    <3>1. W[t] # None
      BY <1>5, <1>6
    <3> QED  BY <1>4, <3>1 DEF TasksOf
  <2>3. IsFiniteSet((TasksOf(R) \ gone) \union taken)
    BY TasksFinite, <1>3, FS_Difference, FS_Union
  <2>4. Cardinality(TasksOf(Q)) <= Cardinality((TasksOf(R) \ gone) \union taken)
    BY <2>2, <2>3, FS_Subset
  <2>5. /\ Cardinality(TasksOf(Q)) \in Nat /\ TaskLimit \in Nat
        /\ Cardinality((TasksOf(R) \ gone) \union taken) \in Nat
    BY <2>3, TasksFinite, FS_CardinalityType, LimitsAssumption
  <2> QED  BY <2>1, <2>4, <2>5 DEF Fits
<1> QED  BY <1>7, <1>8, <1>9, <1>11 DEF Kept

(***************************************************************************)
(* What the reminders do to the rows.                                      *)
(***************************************************************************)
\* Rows that keep their attempt and are no more dealt with than before.
LEMMA SameRows ==
    ASSUME NEW R, NEW n \in 0..MaxWork, NEW cs \in SUBSET Tasks, Kept(R, n, cs),
           NEW Q \in [Tasks -> Row \union {None}],
           \A t \in Tasks : Q[t] # None =>
                /\ R[t] # None /\ Sound(Q[t]) /\ Counts(Q[t])
                /\ Q[t].attempt = R[t].attempt /\ (t \in cs => Q[t].handled = R[t].handled)
    PROVE  Kept(Q, n, cs)
<1>1. TasksOf(Q) \subseteq TasksOf(R)
  BY DEF TasksOf
<1>2. Fits(Q)
  BY <1>1, FewerFit DEF Kept
<1>3. Good(Q) /\ Counted(Q, n) /\ Untouched(Q, cs)
  BY DEF Kept, Good, Counted, Untouched
<1> QED  BY <1>2, <1>3 DEF Kept

\* A notice that changes in what was told and offered only.
LEMMA NoticeIs ==
    ASSUME NEW r, Sound(r), Counts(r), r.notice # None, NEW m \in Notice,
           m.attempt = r.notice.attempt, m.offered # None => m.told < NoticeDeliveries
    PROVE  LET q == [r EXCEPT !.notice = m]
           IN  Sound(q) /\ Counts(q) /\ q # None /\ q.attempt = r.attempt /\ q.handled = r.handled
<1> DEFINE q == [r EXCEPT !.notice = m]
<1>1. m # None
  BY NoneAssumption
<1>2. /\ q \in Row /\ q.state = r.state /\ q.attempt = r.attempt /\ q.handled = r.handled
      /\ q.notice = m
  BY DEF Sound, Row
<1> HIDE DEF q
<1>3. q # None /\ Sound(q) /\ Counts(q)
  BY <1>1, <1>2, NoneAssumption DEF Sound, Counts
<1> QED  BY <1>2, <1>3 DEF q

LEMMA NoticeType ==
    ASSUME NEW r, Sound(r), r.notice # None
    PROVE  r \in Row /\ r.notice \in Notice
  BY DEF Sound, Row

\* consumed
LEMMA ConsumedKept ==
    ASSUME NEW R, NEW n \in 0..MaxWork, NEW cs \in SUBSET Tasks, Kept(R, n, cs),
           NEW ids \in SUBSET Inputs
    PROVE  Kept(Consumed(R, ids), n, cs)
<1> DEFINE Q == Consumed(R, ids)
<1>1. ASSUME NEW t \in Tasks, R[t] # None
      PROVE  /\ Q[t] # None /\ Sound(Q[t]) /\ Counts(Q[t])
             /\ Q[t].attempt = R[t].attempt /\ Q[t].handled = R[t].handled
  <2>1. Sound(R[t]) /\ Counts(R[t])
    BY <1>1 DEF Kept, Good
  <2>2. CASE Owed(R, t) /\ R[t].notice.offered \in ids
    <3> DEFINE m == [R[t].notice EXCEPT !.told = @ + 1, !.consumed = TRUE, !.offered = None]
    <3>1. /\ R[t] \in Row /\ R[t].notice \in Notice /\ R[t].notice # None
          /\ R[t].notice.offered # None
      BY <2>1, <2>2, NoticeType, TasksAssumption DEF Owed
    <3>2. R[t].notice.told < NoticeDeliveries /\ R[t].notice.told \in 0..NoticeDeliveries
      BY <2>1, <3>1 DEF Sound, Notice
    <3>3. R[t].notice.told + 1 \in 0..NoticeDeliveries
      BY <3>2, LimitsAssumption
    <3>4. m \in Notice /\ m.attempt = R[t].notice.attempt /\ m.offered = None
      BY <3>1, <3>3 DEF Notice
    <3>5. Q[t] = [R[t] EXCEPT !.notice = m]
      BY <2>2, <3>1 DEF Consumed, Row, Notice
    <3> HIDE DEF m, Q
    <3> QED  BY <2>1, <3>1, <3>4, <3>5, NoticeIs
  <2>3. CASE ~(Owed(R, t) /\ R[t].notice.offered \in ids)
    BY <1>1, <2>1, <2>3 DEF Consumed
  <2> QED  BY <2>2, <2>3
<1>2. \A t \in Tasks : R[t] = None => Q[t] = None
  BY DEF Consumed, Owed
<1>3. Q \in [Tasks -> Row \union {None}]
  <2>1. \A t \in Tasks : Q[t] \in Row \union {None}
    BY <1>1, <1>2 DEF Sound
  <2>2. Q = [t \in Tasks |-> Q[t]]
    BY DEF Consumed
  <2> HIDE DEF Q
  <2> QED  BY <2>1, <2>2
<1> HIDE DEF Q
<1>4. Kept(Q, n, cs)
  BY <1>1, <1>2, <1>3, SameRows
<1> QED  BY <1>4 DEF Q

\* A row that was dealt with.
LEMMA HandledIs ==
    ASSUME NEW r, Sound(r), Counts(r), r.notice # None
    PROVE  LET q == [r EXCEPT !.handled = r.notice.attempt, !.notice = None]
           IN  Sound(q) /\ Counts(q) /\ q # None /\ q.attempt = r.attempt
<1> DEFINE q == [r EXCEPT !.handled = r.notice.attempt, !.notice = None]
<1>1. r \in Row /\ r.notice \in Notice
  BY NoticeType
<1>2. /\ q \in Row /\ q.state = r.state /\ q.attempt = r.attempt
      /\ q.handled = r.notice.attempt /\ q.notice = None
  BY <1>1 DEF Row, Notice
<1> HIDE DEF q
<1>3. q # None /\ Sound(q) /\ Counts(q)
  BY <1>2, NoneAssumption DEF Sound, Counts
<1> QED  BY <1>2, <1>3 DEF q

\* handledTasks: those that are dealt with are no longer among the open chats.
LEMMA HandleKept ==
    ASSUME NEW R, NEW n \in 0..MaxWork, NEW cs \in SUBSET Tasks, Kept(R, n, cs),
           NEW S \in SUBSET Tasks, \A t \in S : Owed(R, t)
    PROVE  Kept(Handle(R, S), n, cs \ S)
<1> DEFINE Q == Handle(R, S)
<1>1. ASSUME NEW t \in Tasks, R[t] # None
      PROVE  /\ Q[t] # None /\ Sound(Q[t]) /\ Counts(Q[t])
             /\ Q[t].attempt = R[t].attempt /\ (t \notin S => Q[t].handled = R[t].handled)
  <2>1. Sound(R[t]) /\ Counts(R[t])
    BY <1>1 DEF Kept, Good
  <2>2. CASE t \in S
    <3>1. Q[t] = [R[t] EXCEPT !.handled = R[t].notice.attempt, !.notice = None] /\ R[t].notice # None
      BY <2>2 DEF Handle, Owed
    <3> HIDE DEF Q
    <3> QED  BY <2>1, <2>2, <3>1, HandledIs
  <2>3. CASE t \notin S
    BY <1>1, <2>1, <2>3 DEF Handle
  <2> QED  BY <2>2, <2>3
<1>2. \A t \in Tasks : R[t] = None => Q[t] = None
  BY DEF Handle, Owed
<1>3. Q \in [Tasks -> Row \union {None}]
  <2>1. \A t \in Tasks : Q[t] \in Row \union {None}
    BY <1>1, <1>2 DEF Sound
  <2>2. Q = [t \in Tasks |-> Q[t]]
    BY DEF Handle
  <2> HIDE DEF Q
  <2> QED  BY <2>1, <2>2
<1> HIDE DEF Q
<1>4. Kept(R, n, cs \ S)
  BY DEF Kept, Untouched
<1>5. Kept(Q, n, cs \ S)
  BY <1>1, <1>2, <1>3, <1>4, SameRows
<1> QED  BY <1>5 DEF Q

(***************************************************************************)
(* Every step keeps the rows.                                              *)
(***************************************************************************)
\* More attempts may be counted, and fewer chats be open.
LEMMA KeptGrows ==
    ASSUME NEW R, NEW n \in 0..MaxWork, NEW m \in 0..MaxWork, n <= m, NEW cs, NEW ds, ds \subseteq cs,
           Kept(R, n, cs)
    PROVE  Kept(R, m, ds)
<1>1. Counted(R, m)
  <2> SUFFICES ASSUME NEW t \in Tasks, R[t] # None PROVE R[t].attempt <= m
    BY DEF Counted
  <2>1. R[t].attempt <= n /\ R[t].attempt \in 0..MaxWork
    BY DEF Kept, Good, Counted, Row
  <2> QED  BY <2>1
<1> QED  BY <1>1 DEF Kept, Untouched

LEMMA OpenIs == Open \subseteq Chats /\ Chats \subseteq Tasks
  BY DEF Open, ChatsOpen, Tasks

\* failedTask
LEMMA FailedTaskIs ==
    ASSUME NEW t \in Tasks, NEW q, Sound(q)
    PROVE  LET r == FailedTask(t, [q EXCEPT !.state = "failed"])
           IN  Sound(r) /\ Counts(r) /\ r.attempt = q.attempt
<1> DEFINE f == [q EXCEPT !.state = "failed"]
           r == FailedTask(t, f)
<1>1. /\ f \in Row /\ f.attempt = q.attempt /\ f.handled = q.handled /\ f.notice = q.notice
      /\ f.state = "failed"
  BY DEF Sound, Row
<1> HIDE DEF f
<1>2. CASE f.handled = f.attempt \/ (f.notice # None /\ f.notice.attempt = f.attempt)
  <2>1. r = f
    BY <1>2 DEF FailedTask
  <2> QED  BY <1>1, <1>2, <2>1 DEF Sound, Counts, f
<1>3. CASE ~(f.handled = f.attempt \/ (f.notice # None /\ f.notice.attempt = f.attempt))
  <2>1. r = [f EXCEPT !.notice = Pending(t, f.attempt)]
    BY <1>3 DEF FailedTask
  <2>2. r = [f EXCEPT !.state = "failed", !.notice = Pending(t, f.attempt)]
    BY <1>1, <2>1 DEF Row
  <2>3. f.handled # None => f.handled <= f.attempt
    BY <1>1 DEF Sound
  <2> HIDE DEF r
  <2>4. Sound(r) /\ Counts(r) /\ r.attempt = f.attempt
    BY <1>1, <1>3, <2>2, <2>3, FailedIs
  <2> QED  BY <1>1, <2>4 DEF r, f
<1> QED  BY <1>2, <1>3 DEF f

\* A worker starts or ends.
LEMMA WorkersKept ==
    ASSUME RowsInv, NEW w \in Workers
    PROVE  /\ Start(w) => Kept(rows', work', Open')
           /\ \A fails \in BOOLEAN : End(w, fails) => Kept(rows', work', Open')
<1>1. /\ Open \subseteq Tasks /\ w \in Tasks \ Open /\ work \in 0..MaxWork
      /\ Kept(rows, work, Open) /\ rows \in [Tasks -> Row \union {None}] /\ Fits(rows)
  BY OpenIs, TasksAssumption DEF RowsInv, TypeOK, Tasks, Kept, Good
<1>2. ASSUME NEW Q \in WithRow(rows, w), Q[w] # None
      PROVE  Sound(Q[w]) /\ Q[w] \in Row /\ Q[w].attempt <= work
  <2>1. Q[w] = rows[w] \/ Q[w] = NewRow
    BY <1>1, <1>2, WithRowIs
  <2>2. CASE Q[w] = rows[w]
    BY <1>1, <1>2, <2>2 DEF Kept, Good, Counted, Sound
  <2>3. CASE Q[w] = NewRow
    BY <1>1, <2>3, NewRowIs DEF NewRow
  <2> QED  BY <2>1, <2>2, <2>3
<1>3. ASSUME NEW Q \in WithRow(rows, w), Q[w] = None, NEW m \in 0..MaxWork, work <= m
      PROVE  Kept(Q, m, Open)
  <2>1. Q = rows
    BY <1>1, <1>3, WithRowIs
  <2> QED  BY <1>1, <1>3, <2>1, KeptGrows
<1>4. ASSUME Start(w) PROVE Kept(rows', work', Open')
  <2>1. work' = work + 1 /\ work' \in 0..MaxWork /\ work <= work' /\ Open' = Open
    BY <1>1, <1>4, LimitsAssumption DEF Start, Open, ChatsOpen
  <2>2. PICK Q \in WithRow(rows, w) :
           rows' = IF Q[w] = None THEN Q
                   ELSE [Q EXCEPT ![w].state = "running", ![w].attempt = @ + 1]
    BY <1>4 DEF Start, Saves
  <2>3. CASE Q[w] # None
    <3> DEFINE r == [Q[w] EXCEPT !.state = "running", !.attempt = @ + 1]
    <3>1. /\ Sound(Q[w]) /\ Q[w] \in Row /\ Q[w].attempt <= work
          /\ Q \in [Tasks -> Row \union {None}]
      BY <1>1, <1>2, <2>3, WithRowIs
    <3>2. rows' = [Q EXCEPT ![w] = r]
      BY <1>1, <2>2, <2>3, <3>1
    <3>3. /\ r \in Row /\ r.state = "running" /\ r.attempt = Q[w].attempt + 1
          /\ r.handled = Q[w].handled /\ r.notice = Q[w].notice
      <4>1. Q[w].attempt + 1 \in 0..MaxWork
        BY <1>1, <2>1, <3>1, LimitsAssumption DEF Row
      <4> QED  BY <3>1, <4>1 DEF Row
    <3> HIDE DEF r
    <3>4. Sound(r)
      <4>1. /\ Q[w].attempt \in Nat /\ Q[w].handled \in Nat \union {None}
            /\ Q[w].notice # None => Q[w].notice.attempt \in Nat
        BY <3>1, LimitsAssumption DEF Row, Notice
      <4>2. r.handled # None => r.handled <= r.attempt /\ r.handled # r.attempt
        BY <3>1, <3>3, <4>1 DEF Sound
      <4>3. r.handled # r.attempt
        BY <3>3, <4>1, <4>2, NoneAssumption
      <4>4. r.notice # None =>
              /\ r.notice.attempt <= r.attempt /\ r.notice.attempt # r.attempt
              /\ r.notice.attempt # r.handled
              /\ r.notice.offered # None => r.notice.told < NoticeDeliveries
        BY <3>1, <3>3, <4>1 DEF Sound
      <4> QED  BY <3>3, <4>2, <4>3, <4>4 DEF Sound
    <3>5. Counts(r) /\ r.attempt <= work'
      BY <1>1, <2>1, <3>1, <3>3, LimitsAssumption DEF Counts, Row
    <3> QED  BY <1>1, <2>1, <2>3, <3>2, <3>4, <3>5, OneRow
  <2>4. CASE Q[w] = None
    BY <1>3, <2>1, <2>2, <2>4
  <2> QED  BY <2>3, <2>4
<1>5. ASSUME NEW fails \in BOOLEAN, End(w, fails) PROVE Kept(rows', work', Open')
  <2>1. work' \in 0..MaxWork /\ work <= work' /\ Open' = Open
    BY <1>1, <1>5, LimitsAssumption DEF End, Open, ChatsOpen
  <2>2. PICK Q \in WithRow(rows, w) :
           rows' = IF Q[w] = None THEN Q
                   ELSE [Q EXCEPT ![w] = IF fails THEN FailedTask(w, [@ EXCEPT !.state = "failed"])
                                         ELSE [@ EXCEPT !.state = "ended"]]
    BY <1>5 DEF End, Saves
  <2>3. CASE Q[w] # None
    <3> DEFINE r == IF fails THEN FailedTask(w, [Q[w] EXCEPT !.state = "failed"])
                    ELSE [Q[w] EXCEPT !.state = "ended"]
    <3>1. /\ Sound(Q[w]) /\ Q[w] \in Row /\ Q[w].attempt <= work
          /\ Q \in [Tasks -> Row \union {None}]
      BY <1>1, <1>2, <2>3, WithRowIs
    <3>2. rows' = [Q EXCEPT ![w] = r]
      BY <1>1, <2>2, <2>3, <3>1
    <3>3. Sound(r) /\ Counts(r) /\ r.attempt = Q[w].attempt
      <4>1. CASE fails
        BY <1>1, <3>1, <4>1, FailedTaskIs
      <4>2. CASE ~fails
        <5>1. /\ r \in Row /\ r.state = "ended" /\ r.attempt = Q[w].attempt
              /\ r.handled = Q[w].handled /\ r.notice = Q[w].notice
          BY <3>1, <4>2 DEF Row
        <5> HIDE DEF r
        <5> QED  BY <3>1, <5>1 DEF Sound, Counts
      <4> QED  BY <4>1, <4>2
    <3> HIDE DEF r
    <3>4. r.attempt <= work'
      BY <1>1, <2>1, <3>1, <3>3 DEF Row
    <3> QED  BY <1>1, <2>1, <2>3, <3>2, <3>3, <3>4, OneRow
  <2>4. CASE Q[w] = None
    BY <1>3, <2>1, <2>2, <2>4
  <2> QED  BY <2>3, <2>4
<1> QED  BY <1>4, <1>5

\* A reminder is offered.
LEMMA DeliverKept ==
    ASSUME RowsInv, NEW S, NEW u \in Reminders, Deliver(S, u)
    PROVE  Kept(rows', work', Open')
<1>1. /\ Open' = Open /\ work' = work /\ work \in 0..MaxWork /\ Open \subseteq Tasks
      /\ Kept(rows, work, Open) /\ S \subseteq {t \in Tasks : Eligible(t)}
  BY OpenIs DEF Deliver, Open, ChatsOpen, RowsInv, TypeOK
<1>2. rows' = [t \in Tasks |-> IF t \in S THEN [rows[t] EXCEPT !.notice.offered = u] ELSE rows[t]]
  BY DEF Deliver
<1>3. ASSUME NEW t \in Tasks, rows[t] # None
      PROVE  /\ rows'[t] # None /\ Sound(rows'[t]) /\ Counts(rows'[t])
             /\ rows'[t].attempt = rows[t].attempt /\ rows'[t].handled = rows[t].handled
  <2>1. Sound(rows[t]) /\ Counts(rows[t])
    BY <1>1, <1>3 DEF Kept, Good
  <2>2. CASE t \in S
    <3> DEFINE m == [rows[t].notice EXCEPT !.offered = u]
    <3>1. /\ rows[t].notice # None /\ rows[t].notice.told < NoticeDeliveries
          /\ rows[t] \in Row /\ rows[t].notice \in Notice
      BY <1>1, <2>1, <2>2, NoticeType DEF Eligible, Owed
    <3>2. m \in Notice /\ m.attempt = rows[t].notice.attempt /\ m.told = rows[t].notice.told
      BY <3>1 DEF Notice
    <3>3. rows'[t] = [rows[t] EXCEPT !.notice = m]
      BY <1>2, <2>2, <3>1 DEF Row, Notice
    <3> HIDE DEF m
    <3> QED  BY <2>1, <3>1, <3>2, <3>3, NoticeIs
  <2>3. CASE t \notin S
    BY <1>2, <1>3, <2>1, <2>3
  <2> QED  BY <2>2, <2>3
<1>4. \A t \in Tasks : rows[t] = None => rows'[t] = None
  BY <1>1, <1>2 DEF Eligible, Owed
<1>5. rows' \in [Tasks -> Row \union {None}]
  <2>1. \A t \in Tasks : rows'[t] \in Row \union {None}
    BY <1>3, <1>4 DEF Sound
  <2> QED  BY <1>2, <2>1
<1>6. Kept(rows', work, Open)
  BY <1>1, <1>3, <1>4, <1>5, SameRows
<1> QED  BY <1>1, <1>6

\* A result is read.
LEMMA ResultKept ==
    ASSUME RowsInv, NEW x \in Turns \union {None}, ReadResult(x)
    PROVE  Kept(rows', work', Open')
<1> DEFINE r == Head(results)
           ids == IF r.stamped THEN r.inputs ELSE {}
           minted == IF r.ok \/ RecoveryOnly(ids) THEN {rows} ELSE TurnFailed(rows, x)
<1>1. /\ work' = work /\ work \in 0..MaxWork /\ Open \subseteq Tasks /\ Kept(rows, work, Open)
      /\ rows \in [Tasks -> Row \union {None}] /\ Fits(rows) /\ results # <<>>
      /\ ~r.ok => x \in FreeTurns
  BY OpenIs DEF ReadResult, RowsInv, TypeOK, Kept, Good
<1>2. ids \in SUBSET Inputs
  <2>1. Head(results) \in Result
    BY <1>1 DEF RowsInv, TypeOK
  <2> QED  BY <2>1 DEF Result
<1>3. PICK R \in minted :
         LET told == Consumed(R, ids)
             handled == IF r.ok THEN HandledTasks(told, ids) ELSE {}
         IN  /\ \E Q \in IF handled = {} THEN {told}
                         ELSE Interrupted(Handle(told, handled),
                                          ChatsOpen("interrupted") \ handled) : rows' = Q
             /\ chat' = [c \in Chats |-> IF c \in handled \union ids THEN "new" ELSE chat[c]]
  BY DEF ReadResult, Saves
<1>4. Kept(R, work, Open)
  <2>1. CASE R = rows
    BY <1>1, <2>1
  <2>2. CASE ~r.ok /\ R \in TurnFailed(rows, x)
    <3>1. x \in Turns /\ rows[x] = None /\ x \in Tasks \ Open
      BY <1>1, <2>2, OpenIs, TasksAssumption DEF FreeTurns, Tasks, Inputs
    <3>2. PICK Q \in WithRow(rows, x) :
             R = IF Q[x] = None THEN Q
                 ELSE [Q EXCEPT ![x].state = "failed", ![x].notice = Pending(x, Q[x].attempt)]
      BY <2>2 DEF TurnFailed
    <3>3. CASE Q[x] = None
      BY <1>1, <3>1, <3>2, <3>3, WithRowIs
    <3>4. CASE Q[x] # None
      <4> DEFINE q == [NewRow EXCEPT !.state = "failed", !.notice = Pending(x, NewRow.attempt)]
      <4>1. Q[x] = NewRow /\ Q \in [Tasks -> Row \union {None}]
        BY <1>1, <3>1, <3>4, WithRowIs
      <4>2. R = [Q EXCEPT ![x] = q]
        BY <3>1, <3>2, <3>4, <4>1
      <4>3. NewRow.attempt = 0 /\ NewRow.handled = None
        BY DEF NewRow
      <4>4. NewRow.handled # NewRow.attempt /\ NewRow \in Row
        BY <4>3, NewRowIs, NoneAssumption
      <4>5. Sound(q) /\ Counts(q) /\ q.attempt = NewRow.attempt
        <5> DEFINE s == NewRow
        <5>1. s \in Row /\ s.handled # s.attempt /\ s.handled = None
          BY <4>3, <4>4
        <5>2. q = [s EXCEPT !.state = "failed", !.notice = Pending(x, s.attempt)]
          OBVIOUS
        <5> HIDE DEF s, q
        <5> QED  BY <3>1, <5>1, <5>2, FailedIs DEF s
      <4> HIDE DEF q
      <4>6. q.attempt <= work /\ work <= work
        BY <1>1, <4>3, <4>5, LimitsAssumption
      <4> QED  BY <1>1, <3>1, <3>4, <4>2, <4>5, <4>6, OneRow
    <3> QED  BY <3>3, <3>4
  <2> QED  BY <1>3, <2>1, <2>2
<1> DEFINE told == Consumed(R, ids)
           handled == IF r.ok THEN HandledTasks(told, ids) ELSE {}
<1>5. Kept(told, work, Open)
  BY <1>1, <1>2, <1>4, ConsumedKept
<1>6. handled \in SUBSET Tasks /\ \A t \in handled : Owed(told, t)
  BY DEF HandledTasks
<1>7. chat' = [c \in Chats |-> IF c \in handled \union ids THEN "new" ELSE chat[c]]
  BY <1>3
<1>8. PICK Q \in IF handled = {} THEN {told}
                 ELSE Interrupted(Handle(told, handled), ChatsOpen("interrupted") \ handled) : rows' = Q
  BY <1>3
<1> HIDE DEF told, handled
<1>9. Open' \subseteq Open \ handled
  BY <1>7 DEF Open, ChatsOpen
<1>10. CASE handled = {}
  <2>1. rows' = told
    BY <1>8, <1>10
  <2> QED  BY <1>1, <1>5, <1>9, <2>1, KeptGrows
<1>11. CASE handled # {}
  <2>1. Kept(Handle(told, handled), work, Open \ handled)
    BY <1>1, <1>5, <1>6, HandleKept
  <2>2. rows' \in Interrupted(Handle(told, handled), ChatsOpen("interrupted") \ handled)
    BY <1>8, <1>11
  <2>3. ChatsOpen("interrupted") \ handled \subseteq Open \ handled
    BY DEF Open
  <2>4. Kept(rows', work, Open \ handled)
    BY <1>1, <2>1, <2>2, <2>3, InterruptedKept
  <2> QED  BY <1>1, <1>9, <2>4, KeptGrows
<1> QED  BY <1>10, <1>11

\* The user stops everything.
LEMMA StopKept == ASSUME RowsInv, Stop PROVE Kept(rows', work', Open')
<1>1. /\ work' = work /\ work \in 0..MaxWork /\ Kept(rows, work, Open)
      /\ rows' = Cancelled /\ Open' = {}
  BY DEF Stop, Saves, Gone, RowsInv, TypeOK, Open, ChatsOpen
<1>2. ASSUME NEW t \in Tasks, rows[t] # None
      PROVE  /\ rows'[t] # None /\ Sound(rows'[t]) /\ Counts(rows'[t])
             /\ rows'[t].attempt = rows[t].attempt
  <2> DEFINE q == [rows[t] EXCEPT !.state = "ended", !.handled = rows[t].attempt, !.notice = None]
  <2>1. rows[t] \in Row /\ rows'[t] = q
    BY <1>1, <1>2 DEF Kept, Good, Cancelled
  <2>2. /\ q \in Row /\ q.state = "ended" /\ q.handled = rows[t].attempt /\ q.notice = None
        /\ q.attempt = rows[t].attempt
    BY <2>1 DEF Row
  <2>3. rows[t].attempt <= rows[t].attempt
    <3>1. rows[t].attempt \in 0..MaxWork
      BY <2>1 DEF Row
    <3> QED  BY <3>1
  <2> HIDE DEF q
  <2> QED  BY <2>1, <2>2, <2>3, NoneAssumption DEF Sound, Counts
<1>3. \A t \in Tasks : rows[t] = None => rows'[t] = None
  BY <1>1 DEF Cancelled
<1>4. rows' \in [Tasks -> Row \union {None}]
  <2>1. \A t \in Tasks : rows'[t] \in Row \union {None}
    BY <1>2, <1>3 DEF Sound
  <2> QED  BY <1>1, <2>1 DEF Cancelled
<1>5. Kept(rows, work, {})
  BY <1>1, KeptGrows
<1>6. Kept(rows', work, {})
  BY <1>1, <1>2, <1>3, <1>4, <1>5, SameRows
<1> QED  BY <1>1, <1>6

\* recoveredTasks
LEMMA RecoveredKept == ASSUME RowsInv PROVE Kept(Recovered, work, Open)
<1>1. work \in 0..MaxWork /\ Kept(rows, work, Open) /\ Open \subseteq Tasks
  BY OpenIs DEF RowsInv, TypeOK
<1>2. ASSUME NEW t \in Tasks, rows[t] # None
      PROVE  LET q == Recovered[t]
             IN  /\ q # None /\ Sound(q) /\ Counts(q)
                 /\ q.attempt = rows[t].attempt /\ q.handled = rows[t].handled
  <2>1. Sound(rows[t]) /\ Counts(rows[t]) /\ rows[t] \in Row
    BY <1>1, <1>2 DEF Kept, Good, Sound
  <2>2. CASE rows[t].state = "running"
    <3>1. rows[t].handled # rows[t].attempt
          /\ ~(rows[t].notice # None /\ rows[t].notice.attempt = rows[t].attempt)
      BY <2>1, <2>2 DEF Sound
    <3>2. Recovered[t] = [rows[t] EXCEPT !.state = "failed", !.notice = Pending(t, rows[t].attempt)]
      BY <1>2, <2>1, <2>2, <3>1 DEF Recovered
    <3>3. rows[t].handled # None => rows[t].handled <= rows[t].attempt
      BY <2>1 DEF Sound
    <3> DEFINE f == [rows[t] EXCEPT !.state = "failed", !.notice = Pending(t, rows[t].attempt)]
    <3>4. /\ Sound(f) /\ Counts(f) /\ f # None
          /\ f.attempt = rows[t].attempt /\ f.handled = rows[t].handled
      BY <2>1, <3>1, <3>3, FailedIs
    <3>5. Recovered[t] = f
      BY <3>2
    <3> HIDE DEF f
    <3> QED  BY <3>4, <3>5
  <2>3. CASE rows[t].state # "running"
    BY <1>2, <2>1, <2>3 DEF Recovered
  <2> QED  BY <2>2, <2>3
<1>3. \A t \in Tasks : rows[t] = None => Recovered[t] = None
  BY DEF Recovered
<1>4. Recovered \in [Tasks -> Row \union {None}]
  <2>1. \A t \in Tasks : Recovered[t] \in Row \union {None}
    BY <1>2, <1>3 DEF Sound
  <2> QED  BY <2>1 DEF Recovered
<1> DEFINE Q == Recovered
<1>5. \A t \in Tasks : Q[t] # None =>
        /\ rows[t] # None /\ Sound(Q[t]) /\ Counts(Q[t])
        /\ Q[t].attempt = rows[t].attempt /\ (t \in Open => Q[t].handled = rows[t].handled)
  BY <1>2, <1>3
<1>6. Q \in [Tasks -> Row \union {None}]
  BY <1>4
<1> HIDE DEF Q
<1>7. Kept(Q, work, Open)
  BY <1>1, <1>5, <1>6, SameRows
<1> QED  BY <1>7 DEF Q

\* The file is read again.
LEMMA RestartKept == ASSUME RowsInv, Restart PROVE Kept(rows', work', Open')
<1>1. /\ work' = work /\ work \in 0..MaxWork /\ Open \subseteq Tasks
      /\ rows' \in Interrupted(Recovered, Open) /\ Open' = Open
  BY OpenIs DEF Restart, Saves, RowsInv, TypeOK, Open, ChatsOpen
<1> QED  BY <1>1, RecoveredKept, InterruptedKept

LEMMA RowsStep == ASSUME RowsInv, [Next]_vars PROVE Kept(rows', work', Open')
<1>1. Kept(rows, work, Open) /\ work \in 0..MaxWork
  BY DEF RowsInv, TypeOK
<1>2. CASE UNCHANGED <<rows, work, chat>>
  BY <1>1, <1>2 DEF Open, ChatsOpen
<1>3. ASSUME NEW w \in Workers, Start(w) \/ \E fails \in BOOLEAN : End(w, fails)
      PROVE  Kept(rows', work', Open')
  BY <1>3, WorkersKept
<1>4. ASSUME NEW S, NEW u \in Reminders, Deliver(S, u) PROVE Kept(rows', work', Open')
  BY <1>4, DeliverKept
<1>5. ASSUME NEW c \in Chats, ChatStarted(c) PROVE Kept(rows', work', Open')
  <2>1. /\ rows' = rows /\ rows[c] = None /\ work' \in 0..MaxWork /\ work <= work'
        /\ Open' \subseteq Open \union {c}
    BY <1>1, <1>5, LimitsAssumption DEF ChatStarted, Unsent, Open, ChatsOpen, RowsInv, TypeOK
  <2>2. Kept(rows, work, Open \union {c})
    BY <1>1, <2>1 DEF Kept, Untouched
  <2> QED  BY <1>1, <2>1, <2>2, KeptGrows
<1>6. ASSUME NEW u \in Inputs, rows' = Consumed(rows, {u}), work' = work, Open' \subseteq Open
      PROVE  Kept(rows', work', Open')
  <2>1. Kept(rows', work, Open)
    BY <1>1, <1>6, OpenIs, ConsumedKept
  <2> QED  BY <1>1, <1>6, <2>1, KeptGrows
<1>7. ASSUME NEW u \in Reminders, ReadStarted(u) PROVE Kept(rows', work', Open')
  BY <1>6, <1>7 DEF ReadStarted, Saves, Open, ChatsOpen, Inputs
<1>8. ASSUME NEW u \in Inputs, ReadCompleted(u) PROVE Kept(rows', work', Open')
  BY <1>6, <1>8 DEF ReadCompleted, Saves, Open, ChatsOpen
<1>9. ASSUME NEW x \in Turns \union {None}, ReadResult(x) PROVE Kept(rows', work', Open')
  BY <1>9, ResultKept
<1>10. CASE \/ \E q \in queued : SdkBegin(q)
            \/ \E t \in Tasks, stamped \in BOOLEAN : Reply(t, stamped)
            \/ \E ok, stamped \in BOOLEAN : EndTurn(ok, stamped)
            \/ ReadIdle \/ Crash \/ UNCHANGED vars
  BY <1>2, <1>10 DEF SdkBegin, Reply, EndTurn, ReadIdle, Crash, Gone, vars
<1> QED
  BY <1>3, <1>4, <1>5, <1>7, <1>8, <1>9, <1>10, StopKept, RestartKept DEF Next

(***************************************************************************)
(* Types.                                                                  *)
(***************************************************************************)
LEMMA TokenType ==
    ASSUME TypeOK, NEW t \in Tasks, Owed(rows, t) PROVE TokenOf(rows, t) \in Token
  BY DEF TypeOK, Owed, TokenOf, Row, Notice

LEMMA ResultType ==
    ASSUME TypeOK, results # <<>>
    PROVE  /\ Head(results).inputs \subseteq Inputs /\ Tail(results) \in Seq(Result)
<1>1. Head(results) \in Result /\ Tail(results) \in Seq(Result)
  BY DEF TypeOK
<1> QED  BY <1>1 DEF Result

LEMMA ShownType == ASSUME TypeOK, NEW R PROVE ShownFor(R) \in [Tasks -> Nat]
  BY DEF TypeOK, ShownFor

\* Every variable keeps its type, the rows by RowsStep.
LEMMA TypeStep ==
    ASSUME TypeOK, [Next]_vars, rows' \in [Tasks -> Row \union {None}] PROVE TypeOK'
<1> USE DEF TypeOK, memory, sdk
<1>1. ASSUME NEW w \in Workers, Start(w) PROVE TypeOK'
  <2>1. \E R : shown' = ShownFor(R)
    BY <1>1 DEF Start, Saves
  <2>2. shown' \in [Tasks -> Nat]
    BY <2>1, ShownType
  <2>3. work < MaxWork /\ work' = work + 1
    BY <1>1 DEF Start
  <2>5. work' \in 0..MaxWork
    BY <2>3, LimitsAssumption
  <2>4. UNCHANGED <<phase, memory, chat, transcript, sdk, stops>>
    BY <1>1 DEF Start
  <2> QED  BY <2>2, <2>4, <2>5
<1>2. ASSUME NEW w \in Workers, NEW fails \in BOOLEAN, End(w, fails) PROVE TypeOK'
  <2>1. \E R : shown' = ShownFor(R)
    BY <1>2 DEF End, Saves
  <2>2. shown' \in [Tasks -> Nat]
    BY <2>1, ShownType
  <2>3. work' = work \/ (work < MaxWork /\ work' = work + 1)
    BY <1>2 DEF End
  <2>4. work' \in 0..MaxWork
    BY <2>3, LimitsAssumption
  <2>5. UNCHANGED <<phase, memory, chat, transcript, sdk, stops>>
    BY <1>2 DEF End
  <2> QED  BY <2>2, <2>4, <2>5
<1>3. ASSUME NEW S \in SUBSET {t \in Tasks : Eligible(t)}, NEW u \in Reminders, Deliver(S, u) PROVE TypeOK'
  <2> DEFINE tokens == {TokenOf(rows, t) : t \in S}
  <2>1. tokens \in SUBSET Token
    BY TokenType DEF Eligible
  <2> HIDE DEF tokens
  <2>2. [tokens |-> tokens, consumed |-> FALSE, completed |-> FALSE] \in Delivery
    BY <2>1 DEF Delivery
  <2>3. /\ deliveries' = [deliveries EXCEPT ![u] =
                [tokens |-> tokens, consumed |-> FALSE, completed |-> FALSE]]
        /\ queued' = queued \union {[uuid |-> u, tokens |-> tokens]}
        /\ transcript' = transcript \/ transcript' = transcript \ {u}
        /\ UNCHANGED <<phase, acknowledged, reply, chat, sdk, shown, work, stops>>
    BY <1>3 DEF Deliver, tokens
  <2> QED  BY <1>3, <2>1, <2>2, <2>3
<1>4. ASSUME NEW q \in queued, SdkBegin(q) PROVE TypeOK'
  <2>1. q.uuid \in Reminders /\ q.uuid \in Inputs
    BY DEF Inputs
  <2>2. shown' \in [Tasks -> Nat]
    BY <1>4 DEF SdkBegin
  <2> QED  BY <1>4, <2>1, <2>2 DEF SdkBegin
<1>5. ASSUME NEW ids \in SUBSET Inputs PROVE DeliveriesConsumed(ids) \in [Reminders -> Delivery \union {None}]
  <2>1. ASSUME NEW v \in Reminders, deliveries[v] # None
        PROVE  [deliveries[v] EXCEPT !.consumed = TRUE] \in Delivery
    BY <2>1 DEF Delivery
  <2> QED  BY <2>1 DEF DeliveriesConsumed
<1>6. ASSUME NEW u \in Reminders, ReadStarted(u) PROVE TypeOK'
  <2>1. deliveries' \in [Reminders -> Delivery \union {None}]
    BY <1>5, <1>6 DEF ReadStarted, Inputs
  <2> QED  BY <1>6, <2>1, ShownType DEF ReadStarted, Saves
<1>7. ASSUME NEW c \in Chats, ChatStarted(c) PROVE TypeOK'
  <2>1. work < MaxWork /\ work' = work + 1
    BY <1>7 DEF ChatStarted
  <2>2. work' \in 0..MaxWork
    BY <2>1, LimitsAssumption
  <2> QED  BY <1>7, <2>2 DEF ChatStarted, Inputs
<1>8. ASSUME NEW t \in Tasks, NEW stamped \in BOOLEAN, Reply(t, stamped) PROVE TypeOK'
  <2>1. TokenOf(rows, t) \in Token
    BY <1>8, TokenType DEF Reply
  <2>2. (IF stamped THEN turn ELSE IF reply # None THEN reply ELSE {}) \in SUBSET Inputs
    OBVIOUS
  <2>3. acknowledged' \in [Token -> SUBSET Inputs]
    BY <1>8, <2>1, <2>2 DEF Reply
  <2>4. marks' \subseteq Token
    BY <1>8, <2>1 DEF Reply
  <2>5. reply' \in (SUBSET Inputs) \union {None}
    BY <1>8 DEF Reply
  <2> QED  BY <1>8, <2>3, <2>4, <2>5 DEF Reply
<1>9. ASSUME NEW ok \in BOOLEAN, NEW stamped \in BOOLEAN, EndTurn(ok, stamped) PROVE TypeOK'
  <2>1. [inputs |-> turn, stamped |-> stamped, ok |-> ok, marks |-> marks] \in Result
    BY DEF Result
  <2>2. results' \in Seq(Result)
    BY <1>9, <2>1 DEF EndTurn
  <2> QED  BY <1>9, <2>2 DEF EndTurn
<1>10. ASSUME NEW x \in Turns \union {None}, ReadResult(x) PROVE TypeOK'
  <2>1. results' \in Seq(Result) /\ shown' \in [Tasks -> Nat]
    BY <1>10, ResultType, ShownType DEF ReadResult, Saves
  <2>2. /\ chat' \in [Chats -> {"new", "started", "interrupted"}]
        /\ deliveries' \in [Reminders -> Delivery \union {None}]
        /\ acknowledged' \in [Token -> SUBSET Inputs]
    BY <1>10 DEF ReadResult
  <2>3. reply' \in (SUBSET Inputs) \union {None} /\ commands' \subseteq Inputs
    BY <1>10 DEF ReadResult
  <2> QED  BY <1>10, <2>1, <2>2, <2>3 DEF ReadResult
<1>11. ASSUME NEW u \in Inputs, ReadCompleted(u) PROVE TypeOK'
  <2>1. deliveries' \in [Reminders -> Delivery \union {None}]
    <3>1. ASSUME NEW v \in Reminders, deliveries[v] # None
          PROVE  [deliveries[v] EXCEPT !.consumed = TRUE, !.completed = TRUE] \in Delivery
      BY <3>1 DEF Delivery
    <3> QED  BY <1>11, <3>1 DEF ReadCompleted
  <2> QED  BY <1>11, <2>1, ShownType DEF ReadCompleted, Saves
<1>12. CASE ReadIdle
  BY <1>12 DEF ReadIdle
<1>13. CASE Crash
  BY <1>13 DEF Crash, Gone
<1>14. CASE Stop
  BY <1>14, ShownType DEF Stop, Gone, Saves
<1>15. CASE Restart
  BY <1>15, ShownType DEF Restart, Saves
<1>16. CASE UNCHANGED vars
  BY <1>16 DEF vars
<1> QED
  BY <1>1, <1>2, <1>3, <1>4, <1>6, <1>7, <1>8, <1>9, <1>10, <1>11, <1>12, <1>13, <1>14, <1>15, <1>16
  DEF Next

(***************************************************************************)
(* The theorems.                                                           *)
(***************************************************************************)
LEMMA InitRows == Init => RowsInv
<1> SUFFICES ASSUME Init PROVE RowsInv
  OBVIOUS
<1>1. TypeOK
  BY LimitsAssumption DEF Init, TypeOK
<1>2. Good(rows) /\ Counted(rows, work) /\ Untouched(rows, Open)
  BY OpenIs DEF Init, Good, Counted, Untouched
<1>3. TasksOf(rows) = {}
  BY DEF Init, TasksOf
<1>4. Fits(rows)
  BY <1>3, FS_EmptySet, LimitsAssumption DEF Fits
<1> QED  BY <1>1, <1>2, <1>4 DEF RowsInv, Kept

\* The rows agree with what was counted, noticed and dealt with in every
\* reachable state.
THEOREM RowsInvariant == Spec => []RowsInv
<1>1. RowsInv /\ [Next]_vars => RowsInv'
  <2> SUFFICES ASSUME RowsInv, [Next]_vars PROVE RowsInv'
    OBVIOUS
  <2>1. Kept(rows', work', Open')
    BY RowsStep
  <2>2. TypeOK'
    BY <2>1, TypeStep DEF Kept, Good, RowsInv
  <2> QED  BY <2>1, <2>2 DEF RowsInv
<1> QED  BY <1>1, InitRows, PTL DEF Spec

\* Every variable of the ledger and of the reminders keeps its type.
THEOREM RecoveryTypes == Spec => []TypeOK
<1>1. RowsInv => TypeOK
  BY DEF RowsInv
<1> QED  BY <1>1, RowsInvariant, PTL

\* A failed attempt is noticed or was dealt with, however starts, failures,
\* evictions, interruptions, stops and crashes follow each other.
THEOREM EachAttemptCountsAlways == Spec => []EachAttemptCounts
<1>1. RowsInv => EachAttemptCounts
  BY DEF RowsInv, Kept, Good, Counts, EachAttemptCounts, Owed
<1> QED  BY <1>1, RowsInvariant, PTL

\* An attempt that was dealt with is never the subject of a notice again.
THEOREM HandledStaysAlways == Spec => []HandledStays
<1>1. RowsInv => HandledStays
  BY DEF RowsInv, Kept, Good, Sound, HandledStays, Owed
<1> QED  BY <1>1, RowsInvariant, PTL

\* The file never holds more rows than the next start would accept.
THEOREM FileReadableAlways == Spec => []FileReadable
<1>1. RowsInv => FileReadable
  BY DEF RowsInv, Kept, Fits, TasksOf, FileReadable
<1> QED  BY <1>1, RowsInvariant, PTL
=============================================================================
