------------------------ MODULE InboundChannelProofs ------------------------
(***************************************************************************)
(* Proofs about InboundChannel, for any feed of events, number of          *)
(* sessions, clients and broken connections, and any size of the ring, the *)
(* ledger and the event store.                                             *)
(*                                                                         *)
(* The first part is about the streams: a client that resumes a session    *)
(* reads its frames in step (StreamInv). Which events are in the frames    *)
(* plays no part there; what counts is where a client stands in the store  *)
(* of its session.                                                         *)
(*                                                                         *)
(* The second part is about the events (RelayInv): an event is in at most  *)
(* one place of one session, be it a chain, the note of a file that is     *)
(* looked up, the text of a buffer, or a frame. What a replay may bring is *)
(* nowhere; what the ledger counts is somewhere, or its text is gone. That *)
(* no event is framed twice or lost unseen follows from it.                *)
(***************************************************************************)
EXTENDS InboundChannel, ListProofs

Fields == {"id", "open", "sink", "handoff", "chain", "busy", "note", "pending", "known", "store"}
IsList(q) == q \in Seq({q[k] : k \in DOMAIN q})
Stored(i) == Len(sessions[i].store)

\* Sessions are records, one after the other, with a list of frames each.
SessionsOK ==
    /\ IsList(sessions) /\ current \in 0..Len(sessions)
    /\ \A i \in DOMAIN sessions : DOMAIN sessions[i] = Fields /\ IsList(sessions[i].store)

ClientsOK ==
    /\ client = [c \in Clients |-> client[c]]
    /\ \A c \in Clients :
        /\ DOMAIN client[c] = {"link", "last", "wire"}
        /\ DOMAIN client[c].last = {"inc", "n"}
        /\ client[c].link \in 0..Len(sessions)
        /\ IsList(client[c].wire)
        /\ client[c].link = 0 => client[c].wire = <<>>

\* The last frame a client knows is one its session has sent.
KnowsLast(c) ==
    LET last == client[c].last IN
    /\ last.inc \in 0..Len(sessions) /\ last.n \in Nat
    /\ last.inc # 0 => last.n \in 1..Stored(last.inc)

\* A wire w holds the newest of m frames; a client that knows frame n and reads
\* w goes on from there, or the store has dropped the frame it knows.
Newest(w, m) == Len(w) <= m /\ \A k \in DOMAIN w : w[k].n = m - Len(w) + k
Follows(n, w, m) == n <= m - Len(w) /\ (n = m - Len(w) \/ n <= m - StoreMax)

\* A client that listens has the newest frames of its session on the wire, and
\* they follow the frame it knows of that session. As long as the session is
\* open, what it stores is also sent.
InStep(c) ==
    LET i == client[c].link
        last == client[c].last
    IN  i # 0 =>
        /\ sessions[i].open => sessions[i].sink
        /\ Newest(client[c].wire, Stored(i))
        /\ last.inc = i => Follows(last.n, client[c].wire, Stored(i))

StreamInv ==
    /\ SessionsOK /\ ClientsOK
    /\ \A c \in Clients : KnowsLast(c) /\ InStep(c)

(***************************************************************************)
(* Lists.                                                                  *)
(***************************************************************************)
LEMMA ListLength ==
    ASSUME NEW q, IsList(q)
    PROVE  Len(q) \in Nat /\ DOMAIN q = 1..Len(q) /\ q = [k \in 1..Len(q) |-> q[k]]
  BY LenProperties DEF IsList

LEMMA ListOf ==
    ASSUME NEW n \in Nat, NEW q, q = [k \in 1..n |-> q[k]]
    PROVE  IsList(q) /\ Len(q) = n
<1> DEFINE S == {q[k] : k \in DOMAIN q}
<1>1. DOMAIN q = 1..n
  OBVIOUS
<1>2. q \in [1..n -> S]
  BY <1>1
<1>3. q \in Seq(S)
  BY <1>2, SeqDef
<1>4. Len(q) \in Nat /\ DOMAIN q = 1..Len(q)
  BY <1>3, LenProperties
<1> QED  BY <1>1, <1>3, <1>4 DEF IsList

LEMMA ListAppend ==
    ASSUME NEW q, IsList(q), NEW x
    PROVE  /\ IsList(Append(q, x)) /\ Len(Append(q, x)) = Len(q) + 1
           /\ \A k \in 1..Len(q) : Append(q, x)[k] = q[k]
           /\ Append(q, x)[Len(q) + 1] = x
<1> DEFINE S == {q[k] : k \in DOMAIN q} \union {x}
<1>1. q \in Seq(S) /\ x \in S
  BY SeqMonotonic DEF IsList
<1> HIDE DEF S
<1>2. /\ Append(q, x) \in Seq(S) /\ Len(Append(q, x)) = Len(q) + 1
      /\ \A k \in 1..Len(q) : Append(q, x)[k] = q[k]
      /\ Append(q, x)[Len(q) + 1] = x
  BY <1>1
<1>3. Append(q, x) = [k \in 1..Len(Append(q, x)) |-> Append(q, x)[k]] /\ Len(Append(q, x)) \in Nat
  BY <1>2, LenProperties
<1>4. IsList(Append(q, x))
  BY <1>3, ListOf
<1> QED  BY <1>2, <1>4

LEMMA ListTail ==
    ASSUME NEW q, IsList(q), q # <<>>
    PROVE  /\ IsList(Tail(q)) /\ Len(q) >= 1 /\ Len(Tail(q)) = Len(q) - 1 /\ Head(q) = q[1]
           /\ \A k \in 1..(Len(q) - 1) : Tail(q)[k] = q[k + 1]
<1> DEFINE S == {q[k] : k \in DOMAIN q}
<1>1. q \in Seq(S)
  BY DEF IsList
<1> HIDE DEF S
<1>2. /\ Tail(q) \in Seq(S) /\ Len(q) >= 1 /\ Len(Tail(q)) = Len(q) - 1 /\ Head(q) = q[1]
      /\ \A k \in 1..(Len(q) - 1) : Tail(q)[k] = q[k + 1]
  BY <1>1
<1>3. Tail(q) = [k \in 1..Len(Tail(q)) |-> Tail(q)[k]] /\ Len(Tail(q)) \in Nat
  BY <1>2, LenProperties
<1>4. IsList(Tail(q))
  BY <1>3, ListOf
<1> QED  BY <1>2, <1>4

LEMMA NoList == IsList(<<>>) /\ Len(<<>>) = 0
  BY EmptySeq DEF IsList

\* A frame is sent, and one is read.
LEMMA SendNewest ==
    ASSUME NEW w, IsList(w), NEW m \in Nat, NEW x, x.n = m + 1
    PROVE  /\ Newest(w, m) => Newest(Append(w, x), m + 1)
           /\ \A n \in Nat : Follows(n, w, m) => Follows(n, Append(w, x), m + 1)
<1> DEFINE v == Append(w, x)
<1>1. /\ Len(w) \in Nat /\ DOMAIN w = 1..Len(w)
      /\ Len(v) = Len(w) + 1 /\ DOMAIN v = 1..Len(v)
      /\ \A k \in 1..Len(w) : v[k] = w[k]
      /\ v[Len(w) + 1] = x
  BY ListAppend, ListLength
<1> HIDE DEF v
<1>2. ASSUME Newest(w, m), NEW k \in DOMAIN v PROVE v[k].n = (m + 1) - Len(v) + k
  <2>1. CASE k = Len(w) + 1
    BY <1>1, <2>1
  <2>2. CASE k # Len(w) + 1
    <3>1. k \in 1..Len(w)
      BY <1>1, <1>2, <2>2
    <3> QED  BY <1>1, <1>2, <3>1 DEF Newest
  <2> QED  BY <2>1, <2>2
<1>3. Newest(w, m) => Newest(v, m + 1)
  BY <1>1, <1>2 DEF Newest
<1>4. \A n \in Nat : Follows(n, w, m) => Follows(n, v, m + 1)
  BY <1>1, BoundsAssumption DEF Follows
<1> QED  BY <1>3, <1>4 DEF v

LEMMA ReadNewest ==
    ASSUME NEW w, IsList(w), w # <<>>, NEW m \in Nat, Newest(w, m)
    PROVE  /\ Newest(Tail(w), m)
           /\ Head(w).n \in 1..m /\ Follows(Head(w).n, Tail(w), m)
           /\ \A n \in Nat : Follows(n, w, m) =>
                Head(w).n = n + 1 \/ (n <= m - StoreMax /\ Head(w).n > n)
<1> DEFINE v == Tail(w)
<1>1. /\ Len(w) \in Nat /\ DOMAIN w = 1..Len(w) /\ Len(w) >= 1 /\ Head(w) = w[1]
      /\ Len(v) = Len(w) - 1 /\ DOMAIN v = 1..Len(v)
      /\ \A k \in 1..(Len(w) - 1) : v[k] = w[k + 1]
  BY ListTail, ListLength
<1> HIDE DEF v
<1>2. Head(w).n = m - Len(w) + 1 /\ Len(w) <= m
  BY <1>1 DEF Newest
<1>3. ASSUME NEW k \in DOMAIN v PROVE v[k].n = m - Len(v) + k
  <2>1. k \in 1..(Len(w) - 1) /\ k + 1 \in DOMAIN w /\ k \in Nat
    BY <1>1, <1>3
  <2>2. v[k] = w[k + 1] /\ w[k + 1].n = m - Len(w) + (k + 1)
    BY <1>1, <2>1 DEF Newest
  <2> QED  BY <1>1, <2>1, <2>2
<1>4. Newest(v, m)
  BY <1>1, <1>2, <1>3 DEF Newest
<1>5. Head(w).n \in 1..m /\ Follows(Head(w).n, v, m)
  BY <1>1, <1>2 DEF Follows
<1>6. \A n \in Nat : Follows(n, w, m) =>
         Head(w).n = n + 1 \/ (n <= m - StoreMax /\ Head(w).n > n)
  BY <1>1, <1>2, BoundsAssumption DEF Follows
<1> QED  BY <1>4, <1>5, <1>6 DEF v

(***************************************************************************)
(* What the steps do to stores and wires.                                  *)
(***************************************************************************)
\* The sessions stay where they are, and none is opened again. A session that
\* stays open keeps its stream, as far as somebody listens.
Kept ==
    /\ sessions' = [j \in DOMAIN sessions |-> sessions'[j]]
    /\ \A j \in DOMAIN sessions :
        /\ DOMAIN sessions'[j] = Fields
        /\ sessions'[j].open => sessions[j].open
        /\ sessions'[j].open /\ sessions[j].sink =>
              sessions'[j].sink \/ \A c \in Clients : client[c].link # j
    /\ current' \in {0, current}

\* What close does to the sessions.
LEMMA ClosedIs ==
    ASSUME sessions = [j \in DOMAIN sessions |-> sessions[j]],
           \A j \in DOMAIN sessions : DOMAIN sessions[j] = Fields,
           NEW i \in DOMAIN sessions
    PROVE  /\ Closed(i) = [j \in DOMAIN sessions |-> Closed(i)[j]]
           /\ \A j \in DOMAIN sessions :
                 /\ DOMAIN Closed(i)[j] = Fields /\ Closed(i)[j].store = sessions[j].store
                 /\ IF j = i THEN ~Closed(i)[j].open ELSE Closed(i)[j] = sessions[j]
<1>1. /\ DOMAIN Closed(i) = DOMAIN sessions
      /\ Closed(i) = [j \in DOMAIN sessions |-> Closed(i)[j]]
  BY DEF Closed
<1>2. ASSUME NEW j \in DOMAIN sessions, j # i PROVE Closed(i)[j] = sessions[j]
  BY <1>2 DEF Closed
<1> DEFINE s == [sessions[i] EXCEPT !.open = FALSE, !.sink = FALSE, !.pending = NoPending,
                                    !.known = FALSE, !.handoff = sessions[i].chain # <<>>]
<1>3. Closed(i)[i] = s
  BY DEF Closed
<1>4. DOMAIN s = Fields /\ s.store = sessions[i].store /\ s.open = FALSE
  BY DEF Fields
<1> HIDE DEF s
<1> QED  BY <1>1, <1>2, <1>3, <1>4

LEMMA KeptShape ==
    ASSUME StreamInv, Kept, \A j \in DOMAIN sessions : IsList(sessions'[j].store)
    PROVE  SessionsOK' /\ Len(sessions') = Len(sessions) /\ DOMAIN sessions' = DOMAIN sessions
<1>1. IsList(sessions) /\ current \in 0..Len(sessions)
  BY DEF StreamInv, SessionsOK
<1>2. Len(sessions) \in Nat /\ DOMAIN sessions = 1..Len(sessions)
  BY <1>1, ListLength
<1>3. sessions' = [j \in 1..Len(sessions) |-> sessions'[j]]
  BY <1>2 DEF Kept
<1>4. IsList(sessions') /\ Len(sessions') = Len(sessions)
  BY <1>2, <1>3, ListOf
<1>5. DOMAIN sessions' = DOMAIN sessions
  BY <1>2, <1>3
<1>6. current' \in 0..Len(sessions')
  BY <1>1, <1>2, <1>4 DEF Kept
<1> QED  BY <1>4, <1>5, <1>6 DEF SessionsOK, Kept

\* A client that did nothing stands where it stood.
LEMMA SameClient ==
    ASSUME StreamInv, NEW c \in Clients, client'[c].last = client[c].last,
           Len(sessions') \in Nat, Len(sessions) <= Len(sessions'),
           \A j \in 1..Len(sessions) :
              /\ sessions'[j].store = sessions[j].store
              /\ (sessions[j].open => sessions[j].sink) /\ client[c].link = j
                    => (sessions'[j].open => sessions'[j].sink)
    PROVE  /\ KnowsLast(c)'
           /\ client'[c].link = client[c].link /\ client'[c].wire = client[c].wire => InStep(c)'
<1>1. Len(sessions) \in Nat
  BY ListLength DEF StreamInv, SessionsOK
<1>2. PICK l \in 0..Len(sessions), a \in 0..Len(sessions), n \in Nat :
         /\ l = client[c].link /\ a = client[c].last.inc /\ n = client[c].last.n
         /\ a # 0 => n \in 1..Len(sessions[a].store)
  BY DEF StreamInv, ClientsOK, KnowsLast, Stored
<1>3. client'[c].last.inc = a /\ client'[c].last.n = n
  BY <1>2
<1>4. KnowsLast(c)'
  <2>1. a # 0 => n \in 1..Len(sessions'[a].store)
    BY <1>1, <1>2
  <2>2. a \in 0..Len(sessions')
    BY <1>1, <1>2
  <2> QED  BY <1>2, <1>3, <2>1, <2>2 DEF KnowsLast, Stored
<1>5. ASSUME client'[c].link = client[c].link, client'[c].wire = client[c].wire PROVE InStep(c)'
  <2>1. l # 0 => /\ sessions[l].open => sessions[l].sink
                 /\ Newest(client[c].wire, Len(sessions[l].store))
                 /\ a = l => Follows(n, client[c].wire, Len(sessions[l].store))
    BY <1>2 DEF StreamInv, InStep, Stored
  <2>2. l # 0 => /\ sessions'[l].open => sessions'[l].sink
                 /\ sessions'[l].store = sessions[l].store
    BY <1>1, <1>2, <2>1
  <2>3. client'[c].link = l
    BY <1>2, <1>5
  <2> QED  BY <1>3, <1>5, <2>1, <2>2, <2>3 DEF InStep, Stored
<1> QED  BY <1>4, <1>5

\* No frame is stored and nobody's wire changes.
LEMMA StillStep ==
    ASSUME StreamInv, Kept, client' = client,
           \A j \in DOMAIN sessions : sessions'[j].store = sessions[j].store
    PROVE  StreamInv'
<1>1. \A j \in DOMAIN sessions : IsList(sessions'[j].store)
  BY DEF StreamInv, SessionsOK
<1>2. SessionsOK' /\ Len(sessions') = Len(sessions) /\ DOMAIN sessions' = DOMAIN sessions
  BY <1>1, KeptShape
<1>3. Len(sessions) \in Nat /\ DOMAIN sessions = 1..Len(sessions)
  BY ListLength DEF StreamInv, SessionsOK
<1>4. \A j \in 1..Len(sessions) : Stored(j)' = Stored(j)
  BY <1>3 DEF Stored
<1>5. ClientsOK'
  BY <1>2 DEF StreamInv, ClientsOK
<1>6. ASSUME NEW c \in Clients PROVE KnowsLast(c)' /\ InStep(c)'
  <2>1. KnowsLast(c)'
    BY <1>2, <1>3, <1>4 DEF StreamInv, KnowsLast
  <2>2. client[c].link \in 0..Len(sessions)
    BY DEF StreamInv, ClientsOK
  <2> QED  BY <1>3, <1>4, <2>1, <2>2 DEF StreamInv, InStep, Kept
<1> QED  BY <1>2, <1>5, <1>6 DEF StreamInv

\* A notification of session i: stored, and sent to whoever listens.
LEMMA FrameStep ==
    ASSUME StreamInv, Kept, NEW i \in DOMAIN sessions, NEW items,
           \A j \in DOMAIN sessions : j # i => sessions'[j].store = sessions[j].store,
           sessions'[i].store = Append(sessions[i].store, items),
           sessions[i].open \/ sessions[i].sink, client' = Written(i, items)
    PROVE  StreamInv'
<1>1. /\ IsList(sessions[i].store)
      /\ \A j \in DOMAIN sessions : IsList(sessions[j].store)
  BY DEF StreamInv, SessionsOK
<1>2. IsList(sessions'[i].store) /\ Len(sessions'[i].store) = Stored(i) + 1
  BY <1>1, ListAppend DEF Stored
<1>3. SessionsOK' /\ Len(sessions') = Len(sessions) /\ DOMAIN sessions' = DOMAIN sessions
  <2>1. \A j \in DOMAIN sessions : IsList(sessions'[j].store)
    BY <1>1, <1>2
  <2> QED  BY <2>1, KeptShape
<1>4. Len(sessions) \in Nat /\ DOMAIN sessions = 1..Len(sessions)
  BY ListLength DEF StreamInv, SessionsOK
<1>5. /\ \A j \in 1..Len(sessions) : Stored(j) \in Nat
      /\ \A j \in 1..Len(sessions) : Stored(j)' = IF j = i THEN Stored(j) + 1 ELSE Stored(j)
  BY <1>1, <1>2, <1>4, ListLength DEF Stored
<1> DEFINE frame == [n |-> Len(sessions[i].store) + 1, items |-> items]
           Heard(c) == sessions[i].sink /\ client[c].link = i
<1>6. /\ \A c \in Clients :
            client'[c] = IF Heard(c) THEN [client[c] EXCEPT !.wire = Append(@, frame)] ELSE client[c]
      /\ client' = [c \in Clients |-> client'[c]]
  BY DEF Written
<1>7. frame.n = Stored(i) + 1
  BY DEF Stored
<1> HIDE DEF frame, Heard
<1>8. ASSUME NEW c \in Clients
      PROVE  /\ DOMAIN client'[c] = {"link", "last", "wire"}
             /\ client'[c].link = client[c].link /\ client'[c].last = client[c].last
             /\ client'[c].wire = IF Heard(c) THEN Append(client[c].wire, frame) ELSE client[c].wire
  <2>1. DOMAIN client[c] = {"link", "last", "wire"}
    BY DEF StreamInv, ClientsOK
  <2> QED  BY <1>6, <2>1
<1>9. ClientsOK'
  <2> SUFFICES ASSUME NEW c \in Clients
               PROVE  /\ IsList(client'[c].wire) /\ (client'[c].link = 0 => client'[c].wire = <<>>)
                      /\ DOMAIN client'[c].last = {"inc", "n"} /\ client'[c].link \in 0..Len(sessions)
    BY <1>3, <1>6, <1>8 DEF ClientsOK
  <2>1. /\ IsList(client[c].wire) /\ (client[c].link = 0 => client[c].wire = <<>>)
        /\ DOMAIN client[c].last = {"inc", "n"} /\ client[c].link \in 0..Len(sessions)
    BY DEF StreamInv, ClientsOK
  <2>2. IsList(Append(client[c].wire, frame))
    BY <2>1, ListAppend
  <2>3. Heard(c) => client[c].link # 0
    BY <1>4 DEF Heard
  <2> QED  BY <1>8, <2>1, <2>2, <2>3
<1>10. ASSUME NEW c \in Clients PROVE KnowsLast(c)' /\ InStep(c)'
  <2>1. KnowsLast(c) /\ InStep(c) /\ IsList(client[c].wire) /\ client[c].link \in 0..Len(sessions)
    BY DEF StreamInv, ClientsOK
  <2>2. PICK l \in 0..Len(sessions), a \in 0..Len(sessions), n \in Nat :
           /\ l = client[c].link /\ a = client[c].last.inc /\ n = client[c].last.n
           /\ a # 0 => n \in 1..Stored(a)
    BY <2>1 DEF KnowsLast
  <2>3. /\ client'[c].link = l /\ client'[c].last.inc = a /\ client'[c].last.n = n
        /\ l # 0 => l \in DOMAIN sessions
    BY <1>4, <1>8, <2>2
  <2>4. a # 0 => n \in 1..Stored(a)'
    BY <1>4, <1>5, <2>2
  <2>5. KnowsLast(c)'
    BY <1>3, <2>3, <2>4 DEF KnowsLast, Stored
  <2>6. l # 0 => /\ sessions[l].open => sessions[l].sink
                 /\ Newest(client[c].wire, Stored(l))
                 /\ a = l => Follows(n, client[c].wire, Stored(l))
    BY <2>1, <2>2 DEF InStep, Stored
  <2>7. l # 0 /\ sessions'[l].open => sessions'[l].sink
    BY <2>2, <2>3, <2>6 DEF Kept
  <2>8. ASSUME l # 0
        PROVE  Newest(client'[c].wire, Stored(l)') /\ (a = l => Follows(n, client'[c].wire, Stored(l)'))
    <3>1. CASE l = i
      <4>1. client'[c].wire = Append(client[c].wire, frame)
        BY <1>8, <2>2, <2>6, <2>8, <3>1 DEF Heard
      <4>2. Stored(l) \in Nat /\ Stored(l)' = Stored(l) + 1 /\ frame.n = Stored(l) + 1
        BY <1>5, <1>7, <2>8, <2>2, <3>1
      <4>3. PICK m \in Nat : m = Stored(l)
        BY <4>2
      <4>4. PICK w, x : w = client[c].wire /\ x = frame
        OBVIOUS
      <4>5. Newest(Append(w, x), m + 1) /\ (a = l => Follows(n, Append(w, x), m + 1))
        BY <2>1, <2>6, <2>8, <4>2, <4>3, <4>4, SendNewest
      <4> QED  BY <4>1, <4>2, <4>3, <4>4, <4>5
    <3>2. CASE l # i
      <4>1. client'[c].wire = client[c].wire /\ Stored(l)' = Stored(l)
        BY <1>5, <1>8, <2>2, <2>8, <3>2 DEF Heard
      <4> QED  BY <2>6, <2>8, <4>1
    <3> QED  BY <3>1, <3>2
  <2>9. InStep(c)'
    BY <2>3, <2>7, <2>8 DEF InStep, Stored
  <2> QED  BY <2>5, <2>9
<1> QED  BY <1>3, <1>9, <1>10 DEF StreamInv

\* A request opens a session with an empty store; the old one is closed.
LEMMA RequestStep ==
    ASSUME StreamInv, NEW c \in Clients, Request(c)
    PROVE  StreamInv'
<1> DEFINE old == IF current # 0 THEN Closed(current) ELSE sessions
           new == NewSession(c)
<1>1. /\ sessions' = Append(old, new) /\ current' = Len(sessions) + 1 /\ client' = client
  BY DEF Request
<1>2. /\ Len(sessions) \in Nat /\ DOMAIN sessions = 1..Len(sessions)
      /\ sessions = [j \in 1..Len(sessions) |-> sessions[j]] /\ current \in 0..Len(sessions)
      /\ \A j \in DOMAIN sessions : DOMAIN sessions[j] = Fields /\ IsList(sessions[j].store)
  BY ListLength DEF StreamInv, SessionsOK
<1>3. DOMAIN new = Fields /\ new.store = <<>>
  BY DEF NewSession, Fields
<1>4. /\ old = [j \in 1..Len(sessions) |-> old[j]]
      /\ \A j \in 1..Len(sessions) :
            /\ DOMAIN old[j] = Fields /\ old[j].store = sessions[j].store
            /\ old[j].open => sessions[j].open
            /\ old[j].sink = sessions[j].sink \/ ~old[j].open
  <2>1. CASE current = 0
    BY <1>2, <2>1
  <2>2. CASE current # 0
    <3>1. old = Closed(current) /\ current \in DOMAIN sessions
      BY <1>2, <2>2
    <3>2. sessions = [j \in DOMAIN sessions |-> sessions[j]]
      BY <1>2
    <3> HIDE DEF old
    <3> QED  BY <1>2, <3>1, <3>2, ClosedIs
  <2> QED  BY <2>1, <2>2
<1> HIDE DEF old, new
<1>5. IsList(old) /\ Len(old) = Len(sessions)
  BY <1>2, <1>4, ListOf
<1>6. /\ IsList(sessions') /\ Len(sessions') = Len(sessions) + 1
      /\ \A j \in 1..Len(sessions) : sessions'[j] = old[j]
      /\ sessions'[Len(sessions) + 1] = new
  BY <1>1, <1>5, ListAppend
<1>7. DOMAIN sessions' = 1..(Len(sessions) + 1)
  BY <1>6, ListLength
<1>8. SessionsOK'
  <2>1. ASSUME NEW j \in DOMAIN sessions' PROVE DOMAIN sessions'[j] = Fields /\ IsList(sessions'[j].store)
    <3>1. CASE j = Len(sessions) + 1
      BY <1>3, <1>6, <3>1, NoList
    <3>2. CASE j # Len(sessions) + 1
      <4>1. j \in 1..Len(sessions)
        BY <1>2, <1>7, <2>1, <3>2
      <4> QED  BY <1>2, <1>4, <1>6, <4>1
    <3> QED  BY <3>1, <3>2
  <2>2. current' \in 0..Len(sessions')
    BY <1>1, <1>2, <1>6
  <2> QED  BY <1>6, <2>1, <2>2 DEF SessionsOK
<1>9. ClientsOK'
  BY <1>1, <1>2, <1>6 DEF StreamInv, ClientsOK
<1>10. ASSUME NEW d \in Clients PROVE KnowsLast(d)' /\ InStep(d)'
  <2>1. \A j \in 1..Len(sessions) : /\ sessions'[j].store = sessions[j].store
                                    /\ sessions'[j].open => sessions[j].open
                                    /\ sessions'[j].sink = sessions[j].sink \/ ~sessions'[j].open
    BY <1>4, <1>6
  <2> QED  BY <1>1, <1>2, <1>6, <2>1, SameClient
<1> QED  BY <1>8, <1>9, <1>10 DEF StreamInv

\* The stream attaches behind what the store still has for the client.
LEMMA ConnectStep ==
    ASSUME StreamInv, NEW c \in Clients, Connect(c)
    PROVE  StreamInv'
<1> DEFINE sent == Resumed(current, client[c].last.n)
<1>1. /\ current # 0 /\ client[c].link = 0 /\ current' = current
      /\ client' = [client EXCEPT ![c].link = current, ![c].wire = sent]
      /\ ReplayMissed(current, [sessions EXCEPT ![current].sink = TRUE])
  BY DEF Connect
<1>2. /\ Len(sessions) \in Nat /\ DOMAIN sessions = 1..Len(sessions) /\ current \in DOMAIN sessions
      /\ \A j \in DOMAIN sessions : DOMAIN sessions[j] = Fields /\ IsList(sessions[j].store)
  BY <1>1, ListLength DEF StreamInv, SessionsOK
<1>3. /\ sessions' = [j \in DOMAIN sessions |-> sessions'[j]]
      /\ \A j \in DOMAIN sessions :
            /\ DOMAIN sessions'[j] = Fields /\ sessions'[j].store = sessions[j].store
            /\ sessions'[j].open = sessions[j].open
            /\ sessions'[j].sink = IF j = current THEN TRUE ELSE sessions[j].sink
  <2> DEFINE ss == [sessions EXCEPT ![current].sink = TRUE]
  <2>1. /\ ss = [j \in DOMAIN sessions |-> ss[j]]
        /\ \A j \in DOMAIN sessions :
              /\ DOMAIN ss[j] = Fields /\ ss[j].store = sessions[j].store
              /\ ss[j].open = sessions[j].open
              /\ ss[j].sink = IF j = current THEN TRUE ELSE sessions[j].sink
    BY <1>2 DEF Fields
  <2>2. ReplayMissed(current, ss)
    BY <1>1
  <2> HIDE DEF ss
  <2>3. sessions' = ss \/ sessions' = [ss EXCEPT ![current].chain = @ \o Missed]
    BY <2>2 DEF ReplayMissed
  <2>4. CASE sessions' = ss
    BY <2>1, <2>4
  <2>5. CASE sessions' = [ss EXCEPT ![current].chain = @ \o Missed]
    BY <1>2, <2>1, <2>5 DEF Fields
  <2> QED  BY <2>3, <2>4, <2>5
<1>4. Kept
  BY <1>1, <1>3 DEF Kept
<1>5. SessionsOK' /\ Len(sessions') = Len(sessions) /\ DOMAIN sessions' = DOMAIN sessions
  BY <1>2, <1>3, <1>4, KeptShape
<1>6. \A d \in Clients : DOMAIN client[d] = {"link", "last", "wire"}
  BY DEF StreamInv, ClientsOK
<1>7. /\ client' = [d \in Clients |-> client'[d]]
      /\ \A d \in Clients : d # c => client'[d] = client[d]
      /\ DOMAIN client'[c] = {"link", "last", "wire"}
      /\ client'[c].link = current /\ client'[c].wire = sent /\ client'[c].last = client[c].last
  BY <1>1, <1>6 DEF StreamInv, ClientsOK
<1>8. PICK n \in Nat, a \in 0..Len(sessions), m \in Nat :
         /\ n = client[c].last.n /\ a = client[c].last.inc /\ m = Stored(current)
         /\ a = current => n \in 1..m
  <2>1. Stored(current) \in Nat
    BY <1>2, ListLength DEF Stored
  <2> QED  BY <1>1, <2>1 DEF StreamInv, KnowsLast
<1>9. /\ IsList(sent) /\ Newest(sent, m) /\ (a = current => Follows(n, sent, m))
  <2> DEFINE st == sessions[current].store
  <2>1. m = Len(st)
    BY <1>8 DEF Stored
  <2>2. sent = IF n \in 1..m /\ n > m - StoreMax
               THEN [k \in 1..(m - n) |-> [n |-> n + k, items |-> st[n + k]]] ELSE <<>>
    BY <1>8, <2>1 DEF Resumed
  <2> HIDE DEF sent, st
  <2>3. CASE n \in 1..m /\ n > m - StoreMax
    <3>1. sent = [k \in 1..(m - n) |-> sent[k]] /\ m - n \in Nat
      BY <2>2, <2>3
    <3>2. IsList(sent) /\ Len(sent) = m - n /\ DOMAIN sent = 1..(m - n)
      BY <3>1, ListOf
    <3>3. \A k \in 1..(m - n) : sent[k].n = n + k
      BY <2>2, <2>3
    <3> QED  BY <2>3, <3>2, <3>3 DEF Newest, Follows
  <2>4. CASE ~(n \in 1..m /\ n > m - StoreMax)
    <3>1. sent = <<>> /\ IsList(sent) /\ Len(sent) = 0 /\ DOMAIN sent = {}
      BY <2>2, <2>4, NoList, ListLength
    <3> QED  BY <1>8, <2>4, <3>1, BoundsAssumption DEF Newest, Follows
  <2> QED  BY <2>3, <2>4
<1> HIDE DEF sent
<1>10. ClientsOK'
  <2>1. ASSUME NEW d \in Clients
        PROVE  /\ DOMAIN client'[d] = {"link", "last", "wire"}
               /\ DOMAIN client'[d].last = {"inc", "n"}
               /\ client'[d].link \in 0..Len(sessions)
               /\ IsList(client'[d].wire)
               /\ client'[d].link = 0 => client'[d].wire = <<>>
    <3>1. CASE d = c
      BY <1>1, <1>2, <1>7, <1>9, <3>1 DEF StreamInv, ClientsOK
    <3>2. CASE d # c
      BY <1>7, <3>2 DEF StreamInv, ClientsOK
    <3> QED  BY <3>1, <3>2
  <2> QED  BY <1>5, <1>7, <2>1 DEF ClientsOK
<1>11. ASSUME NEW d \in Clients PROVE KnowsLast(d)' /\ InStep(d)'
  <2>1. \A j \in 1..Len(sessions) :
           /\ sessions'[j].store = sessions[j].store
           /\ (sessions[j].open => sessions[j].sink) => (sessions'[j].open => sessions'[j].sink)
    BY <1>2, <1>3
  <2>2. client'[d].last = client[d].last /\ Len(sessions') \in Nat /\ Len(sessions) <= Len(sessions')
    BY <1>2, <1>5, <1>7
  <2>3. KnowsLast(d)' /\ (d # c => InStep(d)')
    BY <1>7, <2>1, <2>2, SameClient
  <2>4. CASE d = c
    <3>1. sessions'[current].sink /\ Len(sessions'[current].store) = m
      BY <1>2, <1>3, <1>8 DEF Stored
    <3>2. PICK l : l = current
      OBVIOUS
    <3>3. /\ client'[c].link = l /\ client'[c].last.inc = a /\ client'[c].last.n = n
          /\ client'[c].wire = sent
      BY <1>7, <1>8, <3>2
    <3>4. InStep(c)'
      BY <1>9, <3>1, <3>2, <3>3 DEF InStep, Stored
    <3> QED  BY <2>3, <2>4, <3>4
  <2> QED  BY <2>3, <2>4
<1> QED  BY <1>5, <1>10, <1>11 DEF StreamInv

\* A client reads the next frame of its wire.
LEMMA ReadStep ==
    ASSUME StreamInv, NEW c \in Clients, Read(c)
    PROVE  StreamInv'
<1>1. /\ client[c].wire # <<>> /\ UNCHANGED <<sessions, current>>
      /\ client' = [client EXCEPT
           ![c].last = [inc |-> client[c].link, n |-> Head(client[c].wire).n], ![c].wire = Tail(@)]
  BY DEF Read
<1>2. \A d \in Clients : /\ DOMAIN client[d] = {"link", "last", "wire"} /\ IsList(client[d].wire)
                         /\ client[d].link \in 0..Len(sessions)
  BY DEF StreamInv, ClientsOK
<1>3. /\ client' = [d \in Clients |-> client'[d]]
      /\ \A d \in Clients : d # c => client'[d] = client[d]
      /\ DOMAIN client'[c] = {"link", "last", "wire"}
      /\ client'[c].link = client[c].link /\ client'[c].wire = Tail(client[c].wire)
      /\ client'[c].last = [inc |-> client[c].link, n |-> Head(client[c].wire).n]
  BY <1>1, <1>2 DEF StreamInv, ClientsOK
<1>13. sessions' = sessions /\ client[c].wire # <<>>
  BY <1>1
<1>4. /\ Len(sessions) \in Nat /\ DOMAIN sessions = 1..Len(sessions)
      /\ \A j \in DOMAIN sessions : IsList(sessions[j].store)
  BY ListLength DEF StreamInv, SessionsOK
<1>5. PICK l \in DOMAIN sessions, m \in Nat : l = client[c].link /\ l # 0 /\ m = Stored(l)
  <2>1. client[c].link # 0
    BY <1>1 DEF StreamInv, ClientsOK
  <2>2. client[c].link \in DOMAIN sessions
    BY <1>2, <1>4, <2>1
  <2>3. Stored(client[c].link) \in Nat
    BY <1>4, <2>2, ListLength DEF Stored
  <2> QED  BY <2>1, <2>2, <2>3
<1>6. Newest(client[c].wire, m) /\ (sessions[l].open => sessions[l].sink)
  BY <1>5 DEF StreamInv, InStep
<1>7. PICK h : h = Head(client[c].wire).n
  OBVIOUS
<1>8. Newest(Tail(client[c].wire), m) /\ h \in 1..m /\ Follows(h, Tail(client[c].wire), m)
  BY <1>1, <1>2, <1>5, <1>6, <1>7, ReadNewest
<1>9. IsList(Tail(client[c].wire))
  BY <1>1, <1>2, ListTail
<1>10. client'[c].last.n = h /\ client'[c].last.inc = l /\ DOMAIN client'[c].last = {"inc", "n"}
  <2>1. client'[c].last = [inc |-> l, n |-> h]
    BY <1>3, <1>5, <1>7
  <2> QED  BY <2>1
<1>14. client'[c].link = l /\ client'[c].wire = Tail(client[c].wire)
  BY <1>3, <1>5
<1>11. ClientsOK'
  <2>1. ASSUME NEW d \in Clients
        PROVE  /\ DOMAIN client'[d] = {"link", "last", "wire"}
               /\ DOMAIN client'[d].last = {"inc", "n"}
               /\ client'[d].link \in 0..Len(sessions)
               /\ IsList(client'[d].wire)
               /\ client'[d].link = 0 => client'[d].wire = <<>>
    <3>1. CASE d = c
      <4>1. DOMAIN client'[c] = {"link", "last", "wire"}
        BY <1>3
      <4>2. l # 0 /\ l \in 0..Len(sessions)
        BY <1>4, <1>5
      <4> QED  BY <1>9, <1>10, <1>14, <3>1, <4>1, <4>2
    <3>2. CASE d # c
      BY <1>3, <3>2 DEF StreamInv, ClientsOK
    <3> QED  BY <3>1, <3>2
  <2>2. client' = [d \in Clients |-> client'[d]]
    BY <1>3
  <2> QED  BY <1>13, <2>1, <2>2, Zenon DEF ClientsOK
<1>12. ASSUME NEW d \in Clients PROVE KnowsLast(d)' /\ InStep(d)'
  <2>1. CASE d = c
    <3>1. KnowsLast(d)'
      <4>1. h \in Nat /\ h \in 1..Len(sessions[l].store)
        BY <1>5, <1>8 DEF Stored
      <4> QED  BY <1>4, <1>5, <1>10, <1>13, <2>1, <4>1 DEF KnowsLast, Stored
    <3>2. InStep(d)'
      <4>1. Newest(client'[d].wire, Stored(l)') /\ Follows(h, client'[d].wire, Stored(l)')
        BY <1>5, <1>8, <1>13, <1>14, <2>1 DEF Stored
      <4>2. sessions'[l].open => sessions'[l].sink
        BY <1>6, <1>13
      <4> QED  BY <1>10, <1>14, <2>1, <4>1, <4>2 DEF InStep
    <3> QED  BY <3>1, <3>2
  <2>2. CASE d # c
    <3>1. KnowsLast(d) /\ InStep(d) /\ client'[d] = client[d]
      BY <1>3, <2>2 DEF StreamInv
    <3> QED  BY <1>13, <3>1 DEF KnowsLast, InStep, Stored
  <2> QED  BY <2>1, <2>2
<1> QED  BY <1>1, <1>11, <1>12 DEF StreamInv, SessionsOK

\* The connection is gone, and with it what was on the wire.
LEMMA UnlinkStep ==
    ASSUME StreamInv, NEW c \in Clients, client' = Unlinked(c), UNCHANGED <<sessions, current>>
    PROVE  StreamInv'
<1>1. \A d \in Clients : DOMAIN client[d] = {"link", "last", "wire"}
  BY DEF StreamInv, ClientsOK
<1>2. /\ client' = [d \in Clients |-> client'[d]]
      /\ \A d \in Clients : d # c => client'[d] = client[d]
      /\ DOMAIN client'[c] = {"link", "last", "wire"}
      /\ client'[c].link = 0 /\ client'[c].wire = <<>> /\ client'[c].last = client[c].last
  BY <1>1 DEF Unlinked, StreamInv, ClientsOK
<1>3. Len(sessions) \in Nat
  BY ListLength DEF StreamInv, SessionsOK
<1>4. ClientsOK'
  <2>1. ASSUME NEW d \in Clients
        PROVE  /\ DOMAIN client'[d] = {"link", "last", "wire"}
               /\ DOMAIN client'[d].last = {"inc", "n"}
               /\ client'[d].link \in 0..Len(sessions)
               /\ IsList(client'[d].wire)
               /\ client'[d].link = 0 => client'[d].wire = <<>>
    <3>1. CASE d = c
      BY <1>2, <1>3, <3>1, NoList DEF StreamInv, ClientsOK
    <3>2. CASE d # c
      BY <1>2, <3>2 DEF StreamInv, ClientsOK
    <3> QED  BY <3>1, <3>2
  <2> QED  BY <1>2, <2>1 DEF ClientsOK
<1>5. ASSUME NEW d \in Clients PROVE KnowsLast(d)' /\ InStep(d)'
  <2>1. client'[d].last = client[d].last
    BY <1>2
  <2>2. KnowsLast(d)' /\ (d # c => InStep(d)')
    BY <1>2, <1>3, <2>1, SameClient
  <2>3. client'[c].link = 0 => InStep(c)'
    BY DEF InStep
  <2> QED  BY <1>2, <2>2, <2>3
<1> QED  BY <1>4, <1>5 DEF StreamInv, SessionsOK

(***************************************************************************)
(* The steps of the daemon.                                                *)
(***************************************************************************)
LEMMA ChainSteps ==
    ASSUME StreamInv, NEW i \in DOMAIN sessions,
           Withhold(i) \/ DeliverText(i) \/ DeliverPhoto(i) \/ DeliverFile(i) \/ Handoff(i) \/ FileRead(i)
    PROVE  StreamInv'
<1>0. /\ \A j \in DOMAIN sessions : DOMAIN sessions[j] = Fields
      /\ current \in 0..Len(sessions) /\ DOMAIN sessions = 1..Len(sessions)
  BY ListLength DEF StreamInv, SessionsOK
<1>1. ASSUME Withhold(i) PROVE StreamInv'
  BY <1>0, <1>1, StillStep DEF Withhold, Next1, Kept, Fields
<1>2. ASSUME DeliverText(i) PROVE StreamInv'
  <2>1. sessions[i].sink /\ client' = Written(i, {HeadOf(i)}) /\ current' = current
    BY <1>2 DEF DeliverText, InScope
  <2>2. Kept /\ sessions'[i].store = Append(sessions[i].store, {HeadOf(i)})
        /\ \A j \in DOMAIN sessions : j # i => sessions'[j].store = sessions[j].store
    <3> DEFINE ss == Next1(i, [sessions EXCEPT ![i].known = TRUE])
               frame == {HeadOf(i)}
    <3>1. sessions' = [ss EXCEPT ![i].store = Append(@, frame)] /\ current' = current
      BY <1>2 DEF DeliverText, FrameOf
    <3>2. /\ ss = [j \in DOMAIN sessions |-> ss[j]]
          /\ \A j \in DOMAIN sessions :
                /\ DOMAIN ss[j] = Fields /\ ss[j].store = sessions[j].store
                /\ ss[j].open = sessions[j].open /\ ss[j].sink = sessions[j].sink
      BY <1>0 DEF Next1, Fields
    <3> HIDE DEF ss, frame
    <3>3. Kept
      BY <3>1, <3>2 DEF Kept, Fields
    <3>4. /\ sessions'[i].store = Append(sessions[i].store, frame)
          /\ \A j \in DOMAIN sessions : j # i => sessions'[j].store = sessions[j].store
      BY <3>1, <3>2 DEF Fields
    <3> QED  BY <3>3, <3>4 DEF frame
  <2> QED  BY <2>1, <2>2, FrameStep
<1>3. ASSUME DeliverPhoto(i) PROVE StreamInv'
  <2>1. /\ Kept /\ client' = client
        /\ \A j \in DOMAIN sessions : sessions'[j].store = sessions[j].store
    <3> DEFINE buf == WithBuffer(sessions[i].pending, HeadOf(i))
               ss == [sessions EXCEPT ![i].known = TRUE, ![i].pending = buf]
    <3>1. sessions' = Next1(i, ss) /\ client' = client /\ current' = current
      BY <1>0, <1>3 DEF DeliverPhoto, Fields
    <3> HIDE DEF buf
    <3>2. /\ ss = [j \in DOMAIN sessions |-> ss[j]]
          /\ \A j \in DOMAIN sessions :
                /\ DOMAIN ss[j] = Fields /\ ss[j].store = sessions[j].store
                /\ ss[j].open = sessions[j].open /\ ss[j].sink = sessions[j].sink
      BY <1>0 DEF Fields
    <3> HIDE DEF ss
    <3> QED  BY <3>1, <3>2 DEF Next1, Kept, Fields
  <2> QED  BY <2>1, StillStep
<1>4. ASSUME DeliverFile(i) PROVE StreamInv'
  <2> DEFINE s == HeadOf(i)
             note == NoteFor(i, s)
             ss == [sessions EXCEPT ![i].pending = BufferAfter(@, s)]
  <2>1. \/ sessions' = Next1(i, ss) /\ client' = client
        \/ sessions' = FrameOf(i, note, Next1(i, ss)) /\ client' = Written(i, note)
        \/ sessions' = [ss EXCEPT ![i].busy = TRUE, ![i].note = note] /\ client' = client
    BY <1>4 DEF DeliverFile
  <2>2. sessions[i].sink /\ current' = current
    BY <1>4 DEF DeliverFile, InScope
  <2>3. /\ ss = [j \in DOMAIN sessions |-> ss[j]]
        /\ \A j \in DOMAIN sessions :
              /\ DOMAIN ss[j] = Fields /\ ss[j].store = sessions[j].store
              /\ ss[j].open = sessions[j].open /\ ss[j].sink = sessions[j].sink
    BY <1>0 DEF Fields
  <2> HIDE DEF ss, note, s
  <2>4. CASE \/ sessions' = Next1(i, ss) /\ client' = client
             \/ sessions' = [ss EXCEPT ![i].busy = TRUE, ![i].note = note] /\ client' = client
    <3>1. /\ Kept /\ client' = client
          /\ \A j \in DOMAIN sessions : sessions'[j].store = sessions[j].store
      BY <2>2, <2>3, <2>4 DEF Next1, Kept, Fields
    <3> QED  BY <3>1, StillStep
  <2>5. CASE sessions' = FrameOf(i, note, Next1(i, ss)) /\ client' = Written(i, note)
    <3>1. /\ Kept /\ sessions'[i].store = Append(sessions[i].store, note)
          /\ \A j \in DOMAIN sessions : j # i => sessions'[j].store = sessions[j].store
      <4> DEFINE tt == Next1(i, ss)
      <4>1. /\ tt = [j \in DOMAIN sessions |-> tt[j]]
            /\ \A j \in DOMAIN sessions :
                  /\ DOMAIN tt[j] = Fields /\ tt[j].store = sessions[j].store
                  /\ tt[j].open = sessions[j].open /\ tt[j].sink = sessions[j].sink
        BY <2>3 DEF Next1, Fields
      <4>2. sessions' = FrameOf(i, note, tt)
        BY <2>5
      <4> HIDE DEF tt
      <4> QED  BY <2>2, <4>1, <4>2 DEF FrameOf, Kept, Fields
    <3> QED  BY <2>2, <2>5, <3>1, FrameStep
  <2> QED  BY <2>1, <2>4, <2>5
<1>5. ASSUME Handoff(i) PROVE StreamInv'
  <2>1. /\ Kept /\ client' = client
        /\ \A j \in DOMAIN sessions : sessions'[j].store = sessions[j].store
    <3> DEFINE ss == [sessions EXCEPT ![i].handoff = FALSE]
    <3>1. /\ ss = [j \in DOMAIN sessions |-> ss[j]]
          /\ \A j \in DOMAIN sessions :
                /\ DOMAIN ss[j] = Fields /\ ss[j].store = sessions[j].store
                /\ ss[j].open = sessions[j].open /\ ss[j].sink = sessions[j].sink
      BY <1>0 DEF Fields
    <3>2. /\ current' = current /\ client' = client
          /\ sessions' = ss \/ (current # 0 /\ sessions' = [ss EXCEPT ![current].chain = @ \o Missed])
      BY <1>5 DEF Handoff, Attached, ReplayMissed
    <3> HIDE DEF ss
    <3>3. current # 0 => current \in DOMAIN sessions
      BY <1>0
    <3>4. CASE sessions' = ss
      BY <3>1, <3>2, <3>4 DEF Kept
    <3>5. CASE current # 0 /\ sessions' = [ss EXCEPT ![current].chain = @ \o Missed]
      BY <3>1, <3>2, <3>3, <3>5 DEF Kept, Fields
    <3> QED  BY <3>2, <3>4, <3>5
  <2> QED  BY <2>1, StillStep
<1>6. ASSUME FileRead(i) PROVE StreamInv'
  <2> DEFINE ss == Next1(i, [sessions EXCEPT ![i].busy = FALSE, ![i].note = {}])
             note == sessions[i].note
  <2>1. /\ current' = current
        /\ IF sessions[i].open
           THEN sessions' = FrameOf(i, note, ss) /\ client' = Written(i, note)
           ELSE sessions' = ss /\ client' = client
    BY <1>6 DEF FileRead
  <2>2. /\ ss = [j \in DOMAIN sessions |-> ss[j]]
        /\ \A j \in DOMAIN sessions :
              /\ DOMAIN ss[j] = Fields /\ ss[j].store = sessions[j].store
              /\ ss[j].open = sessions[j].open /\ ss[j].sink = sessions[j].sink
    BY <1>0 DEF Next1, Fields
  <2> HIDE DEF ss, note
  <2>3. CASE sessions[i].open
    <3>1. /\ Kept /\ sessions'[i].store = Append(sessions[i].store, note)
          /\ \A j \in DOMAIN sessions : j # i => sessions'[j].store = sessions[j].store
      BY <2>1, <2>2, <2>3 DEF FrameOf, Kept, Fields
    <3> QED  BY <2>1, <2>3, <3>1, FrameStep
  <2>4. CASE ~sessions[i].open
    <3>1. /\ Kept /\ client' = client
          /\ \A j \in DOMAIN sessions : sessions'[j].store = sessions[j].store
      BY <2>1, <2>2, <2>4 DEF Kept
    <3> QED  BY <3>1, StillStep
  <2> QED  BY <2>3, <2>4
<1> QED  BY <1>1, <1>2, <1>3, <1>4, <1>5, <1>6

LEMMA TimerSteps ==
    ASSUME StreamInv, NEW i \in DOMAIN sessions, NEW p \in DOMAIN sessions[i].pending,
           Fallback(i, p) \/ LateWindowEnds(i, p)
    PROVE  StreamInv'
<1>0. \A j \in DOMAIN sessions : DOMAIN sessions[j] = Fields
  BY DEF StreamInv, SessionsOK
<1>1. ASSUME Fallback(i, p) PROVE StreamInv'
  <2> DEFINE buf == sessions[i].pending[p]
             note == IF buf.text THEN {p} ELSE {}
             ss == [sessions EXCEPT ![i].pending[p] = [buf EXCEPT !.text = FALSE, !.late = TRUE]]
  <2>1. /\ sessions[i].open /\ sessions' = FrameOf(i, note, ss) /\ client' = Written(i, note)
        /\ current' = current
    BY <1>1 DEF Fallback
  <2>2. /\ ss = [j \in DOMAIN sessions |-> ss[j]]
        /\ \A j \in DOMAIN sessions :
              /\ DOMAIN ss[j] = Fields /\ ss[j].store = sessions[j].store
              /\ ss[j].open = sessions[j].open /\ ss[j].sink = sessions[j].sink
    BY <1>0 DEF Fields
  <2> HIDE DEF ss, note, buf
  <2>3. /\ Kept /\ sessions'[i].store = Append(sessions[i].store, note)
        /\ \A j \in DOMAIN sessions : j # i => sessions'[j].store = sessions[j].store
    BY <2>1, <2>2 DEF FrameOf, Kept, Fields
  <2> QED  BY <2>1, <2>3, FrameStep
<1>2. ASSUME LateWindowEnds(i, p) PROVE StreamInv'
  <2>1. /\ Kept /\ client' = client
        /\ \A j \in DOMAIN sessions : sessions'[j].store = sessions[j].store
    BY <1>0, <1>2 DEF LateWindowEnds, Kept, Fields
  <2> QED  BY <2>1, StillStep
<1> QED  BY <1>1, <1>2

\* Publishing, the switch, closing, and the daemon noticing that nobody reads.
LEMMA SlotSteps ==
    ASSUME StreamInv, Publish \/ CloseSession \/ StartInbound \/ LiveOff \/ LiveOn \/ SinkCloses
    PROVE  StreamInv'
<1>0. /\ \A j \in DOMAIN sessions : DOMAIN sessions[j] = Fields
      /\ sessions = [j \in DOMAIN sessions |-> sessions[j]]
      /\ current # 0 => current \in DOMAIN sessions
  BY ListLength DEF StreamInv, SessionsOK
<1>1. /\ Kept /\ client' = client
      /\ \A j \in DOMAIN sessions : sessions'[j].store = sessions[j].store
  <2>1. CASE Publish
    BY <1>0, <2>1 DEF Publish, Kept, Fields
  <2>2. CASE CloseSession
    <3>1. current # 0 /\ sessions' = Closed(current) /\ current' = 0 /\ client' = client
      BY <2>2 DEF CloseSession
    <3> QED  BY <1>0, <3>1, ClosedIs DEF Kept
  <2>3. CASE LiveOff
    BY <1>0, <2>3 DEF LiveOff, Kept, Fields
  <2>4. CASE SinkCloses
    BY <1>0, <2>4 DEF SinkCloses, Attached, Kept, Fields
  <2>5. CASE StartInbound \/ LiveOn
    BY <1>0, <2>5 DEF StartInbound, LiveOn, Kept
  <2> QED  BY <2>1, <2>2, <2>3, <2>4, <2>5
<1> QED  BY <1>1, StillStep

LEMMA StreamStep == StreamInv /\ [Next]_vars => StreamInv'
<1> SUFFICES ASSUME StreamInv, [Next]_vars PROVE StreamInv'
  OBVIOUS
<1>1. CASE Micro
  BY <1>1, ChainSteps DEF Micro
<1>2. ASSUME NEW i \in DOMAIN sessions, FileRead(i) PROVE StreamInv'
  BY <1>2, ChainSteps
<1>3. ASSUME NEW i \in DOMAIN sessions, NEW p \in DOMAIN sessions[i].pending,
             Fallback(i, p) \/ LateWindowEnds(i, p)
      PROVE  StreamInv'
  BY <1>3, TimerSteps
<1>4. ASSUME NEW c \in Clients, Request(c) PROVE StreamInv'
  BY <1>4, RequestStep
<1>5. ASSUME NEW c \in Clients, Connect(c) PROVE StreamInv'
  BY <1>5, ConnectStep
<1>6. ASSUME NEW c \in Clients, Read(c) PROVE StreamInv'
  BY <1>6, ReadStep
<1>7. ASSUME NEW c \in Clients, LinkBreaks(c) \/ LinkEnds(c) PROVE StreamInv'
  BY <1>7, UnlinkStep DEF LinkBreaks, LinkEnds
<1>8. CASE Publish \/ CloseSession \/ StartInbound \/ LiveOff \/ LiveOn \/ SinkCloses
  BY <1>8, SlotSteps
<1>9. CASE UNCHANGED vars
  BY <1>9 DEF vars, StreamInv, SessionsOK, ClientsOK, KnowsLast, InStep, Stored
<1> QED
  BY <1>1, <1>2, <1>3, <1>4, <1>5, <1>6, <1>7, <1>8, <1>9 DEF Next

\* Every client stands where its session's store says.
THEOREM StreamInvariant == Spec => []StreamInv
<1>1. Init => StreamInv
  <2> SUFFICES ASSUME Init PROVE StreamInv
    OBVIOUS
  <2>1. SessionsOK
    BY NoList, ListLength DEF Init, SessionsOK
  <2>2. \A c \in Clients : client[c] = [link |-> 0, last |-> [inc |-> 0, n |-> 0], wire |-> <<>>]
    BY DEF Init
  <2>3. Len(sessions) = 0
    BY NoList DEF Init
  <2>4. ClientsOK
    BY <2>2, <2>3, NoList DEF Init, ClientsOK
  <2>5. \A c \in Clients : KnowsLast(c) /\ InStep(c)
    BY <2>2, <2>3 DEF KnowsLast, InStep
  <2> QED  BY <2>1, <2>4, <2>5 DEF StreamInv
<1> QED  BY <1>1, StreamStep, PTL DEF Spec

\* Only Read takes a frame off a wire and leaves the connection.
LEMMA OnlyRead ==
    ASSUME StreamInv, [Next]_vars, NEW c \in Clients, Reads(c)
    PROVE  Read(c)
<1>1. /\ client[c].wire # <<>> /\ client'[c].wire = Tail(client[c].wire)
      /\ client'[c].link = client[c].link /\ IsList(client[c].wire)
      /\ DOMAIN client[c] = {"link", "last", "wire"} /\ client[c].link # 0
  BY DEF Reads, StreamInv, ClientsOK
<1>2. /\ Len(client[c].wire) \in Nat /\ Len(client'[c].wire) = Len(client[c].wire) - 1
  BY <1>1, ListTail, ListLength
<1>3. client'[c] # client[c]
  BY <1>2
<1>4. client' # client
  BY <1>3
<1>5. ASSUME NEW i, NEW items PROVE client' # Written(i, items)
  <2> DEFINE frame == [n |-> Len(sessions[i].store) + 1, items |-> items]
  <2>1. SUFFICES ASSUME client' = Written(i, items) PROVE FALSE
    OBVIOUS
  <2>2. client'[c] \in {client[c], [client[c] EXCEPT !.wire = Append(@, frame)]}
    BY <2>1 DEF Written
  <2> HIDE DEF frame
  <2>3. client'[c].wire = Append(client[c].wire, frame)
    BY <1>1, <1>3, <2>2
  <2>4. Len(Append(client[c].wire, frame)) = Len(client[c].wire) + 1
    BY <1>1, ListAppend
  <2> QED  BY <1>2, <2>3, <2>4
<1>6. ASSUME NEW d \in Clients, d # c, NEW x, NEW y,
             \/ client' = [client EXCEPT ![d].link = x, ![d].wire = y]
             \/ client' = [client EXCEPT ![d].last = x, ![d].wire = y]
      PROVE  FALSE
  BY <1>3, <1>6 DEF StreamInv, ClientsOK
<1>7. ASSUME NEW i, Withhold(i) \/ DeliverText(i) \/ DeliverPhoto(i) \/ DeliverFile(i) \/ Handoff(i)
                    \/ FileRead(i)
      PROVE  FALSE
  BY <1>4, <1>5, <1>7 DEF Withhold, DeliverText, DeliverPhoto, DeliverFile, Handoff, FileRead
<1>8. ASSUME NEW i, NEW p, Fallback(i, p) \/ LateWindowEnds(i, p) PROVE FALSE
  BY <1>4, <1>5, <1>8 DEF Fallback, LateWindowEnds
<1>9. ASSUME NEW d \in Clients, Connect(d) PROVE FALSE
  <2>1. d # c
    BY <1>1, <1>9 DEF Connect
  <2> QED  BY <1>6, <1>9, <2>1 DEF Connect
<1>10. ASSUME NEW d \in Clients, LinkBreaks(d) \/ LinkEnds(d) PROVE FALSE
  <2>1. client' = [client EXCEPT ![d].link = 0, ![d].wire = <<>>]
    BY <1>10 DEF LinkBreaks, LinkEnds, Unlinked
  <2>2. d # c
    <3>1. SUFFICES ASSUME d = c PROVE FALSE
      OBVIOUS
    <3>2. client'[c].link = 0
      BY <1>1, <2>1, <3>1 DEF StreamInv, ClientsOK
    <3> QED  BY <1>1, <3>2
  <2> QED  BY <1>6, <2>1, <2>2
<1>11. ASSUME NEW d \in Clients, Read(d) PROVE d = c
  BY <1>6, <1>11 DEF Read
<1>12. ASSUME Publish \/ CloseSession \/ StartInbound \/ LiveOff \/ LiveOn \/ SinkCloses
              \/ (\E d \in Clients : Request(d)) \/ UNCHANGED vars
       PROVE  FALSE
  BY <1>4, <1>12 DEF Publish, CloseSession, StartInbound, LiveOff, LiveOn, SinkCloses, Request, vars
<1> QED  BY <1>7, <1>8, <1>9, <1>10, <1>11, <1>12 DEF Next, Micro

\* A client that resumes a session reads its frames without a gap and without
\* one twice, however often connections broke and sessions were replaced, until
\* the store has dropped the last frame it knew.
THEOREM ResumesInStepAlways == Spec => ResumesInStep
<1>1. StreamInv /\ [Next]_vars
      => [\A c \in Clients :
            LET was == client[c].last  now == client'[c].last IN
            Reads(c) /\ was.inc # 0 /\ now.inc = was.inc =>
              \/ now.n = was.n + 1
              \/ was.n <= Len(sessions[was.inc].store) - StoreMax /\ now.n > was.n]_vars
  <2> SUFFICES ASSUME StreamInv, [Next]_vars, NEW c \in Clients, Reads(c),
                      client[c].last.inc # 0, client'[c].last.inc = client[c].last.inc
               PROVE  \/ client'[c].last.n = client[c].last.n + 1
                      \/ /\ client[c].last.n <= Len(sessions[client[c].last.inc].store) - StoreMax
                         /\ client'[c].last.n > client[c].last.n
    OBVIOUS
  <2>1. Read(c)
    BY OnlyRead
  <2>2. DOMAIN client[c] = {"link", "last", "wire"} /\ IsList(client[c].wire)
        /\ client[c].wire # <<>> /\ client[c].link \in 0..Len(sessions)
        /\ KnowsLast(c) /\ InStep(c)
    BY <2>1 DEF Read, StreamInv, ClientsOK
  <2>3. client'[c].last = [inc |-> client[c].link, n |-> Head(client[c].wire).n]
    BY <2>1, <2>2 DEF Read, StreamInv, ClientsOK
  <2>4. client[c].link = client[c].last.inc /\ client'[c].last.n = Head(client[c].wire).n
    BY <2>3
  <2>5. PICK l \in DOMAIN sessions, m \in Nat, n \in Nat :
           l = client[c].link /\ m = Stored(l) /\ n = client[c].last.n /\ m = Len(sessions[l].store)
    <3>1. client[c].link \in DOMAIN sessions /\ client[c].last.n \in Nat
      BY <2>2, <2>4, ListLength DEF StreamInv, SessionsOK, KnowsLast
    <3>2. Stored(client[c].link) \in Nat
      BY <3>1, ListLength DEF StreamInv, SessionsOK, Stored
    <3> QED  BY <3>1, <3>2 DEF Stored
  <2>6. Newest(client[c].wire, m) /\ Follows(n, client[c].wire, m)
    BY <2>2, <2>4, <2>5 DEF InStep
  <2>7. \/ Head(client[c].wire).n = n + 1
        \/ n <= m - StoreMax /\ Head(client[c].wire).n > n
    BY <2>2, <2>5, <2>6, ReadNewest
  <2> QED  BY <2>4, <2>5, <2>7
<1> QED  BY <1>1, StreamInvariant, PTL DEF Spec, ResumesInStep

(***************************************************************************)
(* The ledger.                                                             *)
(***************************************************************************)
\* One number more: nothing but old numbers are pruned.
LEMMA LedgerOne ==
    ASSUME NEW D, D \subseteq Nat, NEW b \in Nat, NEW s \in 0..b
    PROVE  /\ LedgerWith(D, s) \subseteq D \union {s}
           /\ \A x \in D \union {s} : x \in LedgerWith(D, s) \/ x <= b - PendingMax
<1>1. PendingMax \in Nat
  BY BoundsAssumption
<1>2. \A x \in D \union {s} : x \in Nat /\ (x > s - PendingMax \/ x <= b - PendingMax)
  BY <1>1
<1> QED  BY <1>2 DEF LedgerWith, Pruned

\* The recursion of LedgerAfter has a solution.
LedgerRuns(g, d, q, n) == g = [k \in 0..n |-> IF k = 0 THEN d ELSE LedgerWith(g[k - 1], q[k])]

LEMMA LedgerRun ==
    ASSUME NEW d, NEW q, NEW n \in Nat
    PROVE  \E g : LedgerRuns(g, d, q, n)
<1> DEFINE Runs(g, m) == LedgerRuns(g, d, q, m)
           T == {m \in Nat : \E g : Runs(g, m)}
<1>1. 0 \in T
  <2>1. Runs([k \in 0..0 |-> d], 0)
    BY DEF LedgerRuns
  <2> QED  BY <2>1
<1>2. ASSUME NEW m \in T PROVE m + 1 \in T
  <2>1. PICK g : Runs(g, m)
    BY <1>2
  <2> DEFINE h == [k \in 0..(m + 1) |-> IF k = m + 1 THEN LedgerWith(g[m], q[m + 1]) ELSE g[k]]
  <2>2. m \in Nat
    OBVIOUS
  <2>3. \A k \in 0..m : h[k] = g[k]
    BY <2>2
  <2>4. \A k \in 0..m : g[k] = IF k = 0 THEN d ELSE LedgerWith(g[k - 1], q[k])
    BY <2>1 DEF LedgerRuns
  <2>5. h[m + 1] = LedgerWith(h[m], q[m + 1])
    BY <2>2, <2>3
  <2>6. ASSUME NEW k \in 0..(m + 1)
        PROVE  h[k] = IF k = 0 THEN d ELSE LedgerWith(h[k - 1], q[k])
    <3>1. CASE k = m + 1
      <4>1. k # 0 /\ k - 1 = m
        BY <2>2, <3>1
      <4> QED  BY <2>5, <3>1, <4>1
    <3>2. CASE k # m + 1
      <4>1. k \in 0..m /\ (k # 0 => k - 1 \in 0..m)
        BY <2>2, <3>2
      <4> QED  BY <2>3, <2>4, <4>1
    <3> QED  BY <3>1, <3>2
  <2>7. h = [k \in 0..(m + 1) |-> h[k]]
    OBVIOUS
  <2> HIDE DEF h
  <2>8. Runs(h, m + 1)
    BY <2>6, <2>7 DEF LedgerRuns
  <2> HIDE DEF Runs
  <2> QED  BY <2>2, <2>8
<1>3. T \subseteq Nat
  OBVIOUS
<1> HIDE DEF T
<1>4. T = Nat
  BY <1>1, <1>2, <1>3, Induct
<1> QED  BY <1>4 DEF T

\* A list of numbers is added: what is missing afterwards is old.
LEMMA LedgerIs ==
    ASSUME NEW D, D \subseteq Nat, NEW b \in Nat, NEW q \in Seq(0..b)
    PROVE  /\ LedgerAfter(D, q) \subseteq D \union Elements(q)
           /\ \A x \in D \union Elements(q) : x \in LedgerAfter(D, q) \/ x <= b - PendingMax
<1> DEFINE n == Len(q)
           after == CHOOSE g : LedgerRuns(g, D, q, n)
<1>1. n \in Nat /\ DOMAIN q = 1..n /\ \A k \in 1..n : q[k] \in 0..b
  BY LenProperties
<1>2. LedgerAfter(D, q) = after[n]
  BY DEF LedgerAfter, LedgerRuns
<1>3. after = [k \in 0..n |-> IF k = 0 THEN D ELSE LedgerWith(after[k - 1], q[k])]
  <2>1. \E g : LedgerRuns(g, D, q, n)
    BY <1>1, LedgerRun
  <2>2. LedgerRuns(after, D, q, n)
    <3> HIDE DEF n
    <3> QED  BY <2>1
  <2> QED  BY <2>2 DEF LedgerRuns
<1> HIDE DEF after, n
<1> DEFINE Added(k) == D \union {q[j] : j \in 1..k}
           Held(k) == /\ after[k] \subseteq Added(k)
                      /\ \A x \in Added(k) : x \in after[k] \/ x <= b - PendingMax
           T == {k \in Nat : k <= n => Held(k)}
<1>4. 0 \in T
  <2>1. after[0] = D /\ Added(0) = D
    BY <1>1, <1>3
  <2> QED  BY <2>1
<1>5. ASSUME NEW k \in T PROVE k + 1 \in T
  <2>1. SUFFICES ASSUME k + 1 <= n PROVE Held(k + 1)
    OBVIOUS
  <2>2. k \in Nat /\ k \in 0..n /\ k + 1 \in 1..n /\ k + 1 \in 0..n
    BY <1>1, <2>1
  <2>3. /\ after[k] \subseteq Added(k)
        /\ \A x \in Added(k) : x \in after[k] \/ x <= b - PendingMax
    <3>1. k <= n
      BY <1>1, <2>2
    <3> HIDE DEF Held
    <3>2. Held(k)
      BY <1>5, <3>1
    <3> QED  BY <3>2 DEF Held
  <2>4. after[k + 1] = LedgerWith(after[k], q[k + 1])
    <3>1. k + 1 # 0 /\ (k + 1) - 1 = k
      BY <2>2
    <3> QED  BY <1>3, <2>2, <3>1
  <2>5. Added(k + 1) = Added(k) \union {q[k + 1]}
    <3>1. 1..(k + 1) = 1..k \union {k + 1}
      BY <2>2
    <3> QED  BY <3>1
  <2>6. Added(k) \subseteq Nat /\ q[k + 1] \in 0..b
    <3>1. \A j \in 1..k : q[j] \in Nat
      BY <1>1, <2>2
    <3> QED  BY <1>1, <2>2, <3>1
  <2>7. after[k] \subseteq Nat
    BY <2>3, <2>6
  <2>8. /\ after[k + 1] \subseteq after[k] \union {q[k + 1]}
        /\ \A x \in after[k] \union {q[k + 1]} : x \in after[k + 1] \/ x <= b - PendingMax
    <3> HIDE DEF Added, T, Held
    <3>1. PICK now : now = after[k]
      OBVIOUS
    <3>2. PICK s : s = q[k + 1]
      OBVIOUS
    <3>3. now \subseteq Nat /\ s \in 0..b
      BY <2>6, <2>7, <3>1, <3>2
    <3>4. /\ LedgerWith(now, s) \subseteq now \union {s}
          /\ \A x \in now \union {s} : x \in LedgerWith(now, s) \/ x <= b - PendingMax
      BY <3>3, LedgerOne
    <3> QED  BY <2>4, <3>1, <3>2, <3>4
  <2> HIDE DEF Added
  <2> QED  BY <2>3, <2>5, <2>8
<1>6. T \subseteq Nat
  OBVIOUS
<1> HIDE DEF T
<1>7. T = Nat
  BY <1>4, <1>5, <1>6, Induct
<1>8. Added(n) = D \union Elements(q)
  BY <1>1 DEF Elements
<1> HIDE DEF Added
<1>9. /\ after[n] \subseteq Added(n)
      /\ \A x \in Added(n) : x \in after[n] \/ x <= b - PendingMax
  BY <1>1, <1>7 DEF T
<1> QED  BY <1>2, <1>8, <1>9

(***************************************************************************)
(* Where an event can be.                                                  *)
(***************************************************************************)
\* The places of one session e: its chain, the note it looks up a file for, a
\* buffer that keeps a text, and its frames.
ChainOf(e) == Elements(e.chain)
NotedOf(e) == {s \in e.note : s # Head(e.chain)}
SeenIn(t) == UNION {t[n] : n \in DOMAIN t}
HasOf(e) == ChainOf(e) \union NotedOf(e) \union TextsOf(e.pending) \union SeenIn(e.store)
Has(i) == HasOf(sessions[i])

Parted(e) ==
    /\ ChainOf(e) \cap NotedOf(e) = {} /\ ChainOf(e) \cap TextsOf(e.pending) = {}
    /\ ChainOf(e) \cap SeenIn(e.store) = {} /\ NotedOf(e) \cap TextsOf(e.pending) = {}
    /\ NotedOf(e) \cap SeenIn(e.store) = {} /\ TextsOf(e.pending) \cap SeenIn(e.store) = {}

\* The parts of a session, for a feed f of which b events are published.
ChainOK(q, b) == q \in Seq(1..b) /\ NoneTwice(q)
ReadOK(e, f, b) ==
    /\ e.busy \in BOOLEAN /\ e.note \subseteq 1..b /\ (e.note # {} <=> e.busy)
    /\ e.busy => e.chain # <<>> /\ Head(e.chain) \in e.note /\ f[Head(e.chain)].kind = "saved"
BuffersOK(q, f, b) ==
    \A p \in DOMAIN q :
        /\ p \in 1..b /\ f[p].kind = "photo"
        /\ q[p] \in [text : BOOLEAN, saved : SUBSET (1..b), late : BOOLEAN]
        /\ q[p].late => ~q[p].text
StoreOK(t, b) ==
    /\ IsList(t) /\ \A n \in DOMAIN t : t[n] \subseteq 1..b
    /\ \A m, n \in DOMAIN t : t[m] \cap t[n] # {} => m = n
Tidy(e, f, b) ==
    /\ ChainOK(e.chain, b) /\ ReadOK(e, f, b) /\ BuffersOK(e.pending, f, b)
    /\ StoreOK(e.store, b) /\ Parted(e)

LEMMA TidyIn ==
    ASSUME NEW e, NEW f, NEW b, Tidy(e, f, b)
    PROVE  /\ ChainOf(e) \subseteq 1..b /\ NotedOf(e) \subseteq 1..b
           /\ TextsOf(e.pending) \subseteq 1..b /\ SeenIn(e.store) \subseteq 1..b
           /\ HasOf(e) \subseteq 1..b
<1>1. ChainOf(e) \subseteq 1..b
  <2>1. \A k \in DOMAIN e.chain : e.chain[k] \in 1..b
    BY LenProperties DEF Tidy, ChainOK
  <2> QED  BY <2>1 DEF ChainOf, Elements
<1>2. NotedOf(e) \subseteq 1..b
  BY DEF Tidy, ReadOK, NotedOf
<1>3. TextsOf(e.pending) \subseteq 1..b
  BY DEF Tidy, BuffersOK, TextsOf
<1>4. SeenIn(e.store) \subseteq 1..b
  BY DEF Tidy, StoreOK, SeenIn
<1> QED  BY <1>1, <1>2, <1>3, <1>4 DEF HasOf

\* A frame more in a store.
LEMMA FrameMore ==
    ASSUME NEW t, NEW b, StoreOK(t, b), NEW S, S \subseteq 1..b, S \cap SeenIn(t) = {},
           NEW u, u = Append(t, S) \/ (u = t /\ S = {})
    PROVE  StoreOK(u, b) /\ SeenIn(u) = SeenIn(t) \union S
<1>1. CASE u = t /\ S = {}
  BY <1>1
<1>2. CASE u = Append(t, S)
  <2>1. /\ IsList(t) /\ IsList(u) /\ Len(t) \in Nat /\ DOMAIN t = 1..Len(t)
        /\ Len(u) = Len(t) + 1 /\ DOMAIN u = 1..Len(u)
        /\ \A k \in 1..Len(t) : u[k] = t[k]
        /\ u[Len(t) + 1] = S
    BY <1>2, ListAppend, ListLength DEF StoreOK
  <2>2. /\ DOMAIN u = DOMAIN t \union {Len(t) + 1} /\ \A k \in DOMAIN t : u[k] = t[k]
    BY <2>1
  <2> HIDE <1>2
  <2>3. SeenIn(u) = SeenIn(t) \union S
    BY <2>1, <2>2 DEF SeenIn
  <2>4. \A k \in DOMAIN t : t[k] \cap S = {}
    BY DEF SeenIn
  <2>5. \A n \in DOMAIN u : u[n] \subseteq 1..b
    BY <2>1, <2>2 DEF StoreOK
  <2>6. ASSUME NEW m \in DOMAIN u, NEW n \in DOMAIN u, u[m] \cap u[n] # {} PROVE m = n
    BY <2>1, <2>2, <2>4, <2>6 DEF StoreOK
  <2> QED  BY <2>1, <2>3, <2>5, <2>6 DEF StoreOK
<1> QED  BY <1>1, <1>2

\* The head of the chain goes; what it was, or carried, or the buffers had, may
\* be in a new frame or, for a photo, wait in a buffer.
Pops(e, d, S, f, b) ==
    LET h == Head(e.chain) IN
    /\ e.chain # <<>> /\ d.chain = Tail(e.chain) /\ d.busy = FALSE /\ d.note = {}
    /\ d.store = Append(e.store, S) \/ (d.store = e.store /\ S = {})
    /\ S \subseteq {h} \union NotedOf(e) \union TextsOf(e.pending)
    /\ BuffersOK(d.pending, f, b)
    /\ TextsOf(d.pending) \subseteq TextsOf(e.pending) \union {h} /\ TextsOf(d.pending) \cap S = {}

LEMMA PopTidy ==
    ASSUME NEW e, NEW f, NEW b, Tidy(e, f, b), NEW h, h = Head(e.chain), NEW d, NEW S, Pops(e, d, S, f, b)
    PROVE  /\ Tidy(d, f, b) /\ HasOf(d) \subseteq HasOf(e) /\ h \in ChainOf(e) /\ h \in HasOf(e)
           /\ HasOf(d) = (ChainOf(e) \ {h}) \union TextsOf(d.pending) \union SeenIn(e.store) \union S
<1>0. /\ e.chain # <<>> /\ d.chain = Tail(e.chain) /\ d.busy = FALSE /\ d.note = {}
      /\ d.store = Append(e.store, S) \/ (d.store = e.store /\ S = {})
      /\ S \subseteq {h} \union NotedOf(e) \union TextsOf(e.pending)
      /\ BuffersOK(d.pending, f, b)
      /\ TextsOf(d.pending) \subseteq TextsOf(e.pending) \union {h} /\ TextsOf(d.pending) \cap S = {}
  BY DEF Pops
<1>1. /\ d.chain \in Seq(1..b) /\ h \in ChainOf(e) /\ ChainOf(e) = ChainOf(d) \union {h}
      /\ NoneTwice(d.chain) /\ h \notin ChainOf(d)
  <2>1. e.chain \in Seq(1..b) /\ NoneTwice(e.chain)
    BY DEF Tidy, ChainOK
  <2> DEFINE q == e.chain
             t == Tail(q)
  <2>2. /\ t \in Seq(1..b) /\ Head(q) \in Elements(q)
        /\ Elements(q) = Elements(t) \union {Head(q)}
        /\ NoneTwice(t) /\ Head(q) \notin Elements(t)
    <3>1. q \in Seq(1..b) /\ q # <<>> /\ NoneTwice(q)
      BY <1>0, <2>1
    <3> HIDE DEF q
    <3> QED  BY <3>1, TailIs
  <2> QED  BY <1>0, <2>2 DEF ChainOf
<1>2. ChainOK(d.chain, b)
  BY <1>1 DEF ChainOK
<1>3. ReadOK(d, f, b) /\ NotedOf(d) = {}
  BY <1>0 DEF ReadOK, NotedOf
<1>4. S \subseteq 1..b /\ S \cap SeenIn(e.store) = {}
  BY <1>0, <1>1, TidyIn DEF Tidy, Parted
<1>5. StoreOK(d.store, b) /\ SeenIn(d.store) = SeenIn(e.store) \union S
  <2>1. StoreOK(e.store, b)
    BY DEF Tidy
  <2>2. d.store = Append(e.store, S) \/ (d.store = e.store /\ S = {})
    BY <1>0
  <2> QED  BY <1>4, <2>1, <2>2, FrameMore
<1>6. Parted(d)
  <2>1. /\ h \notin NotedOf(e) /\ h \notin TextsOf(e.pending) /\ h \notin SeenIn(e.store)
        /\ Parted(e)
    BY <1>1 DEF Tidy, Parted
  <2>2. \A s \in ChainOf(d) : s # h /\ s \notin NotedOf(e) /\ s \notin TextsOf(e.pending)
    BY <1>1, <2>1 DEF Parted
  <2>4. ChainOf(d) \cap TextsOf(d.pending) = {} /\ ChainOf(d) \cap S = {}
    BY <1>0, <2>2
  <2>3. /\ ChainOf(d) \cap SeenIn(e.store) = {}
        /\ TextsOf(d.pending) \cap SeenIn(e.store) = {}
    BY <1>0, <1>1, <2>1 DEF Parted
  <2> QED  BY <1>0, <1>3, <1>5, <2>3, <2>4 DEF Parted
<1>7. /\ HasOf(d) \subseteq HasOf(e)
      /\ HasOf(d) = (ChainOf(e) \ {h}) \union TextsOf(d.pending) \union SeenIn(e.store) \union S
  BY <1>0, <1>1, <1>3, <1>5 DEF HasOf
<1>8. h \in HasOf(e)
  BY <1>1 DEF HasOf
<1> QED  BY <1>0, <1>1, <1>2, <1>3, <1>5, <1>6, <1>7, <1>8 DEF Tidy

\* The chain stays: a file is looked up with a note, or a buffer's text goes out
\* in a frame.
Stays(e, d, S, f, b) ==
    /\ d.chain = e.chain /\ ReadOK(d, f, b)
    /\ d.store = Append(e.store, S) \/ (d.store = e.store /\ S = {})
    /\ S \subseteq TextsOf(e.pending)
    /\ BuffersOK(d.pending, f, b)
    /\ NotedOf(d) \subseteq NotedOf(e) \union TextsOf(e.pending)
    /\ TextsOf(d.pending) \subseteq TextsOf(e.pending)
    /\ TextsOf(d.pending) \cap S = {} /\ NotedOf(d) \cap S = {}
    /\ NotedOf(d) \cap TextsOf(d.pending) = {}

LEMMA StayTidy ==
    ASSUME NEW e, NEW f, NEW b, Tidy(e, f, b), NEW d, NEW S, Stays(e, d, S, f, b)
    PROVE  /\ Tidy(d, f, b) /\ HasOf(d) \subseteq HasOf(e)
           /\ HasOf(d) = ChainOf(e) \union NotedOf(d) \union TextsOf(d.pending) \union SeenIn(e.store) \union S
<1>0. Stays(e, d, S, f, b)
  OBVIOUS
<1>1. ChainOf(d) = ChainOf(e) /\ ChainOK(d.chain, b)
  BY <1>0 DEF ChainOf, Tidy, Stays
<1>2. /\ NotedOf(d) \subseteq NotedOf(e) \union TextsOf(e.pending)
      /\ TextsOf(d.pending) \subseteq TextsOf(e.pending) /\ S \subseteq TextsOf(e.pending)
      /\ TextsOf(d.pending) \cap S = {} /\ NotedOf(d) \cap S = {}
      /\ NotedOf(d) \cap TextsOf(d.pending) = {}
  BY <1>0 DEF Stays
<1>3. S \subseteq 1..b /\ S \cap SeenIn(e.store) = {}
  BY <1>2, TidyIn DEF Tidy, Parted
<1>4. StoreOK(d.store, b) /\ SeenIn(d.store) = SeenIn(e.store) \union S
  BY <1>0, <1>3, FrameMore DEF Tidy, Stays
<1>5. Parted(d)
  <2>1. Parted(e)
    BY DEF Tidy
  <2>2. /\ ChainOf(e) \cap NotedOf(d) = {} /\ ChainOf(e) \cap TextsOf(d.pending) = {}
        /\ ChainOf(e) \cap S = {} /\ ChainOf(e) \cap SeenIn(e.store) = {}
    BY <1>2, <2>1 DEF Parted
  <2>3. /\ NotedOf(d) \cap SeenIn(e.store) = {} /\ TextsOf(d.pending) \cap SeenIn(e.store) = {}
    BY <1>2, <2>1 DEF Parted
  <2> QED  BY <1>1, <1>2, <1>4, <2>2, <2>3 DEF Parted
<1>6. /\ HasOf(d) \subseteq HasOf(e)
      /\ HasOf(d) = ChainOf(e) \union NotedOf(d) \union TextsOf(d.pending) \union SeenIn(e.store) \union S
  BY <1>1, <1>2, <1>4 DEF HasOf
<1> QED  BY <1>0, <1>1, <1>4, <1>5, <1>6 DEF Tidy, Stays

\* What was missed is put at the end of a chain.
LEMMA JoinTidy ==
    ASSUME NEW e, NEW f, NEW b, Tidy(e, f, b),
           NEW q, ChainOK(q, b), Elements(q) \cap HasOf(e) = {},
           NEW d, d.chain = e.chain \o q, d.busy = e.busy, d.note = e.note,
           d.pending = e.pending, d.store = e.store
    PROVE  Tidy(d, f, b) /\ HasOf(d) = HasOf(e) \union Elements(q)
<1>1. e.chain \in Seq(1..b) /\ q \in Seq(1..b) /\ NoneTwice(e.chain) /\ NoneTwice(q)
  BY DEF Tidy, ChainOK
<1>2. /\ d.chain \in Seq(1..b) /\ Elements(d.chain) = Elements(e.chain) \union Elements(q)
      /\ Elements(e.chain) \cap Elements(q) = {} => NoneTwice(d.chain)
      /\ e.chain # <<>> => Head(d.chain) = Head(e.chain) /\ d.chain # <<>>
  <2> DEFINE c == e.chain
  <2>1. c \in Seq(1..b) /\ q \in Seq(1..b) /\ NoneTwice(c) /\ NoneTwice(q)
    BY <1>1
  <2> HIDE DEF c
  <2>2. /\ c \o q \in Seq(1..b) /\ Elements(c \o q) = Elements(c) \union Elements(q)
        /\ Elements(c) \cap Elements(q) = {} => NoneTwice(c \o q)
        /\ c # <<>> => Head(c \o q) = Head(c) /\ c \o q # <<>>
    BY <2>1, JoinIs
  <2> QED  BY <2>2 DEF c
<1>3. ChainOf(d) = ChainOf(e) \union Elements(q) /\ ChainOK(d.chain, b)
  BY <1>2 DEF ChainOf, ChainOK, HasOf
<1>4. NotedOf(d) = NotedOf(e) /\ ReadOK(d, f, b)
  BY <1>2 DEF NotedOf, ReadOK, Tidy
<1>5. Parted(d)
  BY <1>3, <1>4 DEF Tidy, Parted, HasOf
<1>6. HasOf(d) = HasOf(e) \union Elements(q)
  BY <1>3, <1>4 DEF HasOf
<1> QED  BY <1>3, <1>4, <1>5, <1>6 DEF Tidy

\* The buffers are thrown away.
LEMMA DropTidy ==
    ASSUME NEW e, NEW f, NEW b, Tidy(e, f, b),
           NEW d, d.chain = e.chain, d.busy = e.busy, d.note = e.note, d.store = e.store,
           d.pending \in {e.pending, NoPending}
    PROVE  /\ Tidy(d, f, b) /\ HasOf(d) \subseteq HasOf(e)
           /\ HasOf(e) \subseteq HasOf(d) \union TextsOf(e.pending)
           /\ d.pending = e.pending => HasOf(d) = HasOf(e)
<1>1. ChainOf(d) = ChainOf(e) /\ NotedOf(d) = NotedOf(e)
  BY DEF ChainOf, NotedOf
<1>2. DOMAIN NoPending = {} /\ TextsOf(NoPending) = {}
  BY DEF NoPending, TextsOf
<1>3. BuffersOK(d.pending, f, b) /\ TextsOf(d.pending) \subseteq TextsOf(e.pending)
  BY <1>2 DEF BuffersOK, Tidy
<1>4. ReadOK(d, f, b)
  BY DEF ReadOK, Tidy
<1>5. Parted(d)
  BY <1>1, <1>3 DEF Tidy, Parted
<1>6. /\ HasOf(d) \subseteq HasOf(e) /\ HasOf(e) \subseteq HasOf(d) \union TextsOf(e.pending)
      /\ d.pending = e.pending => HasOf(d) = HasOf(e)
  BY <1>1, <1>3 DEF HasOf
<1> QED  BY <1>3, <1>4, <1>5, <1>6 DEF Tidy

\* One more event is published.
LEMMA MoreTidy ==
    ASSUME NEW e, NEW f, NEW b \in Nat, Tidy(e, f, b)
    PROVE  Tidy(e, f, b + 1)
<1>1. 1..b \subseteq 1..(b + 1)
  OBVIOUS
<1>2. ChainOK(e.chain, b + 1)
  BY <1>1, SeqMonotonic DEF Tidy, ChainOK
<1>3. ReadOK(e, f, b + 1)
  BY <1>1 DEF Tidy, ReadOK
<1>4. BuffersOK(e.pending, f, b + 1)
  <2> SUFFICES ASSUME NEW p \in DOMAIN e.pending
               PROVE  /\ p \in 1..(b + 1) /\ f[p].kind = "photo" /\ (e.pending[p].late => ~e.pending[p].text)
                      /\ e.pending[p] \in [text : BOOLEAN, saved : SUBSET (1..(b + 1)), late : BOOLEAN]
    BY DEF BuffersOK
  <2>1. /\ p \in 1..b /\ f[p].kind = "photo" /\ (e.pending[p].late => ~e.pending[p].text)
        /\ e.pending[p] \in [text : BOOLEAN, saved : SUBSET (1..b), late : BOOLEAN]
    BY DEF Tidy, BuffersOK
  <2>2. SUBSET (1..b) \subseteq SUBSET (1..(b + 1))
    BY <1>1
  <2> QED  BY <1>1, <2>1, <2>2
<1>5. StoreOK(e.store, b + 1)
  BY <1>1 DEF Tidy, StoreOK
<1> QED  BY <1>2, <1>3, <1>4, <1>5 DEF Tidy

\* What was missed: the numbers the bus has and the ledger lacks.
LEMMA MissedIs ==
    ASSUME busSeq \in Nat
    PROVE  ChainOK(Missed, busSeq) /\ Elements(Missed) = Buffered \ delivered
<1> DEFINE S == Buffered \ delivered
<1>1. S \subseteq 1..busSeq /\ S \subseteq Nat
  BY DEF Buffered, Published
<1>2. IsFiniteSet(S)
  BY <1>1, UptoIs, FS_Subset
<1>3. /\ Ordered(S) \in Seq(S) /\ Elements(Ordered(S)) = S
      /\ \A j, k \in DOMAIN Ordered(S) : j < k => Ordered(S)[j] < Ordered(S)[k]
  <2> HIDE DEF S
  <2> QED  BY <1>1, <1>2, OrderedIs
<1>4. Missed = Ordered(S)
  BY DEF Missed
<1> HIDE DEF S
<1>5. Missed \in Seq(1..busSeq)
  BY <1>1, <1>3, <1>4, SeqMonotonic
<1>6. NoneTwice(Missed)
  <2> SUFFICES ASSUME NEW j \in DOMAIN Missed, NEW k \in DOMAIN Missed, Missed[j] = Missed[k] PROVE j = k
    BY DEF NoneTwice
  <2>1. j \in Nat /\ k \in Nat /\ Missed[j] \in Nat
    BY <1>5, LenProperties
  <2>2. ~(j < k) /\ ~(k < j)
    BY <1>3, <1>4, <2>1
  <2> QED  BY <2>1, <2>2
<1> QED  BY <1>3, <1>4, <1>5, <1>6 DEF ChainOK, S

(***************************************************************************)
(* The invariant of the relay.                                             *)
(***************************************************************************)
BusOK ==
    /\ feed \in Feeds /\ busSeq \in 0..Len(feed) /\ started \in BOOLEAN /\ live \in BOOLEAN
    /\ startAt \in -1..busSeq /\ delivered \subseteq Published
    /\ offAir \subseteq Published /\ gone \subseteq Published
    /\ drops \in 0..MaxDrops /\ offs \in 0..MaxOffs

\* Only the slot's session is open; a closed one whose chain is not empty will
\* hand over what it leaves.
Slot(i) ==
    LET e == sessions[i] IN
    /\ e.id \in Clients /\ e.open = (i = current) /\ (e.sink => e.open)
    /\ i # current /\ e.chain # <<>> => e.handoff
Slots == \A i \in DOMAIN sessions : Slot(i)
OwnLinks == \A c \in Clients : client[c].link # 0 => sessions[client[c].link].id = c
Each == \A i \in DOMAIN sessions : Tidy(sessions[i], feed, busSeq)

Nowhere(s) == \A i \in DOMAIN sessions : s \notin Has(i)
\* No event is in two sessions. What a replay may still bring is nowhere, what
\* was published off the air is nowhere and no replay brings it.
Alone == \A i, j \in DOMAIN sessions : i # j => Has(i) \cap Has(j) = {}
Fresh == \A s \in Buffered : s \in delivered \/ Nowhere(s)
Hidden == \A s \in offAir : Nowhere(s) /\ (live => s <= startAt)
\* What counts as delivered and would be missed is somewhere, or its text is gone.
Known == \A s \in delivered : Speaks(s) => ~Nowhere(s) \/ s \in gone
Places == Alone /\ Fresh /\ Hidden /\ Known

\* With a stream attached, everything the bus still has was replayed, or a
\* closed session's handoff will do so.
Served ==
    started /\ live /\ Attached =>
        \A s \in Buffered :
            \/ Event(s).kind = "foreign" \/ s \in delivered
            \/ \E i \in DOMAIN sessions : sessions[i].handoff

RelayInv == BusOK /\ Slots /\ OwnLinks /\ Each /\ Places /\ Served

\* The types that StreamInv has.
LEMMA ListedSessions ==
    ASSUME StreamInv
    PROVE  /\ Len(sessions) \in Nat /\ DOMAIN sessions = 1..Len(sessions)
           /\ current \in 0..Len(sessions) /\ (current # 0 => current \in DOMAIN sessions)
           /\ sessions = [j \in DOMAIN sessions |-> sessions[j]]
           /\ \A j \in DOMAIN sessions : DOMAIN sessions[j] = Fields /\ IsList(sessions[j].store)
<1>1. IsList(sessions) /\ current \in 0..Len(sessions)
  BY DEF StreamInv, SessionsOK
<1>2. Len(sessions) \in Nat /\ DOMAIN sessions = 1..Len(sessions)
      /\ sessions = [j \in 1..Len(sessions) |-> sessions[j]]
  BY <1>1, ListLength
<1> QED  BY <1>1, <1>2 DEF StreamInv, SessionsOK

LEMMA FeedType ==
    ASSUME BusOK
    PROVE  /\ busSeq \in Nat /\ busSeq <= Len(feed) /\ Len(feed) \in Nat
           /\ \A s \in 1..Len(feed) : feed[s].kind \in Kinds
           /\ \A s \in 1..Len(feed) : feed[s].kind \in {"saved", "failed"} =>
                feed[s].of \in 1..(s - 1) /\ feed[feed[s].of].kind = "photo"
<1>1. feed \in Seq(Events) /\ busSeq \in 0..Len(feed) /\ feed \in Feeds
  BY FeedsAssumption DEF BusOK
<1>2. Len(feed) \in Nat /\ DOMAIN feed = 1..Len(feed) /\ \A s \in 1..Len(feed) : feed[s] \in Events
  BY <1>1, LenProperties
<1>3. \A s \in 1..Len(feed) : feed[s].kind \in Kinds
  BY <1>2 DEF Events
<1>4. \A s \in 1..Len(feed) : feed[s].kind \in {"saved", "failed"} =>
         feed[s].of \in 1..(s - 1) /\ feed[feed[s].of].kind = "photo"
  BY <1>1, <1>2, FeedsAssumption
<1> QED  BY <1>1, <1>2, <1>3, <1>4

\* Every place is in a published event.
LEMMA PlacesPublished ==
    ASSUME Each, NEW i \in DOMAIN sessions
    PROVE  Has(i) \subseteq Published
  BY TidyIn DEF Each, Has, Published

\* The events move: session k gets the numbers in N, which were nowhere, and the
\* ledger them at most.
LEMMA Moves ==
    ASSUME Places, Each, BusOK, NEW k, NEW N,
           UNCHANGED feed, DOMAIN sessions \subseteq DOMAIN sessions',
           k \in DOMAIN sessions \/ N = {},
           \A j \in DOMAIN sessions : HasOf(sessions'[j]) \subseteq Has(j) \union (IF j = k THEN N ELSE {}),
           \A j \in DOMAIN sessions' : j \notin DOMAIN sessions => HasOf(sessions'[j]) = {},
           k \in DOMAIN sessions => N \subseteq HasOf(sessions'[k]),
           \A s \in N : Nowhere(s), N \cap offAir' = {},
           gone \subseteq gone', delivered' \subseteq delivered \union N,
           \A j \in DOMAIN sessions : \A s \in Has(j) :
              s \in HasOf(sessions'[j]) \/ s \notin delivered' \/ ~Speaks(s) \/ s \in gone',
           \A s \in Buffered' : s \in delivered' \/ (\A j \in DOMAIN sessions' : s \notin HasOf(sessions'[j])),
           \A s \in offAir' : /\ s \in offAir \/ Nowhere(s)
                              /\ live' => s <= startAt'
    PROVE  Places'
<1> DEFINE H(j) == HasOf(sessions'[j])
<1>1. \A j \in DOMAIN sessions' : Has(j)' = H(j)
  BY DEF Has
<1>2. Alone'
  <2> SUFFICES ASSUME NEW i \in DOMAIN sessions', NEW j \in DOMAIN sessions', i # j PROVE H(i) \cap H(j) = {}
    BY <1>1 DEF Alone
  <2> HIDE DEF H
  <2>1. CASE i \notin DOMAIN sessions \/ j \notin DOMAIN sessions
    BY <2>1 DEF H
  <2>2. CASE i \in DOMAIN sessions /\ j \in DOMAIN sessions
    <3>1. Has(i) \cap Has(j) = {} /\ N \cap Has(i) = {} /\ N \cap Has(j) = {}
      BY <2>2 DEF Places, Alone, Nowhere
    <3>2. H(i) \subseteq Has(i) \union (IF i = k THEN N ELSE {})
          /\ H(j) \subseteq Has(j) \union (IF j = k THEN N ELSE {})
      BY <2>2 DEF H
    <3> QED  BY <3>1, <3>2
  <2> QED  BY <2>1, <2>2
<1>3. Fresh'
  BY <1>1 DEF Fresh, Nowhere
<1>4. Hidden'
  <2> SUFFICES ASSUME NEW s \in offAir', NEW j \in DOMAIN sessions' PROVE s \notin H(j)
    BY <1>1 DEF Hidden, Nowhere
  <2> HIDE DEF H
  <2>1. Nowhere(s) /\ s \notin N
    BY DEF Places, Hidden
  <2>2. CASE j \notin DOMAIN sessions
    BY <2>2 DEF H
  <2>3. CASE j \in DOMAIN sessions
    BY <2>1, <2>3 DEF H, Nowhere
  <2> QED  BY <2>2, <2>3
<1>5. Known'
  <2> SUFFICES ASSUME NEW s \in delivered', Speaks(s)', s \notin gone'
               PROVE  \E j \in DOMAIN sessions' : s \in H(j)
    BY <1>1 DEF Known, Nowhere
  <2>1. Speaks(s)
    BY DEF Speaks, Event
  <2> HIDE DEF H
  <2>2. CASE s \in N
    BY <2>2 DEF H
  <2>3. CASE s \notin N
    <3>1. s \in delivered /\ s \notin gone
      BY <2>3
    <3>2. PICK j \in DOMAIN sessions : s \in Has(j)
      BY <2>1, <3>1 DEF Places, Known, Nowhere
    <3> QED  BY <2>1, <3>2 DEF H
  <2> QED  BY <2>2, <2>3
<1> QED  BY <1>2, <1>3, <1>4, <1>5 DEF Places

\* Session i goes on alone. The ledger forgets at most its head h, which is then
\* in no place of it.
LEMMA LocalStep ==
    ASSUME StreamInv, RelayInv, NEW i \in DOMAIN sessions, NEW e, e = sessions[i], NEW d, d = sessions'[i],
           DOMAIN sessions' = DOMAIN sessions, Len(sessions') = Len(sessions),
           \A j \in DOMAIN sessions : j # i => sessions'[j] = sessions[j],
           d.id = e.id, d.open = e.open, d.sink = e.sink, d.handoff = e.handoff,
           e.chain = <<>> => d.chain = <<>>,
           Tidy(d, feed, busSeq), HasOf(d) \subseteq HasOf(e),
           UNCHANGED <<feed, busSeq, started, live, startAt, current, drops, offs, offAir>>,
           \A c \in Clients : client'[c].link = client[c].link,
           gone \subseteq gone', gone' \subseteq gone \union HasOf(e),
           NEW h,
           \/ delivered' = delivered
           \/ /\ delivered' = delivered \ {h} /\ h \in HasOf(e) /\ h \notin HasOf(d)
              /\ e.chain # <<>> /\ (~live \/ ~e.sink \/ Event(h).kind = "foreign"),
           \A s \in HasOf(e) : s \in HasOf(d) \/ s \notin delivered' \/ ~Speaks(s) \/ s \in gone'
    PROVE  RelayInv'
<1>0. BusOK /\ Slots /\ OwnLinks /\ Each /\ Places /\ Served
  BY DEF RelayInv
<1>1. HasOf(e) \subseteq Published /\ delivered' \subseteq delivered /\ HasOf(e) = Has(i)
  BY <1>0, PlacesPublished DEF Has
<1>2. BusOK'
  BY <1>0, <1>1 DEF BusOK, Published
<1>3. Slots'
  <2> SUFFICES ASSUME NEW j \in DOMAIN sessions PROVE Slot(j)'
    BY DEF Slots
  <2>1. Slot(j)
    BY <1>0 DEF Slots
  <2>2. CASE j = i
    BY <2>1, <2>2 DEF Slot
  <2>3. CASE j # i
    BY <2>1, <2>3 DEF Slot
  <2> QED  BY <2>2, <2>3
<1>4. OwnLinks'
  <2> SUFFICES ASSUME NEW c \in Clients, client[c].link # 0 PROVE sessions'[client[c].link].id = c
    BY DEF OwnLinks
  <2>1. client[c].link \in DOMAIN sessions /\ sessions[client[c].link].id = c
    BY <1>0, ListedSessions DEF OwnLinks, StreamInv, ClientsOK
  <2> QED  BY <2>1
<1>5. Each'
  BY <1>0 DEF Each
<1>6. Buffered' = Buffered
  BY DEF Buffered, Published
<1>7. Places'
  <2> DEFINE N == {}
  <2>1. \A j \in DOMAIN sessions : HasOf(sessions'[j]) \subseteq Has(j) \union (IF j = i THEN N ELSE {})
    BY <1>1 DEF Has
  <2>2. \A j \in DOMAIN sessions : \A s \in Has(j) :
           s \in HasOf(sessions'[j]) \/ s \notin delivered' \/ ~Speaks(s) \/ s \in gone'
    BY <1>1 DEF Has
  <2>3. ASSUME NEW s \in Buffered, s \notin delivered', NEW j \in DOMAIN sessions
        PROVE  s \notin HasOf(sessions'[j])
    <3>1. HasOf(sessions'[j]) \subseteq Has(j)
      BY <2>1
    <3>2. CASE s \notin delivered
      BY <1>0, <2>3, <3>1, <3>2 DEF Places, Fresh, Nowhere
    <3>3. CASE s \in delivered
      <4>1. s = h /\ h \notin HasOf(d) /\ h \in HasOf(e)
        BY <2>3, <3>3
      <4>2. CASE j = i
        BY <4>1, <4>2
      <4>3. CASE j # i
        BY <1>0, <1>1, <3>1, <4>1, <4>3 DEF Places, Alone
      <4> QED  BY <4>2, <4>3
    <3> QED  BY <3>2, <3>3
  <2>4. \A s \in offAir' : s \in offAir /\ (live' => s <= startAt')
    BY <1>0 DEF Places, Hidden
  <2>5. /\ \A j \in DOMAIN sessions' : j \notin DOMAIN sessions => HasOf(sessions'[j]) = {}
        /\ N \subseteq HasOf(sessions'[i]) /\ (\A s \in N : Nowhere(s)) /\ N \cap offAir' = {}
        /\ delivered' \subseteq delivered \union N /\ UNCHANGED feed
        /\ DOMAIN sessions \subseteq DOMAIN sessions'
    BY <1>1
  <2>6. \A s \in Buffered' : s \in delivered' \/ (\A j \in DOMAIN sessions' : s \notin HasOf(sessions'[j]))
    BY <1>6, <2>3
  <2>7. \A s \in offAir' : /\ s \in offAir \/ Nowhere(s)
                           /\ live' => s <= startAt'
    BY <2>4
  <2> HIDE DEF N
  <2> QED  BY <1>0, <2>1, <2>2, <2>5, <2>6, <2>7, Moves
<1>8. Served'
  <2> SUFFICES ASSUME started, live, current # 0, sessions'[current].sink, NEW s \in Buffered,
                      Event(s).kind # "foreign", s \notin delivered'
               PROVE  \E j \in DOMAIN sessions : sessions'[j].handoff
    BY <1>6 DEF Served, Attached, Event
  <2>1. current \in DOMAIN sessions /\ sessions[current].sink
    BY ListedSessions
  <2>2. \A j \in DOMAIN sessions : sessions'[j].handoff = sessions[j].handoff
    OBVIOUS
  <2>3. CASE s \notin delivered
    BY <1>0, <2>1, <2>2, <2>3 DEF Served, Attached
  <2>4. CASE s \in delivered
    <3>1. s = h /\ ~e.sink /\ e.chain # <<>>
      BY <2>4
    <3>2. i # current
      BY <2>1, <3>1
    <3>3. sessions[i].handoff
      BY <1>0, <3>1, <3>2 DEF Slots, Slot
    <3> QED  BY <2>2, <3>3
  <2> QED  BY <2>3, <2>4
<1> QED  BY <1>2, <1>3, <1>4, <1>5, <1>7, <1>8 DEF RelayInv

(***************************************************************************)
(* What the steps of a chain do.                                           *)
(***************************************************************************)
SameBus ==
    /\ UNCHANGED <<feed, busSeq, started, live, startAt, current, drops, offs, offAir>>
    /\ \A c \in Clients : client'[c].link = client[c].link
OnlyAt(i) ==
    /\ sessions' = [j \in DOMAIN sessions |-> sessions'[j]]
    /\ \A j \in DOMAIN sessions : j # i => sessions'[j] = sessions[j]
    /\ LET e == sessions[i]  d == sessions'[i] IN
       d.id = e.id /\ d.open = e.open /\ d.sink = e.sink /\ d.handoff = e.handoff

\* The sessions u are those of ss, but for the chain, the note, the buffers and
\* the store of session i.
Near(u, ss, i) ==
    /\ u = [j \in DOMAIN sessions |-> u[j]]
    /\ \A j \in DOMAIN sessions : DOMAIN u[j] = Fields /\ (j # i => u[j] = ss[j])
    /\ LET e == ss[i]  d == u[i] IN
       d.id = e.id /\ d.open = e.open /\ d.sink = e.sink /\ d.handoff = e.handoff

LEMMA NextIs ==
    ASSUME NEW i \in DOMAIN sessions, NEW ss, Near(ss, sessions, i), NEW u, u = Next1(i, ss)
    PROVE  /\ Near(u, sessions, i) /\ u[i].chain = Tail(ss[i].chain) /\ u[i].busy = ss[i].busy
           /\ u[i].note = ss[i].note /\ u[i].pending = ss[i].pending /\ u[i].store = ss[i].store
  BY DEF Next1, Near, Fields

LEMMA FrameIs ==
    ASSUME NEW i \in DOMAIN sessions, NEW ss, Near(ss, sessions, i), NEW S, NEW u, u = FrameOf(i, S, ss)
    PROVE  /\ Near(u, sessions, i) /\ u[i].chain = ss[i].chain /\ u[i].busy = ss[i].busy
           /\ u[i].note = ss[i].note /\ u[i].pending = ss[i].pending
           /\ u[i].store = Append(ss[i].store, S)
  BY DEF FrameOf, Near, Fields

LEMMA NearIs ==
    ASSUME NEW i \in DOMAIN sessions, Near(sessions', sessions, i)
    PROVE  OnlyAt(i)
  BY DEF Near, OnlyAt

LEMMA SameLength ==
    ASSUME StreamInv, sessions' = [j \in DOMAIN sessions |-> sessions'[j]]
    PROVE  DOMAIN sessions' = DOMAIN sessions /\ Len(sessions') = Len(sessions)
<1>1. Len(sessions) \in Nat /\ DOMAIN sessions = 1..Len(sessions)
  BY ListedSessions
<1>2. sessions' = [j \in 1..Len(sessions) |-> sessions'[j]]
  BY <1>1
<1>3. Len(sessions') = Len(sessions)
  BY <1>1, <1>2, ListOf
<1>4. DOMAIN sessions' = DOMAIN sessions
  OBVIOUS
<1> QED  BY <1>3, <1>4

LEMMA LinksStay ==
    ASSUME StreamInv, client' = client \/ \E i, items : client' = Written(i, items)
    PROVE  \A c \in Clients : client'[c].link = client[c].link
<1>1. \A c \in Clients : DOMAIN client[c] = {"link", "last", "wire"}
  BY DEF StreamInv, ClientsOK
<1>2. ASSUME NEW i, NEW items, client' = Written(i, items), NEW c \in Clients
      PROVE  client'[c].link = client[c].link
  BY <1>1, <1>2 DEF Written
<1> QED  BY <1>2

\* A chain that can go on is not waiting for a file.
LEMMA ReadyIs ==
    ASSUME Each, NEW i \in DOMAIN sessions, NEW e, e = sessions[i], ~e.busy
    PROVE  e.busy = FALSE /\ e.note = {} /\ NotedOf(e) = {} /\ Tidy(e, feed, busSeq)
<1>1. Tidy(e, feed, busSeq)
  BY DEF Each
<1> QED  BY <1>1 DEF Tidy, ReadOK, NotedOf

LEMMA HeadIn ==
    ASSUME NEW e, NEW b, ChainOK(e.chain, b), e.chain # <<>>
    PROVE  Head(e.chain) \in ChainOf(e)
<1> DEFINE q == e.chain
<1>1. q \in Seq(1..b) /\ q # <<>>
  BY DEF ChainOK
<1> HIDE DEF q
<1>2. Head(q) \in Elements(q)
  BY <1>1, TailIs
<1> QED  BY <1>2 DEF q, ChainOf

LEMMA WithholdStep ==
    ASSUME StreamInv, RelayInv, NEW i \in DOMAIN sessions, Withhold(i)
    PROVE  RelayInv'
<1> DEFINE e == sessions[i]
           d == sessions'[i]
           h == Head(e.chain)
<1>1. /\ OnlyAt(i) /\ SameBus /\ gone' = gone /\ delivered' = delivered \ {h}
      /\ e.chain # <<>> /\ ~e.busy /\ d.chain = Tail(e.chain) /\ d.busy = e.busy
      /\ d.note = e.note /\ d.pending = e.pending /\ d.store = e.store
  BY ListedSessions DEF Withhold, Ready, HeadOf, Next1, OnlyAt, SameBus, Fields
<1>2. ~live \/ ~e.sink \/ Event(h).kind = "foreign"
  BY DEF Withhold, InScope, HeadOf
<1> HIDE DEF d
<1>3. e.busy = FALSE /\ e.note = {} /\ NotedOf(e) = {} /\ Tidy(e, feed, busSeq)
  BY <1>1, ReadyIs DEF RelayInv
<1> HIDE DEF e, h
<1>4. h = Head(e.chain) /\ e = sessions[i] /\ d = sessions'[i]
  BY DEF e, h, d
<1> DEFINE S == {}
<1>5. /\ d.store = e.store /\ S = {} /\ S \subseteq {h} \union NotedOf(e) \union TextsOf(e.pending)
      /\ BuffersOK(d.pending, feed, busSeq) /\ TextsOf(d.pending) \cap S = {}
      /\ TextsOf(d.pending) \subseteq TextsOf(e.pending) \union {h}
  BY <1>1, <1>3 DEF Tidy
<1> HIDE DEF S
<1>6. /\ Tidy(d, feed, busSeq) /\ HasOf(d) \subseteq HasOf(e) /\ h \in HasOf(e)
      /\ HasOf(d) = (ChainOf(e) \ {h}) \union TextsOf(d.pending) \union SeenIn(e.store) \union S
  <2>1. Pops(e, d, S, feed, busSeq)
    BY <1>1, <1>3, <1>4, <1>5 DEF Pops
  <2> QED  BY <1>3, <1>4, <2>1, PopTidy
<1>7. HasOf(e) = HasOf(d) \union {h} /\ h \notin HasOf(d)
  <2>1. h \in ChainOf(e) /\ Parted(e)
    BY <1>1, <1>3, <1>4, HeadIn DEF Tidy
  <2>2. HasOf(e) = ChainOf(e) \union TextsOf(e.pending) \union SeenIn(e.store)
    BY <1>3 DEF HasOf
  <2>3. TextsOf(d.pending) = TextsOf(e.pending)
    BY <1>1
  <2> QED  BY <1>5, <1>6, <2>1, <2>2, <2>3 DEF Parted
<1> QED
  BY <1>1, <1>2, <1>4, <1>6, <1>7, SameLength, LocalStep DEF OnlyAt, SameBus

\* A step of the chain that keeps every number: what is left out of the places
\* is no message, or its text is gone.
LEMMA KeepsStep ==
    ASSUME StreamInv, RelayInv, NEW i \in DOMAIN sessions, NEW e, e = sessions[i], NEW d, d = sessions'[i],
           OnlyAt(i), SameBus, UNCHANGED <<delivered, gone>>,
           e.chain = <<>> => d.chain = <<>>,
           Tidy(d, feed, busSeq), HasOf(d) \subseteq HasOf(e),
           \A s \in HasOf(e) : s \in HasOf(d) \/ ~Speaks(s)
    PROVE  RelayInv'
<1> DEFINE h == 0
<1>1. gone \subseteq gone' /\ gone' \subseteq gone \union HasOf(e)
  OBVIOUS
<1> HIDE DEF h
<1>2. DOMAIN sessions' = DOMAIN sessions /\ Len(sessions') = Len(sessions)
  BY SameLength DEF OnlyAt
<1> QED  BY <1>1, <1>2, LocalStep DEF OnlyAt, SameBus

LEMMA DeliverTextStep ==
    ASSUME StreamInv, RelayInv, NEW i \in DOMAIN sessions, DeliverText(i)
    PROVE  RelayInv'
<1> DEFINE e == sessions[i]
           d == sessions'[i]
           h == Head(e.chain)
           S == {h}
<1>1. /\ OnlyAt(i) /\ UNCHANGED <<delivered, gone>>
      /\ e.chain # <<>> /\ ~e.busy /\ d.chain = Tail(e.chain) /\ d.busy = e.busy
      /\ d.note = e.note /\ d.pending = e.pending /\ d.store = Append(e.store, {h})
  <2> DEFINE known == [sessions EXCEPT ![i].known = TRUE]
             next == Next1(i, known)
  <2>1. /\ Near(known, sessions, i) /\ known[i].chain = e.chain /\ known[i].busy = e.busy
        /\ known[i].note = e.note /\ known[i].pending = e.pending /\ known[i].store = e.store
    BY ListedSessions DEF Near, Fields
  <2>2. /\ sessions' = FrameOf(i, {h}, next) /\ e.chain # <<>> /\ ~e.busy
        /\ UNCHANGED <<delivered, gone>>
    BY DEF DeliverText, Ready, HeadOf
  <2> HIDE DEF known
  <2>3. /\ Near(next, sessions, i) /\ next[i].chain = Tail(e.chain) /\ next[i].busy = e.busy
        /\ next[i].note = e.note /\ next[i].pending = e.pending /\ next[i].store = e.store
    BY <2>1, NextIs
  <2> HIDE DEF next, e, d, h
  <2>4. /\ Near(sessions', sessions, i) /\ d.chain = next[i].chain /\ d.busy = next[i].busy
        /\ d.note = next[i].note /\ d.pending = next[i].pending /\ d.store = Append(next[i].store, {h})
    <3>1. Near(next, sessions, i) /\ sessions' = FrameOf(i, {h}, next)
      BY <2>2, <2>3
    <3> QED  BY <3>1, FrameIs DEF d
  <2> QED  BY <2>2, <2>3, <2>4, NearIs
<1>2. SameBus
  <2>1. \E k, items : client' = Written(k, items)
    BY DEF DeliverText
  <2> QED  BY <2>1, LinksStay DEF DeliverText, SameBus
<1> HIDE DEF d
<1>3. e.busy = FALSE /\ e.note = {} /\ NotedOf(e) = {} /\ Tidy(e, feed, busSeq)
  BY <1>1, ReadyIs DEF RelayInv
<1>4. h \in ChainOf(e)
  BY <1>1, <1>3, HeadIn DEF Tidy
<1>5. e = sessions[i] /\ d = sessions'[i] /\ h = Head(e.chain) /\ S = {h}
  BY DEF d
<1> HIDE DEF e, h, S
<1>6. Pops(e, d, S, feed, busSeq)
  <2>1. h \notin TextsOf(e.pending) /\ BuffersOK(e.pending, feed, busSeq)
    BY <1>3, <1>4 DEF Tidy, Parted
  <2> QED  BY <1>1, <1>3, <1>5, <2>1 DEF Pops
<1>7. /\ Tidy(d, feed, busSeq) /\ HasOf(d) \subseteq HasOf(e)
      /\ HasOf(d) = (ChainOf(e) \ {h}) \union TextsOf(d.pending) \union SeenIn(e.store) \union S
  BY <1>3, <1>5, <1>6, PopTidy
<1>8. HasOf(e) \subseteq HasOf(d)
  BY <1>1, <1>3, <1>5, <1>7 DEF HasOf
<1> QED  BY <1>1, <1>2, <1>5, <1>7, <1>8, KeepsStep

\* A text waits in a buffer.
LEMMA WithBufferIs ==
    ASSUME NEW q, NEW f, NEW b, BuffersOK(q, f, b), NEW p \in 1..b, f[p].kind = "photo"
    PROVE  /\ BuffersOK(WithBuffer(q, p), f, b)
           /\ TextsOf(WithBuffer(q, p)) = TextsOf(q) \union {p}
<1> DEFINE u == WithBuffer(q, p)
           new == [text |-> TRUE, saved |-> {}, late |-> FALSE]
<1>1. /\ DOMAIN u = DOMAIN q \union {p} /\ u[p] = new
      /\ \A x \in DOMAIN q : x # p => u[x] = q[x]
  BY DEF WithBuffer
<1>2. /\ new \in [text : BOOLEAN, saved : SUBSET (1..b), late : BOOLEAN]
      /\ new.text = TRUE /\ new.late = FALSE
  OBVIOUS
<1> HIDE DEF u, new
<1>3. BuffersOK(u, f, b)
  BY <1>1, <1>2 DEF BuffersOK
<1>4. TextsOf(u) = TextsOf(q) \union {p}
  BY <1>1, <1>2 DEF TextsOf
<1> QED  BY <1>3, <1>4 DEF u

LEMMA DeliverPhotoStep ==
    ASSUME StreamInv, RelayInv, NEW i \in DOMAIN sessions, DeliverPhoto(i)
    PROVE  RelayInv'
<1> DEFINE e == sessions[i]
           d == sessions'[i]
           h == Head(e.chain)
           S == {}
<1>1. /\ OnlyAt(i) /\ UNCHANGED <<delivered, gone>>
      /\ e.chain # <<>> /\ ~e.busy /\ d.chain = Tail(e.chain) /\ d.busy = e.busy
      /\ d.note = e.note /\ d.pending = WithBuffer(e.pending, h) /\ d.store = e.store
  <2> DEFINE ss == [sessions EXCEPT ![i].known = TRUE, ![i].pending = WithBuffer(@, h)]
  <2>1. /\ Near(ss, sessions, i) /\ ss[i].chain = e.chain /\ ss[i].busy = e.busy
        /\ ss[i].note = e.note /\ ss[i].pending = WithBuffer(e.pending, h) /\ ss[i].store = e.store
    BY ListedSessions DEF Near, Fields
  <2>2. /\ sessions' = Next1(i, ss) /\ e.chain # <<>> /\ ~e.busy
        /\ UNCHANGED <<delivered, gone>>
    BY DEF DeliverPhoto, Ready, HeadOf
  <2> HIDE DEF ss, e, d, h
  <2>3. /\ Near(sessions', sessions, i) /\ d.chain = Tail(ss[i].chain) /\ d.busy = ss[i].busy
        /\ d.note = ss[i].note /\ d.pending = ss[i].pending /\ d.store = ss[i].store
    BY <2>1, <2>2, NextIs DEF d
  <2> QED  BY <2>1, <2>2, <2>3, NearIs
<1>2. SameBus /\ feed[h].kind = "photo"
  BY DEF DeliverPhoto, HeadOf, SameBus, Event
<1> HIDE DEF d
<1>3. e.busy = FALSE /\ e.note = {} /\ NotedOf(e) = {} /\ Tidy(e, feed, busSeq)
  BY <1>1, ReadyIs DEF RelayInv
<1>4. h \in ChainOf(e) /\ h \in 1..busSeq
  BY <1>1, <1>3, HeadIn, TidyIn DEF Tidy
<1>5. e = sessions[i] /\ d = sessions'[i] /\ h = Head(e.chain) /\ S = {}
  BY DEF d
<1> HIDE DEF e, h, S
<1>6. BuffersOK(d.pending, feed, busSeq) /\ TextsOf(d.pending) = TextsOf(e.pending) \union {h}
  BY <1>1, <1>2, <1>3, <1>4, WithBufferIs DEF Tidy
<1>7. Pops(e, d, S, feed, busSeq)
  BY <1>1, <1>3, <1>5, <1>6 DEF Pops
<1>8. /\ Tidy(d, feed, busSeq) /\ HasOf(d) \subseteq HasOf(e)
      /\ HasOf(d) = (ChainOf(e) \ {h}) \union TextsOf(d.pending) \union SeenIn(e.store) \union S
  BY <1>3, <1>5, <1>7, PopTidy
<1>9. HasOf(e) \subseteq HasOf(d)
  BY <1>3, <1>6, <1>8 DEF HasOf
<1> QED  BY <1>1, <1>2, <1>5, <1>8, <1>9, KeepsStep

LEMMA BufferTaken ==
    ASSUME NEW X, NEW r \in [text : BOOLEAN, saved : SUBSET X, late : BOOLEAN], NEW s \in X
    PROVE  /\ [r EXCEPT !.text = FALSE, !.saved = @ \union {s}] \in [text : BOOLEAN, saved : SUBSET X, late : BOOLEAN]
           /\ [r EXCEPT !.text = FALSE, !.saved = @ \union {s}].text = FALSE
  OBVIOUS

\* The note of a file and the buffer after it: the text is in one of them.
LEMMA NoteIs ==
    ASSUME NEW e, NEW f, NEW b, BuffersOK(e.pending, f, b), NEW s \in 1..b, s \notin TextsOf(e.pending),
           f = feed, f[s].of # s, NEW i, e = sessions[i],
           NEW note, note = NoteFor(i, s), NEW u, u = BufferAfter(e.pending, s)
    PROVE  /\ BuffersOK(u, f, b) /\ TextsOf(u) = TextsOf(e.pending) \ note
           /\ note \subseteq {s} \union TextsOf(e.pending) /\ (note # {} => s \in note)
<1> DEFINE q == e.pending
           p == f[s].of
           had == [q[p] EXCEPT !.text = FALSE, !.saved = @ \union {s}]
<1>1. /\ p \in DOMAIN q => note = {s} \union (IF q[p].text THEN {p} ELSE {})
      /\ p \notin DOMAIN q => note = {s} \/ note = {}
  BY DEF NoteFor, Event
<1>2. /\ p \notin DOMAIN q => u = q
      /\ p \in DOMAIN q => u = [x \in (DOMAIN q) \ {p} |-> q[x]] \/ u = [q EXCEPT ![p] = had]
  <2>1. u = BufferAfter(q, s) /\ Event(s).of = p
    BY DEF Event
  <2> QED  BY <2>1 DEF BufferAfter
<1>3. ASSUME p \in DOMAIN q
      PROVE  /\ had \in [text : BOOLEAN, saved : SUBSET (1..b), late : BOOLEAN]
             /\ had.text = FALSE
  <2>1. q[p] \in [text : BOOLEAN, saved : SUBSET (1..b), late : BOOLEAN]
    BY <1>3 DEF BuffersOK
  <2> QED  BY <2>1, BufferTaken
<1>4. BuffersOK(q, f, b) /\ s \notin TextsOf(q) /\ p # s
  OBVIOUS
<1> HIDE DEF had, q, p
<1>5. note \subseteq {s} \union TextsOf(q) /\ (note # {} => s \in note)
  BY <1>1 DEF TextsOf
<1>6. CASE p \notin DOMAIN q
  BY <1>1, <1>2, <1>4, <1>5, <1>6 DEF q
<1>7. CASE p \in DOMAIN q
  <2>1. \A x \in TextsOf(q) : x \in note <=> x = p
    BY <1>1, <1>4, <1>7 DEF TextsOf
  <2>2. CASE u = [x \in (DOMAIN q) \ {p} |-> q[x]]
    <3>1. DOMAIN u = (DOMAIN q) \ {p} /\ \A x \in DOMAIN u : u[x] = q[x]
      BY <2>2
    <3> HIDE <2>2
    <3>2. BuffersOK(u, f, b)
      BY <1>4, <3>1 DEF BuffersOK
    <3>3. TextsOf(u) = TextsOf(q) \ {p}
      BY <3>1 DEF TextsOf
    <3> QED  BY <1>5, <2>1, <3>2, <3>3 DEF q
  <2>3. CASE u = [q EXCEPT ![p] = had]
    <3>1. DOMAIN u = DOMAIN q /\ u[p] = had /\ \A x \in DOMAIN u : x # p => u[x] = q[x]
      BY <1>7, <2>3
    <3> HIDE <2>3
    <3>2. BuffersOK(u, f, b)
      <4> SUFFICES ASSUME NEW x \in DOMAIN q
                   PROVE  /\ x \in 1..b /\ f[x].kind = "photo"
                          /\ u[x] \in [text : BOOLEAN, saved : SUBSET (1..b), late : BOOLEAN]
                          /\ u[x].late => ~u[x].text
        BY <3>1 DEF BuffersOK
      <4>1. /\ x \in 1..b /\ f[x].kind = "photo" /\ (q[x].late => ~q[x].text)
            /\ q[x] \in [text : BOOLEAN, saved : SUBSET (1..b), late : BOOLEAN]
        BY <1>4 DEF BuffersOK
      <4>2. CASE x = p
        <5>1. u[x] = had /\ ~had.text
          BY <1>3, <1>7, <3>1, <4>2
        <5> QED  BY <1>3, <1>7, <4>1, <5>1
      <4>3. CASE x # p
        <5>1. u[x] = q[x]
          BY <3>1, <4>3
        <5> QED  BY <4>1, <5>1
      <4> QED  BY <4>2, <4>3
    <3>3. TextsOf(u) = TextsOf(q) \ {p}
      BY <1>3, <1>7, <3>1 DEF TextsOf
    <3> QED  BY <1>5, <2>1, <3>2, <3>3 DEF q
  <2> QED  BY <1>2, <1>7, <2>2, <2>3
<1> QED  BY <1>6, <1>7

Looks(u, i, on, note, ss) ==
    Near(ss, sessions, i) /\ u = [ss EXCEPT ![i].busy = on, ![i].note = note]

LEMMA LooksIs ==
    ASSUME NEW i \in DOMAIN sessions, NEW ss, NEW note, NEW on, NEW u, Looks(u, i, on, note, ss)
    PROVE  /\ Near(u, sessions, i) /\ u[i].chain = ss[i].chain /\ u[i].busy = on
           /\ u[i].note = note /\ u[i].pending = ss[i].pending /\ u[i].store = ss[i].store
  BY DEF Looks, Near, Fields

LEMMA DeliverFileStep ==
    ASSUME StreamInv, RelayInv, NEW i \in DOMAIN sessions, DeliverFile(i)
    PROVE  RelayInv'
<1> DEFINE e == sessions[i]
           d == sessions'[i]
           h == Head(e.chain)
           note == NoteFor(i, h)
           ss == [sessions EXCEPT ![i].pending = BufferAfter(@, h)]
<1>1. /\ Near(ss, sessions, i) /\ ss[i].chain = e.chain /\ ss[i].busy = e.busy
      /\ ss[i].note = e.note /\ ss[i].pending = BufferAfter(e.pending, h) /\ ss[i].store = e.store
  BY ListedSessions DEF Near, Fields
<1>2. /\ e.chain # <<>> /\ ~e.busy /\ feed[h].kind \in {"saved", "failed"} /\ UNCHANGED <<delivered, gone>>
      /\ \/ note = {} /\ sessions' = Next1(i, ss)
         \/ note # {} /\ feed[h].kind = "failed" /\ sessions' = FrameOf(i, note, Next1(i, ss))
         \/ note # {} /\ feed[h].kind = "saved"
            /\ sessions' = [ss EXCEPT ![i].busy = TRUE, ![i].note = note]
  BY DEF DeliverFile, Ready, HeadOf, Event
<1>3. SameBus
  <2>1. client' = client \/ client' = Written(i, note)
    BY DEF DeliverFile, HeadOf
  <2> QED  BY <2>1, LinksStay DEF DeliverFile, SameBus
<1> HIDE DEF d, ss
<1>4. e.busy = FALSE /\ e.note = {} /\ NotedOf(e) = {} /\ Tidy(e, feed, busSeq)
  BY <1>2, ReadyIs DEF RelayInv
<1>5. /\ h \in ChainOf(e) /\ h \in 1..busSeq /\ Speaks(h) = FALSE /\ feed[h].of # h
  <2>1. h \in ChainOf(e) /\ h \in 1..busSeq
    BY <1>2, <1>4, HeadIn, TidyIn DEF Tidy
  <2>2. h \in 1..Len(feed)
    BY <2>1, FeedType DEF RelayInv
  <2>3. feed[h].of \in 1..(h - 1)
    BY <1>2, <2>2, FeedType DEF RelayInv
  <2> QED  BY <1>2, <2>1, <2>3 DEF Speaks, Event
<1>6. e = sessions[i] /\ d = sessions'[i] /\ h = Head(e.chain) /\ note = NoteFor(i, h)
  BY DEF d
<1>7. /\ BuffersOK(ss[i].pending, feed, busSeq) /\ TextsOf(ss[i].pending) = TextsOf(e.pending) \ note
      /\ note \subseteq {h} \union TextsOf(e.pending) /\ (note # {} => h \in note)
  <2>1. BuffersOK(e.pending, feed, busSeq) /\ h \notin TextsOf(e.pending)
    BY <1>4, <1>5 DEF Tidy, Parted
  <2> HIDE DEF e, h, note
  <2> QED  BY <1>1, <1>5, <1>6, <2>1, NoteIs
<1> HIDE DEF e, h, note
<1>8. ASSUME NEW S, Pops(e, d, S, feed, busSeq), OnlyAt(i), S = note, d.pending = ss[i].pending
      PROVE  RelayInv'
  <2>1. /\ Tidy(d, feed, busSeq) /\ HasOf(d) \subseteq HasOf(e)
        /\ HasOf(d) = (ChainOf(e) \ {h}) \union TextsOf(d.pending) \union SeenIn(e.store) \union S
    BY <1>4, <1>6, <1>8, PopTidy
  <2>2. \A s \in HasOf(e) : s \in HasOf(d) \/ ~Speaks(s)
    BY <1>4, <1>5, <1>7, <1>8, <2>1 DEF HasOf
  <2> QED  BY <1>2, <1>3, <1>6, <2>1, <2>2, <1>8, KeepsStep
<1>9. CASE note = {} /\ sessions' = Next1(i, ss)
  <2>1. /\ Near(sessions', sessions, i) /\ d.chain = Tail(ss[i].chain) /\ d.busy = ss[i].busy
        /\ d.note = ss[i].note /\ d.pending = ss[i].pending /\ d.store = ss[i].store
    BY <1>1, <1>6, <1>9, NextIs
  <2>2. Pops(e, d, note, feed, busSeq)
    BY <1>1, <1>2, <1>4, <1>7, <1>9, <2>1 DEF Pops
  <2> QED  BY <1>8, <2>1, <2>2, NearIs
<1>10. CASE note # {} /\ feed[h].kind = "failed" /\ sessions' = FrameOf(i, note, Next1(i, ss))
  <2> DEFINE next == Next1(i, ss)
  <2>1. /\ Near(next, sessions, i) /\ next[i].chain = Tail(e.chain) /\ next[i].busy = e.busy
        /\ next[i].note = e.note /\ next[i].pending = ss[i].pending /\ next[i].store = e.store
    BY <1>1, NextIs
  <2> HIDE DEF next
  <2>2. sessions' = FrameOf(i, note, next)
    BY <1>10 DEF next
  <2>3. /\ Near(sessions', sessions, i) /\ d.chain = next[i].chain /\ d.busy = next[i].busy
        /\ d.note = next[i].note /\ d.pending = next[i].pending /\ d.store = Append(next[i].store, note)
    BY <1>6, <2>1, <2>2, FrameIs
  <2>4. Pops(e, d, note, feed, busSeq)
    BY <1>2, <1>4, <1>6, <1>7, <2>1, <2>3 DEF Pops
  <2> QED  BY <1>8, <2>1, <2>3, <2>4, NearIs
<1>11. CASE note # {} /\ feed[h].kind = "saved" /\ sessions' = [ss EXCEPT ![i].busy = TRUE, ![i].note = note]
  <2>1. /\ Near(sessions', sessions, i) /\ d.chain = ss[i].chain /\ d.busy = TRUE
        /\ d.note = note /\ d.pending = ss[i].pending /\ d.store = ss[i].store
    <3>1. PICK on : on = TRUE
      OBVIOUS
    <3>2. Looks(sessions', i, on, note, ss)
      BY <1>1, <1>11, <3>1 DEF Looks
    <3>3. /\ Near(sessions', sessions, i) /\ d.chain = ss[i].chain /\ d.busy = on
          /\ d.note = note /\ d.pending = ss[i].pending /\ d.store = ss[i].store
      BY <1>6, <3>2, LooksIs
    <3> QED  BY <3>1, <3>3
  <2>2. NotedOf(d) = note \ {h}
    BY <1>1, <1>6, <2>1 DEF NotedOf
  <2>3. ReadOK(d, feed, busSeq)
    <3>1. note \subseteq 1..busSeq
      BY <1>4, <1>5, <1>7, TidyIn
    <3> QED  BY <1>1, <1>2, <1>6, <1>7, <1>11, <2>1, <3>1 DEF ReadOK
  <2> DEFINE S == {}
  <2>4. Stays(e, d, S, feed, busSeq)
    <3>1. /\ d.chain = e.chain /\ d.store = e.store /\ BuffersOK(d.pending, feed, busSeq)
          /\ TextsOf(d.pending) = TextsOf(e.pending) \ note
      BY <1>1, <1>7, <2>1
    <3> QED  BY <1>7, <2>2, <2>3, <3>1 DEF Stays
  <2> HIDE DEF S
  <2>5. /\ Tidy(d, feed, busSeq) /\ HasOf(d) \subseteq HasOf(e)
        /\ HasOf(d) = ChainOf(e) \union NotedOf(d) \union TextsOf(d.pending) \union SeenIn(e.store) \union S
    BY <1>4, <2>4, StayTidy
  <2>6. HasOf(e) \subseteq HasOf(d)
    <3>1. TextsOf(d.pending) = TextsOf(e.pending) \ note
      BY <1>7, <2>1
    <3> QED  BY <1>4, <1>5, <2>2, <2>5, <3>1 DEF HasOf
  <2> QED  BY <1>1, <1>2, <1>3, <1>6, <2>1, <2>5, <2>6, NearIs, KeepsStep
<1> QED  BY <1>2, <1>9, <1>10, <1>11

\* The disk has answered.
LEMMA FileReadStep ==
    ASSUME StreamInv, RelayInv, NEW i \in DOMAIN sessions, FileRead(i)
    PROVE  RelayInv'
<1> DEFINE e == sessions[i]
           d == sessions'[i]
           h == Head(e.chain)
           note == e.note
           ss == [sessions EXCEPT ![i].busy = FALSE, ![i].note = {}]
           next == Next1(i, ss)
<1>1. /\ Near(ss, sessions, i) /\ ss[i].chain = e.chain /\ ss[i].busy = FALSE
      /\ ss[i].note = {} /\ ss[i].pending = e.pending /\ ss[i].store = e.store
  BY ListedSessions DEF Near, Fields
<1>2. /\ e.busy
      /\ \/ e.open /\ sessions' = FrameOf(i, note, next) /\ UNCHANGED <<delivered, gone>>
         \/ /\ ~e.open /\ sessions' = next /\ delivered' = delivered \ {h}
            /\ gone' = gone \union (note \ {h})
  BY DEF FileRead, HeadOf
<1>3. SameBus
  <2>1. client' = client \/ client' = Written(i, note)
    BY DEF FileRead
  <2> QED  BY <2>1, LinksStay DEF FileRead, SameBus
<1> HIDE DEF ss
<1>4. /\ Near(next, sessions, i) /\ next[i].chain = Tail(e.chain) /\ next[i].busy = FALSE
      /\ next[i].note = {} /\ next[i].pending = e.pending /\ next[i].store = e.store
  BY <1>1, NextIs
<1>5. /\ Tidy(e, feed, busSeq) /\ (e.sink => e.open)
  BY DEF RelayInv, Each, Slots, Slot
<1>6. e = sessions[i] /\ d = sessions'[i] /\ h = Head(e.chain) /\ note = e.note
  OBVIOUS
<1> HIDE DEF next, e, d, h, note
<1>7. /\ e.chain # <<>> /\ h \in note /\ note = NotedOf(e) \union {h} /\ h \in ChainOf(e)
  BY <1>2, <1>5, <1>6, HeadIn DEF Tidy, ReadOK, NotedOf
<1>8. /\ BuffersOK(e.pending, feed, busSeq) /\ note \cap TextsOf(e.pending) = {}
      /\ NotedOf(e) \cap TextsOf(e.pending) = {} /\ h \notin TextsOf(e.pending) /\ h \notin SeenIn(e.store)
  BY <1>5, <1>7 DEF Tidy, Parted
<1>9. CASE e.open /\ sessions' = FrameOf(i, note, next) /\ UNCHANGED <<delivered, gone>>
  <2>1. /\ Near(sessions', sessions, i) /\ d.chain = next[i].chain /\ d.busy = next[i].busy
        /\ d.note = next[i].note /\ d.pending = next[i].pending /\ d.store = Append(next[i].store, note)
    BY <1>4, <1>6, <1>9, FrameIs
  <2>2. Pops(e, d, note, feed, busSeq)
    BY <1>4, <1>6, <1>7, <1>8, <2>1 DEF Pops
  <2>3. /\ Tidy(d, feed, busSeq) /\ HasOf(d) \subseteq HasOf(e)
        /\ HasOf(d) = (ChainOf(e) \ {h}) \union TextsOf(d.pending) \union SeenIn(e.store) \union note
    BY <1>5, <1>6, <2>2, PopTidy
  <2>4. HasOf(e) \subseteq HasOf(d)
    BY <1>4, <1>7, <2>1, <2>3 DEF HasOf
  <2> QED  BY <1>3, <1>6, <1>7, <1>9, <2>1, <2>3, <2>4, NearIs, KeepsStep
<1>10. CASE /\ ~e.open /\ sessions' = next /\ delivered' = delivered \ {h}
            /\ gone' = gone \union (note \ {h})
  <2>1. /\ Near(sessions', sessions, i) /\ d.chain = Tail(e.chain) /\ d.busy = FALSE
        /\ d.note = {} /\ d.pending = e.pending /\ d.store = e.store
    BY <1>4, <1>6, <1>10
  <2> DEFINE S == {}
  <2>2. Pops(e, d, S, feed, busSeq)
    BY <1>4, <1>6, <1>7, <1>8, <2>1 DEF Pops
  <2>3. S = {}
    OBVIOUS
  <2> HIDE DEF S
  <2>4. /\ Tidy(d, feed, busSeq) /\ HasOf(d) \subseteq HasOf(e) /\ h \in HasOf(e)
        /\ HasOf(d) = (ChainOf(e) \ {h}) \union TextsOf(d.pending) \union SeenIn(e.store) \union S
    BY <1>5, <1>6, <2>2, PopTidy
  <2>5. h \notin HasOf(d) /\ HasOf(e) \subseteq HasOf(d) \union note
    BY <1>7, <1>8, <2>1, <2>3, <2>4 DEF HasOf
  <2>6. /\ gone \subseteq gone' /\ gone' \subseteq gone \union HasOf(e) /\ ~e.sink
        /\ \A s \in HasOf(e) : s \in HasOf(d) \/ s \notin delivered' \/ s \in gone'
    BY <1>5, <1>7, <1>10, <2>5 DEF HasOf
  <2>7. OnlyAt(i) /\ DOMAIN sessions' = DOMAIN sessions /\ Len(sessions') = Len(sessions)
    BY <2>1, NearIs, SameLength DEF OnlyAt
  <2> QED  BY <1>3, <1>6, <1>7, <1>10, <2>4, <2>5, <2>6, <2>7, LocalStep DEF OnlyAt, SameBus
<1> QED  BY <1>2, <1>9, <1>10

(***************************************************************************)
(* The timers of the buffers.                                              *)
(***************************************************************************)
LEMMA BufferFlushed ==
    ASSUME NEW X, NEW r \in [text : BOOLEAN, saved : SUBSET X, late : BOOLEAN]
    PROVE  /\ [r EXCEPT !.text = FALSE, !.late = TRUE] \in [text : BOOLEAN, saved : SUBSET X, late : BOOLEAN]
           /\ [r EXCEPT !.text = FALSE, !.late = TRUE].text = FALSE
  OBVIOUS

LEMMA SameRead ==
    ASSUME NEW e, NEW f, NEW b, Tidy(e, f, b),
           NEW d, d.chain = e.chain, d.busy = e.busy, d.note = e.note
    PROVE  ReadOK(d, f, b) /\ NotedOf(d) = NotedOf(e) /\ NotedOf(e) \cap TextsOf(e.pending) = {}
  BY DEF Tidy, ReadOK, NotedOf, Parted

LEMMA FallbackStep ==
    ASSUME StreamInv, RelayInv, NEW i \in DOMAIN sessions, NEW p \in DOMAIN sessions[i].pending,
           Fallback(i, p)
    PROVE  RelayInv'
<1> DEFINE e == sessions[i]
           d == sessions'[i]
           buf == e.pending[p]
           done == [buf EXCEPT !.text = FALSE, !.late = TRUE]
           note == IF buf.text THEN {p} ELSE {}
           ss == [sessions EXCEPT ![i].pending[p] = done]
<1>1. /\ Near(ss, sessions, i) /\ ss[i].chain = e.chain /\ ss[i].busy = e.busy
      /\ ss[i].note = e.note /\ ss[i].pending = [e.pending EXCEPT ![p] = done] /\ ss[i].store = e.store
  <2> HIDE DEF done
  <2> QED  BY ListedSessions DEF Near, Fields
<1>2. sessions' = FrameOf(i, note, ss) /\ UNCHANGED <<delivered, gone>>
  BY DEF Fallback
<1>3. SameBus
  <2>1. client' = Written(i, note)
    BY DEF Fallback
  <2> QED  BY <2>1, LinksStay DEF Fallback, SameBus
<1>4. Tidy(e, feed, busSeq) /\ BuffersOK(e.pending, feed, busSeq)
  BY DEF RelayInv, Each, Tidy
<1>5. /\ done \in [text : BOOLEAN, saved : SUBSET (1..busSeq), late : BOOLEAN]
      /\ done.text = FALSE
  <2>1. buf \in [text : BOOLEAN, saved : SUBSET (1..busSeq), late : BOOLEAN]
    BY <1>4 DEF BuffersOK
  <2> HIDE DEF buf
  <2> QED  BY <2>1, BufferFlushed
<1>6. e = sessions[i] /\ d = sessions'[i] /\ p \in DOMAIN e.pending /\ note = IF e.pending[p].text THEN {p} ELSE {}
  OBVIOUS
<1> HIDE DEF ss, done, buf, e, d, note
<1>7. /\ Near(sessions', sessions, i) /\ d.chain = e.chain /\ d.busy = e.busy
      /\ d.note = e.note /\ d.pending = [e.pending EXCEPT ![p] = done] /\ d.store = Append(e.store, note)
  <2>1. /\ Near(sessions', sessions, i) /\ d.chain = ss[i].chain /\ d.busy = ss[i].busy
        /\ d.note = ss[i].note /\ d.pending = ss[i].pending /\ d.store = Append(ss[i].store, note)
    <3>1. Near(ss, sessions, i) /\ sessions' = FrameOf(i, note, ss)
      BY <1>1, <1>2
    <3> QED  BY <1>6, <3>1, FrameIs
  <2> QED  BY <1>1, <2>1
<1>8. /\ BuffersOK(d.pending, feed, busSeq) /\ TextsOf(d.pending) = TextsOf(e.pending) \ {p}
      /\ TextsOf(d.pending) = TextsOf(e.pending) \ note /\ note \subseteq TextsOf(e.pending)
  <2>1. /\ DOMAIN d.pending = DOMAIN e.pending /\ d.pending[p] = done
        /\ \A x \in DOMAIN e.pending : x # p => d.pending[x] = e.pending[x]
    BY <1>6, <1>7
  <2>2. BuffersOK(d.pending, feed, busSeq)
    BY <1>4, <1>5, <1>6, <2>1 DEF BuffersOK
  <2>3. TextsOf(d.pending) = TextsOf(e.pending) \ {p}
    BY <1>5, <1>6, <2>1 DEF TextsOf
  <2>4. note \subseteq TextsOf(e.pending) /\ (p \in TextsOf(e.pending) => p \in note) /\ note \subseteq {p}
    BY <1>6 DEF TextsOf
  <2> QED  BY <2>2, <2>3, <2>4
<1>9. ReadOK(d, feed, busSeq) /\ NotedOf(d) = NotedOf(e) /\ NotedOf(e) \cap TextsOf(e.pending) = {}
  BY <1>4, <1>7, SameRead
<1>10. Stays(e, d, note, feed, busSeq)
  BY <1>7, <1>8, <1>9 DEF Stays
<1>11. /\ Tidy(d, feed, busSeq) /\ HasOf(d) \subseteq HasOf(e)
       /\ HasOf(d) = ChainOf(e) \union NotedOf(d) \union TextsOf(d.pending) \union SeenIn(e.store) \union note
  BY <1>4, <1>10, StayTidy
<1>12. HasOf(e) \subseteq HasOf(d)
  BY <1>8, <1>9, <1>11 DEF HasOf
<1>13. OnlyAt(i) /\ (e.chain = <<>> => d.chain = <<>>) /\ UNCHANGED <<delivered, gone>>
  BY <1>2, <1>7, NearIs
<1> QED  BY <1>3, <1>6, <1>11, <1>12, <1>13, KeepsStep

LEMMA LateWindowStep ==
    ASSUME StreamInv, RelayInv, NEW i \in DOMAIN sessions, NEW p \in DOMAIN sessions[i].pending,
           LateWindowEnds(i, p)
    PROVE  RelayInv'
<1> DEFINE e == sessions[i]
           d == sessions'[i]
           S == {}
<1>1. /\ Near(sessions', sessions, i) /\ d.chain = e.chain /\ d.busy = e.busy
      /\ d.note = e.note /\ d.pending = [x \in (DOMAIN e.pending) \ {p} |-> e.pending[x]] /\ d.store = e.store
  BY ListedSessions DEF LateWindowEnds, Near, Fields
<1>2. UNCHANGED <<delivered, gone>> /\ SameBus /\ e.pending[p].late
  BY DEF LateWindowEnds, SameBus
<1>3. Tidy(e, feed, busSeq) /\ BuffersOK(e.pending, feed, busSeq)
  BY DEF RelayInv, Each, Tidy
<1>4. e = sessions[i] /\ d = sessions'[i] /\ p \in DOMAIN e.pending /\ S = {}
  OBVIOUS
<1> HIDE DEF e, d, S
<1>5. BuffersOK(d.pending, feed, busSeq) /\ TextsOf(d.pending) = TextsOf(e.pending)
  <2>1. /\ DOMAIN d.pending = DOMAIN e.pending \ {p}
        /\ \A x \in DOMAIN d.pending : d.pending[x] = e.pending[x]
    BY <1>1
  <2>2. ~e.pending[p].text
    BY <1>2, <1>3, <1>4 DEF BuffersOK
  <2>3. BuffersOK(d.pending, feed, busSeq)
    BY <1>3, <2>1 DEF BuffersOK
  <2>4. TextsOf(d.pending) = TextsOf(e.pending)
    BY <2>1, <2>2 DEF TextsOf
  <2> QED  BY <2>3, <2>4
<1>6. ReadOK(d, feed, busSeq) /\ NotedOf(d) = NotedOf(e) /\ NotedOf(e) \cap TextsOf(e.pending) = {}
  BY <1>1, <1>3, SameRead
<1>7. Stays(e, d, S, feed, busSeq)
  BY <1>1, <1>4, <1>5, <1>6 DEF Stays
<1>8. /\ Tidy(d, feed, busSeq) /\ HasOf(d) \subseteq HasOf(e)
      /\ HasOf(d) = ChainOf(e) \union NotedOf(d) \union TextsOf(d.pending) \union SeenIn(e.store) \union S
  BY <1>3, <1>7, StayTidy
<1>9. HasOf(e) \subseteq HasOf(d)
  BY <1>5, <1>6, <1>8 DEF HasOf
<1>10. OnlyAt(i) /\ (e.chain = <<>> => d.chain = <<>>)
  BY <1>1, NearIs
<1> QED  BY <1>2, <1>4, <1>8, <1>9, <1>10, KeepsStep

(***************************************************************************)
(* The slot, the switch and the streams.                                   *)
(***************************************************************************)
\* Nothing moves, but the buffers of a session may be thrown away; the bus may
\* have less for a replay.
LEMMA Drops ==
    ASSUME RelayInv, DOMAIN sessions \subseteq DOMAIN sessions',
           \A j \in DOMAIN sessions : LET e == sessions[j]  d == sessions'[j] IN
              /\ d.chain = e.chain /\ d.busy = e.busy /\ d.note = e.note /\ d.store = e.store
              /\ d.pending = e.pending \/ (d.pending = NoPending /\ TextsOf(e.pending) \subseteq gone'),
           \A j \in DOMAIN sessions' : j \notin DOMAIN sessions =>
              HasOf(sessions'[j]) = {} /\ Tidy(sessions'[j], feed, busSeq),
           UNCHANGED <<feed, busSeq, delivered, offAir>>, gone \subseteq gone',
           Buffered' \subseteq Buffered, live' => \A s \in offAir : s <= startAt'
    PROVE  Each' /\ Places'
<1>0. Each /\ Places /\ BusOK
  BY DEF RelayInv
<1>1. ASSUME NEW j \in DOMAIN sessions
      PROVE  /\ Tidy(sessions'[j], feed, busSeq) /\ HasOf(sessions'[j]) \subseteq Has(j)
             /\ \A s \in Has(j) : s \in HasOf(sessions'[j]) \/ s \in gone'
  <2> DEFINE e == sessions[j]
             d == sessions'[j]
  <2>1. Tidy(e, feed, busSeq) /\ HasOf(e) = Has(j)
    BY <1>0 DEF Each, Has
  <2>2. /\ d.chain = e.chain /\ d.busy = e.busy /\ d.note = e.note /\ d.store = e.store
        /\ d.pending \in {e.pending, NoPending}
        /\ d.pending = e.pending \/ TextsOf(e.pending) \subseteq gone'
    OBVIOUS
  <2> HIDE DEF e, d
  <2>3. /\ Tidy(d, feed, busSeq) /\ HasOf(d) \subseteq HasOf(e)
        /\ HasOf(e) \subseteq HasOf(d) \union TextsOf(e.pending)
        /\ d.pending = e.pending => HasOf(d) = HasOf(e)
    BY <2>1, <2>2, DropTidy
  <2>4. \A s \in HasOf(e) : s \in HasOf(d) \/ s \in gone'
    BY <2>2, <2>3
  <2> QED  BY <2>1, <2>3, <2>4 DEF e, d
<1>2. Each'
  BY <1>1 DEF Each
<1>3. Places'
  <2> DEFINE N == {}
  <2>1. \A j \in DOMAIN sessions : HasOf(sessions'[j]) \subseteq Has(j) \union (IF j = 0 THEN N ELSE {})
    BY <1>1
  <2>2. /\ N = {} /\ (0 \in DOMAIN sessions => N \subseteq HasOf(sessions'[0]))
        /\ (\A s \in N : Nowhere(s)) /\ N \cap offAir' = {} /\ delivered' \subseteq delivered \union N
    OBVIOUS
  <2>3. \A j \in DOMAIN sessions : \A s \in Has(j) :
           s \in HasOf(sessions'[j]) \/ s \notin delivered' \/ ~Speaks(s) \/ s \in gone'
    BY <1>1
  <2>4. \A s \in Buffered' : s \in delivered' \/ (\A j \in DOMAIN sessions' : s \notin HasOf(sessions'[j]))
    <3> SUFFICES ASSUME NEW s \in Buffered', s \notin delivered', NEW j \in DOMAIN sessions'
                 PROVE  s \notin HasOf(sessions'[j])
      OBVIOUS
    <3>1. Nowhere(s)
      BY <1>0 DEF Places, Fresh
    <3>2. j \in DOMAIN sessions => s \notin Has(j)
      BY <3>1 DEF Nowhere
    <3> QED  BY <1>1, <3>2
  <2>5. \A s \in offAir' : (s \in offAir \/ Nowhere(s)) /\ (live' => s <= startAt')
    OBVIOUS
  <2>6. \A j \in DOMAIN sessions' : j \notin DOMAIN sessions => HasOf(sessions'[j]) = {}
    OBVIOUS
  <2> HIDE DEF N
  <2> QED  BY <1>0, <2>1, <2>2, <2>3, <2>4, <2>5, <2>6, Moves
<1> QED  BY <1>2, <1>3

\* Only streams and clients change.
LEMMA StreamsOnly ==
    ASSUME StreamInv, RelayInv,
           UNCHANGED <<feed, busSeq, started, live, startAt, delivered, current, offs, offAir, gone>>,
           drops' \in 0..MaxDrops,
           sessions' = sessions \/ (current # 0 /\ sessions' = [sessions EXCEPT ![current].sink = FALSE]),
           \A c \in Clients : client'[c].link \in {0, client[c].link}
    PROVE  RelayInv'
<1>1. BusOK'
  BY DEF RelayInv, BusOK, Published
<1>2. Buffered' = Buffered
  BY DEF Buffered, Published
<1>3. /\ DOMAIN sessions' = DOMAIN sessions
      /\ \A j \in DOMAIN sessions : LET e == sessions[j]  d == sessions'[j] IN
           /\ d.chain = e.chain /\ d.busy = e.busy /\ d.note = e.note /\ d.store = e.store
           /\ d.pending = e.pending /\ d.id = e.id /\ d.open = e.open /\ d.handoff = e.handoff
           /\ d.sink => e.sink
  BY ListedSessions DEF Fields
<1>4. Each' /\ Places'
  <2>1. live' => \A s \in offAir : s <= startAt'
    BY DEF RelayInv, Places, Hidden
  <2>2. gone \subseteq gone' /\ Buffered' \subseteq Buffered
    BY <1>2
  <2> QED  BY <1>3, <2>1, <2>2, Drops
<1>5. Slots'
  <2>1. \A j \in DOMAIN sessions : Slot(j)
    BY DEF RelayInv, Slots
  <2> QED  BY <1>3, <2>1 DEF Slots, Slot
<1>6. OwnLinks'
  <2> SUFFICES ASSUME NEW c \in Clients, client'[c].link # 0 PROVE sessions'[client'[c].link].id = c
    BY DEF OwnLinks
  <2>1. client'[c].link = client[c].link
    OBVIOUS
  <2>2. client[c].link \in DOMAIN sessions
    BY <2>1, ListedSessions DEF StreamInv, ClientsOK
  <2> QED  BY <1>3, <2>1, <2>2 DEF RelayInv, OwnLinks
<1>7. Served'
  <2>1. Attached' => Attached
    <3>1. current # 0 => current \in DOMAIN sessions
      BY ListedSessions
    <3> QED  BY <1>3, <3>1 DEF Attached
  <2> QED  BY <1>2, <1>3, <2>1 DEF RelayInv, Served, Event
<1> QED  BY <1>1, <1>4, <1>5, <1>6, <1>7 DEF RelayInv

LEMMA StreamSteps ==
    ASSUME StreamInv, RelayInv,
           \/ \E c \in Clients : Read(c) \/ LinkBreaks(c) \/ LinkEnds(c)
           \/ SinkCloses
    PROVE  RelayInv'
<1>0. \A c \in Clients : DOMAIN client[c] = {"link", "last", "wire"}
  BY DEF StreamInv, ClientsOK
<1>1. drops \in 0..MaxDrops /\ MaxDrops \in Nat
  BY BoundsAssumption DEF RelayInv, BusOK
<1>2. CASE SinkCloses
  <2>1. /\ \A c \in Clients : client'[c].link \in {0, client[c].link}
        /\ UNCHANGED <<feed, busSeq, started, live, startAt, delivered, current, offs, offAir, gone>>
        /\ drops' = drops /\ current # 0 /\ sessions' = [sessions EXCEPT ![current].sink = FALSE]
    BY <1>2 DEF SinkCloses, Attached
  <2> QED  BY <1>1, <2>1, StreamsOnly
<1>3. ASSUME NEW c \in Clients, Read(c) \/ LinkBreaks(c) \/ LinkEnds(c) PROVE RelayInv'
  <2>1. /\ UNCHANGED <<feed, busSeq, started, live, startAt, delivered, current, offs, offAir, gone>>
        /\ sessions' = sessions /\ drops' \in 0..MaxDrops
    BY <1>1, <1>3 DEF Read, LinkBreaks, LinkEnds
  <2>2. \A x \in Clients : client'[x].link \in {0, client[x].link}
    <3>1. CASE Read(c)
      BY <1>0, <3>1 DEF Read, StreamInv, ClientsOK
    <3>2. CASE LinkBreaks(c) \/ LinkEnds(c)
      <4>1. client' = [client EXCEPT ![c].link = 0, ![c].wire = <<>>]
        BY <3>2 DEF LinkBreaks, LinkEnds, Unlinked
      <4> QED  BY <1>0, <4>1 DEF StreamInv, ClientsOK
    <3> QED  BY <1>3, <3>1, <3>2
  <2> QED  BY <2>1, <2>2, StreamsOnly
<1> QED  BY <1>2, <1>3

\* The switch is turned on, or the daemon starts: the bus has nothing to replay.
LEMMA StartSteps ==
    ASSUME StreamInv, RelayInv, StartInbound \/ LiveOn
    PROVE  RelayInv'
<1>1. /\ UNCHANGED <<feed, busSeq, delivered, sessions, current, client, drops, offs, offAir, gone>>
      /\ startAt' = busSeq /\ live' \in BOOLEAN /\ started' \in BOOLEAN
  BY DEF StartInbound, LiveOn, RelayInv, BusOK
<1>2. busSeq \in Nat /\ BusOK
  BY FeedType DEF RelayInv
<1>3. BusOK'
  BY <1>1, <1>2 DEF BusOK, Published
<1>4. Buffered' = {}
  BY <1>1, <1>2 DEF Buffered, Published
<1>5. Each' /\ Places'
  <2>1. live' => \A s \in offAir : s <= startAt'
    BY <1>1, <1>2 DEF BusOK, Published
  <2> QED  BY <1>1, <1>4, <2>1, Drops
<1>6. Slots' /\ OwnLinks'
  BY <1>1 DEF RelayInv, Slots, Slot, OwnLinks
<1>7. Served'
  BY <1>4 DEF Served
<1> QED  BY <1>3, <1>5, <1>6, <1>7 DEF RelayInv

LEMMA LiveOffStep ==
    ASSUME StreamInv, RelayInv, LiveOff
    PROVE  RelayInv'
<1>1. /\ UNCHANGED <<feed, busSeq, started, startAt, delivered, current, client, drops, offAir>>
      /\ live' = FALSE /\ offs' \in 0..MaxOffs
  BY BoundsAssumption DEF LiveOff, RelayInv, BusOK
<1>2. /\ DOMAIN sessions' = DOMAIN sessions
      /\ \A j \in DOMAIN sessions : LET e == sessions[j]  d == sessions'[j] IN
           /\ d.chain = e.chain /\ d.busy = e.busy /\ d.note = e.note /\ d.store = e.store
           /\ d.pending = e.pending \/ (d.pending = NoPending /\ TextsOf(e.pending) \subseteq gone')
           /\ d.id = e.id /\ d.open = e.open /\ d.handoff = e.handoff /\ d.sink = e.sink
      /\ gone' = gone \/ (current # 0 /\ gone' = GoneWith(current))
  <2>1. CASE current = 0
    BY <2>1 DEF LiveOff
  <2>2. CASE current # 0
    <3>1. /\ sessions' = [sessions EXCEPT ![current].pending = NoPending]
          /\ gone' = gone \union TextsOf(sessions[current].pending) /\ gone' = GoneWith(current)
      BY <2>2 DEF LiveOff, GoneWith
    <3>2. current \in DOMAIN sessions
      BY <2>2, ListedSessions
    <3> QED  BY <2>2, <3>1, <3>2, ListedSessions DEF Fields
  <2> QED  BY <2>1, <2>2
<1>3. gone \subseteq gone' /\ gone' \subseteq Published
  <2>1. ASSUME current # 0 PROVE TextsOf(sessions[current].pending) \subseteq Published
    <3>1. current \in DOMAIN sessions
      BY <2>1, ListedSessions
    <3> QED  BY <3>1, PlacesPublished DEF RelayInv, Has, HasOf
  <2> QED  BY <1>2, <2>1 DEF GoneWith, RelayInv, BusOK
<1>4. BusOK'
  BY <1>1, <1>3 DEF RelayInv, BusOK, Published
<1>5. Buffered' = Buffered
  BY <1>1 DEF Buffered, Published
<1>6. Each' /\ Places'
  BY <1>1, <1>2, <1>3, <1>5, Drops
<1>7. Slots'
  <2>1. \A j \in DOMAIN sessions : Slot(j)
    BY DEF RelayInv, Slots
  <2> QED  BY <1>1, <1>2, <2>1 DEF Slots, Slot
<1>8. OwnLinks'
  <2> SUFFICES ASSUME NEW c \in Clients, client[c].link # 0 PROVE sessions'[client[c].link].id = c
    BY <1>1 DEF OwnLinks
  <2>1. client[c].link \in DOMAIN sessions
    BY ListedSessions DEF StreamInv, ClientsOK
  <2> QED  BY <1>2, <2>1 DEF RelayInv, OwnLinks
<1>9. Served'
  BY <1>1 DEF Served
<1> QED  BY <1>4, <1>6, <1>7, <1>8, <1>9 DEF RelayInv

\* What is left when the slot lets its session go, if it has one.
Left(ss) ==
    /\ ss = [j \in DOMAIN sessions |-> ss[j]]
    /\ \A j \in DOMAIN sessions : LET e == sessions[j]  d == ss[j] IN
         /\ d.chain = e.chain /\ d.busy = e.busy /\ d.note = e.note /\ d.store = e.store
         /\ d.pending = e.pending \/ (d.pending = NoPending /\ TextsOf(e.pending) \subseteq gone')
         /\ d.id = e.id /\ d.open = FALSE /\ ~d.sink
         /\ d.chain # <<>> => d.handoff

LEMMA LeftClosed ==
    ASSUME StreamInv, RelayInv, current # 0, gone' = GoneWith(current)
    PROVE  Left(Closed(current)) /\ gone \subseteq gone' /\ gone' \subseteq Published
<1>0. current \in DOMAIN sessions
  BY ListedSessions
<1> DEFINE i == current
           e == sessions[i]
           d == Closed(i)[i]
<1>1. /\ Closed(i) = [j \in DOMAIN sessions |-> Closed(i)[j]]
      /\ \A j \in DOMAIN sessions : j # i => Closed(i)[j] = sessions[j]
  BY ListedSessions, ClosedIs, <1>0
<1>2. /\ d.chain = e.chain /\ d.busy = e.busy /\ d.note = e.note /\ d.store = e.store
      /\ d.pending = NoPending /\ d.id = e.id /\ d.open = FALSE /\ ~d.sink
      /\ d.handoff = (e.chain # <<>>)
  <2>1. d = [e EXCEPT !.open = FALSE, !.sink = FALSE, !.pending = NoPending,
                      !.known = FALSE, !.handoff = e.chain # <<>>]
    BY <1>0 DEF Closed
  <2>2. DOMAIN e = Fields
    BY <1>0, ListedSessions
  <2> HIDE DEF d, e
  <2> QED  BY <2>1, <2>2 DEF Fields
<1>3. \A j \in DOMAIN sessions : Slot(j)
  BY DEF RelayInv, Slots
<1>4. TextsOf(e.pending) \subseteq gone' /\ gone \subseteq gone'
  BY DEF GoneWith
<1>5. ASSUME NEW j \in DOMAIN sessions
      PROVE  LET x == sessions[j]  y == Closed(i)[j] IN
         /\ y.chain = x.chain /\ y.busy = x.busy /\ y.note = x.note /\ y.store = x.store
         /\ y.pending = x.pending \/ (y.pending = NoPending /\ TextsOf(x.pending) \subseteq gone')
         /\ y.id = x.id /\ y.open = FALSE /\ ~y.sink
         /\ y.chain # <<>> => y.handoff
  <2>1. CASE j = i
    BY <1>2, <1>4, <2>1
  <2>2. CASE j # i
    <3>1. Closed(i)[j] = sessions[j]
      BY <1>1, <2>2
    <3> QED  BY <1>3, <2>2, <3>1 DEF Slot
  <2> QED  BY <2>1, <2>2
<1>6. gone' \subseteq Published
  <2>1. TextsOf(e.pending) \subseteq Published
    BY <1>0, PlacesPublished DEF RelayInv, Has, HasOf
  <2> QED  BY <2>1 DEF GoneWith, RelayInv, BusOK
<1> QED  BY <1>1, <1>4, <1>5, <1>6 DEF Left

LEMMA LeftAlone ==
    ASSUME StreamInv, RelayInv, current = 0
    PROVE  Left(sessions)
<1>1. \A j \in DOMAIN sessions : Slot(j) /\ j # current
  BY ListedSessions DEF RelayInv, Slots
<1> QED  BY <1>1, ListedSessions DEF Left, Slot

\* No stream is attached afterwards, and the bus is as it was.
LEMMA LeaveStep ==
    ASSUME StreamInv, RelayInv, NEW ss, Left(ss), DOMAIN sessions \subseteq DOMAIN sessions',
           \A j \in DOMAIN sessions : sessions'[j] = ss[j],
           \A j \in DOMAIN sessions' : j \notin DOMAIN sessions =>
              /\ HasOf(sessions'[j]) = {} /\ Tidy(sessions'[j], feed, busSeq)
              /\ sessions'[j].sink = FALSE /\ Slot(j)',
           current' \notin DOMAIN sessions,
           UNCHANGED <<feed, busSeq, started, live, startAt, delivered, client, drops, offs, offAir>>,
           gone \subseteq gone', gone' \subseteq Published, ~Attached'
    PROVE  RelayInv'
<1>1. BusOK'
  BY DEF RelayInv, BusOK, Published
<1>2. Buffered' = Buffered
  BY DEF Buffered, Published
<1>3. Each' /\ Places'
  <2>1. live' => \A s \in offAir : s <= startAt'
    BY DEF RelayInv, Places, Hidden
  <2>2. \A j \in DOMAIN sessions : LET e == sessions[j]  d == sessions'[j] IN
              /\ d.chain = e.chain /\ d.busy = e.busy /\ d.note = e.note /\ d.store = e.store
              /\ d.pending = e.pending \/ (d.pending = NoPending /\ TextsOf(e.pending) \subseteq gone')
    <3> SUFFICES ASSUME NEW j \in DOMAIN sessions
                 PROVE  LET e == sessions[j]  d == sessions'[j] IN
              /\ d.chain = e.chain /\ d.busy = e.busy /\ d.note = e.note /\ d.store = e.store
              /\ d.pending = e.pending \/ (d.pending = NoPending /\ TextsOf(e.pending) \subseteq gone')
      OBVIOUS
    <3>1. sessions'[j] = ss[j]
      OBVIOUS
    <3> QED  BY <3>1 DEF Left
  <2>3. Buffered' \subseteq Buffered
    BY <1>2
  <2> QED  BY <2>1, <2>2, <2>3, Drops
<1>4. Slots'
  <2> SUFFICES ASSUME NEW j \in DOMAIN sessions' PROVE Slot(j)'
    BY DEF Slots
  <2>1. CASE j \in DOMAIN sessions
    <3>1. Slot(j) /\ j # current'
      BY <2>1 DEF RelayInv, Slots
    <3>2. /\ sessions'[j] = ss[j] /\ ss[j].id = sessions[j].id /\ ss[j].open = FALSE
          /\ ~ss[j].sink /\ (ss[j].chain # <<>> => ss[j].handoff)
      BY <2>1 DEF Left
    <3>3. sessions'[j].open = (j = current')
      BY <3>1, <3>2
    <3> QED  BY <3>1, <3>2, <3>3 DEF Slot
  <2>2. CASE j \notin DOMAIN sessions
    BY <2>2
  <2> QED  BY <2>1, <2>2
<1>5. OwnLinks'
  <2> SUFFICES ASSUME NEW c \in Clients, client[c].link # 0 PROVE sessions'[client[c].link].id = c
    BY DEF OwnLinks
  <2>1. client[c].link \in DOMAIN sessions
    BY ListedSessions DEF StreamInv, ClientsOK
  <2> QED  BY <2>1 DEF Left, RelayInv, OwnLinks
<1>6. Served'
  BY DEF Served
<1> QED  BY <1>1, <1>3, <1>4, <1>5, <1>6 DEF RelayInv

LEMMA CloseStep ==
    ASSUME StreamInv, RelayInv, CloseSession
    PROVE  RelayInv'
<1>1. /\ current # 0 /\ sessions' = Closed(current) /\ gone' = GoneWith(current) /\ current' = 0
      /\ UNCHANGED <<feed, busSeq, started, live, startAt, delivered, client, drops, offs, offAir>>
  BY DEF CloseSession
<1>2. Left(Closed(current)) /\ gone \subseteq gone' /\ gone' \subseteq Published
  BY <1>1, LeftClosed
<1>3. DOMAIN sessions' = DOMAIN sessions
  <2> DEFINE ss == Closed(current)
  <2>1. sessions' = ss /\ ss = [j \in DOMAIN sessions |-> ss[j]]
    BY <1>1, <1>2 DEF Left
  <2> HIDE DEF ss
  <2> QED  BY <2>1
<1>4. current' \notin DOMAIN sessions /\ ~Attached'
  BY <1>1, ListedSessions DEF Attached
<1> QED  BY <1>1, <1>2, <1>3, <1>4, LeaveStep

LEMMA NewIs ==
    ASSUME NEW c \in Clients
    PROVE  LET d == NewSession(c) IN
           /\ HasOf(d) = {} /\ Tidy(d, feed, busSeq)
           /\ d.id = c /\ d.open = TRUE /\ d.sink = FALSE /\ d.chain = <<>>
<1> DEFINE d == NewSession(c)
<1>1. /\ d.chain = <<>> /\ d.busy = FALSE /\ d.note = {} /\ d.pending = NoPending /\ d.store = <<>>
      /\ d.id = c /\ d.open = TRUE /\ d.sink = FALSE
  BY DEF NewSession
<1> HIDE DEF d
<1>2. /\ Elements(<<>>) = {} /\ NoneTwice(<<>>) /\ <<>> \in Seq(1..busSeq)
      /\ SeenIn(<<>>) = {} /\ StoreOK(<<>>, busSeq)
  BY NoList, EmptySeq DEF Elements, NoneTwice, SeenIn, StoreOK
<1>3. DOMAIN NoPending = {} /\ TextsOf(NoPending) = {}
  BY DEF NoPending, TextsOf
<1>4. ChainOf(d) = {} /\ NotedOf(d) = {} /\ TextsOf(d.pending) = {} /\ SeenIn(d.store) = {}
  BY <1>1, <1>2, <1>3 DEF ChainOf, NotedOf
<1>5. HasOf(d) = {} /\ Parted(d)
  BY <1>4 DEF HasOf, Parted
<1>6. Tidy(d, feed, busSeq)
  BY <1>1, <1>2, <1>3, <1>5 DEF Tidy, ChainOK, ReadOK, BuffersOK
<1> QED  BY <1>1, <1>5, <1>6 DEF d

LEMMA RequestRelay ==
    ASSUME StreamInv, RelayInv, NEW c \in Clients, Request(c)
    PROVE  RelayInv'
<1> DEFINE ss == IF current # 0 THEN Closed(current) ELSE sessions
           new == NewSession(c)
<1>0. PICK n \in Nat : n = Len(sessions) /\ DOMAIN sessions = 1..n
  BY ListedSessions
<1>1. /\ sessions' = Append(ss, new) /\ current' = n + 1
      /\ gone' = IF current # 0 THEN GoneWith(current) ELSE gone
      /\ UNCHANGED <<feed, busSeq, started, live, startAt, delivered, client, drops, offs, offAir>>
  BY <1>0 DEF Request
<1>2. Left(ss) /\ gone \subseteq gone' /\ gone' \subseteq Published
  <2>1. CASE current # 0
    BY <1>1, <2>1, LeftClosed
  <2>2. CASE current = 0
    BY <1>1, <2>2, LeftAlone DEF RelayInv, BusOK
  <2> QED  BY <2>1, <2>2
<1> HIDE DEF ss
<1>3. /\ HasOf(new) = {} /\ Tidy(new, feed, busSeq)
      /\ new.id = c /\ new.open = TRUE /\ new.sink = FALSE /\ new.chain = <<>>
  BY NewIs
<1> HIDE DEF new
<1>4. /\ n \in Nat /\ DOMAIN sessions = 1..n
  BY <1>0
<1>5. /\ DOMAIN sessions' = 1..(n + 1) /\ sessions'[n + 1] = new
      /\ \A j \in 1..n : sessions'[j] = ss[j]
  <2>1. ss = [j \in 1..n |-> ss[j]]
    BY <1>2, <1>4 DEF Left
  <2>2. IsList(ss) /\ Len(ss) = n
    BY <1>4, <2>1, ListOf
  <2>3. /\ IsList(sessions') /\ Len(sessions') = n + 1 /\ sessions'[n + 1] = new
        /\ \A j \in 1..n : sessions'[j] = ss[j]
    BY <1>1, <2>2, ListAppend
  <2> QED  BY <2>3, ListLength
<1>6. \A j \in DOMAIN sessions' : j \notin DOMAIN sessions => j = n + 1 /\ sessions'[j] = new
  BY <1>4, <1>5
<1>7. ~Attached' /\ current' \notin DOMAIN sessions
  BY <1>1, <1>3, <1>4, <1>5 DEF Attached
<1>10. Slot(n + 1)'
  <2>1. sessions'[n + 1] = new /\ current' = n + 1
    BY <1>1, <1>5
  <2>2. new.open = (n + 1 = current')
    BY <1>3, <2>1
  <2> QED  BY <1>3, <2>1, <2>2 DEF Slot
<1>11. \A j \in DOMAIN sessions' : j \notin DOMAIN sessions =>
          /\ HasOf(sessions'[j]) = {} /\ Tidy(sessions'[j], feed, busSeq)
          /\ sessions'[j].sink = FALSE /\ Slot(j)'
  <2> SUFFICES ASSUME NEW j \in DOMAIN sessions', j \notin DOMAIN sessions
               PROVE  /\ HasOf(sessions'[j]) = {} /\ Tidy(sessions'[j], feed, busSeq)
                      /\ sessions'[j].sink = FALSE /\ Slot(j)'
    OBVIOUS
  <2>1. j = n + 1 /\ sessions'[j] = new
    BY <1>6
  <2> QED  BY <1>3, <1>10, <2>1
<1>8. \A j \in DOMAIN sessions : sessions'[j] = ss[j]
  BY <1>4, <1>5
<1>9. DOMAIN sessions \subseteq DOMAIN sessions'
  BY <1>4, <1>5
<1> QED  BY <1>1, <1>2, <1>7, <1>8, <1>9, <1>11, LeaveStep

\* The sessions a replay starts from: only the slot's stream and handoffs of
\* sessions with an empty chain may be new.
Aside(ss) ==
    /\ ss = [j \in DOMAIN sessions |-> ss[j]]
    /\ \A j \in DOMAIN sessions : LET e == sessions[j]  d == ss[j] IN
         /\ DOMAIN d = Fields /\ d.chain = e.chain /\ d.busy = e.busy /\ d.note = e.note
         /\ d.pending = e.pending /\ d.store = e.store /\ d.id = e.id /\ d.open = e.open
         /\ e.chain # <<>> => d.handoff = e.handoff
         /\ j # current => d.sink = e.sink

\* With live events on, everything the bus still has is delivered by a replay.
LEMMA ReplayLedger ==
    ASSUME BusOK, delivered' = LedgerAfter(delivered, Missed)
    PROVE  /\ delivered' \subseteq delivered \union Elements(Missed)
           /\ delivered' \subseteq Published /\ Buffered \subseteq delivered'
           /\ ChainOK(Missed, busSeq) /\ Elements(Missed) = Buffered \ delivered
<1>1. busSeq \in Nat /\ delivered \subseteq 1..busSeq /\ startAt \in -1..busSeq
  BY FeedType DEF BusOK, Published
<1>2. ChainOK(Missed, busSeq) /\ Elements(Missed) = Buffered \ delivered
  BY <1>1, MissedIs
<1>3. 1..busSeq \subseteq 0..busSeq /\ delivered \subseteq Nat
  BY <1>1
<1>4. Missed \in Seq(0..busSeq)
  BY <1>2, <1>3, SeqMonotonic DEF ChainOK
<1>5. /\ delivered' \subseteq delivered \union Elements(Missed)
      /\ \A x \in delivered \union Elements(Missed) : x \in delivered' \/ x <= busSeq - PendingMax
  BY <1>1, <1>3, <1>4, LedgerIs
<1>6. Buffered \subseteq delivered'
  <2> SUFFICES ASSUME NEW x \in Buffered PROVE x \in delivered'
    OBVIOUS
  <2>1. x \in 1..busSeq /\ x > busSeq - BufferMax
    BY DEF Buffered, Published
  <2>2. ~(x <= busSeq - PendingMax)
    BY <1>1, <2>1, BoundsAssumption
  <2> QED  BY <1>2, <1>5, <2>2
<1>7. delivered' \subseteq Published
  BY <1>1, <1>2, <1>5 DEF Buffered, Published
<1> QED  BY <1>2, <1>5, <1>6, <1>7

\* What was missed goes to the slot's session.
LEMMA ReplayPlaces ==
    ASSUME RelayInv, live, current \in DOMAIN sessions,
           NEW ss, Aside(ss), DOMAIN sessions' = DOMAIN sessions,
           \A j \in DOMAIN sessions : j # current => sessions'[j] = ss[j],
           NEW d, d = sessions'[current], d.chain = ss[current].chain \o Missed,
           d.busy = ss[current].busy, d.note = ss[current].note,
           d.pending = ss[current].pending, d.store = ss[current].store,
           delivered' = LedgerAfter(delivered, Missed),
           UNCHANGED <<feed, busSeq, live, startAt, offAir, gone>>
    PROVE  Each' /\ Places' /\ Buffered' \subseteq delivered'
<1>0. BusOK /\ Each /\ Places
  BY DEF RelayInv
<1> DEFINE N == Elements(Missed)
           e == sessions[current]
<1>1. /\ delivered' \subseteq delivered \union N /\ Buffered \subseteq delivered'
      /\ ChainOK(Missed, busSeq) /\ N = Buffered \ delivered
  BY <1>0, ReplayLedger
<1> HIDE DEF N
<1>2. Buffered' = Buffered
  BY DEF Buffered, Published
<1>3. /\ \A s \in N : Nowhere(s)
      /\ N \cap offAir' = {}
  <2>1. \A s \in N : Nowhere(s)
    BY <1>0, <1>1 DEF Places, Fresh
  <2>2. \A s \in N : s > startAt /\ s \in 1..busSeq
    BY <1>1 DEF Buffered, Published
  <2>3. \A s \in offAir : s <= startAt
    BY <1>0 DEF Places, Hidden
  <2>4. busSeq \in Nat /\ startAt \in -1..busSeq
    BY <1>0, FeedType DEF BusOK
  <2>5. \A s \in N : ~(s <= startAt)
    BY <2>2, <2>4
  <2> QED  BY <2>1, <2>3, <2>5
<1>4. Tidy(e, feed, busSeq) /\ HasOf(e) = Has(current) /\ N \cap HasOf(e) = {}
  BY <1>0, <1>3 DEF Each, Has, Nowhere
<1>5. /\ d.chain = e.chain \o Missed /\ d.busy = e.busy /\ d.note = e.note
      /\ d.pending = e.pending /\ d.store = e.store
  BY DEF Aside
<1> HIDE DEF e
<1>6. Tidy(d, feed, busSeq) /\ HasOf(d) = HasOf(e) \union N
  <2>1. Elements(Missed) \cap HasOf(e) = {}
    BY <1>4 DEF N
  <2>2. ChainOK(Missed, busSeq) /\ Tidy(e, feed, busSeq)
    BY <1>1, <1>4
  <2>3. Tidy(d, feed, busSeq) /\ HasOf(d) = HasOf(e) \union Elements(Missed)
    BY <1>5, <2>1, <2>2, JoinTidy
  <2> QED  BY <2>3 DEF N
<1>7. ASSUME NEW j \in DOMAIN sessions, j # current
      PROVE  Tidy(sessions'[j], feed, busSeq) /\ HasOf(sessions'[j]) = Has(j)
  <2> DEFINE x == sessions[j]
             y == sessions'[j]
  <2>1. Tidy(x, feed, busSeq) /\ HasOf(x) = Has(j)
    BY <1>0 DEF Each, Has
  <2>2. y = ss[j]
    BY <1>7
  <2>3. /\ y.chain = x.chain /\ y.busy = x.busy /\ y.note = x.note /\ y.store = x.store
        /\ y.pending = x.pending
    BY <2>2 DEF Aside
  <2> HIDE DEF x, y
  <2>4. y.pending \in {x.pending, NoPending}
    BY <2>3
  <2>5. Tidy(y, feed, busSeq) /\ HasOf(y) = HasOf(x)
    BY <2>1, <2>3, <2>4, DropTidy
  <2> QED  BY <2>1, <2>5 DEF x, y
<1>8. Each'
  BY <1>6, <1>7 DEF Each
<1>9. Places'
  <2>1. \A j \in DOMAIN sessions : HasOf(sessions'[j]) = Has(j) \union (IF j = current THEN N ELSE {})
    BY <1>4, <1>6, <1>7
  <2>2. \A j \in DOMAIN sessions : HasOf(sessions'[j]) \subseteq Has(j) \union (IF j = current THEN N ELSE {})
    BY <2>1
  <2>3. \A j \in DOMAIN sessions' : j \notin DOMAIN sessions => HasOf(sessions'[j]) = {}
    OBVIOUS
  <2>4. N \subseteq HasOf(sessions'[current])
    BY <1>6
  <2>5. \A j \in DOMAIN sessions : \A s \in Has(j) :
           s \in HasOf(sessions'[j]) \/ s \notin delivered' \/ ~Speaks(s) \/ s \in gone'
    BY <2>1
  <2>6. \A s \in Buffered' : s \in delivered' \/ (\A j \in DOMAIN sessions' : s \notin HasOf(sessions'[j]))
    BY <1>1, <1>2
  <2>7. \A s \in offAir' : (s \in offAir \/ Nowhere(s)) /\ (live' => s <= startAt')
    BY <1>0 DEF Places, Hidden
  <2>8. DOMAIN sessions \subseteq DOMAIN sessions' /\ UNCHANGED feed /\ gone \subseteq gone'
    OBVIOUS
  <2> QED  BY <1>0, <1>1, <1>3, <2>2, <2>3, <2>4, <2>5, <2>6, <2>7, <2>8, Moves
<1> QED  BY <1>1, <1>2, <1>8, <1>9

LEMMA ReplayStep ==
    ASSUME StreamInv, RelayInv, current # 0, NEW ss, Aside(ss), ReplayMissed(current, ss),
           UNCHANGED <<feed, busSeq, started, live, startAt, current, drops, offs, offAir, gone>>,
           \A c \in Clients :
              \/ client'[c].link = client[c].link
              \/ client'[c].link = current /\ sessions[current].id = c
    PROVE  RelayInv'
<1> DEFINE i == current
<1>0. i \in DOMAIN sessions /\ BusOK
  BY ListedSessions DEF RelayInv
<1>1. /\ DOMAIN sessions' = DOMAIN sessions
      /\ \A j \in DOMAIN sessions : j # i => sessions'[j] = ss[j]
      /\ LET d == sessions'[i]  e == ss[i] IN
         /\ d.busy = e.busy /\ d.note = e.note /\ d.pending = e.pending /\ d.store = e.store
         /\ d.id = e.id /\ d.open = e.open /\ d.sink = e.sink /\ d.handoff = e.handoff
         /\ d.chain = IF live THEN e.chain \o Missed ELSE e.chain
  <2>1. ss = [j \in DOMAIN sessions |-> ss[j]] /\ DOMAIN ss[i] = Fields
    BY <1>0 DEF Aside
  <2>2. sessions' = IF live THEN [ss EXCEPT ![i].chain = @ \o Missed] ELSE ss
    BY DEF ReplayMissed
  <2> DEFINE q == ss[i].chain \o Missed
  <2>3. sessions' = IF live THEN [ss EXCEPT ![i].chain = q] ELSE ss
    BY <2>2
  <2> HIDE DEF q
  <2>4. /\ DOMAIN sessions' = DOMAIN sessions
        /\ \A j \in DOMAIN sessions : j # i => sessions'[j] = ss[j]
        /\ LET d == sessions'[i]  e == ss[i] IN
           /\ d.busy = e.busy /\ d.note = e.note /\ d.pending = e.pending /\ d.store = e.store
           /\ d.id = e.id /\ d.open = e.open /\ d.sink = e.sink /\ d.handoff = e.handoff
           /\ d.chain = IF live THEN q ELSE e.chain
    BY <1>0, <2>1, <2>3 DEF Fields
  <2> QED  BY <2>4 DEF q
<1>2. Slots'
  <2> SUFFICES ASSUME NEW j \in DOMAIN sessions PROVE Slot(j)'
    BY <1>1 DEF Slots
  <2>1. Slot(j)
    BY DEF RelayInv, Slots
  <2>2. CASE j = i
    <3>1. sessions'[i].id = sessions[i].id /\ sessions'[i].open = sessions[i].open
      BY <1>0, <1>1 DEF Aside
    <3> QED  BY <2>1, <2>2, <3>1 DEF Slot
  <2>3. CASE j # i
    <3>1. /\ sessions'[j] = ss[j] /\ ss[j].id = sessions[j].id /\ ss[j].open = sessions[j].open
          /\ ss[j].sink = sessions[j].sink /\ ss[j].chain = sessions[j].chain
          /\ sessions[j].chain # <<>> => ss[j].handoff = sessions[j].handoff
      BY <1>1, <2>3 DEF Aside
    <3> QED  BY <2>1, <3>1 DEF Slot
  <2> QED  BY <2>2, <2>3
<1>3. OwnLinks'
  <2>1. \A j \in DOMAIN sessions : sessions'[j].id = sessions[j].id
    <3>1. \A j \in DOMAIN sessions : ss[j].id = sessions[j].id
      BY DEF Aside
    <3> QED  BY <1>1, <3>1
  <2> SUFFICES ASSUME NEW c \in Clients, client'[c].link # 0 PROVE sessions'[client'[c].link].id = c
    BY DEF OwnLinks
  <2>2. client[c].link # 0 => client[c].link \in DOMAIN sessions /\ sessions[client[c].link].id = c
    BY ListedSessions DEF StreamInv, ClientsOK, RelayInv, OwnLinks
  <2> QED  BY <1>0, <2>1, <2>2
<1>4. CASE live
  <2>1. delivered' = LedgerAfter(delivered, Missed)
    BY <1>4 DEF ReplayMissed
  <2>2. delivered' \subseteq Published
    BY <1>0, <2>1, ReplayLedger
  <2>3. BusOK'
    BY <1>0, <2>2 DEF BusOK, Published
  <2>4. PICK d : /\ d = sessions'[i] /\ d.chain = ss[i].chain \o Missed /\ d.busy = ss[i].busy
                 /\ d.note = ss[i].note /\ d.pending = ss[i].pending /\ d.store = ss[i].store
    BY <1>1, <1>4
  <2>5. Each' /\ Places' /\ Buffered' \subseteq delivered'
    BY <1>0, <1>1, <1>4, <2>1, <2>4, ReplayPlaces
  <2>6. Served'
    BY <2>5 DEF Served
  <2> QED  BY <1>2, <1>3, <2>3, <2>5, <2>6 DEF RelayInv
<1>5. CASE ~live
  <2>1. delivered' = delivered /\ sessions' = ss
    BY <1>5 DEF ReplayMissed
  <2>2. BusOK'
    BY <1>0, <2>1 DEF BusOK, Published
  <2>3. Buffered' \subseteq Buffered
    BY DEF Buffered, Published
  <2>4. \A j \in DOMAIN sessions : LET e == sessions[j]  d == sessions'[j] IN
              /\ d.chain = e.chain /\ d.busy = e.busy /\ d.note = e.note /\ d.store = e.store
              /\ d.pending = e.pending \/ (d.pending = NoPending /\ TextsOf(e.pending) \subseteq gone')
    BY <2>1 DEF Aside
  <2>5. Each' /\ Places'
    BY <1>1, <1>5, <2>1, <2>3, <2>4, Drops
  <2>6. Served'
    BY <1>5 DEF Served
  <2> QED  BY <1>2, <1>3, <2>2, <2>5, <2>6 DEF RelayInv
<1> QED  BY <1>4, <1>5

LEMMA HandoffStep ==
    ASSUME StreamInv, RelayInv, NEW i \in DOMAIN sessions, Handoff(i)
    PROVE  RelayInv'
<1> DEFINE ss == [sessions EXCEPT ![i].handoff = FALSE]
<1>1. /\ sessions[i].chain = <<>>
      /\ IF Attached THEN ReplayMissed(current, ss) ELSE sessions' = ss /\ UNCHANGED delivered
      /\ UNCHANGED <<feed, busSeq, started, live, startAt, current, client, drops, offs, offAir, gone>>
  BY DEF Handoff
<1>2. /\ ss = [j \in DOMAIN sessions |-> ss[j]]
      /\ \A j \in DOMAIN sessions : LET e == sessions[j]  d == ss[j] IN
         /\ DOMAIN d = Fields /\ d.chain = e.chain /\ d.busy = e.busy /\ d.note = e.note
         /\ d.pending = e.pending /\ d.store = e.store /\ d.id = e.id /\ d.open = e.open
         /\ j # i => d.handoff = e.handoff
         /\ d.sink = e.sink
  BY ListedSessions DEF Fields
<1> HIDE DEF ss
<1>3. Aside(ss)
  BY <1>1, <1>2 DEF Aside
<1>4. CASE Attached
  BY <1>1, <1>3, <1>4, ReplayStep DEF Attached
<1>5. CASE ~Attached
  <2>1. sessions' = ss /\ delivered' = delivered
    BY <1>1, <1>5
  <2>2. BusOK'
    BY <1>1, <2>1 DEF RelayInv, BusOK, Published
  <2>3. /\ DOMAIN sessions' = DOMAIN sessions
        /\ \A j \in DOMAIN sessions : LET e == sessions[j]  d == sessions'[j] IN
              /\ d.chain = e.chain /\ d.busy = e.busy /\ d.note = e.note /\ d.store = e.store
              /\ d.pending = e.pending \/ (d.pending = NoPending /\ TextsOf(e.pending) \subseteq gone')
    BY <1>2, <2>1
  <2>4. Buffered' \subseteq Buffered /\ (live' => \A s \in offAir : s <= startAt')
    BY <1>1 DEF Buffered, Published, RelayInv, Places, Hidden
  <2>5. Each' /\ Places'
    BY <1>1, <2>1, <2>3, <2>4, Drops
  <2>6. Slots'
    <3> SUFFICES ASSUME NEW j \in DOMAIN sessions PROVE Slot(j)'
      BY <2>3 DEF Slots
    <3>1. Slot(j)
      BY DEF RelayInv, Slots
    <3>2. /\ sessions'[j].id = sessions[j].id /\ sessions'[j].open = sessions[j].open
          /\ sessions'[j].sink = sessions[j].sink /\ sessions'[j].chain = sessions[j].chain
          /\ sessions[j].chain # <<>> => sessions'[j].handoff = sessions[j].handoff
      BY <1>1, <1>2, <2>1
    <3> QED  BY <1>1, <3>1, <3>2 DEF Slot
  <2>7. OwnLinks'
    <3>1. \A c \in Clients : client[c].link # 0 =>
             client[c].link \in DOMAIN sessions /\ sessions[client[c].link].id = c
      BY ListedSessions DEF StreamInv, ClientsOK, RelayInv, OwnLinks
    <3> QED  BY <1>1, <1>2, <2>1, <3>1 DEF OwnLinks
  <2>8. Served'
    <3>1. ~Attached'
      <4>1. current # 0 => current \in DOMAIN sessions
        BY ListedSessions
      <4> QED  BY <1>1, <1>2, <1>5, <2>1, <4>1 DEF Attached
    <3> QED  BY <3>1 DEF Served
  <2> QED  BY <2>2, <2>5, <2>6, <2>7, <2>8 DEF RelayInv
<1> QED  BY <1>4, <1>5

LEMMA ConnectRelay ==
    ASSUME StreamInv, RelayInv, NEW c \in Clients, Connect(c)
    PROVE  RelayInv'
<1> DEFINE ss == [sessions EXCEPT ![current].sink = TRUE]
<1>1. /\ current # 0 /\ sessions[current].id = c /\ ReplayMissed(current, ss)
      /\ client' = [client EXCEPT ![c].link = current, ![c].wire = Resumed(current, client[c].last.n)]
      /\ UNCHANGED <<feed, busSeq, started, live, startAt, current, drops, offs, offAir, gone>>
  BY DEF Connect
<1>2. Aside(ss)
  BY ListedSessions DEF Fields, Aside
<1> HIDE DEF ss
<1>3. \A x \in Clients : \/ client'[x].link = client[x].link
                         \/ client'[x].link = current /\ sessions[current].id = x
  <2>1. /\ client = [x \in Clients |-> client[x]]
        /\ \A x \in Clients : DOMAIN client[x] = {"link", "last", "wire"}
    BY DEF StreamInv, ClientsOK
  <2>2. client'[c].link = current /\ \A x \in Clients : x # c => client'[x] = client[x]
    BY <1>1, <2>1
  <2> QED  BY <1>1, <2>2
<1> QED  BY <1>1, <1>2, <1>3, ReplayStep

\* An event is published: it goes to the session of the slot or nowhere.
LEMMA PublishStep ==
    ASSUME StreamInv, RelayInv, Publish
    PROVE  RelayInv'
<1>0. BusOK /\ Each /\ Places /\ Slots /\ OwnLinks
  BY DEF RelayInv
<1>1. PICK b \in Nat : b = busSeq /\ b + 1 <= Len(feed) /\ Len(feed) \in Nat
  BY <1>0, FeedType DEF Publish
<1> DEFINE s == b + 1
           On == current # 0 /\ started /\ live
           N == IF On THEN {s} ELSE {}
<1>2. /\ busSeq' = s /\ offAir' = (IF live THEN offAir ELSE offAir \union {s})
      /\ UNCHANGED <<feed, started, live, startAt, current, client, drops, offs, gone>>
      /\ On => /\ sessions' = [sessions EXCEPT ![current].chain = Append(@, s)]
               /\ delivered' = LedgerWith(delivered, s)
      /\ ~On => sessions' = sessions /\ delivered' = delivered
  BY <1>1 DEF Publish
<1>3. /\ delivered \subseteq 1..b /\ offAir \subseteq 1..b /\ gone \subseteq 1..b
      /\ startAt \in -1..b
  BY <1>0, <1>1 DEF BusOK, Published
<1>4. Nowhere(s) /\ s \notin 1..b /\ s \in Nat
  <2>1. \A j \in DOMAIN sessions : Has(j) \subseteq 1..b
    BY <1>0, <1>1, PlacesPublished DEF Published
  <2> QED  BY <2>1 DEF Nowhere
<1> HIDE DEF On
<1>5. /\ delivered' \subseteq delivered \union N /\ delivered' \subseteq 1..s
      /\ \A x \in delivered \union N : x \in delivered' \/ x <= s - PendingMax
  <2>1. CASE On
    <3>1. delivered \subseteq Nat /\ s \in 0..s /\ s \in 1..s
      BY <1>3
    <3>2. /\ delivered' \subseteq delivered \union {s}
          /\ \A x \in delivered \union {s} : x \in delivered' \/ x <= s - PendingMax
      BY <1>2, <2>1, <3>1, LedgerOne
    <3> QED  BY <1>3, <2>1, <3>1, <3>2
  <2>2. CASE ~On
    BY <1>2, <1>3, <2>2
  <2> QED  BY <2>1, <2>2
<1>6. BusOK'
  <2>1. Published' = 1..s /\ 1..b \subseteq 1..s /\ s \in 1..s
    BY <1>2 DEF Published
  <2>2. busSeq' \in 0..Len(feed') /\ startAt' \in -1..busSeq'
    BY <1>1, <1>2, <1>3
  <2> QED  BY <1>0, <1>2, <1>3, <1>5, <2>1, <2>2 DEF BusOK
<1>7. \A x \in Buffered' : x = s \/ x \in Buffered
  <2> SUFFICES ASSUME NEW x \in Buffered', x # s PROVE x \in Buffered
    OBVIOUS
  <2>1. x \in 1..s /\ x > s - BufferMax /\ x > startAt
    BY <1>2 DEF Buffered, Published
  <2>2. x \in 1..b /\ x > b - BufferMax
    BY <2>1, BoundsAssumption
  <2> QED  BY <1>1, <2>1, <2>2 DEF Buffered, Published
<1>8. \A x \in Buffered' : x \in delivered \union N => x \in delivered'
  <2> SUFFICES ASSUME NEW x \in Buffered', x \in delivered \union N PROVE x \in delivered'
    OBVIOUS
  <2>1. x \in Nat /\ x > s - BufferMax
    BY <1>2 DEF Buffered, Published
  <2>2. ~(x <= s - PendingMax)
    BY <2>1, BoundsAssumption
  <2> QED  BY <1>5, <2>2
<1>9. On => current \in DOMAIN sessions
  BY ListedSessions DEF On
<1>10. /\ DOMAIN sessions' = DOMAIN sessions
      /\ \A j \in DOMAIN sessions : LET e == sessions[j]  d == sessions'[j] IN
           /\ d.busy = e.busy /\ d.note = e.note /\ d.pending = e.pending /\ d.store = e.store
           /\ d.id = e.id /\ d.open = e.open /\ d.sink = e.sink /\ d.handoff = e.handoff
           /\ d.chain = IF On /\ j = current THEN Append(e.chain, s) ELSE e.chain
  <2>1. /\ sessions = [j \in DOMAIN sessions |-> sessions[j]]
        /\ \A j \in DOMAIN sessions : DOMAIN sessions[j] = Fields
    BY ListedSessions
  <2>2. CASE On
    <3> DEFINE q == Append(sessions[current].chain, s)
    <3>1. sessions' = [sessions EXCEPT ![current].chain = q] /\ current \in DOMAIN sessions
      BY <1>2, <1>9, <2>2
    <3> HIDE DEF q
    <3>2. /\ DOMAIN sessions' = DOMAIN sessions
          /\ \A j \in DOMAIN sessions : LET e == sessions[j]  d == sessions'[j] IN
               /\ d.busy = e.busy /\ d.note = e.note /\ d.pending = e.pending /\ d.store = e.store
               /\ d.id = e.id /\ d.open = e.open /\ d.sink = e.sink /\ d.handoff = e.handoff
               /\ d.chain = IF j = current THEN q ELSE e.chain
      BY <2>1, <3>1 DEF Fields
    <3> QED  BY <2>2, <3>2 DEF q
  <2>3. CASE ~On
    BY <1>2, <2>3
  <2> QED  BY <2>2, <2>3
<1>11. ASSUME NEW j \in DOMAIN sessions
       PROVE  /\ Tidy(sessions'[j], feed, s)
              /\ HasOf(sessions'[j]) = Has(j) \union (IF j = current THEN N ELSE {})
  <2> DEFINE e == sessions[j]
             d == sessions'[j]
  <2>1. Tidy(e, feed, b) /\ HasOf(e) = Has(j) /\ s \notin HasOf(e)
    BY <1>0, <1>1, <1>4 DEF Each, Has, Nowhere
  <2>2. /\ d.busy = e.busy /\ d.note = e.note /\ d.pending = e.pending /\ d.store = e.store
        /\ d.chain = IF On /\ j = current THEN Append(e.chain, s) ELSE e.chain
    BY <1>10
  <2> HIDE DEF e, d
  <2>3. Tidy(e, feed, s)
    BY <2>1, MoreTidy
  <2>4. CASE On /\ j = current
    <3> DEFINE q == <<s>>
    <3>1. q \in Seq(1..s) /\ s \in 1..s
      OBVIOUS
    <3>2. Elements(q) = {s} /\ NoneTwice(q)
      BY DEF Elements, NoneTwice
    <3>3. Append(e.chain, s) = e.chain \o q
      <4>1. e.chain \in Seq(1..s)
        BY <2>3 DEF Tidy, ChainOK
      <4> QED  BY <3>1, <4>1, AppendIsConcat
    <3> HIDE DEF q
    <3>4. ChainOK(q, s) /\ Elements(q) \cap HasOf(e) = {} /\ d.chain = e.chain \o q
      BY <2>1, <2>2, <2>4, <3>1, <3>2, <3>3 DEF ChainOK
    <3>5. Tidy(d, feed, s) /\ HasOf(d) = HasOf(e) \union Elements(q)
      BY <2>2, <2>3, <3>4, JoinTidy
    <3> QED  BY <2>1, <2>4, <3>2, <3>5 DEF d
  <2>5. CASE ~(On /\ j = current)
    <3>1. d.chain = e.chain /\ d.pending \in {e.pending, NoPending}
      BY <2>2, <2>5
    <3>2. Tidy(d, feed, s) /\ HasOf(d) = HasOf(e)
      BY <2>2, <2>3, <3>1, DropTidy
    <3>3. (IF j = current THEN N ELSE {}) = {}
      BY <2>5
    <3> QED  BY <2>1, <3>2, <3>3 DEF d
  <2> QED  BY <2>4, <2>5
<1>12. Each'
  BY <1>2, <1>10, <1>11 DEF Each
<1>13. Places'
  <2>1. current \in DOMAIN sessions \/ N = {}
    BY <1>9
  <2>2. \A j \in DOMAIN sessions : HasOf(sessions'[j]) \subseteq Has(j) \union (IF j = current THEN N ELSE {})
    BY <1>11
  <2>3. \A j \in DOMAIN sessions' : j \notin DOMAIN sessions => HasOf(sessions'[j]) = {}
    BY <1>10
  <2>4. current \in DOMAIN sessions => N \subseteq HasOf(sessions'[current])
    BY <1>11
  <2>5. (\A x \in N : Nowhere(x)) /\ N \cap offAir' = {}
    BY <1>2, <1>3, <1>4 DEF On
  <2>6. \A j \in DOMAIN sessions : \A x \in Has(j) :
           x \in HasOf(sessions'[j]) \/ x \notin delivered' \/ ~Speaks(x) \/ x \in gone'
    BY <1>11
  <2>7. \A x \in Buffered' : x \in delivered' \/ (\A j \in DOMAIN sessions' : x \notin HasOf(sessions'[j]))
    <3> SUFFICES ASSUME NEW x \in Buffered', x \notin delivered', NEW j \in DOMAIN sessions
                 PROVE  x \notin HasOf(sessions'[j])
      BY <1>10
    <3>1. x \notin N /\ x \notin delivered
      BY <1>8
    <3>2. Nowhere(x)
      BY <1>0, <1>4, <1>7, <3>1 DEF Places, Fresh
    <3> QED  BY <1>11, <3>1, <3>2 DEF Nowhere
  <2>8. \A x \in offAir' : (x \in offAir \/ Nowhere(x)) /\ (live' => x <= startAt')
    BY <1>0, <1>2, <1>4 DEF Places, Hidden
  <2>9. DOMAIN sessions \subseteq DOMAIN sessions' /\ UNCHANGED feed /\ gone \subseteq gone'
    BY <1>2, <1>10
  <2> HIDE DEF N, s
  <2> QED  BY <1>0, <1>5, <2>1, <2>2, <2>3, <2>4, <2>5, <2>6, <2>7, <2>8, <2>9, Moves
<1>14. Slots'
  <2> SUFFICES ASSUME NEW j \in DOMAIN sessions PROVE Slot(j)'
    BY <1>10 DEF Slots
  <2>1. Slot(j)
    BY <1>0 DEF Slots
  <2>2. j # current => sessions'[j].chain = sessions[j].chain
    BY <1>10
  <2> QED  BY <1>2, <1>10, <2>1, <2>2 DEF Slot
<1>15. OwnLinks'
  <2>1. \A c \in Clients : client[c].link # 0 =>
           client[c].link \in DOMAIN sessions /\ sessions[client[c].link].id = c
    BY <1>0, ListedSessions DEF StreamInv, ClientsOK, OwnLinks
  <2> QED  BY <1>2, <1>10, <2>1 DEF OwnLinks
<1>16. Served'
  <2> SUFFICES ASSUME started, live, Attached', NEW x \in Buffered', Event(x).kind # "foreign",
                      x \notin delivered'
               PROVE  \E j \in DOMAIN sessions : sessions'[j].handoff
    BY <1>2, <1>10 DEF Served, Event
  <2>1. Attached
    <3>1. current # 0 => current \in DOMAIN sessions
      BY ListedSessions
    <3> QED  BY <1>2, <1>10, <3>1 DEF Attached
  <2>2. On
    BY <2>1 DEF On, Attached
  <2>3. x # s /\ x \in Buffered /\ x \notin delivered
    BY <1>7, <1>8, <2>2
  <2>4. \E j \in DOMAIN sessions : sessions[j].handoff
    BY <2>1, <2>3 DEF RelayInv, Served
  <2> QED  BY <1>10, <2>4
<1> QED  BY <1>6, <1>12, <1>13, <1>14, <1>15, <1>16 DEF RelayInv

LEMMA RelayInit == Init => RelayInv
<1> SUFFICES ASSUME Init PROVE RelayInv
  OBVIOUS
<1>1. /\ feed \in Feeds /\ live \in BOOLEAN /\ busSeq = 0 /\ started = FALSE /\ startAt = -1
      /\ delivered = {} /\ sessions = <<>> /\ current = 0 /\ drops = 0
      /\ offs = (IF live THEN 0 ELSE 1) /\ offAir = {} /\ gone = {}
      /\ \A c \in Clients : client[c].link = 0
  BY DEF Init
<1>2. DOMAIN sessions = {}
  BY <1>1, EmptySeq
<1>3. BusOK
  <2>1. Len(feed) \in Nat
    BY <1>1, FeedsAssumption, LenProperties
  <2>2. offs \in 0..MaxOffs /\ drops \in 0..MaxDrops
    <3>1. offs = 0 \/ offs = 1
      BY <1>1
    <3> QED  BY <1>1, <3>1, BoundsAssumption
  <2>3. busSeq \in 0..Len(feed) /\ startAt \in -1..busSeq
    BY <1>1, <2>1
  <2>4. started \in BOOLEAN /\ delivered \subseteq Published /\ offAir \subseteq Published
        /\ gone \subseteq Published
    BY <1>1
  <2> QED  BY <1>1, <2>2, <2>3, <2>4 DEF BusOK
<1>4. Slots /\ OwnLinks /\ Each
  BY <1>1, <1>2 DEF Slots, OwnLinks, Each
<1>5. Places
  <2>1. Alone /\ Hidden /\ Known
    BY <1>1, <1>2 DEF Alone, Hidden, Known
  <2>2. Fresh
    BY <1>2 DEF Fresh, Nowhere
  <2> QED  BY <2>1, <2>2 DEF Places
<1>6. Served
  BY <1>1 DEF Served
<1> QED  BY <1>3, <1>4, <1>5, <1>6 DEF RelayInv

LEMMA RelayStill ==
    ASSUME RelayInv, UNCHANGED vars
    PROVE  RelayInv'
<1>1. /\ BusOK' /\ Slots' /\ OwnLinks' /\ Served'
  BY DEF RelayInv, BusOK, Published, Slots, Slot, OwnLinks, Served, Attached, Buffered, Event, vars
<1>2. Each' /\ Places'
  BY DEF RelayInv, Each, Places, Alone, Fresh, Hidden, Known, Nowhere, Has, Buffered,
         Published, Speaks, Event, vars
<1> QED  BY <1>1, <1>2 DEF RelayInv

LEMMA RelayStep == StreamInv /\ RelayInv /\ [Next]_vars => RelayInv'
<1> SUFFICES ASSUME StreamInv, RelayInv, [Next]_vars PROVE RelayInv'
  OBVIOUS
<1>1. CASE Micro
  BY <1>1, WithholdStep, DeliverTextStep, DeliverPhotoStep, DeliverFileStep, HandoffStep DEF Micro
<1>2. CASE Publish
  BY <1>2, PublishStep
<1>3. CASE \E i \in DOMAIN sessions :
             \/ FileRead(i)
             \/ \E p \in DOMAIN sessions[i].pending : Fallback(i, p) \/ LateWindowEnds(i, p)
  BY <1>3, FileReadStep, FallbackStep, LateWindowStep
<1>4. CASE \E c \in Clients : Request(c) \/ Connect(c)
  BY <1>4, RequestRelay, ConnectRelay
<1>5. CASE \/ \E c \in Clients : Read(c) \/ LinkBreaks(c) \/ LinkEnds(c)
           \/ SinkCloses
  BY <1>5, StreamSteps
<1>6. CASE CloseSession
  BY <1>6, CloseStep
<1>7. CASE StartInbound \/ LiveOn
  BY <1>7, StartSteps
<1>8. CASE LiveOff
  BY <1>8, LiveOffStep
<1>9. CASE UNCHANGED vars
  BY <1>9, RelayStill
<1> QED  BY <1>1, <1>2, <1>3, <1>4, <1>5, <1>6, <1>7, <1>8, <1>9 DEF Next

\* The relay's invariant holds in every reachable state.
THEOREM RelayInvariant == Spec => []RelayInv
<1>1. Init => RelayInv
  BY RelayInit
<1>2. StreamInv /\ RelayInv /\ [Next]_vars => RelayInv'
  BY RelayStep
<1> QED  BY <1>1, <1>2, StreamInvariant, PTL DEF Spec

(***************************************************************************)
(* What follows from it.                                                   *)
(***************************************************************************)
LEMMA TypesHold == StreamInv /\ RelayInv => TypeOK
<1> SUFFICES ASSUME StreamInv, RelayInv PROVE TypeOK
  OBVIOUS
<1>1. /\ feed \in Feeds /\ busSeq \in 0..Len(feed)
      /\ started \in BOOLEAN /\ live \in BOOLEAN
      /\ startAt \in -1..busSeq /\ delivered \subseteq Published
      /\ offAir \subseteq Published /\ gone \subseteq Published
      /\ drops \in 0..MaxDrops /\ offs \in 0..MaxOffs
  BY DEF RelayInv, BusOK
<1>2. current \in 0..Len(sessions)
  BY ListedSessions
<1>3. ASSUME NEW i \in DOMAIN sessions
      PROVE  LET e == sessions[i] IN
       /\ e.id \in Clients /\ e.open = (i = current) /\ (e.sink => e.open)
       /\ Elements(e.chain) \subseteq Published
       /\ e.busy => e.chain # <<>> /\ Event(Head(e.chain)).kind = "saved"
       /\ \A p \in DOMAIN e.pending :
            Event(p).kind = "photo" /\ e.pending[p] \in BufferType
       /\ \A n \in DOMAIN e.store : e.store[n] \subseteq Published
  <2>1. Slot(i) /\ Tidy(sessions[i], feed, busSeq)
    BY DEF RelayInv, Slots, Each
  <2>2. Elements(sessions[i].chain) \subseteq Published
    BY <2>1, TidyIn DEF ChainOf, Published
  <2>3. /\ sessions[i].busy => /\ sessions[i].chain # <<>>
                               /\ Event(Head(sessions[i].chain)).kind = "saved"
        /\ \A n \in DOMAIN sessions[i].store : sessions[i].store[n] \subseteq Published
    BY <2>1 DEF Tidy, ReadOK, StoreOK, Event, Published
  <2>4. \A p \in DOMAIN sessions[i].pending :
            Event(p).kind = "photo" /\ sessions[i].pending[p] \in BufferType
    BY <2>1 DEF Tidy, BuffersOK, Event, Published, BufferType
  <2> QED  BY <2>1, <2>2, <2>3, <2>4 DEF Slot
<1>4. ASSUME NEW c \in Clients
      PROVE  LET k == client[c] IN
       /\ k.link \in 0..Len(sessions) /\ (k.link = 0 => k.wire = <<>>)
       /\ k.link # 0 => sessions[k.link].id = c
       /\ k.last.n \in Nat /\ k.last.inc \in 0..Len(sessions)
  BY DEF StreamInv, ClientsOK, KnowsLast, RelayInv, OwnLinks
<1> QED  BY <1>1, <1>2, <1>3, <1>4 DEF TypeOK

LEMMA FramedAtMostOnce == RelayInv => OncePerEvent
<1> SUFFICES ASSUME RelayInv, NEW s \in Published PROVE Cardinality(Frames(s)) <= 1
  BY DEF OncePerEvent
<1>1. ASSUME NEW x \in Frames(s)
      PROVE  \E i \in DOMAIN sessions : \E n \in DOMAIN sessions[i].store :
                x = <<i, n>> /\ s \in sessions[i].store[n]
  BY DEF Frames
<1>2. ASSUME NEW x \in Frames(s), NEW y \in Frames(s) PROVE x = y
  <2>1. PICK i \in DOMAIN sessions : \E n \in DOMAIN sessions[i].store :
           x = <<i, n>> /\ s \in sessions[i].store[n]
    BY <1>1
  <2>2. PICK m \in DOMAIN sessions[i].store : x = <<i, m>> /\ s \in sessions[i].store[m]
    BY <2>1
  <2>3. PICK j \in DOMAIN sessions : \E n \in DOMAIN sessions[j].store :
           y = <<j, n>> /\ s \in sessions[j].store[n]
    BY <1>1
  <2>4. PICK n \in DOMAIN sessions[j].store : y = <<j, n>> /\ s \in sessions[j].store[n]
    BY <2>3
  <2>5. s \in Has(i) /\ s \in Has(j)
    BY <2>2, <2>4 DEF Has, HasOf, SeenIn
  <2>6. i = j
    BY <2>5 DEF RelayInv, Places, Alone
  <2>7. m = n
    <3>1. StoreOK(sessions[i].store, busSeq)
      BY DEF RelayInv, Each, Tidy
    <3>2. s \in sessions[i].store[m] \cap sessions[i].store[n] /\ n \in DOMAIN sessions[i].store
      BY <2>2, <2>4, <2>6
    <3> QED  BY <3>1, <3>2 DEF StoreOK
  <2> QED  BY <2>2, <2>4, <2>6, <2>7
<1>3. CASE Frames(s) = {}
  BY <1>3, FS_EmptySet
<1>4. CASE Frames(s) # {}
  <2>1. PICK x : x \in Frames(s)
    BY <1>4
  <2>2. Frames(s) = {x}
    BY <1>2, <2>1
  <2>3. Cardinality({x}) = 1
    BY FS_Singleton
  <2>4. Cardinality(Frames(s)) = 1
    BY <2>2, <2>3
  <2> QED  BY <2>4
<1> QED  BY <1>3, <1>4

LEMMA WhereItIs ==
    ASSUME RelayInv, NEW s, ~Nowhere(s)
    PROVE  Framed(s) \/ Queued(s) \/ Buffering(s)
<1>1. PICK i \in DOMAIN sessions : s \in Has(i)
  BY DEF Nowhere
<1>2. CASE s \in ChainOf(sessions[i]) \/ s \in NotedOf(sessions[i])
  BY <1>2 DEF Queued, ChainOf, NotedOf
<1>3. CASE s \in TextsOf(sessions[i].pending)
  BY <1>3 DEF Buffering, TextsOf
<1>4. CASE s \in SeenIn(sessions[i].store)
  <2>1. PICK n \in DOMAIN sessions[i].store : s \in sessions[i].store[n]
    BY <1>4 DEF SeenIn
  <2>2. <<i, n>> \in Frames(s)
    BY <2>1 DEF Frames
  <2> QED  BY <2>2 DEF Framed
<1> QED  BY <1>1, <1>2, <1>3, <1>4 DEF Has, HasOf

\* Every session, client, buffer and frame is well formed in every reachable
\* state, and only the slot's session is open or has a stream.
THEOREM ChannelTypes == Spec => []TypeOK
  BY TypesHold, StreamInvariant, RelayInvariant, PTL

\* Replays, handoffs, resumed streams and the pruning of the ledger never put
\* the same text or file into two frames (relay.ts:68).
THEOREM FramedOnce == Spec => []OncePerEvent
  BY FramedAtMostOnce, RelayInvariant, PTL

\* What the ledger counts as delivered is framed, on its way, or the text of a
\* photo that went with its buffer (relay.ts:87, relay.ts:122).
THEOREM NothingUnaccounted == Spec => []Accounted
<1>1. RelayInv => Accounted
  BY WhereItIs DEF Accounted, RelayInv, Places, Known
<1> QED  BY <1>1, RelayInvariant, PTL

\* With a stream attached and no chain waiting, the bus holds nothing that is
\* left for a later reconnect (session-slot.ts:118).
THEOREM AttachedIsServed == Spec => []NothingStranded
<1>1. ASSUME RelayInv PROVE NothingStranded
  <2> SUFFICES ASSUME Quiet, started, live, Attached,
                      \A i \in DOMAIN sessions : sessions[i].chain = <<>>,
                      NEW s \in Buffered, Event(s).kind # "foreign"
               PROVE  s \in delivered
    BY DEF NothingStranded
  <2>1. \A i \in DOMAIN sessions : ~sessions[i].handoff
    BY DEF Quiet, Runnable
  <2> QED  BY <1>1, <2>1 DEF RelayInv, Served
<1> QED  BY <1>1, RelayInvariant, PTL

\* An event published while live events were off is never framed
\* (session-slot.ts:70).
THEOREM OffAirStaysUnheard == Spec => []OffAirUnheard
<1>1. ASSUME RelayInv PROVE OffAirUnheard
  <2> SUFFICES ASSUME NEW s \in offAir, NEW x \in Frames(s) PROVE FALSE
    BY DEF OffAirUnheard, Framed
  <2>1. PICK i \in DOMAIN sessions : \E n \in DOMAIN sessions[i].store : s \in sessions[i].store[n]
    BY DEF Frames
  <2>2. s \in Has(i)
    BY <2>1 DEF Has, HasOf, SeenIn
  <2> QED  BY <1>1, <2>2 DEF RelayInv, Places, Hidden, Nowhere
<1> QED  BY <1>1, RelayInvariant, PTL
=============================================================================
