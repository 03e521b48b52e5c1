---------------------------- MODULE InboundChannel ----------------------------
(* How an event of a chat reaches the agent's client: the event bus            *)
(* (packages/core/src/events.ts), the one session slot of the daemon           *)
(* (apps/daemon/src/mcp/session-slot.ts), its sessions, each with a relay      *)
(* chain (channels/relay.ts, channels/inbound.ts) and an event store, and the  *)
(* GET stream on which a client reads the frames (mcp/raw-get-stream.ts).      *)
(*                                                                             *)
(* The daemon is one event loop.  The steps of a chain that wait for no input  *)
(* or output run before anything else does (Quiet guards every other action),  *)
(* so a chain is seen half done only while it waits for the disk about a saved *)
(* attachment.  An event is                                                    *)
(*   text     a message, reaction or webhook: one frame at once                *)
(*   photo    a message whose attachments (parts of them) are still being      *)
(*            fetched: its text waits for the first of them, or for a timer    *)
(*   saved, failed    the outcome for one attachment of the photo `of`         *)
(*   foreign  an event of a line outside the agent's scope                     *)
(* Events are named by their bus number.  Left out: senders that are not       *)
(* allowed, copies of a message through a second account, answers to           *)
(* permission prompts (Approvals), call state, tool-list notices, responses    *)
(* on other streams, and the restart of the daemon, which forgets all of this. *)
EXTENDS Integers, Sequences, FiniteSets, Lists

CONSTANTS
  Clients,      \* agent processes, each with a session id of its own
  Feeds,        \* the sequences of events a behaviour may publish
  BufferMax,    \* events the bus keeps for a replay (BUS_BUFFER_MAX, 500)
  PendingMax,   \* numbers the ledger keeps before it prunes (PENDING_MAX, 2000)
  StoreMax,     \* frames a session keeps for a resumed stream (EVENT_STORE_MAX)
  MaxSessions, MaxDrops, MaxOffs   \* bounds on what happens in a behaviour

ASSUME BoundsAssumption ==
  /\ BufferMax \in Nat \ {0} /\ StoreMax \in Nat \ {0}
  /\ PendingMax \in Nat /\ PendingMax >= BufferMax
  /\ MaxSessions \in Nat \ {0} /\ MaxDrops \in Nat /\ MaxOffs \in Nat \ {0}

Kinds == {"text", "photo", "saved", "failed", "foreign"}
Events == [kind : Kinds, parts : Nat, of : Nat]

ASSUME FeedsAssumption ==
  /\ Feeds \subseteq Seq(Events)
  /\ \A f \in Feeds : \A s \in DOMAIN f :
       f[s].kind \in {"saved", "failed"} =>
         f[s].of \in 1..(s - 1) /\ f[f[s].of].kind = "photo"

VARIABLES
  feed,      \* the events of this behaviour, in the order they are published
  busSeq,    \* how many of them are published
  started,   \* startInbound has run
  live,      \* the slot's switch: live events on or off
  startAt,   \* ledger: nothing up to this number is replayed; -1 before it is set
  delivered, \* ledger: numbers queued or delivered, shared by all sessions
  sessions,  \* the sessions opened so far, the slot's last
  current,   \* the slot's session, 0 for none
  client,    \* what each client holds
  drops, offs,   \* broken connections, and times live events were off
  offAir,    \* history: numbers published while live events were off
  gone       \* history: photo texts dropped with a buffer that was thrown away

ledger == <<startAt, delivered>>
vars == <<feed, busSeq, started, live, startAt, delivered, sessions, current,
          client, drops, offs, offAir, gone>>

Published == 1..busSeq
Event(s) == feed[s]
(* bufferedSince: the ring still has it and the ledger's start is before it.   *)
Buffered == {s \in Published : s > busSeq - BufferMax /\ s > startAt}

NoPending == [p \in {} |-> {}]
NewSession(c) ==
  [id |-> c, open |-> TRUE, sink |-> FALSE, handoff |-> FALSE,
   chain |-> <<>>, busy |-> FALSE, note |-> {}, pending |-> NoPending,
   known |-> FALSE, store |-> <<>>]

Attached == current # 0 /\ sessions[current].sink
InScope(i, s) == live /\ sessions[i].sink /\ Event(s).kind # "foreign"

(* A macrotask runs only when no chain and no handoff can go on by itself.     *)
Runnable(i) == \/ sessions[i].chain # <<>> /\ ~sessions[i].busy
               \/ sessions[i].chain = <<>> /\ sessions[i].handoff
Quiet == \A i \in DOMAIN sessions : ~Runnable(i)

(* enqueue's ledger half: the number is added, and old numbers are pruned.     *)
Pruned(d, s) ==
  IF Cardinality(d) > PendingMax THEN {x \in d : x > s - PendingMax} ELSE d
LedgerWith(d, s) == IF s \in d THEN d ELSE Pruned(d \cup {s}, s)
(* The same for a list of numbers, one after the other.                        *)
LedgerAfter(d, q) ==
  LET after[k \in 0..Len(q)] == IF k = 0 THEN d ELSE LedgerWith(after[k - 1], q[k])
  IN  after[Len(q)]

Missed == Ordered(Buffered \ delivered)

(* replayMissed puts every buffered event the ledger lacks at the chain's end. *)
\* Mutant: the replay does not ask whether live events are on.
ReplayAnyway(i, ss) ==
  /\ sessions' = [ss EXCEPT ![i].chain = @ \o Missed]
  /\ delivered' = LedgerAfter(delivered, Missed)
ReplayMissed(i, ss) ==
  IF live
  THEN /\ sessions' = [ss EXCEPT ![i].chain = @ \o Missed]
       /\ delivered' = LedgerAfter(delivered, Missed)
  ELSE sessions' = ss /\ UNCHANGED delivered

(* A notification: stored in the session, then written if it has a stream, and *)
(* so seen by the client only if that is still listening.                      *)
FrameOf(i, items, ss) == [ss EXCEPT ![i].store = Append(@, items)]
Written(i, items) ==
  [c \in Clients |->
     IF sessions[i].sink /\ client[c].link = i
     THEN [client[c] EXCEPT !.wire =
             Append(@, [n |-> Len(sessions[i].store) + 1, items |-> items])]
     ELSE client[c]]

Init ==
  /\ feed \in Feeds /\ live \in BOOLEAN
  /\ busSeq = 0 /\ started = FALSE /\ startAt = -1 /\ delivered = {}
  /\ sessions = <<>> /\ current = 0
  /\ client = [c \in Clients |->
                 [link |-> 0, last |-> [inc |-> 0, n |-> 0], wire |-> <<>>]]
  /\ drops = 0 /\ offs = (IF live THEN 0 ELSE 1) /\ offAir = {} /\ gone = {}

(* publishEvent: the current session listens while inbound is started and live *)
(* events are on.                                                              *)
Publish ==
  /\ Quiet /\ busSeq < Len(feed)
  /\ busSeq' = busSeq + 1
  /\ offAir' = IF live THEN offAir ELSE offAir \cup {busSeq + 1}
  /\ IF current # 0 /\ started /\ live
     THEN /\ sessions' = [sessions EXCEPT ![current].chain = Append(@, busSeq + 1)]
          /\ delivered' = LedgerWith(delivered, busSeq + 1)
     ELSE UNCHANGED <<sessions, delivered>>
  /\ UNCHANGED <<feed, started, live, startAt, current, client, drops, offs, gone>>

(* ---- the chain of session i: one microtask for its head ---- *)

HeadOf(i) == Head(sessions[i].chain)
Next1(i, ss) == [ss EXCEPT ![i].chain = Tail(@)]
Ready(i) == i \in DOMAIN sessions /\ sessions[i].chain # <<>> /\ ~sessions[i].busy

(* deliver, without a stream or outside the scope: the ledger forgets it.      *)
\* Mutant: the ledger keeps what was withheld.
WithholdKeeps(i) ==
  /\ Ready(i) /\ ~InScope(i, HeadOf(i))
  /\ sessions' = Next1(i, sessions)
  /\ UNCHANGED <<feed, busSeq, started, live, startAt, delivered, current, client,
                 drops, offs, offAir, gone>>
Withhold(i) ==
  /\ Ready(i) /\ ~InScope(i, HeadOf(i))
  /\ delivered' = delivered \ {HeadOf(i)}
  /\ sessions' = Next1(i, sessions)
  /\ UNCHANGED <<feed, busSeq, started, live, startAt, current, client, drops,
                 offs, offAir, gone>>

DeliverText(i) ==
  /\ Ready(i) /\ InScope(i, HeadOf(i)) /\ Event(HeadOf(i)).kind = "text"
  /\ sessions' = FrameOf(i, {HeadOf(i)},
                   Next1(i, [sessions EXCEPT ![i].known = TRUE]))
  /\ client' = Written(i, {HeadOf(i)})
  /\ UNCHANGED <<feed, busSeq, started, live, startAt, delivered, current, drops,
                 offs, offAir, gone>>

(* bufferAttachments: the text waits in the session's memory.                  *)
WithBuffer(q, p) ==
  [x \in (DOMAIN q) \cup {p} |->
     IF x = p THEN [text |-> TRUE, saved |-> {}, late |-> FALSE] ELSE q[x]]
DeliverPhoto(i) ==
  LET p == HeadOf(i) IN
  /\ Ready(i) /\ InScope(i, p) /\ Event(p).kind = "photo"
  /\ sessions' = Next1(i, [sessions EXCEPT
       ![i].known = TRUE, ![i].pending = WithBuffer(@, p)])
  /\ UNCHANGED <<feed, busSeq, started, live, startAt, delivered, current, client,
                 drops, offs, offAir, gone>>

(* mediaCtxFor: the note of a file carries the text if nobody took it yet, and *)
(* the buffer goes with the last file; without a buffer the line must be known *)
(* to this session.                                                            *)
NoteFor(i, s) ==
  LET q == sessions[i].pending  p == Event(s).of
  IN  IF p \in DOMAIN q THEN {s} \cup (IF q[p].text THEN {p} ELSE {})
      ELSE IF sessions[i].known THEN {s} ELSE {}
\* Mutant: takeMediaCtx leaves the text in the buffer.
BufferKeepsText(q, s) ==
  LET p == Event(s).of
      had == [q[p] EXCEPT !.saved = @ \cup {s}]
  IN  IF p \notin DOMAIN q THEN q
      ELSE IF Cardinality(had.saved) >= Event(p).parts
      THEN [x \in (DOMAIN q) \ {p} |-> q[x]]
      ELSE [q EXCEPT ![p] = had]
BufferAfter(q, s) ==
  LET p == Event(s).of
      had == [q[p] EXCEPT !.text = FALSE, !.saved = @ \cup {s}]
  IN  IF p \notin DOMAIN q THEN q
      ELSE IF Cardinality(had.saved) >= Event(p).parts
      THEN [x \in (DOMAIN q) \ {p} |-> q[x]]
      ELSE [q EXCEPT ![p] = had]

(* routeAttachment.  A saved file is looked up on disk before its note goes    *)
(* out, and the chain waits; the failure note goes out at once.                *)
DeliverFile(i) ==
  LET s == HeadOf(i)  note == NoteFor(i, s)
      ss == [sessions EXCEPT ![i].pending = BufferAfter(@, s)]
  IN
  /\ Ready(i) /\ InScope(i, s) /\ Event(s).kind \in {"saved", "failed"}
  /\ \/ note = {} /\ sessions' = Next1(i, ss) /\ UNCHANGED client
     \/ /\ note # {} /\ Event(s).kind = "failed"
        /\ sessions' = FrameOf(i, note, Next1(i, ss))
        /\ client' = Written(i, note)
     \/ /\ note # {} /\ Event(s).kind = "saved"
        /\ sessions' = [ss EXCEPT ![i].busy = TRUE, ![i].note = note]
        /\ UNCHANGED client
  /\ UNCHANGED <<feed, busSeq, started, live, startAt, delivered, current, drops,
                 offs, offAir, gone>>

(* The disk answers.  A session that was closed meanwhile has no connection:   *)
(* notify throws, the ledger forgets the file, and the text it carried is gone. *)
FileRead(i) ==
  LET ss == Next1(i, [sessions EXCEPT ![i].busy = FALSE, ![i].note = {}]) IN
  /\ Quiet /\ i \in DOMAIN sessions /\ sessions[i].busy
  /\ IF sessions[i].open
     THEN /\ sessions' = FrameOf(i, sessions[i].note, ss)
          /\ client' = Written(i, sessions[i].note)
          /\ UNCHANGED <<delivered, gone>>
     ELSE /\ sessions' = ss
          /\ delivered' = delivered \ {HeadOf(i)}
          /\ gone' = gone \cup (sessions[i].note \ {HeadOf(i)})
          /\ UNCHANGED client
  /\ UNCHANGED <<feed, busSeq, started, live, startAt, current, drops, offs, offAir>>

(* onClosed's continuation: once the closed session's chain is idle, what it   *)
(* withheld is replayed to the session of the slot, if that has a stream.      *)
\* Mutant: a chain that goes idle replays nothing.
HandoffForgets(i) ==
  /\ i \in DOMAIN sessions /\ sessions[i].chain = <<>> /\ sessions[i].handoff
  /\ sessions' = [sessions EXCEPT ![i].handoff = FALSE]
  /\ UNCHANGED <<feed, busSeq, started, live, startAt, delivered, current, client,
                 drops, offs, offAir, gone>>
Handoff(i) ==
  /\ i \in DOMAIN sessions /\ sessions[i].chain = <<>> /\ sessions[i].handoff
  /\ LET ss == [sessions EXCEPT ![i].handoff = FALSE] IN
     IF Attached THEN ReplayMissed(current, ss)
     ELSE sessions' = ss /\ UNCHANGED delivered
  /\ UNCHANGED <<feed, busSeq, started, live, startAt, current, client, drops,
                 offs, offAir, gone>>

(* ---- timers of the attachment buffer ---- *)

(* flushPendingFallback: the text goes out alone, whether or not a stream is   *)
(* there; the buffer stays for files that come late.                           *)
\* Mutant: the timer is armed by the first file.
FallbackAfterFile(i, p) ==
  LET buf == sessions[i].pending[p] IN
  /\ Quiet /\ i \in DOMAIN sessions /\ sessions[i].open
  /\ p \in DOMAIN sessions[i].pending /\ ~buf.late /\ buf.saved # {}
  /\ sessions' = FrameOf(i, {}, [sessions EXCEPT
       ![i].pending[p] = [buf EXCEPT !.late = TRUE]])
  /\ client' = Written(i, {})
  /\ UNCHANGED <<feed, busSeq, started, live, startAt, delivered, current, drops,
                 offs, offAir, gone>>
Fallback(i, p) ==
  LET buf == sessions[i].pending[p]  note == IF buf.text THEN {p} ELSE {} IN
  /\ Quiet /\ i \in DOMAIN sessions /\ sessions[i].open
  /\ p \in DOMAIN sessions[i].pending /\ ~buf.late
  /\ sessions' = FrameOf(i, note, [sessions EXCEPT
       ![i].pending[p] = [buf EXCEPT !.text = FALSE, !.late = TRUE]])
  /\ client' = Written(i, note)
  /\ UNCHANGED <<feed, busSeq, started, live, startAt, delivered, current, drops,
                 offs, offAir, gone>>

LateWindowEnds(i, p) ==
  /\ Quiet /\ i \in DOMAIN sessions
  /\ p \in DOMAIN sessions[i].pending /\ sessions[i].pending[p].late
  /\ sessions' = [sessions EXCEPT
       ![i].pending = [x \in (DOMAIN @) \ {p} |-> @[x]]]
  /\ UNCHANGED <<feed, busSeq, started, live, startAt, delivered, current, client,
                 drops, offs, offAir, gone>>

(* ---- the slot ---- *)

TextsOf(q) == {p \in DOMAIN q : q[p].text}

(* McpSession.close.  Its buffers keep their timers, but notes have no         *)
(* connection to go out on any more, so their texts are counted as gone here.  *)
\* Mutant: close leaves the stream with the session.
ClosedKeepsStream(i) == [sessions EXCEPT
  ![i].open = FALSE, ![i].pending = NoPending, ![i].known = FALSE,
  ![i].handoff = sessions[i].chain # <<>>]
Closed(i) == [sessions EXCEPT
  ![i].open = FALSE, ![i].sink = FALSE, ![i].pending = NoPending,
  ![i].known = FALSE, ![i].handoff = sessions[i].chain # <<>>]
GoneWith(i) == gone \cup TextsOf(sessions[i].pending)

(* replace: initialize by a new client, or the adoption of an id the slot does *)
(* not hold.  A reopened id starts over with an empty store.                   *)
Request(c) ==
  /\ Quiet /\ started /\ Len(sessions) < MaxSessions
  /\ current # 0 => sessions[current].id # c
  /\ sessions' = Append(IF current # 0 THEN Closed(current) ELSE sessions, NewSession(c))
  /\ gone' = IF current # 0 THEN GoneWith(current) ELSE gone
  /\ current' = Len(sessions) + 1
  /\ UNCHANGED <<feed, busSeq, started, live, startAt, delivered, client, drops,
                 offs, offAir>>

(* The client ends its session, or the transport closes; a later request must  *)
(* still be within the bound.                                                  *)
CloseSession ==
  /\ Quiet /\ current # 0 /\ Len(sessions) < MaxSessions
  /\ sessions' = Closed(current) /\ gone' = GoneWith(current) /\ current' = 0
  /\ UNCHANGED <<feed, busSeq, started, live, startAt, delivered, client, drops,
                 offs, offAir>>

(* boot.ts calls it when the HTTP server listens, before the first connection  *)
(* can come; what the trains published until then is not delivered.            *)
StartInbound ==
  /\ Quiet /\ ~started
  /\ started' = TRUE
  /\ startAt' = busSeq
  /\ UNCHANGED <<feed, busSeq, live, delivered, sessions, current, client, drops,
                 offs, offAir, gone>>

(* setLive(false) also drops the texts that wait for an attachment.            *)
LiveOff ==
  /\ Quiet /\ started /\ live /\ offs < MaxOffs
  /\ live' = FALSE /\ offs' = offs + 1
  /\ IF current # 0
     THEN /\ sessions' = [sessions EXCEPT ![current].pending = NoPending]
          /\ gone' = GoneWith(current)
     ELSE UNCHANGED <<sessions, gone>>
  /\ UNCHANGED <<feed, busSeq, started, startAt, delivered, current, client, drops, offAir>>

LiveOn ==
  /\ Quiet /\ started /\ ~live
  /\ live' = TRUE
  /\ startAt' = busSeq
  /\ UNCHANGED <<feed, busSeq, started, delivered, sessions, current, client, drops,
                 offs, offAir, gone>>

(* ---- streams ---- *)

(* replayEventsAfter: what follows the client's last id, provided the store    *)
(* still has that id; the store does not know whose id it was.                 *)
\* Mutant: the last frame the client knows is sent again.
ResumedInclusive(i, n) ==
  LET st == sessions[i].store IN
  IF n \in 1..Len(st) /\ n > Len(st) - StoreMax
  THEN [k \in 1..(Len(st) - n + 1) |-> [n |-> n + k - 1, items |-> st[n + k - 1]]]
  ELSE <<>>
Resumed(i, n) ==
  LET st == sessions[i].store IN
  IF n \in 1..Len(st) /\ n > Len(st) - StoreMax
  THEN [k \in 1..(Len(st) - n) |-> [n |-> n + k, items |-> st[n + k]]]
  ELSE <<>>

(* serveGet: a GET of the slot's client; an older stream of the session is     *)
(* closed, the store is replayed, the stream attached, then what was missed.   *)
Connect(c) ==
  /\ Quiet /\ current # 0 /\ sessions[current].id = c /\ client[c].link = 0
  /\ client' = [client EXCEPT ![c].link = current,
                              ![c].wire = Resumed(current, client[c].last.n)]
  /\ ReplayMissed(current, [sessions EXCEPT ![current].sink = TRUE])
  /\ UNCHANGED <<feed, busSeq, started, live, startAt, current, drops, offs,
                 offAir, gone>>

Read(c) ==
  /\ Quiet /\ client[c].wire # <<>>
  /\ client' = [client EXCEPT
       ![c].last = [inc |-> client[c].link, n |-> Head(client[c].wire).n],
       ![c].wire = Tail(@)]
  /\ UNCHANGED <<feed, busSeq, started, live, startAt, delivered, sessions, current,
                 drops, offs, offAir, gone>>

Unlinked(c) == [client EXCEPT ![c].link = 0, ![c].wire = <<>>]

(* The connection breaks; the client sees it, the daemon not yet.              *)
LinkBreaks(c) ==
  /\ Quiet /\ client[c].link # 0 /\ sessions[client[c].link].sink
  /\ drops < MaxDrops /\ drops' = drops + 1
  /\ client' = Unlinked(c)
  /\ UNCHANGED <<feed, busSeq, started, live, startAt, delivered, sessions, current,
                 offs, offAir, gone>>

(* The client finds the stream ended by the daemon.                            *)
LinkEnds(c) ==
  /\ Quiet /\ client[c].link # 0 /\ ~sessions[client[c].link].sink
  /\ client' = Unlinked(c)
  /\ UNCHANGED <<feed, busSeq, started, live, startAt, delivered, sessions, current,
                 drops, offs, offAir, gone>>

(* closeStream: the daemon sees that the other end is gone.                    *)
SinkCloses ==
  /\ Quiet /\ Attached /\ \A c \in Clients : client[c].link # current
  /\ sessions' = [sessions EXCEPT ![current].sink = FALSE]
  /\ UNCHANGED <<feed, busSeq, started, live, startAt, delivered, current, client,
                 drops, offs, offAir, gone>>

Micro == \E i \in DOMAIN sessions :
  Withhold(i) \/ DeliverText(i) \/ DeliverPhoto(i) \/ DeliverFile(i) \/ Handoff(i)

Next ==
  \/ Micro \/ Publish
  \/ \E i \in DOMAIN sessions :
       \/ FileRead(i)
       \/ \E p \in DOMAIN sessions[i].pending : Fallback(i, p) \/ LateWindowEnds(i, p)
  \/ \E c \in Clients : Request(c) \/ Connect(c) \/ Read(c) \/ LinkBreaks(c) \/ LinkEnds(c)
  \/ CloseSession \/ StartInbound \/ LiveOff \/ LiveOn \/ SinkCloses

Spec == Init /\ [][Next]_vars

(* The loop runs what is ready, the disk answers, timers fire, the daemon      *)
(* starts its inbound side, and a client that is away comes back.              *)
Fairness ==
  /\ WF_vars(Micro) /\ WF_vars(StartInbound)
  /\ WF_vars(\E i \in DOMAIN sessions : FileRead(i))
  /\ WF_vars(\E i \in DOMAIN sessions :
               \E p \in DOMAIN sessions[i].pending : Fallback(i, p))
  /\ WF_vars(current = 0 /\ \E c \in Clients : Request(c))
  /\ WF_vars(\E c \in Clients : Connect(c))
  /\ WF_vars(\E c \in Clients : LinkEnds(c))

FairSpec == Spec /\ Fairness

(* ---- properties ---- *)

Frames(s) == UNION {{<<i, n>> : n \in {k \in DOMAIN sessions[i].store :
                                         s \in sessions[i].store[k]}} :
                    i \in DOMAIN sessions}
Framed(s) == Frames(s) # {}
Speaks(s) == Event(s).kind \in {"text", "photo"}
Queued(s) == \E i \in DOMAIN sessions :
  s \in Elements(sessions[i].chain) \/ s \in sessions[i].note
Buffering(s) == \E i \in DOMAIN sessions :
  s \in DOMAIN sessions[i].pending /\ sessions[i].pending[s].text

BufferType == [text : BOOLEAN, saved : SUBSET Published, late : BOOLEAN]

(* The state is well formed: at most the slot's session is open and only it    *)
(* has a stream, a chain waits only for a saved file at its head, and the      *)
(* ledger and every buffer name published events.                              *)
TypeOK ==
  /\ feed \in Feeds /\ busSeq \in 0..Len(feed)
  /\ started \in BOOLEAN /\ live \in BOOLEAN
  /\ startAt \in -1..busSeq /\ delivered \subseteq Published
  /\ current \in 0..Len(sessions)
  /\ \A i \in DOMAIN sessions : LET e == sessions[i] IN
       /\ e.id \in Clients /\ e.open = (i = current) /\ (e.sink => e.open)
       /\ Elements(e.chain) \subseteq Published
       /\ e.busy => e.chain # <<>> /\ Event(Head(e.chain)).kind = "saved"
       /\ \A p \in DOMAIN e.pending :
            Event(p).kind = "photo" /\ e.pending[p] \in BufferType
       /\ \A n \in DOMAIN e.store : e.store[n] \subseteq Published
  /\ \A c \in Clients : LET k == client[c] IN
       /\ k.link \in 0..Len(sessions) /\ (k.link = 0 => k.wire = <<>>)
       /\ k.link # 0 => sessions[k.link].id = c
       /\ k.last.n \in Nat /\ k.last.inc \in 0..Len(sessions)
  /\ offAir \subseteq Published /\ gone \subseteq Published
  /\ drops \in 0..MaxDrops /\ offs \in 0..MaxOffs

(* Replays, handoffs between sessions, resumed streams and the pruning of the  *)
(* ledger never put the same text or file into two frames, of the same session *)
(* or of two (relay.ts:68, session-handoff.test.ts "exactly once").            *)
OncePerEvent == \A s \in Published : Cardinality(Frames(s)) <= 1

(* What the ledger counts as delivered, so that no replay would bring it, is   *)
(* framed or still on its way in some chain or buffer; only the text of a      *)
(* message that waited for its attachments may have gone, with the buffer of   *)
(* a closed session or of the switch (relay.ts:87, relay.ts:122).              *)
Accounted == \A s \in delivered :
  Speaks(s) => Framed(s) \/ Queued(s) \/ Buffering(s) \/ s \in gone

(* While the slot's session has a stream and no chain is waiting, nothing the  *)
(* bus still holds for it is left for some later reconnect: attaching and the  *)
(* handoff of a closed session replay it all (session-slot.ts:118).            *)
NothingStranded ==
  Quiet /\ started /\ live /\ Attached
    /\ (\A i \in DOMAIN sessions : sessions[i].chain = <<>>) =>
  \A s \in Buffered : Event(s).kind # "foreign" => s \in delivered

(* An event published while live events were off is never framed, although the *)
(* bus still holds it when they are turned on and a stream attaches            *)
(* (session-slot.ts:70).                                                       *)
OffAirUnheard == \A s \in offAir : ~Framed(s)

Reads(c) ==
  /\ client[c].wire # <<>> /\ client'[c].wire = Tail(client[c].wire)
  /\ client'[c].link = client[c].link
(* A client that resumes a session reads its frames without a gap and without  *)
(* one twice, however often the connection broke and whatever was lost on the  *)
(* wire, unless the store has dropped the last frame it knew                   *)
(* (event-store.ts:74, raw-get-stream.ts:183).                                 *)
ResumesInStep == [][\A c \in Clients :
  LET was == client[c].last  now == client'[c].last IN
  Reads(c) /\ was.inc # 0 /\ now.inc = was.inc =>
    \/ now.n = was.n + 1
    \/ was.n <= Len(sessions[was.inc].store) - StoreMax /\ now.n > was.n]_vars

(* Every message published while live events are on is framed in the end,      *)
(* whatever sessions and streams came and went meanwhile, unless the ring      *)
(* dropped it, the switch was turned off, or its text was waiting in a buffer  *)
(* that was thrown away (relay.ts:49).                                         *)
Settled(s) ==
  s \in Published /\ Speaks(s) =>
    \/ Framed(s) \/ s \in gone \/ ~live
    \/ s <= startAt \/ s <= busSeq - BufferMax
EveryMessageSettles == []<>(\A s \in DOMAIN feed : Settled(s))
==============================================================================
