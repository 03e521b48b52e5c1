-------------------------- MODULE TrainSupervisor --------------------------
(***************************************************************************)
(* The daemon's train supervisor (apps/daemon/src/stations/supervisor.ts   *)
(* and supervisor-io.ts) for one chat network: it spawns the network's     *)
(* subprocess, restarts it when it dies or when its source changes, stops  *)
(* it with its last account, and passes calls to it and their answers back *)
(* (packages/core/src/protocol.ts).  Trains do not share state, so one     *)
(* name is enough.                                                         *)
(*                                                                         *)
(* JavaScript runs one callback at a time.  An action is one callback; the *)
(* continuations that wait for a process to exit all run before the next   *)
(* callback, in the order they were registered, so while "ready" holds     *)
(* some of them nothing else happens.                                      *)
(***************************************************************************)
EXTENDS Naturals, Sequences, FiniteSets

CONSTANTS
    States,     \* TrainState objects, numbered as startTrain creates them
    Procs,      \* processes, numbered as they are spawned
    Calls,      \* calls to the train
    MaxFails,   \* MAX_CONSECUTIVE_FAILS
    MaxReloads, \* bound: how many reloads and stops are asked for
    MaxRefused, \* bound: how often the system refuses to spawn
    None

ASSUME SupervisorAssumption ==
    /\ States \subseteq Nat /\ Procs \subseteq Nat
    /\ None \notin States \union Procs
    /\ MaxFails \in Nat \ {0} /\ {MaxReloads, MaxRefused} \subseteq Nat

VARIABLES
    file,        \* is the train's source file there?
    current,     \* the entry of the map "trains"
    made,        \* TrainState objects created so far
    proc,        \* TrainState.proc
    stopped,     \* TrainState.stopped
    fails,       \* TrainState.failCount
    timers,      \* restart timers that are running
    handle,      \* TrainState.restartTimer holds one of them
    resets,      \* 30 s timers that will look at the process
    reload,      \* reloadTimers has the name
    status,      \* external: what each process does
    owner,       \* the object a process was spawned for
    waiting,     \* the continuations that await the exit of a process
    ready,       \* continuations that run next
    call,        \* what became of each call
    sentTo,      \* the process a call was written to; it is in its object's "pending"
    shutdown,    \* stop() was called
    asked,       \* reloads and stops asked for
    refused,     \* spawns that failed
    crossed      \* a reload, a stop or the shutdown met an earlier one that still waited

objects == <<made, proc, stopped, fails, timers, handle, resets>>
processes == <<status, owner, waiting, refused>>
calls == <<call, sentTo>>
vars == <<file, current, objects, reload, processes, ready, calls, shutdown, asked, crossed>>

Alive == {p \in Procs : status[p] \in {"running", "dying"}}
Pending(o) == {c \in Calls : call[c] = "pending" /\ owner[sentTo[c]] = o}
Halting == \E p \in Procs : waiting[p] # <<>>
Idle == ready = <<>>
MayAsk == Idle /\ ~shutdown /\ asked < MaxReloads
Crossing == crossed' = (crossed \/ Halting)

(***************************************************************************)
(* Pieces of the handlers.                                                 *)
(***************************************************************************)
\* failAllPending
FailPending(o) ==
    /\ call' = [c \in Calls |-> IF c \in Pending(o) THEN "failed" ELSE call[c]]
    /\ UNCHANGED sentTo

\* scheduleRestart forgets a timer it set before.
Schedule(o, n) ==
    /\ timers' = [timers EXCEPT ![o] = n + 1]
    /\ handle' = [handle EXCEPT ![o] = TRUE]

\* spawn, with p0 in proc and n restart timers running: a new process takes the
\* place of whatever was there, or the spawn fails and a restart is scheduled.
Spawn(o, p0, n, h) ==
    \/ \E p \in Procs :
          /\ status[p] = "unborn" /\ \A q \in Procs : q < p => status[q] # "unborn"
          /\ status' = [status EXCEPT ![p] = "running"]
          /\ owner' = [owner EXCEPT ![p] = o]
          /\ proc' = [proc EXCEPT ![o] = p]
          /\ timers' = [timers EXCEPT ![o] = n]
          /\ handle' = [handle EXCEPT ![o] = h]
          /\ UNCHANGED <<waiting, refused>>
    \/ /\ refused < MaxRefused /\ refused' = refused + 1
       /\ Schedule(o, n)
       /\ proc' = [proc EXCEPT ![o] = p0]
       /\ UNCHANGED <<status, owner, waiting>>

\* Does killGracefully have something to wait for?
Killable(o) == proc[o] # None /\ proc[o] \in Alive

\* Mutant: the caller goes on while the process is still dying.
HaltThenAtOnce(o, rest) ==
    LET p == proc[o] IN
    /\ stopped' = [stopped EXCEPT ![o] = TRUE]
    /\ timers' = [timers EXCEPT ![o] = IF handle[o] THEN @ - 1 ELSE @]
    /\ handle' = [handle EXCEPT ![o] = FALSE]
    /\ FailPending(o)
    /\ IF Killable(o)
       THEN /\ status' = [status EXCEPT ![p] = "dying"]
            /\ ready' = <<[rest |-> rest, obj |-> o]>>
            /\ UNCHANGED <<owner, waiting, refused>>
       ELSE /\ ready' = <<[rest |-> rest, obj |-> o]>>
            /\ UNCHANGED processes
    /\ UNCHANGED <<made, proc, fails, resets>>

\* Mutant: the handle is dropped, and its timer not cleared.
HaltThenTimerLeft(o, rest) ==
    LET p == proc[o] IN
    /\ stopped' = [stopped EXCEPT ![o] = TRUE]
    /\ UNCHANGED timers
    /\ handle' = [handle EXCEPT ![o] = FALSE]
    /\ FailPending(o)
    /\ IF Killable(o)
       THEN /\ status' = [status EXCEPT ![p] = "dying"]
            /\ waiting' = [waiting EXCEPT ![p] = Append(@, [rest |-> rest, obj |-> o])]
            /\ UNCHANGED <<owner, ready, refused>>
       ELSE /\ ready' = <<[rest |-> rest, obj |-> o]>>
            /\ UNCHANGED processes
    /\ UNCHANGED <<made, proc, fails, resets>>

\* halt and the wait for the exit: the rest of the caller runs after it.
HaltThen(o, rest) ==
    LET p == proc[o] IN
    /\ stopped' = [stopped EXCEPT ![o] = TRUE]
    /\ timers' = [timers EXCEPT ![o] = IF handle[o] THEN @ - 1 ELSE @]
    /\ handle' = [handle EXCEPT ![o] = FALSE]
    /\ FailPending(o)
    /\ IF Killable(o)
       THEN /\ status' = [status EXCEPT ![p] = "dying"]
            /\ waiting' = [waiting EXCEPT ![p] = Append(@, [rest |-> rest, obj |-> o])]
            /\ UNCHANGED <<owner, ready, refused>>
       ELSE /\ ready' = <<[rest |-> rest, obj |-> o]>>
            /\ UNCHANGED processes
    /\ UNCHANGED <<made, proc, fails, resets>>

(***************************************************************************)
(* Reloads and stops.                                                      *)
(***************************************************************************)
\* requestReload, and the watcher's callback: the timer is set again.
RequestReload ==
    /\ MayAsk
    /\ file' = TRUE /\ reload' = TRUE /\ asked' = asked + 1
    /\ UNCHANGED <<current, objects, processes, ready, calls, shutdown, crossed>>

\* startTrain
StartTrain(o) ==
    /\ o \notin made /\ \A q \in States : q < o => q \in made
    /\ made' = made \union {o}
    /\ current' = o
    /\ Spawn(o, None, 0, FALSE)
    /\ UNCHANGED <<stopped, fails, resets, ready, calls>>

\* handleSourceChange
ReloadFires ==
    /\ Idle /\ reload
    /\ reload' = FALSE /\ Crossing
    /\ \/ /\ ~file
          /\ UNCHANGED <<current, objects, processes, ready, calls>>
       \/ /\ file /\ current # None
          /\ HaltThen(current, "restart")
          /\ UNCHANGED current
       \/ /\ file /\ current = None
          /\ \E o \in States : StartTrain(o)
    /\ UNCHANGED <<file, shutdown, asked>>

\* Mutant: the train stays stopped, so that nothing is spawned.
RestartRestIdle ==
    LET o == Head(ready).obj IN
    /\ ~Idle /\ Head(ready).rest = "restart"
    /\ ready' = Tail(ready)
    /\ fails' = [fails EXCEPT ![o] = 0]
    /\ proc' = [proc EXCEPT ![o] = None]
    /\ UNCHANGED <<file, current, made, stopped, timers, handle, resets, reload, processes, calls, shutdown, asked, crossed>>

\* The end of restart.
RestartRest ==
    LET o == Head(ready).obj IN
    /\ ~Idle /\ Head(ready).rest = "restart"
    /\ ready' = Tail(ready)
    /\ stopped' = [stopped EXCEPT ![o] = FALSE]
    /\ fails' = [fails EXCEPT ![o] = 0]
    /\ Spawn(o, None, timers[o], handle[o])
    /\ UNCHANGED <<file, current, made, resets, reload, calls, shutdown, asked, crossed>>

\* The last account is removed, its file goes, and stopTrain runs.
StopTrain ==
    /\ MayAsk
    /\ file' = FALSE /\ asked' = asked + 1 /\ Crossing
    /\ \/ /\ current = None
          /\ UNCHANGED <<objects, reload, processes, ready, calls>>
       \/ /\ current # None
          /\ reload' = FALSE
          /\ HaltThen(current, "stop")
    /\ UNCHANGED <<current, shutdown>>

\* The end of stopTrain.
StopRest ==
    /\ ~Idle /\ Head(ready).rest = "stop"
    /\ ready' = Tail(ready)
    /\ current' = None
    /\ UNCHANGED <<file, objects, reload, processes, calls, shutdown, asked, crossed>>

\* stop, at shutdown: no timer and no watcher is left, every train is halted.
Shutdown ==
    /\ Idle /\ ~shutdown
    /\ shutdown' = TRUE /\ reload' = FALSE /\ Crossing
    /\ \/ current = None /\ UNCHANGED <<objects, processes, ready, calls>>
       \/ current # None /\ HaltThen(current, "shutdown")
    /\ UNCHANGED <<file, current, asked>>

ShutdownRest ==
    /\ ~Idle /\ Head(ready).rest = "shutdown"
    /\ ready' = Tail(ready)
    /\ UNCHANGED <<file, current, objects, reload, processes, calls, shutdown, asked, crossed>>

(***************************************************************************)
(* Exits and restarts.                                                     *)
(***************************************************************************)
\* Mutant: one failure too many is allowed.
ExitOnceMore(p) ==
    LET o == owner[p] IN
    /\ Idle /\ p \in Alive
    /\ status' = [status EXCEPT ![p] = "exited"]
    /\ proc' = [proc EXCEPT ![o] = None]
    /\ FailPending(o)
    /\ fails' = IF stopped[o] THEN fails ELSE [fails EXCEPT ![o] = @ + 1]
    /\ IF ~stopped[o] /\ fails'[o] <= MaxFails THEN Schedule(o, timers[o])
       ELSE UNCHANGED <<timers, handle>>
    /\ ready' = waiting[p]
    /\ waiting' = [waiting EXCEPT ![p] = <<>>]
    /\ UNCHANGED <<file, current, made, stopped, resets, reload, owner, refused, shutdown, asked, crossed>>

\* Mutant: the calls of a process that exits are left to their timeout.
ExitSilent(p) ==
    LET o == owner[p] IN
    /\ Idle /\ p \in Alive
    /\ status' = [status EXCEPT ![p] = "exited"]
    /\ proc' = [proc EXCEPT ![o] = None]
    /\ UNCHANGED calls
    /\ fails' = IF stopped[o] THEN fails ELSE [fails EXCEPT ![o] = @ + 1]
    /\ IF ~stopped[o] /\ fails'[o] < MaxFails THEN Schedule(o, timers[o])
       ELSE UNCHANGED <<timers, handle>>
    /\ ready' = waiting[p]
    /\ waiting' = [waiting EXCEPT ![p] = <<>>]
    /\ UNCHANGED <<file, current, made, stopped, resets, reload, owner, refused, shutdown, asked, crossed>>

\* onExit, run for the object the process was spawned for; what waits for the
\* exit runs after it.
Exit(p) ==
    LET o == owner[p] IN
    /\ Idle /\ p \in Alive
    /\ status' = [status EXCEPT ![p] = "exited"]
    /\ proc' = [proc EXCEPT ![o] = None]
    /\ FailPending(o)
    /\ fails' = IF stopped[o] THEN fails ELSE [fails EXCEPT ![o] = @ + 1]
    /\ IF ~stopped[o] /\ fails'[o] < MaxFails THEN Schedule(o, timers[o])
       ELSE UNCHANGED <<timers, handle>>
    /\ ready' = waiting[p]
    /\ waiting' = [waiting EXCEPT ![p] = <<>>]
    /\ UNCHANGED <<file, current, made, stopped, resets, reload, owner, refused, shutdown, asked, crossed>>

\* A restart timer of scheduleRestart; spawn returns at once when stopped.
RestartTimer(o) ==
    /\ Idle /\ timers[o] > 0
    /\ \/ /\ stopped[o]
          /\ timers' = [timers EXCEPT ![o] = @ - 1]
          /\ handle' = [handle EXCEPT ![o] = FALSE]
          /\ UNCHANGED <<proc, processes>>
       \/ /\ ~stopped[o]
          /\ Spawn(o, proc[o], timers[o] - 1, FALSE)
    /\ resets' = [resets EXCEPT ![o] = @ + 1]
    /\ UNCHANGED <<file, current, made, stopped, fails, reload, ready, calls, shutdown, asked, crossed>>

\* 30 s after a scheduled restart: a process that is up clears the count.
ResetFails(o) ==
    /\ Idle /\ resets[o] > 0
    /\ resets' = [resets EXCEPT ![o] = @ - 1]
    /\ fails' = IF Killable(o) THEN [fails EXCEPT ![o] = 0] ELSE fails
    /\ UNCHANGED <<file, current, made, proc, stopped, timers, handle, reload, processes, ready, calls,
                   shutdown, asked, crossed>>

(***************************************************************************)
(* Calls.                                                                  *)
(***************************************************************************)
\* call and sendCall
Call(c) ==
    /\ Idle /\ call[c] = "new" /\ current # None /\ Killable(current)
    /\ \/ call' = [call EXCEPT ![c] = "pending"]
       \/ call' = [call EXCEPT ![c] = "failed"]     \* the write to stdin failed
    /\ sentTo' = [sentTo EXCEPT ![c] = proc[current]]
    /\ UNCHANGED <<file, current, objects, reload, processes, ready, shutdown, asked, crossed>>

\* handleLine, a response
Respond(c) ==
    /\ Idle /\ call[c] = "pending"
    /\ sentTo[c] \in Alive
    /\ call' = [call EXCEPT ![c] = "answered"]
    /\ UNCHANGED <<file, current, objects, reload, processes, ready, sentTo, shutdown, asked, crossed>>

\* CALL_TIMEOUT_MS is over.
Timeout(c) ==
    /\ Idle /\ call[c] = "pending"
    /\ call' = [call EXCEPT ![c] = "failed"]
    /\ UNCHANGED <<file, current, objects, reload, processes, ready, sentTo, shutdown, asked, crossed>>

(***************************************************************************)
(* The specification.                                                      *)
(***************************************************************************)
\* start() treats each train file there is like one that was just added.
Init ==
    /\ file \in BOOLEAN /\ current = None /\ made = {}
    /\ proc = [o \in States |-> None]
    /\ stopped = [o \in States |-> FALSE]
    /\ fails = [o \in States |-> 0]
    /\ timers = [o \in States |-> 0]
    /\ handle = [o \in States |-> FALSE]
    /\ resets = [o \in States |-> 0]
    /\ reload = file
    /\ status = [p \in Procs |-> "unborn"]
    /\ owner = [p \in Procs |-> None]
    /\ waiting = [p \in Procs |-> <<>>]
    /\ ready = <<>>
    /\ call = [c \in Calls |-> "new"]
    /\ sentTo = [c \in Calls |-> None]
    /\ shutdown = FALSE /\ asked = 0 /\ refused = 0 /\ crossed = FALSE

Next ==
    \/ RequestReload \/ ReloadFires \/ RestartRest
    \/ StopTrain \/ StopRest \/ Shutdown \/ ShutdownRest
    \/ \E p \in Procs : Exit(p)
    \/ \E o \in States : RestartTimer(o) \/ ResetFails(o)
    \/ \E c \in Calls : Call(c) \/ Respond(c) \/ Timeout(c)

Spec == Init /\ [][Next]_vars

\* Timers fire, a process that was told to die does (SIGKILL after 2 s), what
\* is ready runs.  Spawns are refused at most MaxRefused times.
Fairness ==
    /\ WF_vars(ReloadFires)
    /\ WF_vars(RestartRest \/ StopRest \/ ShutdownRest)
    /\ WF_vars(\E p \in Procs : status[p] = "dying" /\ Exit(p))
    /\ WF_vars(\E o \in States : RestartTimer(o))

FairSpec == Spec /\ Fairness

(***************************************************************************)
(* Properties.                                                             *)
(***************************************************************************)
Typed ==
    /\ file \in BOOLEAN /\ reload \in BOOLEAN /\ shutdown \in BOOLEAN /\ crossed \in BOOLEAN
    /\ current \in made \union {None} /\ made \subseteq States
    /\ proc \in [States -> Procs \union {None}]
    /\ stopped \in [States -> BOOLEAN] /\ handle \in [States -> BOOLEAN]
    /\ fails \in [States -> Nat] /\ timers \in [States -> Nat] /\ resets \in [States -> Nat]
    /\ status \in [Procs -> {"unborn", "running", "dying", "exited"}]
    /\ owner \in [Procs -> States \union {None}]
    /\ call \in [Calls -> {"new", "pending", "answered", "failed"}]
    /\ sentTo \in [Calls -> Procs \union {None}]
    /\ asked \in 0..MaxReloads /\ refused \in 0..MaxRefused

\* Every variable has its type, and restartTimer is null or holds a timer that
\* runs.  Until a reload or a stop meets an earlier one that still waits, no
\* restart timer is out of its train's reach: a train has one at most, halt can
\* clear it, and a halted train has none.
TypeOK ==
    /\ Typed
    /\ \A o \in States :
          /\ handle[o] => timers[o] > 0
          /\ ~crossed /\ timers[o] > 0 => timers[o] = 1 /\ handle[o] /\ ~stopped[o]

\* The network never has two processes: each would sign in with the same
\* account.
OneProcess == Cardinality(Alive) <= 1

\* Every process that runs is the one the supervisor knows: it can be reloaded,
\* stopped with its last account and stopped at shutdown, as long as no reload
\* or stop met one that still waited for an exit (OneProcess says what then).
Tracked == ~crossed => \A p \in Alive : current = owner[p] /\ proc[current] = p

\* A call never outlives the process it was written to: the caller hears at
\* once, not after a minute.
NoHangingCall == \A c \in Calls : call[c] = "pending" => sentTo[c] \in Alive

\* A train that failed MAX_CONSECUTIVE_FAILS times is left alone: only a reload,
\* which clears the count, starts it again.  (Two processes, after a crossing,
\* share one count.)
GivesUp ==
    [][\A p \in Procs : ~crossed /\ status[p] = "unborn" /\ status'[p] = "running"
        => fails'[owner'[p]] < MaxFails]_vars

\* A train that is wanted runs in the end, or was given up; a halted one is
\* never forgotten between its kill and its restart, unless a stop crossed it.
GaveUp == current # None /\ fails[current] >= MaxFails
Exhausted == \A p \in Procs : status[p] # "unborn"
WantedRuns ==
    (file /\ current # None) ~>
        (~file \/ shutdown \/ crossed \/ GaveUp \/ Exhausted
         \/ (current # None /\ proc[current] # None /\ status[proc[current]] = "running"))
=============================================================================
