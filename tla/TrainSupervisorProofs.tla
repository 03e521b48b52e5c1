----------------------- MODULE TrainSupervisorProofs -----------------------
(***************************************************************************)
(* Proofs about TrainSupervisor for any number of objects, processes and   *)
(* calls: a call never outlives its process, a process that runs is the    *)
(* one the supervisor knows, and a train that gave up is not started.      *)
(***************************************************************************)
EXTENDS TrainSupervisor, TLAPS

Rest == [rest : {"restart", "stop", "shutdown"}, obj : States]

(***************************************************************************)
(* What holds in every state, with crossings or without.                   *)
(***************************************************************************)
\* Continuations name objects, a process that was spawned has an object, and
\* the handle of a restart timer stands for a timer that runs.
Queued == ready \in Seq(Rest) /\ waiting \in [Procs -> Seq(Rest)]
Owned == \A p \in Procs : status[p] # "unborn" => owner[p] \in States
Booked == \A o \in States : handle[o] => timers[o] > 0
Sound == Queued /\ Owned /\ Booked

(***************************************************************************)
(* What holds until a reload or a stop meets an earlier one: at most one   *)
(* process, one continuation and one restart timer, never two of them but  *)
(* a process that dies with the continuation that waits for it.            *)
(***************************************************************************)
Known == \A p \in Alive : current = owner[p] /\ proc[current] = p
WaitsForExit ==
    \A p \in Procs : waiting[p] # <<>> =>
        /\ p \in Alive /\ Len(waiting[p]) = 1
        /\ waiting[p][1].obj = current /\ stopped[current]
NextIsAlone ==
    ready # <<>> =>
        /\ Alive = {} /\ Len(ready) = 1
        /\ ready[1].obj = current /\ stopped[current]
TimerIsAlone ==
    \A o \in States : timers[o] > 0 =>
        /\ o = current /\ ~stopped[o] /\ Alive = {}
        /\ timers[o] = 1 /\ handle[o] /\ fails[o] < MaxFails
Fresh == \A o \in States \ made : ~stopped[o] /\ fails[o] = 0
OneAtATime == Known /\ WaitsForExit /\ NextIsAlone /\ TimerIsAlone /\ Fresh
Steady == ~crossed => OneAtATime

IInv == Typed /\ Sound /\ NoHangingCall /\ Steady

(***************************************************************************)
(* Types.                                                                  *)
(***************************************************************************)
SpawnTypes ==
    /\ proc' \in [States -> Procs \union {None}]
    /\ timers' \in [States -> Nat] /\ handle' \in [States -> BOOLEAN]
    /\ status' \in [Procs -> {"unborn", "running", "dying", "exited"}]
    /\ owner' \in [Procs -> States \union {None}]
    /\ refused' \in 0..MaxRefused
    /\ waiting' = waiting

LEMMA SpawnType ==
    ASSUME Typed, Owned, Booked, NEW o \in States, NEW p0 \in Procs \union {None}, NEW n \in Nat,
           NEW h \in BOOLEAN, h => n > 0, Spawn(o, p0, n, h)
    PROVE  SpawnTypes /\ Owned' /\ Booked'
<1>1. ASSUME NEW p \in Procs, status[p] = "unborn",
             status' = [status EXCEPT ![p] = "running"],
             owner' = [owner EXCEPT ![p] = o], proc' = [proc EXCEPT ![o] = p],
             timers' = [timers EXCEPT ![o] = n], handle' = [handle EXCEPT ![o] = h],
             UNCHANGED <<waiting, refused>>
      PROVE  SpawnTypes /\ Owned' /\ Booked'
  <2>1. SpawnTypes
    BY <1>1 DEF SpawnTypes, Typed
  <2>2. Owned'
    BY <1>1 DEF Owned, Typed
  <2>3. Booked'
    <3> SUFFICES ASSUME NEW x \in States, handle'[x] PROVE timers'[x] > 0
      BY DEF Booked
    <3>1. CASE x = o
      BY <1>1, <3>1 DEF Typed
    <3>2. CASE x # o
      BY <1>1, <3>2 DEF Typed, Booked
    <3> QED  BY <3>1, <3>2
  <2> QED  BY <2>1, <2>2, <2>3
<1>2. ASSUME refused < MaxRefused, refused' = refused + 1, Schedule(o, n),
             proc' = [proc EXCEPT ![o] = p0], UNCHANGED <<status, owner, waiting>>
      PROVE  SpawnTypes /\ Owned' /\ Booked'
  <2>1. SpawnTypes
    BY <1>2, SupervisorAssumption DEF SpawnTypes, Typed, Schedule
  <2>2. Owned'
    BY <1>2 DEF Owned
  <2>3. Booked'
    BY <1>2 DEF Booked, Typed, Schedule
  <2> QED  BY <2>1, <2>2, <2>3
<1> QED  BY <1>1, <1>2 DEF Spawn

LEMMA CallType ==
    ASSUME Typed, NEW o, FailPending(o)
    PROVE  /\ call' \in [Calls -> {"new", "pending", "answered", "failed"}]
           /\ sentTo' \in [Calls -> Procs \union {None}]
  BY DEF Typed, FailPending

LEMMA HaltType ==
    ASSUME Typed, Sound, NEW o \in made, NEW rest \in {"restart", "stop", "shutdown"},
           Idle, HaltThen(o, rest)
    PROVE  /\ made' = made /\ proc' = proc /\ fails' = fails /\ resets' = resets
           /\ stopped' \in [States -> BOOLEAN] /\ handle' \in [States -> BOOLEAN]
           /\ timers' \in [States -> Nat]
           /\ status' \in [Procs -> {"unborn", "running", "dying", "exited"}]
           /\ owner' = owner /\ refused' = refused
           /\ call' \in [Calls -> {"new", "pending", "answered", "failed"}]
           /\ sentTo' \in [Calls -> Procs \union {None}]
           /\ Sound' /\ Alive' = Alive
<1> DEFINE k == [rest |-> rest, obj |-> o]
<1>1. o \in States /\ k \in Rest
  BY DEF Typed, Rest
<1>2. call' \in [Calls -> {"new", "pending", "answered", "failed"}] /\ sentTo' \in [Calls -> Procs \union {None}]
  BY CallType DEF HaltThen
<1>3. /\ made' = made /\ proc' = proc /\ fails' = fails /\ resets' = resets
      /\ stopped' \in [States -> BOOLEAN] /\ handle' \in [States -> BOOLEAN]
      /\ timers' \in [States -> Nat] /\ Booked'
  BY <1>1 DEF HaltThen, Typed, Sound, Booked
<1>4. CASE Killable(o)
  <2>1. proc[o] \in Procs /\ proc[o] \in Alive /\ status[proc[o]] # "unborn"
    BY <1>4 DEF Killable, Alive
  <2>2. /\ status' = [status EXCEPT ![proc[o]] = "dying"]
        /\ waiting' = [waiting EXCEPT ![proc[o]] = Append(@, k)]
        /\ UNCHANGED <<owner, ready, refused>>
    BY <1>4 DEF HaltThen
  <2>3. Append(waiting[proc[o]], k) \in Seq(Rest)
    BY <1>1, <2>1 DEF Sound, Queued
  <2>4. Queued'
    BY <2>1, <2>2, <2>3 DEF Sound, Queued
  <2>5. status' \in [Procs -> {"unborn", "running", "dying", "exited"}] /\ Owned' /\ Alive' = Alive
    BY <2>1, <2>2 DEF Typed, Sound, Owned, Alive
  <2> QED  BY <1>2, <1>3, <2>2, <2>4, <2>5 DEF Sound
<1>5. CASE ~Killable(o)
  <2>1. ready' = <<k>> /\ UNCHANGED processes
    BY <1>5 DEF HaltThen
  <2>2. <<k>> \in Seq(Rest)
    BY <1>1
  <2>3. Queued' /\ Owned' /\ Alive' = Alive
    BY <2>1, <2>2 DEF Sound, Queued, Owned, Alive, processes
  <2> QED  BY <1>2, <1>3, <2>1, <2>3 DEF Sound, Typed, processes
<1> QED  BY <1>4, <1>5

LEMMA StartType ==
    ASSUME Typed, Sound, NEW o \in States, StartTrain(o)
    PROVE  /\ SpawnTypes /\ made' = made \union {o} /\ current' = o
           /\ UNCHANGED <<stopped, fails, resets, ready, calls>> /\ Sound'
<1>1. /\ made' = made \union {o} /\ current' = o /\ Spawn(o, None, 0, FALSE)
      /\ UNCHANGED <<stopped, fails, resets, ready, calls>>
  BY DEF StartTrain
<1>2. SpawnTypes /\ Owned' /\ Booked'
  BY <1>1, SpawnType DEF Sound
<1>3. Queued'
  BY <1>1, <1>2 DEF Sound, Queued, SpawnTypes
<1> QED  BY <1>1, <1>2, <1>3 DEF Sound

LEMMA ReadyHead ==
    ASSUME Queued, ~Idle
    PROVE  /\ Head(ready) = ready[1] /\ Tail(ready) \in Seq(Rest)
           /\ Len(Tail(ready)) = Len(ready) - 1 /\ Head(ready).obj \in States
<1>1. /\ Head(ready) = ready[1] /\ Tail(ready) \in Seq(Rest)
      /\ Len(Tail(ready)) = Len(ready) - 1 /\ Head(ready) \in Rest
  <2>1. ready \in Seq(Rest) /\ ready # <<>>
    BY DEF Queued, Idle
  <2> QED  BY <2>1
<1> QED  BY <1>1 DEF Rest

\* Nothing the bookkeeping speaks of changes.
LEMMA SoundStutter ==
    ASSUME Sound, UNCHANGED <<ready, waiting, status, owner, handle, timers>> PROVE Sound'
  BY DEF Sound, Queued, Owned, Booked

\* The variables keep their types, and the bookkeeping stays sound.
LEMMA TypeStep == Typed /\ Sound /\ [Next]_vars => Typed' /\ Sound'
<1> SUFFICES ASSUME Typed, Sound, [Next]_vars PROVE Typed' /\ Sound'
  OBVIOUS
<1> USE SupervisorAssumption
<1>1. CASE RequestReload
  BY <1>1, SoundStutter DEF RequestReload, Typed, MayAsk, objects, processes, calls
<1>2. CASE ReloadFires
  <2>1. UNCHANGED <<file, shutdown, asked>> /\ reload' = FALSE /\ crossed' \in BOOLEAN /\ Idle
    BY <1>2 DEF ReloadFires, Crossing, Typed
  <2>2. CASE ~file /\ UNCHANGED <<current, objects, processes, ready, calls>>
    BY <2>1, <2>2, SoundStutter DEF Typed, objects, processes, calls
  <2>3. CASE current # None /\ HaltThen(current, "restart") /\ UNCHANGED current
    <3>1. current \in made
      BY <2>3 DEF Typed
    <3> QED  BY <2>1, <2>3, <3>1, HaltType DEF Typed
  <2>4. ASSUME NEW o \in States, StartTrain(o) PROVE Typed' /\ Sound'
    <3>1. /\ SpawnTypes /\ made' = made \union {o} /\ current' = o /\ Sound'
          /\ UNCHANGED <<stopped, fails, resets, ready, call, sentTo>>
      BY <2>4, StartType DEF calls
    <3>2. made' \subseteq States /\ current' \in made' \union {None}
      BY <3>1 DEF Typed
    <3>3. /\ stopped' \in [States -> BOOLEAN] /\ fails' \in [States -> Nat] /\ resets' \in [States -> Nat]
          /\ call' \in [Calls -> {"new", "pending", "answered", "failed"}]
          /\ sentTo' \in [Calls -> Procs \union {None}]
      BY <3>1 DEF Typed
    <3>4. /\ file' \in BOOLEAN /\ reload' \in BOOLEAN /\ shutdown' \in BOOLEAN /\ crossed' \in BOOLEAN
          /\ asked' \in 0..MaxReloads
      BY <2>1 DEF Typed
    <3> QED  BY <3>1, <3>2, <3>3, <3>4 DEF Typed, SpawnTypes
  <2> QED  BY <1>2, <2>2, <2>3, <2>4 DEF ReloadFires
<1>3. CASE RestartRest
  <2> DEFINE o == Head(ready).obj
  <2>1. o \in States /\ Tail(ready) \in Seq(Rest)
    BY <1>3, ReadyHead DEF RestartRest, Sound
  <2>2. /\ Spawn(o, None, timers[o], handle[o]) /\ ready' = Tail(ready)
        /\ stopped' = [stopped EXCEPT ![o] = FALSE] /\ fails' = [fails EXCEPT ![o] = 0]
        /\ UNCHANGED <<file, current, made, resets, reload, calls, shutdown, asked, crossed>>
    BY <1>3 DEF RestartRest
  <2>3. timers[o] \in Nat /\ handle[o] \in BOOLEAN /\ (handle[o] => timers[o] > 0)
    BY <2>1 DEF Typed, Sound, Booked
  <2>4. SpawnTypes /\ Owned' /\ Booked'
    <3> HIDE DEF o
    <3> QED  BY <2>1, <2>2, <2>3, SpawnType DEF Sound
  <2>5. Sound'
    BY <2>1, <2>2, <2>4 DEF Sound, Queued, SpawnTypes
  <2> QED  BY <2>1, <2>2, <2>4, <2>5 DEF Typed, SpawnTypes, calls
<1>4. CASE StopTrain
  <2>1. /\ file' = FALSE /\ asked' \in 0..MaxReloads /\ crossed' \in BOOLEAN
        /\ UNCHANGED <<current, shutdown>> /\ Idle
    BY <1>4 DEF StopTrain, Crossing, Typed, MayAsk
  <2>2. CASE UNCHANGED <<objects, reload, processes, ready, calls>>
    BY <2>1, <2>2, SoundStutter DEF Typed, objects, processes, calls
  <2>3. CASE current # None /\ reload' = FALSE /\ HaltThen(current, "stop")
    <3>1. current \in made
      BY <2>3 DEF Typed
    <3> QED  BY <2>1, <2>3, <3>1, HaltType DEF Typed
  <2> QED  BY <1>4, <2>2, <2>3 DEF StopTrain
<1>5. CASE StopRest
  <2>1. Tail(ready) \in Seq(Rest)
    BY <1>5, ReadyHead DEF StopRest, Sound
  <2> QED  BY <1>5, <2>1 DEF StopRest, Typed, Sound, Queued, Owned, Booked, objects, processes, calls
<1>6. CASE Shutdown
  <2>1. /\ UNCHANGED <<file, current, asked>> /\ shutdown' = TRUE /\ reload' = FALSE
        /\ crossed' \in BOOLEAN /\ Idle
    BY <1>6 DEF Shutdown, Crossing, Typed
  <2>2. CASE UNCHANGED <<objects, processes, ready, calls>>
    BY <2>1, <2>2, SoundStutter DEF Typed, objects, processes, calls
  <2>3. CASE current # None /\ HaltThen(current, "shutdown")
    <3>1. current \in made
      BY <2>3 DEF Typed
    <3> QED  BY <2>1, <2>3, <3>1, HaltType DEF Typed
  <2> QED  BY <1>6, <2>2, <2>3 DEF Shutdown
<1>7. CASE ShutdownRest
  <2>1. Tail(ready) \in Seq(Rest)
    BY <1>7, ReadyHead DEF ShutdownRest, Sound
  <2> QED  BY <1>7, <2>1 DEF ShutdownRest, Typed, Sound, Queued, Owned, Booked, objects, processes, calls
<1>8. ASSUME NEW p \in Procs, Exit(p) PROVE Typed' /\ Sound'
  <2>1. owner[p] \in States
    BY <1>8 DEF Exit, Alive, Sound, Owned
  <2>2. /\ call' \in [Calls -> {"new", "pending", "answered", "failed"}]
        /\ sentTo' \in [Calls -> Procs \union {None}]
    BY <1>8, CallType DEF Exit
  <2>3. /\ fails' \in [States -> Nat] /\ proc' \in [States -> Procs \union {None}]
        /\ status' \in [Procs -> {"unborn", "running", "dying", "exited"}]
        /\ UNCHANGED <<file, current, made, stopped, resets, reload, owner, refused, shutdown, asked, crossed>>
    <3>1. /\ status' = [status EXCEPT ![p] = "exited"] /\ proc' = [proc EXCEPT ![owner[p]] = None]
          /\ UNCHANGED <<file, current, made, stopped, resets, reload, owner, refused, shutdown, asked, crossed>>
      BY <1>8 DEF Exit
    <3>2. fails' = fails \/ fails' = [fails EXCEPT ![owner[p]] = @ + 1]
      BY <1>8 DEF Exit
    <3>3. fails' \in [States -> Nat]
      BY <2>1, <3>2 DEF Typed
    <3> QED  BY <2>1, <3>1, <3>3 DEF Typed
  <2>4. timers' \in [States -> Nat] /\ handle' \in [States -> BOOLEAN] /\ Booked'
    <3>1. Schedule(owner[p], timers[owner[p]]) \/ UNCHANGED <<timers, handle>>
      BY <1>8 DEF Exit
    <3>2. CASE Schedule(owner[p], timers[owner[p]])
      <4>1. timers[owner[p]] + 1 \in Nat /\ timers[owner[p]] + 1 > 0
        <5>1. timers[owner[p]] \in Nat
          BY <2>1 DEF Typed
        <5> QED  BY <5>1
      <4>2. /\ timers' = [timers EXCEPT ![owner[p]] = timers[owner[p]] + 1]
            /\ handle' = [handle EXCEPT ![owner[p]] = TRUE]
        BY <3>2 DEF Schedule
      <4>3. \A x \in States \ {owner[p]} : handle'[x] = handle[x] /\ timers'[x] = timers[x]
        BY <4>2 DEF Typed
      <4>4. timers'[owner[p]] = timers[owner[p]] + 1
        BY <2>1, <4>2 DEF Typed
      <4>5. timers' \in [States -> Nat] /\ handle' \in [States -> BOOLEAN]
        BY <2>1, <4>1, <4>2 DEF Typed
      <4>6. Booked'
        BY <4>1, <4>3, <4>4 DEF Sound, Booked
      <4> QED  BY <4>5, <4>6
    <3>3. CASE UNCHANGED <<timers, handle>>
      BY <3>3 DEF Typed, Sound, Booked
    <3> QED  BY <3>1, <3>2, <3>3
  <2>5. Queued' /\ Owned'
    <3>1. /\ ready' = waiting[p] /\ waiting' = [waiting EXCEPT ![p] = <<>>]
          /\ status' = [status EXCEPT ![p] = "exited"] /\ owner' = owner
      BY <1>8 DEF Exit
    <3>2. <<>> \in Seq(Rest)
      OBVIOUS
    <3> QED  BY <2>1, <3>1, <3>2 DEF Sound, Queued, Owned, Typed
  <2> QED  BY <2>2, <2>3, <2>4, <2>5 DEF Typed, Sound
<1>9. ASSUME NEW o \in States, RestartTimer(o) PROVE Typed' /\ Sound'
  <2>1. /\ timers[o] \in Nat /\ timers[o] > 0 /\ resets' \in [States -> Nat]
        /\ UNCHANGED <<file, current, made, stopped, fails, reload, ready, calls, shutdown, asked, crossed>>
    BY <1>9 DEF RestartTimer, Typed
  <2>2. CASE /\ timers' = [timers EXCEPT ![o] = @ - 1] /\ handle' = [handle EXCEPT ![o] = FALSE]
             /\ UNCHANGED <<proc, processes>>
    <3>1. timers' \in [States -> Nat] /\ handle' \in [States -> BOOLEAN] /\ Booked'
      BY <2>1, <2>2 DEF Typed, Sound, Booked
    <3> QED  BY <2>1, <2>2, <3>1 DEF Typed, Sound, Queued, Owned, processes, calls
  <2>3. CASE Spawn(o, proc[o], timers[o] - 1, FALSE)
    <3>1. timers[o] - 1 \in Nat /\ proc[o] \in Procs \union {None}
      BY <2>1 DEF Typed
    <3>2. SpawnTypes /\ Owned' /\ Booked'
      BY <2>3, <3>1, SpawnType DEF Sound
    <3> QED  BY <2>1, <3>2 DEF Typed, Sound, Queued, SpawnTypes, calls
  <2> QED  BY <1>9, <2>2, <2>3 DEF RestartTimer
<1>10. ASSUME NEW o \in States, ResetFails(o) PROVE Typed' /\ Sound'
  <2>1. fails' \in [States -> Nat] /\ resets' \in [States -> Nat]
    BY <1>10 DEF ResetFails, Typed
  <2> QED  BY <1>10, <2>1, SoundStutter DEF ResetFails, Typed, processes, calls
<1>11. ASSUME NEW c \in Calls, Call(c) PROVE Typed' /\ Sound'
  <2>1. proc[current] \in Procs
    BY <1>11 DEF Call, Killable, Alive
  <2> QED  BY <1>11, <2>1, SoundStutter DEF Call, Typed, objects, processes
<1>12. ASSUME NEW c \in Calls, Respond(c) \/ Timeout(c) PROVE Typed' /\ Sound'
  BY <1>12, SoundStutter DEF Respond, Timeout, Typed, objects, processes
<1>13. CASE UNCHANGED vars
  BY <1>13, SoundStutter DEF vars, Typed, objects, processes, calls
<1> QED
  BY <1>1, <1>2, <1>3, <1>4, <1>5, <1>6, <1>7, <1>8, <1>9, <1>10, <1>11, <1>12, <1>13 DEF Next

(***************************************************************************)
(* Calls.                                                                  *)
(***************************************************************************)
\* A new process joins those that are alive.
LEMMA SpawnAlive ==
    ASSUME NEW o, NEW p0, NEW n, NEW h, Typed, Spawn(o, p0, n, h) PROVE Alive \subseteq Alive'
<1> SUFFICES ASSUME NEW q \in Alive PROVE status'[q] = status[q]
  BY DEF Alive
<1> QED  BY DEF Spawn, Alive, Typed

LEMMA CallsStutter ==
    ASSUME NoHangingCall, UNCHANGED calls, Alive \subseteq Alive' PROVE NoHangingCall'
  BY DEF NoHangingCall, calls

LEMMA CallsHalt ==
    ASSUME Typed, NoHangingCall, NEW o, NEW rest, HaltThen(o, rest), Alive' = Alive
    PROVE  NoHangingCall'
<1>1. sentTo' = sentTo /\ \A c \in Calls : call'[c] = "pending" => call[c] = "pending"
  BY DEF HaltThen, FailPending
<1> QED  BY <1>1 DEF NoHangingCall

\* A call waits only for a process that lives.
LEMMA CallsStep == Typed /\ Sound /\ NoHangingCall /\ [Next]_vars => NoHangingCall'
<1> SUFFICES ASSUME Typed, Sound, NoHangingCall, [Next]_vars PROVE NoHangingCall'
  OBVIOUS
<1>1. CASE UNCHANGED calls /\ UNCHANGED processes
  BY <1>1, CallsStutter DEF Alive, processes
<1>2. CASE ReloadFires
  <2>1. CASE UNCHANGED <<processes, calls>>
    BY <1>1, <2>1
  <2>2. CASE current # None /\ HaltThen(current, "restart")
    <3>1. current \in made /\ Idle
      BY <1>2, <2>2 DEF Typed, ReloadFires
    <3> QED  BY <2>2, <3>1, HaltType, CallsHalt
  <2>3. ASSUME NEW o \in States, StartTrain(o) PROVE NoHangingCall'
    BY <2>3, SpawnAlive, CallsStutter DEF StartTrain
  <2> QED  BY <1>2, <2>1, <2>2, <2>3 DEF ReloadFires
<1>3. CASE RestartRest
  BY <1>3, SpawnAlive, CallsStutter DEF RestartRest
<1>4. CASE StopTrain \/ Shutdown
  <2>1. CASE UNCHANGED <<processes, calls>>
    BY <1>1, <2>1
  <2>2. ASSUME NEW rest \in {"stop", "shutdown"}, current # None, HaltThen(current, rest)
        PROVE  NoHangingCall'
    <3>1. current \in made /\ Idle
      BY <1>4, <2>2 DEF Typed, StopTrain, Shutdown, MayAsk
    <3> QED  BY <2>2, <3>1, HaltType, CallsHalt
  <2> QED  BY <1>4, <2>1, <2>2 DEF StopTrain, Shutdown
<1>5. ASSUME NEW p \in Procs, Exit(p) PROVE NoHangingCall'
  <2> SUFFICES ASSUME NEW c \in Calls, call'[c] = "pending" PROVE sentTo'[c] \in Alive'
    BY DEF NoHangingCall
  <2>1. sentTo' = sentTo /\ call[c] = "pending" /\ c \notin Pending(owner[p])
    BY <1>5 DEF Exit, FailPending, Pending
  <2>2. sentTo[c] \in Alive /\ sentTo[c] # p
    BY <2>1 DEF NoHangingCall, Pending
  <2>3. status' = [status EXCEPT ![p] = "exited"]
    BY <1>5 DEF Exit
  <2> QED  BY <2>1, <2>2, <2>3 DEF Alive, Typed
<1>6. ASSUME NEW o \in States, RestartTimer(o) PROVE NoHangingCall'
  <2>1. CASE UNCHANGED processes
    BY <1>1, <1>6, <2>1 DEF RestartTimer
  <2>2. CASE Spawn(o, proc[o], timers[o] - 1, FALSE)
    BY <1>6, <2>2, SpawnAlive, CallsStutter DEF RestartTimer
  <2> QED  BY <1>6, <2>1, <2>2 DEF RestartTimer
<1>7. ASSUME NEW c \in Calls, Call(c) \/ Respond(c) \/ Timeout(c) PROVE NoHangingCall'
  <2>1. Alive' = Alive
    BY <1>7 DEF Call, Respond, Timeout, processes, Alive
  <2>2. CASE Call(c)
    <3>1. /\ sentTo' = [sentTo EXCEPT ![c] = proc[current]] /\ proc[current] \in Alive
          /\ \A d \in Calls : d # c => call'[d] = call[d]
      BY <2>2 DEF Call, Killable, Typed
    <3> QED  BY <2>1, <3>1 DEF NoHangingCall, Typed
  <2>3. CASE Respond(c) \/ Timeout(c)
    <3>1. sentTo' = sentTo /\ \A d \in Calls : call'[d] = "pending" => call[d] = "pending"
      BY <2>3 DEF Respond, Timeout, Typed
    <3> QED  BY <2>1, <3>1 DEF NoHangingCall
  <2> QED  BY <1>7, <2>2, <2>3
<1>8. CASE RequestReload \/ StopRest \/ ShutdownRest \/ UNCHANGED vars
  BY <1>1, <1>8 DEF RequestReload, StopRest, ShutdownRest, vars
<1>9. ASSUME NEW o \in States, ResetFails(o) PROVE NoHangingCall'
  BY <1>1, <1>9 DEF ResetFails
<1> QED  BY <1>2, <1>3, <1>4, <1>5, <1>6, <1>7, <1>8, <1>9 DEF Next

(***************************************************************************)
(* One process, one continuation, one timer.                               *)
(***************************************************************************)
\* A process is spawned, or its restart scheduled, where there was nothing.
LEMMA SpawnSteady ==
    ASSUME Typed, NEW o \in States, NEW p0, Alive = {}, \A x \in States : timers[x] = 0 \/ x = o,
           \A p \in Procs : waiting[p] = <<>>, Spawn(o, p0, 0, FALSE), ready' = <<>>,
           current' = o, ~stopped'[o], fails'[o] < MaxFails
    PROVE  Known' /\ WaitsForExit' /\ NextIsAlone' /\ TimerIsAlone'
<1>1. waiting' = waiting
  BY DEF Spawn
<1>2. WaitsForExit' /\ NextIsAlone'
  BY <1>1 DEF WaitsForExit, NextIsAlone
<1>3. ASSUME NEW p \in Procs, status[p] = "unborn",
             status' = [status EXCEPT ![p] = "running"],
             owner' = [owner EXCEPT ![p] = o], proc' = [proc EXCEPT ![o] = p],
             timers' = [timers EXCEPT ![o] = 0]
      PROVE  Known' /\ TimerIsAlone'
  <2>1. Alive' = {p}
    BY <1>3 DEF Alive, Typed
  <2>2. owner'[p] = o /\ proc'[o] = p
    BY <1>3 DEF Typed
  <2>3. \A x \in States : timers'[x] = 0
    BY <1>3 DEF Typed
  <2> QED  BY <2>1, <2>2, <2>3 DEF Known, TimerIsAlone
<1>4. ASSUME Schedule(o, 0), UNCHANGED status PROVE Known' /\ TimerIsAlone'
  <2>1. Alive' = {}
    BY <1>4 DEF Alive
  <2>2. timers'[o] = 1 /\ handle'[o] /\ \A x \in States \ {o} : timers'[x] = 0
    BY <1>4 DEF Schedule, Typed
  <2> QED  BY <2>1, <2>2 DEF Known, TimerIsAlone
<1> QED  BY <1>2, <1>3, <1>4 DEF Spawn

\* A train is halted when nothing waits: what waits then is the rest of this
\* halt, and no timer is left.
LEMMA HaltSteady ==
    ASSUME Typed, Sound, OneAtATime, Idle, ~Halting, current \in made, UNCHANGED current,
           NEW rest \in {"restart", "stop", "shutdown"}, HaltThen(current, rest)
    PROVE  OneAtATime'
<1> DEFINE k == [rest |-> rest, obj |-> current]
<1>1. /\ made' = made /\ proc' = proc /\ owner' = owner /\ fails' = fails /\ Alive' = Alive
      /\ current \in States
  BY HaltType DEF Typed
<1>2. stopped' = [stopped EXCEPT ![current] = TRUE]
  BY DEF HaltThen
<1>3. stopped'[current] /\ Fresh' /\ Known'
  BY <1>1, <1>2 DEF OneAtATime, Fresh, Known, Typed
<1>4. \A x \in States : timers'[x] = 0
  <2>1. timers' = [timers EXCEPT ![current] = IF handle[current] THEN @ - 1 ELSE @]
    BY DEF HaltThen
  <2>2. timers[current] \in Nat /\ (timers[current] > 0 => timers[current] = 1 /\ handle[current])
    BY <1>1 DEF OneAtATime, TimerIsAlone, Typed
  <2>3. handle[current] => timers[current] > 0
    BY <1>1 DEF Sound, Booked
  <2>4. timers'[current] = 0
    BY <1>1, <2>1, <2>2, <2>3 DEF Typed
  <2>5. ASSUME NEW x \in States, x # current PROVE timers'[x] = 0
    BY <2>1, <2>5 DEF OneAtATime, TimerIsAlone, Typed
  <2> QED  BY <2>4, <2>5
<1>5. TimerIsAlone'
  BY <1>4 DEF TimerIsAlone
<1>6. \A p \in Procs : waiting[p] = <<>>
  BY DEF Halting
<1>7. CASE Killable(current)
  <2>1. proc[current] \in Alive /\ proc[current] \in Procs
    BY <1>7 DEF Killable, Alive
  <2>2. waiting' = [waiting EXCEPT ![proc[current]] = Append(@, k)] /\ ready' = ready
    BY <1>7 DEF HaltThen
  <2>3. waiting'[proc[current]] = <<k>> /\ \A p \in Procs \ {proc[current]} : waiting'[p] = <<>>
    <3>1. waiting'[proc[current]] = Append(waiting[proc[current]], k)
      BY <2>1, <2>2 DEF Sound, Queued
    <3>2. waiting[proc[current]] = <<>> /\ Append(<<>>, k) = <<k>>
      BY <1>6, <2>1
    <3>3. \A p \in Procs \ {proc[current]} : waiting'[p] = waiting[p]
      BY <2>2 DEF Sound, Queued
    <3> QED  BY <1>6, <3>1, <3>2, <3>3
  <2>4. WaitsForExit'
    <3>1. Len(<<k>>) = 1 /\ <<k>>[1].obj = current
      OBVIOUS
    <3> HIDE DEF k
    <3>2. ASSUME NEW p \in Procs, waiting'[p] # <<>> PROVE p = proc[current] /\ waiting'[p] = <<k>>
      BY <2>3, <3>2
    <3> QED  BY <1>1, <1>3, <2>1, <3>1, <3>2 DEF WaitsForExit
  <2>5. NextIsAlone'
    BY <2>2 DEF Idle, NextIsAlone
  <2> QED  BY <1>3, <1>5, <2>4, <2>5 DEF OneAtATime
<1>8. CASE ~Killable(current)
  <2>1. Alive = {}
    <3>1. \A p \in Alive : proc[current] = p /\ p # None
      BY SupervisorAssumption DEF OneAtATime, Known, Alive
    <3> QED  BY <1>8, <3>1 DEF Killable
  <2>2. ready' = <<k>> /\ waiting' = waiting
    BY <1>8 DEF HaltThen, processes
  <2>3. WaitsForExit' /\ NextIsAlone'
    BY <1>1, <1>3, <1>6, <2>1, <2>2 DEF WaitsForExit, NextIsAlone
  <2> QED  BY <1>3, <1>5, <2>3 DEF OneAtATime
<1> QED  BY <1>7, <1>8

LEMMA SteadyStutter ==
    ASSUME OneAtATime, UNCHANGED <<current, made, proc, stopped, timers, handle, status, owner, waiting, ready>>,
           \A o \in States : fails'[o] = fails[o] \/ fails'[o] = 0
    PROVE  OneAtATime'
<1>1. Alive' = Alive
  BY DEF Alive
<1>2. Known' /\ WaitsForExit' /\ NextIsAlone' /\ Fresh'
  BY <1>1 DEF OneAtATime, Known, WaitsForExit, NextIsAlone, Fresh
<1>3. TimerIsAlone'
  BY <1>1, SupervisorAssumption DEF OneAtATime, TimerIsAlone
<1> QED  BY <1>2, <1>3 DEF OneAtATime

\* Nothing waits where nothing is alive.
LEMMA NothingWaits == OneAtATime /\ Alive = {} => \A p \in Procs : waiting[p] = <<>>
  BY DEF OneAtATime, WaitsForExit

LEMMA SteadyStep == Typed /\ Sound /\ Steady /\ [Next]_vars => Steady'
<1> SUFFICES ASSUME Typed, Sound, ~crossed, ~crossed', OneAtATime, [Next]_vars PROVE OneAtATime'
  <2>1. crossed => crossed' \/ ~[Next]_vars
    BY DEF Next, vars, RequestReload, ReloadFires, RestartRest, StopTrain, StopRest, Shutdown,
           ShutdownRest, Exit, RestartTimer, ResetFails, Call, Respond, Timeout, Crossing
  <2> QED  BY <2>1 DEF Steady, Typed
<1>1. CASE \/ RequestReload
           \/ UNCHANGED vars
           \/ \E o \in States : ResetFails(o)
           \/ \E c \in Calls : Call(c) \/ Respond(c) \/ Timeout(c)
  <2>1. UNCHANGED <<current, made, proc, stopped, timers, handle, status, owner, waiting, ready>>
    BY <1>1 DEF RequestReload, vars, ResetFails, Call, Respond, Timeout, objects, processes
  <2>2. \A o \in States : fails'[o] = fails[o] \/ fails'[o] = 0
    BY <1>1 DEF RequestReload, vars, ResetFails, Call, Respond, Timeout, objects, Typed
  <2> QED  BY <2>1, <2>2, SteadyStutter
<1>2. CASE ReloadFires
  <2>1. Idle /\ ~Halting
    BY <1>2 DEF ReloadFires, Crossing
  <2>2. CASE UNCHANGED <<current, objects, processes, ready, calls>>
    BY <2>2, SteadyStutter DEF objects, processes
  <2>3. CASE current # None /\ HaltThen(current, "restart") /\ UNCHANGED current
    <3>1. current \in made
      BY <2>3 DEF Typed
    <3> QED  BY <2>1, <2>3, <3>1, HaltSteady
  <2>4. ASSUME NEW o \in States, current = None, StartTrain(o) PROVE OneAtATime'
    <3>1. /\ o \notin made /\ made' = made \union {o} /\ current' = o /\ Spawn(o, None, 0, FALSE)
          /\ UNCHANGED <<stopped, fails, resets, ready, calls>>
      BY <2>4 DEF StartTrain
    <3>2. Alive = {}
      BY <2>4, SupervisorAssumption DEF OneAtATime, Known, Sound, Owned, Alive
    <3>3. \A x \in States : timers[x] = 0
      BY <2>4, SupervisorAssumption DEF OneAtATime, TimerIsAlone, Typed
    <3>4. ~stopped[o] /\ fails[o] < MaxFails /\ Fresh'
      BY <3>1, SupervisorAssumption DEF OneAtATime, Fresh
    <3> QED  BY <2>1, <3>1, <3>2, <3>3, <3>4, NothingWaits, SpawnSteady DEF OneAtATime, Idle
  <2> QED  BY <1>2, <2>2, <2>3, <2>4 DEF ReloadFires
<1>3. CASE StopTrain \/ Shutdown
  <2>1. Idle /\ ~Halting /\ UNCHANGED current
    BY <1>3 DEF StopTrain, Shutdown, MayAsk, Crossing
  <2>2. CASE UNCHANGED <<objects, processes, ready, calls>>
    BY <2>1, <2>2, SteadyStutter DEF objects, processes
  <2>3. ASSUME NEW rest \in {"stop", "shutdown"}, current # None, HaltThen(current, rest)
        PROVE  OneAtATime'
    <3>1. current \in made
      BY <2>3 DEF Typed
    <3> QED  BY <2>1, <2>3, <3>1, HaltSteady
  <2> QED  BY <1>3, <2>2, <2>3 DEF StopTrain, Shutdown
<1>4. CASE RestartRest \/ StopRest \/ ShutdownRest
  <2>1. ~Idle /\ ready' = Tail(ready)
    BY <1>4 DEF RestartRest, StopRest, ShutdownRest
  <2>2. /\ Alive = {} /\ Head(ready).obj = current /\ stopped[current] /\ current \in States
        /\ Len(ready) = 1
    BY <2>1, ReadyHead DEF OneAtATime, NextIsAlone, Sound, Idle
  <2>3. ready' = <<>>
    BY <2>1, <2>2, ReadyHead DEF Sound
  <2>4. \A x \in States : timers[x] = 0
    BY <2>2 DEF OneAtATime, TimerIsAlone, Typed
  <2>5. \A p \in Procs : waiting[p] = <<>>
    BY <2>2, NothingWaits
  <2>6. CASE RestartRest
    <3>1. /\ Spawn(current, None, timers[current], handle[current])
          /\ stopped' = [stopped EXCEPT ![current] = FALSE]
          /\ fails' = [fails EXCEPT ![current] = 0]
          /\ UNCHANGED <<current, made>>
      BY <2>2, <2>6 DEF RestartRest
    <3>2. timers[current] = 0 /\ handle[current] = FALSE
      BY <2>2, <2>4 DEF Sound, Booked, Typed
    <3>3. ~stopped'[current] /\ fails'[current] < MaxFails
      BY <2>2, <3>1, SupervisorAssumption DEF Typed
    <3>4. Fresh'
      BY <3>1 DEF OneAtATime, Fresh, Typed
    <3>5. Spawn(current, None, 0, FALSE)
      BY <3>1, <3>2
    <3> QED  BY <2>2, <2>3, <2>4, <2>5, <3>1, <3>3, <3>4, <3>5, SpawnSteady DEF OneAtATime
  <2>7. CASE StopRest \/ ShutdownRest
    <3>1. UNCHANGED <<objects, processes>>
      BY <2>7 DEF StopRest, ShutdownRest
    <3>2. Alive' = {} /\ (\A x \in States : timers'[x] = 0) /\ (\A p \in Procs : waiting'[p] = <<>>)
      BY <2>2, <2>4, <2>5, <3>1 DEF Alive, objects, processes
    <3> QED  BY <2>3, <3>1, <3>2
             DEF OneAtATime, Known, WaitsForExit, NextIsAlone, TimerIsAlone, Fresh, objects
  <2> QED  BY <1>4, <2>6, <2>7
<1>5. ASSUME NEW p \in Procs, Exit(p) PROVE OneAtATime'
  <2>1. p \in Alive /\ Idle /\ owner[p] = current /\ current \in States
    BY <1>5 DEF Exit, OneAtATime, Known, Sound, Owned, Alive
  <2>2. /\ status' = [status EXCEPT ![p] = "exited"]
        /\ ready' = waiting[p] /\ waiting' = [waiting EXCEPT ![p] = <<>>]
        /\ UNCHANGED <<current, made, stopped>>
    BY <1>5 DEF Exit
  <2>3. Alive' = {}
    <3>1. \A q \in Alive : q = p
      BY <2>1 DEF OneAtATime, Known
    <3> QED  BY <2>1, <2>2, <3>1 DEF Alive, Typed
  <2>4. \A q \in Procs : waiting'[q] = <<>>
    BY <2>1, <2>2 DEF OneAtATime, Known, WaitsForExit, Sound, Queued
  <2>5. Known' /\ WaitsForExit'
    BY <2>3, <2>4 DEF Known, WaitsForExit
  <2>6. NextIsAlone'
    BY <2>2, <2>3 DEF OneAtATime, WaitsForExit, NextIsAlone
  <2>7. \A x \in States : timers[x] = 0
    BY <2>1 DEF OneAtATime, TimerIsAlone, Typed
  <2>8. Fresh'
    <3>1. \A x \in States \ {current} : fails'[x] = fails[x]
      BY <1>5, <2>1 DEF Exit, Typed
    <3>2. current \in made
      BY <2>1, SupervisorAssumption DEF Typed
    <3> QED  BY <2>2, <3>1, <3>2 DEF OneAtATime, Fresh
  <2>9. TimerIsAlone'
    <3>1. CASE ~stopped[current] /\ fails'[current] < MaxFails /\ Schedule(current, timers[current])
      <4>1. timers'[current] = 1 /\ handle'[current] /\ \A x \in States \ {current} : timers'[x] = 0
        BY <2>1, <2>7, <3>1 DEF Schedule, Typed
      <4> QED  BY <2>2, <2>3, <3>1, <4>1 DEF TimerIsAlone
    <3>2. CASE UNCHANGED <<timers, handle>>
      BY <2>7, <3>2 DEF TimerIsAlone
    <3> QED  BY <1>5, <2>1, <3>1, <3>2 DEF Exit
  <2> QED  BY <2>5, <2>6, <2>8, <2>9 DEF OneAtATime
<1>6. ASSUME NEW o \in States, RestartTimer(o) PROVE OneAtATime'
  <2>1. /\ Idle /\ timers[o] > 0 /\ UNCHANGED <<current, made, stopped, fails, ready>>
    BY <1>6 DEF RestartTimer
  <2>2. o = current /\ ~stopped[o] /\ Alive = {} /\ timers[o] = 1 /\ fails[o] < MaxFails
    BY <2>1 DEF OneAtATime, TimerIsAlone
  <2>3. \A x \in States : timers[x] = 0 \/ x = o
    BY <2>2 DEF OneAtATime, TimerIsAlone, Typed
  <2>4. Spawn(o, proc[o], timers[o] - 1, FALSE)
    BY <1>6, <2>2 DEF RestartTimer
  <2>5. Spawn(o, proc[o], 0, FALSE)
    <3>1. timers[o] - 1 = 0
      BY <2>2
    <3> QED  BY <2>4, <3>1
  <2>6. Fresh'
    BY <2>1 DEF OneAtATime, Fresh
  <2> QED  BY <2>1, <2>2, <2>3, <2>5, <2>6, NothingWaits, SpawnSteady DEF OneAtATime, Idle
<1> QED  BY <1>1, <1>2, <1>3, <1>4, <1>5, <1>6 DEF Next

(***************************************************************************)
(* The theorems.                                                           *)
(***************************************************************************)
LEMMA InitIInv == Init => IInv
<1> SUFFICES ASSUME Init PROVE IInv
  OBVIOUS
<1> USE SupervisorAssumption
<1>0. reload \in BOOLEAN /\ 0 \in 0..MaxReloads /\ 0 \in 0..MaxRefused
  <2>1. reload \in BOOLEAN
    BY Zenon DEF Init
  <2> QED  BY <2>1
<1> USE DEF Init
<1>1. Typed
  BY <1>0 DEF Typed
<1>2. Sound
  <2>1. <<>> \in Seq(Rest)
    OBVIOUS
  <2> QED  BY <2>1 DEF Sound, Queued, Owned, Booked
<1>3. Alive = {}
  BY DEF Alive
<1>4. NoHangingCall
  BY DEF NoHangingCall
<1>5. Steady
  BY <1>3 DEF Steady, OneAtATime, Known, WaitsForExit, NextIsAlone, TimerIsAlone, Fresh
<1> QED  BY <1>1, <1>2, <1>4, <1>5 DEF IInv

\* The inductive invariant holds in every reachable state.
THEOREM Inductive == Spec => []IInv
<1>1. Init => IInv
  BY InitIInv
<1>2. IInv /\ [Next]_vars => IInv'
  BY TypeStep, CallsStep, SteadyStep DEF IInv
<1> QED  BY <1>1, <1>2, PTL DEF Spec

\* Every variable of the supervisor keeps its type, and halt can clear the
\* restart timer that runs: there is no other, until a reload or a stop meets
\* an earlier one.
THEOREM Types == Spec => []TypeOK
<1>1. IInv => TypeOK
  BY DEF IInv, TypeOK, Sound, Booked, Steady, OneAtATime, TimerIsAlone
<1> QED  BY <1>1, Inductive, PTL

\* failAllPending runs with every exit and every halt: no call waits for a
\* process that is gone, crossings or not.
THEOREM NoCallHangs == Spec => []NoHangingCall
<1>1. IInv => NoHangingCall
  BY DEF IInv
<1> QED  BY <1>1, Inductive, PTL

\* A process that runs is the one of the current TrainState, until a reload or
\* a stop meets an earlier one.
THEOREM ProcessesAreTracked == Spec => []Tracked
<1>1. IInv => Tracked
  BY DEF IInv, Steady, OneAtATime, Known, Tracked
<1> QED  BY <1>1, Inductive, PTL

\* A process that is spawned where none was: for which object.
LEMMA SpawnedFor ==
    ASSUME Typed, NEW o \in States, NEW p0, NEW n, NEW h, Spawn(o, p0, n, h),
           NEW p \in Procs, status[p] = "unborn", status'[p] = "running"
    PROVE  owner'[p] = o
  BY DEF Spawn, Typed

\* A halt spawns nothing.
LEMMA HaltSpawnsNothing ==
    ASSUME Typed, NEW o, NEW rest, HaltThen(o, rest), NEW p \in Procs, status'[p] = "running"
    PROVE  status[p] = "running"
  BY DEF HaltThen, Typed, processes

\* A step spawns a process only where the count of failures allows it.
LEMMA GivesUpStep ==
    ASSUME IInv, [Next]_vars, ~crossed, NEW p \in Procs, status[p] = "unborn", status'[p] = "running"
    PROVE  fails'[owner'[p]] < MaxFails
<1> USE SupervisorAssumption DEF IInv, Steady
<1>1. CASE ReloadFires \/ StopTrain \/ Shutdown
  <2>1. ~UNCHANGED processes /\ ~(\E rest \in {"restart", "stop", "shutdown"} : HaltThen(current, rest))
    BY HaltSpawnsNothing DEF processes
  <2>2. PICK o \in States : StartTrain(o)
    BY <1>1, <2>1 DEF ReloadFires, StopTrain, Shutdown
  <2>3. o \notin made /\ fails' = fails /\ Spawn(o, None, 0, FALSE)
    BY <2>2 DEF StartTrain
  <2>4. owner'[p] = o
    BY <2>3, SpawnedFor
  <2> QED  BY <2>3, <2>4 DEF OneAtATime, Fresh
<1>2. CASE RestartRest
  <2>1. Head(ready).obj \in States
    BY <1>2, ReadyHead DEF RestartRest, Sound
  <2>2. owner'[p] = Head(ready).obj
    BY <1>2, <2>1, SpawnedFor DEF RestartRest
  <2>3. fails'[owner'[p]] = 0
    BY <1>2, <2>1, <2>2 DEF RestartRest, Typed
  <2> QED  BY <2>3
<1>3. ASSUME NEW o \in States, RestartTimer(o) PROVE fails'[owner'[p]] < MaxFails
  <2>1. fails' = fails /\ fails[o] < MaxFails
    BY <1>3 DEF RestartTimer, OneAtATime, TimerIsAlone
  <2>2. owner'[p] = o
    BY <1>3, SpawnedFor DEF RestartTimer, processes
  <2> QED  BY <2>1, <2>2
<1>4. ASSUME NEW q \in Procs, Exit(q) PROVE FALSE
  BY <1>4 DEF Exit, Alive, Typed
<1>5. CASE \/ RequestReload \/ StopRest \/ ShutdownRest \/ UNCHANGED vars
           \/ \E o \in States : ResetFails(o)
           \/ \E c \in Calls : Call(c) \/ Respond(c) \/ Timeout(c)
  <2>1. UNCHANGED processes
    BY <1>5 DEF RequestReload, StopRest, ShutdownRest, vars, ResetFails, Call, Respond, Timeout
  <2> QED  BY <2>1 DEF processes
<1> QED  BY <1>1, <1>2, <1>3, <1>4, <1>5 DEF Next

\* A train that failed MAX_CONSECUTIVE_FAILS times is not spawned again before
\* its count was cleared, until a reload or a stop meets an earlier one.
THEOREM TrainsAreGivenUp == Spec => GivesUp
<1>1. IInv /\ [Next]_vars =>
        [\A p \in Procs : ~crossed /\ status[p] = "unborn" /\ status'[p] = "running"
            => fails'[owner'[p]] < MaxFails]_vars
  BY GivesUpStep
<1> QED  BY <1>1, Inductive, PTL DEF Spec, GivesUp
=============================================================================
