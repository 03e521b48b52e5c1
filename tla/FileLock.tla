------------------------------- MODULE FileLock -------------------------------
(***************************************************************************)
(* The lock file of the command line tool (packages/cli/src/lock.ts), on   *)
(* which concurrent prepares of the runner store take turns (agent.ts).    *)
(* A process creates the file exclusively and then writes its pid into it; *)
(* one that finds the file there looks at its age and its pid, and removes *)
(* it when it takes the owner for gone.  Each system call is a step.       *)
(***************************************************************************)
EXTENDS Naturals

CONSTANTS
    Procs,
    None,
    Grace,       \* EMPTY_GRACE_MS: how long a file may stay empty
    Stale,       \* staleMs: the age at which the owner no longer counts
    MaxAge,      \* bound: the file gets no older
    MaxCrashes,  \* bound on processes that die
    MaxFull      \* bound on writes that fail, on a full disk

VARIABLES
    file,     \* None, or who created it, whether the pid is in it, its age
    pc,       \* [Procs -> the next system call]
    crashes, full

vars == <<file, pc, crashes, full>>

Init ==
    /\ file = None
    /\ pc = [p \in Procs |-> "idle"]
    /\ crashes = 0 /\ full = 0

Goto(p, state) == pc' = [pc EXCEPT ![p] = state]
Mine(p) == file # None /\ file.by = p

-----------------------------------------------------------------------------
Begin(p) ==
    /\ pc[p] = "idle"
    /\ Goto(p, "open")
    /\ UNCHANGED <<file, crashes, full>>

(* takeLock: openSync(path, 'wx'), the second time without another retry.  *)
Open(p) ==
    /\ pc[p] \in {"open", "reopen"}
    /\ IF file = None
         THEN file' = [by |-> p, written |-> FALSE, age |-> 0] /\ Goto(p, "write")
         ELSE Goto(p, IF pc[p] = "open" THEN "stat" ELSE "failed") /\ UNCHANGED file
    /\ UNCHANGED <<crashes, full>>

(* The pid goes to the file the process created, even if the path is not   *)
(* that file any more.                                                     *)
Write(p) ==
    /\ pc[p] = "write"
    /\ file' = IF Mine(p) THEN [file EXCEPT !.written = TRUE] ELSE file
    /\ Goto(p, "held")
    /\ UNCHANGED <<crashes, full>>

(* The write fails: whatever is at the path is removed. *)
WriteFails(p) ==
    /\ pc[p] = "write" /\ full < MaxFull
    /\ full' = full + 1
    /\ file' = None
    /\ Goto(p, "idle")
    /\ UNCHANGED crashes

(* lockHeld: the age first, then the text. *)
Stat(p) ==
    /\ pc[p] = "stat"
    /\ Goto(p, CASE file = None -> "unlink"
                 [] file # None /\ file.age >= Stale -> "unlink"
                 [] file # None /\ file.age < Stale /\ file.age >= Grace -> "readEmptyOld"
                 [] OTHER -> "read")
    /\ UNCHANGED <<file, crashes, full>>

LockHeld(p) ==
    /\ file # None
    /\ IF file.written THEN pc[file.by] # "dead" ELSE pc[p] = "read"

Read(p) ==
    /\ pc[p] \in {"read", "readEmptyOld"}
    /\ Goto(p, IF LockHeld(p) THEN "failed" ELSE "unlink")
    /\ UNCHANGED <<file, crashes, full>>

Unlink(p) ==
    /\ pc[p] = "unlink"
    /\ file' = None
    /\ Goto(p, "reopen")
    /\ UNCHANGED <<crashes, full>>

(* withLock: try again after a pause, or give up when the wait is over. *)
Again(p) ==
    /\ pc[p] = "failed"
    /\ \E next \in {"open", "idle"} : Goto(p, next)
    /\ UNCHANGED <<file, crashes, full>>

(* withLock's finally: the file is removed if it still has this pid. *)
Release(p) ==
    /\ pc[p] = "held"
    /\ Goto(p, IF Mine(p) /\ file.written THEN "release" ELSE "idle")
    /\ UNCHANGED <<file, crashes, full>>

Remove(p) ==
    /\ pc[p] = "release"
    /\ file' = None
    /\ Goto(p, "idle")
    /\ UNCHANGED <<crashes, full>>

Crash(p) ==
    /\ pc[p] \notin {"idle", "dead"} /\ crashes < MaxCrashes
    /\ crashes' = crashes + 1
    /\ Goto(p, "dead")
    /\ UNCHANGED <<file, full>>

Older ==
    /\ file # None /\ file.age < MaxAge
    /\ file' = [file EXCEPT !.age = @ + 1]
    /\ UNCHANGED <<pc, crashes, full>>

-----------------------------------------------------------------------------
Step(p) ==
    \/ Begin(p) \/ Open(p) \/ Write(p) \/ Stat(p) \/ Read(p) \/ Unlink(p)
    \/ Again(p) \/ Release(p) \/ Remove(p)

Next ==
    \/ \E p \in Procs : Step(p) \/ WriteFails(p) \/ Crash(p)
    \/ Older

Spec == Init /\ [][Next]_vars

-----------------------------------------------------------------------------
Holders == {p \in Procs : pc[p] \in {"held", "release"}}

(* "One holder at a time" (lock.test.ts:27), "concurrent prepares take     *)
(* turns" (HISTORY.md:273): withLock never runs the work of two processes  *)
(* at once.  It does not hold: a waiter that found the file gone, or its   *)
(* owner, removes whatever is at the path a moment later.                  *)
OneHolder == \A p, q \in Holders : p = q

=============================================================================
