------------------------------- MODULE Duties -------------------------------
(***************************************************************************)
(* What the runner promises about work that failed or was cut off          *)
(* (docs/HISTORY.md, "Durable worker recovery"): it stays owed until the   *)
(* agent has dealt with it, the user stops the session, or all its         *)
(* reminders were told and its place is needed; and the agent is reminded  *)
(* of it at most Limit times. Several duties may move in one step.         *)
(***************************************************************************)
EXTENDS Naturals

CONSTANTS
    Duty,    \* pieces of work
    Limit    \* reminders for one failure

VARIABLES
    owed,     \* the duties of which there is something to remind the agent
    told,     \* how often the agent was reminded of each
    agreed,   \* a turn in which the agent said it dealt with it has succeeded
    stopped,  \* has the user stopped the session?
    full      \* is there no place left for another duty?

duties == <<owed, told, agreed, stopped, full>>

Init == owed = {} /\ told = [d \in Duty |-> 0] /\ agreed = {} /\ stopped = FALSE /\ full \in BOOLEAN

Same(d) == (d \in owed' <=> d \in owed) /\ told'[d] = told[d]

\* Work fails; a later attempt that fails is a new duty in place of the old.
Incur(d) == d \in owed' /\ told'[d] = 0 /\ d \notin agreed'

Tell(d) == /\ d \in owed /\ told[d] < Limit
           /\ d \in owed' /\ told'[d] = told[d] + 1 /\ (d \in agreed' <=> d \in agreed)

\* The agent can only agree to what it was told.
Agree(d) == d \in owed /\ told[d] > 0 /\ d \in agreed' /\ Same(d)

\* A restart may lose the agreement, never the duty.
Forget(d) == d \notin agreed' /\ Same(d)

Over(d) == d \notin owed' /\ told'[d] = 0 /\ d \notin agreed'

Settle(d) == d \in owed /\ d \in agreed /\ Over(d)

\* Told as often as it may be, it gives way to newer work, which takes the
\* last place.
GiveWay(d) == d \in owed /\ full' /\ told[d] = Limit /\ Over(d)

Stop == stopped' /\ \A d \in Duty : Over(d)

Next ==
    \/ Stop
    \/ \A d \in Duty : Incur(d) \/ Tell(d) \/ Agree(d) \/ Forget(d) \/ Settle(d) \/ GiveWay(d)

Spec == Init /\ [][Next]_duties
=============================================================================
