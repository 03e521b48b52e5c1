------------------------------ MODULE Mailbox ------------------------------
(***************************************************************************)
(* What the runner promises about each chat it accepts                     *)
(* (docs/HISTORY.md, "Durable worker recovery"): it is answered at most    *)
(* once and only after the agent got it; it is reported as interrupted     *)
(* only if the agent got it and it was not answered; it is given up only   *)
(* when it waited too long and was never seen to begin, or when the user   *)
(* stops the session; and from any of these ends there is no way back.     *)
(* Several chats may move in one step.                                     *)
(***************************************************************************)
CONSTANT Chats

VARIABLES
    box,      \* where each chat is: "new", "open", "interrupted", or at an end:
              \* "finished", "handled", "expired", "cancelled"
    given,    \* chats the agent got
    begun,    \* chats the runner saw the agent begin
    late,     \* chats that wait too long
    stopped   \* has the user stopped the session?

mailbox == <<box, given, begun, late, stopped>>

Init ==
    /\ box = [u \in Chats |-> "new"]
    /\ given = {} /\ begun = {} /\ late = {} /\ stopped = FALSE

\* Chat u moves from one box to another.
Move(u, from, to) ==
    /\ box[u] = from /\ box'[u] = to
    /\ u \in given' <=> u \in given
    /\ u \in begun' <=> u \in begun

Stay(u) == Move(u, box[u], box[u])

Accept(u) == Move(u, "new", "open")

Give(u) == /\ box[u] = "open" /\ box'[u] = "open"
           /\ u \in given' /\ (u \in begun' <=> u \in begun)

Begin(u) == /\ box[u] = "open" /\ box'[u] = "open"
            /\ u \in given /\ u \in given' /\ u \in begun'

Answer(u) == u \in given /\ Move(u, "open", "finished")

Interrupt(u) == u \in given /\ Move(u, "open", "interrupted")

\* The agent has dealt with the interruption.
Handle(u) == Move(u, "interrupted", "handled")

Expire(u) == u \in late /\ u \notin begun /\ Move(u, "open", "expired")

Cancel(u) == ~stopped /\ stopped' /\ \E from \in {"open", "interrupted"} : Move(u, from, "cancelled")

Next ==
    /\ late \subseteq late'
    /\ \A u \in Chats : \/ Stay(u) \/ Accept(u) \/ Give(u) \/ Begin(u) \/ Answer(u)
                        \/ Interrupt(u) \/ Handle(u) \/ Expire(u) \/ Cancel(u)

Spec == Init /\ [][Next]_mailbox
=============================================================================
