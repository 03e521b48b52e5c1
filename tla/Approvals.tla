------------------------------ MODULE Approvals ------------------------------
(***************************************************************************)
(* The owner's approvals: a tool that needs one waits in the runner        *)
(* (packages/sdk-runner approvals.ts, link.ts) while the daemon holds a    *)
(* prompt for the owner (apps/daemon approvals/pending.ts).  An allow      *)
(* leaves a grant in the daemon; the tool call that arrives afterwards has *)
(* to take that grant at the policy gate (mcp/policy-gate.ts).  Prompts    *)
(* and grants end with their voice call, with their session, by a cancel   *)
(* from the runner, by age, and when the daemon goes down: both are kept   *)
(* in memory only.  mcp.metro.box hands its own approvals to the same      *)
(* list (mcp/server-approvals.ts).                                         *)
(*                                                                         *)
(* A request stands for its 5-letter id, an action for a tool with its     *)
(* exact arguments.  The chat line of a prompt, who may answer there, and  *)
(* the wording are left out: either way of answering ends in answerPrompt. *)
(* Messages from the runner are separate HTTP posts, so they may arrive in *)
(* any order or not at all.                                                *)
(***************************************************************************)
EXTENDS Naturals, Sequences, FiniteSets, Lists

CONSTANTS
    Requests,     \* approval ids
    Server,       \* those that mcp.metro.box asked for
    Foreign,      \* those about a tool of another MCP server with the same short name
    Actions,      \* a tool and its arguments
    Calls,        \* voice calls (a route with its generation)
    None,
    Wants,        \* [Requests -> Actions]: the call a request is about
    Shows,        \* [Requests -> SUBSET Actions]: the calls its preview matches
    Target,       \* [Actions -> None or a pair of a voice call and a source]: speech
    Access,       \* [Actions -> {"allow", "ask", "deny"}]: the owner's policy
    PendingMax, GrantsMax, PromptTTL, GrantTTL, RecentTTL,
    MaxFaults,    \* bound on closes, crashes, stops and unacknowledged answers
    Scenarios     \* bound: which requests are made in one behaviour, with how many faults

ASSUME RequestsAssumption ==
    /\ Server \subseteq Requests
    /\ Foreign \subseteq Requests \ Server
    /\ Scenarios \subseteq [made : SUBSET Requests, faults : 0..MaxFaults]
    /\ None \notin Calls
    /\ Wants \in [Requests -> Actions]
    /\ \A r \in Requests : Shows[r] \subseteq Actions /\ Wants[r] \in Shows[r]
    /\ \A a \in Actions : Target[a] = None \/ Target[a][1] \in Calls
    /\ \A r \in Server : Target[Wants[r]] = None
    /\ Access \in [Actions -> {"allow", "ask", "deny"}]

ASSUME BoundsAssumption ==
    /\ {PendingMax, GrantsMax, PromptTTL, GrantTTL, RecentTTL} \subseteq Nat \ {0}
    /\ MaxFaults \in Nat

VARIABLES
    ask,      \* [Requests -> "unmade", "new", "waiting", "allow", "deny"]: the asker's side
    posts,    \* messages from the runner on their way
    answers,  \* answers on their way to the askers
    held,     \* the daemon's prompts, in order of insertion
    asked,    \* [Requests -> time since the prompt's "at"]
    grants,   \* the daemon's unused allows, oldest first
    granted,  \* [Requests -> time since the owner's allow]
    recent,   \* [Requests -> time since an mcp.metro.box request was answered]
    live,     \* the daemon's voice call
    begun,    \* the voice calls that started so far
    active,   \* the voice call the runner knows of
    seen,     \* the voice calls the runner was told of
    faults,
    allowed,  \* history: the requests an owner allowed
    spent,    \* history: [Requests -> calls let through by the request's grant]
    revoked,  \* history: the requests withdrawn after the daemon had them
    settled,  \* history: the requests dropped because "the call reached metro"
    lost      \* history: all prompts that left the list without an answer

vars == <<ask, posts, answers, held, asked, grants, granted, recent, live, begun, active, seen,
          faults, allowed, spent, revoked, settled, lost>>
runnerVars == <<ask, posts, active, seen>>
daemonVars == <<held, asked, grants, granted, recent, live, begun>>
history == <<allowed, spent, revoked, settled, lost>>

-----------------------------------------------------------------------------
Post(kind, r) == [kind |-> kind, req |-> r]
Says(r, behavior) == [req |-> r, behavior |-> behavior]
Runners == Requests \ Server

(* The voice call a request is bound to. *)
CallOf(r) == IF Target[Wants[r]] = None THEN None ELSE Target[Wants[r]][1]
BoundTo(c) == IF c = None THEN {} ELSE {r \in Requests : CallOf(r) = c}

(* The daemon had the request: its post is no longer on its way. *)
Received == {r \in Runners : ask[r] \notin {"new", "unmade"} /\ Post("ask", r) \notin posts}

Init ==
    /\ \E s \in Scenarios :
          /\ ask = [r \in Requests |-> IF r \in s.made THEN "new" ELSE "unmade"]
          /\ faults = MaxFaults - s.faults
    /\ posts = {} /\ answers = {}
    /\ held = <<>> /\ asked = [r \in Requests |-> 0]
    /\ grants = <<>> /\ granted = [r \in Requests |-> 0]
    /\ recent = [r \in Requests |-> RecentTTL]
    /\ live = None /\ begun = {} /\ active = None /\ seen = {}
    /\ allowed = {} /\ spent = [r \in Requests |-> 0]
    /\ revoked = {} /\ settled = {} /\ lost = {}

-----------------------------------------------------------------------------
(* The runner. *)

(* canUseTool of approvalsThrough.  A speech target that is not on the     *)
(* active call is denied without asking.                                   *)
Ask(r) ==
    /\ r \in Runners /\ ask[r] = "new"
    /\ IF CallOf(r) \in {None, active}
         THEN ask' = [ask EXCEPT ![r] = "waiting"] /\ posts' = posts \union {Post("ask", r)}
         ELSE ask' = [ask EXCEPT ![r] = "deny"] /\ UNCHANGED posts
    /\ UNCHANGED <<answers, daemonVars, active, seen, faults, history>>

(* The abort listener of MetroLink.ask, for each request in S. *)
Aborted(S) ==
    LET waits == {r \in S : ask[r] = "waiting"} IN
    /\ ask' = [r \in Requests |-> IF r \in waits THEN "deny" ELSE ask[r]]
    /\ posts' = posts \union {Post("cancel", r) : r \in waits}

Abort(r) ==
    /\ r \in Runners /\ ask[r] = "waiting"
    /\ Aborted({r})
    /\ UNCHANGED <<answers, daemonVars, active, seen, faults, history>>

(* The post fails: an ask is denied, a cancel only logged.  The daemon may *)
(* have it all the same, when only its response was lost.                  *)
PostFails(m) ==
    /\ m \in posts
    /\ posts' \in {posts, posts \ {m}}
    /\ ask' = IF m.kind = "ask" /\ ask[m.req] = "waiting" THEN [ask EXCEPT ![m.req] = "deny"] ELSE ask
    /\ UNCHANGED <<answers, daemonVars, active, seen, faults, history>>

(* RunnerCalls: a call started, which ends the one before, or the runner   *)
(* learns, from a notice or when its stream is attached again, that its    *)
(* call is over.  Asks bound to the call that ended are aborted.           *)
HearStart(c) ==
    /\ c \in begun \ seen
    /\ seen' = seen \union {c} /\ active' = c
    /\ Aborted(BoundTo(active))
    /\ UNCHANGED <<answers, daemonVars, faults, history>>

HearEnd ==
    /\ active # None /\ active # live
    /\ active' = None
    /\ Aborted(BoundTo(active))
    /\ UNCHANGED <<answers, daemonVars, seen, faults, history>>

(* MetroLink.answered, or mcp.metro.box taking the answer. *)
Deliver(m) ==
    /\ m \in answers
    /\ answers' = answers \ {m}
    /\ ask' = IF ask[m.req] = "waiting" THEN [ask EXCEPT ![m.req] = m.behavior] ELSE ask
    /\ UNCHANGED <<posts, daemonVars, active, seen, faults, history>>

(* The runner stops: asks bound to its call are aborted, then MetroLink.close *)
(* denies the others without telling the daemon.                           *)
RunnerStop ==
    /\ faults < MaxFaults /\ faults' = faults + 1
    /\ ask' = [r \in Requests |-> IF r \in Runners /\ ask[r] = "waiting" THEN "deny" ELSE ask[r]]
    /\ posts' = posts \union {Post("cancel", r) : r \in {b \in BoundTo(active) : ask[b] = "waiting"}}
    /\ active' = None
    /\ UNCHANGED <<answers, daemonVars, seen, history>>

-----------------------------------------------------------------------------
(* The daemon. *)

(* Mutant: nothing bounds the list. *)
HoldPromptUnbounded(r) == held' = Append(held, r) /\ UNCHANGED lost

(* holdPrompt: the oldest prompt goes, unanswered, when there are too many. *)
HoldPrompt(r) ==
    LET all == Append(held, r) IN
    IF Len(all) > PendingMax
      THEN held' = Tail(all) /\ lost' = lost \union {Head(all)}
      ELSE held' = all /\ UNCHANGED lost

(* The permission_request handler; permissionCall refuses a source that is *)
(* not of the live call.                                                   *)
ReceiveAsk(r) ==
    /\ Post("ask", r) \in posts
    /\ posts' = posts \ {Post("ask", r)}
    /\ IF CallOf(r) \in {None, live}
         THEN /\ HoldPrompt(r)
              /\ asked' = [asked EXCEPT ![r] = 0]
              /\ UNCHANGED answers
         ELSE answers' = answers \union {Says(r, "deny")} /\ UNCHANGED <<held, asked, lost>>
    /\ UNCHANGED <<ask, grants, granted, recent, live, begun, active, seen, faults, allowed, spent, revoked, settled>>

(* Mutant: a request of mcp.metro.box that was seen once is skipped. *)
ServerSendsOnce(r) ==
    /\ r \in Server /\ ask[r] = "new"
    /\ HoldPrompt(r)
    /\ asked' = [asked EXCEPT ![r] = 0]
    /\ ask' = [ask EXCEPT ![r] = "waiting"]
    /\ UNCHANGED <<posts, answers, grants, granted, recent, live, begun, active, seen, faults, allowed, spent, revoked, settled>>

(* holdServerApproval: mcp.metro.box sends a pending request every minute. *)
ServerSends(r) ==
    /\ r \in Server /\ ask[r] \in {"new", "waiting"}
    /\ r \notin Elements(held) /\ recent[r] = RecentTTL
    /\ HoldPrompt(r)
    /\ asked' = IF ask[r] = "new" THEN [asked EXCEPT ![r] = 0] ELSE asked
    /\ ask' = [ask EXCEPT ![r] = "waiting"]
    /\ UNCHANGED <<posts, answers, grants, granted, recent, live, begun, active, seen, faults, allowed, spent, revoked, settled>>

(* Mutant: only a prompt that is still held is cancelled, not its grant. *)
CancelledIfHeld(S) ==
    /\ UNCHANGED grants
    /\ held' = Without(held, S)
    /\ answers' = answers \union {Says(r, "deny") : r \in S \cap Elements(held)}

(* Mutant: a cancelled prompt is dropped without an answer. *)
CancelledSilently(S) ==
    /\ grants' = Without(grants, S)
    /\ held' = Without(held, S)
    /\ UNCHANGED answers

(* cancelPrompt, for each request in S: its grant goes too. *)
Cancelled(S) ==
    /\ grants' = Without(grants, S)
    /\ held' = Without(held, S)
    /\ answers' = answers \union {Says(r, "deny") : r \in S \cap Elements(held)}

ReceiveCancel(r) ==
    /\ Post("cancel", r) \in posts
    /\ posts' = posts \ {Post("cancel", r)}
    /\ Cancelled({r})
    /\ revoked' = revoked \union ({r} \cap Received)
    /\ UNCHANGED <<ask, asked, granted, recent, live, begun, active, seen, faults, allowed, spent, settled, lost>>

(* grant: the expired ones are dropped, and the oldest beyond the limit. *)
Grant(r) ==
    LET all == Append(Without(grants, {g \in Runners : granted[g] = GrantTTL}), r) IN
    /\ grants' = IF Len(all) > GrantsMax THEN Tail(all) ELSE all
    /\ granted' = [granted EXCEPT ![r] = 0]

(* answerPrompt.  An mcp.metro.box request leaves no grant here. *)
AnswerPrompt(r, behavior, expiry) ==
    /\ r \in Elements(held)
    /\ held' = Without(held, {r})
    /\ IF behavior = "allow" /\ ~expiry /\ r \notin Server THEN Grant(r) ELSE UNCHANGED <<grants, granted>>
    /\ recent' = IF r \in Server THEN [recent EXCEPT ![r] = 0] ELSE recent
    /\ answers' = answers \union {Says(r, behavior)}
    /\ UNCHANGED <<ask, posts, asked, live, begun, active, seen, faults, spent, revoked, settled, lost>>

OwnerAnswers(r) ==
    \E behavior \in {"allow", "deny"} :
        /\ AnswerPrompt(r, behavior, FALSE)
        /\ allowed' = IF behavior = "allow" THEN allowed \union {r} ELSE allowed

Expire(r) ==
    /\ asked[r] = PromptTTL
    /\ AnswerPrompt(r, "deny", TRUE)
    /\ UNCHANGED allowed

(* settlePromptsFor, policyGate and takeGrant: a tool call arrives.  Every  *)
(* prompt that shows it is dropped, whoever asked and whatever the gate     *)
(* then says.                                                              *)
Settles(a) == {r \in Elements(held) \ Server : a \in Shows[r]}
Pays(r, a) ==
    /\ granted[r] < GrantTTL
    /\ r \notin Foreign
    /\ a \in Shows[r] /\ Target[a] = Target[Wants[r]]

(* Mutant: a grant stays until it is too old. *)
TakeGrantKept(i) == spent' = [spent EXCEPT ![grants[i]] = @ + 1] /\ UNCHANGED grants

TakeGrant(i) ==
    /\ grants' = CutAt(grants, i)
    /\ spent' = [spent EXCEPT ![grants[i]] = @ + 1]

ToolCall(a) ==
    LET usable == {i \in DOMAIN grants : Pays(grants[i], a)} IN
    /\ held' = Without(held, Settles(a))
    /\ settled' = settled \union Settles(a)
    /\ lost' = lost \union Settles(a)
    /\ IF Access[a] = "ask" /\ usable # {}
         THEN TakeGrant(CHOOSE i \in usable : \A j \in usable : i <= j)
         ELSE UNCHANGED <<grants, spent>>
    /\ UNCHANGED <<runnerVars, answers, asked, granted, recent, live, begun, faults, allowed, revoked>>

(* SharedCalls.open, which ends the call before, and SharedCalls.end: the   *)
(* bridge revokes what was bound to it (revokeCallPrompts).  Calls that no  *)
(* request is about are left out.                                           *)
StartCall(c) ==
    /\ c \notin begun /\ \E r \in Requests : ask[r] # "unmade" /\ CallOf(r) # None
    /\ begun' = begun \union {c} /\ live' = c
    /\ Cancelled(BoundTo(live))
    /\ revoked' = revoked \union BoundTo(live)
    /\ UNCHANGED <<runnerVars, asked, granted, recent, faults, allowed, spent, settled, lost>>

EndCall ==
    /\ live # None /\ live' = None
    /\ Cancelled(BoundTo(live))
    /\ revoked' = revoked \union BoundTo(live)
    /\ UNCHANGED <<runnerVars, asked, granted, recent, begun, faults, allowed, spent, settled, lost>>

(* McpSession.close: another session takes the slot.  The answers that the *)
(* stream had not sent are lost with it.                                   *)
Close ==
    /\ faults < MaxFaults /\ faults' = faults + 1
    /\ held' = Without(held, Runners)
    /\ grants' = <<>>
    /\ live' = None
    /\ answers' \in SUBSET (answers \union {Says(r, "deny") : r \in BoundTo(live) \cap Elements(held)})
    /\ lost' = lost \union (Elements(held) \cap Runners) \union {m.req : m \in answers \ answers'}
    /\ revoked' = revoked \union Received \union BoundTo(live)
    /\ UNCHANGED <<runnerVars, asked, granted, recent, begun, allowed, spent, settled>>

(* The daemon goes down; prompts, grants and recent answers were in memory.*)
Crash ==
    /\ faults < MaxFaults /\ faults' = faults + 1
    /\ held' = <<>> /\ grants' = <<>> /\ live' = None
    /\ recent' = [r \in Requests |-> RecentTTL]
    /\ answers' \in SUBSET answers
    /\ lost' = lost \union Elements(held) \union {m.req : m \in answers \ answers'}
    /\ revoked' = revoked \union Received \union BoundTo(live)
    /\ UNCHANGED <<runnerVars, asked, granted, begun, allowed, spent, settled>>

(* deliver: mcp.metro.box did not acknowledge the answer. *)
Unacknowledged(m) ==
    /\ m \in answers /\ m.req \in Server
    /\ faults < MaxFaults /\ faults' = faults + 1
    /\ answers' = answers \ {m}
    /\ UNCHANGED <<runnerVars, daemonVars, history>>

(* Time passes; an age is not told apart beyond its limit. *)
Older(age, limit) == [r \in Requests |-> IF age[r] < limit THEN age[r] + 1 ELSE limit]
Tick ==
    /\ asked' = Older(asked, PromptTTL)
    /\ granted' = Older(granted, GrantTTL)
    /\ recent' = Older(recent, RecentTTL)
    /\ UNCHANGED <<runnerVars, answers, held, grants, live, begun, faults, history>>

-----------------------------------------------------------------------------
Next ==
    \/ \E r \in Requests :
           \/ Ask(r) \/ Abort(r) \/ ReceiveAsk(r) \/ ReceiveCancel(r)
           \/ ServerSends(r) \/ OwnerAnswers(r) \/ Expire(r)
    \/ \E m \in posts : PostFails(m)
    \/ \E m \in answers : Deliver(m) \/ Unacknowledged(m)
    \/ \E a \in Actions : ToolCall(a)
    \/ \E c \in Calls : StartCall(c) \/ HearStart(c)
    \/ HearEnd \/ EndCall \/ Close \/ Crash \/ RunnerStop \/ Tick

Spec == Init /\ [][Next]_vars

(* Posts are received or fail, answers arrive while their stream lasts,    *)
(* time passes, the sweep runs every minute and mcp.metro.box sends what   *)
(* is pending again and again.  The owner need not answer at all.          *)
FairSpec ==
    /\ Spec
    /\ WF_vars(Tick)
    /\ \A r \in Requests :
         /\ WF_vars(ReceiveAsk(r)) /\ WF_vars(Expire(r)) /\ WF_vars(ServerSends(r))
         /\ WF_vars(\E m \in answers : m.req = r /\ Deliver(m))

-----------------------------------------------------------------------------
TypeOK ==
    /\ ask \in [Requests -> {"unmade", "new", "waiting", "allow", "deny"}]
    /\ posts \subseteq [kind : {"ask", "cancel"}, req : Runners]
    /\ answers \subseteq [req : Requests, behavior : {"allow", "deny"}]
    /\ held \in Seq(Requests) /\ Len(held) <= PendingMax
    /\ grants \in Seq(Runners) /\ Len(grants) <= GrantsMax
    /\ asked \in [Requests -> 0..PromptTTL]
    /\ granted \in [Requests -> 0..GrantTTL]
    /\ recent \in [Requests -> 0..RecentTTL]
    /\ live \in begun \union {None} /\ begun \subseteq Calls
    /\ active \in seen \union {None} /\ seen \subseteq begun
    /\ faults \in 0..MaxFaults
    /\ {allowed, revoked, settled, lost} \subseteq SUBSET Requests
    /\ spent \in [Requests -> Nat]

(* An asker goes ahead only with the owner's own allow, and one allow lets *)
(* one gated call through, whatever is cancelled, expires, is evicted or   *)
(* asked again meanwhile (policy-matrix.test.ts:232, "that call runs once, *)
(* another call or a second run waits again").                             *)
OwnerDecides ==
    \A r \in Requests :
        /\ ask[r] = "allow" => r \in allowed
        /\ spent[r] <= IF r \in allowed THEN 1 ELSE 0

(* A request that the runner cancelled, whose voice call ended or whose    *)
(* session was closed lets no call through any more, whether the owner had *)
(* allowed it before or does so after (HISTORY.md:361, "call-bound         *)
(* approvals are still revoked immediately").                              *)
RevokedLetsNothingThrough == [][\A r \in revoked : spent'[r] = spent[r]]_vars

(* Everyone who waits is waited for: the request is on its way, in the     *)
(* owner's list or answered, or its prompt was dropped without an answer;  *)
(* the rest of the daemon (cancel, revocation, refusal, expiry) never      *)
(* leaves an asker behind.                                                 *)
WaitingIsHeld ==
    \A r \in Runners : ask[r] = "waiting" =>
        \/ Post("ask", r) \in posts
        \/ r \in Elements(held)
        \/ \E m \in answers : m.req = r
        \/ r \in lost

(* Every ask ends, even when the owner never looks at it: the 24 hour      *)
(* sweep of expirePrompts denies it.  Only a prompt that was dropped       *)
(* without an answer may leave its asker waiting.                          *)
EveryAskSettles == \A r \in Requests : []<>(ask[r] # "waiting" \/ r \in lost)

(* What settlePrompts says of a prompt it drops (pending.ts:158): "the     *)
(* call reached metro, so Claude Code already closed the prompt".          *)
SettledWasClosed == \A r \in settled : ask[r] # "waiting"
=============================================================================
