--------------------------- MODULE ApprovalsProofs ---------------------------
(***************************************************************************)
(* Proofs about Approvals, for any number of requests, actions and voice   *)
(* calls, any limits and ages, and any number of faults: the owner's allow *)
(* lets one call through, what was withdrawn lets none through, and nobody *)
(* who asks is left waiting except by a dropped prompt.                    *)
(*                                                                         *)
(* The argument follows a request of a runner on its one way through the   *)
(* daemon: early, while nothing of it has arrived; held; allowed, with a   *)
(* grant that nothing has taken; and then gone. It is never in two of      *)
(* these places, and never goes back.                                      *)
(***************************************************************************)
EXTENDS Approvals, ListProofs

Prompts == Elements(held)
Unused == Elements(grants)

\* Nothing of the request has reached the daemon.
Early(r) == ask[r] \in {"unmade", "new"} \/ Post("ask", r) \in posts

OneWay ==
    \A r \in Runners :
        /\ Post("ask", r) \in posts => ask[r] \notin {"unmade", "new"}
        /\ Early(r) => r \notin Prompts /\ r \notin Unused /\ r \notin allowed
        /\ r \in Prompts => r \notin Unused /\ r \notin allowed

\* A grant is the owner's allow, kept once and not taken yet.
GrantsSound ==
    /\ NoneTwice(grants)
    /\ \A r \in Unused : r \in allowed /\ spent[r] = 0

AllowsSound == \A m \in answers : m.behavior = "allow" => m.req \in allowed

\* What was withdrawn has left the daemon. If it is still on its way, it is
\* bound to a voice call that is over, so that it will be refused.
Withdrawn ==
    \A r \in revoked :
        /\ r \in Runners /\ r \notin Prompts /\ r \notin Unused
        /\ Early(r) => CallOf(r) \in begun /\ CallOf(r) # live

Flow == OneWay /\ GrantsSound /\ AllowsSound /\ Withdrawn /\ OwnerDecides
GateInv == TypeOK /\ Flow

(***************************************************************************)
(* The types.                                                              *)
(***************************************************************************)
LEMMA SaysType ==
    ASSUME NEW r \in Requests, NEW b \in {"allow", "deny"}
    PROVE  Says(r, b) \in [req : Requests, behavior : {"allow", "deny"}]
  BY DEF Says

LEMMA PostType ==
    ASSUME NEW r \in Runners, NEW k \in {"ask", "cancel"}
    PROVE  Post(k, r) \in [kind : {"ask", "cancel"}, req : Runners]
  BY DEF Post

LEMMA CallType ==
    /\ \A r \in Requests : CallOf(r) \in Calls \union {None}
    /\ \A r \in Requests : CallOf(r) # None => r \in Runners
    /\ \A c : BoundTo(c) \subseteq Runners
<1>1. \A r \in Requests : Wants[r] \in Actions
  BY RequestsAssumption
<1>2. \A r \in Requests : CallOf(r) \in Calls \union {None}
  BY <1>1, RequestsAssumption DEF CallOf
<1>3. ASSUME NEW r \in Requests, CallOf(r) # None PROVE r \in Runners
  BY <1>3, RequestsAssumption DEF CallOf, Runners
<1> QED  BY <1>2, <1>3 DEF BoundTo

\* The list of prompts keeps its limit; the oldest goes when it is full.
LEMMA HoldType ==
    ASSUME held \in Seq(Requests), Len(held) <= PendingMax, lost \subseteq Requests,
           NEW r \in Requests, HoldPrompt(r)
    PROVE  /\ held' \in Seq(Requests) /\ Len(held') <= PendingMax /\ lost' \subseteq Requests
           /\ Elements(held') \subseteq Elements(held) \union {r}
           /\ lost \subseteq lost'
           /\ Elements(held) \union {r} \subseteq Elements(held') \union lost'
<1> DEFINE all == Append(held, r)
<1>1. /\ all \in Seq(Requests) /\ Len(all) = Len(held) + 1 /\ Len(held) \in Nat
      /\ Elements(all) = Elements(held) \union {r}
  BY AppendIs, LenProperties
<1>2. /\ Len(all) > PendingMax => held' = Tail(all) /\ lost' = lost \union {Head(all)}
      /\ ~(Len(all) > PendingMax) => held' = all /\ lost' = lost
  BY DEF HoldPrompt
<1> HIDE DEF all
<1>3. PendingMax \in Nat /\ PendingMax # 0
  BY BoundsAssumption
<1>4. CASE Len(all) > PendingMax
  <2>1. all # <<>>
    BY <1>1, <1>3, <1>4
  <2>2. /\ Tail(all) \in Seq(Requests) /\ Len(Tail(all)) = Len(all) - 1
        /\ Elements(all) = Elements(Tail(all)) \union {Head(all)}
    BY <1>1, <2>1, TailIs
  <2>3. Elements(all) \subseteq Requests
    BY <1>1 DEF Elements
  <2>4. Len(held') <= PendingMax
    BY <1>1, <1>2, <1>3, <1>4, <2>2
  <2> QED  BY <1>1, <1>2, <1>4, <2>2, <2>3, <2>4
<1>5. CASE ~(Len(all) > PendingMax)
  BY <1>1, <1>2, <1>3, <1>5
<1> QED  BY <1>4, <1>5

\* A grant goes behind the unused ones that are not too old.
LEMMA GrantType ==
    ASSUME grants \in Seq(Runners), Len(grants) <= GrantsMax, granted \in [Requests -> 0..GrantTTL],
           NEW r \in Runners, Grant(r)
    PROVE  /\ grants' \in Seq(Runners) /\ Len(grants') <= GrantsMax
           /\ granted' \in [Requests -> 0..GrantTTL]
           /\ Elements(grants') \subseteq Elements(grants) \union {r}
           /\ NoneTwice(grants) /\ r \notin Elements(grants) => NoneTwice(grants')
<1> DEFINE young == Without(grants, {g \in Runners : granted[g] = GrantTTL})
           all == Append(young, r)
<1>1. /\ young \in Seq(Runners) /\ Len(young) <= Len(grants) /\ Len(young) \in Nat
      /\ Elements(young) \subseteq Elements(grants)
      /\ NoneTwice(grants) => NoneTwice(young)
  BY WithoutIs, LenProperties
<1>2. IF Len(all) > GrantsMax THEN grants' = Tail(all) ELSE grants' = all
  BY DEF Grant
<1> HIDE DEF young
<1>3. /\ all \in Seq(Runners) /\ Len(all) = Len(young) + 1
      /\ Elements(all) = Elements(young) \union {r}
      /\ NoneTwice(young) /\ r \notin Elements(young) => NoneTwice(all)
  BY <1>1, AppendIs
<1> HIDE DEF all
<1>4. GrantsMax \in Nat /\ GrantsMax # 0 /\ GrantTTL \in Nat /\ Len(grants) \in Nat
  BY BoundsAssumption, LenProperties
<1>5. granted' \in [Requests -> 0..GrantTTL]
  BY <1>4 DEF Grant, Runners
<1>6. CASE Len(all) > GrantsMax
  <2>1. all # <<>>
    BY <1>1, <1>3
  <2>2. /\ Tail(all) \in Seq(Runners) /\ Len(Tail(all)) = Len(all) - 1
        /\ Elements(all) = Elements(Tail(all)) \union {Head(all)}
        /\ NoneTwice(all) => NoneTwice(Tail(all))
    BY <1>3, <2>1, TailIs
  <2>3. Len(grants') <= GrantsMax
    BY <1>1, <1>2, <1>3, <1>4, <1>6, <2>2
  <2> QED  BY <1>1, <1>2, <1>3, <1>5, <1>6, <2>2, <2>3
<1>7. CASE ~(Len(all) > GrantsMax)
  <2>1. Len(grants') <= GrantsMax
    BY <1>1, <1>2, <1>3, <1>4, <1>7
  <2> QED  BY <1>1, <1>2, <1>3, <1>5, <1>7, <2>1
<1> QED  BY <1>6, <1>7

\* Withdrawing prompts takes them and their grants off the lists, and answers.
LEMMA CancelType ==
    ASSUME TypeOK, NEW S, S \subseteq Requests, Cancelled(S)
    PROVE  /\ grants' \in Seq(Runners) /\ Len(grants') <= GrantsMax
           /\ held' \in Seq(Requests) /\ Len(held') <= PendingMax
           /\ answers' \subseteq [req : Requests, behavior : {"allow", "deny"}]
           /\ Elements(held') = Elements(held) \ S /\ Elements(grants') = Elements(grants) \ S
           /\ NoneTwice(grants) => NoneTwice(grants')
<1>1. /\ held \in Seq(Requests) /\ Len(held) <= PendingMax /\ grants \in Seq(Runners) /\ Len(grants) <= GrantsMax
      /\ answers \subseteq [req : Requests, behavior : {"allow", "deny"}]
  BY DEF TypeOK
<1>2. /\ held' = Without(held, S) /\ grants' = Without(grants, S)
      /\ answers' = answers \union {Says(r, "deny") : r \in S \cap Elements(held)}
  BY DEF Cancelled
<1>3. /\ held' \in Seq(Requests) /\ Len(held') <= Len(held) /\ Elements(held') = Elements(held) \ S
      /\ grants' \in Seq(Runners) /\ Len(grants') <= Len(grants) /\ Elements(grants') = Elements(grants) \ S
      /\ NoneTwice(grants) => NoneTwice(grants')
  BY <1>1, <1>2, WithoutIs
<1>4. Len(held) \in Nat /\ Len(held') \in Nat /\ Len(grants) \in Nat /\ Len(grants') \in Nat
      /\ PendingMax \in Nat /\ GrantsMax \in Nat
  BY <1>1, <1>3, LenProperties, BoundsAssumption
<1>5. Len(held') <= PendingMax /\ Len(grants') <= GrantsMax
  BY <1>1, <1>3, <1>4
<1>6. answers' \subseteq [req : Requests, behavior : {"allow", "deny"}]
  BY <1>1, <1>2, SaysType
<1> QED  BY <1>3, <1>5, <1>6

LEMMA AbortType ==
    ASSUME TypeOK, NEW S, S \subseteq Runners, Aborted(S)
    PROVE  /\ ask' \in [Requests -> {"unmade", "new", "waiting", "allow", "deny"}]
           /\ posts' \subseteq [kind : {"ask", "cancel"}, req : Runners]
<1>1. posts \subseteq [kind : {"ask", "cancel"}, req : Runners]
  BY DEF TypeOK
<1> QED  BY <1>1, PostType DEF Aborted, TypeOK

LEMMA AnswerType ==
    ASSUME TypeOK, NEW r \in Requests, NEW b \in {"allow", "deny"}, NEW e \in BOOLEAN,
           AnswerPrompt(r, b, e)
    PROVE  /\ held' \in Seq(Requests) /\ Len(held') <= PendingMax /\ Elements(held') = Elements(held) \ {r}
           /\ grants' \in Seq(Runners) /\ Len(grants') <= GrantsMax
           /\ granted' \in [Requests -> 0..GrantTTL] /\ recent' \in [Requests -> 0..RecentTTL]
           /\ answers' = answers \union {Says(r, b)}
           /\ answers' \subseteq [req : Requests, behavior : {"allow", "deny"}]
<1>1. /\ held \in Seq(Requests) /\ Len(held) <= PendingMax /\ grants \in Seq(Runners) /\ Len(grants) <= GrantsMax
      /\ answers \subseteq [req : Requests, behavior : {"allow", "deny"}]
      /\ granted \in [Requests -> 0..GrantTTL] /\ recent \in [Requests -> 0..RecentTTL]
  BY DEF TypeOK
<1>2. /\ held' = Without(held, {r}) /\ answers' = answers \union {Says(r, b)}
      /\ IF b = "allow" /\ ~e /\ r \notin Server THEN Grant(r) ELSE UNCHANGED <<grants, granted>>
      /\ recent' = IF r \in Server THEN [recent EXCEPT ![r] = 0] ELSE recent
  BY DEF AnswerPrompt
<1>3. /\ held' \in Seq(Requests) /\ Len(held') <= Len(held) /\ Elements(held') = Elements(held) \ {r}
      /\ Len(held) \in Nat /\ Len(held') \in Nat /\ PendingMax \in Nat
  BY <1>1, <1>2, WithoutIs, LenProperties, BoundsAssumption
<1>4. Len(held') <= PendingMax
  BY <1>1, <1>3
<1>5. grants' \in Seq(Runners) /\ Len(grants') <= GrantsMax /\ granted' \in [Requests -> 0..GrantTTL]
  <2>1. CASE b = "allow" /\ ~e /\ r \notin Server
    <3>1. r \in Runners /\ Grant(r)
      BY <1>2, <2>1 DEF Runners
    <3> QED  BY <1>1, <3>1, GrantType
  <2>2. CASE ~(b = "allow" /\ ~e /\ r \notin Server)
    BY <1>1, <1>2, <2>2
  <2> QED  BY <2>1, <2>2
<1>6. recent' \in [Requests -> 0..RecentTTL]
  BY <1>1, <1>2, BoundsAssumption
<1>7. answers' \subseteq [req : Requests, behavior : {"allow", "deny"}]
  BY <1>1, <1>2, SaysType
<1> QED  BY <1>2, <1>3, <1>4, <1>5, <1>6, <1>7

\* A call that finds a grant takes one of a request that shows it.
LEMMA TakeType ==
    ASSUME TypeOK, NoneTwice(grants), NEW i \in DOMAIN grants, TakeGrant(i)
    PROVE  /\ grants' \in Seq(Runners) /\ Len(grants') <= GrantsMax /\ NoneTwice(grants')
           /\ Elements(grants') = Elements(grants) \ {grants[i]}
           /\ grants[i] \in Elements(grants) /\ grants[i] \in Requests
           /\ spent' = [spent EXCEPT ![grants[i]] = @ + 1] /\ spent' \in [Requests -> Nat]
<1>1. grants \in Seq(Runners) /\ Len(grants) <= GrantsMax /\ spent \in [Requests -> Nat]
  BY DEF TypeOK
<1>2. /\ grants' = CutAt(grants, i)
      /\ spent' = [spent EXCEPT ![grants[i]] = @ + 1]
  BY DEF TakeGrant
<1>3. /\ grants' \in Seq(Runners) /\ Len(grants') = Len(grants) - 1
      /\ Elements(grants') = Elements(grants) \ {grants[i]} /\ NoneTwice(grants')
  BY <1>1, <1>2, CutIs
<1>4. Len(grants) \in Nat /\ GrantsMax \in Nat
  BY <1>1, LenProperties, BoundsAssumption
<1>5. Len(grants') <= GrantsMax
  BY <1>1, <1>3, <1>4
<1>6. grants[i] \in Runners
  BY <1>1, LenProperties
<1>7. grants[i] \in Elements(grants)
  BY DEF Elements
<1> QED  BY <1>1, <1>2, <1>3, <1>5, <1>6, <1>7 DEF Runners

\* What an arriving call does to grants: nothing, or it takes one.
LEMMA CallTakes ==
    ASSUME TypeOK, NEW a \in Actions, ToolCall(a)
    PROVE  \/ UNCHANGED <<grants, spent>>
           \/ \E i \in DOMAIN grants : Pays(grants[i], a) /\ TakeGrant(i)
<1> DEFINE usable == {i \in DOMAIN grants : Pays(grants[i], a)}
           first == CHOOSE i \in usable : \A j \in usable : i <= j
<1>1. IF Access[a] = "ask" /\ usable # {} THEN TakeGrant(first) ELSE UNCHANGED <<grants, spent>>
  BY DEF ToolCall
<1>2. usable \subseteq Nat
  <2>1. DOMAIN grants = 1..Len(grants) /\ Len(grants) \in Nat
    BY LenProperties DEF TypeOK
  <2> QED  BY <2>1
<1>3. usable # {} => first \in usable
  <2> HIDE DEF usable
  <2> QED  BY <1>2, Least
<1> HIDE DEF first
<1> QED  BY <1>1, <1>3

\* Ages grow up to their limit.
LEMMA OlderType ==
    ASSUME NEW n, n \in {PromptTTL, GrantTTL, RecentTTL}, NEW age \in [Requests -> 0..n]
    PROVE  Older(age, n) \in [Requests -> 0..n]
<1>1. n \in Nat
  BY BoundsAssumption
<1>2. ASSUME NEW r \in Requests PROVE (IF age[r] < n THEN age[r] + 1 ELSE n) \in 0..n
  BY <1>1
<1> QED  BY <1>2 DEF Older

\* The session closes, or the daemon goes down: the lists are cut, and only
\* denials are added to the answers.
LEMMA CloseType ==
    ASSUME TypeOK, Close \/ Crash
    PROVE  TypeOK'
<1>1. /\ faults' = faults + 1 /\ faults < MaxFaults /\ grants' = <<>> /\ live' = None
      /\ UNCHANGED <<ask, posts, active, seen, asked, granted, begun, allowed, spent, settled>>
      /\ recent' \in {recent, [r \in Requests |-> RecentTTL]}
      /\ held' \in {<<>>, Without(held, Runners)}
  BY DEF Close, Crash, runnerVars
<1>2. held' \in Seq(Requests) /\ Len(held') <= PendingMax
  <2>1. held \in Seq(Requests) /\ Len(held) <= PendingMax /\ PendingMax \in Nat
    BY BoundsAssumption DEF TypeOK
  <2>2. CASE held' = <<>>
    BY <2>1, <2>2
  <2>3. CASE held' = Without(held, Runners)
    <3>1. held' \in Seq(Requests) /\ Len(held') <= Len(held)
      BY <2>1, <2>3, WithoutIs
    <3>2. Len(held) \in Nat /\ Len(held') \in Nat
      BY <2>1, <3>1, LenProperties
    <3> QED  BY <2>1, <3>1, <3>2
  <2> QED  BY <1>1, <2>2, <2>3
<1>3. Elements(held) \subseteq Requests
  BY LenProperties DEF Elements, TypeOK
<1>4. answers' \subseteq [req : Requests, behavior : {"allow", "deny"}]
  <2>1. answers' \subseteq answers \union {Says(r, "deny") : r \in Elements(held)}
    BY DEF Close, Crash
  <2> QED  BY <1>3, <2>1, SaysType DEF TypeOK
<1>5. lost' \subseteq Requests
  <2>1. {m.req : m \in answers \ answers'} \subseteq Requests
    BY DEF TypeOK
  <2>2. lost' \subseteq lost \union Elements(held) \union {m.req : m \in answers \ answers'}
    BY DEF Close, Crash
  <2> QED  BY <1>3, <2>1, <2>2 DEF TypeOK
<1>6. revoked' \subseteq Requests
  <2>1. revoked' = revoked \union Received \union BoundTo(live)
    BY DEF Close, Crash
  <2> QED  BY <2>1 DEF TypeOK, Received, Runners, BoundTo
<1>7. /\ faults' \in 0..MaxFaults /\ recent' \in [Requests -> 0..RecentTTL]
      /\ grants' \in Seq(Runners) /\ Len(grants') <= GrantsMax
  BY <1>1, BoundsAssumption DEF TypeOK
<1> QED  BY <1>1, <1>2, <1>4, <1>5, <1>6, <1>7 DEF TypeOK

LEMMA TypeStep ==
    ASSUME TypeOK, NoneTwice(grants), [Next]_vars
    PROVE  TypeOK'
<1> DEFINE Asks == {"unmade", "new", "waiting", "allow", "deny"}
           Posted == [kind : {"ask", "cancel"}, req : Runners]
           Answered == [req : Requests, behavior : {"allow", "deny"}]
<1>a. ask \in [Requests -> Asks] /\ posts \subseteq Posted /\ answers \subseteq Answered
  BY DEF TypeOK
<1>b. /\ held \in Seq(Requests) /\ Len(held) <= PendingMax
      /\ grants \in Seq(Runners) /\ Len(grants) <= GrantsMax
  BY DEF TypeOK
<1>c. /\ asked \in [Requests -> 0..PromptTTL] /\ granted \in [Requests -> 0..GrantTTL]
      /\ recent \in [Requests -> 0..RecentTTL]
  BY DEF TypeOK
<1>d. /\ live \in begun \union {None} /\ begun \subseteq Calls
      /\ active \in seen \union {None} /\ seen \subseteq begun
  BY DEF TypeOK
<1>e. /\ allowed \subseteq Requests /\ revoked \subseteq Requests /\ settled \subseteq Requests
      /\ lost \subseteq Requests
      /\ spent \in [Requests -> Nat] /\ faults \in 0..MaxFaults
  BY DEF TypeOK
<1>f. MaxFaults \in Nat /\ Runners \subseteq Requests
      /\ 0 \in 0..PromptTTL /\ 0 \in 0..GrantTTL /\ 0 \in 0..RecentTTL
  BY BoundsAssumption DEF Runners
<1>k. \* The types, from those of the next state.
      ASSUME ask' \in [Requests -> Asks], posts' \subseteq Posted, answers' \subseteq Answered,
             held' \in Seq(Requests), Len(held') <= PendingMax,
             grants' \in Seq(Runners), Len(grants') <= GrantsMax,
             asked' \in [Requests -> 0..PromptTTL], granted' \in [Requests -> 0..GrantTTL],
             recent' \in [Requests -> 0..RecentTTL],
             live' \in begun' \union {None}, begun' \subseteq Calls,
             active' \in seen' \union {None}, seen' \subseteq begun',
             allowed' \subseteq Requests, revoked' \subseteq Requests, settled' \subseteq Requests,
             lost' \subseteq Requests, spent' \in [Requests -> Nat], faults' \in 0..MaxFaults
      PROVE  TypeOK'
  BY <1>k DEF TypeOK
<1>1. ASSUME NEW r \in Requests, Ask(r) PROVE TypeOK'
  <2>0. UNCHANGED <<active, seen, answers, held, asked, grants, granted, recent, live, begun,
                    faults, allowed, spent, revoked, settled, lost>>
    BY <1>1 DEF Ask, daemonVars, history
  <2>1. ask' \in [Requests -> Asks] /\ posts' \subseteq Posted
    BY <1>1, <1>a, PostType DEF Ask
  <2> QED  BY <2>0, <2>1, <1>a, <1>b, <1>c, <1>d, <1>e, <1>k
<1>2. ASSUME NEW r \in Requests, Abort(r) PROVE TypeOK'
  <2>0. UNCHANGED <<active, seen, answers, held, asked, grants, granted, recent, live, begun,
                    faults, allowed, spent, revoked, settled, lost>>
    BY <1>2 DEF Abort, daemonVars, history
  <2>1. r \in Runners /\ Aborted({r})
    BY <1>2 DEF Abort
  <2>2. ask' \in [Requests -> Asks] /\ posts' \subseteq Posted
    BY <2>1, AbortType
  <2> QED  BY <2>0, <2>1, <2>2, <1>a, <1>b, <1>c, <1>d, <1>e, <1>k
<1>3. ASSUME NEW r \in Requests, ReceiveAsk(r) PROVE TypeOK'
  <2>0. UNCHANGED <<ask, active, seen, grants, granted, recent, live, begun, faults, allowed,
                    spent, revoked, settled>>
    BY <1>3 DEF ReceiveAsk
  <2>1. posts' \subseteq Posted /\ answers' \subseteq Answered
    BY <1>3, <1>a, SaysType DEF ReceiveAsk
  <2>2. /\ held' \in Seq(Requests) /\ Len(held') <= PendingMax /\ lost' \subseteq Requests
        /\ asked' \in [Requests -> 0..PromptTTL]
    <3>1. CASE HoldPrompt(r) /\ asked' = [asked EXCEPT ![r] = 0]
      <4>1. held' \in Seq(Requests) /\ Len(held') <= PendingMax /\ lost' \subseteq Requests
        BY <3>1, <1>b, <1>e, HoldType
      <4>2. asked' \in [Requests -> 0..PromptTTL]
        BY <3>1, <1>c, <1>f
      <4> QED  BY <4>1, <4>2
    <3>2. CASE UNCHANGED <<held, asked, lost>>
      BY <3>2, <1>b, <1>c, <1>e
    <3> QED  BY <1>3, <3>1, <3>2 DEF ReceiveAsk
  <2> QED  BY <2>0, <2>1, <2>2, <1>a, <1>b, <1>c, <1>d, <1>e, <1>k
<1>4. ASSUME NEW r \in Requests, ReceiveCancel(r) PROVE TypeOK'
  <2>0. UNCHANGED <<ask, active, seen, asked, granted, recent, live, begun, faults, allowed,
                    spent, settled, lost>>
    BY <1>4 DEF ReceiveCancel
  <2>1. Cancelled({r}) /\ posts' \subseteq Posted
    BY <1>4, <1>a DEF ReceiveCancel
  <2>2. revoked' \subseteq Requests
    BY <1>4, <1>e DEF ReceiveCancel
  <2>3. /\ grants' \in Seq(Runners) /\ Len(grants') <= GrantsMax
        /\ held' \in Seq(Requests) /\ Len(held') <= PendingMax /\ answers' \subseteq Answered
    BY <2>1, CancelType
  <2> QED  BY <2>0, <2>1, <2>2, <2>3, <1>a, <1>b, <1>c, <1>d, <1>e, <1>k
<1>5. ASSUME NEW r \in Requests, ServerSends(r) PROVE TypeOK'
  <2>0. UNCHANGED <<posts, active, seen, answers, grants, granted, recent, live, begun, faults,
                    allowed, spent, revoked, settled>>
    BY <1>5 DEF ServerSends
  <2>1. /\ held' \in Seq(Requests) /\ Len(held') <= PendingMax /\ lost' \subseteq Requests
    BY <1>5, <1>b, <1>e, HoldType DEF ServerSends
  <2>2. asked' \in [Requests -> 0..PromptTTL] /\ ask' \in [Requests -> Asks]
    BY <1>5, <1>a, <1>c, <1>f DEF ServerSends
  <2> QED  BY <2>0, <2>1, <2>2, <1>a, <1>b, <1>c, <1>d, <1>e, <1>k
<1>6. ASSUME NEW r \in Requests, OwnerAnswers(r) PROVE TypeOK'
  <2>0. UNCHANGED <<ask, posts, active, seen, asked, live, begun, faults, spent, revoked,
                    settled, lost>>
    BY <1>6 DEF OwnerAnswers, AnswerPrompt
  <2>1. allowed' \subseteq Requests
    BY <1>6, <1>e DEF OwnerAnswers
  <2>2. /\ held' \in Seq(Requests) /\ Len(held') <= PendingMax
        /\ grants' \in Seq(Runners) /\ Len(grants') <= GrantsMax
        /\ granted' \in [Requests -> 0..GrantTTL] /\ recent' \in [Requests -> 0..RecentTTL]
        /\ answers' \subseteq Answered
    BY <1>6, AnswerType DEF OwnerAnswers
  <2> QED  BY <2>0, <2>1, <2>2, <1>a, <1>b, <1>c, <1>d, <1>e, <1>k
<1>7. ASSUME NEW r \in Requests, Expire(r) PROVE TypeOK'
  <2>0. UNCHANGED <<ask, posts, active, seen, asked, live, begun, faults, allowed, spent,
                    revoked, settled, lost>>
    BY <1>7 DEF Expire, AnswerPrompt
  <2>1. /\ held' \in Seq(Requests) /\ Len(held') <= PendingMax
        /\ grants' \in Seq(Runners) /\ Len(grants') <= GrantsMax
        /\ granted' \in [Requests -> 0..GrantTTL] /\ recent' \in [Requests -> 0..RecentTTL]
        /\ answers' \subseteq Answered
    BY <1>7, AnswerType DEF Expire
  <2> QED  BY <2>0, <2>1, <1>a, <1>b, <1>c, <1>d, <1>e, <1>k
<1>8. ASSUME NEW m \in posts, PostFails(m) PROVE TypeOK'
  <2>0. UNCHANGED <<active, seen, answers, held, asked, grants, granted, recent, live, begun,
                    faults, allowed, spent, revoked, settled, lost>>
    BY <1>8 DEF PostFails, daemonVars, history
  <2>1. posts' \subseteq Posted /\ ask' \in [Requests -> Asks]
    BY <1>8, <1>a DEF PostFails
  <2> QED  BY <2>0, <2>1, <1>a, <1>b, <1>c, <1>d, <1>e, <1>k
<1>9. ASSUME NEW m \in answers, Deliver(m) PROVE TypeOK'
  <2>0. UNCHANGED <<posts, active, seen, held, asked, grants, granted, recent, live, begun,
                    faults, allowed, spent, revoked, settled, lost>>
    BY <1>9 DEF Deliver, daemonVars, history
  <2>1. m \in Answered
    BY <1>a
  <2>2. answers' \subseteq Answered /\ ask' \in [Requests -> Asks]
    BY <1>9, <2>1, <1>a DEF Deliver
  <2> QED  BY <2>0, <2>1, <2>2, <1>a, <1>b, <1>c, <1>d, <1>e, <1>k
<1>10. ASSUME NEW m \in answers, Unacknowledged(m) PROVE TypeOK'
  <2>0. UNCHANGED <<ask, posts, active, seen, held, asked, grants, granted, recent, live, begun,
                    allowed, spent, revoked, settled, lost>>
    BY <1>10 DEF Unacknowledged, runnerVars, daemonVars, history
  <2>1. answers' \subseteq Answered /\ faults' \in 0..MaxFaults
    BY <1>10, <1>a, <1>e, <1>f DEF Unacknowledged
  <2> QED  BY <2>0, <2>1, <1>a, <1>b, <1>c, <1>d, <1>e, <1>k
<1>11. ASSUME NEW a \in Actions, ToolCall(a) PROVE TypeOK'
  <2>0. UNCHANGED <<ask, posts, active, seen, answers, asked, granted, recent, live, begun,
                    faults, allowed, revoked>>
    BY <1>11 DEF ToolCall, runnerVars
  <2>1. grants' \in Seq(Runners) /\ Len(grants') <= GrantsMax /\ spent' \in [Requests -> Nat]
    <3>1. CASE UNCHANGED <<grants, spent>>
      BY <3>1, <1>b, <1>e
    <3>2. ASSUME NEW i \in DOMAIN grants, TakeGrant(i)
          PROVE  grants' \in Seq(Runners) /\ Len(grants') <= GrantsMax /\ spent' \in [Requests -> Nat]
      BY <3>2, TakeType
    <3> QED  BY <1>11, <3>1, <3>2, CallTakes
  <2>2. held' \in Seq(Requests) /\ Len(held') <= PendingMax
    <3>1. held' = Without(held, Settles(a))
      BY <1>11 DEF ToolCall
    <3>2. held' \in Seq(Requests) /\ Len(held') <= Len(held)
      BY <1>b, <3>1, WithoutIs
    <3>3. Len(held) \in Nat /\ Len(held') \in Nat /\ PendingMax \in Nat
      BY <1>b, <3>2, LenProperties, BoundsAssumption
    <3> QED  BY <1>b, <3>2, <3>3
  <2>3. Settles(a) \subseteq Requests
    BY <1>b, LenProperties DEF Settles, Elements
  <2>4. settled' \subseteq Requests /\ lost' \subseteq Requests
    BY <1>11, <1>e, <2>3 DEF ToolCall
  <2> QED  BY <2>0, <2>1, <2>2, <2>3, <2>4, <1>a, <1>b, <1>c, <1>d, <1>e, <1>k
<1>12. ASSUME NEW c \in Calls, StartCall(c) PROVE TypeOK'
  <2>0. UNCHANGED <<ask, posts, active, seen, asked, granted, recent, faults, allowed, spent,
                    settled, lost>>
    BY <1>12 DEF StartCall, runnerVars
  <2>1. Cancelled(BoundTo(live)) /\ BoundTo(live) \subseteq Requests
    BY <1>12 DEF StartCall, BoundTo
  <2>2. revoked' \subseteq Requests
    BY <1>12, <1>e, <2>1 DEF StartCall
  <2>3. begun' \subseteq Calls /\ live' \in begun' \union {None} /\ seen \subseteq begun'
    BY <1>12, <1>d DEF StartCall
  <2>4. /\ grants' \in Seq(Runners) /\ Len(grants') <= GrantsMax
        /\ held' \in Seq(Requests) /\ Len(held') <= PendingMax /\ answers' \subseteq Answered
    BY <2>1, CancelType
  <2> QED  BY <2>0, <2>1, <2>2, <2>3, <2>4, <1>a, <1>b, <1>c, <1>d, <1>e, <1>k
<1>13. ASSUME NEW c \in Calls, HearStart(c) PROVE TypeOK'
  <2>0. UNCHANGED <<answers, held, asked, grants, granted, recent, live, begun, faults, allowed,
                    spent, revoked, settled, lost>>
    BY <1>13 DEF HearStart, daemonVars, history
  <2>1. Aborted(BoundTo(active)) /\ BoundTo(active) \subseteq Runners
    BY <1>13, CallType DEF HearStart
  <2>2. seen' \subseteq begun /\ active' \in seen' \union {None}
    BY <1>13, <1>d DEF HearStart
  <2>3. ask' \in [Requests -> Asks] /\ posts' \subseteq Posted
    BY <2>1, AbortType
  <2> QED  BY <2>0, <2>1, <2>2, <2>3, <1>a, <1>b, <1>c, <1>d, <1>e, <1>k
<1>14. CASE HearEnd
  <2>0. UNCHANGED <<seen, answers, held, asked, grants, granted, recent, live, begun, faults,
                    allowed, spent, revoked, settled, lost>>
    BY <1>14 DEF HearEnd, daemonVars, history
  <2>1. Aborted(BoundTo(active)) /\ BoundTo(active) \subseteq Runners /\ active' = None
    BY <1>14, CallType DEF HearEnd
  <2>2. ask' \in [Requests -> Asks] /\ posts' \subseteq Posted
    BY <2>1, AbortType
  <2> QED  BY <2>0, <2>1, <2>2, <1>a, <1>b, <1>c, <1>d, <1>e, <1>k
<1>15. CASE EndCall
  <2>0. UNCHANGED <<ask, posts, active, seen, asked, granted, recent, begun, faults, allowed,
                    spent, settled, lost>>
    BY <1>15 DEF EndCall, runnerVars
  <2>1. Cancelled(BoundTo(live)) /\ BoundTo(live) \subseteq Requests /\ live' = None
    BY <1>15 DEF EndCall, BoundTo
  <2>2. revoked' \subseteq Requests
    BY <1>15, <1>e, <2>1 DEF EndCall
  <2>3. /\ grants' \in Seq(Runners) /\ Len(grants') <= GrantsMax
        /\ held' \in Seq(Requests) /\ Len(held') <= PendingMax /\ answers' \subseteq Answered
    BY <2>1, CancelType
  <2> QED  BY <2>0, <2>1, <2>2, <2>3, <1>a, <1>b, <1>c, <1>d, <1>e, <1>k
<1>16. CASE Close
  BY <1>16, CloseType
<1>17. CASE Crash
  BY <1>17, CloseType
<1>18. CASE RunnerStop
  <2>0. UNCHANGED <<seen, answers, held, asked, grants, granted, recent, live, begun, allowed,
                    spent, revoked, settled, lost>>
    BY <1>18 DEF RunnerStop, daemonVars, history
  <2>1. ask' \in [Requests -> Asks] /\ active' = None /\ faults' \in 0..MaxFaults
    BY <1>18, <1>a, <1>e, <1>f DEF RunnerStop
  <2>2. posts' \subseteq Posted
    BY <1>18, <1>a, PostType, CallType DEF RunnerStop
  <2> QED  BY <2>0, <2>1, <2>2, <1>a, <1>b, <1>c, <1>d, <1>e, <1>k
<1>19. CASE Tick
  <2>0. UNCHANGED <<ask, posts, active, seen, answers, held, grants, live, begun, faults,
                    allowed, spent, revoked, settled, lost>>
    BY <1>19 DEF Tick, runnerVars, history
  <2>1. /\ asked' = Older(asked, PromptTTL) /\ granted' = Older(granted, GrantTTL)
        /\ recent' = Older(recent, RecentTTL)
    BY <1>19 DEF Tick
  <2>2. /\ asked' \in [Requests -> 0..PromptTTL] /\ granted' \in [Requests -> 0..GrantTTL]
        /\ recent' \in [Requests -> 0..RecentTTL]
    BY <2>1, <1>c, OlderType
  <2> QED  BY <2>0, <2>1, <2>2, <1>a, <1>b, <1>c, <1>d, <1>e, <1>k
<1>20. CASE UNCHANGED vars
  <2>0. UNCHANGED <<ask, posts, active, seen, answers, held, asked, grants, granted, recent,
                    live, begun, faults, allowed, spent, revoked, settled, lost>>
    BY <1>20 DEF vars
  <2> QED  BY <2>0, <1>a, <1>b, <1>c, <1>d, <1>e, <1>k
<1> QED
  BY <1>1, <1>2, <1>3, <1>4, <1>5, <1>6, <1>7, <1>8, <1>9, <1>10, <1>11, <1>12, <1>13, <1>14, <1>15,
     <1>16, <1>17, <1>18, <1>19, <1>20 DEF Next

(***************************************************************************)
(* The one way of a request.  FlowStep says what a step may do to keep the *)
(* invariant: a runner's request enters the prompts when it leaves the     *)
(* early ones, it is allowed and gets its grant when it leaves the         *)
(* prompts, and it spends the grant when it leaves the unused ones.        *)
(***************************************************************************)
LEMMA FlowStep ==
    ASSUME GateInv, TypeOK', NoneTwice(grants'),
           \A r \in Runners :
               /\ Early(r)' => Early(r)
               /\ Post("ask", r) \in posts' => ask'[r] \notin {"unmade", "new"}
               /\ r \in Prompts' => r \in Prompts \/ (Early(r) /\ ~Early(r)')
               /\ r \in Unused' => r \in Unused \/ (r \in Prompts /\ r \notin Prompts' /\ r \in allowed')
               /\ r \in allowed' => r \in allowed \/ (r \in Prompts /\ r \notin Prompts'),
           allowed \subseteq allowed',
           \A r \in Requests :
               /\ ask'[r] = "allow" => r \in allowed'
               /\ spent'[r] = spent[r] \/ (r \in Unused /\ r \notin Unused' /\ spent'[r] = spent[r] + 1),
           AllowsSound', Withdrawn'
    PROVE  GateInv'
<1>1. Unused' \subseteq Runners /\ Runners \subseteq Requests
  <2>1. grants' \in Seq(Runners)
    BY DEF TypeOK
  <2>2. Elements(grants') \subseteq Runners
    BY <2>1, LenProperties DEF Elements
  <2> QED  BY <2>2 DEF Unused, Runners
<1>2. /\ \A r \in Requests : spent[r] \in Nat /\ spent'[r] \in Nat
      /\ \A r \in Requests : spent[r] <= IF r \in allowed THEN 1 ELSE 0
      /\ \A r \in Unused : r \in allowed /\ spent[r] = 0
  BY DEF GateInv, Flow, TypeOK, OwnerDecides, GrantsSound
<1>3. ASSUME NEW r \in Runners
      PROVE  /\ Early(r) => r \notin Prompts /\ r \notin Unused /\ r \notin allowed
             /\ r \in Prompts => r \notin Unused /\ r \notin allowed
  BY DEF GateInv, Flow, OneWay
<1>4. OneWay'
  BY <1>3 DEF OneWay
<1>5. ASSUME NEW r \in Unused' PROVE r \in allowed' /\ spent'[r] = 0
  <2>1. r \in Runners /\ r \in Requests
    BY <1>1
  <2>2. spent'[r] = spent[r]
    BY <2>1, <1>5
  <2>3. CASE r \in Unused
    BY <1>2, <2>2, <2>3
  <2>4. CASE r \in Prompts /\ r \in allowed'
    <3>1. r \notin allowed
      BY <1>3, <2>1, <2>4
    <3>2. spent[r] <= 0 /\ spent[r] \in Nat
      BY <1>2, <2>1, <3>1
    <3> QED  BY <2>2, <2>4, <3>2
  <2> QED  BY <1>5, <2>1, <2>3, <2>4
<1>6. GrantsSound'
  BY <1>5 DEF GrantsSound, Unused
<1>7. ASSUME NEW r \in Requests PROVE spent'[r] <= IF r \in allowed' THEN 1 ELSE 0
  <2>1. CASE spent'[r] = spent[r]
    BY <1>2, <2>1
  <2>2. CASE r \in Unused /\ spent'[r] = spent[r] + 1
    BY <1>2, <2>2
  <2> QED  BY <2>1, <2>2
<1>8. OwnerDecides'
  BY <1>7 DEF OwnerDecides
<1> QED  BY <1>4, <1>6, <1>8 DEF GateInv, Flow

\* Steps of the asker's side: the daemon keeps what it has, nobody asks anew,
\* and who goes ahead was allowed.
LEMMA AskerStep ==
    ASSUME GateInv, TypeOK',
           UNCHANGED <<held, grants, live, begun, allowed, spent, revoked>>,
           answers' \subseteq answers,
           \A r \in Runners :
               /\ Early(r)' => Early(r)
               /\ Post("ask", r) \in posts' => ask'[r] \notin {"unmade", "new"},
           \A r \in Requests : ask'[r] = "allow" => r \in allowed
    PROVE  GateInv'
<1>1. /\ NoneTwice(grants') /\ Prompts' = Prompts /\ Unused' = Unused
  BY DEF GateInv, Flow, GrantsSound, Prompts, Unused
<1>2. AllowsSound'
  BY DEF GateInv, Flow, AllowsSound
<1>3. revoked \subseteq Runners
  BY DEF GateInv, Flow, Withdrawn
<1>4. Withdrawn'
  BY <1>1, <1>3 DEF GateInv, Flow, Withdrawn
<1> QED  BY <1>1, <1>2, <1>4, FlowStep

\* Askers that stop waiting, without a new ask on its way.
LEMMA EndsWaiting ==
    ASSUME GateInv, TypeOK',
           UNCHANGED <<held, grants, live, begun, allowed, spent, revoked>>,
           answers' \subseteq answers,
           \A r \in Runners : Post("ask", r) \in posts' => Post("ask", r) \in posts,
           \A r \in Requests :
               \/ ask'[r] = ask[r]
               \/ ask[r] = "waiting" /\ (ask'[r] = "deny" \/ (ask'[r] = "allow" /\ r \in allowed))
    PROVE  GateInv'
<1>1. ASSUME NEW r \in Runners
      PROVE  /\ Early(r)' => Early(r)
             /\ Post("ask", r) \in posts' => ask'[r] \notin {"unmade", "new"}
  <2>1. r \in Requests /\ (Post("ask", r) \in posts => ask[r] \notin {"unmade", "new"})
    BY DEF Runners, GateInv, Flow, OneWay
  <2> QED  BY <2>1 DEF Early
<1>2. ASSUME NEW r \in Requests, ask'[r] = "allow" PROVE r \in allowed
  BY <1>2 DEF GateInv, Flow, OwnerDecides
<1> QED  BY <1>1, <1>2, AskerStep

LEMMA AbortedOnly ==
    ASSUME TypeOK, NEW S, Aborted(S)
    PROVE  /\ \A r \in Runners : Post("ask", r) \in posts' => Post("ask", r) \in posts
           /\ \A r \in Requests : ask'[r] = ask[r] \/ (ask[r] = "waiting" /\ ask'[r] = "deny")
<1>1. \A r, q : Post("ask", r) # Post("cancel", q)
  BY DEF Post
<1> QED  BY <1>1 DEF Aborted

\* Steps of the daemon that only take prompts and grants off their lists.
\* What is withdrawn has left them; what is bound to an ended call is refused.
LEMMA DropStep ==
    ASSUME GateInv, TypeOK', NoneTwice(grants'),
           Prompts' \subseteq Prompts, Unused' \subseteq Unused,
           ask' = ask, posts' \subseteq posts, allowed' = allowed,
           \A r \in Requests :
               spent'[r] = spent[r] \/ (r \in Unused /\ r \notin Unused' /\ spent'[r] = spent[r] + 1),
           \A m \in answers' : m.behavior = "allow" => m \in answers,
           \A r \in revoked' :
               \/ r \in revoked
               \/ r \in Runners /\ r \notin Prompts' /\ r \notin Unused'
                  /\ (Early(r)' => CallOf(r) = live /\ live # None /\ live' # live),
           begun \subseteq begun', live' = live \/ live' \notin begun
    PROVE  GateInv'
<1>1. ASSUME NEW r \in Runners PROVE Early(r)' => Early(r)
  BY DEF Early
<1>2. ASSUME NEW r \in Runners, Post("ask", r) \in posts' PROVE ask'[r] \notin {"unmade", "new"}
  BY <1>2 DEF GateInv, Flow, OneWay
<1>3. ASSUME NEW r \in Requests, ask'[r] = "allow" PROVE r \in allowed'
  BY <1>3 DEF GateInv, Flow, OwnerDecides
<1>4. AllowsSound'
  BY DEF GateInv, Flow, AllowsSound
<1>5. Withdrawn'
  <2>1. ASSUME NEW r \in revoked, r \in revoked'
        PROVE  /\ r \in Runners /\ r \notin Prompts' /\ r \notin Unused'
               /\ Early(r)' => CallOf(r) \in begun' /\ CallOf(r) # live'
    <3>1. /\ r \in Runners /\ r \notin Prompts /\ r \notin Unused
          /\ Early(r) => CallOf(r) \in begun /\ CallOf(r) # live
      BY DEF GateInv, Flow, Withdrawn
    <3> QED  BY <1>1, <3>1
  <2>2. ASSUME NEW r \in revoked', r \notin revoked
        PROVE  /\ r \in Runners /\ r \notin Prompts' /\ r \notin Unused'
               /\ Early(r)' => CallOf(r) \in begun' /\ CallOf(r) # live'
    <3>1. /\ r \in Runners /\ r \notin Prompts' /\ r \notin Unused'
          /\ Early(r)' => CallOf(r) = live /\ live # None /\ live' # live
      BY <2>2
    <3>2. live \in begun \union {None}
      BY DEF GateInv, TypeOK
    <3> QED  BY <3>1, <3>2
  <2> QED  BY <2>1, <2>2 DEF Withdrawn
<1> QED
  <2>1. ASSUME NEW r \in Runners
        PROVE  /\ r \in Prompts' => r \in Prompts
               /\ r \in Unused' => r \in Unused
               /\ r \in allowed' => r \in allowed
    OBVIOUS
  <2> HIDE DEF Prompts, Unused
  <2> QED  BY <1>1, <1>2, <1>3, <1>4, <1>5, <2>1, FlowStep

LEMMA AnswerGrants ==
    ASSUME TypeOK, NEW r \in Requests, NEW b \in {"allow", "deny"}, NEW e \in BOOLEAN,
           AnswerPrompt(r, b, e)
    PROVE  \/ grants' = grants
           \/ /\ b = "allow" /\ r \in Runners
              /\ Unused' \subseteq Unused \union {r}
              /\ NoneTwice(grants) /\ r \notin Unused => NoneTwice(grants')
<1>1. CASE b = "allow" /\ ~e /\ r \notin Server
  <2>1. r \in Runners /\ Grant(r)
    BY <1>1 DEF AnswerPrompt, Runners
  <2>2. /\ grants \in Seq(Runners) /\ Len(grants) <= GrantsMax /\ granted \in [Requests -> 0..GrantTTL]
    BY DEF TypeOK
  <2>3. /\ Elements(grants') \subseteq Elements(grants) \union {r}
        /\ NoneTwice(grants) /\ r \notin Elements(grants) => NoneTwice(grants')
    BY <2>1, <2>2, GrantType
  <2> QED  BY <1>1, <2>1, <2>3 DEF Unused
<1>2. CASE ~(b = "allow" /\ ~e /\ r \notin Server)
  BY <1>2 DEF AnswerPrompt
<1> QED  BY <1>1, <1>2

\* The owner denies, or the prompt was too old; or he allows.
LEMMA DenyStep ==
    ASSUME GateInv, TypeOK', NEW r \in Requests, NEW e \in BOOLEAN,
           AnswerPrompt(r, "deny", e), allowed' = allowed
    PROVE  GateInv'
<1>0. TypeOK /\ NoneTwice(grants)
  BY DEF GateInv, Flow, GrantsSound
<1>1. UNCHANGED <<ask, posts, live, begun, spent, revoked>>
  BY DEF AnswerPrompt
<1>2. grants' = grants
  BY <1>0, AnswerGrants
<1>3. /\ Elements(held') = Elements(held) \ {r} /\ answers' = answers \union {Says(r, "deny")}
  BY <1>0, AnswerType
<1>4. Prompts' \subseteq Prompts /\ Unused' \subseteq Unused
  BY <1>2, <1>3 DEF Prompts, Unused
<1>5. \A m \in answers' : m.behavior = "allow" => m \in answers
  BY <1>3 DEF Says
<1> HIDE DEF Prompts, Unused
<1> QED  BY <1>0, <1>1, <1>2, <1>4, <1>5, DropStep

LEMMA AllowStep ==
    ASSUME GateInv, TypeOK', NEW r \in Requests,
           AnswerPrompt(r, "allow", FALSE), allowed' = allowed \union {r}
    PROVE  GateInv'
<1>0. TypeOK /\ NoneTwice(grants)
  BY DEF GateInv, Flow, GrantsSound
<1>1. UNCHANGED <<ask, posts, live, begun, spent, revoked>> /\ r \in Prompts
  BY DEF AnswerPrompt, Prompts
<1>2. Prompts' = Prompts \ {r} /\ answers' = answers \union {Says(r, "allow")}
  BY <1>0, AnswerType DEF Prompts
<1>3. r \in Runners => r \notin Unused /\ r \notin allowed /\ ~Early(r)
  BY <1>1 DEF GateInv, Flow, OneWay
<1>4. \/ grants' = grants
      \/ r \in Runners /\ Unused' \subseteq Unused \union {r} /\ NoneTwice(grants')
  BY <1>0, <1>3, AnswerGrants
<1>5. NoneTwice(grants') /\ \A q \in Unused' : q \in Unused \/ q = r
  BY <1>0, <1>4 DEF Unused
<1>6. AllowsSound'
  BY <1>2 DEF GateInv, Flow, AllowsSound, Says
<1>7. r \in Runners => r \notin revoked
  BY <1>1 DEF GateInv, Flow, Withdrawn
<1>8. Withdrawn'
  <2>1. ASSUME NEW q \in revoked PROVE q # r /\ q \in Runners /\ q \notin Prompts /\ q \notin Unused
    BY <1>7 DEF GateInv, Flow, Withdrawn
  <2>2. ASSUME NEW q \in revoked, Early(q)' PROVE CallOf(q) \in begun /\ CallOf(q) # live
    <3>1. Early(q)
      BY <1>1, <2>2 DEF Early
    <3> QED  BY <3>1 DEF GateInv, Flow, Withdrawn
  <2> QED  BY <1>1, <1>2, <1>5, <2>1, <2>2 DEF Withdrawn
<1>9. ASSUME NEW q \in Runners
      PROVE  /\ Early(q)' => Early(q)
             /\ Post("ask", q) \in posts' => ask'[q] \notin {"unmade", "new"}
             /\ q \in Prompts' => q \in Prompts
             /\ q \in Unused' => q \in Unused \/ (q \in Prompts /\ q \notin Prompts' /\ q \in allowed')
             /\ q \in allowed' => q \in allowed \/ (q \in Prompts /\ q \notin Prompts')
  <2>1. Early(q)' => Early(q)
    BY <1>1 DEF Early
  <2>2. Post("ask", q) \in posts' => ask'[q] \notin {"unmade", "new"}
    BY <1>1 DEF GateInv, Flow, OneWay
  <2>3. q \in Unused' => q \in Unused \/ q = r
    BY <1>5
  <2> HIDE DEF Prompts, Unused
  <2> QED  BY <1>1, <1>2, <2>1, <2>2, <2>3
<1>10. \A q \in Requests : ask'[q] = "allow" => q \in allowed'
  BY <1>1 DEF GateInv, Flow, OwnerDecides
<1> HIDE DEF Prompts, Unused
<1> QED  BY <1>1, <1>5, <1>6, <1>8, <1>9, <1>10, FlowStep

\* A prompt is held when it leaves the early ones, or is of mcp.metro.box.
LEMMA HoldStep ==
    ASSUME GateInv, TypeOK', NEW r \in Requests, HoldPrompt(r),
           UNCHANGED <<answers, grants, live, begun, allowed, spent, revoked>>,
           \A q \in Runners : Early(q)' => Early(q),
           \A q \in Runners : Post("ask", q) \in posts' => ask'[q] \notin {"unmade", "new"},
           \A q \in Requests : ask'[q] = "allow" => ask[q] = "allow",
           r \in Runners => Early(r) /\ ~Early(r)' /\ CallOf(r) \in {None, live}
    PROVE  GateInv'
<1>0. held \in Seq(Requests) /\ Len(held) <= PendingMax /\ lost \subseteq Requests
  BY DEF GateInv, TypeOK
<1>1. Prompts' \subseteq Prompts \union {r} /\ Unused' = Unused
  BY <1>0, HoldType DEF Prompts, Unused
<1>2. NoneTwice(grants') /\ AllowsSound'
  BY DEF GateInv, Flow, GrantsSound, AllowsSound
<1>3. Withdrawn'
  <2>1. ASSUME NEW q \in revoked
        PROVE  /\ q \in Runners /\ q \notin Prompts /\ q \notin Unused
               /\ Early(q) => CallOf(q) \in begun /\ CallOf(q) # live
    BY DEF GateInv, Flow, Withdrawn
  <2>2. None \notin begun
    BY RequestsAssumption DEF GateInv, TypeOK
  <2>3. r \notin revoked
    BY <2>1, <2>2
  <2> HIDE DEF Prompts, Unused
  <2> QED  BY <1>1, <2>1, <2>3 DEF Withdrawn
<1>4. \A q \in Requests : ask'[q] = "allow" => q \in allowed'
  BY DEF GateInv, Flow, OwnerDecides
<1>5. ASSUME NEW q \in Runners, q \in Prompts' PROVE q \in Prompts \/ (Early(q) /\ ~Early(q)')
  BY <1>1, <1>5
<1> HIDE DEF Prompts, Unused
<1> QED  BY <1>1, <1>2, <1>3, <1>4, <1>5, FlowStep

LEMMA CallStep ==
    ASSUME GateInv, TypeOK', NEW a \in Actions, ToolCall(a)
    PROVE  GateInv'
<1>0. TypeOK /\ NoneTwice(grants)
  BY DEF GateInv, Flow, GrantsSound
<1>1. UNCHANGED <<ask, posts, answers, live, begun, allowed, revoked>> /\ held' = Without(held, Settles(a))
  BY DEF ToolCall, runnerVars
<1>2. Prompts' \subseteq Prompts
  <2>1. held \in Seq(Requests)
    BY <1>0 DEF TypeOK
  <2> QED  BY <1>1, <2>1, WithoutIs DEF Prompts
<1>3. /\ NoneTwice(grants') /\ Unused' \subseteq Unused
      /\ \A r \in Requests :
            spent'[r] = spent[r] \/ (r \in Unused /\ r \notin Unused' /\ spent'[r] = spent[r] + 1)
  <2>1. CASE UNCHANGED <<grants, spent>>
    BY <1>0, <2>1 DEF Unused
  <2>2. ASSUME NEW i \in DOMAIN grants, TakeGrant(i)
        PROVE  /\ NoneTwice(grants') /\ Unused' \subseteq Unused
               /\ \A r \in Requests :
                     spent'[r] = spent[r] \/ (r \in Unused /\ r \notin Unused' /\ spent'[r] = spent[r] + 1)
    <3>1. /\ NoneTwice(grants') /\ Elements(grants') = Elements(grants) \ {grants[i]}
          /\ grants[i] \in Elements(grants) /\ grants[i] \in Requests
          /\ spent' = [spent EXCEPT ![grants[i]] = @ + 1]
      BY <1>0, <2>2, TakeType
    <3>2. spent \in [Requests -> Nat]
      BY <1>0 DEF TypeOK
    <3>3. \A r \in Requests : r # grants[i] => spent'[r] = spent[r]
      BY <3>1, <3>2
    <3>4. spent'[grants[i]] = spent[grants[i]] + 1
      BY <3>1, <3>2
    <3> QED  BY <3>1, <3>3, <3>4 DEF Unused
  <2> QED  BY <1>0, <2>1, <2>2, CallTakes
<1> HIDE DEF Prompts, Unused
<1> QED  BY <1>1, <1>2, <1>3, DropStep

\* The call, the session or the daemon ends: what it had is withdrawn.
LEMMA EndStep ==
    ASSUME GateInv, TypeOK', NoneTwice(grants'),
           Prompts' \subseteq Prompts, Unused' \subseteq Unused,
           UNCHANGED <<ask, posts, allowed, spent>>,
           \A m \in answers' : m.behavior = "allow" => m \in answers,
           revoked \subseteq revoked', revoked' \subseteq revoked \union Received \union BoundTo(live),
           \A r \in revoked' \ revoked : r \notin Prompts' /\ r \notin Unused',
           begun \subseteq begun', live' \notin begun
    PROVE  GateInv'
<1>1. ASSUME NEW r \in revoked', r \notin revoked
      PROVE  /\ r \in Runners /\ r \notin Prompts' /\ r \notin Unused'
             /\ Early(r)' => CallOf(r) = live /\ live # None /\ live' # live
  <2>1. r \in Received \/ (r \in BoundTo(live) /\ live # None /\ CallOf(r) = live)
    BY <1>1 DEF BoundTo
  <2>2. r \in Runners
    BY <2>1, CallType DEF Received
  <2>3. r \in Received => ~Early(r)'
    BY DEF Received, Early
  <2>4. live # None => live' # live
    BY DEF GateInv, TypeOK
  <2> HIDE DEF Prompts, Unused
  <2> QED  BY <1>1, <2>1, <2>2, <2>3, <2>4
<1> HIDE DEF Prompts, Unused
<1>2. \A r \in Requests : spent'[r] = spent[r]
  OBVIOUS
<1> QED  BY <1>1, <1>2, DropStep

LEMMA GateStep ==
    ASSUME GateInv, [Next]_vars
    PROVE  GateInv'
<1>0. TypeOK /\ TypeOK' /\ NoneTwice(grants)
  BY TypeStep DEF GateInv, Flow, GrantsSound
<1>a. \A r \in Runners : Post("ask", r) \in posts => ask[r] \notin {"unmade", "new"}
  BY DEF GateInv, Flow, OneWay
<1>b. Runners \subseteq Requests /\ \A q, r : Post("ask", q) = Post("ask", r) => q = r
  BY DEF Runners, Post
<1>c. ask \in [Requests -> {"unmade", "new", "waiting", "allow", "deny"}]
  BY <1>0 DEF TypeOK
<1>1. ASSUME NEW r \in Requests, Ask(r) PROVE GateInv'
  <2>1. UNCHANGED <<held, grants, live, begun, allowed, spent, revoked, answers>>
    BY <1>1 DEF Ask, daemonVars, history
  <2>2. /\ ask[r] = "new" /\ posts' \subseteq posts \union {Post("ask", r)}
        /\ \A q \in Requests : ask'[q] = ask[q] \/ (q = r /\ ask'[q] \in {"waiting", "deny"})
    BY <1>1, <1>c DEF Ask
  <2>3. ask'[r] \in {"waiting", "deny"}
    BY <1>1, <1>c DEF Ask
  <2>4. ASSUME NEW q \in Runners
        PROVE  /\ Early(q)' => Early(q)
               /\ Post("ask", q) \in posts' => ask'[q] \notin {"unmade", "new"}
    BY <1>a, <1>b, <2>2, <2>3 DEF Early
  <2>5. \A q \in Requests : ask'[q] = "allow" => q \in allowed
    BY <2>2 DEF GateInv, Flow, OwnerDecides
  <2> QED  BY <1>0, <2>1, <2>4, <2>5, AskerStep
<1>2. ASSUME NEW r \in Requests, Abort(r) PROVE GateInv'
  <2>1. UNCHANGED <<held, grants, live, begun, allowed, spent, revoked, answers>> /\ Aborted({r})
    BY <1>2 DEF Abort, daemonVars, history
  <2> QED  BY <1>0, <2>1, AbortedOnly, EndsWaiting
<1>3. ASSUME NEW r \in Requests, ReceiveAsk(r) PROVE GateInv'
  <2>1. /\ Post("ask", r) \in posts /\ posts' = posts \ {Post("ask", r)}
        /\ UNCHANGED <<ask, grants, live, begun, allowed, spent, revoked>>
    BY <1>3 DEF ReceiveAsk
  <2>2. r \in Runners
    BY <1>0, <2>1 DEF TypeOK, Post
  <2>3. CASE HoldPrompt(r) /\ answers' = answers /\ CallOf(r) \in {None, live}
    <3>1. Early(r) /\ ~Early(r)'
      BY <1>a, <2>1, <2>2 DEF Early
    <3>2. \A q \in Runners : Early(q)' => Early(q)
      BY <2>1 DEF Early
    <3>3. \A q \in Runners : Post("ask", q) \in posts' => ask'[q] \notin {"unmade", "new"}
      BY <1>a, <2>1
    <3> QED  BY <1>0, <2>1, <2>3, <3>1, <3>2, <3>3, HoldStep
  <2>4. CASE answers' = answers \union {Says(r, "deny")} /\ UNCHANGED held
    <3>1. Prompts' \subseteq Prompts /\ Unused' \subseteq Unused /\ NoneTwice(grants')
      BY <1>0, <2>1, <2>4 DEF Prompts, Unused
    <3>2. \A m \in answers' : m.behavior = "allow" => m \in answers
      BY <2>4 DEF Says
    <3> HIDE DEF Prompts, Unused
    <3> QED  BY <1>0, <2>1, <3>1, <3>2, DropStep
  <2> QED  BY <1>3, <2>3, <2>4 DEF ReceiveAsk
<1>4. ASSUME NEW r \in Requests, ReceiveCancel(r) PROVE GateInv'
  <2>1. /\ Cancelled({r}) /\ posts' \subseteq posts /\ revoked' = revoked \union ({r} \cap Received)
        /\ UNCHANGED <<ask, live, begun, allowed, spent>>
    BY <1>4 DEF ReceiveCancel
  <2>2. /\ Prompts' = Prompts \ {r} /\ Unused' = Unused \ {r} /\ NoneTwice(grants')
    BY <1>0, <2>1, CancelType DEF Prompts, Unused
  <2>3. \A m \in answers' : m.behavior = "allow" => m \in answers
    BY <2>1 DEF Cancelled, Says
  <2>4. ASSUME NEW q \in revoked', q \notin revoked
        PROVE  q \in Runners /\ q \notin Prompts' /\ q \notin Unused' /\ ~Early(q)'
    <3>1. q = r /\ q \in Received
      BY <2>1, <2>4
    <3>2. q \in Runners /\ ~Early(q)'
      BY <2>1, <3>1 DEF Received, Early
    <3> QED  BY <2>2, <3>1, <3>2
  <2> HIDE DEF Prompts, Unused
  <2> QED  BY <1>0, <2>1, <2>2, <2>3, <2>4, DropStep
<1>5. ASSUME NEW r \in Requests, ServerSends(r) PROVE GateInv'
  <2>1. /\ HoldPrompt(r) /\ r \notin Runners
        /\ ask' = [ask EXCEPT ![r] = "waiting"]
        /\ UNCHANGED <<posts, answers, grants, live, begun, allowed, spent, revoked>>
    BY <1>5 DEF ServerSends, Runners
  <2>2. \A q \in Requests : ask'[q] = IF q = r THEN "waiting" ELSE ask[q]
    BY <1>c, <2>1
  <2>3. ASSUME NEW q \in Runners
        PROVE  (Early(q)' => Early(q)) /\ (Post("ask", q) \in posts' => ask'[q] \notin {"unmade", "new"})
    BY <1>a, <1>b, <2>1, <2>2 DEF Early
  <2>4. \A q \in Requests : ask'[q] = "allow" => ask[q] = "allow"
    BY <2>2
  <2> QED  BY <1>0, <2>1, <2>3, <2>4, HoldStep
<1>6. ASSUME NEW r \in Requests, OwnerAnswers(r) PROVE GateInv'
  <2>1. CASE AnswerPrompt(r, "allow", FALSE) /\ allowed' = allowed \union {r}
    BY <1>0, <2>1, AllowStep
  <2>2. CASE AnswerPrompt(r, "deny", FALSE) /\ allowed' = allowed
    BY <1>0, <2>2, DenyStep
  <2> QED  BY <1>6, <2>1, <2>2 DEF OwnerAnswers
<1>7. ASSUME NEW r \in Requests, Expire(r) PROVE GateInv'
  <2>1. AnswerPrompt(r, "deny", TRUE) /\ allowed' = allowed
    BY <1>7 DEF Expire
  <2> QED  BY <1>0, <2>1, DenyStep
<1>8. ASSUME NEW m \in posts, PostFails(m) PROVE GateInv'
  <2>1. UNCHANGED <<held, grants, live, begun, allowed, spent, revoked, answers>> /\ posts' \subseteq posts
    BY <1>8 DEF PostFails, daemonVars, history
  <2>2. \A q \in Requests : ask'[q] = ask[q] \/ (ask[q] = "waiting" /\ ask'[q] = "deny")
    BY <1>8, <1>c DEF PostFails
  <2> QED  BY <1>0, <2>1, <2>2, EndsWaiting
<1>9. ASSUME NEW m \in answers, Deliver(m) PROVE GateInv'
  <2>1. UNCHANGED <<held, grants, live, begun, allowed, spent, revoked, posts>> /\ answers' \subseteq answers
    BY <1>9 DEF Deliver, daemonVars, history
  <2>2. m.behavior \in {"allow", "deny"} /\ (m.behavior = "allow" => m.req \in allowed)
    BY <1>0 DEF TypeOK, GateInv, Flow, AllowsSound
  <2>3. \A q \in Requests :
           \/ ask'[q] = ask[q]
           \/ ask[q] = "waiting" /\ (ask'[q] = "deny" \/ (ask'[q] = "allow" /\ q \in allowed))
    BY <1>9, <1>c, <2>2 DEF Deliver
  <2> QED  BY <1>0, <2>1, <2>3, EndsWaiting
<1>10. ASSUME NEW m \in answers, Unacknowledged(m) PROVE GateInv'
  <2>1. UNCHANGED <<held, grants, live, begun, allowed, spent, revoked, posts, ask>> /\ answers' \subseteq answers
    BY <1>10 DEF Unacknowledged, runnerVars, daemonVars, history
  <2> QED  BY <1>0, <2>1, EndsWaiting
<1>11. ASSUME NEW a \in Actions, ToolCall(a) PROVE GateInv'
  BY <1>0, <1>11, CallStep
<1>12. ASSUME Cancelled(BoundTo(live)), revoked' = revoked \union BoundTo(live),
              UNCHANGED <<ask, posts, allowed, spent>>, begun \subseteq begun', live' \notin begun
       PROVE  GateInv'
  <2>1. BoundTo(live) \subseteq Requests
    BY DEF BoundTo
  <2>2. Prompts' = Prompts \ BoundTo(live) /\ Unused' = Unused \ BoundTo(live) /\ NoneTwice(grants')
    BY <1>0, <1>12, <2>1, CancelType DEF Prompts, Unused
  <2>3. \A m \in answers' : m.behavior = "allow" => m \in answers
    BY <1>12 DEF Cancelled, Says
  <2> HIDE DEF Prompts, Unused
  <2> QED  BY <1>0, <1>12, <2>2, <2>3, EndStep
<1>13. ASSUME NEW c \in Calls, StartCall(c) PROVE GateInv'
  BY <1>12, <1>13 DEF StartCall, runnerVars
<1>14. CASE EndCall
  <2>1. None \notin begun
    BY <1>0, RequestsAssumption DEF TypeOK
  <2> QED  BY <1>12, <1>14, <2>1 DEF EndCall, runnerVars
<1>15. ASSUME NEW c \in Calls, HearStart(c) PROVE GateInv'
  <2>1. UNCHANGED <<held, grants, live, begun, allowed, spent, revoked, answers>> /\ Aborted(BoundTo(active))
    BY <1>15 DEF HearStart, daemonVars, history
  <2> QED  BY <1>0, <2>1, AbortedOnly, EndsWaiting
<1>16. CASE HearEnd
  <2>1. UNCHANGED <<held, grants, live, begun, allowed, spent, revoked, answers>> /\ Aborted(BoundTo(active))
    BY <1>16 DEF HearEnd, daemonVars, history
  <2> QED  BY <1>0, <2>1, AbortedOnly, EndsWaiting
<1>17. CASE Close \/ Crash
  <2>1. /\ UNCHANGED <<ask, posts, begun, allowed, spent>> /\ live' = None /\ grants' = <<>>
        /\ revoked' = revoked \union Received \union BoundTo(live)
        /\ held' \in {<<>>, Without(held, Runners)}
    BY <1>17 DEF Close, Crash, runnerVars
  <2>2. \A m \in answers' : m.behavior = "allow" => m \in answers
    BY <1>17 DEF Close, Crash, Says
  <2>3. Unused' = {} /\ NoneTwice(grants')
    BY <2>1 DEF Unused, Elements, NoneTwice
  <2>4. Prompts' \subseteq Prompts \ Runners
    <3>1. held \in Seq(Requests)
      BY <1>0 DEF TypeOK
    <3>2. CASE held' = <<>>
      BY <3>2 DEF Prompts, Elements
    <3>3. CASE held' = Without(held, Runners)
      BY <3>1, <3>3, WithoutIs DEF Prompts
    <3> QED  BY <2>1, <3>2, <3>3
  <2>5. None \notin begun
    BY <1>0, RequestsAssumption DEF TypeOK
  <2>6. Received \subseteq Runners /\ BoundTo(live) \subseteq Runners
    BY CallType DEF Received
  <2> HIDE DEF Prompts, Unused
  <2> QED  BY <1>0, <2>1, <2>2, <2>3, <2>4, <2>5, <2>6, EndStep
<1>18. CASE RunnerStop
  <2>1. UNCHANGED <<held, grants, live, begun, allowed, spent, revoked, answers>>
    BY <1>18 DEF RunnerStop, daemonVars, history
  <2>2. \A r \in Runners : Post("ask", r) \in posts' => Post("ask", r) \in posts
    BY <1>18 DEF RunnerStop, Post
  <2>3. \A r \in Requests : ask'[r] = ask[r] \/ (ask[r] = "waiting" /\ ask'[r] = "deny")
    BY <1>18 DEF RunnerStop
  <2> QED  BY <1>0, <2>1, <2>2, <2>3, EndsWaiting
<1>19. CASE Tick
  <2>1. UNCHANGED <<held, grants, live, begun, allowed, spent, revoked, posts, ask, answers>>
    BY <1>19 DEF Tick, runnerVars, history
  <2> QED  BY <1>0, <2>1, EndsWaiting
<1>20. CASE UNCHANGED vars
  <2>1. UNCHANGED <<held, grants, live, begun, allowed, spent, revoked, posts, ask, answers>>
    BY <1>20 DEF vars
  <2> QED  BY <1>0, <2>1, EndsWaiting
<1> QED
  BY <1>1, <1>2, <1>3, <1>4, <1>5, <1>6, <1>7, <1>8, <1>9, <1>10, <1>11, <1>13, <1>14, <1>15,
     <1>16, <1>17, <1>18, <1>19, <1>20 DEF Next

LEMMA GateInit ==
    ASSUME Init
    PROVE  GateInv /\ WaitingIsHeld
<1>1. PICK s \in Scenarios :
         /\ ask = [r \in Requests |-> IF r \in s.made THEN "new" ELSE "unmade"]
         /\ faults = MaxFaults - s.faults
  BY DEF Init
<1>2. faults \in 0..MaxFaults
  <2>1. s.faults \in 0..MaxFaults /\ MaxFaults \in Nat
    BY RequestsAssumption, BoundsAssumption
  <2> QED  BY <1>1, <2>1
<1>3. ask \in [Requests -> {"unmade", "new"}]
  BY <1>1
<1>4. /\ posts = {} /\ answers = {} /\ held = <<>> /\ grants = <<>> /\ live = None /\ begun = {}
      /\ active = None /\ seen = {} /\ allowed = {} /\ spent = [r \in Requests |-> 0]
      /\ revoked = {} /\ settled = {} /\ lost = {}
      /\ asked = [r \in Requests |-> 0] /\ granted = [r \in Requests |-> 0]
      /\ recent = [r \in Requests |-> RecentTTL]
  BY DEF Init
<1>5. TypeOK
  <2>1. {PendingMax, GrantsMax, PromptTTL, GrantTTL, RecentTTL} \subseteq Nat
    BY BoundsAssumption
  <2>2. /\ asked \in [Requests -> 0..PromptTTL] /\ granted \in [Requests -> 0..GrantTTL]
        /\ recent \in [Requests -> 0..RecentTTL] /\ spent \in [Requests -> Nat]
    BY <1>4, <2>1
  <2>3. /\ held \in Seq(Requests) /\ Len(held) <= PendingMax
        /\ grants \in Seq(Runners) /\ Len(grants) <= GrantsMax
    BY <1>4, <2>1
  <2> QED  BY <1>2, <1>3, <1>4, <2>2, <2>3 DEF TypeOK
<1>6. Prompts = {} /\ Unused = {} /\ NoneTwice(grants)
  BY <1>4 DEF Prompts, Unused, Elements, NoneTwice
<1>7. OneWay /\ GrantsSound /\ AllowsSound /\ Withdrawn
  BY <1>4, <1>6 DEF OneWay, GrantsSound, AllowsSound, Withdrawn
<1>8. \A r \in Requests : ask[r] \in {"unmade", "new"} /\ spent[r] = 0
  BY <1>3, <1>4
<1>9. OwnerDecides /\ WaitingIsHeld
  BY <1>4, <1>8 DEF OwnerDecides, WaitingIsHeld, Runners
<1> QED  BY <1>5, <1>7, <1>9 DEF GateInv, Flow

LEMMA GateAlways == Spec => []GateInv
<1>1. Init => GateInv
  BY GateInit
<1>2. GateInv /\ [Next]_vars => GateInv'
  BY GateStep
<1> QED  BY <1>1, <1>2, PTL DEF Spec

\* The types: the daemon's prompts and grants keep their limits in every
\* behaviour (holdPrompt and grant of pending.ts drop the oldest), and every
\* age stops at its own.
THEOREM GateTypes == Spec => []TypeOK
<1>1. GateInv => TypeOK
  BY DEF GateInv
<1> QED  BY <1>1, GateAlways, PTL

\* An asker goes ahead only with the owner's allow, and one allow lets one
\* gated call through, for any requests, previews, calls, limits and faults.
THEOREM AllowIsSpentOnce == Spec => []OwnerDecides
<1>1. GateInv => OwnerDecides
  BY DEF GateInv, Flow
<1> QED  BY <1>1, GateAlways, PTL

(***************************************************************************)
(* What was withdrawn lets no call through: only an arriving call spends   *)
(* grants, only those on the list, and a withdrawn request is off it.      *)
(***************************************************************************)
LEMMA OnlyCallsSpend ==
    ASSUME [Next]_vars, ~\E a \in Actions : ToolCall(a)
    PROVE  spent' = spent
<1>1. ASSUME NEW r \in Requests,
             Ask(r) \/ Abort(r) \/ ReceiveAsk(r) \/ ReceiveCancel(r) \/ ServerSends(r)
      PROVE  spent' = spent
  BY <1>1 DEF Ask, Abort, ReceiveAsk, ReceiveCancel, ServerSends, history
<1>2. ASSUME NEW r \in Requests, OwnerAnswers(r) \/ Expire(r) PROVE spent' = spent
  BY <1>2 DEF OwnerAnswers, Expire, AnswerPrompt
<1>3. ASSUME NEW m, PostFails(m) \/ Deliver(m) \/ Unacknowledged(m) PROVE spent' = spent
  BY <1>3 DEF PostFails, Deliver, Unacknowledged, history
<1>4. ASSUME NEW c \in Calls, StartCall(c) \/ HearStart(c) PROVE spent' = spent
  BY <1>4 DEF StartCall, HearStart, history
<1>5. CASE HearEnd \/ EndCall \/ Close \/ Crash \/ RunnerStop \/ Tick
  BY <1>5 DEF HearEnd, EndCall, Close, Crash, RunnerStop, Tick, history
<1>6. CASE UNCHANGED vars
  BY <1>6 DEF vars
<1> QED  BY <1>1, <1>2, <1>3, <1>4, <1>5, <1>6 DEF Next

LEMMA WithdrawnStep ==
    ASSUME GateInv, [Next]_vars, NEW r \in revoked
    PROVE  spent'[r] = spent[r]
<1>1. CASE \E a \in Actions : ToolCall(a)
  <2>1. TypeOK /\ NoneTwice(grants) /\ r \notin Unused
    BY DEF GateInv, Flow, GrantsSound, Withdrawn
  <2>2. CASE UNCHANGED <<grants, spent>>
    BY <2>2
  <2>3. ASSUME NEW i \in DOMAIN grants, TakeGrant(i) PROVE spent'[r] = spent[r]
    <3>1. grants[i] \in Unused /\ spent' = [spent EXCEPT ![grants[i]] = @ + 1]
      BY <2>1, <2>3, TakeType DEF Unused
    <3>2. r \in Requests /\ spent \in [Requests -> Nat]
      BY <2>1 DEF TypeOK
    <3> QED  BY <2>1, <3>1, <3>2
  <2> QED  BY <1>1, <2>1, <2>2, <2>3, CallTakes
<1>2. CASE ~\E a \in Actions : ToolCall(a)
  BY <1>2, OnlyCallsSpend
<1> QED  BY <1>1, <1>2

\* A request that was cancelled, whose voice call ended or whose session was
\* closed lets no call through any more, before or after the owner allows it.
THEOREM WithdrawnStaysWithdrawn == Spec => RevokedLetsNothingThrough
<1>1. GateInv /\ [Next]_vars => (\A r \in revoked : spent'[r] = spent[r])
  BY WithdrawnStep
<1> QED  BY <1>1, GateAlways, PTL DEF Spec, RevokedLetsNothingThrough

(***************************************************************************)
(* Everyone who waits is waited for.                                       *)
(***************************************************************************)
Awaited(r) ==
    \/ Post("ask", r) \in posts
    \/ r \in Prompts
    \/ \E m \in answers : m.req = r
    \/ r \in lost

\* Steps that leave the messages, the prompts and the answers of those who
\* go on waiting where they are.
LEMMA StillAwaited ==
    ASSUME WaitingIsHeld,
           \A r \in Runners : ask'[r] = "waiting" => ask[r] = "waiting",
           \A r \in Runners : ask'[r] = "waiting" /\ Awaited(r) => Awaited(r)'
    PROVE  WaitingIsHeld'
<1>1. \A r \in Runners : ask[r] = "waiting" => Awaited(r)
  BY DEF WaitingIsHeld, Awaited, Prompts
<1>2. \A r \in Runners : ask'[r] = "waiting" => Awaited(r)'
  BY <1>1
<1> QED  BY <1>2 DEF WaitingIsHeld, Awaited, Prompts

\* Withdrawn prompts are answered.
LEMMA CancelAnswers ==
    ASSUME TypeOK, NEW S, S \subseteq Requests, Cancelled(S), ask' = ask, lost' = lost,
           \A r \in Runners : Post("ask", r) \in posts => Post("ask", r) \in posts',
           WaitingIsHeld
    PROVE  WaitingIsHeld'
<1>1. Prompts' = Prompts \ S
  BY CancelType DEF Prompts
<1>2. answers' = answers \union {Says(r, "deny") : r \in S \cap Prompts}
  BY DEF Cancelled, Prompts
<1>3. ASSUME NEW r \in Runners, Awaited(r) PROVE Awaited(r)'
  <2>1. CASE r \in Prompts /\ r \in S
    <3>1. Says(r, "deny") \in answers' /\ Says(r, "deny").req = r
      BY <1>2, <2>1 DEF Says
    <3> QED  BY <3>1 DEF Awaited
  <2>2. CASE ~(r \in Prompts /\ r \in S)
    BY <1>1, <1>2, <1>3, <2>2 DEF Awaited
  <2> QED  BY <2>1, <2>2
<1> QED  BY <1>3, StillAwaited

\* So is the one whose prompt is answered.
LEMMA AnswerAnswers ==
    ASSUME TypeOK, NEW q \in Requests, NEW b \in {"allow", "deny"}, NEW e \in BOOLEAN,
           AnswerPrompt(q, b, e), WaitingIsHeld
    PROVE  WaitingIsHeld'
<1>1. UNCHANGED <<ask, posts, lost>>
  BY DEF AnswerPrompt
<1>2. Prompts' = Prompts \ {q} /\ answers' = answers \union {Says(q, b)}
  BY AnswerType DEF Prompts
<1>3. Says(q, b).req = q
  BY DEF Says
<1>4. ASSUME NEW r \in Runners, Awaited(r) PROVE Awaited(r)'
  <2>1. CASE r = q
    BY <1>2, <1>3, <2>1 DEF Awaited
  <2>2. CASE r # q
    BY <1>1, <1>2, <1>4, <2>2 DEF Awaited
  <2> QED  BY <2>1, <2>2
<1> QED  BY <1>1, <1>4, StillAwaited

LEMMA WaitingStep ==
    ASSUME TypeOK, WaitingIsHeld, [Next]_vars
    PROVE  WaitingIsHeld'
<1>a. Runners \subseteq Requests /\ \A q, r : Post("ask", q) = Post("ask", r) => q = r
  BY DEF Runners, Post
<1>b. ask \in [Requests -> {"unmade", "new", "waiting", "allow", "deny"}]
  BY DEF TypeOK
<1>c. held \in Seq(Requests) /\ Len(held) <= PendingMax /\ lost \subseteq Requests
  BY DEF TypeOK
<1>d. \A r \in Runners : ask[r] = "waiting" => Awaited(r)
  BY DEF WaitingIsHeld, Awaited, Prompts
<1>e. \* Steps that keep all that is on its way, or held.
      ASSUME UNCHANGED <<held, lost>>, posts \subseteq posts', answers \subseteq answers',
             \A r \in Runners : ask'[r] = "waiting" => ask[r] = "waiting"
      PROVE  WaitingIsHeld'
  BY <1>e, StillAwaited DEF Awaited, Prompts
<1>1. ASSUME NEW r \in Requests, Ask(r) PROVE WaitingIsHeld'
  <2>1. UNCHANGED <<held, lost, answers>> /\ posts \subseteq posts'
    BY <1>1 DEF Ask, daemonVars, history
  <2>2. ASSUME NEW q \in Runners, ask'[q] = "waiting" PROVE Awaited(q)'
    <3>1. CASE q = r
      BY <1>1, <1>a, <1>b, <2>2, <3>1 DEF Ask, Awaited
    <3>2. CASE q # r
      <4>0. ask'[q] = ask[q]
        BY <1>1, <1>a, <1>b, <3>2 DEF Ask
      <4>1. Awaited(q)
        BY <1>d, <2>2, <4>0
      <4> QED  BY <2>1, <4>1 DEF Awaited, Prompts
    <3> QED  BY <3>1, <3>2
  <2> QED  BY <2>2 DEF WaitingIsHeld, Awaited, Prompts
<1>2. ASSUME NEW S, Aborted(S), UNCHANGED <<held, lost, answers>> PROVE WaitingIsHeld'
  <2>1. posts \subseteq posts'
    BY <1>2 DEF Aborted
  <2>2. \A r \in Runners : ask'[r] = "waiting" => ask[r] = "waiting"
    BY <1>2, <1>a, AbortedOnly
  <2> QED  BY <1>2, <1>e, <2>1, <2>2
<1>3. ASSUME NEW r \in Requests, Abort(r) PROVE WaitingIsHeld'
  BY <1>2, <1>3 DEF Abort, daemonVars, history
<1>4. ASSUME NEW c \in Calls, HearStart(c) PROVE WaitingIsHeld'
  BY <1>2, <1>4 DEF HearStart, daemonVars, history
<1>5. CASE HearEnd
  BY <1>2, <1>5 DEF HearEnd, daemonVars, history
<1>6. ASSUME NEW r \in Requests, HoldPrompt(r),
             posts \ {Post("ask", r)} \subseteq posts', answers \subseteq answers',
             \A q \in Runners : ask'[q] = "waiting" => ask[q] = "waiting"
      PROVE  WaitingIsHeld'
  <2>1. Prompts \union {r} \subseteq Prompts' \union lost' /\ lost \subseteq lost'
    BY <1>6, <1>c, HoldType DEF Prompts
  <2>2. ASSUME NEW q \in Runners, Awaited(q) PROVE Awaited(q)'
    <3>1. CASE q = r
      BY <2>1, <3>1 DEF Awaited
    <3>2. CASE q # r
      BY <1>6, <1>a, <2>1, <2>2, <3>2 DEF Awaited
    <3> QED  BY <3>1, <3>2
  <2> QED  BY <1>6, <2>2, StillAwaited
<1>7. ASSUME NEW r \in Requests, ReceiveAsk(r) PROVE WaitingIsHeld'
  <2>1. posts' = posts \ {Post("ask", r)} /\ ask' = ask
    BY <1>7 DEF ReceiveAsk
  <2>2. CASE HoldPrompt(r) /\ answers' = answers
    BY <1>6, <2>1, <2>2
  <2>3. CASE answers' = answers \union {Says(r, "deny")} /\ UNCHANGED <<held, lost>>
    <3>1. Says(r, "deny").req = r
      BY DEF Says
    <3>2. ASSUME NEW q \in Runners, Awaited(q) PROVE Awaited(q)'
      <4>1. CASE q = r
        BY <2>3, <3>1, <4>1 DEF Awaited
      <4>2. CASE q # r
        BY <1>a, <2>1, <2>3, <3>2, <4>2 DEF Awaited, Prompts
      <4> QED  BY <4>1, <4>2
    <3> QED  BY <2>1, <3>2, StillAwaited
  <2> QED  BY <1>7, <2>2, <2>3 DEF ReceiveAsk
<1>8. ASSUME NEW r \in Requests, ServerSends(r) PROVE WaitingIsHeld'
  <2>1. /\ HoldPrompt(r) /\ r \notin Runners /\ UNCHANGED <<posts, answers>>
        /\ ask' = [ask EXCEPT ![r] = "waiting"]
    BY <1>8 DEF ServerSends, Runners
  <2>2. \A q \in Runners : ask'[q] = ask[q]
    BY <1>a, <1>b, <2>1
  <2> QED  BY <1>6, <2>1, <2>2
<1>9. ASSUME NEW r \in Requests, ReceiveCancel(r) PROVE WaitingIsHeld'
  <2>1. Cancelled({r}) /\ posts' = posts \ {Post("cancel", r)} /\ UNCHANGED <<ask, lost>>
    BY <1>9 DEF ReceiveCancel
  <2>2. \A q \in Runners : Post("ask", q) \in posts => Post("ask", q) \in posts'
    BY <2>1 DEF Post
  <2> QED  BY <2>1, <2>2, CancelAnswers
<1>10. ASSUME NEW r \in Requests, OwnerAnswers(r) \/ Expire(r) PROVE WaitingIsHeld'
  BY <1>10, AnswerAnswers DEF OwnerAnswers, Expire
<1>11. ASSUME NEW m \in posts, PostFails(m) PROVE WaitingIsHeld'
  <2>1. UNCHANGED <<held, lost, answers>> /\ posts \ {m} \subseteq posts'
    BY <1>11 DEF PostFails, daemonVars, history
  <2>2. \A q \in Requests : ask'[q] = "waiting" => ask[q] = "waiting" /\ m # Post("ask", q)
    BY <1>11, <1>b DEF PostFails, Post
  <2>3. \A q \in Runners : ask'[q] = "waiting" /\ Awaited(q) => Awaited(q)'
    BY <1>a, <2>1, <2>2 DEF Awaited, Prompts
  <2> QED  BY <1>a, <2>2, <2>3, StillAwaited
<1>12. ASSUME NEW m \in answers, Deliver(m) PROVE WaitingIsHeld'
  <2>1. UNCHANGED <<held, lost, posts>> /\ answers' = answers \ {m}
    BY <1>12 DEF Deliver, daemonVars, history
  <2>2. m.behavior # "waiting"
    BY DEF TypeOK
  <2>3. \A q \in Requests : ask'[q] = "waiting" => ask[q] = "waiting" /\ m.req # q
    BY <1>12, <1>b, <2>2 DEF Deliver
  <2>4. \A q \in Runners : ask'[q] = "waiting" /\ Awaited(q) => Awaited(q)'
    BY <1>a, <2>1, <2>3 DEF Awaited, Prompts
  <2> QED  BY <1>a, <2>3, <2>4, StillAwaited
<1>13. ASSUME NEW m \in answers, Unacknowledged(m) PROVE WaitingIsHeld'
  <2>1. UNCHANGED <<held, lost, posts, ask>> /\ answers' = answers \ {m} /\ m.req \notin Runners
    BY <1>13 DEF Unacknowledged, runnerVars, daemonVars, history, Runners
  <2>2. \A q \in Runners : Awaited(q) => Awaited(q)'
    BY <2>1 DEF Awaited, Prompts
  <2> QED  BY <2>1, <2>2, StillAwaited
<1>14. ASSUME NEW a \in Actions, ToolCall(a) PROVE WaitingIsHeld'
  <2>1. UNCHANGED <<ask, posts, answers>> /\ held' = Without(held, Settles(a)) /\ lost' = lost \union Settles(a)
    BY <1>14 DEF ToolCall, runnerVars
  <2>2. Prompts' = Prompts \ Settles(a)
    BY <1>c, <2>1, WithoutIs DEF Prompts
  <2>3. \A q \in Runners : Awaited(q) => Awaited(q)'
    BY <2>1, <2>2 DEF Awaited
  <2> QED  BY <2>1, <2>3, StillAwaited
<1>15. ASSUME NEW c \in Calls, StartCall(c) PROVE WaitingIsHeld'
  <2>1. Cancelled(BoundTo(live)) /\ BoundTo(live) \subseteq Requests /\ UNCHANGED <<ask, posts, lost>>
    BY <1>15 DEF StartCall, BoundTo, runnerVars
  <2> QED  BY <2>1, CancelAnswers
<1>16. CASE EndCall
  <2>1. Cancelled(BoundTo(live)) /\ BoundTo(live) \subseteq Requests /\ UNCHANGED <<ask, posts, lost>>
    BY <1>16 DEF EndCall, BoundTo, runnerVars
  <2> QED  BY <2>1, CancelAnswers
<1>17. ASSUME held' = <<>> \/ held' = Without(held, Runners), UNCHANGED <<ask, posts>>,
              lost' = lost \union (Prompts \cap Runners) \union {m.req : m \in answers \ answers'}
                 \/ lost' = lost \union Prompts \union {m.req : m \in answers \ answers'}
       PROVE  WaitingIsHeld'
  <2>1. ASSUME NEW q \in Runners, Awaited(q) PROVE Awaited(q)'
    <3>1. CASE q \in lost \/ q \in Prompts
      BY <1>17, <3>1 DEF Awaited
    <3>2. CASE Post("ask", q) \in posts
      BY <1>17, <3>2 DEF Awaited
    <3>3. ASSUME NEW m \in answers, m.req = q PROVE Awaited(q)'
      BY <1>17, <3>3 DEF Awaited
    <3> QED  BY <2>1, <3>1, <3>2, <3>3 DEF Awaited
  <2> QED  BY <1>17, <2>1, StillAwaited
<1>18. CASE Close
  BY <1>17, <1>18 DEF Close, runnerVars, Prompts
<1>19. CASE Crash
  BY <1>17, <1>19 DEF Crash, runnerVars, Prompts
<1>20. CASE RunnerStop
  <2>1. \A r \in Runners : ask'[r] # "waiting"
    BY <1>20, <1>a DEF RunnerStop
  <2> QED  BY <2>1 DEF WaitingIsHeld
<1>21. CASE Tick
  BY <1>e, <1>21 DEF Tick, runnerVars, history
<1>22. CASE UNCHANGED vars
  BY <1>e, <1>22 DEF vars
<1> QED
  BY <1>1, <1>3, <1>4, <1>5, <1>7, <1>8, <1>9, <1>10, <1>11, <1>12, <1>13, <1>14, <1>15,
     <1>16, <1>18, <1>19, <1>20, <1>21, <1>22 DEF Next

\* Everyone of the runner who waits is waited for, in any order of posts,
\* cancels, calls, answers and crashes: cancelling, revoking, refusing and
\* expiring never leave an asker behind; only a dropped prompt may.
THEOREM NobodyIsForgotten == Spec => []WaitingIsHeld
<1>1. Init => WaitingIsHeld
  BY GateInit
<1>2. TypeOK /\ WaitingIsHeld /\ [Next]_vars => WaitingIsHeld'
  BY WaitingStep
<1> QED  BY <1>1, <1>2, GateTypes, PTL DEF Spec
=============================================================================
