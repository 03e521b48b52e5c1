--------------------------- MODULE MCInboundChannel ---------------------------
(* Two agent processes that take the slot from each other, and four feeds.     *)
EXTENDS InboundChannel
CONSTANTS c1, c2
MCClients == {c1, c2}

Plain(k) == [kind |-> k, parts |-> 0, of |-> 0]
Photo(n) == [kind |-> "photo", parts |-> n, of |-> 0]
File(k, p) == [kind |-> k, parts |-> 0, of |-> p]

MCFeeds == {
  <<Plain("text"), Plain("text"), Plain("text")>>,
  <<Photo(2), File("saved", 1), File("failed", 1)>>,
  <<Photo(1), File("saved", 1), Plain("foreign"), Plain("text")>> }
==============================================================================
