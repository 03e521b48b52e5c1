---------------------------- MODULE MCApprovals ----------------------------
(* Requests r1 and r2 are about the same post (r2 shows it elided, so it   *)
(* also matches another one), v speaks on the voice call c, f is about a   *)
(* tool of another server, s is asked for by mcp.metro.box; d is a second  *)
(* voice call, which replaces c.                                           *)
EXTENDS Approvals
CONSTANTS r1, r2, v, f, s, post, other, speech, c, d
MCWants == [r \in Requests |-> CASE r = v -> speech [] r = s -> other [] OTHER -> post]
MCShows == [r \in Requests |-> IF r = r2 THEN {post, other} ELSE {MCWants[r]}]
MCTarget == [a \in Actions |-> IF a = speech THEN <<c, "source">> ELSE None]
MCScenarios ==
    {x \in {[made |-> {r1, r2, f}, faults |-> 0], [made |-> {r1, r2}, faults |-> 1],
            [made |-> {v, s}, faults |-> 1]} : x.made \subseteq Requests}
MCAccess == [a \in Actions |-> IF a = other THEN "allow" ELSE "ask"]
=============================================================================
