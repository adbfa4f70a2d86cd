----------------------------- MODULE MCListings -----------------------------
(* Small instances of Listings. *)
EXTENDS Listings, TLC

CONSTANTS b1

\* Pages of one item, or at most two; the server lets three pass.
McToolLimits ==
  [raia_agent_list |-> [max |-> 2, default |-> 2],
   raia_trace_list |-> [max |-> 2, default |-> 1],
   raia_trace_get |-> [max |-> 20, default |-> 10]]

\* Id 3 is "a b", 2 is "a%20b" and 9 is "a%2520b", whom nobody is called.
McEncodings == 3 :> 2 @@ 2 :> 9

\* One list of each kind, and one of an id that needs encoding; the other
\* workspace and the other agents are where what is listed comes from and goes to.
McLists ==
  {[kind |-> "workspaces"], [kind |-> "agents", of |-> 1]}
    \cup [kind : {"traces"}, of : {1}, outcome : {{}, {"failure"}}]
    \cup [kind : {"traces"}, of : {3}, outcome : {{}}]

\* One agent that may advance.
McVersions == [id \in AgentIds |-> IF id = 1 THEN 2 ELSE 1]

\* None, too small, the most, and more than the server lets pass.
McLimits == {{}, {0}, {2}, {4}}

Event(size, secrets) == [size |-> size, secrets |-> secrets]
\* Traces that fit a budget in part, with a secret in the part that does not.
McTraces ==
  <<[outcome |-> "failure",
     events |-> <<Event(2, {}), Event(3, {"token"}), Event(9, {"bearer"})>>],
    [outcome |-> "success", events |-> <<Event(2, {}), Event(2, {})>>]>>
=============================================================================
