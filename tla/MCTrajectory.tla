---------------------------- MODULE MCTrajectory ----------------------------
(***************************************************************************)
(* One turn that is read while it runs, with what the slow loop writes     *)
(* beside it; and two turns on two threads to select from.                 *)
(***************************************************************************)
EXTENDS Trajectory

MCTurns == {"a", "b"}
MCHome == [t \in MCTurns |-> IF t = "a" THEN "h2" ELSE "h1"]
MCRequests == <<"q1", "q2", "q3">>

MCIdOrder ==
    << <<"execution", "a", 2>>, <<"execution", "b", 1>>, <<"execution", "a", 1>>,
       <<"learning">>, <<"memory">>, <<"model-request", "q2">>,
       <<"model-request", "q1">>, <<"model-request", "q3">>,
       <<"thread", "h1">>, <<"thread", "h2">> >>

MCSlowEvents == <<"learning">> :> {"learning.loop.run", "learning.proposal.created"}
                @@ <<"memory">> :> {"memory.claim.recorded"}

MCQueries == {[loop |-> "any", category |-> "any"], [loop |-> "any", category |-> "tool"],
              [loop |-> "slow", category |-> "any"], [loop |-> "fast", category |-> "reasoning"]}

MCScenes ==
    {[turns |-> {"a"}, reader |-> "timeline", steps |-> 2, calls |-> 1, batch |-> 1,
      approvals |-> 0, requests |-> 1, crashes |-> 0],
     [turns |-> {"a"}, reader |-> "turn", steps |-> 2, calls |-> 2, batch |-> 1,
      approvals |-> 0, requests |-> 3, crashes |-> 1],
     [turns |-> {"a"}, reader |-> "turn", steps |-> 2, calls |-> 2, batch |-> 2,
      approvals |-> 1, requests |-> 2, crashes |-> 1],
     [turns |-> {"a", "b"}, reader |-> "selection", steps |-> 1, calls |-> 1, batch |-> 1,
      approvals |-> 0, requests |-> 2, crashes |-> 0]}

=============================================================================
