-------------------------- MODULE MCRouteExecution --------------------------
(* Instances of RouteExecution: sends and their retries, and a pull.        *)
EXTENDS RouteExecution, TLC

AnyOrder == Permutations(Requests)

SendOf(key, body) == [mode |-> "push", key |-> key, body |-> body]
PullOf(hidden)    == [mode |-> "pull", hidden |-> hidden]

SendsAndPulls == {PullOf(FALSE), PullOf(TRUE), SendOf("key.1", "q1"), SendOf("key.1", "q2"),
                  SendOf("key.2", "q1")}

TwoFiles == {<<1, 1>>, <<2, 1>>}
=============================================================================
