----------------------------- MODULE MCService -----------------------------
(* A service with two calls over a file that is edited once, alone or beside a *)
(* client. v1 enables the cache and the limits of the method and has both keys *)
(* of the server's, v2 neither and no key for a registry; v3 has one without a *)
(* value. One of the users has a fixed window. It is started once.             *)
(* Or servers and a client without a service: a registry without a version,    *)
(* one with a version, or none, and threads that construct Dubbo or use the    *)
(* one there is.                                                               *)
EXTENDS Service
CONSTANTS v1, v2, v3, s1, s2, s3, c1, k1, k2, u1, u2, blank
MCGiven == [v \in {v1, v2, v3} |-> CASE v = v1 -> <<1, 2>> [] v = v2 -> <<1>> [] OTHER -> <<2>>]
MCInterfaces == <<"lo", "down", "local">>
MCOrder == <<"server", "method">>
MCFiles == {[c \in Configs |-> v1]}
Text(scheme, host, user, parameters) ==
    [scheme |-> scheme, host |-> host, port |-> 2181, username |-> user, password |-> user,
     path |-> blank, parameters |-> parameters]
R1 == Text("zookeeper", "r1", "admin", [k \in {"loadbalance", "group"} |-> k])
R2 == Text("nacos", "r2", blank, [k \in {"namespace", "version"} |-> k])
MCHostOf == [v \in {"none", v1, v2, v3} |-> CASE v = v1 -> "h1" [] v = v2 -> "h2" [] OTHER -> blank]
MCPortOf == [v \in {"none", v1, v2, v3} |-> CASE v = v1 -> 1 [] v = v2 -> 2 [] OTHER -> 0]
MCCenterOf == [v \in {"none", v1, v2, v3} |-> IF v = v1 THEN R1 ELSE NoRegistry]
Reference == NewReference("tri", "svc", "h1", 1)
Serving(text, version) == Plan(TRUE, text, version, NewService(blank, 0, "svc"))
Plans(a, b, c) ==
    [f \in {s1, s2, s3, c1} |-> CASE f = s2 -> a [] f = s3 -> b [] f = c1 -> c
                                  [] OTHER -> Serving(NoRegistry, NoApplication)]
Other == Plan(TRUE, R2, NoApplication, NewService("h2", 2, "other"))
Beside == Plans(Other, Other, Plan(TRUE, R2, "a2", Reference))
Looking == Plans(Serving(R1, "a1"), Other, Plan(TRUE, R1, NoApplication, Reference))
Reusing == Plans(Serving(R2, "a1"), Serving(NoRegistry, "a2"), Plan(FALSE, NoRegistry, NoApplication, Reference))
MCSetups == {Beside, Looking, Reusing}
Unread == [c \in Configs |-> "none"]
Scenario(edits, before, facades, plans, calls) ==
    [edits |-> edits, snapshot |-> before, facades |-> facades, plan |-> plans, calls |-> calls]
MCScenarios ==
    {Scenario(1, Unread, {s1}, Beside, {}),
     Scenario(1, [Unread EXCEPT !["server"] = v2], {s1}, Beside, {}),
     Scenario(0, Unread, {s1, c1}, Beside, {}),
     Scenario(0, Unread, {s1}, Beside, {k1, k2}),
     Scenario(0, Unread, {s2, s3}, Looking, {}), Scenario(0, Unread, {s2, c1}, Looking, {}),
     Scenario(0, Unread, {s2, s3, c1}, Reusing, {})}
MCStrategy == [u \in {u1, u2} |-> IF u = u1 THEN "fixed_window" ELSE "gcra"]
One == [u \in {u1, u2} |-> 1]
Two == [u \in {u1, u2} |-> 2]
MCSpec == ServiceInit /\ [][ServiceNext /\ starts'[s1] <= 1]_serviceVars /\ ServiceFairness
=============================================================================
