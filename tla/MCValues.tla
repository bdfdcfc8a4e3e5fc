------------------------------ MODULE MCValues ------------------------------
(* The values the small instances are made of.  A client is named for what  *)
(* it does: s1 and s2 subscribe, p1 and p2 publish, n1 listens for          *)
(* subscriptions, a1 and a2 authorize.                                      *)
CONSTANTS s1, s2, p1, p2, n1, a1, a2, f1, t1, t2, e1, e2

\* What HasRole answers in an instance with these interactors and feeds.
DecisionsOf(interactors, feeds) ==
    (({s1, s2} \cap interactors) \X feeds \X {"Subscribe"})
    \cup (({p1, p2} \cap interactors) \X feeds \X {"Publish"})
    \cup (({a1, a2} \cap interactors) \X feeds \X {"Authorize"})

\* The heartbeat's topic is one that clients use, or none of them.
HeartbeatOnT2 == <<f1, t2>>
HeartbeatElsewhere == <<s1, s1>>

Grant(es) == [isAuthorizationRequired |-> TRUE, entitlements |-> es]
Deny == Grant({})
Unrestricted == [isAuthorizationRequired |-> FALSE, entitlements |-> {}]
NoAnswers == {}
\* Any answer for the topic t1, and one for the topic that has the feed's name.
SomeAnswers ==
    {<<s1, <<f1, t1>>, r>> : r \in {Grant({e1}), Deny, Unrestricted}}
    \cup {<<s1, <<f1, f1>>, Grant({e2})>>}

\* A packet for each entitlement, one that needs both and one that names none.
MixedMessage == {{{e1}, {e2}, {e1, e2}, {}}}
PlainMessage == {{{}}}
NoMessages == {}
=============================================================================
