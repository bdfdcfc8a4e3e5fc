---------------------------- MODULE MCAdmission ----------------------------
EXTENDS Admission, TLC

UpperCase == ("a" :> "A") @@ ("b" :> "B")
SomeHosts == {<<"a">>, <<"A", "b">>, <<"b", "a", "b">>}
Patterns ==
    {<<"a", "?">>, <<"a", "?", "b">>, <<"?", "B">>, <<"*", "?", "b">>, <<"?", "*", "a", "*">>}

SecondPatterns == {<<"*">>, <<"b", "*">>}

TwoEntries(p, q) ==
    <<[pattern |-> p, allow |-> {"Publish"}, deny |-> {"Subscribe"}],
      [pattern |-> q, allow |-> {"Subscribe", "Publish"}, deny |-> {"Publish"}]>>

\* The only user has two entries for the only feed, or the feed is in the file with
\* no entry, or it is not.
SomeFiles == {[u \in {"staff"} |-> [f \in {"ticks"} |-> entries]] :
    entries \in {TwoEntries(p, q) : p \in Patterns, q \in SecondPatterns} \cup {<<>>, None}}
=============================================================================
