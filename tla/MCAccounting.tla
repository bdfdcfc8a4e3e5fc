--------------------------- MODULE MCAccounting ---------------------------
(***************************************************************************)
(* Small instances of Accounting for TLC.  The constants given a value     *)
(* here depend on the clients and feeds of the instance.                   *)
(***************************************************************************)
EXTENDS Accounting, MCValues

Decisions == DecisionsOf(Interactors, Feeds)
\* A publisher that subscribes to its own feed as well.
DecisionsWithBoth == Decisions \cup ({p1} \X Feeds \X {"Subscribe"})
\* An authorizer that publishes as well.
DecisionsOfBoth == Decisions \cup ({a1} \X Feeds \X {"Publish"})

\* The clients' own permissions name every feed for authorizers ...
NamedFeeds == [c \in Interactors |-> IF c \in {a1, a2} THEN Feeds ELSE {}]
\* ... or the roles come from the distributor's permissions and name none.
NoNamedFeeds == [c \in Interactors |-> {}]
=============================================================================
