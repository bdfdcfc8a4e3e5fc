--------------------------- MODULE MCDistributor ---------------------------
(***************************************************************************)
(* Small instances of Distributor for TLC.  The constants given a value    *)
(* here depend on the clients and feeds of the instance.                   *)
(***************************************************************************)
EXTENDS Distributor, MCValues

Decisions == DecisionsOf(Interactors, Feeds)

\* The roles come from the distributor's permissions: no client's own name a feed.
NoNamedFeeds == [c \in Interactors |-> {}]
=============================================================================
