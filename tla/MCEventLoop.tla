---------------------------- MODULE MCEventLoop ----------------------------
(***************************************************************************)
(* Small instances of EventLoop for TLC.  The interactors are symmetric,   *)
(* but the runs check liveness and do not use that.                        *)
(***************************************************************************)
EXTENDS EventLoop, TLC

CONSTANTS c1, c2

FirstTalks == (c1 :> 1) @@ (c2 :> 0)
Each == [c \in Interactors |-> 1]
=============================================================================
