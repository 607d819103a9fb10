--------------------------------- MODULE MCSync ---------------------------------
(* Constants of the model check of Sync. *)
EXTENDS Sync, TLC

CONSTANTS loop, command

\* Learnings of both tiers wait for the first cycle, then the organisation publishes more.
MCFirstFeed == ("org" :> 1) @@ ("company" :> 1)
MCMaxFeed == ("org" :> 2) @@ ("company" :> 1)

\* The server's loop, and commands beside it.
MCCallsOf == (loop :> {"both"}) @@ (command :> {"push", "pull", "replay", "retry"})
================================================================================
