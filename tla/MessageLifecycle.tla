---------------------------- MODULE MessageLifecycle ----------------------------
(***************************************************************************)
(* What the mailbox promises about the life of a message, as a reader of   *)
(* trw_inbox(status) sees it through the one derivation of                 *)
(* src/trw_mcp/comms/_handoff.py (derive_handoff): a message is admitted   *)
(* once, then either expires or is acknowledged, and an acknowledged       *)
(* request is accepted, reported and completed, in that order and for      *)
(* good.  Closing the group settles every message still pending, and       *)
(* nothing happens to any message afterwards.  Mailbox implements it.      *)
(***************************************************************************)
CONSTANTS
    Msg,
    request    \* [Msg -> what names the message]

VARIABLES
    phase,     \* [Msg -> Phase]
    open       \* the group still works

vars == <<phase, open>>

Phase == {"absent", "pending", "expired", "acked", "accepted", "reported", "completed"}

\* The moves of one message; an acceptance acknowledges a pending message on its way.
Moves ==
    { <<"absent", "pending">>, <<"pending", "expired">>, <<"pending", "acked">>,
      <<"pending", "accepted">>, <<"acked", "accepted">>, <<"accepted", "reported">>,
      <<"reported", "completed">> }

Init ==
    /\ phase = [m \in Msg |-> "absent"]
    /\ open = TRUE

MovesOnly ==
    /\ phase' \in [Msg -> Phase]
    /\ \A m \in Msg : phase'[m] # phase[m] => <<phase[m], phase'[m]>> \in Moves

\* An operation admits the messages of one request at most; the others move as they may.
Work ==
    /\ open
    /\ MovesOnly
    /\ \A m, n \in Msg :
          phase[m] # phase'[m] /\ phase[n] # phase'[n]
          /\ phase[m] = "absent" /\ phase[n] = "absent" => request[m] = request[n]
    /\ UNCHANGED open

\* The group closes: what was pending expires, nothing else moves.
Close ==
    /\ open
    /\ open' = FALSE
    /\ phase' = [m \in Msg |-> IF phase[m] = "pending" THEN "expired" ELSE phase[m]]

Next == Work \/ Close

Spec == Init /\ [][Next]_vars

================================================================================
