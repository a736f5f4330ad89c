------------------------------- MODULE Inbox -------------------------------
(***************************************************************************)
(* What the receive buffer promises to the reader of an interrupt: while the *)
(* interrupt is served bytes go into a queue, and when it has been served    *)
(* the reader gets all that wait, in their order, or is told that some are    *)
(* missing and reads none.                                                   *)
(***************************************************************************)
EXTENDS Queue

VARIABLE serving   \* an interrupt is served

InboxInit == Init /\ serving = FALSE

Begin == ~serving /\ serving' = TRUE /\ UNCHANGED vars

Put == serving /\ (Accept \/ Refuse \/ Discard) /\ UNCHANGED serving

ReadAll == ~dropped /\ waiting' = << >> /\ UNCHANGED dropped

End == serving /\ serving' = FALSE /\ (ReadAll \/ (dropped /\ Ask))

InboxNext == Begin \/ Put \/ End

InboxSpec == InboxInit /\ [][InboxNext]_<<vars, serving>>
=============================================================================
