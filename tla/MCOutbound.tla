------------------------------ MODULE MCOutbound ------------------------------
(* Instances of Outbound for TLC. *)
EXTENDS Outbound, TLC

CONSTANTS c1, c2, c3

\* One polling request after the other, as a client that behaves sends them.
OnePoll == (c1 :> "poll")

\* A poll, an htmlfile stream and a WebSocket of one session.
Mixed == (c1 :> "poll") @@ (c2 :> "chunk") @@ (c3 :> "websocket")

=============================================================================
