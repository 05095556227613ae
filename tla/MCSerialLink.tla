---------------------------- MODULE MCSerialLink ----------------------------
(* Values for the constants of SerialLink.                                 *)
EXTENDS SerialLink

CONSTANTS a, b   \* submissions

\* A SEND_DATA and a GET_*, the flows that the program's own commands have.
AnswerFlows == a :> "AckWithResponseCallback" @@ b :> "AckWithResponse"

\* A watchdog command, which nobody acknowledges, and a SEND_DATA.
FireFlows == a :> "Unacknowledged" @@ b :> "AckWithResponseCallback"
=============================================================================
