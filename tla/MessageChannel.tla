--------------------------- MODULE MessageChannel ---------------------------
(***************************************************************************)
(* What a connection promises to those who use it, and what module Client  *)
(* takes it for: requests are handled one by one in the order they were    *)
(* sent, each is answered, and the answers arrive whole and in that order, *)
(* until the connection breaks or a request too long ends the session.     *)
(***************************************************************************)
EXTENDS Sequences

CONSTANTS
  Messages,   \* bodies of requests and answers
  TooLong,    \* those the server refuses to read
  AnswerTo,   \* the server's answer to each of the others
  Refusal     \* its answer to a request too long

VARIABLES
  open,       \* the server reads requests
  toServer,   \* sent and not handled
  toClient,   \* answered and not received
  got         \* received on this connection

channelVars == <<open, toServer, toClient, got>>

Init == open = TRUE /\ toServer = <<>> /\ toClient = <<>> /\ got = <<>>

Ask(m) ==
  /\ open
  /\ toServer' = Append(toServer, m)
  /\ UNCHANGED <<open, toClient, got>>

Handle ==
  /\ toServer # <<>> /\ Head(toServer) \notin TooLong
  /\ toServer' = Tail(toServer)
  /\ toClient' = Append(toClient, AnswerTo[Head(toServer)])
  /\ UNCHANGED <<open, got>>

(* The requests behind it are lost.                                        *)
Refuse ==
  /\ toServer # <<>> /\ Head(toServer) \in TooLong
  /\ open' = FALSE /\ toServer' = <<>>
  /\ toClient' = Append(toClient, Refusal)
  /\ UNCHANGED got

Receive ==
  /\ toClient # <<>>
  /\ got' = Append(got, Head(toClient)) /\ toClient' = Tail(toClient)
  /\ UNCHANGED <<open, toServer>>

Break ==
  /\ open /\ open' = FALSE
  /\ toServer' = <<>>
  /\ UNCHANGED <<toClient, got>>

(* Another connection takes the place of this one, or none does.           *)
Disconnect ==
  /\ ~open /\ open' \in BOOLEAN
  /\ toServer' = <<>> /\ toClient' = <<>> /\ got' = <<>>

Next == (\E m \in Messages : Ask(m)) \/ Handle \/ Refuse \/ Receive \/ Break \/ Disconnect

Spec == Init /\ [][Next]_channelVars
          /\ WF_channelVars(Handle \/ Refuse) /\ WF_channelVars(Receive)
=============================================================================
