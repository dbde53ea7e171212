------------------------------ MODULE Framing ------------------------------
(***************************************************************************)
(* The bytes of one connection: NetworkManager of the client and Session   *)
(* of the server.  A message is a header with the length of its body, most *)
(* significant byte first, and the body.  The client's bytes go through    *)
(* one ordered buffer of its socket.  The server starts one async_write    *)
(* per answer and waits for none: each sends a piece, as much as there is  *)
(* room for and one write takes, and queues for the socket again with the  *)
(* rest once its handler runs; answers written meanwhile come before it.   *)
(* Bytes arrive at the client in pieces of any size.                       *)
(***************************************************************************)
EXTENDS Naturals, SequencesExt

CONSTANTS
  Base,          \* values of a byte (256)
  HeaderSize,    \* bytes of a header (4)
  Place,         \* what each byte of a header counts (2^24, 2^16, 2^8, 1)
  MaxLength,     \* longest body the server accepts (1000000)
  Links,         \* kinds of connection: the most bytes of one write_some of
                 \* async_write (65536), the room for bytes between the two
                 \* sockets, the answers the client may be waiting for
  Bodies,        \* bodies of requests and answers
  Answer,        \* the body of the server's answer to each body
  InvalidLength, \* the body of its answer to a length it does not accept
  MaxAsked,      \* bound on the requests of a connection
  MaxConnections \* bound on the connections

ASSUME FramingAssumption ==
  /\ Base \in Nat \ {0, 1} /\ HeaderSize \in Nat \ {0}
  /\ Place \in [1..HeaderSize -> Nat] /\ Place[HeaderSize] = 1
  /\ \A i \in 1..HeaderSize - 1 : Place[i] = Base * Place[i + 1]
  /\ MaxLength \in Nat \ {0}
  /\ Links \subseteq [transfer : Nat \ {0}, room : Nat \ {0}, window : Nat \ {0}]
  /\ \A b \in Bodies : b \in Seq(0 .. Base - 1) /\ Len(b) \in 1 .. Base * Place[1] - 1
  /\ Answer \in [Bodies -> Bodies] /\ InvalidLength \in Bodies
  /\ MaxAsked \in Nat /\ MaxConnections \in Nat \ {0}

VARIABLES
  link,          \* the kind of this client's connections
  connections,   \* connections so far
  connected,     \* state of the client's socket
  asked,         \* history: bodies passed to sendRequest on this connection
  up,            \* bytes on their way to the server
  reading,       \* the Session goes on reading
  expects,       \* length of the body to read next, 0 for a header
  answered,      \* history: bodies passed to sendMessage
  writes,        \* bytes of the async_writes that queue for the socket
  resting,       \* of those between two pieces, what is left of each
  pieces,        \* history: "whole" while no answer is sent in part, "split"
                 \* while the only one under way is, "mixed" once there were two
  alive,         \* the Session exists
  down,          \* bytes on their way to the client
  buffer,        \* NetworkManager::m_buffer
  received       \* history: bodies emitted by messageReceived

clientSide == <<link, connections, connected, asked, buffer, received>>
serverSide == <<reading, expects, answered, writes, resting, pieces, alive>>
framingVars == <<clientSide, serverSide, up, down>>
----------------------------------------------------------------------------
(* Frames *)

Header(len) == [i \in 1..HeaderSize |-> (len \div Place[i]) % Base]

Frame(body) == Header(Len(body)) \o body

LengthIn(header) ==
  LET len[i \in 0..HeaderSize] == IF i = 0 THEN 0 ELSE len[i - 1] * Base + header[i]
  IN len[HeaderSize]

Prefix(bytes, n) == SubSeq(bytes, 1, n)
Rest(bytes, n) == SubSeq(bytes, n + 1, Len(bytes))
----------------------------------------------------------------------------
(* The client writes *)

SendRequest(body) ==
  /\ connected /\ Len(asked) < MaxAsked /\ Len(asked) - Len(received) < link.window
  /\ asked' = Append(asked, body)
  /\ up' = IF alive THEN up \o Frame(body) ELSE up
  /\ UNCHANGED <<link, connections, connected, buffer, received, serverSide, down>>
----------------------------------------------------------------------------
(* The Session reads and starts writing *)

SendMessage(body) ==
  /\ answered' = Append(answered, body)
  /\ writes' = Append(writes, Frame(body))
  /\ pieces' = IF pieces = "whole" THEN "whole" ELSE "mixed"
  /\ UNCHANGED resting

(* Mutant: the longest body accepted is refused.                           *)
ReadHeaderStrict ==
  LET len == LengthIn(Prefix(up, HeaderSize)) IN
  /\ reading /\ expects = 0 /\ Len(up) >= HeaderSize
  /\ up' = Rest(up, HeaderSize)
  /\ \/ /\ len = 0 \/ len >= MaxLength
        /\ SendMessage(InvalidLength)
        /\ reading' = FALSE /\ UNCHANGED expects
     \/ /\ len # 0 /\ len < MaxLength
        /\ expects' = len
        /\ UNCHANGED <<reading, answered, writes, resting, pieces>>
  /\ UNCHANGED <<clientSide, alive, down>>

(* After a length it does not accept it answers and reads no more.         *)
ReadHeader ==
  LET len == LengthIn(Prefix(up, HeaderSize)) IN
  /\ reading /\ expects = 0 /\ Len(up) >= HeaderSize
  /\ up' = Rest(up, HeaderSize)
  /\ \/ /\ len = 0 \/ len > MaxLength
        /\ SendMessage(InvalidLength)
        /\ reading' = FALSE /\ UNCHANGED expects
     \/ /\ len # 0 /\ len <= MaxLength
        /\ expects' = len
        /\ UNCHANGED <<reading, answered, writes, resting, pieces>>
  /\ UNCHANGED <<clientSide, alive, down>>

(* The body is handled and answered before the next header is read.        *)
ReadBody ==
  /\ reading /\ expects # 0 /\ Len(up) >= expects
  /\ up' = Rest(up, expects)
  /\ expects' = 0
  /\ SendMessage(Answer[Prefix(up, expects)])
  /\ UNCHANGED <<clientSide, reading, alive, down>>

(* One write_some.                                                         *)
WriteSome ==
  LET bytes == Head(writes)
      space == link.room - Len(down)
      n == CHOOSE m \in {Len(bytes), link.transfer, space} :
             \A k \in {Len(bytes), link.transfer, space} : m <= k
  IN
  /\ writes # <<>> /\ Len(down) < link.room
  /\ down' = down \o Prefix(bytes, n)
  /\ writes' = Tail(writes)
  /\ \/ /\ n = Len(bytes)
        /\ pieces' = IF pieces = "mixed" THEN "mixed" ELSE "whole"
        /\ UNCHANGED resting
     \/ /\ n # Len(bytes)
        /\ pieces' = IF pieces # "mixed" /\ Len(writes) = 1 /\ resting = <<>>
                     THEN "split" ELSE "mixed"
        /\ resting' = Append(resting, Rest(bytes, n))
  /\ UNCHANGED <<clientSide, reading, expects, answered, alive, up>>

(* The handler of a piece runs and queues the rest for the socket.         *)
Resume ==
  /\ resting # <<>>
  /\ writes' = Append(writes, Head(resting)) /\ resting' = Tail(resting)
  /\ UNCHANGED <<clientSide, reading, expects, answered, pieces, alive, up, down>>

(* No operation holds the Session any more.  Closing a socket with bytes   *)
(* unread resets the connection, and what the client has not read yet may  *)
(* be lost.                                                                *)
SessionEnds ==
  /\ alive /\ ~reading /\ writes = <<>> /\ resting = <<>>
  /\ alive' = FALSE /\ up' = <<>>
  /\ \/ UNCHANGED down
     \/ up # <<>> /\ down' = <<>>
  /\ UNCHANGED <<clientSide, reading, expects, answered, writes, resting, pieces>>

(* Any part of what is under way is lost; a read or a write fails and the  *)
(* Session ends.                                                           *)
ConnectionBreaks ==
  /\ alive /\ alive' = FALSE /\ reading' = FALSE
  /\ up' = <<>> /\ writes' = <<>> /\ resting' = <<>>
  /\ \E n \in 0..Len(down) : down' = Prefix(down, n)
  /\ UNCHANGED <<clientSide, expects, answered, pieces>>
----------------------------------------------------------------------------
(* The client reads *)

(* The buffer holds a whole message.                                       *)
Complete ==
  /\ Len(buffer) >= HeaderSize
  /\ Len(buffer) >= HeaderSize + LengthIn(Prefix(buffer, HeaderSize))

(* Some of the bytes under way, however they were cut.                     *)
OnReadyRead ==
  /\ connected /\ ~Complete
  /\ \E n \in 1..Len(down) : buffer' = buffer \o Prefix(down, n) /\ down' = Rest(down, n)
  /\ UNCHANGED <<link, connections, connected, asked, received, serverSide, up>>

(* Mutant: what follows the message in the buffer goes with it.            *)
TryProcessBufferDropping ==
  LET n == HeaderSize + LengthIn(Prefix(buffer, HeaderSize)) IN
  /\ connected /\ Complete
  /\ received' = Append(received, Rest(Prefix(buffer, n), HeaderSize))
  /\ buffer' = <<>>
  /\ UNCHANGED <<link, connections, connected, asked, serverSide, up, down>>

(* One turn of the loop that empties the buffer of whole messages.         *)
TryProcessBuffer ==
  LET n == HeaderSize + LengthIn(Prefix(buffer, HeaderSize)) IN
  /\ connected /\ Complete
  /\ received' = Append(received, Rest(Prefix(buffer, n), HeaderSize))
  /\ buffer' = Rest(buffer, n)
  /\ UNCHANGED <<link, connections, connected, asked, serverSide, up, down>>

(* The buffer is cleared, LoginView connects again, a new Session starts.  *)
OnDisconnected ==
  /\ connected /\ ~alive
  /\ connections' = connections + 1 /\ connected' = (connections < MaxConnections)
  /\ asked' = <<>> /\ received' = <<>> /\ buffer' = <<>>
  /\ up' = <<>> /\ down' = <<>> /\ answered' = <<>> /\ expects' = 0
  /\ writes' = <<>> /\ resting' = <<>> /\ pieces' = "whole"
  /\ alive' = connected' /\ reading' = connected'
  /\ UNCHANGED link
----------------------------------------------------------------------------
FramingInit ==
  /\ link \in Links
  /\ connections = 1 /\ connected = TRUE
  /\ asked = <<>> /\ received = <<>> /\ buffer = <<>>
  /\ up = <<>> /\ down = <<>> /\ answered = <<>> /\ expects = 0
  /\ writes = <<>> /\ resting = <<>> /\ pieces = "whole"
  /\ alive = TRUE /\ reading = TRUE

FramingNext ==
  \/ \E body \in Bodies : SendRequest(body)
  \/ ReadHeader \/ ReadBody \/ WriteSome \/ Resume \/ SessionEnds \/ ConnectionBreaks
  \/ OnReadyRead \/ TryProcessBuffer \/ OnDisconnected

(* Both event loops handle what is ready.                                  *)
FramingFairness ==
  /\ WF_framingVars(ReadHeader) /\ WF_framingVars(ReadBody) /\ WF_framingVars(WriteSome)
  /\ WF_framingVars(Resume) /\ WF_framingVars(SessionEnds) /\ WF_framingVars(OnReadyRead)
  /\ WF_framingVars(TryProcessBuffer) /\ WF_framingVars(OnDisconnected)

FramingSpec == FramingInit /\ [][FramingNext]_framingVars /\ FramingFairness
----------------------------------------------------------------------------
(* Properties *)

(* The client gets the answers whole, in order and nothing else, however   *)
(* the bytes were cut, however many answers were under way at once and     *)
(* whichever connection they came on, unless one was sent in part while    *)
(* another was under way: sendMessage waits for no write to end.           *)
AnswersIntact == pieces # "mixed" => IsPrefix(received, answered)

(* The client asks one thing at a time, or all the answers it waits for go *)
(* through in one piece each: a single write takes the longest of them,    *)
(* and there is room for all.                                              *)
Uncut(l) ==
  \/ l.window = 1
  \/ \A b \in Bodies : /\ HeaderSize + Len(b) <= l.transfer
                       /\ HeaderSize + Len(b) <= l.room \div l.window

(* Requests sent, answered up to now and received up to now, on this       *)
(* connection, as messages.  A kind of connection that is not Uncut stands *)
(* for a channel nobody uses: nothing is promised of it.                   *)
Handled == Len(answered)
Asked == IF reading THEN Rest(asked, Handled) ELSE <<>>
Got == Rest(answered, Len(received))
Channel == INSTANCE MessageChannel WITH
  Messages <- Bodies,
  TooLong <- {b \in Bodies : Len(b) > MaxLength},
  AnswerTo <- Answer,
  Refusal <- InvalidLength,
  open <- IF Uncut(link) THEN reading ELSE TRUE,
  toServer <- IF Uncut(link) THEN Asked ELSE <<>>,
  toClient <- IF Uncut(link) THEN Got ELSE <<>>,
  got <- IF Uncut(link) THEN received ELSE <<>>

(* The bytes of an Uncut connection implement the channel of messages that *)
(* module Client uses; in particular every request is handled and its      *)
(* answer arrives.                                                         *)
ImplementsChannel == Channel!Spec
=============================================================================
