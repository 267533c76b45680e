----------------------------- MODULE ChatSession -----------------------------
(***************************************************************************)
(* What the chat promises on one connection, whatever the other            *)
(* connections do: the requests are handled one after the other in the     *)
(* order sent; each gets its own answer, whole, before the next; an        *)
(* account is needed for everything but REGISTER and AUTH, and is what the *)
(* last successful AUTH named; chat lines of others may come anywhere, and *)
(* nothing else does.                                                      *)
(*                                                                         *)
(* ChatServerSessions shows that ChatServer keeps this for every           *)
(* connection; ChatClient is written against it.                           *)
(***************************************************************************)
EXTENDS Naturals, Sequences

CONSTANTS
  NoRequest,    \* no request
  NoLogin       \* no account

VARIABLES
  status,       \* "idle", "open", "over"
  queue,        \* requests sent and not yet taken up
  current,      \* the request being handled
  account,      \* the account of the session
  stream        \* the kinds of the lines sent on the connection

sessionVars == <<status, queue, current, account, stream>>

Init ==
  /\ status = "idle"
  /\ queue = <<>>
  /\ current = NoRequest
  /\ account = NoLogin
  /\ stream = <<>>

Known == account # NoLogin
Idle  == current = NoRequest

\* The last line of the answer to a request: handleUnauthorizedClient and
\* handleAuthorizedClient.
Answers(op) ==
  CASE op = "TOO_LONG"                            -> {"TOO_LONG"}
    [] op = "REGISTER" /\ ~Known                  -> {"REGISTER_SUCCESS", "REGISTER_FAILED"}
    [] op = "AUTH" /\ ~Known                      -> {"AUTH_SUCCESS", "AUTH_FAILED"}
    [] ~Known /\ op \notin {"REGISTER", "AUTH", "TOO_LONG"} -> {"EXPECTING"}
    [] Known /\ op \in {"REGISTER", "AUTH", "UNKNOWN"}      -> {"UNKNOWN"}
    [] Known /\ op = "PRIVATE"                    -> {"PRIVATE_FAILED", "private", "OFFLINE"}
    [] Known /\ op = "GET_USERS"                  -> {"USERS"}
    [] Known /\ op = "GET_HISTORY"                -> {"END_OF_HISTORY"}
    [] Known /\ op = "GET_PRIVATE"                -> {"END_OF_HISTORY", "PRIVATE_HISTORY_FAILED"}
    [] OTHER                                      -> {}

Says(kind) == stream' = Append(stream, kind)

\* The connection is accepted.
Open ==
  /\ status = "idle" /\ status' = "open"
  /\ UNCHANGED <<queue, current, account, stream>>

\* The client sends a request.
Ask(m) ==
  /\ status = "open"
  /\ queue' = Append(queue, m)
  /\ UNCHANGED <<status, current, account, stream>>

\* The server takes the next request up.
Take ==
  /\ status = "open" /\ Idle /\ queue # <<>>
  /\ current' = Head(queue)
  /\ queue' = Tail(queue)
  /\ UNCHANGED <<status, account, stream>>

\* EXIT ends the account's session and is not answered.
Leave ==
  /\ status = "open" /\ Idle /\ queue # <<>>
  /\ Head(queue).op = "EXIT" /\ Known
  /\ queue' = Tail(queue)
  /\ account' = NoLogin
  /\ UNCHANGED <<status, current, stream>>

\* A row of a history that was asked for.
Row ==
  /\ ~Idle /\ Known /\ current.op \in {"GET_HISTORY", "GET_PRIVATE"}
  /\ Says("history")
  /\ UNCHANGED <<status, queue, current, account>>

\* The answer, or its last line.
Answer(kind) ==
  /\ ~Idle /\ kind \in Answers(current.op)
  /\ Says(kind)
  /\ account' = IF kind = "AUTH_SUCCESS" THEN current.login ELSE account
  /\ current' = NoRequest
  /\ UNCHANGED <<status, queue>>

\* A message that was sent on and is not copied to its sender is not answered.
Silent ==
  /\ ~Idle /\ Known /\ current.op \in {"ALL", "PRIVATE"}
  /\ current' = NoRequest
  /\ UNCHANGED <<status, queue, account, stream>>

\* A message of somebody: at any time,
\* also before the client has logged in.
Chatter(kind) ==
  /\ status = "open" /\ kind \in {"public", "private"}
  /\ Says(kind)
  /\ UNCHANGED <<status, queue, current, account>>

\* Either end closes; lines under way may be lost, all but the first n.
Close(n) ==
  /\ status = "open" /\ status' = "over"
  /\ queue' = <<>>
  /\ current' = NoRequest
  /\ account' = NoLogin
  /\ stream' = SubSeq(stream, 1, n)

Next ==
  \/ Open \/ Take \/ Leave \/ Row \/ Silent
  \/ \E i \in DOMAIN queue' : Ask(queue'[i])
  \/ \E i \in DOMAIN stream' : Answer(stream'[i]) \/ Chatter(stream'[i])
  \/ \E n \in 0..Len(stream) : Close(n)

Spec == Init /\ [][Next]_sessionVars

=============================================================================
