------------------------- MODULE ChatServerSessions -------------------------
(***************************************************************************)
(* ChatServer implements ChatSession on every connection, as long as no    *)
(* descriptor number is reused under a thread's feet.                      *)
(***************************************************************************)
EXTENDS ChatServerProperties

Connected(c) == peer[c] = "open"

\* The login is kept from the session until AUTH_SUCCESS is on the wire.
Granting(c) ==
  pc[c] = "publish" \/ \E s \in out[c] : s.line.kind = "AUTH_SUCCESS"

\* The session of c as the state of the server shows it: what its thread has not
\* taken from the line buffer and the socket, the command it is in the middle of,
\* its login, and what was sent.  A session that is over has no state.
Session(c) == INSTANCE ChatSession WITH
  NoRequest <- NoCommand,
  status  <- CASE peer[c] = "idle" -> "idle" [] peer[c] = "open" -> "open" [] OTHER -> "over",
  queue   <- IF Connected(c) THEN lines[c] \o inbox[c] ELSE <<>>,
  current <- IF Connected(c) /\ pc[c] \notin {"none", "recv", "wait"} THEN cmd[c] ELSE NoCommand,
  account <- IF Connected(c) /\ ~Granting(c) THEN who[c] ELSE NoLogin,
  stream  <- IF Connected(c) THEN [i \in DOMAIN wire[c] |-> wire[c][i].kind] ELSE <<>>

\* On every connection the requests are answered one by one, in order, each whole
\* and by its own answer, with only chat lines between, although handlers of other
\* connections write to the same socket, and whatever fails elsewhere.
\* This is \A c \in Conns : Session(c)!Spec, in the form TLC reads.
SessionsKept ==
  /\ \A c \in Conns : Session(c)!Init
  /\ [][\A c \in Conns : [Session(c)!Next]_(Session(c)!sessionVars)]_vars

=============================================================================
