------------------------ MODULE ChatServerProperties ------------------------
(***************************************************************************)
(* What the chat server is to guarantee.  The properties of the stored     *)
(* messages are in ChatDB, TypeOK is in ChatServer.                        *)
(***************************************************************************)
EXTENDS ChatServer

-----------------------------------------------------------------------------
(* Properties of every run of the process *)

OnWire(k, kind, m) ==
  \E i \in DOMAIN wire[k] : wire[k][i].kind = kind /\ wire[k][i].id = m

Row(m) == {i \in DOMAIN messages : messages[i].content = m}

\* At most one connection is ever told REGISTER_SUCCESS for a login, and none for
\* a login of the initial database, although handleRegistration looks the login up
\* and inserts it in two steps, and across restarts; what is told is true.
RegistrationExclusive ==
  \A c, d \in Conns : \A i \in DOMAIN wire[c], j \in DOMAIN wire[d] :
    LET a == wire[c][i]
        b == wire[d][j]
    IN /\ a.kind = "REGISTER_SUCCESS" =>
            Registered(a.login) /\ \A u \in DOMAIN InitUsers : InitUsers[u].login # a.login
       /\ a.kind = "REGISTER_SUCCESS" /\ b.kind = "REGISTER_SUCCESS" /\ a.login = b.login
            => c = d /\ i = j

\* A message that anybody was shown is in the database, also after a crash at any
\* point: handlePublicMessage and handlePrivateMessage store before they send.
StoredBeforeSent ==
  ~DbFaults =>
    \A k \in Conns : \A i \in DOMAIN wire[k] :
      wire[k][i].kind \in {"public", "private"} => Row(wire[k][i].id) # {}

\* broadcastMessage leaves the sender's socket out: no line of a connection ever
\* comes back on it, whatever descriptor numbers were closed and reused meanwhile.
NoSelfEcho ==
  \A k \in Conns, n \in 1..MaxLines : ~OnWire(k, "public", <<k, n>>)

-----------------------------------------------------------------------------
(* Properties while no descriptor number is reused under a thread's feet      *)
(* (ReuseHeld = FALSE)                                                        *)

\* clientSockets has no duplicate, and every socket in it is open: closeClients
\* erases before it closes.
SocketsAreOpen ==
  \A i, j \in DOMAIN clientSockets :
    /\ fdTable[clientSockets[i]] # NoConn
    /\ clientSockets[i] = clientSockets[j] => i = j

\* Between commands, the thread's own `login` and the shared clientLogins agree.
SessionAgreement ==
  \A c \in Conns :
    pc[c] \in {"recv", "wait"} /\ Contains(clientSockets, fd[c]) => clientLogins[fd[c]] = who[c]

\* An entry of clientLogins belongs to a thread that is alive and has that login.
LoginsHaveHandlers ==
  \A f \in Fds : clientLogins[f] # NoLogin =>
    \E c \in Conns : Live(c) /\ fd[c] = f /\ who[c] = clientLogins[f]

\* A stored message names as its author an account that the connection it came
\* from has proved the password of.
AuthorIsAuthenticated ==
  \A i \in DOMAIN messages :
    messages[i].from # Null => users[messages[i].from].login \in authed[messages[i].content[1]]

\* A private line is seen by the connection that sent it and by connections that
\* proved to be the receiver, and by no other: privateMessage uses the socket it
\* looked up after it has released clientsMutex.
PrivateReachesParties ==
  \A k \in Conns : \A i \in DOMAIN wire[k] :
    wire[k][i].kind = "private" => wire[k][i].id[1] = k \/ wire[k][i].login \in authed[k]

\* Every client sees the lines of one author in the order they were written, each
\* at most once (two authors' lines may be seen in different orders).
PerSenderOrder ==
  \A k \in Conns : \A i, j \in DOMAIN wire[k] :
    LET a == wire[k][i]
        b == wire[k][j]
    IN a.kind = "public" /\ b.kind = "public" /\ a.id[1] = b.id[1] /\ i < j
         => a.id[2] < b.id[2]

\* A client that loaded the public history and stayed has every public message,
\* from the history or live: none falls between the two.
Quiescent == incoming = NoConn /\ \A c \in Conns : Live(c) => pc[c] \in {"recv", "wait"}

NoGap ==
  Quiescent =>
    \A k \in Conns : \A e \in DOMAIN wire[k] :
      wire[k][e].kind = "END_OF_HISTORY" /\ wire[k][e].login = NoLogin /\ peer[k] = "open"
        => \A i \in PublicRows :
             LET m == messages[i].content
             IN m[1] = k \/ OnWire(k, "public", m) \/ OnWire(k, "history", m)

-----------------------------------------------------------------------------
(* Liveness *)

\* A line handed to broadcastMessage reaches every target that stays connected,
\* whoever else among the targets disconnects.
BroadcastReaches(m, k) ==
  (/\ pc[m[1]] = "snapshot" /\ cmd[m[1]].id = m
   /\ Contains(clientSockets, fd[k]) /\ fdTable[fd[k]] = k)
    ~> (OnWire(k, "public", m) \/ peer[k] = "closed")

\* When a peer has gone, its socket is eventually closed and forgotten.
DepartedAreCleaned ==
  \A k \in Conns :
    peer[k] = "closed" ~> ~Attached(k) /\ ~Live(k)

=============================================================================
