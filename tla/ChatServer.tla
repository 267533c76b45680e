----------------------------- MODULE ChatServer -----------------------------
(***************************************************************************)
(* The chat server: class Server (Server.h, Server.cpp) over ChatDB, the   *)
(* descriptor table of its process, and the peers at the far ends of its   *)
(* TCP connections.                                                        *)
(*                                                                         *)
(* run() accepts connections and starts one detached thread per            *)
(* connection, handleClient.  The threads share clientSockets and          *)
(* clientLogins (clientsMutex), the database (ChatDBMutex) and the         *)
(* process's descriptors (no lock at all).  A step of a thread is one      *)
(* critical section, one database call or one system call, with the local  *)
(* code up to the next one.                                                *)
(*                                                                         *)
(* A connection c also names the thread started for it.  The bytes of the  *)
(* stream are abstracted to whole lines; a message body is the identity    *)
(* <<c, n>> of the n-th line its peer sent.                                *)
(***************************************************************************)
EXTENDS ChatDB

CONSTANTS
  Conns,         \* connections that peers may open, each once
  NoConn,        \* no connection
  Fds,           \* descriptor numbers the process may use for connections
  Commands,      \* Commands[c][n]: what the peer on c may send as its n-th line
  MaxLines,      \* bound: lines sent on one connection
  MaxStarts,     \* bound: times the server process is started
  Admin,         \* the login "admin"
  AdminPassword, \* its password "admin123"
  NoPassword,    \* a command without a password
  SendFaults,    \* what send() to a peer that has gone may do, besides succeed
  ReuseHeld,     \* TRUE: accept may return a number some thread still remembers
  Leaving,       \* bound: connections whose peer may leave
  Stalled,       \* connections whose peer does not read
  SockBuf        \* lines that fit the socket buffers of a stalled connection

Ops == {"REGISTER", "AUTH", "ALL", "PRIVATE", "GET_USERS", "EXIT", "GET_HISTORY",
        "GET_PRIVATE", "GET_PRIVATE_BARE", "UNKNOWN", "TOO_LONG"}

\* `login` is the account, the receiver or the other party; NoLogin and NoPassword
\* stand for a field that is missing (for REGISTER: or shorter than 3 characters).
CommandLine == [op : Ops, login : Logins \cup {NoLogin},
                password : Passwords \cup {NoPassword}]

Ids  == Conns \X (1..MaxLines)
NoId == <<NoConn, 0>>

\* What recv delivers: the line, and (history) which peer sent it, as its n-th.
Command == [op : Ops, login : Logins \cup {NoLogin},
            password : Passwords \cup {NoPassword}, id : Ids \cup {NoId}]

\* Between commands, and in handleClientDisconnect.
NoCommand == [op |-> "EXIT", login |-> NoLogin, password |-> NoPassword, id |-> NoId]

ASSUME ServerAssumption ==
  /\ NoConn \notin Conns
  /\ Fds \subseteq Nat
  /\ Commands \in [Conns -> [1..MaxLines -> SUBSET CommandLine]]
  /\ MaxLines \in Nat /\ MaxStarts \in Nat
  /\ Admin \in Logins /\ AdminPassword \in Passwords
  /\ NoPassword \notin Passwords /\ NoPassword # LegacyHash
  /\ SendFaults \subseteq {"error", "sigpipe"}
  /\ ReuseHeld \in BOOLEAN
  /\ Leaving \subseteq Conns /\ Stalled \subseteq Conns /\ SockBuf \in Nat
  /\ Contents = Ids \cup {NoId}

Kinds == {"public", "private", "history", "END_OF_HISTORY", "USERS", "AUTH_SUCCESS",
          "AUTH_FAILED", "REGISTER_SUCCESS", "REGISTER_FAILED", "EXPECTING", "UNKNOWN",
          "TOO_LONG", "PRIVATE_FAILED", "PRIVATE_HISTORY_FAILED", "OFFLINE"}

\* A line the server sends.  `id` is the message it shows; `login` the account a
\* reply is about, the receiver of a private message, the other party of a history.
Line == [kind : Kinds, id : Ids \cup {NoId}, login : Logins \cup {NoLogin}]

\* Kinds whose failed send closes the target; the others' result is ignored.
ClosingKinds == {"public", "private", "history", "USERS", "EXPECTING", "UNKNOWN"}

\* A send still to do: its place in the order, its target, and whether it is
\* the one that counts as delivery of a private message.
PendingSend == [at : Nat \X Nat, fd : Fds, line : Line, delivery : BOOLEAN]

VARIABLES
  up,            \* the server process runs
  clientSockets, \* std::vector<int>
  clientLogins,  \* std::map<int, std::string>; NoLogin: no entry
  fdTable,       \* the process's descriptor table: what each number refers to
  incoming       \* run(): accepted, not yet in clientSockets

serverVars == <<up, clientSockets, clientLogins, fdTable, incoming>>

VARIABLES        \* locals of the thread of each connection
  pc,            \* where it stands
  fd,            \* clientSocket
  reading,       \* the connection a recv in progress reads
  lines,         \* complete lines in lineBuffer
  who,           \* login if authorized, else NoLogin
  cmd,           \* the command being handled
  out,           \* sends still to do
  failed,        \* sockets closeClients is to be called for
  undelivered    \* privateMessage: !delivered

localVars  == <<fd, reading, failed, undelivered>>
threadVars == <<pc, lines, who, cmd, out, localVars>>

VARIABLES        \* the far ends, and history
  peer,          \* "idle", "open", "closed"
  inbox,         \* lines that arrived and no recv has taken
  wire,          \* history: every line sent on the connection
  sent,          \* lines the peer has sent
  authed,        \* history: logins this connection's own AUTH lines proved
  starts         \* starts of the process so far

peerVars == <<peer, inbox, wire, sent, authed, starts>>

vars == <<dbVars, serverVars, threadVars, peerVars>>

PCs == {"none", "recv", "wait", "addUser", "publish", "snapshot", "store", "route",
        "send", "erase", "close", "notice", "done"}

ServerTypeOK ==
  /\ up \in BOOLEAN
  /\ clientSockets \in Seq(Fds)
  /\ clientLogins \in [Fds -> Logins \cup {NoLogin}]
  /\ fdTable \in [Fds -> Conns \cup {NoConn}]
  /\ incoming \in Conns \cup {NoConn}

ThreadTypeOK ==
  /\ pc \in [Conns -> PCs]
  /\ fd \in [Conns -> Fds \cup {-1}]
  /\ reading \in [Conns -> Conns \cup {NoConn}]
  /\ lines \in [Conns -> Seq(Command)]
  /\ who \in [Conns -> Logins \cup {NoLogin}]
  /\ cmd \in [Conns -> Command]
  /\ out \in [Conns -> SUBSET PendingSend]
  /\ failed \in [Conns -> Seq(Fds)]
  /\ undelivered \in [Conns -> BOOLEAN]

PeerTypeOK ==
  /\ peer \in [Conns -> {"idle", "open", "closed"}]
  /\ inbox \in [Conns -> Seq(Command)]
  /\ wire \in [Conns -> Seq(Line)]
  /\ sent \in [Conns -> 0..MaxLines]
  /\ authed \in [Conns -> SUBSET Logins]
  /\ starts \in 0..MaxStarts

TypeOK == DbTypeOK /\ ServerTypeOK /\ ThreadTypeOK /\ PeerTypeOK

Live(c) == pc[c] \notin {"none", "done"}

-----------------------------------------------------------------------------
(* The process: main(), Server::Server(), run(), and its end *)

Init ==
  /\ DbInit
  /\ up = FALSE
  /\ clientSockets = <<>>
  /\ clientLogins = [f \in Fds |-> NoLogin]
  /\ fdTable = [f \in Fds |-> NoConn]
  /\ incoming = NoConn
  /\ pc = [c \in Conns |-> "none"]
  /\ fd = [c \in Conns |-> -1]
  /\ reading = [c \in Conns |-> NoConn]
  /\ lines = [c \in Conns |-> <<>>]
  /\ who = [c \in Conns |-> NoLogin]
  /\ cmd = [c \in Conns |-> NoCommand]
  /\ out = [c \in Conns |-> {}]
  /\ failed = [c \in Conns |-> <<>>]
  /\ undelivered = [c \in Conns |-> FALSE]
  /\ peer = [c \in Conns |-> "idle"]
  /\ inbox = [c \in Conns |-> <<>>]
  /\ wire = [c \in Conns |-> <<>>]
  /\ sent = [c \in Conns |-> 0]
  /\ authed = [c \in Conns |-> {}]
  /\ starts = 0

\* Server::Server(): open the database, seed the administrator, listen.
Start ==
  /\ ~up /\ starts < MaxStarts
  /\ up' = TRUE
  /\ starts' = starts + 1
  /\ \E found, ok \in BOOLEAN :
       /\ GetUserId(Admin, found)
       /\ IF found THEN UNCHANGED dbVars ELSE AddUser(Admin, AdminPassword, ok)
  /\ UNCHANGED <<clientSockets, clientLogins, fdTable, incoming, threadVars,
                 peer, inbox, wire, sent, authed>>

\* The process ends at once: its memory, threads and descriptors are gone.
Terminate ==
  /\ up' = FALSE
  /\ clientSockets' = <<>>
  /\ clientLogins' = [f \in Fds |-> NoLogin]
  /\ fdTable' = [f \in Fds |-> NoConn]
  /\ incoming' = NoConn
  /\ pc' = [c \in Conns |-> IF Live(c) THEN "done" ELSE pc[c]]
  /\ reading' = [c \in Conns |-> NoConn]
  /\ lines' = [c \in Conns |-> <<>>]
  /\ who' = [c \in Conns |-> NoLogin]
  /\ cmd' = [c \in Conns |-> NoCommand]
  /\ out' = [c \in Conns |-> {}]
  /\ failed' = [c \in Conns |-> <<>>]
  /\ undelivered' = [c \in Conns |-> FALSE]
  /\ peer' = [c \in Conns |-> IF peer[c] = "open" THEN "closed" ELSE peer[c]]
  /\ inbox' = [c \in Conns |-> <<>>]
  /\ UNCHANGED <<dbVars, fd, wire, sent, authed, starts>>

\* An operator or the host ends the process; it will be started again.
Kill == up /\ starts < MaxStarts /\ Terminate

\* Descriptor numbers that a thread still holds in a local variable.
HeldFds ==
  {fd[c] : c \in {d \in Conns : Live(d)}}
    \cup (UNION {{s.fd : s \in out[c]} : c \in Conns})
    \cup (UNION {Range(failed[c]) : c \in Conns})

\* accept(): a peer's connection, under the lowest free descriptor number (POSIX).
\* With no number free accept fails, and run() tries again.
Accept(c) ==
  /\ up /\ incoming = NoConn
  /\ peer[c] = "idle"
  /\ \E f \in Fds :
       /\ fdTable[f] = NoConn
       /\ \A g \in Fds : fdTable[g] = NoConn => f <= g
       /\ ReuseHeld \/ f \notin HeldFds
       /\ fdTable' = [fdTable EXCEPT ![f] = c]
       /\ fd' = [fd EXCEPT ![c] = f]
  /\ incoming' = c
  /\ peer' = [peer EXCEPT ![c] = "open"]
  /\ UNCHANGED <<dbVars, up, clientSockets, clientLogins, pc, reading, lines, who, cmd,
                 out, failed, undelivered, inbox, wire, sent, authed, starts>>

\* run(): publish the socket, then start the thread.
Spawn ==
  /\ incoming # NoConn
  /\ clientSockets' = Append(clientSockets, fd[incoming])
  /\ pc' = [pc EXCEPT ![incoming] = "recv"]
  /\ incoming' = NoConn
  /\ UNCHANGED <<dbVars, up, clientLogins, fdTable, localVars, lines, who, cmd, out,
                 peerVars>>

-----------------------------------------------------------------------------
(* The peers *)

\* The connection has not been shut down: a descriptor, or a recv in progress,
\* refers to it.
Attached(c) ==
  (\E f \in Fds : fdTable[f] = c) \/ (\E d \in Conns : reading[d] = c)

PeerSends(c) ==
  /\ peer[c] = "open" /\ Attached(c)
  /\ sent[c] < MaxLines
  /\ sent' = [sent EXCEPT ![c] = @ + 1]
  /\ \E m \in Commands[c][sent'[c]] :
       inbox' = [inbox EXCEPT ![c] =
         Append(@, [op |-> m.op, login |-> m.login, password |-> m.password,
                    id |-> <<c, sent'[c]>>])]
  /\ UNCHANGED <<dbVars, serverVars, threadVars, peer, wire, authed, starts>>

PeerCloses(c) ==
  /\ peer[c] = "open" /\ c \in Leaving
  /\ peer' = [peer EXCEPT ![c] = "closed"]
  /\ UNCHANGED <<dbVars, serverVars, threadVars, inbox, wire, sent, authed, starts>>

-----------------------------------------------------------------------------
(* handleClient: the receive loop *)

SetPc(c, to) == pc' = [pc EXCEPT ![c] = to]

\* recv on a closed descriptor fails at once: handleClientDisconnect.
CallRecv(c) ==
  /\ pc[c] = "recv" /\ lines[c] = <<>>
  /\ IF fdTable[fd[c]] = NoConn
     THEN /\ SetPc(c, "erase")
          /\ failed' = [failed EXCEPT ![c] = <<fd[c]>>]
          /\ UNCHANGED reading
     ELSE /\ SetPc(c, "wait")
          /\ reading' = [reading EXCEPT ![c] = fdTable[fd[c]]]
          /\ UNCHANGED failed
  /\ UNCHANGED <<dbVars, serverVars, fd, lines, who, cmd, out, undelivered, peerVars>>

\* recv returns some of what has arrived.  A recv in progress keeps reading the
\* connection it was called on, whatever has become of the descriptor since.
RecvData(c) ==
  /\ pc[c] = "wait"
  /\ \E n \in 1..Len(inbox[reading[c]]) :
       /\ lines' = [lines EXCEPT ![c] = SubSeq(inbox[reading[c]], 1, n)]
       /\ inbox' = [inbox EXCEPT ![reading[c]] = SubSeq(@, n + 1, Len(@))]
  /\ reading' = [reading EXCEPT ![c] = NoConn]
  /\ SetPc(c, "recv")
  /\ UNCHANGED <<dbVars, serverVars, fd, who, cmd, out, failed, undelivered,
                 peer, wire, sent, authed, starts>>

\* recv returns 0 or an error (a reset discards what was queued):
\* handleClientDisconnect, which calls closeClients.
RecvEnd(c) ==
  /\ pc[c] = "wait" /\ peer[reading[c]] = "closed"
  /\ reading' = [reading EXCEPT ![c] = NoConn]
  /\ failed' = [failed EXCEPT ![c] = <<fd[c]>>]
  /\ SetPc(c, "erase")
  /\ UNCHANGED <<dbVars, serverVars, fd, lines, who, cmd, out, undelivered, peerVars>>

\* The loop finds a complete line, one of these commands.
Receives(c, ops) == pc[c] = "recv" /\ lines[c] # <<>> /\ Head(lines[c]).op \in ops

\* Mutant: the last complete line is taken first (rfind for find).
TakesLast(c, ops) ==
  /\ Receives(c, ops)
  /\ lines' = [lines EXCEPT ![c] = Front(@)]
  /\ cmd' = [cmd EXCEPT ![c] = Last(lines[c])]

\* It takes the line off its buffer and begins to handle it.
Takes(c, ops) ==
  /\ Receives(c, ops)
  /\ lines' = [lines EXCEPT ![c] = Tail(@)]
  /\ cmd' = [cmd EXCEPT ![c] = Head(lines[c])]

ToSend(at, f, kind, id, l) ==
  [at |-> at, fd |-> f, line |-> [kind |-> kind, id |-> id, login |-> l],
   delivery |-> FALSE]

\* The handler is left with one line to send to its own client.
Reply(c, kind, l) ==
  /\ SetPc(c, "send")
  /\ out' = [out EXCEPT ![c] = {ToSend(<<0, 0>>, fd[c], kind, NoId, l)}]

\* The whole handler, when all it does is answer with one line.
JustReplies(c, ops, kind) ==
  /\ Takes(c, ops)
  /\ Reply(c, kind, NoLogin)
  /\ UNCHANGED <<dbVars, serverVars, localVars, who, peerVars>>

-----------------------------------------------------------------------------
(* Commands before authorization *)

\* Mutant: the password field is not checked.
IncompleteLoginOnly(m) == m.login = NoLogin

\* A field is missing or shorter than 3 characters.
Incomplete(m) == m.login = NoLogin \/ m.password = NoPassword

\* handleRegistration, to the end of its getUserId check.
Register(c) ==
  /\ Takes(c, {"REGISTER"}) /\ who[c] = NoLogin
  /\ LET m == Head(lines[c]) IN
     \/ /\ Incomplete(m) \/ GetUserId(m.login, TRUE)
        /\ Reply(c, "REGISTER_FAILED", m.login)
     \/ /\ ~Incomplete(m) /\ GetUserId(m.login, FALSE)
        /\ SetPc(c, "addUser") /\ UNCHANGED out
  /\ UNCHANGED <<dbVars, serverVars, localVars, who, peerVars>>

\* handleRegistration: addUser, which may find the login taken meanwhile.
AddUserStep(c) ==
  /\ pc[c] = "addUser"
  /\ \E ok \in BOOLEAN :
       /\ AddUser(cmd[c].login, cmd[c].password, ok)
       /\ Reply(c, IF ok THEN "REGISTER_SUCCESS" ELSE "REGISTER_FAILED", cmd[c].login)
  /\ UNCHANGED <<serverVars, localVars, lines, who, cmd, peerVars>>

\* The password really is the account's (for the history variable `authed`).
Proves(m) == [login |-> m.login, password |-> m.password] \in Range(users)

\* handleAuthorization, to the end of verifyUser.
Authorize(c) ==
  /\ Takes(c, {"AUTH"}) /\ who[c] = NoLogin
  /\ LET m == Head(lines[c]) IN
     \/ /\ VerifyUser(m.login, m.password, TRUE)
        /\ who' = [who EXCEPT ![c] = m.login]
        /\ authed' = [authed EXCEPT ![m.id[1]] = @ \cup (IF Proves(m) THEN {m.login} ELSE {})]
        /\ SetPc(c, "publish")
        /\ UNCHANGED out
     \/ /\ VerifyUser(m.login, m.password, FALSE)
        /\ Reply(c, "AUTH_FAILED", m.login)
        /\ UNCHANGED <<who, authed>>
  /\ UNCHANGED <<dbVars, serverVars, localVars, peer, inbox, wire, sent, starts>>

\* handleAuthorization: publish the login, then answer.
Publish(c) ==
  /\ pc[c] = "publish"
  /\ clientLogins' = [clientLogins EXCEPT ![fd[c]] = who[c]]
  /\ Reply(c, "AUTH_SUCCESS", who[c])
  /\ UNCHANGED <<dbVars, up, clientSockets, fdTable, incoming, localVars, lines,
                 who, cmd, peerVars>>

\* handleUnauthorizedClient: anything else.
Expecting(c) ==
  who[c] = NoLogin /\ JustReplies(c, Ops \ {"REGISTER", "AUTH", "TOO_LONG"}, "EXPECTING")

\* handleClient: a line over the limit is refused, authorized or not.
TooLong(c) == JustReplies(c, {"TOO_LONG"}, "TOO_LONG")

-----------------------------------------------------------------------------
(* Commands after authorization *)

\* handlePublicMessage: addMessage.
StorePublic(c) ==
  /\ Takes(c, {"ALL"}) /\ who[c] # NoLogin
  /\ AddMessage(who[c], NoLogin, Head(lines[c]).id)
  /\ SetPc(c, "snapshot")
  /\ UNCHANGED <<serverVars, localVars, who, out, peerVars>>

\* Where a thread goes when it has these sends and closes left.
After(sends, closes, notice) ==
  IF sends # {} THEN "send"
  ELSE IF closes # <<>> THEN "erase"
  ELSE IF notice THEN "notice"
  ELSE "recv"

Resume(c, to) ==
  /\ SetPc(c, to)
  /\ cmd' = [cmd EXCEPT ![c] = IF to = "recv" THEN NoCommand ELSE @]

\* Mutant: the sender's own socket is not left out.
TargetsAll(c) == DOMAIN clientSockets

\* broadcastMessage sends to every socket but the sender's.
Targets(c) == {i \in DOMAIN clientSockets : clientSockets[i] # fd[c]}

\* broadcastMessage: copy the targets.
Snapshot(c) ==
  LET targets ==
        {ToSend(<<0, i>>, clientSockets[i], "public", cmd[c].id, NoLogin) : i \in Targets(c)}
  IN /\ pc[c] = "snapshot"
     /\ out' = [out EXCEPT ![c] = targets]
     /\ Resume(c, After(targets, <<>>, FALSE))
     /\ UNCHANGED <<dbVars, serverVars, localVars, lines, who, peerVars>>

\* handlePrivateMessage, to the end of its getUserId check.
CheckReceiver(c) ==
  /\ Takes(c, {"PRIVATE"}) /\ who[c] # NoLogin
  /\ LET l == Head(lines[c]).login IN
     \/ (l = NoLogin \/ GetUserId(l, FALSE)) /\ Reply(c, "PRIVATE_FAILED", l)
     \/ l # NoLogin /\ GetUserId(l, TRUE) /\ SetPc(c, "store") /\ UNCHANGED out
  /\ UNCHANGED <<dbVars, serverVars, localVars, who, peerVars>>

\* handlePrivateMessage: addMessage.
StorePrivate(c) ==
  /\ pc[c] = "store"
  /\ AddMessage(who[c], cmd[c].login, cmd[c].id)
  /\ SetPc(c, "route")
  /\ UNCHANGED <<serverVars, localVars, lines, who, cmd, out, peerVars>>

\* privateMessage: the receiver's socket is the first of clientLogins with its
\* login; the sender gets a copy unless it writes to itself.
Route(c) ==
  LET l == cmd[c].login
      first == {f \in Fds : clientLogins[f] = l
                  /\ \A g \in Fds : clientLogins[g] = l => f <= g}
      entry(at, f) == ToSend(<<0, at>>, f, "private", cmd[c].id, l)
      sends == {[entry(1, f) EXCEPT !.delivery = TRUE] : f \in first}
                 \cup (IF l # who[c] THEN {entry(2, fd[c])} ELSE {})
  IN /\ pc[c] = "route"
     /\ out' = [out EXCEPT ![c] = sends]
     /\ undelivered' = [undelivered EXCEPT ![c] = TRUE]
     /\ SetPc(c, After(sends, <<>>, TRUE))
     /\ UNCHANGED <<dbVars, serverVars, fd, reading, lines, who, cmd, failed, peerVars>>

\* privateMessage: nothing was delivered.
Notice(c) ==
  /\ pc[c] = "notice"
  /\ Reply(c, "OFFLINE", cmd[c].login)
  /\ undelivered' = [undelivered EXCEPT ![c] = FALSE]
  /\ UNCHANGED <<dbVars, serverVars, fd, reading, lines, who, cmd, failed, peerVars>>

\* handleGetUsers
GetUsers(c) == who[c] # NoLogin /\ JustReplies(c, {"GET_USERS"}, "USERS")

\* The rows of a history in order, then the end mark.
SendRows(c, rows, l) ==
  /\ out' = [out EXCEPT ![c] =
       {ToSend(<<messages[i].time, i>>, fd[c], "history", messages[i].content, l) : i \in rows}
         \cup {ToSend(<<MaxClock + 1, 0>>, fd[c], "END_OF_HISTORY", NoId, l)}]
  /\ SetPc(c, "send")

\* handleGetHistory
GetHistory(c) ==
  /\ Takes(c, {"GET_HISTORY"}) /\ who[c] # NoLogin
  /\ \E rows \in Fetched(PublicRows) : SendRows(c, rows, NoLogin)
  /\ UNCHANGED <<dbVars, serverVars, localVars, who, peerVars>>

\* handleGetPrivateHistory
GetPrivateHistory(c) ==
  /\ Takes(c, {"GET_PRIVATE"}) /\ who[c] # NoLogin
  /\ LET l == Head(lines[c]).login IN
     \/ l = NoLogin /\ Reply(c, "PRIVATE_HISTORY_FAILED", l)
     \/ l # NoLogin /\ \E rows \in Fetched(PrivateRows(who[c], l)) : SendRows(c, rows, l)
  /\ UNCHANGED <<dbVars, serverVars, localVars, who, peerVars>>

\* handleGetPrivateHistory on a line of 11 characters: substr(12) throws, nothing
\* catches it, and the exception leaving a thread ends the process.
GetPrivateThrows(c) ==
  /\ Receives(c, {"GET_PRIVATE_BARE"}) /\ who[c] # NoLogin
  /\ Terminate

\* Mutant: the entry stays in clientLogins.
ForgetNoLogin(f) == UNCHANGED clientLogins

ForgetLogin(f) == clientLogins' = [clientLogins EXCEPT ![f] = NoLogin]

\* handleClientExit, and the reset in handleClient.
Exit(c) ==
  /\ Receives(c, {"EXIT"}) /\ who[c] # NoLogin
  /\ lines' = [lines EXCEPT ![c] = Tail(@)]
  /\ ForgetLogin(fd[c])
  /\ who' = [who EXCEPT ![c] = NoLogin]
  /\ UNCHANGED <<dbVars, up, clientSockets, fdTable, incoming, localVars, pc, cmd, out,
                 peerVars>>

\* handleUnknownCommand
UnknownCommand(c) ==
  who[c] # NoLogin /\ JustReplies(c, {"REGISTER", "AUTH", "UNKNOWN"}, "UNKNOWN")

-----------------------------------------------------------------------------
(* send_line, closeClients *)

NoLater(a, b) == a[1] < b[1] \/ (a[1] = b[1] /\ a[2] <= b[2])

NextSend(c, s) == s \in out[c] /\ \A t \in out[c] : NoLater(s.at, t.at)

\* The socket buffers are full and nobody drains them: send() does not return.
Blocked(k) == k \in Stalled /\ peer[k] = "open" /\ Len(wire[k]) >= SockBuf

\* send() may fail: the number is not open (EBADF), or the peer has gone.
MayFail(k) == IF k = NoConn THEN TRUE ELSE peer[k] = "closed" /\ "error" \in SendFaults

\* send_line(f, line) returns ok.
SendLine(f, line, ok) ==
  LET k == fdTable[f] IN
  \/ /\ ok
     /\ k # NoConn /\ ~Blocked(k)
     /\ wire' = [wire EXCEPT ![k] = Append(@, line)]
  \/ /\ ~ok
     /\ MayFail(k)
     /\ UNCHANGED wire

\* Mutant: a failed broadcast abandons the other targets too.
LeftNone(c, s, ok) == IF ok THEN out[c] \ {s} ELSE {}

\* What the handler still sends after s: a failed history line abandons the rest,
\* a failed broadcast goes on to the other targets.
Left(c, s, ok) == IF ~ok /\ s.line.kind = "history" THEN {} ELSE out[c] \ {s}

\* The next send of a handler.
SendNext(c) ==
  /\ pc[c] = "send"
  /\ \E s \in out[c], ok \in BOOLEAN :
       LET left == Left(c, s, ok)
           closes == IF ~ok /\ s.line.kind \in ClosingKinds
                     THEN Append(failed[c], s.fd) ELSE failed[c]
           notice == undelivered[c] /\ ~(ok /\ s.delivery)
       IN /\ NextSend(c, s)
          /\ SendLine(s.fd, s.line, ok)
          /\ out' = [out EXCEPT ![c] = left]
          /\ failed' = [failed EXCEPT ![c] = closes]
          /\ undelivered' = [undelivered EXCEPT ![c] = notice]
          /\ Resume(c, After(left, closes, notice))
  /\ UNCHANGED <<dbVars, serverVars, fd, reading, lines, who, peer, inbox, sent, authed,
                 starts>>

\* A send to a peer that has gone raises SIGPIPE, which nothing handles.
SigPipe(c) ==
  /\ pc[c] = "send" /\ "sigpipe" \in SendFaults
  /\ \E s \in out[c] :
       NextSend(c, s) /\ fdTable[s.fd] # NoConn /\ peer[fdTable[s.fd]] = "closed"
  /\ Terminate

\* Mutant: the socket stays in clientSockets.
ForgetNoSocket(f) == UNCHANGED clientSockets

\* std::find, then erase: the first entry, if there is one.
ForgetSocket(f) ==
  IF Contains(clientSockets, f)
  THEN \E i \in DOMAIN clientSockets :
         /\ clientSockets[i] = f /\ \A j \in 1..(i - 1) : clientSockets[j] # f
         /\ clientSockets' = RemoveAt(clientSockets, i)
  ELSE UNCHANGED clientSockets

\* Mutant: socketClose is not called.
CloseNothing(f) == UNCHANGED fdTable

\* socketClose; on a number that is not open it does nothing.
SocketClose(f) == fdTable' = [fdTable EXCEPT ![f] = NoConn]

\* closeClients, under clientsMutex.
Erase(c) ==
  /\ pc[c] = "erase"
  /\ ForgetSocket(Head(failed[c]))
  /\ ForgetLogin(Head(failed[c]))
  /\ SetPc(c, "close")
  /\ UNCHANGED <<dbVars, up, fdTable, incoming, localVars, lines, who, cmd, out, peerVars>>

\* closeClients: socketClose, after the mutex is released.  The thread goes on to
\* the next failed socket, to its loop, or out of handleClient.
Close(c) ==
  LET closes == Tail(failed[c]) IN
  /\ pc[c] = "close"
  /\ SocketClose(Head(failed[c]))
  /\ failed' = [failed EXCEPT ![c] = closes]
  /\ IF cmd[c] = NoCommand
     THEN /\ SetPc(c, "done")
          /\ who' = [who EXCEPT ![c] = NoLogin]
          /\ UNCHANGED cmd
     ELSE /\ Resume(c, After({}, closes, undelivered[c]))
          /\ UNCHANGED who
  /\ UNCHANGED <<dbVars, up, clientSockets, clientLogins, incoming, fd, reading, lines,
                 out, undelivered, peerVars>>

-----------------------------------------------------------------------------
(* The specification *)

\* Steps that depend on nothing but the thread itself and what has arrived.
HandlerStep(c) ==
  \/ CallRecv(c) \/ RecvData(c) \/ RecvEnd(c)
  \/ Register(c) \/ AddUserStep(c) \/ Authorize(c) \/ Publish(c) \/ Expecting(c)
  \/ TooLong(c) \/ StorePublic(c) \/ Snapshot(c)
  \/ CheckReceiver(c) \/ StorePrivate(c) \/ Route(c) \/ Notice(c)
  \/ GetUsers(c) \/ GetHistory(c) \/ GetPrivateHistory(c) \/ GetPrivateThrows(c)
  \/ Exit(c) \/ UnknownCommand(c)
  \/ SendNext(c) \/ SigPipe(c) \/ Erase(c) \/ Close(c)

Next ==
  \/ Start \/ Kill \/ Spawn \/ (up /\ SetClock /\ UNCHANGED <<serverVars, threadVars, peerVars>>)
  \/ \E c \in Conns : Accept(c) \/ HandlerStep(c) \/ PeerSends(c) \/ PeerCloses(c)

Spec == Init /\ [][Next]_vars

\* The operating system schedules every runnable thread; nothing obliges a peer
\* to connect, to send, or to leave.
Fairness == WF_vars(Spawn) /\ \A c \in Conns : WF_vars(HandlerStep(c))

FairSpec == Spec /\ Fairness

=============================================================================
