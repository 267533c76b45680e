-------------------------- MODULE ChatStoreProofs --------------------------
(***************************************************************************)
(* What the database guarantees whatever the server's threads do, and what *)
(* clients are told about it: theorems for every value of the constants.   *)
(***************************************************************************)
EXTENDS ChatServerProofs, FiniteSetTheorems

-----------------------------------------------------------------------------
(* What a step may do to the tables *)

\* Lines that claim something about the tables.
Claims == {"public", "private", "REGISTER_SUCCESS"}

\* No such line is sent, and none becomes ready to be sent.
NoNewClaim ==
  /\ wire' = wire
  /\ \A d \in Conns : \A s \in out'[d] : s \in out[d] \/ s.line.kind \notin Claims

LEMMA ReplyClaim ==
  ASSUME TypeInv, NEW c \in Conns, NEW kind, NEW l, Reply(c, kind, l), wire' = wire,
         kind \notin Claims
  PROVE  NoNewClaim
<1>1. \A s \in out'[c] : s.line.kind = kind
  BY DEF Reply, ToSend, TypeInv, TypeOK, ThreadTypeOK
<1>2. \A d \in Conns \ {c} : out'[d] = out[d]
  BY DEF Reply, TypeInv, TypeOK, ThreadTypeOK
<1> QED BY <1>1, <1>2 DEF NoNewClaim

LEMMA SendRowsClaim ==
  ASSUME TypeInv, NEW c \in Conns, NEW rows, NEW l, SendRows(c, rows, l), wire' = wire
  PROVE  NoNewClaim
<1>1. \A s \in out'[c] : s.line.kind \in {"history", "END_OF_HISTORY"}
  BY DEF SendRows, ToSend, TypeInv, TypeOK, ThreadTypeOK
<1>2. \A d \in Conns \ {c} : out'[d] = out[d]
  BY DEF SendRows, TypeInv, TypeOK, ThreadTypeOK
<1> QED BY <1>1, <1>2 DEF NoNewClaim, Claims

LEMMA TerminateClaim == TypeInv /\ Terminate => NoNewClaim
BY DEF Terminate, NoNewClaim

\* Only four actions make or send a line that claims something.
LEMMA ClaimStep ==
  ASSUME TypeInv, [Next]_vars
  PROVE  \/ NoNewClaim
         \/ \E c \in Conns : AddUserStep(c) \/ Snapshot(c) \/ Route(c) \/ SendNext(c)
<1>1. CASE Start \/ Spawn \/ (SetClock /\ UNCHANGED <<serverVars, threadVars, peerVars>>)
             \/ UNCHANGED vars
  BY <1>1 DEF NoNewClaim, Start, Spawn, vars, threadVars, peerVars
<1>2. CASE Kill
  BY <1>2, TerminateClaim DEF Kill
<1>3. ASSUME NEW c \in Conns, Accept(c) \/ PeerSends(c) \/ PeerCloses(c)
      PROVE  NoNewClaim
  BY <1>3 DEF NoNewClaim, Accept, PeerSends, PeerCloses, threadVars
<1>4. ASSUME NEW c \in Conns, HandlerStep(c),
             ~(AddUserStep(c) \/ Snapshot(c) \/ Route(c) \/ SendNext(c))
      PROVE  NoNewClaim
  <2>1. CASE \/ CallRecv(c) \/ RecvData(c) \/ RecvEnd(c) \/ StorePublic(c) \/ StorePrivate(c)
             \/ Exit(c) \/ Erase(c) \/ Close(c)
    BY <2>1 DEF NoNewClaim, CallRecv, RecvData, RecvEnd, StorePublic, StorePrivate, Exit,
                Erase, Close, peerVars
  <2>2. CASE GetPrivateThrows(c) \/ SigPipe(c)
    BY <2>2, TerminateClaim DEF GetPrivateThrows, SigPipe
  <2>3. CASE GetHistory(c) \/ GetPrivateHistory(c)
    <3>1. wire' = wire
      BY <2>3 DEF GetHistory, GetPrivateHistory, peerVars
    <3>2. \/ \E rows, l : SendRows(c, rows, l)
          \/ \E l : Reply(c, "PRIVATE_HISTORY_FAILED", l)
      BY <2>3 DEF GetHistory, GetPrivateHistory
    <3> QED BY <3>1, <3>2, SendRowsClaim, ReplyClaim DEF Claims
  <2>4. CASE \/ Register(c) \/ Authorize(c) \/ Publish(c) \/ CheckReceiver(c) \/ Notice(c)
             \/ Expecting(c) \/ TooLong(c) \/ GetUsers(c) \/ UnknownCommand(c)
    <3>1. wire' = wire
      BY <2>4 DEF Register, Authorize, Publish, CheckReceiver, Notice, Expecting, TooLong,
                  GetUsers, UnknownCommand, JustReplies, peerVars
    <3>2. \/ out' = out
          \/ \E l : \E kind \in {"REGISTER_FAILED", "AUTH_FAILED", "AUTH_SUCCESS",
                                 "PRIVATE_FAILED", "OFFLINE", "EXPECTING", "TOO_LONG",
                                 "USERS", "UNKNOWN"} : Reply(c, kind, l)
      BY <2>4 DEF Register, Authorize, Publish, CheckReceiver, Notice, Expecting, TooLong,
                  GetUsers, UnknownCommand, JustReplies
    <3>3. CASE out' = out
      BY <3>1, <3>3 DEF NoNewClaim
    <3> QED BY <3>1, <3>2, <3>3, ReplyClaim DEF Claims
  <2> QED BY <1>4, <2>1, <2>2, <2>3, <2>4 DEF HandlerStep
<1> QED BY <1>1, <1>2, <1>3, <1>4 DEF Next

\* Users are only added, each under a login that was free.
LEMMA UsersStep ==
  ASSUME TypeInv, [Next]_vars
  PROVE  \/ UNCHANGED users
         \/ \E l \in Logins, p \in Passwords :
              ~Registered(l) /\ users' = Append(users, [login |-> l, password |-> p])
<1>1. CASE Start
  <2>1. UNCHANGED users \/ \E ok \in BOOLEAN : AddUser(Admin, AdminPassword, ok)
    BY <1>1 DEF Start, dbVars
  <2> QED BY <2>1, ServerAssumption DEF AddUser
<1>2. CASE Spawn \/ SetClock \/ UNCHANGED vars
  BY <1>2 DEF Spawn, SetClock, vars, dbVars
<1>3. CASE Kill
  BY <1>3 DEF Kill, Terminate, dbVars
<1>4. ASSUME NEW c \in Conns, Accept(c) \/ PeerSends(c) \/ PeerCloses(c)
      PROVE  UNCHANGED users
  BY <1>4 DEF Accept, PeerSends, PeerCloses, dbVars
<1>5. ASSUME NEW c \in Conns, HandlerStep(c)
      PROVE  UNCHANGED users \/ AddUserStep(c)
  BY <1>5 DEF HandlerStep, CallRecv, RecvData, RecvEnd, Register, Authorize, Publish, Expecting,
              TooLong, StorePublic, Snapshot, CheckReceiver, StorePrivate, Route, Notice, GetUsers,
              GetHistory, GetPrivateHistory, GetPrivateThrows, Exit, UnknownCommand, SendNext,
              SigPipe, Erase, Close, JustReplies, Terminate, AddMessage, dbVars
<1>6. ASSUME NEW c \in Conns, AddUserStep(c)
      PROVE  \/ UNCHANGED users
             \/ \E l \in Logins, p \in Passwords :
                  ~Registered(l) /\ users' = Append(users, [login |-> l, password |-> p])
  <2>1. cmd[c].login \in Logins /\ cmd[c].password \in Passwords
    BY <1>6 DEF TypeInv, Shape, AddUserStep
  <2>2. PICK ok \in BOOLEAN : AddUser(cmd[c].login, cmd[c].password, ok)
    BY <1>6 DEF AddUserStep
  <2> QED BY <2>1, <2>2 DEF AddUser
<1> QED BY <1>1, <1>2, <1>3, <1>4, <1>5, <1>6 DEF Next

LEMMA RegisteredStays ==
  ASSUME TypeInv, [Next]_vars, NEW l, Registered(l)
  PROVE  Registered(l)'
<1>1. PICK i \in DOMAIN users : users[i].login = l
  BY DEF Registered
<1>2. CASE UNCHANGED users
  BY <1>1, <1>2 DEF Registered
<1>3. ASSUME NEW m \in Logins, NEW p \in Passwords,
             users' = Append(users, [login |-> m, password |-> p])
      PROVE  Registered(l)'
  <2>1. users \in Seq(UserRow)
    BY DEF TypeInv, TypeOK, DbTypeOK
  <2>2. i \in DOMAIN users' /\ users'[i] = users[i]
    BY <1>1, <1>3, <2>1
  <2> QED BY <1>1, <2>2 DEF Registered
<1> QED BY <1>2, <1>3, UsersStep

\* Messages are only added, by the two handlers that call addMessage.
LEMMA MessagesStep ==
  ASSUME TypeInv, [Next]_vars
  PROVE  \/ UNCHANGED messages
         \/ \E c \in Conns : StorePublic(c) \/ StorePrivate(c)
<1>1. CASE Start \/ Spawn \/ SetClock \/ UNCHANGED vars
  BY <1>1 DEF Start, Spawn, SetClock, AddUser, vars, dbVars
<1>2. CASE Kill
  BY <1>2 DEF Kill, Terminate, dbVars
<1>3. ASSUME NEW c \in Conns, Accept(c) \/ PeerSends(c) \/ PeerCloses(c)
      PROVE  UNCHANGED messages
  BY <1>3 DEF Accept, PeerSends, PeerCloses, dbVars
<1>4. ASSUME NEW c \in Conns, HandlerStep(c)
      PROVE  UNCHANGED messages \/ StorePublic(c) \/ StorePrivate(c)
  BY <1>4 DEF HandlerStep, CallRecv, RecvData, RecvEnd, Register, AddUserStep, Authorize, Publish,
              Expecting, TooLong, Snapshot, CheckReceiver, Route, Notice, GetUsers,
              GetHistory, GetPrivateHistory, GetPrivateThrows, Exit, UnknownCommand, SendNext,
              SigPipe, Erase, Close, JustReplies, Terminate, AddUser, dbVars
<1> QED BY <1>1, <1>2, <1>3, <1>4 DEF Next

\* The places where a thread relies on a row it has looked up or inserted.
Relying == {"store", "snapshot", "route"}

\* A thread stays at such a place, with the same command, or has just come to it.
Stays(d) == pc'[d] \in Relying => pc'[d] = pc[d] /\ cmd'[d] = cmd[d]

LEMMA ReplyStays ==
  ASSUME TypeInv, NEW c \in Conns, NEW kind, NEW l, Reply(c, kind, l), NEW d \in Conns,
         d # c => cmd'[d] = cmd[d]
  PROVE  Stays(d)
BY DEF TypeInv, TypeOK, ThreadTypeOK, Reply, SetPc, Stays, Relying

LEMMA SendRowsStays ==
  ASSUME TypeInv, NEW c \in Conns, NEW rows, NEW l, SendRows(c, rows, l), NEW d \in Conns,
         d # c => cmd'[d] = cmd[d]
  PROVE  Stays(d)
BY DEF TypeInv, TypeOK, ThreadTypeOK, SendRows, SetPc, Stays, Relying

LEMMA ResumeStays ==
  ASSUME TypeInv, NEW c \in Conns, NEW sends, NEW closes, NEW notice,
         Resume(c, After(sends, closes, notice)), NEW d \in Conns
  PROVE  Stays(d)
BY DEF TypeInv, TypeOK, ThreadTypeOK, Resume, After, SetPc, Stays, Relying

LEMMA TerminateStays == \A d \in Conns : Terminate => Stays(d)
BY DEF Terminate, Live, Stays, Relying

LEMMA RelyingStep ==
  ASSUME TypeInv, [Next]_vars, NEW d \in Conns
  PROVE  Stays(d) \/ CheckReceiver(d) \/ StorePublic(d) \/ StorePrivate(d)
<1>1. CASE Start \/ (SetClock /\ UNCHANGED <<serverVars, threadVars, peerVars>>) \/ UNCHANGED vars
  BY <1>1 DEF Start, vars, threadVars, Stays
<1>2. CASE Spawn
  BY <1>2 DEF Spawn, TypeInv, TypeOK, ThreadTypeOK, Stays, Relying
<1>3. CASE Kill
  BY <1>3, TerminateStays DEF Kill
<1>4. ASSUME NEW c \in Conns, Accept(c) \/ PeerSends(c) \/ PeerCloses(c)
      PROVE  Stays(d)
  BY <1>4 DEF Accept, PeerSends, PeerCloses, threadVars, Stays
<1>5. ASSUME NEW c \in Conns, HandlerStep(c)
      PROVE  Stays(d) \/ CheckReceiver(d) \/ StorePublic(d) \/ StorePrivate(d)
  <2>1. ASSUME NEW ops, Takes(c, ops), d # c
        PROVE  cmd'[d] = cmd[d]
    BY <2>1 DEF Takes, TypeInv, TypeOK, ThreadTypeOK
  <2>2. CASE CallRecv(c) \/ RecvData(c) \/ RecvEnd(c) \/ Exit(c) \/ Erase(c)
    BY <2>2 DEF CallRecv, RecvData, RecvEnd, Exit, Erase, SetPc, TypeInv, TypeOK, ThreadTypeOK,
                Stays, Relying
  <2>3. CASE GetPrivateThrows(c) \/ SigPipe(c)
    BY <2>3, TerminateStays DEF GetPrivateThrows, SigPipe
  <2>4. CASE Register(c) \/ Authorize(c)
    <3>1. \E ops : Takes(c, ops)
      BY <2>4 DEF Register, Authorize
    <3>2. \/ SetPc(c, "addUser") \/ SetPc(c, "publish")
          \/ \E kind, l : Reply(c, kind, l)
      BY <2>4 DEF Register, Authorize
    <3>3. CASE SetPc(c, "addUser") \/ SetPc(c, "publish")
      BY <2>1, <3>1, <3>3 DEF SetPc, TypeInv, TypeOK, ThreadTypeOK, Stays, Relying
    <3> QED BY <2>1, <3>1, <3>2, <3>3, ReplyStays
  <2>5. CASE Expecting(c) \/ TooLong(c) \/ GetUsers(c) \/ UnknownCommand(c)
    <3>1. \E ops, kind : Takes(c, ops) /\ Reply(c, kind, NoLogin)
      BY <2>5 DEF Expecting, TooLong, GetUsers, UnknownCommand, JustReplies
    <3> QED BY <2>1, <3>1, ReplyStays
  <2>6. CASE AddUserStep(c) \/ Publish(c) \/ Notice(c)
    <3>1. cmd' = cmd /\ \E kind, l : Reply(c, kind, l)
      BY <2>6 DEF AddUserStep, Publish, Notice
    <3> QED BY <3>1, ReplyStays
  <2>7. CASE GetHistory(c) \/ GetPrivateHistory(c)
    <3>1. \E ops : Takes(c, ops)
      BY <2>7 DEF GetHistory, GetPrivateHistory
    <3>2. (\E kind, l : Reply(c, kind, l)) \/ (\E rows, l : SendRows(c, rows, l))
      BY <2>7 DEF GetHistory, GetPrivateHistory
    <3> QED BY <2>1, <3>1, <3>2, ReplyStays, SendRowsStays
  <2>8. CASE Snapshot(c) \/ SendNext(c)
    <3>1. \E sends, closes, notice : Resume(c, After(sends, closes, notice))
      BY <2>8 DEF Snapshot, SendNext
    <3> QED BY <3>1, ResumeStays
  <2>9. CASE Route(c)
    <3>1. cmd' = cmd /\ \E sends : SetPc(c, After(sends, <<>>, TRUE))
      BY <2>9 DEF Route
    <3> QED BY <3>1 DEF SetPc, After, TypeInv, TypeOK, ThreadTypeOK, Stays, Relying
  <2>10. CASE Close(c)
    <3>1. \/ cmd' = cmd /\ SetPc(c, "done")
          \/ \E sends, closes, notice : Resume(c, After(sends, closes, notice))
      BY <2>10 DEF Close
    <3>2. CASE cmd' = cmd /\ SetPc(c, "done")
      BY <3>2 DEF SetPc, TypeInv, TypeOK, ThreadTypeOK, Stays, Relying
    <3> QED BY <3>1, <3>2, ResumeStays
  <2>11. CASE CheckReceiver(c) \/ StorePublic(c)
    <3>1. CASE d = c
      BY <2>11, <3>1
    <3>2. CASE d # c
      <4>1. \E ops : Takes(c, ops)
        BY <2>11 DEF CheckReceiver, StorePublic
      <4>2. pc'[d] = pc[d]
        BY <2>11, <3>2 DEF CheckReceiver, StorePublic, Reply, SetPc, TypeInv, TypeOK, ThreadTypeOK
      <4> QED BY <2>1, <3>2, <4>1, <4>2 DEF Stays
    <3> QED BY <3>1, <3>2
  <2>12. CASE StorePrivate(c)
    BY <2>12 DEF StorePrivate, SetPc, TypeInv, TypeOK, ThreadTypeOK, Stays
  <2> QED BY <1>5, <2>2, <2>3, <2>4, <2>5, <2>6, <2>7, <2>8, <2>9, <2>10, <2>11, <2>12
          DEF HandlerStep
<1> QED BY <1>1, <1>2, <1>3, <1>4, <1>5 DEF Next

-----------------------------------------------------------------------------
(* The tables *)

\* No two rows of `users` share a login: the UNIQUE constraint, which every query by
\* login (getUserId, verifyUser, the sub-selects) relies on.
UniqueLogins ==
  \A i, j \in DOMAIN users : users[i].login = users[j].login => i = j

LEMMA LoginsUnique == Spec => []UniqueLogins
<1>1. Init => UniqueLogins
  BY DbAssumption DEF Init, DbInit, UniqueLogins
<1>2. ASSUME TypeInv, UniqueLogins, [Next]_vars
      PROVE  UniqueLogins'
  <2>1. CASE UNCHANGED users
    BY <1>2, <2>1 DEF UniqueLogins
  <2>2. ASSUME NEW l \in Logins, NEW p \in Passwords, ~Registered(l),
               users' = Append(users, [login |-> l, password |-> p])
        PROVE  UniqueLogins'
    <3>1. users \in Seq(UserRow)
      BY <1>2 DEF TypeInv, TypeOK, DbTypeOK
    <3>2. /\ \A i \in DOMAIN users : users'[i] = users[i]
          /\ users'[Len(users) + 1].login = l
          /\ DOMAIN users' = DOMAIN users \cup {Len(users) + 1}
      BY <2>2, <3>1
    <3> QED BY <1>2, <2>2, <3>2 DEF UniqueLogins, Registered
  <2> QED BY <1>2, <2>1, <2>2, UsersStep
<1> QED BY <1>1, <1>2, InitType, StepType, PTL DEF Spec

\* addMessage is only reached with a receiver that is registered.
ReceiverKnown == \A c \in Conns : pc[c] = "store" => Registered(cmd[c].login)

LEMMA ReceiverKnownStep ==
  ASSUME TypeInv, ReceiverKnown, [Next]_vars
  PROVE  ReceiverKnown'
<1> SUFFICES ASSUME NEW d \in Conns, pc'[d] = "store", NEW l, l = cmd'[d].login
             PROVE  Registered(l)
  <2>1. ASSUME NEW d \in Conns, pc'[d] = "store", NEW l, l = cmd'[d].login, Registered(l)'
        PROVE  Registered(cmd[d].login)'
    BY <2>1 DEF Registered
  <2> QED BY <2>1, RegisteredStays DEF ReceiverKnown
<1>1. CASE Stays(d)
  BY <1>1 DEF Stays, Relying, ReceiverKnown
<1>2. CASE CheckReceiver(d)
  <2>1. GetUserId(Head(lines[d]).login, TRUE) /\ Takes(d, {"PRIVATE"})
    BY <1>2 DEF CheckReceiver, Reply, SetPc, TypeInv, TypeOK, ThreadTypeOK
  <2> QED BY <2>1, TakesType DEF GetUserId, TypeInv, TypeOK
<1>3. CASE StorePublic(d) \/ StorePrivate(d)
  BY <1>3 DEF StorePublic, StorePrivate, SetPc, TypeInv, TypeOK, ThreadTypeOK
<1> QED BY <1>1, <1>2, <1>3, RelyingStep

\* A message addressed to somebody never becomes a public row: handlePrivateMessage
\* inserts with a sub-select that yields NULL for a receiver it cannot find, and
\* NULL is what marks a public message.
THEOREM PrivateNeverPublic == Spec => []PrivateStaysPrivate
<1>1. Init => ReceiverKnown /\ PrivateStaysPrivate
  BY DEF Init, DbInit, ReceiverKnown, PrivateStaysPrivate
<1>2. ASSUME TypeInv, ReceiverKnown, PrivateStaysPrivate, [Next]_vars
      PROVE  PrivateStaysPrivate'
  <2>1. CASE UNCHANGED messages
    BY <1>2, <2>1 DEF PrivateStaysPrivate
  <2>2. ASSUME NEW c \in Conns, StorePublic(c) \/ StorePrivate(c)
        PROVE  PrivateStaysPrivate'
    <3>1. PICK s, r, t : AddMessage(s, r, t) /\ (r = NoLogin \/ Registered(r))
      BY <1>2, <2>2 DEF StorePublic, StorePrivate, ReceiverKnown
    <3>2. r # NoLogin => UserId(r) # Null
      BY <3>1, <1>2 DEF UserId, Registered, Null, TypeInv, TypeOK, DbTypeOK
    <3>3. messages \in Seq(MessageRow)
      BY <1>2 DEF TypeInv, TypeOK, DbTypeOK
    <3>4. CASE UNCHANGED messages
      BY <1>2, <3>4 DEF PrivateStaysPrivate
    <3>5. CASE ~UNCHANGED messages
      <4> DEFINE row == [from |-> UserId(s), to |-> IF r = NoLogin THEN Null ELSE UserId(r),
                         content |-> t, time |-> clock, addr |-> r]
      <4>1. messages' = Append(messages, row)
        BY <3>1, <3>5 DEF AddMessage
      <4>2. row.addr # NoLogin => row.to # Null
        BY <3>2
      <4> HIDE DEF row
      <4>3. /\ \A i \in DOMAIN messages : messages'[i] = messages[i]
            /\ messages'[Len(messages) + 1] = row
            /\ DOMAIN messages' = DOMAIN messages \cup {Len(messages) + 1}
        BY <3>3, <4>1
      <4> QED BY <1>2, <4>2, <4>3 DEF PrivateStaysPrivate
    <3> QED BY <3>4, <3>5
  <2> QED BY <1>2, <2>1, <2>2, MessagesStep
<1> QED BY <1>1, <1>2, InitType, StepType, ReceiverKnownStep, PTL DEF Spec

-----------------------------------------------------------------------------
(* The lines sent *)

\* A send takes its line off `out` and, if it succeeds, appends it to one wire.
LEMMA SendNextMoves ==
  ASSUME TypeInv, NEW c \in Conns, SendNext(c)
  PROVE  \E s \in out[c] :
           /\ \A d \in Conns : out'[d] \subseteq out[d]
           /\ \/ wire' = wire
              \/ /\ \A t \in out'[c] : t # s
                 /\ \E k \in Conns : wire' = [wire EXCEPT ![k] = Append(@, s.line)]
<1>1. PICK s \in out[c], ok \in BOOLEAN :
        /\ SendLine(s.fd, s.line, ok)
        /\ out' = [out EXCEPT ![c] = Left(c, s, ok)]
  BY DEF SendNext
<1>2. \A d \in Conns : out'[d] \subseteq out[d]
  BY <1>1 DEF Left, TypeInv, TypeOK, ThreadTypeOK
<1>3. s.fd \in Fds
  BY DEF TypeInv, TypeOK, ThreadTypeOK, PendingSend
<1>4. CASE ok
  <2>1. out'[c] = out[c] \ {s}
    BY <1>1, <1>4 DEF Left, TypeInv, TypeOK, ThreadTypeOK
  <2>2. /\ fdTable[s.fd] \in Conns
        /\ wire' = [wire EXCEPT ![fdTable[s.fd]] = Append(@, s.line)]
    BY <1>1, <1>3, <1>4 DEF SendLine, TypeInv, TypeOK, ServerTypeOK
  <2> QED BY <1>2, <2>1, <2>2
<1>5. CASE ~ok
  BY <1>1, <1>2, <1>5 DEF SendLine
<1> QED BY <1>4, <1>5

\* A line on a wire after a send was there before, or is the line that was sent.
LEMMA WireEntry ==
  ASSUME TypeInv, NEW k \in Conns, NEW l \in Line,
         wire' = [wire EXCEPT ![k] = Append(@, l)]
  PROVE  /\ \A d \in Conns \ {k} : wire'[d] = wire[d]
         /\ DOMAIN wire'[k] = DOMAIN wire[k] \cup {Len(wire[k]) + 1}
         /\ \A i \in DOMAIN wire[k] : wire'[k][i] = wire[k][i]
         /\ wire'[k][Len(wire[k]) + 1] = l
         /\ Len(wire[k]) + 1 \notin DOMAIN wire[k]
<1>1. wire \in [Conns -> Seq(Line)]
  BY DEF TypeInv, TypeOK, PeerTypeOK
<1>2. wire'[k] = Append(wire[k], l)
  BY <1>1
<1> QED BY <1>1, <1>2

\* privateMessage makes only lines that show the message being handled.
LEMMA RouteSends ==
  ASSUME TypeInv, NEW c \in Conns, Route(c), NEW s \in out'[c]
  PROVE  s.line = [kind |-> "private", id |-> cmd[c].id, login |-> cmd[c].login]
<1> DEFINE l == cmd[c].login
           first == {f \in Fds : clientLogins[f] = l
                       /\ \A g \in Fds : clientLogins[g] = l => f <= g}
           entry(at, f) == ToSend(<<0, at>>, f, "private", cmd[c].id, l)
           sends == {[entry(1, f) EXCEPT !.delivery = TRUE] : f \in first}
                      \cup (IF l # who[c] THEN {entry(2, fd[c])} ELSE {})
<1>1. out' = [out EXCEPT ![c] = sends]
  BY Zenon DEF Route
<1>2. s \in sends
  <2> HIDE DEF sends
  <2> QED BY <1>1 DEF TypeInv, TypeOK, ThreadTypeOK
<1>3. PICK at, f : s = [entry(at, f) EXCEPT !.delivery = TRUE] \/ s = entry(at, f)
  BY <1>2, Zenon
<1> QED BY <1>3 DEF ToSend

\* A message is in the table once its thread goes on to send it.
StoredBefore ==
  ~DbFaults =>
    /\ \A c \in Conns : pc[c] \in {"snapshot", "route"} => Row(cmd[c].id) # {}
    /\ \A c \in Conns : \A s \in out[c] :
         s.line.kind \in {"public", "private"} => Row(s.line.id) # {}
    /\ StoredBeforeSent

LEMMA RowStays ==
  ASSUME TypeInv, [Next]_vars, NEW m, Row(m) # {}
  PROVE  \E i \in DOMAIN messages' : messages'[i].content = m
<1>1. PICK i \in DOMAIN messages : messages[i].content = m
  BY DEF Row
<1>2. CASE UNCHANGED messages
  BY <1>1, <1>2
<1>3. ASSUME NEW c \in Conns, StorePublic(c) \/ StorePrivate(c), ~UNCHANGED messages
      PROVE  \E j \in DOMAIN messages' : messages'[j].content = m
  <2>1. \E row : messages' = Append(messages, row)
    BY <1>3 DEF StorePublic, StorePrivate, AddMessage
  <2>2. messages \in Seq(MessageRow)
    BY DEF TypeInv, TypeOK, DbTypeOK
  <2> QED BY <1>1, <2>1, <2>2
<1> QED BY <1>2, <1>3, MessagesStep

LEMMA RowAdded ==
  ASSUME TypeInv, ~DbFaults, NEW s, NEW r, NEW m, AddMessage(s, r, m)
  PROVE  \E i \in DOMAIN messages' : messages'[i].content = m
<1> DEFINE row == [from |-> UserId(s), to |-> IF r = NoLogin THEN Null ELSE UserId(r),
                   content |-> m, time |-> clock, addr |-> r]
<1>1. messages' = Append(messages, row) /\ row.content = m
  BY DEF AddMessage
<1>2. messages \in Seq(MessageRow)
  BY DEF TypeInv, TypeOK, DbTypeOK
<1> HIDE DEF row
<1> QED BY <1>1, <1>2

LEMMA StoredBeforeStep ==
  ASSUME TypeInv, StoredBefore, [Next]_vars
  PROVE  StoredBefore'
<1> SUFFICES ASSUME ~DbFaults
             PROVE  StoredBefore'
  BY DEF StoredBefore
<1> DEFINE Kept(m) == \E i \in DOMAIN messages' : messages'[i].content = m
<1>1. \A m : Row(m) # {} => Kept(m)
  BY RowStays
<1>2. ASSUME NEW d \in Conns, pc'[d] \in {"snapshot", "route"}
      PROVE  Kept(cmd'[d].id)
  <2>1. CASE Stays(d)
    BY <1>1, <1>2, <2>1 DEF Stays, Relying, StoredBefore
  <2>2. CASE CheckReceiver(d)
    BY <1>2, <2>2 DEF CheckReceiver, Reply, SetPc, TypeInv, TypeOK, ThreadTypeOK
  <2>3. CASE StorePublic(d)
    <3>1. cmd'[d] = Head(lines[d])
      BY <2>3, TakesType DEF StorePublic, TypeInv, TypeOK
    <3> QED BY <2>3, <3>1, RowAdded DEF StorePublic
  <2>4. CASE StorePrivate(d)
    BY <2>4, RowAdded DEF StorePrivate
  <2> QED BY <2>1, <2>2, <2>3, <2>4, RelyingStep
<1>3. /\ \A d \in Conns : \A s \in out'[d] :
           s.line.kind \in {"public", "private"} => Kept(s.line.id)
      /\ \A k \in Conns : \A i \in DOMAIN wire'[k] :
           wire'[k][i].kind \in {"public", "private"} => Kept(wire'[k][i].id)
  <2>1. /\ \A d \in Conns : \A s \in out[d] :
             s.line.kind \in {"public", "private"} => Kept(s.line.id)
        /\ \A k \in Conns : \A i \in DOMAIN wire[k] :
             wire[k][i].kind \in {"public", "private"} => Kept(wire[k][i].id)
    BY <1>1 DEF StoredBefore, StoredBeforeSent
  <2> HIDE DEF Kept
  <2>2. CASE NoNewClaim
    BY <2>1, <2>2 DEF NoNewClaim, Claims
  <2>3. ASSUME NEW c \in Conns, AddUserStep(c) \/ Snapshot(c) \/ Route(c)
        PROVE  <1>3!:
    <3>1. wire' = wire /\ \A d \in Conns \ {c} : out'[d] = out[d]
      BY <2>3 DEF AddUserStep, Snapshot, Route, Reply, peerVars, TypeInv, TypeOK, ThreadTypeOK
    <3>2. ASSUME NEW s \in out'[c], s.line.kind \in {"public", "private"}
          PROVE  Kept(s.line.id)
      <4>1. CASE AddUserStep(c)
        BY <3>2, <4>1 DEF AddUserStep, Reply, ToSend, TypeInv, TypeOK, ThreadTypeOK
      <4>2. CASE Snapshot(c)
        <5>1. s.line.id = cmd[c].id
          BY <3>2, <4>2 DEF Snapshot, ToSend, TypeInv, TypeOK, ThreadTypeOK
        <5> QED BY <1>1, <4>2, <5>1 DEF Snapshot, StoredBefore
      <4>3. CASE Route(c)
        <5>1. s.line = [kind |-> "private", id |-> cmd[c].id, login |-> cmd[c].login]
          BY <3>2, <4>3, RouteSends
        <5>2. s.line.id = cmd[c].id
          BY <5>1
        <5> QED BY <1>1, <4>3, <5>2 DEF Route, StoredBefore
      <4> QED BY <2>3, <4>1, <4>2, <4>3
    <3> QED BY <2>1, <3>1, <3>2
  <2>4. ASSUME NEW c \in Conns, SendNext(c)
        PROVE  <1>3!:
    <3>1. PICK s \in out[c] :
            /\ \A d \in Conns : out'[d] \subseteq out[d]
            /\ wire' = wire \/ \E k \in Conns : wire' = [wire EXCEPT ![k] = Append(@, s.line)]
      BY <2>4, SendNextMoves
    <3>2. s.line \in Line
      BY DEF TypeInv, TypeOK, ThreadTypeOK, PendingSend
    <3>3. ASSUME NEW k \in Conns, wire' = [wire EXCEPT ![k] = Append(@, s.line)]
          PROVE  \A e \in Conns : \A i \in DOMAIN wire'[e] :
                   wire'[e][i].kind \in {"public", "private"} => Kept(wire'[e][i].id)
      BY <2>1, <3>2, <3>3, WireEntry
    <3> QED BY <2>1, <3>1, <3>3
  <2> QED BY <2>2, <2>3, <2>4, ClaimStep
<1>4. \A m : Kept(m) => {i \in DOMAIN messages' : messages'[i].content = m} # {}
  OBVIOUS
<1> HIDE DEF Kept
<1>5. /\ \A d \in Conns : pc'[d] \in {"snapshot", "route"} => Row(cmd[d].id)' # {}
      /\ \A d \in Conns : \A s \in out'[d] :
           s.line.kind \in {"public", "private"} =>
             {i \in DOMAIN messages' : messages'[i].content = s.line.id} # {}
      /\ StoredBeforeSent'
  BY <1>2, <1>3, <1>4 DEF StoredBeforeSent, Row
<1> QED BY <1>5, Zenon DEF StoredBefore, Row

\* A message that anybody was shown is in the database, whatever crashed since:
\* handlePublicMessage and handlePrivateMessage call addMessage before they send.
THEOREM ShownIsStored == Spec => []StoredBeforeSent
<1>1. Init => StoredBefore
  BY DEF Init, StoredBefore, StoredBeforeSent
<1>2. TypeInv /\ StoredBefore /\ [Next]_vars => StoredBefore'
  BY StoredBeforeStep
<1>3. StoredBefore => StoredBeforeSent
  BY DEF StoredBefore, StoredBeforeSent
<1> QED BY <1>1, <1>2, <1>3, InitType, StepType, PTL DEF Spec

\* A login that was added to the database after it was first opened.
Added(l) == Registered(l) /\ \A u \in DOMAIN InitUsers : InitUsers[u].login # l

Success(line) == line.kind = "REGISTER_SUCCESS"

\* Every REGISTER_SUCCESS, sent or still to send, is about a login of its own.
OneSuccess ==
  /\ \A u \in DOMAIN InitUsers : Registered(InitUsers[u].login)
  /\ \A c \in Conns : \A s \in out[c] : Success(s.line) => Added(s.line.login)
  /\ \A k \in Conns : \A i \in DOMAIN wire[k] : Success(wire[k][i]) => Added(wire[k][i].login)
  /\ \A c, d \in Conns : \A s \in out[c], t \in out[d] :
       Success(s.line) /\ Success(t.line) /\ s.line.login = t.line.login => c = d /\ s = t
  /\ \A c, k \in Conns : \A s \in out[c], i \in DOMAIN wire[k] :
       Success(s.line) /\ Success(wire[k][i]) => s.line.login # wire[k][i].login
  /\ \A c, d \in Conns : \A i \in DOMAIN wire[c], j \in DOMAIN wire[d] :
       Success(wire[c][i]) /\ Success(wire[d][j]) /\ wire[c][i].login = wire[d][j].login
         => c = d /\ i = j

LEMMA AddedStays ==
  ASSUME TypeInv, [Next]_vars, NEW l, Added(l)
  PROVE  Added(l)'
BY RegisteredStays DEF Added

\* The lines a step leaves are as distinct as they were.
LEMMA OneSuccessKept ==
  ASSUME TypeInv, OneSuccess, [Next]_vars, wire' = wire,
         \A d \in Conns : \A s \in out'[d] : s \in out[d] \/ ~Success(s.line)
  PROVE  OneSuccess'
<1>1. /\ \A l : Registered(l) => Registered(l)'
      /\ \A l : Added(l) => Added(l)'
  BY RegisteredStays, AddedStays
<1>2. \A u \in DOMAIN InitUsers : Registered(InitUsers[u].login)'
  BY <1>1 DEF OneSuccess
<1>3. /\ \A c \in Conns : \A s \in out'[c] : Success(s.line) => Added(s.line.login)
      /\ \A k \in Conns : \A i \in DOMAIN wire'[k] :
           Success(wire'[k][i]) => Added(wire'[k][i].login)
  BY DEF OneSuccess
<1>4. /\ \A c \in Conns : \A s \in out'[c] : Success(s.line) => Added(s.line.login)'
      /\ \A k \in Conns : \A i \in DOMAIN wire'[k] :
           Success(wire'[k][i]) => (\A l : l = wire'[k][i].login => Added(l)')
  BY <1>1, <1>3
<1> QED BY <1>2, <1>4 DEF OneSuccess, Success, Added, Registered

LEMMA OneSuccessAddUser ==
  ASSUME TypeInv, OneSuccess, [Next]_vars, NEW c \in Conns, AddUserStep(c)
  PROVE  OneSuccess'
<1> DEFINE l == cmd[c].login
           line(kind) == ToSend(<<0, 0>>, fd[c], kind, NoId, l)
<1>1. PICK ok \in BOOLEAN :
        /\ AddUser(l, cmd[c].password, ok)
        /\ out' = [out EXCEPT ![c] = {line(IF ok THEN "REGISTER_SUCCESS" ELSE "REGISTER_FAILED")}]
  BY DEF AddUserStep, Reply
<1>2. wire' = wire /\ \A d \in Conns \ {c} : out'[d] = out[d]
  BY <1>1 DEF AddUserStep, peerVars, TypeInv, TypeOK, ThreadTypeOK
<1>3. CASE ~ok
  <2>1. \A s \in out'[c] : ~Success(s.line)
    BY <1>1, <1>3 DEF ToSend, Success, TypeInv, TypeOK, ThreadTypeOK
  <2> QED BY <1>2, <2>1, OneSuccessKept
<1>4. CASE ok
  <2>1. ~Registered(l) /\ users' = Append(users, [login |-> l, password |-> cmd[c].password])
    BY <1>1, <1>4 DEF AddUser
  <2>2. \A s \in out'[c] : s = line("REGISTER_SUCCESS") /\ s.line.login = l
    BY <1>1, <1>4 DEF ToSend, TypeInv, TypeOK, ThreadTypeOK
  <2>3. Registered(l)'
    <3>1. users \in Seq(UserRow)
      BY DEF TypeInv, TypeOK, DbTypeOK
    <3>2. Len(users) + 1 \in DOMAIN users' /\ users'[Len(users) + 1].login = l
      BY <2>1, <3>1
    <3>3. UNCHANGED cmd
      BY DEF AddUserStep
    <3> QED BY <3>2, <3>3 DEF Registered
  <2>4. \A u \in DOMAIN InitUsers : InitUsers[u].login # l
    BY <2>1 DEF OneSuccess
  <2>5. /\ \A d \in Conns : \A s \in out[d] : Success(s.line) => s.line.login # l
        /\ \A k \in Conns : \A i \in DOMAIN wire[k] : Success(wire[k][i]) => wire[k][i].login # l
    BY <2>1 DEF OneSuccess, Added
  <2>6. /\ \A m : Registered(m) => Registered(m)'
        /\ \A m : Added(m) => Added(m)'
    BY RegisteredStays, AddedStays
  <2>7. \A m : m = l => Added(m)'
    BY <2>3, <2>4 DEF Added, Registered, AddUserStep
  <2> HIDE DEF l, line
  <2>8. /\ \A d \in Conns : \A s \in out'[d] : s \in out[d] \/ (d = c /\ s = line("REGISTER_SUCCESS")
                                                              /\ s.line.login = l)
    BY <1>2, <2>2
  <2>9. /\ \A d \in Conns : \A s \in out'[d] : Success(s.line) => Added(s.line.login)'
        /\ \A k \in Conns : \A i \in DOMAIN wire'[k] :
             Success(wire'[k][i]) => (\A m : m = wire'[k][i].login => Added(m)')
        /\ \A u \in DOMAIN InitUsers : Registered(InitUsers[u].login)'
    BY <1>2, <2>6, <2>7, <2>8 DEF OneSuccess
  <2>10. /\ \A b, d \in Conns : \A s \in out'[b], t \in out'[d] :
              Success(s.line) /\ Success(t.line) /\ s.line.login = t.line.login => b = d /\ s = t
         /\ \A d, k \in Conns : \A s \in out'[d], i \in DOMAIN wire[k] :
              Success(s.line) /\ Success(wire[k][i]) => s.line.login # wire[k][i].login
    BY <2>5, <2>8 DEF OneSuccess
  <2> QED BY <1>2, <2>9, <2>10 DEF OneSuccess, Success, Added, Registered
<1> QED BY <1>3, <1>4

LEMMA OneSuccessSend ==
  ASSUME TypeInv, OneSuccess, [Next]_vars, NEW c \in Conns, SendNext(c)
  PROVE  OneSuccess'
<1>1. PICK s \in out[c] :
        /\ \A d \in Conns : out'[d] \subseteq out[d]
        /\ \/ wire' = wire
           \/ /\ \A t \in out'[c] : t # s
              /\ \E k \in Conns : wire' = [wire EXCEPT ![k] = Append(@, s.line)]
  BY SendNextMoves
<1>2. CASE wire' = wire
  BY <1>1, <1>2, OneSuccessKept
<1>3. ASSUME NEW k \in Conns, wire' = [wire EXCEPT ![k] = Append(@, s.line)],
             \A t \in out'[c] : t # s
      PROVE  OneSuccess'
  <2>1. s.line \in Line
    BY DEF TypeInv, TypeOK, ThreadTypeOK, PendingSend
  <2> DEFINE n == Len(wire[k]) + 1
  <2>2. /\ \A d \in Conns \ {k} : wire'[d] = wire[d]
        /\ DOMAIN wire'[k] = DOMAIN wire[k] \cup {n}
        /\ \A i \in DOMAIN wire[k] : wire'[k][i] = wire[k][i]
        /\ wire'[k][n] = s.line
    BY <1>3, <2>1, WireEntry
  <2> HIDE DEF n
  <2>3. /\ \A m : Registered(m) => Registered(m)'
        /\ \A m : Added(m) => Added(m)'
    BY RegisteredStays, AddedStays
  <2>4. /\ \A d \in Conns : \A t \in out'[d] : Success(t.line) => Added(t.line.login)'
        /\ \A u \in DOMAIN InitUsers : Registered(InitUsers[u].login)'
    BY <1>1, <2>3 DEF OneSuccess
  <2>5. \A d \in Conns : \A i \in DOMAIN wire'[d] :
          \/ i \in DOMAIN wire[d] /\ wire'[d][i] = wire[d][i]
          \/ d = k /\ i = n /\ wire'[d][i] = s.line
    BY <2>2
  <2>6. \A d \in Conns : \A i \in DOMAIN wire'[d] :
          Success(wire'[d][i]) => (\A m : m = wire'[d][i].login => Added(m)')
    BY <2>3, <2>5 DEF OneSuccess
  <2>7. \A b, d \in Conns : \A t \in out'[b], u \in out'[d] :
          Success(t.line) /\ Success(u.line) /\ t.line.login = u.line.login => b = d /\ t = u
    BY <1>1 DEF OneSuccess
  <2>8. \A d \in Conns : \A t \in out'[d] :
          Success(t.line) /\ Success(s.line) => t.line.login # s.line.login
    BY <1>1, <1>3 DEF OneSuccess
  <2>9. \A b, d \in Conns : \A t \in out'[b], i \in DOMAIN wire'[d] :
          Success(t.line) /\ Success(wire'[d][i]) => t.line.login # wire'[d][i].login
    BY <1>1, <2>5, <2>8 DEF OneSuccess
  <2>10. \A d \in Conns : \A i \in DOMAIN wire[d] :
           Success(s.line) /\ Success(wire[d][i]) => s.line.login # wire[d][i].login
    BY DEF OneSuccess
  <2>11. \A b, d \in Conns : \A i \in DOMAIN wire'[b], j \in DOMAIN wire'[d] :
           Success(wire'[b][i]) /\ Success(wire'[d][j]) /\ wire'[b][i].login = wire'[d][j].login
             => b = d /\ i = j
    BY <2>5, <2>10 DEF OneSuccess
  <2> QED BY <2>4, <2>6, <2>7, <2>9, <2>11 DEF OneSuccess, Success, Added, Registered
<1> QED BY <1>1, <1>2, <1>3

LEMMA OneSuccessStep ==
  ASSUME TypeInv, OneSuccess, [Next]_vars
  PROVE  OneSuccess'
<1>1. CASE NoNewClaim
  BY <1>1, OneSuccessKept DEF NoNewClaim, Claims, Success
<1>2. ASSUME NEW c \in Conns, Snapshot(c) \/ Route(c)
      PROVE  OneSuccess'
  <2>1. wire' = wire /\ \A d \in Conns \ {c} : out'[d] = out[d]
    BY <1>2 DEF Snapshot, Route, peerVars, TypeInv, TypeOK, ThreadTypeOK
  <2>2. CASE Snapshot(c)
    <3>1. \A s \in out'[c] : ~Success(s.line)
      BY <2>2 DEF Snapshot, ToSend, Success, TypeInv, TypeOK, ThreadTypeOK
    <3> QED BY <2>1, <3>1, OneSuccessKept
  <2>3. CASE Route(c)
    <3>1. ASSUME NEW s \in out'[c] PROVE s.line.kind = "private"
      <4>1. s.line = [kind |-> "private", id |-> cmd[c].id, login |-> cmd[c].login]
        BY <2>3, RouteSends
      <4> QED BY <4>1
    <3> QED BY <2>1, <3>1, OneSuccessKept DEF Success
  <2> QED BY <1>2, <2>2, <2>3
<1> QED BY <1>1, <1>2, OneSuccessAddUser, OneSuccessSend, ClaimStep

\* At most one connection is ever told REGISTER_SUCCESS for a login, none for a login
\* of the initial database, and what it is told is true: handleRegistration looks
\* the login up and inserts it in two steps, and the insertion decides.
THEOREM RegistersOnce == Spec => []RegistrationExclusive
<1>1. ASSUME Init PROVE OneSuccess
  <2>1. \A u \in DOMAIN InitUsers : Registered(InitUsers[u].login)
    BY <1>1 DEF Init, DbInit, Registered
  <2>2. /\ \A c \in Conns : out[c] = {}
        /\ \A k \in Conns : DOMAIN wire[k] = {}
    BY <1>1 DEF Init
  <2> QED BY <2>1, <2>2 DEF OneSuccess
<1>2. TypeInv /\ OneSuccess /\ [Next]_vars => OneSuccess'
  BY OneSuccessStep
<1>3. OneSuccess => RegistrationExclusive
  BY DEF OneSuccess, Success, Added, RegistrationExclusive
<1> QED BY <1>1, <1>2, <1>3, InitType, StepType, PTL DEF Spec

-----------------------------------------------------------------------------
(* What the histories show *)

\* Who sent a message and who gets it are rows of users, or unknown.
RowsRefer ==
  \A i \in DOMAIN messages : {messages[i].from, messages[i].to} \subseteq {Null} \cup DOMAIN users

LEMMA UserIdRow ==
  ASSUME NEW l
  PROVE  /\ UserId(l) \in {Null} \cup DOMAIN users
         /\ Registered(l) => UserId(l) \in DOMAIN users /\ users[UserId(l)].login = l
BY DEF UserId, Registered

\* The id of a registered login never changes.
LEMMA UserIdStays ==
  ASSUME TypeInv, UniqueLogins, UniqueLogins', [Next]_vars, NEW l, UserId(l) # Null
  PROVE  UserId(l)' = UserId(l)
<1>1. users \in Seq(UserRow) /\ Registered(l)
  BY DEF TypeInv, TypeOK, DbTypeOK, UserId
<1>2. Registered(l)'
  BY <1>1, RegisteredStays
<1>3. UserId(l) \in DOMAIN users' /\ users'[UserId(l)] = users[UserId(l)]
  <2>1. UserId(l) \in DOMAIN users
    BY <1>1, UserIdRow
  <2>2. UNCHANGED users \/ \E row : users' = Append(users, row)
    BY UsersStep
  <2> QED BY <1>1, <2>1, <2>2
<1>4. UserId(l)' \in DOMAIN users' /\ users'[UserId(l)'].login = l
  BY <1>2 DEF UserId, Registered
<1>5. users'[UserId(l)].login = l
  BY <1>1, <1>3, UserIdRow
<1> QED BY <1>3, <1>4, <1>5 DEF UniqueLogins

\* Rows are only added.
LEMMA RowsStay ==
  ASSUME TypeInv, [Next]_vars
  PROVE  /\ Len(messages') >= Len(messages)
         /\ \A i \in DOMAIN messages : i \in DOMAIN messages' /\ messages'[i] = messages[i]
<1>1. messages \in Seq(MessageRow)
  BY DEF TypeInv, TypeOK, DbTypeOK
<1>2. UNCHANGED messages \/ \E row : messages' = Append(messages, row)
  BY MessagesStep DEF StorePublic, StorePrivate, AddMessage
<1> QED BY <1>1, <1>2

LEMMA RowsReferStep ==
  ASSUME TypeInv, RowsRefer, [Next]_vars
  PROVE  RowsRefer'
<1>1. messages \in Seq(MessageRow) /\ users \in Seq(UserRow)
  BY DEF TypeInv, TypeOK, DbTypeOK
<1>2. DOMAIN users \subseteq DOMAIN users'
  <2>1. UNCHANGED users \/ \E row : users' = Append(users, row)
    BY UsersStep
  <2> QED BY <1>1, <2>1
<1>3. CASE UNCHANGED messages
  BY <1>2, <1>3 DEF RowsRefer
<1>4. ASSUME NEW s, NEW r, NEW t, AddMessage(s, r, t), ~UNCHANGED messages
      PROVE  RowsRefer'
  <2> DEFINE row == [from |-> UserId(s), to |-> IF r = NoLogin THEN Null ELSE UserId(r),
                     content |-> t, time |-> clock, addr |-> r]
  <2>1. messages' = Append(messages, row)
    BY <1>4 DEF AddMessage
  <2>2. {row.from, row.to} \subseteq {Null} \cup DOMAIN users
    BY UserIdRow
  <2> HIDE DEF row
  <2> QED BY <1>1, <1>2, <2>1, <2>2 DEF RowsRefer
<1> QED BY <1>3, <1>4, MessagesStep DEF StorePublic, StorePrivate

LEMMA RowType ==
  ASSUME TypeInv
  PROVE  /\ \A i \in DOMAIN messages : messages[i] \in MessageRow /\ messages[i].time \in 0..MaxClock
         /\ \A i \in DOMAIN users : users[i].login \in Logins
<1>1. messages \in Seq(MessageRow) /\ users \in Seq(UserRow)
  BY DEF TypeInv, TypeOK, DbTypeOK
<1>2. /\ \A i \in DOMAIN messages : messages[i] \in MessageRow
      /\ \A i \in DOMAIN users : users[i] \in UserRow
  BY <1>1
<1> QED BY <1>2 DEF MessageRow, UserRow

LEMMA Partition ==
  ASSUME TypeInv, UniqueLogins, RowsRefer
  PROVE  HistoriesPartition
<1> SUFFICES ASSUME NEW i \in DOMAIN messages
             PROVE  IF messages[i].from = Null
                    THEN i \notin PublicRows /\ PairsShown(i) = {}
                    ELSE (i \in PublicRows /\ PairsShown(i) = {})
                           \/ (i \notin PublicRows /\ Cardinality(PairsShown(i)) = 1)
  BY DEF HistoriesPartition
<1> DEFINE from == messages[i].from
           to == messages[i].to
           mine == {users[from].login, users[to].login}
<1>1. \A u, v : i \in PrivateRows(u, v) =>
        /\ from \in DOMAIN users /\ to \in DOMAIN users /\ from # Null /\ to # Null
        /\ {u, v} = mine
  BY UserIdRow DEF PrivateRows, Between, UserId
<1>2. CASE from = Null
  BY <1>1, <1>2 DEF PublicRows, PairsShown
<1>3. CASE from # Null /\ to = Null
  BY <1>1, <1>3 DEF PublicRows, PairsShown
<1>4. CASE from # Null /\ to # Null
  <2>1. from \in DOMAIN users /\ to \in DOMAIN users
    BY <1>4 DEF RowsRefer
  <2>2. users[from].login \in Logins /\ users[to].login \in Logins
    BY <2>1, RowType
  <2>3. UserId(users[from].login) = from /\ UserId(users[to].login) = to
    <3>1. Registered(users[from].login) /\ Registered(users[to].login)
      BY <2>1 DEF Registered
    <3> QED BY <2>1, <3>1, UserIdRow DEF UniqueLogins
  <2>4. i \in PrivateRows(users[from].login, users[to].login)
    BY <1>4, <2>3 DEF PrivateRows, Between
  <2>5. PairsShown(i) = {mine}
    <3>1. mine \in PairsShown(i)
      BY <2>2, <2>4 DEF PairsShown
    <3>2. \A pr \in PairsShown(i) : pr = mine
      BY <1>1 DEF PairsShown
    <3> HIDE DEF mine
    <3> QED BY <3>1, <3>2
  <2>6. Cardinality(PairsShown(i)) = 1
    BY <2>5, FS_Singleton
  <2> QED BY <1>4, <2>6 DEF PublicRows
<1> QED BY <1>2, <1>3, <1>4

\* Every message of a known sender is in the public history or in the private one of
\* exactly one pair of users, and in no other: getPublicMessages and getMessages.
THEOREM HistoriesDivide == Spec => []HistoriesPartition
<1>1. Init => RowsRefer
  BY DEF Init, DbInit, RowsRefer
<1>2. TypeInv /\ RowsRefer /\ [Next]_vars => RowsRefer'
  BY RowsReferStep
<1>3. TypeInv /\ UniqueLogins /\ RowsRefer => HistoriesPartition
  BY Partition
<1> QED BY <1>1, <1>2, <1>3, LoginsUnique, InitType, StepType, PTL DEF Spec

\* A message a history has shown stays in that history, and the order of two messages
\* never changes: rows are only added, and an id keeps its login.
THEOREM HistoriesKept == Spec => HistoriesGrow
<1>1. ASSUME TypeInv, UniqueLogins, UniqueLogins', [Next]_vars
      PROVE  /\ PublicRows \subseteq PublicRows'
             /\ \A u, v \in Logins : PrivateRows(u, v) \subseteq PrivateRows(u, v)'
             /\ \A i, j \in DOMAIN messages : Before(i, j) => Before(i, j)'
  <2>1. \A i \in DOMAIN messages : i \in DOMAIN messages' /\ messages'[i] = messages[i]
    BY <1>1, RowsStay
  <2>2. PublicRows \subseteq PublicRows'
    BY <2>1 DEF PublicRows
  <2>3. ASSUME NEW u \in Logins, NEW v \in Logins, NEW i \in PrivateRows(u, v)
        PROVE  i \in PrivateRows(u, v)'
    <3>1. i \in DOMAIN messages /\ (Between(i, u, v) \/ Between(i, v, u))
      BY <2>3 DEF PrivateRows
    <3>2. UserId(u) # Null /\ UserId(v) # Null
      BY <3>1 DEF Between
    <3>3. UserId(u)' = UserId(u) /\ UserId(v)' = UserId(v)
      BY <1>1, <3>2, UserIdStays
    <3> QED BY <2>1, <3>1, <3>3 DEF PrivateRows, Between
  <2>4. ASSUME NEW i \in DOMAIN messages, NEW j \in DOMAIN messages, Before(i, j)
        PROVE  Before(i, j)'
    BY <2>1, <2>4 DEF Before
  <2> QED BY <2>2, <2>3, <2>4
<1>2. TypeInv /\ UniqueLogins /\ UniqueLogins' /\ [Next]_vars
        => [/\ PublicRows \subseteq PublicRows'
            /\ \A u, v \in Logins : PrivateRows(u, v) \subseteq PrivateRows(u, v)'
            /\ \A i, j \in DOMAIN messages : Before(i, j) => Before(i, j)']_dbVars
  BY <1>1
<1> QED BY <1>2, LoginsUnique, InitType, StepType, PTL DEF Spec, HistoriesGrow

=============================================================================
