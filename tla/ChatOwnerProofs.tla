--------------------------- MODULE ChatOwnerProofs ---------------------------
(***************************************************************************)
(* Whose is a descriptor number?  As long as accept returns no number that *)
(* a thread still holds in a local variable, every number the threads hold *)
(* means what it meant when they got it; what the server owes its clients  *)
(* follows.                                                                *)
(***************************************************************************)
EXTENDS ChatEchoProofs

-----------------------------------------------------------------------------
(* A step of one thread *)

ThreadStep(c) == HandlerStep(c) /\ ~Terminate

\* The locals of a thread are its own.
SameLocals(d) ==
  /\ pc'[d] = pc[d] /\ fd'[d] = fd[d] /\ reading'[d] = reading[d] /\ lines'[d] = lines[d]
  /\ who'[d] = who[d] /\ cmd'[d] = cmd[d] /\ out'[d] = out[d] /\ failed'[d] = failed[d]
  /\ undelivered'[d] = undelivered[d]

LEMMA OthersKeepLocals ==
  ASSUME TypeInv, NEW c \in Conns, ThreadStep(c), NEW d \in Conns \ {c}
  PROVE  SameLocals(d)
<1> USE DEF ThreadStep
<1>1. /\ pc'[d] = pc[d]
  BY DEF HandlerStep, CallRecv, RecvData, RecvEnd, Register, AddUserStep, Authorize,
         Publish, Expecting, TooLong, StorePublic, Snapshot, CheckReceiver, StorePrivate,
         Route, Notice, GetUsers, GetHistory, GetPrivateHistory, GetPrivateThrows, Exit,
         UnknownCommand, SendNext, SigPipe, Erase, Close, JustReplies, Reply, SendRows,
         Resume, SetPc, TypeInv, TypeOK, ThreadTypeOK
<1>2. fd'[d] = fd[d] /\ reading'[d] = reading[d]
  BY DEF HandlerStep, CallRecv, RecvData, RecvEnd, Register, AddUserStep, Authorize,
         Publish, Expecting, TooLong, StorePublic, Snapshot, CheckReceiver, StorePrivate,
         Route, Notice, GetUsers, GetHistory, GetPrivateHistory, GetPrivateThrows, Exit,
         UnknownCommand, SendNext, SigPipe, Erase, Close, JustReplies, localVars, TypeInv, TypeOK, ThreadTypeOK
<1>3. lines'[d] = lines[d] /\ cmd'[d] = cmd[d]
  BY DEF HandlerStep, CallRecv, RecvData, RecvEnd, Register, AddUserStep, Authorize,
         Publish, Expecting, TooLong, StorePublic, Snapshot, CheckReceiver, StorePrivate,
         Route, Notice, GetUsers, GetHistory, GetPrivateHistory, GetPrivateThrows, Exit,
         UnknownCommand, SendNext, SigPipe, Erase, Close, JustReplies, Takes, Resume,
         TypeInv, TypeOK, ThreadTypeOK
<1>4. who'[d] = who[d] /\ out'[d] = out[d]
  BY DEF HandlerStep, CallRecv, RecvData, RecvEnd, Register, AddUserStep, Authorize,
         Publish, Expecting, TooLong, StorePublic, Snapshot, CheckReceiver, StorePrivate,
         Route, Notice, GetUsers, GetHistory, GetPrivateHistory, GetPrivateThrows, Exit,
         UnknownCommand, SendNext, SigPipe, Erase, Close, JustReplies, Reply, SendRows,
         TypeInv, TypeOK, ThreadTypeOK
<1>5. failed'[d] = failed[d] /\ undelivered'[d] = undelivered[d]
  BY DEF HandlerStep, CallRecv, RecvData, RecvEnd, Register, AddUserStep, Authorize,
         Publish, Expecting, TooLong, StorePublic, Snapshot, CheckReceiver, StorePrivate,
         Route, Notice, GetUsers, GetHistory, GetPrivateHistory, GetPrivateThrows, Exit,
         UnknownCommand, SendNext, SigPipe, Erase, Close, JustReplies, localVars,
         TypeInv, TypeOK, ThreadTypeOK
<1> QED BY <1>1, <1>2, <1>3, <1>4, <1>5 DEF SameLocals

-----------------------------------------------------------------------------
(* What a place in the code says of the locals *)

\* Every line read has the number its peer gave it; NoCommand has none.
Numbered == \A c \in Conns : \A i \in DOMAIN lines[c] : lines[c][i].id \in Ids

Idling  == {"none", "recv", "wait", "done"}
Working == {"addUser", "publish", "snapshot", "store", "route", "send", "notice"}

PlaceInv(c) ==
  /\ out[c] # {} => pc[c] = "send"
  /\ failed[c] # <<>> => pc[c] \in {"send", "erase", "close"}
  /\ undelivered[c] => pc[c] \in {"send", "erase", "close", "notice"}
  /\ pc[c] \in Idling => cmd[c] = NoCommand
  /\ pc[c] \in Working => cmd[c] # NoCommand
  /\ pc[c] \in {"erase", "close"} /\ cmd[c] = NoCommand => failed[c] = <<fd[c]>> /\ ~undelivered[c]
  /\ pc[c] # "wait" => reading[c] = NoConn
  /\ pc[c] \in {"none", "done"} => who[c] = NoLogin
  /\ pc[c] \in {"snapshot", "store", "route"} => who[c] # NoLogin
  /\ pc[c] \in {"store", "route"} => cmd[c].login # NoLogin

Places == \A c \in Conns : PlaceInv(c)

LEMMA NumberedStep ==
  ASSUME TypeInv, InboxInv, Numbered, [Next]_vars
  PROVE  Numbered'
<1> SUFFICES ASSUME NEW d \in Conns, NEW i \in DOMAIN lines'[d]
             PROVE  lines'[d][i].id \in Ids
  BY DEF Numbered
<1>1. lines[d] \in Seq(Command)
  BY DEF TypeInv, TypeOK, ThreadTypeOK
<1>2. CASE lines'[d] = lines[d] \/ lines'[d] = <<>>
  BY <1>2 DEF Numbered
<1>3. CASE lines[d] # <<>> /\ lines'[d] = Tail(lines[d])
  <2>1. i + 1 \in DOMAIN lines[d] /\ lines'[d][i] = lines[d][i + 1]
    BY <1>1, <1>3
  <2> QED BY <2>1 DEF Numbered
<1>4. CASE FromInbox(d)
  <2>1. PICK n \in 1..MaxLines : lines'[d][i].id = <<reading[d], n>>
    BY <1>4 DEF InboxInv, FromInbox
  <2>2. reading[d] \in Conns
    BY <1>4 DEF FromInbox
  <2> QED BY <2>1, <2>2 DEF Ids
<1> QED BY <1>2, <1>3, <1>4, LinesFrom

\* A command taken is a numbered line, and the thread has left its loop.
LEMMA TakesCommand ==
  ASSUME TypeInv, Numbered, NEW c \in Conns, PlaceInv(c), NEW ops, Takes(c, ops)
  PROVE  /\ cmd'[c] = Head(lines[c]) /\ cmd'[c] # NoCommand
         /\ pc[c] = "recv" /\ out[c] = {} /\ failed[c] = <<>> /\ ~undelivered[c]
         /\ reading[c] = NoConn
<1>1. /\ lines[c] \in Seq(Command) /\ lines[c] # <<>> /\ pc[c] = "recv"
      /\ cmd'[c] = Head(lines[c])
  BY DEF Takes, Receives, TypeInv, TypeOK, ThreadTypeOK
<1>2. cmd'[c] = lines[c][1] /\ 1 \in DOMAIN lines[c]
  BY <1>1
<1>3. NoCommand.id \notin Ids
  BY ServerAssumption DEF NoCommand, NoId, Ids
<1>4. cmd'[c] # NoCommand
  BY <1>2, <1>3 DEF Numbered
<1> QED BY <1>1, <1>4 DEF PlaceInv

LEMMA ReplyPlace ==
  ASSUME TypeInv, NEW c \in Conns, NEW kind, NEW l, Reply(c, kind, l), failed'[c] = <<>>,
         reading'[c] = NoConn, cmd'[c] # NoCommand
  PROVE  PlaceInv(c)'
<1>1. pc'[c] = "send"
  BY DEF Reply, SetPc, TypeInv, TypeOK, ThreadTypeOK
<1> QED BY <1>1 DEF PlaceInv, Idling

LEMMA SendRowsPlace ==
  ASSUME TypeInv, NEW c \in Conns, NEW rows, NEW l, SendRows(c, rows, l), failed'[c] = <<>>,
         reading'[c] = NoConn, cmd'[c] # NoCommand
  PROVE  PlaceInv(c)'
<1>1. pc'[c] = "send"
  BY DEF SendRows, SetPc, TypeInv, TypeOK, ThreadTypeOK
<1> QED BY <1>1 DEF PlaceInv, Idling

LEMMA ThreadPlace ==
  ASSUME TypeInv, Numbered, NEW c \in Conns, PlaceInv(c), ThreadStep(c)
  PROVE  PlaceInv(c)'
<1>1. CASE CallRecv(c) \/ RecvData(c) \/ RecvEnd(c)
  BY <1>1 DEF CallRecv, RecvData, RecvEnd, SetPc, PlaceInv, Idling, Working, TypeInv, TypeOK,
              ThreadTypeOK
<1>2. CASE Register(c) \/ Authorize(c)
  <2>1. /\ \E ops : Takes(c, ops)
        /\ UNCHANGED <<failed, reading, undelivered>>
        /\ \/ \E kind, l : Reply(c, kind, l)
           \/ (SetPc(c, "addUser") \/ SetPc(c, "publish")) /\ UNCHANGED out
    BY <1>2 DEF Register, Authorize, localVars
  <2>2. CASE \E kind, l : Reply(c, kind, l)
    BY <2>1, <2>2, TakesCommand, ReplyPlace
  <2>3. CASE (SetPc(c, "addUser") \/ SetPc(c, "publish")) /\ UNCHANGED out
    <3>1. pc'[c] \in {"addUser", "publish"}
      BY <2>3 DEF SetPc, TypeInv, TypeOK, ThreadTypeOK
    <3> QED BY <2>1, <2>3, <3>1, TakesCommand DEF PlaceInv, Idling
  <2> QED BY <2>1, <2>2, <2>3
<1>3. CASE Expecting(c) \/ TooLong(c) \/ GetUsers(c) \/ UnknownCommand(c)
  <2>1. \E ops, kind : JustReplies(c, ops, kind)
    BY <1>3 DEF Expecting, TooLong, GetUsers, UnknownCommand
  <2> QED BY <2>1, TakesCommand, ReplyPlace DEF JustReplies, localVars
<1>4. CASE AddUserStep(c) \/ Publish(c) \/ Notice(c)
  <2>1. /\ \E kind, l : Reply(c, kind, l)
        /\ UNCHANGED <<failed, reading, cmd>>
        /\ pc[c] \in {"addUser", "publish", "notice"}
    BY <1>4 DEF AddUserStep, Publish, Notice, localVars
  <2> QED BY <2>1, ReplyPlace DEF PlaceInv, Working
<1>5. CASE StorePublic(c) \/ CheckReceiver(c)
  <2>1. /\ \E ops : Takes(c, ops)
        /\ UNCHANGED <<failed, reading, undelivered, who>> /\ who[c] # NoLogin
        /\ \/ \E kind, l : Reply(c, kind, l)
           \/ SetPc(c, "snapshot") /\ UNCHANGED out
           \/ SetPc(c, "store") /\ UNCHANGED out /\ Head(lines[c]).login # NoLogin
    BY <1>5 DEF StorePublic, CheckReceiver, localVars
  <2>2. CASE \E kind, l : Reply(c, kind, l)
    BY <2>1, <2>2, TakesCommand, ReplyPlace
  <2>3. CASE SetPc(c, "snapshot") /\ UNCHANGED out
    BY <2>1, <2>3, TakesCommand DEF PlaceInv, Idling, SetPc, TypeInv, TypeOK, ThreadTypeOK
  <2>4. CASE SetPc(c, "store") /\ UNCHANGED out /\ Head(lines[c]).login # NoLogin
    BY <2>1, <2>4, TakesCommand DEF PlaceInv, Idling, SetPc, TypeInv, TypeOK, ThreadTypeOK
  <2> QED BY <2>1, <2>2, <2>3, <2>4
<1>6. CASE GetHistory(c) \/ GetPrivateHistory(c)
  <2>1. /\ \E ops : Takes(c, ops)
        /\ UNCHANGED <<failed, reading>>
        /\ (\E kind, l : Reply(c, kind, l)) \/ (\E rows, l : SendRows(c, rows, l))
    BY <1>6 DEF GetHistory, GetPrivateHistory, localVars
  <2> QED BY <2>1, TakesCommand, ReplyPlace, SendRowsPlace
<1>7. CASE Snapshot(c)
  <2>1. PICK sends : /\ out' = [out EXCEPT ![c] = sends]
                     /\ Resume(c, After(sends, <<>>, FALSE))
                     /\ UNCHANGED localVars /\ pc[c] = "snapshot"
    BY <1>7 DEF Snapshot
  <2> QED BY <2>1 DEF Resume, After, SetPc, PlaceInv, Idling, Working, localVars, TypeInv, TypeOK, ThreadTypeOK
<1>8. CASE StorePrivate(c)
  BY <1>8 DEF StorePrivate, SetPc, PlaceInv, Idling, Working, localVars, TypeInv, TypeOK, ThreadTypeOK
<1>9. CASE Route(c)
  <2>1. PICK sends : /\ out' = [out EXCEPT ![c] = sends]
                     /\ SetPc(c, After(sends, <<>>, TRUE))
                     /\ undelivered' = [undelivered EXCEPT ![c] = TRUE]
                     /\ UNCHANGED <<fd, reading, lines, who, cmd, failed>> /\ pc[c] = "route"
    BY <1>9 DEF Route
  <2> QED BY <2>1 DEF After, SetPc, PlaceInv, Idling, Working, TypeInv, TypeOK, ThreadTypeOK
<1>10. CASE Exit(c)
  BY <1>10 DEF Exit, Receives, PlaceInv, Idling, Working, localVars, TypeInv, TypeOK, ThreadTypeOK
<1>11. CASE SendNext(c)
  <2>1. PICK sends, closes, notice :
          /\ out' = [out EXCEPT ![c] = sends]
          /\ failed' = [failed EXCEPT ![c] = closes]
          /\ undelivered' = [undelivered EXCEPT ![c] = notice]
          /\ Resume(c, After(sends, closes, notice))
          /\ UNCHANGED <<fd, reading, lines, who>> /\ pc[c] = "send"
    BY <1>11 DEF SendNext
  <2> QED BY <2>1 DEF Resume, After, SetPc, PlaceInv, Idling, Working, TypeInv, TypeOK, ThreadTypeOK
<1>12. CASE Erase(c)
  BY <1>12 DEF Erase, SetPc, PlaceInv, Idling, Working, localVars, TypeInv, TypeOK, ThreadTypeOK
<1>13. CASE Close(c)
  <2>2. CASE cmd[c] = NoCommand
    <3>1. failed[c] = <<fd[c]>> /\ fd[c] \in Fds /\ failed' = [failed EXCEPT ![c] = Tail(failed[c])]
      BY <1>13, <2>2 DEF Close, PlaceInv, TypeInv, Shape
    <3>2. Tail(failed[c]) = <<>>
      BY <3>1
    <3>3. failed'[c] = <<>>
      BY <3>1, <3>2 DEF TypeInv, TypeOK, ThreadTypeOK
    <3> QED BY <1>13, <2>2, <3>3 DEF Close, SetPc, PlaceInv, Idling, Working, TypeInv, TypeOK, ThreadTypeOK
  <2>3. CASE cmd[c] # NoCommand
    BY <1>13, <2>3 DEF Close, Resume, After, SetPc, PlaceInv, Idling, Working, TypeInv, TypeOK, ThreadTypeOK
  <2> QED BY <2>2, <2>3
<1> QED BY <1>1, <1>2, <1>3, <1>4, <1>5, <1>6, <1>7, <1>8, <1>9, <1>10, <1>11, <1>12, <1>13
        DEF ThreadStep, HandlerStep, GetPrivateThrows, SigPipe

\* A connection that run has accepted has no thread yet.
Waiting == \A c \in Conns : incoming = c => pc[c] = "none"

LEMMA WaitingStep ==
  ASSUME TypeInv, ActiveInv, Waiting, [Next]_vars
  PROVE  Waiting'
<1>1. CASE Start \/ (SetClock /\ UNCHANGED <<serverVars, threadVars, peerVars>>) \/ UNCHANGED vars
  BY <1>1 DEF Start, vars, threadVars, serverVars, Waiting
<1>2. CASE Spawn \/ Terminate
  BY <1>2, ServerAssumption DEF Spawn, Terminate, Waiting
<1>3. ASSUME NEW c \in Conns, Accept(c) \/ PeerSends(c) \/ PeerCloses(c)
      PROVE  Waiting'
  BY <1>3 DEF Accept, PeerSends, PeerCloses, threadVars, serverVars, Waiting, ActiveInv
<1>4. ASSUME NEW c \in Conns, ThreadStep(c)
      PROVE  Waiting'
  <2>1. pc[c] # "none" /\ incoming' = incoming
    BY <1>4 DEF ThreadStep, HandlerStep, CallRecv, RecvData, RecvEnd, Register, AddUserStep,
              Authorize, Publish, Expecting, TooLong, StorePublic, Snapshot, CheckReceiver,
              StorePrivate, Route, Notice, GetUsers, GetHistory, GetPrivateHistory,
              GetPrivateThrows, Exit, UnknownCommand, SendNext, SigPipe, Erase, Close,
              JustReplies, Takes, Receives, serverVars
  <2> QED BY <1>4, <2>1, OthersKeepLocals DEF Waiting, SameLocals
<1> QED BY <1>1, <1>2, <1>3, <1>4 DEF Next, Kill, ThreadStep

LEMMA PlacesStep ==
  ASSUME TypeInv, ActiveInv, Waiting, Numbered, Places, [Next]_vars
  PROVE  Places'
<1> SUFFICES ASSUME NEW d \in Conns
             PROVE  PlaceInv(d)'
  BY DEF Places
<1>1. PlaceInv(d)
  BY DEF Places
<1>2. CASE Start \/ (SetClock /\ UNCHANGED <<serverVars, threadVars, peerVars>>) \/ UNCHANGED vars
  BY <1>1, <1>2 DEF Start, vars, threadVars, localVars, PlaceInv
<1>3. CASE Spawn
  BY <1>1, <1>3 DEF Spawn, Waiting, PlaceInv, Idling, Working, localVars, TypeInv, TypeOK, ThreadTypeOK
<1>4. CASE Terminate
  BY <1>1, <1>4 DEF Terminate, Live, PlaceInv, Idling, Working
<1>5. ASSUME NEW c \in Conns, Accept(c) \/ PeerSends(c) \/ PeerCloses(c)
      PROVE  PlaceInv(d)'
  <2>1. CASE PeerSends(c) \/ PeerCloses(c) \/ d # c
    BY <1>1, <1>5, <2>1 DEF Accept, PeerSends, PeerCloses, PlaceInv, threadVars, localVars,
                            TypeInv, TypeOK, ThreadTypeOK
  <2>2. CASE Accept(c) /\ d = c
    BY <1>1, <2>2 DEF Accept, PlaceInv, ActiveInv
  <2> QED BY <1>5, <2>1, <2>2
<1>6. ASSUME NEW c \in Conns, HandlerStep(c), ~Terminate
      PROVE  PlaceInv(d)'
  <2>1. CASE d = c
    BY <1>1, <1>6, <2>1, ThreadPlace DEF ThreadStep
  <2>2. CASE d # c
    <3>1. SameLocals(d)
      BY <1>6, <2>2, OthersKeepLocals DEF ThreadStep
    <3> QED BY <1>1, <3>1 DEF SameLocals, PlaceInv
  <2> QED BY <2>1, <2>2
<1> QED BY <1>2, <1>3, <1>4, <1>5, <1>6 DEF Next, Kill

-----------------------------------------------------------------------------
(* Whose a number is *)

Present(c) == Live(c) \/ incoming = c

Listed(f) == \E i \in DOMAIN clientSockets : clientSockets[i] = f

Holds(c, f) ==
  \/ Live(c) /\ fd[c] = f
  \/ \E s \in out[c] : s.fd = f
  \/ \E i \in DOMAIN failed[c] : failed[c][i] = f

\* No two threads have one number, and an open number is its thread's.
Distinct == \A c, d \in Conns : Present(c) /\ Present(d) /\ fd[c] = fd[d] => c = d

TableOwn == \A f \in Fds, k \in Conns : fdTable[f] = k => fd[k] = f /\ Present(k)

\* Nobody knows a number between accept and the start of its thread.
Fresh ==
  \A k \in Conns : incoming = k => fdTable[fd[k]] = k /\ \A c \in Conns : ~Holds(c, fd[k])

SocketsOwn ==
  \A i \in DOMAIN clientSockets : \E c \in Conns : Live(c) /\ fdTable[clientSockets[i]] = c

SocketsOnce ==
  \A i, j \in DOMAIN clientSockets : clientSockets[i] = clientSockets[j] => i = j

\* closeClients closes what it has erased, and nobody has entered it again.
ClosingGone == \A c \in Conns : pc[c] = "close" => ~Listed(Head(failed[c]))

LeavingGone ==
  \A c \in Conns : pc[c] = "close" /\ cmd[c] = NoCommand => clientLogins[fd[c]] = NoLogin

OwnInv ==
  /\ Distinct /\ TableOwn /\ Fresh /\ SocketsOwn /\ SocketsOnce /\ ClosingGone
  /\ LoginsHaveHandlers /\ LeavingGone

LEMMA HeldIsHolds ==
  ASSUME NEW f, NEW c \in Conns, Holds(c, f)
  PROVE  f \in HeldFds
<1>1. CASE Live(c) /\ fd[c] = f
  BY <1>1 DEF HeldFds
<1>2. CASE \E s \in out[c] : s.fd = f
  <2>1. f \in {s.fd : s \in out[c]}
    BY <1>2
  <2> QED BY <2>1 DEF HeldFds
<1>3. CASE \E i \in DOMAIN failed[c] : failed[c][i] = f
  <2>1. f \in Range(failed[c])
    BY <1>3 DEF Range
  <2>2. f \in UNION {Range(failed[d]) : d \in Conns}
    BY <2>1
  <2> QED BY <2>2 DEF HeldFds
<1> QED BY <1>1, <1>2, <1>3 DEF Holds

LEMMA RemoveAtEntries ==
  ASSUME NEW S, NEW s \in Seq(S), NEW i \in 1..Len(s)
  PROVE  /\ RemoveAt(s, i) \in Seq(S)
         /\ DOMAIN RemoveAt(s, i) = 1..(Len(s) - 1)
         /\ \A j \in 1..(Len(s) - 1) : RemoveAt(s, i)[j] = s[IF j < i THEN j ELSE j + 1]
<1>1. \A j \in 1..Len(s) : s[j] \in S
  BY ElementOfSeq
<1> DEFINE a == SubSeq(s, 1, i - 1)
           b == SubSeq(s, i + 1, Len(s))
<1>2. /\ a \in Seq(S) /\ Len(a) = i - 1 /\ \A j \in 1..(i - 1) : a[j] = s[j]
  BY <1>1, SubSeqProperties
<1>3. /\ b \in Seq(S) /\ Len(b) = Len(s) - i /\ \A j \in 1..(Len(s) - i) : b[j] = s[i + j]
  BY <1>1, SubSeqProperties
<1>4. RemoveAt(s, i) = a \o b
  BY DEF RemoveAt
<1> HIDE DEF a, b
<1>5. /\ a \o b \in Seq(S) /\ Len(a \o b) = Len(s) - 1
      /\ \A j \in 1..(Len(s) - 1) : (a \o b)[j] = IF j <= i - 1 THEN a[j] ELSE b[j - (i - 1)]
  <2>1. /\ a \o b \in Seq(S) /\ Len(a \o b) = Len(a) + Len(b)
        /\ \A j \in 1..(Len(a) + Len(b)) :
             (a \o b)[j] = IF j <= Len(a) THEN a[j] ELSE b[j - Len(a)]
    BY <1>2, <1>3, ConcatProperties, Zenon
  <2>2. Len(a) + Len(b) = Len(s) - 1 /\ Len(a) = i - 1
    BY <1>2, <1>3
  <2> QED BY <2>1, <2>2
<1>6. \A j \in 1..(Len(s) - 1) : (a \o b)[j] = s[IF j < i THEN j ELSE j + 1]
  BY <1>2, <1>3, <1>5
<1> QED BY <1>4, <1>5, <1>6

\* closeClients removes the one entry of the socket, and no other.
LEMMA ForgetSocketEntries ==
  ASSUME ServerTypeOK, SocketsOnce, NEW f, ForgetSocket(f)
  PROVE  /\ \A j \in DOMAIN clientSockets' : clientSockets'[j] # f
         /\ \A j \in DOMAIN clientSockets' : \E i \in DOMAIN clientSockets :
              clientSockets'[j] = clientSockets[i]
         /\ \A i \in DOMAIN clientSockets : clientSockets[i] # f =>
              \E j \in DOMAIN clientSockets' : clientSockets'[j] = clientSockets[i]
         /\ SocketsOnce'
<1>1. clientSockets \in Seq(Fds)
  BY DEF ServerTypeOK
<1>2. CASE ~Contains(clientSockets, f)
  BY <1>2 DEF ForgetSocket, SocketsOnce, Contains
<1>3. CASE Contains(clientSockets, f)
  <2>1. PICK i \in DOMAIN clientSockets :
          clientSockets[i] = f /\ clientSockets' = RemoveAt(clientSockets, i)
    BY <1>3 DEF ForgetSocket
  <2>2. i \in 1..Len(clientSockets) /\ DOMAIN clientSockets = 1..Len(clientSockets)
    BY <1>1, <2>1
  <2>3. /\ DOMAIN clientSockets' = 1..(Len(clientSockets) - 1)
        /\ \A j \in 1..(Len(clientSockets) - 1) :
             clientSockets'[j] = clientSockets[IF j < i THEN j ELSE j + 1]
    BY <1>1, <2>1, <2>2, RemoveAtEntries
  <2>4. \A j \in 1..(Len(clientSockets) - 1) :
          /\ (IF j < i THEN j ELSE j + 1) \in DOMAIN clientSockets
          /\ (IF j < i THEN j ELSE j + 1) # i
    BY <2>2
  <2>5. ASSUME NEW m \in DOMAIN clientSockets, clientSockets[m] # f
        PROVE  \E j \in DOMAIN clientSockets' : clientSockets'[j] = clientSockets[m]
    <3>1. CASE m < i
      BY <2>2, <2>3, <3>1
    <3>2. CASE m > i
      <4>1. m - 1 \in 1..(Len(clientSockets) - 1) /\ ~(m - 1 < i) /\ (m - 1) + 1 = m
        BY <2>2, <3>2
      <4> QED BY <2>3, <4>1
    <3> QED BY <2>1, <2>2, <2>5, <3>1, <3>2
  <2>6. SocketsOnce'
    BY <2>2, <2>3, <2>4 DEF SocketsOnce
  <2> QED BY <2>1, <2>3, <2>4, <2>5, <2>6 DEF SocketsOnce
<1> QED BY <1>2, <1>3

\* A private message goes to a socket entered under the receiver's login, and to the sender.
LEMMA RouteTargets ==
  ASSUME TypeInv, NEW c \in Conns, Route(c), NEW s \in out'[c]
  PROVE  s.fd = fd[c] \/ (s.fd \in Fds /\ clientLogins[s.fd] = cmd[c].login)
<1> DEFINE l == cmd[c].login
           first == {f \in Fds : clientLogins[f] = l
                       /\ \A g \in Fds : clientLogins[g] = l => f <= g}
           entry(at, f) == ToSend(<<0, at>>, f, "private", cmd[c].id, l)
           sends == {[entry(1, f) EXCEPT !.delivery = TRUE] : f \in first}
                      \cup (IF l # who[c] THEN {entry(2, fd[c])} ELSE {})
<1>1. out' = [out EXCEPT ![c] = sends]
  BY DEF Route
<1>2. s \in sends
  BY <1>1 DEF TypeInv, TypeOK, ThreadTypeOK
<1>3. CASE s = entry(2, fd[c])
  BY <1>3 DEF ToSend
<1>4. ASSUME NEW f \in first, s = [entry(1, f) EXCEPT !.delivery = TRUE]
      PROVE  s.fd = f
  BY <1>4 DEF ToSend
<1> QED BY <1>2, <1>3, <1>4

\* A thread gets to know a number only from the two tables.
LEMMA ThreadHolds ==
  ASSUME TypeInv, NEW c \in Conns, PlaceInv(c), ThreadStep(c), NEW f, Holds(c, f)'
  PROVE  Holds(c, f) \/ Listed(f) \/ (f \in Fds /\ clientLogins[f] # NoLogin)
<1>1. Live(c) /\ fd' = fd
  BY DEF ThreadStep, HandlerStep, CallRecv, RecvData, RecvEnd, Register, AddUserStep,
         Authorize, Publish, Expecting, TooLong, StorePublic, Snapshot, CheckReceiver,
         StorePrivate, Route, Notice, GetUsers, GetHistory, GetPrivateHistory,
         GetPrivateThrows, Exit, UnknownCommand, SendNext, SigPipe, Erase, Close,
         JustReplies, Takes, Receives, Live, localVars
<1>2. CASE fd[c] = f
  BY <1>1, <1>2 DEF Holds
<1>3. ASSUME NEW s \in out'[c], s.fd = f, s \notin out[c], f # fd[c]
      PROVE  Listed(f) \/ (f \in Fds /\ clientLogins[f] # NoLogin)
  <2>1. CASE Snapshot(c)
    <3>1. s \in {ToSend(<<0, i>>, clientSockets[i], "public", cmd[c].id, NoLogin) : i \in Targets(c)}
      BY <1>3, <2>1 DEF Snapshot, TypeInv, TypeOK, ThreadTypeOK
    <3> QED BY <1>3, <3>1 DEF ToSend, Targets, Listed
  <2>2. CASE Route(c)
    BY <1>3, <2>2, RouteTargets DEF PlaceInv, Route
  <2>3. CASE SendNext(c)
    BY <1>3, <2>3, SendNextMoves
  <2>4. CASE ~(Snapshot(c) \/ Route(c) \/ SendNext(c))
    <3>1. \/ out' = out
          \/ \E kind, l : Reply(c, kind, l)
          \/ \E rows, l : SendRows(c, rows, l)
      BY <2>4 DEF ThreadStep, HandlerStep, CallRecv, RecvData, RecvEnd, Register, AddUserStep,
         Authorize, Publish, Expecting, TooLong, StorePublic, CheckReceiver,
         StorePrivate, Notice, GetUsers, GetHistory, GetPrivateHistory,
         GetPrivateThrows, Exit, UnknownCommand, SigPipe, Erase, Close, JustReplies
    <3>2. ASSUME NEW kind, NEW l, Reply(c, kind, l)
          PROVE  s.fd = fd[c]
      BY <3>2 DEF Reply, ToSend, TypeInv, TypeOK, ThreadTypeOK
    <3>3. ASSUME NEW rows, NEW l, SendRows(c, rows, l)
          PROVE  s.fd = fd[c]
      BY <3>3 DEF SendRows, ToSend, TypeInv, TypeOK, ThreadTypeOK
    <3> QED BY <1>3, <3>1, <3>2, <3>3
  <2> QED BY <2>1, <2>2, <2>3, <2>4
<1>4. ASSUME NEW i \in DOMAIN failed'[c], failed'[c][i] = f
      PROVE  Holds(c, f)
  <2>1. failed[c] \in Seq(Fds)
    BY DEF TypeInv, TypeOK, ThreadTypeOK
  <2>2. CASE CallRecv(c) \/ RecvEnd(c)
    <3>1. failed'[c] = failed[c] \/ failed'[c] = <<fd[c]>>
      BY <2>2 DEF CallRecv, RecvEnd, TypeInv, TypeOK, ThreadTypeOK
    <3> QED BY <1>1, <1>4, <3>1 DEF Holds
  <2>3. CASE Close(c)
    <3>1. failed'[c] = Tail(failed[c]) /\ failed[c] # <<>>
      BY <2>3 DEF Close, TypeInv, TypeOK, ThreadTypeOK, Shape
    <3>2. i + 1 \in DOMAIN failed[c] /\ failed'[c][i] = failed[c][i + 1]
      BY <1>4, <2>1, <3>1
    <3> QED BY <1>4, <3>2 DEF Holds
  <2>4. CASE SendNext(c)
    <3>1. PICK s \in out[c] : failed'[c] = failed[c] \/ failed'[c] = Append(failed[c], s.fd)
      BY <2>4 DEF SendNext, TypeInv, TypeOK, ThreadTypeOK
    <3>2. s.fd \in Fds
      BY DEF TypeInv, TypeOK, ThreadTypeOK, PendingSend
    <3>3. (i \in DOMAIN failed[c] /\ failed'[c][i] = failed[c][i]) \/ failed'[c][i] = s.fd
      BY <1>4, <2>1, <3>1, <3>2
    <3> QED BY <1>4, <3>3 DEF Holds
  <2>5. CASE ~(CallRecv(c) \/ RecvEnd(c) \/ Close(c) \/ SendNext(c))
    <3>1. failed' = failed
      BY <2>5 DEF ThreadStep, HandlerStep, RecvData, Register, AddUserStep,
         Authorize, Publish, Expecting, TooLong, StorePublic, Snapshot, CheckReceiver,
         StorePrivate, Route, Notice, GetUsers, GetHistory, GetPrivateHistory,
         GetPrivateThrows, Exit, UnknownCommand, SigPipe, Erase, JustReplies, localVars
    <3> QED BY <1>4, <3>1 DEF Holds
  <2> QED BY <2>2, <2>3, <2>4, <2>5
<1>5. CASE Live(c)' /\ fd'[c] = f
  BY <1>1, <1>2, <1>5
<1>6. CASE \E s \in out'[c] : s.fd = f
  BY <1>2, <1>3, <1>6 DEF Holds
<1>7. CASE \E i \in DOMAIN failed'[c] : failed'[c][i] = f
  BY <1>4, <1>7
<1> QED BY <1>5, <1>6, <1>7 DEF Holds

-----------------------------------------------------------------------------
(* The kinds of step *)

\* Steps that touch neither the threads nor what they share.
Quiet == UNCHANGED <<clientSockets, clientLogins, fdTable, incoming, threadVars, wire, authed>>

LEMMA StepKinds ==
  ASSUME [Next]_vars
  PROVE  \/ Quiet \/ Terminate \/ Spawn
         \/ \E c \in Conns : Accept(c) \/ ThreadStep(c)
<1>1. CASE Start \/ (SetClock /\ UNCHANGED <<serverVars, threadVars, peerVars>>) \/ UNCHANGED vars
  BY <1>1 DEF Start, Quiet, vars, serverVars, threadVars, localVars, peerVars
<1>2. ASSUME NEW c \in Conns, PeerSends(c) \/ PeerCloses(c)
      PROVE  Quiet
  BY <1>2 DEF PeerSends, PeerCloses, Quiet, serverVars
<1> QED BY <1>1, <1>2 DEF Next, Kill, ThreadStep

\* What a thread may change of the state the threads share.
LEMMA ThreadShares ==
  ASSUME TypeInv, NEW c \in Conns, ThreadStep(c)
  PROVE  /\ Live(c) /\ fd' = fd /\ up' = up /\ incoming' = incoming
         /\ fdTable' = fdTable \/ Close(c)
         /\ clientSockets' = clientSockets \/ Erase(c)
         /\ clientLogins' = clientLogins \/ Erase(c) \/ Publish(c) \/ Exit(c)
         /\ who' = who \/ Exit(c) \/ Authorize(c) \/ Close(c)
<1> USE DEF ThreadStep
<1>1. Live(c) /\ fd' = fd /\ up' = up /\ incoming' = incoming
  BY DEF HandlerStep, CallRecv, RecvData, RecvEnd, Register, AddUserStep,
         Authorize, Publish, Expecting, TooLong, StorePublic, Snapshot, CheckReceiver,
         StorePrivate, Route, Notice, GetUsers, GetHistory, GetPrivateHistory,
         GetPrivateThrows, Exit, UnknownCommand, SendNext, SigPipe, Erase, Close,
         JustReplies, Takes, Receives, Live, localVars, serverVars
<1>2. /\ fdTable' = fdTable \/ Close(c)
      /\ clientSockets' = clientSockets \/ Erase(c)
      /\ clientLogins' = clientLogins \/ Erase(c) \/ Publish(c) \/ Exit(c)
  BY DEF HandlerStep, CallRecv, RecvData, RecvEnd, Register, AddUserStep,
         Authorize, Publish, Expecting, TooLong, StorePublic, Snapshot, CheckReceiver,
         StorePrivate, Route, Notice, GetUsers, GetHistory, GetPrivateHistory,
         GetPrivateThrows, Exit, UnknownCommand, SendNext, SigPipe, Erase, Close,
         JustReplies, serverVars
<1>3. who' = who \/ Exit(c) \/ Authorize(c) \/ Close(c)
  BY DEF HandlerStep, CallRecv, RecvData, RecvEnd, Register, AddUserStep,
         Publish, Expecting, TooLong, StorePublic, Snapshot, CheckReceiver,
         StorePrivate, Route, Notice, GetUsers, GetHistory, GetPrivateHistory,
         GetPrivateThrows, UnknownCommand, SendNext, SigPipe, Erase, JustReplies
<1> QED BY <1>1, <1>2, <1>3

\* A thread ends only by the close of its own socket.
LEMMA ThreadEnds ==
  ASSUME TypeInv, NEW c \in Conns, PlaceInv(c), ThreadStep(c), NEW d \in Conns, Live(d) \/ Live(d)'
  PROVE  \/ Live(d) /\ Live(d)'
         \/ /\ d = c /\ Close(c) /\ cmd[c] = NoCommand /\ ~Live(c)'
            /\ fdTable' = [fdTable EXCEPT ![fd[c]] = NoConn]
<1>1. CASE d # c
  BY <1>1, OthersKeepLocals DEF SameLocals, Live
<1>2. CASE d = c /\ Close(c) /\ cmd[c] = NoCommand
  <2>1. Head(failed[c]) = fd[c]
    BY <1>2 DEF Close, PlaceInv
  <2> QED BY <1>2, <2>1 DEF Close, SocketClose, SetPc, Live, TypeInv, TypeOK, ThreadTypeOK
<1>3. CASE d = c /\ ~(Close(c) /\ cmd[c] = NoCommand)
  <2>1. Live(c)
    BY ThreadShares
  <2>2. CASE Close(c)
    BY <1>3, <2>1, <2>2 DEF Close, Resume, After, SetPc, Live, TypeInv, TypeOK, ThreadTypeOK
  <2>3. CASE Snapshot(c)
    <3>1. PICK sends : Resume(c, After(sends, <<>>, FALSE))
      BY <2>3 DEF Snapshot
    <3> QED BY <1>3, <2>1, <3>1 DEF Resume, After, SetPc, Live, TypeInv, TypeOK, ThreadTypeOK
  <2>4. CASE Route(c)
    <3>1. PICK sends : SetPc(c, After(sends, <<>>, TRUE))
      BY <2>4 DEF Route
    <3> QED BY <1>3, <2>1, <3>1 DEF After, SetPc, Live, TypeInv, TypeOK, ThreadTypeOK
  <2>5. CASE SendNext(c)
    <3>1. PICK sends, closes, notice : Resume(c, After(sends, closes, notice))
      BY <2>5 DEF SendNext
    <3> QED BY <1>3, <2>1, <3>1 DEF Resume, After, SetPc, Live, TypeInv, TypeOK, ThreadTypeOK
  <2>6. CASE ~(Close(c) \/ Snapshot(c) \/ Route(c) \/ SendNext(c))
    <3>1. pc' = pc \/ \E to \in PCs \ {"none", "done"} : SetPc(c, to)
      BY <2>6 DEF ThreadStep, HandlerStep, CallRecv, RecvData, RecvEnd, Register, AddUserStep,
         Authorize, Publish, Expecting, TooLong, StorePublic, CheckReceiver,
         StorePrivate, Notice, GetUsers, GetHistory, GetPrivateHistory,
         GetPrivateThrows, Exit, UnknownCommand, SigPipe, Erase, JustReplies, Reply, SendRows, PCs
    <3> QED BY <1>3, <2>1, <3>1 DEF SetPc, Live, TypeInv, TypeOK, ThreadTypeOK
  <2> QED BY <2>2, <2>3, <2>4, <2>5, <2>6
<1> QED BY <1>1, <1>2, <1>3

-----------------------------------------------------------------------------
(* The invariant is kept *)

Base == TypeInv /\ ActiveInv /\ Waiting /\ Places /\ OwnInv

\* accept gives a number that is not open and that no thread holds.
LEMMA AcceptGives ==
  ASSUME Base, ~ReuseHeld, NEW c \in Conns, Accept(c)
  PROVE  \E f \in Fds :
           /\ fdTable[f] = NoConn /\ fdTable' = [fdTable EXCEPT ![f] = c]
           /\ fd' = [fd EXCEPT ![c] = f]
           /\ \A d \in Conns : ~Holds(d, f)
           /\ ~Present(c) /\ incoming = NoConn /\ incoming' = c /\ pc' = pc
           /\ UNCHANGED <<clientSockets, clientLogins, who, cmd, out, failed>>
<1>1. PICK f \in Fds : /\ fdTable[f] = NoConn /\ f \notin HeldFds
                       /\ fdTable' = [fdTable EXCEPT ![f] = c]
                       /\ fd' = [fd EXCEPT ![c] = f]
  BY DEF Accept
<1>2. \A d \in Conns : ~Holds(d, f)
  BY <1>1, HeldIsHolds
<1>3. ~Present(c)
  BY ServerAssumption DEF Accept, Base, ActiveInv, Present, Live
<1> QED BY <1>1, <1>2, <1>3 DEF Accept

LEMMA DistinctStep ==
  ASSUME Base, ~ReuseHeld, [Next]_vars
  PROVE  Distinct'
<1> USE DEF Base, OwnInv
<1>1. CASE Quiet
  BY <1>1 DEF Quiet, threadVars, localVars, Distinct, Present, Live
<1>2. CASE Terminate
  BY <1>2, ServerAssumption DEF Terminate, Distinct, Present, Live
<1>3. CASE Spawn
  BY <1>3, ServerAssumption DEF Spawn, localVars, Distinct, Present, Live, TypeInv, TypeOK, ThreadTypeOK
<1>4. ASSUME NEW c \in Conns, Accept(c)
      PROVE  Distinct'
  <2>1. PICK f \in Fds :
           /\ fd' = [fd EXCEPT ![c] = f]
           /\ \A d \in Conns : ~Holds(d, f)
           /\ incoming = NoConn /\ incoming' = c /\ pc' = pc
    BY <1>4, AcceptGives
  <2>2. \A d \in Conns \ {c} : Present(d)' => Present(d) /\ fd'[d] = fd[d] /\ fd[d] # f
    BY <2>1, ServerAssumption DEF Present, Live, Holds
  <2>3. fd'[c] = f
    BY <2>1 DEF TypeInv, TypeOK, ThreadTypeOK
  <2> QED BY <2>2, <2>3 DEF Distinct
<1>5. ASSUME NEW c \in Conns, ThreadStep(c)
      PROVE  Distinct'
  <2>1. \A d \in Conns : Present(d)' => Present(d)
    BY <1>5, ThreadShares, ThreadEnds DEF Present, Places
  <2> QED BY <1>5, <2>1, ThreadShares DEF Distinct
<1> QED BY <1>1, <1>2, <1>3, <1>4, <1>5, StepKinds

LEMMA TableOwnStep ==
  ASSUME Base, ~ReuseHeld, [Next]_vars
  PROVE  TableOwn'
<1> USE DEF Base, OwnInv
<1>1. CASE Quiet
  BY <1>1 DEF Quiet, threadVars, localVars, TableOwn, Present, Live
<1>2. CASE Terminate
  BY <1>2, ServerAssumption DEF Terminate, TableOwn
<1>3. CASE Spawn
  <2>1. fdTable' = fdTable /\ fd' = fd
    BY <1>3 DEF Spawn, localVars
  <2>2. \A k \in Conns : Present(k) => Present(k)'
    BY <1>3, ServerAssumption DEF Spawn, Present, Live, TypeInv, TypeOK, ThreadTypeOK
  <2> QED BY <2>1, <2>2 DEF TableOwn
<1>4. ASSUME NEW c \in Conns, Accept(c)
      PROVE  TableOwn'
  <2>1. PICK f \in Fds :
           /\ fdTable[f] = NoConn /\ fdTable' = [fdTable EXCEPT ![f] = c]
           /\ fd' = [fd EXCEPT ![c] = f]
           /\ ~Present(c) /\ incoming = NoConn /\ incoming' = c /\ pc' = pc
    BY <1>4, AcceptGives
  <2>2. SUFFICES ASSUME NEW g \in Fds, NEW k \in Conns, fdTable'[g] = k
                 PROVE  fd'[k] = g /\ Present(k)'
    BY DEF TableOwn
  <2>3. CASE g = f
    BY <2>1, <2>2, <2>3 DEF TypeInv, TypeOK, ThreadTypeOK, ServerTypeOK, Present
  <2>4. CASE g # f
    <3>1. fdTable[g] = k
      BY <2>1, <2>2, <2>4 DEF TypeInv, TypeOK, ServerTypeOK
    <3>2. fd[k] = g /\ Present(k)
      BY <3>1 DEF TableOwn
    <3> QED BY <2>1, <3>2, ServerAssumption DEF Present, Live, TypeInv, TypeOK, ThreadTypeOK
  <2> QED BY <2>3, <2>4
<1>5. ASSUME NEW c \in Conns, ThreadStep(c)
      PROVE  TableOwn'
  <2>1. SUFFICES ASSUME NEW g \in Fds, NEW k \in Conns, fdTable'[g] = k
                 PROVE  fd'[k] = g /\ Present(k)'
    BY DEF TableOwn
  <2>2. fdTable[g] = k
    BY <1>5, <2>1, ThreadShares, ServerAssumption DEF Close, SocketClose, TypeInv, TypeOK, ServerTypeOK
  <2>3. fd[k] = g /\ Present(k) /\ fd' = fd /\ incoming' = incoming
    BY <1>5, <2>2, ThreadShares DEF TableOwn
  <2>4. ~(fdTable' = [fdTable EXCEPT ![fd[k]] = NoConn])
    BY <2>1, <2>3, ServerAssumption DEF TypeInv, TypeOK, ServerTypeOK
  <2> QED BY <1>5, <2>3, <2>4, ThreadEnds DEF Present, Places
<1> QED BY <1>1, <1>2, <1>3, <1>4, <1>5, StepKinds

\* A number between accept and the start of its thread is in neither table.
LEMMA FreshUnlisted ==
  ASSUME Base, NEW k \in Conns, incoming = k
  PROVE  fd[k] \in Fds /\ ~Listed(fd[k]) /\ clientLogins[fd[k]] = NoLogin /\ ~Live(k)
<1> USE DEF Base, OwnInv
<1>1. ~Live(k) /\ fd[k] \in Fds /\ fdTable[fd[k]] = k
  BY DEF Waiting, Live, Fresh, TypeInv, Shape
<1>2. ~Listed(fd[k])
  BY <1>1 DEF Listed, SocketsOwn
<1>3. clientLogins[fd[k]] = NoLogin
  BY <1>1 DEF LoginsHaveHandlers, Distinct, Present
<1> QED BY <1>1, <1>2, <1>3

LEMMA FreshStep ==
  ASSUME Base, ~ReuseHeld, [Next]_vars
  PROVE  Fresh'
<1> USE DEF Base, OwnInv
<1>1. CASE Quiet
  BY <1>1 DEF Quiet, threadVars, localVars, Fresh, Holds, Live
<1>2. CASE Terminate \/ Spawn
  BY <1>2, ServerAssumption DEF Terminate, Spawn, Fresh
<1>3. ASSUME NEW c \in Conns, Accept(c)
      PROVE  Fresh'
  <2>1. PICK f \in Fds :
           /\ fdTable' = [fdTable EXCEPT ![f] = c]
           /\ fd' = [fd EXCEPT ![c] = f]
           /\ \A d \in Conns : ~Holds(d, f)
           /\ ~Present(c) /\ incoming' = c /\ pc' = pc /\ out' = out /\ failed' = failed
    BY <1>3, AcceptGives
  <2>2. fd'[c] = f /\ fdTable'[f] = c /\ \A d \in Conns \ {c} : fd'[d] = fd[d]
    BY <2>1 DEF TypeInv, TypeOK, ThreadTypeOK, ServerTypeOK
  <2>3. \A d \in Conns : ~Holds(d, f)'
    BY <2>1, <2>2 DEF Holds, Live, Present
  <2> QED BY <2>1, <2>2, <2>3 DEF Fresh
<1>4. ASSUME NEW c \in Conns, ThreadStep(c)
      PROVE  Fresh'
  <2>1. SUFFICES ASSUME NEW k \in Conns, incoming = k
                 PROVE  fdTable'[fd[k]] = k /\ \A d \in Conns : ~Holds(d, fd[k])'
    BY <1>4, ThreadShares DEF Fresh
  <2>2. fdTable[fd[k]] = k /\ fd[k] \in Fds /\ \A d \in Conns : ~Holds(d, fd[k])
    BY <2>1, FreshUnlisted DEF Fresh
  <2>3. fdTable'[fd[k]] = k
    <3>1. CASE Close(c)
      <4>1. failed[c] # <<>> /\ failed[c] \in Seq(Fds)
        BY <3>1 DEF Close, TypeInv, Shape, TypeOK, ThreadTypeOK
      <4>2. 1 \in DOMAIN failed[c] /\ Head(failed[c]) = failed[c][1]
        BY <4>1
      <4>3. Head(failed[c]) # fd[k]
        BY <2>2, <4>2 DEF Holds
      <4> QED BY <2>2, <3>1, <4>3 DEF Close, SocketClose, TypeInv, TypeOK, ServerTypeOK
    <3> QED BY <1>4, <2>2, <3>1, ThreadShares
  <2>4. ASSUME NEW d \in Conns
        PROVE  ~Holds(d, fd[k])'
    <3>1. CASE d = c
      BY <1>4, <2>1, <2>2, <3>1, ThreadShares, ThreadHolds, FreshUnlisted DEF Places
    <3>2. CASE d # c
      BY <1>4, <2>2, <3>2, OthersKeepLocals, ThreadShares DEF SameLocals, Holds, Live
    <3> QED BY <3>1, <3>2
  <2> QED BY <2>3, <2>4
<1> QED BY <1>1, <1>2, <1>3, <1>4, StepKinds

\* run enters the socket of a thread at the end of clientSockets.
LEMMA SpawnEnters ==
  ASSUME TypeInv, Spawn
  PROVE  /\ incoming \in Conns /\ fd[incoming] \in Fds
         /\ DOMAIN clientSockets' = DOMAIN clientSockets \cup {Len(clientSockets) + 1}
         /\ Len(clientSockets) + 1 \notin DOMAIN clientSockets
         /\ \A i \in DOMAIN clientSockets : clientSockets'[i] = clientSockets[i]
         /\ clientSockets'[Len(clientSockets) + 1] = fd[incoming]
         /\ \A k \in Conns : Live(k)' <=> Live(k) \/ k = incoming
<1>1. incoming \in Conns /\ fd[incoming] \in Fds
  BY DEF Spawn, TypeInv, TypeOK, ServerTypeOK, Shape
<1>2. clientSockets \in Seq(Fds) /\ clientSockets' = Append(clientSockets, fd[incoming])
  BY DEF Spawn, TypeInv, TypeOK, ServerTypeOK
<1>3. \A k \in Conns : Live(k)' <=> Live(k) \/ k = incoming
  BY DEF Spawn, Live, TypeInv, TypeOK, ThreadTypeOK
<1> QED BY <1>1, <1>2, <1>3

LEMMA SocketsOwnStep ==
  ASSUME Base, ~ReuseHeld, [Next]_vars
  PROVE  SocketsOwn'
<1> USE DEF Base, OwnInv
<1>1. CASE Quiet
  BY <1>1 DEF Quiet, threadVars, localVars, SocketsOwn, Live
<1>2. CASE Terminate
  BY <1>2 DEF Terminate, SocketsOwn
<1>3. CASE Spawn
  <2>1. fdTable' = fdTable
    BY <1>3 DEF Spawn
  <2>2. fdTable[fd[incoming]] = incoming
    BY <1>3, SpawnEnters DEF Fresh
  <2> QED BY <1>3, <2>1, <2>2, SpawnEnters DEF SocketsOwn
<1>4. ASSUME NEW c \in Conns, Accept(c)
      PROVE  SocketsOwn'
  <2>1. PICK f \in Fds :
           /\ fdTable[f] = NoConn /\ fdTable' = [fdTable EXCEPT ![f] = c]
           /\ pc' = pc /\ clientSockets' = clientSockets
    BY <1>4, AcceptGives
  <2>2. \A i \in DOMAIN clientSockets : fdTable'[clientSockets[i]] = fdTable[clientSockets[i]]
    BY <2>1, ServerAssumption DEF SocketsOwn, TypeInv, TypeOK, ServerTypeOK
  <2> QED BY <2>1, <2>2 DEF SocketsOwn, Live
<1>5. ASSUME NEW c \in Conns, ThreadStep(c)
      PROVE  SocketsOwn'
  <2>1. SUFFICES ASSUME NEW i \in DOMAIN clientSockets'
                 PROVE  \E d \in Conns : Live(d)' /\ fdTable'[clientSockets'[i]] = d
    BY DEF SocketsOwn
  <2>2. PICK j \in DOMAIN clientSockets : clientSockets'[i] = clientSockets[j]
    BY <1>5, <2>1, ThreadShares, ForgetSocketEntries DEF Erase, TypeInv, TypeOK
  <2>3. PICK d \in Conns : Live(d) /\ fdTable[clientSockets[j]] = d
    BY DEF SocketsOwn
  <2>4. clientSockets[j] \in Fds
    BY DEF TypeInv, TypeOK, ServerTypeOK
  <2>5. fdTable'[clientSockets[j]] = d
    <3>1. CASE Close(c)
      <4>1. clientSockets[j] # Head(failed[c])
        BY <3>1 DEF Close, ClosingGone, Listed
      <4> QED BY <2>3, <2>4, <3>1, <4>1 DEF Close, SocketClose, TypeInv, TypeOK, ServerTypeOK
    <3> QED BY <1>5, <2>3, <3>1, ThreadShares
  <2>6. fd[d] = clientSockets[j]
    BY <2>3, <2>4 DEF TableOwn
  <2>7. ~(fdTable' = [fdTable EXCEPT ![fd[d]] = NoConn])
    BY <2>4, <2>5, <2>6, ServerAssumption DEF TypeInv, TypeOK, ServerTypeOK
  <2>8. Live(d)'
    BY <1>5, <2>3, <2>7, ThreadEnds DEF Places
  <2> QED BY <2>2, <2>5, <2>8
<1> QED BY <1>1, <1>2, <1>3, <1>4, <1>5, StepKinds

LEMMA SocketsOnceStep ==
  ASSUME Base, ~ReuseHeld, [Next]_vars
  PROVE  SocketsOnce'
<1> USE DEF Base, OwnInv
<1>1. CASE clientSockets' = clientSockets
  BY <1>1 DEF SocketsOnce
<1>2. CASE Terminate
  BY <1>2 DEF Terminate, SocketsOnce
<1>3. CASE Spawn
  <2>1. ~Listed(fd[incoming])
    BY <1>3, SpawnEnters, FreshUnlisted
  <2> QED BY <1>3, <2>1, SpawnEnters DEF SocketsOnce, Listed
<1>4. ASSUME NEW c \in Conns, Erase(c)
      PROVE  SocketsOnce'
  BY <1>4, ForgetSocketEntries DEF Erase, TypeInv, TypeOK
<1>5. ASSUME NEW c \in Conns, Accept(c) \/ ThreadStep(c)
      PROVE  clientSockets' = clientSockets \/ Erase(c)
  BY <1>5, ThreadShares DEF Accept
<1> QED BY <1>1, <1>2, <1>3, <1>4, <1>5, StepKinds DEF Quiet

\* A thread comes to the close from the erase, and leaves it at once.
LEMMA ComesToClose ==
  ASSUME TypeInv, NEW c \in Conns, ThreadStep(c), pc'[c] = "close"
  PROVE  Erase(c)
<1>1. ASSUME NEW sends, NEW closes, NEW notice
      PROVE  After(sends, closes, notice) # "close"
  BY DEF After
<1>2. CASE Snapshot(c) \/ Route(c) \/ SendNext(c) \/ Close(c)
  <2>1. \/ \E sends, closes, notice : SetPc(c, After(sends, closes, notice))
        \/ SetPc(c, "done")
    BY <1>2, Zenon DEF Snapshot, Route, SendNext, Close, Resume
  <2> QED BY <1>1, <2>1 DEF SetPc, TypeInv, TypeOK, ThreadTypeOK
<1>3. CASE ~(Snapshot(c) \/ Route(c) \/ SendNext(c) \/ Close(c) \/ Erase(c))
  BY <1>3 DEF ThreadStep, HandlerStep, CallRecv, RecvData, RecvEnd, Register, AddUserStep, Authorize,
         Publish, Expecting, TooLong, StorePublic, CheckReceiver,
         StorePrivate, Notice, GetUsers, GetHistory, GetPrivateHistory,
         GetPrivateThrows, Exit, UnknownCommand, SigPipe, JustReplies, Takes, Receives,
         Reply, SendRows, SetPc, TypeInv, TypeOK, ThreadTypeOK
<1> QED BY <1>2, <1>3

LEMMA ClosingGoneStep ==
  ASSUME Base, ~ReuseHeld, [Next]_vars
  PROVE  ClosingGone'
<1> USE DEF Base, OwnInv
<1>1. CASE Quiet
  BY <1>1 DEF Quiet, threadVars, localVars, ClosingGone, Listed
<1>2. CASE Terminate
  BY <1>2 DEF Terminate, ClosingGone, Listed
<1>3. CASE Spawn
  <2>1. SUFFICES ASSUME NEW d \in Conns, pc'[d] = "close", Listed(Head(failed[d]))'
                 PROVE  FALSE
    BY DEF ClosingGone
  <2>2. pc[d] = "close" /\ failed' = failed
    BY <1>3, <2>1 DEF Spawn, localVars, TypeInv, TypeOK, ThreadTypeOK
  <2>3. failed[d] # <<>> /\ failed[d] \in Seq(Fds)
    BY <2>2 DEF TypeInv, Shape, TypeOK, ThreadTypeOK
  <2>4. 1 \in DOMAIN failed[d] /\ Head(failed[d]) = failed[d][1]
    BY <2>3
  <2>5. Head(failed[d]) # fd[incoming]
    BY <1>3, <2>4, SpawnEnters DEF Fresh, Holds
  <2> QED BY <1>3, <2>1, <2>2, <2>5, SpawnEnters DEF ClosingGone, Listed
<1>4. ASSUME NEW c \in Conns, Accept(c)
      PROVE  ClosingGone'
  BY <1>4, AcceptGives DEF ClosingGone, Listed
<1>5. ASSUME NEW c \in Conns, ThreadStep(c)
      PROVE  ClosingGone'
  <2>1. SUFFICES ASSUME NEW d \in Conns, pc'[d] = "close"
                 PROVE  ~Listed(Head(failed[d]))'
    BY DEF ClosingGone
  <2>2. CASE d # c
    <3>1. pc[d] = "close" /\ failed'[d] = failed[d]
      BY <1>5, <2>1, <2>2, OthersKeepLocals DEF SameLocals
    <3>2. ~Listed(Head(failed[d]))
      BY <3>1 DEF ClosingGone
    <3> QED BY <1>5, <3>1, <3>2, ThreadShares, ForgetSocketEntries DEF Listed, Erase, TypeInv, TypeOK
  <2>3. CASE d = c
    <3>1. Erase(c)
      BY <1>5, <2>1, <2>3, ComesToClose
    <3>2. failed' = failed /\ ForgetSocket(Head(failed[c]))
      BY <3>1 DEF Erase, localVars
    <3> QED BY <2>3, <3>2, ForgetSocketEntries DEF Listed, TypeInv, TypeOK
  <2> QED BY <2>2, <2>3
<1> QED BY <1>1, <1>2, <1>3, <1>4, <1>5, StepKinds

LEMMA HandlersStep ==
  ASSUME Base, ~ReuseHeld, [Next]_vars
  PROVE  LoginsHaveHandlers'
<1> USE DEF Base, OwnInv
<1>1. CASE Quiet
  BY <1>1 DEF Quiet, threadVars, localVars, LoginsHaveHandlers, Live
<1>2. CASE Terminate
  BY <1>2 DEF Terminate, LoginsHaveHandlers
<1>3. CASE Spawn
  BY <1>3, SpawnEnters DEF Spawn, localVars, LoginsHaveHandlers
<1>4. ASSUME NEW c \in Conns, Accept(c)
      PROVE  LoginsHaveHandlers'
  <2>1. /\ ~Live(c) /\ pc' = pc /\ who' = who /\ clientLogins' = clientLogins
        /\ \A d \in Conns \ {c} : fd'[d] = fd[d]
    BY <1>4, AcceptGives DEF Present, TypeInv, TypeOK, ThreadTypeOK
  <2> QED BY <2>1 DEF LoginsHaveHandlers, Live
<1>5. ASSUME NEW c \in Conns, ThreadStep(c)
      PROVE  LoginsHaveHandlers'
  <2>1. SUFFICES ASSUME NEW f \in Fds, clientLogins'[f] # NoLogin
                 PROVE  \E d \in Conns : Live(d)' /\ fd'[d] = f /\ who'[d] = clientLogins'[f]
    BY DEF LoginsHaveHandlers
  <2>2. CASE Publish(c) /\ f = fd[c]
    <3>1. clientLogins'[f] = who[c] /\ who'[c] = who[c] /\ pc'[c] = "send" /\ fd'[c] = f
      BY <2>2 DEF Publish, Reply, SetPc, localVars, TypeInv, TypeOK, ServerTypeOK, ThreadTypeOK
    <3> QED BY <3>1 DEF Live
  <2>3. CASE ~(Publish(c) /\ f = fd[c])
    <3>1. clientLogins'[f] = clientLogins[f]
      BY <1>5, <2>1, <2>3, ThreadShares
         DEF Erase, Publish, Exit, ForgetLogin, TypeInv, TypeOK, ServerTypeOK
    <3>2. PICK d \in Conns : Live(d) /\ fd[d] = f /\ who[d] = clientLogins[f]
      BY <2>1, <3>1 DEF LoginsHaveHandlers
    <3>3. CASE d # c
      BY <1>5, <3>1, <3>2, <3>3, OthersKeepLocals DEF SameLocals, Live
    <3>4. CASE d = c
      <4>1. ~Exit(c)
        BY <2>1, <3>2, <3>4 DEF Exit, ForgetLogin, TypeInv, TypeOK, ServerTypeOK
      <4>2. ~Authorize(c)
        BY <2>1, <3>1, <3>2, <3>4 DEF Authorize
      <4>3. ~(Close(c) /\ cmd[c] = NoCommand)
        BY <2>1, <3>1, <3>2, <3>4 DEF Close, LeavingGone
      <4>4. who'[c] = who[c]
        BY <1>5, <4>1, <4>2, <4>3, ThreadShares DEF Close
      <4>5. Live(c)' /\ fd' = fd
        BY <1>5, <3>2, <3>4, <4>3, ThreadEnds, ThreadShares DEF Places
      <4> QED BY <3>1, <3>2, <3>4, <4>4, <4>5
    <3> QED BY <3>3, <3>4
  <2> QED BY <2>2, <2>3
<1> QED BY <1>1, <1>2, <1>3, <1>4, <1>5, StepKinds

LEMMA LeavingGoneStep ==
  ASSUME Base, ~ReuseHeld, [Next]_vars
  PROVE  LeavingGone'
<1> USE DEF Base, OwnInv
<1>1. CASE Quiet
  BY <1>1 DEF Quiet, threadVars, localVars, LeavingGone
<1>2. CASE Terminate
  BY <1>2 DEF Terminate, LeavingGone, Live
<1>3. CASE Spawn
  BY <1>3 DEF Spawn, localVars, LeavingGone, TypeInv, TypeOK, ThreadTypeOK
<1>4. ASSUME NEW c \in Conns, Accept(c)
      PROVE  LeavingGone'
  <2>1. /\ ~Live(c) /\ pc' = pc /\ cmd' = cmd /\ clientLogins' = clientLogins
        /\ \A d \in Conns \ {c} : fd'[d] = fd[d]
    BY <1>4, AcceptGives DEF Present, TypeInv, TypeOK, ThreadTypeOK
  <2> QED BY <2>1, Zenon DEF LeavingGone, Live
<1>5. ASSUME NEW c \in Conns, ThreadStep(c)
      PROVE  LeavingGone'
  <2>1. SUFFICES ASSUME NEW d \in Conns, pc'[d] = "close", cmd'[d] = NoCommand
                 PROVE  clientLogins'[fd[d]] = NoLogin
    BY <1>5, ThreadShares DEF LeavingGone
  <2>2. CASE d = c
    <3>1. Erase(c) /\ cmd[c] = NoCommand
      BY <1>5, <2>1, <2>2, ComesToClose DEF Erase
    <3>2. Head(failed[c]) = fd[c] /\ fd[c] \in Fds
      BY <3>1 DEF Erase, Places, PlaceInv, TypeInv, Shape
    <3> QED BY <2>2, <3>1, <3>2 DEF Erase, ForgetLogin, TypeInv, TypeOK, ServerTypeOK
  <2>3. CASE d # c
    <3>1. pc[d] = "close" /\ cmd[d] = NoCommand
      BY <1>5, <2>1, <2>3, OthersKeepLocals DEF SameLocals
    <3>2. clientLogins[fd[d]] = NoLogin /\ fd[d] \in Fds
      BY <3>1 DEF LeavingGone, TypeInv, Shape
    <3>3. fd[d] # fd[c]
      BY <1>5, <2>3, <3>1, ThreadShares DEF Distinct, Present, Live
    <3> QED BY <1>5, <3>2, <3>3, ThreadShares
            DEF Erase, Publish, Exit, ForgetLogin, TypeInv, TypeOK, ServerTypeOK
  <2> QED BY <2>2, <2>3
<1> QED BY <1>1, <1>2, <1>3, <1>4, <1>5, StepKinds

-----------------------------------------------------------------------------
(* Theorems about the two tables *)

LEMMA InitBase == Init => Base /\ InboxInv /\ Numbered
<1> SUFFICES ASSUME Init PROVE Base /\ InboxInv /\ Numbered
  OBVIOUS
<1>1. TypeInv
  BY InitType
<1>2. ActiveInv /\ Waiting /\ InboxInv /\ Numbered
  BY ServerAssumption DEF Init, ActiveInv, Waiting, InboxInv, Numbered
<1>3. Places
  BY DEF Init, Places, PlaceInv, Working
<1>4. OwnInv
  BY ServerAssumption DEF Init, OwnInv, Distinct, TableOwn, Fresh, SocketsOwn, SocketsOnce,
                          ClosingGone, LoginsHaveHandlers, LeavingGone, Present, Live
<1> QED BY <1>1, <1>2, <1>3, <1>4 DEF Base

LEMMA StepBase ==
  ASSUME Base, InboxInv, Numbered, ~ReuseHeld, [Next]_vars
  PROVE  (Base /\ InboxInv /\ Numbered)'
<1>1. TypeInv' /\ ActiveInv' /\ Waiting' /\ InboxInv' /\ Numbered' /\ Places'
  BY StepType, ActiveStep, WaitingStep, InboxStep, NumberedStep, PlacesStep DEF Base
<1>2. OwnInv'
  BY DistinctStep, TableOwnStep, FreshStep, SocketsOwnStep, SocketsOnceStep, ClosingGoneStep,
     HandlersStep, LeavingGoneStep DEF OwnInv
<1> QED BY <1>1, <1>2 DEF Base

\* While accept returns no number a thread still holds, every number has one owner:
\* what the descriptor table, run and the threads' locals say of it agrees.
LEMMA Owned == ~ReuseHeld => (Spec => [](Base /\ InboxInv /\ Numbered))
<1> SUFFICES ASSUME ~ReuseHeld
             PROVE  Spec => [](Base /\ InboxInv /\ Numbered)
  OBVIOUS
<1>1. Base /\ InboxInv /\ Numbered /\ [Next]_vars => (Base /\ InboxInv /\ Numbered)'
  BY StepBase
<1> QED BY <1>1, InitBase, PTL DEF Spec

\* While accept returns no number a thread still holds, clientSockets has no
\* duplicate and every socket in it is open: run enters a number nobody else knows,
\* and closeClients erases an entry before it closes the number.
THEOREM OpenSockets == ~ReuseHeld => (Spec => []SocketsAreOpen)
<1> SUFFICES ASSUME ~ReuseHeld
             PROVE  Spec => []SocketsAreOpen
  OBVIOUS
<1>1. Base => SocketsAreOpen
  BY ServerAssumption DEF Base, OwnInv, SocketsOwn, SocketsOnce, SocketsAreOpen
<1> QED BY <1>1, Owned, PTL

\* While accept returns no number a thread still holds, every entry of clientLogins
\* belongs to a live thread that is logged in as that user: Exit and closeClients
\* take the entry away before the thread ends.
THEOREM LoginsHandled == ~ReuseHeld => (Spec => []LoginsHaveHandlers)
<1> SUFFICES ASSUME ~ReuseHeld
             PROVE  Spec => []LoginsHaveHandlers
  OBVIOUS
<1>1. Base => LoginsHaveHandlers
  BY DEF Base, OwnInv
<1> QED BY <1>1, Owned, PTL

\* Once it has published its login, a thread whose socket is listed finds its own
\* login in clientLogins, whatever it is doing.
Agreement ==
  \A c \in Conns : Live(c) /\ pc[c] # "publish" /\ Listed(fd[c]) => clientLogins[fd[c]] = who[c]

LEMMA AgreementStep ==
  ASSUME Base, ~ReuseHeld, Agreement, [Next]_vars
  PROVE  Agreement'
<1> USE DEF Base, OwnInv
<1>1. CASE Quiet
  BY <1>1 DEF Quiet, threadVars, localVars, Agreement, Live, Listed
<1>2. CASE Terminate
  BY <1>2 DEF Terminate, Agreement, Listed
<1>3. CASE Spawn
  <2>1. SUFFICES ASSUME NEW d \in Conns, Live(d)', pc'[d] # "publish", Listed(fd[d])'
                 PROVE  clientLogins[fd[d]] = who[d]
    BY <1>3 DEF Agreement, Spawn, localVars
  <2>2. CASE d = incoming
    BY <1>3, <2>2, FreshUnlisted DEF Waiting, Places, PlaceInv
  <2>3. CASE d # incoming
    <3>1. Live(d) /\ pc[d] # "publish"
      BY <1>3, <2>1, <2>3 DEF Spawn, Live, TypeInv, TypeOK, ThreadTypeOK
    <3>2. fd[d] # fd[incoming]
      BY <1>3, <2>3, <3>1, SpawnEnters DEF Distinct, Present
    <3>3. Listed(fd[d])
      BY <1>3, <2>1, <3>2, SpawnEnters DEF Listed, Spawn, localVars
    <3> QED BY <3>1, <3>3 DEF Agreement
  <2> QED BY <2>2, <2>3
<1>4. ASSUME NEW c \in Conns, Accept(c)
      PROVE  Agreement'
  <2>1. /\ ~Live(c) /\ pc' = pc /\ who' = who /\ UNCHANGED <<clientLogins, clientSockets>>
        /\ \A d \in Conns \ {c} : fd'[d] = fd[d]
    BY <1>4, AcceptGives DEF Present, TypeInv, TypeOK, ThreadTypeOK
  <2> QED BY <2>1 DEF Agreement, Live, Listed
<1>5. ASSUME NEW c \in Conns, ThreadStep(c)
      PROVE  Agreement'
  <2>1. SUFFICES ASSUME NEW d \in Conns, Live(d)', pc'[d] # "publish", Listed(fd[d])'
                 PROVE  clientLogins'[fd[d]] = who'[d]
    BY <1>5, ThreadShares DEF Agreement
  <2>2. fd' = fd /\ Live(d) /\ Live(c) /\ fd[d] \in Fds
    BY <1>5, <2>1, ThreadShares, ThreadEnds DEF Places, Live, TypeInv, Shape
  <2>3. Listed(fd[d])
    BY <1>5, <2>1, <2>2, ThreadShares, ForgetSocketEntries DEF Listed, Erase, TypeInv, TypeOK
  <2>4. Erase(c) => Head(failed[c]) # fd[d]
    BY <2>1, <2>2, ForgetSocketEntries DEF Listed, Erase, TypeInv, TypeOK
  <2>5. Erase(c) => clientLogins'[fd[d]] = clientLogins[fd[d]]
    BY <2>2, <2>4 DEF Erase, ForgetLogin, TypeInv, TypeOK, ServerTypeOK
  <2>6. CASE d # c
    <3>1. fd[d] # fd[c]
      BY <2>2, <2>6 DEF Distinct, Present
    <3>2. clientLogins'[fd[d]] = clientLogins[fd[d]]
      BY <1>5, <2>2, <2>5, <3>1, ThreadShares
         DEF Publish, Exit, ForgetLogin, TypeInv, TypeOK, ServerTypeOK
    <3> QED BY <1>5, <2>1, <2>2, <2>3, <2>6, <3>2, OthersKeepLocals DEF SameLocals, Agreement
  <2>7. CASE d = c
    <3>1. CASE Publish(c) \/ Exit(c)
      BY <2>2, <2>7, <3>1
         DEF Publish, Exit, ForgetLogin, TypeInv, TypeOK, ServerTypeOK, ThreadTypeOK
    <3>2. CASE Authorize(c)
      BY <2>1, <2>2, <2>3, <2>7, <3>2
         DEF Authorize, SetPc, Takes, Receives, serverVars, Agreement, TypeInv, TypeOK, ThreadTypeOK
    <3>3. CASE ~(Publish(c) \/ Exit(c) \/ Authorize(c))
      <4>1. who' = who
        BY <1>5, <2>1, <2>7, <3>3, ThreadShares
           DEF Close, SetPc, Live, TypeInv, TypeOK, ThreadTypeOK
      <4>2. pc[c] # "publish"
        BY <1>5, <3>3 DEF ThreadStep, HandlerStep, CallRecv, RecvData, RecvEnd, Register,
           AddUserStep, Expecting, TooLong, StorePublic, Snapshot, CheckReceiver, StorePrivate,
           Route, Notice, GetUsers, GetHistory, GetPrivateHistory, GetPrivateThrows,
           UnknownCommand, SendNext, SigPipe, Erase, Close, JustReplies, Takes, Receives
      <4>3. clientLogins'[fd[d]] = clientLogins[fd[d]]
        BY <1>5, <2>5, <3>3, ThreadShares
      <4> QED BY <2>2, <2>3, <2>7, <4>1, <4>2, <4>3 DEF Agreement
    <3> QED BY <3>1, <3>2, <3>3
  <2> QED BY <2>6, <2>7
<1> QED BY <1>1, <1>2, <1>3, <1>4, <1>5, StepKinds

\* While accept returns no number a thread still holds, the thread's own login and
\* the shared clientLogins agree between commands, as long as its socket is listed:
\* handleAuthorization writes one and then the other, and closeClients, which any
\* thread may call for it, takes the socket out of both tables at once.
THEOREM SessionsAgree == ~ReuseHeld => (Spec => []SessionAgreement)
<1> SUFFICES ASSUME ~ReuseHeld
             PROVE  Spec => []SessionAgreement
  OBVIOUS
<1>1. Init => Agreement
  BY DEF Init, Agreement, Listed
<1>2. Base /\ Agreement /\ [Next]_vars => Agreement'
  BY AgreementStep
<1>3. Base /\ Agreement => SessionAgreement
  <2> SUFFICES ASSUME Base, Agreement, NEW c \in Conns, pc[c] \in {"recv", "wait"},
                      Contains(clientSockets, fd[c])
               PROVE  clientLogins[fd[c]] = who[c]
    BY DEF SessionAgreement
  <2>1. Listed(fd[c])
    BY DEF Contains, Listed, Base, TypeInv, TypeOK, ServerTypeOK
  <2> QED BY <2>1 DEF Agreement, Live
<1> QED BY <1>1, <1>2, <1>3, Owned, PTL DEF Spec

-----------------------------------------------------------------------------
(* Whose are the lines a thread handles, and who has proved what *)

\* A thread reads its own connection, and what it handles was written there.
OwnRead ==
  \A c \in Conns :
    /\ reading[c] \in {c, NoConn}
    /\ \A i \in DOMAIN lines[c] : lines[c][i].id[1] = c
    /\ cmd[c] = NoCommand \/ cmd[c].id[1] = c

WhoProved == \A c \in Conns : who[c] # NoLogin => who[c] \in authed[c]

LEMMA OwnReading ==
  ASSUME Base, [Next]_vars, NEW c \in Conns, reading[c] \in {c, NoConn}
  PROVE  reading'[c] \in {c, NoConn}
<1> USE DEF Base, OwnInv
<1>1. CASE Quiet \/ Terminate \/ Spawn
  BY <1>1 DEF Quiet, Terminate, Spawn, threadVars, localVars
<1>2. ASSUME NEW d \in Conns, Accept(d)
      PROVE  reading' = reading
  BY <1>2 DEF Accept
<1>3. ASSUME NEW d \in Conns, ThreadStep(d), d # c
      PROVE  reading'[c] = reading[c]
  BY <1>3, OthersKeepLocals DEF SameLocals
<1>4. CASE ThreadStep(c) /\ ~CallRecv(c)
  <2>1. UNCHANGED reading \/ reading' = [reading EXCEPT ![c] = NoConn]
    BY <1>4 DEF ThreadStep, HandlerStep, RecvData, RecvEnd, Register, AddUserStep, Authorize,
            Publish, Expecting, TooLong, StorePublic, Snapshot, CheckReceiver, StorePrivate,
            Route, Notice, GetUsers, GetHistory, GetPrivateHistory, GetPrivateThrows, Exit,
            UnknownCommand, SendNext, SigPipe, Erase, Close, JustReplies, localVars
  <2> QED BY <2>1 DEF TypeInv, TypeOK, ThreadTypeOK
<1>5. CASE CallRecv(c) /\ reading'[c] # reading[c]
  <2>1. reading'[c] = fdTable[fd[c]] /\ fd[c] \in Fds /\ Live(c) /\ fdTable[fd[c]] \in Conns
    BY <1>5 DEF CallRecv, Live, TypeInv, TypeOK, Shape, ThreadTypeOK, ServerTypeOK
  <2>2. fd[reading'[c]] = fd[c] /\ Present(reading'[c])
    BY <2>1 DEF TableOwn
  <2> QED BY <2>1, <2>2 DEF Distinct, Present
<1> QED BY <1>1, <1>2, <1>3, <1>4, <1>5, StepKinds

LEMMA OwnReadStep ==
  ASSUME Base, InboxInv, OwnRead, [Next]_vars
  PROVE  OwnRead'
<1> SUFFICES ASSUME NEW c \in Conns
             PROVE  /\ reading'[c] \in {c, NoConn}
                    /\ \A i \in DOMAIN lines'[c] : lines'[c][i].id[1] = c
                    /\ cmd'[c] = NoCommand \/ cmd'[c].id[1] = c
  BY DEF OwnRead
<1>1. reading'[c] \in {c, NoConn}
  BY OwnReading DEF OwnRead
<1>2. lines[c] \in Seq(Command)
  BY DEF Base, TypeInv, TypeOK, ThreadTypeOK
<1>3. ASSUME NEW i \in DOMAIN lines'[c]
      PROVE  lines'[c][i].id[1] = c
  <2>1. CASE lines'[c] = lines[c] \/ lines'[c] = <<>>
    BY <1>3, <2>1 DEF OwnRead
  <2>2. CASE lines[c] # <<>> /\ lines'[c] = Tail(lines[c])
    <3>1. i + 1 \in DOMAIN lines[c] /\ lines'[c][i] = lines[c][i + 1]
      BY <1>2, <1>3, <2>2
    <3> QED BY <3>1 DEF OwnRead
  <2>3. CASE FromInbox(c)
    <3>1. reading[c] = c
      BY <2>3, ServerAssumption DEF OwnRead, FromInbox
    <3> QED BY <1>3, <2>3, <3>1 DEF InboxInv, FromInbox
  <2> QED BY <2>1, <2>2, <2>3, LinesFrom DEF Base
<1>4. cmd'[c] = NoCommand \/ cmd'[c].id[1] = c
  <2>1. CASE lines[c] # <<>> /\ cmd'[c] = Head(lines[c])
    <3>1. 1 \in DOMAIN lines[c] /\ cmd'[c] = lines[c][1]
      BY <1>2, <2>1
    <3> QED BY <3>1 DEF OwnRead
  <2> QED BY <2>1, CmdFrom DEF Base, OwnRead
<1> QED BY <1>1, <1>3, <1>4

\* What has been proved stays proved; only Authorize adds to it.
LEMMA AuthedStep ==
  ASSUME TypeInv, [Next]_vars
  PROVE  /\ authed' = authed \/ \E c \in Conns : Authorize(c)
         /\ \A k \in Conns : authed[k] \subseteq authed'[k]
<1>1. authed' = authed \/ \E c \in Conns : Authorize(c)
  <2>1. CASE Quiet \/ Terminate \/ Spawn
    BY <2>1 DEF Quiet, Terminate, Spawn, peerVars
  <2>2. ASSUME NEW c \in Conns, Accept(c)
        PROVE  authed' = authed
    BY <2>2 DEF Accept
  <2>3. ASSUME NEW c \in Conns, ThreadStep(c)
        PROVE  authed' = authed \/ Authorize(c)
    BY <2>3 DEF ThreadStep, HandlerStep, CallRecv, RecvData, RecvEnd, Register, AddUserStep,
            Publish, Expecting, TooLong, StorePublic, Snapshot, CheckReceiver, StorePrivate,
            Route, Notice, GetUsers, GetHistory, GetPrivateHistory, GetPrivateThrows, Exit,
            UnknownCommand, SendNext, SigPipe, Erase, Close, JustReplies, peerVars
  <2> QED BY <2>1, <2>2, <2>3, StepKinds
<1>2. ASSUME NEW c \in Conns, Authorize(c), NEW k \in Conns
      PROVE  authed[k] \subseteq authed'[k]
  BY <1>2 DEF Authorize, TypeInv, TypeOK, PeerTypeOK
<1> QED BY <1>1, <1>2

\* A password that verifies is the account's.
LEMMA VerifiedProves ==
  ASSUME DbTypeOK, NEW m, VerifyUser(m.login, m.password, TRUE)
  PROVE  Proves(m)
<1>1. PICK i \in DOMAIN users :
        users[i].login = m.login /\ VerifyPassword(m.password, users[i].password)
  BY DEF VerifyUser, Verified
<1>2. users[i] \in UserRow
  BY DEF DbTypeOK
<1>3. users[i] = [login |-> m.login, password |-> m.password]
  BY <1>1, <1>2 DEF UserRow, VerifyPassword
<1> QED BY <1>3 DEF Proves, Range

LEMMA WhoProvedStep ==
  ASSUME Base, InboxInv, OwnRead, WhoProved, [Next]_vars
  PROVE  WhoProved'
<1> SUFFICES ASSUME NEW d \in Conns, who'[d] # NoLogin
             PROVE  who'[d] \in authed'[d]
  BY DEF WhoProved
<1> USE DEF Base
<1>1. CASE who'[d] = who[d]
  BY <1>1, AuthedStep DEF WhoProved
<1>2. CASE Quiet \/ Terminate \/ Spawn
  BY <1>1, <1>2 DEF Quiet, Terminate, Spawn, threadVars
<1>3. ASSUME NEW c \in Conns, Accept(c)
      PROVE  who'[d] \in authed'[d]
  BY <1>1, <1>3 DEF Accept
<1>4. ASSUME NEW c \in Conns, ThreadStep(c)
      PROVE  who'[d] \in authed'[d]
  <2>1. CASE d # c
    BY <1>1, <1>4, <2>1, OthersKeepLocals DEF SameLocals
  <2>2. CASE d = c /\ (Exit(c) \/ Close(c))
    BY <1>1, <2>2 DEF Exit, Close, TypeInv, TypeOK, ThreadTypeOK
  <2>3. CASE d = c /\ Authorize(c) /\ who'[c] # who[c]
    <3> DEFINE m == Head(lines[c])
    <3>1. /\ VerifyUser(m.login, m.password, TRUE)
          /\ who' = [who EXCEPT ![c] = m.login]
          /\ authed' = [authed EXCEPT ![m.id[1]] = @ \cup (IF Proves(m) THEN {m.login} ELSE {})]
      BY <2>3 DEF Authorize
    <3>2. lines[c] \in Seq(Command) /\ lines[c] # <<>>
      BY <2>3 DEF Authorize, Takes, Receives, TypeInv, TypeOK, ThreadTypeOK
    <3>3. m = lines[c][1] /\ 1 \in DOMAIN lines[c]
      BY <3>2
    <3>4. m.id[1] = c
      BY <3>3 DEF OwnRead
    <3>5. Proves(m)
      BY <3>1, VerifiedProves DEF TypeInv, TypeOK
    <3> HIDE DEF m
    <3> QED BY <2>3, <3>1, <3>4, <3>5 DEF TypeInv, TypeOK, ThreadTypeOK, PeerTypeOK
  <2>4. CASE d = c /\ who' = who
    BY <1>1, <2>4
  <2> QED BY <1>1, <1>4, <2>1, <2>2, <2>3, <2>4, ThreadShares
<1> QED BY <1>2, <1>3, <1>4, StepKinds

\* An author's row names an account that the author's own connection has proved.
AuthorRow ==
  \A i \in DOMAIN messages : messages[i].from # Null =>
    /\ messages[i].from \in DOMAIN users
    /\ users[messages[i].from].login \in authed[messages[i].content[1]]
    /\ messages[i].content[1] \in Conns

LEMMA UsersKept ==
  ASSUME TypeInv, [Next]_vars, NEW i \in DOMAIN users
  PROVE  i \in DOMAIN users' /\ users'[i] = users[i]
<1>1. users \in Seq(UserRow)
  BY DEF TypeInv, TypeOK, DbTypeOK
<1>2. ASSUME NEW l \in Logins, NEW p \in Passwords,
             users' = Append(users, [login |-> l, password |-> p])
      PROVE  i \in DOMAIN users' /\ users'[i] = users[i]
  <2>1. [login |-> l, password |-> p] \in UserRow
    BY DEF UserRow
  <2> QED BY <1>1, <1>2, <2>1
<1> QED BY <1>2, UsersStep

LEMMA AuthorRowStep ==
  ASSUME Base, InboxInv, OwnRead, WhoProved, AuthorRow, [Next]_vars
  PROVE  AuthorRow'
<1> USE DEF Base
<1>1. ASSUME NEW i \in DOMAIN messages, messages[i].from # Null
      PROVE  /\ messages[i].from \in DOMAIN users'
             /\ users'[messages[i].from].login \in authed'[messages[i].content[1]]
             /\ messages[i].content[1] \in Conns
  BY <1>1, UsersKept, AuthedStep DEF AuthorRow
<1>2. CASE UNCHANGED messages
  BY <1>1, <1>2 DEF AuthorRow
<1>3. ASSUME NEW c \in Conns, StorePublic(c) \/ StorePrivate(c), ~UNCHANGED messages
      PROVE  AuthorRow'
  <2>1. PICK r, t : /\ AddMessage(who[c], r, t)
                    /\ t = Head(lines[c]).id \/ t = cmd[c].id
                    /\ t[1] = c
    <3>1. CASE StorePublic(c)
      <4>1. lines[c] \in Seq(Command) /\ lines[c] # <<>>
        BY <3>1 DEF StorePublic, Takes, Receives, TypeInv, TypeOK, ThreadTypeOK
      <4>2. Head(lines[c]) = lines[c][1] /\ 1 \in DOMAIN lines[c]
        BY <4>1
      <4> QED BY <3>1, <4>2 DEF StorePublic, OwnRead
    <3>2. CASE StorePrivate(c)
      BY <3>2 DEF StorePrivate, OwnRead, Places, PlaceInv, Working
    <3> QED BY <1>3, <3>1, <3>2
  <2> DEFINE row == [from |-> UserId(who[c]), to |-> IF r = NoLogin THEN Null ELSE UserId(r),
                     content |-> t, time |-> clock, addr |-> r]
  <2>2. messages' = Append(messages, row) /\ UNCHANGED users
    BY <1>3, <2>1 DEF AddMessage
  <2>3. messages \in Seq(MessageRow)
    BY DEF TypeInv, TypeOK, DbTypeOK
  <2>4. row.from # Null => /\ row.from \in DOMAIN users
                           /\ users[row.from].login = who[c]
                           /\ who[c] \in Logins
    <3>1. users \in Seq(UserRow)
      BY DEF TypeInv, TypeOK, DbTypeOK
    <3>2. ASSUME UserId(who[c]) # Null
          PROVE  UserId(who[c]) \in DOMAIN users /\ users[UserId(who[c])].login = who[c]
      BY <3>2 DEF UserId, Registered
    <3>3. \A i \in DOMAIN users : users[i].login \in Logins
      <4>1. \A i \in DOMAIN users : users[i] \in UserRow
        BY <3>1
      <4> QED BY <4>1 DEF UserRow
    <3> QED BY <3>2, <3>3
  <2>5. row.from # Null => who[c] \in authed'[c]
    BY <2>4, AuthedStep, DbAssumption DEF WhoProved
  <2>6. row.content[1] = c
    BY <2>1
  <2> HIDE DEF row
  <2>7. \A i \in DOMAIN messages' :
          (i \in DOMAIN messages /\ messages'[i] = messages[i]) \/ messages'[i] = row
    BY <2>2, <2>3
  <2> QED BY <1>1, <2>2, <2>4, <2>5, <2>6, <2>7 DEF AuthorRow
<1> QED BY <1>2, <1>3, MessagesStep

\* A thread's commands come from its own client, and its login is one that client
\* has proved.
ProvedInv == OwnRead /\ WhoProved

LEMMA Proved == ~ReuseHeld => (Spec => []ProvedInv)
<1> SUFFICES ASSUME ~ReuseHeld
             PROVE  Spec => []ProvedInv
  OBVIOUS
<1>1. Init => ProvedInv
  BY DEF Init, ProvedInv, OwnRead, WhoProved
<1>2. Base /\ InboxInv /\ ProvedInv /\ [Next]_vars => ProvedInv'
  BY OwnReadStep, WhoProvedStep DEF ProvedInv
<1> QED BY <1>1, <1>2, Owned, PTL DEF Spec

\* While accept returns no number a thread still holds, a stored message names as
\* its author an account whose password the author's connection has proved: nobody
\* speaks under a login that another connection proved.  (With such a number reused,
\* a thread reads another client's lines under its own login.)
THEOREM AuthorsAuthenticated == ~ReuseHeld => (Spec => []AuthorIsAuthenticated)
<1> SUFFICES ASSUME ~ReuseHeld
             PROVE  Spec => []AuthorIsAuthenticated
  OBVIOUS
<1>1. Init => AuthorRow
  BY DEF Init, DbInit, AuthorRow
<1>2. Base /\ InboxInv /\ ProvedInv /\ AuthorRow /\ [Next]_vars => AuthorRow'
  BY AuthorRowStep DEF ProvedInv
<1>3. AuthorRow => AuthorIsAuthenticated
  BY DEF AuthorRow, AuthorIsAuthenticated
<1> QED BY <1>1, <1>2, <1>3, Owned, Proved, PTL DEF Spec

-----------------------------------------------------------------------------
(* Private lines *)

\* A send still to do goes to the connection its number stood for.
LEMMA TargetKept ==
  ASSUME Base, ~ReuseHeld, [Next]_vars, NEW c \in Conns, NEW s \in out[c], NEW k \in Conns,
         fdTable'[s.fd] = k
  PROVE  fdTable[s.fd] = k
<1> USE DEF Base, OwnInv
<1>1. s.fd \in Fds
  BY DEF TypeInv, TypeOK, ThreadTypeOK, PendingSend
<1>2. CASE fdTable' = fdTable
  BY <1>2
<1>3. CASE Terminate
  BY <1>1, <1>3, ServerAssumption DEF Terminate
<1>4. ASSUME NEW d \in Conns, Accept(d)
      PROVE  fdTable[s.fd] = k
  <2>1. PICK f \in Fds : fdTable' = [fdTable EXCEPT ![f] = d] /\ ~Holds(c, f)
    BY <1>4, AcceptGives
  <2> QED BY <1>1, <2>1 DEF Holds, TypeInv, TypeOK, ServerTypeOK
<1>5. ASSUME NEW d \in Conns, Close(d)
      PROVE  fdTable[s.fd] = k
  BY <1>1, <1>5, ServerAssumption DEF Close, SocketClose, TypeInv, TypeOK, ServerTypeOK
<1>6. ASSUME NEW d \in Conns, ThreadStep(d)
      PROVE  fdTable' = fdTable \/ Close(d)
  BY <1>6, ThreadShares
<1> QED BY <1>2, <1>3, <1>4, <1>5, <1>6, StepKinds DEF Quiet, Spawn

\* A private line still to send is its sender's copy, or for one who proved to be
\* the receiver.
PrivateOut ==
  \A c, k \in Conns : \A s \in out[c] :
    s.line.kind = "private" /\ fdTable[s.fd] = k => s.line.id[1] = k \/ s.line.login \in authed[k]

PrivateInv == PrivateOut /\ PrivateReachesParties

LEMMA PrivateOutStep ==
  ASSUME Base, InboxInv, ProvedInv, PrivateOut, ~ReuseHeld, [Next]_vars
  PROVE  PrivateOut'
<1> USE DEF Base, OwnInv
<1> SUFFICES ASSUME NEW c \in Conns, NEW k \in Conns, NEW s \in out'[c],
                    s.line.kind = "private", fdTable'[s.fd] = k
             PROVE  s.line.id[1] = k \/ s.line.login \in authed'[k]
  BY DEF PrivateOut
<1>1. CASE s \in out[c]
  BY <1>1, TargetKept, AuthedStep DEF PrivateOut
<1>2. CASE NoNewClaim
  BY <1>1, <1>2 DEF NoNewClaim, Claims
<1>3. ASSUME NEW d \in Conns, AddUserStep(d) \/ Snapshot(d) \/ Route(d) \/ SendNext(d), s \notin out[c]
      PROVE  s.line.id[1] = k \/ s.line.login \in authed'[k]
  <2>1. d = c
    BY <1>3 DEF AddUserStep, Reply, Snapshot, Route, SendNext, TypeInv, TypeOK, ThreadTypeOK
  <2>2. CASE AddUserStep(c)
    <3>1. \E kind : kind # "private" /\ Reply(c, kind, cmd[c].login)
      BY <2>2 DEF AddUserStep
    <3> QED BY <3>1 DEF Reply, ToSend, TypeInv, TypeOK, ThreadTypeOK
  <2>3. CASE Snapshot(c)
    <3>1. s \in {ToSend(<<0, i>>, clientSockets[i], "public", cmd[c].id, NoLogin) : i \in Targets(c)}
      BY <2>3 DEF Snapshot, TypeInv, TypeOK, ThreadTypeOK
    <3> QED BY <3>1 DEF ToSend
  <2>4. CASE SendNext(c)
    BY <1>3, <2>4, SendNextMoves
  <2>5. CASE Route(c)
    <3>1. s.line = [kind |-> "private", id |-> cmd[c].id, login |-> cmd[c].login]
      BY <2>5, RouteSends
    <3>2. Live(c) /\ fd[c] \in Fds /\ cmd[c] # NoCommand /\ cmd[c].login # NoLogin /\ fdTable' = fdTable
      BY <2>5 DEF Route, Live, TypeInv, Shape, Places, PlaceInv, Working, serverVars
    <3>3. CASE s.fd = fd[c]
      <4>1. k = c
        BY <3>2, <3>3 DEF TableOwn, Distinct, Present
      <4> QED BY <3>1, <3>2, <4>1 DEF ProvedInv, OwnRead
    <3>4. CASE s.fd \in Fds /\ clientLogins[s.fd] = cmd[c].login
      <4>1. PICK h \in Conns : Live(h) /\ fd[h] = s.fd /\ who[h] = cmd[c].login
        BY <3>2, <3>4 DEF LoginsHaveHandlers
      <4>2. k = h
        BY <3>2, <3>4, <4>1 DEF TableOwn, Distinct, Present
      <4>3. cmd[c].login \in authed[k]
        BY <3>2, <4>1, <4>2 DEF ProvedInv, WhoProved
      <4> QED BY <3>1, <4>3, AuthedStep
    <3> QED BY <2>5, <3>3, <3>4, RouteTargets
  <2> QED BY <1>3, <2>1, <2>2, <2>3, <2>4, <2>5
<1> QED BY <1>1, <1>2, <1>3, ClaimStep

\* The only step that adds to what a peer was sent.
LEMMA WireStep ==
  ASSUME TypeInv, [Next]_vars
  PROVE  \/ wire' = wire
         \/ \E c \in Conns : /\ SendNext(c)
              /\ \E s \in out[c] : /\ NextSend(c, s) /\ out' = [out EXCEPT ![c] = @ \ {s}]
                                   /\ s.fd \in Fds /\ fdTable[s.fd] \in Conns /\ s.line \in Line
                                   /\ wire' = [wire EXCEPT ![fdTable[s.fd]] = Append(@, s.line)]
<1>1. wire' = wire \/ \E c \in Conns : SendNext(c)
  <2>1. CASE NoNewClaim
    BY <2>1 DEF NoNewClaim
  <2>2. ASSUME NEW c \in Conns, AddUserStep(c) \/ Snapshot(c) \/ Route(c)
        PROVE  wire' = wire
    BY <2>2 DEF AddUserStep, Snapshot, Route, peerVars
  <2> QED BY <2>1, <2>2, ClaimStep
<1>2. ASSUME NEW c \in Conns, SendNext(c), wire' # wire
      PROVE  \E s \in out[c] : /\ NextSend(c, s) /\ out' = [out EXCEPT ![c] = @ \ {s}]
                               /\ s.fd \in Fds /\ fdTable[s.fd] \in Conns /\ s.line \in Line
                               /\ wire' = [wire EXCEPT ![fdTable[s.fd]] = Append(@, s.line)]
  <2>1. PICK s \in out[c], ok \in BOOLEAN :
          /\ NextSend(c, s) /\ SendLine(s.fd, s.line, ok)
          /\ out' = [out EXCEPT ![c] = Left(c, s, ok)]
    BY <1>2, Zenon DEF SendNext
  <2>2. s.fd \in Fds /\ s.line \in Line
    BY DEF TypeInv, TypeOK, ThreadTypeOK, PendingSend
  <2>3. ok /\ fdTable[s.fd] \in Conns /\ wire' = [wire EXCEPT ![fdTable[s.fd]] = Append(@, s.line)]
    BY <1>2, <2>1, <2>2 DEF SendLine, TypeInv, TypeOK, ServerTypeOK
  <2>4. Left(c, s, ok) = out[c] \ {s}
    BY <2>3 DEF Left
  <2> QED BY <2>1, <2>2, <2>3, <2>4
<1> QED BY <1>1, <1>2

LEMMA PrivateReachesStep ==
  ASSUME Base, PrivateInv, [Next]_vars
  PROVE  PrivateReachesParties'
<1> USE DEF Base
<1>1. CASE wire' = wire
  BY <1>1, AuthedStep DEF PrivateInv, PrivateReachesParties
<1>2. ASSUME NEW c \in Conns, NEW s \in out[c], s.line \in Line, fdTable[s.fd] \in Conns,
             wire' = [wire EXCEPT ![fdTable[s.fd]] = Append(@, s.line)]
      PROVE  PrivateReachesParties'
  <2> DEFINE k == fdTable[s.fd]
  <2>1. s.line.kind = "private" => s.line.id[1] = k \/ s.line.login \in authed[k]
    BY <1>2 DEF PrivateInv, PrivateOut
  <2> HIDE DEF k
  <2>2. \A d \in Conns : \A i \in DOMAIN wire'[d] :
          \/ i \in DOMAIN wire[d] /\ wire'[d][i] = wire[d][i]
          \/ d = k /\ wire'[d][i] = s.line
    BY <1>2, WireEntry DEF k
  <2> QED BY <2>1, <2>2, AuthedStep DEF PrivateInv, PrivateReachesParties
<1> QED BY <1>1, <1>2, WireStep

\* While accept returns no number a thread still holds, a private line is seen by
\* its author's connection and by connections that proved to be the receiver, and by
\* no other: privateMessage sends to a number it looked up before it released
\* clientsMutex, and the connection of that number may be gone by then.
THEOREM PrivateToParties == ~ReuseHeld => (Spec => []PrivateReachesParties)
<1> SUFFICES ASSUME ~ReuseHeld
             PROVE  Spec => []PrivateReachesParties
  OBVIOUS
<1>1. Init => PrivateInv
  BY DEF Init, PrivateInv, PrivateOut, PrivateReachesParties
<1>2. Base /\ InboxInv /\ ProvedInv /\ PrivateInv /\ [Next]_vars => PrivateInv'
  BY PrivateOutStep, PrivateReachesStep DEF PrivateInv
<1>3. PrivateInv => PrivateReachesParties
  BY DEF PrivateInv
<1> QED BY <1>1, <1>2, <1>3, Owned, Proved, PTL DEF Spec

=============================================================================
