--------------------------- MODULE ChatEchoProofs ---------------------------
(***************************************************************************)
(* No client is ever sent its own public line, even when a descriptor      *)
(* number is closed and reused under the threads' feet: whichever          *)
(* connection a thread really reads, it has the thread's own number.       *)
(***************************************************************************)
EXTENDS ChatStoreProofs

\* Thread c handles what peer k wrote: they have (or had) the same number.
SameFd(c, k) == fd[c] = fd[k] /\ peer[c] # "idle" /\ peer[k] # "idle"

TableInv ==
  \A f \in Fds, k \in Conns : fdTable[f] = k => fd[k] = f /\ peer[k] # "idle"

ActiveInv ==
  \A c \in Conns : pc[c] # "none" \/ incoming = c => peer[c] # "idle"

ReadingInv ==
  \A c, k \in Conns : reading[c] = k => SameFd(c, k)

InboxInv ==
  \A k \in Conns : \A i \in DOMAIN inbox[k] : \E n \in 1..MaxLines : inbox[k][i].id = <<k, n>>

LinesInv ==
  \A c, k \in Conns, n \in 1..MaxLines : \A i \in DOMAIN lines[c] :
    lines[c][i].id = <<k, n>> => SameFd(c, k)

CmdInv ==
  \A c, k \in Conns, n \in 1..MaxLines : cmd[c].id = <<k, n>> => SameFd(c, k)

OutInv ==
  \A c, k \in Conns, n \in 1..MaxLines : \A s \in out[c] :
    s.line.kind = "public" /\ s.line.id = <<k, n>> => s.fd # fd[k] /\ peer[k] # "idle"

EchoInv ==
  /\ TableInv /\ ActiveInv /\ ReadingInv /\ InboxInv /\ LinesInv /\ CmdInv /\ OutInv
  /\ NoSelfEcho

-----------------------------------------------------------------------------
(* What a step may do to each variable *)

LEMMA FdStep ==
  ASSUME TypeInv, [Next]_vars, NEW k \in Conns, peer[k] # "idle"
  PROVE  fd'[k] = fd[k] /\ peer'[k] # "idle"
<1>1. CASE Start \/ Spawn \/ (SetClock /\ UNCHANGED <<serverVars, threadVars, peerVars>>)
             \/ UNCHANGED vars
  BY <1>1 DEF Start, Spawn, vars, threadVars, localVars, peerVars
<1>2. CASE Kill
  BY <1>2 DEF Kill, Terminate, TypeInv, TypeOK, PeerTypeOK
<1>3. ASSUME NEW c \in Conns, Accept(c) \/ PeerSends(c) \/ PeerCloses(c)
      PROVE  fd'[k] = fd[k] /\ peer'[k] # "idle"
  BY <1>3 DEF Accept, PeerSends, PeerCloses, threadVars, localVars, TypeInv, TypeOK,
              ThreadTypeOK, PeerTypeOK
<1>4. ASSUME NEW c \in Conns, HandlerStep(c)
      PROVE  fd'[k] = fd[k] /\ peer'[k] # "idle"
  <2>1. CASE GetPrivateThrows(c) \/ SigPipe(c)
    BY <2>1 DEF GetPrivateThrows, SigPipe, Terminate, TypeInv, TypeOK, PeerTypeOK
  <2>2. CASE ~(GetPrivateThrows(c) \/ SigPipe(c))
    BY <1>4, <2>2 DEF HandlerStep, CallRecv, RecvData, RecvEnd, Register, AddUserStep, Authorize,
              Publish, Expecting, TooLong, StorePublic, Snapshot, CheckReceiver, StorePrivate,
              Route, Notice, GetUsers, GetHistory, GetPrivateHistory, Exit, UnknownCommand,
              SendNext, Erase, Close, JustReplies, localVars, peerVars
  <2> QED BY <2>1, <2>2
<1> QED BY <1>1, <1>2, <1>3, <1>4 DEF Next

LEMMA SameFdStays ==
  ASSUME TypeInv, [Next]_vars, NEW c \in Conns, NEW k \in Conns, SameFd(c, k)
  PROVE  SameFd(c, k)'
BY FdStep DEF SameFd

LEMMA TableStep ==
  ASSUME TypeInv, TableInv, [Next]_vars
  PROVE  TableInv'
<1>1. CASE UNCHANGED fdTable
  BY <1>1, FdStep DEF TableInv
<1>2. CASE Terminate
  BY <1>2, ServerAssumption DEF Terminate, TableInv
<1>3. ASSUME NEW c \in Conns, Accept(c)
      PROVE  TableInv'
  <2>1. PICK f \in Fds : fdTable' = [fdTable EXCEPT ![f] = c] /\ fd' = [fd EXCEPT ![c] = f]
    BY <1>3 DEF Accept
  <2>2. peer[c] = "idle" /\ peer' = [peer EXCEPT ![c] = "open"]
    BY <1>3 DEF Accept
  <2> QED BY <2>1, <2>2 DEF TableInv, TypeInv, TypeOK, ServerTypeOK, ThreadTypeOK, PeerTypeOK
<1>4. ASSUME NEW c \in Conns, Close(c)
      PROVE  TableInv'
  <2>1. \A f \in Fds : fdTable'[f] = fdTable[f] \/ fdTable'[f] = NoConn
    BY <1>4 DEF Close, SocketClose, TypeInv, TypeOK, ServerTypeOK
  <2> QED BY <2>1, FdStep, ServerAssumption DEF TableInv
<1>5. ASSUME NEW c \in Conns, HandlerStep(c)
      PROVE  UNCHANGED fdTable \/ Terminate \/ Close(c)
  BY <1>5 DEF HandlerStep, CallRecv, RecvData, RecvEnd, Register, AddUserStep, Authorize,
              Publish, Expecting, TooLong, StorePublic, Snapshot, CheckReceiver, StorePrivate,
              Route, Notice, GetUsers, GetHistory, GetPrivateHistory, GetPrivateThrows, Exit,
              UnknownCommand, SendNext, SigPipe, Erase, JustReplies, serverVars
<1>6. CASE Start \/ Spawn \/ (SetClock /\ UNCHANGED <<serverVars, threadVars, peerVars>>)
             \/ UNCHANGED vars
  BY <1>1, <1>6 DEF Start, Spawn, vars, serverVars
<1>7. ASSUME NEW c \in Conns, PeerSends(c) \/ PeerCloses(c)
      PROVE  TableInv'
  BY <1>1, <1>7 DEF PeerSends, PeerCloses, serverVars
<1> QED BY <1>1, <1>2, <1>3, <1>4, <1>5, <1>6, <1>7 DEF Next, Kill

LEMMA ActiveStep ==
  ASSUME TypeInv, ActiveInv, [Next]_vars
  PROVE  ActiveInv'
<1> SUFFICES ASSUME NEW d \in Conns, pc'[d] # "none" \/ incoming' = d
             PROVE  pc[d] # "none" \/ incoming = d \/ peer'[d] # "idle"
  BY FdStep DEF ActiveInv
<1>1. CASE Start \/ (SetClock /\ UNCHANGED <<serverVars, threadVars, peerVars>>) \/ UNCHANGED vars
  BY <1>1 DEF Start, vars, threadVars, serverVars
<1>2. CASE Spawn
  BY <1>2, ServerAssumption DEF Spawn, TypeInv, TypeOK, ThreadTypeOK
<1>3. CASE Terminate
  BY <1>3, ServerAssumption DEF Terminate, Live
<1>4. ASSUME NEW c \in Conns, Accept(c)
      PROVE  pc[d] # "none" \/ incoming = d \/ peer'[d] # "idle"
  BY <1>4 DEF Accept, TypeInv, TypeOK, PeerTypeOK
<1>5. ASSUME NEW c \in Conns, PeerSends(c) \/ PeerCloses(c)
      PROVE  pc[d] # "none" \/ incoming = d
  BY <1>5 DEF PeerSends, PeerCloses, threadVars, serverVars
<1>6. ASSUME NEW c \in Conns, HandlerStep(c), ~Terminate
      PROVE  pc[d] # "none" \/ incoming = d
  <2>1. pc[c] # "none" /\ incoming' = incoming
    BY <1>6 DEF HandlerStep, CallRecv, RecvData, RecvEnd, Register, AddUserStep, Authorize,
              Publish, Expecting, TooLong, StorePublic, Snapshot, CheckReceiver, StorePrivate,
              Route, Notice, GetUsers, GetHistory, GetPrivateHistory, GetPrivateThrows, Exit,
              UnknownCommand, SendNext, SigPipe, Erase, Close, JustReplies, Takes, Receives,
              serverVars
  <2>2. CASE d = c
    BY <2>1, <2>2
  <2>3. CASE d # c
    <3>1. pc'[d] = pc[d]
      BY <1>6, <2>3 DEF HandlerStep, CallRecv, RecvData, RecvEnd, Register, AddUserStep, Authorize,
              Publish, Expecting, TooLong, StorePublic, Snapshot, CheckReceiver, StorePrivate,
              Route, Notice, GetUsers, GetHistory, GetPrivateHistory, GetPrivateThrows, Exit,
              UnknownCommand, SendNext, SigPipe, Erase, Close, JustReplies, Reply, SendRows,
              Resume, SetPc, TypeInv, TypeOK, ThreadTypeOK
    <3> QED BY <2>1, <3>1
  <2> QED BY <2>2, <2>3
<1> QED BY <1>1, <1>2, <1>3, <1>4, <1>5, <1>6 DEF Next, Kill

\* recv is only called on a thread's own number.
LEMMA ReadingStep ==
  ASSUME TypeInv, TableInv, ActiveInv, ReadingInv, [Next]_vars
  PROVE  ReadingInv'
<1>1. ASSUME NEW c \in Conns, NEW k \in Conns, reading'[c] = k, reading[c] # k
      PROVE  CallRecv(c)
  <2>1. CASE Start \/ Spawn \/ (SetClock /\ UNCHANGED <<serverVars, threadVars, peerVars>>)
               \/ UNCHANGED vars
    BY <1>1, <2>1 DEF Start, Spawn, vars, threadVars, localVars
  <2>2. CASE Terminate
    BY <1>1, <2>2, ServerAssumption DEF Terminate
  <2>3. ASSUME NEW d \in Conns, Accept(d) \/ PeerSends(d) \/ PeerCloses(d)
        PROVE  FALSE
    BY <1>1, <2>3 DEF Accept, PeerSends, PeerCloses, threadVars, localVars
  <2>4. ASSUME NEW d \in Conns, HandlerStep(d), ~Terminate
        PROVE  CallRecv(c)
    <3>1. \/ UNCHANGED reading \/ CallRecv(d)
          \/ reading' = [reading EXCEPT ![d] = NoConn]
      BY <2>4 DEF HandlerStep, RecvData, RecvEnd, Register, AddUserStep, Authorize,
              Publish, Expecting, TooLong, StorePublic, Snapshot, CheckReceiver, StorePrivate,
              Route, Notice, GetUsers, GetHistory, GetPrivateHistory, GetPrivateThrows, Exit,
              UnknownCommand, SendNext, SigPipe, Erase, Close, JustReplies, localVars
    <3>2. d # c => reading'[c] = reading[c] \/ reading'[c] = NoConn
      BY <3>1 DEF CallRecv, TypeInv, TypeOK, ThreadTypeOK
    <3>3. d = c => CallRecv(d)
      BY <1>1, <3>1, ServerAssumption DEF TypeInv, TypeOK, ThreadTypeOK
    <3> QED BY <1>1, <3>2, <3>3, ServerAssumption
  <2> QED BY <2>1, <2>2, <2>3, <2>4 DEF Next, Kill
<1>2. ASSUME NEW c \in Conns, NEW k \in Conns, reading'[c] = k, CallRecv(c), reading[c] # k
      PROVE  SameFd(c, k)
  <2>1. fd[c] \in Fds /\ fdTable[fd[c]] = k /\ pc[c] # "none"
    BY <1>2 DEF CallRecv, TypeInv, TypeOK, ThreadTypeOK, Shape
  <2> QED BY <2>1 DEF TableInv, ActiveInv, SameFd
<1>3. ASSUME NEW c \in Conns, NEW k \in Conns, reading'[c] = k
      PROVE  SameFd(c, k)
  BY <1>1, <1>2, <1>3 DEF ReadingInv
<1> QED BY <1>3, SameFdStays DEF ReadingInv

LEMMA InboxStep ==
  ASSUME TypeInv, InboxInv, [Next]_vars
  PROVE  InboxInv'
<1>1. CASE UNCHANGED inbox
  BY <1>1 DEF InboxInv
<1>2. ASSUME NEW c \in Conns, PeerSends(c)
      PROVE  InboxInv'
  <2>1. /\ inbox \in [Conns -> Seq(Command)]
        /\ sent'[c] \in 1..MaxLines
    BY <1>2, ServerAssumption DEF PeerSends, TypeInv, TypeOK, PeerTypeOK
  <2>2. PICK e : e.id = <<c, sent'[c]>> /\ inbox' = [inbox EXCEPT ![c] = Append(@, e)]
    <3>1. PICK m \in Commands[c][sent'[c]] :
            inbox' = [inbox EXCEPT ![c] =
              Append(@, [op |-> m.op, login |-> m.login, password |-> m.password,
                         id |-> <<c, sent'[c]>>])]
      BY <1>2 DEF PeerSends
    <3> QED BY <3>1
  <2>3. \A k \in Conns \ {c} : inbox'[k] = inbox[k]
    BY <2>1, <2>2
  <2>4. \A i \in DOMAIN inbox'[c] : inbox'[c][i] = e \/ (i \in DOMAIN inbox[c] /\ inbox'[c][i] = inbox[c][i])
    BY <2>1, <2>2
  <2> QED BY <2>1, <2>2, <2>3, <2>4 DEF InboxInv
<1>3. ASSUME NEW c \in Conns, RecvData(c)
      PROVE  InboxInv'
  <2> DEFINE r == reading[c]
  <2>1. PICK n \in 1..Len(inbox[r]) :
          inbox' = [inbox EXCEPT ![r] = SubSeq(inbox[r], n + 1, Len(inbox[r]))]
    BY <1>3, RecvTakes
  <2>2. r \in Conns /\ inbox[r] \in Seq(Command)
    BY <1>3, RecvTakes
  <2>3. \A k \in Conns \ {r} : inbox'[k] = inbox[k]
    BY <2>1 DEF TypeInv, TypeOK, PeerTypeOK
  <2>4. /\ inbox'[r] \in Seq(Command) /\ Len(inbox'[r]) = Len(inbox[r]) - n
        /\ \A i \in 1..(Len(inbox[r]) - n) : inbox'[r][i] = inbox[r][n + i]
    <3>1. inbox'[r] = SubSeq(inbox[r], n + 1, Len(inbox[r]))
      BY <2>1, <2>2 DEF TypeInv, TypeOK, PeerTypeOK
    <3>2. ASSUME NEW q \in Seq(Command), NEW m \in 1..Len(q), NEW rest, rest = SubSeq(q, m + 1, Len(q))
          PROVE  /\ rest \in Seq(Command) /\ Len(rest) = Len(q) - m
                 /\ \A i \in 1..(Len(q) - m) : rest[i] = q[m + i]
      BY <3>2, SplitSeq
    <3> HIDE DEF r
    <3> QED BY <2>2, <3>1, <3>2
  <2> HIDE DEF r
  <2>5. ASSUME NEW i \in DOMAIN inbox'[r]
        PROVE  n + i \in DOMAIN inbox[r] /\ inbox'[r][i] = inbox[r][n + i]
    <3>1. DOMAIN inbox'[r] = 1..(Len(inbox[r]) - n)
      BY <2>2, <2>4
    <3>2. i \in 1..(Len(inbox[r]) - n) /\ n \in Nat /\ Len(inbox[r]) \in Nat
      BY <2>2, <2>5, <3>1
    <3>3. n + i \in 1..Len(inbox[r])
      BY <3>2
    <3> QED BY <2>2, <2>4, <3>2, <3>3
  <2> QED BY <2>3, <2>5 DEF InboxInv
<1>4. CASE Terminate
  BY <1>4 DEF Terminate, InboxInv
<1>5. CASE Start \/ Spawn \/ (SetClock /\ UNCHANGED <<serverVars, threadVars, peerVars>>)
             \/ UNCHANGED vars
  BY <1>1, <1>5 DEF Start, Spawn, vars, peerVars
<1>6. ASSUME NEW c \in Conns, Accept(c) \/ PeerCloses(c)
      PROVE  InboxInv'
  BY <1>1, <1>6 DEF Accept, PeerCloses
<1>7. ASSUME NEW c \in Conns, HandlerStep(c)
      PROVE  UNCHANGED inbox \/ Terminate \/ RecvData(c)
  BY <1>7 DEF HandlerStep, CallRecv, RecvEnd, Register, AddUserStep, Authorize,
              Publish, Expecting, TooLong, StorePublic, Snapshot, CheckReceiver, StorePrivate,
              Route, Notice, GetUsers, GetHistory, GetPrivateHistory, GetPrivateThrows, Exit,
              UnknownCommand, SendNext, SigPipe, Erase, Close, JustReplies, peerVars
<1> QED BY <1>1, <1>2, <1>3, <1>4, <1>5, <1>6, <1>7 DEF Next, Kill

\* Lines come from the connection read, and are taken from the front.
FromInbox(d) ==
  /\ reading[d] \in Conns
  /\ \E n \in 1..Len(inbox[reading[d]]) :
       /\ lines'[d] = SubSeq(inbox[reading[d]], 1, n)
       /\ inbox'[reading[d]] = SubSeq(inbox[reading[d]], n + 1, Len(inbox[reading[d]]))
  /\ \A i \in DOMAIN lines'[d] :
       \E j \in DOMAIN inbox[reading[d]] : lines'[d][i] = inbox[reading[d]][j]

LEMMA LinesFrom ==
  ASSUME TypeInv, [Next]_vars, NEW d \in Conns
  PROVE  \/ lines'[d] = lines[d] \/ lines'[d] = <<>>
         \/ lines[d] # <<>> /\ lines'[d] = Tail(lines[d])
         \/ FromInbox(d)
<1>1. CASE Start \/ Spawn \/ (SetClock /\ UNCHANGED <<serverVars, threadVars, peerVars>>)
             \/ UNCHANGED vars
  BY <1>1 DEF Start, Spawn, vars, threadVars
<1>2. CASE Terminate
  BY <1>2 DEF Terminate
<1>3. ASSUME NEW c \in Conns, Accept(c) \/ PeerSends(c) \/ PeerCloses(c)
      PROVE  lines' = lines
  BY <1>3 DEF Accept, PeerSends, PeerCloses, threadVars
<1>4. ASSUME NEW c \in Conns, HandlerStep(c), ~Terminate
      PROVE  \/ lines' = lines
             \/ RecvData(c)
             \/ lines[c] # <<>> /\ lines' = [lines EXCEPT ![c] = Tail(@)]
  BY <1>4 DEF HandlerStep, CallRecv, RecvEnd, Register, AddUserStep, Authorize,
            Publish, Expecting, TooLong, StorePublic, Snapshot, CheckReceiver, StorePrivate,
            Route, Notice, GetUsers, GetHistory, GetPrivateHistory, GetPrivateThrows, Exit,
            UnknownCommand, SendNext, SigPipe, Erase, Close, JustReplies, Takes, Receives
<1>5. ASSUME NEW c \in Conns, lines[c] # <<>>, lines' = [lines EXCEPT ![c] = Tail(@)]
      PROVE  lines'[d] = lines[d] \/ (lines[d] # <<>> /\ lines'[d] = Tail(lines[d]))
  BY <1>5 DEF TypeInv, TypeOK, ThreadTypeOK
<1>6. ASSUME NEW c \in Conns, RecvData(c)
      PROVE  lines'[d] = lines[d] \/ FromInbox(d)
  <2> DEFINE r == reading[c]
  <2>1. PICK n \in 1..Len(inbox[r]) :
          /\ lines' = [lines EXCEPT ![c] = SubSeq(inbox[r], 1, n)]
          /\ inbox' = [inbox EXCEPT ![r] = SubSeq(inbox[r], n + 1, Len(inbox[r]))]
    BY <1>6, RecvTakes
  <2>2. r \in Conns /\ inbox[r] \in Seq(Command)
    BY <1>6, RecvTakes
  <2>3. CASE d # c
    BY <2>1, <2>3 DEF TypeInv, TypeOK, ThreadTypeOK
  <2>4. CASE d = c
    <3>1. lines'[d] = SubSeq(inbox[r], 1, n)
      BY <2>1, <2>4 DEF TypeInv, TypeOK, ThreadTypeOK
    <3>2. /\ lines'[d] \in Seq(Command) /\ Len(lines'[d]) = n
          /\ \A i \in 1..n : lines'[d][i] = inbox[r][i]
      BY <2>2, <3>1, SplitSeq
    <3>3. \A i \in DOMAIN lines'[d] : i \in DOMAIN inbox[r] /\ lines'[d][i] = inbox[r][i]
      BY <2>2, <3>2
    <3>4. inbox'[r] = SubSeq(inbox[r], n + 1, Len(inbox[r]))
      BY <2>1, <2>2 DEF TypeInv, TypeOK, PeerTypeOK
    <3> QED BY <2>2, <2>4, <3>1, <3>3, <3>4 DEF FromInbox
  <2> QED BY <2>3, <2>4
<1> QED BY <1>1, <1>2, <1>3, <1>4, <1>5, <1>6 DEF Next, Kill

LEMMA LinesStep ==
  ASSUME TypeInv, ReadingInv, InboxInv, LinesInv, [Next]_vars
  PROVE  LinesInv'
<1>1. ASSUME NEW c \in Conns, NEW k \in Conns, NEW n \in 1..MaxLines, NEW i \in DOMAIN lines'[c],
             lines'[c][i].id = <<k, n>>
      PROVE  SameFd(c, k)
  <2>1. lines[c] \in Seq(Command)
    BY DEF TypeInv, TypeOK, ThreadTypeOK
  <2>2. CASE lines'[c] = lines[c] \/ lines'[c] = <<>>
    BY <1>1, <2>2 DEF LinesInv
  <2>3. CASE lines[c] # <<>> /\ lines'[c] = Tail(lines[c])
    <3>1. i + 1 \in DOMAIN lines[c] /\ lines'[c][i] = lines[c][i + 1]
      BY <1>1, <2>1, <2>3
    <3> QED BY <1>1, <3>1 DEF LinesInv
  <2>4. CASE FromInbox(c)
    <3>1. k = reading[c]
      BY <1>1, <2>4 DEF InboxInv, FromInbox
    <3> QED BY <2>4, <3>1 DEF ReadingInv
  <2> QED BY <2>2, <2>3, <2>4, LinesFrom
<1> QED BY <1>1, SameFdStays DEF LinesInv

\* A command is the first line taken, and given up between commands.
LEMMA CmdFrom ==
  ASSUME TypeInv, [Next]_vars, NEW d \in Conns
  PROVE  \/ cmd'[d] = cmd[d] \/ cmd'[d] = NoCommand
         \/ /\ pc[d] = "recv" /\ lines[d] # <<>>
            /\ cmd'[d] = Head(lines[d]) /\ lines'[d] = Tail(lines[d])
<1>1. CASE Start \/ Spawn \/ (SetClock /\ UNCHANGED <<serverVars, threadVars, peerVars>>)
             \/ UNCHANGED vars
  BY <1>1 DEF Start, Spawn, vars, threadVars
<1>2. CASE Terminate
  BY <1>2 DEF Terminate
<1>3. ASSUME NEW c \in Conns, Accept(c) \/ PeerSends(c) \/ PeerCloses(c)
      PROVE  cmd' = cmd
  BY <1>3 DEF Accept, PeerSends, PeerCloses, threadVars
<1>4. ASSUME NEW c \in Conns, HandlerStep(c), ~Terminate
      PROVE  \/ cmd' = cmd
             \/ \E to : cmd' = [cmd EXCEPT ![c] = IF to = "recv" THEN NoCommand ELSE @]
             \/ /\ pc[c] = "recv" /\ lines[c] # <<>>
                /\ cmd' = [cmd EXCEPT ![c] = Head(lines[c])]
                /\ lines' = [lines EXCEPT ![c] = Tail(@)]
  BY <1>4 DEF HandlerStep, CallRecv, RecvData, RecvEnd, Register, AddUserStep, Authorize,
            Publish, Expecting, TooLong, StorePublic, Snapshot, CheckReceiver, StorePrivate,
            Route, Notice, GetUsers, GetHistory, GetPrivateHistory, GetPrivateThrows, Exit,
            UnknownCommand, SendNext, SigPipe, Erase, Close, JustReplies, Takes, Receives, Resume
<1>5. ASSUME NEW c \in Conns, NEW to, cmd' = [cmd EXCEPT ![c] = IF to = "recv" THEN NoCommand ELSE @]
      PROVE  cmd'[d] = cmd[d] \/ cmd'[d] = NoCommand
  BY <1>5 DEF TypeInv, TypeOK, ThreadTypeOK
<1>6. ASSUME NEW c \in Conns, pc[c] = "recv", lines[c] # <<>>,
             cmd' = [cmd EXCEPT ![c] = Head(lines[c])], lines' = [lines EXCEPT ![c] = Tail(@)]
      PROVE  \/ cmd'[d] = cmd[d]
             \/ /\ pc[d] = "recv" /\ lines[d] # <<>>
                /\ cmd'[d] = Head(lines[d]) /\ lines'[d] = Tail(lines[d])
  BY <1>6 DEF TypeInv, TypeOK, ThreadTypeOK
<1> QED BY <1>1, <1>2, <1>3, <1>4, <1>5, <1>6 DEF Next, Kill

LEMMA CmdStep ==
  ASSUME TypeInv, LinesInv, CmdInv, [Next]_vars
  PROVE  CmdInv'
<1>1. ASSUME NEW c \in Conns, NEW k \in Conns, NEW n \in 1..MaxLines, cmd'[c].id = <<k, n>>
      PROVE  SameFd(c, k)
  <2>1. CASE cmd'[c] = cmd[c]
    BY <1>1, <2>1 DEF CmdInv
  <2>2. CASE cmd'[c] = NoCommand
    BY <1>1, <2>2, ServerAssumption DEF NoCommand, NoId
  <2>3. CASE lines[c] # <<>> /\ cmd'[c] = Head(lines[c])
    <3>1. lines[c] \in Seq(Command)
      BY DEF TypeInv, TypeOK, ThreadTypeOK
    <3>2. 1 \in DOMAIN lines[c] /\ cmd'[c] = lines[c][1]
      BY <2>3, <3>1
    <3> QED BY <1>1, <3>2 DEF LinesInv
  <2> QED BY <2>1, <2>2, <2>3, CmdFrom
<1> QED BY <1>1, SameFdStays DEF CmdInv

\* broadcastMessage leaves out the number of the thread, which is that of the author.
LEMMA OutStep ==
  ASSUME TypeInv, CmdInv, OutInv, [Next]_vars
  PROVE  OutInv'
<1> SUFFICES ASSUME NEW c \in Conns, NEW k \in Conns, NEW n \in 1..MaxLines, NEW s \in out'[c],
                    s.line.kind = "public", s.line.id = <<k, n>>
             PROVE  s.fd # fd[k] /\ peer[k] # "idle"
  BY FdStep DEF OutInv
<1>1. CASE s \in out[c]
  BY <1>1 DEF OutInv
<1>2. CASE NoNewClaim
  BY <1>1, <1>2 DEF NoNewClaim, Claims
<1>3. ASSUME NEW d \in Conns, AddUserStep(d) \/ Snapshot(d) \/ Route(d) \/ SendNext(d), s \notin out[c]
      PROVE  s.fd # fd[k] /\ peer[k] # "idle"
  <2>1. CASE d # c
    BY <1>3, <2>1 DEF AddUserStep, Reply, Snapshot, Route, SendNext, TypeInv, TypeOK, ThreadTypeOK
  <2>2. CASE d = c /\ AddUserStep(c)
    BY <2>2 DEF AddUserStep, Reply, ToSend, TypeInv, TypeOK, ThreadTypeOK
  <2>3. CASE d = c /\ Snapshot(c)
    <3>1. s \in {ToSend(<<0, i>>, clientSockets[i], "public", cmd[c].id, NoLogin) : i \in Targets(c)}
      BY <2>3 DEF Snapshot, TypeInv, TypeOK, ThreadTypeOK
    <3>2. s.line.id = cmd[c].id /\ s.fd # fd[c]
      BY <3>1 DEF ToSend, Targets
    <3> QED BY <3>2 DEF CmdInv, SameFd
  <2>4. CASE d = c /\ Route(c)
    <3>1. s.line = [kind |-> "private", id |-> cmd[c].id, login |-> cmd[c].login]
      BY <2>4, RouteSends
    <3> QED BY <3>1
  <2>5. CASE d = c /\ SendNext(c)
    BY <1>3, <2>5, SendNextMoves
  <2> QED BY <1>3, <2>1, <2>2, <2>3, <2>4, <2>5
<1> QED BY <1>1, <1>2, <1>3, ClaimStep

LEMMA EchoStep ==
  ASSUME TypeInv, EchoInv, [Next]_vars
  PROVE  NoSelfEcho'
<1>1. CASE wire' = wire
  BY <1>1 DEF EchoInv, NoSelfEcho, OnWire
<1>2. ASSUME NEW c \in Conns, SendNext(c), wire' # wire
      PROVE  NoSelfEcho'
  <2>1. PICK s \in out[c], ok \in BOOLEAN : SendLine(s.fd, s.line, ok)
    BY <1>2 DEF SendNext
  <2>2. s.fd \in Fds /\ s.line \in Line
    BY DEF TypeInv, TypeOK, ThreadTypeOK, PendingSend
  <2> DEFINE k == fdTable[s.fd]
  <2>3. k \in Conns /\ wire' = [wire EXCEPT ![k] = Append(@, s.line)]
    BY <1>2, <2>1, <2>2 DEF SendLine, TypeInv, TypeOK, ServerTypeOK
  <2>4. fd[k] = s.fd
    BY <2>2, <2>3 DEF EchoInv, TableInv
  <2>5. ASSUME NEW n \in 1..MaxLines, s.line.kind = "public", s.line.id = <<k, n>>
        PROVE  FALSE
    BY <2>3, <2>4, <2>5 DEF EchoInv, OutInv
  <2> HIDE DEF k
  <2>6. \A d \in Conns : \A i \in DOMAIN wire'[d] :
          \/ i \in DOMAIN wire[d] /\ wire'[d][i] = wire[d][i]
          \/ d = k /\ wire'[d][i] = s.line
    BY <2>2, <2>3, WireEntry
  <2> QED BY <2>5, <2>6 DEF EchoInv, NoSelfEcho, OnWire
<1>3. wire' = wire \/ \E c \in Conns : SendNext(c)
  <2>1. CASE NoNewClaim
    BY <2>1 DEF NoNewClaim
  <2>2. ASSUME NEW c \in Conns, AddUserStep(c) \/ Snapshot(c) \/ Route(c)
        PROVE  wire' = wire
    BY <2>2 DEF AddUserStep, Snapshot, Route, peerVars
  <2> QED BY <2>1, <2>2, ClaimStep
<1> QED BY <1>1, <1>2, <1>3

\* No line of a connection ever comes back on it as a broadcast, for any order in
\* which descriptor numbers are closed and given out again: broadcastMessage leaves
\* out the thread's own number, and whatever connection the thread's recv reads,
\* that number was that connection's own.
THEOREM NoEcho == Spec => []NoSelfEcho
<1>1. ASSUME Init PROVE EchoInv
  <2>1. TableInv /\ ActiveInv /\ ReadingInv
    BY <1>1, ServerAssumption DEF Init, TableInv, ActiveInv, ReadingInv
  <2>2. InboxInv /\ LinesInv /\ CmdInv /\ OutInv
    BY <1>1, ServerAssumption DEF Init, InboxInv, LinesInv, CmdInv, OutInv, NoCommand, NoId
  <2>3. NoSelfEcho
    BY <1>1 DEF Init, NoSelfEcho, OnWire
  <2> QED BY <2>1, <2>2, <2>3 DEF EchoInv
<1>2. TypeInv /\ EchoInv /\ [Next]_vars => EchoInv'
  BY TableStep, ActiveStep, ReadingStep, InboxStep, LinesStep, CmdStep, OutStep, EchoStep DEF EchoInv
<1>3. EchoInv => NoSelfEcho
  BY DEF EchoInv
<1> QED BY <1>1, <1>2, <1>3, InitType, StepType, PTL DEF Spec

=============================================================================
