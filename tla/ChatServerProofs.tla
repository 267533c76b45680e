-------------------------- MODULE ChatServerProofs --------------------------
(***************************************************************************)
(* Theorems about ChatServer, for every value of its constants.            *)
(***************************************************************************)
EXTENDS ChatServerProperties, SequenceTheorems, TLAPS

\* What a thread's position says of its locals; with TypeOK it is inductive.
Shape ==
  \A c \in Conns :
    /\ pc[c] # "none" \/ incoming = c => fd[c] \in Fds
    /\ pc[c] \in {"erase", "close"} => failed[c] # <<>>
    /\ pc[c] = "wait" => reading[c] \in Conns
    /\ pc[c] = "addUser" => cmd[c].login \in Logins /\ cmd[c].password \in Passwords

TypeInv == TypeOK /\ Shape

-----------------------------------------------------------------------------
(* Sequences *)

LEMMA RemoveAtType ==
  ASSUME NEW S, NEW s \in Seq(S), NEW i \in 1..Len(s)
  PROVE  RemoveAt(s, i) \in Seq(S)
<1>1. \A j \in 1..Len(s) : s[j] \in S
  BY ElementOfSeq
<1>2. /\ SubSeq(s, 1, i - 1) \in Seq(S)
      /\ SubSeq(s, i + 1, Len(s)) \in Seq(S)
  BY <1>1, SubSeqProperties
<1> QED BY <1>2, ConcatProperties DEF RemoveAt

-----------------------------------------------------------------------------
(* The store *)

LEMMA UserIdType == DbTypeOK => \A l : UserId(l) \in Nat
BY DEF DbTypeOK, UserId, Registered, Null

LEMMA AddUserType ==
  ASSUME DbTypeOK, NEW l \in Logins, NEW p \in Passwords, NEW ok, AddUser(l, p, ok)
  PROVE  DbTypeOK'
<1>1. [login |-> l, password |-> p] \in UserRow
  BY DEF UserRow
<1> QED BY <1>1, AppendProperties DEF DbTypeOK, AddUser

LEMMA AddMessageType ==
  ASSUME DbTypeOK, NEW s, NEW r \in Logins \cup {NoLogin}, NEW t \in Contents,
         AddMessage(s, r, t)
  PROVE  DbTypeOK'
<1>1. [from |-> UserId(s), to |-> IF r = NoLogin THEN Null ELSE UserId(r), content |-> t,
       time |-> clock, addr |-> r] \in MessageRow
  BY UserIdType DEF MessageRow, DbTypeOK, Null
<1> QED BY <1>1, AppendProperties DEF DbTypeOK, AddMessage

-----------------------------------------------------------------------------
(* Type correctness *)

LEMMA InitType == Init => TypeInv
<1> SUFFICES ASSUME Init PROVE TypeInv
  OBVIOUS
<1> USE DEF Init
<1>1. DbTypeOK
  BY DbAssumption DEF DbInit, DbTypeOK, MessageRow
<1>2. ServerTypeOK
  BY EmptySeq, Zenon DEF ServerTypeOK
<1>3. ThreadTypeOK
  BY DEF ThreadTypeOK, PCs, NoCommand, Command, Ops
<1>4. PeerTypeOK
  BY ServerAssumption DEF PeerTypeOK
<1>5. Shape
  BY ServerAssumption DEF Shape
<1> QED BY <1>1, <1>2, <1>3, <1>4, <1>5 DEF TypeInv, TypeOK

LEMMA Untouched ==
  /\ DbTypeOK /\ UNCHANGED dbVars => DbTypeOK'
  /\ ServerTypeOK /\ UNCHANGED serverVars => ServerTypeOK'
  /\ PeerTypeOK /\ UNCHANGED peerVars => PeerTypeOK'
BY DEF DbTypeOK, dbVars, ServerTypeOK, serverVars, PeerTypeOK, peerVars

LEMMA NoCommandType == NoCommand \in Command
BY DEF NoCommand, Command, Ops

\* A line taken from the buffer.
LEMMA TakesType ==
  ASSUME ThreadTypeOK, NEW c \in Conns, NEW ops, Takes(c, ops)
  PROVE  /\ Head(lines[c]) \in Command
         /\ pc[c] = "recv"
         /\ lines' \in [Conns -> Seq(Command)]
         /\ cmd' \in [Conns -> Command]
         /\ cmd'[c] = Head(lines[c])
         /\ \A d \in Conns \ {c} : cmd'[d] = cmd[d]
<1>1. /\ lines[c] \in Seq(Command) /\ lines[c] # <<>>
      /\ pc[c] = "recv"
  BY DEF ThreadTypeOK, Takes, Receives
<1>2. Head(lines[c]) \in Command /\ Tail(lines[c]) \in Seq(Command)
  BY <1>1, HeadTailProperties
<1> QED BY <1>1, <1>2 DEF ThreadTypeOK, Takes

LEMMA ToSendType ==
  ASSUME NEW at \in Nat \X Nat, NEW f \in Fds, NEW kind \in Kinds, NEW id \in Ids \cup {NoId},
         NEW l \in Logins \cup {NoLogin}
  PROVE  ToSend(at, f, kind, id, l) \in PendingSend
BY DEF ToSend, PendingSend, Line

\* A handler left with one line for its own client.
LEMMA ReplyType ==
  ASSUME TypeInv, NEW c \in Conns, pc[c] # "none", NEW kind \in Kinds,
         NEW l \in Logins \cup {NoLogin}, Reply(c, kind, l)
  PROVE  /\ pc' \in [Conns -> PCs] /\ pc'[c] = "send"
         /\ \A d \in Conns \ {c} : pc'[d] = pc[d]
         /\ out' \in [Conns -> SUBSET PendingSend]
<1>1. fd[c] \in Fds /\ NoId \in Ids \cup {NoId} /\ <<0, 0>> \in Nat \X Nat
  BY DEF TypeInv, Shape
<1>2. ToSend(<<0, 0>>, fd[c], kind, NoId, l) \in PendingSend
  BY <1>1, ToSendType
<1> QED BY <1>2 DEF TypeInv, TypeOK, ThreadTypeOK, Reply, SetPc, PCs

LEMMA JustRepliesType ==
  ASSUME TypeInv, NEW c \in Conns, NEW ops, NEW kind \in Kinds, JustReplies(c, ops, kind)
  PROVE  TypeInv'
<1>1. DbTypeOK' /\ ServerTypeOK' /\ PeerTypeOK'
  BY Untouched DEF TypeInv, TypeOK, JustReplies
<1>2. /\ Takes(c, ops) /\ Reply(c, kind, NoLogin) /\ UNCHANGED <<localVars, who, incoming>>
  BY DEF JustReplies, serverVars
<1>3. ThreadTypeOK'
  BY <1>2, TakesType, ReplyType DEF TypeInv, TypeOK, ThreadTypeOK, localVars
<1>4. Shape'
  BY <1>2, TakesType, ReplyType DEF TypeInv, TypeOK, Shape, localVars
<1> QED BY <1>1, <1>3, <1>4 DEF TypeInv, TypeOK

LEMMA StartType ==
  ASSUME TypeInv, Start
  PROVE  TypeInv'
<1>1. DbTypeOK'
  <2>1. PICK found \in BOOLEAN, ok \in BOOLEAN :
          IF found THEN UNCHANGED dbVars ELSE AddUser(Admin, AdminPassword, ok)
    BY DEF Start
  <2> QED BY <2>1, AddUserType, Untouched, ServerAssumption DEF TypeInv, TypeOK
<1>2. ServerTypeOK'
  BY Zenon DEF TypeInv, TypeOK, ServerTypeOK, Start
<1>3. ThreadTypeOK'
  BY DEF TypeInv, TypeOK, ThreadTypeOK, Start, threadVars, localVars
<1>4. PeerTypeOK'
  BY ServerAssumption DEF TypeInv, TypeOK, PeerTypeOK, Start
<1>5. Shape'
  BY DEF TypeInv, Shape, Start, threadVars, localVars
<1> QED BY <1>1, <1>2, <1>3, <1>4, <1>5 DEF TypeInv, TypeOK

LEMMA TerminateType ==
  ASSUME TypeInv, Terminate
  PROVE  TypeInv'
<1>1. DbTypeOK'
  BY Untouched DEF TypeInv, TypeOK, Terminate
<1>2. ServerTypeOK'
  BY EmptySeq, Zenon DEF ServerTypeOK, Terminate
<1>3. ThreadTypeOK'
  <2>1. pc' \in [Conns -> PCs] /\ fd' \in [Conns -> Fds \cup {-1}]
    BY DEF TypeInv, TypeOK, ThreadTypeOK, Terminate, PCs
  <2>2. /\ reading' \in [Conns -> Conns \cup {NoConn}]
        /\ lines' \in [Conns -> Seq(Command)]
        /\ who' \in [Conns -> Logins \cup {NoLogin}]
        /\ cmd' \in [Conns -> Command]
        /\ out' \in [Conns -> SUBSET PendingSend]
        /\ failed' \in [Conns -> Seq(Fds)]
        /\ undelivered' \in [Conns -> BOOLEAN]
    BY EmptySeq, NoCommandType DEF Terminate
  <2> QED BY <2>1, <2>2 DEF ThreadTypeOK
<1>4. PeerTypeOK'
  BY EmptySeq DEF TypeInv, TypeOK, PeerTypeOK, Terminate
<1>5. Shape'
  BY ServerAssumption DEF TypeInv, TypeOK, ThreadTypeOK, Shape, Terminate, Live
<1> QED BY <1>1, <1>2, <1>3, <1>4, <1>5 DEF TypeInv, TypeOK

LEMMA AcceptType ==
  ASSUME TypeInv, NEW c \in Conns, Accept(c)
  PROVE  TypeInv'
<1>1. PICK f \in Fds : fdTable' = [fdTable EXCEPT ![f] = c] /\ fd' = [fd EXCEPT ![c] = f]
  BY DEF Accept
<1>2. DbTypeOK'
  BY Untouched DEF TypeInv, TypeOK, Accept
<1>3. ServerTypeOK'
  BY <1>1 DEF TypeInv, TypeOK, ServerTypeOK, Accept
<1>4. ThreadTypeOK'
  BY <1>1 DEF TypeInv, TypeOK, ThreadTypeOK, Accept
<1>5. PeerTypeOK'
  BY DEF TypeInv, TypeOK, PeerTypeOK, Accept
<1>6. Shape'
  BY <1>1 DEF TypeInv, TypeOK, ThreadTypeOK, Shape, Accept
<1> QED BY <1>2, <1>3, <1>4, <1>5, <1>6 DEF TypeInv, TypeOK

LEMMA SpawnType ==
  ASSUME TypeInv, Spawn
  PROVE  TypeInv'
<1>1. incoming \in Conns /\ fd[incoming] \in Fds
  BY DEF TypeInv, TypeOK, ServerTypeOK, Shape, Spawn
<1>2. DbTypeOK' /\ PeerTypeOK'
  BY Untouched DEF TypeInv, TypeOK, Spawn
<1>3. ServerTypeOK'
  BY <1>1, AppendProperties DEF TypeInv, TypeOK, ServerTypeOK, Spawn
<1>4. ThreadTypeOK'
  BY <1>1 DEF TypeInv, TypeOK, ThreadTypeOK, Spawn, localVars, PCs
<1>5. Shape'
  BY <1>1, ServerAssumption DEF TypeInv, TypeOK, ThreadTypeOK, Shape, Spawn, localVars
<1> QED BY <1>2, <1>3, <1>4, <1>5 DEF TypeInv, TypeOK

LEMMA PeerSendsType ==
  ASSUME TypeInv, NEW c \in Conns, PeerSends(c)
  PROVE  TypeInv'
<1>1. DbTypeOK' /\ ServerTypeOK'
  BY Untouched DEF TypeInv, TypeOK, PeerSends
<1>2. sent'[c] \in 1..MaxLines /\ sent' \in [Conns -> 0..MaxLines]
  BY ServerAssumption DEF TypeInv, TypeOK, PeerTypeOK, PeerSends
<1>3. PICK m \in Commands[c][sent'[c]] :
        inbox' = [inbox EXCEPT ![c] =
          Append(@, [op |-> m.op, login |-> m.login, password |-> m.password,
                     id |-> <<c, sent'[c]>>])]
  BY DEF PeerSends
<1>4. m \in CommandLine
  BY <1>2, ServerAssumption
<1>5. [op |-> m.op, login |-> m.login, password |-> m.password, id |-> <<c, sent'[c]>>]
        \in Command
  BY <1>2, <1>4 DEF CommandLine, Command, Ids
<1>6. inbox' \in [Conns -> Seq(Command)]
  BY <1>3, <1>5, AppendProperties DEF TypeInv, TypeOK, PeerTypeOK
<1>7. PeerTypeOK'
  BY <1>2, <1>6 DEF TypeInv, TypeOK, PeerTypeOK, PeerSends
<1>8. ThreadTypeOK' /\ Shape'
  BY DEF TypeInv, TypeOK, ThreadTypeOK, Shape, PeerSends, threadVars, localVars, serverVars
<1> QED BY <1>1, <1>7, <1>8 DEF TypeInv, TypeOK

LEMMA PeerClosesType ==
  ASSUME TypeInv, NEW c \in Conns, PeerCloses(c)
  PROVE  TypeInv'
<1>1. DbTypeOK' /\ ServerTypeOK'
  BY Untouched DEF TypeInv, TypeOK, PeerCloses
<1>2. PeerTypeOK'
  BY DEF TypeInv, TypeOK, PeerTypeOK, PeerCloses
<1>3. ThreadTypeOK' /\ Shape'
  BY DEF TypeInv, TypeOK, ThreadTypeOK, Shape, PeerCloses, threadVars, localVars, serverVars
<1> QED BY <1>1, <1>2, <1>3 DEF TypeInv, TypeOK

LEMMA CallRecvType ==
  ASSUME TypeInv, NEW c \in Conns, CallRecv(c)
  PROVE  TypeInv'
<1>1. DbTypeOK' /\ ServerTypeOK' /\ PeerTypeOK'
  BY Untouched DEF TypeInv, TypeOK, CallRecv
<1>2. fd[c] \in Fds /\ fdTable[fd[c]] \in Conns \cup {NoConn}
  BY DEF TypeInv, TypeOK, ServerTypeOK, Shape, CallRecv
<1>3. <<fd[c]>> \in Seq(Fds) /\ <<fd[c]>> # <<>>
  BY <1>2
<1>4. ThreadTypeOK'
  BY <1>2, <1>3 DEF TypeInv, TypeOK, ThreadTypeOK, CallRecv, SetPc, PCs
<1>5. Shape'
  BY <1>2, <1>3 DEF TypeInv, TypeOK, ThreadTypeOK, Shape, CallRecv, SetPc, serverVars
<1> QED BY <1>1, <1>4, <1>5 DEF TypeInv, TypeOK

\* What recv takes, and what it leaves.
LEMMA SplitSeq ==
  ASSUME NEW S, NEW s \in Seq(S), NEW n \in 1..Len(s)
  PROVE  /\ SubSeq(s, 1, n) \in Seq(S) /\ Len(SubSeq(s, 1, n)) = n
         /\ \A i \in 1..n : SubSeq(s, 1, n)[i] = s[i]
         /\ SubSeq(s, n + 1, Len(s)) \in Seq(S) /\ Len(SubSeq(s, n + 1, Len(s))) = Len(s) - n
         /\ \A i \in 1..(Len(s) - n) : SubSeq(s, n + 1, Len(s))[i] = s[n + i]
         /\ s = SubSeq(s, 1, n) \o SubSeq(s, n + 1, Len(s))
<1>1. Len(s) \in Nat /\ \A i \in 1..Len(s) : s[i] \in S
  BY ElementOfSeq
<1>2. /\ SubSeq(s, 1, n) \in Seq(S) /\ Len(SubSeq(s, 1, n)) = n
      /\ \A i \in 1..n : SubSeq(s, 1, n)[i] = s[i]
  BY <1>1, SubSeqProperties
<1>3. /\ SubSeq(s, n + 1, Len(s)) \in Seq(S) /\ Len(SubSeq(s, n + 1, Len(s))) = Len(s) - n
      /\ \A i \in 1..(Len(s) - n) : SubSeq(s, n + 1, Len(s))[i] = s[n + i]
  BY <1>1, SubSeqProperties
<1>4. SubSeq(s, 1, n) \o SubSeq(s, n + 1, Len(s)) = SubSeq(s, 1, Len(s))
  <2>1. 1 \in 1..(Len(s) + 1) /\ n \in (1 - 1)..Len(s) /\ Len(s) \in n..Len(s)
    BY <1>1
  <2> QED BY <2>1, ConcatAdjacentSubSeq
<1>5. SubSeq(s, 1, Len(s)) = s
  BY SubSeqFull
<1> QED BY <1>2, <1>3, <1>4, <1>5

\* recv leaves the first n lines that have arrived with the thread.
LEMMA RecvTakes ==
  ASSUME TypeInv, NEW c \in Conns, RecvData(c)
  PROVE  /\ reading[c] \in Conns /\ inbox[reading[c]] \in Seq(Command)
         /\ \E n \in 1..Len(inbox[reading[c]]) :
              /\ lines' = [lines EXCEPT ![c] = SubSeq(inbox[reading[c]], 1, n)]
              /\ inbox' = [inbox EXCEPT ![reading[c]] =
                             SubSeq(inbox[reading[c]], n + 1, Len(inbox[reading[c]]))]
BY DEF RecvData, TypeInv, TypeOK, PeerTypeOK, Shape

LEMMA RecvDataType ==
  ASSUME TypeInv, NEW c \in Conns, RecvData(c)
  PROVE  TypeInv'
<1>1. DbTypeOK' /\ ServerTypeOK'
  BY Untouched DEF TypeInv, TypeOK, RecvData
<1>2. reading[c] \in Conns /\ fd[c] \in Fds
  BY DEF TypeInv, Shape, RecvData
<1> DEFINE r == reading[c]
<1>6. PICK n \in 1..Len(inbox[r]) :
        /\ lines' = [lines EXCEPT ![c] = SubSeq(inbox[r], 1, n)]
        /\ inbox' = [inbox EXCEPT ![r] = SubSeq(inbox[r], n + 1, Len(inbox[r]))]
  BY RecvTakes
<1>7. SubSeq(inbox[r], 1, n) \in Seq(Command) /\ SubSeq(inbox[r], n + 1, Len(inbox[r])) \in Seq(Command)
  BY RecvTakes, SplitSeq
<1>3. PeerTypeOK'
  BY <1>2, <1>6, <1>7 DEF TypeInv, TypeOK, PeerTypeOK, RecvData
<1>4. ThreadTypeOK'
  BY <1>2, <1>6, <1>7 DEF TypeInv, TypeOK, ThreadTypeOK, RecvData, SetPc, PCs
<1>5. Shape'
  BY <1>2 DEF TypeInv, TypeOK, ThreadTypeOK, Shape, RecvData, SetPc, serverVars
<1> QED BY <1>1, <1>3, <1>4, <1>5 DEF TypeInv, TypeOK

LEMMA RecvEndType ==
  ASSUME TypeInv, NEW c \in Conns, RecvEnd(c)
  PROVE  TypeInv'
<1>1. DbTypeOK' /\ ServerTypeOK' /\ PeerTypeOK'
  BY Untouched DEF TypeInv, TypeOK, RecvEnd
<1>2. fd[c] \in Fds
  BY DEF TypeInv, Shape, RecvEnd
<1>3. <<fd[c]>> \in Seq(Fds) /\ <<fd[c]>> # <<>>
  BY <1>2
<1>4. ThreadTypeOK'
  BY <1>3 DEF TypeInv, TypeOK, ThreadTypeOK, RecvEnd, SetPc, PCs
<1>5. Shape'
  BY <1>2, <1>3 DEF TypeInv, TypeOK, ThreadTypeOK, Shape, RecvEnd, SetPc, serverVars
<1> QED BY <1>1, <1>4, <1>5 DEF TypeInv, TypeOK

LEMMA RegisterType ==
  ASSUME TypeInv, NEW c \in Conns, Register(c)
  PROVE  TypeInv'
<1> DEFINE m == Head(lines[c])
<1>1. DbTypeOK' /\ ServerTypeOK' /\ PeerTypeOK'
  BY Untouched DEF TypeInv, TypeOK, Register
<1>2. Takes(c, {"REGISTER"}) /\ UNCHANGED <<localVars, who, incoming>>
  BY DEF Register, serverVars
<1>3. m \in Command /\ fd[c] \in Fds /\ pc[c] # "none"
  BY <1>2, TakesType DEF TypeInv, TypeOK, Shape
<1>4. \/ Reply(c, "REGISTER_FAILED", m.login)
      \/ ~Incomplete(m) /\ SetPc(c, "addUser") /\ UNCHANGED out
  BY DEF Register
<1>5. CASE Reply(c, "REGISTER_FAILED", m.login)
  <2>1. "REGISTER_FAILED" \in Kinds /\ m.login \in Logins \cup {NoLogin}
    BY <1>3 DEF Kinds, Command
  <2> HIDE DEF m
  <2>2. ThreadTypeOK'
    BY <1>2, <1>3, <1>5, <2>1, TakesType, ReplyType DEF TypeInv, TypeOK, ThreadTypeOK, localVars
  <2>3. Shape'
    BY <1>2, <1>3, <1>5, <2>1, TakesType, ReplyType DEF TypeInv, TypeOK, Shape, localVars
  <2> QED BY <1>1, <2>2, <2>3 DEF TypeInv, TypeOK
<1>6. CASE ~Incomplete(m) /\ SetPc(c, "addUser") /\ UNCHANGED out
  <2>1. m.login \in Logins /\ m.password \in Passwords
    BY <1>3, <1>6 DEF Incomplete, Command
  <2>2. ThreadTypeOK'
    BY <1>2, <1>6, TakesType DEF TypeInv, TypeOK, ThreadTypeOK, localVars, SetPc, PCs
  <2>3. Shape'
    BY <1>2, <1>3, <1>6, <2>1, TakesType DEF TypeInv, TypeOK, ThreadTypeOK, Shape, localVars, SetPc
  <2> QED BY <1>1, <2>2, <2>3 DEF TypeInv, TypeOK
<1> QED BY <1>4, <1>5, <1>6

LEMMA AddUserStepType ==
  ASSUME TypeInv, NEW c \in Conns, AddUserStep(c)
  PROVE  TypeInv'
<1>1. PICK ok \in BOOLEAN :
        /\ AddUser(cmd[c].login, cmd[c].password, ok)
        /\ Reply(c, IF ok THEN "REGISTER_SUCCESS" ELSE "REGISTER_FAILED", cmd[c].login)
  BY DEF AddUserStep
<1>2. /\ cmd[c].login \in Logins /\ cmd[c].password \in Passwords
      /\ pc[c] # "none"
      /\ (IF ok THEN "REGISTER_SUCCESS" ELSE "REGISTER_FAILED") \in Kinds
  BY DEF TypeInv, Shape, AddUserStep, Kinds
<1>3. DbTypeOK'
  BY <1>1, <1>2, AddUserType DEF TypeInv, TypeOK
<1>4. ServerTypeOK' /\ PeerTypeOK'
  BY Untouched DEF TypeInv, TypeOK, AddUserStep
<1>5. ThreadTypeOK'
  BY <1>1, <1>2, ReplyType DEF TypeInv, TypeOK, ThreadTypeOK, AddUserStep, localVars
<1>6. Shape'
  BY <1>1, <1>2, ReplyType DEF TypeInv, Shape, AddUserStep, localVars, serverVars
<1> QED BY <1>3, <1>4, <1>5, <1>6 DEF TypeInv, TypeOK

LEMMA AuthorizeType ==
  ASSUME TypeInv, NEW c \in Conns, Authorize(c)
  PROVE  TypeInv'
<1> DEFINE m == Head(lines[c])
<1>1. DbTypeOK' /\ ServerTypeOK'
  BY Untouched DEF TypeInv, TypeOK, Authorize
<1>2. Takes(c, {"AUTH"}) /\ UNCHANGED <<localVars, incoming>>
  BY DEF Authorize, serverVars
<1>3. m \in Command /\ fd[c] \in Fds /\ pc[c] # "none" /\ m.login \in Logins \cup {NoLogin}
  BY <1>2, TakesType DEF TypeInv, TypeOK, Shape, Command
<1>4. \/ /\ VerifyUser(m.login, m.password, TRUE)
         /\ who' = [who EXCEPT ![c] = m.login]
         /\ authed' = [authed EXCEPT ![m.id[1]] = @ \cup (IF Proves(m) THEN {m.login} ELSE {})]
         /\ SetPc(c, "publish")
         /\ UNCHANGED out
      \/ Reply(c, "AUTH_FAILED", m.login) /\ UNCHANGED <<who, authed>>
  BY DEF Authorize
<1>5. CASE Reply(c, "AUTH_FAILED", m.login) /\ UNCHANGED <<who, authed>>
  <2>1. "AUTH_FAILED" \in Kinds
    BY DEF Kinds
  <2> HIDE DEF m
  <2>2. PeerTypeOK'
    BY <1>5 DEF TypeInv, TypeOK, PeerTypeOK, Authorize
  <2>3. ThreadTypeOK'
    BY <1>2, <1>3, <1>5, <2>1, TakesType, ReplyType DEF TypeInv, TypeOK, ThreadTypeOK, localVars
  <2>4. Shape'
    BY <1>2, <1>3, <1>5, <2>1, TakesType, ReplyType DEF TypeInv, TypeOK, Shape, localVars
  <2> QED BY <1>1, <2>2, <2>3, <2>4 DEF TypeInv, TypeOK
<1>6. CASE /\ VerifyUser(m.login, m.password, TRUE)
           /\ who' = [who EXCEPT ![c] = m.login]
           /\ authed' = [authed EXCEPT ![m.id[1]] = @ \cup (IF Proves(m) THEN {m.login} ELSE {})]
           /\ SetPc(c, "publish")
           /\ UNCHANGED out
  <2>1. Proves(m) => m.login \in Logins
    BY DEF Proves, Range, TypeInv, TypeOK, DbTypeOK, UserRow
  <2> HIDE DEF m
  <2>2. PeerTypeOK'
    BY <1>6, <2>1 DEF TypeInv, TypeOK, PeerTypeOK, Authorize
  <2>3. ThreadTypeOK'
    BY <1>2, <1>3, <1>6, TakesType DEF TypeInv, TypeOK, ThreadTypeOK, localVars, SetPc, PCs
  <2>4. Shape'
    BY <1>2, <1>3, <1>6, TakesType DEF TypeInv, TypeOK, ThreadTypeOK, Shape, localVars, SetPc
  <2> QED BY <1>1, <2>2, <2>3, <2>4 DEF TypeInv, TypeOK
<1> QED BY <1>4, <1>5, <1>6

LEMMA PublishType ==
  ASSUME TypeInv, NEW c \in Conns, Publish(c)
  PROVE  TypeInv'
<1>1. DbTypeOK' /\ PeerTypeOK'
  BY Untouched DEF TypeInv, TypeOK, Publish
<1>2. /\ pc[c] # "none" /\ who[c] \in Logins \cup {NoLogin} /\ "AUTH_SUCCESS" \in Kinds
      /\ Reply(c, "AUTH_SUCCESS", who[c])
  BY DEF TypeInv, TypeOK, ThreadTypeOK, Publish, Kinds
<1>3. ServerTypeOK'
  BY <1>2 DEF TypeInv, TypeOK, ServerTypeOK, Publish
<1>4. ThreadTypeOK'
  BY <1>2, ReplyType DEF TypeInv, TypeOK, ThreadTypeOK, Publish, localVars
<1>5. Shape'
  BY <1>2, ReplyType DEF TypeInv, Shape, Publish, localVars
<1> QED BY <1>1, <1>3, <1>4, <1>5 DEF TypeInv, TypeOK

LEMMA StorePublicType ==
  ASSUME TypeInv, NEW c \in Conns, StorePublic(c)
  PROVE  TypeInv'
<1>1. /\ Takes(c, {"ALL"}) /\ SetPc(c, "snapshot")
      /\ AddMessage(who[c], NoLogin, Head(lines[c]).id)
      /\ UNCHANGED <<localVars, who, out, incoming>>
  BY DEF StorePublic, serverVars
<1>2. Head(lines[c]).id \in Contents
  BY <1>1, TakesType, ServerAssumption DEF TypeInv, TypeOK, Command
<1>3. DbTypeOK'
  BY <1>1, <1>2, AddMessageType DEF TypeInv, TypeOK
<1>4. ServerTypeOK' /\ PeerTypeOK'
  BY Untouched DEF TypeInv, TypeOK, StorePublic
<1>5. ThreadTypeOK'
  BY <1>1, TakesType DEF TypeInv, TypeOK, ThreadTypeOK, localVars, SetPc, PCs
<1>6. Shape'
  BY <1>1, TakesType DEF TypeInv, TypeOK, ThreadTypeOK, Shape, localVars, SetPc
<1> QED BY <1>3, <1>4, <1>5, <1>6 DEF TypeInv, TypeOK

LEMMA AfterType ==
  ASSUME NEW sends, NEW closes, NEW notice
  PROVE  /\ After(sends, closes, notice) \in {"send", "erase", "notice", "recv"}
         /\ After(sends, closes, notice) = "erase" => closes # <<>>
BY DEF After

\* A handler that goes on to its next send, close, notice or command.
LEMMA ResumeType ==
  ASSUME ThreadTypeOK, NEW c \in Conns, NEW to \in {"send", "erase", "notice", "recv"},
         Resume(c, to)
  PROVE  /\ pc' \in [Conns -> PCs] /\ pc'[c] = to
         /\ \A d \in Conns \ {c} : pc'[d] = pc[d]
         /\ cmd' \in [Conns -> Command]
         /\ \A d \in Conns \ {c} : cmd'[d] = cmd[d]
BY NoCommandType DEF ThreadTypeOK, Resume, SetPc, PCs

LEMMA SnapshotType ==
  ASSUME TypeInv, NEW c \in Conns, Snapshot(c)
  PROVE  TypeInv'
<1> DEFINE targets ==
      {ToSend(<<0, i>>, clientSockets[i], "public", cmd[c].id, NoLogin) : i \in Targets(c)}
<1>1. DbTypeOK' /\ ServerTypeOK' /\ PeerTypeOK'
  BY Untouched DEF TypeInv, TypeOK, Snapshot
<1>2. /\ out' = [out EXCEPT ![c] = targets]
      /\ Resume(c, After(targets, <<>>, FALSE))
      /\ UNCHANGED <<localVars, lines, who, incoming>>
      /\ pc[c] = "snapshot"
  BY DEF Snapshot, serverVars
<1>3. targets \subseteq PendingSend
  <2>1. cmd[c].id \in Ids \cup {NoId} /\ "public" \in Kinds
    BY DEF TypeInv, TypeOK, ThreadTypeOK, Command, Kinds
  <2>2. \A i \in Targets(c) : clientSockets[i] \in Fds /\ <<0, i>> \in Nat \X Nat
    BY DEF TypeInv, TypeOK, ServerTypeOK, Targets
  <2> QED BY <2>1, <2>2, ToSendType
<1> HIDE DEF targets
<1>4. After(targets, <<>>, FALSE) \in {"send", "recv"}
  BY DEF After
<1>5. ThreadTypeOK'
  BY <1>2, <1>3, <1>4, ResumeType DEF TypeInv, TypeOK, ThreadTypeOK, localVars
<1>6. Shape'
  BY <1>2, <1>4, ResumeType DEF TypeInv, TypeOK, Shape, localVars
<1> QED BY <1>1, <1>5, <1>6 DEF TypeInv, TypeOK

LEMMA CheckReceiverType ==
  ASSUME TypeInv, NEW c \in Conns, CheckReceiver(c)
  PROVE  TypeInv'
<1> DEFINE l == Head(lines[c]).login
<1>1. DbTypeOK' /\ ServerTypeOK' /\ PeerTypeOK'
  BY Untouched DEF TypeInv, TypeOK, CheckReceiver
<1>2. Takes(c, {"PRIVATE"}) /\ UNCHANGED <<localVars, who, incoming>>
  BY DEF CheckReceiver, serverVars
<1>3. l \in Logins \cup {NoLogin} /\ fd[c] \in Fds /\ pc[c] # "none" /\ "PRIVATE_FAILED" \in Kinds
  BY <1>2, TakesType DEF TypeInv, TypeOK, Shape, Command, Kinds
<1>4. Reply(c, "PRIVATE_FAILED", l) \/ (SetPc(c, "store") /\ UNCHANGED out)
  BY DEF CheckReceiver
<1> HIDE DEF l
<1>5. CASE Reply(c, "PRIVATE_FAILED", l)
  <2>1. ThreadTypeOK'
    BY <1>2, <1>3, <1>5, TakesType, ReplyType DEF TypeInv, TypeOK, ThreadTypeOK, localVars
  <2>2. Shape'
    BY <1>2, <1>3, <1>5, TakesType, ReplyType DEF TypeInv, TypeOK, Shape, localVars
  <2> QED BY <1>1, <2>1, <2>2 DEF TypeInv, TypeOK
<1>6. CASE SetPc(c, "store") /\ UNCHANGED out
  <2>1. ThreadTypeOK'
    BY <1>2, <1>6, TakesType DEF TypeInv, TypeOK, ThreadTypeOK, localVars, SetPc, PCs
  <2>2. Shape'
    BY <1>2, <1>3, <1>6, TakesType DEF TypeInv, TypeOK, ThreadTypeOK, Shape, localVars, SetPc
  <2> QED BY <1>1, <2>1, <2>2 DEF TypeInv, TypeOK
<1> QED BY <1>4, <1>5, <1>6

LEMMA StorePrivateType ==
  ASSUME TypeInv, NEW c \in Conns, StorePrivate(c)
  PROVE  TypeInv'
<1>1. cmd[c].login \in Logins \cup {NoLogin} /\ cmd[c].id \in Contents
  BY ServerAssumption DEF TypeInv, TypeOK, ThreadTypeOK, Command
<1>2. DbTypeOK'
  BY <1>1, AddMessageType DEF TypeInv, TypeOK, StorePrivate
<1>3. ServerTypeOK' /\ PeerTypeOK'
  BY Untouched DEF TypeInv, TypeOK, StorePrivate
<1>4. ThreadTypeOK'
  BY DEF TypeInv, TypeOK, ThreadTypeOK, StorePrivate, localVars, SetPc, PCs
<1>5. Shape'
  BY DEF TypeInv, TypeOK, ThreadTypeOK, Shape, StorePrivate, localVars, serverVars, SetPc
<1> QED BY <1>2, <1>3, <1>4, <1>5 DEF TypeInv, TypeOK

LEMMA RouteType ==
  ASSUME TypeInv, NEW c \in Conns, Route(c)
  PROVE  TypeInv'
<1> DEFINE l == cmd[c].login
           first == {f \in Fds : clientLogins[f] = l
                       /\ \A g \in Fds : clientLogins[g] = l => f <= g}
           entry(at, f) == ToSend(<<0, at>>, f, "private", cmd[c].id, l)
           sends == {[entry(1, f) EXCEPT !.delivery = TRUE] : f \in first}
                      \cup (IF l # who[c] THEN {entry(2, fd[c])} ELSE {})
<1>1. DbTypeOK' /\ ServerTypeOK' /\ PeerTypeOK'
  BY Untouched DEF TypeInv, TypeOK, Route
<1>2. /\ out' = [out EXCEPT ![c] = sends]
      /\ undelivered' = [undelivered EXCEPT ![c] = TRUE]
      /\ SetPc(c, After(sends, <<>>, TRUE))
      /\ UNCHANGED <<fd, reading, lines, who, cmd, failed, incoming>>
      /\ pc[c] = "route"
  BY DEF Route, serverVars
<1>3. sends \subseteq PendingSend
  <2>1. /\ cmd[c].id \in Ids \cup {NoId} /\ l \in Logins \cup {NoLogin}
        /\ "private" \in Kinds /\ fd[c] \in Fds
    BY <1>2 DEF TypeInv, TypeOK, ThreadTypeOK, Shape, Command, Kinds
  <2>2. \A f \in Fds : entry(1, f) \in PendingSend /\ entry(2, f) \in PendingSend
    BY <2>1, ToSendType
  <2> HIDE DEF entry
  <2>3. \A s \in PendingSend : [s EXCEPT !.delivery = TRUE] \in PendingSend
    BY DEF PendingSend
  <2>4. first \subseteq Fds
    OBVIOUS
  <2> HIDE DEF first
  <2>5. {[entry(1, f) EXCEPT !.delivery = TRUE] : f \in first} \subseteq PendingSend
    BY <2>2, <2>3, <2>4
  <2>6. (IF l # who[c] THEN {entry(2, fd[c])} ELSE {}) \subseteq PendingSend
    BY <2>1, <2>2
  <2> QED BY <2>5, <2>6, Zenon
<1> HIDE DEF sends
<1>4. After(sends, <<>>, TRUE) \in {"send", "notice"}
  BY DEF After
<1>5. ThreadTypeOK'
  BY <1>2, <1>3, <1>4 DEF TypeInv, TypeOK, ThreadTypeOK, SetPc, PCs
<1>6. Shape'
  BY <1>2, <1>4 DEF TypeInv, TypeOK, ThreadTypeOK, Shape, SetPc
<1> QED BY <1>1, <1>5, <1>6 DEF TypeInv, TypeOK

LEMMA NoticeType ==
  ASSUME TypeInv, NEW c \in Conns, Notice(c)
  PROVE  TypeInv'
<1>1. DbTypeOK' /\ ServerTypeOK' /\ PeerTypeOK'
  BY Untouched DEF TypeInv, TypeOK, Notice
<1>2. /\ pc[c] # "none" /\ cmd[c].login \in Logins \cup {NoLogin} /\ "OFFLINE" \in Kinds
      /\ Reply(c, "OFFLINE", cmd[c].login)
  BY DEF TypeInv, TypeOK, ThreadTypeOK, Notice, Command, Kinds
<1>3. ThreadTypeOK'
  BY <1>2, ReplyType DEF TypeInv, TypeOK, ThreadTypeOK, Notice
<1>4. Shape'
  BY <1>2, ReplyType DEF TypeInv, Shape, Notice, serverVars
<1> QED BY <1>1, <1>3, <1>4 DEF TypeInv, TypeOK

LEMMA SendRowsType ==
  ASSUME TypeInv, NEW c \in Conns, pc[c] # "none", NEW rows, rows \subseteq DOMAIN messages,
         NEW l \in Logins \cup {NoLogin}, SendRows(c, rows, l)
  PROVE  /\ pc' \in [Conns -> PCs] /\ pc'[c] = "send"
         /\ \A d \in Conns \ {c} : pc'[d] = pc[d]
         /\ out' \in [Conns -> SUBSET PendingSend]
<1>1. /\ fd[c] \in Fds /\ "history" \in Kinds /\ "END_OF_HISTORY" \in Kinds
      /\ <<MaxClock + 1, 0>> \in Nat \X Nat
  BY DbAssumption DEF TypeInv, Shape, Kinds
<1>2. \A i \in rows : <<messages[i].time, i>> \in Nat \X Nat
                        /\ messages[i].content \in Ids \cup {NoId}
  <2>1. \A i \in rows : i \in Nat /\ messages[i] \in MessageRow
    BY DEF TypeInv, TypeOK, DbTypeOK
  <2>2. \A i \in rows : messages[i].time \in Nat /\ messages[i].content \in Contents
    BY <2>1, DbAssumption DEF MessageRow
  <2> QED BY <2>1, <2>2, ServerAssumption
<1>3. \A i \in rows : ToSend(<<messages[i].time, i>>, fd[c], "history", messages[i].content, l)
                        \in PendingSend
  BY <1>1, <1>2, ToSendType
<1>4. ToSend(<<MaxClock + 1, 0>>, fd[c], "END_OF_HISTORY", NoId, l) \in PendingSend
  BY <1>1, ToSendType
<1> DEFINE sends == {ToSend(<<messages[i].time, i>>, fd[c], "history", messages[i].content, l) :
                       i \in rows}
                      \cup {ToSend(<<MaxClock + 1, 0>>, fd[c], "END_OF_HISTORY", NoId, l)}
<1>5. sends \subseteq PendingSend
  BY <1>3, <1>4
<1>6. out' = [out EXCEPT ![c] = sends] /\ SetPc(c, "send")
  BY Zenon DEF SendRows
<1> HIDE DEF sends
<1> QED BY <1>5, <1>6 DEF TypeInv, TypeOK, ThreadTypeOK, SetPc, PCs

\* A query that fails half way hands over fewer rows, and no others.
LEMMA FetchedRows ==
  ASSUME NEW rows, NEW got \in Fetched(rows)
  PROVE  got \subseteq rows /\ (~DbFaults => got = rows)
BY DEF Fetched

LEMMA GetHistoryType ==
  ASSUME TypeInv, NEW c \in Conns, GetHistory(c)
  PROVE  TypeInv'
<1>1. DbTypeOK' /\ ServerTypeOK' /\ PeerTypeOK'
  BY Untouched DEF TypeInv, TypeOK, GetHistory
<1>2. Takes(c, {"GET_HISTORY"}) /\ UNCHANGED <<localVars, who, incoming>>
  BY DEF GetHistory, serverVars
<1>3. PICK rows : rows \subseteq DOMAIN messages /\ SendRows(c, rows, NoLogin)
  BY FetchedRows DEF GetHistory, PublicRows
<1>4. ThreadTypeOK'
  BY <1>2, <1>3, TakesType, SendRowsType DEF TypeInv, TypeOK, ThreadTypeOK, localVars
<1>5. Shape'
  BY <1>2, <1>3, TakesType, SendRowsType DEF TypeInv, TypeOK, Shape, localVars
<1> QED BY <1>1, <1>4, <1>5 DEF TypeInv, TypeOK

LEMMA GetPrivateHistoryType ==
  ASSUME TypeInv, NEW c \in Conns, GetPrivateHistory(c)
  PROVE  TypeInv'
<1> DEFINE l == Head(lines[c]).login
<1>1. DbTypeOK' /\ ServerTypeOK' /\ PeerTypeOK'
  BY Untouched DEF TypeInv, TypeOK, GetPrivateHistory
<1>2. Takes(c, {"GET_PRIVATE"}) /\ UNCHANGED <<localVars, who, incoming>>
  BY DEF GetPrivateHistory, serverVars
<1>3. l \in Logins \cup {NoLogin} /\ pc[c] # "none" /\ "PRIVATE_HISTORY_FAILED" \in Kinds
  BY <1>2, TakesType DEF TypeInv, TypeOK, Command, Kinds
<1>4. \/ Reply(c, "PRIVATE_HISTORY_FAILED", l)
      \/ \E rows : rows \subseteq DOMAIN messages /\ SendRows(c, rows, l)
  <2>1. \A u, v : PrivateRows(u, v) \subseteq DOMAIN messages
    BY DEF PrivateRows
  <2> QED BY <2>1, FetchedRows DEF GetPrivateHistory
<1> HIDE DEF l
<1>5. /\ pc' \in [Conns -> PCs] /\ pc'[c] = "send"
      /\ \A d \in Conns \ {c} : pc'[d] = pc[d]
      /\ out' \in [Conns -> SUBSET PendingSend]
  BY <1>3, <1>4, ReplyType, SendRowsType
<1>6. ThreadTypeOK'
  BY <1>2, <1>5, TakesType DEF TypeInv, TypeOK, ThreadTypeOK, localVars
<1>7. Shape'
  BY <1>2, <1>5, TakesType DEF TypeInv, TypeOK, Shape, localVars
<1> QED BY <1>1, <1>6, <1>7 DEF TypeInv, TypeOK

LEMMA ExitType ==
  ASSUME TypeInv, NEW c \in Conns, Exit(c)
  PROVE  TypeInv'
<1>1. DbTypeOK' /\ PeerTypeOK'
  BY Untouched DEF TypeInv, TypeOK, Exit
<1>2. /\ lines[c] \in Seq(Command) /\ lines[c] # <<>> /\ fd[c] \in Fds
      /\ clientLogins' = [clientLogins EXCEPT ![fd[c]] = NoLogin]
  BY DEF TypeInv, TypeOK, ThreadTypeOK, Shape, Exit, Receives, ForgetLogin
<1>3. Tail(lines[c]) \in Seq(Command)
  BY <1>2, HeadTailProperties
<1>4. ServerTypeOK'
  BY <1>2 DEF TypeInv, TypeOK, ServerTypeOK, Exit
<1>5. ThreadTypeOK'
  BY <1>3 DEF TypeInv, TypeOK, ThreadTypeOK, Exit, localVars
<1>6. Shape'
  BY DEF TypeInv, Shape, Exit, localVars
<1> QED BY <1>1, <1>4, <1>5, <1>6 DEF TypeInv, TypeOK

LEMMA SendNextType ==
  ASSUME TypeInv, NEW c \in Conns, SendNext(c)
  PROVE  TypeInv'
<1> DEFINE Closes(s, ok) == IF ~ok /\ s.line.kind \in ClosingKinds
                            THEN Append(failed[c], s.fd) ELSE failed[c]
           Notices(s, ok) == undelivered[c] /\ ~(ok /\ s.delivery)
<1>1. PICK s \in out[c], ok \in BOOLEAN :
        /\ SendLine(s.fd, s.line, ok)
        /\ out' = [out EXCEPT ![c] = Left(c, s, ok)]
        /\ failed' = [failed EXCEPT ![c] = Closes(s, ok)]
        /\ undelivered' = [undelivered EXCEPT ![c] = Notices(s, ok)]
        /\ Resume(c, After(Left(c, s, ok), Closes(s, ok), Notices(s, ok)))
  BY Zenon DEF SendNext
<1> DEFINE closes == Closes(s, ok)
           notice == Notices(s, ok)
<1>2. /\ UNCHANGED <<fd, reading, lines, who, incoming>> /\ pc[c] = "send"
      /\ UNCHANGED <<peer, inbox, sent, authed, starts>>
  BY DEF SendNext, serverVars
<1>3. DbTypeOK' /\ ServerTypeOK'
  BY Untouched DEF TypeInv, TypeOK, SendNext
<1>4. s \in PendingSend /\ s.fd \in Fds /\ s.line \in Line
  BY DEF TypeInv, TypeOK, ThreadTypeOK, PendingSend
<1>5. PeerTypeOK'
  <2>1. wire' \in [Conns -> Seq(Line)]
    <3>1. CASE UNCHANGED wire
      BY <3>1 DEF TypeInv, TypeOK, PeerTypeOK
    <3>2. CASE ~UNCHANGED wire
      <4>1. /\ fdTable[s.fd] \in Conns
            /\ wire' = [wire EXCEPT ![fdTable[s.fd]] = Append(@, s.line)]
        BY <1>1, <1>4, <3>2 DEF SendLine, TypeInv, TypeOK, ServerTypeOK
      <4> QED BY <1>4, <4>1, AppendProperties DEF TypeInv, TypeOK, PeerTypeOK
    <3> QED BY <3>1, <3>2
  <2> QED BY <1>2, <2>1 DEF TypeInv, TypeOK, PeerTypeOK
<1>6. /\ closes \in Seq(Fds) /\ Left(c, s, ok) \subseteq PendingSend
      /\ undelivered' \in [Conns -> BOOLEAN]
  <2>1. failed[c] \in Seq(Fds) /\ out[c] \subseteq PendingSend
    BY DEF TypeInv, TypeOK, ThreadTypeOK
  <2>2. closes \in Seq(Fds)
    BY <1>4, <2>1, AppendProperties
  <2>3. Left(c, s, ok) \subseteq PendingSend
    BY <2>1 DEF Left
  <2>4. undelivered \in [Conns -> BOOLEAN] /\ notice \in BOOLEAN
    BY Zenon DEF TypeInv, TypeOK, ThreadTypeOK
  <2>5. undelivered' \in [Conns -> BOOLEAN]
    BY <1>1, <2>4
  <2> QED BY <2>2, <2>3, <2>5
<1> HIDE DEF Closes, Notices
<1>7. /\ After(Left(c, s, ok), closes, notice) \in {"send", "erase", "notice", "recv"}
      /\ After(Left(c, s, ok), closes, notice) = "erase" => closes # <<>>
  BY AfterType
<1>8. ThreadTypeOK'
  BY <1>1, <1>2, <1>6, <1>7, ResumeType DEF TypeInv, TypeOK, ThreadTypeOK
<1>9. Shape'
  BY <1>1, <1>2, <1>6, <1>7, ResumeType DEF TypeInv, TypeOK, ThreadTypeOK, Shape
<1> QED BY <1>3, <1>5, <1>8, <1>9 DEF TypeInv, TypeOK

LEMMA ForgetSocketType ==
  ASSUME ServerTypeOK, NEW f, ForgetSocket(f)
  PROVE  clientSockets' \in Seq(Fds)
BY RemoveAtType DEF ServerTypeOK, ForgetSocket

LEMMA EraseType ==
  ASSUME TypeInv, NEW c \in Conns, Erase(c)
  PROVE  TypeInv'
<1>1. DbTypeOK' /\ PeerTypeOK'
  BY Untouched DEF TypeInv, TypeOK, Erase
<1>2. failed[c] # <<>>
  BY DEF TypeInv, Shape, Erase
<1>3. clientLogins' \in [Fds -> Logins \cup {NoLogin}]
  BY DEF TypeInv, TypeOK, ServerTypeOK, Erase, ForgetLogin
<1>4. ServerTypeOK'
  BY <1>3, ForgetSocketType DEF TypeInv, TypeOK, ServerTypeOK, Erase
<1>5. ThreadTypeOK'
  BY DEF TypeInv, TypeOK, ThreadTypeOK, Erase, localVars, SetPc, PCs
<1>6. Shape'
  BY <1>2 DEF TypeInv, TypeOK, ThreadTypeOK, Shape, Erase, localVars, SetPc
<1> QED BY <1>1, <1>4, <1>5, <1>6 DEF TypeInv, TypeOK

LEMMA CloseType ==
  ASSUME TypeInv, NEW c \in Conns, Close(c)
  PROVE  TypeInv'
<1> DEFINE closes == Tail(failed[c])
<1>1. DbTypeOK' /\ PeerTypeOK'
  BY Untouched DEF TypeInv, TypeOK, Close
<1>2. ServerTypeOK'
  BY DEF TypeInv, TypeOK, ServerTypeOK, Close, SocketClose
<1>3. failed[c] \in Seq(Fds) /\ failed[c] # <<>> /\ pc[c] = "close"
  BY DEF TypeInv, TypeOK, ThreadTypeOK, Shape, Close
<1>4. closes \in Seq(Fds)
  BY <1>3, HeadTailProperties
<1>5. /\ failed' = [failed EXCEPT ![c] = closes]
      /\ UNCHANGED <<incoming, fd, reading, lines, out, undelivered>>
      /\ \/ SetPc(c, "done") /\ who' = [who EXCEPT ![c] = NoLogin] /\ UNCHANGED cmd
         \/ Resume(c, After({}, closes, undelivered[c])) /\ UNCHANGED who
  BY DEF Close
<1> HIDE DEF closes
<1>6. CASE SetPc(c, "done") /\ who' = [who EXCEPT ![c] = NoLogin] /\ UNCHANGED cmd
  <2>1. ThreadTypeOK'
    BY <1>4, <1>5, <1>6 DEF TypeInv, TypeOK, ThreadTypeOK, SetPc, PCs
  <2>2. Shape'
    BY <1>3, <1>5, <1>6 DEF TypeInv, TypeOK, ThreadTypeOK, Shape, SetPc
  <2> QED BY <1>1, <1>2, <2>1, <2>2 DEF TypeInv, TypeOK
<1>7. CASE Resume(c, After({}, closes, undelivered[c])) /\ UNCHANGED who
  <2>0. /\ After({}, closes, undelivered[c]) \in {"send", "erase", "notice", "recv"}
        /\ After({}, closes, undelivered[c]) = "erase" => closes # <<>>
    BY AfterType
  <2>1. ThreadTypeOK'
    BY <1>4, <1>5, <1>7, <2>0, ResumeType DEF TypeInv, TypeOK, ThreadTypeOK
  <2>2. Shape'
    BY <1>3, <1>5, <1>7, <2>0, ResumeType DEF TypeInv, TypeOK, ThreadTypeOK, Shape
  <2> QED BY <1>1, <1>2, <2>1, <2>2 DEF TypeInv, TypeOK
<1> QED BY <1>5, <1>6, <1>7

LEMMA OthersType ==
  ASSUME TypeInv,
         (SetClock /\ UNCHANGED <<serverVars, threadVars, peerVars>>) \/ UNCHANGED vars
  PROVE  TypeInv'
<1>1. DbTypeOK'
  BY DEF TypeInv, TypeOK, DbTypeOK, SetClock, vars, dbVars
<1>2. ServerTypeOK' /\ PeerTypeOK' /\ UNCHANGED <<threadVars, incoming>>
  BY Untouched DEF TypeInv, TypeOK, vars, serverVars
<1>3. ThreadTypeOK' /\ Shape'
  BY <1>2 DEF TypeInv, TypeOK, ThreadTypeOK, Shape, threadVars, localVars
<1> QED BY <1>1, <1>2, <1>3 DEF TypeInv, TypeOK

LEMMA HandlerStepType ==
  ASSUME TypeInv, NEW c \in Conns, HandlerStep(c)
  PROVE  TypeInv'
<1>1. CASE CallRecv(c) \/ RecvData(c) \/ RecvEnd(c)
  BY <1>1, CallRecvType, RecvDataType, RecvEndType
<1>2. CASE Register(c) \/ AddUserStep(c) \/ Authorize(c) \/ Publish(c)
  BY <1>2, RegisterType, AddUserStepType, AuthorizeType, PublishType
<1>3. CASE Expecting(c) \/ TooLong(c) \/ GetUsers(c) \/ UnknownCommand(c)
  <2>1. {"EXPECTING", "TOO_LONG", "USERS", "UNKNOWN"} \subseteq Kinds
    BY DEF Kinds
  <2>2. \E ops : \E kind \in {"EXPECTING", "TOO_LONG", "USERS", "UNKNOWN"} : JustReplies(c, ops, kind)
    BY <1>3 DEF Expecting, TooLong, GetUsers, UnknownCommand
  <2> QED BY <2>1, <2>2, JustRepliesType
<1>4. CASE StorePublic(c) \/ Snapshot(c)
  BY <1>4, StorePublicType, SnapshotType
<1>5. CASE CheckReceiver(c) \/ StorePrivate(c) \/ Route(c) \/ Notice(c)
  BY <1>5, CheckReceiverType, StorePrivateType, RouteType, NoticeType
<1>6. CASE GetHistory(c) \/ GetPrivateHistory(c)
  BY <1>6, GetHistoryType, GetPrivateHistoryType
<1>7. CASE GetPrivateThrows(c) \/ SigPipe(c)
  BY <1>7, TerminateType DEF GetPrivateThrows, SigPipe
<1>8. CASE Exit(c) \/ SendNext(c) \/ Erase(c) \/ Close(c)
  BY <1>8, ExitType, SendNextType, EraseType, CloseType
<1> QED BY <1>1, <1>2, <1>3, <1>4, <1>5, <1>6, <1>7, <1>8 DEF HandlerStep

LEMMA StepType == TypeInv /\ [Next]_vars => TypeInv'
<1> SUFFICES ASSUME TypeInv, [Next]_vars PROVE TypeInv'
  OBVIOUS
<1>1. CASE Start \/ Kill \/ Spawn
  BY <1>1, StartType, TerminateType, SpawnType DEF Kill
<1>2. CASE SetClock /\ UNCHANGED <<serverVars, threadVars, peerVars>>
  BY <1>2, OthersType
<1>3. ASSUME NEW c \in Conns, Accept(c) \/ HandlerStep(c) \/ PeerSends(c) \/ PeerCloses(c)
      PROVE  TypeInv'
  BY <1>3, AcceptType, HandlerStepType, PeerSendsType, PeerClosesType
<1>4. CASE UNCHANGED vars
  BY <1>4, OthersType
<1> QED BY <1>1, <1>2, <1>3, <1>4 DEF Next

\* Every reachable state has its type, and a thread at each place of handleClient
\* has the locals the code there dereferences: an open-ended recv has a connection,
\* closeClients a socket to close, addUser a login and a password.
THEOREM TypeCorrect == Spec => [](TypeOK /\ Shape)
<1>1. Init => TypeInv
  BY InitType
<1>2. TypeInv /\ [Next]_vars => TypeInv'
  BY StepType
<1>3. TypeInv => TypeOK /\ Shape
  BY DEF TypeInv
<1> QED BY <1>1, <1>2, <1>3, PTL DEF Spec

=============================================================================
