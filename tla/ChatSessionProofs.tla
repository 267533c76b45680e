--------------------------- MODULE ChatSessionProofs ---------------------------
(***************************************************************************)
(* ChatServer implements ChatSession on every connection.                  *)
(***************************************************************************)
EXTENDS ChatServerSessions, ChatOrderProofs

-----------------------------------------------------------------------------
(* What ChatSession sees of a connection *)

USE DEF Connected, Granting

Status(c)  == CASE peer[c] = "idle" -> "idle" [] peer[c] = "open" -> "open" [] OTHER -> "over"
Queue(c)   == IF Connected(c) THEN lines[c] \o inbox[c] ELSE <<>>
Current(c) == IF Connected(c) /\ pc[c] \notin {"none", "recv", "wait"} THEN cmd[c] ELSE NoCommand
Account(c) == IF Connected(c) /\ ~Granting(c) THEN who[c] ELSE NoLogin
Stream(c)  == IF Connected(c) THEN [i \in DOMAIN wire[c] |-> wire[c][i].kind] ELSE <<>>

\* The last lines of the answers to op, to a client that is known or is not.
AnswersTo(op, known) ==
  CASE op = "TOO_LONG"                 -> {"TOO_LONG"}
    [] op = "REGISTER" /\ ~known       -> {"REGISTER_SUCCESS", "REGISTER_FAILED"}
    [] op = "AUTH" /\ ~known           -> {"AUTH_SUCCESS", "AUTH_FAILED"}
    [] ~known /\ op \notin {"REGISTER", "AUTH", "TOO_LONG"} -> {"EXPECTING"}
    [] known /\ op \in {"REGISTER", "AUTH", "UNKNOWN"}      -> {"UNKNOWN"}
    [] known /\ op = "PRIVATE"         -> {"PRIVATE_FAILED", "private", "OFFLINE"}
    [] known /\ op = "GET_USERS"       -> {"USERS"}
    [] known /\ op = "GET_HISTORY"     -> {"END_OF_HISTORY"}
    [] known /\ op = "GET_PRIVATE"     -> {"END_OF_HISTORY", "PRIVATE_HISTORY_FAILED"}
    [] OTHER                           -> {}

LEMMA IsOpen ==
  ASSUME NEW c \in Conns, Status(c) = "idle", Status(c)' = "open",
         UNCHANGED <<Queue(c), Current(c), Account(c), Stream(c)>>
  PROVE  Session(c)!Next
<1>1. Session(c)!Open
  BY DEF Session!Open, Status, Queue, Current, Account, Stream
<1> QED BY <1>1 DEF Session!Next

LEMMA IsAsk ==
  ASSUME NEW c \in Conns, Status(c) = "open", NEW m, Queue(c) \in Seq(Command), m \in Command,
         Queue(c)' = Append(Queue(c), m),
         UNCHANGED <<Status(c), Current(c), Account(c), Stream(c)>>
  PROVE  Session(c)!Next
<1>1. Len(Queue(c)) + 1 \in DOMAIN Queue(c)' /\ (Queue(c)')[Len(Queue(c)) + 1] = m
  OBVIOUS
<1>2. Session(c)!Ask((Queue(c)')[Len(Queue(c)) + 1])
  BY <1>1 DEF Session!Ask, Status, Queue, Current, Account, Stream
<1> QED BY <1>1, <1>2 DEF Session!Next, Queue

LEMMA IsTake ==
  ASSUME NEW c \in Conns, Status(c) = "open", Current(c) = NoCommand, Queue(c) # <<>>,
         Current(c)' = Head(Queue(c)), Queue(c)' = Tail(Queue(c)),
         UNCHANGED <<Status(c), Account(c), Stream(c)>>
  PROVE  Session(c)!Next
<1>1. Session(c)!Take
  BY DEF Session!Take, Session!Idle, Status, Queue, Current, Account, Stream
<1> QED BY <1>1 DEF Session!Next

LEMMA IsLeave ==
  ASSUME NEW c \in Conns, Status(c) = "open", Current(c) = NoCommand, Queue(c) # <<>>,
         Head(Queue(c)).op = "EXIT", Account(c) # NoLogin,
         Queue(c)' = Tail(Queue(c)), Account(c)' = NoLogin,
         UNCHANGED <<Status(c), Current(c), Stream(c)>>
  PROVE  Session(c)!Next
<1>1. Session(c)!Leave
  BY DEF Session!Leave, Session!Idle, Session!Known, Status, Queue, Current, Account, Stream
<1> QED BY <1>1 DEF Session!Next

LEMMA IsSilent ==
  ASSUME NEW c \in Conns, Current(c) # NoCommand, Current(c).op \in {"ALL", "PRIVATE"},
         Account(c) # NoLogin, Current(c)' = NoCommand,
         UNCHANGED <<Status(c), Queue(c), Account(c), Stream(c)>>
  PROVE  Session(c)!Next
<1>1. Session(c)!Silent
  BY DEF Session!Silent, Session!Idle, Session!Known, Status, Queue, Current, Account, Stream
<1> QED BY <1>1 DEF Session!Next

LEMMA IsRow ==
  ASSUME NEW c \in Conns, Current(c) # NoCommand, Current(c).op \in {"GET_HISTORY", "GET_PRIVATE"},
         Account(c) # NoLogin, Stream(c)' = Append(Stream(c), "history"),
         UNCHANGED <<Status(c), Queue(c), Account(c), Current(c)>>
  PROVE  Session(c)!Next
<1>1. Session(c)!Row
  BY DEF Session!Row, Session!Says, Session!Idle, Session!Known, Status, Queue, Current, Account, Stream
<1> QED BY <1>1 DEF Session!Next

LEMMA Appended ==
  ASSUME NEW s \in Seq(Kinds), NEW kind \in Kinds, NEW t, t = Append(s, kind)
  PROVE  Len(s) + 1 \in DOMAIN t /\ t[Len(s) + 1] = kind
OBVIOUS

LEMMA IsChatter ==
  ASSUME NEW c \in Conns, Status(c) = "open", NEW kind \in {"public", "private"},
         Stream(c) \in Seq(Kinds), Stream(c)' = Append(Stream(c), kind),
         UNCHANGED <<Status(c), Queue(c), Account(c), Current(c)>>
  PROVE  Session(c)!Next
<1>1. PICK i : i \in DOMAIN Stream(c)' /\ (Stream(c)')[i] = kind
  BY Appended DEF Kinds
<1>2. Session(c)!Chatter((Stream(c)')[i])
  BY <1>1 DEF Session!Chatter, Session!Says, Status, Queue, Current, Account, Stream
<1> QED BY <1>1, <1>2, Zenon DEF Session!Next, Stream

LEMMA IsAnswer ==
  ASSUME NEW c \in Conns, Current(c) # NoCommand, NEW kind \in Kinds,
         kind \in AnswersTo(Current(c).op, Account(c) # NoLogin),
         Stream(c) \in Seq(Kinds), Stream(c)' = Append(Stream(c), kind),
         Account(c)' = IF kind = "AUTH_SUCCESS" THEN Current(c).login ELSE Account(c),
         Current(c)' = NoCommand,
         UNCHANGED <<Status(c), Queue(c)>>
  PROVE  Session(c)!Next
<1>1. kind \in Session(c)!Answers(Current(c).op)
  BY DEF Session!Answers, Session!Known, AnswersTo, Account
<1>2. PICK i : i \in DOMAIN Stream(c)' /\ (Stream(c)')[i] = kind
  BY Appended
<1>3. Session(c)!Answer((Stream(c)')[i])
  BY <1>1, <1>2 DEF Session!Answer, Session!Says, Session!Idle, Status, Queue, Current, Account, Stream
<1> QED BY <1>2, <1>3, Zenon DEF Session!Next, Stream

LEMMA IsClose ==
  ASSUME NEW c \in Conns, Status(c) = "open", Status(c)' = "over",
         Queue(c)' = <<>>, Current(c)' = NoCommand, Account(c)' = NoLogin, Stream(c)' = <<>>,
         Stream(c) \in Seq(Kinds)
  PROVE  Session(c)!Next
<1>1. SubSeq(Stream(c), 1, 0) = <<>> /\ 0 \in 0..Len(Stream(c))
  OBVIOUS
<1>2. Session(c)!Close(0)
  BY <1>1 DEF Session!Close, Status, Queue, Current, Account, Stream
<1> QED BY <1>1, <1>2 DEF Session!Next, Stream

LEMMA Stutters ==
  ASSUME NEW c \in Conns, UNCHANGED <<Status(c), Queue(c), Current(c), Account(c), Stream(c)>>
  PROVE  UNCHANGED Session(c)!sessionVars
BY DEF Session!sessionVars, Status, Queue, Current, Account, Stream

-----------------------------------------------------------------------------
(* What a handler still has to say *)

\* Only messages are sent to another client.
ToOthers ==
  \A c \in Conns : \A s \in out[c] : s.fd # fd[c] => s.line.kind \in {"public", "private"}

\* Nothing arrives on a connection that was not accepted.
Unopened == \A c \in Conns : peer[c] = "idle" => lines[c] = <<>> /\ inbox[c] = <<>>

\* One line, the answer to the command: the login counts from AUTH_SUCCESS on.
OneLine(c) ==
  /\ failed[c] = <<>> /\ ~undelivered[c]
  /\ \E s \in out[c] :
       /\ out[c] = {s} /\ s.fd = fd[c]
       /\ s.line.kind \in AnswersTo(cmd[c].op, who[c] # NoLogin /\ s.line.kind # "AUTH_SUCCESS")
       /\ s.line.kind = "AUTH_SUCCESS" => who[c] = cmd[c].login

\* Rows that were asked for, and the end mark after them.
ItsRows(c) ==
  /\ failed[c] = <<>> /\ ~undelivered[c]
  /\ who[c] # NoLogin /\ cmd[c].op \in {"GET_HISTORY", "GET_PRIVATE"}
  /\ \A s \in out[c] : s.fd = fd[c]
  /\ \E e \in out[c] :
       /\ e.line.kind = "END_OF_HISTORY"
       /\ \A s \in out[c] \ {e} : s.line.kind = "history" /\ ~NoLater(e.at, s.at)

\* A message, to others or in private.
ItsMessage(c) ==
  /\ who[c] # NoLogin
  /\ \/ cmd[c].op = "ALL" /\ \A s \in out[c] : s.fd # fd[c] /\ s.line.kind = "public"
     \/ cmd[c].op = "PRIVATE" /\ \A s \in out[c] : s.line.kind = "private"

\* What the place of the thread says of the command in hand.
Answering(c) ==
  /\ pc[c] = "addUser" => cmd[c].op = "REGISTER" /\ who[c] = NoLogin
  /\ pc[c] = "publish" => cmd[c].op = "AUTH" /\ who[c] = cmd[c].login
  /\ pc[c] = "snapshot" => cmd[c].op = "ALL" /\ who[c] # NoLogin
  /\ pc[c] \in {"store", "route", "notice"} => cmd[c].op = "PRIVATE" /\ who[c] # NoLogin
  /\ pc[c] \in {"erase", "close"} => cmd[c].op \in {"ALL", "PRIVATE"} /\ who[c] # NoLogin
  /\ pc[c] = "send" => OneLine(c) \/ ItsRows(c) \/ ItsMessage(c)

AnswerInv ==
  \A c \in Conns : peer[c] = "open" =>
    Answering(c) /\ (undelivered[c] => cmd[c].op = "PRIVATE")

LEMMA ToOthersStep ==
  ASSUME Owns, ToOthers, [Next]_vars
  PROVE  ToOthers'
<1> USE DEF Owns, Base
<1> SUFFICES ASSUME NEW c \in Conns, NEW s \in out'[c], s.fd # fd'[c]
             PROVE  s.line.kind \in {"public", "private"}
  BY DEF ToOthers
<1>1. CASE out'[c] \subseteq out[c]
  <2>1. s \in out[c] /\ pc[c] # "none"
    BY <1>1 DEF Places, PlaceInv
  <2> QED BY <2>1, FdStep DEF ToOthers, ActiveInv
<1>2. CASE Snapshot(c)
  <2>1. out'[c] = {ToSend(<<0, i>>, clientSockets[i], "public", cmd[c].id, NoLogin) : i \in Targets(c)}
    BY <1>2 DEF Snapshot, TypeInv, TypeOK, ThreadTypeOK
  <2> QED BY <2>1 DEF ToSend
<1>3. CASE Route(c)
  <2>1. s.line = [kind |-> "private", id |-> cmd[c].id, login |-> cmd[c].login]
    BY <1>3, RouteSends
  <2> QED BY <2>1
<1>4. CASE ~(out'[c] \subseteq out[c]) /\ \A t \in out'[c] : t.fd = fd[c]
  <2>1. \A d \in Conns : ~(Accept(d) \/ Quiet \/ Terminate \/ Spawn)
    BY <1>4 DEF Accept, Quiet, Terminate, Spawn, threadVars
  <2>2. fd' = fd
    BY <2>1, StepKinds, ThreadShares
  <2> QED BY <1>4, <2>2
<1> QED BY <1>1, <1>2, <1>3, <1>4, OutFrom

LEMMA UnopenedStep ==
  ASSUME Owns, Unopened, [Next]_vars
  PROVE  Unopened'
<1> USE DEF Owns, Base
<1> SUFFICES ASSUME NEW c \in Conns, peer'[c] = "idle"
             PROVE  lines'[c] = <<>> /\ inbox'[c] = <<>>
  BY DEF Unopened
<1>1. peer[c] = "idle" /\ lines[c] = <<>> /\ inbox[c] = <<>>
  BY FdStep DEF Unopened
<1>2. pc[c] # "wait"
  BY <1>1 DEF ActiveInv
<1> QED BY <1>1, <1>2, LinesOwn, InboxFrom DEF ReadsFirst

-----------------------------------------------------------------------------
(* The answers of the handlers *)

LEMMA RepliesOnce ==
  ASSUME TypeInv, NEW c \in Conns, NEW kind, NEW l, Reply(c, kind, l), fd' = fd,
         failed'[c] = <<>>, ~undelivered'[c],
         kind \in AnswersTo(cmd'[c].op, who'[c] # NoLogin /\ kind # "AUTH_SUCCESS"),
         kind = "AUTH_SUCCESS" => who'[c] = cmd'[c].login
  PROVE  Answering(c)'
<1> DEFINE s == ToSend(<<0, 0>>, fd[c], kind, NoId, l)
<1>1. pc'[c] = "send" /\ out'[c] = {s}
  BY DEF Reply, SetPc, TypeInv, TypeOK, ThreadTypeOK
<1>2. s.fd = fd[c] /\ s.line.kind = kind
  BY DEF ToSend
<1>3. OneLine(c)'
  <2> HIDE DEF s
  <2> QED BY <1>1, <1>2 DEF OneLine
<1> QED BY <1>1, <1>3 DEF Answering

LEMMA TakenReplies ==
  ASSUME Owns, NEW c \in Conns, NEW ops, Takes(c, ops), NEW kind, NEW l, Reply(c, kind, l),
         UNCHANGED <<localVars, who>>, kind # "AUTH_SUCCESS",
         \A op \in ops : kind \in AnswersTo(op, who[c] # NoLogin)
  PROVE  Answering(c)'
<1>1. /\ cmd'[c] = Head(lines[c]) /\ failed[c] = <<>> /\ ~undelivered[c]
  BY TakesCommand DEF Owns, Base, Places
<1>2. cmd'[c].op \in ops
  BY <1>1 DEF Takes, Receives
<1>3. (who'[c] # NoLogin /\ kind # "AUTH_SUCCESS") <=> who[c] # NoLogin
  OBVIOUS
<1>4. kind \in AnswersTo(cmd'[c].op, who'[c] # NoLogin /\ kind # "AUTH_SUCCESS")
  BY <1>2 DEF AnswersTo
<1>5. fd' = fd /\ failed'[c] = <<>> /\ ~undelivered'[c]
  BY <1>1 DEF localVars
<1> QED BY <1>4, <1>5, RepliesOnce DEF Owns, Base

LEMMA RowsFirst ==
  ASSUME TypeInv, NEW c \in Conns, NEW rows, rows \subseteq DOMAIN messages, NEW l, SendRows(c, rows, l), fd' = fd,
         failed'[c] = <<>>, ~undelivered'[c], who'[c] # NoLogin,
         cmd'[c].op \in {"GET_HISTORY", "GET_PRIVATE"}
  PROVE  Answering(c)'
<1> DEFINE row(i) == ToSend(<<messages[i].time, i>>, fd[c], "history", messages[i].content, l)
           e == ToSend(<<MaxClock + 1, 0>>, fd[c], "END_OF_HISTORY", NoId, l)
<1>1. pc'[c] = "send" /\ out'[c] = {row(i) : i \in rows} \cup {e}
  BY DEF SendRows, SetPc, TypeInv, TypeOK, ThreadTypeOK
<1>2. \A i \in rows : row(i).fd = fd[c] /\ row(i).line.kind = "history" /\ ~NoLater(e.at, row(i).at)
  <2>1. \A i \in rows : messages[i].time \in 0..MaxClock
    <3>1. \A i \in rows : messages[i] \in MessageRow
      BY DEF TypeInv, TypeOK, DbTypeOK
    <3> QED BY <3>1 DEF MessageRow
  <2>2. MaxClock \in Nat
    BY DbAssumption
  <2> QED BY <2>1, <2>2 DEF ToSend, NoLater
<1>3. e.fd = fd[c] /\ e.line.kind = "END_OF_HISTORY"
  BY DEF ToSend
<1>4. ItsRows(c)'
  <2> HIDE DEF row, e
  <2>1. e \in out'[c] /\ \A s \in out'[c] \ {e} : \E i \in rows : s = row(i)
    BY <1>1
  <2>2. \A s \in out'[c] : s.fd = fd'[c]
    BY <1>1, <1>2, <1>3
  <2>3. \A s \in out'[c] \ {e} : s.line.kind = "history" /\ ~NoLater(e.at, s.at)
    BY <1>2, <2>1
  <2> QED BY <1>3, <2>1, <2>2, <2>3 DEF ItsRows, NoLater
<1> QED BY <1>1, <1>4 DEF Answering

\* The handlers up to their first send.
LEMMA TakerAnswers ==
  ASSUME Owns, NEW c \in Conns, peer[c] = "open", ThreadStep(c),
         \E ops : Takes(c, ops)
  PROVE  Answering(c)'
<1> USE DEF Owns, Base
<1>1. CASE Register(c)
  <2>1. Takes(c, {"REGISTER"}) /\ who[c] = NoLogin /\ UNCHANGED <<localVars, who>>
    BY <1>1 DEF Register
  <2>2. CASE \E l : Reply(c, "REGISTER_FAILED", l)
    BY <2>1, <2>2, TakenReplies DEF AnswersTo
  <2>3. CASE SetPc(c, "addUser")
    <3>1. pc'[c] = "addUser" /\ cmd'[c].op = "REGISTER"
      BY <2>1, <2>3, TakesCommand DEF Takes, Receives, SetPc, TypeInv, TypeOK, ThreadTypeOK, Places
    <3> QED BY <2>1, <3>1 DEF Answering
  <2> QED BY <1>1, <2>2, <2>3 DEF Register
<1>2. CASE Authorize(c)
  <2>1. Takes(c, {"AUTH"}) /\ who[c] = NoLogin /\ UNCHANGED localVars
    BY <1>2 DEF Authorize
  <2>2. CASE \E l : Reply(c, "AUTH_FAILED", l) /\ UNCHANGED who
    BY <2>1, <2>2, TakenReplies DEF AnswersTo
  <2>3. CASE SetPc(c, "publish") /\ who' = [who EXCEPT ![c] = Head(lines[c]).login]
    <3>1. pc'[c] = "publish" /\ cmd'[c].op = "AUTH" /\ who'[c] = cmd'[c].login
      BY <2>1, <2>3, TakesCommand DEF Takes, Receives, SetPc, TypeInv, TypeOK, ThreadTypeOK, Places
    <3> QED BY <3>1 DEF Answering
  <2> QED BY <1>2, <2>2, <2>3 DEF Authorize
<1>3. CASE Expecting(c)
  <2>1. /\ Takes(c, Ops \ {"REGISTER", "AUTH", "TOO_LONG"}) /\ Reply(c, "EXPECTING", NoLogin)
        /\ who[c] = NoLogin /\ UNCHANGED <<localVars, who>>
    BY <1>3 DEF Expecting, JustReplies
  <2> QED BY <2>1, TakenReplies DEF AnswersTo
<1>4. CASE TooLong(c)
  <2>1. /\ Takes(c, {"TOO_LONG"}) /\ Reply(c, "TOO_LONG", NoLogin) /\ UNCHANGED <<localVars, who>>
    BY <1>4 DEF TooLong, JustReplies
  <2> QED BY <2>1, TakenReplies DEF AnswersTo
<1>5. CASE GetUsers(c)
  <2>1. /\ Takes(c, {"GET_USERS"}) /\ Reply(c, "USERS", NoLogin)
        /\ who[c] # NoLogin /\ UNCHANGED <<localVars, who>>
    BY <1>5 DEF GetUsers, JustReplies
  <2> QED BY <2>1, TakenReplies DEF AnswersTo
<1>6. CASE UnknownCommand(c)
  <2>1. /\ Takes(c, {"REGISTER", "AUTH", "UNKNOWN"}) /\ Reply(c, "UNKNOWN", NoLogin)
        /\ who[c] # NoLogin /\ UNCHANGED <<localVars, who>>
    BY <1>6 DEF UnknownCommand, JustReplies
  <2> QED BY <2>1, TakenReplies DEF AnswersTo
<1>7. CASE StorePublic(c)
  <2>1. pc'[c] = "snapshot" /\ cmd'[c].op = "ALL" /\ who'[c] # NoLogin
    BY <1>7, TakesCommand DEF StorePublic, Takes, Receives, SetPc, TypeInv, TypeOK, ThreadTypeOK, Places
  <2> QED BY <2>1 DEF Answering
<1>8. CASE CheckReceiver(c)
  <2>1. Takes(c, {"PRIVATE"}) /\ who[c] # NoLogin /\ UNCHANGED <<localVars, who>>
    BY <1>8 DEF CheckReceiver
  <2>2. CASE \E l : Reply(c, "PRIVATE_FAILED", l)
    BY <2>1, <2>2, TakenReplies DEF AnswersTo
  <2>3. CASE SetPc(c, "store")
    <3>1. pc'[c] = "store" /\ cmd'[c].op = "PRIVATE" /\ who'[c] # NoLogin
      BY <2>1, <2>3, TakesCommand DEF Takes, Receives, SetPc, TypeInv, TypeOK, ThreadTypeOK, Places
    <3> QED BY <3>1 DEF Answering
  <2> QED BY <1>8, <2>2, <2>3 DEF CheckReceiver
<1>9. CASE GetHistory(c) \/ GetPrivateHistory(c)
  <2>1. PICK op \in {"GET_HISTORY", "GET_PRIVATE"} :
          /\ Takes(c, {op}) /\ who[c] # NoLogin /\ UNCHANGED <<localVars, who>>
          /\ \/ op = "GET_PRIVATE" /\ \E l : Reply(c, "PRIVATE_HISTORY_FAILED", l)
             \/ \E l, rows : rows \subseteq DOMAIN messages /\ SendRows(c, rows, l)
    <3>1. CASE GetHistory(c)
      <4>1. PublicRows \subseteq DOMAIN messages
        BY DEF PublicRows
      <4>2. PICK rows \in Fetched(PublicRows) : SendRows(c, rows, NoLogin)
        BY <3>1 DEF GetHistory
      <4> QED BY <3>1, <4>1, <4>2, FetchedRows DEF GetHistory
    <3>2. CASE GetPrivateHistory(c)
      <4> DEFINE l == Head(lines[c]).login
      <4>1. PrivateRows(who[c], l) \subseteq DOMAIN messages
        BY DEF PrivateRows
      <4>2. \/ Reply(c, "PRIVATE_HISTORY_FAILED", l)
            \/ \E rows \in Fetched(PrivateRows(who[c], l)) : SendRows(c, rows, l)
        BY <3>2 DEF GetPrivateHistory
      <4> QED BY <3>2, <4>1, <4>2, FetchedRows DEF GetPrivateHistory
    <3> QED BY <1>9, <3>1, <3>2
  <2>2. CASE op = "GET_PRIVATE" /\ \E l : Reply(c, "PRIVATE_HISTORY_FAILED", l)
    BY <2>1, <2>2, TakenReplies DEF AnswersTo
  <2>3. ASSUME NEW l, NEW rows, rows \subseteq DOMAIN messages, SendRows(c, rows, l)
        PROVE  Answering(c)'
    <3>1. /\ cmd'[c] = Head(lines[c]) /\ failed[c] = <<>> /\ ~undelivered[c]
      BY <2>1, TakesCommand DEF Places
    <3>2. cmd'[c].op = op
      BY <2>1, <3>1 DEF Takes, Receives
    <3>3. fd' = fd /\ failed'[c] = <<>> /\ ~undelivered'[c] /\ who'[c] # NoLogin
      BY <2>1, <3>1 DEF localVars
    <3> QED BY <2>3, <3>2, <3>3, RowsFirst
  <2> QED BY <2>1, <2>2, <2>3
<1>10. CASE Exit(c)
  <2>1. \E ops : Takes(c, ops)
    OBVIOUS
  <2> QED BY <1>10, <2>1, TakesCommand DEF Exit, Places, PlaceInv, Idling
<1>11. pc[c] = "recv" /\ lines[c] # <<>>
  BY DEF Takes, Receives
<1> QED BY <1>1, <1>2, <1>3, <1>4, <1>5, <1>6, <1>7, <1>8, <1>9, <1>10, <1>11
        DEF ThreadStep, HandlerStep, CallRecv, RecvData, RecvEnd, AddUserStep, Publish, Snapshot,
            StorePrivate, Route, Notice, GetPrivateThrows, SendNext, SigPipe, Erase, Close

\* Only privateMessage has something undelivered.
LEMMA UndeliveredFrom ==
  ASSUME Owns, Owns', AnswerInv, [Next]_vars, NEW c \in Conns, peer[c] = "open", undelivered'[c]
  PROVE  cmd'[c].op = "PRIVATE"
<1> USE DEF Owns, Base
<1>1. undelivered[c] \/ Route(c)
  <2>1. CASE Quiet \/ Terminate \/ Spawn
    BY <2>1 DEF Quiet, Terminate, Spawn, threadVars, localVars
  <2>2. ASSUME NEW d \in Conns, Accept(d)
        PROVE  undelivered' = undelivered
    BY <2>2 DEF Accept
  <2>3. ASSUME NEW d \in Conns, ThreadStep(d), d # c
        PROVE  undelivered'[c] = undelivered[c]
    BY <2>3, OthersKeepLocals DEF SameLocals
  <2>4. CASE SendNext(c)
    <3>1. PICK s, ok : undelivered' = [undelivered EXCEPT ![c] = undelivered[c] /\ ~(ok /\ s.delivery)]
      BY <2>4, Zenon DEF SendNext
    <3> QED BY <3>1 DEF TypeInv, TypeOK, ThreadTypeOK
  <2>5. CASE ThreadStep(c) /\ ~Route(c) /\ ~SendNext(c)
    BY <2>5 DEF ThreadStep, HandlerStep, CallRecv, RecvData, RecvEnd, Register, AddUserStep,
         Authorize, Publish, Expecting, TooLong, StorePublic, Snapshot, CheckReceiver,
         StorePrivate, Notice, GetUsers, GetHistory, GetPrivateHistory, GetPrivateThrows, Exit,
         UnknownCommand, SigPipe, Erase, Close, JustReplies, localVars, TypeInv, TypeOK, ThreadTypeOK
  <2> QED BY <2>1, <2>2, <2>3, <2>4, <2>5, StepKinds
<1>2. cmd[c].op = "PRIVATE" /\ pc[c] # "recv"
  BY <1>1 DEF AnswerInv, Answering, Route, Places, PlaceInv
<1>3. cmd'[c] # NoCommand
  BY DEF Places, PlaceInv, Working
<1> QED BY <1>2, <1>3, CmdFrom

\* What the next send of a handler does, seen from its connection.
Serves(c, s, ok) ==
  LET left   == IF ~ok /\ s.line.kind = "history" THEN {} ELSE out[c] \ {s}
      closes == IF ~ok /\ s.line.kind \in ClosingKinds
                THEN Append(failed[c], s.fd) ELSE failed[c]
      notice == undelivered[c] /\ ~(ok /\ s.delivery)
      to     == After(left, closes, notice)
  IN /\ pc[c] = "send" /\ NextSend(c, s)
     /\ s.fd = fd[c] => ok
     /\ ok => /\ fdTable[s.fd] \in Conns
              /\ wire' = [wire EXCEPT ![fdTable[s.fd]] = Append(@, s.line)]
     /\ ~ok => wire' = wire
     /\ out'[c] = left /\ failed'[c] = closes /\ undelivered'[c] = notice
     /\ pc'[c] = to /\ cmd'[c] = IF to = "recv" THEN NoCommand ELSE cmd[c]
     /\ UNCHANGED <<fd, who, lines, inbox, peer>>

\* A send to the thread's own client, which is there, succeeds.
LEMMA OwnSend ==
  ASSUME Owns, OpenInv, NEW c \in Conns, peer[c] = "open", SendNext(c)
  PROVE  \E s \in out[c], ok \in BOOLEAN : Serves(c, s, ok)
<1> USE DEF Owns, Base
<1>1. PICK s \in out[c], ok \in BOOLEAN :
        LET left   == Left(c, s, ok)
            closes == IF ~ok /\ s.line.kind \in ClosingKinds
                      THEN Append(failed[c], s.fd) ELSE failed[c]
            notice == undelivered[c] /\ ~(ok /\ s.delivery)
        IN /\ NextSend(c, s)
           /\ SendLine(s.fd, s.line, ok)
           /\ out' = [out EXCEPT ![c] = left]
           /\ failed' = [failed EXCEPT ![c] = closes]
           /\ undelivered' = [undelivered EXCEPT ![c] = notice]
           /\ Resume(c, After(left, closes, notice))
  BY Zenon DEF SendNext
<1> DEFINE left   == Left(c, s, ok)
           closes == IF ~ok /\ s.line.kind \in ClosingKinds
                     THEN Append(failed[c], s.fd) ELSE failed[c]
           notice == undelivered[c] /\ ~(ok /\ s.delivery)
           to     == After(left, closes, notice)
<1>2. pc[c] = "send" /\ UNCHANGED <<fd, who, lines, inbox, peer>>
  BY DEF SendNext
<1>3. out'[c] = left /\ failed'[c] = closes /\ undelivered'[c] = notice
  BY <1>1 DEF TypeInv, TypeOK, ThreadTypeOK
<1>4. pc'[c] = to /\ cmd'[c] = IF to = "recv" THEN NoCommand ELSE cmd[c]
  <2> HIDE DEF to
  <2>1. Resume(c, to)
    BY <1>1 DEF to
  <2> QED BY <2>1 DEF Resume, SetPc, TypeInv, TypeOK, ThreadTypeOK
<1>5. s.fd \in Fds /\ fdTable[s.fd] \in Conns \cup {NoConn}
  BY DEF TypeInv, TypeOK, ThreadTypeOK, ServerTypeOK, PendingSend
<1>6. s.fd = fd[c] => ok
  BY <1>1, ServerAssumption DEF SendLine, MayFail, OpenInv
<1>7. /\ ok => /\ fdTable[s.fd] \in Conns
               /\ wire' = [wire EXCEPT ![fdTable[s.fd]] = Append(@, s.line)]
      /\ ~ok => wire' = wire
  BY <1>1, <1>5 DEF SendLine
<1> QED
  BY <1>1, <1>2, <1>3, <1>4, <1>6, <1>7 DEF Left, Serves

LEMMA SenderAnswers ==
  ASSUME Owns, OpenInv, AnswerInv, NEW c \in Conns, peer[c] = "open", SendNext(c)
  PROVE  Answering(c)'
<1> USE DEF Owns, Base
<1>1. PICK s \in out[c], ok \in BOOLEAN : Serves(c, s, ok)
  BY OwnSend
<1>2. OneLine(c) \/ ItsRows(c) \/ ItsMessage(c)
  BY <1>1 DEF Serves, AnswerInv, Answering
<1>3. CASE OneLine(c)
  <2>1. out[c] = {s} /\ s.fd = fd[c] /\ failed[c] = <<>> /\ ~undelivered[c] /\ ok
    BY <1>1, <1>3 DEF Serves, OneLine
  <2>2. pc'[c] = "recv"
    BY <1>1, <2>1 DEF Serves, After
  <2> QED BY <2>2 DEF Answering
<1>4. CASE ItsRows(c)
  <2>1. s.fd = fd[c] /\ failed[c] = <<>> /\ ~undelivered[c] /\ ok
    BY <1>1, <1>4 DEF Serves, ItsRows
  <2>2. out'[c] = out[c] \ {s} /\ failed'[c] = <<>> /\ ~undelivered'[c]
        /\ pc'[c] = IF out'[c] # {} THEN "send" ELSE "recv"
    BY <1>1, <2>1 DEF Serves, After
  <2>3. CASE out'[c] = {}
    BY <2>2, <2>3 DEF Answering
  <2>4. CASE out'[c] # {}
    <3>1. PICK e \in out[c] : /\ e.line.kind = "END_OF_HISTORY"
                              /\ \A t \in out[c] \ {e} : t.line.kind = "history" /\ ~NoLater(e.at, t.at)
      BY <1>4 DEF ItsRows
    <3>2. PICK t \in out[c] : t # s
      BY <2>2, <2>4
    <3>3. s # e
      BY <1>1, <3>1, <3>2 DEF Serves, NextSend
    <3>4. pc'[c] = "send" /\ cmd'[c] = cmd[c] /\ who'[c] = who[c] /\ fd'[c] = fd[c]
      BY <1>1, <2>2, <2>4 DEF Serves
    <3>5. ItsRows(c)'
      BY <1>4, <2>2, <3>1, <3>3, <3>4 DEF ItsRows, NoLater
    <3> QED BY <3>4, <3>5 DEF Answering
  <2> QED BY <2>3, <2>4
<1>5. CASE ItsMessage(c)
  <2>1. /\ out'[c] \subseteq out[c] /\ who'[c] = who[c] /\ fd'[c] = fd[c]
        /\ pc'[c] \in {"send", "erase", "notice", "recv"}
        /\ pc'[c] = "notice" => undelivered[c]
        /\ pc'[c] # "recv" => cmd'[c] = cmd[c]
    BY <1>1 DEF Serves, After
  <2>2. CASE pc'[c] = "recv"
    BY <2>2 DEF Answering
  <2>3. CASE pc'[c] = "send"
    <3>1. cmd'[c] = cmd[c]
      BY <2>1, <2>3
    <3>2. ItsMessage(c)'
      BY <1>5, <2>1, <3>1 DEF ItsMessage
    <3> QED BY <2>3, <3>2 DEF Answering
  <2>4. CASE pc'[c] \in {"erase", "notice"}
    <3>1. cmd'[c] = cmd[c] /\ (pc'[c] = "notice" => cmd[c].op = "PRIVATE")
      BY <2>1, <2>4 DEF AnswerInv
    <3>2. cmd[c].op \in {"ALL", "PRIVATE"} /\ who'[c] # NoLogin
      BY <1>5, <2>1 DEF ItsMessage
    <3> QED BY <2>4, <3>1, <3>2 DEF Answering
  <2> QED BY <2>1, <2>2, <2>3, <2>4
<1> QED BY <1>2, <1>3, <1>4, <1>5

LEMMA ThreadAnswers ==
  ASSUME Owns, Owns', OpenInv, AnswerInv, NEW c \in Conns, peer[c] = "open", ThreadStep(c)
  PROVE  Answering(c)'
<1> USE DEF Owns, Base
<1>0. Answering(c) /\ (undelivered[c] => cmd[c].op = "PRIVATE") /\ PlaceInv(c)
  BY DEF AnswerInv, Places
<1>1. CASE \E ops : Takes(c, ops)
  BY <1>1, TakerAnswers
<1>2. CASE SendNext(c)
  BY <1>2, SenderAnswers
<1>3. CASE CallRecv(c)
  <2>1. fdTable[fd[c]] = c /\ c # NoConn
    BY ServerAssumption DEF OpenInv
  <2>2. pc'[c] = "wait"
    BY <1>3, <2>1 DEF CallRecv, SetPc, TypeInv, TypeOK, ThreadTypeOK
  <2> QED BY <2>2 DEF Answering
<1>4. CASE RecvData(c) \/ Exit(c)
  <2>1. pc'[c] = "recv"
    BY <1>4 DEF RecvData, Exit, Receives, SetPc, localVars, TypeInv, TypeOK, ThreadTypeOK
  <2> QED BY <2>1 DEF Answering
<1>5. CASE RecvEnd(c)
  <2>1. reading[c] = c /\ peer[c] = "closed"
    BY <1>5, ServerAssumption DEF RecvEnd, ProvedInv, OwnRead, TypeInv, Shape
  <2> QED BY <2>1
<1>6. CASE AddUserStep(c)
  <2>1. PICK kind \in {"REGISTER_SUCCESS", "REGISTER_FAILED"} : \E l : Reply(c, kind, l)
    BY <1>6 DEF AddUserStep
  <2>2. /\ fd' = fd /\ failed'[c] = <<>> /\ ~undelivered'[c] /\ who'[c] = NoLogin
        /\ cmd'[c].op = "REGISTER"
    BY <1>0, <1>6 DEF AddUserStep, Answering, PlaceInv, localVars
  <2>3. kind \in AnswersTo(cmd'[c].op, who'[c] # NoLogin /\ kind # "AUTH_SUCCESS")
    BY <2>2 DEF AnswersTo
  <2> QED BY <2>1, <2>2, <2>3, RepliesOnce
<1>7. CASE Publish(c)
  <2>1. Reply(c, "AUTH_SUCCESS", who[c])
    BY <1>7 DEF Publish
  <2>2. /\ fd' = fd /\ failed'[c] = <<>> /\ ~undelivered'[c] /\ who'[c] = cmd'[c].login
        /\ cmd'[c].op = "AUTH"
    BY <1>0, <1>7 DEF Publish, Answering, PlaceInv, localVars
  <2>3. "AUTH_SUCCESS" \in AnswersTo(cmd'[c].op, FALSE)
    BY <2>2 DEF AnswersTo
  <2> QED BY <2>1, <2>2, <2>3, RepliesOnce
<1>8. CASE Notice(c)
  <2>1. Reply(c, "OFFLINE", cmd[c].login)
    BY <1>8 DEF Notice
  <2>2. /\ fd' = fd /\ failed'[c] = <<>> /\ ~undelivered'[c] /\ who'[c] # NoLogin
        /\ cmd'[c].op = "PRIVATE"
    BY <1>0, <1>8 DEF Notice, Answering, PlaceInv, TypeInv, TypeOK, ThreadTypeOK
  <2>3. "OFFLINE" \in AnswersTo(cmd'[c].op, who'[c] # NoLogin /\ "OFFLINE" # "AUTH_SUCCESS")
    BY <2>2 DEF AnswersTo
  <2> QED BY <2>1, <2>2, <2>3, RepliesOnce
<1>9. CASE StorePrivate(c)
  <2>1. pc'[c] = "route" /\ cmd'[c] = cmd[c] /\ who'[c] = who[c]
    BY <1>9 DEF StorePrivate, SetPc, TypeInv, TypeOK, ThreadTypeOK
  <2> QED BY <1>0, <1>9, <2>1 DEF Answering, StorePrivate
<1>10. CASE Snapshot(c)
  <2>1. PICK targets : /\ targets = {ToSend(<<0, i>>, clientSockets[i], "public", cmd[c].id, NoLogin) : i \in Targets(c)}
                       /\ out' = [out EXCEPT ![c] = targets]
                       /\ Resume(c, After(targets, <<>>, FALSE))
    BY <1>10 DEF Snapshot
  <2>2. out'[c] = targets /\ pc'[c] \in {"send", "recv"} /\ (pc'[c] = "send" => cmd'[c] = cmd[c])
    BY <2>1 DEF After, Resume, SetPc, TypeInv, TypeOK, ThreadTypeOK
  <2>3. cmd[c].op = "ALL" /\ who'[c] # NoLogin /\ fd'[c] = fd[c]
    BY <1>0, <1>10 DEF Answering, Snapshot, localVars
  <2>4. \A s \in targets : s.fd # fd[c] /\ s.line.kind = "public"
    BY <2>1 DEF ToSend, Targets
  <2>5. CASE pc'[c] = "recv"
    BY <2>5 DEF Answering
  <2>6. CASE pc'[c] = "send"
    <3>1. ItsMessage(c)'
      BY <2>2, <2>3, <2>4, <2>6 DEF ItsMessage
    <3> QED BY <2>6, <3>1 DEF Answering
  <2> QED BY <2>2, <2>5, <2>6
<1>11. CASE Route(c)
  <2>1. PICK sends : SetPc(c, After(sends, <<>>, TRUE))
    BY <1>11, Zenon DEF Route
  <2>2. pc'[c] \in {"send", "notice"}
    BY <2>1 DEF After, SetPc, TypeInv, TypeOK, ThreadTypeOK
  <2>3. cmd'[c].op = "PRIVATE" /\ who'[c] # NoLogin
    BY <1>0, <1>11 DEF Answering, Route
  <2>4. ASSUME NEW s \in out'[c]
        PROVE  s.line.kind = "private"
    <3>1. s.line = [kind |-> "private", id |-> cmd[c].id, login |-> cmd[c].login]
      BY <1>11, RouteSends
    <3> QED BY <3>1
  <2>5. ItsMessage(c)'
    BY <2>3, <2>4 DEF ItsMessage
  <2> QED BY <2>2, <2>3, <2>5 DEF Answering
<1>12. CASE Erase(c)
  <2>1. pc'[c] = "close" /\ cmd'[c] = cmd[c] /\ who'[c] = who[c] /\ pc[c] = "erase"
    BY <1>12 DEF Erase, SetPc, TypeInv, TypeOK, ThreadTypeOK
  <2> QED BY <1>0, <2>1 DEF Answering
<1>13. CASE Close(c)
  <2>1. cmd[c] # NoCommand
    <3>1. cmd[c].op \in {"ALL", "PRIVATE"}
      BY <1>0, <1>13 DEF Close, Answering
    <3> QED BY <3>1 DEF NoCommand
  <2>2. PICK to : to = After({}, Tail(failed[c]), undelivered[c]) /\ Resume(c, to) /\ UNCHANGED who
    BY <1>13, <2>1 DEF Close
  <2>3. /\ pc'[c] = to /\ to \in {"erase", "notice", "recv"}
        /\ (to = "notice" => undelivered[c])
        /\ (to # "recv" => cmd'[c] = cmd[c])
    BY <2>2 DEF After, Resume, SetPc, TypeInv, TypeOK, ThreadTypeOK
  <2> QED BY <1>0, <1>13, <2>2, <2>3 DEF Answering, Close
<1> QED BY <1>1, <1>2, <1>3, <1>4, <1>5, <1>6, <1>7, <1>8, <1>9, <1>10, <1>11, <1>12, <1>13
        DEF ThreadStep, HandlerStep, Register, Authorize, Expecting, TooLong, StorePublic,
            CheckReceiver, GetUsers, GetHistory, GetPrivateHistory, UnknownCommand, JustReplies,
            GetPrivateThrows, SigPipe

LEMMA AnswerStep ==
  ASSUME Owns, Owns', OpenInv, AnswerInv, [Next]_vars
  PROVE  AnswerInv'
<1> USE DEF Owns, Base
<1> SUFFICES ASSUME NEW c \in Conns, peer'[c] = "open"
             PROVE  Answering(c)' /\ (undelivered'[c] => cmd'[c].op = "PRIVATE")
  BY DEF AnswerInv
<1>1. CASE Accept(c)
  <2>1. pc'[c] = "none" /\ undelivered'[c] = undelivered[c] /\ ~undelivered[c]
    BY <1>1 DEF Accept, ActiveInv, Places, PlaceInv
  <2> QED BY <2>1 DEF Answering
<1>2. CASE peer[c] = "open"
  <2>1. undelivered'[c] => cmd'[c].op = "PRIVATE"
    BY <1>2, UndeliveredFrom
  <2> SUFFICES Answering(c)'
    BY <2>1
  <2>2. Answering(c)
    BY <1>2 DEF AnswerInv
  <2>3. CASE Quiet
    BY <2>2, <2>3 DEF Quiet, threadVars, localVars, Answering, OneLine, ItsRows, ItsMessage
  <2>4. CASE Spawn
    <3>1. CASE incoming = c
      <4>1. pc'[c] = "recv"
        BY <2>4, <3>1 DEF Spawn, TypeInv, TypeOK, ThreadTypeOK
      <4> QED BY <4>1 DEF Answering
    <3>2. CASE incoming # c
      <4>1. pc'[c] = pc[c]
        BY <2>4, <3>2 DEF Spawn, TypeInv, TypeOK, ThreadTypeOK
      <4> QED BY <2>2, <2>4, <4>1 DEF Spawn, localVars, Answering, OneLine, ItsRows, ItsMessage
    <3> QED BY <3>1, <3>2
  <2>5. ASSUME NEW d \in Conns, Accept(d)
        PROVE  Answering(c)'
    <3>1. fd'[c] = fd[c]
      BY <1>2, FdStep
    <3> QED BY <2>2, <2>5, <3>1 DEF Accept, Answering, OneLine, ItsRows, ItsMessage
  <2>6. ASSUME NEW d \in Conns, ThreadStep(d), d # c
        PROVE  Answering(c)'
    <3>1. SameLocals(c)
      BY <2>6, OthersKeepLocals
    <3> QED BY <2>2, <3>1 DEF SameLocals, Answering, OneLine, ItsRows, ItsMessage
  <2>7. CASE ThreadStep(c)
    BY <1>2, <2>7, ThreadAnswers
  <2>8. ~Terminate
    BY OpenFrom
  <2> QED BY <2>3, <2>4, <2>5, <2>6, <2>7, <2>8, StepKinds
<1> QED BY <1>1, <1>2, OpenFrom

-----------------------------------------------------------------------------
(* Queues and streams *)

LEMMA QueueTaken ==
  ASSUME NEW s \in Seq(Command), NEW t \in Seq(Command), s # <<>>
  PROVE  /\ s \o t # <<>> /\ Head(s \o t) = Head(s)
         /\ Tail(s \o t) = Tail(s) \o t
<1>1. /\ s \o t \in Seq(Command) /\ Len(s \o t) = Len(s) + Len(t)
      /\ \A i \in 1..(Len(s) + Len(t)) : (s \o t)[i] = IF i <= Len(s) THEN s[i] ELSE t[i - Len(s)]
  BY ConcatProperties
<1>2. Len(s) \in Nat \ {0} /\ Len(t) \in Nat
  BY EmptySeq
<1>3. s \o t # <<>> /\ Head(s \o t) = Head(s)
  BY <1>1, <1>2
<1>4. Tail(s) \in Seq(Command) /\ Len(Tail(s)) = Len(s) - 1 /\ \A i \in 1..(Len(s) - 1) : Tail(s)[i] = s[i + 1]
  BY <1>2
<1>5. /\ Tail(s) \o t \in Seq(Command) /\ Len(Tail(s) \o t) = (Len(s) - 1) + Len(t)
      /\ \A i \in 1..((Len(s) - 1) + Len(t)) :
           (Tail(s) \o t)[i] = IF i <= Len(s) - 1 THEN Tail(s)[i] ELSE t[i - (Len(s) - 1)]
  <2> DEFINE u == Tail(s)
  <2>1. u \in Seq(Command) /\ Len(u) = Len(s) - 1
    BY <1>4
  <2> HIDE DEF u
  <2>2. /\ u \o t \in Seq(Command) /\ Len(u \o t) = Len(u) + Len(t)
        /\ \A i \in 1..(Len(u) + Len(t)) : (u \o t)[i] = IF i <= Len(u) THEN u[i] ELSE t[i - Len(u)]
    BY <2>1, ConcatProperties
  <2>3. /\ u \o t \in Seq(Command) /\ Len(u \o t) = (Len(s) - 1) + Len(t)
        /\ \A i \in 1..((Len(s) - 1) + Len(t)) :
             (u \o t)[i] = IF i <= Len(s) - 1 THEN u[i] ELSE t[i - (Len(s) - 1)]
    BY <2>1, <2>2
  <2> QED BY <2>3 DEF u
<1>6. /\ Tail(s \o t) \in Seq(Command) /\ Len(Tail(s \o t)) = (Len(s) - 1) + Len(t)
      /\ \A i \in 1..((Len(s) - 1) + Len(t)) : Tail(s \o t)[i] = (s \o t)[i + 1]
  <2> DEFINE v == s \o t
  <2>1. v \in Seq(Command) /\ v # <<>> /\ Len(v) = Len(s) + Len(t)
    BY <1>1, <1>3
  <2> HIDE DEF v
  <2>2. /\ Tail(v) \in Seq(Command) /\ Len(Tail(v)) = (Len(s) - 1) + Len(t)
        /\ \A i \in 1..((Len(s) - 1) + Len(t)) : Tail(v)[i] = v[i + 1]
    BY <1>2, <2>1
  <2> QED BY <2>2 DEF v
<1>7. \A i \in 1..((Len(s) - 1) + Len(t)) : Tail(s \o t)[i] = (Tail(s) \o t)[i]
  <2> SUFFICES ASSUME NEW i \in 1..((Len(s) - 1) + Len(t))
               PROVE  Tail(s \o t)[i] = (Tail(s) \o t)[i]
    OBVIOUS
  <2>1. i + 1 \in 1..(Len(s) + Len(t)) /\ (i + 1) - Len(s) = i - (Len(s) - 1)
        /\ (i + 1 <= Len(s) <=> i <= Len(s) - 1)
    BY <1>2
  <2> QED BY <1>1, <1>4, <1>5, <1>6, <2>1
<1>8. Tail(s \o t) = Tail(s) \o t
  BY <1>5, <1>6, <1>7, SeqEqual
<1> QED BY <1>3, <1>8

LEMMA QueueGrows ==
  ASSUME NEW s \in Seq(Command), NEW t \in Seq(Command), NEW m \in Command
  PROVE  s \o Append(t, m) = Append(s \o t, m)
<1>1. <<m>> \in Seq(Command) /\ Append(t, m) = t \o <<m>>
  OBVIOUS
<1>2. (s \o t) \o <<m>> = s \o (t \o <<m>>)
  BY <1>1, ConcatAssociative
<1>3. s \o t \in Seq(Command)
  BY ConcatProperties
<1>4. Append(s \o t, m) = (s \o t) \o <<m>>
  BY <1>3
<1> QED BY <1>1, <1>2, <1>4

LEMMA StreamType ==
  ASSUME TypeInv, NEW c \in Conns
  PROVE  Stream(c) \in Seq(Kinds)
<1>1. wire[c] \in Seq(Line) /\ DOMAIN wire[c] = 1..Len(wire[c]) /\ Len(wire[c]) \in Nat
  BY DEF TypeInv, TypeOK, PeerTypeOK
<1>2. \A i \in 1..Len(wire[c]) : wire[c][i].kind \in Kinds
  <2>1. \A i \in 1..Len(wire[c]) : wire[c][i] \in Line
    BY <1>1
  <2> QED BY <2>1 DEF Line
<1>3. [i \in 1..Len(wire[c]) |-> wire[c][i].kind] \in Seq(Kinds)
  BY <1>1, <1>2
<1>4. <<>> \in Seq(Kinds)
  OBVIOUS
<1> QED BY <1>1, <1>3, <1>4 DEF Stream

LEMMA StreamGrows ==
  ASSUME TypeInv, TypeInv', NEW c \in Conns, peer[c] = "open", peer'[c] = "open", NEW l \in Line,
         wire'[c] = Append(wire[c], l)
  PROVE  Stream(c)' = Append(Stream(c), l.kind)
<1> DEFINE s == [i \in 1..Len(wire[c]) |-> wire[c][i].kind]
           t == [i \in 1..(Len(wire[c]) + 1) |-> wire'[c][i].kind]
<1>1. wire[c] \in Seq(Line) /\ DOMAIN wire[c] = 1..Len(wire[c]) /\ Len(wire[c]) \in Nat
  BY DEF TypeInv, TypeOK, PeerTypeOK
<1>2. DOMAIN wire'[c] = 1..(Len(wire[c]) + 1)
  BY <1>1
<1>3. Stream(c) = s /\ Stream(c)' = t
  BY <1>1, <1>2 DEF Stream
<1>4. s \in Seq(Kinds) /\ l.kind \in Kinds /\ Stream(c)' \in Seq(Kinds)
  BY <1>3, StreamType DEF Line
<1>5. Len(s) = Len(wire[c]) /\ Len(t) = Len(wire[c]) + 1 /\ t \in Seq(Kinds)
  BY <1>1, <1>3, <1>4
<1>6. \A i \in 1..Len(wire[c]) : t[i] = s[i]
  BY <1>1
<1>7. t[Len(wire[c]) + 1] = l.kind
  BY <1>1
<1> HIDE DEF s, t
<1>8. /\ Append(s, l.kind) \in Seq(Kinds) /\ Len(Append(s, l.kind)) = Len(t)
      /\ \A i \in 1..Len(t) : t[i] = Append(s, l.kind)[i]
  BY <1>1, <1>4, <1>5, <1>6, <1>7, AppendProperties
<1>9. t = Append(s, l.kind)
  BY <1>5, <1>8, SeqEqual
<1> QED BY <1>3, <1>9

-----------------------------------------------------------------------------
(* Every step of the server is a step of the session, or none *)

KeepsSession(c) == [Session(c)!Next]_(Session(c)!sessionVars)

LEMMA NextKeeps ==
  ASSUME NEW c \in Conns, Session(c)!Next
  PROVE  KeepsSession(c)
BY DEF KeepsSession

LEMMA ViewKeeps ==
  ASSUME NEW c \in Conns, UNCHANGED <<Status(c), Queue(c), Current(c), Account(c), Stream(c)>>
  PROVE  KeepsSession(c)
BY Stutters DEF KeepsSession

\* A session that is not open shows nothing.
LEMMA ShutKeeps ==
  ASSUME NEW c \in Conns, peer[c] # "open", peer'[c] = peer[c]
  PROVE  KeepsSession(c)
<1>1. UNCHANGED <<Status(c), Queue(c), Current(c), Account(c), Stream(c)>>
  BY DEF Status, Queue, Current, Account, Stream
<1> QED BY <1>1, ViewKeeps

LEMMA EndKeeps ==
  ASSUME TypeInv, NEW c \in Conns, peer[c] = "open", peer'[c] = "closed"
  PROVE  KeepsSession(c)
<1>1. /\ Status(c) = "open" /\ Status(c)' = "over" /\ Queue(c)' = <<>>
      /\ Current(c)' = NoCommand /\ Account(c)' = NoLogin /\ Stream(c)' = <<>>
  BY DEF Status, Queue, Current, Account, Stream
<1> QED BY <1>1, IsClose, StreamType, NextKeeps

LEMMA UnmovedKeeps ==
  ASSUME NEW c \in Conns, peer'[c] = peer[c],
         UNCHANGED <<pc[c], lines[c], who[c], cmd[c], out[c], inbox[c], wire[c]>>
  PROVE  KeepsSession(c)
<1>1. UNCHANGED <<Status(c), Queue(c), Current(c), Account(c), Stream(c)>>
  BY DEF Status, Queue, Current, Account, Stream
<1> QED BY <1>1, ViewKeeps

LEMMA TerminateKeeps ==
  ASSUME TypeInv, NEW c \in Conns, Terminate
  PROVE  KeepsSession(c)
<1>1. peer'[c] = IF peer[c] = "open" THEN "closed" ELSE peer[c]
  BY DEF Terminate
<1> QED BY <1>1, EndKeeps, ShutKeeps

LEMMA AcceptKeeps ==
  ASSUME Owns, Unopened, Told, NEW c \in Conns, NEW d \in Conns, Accept(d)
  PROVE  KeepsSession(c)
<1> USE DEF Owns, Base
<1>1. CASE d # c
  BY <1>1, UnmovedKeeps DEF Accept, TypeInv, TypeOK, PeerTypeOK
<1>2. CASE d = c
  <2>1. /\ peer[c] = "idle" /\ peer'[c] = "open"
        /\ UNCHANGED <<pc, lines, who, cmd, out, inbox, wire>>
    BY <1>2 DEF Accept, TypeInv, TypeOK, PeerTypeOK
  <2>2. pc[c] = "none"
    BY <2>1 DEF ActiveInv
  <2>3. /\ lines[c] = <<>> /\ inbox[c] = <<>> /\ wire[c] = <<>> /\ who[c] = NoLogin /\ out[c] = {}
    BY <2>1, <2>2 DEF Unopened, Told, Places, PlaceInv
  <2>4. Status(c) = "idle" /\ Status(c)' = "open"
    BY <2>1 DEF Status
  <2>5. Queue(c)' = Queue(c) /\ Current(c)' = Current(c) /\ Account(c)' = Account(c)
    BY <2>1, <2>2, <2>3 DEF Queue, Current, Account
  <2>6. Stream(c)' = Stream(c)
    <3>1. DOMAIN wire'[c] = {} /\ Stream(c) = <<>>
      BY <2>1, <2>3 DEF Stream
    <3>2. [i \in {} |-> wire'[c][i].kind] = <<>>
      OBVIOUS
    <3> QED BY <2>1, <3>1, <3>2 DEF Stream
  <2> QED BY <2>4, <2>5, <2>6, IsOpen, NextKeeps
<1> QED BY <1>1, <1>2

LEMMA SpawnKeeps ==
  ASSUME Owns, NEW c \in Conns, Spawn
  PROVE  KeepsSession(c)
<1> USE DEF Owns, Base
<1>1. UNCHANGED <<lines, who, cmd, out, peer, inbox, wire>>
  BY DEF Spawn, peerVars
<1>2. pc'[c] = pc[c] \/ (pc[c] = "none" /\ pc'[c] = "recv")
  BY DEF Spawn, Waiting, TypeInv, TypeOK, ThreadTypeOK
<1>3. UNCHANGED <<Status(c), Queue(c), Account(c), Stream(c)>>
  BY <1>1, <1>2 DEF Status, Queue, Account, Stream
<1>4. UNCHANGED Current(c)
  BY <1>1, <1>2 DEF Current
<1> QED BY <1>3, <1>4, ViewKeeps

LEMMA PeerSendsKeeps ==
  ASSUME TypeInv, TypeInv', NEW c \in Conns, NEW d \in Conns, PeerSends(d)
  PROVE  KeepsSession(c)
<1>1. UNCHANGED <<pc, lines, who, cmd, out, peer, wire>> /\ peer[d] = "open"
  BY DEF PeerSends, threadVars
<1>2. inbox \in [Conns -> Seq(Command)] /\ lines[c] \in Seq(Command)
  BY DEF TypeInv, TypeOK, PeerTypeOK, ThreadTypeOK
<1>3. PICK m : inbox' = [inbox EXCEPT ![d] = Append(@, m)]
  BY DEF PeerSends
<1>4. CASE d # c
  BY <1>1, <1>2, <1>3, <1>4, UnmovedKeeps
<1>5. CASE d = c
  <2>1. inbox'[c] = Append(inbox[c], m) /\ inbox[c] \in Seq(Command) /\ inbox'[c] \in Seq(Command)
    BY <1>2, <1>3, <1>5 DEF TypeInv, TypeOK, PeerTypeOK
  <2>2. m \in Command
    <3>1. Len(inbox[c]) + 1 \in 1..Len(inbox'[c]) /\ inbox'[c][Len(inbox[c]) + 1] = m
      BY <2>1
    <3> QED BY <2>1, <3>1, ElementOfSeq
  <2>3. lines[c] \o Append(inbox[c], m) = Append(lines[c] \o inbox[c], m)
    BY <1>2, <2>1, <2>2, QueueGrows
  <2>4. Queue(c) = lines[c] \o inbox[c] /\ Queue(c)' = Append(Queue(c), m)
    BY <1>1, <1>5, <2>1, <2>3 DEF Queue
  <2>5. Queue(c) \in Seq(Command)
    BY <1>2, <2>1, <2>4, ConcatProperties
  <2>6. Status(c) = "open" /\ UNCHANGED <<Status(c), Current(c), Account(c), Stream(c)>>
    BY <1>1, <1>5 DEF Status, Current, Account, Stream
  <2> QED BY <2>2, <2>4, <2>5, <2>6, IsAsk, NextKeeps
<1> QED BY <1>4, <1>5

-----------------------------------------------------------------------------
(* The steps of the threads *)

LEMMA ThreadPeers ==
  ASSUME Owns, NEW c \in Conns, ThreadStep(c)
  PROVE  /\ peer' = peer
         /\ inbox' = inbox \/ (RecvData(c) /\ \A d \in Conns \ {c} : inbox'[d] = inbox[d])
         /\ wire' = wire \/ SendNext(c)
<1> USE DEF Owns, Base
<1>1. peer' = peer /\ (inbox' = inbox \/ RecvData(c)) /\ (wire' = wire \/ SendNext(c))
  BY DEF ThreadStep, HandlerStep, CallRecv, RecvData, RecvEnd, Register, AddUserStep,
         Authorize, Publish, Expecting, TooLong, StorePublic, Snapshot, CheckReceiver,
         StorePrivate, Route, Notice, GetUsers, GetHistory, GetPrivateHistory,
         GetPrivateThrows, Exit, UnknownCommand, SendNext, SigPipe, Erase, Close, JustReplies,
         peerVars
<1>2. CASE RecvData(c)
  <2>1. reading[c] = c
    BY <1>2, ServerAssumption DEF RecvData, ProvedInv, OwnRead, TypeInv, Shape
  <2> QED BY <1>1, <1>2, <2>1 DEF RecvData, TypeInv, TypeOK, PeerTypeOK
<1> QED BY <1>1, <1>2

\* Another thread can only send a message.
LEMMA OtherThreadKeeps ==
  ASSUME Owns, Owns', ToOthers, [Next]_vars, NEW c \in Conns, NEW d \in Conns, d # c, ThreadStep(d)
  PROVE  KeepsSession(c)
<1> USE DEF Owns, Base
<1>1. SameLocals(c) /\ peer' = peer /\ inbox'[c] = inbox[c]
  BY OthersKeepLocals, ThreadPeers
<1>2. CASE wire'[c] = wire[c]
  BY <1>1, <1>2, UnmovedKeeps DEF SameLocals
<1>3. CASE peer[c] # "open"
  BY <1>1, <1>3, ShutKeeps
<1>4. ASSUME NEW e \in Conns, NEW s \in out[e], out' = [out EXCEPT ![e] = @ \ {s}],
             s.fd \in Fds, fdTable[s.fd] = c, s.line \in Line, peer[c] = "open",
             wire'[c] = Append(wire[c], s.line)
      PROVE  KeepsSession(c)
  <2>1. e # c
    BY <1>1, <1>4 DEF SameLocals, TypeInv, TypeOK, ThreadTypeOK
  <2>2. fd[c] = s.fd /\ Present(c) /\ Present(e)
    BY <1>4 DEF OwnInv, TableOwn, Places, PlaceInv, Present, Live
  <2>3. s.fd # fd[e]
    BY <2>1, <2>2 DEF OwnInv, Distinct
  <2>4. s.line.kind \in {"public", "private"}
    BY <1>4, <2>3 DEF ToOthers
  <2>5. Stream(c)' = Append(Stream(c), s.line.kind) /\ Stream(c) \in Seq(Kinds)
    BY <1>1, <1>4, StreamGrows, StreamType
  <2>6. Status(c) = "open" /\ UNCHANGED <<Status(c), Queue(c), Account(c), Current(c)>>
    BY <1>1, <1>4 DEF SameLocals, Status, Queue, Account, Current
  <2>7. Session(c)!Next
    BY <2>4, <2>5, <2>6, IsChatter
  <2> QED BY <2>7, NextKeeps
<1>5. \/ wire'[c] = wire[c]
      \/ \E e \in Conns : \E s \in out[e] :
           /\ out' = [out EXCEPT ![e] = @ \ {s}] /\ s.fd \in Fds /\ fdTable[s.fd] = c
           /\ s.line \in Line /\ wire'[c] = Append(wire[c], s.line)
  <2>1. wire \in [Conns -> Seq(Line)]
    BY DEF TypeInv, TypeOK, PeerTypeOK
  <2> QED BY <2>1, WireStep
<1> QED BY <1>2, <1>3, <1>4, <1>5

\* A step that leaves the thread with its command, its login and its lines.
LEMMA BusyKeeps ==
  ASSUME NEW c \in Conns, peer' = peer, UNCHANGED <<inbox[c], lines[c], wire[c]>>,
         UNCHANGED <<Current(c), Account(c)>>
  PROVE  KeepsSession(c)
<1>1. UNCHANGED <<Status(c), Queue(c), Stream(c)>>
  BY DEF Status, Queue, Stream
<1> QED BY <1>1, ViewKeeps

\* The next command is taken up.
LEMMA TakeKeeps ==
  ASSUME Owns, NEW c \in Conns, peer[c] = "open", NEW ops, Takes(c, ops),
         UNCHANGED <<peer, inbox, wire>>, pc'[c] \notin {"none", "recv", "wait"},
         Account(c)' = Account(c)
  PROVE  KeepsSession(c)
<1> USE DEF Owns, Base
<1>1. /\ lines[c] \in Seq(Command) /\ lines[c] # <<>> /\ inbox[c] \in Seq(Command)
      /\ pc[c] = "recv" /\ cmd'[c] = Head(lines[c]) /\ lines'[c] = Tail(lines[c])
  BY TakesCommand DEF Takes, Receives, TypeInv, TypeOK, ThreadTypeOK, PeerTypeOK, Places
<1>2. Queue(c) = lines[c] \o inbox[c] /\ Queue(c)' = Tail(lines[c]) \o inbox[c]
  BY <1>1 DEF Queue
<1>3. Queue(c) # <<>> /\ Head(Queue(c)) = Head(lines[c]) /\ Queue(c)' = Tail(Queue(c))
  BY <1>1, <1>2, QueueTaken
<1>4. Current(c) = NoCommand /\ Current(c)' = Head(Queue(c))
  BY <1>1, <1>3 DEF Current
<1>5. Status(c) = "open" /\ UNCHANGED <<Status(c), Stream(c)>>
  BY DEF Status, Stream
<1> QED BY <1>3, <1>4, <1>5, IsTake, NextKeeps

\* A reply that does not grant a login leaves the account as it is.
LEMMA ReplyAccount ==
  ASSUME TypeInv, NEW c \in Conns, NEW kind, NEW l, Reply(c, kind, l), kind # "AUTH_SUCCESS",
         peer' = peer, who' = who, pc[c] # "publish", \A s \in out[c] : s.line.kind # "AUTH_SUCCESS"
  PROVE  Account(c)' = Account(c) /\ pc'[c] = "send"
<1>1. pc'[c] = "send" /\ \A s \in out'[c] : s.line.kind = kind
  BY DEF Reply, SetPc, ToSend, TypeInv, TypeOK, ThreadTypeOK
<1> QED BY <1>1 DEF Account

LEMMA TakerKeeps ==
  ASSUME Owns, NEW c \in Conns, peer[c] = "open", ThreadStep(c), \E ops : Takes(c, ops)
  PROVE  KeepsSession(c)
<1> USE DEF Owns, Base
<1>0. PICK ops : Takes(c, ops)
  OBVIOUS
<1>1. pc[c] = "recv" /\ out[c] = {} /\ lines[c] # <<>> /\ cmd'[c] # cmd[c]
  BY <1>0, TakesCommand DEF Places, PlaceInv, Idling, Takes, Receives
<1>2. CASE /\ \E kind, l : Reply(c, kind, l) /\ kind # "AUTH_SUCCESS"
           /\ UNCHANGED <<peerVars, who>>
  <2>1. UNCHANGED <<peer, inbox, wire>>
    BY <1>2 DEF peerVars
  <2>2. Account(c)' = Account(c) /\ pc'[c] = "send"
    BY <1>1, <1>2, <2>1, ReplyAccount
  <2> QED BY <1>0, <2>1, <2>2, TakeKeeps
<1>3. CASE /\ SetPc(c, "addUser") \/ SetPc(c, "snapshot") \/ SetPc(c, "store")
           /\ UNCHANGED <<peerVars, who, out>>
  <2>1. UNCHANGED <<peer, inbox, wire>> /\ pc'[c] \in {"addUser", "snapshot", "store"}
    BY <1>3 DEF peerVars, SetPc, TypeInv, TypeOK, ThreadTypeOK
  <2>2. Account(c)' = Account(c)
    BY <1>1, <1>3, <2>1 DEF Account
  <2> QED BY <1>0, <2>1, <2>2, TakeKeeps
<1>4. CASE Authorize(c) /\ SetPc(c, "publish") /\ UNCHANGED out
  <2>1. UNCHANGED <<peer, inbox, wire>> /\ pc'[c] = "publish" /\ who[c] = NoLogin
    BY <1>4 DEF Authorize, SetPc, TypeInv, TypeOK, ThreadTypeOK
  <2>2. Account(c)' = Account(c)
    BY <2>1 DEF Account
  <2> QED BY <1>0, <2>1, <2>2, TakeKeeps
<1>5. CASE /\ \E rows, l : SendRows(c, rows, l)
           /\ UNCHANGED <<peerVars, who>>
  <2>1. UNCHANGED <<peer, inbox, wire>>
    BY <1>5 DEF peerVars
  <2>2. pc'[c] = "send" /\ \A s \in out'[c] : s.line.kind \in {"history", "END_OF_HISTORY"}
    BY <1>5 DEF SendRows, SetPc, ToSend, TypeInv, TypeOK, ThreadTypeOK
  <2>3. Account(c)' = Account(c)
    BY <1>1, <1>5, <2>1, <2>2 DEF Account
  <2> QED BY <1>0, <2>1, <2>2, <2>3, TakeKeeps
<1>6. CASE Authorize(c) /\ ~(SetPc(c, "publish") /\ UNCHANGED out)
  <2>1. Reply(c, "AUTH_FAILED", Head(lines[c]).login) /\ UNCHANGED <<peer, inbox, wire, who>>
    BY <1>6 DEF Authorize
  <2>2. Account(c)' = Account(c) /\ pc'[c] = "send"
    BY <1>1, <2>1, ReplyAccount
  <2> QED BY <1>0, <2>1, <2>2, TakeKeeps
<1>7. CASE Register(c) \/ CheckReceiver(c) \/ StorePublic(c)
  <2>1. /\ \/ \E l : Reply(c, "REGISTER_FAILED", l) \/ Reply(c, "PRIVATE_FAILED", l)
           \/ /\ SetPc(c, "addUser") \/ SetPc(c, "snapshot") \/ SetPc(c, "store")
              /\ UNCHANGED out
        /\ UNCHANGED <<peerVars, who>>
    BY <1>7 DEF Register, CheckReceiver, StorePublic
  <2> QED BY <1>2, <1>3, <2>1
<1>8. CASE Expecting(c) \/ TooLong(c) \/ GetUsers(c) \/ UnknownCommand(c)
  BY <1>2, <1>8 DEF Expecting, TooLong, GetUsers, UnknownCommand, JustReplies
<1>9. CASE GetHistory(c) \/ GetPrivateHistory(c)
  BY <1>2, <1>5, <1>9 DEF GetHistory, GetPrivateHistory
<1>10. ~Exit(c)
  BY <1>1 DEF Exit
<1> QED BY <1>1, <1>4, <1>6, <1>7, <1>8, <1>9, <1>10
        DEF ThreadStep, HandlerStep, CallRecv, RecvData, RecvEnd, AddUserStep, Publish, Snapshot,
            StorePrivate, Route, Notice, GetPrivateThrows, SendNext, SigPipe, Erase, Close

LEMMA SenderKeeps ==
  ASSUME Owns, Owns', OpenInv, AnswerInv, NEW c \in Conns, peer[c] = "open", SendNext(c)
  PROVE  KeepsSession(c)
<1> USE DEF Owns, Base
<1>1. PICK s \in out[c], ok \in BOOLEAN : Serves(c, s, ok)
  BY OwnSend
<1>2. /\ pc[c] = "send" /\ NextSend(c, s) /\ (s.fd = fd[c] => ok)
      /\ who' = who /\ lines' = lines /\ inbox' = inbox /\ peer' = peer
  BY <1>1 DEF Serves
<1>3. /\ out'[c] \subseteq out[c]
      /\ pc'[c] \in {"send", "erase", "notice", "recv"}
      /\ cmd'[c] = IF pc'[c] = "recv" THEN NoCommand ELSE cmd[c]
  BY <1>1 DEF Serves, After
<1>4. cmd[c] # NoCommand
  BY <1>2 DEF Places, PlaceInv, Working
<1>5. Current(c) = cmd[c] /\ Current(c)' = IF pc'[c] = "recv" THEN NoCommand ELSE cmd[c]
  BY <1>2, <1>3 DEF Current
<1>6. Status(c) = "open" /\ UNCHANGED <<Status(c), Queue(c)>>
  BY <1>2 DEF Status, Queue
<1>7. s.line \in Line /\ s.line.kind \in Kinds /\ s.fd \in Fds /\ Stream(c) \in Seq(Kinds)
  BY StreamType DEF TypeInv, TypeOK, ThreadTypeOK, PendingSend, Line
<1>8. CASE s.fd = fd[c]
  <2>1. wire'[c] = Append(wire[c], s.line)
    <3>1. fdTable[s.fd] = c
      BY <1>8 DEF OpenInv
    <3>2. wire' = [wire EXCEPT ![fdTable[s.fd]] = Append(@, s.line)]
      BY <1>1, <1>8 DEF Serves
    <3>3. wire \in [Conns -> Seq(Line)]
      BY DEF TypeInv, TypeOK, PeerTypeOK
    <3> QED BY <3>1, <3>2, <3>3
  <2>2. Stream(c)' = Append(Stream(c), s.line.kind)
    BY <1>2, <1>7, <2>1, StreamGrows
  <2>3. OneLine(c) \/ ItsRows(c) \/ ItsMessage(c)
    BY <1>2 DEF AnswerInv, Answering
  <2>4. CASE OneLine(c)
    <3>1. /\ out[c] = {s} /\ failed[c] = <<>> /\ ~undelivered[c]
          /\ s.line.kind \in AnswersTo(cmd[c].op, who[c] # NoLogin /\ s.line.kind # "AUTH_SUCCESS")
          /\ (s.line.kind = "AUTH_SUCCESS" => who[c] = cmd[c].login)
      BY <1>2, <2>4 DEF OneLine, NextSend
    <3>2. pc'[c] = "recv" /\ out'[c] = {}
      BY <1>1, <1>2, <1>8, <3>1 DEF Serves, After
    <3>3. /\ Account(c) = IF s.line.kind = "AUTH_SUCCESS" THEN NoLogin ELSE who[c]
          /\ Account(c)' = who[c]
      BY <1>2, <3>1, <3>2 DEF Account
    <3>4. (Account(c) # NoLogin) = (who[c] # NoLogin /\ s.line.kind # "AUTH_SUCCESS")
      BY <3>3
    <3>5. s.line.kind \in AnswersTo(Current(c).op, Account(c) # NoLogin)
      BY <1>5, <3>1, <3>4 DEF AnswersTo
    <3>6. Account(c)' = IF s.line.kind = "AUTH_SUCCESS" THEN Current(c).login ELSE Account(c)
      BY <1>5, <3>1, <3>3
    <3> QED BY <1>4, <1>5, <1>6, <1>7, <2>2, <3>2, <3>5, <3>6, IsAnswer, NextKeeps
  <2>5. CASE ItsRows(c)
    <3>1. PICK e \in out[c] : /\ e.line.kind = "END_OF_HISTORY"
                              /\ \A t \in out[c] \ {e} : t.line.kind = "history" /\ ~NoLater(e.at, t.at)
      BY <2>5 DEF ItsRows
    <3>2. /\ who[c] # NoLogin /\ cmd[c].op \in {"GET_HISTORY", "GET_PRIVATE"}
          /\ failed[c] = <<>> /\ ~undelivered[c] /\ ok
      BY <1>2, <1>8, <2>5 DEF ItsRows
    <3>3. out'[c] = out[c] \ {s} /\ pc'[c] = IF out'[c] # {} THEN "send" ELSE "recv"
      BY <1>1, <3>2 DEF Serves, After
    <3>4. Account(c) = who[c] /\ Account(c)' = who[c]
      <4>1. \A t \in out[c] : t.line.kind # "AUTH_SUCCESS"
        BY <3>1
      <4> QED BY <1>2, <1>3, <4>1 DEF Account
    <3>5. CASE s = e
      <4>1. out[c] = {s}
        BY <1>2, <3>1, <3>5 DEF NextSend
      <4>2. pc'[c] = "recv"
        BY <3>3, <4>1
      <4>3. s.line.kind \in AnswersTo(Current(c).op, Account(c) # NoLogin)
        BY <1>5, <3>1, <3>2, <3>4, <3>5 DEF AnswersTo
      <4>4. Account(c)' = IF s.line.kind = "AUTH_SUCCESS" THEN Current(c).login ELSE Account(c)
        BY <3>1, <3>4, <3>5
      <4> QED BY <1>4, <1>5, <1>6, <1>7, <2>2, <4>2, <4>3, <4>4, IsAnswer, NextKeeps
    <3>6. CASE s # e
      <4>1. pc'[c] = "send" /\ s.line.kind = "history"
        BY <3>1, <3>3, <3>6
      <4>2. Current(c) # NoCommand /\ Current(c).op \in {"GET_HISTORY", "GET_PRIVATE"}
            /\ Current(c)' = Current(c) /\ Account(c) # NoLogin /\ Account(c)' = Account(c)
        BY <1>4, <1>5, <3>2, <3>4, <4>1
      <4> QED BY <1>6, <2>2, <4>1, <4>2, IsRow, NextKeeps
    <3> QED BY <3>5, <3>6
  <2>6. CASE ItsMessage(c)
    <3>1. /\ who[c] # NoLogin /\ cmd[c].op = "PRIVATE" /\ \A t \in out[c] : t.line.kind = "private"
      BY <1>8, <2>6 DEF ItsMessage
    <3>2. Account(c) = who[c] /\ Account(c)' = who[c]
      BY <1>2, <1>3, <3>1 DEF Account
    <3>3. CASE pc'[c] = "recv"
      <4>1. s.line.kind \in AnswersTo(Current(c).op, Account(c) # NoLogin)
        BY <1>5, <3>1, <3>2 DEF AnswersTo
      <4>2. Account(c)' = IF s.line.kind = "AUTH_SUCCESS" THEN Current(c).login ELSE Account(c)
        BY <3>1, <3>2
      <4> QED BY <1>4, <1>5, <1>6, <1>7, <2>2, <3>3, <4>1, <4>2, IsAnswer, NextKeeps
    <3>4. CASE pc'[c] # "recv"
      <4>1. s.line.kind \in {"public", "private"} /\ UNCHANGED <<Account(c), Current(c)>>
        BY <1>5, <3>1, <3>2, <3>4
      <4> QED BY <1>6, <1>7, <2>2, <4>1, IsChatter, NextKeeps
    <3> QED BY <3>3, <3>4
  <2> QED BY <2>3, <2>4, <2>5, <2>6
<1>9. CASE s.fd # fd[c]
  <2>1. ItsMessage(c)
    BY <1>2, <1>9 DEF AnswerInv, Answering, OneLine, ItsRows
  <2>2. /\ who[c] # NoLogin /\ cmd[c].op \in {"ALL", "PRIVATE"}
        /\ \A t \in out[c] : t.line.kind \in {"public", "private"}
    BY <2>1 DEF ItsMessage
  <2>3. Account(c) = who[c] /\ Account(c)' = who[c]
    BY <1>2, <1>3, <2>2 DEF Account
  <2>4. wire'[c] = wire[c]
    <3>1. fdTable[s.fd] # c
      BY <1>7, <1>9 DEF OwnInv, TableOwn
    <3> QED BY <1>1, <3>1 DEF Serves, TypeInv, TypeOK, PeerTypeOK
  <2>5. Stream(c)' = Stream(c)
    BY <1>2, <2>4 DEF Stream
  <2>6. CASE pc'[c] = "recv"
    BY <1>4, <1>5, <1>6, <2>2, <2>3, <2>5, <2>6, IsSilent, NextKeeps
  <2>7. CASE pc'[c] # "recv"
    BY <1>5, <1>6, <2>3, <2>5, <2>7, ViewKeeps
  <2> QED BY <2>6, <2>7
<1> QED BY <1>8, <1>9

LEMMA OwnThreadKeeps ==
  ASSUME Owns, Owns', OpenInv, Ordered, AnswerInv, NEW c \in Conns, peer[c] = "open", ThreadStep(c)
  PROVE  KeepsSession(c)
<1> USE DEF Owns, Base
<1>0. /\ peer' = peer /\ (inbox' = inbox \/ RecvData(c)) /\ (wire' = wire \/ SendNext(c))
      /\ Answering(c) /\ PlaceInv(c)
  BY ThreadPeers DEF AnswerInv, Places
<1>1. CASE \E ops : Takes(c, ops)
  BY <1>1, TakerKeeps
<1>2. CASE SendNext(c)
  BY <1>2, SenderKeeps
<1>3. CASE CallRecv(c)
  <2>1. UNCHANGED <<lines, who, out, cmd, inbox, wire>> /\ pc[c] = "recv"
    BY <1>3 DEF CallRecv, peerVars
  <2>2. pc'[c] = "wait"
    <3>1. fdTable[fd[c]] = c /\ c # NoConn
      BY ServerAssumption DEF OpenInv
    <3> QED BY <1>3, <3>1 DEF CallRecv, SetPc, TypeInv, TypeOK, ThreadTypeOK
  <2>3. UNCHANGED <<Current(c), Account(c)>>
    BY <1>0, <2>1, <2>2 DEF Current, Account
  <2> QED BY <1>0, <2>1, <2>3, BusyKeeps
<1>4. CASE RecvData(c)
  <2>1. reading[c] = c
    BY <1>4, ServerAssumption DEF RecvData, ProvedInv, OwnRead, TypeInv, Shape
  <2>2. PICK n \in 1..Len(inbox[c]) :
          /\ lines' = [lines EXCEPT ![c] = SubSeq(inbox[c], 1, n)]
          /\ inbox' = [inbox EXCEPT ![c] = SubSeq(inbox[c], n + 1, Len(inbox[c]))]
    BY <1>4, <2>1, RecvTakes
  <2>3. /\ lines'[c] = SubSeq(inbox[c], 1, n) /\ inbox'[c] = SubSeq(inbox[c], n + 1, Len(inbox[c]))
        /\ lines[c] = <<>> /\ inbox[c] \in Seq(Command)
        /\ pc[c] = "wait" /\ pc'[c] = "recv" /\ UNCHANGED <<who, out, cmd, wire>>
    BY <1>4, <2>2 DEF RecvData, Ordered, SetPc, TypeInv, TypeOK, PeerTypeOK, ThreadTypeOK
  <2>4. UNCHANGED Queue(c)
    <3>1. lines'[c] \o inbox'[c] = inbox[c]
      BY <2>3, SplitSeq
    <3>2. <<>> \o inbox[c] = inbox[c]
      BY <2>3, ConcatEmptySeq
    <3> QED BY <1>0, <2>3, <3>1, <3>2 DEF Queue
  <2>5. UNCHANGED <<Status(c), Current(c), Account(c), Stream(c)>>
    BY <1>0, <2>3 DEF Status, Current, Account, Stream
  <2> QED BY <2>4, <2>5, ViewKeeps
<1>5. CASE RecvEnd(c)
  <2>1. reading[c] = c /\ peer[c] = "closed"
    BY <1>5, ServerAssumption DEF RecvEnd, ProvedInv, OwnRead, TypeInv, Shape
  <2> QED BY <2>1
<1>6. CASE AddUserStep(c) \/ Notice(c)
  <2>1. PICK kind \in {"REGISTER_SUCCESS", "REGISTER_FAILED", "OFFLINE"} : \E l : Reply(c, kind, l)
    BY <1>6 DEF AddUserStep, Notice
  <2>2. /\ UNCHANGED <<lines, who, cmd, inbox, wire>> /\ pc[c] \in {"addUser", "notice"}
        /\ out[c] = {}
    BY <1>0, <1>6 DEF AddUserStep, Notice, peerVars, PlaceInv
  <2>3. Account(c)' = Account(c) /\ pc'[c] = "send"
    BY <1>0, <2>1, <2>2, ReplyAccount
  <2>4. Current(c)' = Current(c)
    BY <1>0, <2>2, <2>3 DEF Current
  <2> QED BY <1>0, <2>2, <2>3, <2>4, BusyKeeps
<1>7. CASE Publish(c)
  <2>1. /\ UNCHANGED <<lines, who, cmd, inbox, wire>> /\ pc[c] = "publish"
        /\ Reply(c, "AUTH_SUCCESS", who[c])
    BY <1>7 DEF Publish, peerVars
  <2>2. pc'[c] = "send" /\ \E s \in out'[c] : s.line.kind = "AUTH_SUCCESS"
    BY <2>1 DEF Reply, SetPc, ToSend, TypeInv, TypeOK, ThreadTypeOK
  <2>3. UNCHANGED <<Current(c), Account(c)>>
    BY <1>0, <2>1, <2>2 DEF Current, Account
  <2> QED BY <1>0, <2>1, <2>3, BusyKeeps
<1>8. CASE StorePrivate(c) \/ Erase(c)
  <2>1. /\ UNCHANGED <<lines, who, cmd, out, inbox, wire>> /\ pc[c] \in {"store", "erase"}
        /\ pc'[c] \in {"route", "close"}
    BY <1>8 DEF StorePrivate, Erase, SetPc, peerVars, TypeInv, TypeOK, ThreadTypeOK
  <2>2. UNCHANGED <<Current(c), Account(c)>>
    BY <1>0, <2>1 DEF Current, Account
  <2> QED BY <1>0, <2>1, <2>2, BusyKeeps
<1>9. CASE Route(c)
  <2>1. /\ UNCHANGED <<lines, who, cmd, inbox, wire>> /\ pc[c] = "route" /\ out[c] = {}
        /\ \E sends : SetPc(c, After(sends, <<>>, TRUE))
    BY <1>0, <1>9, Zenon DEF Route, peerVars, PlaceInv
  <2>2. pc'[c] \in {"send", "notice"}
    BY <2>1 DEF After, SetPc, TypeInv, TypeOK, ThreadTypeOK
  <2>3. ASSUME NEW s \in out'[c]
        PROVE  s.line.kind # "AUTH_SUCCESS"
    <3>1. s.line = [kind |-> "private", id |-> cmd[c].id, login |-> cmd[c].login]
      BY <1>9, RouteSends
    <3> QED BY <3>1
  <2>4. UNCHANGED <<Current(c), Account(c)>>
    BY <1>0, <2>1, <2>2, <2>3 DEF Current, Account
  <2> QED BY <1>0, <2>1, <2>4, BusyKeeps
<1>10. CASE Snapshot(c) \/ Close(c)
  <2>1. cmd[c] # NoCommand /\ cmd[c].op \in {"ALL", "PRIVATE"} /\ who[c] # NoLogin
    <3>1. cmd[c].op \in {"ALL", "PRIVATE"} /\ who[c] # NoLogin
      BY <1>0, <1>10 DEF Answering, Snapshot, Close
    <3> QED BY <3>1 DEF NoCommand
  <2>2. /\ UNCHANGED <<lines, who, inbox, wire>> /\ pc[c] \in {"snapshot", "close"} /\ out[c] = {}
        /\ \E sends, closes, notice : Resume(c, After(sends, closes, notice))
    BY <1>0, <1>10, <2>1, Zenon DEF Snapshot, Close, peerVars, PlaceInv
  <2>3. /\ pc'[c] \in {"send", "erase", "notice", "recv"}
        /\ cmd'[c] = IF pc'[c] = "recv" THEN NoCommand ELSE cmd[c]
    BY <2>2 DEF After, Resume, SetPc, TypeInv, TypeOK, ThreadTypeOK
  <2>4. \A s \in out'[c] : s.line.kind # "AUTH_SUCCESS"
    <3>1. CASE Snapshot(c)
      <4>1. out'[c] = {ToSend(<<0, i>>, clientSockets[i], "public", cmd[c].id, NoLogin) : i \in Targets(c)}
        BY <3>1 DEF Snapshot, TypeInv, TypeOK, ThreadTypeOK
      <4> QED BY <4>1 DEF ToSend
    <3>2. CASE Close(c)
      BY <2>2, <3>2 DEF Close
    <3> QED BY <1>10, <3>1, <3>2
  <2>5. /\ Account(c) = who[c] /\ Account(c)' = who[c] /\ Current(c) = cmd[c]
        /\ Current(c)' = IF pc'[c] = "recv" THEN NoCommand ELSE cmd[c]
    BY <1>0, <2>2, <2>3, <2>4 DEF Account, Current
  <2>6. CASE pc'[c] = "recv"
    <3>1. UNCHANGED <<Status(c), Queue(c), Stream(c)>>
      BY <1>0, <2>2 DEF Status, Queue, Stream
    <3> QED BY <2>1, <2>5, <2>6, <3>1, IsSilent, NextKeeps
  <2>7. CASE pc'[c] # "recv"
    BY <1>0, <2>2, <2>5, <2>7, BusyKeeps
  <2> QED BY <2>6, <2>7
<1>11. CASE Exit(c)
  <2>1. /\ lines[c] \in Seq(Command) /\ lines[c] # <<>> /\ inbox[c] \in Seq(Command)
        /\ pc[c] = "recv" /\ lines'[c] = Tail(lines[c]) /\ Head(lines[c]).op = "EXIT"
        /\ who[c] # NoLogin /\ who'[c] = NoLogin /\ out[c] = {}
        /\ UNCHANGED <<pc, cmd, out, inbox, wire>>
    BY <1>0, <1>11 DEF Exit, Receives, peerVars, PlaceInv, TypeInv, TypeOK, ThreadTypeOK, PeerTypeOK
  <2>2. Queue(c) = lines[c] \o inbox[c] /\ Queue(c)' = Tail(lines[c]) \o inbox[c]
    BY <1>0, <2>1 DEF Queue
  <2>3. Queue(c) # <<>> /\ Head(Queue(c)).op = "EXIT" /\ Queue(c)' = Tail(Queue(c))
    BY <2>1, <2>2, QueueTaken
  <2>4. /\ Current(c) = NoCommand /\ Current(c)' = Current(c) /\ Status(c) = "open"
        /\ Account(c) # NoLogin /\ Account(c)' = NoLogin /\ UNCHANGED <<Status(c), Stream(c)>>
    BY <1>0, <2>1 DEF Current, Account, Status, Stream
  <2> QED BY <2>3, <2>4, IsLeave, NextKeeps
<1> QED BY <1>1, <1>2, <1>3, <1>4, <1>5, <1>6, <1>7, <1>8, <1>9, <1>10, <1>11
        DEF ThreadStep, HandlerStep, Register, Authorize, Expecting, TooLong, StorePublic,
            CheckReceiver, GetUsers, GetHistory, GetPrivateHistory, UnknownCommand, JustReplies,
            GetPrivateThrows, SigPipe

LEMMA SessionStep ==
  ASSUME Owns, Owns', OpenInv, Ordered, AnswerInv, ToOthers, Unopened, Told, [Next]_vars,
         NEW c \in Conns
  PROVE  KeepsSession(c)
<1>1. CASE Start \/ (SetClock /\ UNCHANGED <<serverVars, threadVars, peerVars>>) \/ UNCHANGED vars
  BY <1>1, UnmovedKeeps DEF Start, vars, serverVars, threadVars, localVars, peerVars
<1>2. CASE Spawn
  BY <1>2, SpawnKeeps
<1>3. ASSUME Terminate
      PROVE  KeepsSession(c)
  BY <1>3, TerminateKeeps DEF Owns, Base
<1>4. ASSUME NEW d \in Conns, Accept(d)
      PROVE  KeepsSession(c)
  BY <1>4, AcceptKeeps
<1>5. ASSUME NEW d \in Conns, PeerSends(d)
      PROVE  KeepsSession(c)
  BY <1>5, PeerSendsKeeps DEF Owns, Base
<1>6. ASSUME NEW d \in Conns, PeerCloses(d)
      PROVE  KeepsSession(c)
  <2>1. peer[d] = "open" /\ peer' = [peer EXCEPT ![d] = "closed"]
        /\ UNCHANGED <<pc, lines, who, cmd, out, inbox, wire>>
    BY <1>6 DEF PeerCloses, threadVars
  <2>2. CASE d = c
    BY <2>1, <2>2, EndKeeps DEF Owns, Base, TypeInv, TypeOK, PeerTypeOK
  <2>3. CASE d # c
    BY <2>1, <2>3, UnmovedKeeps DEF Owns, Base, TypeInv, TypeOK, PeerTypeOK
  <2> QED BY <2>2, <2>3
<1>7. ASSUME NEW d \in Conns, ThreadStep(d)
      PROVE  KeepsSession(c)
  <2>1. CASE d # c
    BY <1>7, <2>1, OtherThreadKeeps
  <2>2. CASE d = c /\ peer[c] = "open"
    BY <1>7, <2>2, OwnThreadKeeps
  <2>3. CASE d = c /\ peer[c] # "open"
    BY <1>7, <2>3, ThreadPeers, ShutKeeps
  <2> QED BY <2>1, <2>2, <2>3
<1> QED BY <1>1, <1>2, <1>3, <1>4, <1>5, <1>6, <1>7 DEF Next, Kill, ThreadStep

LEMMA SessionStarts ==
  ASSUME Init, NEW c \in Conns
  PROVE  Session(c)!Init
BY DEF Init, Session!Init

\* While accept returns no number a thread still holds, every connection is a
\* session of ChatSession: its requests are answered one by one and in order, each by
\* its own answer and to the end before the next is taken up, and nothing comes
\* between but the chat lines of other handlers, whatever those do or fail to do.
THEOREM SessionsHold == ~ReuseHeld => (Spec => SessionsKept)
<1> SUFFICES ASSUME ~ReuseHeld
             PROVE  Spec => SessionsKept
  OBVIOUS
<1> DEFINE Served == OpenInv /\ Told /\ ToOthers /\ Unopened /\ AnswerInv
<1>1. Init => Served
  BY DEF Init, OpenInv, Told, ToOthers, Unopened, AnswerInv
<1>2. Owns /\ Owns' /\ Served /\ [Next]_vars => Served'
  BY OpenStep, ToldStep, ToOthersStep, UnopenedStep, AnswerStep
<1>3. OrderInv => Ordered
  BY DEF OrderInv
<1>4. Init => \A c \in Conns : Session(c)!Init
  BY SessionStarts
<1>5. Owns /\ Owns' /\ OrderInv /\ Served /\ [Next]_vars
        => \A c \in Conns : [Session(c)!Next]_(Session(c)!sessionVars)
  BY <1>3, SessionStep DEF KeepsSession
<1> HIDE DEF Served
<1> QED BY <1>1, <1>2, <1>4, <1>5, OwnsAlways, OrderAlways, PTL DEF Spec, SessionsKept

=============================================================================
