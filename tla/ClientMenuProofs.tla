-------------------------- MODULE ClientMenuProofs --------------------------
(***************************************************************************)
(* Theorems about the client program, for every value of its constants:    *)
(* its type, the reader of whoever waits, and the histories it prints.     *)
(***************************************************************************)
EXTENDS ClientMenu, SequenceTheorems, TLAPS

-----------------------------------------------------------------------------
(* What the operators of the model return *)

LEMMA AnswerKinds ==
  ASSUME NEW op \in RequestOps
  PROVE  /\ S!Answers(op) \subseteq LineKinds \ {"history", "public"}
         /\ "END_OF_HISTORY" \in S!Answers(op) => op \in {"GET_HISTORY", "GET_PRIVATE"}
         /\ "AUTH_SUCCESS" \in S!Answers(op) => op = "AUTH" /\ account = NoLogin
         /\ account # NoLogin => S!Answers("EXIT") = {}
<1>1. \A kind \in S!Answers(op) :
        /\ kind \in LineKinds \ {"history", "public"}
        /\ kind = "END_OF_HISTORY" => op \in {"GET_HISTORY", "GET_PRIVATE"}
        /\ kind = "AUTH_SUCCESS" => op = "AUTH" /\ account = NoLogin
  BY DEF RequestOps, LineKinds, S!Answers, S!Known
<1>2. account # NoLogin => S!Answers("EXIT") = {}
  BY DEF S!Answers, S!Known
<1> QED BY <1>1, <1>2

\* What recv may return are the lines that have arrived, in order.
LEMMA ReceivedLines ==
  ASSUME NetTypeOK, NEW got \in Receivable
  PROVE  /\ got \in Seq(NetLine) /\ Len(got) \in 1..(Len(stream) - taken)
         /\ \A i \in 1..Len(got) : /\ got[i].kind = stream[taken + i]
                                   /\ got[i].of = origin[taken + i]
                                   /\ got[i].place = taken + i
         /\ Head(got).kind = stream[taken + 1]
<1>1. PICK n \in 1..(Len(stream) - taken) : got = Arrived(n)
  BY DEF Receivable
<1>2. n \in Nat /\ taken \in Nat /\ Len(stream) \in Nat /\ Len(origin) = Len(stream)
  BY <1>1 DEF NetTypeOK
<1>3. \A i \in 1..n : taken + i \in 1..Len(stream) /\ taken + i \in Nat
  BY <1>1, <1>2
<1>4. \A i \in 1..n : stream[taken + i] \in LineKinds /\ origin[taken + i] \in 0..MaxRequests
  BY <1>2, <1>3, ElementOfSeq DEF NetTypeOK
<1>5. got \in Seq(NetLine) /\ Len(got) = n
  <2> DEFINE l(i) == [kind |-> stream[taken + i], of |-> origin[taken + i], place |-> taken + i]
  <2>1. \A i \in 1..n : l(i) \in NetLine
    BY <1>3, <1>4 DEF NetLine
  <2>2. got = [i \in 1..n |-> l(i)]
    BY <1>1 DEF Arrived
  <2> HIDE DEF l
  <2> QED BY <1>2, <2>1, <2>2
<1>6. \A i \in 1..n : /\ got[i].kind = stream[taken + i] /\ got[i].of = origin[taken + i]
                      /\ got[i].place = taken + i
  BY <1>1 DEF Arrived
<1>7. Head(got).kind = stream[taken + 1]
  <2>1. 1 \in 1..n /\ Head(got) = got[1]
    BY <1>1, <1>2, <1>5
  <2> QED BY <1>6, <2>1
<1> QED BY <1>1, <1>5, <1>6, <1>7

\* The flags are looked at in the order history, private, users.
LEMMA WaiterIs ==
  ASSUME MemberTypeOK
  PROVE  /\ Flagged = {} <=> \A w \in Waits : ~waitingFor[w]
         /\ Flagged # {} =>
              /\ Waiter \in Waits /\ waitingFor[Waiter]
              /\ waitingFor["history"] => Waiter = "history"
<1>1. /\ DOMAIN WaiterOrder = {1, 2, 3} /\ WaiterOrder[1] = "history"
      /\ WaiterOrder[2] = "private" /\ WaiterOrder[3] = "users"
  BY DEF WaiterOrder
<1>2. Flagged = {} <=> \A w \in Waits : ~waitingFor[w]
  BY <1>1 DEF Flagged, Waits
<1>3. ASSUME Flagged # {}
      PROVE  Min(Flagged) \in Flagged /\ \A i \in Flagged : Min(Flagged) <= i
  <2>1. Flagged \subseteq {1, 2, 3}
    BY <1>1 DEF Flagged
  <2>2. \E m \in Flagged : \A i \in Flagged : m <= i
    <3>1. CASE 1 \in Flagged
      BY <2>1, <3>1
    <3>2. CASE 1 \notin Flagged /\ 2 \in Flagged
      BY <2>1, <3>2
    <3>3. CASE 1 \notin Flagged /\ 2 \notin Flagged
      <4>1. Flagged = {3}
        BY <1>3, <2>1, <3>3
      <4> QED BY <4>1
    <3> QED BY <3>1, <3>2, <3>3
  <2> QED BY <2>2 DEF Min
<1>4. ASSUME Flagged # {}
      PROVE  /\ Waiter \in Waits /\ waitingFor[Waiter]
             /\ waitingFor["history"] => Waiter = "history"
  <2>1. Min(Flagged) \in {1, 2, 3} /\ waitingFor[WaiterOrder[Min(Flagged)]]
    BY <1>1, <1>3, <1>4 DEF Flagged
  <2>2. waitingFor["history"] => Min(Flagged) = 1
    <3>1. waitingFor["history"] => 1 \in Flagged
      BY <1>1 DEF Flagged
    <3> QED BY <1>3, <1>4, <2>1, <3>1
  <2> QED BY <1>1, <2>1, <2>2 DEF Waiter, Waits
<1> QED BY <1>2, <1>4

-----------------------------------------------------------------------------
(* Types *)

\* A line is sent: the stream grows by it and its tag.
LEMMA StreamGrows ==
  ASSUME NetTypeOK, NEW kind \in LineKinds, NEW n \in 0..MaxRequests,
         stream' = Append(stream, kind), origin' = Append(origin, n), taken' = taken
  PROVE  /\ stream' \in Seq(LineKinds) /\ origin' \in Seq(0..MaxRequests)
         /\ Len(origin') = Len(stream') /\ taken' \in 0..Len(stream')
         /\ Len(stream') = Len(stream) + 1
         /\ stream'[Len(stream) + 1] = kind /\ origin'[Len(stream) + 1] = n
         /\ \A k \in 1..Len(stream) : stream'[k] = stream[k] /\ origin'[k] = origin[k]
<1>1. stream \in Seq(LineKinds) /\ origin \in Seq(0..MaxRequests) /\ Len(origin) = Len(stream)
  BY DEF NetTypeOK
<1>2. /\ stream' \in Seq(LineKinds) /\ Len(stream') = Len(stream) + 1 /\ stream'[Len(stream) + 1] = kind
      /\ \A k \in 1..Len(stream) : stream'[k] = stream[k]
  BY <1>1, AppendProperties
<1>3. /\ origin' \in Seq(0..MaxRequests) /\ Len(origin') = Len(stream) + 1
      /\ origin'[Len(stream) + 1] = n
      /\ \A k \in 1..Len(stream) : origin'[k] = origin[k]
  BY <1>1, AppendProperties
<1>4. taken' \in 0..Len(stream')
  BY <1>1, <1>2 DEF NetTypeOK
<1> QED BY <1>2, <1>3, <1>4

\* The connection is cut: the first n lines are left.
LEMMA StreamCut ==
  ASSUME NetTypeOK, NEW n \in taken..Len(stream),
         stream' = SubSeq(stream, 1, n), origin' = SubSeq(origin, 1, n), taken' = taken
  PROVE  /\ stream' \in Seq(LineKinds) /\ origin' \in Seq(0..MaxRequests)
         /\ Len(origin') = Len(stream') /\ taken' \in 0..Len(stream') /\ Len(stream') = n
         /\ \A k \in 1..n : k \in 1..Len(stream) /\ stream'[k] = stream[k] /\ origin'[k] = origin[k]
<1>1. /\ stream \in Seq(LineKinds) /\ origin \in Seq(0..MaxRequests) /\ Len(origin) = Len(stream)
      /\ n \in Nat /\ Len(stream) \in Nat /\ taken \in Nat /\ taken <= n /\ n <= Len(stream)
  BY DEF NetTypeOK
<1>2. \A k \in 1..n : k \in 1..Len(stream) /\ stream[k] \in LineKinds /\ origin[k] \in 0..MaxRequests
  <2>1. \A k \in 1..n : k \in 1..Len(stream) /\ k \in 1..Len(origin)
    BY <1>1
  <2> QED BY <1>1, <2>1, ElementOfSeq
<1>3. stream' \in Seq(LineKinds) /\ Len(stream') = n /\ \A k \in 1..n : stream'[k] = stream[k]
  BY <1>1, <1>2, SubSeqProperties
<1>4. origin' \in Seq(0..MaxRequests) /\ Len(origin') = n /\ \A k \in 1..n : origin'[k] = origin[k]
  BY <1>1, <1>2, SubSeqProperties
<1> QED BY <1>1, <1>2, <1>3, <1>4

LEMMA AnswersType == ASSUME NetTypeOK, ServerAnswers PROVE NetTypeOK'
<1>1. current \in Request \cup {NoRequest} /\ queue \in Seq(Request)
  BY DEF NetTypeOK
<1>2. CASE (S!Take \/ S!Leave \/ S!Silent) /\ Untagged
  <2>1. queue # <<>> => Head(queue) \in Request /\ Tail(queue) \in Seq(Request)
    BY <1>1, HeadTailProperties
  <2> QED BY <1>2, <2>1 DEF NetTypeOK, S!Take, S!Leave, S!Silent, Untagged
<1>3. ASSUME NEW kind \in LineKinds, ~S!Idle, stream' = Append(stream, kind), Tagged(current.n)
      PROVE  /\ stream' \in Seq(LineKinds) /\ origin' \in Seq(0..MaxRequests)
             /\ Len(origin') = Len(stream') /\ taken' \in 0..Len(stream') /\ asked' = asked
  <2>1. current.n \in 0..MaxRequests
    BY <1>1, <1>3, ClientAssumption DEF S!Idle, Request
  <2> QED BY <1>3, <2>1, StreamGrows DEF Tagged
<1>4. CASE ~S!Idle /\ S!Row /\ Tagged(current.n)
  <2>1. "history" \in LineKinds
    BY DEF LineKinds
  <2> QED BY <1>3, <1>4, <2>1 DEF NetTypeOK, S!Row, S!Says
<1>5. ASSUME ~S!Idle, NEW kind \in S!Answers(current.op), S!Answer(kind), Tagged(current.n)
      PROVE  NetTypeOK'
  <2>1. current \in Request /\ current.op \in RequestOps /\ current.login \in Users \cup {NoLogin}
    BY <1>1, <1>5 DEF S!Idle, Request
  <2>2. kind \in LineKinds
    BY <1>5, <2>1, AnswerKinds
  <2> QED BY <1>3, <1>5, <2>1, <2>2 DEF NetTypeOK, S!Answer, S!Says
<1> QED BY <1>2, <1>4, <1>5 DEF ServerAnswers

LEMMA ChatterType == ASSUME NetTypeOK, OthersWrite PROVE NetTypeOK'
<1>1. "public" \in LineKinds /\ 0 \in 0..MaxRequests
  BY ClientAssumption DEF LineKinds
<1>2. /\ stream' = Append(stream, "public") /\ origin' = Append(origin, 0)
      /\ UNCHANGED <<taken, asked, status, queue, current, account>>
  BY DEF OthersWrite, S!Chatter, S!Says, Tagged
<1>3. /\ stream' \in Seq(LineKinds) /\ origin' \in Seq(0..MaxRequests)
      /\ Len(origin') = Len(stream') /\ taken' \in 0..Len(stream')
  BY <1>1, <1>2, StreamGrows
<1> QED BY <1>2, <1>3 DEF NetTypeOK

LEMMA ClosesType == ASSUME NetTypeOK, ServerCloses PROVE NetTypeOK'
<1>1. PICK n \in taken..Len(stream) : S!Close(n) /\ origin' = SubSeq(origin, 1, n)
  BY DEF ServerCloses
<1>2. taken' = taken /\ asked' = asked
  BY DEF ServerCloses
<1>3. /\ stream' \in Seq(LineKinds) /\ origin' \in Seq(0..MaxRequests)
      /\ Len(origin') = Len(stream') /\ taken' \in 0..Len(stream')
  BY <1>1, <1>2, StreamCut DEF S!Close
<1> QED BY <1>1, <1>2, <1>3 DEF NetTypeOK, S!Close

LEMMA SendType ==
  ASSUME NetTypeOK, NEW op \in RequestOps, NEW l \in Users \cup {NoLogin}, Send(op, l)
  PROVE  NetTypeOK'
<1>1. asked' = asked + 1 /\ asked' \in 1..MaxRequests
  BY ClientAssumption DEF Send, NetTypeOK
<1> DEFINE m == [op |-> op, login |-> l, n |-> asked']
<1>2. m \in Request
  BY <1>1 DEF Request
<1> HIDE DEF m
<1>3. S!Ask(m) \/ (status = "over" /\ UNCHANGED linkVars)
  BY DEF Send, m
<1>4. Append(queue, m) \in Seq(Request)
  BY <1>2, AppendProperties DEF NetTypeOK
<1>5. UNCHANGED <<origin, taken>>
  BY DEF Send
<1>6. asked' \in 0..MaxRequests
  BY <1>1, ClientAssumption
<1>7. CASE S!Ask(m)
  BY <1>4, <1>5, <1>6, <1>7 DEF NetTypeOK, S!Ask
<1>8. CASE status = "over" /\ UNCHANGED linkVars
  BY <1>5, <1>6, <1>8 DEF NetTypeOK, linkVars
<1> QED BY <1>3, <1>7, <1>8

LEMMA ConnectType ==
  ASSUME NetTypeOK, NEW op \in RequestOps, NEW l \in Users \cup {NoLogin}, ConnectAndSend(op, l)
  PROVE  NetTypeOK'
<1>1. asked' = asked + 1 /\ asked' \in 1..MaxRequests
  BY ClientAssumption DEF ConnectAndSend, NetTypeOK
<1> DEFINE m == [op |-> op, login |-> l, n |-> asked']
<1>2. m \in Request
  BY <1>1 DEF Request
<1> HIDE DEF m
<1>3. <<m>> \in Seq(Request) /\ <<>> \in Seq(LineKinds) /\ <<>> \in Seq(0..MaxRequests) /\ Len(<<>>) = 0
  BY <1>2
<1>4. /\ status' = "open" /\ current' = NoRequest /\ account' = NoLogin
      /\ queue' = <<m>> /\ stream' = <<>> /\ origin' = <<>> /\ taken' = 0
  BY DEF ConnectAndSend, m
<1> QED BY <1>1, <1>3, <1>4 DEF NetTypeOK

LEMMA HangUpType == ASSUME NetTypeOK, HangUp PROVE NetTypeOK' /\ clientSock' = FALSE
<1>1. <<>> \in Seq(Request) /\ <<>> \in Seq(LineKinds) /\ <<>> \in Seq(0..MaxRequests) /\ Len(<<>>) = 0
  OBVIOUS
<1> QED BY <1>1 DEF NetTypeOK, HangUp

LEMMA RecvType ==
  ASSUME NetTypeOK, NEW got \in Receivable, Recv(got)
  PROVE  NetTypeOK' /\ taken' = taken + Len(got)
<1>1. Len(got) \in 1..(Len(stream) - taken)
  BY ReceivedLines
<1>2. taken' = taken + Len(got) /\ UNCHANGED <<linkVars, origin, asked>>
  BY DEF Recv
<1>3. taken' \in 0..Len(stream)
  BY <1>1, <1>2 DEF NetTypeOK
<1> QED BY <1>2, <1>3 DEF NetTypeOK, linkVars

\* A call that waits knows what for.
CallInv ==
  /\ at \in {"send", "test", "doze", "sleep"} => call \in Waits
  /\ at = "print" => call = "history"

TypeInv == TypeOK /\ CallInv

\* What a step of the client may do to the connection.
LEMMA NetMoves ==
  ASSUME TypeInv, [Next]_vars
  PROVE  \/ UNCHANGED <<netVars, clientSock>>
         \/ ServerAnswers \/ OthersWrite \/ ServerCloses \/ HangUp
         \/ \E op \in RequestOps : \E l \in Users \cup {NoLogin} :
              (Send(op, l) /\ UNCHANGED clientSock) \/ ConnectAndSend(op, l)
         \/ (\E got \in Receivable : Recv(got)) /\ UNCHANGED clientSock
<1>1. CASE MainStep
  <2>1. CASE LoggedIn
    BY <2>1 DEF LoggedIn, AuthReturns, StartThread, memberVars
  <2>2. CASE LoginFails
    BY <2>2 DEF LoginFails, AuthReturns, memberVars
  <2>3. CASE \E ok \in BOOLEAN : RegisterReturns(ok)
    BY <2>3 DEF RegisterReturns, memberVars
  <2>4. CASE Started
    BY <2>4 DEF Started
  <2>5. CASE SendRequest(IF call = "private" THEN partner ELSE NoLogin)
    <3>1. Command(call) \in RequestOps
      BY <2>5 DEF SendRequest, TypeInv, CallInv, Waits, Command, RequestOps
    <3>2. (IF call = "private" THEN partner ELSE NoLogin) \in Users \cup {NoLogin}
      BY DEF TypeInv, TypeOK
    <3> QED BY <2>5, <3>1, <3>2 DEF SendRequest, memberVars
  <2>6. CASE RequestFails
    BY <2>6 DEF RequestFails, SendFails
  <2>7. CASE StillWaiting \/ FallAsleep \/ Wake \/ HistoryArrives \/ PrintLine \/ HistoryPrinted
    BY <2>7 DEF StillWaiting, FallAsleep, Wake, HistoryArrives, PrintLine, HistoryPrinted, InWait, memberVars
  <2>8. CASE \E found \in BOOLEAN : UsersArrive(found)
    BY <2>8 DEF UsersArrive, UsersReturn, memberVars
  <2>9. CASE PrivateChat
    BY <2>9 DEF PrivateChat, Expect
  <2> QED BY <1>1, <2>1, <2>2, <2>3, <2>4, <2>5, <2>6, <2>7, <2>8, <2>9 DEF MainStep
<1>2. CASE User
  <2>1. ASSUME NEW u \in Users, Login(u) \/ Register(u)
        PROVE  \E op \in RequestOps : \E l \in Users \cup {NoLogin} :
                 (Send(op, l) /\ UNCHANGED clientSock) \/ ConnectAndSend(op, l)
    <3>1. CASE Login(u)
      <4>1. /\ "AUTH" \in RequestOps /\ u \in Users \cup {NoLogin}
            /\ (Send("AUTH", u) /\ UNCHANGED clientSock) \/ ConnectAndSend("AUTH", u)
        BY <3>1 DEF Login, Apply, RequestOps
      <4> QED BY <4>1
    <3>2. CASE Register(u)
      <4>1. /\ "REGISTER" \in RequestOps /\ u \in Users \cup {NoLogin}
            /\ (Send("REGISTER", u) /\ UNCHANGED clientSock) \/ ConnectAndSend("REGISTER", u)
        BY <3>2 DEF Register, Apply, RequestOps
      <4> QED BY <4>1
    <3> QED BY <2>1, <3>1, <3>2
  <2>2. CASE ExitProgram \/ Quit
    BY <2>2 DEF ExitProgram, ProcessEnds, Quit, Disconnect
  <2>3. CASE PublicChat \/ ShowHistory \/ \E why \in {"list", "select"} : ShowUsers(why)
    BY <2>3 DEF PublicChat, ShowHistory, ShowUsers, Expect
  <2>4. CASE LeaveChat
    BY <2>4 DEF LeaveChat, clientVars, memberVars
  <2>5. CASE Say
    <3>1. /\ "ALL" \in RequestOps /\ "PRIVATE" \in RequestOps /\ NoLogin \in Users \cup {NoLogin}
          /\ current_user \in Users \cup {NoLogin}
      BY DEF RequestOps, TypeInv, TypeOK
    <3> QED BY <2>5, <3>1 DEF Say, SendFails, memberVars
  <2>6. CASE Leave
    <3>1. "EXIT" \in RequestOps /\ NoLogin \in Users \cup {NoLogin}
      BY DEF RequestOps
    <3> QED BY <2>6, <3>1 DEF Leave, LogOut, SendFails
  <2> QED BY <1>2, <2>1, <2>2, <2>3, <2>4, <2>5, <2>6 DEF User
<1>3. CASE ServerAnswers \/ Outside
  BY <1>3 DEF Outside, WakeSpuriously, InWait, memberVars, SigPipe, ProcessEnds
<1>4. ASSUME NEW r \in Readers, ReaderStep(r)
      PROVE  /\ UNCHANGED netVars \/ \E got \in Receivable : Recv(got)
             /\ UNCHANGED clientSock
  BY <1>4 DEF ReaderStep, TestRunning, CallRecv, ReadLines, ReadClosed, ReadNothing, ReadEnd, TakeLine,
              Notify, Parsed, ThreadEnds, ReaderOnly, memberVars
<1>5. CASE UNCHANGED vars
  BY <1>5 DEF vars, clientVars, memberVars
<1> QED BY <1>1, <1>2, <1>3, <1>4, <1>5 DEF Next

LEMMA NetStep == ASSUME TypeInv, [Next]_vars PROVE NetTypeOK'
<1>1. NetTypeOK
  BY DEF TypeInv, TypeOK, ClientTypeOK
<1>2. CASE UNCHANGED <<netVars, clientSock>>
  BY <1>1, <1>2 DEF NetTypeOK, netVars, linkVars
<1> QED BY <1>1, <1>2, NetMoves, AnswersType, ChatterType, ClosesType, HangUpType, SendType,
           ConnectType, RecvType

LEMMA RecentKept ==
  ASSUME NEW s \in Seq(LineKinds), Len(s) <= RecentLimit + 1
  PROVE  KeepRecent(s) \in Seq(LineKinds) /\ Len(KeepRecent(s)) <= RecentLimit
<1>1. RecentLimit \in Nat /\ Len(s) \in Nat
  BY ClientAssumption
<1>2. CASE Len(s) > RecentLimit
  <2>1. s # <<>>
    BY <1>1, <1>2
  <2>2. Tail(s) \in Seq(LineKinds) /\ Len(Tail(s)) = Len(s) - 1
    BY <2>1, HeadTailProperties
  <2> QED BY <1>1, <1>2, <2>2 DEF KeepRecent
<1>3. CASE ~(Len(s) > RecentLimit)
  BY <1>1, <1>3 DEF KeepRecent
<1> QED BY <1>2, <1>3

\* The line the loop takes goes to one answer, or to recentMessages.
LEMMA TakeLineType ==
  ASSUME MemberTypeOK, NEW r \in Readers, TakeLine(r)
  PROVE  MemberTypeOK'
<1> DEFINE l == Head(incomingBuffer)
           rest == Tail(incomingBuffer)
           ends == Waiter = "users" \/ l.kind = "END_OF_HISTORY"
<1>1. l \in NetLine /\ rest \in Seq(NetLine) /\ l.kind \in LineKinds
  <2>1. l \in NetLine /\ rest \in Seq(NetLine)
    BY HeadTailProperties DEF TakeLine, MemberTypeOK
  <2> QED BY <2>1 DEF NetLine
<1>2. incomingBuffer' = rest /\ UNCHANGED <<clientSock, running, isThreadRunning>>
  BY DEF TakeLine
<1> HIDE DEF l, rest
<1>3. CASE Flagged = {}
  <2>1. recentMessages' = KeepRecent(Append(recentMessages, l.kind)) /\ UNCHANGED <<answer, waitingFor>>
    BY <1>3 DEF TakeLine, l
  <2>2. Append(recentMessages, l.kind) \in Seq(LineKinds) /\ Len(Append(recentMessages, l.kind)) <= RecentLimit + 1
    <3>1. recentMessages \in Seq(LineKinds) /\ Len(recentMessages) <= RecentLimit /\ Len(recentMessages) \in Nat
      BY DEF MemberTypeOK
    <3>2. /\ Len(Append(recentMessages, l.kind)) = Len(recentMessages) + 1
          /\ Append(recentMessages, l.kind) \in Seq(LineKinds)
      BY <1>1, <3>1, AppendProperties
    <3> QED BY <3>1, <3>2, ClientAssumption
  <2>3. recentMessages' \in Seq(LineKinds) /\ Len(recentMessages') <= RecentLimit
    BY <2>1, <2>2, RecentKept
  <2> QED BY <1>1, <1>2, <2>1, <2>3 DEF MemberTypeOK
<1>4. CASE Flagged # {}
  <2>1. Waiter \in Waits
    BY <1>4, WaiterIs
  <2>2. /\ answer' = [answer EXCEPT ![Waiter] =
             IF Waiter = "users" THEN <<l>> ELSE IF ends THEN answer[Waiter] ELSE Append(answer[Waiter], l)]
        /\ waitingFor' = [waitingFor EXCEPT ![Waiter] = ~ends]
        /\ recentMessages' = recentMessages
    BY <1>4 DEF TakeLine, l
  <2>3. answer[Waiter] \in Seq(NetLine) /\ <<l>> \in Seq(NetLine) /\ Append(answer[Waiter], l) \in Seq(NetLine)
    BY <1>1, <2>1 DEF MemberTypeOK
  <2>4. answer' \in [Waits -> Seq(NetLine)]
    BY <2>1, <2>2, <2>3 DEF MemberTypeOK
  <2>5. waitingFor' \in [Waits -> BOOLEAN]
    <3> HIDE DEF ends
    <3>1. CASE ends
      <4>1. waitingFor' = [waitingFor EXCEPT ![Waiter] = FALSE]
        BY <2>2, <3>1
      <4> QED BY <4>1 DEF MemberTypeOK
    <3>2. CASE ~ends
      <4>1. waitingFor' = [waitingFor EXCEPT ![Waiter] = TRUE]
        BY <2>2, <3>2
      <4> QED BY <4>1 DEF MemberTypeOK
    <3> QED BY <3>1, <3>2
  <2> QED BY <1>1, <1>2, <2>2, <2>4, <2>5 DEF MemberTypeOK
<1> QED BY <1>3, <1>4

LEMMA EndsType == ASSUME ProcessEnds PROVE MemberTypeOK' /\ shown' = <<>>
<1>1. <<>> \in Seq(NetLine) /\ <<>> \in Seq(LineKinds) /\ Len(<<>>) = 0
  OBVIOUS
<1>2. answer' \in [Waits -> Seq(NetLine)] /\ waitingFor' \in [Waits -> BOOLEAN]
  BY <1>1 DEF ProcessEnds
<1>3. clientSock' = FALSE /\ running' = FALSE /\ isThreadRunning' = FALSE
  BY DEF ProcessEnds, HangUp
<1>4. /\ recentMessages' \in Seq(LineKinds) /\ Len(recentMessages') <= RecentLimit
      /\ incomingBuffer' \in Seq(NetLine) /\ shown' = <<>>
  <2>1. recentMessages' = <<>> /\ incomingBuffer' = <<>> /\ shown' = <<>>
    BY DEF ProcessEnds
  <2> QED BY <1>1, <2>1, ClientAssumption
<1> QED BY <1>2, <1>3, <1>4 DEF MemberTypeOK

LEMMA MemberStep == ASSUME TypeInv, [Next]_vars PROVE MemberTypeOK'
<1>0. MemberTypeOK /\ NetTypeOK
  BY DEF TypeInv, TypeOK, ClientTypeOK
<1>1. ASSUME UNCHANGED memberVars
      PROVE  MemberTypeOK'
  BY <1>0, <1>1 DEF MemberTypeOK, memberVars, flagVars
<1>2. ASSUME clientSock' \in BOOLEAN, UNCHANGED <<flagVars, answer, recentMessages, incomingBuffer>>
      PROVE  MemberTypeOK'
  BY <1>0, <1>2 DEF MemberTypeOK, flagVars
<1>3. ASSUME NEW w \in Waits, Expect(w)
      PROVE  MemberTypeOK'
  <2>1. <<>> \in Seq(NetLine)
    OBVIOUS
  <2>2. /\ answer' = [answer EXCEPT ![w] = <<>>] /\ waitingFor' = [waitingFor EXCEPT ![w] = TRUE]
        /\ UNCHANGED <<clientSock, running, isThreadRunning, recentMessages, incomingBuffer>>
    BY <1>3 DEF Expect
  <2>3. answer' \in [Waits -> Seq(NetLine)] /\ waitingFor' \in [Waits -> BOOLEAN]
    BY <1>0, <2>1, <2>2 DEF MemberTypeOK
  <2> QED BY <1>0, <2>2, <2>3 DEF MemberTypeOK
<1>4. "history" \in Waits /\ "private" \in Waits /\ "users" \in Waits
  BY DEF Waits
<1>5. CASE MainStep
  <2>1. CASE LoggedIn
    BY <1>0, <1>1, <2>1 DEF LoggedIn, StartThread, MemberTypeOK
  <2>2. CASE LoginFails \/ \E ok \in BOOLEAN : RegisterReturns(ok)
    BY <1>1, <2>2 DEF LoginFails, RegisterReturns
  <2>3. CASE Started
    BY <1>0, <2>3 DEF Started, MemberTypeOK
  <2>4. CASE SendRequest(IF call = "private" THEN partner ELSE NoLogin)
    BY <1>1, <2>4 DEF SendRequest
  <2>5. CASE RequestFails
    <3>1. (call = "users") \in BOOLEAN
      OBVIOUS
    <3>2. waitingFor' \in [Waits -> BOOLEAN]
      BY <1>0, <2>5, <3>1 DEF RequestFails, MemberTypeOK
    <3> QED BY <1>0, <2>5, <3>2 DEF RequestFails, MemberTypeOK
  <2>6. CASE StillWaiting \/ FallAsleep \/ Wake \/ HistoryArrives \/ PrintLine \/ HistoryPrinted
    BY <1>1, <2>6 DEF StillWaiting, FallAsleep, Wake, HistoryArrives, PrintLine, HistoryPrinted, InWait
  <2>7. CASE \E found \in BOOLEAN : UsersArrive(found)
    BY <1>1, <2>7 DEF UsersArrive, UsersReturn
  <2>8. CASE PrivateChat
    BY <1>3, <1>4, <2>8 DEF PrivateChat
  <2> QED BY <1>5, <2>1, <2>2, <2>3, <2>4, <2>5, <2>6, <2>7, <2>8 DEF MainStep
<1>6. CASE User
  <2>1. ASSUME NEW u \in Users, Login(u) \/ Register(u)
        PROVE  MemberTypeOK'
    <3>1. clientSock' \in BOOLEAN /\ UNCHANGED <<flagVars, answer, recentMessages, incomingBuffer>>
      BY <1>0, <2>1 DEF Login, Register, Apply, ConnectAndSend, MemberTypeOK
    <3> QED BY <1>2, <3>1
  <2>2. CASE ExitProgram \/ Quit
    BY <1>2, <2>2, EndsType DEF ExitProgram, Quit, Disconnect, HangUp
  <2>3. CASE PublicChat \/ ShowHistory \/ \E why \in {"list", "select"} : ShowUsers(why)
    BY <1>3, <1>4, <2>3 DEF PublicChat, ShowHistory, ShowUsers
  <2>4. CASE LeaveChat \/ Say
    BY <1>1, <2>4 DEF LeaveChat, clientVars, Say
  <2>5. CASE Leave
    BY <1>0, <2>5 DEF Leave, LogOut, StopsReceiving, MemberTypeOK
  <2> QED BY <1>6, <2>1, <2>2, <2>3, <2>4, <2>5 DEF User
<1>7. CASE ServerAnswers \/ Outside
  <2>1. CASE SigPipe
    BY <2>1, EndsType DEF SigPipe
  <2>2. CASE ServerAnswers \/ OthersWrite \/ ServerCloses \/ WakeSpuriously
    BY <1>1, <2>2 DEF ServerAnswers, OthersWrite, ServerCloses, WakeSpuriously, InWait, Untagged, Tagged
  <2> QED BY <1>7, <2>1, <2>2 DEF Outside
<1>8. ASSUME NEW r \in Readers, ReaderStep(r)
      PROVE  MemberTypeOK'
  <2>1. CASE TestRunning(r) \/ CallRecv(r) \/ ReadNothing(r) \/ ReadEnd(r) \/ Notify(r) \/ Parsed(r)
    BY <1>1, <2>1 DEF TestRunning, CallRecv, ReadNothing, ReadEnd, Notify, Parsed, ReaderOnly
  <2>2. CASE ReadLines(r)
    <3>1. PICK got \in Receivable : incomingBuffer' = incomingBuffer \o got
      BY <2>2 DEF ReadLines
    <3>2. incomingBuffer' \in Seq(NetLine)
      BY <1>0, <3>1, ReceivedLines, ConcatProperties DEF MemberTypeOK
    <3> QED BY <1>0, <2>2, <3>2 DEF ReadLines, MemberTypeOK, flagVars
  <2>3. CASE ReadClosed(r)
    <3>1. PICK kind \in {"public", "USERS"} :
            incomingBuffer' = Append(incomingBuffer, [kind |-> kind, of |-> 0, place |-> 0])
      BY <2>3 DEF ReadClosed
    <3>2. [kind |-> kind, of |-> 0, place |-> 0] \in NetLine
      BY ClientAssumption DEF NetLine, LineKinds
    <3>3. incomingBuffer' \in Seq(NetLine)
      BY <1>0, <3>1, <3>2, AppendProperties DEF MemberTypeOK
    <3> QED BY <1>0, <2>3, <3>3 DEF ReadClosed, MemberTypeOK, flagVars
  <2>4. CASE TakeLine(r)
    BY <1>0, <2>4, TakeLineType
  <2>5. CASE ThreadEnds(r)
    BY <1>0, <2>5 DEF ThreadEnds, MemberTypeOK
  <2> QED BY <1>8, <2>1, <2>2, <2>3, <2>4, <2>5 DEF ReaderStep
<1>9. CASE UNCHANGED vars
  BY <1>1, <1>9 DEF vars, clientVars
<1> QED BY <1>5, <1>6, <1>7, <1>8, <1>9 DEF Next

MenuTypeOK ==
  /\ screen \in {"main", "user", "public", "private"}
  /\ {current_user, typed, partner} \subseteq Users \cup {NoLogin}
  /\ purpose \in {"list", "select", "open"}

LEMMA ThreadStep == ASSUME TypeInv, [Next]_vars PROVE ThreadTypeOK' /\ MenuTypeOK' /\ CallInv'
<1>0. ThreadTypeOK /\ MenuTypeOK /\ CallInv
  BY DEF TypeInv, TypeOK, ClientTypeOK, MenuTypeOK
<1>e. <<>> \in Seq(BOOLEAN)
  OBVIOUS
<1>1. ASSUME UNCHANGED <<readerVars, mainVars>>
      PROVE  ThreadTypeOK' /\ CallInv'
  BY <1>0, <1>1 DEF ThreadTypeOK, CallInv, readerVars, mainVars
<1>2. ASSUME UNCHANGED readerVars, Return
      PROVE  ThreadTypeOK' /\ CallInv'
  BY <1>0, <1>2, <1>e DEF ThreadTypeOK, CallInv, readerVars, Return, MainPlaces
<1>3. ASSUME NEW w \in Waits, Expect(w)
      PROVE  ThreadTypeOK' /\ CallInv'
  BY <1>0, <1>3 DEF ThreadTypeOK, CallInv, readerVars, Expect, MainPlaces
<1>4. ASSUME UNCHANGED readerVars, NEW place \in {"auth", "register", "started"}, Goto(place)
      PROVE  ThreadTypeOK' /\ CallInv'
  BY <1>0, <1>4 DEF ThreadTypeOK, CallInv, readerVars, Goto, MainPlaces
<1>5. ASSUME ProcessEnds
      PROVE  ThreadTypeOK' /\ CallInv'
  <2>1. /\ rpc' \in [Readers -> ReaderPlaces] /\ on' \in [Readers -> {"socket", "closed"}]
        /\ at' = "exit" /\ call' = "none" /\ woken' = FALSE /\ shown' = <<>>
    BY <1>5 DEF ProcessEnds, ReaderPlaces
  <2> QED BY <1>e, <2>1 DEF ThreadTypeOK, CallInv, MainPlaces
<1>6. MenuUnchanged => MenuTypeOK'
  BY <1>0 DEF MenuTypeOK, MenuUnchanged, menuVars
<1>7. "history" \in Waits /\ "private" \in Waits /\ "users" \in Waits
  BY DEF Waits
<1>8. CASE MainStep
  <2>1. CASE LoggedIn
    <3>1. MenuTypeOK'
      BY <1>0, <2>1 DEF LoggedIn, MenuTypeOK
    <3>2. CASE isThreadRunning
      BY <1>2, <2>1, <3>1, <3>2 DEF LoggedIn, StartThread
    <3>3. CASE ~isThreadRunning
      BY <1>0, <2>1, <3>1, <3>3 DEF LoggedIn, StartThread, Goto, ThreadTypeOK, CallInv, MainPlaces, ReaderPlaces
    <3> QED BY <3>2, <3>3
  <2>2. CASE LoginFails
    BY <1>0, <1>2, <2>2 DEF LoginFails, MenuTypeOK
  <2>3. CASE (\E ok \in BOOLEAN : RegisterReturns(ok)) /\ MenuUnchanged
    BY <1>2, <1>6, <2>3 DEF RegisterReturns
  <2>4. CASE (Started \/ RequestFails) /\ MenuUnchanged
    BY <1>2, <1>6, <2>4 DEF Started, RequestFails
  <2>5. CASE SendRequest(IF call = "private" THEN partner ELSE NoLogin) /\ MenuUnchanged
    BY <1>0, <1>6, <2>5 DEF SendRequest, Goto, ThreadTypeOK, CallInv, readerVars, MainPlaces
  <2>6. CASE (StillWaiting \/ FallAsleep \/ Wake \/ HistoryArrives \/ HistoryPrinted) /\ MenuUnchanged
    BY <1>0, <1>6, <1>e, <2>6 DEF StillWaiting, FallAsleep, Wake, HistoryArrives, HistoryPrinted, InWait, Goto,
                            Return, ThreadTypeOK, CallInv, readerVars, MainPlaces, Waits
  <2>9. CASE PrintLine /\ MenuUnchanged
    <3>1. PICK found \in BOOLEAN : shown' = Append(shown, ~found)
      BY <2>9 DEF PrintLine
    <3>2. shown \in Seq(BOOLEAN)
      BY <1>0 DEF ThreadTypeOK
    <3>3. shown' \in Seq(BOOLEAN)
      <4>1. (~found) \in BOOLEAN
        OBVIOUS
      <4> DEFINE shows == ~found
      <4> HIDE DEF shows
      <4>2. shows \in BOOLEAN
        BY <4>1 DEF shows
      <4>3. Append(shown, shows) \in Seq(BOOLEAN)
        BY <3>2, <4>2, AppendProperties
      <4> QED BY <3>1, <4>3 DEF shows
    <3> QED BY <1>0, <1>6, <2>9, <3>3 DEF PrintLine, ThreadTypeOK, CallInv, readerVars
  <2>7. CASE \E found \in BOOLEAN : UsersArrive(found)
    <3>1. MenuTypeOK'
      BY <1>0, <2>7 DEF UsersArrive, MenuTypeOK
    <3> QED BY <1>2, <2>7, <3>1 DEF UsersArrive, UsersReturn
  <2>8. CASE PrivateChat
    <3>1. MenuTypeOK'
      BY <1>0, <2>8 DEF PrivateChat, MenuTypeOK
    <3> QED BY <1>3, <1>7, <2>8, <3>1 DEF PrivateChat
  <2> QED BY <1>8, <2>1, <2>2, <2>3, <2>4, <2>5, <2>6, <2>7, <2>8, <2>9 DEF MainStep
<1>9. CASE User
  <2>1. ASSUME NEW u \in Users, Login(u)
        PROVE  ThreadTypeOK' /\ MenuTypeOK' /\ CallInv'
    <3>1. MenuTypeOK'
      BY <1>0, <2>1 DEF Login, MenuTypeOK
    <3> QED BY <1>4, <2>1, <3>1 DEF Login, Apply
  <2>2. ASSUME NEW u \in Users, Register(u)
        PROVE  ThreadTypeOK' /\ MenuTypeOK' /\ CallInv'
    BY <1>4, <1>6, <2>2 DEF Register, Apply
  <2>3. CASE ExitProgram
    BY <1>5, <1>6, <2>3 DEF ExitProgram
  <2>4. CASE PublicChat \/ ShowHistory
    <3>1. MenuTypeOK'
      BY <1>0, <1>6, <2>4 DEF PublicChat, ShowHistory, MenuTypeOK
    <3> QED BY <1>3, <1>7, <2>4, <3>1 DEF PublicChat, ShowHistory
  <2>5. ASSUME NEW why \in {"list", "select"}, ShowUsers(why)
        PROVE  ThreadTypeOK' /\ MenuTypeOK' /\ CallInv'
    <3>1. MenuTypeOK'
      BY <1>0, <2>5 DEF ShowUsers, MenuTypeOK
    <3> QED BY <1>3, <1>7, <2>5, <3>1 DEF ShowUsers
  <2>6. CASE LeaveChat
    <3>1. MenuTypeOK'
      BY <1>0, <2>6 DEF LeaveChat, MenuTypeOK
    <3> QED BY <1>1, <2>6, <3>1 DEF LeaveChat, clientVars
  <2>7. CASE Say
    BY <1>1, <1>6, <2>7 DEF Say
  <2>8. CASE Quit
    <3>1. MenuTypeOK'
      BY <1>0, <2>8 DEF Quit, MenuTypeOK
    <3>2. UNCHANGED <<rpc, mainVars>> /\ on' = [r \in Readers |-> IF rpc[r] = "wait" THEN "closed" ELSE on[r]]
      BY <2>8 DEF Quit, Disconnect
    <3> QED BY <1>0, <3>1, <3>2 DEF ThreadTypeOK, CallInv, mainVars
  <2>9. CASE Leave
    <3>1. MenuTypeOK'
      BY <1>0, <2>9 DEF Leave, MenuTypeOK
    <3> QED BY <1>1, <2>9, <3>1 DEF Leave, LogOut
  <2> QED BY <1>9, <2>1, <2>2, <2>3, <2>4, <2>5, <2>6, <2>7, <2>8, <2>9 DEF User
<1>10. CASE (ServerAnswers \/ Outside) /\ MenuUnchanged
  <2>1. CASE WakeSpuriously
    BY <1>0, <1>6, <1>10, <2>1 DEF WakeSpuriously, InWait, Goto, ThreadTypeOK, CallInv, readerVars, MainPlaces
  <2>2. CASE ServerAnswers \/ OthersWrite \/ ServerCloses
    BY <1>1, <1>6, <1>10, <2>2 DEF ServerAnswers, OthersWrite, ServerCloses, Untagged, Tagged
  <2>3. CASE SigPipe
    BY <1>5, <1>6, <1>10, <2>3 DEF SigPipe
  <2> QED BY <1>10, <2>1, <2>2, <2>3 DEF Outside
<1>11. ASSUME NEW r \in Readers, ReaderStep(r), MenuUnchanged
       PROVE  ThreadTypeOK' /\ MenuTypeOK' /\ CallInv'
  <2>1. /\ on' \in [Readers -> {"socket", "closed"}]
        /\ rpc' \in [Readers -> ReaderPlaces] /\ woken' \in BOOLEAN
        /\ at' = at /\ call' = call /\ shown' = shown
    <3>1. CASE TestRunning(r) \/ CallRecv(r) \/ ReadNothing(r) \/ ReadEnd(r) \/ Parsed(r) \/ ThreadEnds(r)
      BY <1>0, <3>1 DEF TestRunning, CallRecv, ReadNothing, ReadEnd, Parsed, ThreadEnds, ReaderOnly, SetRpc,
                        mainVars, ThreadTypeOK, ReaderPlaces
    <3>2. CASE ReadLines(r) \/ ReadClosed(r)
      BY <1>0, <3>2 DEF ReadLines, ReadClosed, SetRpc, mainVars, ThreadTypeOK, ReaderPlaces
    <3>3. CASE TakeLine(r)
      <4>1. UNCHANGED <<on, at, call, woken, shown>>
        BY <3>3 DEF TakeLine, mainVars
      <4>2. rpc' = rpc \/ (Flagged # {} /\ SetRpc(r, Waiter))
        BY <3>3 DEF TakeLine
      <4>3. Flagged # {} => Waiter \in ReaderPlaces
        BY WaiterIs DEF TypeInv, TypeOK, ClientTypeOK, ReaderPlaces
      <4> QED BY <1>0, <4>1, <4>2, <4>3 DEF SetRpc, ThreadTypeOK
    <3>4. CASE Notify(r)
      <4>1. woken' \in BOOLEAN
        <5>1. woken \/ (at = "sleep" /\ call = rpc[r]) \in BOOLEAN
          BY <1>0 DEF ThreadTypeOK
        <5> QED BY <1>0, <3>4, <5>1 DEF Notify, ThreadTypeOK
      <4>2. UNCHANGED <<on, at, call, shown>> /\ SetRpc(r, "parse")
        BY <3>4 DEF Notify
      <4> QED BY <1>0, <4>1, <4>2 DEF SetRpc, ThreadTypeOK, ReaderPlaces
    <3> QED BY <1>11, <3>1, <3>2, <3>3, <3>4 DEF ReaderStep
  <2> QED BY <1>0, <1>6, <1>11, <2>1 DEF ThreadTypeOK, CallInv
<1>12. CASE UNCHANGED vars
  BY <1>1, <1>6, <1>12 DEF vars, clientVars, MenuUnchanged
<1> QED BY <1>8, <1>9, <1>10, <1>11, <1>12 DEF Next

LEMMA TypeStep == ASSUME TypeInv, [Next]_vars PROVE TypeInv'
BY NetStep, MemberStep, ThreadStep DEF TypeInv, TypeOK, ClientTypeOK, MenuTypeOK

LEMMA TypeInit == ASSUME Init PROVE TypeInv
<1>1. /\ <<>> \in Seq(Request) /\ <<>> \in Seq(LineKinds) /\ <<>> \in Seq(0..MaxRequests)
      /\ <<>> \in Seq(NetLine) /\ Len(<<>>) = 0
  OBVIOUS
<1>2. NetTypeOK
  BY <1>1, ClientAssumption DEF Init, ClientInit, NetTypeOK
<1>3. MemberTypeOK
  <2>1. answer \in [Waits -> Seq(NetLine)]
    BY <1>1 DEF Init, ClientInit
  <2>2. waitingFor \in [Waits -> BOOLEAN]
    BY DEF Init, ClientInit
  <2>3. recentMessages \in Seq(LineKinds) /\ Len(recentMessages) <= RecentLimit
    BY <1>1, ClientAssumption DEF Init, ClientInit
  <2> QED BY <1>1, <2>1, <2>2, <2>3 DEF Init, ClientInit, MemberTypeOK
<1>4. ThreadTypeOK /\ CallInv
  <2>1. <<>> \in Seq(BOOLEAN)
    OBVIOUS
  <2> QED BY <2>1 DEF Init, ClientInit, ThreadTypeOK, CallInv, ReaderPlaces, MainPlaces
<1> QED BY <1>2, <1>3, <1>4 DEF Init, TypeInv, TypeOK, ClientTypeOK

\* The client's state has its type, for any bounds: the counts, the buffers, the
\* flags and where the threads stand.
THEOREM ClientTypes == Spec => []TypeOK
<1>1. Init => TypeInv
  BY TypeInit
<1>2. TypeInv /\ [Next]_vars => TypeInv'
  BY TypeStep
<1>3. TypeInv => TypeOK
  BY DEF TypeInv
<1> QED BY <1>1, <1>2, <1>3, PTL DEF Spec

-----------------------------------------------------------------------------
(* Whoever waits has a reader *)

\* Nothing of a connection that is over is left at the server.
LinkInv ==
  /\ status = "over" => queue = <<>> /\ current = NoRequest /\ account = NoLogin
  /\ ~clientSock => status = "over"

LEMMA LinkStep == ASSUME TypeInv, LinkInv, [Next]_vars PROVE LinkInv'
<1>1. CASE UNCHANGED <<netVars, clientSock>>
  BY <1>1 DEF LinkInv, netVars, linkVars
<1>2. CASE ServerAnswers
  <2>1. UNCHANGED <<status, clientSock>>
    BY <1>2 DEF ServerAnswers, S!Take, S!Leave, S!Silent, S!Row, S!Answer, Untagged, Tagged, memberVars
  <2>2. status # "over"
    BY <1>2 DEF ServerAnswers, S!Take, S!Leave, S!Silent, S!Row, S!Answer, S!Idle, LinkInv
  <2> QED BY <2>1, <2>2 DEF LinkInv
<1>3. CASE OthersWrite
  BY <1>3 DEF OthersWrite, S!Chatter, Tagged, memberVars, LinkInv
<1>4. CASE ServerCloses
  BY <1>4 DEF ServerCloses, S!Close, memberVars, LinkInv
<1>5. CASE HangUp
  BY <1>5 DEF HangUp, LinkInv
<1>6. ASSUME NEW op \in RequestOps, NEW l \in Users \cup {NoLogin}, Send(op, l), UNCHANGED clientSock
      PROVE  LinkInv'
  BY <1>6 DEF Send, S!Ask, linkVars, LinkInv
<1>7. ASSUME NEW op \in RequestOps, NEW l \in Users \cup {NoLogin}, ConnectAndSend(op, l)
      PROVE  LinkInv'
  BY <1>7 DEF ConnectAndSend, LinkInv
<1>8. CASE (\E got \in Receivable : Recv(got)) /\ UNCHANGED clientSock
  BY <1>8 DEF Recv, linkVars, LinkInv
<1> QED BY <1>1, <1>2, <1>3, <1>4, <1>5, <1>6, <1>7, <1>8, NetMoves

\* The thread is told to run exactly while somebody is logged in.
RunInv ==
  /\ screen = "main" => ~running /\ ~isThreadRunning /\ at \in {"menu", "auth", "register", "exit"}
  /\ screen \in LoggedInScreens => running \/ at = "exit"
  /\ at = "exit" => ~clientSock
  /\ at \in {"auth", "register"} => screen = "main"
  /\ purpose = "open" => screen \in LoggedInScreens

LEMMA RunStep == ASSUME TypeInv, RunInv, [Next]_vars PROVE RunInv'
<1>0. screen \in {"main", "user", "public", "private"}
  BY DEF TypeInv, TypeOK
<1>1. ASSUME UNCHANGED <<clientSock, running, isThreadRunning, at, menuVars>>
      PROVE  RunInv'
  BY <1>1 DEF RunInv, menuVars
<1>2. ASSUME ProcessEnds, MenuUnchanged
      PROVE  RunInv'
  BY <1>2 DEF ProcessEnds, HangUp, RunInv, MenuUnchanged, menuVars
<1>3. ASSUME UNCHANGED <<running, isThreadRunning, menuVars>>, screen \in LoggedInScreens,
             at # "exit", at' \notin {"auth", "register", "exit"}
      PROVE  RunInv'
  BY <1>3 DEF RunInv, menuVars, LoggedInScreens
<1>4. at \notin {"menu", "auth", "register", "exit"} => screen \in LoggedInScreens
  BY <1>0 DEF RunInv, LoggedInScreens
<1>5. CASE MainStep
  <2>1. CASE LoggedIn
    BY <2>1 DEF LoggedIn, AuthReturns, StartThread, Goto, RunInv, LoggedInScreens
  <2>2. CASE LoginFails
    BY <2>2 DEF LoginFails, AuthReturns, Return, RunInv, LoggedInScreens, memberVars, flagVars
  <2>3. CASE (\E ok \in BOOLEAN : RegisterReturns(ok)) /\ MenuUnchanged
    BY <2>3 DEF RegisterReturns, Return, RunInv, LoggedInScreens, memberVars, flagVars, MenuUnchanged, menuVars
  <2>4. CASE Started /\ MenuUnchanged
    BY <1>4, <2>4 DEF Started, Return, RunInv, LoggedInScreens, MenuUnchanged, menuVars
  <2>5. CASE (SendRequest(IF call = "private" THEN partner ELSE NoLogin) \/ RequestFails) /\ MenuUnchanged
    <3>1. at = "send" /\ at' \notin {"auth", "register", "exit"} /\ UNCHANGED <<running, isThreadRunning, menuVars>>
      BY <2>5 DEF SendRequest, RequestFails, Return, Goto, memberVars, flagVars, MenuUnchanged
    <3> QED BY <1>3, <1>4, <3>1
  <2>6. CASE (StillWaiting \/ FallAsleep \/ Wake \/ HistoryArrives \/ PrintLine \/ HistoryPrinted) /\ MenuUnchanged
    <3>1. at \in {"test", "doze", "sleep", "print"} /\ at' \notin {"auth", "register", "exit"}
      BY <2>6 DEF StillWaiting, FallAsleep, Wake, HistoryArrives, PrintLine, HistoryPrinted, InWait, Return, Goto
    <3>2. UNCHANGED <<running, isThreadRunning, menuVars>>
      BY <2>6 DEF StillWaiting, FallAsleep, Wake, HistoryArrives, PrintLine, HistoryPrinted, InWait, memberVars, flagVars,
                  MenuUnchanged
    <3> QED BY <1>3, <1>4, <3>1, <3>2
  <2>7. CASE \E found \in BOOLEAN : UsersArrive(found)
    <3>1. at \in {"test", "sleep"} /\ at' = "menu"
      BY <2>7 DEF UsersArrive, UsersReturn, WaitTimesOut, Return
    <3>2. UNCHANGED <<running, isThreadRunning, screen>>
      BY <2>7 DEF UsersArrive, UsersReturn, memberVars, flagVars
    <3> QED BY <1>4, <3>1, <3>2 DEF RunInv, LoggedInScreens
  <2>8. CASE PrivateChat
    BY <2>8 DEF PrivateChat, Expect, RunInv, LoggedInScreens
  <2> QED BY <1>5, <2>1, <2>2, <2>3, <2>4, <2>5, <2>6, <2>7, <2>8 DEF MainStep
<1>6. CASE User
  <2>1. ASSUME NEW u \in Users, Login(u) \/ Register(u)
        PROVE  RunInv'
    BY <2>1 DEF Login, Register, Apply, Goto, AtMenu, flagVars, RunInv, LoggedInScreens, MenuUnchanged, menuVars
  <2>2. CASE ExitProgram
    BY <1>2, <2>2 DEF ExitProgram
  <2>3. CASE PublicChat
    BY <2>3 DEF PublicChat, AtMenu, Expect, RunInv, LoggedInScreens
  <2>4. CASE ShowHistory
    BY <2>4 DEF ShowHistory, AtMenu, Expect, RunInv, LoggedInScreens, MenuUnchanged, menuVars
  <2>5. ASSUME NEW why \in {"list", "select"}, ShowUsers(why)
        PROVE  RunInv'
    BY <2>5 DEF ShowUsers, AtMenu, Expect, RunInv, LoggedInScreens
  <2>6. CASE LeaveChat
    BY <2>6 DEF LeaveChat, AtMenu, clientVars, memberVars, flagVars, mainVars, RunInv, LoggedInScreens
  <2>7. CASE Say
    BY <1>1, <2>7 DEF Say, memberVars, flagVars, mainVars, MenuUnchanged
  <2>8. CASE Quit
    BY <2>8 DEF Quit, AtMenu, Disconnect, flagVars, mainVars, RunInv, LoggedInScreens
  <2>9. CASE Leave
    BY <2>9 DEF Leave, AtMenu, LogOut, StopsReceiving, mainVars, RunInv, LoggedInScreens
  <2> QED BY <1>6, <2>1, <2>2, <2>3, <2>4, <2>5, <2>6, <2>7, <2>8, <2>9 DEF User
<1>7. CASE (ServerAnswers \/ Outside) /\ MenuUnchanged
  <2>1. CASE WakeSpuriously
    <3>1. at = "sleep" /\ at' = "test" /\ UNCHANGED <<running, isThreadRunning, menuVars>>
      BY <1>7, <2>1 DEF WakeSpuriously, InWait, Goto, memberVars, flagVars, MenuUnchanged
    <3> QED BY <1>3, <1>4, <3>1
  <2>2. CASE ServerAnswers \/ OthersWrite \/ ServerCloses
    BY <1>1, <1>7, <2>2 DEF ServerAnswers, OthersWrite, ServerCloses, Untagged, Tagged, memberVars, flagVars,
                            mainVars, MenuUnchanged
  <2>3. CASE SigPipe
    BY <1>2, <1>7, <2>3 DEF SigPipe
  <2> QED BY <1>7, <2>1, <2>2, <2>3 DEF Outside
<1>8. ASSUME NEW r \in Readers, ReaderStep(r), MenuUnchanged
      PROVE  RunInv'
  <2>1. running' = running /\ at' = at /\ isThreadRunning' \in {isThreadRunning, FALSE}
        /\ clientSock' = clientSock
    BY <1>8 DEF ReaderStep, TestRunning, CallRecv, ReadLines, ReadClosed, ReadNothing, ReadEnd, TakeLine,
                Notify, Parsed, ThreadEnds, ReaderOnly, memberVars, flagVars, mainVars
  <2>2. CASE isThreadRunning' = isThreadRunning
    BY <1>8, <2>1, <2>2 DEF RunInv, MenuUnchanged, menuVars
  <2>3. CASE isThreadRunning' = FALSE
    BY <1>8, <2>1, <2>3 DEF RunInv, MenuUnchanged, menuVars
  <2> QED BY <2>1, <2>2, <2>3
<1>9. CASE UNCHANGED vars
  BY <1>1, <1>9 DEF vars, clientVars, memberVars, flagVars, mainVars
<1> QED BY <1>5, <1>6, <1>7, <1>8, <1>9 DEF Next

\* A thread that reads the connection, or is on its way to.
Reading == \E r \in Readers : rpc[r] \notin {"none", "end"}

ReaderInv == screen \in LoggedInScreens /\ status = "open" => Reading

\* A reader ends only once it is told to, or once the connection is over.
LEMMA ReaderGoesOn ==
  ASSUME MemberTypeOK, ThreadTypeOK, LinkInv, running, status' = "open", NEW r \in Readers, ReaderStep(r), Reading
  PROVE  Reading'
<1>1. PICK q \in Readers : rpc[q] \notin {"none", "end"}
  BY DEF Reading
<1>2. status = "open" /\ clientSock
  BY DEF ReaderStep, TestRunning, CallRecv, ReadLines, ReadClosed, ReadNothing, ReadEnd, TakeLine, Notify,
         Parsed, ThreadEnds, ReaderOnly, Recv, netVars, linkVars, LinkInv
<1>3. \A p \in Readers : p # r => rpc'[p] = rpc[p]
  BY DEF ReaderStep, TestRunning, CallRecv, ReadLines, ReadClosed, ReadNothing, ReadEnd, TakeLine, Notify,
         Parsed, ThreadEnds, SetRpc, ThreadTypeOK
<1>4. CASE q # r
  BY <1>1, <1>3, <1>4 DEF Reading
<1>5. CASE q = r
  <2>1. CASE TakeLine(r)
    <3>1. CASE Flagged = {}
      BY <1>1, <1>5, <2>1, <3>1 DEF TakeLine, Reading
    <3>2. CASE Flagged # {}
      <4>1. Waiter \in {"history", "private", "users"}
        BY <3>2, WaiterIs DEF Waits
      <4> QED BY <1>1, <1>5, <2>1, <3>2, <4>1 DEF TakeLine, SetRpc, ThreadTypeOK, Reading
    <3> QED BY <3>1, <3>2
  <2>2. ~ReadEnd(r) /\ ~ThreadEnds(r)
    BY <1>1, <1>2, <1>5 DEF ReadEnd, RecvZero, ThreadEnds
  <2>3. CASE ~TakeLine(r)
    <3>1. rpc'[r] \in {"test", "recv", "wait", "parse"}
      BY <1>2, <2>2, <2>3 DEF ReaderStep, TestRunning, CallRecv, ReadLines, ReadClosed, ReadNothing, Notify,
                              Parsed, SetRpc, ThreadTypeOK
    <3> QED BY <3>1 DEF Reading
  <2> QED BY <2>1, <2>3
<1> QED BY <1>4, <1>5

LEMMA ReaderInvStep == ASSUME TypeInv, LinkInv, RunInv, ReaderInv, [Next]_vars PROVE ReaderInv'
<1>0. screen \in {"main", "user", "public", "private"} /\ ThreadTypeOK /\ MemberTypeOK
  BY DEF TypeInv, TypeOK, ClientTypeOK
<1>1. ASSUME screen \in LoggedInScreens, UNCHANGED <<rpc, status>>
      PROVE  ReaderInv'
  BY <1>1 DEF ReaderInv, Reading
<1>2. ASSUME UNCHANGED <<screen, status, rpc>>
      PROVE  ReaderInv'
  BY <1>2 DEF ReaderInv, Reading
<1>3. ASSUME status' = "over"
      PROVE  ReaderInv'
  BY <1>3 DEF ReaderInv
<1>4. ASSUME screen' = "main"
      PROVE  ReaderInv'
  BY <1>4 DEF ReaderInv, LoggedInScreens
<1>5. ASSUME NEW op \in RequestOps, NEW l \in Users \cup {NoLogin}, Send(op, l)
      PROVE  status' = status
  BY <1>5 DEF Send, S!Ask, linkVars
<1>6. SendFails => status' = status
  BY DEF SendFails, netVars, linkVars
<1>7. CASE MainStep
  <2>1. CASE LoggedIn
    <3>1. screen = "main" /\ ~isThreadRunning
      BY <2>1 DEF LoggedIn, AuthReturns, RunInv
    <3>2. PICK r \in Readers : rpc' = [rpc EXCEPT ![r] = "test"]
      BY <2>1, <3>1 DEF LoggedIn, StartThread
    <3>3. rpc'[r] = "test"
      BY <1>0, <3>2 DEF ThreadTypeOK
    <3> QED BY <3>3 DEF ReaderInv, Reading
  <2>2. CASE LoginFails \/ ((\E ok \in BOOLEAN : RegisterReturns(ok)) /\ MenuUnchanged)
    <3>1. screen = "main" /\ screen' = screen
      BY <2>2 DEF LoginFails, AuthReturns, RegisterReturns, RunInv, MenuUnchanged, menuVars
    <3> QED BY <1>4, <3>1
  <2>3. CASE (Started \/ RequestFails) /\ MenuUnchanged
    BY <1>2, <1>6, <2>3 DEF Started, RequestFails, netVars, linkVars, readerVars, MenuUnchanged, menuVars
  <2>4. CASE SendRequest(IF call = "private" THEN partner ELSE NoLogin) /\ MenuUnchanged
    <3>1. status' = status
      BY <2>4 DEF SendRequest, Send, S!Ask, linkVars
    <3> QED BY <1>2, <2>4, <3>1 DEF SendRequest, readerVars, MenuUnchanged, menuVars
  <2>5. CASE (StillWaiting \/ FallAsleep \/ Wake \/ HistoryArrives \/ PrintLine \/ HistoryPrinted) /\ MenuUnchanged
    BY <1>2, <2>5 DEF StillWaiting, FallAsleep, Wake, HistoryArrives, PrintLine, HistoryPrinted, InWait, netVars, linkVars,
                      readerVars, MenuUnchanged, menuVars
  <2>6. CASE \E found \in BOOLEAN : UsersArrive(found)
    BY <1>2, <2>6 DEF UsersArrive, UsersReturn, netVars, linkVars, readerVars
  <2>7. CASE PrivateChat
    BY <1>1, <2>7 DEF PrivateChat, Expect, RunInv, netVars, linkVars, readerVars
  <2> QED BY <1>7, <2>1, <2>2, <2>3, <2>4, <2>5, <2>6, <2>7 DEF MainStep
<1>8. CASE User
  <2>1. ASSUME NEW u \in Users, Login(u) \/ Register(u)
        PROVE  ReaderInv'
    BY <1>4, <2>1 DEF Login, Register, AtMenu, MenuUnchanged, menuVars
  <2>2. CASE ExitProgram \/ Quit
    BY <1>3, <2>2 DEF ExitProgram, Quit, ProcessEnds, Disconnect, HangUp
  <2>3. CASE PublicChat \/ ShowHistory \/ \E why \in {"list", "select"} : ShowUsers(why)
    <3>1. screen \in LoggedInScreens
      BY <2>3 DEF PublicChat, ShowHistory, ShowUsers, AtMenu, LoggedInScreens
    <3>2. UNCHANGED <<rpc, status>>
      BY <2>3 DEF PublicChat, ShowHistory, ShowUsers, Expect, netVars, linkVars, readerVars
    <3> QED BY <1>1, <3>1, <3>2
  <2>4. CASE LeaveChat
    BY <1>1, <2>4 DEF LeaveChat, AtMenu, LoggedInScreens, clientVars, netVars, linkVars, readerVars
  <2>5. CASE Say
    <3>1. status' = status
      BY <1>6, <2>5 DEF Say, Send, S!Ask, linkVars
    <3> QED BY <1>2, <2>5, <3>1 DEF Say, readerVars, MenuUnchanged, menuVars
  <2>6. CASE Leave
    BY <1>4, <2>6 DEF Leave
  <2> QED BY <1>8, <2>1, <2>2, <2>3, <2>4, <2>5, <2>6 DEF User
<1>9. CASE (ServerAnswers \/ Outside) /\ MenuUnchanged
  <2>1. CASE ServerCloses \/ SigPipe
    BY <1>3, <2>1 DEF ServerCloses, S!Close, SigPipe, ProcessEnds, HangUp
  <2>2. CASE ServerAnswers \/ OthersWrite
    BY <1>2, <1>9, <2>2 DEF ServerAnswers, S!Take, S!Leave, S!Silent, S!Row, S!Answer, OthersWrite, S!Chatter,
                            Untagged, Tagged, readerVars, MenuUnchanged, menuVars
  <2>3. CASE WakeSpuriously
    BY <1>2, <1>9, <2>3 DEF WakeSpuriously, InWait, netVars, linkVars, readerVars, MenuUnchanged, menuVars
  <2> QED BY <1>9, <2>1, <2>2, <2>3 DEF Outside
<1>10. ASSUME NEW r \in Readers, ReaderStep(r), MenuUnchanged
       PROVE  ReaderInv'
  <2>1. SUFFICES ASSUME screen' \in LoggedInScreens, status' = "open"
                 PROVE  Reading'
    BY DEF ReaderInv
  <2>3. status = "open"
    BY <1>10, <2>1 DEF ReaderStep, TestRunning, CallRecv, ReadLines, ReadClosed, ReadNothing, ReadEnd, TakeLine,
                       Notify, Parsed, ThreadEnds, ReaderOnly, Recv, netVars, linkVars
  <2>2. screen \in LoggedInScreens /\ running
    BY <1>10, <2>1, <2>3 DEF MenuUnchanged, menuVars, RunInv, LinkInv
  <2> QED BY <1>0, <1>10, <2>1, <2>2, <2>3, ReaderGoesOn DEF ReaderInv
<1>11. CASE UNCHANGED vars
  BY <1>2, <1>11 DEF vars, clientVars, netVars, linkVars, readerVars, menuVars
<1> QED BY <1>7, <1>8, <1>9, <1>10, <1>11 DEF Next

\* Whoever waits for an answer while the connection stands has a receiveMessages that
\* reads it: startThread starts one with every login, though the flag it looks at is
\* set and cleared by two threads, and the one it started ends only when it is told to.
THEOREM WaitersHaveReaders == Spec => []WaiterHasReader
<1> DEFINE Inv == TypeInv /\ LinkInv /\ RunInv /\ ReaderInv
<1>1. Init => Inv
  BY TypeInit DEF Init, ClientInit, LinkInv, RunInv, ReaderInv, LoggedInScreens
<1>2. Inv /\ [Next]_vars => Inv'
  BY TypeStep, LinkStep, RunStep, ReaderInvStep
<1>3. Inv => WaiterHasReader
  BY DEF WaiterHasReader, RunInv, ReaderInv, Reading, Alive, TypeInv, TypeOK, LoggedInScreens
<1> QED BY <1>1, <1>2, <1>3, PTL DEF Spec

-----------------------------------------------------------------------------
(* The history printed is whole *)

HistoryOps == {"GET_HISTORY", "GET_PRIVATE"}
Awaits == {"test", "doze", "sleep"}

\* No line and no request is tagged with a number that is still to be given.
TagInv ==
  /\ \A i \in DOMAIN queue : queue[i].n <= asked
  /\ current # NoRequest => current.n <= asked
  /\ \A k \in DOMAIN origin : origin[k] <= asked
  /\ \A i \in DOMAIN incomingBuffer : incomingBuffer[i].of <= asked
  /\ \A i \in DOMAIN answer["history"] : answer["history"][i].of <= asked

\* The flag of a history is set only during the call that set it.
FlagInv ==
  \A w \in {"history", "private"} :
    /\ waitingFor[w] => call = w /\ at \in Awaits \cup {"send"}
    /\ at = "send" /\ call = w => waitingFor[w]

\* A history has been asked for, and its end has not been taken.
Awaited == at \in Awaits /\ call \in {"history", "private"} /\ waitingFor[call]

\* Where the end of a history may be: asked for, being answered, sent, received.
HistoryQueued == {i \in DOMAIN queue : queue[i].op \in HistoryOps}
HistoryTaken == current # NoRequest /\ current.op \in HistoryOps
EndsSent == {k \in DOMAIN stream : k > taken /\ stream[k] = "END_OF_HISTORY"}
EndsRead == {i \in DOMAIN incomingBuffer : incomingBuffer[i].kind = "END_OF_HISTORY"}

\* It is in one place at most, and only while it is waited for.
EndInv ==
  /\ \A i \in EndsRead : Awaited /\ EndsSent = {} /\ HistoryQueued = {} /\ ~HistoryTaken
       /\ \A j \in EndsRead : j = i
  /\ \A k \in EndsSent : Awaited /\ HistoryQueued = {} /\ ~HistoryTaken
       /\ \A j \in EndsSent : j = k
  /\ HistoryTaken => Awaited /\ current.n = asked /\ HistoryQueued = {}
  /\ \A i \in HistoryQueued : Awaited /\ queue[i].n = asked /\ \A j \in HistoryQueued : j = i

\* The rows of the last request that are sent and not yet received
RowsComing == {k \in RowsSent(asked) : k > taken}

\* come before its end.
RowInv ==
  /\ \A i \in EndsRead : RowsComing = {} /\ \A j \in RowsIn(incomingBuffer) : j < i
  /\ \A k \in EndsSent : \A j \in RowsComing : j < k

\* requestHistory is on the way to print what it asked for.
Got == call = "history" /\ at \in Awaits \cup {"print"}

Places(lines) == {lines[i].place : i \in RowsIn(lines)}
Rising(lines) == \A i, k \in RowsIn(lines) : i < k => lines[i].place < lines[k].place

\* What it has, with what the loop has still to take, are the rows received.
GotInv ==
  Got =>
    /\ Places(answer["history"]) \cup Places(incomingBuffer) = RowsSent(asked) \ RowsComing
    /\ Rising(answer["history"]) /\ Rising(incomingBuffer)
    /\ \A p \in Places(answer["history"]), q \in Places(incomingBuffer) : p < q
    /\ ~waitingFor["history"] => RowsComing = {} /\ RowsIn(incomingBuffer) = {}

HistInv == TagInv /\ FlagInv /\ EndInv /\ RowInv /\ GotInv

bufferVars == <<queue, current, stream, origin, taken, asked, incomingBuffer, answer>>

\* What is asked, sent and received stays as it is.
LEMMA HistStays ==
  ASSUME HistInv, UNCHANGED bufferVars, FlagInv', Awaited => Awaited',
         Got' => Got /\ waitingFor'["history"] = waitingFor["history"]
  PROVE  HistInv'
<1>1. /\ EndsRead' = EndsRead /\ EndsSent' = EndsSent /\ HistoryQueued' = HistoryQueued
      /\ HistoryTaken' = HistoryTaken /\ RowsComing' = RowsComing /\ RowsSent(asked)' = RowsSent(asked)
      /\ RowsIn(incomingBuffer)' = RowsIn(incomingBuffer)
      /\ RowsIn(answer["history"])' = RowsIn(answer["history"])
  BY DEF bufferVars, EndsRead, EndsSent, HistoryQueued, HistoryTaken, RowsComing, RowsSent, RowsIn
<1>2. /\ Places(incomingBuffer)' = Places(incomingBuffer) /\ Places(answer["history"])' = Places(answer["history"])
      /\ Rising(incomingBuffer)' = Rising(incomingBuffer) /\ Rising(answer["history"])' = Rising(answer["history"])
  BY <1>1 DEF bufferVars, Places, Rising
<1>3. TagInv'
  BY DEF HistInv, TagInv, bufferVars
<1>4. EndInv'
  BY <1>1 DEF HistInv, EndInv, bufferVars
<1>5. RowInv'
  BY <1>1 DEF HistInv, RowInv
<1>6. GotInv'
  <2>1. SUFFICES ASSUME Got'
                 PROVE  GotInv'
    BY DEF GotInv
  <2>2. /\ Places(answer["history"]) \cup Places(incomingBuffer) = RowsSent(asked) \ RowsComing
        /\ Rising(answer["history"]) /\ Rising(incomingBuffer)
        /\ \A p \in Places(answer["history"]), q \in Places(incomingBuffer) : p < q
        /\ ~waitingFor["history"] => RowsComing = {} /\ RowsIn(incomingBuffer) = {}
    BY <2>1 DEF HistInv, GotInv
  <2> QED BY <1>1, <1>2, <2>1, <2>2 DEF GotInv
<1> QED BY <1>3, <1>4, <1>5, <1>6 DEF HistInv

\* Nothing of a history is under way: the main thread is in no call of its own.
NoHistory == EndsRead = {} /\ EndsSent = {} /\ HistoryQueued = {} /\ ~HistoryTaken

LEMMA NotAwaited ==
  ASSUME HistInv, at \notin Awaits
  PROVE  NoHistory
BY DEF HistInv, EndInv, Awaited, NoHistory

LEMMA NoHistoryHolds ==
  ASSUME NoHistory', TagInv', FlagInv', ~Got'
  PROVE  HistInv'
BY DEF HistInv, NoHistory, EndInv, RowInv, GotInv

\* The domains of the sequences are intervals.
LEMMA Lengths ==
  ASSUME TypeInv
  PROVE  /\ queue \in Seq(Request) /\ DOMAIN queue = 1..Len(queue) /\ Len(queue) \in Nat
         /\ stream \in Seq(LineKinds) /\ DOMAIN stream = 1..Len(stream) /\ Len(stream) \in Nat
         /\ origin \in Seq(0..MaxRequests) /\ DOMAIN origin = 1..Len(stream)
         /\ incomingBuffer \in Seq(NetLine) /\ DOMAIN incomingBuffer = 1..Len(incomingBuffer)
         /\ Len(incomingBuffer) \in Nat
         /\ answer["history"] \in Seq(NetLine)
         /\ DOMAIN answer["history"] = 1..Len(answer["history"]) /\ Len(answer["history"]) \in Nat
         /\ asked \in Nat /\ taken \in Nat /\ taken <= Len(stream)
<1>1. queue \in Seq(Request) /\ stream \in Seq(LineKinds) /\ origin \in Seq(0..MaxRequests)
      /\ Len(origin) = Len(stream) /\ asked \in Nat /\ taken \in 0..Len(stream)
  BY ClientAssumption DEF TypeInv, TypeOK, ClientTypeOK, NetTypeOK
<1>2. incomingBuffer \in Seq(NetLine) /\ answer["history"] \in Seq(NetLine)
  BY DEF TypeInv, TypeOK, ClientTypeOK, MemberTypeOK, Waits
<1> QED BY <1>1, <1>2, LenProperties

\* A line is sent that no row of the last request and no end of a history is.
LEMMA HistChat ==
  ASSUME TypeInv, HistInv, NEW kind \in LineKinds \ {"history", "END_OF_HISTORY"},
         NEW n \in 0..MaxRequests, n <= asked,
         stream' = Append(stream, kind), origin' = Append(origin, n),
         UNCHANGED <<taken, asked, incomingBuffer, answer, waitingFor, at, call, queue>>,
         current' \in {current, NoRequest}
  PROVE  HistInv'
<1>0. NetTypeOK
  BY DEF TypeInv, TypeOK, ClientTypeOK
<1>1. /\ Len(stream') = Len(stream) + 1 /\ stream'[Len(stream) + 1] = kind /\ origin'[Len(stream) + 1] = n
      /\ \A k \in 1..Len(stream) : stream'[k] = stream[k] /\ origin'[k] = origin[k]
      /\ DOMAIN stream' = 1..(Len(stream) + 1) /\ DOMAIN origin' = 1..(Len(stream) + 1)
  <2>1. /\ stream' \in Seq(LineKinds) /\ origin' \in Seq(0..MaxRequests) /\ Len(origin') = Len(stream')
        /\ Len(stream') = Len(stream) + 1 /\ stream'[Len(stream) + 1] = kind
        /\ origin'[Len(stream) + 1] = n
        /\ \A k \in 1..Len(stream) : stream'[k] = stream[k] /\ origin'[k] = origin[k]
    BY <1>0, StreamGrows
  <2> QED BY <2>1, LenProperties
<1>2. EndsSent' = EndsSent
  BY <1>1, Lengths DEF EndsSent
<1>3. RowsSent(asked)' = RowsSent(asked)
  BY <1>1, Lengths DEF RowsSent
<1>4. RowsComing' = RowsComing
  BY <1>3 DEF RowsComing
<1>5. /\ EndsRead' = EndsRead /\ HistoryQueued' = HistoryQueued /\ (HistoryTaken' => HistoryTaken /\ current' = current)
      /\ RowsIn(incomingBuffer)' = RowsIn(incomingBuffer)
      /\ RowsIn(answer["history"])' = RowsIn(answer["history"])
      /\ Awaited' = Awaited /\ Got' = Got
  BY DEF EndsRead, HistoryQueued, HistoryTaken, RowsIn, Awaited, Got
<1>6. /\ Places(incomingBuffer)' = Places(incomingBuffer) /\ Places(answer["history"])' = Places(answer["history"])
      /\ Rising(incomingBuffer)' = Rising(incomingBuffer) /\ Rising(answer["history"])' = Rising(answer["history"])
  BY <1>5 DEF Places, Rising
<1>7. TagInv'
  BY <1>1, Lengths DEF HistInv, TagInv
<1>8. FlagInv'
  BY DEF HistInv, FlagInv
<1>9. EndInv'
  BY <1>2, <1>5 DEF HistInv, EndInv
<1>10. RowInv'
  BY <1>2, <1>4, <1>5 DEF HistInv, RowInv
<1>11. GotInv'
  BY <1>3, <1>4, <1>5, <1>6 DEF HistInv, GotInv
<1> QED BY <1>7, <1>8, <1>9, <1>10, <1>11 DEF HistInv

\* The first request is taken from the queue, and handled or not.
LEMMA HistTake ==
  ASSUME TypeInv, HistInv, queue # <<>>, queue' = Tail(queue), current = NoRequest,
         \/ current' = Head(queue)
         \/ current' = NoRequest /\ Head(queue).op \notin HistoryOps,
         UNCHANGED <<stream, origin, taken, asked, incomingBuffer, answer, waitingFor, at, call>>
  PROVE  HistInv'
<1>1. /\ DOMAIN queue' = 1..(Len(queue) - 1) /\ \A i \in 1..(Len(queue) - 1) : queue'[i] = queue[i + 1]
      /\ Head(queue) = queue[1] /\ Len(queue) \in Nat \ {0} /\ DOMAIN queue = 1..Len(queue)
      /\ Head(queue) # NoRequest
  <2>1. /\ Tail(queue) \in Seq(Request) /\ Len(Tail(queue)) = Len(queue) - 1
        /\ \A i \in 1..Len(Tail(queue)) : Tail(queue)[i] = queue[i + 1]
        /\ Head(queue) = queue[1] /\ Head(queue) \in Request
    BY Lengths, HeadTailProperties
  <2>2. Len(queue) # 0
    BY Lengths, EmptySeq
  <2> QED BY <2>1, <2>2, Lengths, LenProperties, ClientAssumption
<1>2. /\ EndsRead' = EndsRead /\ EndsSent' = EndsSent /\ RowsSent(asked)' = RowsSent(asked)
      /\ RowsComing' = RowsComing
      /\ RowsIn(incomingBuffer)' = RowsIn(incomingBuffer)
      /\ RowsIn(answer["history"])' = RowsIn(answer["history"])
      /\ Awaited' = Awaited /\ Got' = Got
  BY DEF EndsRead, EndsSent, RowsSent, RowsComing, RowsIn, Awaited, Got
<1>3. /\ Places(incomingBuffer)' = Places(incomingBuffer) /\ Places(answer["history"])' = Places(answer["history"])
      /\ Rising(incomingBuffer)' = Rising(incomingBuffer) /\ Rising(answer["history"])' = Rising(answer["history"])
  BY <1>2 DEF Places, Rising
<1>4. TagInv'
  BY <1>1 DEF HistInv, TagInv
<1>5. FlagInv'
  BY DEF HistInv, FlagInv
<1>6. \A i \in HistoryQueued' : i + 1 \in HistoryQueued /\ queue'[i] = queue[i + 1]
  BY <1>1 DEF HistoryQueued
<1>7. HistoryTaken' => 1 \in HistoryQueued /\ current' = queue[1]
  BY <1>1 DEF HistoryTaken, HistoryQueued
<1>8. \A i \in HistoryQueued' : i \in Nat /\ i # 0
  BY <1>1 DEF HistoryQueued
<1>9. EndInv'
  <2>1. HistoryTaken' => HistoryQueued' = {}
    <3>1. ASSUME HistoryTaken', NEW i \in HistoryQueued'
          PROVE  FALSE
      BY <1>6, <1>7, <1>8, <3>1 DEF HistInv, EndInv
    <3> QED BY <3>1
  <2>2. HistoryQueued = {} => HistoryQueued' = {} /\ ~HistoryTaken'
    BY <1>6, <1>7
  <2>3. HistoryTaken' => Awaited' /\ current'.n = asked'
    BY <1>2, <1>7 DEF HistInv, EndInv
  <2>4. ASSUME NEW i \in HistoryQueued'
        PROVE  Awaited' /\ queue'[i].n = asked' /\ \A j \in HistoryQueued' : j = i
    <3>1. Awaited' /\ queue'[i].n = asked'
      BY <1>2, <1>6 DEF HistInv, EndInv
    <3>2. ASSUME NEW j \in HistoryQueued'
          PROVE  j = i
      <4>1. i + 1 = j + 1
        BY <1>6 DEF HistInv, EndInv
      <4> QED BY <1>8, <4>1
    <3> QED BY <3>1, <3>2
  <2> QED BY <1>2, <2>1, <2>2, <2>3, <2>4 DEF HistInv, EndInv
<1>10. RowInv'
  BY <1>2 DEF HistInv, RowInv
<1>11. GotInv'
  BY <1>2, <1>3 DEF HistInv, GotInv
<1> QED BY <1>4, <1>5, <1>9, <1>10, <1>11 DEF HistInv

\* A row of a history, or the end of one, is sent.
LEMMA HistRow ==
  ASSUME TypeInv, HistInv, NEW kind \in {"history", "END_OF_HISTORY"}, HistoryTaken,
         stream' = Append(stream, kind), origin' = Append(origin, current.n),
         current' = IF kind = "history" THEN current ELSE NoRequest,
         UNCHANGED <<taken, asked, incomingBuffer, answer, waitingFor, at, call, queue>>
  PROVE  HistInv'
<1>0. NetTypeOK
  BY DEF TypeInv, TypeOK, ClientTypeOK
<1> DEFINE last == Len(stream) + 1
<1>1. /\ Len(stream') = last /\ stream'[last] = kind /\ origin'[last] = asked
      /\ \A k \in 1..Len(stream) : stream'[k] = stream[k] /\ origin'[k] = origin[k]
      /\ DOMAIN stream' = 1..last /\ DOMAIN origin' = 1..last
  <2>1. current.n = asked /\ asked \in 0..MaxRequests /\ kind \in LineKinds
    BY <1>0 DEF HistInv, EndInv, NetTypeOK, LineKinds
  <2>2. /\ stream' \in Seq(LineKinds) /\ origin' \in Seq(0..MaxRequests) /\ Len(origin') = Len(stream')
        /\ Len(stream') = last /\ stream'[last] = kind
        /\ origin'[last] = asked
        /\ \A k \in 1..Len(stream) : stream'[k] = stream[k] /\ origin'[k] = origin[k]
    BY <1>0, <2>1, StreamGrows
  <2> QED BY <2>2, LenProperties
<1>2. /\ Awaited /\ current.n = asked /\ HistoryQueued = {} /\ EndsRead = {} /\ EndsSent = {}
  BY DEF HistInv, EndInv
<1>3. last \in Nat /\ last > taken /\ last \notin 1..Len(stream) /\ \A k \in 1..Len(stream) : k < last
  BY Lengths
<1>4. EndsSent' = IF kind = "history" THEN {} ELSE {last}
  <2>1. \A k \in EndsSent' : k = last /\ kind = "END_OF_HISTORY"
    BY <1>1, <1>2, Lengths DEF EndsSent
  <2>2. kind = "END_OF_HISTORY" => last \in EndsSent'
    BY <1>1, <1>3 DEF EndsSent
  <2>3. CASE kind = "history"
    BY <2>1, <2>3
  <2>4. CASE kind = "END_OF_HISTORY"
    BY <2>1, <2>2, <2>4
  <2> QED BY <2>3, <2>4
<1>5. RowsSent(asked)' = RowsSent(asked) \cup (IF kind = "history" THEN {last} ELSE {})
  <2>1. \A k : k \in RowsSent(asked)' <=> k \in RowsSent(asked) \/ (k = last /\ kind = "history")
    BY <1>1, <1>3, Lengths DEF RowsSent
  <2>2. CASE kind = "history"
    BY <2>1, <2>2
  <2>3. CASE kind # "history"
    BY <2>1, <2>3
  <2> QED BY <2>2, <2>3
<1>6. RowsComing' = RowsComing \cup (IF kind = "history" THEN {last} ELSE {})
  BY <1>3, <1>5 DEF RowsComing
<1>7. last \notin RowsSent(asked) /\ \A k \in RowsComing : k < last
  BY <1>3, Lengths DEF RowsSent, RowsComing
<1>8. RowsSent(asked)' \ RowsComing' = RowsSent(asked) \ RowsComing
  BY <1>5, <1>6, <1>7
<1>9. /\ EndsRead' = EndsRead /\ HistoryQueued' = HistoryQueued
      /\ RowsIn(incomingBuffer)' = RowsIn(incomingBuffer)
      /\ RowsIn(answer["history"])' = RowsIn(answer["history"])
      /\ Awaited' = Awaited /\ Got' = Got
  BY DEF EndsRead, HistoryQueued, RowsIn, Awaited, Got
<1>10. /\ Places(incomingBuffer)' = Places(incomingBuffer) /\ Places(answer["history"])' = Places(answer["history"])
       /\ Rising(incomingBuffer)' = Rising(incomingBuffer) /\ Rising(answer["history"])' = Rising(answer["history"])
  BY <1>9 DEF Places, Rising
<1> HIDE DEF last
<1>11. TagInv'
  <2>1. \A k \in DOMAIN origin' : origin'[k] <= asked'
    <3>1. SUFFICES ASSUME NEW k \in 1..last
                   PROVE  origin'[k] <= asked
      BY <1>1
    <3>2. CASE k = last
      BY <1>1, <3>2, Lengths
    <3>3. CASE k # last
      <4>1. k \in 1..Len(stream) /\ k \in DOMAIN origin
        BY <1>3, <3>3, Lengths DEF last
      <4> QED BY <1>1, <4>1 DEF HistInv, TagInv
    <3> QED BY <3>2, <3>3
  <2> QED BY <2>1 DEF HistInv, TagInv
<1>12. FlagInv'
  BY DEF HistInv, FlagInv
<1>13. EndInv'
  <2>1. \A k \in EndsSent' : k = last /\ kind = "END_OF_HISTORY"
    BY <1>4
  <2>2. kind = "END_OF_HISTORY" => ~HistoryTaken'
    BY DEF HistoryTaken
  <2>3. HistoryTaken' => current'.n = asked'
    BY <1>2 DEF HistoryTaken
  <2> QED BY <1>2, <1>9, <2>1, <2>2, <2>3 DEF EndInv
<1>14. RowInv'
  <2>1. ASSUME NEW k \in EndsSent', NEW j \in RowsComing'
        PROVE  j < k
    <3>1. k = last /\ kind # "history"
      BY <1>4
    <3> QED BY <1>6, <1>7, <3>1
  <2> QED BY <1>2, <1>9, <2>1 DEF RowInv
<1>15. GotInv'
  <2>1. Got => waitingFor["history"]
    BY <1>2 DEF Awaited, Got, Awaits
  <2> QED BY <1>8, <1>9, <1>10, <2>1 DEF HistInv, GotInv
<1> QED BY <1>11, <1>12, <1>13, <1>14, <1>15 DEF HistInv

LEMMA HistAnswers == ASSUME TypeInv, HistInv, ServerAnswers PROVE HistInv'
<1>0. NetTypeOK /\ current \in Request \cup {NoRequest}
  BY DEF TypeInv, TypeOK, ClientTypeOK, NetTypeOK
<1>1. UNCHANGED <<taken, asked, incomingBuffer, answer, waitingFor, at, call>>
  BY DEF ServerAnswers, Untagged, Tagged, memberVars, flagVars, mainVars
<1>2. CASE S!Take /\ Untagged
  BY <1>1, <1>2, HistTake DEF S!Take, S!Idle, Untagged
<1>3. CASE S!Leave /\ Untagged
  <2>1. Head(queue).op \notin HistoryOps
    BY <1>3 DEF S!Leave, HistoryOps
  <2> QED BY <1>1, <1>3, <2>1, HistTake DEF S!Leave, S!Idle, Untagged
<1>4. CASE S!Silent /\ Untagged
  <2>1. current' = NoRequest /\ UNCHANGED <<queue, stream, origin>> /\ ~HistoryTaken
    BY <1>4 DEF S!Silent, Untagged, HistoryTaken, HistoryOps
  <2>2. /\ EndsRead' = EndsRead /\ EndsSent' = EndsSent /\ RowsSent(asked)' = RowsSent(asked)
        /\ RowsComing' = RowsComing /\ HistoryQueued' = HistoryQueued /\ ~HistoryTaken'
        /\ RowsIn(incomingBuffer)' = RowsIn(incomingBuffer)
        /\ RowsIn(answer["history"])' = RowsIn(answer["history"])
        /\ Awaited' = Awaited /\ Got' = Got
    BY <1>1, <2>1 DEF EndsRead, EndsSent, RowsSent, RowsComing, RowsIn, Awaited, Got, HistoryQueued, HistoryTaken
  <2>3. /\ Places(incomingBuffer)' = Places(incomingBuffer)
        /\ Places(answer["history"])' = Places(answer["history"])
        /\ Rising(incomingBuffer)' = Rising(incomingBuffer)
        /\ Rising(answer["history"])' = Rising(answer["history"])
    BY <1>1, <2>2 DEF Places, Rising
  <2>4. TagInv' /\ FlagInv'
    BY <1>1, <2>1 DEF HistInv, TagInv, FlagInv
  <2>5. EndInv' /\ RowInv'
    BY <1>1, <2>1, <2>2 DEF HistInv, EndInv, RowInv
  <2>6. GotInv'
    BY <1>1, <2>2, <2>3 DEF HistInv, GotInv
  <2> QED BY <2>4, <2>5, <2>6 DEF HistInv
<1>5. CASE ~S!Idle /\ S!Row /\ Tagged(current.n)
  <2>1. HistoryTaken
    BY <1>5 DEF S!Row, S!Idle, HistoryTaken, HistoryOps
  <2> QED BY <1>1, <1>5, <2>1, HistRow DEF S!Row, S!Says, Tagged
<1>6. ASSUME ~S!Idle, NEW kind \in S!Answers(current.op), S!Answer(kind), Tagged(current.n)
      PROVE  HistInv'
  <2>1. current \in Request /\ current.op \in RequestOps /\ current.n \in 0..MaxRequests
    BY <1>0, <1>6, ClientAssumption DEF S!Idle, Request
  <2>2. /\ kind \in LineKinds \ {"history", "public"}
        /\ kind = "END_OF_HISTORY" => current.op \in HistoryOps
    BY <1>6, <2>1, AnswerKinds DEF HistoryOps
  <2>3. /\ stream' = Append(stream, kind) /\ origin' = Append(origin, current.n) /\ current' = NoRequest
        /\ queue' = queue
    BY <1>6 DEF S!Answer, S!Says, Tagged
  <2>4. CASE kind = "END_OF_HISTORY"
    <3>1. HistoryTaken
      BY <1>6, <2>2, <2>4 DEF HistoryTaken, S!Idle
    <3> QED BY <1>1, <2>3, <2>4, <3>1, HistRow
  <2>5. CASE kind # "END_OF_HISTORY"
    <3>1. current.n <= asked
      BY <1>6 DEF HistInv, TagInv, S!Idle
    <3> QED BY <1>1, <2>1, <2>2, <2>3, <2>5, <3>1, HistChat
  <2> QED BY <2>4, <2>5
<1> QED BY <1>2, <1>3, <1>4, <1>5, <1>6 DEF ServerAnswers

\* The server closes: of the lines sent those received are left, and some more.
LEMMA HistCloses ==
  ASSUME TypeInv, HistInv, ServerCloses
  PROVE  HistInv'
<1>0. NetTypeOK
  BY DEF TypeInv, TypeOK, ClientTypeOK
<1>1. PICK n \in taken..Len(stream) : S!Close(n) /\ origin' = SubSeq(origin, 1, n)
  BY DEF ServerCloses
<1>2. /\ UNCHANGED <<taken, asked, incomingBuffer, answer, waitingFor, at, call>>
      /\ queue' = <<>> /\ current' = NoRequest
  BY <1>1 DEF ServerCloses, S!Close, memberVars, flagVars, mainVars
<1>3. /\ DOMAIN stream' = 1..n /\ DOMAIN origin' = 1..n /\ n \in Nat /\ taken <= n
      /\ \A k \in 1..n : k \in 1..Len(stream) /\ stream'[k] = stream[k] /\ origin'[k] = origin[k]
  <2>1. /\ stream' \in Seq(LineKinds) /\ origin' \in Seq(0..MaxRequests) /\ Len(origin') = Len(stream')
        /\ Len(stream') = n
        /\ \A k \in 1..n : k \in 1..Len(stream) /\ stream'[k] = stream[k] /\ origin'[k] = origin[k]
    BY <1>0, <1>1, <1>2, StreamCut DEF S!Close
  <2>2. n \in Nat /\ taken <= n
    BY Lengths
  <2> QED BY <2>1, <2>2, LenProperties
<1>4. EndsSent' \subseteq EndsSent /\ RowsComing' \subseteq RowsComing
  BY <1>2, <1>3, Lengths DEF EndsSent, RowsComing, RowsSent
<1>5. RowsSent(asked)' \ RowsComing' = RowsSent(asked) \ RowsComing
  <2>1. \A k \in Nat : k <= taken => k \leq n
    BY <1>3, Lengths
  <2>2. \A k : k \in RowsSent(asked)' \ RowsComing' <=> k \in RowsSent(asked) \ RowsComing
    BY <1>2, <1>3, <2>1, Lengths DEF RowsSent, RowsComing
  <2> QED BY <2>2
<1>6. HistoryQueued' = {} /\ ~HistoryTaken'
  BY <1>2 DEF HistoryQueued, HistoryTaken
<1>7. /\ EndsRead' = EndsRead
      /\ RowsIn(incomingBuffer)' = RowsIn(incomingBuffer)
      /\ RowsIn(answer["history"])' = RowsIn(answer["history"])
      /\ Awaited' = Awaited /\ Got' = Got
  BY <1>2 DEF EndsRead, RowsIn, Awaited, Got
<1>8. /\ Places(incomingBuffer)' = Places(incomingBuffer) /\ Places(answer["history"])' = Places(answer["history"])
      /\ Rising(incomingBuffer)' = Rising(incomingBuffer) /\ Rising(answer["history"])' = Rising(answer["history"])
  BY <1>2, <1>7 DEF Places, Rising
<1>9. TagInv' /\ FlagInv'
  BY <1>2, <1>3, Lengths DEF HistInv, TagInv, FlagInv
<1>10. EndInv'
  BY <1>4, <1>6, <1>7 DEF HistInv, EndInv
<1>11. RowInv'
  BY <1>4, <1>7 DEF HistInv, RowInv
<1>12. GotInv'
  BY <1>2, <1>4, <1>5, <1>7, <1>8 DEF HistInv, GotInv
<1> QED BY <1>9, <1>10, <1>11, <1>12 DEF HistInv

\* The client hangs up: at the menu, or as the process ends.
LEMMA HistHangsUp ==
  ASSUME TypeInv, HistInv, HangUp,
         ProcessEnds \/ (at = "menu" /\ UNCHANGED <<at, call, waitingFor, answer, incomingBuffer>>)
  PROVE  HistInv'
<1>1. EndsSent' = {} /\ HistoryQueued' = {} /\ ~HistoryTaken'
  BY DEF HangUp, EndsSent, HistoryQueued, HistoryTaken
<1>2. CASE ProcessEnds
  <2>1. EndsRead' = {} /\ ~Got' /\ TagInv' /\ FlagInv'
    BY <1>2 DEF ProcessEnds, HangUp, EndsRead, Got, Awaits, TagInv, FlagInv, Waits
  <2> QED BY <1>1, <2>1, NoHistoryHolds DEF NoHistory
<1>3. CASE at = "menu" /\ UNCHANGED <<at, call, waitingFor, answer, incomingBuffer>>
  <2>1. EndsRead = {}
    BY <1>3, NotAwaited DEF Awaits, NoHistory
  <2>2. EndsRead' = {} /\ ~Got'
    BY <1>3, <2>1 DEF EndsRead, Got, Awaits
  <2>3. TagInv' /\ FlagInv'
    BY <1>3 DEF HangUp, HistInv, TagInv, FlagInv
  <2> QED BY <1>1, <2>2, <2>3, NoHistoryHolds DEF NoHistory
<1> QED BY <1>2, <1>3

\* A request goes out: it alone has the new number.
LEMMA HistSend ==
  ASSUME TypeInv, TagInv, NEW op, NEW l, Send(op, l) \/ ConnectAndSend(op, l),
         UNCHANGED <<answer, incomingBuffer>>
  PROVE  /\ TagInv' /\ asked' = asked + 1
         /\ \A i \in DOMAIN queue' : \/ queue'[i].op = op /\ queue'[i].n = asked'
                                     \/ i \in DOMAIN queue /\ queue'[i] = queue[i] /\ queue[i].n <= asked
         /\ \A i, j \in DOMAIN queue' : queue'[i].n = asked' /\ queue'[j].n = asked' => i = j
         /\ \/ UNCHANGED <<current, stream, origin, taken>>
            \/ current' = NoRequest /\ stream' = <<>> /\ origin' = <<>> /\ taken' = 0
<1>1. asked' = asked + 1 /\ asked \in Nat
  BY Lengths DEF Send, ConnectAndSend
<1> DEFINE m == [op |-> op, login |-> l, n |-> asked']
<1>2. m.op = op /\ m.n = asked'
  OBVIOUS
<1> HIDE DEF m
<1>3. \/ queue' = Append(queue, m) /\ UNCHANGED <<current, stream, origin, taken>>
      \/ UNCHANGED <<queue, current, stream, origin, taken>>
      \/ queue' = <<m>> /\ current' = NoRequest /\ stream' = <<>> /\ origin' = <<>> /\ taken' = 0
  BY DEF Send, ConnectAndSend, S!Ask, linkVars, m
<1>4. \A i \in DOMAIN queue : queue[i].n <= asked /\ queue[i].n \in Nat
  <2>1. ASSUME NEW i \in DOMAIN queue
        PROVE  queue[i].n \in Nat
    <3>1. queue[i] \in Request
      BY Lengths, ElementOfSeq
    <3> QED BY <3>1, ClientAssumption DEF Request
  <2> QED BY <2>1 DEF TagInv
<1>5. ASSUME queue' = Append(queue, m)
      PROVE  /\ \A i \in DOMAIN queue' : \/ queue'[i].op = op /\ queue'[i].n = asked'
                                         \/ i \in DOMAIN queue /\ queue'[i] = queue[i] /\ queue[i].n <= asked
             /\ \A i, j \in DOMAIN queue' : queue'[i].n = asked' /\ queue'[j].n = asked' => i = j
  <2>1. /\ queue' \in Seq(Request \cup {m}) /\ Len(queue') = Len(queue) + 1
        /\ \A i \in 1..Len(queue) : queue'[i] = queue[i]
        /\ queue'[Len(queue) + 1] = m
    <3>1. queue \in Seq(Request \cup {m}) /\ m \in Request \cup {m}
      BY Lengths
    <3> QED BY <1>5, <3>1, AppendProperties
  <2>2. DOMAIN queue' = 1..(Len(queue) + 1)
    BY <2>1, LenProperties
  <2>3. \A i \in DOMAIN queue' : \/ i = Len(queue) + 1 /\ queue'[i] = m
                                 \/ i \in DOMAIN queue /\ queue'[i] = queue[i]
    BY <2>1, <2>2, Lengths
  <2>4. \A i \in DOMAIN queue' : queue'[i].n = asked' => i = Len(queue) + 1
    <3>1. \A i \in DOMAIN queue : queue[i].n # asked'
      BY <1>1, <1>4
    <3> QED BY <2>3, <3>1
  <2>5. /\ \A i \in DOMAIN queue' : \/ queue'[i].op = op /\ queue'[i].n = asked'
                                    \/ i \in DOMAIN queue /\ queue'[i] = queue[i] /\ queue[i].n <= asked
        /\ \A i, j \in DOMAIN queue' : queue'[i].n = asked' /\ queue'[j].n = asked' => i = j
    BY <1>2, <1>4, <2>3, <2>4
  <2> QED BY <2>5
<1>6. ASSUME queue' = queue
      PROVE  /\ \A i \in DOMAIN queue' : \/ queue'[i].op = op /\ queue'[i].n = asked'
                                         \/ i \in DOMAIN queue /\ queue'[i] = queue[i] /\ queue[i].n <= asked
             /\ \A i, j \in DOMAIN queue' : queue'[i].n = asked' /\ queue'[j].n = asked' => i = j
  <2>1. \A i \in DOMAIN queue : queue[i].n # asked'
    BY <1>1, <1>4
  <2> QED BY <1>4, <1>6, <2>1
<1>7. ASSUME queue' = <<m>>
      PROVE  /\ \A i \in DOMAIN queue' : \/ queue'[i].op = op /\ queue'[i].n = asked'
                                         \/ i \in DOMAIN queue /\ queue'[i] = queue[i] /\ queue[i].n <= asked
             /\ \A i, j \in DOMAIN queue' : queue'[i].n = asked' /\ queue'[j].n = asked' => i = j
  <2>1. DOMAIN queue' = {1} /\ queue'[1] = m
    BY <1>7
  <2> QED BY <1>2, <2>1
<1>8. /\ \A i \in DOMAIN queue' : \/ queue'[i].op = op /\ queue'[i].n = asked'
                                  \/ i \in DOMAIN queue /\ queue'[i] = queue[i] /\ queue[i].n <= asked
      /\ \A i, j \in DOMAIN queue' : queue'[i].n = asked' /\ queue'[j].n = asked' => i = j
  BY <1>3, <1>5, <1>6, <1>7
<1>9. \A i \in DOMAIN queue' : queue'[i].n <= asked'
  <2>1. \A n \in Nat : n <= asked => n <= asked'
    BY <1>1
  <2>2. asked' <= asked'
    BY <1>1
  <2> QED BY <1>4, <1>8, <2>1, <2>2
<1>10. current' # NoRequest => current'.n <= asked'
  <2>1. current' # NoRequest => current' = current /\ current.n <= asked /\ current.n \in Nat
    BY <1>3, ClientAssumption DEF TagInv, TypeInv, TypeOK, ClientTypeOK, NetTypeOK, Request
  <2> QED BY <1>1, <2>1
<1>11. \A k \in DOMAIN origin' : origin'[k] <= asked'
  <2>1. SUFFICES ASSUME NEW k \in DOMAIN origin'
                 PROVE  origin'[k] <= asked'
    OBVIOUS
  <2>2. origin' = origin
    BY <1>3, <2>1
  <2>3. k \in DOMAIN origin
    BY <2>1, <2>2
  <2>4. origin[k] \in 0..MaxRequests
    BY <2>3, Lengths, ElementOfSeq, LenProperties
  <2>5. origin[k] <= asked /\ origin[k] \in Int
    BY <2>3, <2>4 DEF TagInv
  <2> QED BY <1>1, <2>2, <2>5
<1>12. \A line \in NetLine : line.of \in Nat
  BY ClientAssumption DEF NetLine
<1>13. \A i \in DOMAIN incomingBuffer' : incomingBuffer'[i].of <= asked'
  <2>1. \A i \in DOMAIN incomingBuffer : incomingBuffer[i].of <= asked /\ incomingBuffer[i].of \in Nat
    <3>1. \A i \in DOMAIN incomingBuffer : incomingBuffer[i] \in NetLine
      BY Lengths, ElementOfSeq
    <3> QED BY <1>12, <3>1 DEF TagInv
  <2> QED BY <1>1, <2>1
<1>14. \A i \in DOMAIN answer'["history"] : answer'["history"][i].of <= asked'
  <2>1. \A i \in DOMAIN answer["history"] : answer["history"][i].of <= asked /\ answer["history"][i].of \in Nat
    <3>1. \A i \in DOMAIN answer["history"] : answer["history"][i] \in NetLine
      BY Lengths, ElementOfSeq
    <3> QED BY <1>12, <3>1 DEF TagInv
  <2> QED BY <1>1, <2>1
<1> QED BY <1>1, <1>3, <1>8, <1>9, <1>10, <1>11, <1>13, <1>14 DEF TagInv

\* A request that is not for a history, sent with no call waiting, or one sent in a call.
LEMMA HistOtherSend ==
  ASSUME TypeInv, HistInv, at \notin Awaits \cup {"exit", "send"},
         at' \notin Awaits \cup {"exit", "send", "print"},
         NEW op \in RequestOps \ HistoryOps, NEW l,
         Send(op, l) \/ ConnectAndSend(op, l),
         UNCHANGED <<waitingFor, answer, incomingBuffer>>
  PROVE  HistInv'
<1>1. NoHistory
  BY NotAwaited
<1>2. TagInv'
  BY HistSend DEF HistInv
<1>3. HistoryQueued' = {}
  BY <1>1, HistSend DEF HistInv, NoHistory, HistoryQueued
<1>4. EndsRead' = {} /\ EndsSent' = {} /\ ~HistoryTaken'
  <2>1. \/ UNCHANGED <<current, stream, origin, taken>>
        \/ current' = NoRequest /\ stream' = <<>> /\ origin' = <<>> /\ taken' = 0
    BY HistSend DEF HistInv
  <2> QED BY <1>1, <2>1 DEF NoHistory, EndsRead, EndsSent, HistoryTaken
<1>5. FlagInv' /\ ~Got'
  BY DEF HistInv, FlagInv, Got
<1> QED BY <1>2, <1>3, <1>4, <1>5, NoHistoryHolds DEF NoHistory

\* The request of a call: its rows are those to come, and there is none yet.
LEMMA HistRequest ==
  ASSUME TypeInv, HistInv, NEW l, SendRequest(l)
  PROVE  HistInv'
<1>1. /\ at = "send" /\ at' = "test" /\ call' = call /\ Send(Command(call), l)
      /\ UNCHANGED <<waitingFor, answer, incomingBuffer>>
  BY DEF SendRequest, Goto, memberVars, flagVars
<1>2. NoHistory
  BY <1>1, NotAwaited DEF Awaits
<1>3. call \in Waits
  BY <1>1 DEF TypeInv, CallInv
<1>4. /\ TagInv' /\ asked' = asked + 1
      /\ \A i \in DOMAIN queue' : \/ queue'[i].op = Command(call) /\ queue'[i].n = asked'
                                  \/ i \in DOMAIN queue /\ queue'[i] = queue[i] /\ queue[i].n <= asked
      /\ \A i, j \in DOMAIN queue' : queue'[i].n = asked' /\ queue'[j].n = asked' => i = j
  BY <1>1, HistSend DEF HistInv
<1>5. UNCHANGED <<current, stream, origin, taken>>
  BY <1>1 DEF Send, S!Ask, linkVars
<1>6. FlagInv'
  BY <1>1 DEF HistInv, FlagInv, Awaits
<1>7. EndsRead' = {} /\ EndsSent' = {} /\ ~HistoryTaken'
  BY <1>1, <1>2, <1>5 DEF NoHistory, EndsRead, EndsSent, HistoryTaken
<1>8. \A i \in HistoryQueued' : queue'[i].op = Command(call) /\ queue'[i].n = asked'
  BY <1>2, <1>4 DEF NoHistory, HistoryQueued
<1>9. HistoryQueued' # {} => Awaited'
  <2>1. HistoryQueued' # {} => call \in {"history", "private"}
    BY <1>3, <1>8 DEF Command, HistoryOps, HistoryQueued, Waits
  <2> QED BY <1>1, <2>1 DEF HistInv, FlagInv, Awaited, Awaits
<1>10. EndInv' /\ RowInv'
  <2>1. \A i, j \in HistoryQueued' : j = i
    <3>1. \A i \in HistoryQueued' : i \in DOMAIN queue'
      BY DEF HistoryQueued
    <3> QED BY <1>4, <1>8, <3>1
  <2> QED BY <1>7, <1>8, <1>9, <2>1 DEF EndInv, RowInv
<1>11. /\ RowsSent(asked)' = {} /\ RowsComing' = {} /\ RowsIn(incomingBuffer)' = {}
       /\ RowsIn(answer["history"])' = {}
  <2>0. ~(asked + 1 <= asked)
    BY Lengths
  <2>1. \A k \in DOMAIN origin : origin[k] # asked + 1
    BY <2>0 DEF HistInv, TagInv
  <2>2. DOMAIN stream = DOMAIN origin
    BY Lengths
  <2>3. RowsSent(asked)' = {}
    BY <1>4, <1>5, <2>1, <2>2 DEF RowsSent
  <2>4. RowsIn(incomingBuffer)' = {} /\ RowsIn(answer["history"])' = {}
    BY <1>1, <1>4, <2>0 DEF RowsIn, HistInv, TagInv
  <2> QED BY <2>3, <2>4 DEF RowsComing
<1>12. GotInv'
  BY <1>11 DEF GotInv, Places, Rising
<1> QED BY <1>4, <1>6, <1>10, <1>12 DEF HistInv

\* A call begins: its answer is emptied and its flag set.
LEMMA HistExpects ==
  ASSUME TypeInv, HistInv, NEW w \in Waits, Expect(w), at = "menu"
  PROVE  HistInv'
<1>1. NoHistory
  BY NotAwaited DEF Awaits
<1>2. /\ answer' = [answer EXCEPT ![w] = <<>>] /\ waitingFor' = [waitingFor EXCEPT ![w] = TRUE]
      /\ at' = "send" /\ call' = w
      /\ UNCHANGED <<queue, current, stream, origin, taken, asked, incomingBuffer>>
  BY DEF Expect, netVars, linkVars
<1>3. NoHistory'
  BY <1>1, <1>2 DEF NoHistory, EndsRead, EndsSent, HistoryQueued, HistoryTaken
<1>4. answer'["history"] = answer["history"] \/ answer'["history"] = <<>>
  BY <1>2 DEF TypeInv, TypeOK, ClientTypeOK, MemberTypeOK, Waits
<1>5. TagInv'
  BY <1>2, <1>4 DEF HistInv, TagInv
<1>6. FlagInv'
  BY <1>2 DEF HistInv, FlagInv, TypeInv, TypeOK, ClientTypeOK, MemberTypeOK, Waits, Awaits
<1>7. ~Got'
  BY <1>2 DEF Got, Awaits
<1> QED BY <1>3, <1>5, <1>6, <1>7, NoHistoryHolds

\* sendAUTH and sendRegister drop what recv returned.
LEMMA HistDrops ==
  ASSUME TypeInv, HistInv, NEW got \in Receivable, Recv(got), at \in {"auth", "register"},
         at' \in {"menu", "started"}, UNCHANGED <<waitingFor, answer, incomingBuffer>>
  PROVE  HistInv'
<1>1. NoHistory
  BY NotAwaited DEF Awaits
<1>2. UNCHANGED <<queue, current, stream, origin, asked>> /\ taken' = taken + Len(got)
  BY DEF Recv, linkVars
<1>3. Len(got) \in Nat
  BY ReceivedLines, Lengths DEF TypeInv, TypeOK, ClientTypeOK
<1>4. EndsSent' = {}
  <2>1. \A k \in DOMAIN stream : k > taken' => k > taken
    BY <1>2, <1>3, Lengths
  <2> QED BY <1>1, <1>2, <2>1 DEF NoHistory, EndsSent
<1>5. NoHistory'
  BY <1>1, <1>2, <1>4 DEF NoHistory, EndsRead, HistoryQueued, HistoryTaken
<1>6. TagInv' /\ FlagInv' /\ ~Got'
  BY <1>2 DEF HistInv, TagInv, FlagInv, Got, Awaits
<1> QED BY <1>5, <1>6, NoHistoryHolds

\* recv returns lines, and receiveMessages adds them to those it has.
LEMMA HistReads ==
  ASSUME TypeInv, HistInv, NEW got \in Receivable, Recv(got), incomingBuffer' = incomingBuffer \o got,
         UNCHANGED <<waitingFor, answer, at, call>>
  PROVE  HistInv'
<1> DEFINE N == Len(incomingBuffer)
           n == Len(got)
<1>0. NetTypeOK
  BY DEF TypeInv, TypeOK, ClientTypeOK
<1>1. /\ got \in Seq(NetLine) /\ n \in 1..(Len(stream) - taken)
      /\ \A i \in 1..n : got[i].kind = stream[taken + i] /\ got[i].of = origin[taken + i]
                         /\ got[i].place = taken + i
  BY <1>0, ReceivedLines
<1>2. taken' = taken + n /\ UNCHANGED <<queue, current, stream, origin, asked>>
  BY DEF Recv, linkVars
<1>3. N \in Nat /\ n \in Nat /\ taken \in Nat /\ Len(stream) \in Nat /\ n <= Len(stream) - taken
  BY <1>1, Lengths
<1>4. /\ DOMAIN incomingBuffer' = 1..(N + n)
      /\ \A i \in 1..N : incomingBuffer'[i] = incomingBuffer[i]
      /\ \A i \in 1..n : incomingBuffer'[N + i] = got[i]
  <2>1. incomingBuffer \in Seq(NetLine)
    BY Lengths
  <2>2. /\ incomingBuffer' \in Seq(NetLine) /\ Len(incomingBuffer') = N + n
        /\ \A i \in 1..(N + n) : incomingBuffer'[i] = IF i <= N THEN incomingBuffer[i] ELSE got[i - N]
    BY <1>1, <2>1, ConcatProperties
  <2>3. \A i \in 1..n : N + i \in 1..(N + n) /\ ~(N + i <= N) /\ N + i - N = i
    BY <1>3
  <2>4. \A i \in 1..N : i \in 1..(N + n) /\ i <= N
    BY <1>3
  <2>5. \A i \in 1..n : incomingBuffer'[N + i] = got[N + i - N]
    BY <2>2, <2>3
  <2> QED BY <2>2, <2>3, <2>4, <2>5, LenProperties
<1> HIDE DEF N, n
\* A line of the longer buffer is an old one, or one that was to come.
<1>5. \A i \in DOMAIN incomingBuffer' :
        \/ i \in DOMAIN incomingBuffer /\ i <= N /\ incomingBuffer'[i] = incomingBuffer[i]
        \/ /\ i > N /\ taken + (i - N) \in DOMAIN stream /\ taken + (i - N) > taken
           /\ taken + (i - N) <= taken'
           /\ incomingBuffer'[i].kind = stream[taken + (i - N)]
           /\ incomingBuffer'[i].of = origin[taken + (i - N)]
           /\ incomingBuffer'[i].place = taken + (i - N)
  <2>1. SUFFICES ASSUME NEW i \in 1..(N + n), i > N
                 PROVE  /\ taken + (i - N) \in DOMAIN stream /\ taken + (i - N) > taken
                        /\ taken + (i - N) <= taken'
                        /\ incomingBuffer'[i].kind = stream[taken + (i - N)]
                        /\ incomingBuffer'[i].of = origin[taken + (i - N)]
                        /\ incomingBuffer'[i].place = taken + (i - N)
    <3>1. \A i \in 1..(N + n) : i > N \/ i \in 1..N
      BY <1>3
    <3>2. \A i \in 1..N : i <= N /\ i \in DOMAIN incomingBuffer
      BY <1>3, Lengths DEF N
    <3> QED BY <1>4, <3>1, <3>2
  <2>2. i - N \in 1..n /\ N + (i - N) = i
    BY <1>3, <2>1
  <2>3. incomingBuffer'[i] = got[i - N]
    BY <1>4, <2>2
  <2>4. taken + (i - N) \in 1..Len(stream) /\ taken + (i - N) > taken /\ taken + (i - N) <= taken'
    BY <1>2, <1>3, <2>2
  <2> QED BY <1>1, <2>2, <2>3, <2>4, Lengths
<1>6. \A k \in DOMAIN stream : k > taken /\ k <= taken' =>
        /\ N + (k - taken) \in DOMAIN incomingBuffer' /\ N + (k - taken) > N
        /\ incomingBuffer'[N + (k - taken)].kind = stream[k]
        /\ incomingBuffer'[N + (k - taken)].of = origin[k]
        /\ incomingBuffer'[N + (k - taken)].place = k
  <2>1. SUFFICES ASSUME NEW k \in 1..Len(stream), k > taken, k <= taken'
                 PROVE  /\ N + (k - taken) \in DOMAIN incomingBuffer' /\ N + (k - taken) > N
                        /\ incomingBuffer'[N + (k - taken)].kind = stream[k]
                        /\ incomingBuffer'[N + (k - taken)].of = origin[k]
                        /\ incomingBuffer'[N + (k - taken)].place = k
    BY Lengths
  <2>2. k - taken \in 1..n /\ taken + (k - taken) = k
    BY <1>2, <1>3, <2>1
  <2>3. N + (k - taken) \in 1..(N + n) /\ N + (k - taken) > N
    BY <1>3, <2>2
  <2> QED BY <1>1, <1>4, <2>2, <2>3
<1>7. \A i \in DOMAIN incomingBuffer : i \in Nat /\ i <= N /\ i \in DOMAIN incomingBuffer'
                                       /\ incomingBuffer'[i] = incomingBuffer[i]
  BY <1>3, <1>4, Lengths DEF N
\* the ends
<1>8. EndsSent' = {k \in EndsSent : k > taken'}
  <2>1. \A k \in DOMAIN stream : k > taken' => k > taken
    BY <1>2, <1>3, Lengths
  <2> QED BY <1>2, <2>1 DEF EndsSent
<1>9. \A i \in EndsRead' : i \in EndsRead \/ (i > N /\ taken + (i - N) \in EndsSent /\ taken + (i - N) <= taken')
  BY <1>5 DEF EndsRead, EndsSent
<1>10. HistoryQueued' = HistoryQueued /\ HistoryTaken' = HistoryTaken /\ Awaited' = Awaited /\ Got' = Got
  BY <1>2 DEF HistoryQueued, HistoryTaken, Awaited, Got
<1>11. \A i \in DOMAIN incomingBuffer' : i \in Nat
  BY <1>3, <1>4
\* the rows
<1>12. RowsSent(asked)' = RowsSent(asked)
  BY <1>2 DEF RowsSent
<1>13. RowsComing' = {k \in RowsComing : k > taken'}
  <2>1. \A k \in DOMAIN stream : k > taken' => k > taken
    BY <1>2, <1>3, Lengths
  <2> QED BY <1>2, <1>12, <2>1 DEF RowsComing, RowsSent
<1>14. \A i \in RowsIn(incomingBuffer)' :
         \/ i \in RowsIn(incomingBuffer) /\ i <= N /\ incomingBuffer'[i].place = incomingBuffer[i].place
         \/ i > N /\ taken + (i - N) \in RowsComing /\ taken + (i - N) <= taken'
              /\ incomingBuffer'[i].place = taken + (i - N)
  <2>1. DOMAIN origin = DOMAIN stream
    BY Lengths
  <2> QED BY <1>2, <1>5, <2>1 DEF RowsIn, RowsComing, RowsSent
<1>15. RowsIn(answer["history"])' = RowsIn(answer["history"])
       /\ Places(answer["history"])' = Places(answer["history"])
       /\ Rising(answer["history"])' = Rising(answer["history"])
  BY <1>2 DEF RowsIn, Places, Rising
<1>16. TagInv'
  <2>1. ASSUME NEW i \in DOMAIN incomingBuffer'
        PROVE  incomingBuffer'[i].of <= asked'
    <3>1. CASE i \in DOMAIN incomingBuffer /\ incomingBuffer'[i] = incomingBuffer[i]
      BY <1>2, <3>1 DEF HistInv, TagInv
    <3>2. CASE taken + (i - N) \in DOMAIN stream /\ incomingBuffer'[i].of = origin[taken + (i - N)]
      BY <1>2, <3>2, Lengths DEF HistInv, TagInv
    <3> QED BY <1>5, <3>1, <3>2
  <2> QED BY <1>2, <2>1 DEF HistInv, TagInv
<1>17. FlagInv'
  BY DEF HistInv, FlagInv
<1>18. EndInv'
  <2>1. ASSUME NEW i \in EndsRead'
        PROVE  /\ Awaited' /\ EndsSent' = {} /\ HistoryQueued' = {} /\ ~HistoryTaken'
               /\ \A j \in EndsRead' : j = i
    <3>1. CASE i \in EndsRead
      <4>1. Awaited /\ EndsSent = {} /\ HistoryQueued = {} /\ ~HistoryTaken /\ \A j \in EndsRead : j = i
        BY <3>1 DEF HistInv, EndInv
      <4> QED BY <1>8, <1>9, <1>10, <4>1
    <3>2. CASE i \notin EndsRead
      <4> DEFINE k == taken + (i - N)
      <4>1. k \in EndsSent /\ i > N /\ k <= taken'
        BY <1>9, <2>1, <3>2
      <4>2. /\ Awaited /\ HistoryQueued = {} /\ ~HistoryTaken /\ EndsRead = {}
            /\ \A j \in EndsSent : j = k
        BY <4>1 DEF HistInv, EndInv
      <4>3. EndsSent' = {}
        <5>1. ~(k > taken')
          BY <1>2, <1>3, <4>1, Lengths DEF EndsSent
        <5> QED BY <1>8, <4>2, <5>1
      <4>4. ASSUME NEW j \in EndsRead'
            PROVE  j = i
        <5>1. taken + (j - N) = taken + (i - N)
          BY <1>9, <4>1, <4>2, <4>4
        <5>2. i \in Nat /\ j \in Nat
          BY <1>11, <2>1, <4>4 DEF EndsRead
        <5> QED BY <1>3, <5>1, <5>2
      <4> QED BY <1>10, <4>2, <4>3, <4>4
    <3> QED BY <3>1, <3>2
  <2>2. ASSUME NEW k \in EndsSent'
        PROVE  Awaited' /\ HistoryQueued' = {} /\ ~HistoryTaken' /\ \A j \in EndsSent' : j = k
    BY <1>8, <1>10, <2>2 DEF HistInv, EndInv
  <2> QED BY <1>2, <1>10, <2>1, <2>2 DEF HistInv, EndInv
<1>19. RowInv'
  <2>1. ASSUME NEW i \in EndsRead'
        PROVE  RowsComing' = {} /\ \A j \in RowsIn(incomingBuffer)' : j < i
    <3>1. CASE i \in EndsRead
      <4>1. RowsComing = {} /\ \A j \in RowsIn(incomingBuffer) : j < i
        BY <3>1 DEF HistInv, RowInv
      <4> QED BY <1>13, <1>14, <4>1
    <3>2. CASE i \notin EndsRead
      <4> DEFINE k == taken + (i - N)
      <4>1. k \in EndsSent /\ i > N /\ k <= taken'
        BY <1>9, <2>1, <3>2
      <4>2. \A j \in RowsComing : j < k
        BY <4>1 DEF HistInv, RowInv
      <4>3. i \in Nat
        BY <1>11, <2>1 DEF EndsRead
      <4>4. RowsComing' = {}
        <5>1. ASSUME NEW j \in RowsComing
              PROVE  ~(j > taken')
          <6>1. j \in Nat
            BY Lengths DEF RowsComing, RowsSent
          <6>2. j < k
            BY <4>2
          <6>3. taken' \in Nat /\ k \in Int
            BY <1>2, <1>3, <4>3
          <6> HIDE DEF k
          <6> QED BY <4>1, <6>1, <6>2, <6>3
        <5> QED BY <1>13, <5>1
      <4>5. ASSUME NEW j \in RowsIn(incomingBuffer)'
            PROVE  j < i
        <5>1. CASE j \in RowsIn(incomingBuffer) /\ j <= N
          <6>1. j \in Nat
            BY <5>1, Lengths DEF RowsIn
          <6> QED BY <1>3, <4>1, <4>3, <5>1, <6>1
        <5>2. CASE taken + (j - N) \in RowsComing
          <6>1. j \in Nat
            BY <1>11, <4>5 DEF RowsIn
          <6>2. taken + (j - N) < taken + (i - N)
            BY <4>2, <5>2
          <6> QED BY <1>3, <4>3, <6>1, <6>2
        <5> QED BY <1>14, <4>5, <5>1, <5>2
      <4> QED BY <4>4, <4>5
    <3> QED BY <3>1, <3>2
  <2>2. ASSUME NEW k \in EndsSent', NEW j \in RowsComing'
        PROVE  j < k
    BY <1>8, <1>13 DEF HistInv, RowInv
  <2> QED BY <2>1, <2>2 DEF RowInv
<1>20. GotInv'
  <2>1. SUFFICES ASSUME Got
                 PROVE  /\ Places(answer["history"]) \cup Places(incomingBuffer)' = RowsSent(asked) \ RowsComing'
                        /\ Rising(answer["history"]) /\ Rising(incomingBuffer)'
                        /\ \A p \in Places(answer["history"]), q \in Places(incomingBuffer)' : p < q
                        /\ ~waitingFor["history"] => RowsComing' = {} /\ RowsIn(incomingBuffer)' = {}
    BY <1>10, <1>12, <1>15 DEF GotInv
  <2>2. /\ Places(answer["history"]) \cup Places(incomingBuffer) = RowsSent(asked) \ RowsComing
        /\ Rising(answer["history"]) /\ Rising(incomingBuffer)
        /\ \A p \in Places(answer["history"]), q \in Places(incomingBuffer) : p < q
        /\ ~waitingFor["history"] => RowsComing = {} /\ RowsIn(incomingBuffer) = {}
    BY <2>1 DEF HistInv, GotInv
  <2>3. Places(incomingBuffer)' = Places(incomingBuffer) \cup {k \in RowsComing : k <= taken'}
    <3>1. ASSUME NEW i \in RowsIn(incomingBuffer)'
          PROVE  incomingBuffer'[i].place \in Places(incomingBuffer) \cup {k \in RowsComing : k <= taken'}
      BY <1>14 DEF Places
    <3>2. ASSUME NEW i \in RowsIn(incomingBuffer)
          PROVE  incomingBuffer[i].place \in Places(incomingBuffer)'
      <4>1. i \in RowsIn(incomingBuffer)' /\ incomingBuffer'[i] = incomingBuffer[i]
        BY <1>2, <1>7 DEF RowsIn
      <4> QED BY <4>1 DEF Places
    <3>3. ASSUME NEW k \in RowsComing, k <= taken'
          PROVE  k \in Places(incomingBuffer)'
      <4>1. N + (k - taken) \in RowsIn(incomingBuffer)' /\ incomingBuffer'[N + (k - taken)].place = k
        BY <1>2, <1>6, <3>3 DEF RowsComing, RowsSent, RowsIn
      <4> QED BY <4>1 DEF Places
    <3> QED BY <3>1, <3>2, <3>3 DEF Places
  <2>4. RowsComing \subseteq RowsSent(asked)
    BY DEF RowsComing
  <2>5. \A k \in RowsSent(asked) : k \in Nat /\ (k \notin RowsComing <=> k <= taken)
    BY <1>3, Lengths DEF RowsSent, RowsComing
  <2>6. taken' \in Nat
    BY <1>2, <1>3
  <2>7. \A k \in RowsComing : k \in Nat /\ k > taken /\ (k <= taken' <=> ~(k > taken'))
    BY <1>3, <2>4, <2>5, <2>6
  <2>8. Places(answer["history"]) \cup Places(incomingBuffer)' = RowsSent(asked) \ RowsComing'
    BY <1>13, <2>2, <2>3, <2>4, <2>7
  <2>9. ASSUME NEW p \in Places(answer["history"]) \cup Places(incomingBuffer), NEW q \in RowsComing
        PROVE  p < q
    <3>1. p \in Nat /\ p <= taken
      BY <2>2, <2>5, <2>9
    <3> QED BY <1>3, <2>7, <3>1
  <2>10. Rising(incomingBuffer)'
    <3>1. SUFFICES ASSUME NEW i \in RowsIn(incomingBuffer)', NEW k \in RowsIn(incomingBuffer)', i < k
                   PROVE  incomingBuffer'[i].place < incomingBuffer'[k].place
      BY DEF Rising
    <3>2. i \in Nat /\ k \in Nat
      BY <1>11 DEF RowsIn
    <3>3. CASE k <= N
      <4>0. ~(k > N)
        BY <1>3, <3>2, <3>3
      <4>1. k \in RowsIn(incomingBuffer) /\ incomingBuffer'[k].place = incomingBuffer[k].place
        BY <1>14, <4>0
      <4>2. ~(i > N)
        BY <1>3, <3>1, <3>2, <3>3
      <4>3. i \in RowsIn(incomingBuffer) /\ incomingBuffer'[i].place = incomingBuffer[i].place
        BY <1>14, <4>2
      <4> QED BY <2>2, <3>1, <4>1, <4>3 DEF Rising
    <3>4. CASE ~(k <= N)
      <4>1. taken + (k - N) \in RowsComing /\ incomingBuffer'[k].place = taken + (k - N)
        BY <1>14, <3>4
      <4>2. CASE i \in RowsIn(incomingBuffer) /\ incomingBuffer'[i].place = incomingBuffer[i].place
        BY <2>9, <4>1, <4>2 DEF Places
      <4>3. CASE incomingBuffer'[i].place = taken + (i - N)
        BY <1>3, <3>1, <3>2, <4>1, <4>3
      <4> QED BY <1>14, <4>2, <4>3
    <3> QED BY <3>3, <3>4
  <2>11. \A p \in Places(answer["history"]), q \in Places(incomingBuffer)' : p < q
    BY <2>2, <2>3, <2>9
  <2>12. ~waitingFor["history"] => RowsComing' = {} /\ RowsIn(incomingBuffer)' = {}
    BY <1>13, <1>14, <2>2
  <2> QED BY <2>2, <2>8, <2>10, <2>11, <2>12
<1> QED BY <1>16, <1>17, <1>18, <1>19, <1>20 DEF HistInv

\* What the loop does with a line, as far as the histories go.
LEMMA LineTaken ==
  ASSUME TypeInv, NEW r \in Readers, TakeLine(r)
  PROVE  /\ \A w \in {"history", "private"} : waitingFor'[w] => waitingFor[w]
         /\ \A w \in {"history", "private"} :
              waitingFor[w] /\ Head(incomingBuffer).kind # "END_OF_HISTORY" => waitingFor'[w]
         /\ answer'["history"] = IF waitingFor["history"] /\ Head(incomingBuffer).kind # "END_OF_HISTORY"
                                 THEN Append(answer["history"], Head(incomingBuffer))
                                 ELSE answer["history"]
<1>0. MemberTypeOK /\ "history" \in Waits /\ "private" \in Waits
  BY DEF TypeInv, TypeOK, ClientTypeOK, Waits
<1> DEFINE l == Head(incomingBuffer)
<1>1. CASE Flagged = {}
  <2>1. UNCHANGED <<answer, waitingFor>> /\ ~waitingFor["history"]
    BY <1>0, <1>1, WaiterIs DEF TakeLine
  <2> QED BY <2>1
<1>2. CASE Flagged # {}
  <2>1. Waiter \in Waits /\ waitingFor[Waiter] /\ (waitingFor["history"] => Waiter = "history")
    BY <1>0, <1>2, WaiterIs
  <2>2. CASE Waiter = "users" \/ l.kind = "END_OF_HISTORY"
    <3>1. waitingFor' = [waitingFor EXCEPT ![Waiter] = FALSE]
      BY <1>2, <2>2 DEF TakeLine
    <3>2. Waiter = "users" \/ answer' = [answer EXCEPT ![Waiter] = answer[Waiter]]
      BY <1>2, <2>2 DEF TakeLine
    <3>3. Waiter = "users" => answer' = [answer EXCEPT !["users"] = <<l>>]
      BY <1>2, <2>2 DEF TakeLine
    <3>4. answer'["history"] = answer["history"]
      BY <1>0, <2>1, <3>2, <3>3 DEF MemberTypeOK, Waits
    <3> QED BY <1>0, <2>1, <2>2, <3>1, <3>4 DEF MemberTypeOK, Waits
  <2>3. CASE Waiter # "users" /\ l.kind # "END_OF_HISTORY"
    <3>1. waitingFor' = [waitingFor EXCEPT ![Waiter] = TRUE]
      BY <1>2, <2>3 DEF TakeLine
    <3>2. answer' = [answer EXCEPT ![Waiter] = Append(answer[Waiter], l)]
      BY <1>2, <2>3 DEF TakeLine
    <3>3. \A w \in Waits : (waitingFor'[w] => waitingFor[w]) /\ (waitingFor[w] => waitingFor'[w])
      BY <1>0, <2>1, <3>1 DEF MemberTypeOK
    <3>4. CASE waitingFor["history"]
      BY <1>0, <2>1, <2>3, <3>2, <3>3, <3>4 DEF MemberTypeOK
    <3>5. CASE ~waitingFor["history"]
      <4>1. Waiter # "history"
        BY <2>1, <3>5
      <4> QED BY <1>0, <3>2, <3>3, <3>5, <4>1 DEF MemberTypeOK
    <3> QED BY <3>4, <3>5
  <2> QED BY <2>2, <2>3
<1> QED BY <1>1, <1>2

\* The loop takes a line: a row goes to the history, the end ends the wait.
LEMMA HistTakesLine ==
  ASSUME TypeInv, HistInv, NEW r \in Readers, TakeLine(r)
  PROVE  HistInv'
<1> DEFINE N == Len(incomingBuffer)
           M == Len(answer["history"])
           l == Head(incomingBuffer)
<1>1. UNCHANGED <<queue, current, stream, origin, taken, asked, at, call>>
  BY DEF TakeLine, netVars, linkVars, mainVars
<1>2. /\ N \in Nat \ {0} /\ DOMAIN incomingBuffer = 1..N /\ DOMAIN incomingBuffer' = 1..(N - 1)
      /\ \A i \in 1..(N - 1) : incomingBuffer'[i] = incomingBuffer[i + 1]
      /\ l = incomingBuffer[1] /\ l \in NetLine
  <2>1. incomingBuffer \in Seq(NetLine) /\ incomingBuffer # <<>> /\ incomingBuffer' = Tail(incomingBuffer)
    BY Lengths DEF TakeLine
  <2>2. /\ Tail(incomingBuffer) \in Seq(NetLine) /\ Len(Tail(incomingBuffer)) = N - 1
        /\ \A i \in 1..Len(Tail(incomingBuffer)) : Tail(incomingBuffer)[i] = incomingBuffer[i + 1]
        /\ l = incomingBuffer[1] /\ l \in NetLine
    BY <2>1, HeadTailProperties
  <2>3. N # 0
    BY <2>1, EmptySeq
  <2> QED BY <2>1, <2>2, <2>3, Lengths, LenProperties
<1>3. M \in Nat /\ DOMAIN answer["history"] = 1..M /\ answer["history"] \in Seq(NetLine)
  BY Lengths
<1>4. /\ \A w \in {"history", "private"} : waitingFor'[w] => waitingFor[w]
      /\ \A w \in {"history", "private"} : waitingFor[w] /\ l.kind # "END_OF_HISTORY" => waitingFor'[w]
      /\ answer'["history"] = IF waitingFor["history"] /\ l.kind # "END_OF_HISTORY"
                              THEN Append(answer["history"], l) ELSE answer["history"]
  BY LineTaken
<1>5. /\ DOMAIN Append(answer["history"], l) = 1..(M + 1)
      /\ \A i \in 1..M : Append(answer["history"], l)[i] = answer["history"][i]
      /\ Append(answer["history"], l)[M + 1] = l
  <2>1. /\ Append(answer["history"], l) \in Seq(NetLine) /\ Len(Append(answer["history"], l)) = M + 1
        /\ \A i \in 1..M : Append(answer["history"], l)[i] = answer["history"][i]
        /\ Append(answer["history"], l)[M + 1] = l
    BY <1>2, <1>3, AppendProperties
  <2> QED BY <2>1, LenProperties
<1> HIDE DEF N, M, l
<1>6. \A i \in 1..(N - 1) : i \in Nat /\ i + 1 \in 1..N /\ i + 1 # 1
  BY <1>2
<1>7. \A i \in EndsRead' : i \in Nat /\ i + 1 \in EndsRead /\ i + 1 # 1
  BY <1>2, <1>6 DEF EndsRead
<1>8. l.kind = "END_OF_HISTORY" => 1 \in EndsRead
  BY <1>2 DEF EndsRead
<1>9. \A i \in RowsIn(incomingBuffer)' : i \in Nat /\ i + 1 \in RowsIn(incomingBuffer) /\ i + 1 # 1
                                         /\ incomingBuffer'[i] = incomingBuffer[i + 1]
  BY <1>1, <1>2, <1>6 DEF RowsIn
<1>10. \A i \in RowsIn(incomingBuffer) : i = 1 \/ (i - 1 \in RowsIn(incomingBuffer)' /\ incomingBuffer'[i - 1] = incomingBuffer[i])
  <2>1. \A i \in 1..N : i = 1 \/ (i - 1 \in 1..(N - 1) /\ i - 1 + 1 = i)
    BY <1>2
  <2> QED BY <1>1, <1>2, <2>1 DEF RowsIn
<1>11. /\ EndsSent' = EndsSent /\ RowsSent(asked)' = RowsSent(asked) /\ RowsComing' = RowsComing
       /\ HistoryQueued' = HistoryQueued /\ HistoryTaken' = HistoryTaken /\ Got' = Got
  BY <1>1 DEF EndsSent, RowsSent, RowsComing, HistoryQueued, HistoryTaken, Got
<1>12. Awaited /\ l.kind # "END_OF_HISTORY" => Awaited'
  BY <1>1, <1>4 DEF Awaited
<1>13. TagInv'
  <2>1. \A i \in DOMAIN incomingBuffer' : incomingBuffer'[i].of <= asked'
    BY <1>1, <1>2, <1>6 DEF HistInv, TagInv
  <2>2. \A i \in DOMAIN answer'["history"] : answer'["history"][i].of <= asked'
    <3>1. CASE answer'["history"] = answer["history"]
      BY <1>1, <3>1 DEF HistInv, TagInv
    <3>2. CASE answer'["history"] = Append(answer["history"], l)
      <4>1. l.of <= asked
        BY <1>2 DEF HistInv, TagInv
      <4>2. \A i \in 1..(M + 1) : i = M + 1 \/ i \in 1..M
        BY <1>3
      <4>3. \A i \in 1..M : answer["history"][i].of <= asked
        BY <1>3 DEF HistInv, TagInv
      <4> QED BY <1>1, <1>5, <3>2, <4>1, <4>2, <4>3
    <3> QED BY <1>4, <3>1, <3>2
  <2> QED BY <1>1, <2>1, <2>2 DEF HistInv, TagInv
<1>14. FlagInv'
  <2>1. at = "send" => l.kind # "END_OF_HISTORY"
    BY <1>8, NotAwaited DEF NoHistory, Awaits
  <2> QED BY <1>1, <1>4, <2>1 DEF HistInv, FlagInv
<1>15. EndInv'
  <2>1. CASE l.kind = "END_OF_HISTORY"
    <3>1. EndsSent = {} /\ HistoryQueued = {} /\ ~HistoryTaken /\ \A j \in EndsRead : j = 1
      BY <1>8, <2>1 DEF HistInv, EndInv
    <3>2. EndsRead' = {}
      BY <1>7, <3>1
    <3> QED BY <1>11, <3>1, <3>2 DEF EndInv
  <2>2. CASE l.kind # "END_OF_HISTORY"
    <3>1. ASSUME NEW i \in EndsRead', NEW j \in EndsRead'
          PROVE  j = i
      <4>1. j + 1 = i + 1
        BY <1>7 DEF HistInv, EndInv
      <4> QED BY <1>7, <4>1
    <3>2. EndsRead' # {} => EndsRead # {}
      BY <1>7
    <3>3. EndsRead # {} => Awaited /\ EndsSent = {} /\ HistoryQueued = {} /\ ~HistoryTaken
      BY DEF HistInv, EndInv
    <3> QED BY <1>1, <1>11, <1>12, <2>2, <3>1, <3>2, <3>3 DEF HistInv, EndInv
  <2> QED BY <2>1, <2>2
<1>16. RowInv'
  <2>1. ASSUME NEW i \in EndsRead', NEW j \in RowsIn(incomingBuffer)'
        PROVE  j < i
    <3>1. j + 1 < i + 1
      BY <1>7, <1>9 DEF HistInv, RowInv
    <3> QED BY <1>7, <1>9, <3>1
  <2>2. EndsRead' # {} => RowsComing = {}
    BY <1>7 DEF HistInv, RowInv
  <2> QED BY <1>11, <2>1, <2>2 DEF HistInv, RowInv
<1>17. GotInv'
  <2>1. SUFFICES ASSUME Got
                 PROVE  /\ Places(answer["history"])' \cup Places(incomingBuffer)' = RowsSent(asked) \ RowsComing
                        /\ Rising(answer["history"])' /\ Rising(incomingBuffer)'
                        /\ \A p \in Places(answer["history"])', q \in Places(incomingBuffer)' : p < q
                        /\ ~waitingFor'["history"] => RowsComing = {} /\ RowsIn(incomingBuffer)' = {}
    BY <1>11 DEF GotInv
  <2>2. /\ Places(answer["history"]) \cup Places(incomingBuffer) = RowsSent(asked) \ RowsComing
        /\ Rising(answer["history"]) /\ Rising(incomingBuffer)
        /\ \A p \in Places(answer["history"]), q \in Places(incomingBuffer) : p < q
        /\ ~waitingFor["history"] => RowsComing = {} /\ RowsIn(incomingBuffer) = {}
    BY <2>1 DEF HistInv, GotInv
  <2>3. CASE ~(waitingFor["history"] /\ l.kind # "END_OF_HISTORY")
    <3>1. RowsComing = {} /\ RowsIn(incomingBuffer) = {}
      <4>1. CASE ~waitingFor["history"]
        BY <2>2, <4>1
      <4>2. CASE l.kind = "END_OF_HISTORY"
        <5>1. RowsComing = {} /\ \A j \in RowsIn(incomingBuffer) : j < 1
          BY <1>8, <4>2 DEF HistInv, RowInv
        <5>2. \A j \in RowsIn(incomingBuffer) : ~(j < 1)
          BY <1>2 DEF RowsIn
        <5> QED BY <5>1, <5>2
      <4> QED BY <2>3, <4>1, <4>2
    <3>2. RowsIn(incomingBuffer)' = {}
      BY <1>9, <3>1
    <3>3. answer'["history"] = answer["history"]
      BY <1>4, <2>3
    <3>4. RowsIn(answer["history"])' = RowsIn(answer["history"])
      BY <1>1, <3>3 DEF RowsIn
    <3>5. Places(answer["history"])' = Places(answer["history"]) /\ Rising(answer["history"])'
      BY <2>2, <3>3, <3>4 DEF Places, Rising
    <3>6. Places(incomingBuffer) = {} /\ Places(incomingBuffer)' = {} /\ Rising(incomingBuffer)'
      BY <3>1, <3>2 DEF Places, Rising
    <3> QED BY <2>2, <3>1, <3>2, <3>5, <3>6
  <2>4. CASE waitingFor["history"] /\ l.kind # "END_OF_HISTORY"
    <3>1. answer'["history"] = Append(answer["history"], l) /\ waitingFor'["history"]
      BY <1>4, <2>4
    <3>2. \A i \in RowsIn(answer["history"])' :
            \/ i \in RowsIn(answer["history"]) /\ answer'["history"][i] = answer["history"][i] /\ i < M + 1
            \/ i = M + 1 /\ 1 \in RowsIn(incomingBuffer) /\ answer'["history"][i] = l
      <4>1. \A i \in 1..(M + 1) : i = M + 1 \/ (i \in 1..M /\ i < M + 1)
        BY <1>3
      <4>2. 1 \in DOMAIN incomingBuffer
        BY <1>2
      <4> QED BY <1>1, <1>2, <1>3, <1>5, <3>1, <4>1, <4>2 DEF RowsIn
    <3>3. \A i \in RowsIn(answer["history"]) :
            i \in RowsIn(answer["history"])' /\ answer'["history"][i] = answer["history"][i]
      <4>1. \A i \in 1..M : i \in 1..(M + 1)
        BY <1>3
      <4> QED BY <1>1, <1>3, <1>5, <3>1, <4>1 DEF RowsIn
    <3>4. 1 \in RowsIn(incomingBuffer) => M + 1 \in RowsIn(answer["history"])' /\ answer'["history"][M + 1] = l
      <4>1. M + 1 \in 1..(M + 1)
        BY <1>3
      <4> QED BY <1>1, <1>2, <1>5, <3>1, <4>1 DEF RowsIn
    <3>5. \A p : p \in Places(answer["history"])' <=>
            p \in Places(answer["history"]) \/ (1 \in RowsIn(incomingBuffer) /\ p = incomingBuffer[1].place)
      BY <1>2, <3>2, <3>3, <3>4 DEF Places
    <3>6. \A p : p \in Places(incomingBuffer) <=>
            p \in Places(incomingBuffer)' \/ (1 \in RowsIn(incomingBuffer) /\ p = incomingBuffer[1].place)
      BY <1>9, <1>10 DEF Places
    <3>7. Places(answer["history"])' \cup Places(incomingBuffer)' = RowsSent(asked) \ RowsComing
      BY <2>2, <3>5, <3>6
    <3>8. Rising(incomingBuffer)'
      <4>1. SUFFICES ASSUME NEW i \in RowsIn(incomingBuffer)', NEW k \in RowsIn(incomingBuffer)', i < k
                     PROVE  incomingBuffer'[i].place < incomingBuffer'[k].place
        BY DEF Rising
      <4>2. i + 1 < k + 1
        BY <1>9, <4>1
      <4> QED BY <1>9, <2>2, <4>2 DEF Rising
    <3>9. Rising(answer["history"])'
      <4>1. SUFFICES ASSUME NEW i \in RowsIn(answer["history"])', NEW k \in RowsIn(answer["history"])', i < k
                     PROVE  answer'["history"][i].place < answer'["history"][k].place
        BY DEF Rising
      <4>2. i \in Nat /\ k \in Nat /\ k <= M + 1
        BY <1>3, <1>5, <3>1 DEF RowsIn
      <4>3. i # M + 1
        BY <1>3, <4>1, <4>2
      <4>4. i \in RowsIn(answer["history"]) /\ answer'["history"][i] = answer["history"][i]
        BY <3>2, <4>3
      <4>5. CASE k \in RowsIn(answer["history"]) /\ answer'["history"][k] = answer["history"][k]
        BY <2>2, <4>1, <4>4, <4>5 DEF Rising
      <4>6. CASE 1 \in RowsIn(incomingBuffer) /\ answer'["history"][k] = l
        <5>1. l.place \in Places(incomingBuffer) /\ answer["history"][i].place \in Places(answer["history"])
          BY <1>2, <4>4, <4>6 DEF Places
        <5> QED BY <2>2, <4>4, <4>6, <5>1
      <4> QED BY <3>2, <4>5, <4>6
    <3>10. ASSUME NEW p \in Places(answer["history"])', NEW q \in Places(incomingBuffer)'
           PROVE  p < q
      <4>1. q \in Places(incomingBuffer)
        BY <3>6
      <4>2. CASE p \in Places(answer["history"])
        BY <2>2, <4>1, <4>2
      <4>3. CASE 1 \in RowsIn(incomingBuffer) /\ p = incomingBuffer[1].place
        <5>1. PICK i \in RowsIn(incomingBuffer)' : q = incomingBuffer'[i].place
          BY DEF Places
        <5>2. i + 1 \in RowsIn(incomingBuffer) /\ q = incomingBuffer[i + 1].place /\ i \in Nat /\ i + 1 # 1
          BY <1>9, <5>1
        <5>3. 1 < i + 1
          BY <5>2
        <5> QED BY <2>2, <4>3, <5>2, <5>3 DEF Rising
      <4> QED BY <3>5, <4>2, <4>3
    <3> QED BY <3>1, <3>7, <3>8, <3>9, <3>10
  <2> QED BY <2>3, <2>4
<1> QED BY <1>13, <1>14, <1>15, <1>16, <1>17 DEF HistInv

\* A line from a socket that was closed is no row and no end.
LEMMA HistReadsClosed ==
  ASSUME TypeInv, HistInv, NEW r \in Readers, ReadClosed(r)
  PROVE  HistInv'
<1>1. PICK kind \in {"public", "USERS"} :
        incomingBuffer' = Append(incomingBuffer, [kind |-> kind, of |-> 0, place |-> 0])
  BY DEF ReadClosed
<1> DEFINE N == Len(incomingBuffer)
           l == [kind |-> kind, of |-> 0, place |-> 0]
<1>2. UNCHANGED <<queue, current, stream, origin, taken, asked, answer, waitingFor, at, call>>
  BY DEF ReadClosed, netVars, linkVars, flagVars, mainVars
<1>3. l \in NetLine /\ l.kind \notin {"history", "END_OF_HISTORY"} /\ l.of = 0
  BY ClientAssumption DEF NetLine, LineKinds
<1>4. /\ DOMAIN incomingBuffer' = 1..(N + 1) /\ N \in Nat /\ DOMAIN incomingBuffer = 1..N
      /\ \A i \in 1..N : incomingBuffer'[i] = incomingBuffer[i]
      /\ incomingBuffer'[N + 1] = l
  <2>1. incomingBuffer \in Seq(NetLine)
    BY Lengths
  <2>2. /\ incomingBuffer' \in Seq(NetLine) /\ Len(incomingBuffer') = N + 1
        /\ \A i \in 1..N : incomingBuffer'[i] = incomingBuffer[i]
        /\ incomingBuffer'[N + 1] = l
    BY <1>1, <1>3, <2>1, AppendProperties
  <2> QED BY <2>2, Lengths, LenProperties
<1> HIDE DEF N, l
<1>5. \A i \in 1..(N + 1) : i = N + 1 \/ i \in 1..N
  BY <1>4
<1>6. \A i \in 1..N : i \in 1..(N + 1)
  BY <1>4
<1>7. EndsRead' = EndsRead
  BY <1>3, <1>4, <1>5, <1>6 DEF EndsRead
<1>8. RowsIn(incomingBuffer)' = RowsIn(incomingBuffer)
      /\ \A i \in RowsIn(incomingBuffer) : incomingBuffer'[i] = incomingBuffer[i]
  BY <1>2, <1>3, <1>4, <1>5, <1>6 DEF RowsIn
<1>9. Places(incomingBuffer)' = Places(incomingBuffer) /\ (Rising(incomingBuffer) => Rising(incomingBuffer)')
  BY <1>8 DEF Places, Rising
<1>10. /\ EndsSent' = EndsSent /\ RowsSent(asked)' = RowsSent(asked) /\ RowsComing' = RowsComing
       /\ HistoryQueued' = HistoryQueued /\ HistoryTaken' = HistoryTaken
       /\ Awaited' = Awaited /\ Got' = Got
       /\ RowsIn(answer["history"])' = RowsIn(answer["history"])
  BY <1>2 DEF EndsSent, RowsSent, RowsComing, HistoryQueued, HistoryTaken, Awaited, Got, RowsIn
<1>11. Places(answer["history"])' = Places(answer["history"]) /\ Rising(answer["history"])' = Rising(answer["history"])
  BY <1>2, <1>10 DEF Places, Rising
<1>12. TagInv'
  <2>1. \A i \in DOMAIN incomingBuffer' : incomingBuffer'[i].of <= asked'
    <3>1. l.of <= asked
      BY <1>3, Lengths
    <3>2. \A i \in 1..N : incomingBuffer[i].of <= asked
      BY <1>4 DEF HistInv, TagInv
    <3> QED BY <1>2, <1>4, <1>5, <3>1, <3>2
  <2> QED BY <1>2, <2>1 DEF HistInv, TagInv
<1>13. FlagInv'
  BY <1>2 DEF HistInv, FlagInv
<1>14. EndInv' /\ RowInv'
  BY <1>2, <1>7, <1>8, <1>10 DEF HistInv, EndInv, RowInv
<1>15. GotInv'
  BY <1>2, <1>8, <1>9, <1>10, <1>11 DEF HistInv, GotInv
<1> QED BY <1>12, <1>13, <1>14, <1>15 DEF HistInv

LEMMA HistStep == ASSUME TypeInv, HistInv, [Next]_vars PROVE HistInv'
<1>0. waitingFor \in [Waits -> BOOLEAN] /\ CallInv /\ "history" \in Waits /\ "private" \in Waits /\ "users" \in Waits
  BY DEF TypeInv, TypeOK, ClientTypeOK, MemberTypeOK, Waits
<1>1. ASSUME UNCHANGED <<bufferVars, waitingFor, at, call>>
      PROVE  HistInv'
  <2>1. FlagInv' /\ (Awaited => Awaited') /\ (Got' => Got /\ waitingFor'["history"] = waitingFor["history"])
    BY <1>1 DEF HistInv, FlagInv, Awaited, Got
  <2> QED BY <1>1, <2>1, HistStays
\* a call that no history waits in returns, or goes on
<1>2. ASSUME UNCHANGED <<bufferVars, waitingFor>>, at' \in {"menu", "started"},
             ~waitingFor["history"], ~waitingFor["private"]
      PROVE  HistInv'
  <2>1. FlagInv' /\ (Awaited => Awaited') /\ ~Got'
    BY <1>2 DEF HistInv, FlagInv, Awaited, Got, Awaits
  <2> QED BY <1>2, <2>1, HistStays
<1>3. ASSUME at \notin Awaits \cup {"send"}
      PROVE  ~waitingFor["history"] /\ ~waitingFor["private"]
  BY <1>3 DEF HistInv, FlagInv
<1>4. CASE MainStep
  <2>1. CASE LoggedIn \/ LoginFails \/ ((\E ok \in BOOLEAN : RegisterReturns(ok)) /\ MenuUnchanged)
    <3>1. at \in {"auth", "register"} /\ at' \in {"menu", "started"} /\ UNCHANGED <<waitingFor, answer, incomingBuffer>>
      BY <2>1 DEF LoggedIn, LoginFails, AuthReturns, RegisterReturns, StartThread, Goto, Return, memberVars, flagVars
    <3>2. (\E got \in Receivable : Recv(got)) \/ UNCHANGED netVars
      BY <2>1 DEF LoggedIn, LoginFails, AuthReturns, RegisterReturns
    <3>3. CASE \E got \in Receivable : Recv(got)
      BY <3>1, <3>3, HistDrops
    <3>4. CASE UNCHANGED netVars
      <4>1. UNCHANGED <<bufferVars, waitingFor>>
        BY <3>1, <3>4 DEF netVars, linkVars, bufferVars
      <4> QED BY <1>2, <1>3, <3>1, <4>1 DEF Awaits
    <3> QED BY <3>2, <3>3, <3>4
  <2>2. CASE Started
    <3>1. UNCHANGED <<bufferVars, waitingFor>> /\ at = "started" /\ at' = "menu"
      BY <2>2 DEF Started, Return, netVars, linkVars, bufferVars
    <3> QED BY <1>2, <1>3, <3>1 DEF Awaits
  <2>3. CASE SendRequest(IF call = "private" THEN partner ELSE NoLogin)
    BY <2>3, HistRequest
  <2>4. CASE RequestFails
    <3>1. /\ UNCHANGED bufferVars /\ at = "send" /\ at' = "menu" /\ call' = "none"
          /\ waitingFor' = [waitingFor EXCEPT ![call] = (call = "users")]
      BY <2>4 DEF RequestFails, SendFails, Return, netVars, linkVars, bufferVars
    <3>2. call \in Waits
      BY <1>0, <3>1 DEF CallInv
    <3>3. ~waitingFor'["history"] /\ ~waitingFor'["private"]
      BY <1>0, <3>1, <3>2 DEF HistInv, FlagInv
    <3>4. FlagInv' /\ (Awaited => Awaited') /\ ~Got'
      BY <3>1, <3>3 DEF FlagInv, Awaited, Got, Awaits
    <3> QED BY <3>1, <3>4, HistStays
  <2>5. CASE StillWaiting \/ FallAsleep \/ Wake
    <3>1. /\ UNCHANGED <<bufferVars, waitingFor, call>> /\ at \in Awaits /\ at' \in Awaits
      BY <2>5 DEF StillWaiting, FallAsleep, Wake, InWait, Goto, netVars, linkVars, memberVars, flagVars, bufferVars,
                  Awaits
    <3>2. FlagInv' /\ (Awaited => Awaited') /\ (Got' => Got)
      BY <3>1 DEF HistInv, FlagInv, Awaited, Got, Awaits
    <3> QED BY <3>1, <3>2, HistStays
  <2>6. CASE HistoryArrives \/ PrintLine \/ HistoryPrinted
    <3>1. /\ UNCHANGED <<bufferVars, waitingFor>>
          /\ \/ at = "test" /\ call \in Waits /\ call # "users" /\ ~waitingFor[call]
             \/ at = "print"
          /\ \/ at = "test" /\ call = "history" /\ at' = "print" /\ call' = call
             \/ at = "print" /\ at' = at /\ call' = call
             \/ at' = "menu" /\ call' = "none"
      BY <1>0, <2>6 DEF HistoryArrives, PrintLine, HistoryPrinted, InWait, Goto, Return, netVars, linkVars,
                        memberVars, flagVars, bufferVars, CallInv
    <3>2. ~waitingFor["history"] /\ ~waitingFor["private"]
      BY <3>1 DEF HistInv, FlagInv, Awaits, Waits
    <3>3. FlagInv' /\ (Awaited => Awaited') /\ (Got' => Got)
      BY <3>1, <3>2 DEF FlagInv, Awaited, Got, Awaits
    <3> QED BY <3>1, <3>3, HistStays
  <2>7. CASE \E found \in BOOLEAN : UsersArrive(found)
    <3>1. UNCHANGED <<bufferVars, waitingFor>> /\ call = "users" /\ at \in Awaits /\ at' = "menu"
      BY <2>7 DEF UsersArrive, UsersReturn, WaitTimesOut, Return, netVars, linkVars, memberVars, flagVars, bufferVars,
                  Awaits
    <3>2. ~waitingFor["history"] /\ ~waitingFor["private"]
      BY <3>1 DEF HistInv, FlagInv, Awaits
    <3> QED BY <1>2, <3>1, <3>2 DEF Awaits
  <2>8. CASE PrivateChat
    BY <1>0, <2>8, HistExpects DEF PrivateChat
  <2> QED BY <1>4, <2>1, <2>2, <2>3, <2>4, <2>5, <2>6, <2>7, <2>8 DEF MainStep
<1>5. CASE User
  <2>1. ASSUME NEW u \in Users, Login(u) \/ Register(u)
        PROVE  HistInv'
    <3>1. PICK op \in {"AUTH", "REGISTER"} : Send(op, u) \/ ConnectAndSend(op, u)
      BY <2>1 DEF Login, Register, Apply
    <3>2. /\ at = "menu" /\ at' \in {"auth", "register"} /\ UNCHANGED <<waitingFor, answer, incomingBuffer>>
          /\ op \in RequestOps \ HistoryOps
      BY <2>1, <3>1 DEF Login, Register, Apply, AtMenu, Goto, flagVars, RequestOps, HistoryOps
    <3> QED BY <3>1, <3>2, HistOtherSend DEF Awaits
  <2>2. CASE ExitProgram \/ Quit
    BY <2>2, HistHangsUp DEF ExitProgram, ProcessEnds, Quit, AtMenu, Disconnect, flagVars, mainVars
  <2>3. CASE PublicChat \/ ShowHistory \/ \E why \in {"list", "select"} : ShowUsers(why)
    BY <1>0, <2>3, HistExpects DEF PublicChat, ShowHistory, ShowUsers, AtMenu
  <2>4. CASE LeaveChat
    BY <1>1, <2>4 DEF LeaveChat, clientVars, netVars, linkVars, memberVars, flagVars, mainVars, bufferVars
  <2>5. ASSUME at = "menu", UNCHANGED <<waitingFor, answer, incomingBuffer, at, call>>,
               UNCHANGED netVars \/ \E op \in RequestOps \ HistoryOps : \E l \in Users \cup {NoLogin} : Send(op, l)
        PROVE  HistInv'
    <3>1. CASE UNCHANGED netVars
      BY <1>1, <2>5, <3>1 DEF netVars, linkVars, bufferVars
    <3>2. CASE \E op \in RequestOps \ HistoryOps : \E l \in Users \cup {NoLogin} : Send(op, l)
      BY <2>5, <3>2, HistOtherSend DEF Awaits
    <3> QED BY <2>5, <3>1, <3>2
  <2>6. CASE Say
    <3>1. at = "menu" /\ UNCHANGED <<waitingFor, answer, incomingBuffer, at, call>>
      BY <2>6 DEF Say, AtMenu, memberVars, flagVars, mainVars
    <3>2. Send("ALL", NoLogin) \/ Send("PRIVATE", current_user) \/ UNCHANGED netVars
      BY <2>6 DEF Say, SendFails
    <3>3. /\ "ALL" \in RequestOps \ HistoryOps /\ "PRIVATE" \in RequestOps \ HistoryOps
          /\ NoLogin \in Users \cup {NoLogin} /\ current_user \in Users \cup {NoLogin}
      BY DEF RequestOps, HistoryOps, TypeInv, TypeOK
    <3> QED BY <2>5, <3>1, <3>2, <3>3
  <2>7. CASE Leave
    <3>1. at = "menu" /\ UNCHANGED <<waitingFor, answer, incomingBuffer, at, call>>
      BY <2>7 DEF Leave, LogOut, AtMenu, mainVars
    <3>2. Send("EXIT", NoLogin) \/ UNCHANGED netVars
      BY <2>7 DEF Leave, LogOut, SendFails
    <3>3. "EXIT" \in RequestOps \ HistoryOps /\ NoLogin \in Users \cup {NoLogin}
      BY DEF RequestOps, HistoryOps
    <3> QED BY <2>5, <3>1, <3>2, <3>3
  <2> QED BY <1>5, <2>1, <2>2, <2>3, <2>4, <2>6, <2>7 DEF User
<1>6. CASE ServerAnswers \/ Outside
  <2>1. CASE ServerAnswers
    BY <2>1, HistAnswers
  <2>2. CASE OthersWrite
    <3>1. "public" \in LineKinds \ {"history", "END_OF_HISTORY"} /\ 0 \in 0..MaxRequests /\ 0 <= asked
      BY Lengths, ClientAssumption DEF LineKinds
    <3>2. /\ stream' = Append(stream, "public") /\ origin' = Append(origin, 0)
          /\ UNCHANGED <<taken, asked, incomingBuffer, answer, waitingFor, at, call, queue>>
          /\ current' \in {current, NoRequest}
      BY <2>2 DEF OthersWrite, S!Chatter, S!Says, Tagged, memberVars, flagVars, mainVars
    <3> QED BY <3>1, <3>2, HistChat
  <2>3. CASE ServerCloses
    BY <2>3, HistCloses
  <2>4. CASE WakeSpuriously
    <3>1. /\ UNCHANGED <<bufferVars, waitingFor, call>> /\ at \in Awaits /\ at' \in Awaits
      BY <2>4 DEF WakeSpuriously, InWait, Goto, netVars, linkVars, memberVars, flagVars, bufferVars, Awaits
    <3>2. FlagInv' /\ (Awaited => Awaited') /\ (Got' => Got)
      BY <3>1 DEF HistInv, FlagInv, Awaited, Got, Awaits
    <3> QED BY <3>1, <3>2, HistStays
  <2>5. CASE SigPipe
    BY <2>5, HistHangsUp DEF SigPipe, ProcessEnds
  <2> QED BY <1>6, <2>1, <2>2, <2>3, <2>4, <2>5 DEF Outside
<1>7. ASSUME NEW r \in Readers, ReaderStep(r)
      PROVE  HistInv'
  <2>1. CASE TestRunning(r) \/ CallRecv(r) \/ ReadNothing(r) \/ ReadEnd(r) \/ Notify(r) \/ Parsed(r) \/ ThreadEnds(r)
    <3>1. UNCHANGED <<bufferVars, waitingFor, at, call>>
      BY <2>1 DEF TestRunning, CallRecv, ReadNothing, ReadEnd, Notify, Parsed, ThreadEnds, ReaderOnly, netVars, linkVars,
                  memberVars, flagVars, mainVars, bufferVars
    <3> QED BY <1>1, <3>1
  <2>2. CASE ReadLines(r)
    BY <2>2, HistReads DEF ReadLines, flagVars, mainVars
  <2>3. CASE ReadClosed(r)
    BY <2>3, HistReadsClosed
  <2>4. CASE TakeLine(r)
    BY <2>4, HistTakesLine
  <2> QED BY <1>7, <2>1, <2>2, <2>3, <2>4 DEF ReaderStep
<1>8. CASE UNCHANGED vars
  BY <1>1, <1>8 DEF vars, clientVars, netVars, linkVars, memberVars, flagVars, mainVars, bufferVars
<1> QED BY <1>4, <1>5, <1>6, <1>7, <1>8 DEF Next

-----------------------------------------------------------------------------
(* What recentMessages hides of a history *)

\* A row that is sent or received, and not taken by the loop, is one of the last request,
\* and is waited for.
Strays == {i \in DOMAIN incomingBuffer : incomingBuffer[i].kind = "history"}
RowsUnread == {k \in DOMAIN stream : k > taken /\ stream[k] = "history"}

StrayInv ==
  /\ \A i \in Strays : Awaited /\ incomingBuffer[i].of = asked
  /\ \A k \in RowsUnread : Awaited /\ origin[k] = asked

\* No row is among the lines of chat, and so none is hidden.
PrintInv ==
  /\ at # "print" => shown = <<>>
  /\ \A i \in DOMAIN recentMessages : recentMessages[i] # "history"
  /\ \A i \in DOMAIN shown : historyLines[i].kind = "history" => shown[i]

\* While nothing is awaited no row is under way, and none comes to be.
LEMMA StrayIdle ==
  ASSUME TypeInv, StrayInv, at \notin Awaits, incomingBuffer' \in {incomingBuffer, <<>>},
         stream' = <<>> \/ (stream' = stream /\ taken' \in Nat /\ taken' >= taken)
  PROVE  StrayInv'
<1>1. Strays = {} /\ RowsUnread = {}
  BY DEF StrayInv, Awaited
<1>2. Strays' = {}
  BY <1>1 DEF Strays
<1>3. RowsUnread' = {}
  <2>1. CASE stream' = <<>>
    BY <2>1 DEF RowsUnread
  <2>2. CASE stream' = stream /\ taken' \in Nat /\ taken' >= taken
    <3>1. \A k \in DOMAIN stream : k > taken' => k > taken
      BY <2>2, Lengths
    <3> QED BY <1>1, <2>2, <3>1 DEF RowsUnread
  <2> QED BY <2>1, <2>2
<1> QED BY <1>2, <1>3 DEF StrayInv

\* What is sent and received stays as it is.
LEMMA StrayStays ==
  ASSUME StrayInv, UNCHANGED <<stream, origin, taken, asked, incomingBuffer>>, Awaited => Awaited'
  PROVE  StrayInv'
BY DEF StrayInv, Strays, RowsUnread

\* A line is sent: if it is a row, one of the history that is awaited.
LEMMA StraySays ==
  ASSUME TypeInv, StrayInv, NEW kind \in LineKinds, NEW n \in 0..MaxRequests,
         kind = "history" => Awaited /\ n = asked,
         stream' = Append(stream, kind), origin' = Append(origin, n),
         UNCHANGED <<taken, asked, incomingBuffer, waitingFor, at, call>>
  PROVE  StrayInv'
<1>1. /\ Len(stream') = Len(stream) + 1 /\ stream'[Len(stream) + 1] = kind /\ origin'[Len(stream) + 1] = n
      /\ \A k \in 1..Len(stream) : stream'[k] = stream[k] /\ origin'[k] = origin[k]
      /\ DOMAIN stream' = 1..(Len(stream) + 1)
  <2>1. NetTypeOK
    BY DEF TypeInv, TypeOK, ClientTypeOK
  <2>2. /\ stream' \in Seq(LineKinds)
        /\ Len(stream') = Len(stream) + 1 /\ stream'[Len(stream) + 1] = kind
        /\ origin'[Len(stream) + 1] = n
        /\ \A k \in 1..Len(stream) : stream'[k] = stream[k] /\ origin'[k] = origin[k]
    BY <2>1, StreamGrows
  <2> QED BY <2>2, LenProperties
<1>2. Strays' = Strays /\ Awaited' = Awaited
  BY DEF Strays, Awaited
<1>3. \A k \in RowsUnread' : Awaited /\ origin'[k] = asked
  BY <1>1, Lengths DEF StrayInv, RowsUnread
<1> QED BY <1>2, <1>3 DEF StrayInv

LEMMA StrayAnswers ==
  ASSUME TypeInv, HistInv, StrayInv, ServerAnswers
  PROVE  StrayInv'
<1>0. current \in Request \cup {NoRequest}
  BY DEF TypeInv, TypeOK, ClientTypeOK, NetTypeOK
<1>1. UNCHANGED <<taken, asked, incomingBuffer, waitingFor, at, call>>
  BY DEF ServerAnswers, Untagged, Tagged, memberVars, flagVars, mainVars
<1>2. CASE (S!Take \/ S!Leave \/ S!Silent) /\ Untagged
  <2>1. UNCHANGED <<stream, origin>>
    BY <1>2 DEF S!Take, S!Leave, S!Silent, Untagged
  <2>2. Awaited' = Awaited
    BY <1>1 DEF Awaited
  <2> QED BY <1>1, <2>1, <2>2, StrayStays
<1>3. CASE ~S!Idle /\ S!Row /\ Tagged(current.n)
  <2>1. HistoryTaken /\ current.n \in 0..MaxRequests
    BY <1>0, <1>3, ClientAssumption DEF S!Row, S!Idle, HistoryTaken, HistoryOps, Request
  <2>2. Awaited /\ current.n = asked
    BY <2>1 DEF HistInv, EndInv
  <2> QED BY <1>1, <1>3, <2>1, <2>2, StraySays DEF S!Row, S!Says, Tagged, LineKinds
<1>4. ASSUME ~S!Idle, NEW kind \in S!Answers(current.op), S!Answer(kind), Tagged(current.n)
      PROVE  StrayInv'
  <2>1. current.op \in RequestOps /\ current.n \in 0..MaxRequests
    BY <1>0, <1>4, ClientAssumption DEF S!Idle, Request
  <2>2. kind \in LineKinds /\ kind # "history"
    BY <1>4, <2>1, AnswerKinds
  <2> QED BY <1>1, <1>4, <2>1, <2>2, StraySays DEF S!Answer, S!Says, Tagged
<1> QED BY <1>2, <1>3, <1>4 DEF ServerAnswers

LEMMA StrayCloses ==
  ASSUME TypeInv, StrayInv, ServerCloses
  PROVE  StrayInv'
<1>1. PICK n \in taken..Len(stream) : S!Close(n) /\ origin' = SubSeq(origin, 1, n)
  BY DEF ServerCloses
<1>2. UNCHANGED <<taken, asked, incomingBuffer, waitingFor, at, call>>
  BY DEF ServerCloses, memberVars, flagVars, mainVars
<1>3. /\ DOMAIN stream' = 1..n
      /\ \A k \in 1..n : k \in 1..Len(stream) /\ stream'[k] = stream[k] /\ origin'[k] = origin[k]
  <2>1. NetTypeOK
    BY DEF TypeInv, TypeOK, ClientTypeOK
  <2>2. /\ stream' \in Seq(LineKinds) /\ Len(stream') = n
        /\ \A k \in 1..n : k \in 1..Len(stream) /\ stream'[k] = stream[k] /\ origin'[k] = origin[k]
    BY <1>1, <1>2, <2>1, StreamCut DEF S!Close
  <2> QED BY <2>2, LenProperties
<1>4. Strays' = Strays /\ Awaited' = Awaited
  BY <1>2 DEF Strays, Awaited
<1>5. \A k \in RowsUnread' : k \in RowsUnread /\ origin'[k] = origin[k]
  BY <1>2, <1>3, Lengths DEF RowsUnread
<1> QED BY <1>2, <1>4, <1>5 DEF StrayInv

\* recv returns lines: what is new in the buffer was to come.
LEMMA StrayReads ==
  ASSUME TypeInv, StrayInv, NEW got \in Receivable, Recv(got), incomingBuffer' = incomingBuffer \o got,
         UNCHANGED <<waitingFor, at, call>>
  PROVE  StrayInv'
<1> DEFINE N == Len(incomingBuffer)
           n == Len(got)
<1>1. /\ got \in Seq(NetLine) /\ n \in 1..(Len(stream) - taken)
      /\ \A i \in 1..n : got[i].kind = stream[taken + i] /\ got[i].of = origin[taken + i]
  <2>1. NetTypeOK
    BY DEF TypeInv, TypeOK, ClientTypeOK
  <2> QED BY <2>1, ReceivedLines
<1>2. taken' = taken + n /\ UNCHANGED <<stream, origin, asked>>
  BY DEF Recv, linkVars
<1>3. Awaited' = Awaited
  BY DEF Awaited
<1>4. N \in Nat /\ n \in Nat /\ taken \in Nat /\ n <= Len(stream) - taken /\ Len(stream) \in Nat
  BY <1>1, Lengths
<1>5. /\ DOMAIN incomingBuffer' = 1..(N + n)
      /\ \A i \in 1..(N + n) : incomingBuffer'[i] = IF i <= N THEN incomingBuffer[i] ELSE got[i - N]
  <2>1. incomingBuffer \in Seq(NetLine)
    BY Lengths
  <2>2. /\ incomingBuffer' \in Seq(NetLine) /\ Len(incomingBuffer') = N + n
        /\ \A i \in 1..(N + n) : incomingBuffer'[i] = IF i <= N THEN incomingBuffer[i] ELSE got[i - N]
    BY <1>1, <2>1, ConcatProperties
  <2> QED BY <2>2, LenProperties
<1>6. DOMAIN incomingBuffer = 1..N /\ DOMAIN stream = 1..Len(stream)
  BY Lengths
<1> HIDE DEF N, n
<1>7. ASSUME NEW i \in Strays'
      PROVE  Awaited /\ incomingBuffer'[i].of = asked
  <2>1. i \in 1..(N + n) /\ incomingBuffer'[i].kind = "history"
    BY <1>5 DEF Strays
  <2>2. CASE i <= N
    <3>1. incomingBuffer'[i] = incomingBuffer[i] /\ i \in 1..N
      BY <1>4, <1>5, <2>1, <2>2
    <3> QED BY <1>6, <2>1, <3>1 DEF Strays, StrayInv
  <2>3. CASE ~(i <= N)
    <3>1. i - N \in 1..n /\ incomingBuffer'[i] = got[i - N]
      BY <1>4, <1>5, <2>1, <2>3
    <3>2. got[i - N].kind = stream[taken + (i - N)] /\ got[i - N].of = origin[taken + (i - N)]
      BY <1>1, <3>1 DEF n
    <3>3. taken + (i - N) \in 1..Len(stream) /\ taken + (i - N) > taken
      BY <1>4, <3>1
    <3>4. taken + (i - N) \in RowsUnread
      BY <1>6, <2>1, <3>1, <3>2, <3>3 DEF RowsUnread
    <3> QED BY <3>1, <3>2, <3>4 DEF StrayInv
  <2> QED BY <2>2, <2>3
<1>8. RowsUnread' \subseteq RowsUnread
  <2>1. \A k \in DOMAIN stream : k > taken' => k > taken
    BY <1>2, <1>4, <1>6
  <2> QED BY <1>2, <2>1 DEF RowsUnread
<1> QED BY <1>2, <1>3, <1>7, <1>8 DEF StrayInv

\* The loop takes a line: when it is the end of a history, its rows were taken before.
LEMMA StrayTakesLine ==
  ASSUME TypeInv, HistInv, StrayInv, NEW r \in Readers, TakeLine(r)
  PROVE  StrayInv'
<1> DEFINE N == Len(incomingBuffer)
           l == Head(incomingBuffer)
<1>1. UNCHANGED <<stream, origin, taken, asked, at, call>>
  BY DEF TakeLine, netVars, linkVars, mainVars
<1>2. /\ N \in Nat \ {0} /\ DOMAIN incomingBuffer = 1..N /\ DOMAIN incomingBuffer' = 1..(N - 1)
      /\ \A i \in 1..(N - 1) : incomingBuffer'[i] = incomingBuffer[i + 1]
      /\ l = incomingBuffer[1]
  <2>1. incomingBuffer \in Seq(NetLine) /\ incomingBuffer # <<>> /\ incomingBuffer' = Tail(incomingBuffer)
    BY Lengths DEF TakeLine
  <2>2. /\ Tail(incomingBuffer) \in Seq(NetLine) /\ Len(Tail(incomingBuffer)) = N - 1
        /\ \A i \in 1..Len(Tail(incomingBuffer)) : Tail(incomingBuffer)[i] = incomingBuffer[i + 1]
        /\ l = incomingBuffer[1]
    BY <2>1, HeadTailProperties
  <2>3. N # 0
    BY <2>1, EmptySeq
  <2> QED BY <2>1, <2>2, <2>3, Lengths, LenProperties
<1>3. \A w \in {"history", "private"} : waitingFor[w] /\ l.kind # "END_OF_HISTORY" => waitingFor'[w]
  BY LineTaken
<1> HIDE DEF N, l
<1>4. \A i \in Strays' : i \in Nat /\ i + 1 \in Strays /\ i + 1 # 1 /\ incomingBuffer'[i] = incomingBuffer[i + 1]
  BY <1>2 DEF Strays
<1>5. RowsUnread' = RowsUnread
  BY <1>1 DEF RowsUnread
<1>6. CASE l.kind # "END_OF_HISTORY"
  <2>1. Awaited => Awaited'
    BY <1>1, <1>3, <1>6 DEF Awaited
  <2> QED BY <1>1, <1>4, <1>5, <2>1 DEF StrayInv
<1>7. CASE l.kind = "END_OF_HISTORY"
  <2>1. 1 \in EndsRead
    BY <1>2, <1>7 DEF EndsRead
  <2>2. RowsComing = {} /\ \A j \in RowsIn(incomingBuffer) : j < 1
    BY <2>1 DEF HistInv, RowInv
  <2>3. \A i \in Strays : i \in RowsIn(incomingBuffer) /\ i \in 1..N
    BY <1>2 DEF StrayInv, Strays, RowsIn
  <2>4. Strays = {}
    <3>1. \A i \in 1..N : ~(i < 1)
      BY <1>2
    <3> QED BY <2>2, <2>3, <3>1
  <2>5. RowsUnread \subseteq RowsComing
    BY DEF StrayInv, RowsUnread, RowsComing, RowsSent
  <2> QED BY <1>4, <1>5, <2>2, <2>4, <2>5 DEF StrayInv
<1> QED BY <1>6, <1>7

\* A line from a socket that was closed is no row.
LEMMA StrayReadsClosed ==
  ASSUME TypeInv, StrayInv, NEW r \in Readers, ReadClosed(r)
  PROVE  StrayInv'
<1>1. PICK kind \in {"public", "USERS"} :
        incomingBuffer' = Append(incomingBuffer, [kind |-> kind, of |-> 0, place |-> 0])
  BY DEF ReadClosed
<1> DEFINE N == Len(incomingBuffer)
           l == [kind |-> kind, of |-> 0, place |-> 0]
<1>2. UNCHANGED <<stream, origin, taken, asked, waitingFor, at, call>>
  BY DEF ReadClosed, netVars, linkVars, flagVars, mainVars
<1>3. l \in NetLine /\ l.kind # "history"
  BY ClientAssumption DEF NetLine, LineKinds
<1>4. /\ DOMAIN incomingBuffer' = 1..(N + 1) /\ N \in Nat /\ DOMAIN incomingBuffer = 1..N
      /\ \A i \in 1..N : incomingBuffer'[i] = incomingBuffer[i]
      /\ incomingBuffer'[N + 1] = l
  <2>1. incomingBuffer \in Seq(NetLine)
    BY Lengths
  <2>2. /\ incomingBuffer' \in Seq(NetLine) /\ Len(incomingBuffer') = N + 1
        /\ \A i \in 1..N : incomingBuffer'[i] = incomingBuffer[i]
        /\ incomingBuffer'[N + 1] = l
    BY <1>1, <1>3, <2>1, AppendProperties
  <2> QED BY <2>2, Lengths, LenProperties
<1> HIDE DEF N, l
<1>5. \A i \in Strays' : i \in Strays /\ incomingBuffer'[i] = incomingBuffer[i]
  <2>1. \A i \in 1..(N + 1) : i = N + 1 \/ i \in 1..N
    BY <1>4
  <2> QED BY <1>3, <1>4, <2>1 DEF Strays
<1>6. RowsUnread' = RowsUnread /\ Awaited' = Awaited
  BY <1>2 DEF RowsUnread, Awaited
<1> QED BY <1>2, <1>5, <1>6 DEF StrayInv

LEMMA StrayStep == ASSUME TypeInv, HistInv, StrayInv, [Next]_vars PROVE StrayInv'
<1>1. ASSUME UNCHANGED <<netVars, incomingBuffer>>, Awaited => Awaited'
      PROVE  StrayInv'
  BY <1>1, StrayStays DEF netVars, linkVars
<1>2. ASSUME at \notin Awaits, incomingBuffer' \in {incomingBuffer, <<>>},
             \/ UNCHANGED netVars
             \/ \E got \in Receivable : Recv(got)
             \/ \E op \in RequestOps, l \in Users \cup {NoLogin} : Send(op, l) \/ ConnectAndSend(op, l)
             \/ HangUp
      PROVE  StrayInv'
  <2>1. CASE UNCHANGED netVars
    BY <1>2, <2>1, StrayIdle, Lengths DEF netVars, linkVars
  <2>2. CASE \E got \in Receivable : Recv(got)
    <3>1. PICK got \in Receivable : Recv(got)
      BY <2>2
    <3>2. Len(got) \in Nat
      BY ReceivedLines, Lengths DEF TypeInv, TypeOK, ClientTypeOK
    <3>3. stream' = stream /\ taken' = taken + Len(got)
      BY <3>1 DEF Recv, linkVars
    <3>4. taken' \in Nat /\ taken' >= taken
      BY <3>2, <3>3, Lengths
    <3> QED BY <1>2, <3>3, <3>4, StrayIdle
  <2>3. CASE \E op \in RequestOps, l \in Users \cup {NoLogin} : Send(op, l) \/ ConnectAndSend(op, l)
    <3>1. stream' = <<>> \/ (stream' = stream /\ taken' = taken)
      BY <2>3 DEF Send, ConnectAndSend, S!Ask, linkVars
    <3> QED BY <1>2, <3>1, StrayIdle, Lengths
  <2>4. CASE HangUp
    BY <1>2, <2>4, StrayIdle DEF HangUp
  <2> QED BY <1>2, <2>1, <2>2, <2>3, <2>4
<1>3. CASE MainStep
  <2>1. CASE LoggedIn \/ LoginFails \/ ((\E ok \in BOOLEAN : RegisterReturns(ok)) /\ MenuUnchanged)
    <3>1. at \in {"auth", "register"} /\ incomingBuffer' = incomingBuffer
      BY <2>1 DEF LoggedIn, LoginFails, AuthReturns, RegisterReturns, StartThread, memberVars
    <3>2. (\E got \in Receivable : Recv(got)) \/ UNCHANGED netVars
      BY <2>1 DEF LoggedIn, LoginFails, AuthReturns, RegisterReturns
    <3> QED BY <1>2, <3>1, <3>2 DEF Awaits
  <2>2. CASE Started \/ RequestFails
    <3>1. UNCHANGED <<netVars, incomingBuffer>> /\ at \in {"started", "send"}
      BY <2>2 DEF Started, RequestFails, SendFails
    <3> QED BY <1>2, <3>1 DEF Awaits
  <2>3. CASE SendRequest(IF call = "private" THEN partner ELSE NoLogin)
    <3>1. at = "send" /\ incomingBuffer' = incomingBuffer
      BY <2>3 DEF SendRequest, memberVars
    <3>2. /\ Command(call) \in RequestOps
          /\ (IF call = "private" THEN partner ELSE NoLogin) \in Users \cup {NoLogin}
      BY <3>1 DEF TypeInv, TypeOK, CallInv, Waits, Command, RequestOps
    <3>3. \E op \in RequestOps, l \in Users \cup {NoLogin} : Send(op, l)
      BY <2>3, <3>2 DEF SendRequest
    <3> QED BY <1>2, <3>1, <3>3 DEF Awaits
  <2>4. CASE StillWaiting \/ FallAsleep \/ Wake
    <3>1. UNCHANGED <<netVars, incomingBuffer>> /\ (Awaited => Awaited')
      BY <2>4 DEF StillWaiting, FallAsleep, Wake, InWait, Goto, memberVars, flagVars, Awaited, Awaits
    <3> QED BY <1>1, <3>1
  <2>5. CASE HistoryArrives \/ \E found \in BOOLEAN : UsersArrive(found)
    <3>1. UNCHANGED <<netVars, incomingBuffer>> /\ ~Awaited
      BY <2>5 DEF HistoryArrives, UsersArrive, UsersReturn, InWait, memberVars, Awaited
    <3> QED BY <1>1, <3>1
  <2>6. CASE PrintLine \/ HistoryPrinted
    <3>1. UNCHANGED <<netVars, incomingBuffer>> /\ at = "print"
      BY <2>6 DEF PrintLine, HistoryPrinted, InWait, memberVars
    <3> QED BY <1>2, <3>1 DEF Awaits
  <2>7. CASE PrivateChat
    <3>1. UNCHANGED <<netVars, incomingBuffer>> /\ at = "menu"
      BY <2>7 DEF PrivateChat, Expect
    <3> QED BY <1>2, <3>1 DEF Awaits
  <2> QED BY <1>3, <2>1, <2>2, <2>3, <2>4, <2>5, <2>6, <2>7 DEF MainStep
<1>4. CASE User
  <2>1. at = "menu" /\ at \notin Awaits
    BY <1>4 DEF User, Login, Register, ExitProgram, PublicChat, ShowHistory, Say, LeaveChat, Quit, Leave, ShowUsers,
                AtMenu, Awaits
  <2>2. ASSUME NEW u \in Users, Login(u) \/ Register(u)
        PROVE  StrayInv'
    <3>1. /\ \E op \in RequestOps, l \in Users \cup {NoLogin} : Send(op, l) \/ ConnectAndSend(op, l)
          /\ incomingBuffer' = incomingBuffer
      BY <2>2 DEF Login, Register, Apply, RequestOps
    <3> QED BY <1>2, <2>1, <3>1
  <2>3. CASE ExitProgram \/ Quit
    <3>1. HangUp /\ incomingBuffer' \in {incomingBuffer, <<>>}
      BY <2>3 DEF ExitProgram, ProcessEnds, Quit, Disconnect
    <3> QED BY <1>2, <2>1, <3>1
  <2>4. CASE PublicChat \/ ShowHistory \/ (\E why \in {"list", "select"} : ShowUsers(why)) \/ LeaveChat
    <3>1. UNCHANGED <<netVars, incomingBuffer>>
      BY <2>4 DEF PublicChat, ShowHistory, ShowUsers, Expect, LeaveChat, clientVars, memberVars
    <3> QED BY <1>2, <2>1, <3>1
  <2>5. CASE Say \/ Leave
    <3>1. incomingBuffer' = incomingBuffer
      BY <2>5 DEF Say, Leave, LogOut, memberVars
    <3>2. current_user \in Users \cup {NoLogin} /\ NoLogin \in Users \cup {NoLogin}
      BY DEF TypeInv, TypeOK
    <3>3. "ALL" \in RequestOps /\ "PRIVATE" \in RequestOps /\ "EXIT" \in RequestOps
      BY DEF RequestOps
    <3>4. \/ UNCHANGED netVars
          \/ Send("ALL", NoLogin) \/ Send("PRIVATE", current_user) \/ Send("EXIT", NoLogin)
      BY <2>5 DEF Say, Leave, LogOut, SendFails
    <3> QED BY <1>2, <2>1, <3>1, <3>2, <3>3, <3>4
  <2> QED BY <1>4, <2>2, <2>3, <2>4, <2>5 DEF User
<1>5. CASE ServerAnswers \/ Outside
  <2>1. CASE OthersWrite
    <3>1. /\ stream' = Append(stream, "public") /\ origin' = Append(origin, 0)
          /\ UNCHANGED <<taken, asked, incomingBuffer, waitingFor, at, call>>
      BY <2>1 DEF OthersWrite, S!Chatter, S!Says, Tagged, memberVars, flagVars, mainVars
    <3>2. "public" \in LineKinds /\ 0 \in 0..MaxRequests
      BY ClientAssumption DEF LineKinds
    <3> QED BY <3>1, <3>2, StraySays
  <2>2. CASE WakeSpuriously
    <3>1. UNCHANGED <<netVars, incomingBuffer>> /\ (Awaited => Awaited')
      BY <2>2 DEF WakeSpuriously, InWait, Goto, memberVars, flagVars, Awaited, Awaits
    <3> QED BY <1>1, <3>1
  <2>3. CASE SigPipe
    <3>1. HangUp /\ incomingBuffer' = <<>> /\ at \in {"menu", "send"}
      BY <2>3 DEF SigPipe, ProcessEnds
    <3> QED BY <1>2, <3>1 DEF Awaits
  <2> QED BY <1>5, <2>1, <2>2, <2>3, StrayAnswers, StrayCloses DEF Outside
<1>6. ASSUME NEW r \in Readers, ReaderStep(r)
      PROVE  StrayInv'
  <2>1. CASE TestRunning(r) \/ CallRecv(r) \/ ReadNothing(r) \/ ReadEnd(r) \/ Notify(r) \/ Parsed(r) \/ ThreadEnds(r)
    <3>1. UNCHANGED <<netVars, incomingBuffer>> /\ Awaited' = Awaited
      BY <2>1 DEF TestRunning, CallRecv, ReadNothing, ReadEnd, Notify, Parsed, ThreadEnds, ReaderOnly,
                  memberVars, flagVars, mainVars, Awaited
    <3> QED BY <1>1, <3>1
  <2>2. CASE ReadLines(r)
    BY <2>2, StrayReads DEF ReadLines, flagVars, mainVars
  <2> QED BY <1>6, <2>1, <2>2, StrayReadsClosed, StrayTakesLine DEF ReaderStep
<1>7. CASE UNCHANGED vars
  BY <1>1, <1>7 DEF vars, clientVars, memberVars, flagVars, mainVars, Awaited
<1> QED BY <1>3, <1>4, <1>5, <1>6, <1>7 DEF Next

\* recentMessages keeps the latest of the lines it is given.
LEMMA RecentOf ==
  ASSUME MemberTypeOK, NEW kind \in LineKinds, kind # "history",
         \A i \in DOMAIN recentMessages : recentMessages[i] # "history",
         recentMessages' = KeepRecent(Append(recentMessages, kind))
  PROVE  \A i \in DOMAIN recentMessages' : recentMessages'[i] # "history"
<1> DEFINE s == Append(recentMessages, kind)
           n == Len(recentMessages)
<1>1. recentMessages \in Seq(LineKinds) /\ n \in Nat /\ DOMAIN recentMessages = 1..n
  <2>1. recentMessages \in Seq(LineKinds)
    BY DEF MemberTypeOK
  <2> QED BY <2>1, LenProperties
<1>2. s \in Seq(LineKinds) /\ Len(s) = n + 1 /\ DOMAIN s = 1..(n + 1)
      /\ (\A i \in 1..n : s[i] = recentMessages[i]) /\ s[n + 1] = kind
  <2>1. /\ s \in Seq(LineKinds) /\ Len(s) = n + 1
        /\ (\A i \in 1..n : s[i] = recentMessages[i]) /\ s[n + 1] = kind
    BY <1>1, AppendProperties
  <2> QED BY <2>1, LenProperties
<1> HIDE DEF s, n
<1>3. \A i \in 1..(n + 1) : s[i] # "history"
  <2>1. \A i \in 1..(n + 1) : i \in 1..n \/ i = n + 1
    BY <1>1
  <2> QED BY <1>1, <1>2, <2>1
<1>4. CASE recentMessages' = s
  BY <1>2, <1>3, <1>4
<1>5. CASE recentMessages' = Tail(s)
  <2>1. s # <<>>
    BY <1>1, <1>2
  <2>2. /\ Tail(s) \in Seq(LineKinds) /\ Len(Tail(s)) = n
        /\ \A i \in 1..Len(Tail(s)) : Tail(s)[i] = s[i + 1]
    <3>1. /\ Tail(s) \in Seq(LineKinds) /\ Len(Tail(s)) = Len(s) - 1
          /\ \A i \in 1..Len(Tail(s)) : Tail(s)[i] = s[i + 1]
      BY <1>2, <2>1, HeadTailProperties
    <3> QED BY <1>1, <1>2, <3>1
  <2>3. DOMAIN Tail(s) = 1..n
    BY <2>2, LenProperties
  <2>4. \A i \in 1..n : i + 1 \in 1..(n + 1)
    BY <1>1
  <2> QED BY <1>3, <1>5, <2>2, <2>3, <2>4
<1> QED BY <1>4, <1>5 DEF KeepRecent, s

LEMMA PrintStep == ASSUME TypeInv, HistInv, StrayInv, PrintInv, [Next]_vars PROVE PrintInv'
<1>0. MemberTypeOK /\ shown \in Seq(BOOLEAN) /\ "history" \in Waits /\ "private" \in Waits
  BY DEF TypeInv, TypeOK, ClientTypeOK, ThreadTypeOK, Waits
<1>1. ASSUME UNCHANGED <<answer, recentMessages, at, shown>>
      PROVE  PrintInv'
  BY <1>1 DEF PrintInv, historyLines
<1>2. ASSUME recentMessages' \in {recentMessages, <<>>}, at # "print", shown' \in {shown, <<>>}
      PROVE  PrintInv'
  <2>1. shown' = <<>>
    BY <1>2 DEF PrintInv
  <2> QED BY <1>2, <2>1 DEF PrintInv
<1>3. ASSUME UNCHANGED recentMessages, Return
      PROVE  PrintInv'
  BY <1>3 DEF Return, PrintInv
<1>4. CASE MainStep
  <2>1. CASE \/ LoggedIn \/ LoginFails \/ (\E ok \in BOOLEAN : RegisterReturns(ok))
             \/ Started \/ SendRequest(IF call = "private" THEN partner ELSE NoLogin)
             \/ RequestFails \/ StillWaiting \/ FallAsleep \/ Wake \/ HistoryArrives
             \/ (\E found \in BOOLEAN : UsersArrive(found)) \/ PrivateChat
    <3>1. at # "print"
      BY <2>1 DEF LoggedIn, LoginFails, AuthReturns, RegisterReturns, Started, SendRequest, RequestFails, StillWaiting,
                  FallAsleep, Wake, HistoryArrives, InWait, UsersArrive, UsersReturn, WaitTimesOut, PrivateChat
    <3>2. recentMessages' = recentMessages /\ shown' \in {shown, <<>>}
      BY <2>1 DEF LoggedIn, LoginFails, RegisterReturns, StartThread, Started, SendRequest, RequestFails, StillWaiting,
                  FallAsleep, Wake, HistoryArrives, InWait, UsersArrive, UsersReturn, PrivateChat, Expect,
                  Goto, Return, memberVars
    <3> QED BY <1>2, <3>1, <3>2
  <2>2. CASE PrintLine
    <3> DEFINE n == Len(shown)
    <3>1. PICK found \in BOOLEAN :
            (found => MayBeRecent(historyLines[n + 1])) /\ shown' = Append(shown, ~found)
      BY <2>2 DEF PrintLine
    <3>2. UNCHANGED <<at, answer, recentMessages>> /\ at = "print"
      BY <2>2 DEF PrintLine, memberVars
    <3>3. /\ n \in Nat /\ DOMAIN shown = 1..n /\ DOMAIN shown' = 1..(n + 1)
          /\ (\A i \in 1..n : shown'[i] = shown[i]) /\ shown'[n + 1] = ~found
      BY <1>0, <3>1
    <3> HIDE DEF n
    <3>4. historyLines[n + 1].kind = "history" => ~found
      BY <3>1 DEF MayBeRecent, PrintInv
    <3>5. \A i \in 1..(n + 1) : i \in 1..n \/ i = n + 1
      BY <3>3
    <3> QED BY <3>2, <3>3, <3>4, <3>5 DEF PrintInv, historyLines
  <2>3. CASE HistoryPrinted
    BY <1>3, <2>3 DEF HistoryPrinted, InWait, memberVars
  <2> QED BY <1>4, <2>1, <2>2, <2>3 DEF MainStep
<1>5. CASE User
  <2>1. at # "print"
    BY <1>5 DEF User, Login, Register, ExitProgram, PublicChat, ShowHistory, Say, LeaveChat, Quit, Leave, ShowUsers,
                AtMenu
  <2>2. recentMessages' \in {recentMessages, <<>>} /\ shown' \in {shown, <<>>}
    <3>1. CASE (\E u \in Users : Login(u) \/ Register(u)) \/ ExitProgram \/ LeaveChat \/ Quit \/ Leave \/ Say
      BY <3>1 DEF Login, Register, Apply, Goto, ExitProgram, ProcessEnds, LeaveChat, Quit, Disconnect, Leave, LogOut,
                  Say, clientVars, memberVars, mainVars
    <3>2. CASE PublicChat \/ ShowHistory \/ (\E why \in {"list", "select"} : ShowUsers(why))
      BY <3>2 DEF PublicChat, ShowHistory, ShowUsers, Expect
    <3> QED BY <1>5, <3>1, <3>2 DEF User
  <2> QED BY <1>2, <2>1, <2>2
<1>6. CASE ServerAnswers \/ Outside
  <2>1. CASE ServerAnswers \/ OthersWrite \/ ServerCloses
    <3>1. UNCHANGED <<answer, recentMessages, at, shown>>
      BY <2>1 DEF ServerAnswers, Untagged, Tagged, OthersWrite, ServerCloses, memberVars, mainVars
    <3> QED BY <1>1, <3>1
  <2>2. CASE WakeSpuriously \/ SigPipe
    <3>1. at # "print" /\ recentMessages' \in {recentMessages, <<>>} /\ shown' \in {shown, <<>>}
      BY <2>2 DEF WakeSpuriously, InWait, Goto, SigPipe, ProcessEnds, memberVars
    <3> QED BY <1>2, <3>1
  <2> QED BY <1>6, <2>1, <2>2 DEF Outside
<1>7. ASSUME NEW r \in Readers, ReaderStep(r)
      PROVE  PrintInv'
  <2>1. CASE ~TakeLine(r)
    <3>1. UNCHANGED <<answer, recentMessages, at, shown>>
      BY <1>7, <2>1 DEF ReaderStep, TestRunning, CallRecv, ReadLines, ReadClosed, ReadNothing, ReadEnd, Notify, Parsed,
                        ThreadEnds, ReaderOnly, memberVars, mainVars
    <3> QED BY <1>1, <3>1
  <2>2. CASE TakeLine(r)
    <3> DEFINE l == Head(incomingBuffer)
    <3>1. UNCHANGED <<at, shown>>
      BY <2>2 DEF TakeLine, mainVars
    <3>2. \A i \in DOMAIN recentMessages' : recentMessages'[i] # "history"
      <4>1. CASE Flagged = {}
        <5>1. recentMessages' = KeepRecent(Append(recentMessages, l.kind))
          BY <2>2, <4>1 DEF TakeLine
        <5>2. l \in NetLine /\ l = incomingBuffer[1] /\ 1 \in DOMAIN incomingBuffer
          <6>1. incomingBuffer \in Seq(NetLine) /\ incomingBuffer # <<>>
            BY <1>0, <2>2 DEF TakeLine, MemberTypeOK
          <6>2. Len(incomingBuffer) # 0 /\ Len(incomingBuffer) \in Nat
            BY <6>1, EmptySeq, LenProperties
          <6> QED BY <6>1, <6>2, HeadTailProperties, LenProperties
        <5>3. l.kind # "history"
          <6>1. ~Awaited
            BY <1>0, <4>1, WaiterIs DEF Awaited, Waits
          <6> QED BY <5>2, <6>1 DEF StrayInv, Strays
        <5>4. l.kind \in LineKinds
          BY <5>2 DEF NetLine
        <5>5. \A i \in DOMAIN recentMessages : recentMessages[i] # "history"
          BY DEF PrintInv
        <5> HIDE DEF l
        <5> QED BY <1>0, <5>1, <5>3, <5>4, <5>5, RecentOf
      <4>2. CASE Flagged # {}
        <5>1. recentMessages' = recentMessages
          BY <2>2, <4>2 DEF TakeLine
        <5> QED BY <5>1 DEF PrintInv
      <4> QED BY <4>1, <4>2
    <3>3. CASE at = "print"
      <4>1. ~waitingFor["history"]
        BY <3>3 DEF HistInv, FlagInv, Awaits
      <4>2. answer'["history"] = answer["history"]
        BY <2>2, <4>1, LineTaken
      <4> QED BY <3>1, <3>2, <3>3, <4>2 DEF PrintInv, historyLines
    <3>4. CASE at # "print"
      BY <3>1, <3>2, <3>4 DEF PrintInv
    <3> QED BY <3>3, <3>4
  <2> QED BY <2>1, <2>2
<1>8. CASE UNCHANGED vars
  BY <1>1, <1>8 DEF vars, clientVars, memberVars, mainVars
<1> QED BY <1>4, <1>5, <1>6, <1>7, <1>8 DEF Next

\* Once requestHistory is through, it has printed every row the server sent for this
\* request, in order and once: the rows that reached historyLines and those still in
\* incomingBuffer are those received, the flag falls with the end of this history, which
\* is the only one under way and comes after them, and a row is never among the lines
\* that are taken for chat, so that recentMessages hides none.
THEOREM HistoriesWhole == Spec => []HistoryIsWhole
<1> DEFINE Inv == TypeInv /\ HistInv /\ StrayInv /\ PrintInv
<1>1. Init => Inv
  <2>1. ASSUME Init
        PROVE  HistInv
    <3>1. TagInv /\ FlagInv /\ NoHistory /\ ~Got
      BY <2>1 DEF Init, ClientInit, TagInv, FlagInv, NoHistory, EndsRead, EndsSent, HistoryQueued, HistoryTaken, Got,
                  Waits
    <3> QED BY <3>1 DEF HistInv, NoHistory, EndInv, RowInv, GotInv
  <2>2. ASSUME Init
        PROVE  StrayInv /\ PrintInv
    BY <2>2 DEF Init, ClientInit, StrayInv, Strays, RowsUnread, PrintInv, S!Init
  <2> QED BY <2>1, <2>2, TypeInit
<1>2. Inv /\ [Next]_vars => Inv'
  BY TypeStep, HistStep, StrayStep, PrintStep
<1>3. Inv => HistoryIsWhole
  <2> DEFINE rows == RowsIn(historyLines)
             printed == {i \in rows : shown[i]}
  <2>1. SUFFICES ASSUME TypeInv, HistInv, PrintInv, at = "print", Len(shown) = Len(historyLines)
                 PROVE  /\ {historyLines[i].place : i \in printed} = RowsSent(asked)
                        /\ \A i, k \in printed : i < k => historyLines[i].place < historyLines[k].place
    BY DEF HistoryIsWhole
  <2>2. Got
    BY <2>1 DEF Got, TypeInv, CallInv
  <2>3. ~waitingFor["history"]
    BY <2>1 DEF HistInv, FlagInv, Awaits
  <2>4. RowsComing = {} /\ RowsIn(incomingBuffer) = {} /\ Rising(historyLines)
        /\ Places(historyLines) \cup Places(incomingBuffer) = RowsSent(asked) \ RowsComing
    BY <2>1, <2>2, <2>3 DEF HistInv, GotInv, historyLines
  <2>5. DOMAIN shown = DOMAIN historyLines
    <3>1. shown \in Seq(BOOLEAN) /\ historyLines \in Seq(NetLine)
      BY <2>1, Lengths DEF TypeInv, TypeOK, ClientTypeOK, ThreadTypeOK, historyLines
    <3> QED BY <2>1, <3>1, LenProperties
  <2>6. printed = rows
    BY <2>1, <2>5 DEF PrintInv, RowsIn
  <2>7. Places(historyLines) = RowsSent(asked)
    BY <2>4 DEF Places
  <2> QED BY <2>4, <2>6, <2>7 DEF Places, Rising
<1> QED BY <1>1, <1>2, <1>3, PTL DEF Spec

=============================================================================
