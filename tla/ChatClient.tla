----------------------------- MODULE ChatClient -----------------------------
(***************************************************************************)
(* The chat client: class Client (Client.h, Client.cpp), over one          *)
(* connection that behaves as ChatSession promises.                        *)
(*                                                                         *)
(* Two threads share the members of Client: the main thread, which the     *)
(* menu drives (ClientMenu), and receiveMessages, which startThread        *)
(* detaches.  None of the members they share is protected: the mutexes     *)
(* history_mutex, private_history_mutex and users_mutex are taken by the   *)
(* main thread only.  A step is one system call, one test or change of a   *)
(* flag the other thread looks at, or one operation on a condition         *)
(* variable, with the local code up to the next.                           *)
(*                                                                         *)
(* Lines are whole, and a command arrives as a line: ChatWire is about     *)
(* the bytes.                                                              *)
(***************************************************************************)
EXTENDS Integers, Sequences, FiniteSets, SequencesExt

CONSTANTS
  Users,        \* logins the user may type
  NoLogin,      \* no login
  NoRequest,    \* no request
  Readers,      \* bound: threads of receiveMessages alive at a time
  MaxRequests,  \* bound: requests sent
  MaxEvents,    \* bound: chat lines of others, and the end by the server, per connection
  MaxRows,      \* bound: rows of a history
  RecentLimit   \* recentLimit

\* What the main thread may wait for: waitingForHistory with historyLines,
\* waitingForPrivateHistory with privateHistoryLines, waitingForUsers with usersResponse.
Waits == {"history", "private", "users"}

RequestOps == {"REGISTER", "AUTH", "ALL", "PRIVATE", "GET_USERS", "GET_HISTORY",
               "GET_PRIVATE", "EXIT"}

\* Requests are numbered (history).
Request == [op : RequestOps, login : Users \cup {NoLogin}, n : 1..MaxRequests]

ASSUME ClientAssumption ==
  /\ NoLogin \notin Users /\ NoRequest \notin Request
  /\ IsFiniteSet(Readers)
  /\ MaxRequests \in Nat /\ MaxEvents \in Nat /\ MaxRows \in Nat /\ RecentLimit \in Nat

VARIABLES status, queue, current, account, stream   \* the connection: ChatSession
S == INSTANCE ChatSession

VARIABLES
  origin,       \* history: the request each line of stream answers, 0 for chat
  taken,        \* lines of stream that recv has returned
  asked         \* requests sent so far

VARIABLES        \* members of Client
  clientSock,        \* clientSock # -1
  running,
  isThreadRunning,
  waitingFor,        \* the three flags
  answer,            \* historyLines, privateHistoryLines, usersResponse
  recentMessages,    \* the kind of each line
  incomingBuffer     \* complete lines that no loop has taken

VARIABLES        \* the threads
  rpc,           \* where each receiveMessages stands
  on,            \* the socket its recv waits on: the client's, or one that was closed
  at,            \* where the main thread stands; "menu": in no method of Client
  call,          \* what it asks and waits for, or "none"
  woken,         \* the condition variable it sleeps on was notified
  shown          \* requestHistory: which of historyLines it has printed, so far

linkVars   == <<status, queue, current, account, stream>>
netVars    == <<linkVars, origin, taken, asked>>
flagVars   == <<running, isThreadRunning, waitingFor>>
memberVars == <<clientSock, flagVars, answer, recentMessages, incomingBuffer>>
readerVars == <<rpc, on>>
mainVars   == <<at, call, woken, shown>>
clientVars == <<netVars, memberVars, readerVars, mainVars>>

\* The lines the server sends to this client.
LineKinds == {"REGISTER_SUCCESS", "REGISTER_FAILED", "AUTH_SUCCESS", "AUTH_FAILED", "EXPECTING",
              "UNKNOWN", "PRIVATE_FAILED", "private", "OFFLINE", "USERS", "END_OF_HISTORY",
              "PRIVATE_HISTORY_FAILED", "history", "public"}

\* A line as the client sees it, with the request it answers and its place in the stream
\* (history).
NetLine == [kind : LineKinds, of : 0..MaxRequests, place : Nat]

\* A thread about to notify a condition variable stands at its name.
ReaderPlaces == {"none", "test", "recv", "wait", "parse", "end"} \cup Waits
MainPlaces   == {"menu", "auth", "register", "started", "send", "test", "doze", "sleep",
                 "print", "exit"}

NetTypeOK ==
  /\ status \in {"open", "over"}
  /\ queue \in Seq(Request) /\ current \in Request \cup {NoRequest}
  /\ account \in Users \cup {NoLogin}
  /\ stream \in Seq(LineKinds) /\ origin \in Seq(0..MaxRequests) /\ Len(origin) = Len(stream)
  /\ taken \in 0..Len(stream) /\ asked \in 0..MaxRequests

MemberTypeOK ==
  /\ clientSock \in BOOLEAN /\ running \in BOOLEAN /\ isThreadRunning \in BOOLEAN
  /\ waitingFor \in [Waits -> BOOLEAN]
  /\ answer \in [Waits -> Seq(NetLine)]
  /\ recentMessages \in Seq(LineKinds) /\ Len(recentMessages) <= RecentLimit
  /\ incomingBuffer \in Seq(NetLine)

ThreadTypeOK ==
  /\ rpc \in [Readers -> ReaderPlaces] /\ on \in [Readers -> {"socket", "closed"}]
  /\ at \in MainPlaces /\ call \in Waits \cup {"none"} /\ woken \in BOOLEAN
  /\ shown \in Seq(BOOLEAN)

ClientTypeOK == NetTypeOK /\ MemberTypeOK /\ ThreadTypeOK

\* connectToServer in main() has succeeded.
ClientInit ==
  /\ status = "open" /\ queue = <<>> /\ current = NoRequest /\ account = NoLogin
  /\ stream = <<>> /\ origin = <<>> /\ taken = 0 /\ asked = 0
  /\ clientSock = TRUE /\ running = FALSE /\ isThreadRunning = FALSE
  /\ waitingFor = [w \in Waits |-> FALSE]
  /\ answer = [w \in Waits |-> <<>>]
  /\ recentMessages = <<>> /\ incomingBuffer = <<>>
  /\ rpc = [r \in Readers |-> "none"] /\ on = [r \in Readers |-> "socket"]
  /\ at = "menu" /\ call = "none" /\ woken = FALSE /\ shown = <<>>

-----------------------------------------------------------------------------
(* The far end *)

Unread == taken < Len(stream)

ChatLines == {i \in DOMAIN origin : origin[i] = 0}
RowsSent(n) == {i \in DOMAIN stream : origin[i] = n /\ stream[i] = "history"}

Untagged == UNCHANGED <<origin, taken, asked, memberVars, readerVars, mainVars>>
Tagged(n) == /\ origin' = Append(origin, n)
             /\ UNCHANGED <<taken, asked, memberVars, readerVars, mainVars>>

\* The server's thread of this connection handles what was asked.
ServerAnswers ==
  \/ (S!Take \/ S!Leave \/ S!Silent) /\ Untagged
  \/ ~S!Idle /\ Cardinality(RowsSent(current.n)) < MaxRows /\ S!Row /\ Tagged(current.n)
  \/ ~S!Idle /\ (\E kind \in S!Answers(current.op) : S!Answer(kind)) /\ Tagged(current.n)

\* Other clients write: to every connection, logged in or not.
OthersWrite ==
  /\ Cardinality(ChatLines) < MaxEvents
  /\ S!Chatter("public") /\ Tagged(0)

\* The server ends the connection; what was under way may be lost.
ServerCloses ==
  /\ Cardinality(ChatLines) < MaxEvents
  /\ \E n \in taken..Len(stream) : S!Close(n) /\ origin' = SubSeq(origin, 1, n)
  /\ UNCHANGED <<taken, asked, memberVars, readerVars, mainVars>>

-----------------------------------------------------------------------------
(* Socket calls *)

\* The next n lines to read.
Arrived(n) ==
  [i \in 1..n |-> [kind |-> stream[taken + i], of |-> origin[taken + i], place |-> taken + i]]

\* recv returns the lines got: any number of those that have arrived.
Recv(got) ==
  /\ taken' = taken + Len(got)
  /\ UNCHANGED <<linkVars, origin, asked>>

Receivable == {Arrived(n) : n \in 1..(Len(stream) - taken)}

\* recv returns 0: the far end has closed, and everything has been read.
RecvZero == status = "over" /\ ~Unread

\* Mutant: the receive timeout is not set.
RecvNeverTimesOut == FALSE

\* recv gives up after SO_RCVTIMEO, one second.
RecvTimesOut == status = "open" /\ ~Unread

\* send succeeds.  After the far end has closed, what is sent is lost.
Send(op, l) ==
  /\ clientSock /\ asked < MaxRequests
  /\ asked' = asked + 1
  /\ \/ S!Ask([op |-> op, login |-> l, n |-> asked'])
     \/ status = "over" /\ UNCHANGED linkVars
  /\ UNCHANGED <<origin, taken>>

\* send fails: on descriptor -1, or after the far end has closed.
SendFails == (~clientSock \/ status = "over") /\ UNCHANGED netVars

\* The client closes its end; nothing of the connection is seen any more.
HangUp ==
  /\ clientSock' = FALSE
  /\ status' = "over" /\ queue' = <<>> /\ current' = NoRequest /\ account' = NoLogin
  /\ stream' = <<>> /\ origin' = <<>> /\ taken' = 0
  /\ UNCHANGED asked

\* The process ends, with its threads and its memory: main returns, or connectToServer,
\* from ensureConnected, calls exit(1).
ProcessEnds ==
  /\ HangUp
  /\ at' = "exit" /\ call' = "none" /\ woken' = FALSE /\ shown' = <<>>
  /\ rpc' = [r \in Readers |-> "none"] /\ on' = [r \in Readers |-> "socket"]
  /\ running' = FALSE /\ isThreadRunning' = FALSE /\ waitingFor' = [w \in Waits |-> FALSE]
  /\ answer' = [w \in Waits |-> <<>>] /\ recentMessages' = <<>> /\ incomingBuffer' = <<>>

\* A second send after the far end has closed raises SIGPIPE.
SigPipe == at \in {"menu", "send"} /\ clientSock /\ status = "over" /\ ProcessEnds

\* connectToServer, from ensureConnected: a new connection, and the first request on it.
ConnectAndSend(op, l) ==
  /\ ~clientSock /\ asked < MaxRequests
  /\ clientSock' = TRUE
  /\ asked' = asked + 1
  /\ status' = "open" /\ current' = NoRequest /\ account' = NoLogin
  /\ queue' = <<[op |-> op, login |-> l, n |-> asked']>>
  /\ stream' = <<>> /\ origin' = <<>> /\ taken' = 0

Goto(place) == at' = place /\ UNCHANGED <<call, woken, shown>>
Return      == at' = "menu" /\ call' = "none" /\ woken' = FALSE /\ shown' = <<>>

-----------------------------------------------------------------------------
(* sendAUTH, sendRegister *)

Alive(r) == rpc[r] # "none"

\* To the end of send: "AUTH" from sendAUTH, "REGISTER" from sendRegister.  When send
\* fails they return at once and nothing has changed.
Apply(op, l, place) ==
  /\ \/ Send(op, l) /\ UNCHANGED clientSock
     \/ ConnectAndSend(op, l)
  /\ Goto(place)
  /\ UNCHANGED <<flagVars, answer, recentMessages, incomingBuffer, readerVars>>

\* sendAUTH looks at the first line of what one recv returned, and drops the others.
Accepts(got) == Head(got).kind = "AUTH_SUCCESS"

\* recv has failed: 0, or a timeout, when the answer may still come.
NothingCame == RecvZero \/ RecvTimesOut

\* The rest of sendAUTH, which returns ok.
AuthReturns(ok) ==
  /\ at = "auth"
  /\ \/ \E got \in Receivable : Recv(got) /\ ok = Accepts(got)
     \/ NothingCame /\ ~ok /\ UNCHANGED netVars

\* The rest of sendRegister: success is that one line and nothing after it.
RegisterReturns(ok) ==
  /\ at = "register"
  /\ \/ \E got \in Receivable :
          Recv(got) /\ ok = (Len(got) = 1 /\ Head(got).kind = "REGISTER_SUCCESS")
     \/ NothingCame /\ ~ok /\ UNCHANGED netVars
  /\ Return
  /\ UNCHANGED <<memberVars, readerVars>>

-----------------------------------------------------------------------------
(* startThread, logOut, disconnect *)

\* startThread: set running and start a receiveMessages, unless the flag says that
\* there is one.
StartThread ==
  IF isThreadRunning
  THEN /\ Return
       /\ UNCHANGED <<memberVars, readerVars>>
  ELSE /\ running' = TRUE
       /\ \E r \in Readers :
            ~Alive(r) /\ rpc' = [rpc EXCEPT ![r] = "test"]
       /\ Goto("started")
       /\ UNCHANGED <<clientSock, isThreadRunning, waitingFor, answer, recentMessages,
                      incomingBuffer, on>>

\* startThread, after the thread was started: isThreadRunning = true.
Started ==
  /\ at = "started"
  /\ isThreadRunning' = TRUE
  /\ Return
  /\ UNCHANGED <<netVars, clientSock, running, waitingFor, answer, recentMessages,
                 incomingBuffer, readerVars>>

\* Mutant: isThreadRunning is left to the thread.
StopsRunning == running' = FALSE /\ UNCHANGED isThreadRunning

\* logOut tells receiveMessages to end, and does not wait until it has.
StopsReceiving == running' = FALSE /\ isThreadRunning' = FALSE

\* logOut
LogOut ==
  /\ IF clientSock /\ running
     THEN Send("EXIT", NoLogin) \/ SendFails
     ELSE UNCHANGED netVars
  /\ StopsReceiving
  /\ UNCHANGED <<clientSock, waitingFor, answer, recentMessages, incomingBuffer,
                 readerVars, mainVars>>

\* disconnect: close.  A recv in progress goes on waiting on what was closed.
Disconnect ==
  /\ HangUp
  /\ on' = [r \in Readers |-> IF rpc[r] = "wait" THEN "closed" ELSE on[r]]
  /\ UNCHANGED <<flagVars, answer, recentMessages, incomingBuffer, rpc>>

-----------------------------------------------------------------------------
(* requestHistory, requestPrivateHistory, getListOfUsers *)

Command(w) ==
  CASE w = "history" -> "GET_HISTORY" [] w = "private" -> "GET_PRIVATE" [] w = "users" -> "GET_USERS"

\* Clear the answer and set the flag.
Expect(w) ==
  /\ asked < MaxRequests
  /\ answer' = [answer EXCEPT ![w] = <<>>]
  /\ waitingFor' = [waitingFor EXCEPT ![w] = TRUE]
  /\ at' = "send" /\ call' = w
  /\ UNCHANGED <<netVars, clientSock, running, isThreadRunning, recentMessages,
                 incomingBuffer, readerVars, woken, shown>>

\* Send the request; l is the other party of a private history.
SendRequest(l) ==
  /\ at = "send"
  /\ Send(Command(call), l)
  /\ Goto("test")
  /\ UNCHANGED <<memberVars, readerVars>>

\* The send fails: the call returns, and only getListOfUsers leaves its flag set.
RequestFails ==
  /\ at = "send"
  /\ SendFails
  /\ waitingFor' = [waitingFor EXCEPT ![call] = (call = "users")]
  /\ Return
  /\ UNCHANGED <<clientSock, running, isThreadRunning, answer, recentMessages,
                 incomingBuffer, readerVars>>

InWait(place) == at = place /\ UNCHANGED <<netVars, memberVars, readerVars>>

\* condition_variable::wait: test the flag,
StillWaiting == InWait("test") /\ waitingFor[call] /\ Goto("doze")

\* then go to sleep; a notification before this step wakes nobody.
FallAsleep == InWait("doze") /\ at' = "sleep" /\ woken' = FALSE /\ UNCHANGED <<call, shown>>

\* A notification wakes it, to test again;
Wake == InWait("sleep") /\ woken /\ Goto("test")

\* it may also wake up without one.
WakeSpuriously == InWait("sleep") /\ ~woken /\ Goto("test")

\* requestHistory, requestPrivateHistory: the wait is over.
HistoryArrives ==
  /\ InWait("test") /\ call # "users" /\ ~waitingFor[call]
  /\ IF call = "history" THEN Goto("print") ELSE Return

historyLines == answer["history"]

\* Whether recentMessages, as it is now, may hold this very line.  Two lines of one kind
\* are the same or not; a row, "[date] sender: ", is not a line of chat, "[date] [sender] "
\* or "[date] [sender -> receiver]: " (no login here begins with a bracket).
MayBeRecent(line) == \E i \in DOMAIN recentMessages : recentMessages[i] = line.kind

\* requestHistory prints the next of historyLines, unless it finds it in recentMessages.
PrintLine ==
  /\ at = "print" /\ Len(shown) < Len(historyLines)
  /\ \E found \in BOOLEAN :
       /\ found => MayBeRecent(historyLines[Len(shown) + 1])
       /\ shown' = Append(shown, ~found)
  /\ UNCHANGED <<netVars, memberVars, readerVars, at, call, woken>>

\* It has been through all of them.
HistoryPrinted == InWait("print") /\ Len(shown) = Len(historyLines) /\ Return

\* Mutant: wait without a time limit.
WaitForEver == FALSE

\* wait_for wakes up after five seconds, and looks at the flag for the last time.
WaitTimesOut == at = "sleep"

\* getListOfUsers returns, with a list or with none; it gives up with the flag set.
UsersReturn(found) ==
  /\ call = "users"
  /\ (at = "test" /\ ~waitingFor[call]) \/ WaitTimesOut
  /\ found = (~waitingFor[call] /\ \E i \in DOMAIN answer[call] : answer[call][i].kind = "USERS")
  /\ Return
  /\ UNCHANGED <<netVars, memberVars, readerVars>>

-----------------------------------------------------------------------------
(* receiveMessages *)

SetRpc(r, place) == rpc' = [rpc EXCEPT ![r] = place]

ReaderOnly == UNCHANGED <<netVars, memberVars, mainVars>>

\* while (running)
TestRunning(r) ==
  /\ rpc[r] = "test"
  /\ SetRpc(r, IF running THEN "recv" ELSE "end")
  /\ ReaderOnly /\ UNCHANGED on

\* recv on whatever clientSock is by now; on -1 it fails at once.
CallRecv(r) ==
  /\ rpc[r] = "recv"
  /\ SetRpc(r, IF clientSock THEN "wait" ELSE "end")
  /\ ReaderOnly /\ UNCHANGED on

\* recv returns lines.
ReadLines(r) ==
  /\ rpc[r] = "wait" /\ on[r] = "socket"
  /\ \E got \in Receivable :
       Recv(got) /\ incomingBuffer' = incomingBuffer \o got
  /\ SetRpc(r, "parse")
  /\ UNCHANGED <<clientSock, flagVars, answer, recentMessages, on, mainVars>>

\* A recv that waits on the closed socket may still return a line: chat, or the answer
\* to a GET_USERS that was given up.
ReadClosed(r) ==
  /\ rpc[r] = "wait" /\ on[r] = "closed"
  /\ \E kind \in {"public", "USERS"} :
       incomingBuffer' = Append(incomingBuffer, [kind |-> kind, of |-> 0, place |-> 0])
  /\ SetRpc(r, "parse") /\ on' = [on EXCEPT ![r] = "socket"]
  /\ UNCHANGED <<netVars, clientSock, flagVars, answer, recentMessages, mainVars>>

\* recv times out: once more round the loop.
ReadNothing(r) ==
  /\ rpc[r] = "wait"
  /\ on[r] = "closed" \/ RecvTimesOut
  /\ SetRpc(r, "test") /\ on' = [on EXCEPT ![r] = "socket"]
  /\ ReaderOnly

\* recv returns 0.
ReadEnd(r) ==
  /\ rpc[r] = "wait" /\ on[r] = "socket" /\ RecvZero
  /\ SetRpc(r, "end")
  /\ ReaderOnly /\ UNCHANGED on

\* Mutant: waitingForUsers is looked at first.
WaiterUsersFirst == <<"users", "history", "private">>

\* The order in which the flags are looked at.
WaiterOrder == <<"history", "private", "users">>

\* The flags that are set.
Flagged == {i \in DOMAIN WaiterOrder : waitingFor[WaiterOrder[i]]}

\* Whom the next line is for, if a flag is set: the first.
Waiter == WaiterOrder[Min(Flagged)]

\* Mutant: pop_front is missing.
KeepAll(s) == s

\* recentMessages is kept to recentLimit lines.
KeepRecent(s) == IF Len(s) > RecentLimit THEN Tail(s) ELSE s

\* The loop over incomingBuffer takes the next line: it ends a history or is part of
\* one, it is the answer USERS, or it is a chat line.
TakeLine(r) ==
  /\ rpc[r] = "parse" /\ incomingBuffer # <<>>
  /\ incomingBuffer' = Tail(incomingBuffer)
  /\ LET line == Head(incomingBuffer)
         w == Waiter
         ends == w = "users" \/ line.kind = "END_OF_HISTORY"
     IN IF Flagged = {}
        THEN /\ recentMessages' = KeepRecent(Append(recentMessages, line.kind))
             /\ UNCHANGED <<answer, waitingFor, rpc>>
        ELSE /\ answer' = [answer EXCEPT ![w] =
                  IF w = "users" THEN <<line>> ELSE IF ends THEN @ ELSE Append(@, line)]
             /\ waitingFor' = [waitingFor EXCEPT ![w] = ~ends]
             /\ IF ends THEN SetRpc(r, w) ELSE UNCHANGED rpc
             /\ UNCHANGED recentMessages
  /\ UNCHANGED <<netVars, clientSock, running, isThreadRunning, on, mainVars>>

\* notify_one wakes the main thread if it sleeps on that condition variable.
Notify(r) ==
  /\ rpc[r] \in Waits
  /\ SetRpc(r, "parse")
  /\ woken' = (woken \/ (at = "sleep" /\ call = rpc[r]))
  /\ UNCHANGED <<netVars, memberVars, on, at, call, shown>>

\* No complete line is left: back to while (running).
Parsed(r) ==
  /\ rpc[r] = "parse" /\ incomingBuffer = <<>>
  /\ SetRpc(r, "test")
  /\ ReaderOnly /\ UNCHANGED on

\* The thread ends; nobody who waits for an answer is told.
ThreadEnds(r) ==
  /\ rpc[r] = "end"
  /\ SetRpc(r, "none")
  /\ isThreadRunning' = FALSE
  /\ UNCHANGED <<netVars, clientSock, running, waitingFor, answer, recentMessages,
                 incomingBuffer, on, mainVars>>

ReaderStep(r) ==
  \/ TestRunning(r) \/ CallRecv(r) \/ ReadLines(r) \/ ReadClosed(r) \/ ReadNothing(r)
  \/ ReadEnd(r) \/ TakeLine(r) \/ Notify(r) \/ Parsed(r) \/ ThreadEnds(r)

=============================================================================
