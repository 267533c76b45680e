----------------------------- MODULE ClientMenu -----------------------------
(***************************************************************************)
(* The client program: main() of client_main.cpp and class Menu            *)
(* (Menu.cpp), which calls the methods of ChatClient on the main thread in *)
(* the order the user chooses, and the properties of the whole client.     *)
(***************************************************************************)
EXTENDS ChatClient

VARIABLES
  screen,        \* "main": RunMenu; "user": UserMenu; "public", "private": the chats
  current_user,  \* the current logged-in user
  typed,         \* handleLogin: the login the user typed
  partner,       \* handlePrivateChat: the receiver
  purpose        \* getListOfUsers was called to "list" or to "select"; "open": selected

menuVars == <<screen, current_user, typed, partner, purpose>>
vars == <<clientVars, menuVars>>

TypeOK ==
  /\ ClientTypeOK
  /\ screen \in {"main", "user", "public", "private"}
  /\ {current_user, typed, partner} \subseteq Users \cup {NoLogin}
  /\ purpose \in {"list", "select", "open"}

Init ==
  /\ ClientInit
  /\ screen = "main"
  /\ current_user = NoLogin /\ typed = NoLogin /\ partner = NoLogin
  /\ purpose = "list"

\* The main thread is in no call, and the user may choose.
AtMenu(s) == at = "menu" /\ purpose # "open" /\ screen \in s

MenuUnchanged == UNCHANGED menuVars

-----------------------------------------------------------------------------
(* RunMenu *)

\* 1: handleLogin
Login(u) ==
  /\ AtMenu({"main"})
  /\ \E r \in Readers : ~Alive(r)
  /\ Apply("AUTH", u, "auth")
  /\ typed' = u
  /\ UNCHANGED <<screen, current_user, partner, purpose>>

\* handleLogin: the thread is started once sendAUTH has succeeded.
LoggedIn ==
  /\ AuthReturns(TRUE)
  /\ current_user' = typed /\ screen' = "user"
  /\ StartThread
  /\ typed' = NoLogin
  /\ UNCHANGED <<partner, purpose>>

LoginFails ==
  /\ AuthReturns(FALSE)
  /\ Return
  /\ typed' = NoLogin
  /\ UNCHANGED <<memberVars, readerVars, screen, current_user, partner, purpose>>

\* 2: handleRegistration
Register(u) == AtMenu({"main"}) /\ Apply("REGISTER", u, "register") /\ MenuUnchanged

\* 3, and the end of main; or 1 or 2, when ensureConnected cannot connect.
ExitProgram == AtMenu({"main"}) /\ ProcessEnds /\ MenuUnchanged

-----------------------------------------------------------------------------
(* UserMenu, and the commands of the chats *)

\* Entering the public chat loads its history.
PublicChat ==
  /\ AtMenu({"user"})
  /\ Expect("history")
  /\ screen' = "public"
  /\ UNCHANGED <<current_user, typed, partner, purpose>>

\* 3 of UserMenu, /history
ShowHistory ==
  \/ AtMenu({"user", "public"}) /\ Expect("history") /\ MenuUnchanged
  \/ AtMenu({"private"}) /\ Expect("private") /\ MenuUnchanged

\* 4 of UserMenu, /users; handlePrivateChat asks for the list to select from.
ShowUsers(why) ==
  /\ AtMenu(IF why = "list" THEN {"user", "public"} ELSE {"user"})
  /\ clientSock /\ Expect("users")
  /\ purpose' = why
  /\ UNCHANGED <<screen, current_user, typed, partner>>

\* handlePrivateChat, with the list: select somebody else, or nobody.
UsersArrive(found) ==
  /\ UsersReturn(found)
  /\ \/ /\ found /\ purpose = "select"
        /\ partner' \in Users \ {current_user}
        /\ purpose' = "open"
     \/ purpose' = "list" /\ UNCHANGED partner
  /\ UNCHANGED <<screen, current_user, typed>>

PrivateChat ==
  /\ purpose = "open" /\ at = "menu"
  /\ Expect("private")
  /\ purpose' = "list" /\ screen' = "private"
  /\ UNCHANGED <<current_user, typed, partner>>

\* sendToAll, and sendPrivate: the first word after PRIVATE, which the server takes
\* for the receiver, is the sender.  The result is ignored.
Say ==
  /\ \/ AtMenu({"public"}) /\ (Send("ALL", NoLogin) \/ SendFails)
     \/ AtMenu({"private"}) /\ (Send("PRIVATE", current_user) \/ SendFails)
  /\ UNCHANGED <<memberVars, readerVars, mainVars>> /\ MenuUnchanged

\* /exit
LeaveChat ==
  /\ AtMenu({"public", "private"})
  /\ screen' = "user" /\ partner' = NoLogin
  /\ UNCHANGED <<clientVars, current_user, typed, purpose>>

\* /quit
Quit ==
  /\ AtMenu({"public"})
  /\ Disconnect
  /\ screen' = "user"
  /\ UNCHANGED <<mainVars, current_user, typed, partner, purpose>>

\* 5: logOut
Leave ==
  /\ AtMenu({"user"})
  /\ LogOut
  /\ screen' = "main" /\ current_user' = NoLogin
  /\ UNCHANGED <<typed, partner, purpose>>

-----------------------------------------------------------------------------
(* The specification *)

\* What the main thread does by itself.
MainStep ==
  \/ LoggedIn \/ LoginFails
  \/ (\E ok \in BOOLEAN : RegisterReturns(ok)) /\ MenuUnchanged
  \/ (Started \/ SendRequest(IF call = "private" THEN partner ELSE NoLogin)) /\ MenuUnchanged
  \/ (RequestFails \/ StillWaiting \/ FallAsleep \/ Wake \/ HistoryArrives) /\ MenuUnchanged
  \/ (PrintLine \/ HistoryPrinted) /\ MenuUnchanged
  \/ \E found \in BOOLEAN : UsersArrive(found)
  \/ PrivateChat

User ==
  \/ \E u \in Users : Login(u) \/ Register(u)
  \/ ExitProgram \/ PublicChat \/ ShowHistory \/ Say \/ LeaveChat \/ Quit \/ Leave
  \/ \E why \in {"list", "select"} : ShowUsers(why)

Outside == OthersWrite \/ ServerCloses \/ WakeSpuriously \/ SigPipe

Next ==
  \/ MainStep \/ User
  \/ (ServerAnswers \/ Outside) /\ MenuUnchanged
  \/ \E r \in Readers : ReaderStep(r) /\ MenuUnchanged

Spec == Init /\ [][Next]_vars

\* The operating system schedules the threads and their time-outs, and the server
\* its thread; nobody obliges the user or the other clients to do anything.  The
\* deadline of wait_for is fixed when it is called: waking up early does not move it.
Fairness ==
  /\ WF_vars(MainStep) /\ SF_vars(\E found \in BOOLEAN : UsersArrive(found))
  /\ WF_vars(ServerAnswers /\ MenuUnchanged)
  /\ \A r \in Readers : WF_vars(ReaderStep(r) /\ MenuUnchanged)

FairSpec == Spec /\ Fairness

-----------------------------------------------------------------------------
(* Properties *)

LoggedInScreens == {"user", "public", "private"}

\* The login the user typed is the account that is logged in: while the menu of a
\* logged-in user is shown and the connection stands, the session at the server is that
\* of current_user.  sendAUTH takes whatever line comes first for its answer.
CurrentUserIsLoggedIn ==
  screen \in LoggedInScreens /\ clientSock /\ status = "open" => account = current_user

\* A private message goes to the partner of the chat it is typed in: the word after
\* PRIVATE, which handlePrivateMessage takes for the receiver, is the receiver's login.
PrivateGoesToPartner ==
  [][Len(queue') > Len(queue) /\ Last(queue').op = "PRIVATE" => Last(queue').login = partner]_vars

\* The rows in lines that answer the last request.
RowsIn(lines) == {i \in DOMAIN lines : lines[i].kind = "history" /\ lines[i].of = asked}

\* Once requestHistory is through, it has printed every row the server sent for this very
\* request, in order and once, whichever chat lines and late answers came in between and
\* whatever recentMessages held meanwhile: the filter that is to drop what was seen as
\* chat drops no row.
HistoryIsWhole ==
  at = "print" /\ Len(shown) = Len(historyLines) =>
    LET printed == {i \in RowsIn(historyLines) : shown[i]}
    IN /\ {historyLines[i].place : i \in printed} = RowsSent(asked)
       /\ \A i, k \in printed : i < k => historyLines[i].place < historyLines[k].place

\* Whoever waits for an answer has a receiveMessages reading the socket, as long as
\* the connection stands: startThread has started one and it has not ended.
WaiterHasReader ==
  at \in {"test", "doze", "sleep"} /\ waitingFor[call] /\ status = "open"
    => \E r \in Readers : Alive(r) /\ rpc[r] # "end"

\* Every call under a time-out comes back, whatever the server and the reader do.
TimedCall == at \in {"auth", "register"} \/ (call = "users" /\ at \in {"send", "test", "doze", "sleep"})
TimedCallsReturn == TimedCall ~> ~TimedCall

\* logOut makes receiveMessages end, unless the user logs in again.
LoggedOutReaderEnds == ~running ~> (running \/ \A r \in Readers : ~Alive(r))

\* requestHistory comes back: no wait of the client is for ever.
HistoryReturns ==
  (call = "history" /\ at \in {"test", "doze", "sleep"}) ~> (at \in {"menu", "print", "exit"})

=============================================================================
