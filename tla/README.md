# Verification of ConsoleChat (TCP)

TLA+ models of the chat of this repository, TLC runs over small instances, and
theorems checked by TLAPS for every value of the constants. Paths below are
relative to the repository root. Line numbers of every definition are in
`PROJECT.json` under `map`; the open hazards are there under `hazards`.

## 1. The system

| component | state | operations |
| --- | --- | --- |
| **ChatDB** `src/chat_server_tcp/Database.*` | SQLite tables `users` (login UNIQUE, argon2 hash), `messages` (sender id, receiver id or NULL, text, timestamp of one second), `logs`; one mutex held for the whole of every public method | `getUserId`, `addUser`, `verifyUser`, `addMessage`, `getPublicMessages`, `getMessages`, `getUserList`, `getUserMessages`, `logAction` |
| **Server** `src/chat_server_tcp/Server.*` | `clientSockets` (vector of descriptors), `clientLogins` (descriptor to login), both under `clientsMutex`; per connection a detached thread with the locals `clientSocket`, `authorized`, `login`, `lineBuffer`; the descriptor table of the process | constructor (seeds `admin`), `run` (accept loop), `handleClient` and one handler per command, `broadcastMessage`, `privateMessage`, `closeClients`, `send_line` |
| **Client** `src/chat_client_tcp/Client.*` | one socket; `running`, `isThreadRunning`, `waitingForHistory`, `waitingForPrivateHistory`, `waitingForUsers`, result buffers, `recentMessages`, `incomingBuffer`; three mutexes with condition variables that the receiver never locks | `sendRegister`, `sendAUTH`, `sendToAll`, `sendPrivate`, `getListOfUsers`, `requestHistory`, `requestPrivateHistory`, `startThread`, `receiveMessages`, `logOut`, `disconnect` |
| **Menu** `src/Menu.cpp` | `current_user`, `RunMenubool` | the two menu loops: which `Client` calls come in which order |
| helpers, `main` programs, tests, build files | none that matters | console I/O, start-up |

**Interactions.** Menu calls Client on the main thread. Client talks to Server
over one TCP connection, with one receiver thread beside the main thread. Server
runs one thread per connection; the threads share the two maps (mutex), ChatDB
(its own mutex) and the descriptor table of the process, which nothing protects.
A thread may send to, unregister and *close* the socket of another thread's
client: `broadcastMessage` and `privateMessage` call `closeClients` for every
target whose `send` failed.

**What is hard here.**

- Every handler is several critical sections: look up, insert, copy the targets,
  send one by one, clean up. Anything may happen between two of them.
- A descriptor number is a name that can change its meaning. It is copied into
  locals (`clientSocket`, `targets`, `receiverSocket`) and used later; another
  thread may have closed it, and `accept` may have given it to a new client.
- The process may end at any point: killed, by an exception in a detached thread
  (`substr(12)` on a bare `GET_PRIVATE`), by SIGPIPE. What was inserted stays.
- A `send` may fail, succeed for a peer that is already gone, or block for ever.
- Histories are ordered by a clock of one second that may be set back.
- In the client: flags shared by two threads without a lock, answers that arrive
  after the wait for them has timed out, chat lines between the lines of an
  answer, a logout that leaves the old receiver thread alive.

**What makes each component correct.**

- ChatDB: logins are unique; each message is in exactly one history, never leaves
  it, and never changes its place; private messages are never public rows.
- Server: success of a registration is told once and is true; the maps agree with
  the threads and with the open sockets; a stored message names an author who
  proved the password; a private line reaches its two parties only; lines of one
  author arrive in order, once, not at the author; nothing falls between history
  and live; what was shown survives a crash; a broadcast reaches everybody who
  stays; connections that ended are cleaned up.
- Client: a history that is printed is the one that was asked for, whole; calls with a
  time-out come back; somebody reads for whoever waits. That the account shown is the one
  logged in, that no request waits for ever and that a private message goes to its receiver
  are wanted too, and do not hold (section 3).
- Between them: every command is handled once and whole, every line arrives whole.

## 2. Modules

| module | models | state and actions |
| --- | --- | --- |
| `ChatDB` | class ChatDB | `users`, `messages` as sequences (row id = position), `clock`; one operator per method. A method holds the mutex throughout, so it is one atomic step |
| `ChatServer` | class Server, its threads and descriptors, and the peers' ends of the connections | see below |
| `ChatServerProperties` | what ChatServer has to guarantee | no state of its own |
| `ChatSession` | abstract: what one connection is promised | the requests sent and not taken up, the one being handled, the account, the kinds of the lines sent |
| `ChatServerSessions` | ChatServer implements `ChatSession` on every connection | the refinement mapping `Session(c)` |
| `ChatClient` | class Client, over a connection that keeps `ChatSession` | see below |
| `ClientMenu` | `main` of the client and class Menu; the properties of the client | the screen, `current_user`, and which method of Client is called next |
| `ChatWire` | the bytes of one connection | see below |
| `MCChatDB`, `MCChatServer`, `MCClientMenu`, `MCChatWire` | instances for TLC | command sets, initial databases, threads |
| `ChatServerProofs` | theorem: type correctness of the server | |
| `ChatStoreProofs` | theorems: the tables, the histories and what clients are told about them | extends `ChatServerProofs` |
| `ChatEchoProofs` | theorem: no client gets its own public line back | extends `ChatStoreProofs` |
| `ChatOwnerProofs` | theorems: who owns a descriptor number, and what depends on it | extends `ChatEchoProofs` |
| `ChatOrderProofs` | theorems: order and completeness of the public lines | extends `ChatOwnerProofs` |
| `ChatSessionProofs` | theorem: ChatServer implements `ChatSession` | extends `ChatServerSessions`, `ChatOrderProofs` |
| `ChatWireProofs` | theorems: type correctness, commands and lines arrive whole | extends `ChatWire` |
| `ClientMenuProofs` | theorems about the client | extends `ClientMenu` |

The parts meet at `ChatSession`. ChatServer has many connections and shows that each
keeps it (`SessionsKept`); ChatClient has one connection and relies on nothing else.
ChatWire says when a connection that carries bytes may be taken for one that carries
commands and lines.

### ChatServer

A connection `c` also names the thread that `run` starts for it. `pc[c]` is the
place in the code; a step is one critical section, one database call or one
system call together with the local code up to the next one:

| `pc` | the thread is about to | actions |
| --- | --- | --- |
| `recv` / `wait` | take a line from `lineBuffer` or call `recv` / return from it | `CallRecv`, `RecvData`, `RecvEnd`, and the first step of every command |
| `addUser` | insert, having found the login free | `Register` then `AddUserStep` |
| `publish` | enter its login in `clientLogins` | `Authorize` then `Publish` |
| `snapshot` | copy the broadcast targets | `StorePublic` then `Snapshot` |
| `store`, `route`, `notice` | insert, find the receiver's socket, tell the sender nobody got it | `CheckReceiver`, `StorePrivate`, `Route`, `Notice` |
| `send` | call `send_line` for the first of `out[c]` | `SendNext`, `SigPipe` |
| `erase`, `close` | the two halves of `closeClients` for the first of `failed[c]` | `Erase`, `Close` |

`fdTable` says which connection a descriptor number refers to. `Accept` takes the
lowest free number, as POSIX prescribes; a `recv` in progress keeps the connection
it was called on (`reading`), as the kernel does; `send` and a new `recv` resolve
the number again. `wire[k]` is everything sent to the peer of `k`, `authed[k]` the
logins whose password that peer proved: history variables for the properties.
`Terminate` is the end of the process, by `Kill`, `SigPipe` or `GetPrivateThrows`;
the database survives it and `Start` runs the constructor again.

Data is abstracted to what the properties tell apart: a message body is the
identity of the line it came from, a password is verified by the hash of itself
only, `LegacyHash` stands for a stored hash without the `$argon2` prefix, a command
is its kind with the fields its handler looks at.

Two assumptions are constants, so that runs can show what depends on them:

- `ReuseHeld`: TRUE is what POSIX does. FALSE restricts `Accept` to numbers that no
  live thread holds in a local variable. The code does nothing to ensure that; the
  runs `MCReuseAuthor` and `MCReusePrivate` show what happens without it.
- `DbFaults`: a statement may fail, as the code's error paths expect.

### ChatSession

On one connection requests are taken up in the order sent, each is answered, whole and
by its own kind of answer, before the next; an account is needed for all but `REGISTER`
and `AUTH`, and is the one the last successful `AUTH` named; chat lines of others may
come at any place, before a login too, and nothing else does. The mapping reads the
request queue off the line buffer and the socket, the request being handled off the
thread's place and locals, and the stream off `wire`. Broadcasts of other handlers are
`Chatter` of this connection, steps about other connections are stutters.

### ChatClient and ClientMenu

The main thread stands at `at`, each `receiveMessages` at `rpc[r]`; a step is one system
call, one test or change of a flag that the other thread looks at, or one operation on a
condition variable. `waitingFor` and `answer` stand for the three flags and what they
wait for.

| `at` | the main thread | actions |
| --- | --- | --- |
| `menu` | is in no method of Client: the user chooses | `Login`, `Register`, `PublicChat`, `ShowHistory`, `ShowUsers`, `Say`, `Quit`, `Leave`, ... |
| `auth`, `register` | waits in `recv` | `LoggedIn`, `LoginFails`, `RegisterReturns` |
| `started` | has started the thread and not yet set `isThreadRunning` | `Started` |
| `send` | has set a flag and not yet sent the request | `SendRequest`, `RequestFails` |
| `test`, `doze`, `sleep` | looks at the flag; has found it set; sleeps | `StillWaiting`, `FallAsleep`, `Wake`, `WakeSpuriously`, `HistoryArrives`, `UsersArrive` |
| `print` | goes through `historyLines`, while the receiver goes on | `PrintLine`, `HistoryPrinted` |

The receiver's places `test`, `recv`, `wait`, `parse`, the name of a condition variable
it is about to notify, and `end` are the statements of `receiveMessages`. `notify_one`
sets `woken` only if the main thread is at `sleep`: a wakeup between `doze` and `sleep`
is lost, because the receiver holds no mutex. A `recv` that is under way when the socket
is closed goes on waiting for what was closed, until its time-out (`on`).

`requestHistory` prints each line of `historyLines` unless it finds the same line in
`recentMessages` as they are at that moment; `shown` is what it decided. In the model a line
is its kind, with what it answers: a line of chat may be the same as another of chat or not,
and a row of a history is never the same as one, because the two are formatted differently.

Other clients' lines come at any time, before a login too; the server may end the connection
at any point (`MaxEvents` bounds both). A new receiver is started only when one of `Readers`
is free: with one, a login waits until the last receiver has ended.

### ChatWire

One connection, a byte a member of a small set. `ServerRecv` and `ServerLine` are the two
nested loops of `handleClient`; `StartLine` and `SendSome` are `send_line`, which several
threads may be in, with a `send` that takes any part of what is left; `AuthRecv` reads as
`sendAUTH` does, `ClientRecv` and `ClientLine` as `receiveMessages`, which takes a CR off the end
of a line; a `recv`, here as in ChatServer, may return any part of what has arrived. `Newline` says
whether the client ends its commands with a newline. It does not; the server and the
README of the repository expect it, so that the other modules, and `MCWire`, are about
a client that does, and `MCShipped` is about the one there is.

## 3. Runs

Every bound is a constant of the cfg. Deadlock is not checked for the server, the client
and the wire: with the bounds on lines, starts and requests used up they come to rest.

| run | asks | instance |
| --- | --- | --- |
| `MCSessions` | `SocketsAreOpen`, `SessionAgreement`, `LoginsHaveHandlers`, `AuthorIsAuthenticated`, `PrivateReachesParties`, `NoSelfEcho`, `PerSenderOrder` | three connections over two numbers, so that the third takes over a number; login, wrong password, two lines to all, `PRIVATE`, `EXIT`; failing sends and statements; `ReuseHeld = FALSE` |
| `MCCrash` | `TypeOK`, `RegistrationExclusive`, `HistoriesPartition`, `StoredBeforeSent`, `PrivateStaysPrivate`, `HistoriesGrow`, `SessionsKept` | every command from two clients, which may race to register one login, one of them twice and with an incomplete line among the attempts; the author may leave at any point; the end of the process at every point in all three ways, and a restart |
| `MCLive` | `NoGap`, `BroadcastCompletes`, `DepartedAreCleaned` | an author, a listener that may leave in the middle of a broadcast, a reader that loads the history at any point, a moving clock, under `FairSpec` |
| `MCClient` | `TypeOK`, `HistoryIsWhole`, `WaiterHasReader`, `TimedCallsReturn`, `LoggedOutReaderEnds` | a client with two logins to choose from that sends three requests, a history of at most two rows, one chat line or the end of the connection, at any point, reconnection; under `FairSpec` |
| `MCWire` | `TypeOK`, `CommandsWhole`, `LinesWhole`, `CommandsHandled` | three commands (`AUTH`, then any of a short, an empty and two longest ones, with and without CR), a second writer whose line ends in a CR, `recv` of at most three bytes; under `FairSpec` |
| `MCReuseAuthor` | `AuthorIsAuthenticated`, violated | `MCSessions` with `ReuseHeld = TRUE` |
| `MCReusePrivate` | `PrivateReachesParties`, violated | the same, without failing sends |
| `MCShipped` | `CommandsHandled`, violated | `MCWire` with `Newline = FALSE` |
| `MCHang` | `HistoryReturns`, violated | `MCClient` with a server that does not close and no chat |
| `MCLateLogin` | `CurrentUserIsLoggedIn`, violated | the same, two requests |
| `MCPrivateTo` | `PrivateGoesToPartner`, violated | the same, four requests |
| `MCPartners` | `EveryPartnerListed`, violated | ChatDB alone: three users, three messages, a clock with two values |

The violations, as listed under `findings`:

- `MCReuseAuthor`. A broadcast to a client that has left fails, and the *sender's*
  thread closes that client's descriptor while the client's own thread is between
  two `recv` calls. A new client gets the number; the old thread's next `recv` reads the
  new client's line and handles it with the login of the client that left.
- `MCReusePrivate`. `privateMessage` looks the receiver's descriptor up and releases
  the mutex; the receiver's thread closes it, a new client gets the number, and the
  private line goes to it. This needs no failed send.
- `MCShipped`. `AUTH` without a newline stays in `lineBuffer`; `sendAUTH` times out; the
  next attempt is appended to it. No command of the shipped client is ever handled, so
  what the other client runs show needs a client that sends the newline.
- `MCHang`. The receiver takes `END_OF_HISTORY` after `requestHistory` has found the flag
  set and before it sleeps. The answer is complete and nobody is told; `wait` has no
  time-out. The same happens when the connection ends during the wait.
- `MCLateLogin`. `AUTH` of one login is answered after the second has passed; the user
  tries another login, and the late `AUTH_SUCCESS` is taken for its answer. The menu shows
  the second user, the server has the first. A chat line taken for the answer makes
  `sendAUTH` give up and leaves the answer to the next login in the same way.
- `MCPrivateTo`. The client sends `PRIVATE <sender> <receiver> <text>`, the server takes
  the first word for the receiver: the message comes back to the one who typed it.
- `MCPartners`. `getUserMessages` takes `MAX` without `GROUP BY` in each arm of its UNION,
  which leaves one row per direction; `Database.h` promises the list of partners.

What changing one constant of a run shows, beyond the listed runs:

- `MCLive` with a listener in `Stalled`: `BroadcastCompletes` fails. Sends are blocking and
  in order: one client that does not read holds up the author's thread and every later
  target.
- `MCCrash` with `ReuseHeld = TRUE`: `SessionsKept` fails. A handler whose send to its own
  client failed closes the socket and sends the offline notice to whoever has the number.

**Fairness.** `FairSpec` of the server has weak fairness of each connection's thread and
of `run` between `accept` and the start of the thread: the operating system schedules
runnable threads. Of the peers it is assumed that they read (`Stalled = {}`), so
that no `send` blocks, and nothing else: they may never send, never leave, never connect.
`MCLive` therefore says: as long as every peer reads, a line handed to
`broadcastMessage` reaches each target or that target's peer has left; and a socket
whose peer has left is closed, forgotten, and its thread ended.

`FairSpec` of the client has weak fairness of the two threads (a time-out of `recv` is a
step of the thread in it) and of the server's thread, and strong fairness of the end of
`getListOfUsers`: the deadline of `wait_for` is fixed when it is called, so that early
wakeups cannot put it off for ever. The user, the other clients and the closing of the
connection are not fair. `FairSpec` of the wire has weak fairness of `handleClient` and of
each `send_line`; that a `send` is not blocked for ever is assumed there and not elsewhere.

**Why the bounds are enough.** The hazards of the server involve at most an author, a
target that leaves, and one connection that takes over a number or loads the history:
three connections. One line to log in and one or two to act are what each role needs
(three in `MCSessions`, whose author writes two lines), and two starts give one restart. A
clock with two values (`MCLive`, `MCPartners`) gives ties and a clock set back. It stands still
elsewhere: `MCCrash` checks `HistoriesGrow` for rows of one second, and the theorem
`HistoriesKept` has the clock move as it likes. `Leaving` names the peers that may close, one or two so that somebody stays. Two descriptor numbers for three connections force
reuse; three avoid it where it is not the subject. The client's three requests are a login
and two calls, so that a late answer to one meets the other, or a login, a logout and a
login; in a private chat the third is the history, and what is said there is sent only
after the connection has ended. Two rows, a chat
line and a foreign answer show whether a row of a history is lost, repeated, out of place or
not of it; `recentMessages` keeps one line, so that the second overflows it. One receiver at a
time (`Readers`) leaves out a login within the second in which an old receiver is still ending;
the theorems about the client have any number. On the wire a line of two bytes has every kind of cut, and
`recv` of three bytes may span two commands.

## 4. Proofs

Every invariant, every action property and the refinement that a passing run checks is a
theorem about `Spec` with arbitrary constants: any number of connections, descriptors,
lines and restarts, any command sets; any number of rows, requests and receiver threads
for the client; any bytes, lengths and writers for the wire.

**Assumptions.** `DbAssumption`, `ServerAssumption`, `ClientAssumption` and
`WireAssumption`: the placeholders differ from the things they stand in for, commands
have their shape, the initial database has no duplicate login (its UNIQUE column), the
sets of threads are finite, `AUTH` is not empty, fits a line and does not end in CR, and no
byte of a command or line is a newline. Two things more are
needed by some theorems, which say so: those about ownership of a descriptor number, and
`SendersInOrder`, `NothingMissed` and `SessionsHold`, have `~ReuseHeld`, and `NothingMissed` has
`~DbFaults` too. Neither holds of the code by itself. `MCReuseAuthor`, `MCReusePrivate` and the
constants changed in section 3 show what happens without the first; a query that fails makes
the history a client is sent stop short, marked as ended all the same, which is why the second
is there. `ShownIsStored` states its own `~DbFaults`, inside the property, and `LinesTaken` that
no two `send_line` overlapped (`~torn`), which nothing in the code excludes.

### Server and store

| theorem | says | argument |
| --- | --- | --- |
| `TypeCorrect` | `[](TypeOK /\ Shape)` | `TypeInv`, one lemma per action. `Shape` adds what a place in the code says of the locals: a thread in `closeClients` has a socket to close, one in `recv` a connection, one before `addUser` a login and a password |
| `PrivateNeverPublic` | `[]PrivateStaysPrivate` | not inductive alone: `ReceiverKnown` (whoever is about to call `addMessage` has a registered receiver) is kept because users are never removed |
| `ShownIsStored` | `[]StoredBeforeSent` | `StoredBefore` extends it to the threads about to broadcast and to the sends still pending, through every crash |
| `RegistersOnce` | `[]RegistrationExclusive` | `OneSuccess`: all `REGISTER_SUCCESS` lines, on a wire or still pending, are about different logins, each in `users` and none in the initial database; a send moves a line from one set to the other |
| `HistoriesDivide` | `[]HistoriesPartition` | `UsersStep`: the only change to `users` is to append a row whose login is not there, so that logins are unique; `RowsRefer`: the ids in a row of `messages` are rows of `users`. The pair that is shown the message is then the pair of its row |
| `HistoriesKept` | `HistoriesGrow` | both tables only grow at the end, so that a row keeps its time and an id its login |
| `NoEcho` | `[]NoSelfEcho` | `EchoInv`: whichever connection a thread has read a line from, that connection's number was the thread's own, so leaving out that number leaves out the author, also after the number was reused |

The next group assumes `~ReuseHeld`. A thread *holds* a number while it is the thread's
`clientSocket`, or in the targets or failures it still has to go through. The invariant is
`OwnInv`: no two threads that are there have one number (`Distinct`); an open number is its
thread's (`TableOwn`); the number that `accept` has just returned is held by nobody
(`Fresh`); what `clientSockets` lists is open, listed once, and its thread lives; what
`closeClients` is about to close is no longer listed (`ClosingGone`). `StepKinds` sorts the
actions by what they do to numbers, so that each theorem argues about those few only.

| theorem | says | argument |
| --- | --- | --- |
| `OpenSockets` | `[]SocketsAreOpen` | a part of `OwnInv` |
| `LoginsHandled` | `[]LoginsHaveHandlers` | the same; an entry goes with its socket, or before its thread ends (`LeavingGone`) |
| `SessionsAgree` | `[]SessionAgreement` | `Agreement`, at every place but between the two writes of `handleAuthorization` |
| `AuthorsAuthenticated` | `[]AuthorIsAuthenticated` | `ProvedInv`: what a thread handles was written on its own connection, and its `login` is one that connection proved; `AuthorRow` carries that over to `messages` |
| `PrivateToParties` | `[]PrivateReachesParties` | `PrivateOut`: the number to which a private line is going is closed, or its connection's peer has proved to be a party |
| `SendersInOrder` | `[]PerSenderOrder` | `OrderInv`: the lines of an author are in order in the socket, in `lineBuffer` and in hand; everything shown was handled before what the thread has in hand; a broadcast in progress is one line, once per target, and shown to none that is left |
| `NothingMissed` | `[]NoGap` | `GapInv`, also in the middle of a broadcast: a client that has the history has every public message, or it is *coming* (a row still to send, an author that has not copied its targets, a send to this client that is left). Idle threads leave nothing coming |
| `SessionsHold` | `SessionsKept` | the refinement, step by step. `AnswerInv` says for each place of a thread what the request in hand is and what is left to say: one line, rows with the end mark after them, or a message. `ToOthers`: what goes to another client's connection is a chat line only. Then one lemma per action: it is the step of `ChatSession` with the same name on the thread's own connection, `Chatter` on the one it sends to, and a stutter on all others; a crash closes them all |

Classification lemmas (`ClaimStep`, `UsersStep`, `MessagesStep`, `RelyingStep`,
`StepKinds`, `WireStep`) say once, for all actions, what may change a group of variables.

### Wire

| theorem | says | argument |
| --- | --- | --- |
| `WireTypes` | `[]TypeOK` | the counts follow from the two invariants below: a prefix of what was sent is not longer |
| `CommandsTaken` | `[]CommandsWhole` | `CommandsInv`: the commands taken, joined by newlines, with `lineBuffer` and the bytes on the way, are the commands sent, joined. Lines without a newline in them can be told apart in only one way, so that the taken ones are the first of those sent. Without newlines nothing is ever taken, which `MCShipped` shows from the other side |
| `LinesTaken` | `[]LinesWhole` | `LineStream`: unless two `send_line` overlapped, what the client has and what is on the way, with the rest of the one line that is partly sent, are the lines that have begun. `LineCount` and the finite set of threads that are within a line bound their number. The client's lines are the texts of the pieces cut out of the stream: the invariant speaks of the pieces, and `Text` takes the CR off |

`Joined` is a fold. What is needed of it (its value on an appended line, its injectivity)
is shown through the least index at which a claim would fail: the natural numbers are well
founded, and `WFMin` gives a least member of a set without an operator as a parameter.

### Client

`NetMoves` and `ReaderGoesOn` say what each action may do to the connection and to a
receiver. `LinkInv` (nothing of an ended connection is left) and `RunInv` (`running` exactly
while a menu of a logged-in user is shown) hold with any number of receivers.

| theorem | says | argument |
| --- | --- | --- |
| `ClientTypes` | `[]TypeOK` | with `CallInv`, which call each place belongs to |
| `WaitersHaveReaders` | `[]WaiterHasReader` | `ReaderInv`, stronger: while somebody is logged in and the connection stands, some receiver has not left its loop |
| `HistoriesWhole` | `[]HistoryIsWhole` | `EndInv`: at most one end of a history is under way, at one place (asked for, being answered, sent, received), and only while the call that asked waits; `RowInv`: its rows come before it; `GotInv`: `historyLines` and `incomingBuffer` together have exactly the rows received, in their order. When the flag falls nothing is left of either. `StrayInv`: a row still to be taken is one of the history that is awaited, so that none is taken for chat; hence `PrintInv`: no row is in `recentMessages`, and the filter hides none |

### Model-checked only

- `BroadcastCompletes`, `DepartedAreCleaned`, `TimedCallsReturn`, `LoggedOutReaderEnds`
  and `CommandsHandled`: they rest on fairness, hence on `ENABLED`, which the prover does
  not treat.
- The seven violated properties: a counterexample is what TLC gives.
- That `SessionsKept` is what ChatClient relies on is by construction (both instantiate
  `ChatSession`), and that ChatWire carries `ChatSession`'s requests and lines is argued in
  section 2, not proved.

## 5. Not modelled

- The table `logs`, which no method reads, and a user's display name.
- The Windows branches; the exits of the constructor when the port is taken.
- `~Server`, which never runs: `run` does not return.
- `isConnected`, `stopReceivedMessage` and `ShowAllMessages`, which nobody calls; what the
  menu prints, and its checks of what the user types.
- What unlocked access to `recentMessages`, `incomingBuffer` and the answers does to
  memory: in the model an access is one step.
- Nothing calls `getUserMessages`; it is in ChatDB, and `MCPartners` is about it.
- The detached receiver that outlives `main` of the client: the process ends with it.
- Helpers and console I/O, the demo program, tests and build files.

## 6. Plan

The store, the server, what a connection is promised, the client with its menu, and the
bytes between them are modelled, and their safety is proved. What is left:

1. An abstract specification of the whole chat (accounts, one log of messages,
   deliveries) that ChatServer implements, beside the per-connection `ChatSession`.
2. Properties for the hazards that have none: what a failed INSERT or a failed
   constructor leaves behind, and one user logged in twice.
3. The lemmas about `Joined` in general form, for any separator, and shorter proofs of the
   long steps of `ClientMenuProofs`.
