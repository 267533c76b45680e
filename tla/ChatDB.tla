------------------------------- MODULE ChatDB -------------------------------
(***************************************************************************)
(* The SQLite store of the chat server: class ChatDB (Database.h,          *)
(* Database.cpp).  Every public method takes ChatDBMutex for its whole     *)
(* body, so a method is one atomic step; rows are never updated or         *)
(* deleted, and every statement autocommits, so a finished step is         *)
(* durable.  The row id of a table is the position in its sequence.        *)
(*                                                                         *)
(* The table `logs` is left out: no method reads it.                       *)
(***************************************************************************)
EXTENDS Integers, Sequences, FiniteSets, SequencesExt

CONSTANTS
  Logins,       \* the login names that occur
  NoLogin,      \* the empty string where a login is expected
  Passwords,    \* the passwords that occur; a salted hash verifies only its own
  LegacyHash,   \* a stored hash that does not start with "$argon2"
  Contents,     \* message bodies
  InitUsers,    \* rows of `users` in the database file when it is first opened
  DbFaults,     \* TRUE: a statement may fail (busy, disk full, hashing fails)
  MaxClock      \* bound on the wall clock

VARIABLES
  users,        \* table users, in id order
  messages,     \* table messages, in id order
  clock         \* datetime('now'), one-second resolution

dbVars == <<users, messages, clock>>

Null == 0       \* SQL NULL in an id column; getUserId's -1

UserRow == [login : Logins, password : Passwords \cup {LegacyHash}]

\* `addr` is a history field, not a column: the receiver addMessage was given.
MessageRow == [from : Nat, to : Nat, content : Contents, time : 0..MaxClock,
               addr : Logins \cup {NoLogin}]

ASSUME DbAssumption ==
  /\ NoLogin \notin Logins
  /\ LegacyHash \notin Passwords
  /\ DbFaults \in BOOLEAN
  /\ MaxClock \in Nat
  /\ InitUsers \in Seq(UserRow)
  /\ \A i, j \in DOMAIN InitUsers : InitUsers[i].login = InitUsers[j].login => i = j

DbInit ==
  /\ users = InitUsers
  /\ messages = <<>>
  /\ clock = 0

-----------------------------------------------------------------------------
(* Queries *)

Registered(l) == \E i \in DOMAIN users : users[i].login = l

\* SELECT id FROM users WHERE login = ?
UserId(l) ==
  IF Registered(l) THEN CHOOSE i \in DOMAIN users : users[i].login = l ELSE Null

\* Mutant: any password is accepted for an account with a modern hash.
VerifyNothing(p, stored) == stored # LegacyHash

\* crypto_pwhash_str_verify, behind the "$argon2" prefix test
VerifyPassword(p, stored) == stored # LegacyHash /\ stored = p

Verified(l, p) ==
  \E i \in DOMAIN users : users[i].login = l /\ VerifyPassword(p, users[i].password)

\* Mutant: no row is not told from a row.
FoundAlways(l, found) == found = TRUE

\* What getUserId and verifyUser may answer: a failed statement answers "no".
GetUserId(l, found) == found \in {Registered(l)} \cup (IF DbFaults THEN {FALSE} ELSE {})
VerifyUser(l, p, ok) == ok \in {Verified(l, p)} \cup (IF DbFaults THEN {FALSE} ELSE {})

UserList == {users[i].login : i \in DOMAIN users}

\* Mutant: private messages are not left out.
PublicRowsAll == {i \in DOMAIN messages : messages[i].from # Null}

\* Mutant: only the latest row.
PublicRowsLimit ==
  {i \in DOMAIN messages : messages[i].from # Null /\ messages[i].to = Null /\ i = Len(messages)}

\* JOIN users ON u.id = m.user_id drops a row whose sender is NULL.
PublicRows ==
  {i \in DOMAIN messages : messages[i].from # Null /\ messages[i].to = Null}

Between(i, u, v) ==
  /\ UserId(u) # Null /\ UserId(v) # Null
  /\ messages[i].from = UserId(u) /\ messages[i].to = UserId(v)

\* getMessages: an empty login gives no rows, like one that is not registered.
PrivateRows(u, v) ==
  {i \in DOMAIN messages : Between(i, u, v) \/ Between(i, v, u)}

\* ORDER BY m.timestamp ASC; SQLite's sorter leaves ties in row order.
Before(i, j) ==
  \/ messages[i].time < messages[j].time
  \/ messages[i].time = messages[j].time /\ i < j

\* What a query hands over, in order: all its rows, or those that came before a
\* statement failed.
Fetched(rows) ==
  {rows} \cup (IF DbFaults THEN {{j \in rows : Before(j, i)} : i \in rows} ELSE {})

-----------------------------------------------------------------------------
(* getUserMessages.  Neither arm of its UNION has a GROUP BY, so MAX makes  *)
(* each arm a single row: the partner of a latest message that way.        *)

SentRows(l) == {i \in DOMAIN messages : messages[i].from = UserId(l)
                                     /\ messages[i].from # Null /\ messages[i].to # Null}
ReceivedRows(l) == {i \in DOMAIN messages : messages[i].to = UserId(l)
                                         /\ messages[i].to # Null /\ messages[i].from # Null}

Latest(S) == {i \in S : \A j \in S : messages[j].time <= messages[i].time}

Partners(l) == {messages[i].to : i \in SentRows(l)} \cup {messages[i].from : i \in ReceivedRows(l)}

\* What an arm may list: one of the latest rows, or nothing.
Arm(latest) == IF latest = {} THEN {{}} ELSE latest

\* The sets of partner ids a call may list.
UserMessages(l) ==
  {arms[1] \cup arms[2] : arms \in Arm({{messages[i].to} : i \in Latest(SentRows(l))})
                                 \X Arm({{messages[i].from} : i \in Latest(ReceivedRows(l))})}

-----------------------------------------------------------------------------
(* Updates; `ok` is what the C++ method returns. *)

\* Mutant: the UNIQUE constraint is missing.
AddUserAnyway(l, p, ok) ==
  /\ ok
  /\ users' = Append(users, [login |-> l, password |-> p])
  /\ UNCHANGED <<messages, clock>>

\* INSERT INTO users: the UNIQUE constraint on login decides.
AddUser(l, p, ok) ==
  /\ \/ /\ ok
        /\ ~Registered(l)
        /\ users' = Append(users, [login |-> l, password |-> p])
     \/ /\ ~ok
        /\ Registered(l) \/ DbFaults
        /\ UNCHANGED users
  /\ UNCHANGED <<messages, clock>>

\* Mutant: the INSERT is never executed.
AddNothing(s, r, t) == UNCHANGED dbVars

\* addMessage returns nothing: a failed INSERT is only printed.
AddMessage(s, r, t) ==
  /\ \/ messages' = Append(messages, [from |-> UserId(s),
                                      to |-> IF r = NoLogin THEN Null ELSE UserId(r),
                                      content |-> t, time |-> clock, addr |-> r])
     \/ DbFaults /\ UNCHANGED messages
  /\ UNCHANGED <<users, clock>>

\* The system clock moves; an adjustment may move it back.
SetClock ==
  /\ clock' \in 0..MaxClock \ {clock}
  /\ UNCHANGED <<users, messages>>

-----------------------------------------------------------------------------
(* Properties *)

DbTypeOK ==
  /\ users \in Seq(UserRow)
  /\ messages \in Seq(MessageRow)
  /\ clock \in 0..MaxClock

\* The pairs of users whose private history shows row i.
PairsShown(i) ==
  {pr \in {{u, v} : u, v \in Logins} : \E u, v \in pr : pr = {u, v} /\ i \in PrivateRows(u, v)}

\* A message from a known sender is shown by exactly one history: the public
\* one, or the private one of exactly one pair of users; a message from an
\* unknown sender is shown by none (getPublicMessages, getMessages).
HistoriesPartition ==
  \A i \in DOMAIN messages :
    IF messages[i].from = Null
    THEN i \notin PublicRows /\ PairsShown(i) = {}
    ELSE (i \in PublicRows /\ PairsShown(i) = {})
           \/ (i \notin PublicRows /\ Cardinality(PairsShown(i)) = 1)

\* A message addressed to somebody never lands in the public history.
PrivateStaysPrivate ==
  \A i \in DOMAIN messages : messages[i].addr # NoLogin => messages[i].to # Null

\* getUserMessages lists everybody the user has exchanged a message with
\* ("the list of partners", Database.h:33).
EveryPartnerListed ==
  \A l \in UserList : \A listed \in UserMessages(l) : Partners(l) \subseteq listed

\* A message once shown by a history stays in it, at the same place relative to the
\* messages shown with it: users that register later, and whatever is stored later,
\* do not disturb it.
HistoriesGrow ==
  [][/\ PublicRows \subseteq PublicRows'
     /\ \A u, v \in Logins : PrivateRows(u, v) \subseteq PrivateRows(u, v)'
     /\ \A i, j \in DOMAIN messages : Before(i, j) => Before(i, j)']_dbVars

=============================================================================
