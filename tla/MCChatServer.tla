---------------------------- MODULE MCChatServer ----------------------------
(***************************************************************************)
(* Instances of ChatServer for TLC: the command lines the peers of a run   *)
(* may send, the initial database, and the sets the runs share.            *)
(***************************************************************************)
EXTENDS ChatServerSessions

CONSTANTS c1, c2, c3

MCConns2 == {c1, c2}
MCConns3 == {c1, c2, c3}

MCContents == Ids \cup {NoId}
MCPasswords == {"pw", "admin123"}

MCAdmin == "admin"
MCAdminPassword == "admin123"

MCAdminBob == <<[login |-> "admin", password |-> "admin123"], [login |-> "bob", password |-> "pw"]>>

Cmd(op, l, p) == [op |-> op, login |-> l, password |-> p]
Do(op, l) == Cmd(op, l, NoPassword)
Say == Do("ALL", NoLogin)
AuthBob == Cmd("AUTH", "bob", "pw")
AuthAdmin == Cmd("AUTH", "admin", "admin123")

-----------------------------------------------------------------------------
(* What each peer may send, per run *)

\* An author of two lines, who may log out instead of the first; one that may fail to
\* log in and writes to all or to the first; a third that may take the place of either.
SessionCommands ==
  (c1 :> <<{AuthBob}, {Say, Do("EXIT", NoLogin)}, {Say}>>) @@
  (c2 :> <<{AuthAdmin, Cmd("AUTH", "admin", "pw")}, {Say, Do("PRIVATE", "bob")}, {}>>) @@
  (c3 :> <<{}, {}, {}>>)

\* Every command there is, from two clients, of which both may try to register one
\* login, with two passwords or none, and the first may try again.
AllCommands ==
  (c1 :> <<{AuthBob, Cmd("REGISTER", "old", "pw")},
           {Say, Do("PRIVATE", "admin"), Do("PRIVATE", "old"), Do("PRIVATE", NoLogin),
            Do("TOO_LONG", NoLogin), Cmd("REGISTER", "old", "pw")}>>) @@
  (c2 :> <<{AuthAdmin, Cmd("REGISTER", "old", "admin123"), Do("REGISTER", "old")},
           {Say, Do("GET_HISTORY", NoLogin), Do("GET_PRIVATE", "bob"), Do("GET_PRIVATE", NoLogin),
            Do("GET_PRIVATE_BARE", NoLogin), Do("UNKNOWN", NoLogin), Do("GET_USERS", NoLogin)}>>)

\* An author, a listener that leaves, and one that loads the history.
ListenCommands ==
  (c1 :> <<{AuthBob}, {Say}>>) @@
  (c2 :> <<{}, {}>>) @@
  (c3 :> <<{AuthBob}, {Do("GET_HISTORY", NoLogin)}>>)

\* broadcastMessage gets the one message of these commands to each listener that
\* reads, unless it leaves; whether the other leaves or does not read meanwhile.
BroadcastCompletes == \A k \in {c2, c3} \ Stalled : BroadcastReaches(<<c1, 2>>, k)

=============================================================================
