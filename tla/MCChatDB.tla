------------------------------ MODULE MCChatDB ------------------------------
(***************************************************************************)
(* ChatDB by itself.  Its callers add users, and messages between users     *)
(* that exist (handlePrivateMessage looks the receiver up first), at any    *)
(* time; the clock may move.                                                *)
(***************************************************************************)
EXTENDS ChatDB

CONSTANTS
  MaxMessages    \* bound: messages stored

MCUsers == <<[login |-> "ann", password |-> "pw"], [login |-> "bob", password |-> LegacyHash]>>

Init == DbInit

Next ==
  \/ \E l \in Logins, p \in Passwords, ok \in BOOLEAN : AddUser(l, p, ok)
  \/ /\ Len(messages) < MaxMessages
     /\ \E s \in UserList, r \in UserList \cup {NoLogin}, t \in Contents : AddMessage(s, r, t)
  \/ SetClock

Spec == Init /\ [][Next]_dbVars

=============================================================================
