--------------------------- MODULE ChatOrderProofs ---------------------------
(***************************************************************************)
(* What a client is shown: the lines of one author in the order they were  *)
(* written, each once, and no public line missing between the history it   *)
(* loads and the lines it is sent live.                                    *)
(***************************************************************************)
EXTENDS ChatOwnerProofs

Owns == Base /\ InboxInv /\ Numbered /\ ProvedInv

\* The ids of lines are pairs of a connection and a number.
Number(line) == line.id[2]

LEMMA OwnNumbers ==
  ASSUME Owns, NEW a \in Conns
  PROVE  /\ sent[a] \in Int
         /\ \A i \in DOMAIN inbox[a] : Number(inbox[a][i]) \in Int /\ inbox[a][i].id[1] = a
         /\ \A i \in DOMAIN lines[a] : Number(lines[a][i]) \in Int /\ lines[a][i].id[1] = a
<1>1. sent[a] \in Int
  BY ServerAssumption DEF Owns, Base, TypeInv, TypeOK, PeerTypeOK
<1>2. ASSUME NEW i \in DOMAIN inbox[a]
      PROVE  Number(inbox[a][i]) \in Int /\ inbox[a][i].id[1] = a
  BY ServerAssumption DEF Owns, InboxInv, Number
<1>3. ASSUME NEW i \in DOMAIN lines[a]
      PROVE  Number(lines[a][i]) \in Int /\ lines[a][i].id[1] = a
  BY ServerAssumption DEF Owns, Numbered, ProvedInv, OwnRead, Number, Ids
<1> QED BY <1>1, <1>2, <1>3

-----------------------------------------------------------------------------
(* The lines of a client stay in order on their way *)

\* The lines that arrived, the lines the thread has read: each in the order they
\* were sent, those read before those that arrived.
Ordered ==
  \A a \in Conns :
    /\ pc[a] = "wait" => lines[a] = <<>>
    /\ \A j \in DOMAIN inbox[a] :
         /\ Number(inbox[a][j]) <= sent[a]
         /\ \A i \in DOMAIN inbox[a] : i < j => Number(inbox[a][i]) < Number(inbox[a][j])
    /\ \A j \in DOMAIN lines[a] :
         /\ Number(lines[a][j]) <= sent[a]
         /\ \A i \in DOMAIN lines[a] : i < j => Number(lines[a][i]) < Number(lines[a][j])
         /\ \A i \in DOMAIN inbox[a] : Number(lines[a][j]) < Number(inbox[a][i])

\* The n-th line of a is before every line that its thread has still to handle.
Earlier(a, n) ==
  /\ n <= sent[a]
  /\ \A j \in DOMAIN inbox[a] : n < Number(inbox[a][j])
  /\ \A j \in DOMAIN lines[a] : n < Number(lines[a][j])

\* The recv of a's thread takes the first lines that have arrived.
ReadsFirst(a) ==
  /\ pc[a] = "wait" /\ sent'[a] = sent[a]
  /\ \E n \in 1..Len(inbox[a]) :
       lines'[a] = SubSeq(inbox[a], 1, n) /\ inbox'[a] = SubSeq(inbox[a], n + 1, Len(inbox[a]))

LEMMA FirstOfInbox ==
  ASSUME NEW a \in Conns, inbox[a] \in Seq(Command), ReadsFirst(a)
  PROVE  \E n \in 1..Len(inbox[a]) :
           /\ \A i \in DOMAIN lines'[a] :
                i \in Nat /\ i <= n /\ i \in DOMAIN inbox[a] /\ lines'[a][i] = inbox[a][i]
           /\ \A i \in DOMAIN inbox'[a] :
                i \in Nat /\ i > 0 /\ n + i \in DOMAIN inbox[a] /\ inbox'[a][i] = inbox[a][n + i]
<1>1. PICK n \in 1..Len(inbox[a]) :
        lines'[a] = SubSeq(inbox[a], 1, n) /\ inbox'[a] = SubSeq(inbox[a], n + 1, Len(inbox[a]))
  BY DEF ReadsFirst
<1>2. /\ lines'[a] \in Seq(Command) /\ Len(lines'[a]) = n
      /\ \A i \in 1..n : lines'[a][i] = inbox[a][i]
      /\ inbox'[a] \in Seq(Command) /\ Len(inbox'[a]) = Len(inbox[a]) - n
      /\ \A i \in 1..(Len(inbox[a]) - n) : inbox'[a][i] = inbox[a][n + i]
  BY <1>1, SplitSeq
<1>3. DOMAIN inbox[a] = 1..Len(inbox[a]) /\ Len(inbox[a]) \in Nat
  OBVIOUS
<1>4. DOMAIN lines'[a] = 1..n /\ DOMAIN inbox'[a] = 1..(Len(inbox[a]) - n)
  BY <1>2
<1>5. ASSUME NEW i \in DOMAIN inbox'[a]
      PROVE  i \in Nat /\ i > 0 /\ n + i \in DOMAIN inbox[a] /\ inbox'[a][i] = inbox[a][n + i]
  <2>1. i \in 1..(Len(inbox[a]) - n)
    BY <1>4, <1>5
  <2>2. n + i \in 1..Len(inbox[a])
    BY <1>3, <2>1
  <2> QED BY <1>2, <1>3, <2>1, <2>2
<1>6. ASSUME NEW i \in DOMAIN lines'[a]
      PROVE  i \in Nat /\ i <= n /\ i \in DOMAIN inbox[a] /\ lines'[a][i] = inbox[a][i]
  BY <1>2, <1>3, <1>4, <1>6
<1> QED BY <1>5, <1>6

\* What arrives for a thread: one new line, numbered after all that were sent.
LEMMA InboxFrom ==
  ASSUME Owns, [Next]_vars, NEW a \in Conns
  PROVE  \/ UNCHANGED <<inbox[a], sent[a]>>
         \/ inbox'[a] = <<>> /\ sent'[a] = sent[a] /\ lines'[a] = <<>>
         \/ ReadsFirst(a)
         \/ /\ sent'[a] = sent[a] + 1 /\ lines' = lines /\ peer[a] = "open"
            /\ \E e : inbox'[a] = Append(inbox[a], e) /\ e.id = <<a, sent'[a]>>
<1> USE DEF Owns, Base
<1>1. CASE UNCHANGED <<inbox, sent>>
  BY <1>1
<1>2. CASE Terminate
  BY <1>2 DEF Terminate
<1>3. ASSUME NEW c \in Conns, PeerSends(c)
      PROVE  \/ UNCHANGED <<inbox[a], sent[a]>>
             \/ /\ sent'[a] = sent[a] + 1 /\ lines' = lines /\ peer[a] = "open"
                /\ \E e : inbox'[a] = Append(inbox[a], e) /\ e.id = <<a, sent'[a]>>
  <2>1. inbox \in [Conns -> Seq(Command)] /\ sent \in [Conns -> 0..MaxLines]
    BY DEF TypeInv, TypeOK, PeerTypeOK
  <2>2. PICK e : e.id = <<c, sent'[c]>> /\ inbox' = [inbox EXCEPT ![c] = Append(@, e)]
    <3>1. PICK m \in Commands[c][sent'[c]] :
            inbox' = [inbox EXCEPT ![c] =
              Append(@, [op |-> m.op, login |-> m.login, password |-> m.password,
                         id |-> <<c, sent'[c]>>])]
      BY <1>3 DEF PeerSends
    <3> QED BY <3>1
  <2>3. sent' = [sent EXCEPT ![c] = @ + 1] /\ lines' = lines /\ peer[c] = "open"
    BY <1>3 DEF PeerSends, threadVars
  <2> QED BY <2>1, <2>2, <2>3
<1>4. ASSUME NEW c \in Conns, RecvData(c)
      PROVE  \/ UNCHANGED <<inbox[a], sent[a]>>
             \/ ReadsFirst(a)
  <2>1. reading[c] = c
    BY <1>4, ServerAssumption DEF RecvData, ProvedInv, OwnRead, TypeInv, Shape
  <2>2. PICK n \in 1..Len(inbox[c]) :
          /\ lines' = [lines EXCEPT ![c] = SubSeq(inbox[c], 1, n)]
          /\ inbox' = [inbox EXCEPT ![c] = SubSeq(inbox[c], n + 1, Len(inbox[c]))]
    BY <1>4, <2>1, RecvTakes
  <2>3. pc[c] = "wait" /\ sent' = sent
    BY <1>4 DEF RecvData
  <2>4. CASE a = c
    BY <2>2, <2>3, <2>4 DEF ReadsFirst, TypeInv, TypeOK, PeerTypeOK, ThreadTypeOK
  <2>5. CASE a # c
    BY <2>2, <2>3, <2>5 DEF TypeInv, TypeOK, PeerTypeOK
  <2> QED BY <2>4, <2>5
<1>5. ASSUME NEW c \in Conns, HandlerStep(c)
      PROVE  UNCHANGED <<inbox, sent>> \/ Terminate \/ RecvData(c)
  BY <1>5 DEF HandlerStep, CallRecv, RecvEnd, Register, AddUserStep, Authorize,
            Publish, Expecting, TooLong, StorePublic, Snapshot, CheckReceiver, StorePrivate,
            Route, Notice, GetUsers, GetHistory, GetPrivateHistory, GetPrivateThrows, Exit,
            UnknownCommand, SendNext, SigPipe, Erase, Close, JustReplies, peerVars
<1>6. CASE Start \/ Spawn \/ (SetClock /\ UNCHANGED <<serverVars, threadVars, peerVars>>)
             \/ UNCHANGED vars
  BY <1>6 DEF Start, Spawn, vars, peerVars
<1>7. ASSUME NEW c \in Conns, Accept(c) \/ PeerCloses(c)
      PROVE  UNCHANGED <<inbox, sent>>
  BY <1>7 DEF Accept, PeerCloses
<1> QED BY <1>1, <1>2, <1>3, <1>4, <1>5, <1>6, <1>7 DEF Next, Kill

LEMMA LinesOwn ==
  ASSUME Owns, [Next]_vars, NEW a \in Conns
  PROVE  \/ lines'[a] = lines[a] \/ lines'[a] = <<>>
         \/ lines[a] # <<>> /\ lines'[a] = Tail(lines[a])
         \/ ReadsFirst(a)
<1>1. CASE FromInbox(a)
  <2>1. reading[a] = a /\ pc[a] = "wait"
    BY <1>1, ServerAssumption DEF FromInbox, Owns, Base, ProvedInv, OwnRead, Places, PlaceInv
  <2>2. PICK n \in 1..Len(inbox[a]) :
          lines'[a] = SubSeq(inbox[a], 1, n) /\ inbox'[a] = SubSeq(inbox[a], n + 1, Len(inbox[a]))
    BY <1>1, <2>1 DEF FromInbox
  <2>3. CASE sent'[a] = sent[a]
    BY <2>1, <2>2, <2>3 DEF ReadsFirst
  <2>4. CASE sent'[a] # sent[a]
    BY <2>4, InboxFrom DEF ReadsFirst
  <2> QED BY <2>3, <2>4
<1> QED BY <1>1, LinesFrom DEF Owns, Base

\* Whatever arrives has a greater number than what was sent before.
LEMMA ArrivesLater ==
  ASSUME Owns, [Next]_vars, NEW a \in Conns, NEW n \in Int,
         n <= sent[a], \A j \in DOMAIN inbox[a] : n < Number(inbox[a][j])
  PROVE  n <= sent'[a] /\ \A j \in DOMAIN inbox'[a] : n < Number(inbox'[a][j])
<1>1. inbox[a] \in Seq(Command) /\ sent[a] \in Int
  BY OwnNumbers DEF Owns, Base, TypeInv, TypeOK, PeerTypeOK
<1>2. CASE UNCHANGED <<inbox[a], sent[a]>>
  BY <1>2
<1>3. CASE inbox'[a] = <<>> /\ sent'[a] = sent[a]
  BY <1>3
<1>5. CASE ReadsFirst(a)
  BY <1>1, <1>5, FirstOfInbox DEF ReadsFirst
<1>4. ASSUME sent'[a] = sent[a] + 1, NEW e, inbox'[a] = Append(inbox[a], e), e.id = <<a, sent'[a]>>
      PROVE  n <= sent'[a] /\ \A j \in DOMAIN inbox'[a] : n < Number(inbox'[a][j])
  <2>1. Number(e) = sent[a] + 1
    BY <1>4 DEF Number
  <2>2. \A j \in DOMAIN inbox'[a] :
          (j \in DOMAIN inbox[a] /\ inbox'[a][j] = inbox[a][j]) \/ inbox'[a][j] = e
    BY <1>1, <1>4
  <2> QED BY <1>1, <1>4, <2>1, <2>2
<1> QED BY <1>2, <1>3, <1>4, <1>5, InboxFrom

LEMMA EarlierStays ==
  ASSUME Owns, [Next]_vars, NEW a \in Conns, NEW n \in Int, Earlier(a, n)
  PROVE  Earlier(a, n)'
<1>1. n <= sent'[a] /\ \A j \in DOMAIN inbox'[a] : n < Number(inbox'[a][j])
  BY ArrivesLater DEF Earlier
<1>2. \A j \in DOMAIN lines'[a] : n < Number(lines'[a][j])
  <2>1. lines[a] \in Seq(Command)
    BY DEF Owns, Base, TypeInv, TypeOK, ThreadTypeOK
  <2>2. CASE lines'[a] = lines[a] \/ lines'[a] = <<>>
    BY <2>2 DEF Earlier
  <2>4. CASE ReadsFirst(a)
    <3>1. inbox[a] \in Seq(Command)
      BY DEF Owns, Base, TypeInv, TypeOK, PeerTypeOK
    <3> QED BY <2>4, <3>1, FirstOfInbox DEF Earlier
  <2>3. CASE lines[a] # <<>> /\ lines'[a] = Tail(lines[a])
    <3>1. \A j \in DOMAIN lines'[a] : j + 1 \in DOMAIN lines[a] /\ lines'[a][j] = lines[a][j + 1]
      BY <2>1, <2>3
    <3> QED BY <3>1 DEF Earlier
  <2> QED BY <2>2, <2>3, <2>4, LinesOwn
<1> QED BY <1>1, <1>2 DEF Earlier, Number

LEMMA WaitsEmpty ==
  ASSUME Owns, Ordered, [Next]_vars, NEW a \in Conns, pc'[a] = "wait"
  PROVE  lines'[a] = <<>>
<1> USE DEF Owns, Base
<1>1. CASE Quiet
  BY <1>1 DEF Quiet, threadVars, Ordered
<1>2. CASE Terminate \/ Spawn
  BY <1>2 DEF Terminate, Spawn, Ordered, TypeInv, TypeOK, ThreadTypeOK
<1>3. ASSUME NEW c \in Conns, Accept(c)
      PROVE  lines'[a] = <<>>
  BY <1>3 DEF Accept, Ordered
<1>4. ASSUME NEW c \in Conns, ThreadStep(c), a # c
      PROVE  lines'[a] = <<>>
  BY <1>4, OthersKeepLocals DEF SameLocals, Ordered
<1>5. CASE ThreadStep(a)
  <2>1. ASSUME NEW sends, NEW closes, NEW notice
        PROVE  After(sends, closes, notice) # "wait"
    BY DEF After
  <2>2. CASE Snapshot(a) \/ Route(a) \/ SendNext(a) \/ Close(a)
    <3>1. \/ \E sends, closes, notice : SetPc(a, After(sends, closes, notice))
          \/ SetPc(a, "done")
      BY <2>2, Zenon DEF Snapshot, Route, SendNext, Close, Resume
    <3> QED BY <2>1, <3>1 DEF SetPc, TypeInv, TypeOK, ThreadTypeOK
  <2>3. CASE ~(Snapshot(a) \/ Route(a) \/ SendNext(a) \/ Close(a))
    BY <1>5, <2>3 DEF ThreadStep, HandlerStep, CallRecv, RecvData, RecvEnd, Register, AddUserStep,
         Authorize, Publish, Expecting, TooLong, StorePublic, CheckReceiver,
         StorePrivate, Notice, GetUsers, GetHistory, GetPrivateHistory,
         GetPrivateThrows, Exit, UnknownCommand, SigPipe, Erase, JustReplies, Takes, Receives,
         Reply, SendRows, SetPc, TypeInv, TypeOK, ThreadTypeOK
  <2> QED BY <2>2, <2>3
<1> QED BY <1>1, <1>2, <1>3, <1>4, <1>5, StepKinds

LEMMA OrderedStep ==
  ASSUME Owns, Ordered, [Next]_vars
  PROVE  Ordered'
<1> SUFFICES ASSUME NEW a \in Conns
             PROVE  /\ pc'[a] = "wait" => lines'[a] = <<>>
                    /\ \A j \in DOMAIN inbox'[a] :
                         /\ Number(inbox'[a][j]) <= sent'[a]
                         /\ \A i \in DOMAIN inbox'[a] : i < j =>
                              Number(inbox'[a][i]) < Number(inbox'[a][j])
                    /\ \A j \in DOMAIN lines'[a] :
                         /\ Number(lines'[a][j]) <= sent'[a]
                         /\ \A i \in DOMAIN lines'[a] : i < j =>
                              Number(lines'[a][i]) < Number(lines'[a][j])
                         /\ \A i \in DOMAIN inbox'[a] :
                              Number(lines'[a][j]) < Number(inbox'[a][i])
  BY DEF Ordered, Number
<1>1. /\ inbox[a] \in Seq(Command) /\ lines[a] \in Seq(Command) /\ sent[a] \in Int
      /\ pc[a] = "wait" => lines[a] = <<>>
  BY OwnNumbers DEF Owns, Base, TypeInv, TypeOK, PeerTypeOK, ThreadTypeOK, Ordered
<1>2. pc'[a] = "wait" => lines'[a] = <<>>
  BY WaitsEmpty
<1>3. ASSUME NEW j \in DOMAIN inbox'[a]
      PROVE  /\ Number(inbox'[a][j]) <= sent'[a]
             /\ \A i \in DOMAIN inbox'[a] : i < j => Number(inbox'[a][i]) < Number(inbox'[a][j])
  <2>1. CASE UNCHANGED <<inbox[a], sent[a]>>
    BY <1>3, <2>1 DEF Ordered
  <2>2. CASE inbox'[a] = <<>>
    BY <1>3, <2>2
  <2>4. CASE ReadsFirst(a)
    <3>1. PICK n \in 1..Len(inbox[a]) : \A i \in DOMAIN inbox'[a] :
            i \in Nat /\ i > 0 /\ n + i \in DOMAIN inbox[a] /\ inbox'[a][i] = inbox[a][n + i]
      BY <1>1, <2>4, FirstOfInbox
    <3>2. sent'[a] = sent[a] /\ n \in Nat
      BY <2>4 DEF ReadsFirst
    <3>3. \A i \in DOMAIN inbox'[a] : i < j => n + i < n + j
      BY <1>3, <3>1, <3>2
    <3> QED BY <1>3, <3>1, <3>2, <3>3 DEF Ordered
  <2>3. ASSUME sent'[a] = sent[a] + 1, NEW e, inbox'[a] = Append(inbox[a], e), e.id = <<a, sent'[a]>>
        PROVE  /\ Number(inbox'[a][j]) <= sent'[a]
               /\ \A i \in DOMAIN inbox'[a] : i < j => Number(inbox'[a][i]) < Number(inbox'[a][j])
    <3>1. Number(e) = sent[a] + 1
      BY <2>3 DEF Number
    <3>2. \A i \in DOMAIN inbox[a] : Number(inbox[a][i]) \in Int /\ Number(inbox[a][i]) <= sent[a]
      BY OwnNumbers DEF Ordered
    <3>3. \A i \in DOMAIN inbox'[a] :
            \/ i \in DOMAIN inbox[a] /\ inbox'[a][i] = inbox[a][i]
            \/ i = Len(inbox[a]) + 1 /\ inbox'[a][i] = e
      BY <1>1, <2>3
    <3>4. \A i \in DOMAIN inbox[a] : i \in Nat /\ i < Len(inbox[a]) + 1
      BY <1>1
    <3>5. Number(inbox'[a][j]) <= sent'[a]
      BY <1>1, <1>3, <2>3, <3>1, <3>2, <3>3
    <3>6. ASSUME NEW i \in DOMAIN inbox'[a], i < j
          PROVE  Number(inbox'[a][i]) < Number(inbox'[a][j])
      <4>1. CASE j \in DOMAIN inbox[a] /\ inbox'[a][j] = inbox[a][j]
        <5>1. i \in DOMAIN inbox[a] /\ inbox'[a][i] = inbox[a][i]
          BY <1>1, <3>3, <3>4, <3>6, <4>1
        <5> QED BY <3>6, <4>1, <5>1 DEF Ordered
      <4>2. CASE j = Len(inbox[a]) + 1 /\ inbox'[a][j] = e
        <5>1. i \in DOMAIN inbox[a] /\ inbox'[a][i] = inbox[a][i]
          BY <1>1, <3>3, <3>4, <3>6, <4>2
        <5> QED BY <1>1, <3>1, <3>2, <4>2, <5>1
      <4> QED BY <1>3, <3>3, <4>1, <4>2
    <3> QED BY <3>5, <3>6
  <2> QED BY <2>1, <2>2, <2>3, <2>4, InboxFrom
<1>4. ASSUME NEW j \in DOMAIN lines'[a]
      PROVE  /\ Number(lines'[a][j]) <= sent[a] /\ Number(lines'[a][j]) \in Int
             /\ \A i \in DOMAIN lines'[a] : i < j => Number(lines'[a][i]) < Number(lines'[a][j])
             /\ ~ReadsFirst(a) => \A i \in DOMAIN inbox[a] : Number(lines'[a][j]) < Number(inbox[a][i])
             /\ ReadsFirst(a) => \A i \in DOMAIN inbox'[a] : Number(lines'[a][j]) < Number(inbox'[a][i])
  <2>1. CASE lines'[a] = lines[a] /\ ~ReadsFirst(a)
    BY <1>4, <2>1, OwnNumbers DEF Ordered
  <2>2. CASE lines'[a] = <<>> /\ ~ReadsFirst(a)
    BY <1>4, <2>2
  <2>3. CASE lines[a] # <<>> /\ lines'[a] = Tail(lines[a]) /\ ~ReadsFirst(a)
    <3>1. \A i \in DOMAIN lines'[a] : i \in Nat /\ i + 1 \in DOMAIN lines[a] /\ lines'[a][i] = lines[a][i + 1]
      BY <1>1, <2>3
    <3>2. \A i \in DOMAIN lines'[a] : i < j => i + 1 < j + 1
      BY <3>1
    <3>3. j + 1 \in DOMAIN lines[a] /\ lines'[a][j] = lines[a][j + 1]
      BY <1>4, <3>1
    <3>4. Number(lines'[a][j]) <= sent[a] /\ Number(lines'[a][j]) \in Int
      BY <3>3, OwnNumbers DEF Ordered
    <3>5. \A i \in DOMAIN lines'[a] : i < j => Number(lines'[a][i]) < Number(lines'[a][j])
      BY <3>1, <3>2, <3>3 DEF Ordered
    <3>6. \A i \in DOMAIN inbox[a] : Number(lines'[a][j]) < Number(inbox[a][i])
      BY <3>3 DEF Ordered
    <3> QED BY <2>3, <3>4, <3>5, <3>6
  <2>4. CASE ReadsFirst(a)
    <3>1. PICK n \in 1..Len(inbox[a]) :
            /\ \A i \in DOMAIN lines'[a] :
                 i \in Nat /\ i <= n /\ i \in DOMAIN inbox[a] /\ lines'[a][i] = inbox[a][i]
            /\ \A i \in DOMAIN inbox'[a] :
                 i \in Nat /\ i > 0 /\ n + i \in DOMAIN inbox[a] /\ inbox'[a][i] = inbox[a][n + i]
      BY <1>1, <2>4, FirstOfInbox
    <3>2. \A i \in DOMAIN inbox'[a] : j < n + i
      BY <1>4, <3>1
    <3>3. Number(lines'[a][j]) <= sent[a] /\ Number(lines'[a][j]) \in Int
      BY <1>4, <3>1, OwnNumbers DEF Ordered
    <3>4. \A i \in DOMAIN lines'[a] : i < j => Number(lines'[a][i]) < Number(lines'[a][j])
      BY <1>4, <3>1 DEF Ordered
    <3>5. \A i \in DOMAIN inbox'[a] : Number(lines'[a][j]) < Number(inbox'[a][i])
      BY <1>4, <3>1, <3>2 DEF Ordered
    <3> QED BY <2>4, <3>3, <3>4, <3>5
  <2> QED BY <2>1, <2>2, <2>3, <2>4, LinesOwn
<1>5. ASSUME NEW j \in DOMAIN lines'[a]
      PROVE  /\ Number(lines'[a][j]) <= sent'[a]
             /\ \A i \in DOMAIN inbox'[a] : Number(lines'[a][j]) < Number(inbox'[a][i])
  <2>1. CASE UNCHANGED <<inbox[a], sent[a]>>
    BY <1>4, <1>5, <2>1
  <2>2. CASE inbox'[a] = <<>> /\ sent'[a] = sent[a]
    BY <1>4, <1>5, <2>2
  <2>3. ASSUME sent'[a] = sent[a] + 1, lines' = lines,
               NEW e, inbox'[a] = Append(inbox[a], e), e.id = <<a, sent'[a]>>
        PROVE  /\ Number(lines'[a][j]) <= sent'[a]
               /\ \A i \in DOMAIN inbox'[a] : Number(lines'[a][j]) < Number(inbox'[a][i])
    <3>1. Number(e) = sent[a] + 1
      BY <2>3 DEF Number
    <3>2. \A i \in DOMAIN inbox'[a] :
            (i \in DOMAIN inbox[a] /\ inbox'[a][i] = inbox[a][i]) \/ inbox'[a][i] = e
      BY <1>1, <2>3
    <3>3. \A i \in DOMAIN inbox[a] : Number(lines[a][j]) < Number(inbox[a][i])
      BY <1>5, <2>3 DEF Ordered
    <3> QED BY <1>1, <1>4, <1>5, <2>3, <3>1, <3>2, <3>3
  <2>4. CASE ReadsFirst(a)
    BY <1>4, <1>5, <2>4 DEF ReadsFirst
  <2> QED BY <2>1, <2>2, <2>3, <2>4, InboxFrom
<1> QED BY <1>2, <1>3, <1>4, <1>5

-----------------------------------------------------------------------------
(* The command in hand, the lines shown and the lines still to send *)

CmdEarlier == \A a \in Conns : cmd[a] # NoCommand => Earlier(a, Number(cmd[a]))

LEMMA CommandNumber ==
  ASSUME NEW m \in Command
  PROVE  Number(m) \in Int
BY ServerAssumption DEF Command, Ids, NoId, Number

LEMMA CmdNumber ==
  ASSUME Owns, NEW a \in Conns
  PROVE  /\ Number(cmd[a]) \in Int
         /\ cmd[a] # NoCommand => cmd[a].id \in Ids /\ cmd[a].id[1] = a
<1>1. cmd[a] \in Command
  BY DEF Owns, Base, TypeInv, TypeOK, ThreadTypeOK
<1>2. cmd[a].id \in Ids \cup {NoId}
  BY <1>1 DEF Command
<1>3. cmd[a] # NoCommand => cmd[a].id[1] = a
  BY DEF Owns, ProvedInv, OwnRead
<1> QED BY <1>1, <1>2, <1>3, CommandNumber, ServerAssumption DEF Ids, NoId

LEMMA CmdEarlierStep ==
  ASSUME Owns, Ordered, CmdEarlier, [Next]_vars
  PROVE  CmdEarlier'
<1> SUFFICES ASSUME NEW a \in Conns, cmd'[a] # NoCommand
             PROVE  Earlier(a, Number(cmd[a]))'
  BY DEF CmdEarlier
<1> PICK n \in Int : n = Number(cmd'[a])
  <2>1. lines[a] \in Seq(Command) /\ cmd[a] \in Command
    BY DEF Owns, Base, TypeInv, TypeOK, ThreadTypeOK
  <2>2. cmd'[a] \in Command
    BY <2>1, CmdFrom, NoCommandType DEF Owns, Base
  <2> QED BY <2>2, CommandNumber
<1> SUFFICES Earlier(a, n)'
  BY DEF Earlier, Number
<1>1. CASE cmd'[a] = cmd[a]
  BY <1>1, EarlierStays DEF CmdEarlier
<1>2. CASE lines[a] # <<>> /\ cmd'[a] = Head(lines[a]) /\ lines'[a] = Tail(lines[a])
  <2>1. lines[a] \in Seq(Command)
    BY DEF Owns, Base, TypeInv, TypeOK, ThreadTypeOK
  <2>2. 1 \in DOMAIN lines[a] /\ cmd'[a] = lines[a][1]
    BY <1>2, <2>1
  <2>3. n <= sent[a] /\ \A j \in DOMAIN inbox[a] : n < Number(inbox[a][j])
    BY <2>2 DEF Ordered
  <2>4. \A j \in DOMAIN lines'[a] : n < Number(lines'[a][j])
    <3>1. \A j \in DOMAIN lines'[a] : /\ j + 1 \in DOMAIN lines[a] /\ 1 < j + 1
                                      /\ lines'[a][j] = lines[a][j + 1]
      BY <1>2, <2>1
    <3> QED BY <2>2, <3>1 DEF Ordered
  <2>5. n <= sent'[a] /\ \A j \in DOMAIN inbox'[a] : n < Number(inbox'[a][j])
    BY <2>3, ArrivesLater
  <2> QED BY <2>4, <2>5 DEF Earlier, Number
<1> QED BY <1>1, <1>2, CmdFrom DEF Owns, Base

Public(line) == line.kind = "public"

\* The n-th line of a may have been shown: what a's thread handles now is not
\* before it, and what it has stored and not yet copied the targets of is after it.
Said(a, n) ==
  /\ Earlier(a, n)
  /\ cmd[a] # NoCommand => n <= Number(cmd[a])
  /\ pc[a] = "snapshot" => n < Number(cmd[a])

LEMMA SaidStays ==
  ASSUME Owns, Owns', [Next]_vars, NEW a \in Conns, NEW n \in Int, Said(a, n)
  PROVE  Said(a, n)'
<1>1. Earlier(a, n)'
  BY EarlierStays DEF Said
<1>2. ASSUME lines[a] # <<>>, cmd'[a] = Head(lines[a])
      PROVE  n < Number(cmd'[a])
  <2>1. lines[a] \in Seq(Command)
    BY DEF Owns, Base, TypeInv, TypeOK, ThreadTypeOK
  <2>2. 1 \in DOMAIN lines[a] /\ cmd'[a] = lines[a][1]
    BY <1>2, <2>1
  <2> QED BY <2>2 DEF Said, Earlier
<1>3. Number(cmd'[a]) \in Int /\ (pc'[a] = "snapshot" => cmd'[a] # NoCommand)
  <2>1. cmd'[a] \in Command
    BY DEF Owns, Base, TypeInv, TypeOK, ThreadTypeOK
  <2> QED BY <2>1, CommandNumber DEF Owns, Base, Places, PlaceInv, Working
<1>4. cmd'[a] # NoCommand => n <= Number(cmd'[a])
  BY <1>2, <1>3, CmdFrom DEF Said, Owns, Base
<1>5. ASSUME pc'[a] = "snapshot"
      PROVE  n < Number(cmd'[a])
  <2>1. CASE Stays(a)
    BY <1>5, <2>1 DEF Stays, Relying, Said
  <2>2. CASE StorePublic(a)
    <3>1. lines[a] # <<>> /\ cmd'[a] = Head(lines[a])
      BY <2>2 DEF StorePublic, Takes, Receives, Owns, Base, TypeInv, TypeOK, ThreadTypeOK
    <3> QED BY <1>2, <3>1
  <2>3. CASE CheckReceiver(a) \/ StorePrivate(a)
    BY <1>5, <2>3 DEF CheckReceiver, StorePrivate, Reply, SetPc, Owns, Base, TypeInv, TypeOK, ThreadTypeOK
  <2> QED BY <2>1, <2>2, <2>3, RelyingStep DEF Owns, Base
<1> QED BY <1>1, <1>4, <1>5 DEF Said, Number

\* Every public line shown was handled before what its author's thread does now.
SaidInv ==
  \A k, a \in Conns : \A i \in DOMAIN wire[k] :
    Public(wire[k][i]) /\ wire[k][i].id[1] = a => Said(a, Number(wire[k][i]))

\* The broadcast in progress: one line, once for each target, and shown to none of
\* them yet.
ToSay ==
  \A c \in Conns : \A s \in out[c] : Public(s.line) =>
    /\ s.line.id = cmd[c].id
    /\ \A t \in out[c] : Public(t.line) /\ (t.fd = s.fd => t = s)
    /\ \A k \in Conns : fdTable[s.fd] = k =>
         \A i \in DOMAIN wire[k] : Public(wire[k][i]) => wire[k][i].id # s.line.id

\* What a thread may still have to send: what it had, what broadcastMessage or
\* privateMessage chose, or an answer to its own client.
LEMMA OutFrom ==
  ASSUME Owns, [Next]_vars, NEW c \in Conns
  PROVE  \/ out'[c] \subseteq out[c]
         \/ Snapshot(c) \/ Route(c)
         \/ \A s \in out'[c] : s.fd = fd[c] /\ s.line.kind \notin {"public", "private"}
<1> USE DEF Owns, Base
<1>1. CASE Quiet \/ Terminate \/ Spawn
  BY <1>1 DEF Quiet, Terminate, Spawn, threadVars
<1>2. ASSUME NEW d \in Conns, Accept(d)
      PROVE  out' = out
  BY <1>2 DEF Accept
<1>3. ASSUME NEW d \in Conns, ThreadStep(d), d # c
      PROVE  out'[c] = out[c]
  BY <1>3, OthersKeepLocals DEF SameLocals
<1>4. CASE SendNext(c)
  BY <1>4, SendNextMoves
<1>5. CASE ThreadStep(c) /\ ~(Snapshot(c) \/ Route(c) \/ SendNext(c))
  <2>1. \/ out' = out
        \/ \E kind \in Kinds \ {"public", "private"} : \E l : Reply(c, kind, l)
        \/ \E rows, l : SendRows(c, rows, l)
    <3>1. CASE AddUserStep(c)
      BY <3>1 DEF AddUserStep, Kinds
    <3>2. CASE GetHistory(c) \/ GetPrivateHistory(c)
      BY <3>2 DEF GetHistory, GetPrivateHistory, Kinds
    <3>3. CASE ~(AddUserStep(c) \/ GetHistory(c) \/ GetPrivateHistory(c))
      BY <1>5, <3>3 DEF ThreadStep, HandlerStep, CallRecv, RecvData, RecvEnd, Register,
         Authorize, Publish, Expecting, TooLong, StorePublic, CheckReceiver,
         StorePrivate, Notice, GetUsers, GetPrivateThrows, Exit, UnknownCommand, SigPipe,
         Erase, Close, JustReplies, Kinds
    <3> QED BY <3>1, <3>2, <3>3
  <2>2. ASSUME NEW kind \in Kinds \ {"public", "private"}, NEW l, Reply(c, kind, l)
        PROVE  \A s \in out'[c] : s.fd = fd[c] /\ s.line.kind \notin {"public", "private"}
    BY <2>2 DEF Reply, ToSend, TypeInv, TypeOK, ThreadTypeOK
  <2>3. ASSUME NEW rows, NEW l, SendRows(c, rows, l)
        PROVE  \A s \in out'[c] : s.fd = fd[c] /\ s.line.kind \notin {"public", "private"}
    BY <2>3 DEF SendRows, ToSend, TypeInv, TypeOK, ThreadTypeOK
  <2> QED BY <2>1, <2>2, <2>3
<1> QED BY <1>1, <1>2, <1>3, <1>4, <1>5, StepKinds

\* While sends are left, the command is the same.
LEMMA SameCommand ==
  ASSUME Owns, Owns', [Next]_vars, NEW c \in Conns, NEW s \in out'[c],
         s \in out[c] \/ Snapshot(c)
  PROVE  cmd'[c] = cmd[c] /\ cmd[c] # NoCommand
<1>1. pc'[c] = "send" /\ cmd'[c] # NoCommand
  BY DEF Owns, Base, Places, PlaceInv, Working
<1>2. pc[c] # "recv"
  BY DEF Owns, Base, Places, PlaceInv, Snapshot
<1> QED BY <1>1, <1>2, CmdFrom DEF Owns, Base

LEMMA SaidInvStep ==
  ASSUME Owns, Owns', CmdEarlier, SaidInv, ToSay, [Next]_vars
  PROVE  SaidInv'
<1> USE DEF Owns, Base
<1>1. ASSUME NEW k \in Conns, NEW a \in Conns, NEW i \in DOMAIN wire'[k],
             Public(wire'[k][i]), wire'[k][i].id[1] = a
      PROVE  Said(a, Number(wire'[k][i])) /\ Number(wire'[k][i]) \in Int
  <2>1. CASE i \in DOMAIN wire[k] /\ wire'[k][i] = wire[k][i]
    <3>1. wire[k][i] \in Line
      BY <2>1 DEF TypeInv, TypeOK, PeerTypeOK
    <3> QED BY <1>1, <2>1, <3>1, ServerAssumption DEF SaidInv, Line, Ids, NoId, Number
  <2>2. ASSUME NEW c \in Conns, NEW s \in out[c], wire'[k][i] = s.line
        PROVE  Said(a, Number(s.line)) /\ Number(s.line) \in Int
    <3>1. s.line.id = cmd[c].id /\ pc[c] = "send" /\ cmd[c] # NoCommand
      BY <1>1, <2>2 DEF ToSay, Places, PlaceInv, Working
    <3>2. a = c /\ Number(s.line) = Number(cmd[c]) /\ Number(cmd[c]) \in Int
      BY <1>1, <2>2, <3>1, CmdNumber DEF Number
    <3> QED BY <3>1, <3>2 DEF Said, CmdEarlier
  <2>3. \/ i \in DOMAIN wire[k] /\ wire'[k][i] = wire[k][i]
        \/ \E c \in Conns : \E s \in out[c] : wire'[k][i] = s.line
    BY <1>1, WireStep, WireEntry
  <2> QED BY <2>1, <2>2, <2>3
<1>2. ASSUME NEW k \in Conns, NEW a \in Conns, NEW i \in DOMAIN wire'[k],
             Public(wire'[k][i]), wire'[k][i].id[1] = a
      PROVE  Said(a, Number(wire[k][i]))'
  <2>1. PICK n \in Int : n = Number(wire'[k][i]) /\ Said(a, n)
    BY <1>1, <1>2
  <2>2. Said(a, n)'
    BY <2>1, SaidStays
  <2> QED BY <2>1, <2>2 DEF Said, Earlier, Number
<1> QED BY <1>2 DEF SaidInv, Public

LEMMA ToSayStep ==
  ASSUME Owns, Owns', ~ReuseHeld, SaidInv, ToSay, [Next]_vars
  PROVE  ToSay'
<1> USE DEF Owns, Base
<1> SUFFICES ASSUME NEW c \in Conns, NEW s \in out'[c], Public(s.line)
             PROVE  /\ s.line.id = cmd'[c].id
                    /\ \A t \in out'[c] : Public(t.line) /\ (t.fd = s.fd => t = s)
                    /\ \A k \in Conns : fdTable'[s.fd] = k =>
                         \A i \in DOMAIN wire'[k] : Public(wire'[k][i]) => wire'[k][i].id # s.line.id
  BY DEF ToSay, Public
<1>1. CASE out'[c] \subseteq out[c]
  <2>1. s \in out[c]
    BY <1>1
  <2>2. cmd'[c] = cmd[c] /\ cmd[c] # NoCommand
    BY <2>1, SameCommand
  <2>3. s.line.id = cmd[c].id /\ \A t \in out[c] : Public(t.line) /\ (t.fd = s.fd => t = s)
    BY <2>1 DEF ToSay
  <2>4. ASSUME NEW k \in Conns, fdTable'[s.fd] = k, NEW i \in DOMAIN wire'[k],
               Public(wire'[k][i]), wire'[k][i].id = s.line.id
        PROVE  FALSE
    <3>1. fdTable[s.fd] = k
      BY <2>1, <2>4, TargetKept
    <3>2. CASE i \in DOMAIN wire[k] /\ wire'[k][i] = wire[k][i]
      BY <2>1, <2>4, <3>1, <3>2 DEF ToSay
    <3>3. ASSUME NEW d \in Conns, NEW u \in out[d], out' = [out EXCEPT ![d] = @ \ {u}],
                 fdTable[u.fd] = k, wire'[k][i] = u.line
          PROVE  FALSE
      <4>1. u.line.id = cmd[d].id /\ pc[d] = "send" /\ cmd[d] # NoCommand
        BY <2>4, <3>3 DEF ToSay, Places, PlaceInv, Working
      <4>2. d = c
        BY <2>2, <2>3, <2>4, <3>3, <4>1 DEF ProvedInv, OwnRead
      <4>3. u # s
        BY <3>3, <4>2 DEF TypeInv, TypeOK, ThreadTypeOK
      <4>4. u.fd \in Fds /\ s.fd \in Fds
        BY <2>1 DEF TypeInv, TypeOK, ThreadTypeOK, PendingSend
      <4>5. u.fd = s.fd
        BY <3>1, <3>3, <4>4 DEF OwnInv, TableOwn
      <4> QED BY <2>3, <3>3, <4>2, <4>3, <4>5
    <3>4. \/ i \in DOMAIN wire[k] /\ wire'[k][i] = wire[k][i]
          \/ \E d \in Conns : \E u \in out[d] : /\ out' = [out EXCEPT ![d] = @ \ {u}]
                                                /\ fdTable[u.fd] = k /\ wire'[k][i] = u.line
      <4>1. CASE wire' = wire
        BY <2>4, <4>1
      <4>2. ASSUME NEW d \in Conns, NEW u \in out[d], out' = [out EXCEPT ![d] = @ \ {u}],
                   fdTable[u.fd] \in Conns, u.line \in Line,
                   wire' = [wire EXCEPT ![fdTable[u.fd]] = Append(@, u.line)]
            PROVE  \/ i \in DOMAIN wire[k] /\ wire'[k][i] = wire[k][i]
                   \/ fdTable[u.fd] = k /\ wire'[k][i] = u.line
        BY <2>4, <4>2, WireEntry
      <4> QED BY <4>1, <4>2, WireStep
    <3> QED BY <3>2, <3>3, <3>4
  <2> QED BY <1>1, <2>2, <2>3, <2>4
<1>2. CASE Snapshot(c)
  <2>1. out'[c] = {ToSend(<<0, i>>, clientSockets[i], "public", cmd[c].id, NoLogin) : i \in Targets(c)}
    BY <1>2 DEF Snapshot, TypeInv, TypeOK, ThreadTypeOK
  <2>2. s.line.id = cmd[c].id
    BY <2>1 DEF ToSend
  <2>3. cmd'[c] = cmd[c] /\ cmd[c] # NoCommand
    BY <1>2, SameCommand
  <2>4. ASSUME NEW t \in out'[c]
        PROVE  Public(t.line) /\ (t.fd = s.fd => t = s)
    <3>1. PICK i \in Targets(c) : s = ToSend(<<0, i>>, clientSockets[i], "public", cmd[c].id, NoLogin)
      BY <2>1
    <3>2. PICK j \in Targets(c) : t = ToSend(<<0, j>>, clientSockets[j], "public", cmd[c].id, NoLogin)
      BY <2>1, <2>4
    <3>3. s.fd = clientSockets[i] /\ t.fd = clientSockets[j] /\ Public(t.line)
      BY <3>1, <3>2 DEF ToSend, Public
    <3>4. t.fd = s.fd => i = j
      BY <3>3 DEF Targets, OwnInv, SocketsOnce
    <3> QED BY <3>1, <3>2, <3>3, <3>4
  <2>5. ASSUME NEW k \in Conns, NEW i \in DOMAIN wire'[k],
               Public(wire'[k][i]), wire'[k][i].id = s.line.id
        PROVE  FALSE
    <3>1. wire' = wire /\ pc[c] = "snapshot"
      BY <1>2 DEF Snapshot, peerVars
    <3>2. wire[k][i].id[1] = c /\ Number(wire[k][i]) = Number(cmd[c]) /\ Number(cmd[c]) \in Int
      BY <2>2, <2>3, <2>5, <3>1, CmdNumber DEF Number
    <3> QED BY <2>5, <3>1, <3>2 DEF SaidInv, Said
  <2> QED BY <2>2, <2>3, <2>4, <2>5
<1>3. CASE Route(c)
  <2>1. s.line = [kind |-> "private", id |-> cmd[c].id, login |-> cmd[c].login]
    BY <1>3, RouteSends
  <2> QED BY <2>1 DEF Public
<1>4. CASE \A t \in out'[c] : t.line.kind \notin {"public", "private"}
  BY <1>4 DEF Public
<1> QED BY <1>1, <1>2, <1>3, <1>4, OutFrom

LEMMA SenderOrderStep ==
  ASSUME Owns, SaidInv, ToSay, PerSenderOrder, [Next]_vars
  PROVE  PerSenderOrder'
<1> USE DEF Owns, Base
<1>1. CASE wire' = wire
  BY <1>1 DEF PerSenderOrder
<1>2. ASSUME NEW c \in Conns, NEW s \in out[c], NEW k \in Conns, fdTable[s.fd] = k,
             s.line \in Line, wire' = [wire EXCEPT ![k] = Append(@, s.line)]
      PROVE  PerSenderOrder'
  <2>1. /\ \A d \in Conns \ {k} : wire'[d] = wire[d]
        /\ DOMAIN wire'[k] = DOMAIN wire[k] \cup {Len(wire[k]) + 1}
        /\ \A i \in DOMAIN wire[k] : wire'[k][i] = wire[k][i]
        /\ wire'[k][Len(wire[k]) + 1] = s.line
    BY <1>2, WireEntry
  <2>2. wire[k] \in Seq(Line)
    BY DEF TypeInv, TypeOK, PeerTypeOK
  <2>3. ASSUME NEW i \in DOMAIN wire[k], Public(wire[k][i]), Public(s.line),
               wire[k][i].id[1] = s.line.id[1]
        PROVE  wire[k][i].id[2] < s.line.id[2]
    <3>1. s.line.id = cmd[c].id /\ pc[c] = "send" /\ cmd[c] # NoCommand
      BY <1>2, <2>3 DEF ToSay, Places, PlaceInv, Working
    <3>2. /\ s.line.id \in Ids /\ s.line.id[1] = c /\ Number(cmd[c]) \in Int
          /\ Number(s.line) = Number(cmd[c])
      BY <3>1, CmdNumber DEF Number
    <3>3. Number(wire[k][i]) <= Number(cmd[c])
      BY <2>3, <3>1, <3>2 DEF SaidInv, Said
    <3>4. wire[k][i].id # s.line.id
      BY <1>2, <2>3 DEF ToSay
    <3>5. wire[k][i].id \in Ids
      <4>1. wire[k][i].id \in Ids \cup {NoId}
        <5>1. wire[k][i] \in Line
          BY <2>2, <2>3
        <5> QED BY <5>1 DEF Line
      <4> QED BY <2>3, <3>2, <4>1, ServerAssumption DEF NoId
    <3>6. \A p, q \in Ids : p[2] \in Int /\ (p[1] = q[1] /\ p[2] = q[2] => p = q)
      BY ServerAssumption DEF Ids
    <3>7. Number(wire[k][i]) # Number(s.line) /\ Number(wire[k][i]) \in Int
      BY <2>3, <3>2, <3>4, <3>5, <3>6 DEF Number
    <3> QED BY <3>2, <3>3, <3>7 DEF Number
  <2>4. \A i \in DOMAIN wire[k] : i \in Nat /\ i < Len(wire[k]) + 1
    BY <2>2
  <2>5. Len(wire[k]) \in Nat
    BY <2>2
  <2>6. ASSUME NEW i \in DOMAIN wire'[k], NEW j \in DOMAIN wire'[k], i < j,
               Public(wire'[k][i]), Public(wire'[k][j]), wire'[k][i].id[1] = wire'[k][j].id[1]
        PROVE  wire'[k][i].id[2] < wire'[k][j].id[2]
    <3>1. i \in DOMAIN wire[k]
      BY <2>1, <2>4, <2>5, <2>6
    <3>2. CASE j \in DOMAIN wire[k]
      BY <2>1, <2>6, <3>1, <3>2 DEF PerSenderOrder, Public
    <3>3. CASE j = Len(wire[k]) + 1
      BY <2>1, <2>3, <2>6, <3>1, <3>3
    <3> QED BY <2>1, <3>2, <3>3
  <2> QED BY <2>1, <2>6 DEF PerSenderOrder, Public
<1> QED BY <1>1, <1>2, WireStep

OrderInv == Ordered /\ CmdEarlier /\ SaidInv /\ ToSay /\ PerSenderOrder

\* The state that the order of lines rests on.
LEMMA OwnsAlways == ~ReuseHeld => (Spec => []Owns)
<1> SUFFICES ASSUME ~ReuseHeld
             PROVE  Spec => []Owns
  OBVIOUS
<1>1. Base /\ InboxInv /\ Numbered /\ ProvedInv => Owns
  BY DEF Owns
<1> QED BY <1>1, Owned, Proved, PTL

LEMMA OrderAlways == ~ReuseHeld => (Spec => []OrderInv)
<1> SUFFICES ASSUME ~ReuseHeld
             PROVE  Spec => []OrderInv
  OBVIOUS
<1>1. Init => OrderInv
  BY DEF Init, OrderInv, Ordered, CmdEarlier, SaidInv, ToSay, PerSenderOrder
<1>2. Owns /\ Owns' /\ OrderInv /\ [Next]_vars => OrderInv'
  BY OrderedStep, CmdEarlierStep, SaidInvStep, ToSayStep, SenderOrderStep DEF OrderInv
<1> QED BY <1>1, <1>2, OwnsAlways, PTL DEF Spec

\* While accept returns no number a thread still holds, a client sees the public lines
\* of one author in the order they were written, none of them twice: one thread
\* stores and broadcasts an author's lines one after the other, each to a copy of
\* clientSockets that has no duplicate.
THEOREM SendersInOrder == ~ReuseHeld => (Spec => []PerSenderOrder)
<1> SUFFICES ASSUME ~ReuseHeld
             PROVE  Spec => []PerSenderOrder
  OBVIOUS
<1>1. OrderInv => PerSenderOrder
  BY DEF OrderInv
<1> QED BY <1>1, OrderAlways, PTL

-----------------------------------------------------------------------------
(* A peer that has not left is still served *)

\* Its number is its own, in clientSockets once its thread runs, and nobody is
\* going to close it.
OpenInv ==
  \A k \in Conns : peer[k] = "open" =>
    /\ Present(k) /\ fd[k] \in Fds /\ fdTable[fd[k]] = k
    /\ Live(k) => Listed(fd[k])
    /\ \A c \in Conns : \A i \in DOMAIN failed[c] : failed[c][i] # fd[k]

\* closeClients is only called for a number that is not open, or whose peer has left.
LEMMA FailedFrom ==
  ASSUME Owns, OpenInv, [Next]_vars, NEW c \in Conns, NEW k \in Conns, peer[k] = "open",
         NEW i \in DOMAIN failed'[c]
  PROVE  failed'[c][i] # fd[k]
<1> USE DEF Owns, Base
<1>1. failed[c] \in Seq(Fds) /\ \A j \in DOMAIN failed[c] : failed[c][j] # fd[k]
  BY DEF OpenInv, TypeInv, TypeOK, ThreadTypeOK
<1>2. fdTable[fd[k]] = k /\ fd[k] \in Fds /\ Present(k)
  BY DEF OpenInv
<1>3. CASE failed'[c] = failed[c] \/ failed'[c] = <<>>
  BY <1>1, <1>3
<1>4. CASE CallRecv(c) /\ failed'[c] # failed[c]
  <2>1. failed'[c] = <<fd[c]>> /\ fdTable[fd[c]] = NoConn
    BY <1>4 DEF CallRecv, TypeInv, TypeOK, ThreadTypeOK
  <2>2. failed'[c][i] = fd[c]
    BY <2>1
  <2> QED BY <1>2, <2>1, <2>2, ServerAssumption
<1>5. CASE RecvEnd(c)
  <2>1. failed'[c] = <<fd[c]>> /\ peer[reading[c]] = "closed" /\ Live(c) /\ reading[c] \in Conns
    BY <1>5 DEF RecvEnd, Live, TypeInv, TypeOK, ThreadTypeOK, Shape
  <2>2. reading[c] = c
    BY <2>1, ServerAssumption DEF ProvedInv, OwnRead
  <2>3. fd[c] # fd[k]
    BY <1>2, <2>1, <2>2 DEF OwnInv, Distinct, Present
  <2>4. failed'[c][i] = fd[c]
    BY <2>1
  <2> QED BY <2>3, <2>4
<1>6. CASE Close(c)
  <2>1. failed'[c] = Tail(failed[c]) /\ failed[c] # <<>>
    BY <1>6 DEF Close, TypeInv, TypeOK, ThreadTypeOK, Shape
  <2>2. i + 1 \in DOMAIN failed[c] /\ failed'[c][i] = failed[c][i + 1]
    BY <1>1, <2>1
  <2> QED BY <1>1, <2>2
<1>7. CASE SendNext(c) /\ failed'[c] # failed[c]
  <2>1. PICK s \in out[c] : failed'[c] = Append(failed[c], s.fd) /\ MayFail(fdTable[s.fd])
    <3>1. PICK s \in out[c], ok \in BOOLEAN :
            /\ SendLine(s.fd, s.line, ok)
            /\ failed' = [failed EXCEPT ![c] = IF ~ok /\ s.line.kind \in ClosingKinds
                                               THEN Append(failed[c], s.fd) ELSE failed[c]]
      BY <1>7, Zenon DEF SendNext
    <3>2. ~ok /\ failed'[c] = Append(failed[c], s.fd)
      BY <1>7, <3>1 DEF TypeInv, TypeOK, ThreadTypeOK
    <3> QED BY <3>1, <3>2 DEF SendLine
  <2>2. s.fd \in Fds
    BY DEF TypeInv, TypeOK, ThreadTypeOK, PendingSend
  <2>3. s.fd # fd[k]
    BY <1>2, <2>1, ServerAssumption DEF MayFail
  <2>4. (i \in DOMAIN failed[c] /\ failed'[c][i] = failed[c][i]) \/ failed'[c][i] = s.fd
    BY <1>1, <2>1, <2>2
  <2> QED BY <1>1, <2>3, <2>4
<1>8. \/ failed'[c] = failed[c] \/ failed'[c] = <<>>
      \/ CallRecv(c) \/ RecvEnd(c) \/ Close(c) \/ SendNext(c)
  <2>1. CASE Quiet \/ Terminate \/ Spawn
    BY <2>1 DEF Quiet, Terminate, Spawn, threadVars, localVars
  <2>2. ASSUME NEW d \in Conns, Accept(d)
        PROVE  failed' = failed
    BY <2>2 DEF Accept
  <2>3. ASSUME NEW d \in Conns, ThreadStep(d), d # c
        PROVE  failed'[c] = failed[c]
    BY <2>3, OthersKeepLocals DEF SameLocals
  <2>4. CASE ThreadStep(c) /\ ~(CallRecv(c) \/ RecvEnd(c) \/ Close(c) \/ SendNext(c))
    BY <2>4 DEF ThreadStep, HandlerStep, RecvData, Register, AddUserStep,
         Authorize, Publish, Expecting, TooLong, StorePublic, Snapshot, CheckReceiver,
         StorePrivate, Route, Notice, GetUsers, GetHistory, GetPrivateHistory,
         GetPrivateThrows, Exit, UnknownCommand, SigPipe, Erase, JustReplies, localVars
  <2> QED BY <2>1, <2>2, <2>3, <2>4, StepKinds
<1> QED BY <1>3, <1>4, <1>5, <1>6, <1>7, <1>8

\* A peer is open only from accept on.
LEMMA OpenFrom ==
  ASSUME TypeInv, [Next]_vars, NEW k \in Conns, peer'[k] = "open"
  PROVE  ~Terminate /\ (peer[k] = "open" \/ Accept(k))
<1>1. ~Terminate
  BY DEF Terminate, TypeInv, TypeOK, PeerTypeOK
<1>2. CASE peer' = peer
  BY <1>1, <1>2
<1>3. ASSUME NEW c \in Conns, Accept(c) \/ PeerCloses(c)
      PROVE  peer[k] = "open" \/ Accept(k)
  BY <1>3 DEF Accept, PeerCloses, TypeInv, TypeOK, PeerTypeOK
<1>4. CASE Start \/ Spawn \/ (SetClock /\ UNCHANGED <<serverVars, threadVars, peerVars>>) \/ UNCHANGED vars
  BY <1>2, <1>4 DEF Start, Spawn, vars, peerVars
<1>5. ASSUME NEW c \in Conns, HandlerStep(c) \/ PeerSends(c)
      PROVE  peer' = peer \/ Terminate
  BY <1>5 DEF PeerSends, HandlerStep, CallRecv, RecvData, RecvEnd, Register, AddUserStep,
         Authorize, Publish, Expecting, TooLong, StorePublic, Snapshot, CheckReceiver,
         StorePrivate, Route, Notice, GetUsers, GetHistory, GetPrivateHistory,
         GetPrivateThrows, Exit, UnknownCommand, SendNext, SigPipe, Erase, Close, JustReplies, peerVars
<1> QED BY <1>1, <1>2, <1>3, <1>4, <1>5 DEF Next, Kill

\* closeClients leaves an open peer in clientSockets and its number open.
LEMMA OpenStep ==
  ASSUME Owns, ~ReuseHeld, OpenInv, [Next]_vars
  PROVE  OpenInv'
<1> USE DEF Owns, Base
<1> SUFFICES ASSUME NEW k \in Conns, peer'[k] = "open"
             PROVE  /\ Present(k)' /\ fd'[k] \in Fds /\ fdTable'[fd'[k]] = k
                    /\ Live(k)' => Listed(fd[k])'
                    /\ \A c \in Conns : \A i \in DOMAIN failed'[c] : failed'[c][i] # fd'[k]
  <2> HIDE DEF Owns, Base
  <2> QED BY DEF OpenInv
<1>1. CASE Accept(k)
  <2>1. PICK f \in Fds : /\ fdTable' = [fdTable EXCEPT ![f] = k] /\ fd' = [fd EXCEPT ![k] = f]
                         /\ \A d \in Conns : ~Holds(d, f)
                         /\ ~Present(k) /\ incoming' = k /\ pc' = pc /\ failed' = failed
    BY <1>1, AcceptGives
  <2>2. fd'[k] = f /\ fdTable'[f] = k
    BY <2>1 DEF TypeInv, TypeOK, ThreadTypeOK, ServerTypeOK
  <2> QED BY <2>1, <2>2 DEF Present, Live, Holds
<1>2. CASE peer[k] = "open"
  <2>1. Present(k) /\ fd[k] \in Fds /\ fdTable[fd[k]] = k /\ (Live(k) => Listed(fd[k]))
    BY <1>2 DEF OpenInv
  <2>2. fd'[k] = fd[k] /\ ~Terminate
    BY <1>2, FdStep, OpenFrom
  <2>3. \A c \in Conns : \A i \in DOMAIN failed'[c] : failed'[c][i] # fd'[k]
    BY <1>2, <2>2, FailedFrom
  <2>4. Present(k)' /\ fdTable'[fd[k]] = k /\ (Live(k)' => Listed(fd[k])')
    <3>1. CASE Quiet
      BY <2>1, <2>2, <3>1 DEF Quiet, threadVars, Present, Live, Listed
    <3>2. CASE Spawn
      <4>1. fdTable' = fdTable
        BY <3>2 DEF Spawn
      <4>2. Live(k)'
        BY <2>1, <3>2, SpawnEnters DEF Present
      <4>3. Live(k) \/ k = incoming
        BY <3>2, <4>2, SpawnEnters
      <4>4. Listed(fd[k])'
        BY <2>1, <2>2, <3>2, <4>3, SpawnEnters DEF Listed
      <4> QED BY <2>1, <4>1, <4>2, <4>4 DEF Present
    <3>3. ASSUME NEW c \in Conns, Accept(c)
          PROVE  <2>4!:
      <4>1. PICK f \in Fds : /\ fdTable[f] = NoConn /\ fdTable' = [fdTable EXCEPT ![f] = c]
                             /\ incoming = NoConn /\ incoming' = c /\ pc' = pc
                             /\ clientSockets' = clientSockets
        BY <3>3, AcceptGives
      <4>2. fd[k] # f
        BY <2>1, <4>1, ServerAssumption
      <4> QED BY <2>1, <2>2, <4>1, <4>2, ServerAssumption
              DEF Present, Live, Listed, TypeInv, TypeOK, ServerTypeOK
    <3>4. ASSUME NEW c \in Conns, ThreadStep(c)
          PROVE  <2>4!:
      <4>1. incoming' = incoming /\ PlaceInv(c)
        BY <3>4, ThreadShares DEF Places
      <4>2. Live(k) => Live(k)'
        <5>1. ASSUME Close(c), k = c, cmd[c] = NoCommand
              PROVE  FALSE
          <6>1. failed[c] = <<fd[c]>>
            BY <4>1, <5>1 DEF PlaceInv, Close
          <6> QED BY <1>2, <5>1, <6>1 DEF OpenInv
        <5> QED BY <3>4, <4>1, <5>1, ThreadEnds
      <4>3. Live(k)' => Live(k)
        BY <3>4, <4>1, ThreadEnds
      <4>4. fdTable'[fd[k]] = k
        <5>1. CASE fdTable' = fdTable
          BY <2>1, <5>1
        <5>2. CASE Close(c)
          <6>1. failed[c] \in Seq(Fds) /\ failed[c] # <<>>
            BY <5>2 DEF Close, TypeInv, TypeOK, ThreadTypeOK, Shape
          <6>2. 1 \in DOMAIN failed[c] /\ Head(failed[c]) = failed[c][1]
            BY <6>1
          <6>3. Head(failed[c]) # fd[k]
            BY <1>2, <6>2 DEF OpenInv
          <6> QED BY <2>1, <5>2, <6>3 DEF Close, SocketClose, TypeInv, TypeOK, ServerTypeOK
        <5> QED BY <3>4, <5>1, <5>2, ThreadShares
      <4>5. Listed(fd[k]) => Listed(fd[k])'
        <5>1. CASE clientSockets' = clientSockets
          BY <2>2, <5>1 DEF Listed
        <5>2. CASE Erase(c)
          <6>1. failed[c] \in Seq(Fds) /\ failed[c] # <<>>
            BY <5>2 DEF Erase, TypeInv, TypeOK, ThreadTypeOK, Shape
          <6>2. 1 \in DOMAIN failed[c] /\ Head(failed[c]) = failed[c][1]
            BY <6>1
          <6>3. Head(failed[c]) # fd[k]
            BY <1>2, <6>2 DEF OpenInv
          <6>4. \A i \in DOMAIN clientSockets : clientSockets[i] # Head(failed[c]) =>
                  \E j \in DOMAIN clientSockets' : clientSockets'[j] = clientSockets[i]
            BY <5>2, ForgetSocketEntries DEF Erase, OwnInv, TypeInv, TypeOK
          <6> QED BY <2>2, <6>3, <6>4 DEF Listed
        <5> QED BY <3>4, <5>1, <5>2, ThreadShares
      <4> QED BY <2>1, <4>1, <4>2, <4>3, <4>4, <4>5 DEF Present
    <3> QED BY <2>2, <3>1, <3>2, <3>3, <3>4, StepKinds
  <2> QED BY <2>1, <2>2, <2>3, <2>4 DEF Listed
<1> QED BY <1>1, <1>2, OpenFrom

-----------------------------------------------------------------------------
(* No public line is missing between the history and the live lines *)

Ending(line) == line.kind = "END_OF_HISTORY" /\ line.login = NoLogin

\* The rows of a history are only sent to the client that asked.
RowsOwn ==
  \A c \in Conns : \A s \in out[c] :
    s.line.kind \in {"history", "END_OF_HISTORY"} => s.fd = fd[c]

\* Nothing was sent before a thread was started.
Told == \A k \in Conns : wire[k] # <<>> => pc[k] # "none"

LEMMA RowsOwnStep ==
  ASSUME Owns, RowsOwn, [Next]_vars
  PROVE  RowsOwn'
<1> USE DEF Owns, Base
<1> SUFFICES ASSUME NEW c \in Conns, NEW s \in out'[c],
                    s.line.kind \in {"history", "END_OF_HISTORY"}
             PROVE  s.fd = fd'[c]
  BY DEF RowsOwn
<1>1. CASE out'[c] \subseteq out[c]
  <2>1. s \in out[c] /\ pc[c] # "none"
    BY <1>1 DEF Places, PlaceInv
  <2> QED BY <2>1, FdStep DEF RowsOwn, ActiveInv
<1>2. CASE Snapshot(c)
  <2>1. out'[c] = {ToSend(<<0, i>>, clientSockets[i], "public", cmd[c].id, NoLogin) : i \in Targets(c)}
    BY <1>2 DEF Snapshot, TypeInv, TypeOK, ThreadTypeOK
  <2> QED BY <2>1 DEF ToSend
<1>3. CASE Route(c)
  <2>1. s.line = [kind |-> "private", id |-> cmd[c].id, login |-> cmd[c].login]
    BY <1>3, RouteSends
  <2> QED BY <2>1
<1>4. CASE ~(out'[c] \subseteq out[c]) /\ \A t \in out'[c] : t.fd = fd[c]
  <2>1. \A d \in Conns : ~(Accept(d) \/ Quiet \/ Terminate \/ Spawn)
    BY <1>4 DEF Accept, Quiet, Terminate, Spawn, threadVars
  <2>2. fd' = fd
    BY <2>1, StepKinds, ThreadShares
  <2> QED BY <1>4, <2>2
<1> QED BY <1>1, <1>2, <1>3, <1>4, OutFrom

LEMMA ToldStep ==
  ASSUME Owns, Told, [Next]_vars
  PROVE  Told'
<1> USE DEF Owns, Base
<1> SUFFICES ASSUME NEW k \in Conns, wire'[k] # <<>>
             PROVE  pc'[k] # "none"
  BY DEF Told
<1>1. pc[k] # "none"
  <2>1. CASE wire'[k] = wire[k]
    BY <2>1 DEF Told
  <2>2. ASSUME NEW c \in Conns, NEW s \in out[c], s.fd \in Fds, fdTable[s.fd] = k
        PROVE  pc[k] # "none"
    <3>1. fd[k] = s.fd /\ Present(k) /\ Holds(c, s.fd)
      BY <2>2 DEF OwnInv, TableOwn, Holds
    <3> QED BY <3>1 DEF OwnInv, Fresh, Present, Live
  <2>3. \/ wire'[k] = wire[k]
        \/ \E c \in Conns : \E s \in out[c] : s.fd \in Fds /\ fdTable[s.fd] = k
    BY WireStep, WireEntry
  <2> QED BY <2>1, <2>2, <2>3
<1>2. pc[k] # "none" => pc'[k] # "none"
  <2>1. CASE Quiet \/ Terminate
    BY <2>1 DEF Quiet, Terminate, threadVars
  <2>2. CASE Spawn
    BY <2>2 DEF Spawn, TypeInv, TypeOK, ThreadTypeOK
  <2>3. ASSUME NEW c \in Conns, Accept(c)
        PROVE  pc' = pc
    BY <2>3 DEF Accept
  <2>4. ASSUME NEW c \in Conns, ThreadStep(c)
        PROVE  pc[k] # "none" => pc'[k] # "none"
    <3>1. CASE k # c
      BY <2>4, <3>1, OthersKeepLocals DEF SameLocals
    <3>2. CASE k = c
      <4>1. CASE Close(c) /\ cmd[c] = NoCommand
        BY <3>2, <4>1 DEF Close, SetPc, TypeInv, TypeOK, ThreadTypeOK
      <4>2. CASE Live(c)'
        BY <3>2, <4>2 DEF Live
      <4> QED BY <2>4, <4>1, <4>2, ThreadEnds, ThreadShares DEF Places
    <3> QED BY <3>1, <3>2
  <2> QED BY <2>1, <2>2, <2>3, <2>4, StepKinds
<1> QED BY <1>1, <1>2

\* Client k has the history, or is being sent it.
Ended(k) ==
  \/ \E i \in DOMAIN wire[k] : Ending(wire[k][i])
  \/ \E s \in out[k] : Ending(s.line)

\* The message m is on its way to k: a row of the history being sent, or a line
\* whose author's thread has not yet copied, or not yet served, its targets.
Coming(k, m) ==
  \/ \E s \in out[k] : s.line.kind = "history" /\ s.line.id = m
  \/ \E a \in Conns : pc[a] = "snapshot" /\ cmd[a].id = m
  \/ \E a \in Conns : \E s \in out[a] : Public(s.line) /\ s.line.id = m /\ s.fd = fd[k]

Has(k, m) == m[1] = k \/ OnWire(k, "public", m) \/ OnWire(k, "history", m) \/ Coming(k, m)

\* Every public message has reached a client that has the history, or still will.
GapInv ==
  \A k \in Conns : peer[k] = "open" /\ Ended(k) =>
    \A i \in PublicRows : Has(k, messages[i].content)

LEMMA WireKept ==
  ASSUME TypeInv, [Next]_vars, NEW k \in Conns, NEW kind, NEW m, OnWire(k, kind, m)
  PROVE  OnWire(k, kind, m)'
<1>1. CASE wire' = wire
  BY <1>1 DEF OnWire
<1>2. ASSUME NEW h \in Conns, NEW l \in Line, wire' = [wire EXCEPT ![h] = Append(@, l)]
      PROVE  OnWire(k, kind, m)'
  BY <1>2, WireEntry DEF OnWire
<1> QED BY <1>1, <1>2, WireStep

\* A send to an open peer is done once: it stays, or its line is on the wire.
LEMMA SendServed ==
  ASSUME Owns, OpenInv, RowsOwn, ToSay, [Next]_vars, ~Terminate,
         NEW c \in Conns, NEW s \in out[c], s.line.kind \in {"public", "history"},
         NEW k \in Conns, peer[k] = "open", s.fd = fd[k]
  PROVE  s \in out'[c] \/ OnWire(k, s.line.kind, s.line.id)'
<1> USE DEF Owns, Base
<1>1. fdTable[s.fd] = k /\ s.fd \in Fds /\ s.line \in Line /\ pc[c] = "send"
  BY DEF OpenInv, Places, PlaceInv, TypeInv, TypeOK, ThreadTypeOK, PendingSend
<1>2. CASE Quiet \/ Spawn
  BY <1>2 DEF Quiet, Spawn, threadVars
<1>3. ASSUME NEW d \in Conns, Accept(d)
      PROVE  out' = out
  BY <1>3 DEF Accept
<1>4. ASSUME NEW d \in Conns, ThreadStep(d), d # c
      PROVE  out'[c] = out[c]
  BY <1>4, OthersKeepLocals DEF SameLocals
<1>5. CASE SendNext(c)
  <2>1. PICK t \in out[c], ok \in BOOLEAN :
          SendLine(t.fd, t.line, ok) /\ out' = [out EXCEPT ![c] = Left(c, t, ok)]
    BY <1>5, Zenon DEF SendNext
  <2>2. CASE ok
    <3>1. out'[c] = out[c] \ {t} /\ fdTable[t.fd] # NoConn
          /\ wire' = [wire EXCEPT ![fdTable[t.fd]] = Append(@, t.line)]
      BY <2>1, <2>2 DEF Left, SendLine, TypeInv, TypeOK, ThreadTypeOK
    <3>2. CASE t # s
      BY <3>1, <3>2
    <3>3. CASE t = s
      <4>1. /\ DOMAIN wire'[k] = DOMAIN wire[k] \cup {Len(wire[k]) + 1}
            /\ wire'[k][Len(wire[k]) + 1] = s.line
        BY <1>1, <3>1, <3>3, WireEntry
      <4> QED BY <4>1 DEF OnWire
    <3> QED BY <3>2, <3>3
  <2>3. CASE ~ok
    <3>1. MayFail(fdTable[t.fd])
      BY <2>1, <2>3 DEF SendLine
    <3>2. t.fd # s.fd
      BY <1>1, <3>1, ServerAssumption DEF MayFail
    <3>3. t.line.kind # "history"
      <4>1. CASE s.line.kind = "public"
        BY <4>1 DEF ToSay, Public
      <4>2. CASE s.line.kind = "history"
        BY <3>2, <4>2 DEF RowsOwn
      <4> QED BY <4>1, <4>2
    <3> QED BY <2>1, <3>2, <3>3 DEF Left, TypeInv, TypeOK, ThreadTypeOK
  <2> QED BY <2>2, <2>3
<1>6. CASE ThreadStep(c) /\ ~SendNext(c)
  <2>1. out' = out
    BY <1>1, <1>6 DEF ThreadStep, HandlerStep, CallRecv, RecvData, RecvEnd, Register,
         AddUserStep, Authorize, Publish, Expecting, TooLong, StorePublic, Snapshot, CheckReceiver,
         StorePrivate, Route, Notice, GetUsers, GetHistory, GetPrivateHistory, GetPrivateThrows,
         Exit, UnknownCommand, SigPipe, Erase, Close, JustReplies, Takes, Receives
  <2> QED BY <2>1
<1> QED BY <1>2, <1>3, <1>4, <1>5, <1>6, StepKinds

\* A thread that has stored a public line stays there until it copies the targets.
LEMMA SnapshotNext ==
  ASSUME Owns, [Next]_vars, ~Terminate, NEW a \in Conns, pc[a] = "snapshot"
  PROVE  (pc'[a] = "snapshot" /\ cmd'[a] = cmd[a]) \/ Snapshot(a)
<1> USE DEF Owns, Base
<1>1. CASE Quiet
  BY <1>1 DEF Quiet, threadVars
<1>2. CASE Spawn
  BY <1>2 DEF Spawn, Waiting, TypeInv, TypeOK, ThreadTypeOK
<1>3. ASSUME NEW d \in Conns, Accept(d)
      PROVE  pc' = pc /\ cmd' = cmd
  BY <1>3 DEF Accept
<1>4. ASSUME NEW d \in Conns, ThreadStep(d), d # a
      PROVE  pc'[a] = pc[a] /\ cmd'[a] = cmd[a]
  BY <1>4, OthersKeepLocals DEF SameLocals
<1>5. CASE ThreadStep(a)
  BY <1>5 DEF ThreadStep, HandlerStep, CallRecv, RecvData, RecvEnd, Register,
         AddUserStep, Authorize, Publish, Expecting, TooLong, StorePublic, CheckReceiver,
         StorePrivate, Route, Notice, GetUsers, GetHistory, GetPrivateHistory, GetPrivateThrows,
         Exit, UnknownCommand, SendNext, SigPipe, Erase, Close, JustReplies, Takes, Receives
<1> QED BY <1>1, <1>2, <1>3, <1>4, <1>5, StepKinds

\* What a client had, or was to get, it has or is to get after a step.
LEMMA HasStays ==
  ASSUME Owns, ~ReuseHeld, OpenInv, RowsOwn, ToSay, [Next]_vars, ~Terminate,
         NEW k \in Conns, peer[k] = "open", Live(k), NEW m, Has(k, m)
  PROVE  Has(k, m)'
<1> USE DEF Owns, Base
<1>1. fd'[k] = fd[k] /\ fdTable[fd[k]] = k /\ Listed(fd[k]) /\ fd[k] \in Fds
  BY FdStep DEF OpenInv
<1>2. CASE m[1] = k
  BY <1>2 DEF Has
<1>3. CASE OnWire(k, "public", m) \/ OnWire(k, "history", m)
  BY <1>3, WireKept DEF Has
<1>4. ASSUME NEW s \in out[k], s.line.kind = "history", s.line.id = m
      PROVE  Has(k, m)'
  <2>1. s.fd = fd[k]
    BY <1>4 DEF RowsOwn
  <2>2. s \in out'[k] \/ OnWire(k, s.line.kind, s.line.id)'
    BY <1>4, <2>1, SendServed
  <2> QED BY <1>4, <2>2 DEF Has, Coming, OnWire
<1>5. ASSUME NEW a \in Conns, NEW s \in out[a], Public(s.line), s.line.id = m, s.fd = fd[k]
      PROVE  Has(k, m)'
  <2>1. s \in out'[a] \/ OnWire(k, s.line.kind, s.line.id)'
    BY <1>5, SendServed DEF Public
  <2> QED BY <1>1, <1>5, <2>1 DEF Has, Coming, OnWire, Public
<1>6. ASSUME NEW a \in Conns, pc[a] = "snapshot", cmd[a].id = m, m[1] # k
      PROVE  Has(k, m)'
  <2>1. CASE pc'[a] = "snapshot" /\ cmd'[a] = cmd[a]
    BY <1>6, <2>1 DEF Has, Coming
  <2>2. CASE Snapshot(a)
    <3>1. out'[a] = {ToSend(<<0, i>>, clientSockets[i], "public", cmd[a].id, NoLogin) : i \in Targets(a)}
      BY <2>2 DEF Snapshot, TypeInv, TypeOK, ThreadTypeOK
    <3>2. a # k
      BY <1>6 DEF ProvedInv, OwnRead, Places, PlaceInv, Working
    <3>3. fd[a] # fd[k]
      BY <1>6, <3>2 DEF OwnInv, Distinct, Present, Live
    <3>4. PICK i \in DOMAIN clientSockets : clientSockets[i] = fd[k]
      BY <1>1 DEF Listed
    <3>5. i \in Targets(a)
      BY <3>3, <3>4 DEF Targets
    <3> DEFINE s == ToSend(<<0, i>>, clientSockets[i], "public", cmd[a].id, NoLogin)
    <3>6. s \in out'[a]
      BY <3>1, <3>5
    <3>7. s.fd = fd'[k] /\ Public(s.line) /\ s.line.id = m
      BY <1>1, <1>6, <3>4 DEF ToSend, Public
    <3> HIDE DEF s
    <3> QED BY <3>6, <3>7 DEF Has, Coming, Public
  <2> QED BY <1>6, <2>1, <2>2, SnapshotNext
<1> QED BY <1>2, <1>3, <1>4, <1>5, <1>6 DEF Has, Coming

\* A client only begins to have the history by asking for it, and gets every row.
LEMMA EndedFrom ==
  ASSUME Owns, ~DbFaults, OpenInv, RowsOwn, [Next]_vars, NEW k \in Conns, peer[k] = "open",
         Ended(k)'
  PROVE  \/ Ended(k)
         \/ /\ UNCHANGED messages
            /\ \A i \in PublicRows : \E s \in out'[k] :
                 s.line.kind = "history" /\ s.line.id = messages[i].content
<1> USE DEF Owns, Base
<1>1. ASSUME NEW i \in DOMAIN wire'[k], Ending(wire'[k][i])
      PROVE  Ended(k)
  <2>1. CASE i \in DOMAIN wire[k] /\ wire'[k][i] = wire[k][i]
    BY <1>1, <2>1 DEF Ended
  <2>2. ASSUME NEW c \in Conns, NEW s \in out[c], s.fd \in Fds, fdTable[s.fd] = k, Ending(s.line)
        PROVE  Ended(k)
    <3>1. s.fd = fd[c] /\ Live(c)
      BY <2>2 DEF RowsOwn, Ending, Places, PlaceInv, Live
    <3>2. fd[k] = s.fd /\ Present(k)
      BY <2>2 DEF OwnInv, TableOwn
    <3>3. c = k
      BY <3>1, <3>2 DEF OwnInv, Distinct, Present
    <3> QED BY <2>2, <3>3 DEF Ended
  <2>3. \/ i \in DOMAIN wire[k] /\ wire'[k][i] = wire[k][i]
        \/ \E c \in Conns : \E s \in out[c] : s.fd \in Fds /\ fdTable[s.fd] = k /\ wire'[k][i] = s.line
    BY <1>1, WireStep, WireEntry
  <2> QED BY <1>1, <2>1, <2>2, <2>3
<1>2. ASSUME NEW e \in out'[k], Ending(e.line), e \notin out[k]
      PROVE  /\ UNCHANGED messages
             /\ \A i \in PublicRows : \E s \in out'[k] :
                  s.line.kind = "history" /\ s.line.id = messages[i].content
  <2>1. GetHistory(k)
    <3>1. CASE Quiet \/ Terminate \/ Spawn
      BY <1>2, <3>1 DEF Quiet, Terminate, Spawn, threadVars
    <3>2. ASSUME NEW d \in Conns, Accept(d)
          PROVE  FALSE
      BY <1>2, <3>2 DEF Accept
    <3>3. ASSUME NEW d \in Conns, ThreadStep(d), d # k
          PROVE  FALSE
      BY <1>2, <3>3, OthersKeepLocals DEF SameLocals
    <3>4. CASE Snapshot(k)
      <4>1. out'[k] = {ToSend(<<0, i>>, clientSockets[i], "public", cmd[k].id, NoLogin) : i \in Targets(k)}
        BY <3>4 DEF Snapshot, TypeInv, TypeOK, ThreadTypeOK
      <4> QED BY <1>2, <4>1 DEF ToSend, Ending
    <3>5. CASE Route(k)
      <4>1. e.line = [kind |-> "private", id |-> cmd[k].id, login |-> cmd[k].login]
        BY <1>2, <3>5, RouteSends
      <4> QED BY <1>2, <4>1 DEF Ending
    <3>6. CASE SendNext(k)
      BY <1>2, <3>6, SendNextMoves
    <3>7. CASE AddUserStep(k)
      <4>1. PICK kind \in {"REGISTER_SUCCESS", "REGISTER_FAILED"} : \E l : Reply(k, kind, l)
        BY <3>7 DEF AddUserStep
      <4> QED BY <1>2, <4>1 DEF Reply, ToSend, Ending, TypeInv, TypeOK, ThreadTypeOK
    <3>8. CASE GetPrivateHistory(k)
      <4>1. \/ \E l : Reply(k, "PRIVATE_HISTORY_FAILED", l)
            \/ \E rows, l : l # NoLogin /\ SendRows(k, rows, l)
        BY <3>8 DEF GetPrivateHistory
      <4>2. ASSUME NEW l, Reply(k, "PRIVATE_HISTORY_FAILED", l)
            PROVE  FALSE
        BY <1>2, <4>2 DEF Reply, ToSend, Ending, TypeInv, TypeOK, ThreadTypeOK
      <4>3. ASSUME NEW rows, NEW l, l # NoLogin, SendRows(k, rows, l)
            PROVE  FALSE
        <5>1. e.line.login = l
          BY <1>2, <4>3 DEF SendRows, ToSend, TypeInv, TypeOK, ThreadTypeOK
        <5> QED BY <1>2, <4>3, <5>1 DEF Ending
      <4> QED BY <4>1, <4>2, <4>3
    <3>9. CASE ThreadStep(k) /\ ~(Snapshot(k) \/ Route(k) \/ SendNext(k) \/ AddUserStep(k)
                                  \/ GetHistory(k) \/ GetPrivateHistory(k))
      <4>1. out' = out \/ \E kind \in Kinds \ {"END_OF_HISTORY"} : \E l : Reply(k, kind, l)
        BY <3>9 DEF ThreadStep, HandlerStep, CallRecv, RecvData, RecvEnd, Register, Authorize,
           Publish, Expecting, TooLong, StorePublic, CheckReceiver, StorePrivate, Notice, GetUsers,
           GetPrivateThrows, Exit, UnknownCommand, SigPipe, Erase, Close, JustReplies, Kinds
      <4>2. ASSUME NEW kind \in Kinds \ {"END_OF_HISTORY"}, NEW l, Reply(k, kind, l)
            PROVE  FALSE
        BY <1>2, <4>2 DEF Reply, ToSend, Ending, TypeInv, TypeOK, ThreadTypeOK
      <4> QED BY <1>2, <4>1, <4>2
    <3> QED BY <3>1, <3>2, <3>3, <3>4, <3>5, <3>6, <3>7, <3>8, <3>9, StepKinds
  <2>2. messages' = messages /\ SendRows(k, PublicRows, NoLogin)
    BY <2>1, FetchedRows DEF GetHistory, dbVars
  <2>3. out'[k] =
          {ToSend(<<messages[i].time, i>>, fd[k], "history", messages[i].content, NoLogin) : i \in PublicRows}
            \cup {ToSend(<<MaxClock + 1, 0>>, fd[k], "END_OF_HISTORY", NoId, NoLogin)}
    BY <2>2 DEF SendRows, TypeInv, TypeOK, ThreadTypeOK
  <2>4. ASSUME NEW i \in PublicRows
        PROVE  \E s \in out'[k] : s.line.kind = "history" /\ s.line.id = messages[i].content
    <3> DEFINE s == ToSend(<<messages[i].time, i>>, fd[k], "history", messages[i].content, NoLogin)
    <3>1. s \in out'[k]
      BY <2>3
    <3>2. s.line.kind = "history" /\ s.line.id = messages[i].content
      BY DEF ToSend
    <3> QED BY <3>1, <3>2
  <2> QED BY <2>2, <2>4
<1> QED BY <1>1, <1>2 DEF Ended, Ending

\* A public row was there before, or its author's thread is about to broadcast it.
LEMMA PublicFrom ==
  ASSUME Owns, ReceiverKnown, [Next]_vars, NEW i \in PublicRows'
  PROVE  \/ i \in PublicRows /\ messages'[i] = messages[i]
         \/ \E c \in Conns : pc'[c] = "snapshot" /\ cmd'[c].id = messages'[i].content
<1> USE DEF Owns, Base
<1>1. CASE UNCHANGED messages
  BY <1>1 DEF PublicRows
<1>2. ASSUME NEW s, NEW r, NEW t, AddMessage(s, r, t)
      PROVE  \/ i \in PublicRows /\ messages'[i] = messages[i]
             \/ messages'[i].content = t /\ (r = NoLogin \/ UserId(r) = Null)
  <2> DEFINE row == [from |-> UserId(s), to |-> IF r = NoLogin THEN Null ELSE UserId(r),
                     content |-> t, time |-> clock, addr |-> r]
  <2>1. CASE UNCHANGED messages
    BY <2>1 DEF PublicRows
  <2>2. CASE messages' = Append(messages, row)
    <3>1. messages \in Seq(MessageRow) /\ i \in DOMAIN messages' /\ messages'[i].to = Null
             /\ messages'[i].from # Null
      BY DEF TypeInv, TypeOK, DbTypeOK, PublicRows
    <3>2. row.content = t /\ row.to = IF r = NoLogin THEN Null ELSE UserId(r)
      OBVIOUS
    <3> HIDE DEF row
    <3>3. (i \in DOMAIN messages /\ messages'[i] = messages[i]) \/ messages'[i] = row
      BY <2>2, <3>1
    <3> QED BY <3>1, <3>2, <3>3 DEF PublicRows
  <2> QED BY <1>2, <2>1, <2>2 DEF AddMessage
<1>3. ASSUME NEW c \in Conns, StorePublic(c)
      PROVE  \/ i \in PublicRows /\ messages'[i] = messages[i]
             \/ pc'[c] = "snapshot" /\ cmd'[c].id = messages'[i].content
  <2>1. /\ AddMessage(who[c], NoLogin, Head(lines[c]).id)
        /\ pc'[c] = "snapshot" /\ cmd'[c] = Head(lines[c])
    BY <1>3 DEF StorePublic, Takes, SetPc, TypeInv, TypeOK, ThreadTypeOK
  <2> QED BY <1>2, <2>1
<1>4. ASSUME NEW c \in Conns, StorePrivate(c)
      PROVE  i \in PublicRows /\ messages'[i] = messages[i]
  <2>1. AddMessage(who[c], cmd[c].login, cmd[c].id) /\ pc[c] = "store"
    BY <1>4 DEF StorePrivate
  <2>2. cmd[c].login # NoLogin /\ Registered(cmd[c].login)
    BY <2>1 DEF ReceiverKnown, Places, PlaceInv
  <2>3. UserId(cmd[c].login) # Null
    BY <2>2 DEF UserId, Registered, Null, TypeInv, TypeOK, DbTypeOK
  <2> QED BY <1>2, <2>1, <2>2, <2>3
<1> QED BY <1>1, <1>3, <1>4, MessagesStep

LEMMA GapStep ==
  ASSUME Owns, ~ReuseHeld, ~DbFaults, OpenInv, RowsOwn, Told, ToSay, ReceiverKnown, GapInv,
         [Next]_vars
  PROVE  GapInv'
<1> USE DEF Owns, Base
<1> SUFFICES ASSUME NEW k \in Conns, peer'[k] = "open", Ended(k)',
                    NEW i \in PublicRows', NEW m, m = messages'[i].content
             PROVE  Has(k, m)'
  <2> HIDE DEF Owns, Base
  <2>1. ASSUME NEW k \in Conns, peer'[k] = "open", Ended(k)',
               NEW i \in PublicRows', NEW m, m = messages'[i].content, Has(k, m)'
        PROVE  Has(k, messages[i].content)'
    BY <2>1 DEF Has, OnWire, Coming, Public
  <2> QED BY <2>1 DEF GapInv
<1>1. peer[k] = "open" /\ ~Terminate
  <2>1. CASE Accept(k)
    <3>1. pc[k] = "none" /\ out' = out /\ wire' = wire
      BY <2>1, ServerAssumption DEF Accept, ActiveInv
    <3>2. out[k] = {} /\ wire[k] = <<>>
      BY <3>1 DEF Places, PlaceInv, Told
    <3>3. DOMAIN wire'[k] = {}
      BY <3>1, <3>2
    <3> QED BY <3>1, <3>2, <3>3 DEF Ended
  <2> QED BY <2>1, OpenFrom
<1>2. CASE ~Ended(k)
  <2>1. PICK s \in out'[k] : s.line.kind = "history" /\ s.line.id = m
    <3>1. messages' = messages
      BY <1>1, <1>2, EndedFrom
    <3>2. PublicRows' = PublicRows /\ i \in PublicRows /\ m = messages[i].content
      BY <3>1 DEF PublicRows
    <3> QED BY <1>1, <1>2, <3>2, EndedFrom
  <2> QED BY <2>1 DEF Has, Coming
<1>3. CASE Ended(k)
  <2>1. Live(k)
    <3>1. CASE out[k] # {}
      BY <3>1 DEF Places, PlaceInv, Live
    <3>2. CASE wire[k] # <<>>
      BY <1>1, <3>2 DEF Told, OpenInv, Present, Waiting
    <3>3. out[k] # {} \/ wire[k] # <<>>
      BY <1>3 DEF Ended
    <3> QED BY <3>1, <3>2, <3>3
  <2>2. CASE i \in PublicRows /\ messages'[i] = messages[i]
    BY <1>1, <1>3, <2>1, <2>2, HasStays DEF GapInv
  <2>3. CASE \E c \in Conns : pc'[c] = "snapshot" /\ cmd'[c].id = m
    BY <2>3 DEF Has, Coming
  <2> QED BY <2>2, <2>3, PublicFrom
<1> QED BY <1>2, <1>3

\* When every thread is back in its loop, nothing is on its way.
LEMMA GapClosed ==
  ASSUME Owns, GapInv
  PROVE  NoGap
<1> SUFFICES ASSUME Quiescent, NEW k \in Conns, NEW e \in DOMAIN wire[k],
                    wire[k][e].kind = "END_OF_HISTORY", wire[k][e].login = NoLogin,
                    peer[k] = "open", NEW i \in PublicRows, NEW m, m = messages[i].content
             PROVE  m[1] = k \/ OnWire(k, "public", m) \/ OnWire(k, "history", m)
  BY DEF NoGap
<1>1. Has(k, m)
  BY DEF GapInv, Ended, Ending
<1>2. \A c \in Conns : pc[c] # "snapshot" /\ out[c] = {}
  BY DEF Quiescent, Live, Owns, Base, Places, PlaceInv
<1> QED BY <1>1, <1>2 DEF Has, Coming

\* While accept returns no number a thread still holds and no query fails, a client
\* that loaded the public history and stayed has every public message once the
\* threads are idle, from the history or live: handlePublicMessage stores before it
\* broadcasts, a history is read in one query, and a client is in clientSockets
\* before it can ask for one.
THEOREM NothingMissed == ~ReuseHeld /\ ~DbFaults => (Spec => []NoGap)
<1> SUFFICES ASSUME ~ReuseHeld, ~DbFaults
             PROVE  Spec => []NoGap
  OBVIOUS
<1> DEFINE Gap == OpenInv /\ RowsOwn /\ Told /\ ReceiverKnown /\ GapInv
<1>1. Init => Gap
  BY DEF Init, OpenInv, RowsOwn, Told, ReceiverKnown, GapInv
<1>2. ASSUME Owns, OrderInv, Gap, [Next]_vars
      PROVE  Gap'
  BY <1>2, OpenStep, RowsOwnStep, ToldStep, ReceiverKnownStep, GapStep DEF Owns, Base, OrderInv
<1>3. Owns /\ Gap => NoGap
  BY GapClosed
<1> HIDE DEF Gap
<1> QED BY <1>1, <1>2, <1>3, OwnsAlways, OrderAlways, PTL DEF Spec

=============================================================================
