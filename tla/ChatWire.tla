------------------------------ MODULE ChatWire ------------------------------
(***************************************************************************)
(* One connection of the chat as a stream of bytes: how handleClient puts  *)
(* commands together from what recv returns, how send_line puts lines on   *)
(* the socket although several threads write to it and a send may take     *)
(* only a part, and how sendAUTH and receiveMessages of the client cut     *)
(* lines out of what they receive.                                         *)
(*                                                                         *)
(* The other modules take lines and commands for whole; this one says when *)
(* that is right.                                                          *)
(***************************************************************************)
EXTENDS Naturals, Sequences, FiniteSets, SequencesExt

CONSTANTS
  Newline,      \* TRUE: the client ends a command with a newline; the shipped one does not
  Auth,         \* the text of AUTH, a sequence of bytes
  Commands,     \* texts of commands sent after the login
  ChatLine,     \* the text of a chat line
  Others,       \* handlers of other connections that send chat lines on this one
  RecvMax,      \* BUFFER_SIZE - 1: bytes one recv returns at most
  MaxLine,      \* BUFFER_SIZE - 50: longest command
  MaxSends,     \* bound: commands the client sends
  MaxChat       \* bound: chat lines sent on the connection

NL == "nl"
CR == "cr"
TooLong == <<"too", "long">>
AuthSuccess == <<"o", "k">>
OtherReply == <<"re">>

Handler == "handler"
Threads == {Handler} \cup Others

ASSUME WireAssumption ==
  /\ Newline \in BOOLEAN
  /\ Handler \notin Others /\ IsFiniteSet(Others)
  /\ RecvMax \in Nat \ {0} /\ MaxLine \in Nat /\ MaxSends \in Nat /\ MaxChat \in Nat
  /\ \A m \in Commands \cup {Auth, ChatLine} :
       m \in Seq(STRING) /\ \A i \in DOMAIN m : m[i] # NL
  /\ Auth # <<>> /\ Len(Auth) <= MaxLine /\ Last(Auth) # CR

VARIABLES
  sent,            \* history: the commands the client has sent
  mode,            \* the client: "menu", in sendAUTH "auth", with its receiver thread "chat"
  up,              \* bytes under way to the server
  pc,              \* handleClient: in "recv", in the loop over "lines"
  lineBuffer,
  authorized,
  handled,         \* history: what handleClient has made of each command
  line,            \* per thread, the line of its send_line with the newline, or <<>>
  left,            \* per thread, how many bytes of it are left to send
  begun,           \* history: the lines in the order of their first bytes
  torn,            \* history: a thread wrote in the middle of another's line
  down,            \* bytes under way to the client
  dropped,         \* history: bytes sendAUTH has read
  incomingBuffer,
  received         \* history: the lines receiveMessages has taken

clientVars == <<sent, mode, dropped, incomingBuffer, received>>
handleVars == <<pc, lineBuffer, authorized, handled>>
sendVars   == <<line, left, begun, torn>>
vars == <<clientVars, up, handleVars, sendVars, down>>

TypeOK ==
  /\ Len(sent) <= MaxSends /\ mode \in {"menu", "auth", "chat"}
  /\ pc \in {"recv", "lines"} /\ authorized \in BOOLEAN
  /\ Len(handled) <= Len(sent)
  /\ \A t \in Threads : left[t] \in 0..Len(line[t])
  /\ torn \in BOOLEAN
  /\ Len(received) <= Len(begun)

Init ==
  /\ sent = <<>> /\ mode = "menu" /\ up = <<>>
  /\ pc = "recv" /\ lineBuffer = <<>> /\ authorized = FALSE /\ handled = <<>>
  /\ line = [t \in Threads |-> <<>>] /\ left = [t \in Threads |-> 0]
  /\ begun = <<>> /\ torn = FALSE
  /\ down = <<>> /\ dropped = <<>> /\ incomingBuffer = <<>> /\ received = <<>>

\* The place of the first newline, 0 if there is none.
Find(buffer) == SelectInSeq(buffer, LAMBDA b : b = NL)

FirstLine(buffer) == SubSeq(buffer, 1, Find(buffer) - 1)

\* Mutant: erase(0, pos).
KeepNewline(buffer) == SubSeq(buffer, Find(buffer), Len(buffer))

\* erase(0, pos + 1)
RestLines(buffer) == SubSeq(buffer, Find(buffer) + 1, Len(buffer))

\* What one recv may return.
RecvOf(bytes) == {SubSeq(bytes, 1, n) : n \in {k \in 1..Len(bytes) : k <= RecvMax}}

After(bytes, got) == SubSeq(bytes, Len(got) + 1, Len(bytes))

-----------------------------------------------------------------------------
(* handleClient *)

\* Mutant: lineBuffer is a variable of the loop.
Overwrite(got) == got

\* lineBuffer.append
Extend(got) == lineBuffer \o got

ServerRecv ==
  /\ pc = "recv"
  /\ \E got \in RecvOf(up) :
       up' = After(up, got) /\ lineBuffer' = Extend(got)
  /\ pc' = "lines"
  /\ UNCHANGED <<clientVars, authorized, handled, sendVars, down>>

\* The text of a line, without a carriage return at its end.
Text(m) == IF m # <<>> /\ Last(m) = CR THEN Front(m) ELSE m

Outcome(m) == IF Len(Text(m)) > MaxLine THEN TooLong ELSE Text(m)

\* A command is answered by one line.
ReplyTo(what) ==
  IF what = TooLong THEN TooLong
  ELSE IF what = Auth /\ ~authorized THEN AuthSuccess ELSE OtherReply

StartLine(t, text) ==
  /\ line' = [line EXCEPT ![t] = Append(text, NL)]
  /\ left' = [left EXCEPT ![t] = Len(text) + 1]
  /\ UNCHANGED <<begun, torn>>

\* Mutant: if for while.
BackToRecv == "recv"

\* After a line, the loop looks for the next.
AfterLine == "lines"

\* The loop takes a line, and its handler answers before the next.
ServerLine ==
  /\ pc = "lines" /\ left[Handler] = 0 /\ Find(lineBuffer) > 0
  /\ LET what == Outcome(FirstLine(lineBuffer))
     IN /\ handled' = Append(handled, what)
        /\ authorized' = (authorized \/ what = Auth)
        /\ StartLine(Handler, ReplyTo(what))
  /\ lineBuffer' = RestLines(lineBuffer)
  /\ pc' = AfterLine
  /\ UNCHANGED <<clientVars, up, down>>

ServerNoLine ==
  /\ pc = "lines" /\ left[Handler] = 0 /\ Find(lineBuffer) = 0
  /\ pc' = "recv"
  /\ UNCHANGED <<clientVars, up, lineBuffer, authorized, handled, sendVars, down>>

-----------------------------------------------------------------------------
(* send_line *)

\* A broadcast or a private message of another connection goes to this one.
OtherLine(t) ==
  /\ t \in Others /\ left[t] = 0
  /\ Cardinality({i \in DOMAIN begun : begun[i] = ChatLine}) < MaxChat
  /\ StartLine(t, ChatLine)
  /\ UNCHANGED <<clientVars, up, handleVars, down>>

\* Mutant: data += sent is missing.
SameAgain(t, n) == SubSeq(line[t], 1, n)

\* The next n bytes.
Chunk(t, n) == SubSeq(line[t], Len(line[t]) - left[t] + 1, Len(line[t]) - left[t] + n)

Untouched(t) == left[t] = Len(line[t])

\* send takes n bytes: as many as there is room for, or as come before a signal.
SendSome(t) ==
  /\ \E n \in 1..left[t] :
       /\ down' = down \o Chunk(t, n)
       /\ left' = [left EXCEPT ![t] = @ - n]
  /\ begun' = IF Untouched(t) THEN Append(begun, Front(line[t])) ELSE begun
  /\ torn' = (torn \/ \E u \in Threads \ {t} : left[u] > 0 /\ ~Untouched(u))
  /\ UNCHANGED <<clientVars, up, handleVars, line>>

-----------------------------------------------------------------------------
(* The client *)

Wire(m) == IF Newline THEN Append(m, NL) ELSE m

ClientSend(m) ==
  /\ Len(sent) < MaxSends
  /\ sent' = Append(sent, m)
  /\ up' = up \o Wire(m)
  /\ UNCHANGED <<dropped, incomingBuffer, received, handleVars, sendVars, down>>

SendAuth == mode = "menu" /\ ClientSend(Auth) /\ mode' = "auth"

SendCommand == mode = "chat" /\ (\E m \in Commands : ClientSend(m)) /\ UNCHANGED mode

\* sendAUTH judges what one recv returns, up to the first newline or to its end, and
\* without any carriage return.
AuthRecv ==
  /\ mode = "auth"
  /\ \E got \in RecvOf(down) :
       /\ down' = After(down, got)
       /\ dropped' = dropped \o got
       /\ LET first == IF Find(got) = 0 THEN got ELSE FirstLine(got)
          IN mode' = IF SelectSeq(first, LAMBDA b : b # CR) = AuthSuccess THEN "chat" ELSE "menu"
  /\ UNCHANGED <<sent, incomingBuffer, received, up, handleVars, sendVars>>

\* SO_RCVTIMEO
AuthTimesOut ==
  /\ mode = "auth" /\ down = <<>>
  /\ mode' = "menu"
  /\ UNCHANGED <<sent, dropped, incomingBuffer, received, up, handleVars, sendVars, down>>

\* receiveMessages
ClientRecv ==
  /\ mode = "chat" /\ Find(incomingBuffer) = 0
  /\ \E got \in RecvOf(down) :
       down' = After(down, got) /\ incomingBuffer' = incomingBuffer \o got
  /\ UNCHANGED <<sent, mode, dropped, received, up, handleVars, sendVars>>

\* Its loop takes the next line, without a carriage return at its end.
ClientLine ==
  /\ Find(incomingBuffer) > 0
  /\ received' = Append(received, Text(FirstLine(incomingBuffer)))
  /\ incomingBuffer' = RestLines(incomingBuffer)
  /\ UNCHANGED <<sent, mode, dropped, up, handleVars, sendVars, down>>

-----------------------------------------------------------------------------
(* The specification *)

ServerStep == ServerRecv \/ ServerLine \/ ServerNoLine

Next ==
  \/ ServerStep
  \/ \E t \in Threads : OtherLine(t) \/ SendSome(t)
  \/ SendAuth \/ SendCommand \/ AuthRecv \/ AuthTimesOut \/ ClientRecv \/ ClientLine

Spec == Init /\ [][Next]_vars

\* The threads are scheduled, and a send that blocks gets room, because bytes that
\* arrive are read or the buffers are large enough for this connection.
FairSpec ==
  /\ Spec
  /\ WF_vars(ServerStep)
  /\ \A t \in Threads : WF_vars(SendSome(t))

-----------------------------------------------------------------------------
(* Properties *)

\* handleClient handles each command of the client once, in order and whole, however
\* recv cuts the stream, and nothing that was not sent.
CommandsWhole == IsPrefix(handled, [i \in DOMAIN sent |-> Outcome(sent[i])])

\* The bytes of lines on the wire.
Joined(lines) == FlattenSeq([i \in DOMAIN lines |-> Append(lines[i], NL)])

\* The received lines as they were cut from the stream: `ended` ended in a CR.
Cut(ended) ==
  [i \in DOMAIN received |-> IF i \in ended THEN Append(received[i], CR) ELSE received[i]]

\* Unless two send_line overlapped, the client takes the lines as they were sent, each
\* less the carriage return it may end in, from where sendAUTH stopped reading, however
\* sends and recvs cut them.
LinesWhole ==
  ~torn => \E ended \in SUBSET DOMAIN received :
    LET cut == Cut(ended)
    IN /\ \A i \in DOMAIN received : received[i] = Text(cut[i])
       /\ IsPrefix(dropped \o Joined(cut) \o incomingBuffer \o down, Joined(begun))

\* Every command that was sent is handled at last.
CommandsHandled ==
  \A i \in 1..MaxSends : (Len(sent) >= i) ~> (Len(handled) >= i)

=============================================================================
