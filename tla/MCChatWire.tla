----------------------------- MODULE MCChatWire -----------------------------
(***************************************************************************)
(* Instances of ChatWire for TLC.                                          *)
(***************************************************************************)
EXTENDS ChatWire

MCAuth == <<"a">>
\* With a carriage return at its end, which is popped.
MCChat == <<"c", "cr">>

\* Short, with a carriage return, empty, and too long for MaxLine = 2 but not with
\* the carriage return that is cut off first.
MCCommands == {<<"b">>, <<>>, <<"b", "b", "cr">>, <<"b", "b", "b">>}

=============================================================================
