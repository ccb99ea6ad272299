-------------------------------- MODULE MCWire --------------------------------
(***************************************************************************)
(* Instances of Wire for TLC.                                              *)
(***************************************************************************)
EXTENDS Wire, TLC

Numbers == [n \in 0 .. 40 |-> ToString(n)]

AllWords == {"/chat", "?q", "a", "b", "c", "e", "f", "g", "j", "k", "m", "n", "p", "w", "x"}

Root == <<>>
Chat == <<"/chat">>

Event(e, name, arg, ack) ==
  [Blank EXCEPT !.type = "event", !.endpoint = e, !.name = <<name>>, !.args = arg, !.ack = ack]

Message(type, e, text, ack) ==
  [Blank EXCEPT !.type = type, !.endpoint = e, !.data = text, !.ack = ack]

Connect == [Blank EXCEPT !.type = "connect", !.endpoint = Chat, !.data = <<"?q", ":">>]

\* Arguments that hold what the parsers look for.
Tricky == <<<<"a", COLON, "b", NL, PLUS>>>>
Plain  == <<<<COLON, "c", NL>>>>
Word   == <<<<"w">>>>

Script(u, d) == [up |-> u, down |-> d]

\* Every kind of packet, in both directions, alone and in payloads; two endpoints
\* whose callbacks have the same id; replies of both sides that cross; a listener of
\* the client that acks with a text in which there is a '+'; a message of two lines.
AllScripts ==
  { Script(<<Connect, Message("message", Chat, <<"a", COLON, MARK>>, "none"),
             Message("json", Chat, <<"x", NL, COLON>>, "true")>>, <<>>),
    Script(<<Event(Root, "e", Tricky, "data"), Event(Chat, "e", Word, "data"),
             Event(Root, "f", <<>>, "none")>>, <<>>),
    Script(<<Event(Chat, "e", Tricky, "none"), Event(Chat, "f", Word, "none"),
             Event(Chat, "g", Word, "none")>>, <<Event(Chat, "p", Plain, "none")>>),
    Script(<<Message("message", Root, <<"m">>, "none")>>,
           <<Event(Chat, "p", Plain, "data"), Message("message", Root, <<"n", NL>>, "true")>>),
    Script(<<Event(Root, "e", Word, "data")>>,
           <<Event(Root, "p", Word, "data"), Message("json", Chat, <<"j", COLON, PLUS>>, "true")>>),
    Script(<<Event(Root, "e", Plain, "data"), Event(Chat, "e", Word, "data")>>,
           <<Event(Chat, "p", Word, "data"), Event(Root, "p", Plain, "data")>>),
    Script(<<Event(Root, "e", Word, "data")>>, <<Event(Root, "p", Tricky, "data")>>),
    Script(<<Message("message", Root, <<"m">>, "none"),
             Message("message", Chat, <<"a", NL, "b">>, "none"),
             Message("message", Chat, <<"k">>, "none")>>, <<>>) }

=============================================================================
