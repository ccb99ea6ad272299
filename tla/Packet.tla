-------------------------------- MODULE Packet --------------------------------
(***************************************************************************)
(* Packets and payloads on the wire: encode() and decode() of packet.py,   *)
(* the parser of the socket.io client that the examples ship, and the      *)
(* framing of several messages in one HTTP body, on both sides.            *)
(*                                                                         *)
(* A text is a sequence of symbols.  A symbol is one of the characters     *)
(* that the parsers look for, a decimal number, or any other word, and     *)
(* counts as one character: an endpoint is a word, and JSON keeps of its   *)
(* syntax the brackets that its loader needs.  Packets of type error, which *)
(* neither side sends, are left out.                                       *)
(***************************************************************************)
EXTENDS Naturals, Sequences, SequencesExt

CONSTANTS
  Numeral,   \* the symbol of each number that is written
  Words,     \* the symbols that mean nothing to a parser
  NoText     \* the endpoint of a packet that has none: Python's None

COLON == ":"
PLUS  == "+"
MARK  == "\\ufffd"
NL    == "newline"
QUOTED_NL == "\\n"

\* The digit that stands for a type, in MSG_TYPES as in the client's `packets'.
MSG_TYPES ==
  [disconnect |-> "0", connect |-> "1", heartbeat |-> "2", message |-> "3", json |-> "4",
   event |-> "5", ack |-> "6", error |-> "7", noop |-> "8"]

ASSUME PacketAssumption ==
  /\ DOMAIN Numeral \subseteq Nat
  /\ IsInjective(Numeral)
  /\ Range(Numeral) \intersect {COLON, PLUS, MARK, NL, QUOTED_NL, "{", "}", "[", "]"} = {}

\* A packet; the fields that its type does not have are empty.
Blank ==
  [type |-> "noop", id |-> 0, ack |-> "none", endpoint |-> <<>>, name |-> <<>>,
   args |-> <<>>, data |-> <<>>, ackId |-> 0]

\* What stands for a packet when decode() raises.
Invalid == [Blank EXCEPT !.type = "invalid"]

-----------------------------------------------------------------------------
(* Helpers on texts. *)

Has(t, c) == \E i \in DOMAIN t : t[i] = c

\* What is before, and after, the first c in t; all of t, and nothing, without c.
Before(t, c) ==
  IF Has(t, c) THEN SubSeq(t, 1, SelectInSeq(t, LAMBDA x : x = c) - 1) ELSE t

After(t, c) ==
  IF Has(t, c) THEN SubSeq(t, SelectInSeq(t, LAMBDA x : x = c) + 1, Len(t)) ELSE <<>>

IsNumber(t) == Len(t) = 1 /\ t[1] \in Range(Numeral)
Number(t)   == CHOOSE n \in DOMAIN Numeral : Numeral[n] = t[1]

KeyOf(f, y) == CHOOSE x \in DOMAIN f : f[x] = y

\* t with c in front of it, unless t is empty.
Optional(c, t) == IF t = <<>> THEN <<>> ELSE <<c>> \o t

-----------------------------------------------------------------------------
(* JSON, as json.dumps and json.loads, and JSON.stringify and JSON.parse, treat *)
(* a list of at most one argument: a line feed is escaped, nothing else that    *)
(* the parsers look for is.                                                     *)

Dumps(args) ==
  <<"[">> \o (IF args = <<>> THEN <<>> ELSE ReplaceAll(args[1], NL, QUOTED_NL)) \o <<"]">>

IsJson(t) == Len(t) > 1 /\ Head(t) = "[" /\ Last(t) = "]"

Loads(t) ==
  IF Len(t) = 2 THEN <<>> ELSE <<ReplaceAll(SubSeq(t, 2, Len(t) - 1), QUOTED_NL, NL)>>

\* The object of an event: its name, and its args unless there are none.
DumpsEvent(name, args) ==
  <<"{">> \o name \o (IF args = <<>> THEN <<>> ELSE <<COLON>> \o Dumps(args)) \o <<"}">>

IsJsonEvent(t) ==
  /\ Len(t) > 2 /\ Head(t) = "{" /\ Last(t) = "}"
  /\ LET inner == SubSeq(t, 2, Len(t) - 1)
     IN  Has(inner, COLON) => IsJson(After(inner, COLON))

EventName(t) == Before(SubSeq(t, 2, Len(t) - 1), COLON)

EventArgs(t) ==
  LET inner == SubSeq(t, 2, Len(t) - 1)
  IN  IF Has(inner, COLON) THEN Loads(After(inner, COLON)) ELSE <<>>

-----------------------------------------------------------------------------
(* packet.py *)

HasPayload == {"message", "json", "event"}

\* encode() raises KeyError for an id without `ack', and TypeError for an
\* endpoint that is None.
Encodable(p) ==
  /\ p.endpoint # NoText
  /\ p.type \in HasPayload /\ p.id # 0 => p.ack # "none"

PayloadOf(p) ==
  CASE p.type = "message" -> p.data
    [] p.type = "json"    -> Dumps(<<p.data>>)
    [] p.type = "event"   -> DumpsEvent(p.name, p.args)

IdPart(p) ==
  IF p.id = 0 THEN <<>> ELSE <<Numeral[p.id]>> \o (IF p.ack = "data" THEN <<PLUS>> ELSE <<>>)

\* encode() of a packet that it does not raise for.
Encode(p) ==
  <<MSG_TYPES[p.type], COLON>> \o
  CASE p.type \in {"disconnect", "connect"} ->
         <<COLON>> \o p.endpoint \o Optional(COLON, p.data)
    [] p.type \in {"heartbeat", "noop"} -> <<COLON>>
    [] p.type \in HasPayload ->
         IdPart(p) \o <<COLON>> \o p.endpoint \o Optional(COLON, PayloadOf(p))
    [] p.type = "ack" ->
         <<COLON>> \o p.endpoint \o <<COLON, Numeral[p.ackId]>> \o
         (IF p.args = <<>> THEN <<>> ELSE <<PLUS>> \o Dumps(p.args))

\* rawstr.split(":", 3), of which decode() needs the first three parts.
Split(t) ==
  LET rest  == After(t, COLON)
      rest2 == After(rest, COLON)
  IN  [type |-> Before(t, COLON), id |-> Before(rest, COLON),
       endpoint |-> Before(rest2, COLON), data |-> After(rest2, COLON)]

\* Slip: no look at whether there is a '+'; the two parts are always unpacked.
AckDecodesPair(data) ==
  /\ Has(data, PLUS) /\ ~Has(After(data, PLUS), PLUS)
  /\ IsNumber(Before(data, PLUS)) /\ IsJson(After(data, PLUS))

\* data.split('+') must give two parts, a number and JSON.
AckDecodes(data) ==
  IF Has(data, PLUS)
  THEN /\ ~Has(After(data, PLUS), PLUS)
       /\ IsNumber(Before(data, PLUS)) /\ IsJson(After(data, PLUS))
  ELSE IsNumber(data)

\* decode() does not raise.
Decodable(t) ==
  LET s == Split(t)
  IN  /\ Has(t, COLON) /\ Has(After(t, COLON), COLON)
      /\ Len(s.type) = 1 /\ s.type[1] \in Range(MSG_TYPES)
      /\ s.id # <<>> => IsNumber(Before(s.id, PLUS))
      /\ CASE s.type[1] = MSG_TYPES.json  -> IsJson(s.data)
           [] s.type[1] = MSG_TYPES.ack   -> AckDecodes(s.data)
           [] OTHER -> TRUE

\* What every type has.
Header(s) ==
  [Blank EXCEPT !.type = KeyOf(MSG_TYPES, s.type[1]), !.endpoint = s.endpoint,
                !.id   = IF s.id = <<>> THEN 0 ELSE Number(Before(s.id, PLUS)),
                !.ack  = IF s.id = <<>> THEN "none" ELSE IF Has(s.id, PLUS) THEN "data" ELSE "true"]

\* Slip: split(":"), and the fourth part: data ends at its first ':'.
DecodeShort(t) ==
  LET s == [Split(t) EXCEPT !.data = Before(@, COLON)]
  IN  IF s.type[1] = MSG_TYPES.message THEN [Header(s) EXCEPT !.data = s.data] ELSE Header(s)

\* decode().  An event whose JSON does not parse has no name.
Decode(t) ==
  LET s == Split(t)
      p == Header(s)
  IN  IF ~Decodable(t) THEN Invalid
      ELSE CASE p.type \in {"connect", "message"} -> [p EXCEPT !.data = s.data]
             [] p.type = "json" -> [p EXCEPT !.data = Loads(s.data)[1]]
             [] p.type = "event" /\ IsJsonEvent(s.data) ->
                  [p EXCEPT !.name = EventName(s.data), !.args = EventArgs(s.data)]
             [] p.type = "event" /\ ~IsJsonEvent(s.data) -> [p EXCEPT !.name = NoText]
             [] p.type = "ack" ->
                  [p EXCEPT !.ackId = Number(Before(s.data, PLUS)),
                            !.args  = IF Has(s.data, PLUS) THEN Loads(After(s.data, PLUS))
                                      ELSE <<>>]
             [] OTHER -> p

-----------------------------------------------------------------------------
(* The parser of the client.  It only reads what encode() writes. *)

ClientData(p) ==
  CASE p.type = "ack" ->
         <<Numeral[p.ackId]>> \o (IF p.args = <<>> THEN <<>> ELSE <<PLUS>> \o Dumps(p.args))
    [] p.type = "connect" -> p.data
    [] p.type \in HasPayload -> PayloadOf(p)
    [] OTHER -> <<>>

\* parser.encodePacket()
ClientEncode(p) ==
  <<MSG_TYPES[p.type], COLON>> \o IdPart(p) \o <<COLON>> \o p.endpoint
    \o Optional(COLON, ClientData(p))

\* parser.decodePacket(): nothing in it raises, and the arguments of an ack are
\* all that follows its first '+'.
ClientDecode(t) ==
  LET s == Split(t)
      p == Header(s)
  IN  CASE p.type \in {"connect", "message"} -> [p EXCEPT !.data = s.data]
        [] p.type = "json" /\ IsJson(s.data) -> [p EXCEPT !.data = Loads(s.data)[1]]
        [] p.type = "event" /\ IsJsonEvent(s.data) ->
             [p EXCEPT !.name = EventName(s.data), !.args = EventArgs(s.data)]
        [] p.type = "ack" /\ IsNumber(Before(s.data, PLUS)) ->
             [p EXCEPT !.ackId = Number(Before(s.data, PLUS)),
                       !.args  = IF IsJson(After(s.data, PLUS)) THEN Loads(After(s.data, PLUS))
                                 ELSE <<>>]
        [] OTHER -> p

-----------------------------------------------------------------------------
(* Payloads: one message as it is, or each behind its length. *)

Frame(t) == <<MARK, Numeral[Len(t)], MARK>> \o t

Frames(msgs) == FlattenSeq([i \in DOMAIN msgs |-> Frame(msgs[i])])

\* encode_payload() of messages, without the None of kill() (Outbound has it).
EncodePayload(msgs) == IF Len(msgs) = 1 THEN msgs[1] ELSE Frames(msgs)

\* parser.encodePayload()
ClientEncodePayload(msgs) == IF Len(msgs) = 1 THEN msgs[1] ELSE Frames(msgs)

\* A slice stops where the text does.
Upto(t, n) == SubSeq(t, 1, IF n < Len(t) THEN n ELSE Len(t))
From(t, n) == SubSeq(t, n + 1, Len(t))

\* The message behind the length at the start of t, and what one turn of a loop leaves.
FirstMessage(t) == Upto(After(Tail(t), MARK), Number(Before(Tail(t), MARK)))
Left(t)    == From(After(Tail(t), MARK), Number(Before(Tail(t), MARK)))

\* What is still to read of t after k turns; each reads two marks and a number.
LeftAfter(t) ==
  LET left[k \in 0 .. Len(t) \div 3] ==
        IF k = 0 THEN t
        ELSE LET rest == left[k - 1] IN IF rest = <<>> THEN <<>> ELSE Left(rest)
  IN  left

\* The messages of the first n turns.
Messages(left, n) == [k \in 1 .. n |-> FirstMessage(left[k - 1])]

\* The loop of decode_payload(), on a text that starts with a mark: to its end.
Unframe(t) ==
  LET left == LeftAfter(t)
  IN  Messages(left, Min({k \in DOMAIN left : left[k] = <<>>}))

DecodePayload(t) == IF Head(t) = MARK THEN Unframe(t) ELSE <<t>>

\* The loop of parser.decodePayload(), which steps over what follows a message: to the
\* last mark.
ClientUnframe(t) ==
  LET left == LeftAfter(t)
  IN  Messages(left, Min({k \in DOMAIN left : left[k] = <<>> \/ ~Has(Tail(left[k]), MARK)}))

ClientDecodePayload(t) == IF Head(t) = MARK THEN ClientUnframe(t) ELSE <<t>>

\* _request_body(): wsgi_input.readline().
RequestBody(t) == IF Has(t, NL) THEN Before(t, NL) \o <<NL>> ELSE t

\* A message of the client that _request_body() does not read to its end, and what it
\* makes of it.
Multiline(p) == p.type = "message" /\ Has(p.data, NL)
FirstLine(p) == [p EXCEPT !.data = Before(@, NL) \o <<NL>>]
AsRead(p)    == IF Multiline(p) THEN FirstLine(p) ELSE p

-----------------------------------------------------------------------------
(* Packets that the two sides exchange. *)

Symbol == {COLON, PLUS, MARK, NL, QUOTED_NL, "{", "}", "[", "]"}
            \union Range(Numeral) \union Range(MSG_TYPES) \union Words

Text == Seq(Symbol)

Types == {"disconnect", "connect", "heartbeat", "message", "json", "event", "ack", "noop"}

\* The lists of arguments: JSON never writes an empty text, and what it escapes a line
\* feed to is not in what it is given.
Args == {s \in Seq(Text) :
           Len(s) <= 1 /\ \A i \in DOMAIN s : s[i] # <<>> /\ ~Has(s[i], QUOTED_NL)}

PacketType ==
  [type : Types, id : {0} \union (DOMAIN Numeral), ack : {"none", "true", "data"},
   endpoint : Text, name : Text, args : Args, data : Text,
   ackId : {0} \union (DOMAIN Numeral)]

\* A packet that either side may build: a field that its type does not have is empty, an
\* id goes with an `ack', no ':' is in an endpoint or in the name of an event.
Sound(p) ==
  /\ p \in PacketType
  /\ p.id = 0 <=> p.ack = "none"
  /\ p.type \notin HasPayload => p.id = 0
  /\ IF p.type = "ack" THEN p.ackId \in DOMAIN Numeral ELSE p.ackId = 0
  /\ ~Has(p.endpoint, COLON)
  /\ p.type \in {"heartbeat", "noop"} => p.endpoint = << >>
  /\ IF p.type = "event" THEN p.name # << >> /\ ~Has(p.name, COLON) ELSE p.name = << >>
  /\ p.type \notin {"event", "ack"} => p.args = << >>
  /\ p.type = "json" => p.data # << >> /\ ~Has(p.data, QUOTED_NL)
  /\ p.type \notin {"connect", "message", "json"} => p.data = << >>

\* A line feed is nowhere but in what JSON escapes, or in a message.
Lines(p) ==
  /\ ~Has(p.endpoint, NL) /\ ~Has(p.name, NL)
  /\ p.type = "connect" => ~Has(p.data, NL)

=============================================================================
