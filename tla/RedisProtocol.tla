---------------------------- MODULE RedisProtocol ---------------------------
(***************************************************************************)
(* The Redis adapter (src/api/redis-session-revocation.ts): isRevoked and  *)
(* revoke over requestRedis, which opens a connection for one command,     *)
(* sends AUTH first when the URL has a password, and cuts replies out of a *)
(* byte stream that arrives in pieces of any size.                         *)
(*                                                                         *)
(* Bytes are abstracted to symbols: a reply is its type byte, its value    *)
(* and the end of its line, any of which may arrive apart.  The socket     *)
(* timer is an idle timer, started again by every piece: it may end a call *)
(* at any time (a piece is late) or never (pieces keep coming).            *)
(***************************************************************************)
EXTENDS Integers, Sequences

CONSTANTS
  Calls,      \* calls of the adapter, by any instance
  Digests,    \* session digests
  Setups,     \* what the server demands and the URL of the adapter holds
  MaxReply    \* MAX_REPLY_BYTES, in symbols

ASSUME AdapterAssumption ==
  /\ Setups \subseteq [secured : BOOLEAN, password : {"none", "right", "wrong"}]
  /\ MaxReply \in Nat \ {0}
  /\ "none" \notin Digests

VARIABLES
  store,     \* the digests with a key in Redis
  lapsed,    \* the digests whose PXAT has passed
  setup,     \* one of the Setups, fixed in a behaviour
  call,      \* call[c]: the adapter's side of the connection
  answer,    \* answer[c]: what call c resolved with, or that it was rejected
  inbox,     \* inbox[c]: what was written to the socket and is on its way
  outbox,    \* outbox[c]: symbols of the server on their way
  admitted,  \* the connections on which the server accepted AUTH
  effect     \* effect[c]: what the server did with the command of c

net == <<inbox, outbox>>
server == <<store, admitted, effect>>
vars == <<store, lapsed, setup, call, answer, net, admitted, effect>>

Kinds == {"exists", "set"}
Answers == {"revoked", "clear", "stored", "failed"}
Symbols == {"+", ":", "-", "OK", "0", "1", "ERR", "other", "x", "eol"}
NewCall == [phase |-> "idle", kind |-> "none", digest |-> "none",
            sent |-> 0, pending |-> <<>>]

\* The operations of one connection.
Operations(c) ==
  IF setup.password = "none" THEN <<"command">> ELSE <<"auth", "command">>

TypeOK ==
  /\ store \subseteq Digests /\ lapsed \subseteq Digests
  /\ setup \in Setups
  /\ \A c \in Calls :
       /\ call[c].phase \in {"idle", "connecting", "waiting", "settled"}
       /\ call[c].kind \in Kinds \cup {"none"}
       /\ call[c].digest \in Digests \cup {"none"}
       /\ call[c].sent \in 0..Len(Operations(c))
       /\ call[c].pending \in Seq(Symbols) /\ Len(call[c].pending) <= MaxReply
       /\ answer[c] \in Answers \cup {"none"}
       /\ inbox[c] \in Seq({"auth", "command"})
       /\ outbox[c] \in Seq(Symbols)
       /\ effect[c] \in Answers \cup {"none"}
  /\ admitted \subseteq Calls

Init ==
  /\ store = {} /\ lapsed = {}
  /\ setup \in Setups
  /\ call = [c \in Calls |-> NewCall]
  /\ answer = [c \in Calls |-> "none"]
  /\ inbox = [c \in Calls |-> <<>>]
  /\ outbox = [c \in Calls |-> <<>>]
  /\ admitted = {}
  /\ effect = [c \in Calls |-> "none"]

Settled(c) == call[c].phase = "settled"
Open(c) == call[c].phase \in {"connecting", "waiting"}

-----------------------------------------------------------------------------
(* Replies.                                                                *)

Ends(text) == {i \in 1..Len(text) : text[i] = "eol"}
EndOfLine(text) == CHOOSE i \in Ends(text) : \A j \in Ends(text) : i <= j
Line(text) == SubSeq(text, 1, EndOfLine(text) - 1)
Rest(text) == SubSeq(text, EndOfLine(text) + 1, Len(text))

\* A scalar reply; every other type byte is a failure.
IsScalar(line) == line # <<>> /\ line[1] \in {"+", ":"}

IsOK(line) == line = <<"+", "OK">>

\* Mutant: whatever does not say "revoked" says that it is not.
MeaningLoose(kind, line) ==
  CASE kind = "exists" -> IF line = <<":", "1">> THEN "revoked" ELSE "clear"
    [] kind = "set" /\ IsOK(line) -> "stored"
    [] OTHER -> "failed"

\* What isRevoked and revoke make of the reply to their command.
Meaning(kind, line) ==
  CASE kind = "exists" /\ line = <<":", "1">> -> "revoked"
    [] kind = "exists" /\ line = <<":", "0">> -> "clear"
    [] kind = "set" /\ IsOK(line) -> "stored"
    [] OTHER -> "failed"

\* One turn of the loop over the lines received, for call c: s is what was sent,
\* what is pending and what the call comes to.
TakeLine(c, s) ==
  IF s.result # "none" \/ Ends(s.pending) = {} THEN s
  ELSE LET line == Line(s.pending)
       IN CASE ~IsScalar(line) -> [s EXCEPT !.result = "failed"]
            [] IsScalar(line) /\ s.sent = Len(Operations(c)) ->
                 [s EXCEPT !.pending = Rest(s.pending),
                           !.result = Meaning(call[c].kind, line)]
            [] IsScalar(line) /\ s.sent < Len(Operations(c)) ->
                 IF IsOK(line)
                 THEN [s EXCEPT !.pending = Rest(s.pending), !.sent = @ + 1]
                 ELSE [s EXCEPT !.result = "failed"]

\* Mutant: the size of what is pending is not looked at.
ReceivedAnySize(c, piece) ==
  LET s == [sent |-> call[c].sent, pending |-> call[c].pending \o piece,
            result |-> "none"]
  IN  TakeLine(c, TakeLine(c, s))

\* The loop: each turn settles the call or sends one of at most two operations.
Received(c, piece) ==
  LET text == call[c].pending \o piece
      s == [sent |-> call[c].sent, pending |-> text, result |-> "none"]
  IN  IF Len(text) > MaxReply THEN [s EXCEPT !.result = "failed"]
                              ELSE TakeLine(c, TakeLine(c, s))

-----------------------------------------------------------------------------
(* The adapter.                                                            *)

ServerUnchanged == UNCHANGED <<store, admitted, effect>>
SetupUnchanged == UNCHANGED <<lapsed, setup>>

\* isRevoked or revoke, up to the connection; a revocation that has nothing
\* left to revoke sends nothing.
Begin(c, kind, d) ==
  /\ call[c].phase = "idle"
  /\ LET moot == kind = "set" /\ d \in lapsed
     IN  /\ call' = [call EXCEPT ![c].phase = IF moot THEN "settled" ELSE "connecting",
                                 ![c].kind = kind, ![c].digest = d]
         /\ answer' = [answer EXCEPT ![c] = IF moot THEN "stored" ELSE "none"]
  /\ UNCHANGED net
  /\ ServerUnchanged /\ SetupUnchanged

\* Mutant: AUTH and the command are sent together.
ConnectPipelined(c) ==
  /\ call[c].phase = "connecting"
  /\ call' = [call EXCEPT ![c].phase = "waiting",
                          ![c].sent = Len(Operations(c))]
  /\ inbox' = [inbox EXCEPT ![c] = Operations(c)]
  /\ UNCHANGED <<answer, outbox>>
  /\ ServerUnchanged /\ SetupUnchanged

\* "connect": the first operation is sent.
Connect(c) ==
  /\ call[c].phase = "connecting"
  /\ call' = [call EXCEPT ![c].phase = "waiting", ![c].sent = 1]
  /\ inbox' = [inbox EXCEPT ![c] = <<Operations(c)[1]>>]
  /\ UNCHANGED <<answer, outbox>>
  /\ ServerUnchanged /\ SetupUnchanged

\* The promise is settled and the socket destroyed: what is still coming is
\* not read, what was written may still arrive.
Settle(c, result) ==
  /\ call' = [call EXCEPT ![c].phase = "settled", ![c].sent = 0,
                          ![c].pending = <<>>]
  /\ answer' = [answer EXCEPT ![c] = result]
  /\ outbox' = [outbox EXCEPT ![c] = <<>>]
  /\ UNCHANGED inbox

\* "data": a piece of any size of what the server sent.
Data(c, n) ==
  /\ call[c].phase = "waiting"
  /\ n \in 1..Len(outbox[c])
  /\ LET s == Received(c, SubSeq(outbox[c], 1, n))
         written == SubSeq(Operations(c), call[c].sent + 1, s.sent)
     IN  IF s.result # "none" THEN Settle(c, s.result)
         ELSE /\ call' = [call EXCEPT ![c].sent = s.sent,
                                      ![c].pending = s.pending]
              /\ inbox' = [inbox EXCEPT ![c] = @ \o written]
              /\ outbox' = [outbox EXCEPT ![c] = SubSeq(@, n + 1, Len(@))]
              /\ UNCHANGED answer
  /\ ServerUnchanged /\ SetupUnchanged

\* Mutant: the timer is set when the connection is there.
TimeOutOnceConnected(c) ==
  /\ call[c].phase = "waiting"
  /\ Settle(c, "failed")
  /\ ServerUnchanged /\ SetupUnchanged

\* "timeout", and the "error" and "close" it leads to.
TimeOut(c) ==
  /\ Open(c)
  /\ Settle(c, "failed")
  /\ ServerUnchanged /\ SetupUnchanged

\* "error" or "close": refused, reset, or ended by the server.
ConnectionLost(c) ==
  /\ Open(c)
  /\ Settle(c, "failed")
  /\ ServerUnchanged /\ SetupUnchanged

-----------------------------------------------------------------------------
(* The Redis server, and what may be in its place.                         *)

\* A reply reaches a socket that is not destroyed.
Reply(c, line) ==
  outbox' = [outbox EXCEPT ![c] = IF Open(c) THEN @ \o Append(line, "eol") ELSE @]

TakeNext(c) ==
  /\ inbox[c] # <<>>
  /\ inbox' = [inbox EXCEPT ![c] = Tail(@)]
  /\ UNCHANGED <<call, answer>>
  /\ SetupUnchanged

Accepts(c) == ~setup.secured \/ c \in admitted

ServeAuth(c) ==
  /\ TakeNext(c) /\ Head(inbox[c]) = "auth"
  /\ LET accepted == setup.secured /\ setup.password = "right"
     IN  /\ admitted' = IF accepted THEN admitted \cup {c} ELSE admitted
         /\ Reply(c, IF accepted THEN <<"+", "OK">> ELSE <<"-", "ERR">>)
  /\ UNCHANGED <<store, effect>>

ServeExists(c) ==
  /\ TakeNext(c) /\ Head(inbox[c]) = "command" /\ call[c].kind = "exists"
  /\ Accepts(c)
  /\ LET found == call[c].digest \in store
     IN  /\ effect' = [effect EXCEPT ![c] = IF found THEN "revoked" ELSE "clear"]
         /\ Reply(c, <<":", IF found THEN "1" ELSE "0">>)
  /\ UNCHANGED <<store, admitted>>

ServeSet(c) ==
  /\ TakeNext(c) /\ Head(inbox[c]) = "command" /\ call[c].kind = "set"
  /\ Accepts(c)
  /\ effect' = [effect EXCEPT ![c] = "stored"]
  /\ store' = store \cup ({call[c].digest} \ lapsed)
  /\ Reply(c, <<"+", "OK">>)
  /\ UNCHANGED admitted

\* An operation is not carried out: no AUTH, loading, read-only, out of memory,
\* or something that is not a Redis server.
Refuse(c, line) ==
  /\ TakeNext(c)
  /\ Reply(c, line)
  /\ ServerUnchanged

Refusals == {<<"-", "ERR">>, <<":", "other">>, <<"+", "other">>}

\* A server that sends on and on and ends no line.
Drip(c) ==
  /\ call[c].phase = "waiting" /\ outbox[c] = <<>>
  /\ outbox' = [outbox EXCEPT ![c] = <<"x">>]
  /\ UNCHANGED <<call, answer, inbox>>
  /\ ServerUnchanged /\ SetupUnchanged

\* PXAT is reached, by every clock at once (SessionRevocation has the skew).
Lapse(d) ==
  /\ d \notin lapsed
  /\ lapsed' = lapsed \cup {d}
  /\ store' = store \ {d}
  /\ UNCHANGED <<setup, call, answer, net, admitted, effect>>

-----------------------------------------------------------------------------
Serve(c) == ServeAuth(c) \/ ServeExists(c) \/ ServeSet(c)

Next ==
  \/ \E c \in Calls :
       \/ \E kind \in Kinds, d \in Digests : Begin(c, kind, d)
       \/ Connect(c)
       \/ \E n \in 1..(MaxReply + 1) : Data(c, n)
       \/ TimeOut(c)
       \/ ConnectionLost(c)
       \/ Serve(c)
       \/ \E line \in Refusals : Refuse(c, line)
       \/ Drip(c)
  \/ \E d \in Digests : Lapse(d)

\* The idle timer of an open socket: before long a piece arrives or the timer
\* fires.  Nothing else is asked of the server or the network.
PieceOrTimeOut(c) == TimeOut(c) \/ \E n \in 1..(MaxReply + 1) : Data(c, n)

Fairness == \A c \in Calls : WF_vars(PieceOrTimeOut(c))

Spec == Init /\ [][Next]_vars /\ Fairness

-----------------------------------------------------------------------------
(* What must hold.                                                         *)

\* One connection per command, whatever pieces replies come in, is a command
\* of the abstract store: what a call returns is what its own command found or
\* did, never the reply to AUTH, to another call, or half a line.
Store == INSTANCE RevocationStore WITH
           held <- store,
           asked <- [c \in Calls |-> [kind |-> call[c].kind,
                                      digest |-> call[c].digest]]

ImplementsStore == Store!Spec

\* The command is not on its way before the server has accepted the password,
\* when there is one.
CommandFollowsAuth ==
  \A c \in Calls :
    (\E i \in 1..Len(inbox[c]) : inbox[c][i] = "command") \/ effect[c] # "none"
      => setup.password = "none" \/ c \in admitted

\* Every call ends, whether the server is silent, away, or sends one piece
\* after the other and never a whole line.
CallEnds == \A c \in Calls : Open(c) ~> Settled(c)
=============================================================================
