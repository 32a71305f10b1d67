------------------------- MODULE RedisProtocolProofs ------------------------
(***************************************************************************)
(* That the adapter, with a connection for each command and replies that   *)
(* arrive in pieces of any size, is the store of RevocationStore, proved   *)
(* of RedisProtocol for any calls, digests, set-ups and bound on replies.  *)
(***************************************************************************)
EXTENDS RedisProtocol, SequenceTheorems, TLAPS

\* What a connection has received of the server and not used yet, and what is coming.
Stream(c) == call[c].pending \o outbox[c]

Garbage(text) == \A i \in 1..Len(text) : text[i] = "x"

\* A line that may come in reply to the last operation sent.
IsReply(c, line) ==
  IF call[c].sent = Len(Operations(c))
  THEN Meaning(call[c].kind, line) \in {"failed", effect[c]}
  ELSE IsOK(line) => c \in admitted

\* One line, and then nothing that matters.
OneReply(c, text) ==
  \E i \in 1..Len(text) :
    /\ text[i] = "eol" /\ \A j \in 1..(i - 1) : text[j] # "eol"
    /\ \A j \in (i + 1)..Len(text) : text[j] = "x"
    /\ IsReply(c, SubSeq(text, 1, i - 1))

CallRecords == [phase : {"idle", "connecting", "waiting", "settled"},
                kind : Kinds \cup {"none"}, digest : Digests \cup {"none"},
                sent : 0..2, pending : Seq(Symbols)]

Shape ==
  /\ setup \in Setups
  /\ store \subseteq Digests /\ lapsed \subseteq Digests /\ admitted \subseteq Calls
  /\ call \in [Calls -> CallRecords]
  /\ answer \in [Calls -> Answers \cup {"none"}]
  /\ inbox \in [Calls -> Seq({"auth", "command"})]
  /\ outbox \in [Calls -> Seq(Symbols)]
  /\ effect \in [Calls -> {"revoked", "clear", "stored", "none"}]

\* Of a call before its connection nothing is under way.
Unsent(c) ==
  /\ inbox[c] = <<>> /\ outbox[c] = <<>> /\ call[c].pending = <<>>
  /\ call[c].sent = 0 /\ effect[c] = "none" /\ answer[c] = "none"

\* Either the last operation sent has not been met, or it has one reply.
Underway(c) ==
  /\ answer[c] = "none"
  /\ call[c].sent \in 1..Len(Operations(c)) /\ Len(call[c].pending) <= MaxReply
  /\ call[c].sent < Len(Operations(c)) => effect[c] = "none"
  /\ \/ /\ inbox[c] = <<Operations(c)[call[c].sent]>>
        /\ Garbage(Stream(c)) /\ effect[c] = "none"
     \/ inbox[c] = <<>> /\ OneReply(c, Stream(c))

\* Of a settled call at most one operation is still on its way, and then it failed.
Over(c) ==
  /\ outbox[c] = <<>> /\ call[c].pending = <<>> /\ call[c].sent = 0
  /\ answer[c] # "none"
  /\ \/ inbox[c] = <<>>
     \/ inbox[c] \in {<<"auth">>, <<"command">>} /\ answer[c] = "failed"
  /\ inbox[c] = <<"command">> => effect[c] = "none"

CallInv(c) ==
  /\ call[c].phase = "idle" => call[c].kind = "none" /\ call[c].digest = "none"
  /\ call[c].phase # "idle" => call[c].kind \in Kinds /\ call[c].digest \in Digests
  /\ call[c].phase \in {"idle", "connecting"} => Unsent(c)
  /\ call[c].phase = "waiting" => Underway(c)
  /\ call[c].phase = "settled" => Over(c)
  /\ inbox[c] = <<"command">> \/ effect[c] # "none"
       => setup.password = "none" \/ c \in admitted

AdapterInv == Shape /\ \A c \in Calls : CallInv(c)

-----------------------------------------------------------------------------
(* Pieces and lines.                                                       *)

LEMMA Associative ==
  \A s, t, u \in Seq(Symbols) : (s \o t) \o u = s \o (t \o u)
  BY ConcatAssociative

\* What arrives of u and what is left of it.
Piece(u, n) == SubSeq(u, 1, n)
After(u, n) == SubSeq(u, n + 1, Len(u))

LEMMA PieceOfStream ==
  ASSUME NEW u \in Seq(Symbols), NEW n \in 1..Len(u)
  PROVE  /\ Piece(u, n) \in Seq(Symbols) /\ After(u, n) \in Seq(Symbols)
         /\ Piece(u, n) \o After(u, n) = u
<1>1. Len(u) \in Nat /\ n \in Nat /\ n <= Len(u) /\ \A i \in 1..Len(u) : u[i] \in Symbols
  BY LenProperties, ElementOfSeq
<1>2. SubSeq(u, 1, n) \in Seq(Symbols) /\ SubSeq(u, n + 1, Len(u)) \in Seq(Symbols)
  <2>1. \A i \in 1..n : u[i] \in Symbols
    BY <1>1
  <2>2. \A i \in (n + 1)..Len(u) : u[i] \in Symbols
    BY <1>1
  <2> QED
    BY <1>1, <2>1, <2>2, SubSeqProperties
<1>3. SubSeq(u, 1, n) \o SubSeq(u, n + 1, Len(u)) = u
  <2>1. /\ 1 \in 1..(Len(u) + 1) /\ n \in (1 - 1)..Len(u) /\ Len(u) \in n..Len(u)
    BY <1>1
  <2>2. SubSeq(u, 1, n) \o SubSeq(u, n + 1, Len(u)) = SubSeq(u, 1, Len(u))
    BY <2>1, ConcatAdjacentSubSeq
  <2> QED
    BY <2>2, SubSeqFull
<1> QED
  BY <1>2, <1>3 DEF Piece, After

LEMMA PieceAfterPiece ==
  ASSUME NEW p \in Seq(Symbols), NEW u \in Seq(Symbols), NEW n \in 1..Len(u)
  PROVE  /\ p \o Piece(u, n) \in Seq(Symbols)
         /\ (p \o Piece(u, n)) \o After(u, n) = p \o u
<1>1. /\ Piece(u, n) \in Seq(Symbols) /\ After(u, n) \in Seq(Symbols)
      /\ Piece(u, n) \o After(u, n) = u
  BY PieceOfStream
<1>2. (p \o Piece(u, n)) \o After(u, n) = p \o (Piece(u, n) \o After(u, n))
  BY <1>1, Associative
<1> QED
  BY <1>1, <1>2, ConcatProperties

LEMMA ConcatFacts ==
  ASSUME NEW s \in Seq(Symbols), NEW t \in Seq(Symbols)
  PROVE  /\ s \o t \in Seq(Symbols)
         /\ Len(s) \in Nat /\ Len(t) \in Nat /\ Len(s \o t) = Len(s) + Len(t)
         /\ \A i \in 1..Len(s) : (s \o t)[i] = s[i]
         /\ \A i \in 1..Len(t) : (s \o t)[Len(s) + i] = t[i]
<1>1. Len(s) \in Nat /\ Len(t) \in Nat
  BY LenProperties
<1>2. /\ s \o t \in Seq(Symbols) /\ Len(s \o t) = Len(s) + Len(t)
      /\ \A i \in 1..(Len(s) + Len(t)) :
           (s \o t)[i] = IF i <= Len(s) THEN s[i] ELSE t[i - Len(s)]
  BY ConcatProperties
<1>3. ASSUME NEW i \in 1..Len(t) PROVE (s \o t)[Len(s) + i] = t[i]
  <2>1. /\ Len(s) + i \in 1..(Len(s) + Len(t)) /\ ~(Len(s) + i <= Len(s))
        /\ Len(s) + i - Len(s) = i
    BY <1>1
  <2> QED
    BY <1>2, <2>1
<1> QED
  BY <1>1, <1>2, <1>3

\* The end of the first line, when it has come.
LEMMA EndMet ==
  ASSUME NEW text \in Seq(Symbols), NEW i \in 1..Len(text), text[i] = "eol",
         \A j \in 1..(i - 1) : text[j] # "eol"
  PROVE  Ends(text) # {} /\ EndOfLine(text) = i
<1>1. Len(text) \in Nat
  BY LenProperties
<1>2. i \in Ends(text) /\ \A j \in Ends(text) : i <= j
  BY <1>1 DEF Ends
<1>3. \A k \in Ends(text) : (\A j \in Ends(text) : k <= j) => k = i
  BY <1>1, <1>2 DEF Ends
<1>4. (CHOOSE k \in Ends(text) : \A j \in Ends(text) : k <= j) = i
  BY <1>2, <1>3
<1> QED
  BY <1>2, <1>4 DEF EndOfLine

\* Garbage ends no line, and none of its parts does.
LEMMA GarbageEndsNothing ==
  ASSUME NEW s \in Seq(Symbols), NEW t \in Seq(Symbols), Garbage(s \o t)
  PROVE  Ends(s) = {} /\ Ends(t) = {} /\ Garbage(s) /\ Garbage(t)
<1>1. \A i \in 1..Len(s) : s[i] = "x"
  BY ConcatFacts DEF Garbage
<1>2. \A i \in 1..Len(t) : t[i] = "x"
  <2> SUFFICES ASSUME NEW i \in 1..Len(t) PROVE t[i] = "x"
    OBVIOUS
  <2>1. Len(s) + i \in 1..Len(s \o t) /\ (s \o t)[Len(s) + i] = t[i]
    BY ConcatFacts
  <2> QED
    BY <2>1 DEF Garbage
<1> QED
  BY <1>1, <1>2 DEF Garbage, Ends

\* A line that came whole in text, and what is left.
LEMMA LineMet ==
  ASSUME NEW c \in Calls, NEW text \in Seq(Symbols), NEW rest \in Seq(Symbols),
         OneReply(c, text \o rest), Ends(text) # {}
  PROVE  /\ IsReply(c, Line(text))
         /\ Rest(text) \in Seq(Symbols) /\ Len(Rest(text)) <= Len(text)
         /\ Garbage(Rest(text) \o rest)
<1> DEFINE all == text \o rest
<1>1. PICK i \in 1..Len(all) :
        /\ all[i] = "eol" /\ \A j \in 1..(i - 1) : all[j] # "eol"
        /\ \A j \in (i + 1)..Len(all) : all[j] = "x"
        /\ IsReply(c, SubSeq(all, 1, i - 1))
  BY DEF OneReply
<1>2. /\ Len(text) \in Nat /\ Len(rest) \in Nat /\ Len(all) = Len(text) + Len(rest)
      /\ \A j \in 1..Len(text) : all[j] = text[j]
      /\ \A j \in 1..Len(rest) : all[Len(text) + j] = rest[j]
      /\ all \in Seq(Symbols)
  BY ConcatFacts
<1> HIDE DEF all
<1>3. PICK k \in 1..Len(text) : text[k] = "eol"
  BY DEF Ends
<1>4. k \in 1..Len(all) /\ all[k] = "eol"
  BY <1>2, <1>3
<1>5. i = k
  BY <1>1, <1>2, <1>4
<1>6. i \in 1..Len(text) /\ text[i] = "eol" /\ \A j \in 1..(i - 1) : text[j] # "eol"
  BY <1>1, <1>2, <1>3, <1>5
<1>7. EndOfLine(text) = i
  BY <1>6, EndMet
<1>8. Line(text) = SubSeq(all, 1, i - 1)
  <2>1. CASE i = 1
    <3>1. SubSeq(text, 1, 0) = <<>> /\ SubSeq(all, 1, 0) = <<>>
      BY SubSeqEmpty
    <3> QED
      BY <1>7, <2>1, <3>1 DEF Line
  <2>2. CASE i # 1
    <3>1. 1 \in 1..Len(text) /\ i - 1 \in 1..Len(text)
      BY <1>2, <1>6, <2>2
    <3>2. SubSeq(text \o rest, 1, i - 1) = SubSeq(text, 1, i - 1)
      BY <3>1, SubSeqOfConcat1
    <3> QED
      BY <1>7, <3>2 DEF Line, all
  <2> QED
    BY <2>1, <2>2
<1>9. /\ Rest(text) \in Seq(Symbols) /\ Len(Rest(text)) = Len(text) - i
      /\ \A j \in 1..(Len(text) - i) : Rest(text)[j] = text[i + j]
  <2>1. \A j \in (i + 1)..Len(text) : text[j] \in Symbols
    <3> SUFFICES ASSUME NEW j \in (i + 1)..Len(text) PROVE text[j] \in Symbols
      OBVIOUS
    <3>1. j \in 1..Len(text)
      BY <1>2, <1>6
    <3> QED
      BY <3>1, ElementOfSeq
  <2>2. i + 1 \in Int /\ Len(text) \in Int
    BY <1>2, <1>6
  <2>3. /\ SubSeq(text, i + 1, Len(text)) \in Seq(Symbols)
        /\ Len(SubSeq(text, i + 1, Len(text)))
             = IF i + 1 <= Len(text) THEN Len(text) - (i + 1) + 1 ELSE 0
        /\ \A j \in 1..(Len(text) - (i + 1) + 1) :
             SubSeq(text, i + 1, Len(text))[j] = text[i + 1 + j - 1]
    BY <2>1, <2>2, SubSeqProperties
  <2>4. Rest(text) = SubSeq(text, i + 1, Len(text))
    BY <1>7 DEF Rest
  <2> HIDE DEF Rest
  <2>5. Len(Rest(text)) = Len(text) - i
    BY <1>2, <1>6, <2>3, <2>4
  <2>6. ASSUME NEW j \in 1..(Len(text) - i) PROVE Rest(text)[j] = text[i + j]
    <3>1. j \in 1..(Len(text) - (i + 1) + 1) /\ i + 1 + j - 1 = i + j
      BY <1>2, <1>6
    <3> QED
      BY <2>3, <2>4, <3>1
  <2> QED
    BY <2>3, <2>4, <2>5, <2>6
<1>10. Garbage(Rest(text) \o rest)
  <2> DEFINE q == Rest(text)
             r == q \o rest
  <2> SUFFICES ASSUME NEW j \in 1..Len(r) PROVE r[j] = "x"
    BY DEF Garbage
  <2>0. q \in Seq(Symbols) /\ Len(q) = Len(text) - i
    BY <1>9
  <2>00. q = Rest(text)
    OBVIOUS
  <2> HIDE DEF q
  <2>1. /\ Len(r) = Len(text) - i + Len(rest)
        /\ \A m \in 1..(Len(text) - i) : r[m] = Rest(text)[m]
        /\ \A m \in 1..Len(rest) : r[Len(text) - i + m] = rest[m]
    <3>1. /\ Len(r) = Len(q) + Len(rest)
          /\ \A m \in 1..Len(q) : r[m] = q[m]
          /\ \A m \in 1..Len(rest) : r[Len(q) + m] = rest[m]
      BY <2>0, ConcatFacts
    <3> HIDE DEF r
    <3> QED
      BY <2>0, <2>00, <3>1
  <2> HIDE DEF r
  <2>2. CASE j \in 1..(Len(text) - i)
    <3>1. i + j \in (i + 1)..Len(all) /\ i + j \in 1..Len(text)
      BY <1>2, <1>6, <2>2
    <3> QED
      BY <1>1, <1>2, <1>9, <2>1, <2>2, <3>1
  <2>3. CASE j \notin 1..(Len(text) - i)
    <3> DEFINE m == j - (Len(text) - i)
    <3>1. m \in 1..Len(rest) /\ j = Len(text) - i + m /\ Len(text) + m \in (i + 1)..Len(all)
      BY <1>2, <1>6, <2>1, <2>3
    <3> HIDE DEF m
    <3> QED
      BY <1>1, <1>2, <2>1, <3>1
  <2> QED
    BY <2>2, <2>3
<1> QED
  BY <1>1, <1>2, <1>6, <1>8, <1>9, <1>10

-----------------------------------------------------------------------------
(* What a piece comes to.                                                  *)

LEMMA OperationsAre ==
  ASSUME NEW c \in Calls
  PROVE  \/ /\ setup.password = "none" /\ Operations(c) = <<"command">>
            /\ Len(Operations(c)) = 1
         \/ /\ setup.password # "none" /\ Operations(c) = <<"auth", "command">>
            /\ Len(Operations(c)) = 2
  BY DEF Operations

LEMMA AuthAwaited ==
  ASSUME NEW c \in Calls, Underway(c), call[c].sent # Len(Operations(c))
  PROVE  /\ call[c].sent = 1 /\ Len(Operations(c)) = 2 /\ setup.password # "none"
         /\ call[c].sent < Len(Operations(c))
<1>1. call[c].sent \in 1..Len(Operations(c))
  BY DEF Underway
<1>2. \/ Len(Operations(c)) = 1
      \/ Len(Operations(c)) = 2 /\ setup.password # "none"
  BY OperationsAre, Zenon
<1>3. CASE Len(Operations(c)) = 1
  BY <1>1, <1>3
<1>4. CASE Len(Operations(c)) = 2 /\ setup.password # "none"
  <2>1. call[c].sent \in 1..2 /\ call[c].sent # 2
    BY <1>1, <1>4
  <2> QED
    BY <1>4, <2>1
<1> QED
  BY <1>2, <1>3, <1>4

LEMMA MeaningTypes ==
  \A kind, line : Meaning(kind, line) \in {"revoked", "clear", "stored", "failed"}
  BY DEF Meaning

LEMMA TakesNoLine ==
  ASSUME NEW c, NEW s, s.result # "none" \/ Ends(s.pending) = {}
  PROVE  TakeLine(c, s) = s
  BY DEF TakeLine

\* The loop over the text that is there.
Taken(c, text) ==
  LET s == [sent |-> call[c].sent, pending |-> text, result |-> "none"]
  IN  IF Len(text) > MaxReply THEN [s EXCEPT !.result = "failed"]
                              ELSE TakeLine(c, TakeLine(c, s))

\* A failure, what the command did, nothing yet, or that AUTH is accepted.
Comes(c, s, rest) ==
  \/ s.result = "failed"
  \/ /\ s.result = effect[c] /\ inbox[c] = <<>>
     /\ s.result \in {"revoked", "clear", "stored"}
  \/ /\ s.result = "none" /\ s.sent = call[c].sent
     /\ s.pending \in Seq(Symbols) /\ Len(s.pending) <= MaxReply
     /\ s.pending \o rest = Stream(c)
  \/ /\ s.result = "none" /\ call[c].sent = 1 /\ s.sent = 2
     /\ setup.password # "none" /\ c \in admitted /\ inbox[c] = <<>>
     /\ s.pending \in Seq(Symbols) /\ Len(s.pending) <= MaxReply
     /\ Garbage(s.pending \o rest)

\* One turn of the loop over a text with a whole line.
LEMMA LineComes ==
  ASSUME Shape, NEW c \in Calls, Underway(c),
         NEW text \in Seq(Symbols), NEW rest \in Seq(Symbols),
         text \o rest = Stream(c), Len(text) <= MaxReply, Ends(text) # {},
         NEW t \in [sent : Nat, pending : Seq(Symbols), result : {"none"}],
         t.sent = call[c].sent, t.pending = text
  PROVE  /\ Comes(c, TakeLine(c, t), rest)
         /\ TakeLine(c, TakeLine(c, t)) = TakeLine(c, t)
<1>1. ~Garbage(text \o rest)
  BY GarbageEndsNothing
<1>2. inbox[c] = <<>> /\ OneReply(c, text \o rest)
  BY <1>1 DEF Underway
<1>3. /\ IsReply(c, Line(text))
      /\ Rest(text) \in Seq(Symbols) /\ Len(Rest(text)) <= Len(text)
      /\ Garbage(Rest(text) \o rest)
  BY <1>2, LineMet
<1>4. Ends(Rest(text)) = {}
  BY <1>3, GarbageEndsNothing
<1>5. Len(Rest(text)) <= MaxReply
  <2>1. Len(Rest(text)) \in Nat /\ Len(text) \in Nat /\ MaxReply \in Nat
    BY <1>3, LenProperties, AdapterAssumption
  <2> QED
    BY <1>3, <2>1
<1>6. CASE ~IsScalar(Line(text))
  <2>1. TakeLine(c, t) = [t EXCEPT !.result = "failed"]
    BY <1>6 DEF TakeLine
  <2>2. TakeLine(c, t).result = "failed"
    BY <2>1
  <2> QED
    BY <2>2, TakesNoLine DEF Comes
<1>7. CASE IsScalar(Line(text)) /\ call[c].sent = Len(Operations(c))
  <2>1. TakeLine(c, t) = [t EXCEPT !.pending = Rest(text),
                                   !.result = Meaning(call[c].kind, Line(text))]
    BY <1>7 DEF TakeLine
  <2>2. TakeLine(c, t).result = Meaning(call[c].kind, Line(text))
    BY <2>1
  <2>3. Meaning(call[c].kind, Line(text)) \in {"failed", effect[c]}
    BY <1>3, <1>7 DEF IsReply
  <2>4. TakeLine(c, t).result \in {"revoked", "clear", "stored", "failed"}
    BY <2>2, MeaningTypes
  <2> QED
    BY <1>2, <2>2, <2>3, <2>4, TakesNoLine DEF Comes
<1>8. CASE IsScalar(Line(text)) /\ call[c].sent # Len(Operations(c))
  <2>2. /\ call[c].sent = 1 /\ Len(Operations(c)) = 2 /\ setup.password # "none"
        /\ call[c].sent < Len(Operations(c))
    BY ONLY <1>8, c \in Calls, Underway(c), AuthAwaited
  <2>3. CASE ~IsOK(Line(text))
    <3>1. TakeLine(c, t) = [t EXCEPT !.result = "failed"]
      BY <1>8, <2>2, <2>3 DEF TakeLine
    <3>2. TakeLine(c, t).result = "failed"
      BY <3>1
    <3> QED
      BY <3>2, TakesNoLine DEF Comes
  <2>4. CASE IsOK(Line(text))
    <3>1. TakeLine(c, t) = [t EXCEPT !.pending = Rest(text), !.sent = @ + 1]
      BY <1>8, <2>2, <2>4 DEF TakeLine
    <3>2. /\ TakeLine(c, t).sent = 2 /\ TakeLine(c, t).pending = Rest(text)
          /\ TakeLine(c, t).result = "none"
      BY <2>2, <3>1
    <3>3. TakeLine(c, TakeLine(c, t)) = TakeLine(c, t)
      BY <1>4, <3>2, TakesNoLine
    <3>4. c \in admitted
      BY <1>3, <1>8, <2>4 DEF IsReply
    <3> QED
      BY <1>2, <1>3, <1>5, <2>2, <3>2, <3>3, <3>4 DEF Comes
  <2> QED
    BY <2>3, <2>4
<1> QED
  BY <1>6, <1>7, <1>8

LEMMA TakenComes ==
  ASSUME Shape, NEW c \in Calls, Underway(c),
         NEW text \in Seq(Symbols), NEW rest \in Seq(Symbols),
         text \o rest = Stream(c)
  PROVE  Comes(c, Taken(c, text), rest)
<1> DEFINE t == [sent |-> call[c].sent, pending |-> text, result |-> "none"]
<1>1. Len(text) \in Nat /\ MaxReply \in Nat
  BY LenProperties, AdapterAssumption
<1>2. CASE Len(text) > MaxReply
  <2>1. Taken(c, text) = [t EXCEPT !.result = "failed"]
    BY <1>2 DEF Taken
  <2> QED
    BY <2>1 DEF Comes
<1>3. CASE Len(text) <= MaxReply
  <2>1. Taken(c, text) = TakeLine(c, TakeLine(c, t))
    BY <1>1, <1>3 DEF Taken
  <2>2. CASE Ends(text) = {}
    <3>1. Taken(c, text) = t
      BY <2>1, <2>2, TakesNoLine
    <3> QED
      BY <1>3, <3>1 DEF Comes
  <2>3. CASE Ends(text) # {}
    <3>1. /\ t.sent = call[c].sent /\ t.pending = text
          /\ t \in [sent : Nat, pending : Seq(Symbols), result : {"none"}]
      BY DEF Shape, CallRecords
    <3> HIDE DEF t
    <3>2. /\ Comes(c, TakeLine(c, t), rest)
          /\ TakeLine(c, TakeLine(c, t)) = TakeLine(c, t)
      BY <1>3, <2>3, <3>1, LineComes, Zenon
    <3> QED
      BY <2>1, <3>2, Zenon
  <2> QED
    BY <2>2, <2>3
<1> QED
  BY <1>1, <1>2, <1>3

LEMMA ReceivedComes ==
  ASSUME Shape, NEW c \in Calls, Underway(c), NEW n \in 1..Len(outbox[c])
  PROVE  /\ Comes(c, Received(c, Piece(outbox[c], n)), After(outbox[c], n))
         /\ After(outbox[c], n) \in Seq(Symbols)
<1>1. call[c].pending \in Seq(Symbols) /\ outbox[c] \in Seq(Symbols)
  BY DEF Shape, CallRecords
<1> DEFINE text == call[c].pending \o Piece(outbox[c], n)
<1>2. /\ text \in Seq(Symbols) /\ After(outbox[c], n) \in Seq(Symbols)
      /\ text \o After(outbox[c], n) = Stream(c)
  BY <1>1, PieceAfterPiece, PieceOfStream DEF Stream
<1>3. Received(c, Piece(outbox[c], n)) = Taken(c, text)
  BY DEF Received, Taken
<1> HIDE DEF text
<1> QED
  BY <1>2, <1>3, TakenComes

-----------------------------------------------------------------------------
(* What the server adds to a stream.                                       *)

LEMMA SameStart ==
  ASSUME NEW s \in Seq(Symbols), NEW t \in Seq(Symbols), NEW i \in 0..Len(s)
  PROVE  SubSeq(s \o t, 1, i) = SubSeq(s, 1, i)
<1>1. Len(s) \in Nat
  BY LenProperties
<1>2. CASE i = 0
  <2>1. SubSeq(s \o t, 1, 0) = <<>> /\ SubSeq(s, 1, 0) = <<>>
    BY SubSeqEmpty
  <2> QED
    BY <1>2, <2>1
<1>3. CASE i # 0
  <2>1. 1 \in 1..Len(s) /\ i \in 1..Len(s)
    BY <1>1, <1>3
  <2> QED
    BY <2>1, SubSeqOfConcat1
<1> QED
  BY <1>2, <1>3

\* A text that is one line, and then garbage.
OneLine(text, line) ==
  \E i \in 1..Len(text) :
    /\ text[i] = "eol" /\ \A j \in 1..(i - 1) : text[j] # "eol"
    /\ \A j \in (i + 1)..Len(text) : text[j] = "x"
    /\ line = SubSeq(text, 1, i - 1)

\* A reply that follows garbage is one line.
LEMMA ReplyIsLine ==
  ASSUME NEW g \in Seq(Symbols), Garbage(g),
         NEW line \in Seq(Symbols), \A i \in 1..Len(line) : line[i] # "eol"
  PROVE  OneLine((g \o line) \o <<"eol">>, g \o line)
<1> DEFINE l == g \o line
           all == l \o <<"eol">>
<1>1. <<"eol">> \in Seq(Symbols) /\ Len(<<"eol">>) = 1 /\ <<"eol">>[1] = "eol"
  BY DEF Symbols
<1>2. /\ l \in Seq(Symbols) /\ Len(l) \in Nat
      /\ \A i \in 1..Len(l) : l[i] # "eol"
  <2>1. /\ Len(g) \in Nat /\ Len(line) \in Nat /\ Len(l) = Len(g) + Len(line)
        /\ l \in Seq(Symbols)
        /\ \A i \in 1..Len(g) : l[i] = g[i]
        /\ \A i \in 1..Len(line) : l[Len(g) + i] = line[i]
    BY ConcatFacts
  <2> HIDE DEF l
  <2>2. ASSUME NEW i \in 1..Len(l) PROVE l[i] # "eol"
    <3>1. CASE i \in 1..Len(g)
      BY <2>1, <3>1 DEF Garbage
    <3>2. CASE i \notin 1..Len(g)
      <4>1. PICK j \in 1..Len(line) : i = Len(g) + j
        <5>1. i - Len(g) \in 1..Len(line) /\ i = Len(g) + (i - Len(g))
          BY <2>1, <3>2
        <5> QED
          BY <5>1
      <4> QED
        BY <2>1, <4>1
    <3> QED
      BY <3>1, <3>2
  <2> QED
    BY <2>1, <2>2
<1> HIDE DEF l
<1>4. /\ Len(all) = Len(l) + 1 /\ all[Len(l) + 1] = "eol"
      /\ \A i \in 1..Len(l) : all[i] = l[i]
  BY <1>1, <1>2, ConcatFacts
<1>5. SubSeq(all, 1, Len(l)) = l
  <2>1. Len(l) \in 0..Len(l)
    BY <1>2
  <2>2. SubSeq(all, 1, Len(l)) = SubSeq(l, 1, Len(l))
    BY <1>1, <1>2, <2>1, SameStart
  <2> QED
    BY <1>2, <2>2, SubSeqFull
<1> HIDE DEF all
<1>6. OneLine(all, l)
  <2> DEFINE i == Len(l) + 1
  <2>1. i \in 1..Len(all) /\ all[i] = "eol" /\ i - 1 = Len(l)
    BY <1>2, <1>4
  <2>2. \A j \in 1..(i - 1) : all[j] # "eol"
    BY <1>2, <1>4, <2>1
  <2>3. \A j \in (i + 1)..Len(all) : all[j] = "x"
    BY <1>2, <1>4
  <2>4. l = SubSeq(all, 1, i - 1)
    BY <1>5, <2>1
  <2> HIDE DEF i
  <2> QED
    BY <2>1, <2>2, <2>3, <2>4 DEF OneLine
<1> QED
  BY <1>6 DEF all, l

\* Garbage after a reply, or after garbage, makes no difference.
LEMMA GarbageFollows ==
  ASSUME NEW c \in Calls, NEW s \in Seq(Symbols)
  PROVE  /\ Garbage(s) => Garbage(s \o <<"x">>)
         /\ OneReply(c, s) => OneReply(c, s \o <<"x">>)
<1> DEFINE all == s \o <<"x">>
<1>1. <<"x">> \in Seq(Symbols) /\ Len(<<"x">>) = 1 /\ <<"x">>[1] = "x"
  BY DEF Symbols
<1>2. /\ Len(s) \in Nat /\ Len(all) = Len(s) + 1 /\ all[Len(s) + 1] = "x"
      /\ \A i \in 1..Len(s) : all[i] = s[i]
  BY <1>1, ConcatFacts
<1>3. \A i \in 0..Len(s) : SubSeq(all, 1, i) = SubSeq(s, 1, i)
  BY <1>1, SameStart
<1> HIDE DEF all
<1>4. Garbage(s) => Garbage(all)
  <2> SUFFICES ASSUME Garbage(s), NEW i \in 1..Len(all) PROVE all[i] = "x"
    BY DEF Garbage
  <2>1. i \in 1..Len(s) \/ i = Len(s) + 1
    BY <1>2
  <2> QED
    BY <1>2, <2>1 DEF Garbage
<1>5. OneReply(c, s) => OneReply(c, all)
  <2> SUFFICES ASSUME OneReply(c, s) PROVE OneReply(c, all)
    OBVIOUS
  <2>1. PICK i \in 1..Len(s) :
          /\ s[i] = "eol" /\ \A j \in 1..(i - 1) : s[j] # "eol"
          /\ \A j \in (i + 1)..Len(s) : s[j] = "x"
          /\ IsReply(c, SubSeq(s, 1, i - 1))
    BY DEF OneReply
  <2>2. i \in 1..Len(all) /\ all[i] = "eol" /\ \A j \in 1..(i - 1) : all[j] # "eol"
    BY <1>2, <2>1
  <2>3. ASSUME NEW j \in (i + 1)..Len(all) PROVE all[j] = "x"
    <3>1. (j \in (i + 1)..Len(s) /\ j \in 1..Len(s)) \/ j = Len(s) + 1
      BY <1>2
    <3> QED
      BY <1>2, <2>1, <3>1
  <2>4. SubSeq(all, 1, i - 1) = SubSeq(s, 1, i - 1)
    <3>1. i - 1 \in 0..Len(s)
      BY <1>2
    <3> QED
      BY <1>3, <3>1
  <2> QED
    BY <2>1, <2>2, <2>3, <2>4 DEF OneReply
<1> QED
  BY <1>4, <1>5 DEF all

\* A line behind garbage says nothing.
LEMMA GarbageSpoils ==
  ASSUME NEW g \in Seq(Symbols), Garbage(g), NEW line \in Seq(Symbols), NEW kind
  PROVE  /\ Meaning(kind, g \o line) \in {"failed", Meaning(kind, line)}
         /\ IsOK(g \o line) => IsOK(line)
<1>1. CASE g = <<>>
  <2>1. g \o line = line
    BY <1>1, ConcatEmptySeq
  <2> QED
    BY <2>1
<1>2. CASE g # <<>>
  <2>1. Len(g) \in Nat \ {0}
    BY <1>2, EmptySeq
  <2>2. (g \o line)[1] = "x"
    BY <2>1, ConcatFacts DEF Garbage
  <2>3. /\ g \o line # <<":", "1">> /\ g \o line # <<":", "0">>
        /\ g \o line # <<"+", "OK">>
    <3> DEFINE l == g \o line
    <3>1. l[1] = "x"
      BY <2>2
    <3> HIDE DEF l
    <3>2. <<":", "1">>[1] = ":" /\ <<":", "0">>[1] = ":" /\ <<"+", "OK">>[1] = "+"
      OBVIOUS
    <3>3. l # <<":", "1">> /\ l # <<":", "0">> /\ l # <<"+", "OK">>
      BY <3>1, <3>2
    <3> QED
      BY <3>3 DEF l
  <2>4. Meaning(kind, g \o line) = "failed" /\ ~IsOK(g \o line)
    BY <2>3 DEF Meaning, IsOK
  <2> QED
    BY <2>4
<1> QED
  BY <1>1, <1>2

-----------------------------------------------------------------------------
(* Steps of one call.                                                      *)

LEMMA AdapterInit == Init => AdapterInv
<1> SUFFICES ASSUME Init PROVE AdapterInv
  OBVIOUS
<1>1. /\ NewCall.phase = "idle" /\ NewCall.kind = "none" /\ NewCall.digest = "none"
      /\ NewCall.sent = 0 /\ NewCall.pending = <<>> /\ NewCall \in CallRecords
  BY DEF NewCall, CallRecords
<1>2. Shape
  BY <1>1 DEF Init, Shape
<1>3. \A c \in Calls : Unsent(c) /\ call[c] = NewCall
  BY <1>1 DEF Init, Unsent
<1>4. ASSUME NEW c \in Calls PROVE CallInv(c)
  <2>1. /\ Unsent(c) /\ call[c].phase = "idle"
        /\ call[c].kind = "none" /\ call[c].digest = "none"
    BY <1>1, <1>3
  <2>2. inbox[c] # <<"command">> /\ effect[c] = "none"
    BY DEF Init
  <2> QED
    BY <2>1, <2>2 DEF CallInv
<1> QED
  BY <1>2, <1>4 DEF AdapterInv

\* A call of which nothing changes.
LEMMA CallRests ==
  ASSUME NEW c \in Calls, CallInv(c), setup' = setup, c \in admitted => c \in admitted',
         call'[c] = call[c], answer'[c] = answer[c], inbox'[c] = inbox[c],
         outbox'[c] = outbox[c], effect'[c] = effect[c]
  PROVE  CallInv(c)'
<1>1. Operations(c)' = Operations(c) /\ Stream(c)' = Stream(c)
  BY DEF Operations, Stream
<1>2. \A line : IsReply(c, line) => IsReply(c, line)'
  BY <1>1 DEF IsReply
<1>3. \A text : OneReply(c, text) => OneReply(c, text)'
  BY <1>2 DEF OneReply
<1>4. Underway(c) => Underway(c)'
  BY <1>1, <1>3 DEF Underway
<1>5. Unsent(c)' = Unsent(c) /\ Over(c)' = Over(c)
  BY DEF Unsent, Over
<1> QED
  BY <1>4, <1>5 DEF CallInv

\* A step of one call.
LEMMA OneMoves ==
  ASSUME AdapterInv, NEW c \in Calls, Shape', setup' = setup, admitted \subseteq admitted',
         \A b \in Calls : b # c =>
           /\ call'[b] = call[b] /\ answer'[b] = answer[b] /\ inbox'[b] = inbox[b]
           /\ outbox'[b] = outbox[b] /\ effect'[b] = effect[b],
         CallInv(c)'
  PROVE  AdapterInv'
<1>1. \A b \in Calls : b # c => CallInv(b)'
  BY CallRests DEF AdapterInv
<1> QED
  BY <1>1 DEF AdapterInv

Phases == {"idle", "connecting", "waiting", "settled"}

LEMMA CallMoves ==
  ASSUME Shape, NEW c \in Calls, NEW p \in Phases, NEW n \in 0..2, NEW q \in Seq(Symbols),
         call' = [call EXCEPT ![c].phase = p, ![c].sent = n, ![c].pending = q]
  PROVE  /\ call' \in [Calls -> CallRecords]
         /\ call'[c].phase = p /\ call'[c].sent = n /\ call'[c].pending = q
         /\ call'[c].kind = call[c].kind /\ call'[c].digest = call[c].digest
         /\ \A b \in Calls : b # c => call'[b] = call[b]
<1> DEFINE r == [call[c] EXCEPT !.phase = p, !.sent = n, !.pending = q]
<1>1. call \in [Calls -> CallRecords] /\ call[c] \in CallRecords
  BY DEF Shape
<1>2. /\ r \in CallRecords /\ r.phase = p /\ r.sent = n /\ r.pending = q
      /\ r.kind = call[c].kind /\ r.digest = call[c].digest
  BY <1>1 DEF CallRecords, Phases
<1>3. call' = [call EXCEPT ![c] = r]
  BY <1>1
<1> HIDE DEF r
<1> QED
  BY ONLY c \in Calls, <1>1, <1>2, <1>3

LEMMA CallConnects ==
  ASSUME Shape, NEW c \in Calls, NEW p \in Phases, NEW n \in 0..2,
         call' = [call EXCEPT ![c].phase = p, ![c].sent = n]
  PROVE  /\ call' \in [Calls -> CallRecords]
         /\ call'[c].phase = p /\ call'[c].sent = n
         /\ call'[c].pending = call[c].pending
         /\ call'[c].kind = call[c].kind /\ call'[c].digest = call[c].digest
         /\ \A b \in Calls : b # c => call'[b] = call[b]
<1> DEFINE r == [call[c] EXCEPT !.phase = p, !.sent = n]
<1>1. call \in [Calls -> CallRecords] /\ call[c] \in CallRecords
  BY DEF Shape
<1>2. /\ r \in CallRecords /\ r.phase = p /\ r.sent = n /\ r.pending = call[c].pending
      /\ r.kind = call[c].kind /\ r.digest = call[c].digest
  BY <1>1 DEF CallRecords, Phases
<1>3. call' = [call EXCEPT ![c] = r]
  BY <1>1
<1> HIDE DEF r
<1> QED
  BY ONLY c \in Calls, <1>1, <1>2, <1>3

LEMMA BeginInv ==
  ASSUME AdapterInv, NEW c \in Calls, NEW kind \in Kinds, NEW d \in Digests,
         Begin(c, kind, d)
  PROVE  AdapterInv'
<1>1. /\ Shape /\ CallInv(c) /\ call[c].phase = "idle" /\ call[c] \in CallRecords
      /\ UNCHANGED <<store, lapsed, setup, inbox, outbox, admitted, effect>>
  BY DEF AdapterInv, Shape, Begin, net, ServerUnchanged, SetupUnchanged
<1>2. Unsent(c)
  BY <1>1 DEF CallInv
<1>3. PICK phase \in {"settled", "connecting"} :
        /\ call' = [call EXCEPT ![c].phase = phase, ![c].kind = kind, ![c].digest = d]
        /\ answer' = [answer EXCEPT ![c] = IF phase = "settled" THEN "stored" ELSE "none"]
  BY DEF Begin
<1>4. /\ call'[c] = [call[c] EXCEPT !.phase = phase, !.kind = kind, !.digest = d]
      /\ call'[c] \in CallRecords
      /\ \A b \in Calls : b # c => call'[b] = call[b] /\ answer'[b] = answer[b]
      /\ answer'[c] = IF phase = "settled" THEN "stored" ELSE "none"
  BY <1>1, <1>3 DEF Shape, CallRecords
<1>5. Shape'
  BY <1>1, <1>3, <1>4 DEF Shape, Answers
<1>6. /\ call'[c].phase = phase /\ call'[c].kind = kind /\ call'[c].digest = d
      /\ call'[c].sent = call[c].sent /\ call'[c].pending = call[c].pending
  BY <1>1, <1>4 DEF CallRecords
<1>7. phase = "connecting" => Unsent(c)'
  BY <1>1, <1>2, <1>4, <1>6 DEF Unsent
<1>8. phase = "settled" => Over(c)'
  BY <1>1, <1>2, <1>4, <1>6 DEF Unsent, Over
<1>9. CallInv(c)'
  BY <1>1, <1>2, <1>6, <1>7, <1>8 DEF CallInv, Unsent
<1> QED
  BY <1>1, <1>4, <1>5, <1>9, OneMoves

LEMMA ConnectInv ==
  ASSUME AdapterInv, NEW c \in Calls, Connect(c)
  PROVE  AdapterInv'
<1>1. /\ Shape /\ CallInv(c) /\ call[c].phase = "connecting" /\ call[c] \in CallRecords
      /\ UNCHANGED <<store, lapsed, setup, answer, outbox, admitted, effect>>
      /\ call' = [call EXCEPT ![c].phase = "waiting", ![c].sent = 1]
      /\ inbox' = [inbox EXCEPT ![c] = <<Operations(c)[1]>>]
  BY DEF AdapterInv, Shape, Connect, ServerUnchanged, SetupUnchanged
<1>2. Unsent(c) /\ call[c].kind \in Kinds /\ call[c].digest \in Digests
  BY <1>1 DEF CallInv
<1>3. /\ Operations(c)[1] \in {"auth", "command"}
      /\ Operations(c)[1] = "command" => setup.password = "none"
      /\ 1 \in 1..Len(Operations(c))
  <2>1. CASE setup.password = "none"
    BY <2>1 DEF Operations
  <2>2. CASE setup.password # "none"
    BY <2>2 DEF Operations
  <2> QED
    BY <2>1, <2>2
<1>4. /\ \A b \in Calls : b # c => inbox'[b] = inbox[b]
      /\ inbox'[c] = <<Operations(c)[1]>>
  BY <1>1 DEF Shape
<1>12. /\ call' \in [Calls -> CallRecords]
       /\ call'[c].phase = "waiting" /\ call'[c].kind = call[c].kind
       /\ call'[c].digest = call[c].digest
       /\ call'[c].sent = 1 /\ call'[c].pending = call[c].pending
       /\ \A b \in Calls : b # c => call'[b] = call[b]
  <2>1. PICK p \in Phases, n \in 0..2 : p = "waiting" /\ n = 1
    BY DEF Phases
  <2>2. call' = [call EXCEPT ![c].phase = p, ![c].sent = n]
    BY <1>1, <2>1
  <2>3. Shape
    BY <1>1
  <2>4. /\ call' \in [Calls -> CallRecords]
        /\ call'[c].phase = p /\ call'[c].sent = n
        /\ call'[c].pending = call[c].pending
        /\ call'[c].kind = call[c].kind /\ call'[c].digest = call[c].digest
        /\ \A b \in Calls : b # c => call'[b] = call[b]
    BY <2>2, <2>3, CallConnects
  <2> QED
    BY ONLY <2>1, <2>4
<1>5. inbox' \in [Calls -> Seq({"auth", "command"})]
  <2> DEFINE op == Operations(c)[1]
  <2>1. <<op>> \in Seq({"auth", "command"})
    BY <1>3
  <2> HIDE DEF op
  <2> QED
    BY <1>1, <2>1 DEF Shape, op
<1>6. Shape'
  BY <1>1, <1>5, <1>12 DEF Shape
<1>7. /\ call'[c].phase = "waiting" /\ call'[c].kind = call[c].kind
      /\ call'[c].digest = call[c].digest
      /\ call'[c].sent = 1 /\ call'[c].pending = <<>>
  BY <1>2, <1>12 DEF Unsent
<1>8. Operations(c)' = Operations(c)
  BY <1>1 DEF Operations
<1>9. Garbage(Stream(c))'
  <2>1. Stream(c)' = <<>> \o <<>>
    BY <1>1, <1>2, <1>7 DEF Stream, Unsent
  <2>2. <<>> \o <<>> = <<>> /\ Len(<<>>) = 0
    OBVIOUS
  <2>3. Len(Stream(c)') = 0
    BY <2>1, <2>2
  <2> QED
    BY <2>3 DEF Garbage
<1>10. Underway(c)'
  <2>1. Len(call'[c].pending) <= MaxReply
    BY <1>7, AdapterAssumption
  <2>2. answer'[c] = "none" /\ effect'[c] = "none"
    BY <1>1, <1>2 DEF Unsent
  <2> QED
    BY <1>3, <1>4, <1>7, <1>8, <1>9, <2>1, <2>2 DEF Underway
<1>11. CallInv(c)'
  <2>1. effect'[c] = "none" /\ setup' = setup
    BY <1>1, <1>2 DEF Unsent
  <2>2. inbox'[c] = <<"command">> => setup.password = "none"
    BY <1>3, <1>4
  <2> QED
    BY <1>2, <1>7, <1>10, <2>1, <2>2 DEF CallInv
<1> QED
  BY <1>1, <1>4, <1>6, <1>11, <1>12, OneMoves

\* Of an open call that is settled.
LEMMA SettleInv ==
  ASSUME AdapterInv, NEW c \in Calls, NEW r \in Answers, Open(c), Settle(c, r),
         r = "failed" \/ inbox[c] = <<>>,
         ServerUnchanged, SetupUnchanged
  PROVE  AdapterInv'
<1>1. /\ Shape /\ CallInv(c) /\ call[c].phase \in {"connecting", "waiting"}
      /\ call[c] \in CallRecords
      /\ UNCHANGED <<store, lapsed, setup, inbox, admitted, effect>>
      /\ call' = [call EXCEPT ![c].phase = "settled", ![c].sent = 0, ![c].pending = <<>>]
      /\ answer' = [answer EXCEPT ![c] = r]
      /\ outbox' = [outbox EXCEPT ![c] = <<>>]
  BY DEF AdapterInv, Shape, Settle, Open, ServerUnchanged, SetupUnchanged
<1>2. /\ \A b \in Calls : b # c => answer'[b] = answer[b] /\ outbox'[b] = outbox[b]
      /\ answer'[c] = r /\ outbox'[c] = <<>>
  BY <1>1 DEF Shape
<1>4. /\ call' \in [Calls -> CallRecords]
      /\ call'[c].phase = "settled" /\ call'[c].kind = call[c].kind
      /\ call'[c].digest = call[c].digest
      /\ call'[c].sent = 0 /\ call'[c].pending = <<>>
      /\ \A b \in Calls : b # c => call'[b] = call[b]
  <2>1. PICK p \in Phases, n \in 0..2, q \in Seq(Symbols) :
          p = "settled" /\ n = 0 /\ q = <<>>
    <3>1. "settled" \in Phases /\ 0 \in 0..2 /\ <<>> \in Seq(Symbols)
      BY DEF Phases
    <3> QED
      BY <3>1, Zenon
  <2>2. call' = [call EXCEPT ![c].phase = p, ![c].sent = n, ![c].pending = q]
    BY <1>1, <2>1
  <2>3. Shape
    BY <1>1
  <2>4. /\ call' \in [Calls -> CallRecords]
        /\ call'[c].phase = p /\ call'[c].sent = n /\ call'[c].pending = q
        /\ call'[c].kind = call[c].kind /\ call'[c].digest = call[c].digest
        /\ \A b \in Calls : b # c => call'[b] = call[b]
    BY <2>2, <2>3, CallMoves
  <2> QED
    BY ONLY <2>1, <2>4
<1>3. Shape'
  BY <1>1, <1>4 DEF Shape
<1>5. /\ inbox[c] \in {<<>>, <<"auth">>, <<"command">>}
      /\ inbox[c] = <<"command">> => effect[c] = "none"
  <2>1. CASE call[c].phase = "connecting"
    BY <1>1, <2>1 DEF CallInv, Unsent
  <2>2. CASE call[c].phase = "waiting"
    <3>1. Underway(c)
      BY <1>1, <2>2 DEF CallInv
    <3>2. call[c].sent \in 1..Len(Operations(c)) =>
            Operations(c)[call[c].sent] \in {"auth", "command"}
      BY <1>1 DEF Operations, CallRecords
    <3>3. CASE inbox[c] = <<>>
      BY <3>3
    <3>4. CASE inbox[c] = <<Operations(c)[call[c].sent]>> /\ effect[c] = "none"
      BY <3>1, <3>2, <3>4 DEF Underway
    <3> QED
      BY <3>1, <3>3, <3>4 DEF Underway
  <2> QED
    BY <1>1, <2>1, <2>2
<1>6. Over(c)'
  <2>1. r # "none"
    BY DEF Answers
  <2> QED
    BY <1>1, <1>2, <1>4, <1>5, <2>1 DEF Over
<1>7. CallInv(c)'
  BY <1>1, <1>4, <1>6 DEF CallInv
<1> QED
  BY <1>1, <1>2, <1>3, <1>4, <1>7, OneMoves

LEMMA CallReads ==
  ASSUME Shape, NEW c \in Calls, NEW n \in 0..2, NEW q \in Seq(Symbols),
         call' = [call EXCEPT ![c].sent = n, ![c].pending = q]
  PROVE  /\ call' \in [Calls -> CallRecords]
         /\ call'[c].sent = n /\ call'[c].pending = q
         /\ call'[c].phase = call[c].phase
         /\ call'[c].kind = call[c].kind /\ call'[c].digest = call[c].digest
         /\ \A b \in Calls : b # c => call'[b] = call[b]
<1> DEFINE r == [call[c] EXCEPT !.sent = n, !.pending = q]
<1>1. call \in [Calls -> CallRecords] /\ call[c] \in CallRecords
  BY DEF Shape
<1>2. /\ r \in CallRecords /\ r.phase = call[c].phase /\ r.sent = n /\ r.pending = q
      /\ r.kind = call[c].kind /\ r.digest = call[c].digest
  BY <1>1 DEF CallRecords, Phases
<1>3. call' = [call EXCEPT ![c] = r]
  BY <1>1
<1> HIDE DEF r
<1> QED
  BY ONLY c \in Calls, <1>1, <1>2, <1>3

\* A piece that does not settle its call.
LEMMA ReadInv ==
  ASSUME AdapterInv, NEW c \in Calls, call[c].phase = "waiting",
         NEW k \in 0..2, NEW q \in Seq(Symbols), NEW rest \in Seq(Symbols),
         NEW w \in Seq({"auth", "command"}), Len(q) <= MaxReply,
         call' = [call EXCEPT ![c].sent = k, ![c].pending = q],
         outbox' = [outbox EXCEPT ![c] = rest], inbox' = [inbox EXCEPT ![c] = w],
         UNCHANGED <<store, lapsed, setup, answer, admitted, effect>>,
         \/ w = inbox[c] /\ k = call[c].sent /\ q \o rest = Stream(c)
         \/ /\ w = <<"command">> /\ k = 2 /\ call[c].sent = 1
            /\ setup.password # "none" /\ c \in admitted /\ Garbage(q \o rest)
  PROVE  AdapterInv'
<1>1. Shape /\ CallInv(c)
  BY DEF AdapterInv
<1>2. /\ call' \in [Calls -> CallRecords]
      /\ call'[c].sent = k /\ call'[c].pending = q /\ call'[c].phase = "waiting"
      /\ call'[c].kind = call[c].kind /\ call'[c].digest = call[c].digest
      /\ \A b \in Calls : b # c => call'[b] = call[b]
  <2>1. /\ Shape /\ call' = [call EXCEPT ![c].sent = k, ![c].pending = q]
        /\ call[c].phase = "waiting"
    BY <1>1
  <2>2. /\ call' \in [Calls -> CallRecords]
        /\ call'[c].sent = k /\ call'[c].pending = q
        /\ call'[c].phase = call[c].phase
        /\ call'[c].kind = call[c].kind /\ call'[c].digest = call[c].digest
        /\ \A b \in Calls : b # c => call'[b] = call[b]
    BY ONLY <2>1, CallReads
  <2> QED
    BY ONLY <2>1, <2>2
<1>3. /\ outbox' \in [Calls -> Seq(Symbols)] /\ outbox'[c] = rest
      /\ \A b \in Calls : b # c => outbox'[b] = outbox[b]
  BY <1>1 DEF Shape
<1>4. /\ inbox' \in [Calls -> Seq({"auth", "command"})] /\ inbox'[c] = w
      /\ \A b \in Calls : b # c => inbox'[b] = inbox[b]
  BY <1>1 DEF Shape
<1>5. Shape'
  BY <1>1, <1>2, <1>3, <1>4 DEF Shape
<1>6. /\ Underway(c) /\ call[c].kind \in Kinds /\ call[c].digest \in Digests
      /\ inbox[c] = <<"command">> \/ effect[c] # "none"
           => setup.password = "none" \/ c \in admitted
  BY <1>1 DEF CallInv
<1>7. Stream(c)' = q \o rest /\ Operations(c)' = Operations(c)
  BY <1>2, <1>3 DEF Stream, Operations
<1>8. Underway(c)' /\ (inbox'[c] = <<"command">> \/ effect'[c] # "none"
                         => setup'.password = "none" \/ c \in admitted')
  <2>1. CASE w = inbox[c] /\ k = call[c].sent /\ q \o rest = Stream(c)
    <3>1. Stream(c)' = Stream(c)
      BY <1>7, <2>1
    <3>2. \A line : IsReply(c, line) => IsReply(c, line)'
      BY <1>2, <1>7, <2>1 DEF IsReply
    <3>3. OneReply(c, Stream(c)) => OneReply(c, Stream(c))'
      BY <3>1, <3>2 DEF OneReply
    <3>4. Garbage(Stream(c)) => Garbage(Stream(c))'
      BY <3>1
    <3> QED
      BY <1>2, <1>4, <1>6, <1>7, <2>1, <3>3, <3>4 DEF Underway
  <2>2. CASE /\ w = <<"command">> /\ k = 2 /\ call[c].sent = 1
             /\ setup.password # "none" /\ c \in admitted /\ Garbage(q \o rest)
    <3>1. Operations(c) = <<"auth", "command">> /\ Len(Operations(c)) = 2
      BY <2>2 DEF Operations
    <3>2. Operations(c)[2] = "command"
      BY <3>1
    <3>3. effect[c] = "none" /\ answer[c] = "none"
      BY <1>6, <2>2, <3>1 DEF Underway
    <3>4. Garbage(Stream(c))'
      BY <1>7, <2>2
    <3>5. /\ call'[c].sent = 2 /\ call'[c].sent \in 1..2 /\ inbox'[c] = <<"command">>
          /\ Len(call'[c].pending) <= MaxReply
      BY <1>2, <1>4, <2>2
    <3>6. /\ answer'[c] = "none" /\ effect'[c] = "none" /\ c \in admitted'
      BY <2>2, <3>3
    <3>7. Len(Operations(c))' = 2 /\ Operations(c)'[2] = "command"
      BY <1>7, <3>1, <3>2
    <3> QED
      BY ONLY <3>4, <3>5, <3>6, <3>7 DEF Underway
  <2> QED
    BY <2>1, <2>2
<1>9. CallInv(c)'
  BY <1>2, <1>6, <1>8 DEF CallInv
<1> QED
  BY <1>1, <1>2, <1>3, <1>4, <1>5, <1>9, OneMoves

\* A piece that does not settle call c: k operations are sent now, q waits for
\* its line to end, rest is still coming, w is on its way to the server.
ReadsOn(c, k, q, rest, w) ==
  /\ k \in 0..2 /\ q \in Seq(Symbols) /\ rest \in Seq(Symbols)
  /\ w \in Seq({"auth", "command"}) /\ Len(q) <= MaxReply
  /\ call' = [call EXCEPT ![c].sent = k, ![c].pending = q]
  /\ outbox' = [outbox EXCEPT ![c] = rest]
  /\ inbox' = [inbox EXCEPT ![c] = w]
  /\ answer' = answer
  /\ \/ w = inbox[c] /\ k = call[c].sent /\ q \o rest = Stream(c)
     \/ /\ w = <<"command">> /\ k = 2 /\ call[c].sent = 1
        /\ setup.password # "none" /\ c \in admitted /\ Garbage(q \o rest)

\* Data settles its call, or reads on.
LEMMA DataSettlesOrReads ==
  ASSUME AdapterInv, NEW c \in Calls, NEW n, Data(c, n)
  PROVE  /\ call[c].phase = "waiting"
         /\ ServerUnchanged /\ SetupUnchanged
         /\ \/ Settle(c, "failed")
            \/ /\ inbox[c] = <<>> /\ effect[c] \in {"revoked", "clear", "stored"}
               /\ Settle(c, effect[c])
            \/ \E k, q, rest, w : ReadsOn(c, k, q, rest, w)
<1> DEFINE s == Received(c, Piece(outbox[c], n))
           rest == After(outbox[c], n)
           written == SubSeq(Operations(c), call[c].sent + 1, s.sent)
<1>1. /\ call[c].phase = "waiting" /\ n \in 1..Len(outbox[c])
      /\ ServerUnchanged /\ SetupUnchanged
      /\ IF s.result # "none" THEN Settle(c, s.result)
         ELSE /\ call' = [call EXCEPT ![c].sent = s.sent, ![c].pending = s.pending]
              /\ inbox' = [inbox EXCEPT ![c] = @ \o written]
              /\ outbox' = [outbox EXCEPT ![c] = SubSeq(@, n + 1, Len(@))]
              /\ UNCHANGED answer
  BY DEF Data, Piece
<1>2. Shape /\ Underway(c)
  BY <1>1 DEF AdapterInv, CallInv
<1>3. Comes(c, s, rest) /\ rest \in Seq(Symbols)
  BY <1>1, <1>2, ReceivedComes
<1>4. /\ call[c].sent \in 0..2 /\ inbox[c] \in Seq({"auth", "command"})
  BY <1>2 DEF Shape, CallRecords
<1>5. s.result = "none" =>
        /\ call' = [call EXCEPT ![c].sent = s.sent, ![c].pending = s.pending]
        /\ inbox' = [inbox EXCEPT ![c] = inbox[c] \o written]
        /\ outbox' = [outbox EXCEPT ![c] = rest]
        /\ answer' = answer
  BY <1>1 DEF After
<1>6. s.result # "none" => Settle(c, s.result)
  BY <1>1
<1> HIDE DEF s, rest
<1>7. CASE s.result # "none"
  BY <1>1, <1>3, <1>6, <1>7 DEF Comes
<1>8. CASE /\ s.result = "none" /\ s.sent = call[c].sent
           /\ s.pending \in Seq(Symbols) /\ Len(s.pending) <= MaxReply
           /\ s.pending \o rest = Stream(c)
  <2>1. inbox[c] \o written = inbox[c]
    <3>1. written = SubSeq(Operations(c), call[c].sent + 1, call[c].sent)
      BY <1>8
    <3>2. call[c].sent + 1 \in Int /\ call[c].sent \in Int
          /\ call[c].sent + 1 > call[c].sent
      BY <1>4
    <3>3. SubSeq(Operations(c), call[c].sent + 1, call[c].sent) = <<>>
      BY <3>2, SubSeqEmpty
    <3> QED
      BY <1>4, <3>1, <3>3, ConcatEmptySeq
  <2> HIDE DEF written
  <2>2. /\ call' = [call EXCEPT ![c].sent = s.sent, ![c].pending = s.pending]
        /\ inbox' = [inbox EXCEPT ![c] = inbox[c]]
        /\ outbox' = [outbox EXCEPT ![c] = rest]
        /\ answer' = answer
    BY ONLY <1>5, <1>8, <2>1
  <2>3. ReadsOn(c, s.sent, s.pending, rest, inbox[c])
    BY ONLY <1>3, <1>4, <1>8, <2>2, Zenon DEF ReadsOn
  <2> QED
    BY ONLY <1>1, <2>3, Zenon
<1>9. CASE /\ s.result = "none" /\ call[c].sent = 1 /\ s.sent = 2
           /\ setup.password # "none" /\ c \in admitted /\ inbox[c] = <<>>
           /\ s.pending \in Seq(Symbols) /\ Len(s.pending) <= MaxReply
           /\ Garbage(s.pending \o rest)
  <2>1. written = <<"command">>
    <3> DEFINE o == <<"auth", "command">>
    <3>1. Operations(c) = o
      BY <1>9 DEF Operations
    <3>2. SubSeq(o, 2, 2) = <<"command">>
      <4>1. o \in Seq({"auth", "command"}) /\ Len(o) = 2 /\ o[2] = "command"
        OBVIOUS
      <4> HIDE DEF o
      <4> DEFINE t == SubSeq(o, 2, 2)
      <4>2. t \in Seq({"auth", "command"}) /\ Len(t) = 1 /\ t[1] = o[2]
        BY <4>1, SubSeqProperties
      <4> HIDE DEF t
      <4>3. t = <<"command">>
        BY <4>1, <4>2
      <4> QED
        BY <4>3 DEF t
    <3> HIDE DEF o
    <3> QED
      BY <1>9, <3>1, <3>2
  <2> HIDE DEF written
  <2>2. <<"command">> \in Seq({"auth", "command"})
    OBVIOUS
  <2>3. inbox[c] \o written = <<"command">>
    BY <1>9, <2>1, <2>2, ConcatEmptySeq
  <2>4. /\ call' = [call EXCEPT ![c].sent = s.sent, ![c].pending = s.pending]
        /\ inbox' = [inbox EXCEPT ![c] = <<"command">>]
        /\ outbox' = [outbox EXCEPT ![c] = rest]
        /\ answer' = answer
    BY ONLY <1>5, <1>9, <2>3
  <2>5. s.sent \in 0..2
    BY <1>9
  <2>6. ReadsOn(c, s.sent, s.pending, rest, <<"command">>)
    BY ONLY <1>3, <1>9, <2>2, <2>4, <2>5, Zenon DEF ReadsOn
  <2> QED
    BY ONLY <1>1, <2>6, Zenon
<1> QED
  BY <1>3, <1>7, <1>8, <1>9 DEF Comes

LEMMA DataInv ==
  ASSUME AdapterInv, NEW c \in Calls, NEW n, Data(c, n)
  PROVE  AdapterInv'
<1>1. /\ call[c].phase = "waiting" /\ ServerUnchanged /\ SetupUnchanged
  BY DataSettlesOrReads
<1>2. Open(c) /\ UNCHANGED <<store, lapsed, setup, admitted, effect>>
  BY <1>1 DEF Open, ServerUnchanged, SetupUnchanged
<1>3. CASE \/ Settle(c, "failed")
           \/ /\ inbox[c] = <<>> /\ effect[c] \in {"revoked", "clear", "stored"}
              /\ Settle(c, effect[c])
  <2>1. {"revoked", "clear", "stored", "failed"} = Answers
    BY DEF Answers
  <2> QED
    BY <1>1, <1>2, <1>3, <2>1, SettleInv
<1>4. CASE \E k, q, rest, w : ReadsOn(c, k, q, rest, w)
  <2>1. PICK k, q, rest, w : ReadsOn(c, k, q, rest, w)
    BY <1>4
  <2> QED
    BY <1>1, <1>2, <2>1, ReadInv DEF ReadsOn
<1> QED
  BY <1>3, <1>4, DataSettlesOrReads

-----------------------------------------------------------------------------
(* Steps of the server.                                                    *)

\* Of a call that has something on its way to the server.
LEMMA OnItsWay ==
  ASSUME AdapterInv, NEW c \in Calls, inbox[c] # <<>>
  PROVE  /\ inbox[c] = <<Head(inbox[c])>> /\ Tail(inbox[c]) = <<>>
         /\ Head(inbox[c]) \in {"auth", "command"}
         /\ call[c].kind \in Kinds /\ call[c].digest \in Digests
         /\ call[c].phase = "waiting" \/ call[c].phase = "settled"
         /\ call[c].phase = "waiting" =>
              /\ answer[c] = "none" /\ effect[c] = "none" /\ Garbage(Stream(c))
              /\ Head(inbox[c]) = "command" <=> call[c].sent = Len(Operations(c))
         /\ call[c].phase = "settled" => answer[c] = "failed"
         /\ Head(inbox[c]) = "command" =>
              /\ effect[c] = "none"
              /\ setup.password = "none" \/ c \in admitted
<1>1. /\ CallInv(c) /\ call[c].phase \in {"idle", "connecting", "waiting", "settled"}
      /\ call[c] \in CallRecords
  BY DEF AdapterInv, Shape, CallRecords
<1>2. call[c].phase = "waiting" \/ call[c].phase = "settled"
  BY <1>1 DEF CallInv, Unsent
<1>3. CASE call[c].phase = "waiting"
  <2>1. Underway(c)
    BY <1>1, <1>3 DEF CallInv
  <2>2. /\ answer[c] = "none" /\ call[c].sent \in 1..Len(Operations(c))
        /\ inbox[c] = <<Operations(c)[call[c].sent]>>
        /\ Garbage(Stream(c)) /\ effect[c] = "none"
    BY <2>1 DEF Underway
  <2>3. /\ Operations(c)[call[c].sent] \in {"auth", "command"}
        /\ Operations(c)[call[c].sent] = "command" <=> call[c].sent = Len(Operations(c))
    <3>1. CASE setup.password = "none"
      <4>1. Operations(c) = <<"command">>
        BY <3>1 DEF Operations
      <4> QED
        BY <2>2, <4>1
    <3>2. CASE setup.password # "none"
      <4>1. Operations(c) = <<"auth", "command">>
        BY <3>2 DEF Operations
      <4>2. call[c].sent \in 1..2
        BY <2>2, <4>1
      <4> QED
        BY <4>1, <4>2
    <3> QED
      BY <3>1, <3>2
  <2>4. Head(inbox[c]) = Operations(c)[call[c].sent] /\ Tail(inbox[c]) = <<>>
    BY <2>2
  <2> QED
    BY <1>1, <1>3, <2>2, <2>3, <2>4 DEF CallInv
<1>4. CASE call[c].phase = "settled"
  <2>1. Over(c)
    BY <1>1, <1>4 DEF CallInv
  <2>2. inbox[c] \in {<<"auth">>, <<"command">>} /\ answer[c] = "failed"
    BY <2>1 DEF Over
  <2>3. /\ Head(inbox[c]) \in {"auth", "command"} /\ Tail(inbox[c]) = <<>>
        /\ inbox[c] = <<Head(inbox[c])>>
    <3>1. PICK op \in {"auth", "command"} : inbox[c] = <<op>>
      BY <2>2
    <3> QED
      BY <3>1
  <2> QED
    BY <1>1, <1>4, <2>1, <2>2, <2>3 DEF CallInv, Over
<1> QED
  BY <1>2, <1>3, <1>4

\* Concatenation, as an operator the provers need not expand.
Cat(s, t) == s \o t

LEMMA CatTypes ==
  \A s, t \in Seq(Symbols) : Cat(s, t) \in Seq(Symbols)
  BY ConcatProperties DEF Cat

LEMMA CatAssociative ==
  \A s, t, u \in Seq(Symbols) : Cat(Cat(s, t), u) = Cat(s, Cat(t, u))
  BY Associative DEF Cat

\* What has been received and is coming when a line is added to it.
LEMMA StreamGrows ==
  ASSUME NEW p \in Seq(Symbols), NEW o \in Seq(Symbols), NEW line \in Seq(Symbols)
  PROVE  /\ o \o Append(line, "eol") \in Seq(Symbols)
         /\ Cat(p, o \o Append(line, "eol")) = Cat(Cat(Cat(p, o), line), <<"eol">>)
<1> DEFINE end == <<"eol">>
<1>1. end \in Seq(Symbols) /\ "eol" \in Symbols
  BY DEF Symbols
<1>2. o \o Append(line, "eol") = Cat(o, Cat(line, end))
  BY <1>1, AppendIsConcat DEF Cat
<1> HIDE DEF end
<1>3. Cat(line, end) \in Seq(Symbols) /\ Cat(p, o) \in Seq(Symbols)
  BY <1>1, CatTypes
<1>4. Cat(o, Cat(line, end)) \in Seq(Symbols)
  BY <1>3, CatTypes
<1>5. Cat(p, Cat(o, Cat(line, end))) = Cat(Cat(p, o), Cat(line, end))
  BY <1>3, CatAssociative
<1>6. Cat(Cat(p, o), Cat(line, end)) = Cat(Cat(Cat(p, o), line), end)
  BY <1>1, <1>3, CatAssociative
<1>7. Cat(p, Cat(o, Cat(line, end))) = Cat(Cat(Cat(p, o), line), end)
  BY ONLY <1>5, <1>6
<1>8. /\ o \o Append(line, "eol") \in Seq(Symbols)
      /\ Cat(p, o \o Append(line, "eol")) = Cat(Cat(Cat(p, o), line), end)
  BY ONLY <1>2, <1>4, <1>7
<1> QED
  BY <1>8 DEF end

\* A line the server may send for the operation it takes from call c.
MaySend(c, line) ==
  /\ line \in Seq(Symbols) /\ \A i \in 1..Len(line) : line[i] # "eol"
  /\ call[c].phase = "waiting" =>
       IF call[c].sent = Len(Operations(c))
       THEN Meaning(call[c].kind, line) \in {"failed", effect'[c]}
       ELSE (IsOK(line) => c \in admitted') /\ effect'[c] = "none"

LEMMA ReplyInv ==
  ASSUME AdapterInv, NEW c \in Calls, NEW line, MaySend(c, line),
         TakeNext(c), Reply(c, line),
         store' \subseteq Digests, admitted \subseteq admitted', admitted' \subseteq Calls,
         effect' \in [Calls -> {"revoked", "clear", "stored", "none"}],
         \A b \in Calls : b # c => effect'[b] = effect[b],
         effect'[c] # "none" => setup.password = "none" \/ c \in admitted'
  PROVE  AdapterInv'
<1>1. /\ Shape /\ CallInv(c) /\ inbox[c] # <<>>
      /\ inbox' = [inbox EXCEPT ![c] = Tail(inbox[c])]
      /\ call' = call /\ answer' = answer /\ lapsed' = lapsed /\ setup' = setup
  BY DEF AdapterInv, TakeNext, SetupUnchanged
<1>2. /\ Tail(inbox[c]) = <<>>
      /\ call[c].phase = "waiting" \/ call[c].phase = "settled"
      /\ call[c].phase = "waiting" => answer[c] = "none" /\ Garbage(Stream(c))
  BY <1>1, OnItsWay
<1>3. /\ call[c].pending \in Seq(Symbols) /\ outbox[c] \in Seq(Symbols)
      /\ line \in Seq(Symbols)
  BY <1>1 DEF Shape, CallRecords, MaySend
<1>4. PICK u \in Seq(Symbols) :
        /\ outbox' = [outbox EXCEPT ![c] = u]
        /\ u = IF Open(c) THEN outbox[c] \o Append(line, "eol") ELSE outbox[c]
  <2>1. outbox[c] \o Append(line, "eol") \in Seq(Symbols)
    BY <1>3, StreamGrows
  <2>2. outbox' = [outbox EXCEPT ![c] = IF Open(c) THEN outbox[c] \o Append(line, "eol")
                                                   ELSE outbox[c]]
    BY DEF Reply
  <2> QED
    BY <1>3, <2>1, <2>2
<1>5. /\ inbox' \in [Calls -> Seq({"auth", "command"})] /\ inbox'[c] = <<>>
      /\ \A b \in Calls : b # c => inbox'[b] = inbox[b]
  BY <1>1, <1>2 DEF Shape
<1>6. /\ outbox' \in [Calls -> Seq(Symbols)] /\ outbox'[c] = u
      /\ \A b \in Calls : b # c => outbox'[b] = outbox[b]
  BY <1>1, <1>4 DEF Shape
<1>7. Shape'
  BY <1>1, <1>5, <1>6 DEF Shape
<1>8. call[c].phase = "waiting" => Underway(c)'
  <2> SUFFICES ASSUME call[c].phase = "waiting" PROVE Underway(c)'
    OBVIOUS
  <2>1. Underway(c) /\ Garbage(Stream(c)) /\ Open(c)
    BY <1>1, <1>2 DEF CallInv, Open
  <2>2. PICK g \in Seq(Symbols) : g = Stream(c)
    BY <1>3, ConcatProperties DEF Stream
  <2> DEFINE l == Cat(g, line)
             all == Cat(l, <<"eol">>)
  <2>3. Stream(c)' = all
    <3>1. Stream(c)' = Cat(call[c].pending, u)
      BY <1>1, <1>6 DEF Stream, Cat
    <3>2. u = outbox[c] \o Append(line, "eol")
      BY <1>4, <2>1
    <3>3. g = Cat(call[c].pending, outbox[c])
      BY <2>2 DEF Stream, Cat
    <3>4. Cat(call[c].pending, outbox[c] \o Append(line, "eol"))
            = Cat(Cat(Cat(call[c].pending, outbox[c]), line), <<"eol">>)
      BY <1>3, StreamGrows
    <3>5. Cat(call[c].pending, u) = Cat(Cat(Cat(call[c].pending, outbox[c]), line), <<"eol">>)
      BY ONLY <3>2, <3>4
    <3> QED
      BY ONLY <3>1, <3>3, <3>5
  <2>4. OneLine(all, l)
    BY <1>3, <2>1, <2>2, ReplyIsLine DEF MaySend, Cat
  <2>5. Operations(c)' = Operations(c)
    BY <1>1 DEF Operations
  <2>6. IsReply(c, l)'
    <3>1. /\ Meaning(call[c].kind, l) \in {"failed", Meaning(call[c].kind, line)}
          /\ IsOK(l) => IsOK(line)
      BY <1>3, <2>1, <2>2, GarbageSpoils DEF Cat
    <3> HIDE DEF l
    <3> QED
      BY <1>1, <2>5, <3>1 DEF IsReply, MaySend
  <2> HIDE DEF l, all
  <2>7. OneReply(c, Stream(c))'
    <3>1. PICK i \in 1..Len(all) :
            /\ all[i] = "eol" /\ \A j \in 1..(i - 1) : all[j] # "eol"
            /\ \A j \in (i + 1)..Len(all) : all[j] = "x"
            /\ l = SubSeq(all, 1, i - 1)
      BY <2>4 DEF OneLine
    <3>2. IsReply(c, SubSeq(all, 1, i - 1))'
      BY <2>6, <3>1
    <3> QED
      BY ONLY <2>3, <3>1, <3>2 DEF OneReply
  <2>8. /\ answer'[c] = "none" /\ call'[c].sent \in 1..Len(Operations(c)')
        /\ Len(call'[c].pending) <= MaxReply
        /\ call'[c].sent < Len(Operations(c)') => effect'[c] = "none"
    BY <1>1, <1>2, <2>1, <2>5 DEF Underway, MaySend
  <2> QED
    BY ONLY <1>5, <2>7, <2>8, Zenon DEF Underway
<1>9. call[c].phase = "settled" => Over(c)'
  <2> SUFFICES ASSUME call[c].phase = "settled" PROVE Over(c)'
    OBVIOUS
  <2>1. Over(c) /\ ~Open(c)
    BY <1>1 DEF CallInv, Open
  <2>2. u = <<>> /\ answer'[c] # "none" /\ call'[c] = call[c]
    BY <1>1, <1>4, <2>1 DEF Over
  <2> QED
    BY ONLY <1>5, <1>6, <2>1, <2>2 DEF Over
<1>10. CallInv(c)'
  <2>1. inbox'[c] # <<"command">>
    BY <1>5
  <2> QED
    BY <1>1, <1>2, <1>8, <1>9, <2>1 DEF CallInv
<1> QED
  BY <1>1, <1>5, <1>6, <1>7, <1>10, OneMoves

\* What the server sends is one line each.
LEMMA Lines ==
  \A line \in {<<"+", "OK">>, <<"-", "ERR">>, <<":", "0">>, <<":", "1">>,
               <<":", "other">>, <<"+", "other">>} :
    line \in Seq(Symbols) /\ \A i \in 1..Len(line) : line[i] # "eol"
<1>1. ASSUME NEW a \in Symbols \ {"eol"}, NEW b \in Symbols \ {"eol"},
             NEW line, line = <<a, b>>
      PROVE  line \in Seq(Symbols) /\ \A i \in 1..Len(line) : line[i] # "eol"
  BY <1>1
<1>2. {"+", "-", ":", "OK", "ERR", "0", "1", "other"} \subseteq Symbols \ {"eol"}
  BY DEF Symbols
<1> QED
  BY <1>1, <1>2

\* What was sent and is taken: a call that waits for it has sent no more.
LEMMA TakenIsLast ==
  ASSUME AdapterInv, NEW c \in Calls, TakeNext(c)
  PROVE  /\ inbox[c] # <<>> /\ Shape
         /\ call[c].phase = "waiting" =>
              /\ effect[c] = "none"
              /\ Head(inbox[c]) = "command" <=> call[c].sent = Len(Operations(c))
         /\ Head(inbox[c]) = "command" \/ effect[c] # "none"
              => setup.password = "none" \/ c \in admitted
<1>1. inbox[c] # <<>> /\ Shape /\ CallInv(c)
  BY DEF TakeNext, AdapterInv
<1> QED
  BY <1>1, OnItsWay DEF CallInv

LEMMA ServeAuthInv ==
  ASSUME AdapterInv, NEW c \in Calls, ServeAuth(c)
  PROVE  AdapterInv'
<1> DEFINE accepted == setup.secured /\ setup.password = "right"
           line == IF accepted THEN <<"+", "OK">> ELSE <<"-", "ERR">>
<1>1. /\ TakeNext(c) /\ Head(inbox[c]) = "auth" /\ Reply(c, line)
      /\ admitted' = IF accepted THEN admitted \cup {c} ELSE admitted
      /\ store' = store /\ effect' = effect
  BY DEF ServeAuth
<1>2. PICK l : /\ l = line /\ l \in {<<"+", "OK">>, <<"-", "ERR">>}
               /\ IsOK(l) => c \in admitted'
  <2>1. CASE accepted
    BY <1>1, <2>1
  <2>2. CASE ~accepted
    <3>1. ~IsOK(<<"-", "ERR">>)
      <4>1. <<"-", "ERR">>[1] = "-" /\ <<"+", "OK">>[1] = "+"
        OBVIOUS
      <4> QED
        BY <4>1 DEF IsOK
    <3> QED
      BY <2>2, <3>1
  <2> QED
    BY <2>1, <2>2
<1>3. /\ Shape
      /\ call[c].phase = "waiting" =>
           effect[c] = "none" /\ call[c].sent # Len(Operations(c))
      /\ effect[c] # "none" => setup.password = "none" \/ c \in admitted
  BY <1>1, TakenIsLast
<1>4. Reply(c, l)
  BY <1>1, <1>2
<1>5. admitted \subseteq admitted' /\ admitted' \subseteq Calls
  BY <1>1, <1>3 DEF Shape
<1> HIDE DEF line, accepted
<1>6. MaySend(c, l)
  BY <1>1, <1>2, <1>3, Lines DEF MaySend
<1> QED
  BY <1>1, <1>3, <1>4, <1>5, <1>6, ReplyInv DEF Shape

LEMMA ServeExistsInv ==
  ASSUME AdapterInv, NEW c \in Calls, ServeExists(c)
  PROVE  AdapterInv'
<1> DEFINE found == call[c].digest \in store
           line == <<":", IF found THEN "1" ELSE "0">>
           done == IF found THEN "revoked" ELSE "clear"
<1>1. /\ TakeNext(c) /\ Head(inbox[c]) = "command" /\ call[c].kind = "exists"
      /\ Reply(c, line) /\ effect' = [effect EXCEPT ![c] = done]
      /\ admitted' = admitted /\ store' = store
  BY DEF ServeExists
<1>2. PICK l : /\ l = line /\ l \in {<<":", "1">>, <<":", "0">>}
               /\ Meaning("exists", l) = done
  <2>1. CASE found
    BY <2>1 DEF Meaning
  <2>2. CASE ~found
    <3>1. <<":", "0">> # <<":", "1">>
      <4>1. <<":", "0">>[2] = "0" /\ <<":", "1">>[2] = "1"
        OBVIOUS
      <4> QED
        BY <4>1
    <3> QED
      BY <2>2, <3>1 DEF Meaning
  <2> QED
    BY <2>1, <2>2
<1>3. /\ Shape
      /\ call[c].phase = "waiting" => call[c].sent = Len(Operations(c))
      /\ setup.password = "none" \/ c \in admitted
  BY <1>1, TakenIsLast
<1>4. Reply(c, l) /\ done \in {"revoked", "clear", "stored", "none"}
  BY <1>1, <1>2
<1> HIDE DEF line, found, done
<1>5. /\ effect' \in [Calls -> {"revoked", "clear", "stored", "none"}]
      /\ effect'[c] = done
      /\ \A b \in Calls : b # c => effect'[b] = effect[b]
  BY <1>1, <1>3, <1>4 DEF Shape
<1>6. MaySend(c, l)
  <2>1. l \in Seq(Symbols) /\ \A i \in 1..Len(l) : l[i] # "eol"
    BY <1>2, Lines
  <2>2. call[c].phase = "waiting" =>
          /\ call[c].sent = Len(Operations(c))
          /\ Meaning(call[c].kind, l) \in {"failed", effect'[c]}
    BY <1>1, <1>2, <1>3, <1>5
  <2> QED
    BY ONLY <2>1, <2>2 DEF MaySend
<1> QED
  BY <1>1, <1>3, <1>4, <1>5, <1>6, ReplyInv DEF Shape

LEMMA ServeSetInv ==
  ASSUME AdapterInv, NEW c \in Calls, ServeSet(c)
  PROVE  AdapterInv'
<1>1. /\ TakeNext(c) /\ Head(inbox[c]) = "command" /\ call[c].kind = "set"
      /\ Reply(c, <<"+", "OK">>) /\ effect' = [effect EXCEPT ![c] = "stored"]
      /\ admitted' = admitted
      /\ store' = store \cup ({call[c].digest} \ lapsed)
  BY DEF ServeSet
<1>2. PICK l : l = <<"+", "OK">> /\ Meaning("set", l) = "stored"
  BY DEF Meaning, IsOK
<1>3. /\ Shape
      /\ call[c].phase = "waiting" => call[c].sent = Len(Operations(c))
      /\ setup.password = "none" \/ c \in admitted
  BY <1>1, TakenIsLast
<1>4. Reply(c, l)
  BY <1>1, <1>2
<1>5. /\ effect' \in [Calls -> {"revoked", "clear", "stored", "none"}]
      /\ effect'[c] = "stored"
      /\ \A b \in Calls : b # c => effect'[b] = effect[b]
  BY <1>1, <1>3 DEF Shape
<1>6. MaySend(c, l)
  <2>1. l \in Seq(Symbols) /\ \A i \in 1..Len(l) : l[i] # "eol"
    BY <1>2, Lines
  <2>2. call[c].phase = "waiting" =>
          /\ call[c].sent = Len(Operations(c))
          /\ Meaning(call[c].kind, l) \in {"failed", effect'[c]}
    BY <1>1, <1>2, <1>3, <1>5
  <2> QED
    BY ONLY <2>1, <2>2 DEF MaySend
<1>7. store' \subseteq Digests
  <2>1. call[c].digest \in Digests
    BY <1>1, <1>3, OnItsWay, TakenIsLast
  <2> QED
    BY <1>1, <1>3, <2>1 DEF Shape
<1> QED
  BY <1>1, <1>3, <1>4, <1>5, <1>6, <1>7, ReplyInv DEF Shape

LEMMA RefuseInv ==
  ASSUME AdapterInv, NEW c \in Calls, NEW line \in Refusals, Refuse(c, line)
  PROVE  AdapterInv'
<1>1. /\ TakeNext(c) /\ Reply(c, line)
      /\ store' = store /\ admitted' = admitted /\ effect' = effect
  BY DEF Refuse, ServerUnchanged
<1>2. /\ Shape
      /\ call[c].phase = "waiting" => effect[c] = "none"
      /\ effect[c] # "none" => setup.password = "none" \/ c \in admitted
  BY <1>1, TakenIsLast
<1>3. \A kind : Meaning(kind, line) = "failed" /\ ~IsOK(line)
  <2>1. /\ <<":", "1">>[1] = ":" /\ <<":", "0">>[1] = ":" /\ <<"+", "OK">>[1] = "+"
        /\ <<":", "1">>[2] = "1" /\ <<":", "0">>[2] = "0" /\ <<"+", "OK">>[2] = "OK"
    OBVIOUS
  <2>2. line[1] \in {"-", ":", "+"} /\ (line[1] = "-" \/ line[2] = "other")
    BY DEF Refusals
  <2>3. line # <<":", "1">> /\ line # <<":", "0">> /\ line # <<"+", "OK">>
    BY <2>1, <2>2
  <2> QED
    BY <2>3 DEF Meaning, IsOK
<1>4. MaySend(c, line)
  BY <1>1, <1>2, <1>3, Lines DEF MaySend, Refusals
<1> QED
  BY <1>1, <1>2, <1>4, ReplyInv DEF Shape

LEMMA DripInv ==
  ASSUME AdapterInv, NEW c \in Calls, Drip(c)
  PROVE  AdapterInv'
<1>1. /\ Shape /\ CallInv(c) /\ call[c].phase = "waiting" /\ outbox[c] = <<>>
      /\ outbox' = [outbox EXCEPT ![c] = <<"x">>]
      /\ UNCHANGED <<store, lapsed, setup, call, answer, inbox, admitted, effect>>
  BY DEF AdapterInv, Drip, ServerUnchanged, SetupUnchanged
<1>2. <<"x">> \in Seq(Symbols) /\ call[c].pending \in Seq(Symbols)
  BY <1>1 DEF Symbols, Shape, CallRecords
<1>3. /\ outbox' \in [Calls -> Seq(Symbols)] /\ outbox'[c] = <<"x">>
      /\ \A b \in Calls : b # c => outbox'[b] = outbox[b]
  BY <1>1, <1>2 DEF Shape
<1>4. Shape'
  BY <1>1, <1>3 DEF Shape
<1>5. PICK s \in Seq(Symbols) : s = Stream(c) /\ Stream(c)' = s \o <<"x">>
  <2>1. Stream(c) = call[c].pending
    BY <1>1, <1>2, ConcatEmptySeq DEF Stream
  <2>2. Stream(c)' = call[c].pending \o <<"x">>
    BY <1>1, <1>3 DEF Stream
  <2> QED
    BY <1>2, <2>1, <2>2
<1>6. Operations(c)' = Operations(c)
  BY <1>1 DEF Operations
<1>7. /\ Garbage(s) => Garbage(Stream(c)')
      /\ OneReply(c, s) => OneReply(c, Stream(c)')
  BY <1>5, GarbageFollows
<1>8. \A text : OneReply(c, text) => OneReply(c, text)'
  <2>1. \A line : IsReply(c, line) => IsReply(c, line)'
    BY <1>1, <1>6 DEF IsReply
  <2> QED
    BY <2>1 DEF OneReply
<1>9. OneReply(c, s) => OneReply(c, Stream(c))'
  <2>1. PICK all : all = Stream(c)'
    OBVIOUS
  <2>2. OneReply(c, s) => OneReply(c, all)'
    BY <1>7, <1>8, <2>1
  <2> QED
    BY <2>1, <2>2 DEF OneReply
<1>10. Underway(c)'
  <2>1. Underway(c)
    BY <1>1 DEF CallInv
  <2> QED
    BY <1>1, <1>5, <1>6, <1>7, <1>9, <2>1 DEF Underway
<1>11. CallInv(c)'
  BY <1>1, <1>10 DEF CallInv
<1> QED
  BY <1>1, <1>3, <1>4, <1>11, OneMoves

LEMMA LapseInv ==
  ASSUME AdapterInv, NEW d \in Digests, Lapse(d)
  PROVE  AdapterInv'
<1>1. /\ lapsed' = lapsed \cup {d} /\ store' = store \ {d}
      /\ UNCHANGED <<setup, call, answer, inbox, outbox, admitted, effect>>
  BY DEF Lapse, net
<1>2. Shape'
  BY <1>1 DEF AdapterInv, Shape
<1>3. \A c \in Calls : CallInv(c)'
  BY <1>1, CallRests DEF AdapterInv
<1> QED
  BY <1>2, <1>3 DEF AdapterInv

LEMMA AdapterStep ==
  ASSUME AdapterInv, [Next]_vars
  PROVE  AdapterInv'
<1>1. CASE UNCHANGED vars
  <2>1. UNCHANGED <<store, lapsed, setup, call, answer, inbox, outbox, admitted, effect>>
    BY <1>1 DEF vars, net
  <2>2. Shape'
    BY <2>1 DEF AdapterInv, Shape
  <2>3. \A c \in Calls : CallInv(c)'
    BY <2>1, CallRests DEF AdapterInv
  <2> QED
    BY <2>2, <2>3 DEF AdapterInv
<1>2. ASSUME NEW c \in Calls, NEW kind \in Kinds, NEW d \in Digests, Begin(c, kind, d)
      PROVE AdapterInv'
  BY <1>2, BeginInv
<1>3. ASSUME NEW c \in Calls, Connect(c) PROVE AdapterInv'
  BY <1>3, ConnectInv
<1>4. ASSUME NEW c \in Calls, NEW n, Data(c, n) PROVE AdapterInv'
  BY <1>4, DataInv
<1>5. ASSUME NEW c \in Calls, TimeOut(c) \/ ConnectionLost(c) PROVE AdapterInv'
  BY <1>5, SettleInv DEF TimeOut, ConnectionLost, Answers
<1>6. ASSUME NEW c \in Calls, Serve(c) PROVE AdapterInv'
  BY <1>6, ServeAuthInv, ServeExistsInv, ServeSetInv DEF Serve
<1>7. ASSUME NEW c \in Calls, NEW line \in Refusals, Refuse(c, line) PROVE AdapterInv'
  BY <1>7, RefuseInv
<1>8. ASSUME NEW c \in Calls, Drip(c) PROVE AdapterInv'
  BY <1>8, DripInv
<1>9. ASSUME NEW d \in Digests, Lapse(d) PROVE AdapterInv'
  BY <1>9, LapseInv
<1> QED
  BY <1>1, <1>2, <1>3, <1>4, <1>5, <1>6, <1>7, <1>8, <1>9 DEF Next

LEMMA AdapterInvariant == Spec => []AdapterInv
<1>1. Init => AdapterInv
  BY AdapterInit
<1>2. AdapterInv /\ [Next]_vars => AdapterInv'
  BY AdapterStep
<1> QED
  BY <1>1, <1>2, PTL DEF Spec

-----------------------------------------------------------------------------
(* What the adapter shows of itself.                                       *)

\* The buffer of a reply never holds more than MAX_REPLY_BYTES, and a call has
\* sent no more operations than its connection takes.
THEOREM AdapterTypeCorrect == Spec => []TypeOK
<1>1. AdapterInv => TypeOK
  <2> SUFFICES ASSUME AdapterInv, NEW c \in Calls
               PROVE  /\ call[c].sent \in 0..Len(Operations(c))
                      /\ Len(call[c].pending) <= MaxReply
    BY DEF AdapterInv, Shape, CallRecords, TypeOK, Answers
  <2>1. CallInv(c) /\ call[c].phase \in {"idle", "connecting", "waiting", "settled"}
    BY DEF AdapterInv, Shape, CallRecords
  <2>2. Len(Operations(c)) \in {1, 2} /\ MaxReply \in Nat
    BY AdapterAssumption DEF Operations
  <2>3. CASE call[c].phase = "waiting"
    <3>1. call[c].sent \in 1..Len(Operations(c)) /\ Len(call[c].pending) <= MaxReply
      BY <2>1, <2>3 DEF CallInv, Underway
    <3> QED
      BY <2>2, <3>1
  <2>4. CASE call[c].phase # "waiting"
    <3>1. call[c].sent = 0 /\ call[c].pending = <<>>
      BY <2>1, <2>4 DEF CallInv, Unsent, Over
    <3> QED
      BY <2>2, <3>1
  <2> QED
    BY <2>3, <2>4
<1> QED
  BY <1>1, AdapterInvariant, PTL

\* With a password, no command is on its way or carried out on a connection
\* the server has not accepted AUTH on.
THEOREM CommandsFollowAuth == Spec => []CommandFollowsAuth
<1>1. AdapterInv => CommandFollowsAuth
  <2> SUFFICES ASSUME AdapterInv, NEW c \in Calls,
                      \/ \E i \in 1..Len(inbox[c]) : inbox[c][i] = "command"
                      \/ effect[c] # "none"
               PROVE  setup.password = "none" \/ c \in admitted
    BY DEF CommandFollowsAuth
  <2>1. CASE effect[c] # "none"
    BY <2>1 DEF AdapterInv, CallInv
  <2>2. CASE \E i \in 1..Len(inbox[c]) : inbox[c][i] = "command"
    <3>1. PICK i \in 1..Len(inbox[c]) : inbox[c][i] = "command"
      BY <2>2
    <3>2. inbox[c] # <<>>
      BY <3>1
    <3>3. PICK op : inbox[c] = <<op>>
      BY <3>2, OnItsWay
    <3>4. op = "command"
      BY <3>1, <3>3
    <3> QED
      BY <3>3, <3>4 DEF AdapterInv, CallInv
  <2> QED
    BY <2>1, <2>2
<1> QED
  BY <1>1, AdapterInvariant, PTL

-----------------------------------------------------------------------------
(* That the adapter implements the store.                                  *)

\* What the store sees of a call.
Asked == [c \in Calls |-> [kind |-> call[c].kind, digest |-> call[c].digest]]

LEMMA SameAsked ==
  ASSUME \A c \in Calls : call'[c].kind = call[c].kind /\ call'[c].digest = call[c].digest
  PROVE  Asked' = Asked
  BY DEF Asked

LEMMA AskedBy ==
  ASSUME AdapterInv, NEW c \in Calls
  PROVE  /\ Asked[c].kind = call[c].kind /\ Asked[c].digest = call[c].digest
         /\ call[c].phase = "idle" => Asked[c] = Store!NoCommand
         /\ call[c].phase # "idle" => Asked[c] # Store!NoCommand
<1>1. Asked[c] = [kind |-> call[c].kind, digest |-> call[c].digest]
  BY DEF Asked
<1>2. /\ call[c].phase = "idle" => call[c].kind = "none" /\ call[c].digest = "none"
      /\ call[c].phase # "idle" => call[c].kind \in {"exists", "set"}
  BY DEF AdapterInv, CallInv, Kinds
<1> QED
  BY <1>1, <1>2 DEF Store!NoCommand

LEMMA BeginAsks ==
  ASSUME AdapterInv, NEW c \in Calls, NEW kind \in Kinds, NEW d \in Digests,
         Begin(c, kind, d)
  PROVE  Store!Next
<1> DEFINE command == [kind |-> kind, digest |-> d]
<1>1. /\ Shape /\ call[c].phase = "idle"
      /\ UNCHANGED <<store, lapsed, effect>>
  BY DEF AdapterInv, Begin, ServerUnchanged, SetupUnchanged
<1>2. command \in Store!Commands /\ command.kind = kind /\ command.digest = d
  BY DEF Store!Commands, Kinds
<1>3. answer' = [answer EXCEPT ![c] = IF kind = "set" /\ d \in lapsed
                                      THEN "stored" ELSE "none"]
  BY DEF Begin
<1>4. PICK phase : call' = [call EXCEPT ![c].phase = phase, ![c].kind = kind,
                                        ![c].digest = d]
  BY DEF Begin
<1>5. /\ call'[c].kind = kind /\ call'[c].digest = d
      /\ \A b \in Calls : b # c => call'[b] = call[b]
  BY <1>1, <1>4 DEF Shape, CallRecords
<1>6. Asked' = [Asked EXCEPT ![c] = command]
  BY <1>5 DEF Asked
<1>7. Asked[c] = Store!NoCommand
  BY <1>1, AskedBy
<1> HIDE DEF command
<1>8. Store!Ask(c, command)
  BY <1>1, <1>2, <1>3, <1>6, <1>7 DEF Store!Ask, Asked
<1> QED
  BY <1>2, <1>8 DEF Store!Next

\* A call that is settled returns what its command did, or fails.
LEMMA SettleReturns ==
  ASSUME AdapterInv, NEW c \in Calls, Open(c), NEW r, Settle(c, r),
         ServerUnchanged, SetupUnchanged,
         r = "failed" \/ (r = effect[c] /\ r # "none")
  PROVE  Store!Next
<1>1. /\ Shape /\ CallInv(c) /\ call[c].phase \in {"connecting", "waiting"}
      /\ call' = [call EXCEPT ![c].phase = "settled", ![c].sent = 0, ![c].pending = <<>>]
      /\ answer' = [answer EXCEPT ![c] = r]
      /\ UNCHANGED <<store, lapsed, effect>>
  BY DEF AdapterInv, Settle, Open, ServerUnchanged, SetupUnchanged
<1>2. answer[c] = "none" /\ Asked[c] # Store!NoCommand
  BY <1>1, AskedBy DEF CallInv, Unsent, Underway
<1>3. Asked' = Asked
  <2>1. \A b \in Calls : call'[b].kind = call[b].kind /\ call'[b].digest = call[b].digest
    BY <1>1 DEF Shape, CallRecords
  <2> QED
    BY <2>1, SameAsked
<1>4. CASE r = "failed"
  <2>1. Store!Fail(c)
    BY <1>1, <1>2, <1>3, <1>4 DEF Store!Fail, Asked
  <2> QED
    BY <2>1 DEF Store!Next
<1>5. CASE r = effect[c] /\ r # "none"
  <2>1. Store!Return(c)
    BY <1>1, <1>2, <1>3, <1>5 DEF Store!Return, Asked
  <2> QED
    BY <2>1 DEF Store!Next
<1> QED
  BY <1>4, <1>5

\* A command the server carries out.
LEMMA ServeCarriesOut ==
  ASSUME AdapterInv, NEW c \in Calls, ServeExists(c) \/ ServeSet(c)
  PROVE  Store!Next
<1>1. /\ TakeNext(c) /\ Head(inbox[c]) = "command"
      /\ UNCHANGED <<call, answer, lapsed>>
      /\ \/ /\ call[c].kind = "exists" /\ store' = store
            /\ effect' = [effect EXCEPT ![c] =
                            IF call[c].digest \in store THEN "revoked" ELSE "clear"]
         \/ /\ call[c].kind = "set" /\ effect' = [effect EXCEPT ![c] = "stored"]
            /\ store' = store \cup ({call[c].digest} \ lapsed)
  BY DEF ServeExists, ServeSet, TakeNext, SetupUnchanged
<1>2. /\ inbox[c] # <<>>
      /\ call[c].phase = "waiting" \/ call[c].phase = "settled"
      /\ effect[c] = "none" /\ answer[c] \in {"none", "failed"}
  BY <1>1, OnItsWay, TakenIsLast
<1>3. /\ Asked[c].kind = call[c].kind /\ Asked[c].digest = call[c].digest
      /\ Asked[c] # Store!NoCommand
  BY <1>2, AskedBy
<1>4. Asked' = Asked
  BY <1>1 DEF Asked
<1>5. effect' = [effect EXCEPT ![c] = Store!Outcome(Asked[c])]
  BY <1>1, <1>3 DEF Store!Outcome
<1>6. store' = Store!After(Asked[c])
  BY <1>1, <1>3 DEF Store!After
<1>7. Store!CarryOut(c)
  BY <1>1, <1>2, <1>3, <1>4, <1>5, <1>6 DEF Store!CarryOut, Asked
<1> QED
  BY <1>7 DEF Store!Next

\* What the store does not see.
LEMMA UnseenStep ==
  ASSUME UNCHANGED <<store, lapsed, effect, answer>>,
         \A c \in Calls : call'[c].kind = call[c].kind /\ call'[c].digest = call[c].digest
  PROVE  UNCHANGED Store!vars
  BY SameAsked DEF Store!vars, Asked

LEMMA DataReturns ==
  ASSUME AdapterInv, NEW c \in Calls, NEW n, Data(c, n)
  PROVE  [Store!Next]_Store!vars
<1>1. /\ call[c].phase = "waiting" /\ ServerUnchanged /\ SetupUnchanged /\ Open(c)
      /\ call \in [Calls -> CallRecords]
  BY DataSettlesOrReads DEF Open, AdapterInv, Shape
<1>2. CASE \/ Settle(c, "failed")
           \/ /\ inbox[c] = <<>> /\ effect[c] \in {"revoked", "clear", "stored"}
              /\ Settle(c, effect[c])
  BY <1>1, <1>2, SettleReturns
<1>3. CASE \E k, q, rest, w : ReadsOn(c, k, q, rest, w)
  <2>1. PICK k, q : call' = [call EXCEPT ![c].sent = k, ![c].pending = q]
    BY <1>3 DEF ReadsOn
  <2>2. UNCHANGED <<store, lapsed, effect, answer>>
    BY <1>1, <1>3 DEF ReadsOn, ServerUnchanged, SetupUnchanged
  <2>3. \A b \in Calls : call'[b].kind = call[b].kind /\ call'[b].digest = call[b].digest
    BY ONLY <1>1, <2>1 DEF CallRecords
  <2> QED
    BY <2>2, <2>3, UnseenStep
<1> QED
  BY <1>2, <1>3, DataSettlesOrReads

LEMMA StoreStep ==
  ASSUME AdapterInv, [Next]_vars
  PROVE  [Store!Next]_Store!vars
<1>1. CASE UNCHANGED vars
  BY <1>1, UnseenStep DEF vars, net
<1>2. ASSUME NEW c \in Calls, NEW kind \in Kinds, NEW d \in Digests, Begin(c, kind, d)
      PROVE  [Store!Next]_Store!vars
  BY <1>2, BeginAsks
<1>3. ASSUME NEW c \in Calls, Connect(c) PROVE [Store!Next]_Store!vars
  <2>1. UNCHANGED <<store, lapsed, effect, answer>>
    BY <1>3 DEF Connect, ServerUnchanged, SetupUnchanged
  <2>2. \A b \in Calls : call'[b].kind = call[b].kind /\ call'[b].digest = call[b].digest
    BY <1>3 DEF Connect, AdapterInv, Shape, CallRecords
  <2> QED
    BY <2>1, <2>2, UnseenStep
<1>4. ASSUME NEW c \in Calls, NEW n, Data(c, n) PROVE [Store!Next]_Store!vars
  BY <1>4, DataReturns
<1>5. ASSUME NEW c \in Calls, TimeOut(c) \/ ConnectionLost(c)
      PROVE  [Store!Next]_Store!vars
  BY <1>5, SettleReturns DEF TimeOut, ConnectionLost
<1>6. ASSUME NEW c \in Calls, Serve(c) PROVE [Store!Next]_Store!vars
  <2>1. CASE ServeAuth(c)
    BY <2>1, UnseenStep DEF ServeAuth, TakeNext, SetupUnchanged
  <2>2. CASE ServeExists(c) \/ ServeSet(c)
    BY <2>2, ServeCarriesOut
  <2> QED
    BY <1>6, <2>1, <2>2 DEF Serve
<1>7. ASSUME NEW c \in Calls, NEW line \in Refusals, Refuse(c, line)
      PROVE  [Store!Next]_Store!vars
  BY <1>7, UnseenStep DEF Refuse, TakeNext, ServerUnchanged, SetupUnchanged
<1>8. ASSUME NEW c \in Calls, Drip(c) PROVE [Store!Next]_Store!vars
  BY <1>8, UnseenStep DEF Drip, ServerUnchanged, SetupUnchanged
<1>9. ASSUME NEW d \in Digests, Lapse(d) PROVE [Store!Next]_Store!vars
  <2>1. Asked' = Asked
    BY <1>9 DEF Lapse, Asked
  <2>2. Store!Lapse(d)
    BY <1>9, <2>1 DEF Lapse, Store!Lapse, Asked
  <2> QED
    BY <2>2 DEF Store!Next
<1> QED
  BY <1>1, <1>2, <1>3, <1>4, <1>5, <1>6, <1>7, <1>8, <1>9 DEF Next

\* Whatever the network and the server do, and in whatever pieces replies come,
\* the adapter is the store: a call returns what its own command found or did,
\* and never the reply to AUTH, half a line, or what came after it.
THEOREM AdapterImplementsStore == Spec => ImplementsStore
<1>1. Init => Store!Init
  BY DEF Init, Store!Init, Store!NoCommand, NewCall
<1>2. AdapterInv /\ [Next]_vars => [Store!Next]_Store!vars
  BY StoreStep
<1> QED
  BY <1>1, <1>2, AdapterInvariant, PTL DEF Spec, ImplementsStore, Store!Spec

-----------------------------------------------------------------------------
(* What the abstract store promises, of the adapter.                       *)

StoreFacts == INSTANCE RevocationStoreProofs WITH
                held <- store,
                asked <- [c \in Calls |-> [kind |-> call[c].kind,
                                           digest |-> call[c].digest]]

\* The store that the adapter implements is the one the promises are about.
LEMMA SameStore ==
  /\ Store!Next <=> StoreFacts!Next
  /\ Store!vars = StoreFacts!vars /\ Store!vars' = StoreFacts!vars'
<1>1. \A c \in Calls : \A command : Store!Ask(c, command) <=> StoreFacts!Ask(c, command)
  BY DEF Store!Ask, StoreFacts!Ask, Store!NoCommand, StoreFacts!NoCommand
<1>2. \A c \in Calls : Store!CarryOut(c) <=> StoreFacts!CarryOut(c)
  BY DEF Store!CarryOut, StoreFacts!CarryOut, Store!Outcome, StoreFacts!Outcome,
         Store!After, StoreFacts!After, Store!NoCommand, StoreFacts!NoCommand
<1>3. \A c \in Calls : Store!Return(c) <=> StoreFacts!Return(c)
  BY DEF Store!Return, StoreFacts!Return
<1>4. \A c \in Calls : Store!Fail(c) <=> StoreFacts!Fail(c)
  BY DEF Store!Fail, StoreFacts!Fail, Store!NoCommand, StoreFacts!NoCommand
<1>5. \A d \in Digests : Store!Lapse(d) <=> StoreFacts!Lapse(d)
  BY DEF Store!Lapse, StoreFacts!Lapse
<1>6. Store!Commands = StoreFacts!Commands
  BY DEF Store!Commands, StoreFacts!Commands
<1>7. Store!Next <=> StoreFacts!Next
  BY <1>1, <1>2, <1>3, <1>4, <1>5, <1>6 DEF Store!Next, StoreFacts!Next
<1>8. Store!vars = StoreFacts!vars
  BY DEF Store!vars, StoreFacts!vars
<1>9. Store!vars' = StoreFacts!vars'
  BY DEF Store!vars, StoreFacts!vars
<1> QED
  BY <1>7, <1>8, <1>9

LEMMA AdapterIsStore == Spec => StoreFacts!Spec
<1>1. Init => StoreFacts!Init
  BY DEF Init, StoreFacts!Init, StoreFacts!NoCommand, NewCall
<1>2. AdapterInv /\ [Next]_vars => [Store!Next]_Store!vars
  BY StoreStep
<1>3. AdapterInv /\ [Next]_vars => [StoreFacts!Next]_StoreFacts!vars
  BY <1>2, SameStore
<1> QED
  BY <1>1, <1>3, AdapterInvariant, PTL DEF Spec, StoreFacts!Spec

\* A digest whose revocation was confirmed to a caller is in Redis until its
\* expiry has passed.
ConfirmedIsKept ==
  \A c \in Calls : answer[c] = "stored" => call[c].digest \in store \cup lapsed

\* revoke resolves only when Redis keeps the key, whatever is cut into pieces,
\* lost or late.
THEOREM AdapterKeepsConfirmed == Spec => []ConfirmedIsKept
<1>1. StoreFacts!Spec => []StoreFacts!StoredIsHeld
  BY StoreFacts!ConfirmedRevocationIsHeld
<1>2. StoreFacts!StoredIsHeld => ConfirmedIsKept
  BY DEF StoreFacts!StoredIsHeld, ConfirmedIsKept
<1> QED
  BY <1>1, <1>2, AdapterIsStore, PTL

\* isRevoked of a digest that was confirmed revoked: once Redis carries its
\* command out, before the expiry, it finds the key.
THEOREM AdapterFindsConfirmed == Spec => StoreFacts!ConfirmedIsFound
<1>1. StoreFacts!Spec => StoreFacts!ConfirmedIsFound
  BY StoreFacts!ConfirmedRevocationIsFound
<1> QED
  BY <1>1, AdapterIsStore, PTL
=============================================================================
