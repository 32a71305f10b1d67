---------------------------- MODULE ConsoleProofs ---------------------------
(***************************************************************************)
(* That what the console shows belongs to the session it took up last,     *)
(* proved of Console for any number of sign-ins and requests under way.    *)
(***************************************************************************)
EXTENDS Console, TLAPS

\* A request of this epoch, whose reply will be rendered.
Current(q) == q.epoch = epoch

\* A cookie the server has given out, or none.
Given(c) == c \in 0..issued

\* The server has nothing to let this cookie in by.
Void(c) == c = 0 \/ c \in ended

\* A reply was right when the server gave it, and a session does not come back.
ReplyIsTrue(reply, c) ==
  /\ reply = "ok" => c # 0
  /\ reply = "denied" => Void(c)

\* The user acts before MaxEpoch; what is still under way then ends within two
\* more epochs.
RunsOut ==
  /\ epoch >= MaxEpoch => auth = NoCall \/ ~(\E q \in inFlight : Current(q))
  /\ epoch >= MaxEpoch + 1 => auth = NoCall
  /\ epoch = MaxEpoch + 2 => ~(\E q \in inFlight : Current(q))

\* The cookie of a session the page took up, or none once that session ended.
Follows(c) == c = taken \/ (c = 0 /\ taken \in ended)

\* The browser holds such a cookie.
CookieIsTaken == Given(taken) /\ Given(cookie) /\ Follows(cookie)

\* So does a protected request of this epoch.
RequestsFollowTaken ==
  \A q \in inFlight :
    /\ q.epoch <= epoch
    /\ Current(q) => Follows(q.under)
    /\ Given(q.under) /\ ReplyIsTrue(q.reply, q.under)

\* The token is asked for, or a token is being checked, only without a session.
LoginIsNeeded ==
  shown = "form" \/ auth.call = "login" => Void(cookie)

\* A sign-in that succeeded brings a session of its own.
LoginIsNew ==
  auth.call = "login" /\ auth.reply = "ok" => auth.under \in 1..issued

\* Until something else decides what to show, the probe speaks for that session.
ProbeFollowsTaken ==
  /\ probe.stage # "done" /\ ~superseded => Follows(probe.under)
  /\ Given(probe.under)
  /\ probe.stage = "overview" => ReplyIsTrue(probe.reply, probe.under)

ConsoleInv ==
  /\ TypeOK
  /\ CookieIsTaken
  /\ RunsOut
  /\ RequestsFollowTaken
  /\ LoginIsNeeded
  /\ LoginIsNew
  /\ ProbeFollowsTaken
  /\ ScreenFollowsSession
  /\ SignedInIsTrue

LEMMA RepliedRequest ==
  ASSUME NEW q \in Requests, NEW reply \in Pending
  PROVE  LET r == [q EXCEPT !.reply = reply] IN
         /\ r \in Requests /\ r.kind = q.kind /\ r.epoch = q.epoch
         /\ r.under = q.under /\ r.reply = reply
BY DEF Requests

LEMMA NewRequest ==
  ASSUME NEW kind \in Kinds, NEW e \in 0..(MaxEpoch + 2), NEW c \in Sessions
  PROVE  LET r == Request(kind, e, c) IN
         /\ r \in Requests /\ r.kind = kind /\ r.epoch = e
         /\ r.under = c /\ r.reply = "none"
BY DEF Requests, Request, Pending

\* The server lets a session in that it has issued and not ended.
LEMMA VerdictIsTrue ==
  ASSUME NEW c, Given(c), issued \in Nat
  PROVE  Verdict(c) \in Pending /\ ReplyIsTrue(Verdict(c), c)
BY DEF CookieIsTaken, Follows, Given, Verdict, Pending, ReplyIsTrue, Void

LEMMA InitConsole == Init => ConsoleInv
<1> SUFFICES ASSUME Init PROVE ConsoleInv
  OBVIOUS
<1> USE ConsoleAssumption
<1>1. cookie \in {0, 1} /\ cookie \in Sessions /\ 0 \in 0..(MaxEpoch + 2)
  BY DEF Init, Sessions
<1>2. \A q \in inFlight :
        /\ q \in Requests /\ q.epoch = 0 /\ q.under = cookie /\ q.reply = "none"
  BY <1>1, NewRequest DEF Init, Kinds
<1>3. screen \in [Panels -> {Blank, Loading}]
  BY DEF Init, Panels
<1>4. \A p \in Panels : screen[p].what # "data"
  BY <1>3 DEF Blank, Loading
<1>5. TypeOK
  <2>1. screen \in [Panels -> Contents]
    BY <1>3 DEF Contents
  <2>2. auth \in [call : {"none", "login", "logout"}, under : Sessions, reply : Pending]
    BY DEF Init, NoCall, Sessions, Pending
  <2>3. probe \in [stage : {"health", "overview", "done"}, under : Sessions, reply : Pending]
    BY <1>1 DEF Init, Pending
  <2>4. inFlight \subseteq Requests
    BY <1>2
  <2> QED
    BY <1>1, <2>1, <2>2, <2>3, <2>4 DEF Init, TypeOK
<1>6. CookieIsTaken /\ Given(cookie) /\ taken = cookie
  BY <1>1 DEF Init, CookieIsTaken, Follows, Given
<1>7. RunsOut /\ LoginIsNeeded /\ LoginIsNew /\ SignedInIsTrue
  BY DEF Init, RunsOut, LoginIsNeeded, LoginIsNew, SignedInIsTrue, NoCall
<1>8. RequestsFollowTaken
  BY <1>2, <1>6 DEF Init, RequestsFollowTaken, Current, Follows, ReplyIsTrue
<1>9. ProbeFollowsTaken
  BY <1>6 DEF Init, ProbeFollowsTaken, Follows
<1>10. ScreenFollowsSession
  BY <1>4 DEF ScreenFollowsSession
<1> QED
  BY <1>5, <1>6, <1>7, <1>8, <1>9, <1>10 DEF ConsoleInv

-----------------------------------------------------------------------------
(* The server's steps.                                                     *)

\* A session that was given out or is void stays so.
LEMMA ServerRemembers ==
  ASSUME ConsoleInv, issued' \in Sessions, issued <= issued', ended \subseteq ended',
         taken' = taken
  PROVE  /\ \A c : Given(c) => Given(c)'
         /\ \A c : Void(c) => Void(c)'
         /\ \A c : Follows(c) => Follows(c)'
         /\ \A reply, c : ReplyIsTrue(reply, c) => ReplyIsTrue(reply, c)'
<1>1. issued \in Nat /\ issued' \in Nat
  BY ConsoleAssumption DEF ConsoleInv, TypeOK, Sessions
<1>2. \A c : Given(c) => Given(c)'
  BY <1>1 DEF Given
<1>3. \A c : Void(c) => Void(c)'
  BY DEF Void
<1>4. \A reply, c : ReplyIsTrue(reply, c) => ReplyIsTrue(reply, c)'
  BY DEF Void, ReplyIsTrue
<1>5. \A c : Follows(c) => Follows(c)'
  BY DEF Follows
<1> QED
  BY <1>2, <1>3, <1>4, <1>5

\* What is refused to a request of this session, the browser has no session for.
LEMMA RefusalIsTrue ==
  ASSUME ConsoleInv, NEW c, Follows(c), Void(c)
  PROVE  Void(cookie)
BY DEF ConsoleInv, CookieIsTaken, Follows, Void

LEMMA DecideKeeps ==
  ASSUME ConsoleInv, NEW q \in inFlight, Decide(q)
  PROVE  ConsoleInv'
<1> USE ConsoleAssumption
<1>1. /\ q.reply = "none"
      /\ UNCHANGED <<epoch, superseded, shown, auth, probe, screen, cookie, issued, ended, taken>>
  BY DEF Decide
<1>2. PICK reply \in {Verdict(q.under), "error"} :
        inFlight' = (inFlight \ {q}) \cup {[q EXCEPT !.reply = reply]}
  BY DEF Decide
<1>3. q \in Requests /\ issued \in Nat /\ Given(q.under)
  BY DEF ConsoleInv, TypeOK, Sessions, RequestsFollowTaken
<1>4. reply \in Pending /\ ReplyIsTrue(reply, q.under)
  <2>1. CASE reply = "error"
    BY <2>1 DEF Pending, ReplyIsTrue
  <2>2. CASE reply = Verdict(q.under)
    BY <1>3, <2>2, VerdictIsTrue
  <2> QED
    BY <1>2, <2>1, <2>2
<1>5. PICK r : r = [q EXCEPT !.reply = reply]
  OBVIOUS
<1>6. /\ r \in Requests /\ r.kind = q.kind /\ r.epoch = q.epoch
      /\ r.under = q.under /\ r.reply = reply
  BY <1>3, <1>4, <1>5, RepliedRequest
<1>7. inFlight' = (inFlight \ {q}) \cup {r}
  BY <1>2, <1>5
<1>8. TypeOK'
  BY <1>1, <1>6, <1>7 DEF ConsoleInv, TypeOK
<1>9. RunsOut'
  BY <1>1, <1>6, <1>7 DEF ConsoleInv, RunsOut, Current
<1>10. RequestsFollowTaken'
  BY <1>1, <1>3, <1>4, <1>6, <1>7
     DEF ConsoleInv, RequestsFollowTaken, Current, CookieIsTaken, Follows, Given, ReplyIsTrue, Void
<1>11. ScreenFollowsSession'
  BY <1>1, <1>6, <1>7 DEF ConsoleInv, ScreenFollowsSession
<1>12. CookieIsTaken' /\ LoginIsNeeded' /\ LoginIsNew' /\ ProbeFollowsTaken'
       /\ SignedInIsTrue'
  BY <1>1 DEF ConsoleInv, CookieIsTaken, Follows, Given, LoginIsNeeded, LoginIsNew, ProbeFollowsTaken,
              SignedInIsTrue, Void, ReplyIsTrue
<1> QED
  BY <1>8, <1>9, <1>10, <1>11, <1>12 DEF ConsoleInv

\* What the page keeps while only the server moves.
LEMMA ServerMoves ==
  ASSUME ConsoleInv,
         UNCHANGED <<epoch, superseded, shown, inFlight, screen, cookie, taken>>,
         issued' \in Sessions, issued <= issued', ended \subseteq ended',
         auth'.call = auth.call
  PROVE  /\ CookieIsTaken' /\ RequestsFollowTaken' /\ LoginIsNeeded'
         /\ ScreenFollowsSession' /\ SignedInIsTrue'
<1>1. CookieIsTaken' /\ LoginIsNeeded'
  BY ServerRemembers DEF ConsoleInv, CookieIsTaken, LoginIsNeeded, Void
<1>2. RequestsFollowTaken'
  BY ServerRemembers DEF ConsoleInv, RequestsFollowTaken, Current
<1>3. ScreenFollowsSession' /\ SignedInIsTrue'
  BY DEF ConsoleInv, ScreenFollowsSession, SignedInIsTrue
<1> QED
  BY <1>1, <1>2, <1>3

LEMMA DecideLoginKeeps ==
  ASSUME ConsoleInv, DecideLogin
  PROVE  ConsoleInv'
<1> USE ConsoleAssumption
<1>1. /\ auth.call = "login" /\ auth.reply = "none"
      /\ UNCHANGED <<epoch, superseded, shown, probe, inFlight, screen, cookie, ended, taken>>
  BY DEF DecideLogin
<1>2. auth \in [call : {"none", "login", "logout"}, under : Sessions, reply : Pending]
      /\ issued \in Sessions
  BY DEF ConsoleInv, TypeOK
<1>3. /\ issued' \in Sessions /\ issued <= issued'
      /\ auth' \in [call : {"none", "login", "logout"}, under : Sessions, reply : Pending]
      /\ auth'.call = "login"
      /\ auth'.reply = "ok" => auth'.under \in 1..issued'
  <2>1. CASE /\ issued < MaxLogins /\ issued' = issued + 1
             /\ auth' = [auth EXCEPT !.reply = "ok", !.under = issued + 1]
    <3>1. PICK a : a = [auth EXCEPT !.reply = "ok"]
      OBVIOUS
    <3>2. /\ a \in [call : {"none", "login", "logout"}, under : Sessions, reply : Pending]
          /\ a.call = "login" /\ a.reply = "ok"
      BY <1>1, <1>2, <3>1 DEF Pending
    <3>3. auth' = [a EXCEPT !.under = issued + 1] /\ issued + 1 \in Sessions
      BY <1>2, <2>1, <3>1 DEF Sessions
    <3>4. /\ auth' \in [call : {"none", "login", "logout"}, under : Sessions, reply : Pending]
          /\ auth'.call = "login" /\ auth'.under = issued + 1
      BY <3>2, <3>3
    <3>5. issued \in Nat /\ issued' = issued + 1
      BY <1>2, <2>1 DEF Sessions
    <3> QED
      BY <3>3, <3>4, <3>5
  <2>2. CASE /\ \E reply \in {"denied", "error"} : auth' = [auth EXCEPT !.reply = reply]
             /\ UNCHANGED issued
    <3>1. PICK reply \in {"denied", "error"} : auth' = [auth EXCEPT !.reply = reply]
      BY <2>2
    <3> QED
      BY <1>1, <1>2, <2>2, <3>1 DEF Pending, Sessions
  <2> QED
    BY <2>1, <2>2 DEF DecideLogin
<1>4. /\ CookieIsTaken' /\ RequestsFollowTaken' /\ LoginIsNeeded'
      /\ ScreenFollowsSession' /\ SignedInIsTrue'
  BY <1>1, <1>3, ServerMoves
<1>5. TypeOK'
  BY <1>1, <1>3 DEF ConsoleInv, TypeOK
<1>6. RunsOut'
  BY <1>1, <1>3 DEF ConsoleInv, RunsOut, Current, NoCall
<1>7. LoginIsNew'
  BY <1>3 DEF LoginIsNew
<1>8. ProbeFollowsTaken'
  BY <1>1, <1>3, ServerRemembers DEF ConsoleInv, ProbeFollowsTaken
<1> QED
  BY <1>4, <1>5, <1>6, <1>7, <1>8 DEF ConsoleInv

LEMMA DecideLogoutKeeps ==
  ASSUME ConsoleInv, DecideLogout
  PROVE  ConsoleInv'
<1> USE ConsoleAssumption
<1>1. /\ auth.call = "logout"
      /\ UNCHANGED <<epoch, superseded, shown, probe, inFlight, screen, cookie, issued, taken>>
  BY DEF DecideLogout
<1>2. auth \in [call : {"none", "login", "logout"}, under : Sessions, reply : Pending]
      /\ issued \in Sessions /\ ended \subseteq Sessions
  BY DEF ConsoleInv, TypeOK
<1>3. /\ ended' \in {ended, ended \cup ({auth.under} \ {0})}
      /\ \E reply \in {"ok", "error"} : auth' = [auth EXCEPT !.reply = reply]
  BY DEF DecideLogout
<1>4. /\ ended \subseteq ended' /\ ended' \subseteq Sessions
      /\ auth' \in [call : {"none", "login", "logout"}, under : Sessions, reply : Pending]
      /\ auth'.call = "logout" /\ issued' \in Sessions /\ issued <= issued'
  BY <1>1, <1>2, <1>3 DEF Pending, Sessions
<1>5. /\ CookieIsTaken' /\ RequestsFollowTaken' /\ LoginIsNeeded'
      /\ ScreenFollowsSession' /\ SignedInIsTrue'
  BY <1>1, <1>4, ServerMoves
<1>6. TypeOK'
  BY <1>1, <1>4 DEF ConsoleInv, TypeOK
<1>7. RunsOut'
  BY <1>1, <1>4 DEF ConsoleInv, RunsOut, Current, NoCall
<1>8. LoginIsNew'
  BY <1>4 DEF LoginIsNew
<1>9. ProbeFollowsTaken'
  BY <1>1, <1>4, ServerRemembers DEF ConsoleInv, ProbeFollowsTaken
<1> QED
  BY <1>5, <1>6, <1>7, <1>8, <1>9 DEF ConsoleInv

LEMMA DecideProbeKeeps ==
  ASSUME ConsoleInv, DecideProbe
  PROVE  ConsoleInv'
<1> USE ConsoleAssumption
<1>1. UNCHANGED <<epoch, superseded, shown, auth, inFlight, screen, cookie, issued, ended, taken>>
  BY DEF DecideProbe
<1>2. PICK reply \in {IF probe.stage = "health" THEN "ok" ELSE Verdict(probe.under), "error"} :
        probe' = [probe EXCEPT !.reply = reply]
  BY DEF DecideProbe
<1>3. probe \in [stage : {"health", "overview", "done"}, under : Sessions, reply : Pending]
      /\ issued \in Nat /\ Given(probe.under)
  BY DEF ConsoleInv, TypeOK, ProbeFollowsTaken, Sessions
<1>4. reply \in Pending /\ (probe.stage = "overview" => ReplyIsTrue(reply, probe.under))
  BY <1>2, <1>3, VerdictIsTrue DEF Pending, ReplyIsTrue
<1>5. /\ probe' \in [stage : {"health", "overview", "done"}, under : Sessions, reply : Pending]
      /\ probe'.stage = probe.stage /\ probe'.under = probe.under /\ probe'.reply = reply
  BY <1>2, <1>3, <1>4
<1>6. TypeOK'
  BY <1>1, <1>5 DEF ConsoleInv, TypeOK
<1>7. ProbeFollowsTaken'
  BY <1>1, <1>4, <1>5
     DEF ConsoleInv, ProbeFollowsTaken, CookieIsTaken, Follows, Given, ReplyIsTrue, Void
<1>8. issued <= issued' /\ issued' \in Sessions /\ ended \subseteq ended'
  BY <1>1 DEF ConsoleInv, TypeOK, Sessions
<1>9. /\ CookieIsTaken' /\ RequestsFollowTaken' /\ LoginIsNeeded'
      /\ ScreenFollowsSession' /\ SignedInIsTrue'
  BY <1>1, <1>8, ServerMoves
<1>10. RunsOut' /\ LoginIsNew'
  BY <1>1 DEF ConsoleInv, RunsOut, Current, NoCall, LoginIsNew
<1> QED
  BY <1>6, <1>7, <1>9, <1>10 DEF ConsoleInv

LEMMA ExpireKeeps ==
  ASSUME ConsoleInv, NEW c \in Sessions, Expire(c)
  PROVE  ConsoleInv'
<1> USE ConsoleAssumption
<1>1. /\ UNCHANGED <<epoch, superseded, shown, auth, probe, inFlight, screen, cookie, issued, taken>>
      /\ ended' = ended \cup {c}
  BY DEF Expire, page
<1>2. issued <= issued' /\ issued' \in Sessions /\ ended \subseteq ended'
  BY <1>1 DEF ConsoleInv, TypeOK, Sessions
<1>3. /\ CookieIsTaken' /\ RequestsFollowTaken' /\ LoginIsNeeded'
      /\ ScreenFollowsSession' /\ SignedInIsTrue'
  BY <1>1, <1>2, ServerMoves
<1>4. TypeOK'
  BY <1>1 DEF ConsoleInv, TypeOK
<1>5. RunsOut' /\ LoginIsNew'
  BY <1>1 DEF ConsoleInv, RunsOut, Current, NoCall, LoginIsNew
<1>6. ProbeFollowsTaken'
  BY <1>1, <1>2, ServerRemembers DEF ConsoleInv, ProbeFollowsTaken
<1> QED
  BY <1>3, <1>4, <1>5, <1>6 DEF ConsoleInv

\* A cookie that is gone leaves nothing to let in by; the page keeps what it has.
LEMMA DropCookieKeeps ==
  ASSUME ConsoleInv, DropCookie
  PROVE  ConsoleInv'
<1> USE ConsoleAssumption
<1>1. /\ UNCHANGED <<epoch, superseded, shown, auth, probe, inFlight, screen, issued, ended, taken>>
      /\ cookie' = 0 /\ cookie # 0 /\ cookie \in ended
  BY DEF DropCookie, page
<1>2. TypeOK'
  BY <1>1 DEF ConsoleInv, TypeOK, Sessions
<1>3. taken = cookie /\ taken \in ended /\ issued \in Nat
  BY <1>1 DEF ConsoleInv, TypeOK, Sessions, CookieIsTaken, Follows
<1>4. CookieIsTaken' /\ LoginIsNeeded' /\ SignedInIsTrue'
  BY <1>1, <1>3 DEF ConsoleInv, CookieIsTaken, Follows, Given, LoginIsNeeded, Void,
                    SignedInIsTrue
<1>5. RunsOut' /\ LoginIsNew' /\ ScreenFollowsSession'
  BY <1>1 DEF ConsoleInv, RunsOut, Current, NoCall, LoginIsNew, ScreenFollowsSession
<1>6. RequestsFollowTaken' /\ ProbeFollowsTaken'
  BY <1>1 DEF ConsoleInv, RequestsFollowTaken, ProbeFollowsTaken, Current, Follows,
              Given, ReplyIsTrue, Void
<1> QED
  BY <1>2, <1>4, <1>5, <1>6 DEF ConsoleInv

-----------------------------------------------------------------------------
(* The steps of the two scripts.                                           *)

LEMMA AskKeeps ==
  ASSUME ConsoleInv, NEW kind \in Kinds, Ask(kind)
  PROVE  ConsoleInv'
<1> USE ConsoleAssumption
<1>1. /\ epoch < MaxEpoch
      /\ UNCHANGED <<epoch, superseded, shown, auth, probe, cookie, issued, ended, taken>>
      /\ screen' = IF kind = "evidence" THEN [screen EXCEPT !["evidence"] = Loading] ELSE screen
  BY DEF Ask
<1>2. epoch \in 0..(MaxEpoch + 2) /\ cookie \in Sessions /\ screen \in [Panels -> Contents]
  BY DEF ConsoleInv, TypeOK
<1>3. PICK r : r = Request(kind, epoch, cookie)
  OBVIOUS
<1>4. /\ r \in Requests /\ r.kind = kind /\ r.epoch = epoch
      /\ r.under = cookie /\ r.reply = "none"
  BY <1>2, <1>3, NewRequest
<1>5. inFlight' = inFlight \cup {r}
  BY <1>3 DEF Ask
<1>6. screen' \in [Panels -> Contents]
      /\ \A p \in Panels : screen'[p].what = "data" => screen'[p] = screen[p]
  <2>1. Loading \in Contents /\ Loading.what # "data"
    BY DEF Contents, Loading
  <2> QED
    BY <1>1, <1>2, <2>1
<1>7. TypeOK'
  BY <1>1, <1>4, <1>5, <1>6 DEF ConsoleInv, TypeOK
<1>8. RunsOut'
  BY <1>1, <1>2 DEF RunsOut
<1>9. RequestsFollowTaken'
  BY <1>1, <1>2, <1>4, <1>5
     DEF ConsoleInv, RequestsFollowTaken, Current, CookieIsTaken, Follows, Given, ReplyIsTrue, Void
<1>10. ScreenFollowsSession'
  BY <1>1, <1>5, <1>6 DEF ConsoleInv, ScreenFollowsSession
<1>11. CookieIsTaken' /\ LoginIsNeeded' /\ LoginIsNew' /\ ProbeFollowsTaken'
       /\ SignedInIsTrue'
  BY <1>1 DEF ConsoleInv, CookieIsTaken, Follows, Given, LoginIsNeeded, LoginIsNew, ProbeFollowsTaken,
              SignedInIsTrue, Void, ReplyIsTrue
<1> QED
  BY <1>7, <1>8, <1>9, <1>10, <1>11 DEF ConsoleInv

\* A reply of this epoch is rendered: it was fetched under the session taken up.
LEMMA RenderKeeps ==
  ASSUME ConsoleInv, NEW q \in inFlight, Current(q),
         NEW contents \in {Data(q.under), Error}, Render(q, contents),
         contents = Error \/ q.reply = "ok",
         UNCHANGED <<auth, probe, cookie, issued, ended, taken>>
  PROVE  ConsoleInv'
<1> USE ConsoleAssumption
<1>1. /\ inFlight' = inFlight \ {q}
      /\ UNCHANGED <<epoch, superseded, shown>>
      /\ screen' = [p \in Panels |-> IF p \in PanelsOf(q.kind) THEN contents ELSE screen[p]]
  BY DEF Render
<1>2. q \in Requests /\ screen \in [Panels -> Contents] /\ Follows(q.under)
      /\ ReplyIsTrue(q.reply, q.under)
  BY DEF ConsoleInv, TypeOK, RequestsFollowTaken
<1>3. contents \in Contents /\ (contents.what = "data" => contents.under = taken)
  BY <1>2 DEF Contents, Requests, Data, Error, Follows, ReplyIsTrue
<1>4. TypeOK'
  BY <1>1, <1>2, <1>3 DEF ConsoleInv, TypeOK
<1>5. RunsOut' /\ RequestsFollowTaken'
  BY <1>1 DEF ConsoleInv, RunsOut, RequestsFollowTaken, Current, CookieIsTaken, Follows, Given,
              ReplyIsTrue, Void
<1>6. ScreenFollowsSession'
  <2> SUFFICES ASSUME NEW p \in Panels, screen'[p].what = "data"
               PROVE  \/ screen'[p].under = taken
                      \/ p = "overview" /\ \E x \in inFlight' : x.kind = "overview" /\ x.epoch = epoch
    BY <1>1 DEF ScreenFollowsSession
  <2>1. CASE p \in PanelsOf(q.kind)
    BY <1>1, <1>3, <2>1
  <2>2. CASE p \notin PanelsOf(q.kind)
    <3>1. screen'[p] = screen[p]
      BY <1>1, <2>2
    <3>2. p = "overview" => q.kind # "overview"
      BY <2>2 DEF PanelsOf
    <3> QED
      BY <1>1, <3>1, <3>2 DEF ConsoleInv, ScreenFollowsSession
  <2> QED
    BY <2>1, <2>2
<1>7. CookieIsTaken' /\ LoginIsNeeded' /\ LoginIsNew' /\ ProbeFollowsTaken'
      /\ SignedInIsTrue'
  BY <1>1 DEF ConsoleInv, CookieIsTaken, Follows, Given, LoginIsNeeded, LoginIsNew, ProbeFollowsTaken,
              SignedInIsTrue, Void, ReplyIsTrue
<1> QED
  BY <1>4, <1>5, <1>6, <1>7 DEF ConsoleInv

LEMMA DeliverKeeps ==
  ASSUME ConsoleInv, NEW q \in inFlight, Deliver(q)
  PROVE  ConsoleInv'
<1> USE ConsoleAssumption
<1>0. UNCHANGED <<auth, probe, cookie, issued, ended, taken>>
  BY DEF Deliver
<1>1. CASE ~Current(q)
  <2>1. inFlight' = inFlight \ {q} /\ UNCHANGED <<epoch, superseded, shown, screen>>
    BY <1>1 DEF Deliver, Discarded, Current
  <2>2. TypeOK'
    BY <1>0, <2>1 DEF ConsoleInv, TypeOK
  <2>3. RunsOut' /\ RequestsFollowTaken'
    BY <1>0, <2>1 DEF ConsoleInv, RunsOut, RequestsFollowTaken, Current, CookieIsTaken, Follows, Given,
                      ReplyIsTrue, Void
  <2>4. ScreenFollowsSession'
    BY <1>0, <1>1, <2>1 DEF ConsoleInv, ScreenFollowsSession, Current
  <2>5. CookieIsTaken' /\ LoginIsNeeded' /\ LoginIsNew' /\ ProbeFollowsTaken'
        /\ SignedInIsTrue'
    BY <1>0, <2>1 DEF ConsoleInv, CookieIsTaken, Follows, Given, LoginIsNeeded, LoginIsNew, ProbeFollowsTaken,
                      SignedInIsTrue, Void, ReplyIsTrue
  <2> QED
    BY <2>2, <2>3, <2>4, <2>5 DEF ConsoleInv
<1>2. CASE Current(q) /\ q.reply # "denied"
  <2>1. \/ q.reply = "ok" /\ Render(q, Data(q.under))
        \/ Render(q, Error)
    BY <1>2 DEF Deliver, Discarded, Current
  <2> QED
    BY <1>0, <1>2, <2>1, RenderKeeps
<1>3. CASE Current(q) /\ q.reply = "denied"
  <2>1. /\ shown' = "form" /\ superseded' = TRUE /\ epoch' = epoch + 1
        /\ screen' = [p \in Panels |-> Blank] /\ inFlight' = inFlight \ {q}
    BY <1>3 DEF Deliver, Discarded, Current, SessionRequired, Show
  <2>2. epoch \in 0..(MaxEpoch + 2) /\ epoch # MaxEpoch + 2
    BY <1>3 DEF ConsoleInv, TypeOK, RunsOut
  <2>3. epoch' \in 0..(MaxEpoch + 2) /\ epoch' > epoch
    BY <2>1, <2>2
  <2>4. Blank \in Contents /\ Blank.what # "data"
    BY DEF Contents, Blank
  <2>5. TypeOK'
    <3>1. screen' \in [Panels -> Contents]
      BY <2>1, <2>4
    <3> QED
      BY <1>0, <2>1, <2>3, <3>1 DEF ConsoleInv, TypeOK
  <2>6. \A x \in inFlight' : /\ x \in inFlight /\ x.epoch <= epoch' /\ x.epoch # epoch'
                             /\ Given(x.under) /\ ReplyIsTrue(x.reply, x.under)
    <3>1. \A x \in inFlight : /\ x.epoch \in Int /\ x.epoch <= epoch
                              /\ Given(x.under) /\ ReplyIsTrue(x.reply, x.under)
      BY DEF ConsoleInv, TypeOK, Requests, RequestsFollowTaken
    <3> QED
      BY <2>1, <2>2, <3>1
  <2>7. RequestsFollowTaken'
    BY <1>0, <2>6 DEF RequestsFollowTaken, Current, Follows, Given, ReplyIsTrue, Void
  <2>8. RunsOut'
    <3>1. epoch = MaxEpoch => auth = NoCall
      BY <1>3 DEF ConsoleInv, RunsOut
    <3>2. epoch = MaxEpoch + 1 => auth = NoCall
      BY DEF ConsoleInv, RunsOut
    <3>3. epoch' >= MaxEpoch + 1 => auth' = NoCall
      BY <1>0, <2>1, <2>2, <3>1, <3>2
    <3> QED
      BY <2>6, <3>3 DEF RunsOut, Current
  <2>9. Void(cookie)
    BY <1>3, RefusalIsTrue DEF ConsoleInv, RequestsFollowTaken, ReplyIsTrue
  <2>10. ScreenFollowsSession'
    BY <2>1, <2>4 DEF ScreenFollowsSession
  <2>11. CookieIsTaken' /\ LoginIsNeeded' /\ LoginIsNew' /\ ProbeFollowsTaken'
         /\ SignedInIsTrue'
    BY <1>0, <2>1, <2>9
       DEF ConsoleInv, CookieIsTaken, Follows, Given, LoginIsNeeded, LoginIsNew, ProbeFollowsTaken,
           SignedInIsTrue, Void, ReplyIsTrue
  <2> QED
    BY <2>5, <2>7, <2>8, <2>10, <2>11 DEF ConsoleInv
<1> QED
  BY <1>1, <1>2, <1>3

LEMMA SubmitKeeps ==
  ASSUME ConsoleInv, Submit \/ ClickLogout
  PROVE  ConsoleInv'
<1> USE ConsoleAssumption
<1>1. /\ epoch < MaxEpoch /\ superseded' = TRUE
      /\ UNCHANGED <<epoch, shown, probe, inFlight, screen, cookie, issued, ended, taken>>
      /\ auth' \in [call : {"login", "logout"}, under : {0, cookie}, reply : {"none"}]
      /\ auth'.call = "login" => shown = "form"
  BY DEF Submit, ClickLogout
<1>2. auth' \in [call : {"none", "login", "logout"}, under : Sessions, reply : Pending]
      /\ auth'.reply = "none"
  BY <1>1 DEF ConsoleInv, TypeOK, Sessions, Pending
<1>3. TypeOK'
  BY <1>1, <1>2 DEF ConsoleInv, TypeOK
<1>4. RunsOut'
  BY <1>1 DEF ConsoleInv, TypeOK, RunsOut
<1>5. RequestsFollowTaken' /\ ScreenFollowsSession' /\ CookieIsTaken'
  BY <1>1 DEF ConsoleInv, RequestsFollowTaken, ScreenFollowsSession, Current, CookieIsTaken, Follows, Given,
              ReplyIsTrue, Void
<1>6. LoginIsNeeded' /\ LoginIsNew' /\ ProbeFollowsTaken' /\ SignedInIsTrue'
  BY <1>1, <1>2 DEF ConsoleInv, LoginIsNeeded, LoginIsNew, ProbeFollowsTaken,
                    SignedInIsTrue, CookieIsTaken, Follows, Given, ReplyIsTrue, Void
<1> QED
  BY <1>3, <1>4, <1>5, <1>6 DEF ConsoleInv

\* Both panels of results are cleared and loaded anew under the new cookie.
LEMMA SessionChangedKeeps ==
  ASSUME ConsoleInv, NEW c \in Sessions, SessionChanged(c), cookie' = c, taken' = c, Given(c),
         auth # NoCall, auth' = NoCall, superseded' = TRUE,
         shown' \in {"form", "logout"}, shown' = "form" <=> c = 0,
         UNCHANGED <<probe, issued, ended>>
  PROVE  ConsoleInv'
<1> USE ConsoleAssumption
<1>1. epoch \in 0..(MaxEpoch + 2) /\ epoch < MaxEpoch + 1 /\ screen \in [Panels -> Contents]
  BY DEF ConsoleInv, TypeOK, RunsOut
<1>2. epoch' = epoch + 1 /\ epoch + 1 \in 0..(MaxEpoch + 2)
  BY <1>1 DEF SessionChanged
<1>3. PICK o : o = Request("overview", epoch + 1, c)
  OBVIOUS
<1>4. PICK e : e = Request("evidence", epoch + 1, c)
  OBVIOUS
<1>5. /\ o \in Requests /\ o.kind = "overview" /\ o.epoch = epoch'
      /\ o.under = c /\ o.reply = "none"
  BY <1>2, <1>3, NewRequest DEF Kinds
<1>6. /\ e \in Requests /\ e.epoch = epoch' /\ e.under = c /\ e.reply = "none"
  BY <1>2, <1>4, NewRequest DEF Kinds
<1>7. inFlight' = inFlight \cup {o, e}
  BY <1>3, <1>4 DEF SessionChanged
<1>8. /\ screen' \in [Panels -> Contents]
      /\ \A p \in Panels : screen'[p].what = "data" => p = "overview"
  <2>1. /\ Blank \in Contents /\ Blank.what # "data"
        /\ Loading \in Contents /\ Loading.what # "data"
    BY DEF Contents, Blank, Loading
  <2>2. ASSUME NEW p \in Panels
        PROVE  /\ p \in {"status", "lab"} => screen'[p] = Blank
               /\ p = "evidence" => screen'[p] = Loading
               /\ p = "overview" => screen'[p] = screen[p]
    BY DEF SessionChanged
  <2>3. screen' = [p \in Panels |-> screen'[p]]
    <3> DEFINE contents(p) == CASE p \in {"status", "lab"} -> Blank
                                [] p = "evidence" -> Loading
                                [] p = "overview" -> screen[p]
    <3>1. screen' = [p \in Panels |-> contents(p)]
      BY DEF SessionChanged
    <3> HIDE DEF contents
    <3> QED
      BY <3>1
  <2> QED
    BY <1>1, <2>1, <2>2, <2>3 DEF Panels
<1>9. TypeOK'
  <2>1. NoCall \in [call : {"none", "login", "logout"}, under : Sessions, reply : Pending]
    BY DEF NoCall, Sessions, Pending
  <2> QED
    BY <1>2, <1>5, <1>6, <1>7, <1>8, <2>1 DEF ConsoleInv, TypeOK
<1>10. RunsOut'
  BY <1>1, <1>2 DEF RunsOut
<1>11. RequestsFollowTaken'
  <2>1. \A q \in inFlight : /\ q.epoch \in Int /\ q.epoch <= epoch
                            /\ Given(q.under) /\ ReplyIsTrue(q.reply, q.under)
    BY DEF ConsoleInv, TypeOK, Requests, RequestsFollowTaken
  <2>2. \A q \in inFlight' :
          /\ q.epoch <= epoch' /\ (q.epoch = epoch' => q.under = c /\ c = taken')
          /\ Given(q.under) /\ ReplyIsTrue(q.reply, q.under)
    BY <1>1, <1>2, <1>5, <1>6, <1>7, <2>1 DEF ReplyIsTrue
  <2> QED
    BY <2>2 DEF RequestsFollowTaken, Current, Follows, Given, ReplyIsTrue, Void
<1>12. ScreenFollowsSession'
  BY <1>5, <1>7, <1>8 DEF ScreenFollowsSession
<1>13. CookieIsTaken' /\ LoginIsNeeded' /\ LoginIsNew' /\ ProbeFollowsTaken'
       /\ SignedInIsTrue'
  BY DEF ConsoleInv, CookieIsTaken, Follows, Given, LoginIsNeeded, LoginIsNew, ProbeFollowsTaken,
         SignedInIsTrue, Void, ReplyIsTrue, NoCall
<1> QED
  BY <1>9, <1>10, <1>11, <1>12, <1>13 DEF ConsoleInv

LEMMA FinishLoginKeeps ==
  ASSUME ConsoleInv, FinishLogin
  PROVE  ConsoleInv'
<1> USE ConsoleAssumption
<1>1. /\ auth.call = "login" /\ auth # NoCall /\ auth' = NoCall
      /\ UNCHANGED <<probe, issued, ended>>
  BY DEF FinishLogin, NoCall
<1>2. CASE auth.reply = "ok"
  <2>1. /\ cookie' = auth.under /\ taken' = auth.under /\ shown' = "logout" /\ superseded' = TRUE
        /\ SessionChanged(auth.under)
    BY <1>2 DEF FinishLogin, Show
  <2>2. auth.under \in Sessions /\ auth.under # 0 /\ Given(auth.under)
    BY <1>1, <1>2 DEF ConsoleInv, TypeOK, LoginIsNew, Sessions, Given
  <2> QED
    BY <1>1, <2>1, <2>2, SessionChangedKeeps
<1>3. CASE auth.reply # "ok"
  <2>1. /\ shown' = "form" /\ superseded' = TRUE
        /\ UNCHANGED <<cookie, epoch, screen, inFlight, taken>>
    BY <1>3 DEF FinishLogin, Show
  <2>2. NoCall \in [call : {"none", "login", "logout"}, under : Sessions, reply : Pending]
    BY DEF NoCall, Sessions, Pending
  <2>3. TypeOK'
    BY <1>1, <2>1, <2>2 DEF ConsoleInv, TypeOK
  <2>4. RunsOut' /\ RequestsFollowTaken' /\ ScreenFollowsSession' /\ CookieIsTaken'
    BY <1>1, <2>1 DEF ConsoleInv, RunsOut, RequestsFollowTaken, ScreenFollowsSession,
                      Current, CookieIsTaken, Follows, Given, ReplyIsTrue, Void
  <2>5. LoginIsNeeded' /\ LoginIsNew' /\ ProbeFollowsTaken' /\ SignedInIsTrue'
    BY <1>1, <2>1 DEF ConsoleInv, LoginIsNeeded, LoginIsNew, ProbeFollowsTaken,
                      SignedInIsTrue, CookieIsTaken, Follows, Given, ReplyIsTrue, Void, NoCall
  <2> QED
    BY <2>3, <2>4, <2>5 DEF ConsoleInv
<1> QED
  BY <1>2, <1>3

LEMMA FinishLogoutKeeps ==
  ASSUME ConsoleInv, FinishLogout
  PROVE  ConsoleInv'
<1> USE ConsoleAssumption
<1>1. /\ auth.call = "logout" /\ auth # NoCall /\ auth' = NoCall
      /\ UNCHANGED <<probe, issued, ended>>
  BY DEF FinishLogout, NoCall
<1>2. CASE auth.reply = "ok"
  <2>1. /\ cookie' = 0 /\ taken' = 0 /\ shown' = "form" /\ superseded' = TRUE
        /\ SessionChanged(0)
    BY <1>2 DEF FinishLogout, Show
  <2>2. 0 \in Sessions /\ Given(0)
    BY DEF ConsoleInv, TypeOK, Sessions, Given
  <2> QED
    BY <1>1, <2>1, <2>2, SessionChangedKeeps
<1>3. CASE auth.reply # "ok"
  <2>1. UNCHANGED <<cookie, superseded, shown, epoch, screen, inFlight, taken>>
    BY <1>3 DEF FinishLogout
  <2>2. NoCall \in [call : {"none", "login", "logout"}, under : Sessions, reply : Pending]
    BY DEF NoCall, Sessions, Pending
  <2>3. TypeOK'
    BY <1>1, <2>1, <2>2 DEF ConsoleInv, TypeOK
  <2>4. RunsOut' /\ RequestsFollowTaken' /\ ScreenFollowsSession' /\ CookieIsTaken'
    BY <1>1, <2>1 DEF ConsoleInv, RunsOut, RequestsFollowTaken, ScreenFollowsSession,
                      Current, CookieIsTaken, Follows, Given, ReplyIsTrue, Void
  <2>5. LoginIsNeeded' /\ LoginIsNew' /\ ProbeFollowsTaken' /\ SignedInIsTrue'
    BY <1>1, <2>1 DEF ConsoleInv, LoginIsNeeded, LoginIsNew, ProbeFollowsTaken,
                      SignedInIsTrue, CookieIsTaken, Follows, Given, ReplyIsTrue, Void, NoCall
  <2> QED
    BY <2>3, <2>4, <2>5 DEF ConsoleInv
<1> QED
  BY <1>2, <1>3

LEMMA FinishProbeKeeps ==
  ASSUME ConsoleInv, FinishProbe
  PROVE  ConsoleInv'
<1> USE ConsoleAssumption
<1>1. UNCHANGED <<epoch, auth, inFlight, screen, cookie, issued, ended, taken>>
  BY DEF FinishProbe
<1>2. /\ probe \in [stage : {"health", "overview", "done"}, under : Sessions, reply : Pending]
      /\ cookie \in Sessions /\ CookieIsTaken /\ Given(probe.under) /\ issued \in Nat
  BY DEF ConsoleInv, TypeOK, ProbeFollowsTaken, Sessions
<1>3. RunsOut' /\ RequestsFollowTaken' /\ ScreenFollowsSession' /\ CookieIsTaken' /\ LoginIsNew'
  BY <1>1 DEF ConsoleInv, RunsOut, RequestsFollowTaken, ScreenFollowsSession, LoginIsNew,
              Current, CookieIsTaken, Follows, Given, ReplyIsTrue, Void
<1>4. CASE /\ probe' = [stage |-> "overview", under |-> cookie, reply |-> "none"]
           /\ UNCHANGED <<shown, superseded>>
  <2>1. TypeOK'
    BY <1>1, <1>2, <1>4 DEF ConsoleInv, TypeOK, Pending
  <2>2. ProbeFollowsTaken'
    BY <1>1, <1>2, <1>4 DEF ProbeFollowsTaken, CookieIsTaken, Follows, Given, ReplyIsTrue
  <2>3. LoginIsNeeded' /\ SignedInIsTrue'
    BY <1>1, <1>4 DEF ConsoleInv, LoginIsNeeded, SignedInIsTrue, Void
  <2> QED
    BY <1>3, <2>1, <2>2, <2>3 DEF ConsoleInv
<1>5. CASE probe' = Probed
  <2>1. /\ probe' \in [stage : {"health", "overview", "done"}, under : Sessions, reply : Pending]
        /\ probe'.stage = "done" /\ probe'.under = 0
    BY <1>5 DEF Probed, Sessions, Pending
  <2>2. ProbeFollowsTaken'
    BY <1>1, <1>2, <2>1 DEF ProbeFollowsTaken, Given
  <2>3. CASE UNCHANGED <<shown, superseded>>
    <3>1. TypeOK' /\ LoginIsNeeded' /\ SignedInIsTrue'
      BY <1>1, <2>1, <2>3 DEF ConsoleInv, TypeOK, LoginIsNeeded, SignedInIsTrue, Void
    <3> QED
      BY <1>3, <2>2, <3>1 DEF ConsoleInv
  <2>4. CASE /\ ProbeIsCurrent /\ probe.stage = "overview" /\ superseded' = TRUE
             /\ \/ probe.reply = "ok" /\ shown' = "logout"
                \/ probe.reply = "denied" /\ shown' = "form"
    <3>1. /\ probe.reply = "ok" => taken # 0
          /\ probe.reply = "denied" => Void(cookie)
      <4>1. Follows(probe.under) /\ ReplyIsTrue(probe.reply, probe.under)
        BY <2>4 DEF ConsoleInv, ProbeFollowsTaken, ProbeIsCurrent
      <4> QED
        BY <4>1, RefusalIsTrue DEF ReplyIsTrue, Follows
    <3>2. TypeOK'
      BY <1>1, <2>1, <2>4 DEF ConsoleInv, TypeOK
    <3>3. LoginIsNeeded' /\ SignedInIsTrue'
      BY <1>1, <1>2, <2>4, <3>1
         DEF ConsoleInv, LoginIsNeeded, SignedInIsTrue, CookieIsTaken, Follows, Void
    <3> QED
      BY <1>3, <2>2, <3>2, <3>3 DEF ConsoleInv
  <2> QED
    BY <1>5, <2>3, <2>4 DEF FinishProbe, Show
<1> QED
  BY <1>4, <1>5 DEF FinishProbe, Show

-----------------------------------------------------------------------------
LEMMA ConsoleStep == ConsoleInv /\ [Next]_vars => ConsoleInv'
<1> SUFFICES ASSUME ConsoleInv, [Next]_vars PROVE ConsoleInv'
  OBVIOUS
<1>1. CASE UNCHANGED vars
  <2>1. UNCHANGED <<epoch, superseded, shown, auth, probe, inFlight, screen, cookie, issued, ended, taken>>
    BY <1>1 DEF vars, page
  <2> QED
    BY <2>1 DEF ConsoleInv, TypeOK, CookieIsTaken, Follows, Given, RunsOut, Current, RequestsFollowTaken,
                ReplyIsTrue, Void, LoginIsNeeded, LoginIsNew, ProbeFollowsTaken,
                ScreenFollowsSession, SignedInIsTrue
<1>2. CASE Next
  BY <1>2, DecideKeeps, DeliverKeeps, AskKeeps, ExpireKeeps, DropCookieKeeps, DecideLoginKeeps,
     DecideLogoutKeeps, DecideProbeKeeps, SubmitKeeps, FinishLoginKeeps,
     FinishLogoutKeeps, FinishProbeKeeps
     DEF Next
<1> QED
  BY <1>1, <1>2

\* The inductive invariant: cookie, requests and probe speak for the session
\* taken up or for none once it ended, and what is rendered follows them.
THEOREM ConsoleInvariant == Spec => []ConsoleInv
<1>1. Init => ConsoleInv
  BY InitConsole
<1>2. ConsoleInv /\ [Next]_vars => ConsoleInv'
  BY ConsoleStep
<1> QED
  BY <1>1, <1>2, PTL DEF Spec

\* The state of the console keeps to its types; the epochs run out two after
\* the user's last action.
THEOREM ConsoleTypeCorrect == Spec => []TypeOK
<1>1. ConsoleInv => TypeOK
  BY DEF ConsoleInv
<1> QED
  BY <1>1, ConsoleInvariant, PTL

\* Whatever replies are late, no panel of app.js shows what was fetched under
\* another session than the one taken up last, but for the overview while its
\* reload is under way.
THEOREM PanelsFollowTheSession == Spec => []ScreenFollowsSession
<1>1. ConsoleInv => ScreenFollowsSession
  BY DEF ConsoleInv
<1> QED
  BY <1>1, ConsoleInvariant, PTL

\* session.js offers to sign out only of a session that was taken up and not
\* signed out of, and that the browser still holds unless it has ended.
THEOREM SignOutIsOfferedInSession == Spec => []SignedInIsTrue
<1>1. ConsoleInv => SignedInIsTrue
  BY DEF ConsoleInv
<1> QED
  BY <1>1, ConsoleInvariant, PTL

\* session.js asks for the token only when the browser has no session or one
\* the server has ended.
THEOREM TokenIsAskedWithoutSession == Spec => []SignedOutIsTrue
<1>1. ConsoleInv => SignedOutIsTrue
  BY DEF ConsoleInv, LoginIsNeeded, Void, SignedOutIsTrue
<1> QED
  BY <1>1, ConsoleInvariant, PTL
=============================================================================
