------------------------------- MODULE Console ------------------------------
(***************************************************************************)
(* The browser console of SolContinuity on a protected server: the sign-in *)
(* panel (src/dashboard/session.js) and the data panels                    *)
(* (src/dashboard/app.js), two scripts that know of each other by two      *)
(* document events.  Any number of replies is under way while the user     *)
(* signs in and out; a reply that is older than the last change of session *)
(* is to be discarded when it is read.                                     *)
(*                                                                         *)
(* Handlers run one at a time.  A request is sent with the cookie of that  *)
(* moment, decided by the server in a later step and delivered in a third. *)
(* A session may end, and the browser drop its cookie, while the page      *)
(* shows what it showed: the scripts learn of it by the next refusal.      *)
(***************************************************************************)
EXTENDS Integers, FiniteSets

CONSTANTS
  MaxEpoch,     \* bound: the user acts only in the epochs before this one
  MaxLogins,    \* bound: sessions the server issues
  MaxInFlight   \* bound: protected requests the user lets pile up

ASSUME ConsoleAssumption ==
  MaxEpoch \in Nat /\ MaxLogins \in Nat \ {0} /\ MaxInFlight \in Nat

VARIABLES
  epoch,        \* sessionEpoch of app.js
  superseded,   \* whether generation of session.js has moved on since the probe
  shown,        \* what session.js shows: nothing yet, the form, or the sign-out button
  auth,         \* the login or logout under way ("busy"), and its reply
  probe,        \* inspectAccess: its stage, the cookie it sent, the reply
  inFlight,     \* the protected requests of app.js that are under way
  screen,       \* screen[p]: what panel p shows, and the session it was fetched under
  cookie,       \* the session cookie in the browser, 0 for none
  issued,       \* how many sessions the server has issued
  ended,        \* the sessions that were signed out of or that expired
  taken         \* history: the session the page took up last, 0 once it signed out

page == <<epoch, superseded, shown, auth, probe, inFlight, screen>>
vars == <<page, cookie, issued, ended, taken>>

Panels == {"status", "overview", "evidence", "lab"}
Kinds == {"overview", "evidence", "lab"}
Sessions == 0..MaxLogins
Pending == {"none", "ok", "denied", "error"}
Blank == [what |-> "blank", under |-> 0]
Loading == [what |-> "loading", under |-> 0]
Error == [what |-> "error", under |-> 0]
Data(c) == [what |-> "data", under |-> c]
Contents == {Blank, Loading, Error} \cup {Data(c) : c \in Sessions}
Requests == [kind : Kinds, epoch : 0..(MaxEpoch + 2), under : Sessions, reply : Pending]

TypeOK ==
  /\ epoch \in 0..(MaxEpoch + 2)
  /\ superseded \in BOOLEAN
  /\ shown \in {"nothing", "form", "logout"}
  /\ auth \in [call : {"none", "login", "logout"}, under : Sessions, reply : Pending]
  /\ probe \in [stage : {"health", "overview", "done"}, under : Sessions, reply : Pending]
  /\ inFlight \subseteq Requests
  /\ screen \in [Panels -> Contents]
  /\ cookie \in Sessions /\ issued \in Sessions /\ ended \subseteq Sessions
  /\ taken \in Sessions

Request(kind, e, c) == [kind |-> kind, epoch |-> e, under |-> c, reply |-> "none"]
NoCall == [call |-> "none", under |-> 0, reply |-> "none"]

\* The page has just been loaded, perhaps with a cookie of an earlier visit.
Init ==
  /\ epoch = 0 /\ superseded = FALSE /\ shown = "nothing" /\ auth = NoCall
  /\ cookie \in {0, 1} /\ issued = cookie /\ ended = {} /\ taken = cookie
  /\ probe = [stage |-> "health", under |-> cookie, reply |-> "none"]
  /\ inFlight = {Request("overview", 0, cookie), Request("evidence", 0, cookie)}
  /\ screen = [[p \in Panels |-> Blank] EXCEPT !["evidence"] = Loading]

-----------------------------------------------------------------------------
(* The server, as the console meets it.                                    *)

Verdict(c) == IF c \in 1..issued /\ c \notin ended THEN "ok" ELSE "denied"

\* A protected request is let in by its cookie, or fails for another reason.
Decide(q) ==
  /\ q \in inFlight /\ q.reply = "none"
  /\ \E reply \in {Verdict(q.under), "error"} :
       inFlight' = (inFlight \ {q}) \cup {[q EXCEPT !.reply = reply]}
  /\ UNCHANGED <<epoch, superseded, shown, auth, probe, screen, cookie, issued, ended, taken>>

DecideLogin ==
  /\ auth.call = "login" /\ auth.reply = "none"
  /\ \/ /\ issued < MaxLogins
        /\ issued' = issued + 1
        /\ auth' = [auth EXCEPT !.reply = "ok", !.under = issued + 1]
     \/ /\ \E reply \in {"denied", "error"} : auth' = [auth EXCEPT !.reply = reply]
        /\ UNCHANGED issued
  /\ UNCHANGED <<epoch, superseded, shown, probe, inFlight, screen, cookie, ended, taken>>

\* The revocation may be done and its confirmation lost.  A sign-out without a
\* cookie has nothing to revoke and is confirmed all the same.
DecideLogout ==
  /\ auth.call = "logout" /\ auth.reply = "none"
  /\ LET revoked == ended \cup ({auth.under} \ {0})
     IN  \/ ended' = revoked /\ auth' = [auth EXCEPT !.reply = "ok"]
         \/ ended' \in {ended, revoked} /\ auth' = [auth EXCEPT !.reply = "error"]
  /\ UNCHANGED <<epoch, superseded, shown, probe, inFlight, screen, cookie, issued, taken>>

DecideProbe ==
  /\ probe.stage # "done" /\ probe.reply = "none"
  /\ \E reply \in {IF probe.stage = "health" THEN "ok" ELSE Verdict(probe.under), "error"} :
       probe' = [probe EXCEPT !.reply = reply]
  /\ UNCHANGED <<epoch, superseded, shown, auth, inFlight, screen, cookie, issued, ended, taken>>

Expire(c) ==
  /\ c \in 1..issued /\ c \notin ended
  /\ ended' = ended \cup {c}
  /\ UNCHANGED <<page, cookie, issued, taken>>

\* The Max-Age of the cookie is the life of its session and counts from when
\* the browser receives it: the browser drops it once the session has ended,
\* soon or late, and tells no script.
DropCookie ==
  /\ cookie # 0 /\ cookie \in ended
  /\ cookie' = 0
  /\ UNCHANGED <<page, issued, ended, taken>>

-----------------------------------------------------------------------------
(* The two document events, and show() of session.js.                      *)

Show(what) == shown' = what /\ superseded' = TRUE

\* Mutant: the panels are loaded again when a sign-in is required.
SessionRequiredReloads(remaining) ==
  /\ Show("form")
  /\ epoch' = epoch + 1
  /\ screen' = [p \in Panels |-> Blank]
  /\ inFlight' = remaining \cup {Request("overview", epoch + 1, cookie)}

\* "sol-session-required": both scripts listen; every panel is emptied.
SessionRequired(remaining) ==
  /\ Show("form")
  /\ epoch' = epoch + 1
  /\ screen' = [p \in Panels |-> Blank]
  /\ inFlight' = remaining

\* "sol-session-changed": results are cleared and loaded anew.  The text of
\* the overview stays until its own reload replaces it.
SessionChanged(c) ==
  /\ epoch' = epoch + 1
  /\ screen' = [p \in Panels |-> CASE p \in {"status", "lab"} -> Blank
                                   [] p = "evidence" -> Loading
                                   [] p = "overview" -> screen[p]]
  /\ inFlight' = inFlight \cup {Request("overview", epoch + 1, c),
                                Request("evidence", epoch + 1, c)}

-----------------------------------------------------------------------------
(* app.js                                                                  *)

\* Refresh, audit and score: a reload of the evidence empties its panel first.
Ask(kind) ==
  /\ epoch < MaxEpoch
  /\ Cardinality(inFlight) < MaxInFlight
  /\ inFlight' = inFlight \cup {Request(kind, epoch, cookie)}
  /\ screen' = IF kind = "evidence" THEN [screen EXCEPT !["evidence"] = Loading] ELSE screen
  /\ UNCHANGED <<epoch, superseded, shown, auth, probe, cookie, issued, ended, taken>>

PanelsOf(kind) == IF kind = "overview" THEN {"status", "overview"} ELSE {kind}

\* Mutant: the epoch of a reply is not compared.
DiscardNothing(q) == FALSE

\* apiRequest and its callers: a reply of an earlier epoch is dropped.
Discarded(q) == q.epoch # epoch

Render(q, contents) ==
  /\ screen' = [p \in Panels |-> IF p \in PanelsOf(q.kind) THEN contents ELSE screen[p]]
  /\ inFlight' = inFlight \ {q}
  /\ UNCHANGED <<epoch, superseded, shown>>

Deliver(q) ==
  /\ q \in inFlight /\ q.reply # "none"
  /\ \/ /\ Discarded(q)
        /\ inFlight' = inFlight \ {q}
        /\ UNCHANGED <<epoch, superseded, shown, screen>>
     \/ ~Discarded(q) /\ q.reply = "ok" /\ Render(q, Data(q.under))
     \/ ~Discarded(q) /\ q.reply = "error" /\ Render(q, Error)
     \/ ~Discarded(q) /\ q.reply = "denied" /\ SessionRequired(inFlight \ {q})
  /\ UNCHANGED <<auth, probe, cookie, issued, ended, taken>>

-----------------------------------------------------------------------------
(* session.js                                                              *)

Submit ==
  /\ epoch < MaxEpoch /\ shown = "form" /\ auth = NoCall
  /\ auth' = [call |-> "login", under |-> 0, reply |-> "none"]
  /\ superseded' = TRUE
  /\ UNCHANGED <<epoch, shown, probe, inFlight, screen, cookie, issued, ended, taken>>

ClickLogout ==
  /\ epoch < MaxEpoch /\ shown = "logout" /\ auth = NoCall
  /\ auth' = [call |-> "logout", under |-> cookie, reply |-> "none"]
  /\ superseded' = TRUE
  /\ UNCHANGED <<epoch, shown, probe, inFlight, screen, cookie, issued, ended, taken>>

\* The reply to a login sets the cookie before the script sees it.
FinishLogin ==
  /\ auth.call = "login" /\ auth.reply # "none"
  /\ auth' = NoCall
  /\ \/ /\ auth.reply = "ok"
        /\ cookie' = auth.under /\ taken' = auth.under
        /\ Show("logout") /\ SessionChanged(auth.under)
     \/ /\ auth.reply # "ok"
        /\ Show("form")
        /\ UNCHANGED <<cookie, epoch, screen, inFlight, taken>>
  /\ UNCHANGED <<probe, issued, ended>>

FinishLogout ==
  /\ auth.call = "logout" /\ auth.reply # "none"
  /\ auth' = NoCall
  /\ \/ /\ auth.reply = "ok"
        /\ cookie' = 0 /\ taken' = 0
        /\ Show("form") /\ SessionChanged(0)
     \/ /\ auth.reply # "ok"
        /\ UNCHANGED <<cookie, superseded, shown, epoch, screen, inFlight, taken>>
  /\ UNCHANGED <<probe, issued, ended>>

\* Mutant: a probe is obeyed however old it is.
ProbeIsCurrentAlways == TRUE

ProbeIsCurrent == ~superseded

Probed == [stage |-> "done", under |-> 0, reply |-> "none"]

\* inspectAccess, after the health reply and after the overview reply.
FinishProbe ==
  /\ probe.stage # "done" /\ probe.reply # "none"
  /\ \/ /\ ProbeIsCurrent /\ probe.stage = "health" /\ probe.reply = "ok"
        /\ probe' = [stage |-> "overview", under |-> cookie, reply |-> "none"]
        /\ UNCHANGED <<shown, superseded>>
     \/ /\ ProbeIsCurrent /\ probe.stage = "overview" /\ probe.reply = "ok"
        /\ Show("logout")
        /\ probe' = Probed
     \/ /\ ProbeIsCurrent /\ probe.stage = "overview" /\ probe.reply = "denied"
        /\ Show("form")
        /\ probe' = Probed
     \/ /\ ~ProbeIsCurrent \/ probe.reply = "error"
        /\ probe' = Probed
        /\ UNCHANGED <<shown, superseded>>
  /\ UNCHANGED <<epoch, auth, inFlight, screen, cookie, issued, ended, taken>>

-----------------------------------------------------------------------------
Next ==
  \/ \E q \in inFlight : Decide(q) \/ Deliver(q)
  \/ \E kind \in Kinds : Ask(kind)
  \/ \E c \in Sessions : Expire(c)
  \/ DropCookie
  \/ DecideLogin
  \/ DecideLogout
  \/ DecideProbe
  \/ Submit
  \/ ClickLogout
  \/ FinishLogin
  \/ FinishLogout
  \/ FinishProbe

Spec == Init /\ [][Next]_vars

-----------------------------------------------------------------------------
(* What must hold.                                                         *)

\* What a panel shows was fetched under the session the page took up last, and
\* nothing once it signed out: no reply of an earlier session renders, and none
\* stays (sessionEpoch).  Only the text of the overview may be left over, and
\* then its reload is under way.
ScreenFollowsSession ==
  \A p \in Panels :
    screen[p].what = "data" =>
      \/ screen[p].under = taken
      \/ p = "overview" /\ \E q \in inFlight : q.kind = "overview" /\ q.epoch = epoch

\* The console offers sign-out only for a session it took up and did not sign
\* out of, which the browser holds unless it has ended since: neither a late
\* probe nor a late reply brings the button back after a confirmed sign-out.
SignedInIsTrue ==
  shown = "logout" => taken # 0 /\ (cookie = taken \/ taken \in ended)

\* The console asks for the token only when the browser has no session or one
\* that the server has ended: a late refusal does not undo a sign-in.
SignedOutIsTrue == shown = "form" => cookie = 0 \/ cookie \in ended
=============================================================================
