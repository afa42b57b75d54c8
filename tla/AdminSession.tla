------------------------------ MODULE AdminSession ------------------------------
(***************************************************************************)
(* The session of an administrator: AuthController and AdminJwtGuard at    *)
(* the server, and in the browser the AuthContext and the pages that turn  *)
(* visitors away.                                                          *)
(*                                                                         *)
(* The tabs of the browser share two items of localStorage, hub_token and  *)
(* hub_admin.  What a tab shows is a copy of its own, taken when it was    *)
(* loaded; what it sends is the token that is stored when it sends.  A     *)
(* token says whether its administrator has to change the password, and    *)
(* goes on saying so until it expires.                                     *)
(*                                                                         *)
(*   login    select -> sign    -> answer                                  *)
(*   change   guard, select -> update -> answer                            *)
(*   call     guard -> answer                                              *)
(*                                                                         *)
(* The effects of a page, which send its visitor elsewhere, run with the   *)
(* step that renders it.                                                   *)
(***************************************************************************)
EXTENDS Naturals, Sequences

CONSTANTS
  Tabs,
  Admins,
  Default,      \* the administrator every process creates when it starts
  Processes,
  MaxTokens,    \* bound: logins
  Nobody

ASSUME SessionAssumption ==
  /\ Default \in Admins /\ Nobody \notin Admins
  /\ MaxTokens \in Nat \ {0}

VARIABLES
  admins,    \* admins[a]: whether a's row is there, and must_change_password
  starting,  \* starting[n]: process n has found no default administrator
  tokens,    \* the tokens signed so far
  local,     \* localStorage
  tab,       \* tab[t]: the page it is on and what it shows
  wire,      \* wire[t]: the request it waits for
  left       \* history: the tokens that were stored when somebody logged out

sessionVars == <<admins, starting, tokens, local, tab, wire, left>>

Serials == 0 .. MaxTokens    \* 0 is no token

Token == [of: Admins, must: BOOLEAN, live: BOOLEAN]
Local == [token: Serials, shows: Admins \cup {Nobody}, must: BOOLEAN]
Tab   == [page: {"closed", "login", "change", "panel"}, token: Serials,
          shows: Admins \cup {Nobody}, must: BOOLEAN]
Wire  == [kind: {"none", "login", "change", "call"},
          pc: {"sent", "update", "sign", "ok", "wrong", "401", "403"},
          token: Serials, who: Admins \cup {Nobody}, must: BOOLEAN, lost: BOOLEAN]

Nothing  == [token |-> 0, shows |-> Nobody, must |-> FALSE]
Closed   == [page |-> "closed", token |-> 0, shows |-> Nobody, must |-> FALSE]
NoWire   == [kind |-> "none", pc |-> "sent", token |-> 0, who |-> Nobody, must |-> FALSE,
             lost |-> FALSE]

SessionTypeOK ==
  /\ admins \in [Admins -> {"absent", "given", "own"}]
  /\ starting \in [Processes -> BOOLEAN]
  /\ tokens \in Seq(Token)
  /\ local \in Local
  /\ tab \in [Tabs -> Tab]
  /\ wire \in [Tabs -> Wire]
  /\ left \subseteq Serials

\* Other administrators are added by hand, with a password they are given or not.
SessionInit ==
  /\ admins \in [Admins -> {"absent", "given", "own"}] /\ admins[Default] = "absent"
  /\ \A a \in Admins \ {Default} : admins[a] # "absent"
  /\ starting = [n \in Processes |-> FALSE]
  /\ tokens = <<>>
  /\ local = Nothing
  /\ tab = [t \in Tabs |-> Closed]
  /\ wire = [t \in Tabs |-> NoWire]
  /\ left = {}

-----------------------------------------------------------------------------
(* AdminInitService: look, then insert; one transaction, READ COMMITTED.   *)

StartLook(n) ==
  /\ ~ starting[n]
  /\ starting' = [starting EXCEPT ![n] = (admins[Default] = "absent")]
  /\ UNCHANGED <<admins, tokens, local, tab, wire, left>>

\* The e-mail is unique: the second insert fails, and the failure is swallowed.
StartInsert(n) ==
  /\ starting[n]
  /\ starting' = [starting EXCEPT ![n] = FALSE]
  /\ admins' = [admins EXCEPT ![Default] = IF @ = "absent" THEN "given" ELSE @]
  /\ UNCHANGED <<tokens, local, tab, wire, left>>

-----------------------------------------------------------------------------
(* The pages.                                                              *)

\* Where the pages' effects send a visitor who holds this state.
Lands(page, state) ==
  CASE page = "login" -> "login"
    [] page # "login" /\ state.token = 0 -> "login"
    [] page = "panel" /\ state.token # 0 /\ state.must -> "change"
    [] page = "change" /\ state.token # 0 /\ ~ state.must -> "panel"
    [] OTHER -> page

Shows(t, page, state) ==
  tab' = [tab EXCEPT ![t] = [page |-> Lands(page, state), token |-> state.token,
                             shows |-> state.shows, must |-> state.must]]

\* A tab is opened or loaded again: it takes what is stored.  The server goes on
\* with a request of the page it was on, but the answer is lost.
Visit(t, page) ==
  /\ Shows(t, page, local)
  /\ wire' = [wire EXCEPT ![t].lost = (wire[t] # NoWire)]
  /\ UNCHANGED <<admins, starting, tokens, local, left>>

\* The interceptor attaches the stored token, whoever stored it.
Sends(t, kind, who) ==
  /\ wire[t] = NoWire
  /\ wire' = [wire EXCEPT ![t].kind = kind, ![t].token = local.token, ![t].who = who]
  /\ UNCHANGED <<admins, starting, tokens, local, tab, left>>

Login(t, a) == tab[t].page = "login" /\ Sends(t, "login", a)

ChangePassword(t) == tab[t].page = "change" /\ Sends(t, "change", Nobody)

Call(t) == tab[t].page = "panel" /\ Sends(t, "call", Nobody)

\* A bug for the run to catch: the tab forgets its session and the browser does not.
Forgotten == local

\* What logging out leaves in localStorage.
Emptied == Nothing

Logout(t) ==
  /\ tab[t].page = "panel"
  /\ local' = Emptied
  /\ Shows(t, "login", Nothing)
  /\ left' = left \cup {local.token}
  /\ UNCHANGED <<admins, starting, tokens, wire>>

-----------------------------------------------------------------------------
(* The server.                                                             *)

\* A bug for the run to catch: the guard does not look at mustChangePassword.
AnyToken(serial, kind) == IF serial = 0 \/ ~ tokens[serial].live THEN "401" ELSE "ok"

\* AdminJwtGuard: of a token that must change, only the change is admitted.  The code
\* knows it by '/auth/change-password' anywhere in the URL, which no other request of
\* the panel has; the roles a handler may ask for are left out.
Guard(serial, kind) ==
  IF serial = 0 \/ ~ tokens[serial].live THEN "401"
  ELSE IF tokens[serial].must /\ kind # "change" THEN "403" ELSE "ok"

Goes(t, pc) == wire' = [wire EXCEPT ![t].pc = pc]

\* The row and the password, which may be wrong.
LoginSelect(t) ==
  /\ wire[t].kind = "login" /\ wire[t].pc = "sent"
  /\ \/ Goes(t, "401")
     \/ /\ admins[wire[t].who] # "absent"
        /\ wire' = [wire EXCEPT ![t].pc = "sign", ![t].must = (admins[wire[t].who] = "given")]
  /\ UNCHANGED <<admins, starting, tokens, local, tab, left>>

\* last_login_at, and the token.
LoginSign(t) ==
  /\ wire[t].pc = "sign" /\ Len(tokens) < MaxTokens
  /\ tokens' = Append(tokens, [of |-> wire[t].who, must |-> wire[t].must, live |-> TRUE])
  /\ wire' = [wire EXCEPT ![t].pc = "ok", ![t].token = Len(tokens) + 1]
  /\ UNCHANGED <<admins, starting, local, tab, left>>

ChangeSelect(t) ==
  /\ wire[t].kind = "change" /\ wire[t].pc = "sent"
  /\ IF Guard(wire[t].token, "change") = "ok"
     THEN Goes(t, "update") \/ Goes(t, "wrong")
     ELSE Goes(t, Guard(wire[t].token, "change"))
  /\ UNCHANGED <<admins, starting, tokens, local, tab, left>>

\* The password is changed of whom the token names.
ChangeUpdate(t) ==
  /\ wire[t].pc = "update"
  /\ admins' = [admins EXCEPT ![tokens[wire[t].token].of] = "own"]
  /\ Goes(t, "ok")
  /\ UNCHANGED <<starting, tokens, local, tab, left>>

CallGuard(t) ==
  /\ wire[t].kind = "call" /\ wire[t].pc = "sent"
  /\ Goes(t, Guard(wire[t].token, "call"))
  /\ UNCHANGED <<admins, starting, tokens, local, tab, left>>

\* JWT_EXPIRY
Expire(k) ==
  /\ tokens[k].live
  /\ tokens' = [tokens EXCEPT ![k].live = FALSE]
  /\ UNCHANGED <<admins, starting, local, tab, wire, left>>

-----------------------------------------------------------------------------
(* The answers.                                                            *)

Answered(t) == ~ wire[t].lost /\ wire' = [wire EXCEPT ![t] = NoWire]

Lost(t) ==
  /\ wire[t].lost /\ wire[t].pc \in {"ok", "wrong", "401", "403"}
  /\ wire' = [wire EXCEPT ![t] = NoWire]
  /\ UNCHANGED <<admins, starting, tokens, local, tab, left>>

LoginAnswer(t) ==
  /\ wire[t].kind = "login" /\ wire[t].pc = "ok"
  /\ local' = [token |-> wire[t].token, shows |-> wire[t].who, must |-> wire[t].must]
  /\ Shows(t, IF wire[t].must THEN "change" ELSE "panel", local')
  /\ Answered(t)
  /\ UNCHANGED <<admins, starting, tokens, left>>

\* The page writes whom it shows, and keeps the token it has.
ChangeAnswer(t) ==
  /\ wire[t].kind = "change" /\ wire[t].pc = "ok"
  /\ local' = [local EXCEPT !.shows = tab[t].shows, !.must = FALSE]
  /\ Shows(t, "panel", [tab[t] EXCEPT !.must = FALSE])
  /\ Answered(t)
  /\ UNCHANGED <<admins, starting, tokens, left>>

\* A call that was served, refused with 403, or a wrong password: the page says so.
PlainAnswer(t) ==
  /\ \/ wire[t].pc \in {"wrong", "403"}
     \/ wire[t].kind = "call" /\ wire[t].pc = "ok"
  /\ Answered(t)
  /\ UNCHANGED <<admins, starting, tokens, local, tab, left>>

\* Any 401 empties localStorage, that of another tab's newer session as well, and
\* loads the login page.
Unauthorized(t) ==
  /\ wire[t].pc = "401"
  /\ local' = Nothing
  /\ Shows(t, "login", Nothing)
  /\ Answered(t)
  /\ UNCHANGED <<admins, starting, tokens, left>>

Gesture(t) ==
  \/ \E page \in {"login", "change", "panel"} : Visit(t, page)
  \/ \E a \in Admins : Login(t, a)
  \/ ChangePassword(t) \/ Call(t) \/ Logout(t)

Progress(t) ==
  \/ LoginSelect(t) \/ LoginSign(t) \/ ChangeSelect(t) \/ ChangeUpdate(t) \/ CallGuard(t)
  \/ LoginAnswer(t) \/ ChangeAnswer(t) \/ PlainAnswer(t) \/ Unauthorized(t)
  \/ Lost(t)

Background ==
  \/ \E n \in Processes : StartLook(n) \/ StartInsert(n)
  \/ \E k \in DOMAIN tokens : Expire(k)

SessionNext == Background \/ \E t \in Tabs : Gesture(t) \/ Progress(t)

SessionSpec == SessionInit /\ [][SessionNext]_sessionVars

-----------------------------------------------------------------------------
(* What a session promises.                                                *)

\* No call is served for an administrator who still has the password that was
\* handed out, in whatever order the changes, starts and logins of the tabs come;
\* and after a logout no tab sends the token that was stored until then.
ServedInSession ==
  [][\A t \in Tabs :
       /\ wire[t].kind = "call" /\ wire[t].pc = "sent" /\ wire'[t].pc = "ok"
          => admins[tokens[wire[t].token].of] = "own"
       /\ wire[t] = NoWire /\ wire'[t] # NoWire
          => wire'[t].token = 0 \/ wire'[t].token \notin left]_sessionVars
================================================================================
