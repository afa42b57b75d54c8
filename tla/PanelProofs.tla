------------------------------ MODULE PanelProofs ------------------------------
(***************************************************************************)
(* Proofs about the panel, for any tabs, administrators, processes,        *)
(* gateways, accounts and bounds: who is served, and what its page of the  *)
(* gateway settings stores.                                                *)
(***************************************************************************)
EXTENDS Panel, FiniteSetTheorems, TLAPS

-----------------------------------------------------------------------------
(* What the sessions keep.                                                 *)

\* A token that need not change names an administrator who has a password of
\* their own, and nobody goes back from there.
OwnToken ==
  /\ \A k \in DOMAIN tokens : ~ tokens[k].must => admins[tokens[k].of] = "own"
  /\ \A t \in Tabs : wire[t].pc = "sign" /\ ~ wire[t].must => admins[wire[t].who] = "own"

\* What a request in progress carries.
Carried ==
  /\ \A t \in Tabs :
       /\ wire[t].token <= Len(tokens)
       /\ wire[t].kind = "login" => wire[t].who \in Admins
       /\ wire[t].pc = "sign" => wire[t].kind = "login"
       /\ wire[t].pc = "update" => wire[t].kind = "change" /\ wire[t].token > 0
       /\ wire[t].kind = "none" => wire[t] = NoWire
  /\ local.token <= Len(tokens)
  /\ \A k \in left : k <= Len(tokens)
  /\ Len(tokens) <= MaxTokens

\* The token of a login that is answered yet to be.
Brings(t) == wire[t].kind = "login" /\ wire[t].pc = "ok"

\* It is nobody else's, and nobody has logged out of it.
Fresh ==
  /\ \A t \in Tabs : Brings(t) =>
       /\ wire[t].token > 0 /\ wire[t].token # local.token /\ wire[t].token \notin left
       /\ \A u \in Tabs \ {t} : Brings(u) => wire[u].token # wire[t].token
  /\ local.token = 0 \/ local.token \notin left

SessionInv == SessionTypeOK /\ OwnToken /\ Carried /\ Fresh

-----------------------------------------------------------------------------
(* What the settings keep.                                                 *)

\* What SettingsTypeOK says, but for overtaken.
Fields ==
  /\ row \in Setting /\ endpoints \subseteq Hook /\ client \in Keys
  /\ form \in [Pages -> Form] /\ ask \in [Pages -> Ask]
  /\ muddled \in BOOLEAN

\* A form that is filled has a gateway; so has a save, and an answer to show.
Filled(f) == f = NoForm \/ f.active \in Gateways

Proper(a) ==
  /\ a.pc = "active" => a.active \in Gateways /\ a.kind \in {"save", "left"}
  /\ a.pc = "reply" /\ a.kind \in {"load", "save"} => a.active \in Gateways
  /\ a.pc \in {"config", "list", "create", "secret"} => a.kind \notin {"load", "save"}

Chosen == \A t \in Pages : Filled(form[t]) /\ Proper(ask[t])

\* A registration past its first look has an account, and the endpoints made
\* from here can be counted.
HasClient ==
  /\ \A t \in Pages : ask[t].pc \in {"list", "create", "secret"} => client # Empty
  /\ IsFiniteSet(Made) /\ Cardinality(Made) <= MaxHooks

\* Undisturbed, one registration at a time works on the account that is saved, makes
\* an endpoint if there is none, and stores the secret of the one there is.
Orderly ==
  /\ \A t, u \in Pages : Registers(t) /\ Registers(u) => t = u
  /\ \A t \in Pages : ask[t].pc \in {"list", "create", "secret"} => client = row.key
  /\ \A t \in Pages : ask[t].pc = "create" => Made = {}
  /\ \A h \in Made : h.account = row.key
  /\ \A t \in Pages : ask[t].pc = "secret" /\ ask[t].secret # 0 =>
       \A h \in Made : h.secret = ask[t].secret
  /\ \A h \in Made :
       \/ h.secret = row.secret
       \/ \E t \in Pages : ask[t].pc = "secret" /\ ask[t].secret # 0

SettingsInv == Fields /\ Chosen /\ HasClient /\ (~ muddled => Orderly)

\* A page that nobody has overtaken shows the gateway that is saved, unless it saves,
\* and so does the answer it is about to be shown; a page that was left shows nothing.
Told ==
  /\ overtaken \subseteq Pages
  /\ \A t \in Pages : ask[t].kind = "left" => form[t] = NoForm
  /\ \A t \in Pages \ overtaken :
       /\ form[t] # NoForm /\ ask[t].kind # "save" => form[t].shown = row.active
       /\ ask[t].pc = "reply" /\ ask[t].kind \in {"load", "save"} => ask[t].active = row.active

IInv == SessionInv /\ SettingsInv /\ Told /\ gestures \in 0 .. MaxGestures

-----------------------------------------------------------------------------
(* The steps of the sessions.                                              *)

LEMMA LandsOnPage ==
  ASSUME NEW page \in {"login", "change", "panel"}, NEW state
  PROVE  Lands(page, state) \in {"login", "change", "panel"}
  BY DEF Lands

LEMMA ShowsTab ==
  ASSUME SessionTypeOK, NEW t \in Tabs, NEW page \in {"login", "change", "panel"}, NEW state,
         state.token \in Serials, state.shows \in Admins \cup {Nobody}, state.must \in BOOLEAN,
         Shows(t, page, state)
  PROVE  tab' \in [Tabs -> Tab]
  <1> DEFINE v == [page |-> Lands(page, state), token |-> state.token,
                   shows |-> state.shows, must |-> state.must]
  <1>1. v \in Tab
    BY LandsOnPage DEF Tab
  <1>2. tab' = [tab EXCEPT ![t] = v]
    BY DEF Shows
  <1> QED
    BY <1>1, <1>2 DEF SessionTypeOK

LEMMA Constants ==
  /\ 0 \in Serials /\ Serials \subseteq Nat /\ MaxTokens \in Nat \ {0}
  /\ Nothing \in Local /\ Nothing.token = 0
  /\ NoWire \in Wire /\ NoWire.kind = "none" /\ NoWire.pc = "sent" /\ NoWire.token = 0
  /\ Default \in Admins
  <1>1. MaxTokens \in Nat \ {0} /\ 0 \in 0 .. MaxTokens /\ Default \in Admins
    BY SessionAssumption
  <1> QED
    BY <1>1 DEF Serials, Nothing, Local, NoWire, Wire

\* Tokens are numbered from 1.
LEMMA Numbered ==
  ASSUME SessionTypeOK
  PROVE  /\ Len(tokens) \in Nat /\ DOMAIN tokens = 1 .. Len(tokens)
         /\ \A k \in DOMAIN tokens : tokens[k] \in Token
  BY DEF SessionTypeOK

\* A step of the request of one tab that signs no token and ends no session.
LEMMA WireMoves ==
  ASSUME SessionInv, NEW t \in Tabs, NEW w \in Wire, wire' = [wire EXCEPT ![t] = w],
         UNCHANGED <<admins, starting, tokens, left>>,
         local' \in Local, local'.token \in {0, local.token}, tab' \in [Tabs -> Tab],
         w.token <= Len(tokens),
         w.kind = "login" => w.who \in Admins,
         w.pc = "sign" => w.kind = "login",
         w.pc = "update" => w.kind = "change" /\ w.token > 0,
         w.kind = "none" => w = NoWire,
         w.kind = "login" /\ w.pc = "ok" => Brings(t) /\ w.token = wire[t].token,
         w.pc = "sign" /\ ~ w.must => admins[w.who] = "own"
  PROVE  SessionInv'
  <1>1. \A u \in Tabs : wire'[u] = IF u = t THEN w ELSE wire[u]
    BY DEF SessionInv, SessionTypeOK
  <1>2. SessionTypeOK'
    BY DEF SessionInv, SessionTypeOK
  <1>3. OwnToken'
    BY <1>1 DEF SessionInv, OwnToken
  <1>4. Carried'
    <2>1. local'.token <= Len(tokens)
      BY Numbered DEF SessionInv, Carried
    <2> QED
      BY <1>1, <2>1 DEF SessionInv, Carried
  <1>5. Fresh'
    <2>1. \A u \in Tabs : Brings(u)' => Brings(u) /\ wire'[u].token = wire[u].token
      BY <1>1 DEF Brings
    <2>2. \A u \in Tabs : Brings(u) => wire[u].token > 0
      BY DEF SessionInv, Fresh
    <2>3. \A u \in Tabs : Brings(u)' => wire'[u].token # local'.token
      <3> SUFFICES ASSUME NEW u \in Tabs, Brings(u)'
                   PROVE  wire'[u].token # local'.token
        OBVIOUS
      <3>1. wire[u].token # local.token /\ wire[u].token > 0
        BY <2>1 DEF SessionInv, Fresh
      <3> QED
        BY <2>1, <3>1
    <2>4. \A u \in Tabs : Brings(u)' =>
            /\ wire'[u].token > 0 /\ wire'[u].token \notin left'
            /\ \A v \in Tabs \ {u} : Brings(v)' => wire'[v].token # wire'[u].token
      BY <2>1 DEF SessionInv, Fresh
    <2>5. local'.token = 0 \/ local'.token \notin left'
      BY DEF SessionInv, Fresh
    <2> QED
      BY <2>3, <2>4, <2>5 DEF Fresh
  <1> QED
    BY <1>2, <1>3, <1>4, <1>5 DEF SessionInv

\* The same where the request is over.
LEMMA WireEnds ==
  ASSUME SessionInv, NEW t \in Tabs, wire' = [wire EXCEPT ![t] = NoWire],
         UNCHANGED <<admins, starting, tokens, left>>,
         local' \in Local, local'.token \in {0, local.token}, tab' \in [Tabs -> Tab]
  PROVE  SessionInv'
  <1>1. 0 <= Len(tokens)
    BY Numbered DEF SessionInv
  <1> QED
    BY <1>1, Constants, WireMoves

LEMMA Unstored ==
  ASSUME SessionInv, UNCHANGED <<local, tab>>
  PROVE  local' \in Local /\ local'.token \in {0, local.token} /\ tab' \in [Tabs -> Tab]
  BY DEF SessionInv, SessionTypeOK

LEMMA VisitKeeps ==
  ASSUME SessionInv, NEW t \in Tabs, NEW page \in {"login", "change", "panel"}, Visit(t, page)
  PROVE  SessionInv'
  <1> DEFINE w == [wire[t] EXCEPT !.lost = (wire[t] # NoWire)]
  <1>1. wire[t] \in Wire
    BY DEF SessionInv, SessionTypeOK
  <1>2. local \in Local
    BY DEF SessionInv, SessionTypeOK
  <1>3. tab' \in [Tabs -> Tab]
    BY <1>2, ShowsTab DEF Visit, SessionInv, Local
  <1>4. wire' = [wire EXCEPT ![t] = w]
    BY DEF Visit
  <1>5. /\ w \in Wire /\ w.kind = wire[t].kind /\ w.pc = wire[t].pc /\ w.token = wire[t].token
        /\ w.who = wire[t].who /\ w.must = wire[t].must
    <2>1. (wire[t] # NoWire) \in BOOLEAN
      OBVIOUS
    <2> QED
      BY <1>1, <2>1 DEF Wire
  <1>6. w.kind = "none" => w = NoWire
    <2> SUFFICES ASSUME w.kind = "none"
                 PROVE  w = NoWire
      OBVIOUS
    <2>1. wire[t] = NoWire
      BY <1>5 DEF SessionInv, Carried
    <2>2. (wire[t] # NoWire) = FALSE
      BY <2>1
    <2>3. w = [NoWire EXCEPT !.lost = FALSE]
      BY <2>1, <2>2
    <2>4. NoWire \in Wire /\ NoWire.lost = FALSE
      BY Constants DEF NoWire
    <2> QED
      BY <2>3, <2>4 DEF Wire
  <1> HIDE DEF w
  <1>7. /\ w.token <= Len(tokens)
        /\ w.kind = "login" => w.who \in Admins
        /\ w.pc = "sign" => w.kind = "login"
        /\ w.pc = "update" => w.kind = "change" /\ w.token > 0
        /\ w.kind = "login" /\ w.pc = "ok" => Brings(t) /\ w.token = wire[t].token
        /\ w.pc = "sign" /\ ~ w.must => admins[w.who] = "own"
    BY <1>5 DEF SessionInv, Carried, OwnToken, Brings
  <1>8. UNCHANGED <<admins, starting, tokens, local, left>>
    BY DEF Visit
  <1> QED
    BY <1>2, <1>3, <1>4, <1>5, <1>6, <1>7, <1>8, WireMoves

LEMMA SendsKeeps ==
  ASSUME SessionInv, NEW t \in Tabs, NEW kind \in {"login", "change", "call"},
         NEW who \in Admins \cup {Nobody}, kind = "login" => who \in Admins, Sends(t, kind, who)
  PROVE  SessionInv'
  <1> DEFINE w == [wire[t] EXCEPT !.kind = kind, !.token = local.token, !.who = who]
  <1>1. local.token \in Serials /\ local.token <= Len(tokens)
    BY DEF SessionInv, SessionTypeOK, Local, Carried
  <1>2. /\ w \in Wire /\ w.kind = kind /\ w.pc = "sent" /\ w.token = local.token /\ w.who = who
    <2>1. wire[t] \in Wire /\ wire[t].pc = "sent"
      BY Constants DEF Sends
    <2>2. w \in Wire
      BY <1>1, <2>1 DEF Wire
    <2> QED
      BY <2>1, <2>2 DEF Wire
  <1>3. wire' = [wire EXCEPT ![t] = w]
    BY DEF Sends
  <1> HIDE DEF w
  <1>4. UNCHANGED <<admins, starting, tokens, local, tab, left>>
    BY DEF Sends
  <1> QED
    BY <1>1, <1>2, <1>3, <1>4, Unstored, WireMoves

\* The stored token is the one that nobody may send again.
LEMMA LogoutKeeps ==
  ASSUME SessionInv, NEW t \in Tabs, Logout(t)
  PROVE  SessionInv'
  <1>1. local' = Nothing /\ local'.token = 0 /\ local' \in Local
    BY Constants DEF Logout, Emptied
  <1>2. left' = left \cup {local.token} /\ UNCHANGED <<admins, starting, tokens, wire>>
    BY DEF Logout
  <1>3. tab' \in [Tabs -> Tab]
    BY Constants, ShowsTab DEF Logout, SessionInv, Local
  <1>4. local.token \in Serials /\ local.token <= Len(tokens)
    BY DEF SessionInv, SessionTypeOK, Local, Carried
  <1>5. SessionTypeOK'
    BY <1>1, <1>2, <1>3, <1>4 DEF SessionInv, SessionTypeOK
  <1>6. OwnToken'
    BY <1>2 DEF SessionInv, OwnToken
  <1>7. 0 <= Len(tokens)
    BY Numbered DEF SessionInv
  <1>8. Carried'
    BY <1>1, <1>2, <1>4, <1>7 DEF SessionInv, Carried
  <1>9. Fresh'
    <2>1. \A u \in Tabs : Brings(u)' <=> Brings(u)
      BY <1>2 DEF Brings
    <2> QED
      BY <1>1, <1>2, <2>1 DEF SessionInv, Fresh
  <1> QED
    BY <1>5, <1>6, <1>8, <1>9 DEF SessionInv

\* A step of the request of one tab that only has an outcome.
LEMMA GoesKeeps ==
  ASSUME SessionInv, NEW t \in Tabs, NEW pc \in {"ok", "wrong", "401", "403"}, Goes(t, pc),
         wire[t].kind # "none", pc = "ok" => wire[t].kind # "login",
         UNCHANGED <<admins, starting, tokens, local, tab, left>>
  PROVE  SessionInv'
  <1> DEFINE w == [wire[t] EXCEPT !.pc = pc]
  <1>1. wire[t] \in Wire
    BY DEF SessionInv, SessionTypeOK
  <1>2. /\ w \in Wire /\ w.kind = wire[t].kind /\ w.pc = pc /\ w.token = wire[t].token
        /\ w.who = wire[t].who
    BY <1>1 DEF Wire
  <1>3. wire' = [wire EXCEPT ![t] = w]
    BY DEF Goes
  <1> HIDE DEF w
  <1>4. w.token <= Len(tokens) /\ (w.kind = "login" => w.who \in Admins)
    BY <1>2 DEF SessionInv, Carried
  <1> QED
    BY <1>2, <1>3, <1>4, Unstored, WireMoves

LEMMA LoginSelectKeeps ==
  ASSUME SessionInv, NEW t \in Tabs, LoginSelect(t)
  PROVE  SessionInv'
  <1>1. UNCHANGED <<admins, starting, tokens, local, tab, left>> /\ wire[t].kind = "login"
    BY DEF LoginSelect
  <1>2. CASE Goes(t, "401")
    BY <1>1, <1>2, GoesKeeps
  <1>3. ASSUME admins[wire[t].who] # "absent",
               wire' = [wire EXCEPT ![t].pc = "sign",
                                    ![t].must = (admins[wire[t].who] = "given")]
        PROVE  SessionInv'
    <2> DEFINE b == (admins[wire[t].who] = "given")
               w == [wire[t] EXCEPT !.pc = "sign", !.must = b]
    <2>1. wire[t] \in Wire /\ b \in BOOLEAN
      BY DEF SessionInv, SessionTypeOK
    <2>2. wire' = [wire EXCEPT ![t] = w]
      BY <1>3
    <2>3. wire[t].who \in Admins /\ wire[t].token <= Len(tokens)
      BY <1>1 DEF SessionInv, Carried
    <2>4. ~ b => admins[wire[t].who] = "own"
      BY <1>3, <2>3 DEF SessionInv, SessionTypeOK
    <2> HIDE DEF b
    <2>5. /\ w \in Wire /\ w.kind = wire[t].kind /\ w.pc = "sign" /\ w.token = wire[t].token
          /\ w.who = wire[t].who /\ w.must = b
      BY <2>1 DEF Wire
    <2> HIDE DEF w
    <2> QED
      BY <1>1, <2>2, <2>3, <2>4, <2>5, Unstored, WireMoves
  <1> QED
    BY <1>2, <1>3 DEF LoginSelect

\* The token that is signed is a new one.
LEMMA LoginSignKeeps ==
  ASSUME SessionInv, NEW t \in Tabs, LoginSign(t)
  PROVE  SessionInv'
  <1> DEFINE n == Len(tokens) + 1
             k == [of |-> wire[t].who, must |-> wire[t].must, live |-> TRUE]
             w == [wire[t] EXCEPT !.pc = "ok", !.token = n]
  <1>1. wire[t] \in Wire /\ wire[t].pc = "sign" /\ wire[t].kind = "login" /\ wire[t].who \in Admins
    BY DEF LoginSign, SessionInv, SessionTypeOK, Carried
  <1>2. /\ tokens' = Append(tokens, k) /\ wire' = [wire EXCEPT ![t] = w]
        /\ UNCHANGED <<admins, starting, local, tab, left>> /\ Len(tokens) < MaxTokens
    BY DEF LoginSign
  <1>3. k \in Token /\ k.of = wire[t].who /\ k.must = wire[t].must
    BY <1>1 DEF Token, Wire
  <1>4. n \in Serials /\ n > Len(tokens) /\ n > 0 /\ n \in Nat /\ n <= MaxTokens
    BY <1>2, Numbered, Constants DEF SessionInv, Serials
  <1> HIDE DEF k
  <1>5. /\ tokens' \in Seq(Token) /\ Len(tokens') = n
        /\ \A m \in 1 .. n : tokens'[m] = IF m = n THEN k ELSE tokens[m]
    BY <1>2, <1>3 DEF SessionInv, SessionTypeOK
  <1>6. /\ w \in Wire /\ w.kind = "login" /\ w.pc = "ok" /\ w.token = n
        /\ w.who = wire[t].who
    <2>1. n \in Serials
      BY <1>4
    <2> HIDE DEF n
    <2> QED
      BY <1>1, <2>1 DEF Wire
  <1> HIDE DEF w
  <1>7. \A u \in Tabs : wire'[u] = IF u = t THEN w ELSE wire[u]
    BY <1>2 DEF SessionInv, SessionTypeOK
  <1>8. SessionTypeOK'
    BY <1>2, <1>5, <1>6 DEF SessionInv, SessionTypeOK
  <1>9. OwnToken'
    <2>1. \A m \in DOMAIN tokens' : ~ tokens'[m].must => admins[tokens'[m].of] = "own"
      <3> SUFFICES ASSUME NEW m \in DOMAIN tokens', ~ tokens'[m].must
                   PROVE  admins[tokens'[m].of] = "own"
        OBVIOUS
      <3>1. m \in 1 .. n
        BY <1>5, <1>4
      <3>2. CASE m = n
        BY <1>1, <1>3, <1>5, <3>1, <3>2 DEF SessionInv, OwnToken
      <3>3. CASE m # n
        <4>1. m \in DOMAIN tokens /\ tokens'[m] = tokens[m]
          BY <1>5, <3>1, <3>3, Numbered DEF SessionInv
        <4> QED
          BY <4>1 DEF SessionInv, OwnToken
      <3> QED
        BY <3>2, <3>3
    <2> QED
      BY <1>2, <1>6, <1>7, <2>1 DEF SessionInv, OwnToken
  <1>10. \A u \in Tabs : wire[u].token \in Nat /\ wire[u].token <= Len(tokens)
    BY Constants DEF SessionInv, SessionTypeOK, Wire, Carried
  <1>11. /\ local.token \in Nat /\ local.token <= Len(tokens)
         /\ \A m \in left : m \in Nat /\ m <= Len(tokens)
    BY Constants DEF SessionInv, SessionTypeOK, Local, Carried
  <1>12. Len(tokens) \in Nat
    BY Numbered DEF SessionInv
  <1> HIDE DEF n
  <1>13. Carried'
    <2>1. \A u \in Tabs : wire'[u].token <= Len(tokens')
      BY <1>4, <1>5, <1>6, <1>7, <1>10, <1>12
    <2>2. local'.token <= Len(tokens') /\ \A m \in left' : m <= Len(tokens')
      BY <1>2, <1>4, <1>5, <1>11, <1>12
    <2>3. Len(tokens') <= MaxTokens
      BY <1>4, <1>5
    <2>4. \A u \in Tabs :
            /\ wire'[u].kind = "login" => wire'[u].who \in Admins
            /\ wire'[u].pc = "sign" => wire'[u].kind = "login"
            /\ wire'[u].pc = "update" => wire'[u].kind = "change" /\ wire'[u].token > 0
            /\ wire'[u].kind = "none" => wire'[u] = NoWire
      BY <1>1, <1>6, <1>7 DEF SessionInv, Carried
    <2> QED
      BY <2>1, <2>2, <2>3, <2>4 DEF Carried
  <1>14. Fresh'
    <2>1. n # local.token /\ n \notin left /\ \A u \in Tabs : n # wire[u].token
      BY <1>4, <1>10, <1>11, <1>12
    <2>2. \A u \in Tabs \ {t} : Brings(u)' => Brings(u) /\ wire'[u] = wire[u]
      BY <1>7 DEF Brings
    <2>3. ASSUME NEW u \in Tabs, Brings(u)'
          PROVE  /\ wire'[u].token > 0 /\ wire'[u].token # local'.token
                 /\ wire'[u].token \notin left'
                 /\ \A v \in Tabs \ {u} : Brings(v)' => wire'[v].token # wire'[u].token
      <3>1. CASE u = t
        BY <1>2, <1>4, <1>6, <1>7, <2>1, <2>2, <3>1
      <3>2. CASE u # t
        BY <1>2, <1>6, <1>7, <2>1, <2>2, <2>3, <3>2 DEF SessionInv, Fresh
      <3> QED
        BY <3>1, <3>2
    <2> QED
      BY <1>2, <2>3 DEF SessionInv, Fresh
  <1> QED
    BY <1>8, <1>9, <1>13, <1>14 DEF SessionInv

LEMMA ChangeSelectKeeps ==
  ASSUME SessionInv, NEW t \in Tabs, ChangeSelect(t)
  PROVE  SessionInv'
  <1>1. UNCHANGED <<admins, starting, tokens, local, tab, left>> /\ wire[t].kind = "change"
    BY DEF ChangeSelect
  <1>2. ASSUME NEW pc \in {"wrong", "401", "403"}, Goes(t, pc)
        PROVE  SessionInv'
    BY <1>1, <1>2, GoesKeeps
  <1>3. ASSUME Goes(t, "update"), Guard(wire[t].token, "change") = "ok"
        PROVE  SessionInv'
    <2> DEFINE w == [wire[t] EXCEPT !.pc = "update"]
    <2>1. wire[t] \in Wire
      BY DEF SessionInv, SessionTypeOK
    <2>2. wire[t].token # 0
      BY <1>3 DEF Guard
    <2>3. wire[t].token > 0 /\ wire[t].token <= Len(tokens)
      <3>1. wire[t].token \in Nat
        BY <2>1, Constants DEF Wire
      <3>2. wire[t].token <= Len(tokens)
        BY DEF SessionInv, Carried
      <3> QED
        BY <2>2, <3>1, <3>2
    <2>4. w \in Wire /\ w.kind = "change" /\ w.pc = "update" /\ w.token = wire[t].token
      BY <1>1, <2>1 DEF Wire
    <2>5. wire' = [wire EXCEPT ![t] = w]
      BY <1>3 DEF Goes
    <2> HIDE DEF w
    <2> QED
      BY <1>1, <2>3, <2>4, <2>5, Unstored, WireMoves
  <1>4. Guard(wire[t].token, "change") \in {"ok", "401", "403"}
    BY DEF Guard
  <1> QED
    BY <1>2, <1>3, <1>4 DEF ChangeSelect

\* A password that is changed is the administrator's own for good.
LEMMA ChangeUpdateKeeps ==
  ASSUME SessionInv, NEW t \in Tabs, ChangeUpdate(t)
  PROVE  SessionInv'
  <1> DEFINE w == [wire[t] EXCEPT !.pc = "ok"]
             a == tokens[wire[t].token].of
  <1>1. wire[t] \in Wire /\ wire[t].kind = "change" /\ wire[t].token > 0
    BY DEF ChangeUpdate, SessionInv, SessionTypeOK, Carried
  <1>2. wire[t].token \in DOMAIN tokens
    <2>1. wire[t].token \in Nat
      BY <1>1, Constants DEF Wire
    <2>2. wire[t].token <= Len(tokens)
      BY DEF SessionInv, Carried
    <2> QED
      BY <1>1, <2>1, <2>2, Numbered DEF SessionInv
  <1>3. a \in Admins
    BY <1>2, Numbered DEF SessionInv, Token
  <1>4. /\ admins' = [admins EXCEPT ![a] = "own"] /\ wire' = [wire EXCEPT ![t] = w]
        /\ UNCHANGED <<starting, tokens, local, tab, left>>
    BY DEF ChangeUpdate, Goes
  <1>5. /\ w \in Wire /\ w.kind = "change" /\ w.pc = "ok" /\ w.token = wire[t].token
    BY <1>1 DEF Wire
  <1> HIDE DEF w, a
  <1>6. \A u \in Tabs : wire'[u] = IF u = t THEN w ELSE wire[u]
    BY <1>4 DEF SessionInv, SessionTypeOK
  <1>7. \A b \in Admins : admins'[b] = IF b = a THEN "own" ELSE admins[b]
    BY <1>4 DEF SessionInv, SessionTypeOK
  <1>8. SessionTypeOK'
    BY <1>4, <1>5 DEF SessionInv, SessionTypeOK
  <1>9. OwnToken'
    <2>1. \A k \in DOMAIN tokens : tokens[k].of \in Admins
      BY Numbered DEF SessionInv, Token
    <2>2. \A u \in Tabs : wire[u].pc = "sign" => wire[u].who \in Admins
      BY DEF SessionInv, Carried
    <2> QED
      BY <1>4, <1>5, <1>6, <1>7, <2>1, <2>2 DEF SessionInv, OwnToken
  <1>10. Carried'
    BY <1>4, <1>5, <1>6 DEF SessionInv, Carried
  <1>11. Fresh'
    <2>1. \A u \in Tabs : Brings(u)' => Brings(u) /\ wire'[u] = wire[u]
      BY <1>5, <1>6 DEF Brings
    <2> QED
      BY <1>4, <2>1 DEF SessionInv, Fresh
  <1> QED
    BY <1>8, <1>9, <1>10, <1>11 DEF SessionInv

LEMMA CallGuardKeeps ==
  ASSUME SessionInv, NEW t \in Tabs, CallGuard(t)
  PROVE  SessionInv'
  <1>1. Guard(wire[t].token, "call") \in {"ok", "401", "403"}
    BY DEF Guard
  <1> QED
    BY <1>1, GoesKeeps DEF CallGuard

-----------------------------------------------------------------------------
(* The answers, and what happens in the background.                        *)

LEMMA LostKeeps ==
  ASSUME SessionInv, NEW t \in Tabs, Lost(t)
  PROVE  SessionInv'
  BY Unstored, WireEnds DEF Lost

\* The new token is stored: nobody has logged out of it, and no other tab brings it.
LEMMA LoginAnswerKeeps ==
  ASSUME SessionInv, NEW t \in Tabs, LoginAnswer(t)
  PROVE  SessionInv'
  <1> DEFINE page == IF wire[t].must THEN "change" ELSE "panel"
  <1>1. wire[t] \in Wire /\ Brings(t) /\ wire[t].who \in Admins
    BY DEF LoginAnswer, Brings, SessionInv, SessionTypeOK, Carried
  <1>2. /\ local' = [token |-> wire[t].token, shows |-> wire[t].who, must |-> wire[t].must]
        /\ Shows(t, page, local')
        /\ wire' = [wire EXCEPT ![t] = NoWire]
        /\ UNCHANGED <<admins, starting, tokens, left>>
    BY DEF LoginAnswer, Answered
  <1>3. local' \in Local /\ local'.token = wire[t].token
    BY <1>1, <1>2 DEF Local, Wire
  <1>4. tab' \in [Tabs -> Tab]
    <2>1. page \in {"login", "change", "panel"}
      OBVIOUS
    <2> HIDE DEF page
    <2> QED
      BY <1>2, <1>3, <2>1, ShowsTab DEF SessionInv, Local
  <1>5. \A u \in Tabs : wire'[u] = IF u = t THEN NoWire ELSE wire[u]
    BY <1>2 DEF SessionInv, SessionTypeOK
  <1>6. SessionTypeOK'
    BY <1>2, <1>3, <1>4, Constants DEF SessionInv, SessionTypeOK
  <1>7. OwnToken'
    BY <1>2, <1>5, Constants DEF SessionInv, OwnToken
  <1>8. Carried'
    <2>1. 0 <= Len(tokens)
      BY Numbered DEF SessionInv
    <2> QED
      BY <1>2, <1>3, <1>5, <2>1, Constants DEF SessionInv, Carried
  <1>9. Fresh'
    <2>1. \A u \in Tabs : Brings(u)' => u # t /\ Brings(u) /\ wire'[u] = wire[u]
      BY <1>5, Constants DEF Brings
    <2>2. /\ wire[t].token \notin left
          /\ \A u \in Tabs \ {t} : Brings(u) => wire[u].token # wire[t].token
      BY <1>1 DEF SessionInv, Fresh
    <2> QED
      BY <1>2, <1>3, <2>1, <2>2 DEF SessionInv, Fresh
  <1> QED
    BY <1>6, <1>7, <1>8, <1>9 DEF SessionInv

LEMMA ChangeAnswerKeeps ==
  ASSUME SessionInv, NEW t \in Tabs, ChangeAnswer(t)
  PROVE  SessionInv'
  <1> DEFINE state == [tab[t] EXCEPT !.must = FALSE]
  <1>1. tab[t] \in Tab /\ local \in Local
    BY DEF SessionInv, SessionTypeOK
  <1>2. /\ local' = [local EXCEPT !.shows = tab[t].shows, !.must = FALSE]
        /\ Shows(t, "panel", state)
        /\ wire' = [wire EXCEPT ![t] = NoWire]
        /\ UNCHANGED <<admins, starting, tokens, left>>
    BY DEF ChangeAnswer, Answered
  <1>3. local' \in Local /\ local'.token = local.token
    BY <1>1, <1>2 DEF Local, Tab
  <1>4. /\ state.token \in Serials /\ state.shows \in Admins \cup {Nobody}
        /\ state.must \in BOOLEAN
    BY <1>1 DEF Tab
  <1> HIDE DEF state
  <1>5. tab' \in [Tabs -> Tab]
    BY <1>2, <1>4, ShowsTab DEF SessionInv
  <1> QED
    BY <1>2, <1>3, <1>5, WireEnds

LEMMA PlainAnswerKeeps ==
  ASSUME SessionInv, NEW t \in Tabs, PlainAnswer(t)
  PROVE  SessionInv'
  BY Unstored, WireEnds DEF PlainAnswer, Answered

LEMMA UnauthorizedKeeps ==
  ASSUME SessionInv, NEW t \in Tabs, Unauthorized(t)
  PROVE  SessionInv'
  <1>1. tab' \in [Tabs -> Tab]
    BY Constants, ShowsTab DEF Unauthorized, SessionInv, Local
  <1> QED
    BY <1>1, Constants, WireEnds DEF Unauthorized, Answered

LEMMA StartKeeps ==
  ASSUME SessionInv, NEW n \in Processes, StartLook(n) \/ StartInsert(n)
  PROVE  SessionInv'
  <1>1. UNCHANGED <<tokens, local, tab, wire, left>>
    BY DEF StartLook, StartInsert
  <1>2. /\ admins' \in [Admins -> {"absent", "given", "own"}]
        /\ \A a \in Admins : admins[a] = "own" => admins'[a] = "own"
    BY Constants DEF StartLook, StartInsert, SessionInv, SessionTypeOK
  <1>3. starting' \in [Processes -> BOOLEAN]
    <2>1. CASE StartLook(n)
      <3>1. (admins[Default] = "absent") \in BOOLEAN
        OBVIOUS
      <3> QED
        BY <2>1, <3>1 DEF StartLook, SessionInv, SessionTypeOK
    <2>2. CASE StartInsert(n)
      BY <2>2 DEF StartInsert, SessionInv, SessionTypeOK
    <2> QED
      BY <2>1, <2>2
  <1>4. SessionTypeOK'
    BY <1>1, <1>2, <1>3 DEF SessionInv, SessionTypeOK
  <1>5. OwnToken'
    <2>1. \A k \in DOMAIN tokens : tokens[k].of \in Admins
      BY Numbered DEF SessionInv, Token
    <2>2. \A u \in Tabs : wire[u].pc = "sign" => wire[u].who \in Admins
      BY DEF SessionInv, Carried
    <2> QED
      BY <1>1, <1>2, <2>1, <2>2 DEF SessionInv, OwnToken
  <1> QED
    BY <1>1, <1>4, <1>5 DEF SessionInv, Carried, Fresh, Brings

LEMMA ExpireKeeps ==
  ASSUME SessionInv, NEW k \in DOMAIN tokens, Expire(k)
  PROVE  SessionInv'
  <1> DEFINE q == [tokens[k] EXCEPT !.live = FALSE]
  <1>1. UNCHANGED <<admins, starting, local, tab, wire, left>>
    BY DEF Expire
  <1>2. tokens[k] \in Token
    BY Numbered DEF SessionInv
  <1>3. q \in Token /\ q.of = tokens[k].of /\ q.must = tokens[k].must
    BY <1>2 DEF Token
  <1>4. tokens' = [tokens EXCEPT ![k] = q]
    BY DEF Expire
  <1> HIDE DEF q
  <1>5. /\ tokens' \in Seq(Token) /\ Len(tokens') = Len(tokens) /\ DOMAIN tokens' = DOMAIN tokens
        /\ \A m \in DOMAIN tokens : tokens'[m] = IF m = k THEN q ELSE tokens[m]
    BY <1>3, <1>4 DEF SessionInv, SessionTypeOK
  <1>6. SessionTypeOK' /\ OwnToken'
    BY <1>1, <1>3, <1>5 DEF SessionInv, SessionTypeOK, OwnToken
  <1> QED
    BY <1>1, <1>5, <1>6 DEF SessionInv, Carried, Fresh, Brings

LEMMA SessionStep == SessionInv /\ [SessionNext]_sessionVars => SessionInv'
  <1> SUFFICES ASSUME SessionInv, [SessionNext]_sessionVars
               PROVE  SessionInv'
    OBVIOUS
  <1>1. CASE Background
    BY <1>1, StartKeeps, ExpireKeeps DEF Background
  <1>2. ASSUME NEW t \in Tabs, Gesture(t)
        PROVE  SessionInv'
    <2>1. ASSUME NEW a \in Admins, Login(t, a)
          PROVE  SessionInv'
      BY <2>1, SendsKeeps DEF Login
    <2>2. CASE ChangePassword(t)
      BY <2>2, SendsKeeps DEF ChangePassword
    <2>3. CASE Call(t)
      BY <2>3, SendsKeeps DEF Call
    <2> QED
      BY <1>2, <2>1, <2>2, <2>3, VisitKeeps, LogoutKeeps DEF Gesture
  <1>3. ASSUME NEW t \in Tabs, Progress(t)
        PROVE  SessionInv'
    BY <1>3, LoginSelectKeeps, LoginSignKeeps, ChangeSelectKeeps, ChangeUpdateKeeps,
       CallGuardKeeps, LoginAnswerKeeps, ChangeAnswerKeeps, PlainAnswerKeeps,
       UnauthorizedKeeps, LostKeeps DEF Progress
  <1>4. CASE UNCHANGED sessionVars
    BY <1>4 DEF sessionVars, SessionInv, SessionTypeOK, OwnToken, Carried, Fresh, Brings
  <1> QED
    BY <1>1, <1>2, <1>3, <1>4 DEF SessionNext

LEMMA SessionStarts == SessionInit => SessionInv
  <1> SUFFICES ASSUME SessionInit
               PROVE  SessionInv
    OBVIOUS
  <1>1. tokens = <<>> /\ Len(tokens) = 0 /\ DOMAIN tokens = {} /\ tokens \in Seq(Token)
    BY DEF SessionInit
  <1>2. /\ local = Nothing /\ left = {} /\ wire = [t \in Tabs |-> NoWire]
        /\ tab = [t \in Tabs |-> Closed] /\ starting = [n \in Processes |-> FALSE]
        /\ admins \in [Admins -> {"absent", "given", "own"}]
    BY DEF SessionInit
  <1>3. Closed \in Tab
    BY Constants DEF Closed, Tab
  <1>4. SessionTypeOK
    BY <1>1, <1>2, <1>3, Constants DEF SessionTypeOK
  <1>5. OwnToken
    BY <1>1, <1>2, Constants DEF OwnToken
  <1>6. Carried
    <2>1. 0 <= MaxTokens
      BY Constants
    <2> QED
      BY <1>1, <1>2, <2>1, Constants DEF Carried
  <1>7. Fresh
    BY <1>2, Constants DEF Fresh, Brings
  <1> QED
    BY <1>4, <1>5, <1>6, <1>7 DEF SessionInv

-----------------------------------------------------------------------------
(* Who is served.                                                          *)

\* The request of a tab is one of its own steps' to change.
LEMMA OthersStay ==
  ASSUME SessionInv, NEW t \in Tabs, NEW u \in Tabs, Gesture(u) \/ Progress(u), u # t
  PROVE  wire'[t] = wire[t]
  <1>1. CASE Gesture(u)
    BY <1>1 DEF Gesture, Visit, Login, ChangePassword, Call, Sends, Logout, SessionInv,
       SessionTypeOK
  <1>2. CASE Progress(u)
    BY <1>2 DEF Progress, LoginSelect, LoginSign, ChangeSelect, ChangeUpdate, CallGuard, Goes,
       LoginAnswer, ChangeAnswer, PlainAnswer, Unauthorized, Lost, Answered, SessionInv,
       SessionTypeOK
  <1> QED
    BY <1>1, <1>2

LEMMA OwnStep ==
  ASSUME SessionInv, [SessionNext]_sessionVars, NEW t \in Tabs, wire'[t] # wire[t]
  PROVE  Gesture(t) \/ Progress(t)
  <1>1. ~ UNCHANGED sessionVars
    BY DEF sessionVars
  <1>2. ~ Background
    BY DEF Background, StartLook, StartInsert, Expire
  <1>3. PICK u \in Tabs : Gesture(u) \/ Progress(u)
    BY <1>1, <1>2 DEF SessionNext
  <1> QED
    BY <1>3, OthersStay

\* A call that is served was let pass by the guard, on a token that need not change.
LEMMA ServedIsOwn ==
  ASSUME SessionInv, [SessionNext]_sessionVars, NEW t \in Tabs,
         wire[t].kind = "call", wire[t].pc = "sent", wire'[t].pc = "ok"
  PROVE  admins[tokens[wire[t].token].of] = "own"
  <1>1. wire[t] \in Wire
    BY DEF SessionInv, SessionTypeOK
  <1>2. Gesture(t) \/ Progress(t)
    BY OwnStep
  <1>3. ~ Gesture(t)
    <2>1. \A page \in {"login", "change", "panel"} : ~ Visit(t, page)
      BY <1>1 DEF Visit, SessionInv, SessionTypeOK, Wire
    <2>2. wire[t] # NoWire
      BY Constants
    <2>3. ~ Logout(t)
      BY DEF Logout
    <2> QED
      BY <2>1, <2>2, <2>3 DEF Gesture, Login, ChangePassword, Call, Sends
  <1>4. CallGuard(t)
    BY <1>2, <1>3 DEF Progress, LoginSelect, LoginSign, ChangeSelect, ChangeUpdate, LoginAnswer,
       ChangeAnswer, PlainAnswer, Unauthorized, Lost
  <1>5. Guard(wire[t].token, "call") = "ok"
    BY <1>1, <1>4 DEF CallGuard, Goes, SessionInv, SessionTypeOK
  <1>6. wire[t].token # 0 /\ ~ tokens[wire[t].token].must
    BY <1>5 DEF Guard
  <1>7. wire[t].token \in Nat
    BY <1>1, Constants DEF Wire
  <1>8. wire[t].token <= Len(tokens)
    BY DEF SessionInv, Carried
  <1>9. wire[t].token \in DOMAIN tokens
    BY <1>6, <1>7, <1>8, Numbered DEF SessionInv
  <1> QED
    BY <1>6, <1>9 DEF SessionInv, OwnToken

\* What is sent carries the stored token, and nobody has logged out of that.
LEMMA SentIsStored ==
  ASSUME SessionInv, [SessionNext]_sessionVars, NEW t \in Tabs,
         wire[t] = NoWire, wire'[t] # NoWire
  PROVE  wire'[t].token = 0 \/ wire'[t].token \notin left
  <1>1. wire[t] \in Wire /\ wire[t].kind = "none" /\ wire[t].pc = "sent"
    BY Constants
  <1>2. Gesture(t) \/ Progress(t)
    BY OwnStep
  <1>3. ~ Progress(t)
    BY <1>1 DEF Progress, LoginSelect, LoginSign, ChangeSelect, ChangeUpdate, CallGuard,
       LoginAnswer, ChangeAnswer, PlainAnswer, Unauthorized, Lost
  <1>4. ASSUME NEW page \in {"login", "change", "panel"}, Visit(t, page)
        PROVE  FALSE
    <2>1. (wire[t] # NoWire) = FALSE
      OBVIOUS
    <2>2. wire' = [wire EXCEPT ![t].lost = FALSE]
      BY <1>4, <2>1 DEF Visit
    <2>3. wire'[t] = [NoWire EXCEPT !.lost = FALSE]
      BY <2>2 DEF SessionInv, SessionTypeOK
    <2>4. NoWire \in Wire /\ NoWire.lost = FALSE
      BY Constants DEF NoWire
    <2> QED
      BY <2>3, <2>4 DEF Wire
  <1>5. ~ Logout(t)
    BY DEF Logout
  <1>6. ASSUME NEW kind, NEW who, Sends(t, kind, who)
        PROVE  wire'[t].token = local.token
    BY <1>1, <1>6 DEF Sends, SessionInv, SessionTypeOK, Wire
  <1>7. wire'[t].token = local.token
    BY <1>2, <1>3, <1>4, <1>5, <1>6 DEF Gesture, Login, ChangePassword, Call
  <1> QED
    BY <1>7 DEF SessionInv, Fresh

-----------------------------------------------------------------------------
(* The steps of the settings.                                              *)

LEMMA SettingsConstants ==
  /\ Empty \notin Gateways /\ Empty \notin Accounts
  /\ MaxHooks \in Nat \ {0} /\ 0 \in Secrets /\ Secrets \subseteq Nat
  /\ NoAsk \in Ask /\ NoAsk.pc = "idle" /\ NoAsk.key = Empty /\ NoAsk.secret = 0
  /\ NoAsk.kind = "none" /\ NoAsk.active = Empty
  /\ NoForm \in Form /\ NoForm.key = Empty
  <1>1. /\ Empty \notin Gateways /\ Empty \notin Accounts
        /\ MaxHooks \in Nat \ {0} /\ 0 \in 0 .. MaxHooks
    BY SettingsAssumption
  <1> QED
    BY <1>1 DEF Secrets, NoAsk, Ask, NoForm, Form, Keys

\* The steps of a registration that look at the account.
Looks(pc) == pc \in {"list", "create", "secret"}

\* A registration that brought a secret is yet to write it.
Holds(a) == a.pc = "secret" /\ a.secret # 0

\* The request of one page moves on; rows, endpoints and client stay.
LEMMA AskMoves ==
  ASSUME SettingsInv, NEW t \in Pages, NEW a \in Ask, ask' = [ask EXCEPT ![t] = a],
         UNCHANGED <<row, endpoints, client>>,
         form' \in [Pages -> Form],
         \A u \in Pages : Filled(form'[u]),
         muddled' \in BOOLEAN, muddled => muddled', Proper(a),
         Looks(a.pc) => client # Empty,
         ~ muddled' =>
           /\ a.pc = "config" => \A u \in Pages : ~ Registers(u)
           /\ Looks(a.pc) => Registers(t) /\ client = row.key
           /\ a.pc = "create" => Made = {}
           /\ Holds(a) => Holds(ask[t]) /\ a.secret = ask[t].secret
           /\ Holds(ask[t]) => Holds(a)
  PROVE  SettingsInv'
  <1>1. \A u \in Pages : ask'[u] = IF u = t THEN a ELSE ask[u]
    BY DEF SettingsInv, Fields
  <1>2. Fields'
    BY DEF SettingsInv, Fields
  <1>4. Chosen'
    BY <1>1 DEF SettingsInv, Chosen
  <1>5. HasClient'
    BY <1>1 DEF SettingsInv, HasClient, Made, Looks
  <1>6. ASSUME ~ muddled'
        PROVE  Orderly'
    <2>1. Orderly
      BY <1>6 DEF SettingsInv
    <2>2. \A u \in Pages : Registers(u)' <=>
            IF u = t THEN a.pc = "config" \/ Looks(a.pc) ELSE Registers(u)
      BY <1>1 DEF Registers, Looks
    <2>3. \A u, v \in Pages : Registers(u)' /\ Registers(v)' => u = v
      BY <1>6, <2>1, <2>2 DEF Orderly, Made
    <2>4. \A u \in Pages : ask'[u].pc \in {"list", "create", "secret"} => client' = row'.key
      BY <1>1, <1>6, <2>1 DEF Orderly, Made, Looks
    <2>5. \A u \in Pages : ask'[u].pc = "create" => Made' = {}
      BY <1>1, <1>6, <2>1 DEF Orderly, Made
    <2>6. \A u \in Pages : ask'[u].pc = "secret" /\ ask'[u].secret # 0 =>
            \A h \in Made' : h.secret = ask'[u].secret
      BY <1>1, <1>6, <2>1 DEF Orderly, Made, Holds
    <2>7. \A h \in Made' :
            \/ h.secret = row'.secret
            \/ \E u \in Pages : ask'[u].pc = "secret" /\ ask'[u].secret # 0
      <3> SUFFICES ASSUME NEW h \in Made, h.secret # row.secret
                   PROVE  \E u \in Pages : Holds(ask'[u])
        BY DEF Holds, Made
      <3>1. PICK u \in Pages : Holds(ask[u])
        BY <2>1 DEF Orderly, Made, Holds
      <3>2. Holds(ask'[u])
        BY <1>1, <1>6, <3>1
      <3> QED
        BY <3>2
    <2> QED
      BY <2>1, <2>3, <2>4, <2>5, <2>6, <2>7 DEF Orderly, Made
  <1> QED
    BY <1>2, <1>4, <1>5, <1>6 DEF SettingsInv

LEMMA FormStays ==
  ASSUME SettingsInv, UNCHANGED form
  PROVE  /\ form' \in [Pages -> Form]
         /\ \A u \in Pages : Filled(form'[u])
  BY DEF SettingsInv, Fields, Chosen

\* A request that is no registration, neither before nor after.
LEMMA PlainMoves ==
  ASSUME SettingsInv, NEW t \in Pages, NEW a \in Ask, ask' = [ask EXCEPT ![t] = a],
         UNCHANGED <<row, endpoints, client, muddled>>,
         form' \in [Pages -> Form],
         \A u \in Pages : Filled(form'[u]), Proper(a),
         ~ Registers(t), a.pc \in {"idle", "read", "active", "key", "reply"}
  PROVE  SettingsInv'
  <1>1. ~ Looks(a.pc) /\ ~ Holds(a) /\ ~ Holds(ask[t]) /\ a.pc # "config"
    BY DEF Looks, Holds, Registers
  <1>2. muddled \in BOOLEAN
    BY DEF SettingsInv, Fields
  <1> QED
    BY <1>1, <1>2, AskMoves DEF Looks

\* Choosing and typing change a field of a form that is filled.
LEMMA FieldKeeps ==
  ASSUME SettingsInv, NEW t \in Pages, NEW f \in Form, Filled(f), form' = [form EXCEPT ![t] = f],
         UNCHANGED <<row, endpoints, client, ask, muddled>>
  PROVE  SettingsInv'
  <1>1. Fields' /\ Chosen'
    BY DEF SettingsInv, Fields, Chosen
  <1>2. HasClient' /\ (Orderly => Orderly')
    BY DEF SettingsInv, HasClient, Orderly, Made, Registers
  <1> QED
    BY <1>1, <1>2 DEF SettingsInv

LEMMA ChooseKeeps ==
  ASSUME SettingsInv, NEW t \in Pages, NEW g \in Gateways, Choose(t, g)
  PROVE  SettingsInv'
  <1> DEFINE f == [form[t] EXCEPT !.active = g]
  <1>1. f \in Form /\ f.active = g
    BY DEF SettingsInv, Fields, Form
  <1>2. form' = [form EXCEPT ![t] = f] /\ UNCHANGED <<row, endpoints, client, ask, muddled>>
    BY DEF Choose
  <1> HIDE DEF f
  <1> QED
    BY <1>1, <1>2, FieldKeeps DEF Filled

LEMMA TypeKeeps ==
  ASSUME SettingsInv, NEW t \in Pages, NEW k \in Accounts \cup {Empty}, Type(t, k)
  PROVE  SettingsInv'
  <1> DEFINE f == [form[t] EXCEPT !.key = k]
  <1>1. form[t] \in Form /\ form[t].active \in Gateways
    BY DEF Type, SettingsInv, Fields, Chosen, Filled
  <1>2. f \in Form /\ f.active \in Gateways
    BY <1>1 DEF Form, Keys
  <1>3. form' = [form EXCEPT ![t] = f] /\ UNCHANGED <<row, endpoints, client, ask, muddled>>
    BY DEF Type
  <1> HIDE DEF f
  <1> QED
    BY <1>2, <1>3, FieldKeeps DEF Filled

LEMMA RequestsKeep ==
  ASSUME SettingsInv, NEW t \in Pages, Requests(t)
  PROVE  SettingsInv'
  <1>1. form' = form /\ UNCHANGED <<row, endpoints, client>>
    BY DEF Requests, Load, Save, Register, Reconnect
  <1>2. form[t] \in Form
    BY DEF SettingsInv, Fields
  <1>3. ASSUME NEW pc \in {"read", "active"}, NEW kind \in {"load", "save"},
               NEW g \in Gateways \cup {Empty}, NEW k \in Keys,
               pc = "active" => g \in Gateways /\ kind = "save", Asks(t, pc, kind, g, k), UNCHANGED muddled
        PROVE  SettingsInv'
    <2> DEFINE a == [NoAsk EXCEPT !.pc = pc, !.kind = kind, !.active = g, !.key = k]
    <2>1. ask' = [ask EXCEPT ![t] = a] /\ ask[t].pc = "idle"
      BY <1>3, SettingsConstants DEF Asks
    <2>2. NoAsk \in Ask
      BY SettingsConstants
    <2>3. a \in Ask
      BY <2>2 DEF Ask
    <2>4. a.pc = pc /\ a.key = k /\ a.active = g /\ a.kind = kind
      BY <2>2 DEF Ask
    <2> HIDE DEF a
    <2>5. ~ Registers(t)
      BY <2>1 DEF Registers
    <2>6. Proper(a)
      BY <1>3, <2>4 DEF Proper
    <2> QED
      BY <1>1, <1>3, <2>1, <2>3, <2>4, <2>5, <2>6, FormStays, PlainMoves
  <1>4. CASE Load(t) \/ Reconnect(t)
    BY <1>3, <1>4, SettingsConstants DEF Load, Reconnect, Keys
  <1>5. CASE Save(t)
    <2>1. form[t].active \in Gateways /\ form[t].key \in Keys
      BY <1>2, <1>5 DEF Save, Form, SettingsInv, Chosen, Filled
    <2> QED
      BY <1>3, <1>5, <2>1 DEF Save
  <1>6. CASE Register(t)
    <2> DEFINE a == [NoAsk EXCEPT !.pc = "config", !.kind = "register", !.active = Empty,
                                  !.key = Empty]
               b == \E u \in Pages : Registers(u)
    <2>1. ask' = [ask EXCEPT ![t] = a] /\ ask[t].pc = "idle" /\ muddled' = (muddled \/ b)
      BY <1>6, SettingsConstants DEF Register, Asks
    <2>2. NoAsk \in Ask /\ Empty \in Keys
      BY SettingsConstants DEF Keys
    <2>3. a \in Ask
      BY <2>2 DEF Ask
    <2>4. a.pc = "config" /\ a.key = Empty /\ a.kind = "register"
      BY <2>2 DEF Ask
    <2> HIDE DEF a
    <2>5. muddled' \in BOOLEAN /\ (muddled => muddled') /\ (~ muddled' => ~ b)
      BY <2>1 DEF SettingsInv, Fields
    <2>6. ~ Holds(ask[t]) /\ ~ Holds(a) /\ ~ Looks(a.pc)
      BY <2>1, <2>4 DEF Holds, Looks
    <2>7. Proper(a)
      BY <2>4 DEF Proper
    <2> QED
      BY <1>1, <2>1, <2>3, <2>4, <2>5, <2>6, <2>7, SettingsConstants, FormStays, AskMoves
  <1> QED
    BY <1>4, <1>5, <1>6 DEF Requests

LEMMA ReadKeeps ==
  ASSUME SettingsInv, NEW t \in Pages, Read(t)
  PROVE  SettingsInv'
  <1> DEFINE a == [ask[t] EXCEPT !.pc = "reply", !.active = row.active]
  <1>1. ask[t] \in Ask /\ ask[t].pc = "read" /\ row.active \in Gateways
    BY DEF Read, SettingsInv, Fields, Setting
  <1>2. a \in Ask /\ a.pc = "reply" /\ a.key = ask[t].key /\ a.active = row.active
    BY <1>1 DEF Ask
  <1>3. ask' = [ask EXCEPT ![t] = a] /\ UNCHANGED <<row, endpoints, client, form, muddled>>
    BY DEF Read
  <1> HIDE DEF a
  <1>4. ~ Registers(t) /\ Proper(a)
    BY <1>1, <1>2 DEF Registers, Proper
  <1> QED
    BY <1>1, <1>2, <1>3, <1>4, FormStays, PlainMoves

\* A row of which only the gateway has changed, which no registration looks at.
LEMMA RowKeeps ==
  ASSUME SettingsInv, row' \in Setting, row'.key = row.key, row'.secret = row.secret,
         UNCHANGED <<endpoints, client, form, muddled>>,
         NEW t \in Pages, NEW a \in Ask, ask' = [ask EXCEPT ![t] = a],
         a.pc \in {"read", "key"}, ~ Registers(t)
  PROVE  SettingsInv'
  <1>1. \A u \in Pages : ask'[u] = IF u = t THEN a ELSE ask[u]
    BY DEF SettingsInv, Fields
  <1>2. Fields' /\ HasClient'
    BY <1>1 DEF SettingsInv, Fields, HasClient, Made
  <1>3. Chosen'
    BY <1>1 DEF SettingsInv, Chosen, Proper
  <1>4. \A u \in Pages : Registers(u)' => Registers(u)
    BY <1>1 DEF Registers
  <1>5. \A u \in Pages : Registers(u) => u # t /\ ask'[u] = ask[u]
    BY <1>1
  <1>6. Orderly => Orderly'
    <2> SUFFICES ASSUME Orderly
                 PROVE  Orderly'
      OBVIOUS
    <2>1. \A u \in Pages : ask'[u].pc \in {"list", "create", "secret"} => ask'[u] = ask[u]
      BY <1>1
    <2>2. \A u \in Pages : ask[u].pc = "secret" => ask'[u] = ask[u]
      BY <1>5 DEF Registers
    <2> QED
      BY <1>4, <2>1, <2>2 DEF Orderly, Made
  <1> QED
    BY <1>2, <1>3, <1>6 DEF SettingsInv

LEMMA WriteActiveKeeps ==
  ASSUME SettingsInv, NEW t \in Pages, WriteActive(t)
  PROVE  SettingsInv'
  <1> DEFINE pc == IF ask[t].key = Empty THEN "read" ELSE "key"
             a == [ask[t] EXCEPT !.pc = pc]
  <1>1. /\ ask[t] \in Ask /\ ask[t].pc = "active"
        /\ ask[t].active \in Gateways /\ row \in Setting
    BY DEF WriteActive, SettingsInv, Fields, Chosen, Proper
  <1>2. /\ row' = [row EXCEPT !.active = ask[t].active] /\ ask' = [ask EXCEPT ![t] = a]
        /\ UNCHANGED <<endpoints, client, form, muddled>>
    BY DEF WriteActive, Moves
  <1>3. row' \in Setting /\ row'.key = row.key /\ row'.secret = row.secret
    BY <1>1, <1>2 DEF Setting
  <1>4. pc \in {"read", "key"}
    OBVIOUS
  <1> HIDE DEF pc
  <1>5. a \in Ask /\ a.pc = pc /\ a.key = ask[t].key
    BY <1>1, <1>4 DEF Ask
  <1> HIDE DEF a
  <1>6. ~ Registers(t)
    BY <1>1 DEF Registers
  <1> QED
    BY <1>1, <1>2, <1>3, <1>4, <1>5, <1>6, RowKeeps

\* Another key while endpoints or registrations are there is what muddles.
LEMMA WriteKeyKeeps ==
  ASSUME SettingsInv, NEW t \in Pages, WriteKey(t)
  PROVE  SettingsInv'
  <1> DEFINE a == [ask[t] EXCEPT !.pc = "read"]
             k == ask[t].key
             b == row.key # k /\ (Made # {} \/ \E u \in Pages : Registers(u))
  <1>1. ask[t] \in Ask /\ ask[t].pc = "key" /\ k \in Keys /\ row \in Setting
    BY DEF WriteKey, SettingsInv, Fields, Ask
  <1>2. /\ row' = [row EXCEPT !.key = k] /\ ask' = [ask EXCEPT ![t] = a]
        /\ muddled' = (muddled \/ b) /\ UNCHANGED <<endpoints, client, form>>
    BY DEF WriteKey, Moves
  <1>3. row' \in Setting /\ row'.key = k /\ row'.secret = row.secret
    BY <1>1, <1>2 DEF Setting
  <1>4. a \in Ask /\ a.pc = "read" /\ a.key = k
    BY <1>1 DEF Ask
  <1> HIDE DEF a
  <1>5. \A u \in Pages : ask'[u] = IF u = t THEN a ELSE ask[u]
    BY <1>2 DEF SettingsInv, Fields
  <1>6. muddled' \in BOOLEAN
    BY <1>2 DEF SettingsInv, Fields
  <1>7. Fields' /\ HasClient'
    BY <1>1, <1>2, <1>3, <1>4, <1>5, <1>6
       DEF SettingsInv, Fields, HasClient, Made
  <1>8. Chosen'
    BY <1>2, <1>4, <1>5 DEF SettingsInv, Chosen, Proper
  <1>9. ASSUME ~ muddled'
        PROVE  Orderly'
    <2>1. ~ muddled /\ Orderly /\ ~ b
      BY <1>2, <1>9 DEF SettingsInv
    <2>2. \A u \in Pages : Registers(u)' => Registers(u) /\ ask'[u] = ask[u]
      BY <1>4, <1>5 DEF Registers
    <2>3. CASE row.key = k
      <3>1. \A u \in Pages : ask[u].pc = "secret" => ask'[u] = ask[u]
        BY <1>1, <1>5
      <3>2. \A u \in Pages : ask'[u].pc \in {"list", "create", "secret"} => ask'[u] = ask[u]
        BY <1>4, <1>5
      <3> QED
        BY <1>2, <1>3, <2>1, <2>2, <2>3, <3>1, <3>2 DEF Orderly, Made
    <2>4. CASE Made = {} /\ \A u \in Pages : ~ Registers(u)
      <3>1. \A u \in Pages : ~ Registers(u)'
        BY <2>2, <2>4
      <3> QED
        BY <1>2, <2>4, <3>1 DEF Orderly, Made, Registers
    <2> QED
      BY <2>1, <2>3, <2>4
  <1> QED
    BY <1>7, <1>8, <1>9 DEF SettingsInv

\* The client is given the account that is saved, and nobody else uses another one.
LEMMA ReadConfigKeeps ==
  ASSUME SettingsInv, NEW t \in Pages, ReadConfig(t)
  PROVE  SettingsInv'
  <1>1. /\ ask[t] \in Ask /\ ask[t].pc = "config"
        /\ row \in Setting /\ ask[t].kind \notin {"load", "save"}
    BY DEF ReadConfig, SettingsInv, Fields, Chosen, Proper
  <1>2. UNCHANGED <<row, endpoints, form, muddled>> /\ muddled \in BOOLEAN
    BY DEF ReadConfig, SettingsInv, Fields
  <1>3. CASE row.key = Empty
    <2>1. ask' = [ask EXCEPT ![t] = NoAsk] /\ UNCHANGED client
      BY <1>3 DEF ReadConfig
    <2>2. /\ NoAsk \in Ask /\ NoAsk.pc = "idle" /\ ~ Looks(NoAsk.pc)
          /\ ~ Holds(NoAsk) /\ ~ Holds(ask[t]) /\ Proper(NoAsk)
      BY <1>1, SettingsConstants DEF Looks, Holds, Proper
    <2> QED
      BY <1>2, <2>1, <2>2, FormStays, AskMoves
  <1>4. CASE row.key # Empty
    <2> DEFINE a == [ask[t] EXCEPT !.pc = "list"]
    <2>1. ask' = [ask EXCEPT ![t] = a] /\ client' = row.key
      BY <1>4 DEF ReadConfig, Moves
    <2>2. a \in Ask /\ a.pc = "list" /\ a.key = ask[t].key /\ a.kind = ask[t].kind
      BY <1>1 DEF Ask
    <2> HIDE DEF a
    <2>3. \A u \in Pages : ask'[u] = IF u = t THEN a ELSE ask[u]
      BY <2>1 DEF SettingsInv, Fields
    <2>4. client' \in Keys
      BY <1>1, <2>1 DEF Setting
    <2>5. Fields' /\ HasClient'
      BY <1>1, <1>2, <1>4, <2>1, <2>2, <2>3, <2>4
         DEF SettingsInv, Fields, HasClient, Made
    <2>6. Chosen'
      BY <1>1, <1>2, <2>2, <2>3 DEF SettingsInv, Chosen, Proper
    <2>7. Orderly => Orderly'
      <3>1. \A u \in Pages : Registers(u)' => Registers(u)
        BY <1>1, <2>2, <2>3 DEF Registers
      <3>2. \A u \in Pages : ask'[u].pc \in {"create", "secret"} => ask'[u] = ask[u]
        BY <2>2, <2>3
      <3>3. \A u \in Pages : ask[u].pc = "secret" => ask'[u] = ask[u]
        BY <1>1, <2>3
      <3> QED
        BY <1>2, <2>1, <3>1, <3>2, <3>3 DEF Orderly, Made
    <2> QED
      BY <1>2, <2>5, <2>6, <2>7 DEF SettingsInv
  <1> QED
    BY <1>3, <1>4

LEMMA UsedElsewhereKeeps ==
  ASSUME SettingsInv, UsedElsewhere
  PROVE  SettingsInv'
  <1>1. /\ UNCHANGED <<row, endpoints, form, ask, muddled>> /\ client' = row.key
        /\ row.key # Empty /\ client # row.key
    BY DEF UsedElsewhere
  <1>2. client' \in Keys
    BY <1>1 DEF SettingsInv, Fields, Setting
  <1> QED
    BY <1>1, <1>2
       DEF SettingsInv, Fields, Chosen, HasClient, Orderly, Made, Registers

\* Nothing is registered for the account only if there is no endpoint at all.
LEMMA ListKeeps ==
  ASSUME SettingsInv, NEW t \in Pages, List(t)
  PROVE  SettingsInv'
  <1>1. /\ ask[t] \in Ask /\ ask[t].pc = "list"
        /\ ask[t].kind \notin {"load", "save"} /\ client # Empty
        /\ UNCHANGED <<row, endpoints, client, form, muddled>> /\ muddled \in BOOLEAN
    BY DEF List, SettingsInv, Fields, Chosen, Proper, HasClient, Made
  <1>2. Registers(t) /\ ~ Holds(ask[t]) /\ (~ muddled => client = row.key)
    BY <1>1 DEF Registers, Holds, SettingsInv, Orderly, Made
  <1>3. CASE Registered # {}
    <2> DEFINE a == [ask[t] EXCEPT !.pc = "secret", !.secret = 0]
    <2>1. ask' = [ask EXCEPT ![t] = a]
      BY <1>3 DEF List
    <2>2. a \in Ask /\ a.pc = "secret" /\ a.secret = 0 /\ a.key = ask[t].key
          /\ a.kind = ask[t].kind
      BY <1>1, SettingsConstants DEF Ask
    <2> HIDE DEF a
    <2>3. Proper(a) /\ ~ Holds(a)
      BY <1>1, <2>2 DEF Proper, Holds
    <2> QED
      BY <1>1, <1>2, <2>1, <2>2, <2>3, FormStays, AskMoves
  <1>4. CASE Registered = {}
    <2> DEFINE a == [ask[t] EXCEPT !.pc = "create"]
    <2>1. ask' = [ask EXCEPT ![t] = a]
      BY <1>4 DEF List, Moves
    <2>2. a \in Ask /\ a.pc = "create" /\ a.key = ask[t].key /\ a.kind = ask[t].kind
      BY <1>1 DEF Ask
    <2> HIDE DEF a
    <2>3. Proper(a) /\ ~ Holds(a)
      BY <1>1, <2>2 DEF Proper, Holds
    <2>4. ~ muddled => Made = {}
      BY <1>2, <1>4 DEF Registered, SettingsInv, Orderly, Made
    <2> QED
      BY <1>1, <1>2, <2>1, <2>2, <2>3, <2>4, FormStays, AskMoves
  <1> QED
    BY <1>3, <1>4

\* The one endpoint is made, and its secret is on its way to the table.
LEMMA CreateEndpointKeeps ==
  ASSUME SettingsInv, NEW t \in Pages, CreateEndpoint(t)
  PROVE  SettingsInv'
  <1> DEFINE s == Cardinality(Made) + 1
             h == [account |-> client, secret |-> s]
             a == [ask[t] EXCEPT !.pc = "secret", !.secret = s]
  <1>1. /\ ask[t] \in Ask /\ ask[t].pc = "create"
        /\ ask[t].kind \notin {"load", "save"} /\ client # Empty /\ client \in Keys
    BY DEF CreateEndpoint, SettingsInv, Fields, Chosen, Proper, HasClient, Made
  <1>2. IsFiniteSet(Made) /\ Cardinality(Made) \in Nat
    BY FS_CardinalityType DEF SettingsInv, HasClient, Made
  <1>3. s \in Secrets /\ s # 0 /\ s <= MaxHooks
    BY <1>2, SettingsConstants DEF CreateEndpoint, Secrets
  <1>4. /\ endpoints' = endpoints \cup {h} /\ ask' = [ask EXCEPT ![t] = a]
        /\ UNCHANGED <<row, client, form, muddled>>
    BY DEF CreateEndpoint
  <1>5. Made' = Made \cup {h} /\ IsFiniteSet(Made') /\ Cardinality(Made') <= MaxHooks
    <2>1. h.secret # 0
      BY <1>3
    <2>2. Made' = Made \cup {h}
      BY <1>4, <2>1 DEF Made
    <2>3. IsFiniteSet(Made \cup {h})
      BY <1>2, FS_AddElement
    <2>4. Cardinality(Made \cup {h}) = Cardinality(Made) \/ Cardinality(Made \cup {h}) = s
      BY <1>2, FS_AddElement
    <2> QED
      BY <1>2, <1>3, <2>2, <2>3, <2>4, SettingsConstants
  <1> HIDE DEF s
  <1>6. h \in Hook /\ h.account = client /\ h.secret = s
    BY <1>1, <1>3 DEF Hook, Keys
  <1>7. a \in Ask /\ a.pc = "secret" /\ a.secret = s /\ a.key = ask[t].key
        /\ a.kind = ask[t].kind
    BY <1>1, <1>3 DEF Ask
  <1> HIDE DEF h, a
  <1>8. \A u \in Pages : ask'[u] = IF u = t THEN a ELSE ask[u]
    BY <1>4 DEF SettingsInv, Fields
  <1>9. Fields' /\ HasClient'
    BY <1>1, <1>4, <1>5, <1>6, <1>7, <1>8 DEF SettingsInv, Fields, HasClient, Made
  <1>10. Chosen'
    BY <1>1, <1>4, <1>7, <1>8 DEF SettingsInv, Chosen, Proper
  <1>11. ASSUME ~ muddled
         PROVE  Orderly'
    <2>1. Orderly /\ Made = {} /\ client = row.key
      BY <1>1, <1>11 DEF SettingsInv, Orderly, Made
    <2>2. Made' = {h}
      BY <1>5, <2>1
    <2>3. \A u \in Pages : Registers(u)' <=> Registers(u)
      BY <1>1, <1>7, <1>8 DEF Registers
    <2>4. \A u \in Pages \ {t} : ~ Registers(u) /\ ~ Registers(u)'
      BY <1>1, <2>1, <2>3 DEF Orderly, Made, Registers
    <2>5. \A u \in Pages \ {t} : ask'[u].pc \notin {"list", "create", "secret"}
      BY <2>4 DEF Registers
    <2>6. ask'[t].pc = "secret" /\ ask'[t].secret = s
      BY <1>7, <1>8
    <2> QED
      BY <1>3, <1>4, <1>6, <2>1, <2>2, <2>4, <2>5, <2>6 DEF Orderly, Made
  <1> QED
    BY <1>4, <1>9, <1>10, <1>11 DEF SettingsInv

LEMMA WriteSecretKeeps ==
  ASSUME SettingsInv, NEW t \in Pages, WriteSecret(t)
  PROVE  SettingsInv'
  <1> DEFINE s == SecretAfter(ask[t].secret)
             a == [ask[t] EXCEPT !.pc = "reply", !.active = Empty, !.secret = 0]
  <1>1. /\ ask[t] \in Ask /\ ask[t].pc = "secret"
        /\ ask[t].kind \notin {"load", "save"} /\ row \in Setting
    BY DEF WriteSecret, SettingsInv, Fields, Chosen, Proper
  <1>2. /\ row' = [row EXCEPT !.secret = s] /\ ask' = [ask EXCEPT ![t] = a]
        /\ UNCHANGED <<endpoints, client, form, muddled>>
    BY DEF WriteSecret
  <1>3. s \in Secrets /\ s = IF ask[t].secret = 0 THEN row.secret ELSE ask[t].secret
    BY <1>1 DEF SecretAfter, Setting, Ask
  <1> HIDE DEF s
  <1>4. row' \in Setting /\ row'.secret = s /\ row'.key = row.key
    BY <1>1, <1>2, <1>3 DEF Setting
  <1>5. a \in Ask /\ a.pc = "reply" /\ a.key = ask[t].key /\ a.kind = ask[t].kind
    BY <1>1, SettingsConstants DEF Ask
  <1> HIDE DEF a
  <1>6. \A u \in Pages : ask'[u] = IF u = t THEN a ELSE ask[u]
    BY <1>2 DEF SettingsInv, Fields
  <1>7. Fields' /\ HasClient'
    BY <1>1, <1>2, <1>4, <1>5, <1>6 DEF SettingsInv, Fields, HasClient, Made
  <1>8. Chosen'
    BY <1>1, <1>2, <1>5, <1>6 DEF SettingsInv, Chosen, Proper
  <1>9. ASSUME ~ muddled
        PROVE  Orderly'
    <2>1. Orderly
      BY <1>9 DEF SettingsInv
    <2>2. \A u \in Pages \ {t} : ~ Registers(u)
      BY <1>1, <2>1 DEF Orderly, Made, Registers
    <2>3. \A u \in Pages : ~ Registers(u)'
      BY <1>5, <1>6, <2>2 DEF Registers
    <2>4. \A h \in Made : h.secret = s
      <3>1. CASE ask[t].secret = 0
        <4>1. \A u \in Pages : ~ (ask[u].pc = "secret" /\ ask[u].secret # 0)
          BY <2>2, <3>1 DEF Registers
        <4> QED
          BY <1>3, <2>1, <3>1, <4>1 DEF Orderly, Made
      <3>2. CASE ask[t].secret # 0
        BY <1>1, <1>3, <2>1, <3>2 DEF Orderly, Made
      <3> QED
        BY <3>1, <3>2
    <2>5. \A u \in Pages : ask'[u].pc \notin {"config", "list", "create", "secret"}
      BY <2>3 DEF Registers
    <2>6. \A h \in Made : h.account = row.key
      BY <2>1 DEF Orderly, Made
    <2> QED
      BY <1>2, <1>4, <2>3, <2>4, <2>5, <2>6 DEF Orderly, Made
  <1> QED
    BY <1>2, <1>7, <1>8, <1>9 DEF SettingsInv

\* What breaks off with a secret to write is what muddles.
LEMMA BreakOffKeeps ==
  ASSUME SettingsInv, NEW t \in Pages, BreakOff(t)
  PROVE  SettingsInv'
  <1> DEFINE b == ask[t].pc = "secret" /\ ask[t].secret # 0
  <1>1. /\ ask' = [ask EXCEPT ![t] = NoAsk] /\ muddled' = (muddled \/ b)
        /\ UNCHANGED <<row, endpoints, client, form>>
    BY DEF BreakOff
  <1>2. muddled' \in BOOLEAN /\ (muddled => muddled') /\ (~ muddled' => ~ b)
    BY <1>1 DEF SettingsInv, Fields
  <1>3. /\ NoAsk \in Ask /\ NoAsk.pc = "idle" /\ ~ Looks(NoAsk.pc)
        /\ ~ Holds(NoAsk) /\ Proper(NoAsk)
    BY SettingsConstants DEF Looks, Holds, Proper
  <1> QED
    BY <1>1, <1>2, <1>3, FormStays, AskMoves DEF Holds

LEMMA RepliesKeep ==
  ASSUME SettingsInv, NEW t \in Pages, Replies(t)
  PROVE  SettingsInv'
  <1> DEFINE g == ask[t].active
  <1>1. /\ ask[t] \in Ask /\ ask[t].pc = "reply" /\ ~ Registers(t)
        /\ UNCHANGED <<row, endpoints, client, muddled>>
    BY DEF Replies, LoadReply, SaveReply, RegisterReply, ReplyToNobody, Registers, SettingsInv,
       Fields
  <1>2. NoAsk \in Ask /\ NoAsk.pc = "idle" /\ Proper(NoAsk)
    BY SettingsConstants DEF Proper
  <1>3. ASSUME ask' = [ask EXCEPT ![t] = NoAsk], UNCHANGED form
        PROVE  SettingsInv'
    BY <1>1, <1>2, <1>3, FormStays, PlainMoves
  <1>4. ASSUME ask' = [ask EXCEPT ![t] = NoAsk], form' = [form EXCEPT ![t] = Given(g)],
               g \in Gateways
        PROVE  SettingsInv'
    <2>1. Given(g) \in Form /\ Filled(Given(g))
      BY <1>4, SettingsConstants DEF Given, Form, Keys, Filled
    <2>2. form' \in [Pages -> Form] /\ \A u \in Pages : Filled(form'[u])
      BY <1>4, <2>1, FormStays DEF SettingsInv, Fields, Chosen
    <2> QED
      BY <1>1, <1>2, <1>4, <2>2, PlainMoves
  <1>5. CASE LoadReply(t)
    <2>1. g \in Gateways
      BY <1>5 DEF LoadReply, SettingsInv, Chosen, Proper
    <2> QED
      BY <1>3, <1>4, <1>5, <2>1 DEF LoadReply
  <1>6. CASE SaveReply(t)
    <2>1. g \in Gateways
      BY <1>6 DEF SaveReply, SettingsInv, Chosen, Proper
    <2> QED
      BY <1>4, <1>6, <2>1 DEF SaveReply
  <1>7. CASE RegisterReply(t)
    <2> DEFINE a == [NoAsk EXCEPT !.pc = "read", !.kind = "load"]
    <2>1. a \in Ask /\ a.pc = "read" /\ a.key = Empty
      BY SettingsConstants DEF Ask
    <2>2. ask' = [ask EXCEPT ![t] = a] /\ UNCHANGED form
      BY <1>7 DEF RegisterReply
    <2> HIDE DEF a
    <2>3. Proper(a)
      BY <2>1 DEF Proper
    <2> QED
      BY <1>1, <2>1, <2>2, <2>3, SettingsConstants, FormStays, PlainMoves
  <1>8. CASE ReplyToNobody(t)
    BY <1>3, <1>8 DEF ReplyToNobody
  <1> QED
    BY <1>5, <1>6, <1>7, <1>8 DEF Replies

\* Whoever leaves the page leaves its requests to the server.
LEMMA LeavePageKeeps ==
  ASSUME SettingsInv, NEW S, LeavePage(S)
  PROVE  SettingsInv'
  <1>1. UNCHANGED <<row, endpoints, client, muddled>>
    BY DEF LeavePage
  <1>2. /\ form' \in [Pages -> Form]
        /\ \A u \in Pages : Filled(form'[u])
    <2>1. \A u \in Pages : form'[u] = NoForm \/ form'[u] = form[u]
      BY DEF LeavePage
    <2>2. form' \in [Pages -> Form]
      BY SettingsConstants DEF LeavePage, SettingsInv, Fields
    <2> QED
      BY <2>1, <2>2, SettingsConstants DEF SettingsInv, Chosen, Filled
  <1>3. ASSUME NEW u \in Pages
        PROVE  /\ ask'[u] \in Ask /\ ask'[u].pc = ask[u].pc /\ ask'[u].key = ask[u].key
               /\ ask'[u].secret = ask[u].secret /\ ask'[u].active = ask[u].active
               /\ ask'[u].kind = "left" \/ ask'[u].kind = ask[u].kind
    <2> DEFINE a == [ask[u] EXCEPT !.kind = "left"]
    <2>1. ask[u] \in Ask
      BY DEF SettingsInv, Fields
    <2>2. /\ a \in Ask /\ a.pc = ask[u].pc /\ a.key = ask[u].key /\ a.secret = ask[u].secret
          /\ a.active = ask[u].active /\ a.kind = "left"
      BY <2>1 DEF Ask
    <2>3. ask'[u] = a \/ ask'[u] = ask[u]
      BY DEF LeavePage
    <2> HIDE DEF a
    <2> QED
      BY <2>1, <2>2, <2>3
  <1>4. ask' \in [Pages -> Ask]
    <2>1. DOMAIN ask' = Pages /\ ask' = [u \in Pages |-> ask'[u]]
      BY DEF LeavePage
    <2> QED
      BY <1>3, <2>1
  <1>5. Fields' /\ HasClient'
    BY <1>1, <1>2, <1>3, <1>4 DEF SettingsInv, Fields, HasClient, Made
  <1>6. Chosen'
    BY <1>2, <1>3 DEF SettingsInv, Chosen, Proper
  <1>7. Orderly => Orderly'
    BY <1>1, <1>3 DEF Orderly, Made, Registers
  <1> QED
    BY <1>1, <1>5, <1>6, <1>7 DEF SettingsInv

LEMMA SettingsStart == SettingsInit => SettingsInv
  <1> SUFFICES ASSUME SettingsInit
               PROVE  SettingsInv
    OBVIOUS
  <1>1. PICK g \in Gateways : row = [active |-> g, key |-> Empty, secret |-> 0]
    BY DEF SettingsInit
  <1>2. row \in Setting /\ row.key = Empty
    BY <1>1, SettingsConstants DEF Setting, Keys
  <1>3. Empty \in Keys
    BY DEF Keys
  <1>4. Fields
    <2>1. endpoints \subseteq Hook
      BY SettingsConstants DEF SettingsInit, Hook
    <2> QED
      BY <1>2, <1>3, <2>1, SettingsConstants DEF SettingsInit, Fields
  <1>5. Chosen
    BY SettingsConstants DEF SettingsInit, Chosen, Filled, Proper
  <1>6. HasClient /\ Orderly
    <2>1. IsFiniteSet({}) /\ Cardinality({}) = 0
      BY FS_EmptySet
    <2>2. 0 <= MaxHooks
      BY SettingsConstants
    <2>3. Made = {}
      BY DEF SettingsInit, Made
    <2> QED
      BY <2>1, <2>2, <2>3, SettingsConstants DEF SettingsInit, HasClient, Orderly, Registers
  <1> QED
    BY <1>4, <1>5, <1>6 DEF SettingsInv

-----------------------------------------------------------------------------
(* What the pages have been told.                                          *)

\* One page's form and request change; of the row, what is active does not.
LEMMA ToldOfOne ==
  ASSUME SettingsInv, Told, NEW t \in Pages, row'.active = row.active,
         \A u \in Pages \ {t} : form'[u] = form[u] /\ ask'[u] = ask[u],
         overtaken' \subseteq Pages, overtaken \subseteq overtaken' \cup {t},
         ask'[t].kind = "left" => form'[t] = NoForm,
         t \notin overtaken' =>
           /\ form'[t] # NoForm /\ ask'[t].kind # "save" => form'[t].shown = row.active
           /\ ask'[t].pc = "reply" /\ ask'[t].kind \in {"load", "save"}
                => ask'[t].active = row.active
  PROVE  Told'
  <1>1. \A u \in Pages : ask'[u].kind = "left" => form'[u] = NoForm
    BY DEF Told
  <1>2. ASSUME NEW u \in Pages \ overtaken'
        PROVE  /\ form'[u] # NoForm /\ ask'[u].kind # "save" => form'[u].shown = row'.active
               /\ ask'[u].pc = "reply" /\ ask'[u].kind \in {"load", "save"}
                    => ask'[u].active = row'.active
    BY DEF Told
  <1> QED
    BY <1>1, <1>2 DEF Told

LEMMA FormsTold ==
  ASSUME SettingsInv, Told, NEW t \in Pages,
         (\E g \in Gateways : Choose(t, g)) \/ \E k \in Accounts \cup {Empty} : Type(t, k)
  PROVE  Told'
  <1>1. UNCHANGED <<row, ask, overtaken>> /\ form[t] # NoForm
    BY DEF Choose, Type
  <1>2. form'[t].shown = form[t].shown /\ \A u \in Pages \ {t} : form'[u] = form[u]
    BY DEF Choose, Type, SettingsInv, Fields, Form
  <1>3. ask[t].kind # "left"
    BY <1>1 DEF Told
  <1> QED
    BY <1>1, <1>2, <1>3, ToldOfOne DEF Told

LEMMA RequestsTold ==
  ASSUME SettingsInv, Told, NEW t \in Pages, Requests(t)
  PROVE  Told'
  <1>1. UNCHANGED <<row, form>> /\ ask[t] = NoAsk /\ ask[t].kind = "none"
    BY SettingsConstants DEF Requests, Load, Save, Register, Reconnect, Asks
  <1>2. ASSUME NEW pc, NEW kind, NEW g, NEW k, Asks(t, pc, kind, g, k)
        PROVE  /\ ask'[t].pc = pc /\ ask'[t].kind = kind
               /\ \A u \in Pages \ {t} : ask'[u] = ask[u]
    BY <1>2 DEF Asks, NoAsk, SettingsInv, Fields
  <1>3. CASE Load(t)
    <2>1. form[t] = NoForm /\ overtaken' = overtaken \ {t} /\ Asks(t, "read", "load", Empty, Empty)
      BY <1>3 DEF Load
    <2> QED
      BY <1>1, <1>2, <2>1, ToldOfOne DEF Told
  <1>4. CASE Save(t)
    <2>1. overtaken' = overtaken /\ Asks(t, "active", "save", form[t].active, form[t].key)
      BY <1>4 DEF Save
    <2> QED
      BY <1>1, <1>2, <2>1, ToldOfOne DEF Told
  <1>5. CASE Register(t)
    <2>1. overtaken' = overtaken /\ Asks(t, "config", "register", Empty, Empty)
      BY <1>5 DEF Register
    <2> QED
      BY <1>1, <1>2, <2>1, ToldOfOne DEF Told
  <1>6. CASE Reconnect(t)
    <2>1. overtaken' = overtaken /\ Asks(t, "read", "load", Empty, Empty)
      BY <1>6 DEF Reconnect
    <2> QED
      BY <1>1, <1>2, <2>1, ToldOfOne DEF Told
  <1> QED
    BY <1>3, <1>4, <1>5, <1>6 DEF Requests

\* Another gateway overtakes every page but the one that saves it.
LEMMA WriteActiveTold ==
  ASSUME SettingsInv, Told, NEW t \in Pages, WriteActive(t)
  PROVE  Told'
  <1>1. /\ ask[t].pc = "active" /\ ask[t].kind \in {"save", "left"} /\ form' = form
        /\ row'.active = ask[t].active
    <2>1. ask[t].pc = "active" /\ form' = form /\ row'.active = ask[t].active
      BY DEF WriteActive, SettingsInv, Fields, Setting
    <2> QED
      BY <2>1 DEF SettingsInv, Chosen, Proper
  <1>2. /\ ask'[t].kind = ask[t].kind /\ ask'[t].pc \in {"read", "key"}
        /\ \A u \in Pages \ {t} : ask'[u] = ask[u]
    BY DEF WriteActive, Moves, SettingsInv, Fields, Ask
  <1>3. CASE row.active = ask[t].active
    <2>1. overtaken' = overtaken
      BY <1>3 DEF WriteActive
    <2> QED
      BY <1>1, <1>2, <1>3, <2>1, ToldOfOne DEF Told
  <1>4. CASE row.active # ask[t].active
    <2>1. overtaken' = overtaken \cup (Pages \ {t})
      BY <1>4 DEF WriteActive
    <2>2. \A u \in Pages \ overtaken' : u = t
      BY <2>1
    <2>3. \A u \in Pages : ask'[u].kind = "left" => form'[u] = NoForm
      BY <1>1, <1>2 DEF Told
    <2>4. form'[t] # NoForm => ask'[t].kind = "save"
      BY <1>1, <1>2, <2>3
    <2>5. overtaken' \subseteq Pages
      BY <2>1 DEF Told
    <2> QED
      BY <1>2, <2>2, <2>3, <2>4, <2>5 DEF Told
  <1> QED
    BY <1>3, <1>4

LEMMA ServesTold ==
  ASSUME SettingsInv, Told, NEW t \in Pages, Serves(t)
  PROVE  Told'
  <1>1. ask[t] \in Ask /\ row \in Setting /\ DOMAIN ask = Pages
    BY DEF SettingsInv, Fields
  <1>2. CASE Read(t)
    <2>1. UNCHANGED <<row, form, overtaken>>
      BY <1>2 DEF Read
    <2>2. /\ ask'[t].kind = ask[t].kind /\ ask'[t].active = row.active
          /\ \A u \in Pages \ {t} : ask'[u] = ask[u]
      BY <1>1, <1>2 DEF Read, Ask
    <2> QED
      BY <2>1, <2>2, ToldOfOne DEF Told
  <1>3. ASSUME UNCHANGED <<form, overtaken>>, row'.active = row.active,
               \A u \in Pages \ {t} : ask'[u] = ask[u],
               ask'[t].kind = ask[t].kind,
               ask'[t].pc = "reply" => ask[t].kind \notin {"load", "save"}
        PROVE  Told'
    BY <1>3, ToldOfOne DEF Told
  <1>4. CASE WriteKey(t)
    <2>1. UNCHANGED <<form, overtaken>> /\ row'.active = row.active
      BY <1>1, <1>4 DEF WriteKey, Setting
    <2>2. /\ ask'[t].kind = ask[t].kind /\ ask'[t].pc = "read"
          /\ \A u \in Pages \ {t} : ask'[u] = ask[u]
      BY <1>1, <1>4 DEF WriteKey, Moves, Ask
    <2> QED
      BY <1>3, <2>1, <2>2
  <1>5. ASSUME UNCHANGED <<row, form, overtaken>>, ask[t].kind # "save",
               ask' = [ask EXCEPT ![t] = NoAsk]
        PROVE  Told'
    <2>1. /\ ask'[t].kind = "none" /\ ask'[t].pc = "idle"
          /\ \A u \in Pages \ {t} : ask'[u] = ask[u]
      BY <1>1, <1>5, SettingsConstants
    <2> QED
      BY <1>5, <2>1, ToldOfOne DEF Told
  <1>6. CASE ReadConfig(t)
    <2>1. UNCHANGED <<row, form, overtaken>> /\ ask[t].pc = "config" /\ ask[t].kind # "save"
      BY <1>6 DEF ReadConfig, SettingsInv, Chosen, Proper
    <2>2. CASE row.key = Empty
      BY <1>5, <1>6, <2>1, <2>2 DEF ReadConfig
    <2>3. CASE row.key # Empty
      <3>1. /\ ask'[t].kind = ask[t].kind /\ ask'[t].pc = "list"
            /\ \A u \in Pages \ {t} : ask'[u] = ask[u]
        BY <1>1, <1>6, <2>3 DEF ReadConfig, Moves, Ask
      <3> QED
        BY <1>3, <2>1, <3>1
    <2> QED
      BY <2>2, <2>3
  <1>7. CASE List(t) \/ CreateEndpoint(t)
    <2>1. UNCHANGED <<row, form, overtaken>>
      BY <1>7 DEF List, CreateEndpoint
    <2>2. /\ ask'[t].kind = ask[t].kind /\ ask'[t].pc \in {"secret", "create"}
          /\ \A u \in Pages \ {t} : ask'[u] = ask[u]
      BY <1>1, <1>7 DEF List, CreateEndpoint, Moves, Ask
    <2> QED
      BY <1>3, <2>1, <2>2
  <1>8. CASE WriteSecret(t)
    <2>1. UNCHANGED <<form, overtaken>> /\ row'.active = row.active
      BY <1>1, <1>8 DEF WriteSecret, Setting
    <2>2. ask[t].pc = "secret" /\ ask[t].kind \notin {"load", "save"}
      BY <1>8 DEF WriteSecret, SettingsInv, Chosen, Proper
    <2>3. ask'[t].kind = ask[t].kind /\ \A u \in Pages \ {t} : ask'[u] = ask[u]
      BY <1>1, <1>8 DEF WriteSecret, Ask
    <2> QED
      BY <1>3, <2>1, <2>2, <2>3
  <1>9. CASE BreakOff(t)
    <2>1. UNCHANGED <<row, form>> /\ ask' = [ask EXCEPT ![t] = NoAsk]
      BY <1>9 DEF BreakOff
    <2>2. CASE ask[t].kind # "save"
      BY <1>5, <1>9, <2>1, <2>2 DEF BreakOff
    <2>3. CASE ask[t].kind = "save"
      <3>1. overtaken' = overtaken \cup {t}
        BY <1>9, <2>3 DEF BreakOff
      <3>2. ask'[t].kind = "none" /\ \A u \in Pages \ {t} : ask'[u] = ask[u]
        BY <1>1, <2>1, SettingsConstants
      <3> QED
        BY <2>1, <3>1, <3>2, ToldOfOne DEF Told
    <2> QED
      BY <2>2, <2>3
  <1> QED
    BY <1>2, <1>4, <1>6, <1>7, <1>8, <1>9, WriteActiveTold DEF Serves

LEMMA RepliesTold ==
  ASSUME SettingsInv, Told, NEW t \in Pages, Replies(t)
  PROVE  Told'
  <1> DEFINE g == ask[t].active
  <1>1. UNCHANGED <<row, overtaken>> /\ ask[t].pc = "reply" /\ DOMAIN ask = Pages /\ DOMAIN form = Pages
    BY DEF Replies, LoadReply, SaveReply, RegisterReply, ReplyToNobody, SettingsInv, Fields
  <1>2. Given(g).shown = g
    BY DEF Given
  <1>3. ASSUME ask' = [ask EXCEPT ![t] = NoAsk]
        PROVE  ask'[t].kind = "none" /\ ask'[t].pc = "idle" /\ \A u \in Pages \ {t} : ask'[u] = ask[u]
    BY <1>1, <1>3, SettingsConstants
  <1>4. ASSUME ask[t].kind \in {"load", "save"}, ask' = [ask EXCEPT ![t] = NoAsk],
               form' = [form EXCEPT ![t] = Given(g)]
        PROVE  Told'
    <2>1. form'[t].shown = g /\ \A u \in Pages \ {t} : form'[u] = form[u]
      BY <1>1, <1>2, <1>4
    <2>2. t \notin overtaken => g = row.active
      BY <1>1, <1>4 DEF Told
    <2> QED
      BY <1>1, <1>3, <1>4, <2>1, <2>2, ToldOfOne DEF Told
  <1>5. ASSUME UNCHANGED form, ask[t].kind # "save", ask' = [ask EXCEPT ![t] = NoAsk]
        PROVE  Told'
    BY <1>1, <1>3, <1>5, ToldOfOne DEF Told
  <1>6. CASE LoadReply(t)
    BY <1>4, <1>5, <1>6 DEF LoadReply
  <1>7. CASE SaveReply(t)
    BY <1>4, <1>7 DEF SaveReply
  <1>8. CASE RegisterReply(t)
    <2>1. ask' = [ask EXCEPT ![t] = [NoAsk EXCEPT !.pc = "read", !.kind = "load"]] /\ form' = form
            /\ ask[t].kind = "register"
      BY <1>8 DEF RegisterReply
    <2>2. /\ ask'[t].kind = "load" /\ ask'[t].pc = "read"
          /\ \A u \in Pages \ {t} : ask'[u] = ask[u]
      BY <1>1, <2>1 DEF NoAsk
    <2> QED
      BY <1>1, <2>1, <2>2, ToldOfOne DEF Told
  <1>9. CASE ReplyToNobody(t)
    BY <1>5, <1>9 DEF ReplyToNobody
  <1> QED
    BY <1>6, <1>7, <1>8, <1>9 DEF Replies

LEMMA LeavePageTold ==
  ASSUME SettingsInv, Told, NEW S, LeavePage(S)
  PROVE  Told'
  <1>1. UNCHANGED <<row, overtaken>>
    BY DEF LeavePage
  <1>2. ASSUME NEW t \in Pages
        PROVE  \/ form'[t] = NoForm /\ ask'[t] = ask[t] /\ ask[t].kind = "none"
               \/ form'[t] = NoForm /\ ask'[t].kind = "left"
               \/ form'[t] = form[t] /\ ask'[t] = ask[t]
    BY SettingsConstants DEF LeavePage, SettingsInv, Fields, Ask
  <1> QED
    BY <1>1, <1>2 DEF Told

-----------------------------------------------------------------------------
(* The panel.                                                              *)

\* A step of the panel is one of the sessions or leaves them alone.
LEMMA StepOfSessions ==
  ASSUME [Next]_vars
  PROVE  [SessionNext]_sessionVars
  <1>1. CASE Background \/ \E t \in Tabs : Progress(t)
    BY <1>1 DEF SessionNext
  <1>2. ASSUME NEW t \in Tabs, SessionGesture(t)
        PROVE  SessionNext
    <2>1. Gesture(t)
      BY <1>2 DEF SessionGesture, Gesture
    <2> QED
      BY <2>1 DEF SessionNext
  <1>3. CASE UNCHANGED sessionVars
    BY <1>3
  <1>4. ASSUME UNCHANGED vars
        PROVE  UNCHANGED sessionVars
    BY <1>4 DEF vars
  <1> QED
    BY <1>1, <1>2, <1>3, <1>4 DEF Next, SettingsGesture, Chooses

LEMMA StepOfSettings ==
  ASSUME SettingsInv, [Next]_vars
  PROVE  SettingsInv'
  <1>1. CASE LeavePage(Elsewhere)
    BY <1>1, LeavePageKeeps
  <1>2. ASSUME NEW t \in Tabs, SessionGesture(t)
        PROVE  SettingsInv'
    BY <1>2, LeavePageKeeps DEF SessionGesture
  <1>3. ASSUME NEW t \in Pages, SettingsGesture(t)
        PROVE  SettingsInv'
    BY <1>3, RequestsKeep, TypeKeeps DEF SettingsGesture
  <1>7. ASSUME NEW t \in Pages, Chooses(t)
        PROVE  SettingsInv'
    BY <1>7, ChooseKeeps DEF Chooses
  <1>4. ASSUME NEW t \in Pages, Serves(t)
        PROVE  SettingsInv'
    BY <1>4, ReadKeeps, WriteActiveKeeps, WriteKeyKeeps, ReadConfigKeeps, ListKeeps,
       CreateEndpointKeeps, WriteSecretKeeps, BreakOffKeeps DEF Serves
  <1>5. ASSUME UNCHANGED settingsVars
        PROVE  SettingsInv'
    BY <1>5 DEF settingsVars, SettingsInv, Fields, Chosen, HasClient, Orderly, Made,
       Registers
  <1>6. ASSUME UNCHANGED vars
        PROVE  UNCHANGED settingsVars
    BY <1>6 DEF vars
  <1> QED
    BY <1>1, <1>2, <1>3, <1>4, <1>5, <1>6, <1>7, UsedElsewhereKeeps, RepliesKeep, PanelAssumption
       DEF Next

LEMMA StepOfTold ==
  ASSUME SettingsInv, Told, [Next]_vars
  PROVE  Told'
  <1>1. CASE LeavePage(Elsewhere)
    BY <1>1, LeavePageTold
  <1>2. ASSUME NEW t \in Tabs, SessionGesture(t)
        PROVE  Told'
    BY <1>2, LeavePageTold DEF SessionGesture
  <1>3. ASSUME NEW t \in Pages, SettingsGesture(t)
        PROVE  Told'
    BY <1>3, RequestsTold, FormsTold DEF SettingsGesture
  <1>4. ASSUME NEW t \in Pages, Chooses(t)
        PROVE  Told'
    BY <1>4, FormsTold DEF Chooses
  <1>5. ASSUME UNCHANGED <<row, form, ask, overtaken>>
        PROVE  Told'
    BY <1>5 DEF Told
  <1>6. UsedElsewhere \/ UNCHANGED vars => UNCHANGED <<row, form, ask, overtaken>>
    BY DEF UsedElsewhere, vars, settingsVars
  <1> QED
    BY <1>1, <1>2, <1>3, <1>4, <1>5, <1>6, ServesTold, RepliesTold, PanelAssumption DEF Next

LEMMA GesturesCounted ==
  ASSUME gestures \in 0 .. MaxGestures, [Next]_vars
  PROVE  gestures' \in 0 .. MaxGestures
  <1>1. CASE Counted
    BY <1>1, PanelAssumption DEF Counted
  <1>2. CASE UNCHANGED gestures
    BY <1>2
  <1> QED
    BY <1>1, <1>2 DEF Next, Chooses, vars

LEMMA ToldStart == SettingsInit => Told
  BY SettingsConstants DEF SettingsInit, Told

LEMMA InitInv == Init => IInv
  <1>1. 0 \in 0 .. MaxGestures
    BY PanelAssumption
  <1> QED
    BY <1>1, SessionStarts, SettingsStart, ToldStart DEF Init, IInv

LEMMA NextInv == IInv /\ [Next]_vars => IInv'
  BY StepOfSessions, SessionStep, StepOfSettings, StepOfTold, GesturesCounted DEF IInv

LEMMA Invariant == Spec => []IInv
  BY InitInv, NextInv, PTL DEF Spec

-----------------------------------------------------------------------------

\* Sessions, settings, forms and requests are what they should be.
THEOREM Typed == Spec => []TypeOK
  <1>1. IInv => TypeOK
    BY DEF IInv, SessionInv, SettingsInv, Fields, Told, SettingsTypeOK, TypeOK
  <1> QED
    BY <1>1, Invariant, PTL

\* The page of the settings changes nothing of the sessions: the panel is one.
THEOREM PanelHasSessions == Spec => SessionSpec
  <1>1. Init => SessionInit
    BY DEF Init
  <1>2. [Next]_vars => [SessionNext]_sessionVars
    BY StepOfSessions
  <1> QED
    BY <1>1, <1>2, PTL DEF Spec, SessionSpec

\* Who is served has a password of their own, and nobody sends a token that was
\* stored when somebody logged out.
THEOREM OnlyOwnIsServed == Spec => ServedInSession
  <1> DEFINE Served ==
        \A t \in Tabs :
          /\ wire[t].kind = "call" /\ wire[t].pc = "sent" /\ wire'[t].pc = "ok"
             => admins[tokens[wire[t].token].of] = "own"
          /\ wire[t] = NoWire /\ wire'[t] # NoWire
             => wire'[t].token = 0 \/ wire'[t].token \notin left
  <1>1. IInv /\ [Next]_vars => [Served]_sessionVars
    <2> SUFFICES ASSUME IInv, [Next]_vars
                 PROVE  Served
      OBVIOUS
    <2>1. SessionInv /\ [SessionNext]_sessionVars
      BY StepOfSessions DEF IInv
    <2> QED
      BY <2>1, ServedIsOwn, SentIsStored
  <1> QED
    BY <1>1, Invariant, PTL DEF Spec, ServedInSession

\* The secret of the endpoint that there is, is the one that is stored.
LEMMA OrderlyVerifies == SettingsInv => HookVerifies
  BY DEF SettingsInv, Orderly, Made, HookVerifies, Registers

\* The stored secret verifies the account's webhooks, unless a registration was
\* disturbed.
THEOREM HooksVerify == Spec => []HookVerifies
  BY Invariant, OrderlyVerifies, PTL DEF IInv

\* What is typed outlives every fetch, unless another page's save has changed the
\* settings meanwhile or the page's own save broke off.
THEOREM TypedStays == Spec => TypedIsKept
  <1> DEFINE Kept(t) == ask[t].kind = "load" /\ ask'[t] = NoAsk /\ t \notin overtaken
                          => form[t] = NoForm \/ form'[t] = form[t]
  <1>1. ASSUME SettingsInv, Told, Next, NEW t \in Pages
        PROVE  Kept(t)
    <2> SUFFICES ASSUME ask[t].kind = "load", ask'[t] = NoAsk, t \notin overtaken,
                        form'[t] # form[t]
                 PROVE  form[t] = NoForm
      OBVIOUS
    <2>1. /\ ask[t] \in Ask /\ ask'[t].kind = "none" /\ DOMAIN ask = Pages /\ DOMAIN form = Pages
          /\ ask'[t] # ask[t] /\ ask' # ask
      <3>1. ask'[t].kind = "none"
        BY SettingsConstants
      <3> QED
        BY <1>1, <3>1 DEF SettingsInv, Fields
    <2>2. \A S : ~ LeavePage(S)
      <3> SUFFICES ASSUME NEW S, LeavePage(S)
                   PROVE  FALSE
        OBVIOUS
      <3>1. ask'[t] = ask[t] \/ ask'[t] = [ask[t] EXCEPT !.kind = "left"]
        BY DEF LeavePage
      <3> QED
        BY <2>1, <3>1 DEF Ask
    <2>3. \A u \in Pages : ~ Requests(u) /\ ~ Serves(u)
      <3>1. \A u \in Pages : Requests(u) \/ Serves(u) => form' = form
        BY DEF Requests, Load, Save, Register, Reconnect, Serves, Read, WriteActive, WriteKey,
           ReadConfig, List, CreateEndpoint, WriteSecret, BreakOff
      <3> QED
        BY <3>1
    <2>4. /\ ~ UsedElsewhere
          /\ \A u \in Pages, g \in Gateways : ~ Choose(u, g)
          /\ \A u \in Pages, k \in Accounts \cup {Empty} : ~ Type(u, k)
      BY <2>1 DEF UsedElsewhere, Choose, Type
    <2>5. PICK u \in Pages : Replies(u)
      <3>1. \A u \in Tabs : ~ SessionGesture(u) /\ ~ SettingsGesture(u) /\ ~ Chooses(u)
        BY <2>2, <2>3, <2>4, PanelAssumption DEF SessionGesture, SettingsGesture, Chooses
      <3> QED
        BY <1>1, <2>2, <2>3, <2>4, <3>1, PanelAssumption DEF Next
    <2>6. u = t
      BY <1>1, <2>1, <2>5 DEF Replies, LoadReply, SaveReply, RegisterReply, ReplyToNobody
    <2>7. LoadReply(t)
      BY <2>5, <2>6 DEF Replies, SaveReply, RegisterReply, ReplyToNobody
    <2>8. ask[t].pc = "reply" /\ ask[t].active # form[t].shown
      BY <2>7 DEF LoadReply, Anew
    <2> QED
      BY <1>1, <2>8 DEF Told
  <1>2. IInv /\ [Next]_vars => [\A t \in Pages : Kept(t)]_settingsVars
    <2> SUFFICES ASSUME IInv, [Next]_vars, ~ UNCHANGED settingsVars
                 PROVE  \A t \in Pages : Kept(t)
      OBVIOUS
    <2>1. Next
      BY DEF vars
    <2> QED
      BY <1>1, <2>1 DEF IInv
  <1> QED
    BY <1>2, Invariant, PTL DEF Spec, TypedIsKept
================================================================================
