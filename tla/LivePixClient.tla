----------------------------- MODULE LivePixClient -----------------------------
(***************************************************************************)
(* The LivePix client of one process, and the settings it is fed from.     *)
(*                                                                         *)
(* The client is one object for all requests: credentials, token, way of   *)
(* authenticating and cooldown are its fields.  A request reads the        *)
(* settings, hands them to the client when the answer is there, and calls  *)
(* the API later; between its awaits another request may hand the client   *)
(* other credentials, and a token that was asked for with the old ones may *)
(* still be on its way.                                                    *)
(*                                                                         *)
(*   payment  config -> apply -> reuse -> call [-> oauth] -> send -> reply *)
(*   sync     config -> apply ->          call [-> oauth] -> send -> reply *)
(*   plan     the same as sync, but it starts during a cooldown as well    *)
(*   test     config -> apply ->          call [-> oauth]                  *)
(*                                                                         *)
(* Time passes in minutes: cooldowns are counted down.  LivePix and its    *)
(* OAuth server are external: how long a limit lasts and what they refuse. *)
(***************************************************************************)
EXTENDS Naturals

CONSTANTS
  Requests,
  Accounts,       \* LivePix applications
  Accepts,        \* the ways each of them may authenticate
  Limits,         \* minutes for which LivePix may refuse to be called
  NoAccount

ASSUME LivePixAssumption ==
  /\ Accepts \in [Accounts -> SUBSET {"basic", "post"}]
  /\ Limits \subseteq Nat \ {0}
  /\ NoAccount \notin Accounts

VARIABLES
  setting,    \* the two rows of table settings
  pending,    \* the rows an administrator's save is still to write
  client,     \* the credentials the client holds
  token,      \* the account its token is for, while the token is fresh
  preferred,  \* how it authenticated last
  cooldown,   \* minutes for which it does not call
  limit,      \* external: minutes for which LivePix refuses calls
  request,    \* request[r]: its progress
  late,       \* history: the method, and the token if any, came after a change of credentials
  informed    \* history: the client has been told of the limit in full

clientVars ==
  <<setting, pending, client, token, preferred, cooldown, limit, request, late, informed>>

Methods == {"basic", "post"}

\* Minutes: the longest Retry-After the client obeys, and the cooldown without one.
Longest == 2
Guess   == 1

Kinds   == {"payment", "sync", "plan", "test"}
Pair    == [id: Accounts \cup {NoAccount}, secret: Accounts \cup {NoAccount}]
NoPair  == [id |-> NoAccount, secret |-> NoAccount]

\* creds: the settings read or, at the OAuth server, the credentials sent.
Request == [pc: {"idle", "config", "apply", "reuse", "call", "oauth", "send", "reply"},
            kind: Kinds \cup {"none"}, creds: Pair, methods: SUBSET Methods,
            bearer: Accounts \cup {NoAccount}, told: 0 .. Longest]

NoRequest == [pc |-> "idle", kind |-> "none", creds |-> NoPair, methods |-> {},
              bearer |-> NoAccount, told |-> 0]

ClientTypeOK ==
  /\ setting \in Pair
  /\ pending \in SUBSET [key: {"id", "secret"}, account: Accounts]
  /\ client \in Pair
  /\ token \in Accounts \cup {NoAccount}
  /\ preferred \in Methods \cup {"none"}
  /\ cooldown \in 0 .. Longest /\ limit \in Nat
  /\ request \in [Requests -> Request]
  /\ late \in BOOLEAN /\ informed \in BOOLEAN

ClientInit ==
  /\ setting = NoPair /\ pending = {} /\ client = NoPair
  /\ token = NoAccount /\ preferred = "none"
  /\ cooldown = 0 /\ limit = 0
  /\ request = [r \in Requests |-> NoRequest]
  /\ late = FALSE /\ informed = FALSE

-----------------------------------------------------------------------------
(* The settings: each key is an upsert of its own, the id first.           *)

Save(a) ==
  /\ pending = {}
  /\ pending' = [key: {"id", "secret"}, account: {a}]
  /\ UNCHANGED <<setting, client, token, preferred, cooldown, limit, request, late, informed>>

WriteSetting ==
  /\ \E row \in pending :
       /\ row.key = "secret" => pending = {row}
       /\ setting' = IF row.key = "id" THEN [setting EXCEPT !.id = row.account]
                                       ELSE [setting EXCEPT !.secret = row.account]
       /\ pending' = pending \ {row}
  /\ UNCHANGED <<client, token, preferred, cooldown, limit, request, late, informed>>

\* The save fails between two rows.
SaveBreaksOff ==
  /\ pending # {}
  /\ pending' = {}
  /\ UNCHANGED <<setting, client, token, preferred, cooldown, limit, request, late, informed>>

-----------------------------------------------------------------------------
(* A request, step by step.                                                *)

MovesTo(r, pc) == request' = [request EXCEPT ![r].pc = pc]

Done(r) == request' = [request EXCEPT ![r] = NoRequest]

\* The sync does not begin in a cooldown.
Start(r, kind) ==
  /\ request[r] = NoRequest
  /\ kind = "sync" => cooldown = 0
  /\ request' = [request EXCEPT ![r].pc = "config", ![r].kind = kind]
  /\ UNCHANGED <<setting, pending, client, token, preferred, cooldown, limit, late, informed>>

\* getGatewayConfig: one SELECT, in the middle of a save as well as not.
ReadConfig(r) ==
  /\ request[r].pc = "config"
  /\ request' = [request EXCEPT ![r].pc = "apply", ![r].creds = setting]
  /\ UNCHANGED <<setting, pending, client, token, preferred, cooldown, limit, late, informed>>

\* A bug for the run to catch: the token outlives the credentials it was issued to.
TokenKept(creds) == token

\* The token that is left when the client is given these credentials.
TokenAfter(creds) == IF creds = client THEN token ELSE NoAccount

MethodAfter(creds) == IF creds.id = client.id THEN preferred ELSE "none"

\* setCredentials.  A pair with a part missing is refused before.
Apply(r) ==
  /\ request[r].pc = "apply"
  /\ LET creds == request[r].creds IN
     IF NoAccount \in {creds.id, creds.secret}
     THEN Done(r) /\ UNCHANGED <<client, token, preferred, late>>
     ELSE /\ client' = creds
          /\ token' = TokenAfter(creds)
          /\ preferred' = MethodAfter(creds)
          /\ late' = (late /\ creds.id = client.id)
          /\ request' = [request EXCEPT ![r].creds = NoPair,
                ![r].pc = IF request[r].kind = "payment" THEN "reuse" ELSE "call"]
  /\ UNCHANGED <<setting, pending, cooldown, limit, informed>>

\* A payment of the same origin may be there to be used again.
ReusePayment(r) ==
  /\ request[r].pc = "reuse"
  /\ Done(r) \/ MovesTo(r, "call")
  /\ UNCHANGED <<setting, pending, client, token, preferred, cooldown, limit, late, informed>>

\* With a token for account a the API is called, or the test is over.
Proceeds(r, a) ==
  IF request[r].kind = "test" THEN Done(r)
  ELSE request' = [request EXCEPT ![r].pc = "send", ![r].bearer = a,
                                  ![r].creds = NoPair, ![r].methods = {}]

\* Without one, the OAuth server is asked with the credentials the client holds
\* by now.
EnsureToken(r) ==
  IF token # NoAccount THEN Proceeds(r, token)
  ELSE request' = [request EXCEPT ![r].pc = "oauth", ![r].creds = client,
                     ![r].methods = IF preferred = "none" THEN Methods ELSE {preferred}]

\* assertNotRateLimited is asked by payments alone.
Call(r) ==
  /\ request[r].pc = "call"
  /\ IF request[r].kind = "payment" /\ cooldown > 0 THEN Done(r) ELSE EnsureToken(r)
  /\ UNCHANGED <<setting, pending, client, token, preferred, cooldown, limit, late, informed>>

\* Basic is tried before post.
Method(r) == IF "basic" \in request[r].methods THEN "basic" ELSE "post"

\* A token is issued to credentials that belong together.
Issued(r) ==
  /\ request[r].pc = "oauth"
  /\ LET creds == request[r].creds IN
     /\ creds.id = creds.secret /\ Method(r) \in Accepts[creds.id]
     /\ token' = creds.id
     /\ preferred' = Method(r)
     /\ late' = (creds # client)
     /\ Proceeds(r, creds.id)
  /\ UNCHANGED <<setting, pending, client, cooldown, limit, informed>>

\* Others are refused.  The other way is tried with what the client holds then.
Denied(r) ==
  /\ request[r].pc = "oauth"
  /\ LET creds == request[r].creds IN
     creds.id # creds.secret \/ Method(r) \notin Accepts[creds.id]
  /\ IF request[r].methods = {Method(r)} THEN Done(r)
     ELSE request' = [request EXCEPT ![r].methods = @ \ {Method(r)}, ![r].creds = client]
  /\ UNCHANGED <<setting, pending, client, token, preferred, cooldown, limit, late, informed>>

\* No answer, or an error that is none of authentication: no other way is tried.
Unanswered(r) ==
  /\ request[r].pc \in {"oauth", "send"}
  /\ Done(r)
  /\ UNCHANGED <<setting, pending, client, token, preferred, cooldown, limit, late, informed>>

\* computeCooldownMs and trackRateLimitHeaders: the cooldowns an answer may ask
\* for when LivePix is to refuse calls for m minutes.  A refusal (429) may say how
\* long, the last answer before a refusal (x-ratelimit-remaining) does not.
Cooldowns(m) ==
  IF m = 0 THEN {0} ELSE {Guess, IF m > Longest THEN Longest ELSE m}

\* The call reaches LivePix, which may be at its limit, reach it with this call,
\* or refuse it from now on for some minutes.
Send(r) ==
  /\ request[r].pc = "send"
  /\ \E m \in (IF limit > 0 THEN {limit} ELSE {0} \cup Limits) :
       /\ limit' = m
       /\ \E t \in Cooldowns(m) :
            request' = [request EXCEPT ![r].pc = "reply", ![r].bearer = NoAccount,
                                                      ![r].told = t]
  /\ UNCHANGED <<setting, pending, client, token, preferred, cooldown, late, informed>>

\* A bug for the run to catch: a shorter limit replaces a longer one.
CooldownAsTold(m) == IF m > 0 THEN m ELSE cooldown

\* The longer of the cooldown under way and the one just told.
CooldownFor(m) == IF m > cooldown THEN m ELSE cooldown

Reply(r) ==
  /\ request[r].pc = "reply"
  /\ cooldown' = CooldownFor(request[r].told)
  /\ informed' = (informed \/ (limit > 0 /\ request[r].told >= limit))
  /\ Done(r)
  /\ UNCHANGED <<setting, pending, client, token, preferred, limit, late>>

\* tokenExpiresAt has come, a minute before LivePix thinks so.
Expire ==
  /\ token # NoAccount
  /\ token' = NoAccount
  /\ UNCHANGED <<setting, pending, client, preferred, cooldown, limit, request, late, informed>>

Less(m) == IF m = 0 THEN 0 ELSE m - 1

Minute ==
  /\ cooldown' = Less(cooldown)
  /\ limit' = Less(limit)
  /\ informed' = (informed /\ limit > 1)
  /\ UNCHANGED <<setting, pending, client, token, preferred, request, late>>

Continue(r) ==
  \/ ReadConfig(r) \/ Apply(r) \/ ReusePayment(r) \/ Call(r) \/ Issued(r) \/ Denied(r)
  \/ Unanswered(r) \/ Send(r) \/ Reply(r)

ClientNext ==
  \/ \E a \in Accounts : Save(a)
  \/ WriteSetting \/ SaveBreaksOff
  \/ \E r \in Requests : (\E kind \in Kinds : Start(r, kind)) \/ Continue(r)
  \/ Expire \/ Minute

ClientSpec == ClientInit /\ [][ClientNext]_clientVars

-----------------------------------------------------------------------------
(* What the client promises.                                               *)

\* The token and the way of authenticating are those of the application whose
\* credentials the client holds, unless the OAuth answer that brought them was
\* asked for with other ones.  (Then payments go to the other account until the
\* token is over, and the wrong way of authenticating stays for good.)
OwnTokenUnlessLate ==
  ~ late =>
    /\ token # NoAccount => token = client.id /\ token = client.secret
    /\ preferred # "none" => preferred \in Accepts[client.id]

\* While LivePix refuses calls and has told the client for how long, a payment
\* that comes to be sent is turned away, whatever other answers come in meanwhile:
\* one that tells of less, or of nothing, does not end the cooldown.  (Told means
\* all of it: a Retry-After above two minutes is cut, and one minute is guessed
\* without it, so that payments run into a longer limit.  A payment that was past
\* the test before, at the OAuth server or on its way, is sent all the same.)
LimitTurnsPaymentsAway ==
  [][\A r \in Requests :
       informed /\ request[r].kind = "payment" /\ request[r].pc = "call"
         => request'[r] \in {request[r], NoRequest}]_clientVars
================================================================================
