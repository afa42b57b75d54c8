----------------------------- MODULE GatewaySettings -----------------------------
(***************************************************************************)
(* The settings of the payment gateways: the page of the panel that edits  *)
(* them, SettingsController and SettingsService, and the webhook endpoint  *)
(* that is registered at Stripe from there.                                *)
(*                                                                         *)
(*   load      read -> reply                                               *)
(*   save      active -> key -> read -> reply                              *)
(*   register  config -> list [-> create -> secret] -> reply               *)
(*                                                                         *)
(* Each key of table settings is an upsert of its own.  Two keys stand for *)
(* all: the active gateway, which the page shows and sends with every      *)
(* save, and Stripe's secret key, which comes back masked: its field is    *)
(* empty until somebody types, and it is sent only then.                   *)
(***************************************************************************)
EXTENDS Naturals, FiniteSets

CONSTANTS
  Pages,        \* tabs
  Gateways,
  Accounts,     \* Stripe accounts
  MaxHooks,     \* bound: endpoints made from here
  Empty

ASSUME SettingsAssumption ==
  /\ Gateways # {} /\ Empty \notin Gateways \cup Accounts
  /\ MaxHooks \in Nat \ {0}

VARIABLES
  row,        \* the rows of table settings
  endpoints,  \* external: the webhook endpoints at Stripe, each with its secret
  client,     \* the account StripeGateway's client is for
  form,       \* form[t]: what the page in tab t shows and what was typed there
  ask,        \* ask[t]: the request it waits for
  muddled,    \* history: registrations overlapped or broke off, or the key was changed
  overtaken   \* history: the pages that another page's save has changed the gateway
              \* under since they were opened, or whose own save broke off

settingsVars == <<row, endpoints, client, form, ask, muddled, overtaken>>

\* 0 is none: of the settings, none kept; of an endpoint, none told to the Hub.
Secrets == 0 .. MaxHooks

Keys    == Accounts \cup {Empty}

Setting == [active: Gateways, key: Keys, secret: Secrets]
Hook    == [account: Accounts, secret: Secrets]

\* shown: the active gateway the page was last given.
Form == [shown: Gateways \cup {Empty}, active: Gateways \cup {Empty}, key: Keys]
Ask  == [pc: {"idle", "read", "active", "key", "config", "list", "create", "secret", "reply"},
         kind: {"none", "load", "save", "register", "left"},
         active: Gateways \cup {Empty}, key: Keys, secret: Secrets]

NoForm == [shown |-> Empty, active |-> Empty, key |-> Empty]
NoAsk  == [pc |-> "idle", kind |-> "none", active |-> Empty, key |-> Empty, secret |-> 0]

SettingsTypeOK ==
  /\ row \in Setting
  /\ endpoints \subseteq Hook
  /\ client \in Keys
  /\ form \in [Pages -> Form]
  /\ ask \in [Pages -> Ask]
  /\ muddled \in BOOLEAN /\ overtaken \subseteq Pages

\* An account may have an endpoint made by hand or by an earlier installation, whose
\* secret Stripe does not tell again.
SettingsInit ==
  /\ \E g \in Gateways : row = [active |-> g, key |-> Empty, secret |-> 0]
  /\ endpoints \in SUBSET [account: Accounts, secret: {0}] /\ client = Empty
  /\ form = [t \in Pages |-> NoForm]
  /\ ask = [t \in Pages |-> NoAsk]
  /\ muddled = FALSE /\ overtaken = {}

-----------------------------------------------------------------------------
(* The page.                                                               *)

\* The fields of the form: its gateway may be chosen, its key typed.
Choose(t, g) ==
  /\ form[t] # NoForm /\ form[t].active # g
  /\ form' = [form EXCEPT ![t].active = g]
  /\ UNCHANGED <<row, endpoints, client, ask, muddled, overtaken>>

Type(t, k) ==
  /\ form[t] # NoForm /\ form[t].key # k
  /\ form' = [form EXCEPT ![t].key = k]
  /\ UNCHANGED <<row, endpoints, client, ask, muddled, overtaken>>

Asks(t, pc, kind, g, k) ==
  /\ ask[t] = NoAsk
  /\ ask' = [ask EXCEPT ![t] = [NoAsk EXCEPT !.pc = pc, !.kind = kind, !.active = g, !.key = k]]

\* useQuery, when the page is opened.
Load(t) ==
  /\ form[t] = NoForm /\ Asks(t, "read", "load", Empty, Empty)
  /\ overtaken' = overtaken \ {t}
  /\ UNCHANGED <<row, endpoints, client, form, muddled>>

Save(t) ==
  /\ form[t] # NoForm /\ Asks(t, "active", "save", form[t].active, form[t].key)
  /\ UNCHANGED <<row, endpoints, client, form, muddled, overtaken>>

Registers(u) == ask[u].pc \in {"config", "list", "create", "secret"}

\* The button is offered whatever is typed; the key is the saved one.
Register(t) ==
  /\ form[t] # NoForm /\ Asks(t, "config", "register", Empty, Empty)
  /\ muddled' = (muddled \/ \E u \in Pages : Registers(u))
  /\ UNCHANGED <<row, endpoints, client, form, overtaken>>

\* The library fetches again when the browser is back on line; that it does so when
\* the window is focused is switched off.
Reconnect(t) ==
  /\ form[t] # NoForm /\ Asks(t, "read", "load", Empty, Empty)
  /\ UNCHANGED <<row, endpoints, client, form, muddled, overtaken>>

-----------------------------------------------------------------------------
(* The server.                                                             *)

Moves(t, pc) == ask' = [ask EXCEPT ![t].pc = pc]

\* The endpoints made from here.
Made == {h \in endpoints : h.secret # 0}

\* getGatewayConfigMasked: secrets come back as dots, which the page does not keep.
Read(t) ==
  /\ ask[t].pc = "read"
  /\ ask' = [ask EXCEPT ![t].pc = "reply", ![t].active = row.active]
  /\ UNCHANGED <<row, endpoints, client, form, muddled, overtaken>>

WriteActive(t) ==
  /\ ask[t].pc = "active"
  /\ row' = [row EXCEPT !.active = ask[t].active]
  /\ overtaken' = IF row.active = ask[t].active THEN overtaken ELSE overtaken \cup (Pages \ {t})
  /\ Moves(t, IF ask[t].key = Empty THEN "read" ELSE "key")
  /\ UNCHANGED <<endpoints, client, form, muddled>>

WriteKey(t) ==
  /\ ask[t].pc = "key"
  /\ row' = [row EXCEPT !.key = ask[t].key]
  /\ muddled' = \/ muddled
                \/ row.key # ask[t].key /\ (Made # {} \/ \E u \in Pages : Registers(u))
  /\ Moves(t, "read")
  /\ UNCHANGED <<endpoints, client, form, overtaken>>

\* getGatewayConfig and setCredentials, taken as one step; without a key it is refused.
ReadConfig(t) ==
  /\ ask[t].pc = "config"
  /\ IF row.key = Empty
     THEN ask' = [ask EXCEPT ![t] = NoAsk] /\ UNCHANGED client
     ELSE /\ client' = row.key
          /\ Moves(t, "list")
  /\ UNCHANGED <<row, endpoints, form, muddled, overtaken>>

\* A checkout or a webhook sets the client all requests share, as well.
UsedElsewhere ==
  /\ row.key # Empty /\ client # row.key
  /\ client' = row.key
  /\ UNCHANGED <<row, endpoints, form, ask, muddled, overtaken>>

Registered == {h \in endpoints : h.account = client}

\* The client may be another account's by now: there is one for all requests.
List(t) ==
  /\ ask[t].pc = "list"
  /\ IF Registered # {}
     THEN ask' = [ask EXCEPT ![t].pc = "secret", ![t].secret = 0]
     ELSE Moves(t, "create")
  /\ UNCHANGED <<row, endpoints, client, form, muddled, overtaken>>

\* Stripe tells the secret of an endpoint when it makes it, and never again.
CreateEndpoint(t) ==
  /\ ask[t].pc = "create" /\ Cardinality(Made) < MaxHooks
  /\ LET s == Cardinality(Made) + 1 IN
     /\ endpoints' = endpoints \cup {[account |-> client, secret |-> s]}
     /\ ask' = [ask EXCEPT ![t].pc = "secret", ![t].secret = s]
  /\ UNCHANGED <<row, client, form, muddled, overtaken>>

\* A bug for the run to catch: an endpoint that is there already takes the secret.
Overwritten(s) == s

\* What is kept as the secret when a registration brought s, 0 for none.
SecretAfter(s) == IF s = 0 THEN row.secret ELSE s

WriteSecret(t) ==
  /\ ask[t].pc = "secret"
  /\ row' = [row EXCEPT !.secret = SecretAfter(ask[t].secret)]
  /\ ask' = [ask EXCEPT ![t].pc = "reply", ![t].active = Empty, ![t].secret = 0]
  /\ UNCHANGED <<endpoints, client, form, muddled, overtaken>>

\* An await rejects, or the process ends.
BreakOff(t) ==
  /\ ask[t].pc \notin {"idle", "reply"}
  /\ ask' = [ask EXCEPT ![t] = NoAsk]
  /\ muddled' = (muddled \/ (ask[t].pc = "secret" /\ ask[t].secret # 0))
  /\ overtaken' = IF ask[t].kind = "save" THEN overtaken \cup {t} ELSE overtaken
  /\ UNCHANGED <<row, endpoints, client, form>>

-----------------------------------------------------------------------------
(* The answers.                                                            *)

\* The secrets come back masked: their fields are left empty.
Given(g) == [shown |-> g, active |-> g, key |-> Empty]

\* A bug for the run to catch: whatever is fetched fills the form again.
Always(g, f) == TRUE

\* react-hook-form takes `values` anew when they differ from the last it took.
Anew(g, f) == g # f.shown

\* With values taken anew goes what was typed.
LoadReply(t) ==
  /\ ask[t].pc = "reply" /\ ask[t].kind = "load"
  /\ form' = IF Anew(ask[t].active, form[t]) THEN [form EXCEPT ![t] = Given(ask[t].active)]
             ELSE form
  /\ ask' = [ask EXCEPT ![t] = NoAsk]
  /\ UNCHANGED <<row, endpoints, client, muddled, overtaken>>

\* reset: what was typed after the click goes with it.
SaveReply(t) ==
  /\ ask[t].pc = "reply" /\ ask[t].kind = "save"
  /\ form' = [form EXCEPT ![t] = Given(ask[t].active)]
  /\ ask' = [ask EXCEPT ![t] = NoAsk]
  /\ UNCHANGED <<row, endpoints, client, muddled, overtaken>>

\* The settings are fetched again.
RegisterReply(t) ==
  /\ ask[t].pc = "reply" /\ ask[t].kind = "register"
  /\ ask' = [ask EXCEPT ![t] = [NoAsk EXCEPT !.pc = "read", !.kind = "load"]]
  /\ UNCHANGED <<row, endpoints, client, form, muddled, overtaken>>

\* Nobody waits any more.
ReplyToNobody(t) ==
  /\ ask[t].pc = "reply" /\ ask[t].kind = "left"
  /\ ask' = [ask EXCEPT ![t] = NoAsk]
  /\ UNCHANGED <<row, endpoints, client, form, muddled, overtaken>>

\* The tabs of S leave the page, or load it again.
LeavePage(S) ==
  /\ form' = [t \in Pages |-> IF t \in S THEN NoForm ELSE form[t]]
  /\ ask' = [t \in Pages |-> IF t \in S /\ ask[t] # NoAsk THEN [ask[t] EXCEPT !.kind = "left"]
                             ELSE ask[t]]
  /\ UNCHANGED <<row, endpoints, client, muddled, overtaken>>

Requests(t) == Load(t) \/ Save(t) \/ Register(t) \/ Reconnect(t)

Serves(t) ==
  \/ Read(t) \/ WriteActive(t) \/ WriteKey(t)
  \/ ReadConfig(t) \/ List(t) \/ CreateEndpoint(t) \/ WriteSecret(t)
  \/ BreakOff(t)

Replies(t) == LoadReply(t) \/ SaveReply(t) \/ RegisterReply(t) \/ ReplyToNobody(t)

-----------------------------------------------------------------------------
(* What the settings promise.                                              *)

\* Unless registrations overlapped or broke off, or the account was changed, the
\* secret that is stored verifies what the account's endpoint sends, once no
\* registration is under way; whoever registers again, and as often as they like.
\* Of an endpoint that Stripe had before, the Hub never learns the secret.
HookVerifies ==
  ~ muddled /\ ~ (\E t \in Pages : Registers(t))
    => \A h \in Made : h.account = row.key => h.secret = row.secret

\* What was typed on a page and is not saved outlives every fetch of the settings,
\* after a registration or when the browser is back on line, unless another page's
\* save has changed them since the page was opened or a save of its own broke off.
TypedIsKept ==
  [][\A t \in Pages : ask[t].kind = "load" /\ ask'[t] = NoAsk /\ t \notin overtaken
       => form[t] = NoForm \/ form'[t] = form[t]]_settingsVars
================================================================================
