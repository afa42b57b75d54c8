------------------------------- MODULE Customers -------------------------------
(***************************************************************************)
(* How a customer comes to be, and under what name it is found again.      *)
(*                                                                         *)
(* Since migration 008 the e-mail address is a customer's identity: the    *)
(* table has a unique index on it and none on the document.  Five ways     *)
(* lead to a row, and each looks before it writes, an await apart:         *)
(*                                                                         *)
(*   upsert   email -> insert [-> again]          satellites               *)
(*   access   email -> document -> insert         POST /access/resolve     *)
(*   create   email [-> synthetic] -> insert      administrators           *)
(*   persist  find -> document is written         checkouts                *)
(*   rename   find -> e-mail is written           administrators           *)
(*                                                                         *)
(* and a lookup, email -> document, that only reads.  Documents that do    *)
(* not validate are refused before the first await and are left out; what  *)
(* validates is in Documents.  Addresses are in lower case throughout.     *)
(***************************************************************************)
EXTENDS Naturals, FiniteSets

CONSTANTS
  Ids,           \* rows the table may come to hold
  Emails,
  Documents,
  Given,         \* those that customers have of their own
  Synthetic,     \* Synthetic[e][n]: the document made up for e at attempt n
  MaxAttempts,   \* how many are tried
  Queries,
  NoEmail, NoDocument

ASSUME CustomersAssumption ==
  /\ Ids # {} /\ Given \subseteq Documents
  /\ MaxAttempts \in Nat \ {0}
  /\ Synthetic \in [Emails -> [0 .. MaxAttempts - 1 -> Documents]]
  /\ NoEmail \notin Emails /\ NoDocument \notin Documents

VARIABLES
  customer,   \* customer[i]: the row i, NoRow until it is inserted
  query,      \* query[r]: its progress
  told        \* history: told[e]: whom e was said to be since it last changed hands

customersVars == <<customer, query, told>>

Row   == [email: Emails \cup {NoEmail}, document: Documents \cup {NoDocument}]
NoRow == [email |-> NoEmail, document |-> NoDocument]

QueryKinds == {"upsert", "access", "create", "lookup", "persist", "rename"}

\* target is the row asked for or, past a refused INSERT, the row that refused it.
Query == [pc: {"idle", "email", "document", "synthetic", "insert", "again",
               "find", "write", "failed"},
          kind: QueryKinds \cup {"none"}, email: Emails \cup {NoEmail},
          document: Documents \cup {NoDocument},
          attempt: 0 .. MaxAttempts, target: Ids]

NoQuery == [pc |-> "idle", kind |-> "none", email |-> NoEmail, document |-> NoDocument,
            attempt |-> 0, target |-> CHOOSE i \in Ids : TRUE]

CustomersTypeOK ==
  /\ customer \in [Ids -> Row]
  /\ query \in [Queries -> Query]
  /\ told \in [Emails -> SUBSET Ids]

CustomersInit ==
  /\ customer = [i \in Ids |-> NoRow]
  /\ query = [r \in Queries |-> NoQuery]
  /\ told = [e \in Emails |-> {}]

-----------------------------------------------------------------------------
(* The table.                                                              *)

Rows == {i \in Ids : customer[i] # NoRow}

\* findByEmail: at most one row, thanks to the index.
Named(e) == {i \in Rows : customer[i].email = e}

\* findByDocument: one of them, whichever the database returns first.
Documented(d) == {i \in Rows : customer[i].document = d}

\* A bug for the run to catch: migration 008 dropped one index and made no other.
NoIndex(e, own) == {}

\* uq_customers_email_lower: the rows other than own for which a write of the
\* address e is refused.
Holders(e, own) == Named(e) \ own

-----------------------------------------------------------------------------
(* A request, step by step.                                                *)

GoesOn(r, pc) == query' = [query EXCEPT ![r].pc = pc]

Answered(r) == query' = [query EXCEPT ![r] = NoQuery]

\* r ends with an error: nothing is answered.
Fails(r) == query' = [query EXCEPT ![r] = [NoQuery EXCEPT !.pc = "failed"]]

\* History: e is said to be i.
Tells(e, i) == told' = [told EXCEPT ![e] = @ \cup {i}]

Ask(r, asked) ==
  /\ query[r].pc \in {"idle", "failed"}
  /\ query' = [query EXCEPT ![r] = asked]
  /\ UNCHANGED <<customer, told>>

OfAddress(kind, e, d) ==
  [NoQuery EXCEPT !.pc = "email", !.kind = kind, !.email = e, !.document = d]

OfRow(kind, i, e, d) ==
  [NoQuery EXCEPT !.pc = "find", !.kind = kind, !.target = i, !.email = e, !.document = d]

\* What can be asked for: access and a checkout come with a document.
Asked ==
  {OfAddress(kind, e, d) : kind \in {"upsert", "create", "lookup"}, e \in Emails,
                           d \in Given \cup {NoDocument}}
  \cup {OfAddress("access", e, d) : e \in Emails, d \in Given}
  \cup {OfRow("persist", i, NoEmail, d) : i \in Ids, d \in Given}
  \cup {OfRow("rename", i, e, NoDocument) : i \in Ids, e \in Emails}

\* Where a request goes whose address nobody has: only an upsert makes up its
\* document on the spot, without asking whether somebody has it.
Onward(r) ==
  LET q == query[r] IN
  CASE q.kind \in {"access", "lookup"} -> [q EXCEPT !.pc = "document"]
    [] q.kind = "create" /\ q.document = NoDocument -> [q EXCEPT !.pc = "synthetic"]
    [] q.kind = "upsert" /\ q.document = NoDocument ->
         [q EXCEPT !.pc = "insert", !.document = Synthetic[q.email][0]]
    [] OTHER -> [q EXCEPT !.pc = "insert"]

FindByEmail(r) ==
  /\ query[r].pc = "email"
  /\ LET e == query[r].email IN
     \/ /\ Named(e) = {}
        /\ query' = [query EXCEPT ![r] = Onward(r)]
        /\ UNCHANGED told
     \/ \E i \in Named(e) :
          /\ IF query[r].kind = "create" THEN Fails(r) ELSE Answered(r)
          /\ IF query[r].kind = "create" THEN UNCHANGED told ELSE Tells(e, i)
  /\ UNCHANGED customer

\* A document is no identity, but somebody who has it is taken for the caller.
FindByDocument(r) ==
  /\ query[r].pc = "document"
  /\ LET owners == Documented(query[r].document) IN
     \/ owners # {} /\ Answered(r)
     \/ owners = {} /\ query[r].kind = "access" /\ GoesOn(r, "insert")
     \/ owners = {} /\ query[r].kind = "lookup" /\ Answered(r)
  /\ UNCHANGED <<customer, told>>

\* generateSyntheticDocument: one look per attempt.
TrySynthetic(r) ==
  /\ query[r].pc = "synthetic"
  /\ LET n == query[r].attempt IN
     \/ /\ n < MaxAttempts /\ Documented(Synthetic[query[r].email][n]) # {}
        /\ query' = [query EXCEPT ![r].attempt = n + 1]
     \/ /\ n < MaxAttempts /\ Documented(Synthetic[query[r].email][n]) = {}
        /\ query' = [query EXCEPT ![r].pc = "insert",
                                      ![r].document = Synthetic[query[r].email][n]]
     \/ n = MaxAttempts /\ Fails(r)
  /\ UNCHANGED <<customer, told>>

\* A bug for the run to catch: the lost race is not looked into.
Loses(r) == Fails(r)

\* An INSERT that the index refuses: only an upsert looks who was faster.
Refusal(r) ==
  IF query[r].kind # "upsert" THEN Fails(r)
  ELSE \E i \in Holders(query[r].email, {}) :
         query' = [query EXCEPT ![r].pc = "again", ![r].target = i]

Insert(r) ==
  /\ query[r].pc = "insert"
  /\ LET e == query[r].email IN
     \/ /\ Holders(e, {}) # {}
        /\ Refusal(r)
        /\ UNCHANGED <<customer, told>>
     \/ /\ Holders(e, {}) = {}
        /\ \E i \in Ids \ Rows :
             /\ customer' = [customer EXCEPT ![i] =
                               [email |-> e, document |-> query[r].document]]
             /\ Tells(e, i)
        /\ Answered(r)

\* The second look of an upsert that lost the race.
FindAgain(r) ==
  /\ query[r].pc = "again"
  /\ LET e == query[r].email IN
     \/ \E i \in Named(e) : Answered(r) /\ Tells(e, i)
     \/ Named(e) = {} /\ Fails(r) /\ UNCHANGED told
  /\ UNCHANGED customer

\* persist and rename begin with findById.  A document that is there already is
\* not written again.
FindById(r) ==
  /\ query[r].pc = "find"
  /\ LET q == query[r] IN
     IF q.target \notin Rows THEN Fails(r)
     ELSE IF q.kind = "persist" /\ customer[q.target].document = q.document THEN Answered(r)
     ELSE GoesOn(r, "write")
  /\ UNCHANGED <<customer, told>>

WriteDocument(r) ==
  /\ query[r].pc = "write" /\ query[r].kind = "persist"
  /\ customer' = [customer EXCEPT ![query[r].target].document = query[r].document]
  /\ Answered(r)
  /\ UNCHANGED told

\* customers.update with an address.  Both addresses change hands.
WriteEmail(r) ==
  /\ query[r].pc = "write" /\ query[r].kind = "rename"
  /\ LET i == query[r].target
         e == query[r].email
     IN IF Holders(e, {i}) # {}
        THEN Fails(r) /\ UNCHANGED <<customer, told>>
        ELSE /\ customer' = [customer EXCEPT ![i].email = e]
             /\ told' = IF customer[i].email = e THEN told
                        ELSE [told EXCEPT ![e] = {}, ![customer[i].email] = {}]
             /\ Answered(r)

Serve(r) ==
  \/ FindByEmail(r) \/ FindByDocument(r) \/ TrySynthetic(r) \/ Insert(r)
  \/ FindAgain(r) \/ FindById(r) \/ WriteDocument(r) \/ WriteEmail(r)

CustomersNext ==
  \E r \in Queries :
    \/ \E asked \in Asked : Ask(r, asked)
    \/ Serve(r)

CustomersSpec == CustomersInit /\ [][CustomersNext]_customersVars

-----------------------------------------------------------------------------
(* What the table and its callers promise.                                 *)

\* Whoever has asked for an address, through whichever of the ways and at the
\* same time as whomever else, was told the same customer, until an administrator
\* gives the address to another one.  (A caller of access whose address is new
\* but whose document is known is told the owner of the document instead.)
SameAnswer ==
  \A e \in Emails :
    /\ Cardinality(told[e]) <= 1
    /\ told[e] \subseteq Named(e)

\* An upsert is idempotent: it fails only if the row that refused its INSERT has
\* been given another address before the second look.
UpsertIsAnswered ==
  [][\A r \in Queries :
       query[r].kind = "upsert" /\ query'[r].pc = "failed"
       => customer[query[r].target].email # query[r].email]_customersVars
================================================================================
