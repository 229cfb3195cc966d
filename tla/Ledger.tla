------------------------------- MODULE Ledger -------------------------------
(***************************************************************************)
(* Payments between users of the server and through a fund                 *)
(* (src/lib/payments.ts, src/routes/payments.ts, src/lib/invoices.ts).     *)
(* The debit is a script that Redis runs in one step, and the credit one   *)
(* MULTI; between them, and before them, a handler awaits and works with   *)
(* what it has read.  An invoice is read, changed and written whole by     *)
(* whoever pays it or sets its tip.                                        *)
(*                                                                         *)
(* The routes of payments are not mounted at this commit (the invoice      *)
(* routes are); the code is kept.  Payments are of type "internal" and     *)
(* "fund", or the debit of the send route, of type "bitcoin": generate     *)
(* refuses the others, and sendLightning and sendOnchain do nothing.  No   *)
(* fee is added: config.fee has no entry for a type.  Limits, freezes,     *)
(* lists of users, pins and rates only refuse a payment before its debit:  *)
(* a request may be refused whenever it may go on.  An automatic           *)
(* withdrawal is one more payment.  One fund stands for all, as no request *)
(* touches two.                                                            *)
(***************************************************************************)
EXTENDS Integers

CONSTANTS
    Users, Invoices,
    Requests,  \* requests under way; each is made once, which is a bound
    Amounts,   \* what a request may ask for
    Tips,      \* what a tip may be
    Start,     \* balance of every user, and of the fund, at the start
    Managers,  \* fund:<id>:managers
    None

Invoice == [uid : Users, tip : Nat, received : Nat]

ASSUME LedgerAssumption ==
    /\ Amounts \subseteq Nat \ {0} /\ Tips \subseteq Nat /\ Start \in Nat
    /\ Managers \subseteq Users
    /\ None \notin Users \cup Invoices \cup Invoice
    /\ "fund" \notin Users

VARIABLES
    balance,        \* balance:<uid>
    fund,           \* fund:<id>
    invoice,        \* invoice:<id>
    authorization,  \* authorization:<id>: "none", "open" or "claimed"
    pc,             \* where a request is
    job,            \* what it is about
    held,           \* the invoice it has read
    due,            \* ghost: what it has debited and not credited yet
    late,           \* ghost: payments whose invoice's tip changed under way
    credited        \* ghost: what was credited for an invoice

vars == <<balance, fund, invoice, authorization, pc, job, held, due, late, credited>>
money == <<balance, fund, due>>

Job == [user : Users \cup {None}, type : {"internal", "fund", "bitcoin", "none"},
        inv : Invoices \cup {None}, amount : Nat, tip : Nat]
NoJob == [user |-> None, type |-> "none", inv |-> None, amount |-> 0, tip |-> 0]

States == {"idle", "paying", "debited", "depositing", "deposited", "claiming",
           "taking", "taken", "sending", "sent", "crediting", "updating", "done"}

TypeOK ==
    /\ balance \in [Users -> Nat]
    /\ fund \in Nat
    /\ invoice \in [Invoices -> Invoice \cup {None}]
    /\ authorization \in {"none", "open", "claimed"}
    /\ pc \in [Requests -> States]
    /\ job \in [Requests -> Job]
    /\ held \in [Requests -> Invoice \cup {None}]
    /\ due \in [Requests -> Nat]
    /\ late \subseteq Requests
    /\ credited \in [Invoices -> Nat]

Init ==
    /\ balance = [u \in Users |-> Start]
    /\ fund = Start
    /\ invoice = [i \in Invoices |-> None]
    /\ authorization = "none"
    /\ pc = [r \in Requests |-> "idle"]
    /\ job = [r \in Requests |-> NoJob]
    /\ held = [r \in Requests |-> None]
    /\ due = [r \in Requests |-> 0]
    /\ late = {}
    /\ credited = [i \in Invoices |-> 0]

-----------------------------------------------------------------------------
(* Helpers *)

Go(r, where) == pc' = [pc EXCEPT ![r] = where]

Begin(r, where, j) ==
    /\ pc[r] = "idle"
    /\ Go(r, where)
    /\ job' = [job EXCEPT ![r] = j]

\* The request is answered, and has nothing in hand.
End(r) ==
    /\ Go(r, "done")
    /\ job' = [job EXCEPT ![r] = NoJob]
    /\ held' = [held EXCEPT ![r] = None]

\* An error ends a request anywhere: a command that fails, with or without its
\* effect, a limit, a lookup that finds nothing.
Throws(r) ==
    /\ pc[r] \notin {"idle", "done"}
    /\ End(r)
    /\ due' = [due EXCEPT ![r] = 0]
    /\ UNCHANGED <<balance, fund, invoice, authorization, credited>>

-----------------------------------------------------------------------------
(* Paying an invoice, and paying into the fund *)

\* debit: "Invoice already paid" is decided on what is read here.
PayReads(r, u, i, a) ==
    /\ invoice[i] # None
    /\ invoice[i].received < a
    /\ Begin(r, "paying", [user |-> u, type |-> "internal", inv |-> i,
                           amount |-> a, tip |-> invoice[i].tip])
    /\ UNCHANGED <<money, invoice, authorization, held, credited>>

DepositReads(r, u, a) ==
    /\ Begin(r, "depositing", [user |-> u, type |-> "fund", inv |-> None,
                               amount |-> a, tip |-> 0])
    /\ UNCHANGED <<money, invoice, authorization, held, credited>>

\* The send route debits under an id of its own, which no invoice has.  Nothing
\* is sent: the answer reads a field of a result that is null, and throws.
SendReads(r, u, a) ==
    /\ Begin(r, "sending", [user |-> u, type |-> "bitcoin", inv |-> None,
                            amount |-> a, tip |-> 0])
    /\ UNCHANGED <<money, invoice, authorization, held, credited>>

Debiting == {"paying", "depositing", "sending"}
Debited(w) == CASE w = "paying" -> "debited" [] w = "depositing" -> "deposited"
                [] w = "sending" -> "sent"

Total(j) == j.amount + j.tip

\* Mutant: the balance is looked at without the tip.
DebitWithoutTip(r) ==
    /\ pc[r] \in Debiting
    /\ balance[job[r].user] >= job[r].amount
    /\ balance' = [balance EXCEPT ![job[r].user] = @ - Total(job[r])]
    /\ due' = [due EXCEPT ![r] = Total(job[r])]
    /\ Go(r, Debited(pc[r]))
    /\ UNCHANGED <<fund, invoice, authorization, job, held, credited>>

\* The script looks at the balance and takes from it in one step.
DebitScript(r) ==
    /\ pc[r] \in Debiting
    /\ balance[job[r].user] >= Total(job[r])
    /\ balance' = [balance EXCEPT ![job[r].user] = @ - Total(job[r])]
    /\ due' = [due EXCEPT ![r] = Total(job[r])]
    /\ Go(r, Debited(pc[r]))
    /\ UNCHANGED <<fund, invoice, authorization, job, held, credited>>

DepositStores(r) ==
    /\ pc[r] = "deposited"
    /\ fund' = fund + job[r].amount
    /\ due' = [due EXCEPT ![r] = 0]
    /\ End(r)
    /\ UNCHANGED <<balance, invoice, authorization, credited>>

\* Mutant: the invoice is marked before the MULTI, which marks it again.
CreditReadsAndMarks(r) ==
    /\ pc[r] \in {"debited", "taken"}
    /\ LET inv == invoice[job[r].inv] IN
       /\ inv # None
       /\ held' = [held EXCEPT ![r] = inv]
       /\ invoice' = [invoice EXCEPT ![job[r].inv].received = @ + job[r].amount]
    /\ Go(r, "crediting")
    /\ UNCHANGED <<money, authorization, job, credited>>

\* credit reads the invoice again; without one the money is nobody's.
CreditReads(r) ==
    /\ pc[r] \in {"debited", "taken"}
    /\ LET inv == invoice[job[r].inv] IN
       \/ /\ inv # None
          /\ held' = [held EXCEPT ![r] = inv]
          /\ Go(r, "crediting")
          /\ UNCHANGED <<job, due>>
       \/ /\ inv = None
          /\ End(r)
          /\ due' = [due EXCEPT ![r] = 0]
    /\ UNCHANGED <<balance, fund, invoice, authorization, credited>>

\* Mutant: a fund credits the tip of the invoice as well.
CreditAlwaysTips(j, inv) == j.amount + inv.tip

\* The tip is added for payments; a fund pays to whoever takes.
Credit(j, inv) == j.amount + (IF j.type = "internal" THEN inv.tip ELSE 0)
Payee(j, inv) == IF j.type = "internal" THEN inv.uid ELSE j.user

\* One MULTI: the invoice as it was read, and the balance.
CreditStores(r) ==
    /\ pc[r] = "crediting"
    /\ LET inv == held[r]
           sum == Credit(job[r], inv)
       IN /\ invoice' = [invoice EXCEPT ![job[r].inv] = [inv EXCEPT !.received = @ + sum]]
          /\ balance' = [balance EXCEPT ![Payee(job[r], inv)] = @ + sum]
          /\ credited' = [credited EXCEPT ![job[r].inv] = @ + sum]
    /\ due' = [due EXCEPT ![r] = 0]
    /\ End(r)
    /\ UNCHANGED <<fund, authorization>>

-----------------------------------------------------------------------------
(* Taking from the fund *)

Unmanaged(u) == Managers # {} /\ u \notin Managers

Authorize(u) ==
    /\ ~Unmanaged(u)
    /\ authorization' = "open"
    /\ UNCHANGED <<money, invoice, pc, job, held, credited>>

\* Nobody looks whether there is such an invoice.
TakeReads(r, u, i, a) ==
    /\ \/ authorization = "open" /\ Begin(r, "claiming", NoJob)
       \/ /\ authorization # "open" /\ ~Unmanaged(u)
          /\ Begin(r, "taking", [user |-> u, type |-> "fund", inv |-> i,
                                 amount |-> a, tip |-> 0])
    /\ UNCHANGED <<money, invoice, authorization, held, credited>>

\* An open authorization is claimed; then generate is asked for an invoice of
\* type lightning, and refuses.
TakeClaims(r) ==
    /\ pc[r] = "claiming"
    /\ authorization' = "claimed" \/ UNCHANGED authorization
    /\ End(r)
    /\ UNCHANGED <<money, invoice, credited>>

\* The script again, on the key of the fund.
FundDebit(r) ==
    /\ pc[r] = "taking"
    /\ fund >= job[r].amount
    /\ fund' = fund - job[r].amount
    /\ due' = [due EXCEPT ![r] = job[r].amount]
    /\ Go(r, "taken")
    /\ UNCHANGED <<balance, invoice, authorization, job, held, credited>>

-----------------------------------------------------------------------------
(* Invoices *)

\* generate, for the only type it accepts.
Generate(i, u, t) ==
    /\ invoice[i] = None
    /\ invoice' = [invoice EXCEPT ![i] = [uid |-> u, tip |-> t, received |-> 0]]
    /\ UNCHANGED <<money, authorization, pc, job, held, credited>>

UpdateReads(r, i) ==
    /\ invoice[i] # None
    /\ Begin(r, "updating", [NoJob EXCEPT !.inv = i])
    /\ held' = [held EXCEPT ![r] = invoice[i]]
    /\ UNCHANGED <<money, invoice, authorization, credited>>

\* The invoice is written whole, as it was read, or the failure is swallowed.
UpdateStores(r, t) ==
    /\ pc[r] = "updating"
    /\ t > 0
    /\ \/ invoice' = [invoice EXCEPT ![job[r].inv] = [held[r] EXCEPT !.tip = t]]
       \/ UNCHANGED invoice
    /\ End(r)
    /\ UNCHANGED <<money, authorization, credited>>

-----------------------------------------------------------------------------

Begins(r) ==
    \/ \E u \in Users, a \in Amounts :
         \/ DepositReads(r, u, a) \/ SendReads(r, u, a)
         \/ \E i \in Invoices : PayReads(r, u, i, a) \/ TakeReads(r, u, i, a)
    \/ \E i \in Invoices : UpdateReads(r, i)

Continues(r) ==
    \/ DebitScript(r) \/ DepositStores(r) \/ CreditReads(r) \/ CreditStores(r)
    \/ TakeClaims(r) \/ FundDebit(r) \/ Throws(r)
    \/ \E t \in Tips : UpdateStores(r, t)

\* A tip changes under a payment that has yet to read the invoice again.
Retipped ==
    {r \in Requests : /\ pc[r] \in {"paying", "debited"}
                      /\ invoice'[job[r].inv].tip # invoice[job[r].inv].tip}

Next ==
    /\ \/ \E r \in Requests : Begins(r) \/ Continues(r)
       \/ \E u \in Users : Authorize(u)
       \/ \E i \in Invoices, u \in Users, t \in Tips : Generate(i, u, t)
    /\ late' = (late \cup Retipped) \ {r \in Requests : pc'[r] = "done"}

Spec == Init /\ [][Next]_vars

-----------------------------------------------------------------------------
(* Properties *)

\* The handlers, interleaved and failing anywhere, only move money or lose it:
\* none debits more than there is, and each credits just what it has debited,
\* once.  Only a payment whose invoice was given another tip under way credits
\* its amount and that tip.
Pots == Users \cup {"fund"}
PotsNow == [p \in Pots |-> IF p \in Users THEN balance[p] ELSE fund]

\* What a request that is about to credit will credit.
WillCredit ==
    [r \in Requests |-> IF pc[r] = "crediting" THEN Credit(job[r], held[r]) ELSE due[r]]

Money == INSTANCE Transfers WITH Pots <- Pots, Hands <- Requests,
                                 pot <- PotsNow, hand <- due,
                                 says <- WillCredit, amended <- late
MoneyOnlyMoves == Money!Spec

\* No payment credits anything but what it has debited, tip or no tip.
CreditsTheDebit ==
    [][\A r \in Requests :
         pc[r] = "crediting" /\ credited' # credited /\ pc'[r] = "done"
             => Credit(job[r], held[r]) = due[r]]_vars

\* Overlapping payments and tips overwrite each other's invoice, but an
\* invoice never claims to have received more than was credited for it.
ReceivedIsBacked ==
    \A i \in Invoices : invoice[i] # None => invoice[i].received <= credited[i]

\* "Invoice already paid": no payment of an invoice is debited once as much
\* has been received.
InvoicePaidOnce ==
    [][\A r \in Requests :
         pc[r] = "paying" /\ pc'[r] = "debited"
             => invoice[job[r].inv].received < job[r].amount]_vars
=============================================================================
