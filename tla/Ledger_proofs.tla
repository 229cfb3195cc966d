--------------------------- MODULE Ledger_proofs ---------------------------
(***************************************************************************)
(* What holds of the ledger for any users, invoices, amounts and number of *)
(* requests; and that it implements Transfers.                             *)
(***************************************************************************)
EXTENDS Ledger, TLAPS

\* The types of all but the ghost late, which no handler looks at.
Typed ==
    /\ balance \in [Users -> Nat]
    /\ fund \in Nat
    /\ invoice \in [Invoices -> Invoice \cup {None}]
    /\ authorization \in {"none", "open", "claimed"}
    /\ pc \in [Requests -> States]
    /\ job \in [Requests -> Job]
    /\ held \in [Requests -> Invoice \cup {None}]
    /\ due \in [Requests -> Nat]
    /\ credited \in [Invoices -> Nat]

\* What a request in state w has in hand, its job j and invoice h, given the
\* invoices and what was credited for them.
Holds(w, j, h, invs, creds) ==
    /\ w \in {"paying", "debited", "crediting", "updating"} =>
         j.inv \in Invoices /\ invs[j.inv] # None
    /\ w \in {"paying", "debited"} => j.type = "internal" /\ j.user \in Users
    /\ w \in {"depositing", "deposited"} =>
         j.type = "fund" /\ j.user \in Users /\ j.tip = 0
    /\ w \in {"sending", "sent"} => j.user \in Users
    /\ w \in {"taking", "taken"} =>
         j.type = "fund" /\ j.user \in Users /\ j.inv \in Invoices
    /\ w = "crediting" => j.user \in Users
    /\ w \in {"crediting", "updating"} => h # None /\ h.received <= creds[j.inv]

InHand == \A r \in Requests : Holds(pc[r], job[r], held[r], invoice, credited)

\* The inductive invariant.
LedgerInv == Typed /\ InHand /\ ReceivedIsBacked

TypedBooks ==
    /\ balance \in [Users -> Nat]
    /\ fund \in Nat
    /\ invoice \in [Invoices -> Invoice \cup {None}]
    /\ authorization \in {"none", "open", "claimed"}
    /\ credited \in [Invoices -> Nat]

\* Request r is now in state w with a job, an invoice and a debt.
Moves(r, w, j, h, d) ==
    /\ pc' = [pc EXCEPT ![r] = w]
    /\ job' = [job EXCEPT ![r] = j]
    /\ held' = [held EXCEPT ![r] = h]
    /\ due' = [due EXCEPT ![r] = d]

\* No invoice goes, and credits only grow.
BooksGrow ==
    /\ \A i \in Invoices : invoice[i] # None => invoice'[i] # None
    /\ \A i \in Invoices : credited[i] <= credited'[i]

\* What the invariant says of one request.
LEMMA HandOf ==
    ASSUME LedgerInv, NEW r \in Requests
    PROVE  /\ Holds(pc[r], job[r], held[r], invoice, credited)
           /\ pc[r] \in States /\ job[r] \in Job /\ due[r] \in Nat
           /\ held[r] \in Invoice \cup {None}
           /\ TypedBooks
BY DEF LedgerInv, InHand, Typed, TypedBooks

\* A request that moves on with a hand that fits its new state keeps the
\* hands of all good, as long as the books only grow.
LEMMA HandsStayGood ==
    ASSUME LedgerInv, NEW r \in Requests, NEW w \in States, NEW j \in Job,
           NEW h \in Invoice \cup {None}, NEW d \in Nat,
           Moves(r, w, j, h, d), TypedBooks', BooksGrow,
           Holds(w, j, h, invoice', credited')
    PROVE  Typed' /\ InHand'
<1>1. Typed'
  BY DEF LedgerInv, Typed, TypedBooks, Moves
<1>2. ASSUME NEW q \in Requests
      PROVE  Holds(pc'[q], job'[q], held'[q], invoice', credited')
  <2>1. CASE q = r
    <3>1. pc'[q] = w /\ job'[q] = j /\ held'[q] = h
      BY <2>1 DEF LedgerInv, Typed, Moves
    <3>2. QED
      BY <3>1
  <2>2. CASE q # r
    <3>1. pc'[q] = pc[q] /\ job'[q] = job[q] /\ held'[q] = held[q]
      BY <2>2 DEF LedgerInv, Typed, Moves
    <3>2. Holds(pc[q], job[q], held[q], invoice, credited)
      BY DEF LedgerInv, InHand
    <3>3. held[q] # None => held[q].received \in Nat
      BY DEF LedgerInv, Typed, Invoice
    <3>4. Holds(pc[q], job[q], held[q], invoice', credited')
      BY <3>2, <3>3 DEF Holds, BooksGrow, LedgerInv, Typed, TypedBooks
    <3>5. QED
      BY <3>1, <3>4
  <2>3. QED
    BY <2>1, <2>2
<1>3. QED
  BY <1>1, <1>2 DEF InHand

\* A step that leaves invoices and credits alone.
LEMMA MovingOnIsGood ==
    ASSUME LedgerInv, NEW r \in Requests, NEW w \in States, NEW j \in Job,
           NEW h \in Invoice \cup {None}, NEW d \in Nat,
           Moves(r, w, j, h, d), TypedBooks', UNCHANGED <<invoice, credited>>,
           Holds(w, j, h, invoice, credited)
    PROVE  LedgerInv'
<1>1. BooksGrow
  BY DEF BooksGrow, LedgerInv, Typed
<1>2. Holds(w, j, h, invoice', credited')
  BY DEF Holds
<1>3. Typed' /\ InHand'
  BY <1>1, <1>2, HandsStayGood
<1>4. ReceivedIsBacked'
  BY DEF LedgerInv, ReceivedIsBacked
<1>5. QED
  BY <1>3, <1>4 DEF LedgerInv

LEMMA NoJobIsJob == NoJob \in Job
BY DEF NoJob, Job

\* Ending, with the books well typed and only grown.
LEMMA EndMoves ==
    ASSUME LedgerInv, NEW r \in Requests, End(r), due' = [due EXCEPT ![r] = 0]
    PROVE  Moves(r, "done", NoJob, None, 0)
BY DEF End, Go, Moves

LEMMA DoneHolds ==
    ASSUME NEW invs, NEW creds
    PROVE  Holds("done", NoJob, None, invs, creds) /\ "done" \in States
BY DEF Holds, States

LEMMA Initially == Init => LedgerInv
<1> SUFFICES ASSUME Init PROVE LedgerInv
  OBVIOUS
<1>1. Typed
  BY NoJobIsJob, LedgerAssumption DEF Init, Typed, States
<1>2. InHand
  BY DEF Init, InHand, Holds
<1>3. ReceivedIsBacked
  BY DEF Init, ReceivedIsBacked
<1>4. QED
  BY <1>1, <1>2, <1>3 DEF LedgerInv

\* Requests that start.
LEMMA Beginnings == ASSUME LedgerInv, NEW r \in Requests, Begins(r) PROVE LedgerInv'
<1>1. ASSUME NEW u \in Users, NEW a \in Amounts, DepositReads(r, u, a)
      PROVE  LedgerInv'
  <2> DEFINE j == [user |-> u, type |-> "fund", inv |-> None, amount |-> a, tip |-> 0]
  <2>1. j \in Job
    BY LedgerAssumption DEF Job
  <2>2. Moves(r, "depositing", j, held[r], due[r])
    BY <1>1 DEF DepositReads, Begin, Go, Moves, money, LedgerInv, Typed
  <2>3. Holds("depositing", j, held[r], invoice, credited)
    BY DEF Holds
  <2>4. TypedBooks' /\ UNCHANGED <<invoice, credited>>
    BY <1>1, HandOf DEF DepositReads, TypedBooks, money
  <2>5. QED
    BY <2>1, <2>2, <2>3, <2>4, HandOf, MovingOnIsGood DEF States
<1>2. ASSUME NEW u \in Users, NEW a \in Amounts, NEW i \in Invoices, PayReads(r, u, i, a)
      PROVE  LedgerInv'
  <2> DEFINE j == [user |-> u, type |-> "internal", inv |-> i,
                   amount |-> a, tip |-> invoice[i].tip]
  <2>1. invoice[i] \in Invoice
    BY <1>2 DEF PayReads, LedgerInv, Typed
  <2>2. j \in Job
    BY <2>1, LedgerAssumption DEF Job, Invoice
  <2>3. Moves(r, "paying", j, held[r], due[r])
    BY <1>2 DEF PayReads, Begin, Go, Moves, money, LedgerInv, Typed
  <2>4. Holds("paying", j, held[r], invoice, credited)
    BY <1>2 DEF Holds, PayReads
  <2>5. TypedBooks' /\ UNCHANGED <<invoice, credited>>
    BY <1>2, HandOf DEF PayReads, TypedBooks, money
  <2>6. QED
    BY <2>2, <2>3, <2>4, <2>5, HandOf, MovingOnIsGood DEF States
<1>3. ASSUME NEW u \in Users, NEW a \in Amounts, NEW i \in Invoices, TakeReads(r, u, i, a)
      PROVE  LedgerInv'
  <2> DEFINE j == [user |-> u, type |-> "fund", inv |-> i, amount |-> a, tip |-> 0]
  <2>1. j \in Job
    BY LedgerAssumption DEF Job
  <2>2. TypedBooks' /\ UNCHANGED <<invoice, credited>>
    BY <1>3, HandOf DEF TakeReads, TypedBooks, money
  <2>3. CASE Begin(r, "claiming", NoJob)
    <3>1. Moves(r, "claiming", NoJob, held[r], due[r])
      BY <1>3, <2>3 DEF TakeReads, Begin, Go, Moves, money, LedgerInv, Typed
    <3>2. Holds("claiming", NoJob, held[r], invoice, credited)
      BY DEF Holds
    <3>3. QED
      BY <2>2, <3>1, <3>2, NoJobIsJob, HandOf, MovingOnIsGood DEF States
  <2>4. CASE Begin(r, "taking", j)
    <3>1. Moves(r, "taking", j, held[r], due[r])
      BY <1>3, <2>4 DEF TakeReads, Begin, Go, Moves, money, LedgerInv, Typed
    <3>2. Holds("taking", j, held[r], invoice, credited)
      BY DEF Holds
    <3>3. QED
      BY <2>1, <2>2, <3>1, <3>2, HandOf, MovingOnIsGood DEF States
  <2>5. QED
    BY <1>3, <2>3, <2>4 DEF TakeReads
<1>4. ASSUME NEW i \in Invoices, UpdateReads(r, i)
      PROVE  LedgerInv'
  <2> DEFINE j == [NoJob EXCEPT !.inv = i]
  <2>1. invoice[i] \in Invoice /\ invoice[i] # None
    BY <1>4 DEF UpdateReads, LedgerInv, Typed
  <2>2. j \in Job /\ j.inv = i
    BY DEF Job, NoJob
  <2>3. Moves(r, "updating", j, invoice[i], due[r])
    BY <1>4 DEF UpdateReads, Begin, Go, Moves, money, LedgerInv, Typed
  <2>4. invoice[i].received <= credited[i]
    BY <2>1 DEF LedgerInv, ReceivedIsBacked
  <2> HIDE DEF j
  <2>5. Holds("updating", j, invoice[i], invoice, credited)
    BY <2>1, <2>2, <2>4 DEF Holds
  <2>6. TypedBooks' /\ UNCHANGED <<invoice, credited>>
    BY <1>4, HandOf DEF UpdateReads, TypedBooks, money
  <2>7. QED
    BY <2>1, <2>2, <2>3, <2>5, <2>6, HandOf, MovingOnIsGood DEF States
<1>5. ASSUME NEW u \in Users, NEW a \in Amounts, SendReads(r, u, a)
      PROVE  LedgerInv'
  <2> DEFINE j == [user |-> u, type |-> "bitcoin", inv |-> None, amount |-> a, tip |-> 0]
  <2>1. j \in Job
    BY LedgerAssumption DEF Job
  <2>2. Moves(r, "sending", j, held[r], due[r])
    BY <1>5 DEF SendReads, Begin, Go, Moves, money, LedgerInv, Typed
  <2>3. Holds("sending", j, held[r], invoice, credited)
    BY DEF Holds
  <2>4. TypedBooks' /\ UNCHANGED <<invoice, credited>>
    BY <1>5, HandOf DEF SendReads, TypedBooks, money
  <2>5. QED
    BY <2>1, <2>2, <2>3, <2>4, HandOf, MovingOnIsGood DEF States
<1>6. QED
  BY <1>1, <1>2, <1>3, <1>4, <1>5 DEF Begins

\* The scripts that debit.
LEMMA Debits ==
    ASSUME LedgerInv, NEW r \in Requests, DebitScript(r) \/ FundDebit(r)
    PROVE  LedgerInv'
<1>1. /\ Holds(pc[r], job[r], held[r], invoice, credited)
      /\ job[r] \in Job /\ held[r] \in Invoice \cup {None} /\ TypedBooks
  BY HandOf
<1>2. CASE DebitScript(r)
  <2> DEFINE w == Debited(pc[r])
             u == job[r].user
  <2>1. Total(job[r]) \in Nat
    BY <1>1 DEF Total, Job
  <2>2. u \in Users
    BY <1>1, <1>2 DEF Holds, DebitScript, Debiting
  <2>3. Moves(r, w, job[r], held[r], Total(job[r])) /\ w \in States
    BY <1>2 DEF DebitScript, Go, Moves, LedgerInv, Typed, States, Debited, Debiting
  <2>4. Holds(w, job[r], held[r], invoice, credited)
    BY <1>1, <1>2 DEF Holds, DebitScript, Debiting, Debited
  <2>5. balance[u] - Total(job[r]) \in Nat
    BY <1>1, <1>2, <2>1, <2>2 DEF DebitScript, TypedBooks
  <2>6. balance' \in [Users -> Nat]
    BY <1>1, <1>2, <2>2, <2>5 DEF DebitScript, TypedBooks
  <2>7. TypedBooks' /\ UNCHANGED <<invoice, credited>>
    BY <1>1, <1>2, <2>6 DEF DebitScript, TypedBooks
  <2> HIDE DEF w, u
  <2>8. QED
    BY <1>1, <2>1, <2>3, <2>4, <2>7, MovingOnIsGood
<1>3. CASE FundDebit(r)
  <2>1. job[r].amount \in Nat
    BY <1>1 DEF Job
  <2>2. Moves(r, "taken", job[r], held[r], job[r].amount)
    BY <1>3 DEF FundDebit, Go, Moves, LedgerInv, Typed
  <2>3. Holds("taken", job[r], held[r], invoice, credited)
    BY <1>1, <1>3 DEF Holds, FundDebit
  <2>4. TypedBooks' /\ UNCHANGED <<invoice, credited>>
    BY <1>1, <1>3, <2>1 DEF FundDebit, TypedBooks
  <2>5. QED
    BY <1>1, <2>1, <2>2, <2>3, <2>4, MovingOnIsGood DEF States
<1>4. QED
  BY <1>2, <1>3

\* Answers and errors that leave invoices and credits alone.
LEMMA Answers ==
    ASSUME LedgerInv, NEW r \in Requests,
           End(r), due' = [due EXCEPT ![r] = 0], TypedBooks',
           UNCHANGED <<invoice, credited>>
    PROVE  LedgerInv'
<1>1. Moves(r, "done", NoJob, None, 0)
  BY EndMoves
<1>2. None \in Invoice \cup {None} /\ 0 \in Nat
  OBVIOUS
<1>3. QED
  BY <1>1, <1>2, NoJobIsJob, DoneHolds, MovingOnIsGood

\* Requests that end, or read the invoice to be credited.
LEMMA Endings ==
    ASSUME LedgerInv, NEW r \in Requests,
           Throws(r) \/ DepositStores(r) \/ CreditReads(r) \/ TakeClaims(r)
    PROVE  LedgerInv'
<1>1. /\ Holds(pc[r], job[r], held[r], invoice, credited)
      /\ job[r] \in Job /\ due[r] \in Nat /\ TypedBooks
  BY HandOf
<1>2. CASE Throws(r)
  BY <1>1, <1>2, Answers DEF Throws, TypedBooks
<1>3. CASE DepositStores(r)
  <2>1. fund' \in Nat
    BY <1>1, <1>3 DEF DepositStores, TypedBooks, Job
  <2>2. QED
    BY <1>1, <1>3, <2>1, Answers DEF DepositStores, TypedBooks
<1>4. CASE CreditReads(r)
  <2> DEFINE inv == invoice[job[r].inv]
  <2>1. TypedBooks' /\ UNCHANGED <<invoice, credited>>
    BY <1>1, <1>4 DEF CreditReads, TypedBooks
  <2>2. CASE inv = None
    BY <1>4, <2>1, <2>2, Answers DEF CreditReads
  <2>3. CASE inv # None
    <3>1. job[r].inv \in Invoices /\ job[r].user \in Users
      BY <1>1, <1>4 DEF CreditReads, Holds
    <3>2. inv \in Invoice /\ inv.received <= credited[job[r].inv]
      BY <1>1, <2>3, <3>1 DEF TypedBooks, LedgerInv, ReceivedIsBacked
    <3>3. Moves(r, "crediting", job[r], inv, due[r])
      BY <1>4, <2>3 DEF CreditReads, Go, Moves, LedgerInv, Typed
    <3>4. Holds("crediting", job[r], inv, invoice, credited)
      BY <2>3, <3>1, <3>2 DEF Holds
    <3> HIDE DEF inv
    <3>5. QED
      BY <1>1, <2>1, <3>2, <3>3, <3>4, MovingOnIsGood DEF States
  <2>4. QED
    BY <2>2, <2>3
<1>5. CASE TakeClaims(r)
  <2>1. pc[r] = "claiming" /\ End(r) /\ due' = due /\ TypedBooks'
        /\ UNCHANGED <<invoice, credited>>
    BY <1>1, <1>5 DEF TakeClaims, TypedBooks, money
  <2>2. Moves(r, "done", NoJob, None, due[r])
    BY <2>1 DEF End, Go, Moves, LedgerInv, Typed
  <2>3. QED
    BY <1>1, <2>1, <2>2, NoJobIsJob, DoneHolds, MovingOnIsGood
<1>6. QED
  BY <1>2, <1>3, <1>4, <1>5

\* The credit: what it claims to have received, it has credited.
LEMMA Credits ==
    ASSUME LedgerInv, NEW r \in Requests, CreditStores(r)
    PROVE  LedgerInv'
<1> DEFINE i == job[r].inv
           inv == held[r]
           sum == Credit(job[r], inv)
           to == Payee(job[r], inv)
<1>1. /\ i \in Invoices /\ invoice[i] # None /\ job[r].user \in Users
      /\ inv \in Invoice /\ inv.received <= credited[i]
      /\ job[r] \in Job /\ TypedBooks
  BY HandOf DEF CreditStores, Holds
<1>2. inv.tip \in Nat /\ inv.received \in Nat /\ inv.uid \in Users
  BY <1>1 DEF Invoice
<1>3. sum \in Nat /\ to \in Users
  BY <1>1, <1>2 DEF Credit, Payee, Job
<1>4. /\ invoice' = [invoice EXCEPT ![i] = [inv EXCEPT !.received = @ + sum]]
      /\ balance' = [balance EXCEPT ![to] = @ + sum]
      /\ credited' = [credited EXCEPT ![i] = @ + sum]
      /\ UNCHANGED <<fund, authorization>>
      /\ Moves(r, "done", NoJob, None, 0)
  BY EndMoves DEF CreditStores
<1> DEFINE paid == [inv EXCEPT !.received = @ + sum]
<1>5. paid \in Invoice /\ paid.received = inv.received + sum /\ paid # None
  BY <1>1, <1>2, <1>3, LedgerAssumption DEF Invoice
<1> HIDE DEF i, inv, sum, to
<1>6. TypedBooks'
  <2>1. balance' \in [Users -> Nat] /\ credited' \in [Invoices -> Nat]
    BY <1>1, <1>3, <1>4 DEF TypedBooks
  <2>2. invoice' \in [Invoices -> Invoice \cup {None}]
    BY <1>1, <1>4, <1>5 DEF TypedBooks
  <2>3. QED
    BY <1>1, <1>4, <2>1, <2>2 DEF TypedBooks
<1>7. BooksGrow
  BY <1>1, <1>3, <1>4, <1>5 DEF BooksGrow, TypedBooks
<1>8. Typed' /\ InHand'
  BY <1>4, <1>6, <1>7, NoJobIsJob, DoneHolds, HandsStayGood
<1>9. ReceivedIsBacked'
  <2> SUFFICES ASSUME NEW k \in Invoices, invoice'[k] # None
               PROVE  invoice'[k].received <= credited'[k]
    BY DEF ReceivedIsBacked
  <2>1. CASE k = i
    <3>1. invoice'[k] = paid /\ credited'[k] = credited[i] + sum
      BY <1>1, <1>4, <2>1 DEF TypedBooks
    <3>2. credited[i] \in Nat
      BY <1>1 DEF TypedBooks
    <3> HIDE DEF paid
    <3>3. QED
      BY <1>1, <1>2, <1>3, <1>5, <3>1, <3>2 DEF inv
  <2>2. CASE k # i
    <3>1. invoice'[k] = invoice[k] /\ credited'[k] = credited[k]
      BY <1>4, <1>1, <2>2 DEF TypedBooks
    <3>2. QED
      BY <3>1 DEF LedgerInv, ReceivedIsBacked
  <2>3. QED
    BY <2>1, <2>2
<1>10. QED
  BY <1>8, <1>9 DEF LedgerInv

\* A tip is set on the invoice as it was read, which is no more than was
\* credited since.
LEMMA Updates ==
    ASSUME LedgerInv, NEW r \in Requests, NEW t \in Tips, UpdateStores(r, t)
    PROVE  LedgerInv'
<1> DEFINE i == job[r].inv
           told == [held[r] EXCEPT !.tip = t]
<1>1. /\ i \in Invoices /\ held[r] \in Invoice /\ held[r].received <= credited[i]
      /\ due[r] \in Nat /\ TypedBooks
  BY HandOf DEF UpdateStores, Holds
<1>2. told \in Invoice /\ told # None /\ told.received = held[r].received
  BY <1>1, LedgerAssumption DEF Invoice
<1>3. /\ invoice' = [invoice EXCEPT ![i] = told] \/ invoice' = invoice
      /\ End(r)
      /\ UNCHANGED <<balance, fund, due, authorization, credited>>
  BY DEF UpdateStores, money
<1> HIDE DEF i, told
<1>4. TypedBooks' /\ BooksGrow
  BY <1>1, <1>2, <1>3 DEF TypedBooks, BooksGrow
<1>5. Moves(r, "done", NoJob, None, due[r])
  BY <1>3 DEF End, Go, Moves, LedgerInv, Typed
<1>6. Typed' /\ InHand'
  BY <1>1, <1>4, <1>5, NoJobIsJob, DoneHolds, HandsStayGood
<1>7. ReceivedIsBacked'
  BY <1>1, <1>2, <1>3 DEF LedgerInv, ReceivedIsBacked, TypedBooks
<1>8. QED
  BY <1>6, <1>7 DEF LedgerInv

\* Steps that move no request.
LEMMA NobodyMoves ==
    ASSUME LedgerInv, UNCHANGED <<pc, job, held, due>>, TypedBooks', BooksGrow,
           ReceivedIsBacked'
    PROVE  LedgerInv'
<1>1. Typed'
  BY DEF LedgerInv, Typed, TypedBooks
<1>2. ASSUME NEW q \in Requests
      PROVE  Holds(pc'[q], job'[q], held'[q], invoice', credited')
  <2>1. Holds(pc[q], job[q], held[q], invoice, credited)
        /\ (held[q] # None => held[q].received \in Nat)
    BY DEF LedgerInv, InHand, Typed, Invoice
  <2>2. Holds(pc[q], job[q], held[q], invoice', credited')
    BY <2>1 DEF Holds, BooksGrow, LedgerInv, Typed, TypedBooks
  <2>3. QED
    BY <2>2
<1>3. QED
  BY <1>1, <1>2 DEF LedgerInv, InHand

\* A new invoice has received nothing.
LEMMA Generated ==
    ASSUME LedgerInv, NEW i \in Invoices, NEW u \in Users, NEW t \in Tips,
           Generate(i, u, t)
    PROVE  LedgerInv'
<1> DEFINE new == [uid |-> u, tip |-> t, received |-> 0]
<1>1. new \in Invoice /\ new.received = 0 /\ new # None
  BY LedgerAssumption DEF Invoice
<1>2. /\ invoice[i] = None
      /\ invoice' = [invoice EXCEPT ![i] = new]
      /\ UNCHANGED <<balance, fund, due, authorization, pc, job, held, credited>>
  BY DEF Generate, money
<1> HIDE DEF new
<1>3. TypedBooks' /\ BooksGrow
  BY <1>1, <1>2 DEF LedgerInv, Typed, TypedBooks, BooksGrow
<1>4. ReceivedIsBacked'
  BY <1>1, <1>2 DEF LedgerInv, ReceivedIsBacked, Typed
<1>5. QED
  BY <1>2, <1>3, <1>4, NobodyMoves

LEMMA Authorized ==
    ASSUME LedgerInv, (\E u \in Users : Authorize(u)) \/ UNCHANGED vars
    PROVE  LedgerInv'
<1>1. /\ UNCHANGED <<balance, fund, due, invoice, pc, job, held, credited>>
      /\ authorization' = "open" \/ UNCHANGED authorization
  BY DEF Authorize, money, vars
<1>2. TypedBooks' /\ BooksGrow
  BY <1>1 DEF LedgerInv, Typed, TypedBooks, BooksGrow
<1>3. ReceivedIsBacked'
  BY <1>1 DEF LedgerInv, ReceivedIsBacked
<1>4. QED
  BY <1>1, <1>2, <1>3, NobodyMoves

LEMMA Step == LedgerInv /\ [Next]_vars => LedgerInv'
<1> SUFFICES ASSUME LedgerInv, [Next]_vars PROVE LedgerInv'
  OBVIOUS
<1>1. ASSUME NEW r \in Requests, Begins(r) PROVE LedgerInv'
  BY <1>1, Beginnings
<1>2. ASSUME NEW r \in Requests, Continues(r) PROVE LedgerInv'
  <2>1. CASE DebitScript(r) \/ FundDebit(r)
    BY <2>1, Debits
  <2>2. CASE Throws(r) \/ DepositStores(r) \/ CreditReads(r) \/ TakeClaims(r)
    BY <2>2, Endings
  <2>3. CASE CreditStores(r)
    BY <2>3, Credits
  <2>4. CASE \E t \in Tips : UpdateStores(r, t)
    BY <2>4, Updates
  <2>5. QED
    BY <1>2, <2>1, <2>2, <2>3, <2>4 DEF Continues
<1>3. ASSUME NEW u \in Users, Authorize(u) PROVE LedgerInv'
  BY <1>3, Authorized
<1>4. ASSUME NEW i \in Invoices, NEW u \in Users, NEW t \in Tips, Generate(i, u, t)
      PROVE  LedgerInv'
  BY <1>4, Generated
<1>5. CASE UNCHANGED vars
  BY <1>5, Authorized
<1>6. QED
  BY <1>1, <1>2, <1>3, <1>4, <1>5 DEF Next

\* In every behaviour the invariant holds.
LEMMA Invariance == Spec => []LedgerInv
<1>1. QED
  BY Initially, Step, PTL DEF Spec

\* No balance, and no fund, is ever below zero, however requests overlap and
\* fail.
THEOREM TypeCorrect == Spec => []TypeOK
<1>1. Init => late \subseteq Requests
  BY DEF Init
<1>2. late \subseteq Requests /\ [Next]_vars => (late \subseteq Requests)'
  BY DEF Next, vars, Retipped
<1>3. LedgerInv /\ late \subseteq Requests => TypeOK
  BY DEF LedgerInv, Typed, TypeOK
<1>4. QED
  BY <1>1, <1>2, <1>3, Invariance, PTL DEF Spec

\* No invoice claims to have received more than was credited for it, whoever
\* overwrites what.
THEOREM ReceivedBacked == Spec => []ReceivedIsBacked
<1>1. LedgerInv => ReceivedIsBacked
  BY DEF LedgerInv
<1>2. QED
  BY <1>1, Invariance, PTL

-----------------------------------------------------------------------------
(* Ledger implements Transfers. *)

\* What a request in state w owes; l tells whether it is late.
Owes(w, j, h, d, invs, l) ==
    /\ w \in {"idle", "paying", "depositing", "claiming", "taking", "sending", "updating",
              "done"} => d = 0
    /\ w \in {"paying", "depositing", "taking", "sending"} => j.amount > 0
    /\ w \in {"paying", "debited"} /\ ~l => j.tip = invs[j.inv].tip
    /\ w \in {"debited", "deposited"} => d = Total(j)
    /\ w = "taken" => d = j.amount
    /\ w = "crediting" /\ ~l => d = Credit(j, h)

Debts == \A r \in Requests : Owes(pc[r], job[r], held[r], due[r], invoice, r \in late)

\* Every step remembers whose tip it changes.
Remembers == late' = (late \cup Retipped) \ {r \in Requests : pc'[r] = "done"}

Implements == [Money!Next]_<<PotsNow, due>>

\* A request that moves on leaves the debts of the others as they are.
LEMMA DebtsStay ==
    ASSUME LedgerInv, Debts, Remembers, NEW r \in Requests,
           NEW w, NEW j, NEW h, NEW d, Moves(r, w, j, h, d),
           Owes(w, j, h, d, invoice', r \in late')
    PROVE  Debts'
<1> SUFFICES ASSUME NEW q \in Requests
             PROVE  Owes(pc'[q], job'[q], held'[q], due'[q], invoice', q \in late')
  BY DEF Debts
<1>1. CASE q = r
  <2>1. pc'[q] = w /\ job'[q] = j /\ held'[q] = h /\ due'[q] = d
    BY <1>1 DEF LedgerInv, Typed, Moves
  <2>2. Owes(w, j, h, d, invoice', q \in late')
    BY <1>1
  <2>3. QED
    BY <2>1, <2>2
<1>2. CASE q # r
  <2>1. pc'[q] = pc[q] /\ job'[q] = job[q] /\ held'[q] = held[q] /\ due'[q] = due[q]
    BY <1>2 DEF LedgerInv, Typed, Moves
  <2>2. Owes(pc[q], job[q], held[q], due[q], invoice, q \in late)
        /\ Holds(pc[q], job[q], held[q], invoice, credited)
    BY DEF Debts, LedgerInv, InHand
  <2>3. q \notin late' =>
          \/ pc[q] = "done"
          \/ /\ q \notin late
             /\ pc[q] \in {"paying", "debited"} =>
                  invoice'[job[q].inv].tip = invoice[job[q].inv].tip
    BY <2>1 DEF Remembers, Retipped
  <2>4. Owes(pc[q], job[q], held[q], due[q], invoice', q \in late')
    BY <2>2, <2>3 DEF Owes
  <2>5. QED
    BY <2>1, <2>4
<1>3. QED
  BY <1>1, <1>2

\* Steps that move no request.
LEMMA DebtsRest ==
    ASSUME LedgerInv, Debts, Remembers, UNCHANGED <<pc, job, held, due>>
    PROVE  Debts'
<1> SUFFICES ASSUME NEW q \in Requests
             PROVE  Owes(pc'[q], job'[q], held'[q], due'[q], invoice', q \in late')
  BY DEF Debts
<1>1. Owes(pc[q], job[q], held[q], due[q], invoice, q \in late)
      /\ Holds(pc[q], job[q], held[q], invoice, credited)
  BY DEF Debts, LedgerInv, InHand
<1>2. q \notin late' =>
        \/ pc[q] = "done"
        \/ /\ q \notin late
           /\ pc[q] \in {"paying", "debited"} =>
                invoice'[job[q].inv].tip = invoice[job[q].inv].tip
  BY DEF Remembers, Retipped
<1>3. Owes(pc[q], job[q], held[q], due[q], invoice', q \in late')
  BY <1>1, <1>2 DEF Owes
<1>4. QED
  BY <1>3

\* Where no invoice changes, nobody becomes late.
LEMMA NobodyIsRetipped ==
    ASSUME Remembers, UNCHANGED invoice, NEW r \in Requests
    PROVE  r \in late' <=> r \in late /\ pc'[r] # "done"
BY DEF Remembers, Retipped

\* The pots a step changes.
LEMMA PotOfUser ==
    ASSUME LedgerInv, NEW u \in Users, NEW x,
           balance' = [balance EXCEPT ![u] = x], UNCHANGED fund
    PROVE  PotsNow[u] = balance[u] /\ PotsNow' = [PotsNow EXCEPT ![u] = x]
BY DEF PotsNow, Pots, LedgerInv, Typed

LEMMA PotOfFund ==
    ASSUME LedgerInv, UNCHANGED balance
    PROVE  PotsNow["fund"] = fund /\ PotsNow' = [PotsNow EXCEPT !["fund"] = fund']
<1>1. PICK f : f = "fund"
  OBVIOUS
<1>2. f \notin Users /\ Pots = Users \cup {f}
  BY <1>1, LedgerAssumption DEF Pots
<1>3. PotsNow[f] = fund /\ PotsNow' = [PotsNow EXCEPT ![f] = fund']
  BY <1>2 DEF PotsNow
<1>4. QED
  BY <1>1, <1>3

LEMMA SameMoney == ASSUME UNCHANGED money PROVE Implements
BY DEF Implements, money, PotsNow

\* What a request has in hand may be lost, or given.
LEMMA Loses ==
    ASSUME NEW r \in Requests, due' = [due EXCEPT ![r] = 0],
           UNCHANGED <<balance, fund>>
    PROVE  Implements
<1>1. PotsNow' = PotsNow
  BY DEF PotsNow
<1>2. Money!Lose(r)
  BY <1>1 DEF Money!Lose
<1>3. QED
  BY <1>2 DEF Implements, Money!Next

LEMMA Gives ==
    ASSUME NEW r \in Requests, NEW p \in Pots, due' = [due EXCEPT ![r] = 0],
           WillCredit[r] = due[r] \/ r \in late,
           PotsNow' = [PotsNow EXCEPT ![p] = @ + WillCredit[r]]
    PROVE  Implements
<1>1. Money!Give(r, p)
  BY DEF Money!Give
<1>2. QED
  BY <1>1 DEF Implements, Money!Next

LEMMA Takes ==
    ASSUME NEW r \in Requests, NEW p \in Pots, NEW n \in 1..PotsNow[p], due[r] = 0,
           due' = [due EXCEPT ![r] = n], PotsNow' = [PotsNow EXCEPT ![p] = @ - n]
    PROVE  Implements
<1>1. Money!Take(r, p, n)
  BY DEF Money!Take
<1>2. QED
  BY <1>1 DEF Implements, Money!Next

\* What the two invariants say of one request.
LEMMA DebtOf ==
    ASSUME LedgerInv, Debts, NEW r \in Requests
    PROVE  /\ Owes(pc[r], job[r], held[r], due[r], invoice, r \in late)
           /\ Holds(pc[r], job[r], held[r], invoice, credited)
           /\ job[r] \in Job /\ due[r] \in Nat /\ held[r] \in Invoice \cup {None}
BY HandOf DEF Debts

\* An answer, with nothing in hand any more.
LEMMA DebtsAnswered ==
    ASSUME LedgerInv, Debts, Remembers, NEW r \in Requests,
           End(r), due' = [due EXCEPT ![r] = 0]
    PROVE  Debts'
<1>1. Moves(r, "done", NoJob, None, 0)
  BY EndMoves
<1>2. Owes("done", NoJob, None, 0, invoice', r \in late')
  BY DEF Owes
<1>3. QED
  BY <1>1, <1>2, DebtsStay

LEMMA BeginningsOwe ==
    ASSUME LedgerInv, Debts, Remembers, NEW r \in Requests, Begins(r)
    PROVE  Implements /\ Debts'
<1>1. pc[r] = "idle" /\ UNCHANGED <<money, invoice>>
  BY DEF Begins, DepositReads, PayReads, TakeReads, UpdateReads, SendReads,
          Begin
<1>2. due[r] = 0
  BY <1>1, DebtOf DEF Owes
<1>3. Implements
  BY <1>1, SameMoney
<1>4. due' = [due EXCEPT ![r] = due[r]]
  BY <1>1 DEF money, LedgerInv, Typed
<1>5. ASSUME NEW u \in Users, NEW a \in Amounts, DepositReads(r, u, a)
      PROVE  Debts'
  <2> DEFINE j == [user |-> u, type |-> "fund", inv |-> None, amount |-> a, tip |-> 0]
  <2>1. Moves(r, "depositing", j, held[r], due[r])
    BY <1>4, <1>5 DEF DepositReads, Begin, Go, Moves, LedgerInv, Typed
  <2>2. Owes("depositing", j, held[r], due[r], invoice', r \in late')
    BY <1>2, LedgerAssumption DEF Owes
  <2> HIDE DEF j
  <2>3. QED
    BY <1>3, <2>1, <2>2, DebtsStay
<1>6. ASSUME NEW u \in Users, NEW a \in Amounts, NEW i \in Invoices, PayReads(r, u, i, a)
      PROVE  Debts'
  <2> DEFINE j == [user |-> u, type |-> "internal", inv |-> i,
                   amount |-> a, tip |-> invoice[i].tip]
  <2>1. Moves(r, "paying", j, held[r], due[r])
    BY <1>4, <1>6 DEF PayReads, Begin, Go, Moves, LedgerInv, Typed
  <2>2. Owes("paying", j, held[r], due[r], invoice', r \in late')
    BY <1>1, <1>2, LedgerAssumption DEF Owes
  <2> HIDE DEF j
  <2>3. QED
    BY <1>3, <2>1, <2>2, DebtsStay
<1>7. ASSUME NEW u \in Users, NEW a \in Amounts, NEW i \in Invoices, TakeReads(r, u, i, a)
      PROVE  Debts'
  <2> DEFINE j == [user |-> u, type |-> "fund", inv |-> i, amount |-> a, tip |-> 0]
  <2>1. CASE Begin(r, "claiming", NoJob)
    <3>1. Moves(r, "claiming", NoJob, held[r], due[r])
      BY <1>4, <1>7, <2>1 DEF TakeReads, Begin, Go, Moves, LedgerInv, Typed
    <3>2. Owes("claiming", NoJob, held[r], due[r], invoice', r \in late')
      BY <1>2 DEF Owes
    <3>3. QED
      BY <1>3, <3>1, <3>2, DebtsStay
  <2>2. CASE Begin(r, "taking", j)
    <3>1. Moves(r, "taking", j, held[r], due[r])
      BY <1>4, <1>7, <2>2 DEF TakeReads, Begin, Go, Moves, LedgerInv, Typed
    <3>2. Owes("taking", j, held[r], due[r], invoice', r \in late')
      BY <1>2, LedgerAssumption DEF Owes
    <3> HIDE DEF j
    <3>3. QED
      BY <1>3, <3>1, <3>2, DebtsStay
  <2>3. QED
    BY <1>7, <2>1, <2>2 DEF TakeReads
<1>8. ASSUME NEW i \in Invoices, UpdateReads(r, i)
      PROVE  Debts'
  <2> DEFINE j == [NoJob EXCEPT !.inv = i]
  <2>1. Moves(r, "updating", j, invoice[i], due[r])
    BY <1>4, <1>8 DEF UpdateReads, Begin, Go, Moves, LedgerInv, Typed
  <2>2. Owes("updating", j, invoice[i], due[r], invoice', r \in late')
    BY <1>2 DEF Owes
  <2> HIDE DEF j
  <2>3. QED
    BY <1>3, <2>1, <2>2, DebtsStay
<1>9. ASSUME NEW u \in Users, NEW a \in Amounts, SendReads(r, u, a)
      PROVE  Debts'
  <2> DEFINE j == [user |-> u, type |-> "bitcoin", inv |-> None, amount |-> a, tip |-> 0]
  <2>1. Moves(r, "sending", j, held[r], due[r])
    BY <1>4, <1>9 DEF SendReads, Begin, Go, Moves, LedgerInv, Typed
  <2>2. Owes("sending", j, held[r], due[r], invoice', r \in late')
    BY <1>2, LedgerAssumption DEF Owes
  <2> HIDE DEF j
  <2>3. QED
    BY <1>3, <2>1, <2>2, DebtsStay
<1>10. QED
  BY <1>3, <1>5, <1>6, <1>7, <1>8, <1>9 DEF Begins

\* A debit takes from one pot no more than there is.
LEMMA DebitsTake ==
    ASSUME LedgerInv, Debts, Remembers, NEW r \in Requests, DebitScript(r) \/ FundDebit(r)
    PROVE  Implements /\ Debts'
<1>1. /\ pc[r] \in {"paying", "depositing", "sending", "taking"}
      /\ UNCHANGED <<invoice, job, held>>
  BY DEF DebitScript, FundDebit, Debiting
<1>2. /\ Owes(pc[r], job[r], held[r], due[r], invoice, r \in late)
      /\ Holds(pc[r], job[r], held[r], invoice, credited)
      /\ job[r] \in Job
  BY DebtOf
<1>3. due[r] = 0 /\ job[r].amount \in Nat \ {0} /\ job[r].tip \in Nat
  BY <1>1, <1>2 DEF Owes, Job
<1>4. CASE DebitScript(r)
  <2> DEFINE w == Debited(pc[r])
             u == job[r].user
             n == Total(job[r])
  <2>1. n \in Nat \ {0} /\ u \in Users /\ u \in Pots
    BY <1>2, <1>3, <1>4 DEF Total, Holds, DebitScript, Debiting, Pots
  <2>2. /\ balance[u] >= n /\ balance[u] \in Nat
        /\ balance' = [balance EXCEPT ![u] = balance[u] - n] /\ UNCHANGED fund
        /\ due' = [due EXCEPT ![r] = n]
    BY <1>4, <2>1 DEF DebitScript, LedgerInv, Typed
  <2>3. Moves(r, w, job[r], held[r], n)
    BY <1>4 DEF DebitScript, Go, Moves, LedgerInv, Typed
  <2>4. w \in {"debited", "deposited", "sent"} /\ (w = "debited" <=> pc[r] = "paying")
    BY <1>1, <1>4 DEF DebitScript, Debiting, Debited
  <2>5. pc'[r] = w
    BY <2>3 DEF Moves, LedgerInv, Typed
  <2>6. w = "debited" /\ r \notin late' => job[r].tip = invoice'[job[r].inv].tip
    BY <1>1, <1>2, <2>4, <2>5, NobodyIsRetipped DEF Owes
  <2>7. Owes(w, job[r], held[r], n, invoice', r \in late')
    BY <2>4, <2>6 DEF Owes
  <2> HIDE DEF w, u, n
  <2>8. /\ PotsNow[u] = balance[u]
        /\ PotsNow' = [PotsNow EXCEPT ![u] = balance[u] - n]
    BY <2>1, <2>2, PotOfUser
  <2>9. n \in 1..PotsNow[u] /\ PotsNow' = [PotsNow EXCEPT ![u] = @ - n]
    BY <2>1, <2>2, <2>8
  <2>10. Implements
    BY <1>3, <2>1, <2>2, <2>9, Takes
  <2>11. QED
    BY <1>3, <2>3, <2>7, <2>10, DebtsStay
<1>5. CASE FundDebit(r)
  <2> DEFINE n == job[r].amount
  <2>1. fund >= n /\ fund' = fund - n /\ UNCHANGED balance /\ fund \in Nat
        /\ due' = [due EXCEPT ![r] = n]
    BY <1>5 DEF FundDebit, LedgerInv, Typed
  <2>2. Moves(r, "taken", job[r], held[r], n)
    BY <1>5 DEF FundDebit, Go, Moves, LedgerInv, Typed
  <2>3. Owes("taken", job[r], held[r], n, invoice', r \in late')
    BY DEF Owes
  <2>4. n \in Nat \ {0}
    BY <1>3
  <2> HIDE DEF n
  <2>5. PICK f \in Pots : f = "fund"
    BY DEF Pots
  <2>6. PotsNow[f] = fund /\ PotsNow' = [PotsNow EXCEPT ![f] = fund']
    BY <2>1, <2>5, PotOfFund
  <2>7. n \in 1..PotsNow[f] /\ PotsNow' = [PotsNow EXCEPT ![f] = @ - n]
    BY <2>1, <2>4, <2>6
  <2>8. Implements
    BY <1>3, <2>1, <2>7, Takes
  <2>9. QED
    BY <1>3, <2>2, <2>3, <2>8, DebtsStay
<1>6. QED
  BY <1>4, <1>5

\* Endings lose what a request has in hand, or give a deposit to the fund.
LEMMA EndingsOwe ==
    ASSUME LedgerInv, Debts, Remembers, NEW r \in Requests,
           Throws(r) \/ DepositStores(r) \/ CreditReads(r) \/ TakeClaims(r)
    PROVE  Implements /\ Debts'
<1>1. /\ Owes(pc[r], job[r], held[r], due[r], invoice, r \in late)
      /\ Holds(pc[r], job[r], held[r], invoice, credited)
      /\ job[r] \in Job
  BY DebtOf
<1>2. UNCHANGED invoice
  BY DEF Throws, DepositStores, CreditReads, TakeClaims
<1>3. CASE Throws(r)
  BY <1>2, <1>3, Loses, DebtsAnswered DEF Throws
<1>4. CASE DepositStores(r)
  <2>1. /\ due[r] = job[r].amount /\ fund' = fund + due[r]
        /\ UNCHANGED balance /\ End(r) /\ due' = [due EXCEPT ![r] = 0]
    BY <1>1, <1>4 DEF DepositStores, Owes, Holds, Total, Job
  <2>2. PICK f \in Pots : f = "fund"
    BY DEF Pots
  <2>3. PotsNow[f] = fund /\ PotsNow' = [PotsNow EXCEPT ![f] = fund']
    BY <2>1, <2>2, PotOfFund
  <2>4. PotsNow' = [PotsNow EXCEPT ![f] = @ + due[r]]
    BY <2>1, <2>3
  <2>5. WillCredit[r] = due[r]
    BY <1>4 DEF WillCredit, DepositStores
  <2>6. QED
    BY <1>2, <2>1, <2>4, <2>5, Gives, DebtsAnswered
<1>5. CASE CreditReads(r)
  <2> DEFINE inv == invoice[job[r].inv]
  <2>1. CASE inv = None
    BY <1>2, <1>5, <2>1, Loses, DebtsAnswered DEF CreditReads
  <2>2. CASE inv # None
    <3>1. Moves(r, "crediting", job[r], inv, due[r]) /\ UNCHANGED money
      BY <1>5, <2>2 DEF CreditReads, Go, Moves, LedgerInv, Typed, money
    <3>2. r \notin late => due[r] = Credit(job[r], inv)
      BY <1>1, <1>5 DEF CreditReads, Owes, Holds, Credit, Total, Job
    <3>3. pc'[r] # "done"
      BY <3>1 DEF Moves, LedgerInv, Typed
    <3>4. r \notin late' => r \notin late
      BY <1>2, <3>3, NobodyIsRetipped
    <3>5. Owes("crediting", job[r], inv, due[r], invoice', r \in late')
      BY <3>2, <3>4 DEF Owes
    <3> HIDE DEF inv
    <3>6. QED
      BY <3>1, <3>5, SameMoney, DebtsStay
  <2>3. QED
    BY <2>1, <2>2
<1>6. CASE TakeClaims(r)
  <2>1. UNCHANGED money /\ due[r] = 0 /\ End(r) /\ due' = [due EXCEPT ![r] = 0]
    BY <1>1, <1>6 DEF TakeClaims, Owes, money, LedgerInv, Typed
  <2>2. QED
    BY <1>2, <2>1, SameMoney, DebtsAnswered
<1>7. QED
  BY <1>3, <1>4, <1>5, <1>6

\* A credit gives one pot what was debited, or what the new tip makes of it.
LEMMA CreditsGive ==
    ASSUME LedgerInv, Debts, Remembers, NEW r \in Requests, CreditStores(r)
    PROVE  Implements /\ Debts'
<1> DEFINE i == job[r].inv
           inv == held[r]
           sum == Credit(job[r], inv)
           to == Payee(job[r], inv)
           paid == [inv EXCEPT !.received = @ + sum]
<1>1. /\ i \in Invoices /\ inv \in Invoice /\ job[r].user \in Users
      /\ due[r] = sum \/ r \in late
      /\ WillCredit[r] = sum
  BY DebtOf DEF CreditStores, Holds, Owes, WillCredit
<1>2. to \in Users /\ to \in Pots
  BY <1>1 DEF Payee, Invoice, Pots
<1>4. /\ invoice' = [invoice EXCEPT ![i] = paid]
      /\ balance' = [balance EXCEPT ![to] = balance[to] + sum] /\ UNCHANGED fund
      /\ End(r) /\ due' = [due EXCEPT ![r] = 0]
  BY DEF CreditStores
<1> HIDE DEF i, inv, sum, to, paid
<1>6. PotsNow' = [PotsNow EXCEPT ![to] = @ + WillCredit[r]]
  <2>1. PotsNow[to] = balance[to] /\ PotsNow' = [PotsNow EXCEPT ![to] = balance[to] + sum]
    BY <1>2, <1>4, PotOfUser
  <2>2. QED
    BY <1>1, <2>1
<1>7. QED
  BY <1>1, <1>2, <1>4, <1>6, Gives, DebtsAnswered

\* A tip that is set moves no money.
LEMMA UpdatesOwe ==
    ASSUME LedgerInv, Debts, Remembers, NEW r \in Requests, NEW t \in Tips,
           UpdateStores(r, t)
    PROVE  Implements /\ Debts'
<1>1. UNCHANGED money /\ End(r) /\ pc[r] = "updating"
  BY DEF UpdateStores
<1>2. due[r] = 0
  BY <1>1, DebtOf DEF Owes
<1>3. due' = [due EXCEPT ![r] = 0]
  BY <1>1, <1>2 DEF money, LedgerInv, Typed
<1>4. QED
  BY <1>1, <1>3, SameMoney, DebtsAnswered

\* Nor does an invoice that is new, or an authorization.
LEMMA OthersOwe ==
    ASSUME LedgerInv, Debts, Remembers,
           \/ \E u \in Users : Authorize(u)
           \/ \E i \in Invoices, u \in Users, t \in Tips : Generate(i, u, t)
    PROVE  Implements /\ Debts'
<1>1. UNCHANGED money /\ UNCHANGED <<pc, job, held, due>>
  BY DEF Authorize, Generate, money
<1>2. QED
  BY <1>1, SameMoney, DebtsRest

LEMMA DebtsInitially == Init => Money!Init /\ Debts
<1> SUFFICES ASSUME Init PROVE Money!Init /\ Debts
  OBVIOUS
<1>1. PotsNow \in [Pots -> Nat]
  BY LedgerAssumption DEF Init, PotsNow
<1>2. Money!Init
  BY <1>1 DEF Init, Money!Init
<1>3. Debts
  BY DEF Init, Debts, Owes
<1>4. QED
  BY <1>2, <1>3

LEMMA StepImplements == LedgerInv /\ Debts /\ [Next]_vars => Implements /\ Debts'
<1> SUFFICES ASSUME LedgerInv, Debts, [Next]_vars PROVE Implements /\ Debts'
  OBVIOUS
<1>1. CASE Next
  <2>1. Remembers
    BY <1>1 DEF Next, Remembers
  <2>2. ASSUME NEW r \in Requests, Begins(r) PROVE Implements /\ Debts'
    BY <2>1, <2>2, BeginningsOwe
  <2>3. ASSUME NEW r \in Requests, Continues(r) PROVE Implements /\ Debts'
    <3>1. CASE DebitScript(r) \/ FundDebit(r)
      BY <2>1, <3>1, DebitsTake
    <3>2. CASE Throws(r) \/ DepositStores(r) \/ CreditReads(r) \/ TakeClaims(r)
      BY <2>1, <3>2, EndingsOwe
    <3>3. CASE CreditStores(r)
      BY <2>1, <3>3, CreditsGive
    <3>4. CASE \E t \in Tips : UpdateStores(r, t)
      BY <2>1, <3>4, UpdatesOwe
    <3>5. QED
      BY <2>3, <3>1, <3>2, <3>3, <3>4 DEF Continues
  <2>4. QED
    BY <1>1, <2>1, <2>2, <2>3, OthersOwe DEF Next
<1>2. CASE UNCHANGED vars
  <2>1. Debts'
    BY <1>2 DEF Debts, Owes, vars
  <2>2. QED
    BY <1>2, <2>1, SameMoney DEF vars, money
<1>3. QED
  BY <1>1, <1>2

\* Every interleaving of the handlers, with failures anywhere and tips set at any
\* time, only moves money or loses it: what a handler credits is what it has
\* debited, but for a payment whose invoice was given another tip under way.
THEOREM LedgerOnlyMoves == Spec => MoneyOnlyMoves
<1>1. Init => Money!Init /\ Debts
  BY DebtsInitially
<1>2. LedgerInv /\ Debts /\ [Next]_vars => [Money!Next]_<<PotsNow, due>> /\ Debts'
  BY StepImplements DEF Implements
<1>3. QED
  BY <1>1, <1>2, Invariance, PTL DEF Spec, MoneyOnlyMoves, Money!Spec
=============================================================================
