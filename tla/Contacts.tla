---- MODULE Contacts ----
(***************************************************************************)
(* A user's contacts (routes/users.ts, contacts): the people of the user's *)
(* internal payments, the latest first.  The list is kept in Redis and     *)
(* brought up to date when it is asked for: the handler reads how many     *)
(* payments were counted last time, the length of the list of payments,    *)
(* and as many of its newest entries as the difference, and one more;      *)
(* stores the new count; then reads the contacts, moves each person to the *)
(* front, and stores them.  Every command is a step of its own, payments   *)
(* arrive between them, a second call may run, and a command may time out: *)
(* every one of them then ends the call, except the last, whose failure is *)
(* only logged.                                                            *)
(*                                                                         *)
(* Of a payment only its ref is kept: a person, or Nobody for a payment    *)
(* that is not internal.  No payment leaves the list: the code that        *)
(* reverses one has no caller.                                             *)
(***************************************************************************)
EXTENDS Naturals, Sequences, SequencesExt

CONSTANTS People,
          Nobody,
          ContactCalls,
          MaxPayments,    \* bound: payments in a run
          MaxContactCalls \* bound: calls in a run

ASSUME ContactsAssumption == Nobody \notin People

VARIABLES payments,     \* the list of payments, newest first
          lastlen,
          contacts,     \* the stored list
          contactCall,  \* per call, [at, last, len, range, list]
          answered,     \* calls begun so far
          disturbed     \* ghost: something that may lose contacts happened

contactsVars == <<payments, lastlen, contacts, contactCall, answered, disturbed>>

IdleCall == [at |-> "idle", last |-> 0, len |-> 0, range |-> <<>>, list |-> <<>>]

ContactsInit ==
  /\ payments = <<>>
  /\ lastlen = 0
  /\ contacts = <<>>
  /\ contactCall = [c \in ContactCalls |-> IdleCall]
  /\ answered = 0
  /\ disturbed = FALSE

CallAt(c, p) == contactCall[c].at = p

Proceed(c, r) == contactCall' = [contactCall EXCEPT ![c] = r]

Quiet == \A c \in ContactCalls : CallAt(c, "idle")

\* A payment is pushed.  One that comes between the length and the range is
\* caught by the one entry more; the next is not.
Pay(ref) ==
  /\ Len(payments) < MaxPayments
  /\ payments' = <<ref>> \o payments
  /\ disturbed' = (disturbed \/ \E c \in ContactCalls :
                     CallAt(c, "range") /\ Len(payments) > contactCall[c].len)
  /\ UNCHANGED <<lastlen, contacts, contactCall, answered>>

GetLastlen(c) ==
  /\ CallAt(c, "idle") /\ answered < MaxContactCalls
  /\ answered' = answered + 1
  /\ Proceed(c, [contactCall[c] EXCEPT !.at = "len", !.last = lastlen])
  /\ disturbed' = (disturbed \/ ~Quiet)
  /\ UNCHANGED <<payments, lastlen, contacts>>

GetLen(c) ==
  /\ CallAt(c, "len")
  /\ Proceed(c, [contactCall[c] EXCEPT !.at = "range", !.len = Len(payments)])
  /\ UNCHANGED <<payments, lastlen, contacts, answered, disturbed>>

\* lRange from 0 to len - lastlen, both included.
Newest(n) == SubSeq(payments, 1, IF n < Len(payments) THEN n ELSE Len(payments))

\* Mutant: the range without its one entry more.
GetRangeExclusive(c) ==
  /\ CallAt(c, "range")
  /\ LET call == contactCall[c]
     IN  Proceed(c, [call EXCEPT !.at = "set", !.range = Newest(call.len - call.last)])
  /\ UNCHANGED <<payments, lastlen, contacts, answered, disturbed>>

GetRange(c) ==
  /\ CallAt(c, "range")
  /\ LET call == contactCall[c]
     IN  Proceed(c, [call EXCEPT !.at = "set", !.range = Newest(call.len - call.last + 1)])
  /\ UNCHANGED <<payments, lastlen, contacts, answered, disturbed>>

SetLastlen(c) ==
  /\ CallAt(c, "set")
  /\ lastlen' = contactCall[c].len
  /\ Proceed(c, [contactCall[c] EXCEPT !.at = "contacts"])
  /\ UNCHANGED <<payments, contacts, answered, disturbed>>

GetContacts(c) ==
  /\ CallAt(c, "contacts")
  /\ Proceed(c, [contactCall[c] EXCEPT !.at = "store", !.list = contacts])
  /\ UNCHANGED <<payments, lastlen, contacts, answered, disturbed>>

\* The list without the person, who is in it at most once.
Others(q, person) ==
  LET kept[n \in 0..Len(q)] ==
        IF n = 0 THEN <<>>
        ELSE IF q[n] = person THEN kept[n - 1] ELSE Append(kept[n - 1], q[n])
  IN  kept[Len(q)]

\* The person moves to the front of the list.
Promote(q, person) ==
  IF person = Nobody THEN q ELSE <<person>> \o Others(q, person)

\* The payments are gone through from the oldest to the newest.
Promoted(call) ==
  LET k == Len(call.range)
      done[n \in 0..k] ==
        IF n = 0 THEN call.list ELSE Promote(done[n - 1], call.range[k - n + 1])
  IN  done[k]

StoreContacts(c) ==
  /\ CallAt(c, "store")
  /\ contacts' = Promoted(contactCall[c])
  /\ Proceed(c, IdleCall)
  /\ UNCHANGED <<payments, lastlen, answered, disturbed>>

\* A command times out.  The one that stores the count may have reached Redis
\* all the same.  Once the count is stored the payments it counts are not
\* looked at again.
ContactsFail(c) ==
  /\ ~CallAt(c, "idle")
  /\ lastlen' \in IF CallAt(c, "set") THEN {lastlen, contactCall[c].len} ELSE {lastlen}
  /\ disturbed' = (disturbed \/ lastlen' # lastlen \/ CallAt(c, "contacts") \/ CallAt(c, "store"))
  /\ Proceed(c, IdleCall)
  /\ UNCHANGED <<payments, contacts, answered>>

ContactsNext ==
  \/ \E ref \in People \union {Nobody} : Pay(ref)
  \/ \E c \in ContactCalls : \/ GetLastlen(c)
                             \/ GetLen(c)
                             \/ GetRange(c)
                             \/ SetLastlen(c)
                             \/ GetContacts(c)
                             \/ StoreContacts(c)
                             \/ ContactsFail(c)

ContactsSpec == ContactsInit /\ [][ContactsNext]_contactsVars

-----------------------------------------------------------------------------

Payments == UNION {[1..n -> People \union {Nobody}] : n \in 0..MaxPayments}

ContactsTypeOK ==
  /\ payments \in Payments
  /\ lastlen \in 0..Len(payments)
  /\ contacts \in Seq(People)
  /\ \A c \in ContactCalls :
       /\ contactCall[c].at \in {"idle", "len", "range", "set", "contacts", "store"}
       /\ {contactCall[c].last, contactCall[c].len} \subseteq 0..Len(payments)
       /\ contactCall[c].range \in Payments
       /\ contactCall[c].list \in Seq(People)
  /\ answered \in 0..MaxContactCalls
  /\ disturbed \in BOOLEAN

\* The positions of the payments of person p among the n oldest.
PaidAt(p, n) == {i \in DOMAIN payments : i > Len(payments) - n /\ payments[i] = p}

\* q names the people of the n oldest payments, each once, in the order of
\* their latest payment.
InOrder(q, n) ==
  /\ ToSet(q) = {p \in People : PaidAt(p, n) # {}}
  /\ \A i, j \in DOMAIN q :
       i < j => \E a \in PaidAt(q[i], n) : \A b \in PaidAt(q[j], n) : a < b

\* Kept up to date bit by bit, the stored contacts are what the counted
\* payments (or those and the next one) say, computed from nothing: unless two
\* calls overlapped, two payments arrived between the length and the range, or
\* a call failed after its count was stored.  In particular a call that fails
\* earlier, and one payment that slips in, lose nobody (users.ts:561-587).
ContactsExact ==
  Quiet /\ ~disturbed =>
    InOrder(contacts, lastlen) \/ InOrder(contacts, lastlen + 1)

====
