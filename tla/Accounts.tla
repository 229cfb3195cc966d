------------------------------ MODULE Accounts ------------------------------
(***************************************************************************)
(* User accounts in Redis (src/lib/register.ts, src/routes/users.ts): the  *)
(* record under user:<id>, the index user:<username> and the index         *)
(* email:<address>.  A handler reads the record whole (the auth hook, or   *)
(* itself), awaits other commands and writes the record whole: there is no *)
(* lock, and handlers interleave between any two commands.                 *)
(*                                                                         *)
(* The record keeps the fields that another key or handler depends on;     *)
(* passwords, pins, keys and flags are left out, and with them the checks  *)
(* a request may fail before it has changed anything.  s() swallows the    *)
(* failure of a write and the handler goes on; any other command that      *)
(* fails ends the request where it is (Throws).                            *)
(***************************************************************************)

CONSTANTS
    Ids,         \* account ids
    Names,       \* usernames
    Emails,
    Requests,    \* concurrent requests
    RedisFails,  \* whether commands may fail
    None

Record == [name : Names, email : Emails \cup {None}, verified : BOOLEAN]

ASSUME AccountsAssumption ==
    None \notin Ids \cup Names \cup Emails \cup Record /\ RedisFails \in BOOLEAN

VARIABLES
    records,  \* user:<id>
    nameOf,   \* user:<username>, the id
    emailOf,  \* email:<address>, the id
    codes,    \* verify:<code>: accounts and the address a code was sent to
    resets,   \* reset:<code>: accounts and the address a code was mailed to (None:
              \* nobody was)
    pc,       \* where a request is
    who,      \* the account it is about
    held,     \* the record it has in hand
    wants,    \* the name it is to set
    mailed,   \* the address it is about
    spoiled   \* ghost: names over which requests overlapped or failed half way

vars == <<records, nameOf, emailOf, codes, resets, pc, who, held, wants, mailed,
          spoiled>>
keys == <<records, nameOf, emailOf, codes, resets>>

States == {"idle", "registering", "checking", "renaming", "naming", "storing", "clearing",
           "requesting", "sending", "verifying", "indexing"}

TypeOK ==
    /\ records \in [Ids -> Record \cup {None}]
    /\ nameOf \in [Names -> Ids \cup {None}]
    /\ emailOf \in [Emails -> Ids \cup {None}]
    /\ codes \subseteq Ids \X Emails
    /\ resets \subseteq Ids \X (Emails \cup {None})
    /\ pc \in [Requests -> States]
    /\ who \in [Requests -> Ids \cup {None}]
    /\ held \in [Requests -> Record \cup {None}]
    /\ wants \in [Requests -> Names \cup {None}]
    /\ mailed \in [Requests -> Emails \cup {None}]
    /\ spoiled \subseteq Names

Init ==
    /\ records = [u \in Ids |-> None]
    /\ nameOf = [n \in Names |-> None]
    /\ emailOf = [a \in Emails |-> None]
    /\ codes = {} /\ resets = {}
    /\ pc = [r \in Requests |-> "idle"]
    /\ who = [r \in Requests |-> None]
    /\ held = [r \in Requests |-> None]
    /\ wants = [r \in Requests |-> None]
    /\ mailed = [r \in Requests |-> None]
    /\ spoiled = {}

-----------------------------------------------------------------------------
(* Helpers *)

\* A request goes on with what it has in hand.
Go(r, where, u, rec, n, a) ==
    /\ pc' = [pc EXCEPT ![r] = where]
    /\ who' = [who EXCEPT ![r] = u]
    /\ held' = [held EXCEPT ![r] = rec]
    /\ wants' = [wants EXCEPT ![r] = n]
    /\ mailed' = [mailed EXCEPT ![r] = a]

End(r) == Go(r, "idle", None, None, None, None)

\* s(): the value is written, or the failure is swallowed.
Stored(r) ==
    \/ records' = [records EXCEPT ![who[r]] = held[r]]
    \/ RedisFails /\ UNCHANGED records

\* The names a request reads or writes.
NamesOf(r) ==
    {n \in Names : \/ n = wants[r]
                   \/ held[r] # None /\ n = held[r].name
                   \/ who[r] # None /\ records[who[r]] # None /\ n = records[who[r]].name}

\* Names that two requests have in common, and all those of two requests about
\* one account.
Disputed ==
    {n \in Names : \E q, r \in Requests :
        /\ q # r /\ n \in NamesOf(q)
        /\ n \in NamesOf(r) \/ (who[q] = who[r] /\ who[q] # None)}

\* A command other than s() fails, with or without its effect: the request is
\* answered with the error.
Throws(r) ==
    /\ RedisFails
    /\ pc[r] # "idle"
    /\ End(r)
    /\ UNCHANGED keys

-----------------------------------------------------------------------------
(* register *)

NewRecord(n) == [name |-> n, email |-> None, verified |-> FALSE]

\* The name is not taken; hashing the password and looking up the country
\* follow.  Ids are v4 uuids: nobody else has this one.
RegisterChecks(r, u, n) ==
    /\ pc[r] = "idle"
    /\ records[u] = None /\ \A q \in Requests : who[q] # u
    /\ nameOf[n] = None
    /\ Go(r, "registering", u, NewRecord(n), n, None)
    /\ UNCHANGED keys

\* Mutant: the keys are written by two commands, the name first.
RegisterNameFirst(r) ==
    /\ pc[r] = "registering"
    /\ nameOf' = [nameOf EXCEPT ![wants[r]] = who[r]]
    /\ Go(r, "storing", who[r], held[r], None, None)
    /\ UNCHANGED <<records, emailOf, codes, resets>>

\* One MULTI for all keys; a login through nostr writes the record again, with
\* its profile.
RegisterStores(r) ==
    /\ pc[r] = "registering"
    /\ records' = [records EXCEPT ![who[r]] = held[r]]
    /\ nameOf' = [nameOf EXCEPT ![wants[r]] = who[r]]
    /\ End(r) \/ Go(r, "storing", who[r], held[r], None, None)
    /\ UNCHANGED <<emailOf, codes, resets>>

-----------------------------------------------------------------------------
(* update, enable2fa, disable2fa, hidepay, unlimit, reset *)

\* The auth hook has read the record for a profile update.
UpdateBegins(r, u) ==
    /\ pc[r] = "idle" /\ records[u] # None
    /\ Go(r, "checking", u, records[u], None, None)
    /\ UNCHANGED keys

\* "Username taken", unless it is the name the record in hand has.
UpdateChecks(r, n) ==
    /\ pc[r] = "checking"
    /\ IF nameOf[n] # None /\ n # held[r].name
       THEN End(r)
       ELSE Go(r, "renaming", who[r], held[r], n, None)
    /\ UNCHANGED keys

\* The old name goes; the record takes the new one, and from the body an
\* address.
UpdateDeletesName(r) ==
    /\ pc[r] = "renaming"
    /\ nameOf' = [nameOf EXCEPT ![held[r].name] = None]
    /\ \E a \in Emails \cup {held[r].email} :
          Go(r, "naming", who[r], [held[r] EXCEPT !.name = wants[r], !.email = a],
             wants[r], None)
    /\ UNCHANGED <<records, emailOf, codes, resets>>

\* An update that leaves the name alone deletes nothing.
UpdateKeepsName(r) ==
    /\ pc[r] = "checking"
    /\ \E a \in Emails \cup {held[r].email} :
          Go(r, "naming", who[r], [held[r] EXCEPT !.email = a], held[r].name, None)
    /\ UNCHANGED keys

\* Mutant: the index is written only for a name the record does not have yet,
\* although the old entry was deleted for that one too.
UpdateSetsNewName(r) ==
    /\ pc[r] = "naming"
    /\ IF wants[r] = records[who[r]].name
       THEN UNCHANGED nameOf
       ELSE nameOf' = [nameOf EXCEPT ![wants[r]] = who[r]]
    /\ Go(r, "storing", who[r], held[r], None, None)
    /\ UNCHANGED <<records, emailOf, codes, resets>>

UpdateSetsName(r) ==
    /\ pc[r] = "naming"
    /\ nameOf' = [nameOf EXCEPT ![wants[r]] = who[r]]
    /\ Go(r, "storing", who[r], held[r], None, None)
    /\ UNCHANGED <<records, emailOf, codes, resets>>

\* s() has swallowed the failure of that write.
NameNotSet(r) ==
    /\ RedisFails /\ pc[r] = "naming"
    /\ Go(r, "storing", who[r], held[r], None, None)
    /\ UNCHANGED keys

\* enable2fa, disable2fa, hidepay, unlimit and a reset by an administrator
\* write the record they have read back with a field of theirs changed.
EditBegins(r, u) ==
    /\ pc[r] = "idle" /\ records[u] # None
    /\ Go(r, "storing", u, records[u], None, None)
    /\ UNCHANGED keys

\* The last write of an update or an edit.
Stores(r) ==
    /\ pc[r] = "storing"
    /\ records' = [records EXCEPT ![who[r]] = held[r]]
    /\ End(r)
    /\ UNCHANGED <<nameOf, emailOf, codes, resets>>

\* Swallowed again: the caller is told all is well.
RecordNotStored(r) ==
    /\ RedisFails /\ pc[r] = "storing"
    /\ End(r)
    /\ UNCHANGED keys

\* Bound: at a time there are reset codes of one account only, and one of them.
\* Nothing relates the codes of two accounts.
ResetsOfOne(u) == \A x \in resets : x[1] = u

\* forgot: a code that lives for five minutes, for the account the address is
\* indexed to.  It is mailed to the address the record holds, if it holds one,
\* be that the address asked about or not, verified or not.
Forgot(a) ==
    /\ emailOf[a] # None /\ records[emailOf[a]] # None
    /\ ResetsOfOne(emailOf[a])
    /\ resets' = {<<emailOf[a], records[emailOf[a]].email>>}
    /\ UNCHANGED <<records, nameOf, emailOf, codes, pc, who, held, wants, mailed>>

ResetExpires(u) ==
    /\ \E x \in resets : x[1] = u
    /\ resets' = {x \in resets : x[1] # u}
    /\ UNCHANGED <<records, nameOf, emailOf, codes, pc, who, held, wants, mailed>>

\* reset: the code and the record are read, the password is hashed.
ResetBegins(r, u) ==
    /\ pc[r] = "idle" /\ (\E x \in resets : x[1] = u) /\ records[u] # None
    /\ Go(r, "clearing", u, records[u], None, None)
    /\ UNCHANGED keys

\* The record is written, then the code deleted.
ResetStores(r) ==
    /\ pc[r] = "clearing"
    /\ Stored(r)
    /\ \/ resets' = {x \in resets : x[1] # who[r]}
       \/ RedisFails /\ resets' = resets
    /\ End(r)
    /\ UNCHANGED <<nameOf, emailOf, codes>>

-----------------------------------------------------------------------------
(* request and verify *)

\* "Email already in use": only an address that somebody has verified is.
RequestChecks(r, u, a) ==
    /\ pc[r] = "idle" /\ records[u] # None
    /\ emailOf[a] = None
    /\ Go(r, IF a = records[u].email THEN "sending" ELSE "requesting", u,
          [records[u] EXCEPT !.verified = @ /\ a = records[u].email], None, a)
    /\ UNCHANGED keys

\* A new address: the record is stored as unverified, still with the old one.
RequestStores(r) ==
    /\ pc[r] = "requesting"
    /\ Stored(r)
    /\ Go(r, "sending", who[r], held[r], None, mailed[r])
    /\ UNCHANGED <<nameOf, emailOf, codes, resets>>

\* The code is stored, without an expiry, and mailed.
RequestSends(r) ==
    /\ pc[r] = "sending"
    /\ codes' = codes \cup {<<who[r], mailed[r]>>} \/ (RedisFails /\ codes' = codes)
    /\ End(r)
    /\ UNCHANGED <<records, nameOf, emailOf, resets>>

\* verify: the code, then the record, are read.  The code is not deleted.
VerifyBegins(r, u, a) ==
    /\ pc[r] = "idle" /\ <<u, a>> \in codes /\ records[u] # None
    /\ Go(r, "verifying", u, [records[u] EXCEPT !.email = a, !.verified = TRUE], None, a)
    /\ UNCHANGED keys

VerifyStores(r) ==
    /\ pc[r] = "verifying"
    /\ Stored(r)
    /\ Go(r, "indexing", who[r], held[r], None, mailed[r])
    /\ UNCHANGED <<nameOf, emailOf, codes, resets>>

\* Mutant: the whole of what the code held is stored in the index.
VerifyIndexesCode(r) ==
    /\ pc[r] = "indexing"
    /\ emailOf' = [emailOf EXCEPT ![mailed[r]] = <<who[r], mailed[r]>>]
    /\ End(r)
    /\ UNCHANGED <<records, nameOf, codes, resets>>

VerifyIndexes(r) ==
    /\ pc[r] = "indexing"
    /\ \/ emailOf' = [emailOf EXCEPT ![mailed[r]] = who[r]]
       \/ RedisFails /\ UNCHANGED emailOf
    /\ End(r)
    /\ UNCHANGED <<records, nameOf, codes, resets>>

\* A step as the code takes it.
Goes ==
    \/ \E r \in Requests :
          \/ RegisterStores(r) \/ UpdateDeletesName(r) \/ UpdateKeepsName(r)
          \/ UpdateSetsName(r) \/ Stores(r) \/ ResetStores(r) \/ RequestStores(r) \/ RequestSends(r)
          \/ VerifyStores(r) \/ VerifyIndexes(r)
          \/ \E n \in Names : UpdateChecks(r, n)
          \/ \E u \in Ids :
                \/ UpdateBegins(r, u) \/ EditBegins(r, u) \/ ResetBegins(r, u)
                \/ \E n \in Names : RegisterChecks(r, u, n)
                \/ \E a \in Emails : RequestChecks(r, u, a) \/ VerifyBegins(r, u, a)
    \/ \E a \in Emails : Forgot(a)
    \/ \E u \in Ids : ResetExpires(u)

\* A command of r fails.
Fails(r) == Throws(r) \/ NameNotSet(r) \/ RecordNotStored(r)

\* What a request that has begun to write leaves half done when one fails.
HalfDone(r) == IF pc[r] \in {"naming", "storing"} THEN NamesOf(r) ELSE {}

Next ==
    \/ Goes /\ spoiled' = spoiled \cup Disputed'
    \/ \E r \in Requests : Fails(r) /\ spoiled' = spoiled \cup HalfDone(r)

Spec == Init /\ [][Next]_vars

-----------------------------------------------------------------------------
(* Properties *)

\* A name never leads to an account that is not there: a login, a payment
\* page or an exists check that finds user:<username> finds the record too,
\* whatever registrations and renamings overlap or fail half way.
NamesResolve == \A n \in Names : nameOf[n] # None => records[nameOf[n]] # None

\* An account that nobody is working on is found by the name its record bears:
\* the index loses no name that a rename deletes before it is written again,
\* nor keeps it for another account, in any order of registrations, updates,
\* edits, resets and verifications of several accounts, unless requests
\* overlapped over the name or the account, or one failed after the deletion.
FoundByName ==
    \A u \in Ids :
        (/\ records[u] # None /\ \A r \in Requests : who[r] # u
         /\ records[u].name \notin spoiled)
            => nameOf[records[u].name] = u

\* "Username taken": no two accounts bear the same name.
UsernamesUnique ==
    \A u, v \in Ids :
        records[u] # None /\ records[v] # None /\ records[u].name = records[v].name => u = v

\* "Email already in use": no two accounts have verified the same address.
EmailsUnique ==
    \A u, v \in Ids :
        (/\ records[u] # None /\ records[v] # None
         /\ records[u].verified /\ records[v].verified
         /\ records[u].email # None /\ records[u].email = records[v].email)
            => u = v
=============================================================================
