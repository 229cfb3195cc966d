---- MODULE Items ----
(***************************************************************************)
(* The items a merchant sells (routes/items.ts): a list of ids in Redis,   *)
(* and a record per item.  Creating pushes the id, then stores the record; *)
(* a listing removes from the list the ids it finds no record for;         *)
(* deleting takes the id off the list and, when it was there, drops the    *)
(* record; sorting deletes the list and pushes the ids the browser sent    *)
(* back, one by one.  No two commands are atomic, and the calls of one     *)
(* owner (several devices, and every customer's listing) interleave.       *)
(*                                                                         *)
(* An id stands for its item: names and prices are left out, except that   *)
(* a price that is no number stops a creation after its id was pushed.     *)
(* Only a creation without an id lists its item.  Every call takes the ids *)
(* its client sends: those it was told of, late as it may be, and others   *)
(* of its own, whose records are stored without ever being listed.         *)
(***************************************************************************)
EXTENDS Naturals, Sequences, SequencesExt

CONSTANTS ItemIds,      \* the ids drawn with v4(): each for one creation
          ClientIds,    \* ids that no creation drew
          NoItem,
          ItemCalls,    \* slots for the calls under way
          MaxItemCalls, \* bound: calls in a run
          MaxSorted     \* bound: ids in the order of a sort

ASSUME ItemsAssumption ==
  /\ NoItem \notin ItemIds \union ClientIds
  /\ ItemIds \intersect ClientIds = {}
  /\ MaxSorted \in Nat

VARIABLES items,        \* the owner's list
          stored,       \* the ids with a record
          itemCall,     \* per slot, [kind, at, id, ids]
          itemCalls,    \* calls begun so far
          drawn,        \* the ids drawn so far
          excused,      \* ghost: the ids deleted, left out by a sort, or whose
                        \* creation or sort broke off
          overlooked    \* ghost: the ids a listing removes as they are stored

itemsVars == <<items, stored, itemCall, itemCalls, drawn, excused, overlooked>>

ItemRequest(k, p, i, q) == [kind |-> k, at |-> p, id |-> i, ids |-> q]

NoCall == ItemRequest("none", "idle", NoItem, <<>>)

ItemsInit ==
  /\ items = <<>>
  /\ stored = {}
  /\ itemCall = [c \in ItemCalls |-> NoCall]
  /\ itemCalls = 0
  /\ drawn = {}
  /\ excused = {}
  /\ overlooked = {}

AnyItem == ItemIds \union ClientIds

\* The ids a client may send.
Known == drawn \union ClientIds

BeginItem(c, r) ==
  /\ itemCall[c] = NoCall /\ itemCalls < MaxItemCalls
  /\ itemCalls' = itemCalls + 1
  /\ itemCall' = [itemCall EXCEPT ![c] = r]

AtItem(c, k, p) == itemCall[c].kind = k /\ itemCall[c].at = p

MoveItem(c, r) == itemCall' = [itemCall EXCEPT ![c] = r] /\ UNCHANGED itemCalls

EndItem(c) == MoveItem(c, NoCall)

\* lRem with count 0: every occurrence.
Without(q, i) ==
  LET kept[n \in 0..Len(q)] ==
        IF n = 0 THEN <<>>
        ELSE IF q[n] = i THEN kept[n - 1] ELSE Append(kept[n - 1], q[n])
  IN  kept[Len(q)]

\* create, of a new item: the id goes to the head of the list at once.
CreateItem(c, i) ==
  /\ i \notin drawn
  /\ drawn' = drawn \union {i}
  /\ items' = <<i>> \o items
  /\ BeginItem(c, ItemRequest("create", "store", i, <<>>))
  /\ UNCHANGED <<stored, excused, overlooked>>

\* create, of an item with an id: its record is stored, whether or not the
\* list has it or ever had.
UpdateItem(c, i) ==
  /\ BeginItem(c, ItemRequest("create", "store", i, <<>>))
  /\ UNCHANGED <<items, stored, drawn, excused, overlooked>>

\* A creation or a change has yet to store the item's record.
BeingStored(i) == \E c \in ItemCalls : AtItem(c, "create", "store") /\ itemCall[c].id = i

StoreItem(c) ==
  /\ AtItem(c, "create", "store")
  /\ stored' = stored \union {itemCall[c].id}
  /\ EndItem(c)
  /\ UNCHANGED <<items, drawn, excused, overlooked>>

ListItems(c) ==
  /\ BeginItem(c, ItemRequest("list", IF items = <<>> THEN "answer" ELSE "get", NoItem, items))
  /\ UNCHANGED <<items, stored, drawn, excused, overlooked>>

NextListed(c, q) ==
  MoveItem(c, ItemRequest("list", IF q = <<>> THEN "answer" ELSE "get", NoItem, q))

ListFinds(c) ==
  /\ AtItem(c, "list", "get") /\ Head(itemCall[c].ids) \in stored
  /\ NextListed(c, Tail(itemCall[c].ids))
  /\ UNCHANGED <<items, stored, drawn, excused, overlooked>>

\* Mutant: an id is removed without a look at its record.
ListMissesAny(c) ==
  /\ AtItem(c, "list", "get")
  /\ MoveItem(c, [itemCall[c] EXCEPT !.at = "remove"])
  /\ UNCHANGED <<items, stored, drawn, excused, overlooked>>

\* The id is removed next, even if its record is stored by then.
ListMisses(c) ==
  /\ AtItem(c, "list", "get") /\ Head(itemCall[c].ids) \notin stored
  /\ MoveItem(c, [itemCall[c] EXCEPT !.at = "remove"])
  /\ overlooked' = overlooked \union {i \in {Head(itemCall[c].ids)} : BeingStored(i)}
  /\ UNCHANGED <<items, stored, drawn, excused>>

ListRemoves(c) ==
  /\ AtItem(c, "list", "remove")
  /\ items' = Without(items, Head(itemCall[c].ids))
  /\ NextListed(c, Tail(itemCall[c].ids))
  /\ UNCHANGED <<stored, drawn, excused, overlooked>>

Listed(c) ==
  /\ AtItem(c, "list", "answer")
  /\ EndItem(c)
  /\ UNCHANGED <<items, stored, drawn, excused, overlooked>>

\* del: nothing but an answer when the id is not in the list.  The record is
\* dropped by a command that is not awaited.
DeleteItem(c, i) ==
  /\ BeginItem(c, ItemRequest("del", IF i \in ToSet(items) THEN "drop" ELSE "answer", i, <<>>))
  /\ items' = Without(items, i)
  /\ excused' = IF i \in ToSet(items) THEN excused \union {i} ELSE excused
  /\ UNCHANGED <<stored, drawn, overlooked>>

DropItem(c) ==
  /\ AtItem(c, "del", "drop")
  /\ stored' = stored \ {itemCall[c].id}
  /\ EndItem(c)
  /\ UNCHANGED <<items, drawn, excused, overlooked>>

NotFound(c) ==
  /\ AtItem(c, "del", "answer")
  /\ EndItem(c)
  /\ UNCHANGED <<items, stored, drawn, excused, overlooked>>

\* The browser sends ids in the order it wants: those of a listing it was shown
\* some time ago, or any others.
SortItems(c, q) ==
  /\ BeginItem(c, ItemRequest("sort", "del", NoItem, q))
  /\ UNCHANGED <<items, stored, drawn, excused, overlooked>>

\* What was pushed since the browser's listing is gone from the list.
SortDeletes(c) ==
  /\ AtItem(c, "sort", "del")
  /\ items' = <<>>
  /\ excused' = excused \union (ToSet(items) \ ToSet(itemCall[c].ids))
  /\ MoveItem(c, [itemCall[c] EXCEPT !.at = "push"])
  /\ UNCHANGED <<stored, drawn, overlooked>>

SortPushes(c) ==
  /\ AtItem(c, "sort", "push") /\ itemCall[c].ids # <<>>
  /\ items' = Append(items, Head(itemCall[c].ids))
  /\ MoveItem(c, [itemCall[c] EXCEPT !.ids = Tail(@)])
  /\ UNCHANGED <<stored, drawn, excused, overlooked>>

Sorted(c) ==
  /\ AtItem(c, "sort", "push") /\ itemCall[c].ids = <<>>
  /\ EndItem(c)
  /\ UNCHANGED <<items, stored, drawn, excused, overlooked>>

\* What a call that breaks off leaves undone.
Forsaken(c) ==
  IF AtItem(c, "sort", "push") THEN ToSet(itemCall[c].ids)
  ELSE IF AtItem(c, "create", "store") THEN {itemCall[c].id} \ stored ELSE {}

\* The rest of the call does not happen: the price is no number, the write of
\* the record fails (s only logs it), or the connection breaks.
BreakOff(c) ==
  /\ itemCall[c] # NoCall
  /\ EndItem(c)
  /\ excused' = excused \union Forsaken(c)
  /\ UNCHANGED <<items, stored, drawn, overlooked>>

ItemsNext ==
  \E c \in ItemCalls :
    \/ \E i \in ItemIds : CreateItem(c, i)
    \/ \E i \in Known : UpdateItem(c, i) \/ DeleteItem(c, i)
    \/ StoreItem(c)
    \/ ListItems(c)
    \/ ListFinds(c)
    \/ ListMisses(c)
    \/ ListRemoves(c)
    \/ Listed(c)
    \/ DropItem(c)
    \/ NotFound(c)
    \/ \E q \in SeqOf(Known, MaxSorted) : SortItems(c, q)
    \/ SortDeletes(c)
    \/ SortPushes(c)
    \/ Sorted(c)
    \/ BreakOff(c)

ItemsSpec == ItemsInit /\ [][ItemsNext]_itemsVars

-----------------------------------------------------------------------------

ItemsTypeOK ==
  /\ items \in Seq(AnyItem)
  /\ stored \subseteq AnyItem
  /\ drawn \subseteq ItemIds
  /\ excused \union overlooked \subseteq AnyItem
  /\ \A c \in ItemCalls : /\ itemCall[c].id \in AnyItem \union {NoItem}
                          /\ itemCall[c].ids \in Seq(AnyItem)

Sorting == \E c \in ItemCalls : AtItem(c, "sort", "push")

\* An item that a creation drew an id for and that is stored leaves its owner's
\* list for good only when it is deleted, when a listing looked for its record
\* while that was still to be stored, when a creation or a sort broke off, or when
\* the ids of a sort did not name it: no other interleaving of the calls loses
\* one, whatever ids the clients send (items.ts:11-81).
ItemsListed ==
  ~Sorting => (stored \intersect drawn) \ (excused \union overlooked) \subseteq ToSet(items)

\* No item is lost to a listing that looks for its record between its lPush and
\* its s (items.ts:13-16, 41-47).  The code does not see to it: the listing takes
\* the id off the list, and the record is stored for nobody to find.
ListingsLoseNone ==
  ~Sorting => (stored \intersect drawn) \ excused \subseteq ToSet(items)

====
