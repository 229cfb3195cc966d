---- MODULE MCUserData ----
(***************************************************************************)
(* Data kept in Redis under several keys that are written one after the    *)
(* other: a user's contacts, items and apps, and the places of the map.    *)
(* They share no key, so that one of them moves in each behaviour:         *)
(* interleaving them would only multiply their states.                     *)
(***************************************************************************)
EXTENDS Contacts, Items, Apps, Locations

VARIABLE subject    \* the part that moves

Init ==
  /\ ContactsInit
  /\ ItemsInit
  /\ AppsInit
  /\ LocationsInit
  /\ subject \in {"contacts", "items", "apps", "locations"}

Next ==
  /\ UNCHANGED subject
  /\ \/ /\ subject = "contacts" /\ ContactsNext
        /\ UNCHANGED <<itemsVars, appsVars, locationsVars>>
     \/ /\ subject = "items" /\ ItemsNext
        /\ UNCHANGED <<contactsVars, appsVars, locationsVars>>
     \/ /\ subject = "apps" /\ AppsNext
        /\ UNCHANGED <<contactsVars, itemsVars, locationsVars>>
     \/ /\ subject = "locations" /\ LocationsNext
        /\ UNCHANGED <<contactsVars, itemsVars, appsVars>>

Spec == Init /\ [][Next]_<<contactsVars, itemsVars, appsVars, locationsVars, subject>>

\* The variables of the parts have their types.
TypeOK == ContactsTypeOK /\ ItemsTypeOK /\ AppsTypeOK /\ LocationsTypeOK

====
