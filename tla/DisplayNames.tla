---------------------------- MODULE DisplayNames ----------------------------
(***************************************************************************)
(* The two caches of display names (class TalkBack of src/forest/extra.py):*)
(* get_displayname asks signal-cli for the given name of a user and stores *)
(* the name under the user in one dict and the user under the name in      *)
(* another; an admin who quotes a name reaches its user through the second.*)
(* Each set is two steps, the change of the memory and the backend's       *)
(* answer to the post, and may raise.  Left out: lookups by display name,  *)
(* names the first version stored with their JSON, users without a uuid,   *)
(* what the locks of the dicts delay.                                      *)
(***************************************************************************)
EXTENDS Naturals

CONSTANTS
  Askers,     \* tasks that call get_displayname
  Uuids,
  Digits,     \* the second group of each uuid, four hex digits
  Given,      \* given names; a user may have none
  NoName,
  MaxCrashes  \* bound: crashes of the process

\* the name a user is shown by, user_short: users of one given name whose uuids
\* agree in the second group share it
Short(given, uuid) == <<given, Digits[uuid]>>
Names == Given \X {Digits[u] : u \in Uuids}

NamesAssumption == NoName \notin Uuids \cup Given \cup Names /\ DOMAIN Digits = Uuids

VARIABLES
  profile,    \* the given name signal-cli knows for a user
  names,      \* displayname_cache
  users,      \* displayname_lookup_cache, as pairs of a name and its user
  stored,     \* what the backend holds of both
  asking,     \* each asker's stage, user and name
  crashes,
  halved      \* history: users whose call raised after the first set, before the second

vars == <<profile, names, users, stored, asking, crashes, halved>>

Idle == [stage |-> "idle", uuid |-> NoName, name |-> NoName]

TypeOK ==
  /\ profile \in [Uuids -> Given \cup {NoName}]
  /\ names \in [Uuids -> Names \cup {NoName}]
  /\ users \subseteq Names \X Uuids
  /\ \A a \in Askers : asking[a].stage \in {"idle", "rpc", "name", "user"}
  /\ halved \subseteq Uuids

Init ==
  /\ profile = [u \in Uuids |-> NoName]
  /\ names = [u \in Uuids |-> NoName] /\ users = {}
  /\ stored = [names |-> names, users |-> users]
  /\ asking = [a \in Askers |-> Idle]
  /\ crashes = 0 /\ halved = {}

Step(a, stage, u, n) == asking' = [asking EXCEPT ![a] = [stage |-> stage, uuid |-> u, name |-> n]]

\* bug: a cached name is asked for again
AskAnyway(a, u) ==
  /\ asking[a] = Idle
  /\ Step(a, "rpc", u, NoName)
  /\ UNCHANGED <<profile, names, users, stored, crashes, halved>>

\* get_displayname, not answered from the cache
Ask(a, u) ==
  /\ asking[a] = Idle /\ names[u] = NoName
  /\ Step(a, "rpc", u, NoName)
  /\ UNCHANGED <<profile, names, users, stored, crashes, halved>>

\* listContacts answers; without a given name the user is a "NewUser"
Contact(a) ==
  LET u == asking[a].uuid
      n == Short(profile[u], u)
  IN /\ asking[a].stage = "rpc"
     /\ IF profile[u] = NoName
        THEN asking' = [asking EXCEPT ![a] = Idle] /\ UNCHANGED names
        ELSE Step(a, "name", u, n) /\ names' = [names EXCEPT ![u] = n]
     /\ UNCHANGED <<profile, users, stored, crashes, halved>>

\* bug: a user's older names are dropped
SetUserOneName(a) ==
  /\ asking[a].stage = "name"
  /\ stored' = [stored EXCEPT !.names = names]
  /\ users' = {p \in users : p[2] # asking[a].uuid} \cup {<<asking[a].name, asking[a].uuid>>}
  /\ Step(a, "user", asking[a].uuid, asking[a].name)
  /\ UNCHANGED <<profile, names, crashes, halved>>

\* displayname_cache is posted, displayname_lookup_cache set
SetUser(a) ==
  /\ asking[a].stage = "name"
  /\ stored' = [stored EXCEPT !.names = names]
  /\ users' = {p \in users : p[1] # asking[a].name} \cup {<<asking[a].name, asking[a].uuid>>}
  /\ Step(a, "user", asking[a].uuid, asking[a].name)
  /\ UNCHANGED <<profile, names, crashes, halved>>

\* and posted
Return(a) ==
  /\ asking[a].stage = "user"
  /\ stored' = [stored EXCEPT !.users = users]
  /\ asking' = [asking EXCEPT ![a] = Idle]
  /\ UNCHANGED <<profile, names, users, crashes, halved>>

\* The call raises: listContacts or the first set before it has changed the memory;
\* the first set after that, whether or not its post has arrived, or the second
\* before it has changed its own; or the post of the second.
Raise(a) ==
  /\ asking[a].stage # "idle"
  /\ asking' = [asking EXCEPT ![a] = Idle]
  /\ stored' \in {stored} \cup
       CASE asking[a].stage = "rpc" -> {}
         [] asking[a].stage = "name" -> {[stored EXCEPT !.names = names]}
         [] asking[a].stage = "user" -> {[stored EXCEPT !.users = users]}
  /\ halved' = IF asking[a].stage = "name" THEN halved \cup {asking[a].uuid} ELSE halved
  /\ UNCHANGED <<profile, names, users, crashes>>

\* a user sets or changes the given name
Rename(u, g) ==
  /\ profile[u] # g /\ profile' = [profile EXCEPT ![u] = g]
  /\ UNCHANGED <<names, users, stored, asking, crashes, halved>>

Crash ==
  /\ crashes < MaxCrashes /\ crashes' = crashes + 1
  /\ names' = stored.names /\ users' = stored.users
  /\ asking' = [a \in Askers |-> Idle]
  /\ UNCHANGED <<profile, stored, halved>>

Next ==
  \/ \E a \in Askers, u \in Uuids : Ask(a, u)
  \/ \E a \in Askers : Contact(a) \/ SetUser(a) \/ Return(a) \/ Raise(a)
  \/ \E u \in Uuids, g \in Given : Rename(u, g)
  \/ Crash

Spec == Init /\ [][Next]_vars

------------------------------------------------------------------------------
\* a name that is shown but does not lead to its user, with nobody about to store it
Dangling(u) ==
  /\ names[u] # NoName /\ <<names[u], u>> \notin users
  /\ \A a \in Askers : asking[a].uuid # u

\* another user, of the same given name and digits, has taken the name of u over
TakenOver(u) == \E v \in Uuids \ {u} : Digits[v] = Digits[u] /\ <<names[u], v>> \in users

\* Every name shown leads back to its user, also when two tasks ask for a user
\* whose name changes in between, unless a user of the same name has taken it
\* over, or the process crashed or the call raised between the two sets.
NamesLeadBack == \A u \in Uuids : Dangling(u) => TakenOver(u) \/ u \in halved \/ crashes > 0

\* And then it stays so: the cached name is returned, never stored again (the
\* early return of get_displayname).
DanglingStays == [][\A u \in Uuids : Dangling(u) /\ crashes' = crashes => Dangling(u)']_vars
==============================================================================
