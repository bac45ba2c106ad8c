------------------------------- MODULE Roles -------------------------------
(***************************************************************************)
(* Roles, what they permit and who has them: ManageRoles.ts and the        *)
(* mutations inviteUser and updateUserRole of resolvers.ts.  Every query   *)
(* is a transaction of its own, so that other calls fall between the       *)
(* queries of a call; a row that refers to a missing role is refused, and  *)
(* a deleted role takes the rows that refer to it along.                   *)
(***************************************************************************)
EXTENDS Naturals, FiniteSets

CONSTANTS Users, BuiltIn, Custom, \* ids; a custom role has a new id each time
          Permissions,
          Calls                   \* requests that may overlap

VARIABLES users,  \* the table users
          role,   \* the tables roles and role_permissions: what an existing role permits
          held,   \* the table user_roles
          call,   \* the requests: what they do, for whom, and their step
          meant,  \* history: what the last call said that a role permits
          due,    \* history: the roles users have been given and have not lost to a call
          crossed \* history: roles that were changed or given while another call changed or deleted
                \* them, or of which a call has changed a part

vars == <<users, role, held, call, meant, due, crossed>>

Ids == BuiltIn \union Custom
Missing == [exists |-> FALSE, permits |-> {}]
Idle == [pc |-> "idle", user |-> "none", roles |-> {}, permits |-> {}]

Init == /\ users = {} /\ held = {} /\ due = {} /\ crossed = {}
        /\ role \in [Ids -> [exists : BOOLEAN, permits : SUBSET Permissions]]
        /\ \A r \in Ids : role[r].exists = (r \in BuiltIn)
                          /\ (r \in BuiltIn <=> role[r].permits # {})
        /\ meant = [r \in Ids |-> role[r].permits]
        /\ call = [c \in Calls |-> Idle]

Exists(r) == role[r].exists
Goes(c, step) == call' = [call EXCEPT ![c].pc = step]
Ends(c) == call' = [call EXCEPT ![c] = Idle]
Begins(c, step, user, ids, permits) ==
  call' = [call EXCEPT ![c] = [pc |-> step, user |-> user, roles |-> ids, permits |-> permits]]
Cross(ids) == crossed' = crossed \union ids
(* the roles that another call is changing, deleting, or giving to somebody *)
InWork(c, ids, steps) == {r \in ids : \E d \in Calls \ {c} : r \in call[d].roles /\ call[d].pc \in steps}
Changing == {"clear", "fill"}
Deleting == {"strip", "drop"}
Giving == {"assign", "look", "make", "give"}

(* one nested create *)
CreateCustomRole(r, permits) ==
  /\ r \in Custom /\ ~Exists(r) /\ \A c \in Calls : r \notin call[c].roles
  /\ role' = [role EXCEPT ![r] = [exists |-> TRUE, permits |-> permits]]
  /\ meant' = [meant EXCEPT ![r] = permits]
  /\ UNCHANGED <<users, held, call, due, crossed>>

(*------------------------- updateRolePermissions ------------------------*)
FindForUpdate(c, r, permits) ==
  /\ call[c].pc = "idle" /\ Exists(r)
  /\ Begins(c, "clear", "none", {r}, permits)
  /\ Cross(InWork(c, {r}, Changing \union Deleting))
  /\ UNCHANGED <<users, role, held, meant, due>>

ClearPermissions(c) ==
  /\ call[c].pc = "clear"
  /\ role' = [r \in Ids |-> IF r \in call[c].roles THEN [role[r] EXCEPT !.permits = {}] ELSE role[r]]
  /\ Goes(c, "fill")
  /\ UNCHANGED <<users, held, meant, due, crossed>>

FillPermissions(c) ==
  LET r == CHOOSE x \in call[c].roles : TRUE
  IN /\ call[c].pc = "fill"
     /\ IF Exists(r)
        THEN /\ role' = [role EXCEPT ![r].permits = @ \union call[c].permits]
             /\ meant' = [meant EXCEPT ![r] = call[c].permits]
        ELSE UNCHANGED <<role, meant>>
     /\ Ends(c)
     /\ UNCHANGED <<users, held, due, crossed>>

(*--------------------------- deleteCustomRole ---------------------------*)
(* a bug: nobody asks who has the role *)
Deletes(r) == Exists(r) /\ r \in Custom
Deletable(r) == Exists(r) /\ r \in Custom /\ \A u \in Users : <<u, r>> \notin held

FindForDelete(c, r) ==
  /\ call[c].pc = "idle" /\ Deletable(r)
  /\ Begins(c, "strip", "none", {r}, {})
  /\ Cross(InWork(c, {r}, Changing \union Deleting \union Giving))
  /\ UNCHANGED <<users, role, held, meant, due>>

StripPermissions(c) ==
  /\ call[c].pc = "strip"
  /\ role' = [r \in Ids |-> IF r \in call[c].roles THEN [role[r] EXCEPT !.permits = {}] ELSE role[r]]
  /\ Goes(c, "drop")
  /\ UNCHANGED <<users, held, meant, due, crossed>>

DropRole(c) ==
  /\ call[c].pc = "drop"
  /\ role' = [r \in Ids |-> IF r \in call[c].roles THEN Missing ELSE role[r]]
  /\ held' = {h \in held : h[2] \notin call[c].roles}
  /\ meant' = [r \in Ids |-> IF r \in call[c].roles THEN {} ELSE meant[r]]
  /\ Ends(c)
  /\ UNCHANGED <<users, due, crossed>>

(*-------------------------- users and their roles -----------------------*)
FindForAssign(c, u, ids) ==
  /\ call[c].pc = "idle" /\ u \in users /\ ids # {} /\ \A r \in ids : Exists(r)
  /\ Begins(c, "assign", u, ids, {})
  /\ Cross(InWork(c, ids, Deleting))
  /\ UNCHANGED <<users, role, held, meant, due>>

Give(c) == /\ held' = held \union ({call[c].user} \X call[c].roles)
           /\ due' = due \union ({call[c].user} \X call[c].roles)

AssignRoles(c) ==
  /\ call[c].pc = "assign"
  /\ IF \A r \in call[c].roles : Exists(r) THEN Give(c) ELSE UNCHANGED <<held, due>>
  /\ Ends(c)
  /\ UNCHANGED <<users, role, meant, crossed>>

RemoveRoles(u, ids) ==
  /\ ids # {} /\ held' = held \ ({u} \X ids) /\ due' = due \ ({u} \X ids)
  /\ UNCHANGED <<users, role, call, meant, crossed>>

InviteUser(c, u, r) ==
  /\ call[c].pc = "idle" /\ u \notin users
  /\ users' = users \union {u}
  /\ Begins(c, "look", u, {r}, {})
  /\ Cross(InWork(c, {r}, Deleting))
  /\ UNCHANGED <<role, held, meant, due>>

UpdateUserRole(c, u, r) ==
  /\ call[c].pc = "idle" /\ u \in users
  /\ held' = {h \in held : h[1] # u} /\ due' = {h \in due : h[1] # u}
  /\ Begins(c, "look", u, {r}, {})
  /\ Cross(InWork(c, {r}, Deleting))
  /\ UNCHANGED <<users, role, meant>>

(* a role that is not there is made, without permissions; if it has come *)
(* meanwhile the call fails                                              *)
LookForRole(c) ==
  /\ call[c].pc = "look"
  /\ Goes(c, IF \A r \in call[c].roles : Exists(r) THEN "give" ELSE "make")
  /\ UNCHANGED <<users, role, held, meant, due, crossed>>

MakeRole(c) ==
  /\ call[c].pc = "make"
  /\ IF \E r \in call[c].roles : Exists(r)
     THEN UNCHANGED role /\ Ends(c)
     ELSE /\ role' = [r \in Ids |-> IF r \in call[c].roles THEN [Missing EXCEPT !.exists = TRUE] ELSE role[r]]
          /\ Goes(c, "give")
  /\ UNCHANGED <<users, held, meant, due, crossed>>

GiveRole(c) ==
  /\ call[c].pc = "give"
  /\ IF \A r \in call[c].roles : Exists(r) /\ <<call[c].user, r>> \notin held
     THEN Give(c) ELSE UNCHANGED <<held, due>>
  /\ Ends(c)
  /\ UNCHANGED <<users, role, meant, crossed>>

(* a query fails, or the process stops: the queries that are done stay *)
Stop(c) == /\ call[c].pc # "idle"
           /\ IF call[c].pc \in {"fill", "drop"} THEN Cross(call[c].roles) ELSE UNCHANGED crossed
           /\ Ends(c)
           /\ UNCHANGED <<users, role, held, meant, due>>

Next == \/ \E r \in Ids, permits \in SUBSET Permissions : CreateCustomRole(r, permits)
        \/ \E u \in Users, ids \in SUBSET Ids : RemoveRoles(u, ids)
        \/ \E c \in Calls :
             \/ \E r \in Ids, permits \in SUBSET Permissions : FindForUpdate(c, r, permits)
             \/ \E r \in Ids : FindForDelete(c, r)
             \/ \E u \in Users, ids \in SUBSET Ids : FindForAssign(c, u, ids)
             \/ \E u \in Users, r \in Ids : InviteUser(c, u, r) \/ UpdateUserRole(c, u, r)
             \/ ClearPermissions(c) \/ FillPermissions(c) \/ StripPermissions(c) \/ DropRole(c)
             \/ AssignRoles(c) \/ LookForRole(c) \/ MakeRole(c) \/ GiveRole(c) \/ Stop(c)

Spec == Init /\ [][Next]_vars
-----------------------------------------------------------------------------
(* A role that no call is changing permits what the last call said, all of *)
(* it and nothing else, unless calls have crossed each other on the role.  *)
PermitsStand ==
  \A r \in Ids \ crossed :
    (\A c \in Calls : r \in call[c].roles => call[c].pc \in Giving) => role[r].permits = meant[r]

(* No deletion takes a role from a user who has been given it, unless it   *)
(* was given while the role was being deleted.                             *)
HoldersStand == \A h \in due : h[2] \in crossed \/ h \in held

RolesSound == PermitsStand /\ HoldersStand
=============================================================================
