--------------------------- MODULE TenantRegistry ---------------------------
(***************************************************************************)
(* The control plane of the "separate databases" mode: the table           *)
(* tenant_registry, the tenants' databases, and the calls that provision   *)
(* and deprovision a tenant (TenantRegistry.ts, TenantProvisioner.ts).     *)
(* A provisioning registers the tenant, creates its database, runs the     *)
(* DDL, seeds it and activates the tenant, each in a round trip of its     *)
(* own; what fails on the way drops the database and marks the tenant.     *)
(***************************************************************************)
EXTENDS Naturals, FiniteSets

CONSTANTS Tenants,  \* tenant ids; the name of a database follows from the id
          Calls     \* calls of provisionTenant and deprovisionTenant

VARIABLES registry, \* the table tenant_registry, "NONE" where there is no row
          database, \* how far each tenant's database is: see Stages
          call,     \* the calls: operation, tenant and the step they are at
          halted,   \* the calls whose process has stopped
          raced,    \* history: tenants two calls have worked on at once
          astray    \* history: tenants with a call that threw when it should have written
                    \* their row (or learnt that it had), until somebody writes it

registryVars == <<registry, database, call, halted, raced, astray>>

Statuses == {"NONE", "PROVISIONING", "ACTIVE", "DEPROVISIONED"}
Stages == {"none", "empty", "begun", "migrated", "seeded"}
Idle == [op |-> "none", tenant |-> "none", pc |-> "idle"]

RegistryInit == /\ registry = [t \in Tenants |-> "NONE"]
                /\ database = [t \in Tenants |-> "none"]
                /\ call = [c \in Calls |-> Idle]
                /\ halted = {}
                /\ raced = {}
                /\ astray = {}

InWork == {c \in Calls \ halted : call[c].pc \notin {"idle", "done"}}

GoTo(c, step) == call' = [call EXCEPT ![c].pc = step]

Start(c, op, t) ==
  /\ call[c].pc = "idle"
  /\ call' = [call EXCEPT ![c] = [op |-> op, tenant |-> t, pc |-> "lookup"]]
  /\ raced' = IF \E d \in InWork : call[d].tenant = t THEN raced \union {t} ELSE raced
  /\ UNCHANGED <<registry, database, halted, astray>>

(* registerTenant refuses what is registered, outside of the try *)
MayRegister(status) == status \in {"NONE", "DEPROVISIONED"}

Lookup(c) ==
  /\ call[c].pc = "lookup"
  /\ LET status == registry[call[c].tenant]
     IN \/ /\ call[c].op = "provision"
           /\ GoTo(c, IF MayRegister(status) THEN "insert" ELSE "done")
        \/ /\ call[c].op = "deprovision"
           /\ GoTo(c, IF status = "NONE" THEN "done" ELSE "drop")
        \/ GoTo(c, "done")  \* the query fails
  /\ UNCHANGED <<registry, database, halted, raced, astray>>

Write(c, status) == registry' = [registry EXCEPT ![call[c].tenant] = status]
Fails(c) == astray' = astray \union {call[c].tenant}

UpdateStatus(c, from, to, status) ==
  /\ call[c].pc = from
  /\ Write(c, status)
  /\ GoTo(c, to)
  /\ astray' = astray \ {call[c].tenant}
  /\ UNCHANGED <<database, halted, raced>>

(* the upsert overwrites whatever another call has registered meanwhile *)
Insert(c) == UpdateStatus(c, "insert", "create", "PROVISIONING")

(* it is outside of the try: when it throws, although it may have worked, nothing cleans up *)
InsertFails(c) ==
  /\ call[c].pc = "insert"
  /\ \/ Write(c, "PROVISIONING") /\ Fails(c)
     \/ UNCHANGED <<registry, astray>>
  /\ GoTo(c, "done")
  /\ UNCHANGED <<database, halted, raced>>

CreateDatabase(c) ==
  /\ call[c].pc = "create"
  /\ database' = [database EXCEPT ![call[c].tenant] = IF @ = "none" THEN "empty" ELSE @]
  /\ GoTo(c, "migrate")
  /\ UNCHANGED <<registry, halted, raced, astray>>

(* The tables are made by a sequence of statements, each of which stays when a later one *)
(* fails.  CREATE ... IF NOT EXISTS: run again on tables that are there, they change nothing *)
CreateTables(c) ==
  /\ call[c].pc = "migrate" /\ database[call[c].tenant] # "none"
  /\ database' = [database EXCEPT ![call[c].tenant] = IF @ = "empty" THEN "begun" ELSE @]
  /\ GoTo(c, "tables")
  /\ UNCHANGED <<registry, halted, raced, astray>>

RunMigrations(c) ==
  /\ call[c].pc = "tables" /\ database[call[c].tenant] # "none"
  /\ database' = [database EXCEPT ![call[c].tenant] = IF @ = "begun" THEN "migrated" ELSE @]
  /\ GoTo(c, "seed")
  /\ UNCHANGED <<registry, halted, raced, astray>>

SeedDefaults(c) ==
  /\ call[c].pc = "seed" /\ database[call[c].tenant] \in {"migrated", "seeded"}
  /\ database' = [database EXCEPT ![call[c].tenant] = "seeded"]
  /\ GoTo(c, "activate")
  /\ UNCHANGED <<registry, halted, raced, astray>>

Activate(c) == UpdateStatus(c, "activate", "version", "ACTIVE")

(* migrated_version, which nothing reads *)
UpdateMigratedVersion(c) == /\ call[c].pc = "version"
                            /\ GoTo(c, "done")
                            /\ UNCHANGED <<registry, database, halted, raced, astray>>

(* Any round trip inside the try may fail, also the last two (and a statement that worked   *)
(* although its call threw is the step itself, followed by the failure of the next).         *)
Fail(c) == /\ call[c].op = "provision"
           /\ call[c].pc \in {"create", "migrate", "tables", "seed", "activate", "version"}
           /\ GoTo(c, "drop")
           /\ UNCHANGED <<registry, database, halted, raced, astray>>

DropDatabase(c) ==
  /\ call[c].pc = "drop"
  /\ database' = [database EXCEPT ![call[c].tenant] = "none"]
  /\ GoTo(c, "mark")
  /\ UNCHANGED <<registry, halted, raced, astray>>

(* a bug: without the inner try the cleanup throws as well *)
DropThrows(c) == /\ call[c].pc = "drop"
                 /\ GoTo(c, "done")
                 /\ UNCHANGED <<registry, database, halted, raced, astray>>

(* DROP DATABASE fails while others are connected: the cleanup goes on, deprovisionTenant throws *)
DropFails(c) == /\ call[c].pc = "drop"
                /\ GoTo(c, IF call[c].op = "provision" THEN "mark" ELSE "done")
                /\ UNCHANGED <<registry, database, halted, raced, astray>>

(* the database is dropped, but deprovisionTenant learns of an error and marks nothing *)
DropUnanswered(c) == /\ call[c].pc = "drop" /\ call[c].op = "deprovision"
                     /\ database' = [database EXCEPT ![call[c].tenant] = "none"]
                     /\ Fails(c)
                     /\ GoTo(c, "done")
                     /\ UNCHANGED <<registry, halted, raced>>

MarkDeprovisioned(c) == UpdateStatus(c, "mark", "done", "DEPROVISIONED")

(* the update that ends a cleanup or a deprovisioning throws as well: nobody tries again *)
MarkFails(c) == /\ call[c].pc = "mark"
                /\ Fails(c)
                /\ GoTo(c, "done")
                /\ UNCHANGED <<registry, database, halted, raced>>

Halt(c) == /\ c \in InWork
           /\ halted' = halted \union {c}
           /\ UNCHANGED <<registry, database, call, raced, astray>>

Step(c) == \/ \E t \in Tenants : \/ Start(c, "provision", t)
                                 \/ Start(c, "deprovision", t)
           \/ Lookup(c) \/ Insert(c) \/ InsertFails(c) \/ CreateDatabase(c)
           \/ CreateTables(c) \/ RunMigrations(c) \/ SeedDefaults(c)
           \/ Activate(c) \/ UpdateMigratedVersion(c) \/ Fail(c)
           \/ DropDatabase(c) \/ DropFails(c) \/ DropUnanswered(c)
           \/ MarkDeprovisioned(c) \/ MarkFails(c) \/ Halt(c)

RegistryNext == \E c \in Calls \ halted : Step(c)

RegistrySpec == RegistryInit /\ [][RegistryNext]_registryVars
-----------------------------------------------------------------------------
Works(c, t, steps) == call[c].tenant = t /\ call[c].pc \in steps

(* A tenant that is listed as active has a database with its tables and    *)
(* its defaults, unless a call that dropped it has not recorded that (yet, *)
(* or never, when its process stopped or the statement failed), or two     *)
(* calls worked on the tenant at once.                                     *)
ActiveHasData ==
  \A t \in Tenants \ (raced \union astray) : registry[t] = "ACTIVE" =>
    database[t] = "seeded" \/ \E c \in Calls : Works(c, t, {"mark"})

(* A tenant listed as being provisioned is in work, or its call stopped, or *)
(* a statement failed that should have written its row (the upsert itself,  *)
(* or the update in the catch); no other failure inside a call, nor any     *)
(* overlap, leaves the tenant in between.                                   *)
ProvisioningIsInWork ==
  \A t \in Tenants \ astray : registry[t] = "PROVISIONING" =>
    \E c \in Calls : Works(c, t, {"create", "migrate", "tables", "seed", "activate", "drop", "mark"})

RegistryTruthful == ActiveHasData /\ ProvisioningIsInWork
=============================================================================
