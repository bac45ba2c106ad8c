----------------------------- MODULE TenantPool -----------------------------
(***************************************************************************)
(* The cache of one database client per tenant (TenantConnectionPool.ts),  *)
(* the requests that ask it for a client, the loop that evicts idle        *)
(* entries, the warming at startup and the shutdown, over the registry and *)
(* its calls.  JavaScript runs a step to its next await; what is awaited   *)
(* is the lookup in the registry, the disconnection of a client and (for   *)
(* an instant) its creation.                                               *)
(*                                                                         *)
(* A client is known by a number, in the order of creation; which entries  *)
(* are idle for long enough is any choice.                                 *)
(***************************************************************************)
EXTENDS TenantRegistry, SequencesExt

CONSTANTS Requests,   \* requests that resolve the client of their tenant
          MaxSize,    \* maxSize of the pool, at least 1
          MaxClients  \* bound: clients created in all

VARIABLES cache,    \* the entries of the Map in insertion order: least recently used first
          client,   \* per client created: its tenant and whether it is open, closing or closed
          request,  \* the requests: tenant, step, the entry they evict, the client they got
          sweep,    \* the eviction loop: the keys it still has to evict, the entry in work
          server,   \* "starting", "warming", "serving", "stopping" or "stopped"
          collided  \* history: tenants whose lookup or eviction overlapped another lookup

poolVars == <<cache, client, request, sweep, server, collided>>
None == 0
NoTenant == "none"
Asleep == [tenant |-> NoTenant, pc |-> "idle", victim |-> None, got |-> None]

Entry(t, k) == [tenant |-> t, id |-> k]
Cached(t) == \E i \in DOMAIN cache : cache[i].tenant = t
IdOf(t) == (CHOOSE e \in Range(cache) : e.tenant = t).id
Without(s, t) == IF \E i \in DOMAIN s : s[i].tenant = t
                 THEN RemoveAt(s, CHOOSE i \in DOMAIN s : s[i].tenant = t) ELSE s
(* Map.set on a fresh key appends; on a key that is there it keeps the place and drops the old entry *)
SetEntry(s, e) == IF \E i \in DOMAIN s : s[i].tenant = e.tenant
                  THEN [i \in DOMAIN s |-> IF s[i].tenant = e.tenant THEN e ELSE s[i]]
                  ELSE Append(s, e)

PoolInit == /\ cache = <<>> /\ client = <<>>
            /\ request = [r \in Requests |-> Asleep]
            /\ sweep = [keys |-> {}, id |-> None, tenant |-> NoTenant]
            /\ server = "starting" /\ collided = {}

Connect(t) == client' = Append(client, [tenant |-> t, state |-> "open"])
Disconnecting(k) == client' = [client EXCEPT ![k].state = "closing"]
Disconnected(k) == client' = [client EXCEPT ![k].state = "closed"]

(* warmPool at startup: the active tenants are listed, then a client each *)
WarmPool ==
  \E active \in SUBSET {t \in Tenants : registry[t] = "ACTIVE"} :
    \E chosen \in SetToSeqs(active) :  \* less than all: over maxSize, or an error was logged
       /\ server = "starting" /\ Len(chosen) <= MaxSize /\ Len(chosen) <= MaxClients
       /\ cache' = [i \in DOMAIN chosen |-> Entry(chosen[i], i)]
       /\ client' = [i \in DOMAIN chosen |-> [tenant |-> chosen[i], state |-> "open"]]
       /\ server' = "serving"
       /\ UNCHANGED <<request, sweep, collided>>

Waiting(t) == {r \in Requests : request[r].tenant = t
                                /\ request[r].pc \in {"lookup", "evict", "create"}}

(* getClient: a hit moves the entry to the end, whatever the registry says by now *)
Hit(r, t) ==
  /\ server \in {"serving", "stopping"} /\ request[r].pc = "idle" /\ Cached(t)
  /\ cache' = Append(Without(cache, t), Entry(t, IdOf(t)))
  /\ request' = [request EXCEPT ![r] = [tenant |-> t, pc |-> "has", victim |-> None, got |-> IdOf(t)]]
  /\ UNCHANGED <<client, sweep, server, collided>>

Miss(r, t) ==
  /\ server \in {"serving", "stopping"} /\ request[r].pc = "idle" /\ ~Cached(t)
  /\ request' = [request EXCEPT ![r] = [tenant |-> t, pc |-> "lookup", victim |-> None, got |-> None]]
  /\ collided' = IF Waiting(t) # {} \/ (sweep.id # None /\ sweep.tenant = t)
                 THEN collided \union {t} ELSE collided
  /\ UNCHANGED <<cache, client, sweep, server>>

Refused(r) == /\ request[r].pc = "lookup" /\ registry[request[r].tenant] # "ACTIVE"
              /\ request' = [request EXCEPT ![r] = Asleep]
              /\ UNCHANGED <<cache, client, sweep, server, collided>>

(* a bug: off by one *)
FullLate(size) == size > MaxSize
Full(size) == size >= MaxSize

(* the oldest entry leaves the cache before its client is closed *)
MakeRoom(r) ==
  /\ request[r].pc = "lookup" /\ registry[request[r].tenant] = "ACTIVE"
  /\ IF Full(Len(cache))
     THEN /\ cache' = Tail(cache)
          /\ Disconnecting(Head(cache).id)
          /\ request' = [request EXCEPT ![r].pc = "evict", ![r].victim = Head(cache).id]
     ELSE /\ request' = [request EXCEPT ![r].pc = "create"]
          /\ UNCHANGED <<cache, client>>
  /\ UNCHANGED <<sweep, server, collided>>

EvictLRU(r) == /\ request[r].pc = "evict"
               /\ Disconnected(request[r].victim)
               /\ request' = [request EXCEPT ![r].pc = "create", ![r].victim = None]
               /\ UNCHANGED <<cache, sweep, server, collided>>

(* the client created replaces one that another request has put there meanwhile *)
CreateClient(r) ==
  LET t == request[r].tenant
      k == Len(client) + 1
  IN /\ request[r].pc = "create" /\ k <= MaxClients
     /\ Connect(t)
     /\ cache' = SetEntry(cache, Entry(t, k))
     /\ request' = [request EXCEPT ![r].pc = "has", ![r].got = k]
     /\ UNCHANGED <<sweep, server, collided>>

(* the request ends: its proxy forgets the client, which stays in the pool *)
EndRequest(r) == /\ request[r].pc = "has"
                 /\ request' = [request EXCEPT ![r] = Asleep]
                 /\ UNCHANGED <<cache, client, sweep, server, collided>>

(* the eviction loop notes the idle keys and evicts them one after the other *)
FindIdle == /\ server = "serving" /\ sweep.keys = {} /\ sweep.id = None
            /\ \E keys \in SUBSET {e.tenant : e \in Range(cache)} \ {{}} :
                 sweep' = [sweep EXCEPT !.keys = keys]
            /\ UNCHANGED <<cache, client, request, server, collided>>

Evict == /\ sweep.id = None
         /\ \E t \in sweep.keys :
              /\ IF Cached(t)
                 THEN /\ sweep' = [keys |-> sweep.keys \ {t}, tenant |-> t, id |-> IdOf(t)]
                      /\ Disconnecting(IdOf(t))
                      /\ collided' = IF Waiting(t) # {} THEN collided \union {t} ELSE collided
                 ELSE /\ sweep' = [sweep EXCEPT !.keys = @ \ {t}]
                      /\ UNCHANGED <<client, collided>>
         /\ UNCHANGED <<cache, request, server>>

(* the entry is forgotten only now, and so is one that has replaced it meanwhile *)
EvictDone == /\ sweep.id # None
             /\ Disconnected(sweep.id)
             /\ cache' = Without(cache, sweep.tenant)
             /\ sweep' = [sweep EXCEPT !.id = None, !.tenant = NoTenant]
             /\ UNCHANGED <<request, server, collided>>

(* shutdown: the timer stops, the entries are closed in their order, the cache is cleared at the end *)
Shutdown == /\ server = "serving"
            /\ server' = "stopping"
            /\ UNCHANGED <<cache, client, request, sweep, collided>>

CloseEntry == /\ server = "stopping"
              /\ \E e \in Range(cache) : client[e.id].state # "closed" /\ Disconnected(e.id)
              /\ UNCHANGED <<cache, request, sweep, server, collided>>

Stop == /\ server = "stopping" /\ \A e \in Range(cache) : client[e.id].state = "closed"
        /\ cache' = <<>> /\ server' = "stopped"
        /\ UNCHANGED <<client, request, sweep, collided>>

PoolNext == \/ WarmPool \/ FindIdle \/ Evict \/ EvictDone \/ Shutdown \/ CloseEntry \/ Stop
            \/ \E r \in Requests :
                 \/ \E t \in Tenants : Hit(r, t) \/ Miss(r, t)
                 \/ Refused(r) \/ MakeRoom(r) \/ EvictLRU(r) \/ CreateClient(r) \/ EndRequest(r)

Init == RegistryInit /\ PoolInit
Next == \/ RegistryNext /\ UNCHANGED poolVars
        \/ PoolNext /\ UNCHANGED registryVars
-----------------------------------------------------------------------------
(* The pool never holds more clients than maxSize and the requests that    *)
(* overlap: each may have found room, but they do not add up over time.    *)
PoolBounded == Len(cache) <= MaxSize + Cardinality(Requests) - 1

(* No client is forgotten while it is connected: it is in the pool, or a   *)
(* request is about to close it, unless lookups of its tenant overlapped   *)
(* each other or its eviction.                                             *)
ForgottenAreClosed ==
  \A k \in DOMAIN client : client[k].state = "open" =>
    \/ client[k].tenant \in collided
    \/ Entry(client[k].tenant, k) \in Range(cache)
    \/ \E r \in Requests : request[r].victim = k

(* A client in the pool is open until the shutdown; only the one the       *)
(* eviction loop is closing at the moment is still handed out.             *)
CachedAreOpen ==
  server \in {"starting", "serving"} =>
    \A e \in Range(cache) : client[e.id].state = "open" \/ sweep.id = e.id

PoolAccounted == PoolBounded /\ ForgottenAreClosed /\ CachedAreOpen
=============================================================================
