----------------------- MODULE ServiceRegistryProofs -----------------------
(***************************************************************************)
(* Proofs about ServiceRegistry: the types, that names and owners agree,   *)
(* and that whatever is cached is watched, for any numbers of services,    *)
(* owners, objects and listeners, whatever is given up and also when       *)
(* owners claim names again or services share paths.  Then about the       *)
(* proxies that listen, for any numbers of requests, callers and blocked   *)
(* threads: type correctness, that a waiting request has a thread, that    *)
(* the thread object is handled safely when one application thread asks,   *)
(* and that the contract is implemented.                                   *)
(***************************************************************************)
EXTENDS ServiceRegistry, ProxyAvailability, FiniteSetTheorems, TLAPS

-----------------------------------------------------------------------------
(* The inductive invariant, stated of a state r of the registry, for the   *)
(* lemmas about the registry's functions.                                  *)

(* A service has an owner exactly while it is resolved.                    *)
Named(r) ==
  \A s \in Services : r.names[s].unique # None <=> r.names[s].state = "RESOLVED"

Agree(r) ==
  \A s \in Services, u \in Owners :
    s \in r.owned[u] <=> r.names[s] = Name("RESOLVED", u)

Cached(r, u, p) == r.caches[u][p].state # "absent"
Watched(r) ==
  \A u \in Owners, p \in Paths : Cached(r, u, p) => r.watches[u] > 0

Sound(r) == r \in Registry /\ Named(r) /\ Agree(r) /\ Watched(r)
IndInv == TypeOK /\ Sound(reg)

(* What the invariant speaks of is the same in both states.                *)
Same(r, t) ==
  /\ t.names = r.names /\ t.owned = r.owned /\ t.watches = r.watches
  /\ \A u \in Owners, p \in Paths : Cached(t, u, p) <=> Cached(r, u, p)

Cache ==
  [state : PathStates, service : Services \cup {None},
   ifaces : SUBSET Objects, pending : 0 .. Calls - 1]

USE RegistryAssumption DEF Managers

LEMMA SameSound ==
  ASSUME NEW r, NEW t, Sound(r), t \in Registry, Same(r, t)
  PROVE  Sound(t)
BY DEF Sound, Same, Named, Agree, Watched

-----------------------------------------------------------------------------
(* Lemmas about the registry's functions.                                  *)

LEMMA TellFrame ==
  ASSUME NEW r \in Registry, NEW slots, NEW verdict \in Statuses
  PROVE  LET t == Tell(r, slots, verdict)
         IN t \in Registry /\ Same(r, t) /\ t.caches = r.caches
BY DEF Tell, Registry, Same, Cached, Statuses, RecordStates

LEMMA RegistryFields ==
  ASSUME NEW r \in Registry, NEW owned \in [Owners -> SUBSET Services],
         NEW caches \in [Owners -> [Paths -> Cache]], NEW watches \in [Owners -> Nat],
         NEW sent \in Seq(Request)
  PROVE  [r EXCEPT !.owned = owned, !.caches = caches, !.watches = watches,
                   !.sent = sent] \in Registry
BY DEF Registry, Cache

LEMMA RegistryTypes ==
  ASSUME NEW r \in Registry
  PROVE  /\ r.owned \in [Owners -> SUBSET Services]
         /\ r.caches \in [Owners -> [Paths -> Cache]]
         /\ r.watches \in [Owners -> Nat] /\ r.sent \in Seq(Request)
BY DEF Registry, Cache

LEMMA RemoveUniqueNameFrame ==
  ASSUME NEW r \in Registry, NEW u \in Owners, NEW s \in Services
  PROVE  LET t == RemoveUniqueName(r, u, s)
         IN /\ t \in Registry
            /\ t.names = r.names
            /\ t.owned = [r.owned EXCEPT ![u] = @ \ {s}]
            /\ Watched(r) => Watched(t)
<1> DEFINE t == RemoveUniqueName(r, u, s)
<1>0. Absent \in Cache
  BY DEF Absent, Cache, PathStates
<1>1. CASE r.owned[u] \subseteq {s}
  <2>1. t = [r EXCEPT !.owned[u] = {},
                      !.caches[u] = [p \in Paths |-> Absent],
                      !.watches[u] = IF @ = 0 THEN 0 ELSE @ - 1]
    BY <1>1 DEF RemoveUniqueName
  <2>2. t \in Registry
    <3> DEFINE caches == [r.caches EXCEPT ![u] = [p \in Paths |-> Absent]]
               owned == [r.owned EXCEPT ![u] = {}]
               watches == [r.watches EXCEPT ![u] = IF @ = 0 THEN 0 ELSE @ - 1]
    <3>1. /\ owned \in [Owners -> SUBSET Services]
          /\ caches \in [Owners -> [Paths -> Cache]] /\ watches \in [Owners -> Nat]
      BY <1>0, RegistryTypes
    <3>2. t = [r EXCEPT !.owned = owned, !.caches = caches, !.watches = watches,
                        !.sent = r.sent]
      BY <2>1 DEF Registry
    <3> HIDE DEF t, owned, caches, watches
    <3> QED BY <3>1, <3>2, RegistryTypes, RegistryFields
  <2>3. t.names = r.names /\ t.owned = [r.owned EXCEPT ![u] = @ \ {s}]
    <3>1. r.owned[u] \ {s} = {}
      BY <1>1
    <3> QED BY <2>1, <3>1 DEF Registry
  <2>4. Watched(r) => Watched(t)
    BY <2>1 DEF Registry, Watched, Cached, Absent
  <2> QED BY <2>2, <2>3, <2>4
<1>2. CASE ~(r.owned[u] \subseteq {s})
  <2>1. t = [r EXCEPT !.owned[u] = @ \ {s},
                      !.caches[u] = [p \in Paths |-> IF @[p].service = s
                                                       THEN Absent ELSE @[p]]]
    BY <1>2 DEF RemoveUniqueName
  <2>2. t \in Registry
    <3> DEFINE caches == [r.caches EXCEPT ![u] =
                 [p \in Paths |-> IF @[p].service = s THEN Absent ELSE @[p]]]
               owned == [r.owned EXCEPT ![u] = @ \ {s}]
    <3>1. /\ owned \in [Owners -> SUBSET Services]
          /\ caches \in [Owners -> [Paths -> Cache]]
      BY <1>0, RegistryTypes
    <3>2. t = [r EXCEPT !.owned = owned, !.caches = caches, !.watches = r.watches,
                        !.sent = r.sent]
      BY <2>1 DEF Registry
    <3> HIDE DEF t, owned, caches
    <3> QED BY <3>1, <3>2, RegistryTypes, RegistryFields
  <2>3. t.names = r.names /\ t.owned = [r.owned EXCEPT ![u] = @ \ {s}]
    BY <2>1 DEF Registry
  <2>4. Watched(r) => Watched(t)
    BY <2>1 DEF Registry, Watched, Cached, Absent
  <2> QED BY <2>2, <2>3, <2>4
<1> QED BY <1>1, <1>2

LEMMA ServiceNotAvailableFrame ==
  ASSUME NEW r \in Registry, NEW s \in Services
  PROVE  LET t == ServiceNotAvailable(r, s)
             u == r.names[s].unique
         IN /\ t \in Registry
            /\ t.names = [r.names EXCEPT ![s] = Name("NOT_AVAILABLE", None)]
            /\ t.owned = IF u = None THEN r.owned
                         ELSE [r.owned EXCEPT ![u] = @ \ {s}]
            /\ Watched(r) => Watched(t)
<1> DEFINE u == r.names[s].unique
           removed == IF u # None /\ HasRecord(r, u) THEN RemoveUniqueName(r, u, s) ELSE r
           cleared == [removed EXCEPT !.names[s] = Name("NOT_AVAILABLE", None)]
<1>1. u \in Owner
  BY DEF Registry
<1>2. /\ removed \in Registry
      /\ removed.names = r.names
      /\ removed.owned = IF u = None THEN r.owned ELSE [r.owned EXCEPT ![u] = @ \ {s}]
      /\ Watched(r) => Watched(removed)
  <2>1. CASE u # None /\ HasRecord(r, u)
    BY <2>1, <1>1, RemoveUniqueNameFrame DEF Owner
  <2>2. CASE u = None
    BY <2>2
  <2>3. CASE u # None /\ ~HasRecord(r, u)
    <3>1. [r.owned EXCEPT ![u] = @ \ {s}] = r.owned
      BY <2>3, <1>1 DEF HasRecord, Registry, Owner
    <3> QED BY <2>3, <3>1
  <2> QED BY <2>1, <2>2, <2>3
<1> HIDE DEF removed
<1>3. Name("NOT_AVAILABLE", None) \in [state : NameStates, unique : Owner]
  BY DEF Name, NameStates, Owner
<1>4. /\ cleared \in Registry
      /\ cleared.names = [r.names EXCEPT ![s] = Name("NOT_AVAILABLE", None)]
      /\ cleared.owned = removed.owned /\ cleared.watches = removed.watches
      /\ cleared.caches = removed.caches
  BY <1>2, <1>3 DEF Registry
<1>5. Watched(r) => Watched(cleared)
  BY <1>2, <1>4 DEF Watched, Cached
<1> HIDE DEF cleared
<1>6. ServiceNotAvailable(r, s) = Tell(cleared, {s} \X Objects, "NOT_AVAILABLE")
  BY DEF ServiceNotAvailable, cleared, removed
<1>7. LET t == Tell(cleared, {s} \X Objects, "NOT_AVAILABLE")
      IN t \in Registry /\ Same(cleared, t)
  BY <1>4, TellFrame DEF Statuses
<1> QED BY <1>2, <1>4, <1>5, <1>6, <1>7 DEF Same, Watched

(* The loss of a name keeps the invariant.                                 *)
LEMMA ServiceNotAvailableSound ==
  ASSUME NEW r, Sound(r), NEW s \in Services
  PROVE  Sound(ServiceNotAvailable(r, s))
<1> DEFINE t == ServiceNotAvailable(r, s)
           u == r.names[s].unique
<1>1. r \in Registry /\ u \in Owner
  BY DEF Sound, Registry
<1>2. /\ t \in Registry
      /\ t.names = [r.names EXCEPT ![s] = Name("NOT_AVAILABLE", None)]
      /\ t.owned = IF u = None THEN r.owned ELSE [r.owned EXCEPT ![u] = @ \ {s}]
      /\ Watched(t)
  BY <1>1, ServiceNotAvailableFrame DEF Sound
<1> HIDE DEF t
<1>3. Named(t)
  BY <1>1, <1>2 DEF Sound, Named, Name, Registry
<1>4. Agree(t)
  <2> SUFFICES ASSUME NEW q \in Services, NEW v \in Owners
               PROVE  q \in t.owned[v] <=> t.names[q] = Name("RESOLVED", v)
    BY DEF Agree
  <2>1. q \in r.owned[v] <=> r.names[q] = Name("RESOLVED", v)
    BY DEF Sound, Agree
  <2>2. CASE q = s
    <3>1. t.names[q] # Name("RESOLVED", v)
      BY <2>2, <1>1, <1>2 DEF Name, Registry
    <3>2. v # u => q \notin r.owned[v]
      BY <2>1, <2>2 DEF Name
    <3>3. q \notin t.owned[v]
      BY <2>2, <1>1, <1>2, <3>2 DEF Registry
    <3> QED BY <3>1, <3>3
  <2>3. CASE q # s
    <3>1. t.names[q] = r.names[q]
      BY <2>3, <1>1, <1>2 DEF Registry
    <3>2. q \in t.owned[v] <=> q \in r.owned[v]
      BY <2>3, <1>1, <1>2 DEF Registry
    <3> QED BY <2>1, <3>1, <3>2
  <2> QED BY <2>2, <2>3
<1> QED BY <1>2, <1>3, <1>4 DEF Sound, t

(* The calls that a set of paths causes are a sequence of requests.        *)
LEMMA CallsTyped ==
  ASSUME NEW u \in Owners, NEW new \in SUBSET Paths
  PROVE  SetToSeq({ObjectsRequest(u, p, Root) : p \in new}) \in Seq(Request)
<1> DEFINE S == {ObjectsRequest(u, p, Root) : p \in new}
           f == [p \in new |-> ObjectsRequest(u, p, Root)]
<1>1. IsFiniteSet(new)
  BY FS_Subset
<1>2. f \in Surjection(new, S)
  BY DEF Surjection
<1>3. IsFiniteSet(S)
  BY <1>1, <1>2, FS_Surjection
<1>4. S \subseteq Request
  BY DEF ObjectsRequest, Request
<1> HIDE DEF S
<1>5. Cardinality(S) \in Nat /\ ExistsBijection(1 .. Cardinality(S), S)
  BY <1>3, FS_CardinalityType
<1>6. PICK g \in [1 .. Cardinality(S) -> S] : IsInjective(g)
  BY <1>5 DEF ExistsBijection, Bijection, Injection
<1>7. SetToSeq(S) \in [1 .. Cardinality(S) -> S]
  BY <1>6 DEF SetToSeq
<1>8. SetToSeq(S) \in Seq(S)
  BY <1>5, <1>7
<1>9. SetToSeq(S) \in Seq(Request)
  BY <1>4, <1>8
<1> QED BY <1>9 DEF S

LEMMA CachePathsFrame ==
  ASSUME NEW r \in Registry, NEW u \in Owners, NEW s \in Services,
         NEW paths \in SUBSET Paths
  PROVE  LET t == CachePaths(r, u, s, paths)
         IN /\ t \in Registry
            /\ t.names = r.names /\ t.owned = r.owned
            /\ Watched(r) => Watched(t)
<1> DEFINE t == CachePaths(r, u, s, paths)
           new == {p \in paths : r.caches[u][p].state = "absent"}
           first == new # {} /\ \A p \in Paths : r.caches[u][p].state = "absent"
           entry == [Absent EXCEPT !.state = "RESOLVING", !.service = s,
                                   !.pending = 1 % Calls]
           caches == [r.caches EXCEPT ![u] =
             [p \in Paths |-> IF p \in new THEN entry ELSE @[p]]]
           watches == [r.watches EXCEPT ![u] = IF first THEN @ + 1 ELSE @]
           sent == r.sent \o SetToSeq({ObjectsRequest(u, p, Root) : p \in new})
<1>1. t = [r EXCEPT !.owned = r.owned, !.caches = caches, !.watches = watches,
                    !.sent = sent]
  BY DEF CachePaths, Registry
<1>2. entry \in Cache
  <2>1. 1 % Calls \in 0 .. Calls - 1
    OBVIOUS
  <2> QED BY <2>1 DEF Absent, Cache, PathStates
<1>3. /\ caches \in [Owners -> [Paths -> Cache]]
      /\ \A v \in Owners, p \in Paths :
           caches[v][p] = IF v = u /\ p \in new THEN entry ELSE r.caches[v][p]
  <2> HIDE DEF entry, new
  <2> QED BY <1>2, RegistryTypes
<1>4. /\ watches \in [Owners -> Nat]
      /\ \A v \in Owners : watches[v] = IF v = u /\ first THEN r.watches[v] + 1
                                                        ELSE r.watches[v]
  <2> HIDE DEF first
  <2> QED BY RegistryTypes
<1>5. sent \in Seq(Request)
  <2>1. new \in SUBSET Paths
    OBVIOUS
  <2> HIDE DEF new
  <2>2. SetToSeq({ObjectsRequest(u, p, Root) : p \in new}) \in Seq(Request)
    BY <2>1, CallsTyped
  <2> QED BY <2>2, RegistryTypes
<1>6. t \in Registry
  <2> HIDE DEF t, caches, watches, sent
  <2> QED BY <1>1, <1>3, <1>4, <1>5, RegistryTypes, RegistryFields
<1>7. /\ t.names = r.names /\ t.owned = r.owned
      /\ t.caches = caches /\ t.watches = watches
  <2> HIDE DEF t, caches, watches, sent
  <2> QED BY <1>1 DEF Registry
<1>8. ASSUME Watched(r) PROVE Watched(t)
  <2> SUFFICES ASSUME NEW v \in Owners, NEW p \in Paths, Cached(t, v, p)
               PROVE  t.watches[v] > 0
    BY DEF Watched
  <2>1. CASE Cached(r, v, p)
    <3>1. r.watches[v] > 0 /\ r.watches[v] \in Nat
      BY <1>8, <2>1, RegistryTypes DEF Watched
    <3> HIDE DEF t, first, watches
    <3> QED BY <3>1, <1>4, <1>7
  <2>2. CASE ~Cached(r, v, p)
    <3>1. v = u /\ p \in new
      <4> HIDE DEF t, caches, new, entry
      <4> QED BY <2>2, <1>3, <1>7 DEF Cached
    <3>2. CASE first
      <4>1. r.watches[v] \in Nat
        BY RegistryTypes
      <4> HIDE DEF t, first, watches
      <4> QED BY <4>1, <3>1, <3>2, <1>4, <1>7
    <3>3. CASE ~first
      <4>1. PICK q \in Paths : Cached(r, u, q)
        BY <3>1, <3>3 DEF Cached
      <4>2. r.watches[v] > 0 /\ r.watches[v] \in Nat
        BY <1>8, <3>1, <4>1, RegistryTypes DEF Watched
      <4> HIDE DEF t, first, watches
      <4> QED BY <4>2, <3>3, <1>4, <1>7
    <3> QED BY <3>2, <3>3
  <2> QED BY <2>1, <2>2
<1> HIDE DEF t
<1> QED BY <1>6, <1>7, <1>8 DEF t

LEMMA ObservedPathsTyped ==
  ASSUME NEW r, NEW s PROVE ObservedPaths(r, s) \in SUBSET Paths
BY DEF ObservedPaths

LEMMA CheckServiceWasAvailableSound ==
  ASSUME NEW r, Sound(r), NEW s \in Services, NEW u
  PROVE  Sound(CheckServiceWasAvailable(r, s, u))
BY ServiceNotAvailableSound DEF CheckServiceWasAvailable

(* A new owner keeps the invariant: the owner it replaces has lost the     *)
(* name by the time the service is resolved to the new one.                *)
LEMMA ServiceAvailableSound ==
  ASSUME NEW r, Sound(r), NEW s \in Services, NEW u \in Owners
  PROVE  Sound(ServiceAvailable(r, s, u))
<1> DEFINE inserted == InsertServiceNameMapping(r, s, u)
           before == inserted.names[s]
           replaced == IF before.state = "RESOLVED" /\ before.unique # u
                         THEN CheckServiceWasAvailable(inserted, s, before.unique)
                         ELSE inserted
           named == [replaced EXCEPT !.names[s] = Name("RESOLVED", u)]
           paths == ObservedPaths(named, s)
           cached == CachePaths(named, u, s, paths)
           resolved == {p \in paths : cached.caches[u][p].state = "RESOLVED"}
           ifaces == UNION {cached.caches[u][p].ifaces : p \in resolved}
<1>1. r \in Registry /\ Named(r) /\ Agree(r) /\ Watched(r)
  BY DEF Sound
<1>2. /\ inserted \in Registry
      /\ inserted.owned = [r.owned EXCEPT ![u] = @ \cup {s}]
      /\ inserted.names = [r.names EXCEPT ![s] =
           IF @.state = "RESOLVED" THEN @ ELSE Name("UNKNOWN", u)]
      /\ \A q \in Services, w \in Owners :
           q \in inserted.owned[w] <=> q \in r.owned[w] \/ (q = s /\ w = u)
      /\ Watched(inserted)
  <2>1. Name("UNKNOWN", u) \in [state : NameStates, unique : Owner]
    BY DEF Name, NameStates, Owner
  <2> QED BY <1>1, <2>1 DEF InsertServiceNameMapping, Registry, Watched, Cached
<1> HIDE DEF inserted
<1>3. before = (IF r.names[s].state = "RESOLVED" THEN r.names[s] ELSE Name("UNKNOWN", u))
  BY <1>1, <1>2 DEF Registry
<1>4. /\ replaced \in Registry /\ Watched(replaced)
      /\ \A q \in Services \ {s} : replaced.names[q] = r.names[q]
      /\ \A q \in Services, v \in Owners :
           q \in replaced.owned[v] <=> IF q = s THEN v = u ELSE q \in r.owned[v]
  <2>1. CASE before.state = "RESOLVED" /\ before.unique # u
    <3> DEFINE v == before.unique
    <3>1. r.names[s] = before /\ before = Name("RESOLVED", v) /\ v \in Owners
      BY <1>1, <1>3, <2>1 DEF Registry, Name, Owner, Named
    <3>2. s \in r.owned[v]
      BY <1>1, <3>1 DEF Agree
    <3>3. HasRecord(inserted, v)
      BY <1>1, <1>2, <2>1, <3>1, <3>2 DEF HasRecord, Registry
    <3>4. replaced = ServiceNotAvailable(inserted, s)
      BY <2>1, <3>3 DEF CheckServiceWasAvailable
    <3>5. /\ replaced \in Registry /\ Watched(replaced)
          /\ replaced.names = [inserted.names EXCEPT ![s] = Name("NOT_AVAILABLE", None)]
          /\ replaced.owned = [inserted.owned EXCEPT ![v] = @ \ {s}]
      <4> HIDE DEF replaced
      <4>1. inserted.names[s].unique = v /\ v # None
        BY <3>1
      <4>2. LET w == inserted.names[s].unique
            IN /\ replaced \in Registry
               /\ replaced.names = [inserted.names EXCEPT ![s] = Name("NOT_AVAILABLE", None)]
               /\ replaced.owned = IF w = None THEN inserted.owned
                                   ELSE [inserted.owned EXCEPT ![w] = @ \ {s}]
               /\ Watched(inserted) => Watched(replaced)
        BY <1>2, <3>4, ServiceNotAvailableFrame
      <4> QED BY <1>2, <4>1, <4>2
    <3> HIDE DEF replaced, v
    <3>6. \A q \in Services \ {s} : replaced.names[q] = r.names[q]
      BY <1>1, <1>2, <3>5 DEF Registry
    <3>7. ASSUME NEW q \in Services, NEW w \in Owners
          PROVE  q \in replaced.owned[w] <=> IF q = s THEN w = u ELSE q \in r.owned[w]
      <4>1. q \in replaced.owned[w] <=> q \in inserted.owned[w] /\ ~(w = v /\ q = s)
        BY <1>2, <3>1, <3>5 DEF Registry
      <4>2. q \in inserted.owned[w] <=> q \in r.owned[w] \/ (q = s /\ w = u)
        BY <1>2
      <4>3. v # u
        BY <2>1 DEF v
      <4>4. ASSUME s \in r.owned[w] PROVE w = v
        <5>1. r.names[s] = Name("RESOLVED", w)
          BY <1>1, <4>4 DEF Agree
        <5>2. Name("RESOLVED", v) = Name("RESOLVED", w)
          BY <3>1, <5>1
        <5> QED BY <5>2 DEF Name
      <4> QED BY <4>1, <4>2, <4>3, <4>4
    <3> QED BY <3>5, <3>6, <3>7
  <2>2. CASE ~(before.state = "RESOLVED" /\ before.unique # u)
    <3>1. replaced = inserted
      BY <2>2
    <3> HIDE DEF replaced
    <3>2. \A q \in Services \ {s} : replaced.names[q] = r.names[q]
      BY <1>1, <1>2, <3>1 DEF Registry
    <3>3. ASSUME NEW w \in Owners, s \in r.owned[w] PROVE w = u
      <4>1. r.names[s] = Name("RESOLVED", w)
        BY <1>1, <3>3 DEF Agree
      <4>2. before = Name("RESOLVED", w)
        BY <4>1, <1>3 DEF Name
      <4> QED BY <4>2, <2>2 DEF Name
    <3>4. ASSUME NEW q \in Services, NEW w \in Owners
          PROVE  q \in replaced.owned[w] <=> IF q = s THEN w = u ELSE q \in r.owned[w]
      BY <1>2, <3>1, <3>3
    <3> QED BY <1>2, <3>1, <3>2, <3>4
  <2> QED BY <2>1, <2>2
<1> HIDE DEF replaced
<1>5. /\ named \in Registry /\ named.owned = replaced.owned
      /\ named.names = [replaced.names EXCEPT ![s] = Name("RESOLVED", u)]
      /\ Watched(named)
  <2>1. Name("RESOLVED", u) \in [state : NameStates, unique : Owner]
    BY DEF Name, NameStates, Owner
  <2> QED BY <1>4, <2>1 DEF Registry, Watched, Cached
<1> HIDE DEF named
<1>6. Named(named)
  <2>1. \A q \in Services : named.names[q] = IF q = s THEN Name("RESOLVED", u)
                                                      ELSE r.names[q]
    BY <1>4, <1>5 DEF Registry
  <2> QED BY <1>1, <2>1 DEF Named, Name
<1>7. Agree(named)
  <2> SUFFICES ASSUME NEW q \in Services, NEW v \in Owners
               PROVE  q \in named.owned[v] <=> named.names[q] = Name("RESOLVED", v)
    BY DEF Agree
  <2>1. named.names[q] = IF q = s THEN Name("RESOLVED", u) ELSE r.names[q]
    BY <1>4, <1>5 DEF Registry
  <2>2. q \in named.owned[v] <=> IF q = s THEN v = u ELSE q \in r.owned[v]
    BY <1>4, <1>5
  <2> QED BY <1>1, <2>1, <2>2 DEF Agree, Name
<1>8. Sound(cached)
  <2>1. /\ cached \in Registry /\ Watched(cached)
        /\ cached.names = named.names /\ cached.owned = named.owned
    BY <1>5, CachePathsFrame, ObservedPathsTyped
  <2> HIDE DEF cached
  <2> QED BY <1>6, <1>7, <2>1 DEF Sound, Named, Agree
<1>9. ServiceAvailable(r, s, u) = Tell(cached, {s} \X ifaces, "AVAILABLE")
  BY DEF ServiceAvailable, inserted, replaced, named
<1> HIDE DEF cached, ifaces
<1>10. LET t == Tell(cached, {s} \X ifaces, "AVAILABLE")
       IN t \in Registry /\ Same(cached, t)
  BY <1>8, TellFrame DEF Sound, Statuses
<1> QED BY <1>8, <1>9, <1>10, SameSound

(* A change of what is cached of a path, and requests that are sent.       *)
LEMMA CacheChangeSound ==
  ASSUME NEW r, Sound(r), NEW u \in Owners, NEW p \in Paths, NEW entry \in Cache,
         NEW calls \in Seq(Request),
         entry.state = "absent" <=> r.caches[u][p].state = "absent"
  PROVE  Sound([r EXCEPT !.caches[u][p] = entry, !.sent = @ \o calls])
<1> DEFINE caches == [r.caches EXCEPT ![u][p] = entry]
           sent == r.sent \o calls
           t == [r EXCEPT !.caches[u][p] = entry, !.sent = @ \o calls]
<1>1. r \in Registry
  BY DEF Sound
<1>2. /\ caches \in [Owners -> [Paths -> Cache]] /\ sent \in Seq(Request)
      /\ \A v \in Owners, q \in Paths :
           caches[v][q] = IF v = u /\ q = p THEN entry ELSE r.caches[v][q]
  BY <1>1, RegistryTypes
<1>3. t = [r EXCEPT !.owned = r.owned, !.caches = caches,
                    !.watches = r.watches, !.sent = sent]
  BY <1>1 DEF Registry
<1> HIDE DEF caches, sent, t
<1>4. t \in Registry
  BY <1>1, <1>2, <1>3, RegistryTypes, RegistryFields
<1>5. Same(r, t)
  <2>1. /\ t.names = r.names /\ t.owned = r.owned /\ t.watches = r.watches
        /\ t.caches = caches
    BY <1>1, <1>3 DEF Registry
  <2> QED BY <1>2, <2>1 DEF Same, Cached
<1>6. Sound(t)
  BY <1>4, <1>5, SameSound
<1> QED BY <1>6 DEF t

LEMMA TellSound ==
  ASSUME NEW r, Sound(r), NEW slots, NEW verdict \in Statuses
  PROVE  Sound(Tell(r, slots, verdict))
BY TellFrame, SameSound DEF Sound

LEMMA TellOwnedSound ==
  ASSUME NEW r, Sound(r), NEW u, NEW objects, NEW verdict \in Statuses
  PROVE  Sound(TellOwned(r, u, objects, verdict))
BY TellSound DEF TellOwned

LEMMA ManagedObjectsFoundSound ==
  ASSUME NEW r, Sound(r), NEW u \in Owners, NEW p \in Paths,
         NEW found \in SUBSET Objects
  PROVE  Sound(ManagedObjectsFound(r, u, p, found))
<1> DEFINE cache == r.caches[u][p]
           calls == Cardinality({PathOf[o] : o \in found} \cap Above[p])
           pending == (cache.pending + calls + Calls - 1) % Calls
           ifaces == cache.ifaces \cup At(found, p)
           state == IF pending = 0 THEN "RESOLVED" ELSE cache.state
           entry == [cache EXCEPT !.ifaces = ifaces, !.pending = pending, !.state = state]
           requests == [i \in 1 .. calls |-> ObjectsRequest(u, p, Parent[p])]
           updated == [r EXCEPT
             !.caches[u][p].ifaces = ifaces,
             !.caches[u][p].pending = pending,
             !.caches[u][p].state = IF pending = 0 THEN "RESOLVED" ELSE @,
             !.sent = @ \o requests]
<1>1. cache \in Cache /\ r \in Registry
  BY RegistryTypes DEF Sound
<1>2. calls \in Nat
  <2>1. {PathOf[o] : o \in found} \cap Above[p] \in SUBSET Paths
    OBVIOUS
  <2>2. IsFiniteSet({PathOf[o] : o \in found} \cap Above[p])
    BY <2>1, FS_Subset
  <2> QED BY <2>2, FS_CardinalityType
<1> HIDE DEF calls
<1>3. pending \in 0 .. Calls - 1
  BY <1>1, <1>2 DEF Cache
<1> HIDE DEF pending
<1>4. ifaces \in SUBSET Objects
  BY <1>1 DEF Cache, At
<1> HIDE DEF ifaces
<1>5. requests \in Seq(Request)
  <2>1. ObjectsRequest(u, p, Parent[p]) \in Request
    BY DEF ObjectsRequest, Request
  <2> QED BY <1>2, <2>1
<1> HIDE DEF requests
<1>6. ASSUME cache.state # "absent" PROVE Sound(updated)
  <2>1. entry \in Cache /\ entry.state # "absent"
    BY <1>1, <1>3, <1>4, <1>6 DEF Cache, PathStates
  <2>2. updated = [r EXCEPT
          !.caches[u][p].ifaces = ifaces, !.caches[u][p].pending = pending,
          !.caches[u][p].state = state, !.sent = r.sent \o requests]
    BY <1>1 DEF Registry
  <2>3. updated = [r EXCEPT !.caches[u][p] = entry, !.sent = @ \o requests]
    <3> DEFINE f == r.caches
               k == f[u]
               g == [f EXCEPT ![u][p].ifaces = ifaces, ![u][p].pending = pending,
                              ![u][p].state = state]
               h == [f EXCEPT ![u][p] = entry]
    <3>1. f \in [Owners -> [Paths -> Cache]] /\ k \in [Paths -> Cache]
      BY <1>1, RegistryTypes
    <3> HIDE DEF state
    <3>2. [k EXCEPT ![p].ifaces = ifaces, ![p].pending = pending, ![p].state = state]
            = [k EXCEPT ![p] = entry]
      BY <3>1 DEF Cache
    <3>3. g = [f EXCEPT ![u] = [@ EXCEPT ![p].ifaces = ifaces, ![p].pending = pending,
                                         ![p].state = state]]
      BY <3>1
    <3>4. [r EXCEPT !.caches = g, !.sent = r.sent \o requests]
            = [r EXCEPT !.caches = h, !.sent = r.sent \o requests]
      BY <3>2, <3>3
    <3> HIDE DEF updated
    <3> QED BY <1>1, <2>2, <3>4 DEF Registry
  <2> HIDE DEF entry, updated
  <2> QED BY <1>5, <1>6, <2>1, <2>3, CacheChangeSound
<1>7. ManagedObjectsFound(r, u, p, found) =
        IF cache.state = "absent" THEN r
        ELSE IF pending # 0 THEN updated ELSE TellOwned(updated, u, ifaces, "AVAILABLE")
  BY DEF ManagedObjectsFound, calls, pending, ifaces, requests
<1> HIDE DEF cache, updated
<1> QED BY <1>6, <1>7, TellOwnedSound DEF Statuses

LEMMA ObjectChangedSound ==
  ASSUME NEW r, Sound(r), NEW u \in Owners, NEW o \in Objects, NEW verdict \in Statuses
  PROVE  Sound(ObjectChanged(r, u, o, verdict))
<1> DEFINE p == PathOf[o]
           cache == r.caches[u][p]
           ifaces == IF verdict = "AVAILABLE" THEN cache.ifaces \cup {o}
                                             ELSE cache.ifaces \ {o}
           entry == [cache EXCEPT !.ifaces = ifaces]
           updated == [r EXCEPT !.caches[u][p].ifaces =
                         IF verdict = "AVAILABLE" THEN @ \cup {o} ELSE @ \ {o}]
<1>1. p \in Paths /\ cache \in Cache /\ r \in Registry
  BY RegistryTypes DEF Sound
<1>2. ASSUME cache.state = "RESOLVED" PROVE Sound(updated)
  <2>1. ifaces \in SUBSET Objects
    BY <1>1 DEF Cache
  <2> HIDE DEF ifaces
  <2>2. entry \in Cache /\ entry.state # "absent"
    BY <1>1, <1>2, <2>1 DEF Cache
  <2>3. updated = [r EXCEPT !.caches[u][p] = entry, !.sent = @ \o <<>>]
    <3>1. updated = [r EXCEPT !.caches[u][p].ifaces = ifaces]
      BY DEF ifaces
    <3>2. r.sent = r.sent \o <<>> /\ [r EXCEPT !.sent = r.sent] = r
      BY <1>1 DEF Registry
    <3>3. [r EXCEPT !.caches[u][p].ifaces = ifaces] = [r EXCEPT !.caches[u][p] = entry]
      BY <1>1 DEF Registry
    <3> QED BY <1>1, <3>1, <3>2, <3>3 DEF Registry
  <2>4. <<>> \in Seq(Request)
    OBVIOUS
  <2> HIDE DEF entry, updated, p
  <2> QED BY <1>1, <1>2, <2>2, <2>3, <2>4, CacheChangeSound
<1>3. ObjectChanged(r, u, o, verdict) =
        IF cache.state # "RESOLVED" THEN r ELSE TellOwned(updated, u, {o}, verdict)
  BY DEF ObjectChanged
<1> HIDE DEF cache, updated
<1> QED BY <1>2, <1>3, TellOwnedSound

(* Only what the invariant does not speak of.                              *)
LEMMA EnlistSound ==
  ASSUME NEW r, Sound(r), NEW l \in Listeners, NEW verdict, Enlist(r, l, verdict)
  PROVE  Sound(reg')
<1>1. reg' \in Registry
  BY DEF Enlist, Sound, Registry, Statuses
<1>2. Same(r, reg')
  BY DEF Enlist, Sound, Registry, Same, Cached
<1> QED BY <1>1, <1>2, SameSound

-----------------------------------------------------------------------------
(* The steps.                                                              *)

(* What the daemon, the peers and the users keep has its type.             *)
RestOK ==
  /\ owner \in [Services -> Owner]
  /\ former \in [Services -> SUBSET Owners]
  /\ exports \in [Owners -> SUBSET Objects]
  /\ inbox \in Seq(Message)
  /\ removals \subseteq Listeners
  /\ timedOut \in BOOLEAN
  /\ events \in 0 .. MaxEvents

LEMMA IndInvParts == IndInv <=> RestOK /\ Sound(reg)
BY DEF IndInv, TypeOK, RestOK, Sound

LEMMA IndInvNext == IndInv' <=> RestOK' /\ Sound(reg')
BY DEF IndInv, TypeOK, RestOK, Sound

LEMMA EventTyped == ASSUME events \in 0 .. MaxEvents, Event PROVE events' \in 0 .. MaxEvents
BY DEF Event

LEMMA ArriveTyped ==
  ASSUME inbox \in Seq(Message), NEW m \in Message, Arrive(m)
  PROVE  inbox' \in Seq(Message)
BY DEF Arrive

LEMMA InitSound == Init => IndInv
<1> SUFFICES ASSUME Init PROVE IndInv
  OBVIOUS
<1>1. Absent \in Cache
  BY DEF Absent, Cache, PathStates
<1>2. Name("UNKNOWN", None) \in [state : NameStates, unique : Owner]
  BY DEF Name, NameStates, Owner
<1>3. reg \in Registry
  <2>1. [u \in Owners |-> [p \in Paths |-> Absent]] \in [Owners -> [Paths -> Cache]]
    BY <1>1
  <2>2. <<>> \in Seq(Request)
    OBVIOUS
  <2> QED BY <1>2, <2>1, <2>2 DEF Init, Registry, Cache, RecordStates, Statuses
<1>4. Named(reg) /\ Agree(reg) /\ Watched(reg)
  BY DEF Init, Named, Agree, Watched, Cached, Name, Absent
<1>5. RestOK
  <2>1. timedOut \in BOOLEAN
    BY Zenon DEF Init
  <2>2. exports \in [Owners -> SUBSET Objects] /\ owner \in [Services -> Owner]
    BY DEF Init
  <2>3. former \in [Services -> SUBSET Owners] /\ inbox \in Seq(Message)
    BY DEF Init
  <2>4. removals \subseteq Listeners /\ events \in 0 .. MaxEvents
    BY DEF Init
  <2> QED BY <2>1, <2>2, <2>3, <2>4 DEF RestOK
<1> QED BY <1>3, <1>4, <1>5, IndInvParts DEF Sound

LEMMA SubscribeStep ==
  ASSUME IndInv, NEW l \in Listeners, Subscribe(l) PROVE IndInv'
<1> DEFINE s == ServiceOf[l]
           o == ObjectOf[l]
<1>1. Sound(reg) /\ RestOK /\ s \in Services /\ o \in Objects /\ Slot(l) \in Services \X Objects
  BY IndInvParts DEF Slot
<1>2. RestOK'
  BY <1>1, EventTyped DEF RestOK, Subscribe, bus
<1>3. ASSUME SubscribeUnknown(l) PROVE Sound(reg')
  <2> DEFINE r == [reg EXCEPT !.records[Slot(l)] = "UNKNOWN",
                              !.names[s].state = "RESOLVING",
                              !.sent = Append(@, NameRequest(s))]
  <2>1. /\ reg \in Registry /\ reg.names[s].state = "UNKNOWN"
        /\ reg.names[s].unique = None
    BY <1>1, <1>3 DEF SubscribeUnknown, Sound, Named
  <2>2. NameRequest(s) \in Request
    BY <1>1 DEF Request
  <2>3. /\ r \in Registry
        /\ r.owned = reg.owned /\ r.caches = reg.caches /\ r.watches = reg.watches
        /\ r.names = [reg.names EXCEPT ![s].state = "RESOLVING"]
    <3> DEFINE names == [reg.names EXCEPT ![s].state = "RESOLVING"]
               records == [reg.records EXCEPT ![Slot(l)] = "UNKNOWN"]
               sent == Append(reg.sent, NameRequest(s))
    <3>1. names \in [Services -> [state : NameStates, unique : Owner]]
      <4> DEFINE name == [reg.names[s] EXCEPT !.state = "RESOLVING"]
      <4>1. name \in [state : NameStates, unique : Owner]
        <5>1. reg.names[s] \in [state : NameStates, unique : Owner]
          BY <1>1, <2>1 DEF Registry
        <5>2. "RESOLVING" \in NameStates
          BY DEF NameStates
        <5> QED BY <5>1, <5>2
      <4>2. names = [reg.names EXCEPT ![s] = name]
        BY <2>1 DEF Registry
      <4> HIDE DEF name, names
      <4> QED BY <1>1, <2>1, <4>1, <4>2 DEF Registry
    <3>2. records \in [Services \X Objects -> RecordStates]
      BY <1>1, <2>1 DEF Registry, RecordStates
    <3>3. sent \in Seq(Request)
      BY <2>1, <2>2 DEF Registry
    <3>4. r = [reg EXCEPT !.records = records, !.names = names, !.sent = sent]
      BY <2>1 DEF Registry
    <3> HIDE DEF names, records, sent, r
    <3>5. r \in Registry
      BY <2>1, <3>1, <3>2, <3>3, <3>4 DEF Registry
    <3>6. /\ r.owned = reg.owned /\ r.caches = reg.caches
          /\ r.watches = reg.watches /\ r.names = names
      BY <2>1, <3>4 DEF Registry
    <3> QED BY <3>5, <3>6 DEF names
  <2>4. Enlist(r, l, "UNKNOWN")
    BY <1>3 DEF SubscribeUnknown
  <2> HIDE DEF r
  <2>5. /\ \A q \in Services : q # s => r.names[q] = reg.names[q]
        /\ r.names[s].state = "RESOLVING" /\ r.names[s].unique = None
    BY <1>1, <2>1, <2>3 DEF Registry
  <2>6. Named(r)
    BY <1>1, <2>5 DEF Sound, Named
  <2>7. Agree(r)
    <3> SUFFICES ASSUME NEW q \in Services, NEW v \in Owners
                 PROVE  q \in r.owned[v] <=> r.names[q] = Name("RESOLVED", v)
      BY DEF Agree
    <3>1. q \in reg.owned[v] <=> reg.names[q] = Name("RESOLVED", v)
      BY <1>1 DEF Sound, Agree
    <3>2. reg.names[s] # Name("RESOLVED", v) /\ r.names[s] # Name("RESOLVED", v)
      BY <2>1, <2>5 DEF Name
    <3> QED BY <2>3, <2>5, <3>1, <3>2
  <2>8. Watched(r)
    BY <1>1, <2>3 DEF Sound, Watched, Cached
  <2> QED BY <2>3, <2>4, <2>6, <2>7, <2>8, EnlistSound DEF Sound
<1>4. ASSUME SubscribeNotAvailable(l) PROVE Sound(reg')
  BY <1>1, <1>4, EnlistSound DEF SubscribeNotAvailable
<1>5. ASSUME SubscribeResolved(l) PROVE Sound(reg')
  <2> DEFINE u == reg.names[s].unique
             cached == CachePaths(reg, u, s, {PathOf[o]})
             state == InterfaceState(cached, s, u, o)
             r == [cached EXCEPT !.records[Slot(l)] = state]
  <2>1. u \in Owners
    BY <1>1, <1>5 DEF SubscribeResolved, Sound, Named, Registry, Owner
  <2>2. Sound(cached)
    <3>1. {PathOf[o]} \in SUBSET Paths
      BY <1>1
    <3>2. /\ cached \in Registry /\ Watched(cached)
          /\ cached.names = reg.names /\ cached.owned = reg.owned
      BY <1>1, <2>1, <3>1, CachePathsFrame DEF Sound
    <3> HIDE DEF cached
    <3> QED BY <1>1, <3>2 DEF Sound, Named, Agree
  <2>3. Cached(cached, u, PathOf[o])
    BY <1>1, <2>1 DEF CachePaths, Cached, Sound, Registry, Absent
  <2>4. Enlist(r, l, state)
    BY <1>5 DEF SubscribeResolved
  <2> HIDE DEF cached, u
  <2>5. state \in RecordStates
    <3>1. cached.caches[u][PathOf[o]].state \in PathStates
      BY <1>1, <2>1, <2>2 DEF Sound, Registry
    <3> QED BY <2>3, <3>1 DEF InterfaceState, Cached, PathStates, RecordStates
  <2> HIDE DEF state
  <2>6. r \in Registry /\ Same(cached, r)
    BY <1>1, <2>2, <2>5 DEF Sound, Registry, Same, Cached
  <2> HIDE DEF r
  <2> QED BY <2>2, <2>4, <2>6, SameSound, EnlistSound
<1>6. ASSUME SubscribeKnown(l) PROVE Sound(reg')
  BY <1>1, <1>6, EnlistSound DEF SubscribeKnown
<1> QED BY <1>2, <1>3, <1>4, <1>5, <1>6, IndInvNext DEF Subscribe

LEMMA UnsubscribeStep ==
  ASSUME IndInv, NEW l \in Listeners, Unsubscribe(l) PROVE IndInv'
<1>1. Sound(reg) /\ RestOK
  BY IndInvParts
<1>2. RestOK'
  BY <1>1, EventTyped DEF RestOK, Unsubscribe, bus
<1>3. reg' \in Registry /\ Same(reg, reg')
  BY <1>1 DEF Unsubscribe, Sound, Registry, Same, Cached
<1> QED BY <1>1, <1>2, <1>3, SameSound, IndInvNext

LEMMA RemoveListenerStep ==
  ASSUME IndInv, NEW l \in Listeners, RemoveListener(l) PROVE IndInv'
<1>1. Sound(reg) /\ RestOK /\ Slot(l) \in Services \X Objects
  BY IndInvParts DEF Slot
<1>2. RestOK'
  BY <1>1 DEF RestOK, RemoveListener, bus
<1>3. reg' \in Registry /\ Same(reg, reg')
  BY <1>1 DEF RemoveListener, Sound, Registry, Same, Cached, RecordStates
<1> QED BY <1>1, <1>2, <1>3, SameSound, IndInvNext

LEMMA RefreshStep ==
  ASSUME IndInv, NEW s \in Services, NEW p \in Paths, Refresh(s, p) PROVE IndInv'
<1> DEFINE u == reg.names[s].unique
           entry == [reg.caches[u][p] EXCEPT !.state = "RESOLVING",
                                             !.pending = (@ + 1) % Calls]
           pending == [reg EXCEPT !.caches[u][p].state = "RESOLVING",
                                  !.caches[u][p].pending = (@ + 1) % Calls]
<1>1. Sound(reg) /\ RestOK /\ u \in Owners /\ reg.caches[u][p].state # "absent"
  BY IndInvParts DEF Refresh, Sound, Registry, Owner
<1>2. RestOK'
  BY <1>1, EventTyped DEF RestOK, Refresh, bus
<1>3. reg' = ManagedObjectsFound(pending, u, p, {})
  BY DEF Refresh
<1> HIDE DEF u
<1>4. reg \in Registry /\ reg.caches[u][p] \in Cache
  BY <1>1, RegistryTypes DEF Sound
<1>5. entry \in Cache /\ entry.state # "absent"
  <2>1. (reg.caches[u][p].pending + 1) % Calls \in 0 .. Calls - 1
    BY <1>4 DEF Cache
  <2> QED BY <1>4, <2>1 DEF Cache, PathStates
<1>6. pending = [reg EXCEPT !.caches[u][p] = entry, !.sent = @ \o <<>>]
  <2>1. reg.sent = reg.sent \o <<>> /\ [reg EXCEPT !.sent = reg.sent] = reg
    BY <1>4 DEF Registry
  <2>2. pending = [reg EXCEPT !.caches[u][p] = entry]
    <3> DEFINE f == reg.caches
               k == f[u]
               calls == (f[u][p].pending + 1) % Calls
               g == [f EXCEPT ![u][p].state = "RESOLVING", ![u][p].pending = calls]
               h == [f EXCEPT ![u][p] = entry]
    <3>1. f \in [Owners -> [Paths -> Cache]] /\ k \in [Paths -> Cache]
      BY <1>1, <1>4, RegistryTypes
    <3>2. pending = [reg EXCEPT !.caches = g]
      BY <1>1, <1>4, <3>1 DEF Registry, Cache
    <3>3. entry = [k[p] EXCEPT !.state = "RESOLVING", !.pending = calls]
      BY <1>4 DEF Cache
    <3> HIDE DEF calls, pending, entry
    <3>4. [k EXCEPT ![p].state = "RESOLVING", ![p].pending = calls]
            = [k EXCEPT ![p] = entry]
      BY <3>1, <3>3 DEF Cache
    <3>5. g = [f EXCEPT ![u] = [@ EXCEPT ![p].state = "RESOLVING", ![p].pending = calls]]
      BY <3>1
    <3>6. [reg EXCEPT !.caches = g] = [reg EXCEPT !.caches = h]
      BY <3>4, <3>5
    <3> QED BY <1>4, <3>2, <3>6 DEF Registry
  <2> QED BY <1>1, <1>4, <2>1, <2>2 DEF Registry
<1>7. Sound(pending)
  <2>1. <<>> \in Seq(Request)
    OBVIOUS
  <2> HIDE DEF entry, pending
  <2> QED BY <1>1, <1>5, <1>6, <2>1, CacheChangeSound
<1> HIDE DEF pending
<1>8. Sound(reg')
  BY <1>1, <1>3, <1>7, ManagedObjectsFoundSound
<1> QED BY <1>2, <1>8, IndInvNext

(* The steps of the bus leave the registry alone, except for requests that *)
(* have been answered.                                                     *)
LEMMA UnsentSound ==
  ASSUME Sound(reg), NEW i \in DOMAIN reg.sent
  PROVE  reg.sent[i] \in Request /\ Sound(Unsent(i))
<1>1. reg \in Registry /\ reg.sent \in Seq(Request)
  BY RegistryTypes DEF Sound
<1>2. i \in 1 .. Len(reg.sent) /\ Len(reg.sent) \in Nat
  BY <1>1
<1>3. RemoveAt(reg.sent, i) \in Seq(Request)
  <2>1. SubSeq(reg.sent, 1, i - 1) \in Seq(Request)
    BY <1>1, <1>2
  <2>2. SubSeq(reg.sent, i + 1, Len(reg.sent)) \in Seq(Request)
    BY <1>1, <1>2
  <2> QED BY <2>1, <2>2 DEF RemoveAt
<1> DEFINE t == Unsent(i)
<1>4. t = [reg EXCEPT !.sent = RemoveAt(reg.sent, i)]
  BY DEF Unsent
<1>5. t \in Registry /\ Same(reg, t)
  BY <1>1, <1>3, <1>4 DEF Registry, Same, Cached
<1> QED BY <1>1, <1>2, <1>5, SameSound

LEMMA ClaimStep ==
  ASSUME IndInv, NEW s \in Services, NEW u \in Owners, Claim(s, u) PROVE IndInv'
<1>1. Sound(reg) /\ RestOK
  BY IndInvParts
<1>2. NameOwnerChanged(s, owner[s], u) \in Message
  BY <1>1 DEF RestOK, NameOwnerChanged, Message, Owner
<1>3. inbox' \in Seq(Message) /\ events' \in 0 .. MaxEvents
  BY <1>1, <1>2, ArriveTyped, EventTyped DEF Claim, RestOK
<1>4. RestOK'
  BY <1>1, <1>3 DEF RestOK, Claim, Owner
<1> QED BY <1>1, <1>4, IndInvNext DEF Claim

LEMMA ReleaseStep ==
  ASSUME IndInv, NEW s \in Services, Release(s) PROVE IndInv'
<1>1. Sound(reg) /\ RestOK
  BY IndInvParts
<1>2. NameOwnerChanged(s, owner[s], None) \in Message
  BY <1>1 DEF RestOK, NameOwnerChanged, Message, Owner
<1>3. inbox' \in Seq(Message) /\ events' \in 0 .. MaxEvents
  BY <1>1, <1>2, ArriveTyped, EventTyped DEF Release, RestOK
<1>4. RestOK'
  BY <1>1, <1>3 DEF RestOK, Release, Owner
<1> QED BY <1>1, <1>4, IndInvNext DEF Release

LEMMA ReexportStep ==
  ASSUME IndInv, NEW u \in Owners, NEW o \in Objects,
         NEW objects \in SUBSET Objects, NEW verdict \in Statuses,
         Reexport(u, objects, o, verdict)
  PROVE  IndInv'
<1>1. Sound(reg) /\ RestOK
  BY IndInvParts
<1>2. InterfacesChanged(u, o, verdict) \in Message
  BY DEF InterfacesChanged, Message
<1>3. inbox' \in Seq(Message) /\ events' \in 0 .. MaxEvents
  BY <1>1, <1>2, ArriveTyped, EventTyped DEF Reexport, RestOK
<1>4. RestOK'
  BY <1>1, <1>3 DEF RestOK, Reexport
<1> QED BY <1>1, <1>4, IndInvNext DEF Reexport

LEMMA ExportStep ==
  ASSUME IndInv, NEW u \in Owners, NEW o \in Objects, Export(u, o) \/ Unexport(u, o)
  PROVE  IndInv'
<1>1. exports[u] \in SUBSET Objects
  BY IndInvParts DEF RestOK
<1>2. exports[u] \cup {o} \in SUBSET Objects /\ exports[u] \ {o} \in SUBSET Objects
  BY <1>1
<1>3. {"AVAILABLE", "NOT_AVAILABLE"} \subseteq Statuses
  BY DEF Statuses
<1> QED BY <1>2, <1>3, ReexportStep DEF Export, Unexport

LEMMA ListedTyped ==
  ASSUME RestOK, NEW u \in Owners, NEW m PROVE Listed(u, m) \in SUBSET Objects
BY DEF RestOK, Listed

LEMMA AnswerStep ==
  ASSUME IndInv, Answer PROVE IndInv'
<1>1. Sound(reg) /\ RestOK
  BY IndInvParts
<1>2. PICK i \in DOMAIN reg.sent : AnswerName(i) \/ AnswerObjects(i)
  BY DEF Answer
<1> DEFINE m == reg.sent[i]
<1>3. m \in Request /\ Sound(reg')
  BY <1>1, <1>2, UnsentSound DEF AnswerName, AnswerObjects
<1>4. inbox' \in Seq(Message)
  <2>1. ASSUME AnswerName(i) PROVE inbox' \in Seq(Message)
    <3>1. m.service \in Services
      BY <1>3, <2>1 DEF AnswerName, Request, NameRequest
    <3>2. NameReply(m.service, owner[m.service]) \in Message
      BY <1>1, <3>1 DEF RestOK, NameReply, Message
    <3> QED BY <1>1, <2>1, <3>2, ArriveTyped DEF AnswerName, RestOK
  <2>2. ASSUME AnswerObjects(i) PROVE inbox' \in Seq(Message)
    <3>1. m.unique \in Owners /\ m.path \in Paths
      BY <1>3, <2>2 DEF AnswerObjects, Request, NameRequest
    <3>2. Listed(m.unique, m.manager) \in SUBSET Objects
      BY <1>1, <3>1, ListedTyped
    <3>3. ObjectsReply(m.unique, m.path, Listed(m.unique, m.manager)) \in Message
      BY <3>1, <3>2 DEF ObjectsReply, Message
    <3> QED BY <1>1, <2>2, <3>3, ArriveTyped DEF AnswerObjects, RestOK
  <2> QED BY <1>2, <2>1, <2>2
<1>5. RestOK'
  BY <1>1, <1>2, <1>4 DEF RestOK, AnswerName, AnswerObjects, bus
<1> QED BY <1>3, <1>5, IndInvNext

LEMMA GiveUpStep ==
  ASSUME IndInv, NEW i \in DOMAIN reg.sent, GiveUp(i) PROVE IndInv'
<1> DEFINE m == reg.sent[i]
<1>1. Sound(reg) /\ RestOK
  BY IndInvParts
<1>2. m \in Request /\ Sound(reg')
  BY <1>1, UnsentSound DEF GiveUp
<1>3. inbox' \in Seq(Message)
  <2>1. CASE m.kind = "name"
    <3>1. m.service \in Services
      BY <1>2, <2>1 DEF Request, NameRequest
    <3>2. NameReply(m.service, None) \in Message
      BY <3>1 DEF NameReply, Message, Owner
    <3> QED BY <1>1, <2>1, <3>2, ArriveTyped DEF GiveUp, RestOK
  <2>2. CASE m.kind # "name"
    <3>1. m.unique \in Owners /\ m.path \in Paths
      BY <1>2, <2>2 DEF Request, NameRequest
    <3>2. ObjectsReply(m.unique, m.path, {}) \in Message
      BY <3>1 DEF ObjectsReply, Message
    <3> QED BY <1>1, <2>2, <3>2, ArriveTyped DEF GiveUp, RestOK
  <2> QED BY <2>1, <2>2
<1>4. timedOut' \in BOOLEAN
  BY Zenon DEF GiveUp
<1>5. RestOK'
  BY <1>1, <1>3, <1>4, EventTyped DEF RestOK, GiveUp, bus
<1> QED BY <1>2, <1>5, IndInvNext

LEMMA DispatchStep ==
  ASSUME IndInv, Dispatch PROVE IndInv'
<1> DEFINE m == Head(inbox)
<1>1. Sound(reg) /\ RestOK
  BY IndInvParts
<1>2. PICK kind : Receive(kind)
  BY DEF Dispatch, OnNameOwnerChanged, OnGetNameOwner, OnManagedObjects,
         OnInterfacesChanged
<1>3. m \in Message /\ RestOK'
  BY <1>1, <1>2 DEF Receive, RestOK, bus
<1> HIDE DEF m
<1>4. ASSUME OnNameOwnerChanged PROVE Sound(reg')
  <2>1. m.service \in Services /\ m.new \in Owner
    BY <1>3, <1>4 DEF OnNameOwnerChanged, Receive, Message, m
  <2>2. reg' = IF m.new = None THEN CheckServiceWasAvailable(reg, m.service, m.old)
                               ELSE ServiceAvailable(reg, m.service, m.new)
    BY <1>4 DEF OnNameOwnerChanged, m
  <2> QED BY <1>1, <2>1, <2>2, CheckServiceWasAvailableSound, ServiceAvailableSound
          DEF Owner
<1>5. ASSUME OnGetNameOwner PROVE Sound(reg')
  <2>1. m.service \in Services /\ m.unique \in Owner
    BY <1>3, <1>5 DEF OnGetNameOwner, Receive, Message, m
  <2>2. reg' = IF m.unique # None THEN ServiceAvailable(reg, m.service, m.unique)
                                  ELSE ServiceNotAvailable(reg, m.service)
    BY <1>5 DEF OnGetNameOwner, m
  <2> QED BY <1>1, <2>1, <2>2, ServiceNotAvailableSound, ServiceAvailableSound DEF Owner
<1>6. ASSUME OnManagedObjects PROVE Sound(reg')
  <2>1. m.unique \in Owners /\ m.path \in Paths /\ m.found \in SUBSET Objects
    BY <1>3, <1>6 DEF OnManagedObjects, Receive, Message, m
  <2>2. reg' = ManagedObjectsFound(reg, m.unique, m.path, m.found)
    BY <1>6 DEF OnManagedObjects, m
  <2> QED BY <1>1, <2>1, <2>2, ManagedObjectsFoundSound
<1>7. ASSUME OnInterfacesChanged PROVE Sound(reg')
  <2>1. m.unique \in Owners /\ m.object \in Objects /\ m.status \in Statuses
    BY <1>3, <1>7 DEF OnInterfacesChanged, Receive, Message, m
  <2>2. reg' = IF reg.watches[m.unique] = 0 THEN reg
               ELSE ObjectChanged(reg, m.unique, m.object, m.status)
    BY <1>7 DEF OnInterfacesChanged, m
  <2> QED BY <1>1, <2>1, <2>2, ObjectChangedSound
<1> QED BY <1>3, <1>4, <1>5, <1>6, <1>7, IndInvNext DEF Dispatch

LEMMA NextSound == IndInv /\ [Next]_vars => IndInv'
<1> SUFFICES ASSUME IndInv, [Next]_vars PROVE IndInv'
  OBVIOUS
<1>1. CASE \E l \in Listeners : Subscribe(l) \/ Unsubscribe(l) \/ RemoveListener(l)
  BY <1>1, SubscribeStep, UnsubscribeStep, RemoveListenerStep
<1>2. CASE \E s \in Services, p \in Paths : Refresh(s, p)
  BY <1>2, RefreshStep
<1>3. CASE \E s \in Services : Release(s) \/ \E u \in Owners : Claim(s, u)
  BY <1>3, ReleaseStep, ClaimStep
<1>4. CASE \E u \in Owners, o \in Objects : Export(u, o) \/ Unexport(u, o)
  BY <1>4, ExportStep
<1>5. CASE \E i \in DOMAIN reg.sent : GiveUp(i)
  BY <1>5, GiveUpStep
<1>6. CASE Answer
  BY <1>6, AnswerStep
<1>7. CASE Dispatch
  BY <1>7, DispatchStep
<1>8. CASE UNCHANGED vars
  <2>1. RestOK'
    BY <1>8, IndInvParts DEF RestOK, vars, bus
  <2> QED BY <1>8, <2>1, IndInvParts, IndInvNext DEF vars
<1> QED BY <1>1, <1>2, <1>3, <1>4, <1>5, <1>6, <1>7, <1>8 DEF Next

-----------------------------------------------------------------------------
(* The theorems.                                                           *)

LEMMA Inductive == Spec => []IndInv
<1>1. Init => IndInv
  BY InitSound
<1>2. IndInv /\ [Next]_vars => IndInv'
  BY NextSound
<1> QED BY <1>1, <1>2, PTL DEF Spec

(* The variables always have their types: the registry's tables, and what  *)
(* is under way between it and the bus (DBusServiceRegistry.hpp:63-191).   *)
THEOREM TypeCorrect == Spec => []TypeOK
<1>1. IndInv => TypeOK
  BY DEF IndInv
<1> QED BY <1>1, Inductive, PTL

(* ownedBusNames of an owner's record and the owners of the services agree *)
(* whenever dbusServicesMutex_ is free, although a new owner may claim a   *)
(* name before the loss of it by the old one was seen, and a reply to      *)
(* GetNameOwner may be older than a NameOwnerChanged that came first.      *)
THEOREM OwnersAlwaysAgree == Spec => []OwnersAgree
<1>1. IndInv => OwnersAgree
  BY DEF IndInv, Sound, Agree, OwnersAgree
<1> QED BY <1>1, Inductive, PTL

(* No path of an owner is cached without the subscription to the signals   *)
(* that keep the cache up to date, whatever order names, paths and owners  *)
(* come and go in, and also when services share paths.                     *)
THEOREM CachedAlwaysWatched == Spec => []CachedIsWatched
<1>1. IndInv => CachedIsWatched
  BY DEF IndInv, Sound, Watched, Cached, CachedIsWatched
<1> QED BY <1>1, Inductive, PTL

(* Both together: the record of an owner lists what it owns and watches    *)
(* what is cached of it, whatever the bus sends in whatever order.         *)
THEOREM OwnersAlwaysTracked == Spec => []OwnersTracked
<1>1. OwnersAgree /\ CachedIsWatched => OwnersTracked
  BY DEF OwnersTracked
<1> QED BY <1>1, OwnersAlwaysAgree, CachedAlwaysWatched, PTL

-----------------------------------------------------------------------------
(* A listener is a proxy, and what it is told is where ProxyAvailability   *)
(* begins.                                                                 *)

(* A request is in one place: on its way into the list, in the list, or    *)
(* among the callbacks, where only the running callback has been told.     *)
OnePlace ==
  /\ \A r \in timeouts : told[r] = 0 /\ r \notin callbacks
  /\ \A c \in Callers :
       caller[c].pc \in {"joining", "joined"} =>
         /\ caller[c].request \in Requests
         /\ told[caller[c].request] = 0
         /\ caller[c].request \notin timeouts \cup callbacks
  /\ \A c, d \in Callers :
       /\ caller[c].pc \in {"joining", "joined"}
       /\ caller[d].pc \in {"joining", "joined"}
       /\ caller[c].request = caller[d].request
       => c = d

CallbackTold ==
  ~crashed =>
  /\ \A r \in Requests : told[r] \in {0, 1}
  /\ \A r \in callbacks : told[r] = 1 <=> thread = "inCallback" /\ r = current
  /\ thread = "inCallback" <=> current # NoRequest
  /\ current # NoRequest => current \in callbacks

(* The thread object follows the thread.                                   *)
ThreadObject ==
  /\ thread = "none" => ~joinable
  /\ ~joinable => thread \in {"none", "ended"}

AvailabilityInv ==
  ProxyTypeOK /\ OnePlace /\ CallbackTold /\ ThreadObject /\ WaitingIsServed

(* One application thread asks.                                            *)
OneCaller == \A c, d \in Callers : c = d

JoinedIsJoined == \A c \in Callers : caller[c].pc = "joined" => ~joinable
-----------------------------------------------------------------------------
USE AvailabilityAssumption
USE DEF threadVars

LEMMA InitInv == ProxyInit => AvailabilityInv
<1>. SUFFICES ASSUME ProxyInit PROVE AvailabilityInv
  OBVIOUS
<1>1. ProxyTypeOK
  BY DEF ProxyInit, ProxyTypeOK, AvailabilityStatuses, ThreadPcs, CallerPcs, Outside
<1>2. OnePlace
  BY DEF ProxyInit, OnePlace, Outside
<1>3. CallbackTold /\ ThreadObject /\ WaitingIsServed
  BY DEF ProxyInit, CallbackTold, ThreadObject, WaitingIsServed
<1>. QED
  BY <1>1, <1>2, <1>3 DEF AvailabilityInv

(* A step keeps every variable in its type.                                  *)
LEMMA TypeStep ==
  ASSUME ProxyTypeOK, ProxyNext PROVE ProxyTypeOK'
<1>. USE DEF ProxyTypeOK
<1>0. ~crashed
  BY DEF ProxyNext
<1>1. CASE \E c \in Callers, r \in Requests : JoinFirst(c, r)
  <2>1. PICK c \in Callers, r \in Requests : JoinFirst(c, r)
    BY <1>1
  <2>. QED
    BY <1>0, <2>1 DEF JoinFirst, CallerPcs
<1>2. CASE \E c \in Callers, r \in Requests : AskFirst(c, r)
  <2>1. PICK c \in Callers, r \in Requests : AskFirst(c, r)
    BY <1>2
  <2>. QED
    BY <1>0, <2>1 DEF AskFirst, StartThread, CallerPcs, ThreadPcs
<1>3. CASE \E c \in Callers, r \in Requests : AskMore(c, r)
  <2>1. PICK c \in Callers, r \in Requests : AskMore(c, r)
    BY <1>3
  <2>. QED
    BY <1>0, <2>1 DEF AskMore, CallerPcs
<1>4. CASE \E c \in Callers : Joined(c)
  <2>1. PICK c \in Callers : Joined(c)
    BY <1>4
  <2>. QED
    BY <1>0, <2>1 DEF Joined, CallerPcs
<1>5. CASE \E c \in Callers : NotifyAdded(c)
  <2>1. PICK c \in Callers : NotifyAdded(c)
    BY <1>5
  <2>. QED
    BY <1>0, <2>1 DEF NotifyAdded, NotifyThread, ThreadMutexFree,
       Outside, CallerPcs, ThreadPcs
<1>6. CASE BeginThread
  BY <1>0, <1>6 DEF BeginThread, Loop, ThreadPcs
<1>7. CASE ScanDone
  BY <1>0, <1>7 DEF ScanDone, ThreadPcs
<1>8. CASE EndCallback
  BY <1>0, <1>8 DEF EndCallback, ThreadPcs
<1>9. CASE EndIteration
  BY <1>0, <1>9 DEF EndIteration, Loop, ThreadPcs
<1>10. CASE \E timeout \in BOOLEAN : WakeUp(timeout)
  <2>1. PICK timeout \in BOOLEAN : WakeUp(timeout)
    BY <1>10
  <2>. QED
    BY <1>0, <2>1 DEF WakeUp, ThreadPcs
<1>11. CASE \E r \in Requests : ScanEntry(r)
  <2>1. PICK r \in Requests : ScanEntry(r)
    BY <1>11
  <2>. QED
    BY <1>0, <2>1 DEF ScanEntry, AvailabilityStatuses
<1>12. CASE \E r \in Requests : BeginCallback(r)
  <2>1. PICK r \in Requests : BeginCallback(r)
    BY <1>12
  <2>. QED
    BY <1>0, <2>1 DEF BeginCallback, ThreadPcs
<1>13. CASE \E s \in {"AVAILABLE", "NOT_AVAILABLE"} : SetStatus(s)
  <2>1. PICK s \in {"AVAILABLE", "NOT_AVAILABLE"} : SetStatus(s)
    BY <1>13
  <2>. QED
    BY <1>0, <2>1 DEF SetStatus, AvailabilityStatuses
<1>14. CASE NotifyChanged
  BY <1>0, <1>14 DEF NotifyChanged, NotifyThread, ThreadMutexFree,
     ThreadPcs
<1>15. CASE WakeBlocked
  BY <1>0, <1>15 DEF WakeBlocked
<1>16. CASE \E b \in Blockers : Block(b)
  <2>1. PICK b \in Blockers : Block(b)
    BY <1>16
  <2>. QED
    BY <1>0, <2>1 DEF Block
<1>17. CASE Destroy
  BY <1>0, <1>17 DEF Destroy
<1>18. CASE NotifyCancelled
  BY <1>0, <1>18 DEF NotifyCancelled, NotifyThread, ThreadMutexFree,
     ThreadPcs
<1>19. CASE JoinThread
  BY <1>0, <1>19 DEF JoinThread
<1>20. CASE \E r \in Requests : AskInCallback(r)
  <2>1. PICK r \in Requests : AskInCallback(r)
    BY <1>20
  <2>. QED
    BY <1>0, <2>1 DEF AskInCallback
<1>21. CASE \E r \in Requests : Elapse(r)
  <2>1. PICK r \in Requests : Elapse(r)
    BY <1>21
  <2>. QED
    BY <1>0, <2>1 DEF Elapse
<1>. QED
  BY <1>0, <1>1, <1>2, <1>3, <1>4, <1>5, <1>6, <1>7, <1>8, <1>9, <1>10, <1>11, <1>12, <1>13,
     <1>14, <1>15, <1>16, <1>17, <1>18, <1>19, <1>20, <1>21
     DEF ProxyNext, CallerNext, ThreadNext, StatusNext, DestroyNext

(* A request does not get into a second place.                               *)
LEMMA OnePlaceStep ==
  ASSUME ProxyTypeOK, OnePlace, CallbackTold, ProxyNext PROVE OnePlace'
<1>. USE DEF ProxyTypeOK, OnePlace, CallbackTold
<1>0. ~crashed
  BY DEF ProxyNext
<1>1. CASE \E c \in Callers, r \in Requests : JoinFirst(c, r)
  <2>1. PICK c \in Callers, r \in Requests : JoinFirst(c, r)
    BY <1>1
  <2>. QED
    BY <1>0, <2>1 DEF JoinFirst, Fresh, Entering, Outside
<1>2. CASE \E c \in Callers, r \in Requests : AskFirst(c, r)
  <2>1. PICK c \in Callers, r \in Requests : AskFirst(c, r)
    BY <1>2
  <2>. QED
    BY <1>0, <2>1 DEF AskFirst, StartThread, Fresh, Entering,
       Outside
<1>3. CASE \E c \in Callers, r \in Requests : AskMore(c, r)
  <2>1. PICK c \in Callers, r \in Requests : AskMore(c, r)
    BY <1>3
  <2>. QED
    BY <1>0, <2>1 DEF AskMore, Fresh, Entering, Outside
<1>4. CASE \E c \in Callers : Joined(c)
  <2>1. PICK c \in Callers : Joined(c)
    BY <1>4
  <2>. QED
    BY <1>0, <2>1 DEF Joined, Fresh, Entering, Outside
<1>5. CASE \E c \in Callers : NotifyAdded(c)
  <2>1. PICK c \in Callers : NotifyAdded(c)
    BY <1>5
  <2>. QED
    BY <1>0, <2>1 DEF NotifyAdded, NotifyThread, ThreadMutexFree,
       Fresh, Entering, Outside
<1>6. CASE BeginThread
  BY <1>0, <1>6 DEF BeginThread, Loop, Fresh, Entering, Outside
<1>7. CASE ScanDone
  BY <1>0, <1>7 DEF ScanDone, Fresh, Entering, Outside
<1>8. CASE EndCallback
  BY <1>0, <1>8 DEF EndCallback, Fresh, Entering, Outside
<1>9. CASE EndIteration
  BY <1>0, <1>9 DEF EndIteration, Loop, Fresh, Entering, Outside
<1>10. CASE \E timeout \in BOOLEAN : WakeUp(timeout)
  <2>1. PICK timeout \in BOOLEAN : WakeUp(timeout)
    BY <1>10
  <2>. QED
    BY <1>0, <2>1 DEF WakeUp, Fresh, Entering, Outside
<1>11. CASE \E r \in Requests : ScanEntry(r)
  <2>1. PICK r \in Requests : ScanEntry(r)
    BY <1>11
  <2>. QED
    BY <1>0, <2>1 DEF ScanEntry, Fresh, Entering, Outside
<1>12. CASE \E r \in Requests : BeginCallback(r)
  <2>1. PICK r \in Requests : BeginCallback(r)
    BY <1>12
  <2>. QED
    BY <1>0, <2>1 DEF BeginCallback, Fresh, Entering, Outside
<1>13. CASE \E s \in {"AVAILABLE", "NOT_AVAILABLE"} : SetStatus(s)
  <2>1. PICK s \in {"AVAILABLE", "NOT_AVAILABLE"} : SetStatus(s)
    BY <1>13
  <2>. QED
    BY <1>0, <2>1 DEF SetStatus, Fresh, Entering, Outside
<1>14. CASE NotifyChanged
  BY <1>0, <1>14 DEF NotifyChanged, NotifyThread, ThreadMutexFree,
     Fresh, Entering, Outside
<1>15. CASE WakeBlocked
  BY <1>0, <1>15 DEF WakeBlocked, Fresh, Entering, Outside
<1>16. CASE \E b \in Blockers : Block(b)
  <2>1. PICK b \in Blockers : Block(b)
    BY <1>16
  <2>. QED
    BY <1>0, <2>1 DEF Block, Fresh, Entering, Outside
<1>17. CASE Destroy
  BY <1>0, <1>17 DEF Destroy, Fresh, Entering, Outside
<1>18. CASE NotifyCancelled
  BY <1>0, <1>18 DEF NotifyCancelled, NotifyThread, ThreadMutexFree,
     Fresh, Entering, Outside
<1>19. CASE JoinThread
  BY <1>0, <1>19 DEF JoinThread, Fresh, Entering, Outside
<1>20. CASE \E r \in Requests : AskInCallback(r)
  <2>1. PICK r \in Requests : AskInCallback(r)
    BY <1>20
  <2>. QED
    BY <1>0, <2>1 DEF AskInCallback, Fresh, Entering, Outside
<1>21. CASE \E r \in Requests : Elapse(r)
  <2>1. PICK r \in Requests : Elapse(r)
    BY <1>21
  <2>. QED
    BY <1>0, <2>1 DEF Elapse, Fresh, Entering, Outside
<1>. QED
  BY <1>0, <1>1, <1>2, <1>3, <1>4, <1>5, <1>6, <1>7, <1>8, <1>9, <1>10, <1>11, <1>12, <1>13,
     <1>14, <1>15, <1>16, <1>17, <1>18, <1>19, <1>20, <1>21
     DEF ProxyNext, CallerNext, ThreadNext, StatusNext, DestroyNext

(* Only the callback that is running has been told.                           *)
LEMMA CallbackStep ==
  ASSUME ProxyTypeOK, OnePlace, CallbackTold, ThreadObject, ProxyNext
  PROVE  CallbackTold'
<1>. USE DEF ProxyTypeOK, OnePlace, CallbackTold, ThreadObject
<1>0. ~crashed
  BY DEF ProxyNext
<1>1. CASE \E c \in Callers, r \in Requests : JoinFirst(c, r)
  <2>1. PICK c \in Callers, r \in Requests : JoinFirst(c, r)
    BY <1>1
  <2>. QED
    BY <1>0, <2>1 DEF JoinFirst, Fresh
<1>2. CASE \E c \in Callers, r \in Requests : AskFirst(c, r)
  <2>1. PICK c \in Callers, r \in Requests : AskFirst(c, r)
    BY <1>2
  <2>. QED
    BY <1>0, <2>1 DEF AskFirst, StartThread, Fresh
<1>3. CASE \E c \in Callers, r \in Requests : AskMore(c, r)
  <2>1. PICK c \in Callers, r \in Requests : AskMore(c, r)
    BY <1>3
  <2>. QED
    BY <1>0, <2>1 DEF AskMore, Fresh
<1>4. CASE \E c \in Callers : Joined(c)
  <2>1. PICK c \in Callers : Joined(c)
    BY <1>4
  <2>. QED
    BY <1>0, <2>1 DEF Joined, Fresh
<1>5. CASE \E c \in Callers : NotifyAdded(c)
  <2>1. PICK c \in Callers : NotifyAdded(c)
    BY <1>5
  <2>. QED
    BY <1>0, <2>1 DEF NotifyAdded, NotifyThread, ThreadMutexFree, Fresh
<1>6. CASE BeginThread
  BY <1>0, <1>6 DEF BeginThread, Loop, Fresh
<1>7. CASE ScanDone
  BY <1>0, <1>7 DEF ScanDone, Fresh
<1>8. CASE EndCallback
  BY <1>0, <1>8 DEF EndCallback, Fresh
<1>9. CASE EndIteration
  BY <1>0, <1>9 DEF EndIteration, Loop, Fresh
<1>10. CASE \E timeout \in BOOLEAN : WakeUp(timeout)
  <2>1. PICK timeout \in BOOLEAN : WakeUp(timeout)
    BY <1>10
  <2>. QED
    BY <1>0, <2>1 DEF WakeUp, Fresh
<1>11. CASE \E r \in Requests : ScanEntry(r)
  <2>1. PICK r \in Requests : ScanEntry(r)
    BY <1>11
  <2>. QED
    BY <1>0, <2>1 DEF ScanEntry, Fresh
<1>12. CASE \E r \in Requests : BeginCallback(r)
  <2>1. PICK r \in Requests : BeginCallback(r)
    BY <1>12
  <2>. QED
    BY <1>0, <2>1 DEF BeginCallback, Fresh
<1>13. CASE \E s \in {"AVAILABLE", "NOT_AVAILABLE"} : SetStatus(s)
  <2>1. PICK s \in {"AVAILABLE", "NOT_AVAILABLE"} : SetStatus(s)
    BY <1>13
  <2>. QED
    BY <1>0, <2>1 DEF SetStatus, Fresh
<1>14. CASE NotifyChanged
  BY <1>0, <1>14 DEF NotifyChanged, NotifyThread, ThreadMutexFree, Fresh
<1>15. CASE WakeBlocked
  BY <1>0, <1>15 DEF WakeBlocked, Fresh
<1>16. CASE \E b \in Blockers : Block(b)
  <2>1. PICK b \in Blockers : Block(b)
    BY <1>16
  <2>. QED
    BY <1>0, <2>1 DEF Block, Fresh
<1>17. CASE Destroy
  BY <1>0, <1>17 DEF Destroy, Fresh
<1>18. CASE NotifyCancelled
  BY <1>0, <1>18 DEF NotifyCancelled, NotifyThread, ThreadMutexFree, Fresh
<1>19. CASE JoinThread
  BY <1>0, <1>19 DEF JoinThread, Fresh
<1>20. CASE \E r \in Requests : AskInCallback(r)
  <2>1. PICK r \in Requests : AskInCallback(r)
    BY <1>20
  <2>. QED
    BY <1>0, <2>1 DEF AskInCallback, Fresh
<1>21. CASE \E r \in Requests : Elapse(r)
  <2>1. PICK r \in Requests : Elapse(r)
    BY <1>21
  <2>. QED
    BY <1>0, <2>1 DEF Elapse, Fresh
<1>. QED
  BY <1>0, <1>1, <1>2, <1>3, <1>4, <1>5, <1>6, <1>7, <1>8, <1>9, <1>10, <1>11, <1>12, <1>13,
     <1>14, <1>15, <1>16, <1>17, <1>18, <1>19, <1>20, <1>21
     DEF ProxyNext, CallerNext, ThreadNext, StatusNext, DestroyNext

(* The thread object follows the thread.                                      *)
LEMMA ThreadObjectStep ==
  ASSUME ProxyTypeOK, ThreadObject, ProxyNext PROVE ThreadObject'
<1>. USE DEF ProxyTypeOK, ThreadObject
<1>0. ~crashed
  BY DEF ProxyNext
<1>1. CASE \E c \in Callers, r \in Requests : JoinFirst(c, r)
  <2>1. PICK c \in Callers, r \in Requests : JoinFirst(c, r)
    BY <1>1
  <2>. QED
    BY <1>0, <2>1 DEF JoinFirst
<1>2. CASE \E c \in Callers, r \in Requests : AskFirst(c, r)
  <2>1. PICK c \in Callers, r \in Requests : AskFirst(c, r)
    BY <1>2
  <2>. QED
    BY <1>0, <2>1 DEF AskFirst, StartThread
<1>3. CASE \E c \in Callers, r \in Requests : AskMore(c, r)
  <2>1. PICK c \in Callers, r \in Requests : AskMore(c, r)
    BY <1>3
  <2>. QED
    BY <1>0, <2>1 DEF AskMore
<1>4. CASE \E c \in Callers : Joined(c)
  <2>1. PICK c \in Callers : Joined(c)
    BY <1>4
  <2>. QED
    BY <1>0, <2>1 DEF Joined
<1>5. CASE \E c \in Callers : NotifyAdded(c)
  <2>1. PICK c \in Callers : NotifyAdded(c)
    BY <1>5
  <2>. QED
    BY <1>0, <2>1 DEF NotifyAdded, NotifyThread, ThreadMutexFree
<1>6. CASE BeginThread
  BY <1>0, <1>6 DEF BeginThread, Loop
<1>7. CASE ScanDone
  BY <1>0, <1>7 DEF ScanDone
<1>8. CASE EndCallback
  BY <1>0, <1>8 DEF EndCallback
<1>9. CASE EndIteration
  BY <1>0, <1>9 DEF EndIteration, Loop
<1>10. CASE \E timeout \in BOOLEAN : WakeUp(timeout)
  <2>1. PICK timeout \in BOOLEAN : WakeUp(timeout)
    BY <1>10
  <2>. QED
    BY <1>0, <2>1 DEF WakeUp
<1>11. CASE \E r \in Requests : ScanEntry(r)
  <2>1. PICK r \in Requests : ScanEntry(r)
    BY <1>11
  <2>. QED
    BY <1>0, <2>1 DEF ScanEntry
<1>12. CASE \E r \in Requests : BeginCallback(r)
  <2>1. PICK r \in Requests : BeginCallback(r)
    BY <1>12
  <2>. QED
    BY <1>0, <2>1 DEF BeginCallback
<1>13. CASE \E s \in {"AVAILABLE", "NOT_AVAILABLE"} : SetStatus(s)
  <2>1. PICK s \in {"AVAILABLE", "NOT_AVAILABLE"} : SetStatus(s)
    BY <1>13
  <2>. QED
    BY <1>0, <2>1 DEF SetStatus
<1>14. CASE NotifyChanged
  BY <1>0, <1>14 DEF NotifyChanged, NotifyThread, ThreadMutexFree
<1>15. CASE WakeBlocked
  BY <1>0, <1>15 DEF WakeBlocked
<1>16. CASE \E b \in Blockers : Block(b)
  <2>1. PICK b \in Blockers : Block(b)
    BY <1>16
  <2>. QED
    BY <1>0, <2>1 DEF Block
<1>17. CASE Destroy
  BY <1>0, <1>17 DEF Destroy
<1>18. CASE NotifyCancelled
  BY <1>0, <1>18 DEF NotifyCancelled, NotifyThread, ThreadMutexFree
<1>19. CASE JoinThread
  BY <1>0, <1>19 DEF JoinThread
<1>20. CASE \E r \in Requests : AskInCallback(r)
  <2>1. PICK r \in Requests : AskInCallback(r)
    BY <1>20
  <2>. QED
    BY <1>0, <2>1 DEF AskInCallback
<1>21. CASE \E r \in Requests : Elapse(r)
  <2>1. PICK r \in Requests : Elapse(r)
    BY <1>21
  <2>. QED
    BY <1>0, <2>1 DEF Elapse
<1>. QED
  BY <1>0, <1>1, <1>2, <1>3, <1>4, <1>5, <1>6, <1>7, <1>8, <1>9, <1>10, <1>11, <1>12, <1>13,
     <1>14, <1>15, <1>16, <1>17, <1>18, <1>19, <1>20, <1>21
     DEF ProxyNext, CallerNext, ThreadNext, StatusNext, DestroyNext

(* A waiting request keeps its thread.                                        *)
LEMMA ServedStep ==
  ASSUME ProxyTypeOK, WaitingIsServed, ProxyNext PROVE WaitingIsServed'
<1>. USE DEF ProxyTypeOK, WaitingIsServed
<1>0. ~crashed
  BY DEF ProxyNext
<1>1. CASE \E c \in Callers, r \in Requests : JoinFirst(c, r)
  <2>1. PICK c \in Callers, r \in Requests : JoinFirst(c, r)
    BY <1>1
  <2>. QED
    BY <1>0, <2>1 DEF JoinFirst
<1>2. CASE \E c \in Callers, r \in Requests : AskFirst(c, r)
  <2>1. PICK c \in Callers, r \in Requests : AskFirst(c, r)
    BY <1>2
  <2>. QED
    BY <1>0, <2>1 DEF AskFirst, StartThread
<1>3. CASE \E c \in Callers, r \in Requests : AskMore(c, r)
  <2>1. PICK c \in Callers, r \in Requests : AskMore(c, r)
    BY <1>3
  <2>. QED
    BY <1>0, <2>1 DEF AskMore
<1>4. CASE \E c \in Callers : Joined(c)
  <2>1. PICK c \in Callers : Joined(c)
    BY <1>4
  <2>. QED
    BY <1>0, <2>1 DEF Joined
<1>5. CASE \E c \in Callers : NotifyAdded(c)
  <2>1. PICK c \in Callers : NotifyAdded(c)
    BY <1>5
  <2>. QED
    BY <1>0, <2>1 DEF NotifyAdded, NotifyThread, ThreadMutexFree
<1>6. CASE BeginThread
  BY <1>0, <1>6 DEF BeginThread, Loop
<1>7. CASE ScanDone
  BY <1>0, <1>7 DEF ScanDone
<1>8. CASE EndCallback
  BY <1>0, <1>8 DEF EndCallback
<1>9. CASE EndIteration
  BY <1>0, <1>9 DEF EndIteration, Loop
<1>10. CASE \E timeout \in BOOLEAN : WakeUp(timeout)
  <2>1. PICK timeout \in BOOLEAN : WakeUp(timeout)
    BY <1>10
  <2>. QED
    BY <1>0, <2>1 DEF WakeUp
<1>11. CASE \E r \in Requests : ScanEntry(r)
  <2>1. PICK r \in Requests : ScanEntry(r)
    BY <1>11
  <2>. QED
    BY <1>0, <2>1 DEF ScanEntry
<1>12. CASE \E r \in Requests : BeginCallback(r)
  <2>1. PICK r \in Requests : BeginCallback(r)
    BY <1>12
  <2>. QED
    BY <1>0, <2>1 DEF BeginCallback
<1>13. CASE \E s \in {"AVAILABLE", "NOT_AVAILABLE"} : SetStatus(s)
  <2>1. PICK s \in {"AVAILABLE", "NOT_AVAILABLE"} : SetStatus(s)
    BY <1>13
  <2>. QED
    BY <1>0, <2>1 DEF SetStatus
<1>14. CASE NotifyChanged
  BY <1>0, <1>14 DEF NotifyChanged, NotifyThread, ThreadMutexFree
<1>15. CASE WakeBlocked
  BY <1>0, <1>15 DEF WakeBlocked
<1>16. CASE \E b \in Blockers : Block(b)
  <2>1. PICK b \in Blockers : Block(b)
    BY <1>16
  <2>. QED
    BY <1>0, <2>1 DEF Block
<1>17. CASE Destroy
  BY <1>0, <1>17 DEF Destroy
<1>18. CASE NotifyCancelled
  BY <1>0, <1>18 DEF NotifyCancelled, NotifyThread, ThreadMutexFree
<1>19. CASE JoinThread
  BY <1>0, <1>19 DEF JoinThread
<1>20. CASE \E r \in Requests : AskInCallback(r)
  <2>1. PICK r \in Requests : AskInCallback(r)
    BY <1>20
  <2>. QED
    BY <1>0, <2>1 DEF AskInCallback
<1>21. CASE \E r \in Requests : Elapse(r)
  <2>1. PICK r \in Requests : Elapse(r)
    BY <1>21
  <2>. QED
    BY <1>0, <2>1 DEF Elapse
<1>. QED
  BY <1>0, <1>1, <1>2, <1>3, <1>4, <1>5, <1>6, <1>7, <1>8, <1>9, <1>10, <1>11, <1>12, <1>13,
     <1>14, <1>15, <1>16, <1>17, <1>18, <1>19, <1>20, <1>21
     DEF ProxyNext, CallerNext, ThreadNext, StatusNext, DestroyNext

(* The inductive invariant holds from the start and is kept.               *)
THEOREM AvailabilityInductive == ProxySpec => []AvailabilityInv
<1>1. ProxyInit => AvailabilityInv
  BY InitInv
<1>2. AvailabilityInv /\ [ProxyNext]_proxyVars => AvailabilityInv'
  <2>. SUFFICES ASSUME AvailabilityInv, [ProxyNext]_proxyVars PROVE AvailabilityInv'
    OBVIOUS
  <2>1. CASE UNCHANGED proxyVars
    BY <2>1 DEF proxyVars, AvailabilityInv, ProxyTypeOK, OnePlace, CallbackTold, ThreadObject,
                WaitingIsServed
  <2>2. CASE ProxyNext
    <3>1. ProxyTypeOK' /\ OnePlace'
      BY <2>2, TypeStep, OnePlaceStep DEF AvailabilityInv
    <3>2. CallbackTold' /\ ThreadObject' /\ WaitingIsServed'
      BY <2>2, CallbackStep, ThreadObjectStep, ServedStep DEF AvailabilityInv
    <3>. QED
      BY <3>1, <3>2 DEF AvailabilityInv
  <2>. QED
    BY <2>1, <2>2
<1>. QED
  BY <1>1, <1>2, PTL DEF ProxySpec

(* TypeOK: every variable keeps its type (DBusProxy.hpp, the members of    *)
(* DBusProxy, and the locals of the threads).                              *)
THEOREM AvailabilityTypeCorrect == ProxySpec => []ProxyTypeOK
<1>1. AvailabilityInv => ProxyTypeOK
  BY DEF AvailabilityInv
<1>. QED
  BY <1>1, AvailabilityInductive, PTL

(* WaitingIsServed: as long as the proxy lives, a request in timeouts_ has *)
(* an availability thread, for any number of callers and requests.         *)
THEOREM RequestsServed == ProxySpec => []WaitingIsServed
<1>1. AvailabilityInv => WaitingIsServed
  BY DEF AvailabilityInv
<1>. QED
  BY <1>1, AvailabilityInductive, PTL

-----------------------------------------------------------------------------
(* One caller never replaces or joins a thread that another one handles.      *)
LEMMA JoinedStep ==
  ASSUME OneCaller, ProxyTypeOK, ThreadObject, JoinedIsJoined, ProxyNext
  PROVE  JoinedIsJoined' /\ ~crashed'
<1>. USE DEF ProxyTypeOK, ThreadObject, JoinedIsJoined, OneCaller
<1>0. ~crashed
  BY DEF ProxyNext
<1>1. CASE \E c \in Callers, r \in Requests : JoinFirst(c, r)
  <2>1. PICK c \in Callers, r \in Requests : JoinFirst(c, r)
    BY <1>1
  <2>. QED
    BY <1>0, <2>1 DEF JoinFirst, Outside
<1>2. CASE \E c \in Callers, r \in Requests : AskFirst(c, r)
  <2>1. PICK c \in Callers, r \in Requests : AskFirst(c, r)
    BY <1>2
  <2>. QED
    BY <1>0, <2>1 DEF AskFirst, StartThread, Outside
<1>3. CASE \E c \in Callers, r \in Requests : AskMore(c, r)
  <2>1. PICK c \in Callers, r \in Requests : AskMore(c, r)
    BY <1>3
  <2>. QED
    BY <1>0, <2>1 DEF AskMore, Outside
<1>4. CASE \E c \in Callers : Joined(c)
  <2>1. PICK c \in Callers : Joined(c)
    BY <1>4
  <2>. QED
    BY <1>0, <2>1 DEF Joined, Outside
<1>5. CASE \E c \in Callers : NotifyAdded(c)
  <2>1. PICK c \in Callers : NotifyAdded(c)
    BY <1>5
  <2>. QED
    BY <1>0, <2>1 DEF NotifyAdded, NotifyThread, ThreadMutexFree, Outside
<1>6. CASE BeginThread
  BY <1>0, <1>6 DEF BeginThread, Loop, Outside
<1>7. CASE ScanDone
  BY <1>0, <1>7 DEF ScanDone, Outside
<1>8. CASE EndCallback
  BY <1>0, <1>8 DEF EndCallback, Outside
<1>9. CASE EndIteration
  BY <1>0, <1>9 DEF EndIteration, Loop, Outside
<1>10. CASE \E timeout \in BOOLEAN : WakeUp(timeout)
  <2>1. PICK timeout \in BOOLEAN : WakeUp(timeout)
    BY <1>10
  <2>. QED
    BY <1>0, <2>1 DEF WakeUp, Outside
<1>11. CASE \E r \in Requests : ScanEntry(r)
  <2>1. PICK r \in Requests : ScanEntry(r)
    BY <1>11
  <2>. QED
    BY <1>0, <2>1 DEF ScanEntry, Outside
<1>12. CASE \E r \in Requests : BeginCallback(r)
  <2>1. PICK r \in Requests : BeginCallback(r)
    BY <1>12
  <2>. QED
    BY <1>0, <2>1 DEF BeginCallback, Outside
<1>13. CASE \E s \in {"AVAILABLE", "NOT_AVAILABLE"} : SetStatus(s)
  <2>1. PICK s \in {"AVAILABLE", "NOT_AVAILABLE"} : SetStatus(s)
    BY <1>13
  <2>. QED
    BY <1>0, <2>1 DEF SetStatus, Outside
<1>14. CASE NotifyChanged
  BY <1>0, <1>14 DEF NotifyChanged, NotifyThread, ThreadMutexFree, Outside
<1>15. CASE WakeBlocked
  BY <1>0, <1>15 DEF WakeBlocked, Outside
<1>16. CASE \E b \in Blockers : Block(b)
  <2>1. PICK b \in Blockers : Block(b)
    BY <1>16
  <2>. QED
    BY <1>0, <2>1 DEF Block, Outside
<1>17. CASE Destroy
  BY <1>0, <1>17 DEF Destroy, Outside
<1>18. CASE NotifyCancelled
  BY <1>0, <1>18 DEF NotifyCancelled, NotifyThread, ThreadMutexFree,
     Outside
<1>19. CASE JoinThread
  BY <1>0, <1>19 DEF JoinThread, Outside
<1>20. CASE \E r \in Requests : AskInCallback(r)
  <2>1. PICK r \in Requests : AskInCallback(r)
    BY <1>20
  <2>. QED
    BY <1>0, <2>1 DEF AskInCallback, Outside
<1>21. CASE \E r \in Requests : Elapse(r)
  <2>1. PICK r \in Requests : Elapse(r)
    BY <1>21
  <2>. QED
    BY <1>0, <2>1 DEF Elapse, Outside
<1>. QED
  BY <1>0, <1>1, <1>2, <1>3, <1>4, <1>5, <1>6, <1>7, <1>8, <1>9, <1>10, <1>11, <1>12, <1>13,
     <1>14, <1>15, <1>16, <1>17, <1>18, <1>19, <1>20, <1>21
     DEF ProxyNext, CallerNext, ThreadNext, StatusNext, DestroyNext

(* NoTerminate: when one application thread asks (callbacks may ask too),  *)
(* isAvailableAsync neither replaces a joinable thread nor joins it twice. *)
THEOREM ThreadHandledSafely ==
  ASSUME OneCaller
  PROVE  ProxySpec => []NoTerminate
<1>1. ProxyInit => JoinedIsJoined /\ NoTerminate
  BY DEF ProxyInit, JoinedIsJoined, NoTerminate, Outside
<1>2. AvailabilityInv /\ JoinedIsJoined /\ NoTerminate /\ [ProxyNext]_proxyVars
        => (JoinedIsJoined /\ NoTerminate)'
  <2>. SUFFICES ASSUME AvailabilityInv, JoinedIsJoined, NoTerminate, [ProxyNext]_proxyVars
                PROVE  (JoinedIsJoined /\ NoTerminate)'
    OBVIOUS
  <2>1. CASE UNCHANGED proxyVars
    BY <2>1 DEF proxyVars, JoinedIsJoined, NoTerminate
  <2>2. CASE ProxyNext
    BY <2>2, JoinedStep DEF AvailabilityInv, NoTerminate
  <2>. QED
    BY <2>1, <2>2
<1>. QED
  BY <1>1, <1>2, AvailabilityInductive, PTL DEF ProxySpec

(* ThreadReady: whatever the order of callers, callbacks and the thread's  *)
(* end, a waiting request has a thread, and nobody breaks the thread.      *)
THEOREM ThreadAlwaysReady ==
  ASSUME OneCaller
  PROVE  ProxySpec => []ThreadReady
<1>1. WaitingIsServed /\ NoTerminate => ThreadReady
  BY DEF ThreadReady
<1>2. ProxySpec => []NoTerminate
  BY ThreadHandledSafely
<1>. QED
  BY <1>1, <1>2, RequestsServed, PTL

-----------------------------------------------------------------------------
(* The contract.  A step changes the state of at most one request.         *)

IsEntering(x, q) == x.pc \in {"joining", "joined"} /\ x.request = q

LEMMA EnteringKept ==
  ASSUME NEW q,
         \A c \in Callers : IsEntering(caller'[c], q) <=> IsEntering(caller[c], q)
  PROVE  q \in Entering' <=> q \in Entering
  BY DEF Entering, IsEntering

LEMMA StateKept ==
  ASSUME NEW q, told'[q] = told[q], q \in callbacks' <=> q \in callbacks,
         q \in timeouts' <=> q \in timeouts,
         q \in Entering' <=> q \in Entering
  PROVE  StateOf(q)' = StateOf(q)
  BY DEF StateOf

LEMMA StatesKept ==
  ASSUME \A q \in Requests : StateOf(q)' = StateOf(q)
  PROVE  RequestState' = RequestState
  BY DEF RequestState

LEMMA StateChanged ==
  ASSUME NEW r \in Requests, NEW w, StateOf(r)' = w,
         \A q \in Requests \ {r} : StateOf(q)' = StateOf(q)
  PROVE  RequestState' = [RequestState EXCEPT ![r] = w]
  BY DEF RequestState

LEMMA StateIs == ASSUME NEW r \in Requests PROVE RequestState[r] = StateOf(r)
  BY DEF RequestState

(* Every step is one of the contract's or changes nothing it speaks of.    *)
LEMMA ContractStep ==
  ASSUME AvailabilityInv, ProxyNext
  PROVE  [Contract!ContractNext]_(Contract!contractVars)
<1>. USE DEF AvailabilityInv, ProxyTypeOK, OnePlace, CallbackTold, ThreadObject
<1>0. ~crashed
  BY DEF ProxyNext
<1>. DEFINE Silent == UNCHANGED <<RequestState, answer, status, expired>>
<1>00. Silent => UNCHANGED Contract!contractVars
  BY DEF Contract!contractVars
<1>1. CASE \E c \in Callers, r \in Requests : JoinFirst(c, r)
  <2>1. PICK c \in Callers, r \in Requests : JoinFirst(c, r)
    BY <1>1
  <2>2. StateOf(r) = "none" /\ StateOf(r)' = "asked"
    BY <1>0, <2>1 DEF JoinFirst, StateOf, Fresh, Entering, Outside
  <2>3. \A q \in Requests \ {r} : StateOf(q)' = StateOf(q)
    <3>. SUFFICES ASSUME NEW q \in Requests \ {r} PROVE StateOf(q)' = StateOf(q)
      OBVIOUS
    <3>1. \A d \in Callers : IsEntering(caller'[d], q) <=> IsEntering(caller[d], q)
      BY <1>0, <2>1 DEF JoinFirst, IsEntering, Outside
    <3>2. told'[q] = told[q] /\ (q \in timeouts' <=> q \in timeouts)
      BY <1>0, <2>1 DEF JoinFirst
    <3>3. q \in callbacks' <=> q \in callbacks
      BY <1>0, <2>1 DEF JoinFirst
    <3>. QED
      BY <3>1, <3>2, <3>3, EnteringKept, StateKept
  <2>4. Contract!Ask(r)
    BY <2>1, <2>2, <2>3, StateIs, StateChanged DEF Contract!Ask, JoinFirst
  <2>. QED
    BY <2>4 DEF Contract!ContractNext
<1>2. CASE \E c \in Callers, r \in Requests : AskFirst(c, r)
  <2>1. PICK c \in Callers, r \in Requests : AskFirst(c, r)
    BY <1>2
  <2>2. CASE caller[c] = Outside /\ Fresh(r)
    <3>2. StateOf(r) = "none" /\ StateOf(r)' = "asked"
      BY <1>0, <2>1, <2>2 DEF AskFirst, StartThread, StateOf, Fresh,
         Entering, Outside
    <3>3. \A q \in Requests \ {r} : StateOf(q)' = StateOf(q)
      <4>. SUFFICES ASSUME NEW q \in Requests \ {r} PROVE StateOf(q)' = StateOf(q)
        OBVIOUS
      <4>1. \A d \in Callers : IsEntering(caller'[d], q) <=> IsEntering(caller[d], q)
        BY <1>0, <2>1, <2>2 DEF AskFirst, StartThread, IsEntering, Outside
      <4>2. told'[q] = told[q] /\ (q \in timeouts' <=> q \in timeouts)
        BY <1>0, <2>1, <2>2 DEF AskFirst
      <4>3. q \in callbacks' <=> q \in callbacks
        BY <1>0, <2>1, <2>2 DEF AskFirst
      <4>. QED
        BY <4>1, <4>2, <4>3, EnteringKept, StateKept
    <3>4. Contract!Ask(r)
      BY <2>1, <3>2, <3>3, StateIs, StateChanged DEF Contract!Ask, AskFirst
    <3>. QED
      BY <3>4 DEF Contract!ContractNext
  <2>3. CASE caller[c] = [pc |-> "joined", request |-> r]
    <3>2. \A q \in Requests : StateOf(q)' = StateOf(q)
      <4>. SUFFICES ASSUME NEW q \in Requests PROVE StateOf(q)' = StateOf(q)
        OBVIOUS
      <4>1. CASE q = r
        <5>1. caller[c].pc = "joined" /\ caller[c].request = r
          BY <2>3
        <5>2. r \in Entering /\ told[r] = 0 /\ r \notin callbacks
          BY <5>1 DEF Entering
        <5>3. r \in timeouts' /\ told' = told /\ callbacks' = callbacks
          BY <2>1 DEF AskFirst
        <5>. QED
          BY <5>2, <5>3, <4>1 DEF StateOf
      <4>2. CASE q # r
        <5>1. \A d \in Callers : IsEntering(caller'[d], q) <=> IsEntering(caller[d], q)
          BY <1>0, <2>1, <2>3, <4>2 DEF AskFirst, IsEntering
        <5>2. told'[q] = told[q] /\ (q \in timeouts' <=> q \in timeouts)
          BY <2>1, <4>2 DEF AskFirst
        <5>3. q \in callbacks' <=> q \in callbacks
          BY <2>1 DEF AskFirst
        <5>. QED
          BY <5>1, <5>2, <5>3, EnteringKept, StateKept
      <4>. QED
        BY <4>1, <4>2
    <3>3. UNCHANGED <<answer, status, expired>>
      BY <2>1 DEF AskFirst
    <3>. QED
      BY <1>00, <3>2, <3>3, StatesKept
  <2>. QED
    BY <2>1, <2>2, <2>3 DEF AskFirst
<1>3. CASE \E c \in Callers, r \in Requests : AskMore(c, r)
  <2>1. PICK c \in Callers, r \in Requests : AskMore(c, r)
    BY <1>3
  <2>2. StateOf(r) = "none" /\ StateOf(r)' = "asked"
    BY <1>0, <2>1 DEF AskMore, StateOf, Fresh, Entering, Outside
  <2>3. \A q \in Requests \ {r} : StateOf(q)' = StateOf(q)
    <3>. SUFFICES ASSUME NEW q \in Requests \ {r} PROVE StateOf(q)' = StateOf(q)
      OBVIOUS
    <3>1. \A d \in Callers : IsEntering(caller'[d], q) <=> IsEntering(caller[d], q)
      BY <1>0, <2>1 DEF AskMore, IsEntering, Outside
    <3>2. told'[q] = told[q] /\ (q \in timeouts' <=> q \in timeouts)
      BY <1>0, <2>1 DEF AskMore
    <3>3. q \in callbacks' <=> q \in callbacks
      BY <1>0, <2>1 DEF AskMore
    <3>. QED
      BY <3>1, <3>2, <3>3, EnteringKept, StateKept
  <2>4. Contract!Ask(r)
    BY <2>1, <2>2, <2>3, StateIs, StateChanged DEF Contract!Ask, AskMore
  <2>. QED
    BY <2>4 DEF Contract!ContractNext
<1>4. CASE \E c \in Callers : Joined(c)
  <2>1. PICK c \in Callers : Joined(c)
    BY <1>4
  <2>2. \A q \in Requests : StateOf(q)' = StateOf(q)
    <3>. SUFFICES ASSUME NEW q \in Requests PROVE StateOf(q)' = StateOf(q)
      OBVIOUS
    <3>1. \A d \in Callers : IsEntering(caller'[d], q) <=> IsEntering(caller[d], q)
      BY <1>0, <2>1 DEF Joined, IsEntering, Outside
    <3>2. told'[q] = told[q] /\ (q \in timeouts' <=> q \in timeouts)
      BY <1>0, <2>1 DEF Joined
    <3>3. q \in callbacks' <=> q \in callbacks
      BY <1>0, <2>1 DEF Joined
    <3>. QED
      BY <3>1, <3>2, <3>3, EnteringKept, StateKept
  <2>3. UNCHANGED <<answer, status, expired>>
    BY <2>1 DEF Joined
  <2>. QED
    BY <1>00, <2>2, <2>3, StatesKept
<1>5. CASE \E c \in Callers : NotifyAdded(c)
  <2>1. PICK c \in Callers : NotifyAdded(c)
    BY <1>5
  <2>2. \A q \in Requests : StateOf(q)' = StateOf(q)
    <3>. SUFFICES ASSUME NEW q \in Requests PROVE StateOf(q)' = StateOf(q)
      OBVIOUS
    <3>1. \A d \in Callers : IsEntering(caller'[d], q) <=> IsEntering(caller[d], q)
      BY <1>0, <2>1 DEF NotifyAdded, NotifyThread, ThreadMutexFree,
         IsEntering, Outside
    <3>2. told'[q] = told[q] /\ (q \in timeouts' <=> q \in timeouts)
      BY <1>0, <2>1 DEF NotifyAdded
    <3>3. q \in callbacks' <=> q \in callbacks
      BY <1>0, <2>1 DEF NotifyAdded
    <3>. QED
      BY <3>1, <3>2, <3>3, EnteringKept, StateKept
  <2>3. UNCHANGED <<answer, status, expired>>
    BY <2>1 DEF NotifyAdded
  <2>. QED
    BY <1>00, <2>2, <2>3, StatesKept
<1>6. CASE BeginThread
  <2>2. \A q \in Requests : StateOf(q)' = StateOf(q)
    BY <1>0, <1>6 DEF BeginThread, Loop, StateOf, Entering, Outside
  <2>3. UNCHANGED <<answer, status, expired>>
    BY <1>6 DEF BeginThread
  <2>. QED
    BY <1>00, <2>2, <2>3, StatesKept
<1>7. CASE ScanDone
  <2>2. \A q \in Requests : StateOf(q)' = StateOf(q)
    BY <1>0, <1>7 DEF ScanDone, StateOf, Entering, Outside
  <2>3. UNCHANGED <<answer, status, expired>>
    BY <1>7 DEF ScanDone
  <2>. QED
    BY <1>00, <2>2, <2>3, StatesKept
<1>8. CASE EndCallback
  <2>2. \A q \in Requests : StateOf(q)' = StateOf(q)
    <3>1. \A q \in Requests : q \in Entering' <=> q \in Entering
      BY <1>8, EnteringKept DEF EndCallback
    <3>2. \A q \in callbacks : q \notin callbacks' => told[q] = 1
      BY <1>0, <1>8 DEF EndCallback
    <3>. QED
      BY <1>0, <1>8, <3>1, <3>2 DEF EndCallback, StateOf
  <2>3. UNCHANGED <<answer, status, expired>>
    BY <1>8 DEF EndCallback
  <2>. QED
    BY <1>00, <2>2, <2>3, StatesKept
<1>9. CASE EndIteration
  <2>2. \A q \in Requests : StateOf(q)' = StateOf(q)
    BY <1>0, <1>9 DEF EndIteration, Loop, StateOf, Entering, Outside
  <2>3. UNCHANGED <<answer, status, expired>>
    BY <1>9 DEF EndIteration
  <2>. QED
    BY <1>00, <2>2, <2>3, StatesKept
<1>10. CASE \E timeout \in BOOLEAN : WakeUp(timeout)
  <2>1. PICK timeout \in BOOLEAN : WakeUp(timeout)
    BY <1>10
  <2>2. \A q \in Requests : StateOf(q)' = StateOf(q)
    BY <1>0, <2>1 DEF WakeUp, StateOf, Entering, Outside
  <2>3. UNCHANGED <<answer, status, expired>>
    BY <2>1 DEF WakeUp
  <2>. QED
    BY <1>00, <2>2, <2>3, StatesKept
<1>11. CASE \E r \in Requests : ScanEntry(r)
  <2>1. PICK r \in Requests : ScanEntry(r)
    BY <1>11
  <2>2. CASE IsAvailable \/ (waitTimedOut /\ r \in expired)
    <3>. DEFINE s == IF IsAvailable THEN "AVAILABLE" ELSE "NOT_AVAILABLE"
    <3>2. StateOf(r) = "asked" /\ StateOf(r)' = "settled"
      BY <1>0, <2>1, <2>2 DEF ScanEntry, StateOf, Fresh, Entering,
         Outside
    <3>3. \A q \in Requests \ {r} : StateOf(q)' = StateOf(q)
      <4>. SUFFICES ASSUME NEW q \in Requests \ {r} PROVE StateOf(q)' = StateOf(q)
        OBVIOUS
      <4>1. \A d \in Callers : IsEntering(caller'[d], q) <=> IsEntering(caller[d], q)
        BY <1>0, <2>1, <2>2 DEF ScanEntry, IsEntering, Outside
      <4>2. told'[q] = told[q] /\ (q \in timeouts' <=> q \in timeouts)
        BY <1>0, <2>1, <2>2 DEF ScanEntry
      <4>3. q \in callbacks' <=> q \in callbacks
        BY <1>0, <2>1, <2>2 DEF ScanEntry
      <4>. QED
        BY <4>1, <4>2, <4>3, EnteringKept, StateKept
    <3>4. Contract!Settle(r, s)
      BY <2>1, <2>2, <3>2, <3>3, StateIs, StateChanged
         DEF Contract!Settle, ScanEntry, IsAvailable
    <3>. QED
      BY <3>4 DEF Contract!ContractNext
  <2>3. CASE ~(IsAvailable \/ (waitTimedOut /\ r \in expired))
    <3>2. \A q \in Requests : StateOf(q)' = StateOf(q)
      BY <1>0, <2>1, <2>3 DEF ScanEntry, StateOf, Fresh, Entering,
         Outside
    <3>3. UNCHANGED <<answer, status, expired>>
      BY <2>1, <2>3 DEF ScanEntry
    <3>. QED
      BY <1>00, <3>2, <3>3, StatesKept
  <2>. QED
    BY <2>2, <2>3
<1>12. CASE \E r \in Requests : BeginCallback(r)
  <2>1. PICK r \in Requests : BeginCallback(r)
    BY <1>12
  <2>2. StateOf(r) = "settled" /\ StateOf(r)' = "told"
    BY <1>0, <2>1 DEF BeginCallback, StateOf, Fresh, Entering,
       Outside
  <2>3. \A q \in Requests \ {r} : StateOf(q)' = StateOf(q)
    BY <1>0, <2>1 DEF BeginCallback, StateOf, Fresh, Entering,
       Outside
  <2>4. Contract!Tell(r)
    BY <2>1, <2>2, <2>3, StateIs, StateChanged DEF Contract!Tell, BeginCallback
  <2>. QED
    BY <2>4 DEF Contract!ContractNext
<1>13. CASE \E s \in {"AVAILABLE", "NOT_AVAILABLE"} : SetStatus(s)
  <2>1. PICK s \in {"AVAILABLE", "NOT_AVAILABLE"} : SetStatus(s)
    BY <1>13
  <2>2. \A q \in Requests : StateOf(q)' = StateOf(q)
    BY <2>1 DEF SetStatus, StateOf, Entering
  <2>3. Contract!ServiceChanges(s)
    BY <2>1, <2>2, StatesKept DEF Contract!ServiceChanges, SetStatus
  <2>. QED
    BY <2>3 DEF Contract!ContractNext
<1>14. CASE NotifyChanged
  <2>2. \A q \in Requests : StateOf(q)' = StateOf(q)
    BY <1>0, <1>14 DEF NotifyChanged, NotifyThread, ThreadMutexFree,
       StateOf, Entering, Outside
  <2>3. UNCHANGED <<answer, status, expired>>
    BY <1>14 DEF NotifyChanged
  <2>. QED
    BY <1>00, <2>2, <2>3, StatesKept
<1>15. CASE WakeBlocked
  <2>2. \A q \in Requests : StateOf(q)' = StateOf(q)
    BY <1>0, <1>15 DEF WakeBlocked, StateOf, Entering, Outside
  <2>3. UNCHANGED <<answer, status, expired>>
    BY <1>15 DEF WakeBlocked
  <2>. QED
    BY <1>00, <2>2, <2>3, StatesKept
<1>16. CASE \E b \in Blockers : Block(b)
  <2>1. PICK b \in Blockers : Block(b)
    BY <1>16
  <2>2. \A q \in Requests : StateOf(q)' = StateOf(q)
    BY <1>0, <2>1 DEF Block, StateOf, Entering, Outside
  <2>3. UNCHANGED <<answer, status, expired>>
    BY <2>1 DEF Block
  <2>. QED
    BY <1>00, <2>2, <2>3, StatesKept
<1>17. CASE Destroy
  <2>2. \A q \in Requests : StateOf(q)' = StateOf(q)
    BY <1>0, <1>17 DEF Destroy, StateOf, Entering, Outside
  <2>3. UNCHANGED <<answer, status, expired>>
    BY <1>17 DEF Destroy
  <2>. QED
    BY <1>00, <2>2, <2>3, StatesKept
<1>18. CASE NotifyCancelled
  <2>2. \A q \in Requests : StateOf(q)' = StateOf(q)
    BY <1>0, <1>18 DEF NotifyCancelled, NotifyThread, ThreadMutexFree,
       StateOf, Entering, Outside
  <2>3. UNCHANGED <<answer, status, expired>>
    BY <1>18 DEF NotifyCancelled
  <2>. QED
    BY <1>00, <2>2, <2>3, StatesKept
<1>19. CASE JoinThread
  <2>2. \A q \in Requests : StateOf(q)' = StateOf(q)
    BY <1>0, <1>19 DEF JoinThread, StateOf, Entering, Outside
  <2>3. UNCHANGED <<answer, status, expired>>
    BY <1>19 DEF JoinThread
  <2>. QED
    BY <1>00, <2>2, <2>3, StatesKept
<1>20. CASE \E r \in Requests : AskInCallback(r)
  <2>1. PICK r \in Requests : AskInCallback(r)
    BY <1>20
  <2>2. StateOf(r) = "none" /\ StateOf(r)' = "asked"
    BY <1>0, <2>1 DEF AskInCallback, StateOf, Fresh, Entering,
       Outside
  <2>3. \A q \in Requests \ {r} : StateOf(q)' = StateOf(q)
    <3>. SUFFICES ASSUME NEW q \in Requests \ {r} PROVE StateOf(q)' = StateOf(q)
      OBVIOUS
    <3>1. \A d \in Callers : IsEntering(caller'[d], q) <=> IsEntering(caller[d], q)
      BY <1>0, <2>1 DEF AskInCallback, IsEntering, Outside
    <3>2. told'[q] = told[q] /\ (q \in timeouts' <=> q \in timeouts)
      BY <1>0, <2>1 DEF AskInCallback
    <3>3. q \in callbacks' <=> q \in callbacks
      BY <1>0, <2>1 DEF AskInCallback
    <3>. QED
      BY <3>1, <3>2, <3>3, EnteringKept, StateKept
  <2>4. Contract!Ask(r)
    BY <2>1, <2>2, <2>3, StateIs, StateChanged DEF Contract!Ask, AskInCallback
  <2>. QED
    BY <2>4 DEF Contract!ContractNext
<1>21. CASE \E r \in Requests : Elapse(r)
  <2>1. PICK r \in Requests : Elapse(r)
    BY <1>21
  <2>2. StateOf(r) = "asked"
    BY <1>0, <2>1 DEF Elapse, StateOf, Fresh, Entering, Outside
  <2>3. \A q \in Requests : StateOf(q)' = StateOf(q)
    BY <2>1 DEF Elapse, StateOf, Entering
  <2>4. Contract!TimeOver(r)
    BY <2>1, <2>2, <2>3, StateIs, StatesKept DEF Contract!TimeOver, Elapse
  <2>. QED
    BY <2>4 DEF Contract!ContractNext
<1>. QED
  BY <1>1, <1>2, <1>3, <1>4, <1>5, <1>6, <1>7, <1>8, <1>9, <1>10, <1>11, <1>12, <1>13, <1>14,
     <1>15, <1>16, <1>17, <1>18, <1>19, <1>20, <1>21
     DEF ProxyNext, CallerNext, ThreadNext, StatusNext, DestroyNext

(* ImplementsContract: the detailed specification implements the abstract  *)
(* one, for any number of requests and threads.                            *)
THEOREM RefinesContract == ProxySpec => ImplementsContract
<1>1. ProxyInit => Contract!ContractInit
  <2>. SUFFICES ASSUME ProxyInit PROVE Contract!ContractInit
    OBVIOUS
  <2>1. \A r \in Requests : StateOf(r) = "none"
    BY DEF ProxyInit, StateOf, Entering, Outside
  <2>2. RequestState = [r \in Requests |-> "none"]
    BY <2>1 DEF RequestState
  <2>. QED
    BY <2>2 DEF ProxyInit, Contract!ContractInit
<1>2. AvailabilityInv /\ [ProxyNext]_proxyVars =>
        [Contract!ContractNext]_(Contract!contractVars)
  <2>1. CASE UNCHANGED proxyVars
    <3>1. UNCHANGED RequestState
      BY <2>1 DEF proxyVars, RequestState, StateOf, Entering
    <3>. QED
      BY <2>1, <3>1 DEF proxyVars, Contract!contractVars
  <2>. QED
    BY <2>1, ContractStep
<1>. QED
  BY <1>1, <1>2, AvailabilityInductive, PTL DEF ProxySpec, ImplementsContract,
     Contract!ContractSpec
=============================================================================
