--------------------------- MODULE ServicesSteps ---------------------------
(* What a step of the model of services does to its tables, and the first  *)
(* parts of the inductive invariant: the types, the mutexes, what threads  *)
(* know of the adapters they work on, where adapters are in the tables,    *)
(* and which connection is open.  ServicesProofs goes on with the parts    *)
(* that relate the tables to each other, and with the theorems.            *)
EXTENDS Services, FiniteSetTheorems, SequenceTheorems, TLAPS

USE DEF Lines

-----------------------------------------------------------------------------
(* The tables of an object manager and of a connection.                    *)

\* addHandler: the adapter joins the vector, which stays without repetitions.
LEMMA HandlerAdded ==
  ASSUME NEW h \in Seq(Adapters), NEW a \in Adapters
  PROVE  /\ AddHandler(h, a) \in Seq(Adapters)
         /\ Range(AddHandler(h, a)) = Range(h) \cup {a}
         /\ IsInjective(h) => IsInjective(AddHandler(h, a))
<1>1. CASE a \in Range(h)
  BY <1>1 DEF AddHandler
<1>2. CASE a \notin Range(h)
  <2>1. AddHandler(h, a) = Append(h, a)
    BY <1>2 DEF AddHandler, AddToRegisteredObjectsTable
  <2>2. /\ DOMAIN Append(h, a) = 1..Len(h) + 1
        /\ \A i \in 1..Len(h) : Append(h, a)[i] = h[i]
        /\ Append(h, a)[Len(h) + 1] = a
        /\ DOMAIN h = 1..Len(h) /\ Len(h) \in Nat
    OBVIOUS
  <2>3. Range(Append(h, a)) = Range(h) \cup {a}
    <3>1. \A i \in 1..Len(h) + 1 : i \in 1..Len(h) \/ i = Len(h) + 1
      BY <2>2
    <3> QED
      BY <2>2, <3>1 DEF Range
  <2>4. IsInjective(h) => IsInjective(Append(h, a))
    <3> SUFFICES ASSUME IsInjective(h), NEW i \in 1..Len(h) + 1, NEW j \in 1..Len(h) + 1,
                        Append(h, a)[i] = Append(h, a)[j]
                 PROVE  i = j
      BY <2>2 DEF IsInjective
    <3>1. \A k \in 1..Len(h) : h[k] # a
      BY <1>2, <2>2 DEF Range
    <3> QED
      BY <2>2, <3>1 DEF IsInjective
  <2> QED
    BY <2>1, <2>3, <2>4
<1> QED
  BY <1>1, <1>2

\* removeHandler: the adapter leaves the vector, if it had it once.
LEMMA HandlerRemoved ==
  ASSUME NEW h \in Seq(Adapters), NEW a
  PROVE  /\ RemoveHandler(h, a) \in Seq(Adapters)
         /\ IsInjective(h) => /\ Range(RemoveHandler(h, a)) = Range(h) \ {a}
                              /\ IsInjective(RemoveHandler(h, a))
<1>1. CASE a \notin Range(h)
  BY <1>1 DEF RemoveHandler
<1>2. CASE a \in Range(h)
  <2> DEFINE k == CHOOSE i \in DOMAIN h : h[i] = a
             r == RemoveAt(h, k)
  <2>1. /\ DOMAIN h = 1..Len(h) /\ Len(h) \in Nat
        /\ k \in 1..Len(h) /\ h[k] = a
    BY <1>2 DEF Range
  <2> HIDE DEF k
  <2>2. /\ RemoveHandler(h, a) = r
        /\ r = SubSeq(h, 1, k - 1) \o SubSeq(h, k + 1, Len(h))
    BY <1>2 DEF RemoveHandler, RemoveAt, k
  <2>3. /\ r \in Seq(Adapters) /\ DOMAIN r = 1..Len(h) - 1
        /\ \A i \in 1..Len(h) - 1 : r[i] = IF i < k THEN h[i] ELSE h[i + 1]
    <3> DEFINE front == SubSeq(h, 1, k - 1)
               back == SubSeq(h, k + 1, Len(h))
    <3>0. \A i \in 1..Len(h) : h[i] \in Adapters
      BY ElementOfSeq
    <3>1. /\ front \in Seq(Adapters) /\ Len(front) = k - 1
          /\ \A i \in 1..k - 1 : front[i] = h[i]
      <4>1. 1 \in Int /\ k - 1 \in Int /\ \A i \in 1..k - 1 : h[i] \in Adapters
        BY <2>1, <3>0
      <4>2. /\ front \in Seq(Adapters)
            /\ Len(front) = IF 1 <= k - 1 THEN k - 1 - 1 + 1 ELSE 0
            /\ \A i \in 1..k - 1 - 1 + 1 : front[i] = h[1 + i - 1]
        BY <4>1, SubSeqProperties
      <4> HIDE DEF front
      <4>3. k - 1 - 1 + 1 = k - 1 /\ \A i \in 1..k - 1 : 1 + i - 1 = i
        BY <2>1
      <4> QED
        BY <2>1, <4>2, <4>3
    <3>2. /\ back \in Seq(Adapters) /\ Len(back) = Len(h) - k
          /\ \A i \in 1..Len(h) - k : back[i] = h[k + i]
      <4>1. k + 1 \in Int /\ Len(h) \in Int /\ \A i \in k + 1..Len(h) : h[i] \in Adapters
        BY <2>1, <3>0
      <4>2. /\ back \in Seq(Adapters)
            /\ Len(back) = IF k + 1 <= Len(h) THEN Len(h) - (k + 1) + 1 ELSE 0
            /\ \A i \in 1..Len(h) - (k + 1) + 1 : back[i] = h[k + 1 + i - 1]
        BY <4>1, SubSeqProperties
      <4> HIDE DEF back
      <4>3. Len(h) - (k + 1) + 1 = Len(h) - k /\ Len(h) - k \in Nat
        BY <2>1
      <4>4. Len(back) = Len(h) - k
        <5>1. k \in Nat /\ Len(h) \in Nat /\ k <= Len(h)
          BY <2>1
        <5>2. CASE k + 1 <= Len(h)
          BY <5>1, <5>2, <4>2, <4>3
        <5>3. CASE ~(k + 1 <= Len(h))
          <6>1. Len(back) = 0
            BY <5>3, <4>2
          <6>2. Len(h) - k = 0
            BY <5>1, <5>3
          <6> QED
            BY <6>1, <6>2
        <5> QED
          BY <5>2, <5>3
      <4>5. ASSUME NEW i \in 1..Len(h) - k PROVE back[i] = h[k + i]
        <5>1. k + 1 + i - 1 = k + i
          BY <2>1
        <5> QED
          BY <4>2, <4>3, <5>1
      <4> QED
        BY <4>2, <4>4, <4>5
    <3> HIDE DEF front, back
    <3>3. /\ front \o back \in Seq(Adapters) /\ Len(front \o back) = Len(h) - 1
          /\ \A i \in 1..Len(h) - 1 :
               (front \o back)[i] = IF i < k THEN front[i] ELSE back[i - (k - 1)]
      <4>1. /\ front \o back \in Seq(Adapters)
            /\ Len(front \o back) = Len(front) + Len(back)
            /\ \A i \in 1..Len(front) + Len(back) :
                 (front \o back)[i] = IF i <= Len(front) THEN front[i] ELSE back[i - Len(front)]
        BY <3>1, <3>2, ConcatProperties
      <4>2. Len(front) + Len(back) = Len(h) - 1 /\ Len(front) = k - 1
        BY <2>1, <3>1, <3>2
      <4> QED
        BY <4>1, <4>2, <2>1
    <3>4. r = front \o back
      BY <2>2 DEF front, back
    <3> HIDE DEF r
    <3>5. ASSUME NEW i \in 1..Len(h) - 1 PROVE r[i] = IF i < k THEN h[i] ELSE h[i + 1]
      <4>1. CASE i < k
        BY <4>1, <2>1, <3>1, <3>3, <3>4
      <4>2. CASE i >= k
        <5>1. i - (k - 1) \in 1..Len(h) - k
          BY <4>2, <2>1
        <5>2. back[i - (k - 1)] = h[k + (i - (k - 1))]
          BY <5>1, <3>2
        <5> QED
          BY <4>2, <5>2, <2>1, <3>3, <3>4
      <4> QED
        BY <4>1, <4>2, <2>1
    <3>6. DOMAIN r = 1..Len(h) - 1
      BY <3>3, <3>4
    <3> QED
      BY <3>3, <3>4, <3>5, <3>6
  <2> HIDE DEF r
  <2> SUFFICES ASSUME IsInjective(h)
               PROVE  Range(r) = Range(h) \ {a} /\ IsInjective(r)
    BY <2>2, <2>3
  <2>4. \A i \in 1..Len(h) : i # k => h[i] # a
    BY <2>1 DEF IsInjective
  <2>5. Range(r) = Range(h) \ {a}
    <3>1. ASSUME NEW i \in 1..Len(h) - 1 PROVE r[i] \in Range(h) \ {a}
      <4>1. CASE i < k
        BY <4>1, <2>1, <2>3, <2>4 DEF Range
      <4>2. CASE i >= k
        BY <4>2, <2>1, <2>3, <2>4 DEF Range
      <4> QED
        BY <4>1, <4>2, <2>1
    <3>2. ASSUME NEW i \in 1..Len(h), i # k PROVE h[i] \in Range(r)
      <4>1. CASE i < k
        <5>1. i \in 1..Len(h) - 1
          BY <4>1, <2>1
        <5>2. r[i] = h[i]
          BY <4>1, <5>1, <2>3
        <5> QED
          BY <5>1, <5>2, <2>3 DEF Range
      <4>2. CASE i > k
        <5>1. i - 1 \in 1..Len(h) - 1 /\ ~(i - 1 < k) /\ i - 1 + 1 = i
          BY <4>2, <2>1
        <5>2. r[i - 1] = h[i]
          BY <5>1, <2>3
        <5> QED
          BY <5>1, <5>2, <2>3 DEF Range
      <4>3. i < k \/ i > k
        BY <3>2, <2>1
      <4> QED
        BY <4>1, <4>2, <4>3
    <3> QED
      BY <3>1, <3>2, <2>1, <2>3 DEF Range
  <2>6. IsInjective(r)
    <3> SUFFICES ASSUME NEW i \in 1..Len(h) - 1, NEW j \in 1..Len(h) - 1, r[i] = r[j]
                 PROVE  i = j
      BY <2>3 DEF IsInjective
    <3>1. \A m, n \in 1..Len(h) : h[m] = h[n] => m = n
      BY <2>1 DEF IsInjective
    <3> QED
      BY <2>1, <2>3, <3>1
  <2> QED
    BY <2>5, <2>6
<1> QED
  BY <1>1, <1>2
-----------------------------------------------------------------------------
\* What registering an adapter changes in an object manager.
LEMMA EnteredManager ==
  ASSUME NEW m \in Manager, NEW a \in Adapters
  PROVE  /\ Entered(m, a) \in Manager
         /\ Entered(m, a).table = [m.table EXCEPT ![AddressOf[a]] = AddHandler(@, a)]
         /\ Entered(m, a).count = [m.count EXCEPT ![PathOf[AddressOf[a]]] =
                                     IF a \in Managing THEN @ + 1 ELSE @]
         /\ Entered(m, a).exported = m.exported
<1> DEFINE x == AddressOf[a]
           p == PathOf[x]
<1>1. x \in Addresses /\ p \in Paths
  BY ServicesAssumption
<1>2. AddHandler(m.table[x], a) \in Seq(Adapters)
        /\ AddHandler(m.properties[p], a) \in Seq(Adapters)
  BY <1>1, HandlerAdded DEF Manager
<1> HIDE DEF x, p
<1>3. Entered(m, a) = [m EXCEPT !.table[x] = AddHandler(@, a),
               !.properties[p] = IF a \in Properties THEN AddHandler(@, a) ELSE @,
               !.count[p] = IF a \in Managing THEN @ + 1 ELSE @]
  BY DEF Entered, x, p
<1>4. /\ Entered(m, a) = [table |-> [m.table EXCEPT ![x] = AddHandler(@, a)],
          properties |-> [m.properties EXCEPT ![p] =
            IF a \in Properties THEN AddHandler(@, a) ELSE @],
          count |-> [m.count EXCEPT ![p] = IF a \in Managing THEN @ + 1 ELSE @],
          exported |-> m.exported]
  BY <1>1, <1>3 DEF Manager
<1>5. Entered(m, a) \in Manager
  BY <1>1, <1>2, <1>4 DEF Manager
<1> QED
  BY <1>4, <1>5 DEF x, p

\* What unregistering an adapter changes in an object manager.
LEMMA LeftManager ==
  ASSUME NEW m \in Manager, NEW a \in Adapters
  PROVE  /\ Left(m, a) \in Manager
         /\ Left(m, a).table = [m.table EXCEPT ![AddressOf[a]] = RemoveHandler(@, a)]
         /\ Left(m, a).count = [m.count EXCEPT ![PathOf[AddressOf[a]]] =
                                  IF a \in Managing /\ Leaves(m, a) THEN @ - 1 ELSE @]
         /\ Left(m, a).exported[Root] = m.exported[Root]
<1> DEFINE x == AddressOf[a]
           p == PathOf[x]
           managing == a \in Managing /\ m.table[x] # <<>> /\ m.count[p] > 0
<1>1. x \in Addresses /\ p \in Paths /\ p # Root
  BY ServicesAssumption
<1>2. RemoveHandler(m.table[x], a) \in Seq(Adapters)
  BY <1>1, HandlerRemoved DEF Manager
<1>0. managing <=> a \in Managing /\ Leaves(m, a)
  BY DEF Leaves
<1>3. Left(m, a) = [m EXCEPT !.table[x] = RemoveHandler(@, a),
               !.count[p] = IF managing THEN @ - 1 ELSE @,
               !.exported[p] = IF managing /\ m.count[p] = 1 THEN {} ELSE @]
  BY DEF Left
<1>6. managing => m.count[p] \in Nat \ {0}
  BY <1>1 DEF Manager
<1> HIDE DEF x, p, managing
<1>4. /\ Left(m, a) = [table |-> [m.table EXCEPT ![x] = RemoveHandler(@, a)],
          properties |-> m.properties,
          count |-> [m.count EXCEPT ![p] = IF managing THEN @ - 1 ELSE @],
          exported |-> [m.exported EXCEPT ![p] = IF managing /\ m.count[p] = 1 THEN {} ELSE @]]
  BY <1>1, <1>3 DEF Manager
<1>7. [m.count EXCEPT ![p] = IF managing THEN @ - 1 ELSE @] \in [Paths -> Nat]
  BY <1>1, <1>6 DEF Manager
<1>8. [m.exported EXCEPT ![p] = IF managing /\ m.count[p] = 1 THEN {} ELSE @]
        \in [Paths \cup {Root} -> SUBSET Adapters]
  BY <1>1 DEF Manager
<1>5. Left(m, a) \in Manager
  BY <1>1, <1>2, <1>4, <1>7, <1>8 DEF Manager
<1>9. Left(m, a).exported[Root] = m.exported[Root]
  BY <1>1, <1>4 DEF Manager
<1> QED
  BY <1>0, <1>4, <1>5, <1>9 DEF x, p

\* Nothing but a count of a connection changes.
Same(c, d) == /\ d.active = c.active /\ d.open = c.open /\ d.closing = c.closing
              /\ d.closer = c.closer

\* What counting and releasing paths and names changes in a connection.
LEMMA CountsConnection ==
  ASSUME NEW c \in Connection, NEW x \in Addresses, NEW n \in Names
  PROVE  /\ PathUsed(c, x) \in Connection /\ Same(c, PathUsed(c, x))
         /\ PathUsed(c, x).names = c.names
         /\ PathUsed(c, x).paths = [c.paths EXCEPT ![PathOf[x]] = @ + 1]
         /\ PathUnused(c, x) \in Connection /\ Same(c, PathUnused(c, x))
         /\ PathUnused(c, x).names = c.names
         /\ PathUnused(c, x).paths = [c.paths EXCEPT ![PathOf[x]] = IF @ > 0 THEN @ - 1 ELSE 0]
         /\ NameReleased(c, n) \in Connection /\ Same(c, NameReleased(c, n))
         /\ NameReleased(c, n).paths = c.paths
         /\ NameReleased(c, n).names = [c.names EXCEPT ![n] = IF @ > 0 THEN @ - 1 ELSE 0]
<1> DEFINE p == PathOf[x]
<1>1. p \in Paths
  BY ServicesAssumption
<1> HIDE DEF p
<1>2. /\ c.paths \in [Paths -> Nat] /\ c.paths[p] \in Nat
      /\ c.names \in [Names -> Nat] /\ c.names[n] \in Nat
  BY <1>1 DEF Connection
<1>3. /\ [c.paths EXCEPT ![p] = @ + 1] \in [Paths -> Nat]
      /\ [c.paths EXCEPT ![p] = IF @ > 0 THEN @ - 1 ELSE 0] \in [Paths -> Nat]
      /\ [c.names EXCEPT ![n] = IF @ > 0 THEN @ - 1 ELSE 0] \in [Names -> Nat]
  BY <1>1, <1>2
<1>4. /\ PathUsed(c, x) = [c EXCEPT !.paths = [c.paths EXCEPT ![p] = @ + 1]]
      /\ PathUnused(c, x) =
           [c EXCEPT !.paths = [c.paths EXCEPT ![p] = IF @ > 0 THEN @ - 1 ELSE 0]]
      /\ NameReleased(c, n) =
           [c EXCEPT !.names = [c.names EXCEPT ![n] = IF @ > 0 THEN @ - 1 ELSE 0]]
  BY DEF PathUsed, PathUnused, NameReleased, p
<1>5. ASSUME NEW f \in [Paths -> Nat] PROVE LET d == [c EXCEPT !.paths = f] IN
        d \in Connection /\ Same(c, d) /\ d.names = c.names /\ d.paths = f
  BY DEF Connection, Same
<1>6. ASSUME NEW f \in [Names -> Nat] PROVE LET d == [c EXCEPT !.names = f] IN
        d \in Connection /\ Same(c, d) /\ d.paths = c.paths /\ d.names = f
  BY DEF Connection, Same
<1>7. /\ PathUsed(c, x) \in Connection /\ Same(c, PathUsed(c, x))
      /\ PathUsed(c, x).names = c.names
      /\ PathUsed(c, x).paths = [c.paths EXCEPT ![PathOf[x]] = @ + 1]
  <2> DEFINE f == [c.paths EXCEPT ![p] = @ + 1]
  <2>1. f \in [Paths -> Nat] /\ PathUsed(c, x) = [c EXCEPT !.paths = f]
    BY <1>3, <1>4
  <2> HIDE DEF f
  <2>2. /\ PathUsed(c, x) \in Connection /\ Same(c, PathUsed(c, x))
        /\ PathUsed(c, x).names = c.names /\ PathUsed(c, x).paths = f
    BY <2>1, <1>5
  <2> QED
    BY <2>2 DEF f, p
<1>8. /\ PathUnused(c, x) \in Connection /\ Same(c, PathUnused(c, x))
      /\ PathUnused(c, x).names = c.names
      /\ PathUnused(c, x).paths = [c.paths EXCEPT ![PathOf[x]] = IF @ > 0 THEN @ - 1 ELSE 0]
  <2> DEFINE f == [c.paths EXCEPT ![p] = IF @ > 0 THEN @ - 1 ELSE 0]
  <2>1. f \in [Paths -> Nat] /\ PathUnused(c, x) = [c EXCEPT !.paths = f]
    BY <1>3, <1>4
  <2> HIDE DEF f
  <2>2. /\ PathUnused(c, x) \in Connection /\ Same(c, PathUnused(c, x))
        /\ PathUnused(c, x).names = c.names /\ PathUnused(c, x).paths = f
    BY <2>1, <1>5
  <2> QED
    BY <2>2 DEF f, p
<1>9. /\ NameReleased(c, n) \in Connection /\ Same(c, NameReleased(c, n))
      /\ NameReleased(c, n).paths = c.paths
      /\ NameReleased(c, n).names = [c.names EXCEPT ![n] = IF @ > 0 THEN @ - 1 ELSE 0]
  <2> DEFINE f == [c.names EXCEPT ![n] = IF @ > 0 THEN @ - 1 ELSE 0]
  <2>1. f \in [Names -> Nat] /\ NameReleased(c, n) = [c EXCEPT !.names = f]
    BY <1>3, <1>4
  <2> HIDE DEF f
  <2> QED
    BY <2>1, <1>6 DEF f
<1> QED
  BY <1>7, <1>8, <1>9

\* A step of a thread that exports to an object manager stub, or takes back.
LEMMA ExportTyped ==
  ASSUME TypeOK, NEW g \in Connections, NEW p \in Paths \cup {Root}, NEW a \in Adapters,
         NEW done \in BOOLEAN, Export(g, p, a, done) \/ Unexport(g, p, a, done)
  PROVE  /\ manager' \in [Connections -> Manager]
         /\ heard' \in [Connections -> SUBSET Interface]
         /\ tainted' \subseteq Addresses /\ failures' \in 0..MaxFailures
<1>0. AddressOf[a] \in Addresses /\ PathOf[AddressOf[a]] \in Paths /\ MaxFailures \in Nat
  BY ServicesAssumption
<1>1. Interfaces(a) \subseteq Interface /\ PropertiesOf(a) \subseteq Interface
  BY <1>0 DEF Interfaces, PropertiesOf, Interface
<1>2. heard' \in [Connections -> SUBSET Interface]
  BY <1>1 DEF Export, Unexport, EmitInterfacesAdded, EmitInterfacesRemoved, TypeOK
<1>3. manager[g] \in Manager
  BY DEF TypeOK
<1>4. ASSUME NEW S \in SUBSET Adapters
      PROVE  [manager EXCEPT ![g].exported[p] = S] \in [Connections -> Manager]
  <2>1. [manager[g] EXCEPT !.exported = [manager[g].exported EXCEPT ![p] = S]] \in Manager
    BY <1>3 DEF Manager
  <2>2. [manager EXCEPT ![g].exported[p] = S]
          = [manager EXCEPT ![g] =
               [manager[g] EXCEPT !.exported = [manager[g].exported EXCEPT ![p] = S]]]
    OBVIOUS
  <2> QED
    BY <2>1, <2>2 DEF TypeOK
<1>5. manager[g].exported[p] \in SUBSET Adapters
  BY <1>3 DEF Manager
<1>6. manager' = manager
        \/ \E S \in SUBSET Adapters : manager' = [manager EXCEPT ![g].exported[p] = S]
  BY <1>5 DEF Export, Unexport, List, Unlisted
<1>7. manager' \in [Connections -> Manager]
  <2>1. manager \in [Connections -> Manager]
    BY DEF TypeOK
  <2> QED
    BY <2>1, <1>4, <1>6
<1>8. tainted' \subseteq Addresses /\ failures' \in 0..MaxFailures
  BY <1>0 DEF Export, Unexport, Fail, Works, TypeOK
<1> QED
  BY <1>2, <1>7, <1>8

\* A thread that goes on with a record of its own stays typed.
LEMMA GotoTyped ==
  ASSUME TypeOK, NEW t \in Actors, NEW q \in Process, Goto(t, q)
  PROVE  proc' \in [Actors -> Process]
  BY DEF Goto, TypeOK

\* A thread that moves to another line keeps a typed record.
LEMMA Moved ==
  ASSUME NEW q \in Process, NEW l \in Lines
  PROVE  [q EXCEPT !.pc = l] \in Process
  BY DEF Process

\* The records that threads begin with are typed.
LEMMA IdleTyped ==
  /\ Idle \in Process
  /\ \A a \in Adapters \cup {None} : [Idle EXCEPT !.pc = "drop", !.adapter = a] \in Process
  /\ \A g \in Connections : [Idle EXCEPT !.pc = "decrement", !.conn = g] \in Process
  /\ \A x \in Addresses : /\ [Idle EXCEPT !.pc = "unregister", !.address = x] \in Process
                          /\ [Idle EXCEPT !.pc = "destroy", !.address = x] \in Process
  BY DEF Idle, Process, Lines

\* getConnection keeps the types of Factory and the connections.
LEMMA GetConnectionTyped ==
  ASSUME TypeOK, NEW t \in Actors, NEW g \in Connections, GetConnection(t, g)
  PROVE  current' \in {0} \cup Connections /\ conn' \in [Connections -> Connection]
<1>0. conn[g] \in Connection
  BY DEF TypeOK
<1>1. [conn[g] EXCEPT !.active = @ + 1, !.open = TRUE] \in Connection
  <2>1. conn[g].active + 1 \in Int
    BY <1>0 DEF Connection
  <2>2. \A i \in Int : [conn[g] EXCEPT !.active = i, !.open = TRUE] \in Connection
    BY <1>0 DEF Connection
  <2> QED
    BY <2>1, <2>2
<1>2. conn' = [conn EXCEPT ![g] = [conn[g] EXCEPT !.active = @ + 1, !.open = TRUE]]
  BY DEF GetConnection
<1> QED
  BY <1>1, <1>2 DEF TypeOK, GetConnection

-----------------------------------------------------------------------------
(* Types.                                                                  *)

\* The initial state is typed.
LEMMA TypesInit == Init => TypeOK
<1>1. NewManager \in Manager
  BY DEF NewManager, Manager
<1>2. NewConnection \in Connection
  BY DEF NewConnection, Connection
<1> QED
  <2> SUFFICES ASSUME Init PROVE TypeOK
    OBVIOUS
  <2>1. /\ manager \in [Connections -> Manager] /\ conn \in [Connections -> Connection]
        /\ proc \in [Actors -> Process]
    BY <1>1, <1>2, IdleTyped DEF Init
  <2>2. /\ current \in {0} \cup Connections
        /\ services \in [Addresses -> Adapters \cup {None}]
        /\ servicesMutex \in Actors \cup {None} /\ connectionsMutex \in Actors \cup {None}
        /\ home \in [Adapters -> {0} \cup Connections] /\ destroyed \subseteq Adapters
        /\ proxies \in [Connections -> Nat]
        /\ handling \in [Connections -> Adapters \cup {None}]
    BY DEF Init
  <2>3. /\ owner \in [Names -> {0} \cup Connections]
        /\ heard \in [Connections -> SUBSET Interface]
        /\ promised \subseteq Adapters /\ tainted \subseteq Addresses
        /\ failures \in 0..MaxFailures
    BY ServicesAssumption DEF Init
  <2> QED
    BY <2>1, <2>2, <2>3 DEF TypeOK

\* What the threads need to know of themselves for the types.
Addressed(t) == LET q == proc[t] IN
  /\ q.pc \in {"insert", "export", "enter", "request", "count", "unexport", "withdraw",
               "retract", "erase", "enlist", "unlist", "release", "leave"}
       => q.adapter \in Adapters /\ q.address = AddressOf[q.adapter]
  /\ q.pc \in {"insert", "export", "enter", "request", "count", "unexport", "withdraw",
               "enlist", "release", "leave", "decrement", "close"} => q.conn \in Connections
  /\ q.pc \in {"unregister", "destroy", "return"} => q.address \in Addresses
Homed == \A a \in Adapters : a \in promised \/ a \in Range(services) => home[a] \in Connections

\* A thread that goes on with its operation keeps TypeOK.
LEMMA TypesContinue ==
  ASSUME TypeOK, NEW t \in Actors, Addressed(t), Homed, Continue(t)
  PROVE  TypeOK'
<1> DEFINE q == proc[t]
           g == q.conn
           x == q.address
           a == q.adapter
<1>0. /\ q \in Process
      /\ AddressOf \in [Adapters -> Addresses] /\ NameOf \in [Addresses -> Names]
      /\ PathOf \in [Addresses -> Paths]
  BY ServicesAssumption DEF TypeOK
<1>g. g \in Connections => manager[g] \in Manager /\ conn[g] \in Connection
  BY DEF TypeOK
<1>p. ASSUME NEW r \in Process, Goto(t, r) PROVE proc' \in [Actors -> Process]
  BY <1>p, GotoTyped
<1>m. ASSUME NEW l \in Lines, Move(t, l) PROVE proc' \in [Actors -> Process]
  BY <1>m, <1>0, GotoTyped, Moved DEF Move
<1>1. CASE Insert(t)
  <2>1. x \in Addresses /\ a \in Adapters
    BY <1>1, <1>0 DEF Insert, At, Addressed
  <2>2. proc' \in [Actors -> Process]
    BY <1>1, <1>m DEF Insert
  <2> QED
    BY <1>1, <2>1, <2>2 DEF Insert, TypeOK, busVars
<1>2. CASE ExportStub(t)
  <2>1. g \in Connections /\ a \in Adapters
    BY <1>2 DEF ExportStub, Owning, At, Addressed
  <2>2. PICK done \in BOOLEAN :
               Export(g, Root, a, done) /\ Move(t, IF done THEN "enter" ELSE "retract")
    BY <1>2 DEF ExportStub
  <2> QED
    <3>1. proc' \in [Actors -> Process]
      BY <2>2, <1>m
    <3>2. /\ manager' \in [Connections -> Manager]
          /\ heard' \in [Connections -> SUBSET Interface]
          /\ tainted' \subseteq Addresses /\ failures' \in 0..MaxFailures
      BY <2>1, <2>2, ExportTyped
    <3> QED
      BY <1>2, <3>1, <3>2 DEF ExportStub, TypeOK, mutexes
<1>3. CASE Enter(t)
  <2>1. g \in Connections /\ a \in Adapters /\ x \in Addresses
    BY <1>3, <1>0 DEF Enter, Owning, At, Addressed
  <2>2. Entered(manager[g], a) \in Manager /\ PathUsed(conn[g], x) \in Connection
    BY <2>1, <1>0, <1>g, EnteredManager, CountsConnection
  <2> QED
    BY <1>3, <1>m, <2>1, <2>2 DEF Enter, TypeOK, mutexes, busVars
<1>4. CASE RequestName(t)
  <2>1. g \in Connections /\ a \in Adapters /\ x \in Addresses
    BY <1>4, <1>0 DEF RequestName, Owning, At, Addressed
  <2>2. [conn EXCEPT ![g].names[NameOf[x]] = @ + 1] \in [Connections -> Connection]
    <3>1. /\ conn[g].names \in [Names -> Nat] /\ NameOf[x] \in Names
          /\ conn[g].names[NameOf[x]] \in Nat
      BY <2>1, <1>0, <1>g, ServicesAssumption DEF Connection
    <3>2. [conn[g].names EXCEPT ![NameOf[x]] = @ + 1] \in [Names -> Nat]
      BY <3>1
    <3>3. [conn[g] EXCEPT !.names = [conn[g].names EXCEPT ![NameOf[x]] = @ + 1]] \in Connection
      BY <2>1, <3>2, <1>g DEF Connection
    <3> QED
      BY <3>3, <2>1 DEF TypeOK
  <2>3. /\ owner' \in [Names -> {0} \cup Connections]
        /\ conn' \in [Connections -> Connection]
        /\ servicesMutex' \in Actors \cup {None}
        /\ promised' \subseteq Adapters
    BY <1>4, <2>1, <2>2 DEF RequestName, TypeOK
  <2>4. \E l \in Lines : Move(t, l)
    BY <1>4 DEF RequestName
  <2> QED
    BY <1>4, <1>m, <2>3, <2>4 DEF RequestName, TypeOK
<1>5. CASE CountManaged(t)
  <2>1. g \in Connections /\ a \in Adapters /\ x \in Addresses
    BY <1>5, <1>0 DEF CountManaged, Owning, At, Addressed
  <2>2. [conn EXCEPT ![g].active = @ + 1] \in [Connections -> Connection]
    <3>1. [conn[g] EXCEPT !.active = @ + 1] \in Connection
      <4>1. conn[g].active + 1 \in Int
        BY <2>1, <1>g DEF Connection
      <4>2. \A i \in Int : [conn[g] EXCEPT !.active = i] \in Connection
        BY <2>1, <1>g DEF Connection
      <4> QED
        BY <4>1, <4>2
    <3> QED
      BY <3>1, <2>1 DEF TypeOK
  <2> QED
    BY <1>5, <1>m, <2>1, <2>2 DEF CountManaged, TypeOK, busVars
<1>6. CASE RollbackExport(t)
  <2>1. g \in Connections /\ a \in Adapters
    BY <1>6 DEF RollbackExport, Owning, At, Addressed
  <2> QED
    <3>1. proc' \in [Actors -> Process]
      BY <1>6, <1>m DEF RollbackExport
    <3>2. /\ manager' \in [Connections -> Manager]
          /\ heard' \in [Connections -> SUBSET Interface]
          /\ tainted' \subseteq Addresses /\ failures' \in 0..MaxFailures
      BY <1>6, <2>1, ExportTyped DEF RollbackExport
    <3> QED
      BY <1>6, <3>1, <3>2 DEF RollbackExport, TypeOK, mutexes
<1>7. CASE Withdraw(t)
  <2>1. g \in Connections /\ a \in Adapters /\ x \in Addresses
    BY <1>7, <1>0 DEF Withdraw, Owning, At, Addressed
  <2>2. Left(manager[g], a) \in Manager /\ PathUnused(conn[g], x) \in Connection
    BY <2>1, <1>0, <1>g, LeftManager, CountsConnection
  <2>3. \A l \in Lines : [q EXCEPT !.pc = l, !.after = "erase"] \in Process
    BY <1>0 DEF Process
  <2> QED
    BY <1>7, <1>p, <2>1, <2>2, <2>3 DEF Withdraw, TypeOK, mutexes, busVars
<1>8. CASE Retract(t)
  <2>1. x \in Addresses
    BY <1>8, <1>0 DEF Retract, Owning, At, Addressed
  <2>2. services[x] # None => services[x] \in Adapters /\ home[services[x]] \in Connections
    BY <2>1 DEF TypeOK, Homed, Range
  <2>3. CASE services[x] # None
    <3> DEFINE b == services[x]
               h == home[services[x]]
    <3>1. Left(manager[h], b) \in Manager
      BY <2>2, <2>3, LeftManager DEF TypeOK
    <3>2. manager' = [manager EXCEPT ![h] = Left(@, b)]
      BY <1>8, <2>3 DEF Retract, Retracted
    <3>3. manager' \in [Connections -> Manager]
      BY <2>2, <2>3, <3>1, <3>2 DEF TypeOK
    <3>4. PathUnused(conn[h], x) \in Connection
            /\ NameReleased(PathUnused(conn[h], x), NameOf[x]) \in Connection
      <4>1. conn[h] \in Connection /\ NameOf[x] \in Names
        BY <2>1, <2>2, <2>3, <1>0 DEF TypeOK
      <4> QED
        BY <4>1, <2>1, CountsConnection
    <3>5. conn' \in [Connections -> Connection]
      BY <1>8, <2>2, <2>3, <3>4 DEF TypeOK, Retract, Retracted
    <3>6. /\ services' \in [Addresses -> Adapters \cup {None}]
          /\ owner' \in [Names -> {0} \cup Connections]
          /\ tainted' \subseteq Addresses /\ failures' \in 0..MaxFailures
      <4>1. MaxFailures \in Nat
        BY ServicesAssumption
      <4>2. /\ services' = services \/ services' = [services EXCEPT ![x] = None]
            /\ owner' = owner \/ owner' = [owner EXCEPT ![NameOf[x]] = 0]
            /\ Works \/ Fail(x)
        BY <1>8, <2>3 DEF Retract, Retracted
      <4>3. tainted' \subseteq Addresses /\ failures' \in 0..MaxFailures
        BY <4>1, <4>2, <2>1 DEF TypeOK, Works, Fail
      <4> QED
        BY <4>2, <4>3 DEF TypeOK
    <3>7. \A i \in Connections : [q EXCEPT !.pc = "decrement", !.conn = i] \in Process
      BY <1>0 DEF Process
    <3>8. proc' \in [Actors -> Process]
      <4>1. CASE Goto(t, [q EXCEPT !.pc = "decrement", !.conn = h])
        BY <4>1, <3>7, <1>p, <2>2, <2>3
      <4>2. \A l \in {"drop", "return", "erase"} : l \in Lines
        OBVIOUS
      <4>3. CASE Move(t, IF q.after = "drop" THEN "return" ELSE q.after)
        BY <4>3, <1>m, <1>0 DEF Process
      <4> QED
        BY <1>8, <4>1, <4>3 DEF Retract
    <3>9. servicesMutex' \in Actors \cup {None}
      BY <1>8 DEF Retract, Unlock, TypeOK
    <3> QED
      BY <1>8, <3>3, <3>5, <3>6, <3>8, <3>9 DEF Retract, TypeOK
  <2>4. CASE services[x] = None
    <3>1. proc' \in [Actors -> Process]
      BY <1>8, <2>4, <1>m, <1>0 DEF Retract, Process
    <3> QED
      BY <1>8, <2>4, <3>1 DEF Retract, TypeOK, Works
  <2> QED
    BY <2>3, <2>4
<1>9. CASE Erase(t)
  BY <1>9, <1>m DEF Erase, TypeOK, busVars
<1>10. CASE Return(t)
  BY <1>10, <1>m DEF Return, TypeOK, busVars
<1>11. CASE Release(t)
  <2>1. g \in Connections /\ a \in Adapters /\ x \in Addresses /\ NameOf[x] \in Names
    BY <1>11, <1>0 DEF Release, Owning, At, Addressed
  <2>2. NameReleased(conn[g], NameOf[x]) \in Connection
    BY <2>1, <1>g, CountsConnection
  <2>3. /\ conn' \in [Connections -> Connection]
        /\ owner' \in [Names -> {0} \cup Connections]
    BY <1>11, <2>1, <2>2 DEF Release, TypeOK
  <2>4. tainted' \subseteq Addresses /\ failures' \in 0..MaxFailures
    BY <1>11, <2>1, ServicesAssumption DEF Release, TypeOK, Works, Fail
  <2>5. \E l \in Lines : Move(t, l)
    BY <1>11 DEF Release
  <2> QED
    BY <1>11, <1>m, <2>3, <2>4, <2>5 DEF Release, TypeOK, mutexes
<1>12. CASE Forget(t)
  <2>1. g \in Connections /\ a \in Adapters /\ x \in Addresses
    BY <1>12, <1>0 DEF Forget, Owning, At, Addressed
  <2>2. PICK done \in BOOLEAN :
          /\ Unexport(g, Root, a, done)
          /\ services' = IF done THEN [services EXCEPT ![x] = None] ELSE services
          /\ Move(t, IF done THEN "decrement" ELSE "drop")
    BY <1>12 DEF Forget
  <2>3. proc' \in [Actors -> Process]
    BY <2>2, <1>m
  <2>4. /\ manager' \in [Connections -> Manager]
        /\ heard' \in [Connections -> SUBSET Interface]
        /\ tainted' \subseteq Addresses /\ failures' \in 0..MaxFailures
    BY <2>1, <2>2, ExportTyped
  <2>5. services' \in [Addresses -> Adapters \cup {None}]
    BY <2>2 DEF TypeOK
  <2> QED
    BY <1>12, <2>3, <2>4, <2>5 DEF Forget, TypeOK, Unlock
<1>13. CASE Decrement(t)
  <2>1. g \in Connections
    BY <1>13 DEF Decrement, Addressed
  <2>2. \A l \in {"drop", "return", "erase", "close"} : l \in Lines
    OBVIOUS
  <2>3. proc' \in [Actors -> Process]
    <3>1. \E l \in {"drop", "return", "erase", "close"} : Move(t, l)
      BY <1>13, <1>0 DEF Decrement, Move, Process
    <3> QED
      BY <3>1, <2>2, <1>m
  <2>4. ASSUME NEW b \in BOOLEAN, NEW f \in [Names -> Nat]
        PROVE  [conn EXCEPT ![g].active = @ - 1, ![g].closing = b, ![g].names = f]
                 \in [Connections -> Connection]
    <3>1. conn[g] \in Connection /\ conn[g].active - 1 \in Int
      BY <2>1, <1>g DEF Connection
    <3>2. \A i \in Int : [conn[g] EXCEPT !.active = i, !.closing = b, !.names = f] \in Connection
      BY <3>1 DEF Connection
    <3>3. [conn[g] EXCEPT !.active = @ - 1, !.closing = b, !.names = f] \in Connection
      BY <3>1, <3>2
    <3> QED
      BY <3>3, <2>1 DEF TypeOK
  <2>5. conn[g].names \in [Names -> Nat] /\ [n \in Names |-> 0] \in [Names -> Nat]
    BY <2>1, <1>g DEF Connection
  <2>6. conn' \in [Connections -> Connection]
    <3>1. CASE current # g
      BY <1>13, <3>1 DEF Decrement, TypeOK
    <3>2. CASE current = g
      <4> DEFINE f == IF conn[g].active <= 1 THEN [n \in Names |-> 0] ELSE conn[g].names
      <4>1. f \in [Names -> Nat] /\ (conn[g].active <= 1) \in BOOLEAN
        BY <2>5
      <4>2. conn' = [conn EXCEPT ![g].active = @ - 1, ![g].closing = (conn[g].active <= 1),
              ![g].names = f]
        BY <1>13, <3>2 DEF Decrement
      <4> HIDE DEF f
      <4> QED
        BY <4>1, <4>2, <2>4
    <3> QED
      BY <3>1, <3>2
  <2> QED
    BY <1>13, <2>1, <2>3, <2>6 DEF Decrement, TypeOK, busVars
<1>14. CASE Close(t)
  <2>1. g \in Connections
    BY <1>14 DEF Close, Addressed
  <2>3. proc' \in [Actors -> Process]
    <3>1. \E l \in {"drop", "return", "erase"} : Move(t, l)
      BY <1>14, <1>0 DEF Close, Move, Process
    <3> QED
      BY <3>1, <1>m
  <2>4. conn' \in [Connections -> Connection]
    <3>1. [conn[g] EXCEPT !.open = FALSE, !.closer = t] \in Connection
      BY <2>1, <1>g DEF Connection
    <3> QED
      BY <1>14, <3>1, <2>1 DEF Close, TypeOK
  <2>5. owner' \in [Names -> {0} \cup Connections]
    BY <1>14 DEF Close, TypeOK
  <2> QED
    BY <1>14, <2>3, <2>4, <2>5 DEF Close, TypeOK
<1>15. CASE Drop(t)
  <2>1. proc' \in [Actors -> Process] /\ destroyed' \subseteq Adapters
    <3>1. a \in Adapters \cup {None}
      BY <1>0 DEF Process
    <3>2. CASE a = None \/ a \in Referenced(t)
      BY <1>15, <3>2, <1>p, IdleTyped DEF Drop, TypeOK
    <3>3. CASE ~(a = None \/ a \in Referenced(t))
      <4>1. AddressOf[a] \in Addresses /\ a \in Adapters
        BY <3>1, <3>3, <1>0
      <4>2. /\ destroyed' = destroyed \cup {a}
            /\ Goto(t, [Idle EXCEPT !.pc = "destroy", !.address = AddressOf[a]])
        BY <1>15, <3>3 DEF Drop
      <4>3. proc' \in [Actors -> Process]
        BY <4>1, <4>2, <1>p, IdleTyped
      <4> QED
        BY <4>1, <4>2, <4>3 DEF TypeOK
    <3> QED
      BY <3>2, <3>3
  <2> QED
    BY <1>15, <2>1 DEF Drop, TypeOK, mutexes, busVars
<1>16. CASE Leave(t)
  <2>1. x \in Addresses
    BY <1>16 DEF Leave, Addressed
  <2>2. services[x] # None => services[x] \in Adapters /\ home[services[x]] \in Connections
    BY <2>1 DEF TypeOK, Homed, Range
  <2>3. CASE services[x] # None
    <3> DEFINE b == services[x]
               h == home[services[x]]
    <3>1. Left(manager[h], b) \in Manager /\ PathUnused(conn[h], x) \in Connection
      <4>1. manager[h] \in Manager /\ conn[h] \in Connection
        BY <2>2, <2>3 DEF TypeOK
      <4>2. NameOf[x] \in Names
        BY <2>1, <1>0
      <4> QED
        BY <4>1, <4>2, <2>1, <2>2, <2>3, LeftManager, CountsConnection
    <3>2. manager' \in [Connections -> Manager]
      BY <1>16, <2>2, <2>3, <3>1 DEF Leave, TypeOK
    <3>3. conn' \in [Connections -> Connection]
      BY <1>16, <2>2, <2>3, <3>1 DEF Leave, TypeOK
    <3>4. proc' \in [Actors -> Process]
      <4>1. \A l \in Lines :
              [pc |-> l, adapter |-> b, address |-> x, conn |-> h, after |-> "drop"] \in Process
        BY <2>1, <2>2, <2>3 DEF Process
      <4> QED
        BY <1>16, <2>3, <4>1, <1>p DEF Leave
    <3> QED
      BY <1>16, <2>1, <2>3, <3>2, <3>3, <3>4 DEF Leave, TypeOK, busVars
  <2>4. CASE services[x] = None
    BY <1>16, <2>4, <1>p, IdleTyped DEF Leave, TypeOK, busVars
  <2> QED
    BY <2>3, <2>4
<1>17. CASE Enlist(t)
  <2>1. g \in Connections /\ a \in Adapters /\ x \in Addresses
    BY <1>17, <1>0 DEF Enlist, At, Addressed
  <2>2. Entered(manager[g], a) \in Manager /\ PathUsed(conn[g], x) \in Connection
    BY <2>1, <1>0, <1>g, EnteredManager, CountsConnection
  <2> QED
    BY <1>17, <1>m, <2>1, <2>2 DEF Enlist, TypeOK, busVars
<1>18. CASE Unlist(t)
  <2>1. x \in Addresses
    BY <1>18, <1>0 DEF Unlist, At, Addressed
  <2> QED
    BY <1>18, <2>1, <1>m DEF Unlist, TypeOK, busVars
<1> QED
  BY <1>1, <1>2, <1>3, <1>4, <1>5, <1>6, <1>7, <1>8, <1>9, <1>10, <1>11, <1>12, <1>13, <1>14,
     <1>15, <1>16, <1>17, <1>18 DEF Continue

\* A thread that begins an operation keeps TypeOK.
LEMMA TypesBegin ==
  ASSUME TypeOK, NEW t \in Actors, Homed, Begin(t)
  PROVE  TypeOK'
<1>0. /\ AddressOf \in [Adapters -> Addresses] /\ Root \notin Paths
      /\ AddressOf \in [Adapters -> Addresses]
  BY ServicesAssumption
<1>p. ASSUME NEW r \in Process, Goto(t, r) PROVE proc' \in [Actors -> Process]
  BY <1>p, GotoTyped
<1>1. ASSUME NEW a \in Adapters, RegisterStub(t, a) PROVE TypeOK'
  <2>1. PICK g \in Connections :
          /\ GetConnection(t, g)
          /\ home' = [home EXCEPT ![a] = g]
          /\ Goto(t, [pc |-> "insert", adapter |-> a, address |-> AddressOf[a],
                      conn |-> g, after |-> "return"])
    BY <1>1 DEF RegisterStub
  <2>2. [pc |-> "insert", adapter |-> a, address |-> AddressOf[a],
         conn |-> g, after |-> "return"] \in Process
    BY <1>0 DEF Process
  <2>3. proc' \in [Actors -> Process]
    BY <2>1, <2>2, <1>p
  <2> QED
    BY <1>1, <2>1, <2>3, GetConnectionTyped DEF RegisterStub, TypeOK, mutexes, busVars
<1>2. ASSUME NEW a \in Adapters, NEW b \in Adapters, RegisterManaged(t, a, b) PROVE TypeOK'
  <2>1. home[b] \in Connections
    BY <1>2 DEF RegisterManaged, Homed
  <2>2. [pc |-> "enlist", adapter |-> a, address |-> AddressOf[a],
         conn |-> home[b], after |-> "drop"] \in Process
    BY <2>1, <1>0 DEF Process
  <2>3. proc' \in [Actors -> Process]
    BY <1>2, <2>2, <1>p DEF RegisterManaged
  <2> QED
    BY <1>2, <2>1, <2>3 DEF RegisterManaged, TypeOK, mutexes, busVars
<1>3. ASSUME NEW p \in Paths, NEW a \in Adapters, ExportManaged(t, p, a) PROVE TypeOK'
  <2>1. home[a] \in Connections
    BY <1>3 DEF ExportManaged, Homed
  <2>2. PICK done \in BOOLEAN : Export(home[a], p, a, done)
    BY <1>3 DEF ExportManaged
  <2>3. /\ manager' \in [Connections -> Manager]
        /\ heard' \in [Connections -> SUBSET Interface]
        /\ tainted' \subseteq Addresses /\ failures' \in 0..MaxFailures
    BY <2>1, <2>2, ExportTyped
  <2> QED
    BY <1>3, <2>3 DEF ExportManaged, TypeOK, mutexes
<1>4. ASSUME NEW p \in Paths, NEW a \in Adapters, UnexportManaged(t, p, a) PROVE TypeOK'
  <2>1. home[a] \in Connections
    BY <1>4 DEF UnexportManaged, TypeOK
  <2>2. PICK done \in BOOLEAN : Unexport(home[a], p, a, done)
    BY <1>4 DEF UnexportManaged
  <2>3. /\ manager' \in [Connections -> Manager]
        /\ heard' \in [Connections -> SUBSET Interface]
        /\ tainted' \subseteq Addresses /\ failures' \in 0..MaxFailures
    BY <2>1, <2>2, ExportTyped
  <2>4. proc' \in [Actors -> Process]
    BY <1>4, <1>p, IdleTyped DEF UnexportManaged
  <2> QED
    BY <1>4, <2>3, <2>4 DEF UnexportManaged, TypeOK, mutexes
<1>5. ASSUME NEW x \in Addresses, UnregisterStub(t, x) PROVE TypeOK'
  <2>1. proc' \in [Actors -> Process]
    BY <1>5, <1>p, IdleTyped DEF UnregisterStub
  <2> QED
    BY <1>5, <2>1 DEF UnregisterStub, TypeOK, mutexes, busVars
<1>6. ASSUME NEW a \in Adapters, UnregisterManaged(t, a) PROVE TypeOK'
  <2>1. [pc |-> "unlist", adapter |-> a, address |-> AddressOf[a], conn |-> 0,
         after |-> "drop"] \in Process
    BY <1>0 DEF Process
  <2>2. proc' \in [Actors -> Process]
    BY <1>6, <2>1, <1>p DEF UnregisterManaged
  <2> QED
    BY <1>6, <2>2 DEF UnregisterManaged, TypeOK, mutexes, busVars
<1>7. ASSUME NEW g \in Connections, CreateProxy(t, g) PROVE TypeOK'
  <2>1. proxies' \in [Connections -> Nat]
    BY <1>7 DEF CreateProxy, TypeOK
  <2> QED
    BY <1>7, <2>1, GetConnectionTyped DEF CreateProxy, TypeOK, mutexes, busVars
<1>8. ASSUME NEW g \in Connections, DestroyProxy(t, g) PROVE TypeOK'
  <2>1. proxies' \in [Connections -> Nat]
    BY <1>8 DEF DestroyProxy, TypeOK
  <2>2. proc' \in [Actors -> Process]
    BY <1>8, <1>p, IdleTyped DEF DestroyProxy
  <2> QED
    BY <1>8, <2>1, <2>2 DEF DestroyProxy, TypeOK, mutexes, busVars
<1> QED
  BY <1>1, <1>2, <1>3, <1>4, <1>5, <1>6, <1>7, <1>8 DEF Begin

\* A call that begins or ends in a dispatch thread keeps TypeOK.
LEMMA TypesDispatch ==
  ASSUME TypeOK
  PROVE  /\ \A g \in Connections, x \in Addresses : Receive(g, x) => TypeOK'
         /\ \A g \in Connections : Reply(g) => TypeOK'
<1>1. ASSUME NEW g \in Connections, NEW x \in Addresses, Receive(g, x) PROVE TypeOK'
  <2>1. manager[g].table[x] \in Seq(Adapters) /\ manager[g].table[x] # <<>>
    BY <1>1 DEF TypeOK, Manager, Receive
  <2>2. Head(manager[g].table[x]) \in Adapters
    BY <2>1
  <2> QED
    BY <1>1, <2>2 DEF Receive, TypeOK, mutexes, busVars
<1>2. ASSUME NEW g \in Connections, Reply(g) PROVE TypeOK'
  <2>1. DispatcherOf[g] \in Actors /\ handling[g] \in Adapters
    BY <1>2 DEF Reply, TypeOK, Actors, Dispatchers
  <2>2. proc' \in [Actors -> Process]
    BY <1>2, <2>1, IdleTyped, GotoTyped DEF Reply
  <2> QED
    BY <1>2, <2>2 DEF Reply, TypeOK, mutexes, busVars
<1> QED
  BY <1>1, <1>2

-----------------------------------------------------------------------------
(* The inductive invariant.  A thread that holds servicesMutex_ is in the  *)
(* middle of an operation at one address; the tables of every other        *)
(* address agree, and its own differ from that by what its line says.      *)

\* What the thread that holds servicesMutex_ does at an address.
Holder(x) == IF servicesMutex # None /\ proc[servicesMutex].address = x
               THEN proc[servicesMutex] ELSE Idle
Stage(q) == IF q.pc = "retract" /\ q.after = "erase" THEN "undo" ELSE q.pc
Line(x) == Stage(Holder(x))

\* servicesMutex_ is held by the thread that is between its lock and its unlock.
LockedLines == {"export", "enter", "request", "count", "unexport", "withdraw",
                "retract", "erase", "return", "release", "leave"}
Locked(q) == q.pc \in LockedLines \/ (q.pc = "decrement" /\ q.after # "drop")
MutexHeld == \A t \in Actors : Locked(proc[t]) <=> servicesMutex = t

\* connectionsMutex_ is held by the thread that disconnects, after it took the
\* connection out of connections_.
DisconnectHeld ==
  /\ \A t \in Actors : proc[t].pc = "close" <=> connectionsMutex = t
  /\ connectionsMutex # None => current = 0

\* What a thread knows of the adapter it registers or unregisters.
Building == {"insert", "export", "enter", "unexport", "enlist", "count", "request",
             "withdraw"}
Shape(q) ==
  /\ q.pc \in Building \cup {"retract", "erase", "unlist", "release", "leave"}
               \/ (q.pc = "decrement" /\ q.after # "drop")
       => q.adapter \in Adapters /\ q.address = AddressOf[q.adapter] /\ home[q.adapter] # 0
  /\ q.pc \in Building \cup {"release", "leave"} => q.conn = home[q.adapter]
  /\ q.pc \in Building \cup {"unlist", "retract"} => (q.after = "drop" <=> q.adapter \in Managed)
  /\ q.pc \in Building \cup {"unlist"} => q.after # "erase"
  /\ q.pc \in {"insert", "export", "enter", "unexport"} => q.adapter \notin Managed
  /\ q.pc \in {"enlist", "count", "unlist"} => q.adapter \in Managed
  /\ q.pc \in {"release", "leave"} => services[q.address] = q.adapter /\ q.after = "drop"
  /\ q.pc \in {"unregister", "destroy", "return"} => q.address \in Addresses
  /\ q.pc \in {"decrement", "close"} => q.conn # 0
  /\ q.pc = "decrement" /\ q.after # "drop" =>
       q.adapter \notin Managed /\ services[q.address] = None
  /\ q.pc = "close" => q.after = "drop" /\ conn[q.conn].closing
Shapes == \A t \in Actors : Shape(proc[t])

\* An adapter is only in the tables of its connection, at its address, and none
\* is there twice.
Tab(g, x) == Range(manager[g].table[x])
Placed ==
  /\ \A x \in Addresses : services[x] # None =>
       AddressOf[services[x]] = x /\ home[services[x]] # 0
  /\ \A a \in Adapters : home[a] # 0 => conn[home[a]].open \/ conn[home[a]].closing
  /\ \A a \in promised : home[a] # 0
  /\ \A g \in Connections, x \in Addresses :
       /\ IsInjective(manager[g].table[x])
       /\ \A a \in Tab(g, x) :
            AddressOf[a] = x /\ home[a] = g /\ (a \in Managed => services[x] = a)

\* Whether the adapter of a thread is in the tables yet, or still.
Entering ==
  \A t \in Actors : LET q == proc[t] IN
  /\ q.pc \in {"insert", "export", "enter", "release", "leave"} =>
       q.adapter \notin Tab(q.conn, q.address)
  /\ q.pc \in {"request", "count", "unexport", "withdraw"} => q.adapter \in Tab(q.conn, q.address)
  /\ q.pc = "retract" /\ q.after # "drop" => q.adapter \notin Tab(home[q.adapter], q.address)
  /\ q.pc = "erase" /\ services[q.address] # None =>
       services[q.address] \notin Tab(home[services[q.address]], q.address)
  /\ q.pc = "insert" => (\A u \in Actors \ {t} : proc[u].pc \in {"insert", "export", "enter"} =>
                            proc[u].adapter # q.adapter)
  /\ q.pc \in {"request", "count", "withdraw", "erase"} /\ q.adapter \in Managed
       => services[q.address] = q.adapter

\* Only the connection of Factory is open without being closed, and has proxies.
ConnectionsFit ==
  /\ current # 0 => conn[current].open /\ ~conn[current].closing
  /\ \A g \in Connections :
       /\ conn[g].open /\ g # current => conn[g].closing
       /\ ~conn[g].open => heard[g] = {}
       /\ handling[g] # None => conn[g].open \/ conn[g].closer = DispatcherOf[g]
       /\ proxies[g] > 0 => current = g

\* Every user of a connection is counted: its proxies, the entries of services_
\* (a managed service only when its count is done), threads that are about to
\* enter a stub or to take a user off, stubs without entry that a thread has not
\* taken out of the tables yet, and the one that a rollback is about to take off.
Uncounted(x) == Line(x) \in {"request", "count", "withdraw", "erase"}
                  /\ Holder(x).adapter \in Managed
Entries(g) == {x \in Addresses : services[x] # None /\ home[services[x]] = g /\ ~Uncounted(x)}
Takers(g) == {t \in Actors : proc[t].conn = g /\ proc[t].pc \in {"insert", "decrement"}}
Leftover(g) ==
  {a \in Adapters \ Managed :
     /\ home[a] = g /\ services[AddressOf[a]] # a
     /\ \/ a \in Tab(g, AddressOf[a])
        \/ Holder(AddressOf[a]).adapter = a
             /\ Holder(AddressOf[a]).pc \in {"export", "enter", "retract"}}
Owing(g) == \E x \in Addresses : /\ Line(x) = "decrement" /\ Holder(x).conn = g /\ Tab(g, x) = {}
Spare(g) == IF Owing(g) THEN 1 ELSE 0
UsersCounted ==
  \A g \in Connections :
    IF conn[g].closing
    THEN /\ proxies[g] = 0 /\ Entries(g) \subseteq tainted /\ Leftover(g) = {}
         /\ \A t \in Takers(g) : proc[t].pc # "insert"
    ELSE conn[g].active >= proxies[g] + Cardinality(Entries(g)) + Cardinality(Takers(g))
                            + Cardinality(Leftover(g)) + Spare(g)

\* What is in the tables of an address, on the list of "/" and with the peers, by
\* the line of the thread that works there.
Listed(x) == services[x] # None /\ services[x] \notin Managed
               /\ Line(x) \notin {"export", "withdraw", "undo", "erase"}
OnlyManaging(x) == {AddressOf[a] : a \in Managing} \cap OfPath(PathOf[x]) = {x}
ManagerEntry(x) == [path |-> PathOf[x], interface |-> "ObjectManager"]
AtRoot(g, x) == manager[g].exported[Root] \cap At_(x)
Fits(x) ==
  LET a == services[x]
      line == Line(x)
  IN
  /\ line \in {"idle", "undo"} \cup LockedLines
  /\ line = "retract" => Holder(x).after = "drop" /\ a \in Managed \cup {None}
  /\ line \notin {"idle", "retract", "return"} => a = Holder(x).adapter
  /\ line \in {"release", "leave"} => a \notin Managed
  /\ \A g \in Connections :
       /\ Tab(g, x) \subseteq {a}
       /\ Tab(g, x) # {} =>
            line \notin {"export", "enter", "undo", "erase", "release", "leave", "return"}
       /\ AtRoot(g, x) = IF Listed(x) /\ home[a] = g THEN {a} ELSE {}
       /\ Entry(x) \in heard[g] <=> conn[g].open /\ Listed(x) /\ home[a] = g
       /\ OnlyManaging(x) => (ManagerEntry(x) \in heard[g]
            <=> conn[g].open /\ Listed(x) /\ home[a] = g /\ a \in Managing)
  /\ At_(x) \cap promised \subseteq {a}
  /\ line # "idle" => At_(x) \cap promised = {}
AllFit == \A x \in Addresses \ tainted : Fits(x)

\* The counts of a path are the numbers of its addresses in the tables.
PathSound(p) == OfPath(p) \cap tainted = {}
EnteredOf(g, p) == {x \in OfPath(p) : Tab(g, x) # {}}
EnteredManaging(g, p) == {x \in OfPath(p) : Tab(g, x) \cap Managing # {}}
PathsCounted == \A g \in Connections, p \in Paths : PathSound(p) =>
  /\ conn[g].paths[p] = Cardinality(EnteredOf(g, p))
  /\ manager[g].count[p] = Cardinality(EnteredManaging(g, p))

\* The count of a name is the number of its entries between RequestName and
\* ReleaseName, and the bus gave the name to the connection that counts it.
OfName(n) == {x \in Addresses : NameOf[x] = n}
NameSound(n) == OfName(n) \cap tainted = {}
Named(g, n) == {x \in OfName(n) : services[x] # None /\ home[services[x]] = g
   /\ Line(x) \notin {"export", "enter", "request", "unexport", "withdraw", "undo", "erase",
                      "leave"}}
NamesCounted == \A g \in Connections, n \in Names : ~conn[g].closing =>
  /\ NameSound(n) => conn[g].names[n] = Cardinality(Named(g, n))
  /\ conn[g].names[n] > 0 => owner[n] = g

\* An entry that no thread works on is complete.
Sound(x) == PathSound(PathOf[x]) /\ NameSound(NameOf[x])
AllComplete == \A x \in Addresses : Sound(x) /\ services[x] # None =>
  /\ Line(x) \in {"idle", "retract"} => Tab(home[services[x]], x) # {}
  /\ Line(x) = "idle" => services[x] \in promised
  /\ Line(x) # "return"

\* What peers heard of an address has its path, and what is on the list of "/"
\* belongs to the connection.
HeardForm == \A g \in Connections : \A e \in heard[g] :
               e.interface \in Addresses => e.path = PathOf[e.interface]
ExportedForm == \A g \in Connections : \A a \in manager[g].exported[Root] : home[a] = g

Inv == /\ TypeOK /\ MutexHeld /\ DisconnectHeld /\ Shapes /\ Placed /\ Entering /\ ConnectionsFit
       /\ UsersCounted /\ AllFit /\ PathsCounted /\ NamesCounted /\ AllComplete
       /\ HeardForm /\ ExportedForm

-----------------------------------------------------------------------------
(* How the parts of the state move with a step.                            *)

\* What a thread does next.
Becomes(t, pc, a, x, g, after) ==
  /\ proc'[t].pc = pc /\ proc'[t].adapter = a /\ proc'[t].address = x
  /\ proc'[t].conn = g /\ proc'[t].after = after
  /\ \A u \in Actors \ {t} : proc'[u] = proc[u]

\* What a thread does after Goto.
LEMMA GoesTo ==
  ASSUME TypeOK, NEW t \in Actors, NEW r \in Process, Goto(t, r)
  PROVE  Becomes(t, r.pc, r.adapter, r.address, r.conn, r.after) /\ proc'[t] = r
  BY DEF Goto, TypeOK, Becomes

\* What a thread does after Move.
LEMMA MovesTo ==
  ASSUME TypeOK, NEW t \in Actors, NEW q \in Process, q = proc[t], NEW pc, Move(t, pc)
  PROVE  Becomes(t, pc, q.adapter, q.address, q.conn, q.after)
<1>1. proc' = [proc EXCEPT ![t] = [q EXCEPT !.pc = pc]]
  BY DEF Move, Goto
<1>2. /\ proc'[t] = [q EXCEPT !.pc = pc]
      /\ \A u \in Actors \ {t} : proc'[u] = proc[u]
  BY <1>1 DEF TypeOK
<1>3. /\ [q EXCEPT !.pc = pc].pc = pc /\ [q EXCEPT !.pc = pc].adapter = q.adapter
      /\ [q EXCEPT !.pc = pc].address = q.address /\ [q EXCEPT !.pc = pc].conn = q.conn
      /\ [q EXCEPT !.pc = pc].after = q.after
  BY DEF Process
<1> QED
  BY <1>2, <1>3 DEF Becomes

\* One thread holds servicesMutex, at one address.
HeldBy(x, q) == \A y : Holder(y) = IF y = x THEN q ELSE Idle
NotHeld == \A y : Holder(y) = Idle
SameHolder == \A y : Holder(y)' = Holder(y)

\* A thread takes servicesMutex_, at an address.
LEMMA HolderTaken ==
  ASSUME TypeOK, NEW t \in Actors, NEW pc, NEW a, NEW x, NEW g, NEW after,
         Becomes(t, pc, a, x, g, after), servicesMutex = None, servicesMutex' = t
  PROVE  NotHeld /\ \A y : Holder(y)' = IF y = x THEN proc'[t] ELSE Idle
<1>1. t # None
  BY ServicesAssumption
<1> QED
  BY <1>1 DEF Holder, Idle, Becomes, NotHeld

\* The holder of servicesMutex_ goes on, or lets it go.
LEMMA HolderGoes ==
  ASSUME TypeOK, NEW t \in Actors, NEW q, q = proc[t], NEW pc, NEW a, NEW g, NEW after,
         Becomes(t, pc, a, q.address, g, after), servicesMutex = t
  PROVE  /\ HeldBy(q.address, q)
         /\ servicesMutex' = t => \A y : Holder(y)' = IF y = q.address THEN proc'[t] ELSE Idle
         /\ servicesMutex' = None => \A y : Holder(y)' = Idle
<1>1. t # None
  BY ServicesAssumption
<1> QED
  BY <1>1 DEF Holder, Idle, Becomes, HeldBy

\* A step of a thread that does not hold servicesMutex_.
LEMMA HolderWaits ==
  ASSUME TypeOK, NEW t \in Actors, \A u \in Actors \ {t} : proc'[u] = proc[u],
         servicesMutex # t, servicesMutex' = servicesMutex
  PROVE  SameHolder
  BY DEF Holder, Idle, TypeOK, SameHolder

\* A step that moves no thread.
LEMMA HolderStays ==
  ASSUME proc' = proc, servicesMutex' = servicesMutex
  PROVE  SameHolder
  BY DEF Holder, Idle, SameHolder

\* One list of exported adapters changes.
ExportedSet(g, p, S) == [manager EXCEPT ![g].exported[p] = S]

\* What a change of one list of exported adapters leaves alone.
LEMMA ManagerSet ==
  ASSUME TypeOK, NEW g \in Connections, NEW p \in Paths \cup {Root}, NEW S,
         manager' = ExportedSet(g, p, S)
  PROVE  /\ \A h \in Connections : /\ manager'[h].table = manager[h].table
                                   /\ manager'[h].count = manager[h].count
                                   /\ manager'[h].properties = manager[h].properties
         /\ \A h \in Connections, r \in Paths \cup {Root} :
              manager'[h].exported[r] = IF h = g /\ r = p THEN S ELSE manager[h].exported[r]
<1>1. manager[g] \in Manager /\ \A h \in Connections : manager[h] \in Manager
  BY DEF TypeOK
<1>2. /\ manager'[g] = [manager[g] EXCEPT !.exported = [manager[g].exported EXCEPT ![p] = S]]
      /\ \A h \in Connections \ {g} : manager'[h] = manager[h]
  BY DEF TypeOK, ExportedSet
<1>3. /\ manager'[g].table = manager[g].table /\ manager'[g].count = manager[g].count
      /\ manager'[g].properties = manager[g].properties
      /\ manager'[g].exported = [manager[g].exported EXCEPT ![p] = S]
  BY <1>1, <1>2 DEF Manager
<1>4. \A h \in Connections : /\ manager'[h].table = manager[h].table
                             /\ manager'[h].count = manager[h].count
                             /\ manager'[h].properties = manager[h].properties
  BY <1>2, <1>3
<1>5. \A r \in Paths \cup {Root} :
        manager'[g].exported[r] = IF r = p THEN S ELSE manager[g].exported[r]
  BY <1>1, <1>3 DEF Manager
<1> QED
  BY <1>2, <1>4, <1>5

\* What the root's list and the peers show of an address.
Shown(g, y) == /\ AtRoot(g, y)' = AtRoot(g, y)
               /\ Entry(y) \in heard'[g] <=> Entry(y) \in heard[g]
               /\ OnlyManaging(y) =>
                    (ManagerEntry(y) \in heard'[g] <=> ManagerEntry(y) \in heard[g])

\* Which entries the signals of an adapter carry.
LEMMA InterfaceEntries ==
  ASSUME NEW a \in Adapters, NEW y \in Addresses
  PROVE  /\ Entry(y) \in Interfaces(a) \cup PropertiesOf(a) <=> y = AddressOf[a]
         /\ Entry(y) \in Interfaces(a) <=> y = AddressOf[a]
         /\ OnlyManaging(y) => /\ ManagerEntry(y) \in Interfaces(a) \cup PropertiesOf(a)
                                     <=> y = AddressOf[a] /\ a \in Managing
                               /\ ManagerEntry(y) \in Interfaces(a)
                                     <=> y = AddressOf[a] /\ a \in Managing
<1>1. /\ AddressOf[a] \in Addresses /\ y # "ObjectManager" /\ y # "Properties"
      /\ AddressOf[a] # "ObjectManager" /\ AddressOf[a] # "Properties"
  BY ServicesAssumption
<1>2. \A e \in Interfaces(a) \cup PropertiesOf(a) :
        /\ e.path = PathOf[AddressOf[a]]
        /\ e.interface \in {AddressOf[a], "ObjectManager", "Properties"}
        /\ e.interface = "ObjectManager" => a \in Managing
  BY <1>1 DEF Interfaces, PropertiesOf
<1>3. Entry(AddressOf[a]) \in Interfaces(a)
  BY DEF Interfaces, Entry
<1>4. a \in Managing => ManagerEntry(AddressOf[a]) \in Interfaces(a)
  BY DEF Interfaces, ManagerEntry
<1>5. Entry(y) \in Interfaces(a) \cup PropertiesOf(a) => y = AddressOf[a]
  BY <1>1, <1>2 DEF Entry
<1>6. ASSUME OnlyManaging(y), ManagerEntry(y) \in Interfaces(a) \cup PropertiesOf(a)
      PROVE  y = AddressOf[a] /\ a \in Managing
  <2>1. a \in Managing /\ PathOf[AddressOf[a]] = PathOf[y]
    BY <1>6, <1>2 DEF ManagerEntry
  <2>2. AddressOf[a] \in {AddressOf[b] : b \in Managing} \cap OfPath(PathOf[y])
    BY <2>1, <1>1 DEF OfPath
  <2> QED
    BY <2>1, <2>2, <1>6 DEF OnlyManaging
<1> QED
  BY <1>3, <1>4, <1>5, <1>6

\* The tables do not change, an adapter enters them, an adapter leaves them.
SameTables ==
  \A h \in Connections :
    /\ \A y \in Addresses : Tab(h, y)' = Tab(h, y)
    /\ \A y \in Addresses : IsInjective(manager'[h].table[y]) <=> IsInjective(manager[h].table[y])
    /\ \A p \in Paths : manager'[h].count[p] = manager[h].count[p]
EntersAt(g, a) ==
  \A h \in Connections :
    /\ \A y \in Addresses : Tab(h, y)' = IF h = g /\ y = AddressOf[a] THEN Tab(h, y) \cup {a}
                                                                       ELSE Tab(h, y)
    /\ \A y \in Addresses : IsInjective(manager[h].table[y]) => IsInjective(manager'[h].table[y])
    /\ \A p \in Paths : manager'[h].count[p] =
         IF h = g /\ p = PathOf[AddressOf[a]] /\ a \in Managing
           THEN manager[h].count[p] + 1 ELSE manager[h].count[p]
LeavesAt(g, a) ==
  \A h \in Connections :
    /\ \A y \in Addresses : Tab(h, y)' = IF h = g /\ y = AddressOf[a] THEN Tab(h, y) \ {a}
                                                                       ELSE Tab(h, y)
    /\ \A y \in Addresses : IsInjective(manager[h].table[y]) => IsInjective(manager'[h].table[y])
    /\ \A p \in Paths : manager'[h].count[p] =
         IF h = g /\ p = PathOf[AddressOf[a]] /\ a \in Managing /\ Leaves(manager[g], a)
           THEN manager[h].count[p] - 1 ELSE manager[h].count[p]
EnteredAt(g, a) == [manager EXCEPT ![g] = Entered(@, a)]
LeftAt(g, a) == [manager EXCEPT ![g] = Left(@, a)]
SameRoot == \A h \in Connections : manager'[h].exported[Root] = manager[h].exported[Root]

\* Nothing changes for the peers.
SameShown == \A h \in Connections, y \in Addresses : Shown(h, y)

\* An adapter is put on the list of the root, or taken off, and announced.
Announces(g, a) ==
  /\ \A h \in Connections, y \in Addresses : y # AddressOf[a] \/ h # g => Shown(h, y)
  /\ \A h \in Connections : manager'[h].exported[Root] =
       IF h = g THEN manager[h].exported[Root] \cup {a} ELSE manager[h].exported[Root]
  /\ a \notin manager[g].exported[Root] => \A h \in Connections : heard'[h] =
       IF h = g /\ conn[g].open
         THEN heard[h] \cup Interfaces(a) \cup PropertiesOf(a) ELSE heard[h]
  /\ a \in manager[g].exported[Root] => \A h \in Connections : heard'[h] = heard[h]
  /\ SameTables /\ tainted' = tainted
TakesBack(g, a) ==
  /\ \A h \in Connections, y \in Addresses : y # AddressOf[a] \/ h # g => Shown(h, y)
  /\ \A h \in Connections : manager'[h].exported[Root] =
       IF h = g THEN manager[h].exported[Root] \ {a} ELSE manager[h].exported[Root]
  /\ \A h \in Connections : heard'[h] =
       IF h = g /\ conn[g].open THEN heard[h] \ Interfaces(a) ELSE heard[h]
  /\ SameTables /\ tainted' = tainted

\* A change of the list of "/" leaves the tables alone.
LEMMA Listing ==
  ASSUME TypeOK, NEW g \in Connections, NEW S,
         manager' = ExportedSet(g, Root, S)
  PROVE  /\ SameTables
         /\ \A h \in Connections : manager'[h].exported[Root] =
              IF h = g THEN S ELSE manager[h].exported[Root]
<1>1. Root \in Paths \cup {Root}
  OBVIOUS
<1>2. /\ \A h \in Connections : /\ manager'[h].table = manager[h].table
                                /\ manager'[h].count = manager[h].count
                                /\ manager'[h].properties = manager[h].properties
      /\ \A h \in Connections, r \in Paths \cup {Root} :
              manager'[h].exported[r] = IF h = g /\ r = Root THEN S ELSE manager[h].exported[r]
  BY <1>1, ManagerSet, SMTT(20)
<1> QED
  BY <1>2 DEF SameTables, Tab

\* What an address shows at a connection stays if nothing is said of it.
LEMMA StaysShown ==
  ASSUME NEW h \in Connections, NEW y \in Addresses,
         heard'[h] = heard[h], manager'[h].exported[Root] = manager[h].exported[Root]
  PROVE  Shown(h, y)
  BY DEF Shown, AtRoot

\* exportStub at "/" with success: listed and announced.
LEMMA Exported ==
  ASSUME TypeOK, NEW g \in Connections, NEW a \in Adapters, Export(g, Root, a, TRUE)
  PROVE  Announces(g, a)
<1>0. heard \in [Connections -> SUBSET Interface]
  BY DEF TypeOK
<1>1. CASE IsExported(g, Root, a)
  <2>1. UNCHANGED <<manager, heard, tainted>> /\ a \in manager[g].exported[Root]
    BY <1>1 DEF Export, Works, IsExported
  <2> QED
    BY <2>1, StaysShown DEF Announces, SameTables, Tab
<1>2. CASE ~IsExported(g, Root, a)
  <2> DEFINE S == manager[g].exported[Root] \cup {a}
  <2>1. /\ manager' = ExportedSet(g, Root, S) /\ a \notin manager[g].exported[Root]
        /\ heard' = IF conn[g].open
             THEN [heard EXCEPT ![g] = @ \cup Interfaces(a) \cup PropertiesOf(a)] ELSE heard
        /\ tainted' = tainted
    BY <1>2 DEF Export, Works, List, EmitInterfacesAdded, ExportedSet, IsExported
  <2> HIDE DEF S
  <2>2. /\ SameTables
        /\ \A h \in Connections : manager'[h].exported[Root] =
              IF h = g THEN S ELSE manager[h].exported[Root]
    BY <2>1, Listing
  <2>3. \A h \in Connections : heard'[h] = IF h = g /\ conn[g].open
             THEN heard[h] \cup Interfaces(a) \cup PropertiesOf(a) ELSE heard[h]
    BY <2>1, <1>0
  <2>4. ASSUME NEW h \in Connections, NEW y \in Addresses, y # AddressOf[a] \/ h # g
        PROVE  Shown(h, y)
    <3>1. AtRoot(h, y)' = AtRoot(h, y)
      BY <2>2, <2>4 DEF AtRoot, At_, S
    <3>2. Entry(y) \in heard'[h] <=> Entry(y) \in heard[h]
      BY <2>3, <2>4, InterfaceEntries
    <3>3. OnlyManaging(y) => (ManagerEntry(y) \in heard'[h] <=> ManagerEntry(y) \in heard[h])
      BY <2>3, <2>4, InterfaceEntries
    <3> QED
      BY <3>1, <3>2, <3>3 DEF Shown
  <2> QED
    BY <2>1, <2>2, <2>3, <2>4 DEF Announces, S
<1> QED
  BY <1>1, <1>2

\* unexportStub at "/" with success: withdrawn.
LEMMA Unexported ==
  ASSUME TypeOK, NEW g \in Connections, NEW a \in Adapters, Unexport(g, Root, a, TRUE)
  PROVE  TakesBack(g, a)
<1>0. heard \in [Connections -> SUBSET Interface]
  BY DEF TypeOK
<1> DEFINE S == manager[g].exported[Root] \ {a}
<1>1. /\ manager' = ExportedSet(g, Root, S)
      /\ heard' = IF conn[g].open THEN [heard EXCEPT ![g] = @ \ Interfaces(a)] ELSE heard
      /\ tainted' = tainted
  BY DEF Unexport, Works, Unlisted, EmitInterfacesRemoved, ExportedSet
<1> HIDE DEF S
<1>2. /\ SameTables
      /\ \A h \in Connections : manager'[h].exported[Root] =
            IF h = g THEN S ELSE manager[h].exported[Root]
  BY <1>1, Listing
<1>3. \A h \in Connections : heard'[h] = IF h = g /\ conn[g].open
           THEN heard[h] \ Interfaces(a) ELSE heard[h]
  BY <1>1, <1>0
<1>4. ASSUME NEW h \in Connections, NEW y \in Addresses, y # AddressOf[a] \/ h # g
      PROVE  Shown(h, y)
  <2>1. AtRoot(h, y)' = AtRoot(h, y)
    BY <1>2, <1>4 DEF AtRoot, At_, S
  <2>2. Entry(y) \in heard'[h] <=> Entry(y) \in heard[h]
    BY <1>3, <1>4, InterfaceEntries
  <2>3. OnlyManaging(y) => (ManagerEntry(y) \in heard'[h] <=> ManagerEntry(y) \in heard[h])
    BY <1>3, <1>4, InterfaceEntries
  <2> QED
    BY <2>1, <2>2, <2>3 DEF Shown
<1> QED
  BY <1>1, <1>2, <1>3, <1>4 DEF TakesBack, S

\* exportStub and unexportStub that change nothing taint the address.
LEMMA NotExported ==
  ASSUME TypeOK, NEW g \in Connections, NEW a \in Adapters,
         Export(g, Root, a, FALSE) \/ Unexport(g, Root, a, FALSE)
  PROVE  /\ manager' = manager /\ heard' = heard /\ SameTables /\ SameShown
         /\ tainted \subseteq tainted'
         /\ Export(g, Root, a, FALSE) => AddressOf[a] \in tainted'
         /\ a \in manager[g].exported[Root] => AddressOf[a] \in tainted'
<1>1. /\ manager' = manager /\ heard' = heard
      /\ tainted \subseteq tainted'
      /\ Export(g, Root, a, FALSE) => AddressOf[a] \in tainted'
      /\ a \in manager[g].exported[Root] => AddressOf[a] \in tainted'
  BY DEF Export, Unexport, Fail, Works, IsExported
<1> QED
  BY <1>1, StaysShown DEF SameTables, SameShown, Tab

\* The tables after an adapter entered them.
LEMMA EnterTables ==
  ASSUME TypeOK, NEW g \in Connections, NEW a \in Adapters, manager' = EnteredAt(g, a)
  PROVE  EntersAt(g, a) /\ SameRoot
<1>0. AddressOf[a] \in Addresses /\ manager[g] \in Manager
  BY ServicesAssumption DEF TypeOK
<1>1. /\ manager'[g] = Entered(manager[g], a)
      /\ \A h \in Connections \ {g} : manager'[h] = manager[h]
  BY DEF TypeOK, EnteredAt
<1>2. /\ manager'[g].table = [manager[g].table EXCEPT ![AddressOf[a]] = AddHandler(@, a)]
      /\ manager'[g].count = [manager[g].count EXCEPT ![PathOf[AddressOf[a]]] =
                                     IF a \in Managing THEN @ + 1 ELSE @]
      /\ manager'[g].exported = manager[g].exported
  BY <1>0, <1>1, EnteredManager
<1>3. /\ manager[g].table \in [Addresses -> Seq(Adapters)] /\ manager[g].count \in [Paths -> Nat]
  BY <1>0 DEF Manager
<1>4. manager'[g].table[AddressOf[a]] = AddHandler(manager[g].table[AddressOf[a]], a)
        /\ manager[g].table[AddressOf[a]] \in Seq(Adapters)
  BY <1>0, <1>2, <1>3
<1>5. /\ Tab(g, AddressOf[a])' = Tab(g, AddressOf[a]) \cup {a}
      /\ IsInjective(manager[g].table[AddressOf[a]]) =>
              IsInjective(manager'[g].table[AddressOf[a]])
  BY <1>4, HandlerAdded DEF Tab
<1>6. \A y \in Addresses : y # AddressOf[a] => manager'[g].table[y] = manager[g].table[y]
  BY <1>2, <1>3
<1>7. \A p \in Paths : manager'[g].count[p] = IF p = PathOf[AddressOf[a]] /\ a \in Managing
                THEN manager[g].count[p] + 1 ELSE manager[g].count[p]
  BY <1>2, <1>3
<1>8. SameRoot
  BY <1>1, <1>2 DEF SameRoot
<1>9. EntersAt(g, a)
  <2> SUFFICES ASSUME NEW h \in Connections
               PROVE  /\ \A y \in Addresses : Tab(h, y)' =
                           IF h = g /\ y = AddressOf[a] THEN Tab(h, y) \cup {a} ELSE Tab(h, y)
                      /\ \A y \in Addresses :
                           IsInjective(manager[h].table[y]) => IsInjective(manager'[h].table[y])
                      /\ \A p \in Paths : manager'[h].count[p] =
                           IF h = g /\ p = PathOf[AddressOf[a]] /\ a \in Managing
                             THEN manager[h].count[p] + 1 ELSE manager[h].count[p]
    BY DEF EntersAt
  <2>1. CASE h = g
    <3>1. \A y \in Addresses : y # AddressOf[a] => Tab(h, y)' = Tab(h, y)
      BY <1>6, <2>1 DEF Tab
    <3> QED
      BY <3>1, <1>5, <1>6, <1>7, <2>1
  <2>2. CASE h # g
    BY <1>1, <2>2 DEF Tab
  <2> QED
    BY <2>1, <2>2
<1> QED
  BY <1>8, <1>9

\* The tables after an adapter left them.
LEMMA LeftTables ==
  ASSUME TypeOK, NEW g \in Connections, NEW a \in Adapters, manager' = LeftAt(g, a),
         IsInjective(manager[g].table[AddressOf[a]])
  PROVE  LeavesAt(g, a) /\ SameRoot
<1>0. AddressOf[a] \in Addresses /\ manager[g] \in Manager
  BY ServicesAssumption DEF TypeOK
<1>1. /\ manager'[g] = Left(manager[g], a)
      /\ \A h \in Connections \ {g} : manager'[h] = manager[h]
  BY DEF TypeOK, LeftAt
<1>2. /\ manager'[g].table = [manager[g].table EXCEPT ![AddressOf[a]] = RemoveHandler(@, a)]
      /\ manager'[g].count = [manager[g].count EXCEPT ![PathOf[AddressOf[a]]] =
                                IF a \in Managing /\ Leaves(manager[g], a) THEN @ - 1 ELSE @]
      /\ manager'[g].exported[Root] = manager[g].exported[Root]
  BY <1>0, <1>1, LeftManager
<1>3. /\ manager[g].table \in [Addresses -> Seq(Adapters)] /\ manager[g].count \in [Paths -> Nat]
  BY <1>0 DEF Manager
<1>4. manager'[g].table[AddressOf[a]] = RemoveHandler(manager[g].table[AddressOf[a]], a)
        /\ manager[g].table[AddressOf[a]] \in Seq(Adapters)
  BY <1>0, <1>2, <1>3
<1>5. /\ Tab(g, AddressOf[a])' = Tab(g, AddressOf[a]) \ {a}
      /\ IsInjective(manager'[g].table[AddressOf[a]])
  BY <1>4, HandlerRemoved DEF Tab
<1>6. \A y \in Addresses : y # AddressOf[a] => manager'[g].table[y] = manager[g].table[y]
  BY <1>2, <1>3
<1>7. \A p \in Paths : manager'[g].count[p] = IF p = PathOf[AddressOf[a]] /\ a \in Managing
                                                   /\ Leaves(manager[g], a)
                THEN manager[g].count[p] - 1 ELSE manager[g].count[p]
  BY <1>2, <1>3
<1>8. SameRoot
  BY <1>1, <1>2 DEF SameRoot
<1>9. LeavesAt(g, a)
  <2> SUFFICES ASSUME NEW h \in Connections
               PROVE  /\ \A y \in Addresses : Tab(h, y)' =
                           IF h = g /\ y = AddressOf[a] THEN Tab(h, y) \ {a} ELSE Tab(h, y)
                      /\ \A y \in Addresses :
                           IsInjective(manager[h].table[y]) => IsInjective(manager'[h].table[y])
                      /\ \A p \in Paths : manager'[h].count[p] =
                           IF h = g /\ p = PathOf[AddressOf[a]] /\ a \in Managing
                                /\ Leaves(manager[g], a)
                             THEN manager[h].count[p] - 1 ELSE manager[h].count[p]
    BY DEF LeavesAt
  <2>1. CASE h = g
    <3>1. \A y \in Addresses : y # AddressOf[a] => Tab(h, y)' = Tab(h, y)
      BY <1>6, <2>1 DEF Tab
    <3> QED
      BY <3>1, <1>5, <1>6, <1>7, <2>1
  <2>2. CASE h # g
    BY <1>1, <2>2 DEF Tab
  <2> QED
    BY <2>1, <2>2
<1> QED
  BY <1>8, <1>9

\* The set of a table is empty exactly if the vector is.
LEMMA TableEmpty ==
  ASSUME TypeOK, NEW g \in Connections, NEW x \in Addresses
  PROVE  Tab(g, x) = {} <=> manager[g].table[x] = <<>>
<1>1. manager[g].table[x] \in Seq(Adapters)
  BY DEF TypeOK, Manager
<1> DEFINE s == manager[g].table[x]
<1>2. DOMAIN s = 1..Len(s) /\ Len(s) \in Nat /\ (s = <<>> <=> Len(s) = 0)
  BY <1>1, EmptySeq, LenProperties
<1> HIDE DEF s
<1>3. CASE Len(s) = 0
  BY <1>2, <1>3 DEF Tab, Range, s
<1>4. CASE Len(s) # 0
  <2>1. 1 \in DOMAIN s
    BY <1>2, <1>4
  <2>2. s[1] \in Range(s)
    BY <2>1 DEF Range
  <2> QED
    BY <1>2, <1>4, <2>2 DEF Tab, s
<1> QED
  BY <1>3, <1>4

\* What threads and tables refer to exists.
LEMMA KnownToThreads ==
  ASSUME TypeOK, Shapes, Placed
  PROVE  /\ Homed /\ \A t \in Actors : Addressed(t)
         /\ \A x \in Addresses : services[x] # None =>
              services[x] \in Adapters /\ home[services[x]] \in Connections
         /\ \A g \in Connections, x \in Addresses : Tab(g, x) \subseteq Adapters
<1>1. \A x \in Addresses : services[x] # None =>
              services[x] \in Adapters /\ home[services[x]] \in Connections
  BY DEF TypeOK, Placed
<1>2. Homed
  <2> SUFFICES ASSUME NEW a \in Adapters, a \in promised \/ a \in Range(services)
               PROVE  home[a] \in Connections
    BY DEF Homed
  <2>1. CASE a \in promised
    BY <2>1 DEF TypeOK, Placed
  <2>2. CASE a \in Range(services)
    <3>1. PICK x \in Addresses : services[x] = a
      BY <2>2 DEF Range, TypeOK
    <3> QED
      BY <3>1, <1>1, ServicesAssumption
  <2> QED
    BY <2>1, <2>2
<1>3. \A t \in Actors : proc[t].conn \in {0} \cup Connections
  BY DEF TypeOK, Process
<1>4. \A t \in Actors : Addressed(t)
  BY <1>3 DEF Shapes, Shape, Addressed, Building, TypeOK
<1>5. ASSUME NEW g \in Connections, NEW x \in Addresses PROVE Tab(g, x) \subseteq Adapters
  <2>1. manager[g].table[x] \in Seq(Adapters)
    BY DEF TypeOK, Manager
  <2> QED
    BY <2>1 DEF Tab, Range
<1> QED
  BY <1>1, <1>2, <1>4, <1>5

\* Nothing about an address changes.
Untouched(y) ==
  /\ services'[y] = services[y] /\ Holder(y)' = Holder(y)
  /\ At_(y) \cap promised' = At_(y) \cap promised
  /\ \A h \in Connections : Tab(h, y)' = Tab(h, y) /\ Shown(h, y)
Others(x) == \A y \in Addresses \ {x} : Untouched(y)
Base == TypeOK /\ MutexHeld /\ Shapes /\ Placed
Still == /\ current' = current /\ home' = home /\ proxies' = proxies /\ handling' = handling
         /\ connectionsMutex' = connectionsMutex

\* The counters of one path and of one name of a connection change.
ConnAt(g, x, i, k) ==
  \A h \in Connections :
    /\ conn'[h].active = conn[h].active /\ conn'[h].open = conn[h].open
    /\ conn'[h].closing = conn[h].closing /\ conn'[h].closer = conn[h].closer
    /\ \A p \in Paths : conn'[h].paths[p] = IF h = g /\ p = PathOf[x] THEN i ELSE conn[h].paths[p]
    /\ \A n \in Names : conn'[h].names[n] = IF h = g /\ n = NameOf[x] THEN k ELSE conn[h].names[n]

\* The types of the parts of the state.
LEMMA Typed ==
  ASSUME TypeOK
  PROVE  /\ \A t \in Actors : /\ proc[t] \in Process /\ proc[t].pc \in Lines
                              /\ proc[t].adapter \in Adapters \cup {None}
                              /\ proc[t].address \in Addresses \cup {None}
                              /\ proc[t].conn \in {0} \cup Connections
         /\ \A g \in Connections :
              /\ conn[g] \in Connection /\ conn[g].active \in Int
              /\ conn[g].open \in BOOLEAN /\ conn[g].closing \in BOOLEAN
              /\ conn[g].names \in [Names -> Nat] /\ conn[g].paths \in [Paths -> Nat]
              /\ \A n \in Names : conn[g].names[n] \in Nat
              /\ \A p \in Paths : conn[g].paths[p] \in Nat
         /\ \A g \in Connections : manager[g] \in Manager /\ \A p \in Paths :
              manager[g].count[p] \in Nat
         /\ \A g \in Connections, x \in Addresses :
              manager[g].table[x] \in Seq(Adapters) /\ Tab(g, x) \subseteq Adapters
         /\ \A x \in Addresses : services[x] \in Adapters \cup {None}
         /\ \A a \in Adapters : home[a] \in {0} \cup Connections
         /\ \A g \in Connections : proxies[g] \in Nat
<1>1. \A t \in Actors : proc[t] \in Process
  BY DEF TypeOK
<1>2. \A g \in Connections : conn[g] \in Connection
  BY DEF TypeOK
<1>3. \A g \in Connections : manager[g] \in Manager
  BY DEF TypeOK
<1>4. \A g \in Connections, x \in Addresses : manager[g].table[x] \in Seq(Adapters)
  BY <1>3 DEF Manager
<1>5. \A g \in Connections, x \in Addresses : Tab(g, x) \subseteq Adapters
  BY <1>4 DEF Tab, Range
<1>6. \A g \in Connections : /\ conn[g].active \in Int
              /\ conn[g].open \in BOOLEAN /\ conn[g].closing \in BOOLEAN
              /\ conn[g].names \in [Names -> Nat] /\ conn[g].paths \in [Paths -> Nat]
  BY <1>2 DEF Connection
<1>7. /\ \A g \in Connections : \A p \in Paths : manager[g].count[p] \in Nat
  BY <1>3 DEF Manager
<1>8. \A t \in Actors : /\ proc[t].pc \in Lines
                              /\ proc[t].adapter \in Adapters \cup {None}
                              /\ proc[t].address \in Addresses \cup {None}
                              /\ proc[t].conn \in {0} \cup Connections
  BY <1>1 DEF Process
<1>9. /\ \A x \in Addresses : services[x] \in Adapters \cup {None}
      /\ \A a \in Adapters : home[a] \in {0} \cup Connections
      /\ \A g \in Connections : proxies[g] \in Nat
  BY DEF TypeOK
<1> QED
  BY <1>1, <1>2, <1>3, <1>4, <1>5, <1>6, <1>7, <1>8, <1>9

\* A connection after an object path was counted.
LEMMA PathUsedAt ==
  ASSUME TypeOK, NEW g \in Connections, NEW x \in Addresses,
         conn' = [conn EXCEPT ![g] = PathUsed(@, x)]
  PROVE  ConnAt(g, x, conn[g].paths[PathOf[x]] + 1, conn[g].names[NameOf[x]])
<1>1. conn[g] \in Connection /\ NameOf[x] \in Names /\ PathOf[x] \in Paths
  BY Typed, ServicesAssumption
<1>2. /\ conn'[g] = PathUsed(conn[g], x)
      /\ \A h \in Connections \ {g} : conn'[h] = conn[h]
  BY DEF TypeOK
<1>3. /\ Same(conn[g], PathUsed(conn[g], x))
      /\ PathUsed(conn[g], x).names = conn[g].names
      /\ PathUsed(conn[g], x).paths = [conn[g].paths EXCEPT ![PathOf[x]] = @ + 1]
  BY <1>1, CountsConnection
<1>4. conn[g].paths \in [Paths -> Nat]
  BY Typed
<1> QED
  BY <1>1, <1>2, <1>3, <1>4 DEF ConnAt, Same

\* A connection after an object path was released.
LEMMA PathUnusedAt ==
  ASSUME TypeOK, NEW g \in Connections, NEW x \in Addresses,
         conn' = [conn EXCEPT ![g] = PathUnused(@, x)]
  PROVE  ConnAt(g, x, IF conn[g].paths[PathOf[x]] > 0 THEN conn[g].paths[PathOf[x]] - 1 ELSE 0,
                conn[g].names[NameOf[x]])
<1>1. conn[g] \in Connection /\ NameOf[x] \in Names /\ PathOf[x] \in Paths
  BY Typed, ServicesAssumption
<1>2. /\ conn'[g] = PathUnused(conn[g], x)
      /\ \A h \in Connections \ {g} : conn'[h] = conn[h]
  BY DEF TypeOK
<1>3. /\ Same(conn[g], PathUnused(conn[g], x))
      /\ PathUnused(conn[g], x).names = conn[g].names
      /\ PathUnused(conn[g], x).paths =
           [conn[g].paths EXCEPT ![PathOf[x]] = IF @ > 0 THEN @ - 1 ELSE 0]
  BY <1>1, CountsConnection
<1>4. conn[g].paths \in [Paths -> Nat]
  BY Typed
<1> QED
  BY <1>1, <1>2, <1>3, <1>4 DEF ConnAt, Same

\* releaseServiceName and unregisterObjectPath do not count below 0.
Fewer(i) == IF i > 0 THEN i - 1 ELSE 0

\* A connection after a bus name was released.
LEMMA NameReleasedAt ==
  ASSUME TypeOK, NEW g \in Connections, NEW x \in Addresses,
         conn' = [conn EXCEPT ![g] = NameReleased(@, NameOf[x])]
  PROVE  ConnAt(g, x, conn[g].paths[PathOf[x]], Fewer(conn[g].names[NameOf[x]]))
<1>1. conn[g] \in Connection /\ NameOf[x] \in Names /\ PathOf[x] \in Paths
  BY Typed, ServicesAssumption
<1>2. /\ conn'[g] = NameReleased(conn[g], NameOf[x])
      /\ \A h \in Connections \ {g} : conn'[h] = conn[h]
  BY DEF TypeOK
<1>3. /\ Same(conn[g], NameReleased(conn[g], NameOf[x]))
      /\ NameReleased(conn[g], NameOf[x]).paths = conn[g].paths
      /\ NameReleased(conn[g], NameOf[x]).names =
           [conn[g].names EXCEPT ![NameOf[x]] = IF @ > 0 THEN @ - 1 ELSE 0]
  BY <1>1, CountsConnection
<1>4. conn[g].names \in [Names -> Nat]
  BY Typed
<1> QED
  BY <1>1, <1>2, <1>3, <1>4 DEF ConnAt, Same, Fewer

\* A connection after a bus name was counted.
LEMMA NameTakenAt ==
  ASSUME TypeOK, NEW g \in Connections, NEW x \in Addresses,
         conn' = [conn EXCEPT ![g].names[NameOf[x]] = @ + 1]
  PROVE  ConnAt(g, x, conn[g].paths[PathOf[x]], conn[g].names[NameOf[x]] + 1)
<1>1. conn[g] \in Connection /\ NameOf[x] \in Names /\ PathOf[x] \in Paths
  BY Typed, ServicesAssumption
<1> DEFINE f == [conn[g].names EXCEPT ![NameOf[x]] = @ + 1]
<1>2. /\ conn'[g] = [conn[g] EXCEPT !.names = f]
      /\ \A h \in Connections \ {g} : conn'[h] = conn[h]
  BY DEF TypeOK
<1>3. conn[g].names \in [Names -> Nat]
  BY Typed
<1>4. f \in [Names -> Nat]
  BY <1>1, <1>3
<1>5. \A n \in Names :
        f[n] = IF n = NameOf[x] THEN conn[g].names[NameOf[x]] + 1 ELSE conn[g].names[n]
  BY <1>1, <1>3
<1> HIDE DEF f
<1>6. /\ Same(conn[g], conn'[g]) /\ conn'[g].names = f /\ conn'[g].paths = conn[g].paths
  BY <1>1, <1>2, <1>4 DEF Connection, Same
<1>7. \A n \in Names : conn'[g].names[n] =
        IF n = NameOf[x] THEN conn[g].names[NameOf[x]] + 1 ELSE conn[g].names[n]
  BY <1>5, <1>6
<1>8. \A p \in Paths : conn'[g].paths[p] = conn[g].paths[p]
  BY <1>6
<1> QED
  BY <1>1, <1>2, <1>6, <1>7, <1>8 DEF ConnAt, Same

\* A connection after a path and a name were released.
LEMMA BothReleasedAt ==
  ASSUME TypeOK, NEW g \in Connections, NEW x \in Addresses,
         conn' = [conn EXCEPT ![g] = NameReleased(PathUnused(@, x), NameOf[x])]
  PROVE  ConnAt(g, x, Fewer(conn[g].paths[PathOf[x]]), Fewer(conn[g].names[NameOf[x]]))
<1>1. conn[g] \in Connection /\ NameOf[x] \in Names /\ PathOf[x] \in Paths
  BY Typed, ServicesAssumption
<1> DEFINE c == PathUnused(conn[g], x)
<1>2. /\ conn'[g] = NameReleased(c, NameOf[x])
      /\ \A h \in Connections \ {g} : conn'[h] = conn[h]
  BY DEF TypeOK
<1>3. /\ c \in Connection /\ Same(conn[g], c) /\ c.names = conn[g].names
      /\ c.paths = [conn[g].paths EXCEPT ![PathOf[x]] = IF @ > 0 THEN @ - 1 ELSE 0]
  BY <1>1, CountsConnection
<1> HIDE DEF c
<1>4. /\ Same(c, NameReleased(c, NameOf[x])) /\ NameReleased(c, NameOf[x]).paths = c.paths
      /\ NameReleased(c, NameOf[x]).names =
           [c.names EXCEPT ![NameOf[x]] = IF @ > 0 THEN @ - 1 ELSE 0]
  BY <1>1, <1>3, CountsConnection
<1>5. conn[g].names \in [Names -> Nat] /\ conn[g].paths \in [Paths -> Nat]
  BY Typed
<1> QED
  BY <1>1, <1>2, <1>3, <1>4, <1>5 DEF ConnAt, Same, Fewer

\* A connection that the step leaves alone.
LEMMA ConnStays ==
  ASSUME TypeOK, NEW g \in Connections, NEW x \in Addresses, conn' = conn
  PROVE  ConnAt(g, x, conn[g].paths[PathOf[x]], conn[g].names[NameOf[x]])
  BY DEF ConnAt

\* What has to stay at the other addresses.
LEMMA OthersStay ==
  ASSUME NEW x,
         \A y \in Addresses \ {x} :
           /\ services'[y] = services[y] /\ Holder(y)' = Holder(y)
           /\ At_(y) \cap promised' = At_(y) \cap promised
           /\ \A h \in Connections : Tab(h, y)' = Tab(h, y) /\ Shown(h, y)
  PROVE  Others(x)
  BY DEF Others, Untouched

\* Peers hear nothing new.
LEMMA AllShown ==
  ASSUME heard' = heard, SameRoot
  PROVE  SameShown
  BY StaysShown DEF SameShown, SameRoot

\* A step that leaves the object managers alone.
LEMMA TablesStay ==
  ASSUME manager' = manager
  PROVE  SameTables /\ SameRoot
  BY DEF SameTables, SameRoot, Tab

\* The thread holds the mutex, or is about to take it, for its own adapter.
AtWork(q) == /\ q.adapter \in Adapters /\ q.address = AddressOf[q.adapter]
             /\ q.address \in Addresses /\ home[q.adapter] \in Connections
\* What a thread knows of the adapter it works on.
LEMMA WorkingThread ==
  ASSUME Base, NEW t \in Actors, NEW q \in Process, q = proc[t]
  PROVE  /\ q.pc \in Building \cup {"retract", "erase", "unlist", "release", "leave"} => AtWork(q)
         /\ q.pc \in Building \cup {"release", "leave"} =>
              q.conn = home[q.adapter] /\ q.conn \in Connections
         /\ q.pc \in {"insert", "export", "enter", "unexport"} => q.adapter \notin Managed
         /\ q.pc \in {"enlist", "count", "unlist"} => q.adapter \in Managed
         /\ q.pc \in {"export", "enter", "request", "count", "unexport", "withdraw", "retract",
                      "erase", "return", "release", "leave"} => servicesMutex = t
         /\ servicesMutex = t => t # None
<1>1. t # None
  BY ServicesAssumption
<1> QED
  BY <1>1, ServicesAssumption, Typed DEF Base, Shapes, Shape, Building, AtWork, MutexHeld,
     Locked, LockedLines

-----------------------------------------------------------------------------
(* What each step changes.                                                 *)

\* What a step of Insert changes.
LEMMA InsertEffect ==
  ASSUME Base, NEW t \in Actors, NEW q \in Process, q = proc[t], Insert(t)
  PROVE  /\ q.pc = "insert" /\ AtWork(q)
         /\ Becomes(t, "export", q.adapter, q.address, q.conn, q.after)
         /\ servicesMutex = None /\ servicesMutex' = t
         /\ NotHeld /\ \A y : Holder(y)' = IF y = q.address THEN proc'[t] ELSE Idle
         /\ Others(q.address) /\ Still /\ SameTables /\ SameRoot /\ SameShown
         /\ conn' = conn /\ heard' = heard /\ promised' = promised /\ owner' = owner
         /\ services'[q.address] = IF services[q.address] = None THEN q.adapter
                                                                ELSE services[q.address]
         /\ tainted' = IF services[q.address] = None THEN tainted ELSE tainted \cup {q.address}
<1>0. TypeOK
  BY DEF Base
<1>1. q.pc = "insert" /\ AtWork(q)
  BY WorkingThread DEF Insert, At, Building
<1>2. Becomes(t, "export", q.adapter, q.address, q.conn, q.after)
  BY <1>0, MovesTo DEF Insert
<1>3. /\ servicesMutex = None /\ servicesMutex' = t /\ conn' = conn /\ heard' = heard
      /\ promised' = promised /\ owner' = owner /\ manager' = manager
      /\ services' = IF services[q.address] = None
                       THEN [services EXCEPT ![q.address] = q.adapter] ELSE services
      /\ tainted' = IF services[q.address] = None THEN tainted ELSE tainted \cup {q.address}
  BY DEF Insert, busVars
<1>4. NotHeld /\ \A y : Holder(y)' = IF y = q.address THEN proc'[t] ELSE Idle
  BY <1>0, <1>2, <1>3, HolderTaken
<1>5. SameTables /\ SameRoot /\ SameShown
  BY <1>3, TablesStay, AllShown
<1>6. /\ services'[q.address] = IF services[q.address] = None THEN q.adapter
                                                             ELSE services[q.address]
      /\ \A y \in Addresses \ {q.address} : services'[y] = services[y]
  BY <1>0, <1>1, <1>3 DEF TypeOK, AtWork
<1>7. Others(q.address)
  BY <1>3, <1>4, <1>5, <1>6, OthersStay DEF SameTables, SameShown, NotHeld
<1>8. Still
  BY DEF Still, Insert
<1> QED
  BY <1>1, <1>2, <1>3, <1>4, <1>5, <1>6, <1>7, <1>8

\* The thread keeps servicesMutex, or unlocks it.
Keeps(t, q) == /\ servicesMutex = t /\ servicesMutex' = t /\ HeldBy(q.address, q)
               /\ \A y : Holder(y)' = IF y = q.address THEN proc'[t] ELSE Idle
Unlocks(t, q) == /\ servicesMutex = t /\ servicesMutex' = None /\ HeldBy(q.address, q)
                 /\ \A y : Holder(y)' = Idle
\* The thread takes servicesMutex.
Takes(t, q) == /\ servicesMutex = None /\ servicesMutex' = t /\ NotHeld
               /\ \A y : Holder(y)' = IF y = q.address THEN proc'[t] ELSE Idle

\* Whether the thread keeps, lets go or takes servicesMutex_.
LEMMA Held ==
  ASSUME TypeOK, NEW t \in Actors, NEW q \in Process, q = proc[t], NEW pc, NEW a, NEW g,
         NEW after,
         Becomes(t, pc, a, q.address, g, after)
  PROVE  /\ servicesMutex = t /\ servicesMutex' = t => Keeps(t, q)
         /\ servicesMutex = t /\ servicesMutex' = None => Unlocks(t, q)
         /\ servicesMutex = None /\ servicesMutex' = t => Takes(t, q)
<1>1. servicesMutex = t =>
         /\ HeldBy(q.address, q)
         /\ servicesMutex' = t => \A y : Holder(y)' = IF y = q.address THEN proc'[t] ELSE Idle
         /\ servicesMutex' = None => \A y : Holder(y)' = Idle
  BY HolderGoes
<1>2. servicesMutex = None /\ servicesMutex' = t =>
        NotHeld /\ \A y : Holder(y)' = IF y = q.address THEN proc'[t] ELSE Idle
  BY HolderTaken
<1> QED
  BY <1>1, <1>2 DEF Keeps, Unlocks, Takes

\* A step at one address leaves the others alone.
LEMMA OthersHeld ==
  ASSUME NEW t, NEW q, Keeps(t, q) \/ Unlocks(t, q) \/ Takes(t, q),
         \A y \in Addresses \ {q.address} :
           /\ services'[y] = services[y]
           /\ At_(y) \cap promised' = At_(y) \cap promised
           /\ \A h \in Connections : Tab(h, y)' = Tab(h, y) /\ Shown(h, y)
  PROVE  Others(q.address)
<1>1. \A y \in Addresses \ {q.address} : Holder(y)' = Holder(y)
  BY DEF Keeps, Unlocks, Takes, HeldBy, NotHeld
<1> QED
  BY <1>1, OthersStay

\* What a step of ExportStub changes.
LEMMA ExportStubEffect ==
  ASSUME Base, NEW t \in Actors, NEW q \in Process, q = proc[t], ExportStub(t)
  PROVE  /\ q.pc = "export" /\ AtWork(q) /\ q.adapter \notin Managed /\ q.conn = home[q.adapter]
         /\ Keeps(t, q) /\ Others(q.address) /\ Still /\ SameTables
         /\ conn' = conn /\ promised' = promised /\ owner' = owner /\ services' = services
         /\ \/ /\ Announces(q.conn, q.adapter)
               /\ Becomes(t, "enter", q.adapter, q.address, q.conn, q.after)
            \/ /\ heard' = heard /\ SameRoot /\ SameShown
               /\ tainted \subseteq tainted' /\ q.address \in tainted'
               /\ Becomes(t, "retract", q.adapter, q.address, q.conn, q.after)
<1>0. TypeOK
  BY DEF Base
<1>1. /\ q.pc = "export" /\ AtWork(q) /\ q.adapter \notin Managed
      /\ q.conn = home[q.adapter] /\ q.conn \in Connections
  BY WorkingThread DEF ExportStub, Owning, At, Building
<1>2. /\ servicesMutex = t /\ servicesMutex' = t
      /\ conn' = conn /\ promised' = promised /\ owner' = owner /\ services' = services
      /\ \/ Export(q.conn, Root, q.adapter, TRUE) /\ Move(t, "enter")
         \/ Export(q.conn, Root, q.adapter, FALSE) /\ Move(t, "retract")
  BY DEF ExportStub, Owning, mutexes
<1>3. Still
  BY DEF Still, ExportStub, mutexes
<1>4. CASE Export(q.conn, Root, q.adapter, TRUE) /\ Move(t, "enter")
  <2>1. Announces(q.conn, q.adapter)
    BY <1>0, <1>1, <1>4, Exported DEF AtWork
  <2>2. Becomes(t, "enter", q.adapter, q.address, q.conn, q.after)
    BY <1>0, <1>4, MovesTo
  <2>3. Keeps(t, q)
    BY <1>0, <1>2, <2>2, Held
  <2>4. Others(q.address)
    BY <1>1, <1>2, <2>1, <2>3, OthersHeld DEF Announces, SameTables, AtWork
  <2> QED
    BY <1>1, <1>2, <1>3, <2>1, <2>2, <2>3, <2>4 DEF Announces
<1>5. CASE Export(q.conn, Root, q.adapter, FALSE) /\ Move(t, "retract")
  <2>1. /\ manager' = manager /\ heard' = heard /\ SameTables /\ SameShown
        /\ tainted \subseteq tainted' /\ q.address \in tainted'
    BY <1>0, <1>1, <1>5, NotExported DEF AtWork
  <2>2. Becomes(t, "retract", q.adapter, q.address, q.conn, q.after)
    BY <1>0, <1>5, MovesTo
  <2>3. Keeps(t, q)
    BY <1>0, <1>2, <2>2, Held
  <2>4. Others(q.address)
    BY <1>1, <1>2, <2>1, <2>3, OthersHeld DEF SameShown, SameTables
  <2>5. SameRoot
    BY <2>1, TablesStay
  <2> QED
    BY <1>1, <1>2, <1>3, <2>1, <2>2, <2>3, <2>4, <2>5
<1> QED
  BY <1>2, <1>4, <1>5

\* What a step of Enter changes.
LEMMA EnterEffect ==
  ASSUME Base, NEW t \in Actors, NEW q \in Process, q = proc[t], Enter(t)
  PROVE  /\ q.pc = "enter" /\ AtWork(q) /\ q.adapter \notin Managed /\ q.conn = home[q.adapter]
         /\ Keeps(t, q) /\ Others(q.address) /\ Still
         /\ EntersAt(q.conn, q.adapter) /\ SameRoot /\ SameShown
         /\ ConnAt(q.conn, q.address, conn[q.conn].paths[PathOf[q.address]] + 1,
                   conn[q.conn].names[NameOf[q.address]])
         /\ promised' = promised /\ owner' = owner /\ services' = services
         /\ heard' = heard /\ tainted' = tainted
         /\ Becomes(t, "request", q.adapter, q.address, q.conn, q.after)
<1>0. TypeOK
  BY DEF Base
<1>1. /\ q.pc = "enter" /\ AtWork(q) /\ q.adapter \notin Managed
      /\ q.conn = home[q.adapter] /\ q.conn \in Connections
  BY WorkingThread DEF Enter, Owning, At, Building
<1>2. /\ servicesMutex = t /\ servicesMutex' = t /\ heard' = heard /\ tainted' = tainted
      /\ promised' = promised /\ owner' = owner /\ services' = services
      /\ manager' = EnteredAt(q.conn, q.adapter)
      /\ conn' = [conn EXCEPT ![q.conn] = PathUsed(@, q.address)]
  BY DEF Enter, Owning, mutexes, busVars, EnteredAt
<1>3. Still
  BY DEF Still, Enter, mutexes
<1>4. Becomes(t, "request", q.adapter, q.address, q.conn, q.after)
  BY <1>0, MovesTo DEF Enter
<1>5. EntersAt(q.conn, q.adapter) /\ SameRoot
  BY <1>0, <1>1, <1>2, EnterTables DEF AtWork
<1>6. ConnAt(q.conn, q.address, conn[q.conn].paths[PathOf[q.address]] + 1,
             conn[q.conn].names[NameOf[q.address]])
  <2>1. q.conn \in Connections /\ q.address \in Addresses
    BY <1>1 DEF AtWork
  <2> QED
    BY <2>1, <1>0, <1>2, PathUsedAt
<1>7. SameShown /\ Keeps(t, q)
  BY <1>0, <1>2, <1>4, <1>5, Held, AllShown
<1>8. Others(q.address)
  BY <1>1, <1>2, <1>5, <1>7, OthersHeld DEF SameShown, EntersAt, AtWork
<1> QED
  BY <1>1, <1>2, <1>3, <1>4, <1>5, <1>6, <1>7, <1>8

\* A user of a connection is counted.
ActiveAt(g, i) ==
  \A h \in Connections :
    /\ conn'[h].active = IF h = g THEN i ELSE conn[h].active
    /\ conn'[h].open = conn[h].open /\ conn'[h].closing = conn[h].closing
    /\ conn'[h].closer = conn[h].closer
    /\ \A p \in Paths : conn'[h].paths[p] = conn[h].paths[p]
    /\ \A n \in Names : conn'[h].names[n] = conn[h].names[n]

\* A connection gets a user.
LEMMA UserCounted ==
  ASSUME TypeOK, NEW g \in Connections, conn' = [conn EXCEPT ![g].active = @ + 1]
  PROVE  ActiveAt(g, conn[g].active + 1)
<1>1. conn[g] \in Connection /\ conn[g].active + 1 \in Int
  BY Typed
<1>2. /\ conn'[g] = [conn[g] EXCEPT !.active = conn[g].active + 1]
      /\ \A h \in Connections \ {g} : conn'[h] = conn[h]
  BY DEF TypeOK
<1>3. ASSUME NEW i \in Int
      PROVE LET c == [conn[g] EXCEPT !.active = i] IN
        /\ c.active = i /\ c.open = conn[g].open /\ c.closing = conn[g].closing
        /\ c.closer = conn[g].closer /\ c.names = conn[g].names /\ c.paths = conn[g].paths
  BY <1>1 DEF Connection
<1>4. /\ conn'[g].active = conn[g].active + 1 /\ conn'[g].open = conn[g].open
      /\ conn'[g].closing = conn[g].closing
      /\ conn'[g].closer = conn[g].closer /\ conn'[g].names = conn[g].names
      /\ conn'[g].paths = conn[g].paths
  BY <1>1, <1>2, <1>3
<1> QED
  BY <1>2, <1>4 DEF ActiveAt

\* What a step of RequestName changes.
LEMMA RequestNameEffect ==
  ASSUME Base, NEW t \in Actors, NEW q \in Process, q = proc[t], RequestName(t)
  PROVE  /\ q.pc = "request" /\ AtWork(q) /\ q.conn = home[q.adapter]
         /\ Others(q.address) /\ Still /\ SameTables /\ SameRoot /\ SameShown
         /\ services' = services /\ heard' = heard /\ tainted' = tainted
         /\ \/ /\ ConnAt(q.conn, q.address, conn[q.conn].paths[PathOf[q.address]],
                         conn[q.conn].names[NameOf[q.address]] + 1)
               /\ \A n \in Names : owner'[n] =
                    IF n = NameOf[q.address] /\ conn[q.conn].names[n] = 0 THEN q.conn
                      ELSE owner[n]
               /\ \/ /\ q.adapter \notin Managed /\ Unlocks(t, q)
                     /\ promised' = promised \cup {q.adapter}
                     /\ Becomes(t, "drop", q.adapter, q.address, q.conn, q.after)
                  \/ /\ q.adapter \in Managed /\ Keeps(t, q) /\ promised' = promised
                     /\ Becomes(t, "count", q.adapter, q.address, q.conn, q.after)
            \/ /\ conn' = conn /\ promised' = promised /\ owner' = owner /\ Keeps(t, q)
               /\ \/ /\ q.adapter \notin Managed
                     /\ Becomes(t, "unexport", q.adapter, q.address, q.conn, q.after)
                  \/ /\ q.adapter \in Managed
                     /\ Becomes(t, "withdraw", q.adapter, q.address, q.conn, q.after)
<1>0. TypeOK
  BY DEF Base
<1>1. /\ q.pc = "request" /\ AtWork(q) /\ q.conn = home[q.adapter] /\ q.conn \in Connections
  BY WorkingThread DEF RequestName, Owning, At, Building
<1>2. /\ servicesMutex = t /\ heard' = heard /\ tainted' = tainted
      /\ services' = services /\ manager' = manager
  BY DEF RequestName, Owning, mutexes, busVars
<1>3. Still
  BY DEF Still, RequestName, mutexes
<1> DEFINE accepted ==
         /\ conn' = [conn EXCEPT ![q.conn].names[NameOf[q.address]] = @ + 1]
         /\ owner' = IF conn[q.conn].names[NameOf[q.address]] = 0
                       THEN [owner EXCEPT ![NameOf[q.address]] = q.conn] ELSE owner
           registered == /\ q.adapter \notin Managed /\ servicesMutex' = None
                         /\ promised' = promised \cup {q.adapter} /\ Move(t, "drop")
           counts == /\ q.adapter \in Managed /\ servicesMutex' = t
                     /\ promised' = promised /\ Move(t, "count")
           refused == /\ conn' = conn /\ owner' = owner /\ promised' = promised
                      /\ servicesMutex' = t
                      /\ \/ q.adapter \notin Managed /\ Move(t, "unexport")
                         \/ q.adapter \in Managed /\ Move(t, "withdraw")
<1>4. (accepted /\ (registered \/ counts)) \/ refused
  BY DEF RequestName
<1>5. SameTables /\ SameRoot /\ SameShown
  BY <1>2, TablesStay, AllShown
<1>6. ASSUME Keeps(t, q) \/ Unlocks(t, q),
             promised' = promised \/ promised' = promised \cup {q.adapter}
      PROVE  Others(q.address)
  <2>1. \A y \in Addresses \ {q.address} : At_(y) \cap promised' = At_(y) \cap promised
    BY <1>1, <1>6 DEF At_, AtWork
  <2> QED
    BY <1>2, <1>5, <1>6, <2>1, OthersHeld DEF SameShown, SameTables
<1>7. ASSUME accepted
      PROVE  /\ ConnAt(q.conn, q.address, conn[q.conn].paths[PathOf[q.address]],
                         conn[q.conn].names[NameOf[q.address]] + 1)
             /\ \A n \in Names : owner'[n] =
                  IF n = NameOf[q.address] /\ conn[q.conn].names[n] = 0 THEN q.conn ELSE owner[n]
  <2>1. q.conn \in Connections /\ q.address \in Addresses
    BY <1>1 DEF AtWork
  <2>2. \A n \in Names : owner'[n] =
                  IF n = NameOf[q.address] /\ conn[q.conn].names[n] = 0 THEN q.conn ELSE owner[n]
    BY <1>0, <1>7 DEF TypeOK
  <2> QED
    BY <1>0, <1>7, <2>1, <2>2, NameTakenAt
<1>8. CASE accepted /\ registered
  <2>1. Becomes(t, "drop", q.adapter, q.address, q.conn, q.after)
    BY <1>0, <1>8, MovesTo
  <2>2. Unlocks(t, q)
    BY <1>0, <1>2, <1>8, <2>1, Held
  <2> QED
    BY <1>1, <1>2, <1>3, <1>5, <1>6, <1>7, <1>8, <2>1, <2>2
<1>9. CASE accepted /\ counts
  <2>1. Becomes(t, "count", q.adapter, q.address, q.conn, q.after)
    BY <1>0, <1>9, MovesTo
  <2>2. Keeps(t, q)
    BY <1>0, <1>2, <1>9, <2>1, Held
  <2> QED
    BY <1>1, <1>2, <1>3, <1>5, <1>6, <1>7, <1>9, <2>1, <2>2
<1>10. CASE refused
  <2>1. /\ Move(t, "unexport") => Becomes(t, "unexport", q.adapter, q.address, q.conn, q.after)
        /\ Move(t, "withdraw") => Becomes(t, "withdraw", q.adapter, q.address, q.conn, q.after)
    BY <1>0, MovesTo
  <2>2. Keeps(t, q)
    BY <1>0, <1>2, <1>10, <2>1, Held
  <2> QED
    BY <1>1, <1>2, <1>3, <1>5, <1>6, <1>10, <2>1, <2>2
<1> HIDE DEF accepted, registered, counts, refused
<1> QED
  BY <1>4, <1>8, <1>9, <1>10

\* What a step of CountManaged changes.
LEMMA CountManagedEffect ==
  ASSUME Base, NEW t \in Actors, NEW q \in Process, q = proc[t], CountManaged(t)
  PROVE  /\ q.pc = "count" /\ AtWork(q) /\ q.adapter \in Managed /\ q.conn = home[q.adapter]
         /\ Unlocks(t, q) /\ Others(q.address) /\ Still
         /\ SameTables /\ SameRoot /\ SameShown /\ connectionsMutex = None
         /\ promised' = promised \cup {q.adapter} /\ owner' = owner /\ services' = services
         /\ heard' = heard
         /\ \/ /\ current = q.conn /\ ActiveAt(q.conn, conn[q.conn].active + 1)
               /\ tainted' = tainted
            \/ current # q.conn /\ conn' = conn /\ tainted' = tainted \cup {q.address}
         /\ Becomes(t, "drop", q.adapter, q.address, q.conn, q.after)
<1>0. TypeOK
  BY DEF Base
<1>1. /\ q.pc = "count" /\ AtWork(q) /\ q.adapter \in Managed
      /\ q.conn = home[q.adapter] /\ q.conn \in Connections
  BY WorkingThread DEF CountManaged, Owning, At, Building
<1>2. /\ servicesMutex = t /\ servicesMutex' = None /\ heard' = heard /\ owner' = owner
      /\ services' = services /\ manager' = manager /\ connectionsMutex = None
      /\ promised' = promised \cup {q.adapter}
      /\ conn' = IF current = q.conn THEN [conn EXCEPT ![q.conn].active = @ + 1] ELSE conn
      /\ tainted' = IF current = q.conn THEN tainted ELSE tainted \cup {q.address}
  BY DEF CountManaged, Owning, busVars
<1>3. Still
  BY DEF Still, CountManaged
<1>4. Becomes(t, "drop", q.adapter, q.address, q.conn, q.after)
  BY <1>0, MovesTo DEF CountManaged
<1>5. Unlocks(t, q) /\ SameTables /\ SameRoot /\ SameShown
  BY <1>0, <1>2, <1>4, Held, TablesStay, AllShown
<1>6. Others(q.address)
  <2>1. \A y \in Addresses \ {q.address} : At_(y) \cap promised' = At_(y) \cap promised
    BY <1>1, <1>2 DEF At_, AtWork
  <2> QED
    BY <1>2, <1>5, <2>1, OthersHeld DEF SameShown, SameTables
<1>7. current = q.conn => ActiveAt(q.conn, conn[q.conn].active + 1)
  BY <1>0, <1>1, <1>2, UserCounted
<1> QED
  BY <1>1, <1>2, <1>3, <1>4, <1>5, <1>6, <1>7

\* What a step of RollbackExport changes.
LEMMA RollbackExportEffect ==
  ASSUME Base, NEW t \in Actors, NEW q \in Process, q = proc[t], RollbackExport(t)
  PROVE  /\ q.pc = "unexport" /\ AtWork(q) /\ q.adapter \notin Managed /\ q.conn = home[q.adapter]
         /\ Keeps(t, q) /\ Others(q.address) /\ Still /\ SameTables
         /\ conn' = conn /\ promised' = promised /\ owner' = owner /\ services' = services
         /\ \/ TakesBack(q.conn, q.adapter)
            \/ /\ heard' = heard /\ SameRoot /\ SameShown /\ tainted \subseteq tainted'
               /\ q.adapter \in manager[q.conn].exported[Root] => q.address \in tainted'
         /\ Becomes(t, "withdraw", q.adapter, q.address, q.conn, q.after)
<1>0. TypeOK
  BY DEF Base
<1>1. /\ q.pc = "unexport" /\ AtWork(q) /\ q.adapter \notin Managed
      /\ q.conn = home[q.adapter] /\ q.conn \in Connections
  BY WorkingThread DEF RollbackExport, Owning, At, Building
<1>2. /\ servicesMutex = t /\ servicesMutex' = t
      /\ conn' = conn /\ promised' = promised /\ owner' = owner /\ services' = services
      /\ Unexport(q.conn, Root, q.adapter, TRUE) \/ Unexport(q.conn, Root, q.adapter, FALSE)
  BY DEF RollbackExport, Owning, mutexes
<1>3. Still
  BY DEF Still, RollbackExport, mutexes
<1>4. Becomes(t, "withdraw", q.adapter, q.address, q.conn, q.after)
  BY <1>0, MovesTo DEF RollbackExport
<1>5. Keeps(t, q)
  BY <1>0, <1>2, <1>4, Held
<1>6. CASE Unexport(q.conn, Root, q.adapter, TRUE)
  <2>1. TakesBack(q.conn, q.adapter)
    BY <1>0, <1>1, <1>6, Unexported DEF AtWork
  <2>2. Others(q.address)
    BY <1>1, <1>2, <1>5, <2>1, OthersHeld DEF TakesBack, SameTables, AtWork
  <2> QED
    BY <1>1, <1>2, <1>3, <1>4, <1>5, <2>1, <2>2 DEF TakesBack
<1>7. CASE Unexport(q.conn, Root, q.adapter, FALSE)
  <2>1. /\ manager' = manager /\ heard' = heard /\ SameTables /\ SameShown
        /\ tainted \subseteq tainted'
        /\ q.adapter \in manager[q.conn].exported[Root] => q.address \in tainted'
    BY <1>0, <1>1, <1>7, NotExported DEF AtWork
  <2>2. Others(q.address)
    BY <1>1, <1>2, <1>5, <2>1, OthersHeld DEF SameShown, SameTables
  <2>3. SameRoot
    BY <2>1, TablesStay
  <2> QED
    BY <1>1, <1>2, <1>3, <1>4, <1>5, <2>1, <2>2, <2>3
<1> QED
  BY <1>2, <1>6, <1>7

\* What a step of Withdraw changes.
LEMMA WithdrawEffect ==
  ASSUME Base, NEW t \in Actors, NEW q \in Process, q = proc[t], Withdraw(t)
  PROVE  /\ q.pc = "withdraw" /\ AtWork(q) /\ q.conn = home[q.adapter]
         /\ Keeps(t, q) /\ Others(q.address) /\ Still
         /\ LeavesAt(q.conn, q.adapter) /\ SameRoot /\ SameShown
         /\ \/ /\ Leaves(manager[q.conn], q.adapter)
               /\ ConnAt(q.conn, q.address, Fewer(conn[q.conn].paths[PathOf[q.address]]),
                   conn[q.conn].names[NameOf[q.address]])
            \/ ~Leaves(manager[q.conn], q.adapter) /\ conn' = conn
         /\ promised' = promised /\ owner' = owner /\ services' = services
         /\ heard' = heard /\ tainted' = tainted
         /\ \/ /\ q.adapter \in Managed
               /\ Becomes(t, "erase", q.adapter, q.address, q.conn, "erase")
            \/ /\ q.adapter \notin Managed
               /\ Becomes(t, "retract", q.adapter, q.address, q.conn, "erase")
<1>0. TypeOK
  BY DEF Base
<1>1. /\ q.pc = "withdraw" /\ AtWork(q) /\ q.conn = home[q.adapter] /\ q.conn \in Connections
  BY WorkingThread DEF Withdraw, Owning, At, Building
<1>2. /\ servicesMutex = t /\ servicesMutex' = t /\ heard' = heard /\ tainted' = tainted
      /\ promised' = promised /\ owner' = owner /\ services' = services
      /\ manager' = LeftAt(q.conn, q.adapter)
      /\ conn' = IF Leaves(manager[q.conn], q.adapter)
                  THEN [conn EXCEPT ![q.conn] = PathUnused(@, q.address)] ELSE conn
  BY DEF Withdraw, Owning, mutexes, busVars, LeftAt
<1>3. Still
  BY DEF Still, Withdraw, mutexes
<1>4. ASSUME NEW pc \in Lines, Goto(t, [q EXCEPT !.pc = pc, !.after = "erase"])
      PROVE  Becomes(t, pc, q.adapter, q.address, q.conn, "erase")
  <2>1. /\ proc'[t] = [[q EXCEPT !.pc = pc] EXCEPT !.after = "erase"]
        /\ \A u \in Actors \ {t} : proc'[u] = proc[u]
    BY <1>0, <1>4 DEF Goto, TypeOK
  <2> DEFINE moved == [q EXCEPT !.pc = pc]
  <2>2. /\ moved.pc = pc /\ moved.adapter = q.adapter /\ moved.address = q.address
        /\ moved.conn = q.conn
        /\ DOMAIN moved = {"pc", "adapter", "address", "conn", "after"}
    BY DEF Process
  <2> HIDE DEF moved
  <2>3. /\ [moved EXCEPT !.after = "erase"].pc = pc
        /\ [moved EXCEPT !.after = "erase"].adapter = q.adapter
        /\ [moved EXCEPT !.after = "erase"].address = q.address
        /\ [moved EXCEPT !.after = "erase"].conn = q.conn
        /\ [moved EXCEPT !.after = "erase"].after = "erase"
    BY <2>2
  <2> QED
    BY <2>1, <2>3 DEF Becomes, moved
<1>5. Becomes(t, IF q.adapter \in Managed THEN "erase" ELSE "retract",
              q.adapter, q.address, q.conn, "erase")
  BY <1>4 DEF Withdraw
<1>6. LeavesAt(q.conn, q.adapter) /\ SameRoot
  <2>1. IsInjective(manager[q.conn].table[AddressOf[q.adapter]])
    BY <1>1 DEF AtWork, Base, Placed
  <2> QED
    BY <1>0, <1>1, <1>2, <2>1, LeftTables DEF AtWork
<1>7. Leaves(manager[q.conn], q.adapter) =>
        ConnAt(q.conn, q.address, Fewer(conn[q.conn].paths[PathOf[q.address]]),
             conn[q.conn].names[NameOf[q.address]])
  <2>1. q.conn \in Connections /\ q.address \in Addresses
    BY <1>1 DEF AtWork
  <2> QED
    BY <2>1, <1>0, <1>2, PathUnusedAt DEF Fewer
<1>8. SameShown /\ Keeps(t, q)
  BY <1>0, <1>2, <1>5, <1>6, Held, AllShown
<1>9. Others(q.address)
  BY <1>1, <1>2, <1>6, <1>8, OthersHeld DEF SameShown, LeavesAt, AtWork
<1> QED
  BY <1>1, <1>2, <1>3, <1>5, <1>6, <1>7, <1>8, <1>9

\* What is registered under an address has it, and belongs to a connection.
LEMMA Registered ==
  ASSUME Base, NEW x \in Addresses, services[x] # None
  PROVE  /\ services[x] \in Adapters /\ AddressOf[services[x]] = x
         /\ home[services[x]] \in Connections
  BY Typed DEF Base, Placed

\* The name of an address is released: the bus takes it back with the last user.
OwnerReleased(g, n) ==
  \A m \in Names : owner'[m] =
    IF m = n /\ conn[g].names[n] = 1 /\ owner[n] = g THEN 0 ELSE owner[m]

ConnReleased(g, x) == [conn EXCEPT ![g] = NameReleased(PathUnused(@, x), NameOf[x])]
ConnUnused(g, x) == [conn EXCEPT ![g] = PathUnused(@, x)]

\* What a step of Retract changes.
LEMMA RetractEffect ==
  ASSUME Base, NEW t \in Actors, NEW q \in Process, q = proc[t], Retract(t), NEW x, x = q.address,
         NEW b, b = services[x], NEW g, b # None => g = home[b]
  PROVE  /\ q.pc = "retract" /\ AtWork(q)
         /\ Others(x) /\ Still /\ SameRoot /\ SameShown
         /\ promised' = promised /\ heard' = heard
         /\ tainted \subseteq tainted' /\ tainted' \subseteq tainted \cup {x}
         /\ \/ /\ b # None /\ g \in Connections /\ Leaves(manager[g], b)
               /\ LeavesAt(g, b) /\ services'[x] = None
               /\ \/ /\ ConnAt(g, x, Fewer(conn[g].paths[PathOf[x]]),
                               Fewer(conn[g].names[NameOf[x]]))
                     /\ OwnerReleased(g, NameOf[x])
                  \/ /\ ConnAt(g, x, Fewer(conn[g].paths[PathOf[x]]),
                               conn[g].names[NameOf[x]])
                     /\ x \in tainted' /\ owner' = owner
               /\ Becomes(t, "decrement", q.adapter, x, g, q.after)
               /\ \/ q.after = "drop" /\ Unlocks(t, q)
                  \/ q.after # "drop" /\ Keeps(t, q)
            \/ /\ services' = services /\ conn' = conn /\ owner' = owner /\ tainted' = tainted
               /\ \/ b # None /\ g \in Connections /\ ~Leaves(manager[g], b) /\ LeavesAt(g, b)
                  \/ b = None /\ SameTables
               /\ Keeps(t, q)
               /\ Becomes(t, IF q.after = "drop" THEN "return" ELSE q.after, q.adapter, x,
                          q.conn, q.after)
<1>0. TypeOK
  BY DEF Base
<1>1. /\ q.pc = "retract" /\ AtWork(q) /\ x \in Addresses
  BY WorkingThread DEF Retract, Owning, At, AtWork
<1>2. b # None => b \in Adapters /\ AddressOf[b] = x /\ g = home[b] /\ g \in Connections
  BY <1>1, Registered
<1>3. /\ servicesMutex = t /\ heard' = heard /\ promised' = promised
  BY DEF Retract, Owning
<1>4. Still
  BY DEF Still, Retract
<1>5. ASSUME Keeps(t, q) \/ Unlocks(t, q), SameTables \/ (b # None /\ LeavesAt(g, b)),
             SameShown, \A y \in Addresses \ {x} : services'[y] = services[y]
      PROVE  Others(x)
  BY <1>1, <1>2, <1>3, <1>5, OthersHeld DEF SameShown, SameTables, LeavesAt
<1>6. b # None => IsInjective(manager[g].table[AddressOf[b]])
  BY <1>1, <1>2 DEF Base, Placed
<1>7. CASE b # None /\ Leaves(manager[g], b)
  <2>1. /\ Retracted(x)
        /\ IF q.after = "drop" THEN Unlock ELSE UNCHANGED servicesMutex
        /\ Goto(t, [q EXCEPT !.pc = "decrement", !.conn = g])
    BY <1>2, <1>7 DEF Retract
  <2>2. /\ manager' = LeftAt(g, b) /\ services' = [services EXCEPT ![x] = None]
        /\ \/ /\ conn' = ConnReleased(g, x)
              /\ owner' = IF conn[g].names[NameOf[x]] = 1 /\ owner[NameOf[x]] = g
                            THEN [owner EXCEPT ![NameOf[x]] = 0] ELSE owner
              /\ tainted' = tainted
           \/ /\ tainted' = tainted \cup {x} /\ owner' = owner
              /\ conn' = ConnUnused(g, x)
    BY <1>2, <1>7, <2>1 DEF Retracted, LeftAt, Works, Fail, ConnReleased, ConnUnused
  <2>3. LeavesAt(g, b) /\ SameRoot
    BY <1>0, <1>2, <1>6, <1>7, <2>2, LeftTables
  <2>4. /\ services'[x] = None /\ \A y \in Addresses \ {x} : services'[y] = services[y]
    BY <1>0, <1>1, <2>2 DEF TypeOK
  <2>5. Becomes(t, "decrement", q.adapter, x, g, q.after)
    <3> DEFINE r == [q EXCEPT !.pc = "decrement", !.conn = g]
    <3>1. /\ r \in Process /\ r.pc = "decrement" /\ r.adapter = q.adapter /\ r.address = x
          /\ r.conn = g /\ r.after = q.after
      BY <1>2, <1>7 DEF Process
    <3> HIDE DEF r
    <3>2. Goto(t, r)
      BY <2>1 DEF r
    <3> QED
      BY <1>0, <3>1, <3>2, GoesTo
  <2>6. /\ \/ q.after = "drop" /\ Unlocks(t, q)
           \/ q.after # "drop" /\ Keeps(t, q)
    BY <1>0, <1>3, <2>1, <2>5, Held DEF Unlock
  <2>7. SameShown
    BY <1>3, <2>3, AllShown
  <2>8. Others(x)
    BY <1>5, <1>7, <2>3, <2>4, <2>6, <2>7
  <2> DEFINE i == conn[g].paths[PathOf[x]]
             k == conn[g].names[NameOf[x]]
  <2>c. x \in Addresses /\ g \in Connections /\ NameOf[x] \in Names
    BY <1>1, <1>2, <1>7, ServicesAssumption
  <2>9. \/ ConnAt(g, x, Fewer(i), Fewer(k)) /\ OwnerReleased(g, NameOf[x]) /\ tainted' = tainted
        \/ ConnAt(g, x, Fewer(i), k) /\ owner' = owner /\ tainted' = tainted \cup {x}
    <3>1. ASSUME conn' = ConnReleased(g, x)
          PROVE  ConnAt(g, x, Fewer(i), Fewer(k))
      BY <1>0, <2>c, <3>1, BothReleasedAt DEF ConnReleased
    <3>2. ASSUME conn' = ConnUnused(g, x)
          PROVE  ConnAt(g, x, Fewer(i), k)
      BY <1>0, <2>c, <3>2, PathUnusedAt DEF ConnUnused, Fewer
    <3>3. ASSUME owner' = IF conn[g].names[NameOf[x]] = 1 /\ owner[NameOf[x]] = g
                            THEN [owner EXCEPT ![NameOf[x]] = 0] ELSE owner
          PROVE  OwnerReleased(g, NameOf[x])
      <4>1. owner \in [Names -> {0} \cup Connections]
        BY <1>0 DEF TypeOK
      <4>2. CASE conn[g].names[NameOf[x]] = 1 /\ owner[NameOf[x]] = g
        <5>1. owner' = [owner EXCEPT ![NameOf[x]] = 0]
          BY <3>3, <4>2
        <5> QED
          BY <4>1, <4>2, <5>1, <2>c DEF OwnerReleased
      <4>3. CASE ~(conn[g].names[NameOf[x]] = 1 /\ owner[NameOf[x]] = g)
        BY <3>3, <4>3 DEF OwnerReleased
      <4> QED
        BY <4>2, <4>3
    <3> QED
      BY <2>2, <3>1, <3>2, <3>3
  <2> HIDE DEF i, k
  <2>10. tainted \subseteq tainted' /\ tainted' \subseteq tainted \cup {x}
    BY <2>9
  <2> QED
    BY <1>1, <1>2, <1>3, <1>4, <1>7, <2>3, <2>4, <2>5, <2>6, <2>7, <2>8, <2>9, <2>10 DEF i, k
<1>8. CASE ~(b # None /\ Leaves(manager[g], b))
  <2>1. /\ manager' = IF b # None THEN LeftAt(g, b) ELSE manager
        /\ services' = services /\ servicesMutex' = t /\ conn' = conn /\ owner' = owner
        /\ tainted' = tainted
        /\ Move(t, IF q.after = "drop" THEN "return" ELSE q.after)
    BY <1>2, <1>3, <1>8 DEF Retract, LeftAt, Works
  <2>2. Becomes(t, IF q.after = "drop" THEN "return" ELSE q.after, q.adapter, x, q.conn, q.after)
    BY <1>0, <2>1, MovesTo
  <2>3. Keeps(t, q)
    BY <1>0, <1>3, <2>1, <2>2, Held
  <2>4. b # None => LeavesAt(g, b) /\ SameRoot
    BY <1>0, <1>2, <1>6, <2>1, LeftTables
  <2>5. b = None => SameTables /\ SameRoot
    BY <2>1, TablesStay
  <2>6. SameShown
    BY <1>3, <2>4, <2>5, AllShown
  <2>7. Others(x)
    BY <1>5, <2>1, <2>3, <2>4, <2>5, <2>6
  <2> QED
    BY <1>1, <1>2, <1>3, <1>4, <1>8, <2>1, <2>2, <2>3, <2>4, <2>5, <2>6, <2>7
<1> QED
  BY <1>7, <1>8

\* What a step of Erase changes.
LEMMA EraseEffect ==
  ASSUME Base, NEW t \in Actors, NEW q \in Process, q = proc[t], Erase(t)
  PROVE  /\ q.pc = "erase" /\ AtWork(q)
         /\ Unlocks(t, q) /\ Others(q.address) /\ Still
         /\ SameTables /\ SameRoot /\ SameShown
         /\ conn' = conn /\ heard' = heard /\ owner' = owner /\ promised' = promised
         /\ tainted' = tainted /\ services'[q.address] = None
         /\ Becomes(t, "drop", q.adapter, q.address, q.conn, q.after)
<1>0. TypeOK
  BY DEF Base
<1>1. q.pc = "erase" /\ AtWork(q)
  BY WorkingThread DEF Erase, Owning, At
<1>2. /\ servicesMutex = t /\ servicesMutex' = None /\ heard' = heard /\ owner' = owner
      /\ manager' = manager /\ promised' = promised /\ tainted' = tainted /\ conn' = conn
  BY DEF Erase, Owning, busVars
<1>3. services'[q.address] = None /\ \A y \in Addresses \ {q.address} : services'[y] = services[y]
  BY <1>0, <1>1 DEF TypeOK, Erase, AtWork
<1>4. Still
  BY DEF Still, Erase
<1>5. Becomes(t, "drop", q.adapter, q.address, q.conn, q.after)
  BY <1>0, MovesTo DEF Erase
<1>6. Unlocks(t, q) /\ SameTables /\ SameRoot /\ SameShown
  BY <1>0, <1>2, <1>5, Held, TablesStay, AllShown
<1>7. Others(q.address)
  BY <1>2, <1>3, <1>6, OthersHeld DEF SameShown, SameTables
<1> QED
  BY <1>1, <1>2, <1>3, <1>4, <1>5, <1>6, <1>7

\* What a step of Return changes.
LEMMA ReturnEffect ==
  ASSUME Base, NEW t \in Actors, NEW q \in Process, q = proc[t], Return(t)
  PROVE  /\ q.pc = "return" /\ q.address \in Addresses
         /\ Unlocks(t, q) /\ Others(q.address) /\ Still
         /\ SameTables /\ SameRoot /\ SameShown
         /\ conn' = conn /\ heard' = heard /\ owner' = owner /\ promised' = promised
         /\ tainted' = tainted /\ services' = services
         /\ Becomes(t, "drop", q.adapter, q.address, q.conn, q.after)
<1>0. TypeOK
  BY DEF Base
<1>1. q.pc = "return" /\ q.address \in Addresses
  BY DEF Return, Owning, At, Base, Shapes, Shape
<1>2. /\ servicesMutex = t /\ servicesMutex' = None /\ heard' = heard /\ owner' = owner
      /\ manager' = manager /\ promised' = promised /\ tainted' = tainted /\ conn' = conn
      /\ services' = services
  BY DEF Return, Owning, busVars
<1>4. Still
  BY DEF Still, Return
<1>5. Becomes(t, "drop", q.adapter, q.address, q.conn, q.after)
  BY <1>0, MovesTo DEF Return
<1>6. Unlocks(t, q) /\ SameTables /\ SameRoot /\ SameShown
  BY <1>0, <1>2, <1>5, Held, TablesStay, AllShown
<1>7. Others(q.address)
  BY <1>2, <1>6, OthersHeld DEF SameShown, SameTables
<1> QED
  BY <1>1, <1>2, <1>4, <1>5, <1>6, <1>7

\* What a step of Release changes.
LEMMA ReleaseEffect ==
  ASSUME Base, NEW t \in Actors, NEW q \in Process, q = proc[t], Release(t),
         NEW x, x = q.address, NEW g, g = q.conn
  PROVE  /\ q.pc = "release" /\ AtWork(q) /\ g = home[q.adapter] /\ g \in Connections
         /\ Keeps(t, q) /\ Others(x) /\ Still
         /\ SameTables /\ SameRoot /\ SameShown
         /\ promised' = promised /\ services' = services /\ heard' = heard
         /\ tainted \subseteq tainted'
         /\ \/ /\ conn[g].names[NameOf[x]] > 0 /\ tainted' = tainted
               /\ ConnAt(g, x, conn[g].paths[PathOf[x]], Fewer(conn[g].names[NameOf[x]]))
               /\ OwnerReleased(g, NameOf[x])
               /\ Becomes(t, "leave", q.adapter, x, g, q.after)
            \/ /\ conn[g].names[NameOf[x]] > 0 => x \in tainted'
               /\ conn' = conn /\ owner' = owner
               /\ Becomes(t, "return", q.adapter, x, g, q.after)
<1>0. TypeOK
  BY DEF Base
<1>1. /\ q.pc = "release" /\ AtWork(q) /\ g = home[q.adapter] /\ g \in Connections
  BY WorkingThread DEF Release, Owning, At, Building
<1>c. x \in Addresses /\ NameOf[x] \in Names
  BY <1>1, ServicesAssumption DEF AtWork
<1>2. /\ servicesMutex = t /\ servicesMutex' = t /\ heard' = heard
      /\ manager' = manager /\ promised' = promised /\ services' = services
      /\ \/ /\ conn[g].names[NameOf[x]] > 0
            /\ conn' = [conn EXCEPT ![g] = NameReleased(@, NameOf[x])]
            /\ owner' = IF conn[g].names[NameOf[x]] = 1 /\ owner[NameOf[x]] = g
                          THEN [owner EXCEPT ![NameOf[x]] = 0] ELSE owner
            /\ Move(t, "leave") /\ tainted' = tainted
         \/ /\ IF conn[g].names[NameOf[x]] > 0 THEN Fail(x) ELSE Works
            /\ Move(t, "return") /\ conn' = conn /\ owner' = owner
  BY DEF Release, Owning, mutexes, Works
<1>3. Still
  BY DEF Still, Release, mutexes
<1>4. SameTables /\ SameRoot /\ SameShown
  BY <1>2, TablesStay, AllShown
<1>5. /\ Move(t, "leave") => Becomes(t, "leave", q.adapter, x, g, q.after)
      /\ Move(t, "return") => Becomes(t, "return", q.adapter, x, g, q.after)
  BY <1>0, MovesTo
<1>6. Keeps(t, q)
  BY <1>0, <1>2, <1>5, Held
<1>7. Others(x)
  BY <1>2, <1>4, <1>6, OthersHeld DEF SameShown, SameTables
<1>8. ASSUME conn' = [conn EXCEPT ![g] = NameReleased(@, NameOf[x])]
      PROVE  ConnAt(g, x, conn[g].paths[PathOf[x]], Fewer(conn[g].names[NameOf[x]]))
  BY <1>0, <1>1, <1>c, <1>8, NameReleasedAt
<1>9. ASSUME owner' = IF conn[g].names[NameOf[x]] = 1 /\ owner[NameOf[x]] = g
                        THEN [owner EXCEPT ![NameOf[x]] = 0] ELSE owner
      PROVE  OwnerReleased(g, NameOf[x])
  <2>1. owner \in [Names -> {0} \cup Connections]
    BY <1>0 DEF TypeOK
  <2>2. CASE conn[g].names[NameOf[x]] = 1 /\ owner[NameOf[x]] = g
    BY <2>1, <2>2, <1>9, <1>c DEF OwnerReleased
  <2>3. CASE ~(conn[g].names[NameOf[x]] = 1 /\ owner[NameOf[x]] = g)
    BY <1>9, <2>3 DEF OwnerReleased
  <2> QED
    BY <2>2, <2>3
<1>10. (IF conn[g].names[NameOf[x]] > 0 THEN Fail(x) ELSE Works)
         => (conn[g].names[NameOf[x]] > 0 => x \in tainted') /\ tainted \subseteq tainted'
  BY DEF Fail, Works
<1>11. CASE /\ conn[g].names[NameOf[x]] > 0
            /\ conn' = [conn EXCEPT ![g] = NameReleased(@, NameOf[x])]
            /\ owner' = IF conn[g].names[NameOf[x]] = 1 /\ owner[NameOf[x]] = g
                          THEN [owner EXCEPT ![NameOf[x]] = 0] ELSE owner
            /\ Move(t, "leave") /\ tainted' = tainted
  BY <1>1, <1>2, <1>3, <1>4, <1>5, <1>6, <1>7, <1>8, <1>9, <1>11
<1>12. CASE /\ IF conn[g].names[NameOf[x]] > 0 THEN Fail(x) ELSE Works
            /\ Move(t, "return") /\ conn' = conn /\ owner' = owner
  BY <1>1, <1>2, <1>3, <1>4, <1>5, <1>6, <1>7, <1>10, <1>12
<1> QED
  BY <1>2, <1>11, <1>12

\* What a step of Forget changes.
LEMMA ForgetEffect ==
  ASSUME Base, NEW t \in Actors, NEW q \in Process, q = proc[t], Forget(t)
  PROVE  /\ q.pc = "leave" /\ AtWork(q) /\ q.conn = home[q.adapter]
         /\ Unlocks(t, q) /\ Others(q.address) /\ Still /\ SameTables
         /\ conn' = conn /\ promised' = promised /\ owner' = owner
         /\ \/ /\ TakesBack(q.conn, q.adapter) /\ services'[q.address] = None
               /\ Becomes(t, "decrement", q.adapter, q.address, q.conn, q.after)
            \/ /\ heard' = heard /\ SameRoot /\ SameShown /\ tainted \subseteq tainted'
               /\ q.adapter \in manager[q.conn].exported[Root] => q.address \in tainted'
               /\ services' = services
               /\ Becomes(t, "drop", q.adapter, q.address, q.conn, q.after)
<1>0. TypeOK
  BY DEF Base
<1>1. /\ q.pc = "leave" /\ AtWork(q)
      /\ q.conn = home[q.adapter] /\ q.conn \in Connections
  BY WorkingThread DEF Forget, Owning, At, Building
<1>2. /\ servicesMutex = t /\ servicesMutex' = None
      /\ conn' = conn /\ promised' = promised /\ owner' = owner
      /\ \/ /\ Unexport(q.conn, Root, q.adapter, TRUE) /\ Move(t, "decrement")
            /\ services' = [services EXCEPT ![q.address] = None]
         \/ /\ Unexport(q.conn, Root, q.adapter, FALSE) /\ Move(t, "drop")
            /\ services' = services
  BY DEF Forget, Owning, Unlock
<1>3. Still
  BY DEF Still, Forget
<1>4. /\ Move(t, "decrement") => Becomes(t, "decrement", q.adapter, q.address, q.conn, q.after)
      /\ Move(t, "drop") => Becomes(t, "drop", q.adapter, q.address, q.conn, q.after)
  BY <1>0, MovesTo
<1>5. Unlocks(t, q)
  BY <1>0, <1>2, <1>4, Held
<1>6. CASE Unexport(q.conn, Root, q.adapter, TRUE) /\ Move(t, "decrement")
            /\ services' = [services EXCEPT ![q.address] = None]
  <2>1. TakesBack(q.conn, q.adapter)
    BY <1>0, <1>1, <1>6, Unexported DEF AtWork
  <2>2. services'[q.address] = None
          /\ \A y \in Addresses \ {q.address} : services'[y] = services[y]
    BY <1>0, <1>1, <1>6 DEF TypeOK, AtWork
  <2>3. Others(q.address)
    BY <1>1, <1>2, <1>5, <2>1, <2>2, OthersHeld DEF TakesBack, SameTables, AtWork
  <2> QED
    BY <1>1, <1>2, <1>3, <1>4, <1>5, <1>6, <2>1, <2>2, <2>3 DEF TakesBack
<1>7. CASE Unexport(q.conn, Root, q.adapter, FALSE) /\ Move(t, "drop") /\ services' = services
  <2>1. /\ manager' = manager /\ heard' = heard /\ SameTables /\ SameShown
        /\ tainted \subseteq tainted'
        /\ q.adapter \in manager[q.conn].exported[Root] => q.address \in tainted'
    BY <1>0, <1>1, <1>7, NotExported DEF AtWork
  <2>2. Others(q.address)
    BY <1>1, <1>2, <1>5, <1>7, <2>1, OthersHeld DEF SameShown, SameTables
  <2>3. SameRoot
    BY <2>1, TablesStay
  <2> QED
    BY <1>1, <1>2, <1>3, <1>4, <1>5, <1>7, <2>1, <2>2, <2>3
<1> QED
  BY <1>2, <1>6, <1>7

\* What a step of Leave changes.
LEMMA LeaveEffect ==
  ASSUME Base, NEW t \in Actors, NEW q \in Process, q = proc[t], Leave(t),
         NEW x, x = q.address, NEW b, b = services[x], NEW g, b # None => g = home[b]
  PROVE  /\ q.pc \in {"unregister", "destroy"} /\ x \in Addresses
         /\ servicesMutex = None
         /\ Others(x) /\ Still /\ SameRoot /\ SameShown
         /\ heard' = heard /\ owner' = owner /\ services' = services
         /\ \/ /\ b = None /\ SameHolder /\ servicesMutex' = None /\ SameTables
               /\ conn' = conn /\ promised' = promised /\ tainted' = tainted
               /\ Becomes(t, "idle", None, None, 0, "drop")
            \/ /\ b # None /\ g \in Connections /\ LeavesAt(g, b) /\ Takes(t, q)
               /\ \/ /\ Leaves(manager[g], b)
                     /\ ConnAt(g, x, Fewer(conn[g].paths[PathOf[x]]), conn[g].names[NameOf[x]])
                     /\ Becomes(t, "release", b, x, g, "drop")
                  \/ /\ ~Leaves(manager[g], b) /\ conn' = conn
                     /\ Becomes(t, "return", b, x, g, "drop")
               /\ tainted \subseteq tainted' /\ promised' \subseteq promised
               /\ x \notin tainted' => /\ b \notin Managed /\ q.pc = "unregister"
                                       /\ At_(x) \cap promised' = {}
<1>0. TypeOK
  BY DEF Base
<1>1. /\ q.pc \in {"unregister", "destroy"} /\ x \in Addresses /\ servicesMutex = None
      /\ heard' = heard /\ owner' = owner /\ services' = services
  BY DEF Leave, Base, Shapes, Shape, busVars
<1>2. b # None => b \in Adapters /\ AddressOf[b] = x /\ g = home[b] /\ g \in Connections
  BY <1>1, Registered
<1>3. Still
  BY DEF Still, Leave
<1>4. CASE b = None
  <2>1. /\ Goto(t, Idle) /\ servicesMutex' = servicesMutex /\ manager' = manager /\ conn' = conn
        /\ promised' = promised /\ tainted' = tainted
    BY <1>4 DEF Leave
  <2>2. Becomes(t, "idle", None, None, 0, "drop")
    BY <1>0, <2>1, GoesTo, IdleTyped DEF Idle
  <2>3. SameHolder
    <3>1. servicesMutex # t
      BY <1>1, ServicesAssumption
    <3> QED
      BY <1>0, <2>1, <2>2, <3>1, HolderWaits DEF Becomes
  <2>4. SameTables /\ SameRoot /\ SameShown
    BY <1>1, <2>1, TablesStay, AllShown
  <2>5. Others(x)
    BY <1>1, <2>1, <2>3, <2>4, OthersStay DEF SameHolder, SameTables, SameShown
  <2> QED
    BY <1>1, <1>3, <1>4, <2>1, <2>2, <2>3, <2>4, <2>5
<1>5. CASE b # None
  <2> DEFINE leaves == Leaves(manager[g], b)
             r == [pc |-> IF leaves THEN "release" ELSE "return", adapter |-> b,
                   address |-> x, conn |-> g, after |-> "drop"]
  <2>1. /\ Goto(t, r) /\ servicesMutex' = t /\ manager' = LeftAt(g, b)
        /\ conn' = IF leaves THEN [conn EXCEPT ![g] = PathUnused(@, x)] ELSE conn
        /\ promised' = IF q.pc = "destroy" THEN promised ELSE {c \in promised : AddressOf[c] # x}
        /\ tainted' = IF q.pc = "destroy" \/ b \in Managed THEN tainted \cup {x} ELSE tainted
    BY <1>2, <1>5 DEF Leave, LeftAt, At
  <2>2. r \in Process
    BY <1>1, <1>2, <1>5 DEF Process
  <2>3. Becomes(t, IF leaves THEN "release" ELSE "return", b, x, g, "drop")
    <3> HIDE DEF leaves
    <3>1. Becomes(t, r.pc, r.adapter, r.address, r.conn, r.after)
      BY <1>0, <2>1, <2>2, GoesTo
    <3> QED
      BY <3>1
  <2> HIDE DEF r
  <2>4. Takes(t, q)
    BY <1>0, <1>1, <2>1, <2>3, Held
  <2>5. LeavesAt(g, b) /\ SameRoot
    <3>1. IsInjective(manager[g].table[AddressOf[b]])
      BY <1>1, <1>2, <1>5 DEF Base, Placed
    <3> QED
      BY <1>0, <1>2, <1>5, <2>1, <3>1, LeftTables
  <2>6. leaves => ConnAt(g, x, Fewer(conn[g].paths[PathOf[x]]), conn[g].names[NameOf[x]])
    BY <1>0, <1>1, <1>2, <1>5, <2>1, PathUnusedAt DEF Fewer
  <2>7. /\ tainted \subseteq tainted' /\ promised' \subseteq promised
        /\ x \notin tainted' => /\ b \notin Managed /\ q.pc = "unregister"
                                /\ At_(x) \cap promised' = {}
        /\ \A y \in Addresses \ {x} : At_(y) \cap promised' = At_(y) \cap promised
    BY <1>1, <2>1 DEF At_
  <2>8. SameShown
    BY <1>1, <2>5, AllShown
  <2>9. Others(x)
    BY <1>1, <1>2, <1>5, <2>4, <2>5, <2>7, <2>8, OthersHeld DEF SameShown, LeavesAt
  <2>10. \/ leaves /\ Becomes(t, "release", b, x, g, "drop")
         \/ ~leaves /\ Becomes(t, "return", b, x, g, "drop") /\ conn' = conn
    BY <2>1, <2>3
  <2> QED
    BY <1>1, <1>2, <1>3, <1>5, <2>4, <2>5, <2>6, <2>7, <2>8, <2>9, <2>10
<1> QED
  BY <1>4, <1>5

\* What a step of Enlist changes.
LEMMA EnlistEffect ==
  ASSUME Base, NEW t \in Actors, NEW q \in Process, q = proc[t], Enlist(t)
  PROVE  /\ q.pc = "enlist" /\ AtWork(q) /\ q.adapter \in Managed
         /\ q.conn = home[q.adapter] /\ q.conn \in Connections
         /\ servicesMutex = None
         /\ Others(q.address) /\ Still /\ SameRoot /\ SameShown
         /\ heard' = heard /\ owner' = owner /\ promised' = promised /\ tainted' = tainted
         /\ \/ /\ services[q.address] = None /\ services'[q.address] = q.adapter /\ Takes(t, q)
               /\ EntersAt(q.conn, q.adapter)
               /\ ConnAt(q.conn, q.address, conn[q.conn].paths[PathOf[q.address]] + 1,
                         conn[q.conn].names[NameOf[q.address]])
               /\ Becomes(t, "request", q.adapter, q.address, q.conn, q.after)
            \/ /\ services' = services /\ SameHolder /\ servicesMutex' = None /\ SameTables
               /\ conn' = conn
               /\ Becomes(t, "drop", q.adapter, q.address, q.conn, q.after)
<1>0. TypeOK
  BY DEF Base
<1>1. /\ q.pc = "enlist" /\ AtWork(q) /\ q.adapter \in Managed
      /\ q.conn = home[q.adapter] /\ q.conn \in Connections /\ q.address \in Addresses
  BY WorkingThread DEF Enlist, At, Building, AtWork
<1>2. /\ servicesMutex = None /\ heard' = heard /\ owner' = owner /\ promised' = promised
      /\ tainted' = tainted
  BY DEF Enlist, busVars
<1>3. Still
  BY DEF Still, Enlist
<1>4. CASE services[q.address] = None
  <2>1. /\ servicesMutex' = t /\ Move(t, "request")
        /\ services' = [services EXCEPT ![q.address] = q.adapter]
        /\ manager' = EnteredAt(q.conn, q.adapter)
        /\ conn' = [conn EXCEPT ![q.conn] = PathUsed(@, q.address)]
    BY <1>4 DEF Enlist, EnteredAt
  <2>2. Becomes(t, "request", q.adapter, q.address, q.conn, q.after)
    BY <1>0, <2>1, MovesTo
  <2>3. Takes(t, q)
    BY <1>0, <1>2, <2>1, <2>2, Held
  <2>4. EntersAt(q.conn, q.adapter) /\ SameRoot
    BY <1>0, <1>1, <2>1, EnterTables DEF AtWork
  <2>5. ConnAt(q.conn, q.address, conn[q.conn].paths[PathOf[q.address]] + 1,
                         conn[q.conn].names[NameOf[q.address]])
    BY <1>0, <1>1, <2>1, PathUsedAt
  <2>6. services'[q.address] = q.adapter
          /\ \A y \in Addresses \ {q.address} : services'[y] = services[y]
    BY <1>0, <1>1, <2>1 DEF TypeOK
  <2>7. SameShown
    BY <1>2, <2>4, AllShown
  <2>8. Others(q.address)
    BY <1>1, <1>2, <2>3, <2>4, <2>6, <2>7, OthersHeld DEF SameShown, EntersAt, AtWork
  <2> QED
    BY <1>1, <1>2, <1>3, <1>4, <2>1, <2>2, <2>3, <2>4, <2>5, <2>6, <2>7, <2>8
<1>5. CASE services[q.address] # None
  <2>1. /\ servicesMutex' = servicesMutex /\ Move(t, "drop") /\ services' = services
        /\ manager' = manager /\ conn' = conn
    BY <1>5 DEF Enlist
  <2>2. Becomes(t, "drop", q.adapter, q.address, q.conn, q.after)
    BY <1>0, <2>1, MovesTo
  <2>3. SameHolder
    <3>1. servicesMutex # t
      BY <1>2, ServicesAssumption
    <3> QED
      BY <1>0, <2>1, <2>2, <3>1, HolderWaits DEF Becomes
  <2>4. SameTables /\ SameRoot /\ SameShown
    BY <1>2, <2>1, TablesStay, AllShown
  <2>5. Others(q.address)
    BY <1>2, <2>1, <2>3, <2>4, OthersStay DEF SameHolder, SameTables, SameShown
  <2> QED
    BY <1>1, <1>2, <1>3, <1>5, <2>1, <2>2, <2>3, <2>4, <2>5
<1> QED
  BY <1>4, <1>5

\* What a step of Unlist changes.
LEMMA UnlistEffect ==
  ASSUME Base, NEW t \in Actors, NEW q \in Process, q = proc[t], Unlist(t),
         NEW x, x = q.address, NEW b, b = services[x]
  PROVE  /\ q.pc = "unlist" /\ AtWork(q) /\ q.adapter \in Managed
         /\ Takes(t, q) /\ Others(x) /\ Still /\ SameTables /\ SameRoot /\ SameShown
         /\ conn' = conn /\ heard' = heard /\ owner' = owner /\ services' = services
         /\ promised' = promised \ {b}
         /\ tainted' = IF b \in Managed \cup {None} THEN tainted ELSE tainted \cup {x}
         /\ Becomes(t, "retract", q.adapter, x, q.conn, q.after)
<1>0. TypeOK
  BY DEF Base
<1>1. /\ q.pc = "unlist" /\ AtWork(q) /\ q.adapter \in Managed /\ x \in Addresses
  BY WorkingThread DEF Unlist, At, Building, AtWork
<1>2. /\ servicesMutex = None /\ servicesMutex' = t /\ heard' = heard /\ owner' = owner
      /\ conn' = conn /\ services' = services /\ manager' = manager
      /\ promised' = promised \ {b}
      /\ tainted' = IF b \in Managed \cup {None} THEN tainted ELSE tainted \cup {x}
  BY DEF Unlist, busVars
<1>3. Still
  BY DEF Still, Unlist
<1>4. Becomes(t, "retract", q.adapter, x, q.conn, q.after)
  BY <1>0, MovesTo DEF Unlist
<1>5. Takes(t, q) /\ SameTables /\ SameRoot /\ SameShown
  BY <1>0, <1>2, <1>4, Held, TablesStay, AllShown
<1>6. \A y \in Addresses \ {x} : At_(y) \cap promised' = At_(y) \cap promised
  <2>1. CASE b = None
    <3>1. b \notin promised
      BY <1>0, <2>1, ServicesAssumption DEF TypeOK
    <3> QED
      BY <1>2, <3>1
  <2>2. CASE b # None
    <3>1. AddressOf[b] = x
      BY <1>1, <2>2, Registered
    <3> QED
      BY <1>2, <3>1 DEF At_
  <2> QED
    BY <2>1, <2>2
<1>7. Others(x)
  BY <1>2, <1>5, <1>6, OthersHeld DEF SameShown, SameTables
<1> QED
  BY <1>1, <1>2, <1>3, <1>4, <1>5, <1>7

\* No address, no table and nothing that peers know changes.
Quiet == /\ SameTables /\ SameRoot /\ SameShown /\ heard' = heard /\ services' = services
         /\ promised' = promised /\ owner' = owner /\ tainted \subseteq tainted'
         /\ servicesMutex' = servicesMutex /\ SameHolder
SameUsers == current' = current /\ connectionsMutex' = connectionsMutex /\ conn' = conn
SameHomes == home' = home /\ proxies' = proxies

\* A step that leaves the tables, the peers and servicesMutex_ alone.
LEMMA QuietStep ==
  ASSUME TypeOK, manager' = manager, heard' = heard, services' = services, promised' = promised,
         owner' = owner, tainted' = tainted, servicesMutex' = servicesMutex, SameHolder
  PROVE  Quiet
<1>1. SameTables /\ SameRoot /\ SameShown
  BY TablesStay, AllShown
<1> QED
  BY <1>1 DEF Quiet

\* getConnection opens a connection, or takes the open one.
Opens(g) ==
  /\ connectionsMutex = None /\ current' = g /\ g # 0
  /\ current # 0 => g = current
  /\ current = 0 => ~conn[g].open /\ ~conn[g].closing
  /\ \A h \in Connections :
    /\ conn'[h].active = IF h = g THEN conn[h].active + 1 ELSE conn[h].active
    /\ conn'[h].open = IF h = g THEN TRUE ELSE conn[h].open
    /\ conn'[h].closing = conn[h].closing
    /\ conn'[h].closer = conn[h].closer
    /\ \A p \in Paths : conn'[h].paths[p] = conn[h].paths[p]
    /\ \A n \in Names : conn'[h].names[n] = conn[h].names[n]

\* Connections are numbered from 1.
LEMMA Numbered == \A g \in Connections : g \in Nat /\ g # 0
<1>1. Cardinality(Connections) \in Nat /\ Connections = 1..Cardinality(Connections)
  BY FS_CardinalityType, ServicesAssumption
<1> QED
  BY <1>1

\* getConnection returns the connection of Factory, or opens the next.
LEMMA ConnectionOpened ==
  ASSUME TypeOK, NEW t \in Actors, NEW g \in Connections, GetConnection(t, g)
  PROVE  Opens(g)
<1>1. conn[g] \in Connection /\ conn[g].active + 1 \in Int /\ g # 0
  BY Typed, Numbered
<1>2. /\ conn'[g] = [conn[g] EXCEPT !.active = conn[g].active + 1, !.open = TRUE]
      /\ \A h \in Connections \ {g} : conn'[h] = conn[h]
  BY DEF TypeOK, GetConnection
<1>3. ASSUME NEW i \in Int
      PROVE LET c == [conn[g] EXCEPT !.active = i, !.open = TRUE] IN
        /\ c.active = i /\ c.open = TRUE /\ c.closing = conn[g].closing
        /\ c.closer = conn[g].closer /\ c.names = conn[g].names /\ c.paths = conn[g].paths
  BY <1>1 DEF Connection
<1>4. /\ conn'[g].active = conn[g].active + 1 /\ conn'[g].open = TRUE
      /\ conn'[g].closing = conn[g].closing
      /\ conn'[g].closer = conn[g].closer /\ conn'[g].names = conn[g].names
      /\ conn'[g].paths = conn[g].paths
  BY <1>1, <1>2, <1>3
<1>5. /\ connectionsMutex = None /\ current' = g
      /\ current # 0 => g = current
      /\ current = 0 => ~conn[g].open /\ ~conn[g].closing
  BY DEF GetConnection
<1> QED
  BY <1>1, <1>2, <1>4, <1>5 DEF Opens

\* A thread between operations does not hold servicesMutex_.
LEMMA IdleThread ==
  ASSUME Base, NEW t \in Actors, proc[t].pc \in {"idle", "drop", "close"}
  PROVE  servicesMutex # t
  BY ServicesAssumption, Typed DEF Base, MutexHeld, Locked, LockedLines

\* What a step of RegisterStub changes.
LEMMA RegisterStubEffect ==
  ASSUME Base, NEW t \in Actors, NEW a \in Adapters, RegisterStub(t, a)
  PROVE  /\ proc[t] = Idle /\ home[a] = 0 /\ a \notin Managed /\ Quiet
         /\ proxies' = proxies /\ handling' = handling /\ connectionsMutex' = connectionsMutex
         /\ tainted' = tainted
         /\ \E g \in Connections :
              /\ Opens(g)
              /\ \A b \in Adapters : home'[b] = IF b = a THEN g ELSE home[b]
              /\ Becomes(t, "insert", a, AddressOf[a], g, "return")
<1>0. TypeOK
  BY DEF Base
<1>1. PICK g \in Connections :
         /\ GetConnection(t, g)
         /\ home' = [home EXCEPT ![a] = g]
         /\ Goto(t, [pc |-> "insert", adapter |-> a, address |-> AddressOf[a],
                   conn |-> g, after |-> "return"])
  BY DEF RegisterStub
<1>2. /\ proc[t] = Idle /\ home[a] = 0 /\ a \notin Managed
      /\ proxies' = proxies /\ handling' = handling /\ connectionsMutex' = connectionsMutex
      /\ servicesMutex' = servicesMutex /\ manager' = manager /\ heard' = heard
      /\ services' = services /\ promised' = promised /\ owner' = owner /\ tainted' = tainted
  BY DEF RegisterStub, mutexes, busVars
<1>3. AddressOf[a] \in Addresses
  BY ServicesAssumption
<1> DEFINE r == [pc |-> "insert", adapter |-> a, address |-> AddressOf[a],
                   conn |-> g, after |-> "return"]
<1>4. r \in Process
  BY <1>3 DEF Process
<1>5. Becomes(t, "insert", a, AddressOf[a], g, "return")
  <2>1. Becomes(t, r.pc, r.adapter, r.address, r.conn, r.after)
    BY <1>0, <1>1, <1>4, GoesTo
  <2> QED
    BY <2>1
<1>6. SameHolder
  <2>1. servicesMutex # t
    BY <1>2, IdleThread DEF Idle
  <2> QED
    BY <1>0, <1>2, <1>5, <2>1, HolderWaits DEF Becomes
<1>7. Quiet
  BY <1>0, <1>2, <1>6, QuietStep
<1>8. \A b \in Adapters : home'[b] = IF b = a THEN g ELSE home[b]
  BY <1>0, <1>1 DEF TypeOK
<1>9. Opens(g)
  BY <1>0, <1>1, ConnectionOpened
<1> QED
  BY <1>2, <1>5, <1>7, <1>8, <1>9

\* What a step of CreateProxy changes.
LEMMA CreateProxyEffect ==
  ASSUME Base, NEW t \in Actors, NEW g \in Connections, CreateProxy(t, g)
  PROVE  /\ Quiet /\ proc' = proc /\ home' = home /\ handling' = handling /\ tainted' = tainted
         /\ connectionsMutex' = connectionsMutex /\ Opens(g)
         /\ \A h \in Connections : proxies'[h] = IF h = g THEN proxies[h] + 1 ELSE proxies[h]
<1>0. TypeOK
  BY DEF Base
<1>2. /\ proc' = proc /\ home' = home /\ handling' = handling
           /\ connectionsMutex' = connectionsMutex
      /\ servicesMutex' = servicesMutex /\ manager' = manager /\ heard' = heard
      /\ services' = services /\ promised' = promised /\ owner' = owner /\ tainted' = tainted
  BY DEF CreateProxy, mutexes, busVars
<1>3. Quiet
  BY <1>0, <1>2, HolderStays, QuietStep
<1>4. Opens(g)
  BY <1>0, ConnectionOpened DEF CreateProxy
<1>5. \A h \in Connections : proxies'[h] = IF h = g THEN proxies[h] + 1 ELSE proxies[h]
  <2>1. proxies' = [proxies EXCEPT ![g] = @ + 1] /\ proxies \in [Connections -> Nat]
    BY <1>0 DEF TypeOK, CreateProxy
  <2> QED
    BY <2>1
<1> QED
  BY <1>2, <1>3, <1>4, <1>5

\* What a step of DestroyProxy changes.
LEMMA DestroyProxyEffect ==
  ASSUME Base, NEW t \in Actors, NEW g \in Connections, DestroyProxy(t, g)
  PROVE  /\ Quiet /\ proc[t] = Idle /\ home' = home /\ handling' = handling /\ SameUsers
         /\ tainted' = tainted
         /\ proxies[g] > 0
         /\ \A h \in Connections : proxies'[h] = IF h = g THEN proxies[h] - 1 ELSE proxies[h]
         /\ Becomes(t, "decrement", None, None, g, "drop")
<1>0. TypeOK
  BY DEF Base
<1>2. /\ proc[t] = Idle /\ home' = home /\ handling' = handling
      /\ servicesMutex' = servicesMutex /\ manager' = manager /\ heard' = heard
      /\ services' = services /\ promised' = promised /\ owner' = owner /\ tainted' = tainted
      /\ proxies[g] > 0
  BY DEF DestroyProxy, mutexes, busVars
<1>3. SameUsers
  BY DEF SameUsers, DestroyProxy, mutexes
<1> DEFINE r == [Idle EXCEPT !.pc = "decrement", !.conn = g]
<1>4. r \in Process
  BY IdleTyped
<1>5. Becomes(t, "decrement", None, None, g, "drop")
  <2>1. r.pc = "decrement" /\ r.adapter = None /\ r.address = None /\ r.conn = g
          /\ r.after = "drop"
    BY DEF Idle
  <2>2. Goto(t, r)
    BY DEF DestroyProxy
  <2> HIDE DEF r
  <2> QED
    BY <1>0, <1>4, <2>1, <2>2, GoesTo
<1>6. SameHolder
  <2>1. servicesMutex # t
    BY <1>2, IdleThread DEF Idle
  <2> QED
    BY <1>0, <1>2, <1>5, <2>1, HolderWaits DEF Becomes
<1>7. Quiet
  BY <1>0, <1>2, <1>6, QuietStep
<1>8. \A h \in Connections : proxies'[h] = IF h = g THEN proxies[h] - 1 ELSE proxies[h]
  <2>1. proxies' = [proxies EXCEPT ![g] = @ - 1] /\ proxies \in [Connections -> Nat]
    BY <1>0 DEF TypeOK, DestroyProxy
  <2> QED
    BY <2>1
<1> QED
  BY <1>2, <1>3, <1>5, <1>7, <1>8

\* What a step of RegisterManaged changes.
LEMMA RegisterManagedEffect ==
  ASSUME Base, NEW t \in Actors, NEW a \in Adapters, NEW parent \in Adapters,
         RegisterManaged(t, a, parent)
  PROVE  /\ Quiet /\ proc[t] = Idle /\ home[a] = 0 /\ a \in Managed /\ SameUsers
         /\ tainted' = tainted
         /\ proxies' = proxies /\ handling' = handling /\ parent \in promised
         /\ home[parent] \in Connections
         /\ \A b \in Adapters : home'[b] = IF b = a THEN home[parent] ELSE home[b]
         /\ Becomes(t, "enlist", a, AddressOf[a], home[parent], "drop")
<1>0. TypeOK
  BY DEF Base
<1>2. /\ proc[t] = Idle /\ home[a] = 0 /\ a \in Managed /\ parent \in promised
      /\ proxies' = proxies /\ handling' = handling
      /\ servicesMutex' = servicesMutex /\ manager' = manager /\ heard' = heard
      /\ services' = services /\ promised' = promised /\ owner' = owner /\ tainted' = tainted
  BY DEF RegisterManaged, mutexes, busVars
<1>3. SameUsers
  BY DEF SameUsers, RegisterManaged, mutexes
<1>9. home[parent] \in Connections
  BY <1>0, <1>2, Typed DEF Base, Placed
<1> DEFINE r == [pc |-> "enlist", adapter |-> a, address |-> AddressOf[a],
              conn |-> home[parent], after |-> "drop"]
<1>4. r \in Process
  BY <1>9, ServicesAssumption DEF Process
<1>5. Becomes(t, "enlist", a, AddressOf[a], home[parent], "drop")
  <2>1. /\ r.pc = "enlist" /\ r.adapter = a /\ r.address = AddressOf[a]
        /\ r.conn = home[parent] /\ r.after = "drop"
    OBVIOUS
  <2>2. Goto(t, r)
    BY DEF RegisterManaged
  <2> HIDE DEF r
  <2>3. Becomes(t, r.pc, r.adapter, r.address, r.conn, r.after)
    BY <1>0, <1>4, <2>2, GoesTo
  <2> QED
    BY <2>1, <2>3 DEF Becomes
<1>6. SameHolder
  <2>1. servicesMutex # t
    BY <1>2, IdleThread DEF Idle
  <2> QED
    BY <1>0, <1>2, <1>5, <2>1, HolderWaits DEF Becomes
<1>7. Quiet
  BY <1>0, <1>2, <1>6, QuietStep
<1>8. \A b \in Adapters : home'[b] = IF b = a THEN home[parent] ELSE home[b]
  BY <1>0 DEF TypeOK, RegisterManaged
<1> QED
  BY <1>2, <1>3, <1>5, <1>7, <1>8, <1>9

\* The stub of a managed service joins, or leaves, the list of a path below "/".
LEMMA ListedBelow ==
  ASSUME TypeOK, NEW g \in Connections, NEW p \in Paths, NEW a \in Adapters,
         \E done \in BOOLEAN : Export(g, p, a, done) \/ Unexport(g, p, a, done)
  PROVE  /\ SameTables /\ SameRoot /\ SameShown /\ heard' = heard /\ tainted \subseteq tainted'
<1>1. p \in Paths \cup {Root} /\ p # Root /\ Root \in Paths \cup {Root}
  BY ServicesAssumption
<1>2. /\ heard' = heard /\ tainted \subseteq tainted'
      /\ \/ manager' = manager
         \/ \E S : manager' = ExportedSet(g, p, S)
  <2>1. Export(g, p, a, TRUE) \/ Export(g, p, a, FALSE) \/ Unexport(g, p, a, TRUE)
          \/ Unexport(g, p, a, FALSE)
    OBVIOUS
  <2>2. CASE Export(g, p, a, TRUE) \/ Export(g, p, a, FALSE)
    BY <2>2, <1>1 DEF Export, List, EmitInterfacesAdded, Works, Fail, ExportedSet
  <2>3. CASE Unexport(g, p, a, TRUE) \/ Unexport(g, p, a, FALSE)
    BY <2>3, <1>1 DEF Unexport, Unlisted, EmitInterfacesRemoved, Works, Fail, ExportedSet
  <2> QED
    BY <2>1, <2>2, <2>3
<1>3. SameTables /\ SameRoot
  <2>1. CASE manager' = manager
    BY <2>1, TablesStay
  <2>2. ASSUME NEW S, manager' = ExportedSet(g, p, S)
        PROVE  SameTables /\ SameRoot
    <3>1. /\ \A h \in Connections : /\ manager'[h].table = manager[h].table
                                    /\ manager'[h].count = manager[h].count
                                    /\ manager'[h].properties = manager[h].properties
          /\ \A h \in Connections, r \in Paths \cup {Root} :
               manager'[h].exported[r] = IF h = g /\ r = p THEN S ELSE manager[h].exported[r]
      BY <1>1, <2>2, ManagerSet
    <3> QED
      BY <1>1, <3>1 DEF SameTables, SameRoot, Tab
  <2> QED
    BY <1>2, <2>1, <2>2
<1> QED
  BY <1>2, <1>3, AllShown

\* What a step of ExportManaged changes.
LEMMA ExportManagedEffect ==
  ASSUME Base, NEW t \in Actors, NEW p \in Paths, NEW a \in Adapters, ExportManaged(t, p, a)
  PROVE  Quiet /\ proc' = proc /\ SameUsers /\ SameHomes /\ handling' = handling
<1>0. TypeOK
  BY DEF Base
<1>1. /\ proc' = proc /\ SameUsers /\ SameHomes /\ handling' = handling
      /\ services' = services /\ promised' = promised /\ owner' = owner
      /\ servicesMutex' = servicesMutex
  BY DEF ExportManaged, mutexes, SameUsers, SameHomes
<1>2. home[a] \in Connections
  BY <1>0, Typed DEF Base, Placed, ExportManaged
<1>3. SameTables /\ SameRoot /\ SameShown /\ heard' = heard /\ tainted \subseteq tainted'
  <2>1. \E done \in BOOLEAN : Export(home[a], p, a, done) \/ Unexport(home[a], p, a, done)
    BY DEF ExportManaged
  <2> QED
    BY <1>0, <1>2, <2>1, ListedBelow
<1> QED
  BY <1>1, <1>3, HolderStays DEF Quiet

\* What a step of UnexportManaged changes.
LEMMA UnexportManagedEffect ==
  ASSUME Base, NEW t \in Actors, NEW p \in Paths, NEW a \in Adapters, UnexportManaged(t, p, a)
  PROVE  /\ Quiet /\ proc[t] = Idle /\ SameUsers /\ SameHomes /\ handling' = handling
         /\ Becomes(t, "drop", a, None, 0, "drop")
<1>0. TypeOK
  BY DEF Base
<1>1. /\ proc[t] = Idle /\ SameUsers /\ SameHomes /\ handling' = handling
      /\ services' = services /\ promised' = promised /\ owner' = owner
      /\ servicesMutex' = servicesMutex
  BY DEF UnexportManaged, mutexes, SameUsers, SameHomes
<1>2. home[a] \in Connections
  BY <1>0, Typed DEF UnexportManaged
<1>3. SameTables /\ SameRoot /\ SameShown /\ heard' = heard /\ tainted \subseteq tainted'
  <2>1. \E done \in BOOLEAN : Export(home[a], p, a, done) \/ Unexport(home[a], p, a, done)
    BY DEF UnexportManaged
  <2> QED
    BY <1>0, <1>2, <2>1, ListedBelow
<1> DEFINE r == [Idle EXCEPT !.pc = "drop", !.adapter = a]
<1>4. Becomes(t, "drop", a, None, 0, "drop")
  <2>1. r.pc = "drop" /\ r.adapter = a /\ r.address = None /\ r.conn = 0 /\ r.after = "drop"
    BY DEF Idle
  <2>2. Goto(t, r) /\ r \in Process
    BY IdleTyped DEF UnexportManaged
  <2> HIDE DEF r
  <2> QED
    BY <1>0, <2>1, <2>2, GoesTo
<1>5. SameHolder
  <2>1. servicesMutex # t
    BY <1>1, IdleThread DEF Idle
  <2> QED
    BY <1>0, <1>1, <1>4, <2>1, HolderWaits DEF Becomes
<1> QED
  BY <1>1, <1>3, <1>4, <1>5 DEF Quiet

\* What a thread begins with one record.
LEMMA Begun ==
  ASSUME Base, NEW t \in Actors, proc[t].pc \in {"idle", "drop", "close"}, NEW r \in Process,
         Goto(t, r),
         servicesMutex' = servicesMutex
  PROVE  Becomes(t, r.pc, r.adapter, r.address, r.conn, r.after) /\ SameHolder /\ proc'[t] = r
<1>0. TypeOK
  BY DEF Base
<1>1. Becomes(t, r.pc, r.adapter, r.address, r.conn, r.after) /\ proc'[t] = r
  BY <1>0, GoesTo
<1>2. servicesMutex # t
  BY IdleThread
<1> QED
  BY <1>0, <1>1, <1>2, HolderWaits DEF Becomes

\* What a step of UnregisterManaged changes.
LEMMA UnregisterManagedEffect ==
  ASSUME Base, NEW t \in Actors, NEW a \in Adapters, UnregisterManaged(t, a)
  PROVE  /\ Quiet /\ proc[t] = Idle /\ SameUsers /\ SameHomes /\ handling' = handling
         /\ tainted' = tainted /\ a \in Managed /\ a \in promised
         /\ Becomes(t, "unlist", a, AddressOf[a], 0, "drop")
<1>0. TypeOK
  BY DEF Base
<1>1. /\ proc[t] = Idle /\ SameUsers /\ SameHomes /\ handling' = handling
      /\ services' = services /\ promised' = promised /\ owner' = owner
      /\ servicesMutex' = servicesMutex /\ manager' = manager /\ heard' = heard
      /\ tainted' = tainted /\ a \in Managed /\ a \in promised
  BY DEF UnregisterManaged, mutexes, busVars, SameUsers, SameHomes
<1> DEFINE r == [pc |-> "unlist", adapter |-> a, address |-> AddressOf[a], conn |-> 0,
                 after |-> "drop"]
<1>2. /\ r \in Process /\ Goto(t, r)
      /\ r.pc = "unlist" /\ r.adapter = a /\ r.address = AddressOf[a] /\ r.conn = 0
      /\ r.after = "drop"
  BY ServicesAssumption DEF Process, UnregisterManaged
<1> HIDE DEF r
<1>3. Becomes(t, r.pc, r.adapter, r.address, r.conn, r.after) /\ SameHolder
  BY <1>1, <1>2, Begun DEF Idle
<1>4. Becomes(t, "unlist", a, AddressOf[a], 0, "drop")
  BY <1>2, <1>3 DEF Becomes
<1>5. Quiet
  BY <1>0, <1>1, <1>3, QuietStep
<1> QED
  BY <1>1, <1>4, <1>5

\* What a step of UnregisterStub changes.
LEMMA UnregisterStubEffect ==
  ASSUME Base, NEW t \in Actors, NEW x \in Addresses, UnregisterStub(t, x)
  PROVE  /\ Quiet /\ proc[t] = Idle /\ SameUsers /\ SameHomes /\ handling' = handling
         /\ tainted' = tainted
         /\ Becomes(t, "unregister", None, x, 0, "drop")
<1>0. TypeOK
  BY DEF Base
<1>1. /\ proc[t] = Idle /\ SameUsers /\ SameHomes /\ handling' = handling
      /\ services' = services /\ promised' = promised /\ owner' = owner
      /\ servicesMutex' = servicesMutex /\ manager' = manager /\ heard' = heard
      /\ tainted' = tainted
  BY DEF UnregisterStub, mutexes, busVars, SameUsers, SameHomes
<1> DEFINE r == [Idle EXCEPT !.pc = "unregister", !.address = x]
<1>2. /\ r \in Process /\ Goto(t, r)
      /\ r.pc = "unregister" /\ r.adapter = None /\ r.address = x /\ r.conn = 0
      /\ r.after = "drop"
  <2>1. /\ r.pc = "unregister" /\ r.adapter = None /\ r.address = x /\ r.conn = 0
        /\ r.after = "drop"
    BY DEF Idle
  <2> QED
    BY <2>1, IdleTyped DEF UnregisterStub
<1> HIDE DEF r
<1>3. Becomes(t, r.pc, r.adapter, r.address, r.conn, r.after) /\ SameHolder
  BY <1>1, <1>2, Begun DEF Idle
<1>4. Becomes(t, "unregister", None, x, 0, "drop")
  BY <1>2, <1>3 DEF Becomes
<1>5. Quiet
  BY <1>0, <1>1, <1>3, QuietStep
<1> QED
  BY <1>1, <1>4, <1>5

\* What a step of Drop changes.
LEMMA DropEffect ==
  ASSUME Base, NEW t \in Actors, Drop(t)
  PROVE  /\ Quiet /\ proc[t].pc = "drop" /\ SameUsers /\ SameHomes /\ handling' = handling
         /\ tainted' = tainted
         /\ \/ Becomes(t, "idle", None, None, 0, "drop")
            \/ \E x \in Addresses : Becomes(t, "destroy", None, x, 0, "drop")
<1>0. TypeOK
  BY DEF Base
<1>1. /\ proc[t].pc = "drop" /\ SameUsers /\ SameHomes /\ handling' = handling
      /\ services' = services /\ promised' = promised /\ owner' = owner
      /\ servicesMutex' = servicesMutex /\ manager' = manager /\ heard' = heard
      /\ tainted' = tainted
  BY DEF Drop, mutexes, busVars, SameUsers, SameHomes, At
<1>2. CASE Goto(t, Idle)
  <2>1. Becomes(t, Idle.pc, Idle.adapter, Idle.address, Idle.conn, Idle.after) /\ SameHolder
    BY <1>1, <1>2, IdleTyped, Begun
  <2>2. Becomes(t, "idle", None, None, 0, "drop")
    BY <2>1 DEF Idle
  <2>3. Quiet
    BY <1>0, <1>1, <2>1, QuietStep
  <2> QED
    BY <1>1, <2>2, <2>3
<1>3. ASSUME NEW x \in Addresses, Goto(t, [Idle EXCEPT !.pc = "destroy", !.address = x])
      PROVE  Quiet /\ Becomes(t, "destroy", None, x, 0, "drop")
  <2> DEFINE r == [Idle EXCEPT !.pc = "destroy", !.address = x]
  <2>1. /\ r.pc = "destroy" /\ r.adapter = None /\ r.address = x /\ r.conn = 0
        /\ r.after = "drop" /\ r \in Process /\ Goto(t, r)
    <3>1. /\ r.pc = "destroy" /\ r.adapter = None /\ r.address = x /\ r.conn = 0
          /\ r.after = "drop"
      BY DEF Idle
    <3> QED
      BY <3>1, <1>3, IdleTyped
  <2> HIDE DEF r
  <2>2. Becomes(t, r.pc, r.adapter, r.address, r.conn, r.after) /\ SameHolder
    BY <1>1, <2>1, Begun
  <2>3. Becomes(t, "destroy", None, x, 0, "drop")
    BY <2>1, <2>2 DEF Becomes
  <2>4. Quiet
    BY <1>0, <1>1, <2>2, QuietStep
  <2> QED
    BY <2>3, <2>4
<1>4. Goto(t, Idle) \/ \E x \in Addresses : Goto(t, [Idle EXCEPT !.pc = "destroy", !.address = x])
  <2>1. proc[t].adapter \in Adapters \cup {None}
    BY <1>0, Typed
  <2>2. \A a \in Adapters : AddressOf[a] \in Addresses
    BY ServicesAssumption
  <2> QED
    BY <2>1, <2>2 DEF Drop
<1> QED
  BY <1>1, <1>2, <1>3, <1>4

\* What a step of Receive changes.
LEMMA ReceiveEffect ==
  ASSUME Base, NEW g \in Connections, NEW x \in Addresses, Receive(g, x)
  PROVE  /\ Quiet /\ proc' = proc /\ SameUsers /\ SameHomes /\ tainted' = tainted
         /\ conn[g].open /\ \A h \in Connections \ {g} : handling'[h] = handling[h]
<1>0. TypeOK
  BY DEF Base
<1>1. /\ proc' = proc /\ SameUsers /\ SameHomes
      /\ services' = services /\ promised' = promised /\ owner' = owner
      /\ servicesMutex' = servicesMutex /\ manager' = manager /\ heard' = heard
      /\ tainted' = tainted /\ conn[g].open
  BY DEF Receive, mutexes, busVars, SameUsers, SameHomes
<1>2. \A h \in Connections \ {g} : handling'[h] = handling[h]
  BY <1>0 DEF Receive, TypeOK
<1> QED
  BY <1>0, <1>1, <1>2, HolderStays, QuietStep

\* What a step of Reply changes.
LEMMA ReplyEffect ==
  ASSUME Base, NEW g \in Connections, Reply(g)
  PROVE  /\ DispatcherOf[g] \in Actors /\ proc[DispatcherOf[g]] = Idle
         /\ Quiet /\ SameUsers /\ SameHomes /\ tainted' = tainted
         /\ \A h \in Connections : handling'[h] = IF h = g THEN None ELSE handling[h]
         /\ Becomes(DispatcherOf[g], "drop", handling[g], None, 0, "drop")
<1>0. TypeOK
  BY DEF Base
<1>1. /\ DispatcherOf[g] \in Actors /\ proc[DispatcherOf[g]] = Idle
  BY ServicesAssumption DEF Reply, Actors
<1>2. /\ SameUsers /\ SameHomes
      /\ services' = services /\ promised' = promised /\ owner' = owner
      /\ servicesMutex' = servicesMutex /\ manager' = manager /\ heard' = heard
      /\ tainted' = tainted
  BY DEF Reply, mutexes, busVars, SameUsers, SameHomes
<1>3. \A h \in Connections : handling'[h] = IF h = g THEN None ELSE handling[h]
  BY <1>0 DEF Reply, TypeOK
<1>4. PICK a \in Adapters : a = handling[g]
  BY <1>0 DEF Reply, TypeOK
<1> DEFINE r == [Idle EXCEPT !.pc = "drop", !.adapter = a]
<1>5. /\ r.pc = "drop" /\ r.adapter = a /\ r.address = None /\ r.conn = 0
      /\ r.after = "drop" /\ r \in Process /\ Goto(DispatcherOf[g], r)
  <2>1. r.pc = "drop" /\ r.adapter = a /\ r.address = None /\ r.conn = 0 /\ r.after = "drop"
    BY DEF Idle
  <2>2. r \in Process
    BY IdleTyped
  <2>3. Goto(DispatcherOf[g], r)
    BY <1>4 DEF Reply
  <2> QED
    BY <2>1, <2>2, <2>3
<1> HIDE DEF r
<1>6. Becomes(DispatcherOf[g], r.pc, r.adapter, r.address, r.conn, r.after) /\ SameHolder
  <2>1. proc[DispatcherOf[g]].pc = "idle"
    BY <1>1 DEF Idle
  <2> QED
    BY <1>1, <1>2, <1>5, <2>1, Begun
<1>7. Quiet
  BY <1>0, <1>2, <1>6, QuietStep
<1> QED
  BY <1>1, <1>2, <1>3, <1>4, <1>5, <1>6, <1>7

\* The last user of a connection is gone: it is taken out of connections_.
Closes(g) ==
  /\ current = g /\ current' = 0
  /\ \A h \in Connections :
    /\ conn'[h].active = IF h = g THEN conn[h].active - 1 ELSE conn[h].active
    /\ conn'[h].open = conn[h].open
    /\ conn'[h].closing = IF h = g THEN TRUE ELSE conn[h].closing
    /\ conn'[h].closer = conn[h].closer
    /\ \A p \in Paths : conn'[h].paths[p] = conn[h].paths[p]
    /\ \A n \in Names : conn'[h].names[n] = IF h = g THEN 0 ELSE conn[h].names[n]

\* What a step of Decrement changes.
LEMMA DecrementEffect ==
  ASSUME Base, ConnectionsFit, NEW t \in Actors, NEW q \in Process, q = proc[t], Decrement(t),
         NEW g, g = q.conn
  PROVE  /\ q.pc = "decrement" /\ g \in Connections /\ connectionsMutex = None
         /\ SameTables /\ SameRoot /\ SameShown /\ heard' = heard /\ services' = services
         /\ promised' = promised /\ owner' = owner /\ tainted' = tainted
         /\ servicesMutex' = servicesMutex /\ SameHomes /\ handling' = handling
         /\ \/ servicesMutex # t /\ SameHolder
            \/ Keeps(t, q)
         /\ \/ /\ current # g /\ SameUsers
               /\ Becomes(t, q.after, q.adapter, q.address, g, q.after)
            \/ /\ current = g /\ current' = g /\ connectionsMutex' = None
               /\ conn[g].active > 1 /\ ActiveAt(g, conn[g].active - 1)
               /\ Becomes(t, q.after, q.adapter, q.address, g, q.after)
            \/ /\ Closes(g) /\ connectionsMutex' = t /\ conn[g].active <= 1
               /\ Becomes(t, "close", q.adapter, q.address, g, q.after)
<1>0. TypeOK
  BY DEF Base
<1>1. /\ q.pc = "decrement" /\ connectionsMutex = None
      /\ manager' = manager /\ heard' = heard /\ services' = services
      /\ promised' = promised /\ owner' = owner /\ tainted' = tainted
      /\ servicesMutex' = servicesMutex /\ SameHomes /\ handling' = handling
  BY DEF Decrement, busVars, SameHomes
<1>2. g \in Connections /\ conn[g] \in Connection /\ conn[g].active \in Int
  <2>1. g \in Connections
    BY <1>0, <1>1, Typed DEF Base, Shapes, Shape
  <2> QED
    BY <2>1, <1>0, Typed
<1>3. SameTables /\ SameRoot /\ SameShown
  BY <1>1, TablesStay, AllShown
<1>4. ASSUME NEW pc, Becomes(t, pc, q.adapter, q.address, g, q.after)
      PROVE  (servicesMutex # t /\ SameHolder) \/ Keeps(t, q)
  <2>1. CASE servicesMutex = t
    BY <1>0, <1>1, <1>4, <2>1, Held
  <2>2. CASE servicesMutex # t
    BY <1>0, <1>1, <1>4, <2>2, HolderWaits DEF Becomes
  <2> QED
    BY <2>1, <2>2
<1>5. ASSUME NEW pc, Move(t, pc)
      PROVE  Becomes(t, pc, q.adapter, q.address, g, q.after)
  BY <1>0, <1>5, MovesTo
<1>6. CASE current # g
  <2>1. SameUsers /\ Move(t, q.after)
    BY <1>1, <1>6 DEF Decrement, SameUsers, Move
  <2>2. Becomes(t, q.after, q.adapter, q.address, g, q.after)
    BY <1>5, <2>1
  <2> QED
    BY <1>1, <1>2, <1>3, <1>4, <1>6, <2>1, <2>2
<1>7. CASE current = g
  <2> DEFINE last == conn[g].active <= 1
             i == conn[g].active - 1
             f == IF last THEN [n \in Names |-> 0] ELSE conn[g].names
  <2>1. /\ conn' = [conn EXCEPT ![g] =
             [conn[g] EXCEPT !.active = i, !.closing = last, !.names = f]]
        /\ current' = IF last THEN 0 ELSE g
        /\ connectionsMutex' = IF last THEN t ELSE None
        /\ Move(t, IF last THEN "close" ELSE q.after)
    BY <1>7 DEF Decrement, Move
  <2>2. i \in Int /\ last \in BOOLEAN /\ f \in [Names -> Nat]
    BY <1>0, <1>2, Typed
  <2>3. \A n \in Names : f[n] = IF last THEN 0 ELSE conn[g].names[n]
    OBVIOUS
  <2> HIDE DEF i, last, f
  <2>4. /\ conn'[g].active = i /\ conn'[g].closing = last /\ conn'[g].names = f
        /\ conn'[g].open = conn[g].open /\ conn'[g].closer = conn[g].closer
        /\ conn'[g].paths = conn[g].paths
        /\ \A h \in Connections \ {g} : conn'[h] = conn[h]
    <3>1. conn'[g] = [conn[g] EXCEPT !.active = i, !.closing = last, !.names = f]
          /\ \A h \in Connections \ {g} : conn'[h] = conn[h]
      BY <1>0, <1>2, <2>1 DEF TypeOK
    <3> QED
      BY <1>2, <2>2, <3>1 DEF Connection
  <2>5. ~conn[g].closing
    BY <1>2, <1>7, Numbered DEF ConnectionsFit
  <2>6. CASE last
    <3>1. Closes(g)
      <4>1. /\ \A n \in Names : conn'[g].names[n] = 0
            /\ conn'[g].active = conn[g].active - 1
        BY <2>3, <2>4, <2>6 DEF i
      <4>2. conn'[g].closing = TRUE
        BY <2>2, <2>4, <2>6
      <4>3. current' = 0
        BY <2>1, <2>6
      <4> QED
        BY <1>7, <2>4, <4>1, <4>2, <4>3 DEF Closes
    <3>2. Becomes(t, "close", q.adapter, q.address, g, q.after)
      BY <1>5, <2>1, <2>6
    <3>3. conn[g].active <= 1
      BY <2>6 DEF last
    <3> QED
      BY <1>1, <1>2, <1>3, <1>4, <2>1, <2>6, <3>1, <3>2, <3>3
  <2>7. CASE ~last
    <3>1. ActiveAt(g, conn[g].active - 1)
      <4>1. /\ \A n \in Names : conn'[g].names[n] = conn[g].names[n]
            /\ conn'[g].active = conn[g].active - 1
        BY <2>3, <2>4, <2>7 DEF i
      <4>2. conn'[g].closing = conn[g].closing
        <5>1. conn'[g].closing = FALSE
          BY <2>2, <2>4, <2>7
        <5>2. conn[g].closing = FALSE
          BY <1>0, <1>2, <2>5, Typed
        <5> QED
          BY <5>1, <5>2
      <4> QED
        BY <2>4, <4>1, <4>2 DEF ActiveAt
    <3>2. Becomes(t, q.after, q.adapter, q.address, g, q.after)
      BY <1>5, <2>1, <2>7
    <3>3. conn[g].active > 1
      BY <1>2, <2>7 DEF last
    <3> QED
      BY <1>1, <1>2, <1>3, <1>4, <1>7, <2>1, <2>7, <3>1, <3>2, <3>3
  <2> QED
    BY <2>6, <2>7
<1> QED
  BY <1>6, <1>7

\* The connection is disconnected by thread t.
Shuts(g, t) ==
  /\ ~conn'[g].open /\ conn'[g].closer = t
  /\ \A h \in Connections \ {g} : conn'[h].open = conn[h].open /\ conn'[h].closer = conn[h].closer
  /\ \A h \in Connections :
       /\ conn'[h].active = conn[h].active /\ conn'[h].closing = conn[h].closing
       /\ conn'[h].names = conn[h].names /\ conn'[h].paths = conn[h].paths

\* What a step of Close changes.
LEMMA CloseEffect ==
  ASSUME Base, NEW t \in Actors, NEW q \in Process, q = proc[t], Close(t), NEW g, g = q.conn
  PROVE  /\ q.pc = "close" /\ g \in Connections /\ q.after = "drop"
         /\ t = DispatcherOf[g] \/ handling[g] = None
         /\ SameTables /\ SameRoot /\ services' = services
         /\ promised' = promised /\ tainted' = tainted /\ current' = current
         /\ servicesMutex' = servicesMutex /\ SameHomes /\ handling' = handling
         /\ SameHolder /\ connectionsMutex' = None
         /\ \A h \in Connections : heard'[h] = IF h = g THEN {} ELSE heard[h]
         /\ \A n \in Names : owner'[n] = IF owner[n] = g THEN 0 ELSE owner[n]
         /\ Shuts(g, t)
         /\ Becomes(t, "drop", q.adapter, q.address, g, "drop")
<1>0. TypeOK
  BY DEF Base
<1>1. /\ q.pc = "close" /\ q.after = "drop" /\ q.conn # 0
      /\ t = DispatcherOf[g] \/ handling[g] = None
      /\ manager' = manager /\ services' = services
      /\ promised' = promised /\ tainted' = tainted /\ current' = current
      /\ servicesMutex' = servicesMutex /\ SameHomes /\ handling' = handling
      /\ connectionsMutex' = None /\ Move(t, q.after)
  BY DEF Close, SameHomes, Base, Shapes, Shape, Move
<1>2. g \in Connections /\ conn[g] \in Connection
  <2>1. g \in Connections
    BY <1>0, <1>1, Typed
  <2> QED
    BY <2>1, <1>0, Typed
<1>3. SameTables /\ SameRoot
  BY <1>1, TablesStay
<1>4. Becomes(t, "drop", q.adapter, q.address, g, "drop")
  BY <1>0, <1>1, MovesTo
<1>5. SameHolder
  <2>1. servicesMutex # t
    BY <1>1, IdleThread
  <2> QED
    BY <1>0, <1>1, <1>4, <2>1, HolderWaits DEF Becomes
<1>6. /\ \A h \in Connections : heard'[h] = IF h = g THEN {} ELSE heard[h]
      /\ \A n \in Names : owner'[n] = IF owner[n] = g THEN 0 ELSE owner[n]
  BY <1>0 DEF Close, TypeOK
<1>7. /\ conn'[g] = [conn[g] EXCEPT !.open = FALSE, !.closer = t]
      /\ \A h \in Connections \ {g} : conn'[h] = conn[h]
  BY <1>0, <1>2 DEF Close, TypeOK
<1>8. Shuts(g, t)
  <2>1. /\ ~conn'[g].open /\ conn'[g].closer = t
        /\ conn'[g].active = conn[g].active /\ conn'[g].closing = conn[g].closing
        /\ conn'[g].names = conn[g].names /\ conn'[g].paths = conn[g].paths
    BY <1>2, <1>7 DEF Connection
  <2> QED
    BY <1>7, <2>1 DEF Shuts
<1> QED
  BY <1>1, <1>2, <1>3, <1>4, <1>5, <1>6, <1>8

\* What the other threads see of a step of thread t.
Frame(t) ==
  /\ \A u \in Actors \ {t} : proc'[u] = proc[u]
  /\ \A a \in Adapters : home[a] # 0 => home'[a] = home[a]
  /\ \A g \in Connections : conn[g].closing => conn'[g].closing
  /\ \A u \in Actors \ {t} : Locked(proc[u]) => SameTables /\ services' = services
  /\ \A h \in Connections, y \in Addresses : \A a \in Tab(h, y)' :
       a \in Tab(h, y) \/ (a = proc[t].adapter /\ proc[t].pc \in {"enter", "enlist"})

-----------------------------------------------------------------------------
(* What the step of a thread leaves alone for the others.                  *)

\* Only one thread is on a line that holds servicesMutex_.
LEMMA OneHolder ==
  ASSUME TypeOK, MutexHeld, NEW t \in Actors, NEW q, Keeps(t, q) \/ Unlocks(t, q) \/ Takes(t, q)
  PROVE  \A u \in Actors \ {t} : ~Locked(proc[u])
  BY ServicesAssumption DEF MutexHeld, Keeps, Unlocks, Takes

\* The effect of every step of registerStubAdapter, unregisterStub and their
\* rollbacks, for the frame.
LEMMA FrameHeld ==
  ASSUME Base, NEW t \in Actors, NEW q \in Process, q = proc[t], Still,
         NEW pc, NEW a, NEW x, NEW g, NEW after, Becomes(t, pc, a, x, g, after),
         Keeps(t, q) \/ Unlocks(t, q) \/ Takes(t, q),
         \A h \in Connections : conn'[h].closing = conn[h].closing,
         NEW k \in Connections \cup {0}, NEW b,
         \/ SameTables \/ LeavesAt(k, b)
         \/ EntersAt(k, b) /\ b = q.adapter /\ q.pc \in {"enter", "enlist"}
  PROVE  Frame(t)
<1>1. \A u \in Actors \ {t} : ~Locked(proc[u])
  BY OneHolder DEF Base
<1>2. \A h \in Connections, y \in Addresses : \A c \in Tab(h, y)' :
       c \in Tab(h, y) \/ (c = proc[t].adapter /\ proc[t].pc \in {"enter", "enlist"})
  BY DEF SameTables, LeavesAt, EntersAt
<1> QED
  BY <1>1, <1>2 DEF Frame, Becomes, Still

\* A quiet step leaves alone what the other threads know.
LEMMA FrameQuiet ==
  ASSUME NEW t \in Actors, SameTables, services' = services,
         \A u \in Actors \ {t} : proc'[u] = proc[u],
         \A a \in Adapters : home[a] # 0 => home'[a] = home[a],
         \A h \in Connections : conn[h].closing => conn'[h].closing
  PROVE  Frame(t)
  BY DEF Frame, SameTables

\* So does every step of an operation.
LEMMA FrameContinue ==
  ASSUME Base, ConnectionsFit, NEW t \in Actors, Continue(t)
  PROVE  Frame(t)
<1>0. TypeOK
  BY DEF Base
<1> PICK q \in Process : q = proc[t]
  BY <1>0, Typed
<1> PICK x : x = q.address
  OBVIOUS
<1> PICK b : b = services[x]
  OBVIOUS
<1> PICK g : g = home[b]
  OBVIOUS
<1> PICK c : c = q.conn
  OBVIOUS
<1>k. 0 \in Connections \cup {0}
  OBVIOUS
<1>1. CASE Insert(t)
  <2>1. /\ Still /\ (Keeps(t, q) \/ Unlocks(t, q) \/ Takes(t, q))
        /\ SameTables /\ \A h \in Connections : conn'[h].closing = conn[h].closing
        /\ \E pc, k, after : Becomes(t, pc, q.adapter, q.address, k, after)
    BY <1>1, InsertEffect DEF ConnAt, ActiveAt, Takes, AtWork
  <2> QED
    BY <1>k, <2>1, FrameHeld
<1>2. CASE ExportStub(t)
  <2>1. /\ Still /\ (Keeps(t, q) \/ Unlocks(t, q) \/ Takes(t, q))
        /\ SameTables /\ \A h \in Connections : conn'[h].closing = conn[h].closing
        /\ \E pc, k, after : Becomes(t, pc, q.adapter, q.address, k, after)
    BY <1>2, ExportStubEffect DEF ConnAt, ActiveAt, Takes, AtWork
  <2> QED
    BY <1>k, <2>1, FrameHeld
<1>3. CASE RequestName(t)
  <2>1. /\ Still /\ (Keeps(t, q) \/ Unlocks(t, q) \/ Takes(t, q))
        /\ SameTables /\ \A h \in Connections : conn'[h].closing = conn[h].closing
        /\ \E pc, k, after : Becomes(t, pc, q.adapter, q.address, k, after)
    BY <1>3, RequestNameEffect DEF ConnAt, ActiveAt, Takes, AtWork
  <2> QED
    BY <1>k, <2>1, FrameHeld
<1>4. CASE CountManaged(t)
  <2>1. /\ Still /\ (Keeps(t, q) \/ Unlocks(t, q) \/ Takes(t, q))
        /\ SameTables /\ \A h \in Connections : conn'[h].closing = conn[h].closing
        /\ \E pc, k, after : Becomes(t, pc, q.adapter, q.address, k, after)
    BY <1>4, CountManagedEffect DEF ConnAt, ActiveAt, Takes, AtWork
  <2> QED
    BY <1>k, <2>1, FrameHeld
<1>5. CASE RollbackExport(t)
  <2>1. /\ Still /\ (Keeps(t, q) \/ Unlocks(t, q) \/ Takes(t, q))
        /\ SameTables /\ \A h \in Connections : conn'[h].closing = conn[h].closing
        /\ \E pc, k, after : Becomes(t, pc, q.adapter, q.address, k, after)
    BY <1>5, RollbackExportEffect DEF ConnAt, ActiveAt, Takes, AtWork
  <2> QED
    BY <1>k, <2>1, FrameHeld
<1>6. CASE Erase(t)
  <2>1. /\ Still /\ (Keeps(t, q) \/ Unlocks(t, q) \/ Takes(t, q))
        /\ SameTables /\ \A h \in Connections : conn'[h].closing = conn[h].closing
        /\ \E pc, k, after : Becomes(t, pc, q.adapter, q.address, k, after)
    BY <1>6, EraseEffect DEF ConnAt, ActiveAt, Takes, AtWork
  <2> QED
    BY <1>k, <2>1, FrameHeld
<1>7. CASE Return(t)
  <2>1. /\ Still /\ (Keeps(t, q) \/ Unlocks(t, q) \/ Takes(t, q))
        /\ SameTables /\ \A h \in Connections : conn'[h].closing = conn[h].closing
        /\ \E pc, k, after : Becomes(t, pc, q.adapter, q.address, k, after)
    BY <1>7, ReturnEffect DEF ConnAt, ActiveAt, Takes, AtWork
  <2> QED
    BY <1>k, <2>1, FrameHeld
<1>8. CASE Forget(t)
  <2>1. /\ Still /\ (Keeps(t, q) \/ Unlocks(t, q) \/ Takes(t, q))
        /\ SameTables /\ \A h \in Connections : conn'[h].closing = conn[h].closing
        /\ \E pc, k, after : Becomes(t, pc, q.adapter, q.address, k, after)
    BY <1>8, ForgetEffect DEF ConnAt, ActiveAt, Takes, AtWork
  <2> QED
    BY <1>k, <2>1, FrameHeld
<1>9. CASE Enter(t)
  <2>1. /\ Still /\ (Keeps(t, q) \/ Unlocks(t, q) \/ Takes(t, q))
        /\ EntersAt(q.conn, q.adapter)
             /\ \A h \in Connections : conn'[h].closing = conn[h].closing
        /\ \E pc, k, after : Becomes(t, pc, q.adapter, q.address, k, after)
        /\ q.pc = "enter" /\ q.conn \in Connections \cup {0}
    BY <1>9, EnterEffect, WorkingThread DEF ConnAt, ActiveAt, Takes, AtWork
  <2> QED
    BY <1>k, <2>1, FrameHeld
<1>10. CASE Withdraw(t)
  <2>1. /\ Still /\ (Keeps(t, q) \/ Unlocks(t, q) \/ Takes(t, q))
        /\ LeavesAt(q.conn, q.adapter)
             /\ \A h \in Connections : conn'[h].closing = conn[h].closing
        /\ \E pc, k, after : Becomes(t, pc, q.adapter, q.address, k, after)
        /\ q.conn \in Connections \cup {0}
    BY <1>10, WithdrawEffect DEF ConnAt, ActiveAt, Takes, AtWork
  <2> QED
    BY <1>k, <2>1, FrameHeld
<1>11. CASE Retract(t)
  <2>1. Still /\ (Keeps(t, q) \/ Unlocks(t, q))
          /\ \A h \in Connections : conn'[h].closing = conn[h].closing
    BY <1>11, RetractEffect DEF ConnAt
  <2>2. \E pc, k, after : Becomes(t, pc, q.adapter, x, k, after)
    BY <1>11, RetractEffect
  <2>3. SameTables \/ (g \in Connections /\ LeavesAt(g, b))
    BY <1>11, RetractEffect
  <2> QED
    BY <1>k, <2>1, <2>2, <2>3, FrameHeld
<1>12. CASE Release(t)
  <2>1. /\ Still /\ Keeps(t, q) /\ SameTables
        /\ \A h \in Connections : conn'[h].closing = conn[h].closing
        /\ \E pc, after : Becomes(t, pc, q.adapter, x, c, after)
    BY <1>12, ReleaseEffect DEF ConnAt
  <2> QED
    BY <1>k, <2>1, FrameHeld
<1>13. CASE Leave(t)
  <2>1. Still /\ \A h \in Connections : conn'[h].closing = conn[h].closing
    BY <1>13, LeaveEffect DEF ConnAt
  <2>2. \/ /\ SameTables /\ services' = services /\ \A u \in Actors \ {t} : proc'[u] = proc[u]
        \/ /\ Takes(t, q) /\ g \in Connections /\ LeavesAt(g, b)
           /\ \E pc, after : Becomes(t, pc, b, x, g, after)
    <3>1. \A u \in Actors \ {t} : Becomes(t, "idle", None, None, 0, "drop") => proc'[u] = proc[u]
      BY DEF Becomes
    <3> QED
      BY <1>13, <3>1, LeaveEffect
  <2> QED
    BY <1>k, <2>1, <2>2, FrameHeld, FrameQuiet DEF Still
<1>14. CASE Enlist(t)
  <2>1. /\ Still /\ \A h \in Connections : conn'[h].closing = conn[h].closing
        /\ q.pc = "enlist" /\ q.conn \in Connections
    BY <1>14, EnlistEffect DEF ConnAt
  <2>2. \/ /\ SameTables /\ services' = services /\ \A u \in Actors \ {t} : proc'[u] = proc[u]
        \/ /\ Takes(t, q) /\ EntersAt(q.conn, q.adapter)
           /\ Becomes(t, "request", q.adapter, q.address, q.conn, q.after)
    BY <1>14, EnlistEffect DEF Becomes
  <2> QED
    BY <1>k, <2>1, <2>2, FrameHeld, FrameQuiet DEF Still
<1>15. CASE Unlist(t)
  <2>1. /\ Still /\ Takes(t, q) /\ SameTables /\ conn' = conn
        /\ Becomes(t, "retract", q.adapter, x, q.conn, q.after)
    BY <1>15, UnlistEffect
  <2> QED
    BY <1>k, <2>1, FrameHeld
<1>16. CASE Decrement(t)
  <2>1. /\ SameTables /\ services' = services /\ SameHomes
        /\ \A h \in Connections : conn[h].closing => conn'[h].closing
        /\ \E pc : Becomes(t, pc, q.adapter, q.address, c, q.after)
    BY <1>16, DecrementEffect DEF SameUsers, ActiveAt, Closes
  <2> QED
    BY <2>1, FrameQuiet DEF Becomes, SameHomes
<1>17. CASE Close(t)
  <2>1. /\ SameTables /\ services' = services /\ SameHomes
        /\ \A h \in Connections : conn[h].closing => conn'[h].closing
        /\ Becomes(t, "drop", q.adapter, q.address, c, "drop")
    BY <1>17, CloseEffect DEF Shuts
  <2> QED
    BY <2>1, FrameQuiet DEF Becomes, SameHomes
<1>18. CASE Drop(t)
  <2>1. /\ Quiet /\ SameUsers /\ SameHomes
        /\ \E pc, y : Becomes(t, pc, None, y, 0, "drop")
    BY <1>18, DropEffect
  <2> QED
    BY <2>1, FrameQuiet DEF Becomes, SameHomes, SameUsers, Quiet
<1> QED
  BY <1>1, <1>2, <1>3, <1>4, <1>5, <1>6, <1>7, <1>8, <1>9, <1>10, <1>11, <1>12, <1>13, <1>14,
     <1>15, <1>16, <1>17, <1>18 DEF Continue

\* So does the beginning of one.
LEMMA FrameBegin ==
  ASSUME Base, NEW t \in Actors, Begin(t)
  PROVE  Frame(t)
<1>1. ASSUME NEW a \in Adapters, RegisterStub(t, a) PROVE Frame(t)
  <2>1. /\ Quiet /\ home[a] = 0
        /\ \A b \in Adapters \ {a} : home'[b] = home[b]
        /\ \E g \in Connections : Opens(g) /\ Becomes(t, "insert", a, AddressOf[a], g, "return")
    BY <1>1, RegisterStubEffect
  <2>2. /\ SameTables /\ services' = services
        /\ \A u \in Actors \ {t} : proc'[u] = proc[u]
        /\ \A h \in Connections : conn[h].closing => conn'[h].closing
    BY <2>1 DEF Quiet, Opens, Becomes
  <2>3. \A b \in Adapters : home[b] # 0 => home'[b] = home[b]
    BY <2>1
  <2> QED
    BY <2>2, <2>3, FrameQuiet
<1>2. ASSUME NEW a \in Adapters, NEW b \in Adapters, RegisterManaged(t, a, b) PROVE Frame(t)
  BY <1>2, RegisterManagedEffect, FrameQuiet DEF Quiet, SameUsers, Becomes
<1>3. ASSUME NEW p \in Paths, NEW a \in Adapters, ExportManaged(t, p, a) PROVE Frame(t)
  BY <1>3, ExportManagedEffect, FrameQuiet DEF Quiet, SameUsers, SameHomes
<1>4. ASSUME NEW p \in Paths, NEW a \in Adapters, UnexportManaged(t, p, a) PROVE Frame(t)
  BY <1>4, UnexportManagedEffect, FrameQuiet DEF Quiet, SameUsers, SameHomes, Becomes
<1>5. ASSUME NEW x \in Addresses, UnregisterStub(t, x) PROVE Frame(t)
  BY <1>5, UnregisterStubEffect, FrameQuiet DEF Quiet, SameUsers, SameHomes, Becomes
<1>6. ASSUME NEW a \in Adapters, UnregisterManaged(t, a) PROVE Frame(t)
  BY <1>6, UnregisterManagedEffect, FrameQuiet DEF Quiet, SameUsers, SameHomes, Becomes
<1>7. ASSUME NEW g \in Connections, CreateProxy(t, g) PROVE Frame(t)
  BY <1>7, CreateProxyEffect, FrameQuiet DEF Quiet, Opens
<1>8. ASSUME NEW g \in Connections, DestroyProxy(t, g) PROVE Frame(t)
  BY <1>8, DestroyProxyEffect, FrameQuiet DEF Quiet, SameUsers, Becomes
<1> QED
  BY <1>1, <1>2, <1>3, <1>4, <1>5, <1>6, <1>7, <1>8 DEF Begin

\* Threads, addresses and adapters are finitely many.
LEMMA Finite ==
  /\ IsFiniteSet(Actors) /\ IsFiniteSet(Addresses) /\ IsFiniteSet(Adapters)
<1>1. IsFiniteSet(Dispatchers)
  <2>1. DispatcherOf \in Surjection(Connections, Dispatchers)
    BY ServicesAssumption DEF Surjection, Dispatchers
  <2> QED
    BY <2>1, FS_Surjection, ServicesAssumption
<1> QED
  BY <1>1, FS_Union, ServicesAssumption DEF Actors

\* So are the users of a connection.
LEMMA SetsFinite ==
  ASSUME NEW g
  PROVE  /\ IsFiniteSet(Entries(g)) /\ Cardinality(Entries(g)) \in Nat
         /\ IsFiniteSet(Takers(g)) /\ Cardinality(Takers(g)) \in Nat
         /\ IsFiniteSet(Leftover(g)) /\ Cardinality(Leftover(g)) \in Nat
         /\ Spare(g) \in Nat /\ (Owing(g) => Spare(g) = 1)
<1>1. Entries(g) \subseteq Addresses /\ Takers(g) \subseteq Actors
        /\ Leftover(g) \subseteq Adapters
  BY DEF Entries, Takers, Leftover
<1>2. /\ IsFiniteSet(Entries(g)) /\ IsFiniteSet(Takers(g)) /\ IsFiniteSet(Leftover(g))
  BY <1>1, Finite, FS_Subset
<1> QED
  BY <1>2, FS_CardinalityType DEF Spare

\* A finite set with an element counts at least one.
LEMMA NotEmpty ==
  ASSUME NEW S, IsFiniteSet(S), NEW e \in S
  PROVE  Cardinality(S) \in Nat /\ Cardinality(S) >= 1
<1>1. Cardinality(S) \in Nat /\ (Cardinality(S) = 0 <=> S = {})
  BY FS_CardinalityType, FS_EmptySet
<1> QED
  BY <1>1

\* The thread that holds servicesMutex is never the last user of a connection.
LEMMA NeverLast ==
  ASSUME Base, ConnectionsFit, UsersCounted, NEW t \in Actors, servicesMutex = t,
         NEW q \in Process, q = proc[t], q.pc = "decrement", NEW g \in Connections, g = q.conn,
         current = g
  PROVE  conn[g].active > 1
<1>0. TypeOK /\ t # None
  BY ServicesAssumption DEF Base
<1> DEFINE x == q.address
<1>1. /\ q.after # "drop" /\ x \in Addresses /\ q.adapter \in Adapters \ Managed
      /\ services[x] = None
  BY ServicesAssumption DEF Base, MutexHeld, Locked, LockedLines, Shapes, Shape
<1>2. ~conn[g].closing
  BY Numbered DEF ConnectionsFit
<1>3. conn[g].active >= proxies[g] + Cardinality(Entries(g)) + Cardinality(Takers(g))
                            + Cardinality(Leftover(g)) + Spare(g)
  BY <1>2 DEF UsersCounted
<1>4. Cardinality(Takers(g)) >= 1
  <2>1. t \in Takers(g)
    BY DEF Takers
  <2> QED
    BY <2>1, SetsFinite, NotEmpty
<1>5. Holder(x) = q /\ Line(x) = "decrement"
  BY <1>0, <1>1 DEF Holder, Line, Stage
<1>6. Cardinality(Leftover(g)) + Spare(g) >= 1
  <2>1. CASE Tab(g, x) = {}
    <3>1. Owing(g)
      BY <1>1, <1>5, <2>1 DEF Owing
    <3> QED
      BY <3>1, SetsFinite
  <2>2. CASE Tab(g, x) # {}
    <3>1. PICK a : a \in Tab(g, x)
      BY <2>2
    <3>2. /\ a \in Adapters /\ AddressOf[a] = x /\ home[a] = g /\ a \notin Managed
          /\ services[x] # a
      BY <1>0, <1>1, <3>1, Typed, ServicesAssumption DEF Base, Placed
    <3>3. a \in Leftover(g)
      BY <3>1, <3>2 DEF Leftover
    <3>4. Cardinality(Leftover(g)) >= 1
      BY <3>3, SetsFinite, NotEmpty
    <3> QED
      BY <3>4, SetsFinite
  <2> QED
    BY <2>1, <2>2
<1>7. /\ proxies[g] \in Nat /\ conn[g].active \in Int
  BY <1>0, Typed
<1> QED
  BY <1>3, <1>4, <1>6, <1>7, SetsFinite

-----------------------------------------------------------------------------
(* The mutexes.                                                            *)

\* A step of one thread that keeps, takes or lets go servicesMutex_.
LEMMA MutexMoves ==
  ASSUME TypeOK, MutexHeld, NEW t \in Actors, \A u \in Actors \ {t} : proc'[u] = proc[u],
         NEW q,
         \/ (Keeps(t, q) \/ Takes(t, q)) /\ Locked(proc[t])'
         \/ Unlocks(t, q) /\ ~Locked(proc[t])'
         \/ servicesMutex # t /\ servicesMutex' = servicesMutex /\ ~Locked(proc[t])'
  PROVE  MutexHeld'
<1>1. t # None /\ None \notin Actors
  BY ServicesAssumption
<1>2. \A u \in Actors \ {t} : Locked(proc[u])' <=> Locked(proc[u])
  BY DEF Locked
<1> QED
  BY <1>1, <1>2 DEF MutexHeld, Keeps, Takes, Unlocks

\* A thread that goes on with its operation keeps MutexHeld.
LEMMA MutexContinue ==
  ASSUME Base, ConnectionsFit, UsersCounted, NEW t \in Actors, Continue(t), Frame(t)
  PROVE  MutexHeld'
<1>0. TypeOK /\ MutexHeld /\ \A u \in Actors \ {t} : proc'[u] = proc[u]
  BY DEF Base, Frame
<1> PICK q \in Process : q = proc[t]
  BY <1>0, Typed
<1> PICK x : x = q.address
  OBVIOUS
<1> PICK b : b = services[x]
  OBVIOUS
<1> PICK g : g = home[b]
  OBVIOUS
<1> PICK c : c = q.conn
  OBVIOUS
<1>a. servicesMutex # t \/ Locked(q)
  BY <1>0 DEF MutexHeld
<1>1. CASE Insert(t)
  BY <1>0, <1>1, InsertEffect, MutexMoves DEF Becomes, Locked, LockedLines, Takes
<1>2. CASE ExportStub(t)
  BY <1>0, <1>2, ExportStubEffect, MutexMoves DEF Becomes, Locked, LockedLines
<1>3. CASE Enter(t)
  BY <1>0, <1>3, EnterEffect, MutexMoves DEF Becomes, Locked, LockedLines
<1>4. CASE RequestName(t)
  BY <1>0, <1>4, RequestNameEffect, MutexMoves DEF Becomes, Locked, LockedLines
<1>5. CASE CountManaged(t)
  BY <1>0, <1>5, CountManagedEffect, MutexMoves DEF Becomes, Locked, LockedLines
<1>6. CASE RollbackExport(t)
  BY <1>0, <1>6, RollbackExportEffect, MutexMoves DEF Becomes, Locked, LockedLines
<1>7. CASE Withdraw(t)
  BY <1>0, <1>7, WithdrawEffect, MutexMoves DEF Becomes, Locked, LockedLines
<1>8. CASE Erase(t)
  BY <1>0, <1>8, EraseEffect, MutexMoves DEF Becomes, Locked, LockedLines
<1>9. CASE Return(t)
  BY <1>0, <1>9, ReturnEffect, MutexMoves DEF Becomes, Locked, LockedLines
<1>10. CASE Forget(t)
  <2>1. q.after = "drop"
    BY <1>10, ForgetEffect DEF Base, Shapes, Shape
  <2> QED
    BY <1>0, <1>10, <2>1, ForgetEffect, MutexMoves DEF Becomes, Locked, LockedLines
<1>11. CASE Retract(t)
  <2>1. q.after \in {"drop", "return", "erase"}
    BY DEF Process
  <2> QED
    BY <1>0, <1>11, <2>1, RetractEffect, MutexMoves DEF Becomes, Locked, LockedLines
<1>12. CASE Release(t)
  BY <1>0, <1>12, ReleaseEffect, MutexMoves DEF Becomes, Locked, LockedLines
<1>13. CASE Leave(t)
  <2>1. servicesMutex # t
    BY <1>13, LeaveEffect, ServicesAssumption
  <2> QED
    BY <1>0, <1>13, <2>1, LeaveEffect, MutexMoves DEF Becomes, Locked, LockedLines
<1>14. CASE Enlist(t)
  <2>1. servicesMutex # t
    BY <1>14, EnlistEffect, ServicesAssumption
  <2> QED
    BY <1>0, <1>14, <2>1, EnlistEffect, MutexMoves DEF Becomes, Locked, LockedLines
<1>15. CASE Unlist(t)
  BY <1>0, <1>15, UnlistEffect, MutexMoves DEF Becomes, Locked, LockedLines
<1>16. CASE Decrement(t)
  <2>1. q.after \in {"drop", "return", "erase"}
    BY DEF Process
  <2>2. CASE servicesMutex = t
    <3>1. Keeps(t, q) /\ q.after # "drop" /\ c \in Connections /\ q.pc = "decrement"
      BY <1>16, <1>a, <2>2, DecrementEffect DEF Locked, LockedLines
    <3>2. current = c => conn[c].active > 1
      BY <2>2, <3>1, NeverLast
    <3>3. Becomes(t, q.after, q.adapter, q.address, c, q.after)
      <4>1. Closes(c) => current = c
        BY DEF Closes
      <4>2. conn[c].active \in Int
        BY <1>0, <3>1, Typed
      <4> QED
        BY <1>16, <3>2, <4>1, <4>2, DecrementEffect
    <3> QED
      BY <1>0, <2>1, <3>1, <3>3, MutexMoves DEF Becomes, Locked, LockedLines
  <2>3. CASE servicesMutex # t
    <3>1. q.after = "drop" /\ servicesMutex' = servicesMutex
      BY <1>0, <1>16, <2>1, <2>3, DecrementEffect DEF Locked, LockedLines, MutexHeld
    <3>2. \E pc \in {"drop", "close"} : Becomes(t, pc, q.adapter, q.address, c, "drop")
      BY <1>16, <3>1, DecrementEffect
    <3> QED
      BY <1>0, <2>3, <3>1, <3>2, MutexMoves DEF Becomes, Locked, LockedLines
  <2> QED
    BY <2>2, <2>3
<1>17. CASE Close(t)
  <2>1. q.pc = "close" /\ servicesMutex' = servicesMutex
          /\ Becomes(t, "drop", q.adapter, q.address, c, "drop")
    BY <1>17, CloseEffect
  <2> QED
    BY <1>0, <2>1, IdleThread, MutexMoves DEF Becomes, Locked, LockedLines
<1>18. CASE Drop(t)
  <2>1. q.pc = "drop" /\ servicesMutex' = servicesMutex
        /\ \E pc \in {"idle", "destroy"} : \E y : Becomes(t, pc, None, y, 0, "drop")
    BY <1>18, DropEffect DEF Quiet
  <2> QED
    BY <1>0, <2>1, IdleThread, MutexMoves DEF Becomes, Locked, LockedLines
<1> QED
  BY <1>1, <1>2, <1>3, <1>4, <1>5, <1>6, <1>7, <1>8, <1>9, <1>10, <1>11, <1>12, <1>13, <1>14,
     <1>15, <1>16, <1>17, <1>18 DEF Continue

\* A thread that begins an operation does not hold servicesMutex_.
LEMMA MutexStays ==
  ASSUME Base, NEW t \in Actors, Quiet, \A u \in Actors \ {t} : proc'[u] = proc[u],
         proc[t].pc = "idle", ~Locked(proc[t])'
  PROVE  MutexHeld'
<1>1. servicesMutex # t
  BY IdleThread
<1> QED
  BY <1>1, MutexMoves DEF Base, Quiet

\* A thread that begins an operation keeps MutexHeld.
LEMMA MutexBegin ==
  ASSUME Base, NEW t \in Actors, Begin(t)
  PROVE  MutexHeld'
<1>0. MutexHeld
  BY DEF Base
<1>9. ASSUME proc' = proc, Quiet PROVE MutexHeld'
  BY <1>0, <1>9 DEF MutexHeld, Quiet, Locked
<1>1. ASSUME NEW a \in Adapters, RegisterStub(t, a) PROVE MutexHeld'
  BY <1>1, RegisterStubEffect, MutexStays DEF Becomes, Locked, LockedLines, Idle
<1>2. ASSUME NEW a \in Adapters, NEW b \in Adapters, RegisterManaged(t, a, b) PROVE MutexHeld'
  BY <1>2, RegisterManagedEffect, MutexStays DEF Becomes, Locked, LockedLines, Idle
<1>3. ASSUME NEW p \in Paths, NEW a \in Adapters, ExportManaged(t, p, a) PROVE MutexHeld'
  BY <1>3, ExportManagedEffect, <1>9 DEF Becomes, Locked, LockedLines, Idle
<1>4. ASSUME NEW p \in Paths, NEW a \in Adapters, UnexportManaged(t, p, a) PROVE MutexHeld'
  BY <1>4, UnexportManagedEffect, MutexStays DEF Becomes, Locked, LockedLines, Idle
<1>5. ASSUME NEW x \in Addresses, UnregisterStub(t, x) PROVE MutexHeld'
  BY <1>5, UnregisterStubEffect, MutexStays DEF Becomes, Locked, LockedLines, Idle
<1>6. ASSUME NEW a \in Adapters, UnregisterManaged(t, a) PROVE MutexHeld'
  BY <1>6, UnregisterManagedEffect, MutexStays DEF Becomes, Locked, LockedLines, Idle
<1>7. ASSUME NEW g \in Connections, CreateProxy(t, g) PROVE MutexHeld'
  BY <1>7, CreateProxyEffect, <1>9 DEF Becomes, Locked, LockedLines, Idle
<1>8. ASSUME NEW g \in Connections, DestroyProxy(t, g) PROVE MutexHeld'
  BY <1>8, DestroyProxyEffect, MutexStays DEF Becomes, Locked, LockedLines, Idle
<1> QED
  BY <1>1, <1>2, <1>3, <1>4, <1>5, <1>6, <1>7, <1>8 DEF Begin

\* A call that begins or ends in a dispatch thread keeps MutexHeld.
LEMMA MutexDispatch ==
  ASSUME Base
  PROVE  /\ \A g \in Connections, x \in Addresses : Receive(g, x) => MutexHeld'
         /\ \A g \in Connections : Reply(g) => MutexHeld'
<1>1. ASSUME NEW g \in Connections, NEW x \in Addresses, Receive(g, x) PROVE MutexHeld'
  BY <1>1, ReceiveEffect DEF MutexHeld, Quiet, Locked, Base
<1>2. ASSUME NEW g \in Connections, Reply(g) PROVE MutexHeld'
  BY <1>2, ReplyEffect, MutexStays DEF Becomes, Locked, LockedLines, Idle
<1> QED
  BY <1>1, <1>2

\* A step of a thread that does not disconnect.
LEMMA DisconnectMoves ==
  ASSUME DisconnectHeld, NEW t \in Actors, \A u \in Actors \ {t} : proc'[u] = proc[u],
         connectionsMutex' = connectionsMutex, proc[t].pc # "close", proc'[t].pc # "close",
         current' = current \/ connectionsMutex = None
  PROVE  DisconnectHeld'
  BY DEF DisconnectHeld

\* A thread that begins an operation keeps DisconnectHeld.
LEMMA DisconnectBegin ==
  ASSUME Base, DisconnectHeld, NEW t \in Actors, Begin(t)
  PROVE  DisconnectHeld'
<1>9. ASSUME proc' = proc, connectionsMutex' = connectionsMutex,
             current' = current \/ connectionsMutex = None
      PROVE DisconnectHeld'
  BY <1>9 DEF DisconnectHeld
<1>1. ASSUME NEW a \in Adapters, RegisterStub(t, a) PROVE DisconnectHeld'
  <2>1. PICK g \in Connections : Opens(g) /\ Becomes(t, "insert", a, AddressOf[a], g, "return")
    BY <1>1, RegisterStubEffect
  <2>2. connectionsMutex' = connectionsMutex /\ proc[t].pc # "close"
    BY <1>1, RegisterStubEffect DEF Idle
  <2>3. proc'[t].pc # "close" /\ \A u \in Actors \ {t} : proc'[u] = proc[u]
    BY <2>1 DEF Becomes
  <2>4. connectionsMutex = None
    BY <2>1 DEF Opens
  <2> QED
    BY <2>2, <2>3, <2>4, DisconnectMoves
<1>2. ASSUME NEW a \in Adapters, NEW b \in Adapters, RegisterManaged(t, a, b)
      PROVE  DisconnectHeld'
  BY <1>2, RegisterManagedEffect, DisconnectMoves DEF Becomes, Idle, SameUsers, Opens
<1>3. ASSUME NEW p \in Paths, NEW a \in Adapters, ExportManaged(t, p, a) PROVE DisconnectHeld'
  BY <1>3, ExportManagedEffect, <1>9 DEF Becomes, Idle, SameUsers, Opens
<1>4. ASSUME NEW p \in Paths, NEW a \in Adapters, UnexportManaged(t, p, a) PROVE DisconnectHeld'
  BY <1>4, UnexportManagedEffect, DisconnectMoves DEF Becomes, Idle, SameUsers, Opens
<1>5. ASSUME NEW x \in Addresses, UnregisterStub(t, x) PROVE DisconnectHeld'
  BY <1>5, UnregisterStubEffect, DisconnectMoves DEF Becomes, Idle, SameUsers, Opens
<1>6. ASSUME NEW a \in Adapters, UnregisterManaged(t, a) PROVE DisconnectHeld'
  BY <1>6, UnregisterManagedEffect, DisconnectMoves DEF Becomes, Idle, SameUsers, Opens
<1>7. ASSUME NEW g \in Connections, CreateProxy(t, g) PROVE DisconnectHeld'
  BY <1>7, CreateProxyEffect, <1>9 DEF Becomes, Idle, SameUsers, Opens
<1>8. ASSUME NEW g \in Connections, DestroyProxy(t, g) PROVE DisconnectHeld'
  BY <1>8, DestroyProxyEffect, DisconnectMoves DEF Becomes, Idle, SameUsers, Opens
<1> QED
  BY <1>1, <1>2, <1>3, <1>4, <1>5, <1>6, <1>7, <1>8 DEF Begin

\* A call that begins or ends in a dispatch thread keeps DisconnectHeld.
LEMMA DisconnectDispatch ==
  ASSUME Base, DisconnectHeld
  PROVE  /\ \A g \in Connections, x \in Addresses : Receive(g, x) => DisconnectHeld'
         /\ \A g \in Connections : Reply(g) => DisconnectHeld'
<1>1. ASSUME NEW g \in Connections, NEW x \in Addresses, Receive(g, x) PROVE DisconnectHeld'
  BY <1>1, ReceiveEffect DEF DisconnectHeld, SameUsers
<1>2. ASSUME NEW g \in Connections, Reply(g) PROVE DisconnectHeld'
  BY <1>2, ReplyEffect, DisconnectMoves DEF Becomes, Idle, SameUsers
<1> QED
  BY <1>1, <1>2

\* A thread that goes on with its operation keeps DisconnectHeld.
LEMMA DisconnectContinue ==
  ASSUME Base, ConnectionsFit, DisconnectHeld, NEW t \in Actors, Continue(t), Frame(t)
  PROVE  DisconnectHeld'
<1>0. TypeOK /\ \A u \in Actors \ {t} : proc'[u] = proc[u]
  BY DEF Base, Frame
<1> PICK q \in Process : q = proc[t]
  BY <1>0, Typed
<1> PICK x : x = q.address
  OBVIOUS
<1> PICK b : b = services[x]
  OBVIOUS
<1> PICK g : g = home[b]
  OBVIOUS
<1> PICK c : c = q.conn
  OBVIOUS
<1>a. q.after # "close"
  BY DEF Process
<1>b. ASSUME Still, q.pc # "close", proc'[t].pc # "close" PROVE DisconnectHeld'
  BY <1>0, <1>b, DisconnectMoves DEF Still
<1>1. CASE Insert(t)
  BY <1>a, <1>b, <1>1, InsertEffect DEF Becomes
<1>2. CASE ExportStub(t)
  BY <1>a, <1>b, <1>2, ExportStubEffect DEF Becomes
<1>3. CASE Enter(t)
  BY <1>a, <1>b, <1>3, EnterEffect DEF Becomes
<1>4. CASE RequestName(t)
  BY <1>a, <1>b, <1>4, RequestNameEffect DEF Becomes
<1>5. CASE CountManaged(t)
  BY <1>a, <1>b, <1>5, CountManagedEffect DEF Becomes
<1>6. CASE RollbackExport(t)
  BY <1>a, <1>b, <1>6, RollbackExportEffect DEF Becomes
<1>7. CASE Withdraw(t)
  BY <1>a, <1>b, <1>7, WithdrawEffect DEF Becomes
<1>8. CASE Erase(t)
  BY <1>a, <1>b, <1>8, EraseEffect DEF Becomes
<1>9. CASE Return(t)
  BY <1>a, <1>b, <1>9, ReturnEffect DEF Becomes
<1>10. CASE Forget(t)
  BY <1>a, <1>b, <1>10, ForgetEffect DEF Becomes
<1>11. CASE Retract(t)
  BY <1>a, <1>b, <1>11, RetractEffect DEF Becomes
<1>12. CASE Release(t)
  BY <1>a, <1>b, <1>12, ReleaseEffect DEF Becomes
<1>13. CASE Leave(t)
  BY <1>a, <1>b, <1>13, LeaveEffect DEF Becomes
<1>14. CASE Enlist(t)
  BY <1>a, <1>b, <1>14, EnlistEffect DEF Becomes
<1>15. CASE Unlist(t)
  BY <1>a, <1>b, <1>15, UnlistEffect DEF Becomes
<1>16. CASE Decrement(t)
  <2>1. t # None /\ q.pc = "decrement" /\ connectionsMutex = None
    BY <1>16, DecrementEffect, ServicesAssumption
  <2>2. \/ proc'[t].pc # "close" /\ connectionsMutex' = None
        \/ proc'[t].pc = "close" /\ connectionsMutex' = t /\ current' = 0
    BY <1>16, <1>a, <2>1, DecrementEffect DEF Becomes, SameUsers, Closes
  <2> QED
    BY <1>0, <2>1, <2>2, ServicesAssumption DEF DisconnectHeld
<1>17. CASE Close(t)
  <2>1. q.pc = "close" /\ connectionsMutex' = None /\ proc'[t].pc = "drop" /\ current' = current
    BY <1>17, CloseEffect DEF Becomes
  <2> QED
    BY <1>0, <2>1, ServicesAssumption DEF DisconnectHeld
<1>18. CASE Drop(t)
  <2>1. q.pc = "drop" /\ SameUsers /\ proc'[t].pc # "close"
    BY <1>18, DropEffect DEF Becomes
  <2> QED
    BY <1>0, <2>1, DisconnectMoves DEF SameUsers
<1> QED
  BY <1>1, <1>2, <1>3, <1>4, <1>5, <1>6, <1>7, <1>8, <1>9, <1>10, <1>11, <1>12, <1>13, <1>14,
     <1>15, <1>16, <1>17, <1>18 DEF Continue

-----------------------------------------------------------------------------
(* Shapes: what threads know.                                              *)

\* Shapes, by thread.
ShapeOf(t) == Shape(proc[t])

\* What another thread knows stays true.
LEMMA ShapeStays ==
  ASSUME Base, NEW u \in Actors, proc'[u] = proc[u],
         \A a \in Adapters : home[a] # 0 => home'[a] = home[a],
         \A g \in Connections : conn[g].closing => conn'[g].closing,
         Locked(proc[u]) => services' = services
  PROVE  ShapeOf(u)'
<1>1. ShapeOf(u) /\ TypeOK
  BY DEF Base, Shapes, ShapeOf
<1> PICK q \in Process : q = proc[u]
  BY <1>1, Typed
<1>2. /\ proc'[u] = q
      /\ \A a \in Adapters : home[a] # 0 => home'[a] = home[a]
      /\ \A g \in Connections : conn[g].closing => conn'[g].closing
      /\ Locked(q) => services' = services
  OBVIOUS
<1>3. q.conn # 0 => q.conn \in Connections
  BY DEF Process
<1>4. Shape(q)
  BY <1>1 DEF ShapeOf
<1>5. Shape(q)'
  BY <1>2, <1>3, <1>4 DEF Shape, Building, Locked, LockedLines
<1> QED
  BY <1>2, <1>5 DEF ShapeOf, Shape

\* Shapes is kept if it is for the thread of the step.
LEMMA ShapesKept ==
  ASSUME Base, NEW t \in Actors, Frame(t), ShapeOf(t)'
  PROVE  Shapes'
<1>1. ASSUME NEW u \in Actors \ {t} PROVE ShapeOf(u)'
  BY ShapeStays DEF Frame
<1> QED
  BY <1>1 DEF Shapes, ShapeOf

\* A thread that goes on with its operation keeps Shapes.
LEMMA ShapesContinue ==
  ASSUME Base, ConnectionsFit, UsersCounted, NEW t \in Actors, Continue(t), Frame(t)
  PROVE  Shapes'
<1>0. TypeOK /\ ShapeOf(t)
  BY DEF Base, Shapes, ShapeOf
<1> PICK q \in Process : q = proc[t]
  BY <1>0, Typed
<1> PICK x : x = q.address
  OBVIOUS
<1> PICK b : b = services[x]
  OBVIOUS
<1> PICK g : g = home[b]
  OBVIOUS
<1> PICK c : c = q.conn
  OBVIOUS
<1>a. Shape(q)
  BY <1>0 DEF ShapeOf
<1>b. q.after \in {"drop", "return", "erase"}
  BY DEF Process
<1>1. CASE Insert(t)
  <2>1. Shape(proc[t])'
    BY <1>1, <1>a, InsertEffect DEF Becomes, Still, Shape, AtWork, Building
  <2> QED
    BY <2>1, ShapesKept DEF ShapeOf
<1>2. CASE ExportStub(t)
  <2>1. Shape(proc[t])'
    BY <1>2, <1>a, ExportStubEffect DEF Becomes, Still, Shape, AtWork, Building
  <2> QED
    BY <2>1, ShapesKept DEF ShapeOf
<1>3. CASE Enter(t)
  <2>1. Shape(proc[t])'
    BY <1>3, <1>a, EnterEffect DEF Becomes, Still, Shape, AtWork, Building
  <2> QED
    BY <2>1, ShapesKept DEF ShapeOf
<1>4. CASE RequestName(t)
  <2>1. Shape(proc[t])'
    BY <1>4, <1>a, RequestNameEffect DEF Becomes, Still, Shape, AtWork, Building
  <2> QED
    BY <2>1, ShapesKept DEF ShapeOf
<1>5. CASE CountManaged(t)
  <2>1. Shape(proc[t])'
    BY <1>5, <1>a, CountManagedEffect DEF Becomes, Still, Shape, AtWork, Building
  <2> QED
    BY <2>1, ShapesKept DEF ShapeOf
<1>6. CASE RollbackExport(t)
  <2>1. Shape(proc[t])'
    BY <1>6, <1>a, RollbackExportEffect DEF Becomes, Still, Shape, AtWork, Building
  <2> QED
    BY <2>1, ShapesKept DEF ShapeOf
<1>7. CASE Withdraw(t)
  <2>1. Shape(proc[t])'
    BY <1>7, <1>a, WithdrawEffect DEF Becomes, Still, Shape, AtWork, Building
  <2> QED
    BY <2>1, ShapesKept DEF ShapeOf
<1>8. CASE Erase(t)
  <2>1. Shape(proc[t])'
    BY <1>8, <1>a, EraseEffect DEF Becomes, Still, Shape, AtWork, Building
  <2> QED
    BY <2>1, ShapesKept DEF ShapeOf
<1>9. CASE Return(t)
  <2>1. Shape(proc[t])'
    BY <1>9, <1>a, ReturnEffect DEF Becomes, Still, Shape, AtWork, Building
  <2> QED
    BY <2>1, ShapesKept DEF ShapeOf
<1>10. CASE Forget(t)
  <2>1. Shape(proc[t])'
    BY <1>10, <1>a, ForgetEffect DEF Becomes, Still, Shape, AtWork, Building
  <2> QED
    BY <2>1, ShapesKept DEF ShapeOf
<1>11. CASE Retract(t)
  <2>1. Shape(proc[t])'
    <3>1. g \in Connections => g # 0
      BY Numbered
    <3>2. CASE proc'[t].pc = "decrement"
      <4>1. q.pc = "retract" /\ AtWork(q) /\ home' = home
        BY <1>11, RetractEffect DEF Still
      <4>2. \/ /\ b # None /\ g \in Connections /\ services'[x] = None
               /\ Becomes(t, "decrement", q.adapter, x, g, q.after)
            \/ Becomes(t, IF q.after = "drop" THEN "return" ELSE q.after, q.adapter, x,
                          q.conn, q.after)
        BY <1>11, RetractEffect
      <4>3. /\ g \in Connections /\ services'[x] = None
            /\ Becomes(t, "decrement", q.adapter, x, g, q.after)
        BY <1>b, <3>2, <4>2 DEF Becomes
      <4> QED
        BY <1>a, <3>1, <4>1, <4>3 DEF Becomes, Shape, AtWork, Building
    <3>3. CASE proc'[t].pc # "decrement"
      BY <1>11, <1>a, <1>b, <3>3, RetractEffect DEF Becomes, Still, Shape, AtWork, Building
    <3> QED
      BY <3>2, <3>3
  <2> QED
    BY <2>1, ShapesKept DEF ShapeOf
<1>12. CASE Release(t)
  <2>1. Shape(proc[t])'
    BY <1>12, <1>a, ReleaseEffect DEF Becomes, Still, Shape, AtWork, Building
  <2> QED
    BY <2>1, ShapesKept DEF ShapeOf
<1>13. CASE Leave(t)
  <2>1. Shape(proc[t])'
    <3>1. CASE b = None
      <4>1. Becomes(t, "idle", None, None, 0, "drop")
        BY <1>13, <3>1, LeaveEffect
      <4> QED
        BY <4>1 DEF Becomes, Shape, Building
    <3>2. CASE b # None
      <4>1. x \in Addresses
        BY <1>13, LeaveEffect
      <4>2. b \in Adapters /\ AddressOf[b] = x /\ home[b] # 0
        BY <4>1, <3>2, Registered, Numbered
      <4>3. home' = home /\ services' = services
        BY <1>13, LeaveEffect DEF Still
      <4>4. Becomes(t, "release", b, x, g, "drop") \/ Becomes(t, "return", b, x, g, "drop")
        BY <1>13, <3>2, LeaveEffect
      <4> QED
        BY <4>1, <4>2, <4>3, <4>4 DEF Becomes, Shape, Building
    <3> QED
      BY <3>1, <3>2
  <2> QED
    BY <2>1, ShapesKept DEF ShapeOf
<1>14. CASE Enlist(t)
  <2>1. Shape(proc[t])'
    BY <1>14, <1>a, EnlistEffect DEF Becomes, Still, Shape, AtWork, Building
  <2> QED
    BY <2>1, ShapesKept DEF ShapeOf
<1>15. CASE Unlist(t)
  <2>1. Shape(proc[t])'
    BY <1>15, <1>a, UnlistEffect DEF Becomes, Still, Shape, AtWork, Building
  <2> QED
    BY <2>1, ShapesKept DEF ShapeOf
<1>16. CASE Decrement(t)
  <2>1. Shape(proc[t])'
    <3>1. /\ q.pc = "decrement" /\ c \in Connections /\ services' = services /\ home' = home
          /\ c # 0
      BY <1>16, DecrementEffect, Numbered DEF SameHomes
    <3>2. CASE Becomes(t, q.after, q.adapter, q.address, c, q.after)
      BY <1>a, <1>b, <3>1, <3>2, ServicesAssumption DEF Becomes, Shape, Building
    <3>3. CASE Closes(c) /\ conn[c].active <= 1
                 /\ Becomes(t, "close", q.adapter, q.address, c, q.after)
      <4>1. conn[c].active \in Int
        BY <1>0, <3>1, Typed
      <4>2. servicesMutex # t
        BY <3>1, <3>3, <4>1, NeverLast DEF Closes
      <4>3. q.after = "drop"
        BY <1>0, <3>1, <4>2 DEF Base, MutexHeld, Locked
      <4>4. conn'[c].closing
        BY <3>1, <3>3 DEF Closes
      <4> QED
        BY <3>1, <3>3, <4>3, <4>4 DEF Becomes, Shape, Building
    <3> QED
      BY <1>16, <3>2, <3>3, DecrementEffect
  <2> QED
    BY <2>1, ShapesKept DEF ShapeOf
<1>17. CASE Close(t)
  <2>1. Shape(proc[t])'
    BY <1>17, <1>a, CloseEffect DEF Becomes, Still, Shape, AtWork, Building
  <2> QED
    BY <2>1, ShapesKept DEF ShapeOf
<1>18. CASE Drop(t)
  <2>1. Shape(proc[t])'
    BY <1>18, <1>a, DropEffect DEF Becomes, Still, Shape, AtWork, Building
  <2> QED
    BY <2>1, ShapesKept DEF ShapeOf
<1> QED
  BY <1>1, <1>2, <1>3, <1>4, <1>5, <1>6, <1>7, <1>8, <1>9, <1>10, <1>11, <1>12, <1>13, <1>14,
     <1>15, <1>16, <1>17, <1>18 DEF Continue

\* A thread that begins an operation keeps Shapes.
LEMMA ShapesBegin ==
  ASSUME Base, NEW t \in Actors, Begin(t), Frame(t)
  PROVE  Shapes'
<1>9. ASSUME proc' = proc, services' = services PROVE Shapes'
  <2>1. ShapeOf(t)'
    BY <1>9, ShapeStays DEF Frame
  <2> QED
    BY <2>1, ShapesKept
<1>1. ASSUME NEW a \in Adapters, RegisterStub(t, a) PROVE Shapes'
  <2>1. PICK g \in Connections :
          /\ \A b \in Adapters : home'[b] = IF b = a THEN g ELSE home[b]
          /\ Becomes(t, "insert", a, AddressOf[a], g, "return")
    BY <1>1, RegisterStubEffect
  <2>2. a \notin Managed
    BY <1>1, RegisterStubEffect
  <2>3. ShapeOf(t)'
    BY <2>1, <2>2, Numbered DEF Becomes, ShapeOf, Shape, Building
  <2> QED
    BY <2>3, ShapesKept
<1>2. ASSUME NEW a \in Adapters, NEW b \in Adapters, RegisterManaged(t, a, b) PROVE Shapes'
  <2>1. ShapeOf(t)'
    BY <1>2, RegisterManagedEffect, Numbered DEF Becomes, ShapeOf, Shape, Building
  <2> QED
    BY <2>1, ShapesKept
<1>3. ASSUME NEW p \in Paths, NEW a \in Adapters, ExportManaged(t, p, a) PROVE Shapes'
  BY <1>3, <1>9, ExportManagedEffect DEF Quiet
<1>4. ASSUME NEW p \in Paths, NEW a \in Adapters, UnexportManaged(t, p, a) PROVE Shapes'
  <2>1. ShapeOf(t)'
    BY <1>4, UnexportManagedEffect, Numbered DEF Becomes, ShapeOf, Shape, Building
  <2> QED
    BY <2>1, ShapesKept
<1>5. ASSUME NEW x \in Addresses, UnregisterStub(t, x) PROVE Shapes'
  <2>1. ShapeOf(t)'
    BY <1>5, UnregisterStubEffect, Numbered DEF Becomes, ShapeOf, Shape, Building
  <2> QED
    BY <2>1, ShapesKept
<1>6. ASSUME NEW a \in Adapters, UnregisterManaged(t, a) PROVE Shapes'
  <2>1. home[a] # 0 /\ home' = home
    BY <1>6, UnregisterManagedEffect DEF Base, Placed, SameHomes
  <2>2. ShapeOf(t)'
    BY <1>6, UnregisterManagedEffect, <2>1 DEF Becomes, ShapeOf, Shape, Building
  <2> QED
    BY <2>2, ShapesKept
<1>7. ASSUME NEW g \in Connections, CreateProxy(t, g) PROVE Shapes'
  BY <1>7, <1>9, CreateProxyEffect DEF Quiet
<1>8. ASSUME NEW g \in Connections, DestroyProxy(t, g) PROVE Shapes'
  <2>1. ShapeOf(t)'
    BY <1>8, DestroyProxyEffect, Numbered DEF Becomes, ShapeOf, Shape, Building
  <2> QED
    BY <2>1, ShapesKept
<1> QED
  BY <1>1, <1>2, <1>3, <1>4, <1>5, <1>6, <1>7, <1>8 DEF Begin

\* A call that begins or ends in a dispatch thread keeps Shapes.
LEMMA ShapesDispatch ==
  ASSUME Base
  PROVE  /\ \A g \in Connections, x \in Addresses : Receive(g, x) => Shapes'
         /\ \A g \in Connections : Reply(g) => Shapes'
<1>1. ASSUME NEW g \in Connections, NEW x \in Addresses, Receive(g, x) PROVE Shapes'
  <2>1. ASSUME NEW u \in Actors PROVE ShapeOf(u)'
    BY <1>1, ReceiveEffect, ShapeStays DEF SameUsers, SameHomes, Quiet
  <2> QED
    BY <2>1 DEF Shapes, ShapeOf
<1>2. ASSUME NEW g \in Connections, Reply(g) PROVE Shapes'
  <2> DEFINE t == DispatcherOf[g]
  <2>1. Becomes(t, "drop", handling[g], None, 0, "drop") /\ t \in Actors
    BY <1>2, ReplyEffect
  <2> HIDE DEF t
  <2>2. ShapeOf(t)'
    BY <2>1 DEF Becomes, ShapeOf, Shape, Building
  <2>3. ASSUME NEW u \in Actors \ {t} PROVE ShapeOf(u)'
    BY <1>2, <2>1, ReplyEffect, ShapeStays DEF SameUsers, SameHomes, Quiet, Becomes
  <2> QED
    BY <2>2, <2>3 DEF Shapes, ShapeOf
<1> QED
  BY <1>1, <1>2

-----------------------------------------------------------------------------
(* Placed: adapters are in their own tables only.                          *)

\* Placed is kept by a step at one address.
LEMMA PlacedKept ==
  ASSUME Base, NEW x \in Addresses, home' = home,
         \A y \in Addresses \ {x} : services'[y] = services[y],
         \A h \in Connections :
           conn'[h].open = conn[h].open /\ conn'[h].closing = conn[h].closing,
         services'[x] # None => AddressOf[services'[x]] = x /\ home[services'[x]] # 0,
         \A a \in promised' : home[a] # 0,
         NEW k, NEW b,
         \/ SameTables \/ LeavesAt(k, b)
         \/ EntersAt(k, b) /\ AddressOf[b] = x /\ home[b] = k,
         \A h \in Connections : \A a \in Tab(h, x)' \cap Managed : services'[x] = a
  PROVE  Placed'
<1>0. Placed /\ TypeOK
  BY DEF Base
<1>1. \A y \in Addresses : services'[y] # None =>
        AddressOf[services'[y]] = y /\ home'[services'[y]] # 0
  BY <1>0 DEF Placed
<1>2. \A a \in Adapters : home'[a] # 0 => conn'[home'[a]].open \/ conn'[home'[a]].closing
  <2>1. \A a \in Adapters : home[a] # 0 => home[a] \in Connections
    BY <1>0, Typed
  <2> QED
    BY <1>0, <2>1 DEF Placed
<1>3. ASSUME NEW g \in Connections, NEW y \in Addresses PROVE IsInjective(manager'[g].table[y])
  <2>1. IsInjective(manager[g].table[y])
    BY <1>0 DEF Placed
  <2> QED
    BY <2>1 DEF SameTables, LeavesAt, EntersAt
<1>4. ASSUME NEW g \in Connections, NEW y \in Addresses, NEW a \in Tab(g, y)'
      PROVE  AddressOf[a] = y /\ home'[a] = g /\ (a \in Managed => services'[y] = a)
  <2>1. a \in Tab(g, y) \/ (a = b /\ y = x /\ g = k /\ AddressOf[b] = x /\ home[b] = k)
    BY <1>4 DEF SameTables, LeavesAt, EntersAt
  <2>2. AddressOf[a] = y /\ home'[a] = g
    BY <1>0, <2>1 DEF Placed
  <2>3. CASE y = x
    BY <2>2, <2>3
  <2>4. CASE y # x
    BY <1>0, <2>1, <2>2, <2>4 DEF Placed
  <2> QED
    BY <2>2, <2>3, <2>4
<1> QED
  BY <1>1, <1>2, <1>3, <1>4 DEF Placed

\* Placed is kept by a step that leaves the tables alone.
LEMMA PlacedQuiet ==
  ASSUME Base, SameTables, services' = services, promised' = promised,
         \A a \in Adapters : home[a] # 0 => home'[a] = home[a],
         \A a \in Adapters : home'[a] # 0 => conn'[home'[a]].open \/ conn'[home'[a]].closing
  PROVE  Placed'
<1>0. Placed /\ promised \subseteq Adapters
  BY DEF Base, TypeOK
<1>1. \A y \in Addresses : services[y] # None => services[y] \in Adapters /\ home[services[y]] # 0
  BY Registered, Numbered
<1>2. \A y \in Addresses : services'[y] # None =>
        AddressOf[services'[y]] = y /\ home'[services'[y]] # 0
  BY <1>0, <1>1 DEF Placed
<1>3. \A a \in promised' : home'[a] # 0
  BY <1>0 DEF Placed
<1>4. \A g \in Connections, y \in Addresses : IsInjective(manager'[g].table[y])
  BY <1>0 DEF Placed, SameTables
<1>5. ASSUME NEW g \in Connections, NEW y \in Addresses, NEW a \in Tab(g, y)'
      PROVE  AddressOf[a] = y /\ home'[a] = g /\ (a \in Managed => services'[y] = a)
  <2>1. a \in Tab(g, y) /\ a \in Adapters
    BY <1>5, Typed DEF SameTables, Base
  <2>2. g # 0
    BY Numbered
  <2> QED
    BY <1>0, <2>1, <2>2 DEF Placed
<1> QED
  BY <1>2, <1>3, <1>4, <1>5 DEF Placed

\* A thread that begins an operation keeps Placed.
LEMMA PlacedBegin ==
  ASSUME Base, NEW t \in Actors, Begin(t), Frame(t)
  PROVE  Placed'
<1>0. TypeOK /\ Placed
  BY DEF Base
<1>h. \A a \in Adapters : home[a] # 0 =>
        home[a] \in Connections /\ (conn[home[a]].open \/ conn[home[a]].closing)
  BY <1>0, Typed DEF Placed
<1>9. ASSUME Quiet, SameUsers, home' = home PROVE Placed'
  BY <1>h, <1>9, PlacedQuiet DEF Quiet, SameUsers
<1>1. ASSUME NEW a \in Adapters, RegisterStub(t, a) PROVE Placed'
  <2>1. PICK g \in Connections :
          Opens(g) /\ \A b \in Adapters : home'[b] = IF b = a THEN g ELSE home[b]
    BY <1>1, RegisterStubEffect
  <2>2. Quiet /\ home[a] = 0
    BY <1>1, RegisterStubEffect
  <2>3. \A b \in Adapters : home'[b] # 0 => conn'[home'[b]].open \/ conn'[home'[b]].closing
    BY <1>h, <2>1 DEF Opens
  <2> QED
    BY <2>1, <2>2, <2>3, PlacedQuiet DEF Quiet
<1>2. ASSUME NEW a \in Adapters, NEW b \in Adapters, RegisterManaged(t, a, b) PROVE Placed'
  <2>1. /\ Quiet /\ conn' = conn /\ home[a] = 0 /\ home[b] \in Connections
        /\ \A c \in Adapters : home'[c] = IF c = a THEN home[b] ELSE home[c]
    BY <1>2, RegisterManagedEffect DEF SameUsers
  <2>2. \A c \in Adapters : home'[c] # 0 => conn'[home'[c]].open \/ conn'[home'[c]].closing
    BY <1>h, <2>1
  <2> QED
    BY <2>1, <2>2, PlacedQuiet DEF Quiet
<1>3. ASSUME NEW p \in Paths, NEW a \in Adapters, ExportManaged(t, p, a) PROVE Placed'
  BY <1>3, ExportManagedEffect, <1>9 DEF SameHomes
<1>4. ASSUME NEW p \in Paths, NEW a \in Adapters, UnexportManaged(t, p, a) PROVE Placed'
  BY <1>4, UnexportManagedEffect, <1>9 DEF SameHomes
<1>5. ASSUME NEW x \in Addresses, UnregisterStub(t, x) PROVE Placed'
  BY <1>5, UnregisterStubEffect, <1>9 DEF SameHomes
<1>6. ASSUME NEW a \in Adapters, UnregisterManaged(t, a) PROVE Placed'
  BY <1>6, UnregisterManagedEffect, <1>9 DEF SameHomes
<1>7. ASSUME NEW g \in Connections, CreateProxy(t, g) PROVE Placed'
  <2>1. Quiet /\ home' = home /\ Opens(g)
    BY <1>7, CreateProxyEffect
  <2>2. \A b \in Adapters : home'[b] # 0 => conn'[home'[b]].open \/ conn'[home'[b]].closing
    BY <1>h, <2>1 DEF Opens
  <2> QED
    BY <2>1, <2>2, PlacedQuiet DEF Quiet
<1>8. ASSUME NEW g \in Connections, DestroyProxy(t, g) PROVE Placed'
  BY <1>8, DestroyProxyEffect, <1>9 DEF SameHomes
<1> QED
  BY <1>1, <1>2, <1>3, <1>4, <1>5, <1>6, <1>7, <1>8 DEF Begin

\* A call that begins or ends in a dispatch thread keeps Placed.
LEMMA PlacedDispatch ==
  ASSUME Base
  PROVE  /\ \A g \in Connections, x \in Addresses : Receive(g, x) => Placed'
         /\ \A g \in Connections : Reply(g) => Placed'
<1>0. TypeOK /\ Placed
  BY DEF Base
<1>h. \A a \in Adapters : home[a] # 0 =>
        home[a] \in Connections /\ (conn[home[a]].open \/ conn[home[a]].closing)
  BY <1>0, Typed DEF Placed
<1>9. ASSUME Quiet, SameUsers, home' = home PROVE Placed'
  BY <1>h, <1>9, PlacedQuiet DEF Quiet, SameUsers
<1> QED
  BY <1>9, ReceiveEffect, ReplyEffect DEF SameHomes

\* A thread that goes on with its operation keeps Placed.
LEMMA PlacedContinue ==
  ASSUME Base, ConnectionsFit, Entering, NEW t \in Actors, Continue(t)
  PROVE  Placed'
<1>0. TypeOK /\ Placed /\ Shape(proc[t])
  BY DEF Base, Shapes
<1> PICK q \in Process : q = proc[t]
  BY <1>0, Typed
<1> PICK x : x = q.address
  OBVIOUS
<1> PICK b : b = services[x]
  OBVIOUS
<1> PICK g : g = home[b]
  OBVIOUS
<1> PICK c : c = q.conn
  OBVIOUS
<1>h. \A a \in Adapters : home[a] # 0 =>
        home[a] \in Connections /\ (conn[home[a]].open \/ conn[home[a]].closing)
  BY <1>0, Typed DEF Placed
<1>b. /\ q.pc \in {"insert", "export", "enter", "release", "leave"} => q.adapter \notin Tab(c, x)
      /\ q.pc = "erase" /\ services[x] # None =>
           services[x] \notin Tab(home[services[x]], x)
  BY DEF Entering
<1>1. CASE Insert(t)
  <2>1. /\ home' = home /\ x \in Addresses
        /\ \A y \in Addresses \ {x} : services'[y] = services[y]
        /\ \A h \in Connections :
             conn'[h].open = conn[h].open /\ conn'[h].closing = conn[h].closing
    BY <1>1, InsertEffect DEF Still, Others, Untouched, ConnAt, AtWork, ActiveAt
  <2>2. services'[x] # None => AddressOf[services'[x]] = x /\ home[services'[x]] # 0
    BY <1>0, <1>1, InsertEffect, <2>1, Numbered DEF Placed, AtWork
  <2>3. \A a \in promised' : home[a] # 0
    BY <1>0, <1>1, InsertEffect DEF Placed, AtWork
  <2>4. SameTables
    BY <1>1, InsertEffect DEF AtWork
  <2>5. ASSUME NEW h \in Connections, NEW a \in Tab(h, x)' \cap Managed PROVE services'[x] = a
    <3>1. services[x] = a /\ a # None
      BY <1>0, <1>1, InsertEffect, <2>1, <2>5, ServicesAssumption DEF Placed, SameTables
    <3> QED
      BY <1>1, InsertEffect, <3>1
  <2> QED
    BY <2>1, <2>2, <2>3, <2>4, <2>5, PlacedKept
<1>2. CASE ExportStub(t)
  <2>1. /\ home' = home /\ x \in Addresses
        /\ \A y \in Addresses \ {x} : services'[y] = services[y]
        /\ \A h \in Connections :
             conn'[h].open = conn[h].open /\ conn'[h].closing = conn[h].closing
    BY <1>2, ExportStubEffect DEF Still, Others, Untouched, ConnAt, AtWork, ActiveAt
  <2>2. services'[x] # None => AddressOf[services'[x]] = x /\ home[services'[x]] # 0
    BY <1>0, <1>2, ExportStubEffect, <2>1 DEF Placed, AtWork
  <2>3. \A a \in promised' : home[a] # 0
    BY <1>0, <1>2, ExportStubEffect DEF Placed, AtWork
  <2>4. SameTables
    BY <1>2, ExportStubEffect DEF AtWork
  <2>5. ASSUME NEW h \in Connections, NEW a \in Tab(h, x)' \cap Managed PROVE services'[x] = a
    BY <1>0, <1>2, ExportStubEffect, <2>1, <2>5 DEF Placed, SameTables
  <2> QED
    BY <2>1, <2>2, <2>3, <2>4, <2>5, PlacedKept
<1>3. CASE Enter(t)
  <2>1. /\ home' = home /\ x \in Addresses
        /\ \A y \in Addresses \ {x} : services'[y] = services[y]
        /\ \A h \in Connections :
             conn'[h].open = conn[h].open /\ conn'[h].closing = conn[h].closing
    BY <1>3, EnterEffect DEF Still, Others, Untouched, ConnAt, AtWork, ActiveAt
  <2>2. services'[x] # None => AddressOf[services'[x]] = x /\ home[services'[x]] # 0
    BY <1>0, <1>3, EnterEffect, <2>1 DEF Placed, AtWork
  <2>3. \A a \in promised' : home[a] # 0
    BY <1>0, <1>3, EnterEffect DEF Placed, AtWork
  <2>4. EntersAt(c, q.adapter) /\ AddressOf[q.adapter] = x /\ home[q.adapter] = c
    BY <1>3, EnterEffect DEF AtWork
  <2>5. ASSUME NEW h \in Connections, NEW a \in Tab(h, x)' \cap Managed PROVE services'[x] = a
    BY <1>0, <1>3, EnterEffect, <2>1, <2>5 DEF Placed, EntersAt
  <2> QED
    BY <2>1, <2>2, <2>3, <2>4, <2>5, PlacedKept
<1>4. CASE RequestName(t)
  <2>1. /\ home' = home /\ x \in Addresses
        /\ \A y \in Addresses \ {x} : services'[y] = services[y]
        /\ \A h \in Connections :
             conn'[h].open = conn[h].open /\ conn'[h].closing = conn[h].closing
    BY <1>4, RequestNameEffect DEF Still, Others, Untouched, ConnAt, AtWork, ActiveAt
  <2>2. services'[x] # None => AddressOf[services'[x]] = x /\ home[services'[x]] # 0
    BY <1>0, <1>4, RequestNameEffect, <2>1 DEF Placed, AtWork
  <2>3. \A a \in promised' : home[a] # 0
    BY <1>0, <1>4, RequestNameEffect, Numbered DEF Placed, AtWork
  <2>4. SameTables
    BY <1>4, RequestNameEffect DEF AtWork
  <2>5. ASSUME NEW h \in Connections, NEW a \in Tab(h, x)' \cap Managed PROVE services'[x] = a
    BY <1>0, <1>4, RequestNameEffect, <2>1, <2>5 DEF Placed, SameTables
  <2> QED
    BY <2>1, <2>2, <2>3, <2>4, <2>5, PlacedKept
<1>5. CASE CountManaged(t)
  <2>1. /\ home' = home /\ x \in Addresses
        /\ \A y \in Addresses \ {x} : services'[y] = services[y]
        /\ \A h \in Connections :
             conn'[h].open = conn[h].open /\ conn'[h].closing = conn[h].closing
    BY <1>5, CountManagedEffect DEF Still, Others, Untouched, ConnAt, AtWork, ActiveAt
  <2>2. services'[x] # None => AddressOf[services'[x]] = x /\ home[services'[x]] # 0
    BY <1>0, <1>5, CountManagedEffect, <2>1 DEF Placed, AtWork
  <2>3. \A a \in promised' : home[a] # 0
    BY <1>0, <1>5, CountManagedEffect, Numbered DEF Placed, AtWork
  <2>4. SameTables
    BY <1>5, CountManagedEffect DEF AtWork
  <2>5. ASSUME NEW h \in Connections, NEW a \in Tab(h, x)' \cap Managed PROVE services'[x] = a
    BY <1>0, <1>5, CountManagedEffect, <2>1, <2>5 DEF Placed, SameTables
  <2> QED
    BY <2>1, <2>2, <2>3, <2>4, <2>5, PlacedKept
<1>6. CASE RollbackExport(t)
  <2>1. /\ home' = home /\ x \in Addresses
        /\ \A y \in Addresses \ {x} : services'[y] = services[y]
        /\ \A h \in Connections :
             conn'[h].open = conn[h].open /\ conn'[h].closing = conn[h].closing
    BY <1>6, RollbackExportEffect DEF Still, Others, Untouched, ConnAt, AtWork, ActiveAt
  <2>2. services'[x] # None => AddressOf[services'[x]] = x /\ home[services'[x]] # 0
    BY <1>0, <1>6, RollbackExportEffect, <2>1 DEF Placed, AtWork
  <2>3. \A a \in promised' : home[a] # 0
    BY <1>0, <1>6, RollbackExportEffect DEF Placed, AtWork
  <2>4. SameTables
    BY <1>6, RollbackExportEffect DEF AtWork
  <2>5. ASSUME NEW h \in Connections, NEW a \in Tab(h, x)' \cap Managed PROVE services'[x] = a
    BY <1>0, <1>6, RollbackExportEffect, <2>1, <2>5 DEF Placed, SameTables
  <2> QED
    BY <2>1, <2>2, <2>3, <2>4, <2>5, PlacedKept
<1>7. CASE Withdraw(t)
  <2>1. /\ home' = home /\ x \in Addresses
        /\ \A y \in Addresses \ {x} : services'[y] = services[y]
        /\ \A h \in Connections :
             conn'[h].open = conn[h].open /\ conn'[h].closing = conn[h].closing
    BY <1>7, WithdrawEffect DEF Still, Others, Untouched, ConnAt, AtWork, ActiveAt
  <2>2. services'[x] # None => AddressOf[services'[x]] = x /\ home[services'[x]] # 0
    BY <1>0, <1>7, WithdrawEffect, <2>1 DEF Placed, AtWork
  <2>3. \A a \in promised' : home[a] # 0
    BY <1>0, <1>7, WithdrawEffect DEF Placed, AtWork
  <2>4. LeavesAt(c, q.adapter)
    BY <1>7, WithdrawEffect DEF AtWork
  <2>5. ASSUME NEW h \in Connections, NEW a \in Tab(h, x)' \cap Managed PROVE services'[x] = a
    BY <1>0, <1>7, WithdrawEffect, <2>1, <2>5 DEF Placed, LeavesAt
  <2> QED
    BY <2>1, <2>2, <2>3, <2>4, <2>5, PlacedKept
<1>8. CASE Erase(t)
  <2>1. /\ home' = home /\ x \in Addresses
        /\ \A y \in Addresses \ {x} : services'[y] = services[y]
        /\ \A h \in Connections :
             conn'[h].open = conn[h].open /\ conn'[h].closing = conn[h].closing
    BY <1>8, EraseEffect DEF Still, Others, Untouched, ConnAt, AtWork, ActiveAt
  <2>2. services'[x] # None => AddressOf[services'[x]] = x /\ home[services'[x]] # 0
    BY <1>0, <1>8, EraseEffect, <2>1 DEF Placed, AtWork
  <2>3. \A a \in promised' : home[a] # 0
    BY <1>0, <1>8, EraseEffect DEF Placed, AtWork
  <2>4. SameTables
    BY <1>8, EraseEffect DEF AtWork
  <2>5. ASSUME NEW h \in Connections, NEW a \in Tab(h, x)' \cap Managed PROVE services'[x] = a
    <3>1. services[x] = a /\ home[a] = h /\ a # None /\ a \in Tab(h, x)
      BY <1>0, <1>8, EraseEffect, <2>1, <2>5, ServicesAssumption DEF Placed, SameTables
    <3>2. q.pc = "erase"
      BY <1>8, EraseEffect
    <3> QED
      BY <1>b, <3>1, <3>2
  <2> QED
    BY <2>1, <2>2, <2>3, <2>4, <2>5, PlacedKept
<1>9. CASE Return(t)
  <2>1. /\ home' = home /\ x \in Addresses
        /\ \A y \in Addresses \ {x} : services'[y] = services[y]
        /\ \A h \in Connections :
             conn'[h].open = conn[h].open /\ conn'[h].closing = conn[h].closing
    BY <1>9, ReturnEffect DEF Still, Others, Untouched, ConnAt, AtWork, ActiveAt
  <2>2. services'[x] # None => AddressOf[services'[x]] = x /\ home[services'[x]] # 0
    BY <1>0, <1>9, ReturnEffect, <2>1 DEF Placed, AtWork
  <2>3. \A a \in promised' : home[a] # 0
    BY <1>0, <1>9, ReturnEffect DEF Placed, AtWork
  <2>4. SameTables
    BY <1>9, ReturnEffect DEF AtWork
  <2>5. ASSUME NEW h \in Connections, NEW a \in Tab(h, x)' \cap Managed PROVE services'[x] = a
    BY <1>0, <1>9, ReturnEffect, <2>1, <2>5 DEF Placed, SameTables
  <2> QED
    BY <2>1, <2>2, <2>3, <2>4, <2>5, PlacedKept
<1>10. CASE Forget(t)
  <2>1. /\ home' = home /\ x \in Addresses
        /\ \A y \in Addresses \ {x} : services'[y] = services[y]
        /\ \A h \in Connections :
             conn'[h].open = conn[h].open /\ conn'[h].closing = conn[h].closing
    BY <1>10, ForgetEffect DEF Still, Others, Untouched, ConnAt, AtWork, ActiveAt
  <2>2. services'[x] # None => AddressOf[services'[x]] = x /\ home[services'[x]] # 0
    BY <1>0, <1>10, ForgetEffect, <2>1 DEF Placed, AtWork
  <2>3. \A a \in promised' : home[a] # 0
    BY <1>0, <1>10, ForgetEffect DEF Placed, AtWork
  <2>4. SameTables
    BY <1>10, ForgetEffect DEF AtWork
  <2>5. ASSUME NEW h \in Connections, NEW a \in Tab(h, x)' \cap Managed PROVE services'[x] = a
    <3>1. services[x] = a /\ home[a] = h /\ a # None /\ a \in Tab(h, x)
      BY <1>0, <1>10, ForgetEffect, <2>1, <2>5, ServicesAssumption DEF Placed, SameTables
    <3>2. q.pc = "leave" /\ c = home[q.adapter]
      BY <1>10, ForgetEffect
    <3>3. services[x] = q.adapter
      BY <1>0, <3>2 DEF Shape
    <3> QED
      BY <1>b, <3>1, <3>2, <3>3
  <2> QED
    BY <2>1, <2>2, <2>3, <2>4, <2>5, PlacedKept
<1>11. CASE Retract(t)
  <2>1. /\ home' = home /\ x \in Addresses /\ promised' = promised
        /\ \A y \in Addresses \ {x} : services'[y] = services[y]
        /\ services'[x] \in {None, services[x]}
    BY <1>11, RetractEffect DEF Still, Others, Untouched, AtWork
  <2>2. \A h \in Connections : conn'[h].open = conn[h].open /\ conn'[h].closing = conn[h].closing
    BY <1>11, RetractEffect DEF ConnAt
  <2>3. services'[x] # None => AddressOf[services'[x]] = x /\ home[services'[x]] # 0
    BY <1>0, <2>1 DEF Placed
  <2>4. \A a \in promised' : home[a] # 0
    BY <1>0, <2>1 DEF Placed
  <2>5. SameTables \/ LeavesAt(g, b)
    BY <1>11, RetractEffect
  <2>6. ASSUME NEW h \in Connections, NEW a \in Tab(h, x)' \cap Managed PROVE services'[x] = a
    <3>1. a \in Tab(h, x)
      BY <2>1, <2>5, <2>6 DEF SameTables, LeavesAt
    <3>2. services[x] = a /\ home[a] = h /\ a # None /\ AddressOf[a] = x
      BY <1>0, <2>1, <2>6, <3>1, ServicesAssumption DEF Placed
    <3>3. services' = services \/ LeavesAt(g, b)
      BY <1>11, RetractEffect
    <3> QED
      BY <2>1, <2>6, <3>2, <3>3 DEF LeavesAt
  <2> QED
    BY <2>1, <2>2, <2>3, <2>4, <2>5, <2>6, PlacedKept
<1>12. CASE Release(t)
  <2>1. /\ home' = home /\ x \in Addresses
        /\ \A y \in Addresses \ {x} : services'[y] = services[y]
        /\ \A h \in Connections :
             conn'[h].open = conn[h].open /\ conn'[h].closing = conn[h].closing
    BY <1>12, ReleaseEffect DEF Still, Others, Untouched, ConnAt, AtWork, ActiveAt
  <2>2. services'[x] # None => AddressOf[services'[x]] = x /\ home[services'[x]] # 0
    BY <1>0, <1>12, ReleaseEffect, <2>1 DEF Placed, AtWork
  <2>3. \A a \in promised' : home[a] # 0
    BY <1>0, <1>12, ReleaseEffect DEF Placed, AtWork
  <2>4. SameTables
    BY <1>12, ReleaseEffect DEF AtWork
  <2>5. ASSUME NEW h \in Connections, NEW a \in Tab(h, x)' \cap Managed PROVE services'[x] = a
    BY <1>0, <1>12, ReleaseEffect, <2>1, <2>5 DEF Placed, SameTables
  <2> QED
    BY <2>1, <2>2, <2>3, <2>4, <2>5, PlacedKept
<1>13. CASE Leave(t)
  <2>1. /\ home' = home /\ x \in Addresses /\ promised' \subseteq promised
        /\ \A y \in Addresses \ {x} : services'[y] = services[y]
        /\ services' = services
    BY <1>13, LeaveEffect DEF Still, Others, Untouched, AtWork
  <2>2. \A h \in Connections : conn'[h].open = conn[h].open /\ conn'[h].closing = conn[h].closing
    BY <1>13, LeaveEffect DEF ConnAt
  <2>3. services'[x] # None => AddressOf[services'[x]] = x /\ home[services'[x]] # 0
    BY <1>0, <2>1 DEF Placed
  <2>4. \A a \in promised' : home[a] # 0
    BY <1>0, <2>1 DEF Placed
  <2>5. SameTables \/ LeavesAt(g, b)
    BY <1>13, LeaveEffect
  <2>6. ASSUME NEW h \in Connections, NEW a \in Tab(h, x)' \cap Managed PROVE services'[x] = a
    <3>1. a \in Tab(h, x)
      BY <2>1, <2>5, <2>6 DEF SameTables, LeavesAt
    <3>2. services[x] = a /\ home[a] = h /\ a # None /\ AddressOf[a] = x
      BY <1>0, <2>1, <2>6, <3>1, ServicesAssumption DEF Placed
    <3>3. services' = services \/ LeavesAt(g, b)
      BY <1>13, LeaveEffect
    <3> QED
      BY <2>1, <2>6, <3>2, <3>3 DEF LeavesAt
  <2> QED
    BY <2>1, <2>2, <2>3, <2>4, <2>5, <2>6, PlacedKept
<1>14. CASE Enlist(t)
  <2>1. /\ home' = home /\ x \in Addresses
        /\ \A y \in Addresses \ {x} : services'[y] = services[y]
        /\ \A h \in Connections :
             conn'[h].open = conn[h].open /\ conn'[h].closing = conn[h].closing
    BY <1>14, EnlistEffect DEF Still, Others, Untouched, ConnAt, AtWork, ActiveAt
  <2>2. services'[x] # None => AddressOf[services'[x]] = x /\ home[services'[x]] # 0
    BY <1>0, <1>14, EnlistEffect, <2>1, Numbered DEF Placed, AtWork
  <2>3. \A a \in promised' : home[a] # 0
    BY <1>0, <1>14, EnlistEffect DEF Placed, AtWork
  <2>4. SameTables \/ (EntersAt(c, q.adapter) /\ AddressOf[q.adapter] = x /\ home[q.adapter] = c)
    BY <1>14, EnlistEffect DEF AtWork
  <2>5. ASSUME NEW h \in Connections, NEW a \in Tab(h, x)' \cap Managed PROVE services'[x] = a
    <3>1. a \in Tab(h, x) => services[x] = a /\ a # None
      BY <1>0, <2>1, <2>5, ServicesAssumption DEF Placed
    <3>2. CASE services' = services /\ SameTables
      BY <2>1, <2>5, <3>1, <3>2 DEF SameTables
    <3>3. CASE services[x] = None /\ services'[x] = q.adapter /\ EntersAt(c, q.adapter)
      BY <2>1, <2>5, <3>1, <3>3 DEF EntersAt
    <3> QED
      BY <1>14, EnlistEffect, <3>2, <3>3
  <2> QED
    BY <2>1, <2>2, <2>3, <2>4, <2>5, PlacedKept
<1>15. CASE Unlist(t)
  <2>1. /\ home' = home /\ x \in Addresses
        /\ \A y \in Addresses \ {x} : services'[y] = services[y]
        /\ \A h \in Connections :
             conn'[h].open = conn[h].open /\ conn'[h].closing = conn[h].closing
    BY <1>15, UnlistEffect DEF Still, Others, Untouched, ConnAt, AtWork, ActiveAt
  <2>2. services'[x] # None => AddressOf[services'[x]] = x /\ home[services'[x]] # 0
    BY <1>0, <1>15, UnlistEffect, <2>1 DEF Placed, AtWork
  <2>3. \A a \in promised' : home[a] # 0
    BY <1>0, <1>15, UnlistEffect DEF Placed, AtWork
  <2>4. SameTables
    BY <1>15, UnlistEffect DEF AtWork
  <2>5. ASSUME NEW h \in Connections, NEW a \in Tab(h, x)' \cap Managed PROVE services'[x] = a
    BY <1>0, <1>15, UnlistEffect, <2>1, <2>5 DEF Placed, SameTables
  <2> QED
    BY <2>1, <2>2, <2>3, <2>4, <2>5, PlacedKept
<1>16. CASE Decrement(t)
  <2>1. /\ SameTables /\ services' = services /\ promised' = promised /\ home' = home
    BY <1>16, DecrementEffect DEF SameHomes
  <2>2. \A h \in Connections :
          conn'[h].open = conn[h].open /\ (conn[h].closing => conn'[h].closing)
    BY <1>16, DecrementEffect DEF SameUsers, ActiveAt, Closes
  <2>3. \A a \in Adapters : home'[a] # 0 => conn'[home'[a]].open \/ conn'[home'[a]].closing
    BY <1>h, <2>1, <2>2
  <2> QED
    BY <2>1, <2>3, PlacedQuiet
<1>17. CASE Close(t)
  <2>1. /\ SameTables /\ services' = services /\ promised' = promised /\ home' = home
    BY <1>17, CloseEffect DEF SameHomes
  <2>2. conn[c].closing
    BY <1>0, <1>17, CloseEffect DEF Shape
  <2>3. \A h \in Connections : /\ h # c => conn'[h].open = conn[h].open
                               /\ conn'[h].closing = conn[h].closing
    BY <1>17, CloseEffect DEF Shuts
  <2>4. \A a \in Adapters : home'[a] # 0 => conn'[home'[a]].open \/ conn'[home'[a]].closing
    BY <1>h, <2>1, <2>2, <2>3
  <2> QED
    BY <2>1, <2>4, PlacedQuiet
<1>18. CASE Drop(t)
  <2>1. Quiet /\ conn' = conn /\ home' = home
    BY <1>18, DropEffect DEF SameHomes, SameUsers
  <2>2. \A a \in Adapters : home'[a] # 0 => conn'[home'[a]].open \/ conn'[home'[a]].closing
    BY <1>h, <2>1
  <2> QED
    BY <2>1, <2>2, PlacedQuiet DEF Quiet
<1> QED
  BY <1>1, <1>2, <1>3, <1>4, <1>5, <1>6, <1>7, <1>8, <1>9, <1>10, <1>11, <1>12, <1>13, <1>14,
     <1>15, <1>16, <1>17, <1>18 DEF Continue

-----------------------------------------------------------------------------
(* Entering: adapters that are on their way into the tables.               *)

\* Entering, by thread and by pair of threads.
EnterOf(t) ==
  LET q == proc[t] IN
  /\ q.pc \in {"insert", "export", "enter", "release", "leave"} =>
       q.adapter \notin Tab(q.conn, q.address)
  /\ q.pc \in {"request", "count", "unexport", "withdraw"} => q.adapter \in Tab(q.conn, q.address)
  /\ q.pc = "retract" /\ q.after # "drop" => q.adapter \notin Tab(home[q.adapter], q.address)
  /\ q.pc = "erase" /\ services[q.address] # None =>
       services[q.address] \notin Tab(home[services[q.address]], q.address)
  /\ q.pc \in {"request", "count", "withdraw", "erase"} /\ q.adapter \in Managed
       => services[q.address] = q.adapter
Starting(t) == proc[t].pc \in {"insert", "export", "enter"}
FreshOf(t, u) ==
  proc[t].pc = "insert" /\ Starting(u) => proc[u].adapter # proc[t].adapter

\* Entering, by thread and by pair of threads.
LEMMA EnteringParts ==
  Entering <=> /\ \A t \in Actors : EnterOf(t)
               /\ \A t \in Actors : \A u \in Actors \ {t} : FreshOf(t, u)
  BY DEF Entering, EnterOf, FreshOf, Starting

\* The same after a step.
LEMMA EnteringNext ==
  ASSUME \A t \in Actors : EnterOf(t)',
         \A t \in Actors : \A u \in Actors \ {t} : FreshOf(t, u)'
  PROVE  Entering'
  BY DEF Entering, EnterOf, FreshOf, Starting

\* A thread of another address finds its tables as they were.
LEMMA EnterSame ==
  ASSUME Base, Entering, NEW u \in Actors, proc'[u] = proc[u],
         \A a \in Adapters : home[a] # 0 => home'[a] = home[a],
         SameTables, services' = services
  PROVE  EnterOf(u)'
<1>0. EnterOf(u) /\ TypeOK
  BY EnteringParts DEF Base
<1> PICK q \in Process : q = proc[u]
  BY <1>0, Typed
<1>2. CASE q.pc \in {"insert", "export", "enter", "release", "leave", "request", "count",
             "unexport",
                       "withdraw", "retract", "erase"}
  <2>1. AtWork(q) /\ (q.pc \notin {"retract", "erase"} => q.conn \in Connections)
    BY <1>2, WorkingThread DEF Building
  <2>2. /\ q.conn \in Connections => Tab(q.conn, q.address)' = Tab(q.conn, q.address)
        /\ home'[q.adapter] = home[q.adapter] /\ home[q.adapter] \in Connections
        /\ Tab(home[q.adapter], q.address)' = Tab(home[q.adapter], q.address)
    BY <2>1, Numbered DEF SameTables, AtWork, Tab
  <2>3. ASSUME services[q.address] # None
        PROVE  /\ home'[services[q.address]] = home[services[q.address]]
               /\ Tab(home[services[q.address]], q.address)'
                     = Tab(home[services[q.address]], q.address)
    <3>1. services[q.address] \in Adapters /\ home[services[q.address]] \in Connections
      BY <2>1, <2>3, Registered DEF AtWork
    <3>2. home'[services[q.address]] = home[services[q.address]]
      BY <3>1, Numbered
    <3> QED
      BY <2>1, <3>1, <3>2 DEF SameTables, AtWork, Tab
  <2> QED
    BY <1>0, <1>2, <2>1, <2>2, <2>3 DEF EnterOf, Tab
<1>3. CASE q.pc \notin {"insert", "export", "enter", "release", "leave", "request", "count",
                          "unexport", "withdraw", "retract", "erase"}
  BY <1>3 DEF EnterOf
<1> QED
  BY <1>2, <1>3

\* A thread that does not move finds its tables as they were.
LEMMA EnterStays ==
  ASSUME Base, Entering, NEW t \in Actors, Frame(t), NEW u \in Actors \ {t}
  PROVE  EnterOf(u)'
<1>0. EnterOf(u) /\ FreshOf(u, t) /\ TypeOK /\ Shape(proc[u])
  BY EnteringParts DEF Base, Shapes
<1> PICK q \in Process : q = proc[u]
  BY <1>0, Typed
<1>1. proc'[u] = q /\ \A a \in Adapters : home[a] # 0 => home'[a] = home[a]
  BY DEF Frame
<1>2. CASE q.pc = "insert"
  <2>1. /\ q.adapter \in Adapters /\ q.address = AddressOf[q.adapter]
        /\ q.address \in Addresses /\ q.conn \in Connections /\ q.adapter \notin Managed
    BY <1>2, WorkingThread DEF AtWork, Building
  <2>2. q.adapter \notin Tab(q.conn, q.address)
    BY <1>0, <1>2 DEF EnterOf
  <2>3. ~(q.adapter = proc[t].adapter /\ proc[t].pc \in {"enter", "enlist"})
    <3>1. CASE proc[t].pc = "enter"
      BY <1>0, <1>2, <3>1 DEF FreshOf, Starting
    <3>2. CASE proc[t].pc = "enlist"
      BY <2>1, <3>2 DEF Base, Shapes, Shape
    <3> QED
      BY <3>1, <3>2
  <2>4. q.adapter \notin Tab(q.conn, q.address)'
    BY <2>1, <2>2, <2>3 DEF Frame
  <2> QED
    BY <1>1, <1>2, <2>4 DEF EnterOf, Tab
<1>3. CASE q.pc \in LockedLines
  BY <1>1, <1>3, EnterSame DEF Frame, Locked
<1>4. CASE q.pc \notin LockedLines \cup {"insert"}
  BY <1>1, <1>4 DEF EnterOf, LockedLines
<1> QED
  BY <1>2, <1>3, <1>4

\* Entering is kept by a step of a thread that goes on.
LEMMA EnteringKept ==
  ASSUME Base, Entering, NEW t \in Actors, Frame(t), EnterOf(t)',
         proc'[t].pc # "insert",
         Starting(t)' => Starting(t) /\ proc'[t].adapter = proc[t].adapter
  PROVE  Entering'
<1>1. \A u \in Actors : EnterOf(u)'
  BY EnterStays
<1>2. ASSUME NEW u \in Actors, NEW v \in Actors \ {u} PROVE FreshOf(u, v)'
  <2>1. FreshOf(u, v)
    BY EnteringParts
  <2> QED
    BY <2>1 DEF FreshOf, Starting, Frame
<1> QED
  BY <1>1, <1>2, EnteringNext

\* A new adapter is in no table and in no other hands.
LEMMA EnteringBegins ==
  ASSUME Base, Entering, NEW t \in Actors, Frame(t), SameTables, NEW a \in Adapters,
         home[a] = 0, NEW g \in Connections,
         Becomes(t, "insert", a, AddressOf[a], g, "return")
  PROVE  Entering'
<1>1. \A u \in Actors \ {t} : Starting(u) => proc[u].adapter # a
  BY DEF Base, Shapes, Shape, Starting, Building
<1>2. EnterOf(t)'
  <2>1. a \notin Tab(g, AddressOf[a])
    BY Numbered, ServicesAssumption DEF Base, Placed
  <2>2. a \notin Tab(g, AddressOf[a])'
    BY <2>1, ServicesAssumption DEF SameTables
  <2> QED
    BY <2>2 DEF EnterOf, Becomes, Tab
<1>3. \A u \in Actors : EnterOf(u)'
  BY <1>2, EnterStays
<1>4. ASSUME NEW u \in Actors, NEW v \in Actors \ {u} PROVE FreshOf(u, v)'
  <2>1. FreshOf(u, v)
    BY EnteringParts
  <2> QED
    BY <1>1, <2>1 DEF FreshOf, Starting, Becomes
<1> QED
  BY <1>3, <1>4, EnteringNext

\* Entering says nothing of a thread on these lines.
LEMMA EnteringIdle ==
  ASSUME Base, Entering, NEW t \in Actors, Frame(t),
         proc'[t].pc \in {"idle", "drop", "destroy", "unregister", "enlist", "unlist",
           "decrement",
                          "close", "return"}
  PROVE  Entering'
<1>1. EnterOf(t)'
  BY DEF EnterOf
<1> QED
  BY <1>1, EnteringKept DEF Starting

\* A thread that begins an operation keeps Entering.
LEMMA EnteringBegin ==
  ASSUME Base, Entering, NEW t \in Actors, Begin(t), Frame(t)
  PROVE  Entering'
<1>9. ASSUME proc' = proc, SameTables, services' = services PROVE Entering'
  <2>1. \A u \in Actors : EnterOf(u)'
    BY <1>9, EnterSame DEF Frame
  <2>2. \A u \in Actors : \A v \in Actors \ {u} : FreshOf(u, v)'
    BY <1>9, EnteringParts DEF FreshOf, Starting
    <2> QED
    BY <2>1, <2>2, EnteringNext
<1>1. ASSUME NEW a \in Adapters, RegisterStub(t, a) PROVE Entering'
  <2>1. PICK g \in Connections : Becomes(t, "insert", a, AddressOf[a], g, "return")
    BY <1>1, RegisterStubEffect
  <2>2. SameTables /\ home[a] = 0
    BY <1>1, RegisterStubEffect DEF Quiet
  <2> QED
    BY <2>1, <2>2, EnteringBegins
<1>2. ASSUME NEW a \in Adapters, NEW b \in Adapters, RegisterManaged(t, a, b) PROVE Entering'
  BY <1>2, RegisterManagedEffect, EnteringIdle DEF Becomes
<1>3. ASSUME NEW p \in Paths, NEW a \in Adapters, ExportManaged(t, p, a) PROVE Entering'
  BY <1>3, ExportManagedEffect, <1>9 DEF Quiet
<1>4. ASSUME NEW p \in Paths, NEW a \in Adapters, UnexportManaged(t, p, a) PROVE Entering'
  BY <1>4, UnexportManagedEffect, EnteringIdle DEF Becomes
<1>5. ASSUME NEW x \in Addresses, UnregisterStub(t, x) PROVE Entering'
  BY <1>5, UnregisterStubEffect, EnteringIdle DEF Becomes
<1>6. ASSUME NEW a \in Adapters, UnregisterManaged(t, a) PROVE Entering'
  BY <1>6, UnregisterManagedEffect, EnteringIdle DEF Becomes
<1>7. ASSUME NEW g \in Connections, CreateProxy(t, g) PROVE Entering'
  BY <1>7, CreateProxyEffect, <1>9 DEF Quiet
<1>8. ASSUME NEW g \in Connections, DestroyProxy(t, g) PROVE Entering'
  BY <1>8, DestroyProxyEffect, EnteringIdle DEF Becomes
<1> QED
  BY <1>1, <1>2, <1>3, <1>4, <1>5, <1>6, <1>7, <1>8 DEF Begin

\* A call that begins or ends in a dispatch thread keeps Entering.
LEMMA EnteringDispatch ==
  ASSUME Base, Entering
  PROVE  /\ \A g \in Connections, x \in Addresses : Receive(g, x) => Entering'
         /\ \A g \in Connections : Reply(g) => Entering'
<1>1. ASSUME NEW g \in Connections, NEW x \in Addresses, Receive(g, x) PROVE Entering'
  <2>0. SameTables /\ services' = services /\ proc' = proc /\ home' = home
    BY <1>1, ReceiveEffect DEF Quiet, SameHomes
  <2>1. \A u \in Actors : EnterOf(u)'
    BY <2>0, EnterSame
  <2>2. \A u \in Actors : \A v \in Actors \ {u} : FreshOf(u, v)'
    BY <2>0, EnteringParts DEF FreshOf, Starting
    <2> QED
    BY <2>1, <2>2, EnteringNext
<1>2. ASSUME NEW g \in Connections, Reply(g) PROVE Entering'
  <2> DEFINE t == DispatcherOf[g]
  <2>1. Becomes(t, "drop", handling[g], None, 0, "drop") /\ t \in Actors
    BY <1>2, ReplyEffect
  <2> HIDE DEF t
  <2>2. Quiet /\ home' = home /\ conn' = conn
    BY <1>2, ReplyEffect DEF SameHomes, SameUsers
  <2>3. Frame(t)
    BY <2>1, <2>2, FrameQuiet DEF Becomes, Quiet
  <2> QED
    BY <2>1, <2>3, EnteringIdle DEF Becomes
<1> QED
  BY <1>1, <1>2

\* A thread that goes on with its operation keeps Entering.
LEMMA EnteringContinue ==
  ASSUME Base, ConnectionsFit, Entering, NEW t \in Actors, Continue(t), Frame(t)
  PROVE  Entering'
<1>0. TypeOK /\ Shape(proc[t]) /\ EnterOf(t)
  BY EnteringParts DEF Base, Shapes
<1> PICK q \in Process : q = proc[t]
  BY <1>0, Typed
<1> PICK x : x = q.address
  OBVIOUS
<1> PICK b : b = services[x]
  OBVIOUS
<1> PICK g : g = home[b]
  OBVIOUS
<1> PICK c : c = q.conn
  OBVIOUS
<1>a. /\ q.pc = "decrement" /\ q.after # "drop" =>
           q.adapter \notin Managed /\ services[q.address] = None
      /\ q.pc \in {"export", "enter", "unexport"} => q.adapter \notin Managed /\ q.after # "drop"
      /\ q.pc \in {"retract", "unlist"} => (q.after = "drop" <=> q.adapter \in Managed)
  BY <1>0 DEF Shape, Building
<1>b. /\ q.pc \in {"insert", "export", "enter", "release", "leave"} => q.adapter \notin Tab(c, x)
      /\ q.pc \in {"request", "count", "unexport", "withdraw"} => q.adapter \in Tab(c, x)
      /\ q.pc = "retract" /\ q.after # "drop" => q.adapter \notin Tab(home[q.adapter], x)
      /\ q.pc = "erase" /\ services[x] # None => services[x] \notin Tab(home[services[x]], x)
      /\ q.pc \in {"request", "count", "withdraw", "erase"} /\ q.adapter \in Managed
          => services[x] = q.adapter
  BY <1>0 DEF EnterOf
<1>c. q.after \in {"drop", "return", "erase"}
  BY DEF Process
<1>1. CASE Insert(t)
  <2>1. q.pc = "insert" /\ c \in Connections /\ x \in Addresses /\ SameTables
    BY <1>1, InsertEffect, WorkingThread DEF Still, AtWork, Building
  <2>2. Becomes(t, "export", q.adapter, x, c, q.after)
    BY <1>1, InsertEffect
  <2>3. EnterOf(t)'
    BY <1>a, <1>b, <1>c, <2>1, <2>2, ServicesAssumption DEF EnterOf, Becomes, SameTables, Tab,
       EntersAt, LeavesAt
  <2>4. proc'[t].pc # "insert"
          /\ (Starting(t)' => Starting(t) /\ proc'[t].adapter = proc[t].adapter)
    BY <1>a, <1>c, <2>1, <2>2 DEF Starting, Becomes
  <2> QED
    BY <2>3, <2>4, EnteringKept
<1>2. CASE ExportStub(t)
  <2>1. home' = home /\ q.adapter \in Adapters /\ x \in Addresses /\ x = AddressOf[q.adapter]
          /\ home[q.adapter] \in Connections
        /\ c = home[q.adapter] /\ SameTables /\ q.pc = "export"
    BY <1>2, ExportStubEffect DEF Still, AtWork
  <2>2. Becomes(t, "enter", q.adapter, x, c, q.after)
          \/ Becomes(t, "retract", q.adapter, x, c, q.after)
    BY <1>2, ExportStubEffect
  <2>3. EnterOf(t)'
    BY <1>a, <1>b, <1>c, <2>1, <2>2, ServicesAssumption DEF EnterOf, Becomes, SameTables, Tab,
       EntersAt, LeavesAt
  <2>4. proc'[t].pc # "insert"
          /\ (Starting(t)' => Starting(t) /\ proc'[t].adapter = proc[t].adapter)
    BY <1>a, <1>c, <2>1, <2>2 DEF Starting, Becomes
  <2> QED
    BY <2>3, <2>4, EnteringKept
<1>3. CASE Enter(t)
  <2>1. home' = home /\ q.adapter \in Adapters /\ x \in Addresses /\ x = AddressOf[q.adapter]
          /\ home[q.adapter] \in Connections
        /\ c = home[q.adapter] /\ q.adapter \notin Managed /\ EntersAt(c, q.adapter)
    BY <1>3, EnterEffect DEF Still, AtWork
  <2>2. Becomes(t, "request", q.adapter, x, c, q.after)
    BY <1>3, EnterEffect
  <2>3. EnterOf(t)'
    <3>1. q.adapter \in Tab(c, x)'
      BY <2>1 DEF EntersAt
    <3>2. /\ proc'[t].pc = "request" /\ proc'[t].adapter = q.adapter
          /\ proc'[t].address = x /\ proc'[t].conn = c
      BY <2>2 DEF Becomes
    <3> QED
      BY <2>1, <3>1, <3>2 DEF EnterOf, Tab
  <2>4. proc'[t].pc # "insert"
          /\ (Starting(t)' => Starting(t) /\ proc'[t].adapter = proc[t].adapter)
    BY <1>a, <1>c, <2>1, <2>2 DEF Starting, Becomes
  <2> QED
    BY <2>3, <2>4, EnteringKept
<1>4. CASE RequestName(t)
  <2>1. home' = home /\ q.adapter \in Adapters /\ x \in Addresses /\ x = AddressOf[q.adapter]
          /\ home[q.adapter] \in Connections
        /\ c = home[q.adapter] /\ SameTables /\ services' = services
        /\ q.pc = "request" 
    BY <1>4, RequestNameEffect DEF Still, AtWork
  <2>2. \E pc \in {"drop", "count", "unexport", "withdraw"} :
          Becomes(t, pc, q.adapter, x, c, q.after)
    BY <1>4, RequestNameEffect
  <2>3. EnterOf(t)'
    <3>1. q.adapter \in Tab(c, x)'
      BY <1>a, <1>b, <1>c, <2>1 DEF EnterOf, SameTables, Tab
    <3>2. \/ proc'[t].pc = "drop"
          \/ /\ proc'[t].pc \in {"count", "unexport", "withdraw"}
             /\ proc'[t].adapter = q.adapter /\ proc'[t].address = x
             /\ proc'[t].conn = c
             /\ q.adapter \in Managed => services'[x] = q.adapter
      BY <1>a, <1>b, <1>c, <2>1, <2>2 DEF EnterOf, Becomes
    <3> QED
      BY <3>1, <3>2 DEF EnterOf, Tab
  <2>4. proc'[t].pc # "insert"
          /\ (Starting(t)' => Starting(t) /\ proc'[t].adapter = proc[t].adapter)
    BY <1>a, <1>c, <2>1, <2>2 DEF Starting, Becomes
  <2> QED
    BY <2>3, <2>4, EnteringKept
<1>5. CASE CountManaged(t)
  BY <1>5, CountManagedEffect, EnteringIdle DEF Becomes
<1>6. CASE RollbackExport(t)
  <2>1. home' = home /\ q.adapter \in Adapters /\ x \in Addresses /\ x = AddressOf[q.adapter]
          /\ home[q.adapter] \in Connections
        /\ c = home[q.adapter] /\ SameTables /\ q.adapter \notin Managed /\ q.pc = "unexport"
    BY <1>6, RollbackExportEffect DEF Still, AtWork
  <2>2. Becomes(t, "withdraw", q.adapter, x, c, q.after)
    BY <1>6, RollbackExportEffect
  <2>3. EnterOf(t)'
    BY <1>a, <1>b, <1>c, <2>1, <2>2, ServicesAssumption DEF EnterOf, Becomes, SameTables, Tab,
       EntersAt, LeavesAt
  <2>4. proc'[t].pc # "insert"
          /\ (Starting(t)' => Starting(t) /\ proc'[t].adapter = proc[t].adapter)
    BY <1>a, <1>c, <2>1, <2>2 DEF Starting, Becomes
  <2> QED
    BY <2>3, <2>4, EnteringKept
<1>7. CASE Withdraw(t)
  <2>1. home' = home /\ q.adapter \in Adapters /\ x \in Addresses /\ x = AddressOf[q.adapter]
          /\ home[q.adapter] \in Connections
        /\ c = home[q.adapter] /\ services' = services
        /\ LeavesAt(c, q.adapter) /\ q.pc = "withdraw" 
    BY <1>7, WithdrawEffect DEF Still, AtWork
  <2>2. /\ q.adapter \in Managed => Becomes(t, "erase", q.adapter, x, c, "erase")
        /\ q.adapter \notin Managed => Becomes(t, "retract", q.adapter, x, c, "erase")
    BY <1>7, WithdrawEffect
  <2>5. q.adapter \notin Range(manager'[c].table[x])
    <3>1. q.adapter \notin Tab(c, x)'
      BY <2>1 DEF LeavesAt
    <3> QED
      BY <3>1 DEF Tab
  <2>3. EnterOf(t)'
    BY <1>a, <1>b, <1>c, <2>1, <2>2, <2>5, ServicesAssumption DEF EnterOf, Becomes, Tab
  <2>4. proc'[t].pc # "insert"
          /\ (Starting(t)' => Starting(t) /\ proc'[t].adapter = proc[t].adapter)
    BY <1>a, <1>c, <2>1, <2>2 DEF Starting, Becomes
  <2> QED
    BY <2>3, <2>4, EnteringKept
<1>8. CASE Erase(t)
  BY <1>8, EraseEffect, EnteringIdle DEF Becomes
<1>9. CASE Return(t)
  BY <1>9, ReturnEffect, EnteringIdle DEF Becomes
<1>10. CASE Forget(t)
  BY <1>10, ForgetEffect, EnteringIdle DEF Becomes
<1>11. CASE Retract(t)
  <2>1. /\ q.pc = "retract" /\ home' = home /\ x \in Addresses
        /\ (b # None => AddressOf[b] = x /\ g \in Connections)
    BY <1>11, RetractEffect, Registered DEF Still, AtWork
  <2>2. \/ Becomes(t, "decrement", q.adapter, x, g, q.after)
        \/ /\ Becomes(t, IF q.after = "drop" THEN "return" ELSE q.after, q.adapter, x, q.conn,
                q.after)
           /\ services' = services /\ (b # None => LeavesAt(g, b))
    BY <1>11, RetractEffect
  <2>3. EnterOf(t)'
    <3>1. CASE Becomes(t, "decrement", q.adapter, x, g, q.after)
      BY <3>1 DEF EnterOf, Becomes
    <3>2. CASE q.after \in {"drop", "return"} /\ proc'[t].pc = "return"
      BY <3>2 DEF EnterOf
    <3>3. CASE /\ Becomes(t, "erase", q.adapter, x, q.conn, q.after) /\ q.after = "erase"
               /\ services' = services /\ (b # None => LeavesAt(g, b))
      <4>1. services[x] # None => services[x] \notin Tab(home[services[x]], x)'
        BY <2>1, <3>3 DEF LeavesAt
      <4> QED
        BY <1>a, <2>1, <3>3, <4>1 DEF EnterOf, Becomes, Tab
    <3> QED
      BY <1>c, <2>2, <3>1, <3>2, <3>3 DEF Becomes
  <2>4. proc'[t].pc # "insert" /\ ~Starting(t)'
    BY <1>c, <2>2 DEF Starting, Becomes
  <2> QED
    BY <2>3, <2>4, EnteringKept
<1>12. CASE Release(t)
  <2>1. home' = home /\ q.adapter \in Adapters /\ x \in Addresses /\ x = AddressOf[q.adapter]
          /\ home[q.adapter] \in Connections
        /\ c = home[q.adapter] /\ SameTables /\ q.pc = "release"
    BY <1>12, ReleaseEffect DEF Still, AtWork
  <2>2. Becomes(t, "leave", q.adapter, x, c, q.after)
          \/ Becomes(t, "return", q.adapter, x, c, q.after)
    BY <1>12, ReleaseEffect
  <2>3. EnterOf(t)'
    BY <1>a, <1>b, <1>c, <2>1, <2>2, ServicesAssumption DEF EnterOf, Becomes, SameTables, Tab,
       EntersAt, LeavesAt
  <2>4. proc'[t].pc # "insert"
          /\ (Starting(t)' => Starting(t) /\ proc'[t].adapter = proc[t].adapter)
    BY <1>a, <1>c, <2>1, <2>2 DEF Starting, Becomes
  <2> QED
    BY <2>3, <2>4, EnteringKept
<1>13. CASE Leave(t)
  <2>1. q.pc \in {"unregister", "destroy"} /\ x \in Addresses
        /\ (b # None => AddressOf[b] = x /\ g \in Connections)
    BY <1>13, LeaveEffect, Registered
  <2>2. \/ Becomes(t, "idle", None, None, 0, "drop")
        \/ Becomes(t, "release", b, x, g, "drop") /\ b # None /\ LeavesAt(g, b)
        \/ Becomes(t, "return", b, x, g, "drop")
    BY <1>13, LeaveEffect
  <2>5. b # None /\ LeavesAt(g, b) => b \notin Range(manager'[g].table[x])
    <3>1. b # None /\ LeavesAt(g, b) => b \notin Tab(g, x)'
      BY <2>1 DEF LeavesAt
    <3> QED
      BY <3>1 DEF Tab
  <2>3. EnterOf(t)'
    BY <1>a, <1>b, <1>c, <2>1, <2>2, <2>5, ServicesAssumption DEF EnterOf, Becomes, Tab
  <2>4. proc'[t].pc # "insert"
          /\ (Starting(t)' => Starting(t) /\ proc'[t].adapter = proc[t].adapter)
    BY <1>a, <1>c, <2>1, <2>2 DEF Starting, Becomes
  <2> QED
    BY <2>3, <2>4, EnteringKept
<1>14. CASE Enlist(t)
  <2>1. home' = home /\ q.adapter \in Adapters /\ x \in Addresses /\ x = AddressOf[q.adapter]
          /\ home[q.adapter] \in Connections
        /\ c = home[q.adapter] /\ q.pc = "enlist"
    BY <1>14, EnlistEffect DEF Still, AtWork
  <2>2. \/ Becomes(t, "drop", q.adapter, x, c, q.after)
        \/ /\ Becomes(t, "request", q.adapter, x, c, q.after) /\ EntersAt(c, q.adapter)
           /\ services'[x] = q.adapter
    BY <1>14, EnlistEffect
  <2>5. services'[x] = q.adapter /\ EntersAt(c, q.adapter) =>
          q.adapter \in Range(manager'[c].table[x])
    <3>1. services'[x] = q.adapter /\ EntersAt(c, q.adapter) => q.adapter \in Tab(c, x)'
      BY <2>1 DEF EntersAt
    <3> QED
      BY <3>1 DEF Tab
  <2>3. EnterOf(t)'
    BY <1>a, <1>b, <1>c, <2>1, <2>2, <2>5, ServicesAssumption DEF EnterOf, Becomes, Tab
  <2>4. proc'[t].pc # "insert"
          /\ (Starting(t)' => Starting(t) /\ proc'[t].adapter = proc[t].adapter)
    BY <1>a, <1>c, <2>1, <2>2 DEF Starting, Becomes
  <2> QED
    BY <2>3, <2>4, EnteringKept
<1>15. CASE Unlist(t)
  <2>1. q.pc = "unlist" /\ q.adapter \in Managed
    BY <1>15, UnlistEffect DEF Still, AtWork
  <2>2. Becomes(t, "retract", q.adapter, x, c, q.after)
    BY <1>15, UnlistEffect
  <2>3. EnterOf(t)'
    BY <1>a, <1>b, <1>c, <2>1, <2>2, ServicesAssumption DEF EnterOf, Becomes, SameTables, Tab,
       EntersAt, LeavesAt
  <2>4. proc'[t].pc # "insert"
          /\ (Starting(t)' => Starting(t) /\ proc'[t].adapter = proc[t].adapter)
    BY <1>a, <1>c, <2>1, <2>2 DEF Starting, Becomes
  <2> QED
    BY <2>3, <2>4, EnteringKept
<1>16. CASE Decrement(t)
  <2>1. q.pc = "decrement" /\ services' = services
    BY <1>16, DecrementEffect DEF Still, AtWork
  <2>2. Becomes(t, q.after, q.adapter, x, c, q.after)
          \/ Becomes(t, "close", q.adapter, x, c, q.after)
    BY <1>16, DecrementEffect
  <2>3. EnterOf(t)'
    BY <1>a, <1>b, <1>c, <2>1, <2>2, ServicesAssumption DEF EnterOf, Becomes, SameTables, Tab,
       EntersAt, LeavesAt
  <2>4. proc'[t].pc # "insert"
          /\ (Starting(t)' => Starting(t) /\ proc'[t].adapter = proc[t].adapter)
    BY <1>a, <1>c, <2>1, <2>2 DEF Starting, Becomes
  <2> QED
    BY <2>3, <2>4, EnteringKept
<1>17. CASE Close(t)
  BY <1>17, CloseEffect, EnteringIdle DEF Becomes
<1>18. CASE Drop(t)
  <2>1. q.pc = "drop" 
    BY <1>18, DropEffect DEF Still, AtWork
  <2>2. Becomes(t, "idle", None, None, 0, "drop")
        \/ \E y \in Addresses : Becomes(t, "destroy", None, y, 0, "drop")
    BY <1>18, DropEffect
  <2>3. EnterOf(t)'
    BY <1>a, <1>b, <1>c, <2>1, <2>2, ServicesAssumption DEF EnterOf, Becomes, SameTables, Tab,
       EntersAt, LeavesAt
  <2>4. proc'[t].pc # "insert"
          /\ (Starting(t)' => Starting(t) /\ proc'[t].adapter = proc[t].adapter)
    BY <1>a, <1>c, <2>1, <2>2 DEF Starting, Becomes
  <2> QED
    BY <2>3, <2>4, EnteringKept
<1> QED
  BY <1>1, <1>2, <1>3, <1>4, <1>5, <1>6, <1>7, <1>8, <1>9, <1>10, <1>11, <1>12, <1>13, <1>14,
     <1>15, <1>16, <1>17, <1>18 DEF Continue

-----------------------------------------------------------------------------
(* ConnectionsFit.                                                         *)

\* No connection opens or closes.
SameLives ==
  \A h \in Connections :
    /\ conn'[h].open = conn[h].open /\ conn'[h].closing = conn[h].closing
    /\ conn'[h].closer = conn[h].closer

\* ConnectionsFit is kept by a step that opens and closes nothing.
LEMMA FitKept ==
  ASSUME TypeOK, ConnectionsFit, current' = current, SameLives,
         \A h \in Connections : ~conn[h].open => heard'[h] = heard[h] \/ heard'[h] = {},
         \A h \in Connections : handling'[h] \in {None, handling[h]} \/ conn[h].open,
         \A h \in Connections : proxies'[h] > 0 => proxies[h] > 0
  PROVE  ConnectionsFit'
<1>1. current \in Connections \/ current = 0
  BY DEF TypeOK
<1>2. current' # 0 => conn'[current'].open /\ ~conn'[current'].closing
  BY <1>1 DEF ConnectionsFit, SameLives
<1>3. ASSUME NEW g \in Connections
      PROVE  /\ conn'[g].open /\ g # current' => conn'[g].closing
             /\ ~conn'[g].open => heard'[g] = {}
             /\ handling'[g] # None => conn'[g].open \/ conn'[g].closer = DispatcherOf[g]
             /\ proxies'[g] > 0 => current' = g
  BY DEF ConnectionsFit, SameLives
<1> QED
  BY <1>2, <1>3 DEF ConnectionsFit

\* ConnectionsFit is kept when a connection is opened, or used again.
LEMMA FitOpens ==
  ASSUME TypeOK, ConnectionsFit, NEW g \in Connections, Opens(g), heard' = heard,
         handling' = handling,
         \A h \in Connections \ {g} : proxies'[h] = proxies[h]
  PROVE  ConnectionsFit'
<1>1. /\ current' = g /\ g # 0 /\ (current # 0 => g = current)
      /\ current = 0 => ~conn[g].open /\ ~conn[g].closing
      /\ \A h \in Connections \ {g} : conn'[h].open = conn[h].open
      /\ \A h \in Connections :
           conn'[h].closing = conn[h].closing /\ conn'[h].closer = conn[h].closer
      /\ conn'[g].open
  BY DEF Opens
<1>2. ~conn[g].closing
  BY <1>1 DEF ConnectionsFit
<1>3. ASSUME NEW h \in Connections
      PROVE  /\ conn'[h].open /\ h # current' => conn'[h].closing
             /\ ~conn'[h].open => heard'[h] = {}
             /\ handling'[h] # None => conn'[h].open \/ conn'[h].closer = DispatcherOf[h]
             /\ proxies'[h] > 0 => current' = h
  <2>1. CASE h = g
    BY <1>1, <2>1
  <2>2. CASE h # g
    <3>1. h # 0
      BY Numbered
    <3>2. h # current
      BY <1>1, <2>2, <3>1
    <3> QED
      BY <1>1, <2>2, <3>2 DEF ConnectionsFit
  <2> QED
    BY <2>1, <2>2
<1> QED
  BY <1>1, <1>2, <1>3 DEF ConnectionsFit

\* A thread that begins an operation keeps ConnectionsFit.
LEMMA FitBegin ==
  ASSUME Base, ConnectionsFit, NEW t \in Actors, Begin(t)
  PROVE  ConnectionsFit'
<1>0. TypeOK /\ \A h \in Connections : proxies[h] \in Nat
  BY Typed DEF Base
<1>9. ASSUME Quiet, SameUsers, handling' = handling,
             \A h \in Connections : proxies'[h] > 0 => proxies[h] > 0
      PROVE  ConnectionsFit'
  <2>1. current' = current /\ SameLives
    BY <1>9 DEF SameUsers, SameLives
  <2> QED
    BY <1>0, <1>9, <2>1, FitKept DEF Quiet
<1>1. ASSUME NEW a \in Adapters, RegisterStub(t, a) PROVE ConnectionsFit'
  <2>1. PICK g \in Connections : Opens(g)
    BY <1>1, RegisterStubEffect
  <2>2. heard' = heard /\ handling' = handling /\ proxies' = proxies
    BY <1>1, RegisterStubEffect DEF Quiet
  <2> QED
    BY <1>0, <2>1, <2>2, FitOpens
<1>2. ASSUME NEW a \in Adapters, NEW b \in Adapters, RegisterManaged(t, a, b)
      PROVE  ConnectionsFit'
  BY <1>2, RegisterManagedEffect, <1>9 DEF SameHomes
<1>3. ASSUME NEW p \in Paths, NEW a \in Adapters, ExportManaged(t, p, a) PROVE ConnectionsFit'
  BY <1>3, ExportManagedEffect, <1>9 DEF SameHomes
<1>4. ASSUME NEW p \in Paths, NEW a \in Adapters, UnexportManaged(t, p, a) PROVE ConnectionsFit'
  BY <1>4, UnexportManagedEffect, <1>9 DEF SameHomes
<1>5. ASSUME NEW x \in Addresses, UnregisterStub(t, x) PROVE ConnectionsFit'
  BY <1>5, UnregisterStubEffect, <1>9 DEF SameHomes
<1>6. ASSUME NEW a \in Adapters, UnregisterManaged(t, a) PROVE ConnectionsFit'
  BY <1>6, UnregisterManagedEffect, <1>9 DEF SameHomes
<1>7. ASSUME NEW g \in Connections, CreateProxy(t, g) PROVE ConnectionsFit'
  <2>1. /\ heard' = heard /\ handling' = handling /\ Opens(g)
        /\ \A h \in Connections \ {g} : proxies'[h] = proxies[h]
    BY <1>7, CreateProxyEffect DEF Quiet
  <2> QED
    BY <1>0, <2>1, FitOpens
<1>8. ASSUME NEW g \in Connections, DestroyProxy(t, g) PROVE ConnectionsFit'
  <2>1. Quiet /\ SameUsers /\ handling' = handling
    BY <1>8, DestroyProxyEffect
  <2>2. \A h \in Connections : proxies'[h] > 0 => proxies[h] > 0
    BY <1>0, <1>8, DestroyProxyEffect
  <2> QED
    BY <1>9, <2>1, <2>2
<1> QED
  BY <1>1, <1>2, <1>3, <1>4, <1>5, <1>6, <1>7, <1>8 DEF Begin

\* A call that begins or ends in a dispatch thread keeps ConnectionsFit.
LEMMA FitDispatch ==
  ASSUME Base, ConnectionsFit
  PROVE  /\ \A g \in Connections, x \in Addresses : Receive(g, x) => ConnectionsFit'
         /\ \A g \in Connections : Reply(g) => ConnectionsFit'
<1>0. TypeOK
  BY DEF Base
<1>9. ASSUME Quiet, SameUsers, SameHomes,
             \A h \in Connections : handling'[h] \in {None, handling[h]} \/ conn[h].open
      PROVE  ConnectionsFit'
  <2>1. current' = current /\ SameLives /\ proxies' = proxies
    BY <1>9 DEF SameUsers, SameLives, SameHomes
  <2> QED
    BY <1>0, <1>9, <2>1, FitKept DEF Quiet
<1>1. ASSUME NEW g \in Connections, NEW x \in Addresses, Receive(g, x) PROVE ConnectionsFit'
  BY <1>1, <1>9, ReceiveEffect
<1>2. ASSUME NEW g \in Connections, Reply(g) PROVE ConnectionsFit'
  BY <1>2, <1>9, ReplyEffect
<1> QED
  BY <1>1, <1>2

\* A thread that goes on with its operation keeps ConnectionsFit.
LEMMA FitContinue ==
  ASSUME Base, ConnectionsFit, UsersCounted, NEW t \in Actors, Continue(t)
  PROVE  ConnectionsFit'
<1>0. TypeOK /\ Shape(proc[t]) /\ \A h \in Connections : proxies[h] \in Nat
  BY Typed DEF Base, Shapes
<1> PICK q \in Process : q = proc[t]
  BY <1>0, Typed
<1> PICK x : x = q.address
  OBVIOUS
<1> PICK b : b = services[x]
  OBVIOUS
<1> PICK g : g = home[b]
  OBVIOUS
<1> PICK c : c = q.conn
  OBVIOUS
<1>h. ASSUME Still, SameLives,
             \A h \in Connections : ~conn[h].open => heard'[h] = heard[h] \/ heard'[h] = {}
      PROVE  ConnectionsFit'
  BY <1>0, <1>h, FitKept DEF Still
<1>1. CASE Insert(t)
  <2>1. Still /\ SameLives
    BY <1>1, InsertEffect DEF SameLives, ConnAt, ActiveAt
  <2>2. heard' = heard
    BY <1>1, InsertEffect
  <2> QED
    BY <1>h, <2>1, <2>2
<1>2. CASE ExportStub(t)
  <2>1. Still /\ SameLives
    BY <1>2, ExportStubEffect DEF SameLives, ConnAt, ActiveAt
  <2>2. \A h \in Connections : ~conn[h].open => heard'[h] = heard[h] \/ heard'[h] = {}
    <3>1. heard' = heard \/ Announces(c, q.adapter) \/ TakesBack(c, q.adapter)
      BY <1>2, ExportStubEffect
    <3>2. \A h \in Connections : ~conn[h].open => heard[h] = {}
      BY DEF ConnectionsFit
    <3>3. CASE Announces(c, q.adapter)
      BY <3>3 DEF Announces
    <3>4. CASE TakesBack(c, q.adapter)
      BY <3>2, <3>4 DEF TakesBack
    <3> QED
      BY <3>1, <3>3, <3>4
  <2> QED
    BY <1>h, <2>1, <2>2
<1>3. CASE Enter(t)
  <2>1. Still /\ SameLives
    BY <1>3, EnterEffect DEF SameLives, ConnAt, ActiveAt
  <2>2. heard' = heard
    BY <1>3, EnterEffect
  <2> QED
    BY <1>h, <2>1, <2>2
<1>4. CASE RequestName(t)
  <2>1. Still /\ SameLives
    BY <1>4, RequestNameEffect DEF SameLives, ConnAt, ActiveAt
  <2>2. heard' = heard
    BY <1>4, RequestNameEffect
  <2> QED
    BY <1>h, <2>1, <2>2
<1>5. CASE CountManaged(t)
  <2>1. Still /\ SameLives
    BY <1>5, CountManagedEffect DEF SameLives, ConnAt, ActiveAt
  <2>2. heard' = heard
    BY <1>5, CountManagedEffect
  <2> QED
    BY <1>h, <2>1, <2>2
<1>6. CASE RollbackExport(t)
  <2>1. Still /\ SameLives
    BY <1>6, RollbackExportEffect DEF SameLives, ConnAt, ActiveAt
  <2>2. \A h \in Connections : ~conn[h].open => heard'[h] = heard[h] \/ heard'[h] = {}
    <3>1. heard' = heard \/ Announces(c, q.adapter) \/ TakesBack(c, q.adapter)
      BY <1>6, RollbackExportEffect
    <3>2. \A h \in Connections : ~conn[h].open => heard[h] = {}
      BY DEF ConnectionsFit
    <3>3. CASE Announces(c, q.adapter)
      BY <3>3 DEF Announces
    <3>4. CASE TakesBack(c, q.adapter)
      BY <3>2, <3>4 DEF TakesBack
    <3> QED
      BY <3>1, <3>3, <3>4
  <2> QED
    BY <1>h, <2>1, <2>2
<1>7. CASE Withdraw(t)
  <2>1. Still /\ SameLives
    BY <1>7, WithdrawEffect DEF SameLives, ConnAt, ActiveAt
  <2>2. heard' = heard
    BY <1>7, WithdrawEffect
  <2> QED
    BY <1>h, <2>1, <2>2
<1>8. CASE Erase(t)
  <2>1. Still /\ SameLives
    BY <1>8, EraseEffect DEF SameLives, ConnAt, ActiveAt
  <2>2. heard' = heard
    BY <1>8, EraseEffect
  <2> QED
    BY <1>h, <2>1, <2>2
<1>9. CASE Return(t)
  <2>1. Still /\ SameLives
    BY <1>9, ReturnEffect DEF SameLives, ConnAt, ActiveAt
  <2>2. heard' = heard
    BY <1>9, ReturnEffect
  <2> QED
    BY <1>h, <2>1, <2>2
<1>10. CASE Forget(t)
  <2>1. Still /\ SameLives
    BY <1>10, ForgetEffect DEF SameLives, ConnAt, ActiveAt
  <2>2. \A h \in Connections : ~conn[h].open => heard'[h] = heard[h] \/ heard'[h] = {}
    <3>1. heard' = heard \/ Announces(c, q.adapter) \/ TakesBack(c, q.adapter)
      BY <1>10, ForgetEffect
    <3>2. \A h \in Connections : ~conn[h].open => heard[h] = {}
      BY DEF ConnectionsFit
    <3>3. CASE Announces(c, q.adapter)
      BY <3>3 DEF Announces
    <3>4. CASE TakesBack(c, q.adapter)
      BY <3>2, <3>4 DEF TakesBack
    <3> QED
      BY <3>1, <3>3, <3>4
  <2> QED
    BY <1>h, <2>1, <2>2
<1>11. CASE Retract(t)
  <2>1. Still /\ SameLives
    BY <1>11, RetractEffect DEF SameLives, ConnAt, ActiveAt
  <2>2. heard' = heard
    BY <1>11, RetractEffect
  <2> QED
    BY <1>h, <2>1, <2>2
<1>12. CASE Release(t)
  <2>1. Still /\ SameLives
    BY <1>12, ReleaseEffect DEF SameLives, ConnAt, ActiveAt
  <2>2. heard' = heard
    BY <1>12, ReleaseEffect
  <2> QED
    BY <1>h, <2>1, <2>2
<1>13. CASE Leave(t)
  <2>1. Still /\ SameLives
    BY <1>13, LeaveEffect DEF SameLives, ConnAt, ActiveAt
  <2>2. heard' = heard
    BY <1>13, LeaveEffect
  <2> QED
    BY <1>h, <2>1, <2>2
<1>14. CASE Enlist(t)
  <2>1. Still /\ SameLives
    BY <1>14, EnlistEffect DEF SameLives, ConnAt, ActiveAt
  <2>2. heard' = heard
    BY <1>14, EnlistEffect
  <2> QED
    BY <1>h, <2>1, <2>2
<1>15. CASE Unlist(t)
  <2>1. Still /\ SameLives
    BY <1>15, UnlistEffect DEF SameLives, ConnAt, ActiveAt
  <2>2. heard' = heard
    BY <1>15, UnlistEffect
  <2> QED
    BY <1>h, <2>1, <2>2
<1>16. CASE Decrement(t)
  <2>1. /\ q.pc = "decrement" /\ c \in Connections /\ heard' = heard /\ proxies' = proxies
        /\ handling' = handling /\ c # 0
    BY <1>16, DecrementEffect, Numbered DEF SameHomes
  <2>2. CASE current' = current /\ SameLives
    BY <1>0, <2>1, <2>2, FitKept
  <2>3. CASE Closes(c) /\ conn[c].active <= 1
    <3>1. /\ current = c /\ current' = 0
          /\ \A h \in Connections :
               conn'[h].open = conn[h].open /\ conn'[h].closer = conn[h].closer
          /\ \A h \in Connections \ {c} : conn'[h].closing = conn[h].closing
          /\ conn'[c].closing
      BY <2>1, <2>3 DEF Closes
    <3>2. proxies[c] = 0
      <4>1. ~conn[c].closing
        BY <2>1, <3>1 DEF ConnectionsFit
      <4>2. t \in Takers(c)
        BY <2>1 DEF Takers
      <4>3. Cardinality(Takers(c)) >= 1
        BY <4>2, SetsFinite, NotEmpty
      <4> QED
        BY <1>0, <2>1, <2>3, <4>1, <4>3, SetsFinite, Typed DEF UsersCounted
    <3>3. ASSUME NEW h \in Connections
          PROVE  /\ conn'[h].open /\ h # current' => conn'[h].closing
                 /\ ~conn'[h].open => heard'[h] = {}
                 /\ handling'[h] # None => conn'[h].open \/ conn'[h].closer = DispatcherOf[h]
                 /\ proxies'[h] > 0 => current' = h
      BY <2>1, <3>1, <3>2 DEF ConnectionsFit
    <3> QED
      BY <3>1, <3>3 DEF ConnectionsFit
  <2> QED
    BY <1>16, <2>2, <2>3, DecrementEffect DEF SameUsers, SameLives, ActiveAt
<1>17. CASE Close(t)
  <2>1. /\ q.pc = "close" /\ c \in Connections /\ (t = DispatcherOf[c] \/ handling[c] = None)
        /\ proxies' = proxies /\ handling' = handling /\ current' = current
        /\ \A h \in Connections : heard'[h] = IF h = c THEN {} ELSE heard[h]
        /\ Shuts(c, t)
    BY <1>17, CloseEffect DEF SameHomes
  <2>2. current # c
    BY <1>0, <2>1, Numbered DEF ConnectionsFit, Shape
  <2>3. current \in Connections \/ current = 0
    BY <1>0 DEF TypeOK
  <2>4. current' # 0 => conn'[current'].open /\ ~conn'[current'].closing
    BY <2>1, <2>2, <2>3 DEF ConnectionsFit, Shuts
  <2>5. ASSUME NEW h \in Connections
        PROVE  /\ conn'[h].open /\ h # current' => conn'[h].closing
               /\ ~conn'[h].open => heard'[h] = {}
               /\ handling'[h] # None => conn'[h].open \/ conn'[h].closer = DispatcherOf[h]
               /\ proxies'[h] > 0 => current' = h
    BY <2>1 DEF ConnectionsFit, Shuts
  <2> QED
    BY <2>4, <2>5 DEF ConnectionsFit
<1>18. CASE Drop(t)
  <2>1. Quiet /\ SameUsers /\ SameHomes /\ handling' = handling
    BY <1>18, DropEffect
  <2>2. current' = current /\ SameLives /\ proxies' = proxies
    BY <2>1 DEF SameUsers, SameLives, SameHomes
  <2> QED
    BY <1>0, <2>1, <2>2, FitKept DEF Quiet
<1> QED
  BY <1>1, <1>2, <1>3, <1>4, <1>5, <1>6, <1>7, <1>8, <1>9, <1>10, <1>11, <1>12, <1>13, <1>14,
     <1>15, <1>16, <1>17, <1>18 DEF Continue

-----------------------------------------------------------------------------
(* HeardForm and ExportedForm.                                             *)

\* The forms of what is heard and exported.
Forms == HeardForm /\ ExportedForm

\* What is heard and exported keeps its form if it only shrinks.
LEMMA FormsKept ==
  ASSUME TypeOK, Forms, \A a \in Adapters : home[a] # 0 => home'[a] = home[a],
         \A h \in Connections : heard'[h] \subseteq heard[h],
         \A h \in Connections : manager'[h].exported[Root] \subseteq manager[h].exported[Root]
  PROVE  Forms'
<1>1. HeardForm'
  BY DEF Forms, HeardForm
<1>2. \A h \in Connections : manager[h].exported[Root] \subseteq Adapters
  BY Typed DEF Manager
<1>3. ExportedForm'
  BY <1>2, Numbered DEF Forms, ExportedForm
<1> QED
  BY <1>1, <1>3 DEF Forms

\* An announcement has the form.
LEMMA FormsAnnounced ==
  ASSUME TypeOK, Forms, home' = home, NEW a \in Adapters, NEW g \in Connections,
         home[a] = g, Announces(g, a)
  PROVE  Forms'
<1>1. ASSUME NEW h \in Connections, NEW e \in heard'[h], e.interface \in Addresses
      PROVE  e.path = PathOf[e.interface]
  <2>1. CASE e \in heard[h]
    BY <1>1, <2>1 DEF Forms, HeardForm
  <2>2. CASE e \in Interfaces(a) \cup PropertiesOf(a)
    <3>1. /\ e.path = PathOf[AddressOf[a]]
          /\ e.interface \in {AddressOf[a], "ObjectManager", "Properties"}
      BY <2>2 DEF Interfaces, PropertiesOf
    <3> QED
      BY <1>1, <3>1, ServicesAssumption
  <2> QED
    BY <1>1, <2>1, <2>2 DEF Announces
<1>2. ExportedForm'
  <2>1. \A h \in Connections : manager'[h].exported[Root] =
           IF h = g THEN manager[h].exported[Root] \cup {a} ELSE manager[h].exported[Root]
    BY DEF Announces
  <2>2. ASSUME NEW h \in Connections, NEW b \in manager'[h].exported[Root] PROVE home'[b] = h
    BY <2>1, <2>2 DEF Forms, ExportedForm
  <2> QED
    BY <2>2 DEF ExportedForm
<1> QED
  BY <1>1, <1>2 DEF Forms, HeardForm

\* A thread that begins an operation keeps the forms of what is heard and exported.
LEMMA FormsBegin ==
  ASSUME Base, Forms, NEW t \in Actors, Begin(t), Frame(t)
  PROVE  Forms'
<1>9. ASSUME Quiet PROVE Forms'
  BY <1>9, FormsKept DEF Quiet, SameRoot, Frame, Base
<1>1. ASSUME NEW a \in Adapters, RegisterStub(t, a) PROVE Forms'
  BY <1>1, RegisterStubEffect, <1>9
<1>2. ASSUME NEW a \in Adapters, NEW b \in Adapters, RegisterManaged(t, a, b) PROVE Forms'
  BY <1>2, RegisterManagedEffect, <1>9
<1>3. ASSUME NEW p \in Paths, NEW a \in Adapters, ExportManaged(t, p, a) PROVE Forms'
  BY <1>3, ExportManagedEffect, <1>9
<1>4. ASSUME NEW p \in Paths, NEW a \in Adapters, UnexportManaged(t, p, a) PROVE Forms'
  BY <1>4, UnexportManagedEffect, <1>9
<1>5. ASSUME NEW x \in Addresses, UnregisterStub(t, x) PROVE Forms'
  BY <1>5, UnregisterStubEffect, <1>9
<1>6. ASSUME NEW a \in Adapters, UnregisterManaged(t, a) PROVE Forms'
  BY <1>6, UnregisterManagedEffect, <1>9
<1>7. ASSUME NEW g \in Connections, CreateProxy(t, g) PROVE Forms'
  BY <1>7, CreateProxyEffect, <1>9
<1>8. ASSUME NEW g \in Connections, DestroyProxy(t, g) PROVE Forms'
  BY <1>8, DestroyProxyEffect, <1>9
<1> QED
  BY <1>1, <1>2, <1>3, <1>4, <1>5, <1>6, <1>7, <1>8 DEF Begin

\* A call that begins or ends in a dispatch thread keeps the forms of what is heard and exported.
LEMMA FormsDispatch ==
  ASSUME Base, Forms
  PROVE  /\ \A g \in Connections, x \in Addresses : Receive(g, x) => Forms'
         /\ \A g \in Connections : Reply(g) => Forms'
<1>9. ASSUME Quiet, home' = home PROVE Forms'
  BY <1>9, FormsKept DEF Quiet, SameRoot, Base
<1> QED
  BY <1>9, ReceiveEffect, ReplyEffect DEF SameHomes

\* A thread that goes on with its operation keeps the forms of what is heard and exported.
LEMMA FormsContinue ==
  ASSUME Base, ConnectionsFit, Forms, NEW t \in Actors, Continue(t), Frame(t)
  PROVE  Forms'
<1>0. TypeOK
  BY DEF Base
<1> PICK q \in Process : q = proc[t]
  BY <1>0, Typed
<1> PICK x : x = q.address
  OBVIOUS
<1> PICK b : b = services[x]
  OBVIOUS
<1> PICK g : g = home[b]
  OBVIOUS
<1> PICK c : c = q.conn
  OBVIOUS
<1>h. ASSUME \A h \in Connections : heard'[h] \subseteq heard[h],
             \A h \in Connections : manager'[h].exported[Root] \subseteq manager[h].exported[Root]
      PROVE  Forms'
  BY <1>0, <1>h, FormsKept DEF Frame
<1>1. CASE Insert(t)
  <2>1. heard' = heard /\ SameRoot
    BY <1>1, InsertEffect DEF Quiet
  <2> QED
    BY <1>h, <2>1 DEF SameRoot
<1>2. CASE ExportStub(t)
  <2>1. home' = home /\ q.adapter \in Adapters /\ c \in Connections /\ home[q.adapter] = c
    BY <1>2, ExportStubEffect DEF Still, AtWork
  <2>2. Announces(c, q.adapter) \/ TakesBack(c, q.adapter) \/ (heard' = heard /\ SameRoot)
    BY <1>2, ExportStubEffect
  <2>3. CASE Announces(c, q.adapter)
    BY <1>0, <2>1, <2>3, FormsAnnounced
  <2>4. CASE TakesBack(c, q.adapter)
    BY <1>h, <2>4 DEF TakesBack
  <2>5. CASE heard' = heard /\ SameRoot
    BY <1>h, <2>5 DEF SameRoot
  <2> QED
    BY <2>2, <2>3, <2>4, <2>5
<1>3. CASE Enter(t)
  <2>1. heard' = heard /\ SameRoot
    BY <1>3, EnterEffect DEF Quiet
  <2> QED
    BY <1>h, <2>1 DEF SameRoot
<1>4. CASE RequestName(t)
  <2>1. heard' = heard /\ SameRoot
    BY <1>4, RequestNameEffect DEF Quiet
  <2> QED
    BY <1>h, <2>1 DEF SameRoot
<1>5. CASE CountManaged(t)
  <2>1. heard' = heard /\ SameRoot
    BY <1>5, CountManagedEffect DEF Quiet
  <2> QED
    BY <1>h, <2>1 DEF SameRoot
<1>6. CASE RollbackExport(t)
  <2>1. home' = home /\ q.adapter \in Adapters /\ c \in Connections /\ home[q.adapter] = c
    BY <1>6, RollbackExportEffect DEF Still, AtWork
  <2>2. Announces(c, q.adapter) \/ TakesBack(c, q.adapter) \/ (heard' = heard /\ SameRoot)
    BY <1>6, RollbackExportEffect
  <2>3. CASE Announces(c, q.adapter)
    BY <1>0, <2>1, <2>3, FormsAnnounced
  <2>4. CASE TakesBack(c, q.adapter)
    BY <1>h, <2>4 DEF TakesBack
  <2>5. CASE heard' = heard /\ SameRoot
    BY <1>h, <2>5 DEF SameRoot
  <2> QED
    BY <2>2, <2>3, <2>4, <2>5
<1>7. CASE Withdraw(t)
  <2>1. heard' = heard /\ SameRoot
    BY <1>7, WithdrawEffect DEF Quiet
  <2> QED
    BY <1>h, <2>1 DEF SameRoot
<1>8. CASE Erase(t)
  <2>1. heard' = heard /\ SameRoot
    BY <1>8, EraseEffect DEF Quiet
  <2> QED
    BY <1>h, <2>1 DEF SameRoot
<1>9. CASE Return(t)
  <2>1. heard' = heard /\ SameRoot
    BY <1>9, ReturnEffect DEF Quiet
  <2> QED
    BY <1>h, <2>1 DEF SameRoot
<1>10. CASE Forget(t)
  <2>1. home' = home /\ q.adapter \in Adapters /\ c \in Connections /\ home[q.adapter] = c
    BY <1>10, ForgetEffect DEF Still, AtWork
  <2>2. Announces(c, q.adapter) \/ TakesBack(c, q.adapter) \/ (heard' = heard /\ SameRoot)
    BY <1>10, ForgetEffect
  <2>3. CASE Announces(c, q.adapter)
    BY <1>0, <2>1, <2>3, FormsAnnounced
  <2>4. CASE TakesBack(c, q.adapter)
    BY <1>h, <2>4 DEF TakesBack
  <2>5. CASE heard' = heard /\ SameRoot
    BY <1>h, <2>5 DEF SameRoot
  <2> QED
    BY <2>2, <2>3, <2>4, <2>5
<1>11. CASE Retract(t)
  <2>1. heard' = heard /\ SameRoot
    BY <1>11, RetractEffect DEF Quiet
  <2> QED
    BY <1>h, <2>1 DEF SameRoot
<1>12. CASE Release(t)
  <2>1. heard' = heard /\ SameRoot
    BY <1>12, ReleaseEffect DEF Quiet
  <2> QED
    BY <1>h, <2>1 DEF SameRoot
<1>13. CASE Leave(t)
  <2>1. heard' = heard /\ SameRoot
    BY <1>13, LeaveEffect DEF Quiet
  <2> QED
    BY <1>h, <2>1 DEF SameRoot
<1>14. CASE Enlist(t)
  <2>1. heard' = heard /\ SameRoot
    BY <1>14, EnlistEffect DEF Quiet
  <2> QED
    BY <1>h, <2>1 DEF SameRoot
<1>15. CASE Unlist(t)
  <2>1. heard' = heard /\ SameRoot
    BY <1>15, UnlistEffect DEF Quiet
  <2> QED
    BY <1>h, <2>1 DEF SameRoot
<1>16. CASE Decrement(t)
  <2>1. heard' = heard /\ SameRoot
    BY <1>16, DecrementEffect DEF Quiet
  <2> QED
    BY <1>h, <2>1 DEF SameRoot
<1>17. CASE Close(t)
  <2>1. SameRoot /\ \A h \in Connections : heard'[h] = IF h = c THEN {} ELSE heard[h]
    BY <1>17, CloseEffect
  <2> QED
    BY <1>h, <2>1 DEF SameRoot
<1>18. CASE Drop(t)
  <2>1. heard' = heard /\ SameRoot
    BY <1>18, DropEffect DEF Quiet
  <2> QED
    BY <1>h, <2>1 DEF SameRoot
<1> QED
  BY <1>1, <1>2, <1>3, <1>4, <1>5, <1>6, <1>7, <1>8, <1>9, <1>10, <1>11, <1>12, <1>13, <1>14,
     <1>15, <1>16, <1>17, <1>18 DEF Continue

=============================================================================
