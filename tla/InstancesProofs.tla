-------------------------- MODULE InstancesProofs --------------------------
(***************************************************************************)
(* Proofs about Instances: the types, the table of the event and what its  *)
(* listeners have heard, what the registry's cache tells the queries, and  *)
(* that a query after the event does not contradict it; for any instances, *)
(* queries and listeners, and whatever the service does how often.         *)
(***************************************************************************)
EXTENDS Instances, FiniteSetTheorems, TLAPS

-----------------------------------------------------------------------------
(* The inductive invariant.                                                *)

(* The kinds of messages: what comes from the manager, and from the        *)
(* daemon.                                                                 *)
SignalKinds == {"added", "removed"}
OwnerKinds  == {"owned", "lost"}

(* What is asked and what arrives is about one name; calls and signals     *)
(* about paths are about instances, and only answers list what was found.  *)
WellAddressed(m) ==
  /\ \E n \in Names : m.names = {n}
  /\ m.kind # "list" => m.gen \in Generations
  /\ m.kind \in SignalKinds \cup {"path"} => m.names \subseteq Instances
  /\ m.found \subseteq Instances
  /\ m.kind \in SignalKinds \cup OwnerKinds => m.found = {}
  /\ m.kind = "path" => m.found \subseteq m.names

(* A call about a path is about one of an instance, and to a process.      *)
CallsAddressed ==
  \A k \in DOMAIN requests :
    requests[k].kind = "path" => requests[k].name \in Instances /\ requests[k].gen \in Generations

(* All that has arrived is.                                                *)
MessagesAddressed == \A k \in DOMAIN inbox : WellAddressed(inbox[k])

(* A query that waits has found a path of an instance.                     *)
QueriesAddressed ==
  \A q \in Queries : query[q].pc = "waiting" =>
    query[q].instance \in Instances /\ query[q].gen \in Generations

(* All three.                                                              *)
Addressed == CallsAddressed /\ MessagesAddressed /\ QueriesAddressed

(* A process that is down has nothing.                                     *)
Down ==
  /\ ~service.up => service.names = {} /\ service.managed = {}
  /\ service.up => service.gen \in Generations

(* The handlers of the event are there while somebody listens; the first   *)
(* listener is not in the list before they are.                            *)
Handlers ==
  /\ Settled /\ event.listening # {} => event.installed = SignalKinds
  /\ event.pc = "added" => "added" \in event.installed
  /\ event.pc = "removed" => event.installed = SignalKinds
  /\ ~Settled => event.listening = {} /\ event.caller \in Listeners

(* What tells the event that an instance is there, and that it is not.     *)
Brings(m, i) == (m.kind = "added" /\ i \in m.names) \/ (m.kind = "list" /\ i \in m.found)
Takes(m, i) == m.kind = "removed" /\ i \in m.names

(* While somebody listens, an instance that the manager has is in the      *)
(* table, or will be brought; and nothing on its way takes it away again.  *)
NoneMissing ==
  Settled /\ event.listening # {} /\ ~history.failed =>
    \A i \in service.managed :
      \/ i \in event.interfaces /\ \A k \in DOMAIN inbox : ~Takes(inbox[k], i)
      \/ \E k \in DOMAIN inbox :
           Brings(inbox[k], i) /\ \A j \in DOMAIN inbox : j > k => ~Takes(inbox[j], i)
      \/ \E k \in DOMAIN requests : requests[k].kind = "list"

(* What the table has, or will be brought, the manager has, or it will be  *)
(* taken away, or nobody said that it is gone.                             *)
NoneTooMany ==
  /\ \A i \in event.interfaces :
       \/ i \in service.managed \cup history.unseen
       \/ \E j \in DOMAIN inbox : Takes(inbox[j], i)
  /\ \A i \in Instances, k \in DOMAIN inbox :
       Brings(inbox[k], i) =>
         \/ i \in service.managed \cup history.unseen
         \/ \E j \in DOMAIN inbox : j > k /\ Takes(inbox[j], i)

(* What the listeners have been told is in the table, and the rest of it   *)
(* was there when they came.                                               *)
ListenersTold ==
  /\ \A l \in event.listening :
       /\ event.heard[l] \subseteq event.interfaces
       /\ event.interfaces \subseteq event.heard[l] \cup history.since[l]
  /\ ~Settled => history.since[event.caller] = event.interfaces

(* The registry knows a process by the names that it owns, or has lost and *)
(* the loss is on its way; nothing arrives from a process that is older.   *)
Owning(g, n) == g = service.gen /\ n \in service.names
Loses(m, g, n) == m.kind = "lost" /\ m.gen = g /\ n \in m.names

OwnersFollow ==
  /\ \A g \in Generations : \A n \in reg.owned[g] :
       Owning(g, n) \/ \E k \in DOMAIN inbox : Loses(inbox[k], g, n)
  /\ \A k \in DOMAIN inbox : inbox[k].kind = "owned" => \A n \in inbox[k].names :
       \/ Owning(inbox[k].gen, n)
       \/ \E j \in DOMAIN inbox : j > k /\ Loses(inbox[j], inbox[k].gen, n)

(* Signals, of the manager and of the daemon, arrive in the order of the   *)
(* processes; nothing arrives of one that is older than one that the       *)
(* registry still knows.                                                   *)
IsOrdered(m) == m.kind \in SignalKinds \cup OwnerKinds

InOrder ==
  /\ \A k \in DOMAIN inbox : IsOrdered(inbox[k]) => inbox[k].gen <= service.gen
  /\ \A j, k \in DOMAIN inbox :
       j < k /\ IsOrdered(inbox[j]) /\ IsOrdered(inbox[k]) => inbox[j].gen <= inbox[k].gen
  /\ \A g \in Generations : reg.owned[g] # {} =>
       /\ g <= service.gen
       /\ \A k \in DOMAIN inbox : IsOrdered(inbox[k]) => g <= inbox[k].gen

(* A process whose signals are asked for has a name.                       *)
WatchedIsOwned == \A g \in reg.watched : reg.owned[g] # {}

(* A path waits for one answer, and lists nothing before.                  *)
Path(g, i) == reg.paths[g][i]

Fresh ==
  \A g \in Generations, i \in Instances \ history.doubled :
    Path(g, i).state = "RESOLVING" => Path(g, i).pending = 1 /\ ~Path(g, i).listed

(* No more than one call about a path, or its answer, is on its way, while *)
(* the path is being resolved; but for the paths whose answers cannot be   *)
(* told apart.                                                             *)
Asks(r, g, i) == r.kind = "path" /\ r.gen = g /\ r.name = i
Answers(m, g, i) == m.kind = "path" /\ m.gen = g /\ i \in m.names

Single(g, i) ==
  /\ \A k \in DOMAIN requests : Asks(requests[k], g, i) =>
       /\ Path(g, i).state = "RESOLVING"
       /\ \A j \in DOMAIN requests : Asks(requests[j], g, i) => j = k
       /\ \A j \in DOMAIN inbox : ~Answers(inbox[j], g, i)
  /\ \A k \in DOMAIN inbox : Answers(inbox[k], g, i) =>
       /\ Path(g, i).state = "RESOLVING"
       /\ \A j \in DOMAIN inbox : Answers(inbox[j], g, i) => j = k

(* The paths whose answers can be told apart.                              *)
Clear == Instances \ (history.doubled \cup history.dropped)

OneAnswer == \A g \in Generations, i \in Clear : Single(g, i)

(* What the registry will hear of an instance of a process; of a process   *)
(* that is watched, the last of it after the answer about a path is true,  *)
(* and if nothing more comes, what the path lists.                         *)
Tells(m, g, i) == m.gen = g /\ i \in m.names /\ m.kind \in SignalKinds \cup {"path"}
Says(m, i) == m.kind = "added" \/ (m.kind = "path" /\ i \in m.found)
LastWord(k, g, i) ==
  Tells(inbox[k], g, i) /\ \A j \in DOMAIN inbox : j > k => ~Tells(inbox[j], g, i)

WordTrue(g, i) ==
  /\ \/ Path(g, i).state = "RESOLVED"
     \/ \E k \in DOMAIN inbox : Answers(inbox[k], g, i)
     => \A k \in DOMAIN inbox : LastWord(k, g, i) => (Says(inbox[k], i) <=> i \in service.managed)
  /\ Path(g, i).state = "RESOLVED" /\ (\A k \in DOMAIN inbox : ~Tells(inbox[k], g, i))
     => (Path(g, i).listed <=> i \in service.managed)

LastWordTrue ==
  \A g \in reg.watched : service.up /\ g = service.gen => \A i \in Clear : WordTrue(g, i)

(* The registry has heard of the signal that the event will hear of.       *)
HeardFirst ==
  turn = "second" =>
    \A g \in reg.watched, i \in Instances :
      Tells(Head(inbox), g, i) /\ Path(g, i).state = "RESOLVED"
        => (Path(g, i).listed <=> Head(inbox).kind = "added")

(* An instance of which the event has told that it is gone is gone, no     *)
(* news of it is on its way, and no path lists it.                         *)
Brought(m, i) == i \in m.found \/ (m.kind = "added" /\ i \in m.names)

GoneForGood ==
  \A i \in history.gone :
    /\ i \notin service.managed
    /\ \A k \in DOMAIN inbox : ~Brought(inbox[k], i)
    /\ i \notin history.doubled => \A g \in reg.watched :
         Path(g, i).state = "RESOLVED" => ~Path(g, i).listed

QueriesKnow ==
  \A q \in Queries :
    query[q].pc = "waiting" /\ query[q].gone => query[q].instance \in history.gone

(* All of them.                                                            *)
Inv == /\ TypeOK /\ Addressed /\ Down /\ Handlers
       /\ NoneMissing /\ NoneTooMany /\ ListenersTold
       /\ OwnersFollow /\ InOrder /\ WatchedIsOwned
       /\ Fresh /\ OneAnswer /\ LastWordTrue /\ HeardFirst
       /\ GoneForGood /\ QueriesKnow

USE InstancesAssumption DEF Names, Generations

-----------------------------------------------------------------------------
(* How a sequence of calls or messages changes.                            *)

(* It grows by members of N, and each of M is among those.                 *)
Grows(s, t, N, M) ==
  /\ DOMAIN s \subseteq DOMAIN t
  /\ \A k \in DOMAIN s : t[k] = s[k]
  /\ \A k \in DOMAIN t \ DOMAIN s : t[k] \in N /\ \A j \in DOMAIN s : j < k
  /\ \A m \in M : \E k \in DOMAIN t \ DOMAIN s : t[k] = m

(* Its head is taken.                                                      *)
Shrinks(s, t) ==
  /\ 1 \in DOMAIN s /\ s[1] = Head(s)
  /\ \A k \in DOMAIN t : k + 1 \in DOMAIN s /\ t[k] = s[k + 1]
  /\ \A k \in DOMAIN s : k > 1 => k - 1 \in DOMAIN t /\ t[k - 1] = s[k]

(* A sequence that is not changed grows by nothing.                        *)
LEMMA Unchanged ==
  ASSUME NEW s
  PROVE  Grows(s, s, {}, {})
BY DEF Grows

(* One more.                                                               *)
LEMMA Appending ==
  ASSUME NEW S, NEW s \in Seq(S), NEW m \in S
  PROVE  Append(s, m) \in Seq(S) /\ Grows(s, Append(s, m), {m}, {m})
<1>1. /\ Append(s, m) \in Seq(S) /\ Len(Append(s, m)) = Len(s) + 1
      /\ \A k \in 1 .. Len(s) : Append(s, m)[k] = s[k]
      /\ Append(s, m)[Len(s) + 1] = m
  OBVIOUS
<1>2. DOMAIN s = 1 .. Len(s) /\ DOMAIN Append(s, m) = 1 .. Len(s) + 1 /\ Len(s) \in Nat
  BY <1>1
<1>3. Len(s) + 1 \in DOMAIN Append(s, m) \ DOMAIN s
  BY <1>2
<1>4. \A k \in DOMAIN Append(s, m) \ DOMAIN s : k = Len(s) + 1
  BY <1>2
<1> QED
  BY <1>1, <1>2, <1>3, <1>4 DEF Grows

(* Several more.                                                           *)
LEMMA Joining ==
  ASSUME NEW S, NEW s \in Seq(S), NEW t \in Seq(S),
         NEW N, \A k \in DOMAIN t : t[k] \in N,
         NEW M, \A m \in M : \E k \in DOMAIN t : t[k] = m
  PROVE  s \o t \in Seq(S) /\ Grows(s, s \o t, N, M)
<1>1. /\ s \o t \in Seq(S) /\ Len(s \o t) = Len(s) + Len(t)
      /\ \A k \in 1 .. Len(s) : (s \o t)[k] = s[k]
      /\ \A k \in 1 .. Len(t) : (s \o t)[Len(s) + k] = t[k]
  OBVIOUS
<1>2. /\ DOMAIN s = 1 .. Len(s) /\ DOMAIN t = 1 .. Len(t)
      /\ DOMAIN (s \o t) = 1 .. Len(s) + Len(t) /\ Len(s) \in Nat /\ Len(t) \in Nat
  BY <1>1
<1>3. \A k \in DOMAIN (s \o t) \ DOMAIN s :
        k - Len(s) \in DOMAIN t /\ k = Len(s) + (k - Len(s)) /\ k > Len(s)
  BY <1>2
<1>4. \A k \in DOMAIN t : Len(s) + k \in DOMAIN (s \o t) \ DOMAIN s
  BY <1>2
<1>5. \A k \in DOMAIN (s \o t) \ DOMAIN s : (s \o t)[k] = t[k - Len(s)]
  BY <1>1, <1>2, <1>3
<1> QED
  BY <1>1, <1>2, <1>3, <1>4, <1>5 DEF Grows

(* One less.                                                               *)
LEMMA Taking ==
  ASSUME NEW S, NEW s \in Seq(S), s # <<>>
  PROVE  Tail(s) \in Seq(S) /\ Shrinks(s, Tail(s)) /\ Head(s) \in S
<1>1. Tail(s) \in Seq(S) /\ Len(Tail(s)) = Len(s) - 1 /\ Len(s) \in Nat \ {0} /\ Head(s) \in S
  OBVIOUS
<1>2. \A k \in 1 .. Len(s) - 1 : Tail(s)[k] = s[k + 1]
  OBVIOUS
<1>3. DOMAIN s = 1 .. Len(s) /\ DOMAIN Tail(s) = 1 .. Len(s) - 1 /\ Head(s) = s[1]
  BY <1>1
<1>4. \A k \in DOMAIN s : k > 1 => k - 1 \in DOMAIN Tail(s) /\ (k - 1) + 1 = k
  BY <1>1, <1>3
<1> QED
  BY <1>1, <1>2, <1>3, <1>4 DEF Shrinks

(* An order of a finite set has all of its members.                        *)
LEMMA Orders ==
  ASSUME NEW S, IsFiniteSet(S), NEW order \in SetToSeqs(S)
  PROVE  order \in Seq(S) /\ \A x \in S : \E k \in DOMAIN order : order[k] = x
<1> DEFINE n == Cardinality(S)
<1>1. n \in Nat
  BY FS_CardinalityType
<1>2. order \in [1 .. n -> S] /\ IsInjective(order)
  BY DEF SetToSeqs, IsInjective
<1>3. order \in Injection(1 .. n, S)
  BY <1>2 DEF Injection
<1>4. IsFiniteSet(1 .. n) /\ Cardinality(1 .. n) = n
  BY <1>1, FS_Interval
<1>5. order \in Surjection(1 .. n, S)
  BY <1>3, <1>4, FS_Injection
<1>6. order \in Seq(S)
  BY <1>1, <1>2
<1> QED
  BY <1>2, <1>5, <1>6 DEF Surjection

-----------------------------------------------------------------------------
(* What arrives in each step.                                              *)

(* Messages of N are sent, among them all those of M.                      *)
Sends(N, M) == inbox' \in Seq(Message) /\ Grows(inbox, inbox', N, M)

(* The head of the inbox is taken.                                         *)
Takes1 == inbox' \in Seq(Message) /\ inbox # <<>> /\ Shrinks(inbox, inbox')

(* Whatever is about a name, or answers for one, is a message.             *)
LEMMA MessageTypes ==
  /\ \A kind \in {"owned", "lost", "added", "removed"}, g \in 0 .. MaxGenerations, n \in Names :
       About(kind, g, n) \in Message
  /\ \A kind \in {"path", "list"}, g \in 0 .. MaxGenerations, n \in Names,
        found \in SUBSET Instances : Answer(kind, g, n, found) \in Message
BY DEF About, Answer, Message

(* One message is sent.                                                    *)
LEMMA SendsOne ==
  ASSUME TypeOK, NEW m \in Message, inbox' = Append(inbox, m)
  PROVE  Sends({m}, {m})
BY Appending DEF TypeOK, Sends

(* None is.                                                                *)
LEMMA SendsNothing ==
  ASSUME TypeOK, UNCHANGED inbox
  PROVE  Sends({}, {})
BY Unchanged DEF TypeOK, Sends

(* The head is dispatched.                                                 *)
LEMMA TakesOne ==
  ASSUME TypeOK, inbox # <<>>, inbox' = Tail(inbox)
  PROVE  Takes1 /\ Head(inbox) \in Message
BY Taking DEF TypeOK, Takes1

(* The daemon's signals about some names, in any order.                    *)
LEMMA SendsAnnounced ==
  ASSUME TypeOK, NEW kind \in {"owned", "lost"}, NEW g \in 0 .. MaxGenerations,
         NEW S \in SUBSET Names, NEW order \in Seq(S), \A n \in S : \E k \in DOMAIN order : order[k] = n,
         inbox' = inbox \o Announced(kind, g, order)
  PROVE  Sends({About(kind, g, n) : n \in S}, {About(kind, g, n) : n \in S})
<1> DEFINE t == Announced(kind, g, order)
           A == {About(kind, g, n) : n \in S}
<1>1. t \in Seq(Message)
  BY MessageTypes DEF Announced
<1>2. DOMAIN t = DOMAIN order /\ \A k \in DOMAIN t : t[k] = About(kind, g, order[k])
  BY DEF Announced
<1>3. /\ \A k \in DOMAIN t : t[k] \in A
      /\ \A m \in A : \E k \in DOMAIN t : t[k] = m
  BY <1>2
<1>4. inbox' = inbox \o t /\ inbox \in Seq(Message)
  BY DEF TypeOK
<1> HIDE DEF t, A
<1>5. inbox \o t \in Seq(Message) /\ Grows(inbox, inbox \o t, A, A)
  BY <1>1, <1>3, <1>4, Joining
<1> QED
  BY <1>4, <1>5 DEF Sends, A

(* A process that starts sends the names that it has.                      *)
LEMMA StartSends ==
  ASSUME TypeOK, Start
  PROVE  Sends({About("owned", service.gen + 1, n) : n \in service'.names}, {})
<1> DEFINE g == service.gen + 1
<1>a. PICK named \in SUBSET Instances :
        /\ service' = [gen |-> g, up |-> TRUE, names |-> {Manager} \cup named, managed |-> {}]
        /\ \E order \in SetToSeqs(named) :
             inbox' = inbox \o Announced("owned", g, <<Manager>> \o order)
  BY Zenon DEF Start
<1>0. service'.names = {Manager} \cup named
  BY <1>a
<1>1. PICK order \in SetToSeqs(named) :
        inbox' = inbox \o Announced("owned", g, <<Manager>> \o order)
  BY <1>a
<1> DEFINE S == {Manager} \cup named
           whole == <<Manager>> \o order
<1>2. order \in Seq(named) /\ \A x \in named : \E k \in DOMAIN order : order[k] = x
  BY <1>1, Orders, FS_Subset
<1>3. /\ whole \in Seq(S) /\ DOMAIN whole = 1 .. Len(order) + 1 /\ whole[1] = Manager
      /\ \A k \in DOMAIN order : k + 1 \in DOMAIN whole /\ whole[k + 1] = order[k]
      /\ Len(order) \in Nat
  BY <1>2
<1>4. \A n \in S : \E k \in DOMAIN whole : whole[k] = n
  <2>1. 1 \in DOMAIN whole
    BY <1>3
  <2>2. ASSUME NEW n \in named PROVE \E k \in DOMAIN whole : whole[k] = n
    <3>1. PICK k \in DOMAIN order : order[k] = n
      BY <1>2, <2>2
    <3> QED
      BY <1>3, <3>1
  <2> QED
    BY <1>3, <2>1, <2>2
<1>5. g \in 0 .. MaxGenerations
  BY DEF Start, TypeOK
<1>6. Sends({About("owned", g, n) : n \in S}, {About("owned", g, n) : n \in S})
  BY <1>1, <1>3, <1>4, <1>5, SendsAnnounced
<1> QED
  BY <1>0, <1>6 DEF Sends, Grows

(* A process that ends loses all its names.                                *)
LEMMA DieSends ==
  ASSUME TypeOK, Die
  PROVE  Sends({About("lost", service.gen, n) : n \in service.names},
               {About("lost", service.gen, n) : n \in service.names})
<1>1. PICK order \in SetToSeqs(service.names) :
        inbox' = inbox \o Announced("lost", service.gen, order)
  BY DEF Die
<1>2. IsFiniteSet(Names)
  BY FS_AddElement
<1>3. service.names \in SUBSET Names /\ service.gen \in 0 .. MaxGenerations
  BY DEF TypeOK
<1>4. /\ order \in Seq(service.names)
      /\ \A x \in service.names : \E k \in DOMAIN order : order[k] = x
  BY <1>2, <1>3, Orders, FS_Subset
<1> QED
  BY <1>1, <1>3, <1>4, SendsAnnounced

(* A name that is acquired is announced.                                   *)
LEMMA AcquireSends ==
  ASSUME TypeOK, NEW i \in Instances, Acquire(i)
  PROVE  Sends({About("owned", service.gen, i)}, {About("owned", service.gen, i)})
<1>1. About("owned", service.gen, i) \in Message
  BY MessageTypes DEF TypeOK
<1> QED
  BY <1>1, SendsOne DEF Acquire

(* One that is released, too.                                              *)
LEMMA ReleaseSends ==
  ASSUME TypeOK, NEW i \in Instances, Release(i)
  PROVE  Sends({About("lost", service.gen, i)}, {About("lost", service.gen, i)})
<1>1. About("lost", service.gen, i) \in Message
  BY MessageTypes DEF TypeOK
<1> QED
  BY <1>1, SendsOne DEF Release

(* A signal about an instance is sent if somebody asked for it.            *)
LEMMA SignalSends ==
  ASSUME TypeOK, NEW i \in Instances, NEW kind \in SignalKinds, Signal(kind, i)
  PROVE  LET m == About(kind, service.gen, i)
         IN Sends({m}, IF Signalled(kind) THEN {m} ELSE {})
<1> DEFINE m == About(kind, service.gen, i)
<1>1. m \in Message
  BY MessageTypes DEF TypeOK, SignalKinds
<1>2. CASE Signalled(kind)
  BY <1>1, <1>2, SendsOne DEF Signal
<1>3. CASE ~Signalled(kind)
  <2>1. Sends({}, {})
    BY <1>3, SendsNothing DEF Signal
  <2> QED
    BY <1>3, <2>1 DEF Sends, Grows
<1> QED
  BY <1>2, <1>3

(* What an answer is, to each kind of call.                                *)
Truth(r) == IF service.up /\ r.gen = service.gen THEN service.managed \cap {r.name} ELSE {}

(* Each kind of call has an answer; but for a name that nobody owns.       *)
LEMMA AnswerSends ==
  ASSUME TypeOK, AnswerNext
  PROVE  LET r == Head(requests)
         IN /\ r \in Request /\ requests' \in Seq(Request) /\ Shrinks(requests, requests')
            /\ r.kind = "owner" => LET m == About("owned", service.gen, r.name)
                 IN Sends({m}, {}) /\ (r.name \in service.names \/ Sends({}, {}))
            /\ r.kind = "path" => LET m == Answer("path", r.gen, r.name, Truth(r)) IN Sends({m}, {m})
            /\ r.kind = "list" => LET m == Answer("list", 0, Manager, service.managed) IN Sends({m}, {m})
<1> DEFINE r == Head(requests)
<1>1. r \in Request /\ requests' \in Seq(Request) /\ Shrinks(requests, requests')
  BY Taking DEF AnswerNext, TypeOK
<1>2. /\ r.kind \in {"owner", "path", "list"} /\ r.name \in Names /\ r.gen \in 0 .. MaxGenerations
      /\ service.gen \in 0 .. MaxGenerations /\ service.managed \in SUBSET Instances
      /\ Truth(r) \in SUBSET Instances
  BY <1>1 DEF Request, TypeOK, Truth
<1>3. ASSUME r.kind = "owner"
      PROVE  LET m == About("owned", service.gen, r.name)
             IN Sends({m}, {}) /\ (r.name \in service.names \/ Sends({}, {}))
  <2> DEFINE m == About("owned", service.gen, r.name)
  <2>1. m \in Message
    BY <1>2, MessageTypes
  <2>2. CASE r.name \in service.names
    <3>1. inbox' = Append(inbox, m)
      BY <1>3, <2>2 DEF AnswerNext
    <3>2. Sends({m}, {m})
      BY <2>1, <3>1, SendsOne
    <3> QED
      BY <2>2, <3>2 DEF Sends, Grows
  <2>3. CASE r.name \notin service.names
    <3>1. UNCHANGED inbox
      BY <1>3, <2>3 DEF AnswerNext
    <3>2. Sends({}, {})
      BY <3>1, SendsNothing
    <3> QED
      BY <3>2 DEF Sends, Grows
  <2> QED
    BY <2>2, <2>3
<1>4. ASSUME r.kind = "path"
      PROVE  LET m == Answer("path", r.gen, r.name, Truth(r)) IN Sends({m}, {m})
  <2> DEFINE m == Answer("path", r.gen, r.name, Truth(r))
  <2>1. m \in Message
    BY <1>2, MessageTypes
  <2>2. inbox' = Append(inbox, m)
    BY <1>4 DEF AnswerNext, Truth
  <2> QED
    BY <2>1, <2>2, SendsOne
<1>5. ASSUME r.kind = "list"
      PROVE  LET m == Answer("list", 0, Manager, service.managed) IN Sends({m}, {m})
  <2> DEFINE m == Answer("list", 0, Manager, service.managed)
  <2>1. m \in Message
    BY <1>2, MessageTypes
  <2>2. inbox' = Append(inbox, m)
    BY <1>5 DEF AnswerNext
  <2> QED
    BY <2>1, <2>2, SendsOne
<1> QED
  BY <1>1, <1>3, <1>4, <1>5

(* A call that is given up has an empty one.                               *)
LEMMA GiveUpSends ==
  ASSUME TypeOK, GiveUp
  PROVE  /\ requests' \in Seq(Request) /\ Shrinks(requests, requests')
         /\ Head(requests) \in Request
         /\ Sends({Answer("list", 0, Manager, {})}, {Answer("list", 0, Manager, {})})
<1>1. Answer("list", 0, Manager, {}) \in Message
  BY MessageTypes
<1> QED
  BY <1>1, Taking, SendsOne DEF GiveUp, TypeOK

-----------------------------------------------------------------------------
(* What the operations of the registry do to owners and paths.             *)

(* What the registry is.                                                   *)
RegTypes == [owned : [Generations -> SUBSET Names], mapped : [Names -> 0 .. MaxGenerations],
             paths : [Generations -> [Instances -> Paths]], watched : SUBSET Generations]

(* A path that was not cached is, and is asked for.                        *)
Begins(g, i) ==
  /\ Path(g, i).state = "absent"
  /\ Path(g, i)'.state = "RESOLVING" /\ ~Path(g, i)'.listed /\ Path(g, i)'.pending = 1
  /\ requests' \in Seq(Request) /\ requests' = Append(requests, PathRequest(i, g))
  /\ Grows(requests, requests', {PathRequest(i, g)}, {PathRequest(i, g)})

(* A path that is resolved for the first time waits for one answer.        *)
LEMMA PathTypes ==
  /\ Absent \in Paths /\ Resolving(Absent) \in Paths
  /\ \A entry \in Paths : Resolving(entry) \in Paths
  /\ Resolving(Absent).state = "RESOLVING" /\ ~Resolving(Absent).listed
  /\ Resolving(Absent).pending = 1
<1>1. Absent \in Paths
  BY DEF Absent, Paths
<1>2. ASSUME NEW entry \in Paths PROVE Resolving(entry) \in Paths
  <2> DEFINE next == (entry.pending + 1) % 256
  <2>1. next \in 0 .. 255
    BY DEF Paths
  <2>2. Resolving(entry) = [entry EXCEPT !.state = "RESOLVING", !.pending = next]
    BY DEF Resolving
  <2> HIDE DEF next
  <2> QED
    BY <2>1, <2>2 DEF Paths
<1>3. (Absent.pending + 1) % 256 = 1
  BY DEF Absent
<1>4. /\ Resolving(Absent).state = "RESOLVING" /\ ~Resolving(Absent).listed
      /\ Resolving(Absent).pending = 1
  BY <1>3 DEF Absent, Resolving
<1> QED
  BY <1>1, <1>2, <1>4

(* The registry, its calls and its paths are in their types.               *)
LEMMA RegistryTyped ==
  ASSUME TypeOK
  PROVE  /\ reg \in RegTypes /\ requests \in Seq(Request)
         /\ \A g \in Generations, i \in Instances : Path(g, i) \in Paths
BY DEF TypeOK, RegTypes, Path

(* So is a call about a path.                                              *)
LEMMA PathRequestType ==
  ASSUME NEW g \in Generations, NEW i \in Instances
  PROVE  PathRequest(i, g) \in Request
BY DEF PathRequest, Request

(* A name gets an owner: a path is cached for it, or none is; who is       *)
(* watched now was watched before, or had no path.                         *)
LEMMA NameOwned ==
  ASSUME TypeOK, NEW g \in Generations, NEW n \in Names, OnNameOwned(g, n)
  PROVE  /\ reg' \in RegTypes /\ requests' \in Seq(Request) /\ UNCHANGED <<query, history>>
         /\ reg'.owned[g] = reg.owned[g] \cup {n}
         /\ \A h \in Generations : h # g => reg'.owned[h] = reg.owned[h]
         /\ \A h \in reg'.watched :
              h \in reg.watched \/ (h = g /\ \A i \in Instances : Path(g, i).state = "absent")
         /\ reg.watched \subseteq reg'.watched
         /\ \A h \in Generations, i \in Instances :
              Path(h, i)' = Path(h, i) \/ (h = g /\ i = n /\ Begins(g, n))
         /\ (UNCHANGED requests /\ \A h \in Generations, i \in Instances : Path(h, i)' = Path(h, i))
              \/ (n \in Instances /\ Begins(g, n))
<1> DEFINE new == n \in proxied /\ reg.paths[g][n].state = "absent"
           paths == [i \in Instances |-> IF new /\ i = n THEN Resolving(Absent)
                                                        ELSE reg.paths[g][i]]
           watched == IF (new \/ n = Manager) /\ Uncached(g)
                        THEN reg.watched \cup {g} ELSE reg.watched
<1>1. /\ reg' = [reg EXCEPT !.owned[g] = @ \cup {n}, !.mapped[n] = g,
                            !.paths[g] = paths, !.watched = watched]
      /\ requests' = IF new THEN Append(requests, PathRequest(n, g)) ELSE requests
      /\ UNCHANGED <<query, history>>
  BY DEF OnNameOwned
<1>2. reg \in RegTypes /\ requests \in Seq(Request) /\ proxied \subseteq Instances
  BY RegistryTyped DEF TypeOK
<1>3. paths \in [Instances -> Paths]
  BY <1>2, PathTypes DEF RegTypes
<1>4. watched \in SUBSET Generations /\ reg.watched \subseteq watched
  BY <1>2 DEF RegTypes
<1>5. \A h \in watched :
        h \in reg.watched \/ (h = g /\ \A i \in Instances : Path(g, i).state = "absent")
  BY <1>2 DEF Uncached, Path
<1> HIDE DEF paths, watched, new
<1>6. /\ reg'.owned = [reg.owned EXCEPT ![g] = @ \cup {n}]
      /\ reg'.mapped = [reg.mapped EXCEPT ![n] = g]
      /\ reg'.paths = [reg.paths EXCEPT ![g] = paths] /\ reg'.watched = watched
      /\ reg' = [owned |-> reg'.owned, mapped |-> reg'.mapped, paths |-> reg'.paths,
                 watched |-> reg'.watched]
  BY <1>1, <1>2 DEF RegTypes
<1>7. reg' \in RegTypes
  <2>1. /\ reg'.owned \in [Generations -> SUBSET Names]
        /\ reg'.mapped \in [Names -> 0 .. MaxGenerations]
        /\ reg'.watched \in SUBSET Generations
    BY <1>2, <1>4, <1>6 DEF RegTypes
  <2>2. reg'.paths \in [Generations -> [Instances -> Paths]]
    BY <1>2, <1>3, <1>6 DEF RegTypes
  <2> QED
    BY <1>6, <2>1, <2>2 DEF RegTypes
<1>8. \A h \in Generations, i \in Instances :
        Path(h, i)' = IF h = g THEN paths[i] ELSE Path(h, i)
  BY <1>2, <1>3, <1>6 DEF RegTypes, Path
<1>9. CASE new
  <2>1. n \in Instances /\ Path(g, n).state = "absent"
    BY <1>2, <1>9 DEF new, Path
  <2>2. Path(g, n)' = Resolving(Absent)
    BY <1>8, <1>9, <2>1 DEF paths
  <2>3. \A h \in Generations, i \in Instances :
          h # g \/ i # n => Path(h, i)' = Path(h, i)
    BY <1>8, <1>9 DEF paths, Path
  <2>4. /\ requests' \in Seq(Request)
        /\ Grows(requests, requests', {PathRequest(n, g)}, {PathRequest(n, g)})
    BY <1>1, <1>2, <1>9, <2>1, Appending, PathRequestType
  <2>5. Begins(g, n)
    BY <1>1, <1>9, <2>1, <2>2, <2>4, PathTypes DEF Begins
  <2> QED
    BY <1>1, <1>2, <1>4, <1>5, <1>6, <1>7, <2>1, <2>3, <2>4, <2>5 DEF RegTypes
<1>10. CASE ~new
  <2>1. \A h \in Generations, i \in Instances : Path(h, i)' = Path(h, i)
    BY <1>8, <1>10 DEF paths, Path
  <2> QED
    BY <1>1, <1>2, <1>4, <1>5, <1>6, <1>7, <1>10, <2>1 DEF RegTypes
<1> QED
  BY <1>9, <1>10

(* A path is dropped; which, is noted if it was being resolved.            *)
LEMMA NameLost ==
  ASSUME TypeOK, NEW g \in Generations, NEW n \in Names, OnNameLost(g, n)
  PROVE  /\ reg' \in RegTypes /\ UNCHANGED requests
         /\ reg'.owned[g] = reg.owned[g] \ {n}
         /\ \A h \in Generations : h # g => reg'.owned[h] = reg.owned[h]
         /\ reg'.watched \subseteq reg.watched
         /\ g \in reg'.watched => reg'.owned[g] # {}
         /\ \A h \in Generations, i \in Instances :
              \/ Path(h, i)' = Path(h, i)
              \/ Path(h, i)' = Absent
                   /\ (Path(h, i).state = "RESOLVING" => i \in history'.dropped)
         /\ history.dropped \subseteq history'.dropped /\ history'.dropped \subseteq Instances
         /\ history' = [history EXCEPT !.dropped = history'.dropped]
         /\ \A q \in Queries :
              query'[q] = query[q] \/ query'[q] = [query[q] EXCEPT !.torn = TRUE]
         /\ DOMAIN query' = Queries /\ query' = [q \in Queries |-> query'[q]]
<1> DEFINE last == reg.owned[g] \subseteq {n}
           dropped == {i \in Instances : n \in reg.owned[g] /\ (last \/ i = n)}
           paths == [i \in Instances |-> IF i \in dropped THEN Absent ELSE reg.paths[g][i]]
           watched == IF last THEN reg.watched \ {g} ELSE reg.watched
           more == {i \in dropped : reg.paths[g][i].state = "RESOLVING"}
<1>1. /\ reg' = [reg EXCEPT !.owned[g] = @ \ {n}, !.paths[g] = paths, !.watched = watched]
      /\ history' = [history EXCEPT !.dropped = @ \cup more]
      /\ UNCHANGED requests
      /\ query' = [q \in Queries |->
           IF query[q].pc = "waiting" /\ query[q].gen = g /\ query[q].instance \in dropped
             THEN [query[q] EXCEPT !.torn = TRUE] ELSE query[q]]
  BY DEF OnNameLost
<1>2. reg \in RegTypes /\ history.dropped \subseteq Instances
      /\ history' = [history EXCEPT !.dropped = history'.dropped]
      /\ history'.dropped = history.dropped \cup more
  BY <1>1, RegistryTyped DEF TypeOK
<1>3. paths \in [Instances -> Paths] /\ dropped \subseteq Instances /\ more \subseteq Instances
  BY <1>2, PathTypes DEF RegTypes
<1>4. watched \subseteq reg.watched /\ (g \in watched => reg.owned[g] \ {n} # {})
  OBVIOUS
<1>5. /\ reg'.owned = [reg.owned EXCEPT ![g] = @ \ {n}]
      /\ reg'.mapped = reg.mapped
      /\ reg'.paths = [reg.paths EXCEPT ![g] = paths] /\ reg'.watched = watched
      /\ reg' = [owned |-> reg'.owned, mapped |-> reg'.mapped, paths |-> reg'.paths,
                 watched |-> reg'.watched]
  <2> HIDE DEF paths, watched, dropped, last, more
  <2> QED
    BY <1>1, <1>2 DEF RegTypes
<1>6. \A h \in Generations, i \in Instances :
        Path(h, i)' = IF h = g THEN paths[i] ELSE Path(h, i)
  <2> HIDE DEF paths
  <2> QED
    BY <1>2, <1>3, <1>5 DEF RegTypes, Path
<1>7. \A h \in Generations, i \in Instances :
        \/ Path(h, i)' = Path(h, i)
        \/ Path(h, i)' = Absent /\ (Path(h, i).state = "RESOLVING" => i \in history'.dropped)
  BY <1>2, <1>6 DEF Path
<1>8. \A q \in Queries : query'[q] = query[q] \/ query'[q] = [query[q] EXCEPT !.torn = TRUE]
  BY <1>1
<1>9. DOMAIN query' = Queries /\ query' = [q \in Queries |-> query'[q]]
  BY <1>1
<1> HIDE DEF paths, watched, dropped, last, more
<1>10. reg' \in RegTypes
  <2>1. /\ reg'.owned \in [Generations -> SUBSET Names]
        /\ reg'.mapped \in [Names -> 0 .. MaxGenerations]
        /\ reg'.watched \in SUBSET Generations
    BY <1>2, <1>4, <1>5 DEF RegTypes
  <2>2. reg'.paths \in [Generations -> [Instances -> Paths]]
    BY <1>2, <1>3, <1>5 DEF RegTypes
  <2> QED
    BY <1>5, <2>1, <2>2 DEF RegTypes
<1>11. /\ reg'.owned[g] = reg.owned[g] \ {n}
       /\ \A h \in Generations : h # g => reg'.owned[h] = reg.owned[h]
  BY <1>2, <1>5 DEF RegTypes
<1> QED
  BY <1>1, <1>2, <1>3, <1>4, <1>5, <1>7, <1>8, <1>9, <1>10, <1>11

(* An answer counts for the path that is cached.                           *)
LEMMA PathAnswered ==
  ASSUME TypeOK, NEW g \in Generations, NEW n \in Instances, NEW found \in SUBSET Instances,
         OnPathAnswered(g, n, found)
  PROVE  /\ reg' \in RegTypes /\ UNCHANGED <<requests, query, history>>
         /\ reg'.owned = reg.owned /\ reg'.watched = reg.watched
         /\ \A h \in Generations, i \in Instances :
              h # g \/ i # n => Path(h, i)' = Path(h, i)
         /\ Path(g, n).state = "absent" => Path(g, n)' = Path(g, n)
         /\ Path(g, n).state # "absent" =>
              /\ Path(g, n)'.listed = (Path(g, n).listed \/ n \in found)
              /\ Path(g, n)'.state \in {Path(g, n).state, "RESOLVED"}
              /\ Path(g, n).pending = 1 => Path(g, n)'.state = "RESOLVED"
<1> DEFINE entry == reg.paths[g][n]
           pending == (entry.pending + 255) % 256
           new == [entry EXCEPT !.listed = @ \/ n \in found, !.pending = pending,
                                !.state = IF pending = 0 THEN "RESOLVED" ELSE @]
<1>1. /\ reg' = IF entry.state = "absent" THEN reg ELSE [reg EXCEPT !.paths[g][n] = new]
      /\ UNCHANGED <<requests, query, history>>
  BY DEF OnPathAnswered
<1>2. reg \in RegTypes /\ entry \in Paths
  BY RegistryTyped DEF Path
<1>3. pending \in 0 .. 255 /\ (entry.pending = 1 => pending = 0)
  <2> DEFINE waiting == entry.pending
  <2>1. waiting \in 0 .. 255
    BY <1>2 DEF Paths
  <2> HIDE DEF waiting
  <2>2. (waiting + 255) % 256 \in 0 .. 255 /\ (waiting = 1 => (waiting + 255) % 256 = 0)
    BY <2>1
  <2> QED
    BY <2>2 DEF waiting
<1>4. new \in Paths
  <2> HIDE DEF pending
  <2> QED
    BY <1>2, <1>3 DEF Paths
<1>5. /\ new.listed = (entry.listed \/ n \in found) /\ new.state \in {entry.state, "RESOLVED"}
      /\ entry.pending = 1 => new.state = "RESOLVED"
  <2> HIDE DEF pending
  <2> QED
    BY <1>2, <1>3 DEF Paths
<1>6. CASE entry.state = "absent"
  BY <1>1, <1>2, <1>6 DEF Path
<1>7. CASE entry.state # "absent"
  <2> HIDE DEF new, entry
  <2>1. reg' = [reg EXCEPT !.paths[g][n] = new]
    BY <1>1, <1>7
  <2>2. /\ reg' \in RegTypes
        /\ reg'.owned = reg.owned /\ reg'.watched = reg.watched
        /\ \A h \in Generations, i \in Instances :
             Path(h, i)' = IF h = g /\ i = n THEN new ELSE Path(h, i)
    BY <1>2, <1>4, <2>1 DEF RegTypes, Path
  <2> QED
    BY <1>1, <1>5, <1>7, <2>2 DEF Path, entry
<1> QED
  BY <1>6, <1>7

(* A signal changes what a resolved path of a watched process lists.       *)
LEMMA SignalTold ==
  ASSUME TypeOK, NEW g \in Generations, NEW n \in Instances, NEW kind \in SignalKinds,
         RegistryTold(kind, g, n)
  PROVE  /\ reg' \in RegTypes
         /\ reg'.owned = reg.owned /\ reg'.watched = reg.watched
         /\ \A h \in Generations, i \in Instances :
              h # g \/ i # n => Path(h, i)' = Path(h, i)
         /\ g \notin reg.watched \/ Path(g, n).state # "RESOLVED" => Path(g, n)' = Path(g, n)
         /\ Path(g, n)'.state = Path(g, n).state /\ Path(g, n)'.pending = Path(g, n).pending
         /\ g \in reg.watched /\ Path(g, n).state = "RESOLVED" =>
              Path(g, n)'.listed = (kind = "added")
<1>1. reg \in RegTypes /\ Path(g, n) \in Paths
  BY RegistryTyped
<1>2. CASE ~(g \in reg.watched /\ Path(g, n).state = "RESOLVED")
  BY <1>1, <1>2 DEF RegistryTold, Path
<1>3. CASE g \in reg.watched /\ Path(g, n).state = "RESOLVED"
  <2> DEFINE new == [Path(g, n) EXCEPT !.listed = (kind = "added")]
  <2>1. new \in Paths /\ new.state = Path(g, n).state /\ new.pending = Path(g, n).pending
        /\ new.listed = (kind = "added")
    BY <1>1 DEF Paths
  <2>2. reg' = [reg EXCEPT !.paths[g][n].listed = (kind = "added")]
    BY <1>3 DEF RegistryTold, Path
  <2>3. reg' = [reg EXCEPT !.paths[g][n] = new]
    BY <1>1, <2>2 DEF RegTypes, Path
  <2> HIDE DEF new
  <2>4. /\ reg' \in RegTypes
        /\ reg'.owned = reg.owned /\ reg'.watched = reg.watched
        /\ \A h \in Generations, i \in Instances :
             Path(h, i)' = IF h = g /\ i = n THEN new ELSE Path(h, i)
    BY <1>1, <2>1, <2>3 DEF RegTypes, Path
  <2> QED
    BY <1>3, <2>1, <2>4
<1> QED
  BY <1>2, <1>3

(* A query asks for a path that was not cached.                            *)
LEMMA AbsentLooked ==
  ASSUME TypeOK, NEW q \in Queries, NEW i \in Instances, LookAbsent(q, i)
  PROVE  \E g \in Generations :
            /\ g = reg.mapped[i] /\ reg.owned[g] # {}
            /\ reg' \in RegTypes /\ reg'.owned = reg.owned /\ reg'.watched = reg.watched
            /\ \A h \in Generations, j \in Instances :
                 h # g \/ j # i => Path(h, j)' = Path(h, j)
            /\ Begins(g, i)
<1>2. PICK g \in Generations : g = reg.mapped[i] /\ reg.owned[g] # {}
  BY RegistryTyped DEF LookAbsent, Continue, Found, RegTypes
<1> DEFINE new == Resolving([Absent EXCEPT !.future = "kept"])
<1>1. reg \in RegTypes /\ requests \in Seq(Request) /\ Path(g, i) = reg.paths[g][i]
  BY RegistryTyped DEF Path
<1>3. /\ Path(g, i).state = "absent" /\ reg' = [reg EXCEPT !.paths[g][i] = new]
      /\ requests' = Append(requests, PathRequest(i, g))
  BY <1>2 DEF LookAbsent, Resolve, Path
<1>4. /\ new \in Paths /\ new.state = "RESOLVING" /\ ~new.listed /\ new.pending = 1
  <2> DEFINE kept == [Absent EXCEPT !.future = "kept"]
  <2>0. Absent \in Paths /\ Absent.pending = 0 /\ ~Absent.listed
    BY PathTypes DEF Absent
  <2>1. kept \in Paths /\ kept.pending = 0 /\ ~kept.listed
    BY <2>0 DEF Paths
  <2> HIDE DEF kept
  <2>2. (kept.pending + 1) % 256 = 1
    BY <2>1
  <2>3. Resolving(kept) \in Paths
    BY <2>1, PathTypes
  <2>4. Resolving(kept).state = "RESOLVING" /\ ~Resolving(kept).listed /\ Resolving(kept).pending = 1
    BY <2>1, <2>2 DEF Resolving, Paths
  <2> QED
    BY <2>3, <2>4 DEF kept
<1> HIDE DEF new
<1>5. /\ reg' \in RegTypes
      /\ reg'.owned = reg.owned /\ reg'.watched = reg.watched
      /\ \A h \in Generations, j \in Instances :
           Path(h, j)' = IF h = g /\ j = i THEN new ELSE Path(h, j)
  BY <1>1, <1>2, <1>3, <1>4 DEF RegTypes, Path
<1>6. /\ requests' \in Seq(Request)
      /\ Grows(requests, requests', {PathRequest(i, g)}, {PathRequest(i, g)})
  BY <1>1, <1>2, <1>3, Appending, PathRequestType
<1> QED
  BY <1>2, <1>3, <1>4, <1>5, <1>6 DEF Begins

(* A query asks again for one that is being resolved.                      *)
LEMMA UnresolvedLooked ==
  ASSUME TypeOK, NEW q \in Queries, NEW i \in Instances, LookUnresolved(q, i)
  PROVE  \E g \in Generations :
            /\ g = reg.mapped[i] /\ reg.owned[g] # {}
            /\ reg' \in RegTypes /\ reg'.owned = reg.owned /\ reg'.watched = reg.watched
            /\ \A h \in Generations, j \in Instances :
                 h # g \/ j # i => Path(h, j)' = Path(h, j)
            /\ Path(g, i).state = "RESOLVING" /\ Path(g, i)'.state = "RESOLVING"
            /\ requests' \in Seq(Request)
            /\ Grows(requests, requests', {PathRequest(i, g)}, {PathRequest(i, g)})
<1>2. PICK g \in Generations : g = reg.mapped[i] /\ reg.owned[g] # {}
  BY RegistryTyped DEF LookUnresolved, Continue, Found, RegTypes
<1> DEFINE new == Resolving([reg.paths[g][i] EXCEPT !.future = "taken"])
<1>1. reg \in RegTypes /\ requests \in Seq(Request) /\ Path(g, i) = reg.paths[g][i]
  BY RegistryTyped DEF Path
<1>3. /\ Path(g, i).state = "RESOLVING" /\ reg' = [reg EXCEPT !.paths[g][i] = new]
      /\ requests' = Append(requests, PathRequest(i, g))
  BY <1>2 DEF LookUnresolved, Resolve, Path
<1>4. /\ new \in Paths /\ new.state = "RESOLVING"
  <2> DEFINE entry == reg.paths[g][i]
             taken == [entry EXCEPT !.future = "taken"]
  <2>1. entry \in Paths
    BY <1>1, <1>2, RegistryTyped
  <2> HIDE DEF entry
  <2>2. taken \in Paths
    BY <2>1 DEF Paths
  <2> HIDE DEF taken
  <2>3. taken.pending \in 0 .. 255
    BY <2>2 DEF Paths
  <2>4. (taken.pending + 1) % 256 \in 0 .. 255
    BY <2>3
  <2> DEFINE next == (taken.pending + 1) % 256
  <2>5. next \in 0 .. 255
    BY <2>4
  <2>6. Resolving(taken) = [taken EXCEPT !.state = "RESOLVING", !.pending = next]
    BY DEF Resolving
  <2> HIDE DEF next
  <2>7. Resolving(taken) \in Paths /\ Resolving(taken).state = "RESOLVING"
    BY <2>2, <2>5, <2>6 DEF Paths
  <2> QED
    BY <2>7 DEF taken, entry
<1> HIDE DEF new
<1>5. /\ reg' \in RegTypes
      /\ reg'.owned = reg.owned /\ reg'.watched = reg.watched
      /\ \A h \in Generations, j \in Instances :
           Path(h, j)' = IF h = g /\ j = i THEN new ELSE Path(h, j)
  BY <1>1, <1>2, <1>3, <1>4 DEF RegTypes, Path
<1>6. /\ requests' \in Seq(Request)
      /\ Grows(requests, requests', {PathRequest(i, g)}, {PathRequest(i, g)})
  BY <1>1, <1>2, <1>3, Appending, PathRequestType
<1> QED
  BY <1>2, <1>3, <1>4, <1>5, <1>6

-----------------------------------------------------------------------------
(* What the steps do to the event and to the queries.                      *)

(* What the event, a query, the history and the service are.               *)
EventTypes == [pc : {"idle", "added", "removed"}, caller : Listeners \cup {None},
               installed : SUBSET {"added", "removed"}, listening : SUBSET Listeners,
               interfaces : SUBSET Instances, heard : [Listeners -> SUBSET Instances]]
QueryTypes == [pc : {"idle", "waiting", "thrown", "done"},
               instance : Instances \cup {None}, gen : 0 .. MaxGenerations,
               torn : BOOLEAN, gone : BOOLEAN, answer : BOOLEAN]
HistoryTypes == [unseen : SUBSET Instances, gone : SUBSET Instances,
                 since : [Listeners -> SUBSET Instances], failed : BOOLEAN,
                 doubled : SUBSET Instances, dropped : SUBSET Instances,
                 changes : Nat, toggles : Nat, failures : Nat]
ServiceTypes == [gen : 0 .. MaxGenerations, up : BOOLEAN,
                 names : SUBSET Names, managed : SUBSET Instances]

(* The types, record by record.                                            *)
LEMMA Typed ==
  ASSUME TypeOK
  PROVE  /\ service \in ServiceTypes /\ event \in EventTypes /\ history \in HistoryTypes
         /\ query \in [Queries -> QueryTypes] /\ reg \in RegTypes
         /\ inbox \in Seq(Message) /\ requests \in Seq(Request)
BY DEF TypeOK, ServiceTypes, EventTypes, HistoryTypes, QueryTypes, RegTypes

(* What stays when only the table changes.                                 *)
EventFrame ==
  /\ event' \in EventTypes
  /\ event'.pc = event.pc /\ event'.caller = event.caller
  /\ event'.installed = event.installed /\ event'.listening = event.listening

(* Instances come into the table.                                          *)
LEMMA TableGrows ==
  ASSUME TypeOK, NEW is \in SUBSET Instances, Added(is)
  PROVE  /\ EventFrame /\ event'.interfaces = event.interfaces \cup is
         /\ \A l \in event.listening :
              event'.heard[l] = event.heard[l] \cup (is \ event.interfaces)
<1> DEFINE heard == [l \in Listeners |-> IF l \in event.listening
                       THEN event.heard[l] \cup (is \ event.interfaces) ELSE event.heard[l]]
<1>1. event \in EventTypes
  BY Typed
<1>2. event' = [event EXCEPT !.interfaces = @ \cup is, !.heard = heard]
  BY <1>1 DEF Added, EventTypes
<1>3. heard \in [Listeners -> SUBSET Instances]
  BY <1>1 DEF EventTypes
<1>4. \A l \in event.listening : heard[l] = event.heard[l] \cup (is \ event.interfaces)
  BY <1>1 DEF EventTypes
<1> HIDE DEF heard
<1> QED
  BY <1>1, <1>2, <1>3, <1>4 DEF EventTypes, EventFrame

(* An instance leaves it.                                                  *)
LEMMA TableShrinks ==
  ASSUME TypeOK, NEW i \in Instances, Removed(i)
  PROVE  /\ EventFrame /\ event'.interfaces = event.interfaces \ {i}
         /\ \A l \in event.listening :
              event'.heard[l] = IF i \in event.interfaces THEN event.heard[l] \ {i}
                                ELSE event.heard[l]
<1> DEFINE heard == [l \in Listeners |-> IF l \in event.listening /\ i \in event.interfaces
                       THEN event.heard[l] \ {i} ELSE event.heard[l]]
<1>1. event \in EventTypes
  BY Typed
<1>2. event' = [event EXCEPT !.interfaces = @ \ {i}, !.heard = heard]
  BY <1>1 DEF Removed, EventTypes
<1>3. heard \in [Listeners -> SUBSET Instances]
  BY <1>1 DEF EventTypes
<1>4. \A l \in event.listening : heard[l] = IF i \in event.interfaces THEN event.heard[l] \ {i}
                                            ELSE event.heard[l]
  BY <1>1 DEF EventTypes
<1> HIDE DEF heard
<1> QED
  BY <1>1, <1>2, <1>3, <1>4 DEF EventTypes, EventFrame

(* What a query becomes that finds a process.                              *)
LEMMA Continued ==
  ASSUME TypeOK, NEW q \in Queries, NEW i \in Instances, NEW pc \in {"waiting", "thrown"},
         Continue(q, i, pc)
  PROVE  /\ query' \in [Queries -> QueryTypes] /\ query[q].pc = "idle"
         /\ query'[q].pc = pc /\ query'[q].instance = i /\ query'[q].gen = reg.mapped[i]
         /\ query'[q].gone = (i \in history.gone) /\ query'[q].gen \in Generations
         /\ reg.owned[reg.mapped[i]] # {}
         /\ \A r \in Queries : r # q => query'[r] = query[r]
<1>1. query \in [Queries -> QueryTypes] /\ reg \in RegTypes
  BY Typed
<1>2. reg.mapped[i] \in Generations /\ reg.mapped[i] \in 0 .. MaxGenerations
  BY <1>1 DEF Continue, Found, RegTypes
<1> DEFINE gone == i \in history.gone
           new == [query[q] EXCEPT !.pc = pc, !.instance = i, !.gen = reg.mapped[i],
                                   !.gone = gone]
<1>3. new \in QueryTypes
  <2>1. gone \in BOOLEAN /\ query[q] \in QueryTypes
    BY <1>1
  <2> HIDE DEF gone
  <2> QED
    BY <1>2, <2>1 DEF QueryTypes
<1>4. query' = [query EXCEPT ![q] = new]
  BY <1>1, <1>2 DEF Continue, QueryTypes
<1>5. /\ new.pc = pc /\ new.instance = i /\ new.gen = reg.mapped[i]
      /\ new.gone = (i \in history.gone)
  BY <1>1 DEF QueryTypes
<1> HIDE DEF new, gone
<1>6. /\ query' \in [Queries -> QueryTypes] /\ query'[q] = new
      /\ \A r \in Queries : r # q => query'[r] = query[r]
  BY <1>1, <1>3, <1>4
<1>7. query[q].pc = "idle" /\ reg.owned[reg.mapped[i]] # {}
  BY DEF Continue, Found
<1> QED
  BY <1>2, <1>5, <1>6, <1>7

-----------------------------------------------------------------------------
(* What is dispatched.                                                     *)

(* The name of a message is the one that it is about.                      *)
LEMMA NameOf ==
  ASSUME NEW m, NEW n, m.names = {n}
  PROVE  TheName(m) = n
BY DEF TheName

(* The head is taken from the inbox, or stays at its head.                 *)
LEMMA TheHead ==
  ASSUME TypeOK, Addressed, inbox # <<>>
  PROVE  /\ 1 \in DOMAIN inbox /\ inbox[1] = Head(inbox) /\ Head(inbox) \in Message
         /\ WellAddressed(Head(inbox))
         /\ \E n \in Names : Head(inbox).names = {n} /\ TheName(Head(inbox)) = n
<1>1. Shrinks(inbox, Tail(inbox)) /\ Head(inbox) \in Message
  BY Taking DEF TypeOK
<1>2. 1 \in DOMAIN inbox /\ inbox[1] = Head(inbox)
  BY <1>1 DEF Shrinks
<1>3. WellAddressed(Head(inbox))
  BY <1>2 DEF Addressed, MessagesAddressed
<1>4. PICK n \in Names : Head(inbox).names = {n}
  BY <1>3 DEF WellAddressed
<1>5. TheName(Head(inbox)) = n
  BY <1>4, NameOf
<1> QED
  BY <1>1, <1>2, <1>3, <1>4, <1>5

(* The registry is told of an owner, or of the end of one, or gets an      *)
(* answer.                                                                 *)
LEMMA DispatchedToRegistry ==
  ASSUME TypeOK, Addressed, DispatchToRegistry
  PROVE  LET m == Head(inbox)
         IN /\ Takes1 /\ 1 \in DOMAIN inbox /\ inbox[1] = m /\ m \in Message /\ WellAddressed(m)
            /\ m.gen \in Generations /\ UNCHANGED <<service, turn, event>>
            /\ \E n \in Names :
                 /\ m.names = {n}
                 /\ \/ m.kind = "owned" /\ OnNameOwned(m.gen, n)
                    \/ m.kind = "lost" /\ OnNameLost(m.gen, n)
                    \/ m.kind = "path" /\ n \in Instances /\ m.found \in SUBSET Instances
                         /\ OnPathAnswered(m.gen, n, m.found)
<1> DEFINE m == Head(inbox)
<1>1. inbox # <<>> /\ m.kind \in {"owned", "lost", "path"} /\ inbox' = Tail(inbox)
      /\ UNCHANGED <<service, turn, event>>
  BY DEF DispatchToRegistry, Receive
<1>2. Takes1 /\ m \in Message /\ 1 \in DOMAIN inbox /\ inbox[1] = m /\ WellAddressed(m)
  BY <1>1, TakesOne, TheHead
<1>3. PICK n \in Names : m.names = {n} /\ TheName(m) = n
  BY <1>1, TheHead
<1>4. m.gen \in Generations /\ (m.kind = "path" => n \in Instances /\ m.found \in SUBSET Instances)
  BY <1>1, <1>2, <1>3 DEF WellAddressed
<1>5. /\ m.kind = "owned" => OnNameOwned(m.gen, n)
      /\ m.kind = "lost" => OnNameLost(m.gen, n)
      /\ m.kind = "path" => OnPathAnswered(m.gen, n, m.found)
  BY <1>3 DEF DispatchToRegistry
<1> QED
  BY <1>1, <1>2, <1>3, <1>4, <1>5

(* The registry is told of a signal, which stays at the head.              *)
LEMMA SignalFirst ==
  ASSUME TypeOK, Addressed, DispatchSignalFirst
  PROVE  LET m == Head(inbox)
         IN /\ 1 \in DOMAIN inbox /\ inbox[1] = m /\ inbox # <<>>
            /\ m.gen \in Generations /\ m.kind \in SignalKinds
            /\ turn = "first" /\ turn' = "second" /\ UNCHANGED <<bus, event, history, query>>
            /\ \E n \in Instances : m.names = {n} /\ RegistryTold(m.kind, m.gen, n)
<1> DEFINE m == Head(inbox)
<1>1. /\ inbox # <<>> /\ m.kind \in SignalKinds /\ turn = "first" /\ turn' = "second"
      /\ UNCHANGED <<bus, event, history, query>> /\ RegistryTold(m.kind, m.gen, TheName(m))
  BY DEF DispatchSignalFirst, Told, SignalKinds
<1>2. 1 \in DOMAIN inbox /\ inbox[1] = m /\ WellAddressed(m)
  BY <1>1, TheHead
<1>3. PICK n \in Names : m.names = {n} /\ TheName(m) = n
  BY <1>1, TheHead
<1>4. m.gen \in Generations /\ n \in Instances
  BY <1>1, <1>2, <1>3 DEF WellAddressed, SignalKinds
<1> QED
  BY <1>1, <1>2, <1>3, <1>4

(* The event is told of it, and it is done with.                           *)
LEMMA SignalSecond ==
  ASSUME TypeOK, Addressed, DispatchSignalSecond
  PROVE  LET m == Head(inbox)
         IN /\ Takes1 /\ 1 \in DOMAIN inbox /\ inbox[1] = m
            /\ m.gen \in Generations /\ m.kind \in SignalKinds /\ m.found = {}
            /\ turn = "second" /\ turn' = "first"
            /\ UNCHANGED <<service, requests, query, reg>>
            /\ \E n \in Instances : m.names = {n} /\ EventTold(m.kind, n)
<1> DEFINE m == Head(inbox)
<1>1. /\ inbox # <<>> /\ m.kind \in SignalKinds /\ inbox' = Tail(inbox)
      /\ turn = "second" /\ turn' = "first"
      /\ UNCHANGED <<service, requests, query, reg>> /\ EventTold(m.kind, TheName(m))
  BY DEF DispatchSignalSecond, Receive, Told, SignalKinds
<1>2. Takes1 /\ 1 \in DOMAIN inbox /\ inbox[1] = m /\ WellAddressed(m)
  BY <1>1, TakesOne, TheHead
<1>3. PICK n \in Names : m.names = {n} /\ TheName(m) = n
  BY <1>1, TheHead
<1>4. m.gen \in Generations /\ n \in Instances /\ m.found = {}
  BY <1>1, <1>2, <1>3 DEF WellAddressed, SignalKinds
<1> QED
  BY <1>1, <1>2, <1>3, <1>4

(* The event gets the list that it has asked for.                          *)
LEMMA ListDispatched ==
  ASSUME TypeOK, Addressed, DispatchList
  PROVE  LET m == Head(inbox)
         IN /\ Takes1 /\ 1 \in DOMAIN inbox /\ inbox[1] = m
            /\ m.kind = "list" /\ m.found \in SUBSET Instances /\ Settled
            /\ UNCHANGED <<service, requests, turn, reg, query, history>> /\ Added(m.found)
<1>1. /\ inbox # <<>> /\ Head(inbox).kind = "list" /\ inbox' = Tail(inbox) /\ Settled
      /\ UNCHANGED <<service, requests, turn, reg, query, history>> /\ Added(Head(inbox).found)
  BY DEF DispatchList, Receive
<1>2. Takes1 /\ 1 \in DOMAIN inbox /\ inbox[1] = Head(inbox) /\ WellAddressed(Head(inbox))
  BY <1>1, TakesOne, TheHead
<1> QED
  BY <1>1, <1>2 DEF WellAddressed

(* What the event does with a signal.                                      *)
LEMMA EventHears ==
  ASSUME TypeOK, NEW i \in Instances, NEW kind \in SignalKinds, EventTold(kind, i)
  PROVE  /\ Settled /\ EventFrame
         /\ kind \notin event.installed => UNCHANGED event
         /\ kind \in event.installed /\ kind = "added" => Added({i})
         /\ kind \in event.installed /\ kind = "removed" => Removed(i)
         /\ history' \in HistoryTypes /\ history' = [history EXCEPT !.gone = history'.gone,
                                                                    !.unseen = history'.unseen]
         /\ history'.unseen = IF kind = "removed" /\ kind \notin event.installed
                                THEN history.unseen \cup {i} ELSE history.unseen
         /\ history'.gone = IF kind = "removed" /\ TellsGone(i)
                              THEN history.gone \cup {i} ELSE history.gone
<1> DEFINE gone == IF kind = "removed" /\ TellsGone(i) THEN history.gone \cup {i} ELSE history.gone
           unseen == IF kind = "removed" /\ kind \notin event.installed
                       THEN history.unseen \cup {i} ELSE history.unseen
<1>1. history \in HistoryTypes /\ event \in EventTypes
  BY Typed
<1>2. history' = [history EXCEPT !.gone = gone, !.unseen = unseen]
  BY DEF EventTold
<1>3. gone \in SUBSET Instances /\ unseen \in SUBSET Instances
  BY <1>1 DEF HistoryTypes
<1>4. /\ Settled
      /\ kind \notin event.installed => UNCHANGED event
      /\ kind \in event.installed /\ kind = "added" => Added({i})
      /\ kind \in event.installed /\ kind = "removed" => Removed(i)
  BY DEF EventTold, SignalKinds
<1>5. EventFrame
  <2>1. CASE UNCHANGED event
    BY <1>1, <2>1 DEF EventFrame
  <2>2. CASE Added({i})
    BY <2>2, TableGrows
  <2>3. CASE Removed(i)
    BY <2>3, TableShrinks
  <2> QED
    BY <1>4, <2>1, <2>2, <2>3 DEF SignalKinds
<1>6. history'.gone = gone /\ history'.unseen = unseen
  <2> HIDE DEF gone, unseen
  <2> QED
    BY <1>1, <1>2, <1>3 DEF HistoryTypes
<1>7. history' \in HistoryTypes
  <2> HIDE DEF gone, unseen
  <2> QED
    BY <1>1, <1>2, <1>3 DEF HistoryTypes
<1>8. history' = [history EXCEPT !.gone = history'.gone, !.unseen = history'.unseen]
  <2> HIDE DEF gone, unseen
  <2> QED
    BY <1>2, <1>6
<1> QED
  BY <1>4, <1>5, <1>6, <1>7, <1>8

-----------------------------------------------------------------------------
(* The types.                                                              *)

(* The actions.                                                            *)
Step ==
  \/ UNCHANGED vars
  \/ Start
  \/ Die
  \/ AnswerNext
  \/ GiveUp
  \/ DispatchToRegistry
  \/ DispatchSignalFirst
  \/ DispatchSignalSecond
  \/ DispatchList
  \/ InstallRemoved
  \/ AskForInstances
  \/ \E i \in Instances : Acquire(i) \/ Release(i) \/ Export(i) \/ Unexport(i)
  \/ \E l \in Listeners : AddFirst(l) \/ AddAnother(l) \/ Leave(l)
  \/ \E q \in Queries : Read(q)
  \/ \E q \in Queries, i \in Instances :
       \/ LookUnknown(q, i) \/ LookAbsent(q, i) \/ LookUnresolved(q, i)
       \/ LookTwice(q, i) \/ LookResolved(q, i)

(* Every step is one of them.                                              *)
LEMMA StepOfNext ==
  ASSUME [Next]_vars
  PROVE  Step
BY DEF Next, Step, Dispatch, Look

(* The conjuncts of the type invariant, one for each variable.             *)
ServiceOK == service \in ServiceTypes /\ service.managed \subseteq service.names
RequestsOK == requests \in Seq(Request)
InboxOK == /\ inbox \in Seq(Message) /\ turn \in {"first", "second"}
           /\ turn = "second" => inbox # <<>> /\ Head(inbox).kind \in SignalKinds
RegistryOK == reg \in RegTypes
EventOK == event \in EventTypes
QueriesOK == query \in [Queries -> QueryTypes]
HistoryOK == history \in HistoryTypes
RestOK == /\ proxied \subseteq Instances /\ holder \in Queries \cup {None}
          /\ ended \in {"no", "terminated", "undefined"}

(* Together they are the type invariant.                                   *)
LEMMA TypesSplit ==
  TypeOK <=> /\ ServiceOK /\ RequestsOK /\ InboxOK /\ RegistryOK /\ EventOK /\ QueriesOK
             /\ HistoryOK /\ RestOK
BY DEF TypeOK, ServiceOK, RequestsOK, InboxOK, RegistryOK, EventOK, QueriesOK, HistoryOK, RestOK,
  ServiceTypes, RegTypes, EventTypes, QueryTypes, HistoryTypes, SignalKinds

(* The service.                                                            *)
LEMMA ServiceTyped ==
  ASSUME TypeOK, [Next]_vars
  PROVE  ServiceOK'
<1>1. ASSUME UNCHANGED <<service>> PROVE ServiceOK'
  BY <1>1, TypesSplit DEF ServiceOK
<1>2. CASE UNCHANGED vars
  BY <1>1, <1>2 DEF vars, bus
<1>3. CASE AnswerNext \/ GiveUp \/ DispatchToRegistry \/ DispatchSignalFirst
  BY <1>1, <1>3 DEF AnswerNext, GiveUp, DispatchToRegistry, Receive,
    DispatchSignalFirst, Told, bus
<1>4. CASE DispatchSignalSecond \/ DispatchList \/ InstallRemoved \/ AskForInstances
  BY <1>1, <1>4 DEF DispatchSignalSecond, Told, Receive, DispatchList,
    InstallRemoved, AskForInstances, bus
<1>5. ASSUME NEW l \in Listeners, AddFirst(l) PROVE ServiceOK'
  BY <1>1, <1>5 DEF AddFirst, bus
<1>6. ASSUME NEW l \in Listeners, AddAnother(l) PROVE ServiceOK'
  BY <1>1, <1>6 DEF AddAnother, bus
<1>7. ASSUME NEW l \in Listeners, Leave(l) PROVE ServiceOK'
  BY <1>1, <1>7 DEF Leave, bus
<1>8. ASSUME NEW q \in Queries, Read(q) PROVE ServiceOK'
  BY <1>1, <1>8 DEF Read, bus
<1>9. ASSUME NEW q \in Queries, NEW i \in Instances, LookUnknown(q, i) PROVE ServiceOK'
  BY <1>1, <1>9 DEF LookUnknown, bus
<1>10. ASSUME NEW q \in Queries, NEW i \in Instances, LookAbsent(q, i) PROVE ServiceOK'
  BY <1>1, <1>10 DEF LookAbsent, Continue, bus
<1>11. ASSUME NEW q \in Queries, NEW i \in Instances, LookUnresolved(q, i) PROVE ServiceOK'
  BY <1>1, <1>11 DEF LookUnresolved, Continue, bus
<1>12. ASSUME NEW q \in Queries, NEW i \in Instances, LookTwice(q, i) PROVE ServiceOK'
  BY <1>1, <1>12 DEF LookTwice, Continue, bus
<1>13. ASSUME NEW q \in Queries, NEW i \in Instances, LookResolved(q, i) PROVE ServiceOK'
  BY <1>1, <1>13 DEF LookResolved, Continue, bus
<1>14. CASE Start
  <2>1. service \in ServiceTypes /\ service.gen + 1 \in 0 .. MaxGenerations
    BY Typed, <1>14 DEF Start, ServiceTypes
  <2>2. \E named \in SUBSET Instances :
          service' = [gen |-> service.gen + 1, up |-> TRUE, names |-> {Manager} \cup named,
                      managed |-> {}]
    BY <1>14, Zenon DEF Start
  <2> QED
    BY <2>1, <2>2 DEF ServiceOK, ServiceTypes
<1>15. CASE Die
  BY Typed, <1>15 DEF Die, ServiceOK, ServiceTypes, TypeOK
<1>16. ASSUME NEW i \in Instances, Acquire(i) PROVE ServiceOK'
  BY Typed, <1>16 DEF Acquire, ServiceOK, ServiceTypes, TypeOK
<1>17. ASSUME NEW i \in Instances, Release(i) PROVE ServiceOK'
  BY Typed, <1>17 DEF Release, ServiceOK, ServiceTypes, TypeOK
<1>18. ASSUME NEW i \in Instances, Export(i) PROVE ServiceOK'
  BY Typed, <1>18 DEF Export, ServiceOK, ServiceTypes, TypeOK
<1>19. ASSUME NEW i \in Instances, Unexport(i) PROVE ServiceOK'
  BY Typed, <1>19 DEF Unexport, ServiceOK, ServiceTypes, TypeOK
<1> QED
  BY StepOfNext, <1>2, <1>3, <1>4, <1>5, <1>6, <1>7, <1>8, <1>9, <1>10, <1>11,
    <1>12, <1>13, <1>14, <1>15, <1>16, <1>17, <1>18, <1>19 DEF Step

(* What is asked.                                                          *)
LEMMA RequestsTyped ==
  ASSUME TypeOK, Addressed, [Next]_vars
  PROVE  RequestsOK'
<1>1. ASSUME UNCHANGED <<requests>> PROVE RequestsOK'
  BY <1>1, TypesSplit DEF RequestsOK
<1>2. CASE UNCHANGED vars
  BY <1>1, <1>2 DEF vars, bus
<1>3. CASE Start \/ Die \/ DispatchSignalFirst \/ DispatchSignalSecond
  BY <1>1, <1>3 DEF Start, Die, DispatchSignalFirst, Told, bus,
    DispatchSignalSecond, Receive
<1>4. CASE DispatchList \/ InstallRemoved
  BY <1>1, <1>4 DEF DispatchList, Receive, InstallRemoved, bus
<1>5. ASSUME NEW i \in Instances, Acquire(i) PROVE RequestsOK'
  BY <1>1, <1>5 DEF Acquire, bus
<1>6. ASSUME NEW i \in Instances, Release(i) PROVE RequestsOK'
  BY <1>1, <1>6 DEF Release, bus
<1>7. ASSUME NEW i \in Instances, Export(i) PROVE RequestsOK'
  BY <1>1, <1>7 DEF Export, bus
<1>8. ASSUME NEW i \in Instances, Unexport(i) PROVE RequestsOK'
  BY <1>1, <1>8 DEF Unexport, bus
<1>9. ASSUME NEW l \in Listeners, AddFirst(l) PROVE RequestsOK'
  BY <1>1, <1>9 DEF AddFirst, bus
<1>10. ASSUME NEW l \in Listeners, AddAnother(l) PROVE RequestsOK'
  BY <1>1, <1>10 DEF AddAnother, bus
<1>11. ASSUME NEW l \in Listeners, Leave(l) PROVE RequestsOK'
  BY <1>1, <1>11 DEF Leave, bus
<1>12. ASSUME NEW q \in Queries, Read(q) PROVE RequestsOK'
  BY <1>1, <1>12 DEF Read, bus
<1>13. ASSUME NEW q \in Queries, NEW i \in Instances, LookUnknown(q, i) PROVE RequestsOK'
  BY <1>1, <1>13 DEF LookUnknown, bus
<1>14. ASSUME NEW q \in Queries, NEW i \in Instances, LookTwice(q, i) PROVE RequestsOK'
  BY <1>1, <1>14 DEF LookTwice, Continue, bus
<1>15. ASSUME NEW q \in Queries, NEW i \in Instances, LookResolved(q, i) PROVE RequestsOK'
  BY <1>1, <1>15 DEF LookResolved, Continue, bus
<1>16. CASE AnswerNext
  BY <1>16, AnswerSends DEF RequestsOK
<1>17. CASE GiveUp
  BY <1>17, GiveUpSends DEF RequestsOK
<1>18. CASE DispatchToRegistry
  <2>1. PICK n \in Names :
          \/ Head(inbox).kind = "owned" /\ OnNameOwned(Head(inbox).gen, n)
          \/ Head(inbox).kind = "lost" /\ OnNameLost(Head(inbox).gen, n)
          \/ Head(inbox).kind = "path" /\ n \in Instances /\ Head(inbox).found \in SUBSET Instances
               /\ OnPathAnswered(Head(inbox).gen, n, Head(inbox).found)
    BY <1>18, DispatchedToRegistry
  <2>2. Head(inbox).gen \in Generations /\ requests \in Seq(Request)
    BY <1>18, DispatchedToRegistry, Typed
  <2> QED
    BY <2>1, <2>2, NameOwned, NameLost, PathAnswered DEF RequestsOK
<1>19. CASE AskForInstances
  <2>1. ListRequest \in Request
    BY DEF ListRequest, Request
  <2> QED
    BY <1>19, <2>1, Typed DEF AskForInstances, RequestsOK
<1>20. ASSUME NEW q \in Queries, NEW i \in Instances, LookAbsent(q, i) PROVE RequestsOK'
  BY <1>20, AbsentLooked DEF Begins, RequestsOK
<1>21. ASSUME NEW q \in Queries, NEW i \in Instances, LookUnresolved(q, i) PROVE RequestsOK'
  BY <1>21, UnresolvedLooked DEF RequestsOK
<1> QED
  BY StepOfNext, <1>2, <1>3, <1>4, <1>5, <1>6, <1>7, <1>8, <1>9, <1>10, <1>11,
    <1>12, <1>13, <1>14, <1>15, <1>16, <1>17, <1>18, <1>19, <1>20, <1>21 DEF Step

(* What is sent comes behind the head.                                     *)
LEMMA SentKeepsHead ==
  ASSUME TypeOK, UNCHANGED turn, NEW N, NEW M, Sends(N, M)
  PROVE  InboxOK' /\ (inbox # <<>> => Head(inbox') = Head(inbox) /\ inbox' # <<>>)
<1>1. inbox \in Seq(Message) /\ inbox' \in Seq(Message) /\ InboxOK
  BY TypesSplit DEF Sends, InboxOK
<1>2. CASE inbox # <<>>
  <2>1. 1 \in DOMAIN inbox /\ inbox[1] = Head(inbox)
    BY <1>1, <1>2
  <2>2. 1 \in DOMAIN inbox' /\ inbox'[1] = inbox[1]
    BY <2>1 DEF Sends, Grows
  <2>3. inbox' # <<>> /\ Head(inbox') = inbox'[1]
    BY <1>1, <2>2
  <2> QED
    BY <1>1, <1>2, <2>1, <2>2, <2>3 DEF InboxOK
<1>3. CASE inbox = <<>>
  BY <1>1, <1>3 DEF InboxOK
<1> QED
  BY <1>2, <1>3

(* What arrives.                                                           *)
LEMMA InboxTyped ==
  ASSUME TypeOK, Addressed, [Next]_vars
  PROVE  InboxOK'
<1>1. ASSUME UNCHANGED <<inbox, turn>> PROVE InboxOK'
  BY <1>1, TypesSplit DEF InboxOK
<1>2. CASE UNCHANGED vars
  BY <1>1, <1>2 DEF vars, bus
<1>3. CASE InstallRemoved \/ AskForInstances
  BY <1>1, <1>3 DEF InstallRemoved, AskForInstances, bus
<1>4. ASSUME NEW l \in Listeners, AddFirst(l) PROVE InboxOK'
  BY <1>1, <1>4 DEF AddFirst, bus
<1>5. ASSUME NEW l \in Listeners, AddAnother(l) PROVE InboxOK'
  BY <1>1, <1>5 DEF AddAnother, bus
<1>6. ASSUME NEW l \in Listeners, Leave(l) PROVE InboxOK'
  BY <1>1, <1>6 DEF Leave, bus
<1>7. ASSUME NEW q \in Queries, Read(q) PROVE InboxOK'
  BY <1>1, <1>7 DEF Read, bus
<1>8. ASSUME NEW q \in Queries, NEW i \in Instances, LookUnknown(q, i) PROVE InboxOK'
  BY <1>1, <1>8 DEF LookUnknown, bus
<1>9. ASSUME NEW q \in Queries, NEW i \in Instances, LookAbsent(q, i) PROVE InboxOK'
  BY <1>1, <1>9 DEF LookAbsent, Continue, bus
<1>10. ASSUME NEW q \in Queries, NEW i \in Instances, LookUnresolved(q, i) PROVE InboxOK'
  BY <1>1, <1>10 DEF LookUnresolved, Continue, bus
<1>11. ASSUME NEW q \in Queries, NEW i \in Instances, LookTwice(q, i) PROVE InboxOK'
  BY <1>1, <1>11 DEF LookTwice, Continue, bus
<1>12. ASSUME NEW q \in Queries, NEW i \in Instances, LookResolved(q, i) PROVE InboxOK'
  BY <1>1, <1>12 DEF LookResolved, Continue, bus
<1>13. CASE Start
  <2>1. \E N, M : Sends(N, M)
    BY <1>13, StartSends
  <2>2. UNCHANGED turn
    BY <1>13 DEF Start
  <2> QED
    BY <2>1, <2>2, SentKeepsHead
<1>14. CASE Die
  <2>1. \E N, M : Sends(N, M)
    BY <1>14, DieSends
  <2>2. UNCHANGED turn
    BY <1>14 DEF Die
  <2> QED
    BY <2>1, <2>2, SentKeepsHead
<1>15. ASSUME NEW i \in Instances, Acquire(i) PROVE InboxOK'
  <2>1. \E N, M : Sends(N, M)
    BY <1>15, AcquireSends
  <2>2. UNCHANGED turn
    BY <1>15 DEF Acquire
  <2> QED
    BY <2>1, <2>2, SentKeepsHead
<1>16. ASSUME NEW i \in Instances, Release(i) PROVE InboxOK'
  <2>1. \E N, M : Sends(N, M)
    BY <1>16, ReleaseSends
  <2>2. UNCHANGED turn
    BY <1>16 DEF Release
  <2> QED
    BY <2>1, <2>2, SentKeepsHead
<1>17. ASSUME NEW i \in Instances, Export(i) PROVE InboxOK'
  <2>1. Signal("added", i) /\ UNCHANGED turn
    BY <1>17 DEF Export
  <2>2. "added" \in SignalKinds
    BY DEF SignalKinds
  <2>3. \E N, M : Sends(N, M)
    BY <2>1, <2>2, SignalSends
  <2> QED
    BY <2>1, <2>3, SentKeepsHead
<1>18. ASSUME NEW i \in Instances, Unexport(i) PROVE InboxOK'
  <2>1. Signal("removed", i) /\ UNCHANGED turn
    BY <1>18 DEF Unexport
  <2>2. "removed" \in SignalKinds
    BY DEF SignalKinds
  <2>3. \E N, M : Sends(N, M)
    BY <2>1, <2>2, SignalSends
  <2> QED
    BY <2>1, <2>3, SentKeepsHead
<1>19. CASE AnswerNext
  <2>1. Head(requests).kind \in {"owner", "path", "list"}
    BY <1>19, AnswerSends DEF Request
  <2>2. \E N, M : Sends(N, M)
    BY <1>19, <2>1, AnswerSends
  <2>3. UNCHANGED turn
    BY <1>19 DEF AnswerNext
  <2> QED
    BY <2>2, <2>3, SentKeepsHead
<1>20. CASE GiveUp
  <2>1. \E N, M : Sends(N, M)
    BY <1>20, GiveUpSends
  <2>2. UNCHANGED turn
    BY <1>20 DEF GiveUp
  <2> QED
    BY <2>1, <2>2, SentKeepsHead
<1>21. CASE DispatchToRegistry
  <2>1. UNCHANGED turn /\ Takes1 /\ Head(inbox).kind \notin SignalKinds
    BY <1>21, DispatchedToRegistry DEF SignalKinds
  <2> QED
    BY <2>1, TypesSplit DEF InboxOK, Takes1
<1>22. CASE DispatchSignalFirst
  BY <1>22, SignalFirst, TypesSplit DEF InboxOK, bus
<1>23. CASE DispatchSignalSecond
  BY <1>23, SignalSecond DEF InboxOK, Takes1
<1>24. CASE DispatchList
  <2>1. UNCHANGED turn /\ Takes1 /\ Head(inbox).kind \notin SignalKinds
    BY <1>24, ListDispatched DEF SignalKinds
  <2> QED
    BY <2>1, TypesSplit DEF InboxOK, Takes1
<1> QED
  BY StepOfNext, <1>2, <1>3, <1>4, <1>5, <1>6, <1>7, <1>8, <1>9, <1>10, <1>11,
    <1>12, <1>13, <1>14, <1>15, <1>16, <1>17, <1>18, <1>19, <1>20, <1>21,
    <1>22, <1>23, <1>24 DEF Step

(* The registry.                                                           *)
LEMMA RegistryTypedNext ==
  ASSUME TypeOK, Addressed, [Next]_vars
  PROVE  RegistryOK'
<1>1. ASSUME UNCHANGED <<reg>> PROVE RegistryOK'
  BY <1>1, TypesSplit DEF RegistryOK
<1>2. CASE UNCHANGED vars
  BY <1>1, <1>2 DEF vars, bus
<1>3. CASE Start \/ Die \/ AnswerNext \/ GiveUp
  BY <1>1, <1>3 DEF Start, Die, AnswerNext, GiveUp, bus
<1>4. CASE DispatchSignalSecond \/ DispatchList \/ InstallRemoved \/ AskForInstances
  BY <1>1, <1>4 DEF DispatchSignalSecond, Told, Receive, DispatchList,
    InstallRemoved, AskForInstances, bus
<1>5. ASSUME NEW i \in Instances, Acquire(i) PROVE RegistryOK'
  BY <1>1, <1>5 DEF Acquire, bus
<1>6. ASSUME NEW i \in Instances, Release(i) PROVE RegistryOK'
  BY <1>1, <1>6 DEF Release, bus
<1>7. ASSUME NEW i \in Instances, Export(i) PROVE RegistryOK'
  BY <1>1, <1>7 DEF Export, bus
<1>8. ASSUME NEW i \in Instances, Unexport(i) PROVE RegistryOK'
  BY <1>1, <1>8 DEF Unexport, bus
<1>9. ASSUME NEW l \in Listeners, AddFirst(l) PROVE RegistryOK'
  BY <1>1, <1>9 DEF AddFirst, bus
<1>10. ASSUME NEW l \in Listeners, AddAnother(l) PROVE RegistryOK'
  BY <1>1, <1>10 DEF AddAnother, bus
<1>11. ASSUME NEW l \in Listeners, Leave(l) PROVE RegistryOK'
  BY <1>1, <1>11 DEF Leave, bus
<1>12. ASSUME NEW q \in Queries, Read(q) PROVE RegistryOK'
  BY <1>1, <1>12 DEF Read, bus
<1>13. ASSUME NEW q \in Queries, NEW i \in Instances, LookUnknown(q, i) PROVE RegistryOK'
  BY <1>1, <1>13 DEF LookUnknown, bus
<1>14. ASSUME NEW q \in Queries, NEW i \in Instances, LookTwice(q, i) PROVE RegistryOK'
  BY <1>1, <1>14 DEF LookTwice, Continue, bus
<1>15. ASSUME NEW q \in Queries, NEW i \in Instances, LookResolved(q, i) PROVE RegistryOK'
  BY <1>1, <1>15 DEF LookResolved, Continue, bus
<1>16. CASE DispatchToRegistry
  <2>1. PICK n \in Names :
          \/ Head(inbox).kind = "owned" /\ OnNameOwned(Head(inbox).gen, n)
          \/ Head(inbox).kind = "lost" /\ OnNameLost(Head(inbox).gen, n)
          \/ Head(inbox).kind = "path" /\ n \in Instances /\ Head(inbox).found \in SUBSET Instances
               /\ OnPathAnswered(Head(inbox).gen, n, Head(inbox).found)
    BY <1>16, DispatchedToRegistry
  <2>2. Head(inbox).gen \in Generations
    BY <1>16, DispatchedToRegistry
  <2> QED
    BY <2>1, <2>2, NameOwned, NameLost, PathAnswered DEF RegistryOK
<1>17. CASE DispatchSignalFirst
  BY <1>17, SignalFirst, SignalTold DEF RegistryOK
<1>18. ASSUME NEW q \in Queries, NEW i \in Instances, LookAbsent(q, i) PROVE RegistryOK'
  BY <1>18, AbsentLooked DEF RegistryOK
<1>19. ASSUME NEW q \in Queries, NEW i \in Instances, LookUnresolved(q, i) PROVE RegistryOK'
  BY <1>19, UnresolvedLooked DEF RegistryOK
<1> QED
  BY StepOfNext, <1>2, <1>3, <1>4, <1>5, <1>6, <1>7, <1>8, <1>9, <1>10, <1>11,
    <1>12, <1>13, <1>14, <1>15, <1>16, <1>17, <1>18, <1>19 DEF Step

(* The event.                                                              *)
LEMMA EventTyped ==
  ASSUME TypeOK, Addressed, Handlers, [Next]_vars
  PROVE  EventOK'
<1>1. ASSUME UNCHANGED <<event>> PROVE EventOK'
  BY <1>1, TypesSplit DEF EventOK
<1>2. CASE UNCHANGED vars
  BY <1>1, <1>2 DEF vars, bus
<1>3. CASE Start \/ Die \/ AnswerNext \/ GiveUp
  BY <1>1, <1>3 DEF Start, Die, AnswerNext, GiveUp, bus
<1>4. CASE DispatchToRegistry \/ DispatchSignalFirst
  BY <1>1, <1>4 DEF DispatchToRegistry, Receive, DispatchSignalFirst, Told,
    bus
<1>5. ASSUME NEW i \in Instances, Acquire(i) PROVE EventOK'
  BY <1>1, <1>5 DEF Acquire, bus
<1>6. ASSUME NEW i \in Instances, Release(i) PROVE EventOK'
  BY <1>1, <1>6 DEF Release, bus
<1>7. ASSUME NEW i \in Instances, Export(i) PROVE EventOK'
  BY <1>1, <1>7 DEF Export, bus
<1>8. ASSUME NEW i \in Instances, Unexport(i) PROVE EventOK'
  BY <1>1, <1>8 DEF Unexport, bus
<1>9. ASSUME NEW q \in Queries, Read(q) PROVE EventOK'
  BY <1>1, <1>9 DEF Read, bus
<1>10. ASSUME NEW q \in Queries, NEW i \in Instances, LookUnknown(q, i) PROVE EventOK'
  BY <1>1, <1>10 DEF LookUnknown, bus
<1>11. ASSUME NEW q \in Queries, NEW i \in Instances, LookAbsent(q, i) PROVE EventOK'
  BY <1>1, <1>11 DEF LookAbsent, Continue, bus
<1>12. ASSUME NEW q \in Queries, NEW i \in Instances, LookUnresolved(q, i) PROVE EventOK'
  BY <1>1, <1>12 DEF LookUnresolved, Continue, bus
<1>13. ASSUME NEW q \in Queries, NEW i \in Instances, LookTwice(q, i) PROVE EventOK'
  BY <1>1, <1>13 DEF LookTwice, Continue, bus
<1>14. ASSUME NEW q \in Queries, NEW i \in Instances, LookResolved(q, i) PROVE EventOK'
  BY <1>1, <1>14 DEF LookResolved, Continue, bus
<1>15. CASE DispatchSignalSecond
  BY <1>15, SignalSecond, EventHears DEF EventFrame, EventOK
<1>16. CASE DispatchList
  BY <1>16, ListDispatched, TableGrows DEF EventFrame, EventOK
<1>17. ASSUME NEW l \in Listeners, AddFirst(l) PROVE EventOK'
  BY <1>17, Typed DEF AddFirst, EventOK, EventTypes
<1>18. ASSUME NEW l \in Listeners, AddAnother(l) PROVE EventOK'
  BY <1>18, Typed DEF AddAnother, EventOK, EventTypes
<1>19. ASSUME NEW l \in Listeners, Leave(l) PROVE EventOK'
  BY <1>19, Typed DEF Leave, EventOK, EventTypes
<1>20. CASE InstallRemoved
  BY <1>20, Typed DEF InstallRemoved, EventOK, EventTypes
<1>21. CASE AskForInstances
  <2>1. event.caller \in Listeners
    BY <1>21 DEF Handlers, AskForInstances, Settled
  <2> QED
    BY <1>21, <2>1, Typed DEF AskForInstances, EventOK, EventTypes
<1> QED
  BY StepOfNext, <1>2, <1>3, <1>4, <1>5, <1>6, <1>7, <1>8, <1>9, <1>10, <1>11,
    <1>12, <1>13, <1>14, <1>15, <1>16, <1>17, <1>18, <1>19, <1>20, <1>21 DEF Step

(* The queries.                                                            *)
LEMMA QueriesTyped ==
  ASSUME TypeOK, Addressed, [Next]_vars
  PROVE  QueriesOK'
<1>1. ASSUME UNCHANGED <<query>> PROVE QueriesOK'
  BY <1>1, TypesSplit DEF QueriesOK
<1>2. CASE UNCHANGED vars
  BY <1>1, <1>2 DEF vars, bus
<1>3. CASE Start \/ Die \/ AnswerNext \/ GiveUp
  BY <1>1, <1>3 DEF Start, Die, AnswerNext, GiveUp, bus
<1>4. CASE DispatchSignalFirst \/ DispatchSignalSecond \/ DispatchList \/ InstallRemoved
  BY <1>1, <1>4 DEF DispatchSignalFirst, Told, bus, DispatchSignalSecond,
    Receive, DispatchList, InstallRemoved
<1>5. CASE AskForInstances
  BY <1>1, <1>5 DEF AskForInstances, bus
<1>6. ASSUME NEW i \in Instances, Acquire(i) PROVE QueriesOK'
  BY <1>1, <1>6 DEF Acquire, bus
<1>7. ASSUME NEW i \in Instances, Release(i) PROVE QueriesOK'
  BY <1>1, <1>7 DEF Release, bus
<1>8. ASSUME NEW i \in Instances, Unexport(i) PROVE QueriesOK'
  BY <1>1, <1>8 DEF Unexport, bus
<1>9. ASSUME NEW l \in Listeners, AddFirst(l) PROVE QueriesOK'
  BY <1>1, <1>9 DEF AddFirst, bus
<1>10. ASSUME NEW l \in Listeners, AddAnother(l) PROVE QueriesOK'
  BY <1>1, <1>10 DEF AddAnother, bus
<1>11. ASSUME NEW l \in Listeners, Leave(l) PROVE QueriesOK'
  BY <1>1, <1>11 DEF Leave, bus
<1>12. ASSUME NEW q \in Queries, NEW i \in Instances, LookUnknown(q, i) PROVE QueriesOK'
  BY <1>1, <1>12 DEF LookUnknown, bus
<1>13. ASSUME NEW i \in Instances, Export(i) PROVE QueriesOK'
  <2>1. query' = [q \in Queries |-> IF query[q].instance = i
                     THEN [query[q] EXCEPT !.gone = FALSE] ELSE query[q]]
    BY <1>13 DEF Export
  <2> QED
    BY <2>1, Typed DEF QueriesOK, QueryTypes
<1>14. CASE DispatchToRegistry
  <2>1. PICK n \in Names :
          \/ Head(inbox).kind = "owned" /\ OnNameOwned(Head(inbox).gen, n)
          \/ Head(inbox).kind = "lost" /\ OnNameLost(Head(inbox).gen, n)
          \/ Head(inbox).kind = "path" /\ n \in Instances /\ Head(inbox).found \in SUBSET Instances
               /\ OnPathAnswered(Head(inbox).gen, n, Head(inbox).found)
    BY <1>14, DispatchedToRegistry
  <2>2. Head(inbox).gen \in Generations /\ query \in [Queries -> QueryTypes]
    BY <1>14, DispatchedToRegistry, Typed
  <2>3. CASE UNCHANGED query
    BY <2>2, <2>3 DEF QueriesOK
  <2>4. CASE OnNameLost(Head(inbox).gen, n)
    <3>1. \A q \in Queries : query'[q] \in QueryTypes
      <4> TAKE q \in Queries
      <4>1. query'[q] = query[q] \/ query'[q] = [query[q] EXCEPT !.torn = TRUE]
        BY <2>2, <2>4, NameLost
      <4> QED
        BY <2>2, <4>1 DEF QueryTypes
    <3>2. query' = [q \in Queries |-> query'[q]]
      BY <2>2, <2>4, NameLost
    <3> QED
      BY <3>1, <3>2 DEF QueriesOK
  <2> QED
    BY <2>1, <2>2, <2>3, <2>4, NameOwned, PathAnswered
<1>15. ASSUME NEW q \in Queries, Read(q) PROVE QueriesOK'
  <2>1. PICK answer \in BOOLEAN :
          query' = [query EXCEPT ![q] = [Idle EXCEPT !.pc = "done", !.answer = answer]]
    BY <1>15 DEF Read
  <2>0. Idle \in QueryTypes
    BY DEF Idle, QueryTypes
  <2>2. [Idle EXCEPT !.pc = "done", !.answer = answer] \in QueryTypes
    BY <2>0, <2>1 DEF QueryTypes
  <2> QED
    BY <2>1, <2>2, Typed DEF QueriesOK
<1>16. ASSUME NEW q \in Queries, NEW i \in Instances, LookAbsent(q, i) PROVE QueriesOK'
  BY <1>16, Continued DEF LookAbsent, QueriesOK
<1>17. ASSUME NEW q \in Queries, NEW i \in Instances, LookUnresolved(q, i) PROVE QueriesOK'
  BY <1>17, Continued DEF LookUnresolved, QueriesOK
<1>18. ASSUME NEW q \in Queries, NEW i \in Instances, LookTwice(q, i) PROVE QueriesOK'
  BY <1>18, Continued DEF LookTwice, QueriesOK
<1>19. ASSUME NEW q \in Queries, NEW i \in Instances, LookResolved(q, i) PROVE QueriesOK'
  BY <1>19, Continued DEF LookResolved, QueriesOK
<1> QED
  BY StepOfNext, <1>2, <1>3, <1>4, <1>5, <1>6, <1>7, <1>8, <1>9, <1>10, <1>11,
    <1>12, <1>13, <1>14, <1>15, <1>16, <1>17, <1>18, <1>19 DEF Step

(* What the properties need to know.                                       *)
LEMMA HistoryTyped ==
  ASSUME TypeOK, Addressed, [Next]_vars
  PROVE  HistoryOK'
<1>1. ASSUME UNCHANGED <<history>> PROVE HistoryOK'
  BY <1>1, TypesSplit DEF HistoryOK
<1>2. CASE UNCHANGED vars
  BY <1>1, <1>2 DEF vars, bus
<1>3. CASE AnswerNext \/ DispatchSignalFirst \/ DispatchList \/ InstallRemoved
  BY <1>1, <1>3 DEF AnswerNext, DispatchSignalFirst, Told, bus, DispatchList,
    Receive, InstallRemoved
<1>4. CASE AskForInstances
  BY <1>1, <1>4 DEF AskForInstances, bus
<1>5. ASSUME NEW q \in Queries, Read(q) PROVE HistoryOK'
  BY <1>1, <1>5 DEF Read, bus
<1>6. ASSUME NEW q \in Queries, NEW i \in Instances, LookUnknown(q, i) PROVE HistoryOK'
  BY <1>1, <1>6 DEF LookUnknown, bus
<1>7. ASSUME NEW q \in Queries, NEW i \in Instances, LookAbsent(q, i) PROVE HistoryOK'
  BY <1>1, <1>7 DEF LookAbsent, Continue, bus
<1>8. ASSUME NEW q \in Queries, NEW i \in Instances, LookTwice(q, i) PROVE HistoryOK'
  BY <1>1, <1>8 DEF LookTwice, Continue, bus
<1>9. ASSUME NEW q \in Queries, NEW i \in Instances, LookResolved(q, i) PROVE HistoryOK'
  BY <1>1, <1>9 DEF LookResolved, Continue, bus
<1>10. CASE Start
  <2>1. history \in HistoryTypes
    BY Typed
  <2>2. history' = [history EXCEPT !.changes = @ + 1]
    BY <1>10 DEF Start
  <2> QED
    BY <2>1, <2>2 DEF HistoryOK, HistoryTypes
<1>11. CASE Die
  <2>1. history \in HistoryTypes
    BY Typed
  <2> DEFINE h == [history EXCEPT !.changes = @ + 1]
  <2>2. h \in HistoryTypes
    BY <2>1 DEF HistoryTypes
  <2>3. service.managed \subseteq Instances
    BY Typed DEF ServiceTypes
  <2>4. history' = [h EXCEPT !.unseen = @ \cup service.managed]
    BY <1>11 DEF Die
  <2> HIDE DEF h
  <2> QED
    BY <2>2, <2>3, <2>4 DEF HistoryOK, HistoryTypes
<1>12. ASSUME NEW i \in Instances, Acquire(i) PROVE HistoryOK'
  <2>1. history \in HistoryTypes
    BY Typed
  <2>2. history' = [history EXCEPT !.changes = @ + 1]
    BY <1>12 DEF Acquire
  <2> QED
    BY <2>1, <2>2 DEF HistoryOK, HistoryTypes
<1>13. ASSUME NEW i \in Instances, Release(i) PROVE HistoryOK'
  <2>1. history \in HistoryTypes
    BY Typed
  <2>2. history' = [history EXCEPT !.changes = @ + 1]
    BY <1>13 DEF Release
  <2> QED
    BY <2>1, <2>2 DEF HistoryOK, HistoryTypes
<1>14. ASSUME NEW i \in Instances, Export(i) PROVE HistoryOK'
  <2>1. history \in HistoryTypes
    BY Typed
  <2> DEFINE h == [history EXCEPT !.changes = @ + 1]
  <2>2. h \in HistoryTypes
    BY <2>1 DEF HistoryTypes
  <2>4. history' = [h EXCEPT !.gone = @ \ {i}]
    BY <1>14 DEF Export
  <2> HIDE DEF h
  <2> QED
    BY <2>2, <2>4 DEF HistoryOK, HistoryTypes
<1>15. ASSUME NEW i \in Instances, Unexport(i) PROVE HistoryOK'
  <2>1. history \in HistoryTypes
    BY Typed
  <2> DEFINE h == [history EXCEPT !.changes = @ + 1]
  <2>2. h \in HistoryTypes
    BY <2>1 DEF HistoryTypes
  <2>4. history' = [h EXCEPT !.unseen = IF "removed" \in event.installed THEN @ ELSE @ \cup {i}]
    BY <1>15 DEF Unexport
  <2> HIDE DEF h
  <2> QED
    BY <2>2, <2>4 DEF HistoryOK, HistoryTypes
<1>16. CASE GiveUp
  <2>1. history \in HistoryTypes
    BY Typed
  <2> DEFINE h == [history EXCEPT !.failures = @ + 1]
  <2>2. h \in HistoryTypes
    BY <2>1 DEF HistoryTypes
  <2>4. history' = [h EXCEPT !.failed = TRUE]
    BY <1>16 DEF GiveUp
  <2> HIDE DEF h
  <2> QED
    BY <2>2, <2>4 DEF HistoryOK, HistoryTypes
<1>17. CASE DispatchToRegistry
  <2>1. PICK n \in Names :
          \/ Head(inbox).kind = "owned" /\ OnNameOwned(Head(inbox).gen, n)
          \/ Head(inbox).kind = "lost" /\ OnNameLost(Head(inbox).gen, n)
          \/ Head(inbox).kind = "path" /\ n \in Instances /\ Head(inbox).found \in SUBSET Instances
               /\ OnPathAnswered(Head(inbox).gen, n, Head(inbox).found)
    BY <1>17, DispatchedToRegistry
  <2>2. Head(inbox).gen \in Generations /\ history \in HistoryTypes
    BY <1>17, DispatchedToRegistry, Typed
  <2>3. CASE UNCHANGED history
    BY <2>2, <2>3 DEF HistoryOK
  <2>4. CASE OnNameLost(Head(inbox).gen, n)
    <3>1. history' = [history EXCEPT !.dropped = history'.dropped] /\ history'.dropped \subseteq Instances
      BY <2>2, <2>4, NameLost
    <3> DEFINE dropped == history'.dropped
    <3> HIDE DEF dropped
    <3>2. history' = [history EXCEPT !.dropped = dropped] /\ dropped \subseteq Instances
      BY <3>1 DEF dropped
    <3> QED
      BY <2>2, <3>2 DEF HistoryOK, HistoryTypes
  <2> QED
    BY <2>1, <2>2, <2>3, <2>4, NameOwned, PathAnswered
<1>18. CASE DispatchSignalSecond
  BY <1>18, SignalSecond, EventHears DEF HistoryOK
<1>19. ASSUME NEW l \in Listeners, AddFirst(l) PROVE HistoryOK'
  <2>1. history \in HistoryTypes
    BY Typed
  <2> DEFINE h == [history EXCEPT !.toggles = @ + 1]
  <2>2. h \in HistoryTypes
    BY <2>1 DEF HistoryTypes
  <2>3. event.interfaces \subseteq Instances
    BY Typed DEF EventTypes
  <2>4. history' = [h EXCEPT !.since[l] = event.interfaces]
    BY <1>19 DEF AddFirst, Joins
  <2> HIDE DEF h
  <2> QED
    BY <2>2, <2>3, <2>4 DEF HistoryOK, HistoryTypes
<1>20. ASSUME NEW l \in Listeners, AddAnother(l) PROVE HistoryOK'
  <2>1. history \in HistoryTypes
    BY Typed
  <2> DEFINE h == [history EXCEPT !.toggles = @ + 1]
  <2>2. h \in HistoryTypes
    BY <2>1 DEF HistoryTypes
  <2>3. event.interfaces \subseteq Instances
    BY Typed DEF EventTypes
  <2>4. history' = [h EXCEPT !.since[l] = event.interfaces]
    BY <1>20 DEF AddAnother, Joins
  <2> HIDE DEF h
  <2> QED
    BY <2>2, <2>3, <2>4 DEF HistoryOK, HistoryTypes
<1>21. ASSUME NEW l \in Listeners, Leave(l) PROVE HistoryOK'
  <2>1. history \in HistoryTypes
    BY Typed
  <2> DEFINE h == [history EXCEPT !.toggles = @ + 1]
  <2>2. h \in HistoryTypes
    BY <2>1 DEF HistoryTypes
  <2>4. history' = [h EXCEPT !.since[l] = {}]
    BY <1>21 DEF Leave
  <2> HIDE DEF h
  <2> QED
    BY <2>2, <2>4 DEF HistoryOK, HistoryTypes
<1>22. ASSUME NEW q \in Queries, NEW i \in Instances, LookUnresolved(q, i) PROVE HistoryOK'
  <2>1. history \in HistoryTypes
    BY Typed
  <2>2. history' = [history EXCEPT !.doubled = @ \cup {i}]
    BY <1>22 DEF LookUnresolved
  <2> QED
    BY <2>1, <2>2 DEF HistoryOK, HistoryTypes
<1> QED
  BY StepOfNext, <1>2, <1>3, <1>4, <1>5, <1>6, <1>7, <1>8, <1>9, <1>10, <1>11,
    <1>12, <1>13, <1>14, <1>15, <1>16, <1>17, <1>18, <1>19, <1>20, <1>21,
    <1>22 DEF Step

(* The rest.                                                               *)
LEMMA RestTyped ==
  ASSUME TypeOK, [Next]_vars
  PROVE  RestOK'
<1>1. ASSUME UNCHANGED <<proxied, holder, ended>> PROVE RestOK'
  BY <1>1, TypesSplit DEF RestOK
<1>2. CASE UNCHANGED vars
  BY <1>1, <1>2 DEF vars, bus
<1>3. CASE Start \/ Die \/ AnswerNext \/ GiveUp
  BY <1>1, <1>3 DEF Start, Die, AnswerNext, GiveUp, bus
<1>4. CASE DispatchToRegistry \/ DispatchSignalFirst \/ DispatchSignalSecond \/ DispatchList
  BY <1>1, <1>4 DEF DispatchToRegistry, Receive, DispatchSignalFirst, Told,
    bus, DispatchSignalSecond, DispatchList
<1>5. CASE InstallRemoved \/ AskForInstances
  BY <1>1, <1>5 DEF InstallRemoved, AskForInstances, bus
<1>6. ASSUME NEW i \in Instances, Acquire(i) PROVE RestOK'
  BY <1>1, <1>6 DEF Acquire, bus
<1>7. ASSUME NEW i \in Instances, Release(i) PROVE RestOK'
  BY <1>1, <1>7 DEF Release, bus
<1>8. ASSUME NEW i \in Instances, Export(i) PROVE RestOK'
  BY <1>1, <1>8 DEF Export, bus
<1>9. ASSUME NEW i \in Instances, Unexport(i) PROVE RestOK'
  BY <1>1, <1>9 DEF Unexport, bus
<1>10. ASSUME NEW l \in Listeners, AddFirst(l) PROVE RestOK'
  BY <1>1, <1>10 DEF AddFirst, bus
<1>11. ASSUME NEW l \in Listeners, AddAnother(l) PROVE RestOK'
  BY <1>1, <1>11 DEF AddAnother, bus
<1>12. ASSUME NEW l \in Listeners, Leave(l) PROVE RestOK'
  BY <1>1, <1>12 DEF Leave, bus
<1>13. ASSUME NEW q \in Queries, Read(q) PROVE RestOK'
  BY <1>1, <1>13 DEF Read, bus
<1>14. ASSUME NEW q \in Queries, NEW i \in Instances, LookAbsent(q, i) PROVE RestOK'
  BY <1>1, <1>14 DEF LookAbsent, Continue, bus
<1>15. ASSUME NEW q \in Queries, NEW i \in Instances, LookUnresolved(q, i) PROVE RestOK'
  BY <1>1, <1>15 DEF LookUnresolved, Continue, bus
<1>16. ASSUME NEW q \in Queries, NEW i \in Instances, LookResolved(q, i) PROVE RestOK'
  BY <1>1, <1>16 DEF LookResolved, Continue, bus
<1>17. ASSUME NEW q \in Queries, NEW i \in Instances, LookUnknown(q, i) PROVE RestOK'
  BY <1>17, TypesSplit DEF LookUnknown, RestOK
<1>18. ASSUME NEW q \in Queries, NEW i \in Instances, LookTwice(q, i) PROVE RestOK'
  BY <1>18, TypesSplit DEF LookTwice, RestOK
<1> QED
  BY StepOfNext, <1>2, <1>3, <1>4, <1>5, <1>6, <1>7, <1>8, <1>9, <1>10, <1>11,
    <1>12, <1>13, <1>14, <1>15, <1>16, <1>17, <1>18 DEF Step

(* All of the types are kept.                                              *)
LEMMA TypesKept ==
  ASSUME TypeOK, Addressed, Handlers, [Next]_vars
  PROVE  TypeOK'
<1>1. /\ ServiceOK' /\ RequestsOK' /\ InboxOK' /\ RegistryOK' /\ EventOK' /\ QueriesOK'
      /\ HistoryOK' /\ RestOK'
  BY ServiceTyped, RequestsTyped, InboxTyped, RegistryTypedNext, EventTyped, QueriesTyped,
    HistoryTyped, RestTyped
<1> QED
  BY <1>1, TypesSplit, PTL

-----------------------------------------------------------------------------
(* What is asked and what arrives is addressed well.                       *)

(* Calls that are sent and taken keep what the calls are about;            *)
LEMMA CallsSent ==
  ASSUME CallsAddressed, NEW N, NEW M, Grows(requests, requests', N, M),
         \A r \in N : r.kind = "path" => r.name \in Instances /\ r.gen \in Generations
  PROVE  CallsAddressed'
BY DEF CallsAddressed, Grows

(* one that is taken is no more;                                           *)
LEMMA CallTaken ==
  ASSUME CallsAddressed, Shrinks(requests, requests')
  PROVE  CallsAddressed'
BY DEF CallsAddressed, Shrinks

(* and one about a path is about an instance.                              *)
LEMMA PathCallSent ==
  ASSUME CallsAddressed, NEW g \in Generations, NEW i \in Instances,
         Grows(requests, requests', {PathRequest(i, g)}, {PathRequest(i, g)})
  PROVE  CallsAddressed'
<1>1. PathRequest(i, g).name \in Instances /\ PathRequest(i, g).gen \in Generations
  BY DEF PathRequest
<1> QED
  BY <1>1, CallsSent

(* Messages that are sent are addressed well;                              *)
LEMMA MessagesSent ==
  ASSUME MessagesAddressed, NEW N, NEW M, Sends(N, M), \A m \in N : WellAddressed(m)
  PROVE  MessagesAddressed'
BY DEF MessagesAddressed, Sends, Grows

(* those behind one that is taken were;                                    *)
LEMMA MessageTaken ==
  ASSUME MessagesAddressed, Takes1
  PROVE  MessagesAddressed'
BY DEF MessagesAddressed, Takes1, Shrinks

(* and these are.                                                          *)
LEMMA WellAddressedMessages ==
  /\ \A kind \in OwnerKinds, g \in Generations, n \in Names : WellAddressed(About(kind, g, n))
  /\ \A kind \in SignalKinds, g \in Generations, i \in Instances : WellAddressed(About(kind, g, i))
  /\ \A g \in Generations, i \in Instances : \A found \in SUBSET {i} :
       WellAddressed(Answer("path", g, i, found))
  /\ \A found \in SUBSET Instances : WellAddressed(Answer("list", 0, Manager, found))
BY DEF WellAddressed, About, Answer, OwnerKinds, SignalKinds

(* Calls.                                                                  *)
LEMMA CallsStayAddressed ==
  ASSUME TypeOK, Addressed, [Next]_vars
  PROVE  CallsAddressed'
<1>1. ASSUME UNCHANGED <<requests>> PROVE CallsAddressed'
  BY <1>1 DEF Addressed, CallsAddressed
<1>2. CASE UNCHANGED vars
  BY <1>1, <1>2 DEF vars, bus
<1>3. CASE Start \/ Die \/ DispatchSignalFirst \/ DispatchSignalSecond
  BY <1>1, <1>3 DEF Start, Die, DispatchSignalFirst, Told, bus,
    DispatchSignalSecond, Receive
<1>4. CASE DispatchList \/ InstallRemoved
  BY <1>1, <1>4 DEF DispatchList, Receive, InstallRemoved, bus
<1>5. ASSUME NEW i \in Instances, Acquire(i) PROVE CallsAddressed'
  BY <1>1, <1>5 DEF Acquire, bus
<1>6. ASSUME NEW i \in Instances, Release(i) PROVE CallsAddressed'
  BY <1>1, <1>6 DEF Release, bus
<1>7. ASSUME NEW i \in Instances, Export(i) PROVE CallsAddressed'
  BY <1>1, <1>7 DEF Export, bus
<1>8. ASSUME NEW i \in Instances, Unexport(i) PROVE CallsAddressed'
  BY <1>1, <1>8 DEF Unexport, bus
<1>9. ASSUME NEW l \in Listeners, AddFirst(l) PROVE CallsAddressed'
  BY <1>1, <1>9 DEF AddFirst, bus
<1>10. ASSUME NEW l \in Listeners, AddAnother(l) PROVE CallsAddressed'
  BY <1>1, <1>10 DEF AddAnother, bus
<1>11. ASSUME NEW l \in Listeners, Leave(l) PROVE CallsAddressed'
  BY <1>1, <1>11 DEF Leave, bus
<1>12. ASSUME NEW q \in Queries, Read(q) PROVE CallsAddressed'
  BY <1>1, <1>12 DEF Read, bus
<1>13. ASSUME NEW q \in Queries, NEW i \in Instances, LookUnknown(q, i) PROVE CallsAddressed'
  BY <1>1, <1>13 DEF LookUnknown, bus
<1>14. ASSUME NEW q \in Queries, NEW i \in Instances, LookTwice(q, i) PROVE CallsAddressed'
  BY <1>1, <1>14 DEF LookTwice, Continue, bus
<1>15. ASSUME NEW q \in Queries, NEW i \in Instances, LookResolved(q, i) PROVE CallsAddressed'
  BY <1>1, <1>15 DEF LookResolved, Continue, bus
<1>16. CASE AnswerNext
  BY <1>16, AnswerSends, CallTaken DEF Addressed
<1>17. CASE GiveUp
  BY <1>17, GiveUpSends, CallTaken DEF Addressed
<1>18. CASE DispatchToRegistry
  <2>1. PICK n \in Names :
          /\ Head(inbox).names = {n}
          /\ \/ Head(inbox).kind = "owned" /\ OnNameOwned(Head(inbox).gen, n)
             \/ Head(inbox).kind = "lost" /\ OnNameLost(Head(inbox).gen, n)
             \/ Head(inbox).kind = "path" /\ n \in Instances /\ Head(inbox).found \in SUBSET Instances
                  /\ OnPathAnswered(Head(inbox).gen, n, Head(inbox).found)
    BY <1>18, DispatchedToRegistry
  <2>2. Head(inbox).gen \in Generations
    BY <1>18, DispatchedToRegistry
  <2>3. CASE OnNameOwned(Head(inbox).gen, n)
    <3>1. CASE UNCHANGED requests
      BY <3>1 DEF Addressed, CallsAddressed
    <3>2. CASE n \in Instances /\ Begins(Head(inbox).gen, n)
      BY <2>2, <3>2, PathCallSent DEF Begins, Addressed
    <3> QED
      BY <2>2, <2>3, <3>1, <3>2, NameOwned
  <2>4. CASE UNCHANGED requests
    BY <2>4 DEF Addressed, CallsAddressed
  <2> QED
    BY <2>1, <2>2, <2>3, <2>4, NameLost, PathAnswered
<1>19. CASE AskForInstances
  <2>1. Grows(requests, requests', {ListRequest}, {ListRequest})
    <3>1. ListRequest \in Request
      BY DEF ListRequest, Request
    <3> QED
      BY <1>19, <3>1, Typed, Appending DEF AskForInstances
  <2> QED
    BY <2>1, CallsSent DEF ListRequest, Addressed
<1>20. ASSUME NEW q \in Queries, NEW i \in Instances, LookAbsent(q, i) PROVE CallsAddressed'
  BY <1>20, AbsentLooked, PathCallSent DEF Begins, Addressed
<1>21. ASSUME NEW q \in Queries, NEW i \in Instances, LookUnresolved(q, i) PROVE CallsAddressed'
  BY <1>21, UnresolvedLooked, PathCallSent DEF Addressed
<1> QED
  BY StepOfNext, <1>2, <1>3, <1>4, <1>5, <1>6, <1>7, <1>8, <1>9, <1>10, <1>11,
    <1>12, <1>13, <1>14, <1>15, <1>16, <1>17, <1>18, <1>19, <1>20, <1>21 DEF Step

(* Messages.                                                               *)
LEMMA MessagesStayAddressed ==
  ASSUME TypeOK, Addressed, Down, [Next]_vars
  PROVE  MessagesAddressed'
<1>1. ASSUME UNCHANGED <<inbox>> PROVE MessagesAddressed'
  BY <1>1 DEF Addressed, MessagesAddressed
<1>2. CASE UNCHANGED vars
  BY <1>1, <1>2 DEF vars, bus
<1>3. CASE DispatchSignalFirst \/ InstallRemoved \/ AskForInstances
  BY <1>1, <1>3 DEF DispatchSignalFirst, Told, bus, InstallRemoved,
    AskForInstances
<1>4. ASSUME NEW l \in Listeners, AddFirst(l) PROVE MessagesAddressed'
  BY <1>1, <1>4 DEF AddFirst, bus
<1>5. ASSUME NEW l \in Listeners, AddAnother(l) PROVE MessagesAddressed'
  BY <1>1, <1>5 DEF AddAnother, bus
<1>6. ASSUME NEW l \in Listeners, Leave(l) PROVE MessagesAddressed'
  BY <1>1, <1>6 DEF Leave, bus
<1>7. ASSUME NEW q \in Queries, Read(q) PROVE MessagesAddressed'
  BY <1>1, <1>7 DEF Read, bus
<1>8. ASSUME NEW q \in Queries, NEW i \in Instances, LookUnknown(q, i) PROVE MessagesAddressed'
  BY <1>1, <1>8 DEF LookUnknown, bus
<1>9. ASSUME NEW q \in Queries, NEW i \in Instances, LookAbsent(q, i) PROVE MessagesAddressed'
  BY <1>1, <1>9 DEF LookAbsent, Continue, bus
<1>10. ASSUME NEW q \in Queries, NEW i \in Instances, LookUnresolved(q, i) PROVE MessagesAddressed'
  BY <1>1, <1>10 DEF LookUnresolved, Continue, bus
<1>11. ASSUME NEW q \in Queries, NEW i \in Instances, LookTwice(q, i) PROVE MessagesAddressed'
  BY <1>1, <1>11 DEF LookTwice, Continue, bus
<1>12. ASSUME NEW q \in Queries, NEW i \in Instances, LookResolved(q, i) PROVE MessagesAddressed'
  BY <1>1, <1>12 DEF LookResolved, Continue, bus
<1>13. CASE Start
  <2>1. service.gen + 1 \in Generations /\ service'.names \in SUBSET Names
    BY <1>13, Typed, ServiceTyped DEF Start, ServiceTypes, ServiceOK
  <2>2. \A n \in service'.names : WellAddressed(About("owned", service.gen + 1, n))
    BY <2>1, WellAddressedMessages DEF OwnerKinds
  <2> QED
    BY <1>13, <2>2, StartSends, MessagesSent DEF Addressed
<1>14. CASE Die
  <2>1. service.gen \in Generations /\ service.names \in SUBSET Names
    BY <1>14, Typed DEF Die, Down, ServiceTypes
  <2>2. \A n \in service.names : WellAddressed(About("lost", service.gen, n))
    BY <2>1, WellAddressedMessages DEF OwnerKinds
  <2> QED
    BY <1>14, <2>2, DieSends, MessagesSent DEF Addressed
<1>15. ASSUME NEW i \in Instances, Acquire(i) PROVE MessagesAddressed'
  <2>1. service.gen \in Generations
    BY <1>15, Typed DEF Acquire, Down, ServiceTypes, ServiceOK, TypeOK
  <2>2. WellAddressed(About("owned", service.gen, i)) /\ i \in Names
    BY <2>1, WellAddressedMessages DEF OwnerKinds
  <2> QED
    BY <1>15, <2>2, AcquireSends, MessagesSent DEF Addressed
<1>16. ASSUME NEW i \in Instances, Release(i) PROVE MessagesAddressed'
  <2>1. service.gen \in Generations
    BY <1>16, Typed DEF Release, Down, ServiceTypes, ServiceOK, TypeOK
  <2>2. WellAddressed(About("lost", service.gen, i)) /\ i \in Names
    BY <2>1, WellAddressedMessages DEF OwnerKinds
  <2> QED
    BY <1>16, <2>2, ReleaseSends, MessagesSent DEF Addressed
<1>17. ASSUME NEW i \in Instances, Export(i) PROVE MessagesAddressed'
  <2>1. service.gen \in Generations /\ Signal("added", i) /\ "added" \in SignalKinds
    BY <1>17, Typed DEF Export, Down, ServiceTypes, TypeOK, SignalKinds
  <2>2. WellAddressed(About("added", service.gen, i))
    BY <2>1, WellAddressedMessages
  <2>3. \E M : Sends({About("added", service.gen, i)}, M)
    BY <2>1, SignalSends
  <2> QED
    BY <2>2, <2>3, MessagesSent DEF Addressed
<1>18. ASSUME NEW i \in Instances, Unexport(i) PROVE MessagesAddressed'
  <2>1. service.gen \in Generations /\ Signal("removed", i) /\ "removed" \in SignalKinds
    BY <1>18, Typed DEF Unexport, Down, ServiceTypes, TypeOK, SignalKinds
  <2>2. WellAddressed(About("removed", service.gen, i))
    BY <2>1, WellAddressedMessages
  <2>3. \E M : Sends({About("removed", service.gen, i)}, M)
    BY <2>1, SignalSends
  <2> QED
    BY <2>2, <2>3, MessagesSent DEF Addressed
<1>19. CASE AnswerNext
  <2> DEFINE r == Head(requests)
  <2>1. r \in Request /\ Shrinks(requests, requests')
    BY <1>19, AnswerSends
  <2>2. r = requests[1] /\ 1 \in DOMAIN requests
    BY <2>1 DEF Shrinks
  <2>3. r.kind \in {"owner", "path", "list"} /\ r.name \in Names
    BY <2>1 DEF Request
  <2>4. CASE r.kind = "owner"
    <3>1. CASE r.name \in service.names
      <4>1. service.gen \in Generations
        BY <3>1, Typed DEF Down, ServiceTypes
      <4>2. WellAddressed(About("owned", service.gen, r.name))
        BY <2>3, <4>1, WellAddressedMessages DEF OwnerKinds
      <4> QED
        BY <1>19, <2>4, <4>2, AnswerSends, MessagesSent DEF Addressed
    <3>2. CASE Sends({}, {})
      BY <3>2, MessagesSent DEF Addressed
    <3> QED
      BY <1>19, <2>4, <3>1, <3>2, AnswerSends
  <2>5. CASE r.kind = "path"
    <3>1. r.name \in Instances /\ r.gen \in Generations
      BY <2>2, <2>5 DEF Addressed, CallsAddressed
    <3>2. Truth(r) \in SUBSET {r.name}
      BY DEF Truth
    <3>3. WellAddressed(Answer("path", r.gen, r.name, Truth(r)))
      BY <3>1, <3>2, WellAddressedMessages
    <3> QED
      BY <1>19, <2>5, <3>3, AnswerSends, MessagesSent DEF Addressed
  <2>6. CASE r.kind = "list"
    <3>1. service.managed \in SUBSET Instances
      BY Typed DEF ServiceTypes
    <3>2. WellAddressed(Answer("list", 0, Manager, service.managed))
      BY <3>1, WellAddressedMessages
    <3> QED
      BY <1>19, <2>6, <3>2, AnswerSends, MessagesSent DEF Addressed
  <2> QED
    BY <2>3, <2>4, <2>5, <2>6
<1>20. CASE GiveUp
  <2>1. WellAddressed(Answer("list", 0, Manager, {}))
    BY WellAddressedMessages
  <2> QED
    BY <1>20, <2>1, GiveUpSends, MessagesSent DEF Addressed
<1>21. CASE DispatchToRegistry
  BY <1>21, DispatchedToRegistry, MessageTaken DEF Addressed
<1>22. CASE DispatchSignalSecond
  BY <1>22, SignalSecond, MessageTaken DEF Addressed
<1>23. CASE DispatchList
  BY <1>23, ListDispatched, MessageTaken DEF Addressed
<1> QED
  BY StepOfNext, <1>2, <1>3, <1>4, <1>5, <1>6, <1>7, <1>8, <1>9, <1>10, <1>11,
    <1>12, <1>13, <1>14, <1>15, <1>16, <1>17, <1>18, <1>19, <1>20, <1>21,
    <1>22, <1>23 DEF Step

(* Queries.                                                                *)
LEMMA QueriesStayAddressed ==
  ASSUME TypeOK, Addressed, [Next]_vars
  PROVE  QueriesAddressed'
<1>1. ASSUME UNCHANGED <<query>> PROVE QueriesAddressed'
  BY <1>1 DEF Addressed, QueriesAddressed
<1>2. CASE UNCHANGED vars
  BY <1>1, <1>2 DEF vars, bus
<1>3. CASE Start \/ Die \/ AnswerNext \/ GiveUp
  BY <1>1, <1>3 DEF Start, Die, AnswerNext, GiveUp, bus
<1>4. CASE DispatchSignalFirst \/ DispatchSignalSecond \/ DispatchList \/ InstallRemoved
  BY <1>1, <1>4 DEF DispatchSignalFirst, Told, bus, DispatchSignalSecond,
    Receive, DispatchList, InstallRemoved
<1>5. CASE AskForInstances
  BY <1>1, <1>5 DEF AskForInstances, bus
<1>6. ASSUME NEW i \in Instances, Acquire(i) PROVE QueriesAddressed'
  BY <1>1, <1>6 DEF Acquire, bus
<1>7. ASSUME NEW i \in Instances, Release(i) PROVE QueriesAddressed'
  BY <1>1, <1>7 DEF Release, bus
<1>8. ASSUME NEW i \in Instances, Unexport(i) PROVE QueriesAddressed'
  BY <1>1, <1>8 DEF Unexport, bus
<1>9. ASSUME NEW l \in Listeners, AddFirst(l) PROVE QueriesAddressed'
  BY <1>1, <1>9 DEF AddFirst, bus
<1>10. ASSUME NEW l \in Listeners, AddAnother(l) PROVE QueriesAddressed'
  BY <1>1, <1>10 DEF AddAnother, bus
<1>11. ASSUME NEW l \in Listeners, Leave(l) PROVE QueriesAddressed'
  BY <1>1, <1>11 DEF Leave, bus
<1>12. ASSUME NEW q \in Queries, NEW i \in Instances, LookUnknown(q, i) PROVE QueriesAddressed'
  BY <1>1, <1>12 DEF LookUnknown, bus
<1>13. ASSUME NEW i \in Instances, Export(i) PROVE QueriesAddressed'
  <2>1. query' = [q \in Queries |-> IF query[q].instance = i
                     THEN [query[q] EXCEPT !.gone = FALSE] ELSE query[q]]
    BY <1>13 DEF Export
  <2>2. \A q \in Queries : query'[q].pc = query[q].pc /\ query'[q].instance = query[q].instance
                           /\ query'[q].gen = query[q].gen
    BY <2>1, Typed DEF QueryTypes
  <2> QED
    BY <2>2 DEF Addressed, QueriesAddressed
<1>14. CASE DispatchToRegistry
  <2>1. PICK n \in Names :
          /\ Head(inbox).names = {n}
          /\ \/ Head(inbox).kind = "owned" /\ OnNameOwned(Head(inbox).gen, n)
             \/ Head(inbox).kind = "lost" /\ OnNameLost(Head(inbox).gen, n)
             \/ Head(inbox).kind = "path" /\ n \in Instances /\ Head(inbox).found \in SUBSET Instances
                  /\ OnPathAnswered(Head(inbox).gen, n, Head(inbox).found)
    BY <1>14, DispatchedToRegistry
  <2>2. Head(inbox).gen \in Generations
    BY <1>14, DispatchedToRegistry
  <2>3. CASE UNCHANGED query
    BY <2>3 DEF Addressed, QueriesAddressed
  <2>4. CASE OnNameLost(Head(inbox).gen, n)
    <3>1. \A q \in Queries : query'[q] = query[q] \/ query'[q] = [query[q] EXCEPT !.torn = TRUE]
      BY <2>2, <2>4, NameLost
    <3>2. \A q \in Queries : query'[q].pc = query[q].pc /\ query'[q].instance = query[q].instance
                             /\ query'[q].gen = query[q].gen
      BY <3>1, Typed, ZenonT(60) DEF QueryTypes
    <3> QED
      BY <3>2 DEF Addressed, QueriesAddressed
  <2> QED
    BY <2>1, <2>2, <2>3, <2>4, NameOwned, PathAnswered
<1>15. ASSUME NEW q \in Queries, Read(q) PROVE QueriesAddressed'
  <2>1. PICK answer \in BOOLEAN :
          query' = [query EXCEPT ![q] = [Idle EXCEPT !.pc = "done", !.answer = answer]]
    BY <1>15 DEF Read
  <2>2. query'[q].pc = "done" /\ \A r \in Queries : r # q => query'[r] = query[r]
    BY <2>1, Typed DEF Idle
  <2> QED
    BY <2>2 DEF Addressed, QueriesAddressed
<1>16. ASSUME NEW q \in Queries, NEW i \in Instances, LookAbsent(q, i) PROVE QueriesAddressed'
  <2>1. Continue(q, i, "waiting")
    BY <1>16 DEF LookAbsent
  <2> QED
    BY <2>1, Continued DEF Addressed, QueriesAddressed
<1>17. ASSUME NEW q \in Queries, NEW i \in Instances, LookUnresolved(q, i) PROVE QueriesAddressed'
  <2>1. Continue(q, i, "waiting")
    BY <1>17 DEF LookUnresolved
  <2> QED
    BY <2>1, Continued DEF Addressed, QueriesAddressed
<1>18. ASSUME NEW q \in Queries, NEW i \in Instances, LookTwice(q, i) PROVE QueriesAddressed'
  <2>1. Continue(q, i, "thrown")
    BY <1>18 DEF LookTwice
  <2> QED
    BY <2>1, Continued DEF Addressed, QueriesAddressed
<1>19. ASSUME NEW q \in Queries, NEW i \in Instances, LookResolved(q, i) PROVE QueriesAddressed'
  <2>1. Continue(q, i, "waiting")
    BY <1>19 DEF LookResolved
  <2> QED
    BY <2>1, Continued DEF Addressed, QueriesAddressed
<1> QED
  BY StepOfNext, <1>2, <1>3, <1>4, <1>5, <1>6, <1>7, <1>8, <1>9, <1>10, <1>11,
    <1>12, <1>13, <1>14, <1>15, <1>16, <1>17, <1>18, <1>19 DEF Step

-----------------------------------------------------------------------------
(* The service, the handlers, and the owners.                              *)

(* A process that is down has nothing.                                     *)
LEMMA DownStays ==
  ASSUME TypeOK, Down, [Next]_vars
  PROVE  Down'
<1>1. ASSUME UNCHANGED <<service>> PROVE Down'
  BY <1>1 DEF Addressed, Down
<1>2. CASE UNCHANGED vars
  BY <1>1, <1>2 DEF vars, bus
<1>3. CASE AnswerNext \/ GiveUp \/ DispatchToRegistry \/ DispatchSignalFirst
  BY <1>1, <1>3 DEF AnswerNext, GiveUp, DispatchToRegistry, Receive,
    DispatchSignalFirst, Told, bus
<1>4. CASE DispatchSignalSecond \/ DispatchList \/ InstallRemoved \/ AskForInstances
  BY <1>1, <1>4 DEF DispatchSignalSecond, Told, Receive, DispatchList,
    InstallRemoved, AskForInstances, bus
<1>5. ASSUME NEW l \in Listeners, AddFirst(l) PROVE Down'
  BY <1>1, <1>5 DEF AddFirst, bus
<1>6. ASSUME NEW l \in Listeners, AddAnother(l) PROVE Down'
  BY <1>1, <1>6 DEF AddAnother, bus
<1>7. ASSUME NEW l \in Listeners, Leave(l) PROVE Down'
  BY <1>1, <1>7 DEF Leave, bus
<1>8. ASSUME NEW q \in Queries, Read(q) PROVE Down'
  BY <1>1, <1>8 DEF Read, bus
<1>9. ASSUME NEW q \in Queries, NEW i \in Instances, LookUnknown(q, i) PROVE Down'
  BY <1>1, <1>9 DEF LookUnknown, bus
<1>10. ASSUME NEW q \in Queries, NEW i \in Instances, LookAbsent(q, i) PROVE Down'
  BY <1>1, <1>10 DEF LookAbsent, Continue, bus
<1>11. ASSUME NEW q \in Queries, NEW i \in Instances, LookUnresolved(q, i) PROVE Down'
  BY <1>1, <1>11 DEF LookUnresolved, Continue, bus
<1>12. ASSUME NEW q \in Queries, NEW i \in Instances, LookTwice(q, i) PROVE Down'
  BY <1>1, <1>12 DEF LookTwice, Continue, bus
<1>13. ASSUME NEW q \in Queries, NEW i \in Instances, LookResolved(q, i) PROVE Down'
  BY <1>1, <1>13 DEF LookResolved, Continue, bus
<1>14. CASE Start
  <2>1. service.gen + 1 \in Generations
    BY <1>14, Typed DEF Start, ServiceTypes
  <2>2. PICK named \in SUBSET Instances :
          service' = [gen |-> service.gen + 1, up |-> TRUE, names |-> {Manager} \cup named,
                      managed |-> {}]
    BY <1>14, Zenon DEF Start
  <2> QED
    BY <2>1, <2>2 DEF Down
<1>15. CASE Die
  BY <1>15, Typed DEF Die, Down, ServiceTypes
<1>16. ASSUME NEW i \in Instances, Acquire(i) PROVE Down'
  BY <1>16, Typed DEF Acquire, Down, ServiceTypes
<1>17. ASSUME NEW i \in Instances, Release(i) PROVE Down'
  <2>1. service.up
    BY <1>17 DEF Release, Down
  <2> QED
    BY <1>17, <2>1, Typed DEF Release, Down, ServiceTypes
<1>18. ASSUME NEW i \in Instances, Export(i) PROVE Down'
  BY <1>18, Typed DEF Export, Down, ServiceTypes
<1>19. ASSUME NEW i \in Instances, Unexport(i) PROVE Down'
  <2>1. service.up
    BY <1>19 DEF Unexport, Down
  <2> QED
    BY <1>19, <2>1, Typed DEF Unexport, Down, ServiceTypes
<1> QED
  BY StepOfNext, <1>2, <1>3, <1>4, <1>5, <1>6, <1>7, <1>8, <1>9, <1>10, <1>11,
    <1>12, <1>13, <1>14, <1>15, <1>16, <1>17, <1>18, <1>19 DEF Step

(* The handlers are there while somebody listens.                          *)
LEMMA HandlersStay ==
  ASSUME TypeOK, Addressed, Handlers, [Next]_vars
  PROVE  Handlers'
<1>1. ASSUME UNCHANGED <<event>> PROVE Handlers'
  BY <1>1 DEF Handlers, Settled
<1>2. CASE UNCHANGED vars
  BY <1>1, <1>2 DEF vars, bus
<1>3. CASE Start \/ Die \/ AnswerNext \/ GiveUp
  BY <1>1, <1>3 DEF Start, Die, AnswerNext, GiveUp, bus
<1>4. CASE DispatchToRegistry \/ DispatchSignalFirst
  BY <1>1, <1>4 DEF DispatchToRegistry, Receive, DispatchSignalFirst, Told,
    bus
<1>5. ASSUME NEW i \in Instances, Acquire(i) PROVE Handlers'
  BY <1>1, <1>5 DEF Acquire, bus
<1>6. ASSUME NEW i \in Instances, Release(i) PROVE Handlers'
  BY <1>1, <1>6 DEF Release, bus
<1>7. ASSUME NEW i \in Instances, Export(i) PROVE Handlers'
  BY <1>1, <1>7 DEF Export, bus
<1>8. ASSUME NEW i \in Instances, Unexport(i) PROVE Handlers'
  BY <1>1, <1>8 DEF Unexport, bus
<1>9. ASSUME NEW q \in Queries, Read(q) PROVE Handlers'
  BY <1>1, <1>9 DEF Read, bus
<1>10. ASSUME NEW q \in Queries, NEW i \in Instances, LookUnknown(q, i) PROVE Handlers'
  BY <1>1, <1>10 DEF LookUnknown, bus
<1>11. ASSUME NEW q \in Queries, NEW i \in Instances, LookAbsent(q, i) PROVE Handlers'
  BY <1>1, <1>11 DEF LookAbsent, Continue, bus
<1>12. ASSUME NEW q \in Queries, NEW i \in Instances, LookUnresolved(q, i) PROVE Handlers'
  BY <1>1, <1>12 DEF LookUnresolved, Continue, bus
<1>13. ASSUME NEW q \in Queries, NEW i \in Instances, LookTwice(q, i) PROVE Handlers'
  BY <1>1, <1>13 DEF LookTwice, Continue, bus
<1>14. ASSUME NEW q \in Queries, NEW i \in Instances, LookResolved(q, i) PROVE Handlers'
  BY <1>1, <1>14 DEF LookResolved, Continue, bus
<1>15. CASE DispatchSignalSecond
  <2>1. EventFrame
    BY <1>15, SignalSecond, EventHears
  <2> QED
    BY <2>1 DEF EventFrame, Handlers, Settled
<1>16. CASE DispatchList
  <2>1. EventFrame
    BY <1>16, ListDispatched, TableGrows
  <2> QED
    BY <2>1 DEF EventFrame, Handlers, Settled
<1>17. ASSUME NEW l \in Listeners, AddFirst(l) PROVE Handlers'
  BY <1>17, Typed DEF AddFirst, Handlers, EventTypes, Settled, SignalKinds
<1>18. ASSUME NEW l \in Listeners, AddAnother(l) PROVE Handlers'
  BY <1>18, Typed DEF AddAnother, Handlers, EventTypes, Settled, SignalKinds
<1>19. ASSUME NEW l \in Listeners, Leave(l) PROVE Handlers'
  BY <1>19, Typed DEF Leave, Handlers, EventTypes, Settled, SignalKinds
<1>20. CASE InstallRemoved
  BY <1>20, Typed DEF InstallRemoved, Handlers, EventTypes, Settled, SignalKinds
<1>21. CASE AskForInstances
  BY <1>21, Typed DEF AskForInstances, Handlers, EventTypes, Settled, SignalKinds
<1> QED
  BY StepOfNext, <1>2, <1>3, <1>4, <1>5, <1>6, <1>7, <1>8, <1>9, <1>10, <1>11,
    <1>12, <1>13, <1>14, <1>15, <1>16, <1>17, <1>18, <1>19, <1>20, <1>21 DEF Step

(* Who is watched owns a name.                                             *)
LEMMA WatchedStayOwned ==
  ASSUME TypeOK, Addressed, WatchedIsOwned, [Next]_vars
  PROVE  WatchedIsOwned'
<1>1. ASSUME UNCHANGED <<reg>> PROVE WatchedIsOwned'
  BY <1>1 DEF Addressed, WatchedIsOwned
<1>2. CASE UNCHANGED vars
  BY <1>1, <1>2 DEF vars, bus
<1>3. CASE Start \/ Die \/ AnswerNext \/ GiveUp
  BY <1>1, <1>3 DEF Start, Die, AnswerNext, GiveUp, bus
<1>4. CASE DispatchSignalSecond \/ DispatchList \/ InstallRemoved \/ AskForInstances
  BY <1>1, <1>4 DEF DispatchSignalSecond, Told, Receive, DispatchList,
    InstallRemoved, AskForInstances, bus
<1>5. ASSUME NEW i \in Instances, Acquire(i) PROVE WatchedIsOwned'
  BY <1>1, <1>5 DEF Acquire, bus
<1>6. ASSUME NEW i \in Instances, Release(i) PROVE WatchedIsOwned'
  BY <1>1, <1>6 DEF Release, bus
<1>7. ASSUME NEW i \in Instances, Export(i) PROVE WatchedIsOwned'
  BY <1>1, <1>7 DEF Export, bus
<1>8. ASSUME NEW i \in Instances, Unexport(i) PROVE WatchedIsOwned'
  BY <1>1, <1>8 DEF Unexport, bus
<1>9. ASSUME NEW l \in Listeners, AddFirst(l) PROVE WatchedIsOwned'
  BY <1>1, <1>9 DEF AddFirst, bus
<1>10. ASSUME NEW l \in Listeners, AddAnother(l) PROVE WatchedIsOwned'
  BY <1>1, <1>10 DEF AddAnother, bus
<1>11. ASSUME NEW l \in Listeners, Leave(l) PROVE WatchedIsOwned'
  BY <1>1, <1>11 DEF Leave, bus
<1>12. ASSUME NEW q \in Queries, Read(q) PROVE WatchedIsOwned'
  BY <1>1, <1>12 DEF Read, bus
<1>13. ASSUME NEW q \in Queries, NEW i \in Instances, LookUnknown(q, i) PROVE WatchedIsOwned'
  BY <1>1, <1>13 DEF LookUnknown, bus
<1>14. ASSUME NEW q \in Queries, NEW i \in Instances, LookTwice(q, i) PROVE WatchedIsOwned'
  BY <1>1, <1>14 DEF LookTwice, Continue, bus
<1>15. ASSUME NEW q \in Queries, NEW i \in Instances, LookResolved(q, i) PROVE WatchedIsOwned'
  BY <1>1, <1>15 DEF LookResolved, Continue, bus
<1>16. CASE DispatchToRegistry
  <2>1. PICK n \in Names :
          /\ Head(inbox).names = {n}
          /\ \/ Head(inbox).kind = "owned" /\ OnNameOwned(Head(inbox).gen, n)
             \/ Head(inbox).kind = "lost" /\ OnNameLost(Head(inbox).gen, n)
             \/ Head(inbox).kind = "path" /\ n \in Instances /\ Head(inbox).found \in SUBSET Instances
                  /\ OnPathAnswered(Head(inbox).gen, n, Head(inbox).found)
    BY <1>16, DispatchedToRegistry
  <2>2. Head(inbox).gen \in Generations
    BY <1>16, DispatchedToRegistry
  <2> DEFINE g == Head(inbox).gen
  <2>3. CASE OnNameOwned(g, n)
    <3>1. /\ reg'.owned[g] = reg.owned[g] \cup {n}
          /\ \A h \in Generations : h # g => reg'.owned[h] = reg.owned[h]
          /\ \A h \in reg'.watched : h \in reg.watched \/ h = g
      BY <2>2, <2>3, NameOwned
    <3>2. reg.watched \subseteq Generations
      BY Typed DEF RegTypes
    <3> QED
      BY <3>1, <3>2 DEF WatchedIsOwned
  <2>4. CASE OnNameLost(g, n)
    BY <2>2, <2>4, NameLost, Typed DEF WatchedIsOwned, RegTypes
  <2>5. CASE reg'.owned = reg.owned /\ reg'.watched = reg.watched
    BY <2>5 DEF WatchedIsOwned
  <2> QED
    BY <2>1, <2>2, <2>3, <2>4, <2>5, PathAnswered
<1>17. CASE DispatchSignalFirst
  BY <1>17, SignalFirst, SignalTold DEF WatchedIsOwned
<1>18. ASSUME NEW q \in Queries, NEW i \in Instances, LookAbsent(q, i) PROVE WatchedIsOwned'
  BY <1>18, AbsentLooked DEF WatchedIsOwned
<1>19. ASSUME NEW q \in Queries, NEW i \in Instances, LookUnresolved(q, i) PROVE WatchedIsOwned'
  BY <1>19, UnresolvedLooked DEF WatchedIsOwned
<1> QED
  BY StepOfNext, <1>2, <1>3, <1>4, <1>5, <1>6, <1>7, <1>8, <1>9, <1>10, <1>11,
    <1>12, <1>13, <1>14, <1>15, <1>16, <1>17, <1>18, <1>19 DEF Step

-----------------------------------------------------------------------------
(* What the steps do to the parts of records.                              *)

(* What the start of a process does to the history.                        *)
LEMMA HistoryOfStart ==
  ASSUME TypeOK, Start
  PROVE  /\ history'.unseen = history.unseen /\ history'.gone = history.gone
         /\ history'.since = history.since /\ history'.failed = history.failed
         /\ history'.doubled = history.doubled
         /\ history'.dropped = history.dropped
<1>1. history \in HistoryTypes
  BY Typed
<1>2. history' = [history EXCEPT !.changes = @ + 1]
  BY DEF Start
<1> QED
  BY <1>1, <1>2 DEF HistoryTypes

(* What a name that is acquired does to the history.                       *)
LEMMA HistoryOfAcquire ==
  ASSUME TypeOK, NEW i \in Instances, Acquire(i)
  PROVE  /\ history'.unseen = history.unseen /\ history'.gone = history.gone
         /\ history'.since = history.since /\ history'.failed = history.failed
         /\ history'.doubled = history.doubled
         /\ history'.dropped = history.dropped
<1>1. history \in HistoryTypes
  BY Typed
<1>2. history' = [history EXCEPT !.changes = @ + 1]
  BY DEF Acquire
<1> QED
  BY <1>1, <1>2 DEF HistoryTypes

(* What a name that is released does to the history.                       *)
LEMMA HistoryOfRelease ==
  ASSUME TypeOK, NEW i \in Instances, Release(i)
  PROVE  /\ history'.unseen = history.unseen /\ history'.gone = history.gone
         /\ history'.since = history.since /\ history'.failed = history.failed
         /\ history'.doubled = history.doubled
         /\ history'.dropped = history.dropped
<1>1. history \in HistoryTypes
  BY Typed
<1>2. history' = [history EXCEPT !.changes = @ + 1]
  BY DEF Release
<1> QED
  BY <1>1, <1>2 DEF HistoryTypes

(* What the end of a process does to the history.                          *)
LEMMA HistoryOfDie ==
  ASSUME TypeOK, Die
  PROVE  /\ history'.gone = history.gone /\ history'.since = history.since
         /\ history'.failed = history.failed
         /\ history'.doubled = history.doubled
         /\ history'.dropped = history.dropped
         /\ history'.unseen = history.unseen \cup service.managed
<1>1. history \in HistoryTypes
  BY Typed
<1> DEFINE h == [history EXCEPT !.changes = @ + 1]
<1>2. h \in HistoryTypes
  BY <1>1 DEF HistoryTypes
<1>3. /\ h.unseen = history.unseen /\ h.gone = history.gone
      /\ h.since = history.since /\ h.failed = history.failed
      /\ h.doubled = history.doubled /\ h.dropped = history.dropped
  BY <1>1 DEF HistoryTypes
<1>4. history' = [h EXCEPT !.unseen = @ \cup service.managed]
  BY DEF Die
<1> HIDE DEF h
<1> QED
  BY <1>1, <1>2, <1>3, <1>4 DEF HistoryTypes

(* What an instance that is exported does to the history.                  *)
LEMMA HistoryOfExport ==
  ASSUME TypeOK, NEW i \in Instances, Export(i)
  PROVE  /\ history'.unseen = history.unseen /\ history'.since = history.since
         /\ history'.failed = history.failed
         /\ history'.doubled = history.doubled
         /\ history'.dropped = history.dropped
         /\ history'.gone = history.gone \ {i}
<1>1. history \in HistoryTypes
  BY Typed
<1> DEFINE h == [history EXCEPT !.changes = @ + 1]
<1>2. h \in HistoryTypes
  BY <1>1 DEF HistoryTypes
<1>3. /\ h.unseen = history.unseen /\ h.gone = history.gone
      /\ h.since = history.since /\ h.failed = history.failed
      /\ h.doubled = history.doubled /\ h.dropped = history.dropped
  BY <1>1 DEF HistoryTypes
<1>4. history' = [h EXCEPT !.gone = @ \ {i}]
  BY DEF Export
<1> HIDE DEF h
<1> QED
  BY <1>1, <1>2, <1>3, <1>4 DEF HistoryTypes

(* What one that is taken back does to the history.                        *)
LEMMA HistoryOfUnexport ==
  ASSUME TypeOK, NEW i \in Instances, Unexport(i)
  PROVE  /\ history'.gone = history.gone /\ history'.since = history.since
         /\ history'.failed = history.failed
         /\ history'.doubled = history.doubled
         /\ history'.dropped = history.dropped
         /\ history'.unseen = IF "removed" \in event.installed THEN history.unseen
                             ELSE history.unseen \cup {i}
<1>1. history \in HistoryTypes
  BY Typed
<1> DEFINE h == [history EXCEPT !.changes = @ + 1]
<1>2. h \in HistoryTypes
  BY <1>1 DEF HistoryTypes
<1>3. /\ h.unseen = history.unseen /\ h.gone = history.gone
      /\ h.since = history.since /\ h.failed = history.failed
      /\ h.doubled = history.doubled /\ h.dropped = history.dropped
  BY <1>1 DEF HistoryTypes
<1>4. history' = [h EXCEPT !.unseen = IF "removed" \in event.installed THEN @ ELSE @ \cup {i}]
  BY DEF Unexport
<1> HIDE DEF h
<1> QED
  BY <1>1, <1>2, <1>3, <1>4 DEF HistoryTypes

(* What a call that is given up does to the history.                       *)
LEMMA HistoryOfGiveUp ==
  ASSUME TypeOK, GiveUp
  PROVE  /\ history'.unseen = history.unseen /\ history'.gone = history.gone
         /\ history'.since = history.since /\ history'.doubled = history.doubled
         /\ history'.dropped = history.dropped /\ history'.failed
<1>1. history \in HistoryTypes
  BY Typed
<1> DEFINE h == [history EXCEPT !.failures = @ + 1]
<1>2. h \in HistoryTypes
  BY <1>1 DEF HistoryTypes
<1>3. /\ h.unseen = history.unseen /\ h.gone = history.gone
      /\ h.since = history.since /\ h.failed = history.failed
      /\ h.doubled = history.doubled /\ h.dropped = history.dropped
  BY <1>1 DEF HistoryTypes
<1>4. history' = [h EXCEPT !.failed = TRUE]
  BY DEF GiveUp
<1> HIDE DEF h
<1> QED
  BY <1>1, <1>2, <1>3, <1>4 DEF HistoryTypes

(* What the first listener does to the history.                            *)
LEMMA HistoryOfAddFirst ==
  ASSUME TypeOK, NEW l \in Listeners, AddFirst(l)
  PROVE  /\ history'.unseen = history.unseen /\ history'.gone = history.gone
         /\ history'.failed = history.failed
         /\ history'.doubled = history.doubled
         /\ history'.dropped = history.dropped
         /\ history'.since[l] = event.interfaces
         /\ \A k \in Listeners \ {l} : history'.since[k] = history.since[k]
<1>1. history \in HistoryTypes
  BY Typed
<1> DEFINE h == [history EXCEPT !.toggles = @ + 1]
<1>2. h \in HistoryTypes
  BY <1>1 DEF HistoryTypes
<1>3. /\ h.unseen = history.unseen /\ h.gone = history.gone
      /\ h.since = history.since /\ h.failed = history.failed
      /\ h.doubled = history.doubled /\ h.dropped = history.dropped
  BY <1>1 DEF HistoryTypes
<1>4. history' = [h EXCEPT !.since[l] = event.interfaces]
  BY DEF AddFirst, Joins
<1> HIDE DEF h
<1> QED
  BY <1>1, <1>2, <1>3, <1>4 DEF HistoryTypes

(* What another listener does to the history.                              *)
LEMMA HistoryOfAddAnother ==
  ASSUME TypeOK, NEW l \in Listeners, AddAnother(l)
  PROVE  /\ history'.unseen = history.unseen /\ history'.gone = history.gone
         /\ history'.failed = history.failed
         /\ history'.doubled = history.doubled
         /\ history'.dropped = history.dropped
         /\ history'.since[l] = event.interfaces
         /\ \A k \in Listeners \ {l} : history'.since[k] = history.since[k]
<1>1. history \in HistoryTypes
  BY Typed
<1> DEFINE h == [history EXCEPT !.toggles = @ + 1]
<1>2. h \in HistoryTypes
  BY <1>1 DEF HistoryTypes
<1>3. /\ h.unseen = history.unseen /\ h.gone = history.gone
      /\ h.since = history.since /\ h.failed = history.failed
      /\ h.doubled = history.doubled /\ h.dropped = history.dropped
  BY <1>1 DEF HistoryTypes
<1>4. history' = [h EXCEPT !.since[l] = event.interfaces]
  BY DEF AddAnother, Joins
<1> HIDE DEF h
<1> QED
  BY <1>1, <1>2, <1>3, <1>4 DEF HistoryTypes

(* What a listener that leaves does to the history.                        *)
LEMMA HistoryOfLeave ==
  ASSUME TypeOK, NEW l \in Listeners, Leave(l)
  PROVE  /\ history'.unseen = history.unseen /\ history'.gone = history.gone
         /\ history'.failed = history.failed
         /\ history'.doubled = history.doubled
         /\ history'.dropped = history.dropped
         /\ \A k \in Listeners \ {l} : history'.since[k] = history.since[k]
<1>1. history \in HistoryTypes
  BY Typed
<1> DEFINE h == [history EXCEPT !.toggles = @ + 1]
<1>2. h \in HistoryTypes
  BY <1>1 DEF HistoryTypes
<1>3. /\ h.unseen = history.unseen /\ h.gone = history.gone
      /\ h.since = history.since /\ h.failed = history.failed
      /\ h.doubled = history.doubled /\ h.dropped = history.dropped
  BY <1>1 DEF HistoryTypes
<1>4. history' = [h EXCEPT !.since[l] = {}]
  BY DEF Leave
<1> HIDE DEF h
<1> QED
  BY <1>1, <1>2, <1>3, <1>4 DEF HistoryTypes

(* What a path that is asked for twice does to the history.                *)
LEMMA HistoryOfLookUnresolved ==
  ASSUME TypeOK, NEW q \in Queries, NEW i \in Instances, LookUnresolved(q, i)
  PROVE  /\ history'.unseen = history.unseen /\ history'.gone = history.gone
         /\ history'.since = history.since /\ history'.failed = history.failed
         /\ history'.dropped = history.dropped
         /\ history'.doubled = history.doubled \cup {i}
<1>1. history \in HistoryTypes
  BY Typed
<1>2. history' = [history EXCEPT !.doubled = @ \cup {i}]
  BY DEF LookUnresolved
<1> QED
  BY <1>1, <1>2 DEF HistoryTypes

(* What what the registry is told does to the history.                     *)
LEMMA HistoryOfDispatchToRegistry ==
  ASSUME TypeOK, Addressed, DispatchToRegistry
  PROVE  /\ history'.unseen = history.unseen /\ history'.gone = history.gone
         /\ history'.since = history.since /\ history'.failed = history.failed
         /\ history'.doubled = history.doubled
         /\ history.dropped \subseteq history'.dropped
<1>1. PICK n \in Names :
        /\ Head(inbox).names = {n}
        /\ \/ Head(inbox).kind = "owned" /\ OnNameOwned(Head(inbox).gen, n)
           \/ Head(inbox).kind = "lost" /\ OnNameLost(Head(inbox).gen, n)
           \/ Head(inbox).kind = "path" /\ n \in Instances /\ Head(inbox).found \in SUBSET Instances
                /\ OnPathAnswered(Head(inbox).gen, n, Head(inbox).found)
  BY DispatchedToRegistry
<1>2. Head(inbox).gen \in Generations /\ history \in HistoryTypes
  BY DispatchedToRegistry, Typed
<1>3. CASE UNCHANGED history
  BY <1>3
<1>4. CASE OnNameLost(Head(inbox).gen, n)
  <2>1. history' = [history EXCEPT !.dropped = history'.dropped]
        /\ history.dropped \subseteq history'.dropped
    BY <1>2, <1>4, NameLost
  <2> QED
    BY <1>2, <2>1 DEF HistoryTypes
<1> QED
  BY <1>1, <1>2, <1>3, <1>4, NameOwned, PathAnswered

(* What what the event is told does to the history.                        *)
LEMMA HistoryOfDispatchSignalSecond ==
  ASSUME TypeOK, Addressed, DispatchSignalSecond
  PROVE  /\ history'.since = history.since /\ history'.failed = history.failed
         /\ history'.doubled = history.doubled
         /\ history'.dropped = history.dropped
         /\ history.unseen \subseteq history'.unseen
<1>1. PICK n \in Instances : EventTold(Head(inbox).kind, n)
  BY SignalSecond
<1>2. Head(inbox).kind \in SignalKinds /\ history \in HistoryTypes
  BY SignalSecond, Typed
<1>3. /\ history' = [history EXCEPT !.gone = history'.gone, !.unseen = history'.unseen]
      /\ history.unseen \subseteq history'.unseen
  BY <1>1, <1>2, EventHears
<1> QED
  BY <1>2, <1>3 DEF HistoryTypes

(* What the start of a process does to the service.                        *)
LEMMA ServiceOfStart ==
  ASSUME TypeOK, Start
  PROVE  /\ ~service.up /\ service'.up /\ service'.gen = service.gen + 1
         /\ service'.managed = {} /\ service'.names \subseteq Names
<1>1. PICK named \in SUBSET Instances :
        service' = [gen |-> service.gen + 1, up |-> TRUE, names |-> {Manager} \cup named,
                    managed |-> {}]
  BY Zenon DEF Start
<1>2. ~service.up
  BY DEF Start
<1> QED
  BY <1>1, <1>2

(* What the end of a process does to the service.                          *)
LEMMA ServiceOfDie ==
  ASSUME TypeOK, Die
  PROVE  /\ service.up /\ ~service'.up /\ service'.gen = service.gen
         /\ service'.names = {} /\ service'.managed = {}
<1>1. service \in ServiceTypes
  BY Typed
<1>2. service.up /\ service' = [[[service EXCEPT !.up = FALSE] EXCEPT !.names = {}] EXCEPT !.managed = {}]
  BY DEF Die
<1> QED
  BY <1>1, <1>2 DEF ServiceTypes

(* What a name that is acquired does to the service.                       *)
LEMMA ServiceOfAcquire ==
  ASSUME TypeOK, NEW i \in Instances, Acquire(i)
  PROVE  /\ service'.gen = service.gen /\ service'.up = service.up
         /\ service'.managed = service.managed
         /\ service'.names = service.names \cup {i}
<1>1. service \in ServiceTypes
  BY Typed
<1>2. service' = [service EXCEPT !.names = @ \cup {i}]
  BY DEF Acquire
<1> QED
  BY <1>1, <1>2 DEF ServiceTypes

(* What a name that is released does to the service.                       *)
LEMMA ServiceOfRelease ==
  ASSUME TypeOK, NEW i \in Instances, Release(i)
  PROVE  /\ service'.gen = service.gen /\ service'.up = service.up
         /\ service'.managed = service.managed
         /\ service'.names = service.names \ {i}
<1>1. service \in ServiceTypes
  BY Typed
<1>2. service' = [service EXCEPT !.names = @ \ {i}]
  BY DEF Release
<1> QED
  BY <1>1, <1>2 DEF ServiceTypes

(* What an instance that is exported does to the service.                  *)
LEMMA ServiceOfExport ==
  ASSUME TypeOK, NEW i \in Instances, Export(i)
  PROVE  /\ service'.gen = service.gen /\ service'.up = service.up
         /\ service'.names = service.names
         /\ service'.managed = service.managed \cup {i}
<1>1. service \in ServiceTypes
  BY Typed
<1>2. service' = [service EXCEPT !.managed = @ \cup {i}]
  BY DEF Export
<1> QED
  BY <1>1, <1>2 DEF ServiceTypes

(* What one that is taken back does to the service.                        *)
LEMMA ServiceOfUnexport ==
  ASSUME TypeOK, NEW i \in Instances, Unexport(i)
  PROVE  /\ service'.gen = service.gen /\ service'.up = service.up
         /\ service'.names = service.names
         /\ service'.managed = service.managed \ {i}
<1>1. service \in ServiceTypes
  BY Typed
<1>2. service' = [service EXCEPT !.managed = @ \ {i}]
  BY DEF Unexport
<1> QED
  BY <1>1, <1>2 DEF ServiceTypes

(* What the first listener does to the event.                              *)
LEMMA EventOfAddFirst ==
  ASSUME TypeOK, NEW l \in Listeners, AddFirst(l)
  PROVE  /\ event'.listening = event.listening
         /\ event'.interfaces = event.interfaces /\ event'.heard = event.heard
         /\ event'.pc = "added" /\ event'.caller = l /\ event.listening = {}
         /\ Settled
BY Typed DEF AddFirst, EventTypes, Settled

(* What another listener does to the event.                                *)
LEMMA EventOfAddAnother ==
  ASSUME TypeOK, NEW l \in Listeners, AddAnother(l)
  PROVE  /\ event'.pc = event.pc /\ event'.caller = event.caller
         /\ event'.installed = event.installed
         /\ event'.interfaces = event.interfaces
         /\ event'.listening = event.listening \cup {l} /\ event'.heard[l] = {}
         /\ \A k \in Listeners \ {l} : event'.heard[k] = event.heard[k]
         /\ event.listening # {} /\ Settled
BY Typed DEF AddAnother, EventTypes, Settled

(* What a listener that leaves does to the event.                          *)
LEMMA EventOfLeave ==
  ASSUME TypeOK, NEW l \in Listeners, Leave(l)
  PROVE  /\ event'.pc = event.pc /\ event'.caller = event.caller
         /\ event'.interfaces = event.interfaces
         /\ event'.listening = event.listening \ {l}
         /\ \A k \in Listeners \ {l} : event'.heard[k] = event.heard[k]
         /\ Settled
BY Typed DEF Leave, EventTypes, Settled

(* What its second handler does to the event.                              *)
LEMMA EventOfInstallRemoved ==
  ASSUME TypeOK, InstallRemoved
  PROVE  /\ event'.caller = event.caller /\ event'.listening = event.listening
         /\ event'.interfaces = event.interfaces /\ event'.heard = event.heard
         /\ event'.pc = "removed" /\ ~Settled
BY Typed DEF InstallRemoved, EventTypes, Settled

(* What its question does to the event.                                    *)
LEMMA EventOfAskForInstances ==
  ASSUME TypeOK, event.caller \in Listeners, AskForInstances
  PROVE  /\ event'.installed = event.installed
         /\ event'.interfaces = event.interfaces /\ event'.pc = "idle"
         /\ event'.listening = event.listening \cup {event.caller}
         /\ event'.heard[event.caller] = {}
         /\ \A k \in Listeners \ {event.caller} : event'.heard[k] = event.heard[k]
         /\ ~Settled
BY Typed DEF AskForInstances, EventTypes, Settled

-----------------------------------------------------------------------------
(* The table of the event.                                                 *)

(* A signal changes the table, and what listeners have heard, but nothing  *)
(* else of the event.                                                      *)
LEMMA SecondFrame ==
  ASSUME TypeOK, Addressed, DispatchSignalSecond
  PROVE  EventFrame
BY SignalSecond, EventHears

(* Nor does a list.                                                        *)
LEMMA ListFrame ==
  ASSUME TypeOK, Addressed, DispatchList
  PROVE  EventFrame
BY ListDispatched, TableGrows

(* A question for the list is not lost.                                    *)
ListKept ==
  (\E k \in DOMAIN requests : requests[k].kind = "list")
    => \E k \in DOMAIN requests' : requests'[k].kind = "list"

(* It is kept while others are sent,                                       *)
LEMMA ListKeptGrowing ==
  ASSUME NEW N, NEW M, Grows(requests, requests', N, M)
  PROVE  ListKept
BY DEF ListKept, Grows

(* and while others are answered.                                          *)
LEMMA ListKeptShrinking ==
  ASSUME TypeOK, Shrinks(requests, requests'), Head(requests).kind # "list"
  PROVE  ListKept
<1> SUFFICES ASSUME NEW k \in DOMAIN requests, requests[k].kind = "list"
             PROVE  \E j \in DOMAIN requests' : requests'[j].kind = "list"
  BY DEF ListKept
<1>1. k \in Nat \ {0} /\ k # 1
  BY Typed DEF Shrinks
<1> QED
  BY <1>1 DEF Shrinks

(* Nothing that is sent takes an instance away that the manager has.       *)
LEMMA MissingSent ==
  ASSUME NoneMissing, NEW N, NEW M, Sends(N, M), UNCHANGED event, ListKept,
         history'.failed = history.failed, service'.managed \subseteq service.managed,
         \A m \in N, i \in service'.managed : ~Takes(m, i)
  PROVE  NoneMissing'
<1> SUFFICES ASSUME Settled, event.listening # {}, ~history.failed, NEW i \in service'.managed
             PROVE  \/ i \in event.interfaces /\ \A k \in DOMAIN inbox' : ~Takes(inbox'[k], i)
                    \/ \E k \in DOMAIN inbox' :
                         /\ Brings(inbox'[k], i)
                         /\ \A j \in DOMAIN inbox' : j > k => ~Takes(inbox'[j], i)
                    \/ \E k \in DOMAIN requests' : requests'[k].kind = "list"
  BY DEF NoneMissing, Settled
<1>1. \A k \in DOMAIN inbox' \ DOMAIN inbox : ~Takes(inbox'[k], i)
  BY DEF Sends, Grows
<1>2. \A k \in DOMAIN inbox : k \in DOMAIN inbox' /\ inbox'[k] = inbox[k]
  BY DEF Sends, Grows
<1>3. CASE i \in event.interfaces /\ \A k \in DOMAIN inbox : ~Takes(inbox[k], i)
  BY <1>1, <1>2, <1>3
<1>4. CASE \E k \in DOMAIN inbox :
             Brings(inbox[k], i) /\ \A j \in DOMAIN inbox : j > k => ~Takes(inbox[j], i)
  BY <1>1, <1>2, <1>4
<1>5. CASE \E k \in DOMAIN requests : requests[k].kind = "list"
  BY <1>5 DEF ListKept
<1> QED
  BY <1>3, <1>4, <1>5 DEF NoneMissing

(* What the head of the inbox says is done.                                *)
LEMMA MissingTaken ==
  ASSUME TypeOK, NoneMissing, Takes1, ListKept, history'.failed = history.failed,
         service'.managed = service.managed,
         event'.pc = event.pc, event'.listening = event.listening,
         Settled /\ event.listening # {} => \A i \in Instances :
           Brings(Head(inbox), i) \/ (i \in event.interfaces /\ ~Takes(Head(inbox), i))
             => i \in event'.interfaces
  PROVE  NoneMissing'
<1> SUFFICES ASSUME Settled, event.listening # {}, ~history.failed, NEW i \in service.managed
             PROVE  \/ i \in event'.interfaces /\ \A k \in DOMAIN inbox' : ~Takes(inbox'[k], i)
                    \/ \E k \in DOMAIN inbox' :
                         /\ Brings(inbox'[k], i)
                         /\ \A j \in DOMAIN inbox' : j > k => ~Takes(inbox'[j], i)
                    \/ \E k \in DOMAIN requests' : requests'[k].kind = "list"
  BY DEF NoneMissing, Settled
<1>1. i \in Instances /\ DOMAIN inbox \subseteq Nat \ {0} /\ DOMAIN inbox' \subseteq Nat \ {0}
  BY Typed DEF ServiceTypes, Takes1
<1>2. /\ 1 \in DOMAIN inbox /\ inbox[1] = Head(inbox)
      /\ \A k \in DOMAIN inbox' : k + 1 \in DOMAIN inbox /\ inbox'[k] = inbox[k + 1]
      /\ \A k \in DOMAIN inbox : k > 1 => k - 1 \in DOMAIN inbox' /\ inbox'[k - 1] = inbox[k]
  BY DEF Takes1, Shrinks
<1>3. CASE i \in event.interfaces /\ \A k \in DOMAIN inbox : ~Takes(inbox[k], i)
  BY <1>1, <1>2, <1>3
<1>4. ASSUME NEW k \in DOMAIN inbox, Brings(inbox[k], i),
             \A j \in DOMAIN inbox : j > k => ~Takes(inbox[j], i)
      PROVE  \/ i \in event'.interfaces /\ \A j \in DOMAIN inbox' : ~Takes(inbox'[j], i)
             \/ \E m \in DOMAIN inbox' :
                  /\ Brings(inbox'[m], i)
                  /\ \A j \in DOMAIN inbox' : j > m => ~Takes(inbox'[j], i)
  <2>1. CASE k = 1
    <3>1. i \in event'.interfaces
      BY <1>1, <1>2, <1>4, <2>1
    <3>2. \A j \in DOMAIN inbox' : j + 1 > 1
      BY <1>1
    <3> QED
      BY <1>2, <1>4, <2>1, <3>1, <3>2
  <2>2. CASE k # 1
    <3>1. k - 1 \in DOMAIN inbox' /\ inbox'[k - 1] = inbox[k]
      BY <1>1, <1>2, <2>2
    <3>2. \A j \in DOMAIN inbox' : j > k - 1 => j + 1 > k
      BY <1>1
    <3> QED
      BY <1>2, <1>4, <3>1, <3>2
  <2> QED
    BY <2>1, <2>2
<1>5. CASE \E k \in DOMAIN requests : requests[k].kind = "list"
  BY <1>5 DEF ListKept
<1> QED
  BY <1>3, <1>4, <1>5 DEF NoneMissing

(* Nothing is missing.                                                     *)
LEMMA NoneMissingStays ==
  ASSUME TypeOK, Addressed, Handlers, NoneMissing, [Next]_vars
  PROVE  NoneMissing'
<1>1. ASSUME UNCHANGED <<inbox, requests, event.pc, event.listening, event.interfaces,
                         service.managed, history.failed>>
      PROVE  NoneMissing'
  BY <1>1 DEF NoneMissing, Settled
<1>2. CASE UNCHANGED vars
  BY <1>1, <1>2 DEF vars, bus
<1>3. CASE DispatchSignalFirst
  BY <1>1, <1>3 DEF DispatchSignalFirst, Told, bus
<1>4. ASSUME NEW q \in Queries, Read(q) PROVE NoneMissing'
  BY <1>1, <1>4 DEF Read, bus
<1>5. ASSUME NEW q \in Queries, NEW i \in Instances, LookUnknown(q, i) PROVE NoneMissing'
  BY <1>1, <1>5 DEF LookUnknown, bus
<1>6. ASSUME NEW q \in Queries, NEW i \in Instances, LookTwice(q, i) PROVE NoneMissing'
  BY <1>1, <1>6 DEF LookTwice, Continue, bus
<1>7. ASSUME NEW q \in Queries, NEW i \in Instances, LookResolved(q, i) PROVE NoneMissing'
  BY <1>1, <1>7 DEF LookResolved, Continue, bus
<1>8. CASE Start
  <2>1. service'.managed = {}
    BY <1>8, ServiceOfStart
  <2> QED
    BY <2>1 DEF NoneMissing
<1>9. CASE Die
  <2>1. service'.managed = {}
    BY <1>9, ServiceOfDie
  <2> QED
    BY <2>1 DEF NoneMissing
<1>10. ASSUME NEW i \in Instances, Acquire(i) PROVE NoneMissing'
  <2> DEFINE m == About("owned", service.gen, i)
  <2>1. UNCHANGED <<event, requests>> /\ Sends({m}, {m})
    BY <1>10, AcquireSends DEF Acquire
  <2>2. ListKept
    BY <2>1 DEF ListKept
  <2>3. service'.managed = service.managed /\ history'.failed = history.failed
    BY <1>10, ServiceOfAcquire, HistoryOfAcquire
  <2>4. \A o \in {m}, j \in service'.managed : ~Takes(o, j)
    BY DEF Takes, About
  <2> HIDE DEF m
  <2> QED
    BY <2>1, <2>2, <2>3, <2>4, MissingSent
<1>11. ASSUME NEW i \in Instances, Release(i) PROVE NoneMissing'
  <2> DEFINE m == About("lost", service.gen, i)
  <2>1. UNCHANGED <<event, requests>> /\ Sends({m}, {m})
    BY <1>11, ReleaseSends DEF Release
  <2>2. ListKept
    BY <2>1 DEF ListKept
  <2>3. service'.managed = service.managed /\ history'.failed = history.failed
    BY <1>11, ServiceOfRelease, HistoryOfRelease
  <2>4. \A o \in {m}, j \in service'.managed : ~Takes(o, j)
    BY DEF Takes, About
  <2> HIDE DEF m
  <2> QED
    BY <2>1, <2>2, <2>3, <2>4, MissingSent
<1>12. ASSUME NEW i \in Instances, Export(i) PROVE NoneMissing'
  <2> DEFINE m == About("added", service.gen, i)
  <2>1. UNCHANGED <<event, requests>> /\ Signal("added", i) /\ "added" \in SignalKinds
    BY <1>12 DEF Export, SignalKinds
  <2>2. Sends({m}, IF Signalled("added") THEN {m} ELSE {})
    BY <2>1, SignalSends
  <2>3. history'.failed = history.failed /\ service'.managed = service.managed \cup {i}
    BY <1>12, HistoryOfExport, ServiceOfExport
  <2>4. Brings(m, i) /\ \A j \in Instances : ~Takes(m, j)
    BY DEF Brings, Takes, About
  <2> SUFFICES ASSUME Settled, event.listening # {}, ~history.failed, NEW j \in service'.managed
               PROVE  \/ j \in event.interfaces /\ \A k \in DOMAIN inbox' : ~Takes(inbox'[k], j)
                      \/ \E k \in DOMAIN inbox' :
                           /\ Brings(inbox'[k], j)
                           /\ \A o \in DOMAIN inbox' : o > k => ~Takes(inbox'[o], j)
                      \/ \E k \in DOMAIN requests' : requests'[k].kind = "list"
    BY <2>1, <2>3 DEF NoneMissing, Settled
  <2>5. j \in Instances /\ service.managed \subseteq Instances
    BY <2>3, Typed DEF ServiceTypes
  <2>6. \A k \in DOMAIN inbox' \ DOMAIN inbox : inbox'[k] = m /\ ~Takes(inbox'[k], j)
    BY <2>2, <2>4, <2>5 DEF Sends, Grows
  <2>7. /\ \A k \in DOMAIN inbox : k \in DOMAIN inbox' /\ inbox'[k] = inbox[k]
        /\ \A k \in DOMAIN inbox' \ DOMAIN inbox : \A o \in DOMAIN inbox : o < k
    BY <2>2 DEF Sends, Grows
  <2>8. CASE j = i
    <3>1. Signalled("added")
      BY DEF Handlers, Signalled, SignalKinds
    <3>2. PICK k \in DOMAIN inbox' \ DOMAIN inbox : inbox'[k] = m
      BY <2>2, <3>1 DEF Sends, Grows
    <3>3. \A o \in DOMAIN inbox' : o > k => o \notin DOMAIN inbox
      <4>1. DOMAIN inbox' \subseteq Nat
        BY <2>2 DEF Sends
      <4> QED
        BY <2>7, <3>2, <4>1
    <3> QED
      BY <2>4, <2>6, <2>8, <3>2, <3>3
  <2>9. CASE j # i
    <3>1. j \in service.managed
      BY <2>3, <2>9
    <3>2. CASE j \in event.interfaces /\ \A k \in DOMAIN inbox : ~Takes(inbox[k], j)
      BY <2>6, <2>7, <3>2
    <3>3. CASE \E k \in DOMAIN inbox :
             Brings(inbox[k], j) /\ \A o \in DOMAIN inbox : o > k => ~Takes(inbox[o], j)
      BY <2>6, <2>7, <3>3
    <3>4. CASE \E k \in DOMAIN requests : requests[k].kind = "list"
      BY <2>1, <3>4
    <3> QED
      BY <3>1, <3>2, <3>3, <3>4 DEF NoneMissing
  <2> QED
    BY <2>8, <2>9
<1>13. ASSUME NEW i \in Instances, Unexport(i) PROVE NoneMissing'
  <2> DEFINE m == About("removed", service.gen, i)
  <2>1. UNCHANGED <<event, requests>> /\ Signal("removed", i) /\ "removed" \in SignalKinds
    BY <1>13 DEF Unexport, SignalKinds
  <2>2. \E M : Sends({m}, M)
    BY <2>1, SignalSends
  <2>3. history'.failed = history.failed /\ service'.managed = service.managed \ {i}
    BY <1>13, HistoryOfUnexport, ServiceOfUnexport
  <2>4. \A j \in service'.managed : ~Takes(m, j)
    BY <2>3 DEF Takes, About
  <2>5. ListKept
    BY <2>1 DEF ListKept
  <2> QED
    BY <2>1, <2>2, <2>3, <2>4, <2>5, MissingSent
<1>14. CASE AnswerNext
  <2> DEFINE r == Head(requests)
  <2>1. r \in Request /\ Shrinks(requests, requests')
    BY <1>14, AnswerSends
  <2>2. r.kind \in {"owner", "path", "list"} /\ service.managed \subseteq Instances
    BY <2>1, Typed DEF Request, ServiceTypes
  <2>3. UNCHANGED <<event, history, service>>
    BY <1>14 DEF AnswerNext
  <2>4. CASE r.kind # "list"
    <3>1. ListKept
      BY <2>1, <2>4, ListKeptShrinking
    <3>2. \A i \in Instances : /\ ~Takes(About("owned", service.gen, r.name), i)
                             /\ ~Takes(Answer("path", r.gen, r.name, Truth(r)), i)
      BY DEF Takes, About, Answer
    <3>3. \E N, M : Sends(N, M) /\ \A m \in N, i \in Instances : ~Takes(m, i)
      BY <1>14, <2>2, <2>4, <3>2, AnswerSends
    <3> QED
      BY <2>2, <2>3, <3>1, <3>3, MissingSent
  <2>5. CASE r.kind = "list"
    <3> DEFINE m == Answer("list", 0, Manager, service.managed)
    <3>1. Sends({m}, {m})
      BY <1>14, <2>5, AnswerSends
    <3>2. \A i \in service.managed : Brings(m, i) /\ ~Takes(m, i)
      BY DEF Brings, Takes, Answer
    <3>3. PICK k \in DOMAIN inbox' \ DOMAIN inbox : inbox'[k] = m
      BY <3>1 DEF Sends, Grows
    <3>4. \A j \in DOMAIN inbox' : j > k => inbox'[j] = m
      <4>1. DOMAIN inbox' \subseteq Nat
        BY <3>1 DEF Sends
      <4> QED
        BY <3>1, <3>3, <4>1 DEF Sends, Grows
    <3> QED
      BY <2>3, <3>2, <3>3, <3>4 DEF NoneMissing
  <2> QED
    BY <2>4, <2>5
<1>15. CASE GiveUp
  <2>1. history'.failed
    BY <1>15, HistoryOfGiveUp
  <2> QED
    BY <2>1 DEF NoneMissing
<1>16. CASE DispatchToRegistry
  <2>1. PICK n \in Names :
          /\ Head(inbox).names = {n}
          /\ \/ Head(inbox).kind = "owned" /\ OnNameOwned(Head(inbox).gen, n)
             \/ Head(inbox).kind = "lost" /\ OnNameLost(Head(inbox).gen, n)
             \/ Head(inbox).kind = "path" /\ n \in Instances /\ Head(inbox).found \in SUBSET Instances
                  /\ OnPathAnswered(Head(inbox).gen, n, Head(inbox).found)
    BY <1>16, DispatchedToRegistry
  <2>2. Head(inbox).gen \in Generations
    BY <1>16, DispatchedToRegistry
  <2>3. Takes1 /\ UNCHANGED <<service, event>>
    BY <1>16, DispatchedToRegistry
  <2>4. history'.failed = history.failed
    BY <1>16, HistoryOfDispatchToRegistry
  <2>5. \A i \in Instances : ~Brings(Head(inbox), i)
    BY <2>1 DEF Brings
  <2>6. \E N, M : Grows(requests, requests', N, M)
    <3>1. CASE UNCHANGED requests
      BY <3>1, Unchanged
    <3>2. CASE OnNameOwned(Head(inbox).gen, n)
      BY <2>2, <3>1, <3>2, NameOwned DEF Begins
    <3> QED
      BY <2>1, <2>2, <3>1, <3>2, NameLost, PathAnswered
  <2>7. ListKept
    BY <2>6, ListKeptGrowing
  <2> QED
    BY <2>3, <2>4, <2>5, <2>7, MissingTaken
<1>17. CASE DispatchSignalSecond
  <2>1. PICK i \in Instances : Head(inbox).names = {i} /\ EventTold(Head(inbox).kind, i)
    BY <1>17, SignalSecond
  <2>2. Takes1 /\ UNCHANGED <<service, requests>> /\ Head(inbox).kind \in SignalKinds
    BY <1>17, SignalSecond
  <2>3. history'.failed = history.failed /\ EventFrame
    BY <1>17, HistoryOfDispatchSignalSecond, SecondFrame
  <2>4. ListKept
    BY <2>2 DEF ListKept
  <2>5. ASSUME Settled, event.listening # {}, NEW j \in Instances,
               Brings(Head(inbox), j) \/ (j \in event.interfaces /\ ~Takes(Head(inbox), j))
        PROVE  j \in event'.interfaces
    <3>1. event.installed = SignalKinds
      BY <2>5 DEF Handlers
    <3>2. CASE Head(inbox).kind = "added"
      <4>1. event'.interfaces = event.interfaces \cup {i}
        BY <2>1, <2>2, <3>1, <3>2, EventHears, TableGrows
      <4> QED
        BY <2>1, <2>5, <3>2, <4>1 DEF Brings
    <3>3. CASE Head(inbox).kind = "removed"
      <4>1. event'.interfaces = event.interfaces \ {i}
        BY <2>1, <2>2, <3>1, <3>3, EventHears, TableShrinks
      <4> QED
        BY <2>1, <2>5, <3>3, <4>1 DEF Brings, Takes
    <3> QED
      BY <2>2, <3>2, <3>3 DEF SignalKinds
  <2> QED
    BY <2>2, <2>3, <2>4, <2>5, MissingTaken DEF EventFrame
<1>18. CASE DispatchList
  <2> DEFINE m == Head(inbox)
  <2>1. /\ Takes1 /\ UNCHANGED <<service, requests, history>> /\ m.kind = "list"
        /\ m.found \in SUBSET Instances /\ Added(m.found)
    BY <1>18, ListDispatched
  <2>2. EventFrame /\ event'.interfaces = event.interfaces \cup m.found
    BY <2>1, TableGrows
  <2>3. ListKept
    BY <2>1 DEF ListKept
  <2>4. \A i \in Instances :
          Brings(m, i) \/ (i \in event.interfaces /\ ~Takes(m, i)) => i \in event'.interfaces
    BY <2>1, <2>2 DEF Brings
  <2> QED
    BY <2>1, <2>2, <2>3, <2>4, MissingTaken DEF EventFrame
<1>19. ASSUME NEW l \in Listeners, AddFirst(l) PROVE NoneMissing'
  BY <1>19, EventOfAddFirst DEF NoneMissing, Settled
<1>20. ASSUME NEW l \in Listeners, AddAnother(l) PROVE NoneMissing'
  <2>1. UNCHANGED <<service, inbox, requests>>
    BY <1>20 DEF AddAnother, bus
  <2> QED
    BY <1>20, <2>1, EventOfAddAnother, HistoryOfAddAnother DEF NoneMissing, Settled
<1>21. ASSUME NEW l \in Listeners, Leave(l) PROVE NoneMissing'
  <2>1. UNCHANGED <<service, inbox, requests>>
    BY <1>21 DEF Leave, bus
  <2> QED
    BY <1>21, <2>1, EventOfLeave, HistoryOfLeave DEF NoneMissing, Settled
<1>22. CASE InstallRemoved
  BY <1>22, EventOfInstallRemoved DEF NoneMissing, Settled
<1>23. CASE AskForInstances
  <2>1. Grows(requests, requests', {ListRequest}, {ListRequest})
    <3>1. ListRequest \in Request
      BY DEF ListRequest, Request
    <3> QED
      BY <1>23, <3>1, Typed, Appending DEF AskForInstances
  <2>2. PICK k \in DOMAIN requests' : requests'[k].kind = "list"
    BY <2>1 DEF Grows, ListRequest
  <2> QED
    BY <2>2 DEF NoneMissing
<1>24. ASSUME NEW q \in Queries, NEW i \in Instances, LookAbsent(q, i) PROVE NoneMissing'
  <2>1. \E N, M : Grows(requests, requests', N, M)
    BY <1>24, AbsentLooked DEF Begins
  <2>2. ListKept /\ Sends({}, {})
    BY <1>24, <2>1, ListKeptGrowing, SendsNothing DEF LookAbsent
  <2> QED
    BY <1>24, <2>2, MissingSent DEF LookAbsent
<1>25. ASSUME NEW q \in Queries, NEW i \in Instances, LookUnresolved(q, i) PROVE NoneMissing'
  <2>1. \E N, M : Grows(requests, requests', N, M)
    BY <1>25, UnresolvedLooked
  <2>2. ListKept /\ Sends({}, {})
    BY <1>25, <2>1, ListKeptGrowing, SendsNothing DEF LookUnresolved
  <2> QED
    BY <1>25, <2>2, HistoryOfLookUnresolved, MissingSent DEF LookUnresolved
<1> QED
  BY StepOfNext, <1>2, <1>3, <1>4, <1>5, <1>6, <1>7, <1>8, <1>9, <1>10, <1>11,
    <1>12, <1>13, <1>14, <1>15, <1>16, <1>17, <1>18, <1>19, <1>20, <1>21,
    <1>22, <1>23, <1>24, <1>25 DEF Step

(* What the manager has, or nobody said that it is gone.                   *)
Excused == service.managed \cup history.unseen

(* Nothing that is sent brings an instance that the manager does not have. *)
LEMMA TooManySent ==
  ASSUME TypeOK, NoneTooMany, NEW N, NEW M, Sends(N, M), event'.interfaces = event.interfaces,
         \A i \in Instances : i \in Excused => i \in Excused' \/ \E m \in M : Takes(m, i),
         \A m \in N, i \in Instances : Brings(m, i) => i \in Excused'
  PROVE  NoneTooMany'
<1>1. /\ \A k \in DOMAIN inbox : k \in DOMAIN inbox' /\ inbox'[k] = inbox[k]
      /\ \A k \in DOMAIN inbox' \ DOMAIN inbox : inbox'[k] \in N /\ \A j \in DOMAIN inbox : j < k
      /\ \A m \in M : \E k \in DOMAIN inbox' \ DOMAIN inbox : inbox'[k] = m
  BY DEF Sends, Grows
<1>2. event.interfaces \subseteq Instances
  BY Typed DEF EventTypes
<1>3. ASSUME NEW i \in event.interfaces
      PROVE  i \in Excused' \/ \E j \in DOMAIN inbox' : Takes(inbox'[j], i)
  <2>1. CASE i \in Excused
    BY <1>1, <1>2, <1>3, <2>1
  <2>2. CASE \E j \in DOMAIN inbox : Takes(inbox[j], i)
    BY <1>1, <2>2
  <2> QED
    BY <2>1, <2>2 DEF NoneTooMany, Excused
<1>4. ASSUME NEW i \in Instances, NEW k \in DOMAIN inbox', Brings(inbox'[k], i)
      PROVE  i \in Excused' \/ \E j \in DOMAIN inbox' : j > k /\ Takes(inbox'[j], i)
  <2>1. CASE k \notin DOMAIN inbox
    BY <1>1, <1>4, <2>1
  <2>2. CASE k \in DOMAIN inbox
    <3>1. CASE i \in Excused
      <4>1. CASE \E m \in M : Takes(m, i)
        <5>1. PICK j \in DOMAIN inbox' \ DOMAIN inbox : Takes(inbox'[j], i)
          BY <1>1, <4>1
        <5>2. j \in Nat /\ k \in Nat /\ k < j
          BY <1>1, <2>2, <5>1, Typed DEF Sends
        <5> QED
          BY <5>1, <5>2
      <4> QED
        BY <3>1, <4>1
    <3>2. CASE \E j \in DOMAIN inbox : j > k /\ Takes(inbox[j], i)
      BY <1>1, <3>2
    <3> QED
      BY <1>1, <1>4, <2>2, <3>1, <3>2 DEF NoneTooMany, Excused
  <2> QED
    BY <2>1, <2>2
<1> QED
  BY <1>3, <1>4 DEF NoneTooMany, Excused

(* What the head of the inbox brings or takes, it has brought or taken.    *)
LEMMA TooManyTaken ==
  ASSUME TypeOK, NoneTooMany, Takes1, service'.managed = service.managed,
         history.unseen \subseteq history'.unseen,
         \A i \in event'.interfaces : i \in event.interfaces \/ Brings(Head(inbox), i),
         \A i \in event'.interfaces : Takes(Head(inbox), i) => i \in history'.unseen,
         event'.interfaces \subseteq Instances
  PROVE  NoneTooMany'
<1>1. DOMAIN inbox \subseteq Nat \ {0} /\ DOMAIN inbox' \subseteq Nat \ {0}
  BY Typed DEF Takes1
<1>2. /\ 1 \in DOMAIN inbox /\ inbox[1] = Head(inbox)
      /\ \A k \in DOMAIN inbox' : k + 1 \in DOMAIN inbox /\ inbox'[k] = inbox[k + 1]
      /\ \A k \in DOMAIN inbox : k > 1 => k - 1 \in DOMAIN inbox' /\ inbox'[k - 1] = inbox[k]
  BY DEF Takes1, Shrinks
<1>3. Excused \subseteq Excused'
  BY DEF Excused
<1>4. ASSUME NEW i \in event'.interfaces
      PROVE  i \in Excused' \/ \E j \in DOMAIN inbox' : Takes(inbox'[j], i)
  <2>1. CASE i \in Excused
    BY <1>3, <2>1
  <2>2. ASSUME NEW j \in DOMAIN inbox, Takes(inbox[j], i)
        PROVE  i \in Excused' \/ \E k \in DOMAIN inbox' : Takes(inbox'[k], i)
    <3>1. CASE j = 1
      BY <1>2, <1>4, <2>2, <3>1 DEF Excused
    <3>2. CASE j # 1
      BY <1>1, <1>2, <2>2, <3>2
    <3> QED
      BY <3>1, <3>2
  <2>3. CASE i \in event.interfaces
    BY <2>1, <2>2, <2>3 DEF NoneTooMany, Excused
  <2>4. CASE Brings(Head(inbox), i)
    BY <1>2, <1>4, <2>1, <2>2, <2>4 DEF NoneTooMany, Excused
  <2> QED
    BY <1>4, <2>3, <2>4
<1>5. ASSUME NEW i \in Instances, NEW k \in DOMAIN inbox', Brings(inbox'[k], i)
      PROVE  i \in Excused' \/ \E j \in DOMAIN inbox' : j > k /\ Takes(inbox'[j], i)
  <2>1. k + 1 \in DOMAIN inbox /\ Brings(inbox[k + 1], i)
    BY <1>2, <1>5
  <2>2. CASE i \in Excused
    BY <1>3, <2>2
  <2>3. ASSUME NEW j \in DOMAIN inbox, j > k + 1, Takes(inbox[j], i)
        PROVE  \E o \in DOMAIN inbox' : o > k /\ Takes(inbox'[o], i)
    <3>1. j - 1 \in DOMAIN inbox' /\ inbox'[j - 1] = inbox[j] /\ j - 1 > k
      BY <1>1, <1>2, <2>3
    <3> QED
      BY <2>3, <3>1
  <2> QED
    BY <1>5, <2>1, <2>2, <2>3 DEF NoneTooMany, Excused
<1> QED
  BY <1>4, <1>5 DEF NoneTooMany, Excused

(* Nothing is there too many.                                              *)
LEMMA NoneTooManyStays ==
  ASSUME TypeOK, Addressed, Down, NoneTooMany, [Next]_vars
  PROVE  NoneTooMany'
<1>1. ASSUME UNCHANGED <<inbox, event.interfaces, service.managed, history.unseen>>
      PROVE  NoneTooMany'
  BY <1>1 DEF NoneTooMany
<1>2. CASE UNCHANGED vars
  BY <1>1, <1>2 DEF vars, bus
<1>3. CASE DispatchSignalFirst
  BY <1>1, <1>3 DEF DispatchSignalFirst, Told, bus
<1>4. ASSUME NEW l \in Listeners, AddFirst(l) PROVE NoneTooMany'
  BY <1>1, <1>4, EventOfAddFirst, HistoryOfAddFirst DEF AddFirst, bus
<1>5. ASSUME NEW l \in Listeners, AddAnother(l) PROVE NoneTooMany'
  BY <1>1, <1>5, EventOfAddAnother, HistoryOfAddAnother DEF AddAnother, bus
<1>6. ASSUME NEW l \in Listeners, Leave(l) PROVE NoneTooMany'
  BY <1>1, <1>6, EventOfLeave, HistoryOfLeave DEF Leave, bus
<1>7. CASE InstallRemoved
  BY <1>1, <1>7, EventOfInstallRemoved DEF InstallRemoved, bus
<1>8. CASE AskForInstances
  BY <1>1, <1>8, EventOfAskForInstances DEF AskForInstances, bus
<1>9. ASSUME NEW q \in Queries, Read(q) PROVE NoneTooMany'
  BY <1>1, <1>9 DEF Read, bus
<1>10. ASSUME NEW q \in Queries, NEW i \in Instances, LookUnknown(q, i) PROVE NoneTooMany'
  BY <1>1, <1>10 DEF LookUnknown, bus
<1>11. ASSUME NEW q \in Queries, NEW i \in Instances, LookAbsent(q, i) PROVE NoneTooMany'
  BY <1>1, <1>11 DEF LookAbsent, Continue, bus
<1>12. ASSUME NEW q \in Queries, NEW i \in Instances, LookUnresolved(q, i) PROVE NoneTooMany'
  BY <1>1, <1>12, HistoryOfLookUnresolved DEF LookUnresolved, Continue, bus
<1>13. ASSUME NEW q \in Queries, NEW i \in Instances, LookTwice(q, i) PROVE NoneTooMany'
  BY <1>1, <1>13 DEF LookTwice, Continue, bus
<1>14. ASSUME NEW q \in Queries, NEW i \in Instances, LookResolved(q, i) PROVE NoneTooMany'
  BY <1>1, <1>14 DEF LookResolved, Continue, bus
<1>15. CASE Start
  <2> DEFINE N == {About("owned", service.gen + 1, n) : n \in service'.names}
  <2>1. UNCHANGED event /\ Sends(N, {})
    BY <1>15, StartSends DEF Start
  <2>2. service.managed = {} /\ service'.managed = {} /\ history'.unseen = history.unseen
    BY <1>15, ServiceOfStart, HistoryOfStart DEF Down
  <2>3. \A o \in N, j \in Instances : ~Brings(o, j)
    BY DEF Brings, About
  <2> HIDE DEF N
  <2> QED
    BY <2>1, <2>2, <2>3, TooManySent DEF Excused
<1>16. CASE Die
  <2> DEFINE N == {About("lost", service.gen, n) : n \in service.names}
  <2>1. UNCHANGED event /\ Sends(N, N)
    BY <1>16, DieSends DEF Die
  <2>2. Excused' = Excused
    BY <1>16, ServiceOfDie, HistoryOfDie DEF Excused
  <2>3. \A o \in N, j \in Instances : ~Brings(o, j)
    BY DEF Brings, About
  <2> HIDE DEF N
  <2> QED
    BY <2>1, <2>2, <2>3, TooManySent
<1>17. ASSUME NEW i \in Instances, Acquire(i) PROVE NoneTooMany'
  <2> DEFINE m == About("owned", service.gen, i)
  <2>1. UNCHANGED event /\ Sends({m}, {m})
    BY <1>17, AcquireSends DEF Acquire
  <2>2. Excused' = Excused
    BY <1>17, ServiceOfAcquire, HistoryOfAcquire DEF Excused
  <2>3. \A o \in {m}, j \in Instances : ~Brings(o, j)
    BY DEF Brings, About
  <2> HIDE DEF m
  <2> QED
    BY <2>1, <2>2, <2>3, TooManySent
<1>18. ASSUME NEW i \in Instances, Release(i) PROVE NoneTooMany'
  <2> DEFINE m == About("lost", service.gen, i)
  <2>1. UNCHANGED event /\ Sends({m}, {m})
    BY <1>18, ReleaseSends DEF Release
  <2>2. Excused' = Excused
    BY <1>18, ServiceOfRelease, HistoryOfRelease DEF Excused
  <2>3. \A o \in {m}, j \in Instances : ~Brings(o, j)
    BY DEF Brings, About
  <2> HIDE DEF m
  <2> QED
    BY <2>1, <2>2, <2>3, TooManySent
<1>19. ASSUME NEW i \in Instances, Export(i) PROVE NoneTooMany'
  <2> DEFINE m == About("added", service.gen, i)
  <2>1. UNCHANGED event /\ Signal("added", i) /\ "added" \in SignalKinds
    BY <1>19 DEF Export, SignalKinds
  <2>2. \E M : Sends({m}, M)
    BY <2>1, SignalSends
  <2>3. Excused' = Excused \cup {i}
    BY <1>19, ServiceOfExport, HistoryOfExport DEF Excused
  <2>4. \A o \in {m}, j \in Instances : Brings(o, j) => j = i
    BY DEF Brings, About
  <2> HIDE DEF m
  <2> QED
    BY <2>1, <2>2, <2>3, <2>4, TooManySent
<1>20. ASSUME NEW i \in Instances, Unexport(i) PROVE NoneTooMany'
  <2> DEFINE m == About("removed", service.gen, i)
  <2>1. UNCHANGED event /\ Signal("removed", i) /\ "removed" \in SignalKinds
    BY <1>20 DEF Unexport, SignalKinds
  <2>2. Sends({m}, IF Signalled("removed") THEN {m} ELSE {})
    BY <2>1, SignalSends
  <2>3. /\ service'.managed = service.managed \ {i} /\ history.unseen \subseteq history'.unseen
        /\ "removed" \notin event.installed => i \in history'.unseen
    BY <1>20, ServiceOfUnexport, HistoryOfUnexport
  <2>4. Takes(m, i) /\ \A o \in {m}, j \in Instances : ~Brings(o, j)
    BY DEF Takes, Brings, About
  <2> HIDE DEF m
  <2>5. CASE "removed" \in event.installed
    <3>1. Sends({m}, {m})
      BY <2>2, <2>5 DEF Signalled
    <3> QED
      BY <2>1, <2>3, <2>4, <3>1, TooManySent DEF Excused
  <2>6. CASE "removed" \notin event.installed
    <3>1. \E M : Sends({m}, M)
      BY <2>2
    <3> QED
      BY <2>1, <2>3, <2>4, <2>6, <3>1, TooManySent DEF Excused
  <2> QED
    BY <2>5, <2>6
<1>21. CASE AnswerNext
  <2> DEFINE r == Head(requests)
  <2>1. r.kind \in {"owner", "path", "list"}
    BY <1>21, AnswerSends DEF Request
  <2>2. UNCHANGED <<event, service, history>>
    BY <1>21 DEF AnswerNext
  <2>4. CASE r.kind = "owner"
    <3> DEFINE m == About("owned", service.gen, r.name)
    <3>1. Sends({m}, {})
      BY <1>21, <2>4, AnswerSends
    <3>2. \A o \in {m}, i \in Instances : ~Brings(o, i)
      BY DEF Brings, About, Answer
    <3> HIDE DEF m
    <3> QED
      BY <2>2, <3>1, <3>2, TooManySent DEF Excused
  <2>5. CASE r.kind = "path"
    <3> DEFINE m == Answer("path", r.gen, r.name, Truth(r))
    <3>1. Sends({m}, {m})
      BY <1>21, <2>5, AnswerSends
    <3>2. \A o \in {m}, i \in Instances : ~Brings(o, i)
      BY DEF Brings, About, Answer
    <3> HIDE DEF m
    <3> QED
      BY <2>2, <3>1, <3>2, TooManySent DEF Excused
  <2>6. CASE r.kind = "list"
    <3> DEFINE m == Answer("list", 0, Manager, service.managed)
    <3>1. Sends({m}, {m})
      BY <1>21, <2>6, AnswerSends
    <3>2. \A o \in {m}, i \in Instances : Brings(o, i) => i \in service.managed
      BY DEF Brings, About, Answer
    <3> HIDE DEF m
    <3> QED
      BY <2>2, <3>1, <3>2, TooManySent DEF Excused
  <2> QED
    BY <2>1, <2>4, <2>5, <2>6
<1>22. CASE GiveUp
  <2> DEFINE m == Answer("list", 0, Manager, {})
  <2>1. UNCHANGED <<event, service>> /\ Sends({m}, {m})
    BY <1>22, GiveUpSends DEF GiveUp
  <2>2. history'.unseen = history.unseen
    BY <1>22, HistoryOfGiveUp
  <2>3. \A o \in {m}, j \in Instances : ~Brings(o, j)
    BY DEF Brings, Answer
  <2> HIDE DEF m
  <2> QED
    BY <2>1, <2>2, <2>3, TooManySent DEF Excused
<1>23. CASE DispatchToRegistry
  <2>1. Takes1 /\ UNCHANGED <<service, event>> /\ Head(inbox).kind \in {"owned", "lost", "path"}
    BY <1>23, DispatchedToRegistry
  <2>2. history'.unseen = history.unseen
    BY <1>23, HistoryOfDispatchToRegistry
  <2>3. \A i \in Instances : ~Takes(Head(inbox), i)
    BY <2>1 DEF Takes
  <2>4. event.interfaces \subseteq Instances
    BY Typed DEF EventTypes
  <2> QED
    BY <2>1, <2>2, <2>3, <2>4, TooManyTaken
<1>24. CASE DispatchSignalSecond
  <2>1. PICK i \in Instances : Head(inbox).names = {i} /\ EventTold(Head(inbox).kind, i)
    BY <1>24, SignalSecond
  <2>2. Takes1 /\ UNCHANGED service /\ Head(inbox).kind \in SignalKinds
    BY <1>24, SignalSecond
  <2>3. history.unseen \subseteq history'.unseen /\ EventFrame
    BY <1>24, HistoryOfDispatchSignalSecond, SecondFrame
  <2>4. event'.interfaces \subseteq Instances
    BY <2>3 DEF EventFrame, EventTypes
  <2>5. CASE Head(inbox).kind \notin event.installed
    <3>1. UNCHANGED event
      BY <2>1, <2>2, <2>5, EventHears
    <3>2. Head(inbox).kind = "removed" => i \in history'.unseen
      BY <2>1, <2>2, <2>5, EventHears
    <3> QED
      BY <2>1, <2>2, <2>3, <2>4, <3>1, <3>2, TooManyTaken DEF Takes
  <2>6. CASE Head(inbox).kind \in event.installed /\ Head(inbox).kind = "added"
    <3>1. event'.interfaces = event.interfaces \cup {i}
      BY <2>1, <2>2, <2>6, EventHears, TableGrows
    <3> QED
      BY <2>1, <2>2, <2>3, <2>4, <2>6, <3>1, TooManyTaken DEF Takes, Brings
  <2>7. CASE Head(inbox).kind \in event.installed /\ Head(inbox).kind = "removed"
    <3>1. event'.interfaces = event.interfaces \ {i}
      BY <2>1, <2>2, <2>7, EventHears, TableShrinks
    <3> QED
      BY <2>1, <2>2, <2>3, <2>4, <2>7, <3>1, TooManyTaken DEF Takes, Brings
  <2> QED
    BY <2>2, <2>5, <2>6, <2>7 DEF SignalKinds
<1>25. CASE DispatchList
  <2> DEFINE m == Head(inbox)
  <2>1. /\ Takes1 /\ UNCHANGED <<service, history>> /\ m.kind = "list"
        /\ m.found \in SUBSET Instances /\ Added(m.found)
    BY <1>25, ListDispatched
  <2>2. EventFrame /\ event'.interfaces = event.interfaces \cup m.found
    BY <2>1, TableGrows
  <2>3. event'.interfaces \subseteq Instances
    BY <2>2 DEF EventFrame, EventTypes
  <2> QED
    BY <2>1, <2>2, <2>3, TooManyTaken DEF Takes, Brings
<1> QED
  BY StepOfNext, <1>2, <1>3, <1>4, <1>5, <1>6, <1>7, <1>8, <1>9, <1>10, <1>11,
    <1>12, <1>13, <1>14, <1>15, <1>16, <1>17, <1>18, <1>19, <1>20, <1>21,
    <1>22, <1>23, <1>24, <1>25 DEF Step

(* Listeners know the table.                                               *)
LEMMA ListenersStayTold ==
  ASSUME TypeOK, Addressed, Handlers, ListenersTold, [Next]_vars
  PROVE  ListenersTold'
<1>1. ASSUME UNCHANGED <<event.pc, event.caller, event.listening, event.interfaces,
                         event.heard, history.since>>
      PROVE  ListenersTold'
  BY <1>1 DEF ListenersTold, Settled
<1>2. CASE UNCHANGED vars
  BY <1>1, <1>2 DEF vars, bus
<1>3. CASE AnswerNext \/ DispatchSignalFirst
  BY <1>1, <1>3 DEF AnswerNext, DispatchSignalFirst, Told, bus
<1>4. CASE Start
  BY <1>1, <1>4, HistoryOfStart DEF Start, bus
<1>5. CASE Die
  BY <1>1, <1>5, HistoryOfDie DEF Die, bus
<1>6. ASSUME NEW i \in Instances, Acquire(i) PROVE ListenersTold'
  BY <1>1, <1>6, HistoryOfAcquire DEF Acquire, bus
<1>7. ASSUME NEW i \in Instances, Release(i) PROVE ListenersTold'
  BY <1>1, <1>7, HistoryOfRelease DEF Release, bus
<1>8. ASSUME NEW i \in Instances, Export(i) PROVE ListenersTold'
  BY <1>1, <1>8, HistoryOfExport DEF Export, bus
<1>9. ASSUME NEW i \in Instances, Unexport(i) PROVE ListenersTold'
  BY <1>1, <1>9, HistoryOfUnexport DEF Unexport, bus
<1>10. CASE GiveUp
  BY <1>1, <1>10, HistoryOfGiveUp DEF GiveUp, bus
<1>11. CASE DispatchToRegistry
  BY <1>1, <1>11, HistoryOfDispatchToRegistry DEF DispatchToRegistry, Receive,
    bus
<1>12. ASSUME NEW q \in Queries, Read(q) PROVE ListenersTold'
  BY <1>1, <1>12 DEF Read, bus
<1>13. ASSUME NEW q \in Queries, NEW i \in Instances, LookUnknown(q, i) PROVE ListenersTold'
  BY <1>1, <1>13 DEF LookUnknown, bus
<1>14. ASSUME NEW q \in Queries, NEW i \in Instances, LookAbsent(q, i) PROVE ListenersTold'
  BY <1>1, <1>14 DEF LookAbsent, Continue, bus
<1>15. ASSUME NEW q \in Queries, NEW i \in Instances, LookUnresolved(q, i) PROVE ListenersTold'
  BY <1>1, <1>15, HistoryOfLookUnresolved DEF LookUnresolved, Continue, bus
<1>16. ASSUME NEW q \in Queries, NEW i \in Instances, LookTwice(q, i) PROVE ListenersTold'
  BY <1>1, <1>16 DEF LookTwice, Continue, bus
<1>17. ASSUME NEW q \in Queries, NEW i \in Instances, LookResolved(q, i) PROVE ListenersTold'
  BY <1>1, <1>17 DEF LookResolved, Continue, bus
<1>18. CASE DispatchSignalSecond
  <2>1. PICK i \in Instances : EventTold(Head(inbox).kind, i)
    BY <1>18, SignalSecond
  <2>2. Head(inbox).kind \in SignalKinds /\ history'.since = history.since
    BY <1>18, SignalSecond, HistoryOfDispatchSignalSecond
  <2>3. Settled /\ EventFrame
    BY <2>1, <2>2, EventHears
  <2>4. CASE Added({i})
    BY <2>2, <2>3, <2>4, TableGrows DEF ListenersTold, EventFrame, Settled
  <2>5. CASE Removed(i)
    <3>1. event'.interfaces = event.interfaces \ {i}
          /\ \A l \in event.listening :
               event'.heard[l] = IF i \in event.interfaces THEN event.heard[l] \ {i}
                                 ELSE event.heard[l]
      BY <2>5, TableShrinks
    <3>2. ASSUME NEW l \in event'.listening
          PROVE  /\ event'.heard[l] \subseteq event'.interfaces
                 /\ event'.interfaces \subseteq event'.heard[l] \cup history'.since[l]
      <4>1. l \in event.listening /\ event.heard[l] \subseteq event.interfaces
            /\ event.interfaces \subseteq event.heard[l] \cup history.since[l]
        BY <2>3, <3>2 DEF EventFrame, ListenersTold
      <4> QED
        BY <2>2, <3>1, <4>1
    <3> QED
      BY <2>3, <3>2 DEF ListenersTold, EventFrame, Settled
  <2>6. CASE UNCHANGED event
    BY <2>2, <2>6 DEF ListenersTold, Settled
  <2> QED
    BY <2>1, <2>2, <2>4, <2>5, <2>6, EventHears DEF SignalKinds
<1>19. CASE DispatchList
  <2> DEFINE is == Head(inbox).found
  <2>1. is \in SUBSET Instances /\ Added(is) /\ Settled /\ UNCHANGED history
    BY <1>19, ListDispatched
  <2> HIDE DEF is
  <2> QED
    BY <2>1, TableGrows DEF ListenersTold, EventFrame, Settled
<1>20. ASSUME NEW l \in Listeners, AddFirst(l) PROVE ListenersTold'
  BY <1>20, EventOfAddFirst, HistoryOfAddFirst DEF ListenersTold, Settled
<1>21. ASSUME NEW l \in Listeners, AddAnother(l) PROVE ListenersTold'
  <2>1. \A k \in event'.listening : k = l \/ (k \in event.listening /\ k \in Listeners \ {l})
    BY <1>21, EventOfAddAnother, Typed DEF AddAnother, EventTypes
  <2> QED
    BY <1>21, <2>1, EventOfAddAnother, HistoryOfAddAnother DEF ListenersTold, Settled
<1>22. ASSUME NEW l \in Listeners, Leave(l) PROVE ListenersTold'
  <2>1. \A k \in event'.listening : k \in event.listening /\ k \in Listeners \ {l}
    BY <1>22, EventOfLeave, Typed DEF Leave, EventTypes
  <2> QED
    BY <1>22, <2>1, EventOfLeave, HistoryOfLeave DEF ListenersTold, Settled
<1>23. CASE InstallRemoved
  <2>1. UNCHANGED history
    BY <1>23 DEF InstallRemoved
  <2> QED
    BY <1>23, <2>1, EventOfInstallRemoved DEF ListenersTold, Settled
<1>24. CASE AskForInstances
  <2>1. UNCHANGED history /\ ~Settled /\ event.caller \in Listeners /\ event.listening = {}
    BY <1>24 DEF AskForInstances, Handlers, Settled
  <2>2. /\ event'.interfaces = event.interfaces /\ event'.pc = "idle"
        /\ event'.listening = {event.caller} /\ event'.heard[event.caller] = {}
    BY <1>24, <2>1, EventOfAskForInstances
  <2>3. history'.since[event.caller] = event.interfaces
    BY <2>1 DEF ListenersTold
  <2> QED
    BY <2>2, <2>3 DEF ListenersTold, Settled
<1> QED
  BY StepOfNext, <1>2, <1>3, <1>4, <1>5, <1>6, <1>7, <1>8, <1>9, <1>10, <1>11,
    <1>12, <1>13, <1>14, <1>15, <1>16, <1>17, <1>18, <1>19, <1>20, <1>21,
    <1>22, <1>23, <1>24 DEF Step

-----------------------------------------------------------------------------
(* Who owns what, and the order of the processes.                          *)

(* A signal changes neither owners nor who is watched.                     *)
LEMMA RegistryOfDispatchSignalFirst ==
  ASSUME TypeOK, Addressed, DispatchSignalFirst
  PROVE  reg'.owned = reg.owned /\ reg'.watched = reg.watched
BY SignalFirst, SignalTold

(* A query that has a path cached does not, either;                        *)
LEMMA RegistryOfLookAbsent ==
  ASSUME TypeOK, NEW q \in Queries, NEW i \in Instances, LookAbsent(q, i)
  PROVE  reg'.owned = reg.owned /\ reg'.watched = reg.watched
BY AbsentLooked

(* nor one that asks for it again.                                         *)
LEMMA RegistryOfLookUnresolved ==
  ASSUME TypeOK, NEW q \in Queries, NEW i \in Instances, LookUnresolved(q, i)
  PROVE  reg'.owned = reg.owned /\ reg'.watched = reg.watched
BY UnresolvedLooked

(* Who loses a name says so, and who tells that it owns one, does.         *)
LEMMA OwnersSent ==
  ASSUME TypeOK, OwnersFollow, NEW N, NEW M, Sends(N, M), reg'.owned = reg.owned,
         \A g \in Generations : \A n \in Names :
           Owning(g, n) => Owning(g, n)' \/ \E m \in M : Loses(m, g, n),
         \A m \in N : m.kind = "owned" => \A n \in m.names : Owning(m.gen, n)',
         MessagesAddressed
  PROVE  OwnersFollow'
<1>1. /\ \A k \in DOMAIN inbox : k \in DOMAIN inbox' /\ inbox'[k] = inbox[k]
      /\ \A k \in DOMAIN inbox' \ DOMAIN inbox : inbox'[k] \in N /\ \A j \in DOMAIN inbox : j < k
      /\ \A m \in M : \E k \in DOMAIN inbox' \ DOMAIN inbox : inbox'[k] = m
  BY DEF Sends, Grows
<1>2. \A g \in Generations : reg.owned[g] \subseteq Names
  BY Typed DEF RegTypes
<1>3. ASSUME NEW g \in Generations, NEW n \in reg'.owned[g]
      PROVE  Owning(g, n)' \/ \E k \in DOMAIN inbox' : Loses(inbox'[k], g, n)
  <2>1. n \in Names /\ n \in reg.owned[g]
    BY <1>2, <1>3
  <2>2. CASE Owning(g, n)
    <3>1. CASE \E m \in M : Loses(m, g, n)
      BY <1>1, <3>1
    <3> QED
      BY <2>1, <2>2, <3>1
  <2>3. CASE \E k \in DOMAIN inbox : Loses(inbox[k], g, n)
    BY <1>1, <2>3
  <2> QED
    BY <2>1, <2>2, <2>3 DEF OwnersFollow
<1>4. ASSUME NEW k \in DOMAIN inbox', inbox'[k].kind = "owned", NEW n \in inbox'[k].names
      PROVE  \/ inbox'[k].gen = service'.gen /\ n \in service'.names
             \/ \E j \in DOMAIN inbox' : j > k /\ Loses(inbox'[j], inbox'[k].gen, n)
  <2>1. CASE k \notin DOMAIN inbox
    BY <1>1, <1>4, <2>1 DEF Owning
  <2>2. CASE k \in DOMAIN inbox
    <3> DEFINE g == inbox[k].gen
    <3>1. inbox'[k] = inbox[k] /\ inbox[k].kind = "owned" /\ n \in inbox[k].names
      BY <1>1, <1>4, <2>2
    <3>2. g \in Generations /\ n \in Names
      BY <2>2, <3>1 DEF MessagesAddressed, WellAddressed
    <3>3. CASE Owning(g, n)
      <4>1. CASE \E m \in M : Loses(m, g, n)
        <5>1. PICK j \in DOMAIN inbox' \ DOMAIN inbox : Loses(inbox'[j], g, n)
          BY <1>1, <4>1
        <5>2. j \in Nat /\ k \in Nat /\ k < j
          BY <1>1, <2>2, <5>1, Typed DEF Sends
        <5> QED
          BY <3>1, <5>1, <5>2
      <4> QED
        BY <3>1, <3>2, <3>3, <4>1 DEF Owning
    <3>4. CASE \E j \in DOMAIN inbox : j > k /\ Loses(inbox[j], g, n)
      BY <1>1, <3>1, <3>4
    <3> QED
      BY <2>2, <3>1, <3>3, <3>4 DEF OwnersFollow
  <2> QED
    BY <2>1, <2>2
<1> QED
  BY <1>3, <1>4 DEF OwnersFollow, Owning

(* The registry has noted what it is told.                                 *)
LEMMA OwnersTaken ==
  ASSUME TypeOK, OwnersFollow, Takes1, UNCHANGED service,
         \A g \in Generations : \A n \in reg'.owned[g] :
           \/ n \in reg.owned[g] /\ ~Loses(Head(inbox), g, n)
           \/ Head(inbox).kind = "owned" /\ Head(inbox).gen = g /\ n \in Head(inbox).names
  PROVE  OwnersFollow'
<1>1. DOMAIN inbox \subseteq Nat \ {0} /\ DOMAIN inbox' \subseteq Nat \ {0}
  BY Typed DEF Takes1
<1>2. /\ 1 \in DOMAIN inbox /\ inbox[1] = Head(inbox)
      /\ \A k \in DOMAIN inbox' : k + 1 \in DOMAIN inbox /\ inbox'[k] = inbox[k + 1]
      /\ \A k \in DOMAIN inbox : k > 1 => k - 1 \in DOMAIN inbox' /\ inbox'[k - 1] = inbox[k]
  BY DEF Takes1, Shrinks
<1>3. \A g, n : Owning(g, n)' <=> Owning(g, n)
  BY DEF Owning
<1>4. ASSUME NEW g \in Generations, NEW n, NEW k \in DOMAIN inbox, k > 1, Loses(inbox[k], g, n)
      PROVE  \E j \in DOMAIN inbox' : Loses(inbox'[j], g, n)
  BY <1>1, <1>2, <1>4
<1>5. ASSUME NEW g \in Generations, NEW n \in reg'.owned[g]
      PROVE  Owning(g, n)' \/ \E k \in DOMAIN inbox' : Loses(inbox'[k], g, n)
  <2>1. CASE n \in reg.owned[g] /\ ~Loses(Head(inbox), g, n)
    <3>1. CASE \E k \in DOMAIN inbox : Loses(inbox[k], g, n)
      <4>1. PICK k \in DOMAIN inbox : Loses(inbox[k], g, n)
        BY <3>1
      <4>2. k # 1
        BY <1>2, <2>1, <4>1
      <4> QED
        BY <1>1, <1>4, <4>1, <4>2
    <3> QED
      BY <1>3, <2>1, <3>1 DEF OwnersFollow
  <2>2. CASE inbox[1].kind = "owned" /\ inbox[1].gen = g /\ n \in inbox[1].names
    <3>1. Owning(g, n) \/ \E j \in DOMAIN inbox : j > 1 /\ Loses(inbox[j], g, n)
      BY <1>2, <2>2 DEF OwnersFollow
    <3> QED
      BY <1>3, <1>4, <3>1
  <2> QED
    BY <1>2, <1>5, <2>1, <2>2
<1>6. ASSUME NEW k \in DOMAIN inbox', inbox'[k].kind = "owned", NEW n \in inbox'[k].names
      PROVE  \/ inbox'[k].gen = service'.gen /\ n \in service'.names
             \/ \E j \in DOMAIN inbox' : j > k /\ Loses(inbox'[j], inbox'[k].gen, n)
  <2>1. k + 1 \in DOMAIN inbox /\ inbox'[k] = inbox[k + 1]
    BY <1>2
  <2>2. ASSUME NEW j \in DOMAIN inbox, j > k + 1, Loses(inbox[j], inbox'[k].gen, n)
        PROVE  \E o \in DOMAIN inbox' : o > k /\ Loses(inbox'[o], inbox'[k].gen, n)
    <3>1. j - 1 \in DOMAIN inbox' /\ inbox'[j - 1] = inbox[j] /\ j - 1 > k
      BY <1>1, <1>2, <2>2
    <3> QED
      BY <2>2, <3>1
  <2> QED
    BY <1>6, <2>1, <2>2 DEF OwnersFollow, Owning
<1> QED
  BY <1>5, <1>6 DEF OwnersFollow, Owning

(* The order stays when only the current process sends.                    *)
LEMMA OrderSent ==
  ASSUME TypeOK, InOrder, NEW N, NEW M, Sends(N, M), reg'.owned = reg.owned,
         service'.gen \in Nat, service.gen <= service'.gen,
         \A m \in N : IsOrdered(m) => m.gen = service'.gen
  PROVE  InOrder'
<1>1. /\ \A k \in DOMAIN inbox : k \in DOMAIN inbox' /\ inbox'[k] = inbox[k]
      /\ \A k \in DOMAIN inbox' \ DOMAIN inbox : inbox'[k] \in N /\ \A j \in DOMAIN inbox : j < k
      /\ DOMAIN inbox \subseteq Nat /\ DOMAIN inbox' \subseteq Nat /\ service.gen \in Nat
      /\ \A k \in DOMAIN inbox : inbox[k].gen \in Nat
  <2>1. \A m \in Message : m.gen \in Nat
    BY DEF Message
  <2>2. inbox \in Seq(Message) /\ inbox' \in Seq(Message) /\ service \in ServiceTypes
    BY Typed DEF Sends
  <2> QED
    BY <2>1, <2>2 DEF Sends, Grows, ServiceTypes
<1>2. ASSUME NEW k \in DOMAIN inbox', IsOrdered(inbox'[k])
      PROVE  /\ inbox'[k].gen <= service'.gen
             /\ k \notin DOMAIN inbox => inbox'[k].gen = service'.gen
             /\ k \in DOMAIN inbox => inbox'[k] = inbox[k] /\ inbox[k].gen <= service.gen
  BY <1>1, <1>2 DEF InOrder
<1>3. ASSUME NEW j \in DOMAIN inbox', NEW k \in DOMAIN inbox', j < k,
             IsOrdered(inbox'[j]), IsOrdered(inbox'[k])
      PROVE  inbox'[j].gen <= inbox'[k].gen
  <2>1. CASE k \in DOMAIN inbox
    <3>1. j \in DOMAIN inbox
      BY <1>1, <1>3, <2>1
    <3> QED
      BY <1>1, <1>3, <2>1, <3>1 DEF InOrder
  <2>2. CASE k \notin DOMAIN inbox
    BY <1>2, <1>3, <2>2
  <2> QED
    BY <2>1, <2>2
<1>4. ASSUME NEW g \in Generations, reg'.owned[g] # {}
      PROVE  /\ g <= service'.gen
             /\ \A k \in DOMAIN inbox' : IsOrdered(inbox'[k]) => g <= inbox'[k].gen
  <2>1. g <= service.gen /\ \A k \in DOMAIN inbox : IsOrdered(inbox[k]) => g <= inbox[k].gen
    BY <1>4 DEF InOrder
  <2>2. g <= service'.gen
    BY <1>1, <2>1
  <2> QED
    BY <1>1, <1>2, <2>1, <2>2
<1> QED
  BY <1>2, <1>3, <1>4 DEF InOrder

(* It stays when the registry learns of the process that comes next.       *)
LEMMA OrderTaken ==
  ASSUME TypeOK, InOrder, Takes1, UNCHANGED service,
         \A g \in Generations : reg'.owned[g] # {} =>
           reg.owned[g] # {} \/ (IsOrdered(Head(inbox)) /\ g = Head(inbox).gen)
  PROVE  InOrder'
<1>1. DOMAIN inbox \subseteq Nat \ {0} /\ DOMAIN inbox' \subseteq Nat \ {0}
  BY Typed DEF Takes1
<1>2. /\ 1 \in DOMAIN inbox /\ inbox[1] = Head(inbox)
      /\ \A k \in DOMAIN inbox' : k + 1 \in DOMAIN inbox /\ inbox'[k] = inbox[k + 1]
  BY DEF Takes1, Shrinks
<1>3. /\ \A k \in DOMAIN inbox' : IsOrdered(inbox'[k]) => inbox'[k].gen <= service'.gen
      /\ \A j, k \in DOMAIN inbox' :
           j < k /\ IsOrdered(inbox'[j]) /\ IsOrdered(inbox'[k]) => inbox'[j].gen <= inbox'[k].gen
  BY <1>1, <1>2 DEF InOrder
<1>4. ASSUME NEW g \in Generations, reg'.owned[g] # {}
      PROVE  /\ g <= service'.gen
             /\ \A k \in DOMAIN inbox' : IsOrdered(inbox'[k]) => g <= inbox'[k].gen
  <2>1. CASE reg.owned[g] # {}
    BY <1>2, <2>1 DEF InOrder
  <2>2. CASE IsOrdered(inbox[1]) /\ g = inbox[1].gen
    <3>1. \A k \in DOMAIN inbox' : 1 < k + 1
      BY <1>1
    <3> QED
      BY <1>2, <2>2, <3>1 DEF InOrder
  <2> QED
    BY <1>2, <1>4, <2>1, <2>2
<1> QED
  BY <1>3, <1>4 DEF InOrder

(* Owners are known, or about to be.                                       *)
LEMMA OwnersStillFollow ==
  ASSUME TypeOK, Addressed, Down, OwnersFollow, [Next]_vars
  PROVE  OwnersFollow'
<1>1. ASSUME UNCHANGED <<inbox, service.gen, service.names, reg.owned>>
      PROVE  OwnersFollow'
  BY <1>1 DEF OwnersFollow, Owning
<1>2. CASE UNCHANGED vars
  BY <1>1, <1>2 DEF vars, bus
<1>3. CASE InstallRemoved \/ AskForInstances
  BY <1>1, <1>3 DEF InstallRemoved, AskForInstances, bus
<1>4. CASE DispatchSignalFirst
  BY <1>1, <1>4, RegistryOfDispatchSignalFirst DEF DispatchSignalFirst, Told,
    bus, bus
<1>5. ASSUME NEW l \in Listeners, AddFirst(l) PROVE OwnersFollow'
  BY <1>1, <1>5 DEF AddFirst, bus
<1>6. ASSUME NEW l \in Listeners, AddAnother(l) PROVE OwnersFollow'
  BY <1>1, <1>6 DEF AddAnother, bus
<1>7. ASSUME NEW l \in Listeners, Leave(l) PROVE OwnersFollow'
  BY <1>1, <1>7 DEF Leave, bus
<1>8. ASSUME NEW q \in Queries, Read(q) PROVE OwnersFollow'
  BY <1>1, <1>8 DEF Read, bus
<1>9. ASSUME NEW q \in Queries, NEW i \in Instances, LookUnknown(q, i) PROVE OwnersFollow'
  BY <1>1, <1>9 DEF LookUnknown, bus
<1>10. ASSUME NEW q \in Queries, NEW i \in Instances, LookAbsent(q, i) PROVE OwnersFollow'
  BY <1>1, <1>10, RegistryOfLookAbsent DEF LookAbsent, Continue, bus
<1>11. ASSUME NEW q \in Queries, NEW i \in Instances, LookUnresolved(q, i) PROVE OwnersFollow'
  BY <1>1, <1>11, RegistryOfLookUnresolved DEF LookUnresolved, Continue, bus
<1>12. ASSUME NEW q \in Queries, NEW i \in Instances, LookTwice(q, i) PROVE OwnersFollow'
  BY <1>1, <1>12 DEF LookTwice, Continue, bus
<1>13. ASSUME NEW q \in Queries, NEW i \in Instances, LookResolved(q, i) PROVE OwnersFollow'
  BY <1>1, <1>13 DEF LookResolved, Continue, bus
<1>14. CASE Start
  <2> DEFINE N == {About("owned", service.gen + 1, n) : n \in service'.names}
  <2>1. UNCHANGED reg /\ Sends(N, {})
    BY <1>14, StartSends DEF Start
  <2>2. service.names = {} /\ service'.gen = service.gen + 1
    BY <1>14, ServiceOfStart DEF Down
  <2>3. \A m \in N : m.gen = service.gen + 1 /\ m.names \subseteq service'.names
    BY DEF About
  <2> HIDE DEF N
  <2> QED
    BY <2>1, <2>2, <2>3, OwnersSent DEF Owning, Addressed
<1>15. CASE Die
  <2> DEFINE N == {About("lost", service.gen, n) : n \in service.names}
  <2>1. UNCHANGED reg /\ Sends(N, N)
    BY <1>15, DieSends DEF Die
  <2>2. \A n \in service.names : About("lost", service.gen, n) \in N
    OBVIOUS
  <2>3. \A n \in service.names : Loses(About("lost", service.gen, n), service.gen, n)
    BY DEF About, Loses
  <2>4. \A m \in N : m.kind = "lost"
    BY DEF About
  <2> HIDE DEF N
  <2> QED
    BY <2>1, <2>2, <2>3, <2>4, OwnersSent DEF Owning, Addressed
<1>16. ASSUME NEW i \in Instances, Acquire(i) PROVE OwnersFollow'
  <2> DEFINE m == About("owned", service.gen, i)
  <2>1. UNCHANGED reg /\ Sends({m}, {m})
    BY <1>16, AcquireSends DEF Acquire
  <2>2. service'.gen = service.gen /\ service'.names = service.names \cup {i}
    BY <1>16, ServiceOfAcquire
  <2>3. m.kind = "owned" /\ m.gen = service.gen /\ m.names = {i}
    BY DEF About
  <2> HIDE DEF m
  <2> QED
    BY <2>1, <2>2, <2>3, OwnersSent DEF Owning, Loses, Addressed
<1>17. ASSUME NEW i \in Instances, Release(i) PROVE OwnersFollow'
  <2> DEFINE m == About("lost", service.gen, i)
  <2>1. UNCHANGED reg /\ Sends({m}, {m})
    BY <1>17, ReleaseSends DEF Release
  <2>2. service'.gen = service.gen /\ service'.names = service.names \ {i}
    BY <1>17, ServiceOfRelease
  <2>3. m.kind = "lost" /\ m.gen = service.gen /\ m.names = {i}
    BY DEF About
  <2> HIDE DEF m
  <2> QED
    BY <2>1, <2>2, <2>3, OwnersSent DEF Owning, Loses, Addressed
<1>18. ASSUME NEW i \in Instances, Export(i) PROVE OwnersFollow'
  <2> DEFINE m == About("added", service.gen, i)
  <2>1. UNCHANGED reg /\ Signal("added", i) /\ "added" \in SignalKinds
    BY <1>18 DEF Export, SignalKinds
  <2>2. \E M : Sends({m}, M)
    BY <2>1, SignalSends
  <2>3. service'.gen = service.gen /\ service'.names = service.names
    BY <1>18, ServiceOfExport
  <2>4. m.kind = "added" /\ m.gen = service.gen
    BY DEF About
  <2> HIDE DEF m
  <2> QED
    BY <2>1, <2>2, <2>3, <2>4, OwnersSent DEF Owning, Addressed
<1>19. ASSUME NEW i \in Instances, Unexport(i) PROVE OwnersFollow'
  <2> DEFINE m == About("removed", service.gen, i)
  <2>1. UNCHANGED reg /\ Signal("removed", i) /\ "removed" \in SignalKinds
    BY <1>19 DEF Unexport, SignalKinds
  <2>2. \E M : Sends({m}, M)
    BY <2>1, SignalSends
  <2>3. service'.gen = service.gen /\ service'.names = service.names
    BY <1>19, ServiceOfUnexport
  <2>4. m.kind = "removed" /\ m.gen = service.gen
    BY DEF About
  <2> HIDE DEF m
  <2> QED
    BY <2>1, <2>2, <2>3, <2>4, OwnersSent DEF Owning, Addressed
<1>20. CASE AnswerNext
  <2> DEFINE r == Head(requests)
  <2>1. UNCHANGED <<service, reg>> /\ r.kind \in {"owner", "path", "list"}
    BY <1>20, AnswerSends DEF AnswerNext, Request
  <2>4. CASE r.kind = "owner"
    <3> DEFINE m == About("owned", service.gen, r.name)
    <3>1. Sends({m}, {}) /\ (r.name \in service.names \/ Sends({}, {}))
      BY <1>20, <2>4, AnswerSends
    <3>2. m.kind = "owned" /\ m.gen = service.gen /\ m.names = {r.name}
      BY DEF About
    <3> HIDE DEF m
    <3> QED
      BY <2>1, <3>1, <3>2, OwnersSent DEF Owning, Addressed
  <2>5. CASE r.kind = "path"
    <3> DEFINE m == Answer("path", r.gen, r.name, Truth(r))
    <3>1. Sends({m}, {m})
      BY <1>20, <2>5, AnswerSends
    <3>2. m.kind = "path"
      BY DEF Answer
    <3> HIDE DEF m
    <3> QED
      BY <2>1, <3>1, <3>2, OwnersSent DEF Owning, Addressed
  <2>6. CASE r.kind = "list"
    <3> DEFINE m == Answer("list", 0, Manager, service.managed)
    <3>1. Sends({m}, {m})
      BY <1>20, <2>6, AnswerSends
    <3>2. m.kind = "list"
      BY DEF Answer
    <3> HIDE DEF m
    <3> QED
      BY <2>1, <3>1, <3>2, OwnersSent DEF Owning, Addressed
  <2> QED
    BY <2>1, <2>4, <2>5, <2>6
<1>21. CASE GiveUp
  <2> DEFINE m == Answer("list", 0, Manager, {})
  <2>1. UNCHANGED <<service, reg>> /\ Sends({m}, {m})
    BY <1>21, GiveUpSends DEF GiveUp
  <2>2. m.kind = "list"
    BY DEF Answer
  <2> HIDE DEF m
  <2> QED
    BY <2>1, <2>2, OwnersSent DEF Owning, Addressed
<1>22. CASE DispatchToRegistry
  <2>1. PICK n \in Names :
          /\ Head(inbox).names = {n}
          /\ \/ Head(inbox).kind = "owned" /\ OnNameOwned(Head(inbox).gen, n)
             \/ Head(inbox).kind = "lost" /\ OnNameLost(Head(inbox).gen, n)
             \/ Head(inbox).kind = "path" /\ n \in Instances /\ Head(inbox).found \in SUBSET Instances
                  /\ OnPathAnswered(Head(inbox).gen, n, Head(inbox).found)
    BY <1>22, DispatchedToRegistry
  <2>2. Head(inbox).gen \in Generations
    BY <1>22, DispatchedToRegistry
  <2> DEFINE m == Head(inbox)
  <2>3. Takes1 /\ UNCHANGED service
    BY <1>22, DispatchedToRegistry
  <2>4. CASE m.kind = "owned" /\ OnNameOwned(m.gen, n)
    <3>1. /\ reg'.owned[m.gen] = reg.owned[m.gen] \cup {n}
          /\ \A h \in Generations : h # m.gen => reg'.owned[h] = reg.owned[h]
      BY <2>2, <2>4, NameOwned
    <3> QED
      BY <2>1, <2>3, <2>4, <3>1, OwnersTaken DEF Loses
  <2>5. CASE m.kind = "lost" /\ OnNameLost(m.gen, n)
    <3>1. /\ reg'.owned[m.gen] = reg.owned[m.gen] \ {n}
          /\ \A h \in Generations : h # m.gen => reg'.owned[h] = reg.owned[h]
      BY <2>2, <2>5, NameLost
    <3> QED
      BY <2>1, <2>3, <2>5, <3>1, OwnersTaken DEF Loses
  <2>6. CASE /\ m.kind = "path" /\ n \in Instances /\ m.found \in SUBSET Instances
             /\ OnPathAnswered(m.gen, n, m.found)
    <3>1. reg'.owned = reg.owned
      BY <2>2, <2>6, PathAnswered
    <3> QED
      BY <2>3, <2>6, <3>1, OwnersTaken DEF Loses
  <2> QED
    BY <2>1, <2>4, <2>5, <2>6
<1>23. CASE DispatchSignalSecond
  <2>1. Takes1 /\ UNCHANGED <<service, reg>> /\ Head(inbox).kind \in SignalKinds
    BY <1>23, SignalSecond
  <2> QED
    BY <2>1, OwnersTaken DEF Loses, SignalKinds
<1>24. CASE DispatchList
  <2>1. Takes1 /\ UNCHANGED <<service, reg>> /\ Head(inbox).kind = "list"
    BY <1>24, ListDispatched
  <2> QED
    BY <2>1, OwnersTaken DEF Loses
<1> QED
  BY StepOfNext, <1>2, <1>3, <1>4, <1>5, <1>6, <1>7, <1>8, <1>9, <1>10, <1>11,
    <1>12, <1>13, <1>14, <1>15, <1>16, <1>17, <1>18, <1>19, <1>20, <1>21,
    <1>22, <1>23, <1>24 DEF Step

(* The processes follow each other.                                        *)
LEMMA OrderStays ==
  ASSUME TypeOK, Addressed, InOrder, [Next]_vars
  PROVE  InOrder'
<1>1. ASSUME UNCHANGED <<inbox, service.gen, reg.owned>> PROVE InOrder'
  BY <1>1 DEF InOrder
<1>2. CASE UNCHANGED vars
  BY <1>1, <1>2 DEF vars, bus
<1>3. CASE InstallRemoved \/ AskForInstances
  BY <1>1, <1>3 DEF InstallRemoved, AskForInstances, bus
<1>4. CASE DispatchSignalFirst
  BY <1>1, <1>4, RegistryOfDispatchSignalFirst DEF DispatchSignalFirst, Told,
    bus, bus
<1>5. ASSUME NEW l \in Listeners, AddFirst(l) PROVE InOrder'
  BY <1>1, <1>5 DEF AddFirst, bus
<1>6. ASSUME NEW l \in Listeners, AddAnother(l) PROVE InOrder'
  BY <1>1, <1>6 DEF AddAnother, bus
<1>7. ASSUME NEW l \in Listeners, Leave(l) PROVE InOrder'
  BY <1>1, <1>7 DEF Leave, bus
<1>8. ASSUME NEW q \in Queries, Read(q) PROVE InOrder'
  BY <1>1, <1>8 DEF Read, bus
<1>9. ASSUME NEW q \in Queries, NEW i \in Instances, LookUnknown(q, i) PROVE InOrder'
  BY <1>1, <1>9 DEF LookUnknown, bus
<1>10. ASSUME NEW q \in Queries, NEW i \in Instances, LookAbsent(q, i) PROVE InOrder'
  BY <1>1, <1>10, RegistryOfLookAbsent DEF LookAbsent, Continue, bus
<1>11. ASSUME NEW q \in Queries, NEW i \in Instances, LookUnresolved(q, i) PROVE InOrder'
  BY <1>1, <1>11, RegistryOfLookUnresolved DEF LookUnresolved, Continue, bus
<1>12. ASSUME NEW q \in Queries, NEW i \in Instances, LookTwice(q, i) PROVE InOrder'
  BY <1>1, <1>12 DEF LookTwice, Continue, bus
<1>13. ASSUME NEW q \in Queries, NEW i \in Instances, LookResolved(q, i) PROVE InOrder'
  BY <1>1, <1>13 DEF LookResolved, Continue, bus
<1>14. CASE Start
  <2> DEFINE N == {About("owned", service.gen + 1, n) : n \in service'.names}
  <2>1. UNCHANGED reg /\ Sends(N, {})
    BY <1>14, StartSends DEF Start
  <2>2. service.gen \in Nat /\ service'.gen = service.gen + 1
    BY <1>14, ServiceOfStart, Typed DEF ServiceTypes
  <2>3. \A m \in N : m.gen = service.gen + 1
    BY DEF About
  <2> HIDE DEF N
  <2> QED
    BY <2>1, <2>2, <2>3, OrderSent
<1>15. CASE Die
  <2> DEFINE N == {About("lost", service.gen, n) : n \in service.names}
  <2>1. UNCHANGED reg /\ Sends(N, N)
    BY <1>15, DieSends DEF Die
  <2>2. service.gen \in Nat /\ service'.gen = service.gen
    BY <1>15, ServiceOfDie, Typed DEF ServiceTypes
  <2>3. \A m \in N : m.gen = service.gen
    BY DEF About
  <2> HIDE DEF N
  <2> QED
    BY <2>1, <2>2, <2>3, OrderSent
<1>16. ASSUME NEW i \in Instances, Acquire(i) PROVE InOrder'
  <2> DEFINE m == About("owned", service.gen, i)
  <2>1. UNCHANGED reg /\ Sends({m}, {m})
    BY <1>16, AcquireSends DEF Acquire
  <2>2. service'.gen = service.gen /\ service.gen \in Nat
    BY <1>16, ServiceOfAcquire, Typed DEF ServiceTypes
  <2>3. m.gen = service.gen
    BY DEF About
  <2> HIDE DEF m
  <2> QED
    BY <2>1, <2>2, <2>3, OrderSent
<1>17. ASSUME NEW i \in Instances, Release(i) PROVE InOrder'
  <2> DEFINE m == About("lost", service.gen, i)
  <2>1. UNCHANGED reg /\ Sends({m}, {m})
    BY <1>17, ReleaseSends DEF Release
  <2>2. service'.gen = service.gen /\ service.gen \in Nat
    BY <1>17, ServiceOfRelease, Typed DEF ServiceTypes
  <2>3. m.gen = service.gen
    BY DEF About
  <2> HIDE DEF m
  <2> QED
    BY <2>1, <2>2, <2>3, OrderSent
<1>18. ASSUME NEW i \in Instances, Export(i) PROVE InOrder'
  <2>a. service.gen \in Nat
    BY Typed DEF ServiceTypes
  <2> DEFINE m == About("added", service.gen, i)
  <2>1. UNCHANGED reg /\ Signal("added", i) /\ "added" \in SignalKinds
    BY <1>18 DEF Export, SignalKinds
  <2>2. \E M : Sends({m}, M)
    BY <2>1, SignalSends
  <2>3. service'.gen = service.gen /\ service'.names = service.names
    BY <1>18, ServiceOfExport
  <2>4. m.kind = "added" /\ m.gen = service.gen
    BY DEF About
  <2> HIDE DEF m
  <2> QED
    BY <2>a, <2>1, <2>2, <2>3, <2>4, OrderSent
<1>19. ASSUME NEW i \in Instances, Unexport(i) PROVE InOrder'
  <2>a. service.gen \in Nat
    BY Typed DEF ServiceTypes
  <2> DEFINE m == About("removed", service.gen, i)
  <2>1. UNCHANGED reg /\ Signal("removed", i) /\ "removed" \in SignalKinds
    BY <1>19 DEF Unexport, SignalKinds
  <2>2. \E M : Sends({m}, M)
    BY <2>1, SignalSends
  <2>3. service'.gen = service.gen /\ service'.names = service.names
    BY <1>19, ServiceOfUnexport
  <2>4. m.kind = "removed" /\ m.gen = service.gen
    BY DEF About
  <2> HIDE DEF m
  <2> QED
    BY <2>a, <2>1, <2>2, <2>3, <2>4, OrderSent
<1>20. CASE AnswerNext
  <2>a. service.gen \in Nat
    BY Typed DEF ServiceTypes
  <2> DEFINE r == Head(requests)
  <2>1. UNCHANGED <<service, reg>> /\ r.kind \in {"owner", "path", "list"}
    BY <1>20, AnswerSends DEF AnswerNext, Request
  <2>4. CASE r.kind = "owner"
    <3> DEFINE m == About("owned", service.gen, r.name)
    <3>1. Sends({m}, {}) /\ (r.name \in service.names \/ Sends({}, {}))
      BY <1>20, <2>4, AnswerSends
    <3>2. m.kind = "owned" /\ m.gen = service.gen /\ m.names = {r.name}
      BY DEF About
    <3> HIDE DEF m
    <3> QED
      BY <2>1, <3>1, <3>2, <2>a, OrderSent DEF IsOrdered, SignalKinds, OwnerKinds
  <2>5. CASE r.kind = "path"
    <3> DEFINE m == Answer("path", r.gen, r.name, Truth(r))
    <3>1. Sends({m}, {m})
      BY <1>20, <2>5, AnswerSends
    <3>2. m.kind = "path"
      BY DEF Answer
    <3> HIDE DEF m
    <3> QED
      BY <2>1, <3>1, <3>2, <2>a, OrderSent DEF IsOrdered, SignalKinds, OwnerKinds
  <2>6. CASE r.kind = "list"
    <3> DEFINE m == Answer("list", 0, Manager, service.managed)
    <3>1. Sends({m}, {m})
      BY <1>20, <2>6, AnswerSends
    <3>2. m.kind = "list"
      BY DEF Answer
    <3> HIDE DEF m
    <3> QED
      BY <2>1, <3>1, <3>2, <2>a, OrderSent DEF IsOrdered, SignalKinds, OwnerKinds
  <2> QED
    BY <2>1, <2>4, <2>5, <2>6
<1>21. CASE GiveUp
  <2>a. service.gen \in Nat
    BY Typed DEF ServiceTypes
  <2> DEFINE m == Answer("list", 0, Manager, {})
  <2>1. UNCHANGED <<service, reg>> /\ Sends({m}, {m})
    BY <1>21, GiveUpSends DEF GiveUp
  <2>2. m.kind = "list"
    BY DEF Answer
  <2> HIDE DEF m
  <2> QED
    BY <2>1, <2>2, <2>a, OrderSent DEF IsOrdered, SignalKinds, OwnerKinds
<1>22. CASE DispatchToRegistry
  <2>1. PICK n \in Names :
          /\ Head(inbox).names = {n}
          /\ \/ Head(inbox).kind = "owned" /\ OnNameOwned(Head(inbox).gen, n)
             \/ Head(inbox).kind = "lost" /\ OnNameLost(Head(inbox).gen, n)
             \/ Head(inbox).kind = "path" /\ n \in Instances /\ Head(inbox).found \in SUBSET Instances
                  /\ OnPathAnswered(Head(inbox).gen, n, Head(inbox).found)
    BY <1>22, DispatchedToRegistry
  <2>2. Head(inbox).gen \in Generations
    BY <1>22, DispatchedToRegistry
  <2> DEFINE m == Head(inbox)
  <2>3. Takes1 /\ UNCHANGED service
    BY <1>22, DispatchedToRegistry
  <2>4. CASE m.kind = "owned" /\ OnNameOwned(m.gen, n)
    <3>1. \A h \in Generations : h # m.gen => reg'.owned[h] = reg.owned[h]
      BY <2>2, <2>4, NameOwned
    <3> QED
      BY <2>3, <2>4, <3>1, OrderTaken DEF IsOrdered, OwnerKinds
  <2>5. CASE m.kind = "lost" /\ OnNameLost(m.gen, n)
    <3>1. /\ reg'.owned[m.gen] = reg.owned[m.gen] \ {n}
          /\ \A h \in Generations : h # m.gen => reg'.owned[h] = reg.owned[h]
      BY <2>2, <2>5, NameLost
    <3> QED
      BY <2>3, <3>1, OrderTaken
  <2>6. CASE /\ m.kind = "path" /\ n \in Instances /\ m.found \in SUBSET Instances
             /\ OnPathAnswered(m.gen, n, m.found)
    <3>1. reg'.owned = reg.owned
      BY <2>2, <2>6, PathAnswered
    <3> QED
      BY <2>3, <3>1, OrderTaken
  <2> QED
    BY <2>1, <2>4, <2>5, <2>6
<1>23. CASE DispatchSignalSecond
  <2>1. Takes1 /\ UNCHANGED <<service, reg>>
    BY <1>23, SignalSecond
  <2> QED
    BY <2>1, OrderTaken
<1>24. CASE DispatchList
  <2>1. Takes1 /\ UNCHANGED <<service, reg>>
    BY <1>24, ListDispatched
  <2> QED
    BY <2>1, OrderTaken
<1> QED
  BY StepOfNext, <1>2, <1>3, <1>4, <1>5, <1>6, <1>7, <1>8, <1>9, <1>10, <1>11,
    <1>12, <1>13, <1>14, <1>15, <1>16, <1>17, <1>18, <1>19, <1>20, <1>21,
    <1>22, <1>23, <1>24 DEF Step

-----------------------------------------------------------------------------
(* One answer.                                                             *)

(* A sequence grows by one place only.                                     *)
LEMMA OnePlace ==
  ASSUME NEW S, NEW s \in Seq(S), NEW m \in S
  PROVE  \A j, k \in DOMAIN Append(s, m) : j \notin DOMAIN s /\ k \notin DOMAIN s => j = k
<1>1. Append(s, m) \in Seq(S) /\ Len(Append(s, m)) = Len(s) + 1 /\ Len(s) \in Nat
  OBVIOUS
<1>2. DOMAIN s = 1 .. Len(s) /\ DOMAIN Append(s, m) = 1 .. Len(s) + 1
  BY <1>1
<1> QED
  BY <1>1, <1>2

(* No call about a path, or no answer, but those that were there before.   *)
FewerCalls(d) ==
  \A k \in DOMAIN requests' : requests'[k].kind = "path" =>
    k \in Nat /\ k + d \in DOMAIN requests /\ requests[k + d] = requests'[k]
FewerAnswers(d) ==
  \A k \in DOMAIN inbox' : inbox'[k].kind = "path" =>
    k \in Nat /\ k + d \in DOMAIN inbox /\ inbox[k + d] = inbox'[k]

(* Nothing is called: there are no calls but the old ones;                 *)
LEMMA SameCalls ==
  ASSUME TypeOK, UNCHANGED requests
  PROVE  FewerCalls(0)
<1>1. DOMAIN requests \subseteq Nat
  BY Typed
<1> QED
  BY <1>1 DEF FewerCalls

(* a call is taken: they move up;                                          *)
LEMMA CallsGone ==
  ASSUME requests' \in Seq(Request), Shrinks(requests, requests')
  PROVE  FewerCalls(1)
<1>1. DOMAIN requests' \subseteq Nat
  OBVIOUS
<1> QED
  BY <1>1 DEF FewerCalls, Shrinks

(* nothing is sent: the same for answers;                                  *)
LEMMA SameAnswers ==
  ASSUME TypeOK, UNCHANGED inbox
  PROVE  FewerAnswers(0)
<1>1. DOMAIN inbox \subseteq Nat
  BY Typed
<1> QED
  BY <1>1 DEF FewerAnswers

(* other messages are sent;                                                *)
LEMMA AnswersSent ==
  ASSUME NEW N, NEW M, Sends(N, M), \A m \in N : m.kind # "path"
  PROVE  FewerAnswers(0)
<1>1. DOMAIN inbox' \subseteq Nat
  BY DEF Sends
<1> QED
  BY <1>1 DEF FewerAnswers, Sends, Grows

(* a message is taken.                                                     *)
LEMMA AnswersTaken ==
  ASSUME Takes1
  PROVE  FewerAnswers(1)
<1>1. DOMAIN inbox' \subseteq Nat
  BY DEF Takes1
<1> QED
  BY <1>1 DEF FewerAnswers, Takes1, Shrinks

(* With no more of them, and a path that is still being resolved unless    *)
(* none is left, it stays at one.                                          *)
LEMMA SingleKept ==
  ASSUME NEW g, NEW i, Single(g, i), NEW d \in {0, 1}, NEW e \in {0, 1},
         FewerCalls(d), FewerAnswers(e),
         \/ Path(g, i).state = "RESOLVING" => Path(g, i)'.state = "RESOLVING"
         \/ /\ \A k \in DOMAIN requests' : ~Asks(requests'[k], g, i)
            /\ \A k \in DOMAIN inbox' : ~Answers(inbox'[k], g, i)
  PROVE  Single(g, i)'
<1>1. ASSUME NEW k \in DOMAIN requests', Asks(requests'[k], g, i)
      PROVE  /\ Path(g, i)'.state = "RESOLVING"
             /\ \A j \in DOMAIN requests' : Asks(requests'[j], g, i) => j = k
             /\ \A j \in DOMAIN inbox' : ~Answers(inbox'[j], g, i)
  <2>1. /\ k \in Nat /\ k + d \in DOMAIN requests /\ Asks(requests[k + d], g, i)
        /\ \A j \in DOMAIN requests' : Asks(requests'[j], g, i) =>
             j \in Nat /\ j + d \in DOMAIN requests /\ Asks(requests[j + d], g, i)
        /\ \A j \in DOMAIN inbox' : Answers(inbox'[j], g, i) =>
             j + e \in DOMAIN inbox /\ Answers(inbox[j + e], g, i)
    BY <1>1 DEF FewerCalls, FewerAnswers, Asks, Answers
  <2>2. Path(g, i).state = "RESOLVING" /\ \A j \in DOMAIN inbox : ~Answers(inbox[j], g, i)
    BY <2>1 DEF Single
  <2>3. \A j \in DOMAIN requests' : Asks(requests'[j], g, i) => j \in Nat /\ j + d = k + d
    BY <2>1 DEF Single
  <2> QED
    BY <1>1, <2>1, <2>2, <2>3
<1>2. ASSUME NEW k \in DOMAIN inbox', Answers(inbox'[k], g, i)
      PROVE  /\ Path(g, i)'.state = "RESOLVING"
             /\ \A j \in DOMAIN inbox' : Answers(inbox'[j], g, i) => j = k
  <2>1. /\ k \in Nat /\ k + e \in DOMAIN inbox /\ Answers(inbox[k + e], g, i)
        /\ \A j \in DOMAIN inbox' : Answers(inbox'[j], g, i) =>
             j \in Nat /\ j + e \in DOMAIN inbox /\ Answers(inbox[j + e], g, i)
    BY <1>2 DEF FewerAnswers, Answers
  <2>2. Path(g, i).state = "RESOLVING"
    BY <2>1 DEF Single
  <2>3. \A j \in DOMAIN inbox' : Answers(inbox'[j], g, i) => j \in Nat /\ j + e = k + e
    BY <2>1 DEF Single
  <2> QED
    BY <1>2, <2>1, <2>2, <2>3
<1> QED
  BY <1>1, <1>2 DEF Single

(* A path that was not cached is asked for once.                           *)
LEMMA SingleBegins ==
  ASSUME TypeOK, NEW g \in Generations, NEW i \in Instances, Single(g, i), Begins(g, i),
         NEW e \in {0, 1}, FewerAnswers(e)
  PROVE  Single(g, i)'
<1>1. /\ \A k \in DOMAIN requests : ~Asks(requests[k], g, i)
      /\ \A k \in DOMAIN inbox : ~Answers(inbox[k], g, i)
      /\ Path(g, i)'.state = "RESOLVING"
  BY DEF Begins, Single
<1>2. \A k \in DOMAIN inbox' : ~Answers(inbox'[k], g, i)
  BY <1>1 DEF FewerAnswers, Answers
<1>3. \A k \in DOMAIN requests' : Asks(requests'[k], g, i) => k \notin DOMAIN requests
  BY <1>1 DEF Begins, Grows
<1>4. PathRequest(i, g) \in Request /\ requests \in Seq(Request)
  BY PathRequestType, Typed
<1>5. \A j, k \in DOMAIN requests' : j \notin DOMAIN requests /\ k \notin DOMAIN requests => j = k
  BY <1>4, OnePlace DEF Begins
<1> QED
  BY <1>1, <1>2, <1>3, <1>5 DEF Single

(* The simplest steps.                                                     *)
LEMMA OneAnswerKept ==
  ASSUME OneAnswer, Clear' \subseteq Clear, NEW d \in {0, 1}, NEW e \in {0, 1},
         FewerCalls(d), FewerAnswers(e),
         \A g \in Generations, i \in Clear' :
           Path(g, i).state = "RESOLVING" => Path(g, i)'.state = "RESOLVING"
  PROVE  OneAnswer'
<1>1. ASSUME NEW g \in Generations, NEW i \in Clear' PROVE Single(g, i)'
  <2>1. Single(g, i)
    BY <1>1 DEF OneAnswer
  <2> QED
    BY <1>1, <2>1, SingleKept
<1> QED
  BY <1>1 DEF OneAnswer

(* A path that is being resolved lists nothing.                            *)
LEMMA FreshStays ==
  ASSUME TypeOK, Addressed, Fresh, [Next]_vars
  PROVE  Fresh'
<1>1. ASSUME UNCHANGED <<reg.paths, history.doubled>> PROVE Fresh'
  BY <1>1 DEF Fresh, Path
<1>2. CASE UNCHANGED vars
  BY <1>1, <1>2 DEF vars, bus
<1>3. CASE AnswerNext \/ DispatchList \/ InstallRemoved \/ AskForInstances
  BY <1>1, <1>3 DEF AnswerNext, DispatchList, Receive, InstallRemoved,
    AskForInstances, bus
<1>4. CASE Start
  BY <1>1, <1>4, HistoryOfStart DEF Start, bus
<1>5. CASE Die
  BY <1>1, <1>5, HistoryOfDie DEF Die, bus
<1>6. ASSUME NEW i \in Instances, Acquire(i) PROVE Fresh'
  BY <1>1, <1>6, HistoryOfAcquire DEF Acquire, bus
<1>7. ASSUME NEW i \in Instances, Release(i) PROVE Fresh'
  BY <1>1, <1>7, HistoryOfRelease DEF Release, bus
<1>8. ASSUME NEW i \in Instances, Export(i) PROVE Fresh'
  BY <1>1, <1>8, HistoryOfExport DEF Export, bus
<1>9. ASSUME NEW i \in Instances, Unexport(i) PROVE Fresh'
  BY <1>1, <1>9, HistoryOfUnexport DEF Unexport, bus
<1>10. CASE GiveUp
  BY <1>1, <1>10, HistoryOfGiveUp DEF GiveUp, bus
<1>11. CASE DispatchSignalSecond
  BY <1>1, <1>11, HistoryOfDispatchSignalSecond DEF DispatchSignalSecond,
    Told, Receive, bus
<1>12. ASSUME NEW l \in Listeners, AddFirst(l) PROVE Fresh'
  BY <1>1, <1>12, HistoryOfAddFirst DEF AddFirst, bus
<1>13. ASSUME NEW l \in Listeners, AddAnother(l) PROVE Fresh'
  BY <1>1, <1>13, HistoryOfAddAnother DEF AddAnother, bus
<1>14. ASSUME NEW l \in Listeners, Leave(l) PROVE Fresh'
  BY <1>1, <1>14, HistoryOfLeave DEF Leave, bus
<1>15. ASSUME NEW q \in Queries, Read(q) PROVE Fresh'
  BY <1>1, <1>15 DEF Read, bus
<1>16. ASSUME NEW q \in Queries, NEW i \in Instances, LookUnknown(q, i) PROVE Fresh'
  BY <1>1, <1>16 DEF LookUnknown, bus
<1>17. ASSUME NEW q \in Queries, NEW i \in Instances, LookTwice(q, i) PROVE Fresh'
  BY <1>1, <1>17 DEF LookTwice, Continue, bus
<1>18. ASSUME NEW q \in Queries, NEW i \in Instances, LookResolved(q, i) PROVE Fresh'
  BY <1>1, <1>18 DEF LookResolved, Continue, bus
<1>19. CASE DispatchToRegistry
  <2>1. PICK g \in Generations, n \in Names :
          /\ g = Head(inbox).gen /\ Head(inbox).names = {n}
          /\ \/ Head(inbox).kind = "owned" /\ OnNameOwned(g, n)
             \/ Head(inbox).kind = "lost" /\ OnNameLost(g, n)
             \/ Head(inbox).kind = "path" /\ n \in Instances /\ Head(inbox).found \in SUBSET Instances
                  /\ OnPathAnswered(g, n, Head(inbox).found)
    BY <1>19, DispatchedToRegistry
  <2> DEFINE m == Head(inbox)
  <2>3. history'.doubled = history.doubled
    BY <1>19, HistoryOfDispatchToRegistry
  <2>4. CASE OnNameOwned(g, n)
    <3>1. \A h \in Generations, i \in Instances :
            Path(h, i)' = Path(h, i) \/ (h = g /\ i = n /\ Begins(g, n))
      BY <2>4, NameOwned
    <3>2. ASSUME NEW h \in Generations, NEW i \in Instances \ history.doubled,
                 Path(h, i)'.state = "RESOLVING"
          PROVE  Path(h, i)'.pending = 1 /\ ~Path(h, i)'.listed
      <4>1. CASE Path(h, i)' = Path(h, i)
        BY <3>2, <4>1 DEF Fresh
      <4>2. CASE h = g /\ i = n /\ Begins(g, n)
        BY <4>2 DEF Begins
      <4> QED
        BY <3>1, <4>1, <4>2
    <3> QED
      BY <2>3, <3>2 DEF Fresh
  <2>5. CASE OnNameLost(g, n)
    <3>1. \A h \in Generations, i \in Instances : Path(h, i)' = Path(h, i) \/ Path(h, i)' = Absent
      BY <2>5, NameLost
    <3> QED
      BY <2>3, <3>1 DEF Fresh, Absent
  <2>6. CASE n \in Instances /\ m.found \in SUBSET Instances /\ OnPathAnswered(g, n, m.found)
    <3>1. /\ \A h \in Generations, i \in Instances : h # g \/ i # n => Path(h, i)' = Path(h, i)
          /\ \/ Path(g, n)' = Path(g, n)
             \/ /\ Path(g, n)'.state \in {Path(g, n).state, "RESOLVED"}
                /\ Path(g, n).pending = 1 => Path(g, n)'.state = "RESOLVED"
      BY <2>6, PathAnswered
    <3>2. Fresh => \A h \in Generations, i \in Instances \ history.doubled :
            Path(h, i)'.state = "RESOLVING" => Path(h, i)'.pending = 1 /\ ~Path(h, i)'.listed
      <4> SUFFICES ASSUME NEW h \in Generations, NEW i \in Instances \ history.doubled,
                          Path(h, i)'.state = "RESOLVING"
                   PROVE  Path(h, i)'.pending = 1 /\ ~Path(h, i)'.listed
        OBVIOUS
      <4>1. Path(h, i)' = Path(h, i)
        BY <3>1 DEF Fresh
      <4> QED
        BY <4>1 DEF Fresh
    <3> QED
      BY <2>3, <3>2 DEF Fresh
  <2> QED
    BY <2>1, <2>4, <2>5, <2>6
<1>20. CASE DispatchSignalFirst
  <2>1. PICK g \in Generations, n \in Instances :
          g = Head(inbox).gen /\ RegistryTold(Head(inbox).kind, g, n)
    BY <1>20, SignalFirst
  <2>2. /\ Head(inbox).gen \in Generations /\ Head(inbox).kind \in SignalKinds
        /\ UNCHANGED history
    BY <1>20, SignalFirst
  <2>3. \A h \in Generations, i \in Instances :
          \/ Path(h, i)' = Path(h, i)
          \/ Path(h, i).state = "RESOLVED" /\ Path(h, i)'.state = Path(h, i).state
    BY <2>1, <2>2, SignalTold
  <2> QED
    BY <2>2, <2>3 DEF Fresh
<1>21. ASSUME NEW q \in Queries, NEW i \in Instances, LookAbsent(q, i) PROVE Fresh'
  <2>1. PICK g \in Generations :
          /\ \A h \in Generations, j \in Instances : h # g \/ j # i => Path(h, j)' = Path(h, j)
          /\ Begins(g, i)
    BY <1>21, AbsentLooked
  <2>2. UNCHANGED history
    BY <1>21 DEF LookAbsent
  <2> QED
    BY <2>1, <2>2 DEF Fresh, Begins
<1>22. ASSUME NEW q \in Queries, NEW i \in Instances, LookUnresolved(q, i) PROVE Fresh'
  <2>1. PICK g \in Generations :
          \A h \in Generations, j \in Instances : h # g \/ j # i => Path(h, j)' = Path(h, j)
    BY <1>22, UnresolvedLooked
  <2>2. history'.doubled = history.doubled \cup {i}
    BY <1>22, HistoryOfLookUnresolved
  <2> QED
    BY <2>1, <2>2 DEF Fresh
<1> QED
  BY StepOfNext, <1>2, <1>3, <1>4, <1>5, <1>6, <1>7, <1>8, <1>9, <1>10, <1>11,
    <1>12, <1>13, <1>14, <1>15, <1>16, <1>17, <1>18, <1>19, <1>20, <1>21,
    <1>22 DEF Step

(* A call about another path changes nothing.                              *)
LEMMA SingleBeside ==
  ASSUME TypeOK, NEW g, NEW i, Single(g, i), NEW h \in Generations, NEW j \in Instances, h # g \/ j # i,
         requests' \in Seq(Request),
         Grows(requests, requests', {PathRequest(j, h)}, {PathRequest(j, h)}),
         NEW e \in {0, 1}, FewerAnswers(e), Path(g, i)' = Path(g, i)
  PROVE  Single(g, i)'
<1>1. ~Asks(PathRequest(j, h), g, i)
  BY DEF Asks, PathRequest
<1>2. \A k \in DOMAIN requests' : Asks(requests'[k], g, i) =>
        k \in DOMAIN requests /\ Asks(requests[k], g, i)
  BY <1>1 DEF Grows
<1>3. \A k \in DOMAIN inbox' : Answers(inbox'[k], g, i) =>
        k \in Nat /\ k + e \in DOMAIN inbox /\ Answers(inbox[k + e], g, i)
  BY DEF FewerAnswers, Answers
<1>4. \A k \in DOMAIN requests' : Asks(requests'[k], g, i) =>
        /\ Path(g, i)'.state = "RESOLVING"
        /\ \A o \in DOMAIN requests' : Asks(requests'[o], g, i) => o = k
        /\ \A o \in DOMAIN inbox' : ~Answers(inbox'[o], g, i)
  BY <1>2, <1>3 DEF Single
<1>5. ASSUME NEW k \in DOMAIN inbox', Answers(inbox'[k], g, i)
      PROVE  /\ Path(g, i)'.state = "RESOLVING"
             /\ \A o \in DOMAIN inbox' : Answers(inbox'[o], g, i) => o = k
  <2>1. k \in Nat /\ k + e \in DOMAIN inbox /\ Answers(inbox[k + e], g, i)
    BY <1>3, <1>5
  <2>2. /\ Path(g, i).state = "RESOLVING"
        /\ \A o \in DOMAIN inbox : Answers(inbox[o], g, i) => o = k + e
    BY <2>1 DEF Single
  <2>3. \A o \in DOMAIN inbox' : Answers(inbox'[o], g, i) => o \in Nat /\ o + e = k + e
    BY <1>3, <2>2
  <2> QED
    BY <2>1, <2>2, <2>3
<1> QED
  BY <1>4, <1>5 DEF Single

(* There is at most one answer.                                            *)
LEMMA OneAnswerStays ==
  ASSUME TypeOK, Addressed, OneAnswer, [Next]_vars
  PROVE  OneAnswer'
<1>1. ASSUME UNCHANGED <<requests, inbox, reg.paths, history.doubled, history.dropped>>
      PROVE  OneAnswer'
  BY <1>1 DEF OneAnswer, Single, Path, Clear
<1>2. CASE UNCHANGED vars
  BY <1>1, <1>2 DEF vars, bus
<1>3. CASE InstallRemoved
  BY <1>1, <1>3 DEF InstallRemoved, bus
<1>4. ASSUME NEW l \in Listeners, AddFirst(l) PROVE OneAnswer'
  BY <1>1, <1>4, HistoryOfAddFirst DEF AddFirst, bus
<1>5. ASSUME NEW l \in Listeners, AddAnother(l) PROVE OneAnswer'
  BY <1>1, <1>5, HistoryOfAddAnother DEF AddAnother, bus
<1>6. ASSUME NEW l \in Listeners, Leave(l) PROVE OneAnswer'
  BY <1>1, <1>6, HistoryOfLeave DEF Leave, bus
<1>7. ASSUME NEW q \in Queries, Read(q) PROVE OneAnswer'
  BY <1>1, <1>7 DEF Read, bus
<1>8. ASSUME NEW q \in Queries, NEW i \in Instances, LookUnknown(q, i) PROVE OneAnswer'
  BY <1>1, <1>8 DEF LookUnknown, bus
<1>9. ASSUME NEW q \in Queries, NEW i \in Instances, LookTwice(q, i) PROVE OneAnswer'
  BY <1>1, <1>9 DEF LookTwice, Continue, bus
<1>10. ASSUME NEW q \in Queries, NEW i \in Instances, LookResolved(q, i) PROVE OneAnswer'
  BY <1>1, <1>10 DEF LookResolved, Continue, bus
<1>11. CASE Start
  <2> DEFINE N == {About("owned", service.gen + 1, n) : n \in service'.names}
  <2>1. UNCHANGED <<requests, reg>> /\ Sends(N, {})
    BY <1>11, StartSends DEF Start
  <2>2. Clear' = Clear
    BY <1>11, HistoryOfStart DEF Clear
  <2>3. \A m \in N : m.kind # "path"
    BY DEF About
  <2> HIDE DEF N
  <2>4. FewerAnswers(0)
    BY <2>1, <2>3, AnswersSent
  <2> QED
    BY <2>1, <2>2, <2>4, SameCalls, OneAnswerKept DEF Path
<1>12. CASE Die
  <2> DEFINE N == {About("lost", service.gen, n) : n \in service.names}
  <2>1. UNCHANGED <<requests, reg>> /\ Sends(N, N)
    BY <1>12, DieSends DEF Die
  <2>2. Clear' = Clear
    BY <1>12, HistoryOfDie DEF Clear
  <2>3. \A m \in N : m.kind # "path"
    BY DEF About
  <2> HIDE DEF N
  <2>4. FewerAnswers(0)
    BY <2>1, <2>3, AnswersSent
  <2> QED
    BY <2>1, <2>2, <2>4, SameCalls, OneAnswerKept DEF Path
<1>13. ASSUME NEW i \in Instances, Acquire(i) PROVE OneAnswer'
  <2> DEFINE m == About("owned", service.gen, i)
  <2>1. UNCHANGED <<requests, reg>>
    BY <1>13 DEF Acquire, SignalKinds
  <2>2. \E M : Sends({m}, M)
    BY <1>13, <2>1, AcquireSends
  <2>3. Clear' = Clear
    BY <1>13, HistoryOfAcquire DEF Clear
  <2>4. m.kind = "owned"
    BY DEF About
  <2> HIDE DEF m
  <2>5. FewerAnswers(0)
    BY <2>2, <2>4, AnswersSent
  <2> QED
    BY <2>1, <2>3, <2>5, SameCalls, OneAnswerKept DEF Path
<1>14. ASSUME NEW i \in Instances, Release(i) PROVE OneAnswer'
  <2> DEFINE m == About("lost", service.gen, i)
  <2>1. UNCHANGED <<requests, reg>>
    BY <1>14 DEF Release, SignalKinds
  <2>2. \E M : Sends({m}, M)
    BY <1>14, <2>1, ReleaseSends
  <2>3. Clear' = Clear
    BY <1>14, HistoryOfRelease DEF Clear
  <2>4. m.kind = "lost"
    BY DEF About
  <2> HIDE DEF m
  <2>5. FewerAnswers(0)
    BY <2>2, <2>4, AnswersSent
  <2> QED
    BY <2>1, <2>3, <2>5, SameCalls, OneAnswerKept DEF Path
<1>15. ASSUME NEW i \in Instances, Export(i) PROVE OneAnswer'
  <2> DEFINE m == About("added", service.gen, i)
  <2>1. UNCHANGED <<requests, reg>> /\ Signal("added", i) /\ "added" \in SignalKinds
    BY <1>15 DEF Export, SignalKinds
  <2>2. \E M : Sends({m}, M)
    BY <1>15, <2>1, SignalSends
  <2>3. Clear' = Clear
    BY <1>15, HistoryOfExport DEF Clear
  <2>4. m.kind = "added"
    BY DEF About
  <2> HIDE DEF m
  <2>5. FewerAnswers(0)
    BY <2>2, <2>4, AnswersSent
  <2> QED
    BY <2>1, <2>3, <2>5, SameCalls, OneAnswerKept DEF Path
<1>16. ASSUME NEW i \in Instances, Unexport(i) PROVE OneAnswer'
  <2> DEFINE m == About("removed", service.gen, i)
  <2>1. UNCHANGED <<requests, reg>> /\ Signal("removed", i) /\ "removed" \in SignalKinds
    BY <1>16 DEF Unexport, SignalKinds
  <2>2. \E M : Sends({m}, M)
    BY <1>16, <2>1, SignalSends
  <2>3. Clear' = Clear
    BY <1>16, HistoryOfUnexport DEF Clear
  <2>4. m.kind = "removed"
    BY DEF About
  <2> HIDE DEF m
  <2>5. FewerAnswers(0)
    BY <2>2, <2>4, AnswersSent
  <2> QED
    BY <2>1, <2>3, <2>5, SameCalls, OneAnswerKept DEF Path
<1>17. CASE AnswerNext
  <2> DEFINE r == Head(requests)
  <2>1. UNCHANGED <<service, reg, history>> /\ r \in Request /\ Shrinks(requests, requests')
        /\ requests' \in Seq(Request)
    BY <1>17, AnswerSends DEF AnswerNext
  <2>2. r.kind \in {"owner", "path", "list"}
    BY <2>1 DEF Request
  <2>3. FewerCalls(1)
    BY <2>1, CallsGone
  <2>4. CASE r.kind = "owner"
    <3> DEFINE m == About("owned", service.gen, r.name)
    <3>1. Sends({m}, {})
      BY <1>17, <2>4, AnswerSends
    <3>2. m.kind = "owned"
      BY DEF About
    <3> HIDE DEF m
    <3>3. FewerAnswers(0)
      BY <3>1, <3>2, AnswersSent
    <3> QED
      BY <2>1, <2>3, <3>3, OneAnswerKept DEF Path, Clear
  <2>5. CASE r.kind = "list"
    <3> DEFINE m == Answer("list", 0, Manager, service.managed)
    <3>1. Sends({m}, {m})
      BY <1>17, <2>5, AnswerSends
    <3>2. m.kind = "list"
      BY DEF Answer
    <3> HIDE DEF m
    <3>3. FewerAnswers(0)
      BY <3>1, <3>2, AnswersSent
    <3> QED
      BY <2>1, <2>3, <3>3, OneAnswerKept DEF Path, Clear
  <2>6. CASE r.kind = "path"
    <3> DEFINE m == Answer("path", r.gen, r.name, Truth(r))
    <3>1. Sends({m}, {m})
      BY <1>17, <2>6, AnswerSends
    <3>2. inbox' = Append(inbox, m) /\ m.kind = "path" /\ m.gen = r.gen /\ m.names = {r.name}
      BY <1>17, <2>6 DEF AnswerNext, Truth, Answer
    <3> HIDE DEF m
    <3>3. inbox \in Seq(Message) /\ m \in Message
      <4>1. PICK k \in DOMAIN inbox' : inbox'[k] = m
        BY <3>1 DEF Sends, Grows
      <4>2. inbox' \in Seq(Message)
        BY <3>1 DEF Sends
      <4> QED
        BY <4>1, <4>2, Typed
    <3>4. \A j, k \in DOMAIN inbox' : j \notin DOMAIN inbox /\ k \notin DOMAIN inbox => j = k
      BY <3>2, <3>3, OnePlace
    <3>5. /\ \A k \in DOMAIN inbox : k \in DOMAIN inbox' /\ inbox'[k] = inbox[k]
          /\ \A k \in DOMAIN inbox' \ DOMAIN inbox : inbox'[k] = m
          /\ DOMAIN inbox' \subseteq Nat
      BY <3>1 DEF Sends, Grows
    <3>6. ASSUME NEW g \in Generations, NEW i \in Clear PROVE Single(g, i)'
      <4>1. Single(g, i)
        BY <3>6 DEF OneAnswer
      <4>2. CASE r.gen = g /\ r.name = i
        <5>1. 1 \in DOMAIN requests /\ Asks(requests[1], g, i)
          BY <2>1, <2>6, <4>2 DEF Shrinks, Asks
        <5>2. /\ Path(g, i).state = "RESOLVING"
              /\ \A j \in DOMAIN requests : Asks(requests[j], g, i) => j = 1
              /\ \A j \in DOMAIN inbox : ~Answers(inbox[j], g, i)
          BY <4>1, <5>1 DEF Single
        <5>3. Path(g, i)'.state = "RESOLVING"
          BY <2>1, <5>2 DEF Path
        <5>4. \A j \in DOMAIN requests' : ~Asks(requests'[j], g, i)
          <6>1. DOMAIN requests' \subseteq Nat \ {0}
            BY <2>1
          <6> QED
            BY <2>1, <5>2, <6>1 DEF Shrinks
        <5>5. \A j \in DOMAIN inbox' : Answers(inbox'[j], g, i) => j \notin DOMAIN inbox
          BY <3>5, <5>2
        <5> QED
          BY <3>4, <5>3, <5>4, <5>5 DEF Single
      <4>3. CASE ~(r.gen = g /\ r.name = i)
        <5>1. ~Answers(m, g, i)
          BY <3>2, <4>3 DEF Answers
        <5>2. \A k \in DOMAIN inbox' : Answers(inbox'[k], g, i) =>
                k \in DOMAIN inbox /\ Answers(inbox[k], g, i)
          BY <3>5, <5>1
        <5>3. \A k \in DOMAIN requests' : Asks(requests'[k], g, i) =>
                k \in Nat /\ k + 1 \in DOMAIN requests /\ Asks(requests[k + 1], g, i)
          BY <2>3 DEF FewerCalls, Asks
        <5>4. Path(g, i)'.state = Path(g, i).state
          BY <2>1 DEF Path
        <5>5. ASSUME NEW k \in DOMAIN requests', Asks(requests'[k], g, i)
              PROVE  /\ Path(g, i)'.state = "RESOLVING"
                     /\ \A j \in DOMAIN requests' : Asks(requests'[j], g, i) => j = k
                     /\ \A j \in DOMAIN inbox' : ~Answers(inbox'[j], g, i)
          <6>1. k + 1 \in DOMAIN requests /\ Asks(requests[k + 1], g, i)
            BY <5>3, <5>5
          <6>2. /\ Path(g, i).state = "RESOLVING"
                /\ \A j \in DOMAIN requests : Asks(requests[j], g, i) => j = k + 1
                /\ \A j \in DOMAIN inbox : ~Answers(inbox[j], g, i)
            BY <4>1, <6>1 DEF Single
          <6> QED
            BY <5>2, <5>3, <5>4, <5>5, <6>2
        <5>6. \A k \in DOMAIN inbox' : Answers(inbox'[k], g, i) =>
                /\ Path(g, i)'.state = "RESOLVING"
                /\ \A j \in DOMAIN inbox' : Answers(inbox'[j], g, i) => j = k
          BY <4>1, <5>2, <5>4 DEF Single
        <5> QED
          BY <5>5, <5>6 DEF Single
      <4> QED
        BY <4>2, <4>3
    <3> QED
      BY <2>1, <3>6 DEF OneAnswer, Clear
  <2> QED
    BY <2>2, <2>4, <2>5, <2>6
<1>18. CASE GiveUp
  <2> DEFINE m == Answer("list", 0, Manager, {})
  <2>1. /\ UNCHANGED reg /\ Sends({m}, {m}) /\ Shrinks(requests, requests')
        /\ requests' \in Seq(Request)
    BY <1>18, GiveUpSends DEF GiveUp
  <2>2. m.kind = "list" /\ Clear' = Clear
    BY <1>18, HistoryOfGiveUp DEF Answer, Clear
  <2> HIDE DEF m
  <2>3. FewerCalls(1) /\ FewerAnswers(0)
    BY <2>1, <2>2, CallsGone, AnswersSent
  <2> QED
    BY <2>1, <2>2, <2>3, OneAnswerKept DEF Path
<1>19. CASE DispatchToRegistry
  <2>1. PICK g \in Generations, n \in Names :
          /\ g = Head(inbox).gen /\ Head(inbox).names = {n}
          /\ \/ Head(inbox).kind = "owned" /\ OnNameOwned(g, n)
             \/ Head(inbox).kind = "lost" /\ OnNameLost(g, n)
             \/ Head(inbox).kind = "path" /\ n \in Instances /\ Head(inbox).found \in SUBSET Instances
                  /\ OnPathAnswered(g, n, Head(inbox).found)
    BY <1>19, DispatchedToRegistry
  <2> DEFINE m == Head(inbox)
  <2>2. Takes1 /\ FewerAnswers(1)
    BY <1>19, DispatchedToRegistry, AnswersTaken
  <2>3. CASE OnNameOwned(g, n)
    <3>1. /\ UNCHANGED history
          /\ \A h \in Generations, i \in Instances :
               Path(h, i)' = Path(h, i) \/ (h = g /\ i = n /\ Begins(g, n))
          /\ \/ UNCHANGED requests /\ \A h \in Generations, i \in Instances : Path(h, i)' = Path(h, i)
             \/ n \in Instances /\ Begins(g, n)
      BY <2>3, NameOwned
    <3>2. CASE UNCHANGED requests /\ \A h \in Generations, i \in Instances : Path(h, i)' = Path(h, i)
      BY <2>2, <3>1, <3>2, SameCalls, OneAnswerKept DEF Clear
    <3>3. CASE n \in Instances /\ Begins(g, n)
      <4>1. ASSUME NEW h \in Generations, NEW i \in Clear PROVE Single(h, i)'
        <5>1. Single(h, i) /\ i \in Instances
          BY <4>1 DEF OneAnswer, Clear
        <5>2. CASE h = g /\ i = n
          BY <2>2, <3>3, <5>1, <5>2, SingleBegins
        <5>3. CASE ~(h = g /\ i = n)
          BY <2>2, <3>1, <3>3, <5>1, <5>3, SingleBeside DEF Begins
        <5> QED
          BY <5>2, <5>3
      <4> QED
        BY <3>1, <4>1 DEF OneAnswer, Clear
    <3> QED
      BY <3>1, <3>2, <3>3
  <2>4. CASE OnNameLost(g, n)
    <3>1. /\ UNCHANGED requests /\ history.dropped \subseteq history'.dropped
          /\ \A h \in Generations, i \in Instances :
               \/ Path(h, i)' = Path(h, i)
               \/ Path(h, i)' = Absent /\ (Path(h, i).state = "RESOLVING" => i \in history'.dropped)
      BY <2>4, NameLost
    <3>2. history'.doubled = history.doubled
      BY <1>19, HistoryOfDispatchToRegistry
    <3> QED
      BY <2>2, <3>1, <3>2, SameCalls, OneAnswerKept DEF Clear
  <2>5. CASE /\ m.kind = "path" /\ n \in Instances /\ m.found \in SUBSET Instances
             /\ OnPathAnswered(g, n, m.found)
    <3>1. /\ UNCHANGED <<requests, history>>
          /\ \A h \in Generations, i \in Instances : h # g \/ i # n => Path(h, i)' = Path(h, i)
      BY <2>5, PathAnswered
    <3>2. FewerCalls(0)
      BY <3>1, SameCalls
    <3>3. ASSUME NEW h \in Generations, NEW i \in Clear PROVE Single(h, i)'
      <4>1. Single(h, i) /\ i \in Instances
        BY <3>3 DEF OneAnswer, Clear
      <4>2. CASE h = g /\ i = n
        <5>1. 1 \in DOMAIN inbox /\ Answers(inbox[1], g, n)
          BY <1>19, <2>1, <2>5, DispatchedToRegistry DEF Answers
        <5>2. \A j \in DOMAIN inbox : Answers(inbox[j], g, n) => j = 1
          BY <4>1, <4>2, <5>1 DEF Single
        <5>3. \A k \in DOMAIN requests' : ~Asks(requests'[k], g, n)
          BY <3>1, <4>1, <4>2, <5>1 DEF Single
        <5>4. DOMAIN inbox' \subseteq Nat \ {0}
          BY <2>2 DEF Takes1
        <5>5. \A k \in DOMAIN inbox' : ~Answers(inbox'[k], g, n)
          BY <2>2, <5>2, <5>4 DEF FewerAnswers, Answers
        <5> QED
          BY <2>2, <3>2, <4>1, <4>2, <5>3, <5>5, SingleKept
      <4>3. CASE ~(h = g /\ i = n)
        BY <2>2, <3>1, <3>2, <4>1, <4>3, SingleKept
      <4> QED
        BY <4>2, <4>3
    <3> QED
      BY <3>1, <3>3 DEF OneAnswer, Clear
  <2> QED
    BY <2>1, <2>3, <2>4, <2>5
<1>20. CASE DispatchSignalFirst
  <2>1. PICK g \in Generations, n \in Instances :
          g = Head(inbox).gen /\ RegistryTold(Head(inbox).kind, g, n)
    BY <1>20, SignalFirst
  <2>2. Head(inbox).kind \in SignalKinds /\ UNCHANGED <<bus, history>>
    BY <1>20, SignalFirst
  <2>3. \A h \in Generations, i \in Instances : Path(h, i)'.state = Path(h, i).state
    BY <2>1, <2>2, SignalTold
  <2> QED
    BY <2>2, <2>3, SameCalls, SameAnswers, OneAnswerKept DEF bus, Clear
<1>21. CASE DispatchSignalSecond
  <2>1. Takes1 /\ UNCHANGED <<requests, reg>>
    BY <1>21, SignalSecond
  <2>2. Clear' = Clear
    BY <1>21, HistoryOfDispatchSignalSecond DEF Clear
  <2> QED
    BY <2>1, <2>2, SameCalls, AnswersTaken, OneAnswerKept DEF Path
<1>22. CASE DispatchList
  <2>1. Takes1 /\ UNCHANGED <<requests, reg, history>>
    BY <1>22, ListDispatched
  <2> QED
    BY <2>1, SameCalls, AnswersTaken, OneAnswerKept DEF Path, Clear
<1>23. CASE AskForInstances
  <2>1. UNCHANGED <<inbox, reg, history>> /\ requests' = Append(requests, ListRequest)
    BY <1>23 DEF AskForInstances
  <2>2. ListRequest \in Request /\ ListRequest.kind = "list"
    BY DEF ListRequest, Request
  <2>3. requests' \in Seq(Request) /\ Grows(requests, requests', {ListRequest}, {ListRequest})
    BY <2>1, <2>2, Appending, Typed
  <2>4. FewerCalls(0)
    <3>1. DOMAIN requests' \subseteq Nat
      BY <2>3
    <3> QED
      BY <2>2, <2>3, <3>1 DEF FewerCalls, Grows
  <2> QED
    BY <2>1, <2>4, SameAnswers, OneAnswerKept DEF Path, Clear
<1>24. ASSUME NEW q \in Queries, NEW i \in Instances, LookAbsent(q, i) PROVE OneAnswer'
  <2>1. PICK g \in Generations :
          /\ \A h \in Generations, j \in Instances : h # g \/ j # i => Path(h, j)' = Path(h, j)
          /\ Begins(g, i)
    BY <1>24, AbsentLooked
  <2>2. UNCHANGED <<inbox, history>>
    BY <1>24 DEF LookAbsent
  <2>3. FewerAnswers(0)
    BY <2>2, SameAnswers
  <2>4. ASSUME NEW h \in Generations, NEW j \in Clear PROVE Single(h, j)'
    <3>1. Single(h, j) /\ j \in Instances
      BY <2>4 DEF OneAnswer, Clear
    <3>2. CASE h = g /\ j = i
      BY <2>1, <2>3, <3>1, <3>2, SingleBegins
    <3>3. CASE ~(h = g /\ j = i)
      BY <2>1, <2>3, <3>1, <3>3, SingleBeside DEF Begins
    <3> QED
      BY <3>2, <3>3
  <2> QED
    BY <2>2, <2>4 DEF OneAnswer, Clear
<1>25. ASSUME NEW q \in Queries, NEW i \in Instances, LookUnresolved(q, i) PROVE OneAnswer'
  <2>1. PICK g \in Generations :
          /\ \A h \in Generations, j \in Instances : h # g \/ j # i => Path(h, j)' = Path(h, j)
          /\ Grows(requests, requests', {PathRequest(i, g)}, {PathRequest(i, g)})
          /\ requests' \in Seq(Request)
    BY <1>25, UnresolvedLooked
  <2>2. UNCHANGED inbox /\ Clear' = Clear \ {i}
    BY <1>25, HistoryOfLookUnresolved DEF LookUnresolved, Clear
  <2>3. FewerAnswers(0)
    BY <2>2, SameAnswers
  <2>4. ASSUME NEW h \in Generations, NEW j \in Clear \ {i} PROVE Single(h, j)'
    <3>1. Single(h, j) /\ j \in Instances
      BY <2>4 DEF OneAnswer, Clear
    <3> QED
      BY <2>1, <2>3, <2>4, <3>1, SingleBeside
  <2> QED
    BY <2>2, <2>4 DEF OneAnswer
<1> QED
  BY StepOfNext, <1>2, <1>3, <1>4, <1>5, <1>6, <1>7, <1>8, <1>9, <1>10, <1>11,
    <1>12, <1>13, <1>14, <1>15, <1>16, <1>17, <1>18, <1>19, <1>20, <1>21,
    <1>22, <1>23, <1>24, <1>25 DEF Step

-----------------------------------------------------------------------------
(* The last word.                                                          *)

(* What is sent is true, or is not about the instance.                     *)
LEMMA WordSent ==
  ASSUME TypeOK, LastWordTrue, NEW m, NEW M, Sends({m}, M), UNCHANGED reg, Clear' = Clear,
         service'.up => service.up, service'.gen = service.gen,
         service.gen \in reg.watched => \A i \in Instances :
           /\ Tells(m, service.gen, i) => m \in M /\ (Says(m, i) <=> i \in service'.managed)
           /\ ~Tells(m, service.gen, i) => (i \in service'.managed <=> i \in service.managed)
  PROVE  LastWordTrue'
<1>1. /\ \A k \in DOMAIN inbox : k \in DOMAIN inbox' /\ inbox'[k] = inbox[k]
      /\ \A k \in DOMAIN inbox' \ DOMAIN inbox : inbox'[k] = m /\ \A j \in DOMAIN inbox : j < k
      /\ \A o \in M : \E k \in DOMAIN inbox' \ DOMAIN inbox : inbox'[k] = o
      /\ DOMAIN inbox \subseteq Nat /\ DOMAIN inbox' \subseteq Nat
  BY Typed DEF Sends, Grows
<1>2. ASSUME NEW g \in reg.watched, service.up, g = service.gen, NEW i \in Clear
      PROVE  WordTrue(g, i)'
  <2>1. WordTrue(g, i) /\ i \in Instances
    BY <1>2 DEF LastWordTrue, Clear
  <2>2. Path(g, i)' = Path(g, i)
    BY DEF Path
  <2>3. CASE Tells(m, g, i)
    <3>1. PICK k \in DOMAIN inbox' \ DOMAIN inbox : inbox'[k] = m
      BY <1>1, <1>2, <2>1, <2>3
    <3>2. ASSUME NEW j \in DOMAIN inbox', LastWord(j, g, i)'
          PROVE  Says(inbox'[j], i) <=> i \in service'.managed
      <4>1. j \notin DOMAIN inbox
        <5>1. CASE j \in DOMAIN inbox
          <6>1. j < k /\ Tells(inbox'[k], g, i) /\ j \in Nat /\ k \in Nat
            BY <1>1, <2>3, <3>1, <5>1
          <6> QED
            BY <3>1, <3>2, <6>1 DEF LastWord
        <5> QED
          BY <5>1
      <4> QED
        BY <1>1, <1>2, <2>1, <2>3, <4>1
    <3> QED
      BY <2>3, <3>1, <3>2 DEF WordTrue
  <2>4. CASE ~Tells(m, g, i)
    <3>1. \A k \in DOMAIN inbox' : Tells(inbox'[k], g, i) => k \in DOMAIN inbox /\ inbox'[k] = inbox[k]
      BY <1>1, <2>4
    <3>2. \A k \in DOMAIN inbox' : LastWord(k, g, i)' =>
            k \in DOMAIN inbox /\ inbox'[k] = inbox[k] /\ LastWord(k, g, i)
      BY <1>1, <3>1 DEF LastWord
    <3>3. \A k \in DOMAIN inbox' : Answers(inbox'[k], g, i) =>
            k \in DOMAIN inbox /\ Answers(inbox[k], g, i)
      BY <3>1 DEF Answers, Tells
    <3>4. (\A k \in DOMAIN inbox' : ~Tells(inbox'[k], g, i)) => \A k \in DOMAIN inbox : ~Tells(inbox[k], g, i)
      BY <1>1
    <3>5. i \in service'.managed <=> i \in service.managed
      BY <1>2, <2>1, <2>4
    <3> QED
      BY <2>1, <2>2, <3>2, <3>3, <3>4, <3>5 DEF WordTrue
  <2> QED
    BY <2>3, <2>4
<1> QED
  BY <1>2 DEF LastWordTrue

(* What is taken was heard, or is not about the instance.                  *)
LEMMA WordTaken ==
  ASSUME TypeOK, NEW g, NEW i, WordTrue(g, i), Takes1, UNCHANGED service,
         \/ /\ Path(g, i)' = Path(g, i)
            /\ Tells(Head(inbox), g, i) /\ Path(g, i).state = "RESOLVED"
                 => (Path(g, i).listed <=> Says(Head(inbox), i))
         \/ /\ Answers(Head(inbox), g, i)
            /\ Path(g, i)'.listed <=> Says(Head(inbox), i)
  PROVE  WordTrue(g, i)'
<1>1. DOMAIN inbox \subseteq Nat \ {0} /\ DOMAIN inbox' \subseteq Nat \ {0}
  BY Typed DEF Takes1
<1>2. /\ 1 \in DOMAIN inbox /\ inbox[1] = Head(inbox)
      /\ \A k \in DOMAIN inbox' : k + 1 \in DOMAIN inbox /\ inbox'[k] = inbox[k + 1]
      /\ \A k \in DOMAIN inbox : k > 1 => k - 1 \in DOMAIN inbox' /\ inbox'[k - 1] = inbox[k]
  BY DEF Takes1, Shrinks
<1>3. ASSUME NEW k \in DOMAIN inbox', LastWord(k, g, i)'
      PROVE  LastWord(k + 1, g, i) /\ inbox[k + 1] = inbox'[k]
  <2>1. ASSUME NEW j \in DOMAIN inbox, j > k + 1, Tells(inbox[j], g, i) PROVE FALSE
    <3>1. j - 1 \in DOMAIN inbox' /\ inbox'[j - 1] = inbox[j] /\ j - 1 > k
      BY <1>1, <1>2, <2>1
    <3> QED
      BY <1>3, <2>1, <3>1 DEF LastWord
  <2> QED
    BY <1>2, <1>3, <2>1 DEF LastWord
<1>4. ASSUME Tells(inbox[1], g, i), \A k \in DOMAIN inbox' : ~Tells(inbox'[k], g, i)
      PROVE  LastWord(1, g, i)
  BY <1>1, <1>2, <1>4 DEF LastWord
<1>5. ASSUME ~Tells(inbox[1], g, i), \A k \in DOMAIN inbox' : ~Tells(inbox'[k], g, i)
      PROVE  \A k \in DOMAIN inbox : ~Tells(inbox[k], g, i)
  BY <1>1, <1>2, <1>5
<1>6. \A k \in DOMAIN inbox' : Answers(inbox'[k], g, i) => Answers(inbox[k + 1], g, i)
  BY <1>2
<1>7. CASE /\ Path(g, i)' = Path(g, i)
           /\ Tells(inbox[1], g, i) /\ Path(g, i).state = "RESOLVED"
                => (Path(g, i).listed <=> Says(inbox[1], i))
  <2>1. \/ Path(g, i)'.state = "RESOLVED" \/ \E k \in DOMAIN inbox' : Answers(inbox'[k], g, i)
        => \A k \in DOMAIN inbox' : LastWord(k, g, i)' => (Says(inbox'[k], i) <=> i \in service'.managed)
    BY <1>2, <1>3, <1>6, <1>7 DEF WordTrue
  <2>2. Path(g, i)'.state = "RESOLVED" /\ (\A k \in DOMAIN inbox' : ~Tells(inbox'[k], g, i))
        => (Path(g, i)'.listed <=> i \in service'.managed)
    <3> SUFFICES ASSUME Path(g, i)'.state = "RESOLVED", \A k \in DOMAIN inbox' : ~Tells(inbox'[k], g, i)
                 PROVE  Path(g, i)'.listed <=> i \in service'.managed
      OBVIOUS
    <3>1. CASE Tells(inbox[1], g, i)
      BY <1>2, <1>4, <1>7, <3>1 DEF WordTrue
    <3>2. CASE ~Tells(inbox[1], g, i)
      BY <1>5, <1>7, <3>2 DEF WordTrue
    <3> QED
      BY <3>1, <3>2
  <2> QED
    BY <2>1, <2>2 DEF WordTrue
<1>8. CASE Answers(inbox[1], g, i) /\ (Path(g, i)'.listed <=> Says(inbox[1], i))
  <2>1. \A k \in DOMAIN inbox : LastWord(k, g, i) => (Says(inbox[k], i) <=> i \in service.managed)
    BY <1>2, <1>8 DEF WordTrue
  <2>2. Tells(inbox[1], g, i)
    BY <1>8 DEF Answers, Tells
  <2>3. \A k \in DOMAIN inbox' : LastWord(k, g, i)' => (Says(inbox'[k], i) <=> i \in service'.managed)
    BY <1>2, <1>3, <2>1
  <2>4. (\A k \in DOMAIN inbox' : ~Tells(inbox'[k], g, i)) => (Path(g, i)'.listed <=> i \in service'.managed)
    BY <1>2, <1>4, <1>8, <2>1, <2>2
  <2> QED
    BY <2>3, <2>4 DEF WordTrue
<1> QED
  BY <1>2, <1>7, <1>8

(* Nothing is said of a path that is not resolved and waits for nothing.   *)
LEMMA NothingSaid ==
  ASSUME NEW g, NEW i, Path(g, i)'.state # "RESOLVED",
         \A k \in DOMAIN inbox' : ~Answers(inbox'[k], g, i)
  PROVE  WordTrue(g, i)'
BY DEF WordTrue

(* A path that is not being resolved has no answer under way.              *)
LEMMA NoAnswer ==
  ASSUME NEW g, NEW i, Single(g, i), Path(g, i).state # "RESOLVING", NEW d, FewerAnswers(d)
  PROVE  \A k \in DOMAIN inbox' : ~Answers(inbox'[k], g, i)
BY DEF Single, FewerAnswers, Answers

(* The last word is true.                                                  *)
LEMMA LastWordStaysTrue ==
  ASSUME TypeOK, Addressed, InOrder, WatchedIsOwned, Fresh, OneAnswer,
    LastWordTrue, HeardFirst, [Next]_vars
  PROVE  LastWordTrue'
<1>1. ASSUME UNCHANGED <<service.up, service.gen, service.managed, inbox, reg.paths,
                         reg.watched, history.doubled, history.dropped>>
      PROVE  LastWordTrue'
  BY <1>1 DEF LastWordTrue, WordTrue, LastWord, Path, Clear
<1>2. CASE UNCHANGED vars
  BY <1>1, <1>2 DEF vars, bus
<1>3. CASE InstallRemoved \/ AskForInstances
  BY <1>1, <1>3 DEF InstallRemoved, AskForInstances, bus
<1>4. ASSUME NEW l \in Listeners, AddFirst(l) PROVE LastWordTrue'
  BY <1>1, <1>4, HistoryOfAddFirst DEF AddFirst, bus
<1>5. ASSUME NEW l \in Listeners, AddAnother(l) PROVE LastWordTrue'
  BY <1>1, <1>5, HistoryOfAddAnother DEF AddAnother, bus
<1>6. ASSUME NEW l \in Listeners, Leave(l) PROVE LastWordTrue'
  BY <1>1, <1>6, HistoryOfLeave DEF Leave, bus
<1>7. ASSUME NEW q \in Queries, Read(q) PROVE LastWordTrue'
  BY <1>1, <1>7 DEF Read, bus
<1>8. ASSUME NEW q \in Queries, NEW i \in Instances, LookUnknown(q, i) PROVE LastWordTrue'
  BY <1>1, <1>8 DEF LookUnknown, bus
<1>9. ASSUME NEW q \in Queries, NEW i \in Instances, LookTwice(q, i) PROVE LastWordTrue'
  BY <1>1, <1>9 DEF LookTwice, Continue, bus
<1>10. ASSUME NEW q \in Queries, NEW i \in Instances, LookResolved(q, i) PROVE LastWordTrue'
  BY <1>1, <1>10 DEF LookResolved, Continue, bus
<1>11. CASE Start
  <2>1. UNCHANGED reg /\ service'.gen = service.gen + 1 /\ service.gen \in Nat
    BY <1>11, ServiceOfStart, Typed DEF Start, ServiceTypes
  <2>2. ASSUME NEW g \in reg.watched PROVE g # service'.gen
    <3>1. g \in Generations /\ reg.owned[g] # {}
      BY <2>2, Typed DEF WatchedIsOwned, RegTypes
    <3>2. g <= service.gen /\ g \in Nat
      BY <3>1 DEF InOrder
    <3> QED
      BY <2>1, <3>2
  <2> QED
    BY <2>1, <2>2 DEF LastWordTrue
<1>12. CASE Die
  <2>1. ~service'.up
    BY <1>12, ServiceOfDie
  <2> QED
    BY <2>1 DEF LastWordTrue
<1>13. ASSUME NEW i \in Instances, Acquire(i) PROVE LastWordTrue'
  <2> DEFINE m == About("owned", service.gen, i)
  <2>1. UNCHANGED reg /\ Sends({m}, {m})
    BY <1>13, AcquireSends DEF Acquire
  <2>2. /\ service'.gen = service.gen /\ service'.up = service.up
        /\ service'.managed = service.managed /\ Clear' = Clear
    BY <1>13, ServiceOfAcquire, HistoryOfAcquire DEF Clear
  <2>3. \A j \in Instances : ~Tells(m, service.gen, j)
    BY DEF About, Tells, SignalKinds
  <2> HIDE DEF m
  <2> QED
    BY <2>1, <2>2, <2>3, WordSent
<1>14. ASSUME NEW i \in Instances, Release(i) PROVE LastWordTrue'
  <2> DEFINE m == About("lost", service.gen, i)
  <2>1. UNCHANGED reg /\ Sends({m}, {m})
    BY <1>14, ReleaseSends DEF Release
  <2>2. /\ service'.gen = service.gen /\ service'.up = service.up
        /\ service'.managed = service.managed /\ Clear' = Clear
    BY <1>14, ServiceOfRelease, HistoryOfRelease DEF Clear
  <2>3. \A j \in Instances : ~Tells(m, service.gen, j)
    BY DEF About, Tells, SignalKinds
  <2> HIDE DEF m
  <2> QED
    BY <2>1, <2>2, <2>3, WordSent
<1>15. ASSUME NEW i \in Instances, Export(i) PROVE LastWordTrue'
  <2> DEFINE m == About("added", service.gen, i)
             M == IF Signalled("added") THEN {m} ELSE {}
  <2>1. UNCHANGED reg /\ Signal("added", i) /\ "added" \in SignalKinds
    BY <1>15 DEF Export, SignalKinds
  <2>2. Sends({m}, M)
    BY <2>1, SignalSends
  <2>3. /\ service'.gen = service.gen /\ service'.up = service.up
        /\ service'.managed = service.managed \cup {i} /\ Clear' = Clear
    BY <1>15, ServiceOfExport, HistoryOfExport DEF Clear
  <2>4. service.gen \in reg.watched => m \in M
    BY DEF Signalled
  <2>5. /\ Tells(m, service.gen, i)
        /\ \A j \in Instances : j # i => ~Tells(m, service.gen, j)
    BY DEF About, Tells, SignalKinds
  <2>6. Says(m, i)
    BY DEF About, Says
  <2> HIDE DEF m, M
  <2>7. \A j \in Instances :
          /\ Tells(m, service.gen, j) => (Says(m, j) <=> j \in service'.managed)
          /\ ~Tells(m, service.gen, j) => (j \in service'.managed <=> j \in service.managed)
    BY <2>3, <2>5, <2>6
  <2> QED
    BY <2>1, <2>2, <2>3, <2>4, <2>7, WordSent
<1>16. ASSUME NEW i \in Instances, Unexport(i) PROVE LastWordTrue'
  <2> DEFINE m == About("removed", service.gen, i)
             M == IF Signalled("removed") THEN {m} ELSE {}
  <2>1. UNCHANGED reg /\ Signal("removed", i) /\ "removed" \in SignalKinds
    BY <1>16 DEF Unexport, SignalKinds
  <2>2. Sends({m}, M)
    BY <2>1, SignalSends
  <2>3. /\ service'.gen = service.gen /\ service'.up = service.up
        /\ service'.managed = service.managed \ {i} /\ Clear' = Clear
    BY <1>16, ServiceOfUnexport, HistoryOfUnexport DEF Clear
  <2>4. service.gen \in reg.watched => m \in M
    BY DEF Signalled
  <2>5. /\ Tells(m, service.gen, i)
        /\ \A j \in Instances : j # i => ~Tells(m, service.gen, j)
    BY DEF About, Tells, SignalKinds
  <2>6. ~Says(m, i)
    BY DEF About, Says
  <2> HIDE DEF m, M
  <2>7. \A j \in Instances :
          /\ Tells(m, service.gen, j) => (Says(m, j) <=> j \in service'.managed)
          /\ ~Tells(m, service.gen, j) => (j \in service'.managed <=> j \in service.managed)
    BY <2>3, <2>5, <2>6
  <2> QED
    BY <2>1, <2>2, <2>3, <2>4, <2>7, WordSent
<1>17. CASE AnswerNext
  <2> DEFINE r == Head(requests)
  <2>1. UNCHANGED <<service, reg, history>> /\ r.kind \in {"owner", "path", "list"}
    BY <1>17, AnswerSends DEF AnswerNext, Request
  <2>2. Clear' = Clear
    BY <2>1 DEF Clear
  <2>4. CASE r.kind = "owner"
    <3> DEFINE m == About("owned", service.gen, r.name)
    <3>1. Sends({m}, {})
      BY <1>17, <2>4, AnswerSends
    <3>2. m.kind = "owned"
      BY DEF About
    <3> HIDE DEF m
    <3> QED
      BY <2>1, <2>2, <3>1, <3>2, WordSent DEF Tells, SignalKinds
  <2>5. CASE r.kind = "path"
    <3> DEFINE m == Answer("path", r.gen, r.name, Truth(r))
    <3>1. Sends({m}, {m})
      BY <1>17, <2>5, AnswerSends
    <3>2. m.kind = "path" /\ m.gen = r.gen /\ m.names = {r.name} /\ m.found = Truth(r)
      BY DEF Answer
    <3> HIDE DEF m
    <3>3. CASE service.up
      <4>1. \A i \in Instances : Tells(m, service.gen, i) => (Says(m, i) <=> i \in service.managed)
        BY <3>2, <3>3 DEF Tells, Says, Truth
      <4> QED
        BY <2>1, <2>2, <3>1, <4>1, WordSent
    <3>4. CASE ~service.up
      BY <2>1, <3>4 DEF LastWordTrue
    <3> QED
      BY <3>3, <3>4
  <2>6. CASE r.kind = "list"
    <3> DEFINE m == Answer("list", 0, Manager, service.managed)
    <3>1. Sends({m}, {m})
      BY <1>17, <2>6, AnswerSends
    <3>2. m.kind = "list"
      BY DEF Answer
    <3> HIDE DEF m
    <3> QED
      BY <2>1, <2>2, <3>1, <3>2, WordSent DEF Tells, SignalKinds
  <2> QED
    BY <2>1, <2>4, <2>5, <2>6
<1>18. CASE GiveUp
  <2> DEFINE m == Answer("list", 0, Manager, {})
  <2>1. UNCHANGED <<service, reg>> /\ Sends({m}, {m})
    BY <1>18, GiveUpSends DEF GiveUp
  <2>2. m.kind = "list" /\ Clear' = Clear
    BY <1>18, HistoryOfGiveUp DEF Answer, Clear
  <2> HIDE DEF m
  <2> QED
    BY <2>1, <2>2, WordSent DEF Tells, SignalKinds
<1>19. CASE DispatchToRegistry
  <2>1. PICK g \in Generations, n \in Names :
          /\ g = Head(inbox).gen /\ Head(inbox).names = {n}
          /\ \/ Head(inbox).kind = "owned" /\ OnNameOwned(g, n)
             \/ Head(inbox).kind = "lost" /\ OnNameLost(g, n)
             \/ Head(inbox).kind = "path" /\ n \in Instances /\ Head(inbox).found \in SUBSET Instances
                  /\ OnPathAnswered(g, n, Head(inbox).found)
    BY <1>19, DispatchedToRegistry
  <2> DEFINE m == Head(inbox)
  <2>2. /\ Takes1 /\ FewerAnswers(1) /\ UNCHANGED service /\ 1 \in DOMAIN inbox /\ inbox[1] = m
        /\ m.kind \in {"owned", "lost", "path"}
    BY <1>19, <2>1, DispatchedToRegistry, AnswersTaken
  <2>3. Clear' \subseteq Clear
    BY <1>19, HistoryOfDispatchToRegistry DEF Clear
  <2>4. ASSUME NEW h \in reg'.watched, service'.up, h = service'.gen, NEW i \in Clear'
        PROVE  WordTrue(h, i)'
    <3>1. i \in Instances /\ i \in Clear /\ h \in Generations
      <4>1. reg' \in RegTypes
        BY <2>1, NameOwned, NameLost, PathAnswered
      <4> QED
        BY <2>3, <2>4, <4>1 DEF Clear, RegTypes
    <3>2. Single(h, i) /\ (h \in reg.watched => WordTrue(h, i))
      BY <2>2, <2>4, <3>1 DEF OneAnswer, LastWordTrue
    <3>3. CASE m.kind = "owned" /\ OnNameOwned(g, n)
      <4>1. /\ Path(h, i)' = Path(h, i) \/ (h = g /\ i = n /\ Begins(g, n))
            /\ h \in reg.watched \/ (h = g /\ Path(g, i).state = "absent")
        BY <2>4, <3>1, <3>3, NameOwned
      <4>2. ~Tells(m, h, i)
        BY <3>3 DEF Tells, SignalKinds
      <4>3. CASE h = g /\ i = n /\ Begins(g, n)
        BY <2>2, <3>2, <4>3, NoAnswer, NothingSaid DEF Begins
      <4>4. CASE Path(h, i)' = Path(h, i) /\ h \in reg.watched
        BY <2>2, <3>2, <4>2, <4>4, WordTaken
      <4>5. CASE Path(h, i)' = Path(h, i) /\ h = g /\ Path(g, i).state = "absent"
        BY <2>2, <3>2, <4>5, NoAnswer, NothingSaid
      <4> QED
        BY <4>1, <4>3, <4>4, <4>5
    <3>4. CASE m.kind = "lost" /\ OnNameLost(g, n)
      <4>1. /\ h \in reg.watched
            /\ \/ Path(h, i)' = Path(h, i)
               \/ Path(h, i)' = Absent /\ (Path(h, i).state = "RESOLVING" => i \in history'.dropped)
        BY <2>4, <3>1, <3>4, NameLost
      <4>2. ~Tells(m, h, i)
        BY <3>4 DEF Tells, SignalKinds
      <4>3. i \notin history'.dropped
        BY <2>4 DEF Clear
      <4>4. CASE Path(h, i)' = Path(h, i)
        BY <2>2, <3>2, <4>1, <4>2, <4>4, WordTaken
      <4>5. CASE Path(h, i)' = Absent /\ Path(h, i).state # "RESOLVING"
        BY <2>2, <3>2, <4>5, NoAnswer, NothingSaid DEF Absent
      <4> QED
        BY <4>1, <4>3, <4>4, <4>5
    <3>5. CASE /\ m.kind = "path" /\ n \in Instances /\ m.found \in SUBSET Instances
               /\ OnPathAnswered(g, n, m.found)
      <4>1. /\ h \in reg.watched /\ (h # g \/ i # n => Path(h, i)' = Path(h, i))
            /\ Path(g, n).state # "absent" =>
                 /\ Path(g, n)'.listed = (Path(g, n).listed \/ n \in m.found)
                 /\ Path(g, n).pending = 1 => Path(g, n)'.state = "RESOLVED"
        BY <2>4, <3>1, <3>5, PathAnswered
      <4>2. CASE h = g /\ i = n
        <5>1. Answers(m, g, n)
          BY <2>1, <3>5 DEF Answers
        <5>2. Path(g, n).state = "RESOLVING" /\ ~Path(g, n).listed
          BY <2>2, <3>1, <3>2, <4>2, <5>1 DEF Single, Fresh, Clear
        <5>3. Path(g, n)'.listed <=> Says(m, n)
          BY <3>5, <4>1, <5>2 DEF Says
        <5> QED
          BY <2>2, <3>2, <4>1, <4>2, <5>1, <5>3, WordTaken
      <4>3. CASE ~(h = g /\ i = n)
        <5>1. ~Tells(m, h, i)
          BY <2>1, <4>3 DEF Tells
        <5> QED
          BY <2>2, <3>2, <4>1, <4>3, <5>1, WordTaken
      <4> QED
        BY <4>2, <4>3
    <3> QED
      BY <2>1, <3>3, <3>4, <3>5
  <2> QED
    BY <2>4 DEF LastWordTrue
<1>20. CASE DispatchSignalFirst
  <2>1. PICK g \in Generations, n \in Instances :
          g = Head(inbox).gen /\ Head(inbox).names = {n} /\ RegistryTold(Head(inbox).kind, g, n)
    BY <1>20, SignalFirst
  <2>2. /\ Head(inbox).kind \in SignalKinds /\ UNCHANGED <<bus, history>>
        /\ 1 \in DOMAIN inbox /\ inbox[1] = Head(inbox)
    BY <1>20, SignalFirst
  <2>3. /\ reg'.watched = reg.watched
        /\ \A h \in Generations, i \in Instances : h # g \/ i # n => Path(h, i)' = Path(h, i)
        /\ Path(g, n)'.state = Path(g, n).state
    BY <2>1, <2>2, SignalTold
  <2>4. Tells(inbox[1], g, n)
    BY <2>1, <2>2 DEF Tells
  <2>5. UNCHANGED <<service, inbox>> /\ Clear' = Clear
    BY <2>2 DEF bus, Clear
  <2>6. ASSUME NEW h \in reg.watched, service.up, h = service.gen, NEW i \in Clear
        PROVE  WordTrue(h, i)'
    <3>1. WordTrue(h, i) /\ i \in Instances /\ h \in Generations
      BY <2>6, Typed DEF LastWordTrue, Clear, RegTypes
    <3>2. CASE h = g /\ i = n
      BY <2>2, <2>3, <2>4, <2>5, <3>1, <3>2 DEF WordTrue, LastWord
    <3>3. CASE ~(h = g /\ i = n)
      BY <2>3, <2>5, <3>1, <3>3 DEF WordTrue, LastWord
    <3> QED
      BY <3>2, <3>3
  <2> QED
    BY <2>3, <2>5, <2>6 DEF LastWordTrue
<1>21. CASE DispatchSignalSecond
  <2>1. /\ Takes1 /\ UNCHANGED <<service, reg>> /\ turn = "second"
        /\ Head(inbox).kind \in SignalKinds
    BY <1>21, SignalSecond
  <2>2. Clear' = Clear
    BY <1>21, HistoryOfDispatchSignalSecond DEF Clear
  <2>3. ASSUME NEW h \in reg.watched, service.up, h = service.gen, NEW i \in Clear
        PROVE  WordTrue(h, i)'
    <3>1. WordTrue(h, i) /\ Path(h, i)' = Path(h, i) /\ i \in Instances
      BY <2>1, <2>3 DEF LastWordTrue, Path, Clear
    <3>2. Tells(Head(inbox), h, i) /\ Path(h, i).state = "RESOLVED"
            => (Path(h, i).listed <=> Says(Head(inbox), i))
      BY <2>1, <2>3, <3>1 DEF HeardFirst, Says, SignalKinds
    <3> QED
      BY <2>1, <3>1, <3>2, WordTaken
  <2> QED
    BY <2>1, <2>2, <2>3 DEF LastWordTrue
<1>22. CASE DispatchList
  <2>1. Takes1 /\ UNCHANGED <<service, reg, history>> /\ Head(inbox).kind = "list"
    BY <1>22, ListDispatched
  <2>2. ASSUME NEW h \in reg.watched, service.up, h = service.gen, NEW i \in Clear
        PROVE  WordTrue(h, i)'
    <3>1. WordTrue(h, i) /\ Path(h, i)' = Path(h, i)
      BY <2>1, <2>2 DEF LastWordTrue, Path
    <3>2. ~Tells(Head(inbox), h, i)
      BY <2>1 DEF Tells, SignalKinds
    <3> QED
      BY <2>1, <3>1, <3>2, WordTaken
  <2> QED
    BY <2>1, <2>2 DEF LastWordTrue, Clear
<1>23. ASSUME NEW q \in Queries, NEW i \in Instances, LookAbsent(q, i) PROVE LastWordTrue'
  <2>1. PICK g \in Generations :
          /\ \A h \in Generations, j \in Instances : h # g \/ j # i => Path(h, j)' = Path(h, j)
          /\ Begins(g, i) /\ reg'.watched = reg.watched
    BY <1>23, AbsentLooked
  <2>2. UNCHANGED <<service, inbox, history>>
    BY <1>23 DEF LookAbsent
  <2>3. FewerAnswers(0)
    BY <2>2, SameAnswers
  <2>4. ASSUME NEW h \in reg.watched, service.up, h = service.gen, NEW j \in Clear
        PROVE  WordTrue(h, j)'
    <3>1. WordTrue(h, j) /\ Single(h, j) /\ j \in Instances /\ h \in Generations
      BY <2>4, Typed DEF LastWordTrue, OneAnswer, Clear, RegTypes
    <3>2. CASE h = g /\ j = i
      BY <2>1, <2>3, <3>1, <3>2, NoAnswer, NothingSaid DEF Begins
    <3>3. CASE ~(h = g /\ j = i)
      BY <2>1, <2>2, <3>1, <3>3 DEF WordTrue, LastWord
    <3> QED
      BY <3>2, <3>3
  <2> QED
    BY <2>1, <2>2, <2>4 DEF LastWordTrue, Clear
<1>24. ASSUME NEW q \in Queries, NEW i \in Instances, LookUnresolved(q, i) PROVE LastWordTrue'
  <2>1. PICK g \in Generations :
          /\ \A h \in Generations, j \in Instances : h # g \/ j # i => Path(h, j)' = Path(h, j)
          /\ reg'.watched = reg.watched
    BY <1>24, UnresolvedLooked
  <2>2. UNCHANGED <<service, inbox>> /\ Clear' = Clear \ {i}
    BY <1>24, HistoryOfLookUnresolved DEF LookUnresolved, Clear
  <2>3. ASSUME NEW h \in reg.watched, service.up, h = service.gen, NEW j \in Clear \ {i}
        PROVE  WordTrue(h, j)'
    <3>1. WordTrue(h, j) /\ j \in Instances /\ h \in Generations
      BY <2>3, Typed DEF LastWordTrue, Clear, RegTypes
    <3> QED
      BY <2>1, <2>2, <2>3, <3>1 DEF WordTrue, LastWord
  <2> QED
    BY <2>1, <2>2, <2>3 DEF LastWordTrue
<1> QED
  BY StepOfNext, <1>2, <1>3, <1>4, <1>5, <1>6, <1>7, <1>8, <1>9, <1>10, <1>11,
    <1>12, <1>13, <1>14, <1>15, <1>16, <1>17, <1>18, <1>19, <1>20, <1>21,
    <1>22, <1>23, <1>24 DEF Step

-----------------------------------------------------------------------------
(* What is heard first.                                                    *)

(* What is sent comes behind what is being heard.                          *)
LEMMA HeardKept ==
  ASSUME TypeOK, HeardFirst, UNCHANGED <<turn, reg>>, NEW N, NEW M, Sends(N, M)
  PROVE  HeardFirst'
<1>1. turn = "second" => inbox # <<>> /\ Head(inbox') = Head(inbox)
  BY SentKeepsHead DEF TypeOK
<1> QED
  BY <1>1 DEF HeardFirst, Path

(* Nothing is being heard while the registry or a list is served.          *)
LEMMA NothingHeard ==
  ASSUME TypeOK, UNCHANGED turn, Head(inbox).kind \notin SignalKinds
  PROVE  HeardFirst'
BY DEF TypeOK, HeardFirst, SignalKinds

(* The registry hears of a signal first.                                   *)
LEMMA HeardFirstStays ==
  ASSUME TypeOK, Addressed, HeardFirst, [Next]_vars
  PROVE  HeardFirst'
<1>1. ASSUME UNCHANGED <<turn, inbox, reg.watched, reg.paths>> PROVE HeardFirst'
  BY <1>1 DEF HeardFirst, Path
<1>2. CASE UNCHANGED vars
  BY <1>1, <1>2 DEF vars, bus
<1>3. CASE InstallRemoved \/ AskForInstances
  BY <1>1, <1>3 DEF InstallRemoved, AskForInstances, bus
<1>4. ASSUME NEW l \in Listeners, AddFirst(l) PROVE HeardFirst'
  BY <1>1, <1>4 DEF AddFirst, bus
<1>5. ASSUME NEW l \in Listeners, AddAnother(l) PROVE HeardFirst'
  BY <1>1, <1>5 DEF AddAnother, bus
<1>6. ASSUME NEW l \in Listeners, Leave(l) PROVE HeardFirst'
  BY <1>1, <1>6 DEF Leave, bus
<1>7. ASSUME NEW q \in Queries, Read(q) PROVE HeardFirst'
  BY <1>1, <1>7 DEF Read, bus
<1>8. ASSUME NEW q \in Queries, NEW i \in Instances, LookUnknown(q, i) PROVE HeardFirst'
  BY <1>1, <1>8 DEF LookUnknown, bus
<1>9. ASSUME NEW q \in Queries, NEW i \in Instances, LookTwice(q, i) PROVE HeardFirst'
  BY <1>1, <1>9 DEF LookTwice, Continue, bus
<1>10. ASSUME NEW q \in Queries, NEW i \in Instances, LookResolved(q, i) PROVE HeardFirst'
  BY <1>1, <1>10 DEF LookResolved, Continue, bus
<1>11. CASE Start
  <2>1. UNCHANGED <<turn, reg>>
    BY <1>11 DEF Start
  <2>2. \E N, M : Sends(N, M)
    BY <1>11, StartSends
  <2> QED
    BY <2>1, <2>2, HeardKept
<1>12. CASE Die
  <2>1. UNCHANGED <<turn, reg>>
    BY <1>12 DEF Die
  <2>2. \E N, M : Sends(N, M)
    BY <1>12, DieSends
  <2> QED
    BY <2>1, <2>2, HeardKept
<1>13. ASSUME NEW i \in Instances, Acquire(i) PROVE HeardFirst'
  <2>1. UNCHANGED <<turn, reg>>
    BY <1>13 DEF Acquire
  <2>2. \E N, M : Sends(N, M)
    BY <1>13, AcquireSends
  <2> QED
    BY <2>1, <2>2, HeardKept
<1>14. ASSUME NEW i \in Instances, Release(i) PROVE HeardFirst'
  <2>1. UNCHANGED <<turn, reg>>
    BY <1>14 DEF Release
  <2>2. \E N, M : Sends(N, M)
    BY <1>14, ReleaseSends
  <2> QED
    BY <2>1, <2>2, HeardKept
<1>15. ASSUME NEW i \in Instances, Export(i) PROVE HeardFirst'
  <2>1. UNCHANGED <<turn, reg>> /\ Signal("added", i) /\ "added" \in SignalKinds
    BY <1>15 DEF Export, SignalKinds
  <2>2. \E N, M : Sends(N, M)
    BY <2>1, SignalSends
  <2> QED
    BY <2>1, <2>2, HeardKept
<1>16. ASSUME NEW i \in Instances, Unexport(i) PROVE HeardFirst'
  <2>1. UNCHANGED <<turn, reg>> /\ Signal("removed", i) /\ "removed" \in SignalKinds
    BY <1>16 DEF Unexport, SignalKinds
  <2>2. \E N, M : Sends(N, M)
    BY <2>1, SignalSends
  <2> QED
    BY <2>1, <2>2, HeardKept
<1>17. CASE AnswerNext
  <2>1. UNCHANGED <<turn, reg>>
    BY <1>17 DEF AnswerNext
  <2>2. Head(requests).kind \in {"owner", "path", "list"}
    BY <1>17, AnswerSends DEF Request
  <2>3. \E N, M : Sends(N, M)
    BY <1>17, <2>2, AnswerSends
  <2> QED
    BY <2>1, <2>3, HeardKept
<1>18. CASE GiveUp
  <2>1. UNCHANGED <<turn, reg>>
    BY <1>18 DEF GiveUp
  <2>2. \E N, M : Sends(N, M)
    BY <1>18, GiveUpSends
  <2> QED
    BY <2>1, <2>2, HeardKept
<1>19. CASE DispatchToRegistry
  <2>1. UNCHANGED turn /\ Head(inbox).kind \in {"owned", "lost", "path"}
    BY <1>19, DispatchedToRegistry
  <2> QED
    BY <2>1, NothingHeard DEF SignalKinds
<1>20. CASE DispatchSignalFirst
  <2>1. PICK g \in Generations, n \in Instances :
          g = Head(inbox).gen /\ Head(inbox).names = {n} /\ RegistryTold(Head(inbox).kind, g, n)
    BY <1>20, SignalFirst
  <2>2. Head(inbox).kind \in SignalKinds /\ UNCHANGED inbox
    BY <1>20, SignalFirst DEF bus
  <2>3. /\ reg'.watched = reg.watched
        /\ Path(g, n)'.state = Path(g, n).state
        /\ g \in reg.watched /\ Path(g, n).state = "RESOLVED" =>
             Path(g, n)'.listed = (Head(inbox).kind = "added")
    BY <2>1, <2>2, SignalTold
  <2>4. \A h, i : Tells(Head(inbox), h, i) => h = g /\ i = n
    BY <2>1 DEF Tells
  <2> QED
    BY <2>2, <2>3, <2>4 DEF HeardFirst
<1>21. CASE DispatchSignalSecond
  <2>1. turn' = "first"
    BY <1>21, SignalSecond
  <2> QED
    BY <2>1 DEF HeardFirst
<1>22. CASE DispatchList
  <2>1. UNCHANGED turn /\ Head(inbox).kind = "list"
    BY <1>22, ListDispatched
  <2> QED
    BY <2>1, NothingHeard DEF SignalKinds
<1>23. ASSUME NEW q \in Queries, NEW i \in Instances, LookAbsent(q, i) PROVE HeardFirst'
  <2>1. PICK g \in Generations :
          /\ \A h \in Generations, j \in Instances : h # g \/ j # i => Path(h, j)' = Path(h, j)
          /\ Begins(g, i) /\ reg'.watched = reg.watched
    BY <1>23, AbsentLooked
  <2>2. UNCHANGED <<turn, inbox>> /\ reg.watched \subseteq Generations
    BY <1>23, Typed DEF LookAbsent, RegTypes
  <2> QED
    BY <2>1, <2>2 DEF HeardFirst, Begins
<1>24. ASSUME NEW q \in Queries, NEW i \in Instances, LookUnresolved(q, i) PROVE HeardFirst'
  <2>1. PICK g \in Generations :
          /\ \A h \in Generations, j \in Instances : h # g \/ j # i => Path(h, j)' = Path(h, j)
          /\ Path(g, i)'.state = "RESOLVING" /\ reg'.watched = reg.watched
    BY <1>24, UnresolvedLooked
  <2>2. UNCHANGED <<turn, inbox>> /\ reg.watched \subseteq Generations
    BY <1>24, Typed DEF LookUnresolved, RegTypes
  <2> QED
    BY <2>1, <2>2 DEF HeardFirst
<1> QED
  BY StepOfNext, <1>2, <1>3, <1>4, <1>5, <1>6, <1>7, <1>8, <1>9, <1>10, <1>11,
    <1>12, <1>13, <1>14, <1>15, <1>16, <1>17, <1>18, <1>19, <1>20, <1>21,
    <1>22, <1>23, <1>24 DEF Step

-----------------------------------------------------------------------------
(* What is gone.                                                           *)

(* While nothing more is gone, no more of it arrives, and no path lists it *)
(* that did not before.                                                    *)
LEMMA GoneSent ==
  ASSUME GoneForGood, NEW N, NEW M, Sends(N, M), UNCHANGED reg,
         history'.gone \subseteq history.gone, history'.doubled = history.doubled,
         \A i \in history'.gone : i \notin service'.managed,
         \A m \in N : \A i \in history'.gone : ~Brought(m, i)
  PROVE  GoneForGood'
<1>1. \A k \in DOMAIN inbox' : inbox'[k] \in N \/ (k \in DOMAIN inbox /\ inbox'[k] = inbox[k])
  BY DEF Sends, Grows
<1>2. \A i \in history'.gone : \A k \in DOMAIN inbox' : ~Brought(inbox'[k], i)
  BY <1>1 DEF GoneForGood
<1> QED
  BY <1>2 DEF GoneForGood, Path

(* The same when a message is taken.                                       *)
LEMMA GoneTaken ==
  ASSUME GoneForGood, Takes1, UNCHANGED service,
         history'.gone = history.gone, history'.doubled = history.doubled,
         \A g \in reg'.watched : \A i \in history.gone \ history.doubled :
           Path(g, i)'.state = "RESOLVED" => ~Path(g, i)'.listed
  PROVE  GoneForGood'
<1>1. \A k \in DOMAIN inbox' : k + 1 \in DOMAIN inbox /\ inbox'[k] = inbox[k + 1]
  BY DEF Takes1, Shrinks
<1>2. \A i \in history'.gone : \A k \in DOMAIN inbox' : ~Brought(inbox'[k], i)
  BY <1>1 DEF GoneForGood
<1> QED
  BY <1>2 DEF GoneForGood

(* The process that a signal at the head is about is the only one that the *)
(* registry knows, and can have watched.                                   *)
LEMMA OnlyTheCurrent ==
  ASSUME TypeOK, MessagesAddressed, OwnersFollow, InOrder, 1 \in DOMAIN inbox,
         inbox[1].kind \in SignalKinds, NEW g \in Generations, reg.owned[g] # {}
  PROVE  g = inbox[1].gen
<1>1. /\ g \in Nat /\ inbox[1].gen \in Nat /\ service.gen \in Nat
      /\ g <= inbox[1].gen /\ inbox[1].gen <= service.gen
  <2>1. inbox[1].gen \in Generations
    BY DEF MessagesAddressed, WellAddressed, SignalKinds
  <2> QED
    BY <2>1, Typed DEF InOrder, IsOrdered, ServiceTypes
<1>2. PICK n \in reg.owned[g] : TRUE
  OBVIOUS
<1>3. CASE Owning(g, n)
  BY <1>1, <1>3 DEF Owning
<1>4. CASE \E k \in DOMAIN inbox : Loses(inbox[k], g, n)
  <2>1. PICK k \in DOMAIN inbox : inbox[k].kind = "lost" /\ inbox[k].gen = g
    BY <1>4 DEF Loses
  <2>2. k \in Nat /\ k > 1
    <3>1. DOMAIN inbox \subseteq Nat \ {0}
      BY Typed
    <3>2. k # 1
      BY <2>1 DEF SignalKinds
    <3> QED
      BY <3>1, <3>2
  <2>3. inbox[1].gen <= inbox[k].gen
    BY <2>1, <2>2 DEF InOrder, IsOrdered, OwnerKinds
  <2> QED
    BY <1>1, <2>1, <2>3
<1> QED
  BY <1>2, <1>3, <1>4 DEF OwnersFollow

(* What is gone stays so.                                                  *)
LEMMA GoneStaysGone ==
  ASSUME TypeOK, Addressed, OwnersFollow, InOrder, WatchedIsOwned, Fresh,
    HeardFirst, GoneForGood, [Next]_vars
  PROVE  GoneForGood'
<1>1. ASSUME UNCHANGED <<service.managed, inbox, reg.watched, reg.paths, history.gone,
                         history.doubled>>
      PROVE  GoneForGood'
  BY <1>1 DEF GoneForGood, Path
<1>2. CASE UNCHANGED vars
  BY <1>1, <1>2 DEF vars, bus
<1>3. CASE InstallRemoved \/ AskForInstances
  BY <1>1, <1>3 DEF InstallRemoved, AskForInstances, bus
<1>4. ASSUME NEW l \in Listeners, AddFirst(l) PROVE GoneForGood'
  BY <1>1, <1>4, HistoryOfAddFirst DEF AddFirst, bus
<1>5. ASSUME NEW l \in Listeners, AddAnother(l) PROVE GoneForGood'
  BY <1>1, <1>5, HistoryOfAddAnother DEF AddAnother, bus
<1>6. ASSUME NEW l \in Listeners, Leave(l) PROVE GoneForGood'
  BY <1>1, <1>6, HistoryOfLeave DEF Leave, bus
<1>7. ASSUME NEW q \in Queries, Read(q) PROVE GoneForGood'
  BY <1>1, <1>7 DEF Read, bus
<1>8. ASSUME NEW q \in Queries, NEW i \in Instances, LookUnknown(q, i) PROVE GoneForGood'
  BY <1>1, <1>8 DEF LookUnknown, bus
<1>9. ASSUME NEW q \in Queries, NEW i \in Instances, LookTwice(q, i) PROVE GoneForGood'
  BY <1>1, <1>9 DEF LookTwice, Continue, bus
<1>10. ASSUME NEW q \in Queries, NEW i \in Instances, LookResolved(q, i) PROVE GoneForGood'
  BY <1>1, <1>10 DEF LookResolved, Continue, bus
<1>11. CASE Start
  <2> DEFINE N == {About("owned", service.gen + 1, n) : n \in service'.names}
  <2>1. UNCHANGED reg /\ Sends(N, {})
    BY <1>11, StartSends DEF Start
  <2>2. /\ service'.managed = {}
        /\ history'.gone = history.gone /\ history'.doubled = history.doubled
    BY <1>11, ServiceOfStart, HistoryOfStart
  <2>3. \A m \in N : \A j : ~Brought(m, j)
    BY DEF About, Brought
  <2> HIDE DEF N
  <2> QED
    BY <2>1, <2>2, <2>3, GoneSent
<1>12. CASE Die
  <2> DEFINE N == {About("lost", service.gen, n) : n \in service.names}
  <2>1. UNCHANGED reg /\ Sends(N, N)
    BY <1>12, DieSends DEF Die
  <2>2. /\ service'.managed = {}
        /\ history'.gone = history.gone /\ history'.doubled = history.doubled
    BY <1>12, ServiceOfDie, HistoryOfDie
  <2>3. \A m \in N : \A j : ~Brought(m, j)
    BY DEF About, Brought
  <2> HIDE DEF N
  <2> QED
    BY <2>1, <2>2, <2>3, GoneSent
<1>13. ASSUME NEW i \in Instances, Acquire(i) PROVE GoneForGood'
  <2> DEFINE m == About("owned", service.gen, i)
  <2>1. UNCHANGED reg /\ Sends({m}, {m})
    BY <1>13, AcquireSends DEF Acquire
  <2>2. /\ service'.managed = service.managed
        /\ history'.gone = history.gone /\ history'.doubled = history.doubled
    BY <1>13, ServiceOfAcquire, HistoryOfAcquire
  <2>3. \A j : ~Brought(m, j)
    BY DEF About, Brought
  <2> HIDE DEF m
  <2>4. \A j \in history.gone : j \notin service.managed
    BY DEF GoneForGood
  <2> QED
    BY <2>1, <2>2, <2>3, <2>4, GoneSent
<1>14. ASSUME NEW i \in Instances, Release(i) PROVE GoneForGood'
  <2> DEFINE m == About("lost", service.gen, i)
  <2>1. UNCHANGED reg /\ Sends({m}, {m})
    BY <1>14, ReleaseSends DEF Release
  <2>2. /\ service'.managed = service.managed
        /\ history'.gone = history.gone /\ history'.doubled = history.doubled
    BY <1>14, ServiceOfRelease, HistoryOfRelease
  <2>3. \A j : ~Brought(m, j)
    BY DEF About, Brought
  <2> HIDE DEF m
  <2>4. \A j \in history.gone : j \notin service.managed
    BY DEF GoneForGood
  <2> QED
    BY <2>1, <2>2, <2>3, <2>4, GoneSent
<1>15. ASSUME NEW i \in Instances, Export(i) PROVE GoneForGood'
  <2> DEFINE m == About("added", service.gen, i)
  <2>1. UNCHANGED reg /\ Signal("added", i) /\ "added" \in SignalKinds
    BY <1>15 DEF Export, SignalKinds
  <2>2. \E M : Sends({m}, M)
    BY <2>1, SignalSends
  <2>3. service'.managed = service.managed \cup {i} /\ history'.gone = history.gone \ {i}
        /\ history'.doubled = history.doubled
    BY <1>15, ServiceOfExport, HistoryOfExport
  <2>4. \A j \in Instances : Brought(m, j) => j = i
    BY DEF About, Brought
  <2> HIDE DEF m
  <2>5. history'.gone \subseteq Instances /\ \A j \in history'.gone : j \notin service'.managed
    BY <2>3, Typed DEF GoneForGood, HistoryTypes
  <2> QED
    BY <2>1, <2>2, <2>3, <2>4, <2>5, GoneSent
<1>16. ASSUME NEW i \in Instances, Unexport(i) PROVE GoneForGood'
  <2> DEFINE m == About("removed", service.gen, i)
  <2>1. UNCHANGED reg /\ Signal("removed", i) /\ "removed" \in SignalKinds
    BY <1>16 DEF Unexport, SignalKinds
  <2>2. \E M : Sends({m}, M)
    BY <2>1, SignalSends
  <2>3. service'.managed = service.managed \ {i} /\ history'.gone = history.gone
        /\ history'.doubled = history.doubled
    BY <1>16, ServiceOfUnexport, HistoryOfUnexport
  <2>4. \A j \in Instances : Brought(m, j) => FALSE
    BY DEF About, Brought
  <2> HIDE DEF m
  <2>5. history'.gone \subseteq Instances /\ \A j \in history'.gone : j \notin service'.managed
    BY <2>3, Typed DEF GoneForGood, HistoryTypes
  <2> QED
    BY <2>1, <2>2, <2>3, <2>4, <2>5, GoneSent
<1>17. CASE AnswerNext
  <2> DEFINE r == Head(requests)
  <2>1. UNCHANGED <<service, reg, history>> /\ r.kind \in {"owner", "path", "list"}
    BY <1>17, AnswerSends DEF AnswerNext, Request
  <2>2. \A j \in history.gone : j \notin service.managed
    BY DEF GoneForGood
  <2>4. CASE r.kind = "owner"
    <3> DEFINE m == About("owned", service.gen, r.name)
    <3>1. Sends({m}, {})
      BY <1>17, <2>4, AnswerSends
    <3>2. \A j : ~Brought(m, j)
      BY DEF Brought, About
    <3> HIDE DEF m
    <3> QED
      BY <2>1, <2>2, <3>1, <3>2, GoneSent
  <2>5. CASE r.kind = "path"
    <3> DEFINE m == Answer("path", r.gen, r.name, Truth(r))
    <3>1. Sends({m}, {m})
      BY <1>17, <2>5, AnswerSends
    <3>2. \A j : Brought(m, j) => j \in service.managed
      BY DEF Brought, Answer, Truth
    <3> HIDE DEF m
    <3> QED
      BY <2>1, <2>2, <3>1, <3>2, GoneSent
  <2>6. CASE r.kind = "list"
    <3> DEFINE m == Answer("list", 0, Manager, service.managed)
    <3>1. Sends({m}, {m})
      BY <1>17, <2>6, AnswerSends
    <3>2. \A j : Brought(m, j) => j \in service.managed
      BY DEF Brought, Answer, Truth
    <3> HIDE DEF m
    <3> QED
      BY <2>1, <2>2, <3>1, <3>2, GoneSent
  <2> QED
    BY <2>1, <2>4, <2>5, <2>6
<1>18. CASE GiveUp
  <2> DEFINE m == Answer("list", 0, Manager, {})
  <2>1. UNCHANGED <<service, reg>> /\ Sends({m}, {m})
    BY <1>18, GiveUpSends DEF GiveUp
  <2>2. history'.gone = history.gone /\ history'.doubled = history.doubled
    BY <1>18, HistoryOfGiveUp
  <2>3. \A j : ~Brought(m, j)
    BY DEF Answer, Brought
  <2> HIDE DEF m
  <2>4. \A j \in history.gone : j \notin service.managed
    BY DEF GoneForGood
  <2> QED
    BY <2>1, <2>2, <2>3, <2>4, GoneSent
<1>19. CASE DispatchToRegistry
  <2>1. PICK g \in Generations, n \in Names :
          /\ g = Head(inbox).gen /\ Head(inbox).names = {n}
          /\ \/ Head(inbox).kind = "owned" /\ OnNameOwned(g, n)
             \/ Head(inbox).kind = "lost" /\ OnNameLost(g, n)
             \/ Head(inbox).kind = "path" /\ n \in Instances /\ Head(inbox).found \in SUBSET Instances
                  /\ OnPathAnswered(g, n, Head(inbox).found)
    BY <1>19, DispatchedToRegistry
  <2> DEFINE m == Head(inbox)
  <2>2. Takes1 /\ UNCHANGED service /\ 1 \in DOMAIN inbox /\ inbox[1] = m
    BY <1>19, DispatchedToRegistry
  <2>3. history'.gone = history.gone /\ history'.doubled = history.doubled
    BY <1>19, HistoryOfDispatchToRegistry
  <2>4. ASSUME NEW h \in reg'.watched, NEW i \in history.gone \ history.doubled,
               Path(h, i)'.state = "RESOLVED"
        PROVE  ~Path(h, i)'.listed
    <3>1. h \in Generations /\ i \in Instances
      <4>1. reg' \in RegTypes
        BY <2>1, NameOwned, NameLost, PathAnswered
      <4> QED
        BY <2>4, <4>1, Typed DEF RegTypes, HistoryTypes
    <3>2. h \in reg.watched /\ Path(h, i).state = "RESOLVED" => ~Path(h, i).listed
      BY <2>4 DEF GoneForGood
    <3>3. CASE OnNameOwned(g, n)
      <4>1. Path(h, i)' = Path(h, i) \/ (h = g /\ i = n /\ Begins(g, n))
        BY <3>1, <3>3, NameOwned
      <4>2. h \in reg.watched \/ (h = g /\ \A j \in Instances : Path(g, j).state = "absent")
        BY <2>4, <3>3, NameOwned
      <4> QED
        BY <2>4, <3>1, <3>2, <4>1, <4>2 DEF Begins
    <3>4. CASE OnNameLost(g, n)
      <4>1. h \in reg.watched /\ (Path(h, i)' = Path(h, i) \/ Path(h, i)' = Absent)
        BY <2>4, <3>1, <3>4, NameLost
      <4> QED
        BY <2>4, <3>2, <4>1 DEF Absent
    <3>5. CASE n \in Instances /\ m.found \in SUBSET Instances /\ OnPathAnswered(g, n, m.found)
      <4>1. /\ h \in reg.watched /\ (h # g \/ i # n => Path(h, i)' = Path(h, i))
            /\ Path(g, n).state = "absent" => Path(g, n)' = Path(g, n)
            /\ Path(g, n).state # "absent" => Path(g, n)'.listed = (Path(g, n).listed \/ n \in m.found)
        BY <2>4, <3>1, <3>5, PathAnswered
      <4>2. i \notin m.found
        BY <2>2, <2>4 DEF GoneForGood, Brought
      <4>3. Path(g, n).state \in {"absent", "RESOLVING", "RESOLVED"}
        BY <3>5, RegistryTyped DEF Paths
      <4>4. Path(h, i).state = "RESOLVING" => ~Path(h, i).listed
        BY <2>4, <3>1 DEF Fresh
      <4> QED
        BY <2>4, <3>2, <4>1, <4>2, <4>3, <4>4
    <3> QED
      BY <2>1, <3>3, <3>4, <3>5
  <2> QED
    BY <2>2, <2>3, <2>4, GoneTaken
<1>20. CASE DispatchSignalFirst
  <2>1. PICK g \in Generations, n \in Instances :
          g = Head(inbox).gen /\ Head(inbox).names = {n} /\ RegistryTold(Head(inbox).kind, g, n)
    BY <1>20, SignalFirst
  <2>2. /\ Head(inbox).kind \in SignalKinds /\ UNCHANGED <<service, inbox, history>>
        /\ 1 \in DOMAIN inbox /\ inbox[1] = Head(inbox)
    BY <1>20, SignalFirst DEF bus
  <2>3. /\ reg'.watched = reg.watched
        /\ \A h \in Generations, i \in Instances : h # g \/ i # n => Path(h, i)' = Path(h, i)
        /\ Path(g, n)'.state = Path(g, n).state
        /\ g \in reg.watched /\ Path(g, n).state = "RESOLVED" =>
             Path(g, n)'.listed = (Head(inbox).kind = "added")
    BY <2>1, <2>2, SignalTold
  <2>4. n \in history.gone => Head(inbox).kind # "added"
    BY <2>1, <2>2 DEF GoneForGood, Brought
  <2>5. ASSUME NEW h \in reg.watched, NEW i \in history.gone \ history.doubled,
               Path(h, i)'.state = "RESOLVED"
        PROVE  ~Path(h, i)'.listed
    <3>1. h \in Generations /\ i \in Instances
      BY <2>5, Typed DEF RegTypes, HistoryTypes
    <3>2. Path(h, i).state = "RESOLVED" => ~Path(h, i).listed
      BY <2>5 DEF GoneForGood
    <3> QED
      BY <2>3, <2>4, <2>5, <3>1, <3>2
  <2> QED
    BY <2>2, <2>3, <2>5 DEF GoneForGood
<1>21. CASE DispatchSignalSecond
  <2>1. PICK n \in Instances : Head(inbox).names = {n} /\ EventTold(Head(inbox).kind, n)
    BY <1>21, SignalSecond
  <2>2. /\ Head(inbox).kind \in SignalKinds /\ UNCHANGED <<service, reg>> /\ Takes1 /\ turn = "second"
        /\ 1 \in DOMAIN inbox /\ inbox[1] = Head(inbox)
    BY <1>21, SignalSecond
  <2>3. /\ history'.gone = IF Head(inbox).kind = "removed" /\ TellsGone(n)
                             THEN history.gone \cup {n} ELSE history.gone
        /\ history'.doubled = history.doubled
    BY <1>21, <2>1, <2>2, EventHears, HistoryOfDispatchSignalSecond
  <2>4. \A k \in DOMAIN inbox' : k + 1 \in DOMAIN inbox /\ inbox'[k] = inbox[k + 1]
    BY <2>2 DEF Takes1, Shrinks
  <2>5. ASSUME NEW i \in history'.gone
        PROVE  /\ i \notin service.managed
               /\ \A k \in DOMAIN inbox : ~Brought(inbox[k], i)
               /\ i \notin history.doubled => \A g \in reg.watched :
                    Path(g, i).state = "RESOLVED" => ~Path(g, i).listed
    <3>1. CASE i \in history.gone
      BY <3>1 DEF GoneForGood
    <3>2. CASE i = n /\ Head(inbox).kind = "removed" /\ TellsGone(n)
      <4>1. i \notin service.managed /\ \A k \in DOMAIN inbox : ~Brought(inbox[k], i)
        BY <3>2 DEF TellsGone, Brought
      <4>2. ASSUME NEW g \in reg.watched, Path(g, i).state = "RESOLVED" PROVE ~Path(g, i).listed
        <5>1. g \in Generations /\ reg.owned[g] # {}
          BY <4>2, Typed DEF RegTypes, WatchedIsOwned
        <5>2. g = Head(inbox).gen
          BY <2>2, <5>1, OnlyTheCurrent DEF Addressed
        <5>3. Tells(Head(inbox), g, i)
          BY <2>1, <2>2, <3>2, <5>2 DEF Tells
        <5> QED
          BY <2>2, <3>2, <4>2, <5>3 DEF HeardFirst
      <4> QED
        BY <4>1, <4>2
    <3> QED
      BY <2>3, <2>5, <3>1, <3>2
  <2> QED
    BY <2>2, <2>3, <2>4, <2>5 DEF GoneForGood, Path
<1>22. CASE DispatchList
  <2>1. Takes1 /\ UNCHANGED <<service, reg, history>>
    BY <1>22, ListDispatched
  <2> QED
    BY <2>1, GoneTaken DEF GoneForGood, Path
<1>23. ASSUME NEW q \in Queries, NEW i \in Instances, LookAbsent(q, i) PROVE GoneForGood'
  <2>1. PICK g \in Generations :
          /\ \A h \in Generations, j \in Instances : h # g \/ j # i => Path(h, j)' = Path(h, j)
          /\ Begins(g, i) /\ reg'.watched = reg.watched
    BY <1>23, AbsentLooked
  <2>2. UNCHANGED <<service, inbox, history>> /\ reg.watched \subseteq Generations
        /\ history.gone \subseteq Instances
    BY <1>23, Typed DEF LookAbsent, RegTypes, HistoryTypes
  <2> QED
    BY <2>1, <2>2 DEF GoneForGood, Begins
<1>24. ASSUME NEW q \in Queries, NEW i \in Instances, LookUnresolved(q, i) PROVE GoneForGood'
  <2>1. PICK g \in Generations :
          /\ \A h \in Generations, j \in Instances : h # g \/ j # i => Path(h, j)' = Path(h, j)
          /\ reg'.watched = reg.watched
    BY <1>24, UnresolvedLooked
  <2>2. UNCHANGED <<service, inbox>> /\ reg.watched \subseteq Generations
        /\ history.gone \subseteq Instances
    BY <1>24, Typed DEF LookUnresolved, RegTypes, HistoryTypes
  <2>3. history'.gone = history.gone /\ history'.doubled = history.doubled \cup {i}
    BY <1>24, HistoryOfLookUnresolved
  <2> QED
    BY <2>1, <2>2, <2>3 DEF GoneForGood
<1> QED
  BY StepOfNext, <1>2, <1>3, <1>4, <1>5, <1>6, <1>7, <1>8, <1>9, <1>10, <1>11,
    <1>12, <1>13, <1>14, <1>15, <1>16, <1>17, <1>18, <1>19, <1>20, <1>21,
    <1>22, <1>23, <1>24 DEF Step

-----------------------------------------------------------------------------
(* What the queries know.                                                  *)

(* A query that began when an instance was gone: it is, or is forgotten.   *)
LEMMA QueriesStillKnow ==
  ASSUME TypeOK, Addressed, QueriesKnow, [Next]_vars
  PROVE  QueriesKnow'
<1>1. ASSUME UNCHANGED <<query, history.gone>> PROVE QueriesKnow'
  BY <1>1 DEF QueriesKnow
<1>2. CASE UNCHANGED vars
  BY <1>1, <1>2 DEF vars, bus
<1>3. CASE AnswerNext \/ DispatchSignalFirst \/ DispatchList \/ InstallRemoved
  BY <1>1, <1>3 DEF AnswerNext, DispatchSignalFirst, Told, bus, DispatchList,
    Receive, InstallRemoved
<1>4. CASE AskForInstances
  BY <1>1, <1>4 DEF AskForInstances, bus
<1>5. CASE Start
  BY <1>1, <1>5, HistoryOfStart DEF Start, bus
<1>6. CASE Die
  BY <1>1, <1>6, HistoryOfDie DEF Die, bus
<1>7. ASSUME NEW i \in Instances, Acquire(i) PROVE QueriesKnow'
  BY <1>1, <1>7, HistoryOfAcquire DEF Acquire, bus
<1>8. ASSUME NEW i \in Instances, Release(i) PROVE QueriesKnow'
  BY <1>1, <1>8, HistoryOfRelease DEF Release, bus
<1>9. ASSUME NEW i \in Instances, Unexport(i) PROVE QueriesKnow'
  BY <1>1, <1>9, HistoryOfUnexport DEF Unexport, bus
<1>10. CASE GiveUp
  BY <1>1, <1>10, HistoryOfGiveUp DEF GiveUp, bus
<1>11. ASSUME NEW l \in Listeners, AddFirst(l) PROVE QueriesKnow'
  BY <1>1, <1>11, HistoryOfAddFirst DEF AddFirst, bus
<1>12. ASSUME NEW l \in Listeners, AddAnother(l) PROVE QueriesKnow'
  BY <1>1, <1>12, HistoryOfAddAnother DEF AddAnother, bus
<1>13. ASSUME NEW l \in Listeners, Leave(l) PROVE QueriesKnow'
  BY <1>1, <1>13, HistoryOfLeave DEF Leave, bus
<1>14. ASSUME NEW q \in Queries, NEW i \in Instances, LookUnknown(q, i) PROVE QueriesKnow'
  BY <1>1, <1>14 DEF LookUnknown, bus
<1>15. ASSUME NEW i \in Instances, Export(i) PROVE QueriesKnow'
  <2>1. query' = [q \in Queries |-> IF query[q].instance = i
                     THEN [query[q] EXCEPT !.gone = FALSE] ELSE query[q]]
    BY <1>15 DEF Export
  <2>2. \A q \in Queries : /\ query'[q].pc = query[q].pc /\ query'[q].instance = query[q].instance
                           /\ query'[q].gone => query[q].gone /\ query[q].instance # i
    BY <2>1, Typed DEF QueryTypes
  <2>3. history'.gone = history.gone \ {i}
    BY <1>15, HistoryOfExport
  <2> QED
    BY <2>2, <2>3 DEF QueriesKnow
<1>16. CASE DispatchToRegistry
  <2>1. PICK n \in Names :
          /\ Head(inbox).names = {n}
          /\ \/ Head(inbox).kind = "owned" /\ OnNameOwned(Head(inbox).gen, n)
             \/ Head(inbox).kind = "lost" /\ OnNameLost(Head(inbox).gen, n)
             \/ Head(inbox).kind = "path" /\ n \in Instances /\ Head(inbox).found \in SUBSET Instances
                  /\ OnPathAnswered(Head(inbox).gen, n, Head(inbox).found)
    BY <1>16, DispatchedToRegistry
  <2>2. Head(inbox).gen \in Generations
    BY <1>16, DispatchedToRegistry
  <2>3. history'.gone = history.gone
    BY <1>16, HistoryOfDispatchToRegistry
  <2>4. CASE UNCHANGED query
    BY <2>3, <2>4 DEF QueriesKnow
  <2>5. CASE OnNameLost(Head(inbox).gen, n)
    <3>1. \A q \in Queries : query'[q] = query[q] \/ query'[q] = [query[q] EXCEPT !.torn = TRUE]
      BY <2>2, <2>5, NameLost
    <3>2. \A q \in Queries : /\ query'[q].pc = query[q].pc /\ query'[q].instance = query[q].instance
                             /\ query'[q].gone = query[q].gone
      BY <3>1, Typed, ZenonT(60) DEF QueryTypes
    <3> QED
      BY <2>3, <3>2 DEF QueriesKnow
  <2> QED
    BY <2>1, <2>2, <2>4, <2>5, NameOwned, PathAnswered
<1>17. CASE DispatchSignalSecond
  <2>1. UNCHANGED query /\ Head(inbox).kind \in SignalKinds
        /\ \E n \in Instances : EventTold(Head(inbox).kind, n)
    BY <1>17, SignalSecond
  <2>2. history.gone \subseteq history'.gone
    BY <2>1, EventHears
  <2> QED
    BY <2>1, <2>2 DEF QueriesKnow
<1>18. ASSUME NEW q \in Queries, Read(q) PROVE QueriesKnow'
  <2>1. PICK answer \in BOOLEAN :
          query' = [query EXCEPT ![q] = [Idle EXCEPT !.pc = "done", !.answer = answer]]
    BY <1>18 DEF Read
  <2>2. query'[q].pc = "done" /\ \A r \in Queries : r # q => query'[r] = query[r]
    BY <2>1, Typed DEF Idle
  <2>3. UNCHANGED history
    BY <1>18 DEF Read
  <2> QED
    BY <2>2, <2>3 DEF QueriesKnow
<1>19. ASSUME NEW q \in Queries, NEW i \in Instances, LookAbsent(q, i) PROVE QueriesKnow'
  <2>1. Continue(q, i, "waiting")
    BY <1>19 DEF LookAbsent
  <2>2. history'.gone = history.gone
    BY <1>19 DEF LookAbsent
  <2> QED
    BY <2>1, <2>2, Continued, ZenonT(60) DEF QueriesKnow
<1>20. ASSUME NEW q \in Queries, NEW i \in Instances, LookUnresolved(q, i) PROVE QueriesKnow'
  <2>1. Continue(q, i, "waiting")
    BY <1>20 DEF LookUnresolved
  <2>2. history'.gone = history.gone
    BY <1>20, HistoryOfLookUnresolved
  <2> QED
    BY <2>1, <2>2, Continued, ZenonT(60) DEF QueriesKnow
<1>21. ASSUME NEW q \in Queries, NEW i \in Instances, LookTwice(q, i) PROVE QueriesKnow'
  <2>1. Continue(q, i, "thrown")
    BY <1>21 DEF LookTwice
  <2>2. history'.gone = history.gone
    BY <1>21 DEF LookTwice
  <2> QED
    BY <2>1, <2>2, Continued DEF QueriesKnow
<1>22. ASSUME NEW q \in Queries, NEW i \in Instances, LookResolved(q, i) PROVE QueriesKnow'
  <2>1. Continue(q, i, "waiting")
    BY <1>22 DEF LookResolved
  <2>2. history'.gone = history.gone
    BY <1>22 DEF LookResolved
  <2> QED
    BY <2>1, <2>2, Continued, ZenonT(60) DEF QueriesKnow
<1> QED
  BY StepOfNext, <1>2, <1>3, <1>4, <1>5, <1>6, <1>7, <1>8, <1>9, <1>10, <1>11,
    <1>12, <1>13, <1>14, <1>15, <1>16, <1>17, <1>18, <1>19, <1>20, <1>21,
    <1>22 DEF Step

-----------------------------------------------------------------------------
(* The invariant, and what follows from it.                                *)

(* The questions for the owners of the names that proxies wait for.        *)
LEMMA QuestionsTyped ==
  ASSUME NEW waited \in SUBSET Instances
  PROVE  SetToSeq({OwnerRequest(i) : i \in waited}) \in Seq({OwnerRequest(n) : n \in Names})
<1> DEFINE S == {OwnerRequest(i) : i \in waited}
           N == {OwnerRequest(n) : n \in Names}
           f == [i \in waited |-> OwnerRequest(i)]
<1>1. IsFiniteSet(waited)
  BY FS_Subset
<1>2. f \in Surjection(waited, S)
  BY DEF Surjection
<1>3. IsFiniteSet(S)
  BY <1>1, <1>2, FS_Surjection
<1>4. S \subseteq N
  OBVIOUS
<1> HIDE DEF S, N
<1>5. Cardinality(S) \in Nat /\ ExistsBijection(1 .. Cardinality(S), S)
  BY <1>3, FS_CardinalityType
<1>6. PICK g \in [1 .. Cardinality(S) -> S] : IsInjective(g)
  BY <1>5 DEF ExistsBijection, Bijection, Injection
<1>7. SetToSeq(S) \in [1 .. Cardinality(S) -> S]
  BY <1>6 DEF SetToSeq
<1>8. SetToSeq(S) \in Seq(N)
  BY <1>4, <1>5, <1>7
<1> QED
  BY <1>8 DEF S, N

(* At first nothing has arrived but what is asked for.                     *)
LEMMA StartsRight == Init => Inv
<1> SUFFICES ASSUME Init PROVE Inv
  OBVIOUS
<1> DEFINE N == {OwnerRequest(n) : n \in Names}
<1>1. requests \in Seq(N)
  <2>1. <<OwnerRequest(Manager)>> \in Seq(N)
    OBVIOUS
  <2>2. SetToSeq({OwnerRequest(i) : i \in proxied}) \in Seq(N)
    BY QuestionsTyped DEF Init
  <2>3. requests = <<OwnerRequest(Manager)>> \o SetToSeq({OwnerRequest(i) : i \in proxied})
    BY DEF Init
  <2> HIDE DEF N
  <2> QED
    BY <2>1, <2>2, <2>3
<1>2. requests \in Seq(Request) /\ \A k \in DOMAIN requests : requests[k].kind = "owner"
  <2>1. N \subseteq Request /\ \A r \in N : r.kind = "owner"
    BY DEF OwnerRequest, Request
  <2> HIDE DEF N
  <2> QED
    BY <1>1, <2>1
<1>3. inbox = <<>> /\ DOMAIN inbox = {} /\ inbox \in Seq(Message)
  BY DEF Init
<1>4. /\ service \in ServiceTypes /\ service.managed \subseteq service.names
      /\ Down
  <2>1. PICK managed \in SUBSET Instances :
          service \in {[gen |-> 0, up |-> FALSE, names |-> {}, managed |-> {}],
                       [gen |-> 1, up |-> TRUE, names |-> {Manager} \cup managed,
                        managed |-> managed]}
    BY DEF Init
  <2>2. CASE service = [gen |-> 0, up |-> FALSE, names |-> {}, managed |-> {}]
    BY <2>2 DEF ServiceTypes, Down
  <2>3. CASE service = [gen |-> 1, up |-> TRUE, names |-> {Manager} \cup managed,
                        managed |-> managed]
    <3>1. 1 \in Generations /\ 1 \in 0 .. MaxGenerations
      OBVIOUS
    <3>2. {Manager} \cup managed \subseteq Names
      OBVIOUS
    <3> QED
      BY <2>3, <3>1, <3>2 DEF ServiceTypes, Down
  <2> QED
    BY <2>1, <2>2, <2>3
<1>5. /\ reg \in RegTypes
      /\ reg.watched = {} /\ \A g \in Generations : reg.owned[g] = {}
      /\ \A g \in Generations, i \in Instances : Path(g, i) = Absent
  <2>1. reg = [owned |-> [g \in Generations |-> {}], mapped |-> [n \in Names |-> 0],
               paths |-> [g \in Generations |-> [i \in Instances |-> Absent]], watched |-> {}]
    BY DEF Init
  <2>2. Absent \in Paths
    BY PathTypes
  <2> QED
    BY <2>1, <2>2 DEF RegTypes, Path
<1>6. /\ event \in EventTypes /\ event.pc = "idle"
      /\ event.listening = {} /\ event.interfaces = {}
  BY DEF Init, EventTypes
<1>7. query \in [Queries -> QueryTypes] /\ \A q \in Queries : query[q].pc = "idle"
  BY DEF Init, Idle, QueryTypes
<1>8. history \in HistoryTypes /\ history.gone = {}
  BY DEF Init, HistoryTypes
<1>9. turn = "first" /\ proxied \subseteq Instances /\ holder = None /\ ended = "no"
  BY DEF Init
<1>10. TypeOK
  BY <1>2, <1>3, <1>4, <1>5, <1>6, <1>7, <1>8, <1>9, TypesSplit
    DEF ServiceOK, RequestsOK, InboxOK, RegistryOK, EventOK, QueriesOK, HistoryOK, RestOK
<1>11. Addressed
  BY <1>2, <1>3, <1>7 DEF Addressed, CallsAddressed, MessagesAddressed, QueriesAddressed
<1>12. Handlers /\ ListenersTold
  BY <1>6 DEF Handlers, ListenersTold, Settled
<1>13. NoneMissing
  BY <1>6 DEF NoneMissing
<1>14. NoneTooMany
  BY <1>3, <1>6 DEF NoneTooMany
<1>15. OwnersFollow /\ WatchedIsOwned
  BY <1>3, <1>5 DEF OwnersFollow, WatchedIsOwned
<1>16. InOrder
  BY <1>3, <1>5 DEF InOrder
<1>17. Fresh
  BY <1>5 DEF Fresh, Absent
<1>18. OneAnswer
  BY <1>2, <1>3 DEF OneAnswer, Single, Asks
<1>19. LastWordTrue
  BY <1>5 DEF LastWordTrue
<1>20. HeardFirst
  BY <1>9 DEF HeardFirst
<1>21. GoneForGood /\ QueriesKnow
  BY <1>7, <1>8 DEF GoneForGood, QueriesKnow
<1> QED
  BY <1>4, <1>10, <1>11, <1>12, <1>13, <1>14, <1>15, <1>16, <1>17, <1>18, <1>19,
    <1>20, <1>21 DEF Inv

(* Each step keeps the invariant.                                          *)
LEMMA Inductive == Inv /\ [Next]_vars => Inv'
<1> SUFFICES ASSUME Inv, [Next]_vars PROVE Inv'
  OBVIOUS
<1> USE DEF Inv
<1>1. TypeOK'
  BY TypesKept
<1>2. Addressed'
  BY CallsStayAddressed, MessagesStayAddressed, QueriesStayAddressed DEF Addressed
<1>3. Down' /\ Handlers'
  BY DownStays, HandlersStay
<1>4. NoneMissing'
  BY NoneMissingStays
<1>5. NoneTooMany'
  BY NoneTooManyStays
<1>6. ListenersTold'
  BY ListenersStayTold
<1>7. OwnersFollow'
  BY OwnersStillFollow
<1>8. InOrder' /\ WatchedIsOwned'
  BY OrderStays, WatchedStayOwned
<1>9. Fresh' /\ OneAnswer'
  BY FreshStays, OneAnswerStays
<1>10. LastWordTrue' /\ HeardFirst'
  BY LastWordStaysTrue, HeardFirstStays
<1>11. GoneForGood'
  BY GoneStaysGone
<1>12. QueriesKnow'
  BY QueriesStillKnow
<1> QED
  BY <1>1, <1>2, <1>3, <1>4, <1>5, <1>6, <1>7, <1>8, <1>9, <1>10, <1>11, <1>12

(* So it always holds.                                                     *)
LEMMA Invariant == Spec => []Inv
<1>1. Init => Inv
  BY StartsRight
<1>2. Inv /\ [Next]_vars => Inv'
  BY Inductive
<1> QED
  BY <1>1, <1>2, PTL DEF Spec

(* Every variable stays in its type.                                       *)
THEOREM TypeCorrect == Spec => []TypeOK
<1>1. Inv => TypeOK
  BY DEF Inv
<1> QED
  BY <1>1, Invariant, PTL

(* Whoever listens to the event knows the instances of the manager, when   *)
(* nothing more is on its way.                                             *)
THEOREM EventsAlwaysAgree == Spec => []EventsAgree
<1>1. Inv => EventsAgree
  <2> SUFFICES ASSUME Inv, event.listening # {}
               PROVE  /\ AtRest =>
                           /\ ~history.failed => service.managed \subseteq event.interfaces
                           /\ event.interfaces \subseteq service.managed \cup history.unseen
                      /\ \A l \in event.listening :
                           /\ event.heard[l] \subseteq event.interfaces
                           /\ event.interfaces \subseteq event.heard[l] \cup history.since[l]
    BY DEF EventsAgree
  <2>1. \A l \in event.listening :
          /\ event.heard[l] \subseteq event.interfaces
          /\ event.interfaces \subseteq event.heard[l] \cup history.since[l]
    BY DEF Inv, ListenersTold
  <2>2. ASSUME AtRest, ~history.failed, NEW i \in service.managed PROVE i \in event.interfaces
    <3>1. DOMAIN inbox = {}
      BY <2>2 DEF AtRest
    <3> QED
      BY <2>2, <3>1 DEF AtRest, Inv, NoneMissing
  <2>3. ASSUME AtRest, NEW i \in event.interfaces PROVE i \in service.managed \cup history.unseen
    <3>1. DOMAIN inbox = {}
      BY <2>3 DEF AtRest
    <3> QED
      BY <3>1 DEF Inv, NoneTooMany
  <2> QED
    BY <2>1, <2>2, <2>3
<1> QED
  BY <1>1, Invariant, PTL

(* A process that is watched, and nothing of which is on its way, is the   *)
(* service, and it is up.                                                  *)
LEMMA WatchedIsUp ==
  ASSUME Inv, inbox = <<>>, NEW g \in reg.watched
  PROVE  g \in Generations /\ g = service.gen /\ service.up
<1>1. g \in Generations
  BY Typed DEF Inv, RegTypes
<1>2. PICK n \in reg.owned[g] : TRUE
  BY DEF Inv, WatchedIsOwned
<1>3. DOMAIN inbox = {}
  OBVIOUS
<1>4. Owning(g, n)
  BY <1>1, <1>2, <1>3 DEF Inv, OwnersFollow
<1> QED
  BY <1>1, <1>4, Typed DEF Owning, Inv, Down, ServiceTypes

(* What a query would read is what the service has.                        *)
THEOREM CacheAlwaysTrue == Spec => []CacheTrue
<1>1. Inv => CacheTrue
  <2> SUFFICES ASSUME Inv, inbox = <<>>, NEW g \in reg.watched, NEW i \in Instances,
                      reg.paths[g][i].state = "RESOLVED",
                      i \notin history.doubled \cup history.dropped
               PROVE  reg.paths[g][i].listed <=> g = service.gen /\ i \in service.managed
    BY DEF CacheTrue
  <2>1. g = service.gen /\ service.up
    BY WatchedIsUp
  <2>2. WordTrue(g, i)
    BY <2>1 DEF Inv, LastWordTrue, Clear
  <2>3. DOMAIN inbox = {}
    OBVIOUS
  <2>4. reg.paths[g][i].listed <=> i \in service.managed
    BY <2>2, <2>3 DEF WordTrue, Path
  <2> QED
    BY <2>1, <2>4
<1> QED
  BY <1>1, Invariant, PTL

(* Who has been told that an instance is gone, and asks then, is not told  *)
(* that it is there.                                                       *)
Answered ==
  \A q \in Queries :
    /\ query[q].pc = "waiting" /\ query'[q].pc = "done"
    /\ query[q].gone /\ ~query[q].torn
    /\ query[q].gen \in reg.watched /\ query[q].instance \notin history.doubled
    => ~query'[q].answer

(* Only who reads the path gets an answer.                                 *)
LEMMA OnlyReadAnswers ==
  ASSUME Inv, [Next]_vars, NEW q \in Queries, query[q].pc = "waiting", query'[q].pc = "done"
  PROVE  Read(q)
<1> USE DEF Inv
<1>1. query' # query
  OBVIOUS
<1>2. CASE UNCHANGED vars
  BY <1>1, <1>2 DEF vars
<1>3. CASE Start \/ Die \/ AnswerNext \/ GiveUp
  BY <1>1, <1>3 DEF Start, Die, AnswerNext, GiveUp
<1>4. CASE DispatchSignalFirst \/ DispatchSignalSecond \/ DispatchList
  BY <1>1, <1>4 DEF DispatchSignalFirst, DispatchSignalSecond, DispatchList
<1>5. CASE InstallRemoved \/ AskForInstances
  BY <1>1, <1>5 DEF InstallRemoved, AskForInstances
<1>6. CASE \E i \in Instances : Acquire(i) \/ Release(i) \/ Unexport(i)
  BY <1>1, <1>6 DEF Acquire, Release, Unexport
<1>7. CASE \E l \in Listeners : AddFirst(l) \/ AddAnother(l) \/ Leave(l)
  BY <1>1, <1>7 DEF AddFirst, AddAnother, Leave
<1>8. CASE \E i \in Instances : Export(i)
  <2>1. query'[q].pc = query[q].pc
    BY <1>8, Typed DEF Export, QueryTypes
  <2> QED
    BY <2>1
<1>9. CASE DispatchToRegistry
  <2>1. PICK n \in Names :
          /\ Head(inbox).names = {n}
          /\ \/ Head(inbox).kind = "owned" /\ OnNameOwned(Head(inbox).gen, n)
             \/ Head(inbox).kind = "lost" /\ OnNameLost(Head(inbox).gen, n)
             \/ Head(inbox).kind = "path" /\ n \in Instances /\ Head(inbox).found \in SUBSET Instances
                  /\ OnPathAnswered(Head(inbox).gen, n, Head(inbox).found)
    BY <1>9, DispatchedToRegistry
  <2>2. Head(inbox).gen \in Generations
    BY <1>9, DispatchedToRegistry
  <2>3. query'[q].pc = query[q].pc
    <3>1. UNCHANGED query \/ query'[q] = query[q] \/ query'[q] = [query[q] EXCEPT !.torn = TRUE]
      BY <2>1, <2>2, NameOwned, NameLost, PathAnswered
    <3> QED
      BY <3>1, Typed DEF QueryTypes
  <2> QED
    BY <2>3
<1>10. ASSUME NEW r \in Queries, NEW i \in Instances, LookUnknown(r, i) PROVE FALSE
  BY <1>1, <1>10 DEF LookUnknown
<1>11. ASSUME NEW r \in Queries, NEW i \in Instances,
              LookAbsent(r, i) \/ LookUnresolved(r, i) \/ LookTwice(r, i) \/ LookResolved(r, i)
       PROVE  FALSE
  <2>1. Continue(r, i, "waiting") \/ Continue(r, i, "thrown")
    BY <1>11 DEF LookAbsent, LookUnresolved, LookTwice, LookResolved
  <2>2. query[r].pc = "idle" /\ (r # q => query'[q] = query[q])
    BY <2>1, Continued
  <2> QED
    BY <2>2
<1>12. ASSUME NEW r \in Queries, Read(r) PROVE Read(q)
  <2>1. r # q => query'[q] = query[q]
    BY <1>12, Typed DEF Read
  <2> QED
    BY <1>12, <2>1
<1> QED
  BY StepOfNext, <1>2, <1>3, <1>4, <1>5, <1>6, <1>7, <1>8, <1>9, <1>10, <1>11,
    <1>12 DEF Step

(* The answer is what the path lists, and it does not list what is gone.   *)
LEMMA AnsweredStep == Inv /\ [Next]_vars => Answered
<1> SUFFICES ASSUME Inv, [Next]_vars, NEW q \in Queries,
                    query[q].pc = "waiting", query'[q].pc = "done",
                    query[q].gone, ~query[q].torn,
                    query[q].gen \in reg.watched, query[q].instance \notin history.doubled
             PROVE  ~query'[q].answer
  BY DEF Answered
<1> DEFINE g == query[q].gen
           i == query[q].instance
<1>1. Read(q)
  BY OnlyReadAnswers
<1>2. query'[q].answer = (Path(g, i).state = "RESOLVED" /\ Path(g, i).listed)
  <2>1. query' = [query EXCEPT ![q] = [Idle EXCEPT !.pc = "done",
                    !.answer = Path(g, i).state = "RESOLVED" /\ Path(g, i).listed]]
    BY <1>1 DEF Read, Path
  <2> QED
    BY <2>1, Typed DEF Inv, Idle
<1>3. i \in history.gone
  BY DEF Inv, QueriesKnow
<1>4. Path(g, i).state = "RESOLVED" => ~Path(g, i).listed
  BY <1>3 DEF Inv, GoneForGood
<1> QED
  BY <1>2, <1>4

(* No query that began after the event had told that an instance is gone   *)
(* says that it is there, unless its path was dropped or asked for twice.  *)
THEOREM StatusAlwaysTrue == Spec => StatusTrue
<1>1. Inv /\ [Next]_vars => [Answered]_vars
  BY AnsweredStep
<1>2. StatusTrue <=> [][Answered]_vars
  BY DEF StatusTrue, Answered
<1> QED
  BY <1>1, <1>2, Invariant, PTL DEF Spec
=============================================================================
