-------------------------- MODULE ProxyEventsProofs --------------------------
(***************************************************************************)
(* Proofs about ProxyEvents: the types; that the listeners, the queue, the *)
(* handlers at the connection and the subscriptions at the stub agree; and *)
(* that no listener waits in vain; for any events of the four kinds, any   *)
(* number of listeners, and whatever the service does how often.           *)
(***************************************************************************)
EXTENDS ProxyEvents, FiniteSetTheorems, TLAPS

-----------------------------------------------------------------------------
(* The inductive invariant.                                                *)

(* Where the thread of the application can be with an event of each kind,  *)
(* when it adds a listener and when it has removed the last one.           *)
Arrives(e, pc) ==
  \/ e \in Attributes /\ pc \in {"add", "install", "queue", "value", "state"}
  \/ e \in Broadcasts /\ pc \in {"install", "state"}
  \/ e \in Legacy /\ pc \in {"install", "state", "value"}
  \/ e \in Selectives /\ pc \in {"install", "token", "request"}
  \/ e = StatusEvent /\ pc = "inform"
Departs(e, pc) ==
  \/ e \in Attributes /\ pc \in {"dequeue", "remove"}
  \/ e \in Broadcasts \cup Legacy /\ pc = "remove"
  \/ e \in Selectives /\ pc \in {"remove", "unsubscribe", "await", "erase"}

(* A listener that arrives is known; when the last one departs, nobody is. *)
AppInPlace ==
  \/ app = Idle
  \/ Arrives(app.event, app.pc) /\ app.tag \in subscribed[app.event]
  \/ Departs(app.event, app.pc) /\ subscribed[app.event] = {}

(* The first listener of an attribute is alone until its tuple is queued.  *)
Entering(x) == At(x, "add") \/ At(x, "install") \/ At(x, "queue")
FirstAlone == \A x \in Attributes : Entering(x) => subscribed[x] = {app.tag}

(* What is asked is asked for an event that has it, and only what comes    *)
(* back to the loop does.                                                  *)
Requests == {"subscribe", "resubscribe"}
Shaped(m) ==
  /\ m.kind = "get" => m.event \in Attributes
  /\ m.kind = "initial" => m.event \in Attributes \cup Legacy /\ m.tag \in Tags
  /\ m.kind \in Requests \cup {"unsubscribe"} => m.event \in Selectives
  /\ m.kind = "status" => m.answer \in {"AVAILABLE", "NOT_AVAILABLE"}
MessagesShaped ==
  /\ \A k \in DOMAIN outgoing : Shaped(outgoing[k]) /\ outgoing[k].kind # "status"
  /\ \A k \in DOMAIN incoming : Shaped(incoming[k]) /\ incoming[k].kind # "unsubscribe"

(* The thread that withdraws a subscription waits for the answer.          *)
OneUnsubscribe ==
  \A k \in DOMAIN outgoing : outgoing[k].kind = "unsubscribe" =>
    /\ At(outgoing[k].event, "await")
    /\ \A j \in DOMAIN outgoing : outgoing[j].kind = "unsubscribe" => j = k

(* A listener listens to one event; its tag is used once.                  *)
TagsUnique ==
  \A e \in Events : \A t \in subscribed[e] :
    t < nextTag /\ \A f \in Events : t \in subscribed[f] => f = e
StatusTag(t) == t < nextTag /\ \A e \in Signalled : t \notin subscribed[e]
StatusTags ==
  /\ \A t \in listeners : StatusTag(t)
  /\ \A k \in DOMAIN pushed : pushed[k].kind = "inform" =>
       pushed[k].tag \in Tags /\ StatusTag(pushed[k].tag)
InternalTags ==
  \A g \in Legacy : internal[g] # None =>
    internal[g] < nextTag /\ \A e \in Events \ {g} : internal[g] \notin subscribed[e]

(* The entry of a selective event names a listener that came, the one that *)
(* is about to send its request.                                           *)
EntriesKnown ==
  \A x \in Selectives :
    /\ selective[x] # None => selective[x] < nextTag
    /\ At(x, "request") => selective[x] = app.tag

(* The flag of an attribute's tuple tells whether its handler is there;    *)
(* while the tuple is on its way into the queue, the flag it carries does. *)
TupleMatches(x) ==
  /\ ~At(x, "queue") /\ ~At(x, "remove") => (queue[x] = "added" <=> x \in installed)
  /\ At(x, "queue") => (app.flag = "added" <=> x \in installed)
  /\ At(x, "add") => app.flag = "pending"
  /\ Entering(x) \/ At(x, "remove") => queue[x] = "absent"
  /\ subscribed[x] = {} /\ ~At(x, "dequeue") => queue[x] = "absent"
QueueMatches == \A x \in Attributes : TupleMatches(x)

(* And it follows the status, if no change overtook it.                    *)
TupleFollows(x) ==
  /\ At(x, "install") => IsAvailable
  /\ At(x, "queue") => (app.flag = "added" <=> IsAvailable)
  /\ subscribed[x] # {} /\ ~Entering(x) =>
       queue[x] # "absent" /\ (loop # "handlers" => (queue[x] = "added" <=> IsAvailable))
QueueFollows == \A x \in Attributes \ overtaken : TupleFollows(x)

(* Without listeners there is no handler, and no entry for a selective     *)
(* event; with listeners its handler is there unless it was refused.       *)
Leaves(x) == app.event = x /\ app.pc \in {"remove", "unsubscribe", "await", "erase"}
HandlersGone ==
  /\ \A e \in Signalled \ Attributes : subscribed[e] = {} /\ ~At(e, "remove")
       => e \notin installed
  /\ \A x \in Selectives : subscribed[x] = {} /\ ~Leaves(x) => selective[x] = None
HandlersKept ==
  \A x \in Selectives :
    (subscribed[x] # {} \/ At(x, "remove")) /\ ~At(x, "install") => x \in installed \cup denied

(* After the last listener of a selective event has left, the stub has it  *)
(* no more and is not asked again, or it is told so after all that asks.   *)
AsksFor(m, x) == m.kind \in Requests /\ m.event = x
Ends(m, x) == m.kind = "unsubscribe" /\ m.event = x
Ended(x) ==
  \/ x \notin subscribers /\ \A k \in DOMAIN outgoing : ~AsksFor(outgoing[k], x)
  \/ \E k \in DOMAIN outgoing :
       Ends(outgoing[k], x) /\ \A j \in DOMAIN outgoing : j > k => ~AsksFor(outgoing[j], x)
Withdrawn ==
  /\ service = "down" => subscribers = {}
  /\ \A x \in Selectives \ (denied \cup overtaken) :
       subscribed[x] = {} /\ ~At(x, "remove") /\ ~At(x, "unsubscribe") => Ended(x)

(* While the service is gone the status says so, or will.                  *)
Reports(m, st) == m.kind = "status" /\ m.answer = st
ReportsFollow ==
  service = "down" =>
    /\ IsAvailable => \E k \in DOMAIN incoming : Reports(incoming[k], "NOT_AVAILABLE")
    /\ \A k \in DOMAIN incoming : Reports(incoming[k], "AVAILABLE") =>
         \E j \in DOMAIN incoming : j > k /\ Reports(incoming[j], "NOT_AVAILABLE")

(* What the loop knows of the status while it handles a change.            *)
LoopKnown ==
  /\ loop = "selective" => IsAvailable
  /\ IsAvailable /\ loop = "idle" => everAvailable

(* A listener of an attribute has a value, or one will come: the answer to *)
(* its own Get, or to the one for everybody, now or after the next change. *)
Reaches(m, x, t) == m.event = x /\ (m.kind = "get" \/ (m.kind = "initial" /\ m.tag = t))
Promised(x, t) ==
  \/ heard[t] = "value"
  \/ \E k \in DOMAIN incoming : Reaches(incoming[k], x, t) /\ incoming[k].answer = "yes"
  \/ \E k \in DOMAIN outgoing : Reaches(outgoing[k], x, t)
  \/ \E k \in DOMAIN incoming : Reports(incoming[k], "NOT_AVAILABLE")
Begun(x, t) == app.event = x /\ app.tag = t /\ app.pc \in {"add", "install", "queue", "value"}
ValuePromised(x, t) ==
  \/ Begun(x, t) \/ Promised(x, t)
  \/ loop = "handlers" /\ queue[x] = "pending"
ValuesPromised ==
  IsAvailable => \A x \in Attributes \ overtaken : \A t \in subscribed[x] : ValuePromised(x, t)

(* A listener of a signal is in the table of states and was told that it   *)
(* is subscribed, or will be.                                              *)
Starting(e, t) == app.event = e /\ app.tag = t /\ Arrives(e, app.pc)
Confirms(f, t) == f.kind = "states" \/ (f.kind = "succeed" /\ f.tag = t)
StateConfirmed(e, t) ==
  \/ Starting(e, t)
  \/ /\ t \in states
     /\ \/ t \in confirmed
        \/ \E k \in DOMAIN pushed : Confirms(pushed[k], t)
        \/ everAvailable /\ (~IsAvailable \/ loop # "idle")
StatesConfirmed ==
  \A e \in Attributes \cup Broadcasts : \A t \in subscribed[e] : StateConfirmed(e, t)

(* The listener that the entry of a selective event names was answered, or *)
(* its call or the answer is on its way.                                   *)
RequestOf(m, t) == m.kind \in Requests /\ m.tag = t
RequestAnswered(x, t) ==
  \/ At(x, "request")
  \/ t \in confirmed \cup refused
  \/ \E k \in DOMAIN outgoing : RequestOf(outgoing[k], t)
  \/ \E k \in DOMAIN incoming : RequestOf(incoming[k], t)
RequestsAnswered ==
  IsAvailable /\ loop = "idle" =>
    \A x \in Selectives : \A t \in subscribed[x] :
      selective[x] = t => RequestAnswered(x, t)

(* A listener of the status is in the list and knows it, or will be told.  *)
ToBeInformed(f, t) == f.kind = "inform" /\ f.tag = t
Informed(t) ==
  \/ Starting(StatusEvent, t)
  \/ t \in listeners /\ (status # "UNKNOWN" => heard[t] = status)
  \/ \E k \in DOMAIN pushed : ToBeInformed(pushed[k], t)
StatusTold == \A t \in subscribed[StatusEvent] : Informed(t)

(* All of them.                                                            *)
Inv == /\ TypeOK /\ AppInPlace /\ FirstAlone /\ MessagesShaped
       /\ OneUnsubscribe /\ TagsUnique /\ StatusTags /\ InternalTags /\ EntriesKnown
       /\ QueueMatches /\ QueueFollows /\ HandlersGone /\ HandlersKept
       /\ Withdrawn /\ ReportsFollow /\ LoopKnown
       /\ ValuesPromised /\ StatesConfirmed /\ RequestsAnswered /\ StatusTold

USE EventsAssumption DEF Tags, Events, Signalled

-----------------------------------------------------------------------------
(* How a sequence of calls or messages changes.                            *)

(* It grows by members of N, and each of M is among those.                 *)
Grows(s, t, N, M) ==
  /\ DOMAIN s \subseteq DOMAIN t
  /\ \A k \in DOMAIN s : t[k] = s[k]
  /\ \A k \in DOMAIN t \ DOMAIN s : t[k] \in N /\ \A j \in DOMAIN s : j < k
  /\ \A m \in M : \E k \in DOMAIN t \ DOMAIN s : t[k] = m

(* Its head is taken.                                                      *)
Shrinks(s, t) ==
  /\ 1 \in DOMAIN s /\ s[1] = Head(s)
  /\ \A k \in DOMAIN t : k + 1 \in DOMAIN s /\ t[k] = s[k + 1]
  /\ \A k \in DOMAIN s : k > 1 => k - 1 \in DOMAIN t /\ t[k - 1] = s[k]

(* A sequence that is not changed grows by nothing.                        *)
LEMMA Unchanged ==
  ASSUME NEW s
  PROVE  Grows(s, s, {}, {})
BY DEF Grows

(* One more.                                                               *)
LEMMA Appending ==
  ASSUME NEW S, NEW s \in Seq(S), NEW m \in S
  PROVE  Append(s, m) \in Seq(S) /\ Grows(s, Append(s, m), {m}, {m})
<1>1. /\ Append(s, m) \in Seq(S) /\ Len(Append(s, m)) = Len(s) + 1
      /\ \A k \in 1 .. Len(s) : Append(s, m)[k] = s[k]
      /\ Append(s, m)[Len(s) + 1] = m
  OBVIOUS
<1>2. DOMAIN s = 1 .. Len(s) /\ DOMAIN Append(s, m) = 1 .. Len(s) + 1 /\ Len(s) \in Nat
  BY <1>1
<1>3. Len(s) + 1 \in DOMAIN Append(s, m) \ DOMAIN s
  BY <1>2
<1>4. \A k \in DOMAIN Append(s, m) \ DOMAIN s : k = Len(s) + 1
  BY <1>2
<1> QED
  BY <1>1, <1>2, <1>3, <1>4 DEF Grows

(* Several more.                                                           *)
LEMMA Concatenating ==
  ASSUME NEW S, NEW s \in Seq(S), NEW t \in Seq(S),
         NEW N, \A k \in DOMAIN t : t[k] \in N,
         NEW M, \A m \in M : \E k \in DOMAIN t : t[k] = m
  PROVE  s \o t \in Seq(S) /\ Grows(s, s \o t, N, M)
<1>1. /\ s \o t \in Seq(S) /\ Len(s \o t) = Len(s) + Len(t)
      /\ \A k \in 1 .. Len(s) : (s \o t)[k] = s[k]
      /\ \A k \in 1 .. Len(t) : (s \o t)[Len(s) + k] = t[k]
  OBVIOUS
<1>2. /\ DOMAIN s = 1 .. Len(s) /\ DOMAIN t = 1 .. Len(t)
      /\ DOMAIN (s \o t) = 1 .. Len(s) + Len(t) /\ Len(s) \in Nat /\ Len(t) \in Nat
  BY <1>1
<1>3. \A k \in DOMAIN (s \o t) \ DOMAIN s :
        k - Len(s) \in DOMAIN t /\ k = Len(s) + (k - Len(s)) /\ k > Len(s)
  BY <1>2
<1>4. \A k \in DOMAIN t : Len(s) + k \in DOMAIN (s \o t) \ DOMAIN s
  BY <1>2
<1>5. \A k \in DOMAIN (s \o t) \ DOMAIN s : (s \o t)[k] = t[k - Len(s)]
  BY <1>1, <1>2, <1>3
<1> DEFINE u == s \o t
<1>6. DOMAIN s \subseteq DOMAIN u /\ \A k \in DOMAIN s : u[k] = s[k]
  BY <1>1, <1>2
<1>7. \A k \in DOMAIN u \ DOMAIN s : u[k] \in N /\ \A j \in DOMAIN s : j < k
  BY <1>2, <1>3, <1>5
<1>8. ASSUME NEW m \in M PROVE \E k \in DOMAIN u \ DOMAIN s : u[k] = m
  <2>1. PICK k \in DOMAIN t : t[k] = m
    OBVIOUS
  <2>2. Len(s) + k \in DOMAIN u \ DOMAIN s /\ u[Len(s) + k] = m
    BY <1>1, <1>2, <1>4, <2>1
  <2> QED
    BY <2>2
<1> HIDE DEF u
<1>9. Grows(s, u, N, M)
  BY <1>6, <1>7, <1>8 DEF Grows
<1> QED
  BY <1>1, <1>9 DEF u

(* One less.                                                               *)
LEMMA Taking ==
  ASSUME NEW S, NEW s \in Seq(S), s # <<>>
  PROVE  Tail(s) \in Seq(S) /\ Shrinks(s, Tail(s)) /\ Head(s) \in S
<1>1. Tail(s) \in Seq(S) /\ Len(Tail(s)) = Len(s) - 1 /\ Len(s) \in Nat \ {0} /\ Head(s) \in S
  OBVIOUS
<1>2. \A k \in 1 .. Len(s) - 1 : Tail(s)[k] = s[k + 1]
  OBVIOUS
<1>3. DOMAIN s = 1 .. Len(s) /\ DOMAIN Tail(s) = 1 .. Len(s) - 1 /\ Head(s) = s[1]
  BY <1>1
<1>4. \A k \in DOMAIN s : k > 1 => k - 1 \in DOMAIN Tail(s) /\ (k - 1) + 1 = k
  BY <1>1, <1>3
<1> QED
  BY <1>1, <1>2, <1>3, <1>4 DEF Shrinks

(* A finite set as a sequence has all of its members and no other.         *)
LEMMA Ordering ==
  ASSUME NEW S, IsFiniteSet(S)
  PROVE  /\ SetToSeq(S) \in Seq(S) /\ \A k \in DOMAIN SetToSeq(S) : SetToSeq(S)[k] \in S
         /\ \A x \in S : \E k \in DOMAIN SetToSeq(S) : SetToSeq(S)[k] = x
<1> DEFINE n == Cardinality(S)
           order == SetToSeq(S)
<1>1. n \in Nat /\ ExistsBijection(1 .. n, S)
  BY FS_CardinalityType
<1>2. \E f \in [1 .. n -> S] : IsInjective(f)
  BY <1>1 DEF ExistsBijection, Bijection, Injection
<1>3. order \in [1 .. n -> S] /\ IsInjective(order)
  BY <1>2 DEF SetToSeq
<1> HIDE DEF order
<1>4. order \in Injection(1 .. n, S)
  BY <1>3 DEF Injection
<1>5. IsFiniteSet(1 .. n) /\ Cardinality(1 .. n) = n
  BY <1>1, FS_Interval
<1>6. order \in Surjection(1 .. n, S)
  BY <1>4, <1>5, FS_Injection
<1>7. order \in Seq(S)
  BY <1>1, <1>3
<1>8. /\ \A k \in DOMAIN order : order[k] \in S
      /\ \A x \in S : \E k \in DOMAIN order : order[k] = x
  BY <1>3, <1>6 DEF Surjection
<1> QED
  BY <1>7, <1>8 DEF order

-----------------------------------------------------------------------------
(* Where the thread of the application goes.                               *)

(* What it is.                                                             *)
AppTypes == [event : Events \cup {None}, pc : Places, tag : Tags \cup {None},
             flag : {"pending", "added"}]
ArrivalPlaces == {"add", "install", "queue", "value", "state", "token", "request", "inform"}
DeparturePlaces == {"dequeue", "remove", "unsubscribe", "await", "erase"}

(* It goes on with its event, or is done with it.                          *)
Moves(e, from, to) ==
  /\ app.event = e /\ app.pc = from
  /\ app' \in AppTypes /\ app'.event = e /\ app'.pc = to /\ app'.tag = app.tag
Finishes(e, from) == app.event = e /\ app.pc = from /\ app' = Idle

(* A thread that is idle has no event.                                     *)
LEMMA IdleTyped ==
  /\ Idle \in AppTypes /\ Idle.event = None /\ Idle.pc = "idle" /\ Idle.tag = None
  /\ Idle.flag = "pending" /\ Idle.event \notin Events
BY DEF Idle, AppTypes, Places

(* The types that the steps of the thread need.                            *)
LEMMA AppTyped ==
  ASSUME TypeOK
  PROVE  /\ app \in AppTypes /\ nextTag \in 1 .. MaxTags + 1
         /\ subscribed \in [Events -> SUBSET Tags]
              /\ \A e \in Events : subscribed[e] \subseteq Tags
BY DEF TypeOK, AppTypes

(* A listener that arrives is one of its event.                            *)
LEMMA Arrived ==
  ASSUME TypeOK, AppInPlace, NEW e \in Events, app.event = e, app.pc \in ArrivalPlaces
  PROVE  /\ Arrives(e, app.pc) /\ app.tag \in subscribed[e] /\ app.tag \in Tags
         /\ subscribed[e] # {} /\ app.tag # None
<1>1. app # Idle /\ ~Departs(e, app.pc)
  BY IdleTyped DEF ArrivalPlaces, Departs
<1> QED
  BY <1>1, AppTyped DEF AppInPlace

(* When the last one departs, nobody is left.                              *)
LEMMA Departed ==
  ASSUME TypeOK, AppInPlace, NEW e \in Events, app.event = e, app.pc \in DeparturePlaces
  PROVE  Departs(e, app.pc) /\ subscribed[e] = {}
<1>1. app # Idle /\ ~Arrives(e, app.pc)
  BY IdleTyped DEF DeparturePlaces, Arrives
<1> QED
  BY <1>1 DEF AppInPlace

(* It goes to a place, and carries the listener and the flag with it.      *)
LEMMA Going ==
  ASSUME TypeOK, NEW e, NEW from, At(e, from), NEW pc \in Places, Goto(pc)
  PROVE  /\ pc # "idle" => Moves(e, from, pc) /\ app'.flag = app.flag
         /\ pc = "idle" => Finishes(e, from)
BY AppTyped DEF At, Goto, Moves, Finishes, AppTypes

(* It adds a listener.                                                     *)
LEMMA Subscribes ==
  ASSUME TypeOK, NEW e \in Events, Subscribe(e)
  PROVE  /\ app = Idle /\ app' \in AppTypes /\ app'.event = e /\ app'.tag = nextTag
         /\ app'.flag = "pending"
         /\ app'.pc = IF subscribed[e] = {} THEN OnFirstListenerAdded(e) ELSE OnListenerAdded(e)
         /\ nextTag \in Tags /\ nextTag' = nextTag + 1
         /\ subscribed' = [f \in Events |-> IF f = e THEN subscribed[e] \cup {nextTag}
              ELSE subscribed[f]]
<1>1. OnFirstListenerAdded(e) \in Places /\ OnListenerAdded(e) \in Places
  BY DEF OnFirstListenerAdded, OnListenerAdded, Places
<1> QED
  BY <1>1, AppTyped DEF Subscribe, AppTypes

(* The steps of adding one: from the look at the status.                   *)
LEMMA AddsHandler ==
  ASSUME TypeOK, NEW x \in Attributes, AddHandler(x)
  PROVE  /\ IsAvailable => Moves(x, "add", "install")
         /\ ~IsAvailable => Moves(x, "add", "queue")
         /\ app'.flag = app.flag
BY Going DEF AddHandler, Places

(* From the handler at the connection.                                     *)
LEMMA InstallsHandler ==
  ASSUME TypeOK, NEW e \in Events, InstallHandler(e)
  PROVE  /\ e \in Attributes => Moves(e, "install", "queue")
         /\ e \in Selectives => Moves(e, "install", "token")
         /\ e \notin Attributes \cup Selectives => Moves(e, "install", "state")
         /\ app'.flag = "added" /\ installed' = installed \cup {e}
<1> DEFINE pc == IF e \in Attributes THEN "queue" ELSE IF e \in Selectives THEN "token"
  ELSE "state"
<1>1. app.event = e /\ app.pc = "install" /\ app' = [app EXCEPT !.flag = "added", !.pc = pc]
  BY DEF InstallHandler, At
<1>2. pc \in Places
  BY DEF Places
<1>3. Moves(e, "install", pc) /\ app'.flag = "added"
  <2> HIDE DEF pc
  <2> QED
    BY <1>1, <1>2, AppTyped DEF Moves, AppTypes
<1> QED
  BY <1>3 DEF InstallHandler

(* From the queue.                                                         *)
LEMMA AddsToQueue ==
  ASSUME TypeOK, NEW x \in Attributes, AddToQueue(x)
  PROVE  Moves(x, "queue", "value") /\ app'.flag = app.flag
BY Going DEF AddToQueue, Places

(* From the call for the value.                                            *)
LEMMA GetsCurrentValue ==
  ASSUME TypeOK, NEW e \in Events, GetCurrentValue(e)
  PROVE  /\ e \in Legacy => Finishes(e, "value")
         /\ e \notin Legacy => Moves(e, "value", "state")
BY Going DEF GetCurrentValue, Places

(* From the table of states.                                               *)
LEMMA AddsSignalStateHandler ==
  ASSUME TypeOK, NEW e \in Events, AddSignalStateHandler(e)
  PROVE  /\ e \in Legacy => Moves(e, "state", "value")
         /\ e \notin Legacy => Finishes(e, "state")
BY Going DEF AddSignalStateHandler, Places

(* From the entry of a selective event.                                    *)
LEMMA SetsSubscriptionToken ==
  ASSUME TypeOK, NEW x \in Selectives, SetSubscriptionToken(x)
  PROVE  Moves(x, "token", "request")
BY Going DEF SetSubscriptionToken, Places

(* From the request to the stub.                                           *)
LEMMA RequestsSubscription ==
  ASSUME TypeOK, NEW x \in Selectives, RequestSubscription(x)
  PROVE  Finishes(x, "request")
BY Going DEF RequestSubscription, Places

(* From the function that informs a status listener.                       *)
LEMMA PushesInform ==
  ASSUME TypeOK, PushInform
  PROVE  Finishes(StatusEvent, "inform")
BY Going DEF PushInform, Places

(* It removes a listener.                                                  *)
LEMMA Unsubscribes ==
  ASSUME TypeOK, NEW e \in Events, NEW t \in Tags, Unsubscribe(e, t)
  PROVE  /\ app = Idle /\ t \in subscribed[e]
         /\ subscribed' = [f \in Events |-> IF f = e THEN subscribed[e] \ {t} ELSE subscribed[f]]
         /\ subscribed[e] = {t} /\ e # StatusEvent =>
              /\ app' \in AppTypes /\ app'.event = e /\ app'.tag = None /\ app'.flag = "pending"
              /\ app'.pc = OnLastListenerRemoved(e)
         /\ subscribed[e] # {t} \/ e = StatusEvent => app' = Idle
<1>1. OnLastListenerRemoved(e) \in Places
  BY DEF OnLastListenerRemoved, Places
<1> QED
  BY <1>1, AppTyped, IdleTyped DEF Unsubscribe, AppTypes, Idle

(* The steps of removing the last one: from the queue.                     *)
LEMMA RemovesFromQueue ==
  ASSUME TypeOK, NEW x \in Attributes, RemoveFromQueue(x)
  PROVE  Moves(x, "dequeue", "remove") /\ app'.flag = app.flag
BY Going DEF RemoveFromQueue, Places

(* From the handler at the connection, which may be gone already.          *)
LEMMA RemovesHandler ==
  ASSUME TypeOK, NEW e \in Events, RemoveHandler(e)
  PROVE  /\ e \notin Selectives => Finishes(e, "remove")
         /\ e \in Selectives /\ e \in installed => Moves(e, "remove", "unsubscribe")
         /\ e \in Selectives /\ e \notin installed => Moves(e, "remove", "erase")
         /\ installed' = installed \ {e}
BY Going DEF RemoveHandler, Places

(* From the call to the stub, made if the service is available.            *)
LEMMA CallsUnsubscribe ==
  ASSUME TypeOK, NEW x \in Selectives, CallUnsubscribe(x)
  PROVE  /\ IsAvailable => Moves(x, "unsubscribe", "await")
         /\ ~IsAvailable => Moves(x, "unsubscribe", "erase")
BY Going DEF CallUnsubscribe, Places

(* From the entry.                                                         *)
LEMMA ErasesEntry ==
  ASSUME TypeOK, NEW x \in Selectives, EraseEntry(x)
  PROVE  Finishes(x, "erase")
BY Going DEF EraseEntry, Places

(* The answer to a blocking call wakes it.                                 *)
LEMMA ServeMoves ==
  ASSUME TypeOK, MessagesShaped, OneUnsubscribe, Serve
  PROVE  /\ outgoing # <<>> /\ Head(outgoing) \in Messages
         /\ Head(outgoing).kind = "unsubscribe" =>
              /\ Head(outgoing).event \in Selectives
              /\ Moves(Head(outgoing).event, "await", "erase")
              /\ UNCHANGED incoming
         /\ Head(outgoing).kind # "unsubscribe" =>
              /\ UNCHANGED app
              /\ \E answer \in {"yes", "no", "failed"} :
                   /\ incoming' = Append(incoming, [Head(outgoing) EXCEPT !.answer = answer])
                   /\ service = "down" => answer = "failed"
                   /\ service = "up" => answer # "failed"
                   /\ answer = "no" => Head(outgoing).kind \in Requests
<1> DEFINE m == Head(outgoing)
<1>1. outgoing # <<>> /\ outgoing \in Seq(Messages)
  BY DEF Serve, TypeOK
<1>2. m \in Messages /\ 1 \in DOMAIN outgoing /\ outgoing[1] = m
  BY <1>1, Taking DEF Shrinks
<1>3. m.kind = "unsubscribe" => m.event \in Selectives /\ At(m.event, "await")
  BY <1>2 DEF MessagesShaped, Shaped, OneUnsubscribe
<1>4. \E answer \in {"yes", "no", "failed"} :
        /\ Answer(m, answer)
        /\ service = "down" => answer = "failed"
        /\ service = "up" => answer # "failed"
        /\ answer = "no" => m.kind \in Requests
  BY DEF Serve, Requests
<1> HIDE DEF m
<1>5. CASE m.kind = "unsubscribe"
  <2>1. Goto("erase") /\ UNCHANGED incoming
    BY <1>4, <1>5 DEF Answer
  <2>2. Moves(m.event, "await", "erase")
    BY <1>3, <1>5, <2>1, Going DEF Places
  <2> QED
    BY <1>1, <1>2, <1>3, <1>5, <2>1, <2>2 DEF m
<1>6. CASE m.kind # "unsubscribe"
  BY <1>1, <1>2, <1>4, <1>6 DEF Answer, m
<1> QED
  BY <1>5, <1>6 DEF m

-----------------------------------------------------------------------------
(* What is sent, received and pushed.                                      *)

(* Calls of N are sent, among them all those of M; messages are received;  *)
(* functions are pushed.                                                   *)
Sends(N, M) == outgoing' \in Seq(Messages) /\ Grows(outgoing, outgoing', N, M)
Receives(N, M) == incoming' \in Seq(Messages) /\ Grows(incoming, incoming', N, M)
Pushes(N, M) == pushed' \in Seq(Functions) /\ Grows(pushed, pushed', N, M)

(* The first of them is served, dispatched or run.                         *)
ServesOne == outgoing' \in Seq(Messages) /\ outgoing # <<>> /\ Shrinks(outgoing, outgoing')
TakesOne == incoming' \in Seq(Messages) /\ incoming # <<>> /\ Shrinks(incoming, incoming')
RunsOne == pushed' \in Seq(Functions) /\ pushed # <<>> /\ Shrinks(pushed, pushed')

(* The types of the sequences.                                             *)
LEMMA SequencesTyped ==
  ASSUME TypeOK
  PROVE  outgoing \in Seq(Messages) /\ incoming \in Seq(Messages) /\ pushed \in Seq(Functions)
BY DEF TypeOK

(* Nothing more is sent.                                                   *)
LEMMA SendsNothing ==
  ASSUME TypeOK, UNCHANGED outgoing
  PROVE  Sends({}, {})
BY SequencesTyped, Unchanged DEF Sends

(* The types of what is sent.                                              *)
LEMMA CallsTyped ==
  /\ \A e \in Signalled, t \in Tags : Call("initial", e, t) \in Messages
  /\ \A x \in Attributes : Call("get", x, None) \in Messages
  /\ \A x \in Selectives : Call("unsubscribe", x, None) \in Messages
  /\ \A x \in Selectives, t \in Tags : /\ Call("subscribe", x, t) \in Messages
                                       /\ Call("resubscribe", x, t) \in Messages
  /\ \A st \in Statuses : Report(st) \in Messages
BY DEF Call, Report, Message, Messages, Statuses

(* A call for the value, for a listener that has come.                     *)
LEMMA GetsSends ==
  ASSUME TypeOK, AppInPlace, NEW e \in Events, GetCurrentValue(e)
  PROVE  /\ e \in Attributes \cup Legacy /\ app.tag \in Tags
         /\ IsAvailable => Sends({Call("initial", e, app.tag)}, {Call("initial", e, app.tag)})
         /\ ~IsAvailable => UNCHANGED outgoing
<1>1. app.event = e /\ app.pc = "value"
  BY DEF GetCurrentValue, At
<1>2. e \in Attributes \cup Legacy /\ app.tag \in Tags
  BY <1>1, Arrived DEF ArrivalPlaces, Arrives
<1> DEFINE m == Call("initial", e, app.tag)
<1>3. m \in Messages
  BY <1>2, CallsTyped
<1>4. outgoing' = IF IsAvailable THEN Append(outgoing, m) ELSE outgoing
  BY DEF GetCurrentValue
<1> HIDE DEF m
<1>5. IsAvailable => Sends({m}, {m})
  BY <1>3, <1>4, SequencesTyped, Appending DEF Sends
<1> QED
  BY <1>2, <1>4, <1>5 DEF m

(* A call for a selective event.                                           *)
LEMMA RequestSends ==
  ASSUME TypeOK, AppInPlace, NEW x \in Selectives, RequestSubscription(x)
  PROVE  /\ app.event = x /\ app.pc = "request" /\ app.tag \in Tags
         /\ IsAvailable => Sends({Call("subscribe", x, app.tag)}, {Call("subscribe", x, app.tag)})
         /\ ~IsAvailable => UNCHANGED outgoing
<1>1. app.event = x /\ app.pc = "request"
  BY DEF RequestSubscription, At
<1>2. app.tag \in Tags
  BY <1>1, Arrived DEF ArrivalPlaces
<1> DEFINE m == Call("subscribe", x, app.tag)
<1>3. m \in Messages
  BY <1>2, CallsTyped
<1>4. outgoing' = IF IsAvailable THEN Append(outgoing, m) ELSE outgoing
  BY DEF RequestSubscription
<1> HIDE DEF m
<1>5. IsAvailable => Sends({m}, {m})
  BY <1>3, <1>4, SequencesTyped, Appending DEF Sends
<1> QED
  BY <1>1, <1>2, <1>4, <1>5 DEF m

(* And one for its end.                                                    *)
LEMMA UnsubscribeSends ==
  ASSUME TypeOK, NEW x \in Selectives, CallUnsubscribe(x)
  PROVE  /\ IsAvailable => Sends({Call("unsubscribe", x, None)}, {Call("unsubscribe", x, None)})
         /\ ~IsAvailable => UNCHANGED outgoing
<1> DEFINE m == Call("unsubscribe", x, None)
<1>1. m \in Messages
  BY CallsTyped
<1>2. IsAvailable => outgoing' = Append(outgoing, m)
  BY DEF CallUnsubscribe
<1> HIDE DEF m
<1>3. Append(outgoing, m) \in Seq(Messages) /\ Grows(outgoing, Append(outgoing, m), {m}, {m})
  BY <1>1, SequencesTyped, Appending
<1>4. IsAvailable => Sends({m}, {m})
  BY <1>2, <1>3 DEF Sends
<1> QED
  BY <1>4 DEF m, CallUnsubscribe

(* The image of a finite set is finite.                                    *)
LEMMA Finite ==
  ASSUME NEW S \in SUBSET (Attributes \cup Selectives), NEW f, DOMAIN f = S,
         f = [x \in S |-> f[x]],
         NEW T, T = {f[x] : x \in S}
  PROVE  IsFiniteSet(T)
<1>1. IsFiniteSet(S)
  BY FS_Subset
<1>2. f \in Surjection(S, T)
  BY DEF Surjection
<1> QED
  BY <1>1, <1>2, FS_Surjection

(* What the loop asks for when the service has come: the values of the     *)
(* attributes that wait, and the selective events that have an entry.      *)
Gets == {Call("get", x, None) : x \in Waiting}
Pending == {x \in Selectives : selective[x] # None}
Resubscribes == {Call("resubscribe", x, selective[x]) : x \in Pending}

(* The calls for the values that wait.                                     *)
LEMMA GetsTyped ==
  /\ Gets \subseteq Messages /\ IsFiniteSet(Gets)
  /\ \A m \in Gets : m.kind = "get" /\ m.event \in Attributes
  /\ \A x \in Waiting : \E m \in Gets : m.kind = "get" /\ m.event = x
<1>1. Waiting \subseteq Attributes
  BY DEF Waiting
<1>2. Gets \subseteq Messages
  BY <1>1, CallsTyped DEF Gets
<1>3. \A x \in Attributes : Call("get", x, None).kind = "get" /\ Call("get", x, None).event = x
  BY DEF Call, Message
<1>4. IsFiniteSet(Gets)
  <2> DEFINE f == [x \in Waiting |-> Call("get", x, None)]
  <2>1. DOMAIN f = Waiting /\ f = [x \in Waiting |-> f[x]] /\ Gets = {f[x] : x \in Waiting}
    BY DEF Gets
  <2> HIDE DEF f
  <2> QED
    BY <1>1, <2>1, Finite
<1>5. \A x \in Waiting : \E m \in Gets : m.kind = "get" /\ m.event = x
  BY <1>1, <1>3 DEF Gets
<1> QED
  BY <1>1, <1>2, <1>3, <1>4, <1>5 DEF Gets

(* The calls for the entries there are.                                    *)
LEMMA ResubscribesTyped ==
  ASSUME TypeOK
  PROVE  /\ Resubscribes \subseteq Messages /\ IsFiniteSet(Resubscribes)
         /\ \A m \in Resubscribes : /\ m.kind = "resubscribe" /\ m.event \in Selectives
                                    /\ m.tag = selective[m.event] /\ m.tag # None
         /\ \A x \in Selectives : selective[x] # None =>
              \E m \in Resubscribes : m.kind = "resubscribe" /\ m.event = x
                /\ m.tag = selective[x]
<1>1. Pending \subseteq Selectives /\ \A x \in Pending : selective[x] \in Tags
      /\ selective[x] # None
  BY DEF Pending, TypeOK
<1>2. \A x \in Pending : Call("resubscribe", x, selective[x]) \in Messages
  BY <1>1, CallsTyped
<1>3. \A x \in Pending : /\ Call("resubscribe", x, selective[x]).kind = "resubscribe"
                         /\ Call("resubscribe", x, selective[x]).event = x
                         /\ Call("resubscribe", x, selective[x]).tag = selective[x]
  BY DEF Call, Message
<1>4. IsFiniteSet(Resubscribes)
  <2> DEFINE f == [x \in Pending |-> Call("resubscribe", x, selective[x])]
  <2>1. /\ DOMAIN f = Pending /\ f = [x \in Pending |-> f[x]]
        /\ Resubscribes = {f[x] : x \in Pending}
    BY DEF Resubscribes
  <2> HIDE DEF f
  <2> QED
    BY <1>1, <2>1, Finite
<1>5. \A m \in Resubscribes : \E x \in Pending : m = Call("resubscribe", x, selective[x])
  BY DEF Resubscribes
<1>6. \A x \in Pending : Call("resubscribe", x, selective[x]) \in Resubscribes
  BY DEF Resubscribes
<1>7. \A x \in Selectives : selective[x] # None => x \in Pending
  BY DEF Pending
<1> QED
  BY <1>1, <1>2, <1>3, <1>4, <1>5, <1>6, <1>7

(* A finite set of calls is sent.                                          *)
LEMMA SendsAll ==
  ASSUME TypeOK, NEW S \in SUBSET Messages, IsFiniteSet(S), outgoing' = outgoing \o SetToSeq(S)
  PROVE  Sends(S, S)
<1> DEFINE t == SetToSeq(S)
<1>1. /\ t \in Seq(S) /\ \A k \in DOMAIN t : t[k] \in S
      /\ \A m \in S : \E k \in DOMAIN t : t[k] = m
  BY Ordering
<1>2. outgoing' = outgoing \o t
  OBVIOUS
<1> HIDE DEF t
<1>3. t \in Seq(Messages)
  BY <1>1
<1>4. outgoing \in Seq(Messages)
  BY SequencesTyped
<1>5. outgoing \o t \in Seq(Messages) /\ Grows(outgoing, outgoing \o t, S, S)
  BY <1>1, <1>3, <1>4, Concatenating
<1> QED
  BY <1>2, <1>5 DEF Sends

(* The pass over the queue sends the ones.                                 *)
LEMMA QueuedSends ==
  ASSUME TypeOK, AddQueuedHandlers
  PROVE  Sends(Gets, Gets)
BY GetsTyped, SendsAll DEF AddQueuedHandlers, Gets

(* The pass over the entries sends the others.                             *)
LEMMA PendingSends ==
  ASSUME TypeOK, SendPendingSubscriptions
  PROVE  Sends(Resubscribes, Resubscribes)
BY ResubscribesTyped, SendsAll DEF SendPendingSubscriptions, Resubscribes, Pending

(* The service serves one.                                                 *)
LEMMA Serves ==
  ASSUME TypeOK, Serve
  PROVE  ServesOne
BY SequencesTyped, Taking DEF Serve, ServesOne

(* It answers in the order of the calls; the bus reports in order, too.    *)
LEMMA ServeReceives ==
  ASSUME TypeOK, MessagesShaped, OneUnsubscribe, Serve, Head(outgoing).kind # "unsubscribe"
  PROVE  \E m \in Messages :
           /\ Receives({m}, {m})
           /\ m.kind = Head(outgoing).kind /\ m.event = Head(outgoing).event
           /\ m.tag = Head(outgoing).tag
           /\ m.answer \in {"yes", "no", "failed"}
           /\ service = "down" => m.answer = "failed"
           /\ service = "up" => m.answer # "failed"
           /\ m.answer = "no" => m.kind \in Requests
<1>1. Head(outgoing) \in Messages
  BY ServeMoves
<1>2. PICK answer \in {"yes", "no", "failed"} :
        /\ incoming' = Append(incoming, [Head(outgoing) EXCEPT !.answer = answer])
        /\ service = "down" => answer = "failed"
        /\ service = "up" => answer # "failed"
        /\ answer = "no" => Head(outgoing).kind \in Requests
  BY ServeMoves
<1> DEFINE m == [Head(outgoing) EXCEPT !.answer = answer]
<1>3. /\ m \in Messages /\ m.kind = Head(outgoing).kind /\ m.event = Head(outgoing).event
      /\ m.tag = Head(outgoing).tag /\ m.answer = answer
  BY <1>1 DEF Messages
<1>4. incoming' = Append(incoming, m)
  BY <1>2
<1> HIDE DEF m
<1>5. Receives({m}, {m})
  BY <1>3, <1>4, SequencesTyped, Appending DEF Receives
<1> QED
  BY <1>2, <1>3, <1>5

(* The bus reports that the service has come or gone.                      *)
LEMMA ToggleReceives ==
  ASSUME TypeOK, Toggle
  PROVE  \E m \in Messages :
           /\ Receives({m}, {m}) /\ m.kind = "status" /\ m.event = None
           /\ m.answer = IF service = "up" THEN "NOT_AVAILABLE" ELSE "AVAILABLE"
<1> DEFINE st == IF service = "up" THEN "NOT_AVAILABLE" ELSE "AVAILABLE"
           m == Report(st)
<1>1. incoming' = Append(incoming, m)
  BY DEF Toggle
<1>2. m \in Messages
  BY CallsTyped DEF Statuses
<1>3. m.kind = "status" /\ m.event = None /\ m.answer = st
  BY DEF Report, Message
<1> HIDE DEF m
<1>4. Receives({m}, {m})
  BY <1>1, <1>2, SequencesTyped, Appending DEF Receives
<1> QED
  BY <1>2, <1>3, <1>4

(* The loop dispatches one.                                                *)
LEMMA Dispatches ==
  ASSUME TypeOK, StatusReported \/ ValueReceived \/ SubscriptionAnswered
  PROVE  /\ TakesOne /\ 1 \in DOMAIN incoming /\ incoming[1] = Head(incoming)
         /\ Head(incoming) \in Messages
<1>1. incoming # <<>> /\ incoming' = Tail(incoming)
  BY DEF StatusReported, ValueReceived, SubscriptionAnswered
<1> QED
  BY <1>1, SequencesTyped, Taking DEF TakesOne, Shrinks

(* Functions are pushed, and run.                                          *)
LEMMA StatePushes ==
  ASSUME TypeOK, AppInPlace, NEW e \in Events, AddSignalStateHandler(e)
  PROVE  /\ e \in Attributes \cup Broadcasts \cup Legacy /\ app.tag \in Tags
         /\ \E f \in Functions : Pushes({f}, {f}) /\ f.kind = "succeed" /\ f.tag = app.tag
<1>1. app.event = e /\ app.pc = "state"
  BY DEF AddSignalStateHandler, At
<1>2. e \in Attributes \cup Broadcasts \cup Legacy /\ app.tag \in Tags
  BY <1>1, Arrived DEF ArrivalPlaces, Arrives
<1> DEFINE f == [kind |-> "succeed", tag |-> app.tag]
<1>3. f \in Functions /\ f.kind = "succeed" /\ f.tag = app.tag
  BY <1>2 DEF Functions
<1>4. pushed' = Append(pushed, f)
  BY DEF AddSignalStateHandler
<1> HIDE DEF f
<1>5. Pushes({f}, {f})
  BY <1>3, <1>4, SequencesTyped, Appending DEF Pushes
<1> QED
  BY <1>2, <1>3, <1>5

(* A status listener that comes is to be informed.                         *)
LEMMA InformPushes ==
  ASSUME TypeOK, AppInPlace, PushInform
  PROVE  /\ app.tag \in subscribed[StatusEvent] /\ app.tag \in Tags
         /\ \E f \in Functions : Pushes({f}, {f}) /\ f.kind = "inform" /\ f.tag = app.tag
<1>1. app.event = StatusEvent /\ app.pc = "inform"
  BY DEF PushInform, At
<1>2. app.tag \in subscribed[StatusEvent] /\ app.tag \in Tags
  BY <1>1, Arrived DEF ArrivalPlaces
<1> DEFINE f == [kind |-> "inform", tag |-> app.tag]
<1>3. f \in Functions /\ f.kind = "inform" /\ f.tag = app.tag
  BY <1>2 DEF Functions
<1>4. pushed' = Append(pushed, f)
  BY DEF PushInform
<1> HIDE DEF f
<1>5. Pushes({f}, {f})
  BY <1>3, <1>4, SequencesTyped, Appending DEF Pushes
<1> QED
  BY <1>2, <1>3, <1>5

(* All states are to be told again when the service returns.               *)
LEMMA PendingPushes ==
  ASSUME TypeOK, SendPendingSubscriptions
  PROVE  /\ everAvailable => \E f \in Functions : Pushes({f}, {f}) /\ f.kind = "states"
         /\ ~everAvailable => UNCHANGED pushed
<1> DEFINE f == [kind |-> "states", tag |-> None]
<1>1. f \in Functions /\ f.kind = "states"
  BY DEF Functions
<1>2. pushed' = IF everAvailable THEN Append(pushed, f) ELSE pushed
  BY DEF SendPendingSubscriptions
<1> HIDE DEF f
<1>3. everAvailable => Pushes({f}, {f})
  BY <1>1, <1>2, SequencesTyped, Appending DEF Pushes
<1> QED
  BY <1>1, <1>2, <1>3

(* The loop runs one function.                                             *)
LEMMA Runs ==
  ASSUME TypeOK, NotifySpecificListener \/ HandleSignalStates
  PROVE  /\ RunsOne /\ 1 \in DOMAIN pushed /\ pushed[1] = Head(pushed)
         /\ Head(pushed) \in Functions
<1>1. pushed # <<>> /\ pushed' = Tail(pushed)
  BY DEF NotifySpecificListener, HandleSignalStates
<1> QED
  BY <1>1, SequencesTyped, Taking DEF RunsOne, Shrinks

-----------------------------------------------------------------------------
(* The steps.                                                              *)

(* The actions.                                                            *)
Step ==
  \/ UNCHANGED vars
  \/ \E e \in Events :
       \/ Subscribe(e) \/ InstallHandler(e) \/ GetCurrentValue(e) \/ AddSignalStateHandler(e)
       \/ RemoveHandler(e)
  \/ \E e \in Events, t \in Tags : Unsubscribe(e, t)
  \/ \E x \in Attributes : AddHandler(x) \/ AddToQueue(x) \/ RemoveFromQueue(x)
  \/ \E x \in Selectives :
       \/ SetSubscriptionToken(x) \/ RequestSubscription(x)
       \/ CallUnsubscribe(x) \/ EraseEntry(x)
  \/ PushInform
  \/ StatusReported \/ AddQueuedHandlers \/ RemoveQueuedHandlers \/ SendPendingSubscriptions
  \/ ValueReceived \/ SubscriptionAnswered \/ NotifySpecificListener \/ HandleSignalStates
  \/ Serve \/ Toggle

(* Every step is one of them.                                              *)
LEMMA StepOfNext ==
  ASSUME [Next]_vars
  PROVE  Step
BY DEF Next, Step, AppNext, AttributeNext, SelectiveNext, LoopNext

-----------------------------------------------------------------------------
(* The types.                                                              *)

(* The conjuncts of the type invariant, for variables that change together.*)
BusOK == service \in {"up", "down"} /\ toggles \in 0 .. MaxToggles
  /\ subscribers \subseteq Selectives
OutgoingOK == outgoing \in Seq(Messages)
IncomingOK == incoming \in Seq(Messages)
PushedOK == pushed \in Seq(Functions)
LoopOK == /\ status \in Statuses /\ everAvailable \in BOOLEAN
          /\ loop \in {"idle", "handlers", "selective"}
HandlersOK == queue \in [Attributes -> {"absent", "pending", "added"}]
  /\ installed \subseteq Signalled
TablesOK == /\ states \subseteq Tags /\ listeners \subseteq Tags
            /\ selective \in [Selectives -> Tags \cup {None}]
            /\ internal \in [Legacy -> Tags \cup {None}]
AppOK == app \in AppTypes
TagsOK == nextTag \in 1 .. MaxTags + 1 /\ subscribed \in [Events -> SUBSET Tags]
HeardOK == heard \in [Tags -> Statuses \cup {"value", "nothing"}]
ToldOK == /\ confirmed \subseteq Tags /\ refused \subseteq Tags
          /\ denied \subseteq Selectives /\ overtaken \subseteq Signalled

(* Together they are the type invariant.                                   *)
LEMMA TypesSplit ==
  TypeOK <=> /\ BusOK /\ OutgoingOK /\ IncomingOK /\ PushedOK /\ LoopOK /\ HandlersOK
             /\ TablesOK /\ AppOK /\ TagsOK /\ HeardOK /\ ToldOK
BY DEF TypeOK, BusOK, OutgoingOK, IncomingOK, PushedOK, LoopOK, HandlersOK, TablesOK, AppOK,
  TagsOK, HeardOK, ToldOK, AppTypes

(* The service and the stub.                                               *)
LEMMA BusTyped ==
  ASSUME TypeOK, BusOK, MessagesShaped, [Next]_vars
  PROVE  BusOK'
<1>1. ASSUME UNCHANGED <<service, toggles, subscribers>> PROVE BusOK'
  BY <1>1 DEF BusOK
<1>2. CASE UNCHANGED vars
  BY <1>1, <1>2 DEF vars, busVars
<1>3. CASE PushInform \/ StatusReported \/ AddQueuedHandlers \/ RemoveQueuedHandlers
  BY <1>1, <1>3 DEF PushInform, StatusReported, AddQueuedHandlers,
    RemoveQueuedHandlers, busVars
<1>4. CASE SendPendingSubscriptions \/ ValueReceived \/ SubscriptionAnswered
      \/ NotifySpecificListener
  BY <1>1, <1>4 DEF SendPendingSubscriptions, ValueReceived,
    SubscriptionAnswered, NotifySpecificListener, busVars
<1>5. CASE HandleSignalStates
  BY <1>1, <1>5 DEF HandleSignalStates, busVars
<1>6. ASSUME NEW e \in Events,
              Subscribe(e) \/ InstallHandler(e) \/ GetCurrentValue(e) \/ AddSignalStateHandler(e)
                \/ RemoveHandler(e)
       PROVE  BusOK'
  BY <1>1, <1>6 DEF Subscribe, InstallHandler, GetCurrentValue,
    AddSignalStateHandler, RemoveHandler, busVars
<1>7. ASSUME NEW x \in Attributes,
              AddHandler(x) \/ AddToQueue(x) \/ RemoveFromQueue(x)
       PROVE  BusOK'
  BY <1>1, <1>7 DEF AddHandler, AddToQueue, RemoveFromQueue, busVars
<1>8. ASSUME NEW x \in Selectives,
              SetSubscriptionToken(x) \/ RequestSubscription(x) \/ CallUnsubscribe(x)
                \/ EraseEntry(x)
       PROVE  BusOK'
  BY <1>1, <1>8 DEF SetSubscriptionToken, RequestSubscription,
    CallUnsubscribe, EraseEntry, busVars
<1>9. ASSUME NEW e \in Events, NEW t \in Tags,
              Unsubscribe(e, t)
       PROVE  BusOK'
  BY <1>1, <1>9 DEF Unsubscribe, busVars
<1>10. CASE Serve
  <2>1. Head(outgoing) \in Messages /\ 1 \in DOMAIN outgoing /\ outgoing[1] = Head(outgoing)
    BY <1>10, Serves, SequencesTyped, Taking DEF ServesOne, Shrinks
  <2>2. Head(outgoing).kind \in Requests => Head(outgoing).event \in Selectives
    BY <2>1 DEF MessagesShaped, Shaped
  <2>3. subscribers' \subseteq subscribers \cup (IF Head(outgoing).kind \in Requests
        THEN {Head(outgoing).event} ELSE {})
    BY <1>10 DEF Serve, Requests
  <2> QED
    BY <1>10, <2>2, <2>3, TypesSplit DEF Serve, BusOK
<1>11. CASE Toggle
  BY <1>11, TypesSplit DEF Toggle, BusOK
<1> QED
  BY StepOfNext, <1>2, <1>3, <1>4, <1>5, <1>6, <1>7, <1>8, <1>9, <1>10, <1>11 DEF Step

(* The calls.                                                              *)
LEMMA OutgoingTyped ==
  ASSUME TypeOK, OutgoingOK, AppInPlace, [Next]_vars
  PROVE  OutgoingOK'
<1>1. ASSUME UNCHANGED <<outgoing>> PROVE OutgoingOK'
  BY <1>1 DEF OutgoingOK
<1>2. CASE UNCHANGED vars
  BY <1>1, <1>2 DEF vars, busVars
<1>3. CASE PushInform \/ StatusReported \/ RemoveQueuedHandlers \/ ValueReceived
  BY <1>1, <1>3 DEF PushInform, StatusReported, RemoveQueuedHandlers,
    ValueReceived, busVars
<1>4. CASE SubscriptionAnswered \/ NotifySpecificListener \/ HandleSignalStates \/ Toggle
  BY <1>1, <1>4 DEF SubscriptionAnswered, NotifySpecificListener,
    HandleSignalStates, Toggle, busVars
<1>5. ASSUME NEW e \in Events,
              Subscribe(e) \/ InstallHandler(e) \/ AddSignalStateHandler(e) \/ RemoveHandler(e)
       PROVE  OutgoingOK'
  BY <1>1, <1>5 DEF Subscribe, InstallHandler, AddSignalStateHandler,
    RemoveHandler, busVars
<1>6. ASSUME NEW x \in Attributes,
              AddHandler(x) \/ AddToQueue(x) \/ RemoveFromQueue(x)
       PROVE  OutgoingOK'
  BY <1>1, <1>6 DEF AddHandler, AddToQueue, RemoveFromQueue, busVars
<1>7. ASSUME NEW x \in Selectives,
              SetSubscriptionToken(x) \/ EraseEntry(x)
       PROVE  OutgoingOK'
  BY <1>1, <1>7 DEF SetSubscriptionToken, EraseEntry, busVars
<1>8. ASSUME NEW e \in Events, NEW t \in Tags,
              Unsubscribe(e, t)
       PROVE  OutgoingOK'
  BY <1>1, <1>8 DEF Unsubscribe, busVars
<1>9. ASSUME NEW e \in Events, GetCurrentValue(e) PROVE OutgoingOK'
  BY <1>9, <1>1, GetsSends DEF Sends, OutgoingOK
<1>10. ASSUME NEW x \in Selectives, RequestSubscription(x) PROVE OutgoingOK'
  BY <1>10, <1>1, RequestSends DEF Sends, OutgoingOK
<1>11. ASSUME NEW x \in Selectives, CallUnsubscribe(x) PROVE OutgoingOK'
  BY <1>11, <1>1, UnsubscribeSends DEF Sends, OutgoingOK
<1>12. CASE AddQueuedHandlers
  BY <1>12, QueuedSends DEF Sends, OutgoingOK
<1>13. CASE SendPendingSubscriptions
  BY <1>13, PendingSends DEF Sends, OutgoingOK
<1>14. CASE Serve
  BY <1>14, Serves DEF ServesOne, OutgoingOK
<1> QED
  BY StepOfNext, <1>2, <1>3, <1>4, <1>5, <1>6, <1>7, <1>8, <1>9, <1>10, <1>11,
    <1>12, <1>13, <1>14 DEF Step

(* The messages.                                                           *)
LEMMA IncomingTyped ==
  ASSUME TypeOK, IncomingOK, MessagesShaped, OneUnsubscribe, [Next]_vars
  PROVE  IncomingOK'
<1>1. ASSUME UNCHANGED <<incoming>> PROVE IncomingOK'
  BY <1>1 DEF IncomingOK
<1>2. CASE UNCHANGED vars
  BY <1>1, <1>2 DEF vars, busVars
<1>3. CASE PushInform \/ AddQueuedHandlers \/ RemoveQueuedHandlers \/ SendPendingSubscriptions
  BY <1>1, <1>3 DEF PushInform, AddQueuedHandlers, RemoveQueuedHandlers,
    SendPendingSubscriptions, busVars
<1>4. CASE NotifySpecificListener \/ HandleSignalStates
  BY <1>1, <1>4 DEF NotifySpecificListener, HandleSignalStates, busVars
<1>5. ASSUME NEW e \in Events,
              Subscribe(e) \/ InstallHandler(e) \/ GetCurrentValue(e) \/ AddSignalStateHandler(e)
                \/ RemoveHandler(e)
       PROVE  IncomingOK'
  BY <1>1, <1>5 DEF Subscribe, InstallHandler, GetCurrentValue,
    AddSignalStateHandler, RemoveHandler, busVars
<1>6. ASSUME NEW x \in Attributes,
              AddHandler(x) \/ AddToQueue(x) \/ RemoveFromQueue(x)
       PROVE  IncomingOK'
  BY <1>1, <1>6 DEF AddHandler, AddToQueue, RemoveFromQueue, busVars
<1>7. ASSUME NEW x \in Selectives,
              SetSubscriptionToken(x) \/ RequestSubscription(x) \/ CallUnsubscribe(x)
                \/ EraseEntry(x)
       PROVE  IncomingOK'
  BY <1>1, <1>7 DEF SetSubscriptionToken, RequestSubscription,
    CallUnsubscribe, EraseEntry, busVars
<1>8. ASSUME NEW e \in Events, NEW t \in Tags,
              Unsubscribe(e, t)
       PROVE  IncomingOK'
  BY <1>1, <1>8 DEF Unsubscribe, busVars
<1>9. CASE StatusReported
  BY <1>9, Dispatches DEF TakesOne, IncomingOK
<1>10. CASE ValueReceived
  BY <1>10, Dispatches DEF TakesOne, IncomingOK
<1>11. CASE SubscriptionAnswered
  BY <1>11, Dispatches DEF TakesOne, IncomingOK
<1>12. CASE Serve
  BY <1>12, <1>1, ServeMoves, ServeReceives DEF Receives, IncomingOK
<1>13. CASE Toggle
  BY <1>13, ToggleReceives DEF Receives, IncomingOK
<1> QED
  BY StepOfNext, <1>2, <1>3, <1>4, <1>5, <1>6, <1>7, <1>8, <1>9, <1>10, <1>11,
    <1>12, <1>13 DEF Step

(* The functions.                                                          *)
LEMMA PushedTyped ==
  ASSUME TypeOK, PushedOK, AppInPlace, [Next]_vars
  PROVE  PushedOK'
<1>1. ASSUME UNCHANGED <<pushed>> PROVE PushedOK'
  BY <1>1 DEF PushedOK
<1>2. CASE UNCHANGED vars
  BY <1>1, <1>2 DEF vars
<1>3. CASE StatusReported \/ AddQueuedHandlers \/ RemoveQueuedHandlers \/ ValueReceived
  BY <1>1, <1>3 DEF StatusReported, AddQueuedHandlers, RemoveQueuedHandlers,
    ValueReceived
<1>4. CASE SubscriptionAnswered \/ Serve \/ Toggle
  BY <1>1, <1>4 DEF SubscriptionAnswered, Serve, Toggle
<1>5. ASSUME NEW e \in Events,
              Subscribe(e) \/ InstallHandler(e) \/ GetCurrentValue(e) \/ RemoveHandler(e)
       PROVE  PushedOK'
  BY <1>1, <1>5 DEF Subscribe, InstallHandler, GetCurrentValue, RemoveHandler
<1>6. ASSUME NEW x \in Attributes,
              AddHandler(x) \/ AddToQueue(x) \/ RemoveFromQueue(x)
       PROVE  PushedOK'
  BY <1>1, <1>6 DEF AddHandler, AddToQueue, RemoveFromQueue
<1>7. ASSUME NEW x \in Selectives,
              SetSubscriptionToken(x) \/ RequestSubscription(x) \/ CallUnsubscribe(x)
                \/ EraseEntry(x)
       PROVE  PushedOK'
  BY <1>1, <1>7 DEF SetSubscriptionToken, RequestSubscription,
    CallUnsubscribe, EraseEntry
<1>8. ASSUME NEW e \in Events, NEW t \in Tags,
              Unsubscribe(e, t)
       PROVE  PushedOK'
  BY <1>1, <1>8 DEF Unsubscribe
<1>9. ASSUME NEW e \in Events, AddSignalStateHandler(e) PROVE PushedOK'
  BY <1>9, StatePushes DEF Pushes, PushedOK
<1>10. CASE PushInform
  BY <1>10, InformPushes DEF Pushes, PushedOK
<1>11. CASE SendPendingSubscriptions
  BY <1>11, <1>1, PendingPushes DEF Pushes, PushedOK
<1>12. CASE NotifySpecificListener
  BY <1>12, Runs DEF RunsOne, PushedOK
<1>13. CASE HandleSignalStates
  BY <1>13, Runs DEF RunsOne, PushedOK
<1> QED
  BY StepOfNext, <1>2, <1>3, <1>4, <1>5, <1>6, <1>7, <1>8, <1>9, <1>10, <1>11,
    <1>12, <1>13 DEF Step

(* The status, and where the loop is.                                      *)
LEMMA LoopTyped ==
  ASSUME TypeOK, LoopOK, MessagesShaped, [Next]_vars
  PROVE  LoopOK'
<1>1. ASSUME UNCHANGED <<status, everAvailable, loop>> PROVE LoopOK'
  BY <1>1 DEF LoopOK
<1>2. CASE UNCHANGED vars
  BY <1>1, <1>2 DEF vars
<1>3. CASE PushInform \/ ValueReceived \/ SubscriptionAnswered \/ NotifySpecificListener
  BY <1>1, <1>3 DEF PushInform, ValueReceived, SubscriptionAnswered,
    NotifySpecificListener
<1>4. CASE HandleSignalStates \/ Serve \/ Toggle
  BY <1>1, <1>4 DEF HandleSignalStates, Serve, Toggle
<1>5. ASSUME NEW e \in Events,
              Subscribe(e) \/ InstallHandler(e) \/ GetCurrentValue(e) \/ AddSignalStateHandler(e)
                \/ RemoveHandler(e)
       PROVE  LoopOK'
  BY <1>1, <1>5 DEF Subscribe, InstallHandler, GetCurrentValue,
    AddSignalStateHandler, RemoveHandler
<1>6. ASSUME NEW x \in Attributes,
              AddHandler(x) \/ AddToQueue(x) \/ RemoveFromQueue(x)
       PROVE  LoopOK'
  BY <1>1, <1>6 DEF AddHandler, AddToQueue, RemoveFromQueue
<1>7. ASSUME NEW x \in Selectives,
              SetSubscriptionToken(x) \/ RequestSubscription(x) \/ CallUnsubscribe(x)
                \/ EraseEntry(x)
       PROVE  LoopOK'
  BY <1>1, <1>7 DEF SetSubscriptionToken, RequestSubscription,
    CallUnsubscribe, EraseEntry
<1>8. ASSUME NEW e \in Events, NEW t \in Tags,
              Unsubscribe(e, t)
       PROVE  LoopOK'
  BY <1>1, <1>8 DEF Unsubscribe
<1>9. CASE StatusReported
  <2>1. Head(incoming).kind = "status" => Head(incoming).answer \in {"AVAILABLE", "NOT_AVAILABLE"}
    BY <1>9, Dispatches DEF MessagesShaped, Shaped
  <2> QED
    BY <1>9, <2>1 DEF StatusReported, LoopOK, Statuses
<1>10. CASE AddQueuedHandlers
  BY <1>10 DEF AddQueuedHandlers, LoopOK
<1>11. CASE RemoveQueuedHandlers
  BY <1>11 DEF RemoveQueuedHandlers, LoopOK
<1>12. CASE SendPendingSubscriptions
  BY <1>12 DEF SendPendingSubscriptions, LoopOK
<1> QED
  BY StepOfNext, <1>2, <1>3, <1>4, <1>5, <1>6, <1>7, <1>8, <1>9, <1>10, <1>11,
    <1>12 DEF Step

(* The queue and the handlers.                                             *)
LEMMA HandlersTyped ==
  ASSUME TypeOK, HandlersOK, AppInPlace, [Next]_vars
  PROVE  HandlersOK'
<1>1. ASSUME UNCHANGED <<queue, installed>> PROVE HandlersOK'
  BY <1>1 DEF HandlersOK
<1>2. CASE UNCHANGED vars
  BY <1>1, <1>2 DEF vars, proxyVars
<1>3. CASE PushInform \/ StatusReported \/ SendPendingSubscriptions \/ ValueReceived
  BY <1>1, <1>3 DEF PushInform, StatusReported, SendPendingSubscriptions,
    ValueReceived, proxyVars
<1>4. CASE NotifySpecificListener \/ HandleSignalStates \/ Serve \/ Toggle
  BY <1>1, <1>4 DEF NotifySpecificListener, HandleSignalStates, Serve, Toggle,
    proxyVars
<1>5. ASSUME NEW e \in Events,
              Subscribe(e) \/ GetCurrentValue(e) \/ AddSignalStateHandler(e)
       PROVE  HandlersOK'
  BY <1>1, <1>5 DEF Subscribe, GetCurrentValue, AddSignalStateHandler,
    proxyVars
<1>6. ASSUME NEW x \in Attributes,
              AddHandler(x)
       PROVE  HandlersOK'
  BY <1>1, <1>6 DEF AddHandler, proxyVars
<1>7. ASSUME NEW x \in Selectives,
              SetSubscriptionToken(x) \/ RequestSubscription(x) \/ CallUnsubscribe(x)
                \/ EraseEntry(x)
       PROVE  HandlersOK'
  BY <1>1, <1>7 DEF SetSubscriptionToken, RequestSubscription,
    CallUnsubscribe, EraseEntry, proxyVars
<1>8. ASSUME NEW e \in Events, NEW t \in Tags,
              Unsubscribe(e, t)
       PROVE  HandlersOK'
  BY <1>1, <1>8 DEF Unsubscribe
<1>9. ASSUME NEW e \in Events, InstallHandler(e) PROVE HandlersOK'
  <2>1. Arrives(e, app.pc) /\ app.pc = "install"
    BY <1>9, Arrived DEF InstallHandler, At, ArrivalPlaces
  <2>2. e \in Signalled
    BY <2>1 DEF Arrives
  <2> QED
    BY <1>9, <2>2 DEF InstallHandler, HandlersOK
<1>10. ASSUME NEW x \in Attributes, AddToQueue(x) PROVE HandlersOK'
  BY <1>10, AppTyped DEF AddToQueue, HandlersOK, AppTypes
<1>11. ASSUME NEW x \in Attributes, RemoveFromQueue(x) PROVE HandlersOK'
  BY <1>11 DEF RemoveFromQueue, HandlersOK, proxyVars
<1>12. ASSUME NEW e \in Events, RemoveHandler(e) PROVE HandlersOK'
  BY <1>12 DEF RemoveHandler, HandlersOK
<1>13. CASE AddQueuedHandlers
  BY <1>13 DEF AddQueuedHandlers, Waiting, HandlersOK
<1>14. CASE RemoveQueuedHandlers
  BY <1>14 DEF RemoveQueuedHandlers, HandlersOK
<1>15. CASE SubscriptionAnswered
  BY <1>15 DEF SubscriptionAnswered, HandlersOK
<1> QED
  BY StepOfNext, <1>2, <1>3, <1>4, <1>5, <1>6, <1>7, <1>8, <1>9, <1>10, <1>11,
    <1>12, <1>13, <1>14, <1>15 DEF Step

(* The tables of tags.                                                     *)
LEMMA TablesTyped ==
  ASSUME TypeOK, TablesOK, AppInPlace, StatusTags, [Next]_vars
  PROVE  TablesOK'
<1>1. ASSUME UNCHANGED <<states, listeners, selective, internal>> PROVE TablesOK'
  BY <1>1 DEF TablesOK
<1>2. CASE UNCHANGED vars
  BY <1>1, <1>2 DEF vars, proxyVars
<1>3. CASE PushInform \/ StatusReported \/ AddQueuedHandlers \/ RemoveQueuedHandlers
  BY <1>1, <1>3 DEF PushInform, StatusReported, AddQueuedHandlers,
    RemoveQueuedHandlers, proxyVars
<1>4. CASE SendPendingSubscriptions \/ ValueReceived \/ SubscriptionAnswered \/ HandleSignalStates
  BY <1>1, <1>4 DEF SendPendingSubscriptions, ValueReceived,
    SubscriptionAnswered, HandleSignalStates, proxyVars
<1>5. CASE Serve \/ Toggle
  BY <1>1, <1>5 DEF Serve, Toggle, proxyVars
<1>6. ASSUME NEW e \in Events,
              Subscribe(e) \/ GetCurrentValue(e) \/ RemoveHandler(e)
       PROVE  TablesOK'
  BY <1>1, <1>6 DEF Subscribe, GetCurrentValue, RemoveHandler, proxyVars
<1>7. ASSUME NEW x \in Attributes,
              AddHandler(x) \/ AddToQueue(x) \/ RemoveFromQueue(x)
       PROVE  TablesOK'
  BY <1>1, <1>7 DEF AddHandler, AddToQueue, RemoveFromQueue, proxyVars
<1>8. ASSUME NEW x \in Selectives,
              RequestSubscription(x) \/ CallUnsubscribe(x)
       PROVE  TablesOK'
  BY <1>1, <1>8 DEF RequestSubscription, CallUnsubscribe, proxyVars
<1>9. ASSUME NEW e \in Events, InstallHandler(e) PROVE TablesOK'
  <2>1. app.tag \in Tags
    BY <1>9, Arrived DEF InstallHandler, At, ArrivalPlaces
  <2> QED
    BY <1>9, <2>1 DEF InstallHandler, SubscribeInternal, TablesOK
<1>10. ASSUME NEW e \in Events, AddSignalStateHandler(e) PROVE TablesOK'
  <2>1. app.tag \in Tags
    BY <1>10, StatePushes
  <2> QED
    BY <1>10, <2>1 DEF AddSignalStateHandler, TablesOK
<1>11. ASSUME NEW x \in Selectives, SetSubscriptionToken(x) PROVE TablesOK'
  <2>1. app.tag \in Tags
    BY <1>11, Arrived DEF SetSubscriptionToken, At, ArrivalPlaces
  <2> QED
    BY <1>11, <2>1 DEF SetSubscriptionToken, InsertSelectiveSubscription, TablesOK
<1>12. ASSUME NEW e \in Events, NEW t \in Tags, Unsubscribe(e, t) PROVE TablesOK'
  BY <1>12 DEF Unsubscribe, UnsubscribeInternal, TablesOK
<1>13. ASSUME NEW x \in Selectives, EraseEntry(x) PROVE TablesOK'
  BY <1>13 DEF EraseEntry, TablesOK
<1>14. CASE NotifySpecificListener
  <2>1. Head(pushed).kind = "inform" /\ 1 \in DOMAIN pushed /\ pushed[1] = Head(pushed)
    BY <1>14, Runs DEF NotifySpecificListener
  <2>2. Head(pushed).tag \in Tags
    BY <2>1 DEF StatusTags
  <2> QED
    BY <1>14, <2>2 DEF NotifySpecificListener, TablesOK
<1> QED
  BY StepOfNext, <1>2, <1>3, <1>4, <1>5, <1>6, <1>7, <1>8, <1>9, <1>10, <1>11,
    <1>12, <1>13, <1>14 DEF Step

(* The thread of the application.                                          *)
LEMMA AppInTypes ==
  ASSUME TypeOK, AppOK, MessagesShaped, OneUnsubscribe, [Next]_vars
  PROVE  AppOK'
<1>1. ASSUME UNCHANGED <<app>> PROVE AppOK'
  BY <1>1 DEF AppOK
<1>2. CASE UNCHANGED vars
  BY <1>1, <1>2 DEF vars, appVars
<1>3. CASE StatusReported \/ AddQueuedHandlers \/ RemoveQueuedHandlers \/ SendPendingSubscriptions
  BY <1>1, <1>3 DEF StatusReported, AddQueuedHandlers, RemoveQueuedHandlers,
    SendPendingSubscriptions, appVars
<1>4. CASE ValueReceived \/ SubscriptionAnswered \/ NotifySpecificListener \/ HandleSignalStates
  BY <1>1, <1>4 DEF ValueReceived, SubscriptionAnswered,
    NotifySpecificListener, HandleSignalStates, appVars
<1>5. CASE Toggle
  BY <1>1, <1>5 DEF Toggle, appVars
<1>6. ASSUME NEW e \in Events, Subscribe(e) PROVE AppOK'
  BY <1>6, IdleTyped, Subscribes DEF AppOK
<1>7. ASSUME NEW x \in Attributes, AddHandler(x) PROVE AppOK'
  BY <1>7, IdleTyped, AddsHandler DEF AppOK, Moves, Finishes
<1>8. ASSUME NEW e \in Events, InstallHandler(e) PROVE AppOK'
  <2>1. e \in Attributes \/ e \in Selectives \/ e \notin Attributes \cup Selectives
    OBVIOUS
  <2> QED
    BY <1>8, <2>1, InstallsHandler DEF AppOK, Moves
<1>9. ASSUME NEW x \in Attributes, AddToQueue(x) PROVE AppOK'
  BY <1>9, IdleTyped, AddsToQueue DEF AppOK, Moves, Finishes
<1>10. ASSUME NEW e \in Events, GetCurrentValue(e) PROVE AppOK'
  BY <1>10, IdleTyped, GetsCurrentValue DEF AppOK, Moves, Finishes
<1>11. ASSUME NEW e \in Events, AddSignalStateHandler(e) PROVE AppOK'
  BY <1>11, IdleTyped, AddsSignalStateHandler DEF AppOK, Moves, Finishes
<1>12. ASSUME NEW x \in Selectives, SetSubscriptionToken(x) PROVE AppOK'
  BY <1>12, IdleTyped, SetsSubscriptionToken DEF AppOK, Moves, Finishes
<1>13. ASSUME NEW x \in Selectives, RequestSubscription(x) PROVE AppOK'
  BY <1>13, IdleTyped, RequestsSubscription DEF AppOK, Moves, Finishes
<1>14. CASE PushInform
  BY <1>14, IdleTyped, PushesInform DEF AppOK, Moves, Finishes
<1>15. ASSUME NEW e \in Events, NEW t \in Tags, Unsubscribe(e, t) PROVE AppOK'
  BY <1>15, IdleTyped, Unsubscribes DEF AppOK
<1>16. ASSUME NEW x \in Attributes, RemoveFromQueue(x) PROVE AppOK'
  BY <1>16, IdleTyped, RemovesFromQueue DEF AppOK, Moves, Finishes
<1>17. ASSUME NEW e \in Events, RemoveHandler(e) PROVE AppOK'
  BY <1>17, IdleTyped, RemovesHandler DEF AppOK, Moves, Finishes
<1>18. ASSUME NEW x \in Selectives, CallUnsubscribe(x) PROVE AppOK'
  BY <1>18, IdleTyped, CallsUnsubscribe DEF AppOK, Moves, Finishes
<1>19. ASSUME NEW x \in Selectives, EraseEntry(x) PROVE AppOK'
  BY <1>19, IdleTyped, ErasesEntry DEF AppOK, Moves, Finishes
<1>20. CASE Serve
  BY <1>20, ServeMoves DEF AppOK, Moves
<1> QED
  BY StepOfNext, <1>2, <1>3, <1>4, <1>5, <1>6, <1>7, <1>8, <1>9, <1>10, <1>11,
    <1>12, <1>13, <1>14, <1>15, <1>16, <1>17, <1>18, <1>19, <1>20 DEF Step

(* The listeners.                                                          *)
LEMMA TagsTyped ==
  ASSUME TypeOK, TagsOK, [Next]_vars
  PROVE  TagsOK'
<1>1. ASSUME UNCHANGED <<nextTag, subscribed>> PROVE TagsOK'
  BY <1>1 DEF TagsOK
<1>2. CASE UNCHANGED vars
  BY <1>1, <1>2 DEF vars, appVars
<1>3. CASE PushInform \/ StatusReported \/ AddQueuedHandlers \/ RemoveQueuedHandlers
  BY <1>1, <1>3 DEF PushInform, StatusReported, AddQueuedHandlers,
    RemoveQueuedHandlers, appVars
<1>4. CASE SendPendingSubscriptions \/ ValueReceived \/ SubscriptionAnswered
      \/ NotifySpecificListener
  BY <1>1, <1>4 DEF SendPendingSubscriptions, ValueReceived,
    SubscriptionAnswered, NotifySpecificListener, appVars
<1>5. CASE HandleSignalStates \/ Serve \/ Toggle
  BY <1>1, <1>5 DEF HandleSignalStates, Serve, Toggle, appVars
<1>6. ASSUME NEW x \in Attributes,
              AddHandler(x) \/ AddToQueue(x) \/ RemoveFromQueue(x)
       PROVE  TagsOK'
  BY <1>1, <1>6 DEF AddHandler, AddToQueue, RemoveFromQueue
<1>7. ASSUME NEW e \in Events,
              InstallHandler(e) \/ GetCurrentValue(e) \/ AddSignalStateHandler(e)
                \/ RemoveHandler(e)
       PROVE  TagsOK'
  BY <1>1, <1>7 DEF InstallHandler, GetCurrentValue, AddSignalStateHandler,
    RemoveHandler
<1>8. ASSUME NEW x \in Selectives,
              SetSubscriptionToken(x) \/ RequestSubscription(x) \/ CallUnsubscribe(x)
                \/ EraseEntry(x)
       PROVE  TagsOK'
  BY <1>1, <1>8 DEF SetSubscriptionToken, RequestSubscription,
    CallUnsubscribe, EraseEntry
<1>9. ASSUME NEW e \in Events, Subscribe(e) PROVE TagsOK'
  BY <1>9, AppTyped, Subscribes DEF TagsOK
<1>10. ASSUME NEW e \in Events, NEW t \in Tags, Unsubscribe(e, t) PROVE TagsOK'
  BY <1>10, AppTyped, Unsubscribes DEF Unsubscribe, TagsOK
<1> QED
  BY StepOfNext, <1>2, <1>3, <1>4, <1>5, <1>6, <1>7, <1>8, <1>9, <1>10 DEF Step

(* What they have heard.                                                   *)
LEMMA HeardTyped ==
  ASSUME TypeOK, HeardOK, MessagesShaped, [Next]_vars
  PROVE  HeardOK'
<1>1. ASSUME UNCHANGED <<heard>> PROVE HeardOK'
  BY <1>1 DEF HeardOK
<1>2. CASE UNCHANGED vars
  BY <1>1, <1>2 DEF vars, told
<1>3. CASE PushInform \/ AddQueuedHandlers \/ RemoveQueuedHandlers \/ SendPendingSubscriptions
  BY <1>1, <1>3 DEF PushInform, AddQueuedHandlers, RemoveQueuedHandlers,
    SendPendingSubscriptions, told
<1>4. CASE SubscriptionAnswered \/ HandleSignalStates \/ Serve \/ Toggle
  BY <1>1, <1>4 DEF SubscriptionAnswered, HandleSignalStates, Serve, Toggle,
    told
<1>5. ASSUME NEW e \in Events,
              Subscribe(e) \/ InstallHandler(e) \/ GetCurrentValue(e) \/ AddSignalStateHandler(e)
                \/ RemoveHandler(e)
       PROVE  HeardOK'
  BY <1>1, <1>5 DEF Subscribe, InstallHandler, GetCurrentValue,
    AddSignalStateHandler, RemoveHandler, told
<1>6. ASSUME NEW x \in Attributes,
              AddHandler(x) \/ AddToQueue(x) \/ RemoveFromQueue(x)
       PROVE  HeardOK'
  BY <1>1, <1>6 DEF AddHandler, AddToQueue, RemoveFromQueue, told
<1>7. ASSUME NEW x \in Selectives,
              SetSubscriptionToken(x) \/ RequestSubscription(x) \/ CallUnsubscribe(x)
                \/ EraseEntry(x)
       PROVE  HeardOK'
  BY <1>1, <1>7 DEF SetSubscriptionToken, RequestSubscription,
    CallUnsubscribe, EraseEntry, told
<1>8. ASSUME NEW e \in Events, NEW t \in Tags, Unsubscribe(e, t) PROVE HeardOK'
  BY <1>8 DEF Unsubscribe, HeardOK
<1>9. CASE StatusReported
  <2>1. Head(incoming).kind = "status" => Head(incoming).answer \in Statuses
    BY <1>9, Dispatches DEF MessagesShaped, Shaped, Statuses
  <2>2. heard' = heard
        \/ heard' = [t \in Tags |-> IF t \in listeners \cap Live THEN Head(incoming).answer
             ELSE heard[t]]
    BY <1>9 DEF StatusReported, told
  <2>3. Head(incoming).kind = "status"
    BY <1>9 DEF StatusReported
  <2> QED
    BY <2>1, <2>2, <2>3 DEF HeardOK
<1>10. CASE ValueReceived
  BY <1>10 DEF ValueReceived, HeardOK
<1>11. CASE NotifySpecificListener
  <2>1. status \in Statuses
    BY DEF TypeOK
  <2>2. heard' = heard \/ heard' = [heard EXCEPT ![Head(pushed).tag] = status]
    BY <1>11 DEF NotifySpecificListener
  <2> QED
    BY <2>1, <2>2 DEF HeardOK
<1> QED
  BY StepOfNext, <1>2, <1>3, <1>4, <1>5, <1>6, <1>7, <1>8, <1>9, <1>10, <1>11 DEF Step

(* What they were told, and the events that are out of step.               *)
LEMMA ToldTyped ==
  ASSUME TypeOK, ToldOK, MessagesShaped, [Next]_vars
  PROVE  ToldOK'
<1>1. ASSUME UNCHANGED <<confirmed, refused, denied, overtaken>> PROVE ToldOK'
  BY <1>1 DEF ToldOK
<1>2. CASE UNCHANGED vars
  BY <1>1, <1>2 DEF vars, told, ghosts
<1>3. CASE PushInform \/ AddQueuedHandlers \/ RemoveQueuedHandlers \/ ValueReceived
  BY <1>1, <1>3 DEF PushInform, AddQueuedHandlers, RemoveQueuedHandlers,
    ValueReceived, told, ghosts
<1>4. CASE NotifySpecificListener \/ Serve \/ Toggle
  BY <1>1, <1>4 DEF NotifySpecificListener, Serve, Toggle, ghosts, told
<1>5. ASSUME NEW x \in Attributes,
              AddHandler(x) \/ AddToQueue(x) \/ RemoveFromQueue(x)
       PROVE  ToldOK'
  BY <1>1, <1>5 DEF AddHandler, AddToQueue, RemoveFromQueue, told, ghosts
<1>6. ASSUME NEW e \in Events,
              InstallHandler(e) \/ GetCurrentValue(e) \/ AddSignalStateHandler(e)
                \/ RemoveHandler(e)
       PROVE  ToldOK'
  BY <1>1, <1>6 DEF InstallHandler, GetCurrentValue, AddSignalStateHandler,
    RemoveHandler, told, ghosts
<1>7. ASSUME NEW x \in Selectives,
              SetSubscriptionToken(x) \/ RequestSubscription(x) \/ EraseEntry(x)
       PROVE  ToldOK'
  BY <1>1, <1>7 DEF SetSubscriptionToken, RequestSubscription, EraseEntry,
    told, ghosts
<1>8. ASSUME NEW e \in Events, Subscribe(e) PROVE ToldOK'
  BY <1>8 DEF Subscribe, told, ToldOK
<1>9. ASSUME NEW e \in Events, NEW t \in Tags, Unsubscribe(e, t) PROVE ToldOK'
  BY <1>9 DEF Unsubscribe, ghosts, ToldOK
<1>10. ASSUME NEW x \in Selectives, CallUnsubscribe(x) PROVE ToldOK'
  BY <1>10 DEF CallUnsubscribe, told, ToldOK
<1>11. CASE StatusReported
  BY <1>11 DEF StatusReported, Joining, told, ToldOK
<1>12. CASE SendPendingSubscriptions
  BY <1>12 DEF SendPendingSubscriptions, Leaving, told, ToldOK
<1>13. CASE SubscriptionAnswered
  <2>1. Head(incoming).event \in Selectives
    BY <1>13, Dispatches DEF SubscriptionAnswered, MessagesShaped, Shaped, Requests
  <2>2. Live \subseteq Tags
    BY AppTyped DEF Live
  <2>3. /\ confirmed' \subseteq confirmed \cup Live /\ refused' \subseteq refused \cup Live
        /\ denied' \subseteq denied \cup {Head(incoming).event} /\ UNCHANGED overtaken
    BY <1>13 DEF SubscriptionAnswered
  <2> QED
    BY <2>1, <2>2, <2>3 DEF ToldOK
<1>14. CASE HandleSignalStates
  <2>1. Live \subseteq Tags
    BY AppTyped DEF Live
  <2>2. confirmed' \subseteq confirmed \cup Live /\ UNCHANGED <<refused, denied, overtaken>>
    BY <1>14 DEF HandleSignalStates, ghosts
  <2> QED
    BY <2>1, <2>2 DEF ToldOK
<1> QED
  BY StepOfNext, <1>2, <1>3, <1>4, <1>5, <1>6, <1>7, <1>8, <1>9, <1>10, <1>11,
    <1>12, <1>13, <1>14 DEF Step

-----------------------------------------------------------------------------
(* The thread, the messages and the tags.                                  *)

(* The thread is where its event allows.                                   *)
LEMMA AppStaysInPlace ==
  ASSUME TypeOK, AppInPlace, MessagesShaped, OneUnsubscribe, [Next]_vars
  PROVE  AppInPlace'
<1>1. ASSUME UNCHANGED <<app, subscribed>> PROVE AppInPlace'
  BY <1>1 DEF AppInPlace, Idle
<1>2. CASE UNCHANGED vars
  BY <1>1, <1>2 DEF vars, appVars
<1>3. CASE StatusReported \/ AddQueuedHandlers \/ RemoveQueuedHandlers \/ SendPendingSubscriptions
  BY <1>1, <1>3 DEF StatusReported, AddQueuedHandlers, RemoveQueuedHandlers,
    SendPendingSubscriptions, appVars
<1>4. CASE ValueReceived \/ SubscriptionAnswered \/ NotifySpecificListener \/ HandleSignalStates
  BY <1>1, <1>4 DEF ValueReceived, SubscriptionAnswered,
    NotifySpecificListener, HandleSignalStates, appVars
<1>5. CASE Toggle
  BY <1>1, <1>5 DEF Toggle, appVars
<1>6. ASSUME NEW e \in Events, Subscribe(e) PROVE AppInPlace'
  <2>1. Arrives(e, app'.pc)
    BY <1>6, Subscribes DEF Arrives, OnFirstListenerAdded, OnListenerAdded
  <2>2. app'.tag \in subscribed'[app'.event] /\ app'.event = e
    BY <1>6, Subscribes
  <2> QED
    BY <2>1, <2>2 DEF AppInPlace
<1>7. ASSUME NEW x \in Attributes, AddHandler(x) PROVE AppInPlace'
  BY <1>7, AddsHandler, Arrived, IdleTyped DEF AddHandler, At, Moves, Finishes, AppInPlace,
    Arrives,
    ArrivalPlaces
<1>8. ASSUME NEW e \in Events, InstallHandler(e) PROVE AppInPlace'
  <2>1. app.tag \in subscribed[e] /\ app'.event = e /\ app'.tag = app.tag
    BY <1>8, InstallsHandler, Arrived DEF InstallHandler, At, Moves, ArrivalPlaces
  <2>2. Arrives(e, "install")
    BY <1>8, Arrived DEF InstallHandler, At, ArrivalPlaces
  <2>3. Arrives(e, app'.pc)
    BY <1>8, <2>2, InstallsHandler DEF Moves, Arrives
  <2>4. UNCHANGED subscribed
    BY <1>8 DEF InstallHandler
  <2> QED
    BY <2>1, <2>3, <2>4 DEF AppInPlace
<1>9. ASSUME NEW x \in Attributes, AddToQueue(x) PROVE AppInPlace'
  BY <1>9, AddsToQueue, Arrived, IdleTyped DEF AddToQueue, At, Moves, Finishes, AppInPlace,
    Arrives,
    ArrivalPlaces
<1>10. ASSUME NEW e \in Events, GetCurrentValue(e) PROVE AppInPlace'
  BY <1>10, GetsCurrentValue, Arrived, IdleTyped DEF GetCurrentValue, At, Moves, Finishes,
    AppInPlace, Arrives,
    ArrivalPlaces
<1>11. ASSUME NEW e \in Events, AddSignalStateHandler(e) PROVE AppInPlace'
  BY <1>11, AddsSignalStateHandler, Arrived, IdleTyped DEF AddSignalStateHandler, At, Moves,
    Finishes, AppInPlace, Arrives,
    ArrivalPlaces
<1>12. ASSUME NEW x \in Selectives, SetSubscriptionToken(x) PROVE AppInPlace'
  BY <1>12, SetsSubscriptionToken, Arrived, IdleTyped DEF SetSubscriptionToken, At, Moves,
    Finishes, AppInPlace, Arrives,
    ArrivalPlaces
<1>13. ASSUME NEW x \in Selectives, RequestSubscription(x) PROVE AppInPlace'
  BY <1>13, RequestsSubscription, Arrived, IdleTyped DEF RequestSubscription, At, Moves, Finishes,
    AppInPlace, Arrives,
    ArrivalPlaces
<1>14. CASE PushInform
  BY <1>14, PushesInform, Arrived, IdleTyped DEF PushInform, At, Moves, Finishes, AppInPlace,
    Arrives,
    ArrivalPlaces
<1>15. ASSUME NEW e \in Events, NEW t \in Tags, Unsubscribe(e, t) PROVE AppInPlace'
  <2>1. CASE app' = Idle
    BY <2>1 DEF AppInPlace, Idle
  <2>2. CASE subscribed[e] = {t} /\ e # StatusEvent
    <3>1. app'.event = e /\ app'.pc = OnLastListenerRemoved(e) /\ subscribed'[e] = {}
      BY <1>15, <2>2, Unsubscribes
    <3> QED
      BY <2>2, <3>1 DEF AppInPlace, Departs, OnLastListenerRemoved
  <2> QED
    BY <1>15, <2>1, <2>2, Unsubscribes
<1>16. ASSUME NEW x \in Attributes, RemoveFromQueue(x) PROVE AppInPlace'
  BY <1>16, RemovesFromQueue, Departed, IdleTyped DEF RemoveFromQueue, At, Moves, Finishes,
    AppInPlace, Departs,
    DeparturePlaces
<1>17. ASSUME NEW e \in Events, RemoveHandler(e) PROVE AppInPlace'
  BY <1>17, RemovesHandler, Departed, IdleTyped DEF RemoveHandler, At, Moves, Finishes,
    AppInPlace, Departs,
    DeparturePlaces
<1>18. ASSUME NEW x \in Selectives, CallUnsubscribe(x) PROVE AppInPlace'
  BY <1>18, CallsUnsubscribe, Departed, IdleTyped DEF CallUnsubscribe, At, Moves, Finishes,
    AppInPlace, Departs,
    DeparturePlaces
<1>19. ASSUME NEW x \in Selectives, EraseEntry(x) PROVE AppInPlace'
  BY <1>19, ErasesEntry, Departed, IdleTyped DEF EraseEntry, At, Moves, Finishes, AppInPlace,
    Departs,
    DeparturePlaces
<1>20. CASE Serve
  <2>1. UNCHANGED subscribed
    BY <1>20 DEF Serve
  <2>2. CASE UNCHANGED app
    BY <1>1, <2>1, <2>2
  <2>3. CASE Head(outgoing).kind = "unsubscribe"
    <3> DEFINE x == Head(outgoing).event
    <3>1. x \in Selectives /\ Moves(x, "await", "erase")
      BY <1>20, <2>3, ServeMoves
    <3>2. subscribed[x] = {}
      BY <3>1, Departed DEF Moves, DeparturePlaces
    <3> QED
      BY <2>1, <3>1, <3>2 DEF AppInPlace, Moves, Departs
  <2> QED
    BY <1>20, <2>2, <2>3, ServeMoves
<1> QED
  BY StepOfNext, <1>2, <1>3, <1>4, <1>5, <1>6, <1>7, <1>8, <1>9, <1>10, <1>11,
    <1>12, <1>13, <1>14, <1>15, <1>16, <1>17, <1>18, <1>19, <1>20 DEF Step

(* What is sent is shaped.                                                 *)
LEMMA ShapedSends ==
  ASSUME MessagesShaped, NEW N, NEW M, Sends(N, M), UNCHANGED incoming,
         \A m \in N : Shaped(m) /\ m.kind # "status"
  PROVE  MessagesShaped'
<1>1. ASSUME NEW k \in DOMAIN outgoing' PROVE Shaped(outgoing'[k]) /\ outgoing'[k].kind # "status"
  BY DEF Sends, Grows, MessagesShaped
<1> QED
  BY <1>1 DEF MessagesShaped, Shaped

(* What is left when one is taken is.                                      *)
LEMMA ShapedTakes ==
  ASSUME MessagesShaped, TakesOne, UNCHANGED outgoing
  PROVE  MessagesShaped'
<1>1. ASSUME NEW k \in DOMAIN incoming' PROVE Shaped(incoming'[k])
             /\ incoming'[k].kind # "unsubscribe"
  BY DEF TakesOne, Shrinks, MessagesShaped
<1> QED
  BY <1>1 DEF MessagesShaped, Shaped

(* What is received is.                                                    *)
LEMMA ShapedReceives ==
  ASSUME MessagesShaped, NEW m, Receives({m}, {m}), Shaped(m), m.kind # "unsubscribe"
  PROVE  \A k \in DOMAIN incoming' : Shaped(incoming'[k]) /\ incoming'[k].kind # "unsubscribe"
BY DEF Receives, Grows, MessagesShaped

(* What is asked for.                                                      *)
LEMMA MessagesStayShaped ==
  ASSUME TypeOK, AppInPlace, MessagesShaped, OneUnsubscribe, [Next]_vars
  PROVE  MessagesShaped'
<1>1. ASSUME UNCHANGED <<outgoing, incoming>> PROVE MessagesShaped'
  BY <1>1 DEF MessagesShaped, Shaped
<1>2. CASE UNCHANGED vars
  BY <1>1, <1>2 DEF vars, busVars
<1>3. CASE PushInform \/ RemoveQueuedHandlers \/ NotifySpecificListener \/ HandleSignalStates
  BY <1>1, <1>3 DEF PushInform, RemoveQueuedHandlers, NotifySpecificListener,
    HandleSignalStates, busVars
<1>4. ASSUME NEW e \in Events,
              Subscribe(e) \/ InstallHandler(e) \/ AddSignalStateHandler(e) \/ RemoveHandler(e)
       PROVE  MessagesShaped'
  BY <1>1, <1>4 DEF Subscribe, InstallHandler, AddSignalStateHandler,
    RemoveHandler, busVars
<1>5. ASSUME NEW x \in Attributes,
              AddHandler(x) \/ AddToQueue(x) \/ RemoveFromQueue(x)
       PROVE  MessagesShaped'
  BY <1>1, <1>5 DEF AddHandler, AddToQueue, RemoveFromQueue, busVars
<1>6. ASSUME NEW x \in Selectives,
              SetSubscriptionToken(x) \/ EraseEntry(x)
       PROVE  MessagesShaped'
  BY <1>1, <1>6 DEF SetSubscriptionToken, EraseEntry, busVars
<1>7. ASSUME NEW e \in Events, NEW t \in Tags,
              Unsubscribe(e, t)
       PROVE  MessagesShaped'
  BY <1>1, <1>7 DEF Unsubscribe, busVars
<1>8. ASSUME NEW e \in Events, GetCurrentValue(e) PROVE MessagesShaped'
  <2>1. UNCHANGED incoming
    BY <1>8 DEF GetCurrentValue
  <2>2. CASE UNCHANGED outgoing
    BY <1>1, <2>1, <2>2
  <2> DEFINE m == Call("initial", e, app.tag)
  <2>3. CASE Sends({m}, {m})
    <3>1. Shaped(m) /\ m.kind # "status"
      BY <1>8, GetsSends DEF Call, Message, Shaped, Requests
    <3> HIDE DEF m
    <3> QED
      BY <2>1, <2>3, <3>1, ShapedSends
  <2> QED
    BY <1>8, <2>2, <2>3, GetsSends
<1>9. ASSUME NEW x \in Selectives, RequestSubscription(x) PROVE MessagesShaped'
  <2>1. UNCHANGED incoming
    BY <1>9 DEF RequestSubscription
  <2>2. CASE UNCHANGED outgoing
    BY <1>1, <2>1, <2>2
  <2> DEFINE m == Call("subscribe", x, app.tag)
  <2>3. CASE Sends({m}, {m})
    <3>1. Shaped(m) /\ m.kind # "status"
      BY DEF Call, Message, Shaped, Requests
    <3> HIDE DEF m
    <3> QED
      BY <2>1, <2>3, <3>1, ShapedSends
  <2> QED
    BY <1>9, <2>2, <2>3, RequestSends
<1>10. ASSUME NEW x \in Selectives, CallUnsubscribe(x) PROVE MessagesShaped'
  <2>1. UNCHANGED incoming
    BY <1>10 DEF CallUnsubscribe
  <2>2. CASE UNCHANGED outgoing
    BY <1>1, <2>1, <2>2
  <2> DEFINE m == Call("unsubscribe", x, None)
  <2>3. CASE Sends({m}, {m})
    <3>1. Shaped(m) /\ m.kind # "status"
      BY DEF Call, Message, Shaped, Requests
    <3> HIDE DEF m
    <3> QED
      BY <2>1, <2>3, <3>1, ShapedSends
  <2> QED
    BY <1>10, <2>2, <2>3, UnsubscribeSends
<1>11. CASE StatusReported
  BY <1>11, Dispatches, ShapedTakes DEF StatusReported
<1>12. CASE AddQueuedHandlers
  <2>1. UNCHANGED incoming
    BY <1>12 DEF AddQueuedHandlers
  <2>2. \A m \in Gets : Shaped(m) /\ m.kind # "status"
    BY GetsTyped DEF Shaped, Requests
  <2> QED
    BY <1>12, <2>1, <2>2, QueuedSends, ShapedSends
<1>13. CASE SendPendingSubscriptions
  <2>1. UNCHANGED incoming
    BY <1>13 DEF SendPendingSubscriptions
  <2>2. \A m \in Resubscribes : Shaped(m) /\ m.kind # "status"
    BY ResubscribesTyped DEF Shaped, Requests
  <2> QED
    BY <1>13, <2>1, <2>2, PendingSends, ShapedSends
<1>14. CASE ValueReceived
  BY <1>14, Dispatches, ShapedTakes DEF ValueReceived
<1>15. CASE SubscriptionAnswered
  BY <1>15, Dispatches, ShapedTakes DEF SubscriptionAnswered
<1>16. CASE Serve
  <2>1. \A k \in DOMAIN outgoing' : Shaped(outgoing'[k]) /\ outgoing'[k].kind # "status"
    BY <1>16, Serves DEF ServesOne, Shrinks, MessagesShaped
  <2>2. \A k \in DOMAIN incoming' : Shaped(incoming'[k]) /\ incoming'[k].kind # "unsubscribe"
    <3>1. CASE Head(outgoing).kind = "unsubscribe"
      BY <1>16, <3>1, ServeMoves DEF MessagesShaped
    <3>2. CASE Head(outgoing).kind # "unsubscribe"
      <4>1. PICK m \in Messages :
              /\ Receives({m}, {m})
              /\ m.kind = Head(outgoing).kind /\ m.event = Head(outgoing).event
              /\ m.tag = Head(outgoing).tag
        BY <1>16, <3>2, ServeReceives
      <4>2. Shaped(Head(outgoing)) /\ Head(outgoing).kind # "status"
        BY <1>16, Serves DEF ServesOne, Shrinks, MessagesShaped
      <4>3. Shaped(m) /\ m.kind # "unsubscribe"
        BY <3>2, <4>1, <4>2 DEF Shaped
      <4> QED
        BY <4>1, <4>3, ShapedReceives
    <3> QED
      BY <3>1, <3>2
  <2> QED
    BY <2>1, <2>2 DEF MessagesShaped, Shaped
<1>17. CASE Toggle
  <2>1. PICK m \in Messages :
          /\ Receives({m}, {m}) /\ m.kind = "status"
          /\ m.answer = IF service = "up" THEN "NOT_AVAILABLE" ELSE "AVAILABLE"
    BY <1>17, ToggleReceives
  <2>2. Shaped(m) /\ m.kind # "unsubscribe"
    BY <2>1 DEF Shaped, Requests
  <2>3. \A k \in DOMAIN incoming' : Shaped(incoming'[k]) /\ incoming'[k].kind # "unsubscribe"
    BY <2>1, <2>2, ShapedReceives
  <2>4. UNCHANGED outgoing
    BY <1>17 DEF Toggle
  <2> QED
    BY <2>3, <2>4 DEF MessagesShaped, Shaped
<1> QED
  BY StepOfNext, <1>2, <1>3, <1>4, <1>5, <1>6, <1>7, <1>8, <1>9, <1>10, <1>11,
    <1>12, <1>13, <1>14, <1>15, <1>16, <1>17 DEF Step

(* What is sent while nobody waits withdraws at most one subscription.     *)
LEMMA OneUnsubscribeSends ==
  ASSUME OneUnsubscribe, NEW N, NEW M, Sends(N, M), UNCHANGED app,
         \A m \in N : m.kind # "unsubscribe"
  PROVE  OneUnsubscribe'
BY DEF Sends, Grows, OneUnsubscribe, At

(* Nobody withdraws one while the thread does not wait.                    *)
NothingWithdrawn(s) == \A k \in DOMAIN s : s[k].kind # "unsubscribe"

(* A thread that does not wait has withdrawn nothing.                      *)
LEMMA NotWaiting ==
  ASSUME OneUnsubscribe, app.pc # "await"
  PROVE  NothingWithdrawn(outgoing)
BY DEF OneUnsubscribe, NothingWithdrawn, At

(* And other calls withdraw nothing.                                       *)
LEMMA NothingWithdrawnSends ==
  ASSUME NothingWithdrawn(outgoing), NEW N, NEW M, Sends(N, M),
         \A m \in N : m.kind # "unsubscribe"
  PROVE  NothingWithdrawn(outgoing')
BY DEF Sends, Grows, NothingWithdrawn

(* The thread waits while its call is on the way.                          *)
LEMMA OneUnsubscribeOnly ==
  ASSUME TypeOK, AppInPlace, MessagesShaped, OneUnsubscribe, [Next]_vars
  PROVE  OneUnsubscribe'
<1>1. ASSUME UNCHANGED <<outgoing, app>> PROVE OneUnsubscribe'
  BY <1>1 DEF OneUnsubscribe, At
<1>2. CASE UNCHANGED vars
  BY <1>1, <1>2 DEF vars, busVars, appVars
<1>3. CASE StatusReported \/ RemoveQueuedHandlers \/ ValueReceived \/ SubscriptionAnswered
  BY <1>1, <1>3 DEF StatusReported, RemoveQueuedHandlers, ValueReceived,
    SubscriptionAnswered, appVars, busVars
<1>4. CASE NotifySpecificListener \/ HandleSignalStates \/ Toggle
  BY <1>1, <1>4 DEF NotifySpecificListener, HandleSignalStates, Toggle,
    busVars, appVars
<1>5. ASSUME NEW e \in Events, Subscribe(e) PROVE OneUnsubscribe'
  <2>1. app.pc # "await" /\ UNCHANGED outgoing
    BY <1>5, Subscribes, IdleTyped DEF Subscribe, busVars
  <2> QED
    BY <2>1, NotWaiting DEF NothingWithdrawn, OneUnsubscribe
<1>6. ASSUME NEW x \in Attributes, AddHandler(x) PROVE OneUnsubscribe'
  <2>1. app.pc # "await" /\ UNCHANGED outgoing
    BY <1>6, AddsHandler, IdleTyped DEF AddHandler, busVars, Moves, Finishes
  <2> QED
    BY <2>1, NotWaiting DEF NothingWithdrawn, OneUnsubscribe
<1>7. ASSUME NEW e \in Events, InstallHandler(e) PROVE OneUnsubscribe'
  <2>1. app.pc # "await" /\ UNCHANGED outgoing
    BY <1>7, InstallsHandler, IdleTyped DEF InstallHandler, busVars, Moves, Finishes
  <2> QED
    BY <2>1, NotWaiting DEF NothingWithdrawn, OneUnsubscribe
<1>8. ASSUME NEW x \in Attributes, AddToQueue(x) PROVE OneUnsubscribe'
  <2>1. app.pc # "await" /\ UNCHANGED outgoing
    BY <1>8, AddsToQueue, IdleTyped DEF AddToQueue, busVars, Moves, Finishes
  <2> QED
    BY <2>1, NotWaiting DEF NothingWithdrawn, OneUnsubscribe
<1>9. ASSUME NEW e \in Events, GetCurrentValue(e) PROVE OneUnsubscribe'
  <2>1. NothingWithdrawn(outgoing)
    BY <1>9, GetsCurrentValue, NotWaiting DEF Moves, Finishes
  <2> DEFINE m == Call("initial", e, app.tag)
  <2>2. m.kind # "unsubscribe"
    BY DEF Call, Message
  <2>3. UNCHANGED outgoing \/ Sends({m}, {m})
    BY <1>9, GetsSends
  <2> HIDE DEF m
  <2>4. NothingWithdrawn(outgoing')
    BY <2>1, <2>2, <2>3, NothingWithdrawnSends
  <2> QED
    BY <2>4 DEF NothingWithdrawn, OneUnsubscribe
<1>10. ASSUME NEW e \in Events, AddSignalStateHandler(e) PROVE OneUnsubscribe'
  <2>1. app.pc # "await" /\ UNCHANGED outgoing
    BY <1>10, AddsSignalStateHandler, IdleTyped DEF AddSignalStateHandler, busVars, Moves,
      Finishes
  <2> QED
    BY <2>1, NotWaiting DEF NothingWithdrawn, OneUnsubscribe
<1>11. ASSUME NEW x \in Selectives, SetSubscriptionToken(x) PROVE OneUnsubscribe'
  <2>1. app.pc # "await" /\ UNCHANGED outgoing
    BY <1>11, SetsSubscriptionToken, IdleTyped DEF SetSubscriptionToken, busVars, Moves, Finishes
  <2> QED
    BY <2>1, NotWaiting DEF NothingWithdrawn, OneUnsubscribe
<1>12. ASSUME NEW x \in Selectives, RequestSubscription(x) PROVE OneUnsubscribe'
  <2>1. NothingWithdrawn(outgoing)
    BY <1>12, RequestsSubscription, NotWaiting DEF Moves, Finishes
  <2> DEFINE m == Call("subscribe", x, app.tag)
  <2>2. m.kind # "unsubscribe"
    BY DEF Call, Message
  <2>3. UNCHANGED outgoing \/ Sends({m}, {m})
    BY <1>12, RequestSends
  <2> HIDE DEF m
  <2>4. NothingWithdrawn(outgoing')
    BY <2>1, <2>2, <2>3, NothingWithdrawnSends
  <2> QED
    BY <2>4 DEF NothingWithdrawn, OneUnsubscribe
<1>13. CASE PushInform
  <2>1. app.pc # "await" /\ UNCHANGED outgoing
    BY <1>13, PushesInform, IdleTyped DEF PushInform, busVars, Moves, Finishes
  <2> QED
    BY <2>1, NotWaiting DEF NothingWithdrawn, OneUnsubscribe
<1>14. ASSUME NEW e \in Events, NEW t \in Tags, Unsubscribe(e, t) PROVE OneUnsubscribe'
  <2>1. app.pc # "await" /\ UNCHANGED outgoing
    BY <1>14, Unsubscribes, IdleTyped DEF Unsubscribe, busVars
  <2> QED
    BY <2>1, NotWaiting DEF NothingWithdrawn, OneUnsubscribe
<1>15. ASSUME NEW x \in Attributes, RemoveFromQueue(x) PROVE OneUnsubscribe'
  <2>1. app.pc # "await" /\ UNCHANGED outgoing
    BY <1>15, RemovesFromQueue, IdleTyped DEF RemoveFromQueue, busVars, Moves, Finishes
  <2> QED
    BY <2>1, NotWaiting DEF NothingWithdrawn, OneUnsubscribe
<1>16. ASSUME NEW e \in Events, RemoveHandler(e) PROVE OneUnsubscribe'
  <2>1. app.pc # "await" /\ UNCHANGED outgoing
    BY <1>16, RemovesHandler, IdleTyped DEF RemoveHandler, busVars, Moves, Finishes
  <2> QED
    BY <2>1, NotWaiting DEF NothingWithdrawn, OneUnsubscribe
<1>17. ASSUME NEW x \in Selectives, CallUnsubscribe(x) PROVE OneUnsubscribe'
  <2>1. NothingWithdrawn(outgoing)
    BY <1>17, CallsUnsubscribe, NotWaiting DEF Moves
  <2>2. CASE UNCHANGED outgoing
    BY <2>1, <2>2 DEF NothingWithdrawn, OneUnsubscribe
  <2>3. CASE IsAvailable
    <3> DEFINE m == Call("unsubscribe", x, None)
    <3>1. m.event = x
      BY DEF Call, Message
    <3>2. outgoing' = Append(outgoing, m)
      BY <1>17, <2>3 DEF CallUnsubscribe
    <3>3. At(x, "await")'
      BY <1>17, <2>3, CallsUnsubscribe DEF Moves, At
    <3> HIDE DEF m
    <3>4. /\ \A k \in DOMAIN outgoing : outgoing'[k] = outgoing[k]
          /\ DOMAIN outgoing' = 1 .. Len(outgoing) + 1 /\ DOMAIN outgoing = 1 .. Len(outgoing)
          /\ outgoing'[Len(outgoing) + 1] = m
      BY <3>2, SequencesTyped
    <3>5. ASSUME NEW k \in DOMAIN outgoing', outgoing'[k].kind = "unsubscribe"
          PROVE  k = Len(outgoing) + 1
      BY <2>1, <3>4, <3>5, SequencesTyped DEF NothingWithdrawn
    <3> QED
      BY <3>1, <3>3, <3>4, <3>5 DEF OneUnsubscribe, At
  <2> QED
    BY <1>17, <2>2, <2>3, UnsubscribeSends
<1>18. ASSUME NEW x \in Selectives, EraseEntry(x) PROVE OneUnsubscribe'
  <2>1. app.pc # "await" /\ UNCHANGED outgoing
    BY <1>18, ErasesEntry, IdleTyped DEF EraseEntry, busVars, Moves, Finishes
  <2> QED
    BY <2>1, NotWaiting DEF NothingWithdrawn, OneUnsubscribe
<1>19. CASE AddQueuedHandlers
  <2>1. UNCHANGED app
    BY <1>19 DEF AddQueuedHandlers, appVars
  <2>2. \A m \in Gets : m.kind # "unsubscribe"
    BY GetsTyped
  <2> QED
    BY <1>19, <2>1, <2>2, QueuedSends, OneUnsubscribeSends
<1>20. CASE SendPendingSubscriptions
  <2>1. UNCHANGED app
    BY <1>20 DEF SendPendingSubscriptions, appVars
  <2>2. \A m \in Resubscribes : m.kind # "unsubscribe"
    BY ResubscribesTyped
  <2> QED
    BY <1>20, <2>1, <2>2, PendingSends, OneUnsubscribeSends
<1>21. CASE Serve
  <2>1. /\ \A k \in DOMAIN outgoing' : k + 1 \in DOMAIN outgoing /\ outgoing'[k] = outgoing[k + 1]
        /\ 1 \in DOMAIN outgoing /\ outgoing[1] = Head(outgoing)
    BY <1>21, Serves DEF ServesOne, Shrinks
  <2>2. DOMAIN outgoing' \subseteq Nat \ {0}
    BY <1>21, Serves DEF ServesOne
  <2>3. CASE Head(outgoing).kind = "unsubscribe"
    <3>1. ASSUME NEW k \in DOMAIN outgoing', outgoing'[k].kind = "unsubscribe" PROVE FALSE
      <4>1. k + 1 = 1
        BY <2>1, <2>3, <3>1 DEF OneUnsubscribe
      <4> QED
        BY <2>2, <4>1
    <3> QED
      BY <3>1 DEF OneUnsubscribe
  <2>4. CASE Head(outgoing).kind # "unsubscribe"
    <3>1. UNCHANGED app
      BY <1>21, <2>4, ServeMoves
    <3>2. ASSUME NEW k \in DOMAIN outgoing', outgoing'[k].kind = "unsubscribe"
          PROVE  /\ At(outgoing'[k].event, "await")
                 /\ \A j \in DOMAIN outgoing' : outgoing'[j].kind = "unsubscribe" => j = k
      <4>1. At(outgoing[k + 1].event, "await")
        BY <2>1, <3>2 DEF OneUnsubscribe
      <4>2. ASSUME NEW j \in DOMAIN outgoing', outgoing'[j].kind = "unsubscribe" PROVE j = k
        <5>1. j + 1 = k + 1
          BY <2>1, <3>2, <4>2 DEF OneUnsubscribe
        <5> QED
          BY <2>2, <5>1
      <4> QED
        BY <2>1, <4>1, <4>2
    <3> QED
      BY <3>1, <3>2 DEF OneUnsubscribe, At
  <2> QED
    BY <2>3, <2>4
<1> QED
  BY StepOfNext, <1>2, <1>3, <1>4, <1>5, <1>6, <1>7, <1>8, <1>9, <1>10, <1>11,
    <1>12, <1>13, <1>14, <1>15, <1>16, <1>17, <1>18, <1>19, <1>20, <1>21 DEF Step

(* Each listener has its tag.                                              *)
LEMMA TagsStayUnique ==
  ASSUME TypeOK, TagsUnique, [Next]_vars
  PROVE  TagsUnique'
<1>1. ASSUME UNCHANGED <<subscribed, nextTag>> PROVE TagsUnique'
  BY <1>1 DEF TagsUnique
<1>2. CASE UNCHANGED vars
  BY <1>1, <1>2 DEF vars, appVars
<1>3. CASE PushInform \/ StatusReported \/ AddQueuedHandlers \/ RemoveQueuedHandlers
  BY <1>1, <1>3 DEF PushInform, StatusReported, AddQueuedHandlers,
    RemoveQueuedHandlers, appVars
<1>4. CASE SendPendingSubscriptions \/ ValueReceived \/ SubscriptionAnswered
      \/ NotifySpecificListener
  BY <1>1, <1>4 DEF SendPendingSubscriptions, ValueReceived,
    SubscriptionAnswered, NotifySpecificListener, appVars
<1>5. CASE HandleSignalStates \/ Serve \/ Toggle
  BY <1>1, <1>5 DEF HandleSignalStates, Serve, Toggle, appVars
<1>6. ASSUME NEW x \in Attributes,
              AddHandler(x) \/ AddToQueue(x) \/ RemoveFromQueue(x)
       PROVE  TagsUnique'
  BY <1>1, <1>6 DEF AddHandler, AddToQueue, RemoveFromQueue
<1>7. ASSUME NEW e \in Events,
              InstallHandler(e) \/ GetCurrentValue(e) \/ AddSignalStateHandler(e)
                \/ RemoveHandler(e)
       PROVE  TagsUnique'
  BY <1>1, <1>7 DEF InstallHandler, GetCurrentValue, AddSignalStateHandler,
    RemoveHandler
<1>8. ASSUME NEW x \in Selectives,
              SetSubscriptionToken(x) \/ RequestSubscription(x) \/ CallUnsubscribe(x)
                \/ EraseEntry(x)
       PROVE  TagsUnique'
  BY <1>1, <1>8 DEF SetSubscriptionToken, RequestSubscription,
    CallUnsubscribe, EraseEntry
<1>9. ASSUME NEW e \in Events, Subscribe(e) PROVE TagsUnique'
  <2>1. \A f \in Events : subscribed'[f] = IF f = e THEN subscribed[e] \cup {nextTag}
        ELSE subscribed[f]
    BY <1>9, Subscribes
  <2>2. nextTag' = nextTag + 1 /\ nextTag \in Nat /\ \A f \in Events : subscribed[f] \subseteq Nat
    BY <1>9, AppTyped, Subscribes
  <2>3. \A f \in Events : nextTag \notin subscribed[f]
    BY <2>2 DEF TagsUnique
  <2> QED
    BY <2>1, <2>2, <2>3 DEF TagsUnique
<1>10. ASSUME NEW e \in Events, NEW t \in Tags, Unsubscribe(e, t) PROVE TagsUnique'
  <2>1. \A f \in Events : subscribed'[f] \subseteq subscribed[f]
    BY <1>10, Unsubscribes
  <2>2. UNCHANGED nextTag
    BY <1>10 DEF Unsubscribe
  <2> QED
    BY <2>1, <2>2 DEF TagsUnique
<1> QED
  BY StepOfNext, <1>2, <1>3, <1>4, <1>5, <1>6, <1>7, <1>8, <1>9, <1>10 DEF Step

(* Less of a status event's tags, or of those of other events, is fine.    *)
LEMMA FewerStatusTags ==
  ASSUME TypeOK, StatusTags, UNCHANGED nextTag, listeners' \subseteq listeners,
         \A e \in Events : subscribed'[e] \subseteq subscribed[e],
         RunsOne \/ UNCHANGED pushed
  PROVE  StatusTags'
<1>1. \A t : StatusTag(t) => StatusTag(t)'
  BY DEF StatusTag
<1>2. \A k \in DOMAIN pushed' : \E j \in DOMAIN pushed : pushed'[k] = pushed[j]
  BY DEF RunsOne, Shrinks
<1> QED
  BY <1>1, <1>2 DEF StatusTags, StatusTag

(* A function that is not about the status adds none.                      *)
LEMMA OtherPushes ==
  ASSUME TypeOK, StatusTags, UNCHANGED <<nextTag, listeners, subscribed>>,
         NEW f, Pushes({f}, {f}), f.kind = "inform" => f.tag \in Tags /\ StatusTag(f.tag)
  PROVE  StatusTags'
<1>1. \A t : StatusTag(t)' <=> StatusTag(t)
  BY DEF StatusTag
<1>2. \A k \in DOMAIN pushed' : pushed'[k] = f \/ (k \in DOMAIN pushed /\ pushed'[k] = pushed[k])
  BY DEF Pushes, Grows
<1>3. \A t \in listeners' : StatusTag(t)
  BY DEF StatusTags
<1>4. \A k \in DOMAIN pushed' : pushed'[k].kind = "inform" =>
        pushed'[k].tag \in Tags /\ StatusTag(pushed'[k].tag)
  BY <1>2 DEF StatusTags
<1> QED
  BY <1>1, <1>3, <1>4 DEF StatusTags, StatusTag

(* The tags of the listeners of the status.                                *)
LEMMA StatusTagsKept ==
  ASSUME TypeOK, AppInPlace, TagsUnique, StatusTags, [Next]_vars
  PROVE  StatusTags'
<1>1. ASSUME UNCHANGED <<listeners, pushed, subscribed, nextTag>> PROVE StatusTags'
  BY <1>1 DEF StatusTags, StatusTag
<1>2. CASE UNCHANGED vars
  BY <1>1, <1>2 DEF vars, proxyVars, appVars
<1>3. CASE StatusReported \/ AddQueuedHandlers \/ RemoveQueuedHandlers \/ ValueReceived
  BY <1>1, <1>3 DEF StatusReported, AddQueuedHandlers, RemoveQueuedHandlers,
    ValueReceived, proxyVars, appVars
<1>4. CASE SubscriptionAnswered \/ Serve \/ Toggle
  BY <1>1, <1>4 DEF SubscriptionAnswered, Serve, Toggle, appVars, proxyVars
<1>5. ASSUME NEW x \in Attributes,
              AddHandler(x) \/ AddToQueue(x) \/ RemoveFromQueue(x)
       PROVE  StatusTags'
  BY <1>1, <1>5 DEF AddHandler, AddToQueue, RemoveFromQueue, proxyVars
<1>6. ASSUME NEW e \in Events,
              InstallHandler(e) \/ GetCurrentValue(e) \/ RemoveHandler(e)
       PROVE  StatusTags'
  BY <1>1, <1>6 DEF InstallHandler, GetCurrentValue, RemoveHandler, proxyVars
<1>7. ASSUME NEW x \in Selectives,
              SetSubscriptionToken(x) \/ RequestSubscription(x) \/ CallUnsubscribe(x)
                \/ EraseEntry(x)
       PROVE  StatusTags'
  BY <1>1, <1>7 DEF SetSubscriptionToken, RequestSubscription,
    CallUnsubscribe, EraseEntry, proxyVars
<1>8. ASSUME NEW e \in Events, Subscribe(e) PROVE StatusTags'
  <2>1. \A f \in Events : subscribed'[f] \subseteq subscribed[f] \cup {nextTag}
    BY <1>8, Subscribes
  <2>2. nextTag' = nextTag + 1 /\ nextTag \in Nat
    BY <1>8, AppTyped, Subscribes
  <2>3. UNCHANGED <<listeners, pushed>>
    BY <1>8 DEF Subscribe, proxyVars
  <2>4. listeners \subseteq Nat
    BY DEF TypeOK
  <2>5. \A t \in Nat : StatusTag(t) => StatusTag(t)'
    BY <2>1, <2>2 DEF StatusTag
  <2> QED
    BY <2>3, <2>4, <2>5 DEF StatusTags
<1>9. ASSUME NEW e \in Events, AddSignalStateHandler(e) PROVE StatusTags'
  <2>1. UNCHANGED <<nextTag, listeners, subscribed>>
    BY <1>9 DEF AddSignalStateHandler
  <2>2. PICK f \in Functions : Pushes({f}, {f}) /\ f.kind = "succeed"
    BY <1>9, StatePushes
  <2> QED
    BY <2>1, <2>2, OtherPushes
<1>10. CASE PushInform
  <2>1. UNCHANGED <<nextTag, listeners, subscribed>>
    BY <1>10 DEF PushInform, proxyVars
  <2>2. PICK f \in Functions : Pushes({f}, {f}) /\ f.kind = "inform" /\ f.tag = app.tag
    BY <1>10, InformPushes
  <2>3. app.tag \in subscribed[StatusEvent] /\ app.tag \in Tags
    BY <1>10, InformPushes
  <2>4. StatusTag(app.tag)
    BY <2>3 DEF StatusTag, TagsUnique
  <2> QED
    BY <2>1, <2>2, <2>3, <2>4, OtherPushes
<1>11. ASSUME NEW e \in Events, NEW t \in Tags, Unsubscribe(e, t) PROVE StatusTags'
  <2>1. \A f \in Events : subscribed'[f] \subseteq subscribed[f]
    BY <1>11, Unsubscribes
  <2>2. UNCHANGED <<nextTag, pushed>> /\ listeners' \subseteq listeners
    BY <1>11 DEF Unsubscribe
  <2> QED
    BY <2>1, <2>2, FewerStatusTags
<1>12. CASE SendPendingSubscriptions
  <2>1. UNCHANGED <<nextTag, listeners, subscribed>>
    BY <1>12 DEF SendPendingSubscriptions, proxyVars, appVars
  <2>2. CASE UNCHANGED pushed
    BY <1>1, <2>1, <2>2
  <2>3. CASE everAvailable
    <3>1. PICK f \in Functions : Pushes({f}, {f}) /\ f.kind = "states"
      BY <1>12, <2>3, PendingPushes
    <3> QED
      BY <2>1, <3>1, OtherPushes
  <2> QED
    BY <1>12, <2>2, <2>3, PendingPushes
<1>13. CASE NotifySpecificListener
  <2>1. Head(pushed).kind = "inform" /\ 1 \in DOMAIN pushed /\ pushed[1] = Head(pushed) /\ RunsOne
    BY <1>13, Runs DEF NotifySpecificListener
  <2>2. UNCHANGED <<nextTag, subscribed>> /\ listeners' = listeners \cup {Head(pushed).tag}
    BY <1>13 DEF NotifySpecificListener, appVars
  <2>3. StatusTag(Head(pushed).tag)
    BY <2>1 DEF StatusTags
  <2>4. \A t \in listeners' : StatusTag(t)
    BY <2>2, <2>3 DEF StatusTags
  <2>5. \A k \in DOMAIN pushed' : pushed'[k].kind = "inform" =>
          pushed'[k].tag \in Tags /\ StatusTag(pushed'[k].tag)
    BY <2>1 DEF RunsOne, Shrinks, StatusTags
  <2>6. \A t : StatusTag(t)' <=> StatusTag(t)
    BY <2>2 DEF StatusTag
  <2> QED
    BY <2>4, <2>5, <2>6 DEF StatusTags, StatusTag
<1>14. CASE HandleSignalStates
  <2>1. RunsOne
    BY <1>14, Runs
  <2>2. UNCHANGED <<nextTag, subscribed, listeners>>
    BY <1>14 DEF HandleSignalStates, appVars, proxyVars
  <2> QED
    BY <2>1, <2>2, FewerStatusTags
<1> QED
  BY StepOfNext, <1>2, <1>3, <1>4, <1>5, <1>6, <1>7, <1>8, <1>9, <1>10, <1>11,
    <1>12, <1>13, <1>14 DEF Step

(* The tag of an internal event is one of its event.                       *)
LEMMA InternalTagsKept ==
  ASSUME TypeOK, AppInPlace, TagsUnique, InternalTags, [Next]_vars
  PROVE  InternalTags'
<1>1. ASSUME UNCHANGED <<internal, nextTag, subscribed>> PROVE InternalTags'
  BY <1>1 DEF InternalTags
<1>2. CASE UNCHANGED vars
  BY <1>1, <1>2 DEF vars, proxyVars, appVars
<1>3. CASE PushInform \/ StatusReported \/ AddQueuedHandlers \/ RemoveQueuedHandlers
  BY <1>1, <1>3 DEF PushInform, StatusReported, AddQueuedHandlers,
    RemoveQueuedHandlers, proxyVars, appVars
<1>4. CASE SendPendingSubscriptions \/ ValueReceived \/ SubscriptionAnswered
      \/ NotifySpecificListener
  BY <1>1, <1>4 DEF SendPendingSubscriptions, ValueReceived,
    SubscriptionAnswered, NotifySpecificListener, proxyVars, appVars
<1>5. CASE HandleSignalStates \/ Serve \/ Toggle
  BY <1>1, <1>5 DEF HandleSignalStates, Serve, Toggle, proxyVars, appVars
<1>6. ASSUME NEW x \in Attributes,
              AddHandler(x) \/ AddToQueue(x) \/ RemoveFromQueue(x)
       PROVE  InternalTags'
  BY <1>1, <1>6 DEF AddHandler, AddToQueue, RemoveFromQueue, proxyVars
<1>7. ASSUME NEW e \in Events,
              GetCurrentValue(e) \/ AddSignalStateHandler(e) \/ RemoveHandler(e)
       PROVE  InternalTags'
  BY <1>1, <1>7 DEF GetCurrentValue, AddSignalStateHandler, RemoveHandler,
    proxyVars
<1>8. ASSUME NEW x \in Selectives,
              SetSubscriptionToken(x) \/ RequestSubscription(x) \/ CallUnsubscribe(x)
                \/ EraseEntry(x)
       PROVE  InternalTags'
  BY <1>1, <1>8 DEF SetSubscriptionToken, RequestSubscription,
    CallUnsubscribe, EraseEntry, proxyVars
<1>9. ASSUME NEW e \in Events, Subscribe(e) PROVE InternalTags'
  <2>1. \A f \in Events : subscribed'[f] \subseteq subscribed[f] \cup {nextTag}
    BY <1>9, Subscribes
  <2>2. nextTag' = nextTag + 1 /\ nextTag \in Nat
    BY <1>9, AppTyped, Subscribes
  <2>3. UNCHANGED internal
    BY <1>9 DEF Subscribe, proxyVars
  <2>4. \A g \in Legacy : internal[g] # None => internal[g] \in Nat
    BY DEF TypeOK
  <2> QED
    BY <2>1, <2>2, <2>3, <2>4 DEF InternalTags
<1>10. ASSUME NEW e \in Events, InstallHandler(e) PROVE InternalTags'
  <2>1. UNCHANGED <<nextTag, subscribed>>
    BY <1>10 DEF InstallHandler
  <2>2. app.tag \in subscribed[e]
    BY <1>10, Arrived DEF InstallHandler, At, ArrivalPlaces
  <2>3. \A g \in Legacy : internal'[g] = internal[g] \/ (g = e /\ internal'[g] = app.tag)
    BY <1>10 DEF InstallHandler, SubscribeInternal
  <2>4. app.tag < nextTag /\ \A f \in Events : app.tag \in subscribed[f] => f = e
    BY <2>2 DEF TagsUnique
  <2> QED
    BY <2>1, <2>3, <2>4 DEF InternalTags
<1>11. ASSUME NEW e \in Events, NEW t \in Tags, Unsubscribe(e, t) PROVE InternalTags'
  <2>1. \A f \in Events : subscribed'[f] \subseteq subscribed[f]
    BY <1>11, Unsubscribes
  <2>2. UNCHANGED nextTag
    BY <1>11 DEF Unsubscribe
  <2>3. \A g \in Legacy : internal'[g] = internal[g] \/ internal'[g] = None
    BY <1>11 DEF Unsubscribe, UnsubscribeInternal
  <2> QED
    BY <2>1, <2>2, <2>3 DEF InternalTags
<1> QED
  BY StepOfNext, <1>2, <1>3, <1>4, <1>5, <1>6, <1>7, <1>8, <1>9, <1>10, <1>11 DEF Step

-----------------------------------------------------------------------------
(* The queue of the attributes.                                            *)

(* The flags tell which handlers are there.                                *)
LEMMA QueueStaysMatched ==
  ASSUME TypeOK, AppInPlace, MessagesShaped, OneUnsubscribe, QueueMatches,
    [Next]_vars
  PROVE  QueueMatches'
<1>1. ASSUME UNCHANGED <<queue, installed, subscribed>>,
              UNCHANGED app \/ (app.pc \notin {"add", "install", "queue", "dequeue", "remove"}
                /\ app'.pc \notin {"add", "install", "queue", "dequeue", "remove"})
       PROVE  QueueMatches'
  BY <1>1 DEF QueueMatches, At, TupleMatches, Entering
<1>2. CASE UNCHANGED vars
  BY <1>1, <1>2 DEF vars, proxyVars, appVars
<1>3. CASE StatusReported \/ SendPendingSubscriptions \/ ValueReceived \/ NotifySpecificListener
  BY <1>1, <1>3 DEF StatusReported, SendPendingSubscriptions, ValueReceived,
    NotifySpecificListener, proxyVars, appVars
<1>4. CASE HandleSignalStates \/ Toggle
  BY <1>1, <1>4 DEF HandleSignalStates, Toggle, proxyVars, appVars
<1>5. ASSUME NEW e \in Events, GetCurrentValue(e) PROVE QueueMatches'
  BY <1>1, <1>5, IdleTyped, GetsCurrentValue DEF GetCurrentValue, proxyVars,
    Moves, Finishes
<1>6. ASSUME NEW e \in Events, AddSignalStateHandler(e) PROVE QueueMatches'
  BY <1>1, <1>6, IdleTyped, AddsSignalStateHandler DEF AddSignalStateHandler,
    Moves, Finishes
<1>7. ASSUME NEW x \in Selectives, SetSubscriptionToken(x) PROVE QueueMatches'
  BY <1>1, <1>7, IdleTyped, SetsSubscriptionToken DEF SetSubscriptionToken,
    Moves, Finishes
<1>8. ASSUME NEW x \in Selectives, RequestSubscription(x) PROVE QueueMatches'
  BY <1>1, <1>8, IdleTyped, RequestsSubscription DEF RequestSubscription,
    proxyVars, Moves, Finishes
<1>9. CASE PushInform
  BY <1>1, <1>9, IdleTyped, PushesInform DEF PushInform, proxyVars, Moves,
    Finishes
<1>10. ASSUME NEW x \in Selectives, CallUnsubscribe(x) PROVE QueueMatches'
  BY <1>1, <1>10, IdleTyped, CallsUnsubscribe DEF CallUnsubscribe, proxyVars,
    Moves, Finishes
<1>11. ASSUME NEW x \in Selectives, EraseEntry(x) PROVE QueueMatches'
  BY <1>1, <1>11, IdleTyped, ErasesEntry DEF EraseEntry, Moves, Finishes
<1>12. CASE Serve
  BY <1>1, <1>12, IdleTyped, ServeMoves DEF Serve, proxyVars, Moves, Finishes
<1>13. ASSUME NEW e \in Events, Subscribe(e) PROVE QueueMatches'
  <2>1. ASSUME NEW y \in Attributes PROVE TupleMatches(y)'
    <3>1. /\ app'.event = e /\ app.event # y /\ app'.flag = "pending"
          /\ app'.pc = IF subscribed[e] = {} THEN OnFirstListenerAdded(e) ELSE OnListenerAdded(e)
          /\ subscribed'[y] = IF y = e THEN subscribed[e] \cup {nextTag} ELSE subscribed[y]
      BY <1>13, Subscribes, IdleTyped
    <3>2. queue'[y] = queue[y] /\ installed' = installed
      BY <1>13 DEF Subscribe, proxyVars
    <3>3. TupleMatches(y)
      BY DEF QueueMatches
    <3>4. CASE y = e
      BY <3>1, <3>2, <3>3, <3>4 DEF TupleMatches, Entering, At, OnFirstListenerAdded,
        OnListenerAdded
    <3>5. CASE y # e
      BY <3>1, <3>2, <3>3, <3>5 DEF TupleMatches, Entering, At
    <3> QED
      BY <3>4, <3>5
  <2> QED
    BY <2>1 DEF QueueMatches
<1>14. ASSUME NEW x \in Attributes, AddHandler(x) PROVE QueueMatches'
  <2>1. /\ app.event = x /\ app.pc = "add" /\ app'.event = x /\ app'.flag = app.flag
        /\ app'.pc \in {"install", "queue"}
    BY <1>14, AddsHandler DEF Moves
  <2>2. UNCHANGED <<queue, installed, subscribed>>
    BY <1>14 DEF AddHandler, proxyVars
  <2> QED
    BY <2>1, <2>2 DEF QueueMatches, TupleMatches, Entering, At
<1>15. ASSUME NEW e \in Events, InstallHandler(e) PROVE QueueMatches'
  <2>1. /\ app.event = e /\ app.pc = "install" /\ app'.event = e
        /\ e \in Attributes => app'.pc = "queue" /\ app'.flag = "added"
        /\ installed' = installed \cup {e}
    BY <1>15, InstallsHandler DEF Moves, InstallHandler, At
  <2>2. UNCHANGED <<queue, subscribed>>
    BY <1>15 DEF InstallHandler
  <2>3. e \in Attributes => subscribed[e] # {}
    BY <2>1, Arrived DEF ArrivalPlaces
  <2> QED
    BY <2>1, <2>2, <2>3 DEF QueueMatches, TupleMatches, Entering, At
<1>16. ASSUME NEW x \in Attributes, AddToQueue(x) PROVE QueueMatches'
  <2>1. app.event = x /\ app.pc = "queue" /\ app'.event = x /\ app'.pc = "value"
    BY <1>16, AddsToQueue DEF Moves
  <2>2. subscribed[x] # {}
    BY <2>1, Arrived DEF ArrivalPlaces
  <2>3. \A y \in Attributes : queue'[y] = IF y = x /\ queue[x] = "absent" THEN app.flag
        ELSE queue[y]
    BY <1>16 DEF AddToQueue, TypeOK
  <2>4. UNCHANGED <<installed, subscribed>>
    BY <1>16 DEF AddToQueue
  <2> QED
    BY <2>1, <2>2, <2>3, <2>4 DEF QueueMatches, TupleMatches, Entering, At
<1>17. ASSUME NEW e \in Events, NEW t \in Tags, Unsubscribe(e, t) PROVE QueueMatches'
  <2>4. UNCHANGED <<queue, installed>>
    BY <1>17 DEF Unsubscribe
  <2>5. app = Idle /\ subscribed' = [f \in Events |-> IF f = e THEN subscribed[e] \ {t}
        ELSE subscribed[f]]
    BY <1>17, Unsubscribes
  <2>1. /\ app = Idle /\ UNCHANGED <<queue, installed>>
        /\ \A y \in Attributes : subscribed'[y] = IF y = e THEN subscribed[e] \ {t}
             ELSE subscribed[y]
    BY <2>4, <2>5
  <2>2. CASE subscribed[e] = {t} /\ e # StatusEvent
    <3>1. /\ app'.event = e /\ app'.pc = OnLastListenerRemoved(e)
      BY <1>17, <2>2, Unsubscribes
    <3>2. app'.pc \in {"dequeue", "remove"} /\ (e \in Attributes => app'.pc = "dequeue")
      BY <3>1 DEF OnLastListenerRemoved
    <3> QED
      BY <2>1, <3>1, <3>2, IdleTyped DEF QueueMatches, TupleMatches, Entering, At
  <2>3. CASE subscribed[e] # {t} \/ e = StatusEvent
    <3>1. app' = Idle /\ t \in subscribed[e]
      BY <1>17, <2>3, Unsubscribes
    <3>2. \A y \in Attributes : subscribed'[y] = {} => subscribed[y] = {}
      BY <2>1, <2>3, <3>1
    <3> QED
      BY <2>1, <3>1, <3>2, IdleTyped DEF QueueMatches, TupleMatches, Entering, At
  <2> QED
    BY <2>2, <2>3
<1>18. ASSUME NEW x \in Attributes, RemoveFromQueue(x) PROVE QueueMatches'
  <2>1. app.event = x /\ app.pc = "dequeue" /\ app'.event = x /\ app'.pc = "remove"
    BY <1>18, RemovesFromQueue DEF Moves
  <2>2. \A y \in Attributes : queue'[y] = IF y = x THEN "absent" ELSE queue[y]
    BY <1>18 DEF RemoveFromQueue, TypeOK
  <2>3. UNCHANGED <<installed, subscribed>>
    BY <1>18 DEF RemoveFromQueue
  <2> QED
    BY <2>1, <2>2, <2>3 DEF QueueMatches, TupleMatches, Entering, At
<1>19. ASSUME NEW e \in Events, RemoveHandler(e) PROVE QueueMatches'
  <2>1. /\ app.event = e /\ app.pc = "remove" /\ installed' = installed \ {e}
        /\ app' = Idle \/ (app'.event = e /\ app'.pc \in {"unsubscribe", "erase"})
    BY <1>19, RemovesHandler DEF Moves, Finishes
  <2>2. UNCHANGED <<queue, subscribed>>
    BY <1>19 DEF RemoveHandler
  <2>3. e \in Attributes => queue[e] = "absent"
    BY <2>1 DEF QueueMatches, TupleMatches, At
  <2> QED
    BY <2>1, <2>2, <2>3, IdleTyped DEF QueueMatches, TupleMatches, Entering, At
<1>20. CASE AddQueuedHandlers
  <2>1. /\ UNCHANGED <<app, subscribed>> /\ installed' = installed \cup Waiting
        /\ \A y \in Attributes : queue'[y] = IF y \in Waiting THEN "added" ELSE queue[y]
    BY <1>20 DEF AddQueuedHandlers, appVars
  <2>2. \A y \in Attributes : y \in Waiting <=> queue[y] = "pending"
    BY DEF Waiting
  <2> QED
    BY <2>1, <2>2 DEF QueueMatches, TupleMatches, Entering, At
<1>21. CASE RemoveQueuedHandlers
  <2>1. UNCHANGED <<app, subscribed>>
    BY <1>21 DEF RemoveQueuedHandlers, appVars
  <2>2. ASSUME NEW y \in Attributes PROVE TupleMatches(y)'
    <3>1. /\ queue[y] = "added" => queue'[y] = "pending" /\ y \notin installed'
          /\ queue[y] # "added" => queue'[y] = queue[y] /\ (y \in installed' <=> y \in installed)
      BY <1>21 DEF RemoveQueuedHandlers
    <3>2. TupleMatches(y) /\ (At(y, "queue") => Entering(y))
      BY DEF QueueMatches, Entering
    <3>3. /\ At(y, "queue")' <=> At(y, "queue")
          /\ At(y, "remove")' <=> At(y, "remove")
          /\ At(y, "dequeue")' <=> At(y, "dequeue")
          /\ At(y, "add")' <=> At(y, "add")
          /\ Entering(y)' <=> Entering(y)
      BY <2>1 DEF At, Entering
    <3>4. CASE queue[y] = "added"
      BY <2>1, <3>1, <3>2, <3>3, <3>4 DEF TupleMatches
    <3>5. CASE queue[y] # "added"
      BY <2>1, <3>1, <3>2, <3>3, <3>5 DEF TupleMatches
    <3> QED
      BY <3>4, <3>5
  <2> QED
    BY <2>2 DEF QueueMatches
<1>22. CASE SubscriptionAnswered
  <2>1. Head(incoming).event \in Selectives
    BY <1>22, Dispatches DEF SubscriptionAnswered, MessagesShaped, Shaped, Requests
  <2>2. /\ UNCHANGED <<queue, app, subscribed>>
        /\ installed' = installed \/ installed' = installed \ {Head(incoming).event}
    BY <1>22 DEF SubscriptionAnswered, appVars
  <2>3. \A y \in Attributes : y \in installed' <=> y \in installed
    BY <2>1, <2>2
  <2> QED
    BY <2>2, <2>3 DEF QueueMatches, TupleMatches, Entering, At
<1> QED
  BY StepOfNext, <1>2, <1>3, <1>4, <1>5, <1>6, <1>7, <1>8, <1>9, <1>10, <1>11,
    <1>12, <1>13, <1>14, <1>15, <1>16, <1>17, <1>18, <1>19, <1>20, <1>21,
    <1>22 DEF Step

(* The flags follow the status.                                            *)
LEMMA QueueStaysInStep ==
  ASSUME TypeOK, AppInPlace, MessagesShaped, OneUnsubscribe, QueueMatches,
    QueueFollows, [Next]_vars
  PROVE  QueueFollows'
<1>1. ASSUME UNCHANGED <<queue, subscribed, overtaken, status, loop>>,
              UNCHANGED app \/ (app.pc \notin {"add", "install", "queue"}
                /\ app'.pc \notin {"add", "install", "queue"})
       PROVE  QueueFollows'
  BY <1>1 DEF QueueFollows, At, TupleFollows, Entering, IsAvailable
<1>2. CASE UNCHANGED vars
  BY <1>1, <1>2 DEF vars, proxyVars, appVars, ghosts
<1>3. CASE ValueReceived \/ SubscriptionAnswered \/ NotifySpecificListener \/ HandleSignalStates
  BY <1>1, <1>3 DEF ValueReceived, SubscriptionAnswered,
    NotifySpecificListener, HandleSignalStates, proxyVars, appVars, ghosts
<1>4. CASE Toggle
  BY <1>1, <1>4 DEF Toggle, proxyVars, appVars, ghosts
<1>5. ASSUME NEW e \in Events, GetCurrentValue(e) PROVE QueueFollows'
  BY <1>1, <1>5, IdleTyped, GetsCurrentValue DEF GetCurrentValue, proxyVars,
    ghosts, Moves, Finishes
<1>6. ASSUME NEW e \in Events, AddSignalStateHandler(e) PROVE QueueFollows'
  BY <1>1, <1>6, IdleTyped, AddsSignalStateHandler DEF AddSignalStateHandler,
    ghosts, Moves, Finishes
<1>7. ASSUME NEW x \in Selectives, SetSubscriptionToken(x) PROVE QueueFollows'
  BY <1>1, <1>7, IdleTyped, SetsSubscriptionToken DEF SetSubscriptionToken,
    ghosts, Moves, Finishes
<1>8. ASSUME NEW x \in Selectives, RequestSubscription(x) PROVE QueueFollows'
  BY <1>1, <1>8, IdleTyped, RequestsSubscription DEF RequestSubscription,
    proxyVars, ghosts, Moves, Finishes
<1>9. CASE PushInform
  BY <1>1, <1>9, IdleTyped, PushesInform DEF PushInform, proxyVars, ghosts,
    Moves, Finishes
<1>10. ASSUME NEW e \in Events, RemoveHandler(e) PROVE QueueFollows'
  BY <1>1, <1>10, IdleTyped, RemovesHandler DEF RemoveHandler, ghosts, Moves,
    Finishes
<1>11. ASSUME NEW x \in Selectives, EraseEntry(x) PROVE QueueFollows'
  BY <1>1, <1>11, IdleTyped, ErasesEntry DEF EraseEntry, ghosts, Moves,
    Finishes
<1>12. CASE Serve
  BY <1>1, <1>12, IdleTyped, ServeMoves DEF Serve, proxyVars, ghosts, Moves,
    Finishes
<1>13. ASSUME NEW e \in Events, Subscribe(e) PROVE QueueFollows'
  <2>1. ASSUME NEW y \in Attributes \ overtaken' PROVE TupleFollows(y)'
    <3>1. /\ app'.event = e /\ app.event # y /\ app'.flag = "pending"
          /\ app'.pc = IF subscribed[e] = {} THEN OnFirstListenerAdded(e) ELSE OnListenerAdded(e)
          /\ subscribed'[y] = IF y = e THEN subscribed[e] \cup {nextTag} ELSE subscribed[y]
      BY <1>13, Subscribes, IdleTyped
    <3>2. queue'[y] = queue[y] /\ UNCHANGED <<status, loop>>
      BY <1>13 DEF Subscribe, proxyVars
    <3>3. (y = e /\ subscribed[e] = {}) \/ y \in Attributes \ overtaken
      BY <1>13 DEF Subscribe
    <3>4. CASE y = e /\ subscribed[e] = {}
      BY <3>1, <3>4 DEF TupleFollows, Entering, At, OnFirstListenerAdded
    <3>5. CASE y # e \/ subscribed[e] # {}
      <4>1. (TupleFollows(y) /\ ~Entering(y) /\ subscribed[y] # {}) \/ y # e
        BY <3>1, <3>3, <3>5 DEF QueueFollows, Entering, At
      <4>2. y = e => app'.pc = "value"
        BY <3>1, <3>5 DEF OnListenerAdded
      <4>3. TupleFollows(y)
        BY <3>3, <3>5 DEF QueueFollows
      <4> QED
        BY <3>1, <3>2, <4>1, <4>2, <4>3 DEF TupleFollows, Entering, At, IsAvailable
    <3> QED
      BY <3>4, <3>5
  <2> QED
    BY <2>1 DEF QueueFollows
<1>14. ASSUME NEW x \in Attributes, AddHandler(x) PROVE QueueFollows'
  <2>1. /\ app.event = x /\ app.pc = "add" /\ app'.event = x /\ app'.flag = app.flag
        /\ app'.pc = IF IsAvailable THEN "install" ELSE "queue"
    BY <1>14, AddsHandler DEF Moves
  <2>2. UNCHANGED <<queue, subscribed, overtaken, status, loop>>
    BY <1>14 DEF AddHandler, proxyVars, ghosts
  <2>3. app.flag = "pending"
    BY <2>1 DEF QueueMatches, TupleMatches, At
  <2> QED
    BY <2>1, <2>2, <2>3 DEF QueueFollows, TupleFollows, Entering, At, IsAvailable
<1>15. ASSUME NEW e \in Events, InstallHandler(e) PROVE QueueFollows'
  <2>1. /\ app.event = e /\ app.pc = "install" /\ app'.event = e
        /\ e \in Attributes => app'.pc = "queue" /\ app'.flag = "added"
    BY <1>15, InstallsHandler DEF Moves, InstallHandler, At
  <2>2. UNCHANGED <<queue, subscribed, overtaken, status, loop>>
    BY <1>15 DEF InstallHandler, ghosts
  <2> QED
    BY <2>1, <2>2 DEF QueueFollows, TupleFollows, Entering, At, IsAvailable
<1>16. ASSUME NEW x \in Attributes, AddToQueue(x) PROVE QueueFollows'
  <2>1. app.event = x /\ app.pc = "queue" /\ app'.event = x /\ app'.pc = "value"
    BY <1>16, AddsToQueue DEF Moves
  <2>2. queue[x] = "absent"
    BY <2>1 DEF QueueMatches, TupleMatches, Entering, At
  <2>3. app.flag \in {"pending", "added"}
    BY AppTyped DEF AppTypes
  <2>4. \A y \in Attributes : queue'[y] = IF y = x THEN app.flag ELSE queue[y]
    BY <1>16, <2>2 DEF AddToQueue, TypeOK
  <2>5. UNCHANGED <<subscribed, overtaken, status, loop>>
    BY <1>16 DEF AddToQueue, ghosts
  <2> QED
    BY <2>1, <2>3, <2>4, <2>5 DEF QueueFollows, TupleFollows, Entering, At, IsAvailable
<1>17. ASSUME NEW e \in Events, NEW t \in Tags, Unsubscribe(e, t) PROVE QueueFollows'
  <2>5. UNCHANGED <<queue, overtaken, status, loop>>
    BY <1>17 DEF Unsubscribe, ghosts
  <2>6. app = Idle /\ \A y \in Attributes : subscribed'[y] \subseteq subscribed[y]
    BY <1>17, Unsubscribes
  <2>1. /\ app = Idle /\ UNCHANGED <<queue, overtaken, status, loop>>
        /\ \A y \in Attributes : subscribed'[y] \subseteq subscribed[y]
    BY <2>5, <2>6
  <2>2. app' = Idle \/ (app'.pc \in {"dequeue", "remove"})
    BY <1>17, Unsubscribes DEF OnLastListenerRemoved
  <2>3. \A y \in Attributes : ~Entering(y)' /\ ~Entering(y)
    BY <2>1, <2>2, IdleTyped DEF Entering, At
  <2>4. \A y \in Attributes : ~At(y, "install")' /\ ~At(y, "queue")'
    BY <2>3 DEF Entering
  <2> QED
    BY <2>1, <2>3, <2>4 DEF QueueFollows, TupleFollows, IsAvailable
<1>18. ASSUME NEW x \in Attributes, RemoveFromQueue(x) PROVE QueueFollows'
  <2>1. app.event = x /\ app.pc = "dequeue" /\ app'.event = x /\ app'.pc = "remove"
    BY <1>18, RemovesFromQueue DEF Moves
  <2>2. subscribed[x] = {}
    BY <2>1, Departed DEF DeparturePlaces
  <2>3. \A y \in Attributes : queue'[y] = IF y = x THEN "absent" ELSE queue[y]
    BY <1>18 DEF RemoveFromQueue, TypeOK
  <2>4. UNCHANGED <<subscribed, overtaken, status, loop>>
    BY <1>18 DEF RemoveFromQueue, ghosts
  <2> QED
    BY <2>1, <2>2, <2>3, <2>4 DEF QueueFollows, TupleFollows, Entering, At, IsAvailable
<1>19. ASSUME NEW x \in Selectives, CallUnsubscribe(x) PROVE QueueFollows'
  <2>1. UNCHANGED <<queue, subscribed, status, loop>> /\ overtaken \subseteq overtaken'
    BY <1>19 DEF CallUnsubscribe, proxyVars
  <2>2. app.event = x /\ app'.event = x
    BY <1>19, CallsUnsubscribe DEF Moves
  <2>3. \A y \in Attributes : y # x
    OBVIOUS
  <2> QED
    BY <2>1, <2>2, <2>3 DEF QueueFollows, TupleFollows, Entering, At, IsAvailable
<1>20. CASE StatusReported
  <2>1. CASE UNCHANGED <<status, loop, overtaken>>
    <3>1. UNCHANGED <<queue, subscribed, app>>
      BY <1>20 DEF StatusReported, proxyVars, appVars
    <3> QED
      BY <1>1, <2>1, <3>1
  <2>2. CASE loop' = "handlers" /\ overtaken' = overtaken \cup Joining
    <3>1. UNCHANGED <<queue, subscribed, app>> /\ loop = "idle"
      BY <1>20 DEF StatusReported, proxyVars, appVars
    <3>2. ASSUME NEW y \in Attributes \ overtaken' PROVE TupleFollows(y)'
      <4>1. y \in Attributes \ overtaken /\ ~At(y, "install") /\ ~At(y, "queue")
        BY <2>2 DEF Joining
      <4> QED
        BY <2>2, <3>1, <4>1 DEF QueueFollows, TupleFollows, Entering, At
    <3> QED
      BY <3>2 DEF QueueFollows
  <2> QED
    BY <1>20, <2>1, <2>2 DEF StatusReported
<1>21. CASE AddQueuedHandlers
  <2>1. /\ UNCHANGED <<app, subscribed, overtaken, status>> /\ IsAvailable
        /\ \A y \in Attributes : queue'[y] = IF queue[y] = "pending" THEN "added" ELSE queue[y]
    BY <1>21 DEF AddQueuedHandlers, Waiting, appVars, ghosts
  <2>2. \A y \in Attributes : queue[y] \in {"absent", "pending", "added"}
    BY DEF TypeOK
  <2> QED
    BY <2>1, <2>2 DEF QueueFollows, TupleFollows, Entering, At, IsAvailable
<1>22. CASE RemoveQueuedHandlers
  <2>1. /\ UNCHANGED <<app, subscribed, overtaken, status>> /\ ~IsAvailable
        /\ \A y \in Attributes : queue'[y] = IF queue[y] = "added" THEN "pending" ELSE queue[y]
    BY <1>22 DEF RemoveQueuedHandlers, appVars, ghosts
  <2> QED
    BY <2>1 DEF QueueFollows, TupleFollows, Entering, At, IsAvailable
<1>23. CASE SendPendingSubscriptions
  <2>1. UNCHANGED <<app, subscribed, status, queue>> /\ loop = "selective"
        /\ overtaken \subseteq overtaken'
    BY <1>23 DEF SendPendingSubscriptions, appVars, proxyVars
  <2> QED
    BY <2>1 DEF QueueFollows, TupleFollows, Entering, At, IsAvailable
<1> QED
  BY StepOfNext, <1>2, <1>3, <1>4, <1>5, <1>6, <1>7, <1>8, <1>9, <1>10, <1>11,
    <1>12, <1>13, <1>14, <1>15, <1>16, <1>17, <1>18, <1>19, <1>20, <1>21,
    <1>22, <1>23 DEF Step

-----------------------------------------------------------------------------
(* The handlers and the subscriptions at the stub.                         *)

(* Nothing comes back without listeners.                                   *)
LEMMA HandlersStayGone ==
  ASSUME TypeOK, AppInPlace, MessagesShaped, OneUnsubscribe, HandlersGone,
    [Next]_vars
  PROVE  HandlersGone'
<1>1. ASSUME UNCHANGED <<installed, selective, subscribed>>,
              UNCHANGED app \/ (app.pc \notin {"remove", "unsubscribe", "await", "erase"}
                /\ app'.pc \notin {"remove", "unsubscribe", "await", "erase"})
       PROVE  HandlersGone'
  BY <1>1 DEF HandlersGone, At, Leaves
<1>2. CASE UNCHANGED vars
  BY <1>1, <1>2 DEF vars, proxyVars, appVars
<1>3. CASE StatusReported \/ SendPendingSubscriptions \/ ValueReceived \/ NotifySpecificListener
  BY <1>1, <1>3 DEF StatusReported, SendPendingSubscriptions, ValueReceived,
    NotifySpecificListener, proxyVars, appVars
<1>4. CASE HandleSignalStates \/ Toggle
  BY <1>1, <1>4 DEF HandleSignalStates, Toggle, proxyVars, appVars
<1>5. ASSUME NEW x \in Attributes, AddHandler(x) PROVE HandlersGone'
  BY <1>1, <1>5, IdleTyped, AddsHandler DEF AddHandler, proxyVars, Moves,
    Finishes
<1>6. ASSUME NEW x \in Attributes, AddToQueue(x) PROVE HandlersGone'
  BY <1>1, <1>6, IdleTyped, AddsToQueue DEF AddToQueue, Moves, Finishes
<1>7. ASSUME NEW e \in Events, GetCurrentValue(e) PROVE HandlersGone'
  BY <1>1, <1>7, IdleTyped, GetsCurrentValue DEF GetCurrentValue, proxyVars,
    Moves, Finishes
<1>8. ASSUME NEW e \in Events, AddSignalStateHandler(e) PROVE HandlersGone'
  BY <1>1, <1>8, IdleTyped, AddsSignalStateHandler DEF AddSignalStateHandler,
    Moves, Finishes
<1>9. ASSUME NEW x \in Selectives, RequestSubscription(x) PROVE HandlersGone'
  BY <1>1, <1>9, IdleTyped, RequestsSubscription DEF RequestSubscription,
    proxyVars, Moves, Finishes
<1>10. CASE PushInform
  BY <1>1, <1>10, IdleTyped, PushesInform DEF PushInform, proxyVars, Moves,
    Finishes
<1>11. ASSUME NEW e \in Events, Subscribe(e) PROVE HandlersGone'
  <2>1. /\ app'.event = e /\ app = Idle
        /\ subscribed' = [f \in Events |-> IF f = e THEN subscribed[e] \cup {nextTag}
             ELSE subscribed[f]]
    BY <1>11, Subscribes
  <2>2. UNCHANGED <<installed, selective>>
    BY <1>11 DEF Subscribe, proxyVars
  <2> QED
    BY <2>1, <2>2, IdleTyped DEF HandlersGone, Leaves, At
<1>12. ASSUME NEW e \in Events, InstallHandler(e) PROVE HandlersGone'
  <2>1. app.event = e /\ app.pc = "install" /\ app'.event = e /\ installed' = installed \cup {e}
    BY <1>12, InstallsHandler DEF Moves, InstallHandler, At
  <2>2. app'.pc \in {"queue", "token", "state"}
    BY <1>12, InstallsHandler DEF Moves
  <2>3. UNCHANGED <<selective, subscribed>>
    BY <1>12 DEF InstallHandler
  <2>4. subscribed[e] # {}
    BY <2>1, Arrived DEF ArrivalPlaces
  <2> QED
    BY <2>1, <2>2, <2>3, <2>4 DEF HandlersGone, Leaves, At
<1>13. ASSUME NEW x \in Selectives, SetSubscriptionToken(x) PROVE HandlersGone'
  <2>1. app.event = x /\ app.pc = "token" /\ app'.event = x /\ app'.pc = "request"
    BY <1>13, SetsSubscriptionToken DEF Moves
  <2>2. UNCHANGED <<installed, subscribed>>
    BY <1>13 DEF SetSubscriptionToken
  <2>3. subscribed[x] # {}
    BY <2>1, Arrived DEF ArrivalPlaces
  <2>4. \A y \in Selectives : y # x => selective'[y] = selective[y]
    BY <1>13 DEF SetSubscriptionToken, InsertSelectiveSubscription, TypeOK
  <2> QED
    BY <2>1, <2>2, <2>3, <2>4 DEF HandlersGone, Leaves, At
<1>14. ASSUME NEW e \in Events, NEW t \in Tags, Unsubscribe(e, t) PROVE HandlersGone'
  <2>1. UNCHANGED <<installed, selective>>
    BY <1>14 DEF Unsubscribe
  <2>2. app = Idle /\ subscribed' = [f \in Events |-> IF f = e THEN subscribed[e] \ {t}
        ELSE subscribed[f]]
    BY <1>14, Unsubscribes
  <2>3. CASE subscribed[e] = {t} /\ e # StatusEvent
    <3>1. app'.event = e /\ app'.pc = OnLastListenerRemoved(e)
      BY <1>14, <2>3, Unsubscribes
    <3>2. e \notin Attributes => app'.pc = "remove"
      BY <3>1 DEF OnLastListenerRemoved
    <3> QED
      BY <2>1, <2>2, <2>3, <3>1, <3>2, IdleTyped DEF HandlersGone, Leaves, At
  <2>4. CASE subscribed[e] # {t} \/ e = StatusEvent
    <3>1. app' = Idle /\ t \in subscribed[e]
      BY <1>14, <2>4, Unsubscribes
    <3>2. \A f \in Signalled : subscribed'[f] = {} => subscribed[f] = {}
      BY <2>2, <2>4, <3>1
    <3> QED
      BY <2>1, <2>2, <3>1, <3>2, IdleTyped DEF HandlersGone, Leaves, At
  <2> QED
    BY <2>3, <2>4
<1>15. ASSUME NEW x \in Attributes, RemoveFromQueue(x) PROVE HandlersGone'
  <2>1. app.event = x /\ app'.event = x
    BY <1>15, RemovesFromQueue DEF Moves
  <2>2. UNCHANGED <<installed, selective, subscribed>>
    BY <1>15 DEF RemoveFromQueue
  <2> QED
    BY <2>1, <2>2 DEF HandlersGone, Leaves, At
<1>16. ASSUME NEW e \in Events, RemoveHandler(e) PROVE HandlersGone'
  <2>1. /\ app.event = e /\ app.pc = "remove" /\ installed' = installed \ {e}
        /\ \/ app' = Idle /\ e \notin Selectives
           \/ app'.event = e /\ app'.pc \in {"unsubscribe", "erase"}
    BY <1>16, RemovesHandler DEF Moves, Finishes
  <2>2. UNCHANGED <<selective, subscribed>>
    BY <1>16 DEF RemoveHandler
  <2> QED
    BY <2>1, <2>2, IdleTyped DEF HandlersGone, Leaves, At
<1>17. ASSUME NEW x \in Selectives, CallUnsubscribe(x) PROVE HandlersGone'
  <2>1. app.event = x /\ app.pc = "unsubscribe" /\ app'.event = x
        /\ app'.pc \in {"await", "erase"}
    BY <1>17, CallsUnsubscribe DEF Moves
  <2>2. UNCHANGED <<installed, selective, subscribed>>
    BY <1>17 DEF CallUnsubscribe, proxyVars
  <2> QED
    BY <2>1, <2>2 DEF HandlersGone, Leaves, At
<1>18. ASSUME NEW x \in Selectives, EraseEntry(x) PROVE HandlersGone'
  <2>1. app.event = x /\ app.pc = "erase" /\ app' = Idle
    BY <1>18, ErasesEntry DEF Finishes
  <2>2. UNCHANGED <<installed, subscribed>>
    BY <1>18 DEF EraseEntry
  <2>3. \A y \in Selectives : selective'[y] = IF y = x THEN None ELSE selective[y]
    BY <1>18 DEF EraseEntry, TypeOK
  <2> QED
    BY <2>1, <2>2, <2>3, IdleTyped DEF HandlersGone, Leaves, At
<1>19. CASE AddQueuedHandlers
  <2>1. UNCHANGED <<app, subscribed, selective>> /\ installed' = installed \cup Waiting
    BY <1>19 DEF AddQueuedHandlers, appVars
  <2>2. Waiting \subseteq Attributes
    BY DEF Waiting
  <2> QED
    BY <2>1, <2>2 DEF HandlersGone, Leaves, At
<1>20. CASE RemoveQueuedHandlers
  <2>1. UNCHANGED <<app, subscribed, selective>> /\ installed' \subseteq installed
    BY <1>20 DEF RemoveQueuedHandlers, appVars
  <2> QED
    BY <2>1 DEF HandlersGone, Leaves, At
<1>21. CASE SubscriptionAnswered
  <2>1. UNCHANGED <<app, subscribed, selective>> /\ installed' \subseteq installed
    BY <1>21 DEF SubscriptionAnswered, appVars
  <2> QED
    BY <2>1 DEF HandlersGone, Leaves, At
<1>22. CASE Serve
  <2>1. UNCHANGED <<installed, selective, subscribed>>
    BY <1>22 DEF Serve, proxyVars
  <2>2. CASE UNCHANGED app
    BY <1>1, <2>1, <2>2
  <2>3. CASE Moves(Head(outgoing).event, "await", "erase")
    BY <2>1, <2>3 DEF HandlersGone, Leaves, At, Moves
  <2> QED
    BY <1>22, <2>2, <2>3, ServeMoves
<1> QED
  BY StepOfNext, <1>2, <1>3, <1>4, <1>5, <1>6, <1>7, <1>8, <1>9, <1>10, <1>11,
    <1>12, <1>13, <1>14, <1>15, <1>16, <1>17, <1>18, <1>19, <1>20, <1>21,
    <1>22 DEF Step

(* A selective event keeps its handler or was refused.                     *)
LEMMA HandlersStayInstalled ==
  ASSUME TypeOK, AppInPlace, MessagesShaped, OneUnsubscribe, HandlersKept,
    [Next]_vars
  PROVE  HandlersKept'
<1>1. ASSUME UNCHANGED <<installed, denied, subscribed>>,
              UNCHANGED app \/ (app.pc \notin {"install", "remove"}
                /\ app'.pc \notin {"install", "remove"})
       PROVE  HandlersKept'
  BY <1>1 DEF HandlersKept, At
<1>2. CASE UNCHANGED vars
  BY <1>1, <1>2 DEF vars, proxyVars, appVars, ghosts
<1>3. CASE StatusReported \/ SendPendingSubscriptions \/ ValueReceived \/ NotifySpecificListener
  BY <1>1, <1>3 DEF StatusReported, SendPendingSubscriptions, ValueReceived,
    NotifySpecificListener, proxyVars, appVars, ghosts
<1>4. CASE HandleSignalStates \/ Toggle
  BY <1>1, <1>4 DEF HandleSignalStates, Toggle, proxyVars, appVars, ghosts
<1>5. ASSUME NEW x \in Attributes, AddToQueue(x) PROVE HandlersKept'
  BY <1>1, <1>5, IdleTyped, AddsToQueue DEF AddToQueue, ghosts, Moves,
    Finishes
<1>6. ASSUME NEW e \in Events, GetCurrentValue(e) PROVE HandlersKept'
  BY <1>1, <1>6, IdleTyped, GetsCurrentValue DEF GetCurrentValue, proxyVars,
    ghosts, Moves, Finishes
<1>7. ASSUME NEW e \in Events, AddSignalStateHandler(e) PROVE HandlersKept'
  BY <1>1, <1>7, IdleTyped, AddsSignalStateHandler DEF AddSignalStateHandler,
    ghosts, Moves, Finishes
<1>8. ASSUME NEW x \in Selectives, SetSubscriptionToken(x) PROVE HandlersKept'
  BY <1>1, <1>8, IdleTyped, SetsSubscriptionToken DEF SetSubscriptionToken,
    ghosts, Moves, Finishes
<1>9. ASSUME NEW x \in Selectives, RequestSubscription(x) PROVE HandlersKept'
  BY <1>1, <1>9, IdleTyped, RequestsSubscription DEF RequestSubscription,
    proxyVars, ghosts, Moves, Finishes
<1>10. CASE PushInform
  BY <1>1, <1>10, IdleTyped, PushesInform DEF PushInform, proxyVars, ghosts,
    Moves, Finishes
<1>11. ASSUME NEW x \in Selectives, CallUnsubscribe(x) PROVE HandlersKept'
  BY <1>1, <1>11, IdleTyped, CallsUnsubscribe DEF CallUnsubscribe, proxyVars,
    Moves, Finishes
<1>12. ASSUME NEW x \in Selectives, EraseEntry(x) PROVE HandlersKept'
  BY <1>1, <1>12, IdleTyped, ErasesEntry DEF EraseEntry, ghosts, Moves,
    Finishes
<1>13. CASE Serve
  BY <1>1, <1>13, IdleTyped, ServeMoves DEF Serve, proxyVars, ghosts, Moves,
    Finishes
<1>14. ASSUME NEW e \in Events, Subscribe(e) PROVE HandlersKept'
  <2>1. /\ app = Idle /\ app'.event = e
        /\ app'.pc = IF subscribed[e] = {} THEN OnFirstListenerAdded(e) ELSE OnListenerAdded(e)
        /\ subscribed' = [f \in Events |-> IF f = e THEN subscribed[e] \cup {nextTag}
             ELSE subscribed[f]]
    BY <1>14, Subscribes
  <2>2. e \in Selectives => At(e, "install")'
    BY <2>1 DEF OnFirstListenerAdded, OnListenerAdded, At
  <2>3. UNCHANGED installed /\ denied \subseteq denied' \cup {e}
    BY <1>14 DEF Subscribe, proxyVars
  <2> QED
    BY <2>1, <2>2, <2>3, IdleTyped DEF HandlersKept, At
<1>15. ASSUME NEW x \in Attributes, AddHandler(x) PROVE HandlersKept'
  <2>1. app.event = x /\ app'.event = x
    BY <1>15, AddsHandler DEF Moves
  <2>2. UNCHANGED <<installed, denied, subscribed>>
    BY <1>15 DEF AddHandler, proxyVars, ghosts
  <2> QED
    BY <2>1, <2>2 DEF HandlersKept, At
<1>16. ASSUME NEW e \in Events, InstallHandler(e) PROVE HandlersKept'
  <2>1. app.event = e /\ app.pc = "install" /\ app'.event = e /\ installed' = installed \cup {e}
    BY <1>16, InstallsHandler DEF Moves, InstallHandler, At
  <2>2. app'.pc \in {"queue", "token", "state"}
    BY <1>16, InstallsHandler DEF Moves
  <2>3. UNCHANGED <<denied, subscribed>>
    BY <1>16 DEF InstallHandler, ghosts
  <2> QED
    BY <2>1, <2>2, <2>3 DEF HandlersKept, At
<1>17. ASSUME NEW e \in Events, NEW t \in Tags, Unsubscribe(e, t) PROVE HandlersKept'
  <2>1. UNCHANGED <<installed, denied>>
    BY <1>17 DEF Unsubscribe, ghosts
  <2>2. /\ app = Idle /\ t \in subscribed[e]
        /\ subscribed' = [f \in Events |-> IF f = e THEN subscribed[e] \ {t} ELSE subscribed[f]]
    BY <1>17, Unsubscribes
  <2>3. app' = Idle \/ app'.event = e
    BY <1>17, Unsubscribes
  <2> QED
    BY <2>1, <2>2, <2>3, IdleTyped DEF HandlersKept, At
<1>18. ASSUME NEW x \in Attributes, RemoveFromQueue(x) PROVE HandlersKept'
  <2>1. app.event = x /\ app'.event = x
    BY <1>18, RemovesFromQueue DEF Moves
  <2>2. UNCHANGED <<installed, denied, subscribed>>
    BY <1>18 DEF RemoveFromQueue, ghosts
  <2> QED
    BY <2>1, <2>2 DEF HandlersKept, At
<1>19. ASSUME NEW e \in Events, RemoveHandler(e) PROVE HandlersKept'
  <2>1. /\ app.event = e /\ app.pc = "remove" /\ installed' = installed \ {e}
        /\ app' = Idle \/ (app'.event = e /\ app'.pc \in {"unsubscribe", "erase"})
    BY <1>19, RemovesHandler DEF Moves, Finishes
  <2>2. UNCHANGED <<denied, subscribed>>
    BY <1>19 DEF RemoveHandler, ghosts
  <2>3. subscribed[e] = {}
    BY <2>1, Departed DEF DeparturePlaces
  <2> QED
    BY <2>1, <2>2, <2>3, IdleTyped DEF HandlersKept, At
<1>20. CASE AddQueuedHandlers
  <2>1. UNCHANGED <<app, subscribed, denied>> /\ installed \subseteq installed'
    BY <1>20 DEF AddQueuedHandlers, appVars, ghosts
  <2> QED
    BY <2>1 DEF HandlersKept, At
<1>21. CASE RemoveQueuedHandlers
  <2>1. UNCHANGED <<app, subscribed, denied>> /\ \A x \in Selectives : x \in installed
        => x \in installed'
    BY <1>21 DEF RemoveQueuedHandlers, appVars, ghosts
  <2> QED
    BY <2>1 DEF HandlersKept, At
<1>22. CASE SubscriptionAnswered
  <2>1. UNCHANGED <<app, subscribed>> /\ installed \cup denied \subseteq installed' \cup denied'
    BY <1>22 DEF SubscriptionAnswered, appVars
  <2> QED
    BY <2>1 DEF HandlersKept, At
<1> QED
  BY StepOfNext, <1>2, <1>3, <1>4, <1>5, <1>6, <1>7, <1>8, <1>9, <1>10, <1>11,
    <1>12, <1>13, <1>14, <1>15, <1>16, <1>17, <1>18, <1>19, <1>20, <1>21,
    <1>22 DEF Step

(* A subscription that has ended is not begun again by other calls.        *)
LEMMA EndedStays ==
  ASSUME TypeOK, NEW x, Ended(x), NEW N, NEW M, Sends(N, M), UNCHANGED subscribers,
         \A m \in N : ~AsksFor(m, x)
  PROVE  Ended(x)'
<1>1. \A k \in DOMAIN outgoing' : AsksFor(outgoing'[k], x) => k \in DOMAIN outgoing
      /\ outgoing'[k] = outgoing[k]
  BY DEF Sends, Grows
<1>2. CASE x \notin subscribers /\ \A k \in DOMAIN outgoing : ~AsksFor(outgoing[k], x)
  BY <1>1, <1>2 DEF Ended, AsksFor
<1>3. CASE \E k \in DOMAIN outgoing :
             Ends(outgoing[k], x) /\ \A j \in DOMAIN outgoing : j > k => ~AsksFor(outgoing[j], x)
  <2>1. PICK k \in DOMAIN outgoing :
          Ends(outgoing[k], x) /\ \A j \in DOMAIN outgoing : j > k => ~AsksFor(outgoing[j], x)
    BY <1>3
  <2>2. k \in DOMAIN outgoing' /\ outgoing'[k] = outgoing[k]
    BY <2>1 DEF Sends, Grows
  <2>3. \A j \in DOMAIN outgoing' : j > k => ~AsksFor(outgoing'[j], x)
    BY <1>1, <2>1
  <2> QED
    BY <2>1, <2>2, <2>3 DEF Ended, AsksFor, Ends
<1> QED
  BY <1>2, <1>3 DEF Ended

(* Nor by what the stub is asked already.                                  *)
LEMMA EndedServed ==
  ASSUME TypeOK, MessagesShaped, service = "down"
         => subscribers = {}, Serve, NEW x \in Selectives, Ended(x)
  PROVE  Ended(x)'
<1> DEFINE m == Head(outgoing)
<1>1. /\ 1 \in DOMAIN outgoing /\ outgoing[1] = m
      /\ \A k \in DOMAIN outgoing' : k + 1 \in DOMAIN outgoing /\ outgoing'[k] = outgoing[k + 1]
      /\ \A k \in DOMAIN outgoing : k > 1 => k - 1 \in DOMAIN outgoing'
           /\ outgoing'[k - 1] = outgoing[k]
  BY Serves DEF ServesOne, Shrinks
<1>2. DOMAIN outgoing \subseteq Nat \ {0} /\ DOMAIN outgoing' \subseteq Nat \ {0}
  BY Serves, SequencesTyped DEF ServesOne
<1>3. subscribers' \subseteq subscribers \cup (IF m.kind \in Requests THEN {m.event} ELSE {})
  BY DEF Serve, Requests
<1>4. m.kind = "unsubscribe" => m.event \notin subscribers'
  BY DEF Serve
<1> HIDE DEF m
<1>5. CASE x \notin subscribers /\ \A k \in DOMAIN outgoing : ~AsksFor(outgoing[k], x)
  <2>1. x \notin subscribers'
    BY <1>1, <1>3, <1>5 DEF AsksFor
  <2>2. \A k \in DOMAIN outgoing' : ~AsksFor(outgoing'[k], x)
    BY <1>1, <1>5
  <2> QED
    BY <2>1, <2>2 DEF Ended, AsksFor
<1>6. CASE \E k \in DOMAIN outgoing :
             Ends(outgoing[k], x) /\ \A j \in DOMAIN outgoing : j > k => ~AsksFor(outgoing[j], x)
  <2>1. PICK k \in DOMAIN outgoing :
          Ends(outgoing[k], x) /\ \A j \in DOMAIN outgoing : j > k => ~AsksFor(outgoing[j], x)
    BY <1>6
  <2>2. CASE k = 1
    <3>1. x \notin subscribers'
      BY <1>1, <1>4, <2>1, <2>2 DEF Ends
    <3>2. \A j \in DOMAIN outgoing' : ~AsksFor(outgoing'[j], x)
      BY <1>1, <1>2, <2>1, <2>2
    <3> QED
      BY <3>1, <3>2 DEF Ended, AsksFor
  <2>3. CASE k > 1
    <3>1. k - 1 \in DOMAIN outgoing' /\ Ends(outgoing'[k - 1], x)
      BY <1>1, <2>1, <2>3
    <3>2. \A j \in DOMAIN outgoing' : j > k - 1 => ~AsksFor(outgoing'[j], x)
      <4>1. \A j \in DOMAIN outgoing' : j > k - 1 => j + 1 > k
        BY <1>2
      <4> QED
        BY <1>1, <2>1, <4>1
    <3> QED
      BY <3>1, <3>2 DEF Ended, AsksFor, Ends
  <2> QED
    BY <1>2, <2>2, <2>3
<1> QED
  BY <1>5, <1>6 DEF Ended

(* The stub hears that nobody listens any more.                            *)
LEMMA SubscriptionsWithdrawn ==
  ASSUME TypeOK, AppInPlace, MessagesShaped, OneUnsubscribe, HandlersGone,
    HandlersKept, Withdrawn, [Next]_vars
  PROVE  Withdrawn'
<1>1. ASSUME UNCHANGED <<service, subscribers, denied, overtaken, subscribed, outgoing>>,
              UNCHANGED app \/ (app.pc \notin {"remove", "unsubscribe"}
                /\ app'.pc \notin {"remove", "unsubscribe"})
       PROVE  Withdrawn'
  BY <1>1 DEF Withdrawn, At, Ended, AsksFor, Ends
<1>2. CASE UNCHANGED vars
  BY <1>1, <1>2 DEF vars, busVars, appVars, ghosts
<1>3. CASE RemoveQueuedHandlers \/ ValueReceived \/ NotifySpecificListener \/ HandleSignalStates
  BY <1>1, <1>3 DEF RemoveQueuedHandlers, ValueReceived,
    NotifySpecificListener, HandleSignalStates, busVars, appVars, ghosts
<1>4. ASSUME NEW x \in Attributes, AddHandler(x) PROVE Withdrawn'
  BY <1>1, <1>4, IdleTyped, AddsHandler DEF AddHandler, busVars, ghosts,
    Moves, Finishes
<1>5. ASSUME NEW e \in Events, InstallHandler(e) PROVE Withdrawn'
  BY <1>1, <1>5, IdleTyped, InstallsHandler DEF InstallHandler, busVars,
    ghosts, Moves, Finishes
<1>6. ASSUME NEW x \in Attributes, AddToQueue(x) PROVE Withdrawn'
  BY <1>1, <1>6, IdleTyped, AddsToQueue DEF AddToQueue, busVars, ghosts,
    Moves, Finishes
<1>7. ASSUME NEW e \in Events, AddSignalStateHandler(e) PROVE Withdrawn'
  BY <1>1, <1>7, IdleTyped, AddsSignalStateHandler DEF AddSignalStateHandler,
    busVars, ghosts, Moves, Finishes
<1>8. ASSUME NEW x \in Selectives, SetSubscriptionToken(x) PROVE Withdrawn'
  BY <1>1, <1>8, IdleTyped, SetsSubscriptionToken DEF SetSubscriptionToken,
    busVars, ghosts, Moves, Finishes
<1>9. CASE PushInform
  BY <1>1, <1>9, IdleTyped, PushesInform DEF PushInform, busVars, ghosts,
    Moves, Finishes
<1>10. ASSUME NEW x \in Selectives, EraseEntry(x) PROVE Withdrawn'
  BY <1>1, <1>10, IdleTyped, ErasesEntry DEF EraseEntry, busVars, ghosts,
    Moves, Finishes
<1>11. ASSUME NEW e \in Events, Subscribe(e) PROVE Withdrawn'
  <2>1. /\ app = Idle /\ app'.event = e
        /\ subscribed' = [f \in Events |-> IF f = e THEN subscribed[e] \cup {nextTag}
             ELSE subscribed[f]]
    BY <1>11, Subscribes
  <2>2. UNCHANGED <<service, subscribers, outgoing>>
        /\ denied \cup overtaken \subseteq denied' \cup overtaken' \cup {e}
    BY <1>11 DEF Subscribe, busVars
  <2>3. \A y \in Selectives : Ended(y)' <=> Ended(y)
    BY <2>2 DEF Ended, AsksFor, Ends
  <2> QED
    BY <2>1, <2>2, <2>3, IdleTyped DEF Withdrawn, At
<1>12. ASSUME NEW e \in Events, GetCurrentValue(e) PROVE Withdrawn'
  <2>1. UNCHANGED <<service, subscribers, subscribed, denied, overtaken>>
    BY <1>12 DEF GetCurrentValue, ghosts
  <2>2. app.pc \notin {"remove", "unsubscribe"}
    BY <1>12, GetsCurrentValue DEF Moves, Finishes
  <2> DEFINE m == Call("initial", e, app.tag)
  <2>3. \A y \in Selectives : ~AsksFor(m, y)
    BY DEF Call, Message, AsksFor, Requests
  <2>4. UNCHANGED outgoing \/ Sends({m}, {m})
    BY <1>12, GetsSends
  <2> HIDE DEF m
  <2>5. ASSUME NEW y \in Selectives, Ended(y) PROVE Ended(y)'
    BY <2>1, <2>3, <2>4, <2>5, EndedStays DEF Ended, AsksFor, Ends
  <2>6. ASSUME NEW y \in Selectives \ (denied' \cup overtaken'), subscribed'[y] = {},
               ~At(y, "remove")', ~At(y, "unsubscribe")'
        PROVE  Ended(y)'
    <3>1. y \in Selectives /\ y \notin denied \cup overtaken /\ subscribed[y] = {}
      BY <2>1, <2>6
    <3>2. ~At(y, "remove") /\ ~At(y, "unsubscribe")
      BY <2>2, <2>6, <3>1 DEF At
    <3>3. Ended(y)
      BY <3>1, <3>2 DEF Withdrawn
    <3> QED
      BY <2>5, <3>1, <3>3
  <2>7. service' = "down" => subscribers' = {}
    BY <2>1 DEF Withdrawn
  <2> QED
    BY <2>6, <2>7 DEF Withdrawn
<1>13. ASSUME NEW x \in Selectives, RequestSubscription(x) PROVE Withdrawn'
  <2>1. UNCHANGED <<service, subscribers, subscribed, denied, overtaken>>
    BY <1>13 DEF RequestSubscription, ghosts
  <2>2. \A y \in Selectives : ~At(y, "remove") /\ ~At(y, "unsubscribe")
    BY <1>13, RequestsSubscription DEF Finishes, At
  <2>3. subscribed[x] # {}
    BY <1>13, RequestSends, Arrived DEF ArrivalPlaces
  <2> DEFINE m == Call("subscribe", x, app.tag)
  <2>4. m.event = x
    BY DEF Call, Message
  <2>5. UNCHANGED outgoing \/ Sends({m}, {m})
    BY <1>13, RequestSends
  <2> HIDE DEF m
  <2>6. ASSUME NEW y \in Selectives, y # x, Ended(y) PROVE Ended(y)'
    <3>1. ~AsksFor(m, y)
      BY <2>4, <2>6 DEF AsksFor
    <3> QED
      BY <2>1, <2>5, <2>6, <3>1, EndedStays DEF Ended, AsksFor, Ends
  <2> QED
    BY <2>1, <2>2, <2>3, <2>6 DEF Withdrawn
<1>14. ASSUME NEW e \in Events, NEW t \in Tags, Unsubscribe(e, t) PROVE Withdrawn'
  <2>1. UNCHANGED <<service, subscribers, outgoing, denied, overtaken>>
    BY <1>14 DEF Unsubscribe, busVars, ghosts
  <2>2. /\ app = Idle /\ t \in subscribed[e]
        /\ subscribed' = [f \in Events |-> IF f = e THEN subscribed[e] \ {t} ELSE subscribed[f]]
    BY <1>14, Unsubscribes
  <2>3. \A y \in Selectives : Ended(y)' <=> Ended(y)
    BY <2>1 DEF Ended, AsksFor, Ends
  <2>4. \A y \in Selectives : subscribed'[y] = {} => subscribed[y] = {} \/ At(y, "remove")'
    <3>1. CASE subscribed[e] = {t} /\ e \in Selectives
      BY <1>14, <2>2, <3>1, Unsubscribes DEF OnLastListenerRemoved, At
    <3>2. CASE subscribed[e] # {t} \/ e \notin Selectives
      BY <2>2, <3>2
    <3> QED
      BY <3>1, <3>2
  <2> QED
    BY <2>1, <2>2, <2>3, <2>4, IdleTyped DEF Withdrawn, At
<1>15. ASSUME NEW x \in Attributes, RemoveFromQueue(x) PROVE Withdrawn'
  <2>1. app.event = x /\ app'.event = x
    BY <1>15, RemovesFromQueue DEF Moves
  <2>2. UNCHANGED <<service, subscribers, subscribed, outgoing, denied, overtaken>>
    BY <1>15 DEF RemoveFromQueue, busVars, ghosts
  <2>3. \A y \in Selectives : Ended(y)' <=> Ended(y)
    BY <2>2 DEF Ended, AsksFor, Ends
  <2> QED
    BY <2>1, <2>2, <2>3 DEF Withdrawn, At
<1>16. ASSUME NEW e \in Events, RemoveHandler(e) PROVE Withdrawn'
  <2>1. UNCHANGED <<service, subscribers, outgoing, subscribed, denied, overtaken>>
    BY <1>16 DEF RemoveHandler, busVars, ghosts
  <2>2. \A y \in Selectives : Ended(y)' <=> Ended(y)
    BY <2>1 DEF Ended, AsksFor, Ends
  <2>3. app.event = e /\ app.pc = "remove"
    BY <1>16, RemovesHandler DEF Moves, Finishes
  <2>4. e \in Selectives => e \in denied \/ At(e, "unsubscribe")'
    <3>1. e \in Selectives => e \in installed \cup denied
      BY <2>3 DEF HandlersKept, At
    <3> QED
      BY <1>16, <3>1, RemovesHandler DEF Moves, At
  <2> QED
    BY <2>1, <2>2, <2>3, <2>4 DEF Withdrawn, At
<1>17. ASSUME NEW x \in Selectives, CallUnsubscribe(x) PROVE Withdrawn'
  <2>1. UNCHANGED <<service, subscribers, subscribed, denied>> /\ overtaken \subseteq overtaken'
    BY <1>17 DEF CallUnsubscribe
  <2>2. app.event = x /\ app.pc = "unsubscribe" /\ app'.pc \in {"await", "erase"}
    BY <1>17, CallsUnsubscribe DEF Moves
  <2> DEFINE m == Call("unsubscribe", x, None)
  <2>3. m.event = x /\ m.kind = "unsubscribe"
    BY DEF Call, Message
  <2>4. UNCHANGED outgoing \/ Sends({m}, {m})
    BY <1>17, UnsubscribeSends
  <2>5. ~IsAvailable => x \in overtaken'
    BY <1>17 DEF CallUnsubscribe
  <2>6. IsAvailable => outgoing' = Append(outgoing, m)
    BY <1>17 DEF CallUnsubscribe
  <2> HIDE DEF m
  <2>7. ASSUME NEW y \in Selectives, Ended(y) PROVE Ended(y)'
    <3>1. ~AsksFor(m, y)
      BY <2>3 DEF AsksFor, Requests
    <3> QED
      BY <2>1, <2>4, <2>7, <3>1, EndedStays DEF Ended, AsksFor, Ends
  <2>8. ASSUME IsAvailable PROVE Ended(x)'
    <3>1. /\ DOMAIN outgoing' = 1 .. Len(outgoing) + 1 /\ Len(outgoing) \in Nat
          /\ outgoing'[Len(outgoing) + 1] = m
      BY <2>6, <2>8, SequencesTyped
    <3>2. \A j \in DOMAIN outgoing' : ~(j > Len(outgoing) + 1)
      BY <3>1
    <3> QED
      BY <2>3, <3>1, <3>2 DEF Ended, AsksFor, Ends
  <2> QED
    BY <2>1, <2>2, <2>5, <2>7, <2>8 DEF Withdrawn, At
<1>18. CASE StatusReported
  <2>1. UNCHANGED <<service, subscribers, outgoing, subscribed, app, denied>>
        /\ overtaken \subseteq overtaken'
    BY <1>18 DEF StatusReported, appVars
  <2>2. \A y \in Selectives : Ended(y)' <=> Ended(y)
    BY <2>1 DEF Ended, AsksFor, Ends
  <2> QED
    BY <2>1, <2>2 DEF Withdrawn, At
<1>19. CASE AddQueuedHandlers
  <2>1. UNCHANGED <<service, subscribers, subscribed, app, denied, overtaken>>
    BY <1>19 DEF AddQueuedHandlers, appVars, ghosts
  <2>2. ASSUME NEW y \in Selectives, Ended(y) PROVE Ended(y)'
    <3>1. \A m \in Gets : ~AsksFor(m, y)
      BY GetsTyped DEF AsksFor, Requests
    <3> QED
      BY <1>19, <2>1, <2>2, <3>1, QueuedSends, EndedStays
  <2> QED
    BY <2>1, <2>2 DEF Withdrawn, At
<1>20. CASE SendPendingSubscriptions
  <2>1. UNCHANGED <<service, subscribers, subscribed, app, denied>>
        /\ overtaken' = overtaken \cup Leaving
    BY <1>20 DEF SendPendingSubscriptions, appVars
  <2>2. ASSUME NEW y \in Selectives \ (denied' \cup overtaken'), subscribed'[y] = {},
               ~At(y, "remove")', ~At(y, "unsubscribe")'
        PROVE  Ended(y)'
    <3>1. /\ y \notin denied \cup overtaken /\ subscribed[y] = {}
          /\ ~At(y, "remove") /\ ~At(y, "unsubscribe") /\ ~At(y, "await") /\ ~At(y, "erase")
      BY <2>1, <2>2 DEF At, Leaving
    <3>2. selective[y] = None
      BY <3>1 DEF HandlersGone, Leaves, At
    <3>3. \A m \in Resubscribes : ~AsksFor(m, y)
      BY <3>2, ResubscribesTyped DEF AsksFor
    <3>4. Ended(y)
      BY <3>1 DEF Withdrawn
    <3> QED
      BY <1>20, <2>1, <3>3, <3>4, PendingSends, EndedStays
  <2> QED
    BY <2>1, <2>2 DEF Withdrawn
<1>21. CASE SubscriptionAnswered
  <2>1. UNCHANGED <<service, subscribers, outgoing, subscribed, app, overtaken>>
        /\ denied \subseteq denied'
    BY <1>21 DEF SubscriptionAnswered, appVars
  <2>2. \A y \in Selectives : Ended(y)' <=> Ended(y)
    BY <2>1 DEF Ended, AsksFor, Ends
  <2> QED
    BY <2>1, <2>2 DEF Withdrawn, At
<1>22. CASE Serve
  <2>1. UNCHANGED <<service, subscribed, denied, overtaken>>
    BY <1>22 DEF Serve, ghosts
  <2>2. service = "down" => subscribers' = subscribers
    BY <1>22 DEF Serve
  <2>3. UNCHANGED app \/ app.pc \notin {"remove", "unsubscribe"}
    BY <1>22, ServeMoves DEF Moves
  <2>4. service = "down" => subscribers = {}
    BY DEF Withdrawn
  <2>5. \A y \in Selectives : Ended(y) => Ended(y)'
    BY <1>22, <2>4, EndedServed
  <2>6. ASSUME NEW y \in Selectives \ (denied' \cup overtaken'), subscribed'[y] = {},
               ~At(y, "remove")', ~At(y, "unsubscribe")'
        PROVE  Ended(y)'
    <3>1. y \in Selectives /\ y \notin denied \cup overtaken /\ subscribed[y] = {}
      BY <2>1, <2>6
    <3>2. ~At(y, "remove") /\ ~At(y, "unsubscribe")
      BY <2>3, <2>6, <3>1 DEF At
    <3>3. Ended(y)
      BY <3>1, <3>2 DEF Withdrawn
    <3> QED
      BY <2>5, <3>1, <3>3
  <2>7. service' = "down" => subscribers' = {}
    BY <2>1, <2>2, <2>4
  <2> QED
    BY <2>6, <2>7 DEF Withdrawn
<1>23. CASE Toggle
  <2>1. subscribers' = {} /\ UNCHANGED <<outgoing, subscribed, app, denied, overtaken>>
    BY <1>23 DEF Toggle, appVars, ghosts
  <2>2. \A y \in Selectives : Ended(y) => Ended(y)'
    BY <2>1 DEF Ended, AsksFor, Ends
  <2> QED
    BY <2>1, <2>2 DEF Withdrawn, At
<1> QED
  BY StepOfNext, <1>2, <1>3, <1>4, <1>5, <1>6, <1>7, <1>8, <1>9, <1>10, <1>11,
    <1>12, <1>13, <1>14, <1>15, <1>16, <1>17, <1>18, <1>19, <1>20, <1>21,
    <1>22, <1>23 DEF Step

-----------------------------------------------------------------------------
(* First listeners and entries of selective events.                        *)

(* The first listener of an attribute stays alone while it is entered.     *)
LEMMA FirstStaysAlone ==
  ASSUME TypeOK, AppInPlace, MessagesShaped, OneUnsubscribe, FirstAlone,
    [Next]_vars
  PROVE  FirstAlone'
<1>1. ASSUME UNCHANGED <<subscribed>>,
              UNCHANGED app \/ (app.pc \notin {"add", "install", "queue"}
                /\ app'.pc \notin {"add", "install", "queue"})
       PROVE  FirstAlone'
  BY <1>1 DEF FirstAlone, At, Entering
<1>2. CASE UNCHANGED vars
  BY <1>1, <1>2 DEF vars, appVars
<1>3. CASE StatusReported \/ AddQueuedHandlers \/ RemoveQueuedHandlers \/ SendPendingSubscriptions
  BY <1>1, <1>3 DEF StatusReported, AddQueuedHandlers, RemoveQueuedHandlers,
    SendPendingSubscriptions, appVars
<1>4. CASE ValueReceived \/ SubscriptionAnswered \/ NotifySpecificListener \/ HandleSignalStates
  BY <1>1, <1>4 DEF ValueReceived, SubscriptionAnswered,
    NotifySpecificListener, HandleSignalStates, appVars
<1>5. CASE Toggle
  BY <1>1, <1>5 DEF Toggle, appVars
<1>6. ASSUME NEW e \in Events, GetCurrentValue(e) PROVE FirstAlone'
  BY <1>1, <1>6, IdleTyped, GetsCurrentValue DEF GetCurrentValue, Moves,
    Finishes
<1>7. ASSUME NEW e \in Events, AddSignalStateHandler(e) PROVE FirstAlone'
  BY <1>1, <1>7, IdleTyped, AddsSignalStateHandler DEF AddSignalStateHandler,
    Moves, Finishes
<1>8. ASSUME NEW x \in Selectives, SetSubscriptionToken(x) PROVE FirstAlone'
  BY <1>1, <1>8, IdleTyped, SetsSubscriptionToken DEF SetSubscriptionToken,
    Moves, Finishes
<1>9. ASSUME NEW x \in Selectives, RequestSubscription(x) PROVE FirstAlone'
  BY <1>1, <1>9, IdleTyped, RequestsSubscription DEF RequestSubscription,
    Moves, Finishes
<1>10. CASE PushInform
  BY <1>1, <1>10, IdleTyped, PushesInform DEF PushInform, Moves, Finishes
<1>11. ASSUME NEW x \in Attributes, RemoveFromQueue(x) PROVE FirstAlone'
  BY <1>1, <1>11, IdleTyped, RemovesFromQueue DEF RemoveFromQueue, Moves,
    Finishes
<1>12. ASSUME NEW e \in Events, RemoveHandler(e) PROVE FirstAlone'
  BY <1>1, <1>12, IdleTyped, RemovesHandler DEF RemoveHandler, Moves, Finishes
<1>13. ASSUME NEW x \in Selectives, CallUnsubscribe(x) PROVE FirstAlone'
  BY <1>1, <1>13, IdleTyped, CallsUnsubscribe DEF CallUnsubscribe, Moves,
    Finishes
<1>14. ASSUME NEW x \in Selectives, EraseEntry(x) PROVE FirstAlone'
  BY <1>1, <1>14, IdleTyped, ErasesEntry DEF EraseEntry, Moves, Finishes
<1>15. CASE Serve
  BY <1>1, <1>15, IdleTyped, ServeMoves DEF Serve, Moves, Finishes
<1>16. ASSUME NEW e \in Events, Subscribe(e) PROVE FirstAlone'
  <2>1. /\ app = Idle /\ app'.event = e /\ app'.tag = nextTag
        /\ app'.pc = IF subscribed[e] = {} THEN OnFirstListenerAdded(e) ELSE OnListenerAdded(e)
        /\ subscribed' = [f \in Events |-> IF f = e THEN subscribed[e] \cup {nextTag}
             ELSE subscribed[f]]
    BY <1>16, Subscribes
  <2>2. e \in Attributes /\ subscribed[e] # {} => app'.pc = "value"
    BY <2>1 DEF OnListenerAdded
  <2> QED
    BY <2>1, <2>2 DEF FirstAlone, Entering, At
<1>17. ASSUME NEW x \in Attributes, AddHandler(x) PROVE FirstAlone'
  <2>1. app.event = x /\ app.pc = "add" /\ app'.event = x /\ app'.tag = app.tag
    BY <1>17, AddsHandler DEF Moves
  <2>2. UNCHANGED subscribed
    BY <1>17 DEF AddHandler
  <2> QED
    BY <2>1, <2>2 DEF FirstAlone, Entering, At
<1>18. ASSUME NEW e \in Events, InstallHandler(e) PROVE FirstAlone'
  <2>1. app.event = e /\ app.pc = "install" /\ app'.event = e /\ app'.tag = app.tag
    BY <1>18, InstallsHandler DEF Moves
  <2>2. UNCHANGED subscribed
    BY <1>18 DEF InstallHandler
  <2> QED
    BY <2>1, <2>2 DEF FirstAlone, Entering, At
<1>19. ASSUME NEW x \in Attributes, AddToQueue(x) PROVE FirstAlone'
  <2>1. app'.pc = "value"
    BY <1>19, AddsToQueue DEF Moves
  <2> QED
    BY <2>1 DEF FirstAlone, Entering, At
<1>20. ASSUME NEW e \in Events, NEW t \in Tags, Unsubscribe(e, t) PROVE FirstAlone'
  <2>1. app'.pc \notin {"add", "install", "queue"}
    BY <1>20, Unsubscribes, IdleTyped DEF OnLastListenerRemoved
  <2> QED
    BY <2>1 DEF FirstAlone, Entering, At
<1> QED
  BY StepOfNext, <1>2, <1>3, <1>4, <1>5, <1>6, <1>7, <1>8, <1>9, <1>10, <1>11,
    <1>12, <1>13, <1>14, <1>15, <1>16, <1>17, <1>18, <1>19, <1>20 DEF Step

(* Entries name listeners that came.                                       *)
LEMMA EntriesStayKnown ==
  ASSUME TypeOK, AppInPlace, MessagesShaped, OneUnsubscribe, TagsUnique,
    EntriesKnown, [Next]_vars
  PROVE  EntriesKnown'
<1>1. ASSUME UNCHANGED <<selective, nextTag>>,
              UNCHANGED app \/ (app.pc \notin {"request"} /\ app'.pc \notin {"request"})
       PROVE  EntriesKnown'
  BY <1>1 DEF EntriesKnown, At
<1>2. CASE UNCHANGED vars
  BY <1>1, <1>2 DEF vars, proxyVars, appVars
<1>3. CASE StatusReported \/ AddQueuedHandlers \/ RemoveQueuedHandlers \/ SendPendingSubscriptions
  BY <1>1, <1>3 DEF StatusReported, AddQueuedHandlers, RemoveQueuedHandlers,
    SendPendingSubscriptions, proxyVars, appVars
<1>4. CASE ValueReceived \/ SubscriptionAnswered \/ NotifySpecificListener \/ HandleSignalStates
  BY <1>1, <1>4 DEF ValueReceived, SubscriptionAnswered,
    NotifySpecificListener, HandleSignalStates, proxyVars, appVars
<1>5. CASE Toggle
  BY <1>1, <1>5 DEF Toggle, proxyVars, appVars
<1>6. ASSUME NEW x \in Attributes, AddHandler(x) PROVE EntriesKnown'
  BY <1>1, <1>6, IdleTyped, AddsHandler DEF AddHandler, proxyVars, Moves,
    Finishes
<1>7. ASSUME NEW e \in Events, InstallHandler(e) PROVE EntriesKnown'
  BY <1>1, <1>7, IdleTyped, InstallsHandler DEF InstallHandler, Moves,
    Finishes
<1>8. ASSUME NEW x \in Attributes, AddToQueue(x) PROVE EntriesKnown'
  BY <1>1, <1>8, IdleTyped, AddsToQueue DEF AddToQueue, Moves, Finishes
<1>9. ASSUME NEW e \in Events, GetCurrentValue(e) PROVE EntriesKnown'
  BY <1>1, <1>9, IdleTyped, GetsCurrentValue DEF GetCurrentValue, proxyVars,
    Moves, Finishes
<1>10. ASSUME NEW e \in Events, AddSignalStateHandler(e) PROVE EntriesKnown'
  BY <1>1, <1>10, IdleTyped, AddsSignalStateHandler DEF AddSignalStateHandler,
    Moves, Finishes
<1>11. CASE PushInform
  BY <1>1, <1>11, IdleTyped, PushesInform DEF PushInform, proxyVars, Moves,
    Finishes
<1>12. ASSUME NEW x \in Attributes, RemoveFromQueue(x) PROVE EntriesKnown'
  BY <1>1, <1>12, IdleTyped, RemovesFromQueue DEF RemoveFromQueue, Moves,
    Finishes
<1>13. ASSUME NEW e \in Events, RemoveHandler(e) PROVE EntriesKnown'
  BY <1>1, <1>13, IdleTyped, RemovesHandler DEF RemoveHandler, Moves, Finishes
<1>14. ASSUME NEW x \in Selectives, CallUnsubscribe(x) PROVE EntriesKnown'
  BY <1>1, <1>14, IdleTyped, CallsUnsubscribe DEF CallUnsubscribe, proxyVars,
    Moves, Finishes
<1>15. CASE Serve
  BY <1>1, <1>15, IdleTyped, ServeMoves DEF Serve, proxyVars, Moves, Finishes
<1>16. ASSUME NEW e \in Events, Subscribe(e) PROVE EntriesKnown'
  <2>1. app = Idle /\ app'.pc # "request" /\ nextTag' = nextTag + 1
    <3>1. OnFirstListenerAdded(e) # "request" /\ OnListenerAdded(e) # "request"
      BY DEF OnFirstListenerAdded, OnListenerAdded
    <3> QED
      BY <1>16, <3>1, Subscribes
  <2>2. UNCHANGED selective
    BY <1>16 DEF Subscribe, proxyVars
  <2> QED
    BY <2>1, <2>2 DEF EntriesKnown, At, TypeOK
<1>17. ASSUME NEW x \in Selectives, SetSubscriptionToken(x) PROVE EntriesKnown'
  <2>1. /\ app.event = x /\ app.pc = "token" /\ app'.event = x /\ app'.pc = "request"
        /\ app'.tag = app.tag
    BY <1>17, SetsSubscriptionToken DEF Moves
  <2>2. app.tag \in subscribed[x]
    BY <2>1, Arrived DEF ArrivalPlaces
  <2>3. app.tag < nextTag
    BY <2>2 DEF TagsUnique
  <2>4. \A y \in Selectives : selective'[y] = IF y = x THEN app.tag ELSE selective[y]
    BY <1>17 DEF SetSubscriptionToken, InsertSelectiveSubscription, TypeOK
  <2>5. UNCHANGED nextTag
    BY <1>17 DEF SetSubscriptionToken
  <2> QED
    BY <2>1, <2>3, <2>4, <2>5 DEF EntriesKnown, At
<1>18. ASSUME NEW x \in Selectives, RequestSubscription(x) PROVE EntriesKnown'
  <2>1. app' = Idle
    BY <1>18, RequestsSubscription DEF Finishes
  <2>2. UNCHANGED <<selective, nextTag>>
    BY <1>18 DEF RequestSubscription, proxyVars
  <2> QED
    BY <2>1, <2>2, IdleTyped DEF EntriesKnown, At
<1>19. ASSUME NEW e \in Events, NEW t \in Tags, Unsubscribe(e, t) PROVE EntriesKnown'
  <2>1. app'.pc # "request"
    BY <1>19, Unsubscribes, IdleTyped DEF OnLastListenerRemoved
  <2>2. UNCHANGED <<selective, nextTag>>
    BY <1>19 DEF Unsubscribe
  <2> QED
    BY <2>1, <2>2 DEF EntriesKnown, At
<1>20. ASSUME NEW x \in Selectives, EraseEntry(x) PROVE EntriesKnown'
  <2>1. app' = Idle
    BY <1>20, ErasesEntry DEF Finishes
  <2>2. UNCHANGED nextTag
    BY <1>20 DEF EraseEntry
  <2>3. \A y \in Selectives : selective'[y] = IF y = x THEN None ELSE selective[y]
    BY <1>20 DEF EraseEntry, TypeOK
  <2> QED
    BY <2>1, <2>2, <2>3, IdleTyped DEF EntriesKnown, At
<1> QED
  BY StepOfNext, <1>2, <1>3, <1>4, <1>5, <1>6, <1>7, <1>8, <1>9, <1>10, <1>11,
    <1>12, <1>13, <1>14, <1>15, <1>16, <1>17, <1>18, <1>19, <1>20 DEF Step

-----------------------------------------------------------------------------
(* The status.                                                             *)

(* A message behind the reports puts none of them off, unless it says that *)
(* the service is back.                                                    *)
LEMMA ReportsKept ==
  ASSUME ReportsFollow, NEW m, Receives({m}, {m}), ~Reports(m, "AVAILABLE"),
         UNCHANGED <<service, status>>
  PROVE  ReportsFollow'
<1>1. /\ DOMAIN incoming \subseteq DOMAIN incoming'
      /\ \A k \in DOMAIN incoming : incoming'[k] = incoming[k]
      /\ \A k \in DOMAIN incoming' \ DOMAIN incoming : incoming'[k] = m
  BY DEF Receives, Grows
<1>2. \A k \in DOMAIN incoming' : Reports(incoming'[k], "AVAILABLE") => k \in DOMAIN incoming
  BY <1>1 DEF Reports
<1>3. ASSUME service' = "down", IsAvailable'
      PROVE  \E k \in DOMAIN incoming' : Reports(incoming'[k], "NOT_AVAILABLE")
  <2>1. PICK k \in DOMAIN incoming : Reports(incoming[k], "NOT_AVAILABLE")
    BY <1>3 DEF ReportsFollow, IsAvailable
  <2> QED
    BY <1>1, <2>1 DEF Reports
<1>4. ASSUME service' = "down", NEW k \in DOMAIN incoming', Reports(incoming'[k], "AVAILABLE")
      PROVE  \E j \in DOMAIN incoming' : j > k /\ Reports(incoming'[j], "NOT_AVAILABLE")
  <2>1. k \in DOMAIN incoming /\ Reports(incoming[k], "AVAILABLE")
    BY <1>1, <1>2, <1>4
  <2>2. PICK j \in DOMAIN incoming : j > k /\ Reports(incoming[j], "NOT_AVAILABLE")
    BY <1>4, <2>1 DEF ReportsFollow
  <2> QED
    BY <1>1, <2>2
<1> QED
  BY <1>3, <1>4 DEF ReportsFollow, Reports

(* Nor does the loop when it takes one and sets the status to what it says. *)
LEMMA ReportsTaken ==
  ASSUME TypeOK, ReportsFollow, TakesOne, UNCHANGED service,
         IsAvailable' => \/ IsAvailable /\ incoming[1].kind # "status"
                         \/ Reports(incoming[1], "AVAILABLE")
  PROVE  ReportsFollow'
<1>1. /\ 1 \in DOMAIN incoming
      /\ \A k \in DOMAIN incoming' : k + 1 \in DOMAIN incoming /\ incoming'[k] = incoming[k + 1]
      /\ \A k \in DOMAIN incoming : k > 1 => k - 1 \in DOMAIN incoming'
           /\ incoming'[k - 1] = incoming[k]
      /\ DOMAIN incoming \subseteq Nat \ {0} /\ DOMAIN incoming' \subseteq Nat \ {0}
  BY SequencesTyped DEF TakesOne, Shrinks
<1>2. ASSUME service' = "down", IsAvailable'
      PROVE  \E k \in DOMAIN incoming' : Reports(incoming'[k], "NOT_AVAILABLE")
  <2>1. \E k \in DOMAIN incoming : k > 1 /\ Reports(incoming[k], "NOT_AVAILABLE")
    <3>1. CASE IsAvailable /\ incoming[1].kind # "status"
      <4>1. PICK k \in DOMAIN incoming : Reports(incoming[k], "NOT_AVAILABLE")
        BY <1>2, <3>1 DEF ReportsFollow
      <4>2. k # 1
        BY <3>1, <4>1 DEF Reports
      <4> QED
        BY <1>1, <4>1, <4>2
    <3>2. CASE Reports(incoming[1], "AVAILABLE")
      BY <1>1, <1>2, <3>2 DEF ReportsFollow
    <3> QED
      BY <1>2, <3>1, <3>2
  <2>2. PICK k \in DOMAIN incoming : k > 1 /\ Reports(incoming[k], "NOT_AVAILABLE")
    BY <2>1
  <2>3. k - 1 \in DOMAIN incoming' /\ Reports(incoming'[k - 1], "NOT_AVAILABLE")
    BY <1>1, <2>2
  <2> QED
    BY <2>3
<1>3. ASSUME service' = "down", NEW k \in DOMAIN incoming', Reports(incoming'[k], "AVAILABLE")
      PROVE  \E j \in DOMAIN incoming' : j > k /\ Reports(incoming'[j], "NOT_AVAILABLE")
  <2>1. k + 1 \in DOMAIN incoming /\ Reports(incoming[k + 1], "AVAILABLE")
    BY <1>1, <1>3
  <2>2. PICK j \in DOMAIN incoming : j > k + 1 /\ Reports(incoming[j], "NOT_AVAILABLE")
    BY <1>3, <2>1 DEF ReportsFollow
  <2>3. j > 1 /\ j - 1 > k
    BY <1>1, <2>2
  <2>4. j - 1 \in DOMAIN incoming' /\ Reports(incoming'[j - 1], "NOT_AVAILABLE")
    BY <1>1, <2>2, <2>3
  <2> QED
    BY <2>3, <2>4
<1> QED
  BY <1>2, <1>3 DEF ReportsFollow, Reports

(* The status that a report sets.                                          *)
LEMMA StatusSet ==
  ASSUME TypeOK, MessagesShaped, StatusReported
  PROVE  /\ TakesOne /\ 1 \in DOMAIN incoming /\ incoming[1] = Head(incoming)
         /\ loop = "idle" /\ incoming[1].kind = "status" /\ status' = incoming[1].answer
         /\ incoming[1].answer \in {"AVAILABLE", "NOT_AVAILABLE"}
         /\ status' = status => UNCHANGED <<loop, told, overtaken>>
         /\ status' # status =>
              /\ loop' = "handlers" /\ overtaken' = overtaken \cup Joining
              /\ \A t \in Tags : heard'[t] = IF t \in listeners \cap Live THEN status'
                   ELSE heard[t]
              /\ confirmed' = IF IsAvailable THEN {} ELSE confirmed
              /\ refused' = IF IsAvailable THEN {} ELSE refused
<1>1. TakesOne /\ 1 \in DOMAIN incoming /\ incoming[1] = Head(incoming)
  BY Dispatches
<1>2. loop = "idle" /\ incoming[1].kind = "status"
  BY <1>1 DEF StatusReported
<1>3. incoming[1].answer \in {"AVAILABLE", "NOT_AVAILABLE"}
  BY <1>1, <1>2 DEF MessagesShaped, Shaped
<1>4. \/ incoming[1].answer = status /\ UNCHANGED <<status, loop, told, overtaken>>
      \/ /\ incoming[1].answer # status /\ status' = incoming[1].answer
         /\ loop' = "handlers" /\ overtaken' = overtaken \cup Joining
         /\ heard' = [t \in Tags |-> IF t \in listeners \cap Live THEN incoming[1].answer
              ELSE heard[t]]
         /\ confirmed' = IF IsAvailable THEN {} ELSE confirmed
         /\ refused' = IF IsAvailable THEN {} ELSE refused
  BY <1>1 DEF StatusReported
<1> QED
  BY <1>1, <1>2, <1>3, <1>4

(* While the service is gone, the last report says so.                     *)
LEMMA ReportsStayBehind ==
  ASSUME TypeOK, AppInPlace, MessagesShaped, OneUnsubscribe, ReportsFollow,
    [Next]_vars
  PROVE  ReportsFollow'
<1>1. ASSUME UNCHANGED <<service, status, incoming>> PROVE ReportsFollow'
  BY <1>1 DEF ReportsFollow, IsAvailable, Reports
<1>2. CASE UNCHANGED vars
  BY <1>1, <1>2 DEF vars, busVars
<1>3. CASE PushInform \/ AddQueuedHandlers \/ RemoveQueuedHandlers \/ SendPendingSubscriptions
  BY <1>1, <1>3 DEF PushInform, AddQueuedHandlers, RemoveQueuedHandlers,
    SendPendingSubscriptions, busVars
<1>4. CASE NotifySpecificListener \/ HandleSignalStates
  BY <1>1, <1>4 DEF NotifySpecificListener, HandleSignalStates, busVars
<1>5. ASSUME NEW e \in Events,
              Subscribe(e) \/ InstallHandler(e) \/ GetCurrentValue(e) \/ AddSignalStateHandler(e)
                \/ RemoveHandler(e)
       PROVE  ReportsFollow'
  BY <1>1, <1>5 DEF Subscribe, InstallHandler, GetCurrentValue,
    AddSignalStateHandler, RemoveHandler, busVars
<1>6. ASSUME NEW x \in Attributes,
              AddHandler(x) \/ AddToQueue(x) \/ RemoveFromQueue(x)
       PROVE  ReportsFollow'
  BY <1>1, <1>6 DEF AddHandler, AddToQueue, RemoveFromQueue, busVars
<1>7. ASSUME NEW x \in Selectives,
              SetSubscriptionToken(x) \/ RequestSubscription(x) \/ CallUnsubscribe(x)
                \/ EraseEntry(x)
       PROVE  ReportsFollow'
  BY <1>1, <1>7 DEF SetSubscriptionToken, RequestSubscription,
    CallUnsubscribe, EraseEntry, busVars
<1>8. ASSUME NEW e \in Events, NEW t \in Tags,
              Unsubscribe(e, t)
       PROVE  ReportsFollow'
  BY <1>1, <1>8 DEF Unsubscribe, busVars
<1>9. CASE StatusReported
  <2>1. UNCHANGED service
    BY <1>9 DEF StatusReported
  <2> QED
    BY <1>9, <2>1, StatusSet, ReportsTaken DEF IsAvailable, Reports
<1>10. CASE ValueReceived
  <2>1. UNCHANGED <<service, status>> /\ Head(incoming).kind # "status"
    BY <1>10 DEF ValueReceived
  <2> QED
    BY <1>10, <2>1, Dispatches, ReportsTaken DEF IsAvailable
<1>11. CASE SubscriptionAnswered
  <2>1. UNCHANGED <<service, status>> /\ Head(incoming).kind # "status"
    BY <1>11 DEF SubscriptionAnswered
  <2> QED
    BY <1>11, <2>1, Dispatches, ReportsTaken DEF IsAvailable
<1>12. CASE Serve
  <2>1. UNCHANGED <<service, status>>
    BY <1>12 DEF Serve
  <2>2. CASE Head(outgoing).kind = "unsubscribe"
    <3>1. UNCHANGED incoming
      BY <1>12, <2>2, ServeMoves
    <3> QED
      BY <1>1, <2>1, <3>1
  <2>3. CASE Head(outgoing).kind # "unsubscribe"
    <3>1. PICK m \in Messages : Receives({m}, {m}) /\ m.answer \in {"yes", "no", "failed"}
      BY <1>12, <2>3, ServeReceives, Zenon
    <3>2. ~Reports(m, "AVAILABLE")
      BY <3>1 DEF Reports
    <3> QED
      BY <2>1, <3>1, <3>2, ReportsKept
  <2> QED
    BY <2>2, <2>3
<1>13. CASE Toggle
  <2>1. /\ service \in {"up", "down"} /\ UNCHANGED status
        /\ service' = IF service = "up" THEN "down" ELSE "up"
    BY <1>13 DEF Toggle, TypeOK
  <2>2. CASE service = "down"
    BY <2>1, <2>2 DEF ReportsFollow
  <2>3. CASE service = "up"
    <3>1. PICK m \in Messages : Receives({m}, {m}) /\ m.kind = "status"
          /\ m.answer = "NOT_AVAILABLE"
      BY <1>13, <2>3, ToggleReceives
    <3>2. /\ DOMAIN incoming \subseteq DOMAIN incoming'
          /\ \A k \in DOMAIN incoming : incoming'[k] = incoming[k]
          /\ \A k \in DOMAIN incoming' \ DOMAIN incoming :
               incoming'[k] = m /\ \A j \in DOMAIN incoming : j < k
          /\ \E k \in DOMAIN incoming' \ DOMAIN incoming : incoming'[k] = m
          /\ DOMAIN incoming \subseteq Nat /\ DOMAIN incoming' \subseteq Nat
      BY <3>1, SequencesTyped DEF Receives, Grows
    <3>3. PICK n \in DOMAIN incoming' \ DOMAIN incoming : incoming'[n] = m
      BY <3>2
    <3>4. Reports(incoming'[n], "NOT_AVAILABLE")
      BY <3>1, <3>3 DEF Reports
    <3>5. \A k \in DOMAIN incoming' : Reports(incoming'[k], "AVAILABLE") => k \in DOMAIN incoming
      BY <3>1, <3>2 DEF Reports
    <3>6. \A k \in DOMAIN incoming : n > k
      BY <3>2, <3>3
    <3> QED
      BY <3>3, <3>4, <3>5, <3>6 DEF ReportsFollow, Reports
  <2> QED
    BY <2>1, <2>2, <2>3
<1> QED
  BY StepOfNext, <1>2, <1>3, <1>4, <1>5, <1>6, <1>7, <1>8, <1>9, <1>10, <1>11,
    <1>12, <1>13 DEF Step

(* What the loop knows of the status stays true.                           *)
LEMMA LoopStaysKnown ==
  ASSUME TypeOK, AppInPlace, MessagesShaped, OneUnsubscribe, LoopKnown,
    [Next]_vars
  PROVE  LoopKnown'
<1>1. ASSUME UNCHANGED <<loop, status, everAvailable>> PROVE LoopKnown'
  BY <1>1 DEF LoopKnown, IsAvailable
<1>2. CASE UNCHANGED vars
  BY <1>1, <1>2 DEF vars
<1>3. CASE PushInform \/ ValueReceived \/ SubscriptionAnswered \/ NotifySpecificListener
  BY <1>1, <1>3 DEF PushInform, ValueReceived, SubscriptionAnswered,
    NotifySpecificListener
<1>4. CASE HandleSignalStates \/ Serve \/ Toggle
  BY <1>1, <1>4 DEF HandleSignalStates, Serve, Toggle
<1>5. ASSUME NEW e \in Events,
              Subscribe(e) \/ InstallHandler(e) \/ GetCurrentValue(e) \/ AddSignalStateHandler(e)
                \/ RemoveHandler(e)
       PROVE  LoopKnown'
  BY <1>1, <1>5 DEF Subscribe, InstallHandler, GetCurrentValue,
    AddSignalStateHandler, RemoveHandler
<1>6. ASSUME NEW x \in Attributes,
              AddHandler(x) \/ AddToQueue(x) \/ RemoveFromQueue(x)
       PROVE  LoopKnown'
  BY <1>1, <1>6 DEF AddHandler, AddToQueue, RemoveFromQueue
<1>7. ASSUME NEW x \in Selectives,
              SetSubscriptionToken(x) \/ RequestSubscription(x) \/ CallUnsubscribe(x)
                \/ EraseEntry(x)
       PROVE  LoopKnown'
  BY <1>1, <1>7 DEF SetSubscriptionToken, RequestSubscription,
    CallUnsubscribe, EraseEntry
<1>8. ASSUME NEW e \in Events, NEW t \in Tags,
              Unsubscribe(e, t)
       PROVE  LoopKnown'
  BY <1>1, <1>8 DEF Unsubscribe
<1>9. CASE StatusReported
  <2>1. UNCHANGED everAvailable
    BY <1>9 DEF StatusReported
  <2> QED
    BY <1>9, <2>1, StatusSet DEF LoopKnown, IsAvailable
<1>10. CASE AddQueuedHandlers
  BY <1>10 DEF AddQueuedHandlers, LoopKnown, IsAvailable
<1>11. CASE RemoveQueuedHandlers
  BY <1>11 DEF RemoveQueuedHandlers, LoopKnown, IsAvailable
<1>12. CASE SendPendingSubscriptions
  BY <1>12 DEF SendPendingSubscriptions, LoopKnown, IsAvailable
<1> QED
  BY StepOfNext, <1>2, <1>3, <1>4, <1>5, <1>6, <1>7, <1>8, <1>9, <1>10, <1>11,
    <1>12 DEF Step

-----------------------------------------------------------------------------
(* The values of the attributes.                                           *)

BeginPlaces == {"add", "install", "queue", "value"}

(* A promise is kept while calls are sent and answers arrive.              *)
LEMMA PromiseKept ==
  ASSUME NEW x, NEW t, Promised(x, t), heard[t] = "value" => heard'[t] = "value",
         NEW N, UNCHANGED incoming \/ Receives(N, N),
         NEW M, UNCHANGED outgoing \/ Sends(M, M)
  PROVE  Promised(x, t)'
<1>1. DOMAIN incoming \subseteq DOMAIN incoming'
      /\ \A k \in DOMAIN incoming : incoming'[k] = incoming[k]
  BY DEF Receives, Grows
<1>2. DOMAIN outgoing \subseteq DOMAIN outgoing'
      /\ \A k \in DOMAIN outgoing : outgoing'[k] = outgoing[k]
  BY DEF Sends, Grows
<1>3. CASE heard[t] = "value"
  BY <1>3 DEF Promised
<1>4. CASE \E k \in DOMAIN incoming : Reaches(incoming[k], x, t) /\ incoming[k].answer = "yes"
  <2>1. PICK k \in DOMAIN incoming : Reaches(incoming[k], x, t) /\ incoming[k].answer = "yes"
    BY <1>4
  <2> QED
    BY <1>1, <2>1 DEF Promised, Reaches
<1>5. CASE \E k \in DOMAIN outgoing : Reaches(outgoing[k], x, t)
  <2>1. PICK k \in DOMAIN outgoing : Reaches(outgoing[k], x, t)
    BY <1>5
  <2> QED
    BY <1>2, <2>1 DEF Promised, Reaches
<1>6. CASE \E k \in DOMAIN incoming : Reports(incoming[k], "NOT_AVAILABLE")
  <2>1. PICK k \in DOMAIN incoming : Reports(incoming[k], "NOT_AVAILABLE")
    BY <1>6
  <2> QED
    BY <1>1, <2>1 DEF Promised, Reports
<1> QED
  BY <1>3, <1>4, <1>5, <1>6 DEF Promised

(* And when the loop takes a message that does not keep it.                *)
LEMMA PromiseTaken ==
  ASSUME TypeOK, NEW x, NEW t, Promised(x, t), heard[t] = "value" => heard'[t] = "value",
         TakesOne, UNCHANGED outgoing, ~Reports(incoming[1], "NOT_AVAILABLE"),
         Reaches(incoming[1], x, t) /\ incoming[1].answer = "yes" => heard'[t] = "value"
  PROVE  Promised(x, t)'
<1>1. /\ \A k \in DOMAIN incoming : k > 1 => k - 1 \in DOMAIN incoming'
           /\ incoming'[k - 1] = incoming[k]
      /\ DOMAIN incoming \subseteq Nat \ {0}
  BY SequencesTyped DEF TakesOne, Shrinks
<1>2. CASE heard'[t] = "value"
  BY <1>2 DEF Promised
<1>3. CASE \E k \in DOMAIN incoming : k > 1 /\ Reaches(incoming[k], x, t)
      /\ incoming[k].answer = "yes"
  <2>1. PICK k \in DOMAIN incoming : k > 1 /\ Reaches(incoming[k], x, t)
        /\ incoming[k].answer = "yes"
    BY <1>3
  <2>2. k - 1 \in DOMAIN incoming' /\ incoming'[k - 1] = incoming[k]
    BY <1>1, <2>1
  <2> QED
    BY <2>1, <2>2 DEF Promised, Reaches
<1>4. CASE \E k \in DOMAIN outgoing : Reaches(outgoing[k], x, t)
  BY <1>4 DEF Promised, Reaches
<1>5. CASE \E k \in DOMAIN incoming : k > 1 /\ Reports(incoming[k], "NOT_AVAILABLE")
  <2>1. PICK k \in DOMAIN incoming : k > 1 /\ Reports(incoming[k], "NOT_AVAILABLE")
    BY <1>5
  <2>2. k - 1 \in DOMAIN incoming' /\ incoming'[k - 1] = incoming[k]
    BY <1>1, <2>1
  <2> QED
    BY <2>1, <2>2 DEF Promised, Reports
<1>6. \A k \in DOMAIN incoming : k = 1 \/ k > 1
  BY <1>1
<1> QED
  BY <1>2, <1>3, <1>4, <1>5, <1>6 DEF Promised

(* A step of somebody else keeps all of them, and so does one that goes on *)
(* with the same listener.                                                 *)
LEMMA ValuesKept ==
  ASSUME ValuesPromised, UNCHANGED <<status, subscribed, heard>>, overtaken \subseteq overtaken',
         loop = "handlers" => loop' = "handlers",
         \A x \in Attributes : queue[x] = "pending" /\ subscribed[x] # {}
           => queue'[x] = "pending",
         \/ UNCHANGED app
         \/ app.pc \notin BeginPlaces \/ app.event \notin Attributes
         \/ app'.event = app.event /\ app'.tag = app.tag /\ app'.pc \in BeginPlaces,
         NEW N, UNCHANGED incoming \/ Receives(N, N),
         NEW M, UNCHANGED outgoing \/ Sends(M, M)
  PROVE  ValuesPromised'
<1> SUFFICES ASSUME IsAvailable', NEW y \in Attributes \ overtaken', NEW u \in subscribed'[y]
             PROVE  ValuePromised(y, u)'
  BY DEF ValuesPromised
<1>1. y \in Attributes /\ u \in subscribed[y] /\ ValuePromised(y, u)
  BY DEF ValuesPromised, IsAvailable
<1>2. CASE Begun(y, u)
  BY <1>1, <1>2 DEF ValuePromised, Begun, BeginPlaces
<1>3. CASE Promised(y, u)
  BY <1>3, PromiseKept DEF ValuePromised
<1>4. CASE loop = "handlers" /\ queue[y] = "pending"
  BY <1>1, <1>4 DEF ValuePromised
<1> QED
  BY <1>1, <1>2, <1>3, <1>4 DEF ValuePromised

(* Every listener of an attribute stays promised a value.                  *)
LEMMA ValuesStayPromised ==
  ASSUME TypeOK, AppInPlace, FirstAlone, MessagesShaped, OneUnsubscribe,
    TagsUnique, StatusTags, QueueFollows, ReportsFollow, ValuesPromised,
    [Next]_vars
  PROVE  ValuesPromised'
<1>1. ASSUME UNCHANGED <<status, overtaken, subscribed, heard, incoming, outgoing, loop, queue>>,
              UNCHANGED app \/ (app.pc \notin {"add", "install", "queue", "value"}
                /\ app'.pc \notin {"add", "install", "queue", "value"})
       PROVE  ValuesPromised'
  BY <1>1 DEF ValuesPromised, At, ValuePromised, Promised, Begun, IsAvailable,
    Reaches, Reports
<1>2. CASE UNCHANGED vars
  BY <1>1, <1>2 DEF vars, busVars, proxyVars, appVars, told, ghosts
<1>3. CASE HandleSignalStates
  BY <1>1, <1>3 DEF HandleSignalStates, busVars, proxyVars, appVars, ghosts
<1>4. ASSUME NEW x \in Selectives, SetSubscriptionToken(x) PROVE ValuesPromised'
  BY <1>1, <1>4, IdleTyped, SetsSubscriptionToken DEF SetSubscriptionToken,
    busVars, told, ghosts, Moves, Finishes
<1>5. CASE PushInform
  BY <1>1, <1>5, IdleTyped, PushesInform DEF PushInform, busVars, proxyVars,
    told, ghosts, Moves, Finishes
<1>6. ASSUME NEW e \in Events, RemoveHandler(e) PROVE ValuesPromised'
  BY <1>1, <1>6, IdleTyped, RemovesHandler DEF RemoveHandler, busVars, told,
    ghosts, Moves, Finishes
<1>7. ASSUME NEW x \in Selectives, EraseEntry(x) PROVE ValuesPromised'
  BY <1>1, <1>7, IdleTyped, ErasesEntry DEF EraseEntry, busVars, told, ghosts,
    Moves, Finishes
<1>8. ASSUME NEW e \in Events, Subscribe(e) PROVE ValuesPromised'
  <2>1. /\ app = Idle /\ app'.event = e /\ app'.tag = nextTag /\ nextTag \in Tags
        /\ app'.pc = IF subscribed[e] = {} THEN OnFirstListenerAdded(e) ELSE OnListenerAdded(e)
        /\ subscribed' = [f \in Events |-> IF f = e THEN subscribed[e] \cup {nextTag}
             ELSE subscribed[f]]
    BY <1>8, Subscribes
  <2>2. /\ UNCHANGED <<status, heard, loop, queue, incoming, outgoing>>
        /\ overtaken' = IF subscribed[e] = {} THEN overtaken \ {e} ELSE overtaken
    BY <1>8 DEF Subscribe, busVars, proxyVars, told
  <2> SUFFICES ASSUME IsAvailable', NEW y \in Attributes \ overtaken', NEW u \in subscribed'[y]
               PROVE  ValuePromised(y, u)'
    BY DEF ValuesPromised
  <2>3. CASE y = e /\ u = nextTag
    <3>1. app'.pc \in BeginPlaces
      BY <2>1, <2>3 DEF OnFirstListenerAdded, OnListenerAdded, BeginPlaces
    <3> QED
      BY <2>1, <2>3, <3>1 DEF ValuePromised, Begun, BeginPlaces
  <2>4. CASE ~(y = e /\ u = nextTag)
    <3>1. u \in subscribed[y] /\ y \notin overtaken
      BY <2>1, <2>2, <2>4
    <3>2. ValuePromised(y, u)
      BY <2>2, <3>1 DEF ValuesPromised, IsAvailable
    <3>3. ~Begun(y, u)
      BY <2>1, IdleTyped DEF Begun
    <3> QED
      BY <2>2, <3>2, <3>3 DEF ValuePromised, Promised, Reaches, Reports
  <2> QED
    BY <2>3, <2>4
<1>9. ASSUME NEW x \in Attributes, AddHandler(x) PROVE ValuesPromised'
  <2>1. UNCHANGED <<status, subscribed, heard, overtaken, loop, queue, incoming, outgoing>>
    BY <1>9 DEF AddHandler, busVars, proxyVars, told, ghosts
  <2>2. app'.event = app.event /\ app'.tag = app.tag /\ app'.pc \in BeginPlaces
    BY <1>9, AddsHandler DEF Moves, Finishes, BeginPlaces
  <2> QED
    BY <2>1, <2>2, ValuesKept
<1>10. ASSUME NEW e \in Events, InstallHandler(e) PROVE ValuesPromised'
  <2>1. UNCHANGED <<status, subscribed, heard, overtaken, loop, queue, incoming, outgoing>>
    BY <1>10 DEF InstallHandler, busVars, told, ghosts
  <2>2. app.event \notin Attributes
        \/ (app'.event = app.event /\ app'.tag = app.tag /\ app'.pc \in BeginPlaces)
    BY <1>10, InstallsHandler DEF Moves, InstallHandler, At, BeginPlaces
  <2> QED
    BY <2>1, <2>2, ValuesKept
<1>11. ASSUME NEW x \in Attributes, AddToQueue(x) PROVE ValuesPromised'
  <2>1. UNCHANGED <<status, subscribed, heard, overtaken, loop, incoming, outgoing>>
    BY <1>11 DEF AddToQueue, busVars, told, ghosts
  <2>2. \A y \in Attributes : queue[y] = "pending" => queue'[y] = "pending"
    BY <1>11 DEF AddToQueue, TypeOK
  <2>3. app'.event = app.event /\ app'.tag = app.tag /\ app'.pc \in BeginPlaces
    BY <1>11, AddsToQueue DEF Moves, BeginPlaces
  <2> QED
    BY <2>1, <2>2, <2>3, ValuesKept
<1>12. ASSUME NEW e \in Events, GetCurrentValue(e) PROVE ValuesPromised'
  <2>1. UNCHANGED <<status, subscribed, heard, overtaken, loop, queue, incoming>>
    BY <1>12 DEF GetCurrentValue, told, ghosts, proxyVars
  <2>2. app.event = e /\ app.pc = "value"
    BY <1>12 DEF GetCurrentValue, At
  <2> SUFFICES ASSUME IsAvailable', NEW y \in Attributes \ overtaken', NEW u \in subscribed'[y]
               PROVE  ValuePromised(y, u)'
    BY DEF ValuesPromised
  <2>3. IsAvailable /\ y \in Attributes /\ ValuePromised(y, u)
    BY <2>1 DEF ValuesPromised, IsAvailable
  <2> DEFINE m == Call("initial", e, app.tag)
  <2>4. m.kind = "initial" /\ m.event = e /\ m.tag = app.tag
    BY DEF Call, Message
  <2>5. Sends({m}, {m})
    BY <1>12, <2>3, GetsSends
  <2> HIDE DEF m
  <2>6. CASE Begun(y, u)
    <3>1. y = e /\ u = app.tag
      BY <2>2, <2>6 DEF Begun
    <3>2. PICK k \in DOMAIN outgoing' : outgoing'[k] = m
      BY <2>5 DEF Sends, Grows
    <3>3. Reaches(outgoing'[k], y, u)
      BY <2>4, <3>1, <3>2 DEF Reaches
    <3> QED
      BY <3>2, <3>3 DEF ValuePromised, Promised, Reaches
  <2>7. CASE Promised(y, u)
    BY <2>1, <2>5, <2>7, PromiseKept DEF ValuePromised
  <2>8. CASE loop = "handlers" /\ queue[y] = "pending"
    BY <2>1, <2>8 DEF ValuePromised
  <2> QED
    BY <2>3, <2>6, <2>7, <2>8 DEF ValuePromised
<1>13. ASSUME NEW e \in Events, AddSignalStateHandler(e) PROVE ValuesPromised'
  <2>1. UNCHANGED <<status, subscribed, heard, overtaken, loop, queue, incoming, outgoing>>
    BY <1>13 DEF AddSignalStateHandler, busVars, told, ghosts
  <2>2. app.pc \notin BeginPlaces
    BY <1>13 DEF AddSignalStateHandler, At, BeginPlaces
  <2> QED
    BY <2>1, <2>2, ValuesKept
<1>14. ASSUME NEW x \in Selectives, RequestSubscription(x) PROVE ValuesPromised'
  <2>1. UNCHANGED <<status, subscribed, heard, overtaken, loop, queue, incoming>>
    BY <1>14 DEF RequestSubscription, told, ghosts, proxyVars
  <2>2. app.pc \notin BeginPlaces
    BY <1>14 DEF RequestSubscription, At, BeginPlaces
  <2> DEFINE m == Call("subscribe", x, app.tag)
  <2>3. UNCHANGED outgoing \/ Sends({m}, {m})
    BY <1>14, RequestSends
  <2> HIDE DEF m
  <2> QED
    BY <2>1, <2>2, <2>3, ValuesKept
<1>15. ASSUME NEW e \in Events, NEW t \in Tags, Unsubscribe(e, t) PROVE ValuesPromised'
  <2>1. UNCHANGED <<status, overtaken, loop, queue, incoming, outgoing>>
        /\ heard' = [heard EXCEPT ![t] = "nothing"]
    BY <1>15 DEF Unsubscribe, busVars, ghosts
  <2>2. /\ app = Idle /\ t \in subscribed[e]
        /\ subscribed' = [f \in Events |-> IF f = e THEN subscribed[e] \ {t} ELSE subscribed[f]]
    BY <1>15, Unsubscribes
  <2> SUFFICES ASSUME IsAvailable', NEW y \in Attributes \ overtaken', NEW u \in subscribed'[y]
               PROVE  ValuePromised(y, u)'
    BY DEF ValuesPromised
  <2>3. u \in subscribed[y] /\ u # t
    BY <2>2 DEF TagsUnique
  <2>4. ValuePromised(y, u)
    BY <2>1, <2>3 DEF ValuesPromised, IsAvailable
  <2>5. ~Begun(y, u)
    BY <2>2, IdleTyped DEF Begun
  <2>6. heard'[u] = heard[u]
    BY <2>1, <2>3 DEF TypeOK
  <2> QED
    BY <2>1, <2>4, <2>5, <2>6 DEF ValuePromised, Promised, Reaches, Reports
<1>16. ASSUME NEW x \in Attributes, RemoveFromQueue(x) PROVE ValuesPromised'
  <2>1. UNCHANGED <<status, subscribed, heard, overtaken, loop, incoming, outgoing>>
    BY <1>16 DEF RemoveFromQueue, busVars, told, ghosts
  <2>2. app.event = x /\ app.pc = "dequeue"
    BY <1>16 DEF RemoveFromQueue, At
  <2>3. subscribed[x] = {}
    BY <2>2, Departed DEF DeparturePlaces
  <2>4. \A y \in Attributes : y # x => queue'[y] = queue[y]
    BY <1>16 DEF RemoveFromQueue, TypeOK
  <2>5. app.pc \notin BeginPlaces
    BY <2>2 DEF BeginPlaces
  <2> QED
    BY <2>1, <2>3, <2>4, <2>5, ValuesKept
<1>17. ASSUME NEW x \in Selectives, CallUnsubscribe(x) PROVE ValuesPromised'
  <2>1. UNCHANGED <<status, subscribed, heard, loop, queue, incoming>>
        /\ overtaken \subseteq overtaken'
    BY <1>17 DEF CallUnsubscribe, told, proxyVars
  <2>2. app.pc \notin BeginPlaces
    BY <1>17 DEF CallUnsubscribe, At, BeginPlaces
  <2> DEFINE m == Call("unsubscribe", x, None)
  <2>3. UNCHANGED outgoing \/ Sends({m}, {m})
    BY <1>17, UnsubscribeSends
  <2> HIDE DEF m
  <2> QED
    BY <2>1, <2>2, <2>3, ValuesKept
<1>18. CASE StatusReported
  <2>1. UNCHANGED <<subscribed, app, queue, outgoing>>
    BY <1>18 DEF StatusReported, appVars, proxyVars
  <2> SUFFICES ASSUME IsAvailable', NEW y \in Attributes \ overtaken', NEW u \in subscribed'[y]
               PROVE  ValuePromised(y, u)'
    BY DEF ValuesPromised
  <2>2. y \in Attributes /\ u \in subscribed[y]
    BY <2>1
  <2>3. CASE status' = status
    <3>1. UNCHANGED <<loop, heard, overtaken>> /\ TakesOne /\ incoming[1].kind = "status"
      BY <1>18, <2>3, StatusSet DEF told
    <3>2. ~Reports(incoming[1], "NOT_AVAILABLE") /\ ~Reaches(incoming[1], y, u)
      BY <1>18, <2>3, StatusSet DEF Reports, Reaches, IsAvailable
    <3>3. ValuePromised(y, u)
      BY <2>2, <2>3, <3>1 DEF ValuesPromised, IsAvailable
    <3>4. Promised(y, u) => Promised(y, u)'
      BY <2>1, <3>1, <3>2, PromiseTaken
    <3> QED
      BY <2>1, <3>1, <3>3, <3>4 DEF ValuePromised, Begun
  <2>4. CASE status' # status
    <3>1. loop = "idle" /\ loop' = "handlers" /\ overtaken' = overtaken \cup Joining
          /\ ~IsAvailable
      BY <1>18, <2>4, StatusSet DEF IsAvailable
    <3>2. ~At(y, "install") /\ ~At(y, "queue") /\ y \notin overtaken
      BY <3>1 DEF Joining
    <3>3. CASE At(y, "add")
      <4>1. u = app.tag
        BY <2>2, <3>3 DEF FirstAlone, Entering
      <4> QED
        BY <2>1, <3>3, <4>1 DEF ValuePromised, Begun, At
    <3>4. CASE ~At(y, "add")
      <4>1. TupleFollows(y) /\ ~Entering(y)
        BY <3>2, <3>4 DEF QueueFollows, Entering
      <4>2. queue[y] = "pending"
        BY <2>2, <3>1, <4>1 DEF TupleFollows, TypeOK
      <4> QED
        BY <2>1, <3>1, <4>2 DEF ValuePromised
    <3> QED
      BY <3>3, <3>4
  <2> QED
    BY <2>3, <2>4
<1>19. CASE AddQueuedHandlers
  <2>1. UNCHANGED <<status, subscribed, heard, overtaken, app, incoming>>
    BY <1>19 DEF AddQueuedHandlers, appVars, told, ghosts
  <2>2. Sends(Gets, Gets)
    BY <1>19, QueuedSends
  <2> SUFFICES ASSUME IsAvailable', NEW y \in Attributes \ overtaken', NEW u \in subscribed'[y]
               PROVE  ValuePromised(y, u)'
    BY DEF ValuesPromised
  <2>3. y \in Attributes /\ ValuePromised(y, u)
    BY <2>1 DEF ValuesPromised, IsAvailable
  <2>4. CASE Begun(y, u)
    BY <2>1, <2>4 DEF ValuePromised, Begun
  <2>5. CASE Promised(y, u)
    BY <2>1, <2>2, <2>5, PromiseKept DEF ValuePromised
  <2>6. CASE queue[y] = "pending"
    <3>1. y \in Waiting
      BY <2>3, <2>6 DEF Waiting
    <3>2. PICK m \in Gets : m.kind = "get" /\ m.event = y
      BY <3>1, GetsTyped
    <3>3. PICK k \in DOMAIN outgoing' : outgoing'[k] = m
      BY <2>2, <3>2 DEF Sends, Grows
    <3> QED
      BY <3>2, <3>3 DEF ValuePromised, Promised, Reaches
  <2> QED
    BY <2>3, <2>4, <2>5, <2>6 DEF ValuePromised
<1>20. CASE RemoveQueuedHandlers
  <2>1. ~IsAvailable /\ UNCHANGED status
    BY <1>20 DEF RemoveQueuedHandlers
  <2> QED
    BY <2>1 DEF ValuesPromised, IsAvailable
<1>21. CASE SendPendingSubscriptions
  <2>1. /\ UNCHANGED <<status, subscribed, heard, app, incoming, queue>>
        /\ overtaken \subseteq overtaken' /\ loop # "handlers"
    BY <1>21 DEF SendPendingSubscriptions, appVars, told, proxyVars
  <2>2. Sends(Resubscribes, Resubscribes)
    BY <1>21, PendingSends
  <2> QED
    BY <2>1, <2>2, ValuesKept
<1>22. CASE ValueReceived
  <2>1. UNCHANGED <<status, subscribed, overtaken, app, loop, queue, outgoing>>
    BY <1>22 DEF ValueReceived, appVars, ghosts, proxyVars
  <2>2. TakesOne /\ Head(incoming) = incoming[1]
    BY <1>22, Dispatches
  <2>3. /\ incoming[1].kind \in {"get", "initial"}
        /\ \A t \in Tags : heard'[t] = IF incoming[1].answer = "yes"
             /\ t \in Reached(incoming[1]) THEN "value"
                                     ELSE heard[t]
    BY <1>22, <2>2 DEF ValueReceived
  <2> SUFFICES ASSUME IsAvailable', NEW y \in Attributes \ overtaken', NEW u \in subscribed'[y]
               PROVE  ValuePromised(y, u)'
    BY DEF ValuesPromised
  <2>4. y \in Attributes /\ u \in subscribed[y] /\ ValuePromised(y, u)
    BY <2>1 DEF ValuesPromised, IsAvailable
  <2>5. u \in Tags
    BY <2>4 DEF TypeOK
  <2>6. Reaches(incoming[1], y, u) /\ incoming[1].answer = "yes" => heard'[u] = "value"
    BY <2>3, <2>4, <2>5 DEF Reaches, Reached
  <2>7. ~Reports(incoming[1], "NOT_AVAILABLE")
    BY <2>3 DEF Reports
  <2>8. heard[u] = "value" => heard'[u] = "value"
    BY <2>3, <2>5
  <2>9. Promised(y, u) => Promised(y, u)'
    BY <2>1, <2>2, <2>6, <2>7, <2>8, PromiseTaken
  <2> QED
    BY <2>1, <2>4, <2>9 DEF ValuePromised, Begun
<1>23. CASE SubscriptionAnswered
  <2>1. UNCHANGED <<status, subscribed, overtaken, app, loop, queue, outgoing, heard>>
    BY <1>23 DEF SubscriptionAnswered, appVars
  <2>2. TakesOne /\ Head(incoming) = incoming[1] /\ incoming[1].kind \in Requests
    BY <1>23, Dispatches DEF SubscriptionAnswered, Requests
  <2> SUFFICES ASSUME IsAvailable', NEW y \in Attributes \ overtaken', NEW u \in subscribed'[y]
               PROVE  ValuePromised(y, u)'
    BY DEF ValuesPromised
  <2>3. ValuePromised(y, u)
    BY <2>1 DEF ValuesPromised, IsAvailable
  <2>4. ~Reports(incoming[1], "NOT_AVAILABLE") /\ ~Reaches(incoming[1], y, u)
    BY <2>2 DEF Reports, Reaches, Requests
  <2>5. Promised(y, u) => Promised(y, u)'
    BY <2>1, <2>2, <2>4, PromiseTaken
  <2> QED
    BY <2>1, <2>3, <2>5 DEF ValuePromised, Begun
<1>24. CASE NotifySpecificListener
  <2>1. UNCHANGED <<status, subscribed, overtaken, app, loop, queue, outgoing, incoming>>
    BY <1>24 DEF NotifySpecificListener, appVars, busVars, ghosts
  <2>2. 1 \in DOMAIN pushed /\ pushed[1] = Head(pushed)
    BY <1>24, Runs
  <2>3. /\ pushed[1].kind = "inform"
        /\ heard' = IF pushed[1].tag \in Live /\ status # "UNKNOWN"
                    THEN [heard EXCEPT ![pushed[1].tag] = status] ELSE heard
    BY <1>24, <2>2 DEF NotifySpecificListener
  <2>4. StatusTag(pushed[1].tag)
    BY <2>2, <2>3 DEF StatusTags
  <2> SUFFICES ASSUME IsAvailable', NEW y \in Attributes \ overtaken', NEW u \in subscribed'[y]
               PROVE  ValuePromised(y, u)'
    BY DEF ValuesPromised
  <2>5. u \in subscribed[y] /\ ValuePromised(y, u)
    BY <2>1 DEF ValuesPromised, IsAvailable
  <2>6. u # pushed[1].tag
    BY <2>4, <2>5 DEF StatusTag
  <2>7. heard'[u] = heard[u]
    BY <2>3, <2>6 DEF TypeOK
  <2> QED
    BY <2>1, <2>5, <2>7 DEF ValuePromised, Begun, Promised, Reaches, Reports
<1>25. CASE Serve
  <2>1. UNCHANGED <<status, subscribed, overtaken, loop, queue, heard, service>>
    BY <1>25 DEF Serve, ghosts, proxyVars, told
  <2>2. /\ 1 \in DOMAIN outgoing /\ outgoing[1] = Head(outgoing)
        /\ \A k \in DOMAIN outgoing : k > 1 => k - 1 \in DOMAIN outgoing'
             /\ outgoing'[k - 1] = outgoing[k]
        /\ DOMAIN outgoing \subseteq Nat \ {0}
    BY <1>25, Serves, SequencesTyped DEF ServesOne, Shrinks
  <2>3. UNCHANGED app \/ app.pc \notin BeginPlaces
    BY <1>25, ServeMoves DEF Moves, BeginPlaces
  <2>4. \/ UNCHANGED incoming /\ outgoing[1].kind = "unsubscribe"
        \/ \E m \in Messages :
             /\ Receives({m}, {m}) /\ m.kind = outgoing[1].kind /\ m.event = outgoing[1].event
             /\ m.tag = outgoing[1].tag
             /\ service = "up" /\ m.kind \notin Requests => m.answer = "yes"
    <3>1. CASE outgoing[1].kind = "unsubscribe"
      BY <1>25, <2>2, <3>1, ServeMoves
    <3>2. CASE outgoing[1].kind # "unsubscribe"
      <4>1. Head(outgoing).kind # "unsubscribe"
        BY <2>2, <3>2
      <4>2. PICK m \in Messages :
              /\ Receives({m}, {m}) /\ m.kind = Head(outgoing).kind
                   /\ m.event = Head(outgoing).event
              /\ m.tag = Head(outgoing).tag /\ m.answer \in {"yes", "no", "failed"}
              /\ service = "up" => m.answer # "failed"
              /\ m.answer = "no" => m.kind \in Requests
        BY <1>25, <4>1, ServeReceives, Zenon
      <4>3. service = "up" /\ m.kind \notin Requests => m.answer = "yes"
        BY <4>2
      <4> QED
        BY <2>2, <4>2, <4>3
    <3> QED
      BY <3>1, <3>2
  <2> SUFFICES ASSUME IsAvailable', NEW y \in Attributes \ overtaken', NEW u \in subscribed'[y]
               PROVE  ValuePromised(y, u)'
    BY DEF ValuesPromised
  <2>5. IsAvailable /\ y \in Attributes /\ ValuePromised(y, u)
    BY <2>1 DEF ValuesPromised, IsAvailable
  <2>6. /\ DOMAIN incoming \subseteq DOMAIN incoming'
        /\ \A k \in DOMAIN incoming : incoming'[k] = incoming[k]
    BY <2>4 DEF Receives, Grows
  <2>7. CASE Begun(y, u)
    BY <2>3, <2>7 DEF ValuePromised, Begun, BeginPlaces
  <2>8. CASE \E k \in DOMAIN incoming : Reports(incoming[k], "NOT_AVAILABLE")
    <3>1. PICK k \in DOMAIN incoming : Reports(incoming[k], "NOT_AVAILABLE")
      BY <2>8
    <3> QED
      BY <2>6, <3>1 DEF ValuePromised, Promised, Reports
  <2>9. CASE heard[u] = "value" \/ (loop = "handlers" /\ queue[y] = "pending")
    BY <2>1, <2>9 DEF ValuePromised, Promised
  <2>10. CASE \E k \in DOMAIN incoming : Reaches(incoming[k], y, u) /\ incoming[k].answer = "yes"
    <3>1. PICK k \in DOMAIN incoming : Reaches(incoming[k], y, u) /\ incoming[k].answer = "yes"
      BY <2>10
    <3> QED
      BY <2>6, <3>1 DEF ValuePromised, Promised, Reaches
  <2>11. CASE \E k \in DOMAIN outgoing : Reaches(outgoing[k], y, u)
    <3>1. PICK k \in DOMAIN outgoing : Reaches(outgoing[k], y, u)
      BY <2>11
    <3>2. CASE k > 1
      <4>1. k - 1 \in DOMAIN outgoing' /\ outgoing'[k - 1] = outgoing[k]
        BY <2>2, <3>2
      <4> QED
        BY <3>1, <4>1 DEF ValuePromised, Promised, Reaches
    <3>3. CASE k = 1 /\ service = "up"
      <4>1. PICK m \in Messages :
              /\ Receives({m}, {m}) /\ m.kind = outgoing[1].kind /\ m.event = outgoing[1].event
              /\ m.tag = outgoing[1].tag
              /\ service = "up" /\ m.kind \notin Requests => m.answer = "yes"
        BY <2>4, <3>1, <3>3, Zenon DEF Reaches
      <4>2. Reaches(m, y, u) /\ m.answer = "yes"
        BY <3>1, <3>3, <4>1 DEF Reaches, Requests
      <4>3. PICK j \in DOMAIN incoming' : incoming'[j] = m
        BY <4>1 DEF Receives, Grows
      <4> QED
        BY <4>2, <4>3 DEF ValuePromised, Promised, Reaches
    <3>4. CASE service = "down"
      BY <2>5, <2>8, <3>4 DEF ReportsFollow
    <3> QED
      BY <2>2, <3>2, <3>3, <3>4 DEF TypeOK
  <2> QED
    BY <2>5, <2>7, <2>8, <2>9, <2>10, <2>11 DEF ValuePromised, Promised
<1>26. CASE Toggle
  <2>1. UNCHANGED <<status, subscribed, overtaken, loop, queue, heard, app, outgoing>>
    BY <1>26 DEF Toggle, ghosts, proxyVars, told, appVars
  <2>2. PICK m \in Messages : Receives({m}, {m})
    BY <1>26, ToggleReceives
  <2> QED
    BY <2>1, <2>2, ValuesKept
<1> QED
  BY StepOfNext, <1>2, <1>3, <1>4, <1>5, <1>6, <1>7, <1>8, <1>9, <1>10, <1>11,
    <1>12, <1>13, <1>14, <1>15, <1>16, <1>17, <1>18, <1>19, <1>20, <1>21,
    <1>22, <1>23, <1>24, <1>25, <1>26 DEF Step

-----------------------------------------------------------------------------
(* The states of the listeners of signals.                                 *)

(* A step of somebody else confirms them as before, and so does one that   *)
(* goes on with the same listener.                                         *)
LEMMA StatesKept ==
  ASSUME StatesConfirmed, UNCHANGED <<status, subscribed, everAvailable, loop>>,
         states \subseteq states', confirmed \subseteq confirmed',
         \/ UNCHANGED app
         \/ app.pc \notin ArrivalPlaces \/ app.event \notin Attributes \cup Broadcasts
         \/ app'.event = app.event /\ app'.tag = app.tag /\ Arrives(app.event, app'.pc),
         NEW N, UNCHANGED pushed \/ Pushes(N, N)
  PROVE  StatesConfirmed'
<1> SUFFICES ASSUME NEW y \in Attributes \cup Broadcasts, NEW u \in subscribed'[y]
             PROVE  StateConfirmed(y, u)'
  BY DEF StatesConfirmed
<1>1. StateConfirmed(y, u)
  BY DEF StatesConfirmed
<1>2. DOMAIN pushed \subseteq DOMAIN pushed' /\ \A k \in DOMAIN pushed : pushed'[k] = pushed[k]
  BY DEF Pushes, Grows
<1>3. CASE Starting(y, u)
  <2>1. app.event = y /\ app.tag = u /\ app.pc \in ArrivalPlaces /\ Arrives(y, app.pc)
    BY <1>3 DEF Starting, Arrives, ArrivalPlaces
  <2>2. CASE UNCHANGED app
    BY <1>3, <2>2 DEF StateConfirmed, Starting
  <2>3. CASE app'.event = app.event /\ app'.tag = app.tag /\ Arrives(app.event, app'.pc)
    BY <2>1, <2>3 DEF StateConfirmed, Starting
  <2> QED
    BY <2>1, <2>2, <2>3
<1>4. CASE u \in states /\ \E k \in DOMAIN pushed : Confirms(pushed[k], u)
  <2>1. PICK k \in DOMAIN pushed : Confirms(pushed[k], u)
    BY <1>4
  <2>2. k \in DOMAIN pushed' /\ Confirms(pushed'[k], u)
    BY <1>2, <2>1
  <2> QED
    BY <1>4, <2>2 DEF StateConfirmed, Confirms
<1>5. CASE u \in states /\ (u \in confirmed \/ (everAvailable /\ (~IsAvailable \/ loop # "idle")))
  BY <1>5 DEF StateConfirmed, IsAvailable
<1> QED
  BY <1>1, <1>3, <1>4, <1>5 DEF StateConfirmed

(* Functions that are run and do not confirm a listener put nothing off.   *)
LEMMA StatesRun ==
  ASSUME TypeOK, StatesConfirmed, UNCHANGED <<status, subscribed, everAvailable, loop, app,
         states>>,
         confirmed \subseteq confirmed', RunsOne,
         \A t \in states \cap Live : Confirms(pushed[1], t) => t \in confirmed'
  PROVE  StatesConfirmed'
<1> SUFFICES ASSUME NEW y \in Attributes \cup Broadcasts, NEW u \in subscribed'[y]
             PROVE  StateConfirmed(y, u)'
  BY DEF StatesConfirmed
<1>1. StateConfirmed(y, u) /\ u \in Live
  BY DEF StatesConfirmed, Live
<1>2. /\ \A k \in DOMAIN pushed : k > 1 => k - 1 \in DOMAIN pushed' /\ pushed'[k - 1] = pushed[k]
      /\ DOMAIN pushed \subseteq Nat \ {0}
  BY SequencesTyped DEF RunsOne, Shrinks
<1>3. CASE Starting(y, u)
  BY <1>3 DEF StateConfirmed, Starting
<1>4. CASE u \in states /\ \E k \in DOMAIN pushed : Confirms(pushed[k], u)
  <2>1. PICK k \in DOMAIN pushed : Confirms(pushed[k], u)
    BY <1>4
  <2>2. CASE k = 1
    BY <1>1, <1>4, <2>1, <2>2 DEF StateConfirmed
  <2>3. CASE k > 1
    <3>1. k - 1 \in DOMAIN pushed' /\ Confirms(pushed'[k - 1], u)
      BY <1>2, <2>1, <2>3
    <3> QED
      BY <1>4, <3>1 DEF StateConfirmed, Confirms
  <2> QED
    BY <1>2, <2>2, <2>3
<1>5. CASE u \in states /\ (u \in confirmed \/ (everAvailable /\ (~IsAvailable \/ loop # "idle")))
  BY <1>5 DEF StateConfirmed, IsAvailable
<1> QED
  BY <1>1, <1>3, <1>4, <1>5 DEF StateConfirmed

(* Every listener of a signal stays in the table, confirmed or about to be.*)
LEMMA StatesStayConfirmed ==
  ASSUME TypeOK, AppInPlace, MessagesShaped, OneUnsubscribe, TagsUnique,
    StatusTags, InternalTags, LoopKnown, StatesConfirmed, [Next]_vars
  PROVE  StatesConfirmed'
<1>1. ASSUME UNCHANGED <<status, subscribed, everAvailable, loop, states, confirmed, pushed>>,
              UNCHANGED app \/ (app.pc \notin {"add", "install", "queue", "value", "state",
                "token", "request", "inform"}
                  /\ app'.pc \notin {"add", "install", "queue", "value", "state", "token",
                       "request", "inform"})
       PROVE  StatesConfirmed'
  BY <1>1 DEF StatesConfirmed, At, StateConfirmed, Starting, Arrives,
    Confirms, IsAvailable
<1>2. CASE UNCHANGED vars
  BY <1>1, <1>2 DEF vars, proxyVars, appVars, told
<1>3. CASE ValueReceived \/ Toggle
  BY <1>1, <1>3 DEF ValueReceived, Toggle, proxyVars, appVars, told
<1>4. ASSUME NEW x \in Attributes, RemoveFromQueue(x) PROVE StatesConfirmed'
  BY <1>1, <1>4, IdleTyped, RemovesFromQueue DEF RemoveFromQueue, told, Moves,
    Finishes
<1>5. ASSUME NEW e \in Events, RemoveHandler(e) PROVE StatesConfirmed'
  BY <1>1, <1>5, IdleTyped, RemovesHandler DEF RemoveHandler, told, Moves,
    Finishes
<1>6. ASSUME NEW x \in Selectives, CallUnsubscribe(x) PROVE StatesConfirmed'
  BY <1>1, <1>6, IdleTyped, CallsUnsubscribe DEF CallUnsubscribe, proxyVars,
    told, Moves, Finishes
<1>7. ASSUME NEW x \in Selectives, EraseEntry(x) PROVE StatesConfirmed'
  BY <1>1, <1>7, IdleTyped, ErasesEntry DEF EraseEntry, told, Moves, Finishes
<1>8. CASE Serve
  BY <1>1, <1>8, IdleTyped, ServeMoves DEF Serve, proxyVars, told, Moves,
    Finishes
<1>9. ASSUME NEW e \in Events, Subscribe(e) PROVE StatesConfirmed'
  <2>1. /\ app = Idle /\ app'.event = e /\ app'.tag = nextTag
        /\ app'.pc = IF subscribed[e] = {} THEN OnFirstListenerAdded(e) ELSE OnListenerAdded(e)
        /\ subscribed' = [f \in Events |-> IF f = e THEN subscribed[e] \cup {nextTag}
             ELSE subscribed[f]]
    BY <1>9, Subscribes
  <2>2. UNCHANGED <<status, everAvailable, loop, states, confirmed, pushed>>
    BY <1>9 DEF Subscribe, proxyVars, told
  <2> SUFFICES ASSUME NEW y \in Attributes \cup Broadcasts, NEW u \in subscribed'[y]
               PROVE  StateConfirmed(y, u)'
    BY DEF StatesConfirmed
  <2>3. CASE y = e /\ u = nextTag
    <3>1. Arrives(e, app'.pc)
      BY <2>1, <2>3 DEF OnFirstListenerAdded, OnListenerAdded, Arrives
    <3> QED
      BY <2>1, <2>3, <3>1 DEF StateConfirmed, Starting
  <2>4. CASE ~(y = e /\ u = nextTag)
    <3>1. u \in subscribed[y] /\ app.event # y
      BY <2>1, <2>4, IdleTyped
    <3>2. StateConfirmed(y, u) /\ ~Starting(y, u)
      BY <3>1 DEF StatesConfirmed, Starting
    <3> QED
      BY <2>2, <3>2 DEF StateConfirmed, Confirms, IsAvailable
  <2> QED
    BY <2>3, <2>4
<1>10. ASSUME NEW x \in Attributes, AddHandler(x) PROVE StatesConfirmed'
  <2>1. UNCHANGED <<status, subscribed, everAvailable, loop, states, confirmed, pushed>>
    BY <1>10 DEF AddHandler, proxyVars, told
  <2>2. app'.event = app.event /\ app'.tag = app.tag /\ Arrives(app.event, app'.pc)
    BY <1>10, AddsHandler DEF Moves, Finishes, Arrives, ArrivalPlaces
  <2> QED
    BY <2>1, <2>2, StatesKept
<1>11. ASSUME NEW e \in Events, InstallHandler(e) PROVE StatesConfirmed'
  <2>1. UNCHANGED <<status, subscribed, everAvailable, loop, states, confirmed, pushed>>
    BY <1>11 DEF InstallHandler, told
  <2>2. app.event \notin Attributes \cup Broadcasts
        \/ (app'.event = app.event /\ app'.tag = app.tag /\ Arrives(app.event, app'.pc))
    BY <1>11, InstallsHandler DEF Moves, Finishes, Arrives, ArrivalPlaces, InstallHandler, At
  <2> QED
    BY <2>1, <2>2, StatesKept
<1>12. ASSUME NEW x \in Attributes, AddToQueue(x) PROVE StatesConfirmed'
  <2>1. UNCHANGED <<status, subscribed, everAvailable, loop, states, confirmed, pushed>>
    BY <1>12 DEF AddToQueue, told
  <2>2. app'.event = app.event /\ app'.tag = app.tag /\ Arrives(app.event, app'.pc)
    BY <1>12, AddsToQueue DEF Moves, Finishes, Arrives, ArrivalPlaces
  <2> QED
    BY <2>1, <2>2, StatesKept
<1>13. ASSUME NEW e \in Events, GetCurrentValue(e) PROVE StatesConfirmed'
  <2>1. UNCHANGED <<status, subscribed, everAvailable, loop, states, confirmed, pushed>>
    BY <1>13 DEF GetCurrentValue, proxyVars, told
  <2>2. e \in Attributes \cup Legacy
    BY <1>13, GetsSends
  <2>3. app.event \notin Attributes \cup Broadcasts
        \/ (app'.event = app.event /\ app'.tag = app.tag /\ Arrives(app.event, app'.pc))
    BY <1>13, <2>2, GetsCurrentValue DEF Moves, Finishes, Arrives
  <2> QED
    BY <2>1, <2>3, StatesKept
<1>14. ASSUME NEW e \in Events, AddSignalStateHandler(e) PROVE StatesConfirmed'
  <2>1. UNCHANGED <<status, subscribed, everAvailable, loop, confirmed>>
        /\ states' = states \cup {app.tag}
    BY <1>14 DEF AddSignalStateHandler, told
  <2>2. app.event = e
    BY <1>14 DEF AddSignalStateHandler, At
  <2>3. PICK f \in Functions : Pushes({f}, {f}) /\ f.kind = "succeed" /\ f.tag = app.tag
    BY <1>14, StatePushes
  <2>4. CASE e \in Legacy
    BY <2>1, <2>2, <2>3, <2>4, StatesKept
  <2>5. CASE e \notin Legacy
    <3>1. DOMAIN pushed \subseteq DOMAIN pushed'
          /\ \A k \in DOMAIN pushed : pushed'[k] = pushed[k]
      BY <2>3 DEF Pushes, Grows
    <3>2. PICK n \in DOMAIN pushed' : pushed'[n] = f
      BY <2>3 DEF Pushes, Grows
    <3>3. ASSUME NEW y \in Attributes \cup Broadcasts, NEW u \in subscribed'[y]
          PROVE  StateConfirmed(y, u)'
      <4>1. StateConfirmed(y, u)
        BY <2>1 DEF StatesConfirmed
      <4>2. CASE Starting(y, u)
        <5>1. Confirms(pushed'[n], u) /\ u \in states'
          BY <2>1, <2>3, <3>2, <4>2 DEF Starting, Confirms
        <5> QED
          BY <3>2, <5>1 DEF StateConfirmed, Confirms
      <4>3. CASE \E k \in DOMAIN pushed : Confirms(pushed[k], u)
        <5>1. PICK k \in DOMAIN pushed : Confirms(pushed[k], u)
          BY <4>3
        <5>2. k \in DOMAIN pushed' /\ Confirms(pushed'[k], u)
          BY <3>1, <5>1
        <5>3. u \in states'
          BY <2>1, <2>3, <4>1 DEF StateConfirmed, Starting
        <5> QED
          BY <5>2, <5>3 DEF StateConfirmed, Confirms
      <4>4. CASE ~Starting(y, u)
            /\ (u \in confirmed \/ (everAvailable /\ (~IsAvailable \/ loop # "idle")))
        BY <2>1, <4>1, <4>4 DEF StateConfirmed, IsAvailable
      <4> QED
        BY <4>1, <4>2, <4>3, <4>4 DEF StateConfirmed
    <3> QED
      BY <3>3 DEF StatesConfirmed
  <2> QED
    BY <2>4, <2>5
<1>15. ASSUME NEW x \in Selectives, SetSubscriptionToken(x) PROVE StatesConfirmed'
  <2>1. UNCHANGED <<status, subscribed, everAvailable, loop, states, confirmed, pushed>>
    BY <1>15 DEF SetSubscriptionToken, told
  <2>2. app.event \notin Attributes \cup Broadcasts
    BY <1>15, SetsSubscriptionToken DEF Moves
  <2> QED
    BY <2>1, <2>2, StatesKept
<1>16. ASSUME NEW x \in Selectives, RequestSubscription(x) PROVE StatesConfirmed'
  <2>1. UNCHANGED <<status, subscribed, everAvailable, loop, states, confirmed, pushed>>
    BY <1>16 DEF RequestSubscription, proxyVars, told
  <2>2. app.event \notin Attributes \cup Broadcasts
    BY <1>16, RequestsSubscription DEF Finishes
  <2> QED
    BY <2>1, <2>2, StatesKept
<1>17. CASE PushInform
  <2>1. UNCHANGED <<status, subscribed, everAvailable, loop, states, confirmed>>
    BY <1>17 DEF PushInform, proxyVars, told
  <2>2. app.event = StatusEvent
    BY <1>17, PushesInform DEF Finishes
  <2>3. PICK f \in Functions : Pushes({f}, {f})
    BY <1>17, InformPushes
  <2> QED
    BY <2>1, <2>2, <2>3, StatesKept
<1>18. ASSUME NEW e \in Events, NEW t \in Tags, Unsubscribe(e, t) PROVE StatesConfirmed'
  <2>1. /\ UNCHANGED <<status, everAvailable, loop, pushed>> /\ confirmed' = confirmed \ {t}
        /\ states' = states \ (IF e \notin Legacy THEN {t}
                              ELSE IF subscribed[e] = {t} THEN {internal[e]} ELSE {})
    BY <1>18 DEF Unsubscribe
  <2>2. /\ app = Idle /\ t \in subscribed[e]
        /\ subscribed' = [f \in Events |-> IF f = e THEN subscribed[e] \ {t} ELSE subscribed[f]]
    BY <1>18, Unsubscribes
  <2> SUFFICES ASSUME NEW y \in Attributes \cup Broadcasts, NEW u \in subscribed'[y]
               PROVE  StateConfirmed(y, u)'
    BY DEF StatesConfirmed
  <2>3. u \in subscribed[y] /\ u # t
    BY <2>2 DEF TagsUnique
  <2>4. StateConfirmed(y, u) /\ ~Starting(y, u)
    BY <2>2, <2>3, IdleTyped DEF StatesConfirmed, Starting
  <2>5. u \in Tags
    BY <2>3 DEF TypeOK
  <2>6. e \in Legacy => u # internal[e]
    <3>1. CASE e \in Legacy /\ internal[e] # None
      <4>1. y # e
        BY <3>1
      <4> QED
        BY <2>3, <3>1, <4>1 DEF InternalTags
    <3> QED
      BY <2>5, <3>1
  <2>7. (u \in states => u \in states') /\ (u \in confirmed => u \in confirmed')
    BY <2>1, <2>3, <2>6
  <2> QED
    BY <2>1, <2>4, <2>7 DEF StateConfirmed, Confirms, IsAvailable
<1>19. CASE StatusReported
  <2>1. UNCHANGED <<subscribed, everAvailable, states, pushed, app>>
    BY <1>19 DEF StatusReported, proxyVars, appVars
  <2>2. CASE status' = status
    <3>1. UNCHANGED <<loop, confirmed>>
      BY <1>19, <2>2, StatusSet DEF told
    <3> QED
      BY <1>1, <2>1, <2>2, <3>1
  <2>3. CASE status' # status
    <3>1. loop = "idle" /\ loop' = "handlers" /\ confirmed' = IF IsAvailable THEN {}
          ELSE confirmed
      BY <1>19, <2>3, StatusSet
    <3>2. IsAvailable => everAvailable
      BY <3>1 DEF LoopKnown
    <3>3. ASSUME NEW y \in Attributes \cup Broadcasts, NEW u \in subscribed'[y]
          PROVE  StateConfirmed(y, u)'
      <4>1. StateConfirmed(y, u)
        BY <2>1 DEF StatesConfirmed
      <4>2. CASE Starting(y, u)
        BY <2>1, <4>2 DEF StateConfirmed, Starting
      <4>3. CASE ~Starting(y, u) /\ IsAvailable
        BY <2>1, <3>1, <3>2, <4>1, <4>3 DEF StateConfirmed
      <4>4. CASE ~Starting(y, u) /\ ~IsAvailable
        BY <2>1, <3>1, <4>1, <4>4 DEF StateConfirmed, Confirms
      <4> QED
        BY <4>2, <4>3, <4>4
    <3> QED
      BY <3>3 DEF StatesConfirmed
  <2> QED
    BY <2>2, <2>3
<1>20. CASE AddQueuedHandlers
  <2>1. UNCHANGED <<subscribed, everAvailable, states, pushed, app, status, confirmed>>
        /\ loop' = "selective"
    BY <1>20 DEF AddQueuedHandlers, appVars, told
  <2> QED
    BY <2>1 DEF StatesConfirmed, StateConfirmed, Starting, Confirms, IsAvailable
<1>21. CASE RemoveQueuedHandlers
  <2>1. UNCHANGED <<subscribed, everAvailable, states, pushed, app, status, confirmed>>
        /\ ~IsAvailable
    BY <1>21 DEF RemoveQueuedHandlers, appVars, told
  <2> QED
    BY <2>1 DEF StatesConfirmed, StateConfirmed, Starting, Confirms, IsAvailable
<1>22. CASE SendPendingSubscriptions
  <2>1. UNCHANGED <<subscribed, states, app, status, confirmed>>
    BY <1>22 DEF SendPendingSubscriptions, appVars, proxyVars, told
  <2> SUFFICES ASSUME NEW y \in Attributes \cup Broadcasts, NEW u \in subscribed'[y]
               PROVE  StateConfirmed(y, u)'
    BY DEF StatesConfirmed
  <2>2. StateConfirmed(y, u)
    BY <2>1 DEF StatesConfirmed
  <2>3. CASE Starting(y, u)
    BY <2>1, <2>3 DEF StateConfirmed, Starting
  <2>4. CASE everAvailable /\ u \in states
    <3>1. PICK f \in Functions : Pushes({f}, {f}) /\ f.kind = "states"
      BY <1>22, <2>4, PendingPushes
    <3>2. PICK n \in DOMAIN pushed' : pushed'[n] = f
      BY <3>1 DEF Pushes, Grows
    <3>3. Confirms(pushed'[n], u)
      BY <3>1, <3>2 DEF Confirms
    <3> QED
      BY <2>1, <2>4, <3>2, <3>3 DEF StateConfirmed, Confirms
  <2>5. CASE ~everAvailable /\ u \in states
    <3>1. UNCHANGED pushed
      BY <1>22, <2>5, PendingPushes
    <3>2. Starting(y, u) \/ u \in confirmed \/ \E k \in DOMAIN pushed : Confirms(pushed[k], u)
      BY <2>2, <2>5 DEF StateConfirmed
    <3> QED
      BY <2>1, <2>5, <3>1, <3>2 DEF StateConfirmed, Starting, Confirms
  <2> QED
    BY <2>2, <2>3, <2>4, <2>5 DEF StateConfirmed
<1>23. CASE SubscriptionAnswered
  <2>1. UNCHANGED <<status, subscribed, everAvailable, loop, states, pushed, app>>
        /\ confirmed \subseteq confirmed'
    BY <1>23 DEF SubscriptionAnswered, appVars
  <2> QED
    BY <2>1, StatesKept
<1>24. CASE NotifySpecificListener
  <2>1. UNCHANGED <<status, subscribed, everAvailable, loop, states, app, confirmed>>
    BY <1>24 DEF NotifySpecificListener, appVars
  <2>2. RunsOne /\ pushed[1].kind = "inform"
    BY <1>24, Runs DEF NotifySpecificListener
  <2>3. \A t : ~Confirms(pushed[1], t)
    BY <2>2 DEF Confirms
  <2> QED
    BY <2>1, <2>2, <2>3, StatesRun
<1>25. CASE HandleSignalStates
  <2>1. UNCHANGED <<status, subscribed, everAvailable, loop, states, app>>
    BY <1>25 DEF HandleSignalStates, appVars, proxyVars
  <2>2. RunsOne /\ pushed[1] = Head(pushed)
    BY <1>25, Runs
  <2>3. confirmed' = confirmed \cup (Live \cap (IF pushed[1].kind = "states" THEN states
        ELSE {pushed[1].tag}))
    BY <1>25, <2>2 DEF HandleSignalStates
  <2>4. \A t \in states \cap Live : Confirms(pushed[1], t) => t \in confirmed'
    BY <2>3 DEF Confirms
  <2> QED
    BY <2>1, <2>2, <2>3, <2>4, StatesRun
<1> QED
  BY StepOfNext, <1>2, <1>3, <1>4, <1>5, <1>6, <1>7, <1>8, <1>9, <1>10, <1>11,
    <1>12, <1>13, <1>14, <1>15, <1>16, <1>17, <1>18, <1>19, <1>20, <1>21,
    <1>22, <1>23, <1>24, <1>25 DEF Step

-----------------------------------------------------------------------------
(* The answers to the subscriptions of selective events.                   *)

(* They come as before when somebody else takes a step.                    *)
LEMMA RequestsKept ==
  ASSUME RequestsAnswered, UNCHANGED <<status, subscribed>>, loop' = "idle" => loop = "idle",
         \A x \in Selectives : selective'[x] = selective[x] \/ selective'[x] \notin subscribed[x],
         confirmed \subseteq confirmed', refused \subseteq refused',
         UNCHANGED app \/ app.pc # "request",
         NEW N, UNCHANGED incoming \/ Receives(N, N),
         NEW M, UNCHANGED outgoing \/ Sends(M, M)
  PROVE  RequestsAnswered'
<1> SUFFICES ASSUME IsAvailable', loop' = "idle", NEW y \in Selectives, NEW u \in subscribed'[y],
                    selective'[y] = u
             PROVE  RequestAnswered(y, u)'
  BY DEF RequestsAnswered
<1>1. RequestAnswered(y, u)
  BY DEF RequestsAnswered, IsAvailable
<1>2. DOMAIN incoming \subseteq DOMAIN incoming'
      /\ \A k \in DOMAIN incoming : incoming'[k] = incoming[k]
  BY DEF Receives, Grows
<1>3. DOMAIN outgoing \subseteq DOMAIN outgoing'
      /\ \A k \in DOMAIN outgoing : outgoing'[k] = outgoing[k]
  BY DEF Sends, Grows
<1>4. CASE At(y, "request") \/ u \in confirmed \cup refused
  BY <1>4 DEF RequestAnswered, At
<1>5. CASE \E k \in DOMAIN outgoing : RequestOf(outgoing[k], u)
  <2>1. PICK k \in DOMAIN outgoing : RequestOf(outgoing[k], u)
    BY <1>5
  <2> QED
    BY <1>3, <2>1 DEF RequestAnswered, RequestOf
<1>6. CASE \E k \in DOMAIN incoming : RequestOf(incoming[k], u)
  <2>1. PICK k \in DOMAIN incoming : RequestOf(incoming[k], u)
    BY <1>6
  <2> QED
    BY <1>2, <2>1 DEF RequestAnswered, RequestOf
<1> QED
  BY <1>1, <1>4, <1>5, <1>6 DEF RequestAnswered

(* Or when the loop takes a message that does not answer them.             *)
LEMMA RequestsTaken ==
  ASSUME TypeOK, RequestsAnswered, UNCHANGED <<status, subscribed, loop, selective, app,
         outgoing>>,
         confirmed \subseteq confirmed', refused \subseteq refused', TakesOne,
         \A t \in Live : RequestOf(incoming[1], t) => t \in confirmed' \cup refused'
  PROVE  RequestsAnswered'
<1> SUFFICES ASSUME IsAvailable', loop' = "idle", NEW y \in Selectives, NEW u \in subscribed'[y],
                    selective'[y] = u
             PROVE  RequestAnswered(y, u)'
  BY DEF RequestsAnswered
<1>1. RequestAnswered(y, u) /\ u \in Live
  BY DEF RequestsAnswered, IsAvailable, Live
<1>2. /\ \A k \in DOMAIN incoming : k > 1 => k - 1 \in DOMAIN incoming'
           /\ incoming'[k - 1] = incoming[k]
      /\ DOMAIN incoming \subseteq Nat \ {0}
  BY SequencesTyped DEF TakesOne, Shrinks
<1>3. CASE At(y, "request") \/ u \in confirmed \cup refused
  BY <1>3 DEF RequestAnswered, At
<1>4. CASE \E k \in DOMAIN outgoing : RequestOf(outgoing[k], u)
  BY <1>4 DEF RequestAnswered, RequestOf
<1>5. CASE \E k \in DOMAIN incoming : RequestOf(incoming[k], u)
  <2>1. PICK k \in DOMAIN incoming : RequestOf(incoming[k], u)
    BY <1>5
  <2>2. CASE k = 1
    BY <1>1, <2>1, <2>2 DEF RequestAnswered
  <2>3. CASE k > 1
    <3>1. k - 1 \in DOMAIN incoming' /\ RequestOf(incoming'[k - 1], u)
      BY <1>2, <2>1, <2>3
    <3> QED
      BY <3>1 DEF RequestAnswered, RequestOf
  <2> QED
    BY <1>2, <2>2, <2>3
<1> QED
  BY <1>1, <1>3, <1>4, <1>5 DEF RequestAnswered

(* Every request that an entry stands for stays answered, or about to be.  *)
LEMMA RequestsStayAnswered ==
  ASSUME TypeOK, AppInPlace, MessagesShaped, OneUnsubscribe, TagsUnique,
    EntriesKnown, RequestsAnswered, [Next]_vars
  PROVE  RequestsAnswered'
<1>1. ASSUME UNCHANGED <<status, subscribed, loop, selective, confirmed, refused, incoming,
             outgoing>>,
              UNCHANGED app \/ (app.pc \notin {"request"} /\ app'.pc \notin {"request"})
       PROVE  RequestsAnswered'
  BY <1>1 DEF RequestsAnswered, At, RequestAnswered, RequestOf, IsAvailable
<1>2. CASE UNCHANGED vars
  BY <1>1, <1>2 DEF vars, busVars, proxyVars, appVars, told
<1>3. CASE NotifySpecificListener
  BY <1>1, <1>3 DEF NotifySpecificListener, busVars, appVars
<1>4. ASSUME NEW x \in Attributes, AddHandler(x) PROVE RequestsAnswered'
  BY <1>1, <1>4, IdleTyped, AddsHandler DEF AddHandler, busVars, proxyVars,
    told, Moves, Finishes
<1>5. ASSUME NEW e \in Events, InstallHandler(e) PROVE RequestsAnswered'
  BY <1>1, <1>5, IdleTyped, InstallsHandler DEF InstallHandler, busVars, told,
    Moves, Finishes
<1>6. ASSUME NEW x \in Attributes, AddToQueue(x) PROVE RequestsAnswered'
  BY <1>1, <1>6, IdleTyped, AddsToQueue DEF AddToQueue, busVars, told, Moves,
    Finishes
<1>7. ASSUME NEW e \in Events, AddSignalStateHandler(e) PROVE RequestsAnswered'
  BY <1>1, <1>7, IdleTyped, AddsSignalStateHandler DEF AddSignalStateHandler,
    busVars, told, Moves, Finishes
<1>8. CASE PushInform
  BY <1>1, <1>8, IdleTyped, PushesInform DEF PushInform, busVars, proxyVars,
    told, Moves, Finishes
<1>9. ASSUME NEW x \in Attributes, RemoveFromQueue(x) PROVE RequestsAnswered'
  BY <1>1, <1>9, IdleTyped, RemovesFromQueue DEF RemoveFromQueue, busVars,
    told, Moves, Finishes
<1>10. ASSUME NEW e \in Events, RemoveHandler(e) PROVE RequestsAnswered'
  BY <1>1, <1>10, IdleTyped, RemovesHandler DEF RemoveHandler, busVars, told,
    Moves, Finishes
<1>11. ASSUME NEW e \in Events, Subscribe(e) PROVE RequestsAnswered'
  <2>1. /\ app = Idle /\ nextTag' = nextTag + 1
        /\ subscribed' = [f \in Events |-> IF f = e THEN subscribed[e] \cup {nextTag}
             ELSE subscribed[f]]
    BY <1>11, Subscribes
  <2>2. UNCHANGED <<status, loop, selective, confirmed, refused, incoming, outgoing>>
    BY <1>11 DEF Subscribe, proxyVars, told, busVars
  <2> SUFFICES ASSUME IsAvailable', loop' = "idle", NEW y \in Selectives,
    NEW u \in subscribed'[y],
                      selective'[y] = u
               PROVE  RequestAnswered(y, u)'
    BY DEF RequestsAnswered
  <2>3. u \in Tags
    BY <2>1, <1>11, Subscribes, AppTyped
  <2>4. u < nextTag
    BY <2>2, <2>3 DEF EntriesKnown
  <2>5. u \in subscribed[y]
    <3>1. u # nextTag
      BY <2>4, AppTyped
    <3> QED
      BY <2>1, <3>1
  <2>6. RequestAnswered(y, u) /\ ~At(y, "request")
    BY <2>1, <2>2, <2>5, IdleTyped DEF RequestsAnswered, IsAvailable, At
  <2> QED
    BY <2>2, <2>6 DEF RequestAnswered, RequestOf
<1>12. ASSUME NEW e \in Events, GetCurrentValue(e) PROVE RequestsAnswered'
  <2>1. UNCHANGED <<status, subscribed, loop, selective, confirmed, refused, incoming>>
    BY <1>12 DEF GetCurrentValue, proxyVars, told
  <2>2. app.pc # "request"
    BY <1>12 DEF GetCurrentValue, At
  <2> DEFINE m == Call("initial", e, app.tag)
  <2>3. UNCHANGED outgoing \/ Sends({m}, {m})
    BY <1>12, GetsSends
  <2> HIDE DEF m
  <2> QED
    BY <2>1, <2>2, <2>3, RequestsKept
<1>13. ASSUME NEW x \in Selectives, SetSubscriptionToken(x) PROVE RequestsAnswered'
  <2>1. UNCHANGED <<status, subscribed, loop, confirmed, refused, incoming, outgoing>>
    BY <1>13 DEF SetSubscriptionToken, told, busVars
  <2>2. app.event = x /\ app.pc = "token" /\ app'.event = x /\ app'.pc = "request"
    BY <1>13, SetsSubscriptionToken DEF Moves
  <2>3. \A y \in Selectives : y # x => selective'[y] = selective[y]
    BY <1>13 DEF SetSubscriptionToken, InsertSelectiveSubscription, TypeOK
  <2> SUFFICES ASSUME IsAvailable', loop' = "idle", NEW y \in Selectives,
    NEW u \in subscribed'[y],
                      selective'[y] = u
               PROVE  RequestAnswered(y, u)'
    BY DEF RequestsAnswered
  <2>4. CASE y = x
    BY <2>2, <2>4 DEF RequestAnswered, At
  <2>5. CASE y # x
    <3>1. RequestAnswered(y, u) /\ ~At(y, "request")
      BY <2>1, <2>2, <2>3, <2>5 DEF RequestsAnswered, IsAvailable, At
    <3> QED
      BY <2>1, <3>1 DEF RequestAnswered, RequestOf
  <2> QED
    BY <2>4, <2>5
<1>14. ASSUME NEW x \in Selectives, RequestSubscription(x) PROVE RequestsAnswered'
  <2>1. UNCHANGED <<status, subscribed, loop, selective, confirmed, refused, incoming>>
    BY <1>14 DEF RequestSubscription, proxyVars, told
  <2>2. app.event = x /\ app.pc = "request"
    BY <1>14 DEF RequestSubscription, At
  <2> SUFFICES ASSUME IsAvailable', loop' = "idle", NEW y \in Selectives,
    NEW u \in subscribed'[y],
                      selective'[y] = u
               PROVE  RequestAnswered(y, u)'
    BY DEF RequestsAnswered
  <2>3. IsAvailable /\ RequestAnswered(y, u) /\ u = selective[y]
    BY <2>1 DEF RequestsAnswered, IsAvailable
  <2> DEFINE m == Call("subscribe", x, app.tag)
  <2>4. m.kind = "subscribe" /\ m.tag = app.tag
    BY DEF Call, Message
  <2>5. Sends({m}, {m})
    BY <1>14, <2>3, RequestSends
  <2> HIDE DEF m
  <2>6. DOMAIN outgoing \subseteq DOMAIN outgoing'
        /\ \A k \in DOMAIN outgoing : outgoing'[k] = outgoing[k]
    BY <2>5 DEF Sends, Grows
  <2>7. CASE y = x
    <3>1. selective[y] = app.tag
      BY <2>2, <2>7 DEF EntriesKnown, At
    <3>2. PICK k \in DOMAIN outgoing' : outgoing'[k] = m
      BY <2>5 DEF Sends, Grows
    <3>3. RequestOf(outgoing'[k], u)
      BY <2>3, <2>4, <3>1, <3>2 DEF RequestOf, Requests
    <3> QED
      BY <3>2, <3>3 DEF RequestAnswered, RequestOf
  <2>8. CASE u \in confirmed \cup refused \/ \E k \in DOMAIN incoming : RequestOf(incoming[k], u)
    BY <2>1, <2>8 DEF RequestAnswered, RequestOf
  <2>9. CASE \E k \in DOMAIN outgoing : RequestOf(outgoing[k], u)
    <3>1. PICK k \in DOMAIN outgoing : RequestOf(outgoing[k], u)
      BY <2>9
    <3> QED
      BY <2>6, <3>1 DEF RequestAnswered, RequestOf
  <2>10. y # x => ~At(y, "request")
    BY <2>2 DEF At
  <2> QED
    BY <2>3, <2>7, <2>8, <2>9, <2>10 DEF RequestAnswered
<1>15. ASSUME NEW e \in Events, NEW t \in Tags, Unsubscribe(e, t) PROVE RequestsAnswered'
  <2>1. /\ UNCHANGED <<status, loop, selective, incoming, outgoing>>
        /\ confirmed' = confirmed \ {t} /\ refused' = refused \ {t}
    BY <1>15 DEF Unsubscribe, busVars
  <2>2. /\ app = Idle /\ t \in subscribed[e]
        /\ subscribed' = [f \in Events |-> IF f = e THEN subscribed[e] \ {t} ELSE subscribed[f]]
    BY <1>15, Unsubscribes
  <2> SUFFICES ASSUME IsAvailable', loop' = "idle", NEW y \in Selectives,
    NEW u \in subscribed'[y],
                      selective'[y] = u
               PROVE  RequestAnswered(y, u)'
    BY DEF RequestsAnswered
  <2>3. u \in subscribed[y] /\ u # t
    BY <2>2 DEF TagsUnique
  <2>4. RequestAnswered(y, u) /\ ~At(y, "request")
    BY <2>1, <2>2, <2>3, IdleTyped DEF RequestsAnswered, IsAvailable, At
  <2> QED
    BY <2>1, <2>3, <2>4 DEF RequestAnswered, RequestOf
<1>16. ASSUME NEW x \in Selectives, CallUnsubscribe(x) PROVE RequestsAnswered'
  <2>1. UNCHANGED <<status, subscribed, loop, selective, confirmed, refused, incoming>>
    BY <1>16 DEF CallUnsubscribe, proxyVars, told
  <2>2. app.pc # "request"
    BY <1>16 DEF CallUnsubscribe, At
  <2> DEFINE m == Call("unsubscribe", x, None)
  <2>3. UNCHANGED outgoing \/ Sends({m}, {m})
    BY <1>16, UnsubscribeSends
  <2> HIDE DEF m
  <2> QED
    BY <2>1, <2>2, <2>3, RequestsKept
<1>17. ASSUME NEW x \in Selectives, EraseEntry(x) PROVE RequestsAnswered'
  <2>1. UNCHANGED <<status, subscribed, loop, confirmed, refused, incoming, outgoing>>
    BY <1>17 DEF EraseEntry, busVars, told
  <2>2. app.pc # "request"
    BY <1>17 DEF EraseEntry, At
  <2>3. \A y \in Selectives : selective'[y] = selective[y] \/ selective'[y] = None
    BY <1>17 DEF EraseEntry, TypeOK
  <2>4. \A y \in Selectives : None \notin subscribed[y]
    BY AppTyped
  <2>5. \A y \in Selectives : selective'[y] = selective[y] \/ selective'[y] \notin subscribed[y]
    BY <2>3, <2>4
  <2> QED
    BY <2>1, <2>2, <2>5, RequestsKept
<1>18. CASE StatusReported
  <2>1. UNCHANGED <<subscribed, selective, app, outgoing>>
    BY <1>18 DEF StatusReported, proxyVars, appVars
  <2>2. CASE status' = status
    <3>1. UNCHANGED <<loop, confirmed, refused>> /\ TakesOne /\ incoming[1].kind = "status"
      BY <1>18, <2>2, StatusSet DEF told
    <3>2. \A t \in Live : ~RequestOf(incoming[1], t)
      BY <3>1 DEF RequestOf, Requests
    <3> QED
      BY <2>1, <2>2, <3>1, <3>2, RequestsTaken
  <2>3. CASE status' # status
    BY <1>18, <2>3, StatusSet DEF RequestsAnswered
  <2> QED
    BY <2>2, <2>3
<1>19. CASE AddQueuedHandlers
  <2>1. loop' = "selective"
    BY <1>19 DEF AddQueuedHandlers
  <2> QED
    BY <2>1 DEF RequestsAnswered
<1>20. CASE RemoveQueuedHandlers
  <2>1. ~IsAvailable /\ UNCHANGED status
    BY <1>20 DEF RemoveQueuedHandlers
  <2> QED
    BY <2>1 DEF RequestsAnswered, IsAvailable
<1>21. CASE SendPendingSubscriptions
  <2>1. UNCHANGED <<subscribed, selective>>
    BY <1>21 DEF SendPendingSubscriptions, appVars, proxyVars
  <2> SUFFICES ASSUME NEW y \in Selectives, NEW u \in subscribed'[y], selective'[y] = u
               PROVE  RequestAnswered(y, u)'
    BY DEF RequestsAnswered
  <2>2. selective[y] = u /\ selective[y] # None
    BY <2>1, AppTyped
  <2>3. PICK m \in Resubscribes : m.kind = "resubscribe" /\ m.tag = u
    BY <2>2, ResubscribesTyped
  <2>4. PICK k \in DOMAIN outgoing' : outgoing'[k] = m
    BY <1>21, <2>3, PendingSends DEF Sends, Grows
  <2>5. RequestOf(outgoing'[k], u)
    BY <2>3, <2>4 DEF RequestOf, Requests
  <2> QED
    BY <2>4, <2>5 DEF RequestAnswered, RequestOf
<1>22. CASE ValueReceived
  <2>1. UNCHANGED <<status, subscribed, loop, selective, app, outgoing, confirmed, refused>>
    BY <1>22 DEF ValueReceived, appVars, proxyVars
  <2>2. TakesOne /\ incoming[1].kind \in {"get", "initial"}
    BY <1>22, Dispatches DEF ValueReceived
  <2>3. \A t \in Live : ~RequestOf(incoming[1], t)
    BY <2>2 DEF RequestOf, Requests
  <2> QED
    BY <2>1, <2>2, <2>3, RequestsTaken
<1>23. CASE SubscriptionAnswered
  <2>1. UNCHANGED <<status, subscribed, loop, selective, app, outgoing>>
    BY <1>23 DEF SubscriptionAnswered, appVars
  <2>2. TakesOne /\ incoming[1] = Head(incoming)
    BY <1>23, Dispatches
  <2>3. \/ confirmed' = confirmed \cup (Live \cap {incoming[1].tag}) /\ UNCHANGED refused
        \/ refused' = refused \cup (Live \cap {incoming[1].tag}) /\ UNCHANGED confirmed
    BY <1>23, <2>2 DEF SubscriptionAnswered
  <2>4. \A t \in Live : RequestOf(incoming[1], t) => t \in confirmed' \cup refused'
    BY <2>3 DEF RequestOf
  <2>5. confirmed \subseteq confirmed' /\ refused \subseteq refused'
    BY <2>3
  <2> QED
    BY <2>1, <2>2, <2>4, <2>5, RequestsTaken
<1>24. CASE HandleSignalStates
  <2>1. UNCHANGED <<status, subscribed, loop, selective, app, outgoing, incoming, refused>>
    BY <1>24 DEF HandleSignalStates, appVars, proxyVars, busVars
  <2>2. confirmed \subseteq confirmed'
    BY <1>24 DEF HandleSignalStates
  <2> QED
    BY <2>1, <2>2, RequestsKept
<1>25. CASE Serve
  <2>1. UNCHANGED <<status, subscribed, loop, selective, confirmed, refused>>
    BY <1>25 DEF Serve, proxyVars, told
  <2>2. /\ 1 \in DOMAIN outgoing /\ outgoing[1] = Head(outgoing)
        /\ \A k \in DOMAIN outgoing : k > 1 => k - 1 \in DOMAIN outgoing'
             /\ outgoing'[k - 1] = outgoing[k]
        /\ DOMAIN outgoing \subseteq Nat \ {0}
    BY <1>25, Serves, SequencesTyped DEF ServesOne, Shrinks
  <2>3. UNCHANGED app \/ app.pc # "request"
    BY <1>25, ServeMoves DEF Moves
  <2> SUFFICES ASSUME IsAvailable', loop' = "idle", NEW y \in Selectives,
    NEW u \in subscribed'[y],
                      selective'[y] = u
               PROVE  RequestAnswered(y, u)'
    BY DEF RequestsAnswered
  <2>4. RequestAnswered(y, u)
    BY <2>1 DEF RequestsAnswered, IsAvailable
  <2>5. \/ UNCHANGED incoming /\ outgoing[1].kind = "unsubscribe"
        \/ \E m \in Messages : Receives({m}, {m}) /\ m.kind = outgoing[1].kind
             /\ m.tag = outgoing[1].tag
    <3>1. CASE Head(outgoing).kind = "unsubscribe"
      BY <1>25, <2>2, <3>1, ServeMoves
    <3>2. CASE Head(outgoing).kind # "unsubscribe"
      <4>1. PICK m \in Messages :
              Receives({m}, {m}) /\ m.kind = Head(outgoing).kind /\ m.tag = Head(outgoing).tag
        BY <1>25, <3>2, ServeReceives, Zenon
      <4> QED
        BY <2>2, <4>1
    <3> QED
      BY <3>1, <3>2
  <2>6. DOMAIN incoming \subseteq DOMAIN incoming'
        /\ \A k \in DOMAIN incoming : incoming'[k] = incoming[k]
    BY <2>5 DEF Receives, Grows
  <2>7. CASE At(y, "request") \/ u \in confirmed \cup refused
    BY <2>1, <2>3, <2>7 DEF RequestAnswered, At
  <2>8. CASE \E k \in DOMAIN incoming : RequestOf(incoming[k], u)
    <3>1. PICK k \in DOMAIN incoming : RequestOf(incoming[k], u)
      BY <2>8
    <3> QED
      BY <2>6, <3>1 DEF RequestAnswered, RequestOf
  <2>9. CASE \E k \in DOMAIN outgoing : RequestOf(outgoing[k], u)
    <3>1. PICK k \in DOMAIN outgoing : RequestOf(outgoing[k], u)
      BY <2>9
    <3>2. CASE k > 1
      <4>1. k - 1 \in DOMAIN outgoing' /\ RequestOf(outgoing'[k - 1], u)
        BY <2>2, <3>1, <3>2
      <4> QED
        BY <4>1 DEF RequestAnswered, RequestOf
    <3>3. CASE k = 1
      <4>1. outgoing[1].kind # "unsubscribe"
        BY <3>1, <3>3 DEF RequestOf, Requests
      <4>2. PICK m \in Messages :
              Receives({m}, {m}) /\ m.kind = outgoing[1].kind /\ m.tag = outgoing[1].tag
        BY <2>5, <4>1, Zenon
      <4>3. PICK j \in DOMAIN incoming' : incoming'[j] = m
        BY <4>2 DEF Receives, Grows
      <4>4. RequestOf(incoming'[j], u)
        BY <3>1, <3>3, <4>2, <4>3 DEF RequestOf
      <4> QED
        BY <4>3, <4>4 DEF RequestAnswered, RequestOf
    <3> QED
      BY <2>2, <3>2, <3>3
  <2> QED
    BY <2>4, <2>7, <2>8, <2>9 DEF RequestAnswered
<1>26. CASE Toggle
  <2>1. UNCHANGED <<status, subscribed, loop, selective, app, outgoing, confirmed, refused>>
    BY <1>26 DEF Toggle, appVars, proxyVars, told
  <2>2. PICK m \in Messages : Receives({m}, {m})
    BY <1>26, ToggleReceives
  <2> QED
    BY <2>1, <2>2, RequestsKept
<1> QED
  BY StepOfNext, <1>2, <1>3, <1>4, <1>5, <1>6, <1>7, <1>8, <1>9, <1>10, <1>11,
    <1>12, <1>13, <1>14, <1>15, <1>16, <1>17, <1>18, <1>19, <1>20, <1>21,
    <1>22, <1>23, <1>24, <1>25, <1>26 DEF Step

-----------------------------------------------------------------------------
(* The listeners of the status.                                            *)

(* They know it as before while functions are pushed.                      *)
LEMMA StatusKept ==
  ASSUME StatusTold, UNCHANGED <<subscribed, listeners, status, heard, app>>,
         NEW N, UNCHANGED pushed \/ Pushes(N, N)
  PROVE  StatusTold'
<1> SUFFICES ASSUME NEW u \in subscribed'[StatusEvent]
             PROVE  Informed(u)'
  BY DEF StatusTold
<1>1. Informed(u)
  BY DEF StatusTold
<1>2. DOMAIN pushed \subseteq DOMAIN pushed' /\ \A k \in DOMAIN pushed : pushed'[k] = pushed[k]
  BY DEF Pushes, Grows
<1>3. CASE \E k \in DOMAIN pushed : ToBeInformed(pushed[k], u)
  <2>1. PICK k \in DOMAIN pushed : ToBeInformed(pushed[k], u)
    BY <1>3
  <2> QED
    BY <1>2, <2>1 DEF Informed, ToBeInformed
<1>4. CASE ~\E k \in DOMAIN pushed : ToBeInformed(pushed[k], u)
  BY <1>1, <1>4 DEF Informed, Starting
<1> QED
  BY <1>3, <1>4

(* Only the thread that adds one of them is about to have it told.         *)
LEMMA StatusAdds ==
  ASSUME TypeOK, AppInPlace, NEW t, Starting(StatusEvent, t)
  PROVE  app.event = StatusEvent /\ app.pc = "inform" /\ app.tag = t
BY DEF Starting, Arrives

(* Every listener of the status stays in the list and knows it, or will.   *)
LEMMA StatusStaysTold ==
  ASSUME TypeOK, AppInPlace, MessagesShaped, OneUnsubscribe, TagsUnique,
    StatusTold, [Next]_vars
  PROVE  StatusTold'
<1>1. ASSUME UNCHANGED <<subscribed, listeners, status, heard, pushed>>,
              UNCHANGED app \/ (app.pc \notin {"inform"} /\ app'.pc \notin {"inform"})
       PROVE  StatusTold'
  BY <1>1 DEF StatusTold, At, Informed, Starting, Arrives, ToBeInformed
<1>2. CASE UNCHANGED vars
  BY <1>1, <1>2 DEF vars, proxyVars, appVars, told
<1>3. CASE AddQueuedHandlers \/ RemoveQueuedHandlers \/ SubscriptionAnswered \/ Toggle
  BY <1>1, <1>3 DEF AddQueuedHandlers, RemoveQueuedHandlers,
    SubscriptionAnswered, Toggle, appVars, told, proxyVars
<1>4. ASSUME NEW x \in Attributes, AddHandler(x) PROVE StatusTold'
  BY <1>1, <1>4, IdleTyped, AddsHandler DEF AddHandler, proxyVars, told,
    Moves, Finishes
<1>5. ASSUME NEW e \in Events, InstallHandler(e) PROVE StatusTold'
  BY <1>1, <1>5, IdleTyped, InstallsHandler DEF InstallHandler, told, Moves,
    Finishes
<1>6. ASSUME NEW x \in Attributes, AddToQueue(x) PROVE StatusTold'
  BY <1>1, <1>6, IdleTyped, AddsToQueue DEF AddToQueue, told, Moves, Finishes
<1>7. ASSUME NEW e \in Events, GetCurrentValue(e) PROVE StatusTold'
  BY <1>1, <1>7, IdleTyped, GetsCurrentValue DEF GetCurrentValue, proxyVars,
    told, Moves, Finishes
<1>8. ASSUME NEW x \in Selectives, SetSubscriptionToken(x) PROVE StatusTold'
  BY <1>1, <1>8, IdleTyped, SetsSubscriptionToken DEF SetSubscriptionToken,
    told, Moves, Finishes
<1>9. ASSUME NEW x \in Selectives, RequestSubscription(x) PROVE StatusTold'
  BY <1>1, <1>9, IdleTyped, RequestsSubscription DEF RequestSubscription,
    proxyVars, told, Moves, Finishes
<1>10. ASSUME NEW x \in Attributes, RemoveFromQueue(x) PROVE StatusTold'
  BY <1>1, <1>10, IdleTyped, RemovesFromQueue DEF RemoveFromQueue, told,
    Moves, Finishes
<1>11. ASSUME NEW e \in Events, RemoveHandler(e) PROVE StatusTold'
  BY <1>1, <1>11, IdleTyped, RemovesHandler DEF RemoveHandler, told, Moves,
    Finishes
<1>12. ASSUME NEW x \in Selectives, CallUnsubscribe(x) PROVE StatusTold'
  BY <1>1, <1>12, IdleTyped, CallsUnsubscribe DEF CallUnsubscribe, proxyVars,
    told, Moves, Finishes
<1>13. ASSUME NEW x \in Selectives, EraseEntry(x) PROVE StatusTold'
  BY <1>1, <1>13, IdleTyped, ErasesEntry DEF EraseEntry, told, Moves, Finishes
<1>14. CASE Serve
  BY <1>1, <1>14, IdleTyped, ServeMoves DEF Serve, proxyVars, told, Moves,
    Finishes
<1>15. ASSUME NEW e \in Events, Subscribe(e) PROVE StatusTold'
  <2>1. /\ app = Idle /\ app'.event = e /\ app'.tag = nextTag
        /\ app'.pc = IF subscribed[e] = {} THEN OnFirstListenerAdded(e) ELSE OnListenerAdded(e)
        /\ subscribed' = [f \in Events |-> IF f = e THEN subscribed[e] \cup {nextTag}
             ELSE subscribed[f]]
    BY <1>15, Subscribes
  <2>2. UNCHANGED <<listeners, status, heard, pushed>>
    BY <1>15 DEF Subscribe, proxyVars, told
  <2> SUFFICES ASSUME NEW u \in subscribed'[StatusEvent]
               PROVE  Informed(u)'
    BY DEF StatusTold
  <2>3. CASE e = StatusEvent /\ u = nextTag
    <3>1. app'.pc = "inform"
      BY <2>1, <2>3 DEF OnFirstListenerAdded, OnListenerAdded
    <3> QED
      BY <2>1, <2>3, <3>1 DEF Informed, Starting, Arrives
  <2>4. CASE ~(e = StatusEvent /\ u = nextTag)
    <3>1. u \in subscribed[StatusEvent] /\ app.event # StatusEvent
      BY <2>1, <2>4, IdleTyped
    <3>2. Informed(u) /\ ~Starting(StatusEvent, u)
      BY <3>1 DEF StatusTold, Starting
    <3> QED
      BY <2>2, <3>2 DEF Informed, ToBeInformed
  <2> QED
    BY <2>3, <2>4
<1>16. ASSUME NEW e \in Events, AddSignalStateHandler(e) PROVE StatusTold'
  <2>1. UNCHANGED <<subscribed, listeners, status, heard>> /\ app.pc = "state"
    BY <1>16 DEF AddSignalStateHandler, told, At
  <2>2. PICK f \in Functions : Pushes({f}, {f})
    BY <1>16, StatePushes
  <2>3. DOMAIN pushed \subseteq DOMAIN pushed' /\ \A k \in DOMAIN pushed : pushed'[k] = pushed[k]
    BY <2>2 DEF Pushes, Grows
  <2> SUFFICES ASSUME NEW u \in subscribed'[StatusEvent]
               PROVE  Informed(u)'
    BY DEF StatusTold
  <2>4. Informed(u) /\ ~Starting(StatusEvent, u)
    BY <2>1, StatusAdds DEF StatusTold
  <2>5. CASE \E k \in DOMAIN pushed : ToBeInformed(pushed[k], u)
    <3>1. PICK k \in DOMAIN pushed : ToBeInformed(pushed[k], u)
      BY <2>5
    <3> QED
      BY <2>3, <3>1 DEF Informed, ToBeInformed
  <2>6. CASE ~\E k \in DOMAIN pushed : ToBeInformed(pushed[k], u)
    BY <2>1, <2>4, <2>6 DEF Informed
  <2> QED
    BY <2>5, <2>6
<1>17. CASE PushInform
  <2>1. UNCHANGED <<subscribed, listeners, status, heard>>
    BY <1>17 DEF PushInform, proxyVars, told
  <2>2. PICK f \in Functions : Pushes({f}, {f}) /\ f.kind = "inform" /\ f.tag = app.tag
    BY <1>17, InformPushes
  <2>3. DOMAIN pushed \subseteq DOMAIN pushed' /\ \A k \in DOMAIN pushed : pushed'[k] = pushed[k]
    BY <2>2 DEF Pushes, Grows
  <2>4. PICK n \in DOMAIN pushed' : pushed'[n] = f
    BY <2>2 DEF Pushes, Grows
  <2> SUFFICES ASSUME NEW u \in subscribed'[StatusEvent]
               PROVE  Informed(u)'
    BY DEF StatusTold
  <2>5. Informed(u)
    BY <2>1 DEF StatusTold
  <2>6. CASE Starting(StatusEvent, u)
    <3>1. ToBeInformed(pushed'[n], u)
      BY <2>2, <2>4, <2>6 DEF Starting, ToBeInformed
    <3> QED
      BY <2>4, <3>1 DEF Informed, ToBeInformed
  <2>7. CASE \E k \in DOMAIN pushed : ToBeInformed(pushed[k], u)
    <3>1. PICK k \in DOMAIN pushed : ToBeInformed(pushed[k], u)
      BY <2>7
    <3> QED
      BY <2>3, <3>1 DEF Informed, ToBeInformed
  <2>8. CASE u \in listeners /\ (status # "UNKNOWN" => heard[u] = status)
    BY <2>1, <2>8 DEF Informed
  <2> QED
    BY <2>5, <2>6, <2>7, <2>8 DEF Informed
<1>18. ASSUME NEW e \in Events, NEW t \in Tags, Unsubscribe(e, t) PROVE StatusTold'
  <2>1. /\ UNCHANGED <<status, pushed>> /\ heard' = [heard EXCEPT ![t] = "nothing"]
        /\ listeners' = IF e = StatusEvent THEN listeners \ {t} ELSE listeners
    BY <1>18 DEF Unsubscribe
  <2>2. /\ app = Idle /\ t \in subscribed[e]
        /\ subscribed' = [f \in Events |-> IF f = e THEN subscribed[e] \ {t} ELSE subscribed[f]]
    BY <1>18, Unsubscribes
  <2> SUFFICES ASSUME NEW u \in subscribed'[StatusEvent]
               PROVE  Informed(u)'
    BY DEF StatusTold
  <2>3. u \in subscribed[StatusEvent] /\ u # t
    BY <2>2 DEF TagsUnique
  <2>4. Informed(u) /\ ~Starting(StatusEvent, u)
    BY <2>2, <2>3, IdleTyped DEF StatusTold, Starting
  <2>5. heard'[u] = heard[u] /\ (u \in listeners => u \in listeners')
    BY <2>1, <2>3 DEF TypeOK
  <2> QED
    BY <2>1, <2>4, <2>5 DEF Informed, ToBeInformed
<1>19. CASE StatusReported
  <2>1. UNCHANGED <<subscribed, listeners, pushed, app>>
    BY <1>19 DEF StatusReported, proxyVars, appVars
  <2>2. CASE status' = status
    <3>1. UNCHANGED heard
      BY <1>19, <2>2, StatusSet DEF told
    <3> QED
      BY <1>1, <2>1, <2>2, <3>1
  <2>3. CASE status' # status
    <3> SUFFICES ASSUME NEW u \in subscribed'[StatusEvent]
                 PROVE  Informed(u)'
      BY DEF StatusTold
    <3>1. Informed(u) /\ u \in Live /\ u \in Tags
      BY <2>1, AppTyped DEF StatusTold, Live
    <3>2. u \in listeners => heard'[u] = status'
      BY <1>19, <2>3, <3>1, StatusSet
    <3> QED
      BY <2>1, <3>1, <3>2 DEF Informed, Starting, ToBeInformed
  <2> QED
    BY <2>2, <2>3
<1>20. CASE SendPendingSubscriptions
  <2>1. UNCHANGED <<subscribed, listeners, status, heard, app>>
    BY <1>20 DEF SendPendingSubscriptions, proxyVars, appVars, told
  <2>2. CASE everAvailable
    <3>1. PICK f \in Functions : Pushes({f}, {f})
      BY <1>20, <2>2, PendingPushes
    <3> QED
      BY <2>1, <3>1, StatusKept
  <2>3. CASE ~everAvailable
    BY <1>20, <1>1, <2>1, <2>3, PendingPushes
  <2> QED
    BY <2>2, <2>3
<1>21. CASE ValueReceived
  <2>1. UNCHANGED <<subscribed, listeners, status, pushed, app>>
    BY <1>21 DEF ValueReceived, proxyVars, appVars
  <2>2. incoming[1] = Head(incoming) /\ 1 \in DOMAIN incoming
    BY <1>21, Dispatches
  <2>3. /\ incoming[1].kind \in {"get", "initial"}
        /\ heard' = [t \in Tags |-> IF incoming[1].answer = "yes" /\ t \in Reached(incoming[1])
             THEN "value"
                                    ELSE heard[t]]
    BY <1>21, <2>2 DEF ValueReceived
  <2> SUFFICES ASSUME NEW u \in subscribed'[StatusEvent]
               PROVE  Informed(u)'
    BY DEF StatusTold
  <2>4. Informed(u) /\ u \in Tags /\ u \in subscribed[StatusEvent]
    BY <2>1, AppTyped DEF StatusTold
  <2>5. incoming[1].event \in Signalled
    BY <2>2, <2>3 DEF MessagesShaped, Shaped
  <2>6. u \notin Reached(incoming[1])
    BY <2>4, <2>5 DEF Reached, TagsUnique
  <2>7. heard'[u] = heard[u]
    BY <2>3, <2>4, <2>6
  <2> QED
    BY <2>1, <2>4, <2>7 DEF Informed, Starting, ToBeInformed
<1>22. CASE NotifySpecificListener
  <2>1. UNCHANGED <<subscribed, status, app>>
    BY <1>22 DEF NotifySpecificListener, appVars
  <2>2. /\ 1 \in DOMAIN pushed /\ pushed[1] = Head(pushed)
        /\ \A k \in DOMAIN pushed : k > 1 => k - 1 \in DOMAIN pushed'
             /\ pushed'[k - 1] = pushed[k]
        /\ DOMAIN pushed \subseteq Nat \ {0}
    BY <1>22, Runs, SequencesTyped DEF RunsOne, Shrinks
  <2>3. /\ listeners' = listeners \cup {pushed[1].tag}
        /\ heard' = IF pushed[1].tag \in Live /\ status # "UNKNOWN"
                    THEN [heard EXCEPT ![pushed[1].tag] = status] ELSE heard
    BY <1>22, <2>2 DEF NotifySpecificListener
  <2> SUFFICES ASSUME NEW u \in subscribed'[StatusEvent]
               PROVE  Informed(u)'
    BY DEF StatusTold
  <2>4. Informed(u) /\ u \in Live /\ u \in Tags
    BY <2>1, AppTyped DEF StatusTold, Live
  <2>5. CASE u = pushed[1].tag
    BY <2>1, <2>3, <2>4, <2>5 DEF Informed, TypeOK
  <2>6. CASE u # pushed[1].tag
    <3>1. heard'[u] = heard[u]
      BY <2>3, <2>6 DEF TypeOK
    <3>2. CASE \E k \in DOMAIN pushed : ToBeInformed(pushed[k], u)
      <4>1. PICK k \in DOMAIN pushed : ToBeInformed(pushed[k], u)
        BY <3>2
      <4>2. k # 1
        BY <2>6, <4>1 DEF ToBeInformed
      <4>3. k > 1
        BY <2>2, <4>2
      <4>4. k - 1 \in DOMAIN pushed' /\ ToBeInformed(pushed'[k - 1], u)
        BY <2>2, <4>1, <4>3
      <4> QED
        BY <4>4 DEF Informed, ToBeInformed
    <3>3. CASE ~\E k \in DOMAIN pushed : ToBeInformed(pushed[k], u)
      BY <2>1, <2>3, <2>4, <3>1, <3>3 DEF Informed, Starting
    <3> QED
      BY <3>2, <3>3
  <2> QED
    BY <2>5, <2>6
<1>23. CASE HandleSignalStates
  <2>1. UNCHANGED <<subscribed, listeners, status, heard, app>>
    BY <1>23 DEF HandleSignalStates, proxyVars, appVars
  <2>2. /\ 1 \in DOMAIN pushed /\ pushed[1] = Head(pushed)
        /\ \A k \in DOMAIN pushed : k > 1 => k - 1 \in DOMAIN pushed'
             /\ pushed'[k - 1] = pushed[k]
        /\ DOMAIN pushed \subseteq Nat \ {0}
    BY <1>23, Runs, SequencesTyped DEF RunsOne, Shrinks
  <2>3. pushed[1].kind # "inform"
    BY <1>23, <2>2 DEF HandleSignalStates
  <2> SUFFICES ASSUME NEW u \in subscribed'[StatusEvent]
               PROVE  Informed(u)'
    BY DEF StatusTold
  <2>4. Informed(u)
    BY <2>1 DEF StatusTold
  <2>5. CASE \E k \in DOMAIN pushed : ToBeInformed(pushed[k], u)
    <3>1. PICK k \in DOMAIN pushed : ToBeInformed(pushed[k], u)
      BY <2>5
    <3>2. k # 1
      BY <2>3, <3>1 DEF ToBeInformed
    <3>3. k > 1
      BY <2>2, <3>2
    <3>4. k - 1 \in DOMAIN pushed' /\ ToBeInformed(pushed'[k - 1], u)
      BY <2>2, <3>1, <3>3
    <3> QED
      BY <3>4 DEF Informed, ToBeInformed
  <2>6. CASE ~\E k \in DOMAIN pushed : ToBeInformed(pushed[k], u)
    BY <2>1, <2>4, <2>6 DEF Informed, Starting
  <2> QED
    BY <2>5, <2>6
<1> QED
  BY StepOfNext, <1>2, <1>3, <1>4, <1>5, <1>6, <1>7, <1>8, <1>9, <1>10, <1>11,
    <1>12, <1>13, <1>14, <1>15, <1>16, <1>17, <1>18, <1>19, <1>20, <1>21,
    <1>22, <1>23 DEF Step

-----------------------------------------------------------------------------
(* All of it.                                                              *)

(* At the beginning nobody listens, and the status is on its way.          *)
LEMMA InitTyped ==
  ASSUME Init
  PROVE  TypeOK
<1>1. incoming \in Seq(Messages)
  <2>1. Report("AVAILABLE") \in Messages /\ Report("NOT_AVAILABLE") \in Messages
    BY CallsTyped DEF Statuses
  <2> QED
    BY <2>1 DEF Init
<1>2. outgoing \in Seq(Messages) /\ pushed \in Seq(Functions)
  BY DEF Init
<1>3. app \in AppTypes
  BY IdleTyped DEF Init
<1>4. /\ queue \in [Attributes -> {"absent", "pending", "added"}]
      /\ selective \in [Selectives -> Tags \cup {None}]
           /\ internal \in [Legacy -> Tags \cup {None}]
      /\ subscribed \in [Events -> SUBSET Tags]
      /\ heard \in [Tags -> Statuses \cup {"value", "nothing"}]
  BY DEF Init
<1>5. service \in {"up", "down"} /\ toggles \in 0 .. MaxToggles /\ nextTag \in 1 .. MaxTags + 1
  BY DEF Init
<1>6. /\ subscribers \subseteq Selectives /\ installed \subseteq Signalled
      /\ states \subseteq Tags /\ listeners \subseteq Tags
      /\ confirmed \subseteq Tags /\ refused \subseteq Tags
      /\ denied \subseteq Selectives /\ overtaken \subseteq Signalled
  BY DEF Init
<1>7. status \in Statuses /\ everAvailable \in BOOLEAN
      /\ loop \in {"idle", "handlers", "selective"}
  BY DEF Init, Statuses
<1> QED
  BY <1>1, <1>2, <1>3, <1>4, <1>5, <1>6, <1>7 DEF TypeOK, AppTypes

(* The invariant holds there.                                              *)
LEMMA InitHolds ==
  ASSUME Init
  PROVE  Inv
<1>1. TypeOK
  BY InitTyped
<1>2. /\ app = Idle /\ outgoing = <<>> /\ pushed = <<>> /\ loop = "idle" /\ ~IsAvailable
      /\ subscribers = {} /\ installed = {} /\ listeners = {} /\ status = "UNKNOWN"
      /\ \A e \in Events : subscribed[e] = {}
      /\ \A x \in Attributes : queue[x] = "absent"
      /\ \A x \in Selectives : selective[x] = None
      /\ \A x \in Legacy : internal[x] = None
  BY DEF Init, IsAvailable
<1>3. \A e \in Events : \A pc : ~At(e, pc)
  BY <1>2, IdleTyped DEF At
<1>4. DOMAIN outgoing = {} /\ DOMAIN pushed = {}
  BY <1>2
<1>5. /\ DOMAIN incoming = {1}
      /\ incoming[1] = Report(IF service = "up" THEN "AVAILABLE" ELSE "NOT_AVAILABLE")
  BY DEF Init
<1>6. /\ incoming[1].kind = "status"
      /\ incoming[1].answer = IF service = "up" THEN "AVAILABLE" ELSE "NOT_AVAILABLE"
  BY <1>5 DEF Report, Message
<1>7. AppInPlace /\ FirstAlone
  BY <1>2, <1>3 DEF AppInPlace, FirstAlone, Entering
<1>8. MessagesShaped /\ OneUnsubscribe
  BY <1>4, <1>5, <1>6 DEF MessagesShaped, OneUnsubscribe, Shaped, Requests
<1>9. TagsUnique /\ StatusTags
  BY <1>2, <1>4 DEF TagsUnique, StatusTags
<1>10. InternalTags /\ EntriesKnown
  BY <1>2, <1>3 DEF InternalTags, EntriesKnown
<1>11. QueueMatches /\ QueueFollows
  BY <1>2, <1>3 DEF QueueMatches, QueueFollows, TupleMatches, TupleFollows, Entering
<1>12. HandlersGone /\ HandlersKept
  BY <1>2, <1>3 DEF HandlersGone, HandlersKept
<1>13. Withdrawn
  BY <1>2, <1>4 DEF Withdrawn, Ended
<1>14. ReportsFollow /\ LoopKnown
  BY <1>2, <1>5, <1>6 DEF ReportsFollow, LoopKnown, Reports
<1>15. ValuesPromised /\ StatesConfirmed /\ RequestsAnswered /\ StatusTold
  BY <1>2 DEF ValuesPromised, StatesConfirmed, RequestsAnswered, StatusTold
<1> QED
  BY <1>1, <1>7, <1>8, <1>9, <1>10, <1>11, <1>12, <1>13, <1>14, <1>15 DEF Inv

(* The types of all variables.                                             *)
LEMMA TypesStay ==
  ASSUME TypeOK, AppInPlace, MessagesShaped, OneUnsubscribe, StatusTags, [Next]_vars
  PROVE  TypeOK'
<1>1. /\ BusOK /\ OutgoingOK /\ IncomingOK /\ PushedOK /\ LoopOK /\ HandlersOK
      /\ TablesOK /\ AppOK /\ TagsOK /\ HeardOK /\ ToldOK
  BY TypesSplit
<1>2. BusOK' /\ OutgoingOK' /\ IncomingOK' /\ PushedOK'
  BY <1>1, BusTyped, OutgoingTyped, IncomingTyped, PushedTyped
<1>3. LoopOK' /\ HandlersOK' /\ TablesOK' /\ AppOK'
  BY <1>1, LoopTyped, HandlersTyped, TablesTyped, AppInTypes
<1>4. TagsOK' /\ HeardOK' /\ ToldOK'
  BY <1>1, TagsTyped, HeardTyped, ToldTyped
<1> QED
  BY <1>2, <1>3, <1>4 DEF TypeOK, BusOK, OutgoingOK, IncomingOK, PushedOK, LoopOK, HandlersOK,
    TablesOK, AppOK, TagsOK, HeardOK, ToldOK, AppTypes

(* Every step keeps the invariant.                                         *)
LEMMA Inductive ==
  ASSUME Inv, [Next]_vars
  PROVE  Inv'
<1>1. /\ TypeOK /\ AppInPlace /\ FirstAlone /\ MessagesShaped /\ OneUnsubscribe
      /\ TagsUnique /\ StatusTags /\ InternalTags /\ EntriesKnown
      /\ QueueMatches /\ QueueFollows /\ HandlersGone /\ HandlersKept
      /\ Withdrawn /\ ReportsFollow /\ LoopKnown
      /\ ValuesPromised /\ StatesConfirmed /\ RequestsAnswered /\ StatusTold
  BY DEF Inv
<1>2. TypeOK' /\ AppInPlace' /\ FirstAlone'
  BY <1>1, TypesStay, AppStaysInPlace, FirstStaysAlone
<1>3. MessagesShaped' /\ OneUnsubscribe'
  BY <1>1, MessagesStayShaped, OneUnsubscribeOnly
<1>4. TagsUnique' /\ StatusTags' /\ InternalTags' /\ EntriesKnown'
  BY <1>1, TagsStayUnique, StatusTagsKept, InternalTagsKept, EntriesStayKnown
<1>5. QueueMatches' /\ QueueFollows'
  BY <1>1, QueueStaysMatched, QueueStaysInStep
<1>6. HandlersGone' /\ HandlersKept' /\ Withdrawn'
  BY <1>1, HandlersStayGone, HandlersStayInstalled, SubscriptionsWithdrawn
<1>7. ReportsFollow' /\ LoopKnown'
  BY <1>1, ReportsStayBehind, LoopStaysKnown
<1>8. ValuesPromised' /\ StatesConfirmed'
  BY <1>1, ValuesStayPromised, StatesStayConfirmed
<1>9. RequestsAnswered' /\ StatusTold'
  BY <1>1, RequestsStayAnswered, StatusStaysTold
<1> QED
  BY <1>2, <1>3, <1>4, <1>5, <1>6, <1>7, <1>8, <1>9 DEF Inv

(* The invariant always holds.                                             *)
LEMMA Invariant == Spec => []Inv
<1>1. Init => Inv
  BY InitHolds
<1>2. Inv /\ [Next]_vars => Inv'
  BY Inductive
<1> QED
  BY <1>1, <1>2, PTL DEF Spec

(* When nothing is under way, every sequence is empty and no event is.     *)
LEMMA Resting ==
  ASSUME Rest
  PROVE  /\ DOMAIN incoming = {} /\ DOMAIN outgoing = {} /\ DOMAIN pushed = {}
         /\ loop = "idle" /\ \A e \in Events : app.event # e
BY IdleTyped DEF Rest

(* What the invariant says of the queue, the handlers and the stub.        *)
LEMMA InvMatches ==
  ASSUME Inv
  PROVE  SubscriptionsMatch
<1>1. QueueMatchesConnection
  BY DEF Inv, QueueMatches, TupleMatches, QueueMatchesConnection, Settled, At
<1>2. SubscribedWhenAvailable
  <2> SUFFICES ASSUME Rest, IsAvailable, NEW x \in Attributes \ overtaken, subscribed[x] # {}
               PROVE  x \in installed
    BY DEF SubscribedWhenAvailable
  <2>1. TupleMatches(x) /\ TupleFollows(x)
    BY DEF Inv, QueueMatches, QueueFollows
  <2> QED
    BY <2>1, Resting DEF TupleMatches, TupleFollows, Entering, At
<1>3. NothingLeftBehind
  <2> SUFFICES ASSUME NEW e \in Signalled, Settled(e), subscribed[e] = {}
               PROVE  /\ e \notin installed
                      /\ e \in Attributes => queue[e] = "absent"
                      /\ e \in Selectives => selective[e] = None
    BY DEF NothingLeftBehind
  <2>1. CASE e \in Attributes
    BY <2>1 DEF Inv, QueueMatches, TupleMatches, Settled, At
  <2>2. CASE e \notin Attributes
    BY <2>2 DEF Inv, HandlersGone, Leaves, Settled, At
  <2> QED
    BY <2>1, <2>2
<1>4. SelectiveInstalled
  BY DEF Inv, HandlersKept, SelectiveInstalled, Settled, At
<1>5. NoOrphanedSubscription
  <2> SUFFICES ASSUME Rest, NEW x \in subscribers, subscribed[x] = {},
    x \notin denied \cup overtaken
               PROVE  FALSE
    BY DEF NoOrphanedSubscription
  <2>1. x \in Selectives
    BY DEF Inv, TypeOK
  <2>2. Ended(x)
    BY <2>1, Resting DEF Inv, Withdrawn, At
  <2> QED
    BY <2>2, Resting DEF Ended
<1> QED
  BY <1>1, <1>2, <1>3, <1>4, <1>5 DEF SubscriptionsMatch, SelectiveExact

(* And of the listeners.                                                   *)
LEMMA InvServes ==
  ASSUME Inv
  PROVE  ListenersServed
<1>1. EveryListenerHasValue
  <2> SUFFICES ASSUME Rest, IsAvailable, NEW x \in Attributes \ overtaken, NEW t \in subscribed[x]
               PROVE  heard[t] = "value"
    BY DEF EveryListenerHasValue
  <2>1. ValuePromised(x, t)
    BY DEF Inv, ValuesPromised
  <2> QED
    BY <2>1, Resting DEF ValuePromised, Begun, Promised
<1>2. EveryListenerAnswered
  <2> SUFFICES ASSUME Rest, IsAvailable
               PROVE  /\ \A e \in Attributes \cup Broadcasts : subscribed[e] \subseteq confirmed
                      /\ \A x \in Selectives :
                           selective[x] \in subscribed[x]
                             => selective[x] \in confirmed \cup refused
    BY DEF EveryListenerAnswered
  <2>1. ASSUME NEW e \in Attributes \cup Broadcasts, NEW t \in subscribed[e]
        PROVE  t \in confirmed
    <3>1. StateConfirmed(e, t)
      BY DEF Inv, StatesConfirmed
    <3> QED
      BY <3>1, Resting DEF StateConfirmed, Starting
  <2>2. ASSUME NEW x \in Selectives, selective[x] \in subscribed[x]
        PROVE  selective[x] \in confirmed \cup refused
    <3>1. RequestAnswered(x, selective[x])
      BY <2>2, Resting DEF Inv, RequestsAnswered
    <3> QED
      BY <3>1, Resting DEF RequestAnswered, At
  <2> QED
    BY <2>1, <2>2
<1>3. StatusListenersInformed
  <2> SUFFICES ASSUME Rest, status # "UNKNOWN", NEW t \in subscribed[StatusEvent]
               PROVE  heard[t] = status
    BY DEF StatusListenersInformed
  <2>1. Informed(t)
    BY DEF Inv, StatusTold
  <2> QED
    BY <2>1, Resting DEF Informed, Starting
<1> QED
  BY <1>1, <1>2, <1>3 DEF ListenersServed

-----------------------------------------------------------------------------
(* The variables keep their types.                                         *)
THEOREM TypeCorrect == Spec => []TypeOK
<1>1. Inv => TypeOK
  BY DEF Inv
<1> QED
  BY <1>1, Invariant, PTL

(* The listeners of an event, the queue of the proxy, the handlers at the  *)
(* connection, the subscriptions at the stub and the status always agree,  *)
(* whatever status changes the subscriptions overlap with.                 *)
THEOREM SubscriptionsAlwaysMatch == Spec => []SubscriptionsMatch
<1>1. Inv => SubscriptionsMatch
  BY InvMatches
<1> QED
  BY <1>1, Invariant, PTL

(* No listener ever waits in vain: once nothing is under way, it was told  *)
(* the value, the answer to its subscription and the status.               *)
THEOREM ListenersAlwaysServed == Spec => []ListenersServed
<1>1. Inv => ListenersServed
  BY InvServes
<1> QED
  BY <1>1, Invariant, PTL

=============================================================================
