---------------------------- MODULE ProxyEvents ----------------------------
(***************************************************************************)
(* What one proxy does for the events that an application subscribes to    *)
(* (DBusProxy.cpp, DBusEvent.hpp, DBusSelectiveEvent.hpp,                  *)
(* DBusFreedesktopAttribute.hpp and the selective part of                  *)
(* DBusConnection.cpp): the handlers it installs at the connection while   *)
(* the service is available, the values it asks for, the states it tells   *)
(* its listeners and the selective subscriptions that the stub may refuse. *)
(*                                                                         *)
(* One thread of the application uses the events: two events do not share  *)
(* an entry of any table.  The status changes that the registry reports,   *)
(* the replies and the functions pushed to the main loop are handled by    *)
(* the thread that runs the loop.  A call that is                          *)
(* never answered is left to AsyncCalls; the service may be gone before it *)
(* answers.  A failed reply to the get method is deserialised like a value *)
(* (signalMemberCallback ignores the status): it is taken to fail, as it   *)
(* does for every type but a string.                                       *)
(***************************************************************************)
EXTENDS Naturals, FiniteSets, Sequences, SequencesExt

CONSTANTS Attributes,   \* changed events of attributes, with a get method
          Broadcasts,   \* events without one
          Legacy,       \* changed events of freedesktop attributes
          Selectives,   \* selective broadcasts
          StatusEvent,  \* the status event of the proxy
          MaxTags,      \* bound: listeners ever added
          MaxToggles,   \* bound: times the service comes or goes
          None

VARIABLES service,     \* whether the service runs
          toggles,     \* how often it came or went
          outgoing,    \* calls on their way to the service
          incoming,    \* replies and status changes on their way to the loop
          pushed,      \* functions pushed to the main loop
          subscribers, \* the selective broadcasts the stub sends to us
          status,      \* availabilityStatus_
          everAvailable, \* everAvailable_
          queue,       \* signalMemberHandlerQueue_: flag of the event's tuple
          installed,   \* the events with a handler in dbusSignalHandlers_
          states,      \* signalStateHandlers_: tags of listeners
          selective,   \* selectiveBroadcastHandlers: tag of the entry
          internal,    \* subscription_ of a freedesktop event, None if not set
          listeners,   \* dbusProxyStatusEvent_.listeners_: tags
          loop,        \* where the loop thread is in a status change
          app,         \* where the thread of the application is
          nextTag,     \* nextSubscription_ (CommonAPI core)
          subscribed,  \* the listeners of each event (CommonAPI core)
          heard,       \* what each listener was told last
          confirmed,   \* listeners told SUCCESS since the service was gone
          refused,     \* listeners told SUBSCRIPTION_REFUSED since then
          denied,      \* selective events with a negative answer
          overtaken    \* events whose call a status change overtook

busVars == <<service, toggles, outgoing, incoming, subscribers>>
proxyVars == <<queue, installed, states, selective, internal, listeners>>
appVars == <<app, nextTag, subscribed>>
told == <<heard, confirmed, refused>>
ghosts == <<denied, overtaken>>
vars == <<busVars, pushed, status, everAvailable, proxyVars, loop, appVars,
          told, ghosts>>

Signalled == Attributes \cup Broadcasts \cup Legacy \cup Selectives
Events == Signalled \cup {StatusEvent}
Tags == 1..MaxTags
Statuses == {"UNKNOWN", "AVAILABLE", "NOT_AVAILABLE"}

ASSUME EventsAssumption ==
  /\ MaxTags \in Nat /\ MaxToggles \in Nat /\ None \notin Tags \cup Events
  /\ IsFiniteSet(Attributes \cup Selectives)
  /\ Attributes \cap (Broadcasts \cup Legacy \cup Selectives) = {}
  /\ Broadcasts \cap (Legacy \cup Selectives) = {}
  /\ Legacy \cap Selectives = {}
  /\ StatusEvent \notin Signalled

IsAvailable == status = "AVAILABLE"
Live == UNION {subscribed[e] : e \in Events}
Idle == [event |-> None, pc |-> "idle", tag |-> None, flag |-> "pending"]
At(e, pc) == app.event = e /\ app.pc = pc
Settled(e) == app.event # e
Goto(pc) == app' = IF pc = "idle" THEN Idle ELSE [app EXCEPT !.pc = pc]
Message(kind, e, tag, answer) ==
  [kind |-> kind, event |-> e, tag |-> tag, answer |-> answer]
Call(kind, e, tag) == Message(kind, e, tag, "none")
Report(s) == Message("status", None, None, s)
Messages == [kind : {"get", "initial", "subscribe", "resubscribe",
                     "unsubscribe", "status"},
             event : Signalled \cup {None}, tag : Tags \cup {None},
             answer : {"none", "yes", "no", "failed"} \cup Statuses]
Functions == [kind : {"inform", "succeed", "states"},
              tag : Tags \cup {None}]
Places == {"idle", "add", "install", "queue", "value", "state", "token",
           "request", "inform", "dequeue", "remove", "unsubscribe", "await",
           "erase"}

(* A type invariant: the flag of a queued tuple, one entry per selective   *)
(* broadcast, and the tags that listeners are known by.                    *)
TypeOK ==
  /\ service \in {"up", "down"} /\ toggles \in 0..MaxToggles
  /\ outgoing \in Seq(Messages) /\ incoming \in Seq(Messages)
  /\ pushed \in Seq(Functions) /\ subscribers \subseteq Selectives
  /\ status \in Statuses /\ everAvailable \in BOOLEAN
  /\ queue \in [Attributes -> {"absent", "pending", "added"}]
  /\ installed \subseteq Signalled
  /\ states \subseteq Tags /\ listeners \subseteq Tags
  /\ selective \in [Selectives -> Tags \cup {None}]
  /\ internal \in [Legacy -> Tags \cup {None}]
  /\ loop \in {"idle", "handlers", "selective"}
  /\ app \in [event : Events \cup {None}, pc : Places,
              tag : Tags \cup {None}, flag : {"pending", "added"}]
  /\ nextTag \in 1..MaxTags + 1
  /\ subscribed \in [Events -> SUBSET Tags]
  /\ heard \in [Tags -> Statuses \cup {"value", "nothing"}]
  /\ confirmed \subseteq Tags /\ refused \subseteq Tags
  /\ denied \subseteq Selectives /\ overtaken \subseteq Signalled

Init ==
  /\ service \in {"up", "down"} /\ toggles = 0
  /\ outgoing = <<>> /\ pushed = <<>> /\ subscribers = {}
  /\ incoming = <<Report(IF service = "up" THEN "AVAILABLE"
                                           ELSE "NOT_AVAILABLE")>>
  /\ status = "UNKNOWN" /\ everAvailable = FALSE
  /\ queue = [a \in Attributes |-> "absent"]
  /\ installed = {} /\ states = {} /\ listeners = {}
  /\ selective = [s \in Selectives |-> None]
  /\ internal = [l \in Legacy |-> None]
  /\ loop = "idle"
  /\ app = Idle
  /\ nextTag = 1 /\ subscribed = [e \in Events |-> {}]
  /\ heard = [t \in Tags |-> "nothing"]
  /\ confirmed = {} /\ refused = {} /\ denied = {} /\ overtaken = {}

-----------------------------------------------------------------------------
(* The service and the bus (external).  Calls are answered in order and a  *)
(* selective subscription may be refused; the answer to a blocking call    *)
(* goes to the thread that waits for it.  When the service goes, the bus   *)
(* says so and fails the calls that are left before another one comes.     *)

Answer(m, answer) ==
  IF m.kind = "unsubscribe"
  THEN Goto("erase") /\ UNCHANGED incoming
  ELSE incoming' = Append(incoming, [m EXCEPT !.answer = answer])
       /\ UNCHANGED app

Serve ==
  /\ outgoing # <<>> /\ outgoing' = Tail(outgoing)
  /\ LET m == Head(outgoing)
         asks == m.kind \in {"subscribe", "resubscribe"}
     IN \/ /\ service = "down" /\ Answer(m, "failed")
           /\ UNCHANGED subscribers
        \/ /\ service = "up" /\ Answer(m, "yes")
           /\ subscribers' =
                IF asks THEN subscribers \cup {m.event}
                ELSE IF m.kind = "unsubscribe" THEN subscribers \ {m.event}
                ELSE subscribers
        \/ /\ service = "up" /\ asks /\ Answer(m, "no")
           /\ UNCHANGED subscribers
  /\ UNCHANGED <<service, toggles, pushed, status, everAvailable, proxyVars,
                 loop, nextTag, subscribed, told, ghosts>>

Toggle ==
  /\ toggles < MaxToggles /\ toggles' = toggles + 1
  /\ service = "up" \/ outgoing = <<>>
  /\ service' = IF service = "up" THEN "down" ELSE "up"
  /\ subscribers' = {}
  /\ incoming' = Append(incoming, Report(IF service = "up"
                                         THEN "NOT_AVAILABLE"
                                         ELSE "AVAILABLE"))
  /\ UNCHANGED <<outgoing, pushed, status, everAvailable, proxyVars, loop,
                 appVars, told, ghosts>>

-----------------------------------------------------------------------------
(* The threads of the application: Event::subscribe of CommonAPI core      *)
(* makes the listener known, then calls onFirstListenerAdded if it is the  *)
(* first one, then onListenerAdded.                                        *)

OnFirstListenerAdded(e) ==
  IF e \in Attributes THEN "add"
  ELSE IF e = StatusEvent THEN "inform" ELSE "install"

OnListenerAdded(e) ==
  IF e \in Attributes \cup Legacy THEN "value"
  ELSE IF e \in Broadcasts THEN "state"
  ELSE IF e \in Selectives THEN "install" ELSE "inform"

Subscribe(e) ==
  /\ app = Idle /\ nextTag \in Tags
  /\ nextTag' = nextTag + 1
  /\ subscribed' = [subscribed EXCEPT ![e] = @ \cup {nextTag}]
  /\ app' = [event |-> e, tag |-> nextTag, flag |-> "pending",
             pc |-> IF subscribed[e] = {} THEN OnFirstListenerAdded(e)
                                          ELSE OnListenerAdded(e)]
  /\ denied' = IF subscribed[e] = {} THEN denied \ {e} ELSE denied
  /\ overtaken' = IF subscribed[e] = {} THEN overtaken \ {e} ELSE overtaken
  /\ UNCHANGED <<busVars, pushed, status, everAvailable, proxyVars, loop,
                 told>>

(* DBusProxy::addSignalMemberHandler with a get method reads the status    *)
(* and releases the mutex before it acts on it.                            *)
AddHandler(a) ==
  /\ At(a, "add")
  /\ Goto(IF IsAvailable THEN "install" ELSE "queue")
  /\ UNCHANGED <<busVars, pushed, status, everAvailable, proxyVars, loop,
                 nextTag, subscribed, told, ghosts>>

(* A freedesktop event subscribes its internal event once, for the first   *)
(* listener, and unsubscribes it with the last one.                        *)
SubscribeInternal(e) ==
  [l \in Legacy |-> IF l = e /\ internal[e] = None THEN app.tag
                    ELSE internal[l]]
UnsubscribeInternal(e) ==
  [l \in Legacy |-> IF l = e THEN None ELSE internal[l]]

(* The handler is entered at the connection: by addSignalMemberHandler, by *)
(* subscribeForSelectiveBroadcast for every listener.                      *)
InstallHandler(e) ==
  /\ At(e, "install")
  /\ installed' = installed \cup {e}
  /\ app' = [app EXCEPT !.flag = "added",
                        !.pc = IF e \in Attributes THEN "queue"
                               ELSE IF e \in Selectives THEN "token"
                               ELSE "state"]
  /\ internal' = SubscribeInternal(e)
  /\ UNCHANGED <<busVars, pushed, status, everAvailable, queue, states,
                 selective, listeners, loop, nextTag, subscribed, told,
                 ghosts>>

(* addSignalMemberHandlerToQueue: a tuple that is there already stays.     *)
AddToQueue(a) ==
  /\ At(a, "queue")
  /\ queue' = [queue EXCEPT ![a] = IF @ = "absent" THEN app.flag ELSE @]
  /\ Goto("value")
  /\ UNCHANGED <<busVars, pushed, status, everAvailable, installed, states,
                 selective, internal, listeners, loop, nextTag, subscribed,
                 told, ghosts>>

GetCurrentValueOnce(e) == \* mutant: only the first listener asks
  /\ At(e, "value")
  /\ outgoing' = IF IsAvailable /\ subscribed[e] = {app.tag}
                 THEN Append(outgoing, Call("initial", e, app.tag))
                 ELSE outgoing
  /\ Goto(IF e \in Legacy THEN "idle" ELSE "state")
  /\ UNCHANGED <<service, toggles, incoming, subscribers, pushed, status,
                 everAvailable, proxyVars, loop, nextTag, subscribed, told,
                 ghosts>>

(* getCurrentValueForSignalListener and its freedesktop counterpart.       *)
GetCurrentValue(e) ==
  /\ At(e, "value")
  /\ outgoing' = IF IsAvailable
                 THEN Append(outgoing, Call("initial", e, app.tag))
                 ELSE outgoing
  /\ Goto(IF e \in Legacy THEN "idle" ELSE "state")
  /\ UNCHANGED <<service, toggles, incoming, subscribers, pushed, status,
                 everAvailable, proxyVars, loop, nextTag, subscribed, told,
                 ghosts>>

AddSignalStateHandlerSwapped(e) == \* mutant: the handler for the tag
  /\ At(e, "state")
  /\ states' = states \cup {e}
  /\ pushed' = Append(pushed, [kind |-> "succeed", tag |-> app.tag])
  /\ Goto(IF e \in Legacy THEN "value" ELSE "idle")
  /\ UNCHANGED <<busVars, status, everAvailable, queue, installed, selective,
                 internal, listeners, loop, nextTag, subscribed, told,
                 ghosts>>

(* DBusConnection::addSignalStateHandler; a freedesktop event comes here   *)
(* with the listener of its internal event, and then asks for the value.   *)
AddSignalStateHandler(e) ==
  /\ At(e, "state")
  /\ states' = states \cup {app.tag}
  /\ pushed' = Append(pushed, [kind |-> "succeed", tag |-> app.tag])
  /\ Goto(IF e \in Legacy THEN "value" ELSE "idle")
  /\ UNCHANGED <<busVars, status, everAvailable, queue, installed, selective,
                 internal, listeners, loop, nextTag, subscribed, told,
                 ghosts>>

(* setSubscriptionToken: the entry holds the latest listener only.         *)
InsertSelectiveSubscription(s, tag) == selective' = [selective EXCEPT ![s] = tag]

SetSubscriptionToken(s) ==
  /\ At(s, "token")
  /\ InsertSelectiveSubscription(s, app.tag)
  /\ Goto("request")
  /\ UNCHANGED <<busVars, pushed, status, everAvailable, queue, installed,
                 states, internal, listeners, loop, nextTag, subscribed,
                 told, ghosts>>

(* The rest of subscribeForSelectiveBroadcast.                             *)
RequestSubscription(s) ==
  /\ At(s, "request")
  /\ outgoing' = IF IsAvailable
                 THEN Append(outgoing, Call("subscribe", s, app.tag))
                 ELSE outgoing
  /\ Goto("idle")
  /\ UNCHANGED <<service, toggles, incoming, subscribers, pushed, status,
                 everAvailable, proxyVars, loop, nextTag, subscribed, told,
                 ghosts>>

(* DBusProxyStatusEvent::onListenerAdded.                                  *)
PushInform ==
  /\ At(StatusEvent, "inform")
  /\ pushed' = Append(pushed, [kind |-> "inform",
                               tag |-> app.tag])
  /\ Goto("idle")
  /\ UNCHANGED <<busVars, status, everAvailable, proxyVars, loop, nextTag,
                 subscribed, told, ghosts>>

(* Event::unsubscribe: onListenerRemoved takes the tag out of the signal   *)
(* states, or out of the status listeners; a freedesktop event does that   *)
(* for its internal event with the last listener.                          *)
OnLastListenerRemovedKeep(e) == "remove" \* mutant: the tuple stays
OnLastListenerRemoved(e) ==
  IF e \in Attributes THEN "dequeue" ELSE "remove"

Unsubscribe(e, t) ==
  /\ app = Idle /\ t \in subscribed[e]
  /\ LET last == subscribed[e] = {t}
     IN /\ states' = states \ (IF e \notin Legacy THEN {t}
                               ELSE IF last THEN {internal[e]} ELSE {})
        /\ internal' = IF last THEN UnsubscribeInternal(e) ELSE internal
        /\ app' = IF last /\ e # StatusEvent
                  THEN [Idle EXCEPT !.event = e, !.pc = OnLastListenerRemoved(e)]
                  ELSE Idle
  /\ listeners' = IF e = StatusEvent THEN listeners \ {t} ELSE listeners
  /\ subscribed' = [subscribed EXCEPT ![e] = @ \ {t}]
  /\ heard' = [heard EXCEPT ![t] = "nothing"]
  /\ confirmed' = confirmed \ {t} /\ refused' = refused \ {t}
  /\ UNCHANGED <<busVars, pushed, status, everAvailable, queue, installed,
                 selective, loop, nextTag, ghosts>>

(* DBusProxy::removeSignalMemberHandler: first the tuple, then the handler *)
(* at the connection.                                                      *)
RemoveFromQueue(a) ==
  /\ At(a, "dequeue")
  /\ queue' = [queue EXCEPT ![a] = "absent"]
  /\ Goto("remove")
  /\ UNCHANGED <<busVars, pushed, status, everAvailable, installed, states,
                 selective, internal, listeners, loop, nextTag, subscribed,
                 told, ghosts>>

RemoveHandlerInverted(e) == \* mutant: tells the stub in the other case
  /\ At(e, "remove")
  /\ installed' = installed \ {e}
  /\ Goto(IF e \notin Selectives THEN "idle"
          ELSE IF e \in installed THEN "erase" ELSE "unsubscribe")
  /\ UNCHANGED <<busVars, pushed, status, everAvailable, queue, states,
                 selective, internal, listeners, loop, nextTag, subscribed,
                 told, ghosts>>

(* A selective event tells the stub only if its handler was still there.   *)
RemoveHandler(e) ==
  /\ At(e, "remove")
  /\ installed' = installed \ {e}
  /\ Goto(IF e \notin Selectives THEN "idle"
             ELSE IF e \in installed THEN "unsubscribe" ELSE "erase")
  /\ UNCHANGED <<busVars, pushed, status, everAvailable, queue, states,
                 selective, internal, listeners, loop, nextTag, subscribed,
                 told, ghosts>>

(* The blocking call to the stub, made if the service is available.        *)
CallUnsubscribe(s) ==
  /\ At(s, "unsubscribe")
  /\ IF IsAvailable
     THEN /\ outgoing' = Append(outgoing, Call("unsubscribe", s, None))
          /\ Goto("await") /\ UNCHANGED overtaken
     ELSE /\ Goto("erase") /\ UNCHANGED outgoing
          /\ overtaken' = overtaken \cup {s}
  /\ UNCHANGED <<service, toggles, incoming, subscribers, pushed, status,
                 everAvailable, proxyVars, loop, nextTag, subscribed, told,
                 denied>>

EraseEntry(s) ==
  /\ At(s, "erase")
  /\ selective' = [selective EXCEPT ![s] = None]
  /\ Goto("idle")
  /\ UNCHANGED <<busVars, pushed, status, everAvailable, queue, installed,
                 states, internal, listeners, loop, nextTag, subscribed,
                 told, ghosts>>

-----------------------------------------------------------------------------
(* The thread of the main loop.                                            *)

(* Events whose thread read the status and has not yet queued the tuple,   *)
(* or has unsubscribed at the stub and not yet erased the entry.           *)
Joining == {a \in Attributes : At(a, "install") \/ At(a, "queue")}
Leaving == {s \in Selectives : At(s, "await") \/ At(s, "erase")}

(* onDBusServiceInstanceStatus: nothing but waking blocked callers (see    *)
(* ProxyAvailability) happens when the status is what it was.  Otherwise   *)
(* it is set and, under listenersMutex_, told to listeners_.               *)
StatusReported ==
  /\ loop = "idle" /\ incoming # <<>> /\ Head(incoming).kind = "status"
  /\ incoming' = Tail(incoming)
  /\ LET new == Head(incoming).answer
     IN IF new = status
        THEN UNCHANGED <<status, loop, told, overtaken>>
        ELSE /\ status' = new /\ loop' = "handlers"
             /\ heard' = [t \in Tags |-> IF t \in listeners \cap Live THEN new
                                         ELSE heard[t]]
             /\ confirmed' = IF IsAvailable THEN {} ELSE confirmed
             /\ refused' = IF IsAvailable THEN {} ELSE refused
             /\ overtaken' = overtaken \cup Joining
  /\ UNCHANGED <<service, toggles, outgoing, subscribers, pushed,
                 everAvailable, proxyVars, appVars, denied>>

(* The passes over signalMemberHandlerQueue_, under its mutex: handlers    *)
(* that wait are installed and the value is asked for, or those that are   *)
(* installed are removed.                                                  *)
WaitingOnReturn == \* mutant: nothing is installed at the first appearance
  {a \in Attributes : queue[a] = "pending" /\ everAvailable}
Waiting == {a \in Attributes : queue[a] = "pending"}
AddQueuedHandlers ==
  /\ loop = "handlers" /\ IsAvailable /\ loop' = "selective"
  /\ installed' = installed \cup Waiting
  /\ queue' = [a \in Attributes |-> IF a \in Waiting THEN "added"
                                                     ELSE queue[a]]
  /\ outgoing' = outgoing \o SetToSeq({Call("get", a, None) : a \in Waiting})
  /\ UNCHANGED <<service, toggles, incoming, subscribers, pushed, status,
                 everAvailable, states, selective, internal, listeners,
                 appVars, told, ghosts>>

RemoveQueuedHandlersUnflagged == \* mutant: the flag stays
  /\ loop = "handlers" /\ ~IsAvailable /\ loop' = "idle"
  /\ installed' = installed \ {a \in Attributes : queue[a] = "added"}
  /\ UNCHANGED <<busVars, pushed, status, everAvailable, queue, states,
                 selective, internal, listeners, appVars, told, ghosts>>

RemoveAllHandlers == \* mutant: selective handlers as well
  /\ loop = "handlers" /\ ~IsAvailable /\ loop' = "idle"
  /\ installed' = installed \ (Selectives \cup
                                {a \in Attributes : queue[a] = "added"})
  /\ queue' = [a \in Attributes |-> IF queue[a] = "added" THEN "pending"
                                                          ELSE queue[a]]
  /\ UNCHANGED <<busVars, pushed, status, everAvailable, states, selective,
                 internal, listeners, appVars, told, ghosts>>

RemoveQueuedHandlers ==
  /\ loop = "handlers" /\ ~IsAvailable /\ loop' = "idle"
  /\ installed' = installed \ {a \in Attributes : queue[a] = "added"}
  /\ queue' = [a \in Attributes |-> IF queue[a] = "added" THEN "pending"
                                                          ELSE queue[a]]
  /\ UNCHANGED <<busVars, pushed, status, everAvailable, states, selective,
                 internal, listeners, appVars, told, ghosts>>

SendPendingSubscriptionsOnly == \* mutant: no handleSignalStates
  /\ loop = "selective" /\ loop' = "idle" /\ everAvailable' = TRUE
  /\ LET pending == {s \in Selectives : selective[s] # None}
     IN outgoing' = outgoing \o SetToSeq({Call("resubscribe", s, selective[s])
                                          : s \in pending})
  /\ overtaken' = overtaken \cup Leaving
  /\ UNCHANGED <<service, toggles, incoming, subscribers, pushed, status,
                 proxyVars, appVars, told, denied>>

(* sendPendingSelectiveSubscription for every entry, and handleSignalStates *)
(* pushed when the service returns.                                        *)
SendPendingSubscriptions ==
  /\ loop = "selective" /\ loop' = "idle" /\ everAvailable' = TRUE
  /\ LET pending == {s \in Selectives : selective[s] # None}
     IN outgoing' = outgoing \o SetToSeq({Call("resubscribe", s, selective[s])
                                          : s \in pending})
  /\ pushed' = IF everAvailable
               THEN Append(pushed, [kind |-> "states", tag |-> None])
               ELSE pushed
  /\ overtaken' = overtaken \cup Leaving
  /\ UNCHANGED <<service, toggles, incoming, subscribers, status, proxyVars,
                 appVars, told, denied>>

(* The answers to Get: everybody is told the value, or the listener that   *)
(* asked for it.                                                           *)
Reached(m) == IF m.kind = "get" THEN subscribed[m.event]
                                ELSE subscribed[m.event] \cap {m.tag}

ValueReceived ==
  /\ loop = "idle" /\ incoming # <<>> /\ incoming' = Tail(incoming)
  /\ LET m == Head(incoming)
     IN /\ m.kind \in {"get", "initial"}
        /\ heard' = [t \in Tags |->
                       IF m.answer = "yes" /\ t \in Reached(m) THEN "value"
                       ELSE heard[t]]
  /\ UNCHANGED <<service, toggles, outgoing, subscribers, pushed, status,
                 everAvailable, proxyVars, loop, appVars, confirmed, refused,
                 ghosts>>

(* The answer to a subscription.  After a failed call the first request    *)
(* reads the flag that it never initialised (CN 1124, 1130), the repeated  *)
(* one looks at the status of the call as well.  A refusal removes the     *)
(* handler for all listeners, the entry stays.                             *)
Accepted(m) == m.answer = "yes"
Undefined(m) == m.kind = "subscribe" /\ m.answer = "failed"

SubscriptionAnswered ==
  /\ loop = "idle" /\ incoming # <<>> /\ incoming' = Tail(incoming)
  /\ LET m == Head(incoming)
     IN /\ m.kind \in {"subscribe", "resubscribe"}
        /\ \/ /\ Accepted(m) \/ Undefined(m)
              /\ confirmed' = confirmed \cup (Live \cap {m.tag})
              /\ UNCHANGED <<installed, refused, denied>>
           \/ /\ ~Accepted(m)
              /\ installed' = installed \ {m.event}
              /\ refused' = refused \cup (Live \cap {m.tag})
              /\ denied' = denied \cup {m.event}
              /\ UNCHANGED confirmed
  /\ UNCHANGED <<service, toggles, outgoing, subscribers, pushed, status,
                 everAvailable, queue, states, selective, internal,
                 listeners, loop, appVars, heard, overtaken>>

(* Pushed functions: a status listener is told the status and enters       *)
(* listeners_, even if it is gone by now.                                  *)
NotifySpecificListenerUntold == \* mutant: a new listener is not told
  /\ loop = "idle" /\ pushed # <<>> /\ pushed' = Tail(pushed)
  /\ Head(pushed).kind = "inform"
  /\ listeners' = listeners \cup {Head(pushed).tag}
  /\ UNCHANGED <<busVars, status, everAvailable, queue, installed, states,
                 selective, internal, loop, appVars, told, ghosts>>

NotifySpecificListener ==
  /\ loop = "idle" /\ pushed # <<>> /\ pushed' = Tail(pushed)
  /\ Head(pushed).kind = "inform"
  /\ LET t == Head(pushed).tag
     IN /\ heard' = IF t \in Live /\ status # "UNKNOWN"
                    THEN [heard EXCEPT ![t] = status] ELSE heard
        /\ listeners' = listeners \cup {t}
  /\ UNCHANGED <<busVars, status, everAvailable, queue, installed, states,
                 selective, internal, loop, appVars, confirmed, refused,
                 ghosts>>

(* The confirmation of addSignalStateHandler, and handleSignalStates for   *)
(* everybody who is in the table by then.                                  *)
HandleSignalStates ==
  /\ loop = "idle" /\ pushed # <<>> /\ pushed' = Tail(pushed)
  /\ LET f == Head(pushed)
     IN /\ f.kind # "inform"
        /\ confirmed' = confirmed \cup
             (Live \cap (IF f.kind = "states" THEN states ELSE {f.tag}))
  /\ UNCHANGED <<busVars, status, everAvailable, proxyVars, loop, appVars,
                 heard, refused, ghosts>>

-----------------------------------------------------------------------------
AppNext(e) ==
  \/ Subscribe(e) \/ InstallHandler(e) \/ AddSignalStateHandler(e)
  \/ RemoveHandler(e) \/ GetCurrentValue(e)
  \/ \E t \in Tags : Unsubscribe(e, t)
AttributeNext(a) == AddHandler(a) \/ AddToQueue(a) \/ RemoveFromQueue(a)
SelectiveNext(s) == SetSubscriptionToken(s) \/ RequestSubscription(s)
                      \/ CallUnsubscribe(s) \/ EraseEntry(s)
LoopNext == StatusReported \/ AddQueuedHandlers \/ RemoveQueuedHandlers
              \/ SendPendingSubscriptions \/ ValueReceived
              \/ SubscriptionAnswered \/ NotifySpecificListener
              \/ HandleSignalStates

Next == \/ \E e \in Events : AppNext(e)
        \/ \E a \in Attributes : AttributeNext(a)
        \/ \E s \in Selectives : SelectiveNext(s)
        \/ PushInform \/ LoopNext \/ Serve \/ Toggle

Spec == Init /\ [][Next]_vars

-----------------------------------------------------------------------------
(* Nothing is under way.                                                   *)
Rest == /\ loop = "idle" /\ incoming = <<>> /\ outgoing = <<>>
        /\ pushed = <<>> /\ app = Idle

(* The flag of a queued tuple tells whether the handler is installed at    *)
(* the connection, whoever passed over the queue meanwhile: otherwise a    *)
(* handler is never removed, or never installed again.                     *)
QueueMatchesConnection ==
  \A a \in Attributes :
    Settled(a) => (queue[a] = "added" <=> a \in installed)

(* When the last listener is gone, neither the connection nor the queue    *)
(* nor the table of selective broadcasts knows the event any more, and a   *)
(* status change or a late answer does not bring it back.                  *)
NothingLeftBehind ==
  \A e \in Signalled :
    Settled(e) /\ subscribed[e] = {} =>
      /\ e \notin installed
      /\ e \in Attributes => queue[e] = "absent"
      /\ e \in Selectives => selective[e] = None

(* Once all is settled, an attribute event with listeners is installed if  *)
(* the service is available, unless the status changed between the moment  *)
(* its first listener looked at it and the moment the tuple was queued.    *)
SubscribedWhenAvailable ==
  Rest /\ IsAvailable =>
    \A a \in Attributes : subscribed[a] # {} =>
      a \in installed \cup overtaken

(* And each of its listeners was told a value, by the answer to its own    *)
(* Get or to the one that was sent when the service appeared.              *)
EveryListenerHasValue ==
  Rest /\ IsAvailable =>
    \A a \in Attributes \ overtaken : \A t \in subscribed[a] :
      heard[t] = "value"

(* Listeners of signals are told again that they are subscribed after the  *)
(* service was away (handleSignalStates), and the one that the table of    *)
(* selective broadcasts knows is told the answer of the stub if it is      *)
(* still there (nobody else is).                                           *)
EveryListenerAnswered ==
  Rest /\ IsAvailable =>
    /\ \A e \in Attributes \cup Broadcasts : subscribed[e] \subseteq confirmed
    /\ \A s \in Selectives :
         selective[s] \in subscribed[s] => selective[s] \in confirmed \cup refused

(* A selective event keeps its handler as long as it has listeners and no  *)
(* negative answer came.                                                   *)
SelectiveInstalled ==
  \A s \in Selectives :
    Settled(s) /\ subscribed[s] # {} => s \in installed \cup denied

(* The stub does not go on sending a selective broadcast to a proxy that   *)
(* has no listener for it, unless a negative answer took the handler away, *)
(* the last listener left while the service was reported to be away, or a  *)
(* status change repeated the subscription while it left.                  *)
NoOrphanedSubscription ==
  Rest /\ IsAvailable /\ service = "up" =>
    \A s \in subscribers :
      subscribed[s] # {} \/ s \in denied \cup overtaken

(* A listener of the status event knows the status.                        *)
StatusListenersInformed ==
  Rest /\ status # "UNKNOWN" =>
    \A t \in subscribed[StatusEvent] : heard[t] = status

(* The handler of a selective event and the subscription at the stub come  *)
(* and go together.                                                        *)
SelectiveExact == SelectiveInstalled /\ NoOrphanedSubscription

(* The listeners of an event, the queue of the proxy, the handlers at the  *)
(* connection, the subscriptions at the stub and the status agree,         *)
(* whatever status changes the subscriptions overlap with.                 *)
SubscriptionsMatch ==
  /\ QueueMatchesConnection /\ SubscribedWhenAvailable /\ NothingLeftBehind
  /\ SelectiveExact

(* No listener waits in vain: not for a value, not for the answer to its   *)
(* subscription, not for the status.                                       *)
ListenersServed ==
  EveryListenerHasValue /\ EveryListenerAnswered /\ StatusListenersInformed
=============================================================================
