---------------------------- MODULE RemoteCalls ----------------------------
(***************************************************************************)
(* Calls from a proxy to a stub: the proxy's functions (DBusProxyHelper,   *)
(* DBusAttribute, DBusFreedesktopAttribute), which make a blocking, an     *)
(* asynchronous or a fire-and-forget call and turn what comes back into a  *)
(* CallStatus; the dispatchers of a stub adapter (DBusStubAdapterHelper,   *)
(* DBusFreedesktopStubAdapterHelper, DBusFreedesktopPropertiesStub), which *)
(* find the member, call the stub and reply; the table of calls the stub   *)
(* has not answered yet; and an attribute that remote clients and the      *)
(* application change, and whose changes are signalled.                    *)
(*                                                                         *)
(* The service's messages are dispatched by one thread, Dispatcher.  The   *)
(* application's own threads (Workers) answer calls and change the         *)
(* attribute meanwhile.  What libdbus and the bus do is reduced to what    *)
(* the code relies on: a call has one reply, a timeout if none comes, and  *)
(* an error with the name UnknownMethod if no handler took the message.    *)
(***************************************************************************)
EXTENDS Naturals, FiniteSets, Sequences

CONSTANTS
    Calls,             \* the calls, each made once by a thread of its own
    Workers,           \* threads of the service's application
    Dispatcher,        \* the thread that dispatches the service's messages
    Values,            \* values of arguments and of the attribute
    Scenarios,         \* what the calls ask for
    InitialValue,      \* the attribute's value at the start
    None,
    MaxStatusChanges,  \* bound on the changes of the service's availability
    MaxAnswers,        \* bound on the answers the stub gives to one call
    MaxFailures,       \* bound on replies that cannot be written or sent
    MaxLosses          \* bound on the connections that are lost

Kinds == {"fire", "method", "inline", "get", "set", "fdGet", "fdSet", "fdGetAll"}

\* Members of org.freedesktop.DBus.Properties.
FreedesktopKinds == {"fdGet", "fdSet", "fdGetAll"}

(***************************************************************************)
(* A request: the member, how it is called ("send" expects no reply), the  *)
(* error events declared for it, whether it has out arguments, and whether *)
(* the arguments can be written, the service has and can read such a call, *)
(* and the client can read what the service returns.                       *)
(***************************************************************************)
RequestType ==
    [kind : Kinds, how : {"send", "sync", "async"}, declared : BOOLEAN,
     outs : BOOLEAN, writable : BOOLEAN, accepted : BOOLEAN,
     readable : BOOLEAN, value : Values]

ASSUME ScenariosAssumption ==
    /\ Scenarios \subseteq [Calls -> RequestType]
    /\ \A s \in Scenarios, c \in Calls : s[c].how = "send" <=> s[c].kind = "fire"
    /\ InitialValue \in Values
    /\ Dispatcher \notin Workers
    /\ None \notin Calls \cup Workers \cup {Dispatcher} \cup Values

ASSUME BoundsAssumption ==
    {MaxStatusChanges, MaxAnswers, MaxFailures, MaxLosses} \subseteq Nat

VARIABLES
    available,   \* DBusProxy::isAvailable(), of the proxy all calls go through
    changes,     \* the number of its changes so far
    clientUp,    \* isConnected() of the proxy's connection
    serviceUp,   \* isConnected() of the stub's connection
    request,     \* per call: what is called; never changes
    phase,       \* per call: how far the client is
    guard,       \* per function: the call that holds its static mutex
    reply,       \* per call: what has come back, or None
    status,      \* per call: the CallStatus reported, or None
    result,      \* per call: the value reported with it
    told,        \* calls whose error event was notified
    wire,        \* messages on their way to the service
    dispatch,    \* what the Dispatcher is doing
    job,         \* per thread: the answer or change it is in the middle of
    pending,     \* pending_ per call: the message kept for it
    ran,         \* calls that have reached the stub
    sent,        \* per call: the replies sent to its caller
    first,       \* per call: the first answer of the stub
    answers,     \* per call: the number of answers begun
    contested,   \* calls that were answered twice at the same time
    failures,    \* the number of failures so far
    failed,      \* calls whose reply could not be written or sent
    value,       \* the attribute
    lock,        \* who is in lockXAttribute(true)
    fired,       \* the value observers were told last
    unfired      \* a remote change was not signalled as its reply failed

clientVars == <<request, phase, guard, status, result, told>>
stubVars == <<dispatch, job, pending, ran, first, answers, contested>>
attributeVars == <<value, lock, fired, unfired>>
linkVars == <<available, changes, clientUp, serviceUp>>
replyVars == <<reply, sent, failures, failed>>
vars == <<clientVars, stubVars, attributeVars, linkVars, replyVars, wire>>

Threads == Workers \cup {Dispatcher}
Guards == {"send", "sync", "async"} \X Kinds
Guard(r) == <<r.how, r.kind>>

Idle == [pc |-> "idle", call |-> None, type |-> "return", value |-> None]
At(pc, c, type, v) == [pc |-> pc, call |-> c, type |-> type, value |-> v]

Message(type, v) == [type |-> type, value |-> v]
Nothing == Message("nothing", None)

ErrorTypes == {"error", "unhandled", "noReply"}
Statuses == {"SUCCESS", "NOT_AVAILABLE", "REMOTE_ERROR",
             "SERIALIZATION_ERROR", "OUT_OF_MEMORY"}

ReplyType == [type : {"return", "error", "unhandled", "noReply"}, value : Values \cup {None}]

ASSUME NoneAssumption == None \notin ReplyType \cup Statuses

Init ==
    /\ available \in BOOLEAN /\ changes = 0
    /\ clientUp = TRUE /\ serviceUp = TRUE
    /\ request \in Scenarios
    /\ phase = [c \in Calls |-> "new"]
    /\ guard = [g \in Guards |-> None]
    /\ reply = [c \in Calls |-> None]
    /\ status = [c \in Calls |-> None]
    /\ result = [c \in Calls |-> None]
    /\ told = {}
    /\ wire = <<>>
    /\ dispatch = Idle
    /\ job = [w \in Threads |-> Idle]
    /\ pending = [c \in Calls |-> "none"]
    /\ ran = {}
    /\ sent = [c \in Calls |-> <<>>]
    /\ first = [c \in Calls |-> None]
    /\ answers = [c \in Calls |-> 0]
    /\ contested = {}
    /\ failures = 0 /\ failed = {}
    /\ value = InitialValue /\ fired = InitialValue
    /\ lock = None /\ unfired = FALSE

-----------------------------------------------------------------------------
(***************************************************************************)
(* The client.                                                             *)
(***************************************************************************)
(***************************************************************************)
(* A thread enters a function of the proxy, which makes the message and    *)
(* waits for the static mutex of its template.                             *)
(***************************************************************************)
Begin(c) ==
    /\ phase[c] = "new"
    /\ phase' = [phase EXCEPT ![c] = "begun"]
    /\ UNCHANGED <<request, guard, status, result, told, wire, stubVars,
                   attributeVars, linkVars, replyVars>>

\* The call is over: its status is known and the static mutex is free.
Finish(c, s, v) ==
    /\ phase' = [phase EXCEPT ![c] = "done"]
    /\ status' = [status EXCEPT ![c] = s]
    /\ result' = [result EXCEPT ![c] = v]
    /\ guard' = [g \in Guards |-> IF guard[g] = c THEN None ELSE guard[g]]
    /\ UNCHANGED request

OnTheWire(c) == wire' = IF serviceUp THEN Append(wire, c) ELSE wire

Entered(c, how) ==
    /\ phase[c] = "begun" /\ request[c].how = how
    /\ guard[Guard(request[c])] = None

\* callMethod: the message is queued, nobody waits for an answer.
IssueSend(c) ==
    /\ Entered(c, "send")
    /\ LET r == request[c]
       IN  \/ ~available /\ Finish(c, "NOT_AVAILABLE", None) /\ UNCHANGED wire
           \/ /\ available /\ ~r.writable
              /\ Finish(c, "SERIALIZATION_ERROR", None) /\ UNCHANGED wire
           \/ /\ available /\ r.writable /\ ~clientUp
              /\ Finish(c, "OUT_OF_MEMORY", None) /\ UNCHANGED wire
           \/ /\ available /\ r.writable /\ clientUp
              /\ Finish(c, "SUCCESS", None) /\ OnTheWire(c)
    /\ UNCHANGED <<told, stubVars, attributeVars, linkVars, replyVars>>

(***************************************************************************)
(* What a blocking call makes of the message m it gets back.  Without a    *)
(* connection it gets none, and no error either.  The function without     *)
(* error events looks at the error and at the type of the message, the one *)
(* with them at the error only.                                            *)
(***************************************************************************)
ReadArguments(r, m) ==
    IF r.outs /\ (m.type = "nothing" \/ ~r.readable)
    THEN "SERIALIZATION_ERROR"
    ELSE "SUCCESS"

DeclaredStatus(r, m) ==
    IF m.type \in ErrorTypes THEN "REMOTE_ERROR" ELSE ReadArguments(r, m)

\* mutant: the blocking call looks at the error only, not at the message.
PlainStatusUnchecked(r, m) == DeclaredStatus(r, m)

PlainStatus(r, m) ==
    IF m.type # "return" THEN "REMOTE_ERROR" ELSE ReadArguments(r, m)

SyncStatus(r, m) == IF r.declared THEN DeclaredStatus(r, m) ELSE PlainStatus(r, m)

(***************************************************************************)
(* callMethodWithReply: the static mutex of the function is held until the *)
(* reply, or the timeout, is there.                                        *)
(***************************************************************************)
IssueSync(c) ==
    /\ Entered(c, "sync")
    /\ LET r == request[c]
       IN  \/ ~available /\ Finish(c, "NOT_AVAILABLE", None) /\ UNCHANGED wire
           \/ /\ available /\ ~r.writable
              /\ Finish(c, "SERIALIZATION_ERROR", None) /\ UNCHANGED wire
           \/ /\ available /\ r.writable /\ ~clientUp
              /\ Finish(c, SyncStatus(r, Nothing), None) /\ UNCHANGED wire
           \/ /\ available /\ r.writable /\ clientUp
              /\ guard' = [guard EXCEPT ![Guard(r)] = c]
              /\ phase' = [phase EXCEPT ![c] = "waiting"]
              /\ OnTheWire(c)
              /\ UNCHANGED <<request, status, result>>
    /\ UNCHANGED <<told, stubVars, attributeVars, linkVars, replyVars>>

(***************************************************************************)
(* callMethodAsync: the call is sent, or waits until the proxy knows about *)
(* its service.                                                            *)
(***************************************************************************)
RefuseAsync(c) ==
    /\ Entered(c, "async") /\ ~request[c].writable
    /\ Finish(c, "SERIALIZATION_ERROR", None)
    /\ UNCHANGED <<told, wire, stubVars, attributeVars, linkVars, replyVars>>

\* Without a connection the callback is dropped: the caller has no status, but
\* an invalid future.
SendWithReply(c) ==
    \/ /\ clientUp
       /\ phase' = [phase EXCEPT ![c] = "waiting"]
       /\ OnTheWire(c)
       /\ UNCHANGED <<request, guard, status, result>>
    \/ ~clientUp /\ Finish(c, None, None) /\ UNCHANGED wire

SendAsync(c) ==
    /\ Entered(c, "async") /\ request[c].writable /\ available
    /\ SendWithReply(c)
    /\ UNCHANGED <<told, stubVars, attributeVars, linkVars, replyVars>>

Defer(c) ==
    /\ Entered(c, "async") /\ request[c].writable /\ ~available
    /\ phase' = [phase EXCEPT ![c] = "deferred"]
    /\ UNCHANGED <<request, guard, status, result, told, wire, stubVars,
                   attributeVars, linkVars, replyVars>>

IssueAsync(c) == RefuseAsync(c) \/ SendAsync(c) \/ Defer(c)

\* mutant: a call whose service does not come is not answered.
ResolveAvailable(c) ==
    /\ phase[c] = "deferred" /\ available
    /\ SendWithReply(c)
    /\ UNCHANGED <<told, stubVars, attributeVars, linkVars, replyVars>>

(***************************************************************************)
(* The callback of isAvailableAsync for a call that waits: it is sent, or  *)
(* an error is pushed to the main loop as its reply.                       *)
(***************************************************************************)
Resolve(c) ==
    /\ phase[c] = "deferred"
    /\ \/ available /\ SendWithReply(c) /\ UNCHANGED reply
       \/ /\ ~available
          /\ phase' = [phase EXCEPT ![c] = "waiting"]
          /\ reply' = [reply EXCEPT ![c] = Message("unhandled", None)]
          /\ UNCHANGED <<request, guard, status, result, wire>>
    /\ UNCHANGED <<told, stubVars, attributeVars, linkVars,
                   sent, failures, failed>>

\* onLibdbusPendingCall and handleDBusMessageReply.
AsyncStatus(r, m) ==
    IF m.type = "unhandled" THEN "NOT_AVAILABLE"
    ELSE IF m.type \in ErrorTypes THEN "REMOTE_ERROR"
         ELSE IF r.outs /\ ~r.readable THEN "SERIALIZATION_ERROR"
              ELSE "SUCCESS"

(***************************************************************************)
(* What the caller is told with SUCCESS: the value in the reply, but for   *)
(* org.freedesktop.DBus.Properties.Set the value that was requested.       *)
(***************************************************************************)
ResultOf(r, m, s) ==
    IF s # "SUCCESS" THEN None
    ELSE IF r.kind = "fdSet" THEN r.value
         ELSE IF r.outs THEN m.value ELSE None

\* The reply is handled: by the blocked thread, or by the main loop thread.
Complete(c) ==
    /\ phase[c] = "waiting" /\ reply[c] # None
    /\ LET r == request[c]
           m == reply[c]
           s == IF r.how = "sync" THEN SyncStatus(r, m) ELSE AsyncStatus(r, m)
       IN  /\ Finish(c, s, ResultOf(r, m, s))
           /\ told' = IF m.type = "error" /\ r.declared THEN told \cup {c} ELSE told
    /\ UNCHANGED <<wire, stubVars, attributeVars, linkVars, replyVars>>

-----------------------------------------------------------------------------
(***************************************************************************)
(* The connections and the bus (external).                                 *)
(***************************************************************************)
StatusChanges ==
    /\ changes < MaxStatusChanges
    /\ changes' = changes + 1 /\ available' = ~available
    /\ UNCHANGED <<clientUp, serviceUp, clientVars, stubVars, attributeVars,
                   replyVars, wire>>

Losses == (IF clientUp THEN 0 ELSE 1) + (IF serviceUp THEN 0 ELSE 1)

ClientLost ==
    /\ clientUp /\ Losses < MaxLosses
    /\ clientUp' = FALSE
    /\ UNCHANGED <<available, changes, serviceUp, clientVars, stubVars,
                   attributeVars, replyVars, wire>>

ServiceLost ==
    /\ serviceUp /\ Losses < MaxLosses
    /\ serviceUp' = FALSE
    /\ wire' = <<>>
    /\ UNCHANGED <<available, changes, clientUp, clientVars, stubVars,
                   attributeVars, replyVars>>

\* No reply in time, nobody to reply, or no connection any more.
Timeout(c) ==
    /\ phase[c] = "waiting" /\ reply[c] = None
    /\ reply' = [reply EXCEPT ![c] = Message("noReply", None)]
    /\ UNCHANGED <<clientVars, stubVars, attributeVars, linkVars,
                   sent, failures, failed, wire>>

\* A reply counts if its call is still waiting for one.
Arrive(c, m) ==
    /\ reply' = IF phase[c] = "waiting" /\ reply[c] = None
                THEN [reply EXCEPT ![c] = m]
                ELSE reply
    /\ sent' = [sent EXCEPT ![c] = Append(@, m)]

(***************************************************************************)
(* sendDBusMessage of a reply, after its arguments have been written.      *)
(* Both fail without a connection or memory, or for an invalid value.      *)
(***************************************************************************)
Sendable == {serviceUp} \cup IF failures < MaxFailures THEN {FALSE} ELSE {}

Send(c, m, ok) ==
    /\ failures' = IF serviceUp /\ ~ok THEN failures + 1 ELSE failures
    /\ failed' = IF ok THEN failed ELSE failed \cup {c}
    /\ IF ok THEN Arrive(c, m) ELSE UNCHANGED <<reply, sent>>

(***************************************************************************)
(* A message that is not handled is answered by libdbus; one for a member  *)
(* of org.freedesktop.DBus.Properties and an interface that is there       *)
(* always counts as handled.                                               *)
(***************************************************************************)
Unhandled(c) ==
    IF /\ request[c].how # "send" /\ serviceUp
       /\ request[c].kind \notin FreedesktopKinds
    THEN Arrive(c, Message("unhandled", None))
    ELSE UNCHANGED <<reply, sent>>

\* A handler tries to reply, and lets libdbus do it if it cannot.
SendOrFail(c, m, ok) ==
    IF ok THEN Send(c, m, TRUE)
    ELSE /\ Unhandled(c)
         /\ failures' = IF serviceUp THEN failures + 1 ELSE failures
         /\ failed' = failed \cup {c}

-----------------------------------------------------------------------------
(***************************************************************************)
(* The dispatcher of the stub adapter.                                     *)
(***************************************************************************)
Receiving(c) == dispatch = Idle /\ wire # <<>> /\ c = Head(wire) /\ serviceUp

(***************************************************************************)
(* The adapter, or one of the parents of its interface, has a dispatcher   *)
(* for the member, which is implemented and can read the arguments.        *)
(***************************************************************************)
Known(c) == request[c].accepted

Taken(c, kinds) ==
    /\ Receiving(c) /\ wire' = Tail(wire)
    /\ Known(c) /\ request[c].kind \in kinds
    /\ ran' = ran \cup {c}
    /\ UNCHANGED <<clientVars, job, first, answers, contested, linkVars>>

\* No adapter or interface, no such member, or arguments not readable.
Reject(c) ==
    /\ Receiving(c) /\ wire' = Tail(wire)
    /\ ~Known(c)
    /\ \/ Unhandled(c)
       \/ /\ request[c].kind \in FreedesktopKinds
          /\ Arrive(c, Message("unhandled", None))
    /\ UNCHANGED <<clientVars, stubVars, attributeVars, linkVars, failures, failed>>

\* DBusMethodStubDispatcher: the stub's method is called, and that is all.
DispatchFire(c) ==
    /\ Taken(c, {"fire"})
    /\ UNCHANGED <<dispatch, pending, attributeVars, replyVars>>

(***************************************************************************)
(* DBusMethodWithReplyStubDispatcher: the message is kept for the reply,   *)
(* which the stub's method gives at once, or a thread of the application   *)
(* later.                                                                  *)
(***************************************************************************)
KeepCall(c) ==
    /\ pending' = [pending EXCEPT ![c] = "call"]
    /\ dispatch' = At("method", c, "return", None)
    /\ UNCHANGED <<attributeVars, replyVars>>

DispatchMethod(c) == Taken(c, {"method"}) /\ ~request[c].declared /\ KeepCall(c)

\* The one whose stub may answer with the errors that are declared.
DispatchDeclared(c) == Taken(c, {"method"}) /\ request[c].declared /\ KeepCall(c)

MethodReturns ==
    /\ dispatch.pc = "method" /\ job[Dispatcher] = Idle
    /\ dispatch' = Idle
    /\ UNCHANGED <<clientVars, job, pending, ran, first, answers, contested,
                   attributeVars, linkVars, replyVars, wire>>

\* DBusMethodWithReplyAdapterDispatcher: the adapter's method has the answer.
DispatchInline(c) ==
    /\ Taken(c, {"inline"})
    /\ \E ok \in Sendable, v \in Values :
          SendOrFail(c, Message("return", v), ok)
    /\ UNCHANGED <<dispatch, pending, attributeVars>>

(***************************************************************************)
(* The getters.  Only org.freedesktop.DBus.Properties.Get reads the value  *)
(* unlocked.                                                               *)
(***************************************************************************)
SendValue(c) ==
    /\ \E ok \in Sendable : SendOrFail(c, Message("return", value), ok)
    /\ UNCHANGED <<dispatch, pending, attributeVars>>

DispatchGet(c) == Taken(c, {"get"}) /\ lock = None /\ SendValue(c)

FreedesktopGet(c) == Taken(c, {"fdGet"}) /\ SendValue(c)

FreedesktopGetAll(c) == Taken(c, {"fdGetAll"}) /\ lock = None /\ SendValue(c)

\* onRemoteSet: the stub takes the value or keeps its own.
DispatchSet(c) ==
    /\ Taken(c, {"set", "fdSet"})
    /\ value' \in {request[c].value, value}
    /\ dispatch' = At("confirm", c, IF value' = value THEN "same" ELSE "changed", None)
    /\ UNCHANGED <<pending, lock, fired, unfired, replyVars>>

\* The reply with the value; if it is not sent, the change is not signalled.
ConfirmSet ==
    /\ dispatch.pc = "confirm"
    /\ LET c == dispatch.call
       IN  /\ lock = None \/ request[c].kind = "fdSet"
           /\ \E ok \in Sendable :
                 /\ SendOrFail(c, Message("return", value), ok)
                 /\ dispatch' = IF ok /\ dispatch.type = "changed"
                                THEN [dispatch EXCEPT !.pc = "fire"] ELSE Idle
                 /\ unfired' = (unfired \/ (~ok /\ dispatch.type = "changed"))
    /\ UNCHANGED <<clientVars, job, pending, ran, first, answers, contested,
                   value, lock, fired, linkVars, wire>>

\* mutant: the value is signalled but never read.
ReadToFireUnread ==
    /\ dispatch.pc = "fire" /\ lock = None
    /\ lock' = Dispatcher
    /\ dispatch' = [dispatch EXCEPT !.pc = "firing"]
    /\ UNCHANGED <<clientVars, job, pending, ran, first, answers, contested,
                   value, fired, unfired, linkVars, replyVars, wire>>

\* mutant: the value is read before the lock is there.
ReadToFireUnlocked ==
    \/ /\ dispatch.pc = "fire" /\ dispatch.value = None
       /\ dispatch' = [dispatch EXCEPT !.value = value]
       /\ UNCHANGED <<clientVars, job, pending, ran, first, answers, contested,
                      attributeVars, linkVars, replyVars, wire>>
    \/ /\ dispatch.pc = "fire" /\ dispatch.value # None /\ lock = None
       /\ lock' = Dispatcher
       /\ dispatch' = [dispatch EXCEPT !.pc = "firing"]
       /\ UNCHANGED <<clientVars, job, pending, ran, first, answers, contested,
                      value, fired, unfired, linkVars, replyVars, wire>>

\* fireAttributeValueChanged: the value is read and signalled under the lock.
ReadToFire ==
    /\ dispatch.pc = "fire" /\ lock = None
    /\ lock' = Dispatcher
    /\ dispatch' = [dispatch EXCEPT !.pc = "firing", !.value = value]
    /\ UNCHANGED <<clientVars, job, pending, ran, first, answers, contested,
                   value, fired, unfired, linkVars, replyVars, wire>>

\* The signal that tells the observers; without a connection it is not sent.
SendSignal(v) == fired' = IF serviceUp THEN v ELSE fired

\* An attribute that is set through Properties is signalled by PropertiesChanged.
SendPropertiesChangedSignal(v) == SendSignal(v)

FireChanged ==
    /\ dispatch.pc = "firing"
    /\ IF request[dispatch.call].kind = "fdSet"
         THEN SendPropertiesChangedSignal(dispatch.value)
         ELSE SendSignal(dispatch.value)
    /\ lock' = None
    /\ dispatch' = Idle
    /\ UNCHANGED <<clientVars, job, pending, ran, first, answers, contested,
                   value, unfired, linkVars, replyVars, wire>>

-----------------------------------------------------------------------------
(***************************************************************************)
(* The stub's answers.                                                     *)
(***************************************************************************)
MayAct(w, c) ==
    /\ job[w] = Idle
    /\ w = Dispatcher => dispatch.pc = "method" /\ dispatch.call = c

(***************************************************************************)
(* The first part of sendReply and sendErrorReply: the message kept for    *)
(* the call is replaced by a reply to it.  A reply to a reply goes to      *)
(* nobody.                                                                 *)
(***************************************************************************)
BeginAnswer(w, c, type, v) ==
    /\ MayAct(w, c) /\ c \in ran /\ pending[c] # "none"
    /\ answers[c] < MaxAnswers
    /\ answers' = [answers EXCEPT ![c] = @ + 1]
    /\ pending' = [pending EXCEPT ![c] = IF @ = "call" THEN type ELSE "stray"]
    /\ first' = IF first[c] = None THEN [first EXCEPT ![c] = Message(type, v)] ELSE first
    /\ contested' = IF \E u \in Threads : job[u].pc = "answer" /\ job[u].call = c
                    THEN contested \cup {c} ELSE contested
    /\ job' = [job EXCEPT ![w] = At("answer", c, type, v)]
    /\ UNCHANGED <<clientVars, dispatch, ran, attributeVars, linkVars, replyVars, wire>>

BeginReply(w, c) == \E v \in Values : BeginAnswer(w, c, "return", v)

BeginError(w, c) == request[c].declared /\ BeginAnswer(w, c, "error", None)

\* mutant: the message is kept after the reply.
FinishAnswerKept(w) ==
    /\ job[w].pc = "answer"
    /\ job' = [job EXCEPT ![w] = Idle]
    /\ LET c == job[w].call
       IN  IF pending[c] \in {"none", "stray"}
           THEN UNCHANGED replyVars
           ELSE \E ok \in Sendable : Send(c, Message(pending[c], job[w].value), ok)
    /\ UNCHANGED <<clientVars, dispatch, pending, ran, first, answers, contested,
                   attributeVars, linkVars, wire>>

(***************************************************************************)
(* The second part: the arguments are written into the kept reply, it is   *)
(* sent and forgotten, unless somebody else did that meanwhile.            *)
(***************************************************************************)
FinishAnswer(w) ==
    /\ job[w].pc = "answer"
    /\ job' = [job EXCEPT ![w] = Idle]
    /\ LET c == job[w].call
       IN  \/ pending[c] = "none" /\ UNCHANGED <<pending, replyVars>>
           \/ /\ pending[c] # "none"
              /\ pending' = [pending EXCEPT ![c] = "none"]
              /\ IF pending[c] = "stray"
                 THEN UNCHANGED replyVars
                 ELSE \E ok \in Sendable :
                         Send(c, Message(pending[c], job[w].value), ok)
    /\ UNCHANGED <<clientVars, dispatch, ran, first, answers, contested,
                   attributeVars, linkVars, wire>>

FinishReply(w) == job[w].type = "return" /\ FinishAnswer(w)

FinishError(w) == job[w].type = "error" /\ FinishAnswer(w)

(***************************************************************************)
(* The application changes the attribute: locked, and signalled if it is   *)
(* a change (generated code, external).                                    *)
(***************************************************************************)
BeginChange(w, v) ==
    /\ w \in Workers /\ job[w] = Idle /\ lock = None
    /\ v # value
    /\ value' = v /\ lock' = w
    /\ job' = [job EXCEPT ![w] = At("change", None, "return", None)]
    /\ UNCHANGED <<clientVars, dispatch, pending, ran, first, answers, contested,
                   fired, unfired, linkVars, replyVars, wire>>

FinishChange(w) ==
    /\ job[w].pc = "change"
    /\ SendSignal(value) /\ lock' = None
    /\ job' = [job EXCEPT ![w] = Idle]
    /\ UNCHANGED <<clientVars, dispatch, pending, ran, first, answers, contested,
                   value, unfired, linkVars, replyVars, wire>>
-----------------------------------------------------------------------------
Client ==
    \E c \in Calls :
        \/ Begin(c) \/ IssueSend(c) \/ IssueSync(c)
        \/ RefuseAsync(c) \/ SendAsync(c) \/ Defer(c)
        \/ Resolve(c) \/ Complete(c)

Bus ==
    \/ StatusChanges \/ ClientLost \/ ServiceLost
    \/ \E c \in Calls : Timeout(c)

Stub ==
    \/ \E c \in Calls :
          \/ Reject(c)
          \/ DispatchFire(c) \/ DispatchMethod(c) \/ DispatchDeclared(c)
          \/ DispatchInline(c) \/ DispatchSet(c)
          \/ DispatchGet(c) \/ FreedesktopGet(c) \/ FreedesktopGetAll(c)
    \/ MethodReturns \/ ConfirmSet \/ ReadToFire \/ FireChanged
    \/ \E w \in Threads :
          \/ \E c \in Calls : BeginReply(w, c) \/ BeginError(w, c)
          \/ FinishReply(w) \/ FinishError(w)
          \/ \E v \in Values : BeginChange(w, v)
          \/ FinishChange(w)

Next == Client \/ Bus \/ Stub

(***************************************************************************)
(* A call that has begun goes on, a reply or a timeout comes and is        *)
(* handled, and isAvailableAsync answers.  Nothing is assumed about the    *)
(* service.                                                                *)
(***************************************************************************)
Fairness ==
    \A c \in Calls :
        /\ WF_vars(IssueSend(c) \/ IssueSync(c) \/ IssueAsync(c))
        /\ WF_vars(Resolve(c)) /\ WF_vars(Timeout(c)) /\ WF_vars(Complete(c))

Spec == Init /\ [][Next]_vars /\ Fairness
-----------------------------------------------------------------------------
JobType == [pc : {"idle", "method", "confirm", "fire", "firing", "answer", "change"},
            call : Calls \cup {None},
            type : {"return", "error", "same", "changed"},
            value : Values \cup {None}]

\* The state is well-formed.
TypeOK ==
    /\ available \in BOOLEAN /\ changes \in 0 .. MaxStatusChanges
    /\ clientUp \in BOOLEAN /\ serviceUp \in BOOLEAN
    /\ request \in Scenarios
    /\ phase \in [Calls -> {"new", "begun", "waiting", "deferred", "done"}]
    /\ guard \in [Guards -> Calls \cup {None}]
    /\ reply \in [Calls -> ReplyType \cup {None}]
    /\ status \in [Calls -> Statuses \cup {None}]
    /\ result \in [Calls -> Values \cup {None}]
    /\ told \subseteq Calls /\ wire \in Seq(Calls)
    /\ dispatch \in JobType /\ job \in [Threads -> JobType]
    /\ pending \in [Calls -> {"none", "call", "return", "error", "stray"}]
    /\ ran \subseteq Calls /\ contested \subseteq Calls /\ failed \subseteq Calls
    /\ sent \in [Calls -> Seq(ReplyType)]
    /\ first \in [Calls -> ReplyType \cup {None}]
    /\ answers \in [Calls -> 0 .. MaxAnswers] /\ failures \in 0 .. MaxFailures
    /\ value \in Values /\ fired \in Values
    /\ lock \in Threads \cup {None} /\ unfired \in BOOLEAN

Answering(c) == \E w \in Threads : job[w].pc = "answer" /\ job[w].call = c

(***************************************************************************)
(* A call gets one reply at most, from the code or from libdbus but not    *)
(* from both.  A call of a method is kept until the stub has answered it,  *)
(* and its reply is the stub's first answer, whatever other threads        *)
(* answer meanwhile.  Two answers at the same time are the exception: the  *)
(* first part of the second turns the reply into a reply to it, and the    *)
(* caller gets neither.  Everything else that reaches the stub is replied  *)
(* to before the dispatcher is free again, unless the reply fails.         *)
(***************************************************************************)
RepliesExact ==
    \A c \in Calls :
        /\ Len(sent[c]) <= 1
        /\ (c \in ran /\ request[c].kind = "method" /\ c \notin contested) =>
              /\ pending[c] = "none" =>
                    first[c] # None /\ (c \in failed \/ sent[c] = <<first[c]>>)
              /\ pending[c] # "none" => sent[c] = <<>>
              /\ pending[c] \in {"return", "error"} => Answering(c)
              /\ pending[c] # "stray"
        /\ c \in ran /\ request[c].kind \notin {"fire", "method"} /\ dispatch.call # c =>
              c \in failed \/ Len(sent[c]) = 1

\* A blocking call that declares errors, has nothing to return and finds no
\* connection, is reported as done.
Unnoticed(c) == request[c].declared /\ ~request[c].outs /\ reply[c] = None /\ ~clientUp

(***************************************************************************)
(* A status says what happened.  SUCCESS: the stub was called, it          *)
(* returned, and the value is the one it returned (Properties.Set tells    *)
(* the value asked for).  NOT_AVAILABLE: the stub was not called and will  *)
(* not be, unless its reply failed, which libdbus reports as an unknown    *)
(* method.  OUT_OF_MEMORY: nothing is on its way.  An error event is       *)
(* notified for the errors the stub replied with, and for these always.    *)
(***************************************************************************)
StatusesTrue ==
    \A c \in Calls : phase[c] = "done" =>
        /\ status[c] = "SUCCESS" /\ request[c].how # "send" /\ ~Unnoticed(c) =>
              /\ c \in ran /\ Len(sent[c]) = 1 /\ sent[c][1].type = "return"
              /\ request[c].outs /\ request[c].kind # "fdSet" => result[c] = sent[c][1].value
        /\ status[c] = "NOT_AVAILABLE" =>
              /\ c \notin ran \/ c \in failed
              /\ \A i \in 1 .. Len(wire) : wire[i] # c
        /\ status[c] = "OUT_OF_MEMORY" => c \notin ran
        /\ c \in told => sent[c] = <<first[c]>> /\ first[c].type = "error"
        /\ reply[c] # None /\ reply[c].type = "error" /\ request[c].declared => c \in told

\* What a caller is told is what came of the call: exact replies, true statuses.
AnswersTrue == RepliesExact /\ StatusesTrue

(***************************************************************************)
(* When nobody is changing the attribute, the observers were told its      *)
(* value last, whether clients or the application changed it and in        *)
(* whatever order.  The lock hook of the stub makes it so: the value is    *)
(* read and signalled under it.  A change whose reply failed is not        *)
(* signalled until the next one.                                           *)
(***************************************************************************)
ObserversAgree ==
    /\ serviceUp /\ ~unfired
    /\ dispatch.pc \notin {"confirm", "fire", "firing"}
    /\ \A w \in Threads : job[w].pc # "change"
    => fired = value

(***************************************************************************)
(* Every call comes to an end: also behind another one that holds the      *)
(* static mutex of its function, and if the service never comes or never   *)
(* answers.                                                                *)
(***************************************************************************)
CallsReturn ==
    \A c \in Calls : phase[c] = "begun" ~> phase[c] = "done"
=============================================================================
