----------------------------- MODULE AsyncCalls -----------------------------
(***************************************************************************)
(* Asynchronous method calls over one DBusConnection, from the moment a    *)
(* thread hands a reply handler to sendDBusMessageWithReplyAsync until the *)
(* handler has been deleted.  Four kinds of threads share the handlers:    *)
(*                                                                         *)
(*   - the Threads that send,                                              *)
(*   - the main loop thread, which runs singleDispatch and the queue of    *)
(*     pushed functions and replies,                                       *)
(*   - the enforcer thread of the connection (enforceAsynchronousTimeouts),*)
(*   - a thread that disconnects and connects again.                       *)
(*                                                                         *)
(* An action is a critical section of one of the connection's mutexes, a   *)
(* user callback, or a call into libdbus.  A handler is named by the call  *)
(* it was made for; a DBusPendingCall is named by its address, which the   *)
(* allocator may hand out again once libdbus and the connection have       *)
(* dropped their references to it.                                         *)
(***************************************************************************)
EXTENDS Naturals, FiniteSets

CONSTANTS
  Calls,        \* the asynchronous calls (and their reply handlers)
  Infinite,     \* the calls made with DBUS_TIMEOUT_INFINITE
  Threads,      \* the application threads that send
  Pendings,     \* the addresses of DBusPendingCall objects
  Addresses,    \* the addresses malloc may return for the pending call of c
  OwnLoop,      \* TRUE: connect(true), the connection runs its own main loop
  MaxConnects,  \* bound: how often connect() succeeds
  None

ASSUME CallsAssumption ==
  /\ Infinite \subseteq Calls
  /\ Addresses \in [Calls -> SUBSET Pendings]
  /\ OwnLoop \in BOOLEAN
  /\ MaxConnects \in Nat \ {0}
  /\ None \notin Calls \cup Pendings

VARIABLES
  (* DBusProxyAsyncCallbackHandler, one per call *)
  handler,          \* "none", "live" or "deleted"
  execution,        \* executionStarted_ and executionFinished_
  timeoutOccurred,  \* the handlers whose timeoutOccurred_ is set
  hasToBeDeleted,   \* the handlers whose hasToBeDeleted_ is set
  answers,          \* how often onDBusMessageReply ran
  (* DBusPendingCall *)
  notifyData,       \* the handler in the PendingCallNotificationData
  attached,         \* the pending calls in libdbus' table of replies
  appRef,           \* the pending calls whose reference we still own
  (* the containers of DBusConnection that hold handlers *)
  timeoutMap,       \* timeoutMap_
  expired,          \* the entries of timeoutMap_ whose time point has passed
  infiniteHandlers, \* timeoutInfiniteAsyncHandlers_
  mainloopTimeouts, \* mainloopTimeouts_
  asyncHandlersToDelete,
  deletePosted,     \* a call of deleteAsyncHandlers is in the main loop queue
  replyQueue,       \* the MsgReplyQueueEntry objects in the main loop queue
  (* the connection *)
  connection,       \* connection_: "up", "closed" by us, "none"
  isDisconnecting, isDispatching, enforcerThreadCancelled,
  hasToStop,        \* of the connection's own main loop
  connects,         \* history: how often connect() succeeded
  (* the threads *)
  sender,           \* per sending thread: where it is, and its local variables
  main,             \* the same for the main loop thread
  batch,            \* the list that singleDispatch took from mainloopTimeouts_
  enforcerPc,
  scan,             \* the entries of timeoutMap_ the enforcer has still to visit
                    \* (while it waits: those it computed its timeout from)
  disconnectPc, disconnectBy

handlerVars  == <<handler, execution, timeoutOccurred, hasToBeDeleted, answers>>
pendingVars  == <<notifyData, attached, appRef>>
mapVars      == <<timeoutMap, expired>>
queueVars    == <<deletePosted, replyQueue>>
listVars     == <<infiniteHandlers, mainloopTimeouts, asyncHandlersToDelete>>
linkVars     == <<connection, isDisconnecting, isDispatching,
                  enforcerThreadCancelled, hasToStop, connects>>
mainVars     == <<main, batch>>
enforcerVars == <<enforcerPc, scan>>
closerVars   == <<disconnectPc, disconnectBy>>

vars == <<handlerVars, pendingVars, mapVars, queueVars, listVars, linkVars,
          sender, mainVars, enforcerVars, closerVars>>

-----------------------------------------------------------------------------
(* Types and initial state: the connection has just been connected.        *)

SendPcs     == {"idle", "sent", "failed", "deleteStale", "notify"}
MainPcs     == {"poll", "take", "deliver", "delivered", "dispatch", "reply",
                "callback", "returning", "finish", "notify", "endDispatch",
                "stopped"}
EnforcerPcs == {"check", "waiting", "woken", "onTimeout", "onNotify",
                "cleanup", "delete", "exited"}
Sender == [pc : SendPcs, call : Calls \cup {None},
           pending : Pendings \cup {None}, stale : Calls \cup {None}]
Main   == [pc : MainPcs, call : Calls \cup {None},
           pending : Pendings \cup {None}]

IdleSender == [pc |-> "idle", call |-> None, pending |-> None, stale |-> None]
MainAt(pc) == [pc |-> pc, call |-> None, pending |-> None]

CloserPcs   == {"idle", "waitDispatch", "close", "joinMain", "cancel",
                "joinEnforcer"}

TypeOK ==
  /\ handler \in [Calls -> {"none", "live", "deleted"}]
  /\ execution \in [Calls -> {"no", "started", "finished"}]
  /\ timeoutOccurred \subseteq Calls
  /\ hasToBeDeleted \subseteq Calls
  /\ answers \in [Calls -> Nat]
  /\ notifyData \in [Pendings -> Calls \cup {None}]
  /\ attached \subseteq Pendings
  /\ appRef \subseteq Pendings
  /\ timeoutMap \in [Pendings -> Calls \cup {None}]
  /\ expired \subseteq Pendings
  /\ infiniteHandlers \subseteq Calls
  /\ mainloopTimeouts \subseteq Calls
  /\ asyncHandlersToDelete \subseteq Calls
  /\ deletePosted \in BOOLEAN
  /\ replyQueue \subseteq Calls
  /\ connection \in {"up", "closed", "none"}
  /\ isDisconnecting \in BOOLEAN
  /\ isDispatching \in BOOLEAN
  /\ enforcerThreadCancelled \in BOOLEAN
  /\ hasToStop \in BOOLEAN
  /\ connects \in 1 .. MaxConnects
  /\ sender \in [Threads -> Sender]
  /\ main \in Main
  /\ batch \subseteq Calls
  /\ enforcerPc \in EnforcerPcs
  /\ scan \subseteq Pendings
  /\ disconnectPc \in CloserPcs
  /\ disconnectBy \in {"app", "main"}

Init ==
  /\ handler = [c \in Calls |-> "none"]
  /\ execution = [c \in Calls |-> "no"]
  /\ timeoutOccurred = {} /\ hasToBeDeleted = {}
  /\ answers = [c \in Calls |-> 0]
  /\ notifyData = [p \in Pendings |-> None]
  /\ attached = {} /\ appRef = {}
  /\ timeoutMap = [p \in Pendings |-> None]
  /\ expired = {}
  /\ infiniteHandlers = {} /\ mainloopTimeouts = {}
  /\ asyncHandlersToDelete = {} /\ deletePosted = FALSE /\ replyQueue = {}
  /\ connection = "up" /\ isDisconnecting = FALSE /\ isDispatching = FALSE
  /\ enforcerThreadCancelled = FALSE /\ hasToStop = FALSE /\ connects = 1
  /\ sender = [t \in Threads |-> IdleSender]
  /\ main = MainAt("poll") /\ batch = {}
  /\ enforcerPc = "check" /\ scan = {}
  /\ disconnectPc = "idle" /\ disconnectBy = "app"

-----------------------------------------------------------------------------
(* State helpers.                                                          *)

Keys == {p \in Pendings : timeoutMap[p] # None}

(* A DBusPendingCall is freed with its last reference: ours, the one of    *)
(* libdbus' table of pending replies, and the one libdbus takes while it   *)
(* runs the notify function.                                               *)
Freed == Pendings \ (appRef \cup attached \cup {main.pending})

(* The enforcer holds enforcerThreadMutex_ except in wait_for and after    *)
(* its loop.                                                               *)
EnforcerThreadMutexFree == enforcerPc \notin {"check", "onTimeout", "onNotify"}

(* ... and enforceTimeoutMutex_ while it walks over timeoutMap_.           *)
EnforceTimeoutMutexFree ==
  /\ enforcerPc # "cleanup"
  /\ enforcerPc \in {"onTimeout", "onNotify"} => scan = {}

(* enforceTimeoutCondition_.notify_one(), under enforcerThreadMutex_.      *)
NotifyEnforcer ==
  /\ EnforcerThreadMutexFree
  /\ enforcerPc' = IF enforcerPc = "waiting" THEN "woken" ELSE enforcerPc

(* disconnect() runs on the main loop thread, inside a callback of the     *)
(* user, and has not returned.                                             *)
MainBusyDisconnecting == disconnectPc # "idle" /\ disconnectBy = "main"

InCallback == main.pc \in {"delivered", "returning"}

-----------------------------------------------------------------------------
(* Sending.                                                                *)

(* sendDBusMessageWithReplyAsync up to the end of the connectionGuard_     *)
(* section, in three outcomes: not connected, so the caller's unique_ptr   *)
(* deletes the handler; no pending call came back; a pending call.         *)
SendRefused(t, c) ==
  /\ sender[t].pc = "idle" /\ handler[c] = "none"
  /\ connection = "none"
  /\ handler' = [handler EXCEPT ![c] = "deleted"]
  /\ UNCHANGED <<execution, timeoutOccurred, hasToBeDeleted, answers>>
  /\ UNCHANGED <<pendingVars, mapVars, queueVars, listVars, linkVars,
                 sender, mainVars, enforcerVars, closerVars>>

SendFailed(t, c) ==
  /\ sender[t].pc = "idle" /\ handler[c] = "none"
  /\ connection # "none"
  /\ handler' = [handler EXCEPT ![c] = "live"]
  /\ sender' = [sender EXCEPT
       ![t] = [IdleSender EXCEPT !.pc = "failed", !.call = c]]
  /\ UNCHANGED <<execution, timeoutOccurred, hasToBeDeleted, answers>>
  /\ UNCHANGED <<pendingVars, mapVars, queueVars, listVars, linkVars,
                 mainVars, enforcerVars, closerVars>>

Send(t, c) ==
  /\ sender[t].pc = "idle" /\ handler[c] = "none"
  /\ connection = "up"
  /\ \E p \in Addresses[c] \cap Freed :
       /\ notifyData' = [notifyData EXCEPT ![p] = c]
       /\ attached' = attached \cup {p}
       /\ appRef' = appRef \cup {p}
       /\ sender' = [sender EXCEPT
            ![t] = [IdleSender EXCEPT !.pc = "sent", !.call = c, !.pending = p]]
  /\ handler' = [handler EXCEPT ![c] = "live"]
  /\ UNCHANGED <<execution, timeoutOccurred, hasToBeDeleted, answers>>
  /\ UNCHANGED <<mapVars, queueVars, listVars, linkVars, mainVars,
                 enforcerVars, closerVars>>

(* Seeded fault: the slot of the pending call is pushed, not the handler.  *)
PushFailureSwapped(t) ==
  /\ sender[t].pc = "failed"
  /\ mainloopTimeouts' = mainloopTimeouts \cup {sender[t].pending}
  /\ sender' = [sender EXCEPT ![t] = IdleSender]
  /\ UNCHANGED <<infiniteHandlers, asyncHandlersToDelete>>
  /\ UNCHANGED <<handlerVars, pendingVars, mapVars, queueVars, linkVars,
                 mainVars, enforcerVars, closerVars>>

(* Seeded fault: a failed call is reported to nobody.                      *)
PushFailureForgotten(t) ==
  /\ sender[t].pc = "failed"
  /\ sender' = [sender EXCEPT ![t] = IdleSender]
  /\ UNCHANGED <<handlerVars, pendingVars, mapVars, queueVars, listVars,
                 linkVars, mainVars, enforcerVars, closerVars>>

(* The failed call is answered by the main loop (CONNECTION_FAILED).       *)
PushFailure(t) ==
  /\ sender[t].pc = "failed"
  /\ mainloopTimeouts' = mainloopTimeouts \cup {sender[t].call}
  /\ sender' = [sender EXCEPT ![t] = IdleSender]
  /\ UNCHANGED <<infiniteHandlers, asyncHandlersToDelete>>
  /\ UNCHANGED <<handlerVars, pendingVars, mapVars, queueVars, linkVars,
                 mainVars, enforcerVars, closerVars>>

(* Insertion into timeoutMap_; an entry that is already there for the      *)
(* address is replaced and its handler is remembered for deletion.         *)
RegisterTimeout(t) ==
  /\ sender[t].pc = "sent" /\ sender[t].call \notin Infinite
  /\ EnforceTimeoutMutexFree
  /\ LET p == sender[t].pending IN
       /\ timeoutMap' = [timeoutMap EXCEPT ![p] = sender[t].call]
       /\ expired' = expired \ {p}
       /\ sender' = [sender EXCEPT
            ![t] = IF timeoutMap[p] = None
                     THEN [IdleSender EXCEPT !.pc = "notify"]
                     ELSE [IdleSender EXCEPT !.pc = "deleteStale",
                                             !.stale = timeoutMap[p]]]
  /\ UNCHANGED <<handlerVars, pendingVars, queueVars, listVars, linkVars,
                 mainVars, enforcerVars, closerVars>>

DeleteStale(t) ==
  /\ sender[t].pc = "deleteStale"
  /\ handler' = [handler EXCEPT ![sender[t].stale] = "deleted"]
  /\ sender' = [sender EXCEPT ![t] = [IdleSender EXCEPT !.pc = "notify"]]
  /\ UNCHANGED <<execution, timeoutOccurred, hasToBeDeleted, answers>>
  /\ UNCHANGED <<pendingVars, mapVars, queueVars, listVars, linkVars,
                 mainVars, enforcerVars, closerVars>>

(* Seeded fault: the enforcer is not told of a new entry.                  *)
NotifyAfterSendLost(t) ==
  /\ sender[t].pc = "notify"
  /\ sender' = [sender EXCEPT ![t] = IdleSender]
  /\ UNCHANGED <<handlerVars, pendingVars, mapVars, queueVars, listVars,
                 linkVars, mainVars, enforcerVars, closerVars>>

NotifyAfterSend(t) ==
  /\ sender[t].pc = "notify"
  /\ NotifyEnforcer
  /\ sender' = [sender EXCEPT ![t] = IdleSender]
  /\ UNCHANGED scan
  /\ UNCHANGED <<handlerVars, pendingVars, mapVars, queueVars, listVars,
                 linkVars, mainVars, closerVars>>

RegisterInfinite(t) ==
  /\ sender[t].pc = "sent" /\ sender[t].call \in Infinite
  /\ infiniteHandlers' = infiniteHandlers \cup {sender[t].call}
  /\ sender' = [sender EXCEPT ![t] = IdleSender]
  /\ UNCHANGED <<mainloopTimeouts, asyncHandlersToDelete>>
  /\ UNCHANGED <<handlerVars, pendingVars, mapVars, queueVars, linkVars,
                 mainVars, enforcerVars, closerVars>>

(* pushDBusMessageReplyToMainLoop: the proxy found its service missing.    *)
PushReply(t, c) ==
  /\ sender[t].pc = "idle" /\ handler[c] = "none"
  /\ handler' = [handler EXCEPT ![c] = "live"]
  /\ hasToBeDeleted' = hasToBeDeleted \cup {c}
  /\ replyQueue' = replyQueue \cup {c}
  /\ UNCHANGED <<execution, timeoutOccurred, answers, deletePosted>>
  /\ UNCHANGED <<pendingVars, mapVars, listVars, linkVars, sender,
                 mainVars, enforcerVars, closerVars>>

-----------------------------------------------------------------------------
(* The main loop thread.                                                   *)

(* DBusDispatchSource::prepare/check -> isDispatchReady.  libdbus has data *)
(* only when something may have come in; calls waiting for their reply     *)
(* stand for that.                                                         *)
IsDispatchReady ==
  /\ main.pc = "poll" /\ ~isDisconnecting
  /\ (connection # "none" /\ attached # {}) \/ mainloopTimeouts # {}
  /\ main' = MainAt("take")
  /\ UNCHANGED <<handlerVars, pendingVars, mapVars, queueVars, listVars,
                 linkVars, sender, batch, enforcerVars, closerVars>>

(* Seeded fault: mainloopTimeouts_ is copied but not cleared.              *)
TakeTimeoutsKept ==
  /\ main.pc = "take"
  /\ batch' = mainloopTimeouts
  /\ main' = MainAt("deliver")
  /\ UNCHANGED <<handlerVars, pendingVars, mapVars, queueVars, listVars,
                 linkVars, sender, enforcerVars, closerVars>>

(* singleDispatch: copy and clear mainloopTimeouts_ ...                    *)
TakeTimeouts ==
  /\ main.pc = "take"
  /\ batch' = mainloopTimeouts
  /\ mainloopTimeouts' = {}
  /\ main' = MainAt("deliver")
  /\ UNCHANGED <<infiniteHandlers, asyncHandlersToDelete>>
  /\ UNCHANGED <<handlerVars, pendingVars, mapVars, queueVars, linkVars,
                 sender, enforcerVars, closerVars>>

(* ... call each handler back with its error ...                           *)
DeliverTimeout ==
  /\ main.pc = "deliver"
  /\ \E c \in batch :
       /\ answers' = [answers EXCEPT ![c] = @ + 1]
       /\ main' = [MainAt("delivered") EXCEPT !.call = c]
  /\ UNCHANGED <<handler, execution, timeoutOccurred, hasToBeDeleted, batch>>
  /\ UNCHANGED <<pendingVars, mapVars, queueVars, listVars, linkVars,
                 sender, enforcerVars, closerVars>>

(* ... and delete it once the callback has returned ...                    *)
DeleteDelivered ==
  /\ main.pc = "delivered" /\ ~MainBusyDisconnecting
  /\ handler' = [handler EXCEPT ![main.call] = "deleted"]
  /\ batch' = batch \ {main.call}
  /\ main' = MainAt("deliver")
  /\ UNCHANGED <<execution, timeoutOccurred, hasToBeDeleted, answers>>
  /\ UNCHANGED <<pendingVars, mapVars, queueVars, listVars, linkVars,
                 sender, enforcerVars, closerVars>>

(* ... then setDispatching(true), which a disconnect refuses.              *)
BeginDispatch ==
  /\ main.pc = "deliver" /\ batch = {}
  /\ isDispatching' = ~isDisconnecting
  /\ main' = MainAt(IF isDisconnecting THEN "poll" ELSE "dispatch")
  /\ UNCHANGED <<connection, isDisconnecting, enforcerThreadCancelled,
                 hasToStop, connects>>
  /\ UNCHANGED <<handlerVars, pendingVars, mapVars, queueVars, listVars,
                 sender, batch, enforcerVars, closerVars>>

(* dbus_connection_dispatch finds the reply of a pending call: libdbus     *)
(* marks it completed, takes it out of its table and calls our notify      *)
(* function with a reference of its own ...                                *)
CompletePendingCall(p) ==
  /\ main.pc = "dispatch" /\ connection = "up"
  /\ p \in attached
  /\ attached' = attached \ {p}
  /\ main' = [pc |-> "reply", call |-> notifyData[p], pending |-> p]
  /\ UNCHANGED <<notifyData, appRef>>
  /\ UNCHANGED <<handlerVars, mapVars, queueVars, listVars, linkVars,
                 sender, batch, enforcerVars, closerVars>>

(* ... or some other message, or none.                                     *)
DispatchOther ==
  /\ main.pc = "dispatch"
  /\ main' = MainAt("endDispatch")
  /\ UNCHANGED <<handlerVars, pendingVars, mapVars, queueVars, listVars,
                 linkVars, sender, batch, enforcerVars, closerVars>>

(* Seeded fault: a late reply is delivered after the timeout.              *)
ProcessReplyAlways == TRUE

(* onLibdbusPendingCall: the first section under the handler's mutex ...   *)
ProcessReply == main.call \notin timeoutOccurred

StartExecution ==
  /\ main.pc = "reply"
  /\ main' = [main EXCEPT !.pc = IF ProcessReply THEN "callback" ELSE "finish"]
  /\ execution' = [execution EXCEPT
       ![main.call] = IF @ = "finished" THEN @ ELSE "started"]
  /\ UNCHANGED <<handler, timeoutOccurred, hasToBeDeleted, answers>>
  /\ UNCHANGED <<pendingVars, mapVars, queueVars, listVars, linkVars,
                 sender, batch, enforcerVars, closerVars>>

(* ... the callback of the user, without a lock ...                        *)
OnDBusMessageReply ==
  /\ main.pc = "callback"
  /\ answers' = [answers EXCEPT ![main.call] = @ + 1]
  /\ main' = [main EXCEPT !.pc = "returning"]
  /\ UNCHANGED <<handler, execution, timeoutOccurred, hasToBeDeleted>>
  /\ UNCHANGED <<pendingVars, mapVars, queueVars, listVars, linkVars,
                 sender, batch, enforcerVars, closerVars>>

(* Seeded fault: the execution is never marked finished.                   *)
SetExecutionFinishedMissing ==
  /\ appRef' = IF main.pending # None /\ main.pc = "returning"
                 THEN appRef \ {main.pending} ELSE appRef
  /\ UNCHANGED execution

(* ... and the second section: give the reference of the pending call      *)
(* back and mark the execution finished, if the callback was made (then we *)
(* come from "returning"); delete the handler when it was left to us.      *)
SetExecutionFinished ==
  IF main.pending # None /\ main.pc = "returning"
    THEN /\ appRef' = appRef \ {main.pending}
         /\ execution' = [execution EXCEPT ![main.call] = "finished"]
    ELSE UNCHANGED <<appRef, execution>>

FinishExecution ==
  /\ main.pc \in {"returning", "finish"} /\ ~MainBusyDisconnecting
  /\ SetExecutionFinished
  /\ IF main.call \in hasToBeDeleted
       THEN /\ handler' = [handler EXCEPT ![main.call] = "deleted"]
            /\ main' = [MainAt("endDispatch") EXCEPT !.pending = main.pending]
       ELSE /\ main' = [MainAt("notify") EXCEPT !.pending = main.pending]
            /\ UNCHANGED handler
  /\ UNCHANGED <<timeoutOccurred, hasToBeDeleted, answers>>
  /\ UNCHANGED <<notifyData, attached>>
  /\ UNCHANGED <<mapVars, queueVars, listVars, linkVars, sender, batch,
                 enforcerVars, closerVars>>

NotifyAfterReply ==
  /\ main.pc = "notify"
  /\ NotifyEnforcer
  /\ main' = [main EXCEPT !.pc = "endDispatch"]
  /\ UNCHANGED scan
  /\ UNCHANGED <<handlerVars, pendingVars, mapVars, queueVars, listVars,
                 linkVars, sender, batch, closerVars>>

(* libdbus drops its reference and returns; setDispatching(false).         *)
(* DBusMainLoop::dispatch calls singleDispatch again while data remains.   *)
EndDispatch ==
  /\ main.pc = "endDispatch"
  /\ isDispatching' = FALSE
  /\ \/ main' = MainAt("poll")
     \/ main.pending # None /\ main' = MainAt("take")
  /\ UNCHANGED <<connection, isDisconnecting, enforcerThreadCancelled,
                 hasToStop, connects>>
  /\ UNCHANGED <<handlerVars, pendingVars, mapVars, queueVars, listVars,
                 sender, batch, enforcerVars, closerVars>>

(* DBusQueueDispatchSource::dispatch on a MsgReplyQueueEntry: the entry is *)
(* popped, and dispatchDBusMessageReply drops it when a disconnect refuses *)
(* setDispatching(true).                                                   *)
PopReply ==
  /\ main.pc = "poll"
  /\ \E c \in replyQueue :
       /\ replyQueue' = replyQueue \ {c}
       /\ IF isDisconnecting
            THEN UNCHANGED <<main, isDispatching>>
            ELSE /\ isDispatching' = TRUE
                 /\ main' = [MainAt("reply") EXCEPT !.call = c]
  /\ UNCHANGED deletePosted
  /\ UNCHANGED <<connection, isDisconnecting, enforcerThreadCancelled,
                 hasToStop, connects>>
  /\ UNCHANGED <<handlerVars, pendingVars, mapVars, listVars, sender, batch,
                 enforcerVars, closerVars>>

(* The same on the function deleteAsyncHandlers.                           *)
PopDelete ==
  /\ main.pc = "poll" /\ deletePosted
  /\ deletePosted' = FALSE
  /\ handler' = [c \in Calls |->
       IF c \in asyncHandlersToDelete THEN "deleted" ELSE handler[c]]
  /\ asyncHandlersToDelete' = {}
  /\ UNCHANGED <<execution, timeoutOccurred, hasToBeDeleted, answers,
                 replyQueue, infiniteHandlers, mainloopTimeouts>>
  /\ UNCHANGED <<pendingVars, mapVars, linkVars, sender, mainVars,
                 enforcerVars, closerVars>>

(* DBusMainLoop::run leaves its loop.                                      *)
StopMainLoop ==
  /\ main.pc = "poll" /\ hasToStop
  /\ main' = MainAt("stopped")
  /\ UNCHANGED <<handlerVars, pendingVars, mapVars, queueVars, listVars,
                 linkVars, sender, batch, enforcerVars, closerVars>>

-----------------------------------------------------------------------------
(* The enforcer thread.                                                    *)

(* Test of the loop; then wait_for until the earliest time point of the    *)
(* map, which releases enforcerThreadMutex_.                               *)
EnforcerCheck ==
  /\ enforcerPc = "check"
  /\ enforcerPc' = IF enforcerThreadCancelled THEN "cleanup" ELSE "waiting"
  /\ scan' = Keys
  /\ UNCHANGED <<handlerVars, pendingVars, mapVars, queueVars, listVars,
                 linkVars, sender, mainVars, closerVars>>

(* wait_for returns, with cv_status::timeout or without.                   *)
EnforcerTimedOut ==
  /\ enforcerPc \in {"waiting", "woken"} /\ scan \cap expired # {}
  /\ enforcerPc' = "onTimeout"
  /\ scan' = Keys
  /\ UNCHANGED <<handlerVars, pendingVars, mapVars, queueVars, listVars,
                 linkVars, sender, mainVars, closerVars>>

EnforcerNotified ==
  /\ enforcerPc = "woken"
  /\ enforcerPc' = "onNotify"
  /\ scan' = Keys
  /\ UNCHANGED <<handlerVars, pendingVars, mapVars, queueVars, listVars,
                 linkVars, sender, mainVars, closerVars>>

(* The expired entries.  The execution flags are read, and a call that has *)
(* not started is given up, in one section of the handler's mutex; TIMEOUT *)
(* then goes to the main loop and the reference to the pending call back.  *)
GiveUp(p) ==
  /\ scan' = scan \ {p}
  /\ expired' = expired \ {p}
  /\ timeoutMap' = [timeoutMap EXCEPT ![p] = None]
  /\ timeoutOccurred' = timeoutOccurred \cup {timeoutMap[p]}
  /\ mainloopTimeouts' = mainloopTimeouts \cup {timeoutMap[p]}
  /\ attached' = attached \ {p}
  /\ appRef' = appRef \ {p}
  /\ UNCHANGED <<handler, execution, hasToBeDeleted, answers, notifyData,
                 infiniteHandlers, asyncHandlersToDelete, enforcerPc>>
  /\ UNCHANGED <<queueVars, linkVars, sender, mainVars, closerVars>>

(* Seeded fault: a call is given up although its callback is running.      *)
ExpireUnfinished(p) ==
  /\ enforcerPc = "onTimeout" /\ p \in scan \cap expired
  /\ execution[timeoutMap[p]] # "finished"
  /\ GiveUp(p)

ExpireUnstarted(p) ==
  /\ enforcerPc = "onTimeout" /\ p \in scan \cap expired
  /\ execution[timeoutMap[p]] = "no"
  /\ GiveUp(p)

(* Still running: look at the entry again 100 ms later.                    *)
ExpireRunning(p) ==
  /\ enforcerPc = "onTimeout" /\ p \in scan \cap expired
  /\ execution[timeoutMap[p]] = "started"
  /\ scan' = scan \ {p}
  /\ expired' = expired \ {p}
  /\ UNCHANGED <<timeoutMap, enforcerPc>>
  /\ UNCHANGED <<handlerVars, pendingVars, queueVars, listVars, linkVars,
                 sender, mainVars, closerVars>>

(* Seeded fault: deleteAsyncHandlers is not pushed to the main loop.       *)
CollectFinishedUnposted(p) ==
  /\ enforcerPc \in {"onTimeout", "onNotify"} /\ p \in scan
  /\ execution[timeoutMap[p]] = "finished"
  /\ scan' = scan \ {p}
  /\ expired' = expired \ {p}
  /\ timeoutMap' = [timeoutMap EXCEPT ![p] = None]
  /\ asyncHandlersToDelete' = asyncHandlersToDelete \cup {timeoutMap[p]}
  /\ UNCHANGED <<infiniteHandlers, mainloopTimeouts, enforcerPc>>
  /\ UNCHANGED <<handlerVars, pendingVars, queueVars, linkVars, sender,
                 mainVars, closerVars>>

(* Finished, expired or not: to be deleted by the main loop.               *)
CollectFinished(p) ==
  /\ enforcerPc \in {"onTimeout", "onNotify"} /\ p \in scan
  /\ execution[timeoutMap[p]] = "finished"
  /\ scan' = scan \ {p}
  /\ expired' = expired \ {p}
  /\ timeoutMap' = [timeoutMap EXCEPT ![p] = None]
  /\ asyncHandlersToDelete' = asyncHandlersToDelete \cup {timeoutMap[p]}
  /\ deletePosted' = TRUE
  /\ UNCHANGED <<infiniteHandlers, mainloopTimeouts, replyQueue, enforcerPc>>
  /\ UNCHANGED <<handlerVars, pendingVars, linkVars, sender, mainVars,
                 closerVars>>

(* Neither expired (after a notification: looked at) nor finished.         *)
SkipEntry(p) ==
  /\ enforcerPc \in {"onTimeout", "onNotify"} /\ p \in scan
  /\ enforcerPc = "onTimeout" => p \notin expired
  /\ execution[timeoutMap[p]] # "finished"
  /\ scan' = scan \ {p}
  /\ UNCHANGED enforcerPc
  /\ UNCHANGED <<handlerVars, pendingVars, mapVars, queueVars, listVars,
                 linkVars, sender, mainVars, closerVars>>

(* After the map, the handlers without timeout.                            *)
EnforceInfinite ==
  /\ enforcerPc \in {"onTimeout", "onNotify"} /\ scan = {}
  /\ LET done == {c \in infiniteHandlers : execution[c] = "finished"} IN
       /\ infiniteHandlers' = infiniteHandlers \ done
       /\ asyncHandlersToDelete' = asyncHandlersToDelete \cup done
       /\ deletePosted' = (deletePosted \/ done # {})
  /\ enforcerPc' = "check"
  /\ UNCHANGED <<mainloopTimeouts, replyQueue, scan>>
  /\ UNCHANGED <<handlerVars, pendingVars, mapVars, linkVars, sender,
                 mainVars, closerVars>>

(* Seeded fault: a handler whose callback is running is deleted as well.   *)
CleanupEntryRunning(p) ==
  /\ enforcerPc = "cleanup" /\ p \in scan
  /\ scan' = scan \ {p}
  /\ timeoutMap' = [timeoutMap EXCEPT ![p] = None]
  /\ expired' = expired \ {p}
  /\ asyncHandlersToDelete' = asyncHandlersToDelete \cup {timeoutMap[p]}
  /\ UNCHANGED <<infiniteHandlers, mainloopTimeouts, enforcerPc>>
  /\ UNCHANGED <<handlerVars, pendingVars, queueVars, linkVars, sender,
                 mainVars, closerVars>>

(* The loop was cancelled: handlers in the middle of their execution are   *)
(* left to the main loop thread, all others are deleted here.              *)
CleanupEntry(p) ==
  /\ enforcerPc = "cleanup" /\ p \in scan
  /\ scan' = scan \ {p}
  /\ timeoutMap' = [timeoutMap EXCEPT ![p] = None]
  /\ expired' = expired \ {p}
  /\ LET c == timeoutMap[p] IN
     IF execution[c] = "started"
       THEN /\ hasToBeDeleted' = hasToBeDeleted \cup {c}
            /\ UNCHANGED asyncHandlersToDelete
       ELSE /\ asyncHandlersToDelete' = asyncHandlersToDelete \cup {c}
            /\ UNCHANGED hasToBeDeleted
  /\ UNCHANGED <<handler, execution, timeoutOccurred, answers,
                 infiniteHandlers, mainloopTimeouts, enforcerPc>>
  /\ UNCHANGED <<pendingVars, queueVars, linkVars, sender, mainVars,
                 closerVars>>

CleanupInfinite ==
  /\ enforcerPc = "cleanup" /\ scan = {}
  /\ LET running == {c \in infiniteHandlers : execution[c] = "started"} IN
       /\ hasToBeDeleted' = hasToBeDeleted \cup running
       /\ asyncHandlersToDelete' =
            asyncHandlersToDelete \cup (infiniteHandlers \ running)
  /\ infiniteHandlers' = {}
  /\ enforcerPc' = "delete"
  /\ UNCHANGED <<handler, execution, timeoutOccurred, answers,
                 mainloopTimeouts, scan>>
  /\ UNCHANGED <<pendingVars, mapVars, queueVars, linkVars, sender, mainVars,
                 closerVars>>

EnforcerDelete ==
  /\ enforcerPc = "delete"
  /\ handler' = [c \in Calls |->
       IF c \in asyncHandlersToDelete THEN "deleted" ELSE handler[c]]
  /\ asyncHandlersToDelete' = {}
  /\ enforcerPc' = "exited"
  /\ UNCHANGED <<execution, timeoutOccurred, hasToBeDeleted, answers,
                 infiniteHandlers, mainloopTimeouts, scan>>
  /\ UNCHANGED <<pendingVars, mapVars, queueVars, linkVars, sender, mainVars,
                 closerVars>>

(* Time passes: the time point of an entry lies in the past.               *)
Elapse(p) ==
  /\ p \in Keys \ expired
  /\ expired' = expired \cup {p}
  /\ UNCHANGED timeoutMap
  /\ UNCHANGED <<handlerVars, pendingVars, queueVars, listVars, linkVars,
                 sender, mainVars, enforcerVars, closerVars>>

-----------------------------------------------------------------------------
(* disconnect() and connect().                                             *)

(* Seeded fault: a callback that disconnects waits for its own dispatch.   *)
DisconnectBeginWaiting(by) ==
  /\ disconnectPc = "idle" /\ connection = "up"
  /\ by = "main" => InCallback
  /\ isDisconnecting' = TRUE
  /\ disconnectBy' = by
  /\ disconnectPc' = IF isDispatching THEN "waitDispatch" ELSE "close"
  /\ UNCHANGED <<connection, isDispatching, enforcerThreadCancelled,
                 hasToStop, connects>>
  /\ UNCHANGED <<handlerVars, pendingVars, mapVars, queueVars, listVars,
                 sender, mainVars, enforcerVars>>

(* The section under connectionGuard_.  Only a thread that is not the      *)
(* dispatching one waits for the end of the running dispatch.              *)
DisconnectBegin(by) ==
  /\ disconnectPc = "idle" /\ connection = "up"
  /\ by = "main" => InCallback
  /\ isDisconnecting' = TRUE
  /\ disconnectBy' = by
  /\ disconnectPc' = IF by = "app" /\ isDispatching
                       THEN "waitDispatch" ELSE "close"
  /\ UNCHANGED <<connection, isDispatching, enforcerThreadCancelled,
                 hasToStop, connects>>
  /\ UNCHANGED <<handlerVars, pendingVars, mapVars, queueVars, listVars,
                 sender, mainVars, enforcerVars>>

DisconnectWait ==
  /\ disconnectPc = "waitDispatch" /\ ~isDispatching
  /\ disconnectPc' = "close"
  /\ UNCHANGED disconnectBy
  /\ UNCHANGED <<handlerVars, pendingVars, mapVars, queueVars, listVars,
                 linkVars, sender, mainVars, enforcerVars>>

(* dbus_connection_close, and stop of the own main loop.                   *)
DisconnectClose ==
  /\ disconnectPc = "close"
  /\ connection' = "closed"
  /\ hasToStop' = OwnLoop
  /\ disconnectPc' = IF OwnLoop /\ disconnectBy = "app"
                       THEN "joinMain" ELSE "cancel"
  /\ UNCHANGED <<isDisconnecting, isDispatching, enforcerThreadCancelled,
                 connects, disconnectBy>>
  /\ UNCHANGED <<handlerVars, pendingVars, mapVars, queueVars, listVars,
                 sender, mainVars, enforcerVars>>

DisconnectJoinMain ==
  /\ disconnectPc = "joinMain" /\ main.pc = "stopped"
  /\ disconnectPc' = "cancel"
  /\ UNCHANGED disconnectBy
  /\ UNCHANGED <<handlerVars, pendingVars, mapVars, queueVars, listVars,
                 linkVars, sender, mainVars, enforcerVars>>

DisconnectCancel ==
  /\ disconnectPc = "cancel"
  /\ NotifyEnforcer
  /\ enforcerThreadCancelled' = TRUE
  /\ disconnectPc' = "joinEnforcer"
  /\ UNCHANGED <<connection, isDisconnecting, isDispatching, hasToStop,
                 connects, scan, disconnectBy>>
  /\ UNCHANGED <<handlerVars, pendingVars, mapVars, queueVars, listVars,
                 sender, mainVars>>

(* The enforcer has been joined; dbus_connection_unref frees the libdbus   *)
(* connection and its table of pending replies.                            *)
DisconnectRelease ==
  /\ disconnectPc = "joinEnforcer" /\ enforcerPc = "exited"
  /\ connection' = "none"
  /\ attached' = {}
  /\ disconnectPc' = "idle"
  /\ UNCHANGED <<isDisconnecting, isDispatching, enforcerThreadCancelled,
                 hasToStop, connects, notifyData, appRef, disconnectBy>>
  /\ UNCHANGED <<handlerVars, mapVars, queueVars, listVars, sender, mainVars,
                 enforcerVars>>

(* connect(): a new enforcer thread and, with an own main loop, a new loop *)
(* with an empty queue.  A new own loop starts after the old one stopped.  *)
Connect ==
  /\ connection = "none" /\ disconnectPc = "idle"
  /\ connects < MaxConnects
  /\ OwnLoop => main.pc = "stopped"
  /\ connection' = "up"
  /\ connects' = connects + 1
  /\ isDisconnecting' = FALSE
  /\ enforcerPc' = "check" /\ scan' = {}
  /\ IF OwnLoop
       THEN /\ main' = MainAt("poll")
            /\ hasToStop' = FALSE /\ deletePosted' = FALSE /\ replyQueue' = {}
       ELSE UNCHANGED <<main, hasToStop, deletePosted, replyQueue>>
  /\ UNCHANGED <<isDispatching, enforcerThreadCancelled, batch>>
  /\ UNCHANGED <<handlerVars, pendingVars, mapVars, listVars, sender,
                 closerVars>>

-----------------------------------------------------------------------------
(* The specification.                                                      *)

SenderStart(t, c) ==
  SendRefused(t, c) \/ SendFailed(t, c) \/ Send(t, c) \/ PushReply(t, c)

SenderStep(t) ==
  \/ PushFailure(t) \/ RegisterTimeout(t) \/ DeleteStale(t)
  \/ NotifyAfterSend(t) \/ RegisterInfinite(t)

SenderNext(t) == (\E c \in Calls : SenderStart(t, c)) \/ SenderStep(t)

SingleDispatch ==
  \/ TakeTimeouts \/ DeliverTimeout \/ DeleteDelivered \/ BeginDispatch
  \/ (\E p \in Pendings : CompletePendingCall(p)) \/ DispatchOther
  \/ StartExecution \/ OnDBusMessageReply \/ FinishExecution
  \/ NotifyAfterReply \/ EndDispatch

MainNext ==
  IsDispatchReady \/ SingleDispatch \/ PopReply \/ PopDelete \/ StopMainLoop

EnforcerNext ==
  \/ EnforcerCheck \/ EnforcerTimedOut \/ EnforcerNotified
  \/ \E p \in Pendings :
       \/ ExpireUnstarted(p) \/ ExpireRunning(p)
       \/ CollectFinished(p) \/ SkipEntry(p) \/ CleanupEntry(p)
  \/ EnforceInfinite \/ CleanupInfinite \/ EnforcerDelete

DisconnectNext ==
  \/ DisconnectWait \/ DisconnectClose \/ DisconnectJoinMain
  \/ DisconnectCancel \/ DisconnectRelease

Next ==
  \/ \E t \in Threads : SenderNext(t)
  \/ MainNext
  \/ EnforcerNext
  \/ \E p \in Pendings : Elapse(p)
  \/ \E by \in {"app", "main"} : DisconnectBegin(by)
  \/ DisconnectNext
  \/ Connect

Spec == Init /\ [][Next]_vars

(* Threads that are not blocked go on, callbacks of the user return, time  *)
(* passes, an iteration of the main loop visits every source that is ready *)
(* (strong fairness for the queue), and a thread that waits for            *)
(* enforcerThreadMutex_ gets it in one of the enforcer's waits.  No reply  *)
(* has to arrive, nobody has to send or to disconnect.                     *)
Fairness ==
  /\ \A t \in Threads : WF_vars(SenderStep(t))
  /\ WF_vars(MainNext) /\ SF_vars(PopReply) /\ SF_vars(PopDelete)
  /\ WF_vars(EnforcerNext)
  /\ WF_vars(\E p \in Pendings : Elapse(p))
  /\ WF_vars(DisconnectNext) /\ SF_vars(DisconnectCancel)

FairSpec == Spec /\ Fairness

-----------------------------------------------------------------------------
(* Properties.                                                             *)

(* The connection was told to disconnect, now or in an earlier life.       *)
Closing == isDisconnecting \/ enforcerThreadCancelled

(* Who will act on the handler of c next: every place that holds a pointer *)
(* to it and is obliged to pass it on or to delete it.                     *)
Holders(c) ==
  {<<"sender", t>> : t \in {u \in Threads :
       sender[u].pc \in {"sent", "failed"} /\ sender[u].call = c}}
  \cup {<<"stale", t>> : t \in {u \in Threads :
       sender[u].pc = "deleteStale" /\ sender[u].stale = c}}
  \cup {<<"timeoutMap", p>> : p \in {q \in Pendings : timeoutMap[q] = c}}
  \cup {<<"infinite", None>> : x \in infiniteHandlers \cap {c}}
  \cup {<<"mainloopTimeouts", None>> : x \in mainloopTimeouts \cap {c}}
  \cup {<<"batch", None>> : x \in batch \cap {c}}
  \cup {<<"toDelete", None>> : x \in asyncHandlersToDelete \cap {c}}
  \cup {<<"replyQueue", None>> : x \in replyQueue \cap {c}}
  \cup {<<"main", None>> : x \in hasToBeDeleted \cap
          (IF main.pc \in {"reply", "callback", "returning", "finish"}
             THEN {main.call} ELSE {}) \cap {c}}

(* A handler is never responsible to two parties: no sequence of replies,  *)
(* timeouts, key reuse and disconnects puts it into two of the containers, *)
(* or into one of them while a thread is about to delete it.  Each party   *)
(* deletes what it holds, so two of them mean a double delete.             *)
SingleHolder == \A c \in Calls : \A x, y \in Holders(c) : x = y

(* Nothing that will be followed points to a deleted handler: not the      *)
(* containers, not the locals of a thread, and not the notify data of a    *)
(* call libdbus may still complete.                                        *)
NoDanglingHandler ==
  /\ \A c \in Calls : Holders(c) # {} => handler[c] = "live"
  /\ main.pc \in {"reply", "callback", "returning", "finish"}
       => handler[main.call] = "live"
  /\ main.pc = "dispatch"
       => \A p \in attached : handler[notifyData[p]] = "live"

(* No handler is forgotten: until the connection is told to close, a live  *)
(* handler is held by exactly one party.                                   *)
NoHandlerForgotten ==
  Closing \/ \A c \in Calls : handler[c] = "live" => Holders(c) # {}

(* A handler is owned: by one party, and never by nobody.                  *)
HandlerOwned == SingleHolder /\ NoHandlerForgotten

(* The reference we own on a DBusPendingCall is there whenever somebody is *)
(* going to use or return it: the enforcer for an entry whose execution    *)
(* has not finished, the sender that still has to register it, and the     *)
(* main loop thread at the end of onLibdbusPendingCall.  Timeout and reply *)
(* never both return it.                                                   *)
PendingReferenceHeld ==
  /\ \A p \in Keys : execution[timeoutMap[p]] # "finished" => p \in appRef
  /\ main.pending # None /\ main.pc \in {"callback", "returning"}
         => main.pending \in appRef

(* Ownership while threads race: a handler is owned by one party, and the *)
(* reference to its pending call is kept for the one that will return it.  *)
Ownership == HandlerOwned /\ PendingReferenceHeld

(* "key has been reused": the entry that an insertion finds under its key  *)
(* belongs to a call whose execution has finished.                         *)
StaleEntryFinished ==
  \A t \in Threads :
    sender[t].pc = "deleteStale" => execution[sender[t].stale] = "finished"

(* The handlers are used as the contract of the interface says.            *)
Contract == INSTANCE AsyncCallContract WITH closing <- Closing
ImplementsContract == Contract!ContractSpec

(* A call is called back at most once, whatever the number of connects.    *)
AnsweredAtMostOnce == \A c \in Calls : answers[c] <= 1

(* Every call with a timeout is answered, by a reply or by the enforcer,   *)
(* unless the connection is told to close.                                 *)
EveryCallAnswered ==
  \A c \in Calls \ Infinite :
    handler[c] = "live" ~> (answers[c] > 0 \/ Closing)

(* An answered handler with a timeout is deleted: a finished execution is  *)
(* noticed even if the notification came before the registration.          *)
HandlerReleased ==
  \A c \in Calls \ Infinite :
    answers[c] > 0 ~> (handler[c] = "deleted" \/ Closing)

(* disconnect() returns, also when it is called from a callback.           *)
DisconnectTerminates == disconnectPc # "idle" ~> disconnectPc = "idle"

(* Every call with a timeout runs to its end, whatever the senders, the    *)
(* enforcer and the main loop do meanwhile: answered, and then released;   *)
(* and so does disconnect().                                               *)
CallsComplete == EveryCallAnswered /\ HandlerReleased /\ DisconnectTerminates
=============================================================================
