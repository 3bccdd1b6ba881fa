-------------------------- MODULE AsyncCallsProofs --------------------------
(***************************************************************************)
(* Proofs about AsyncCalls, for all sets of calls, threads and addresses,  *)
(* every allocator, and any number of connects: the types, that a call is  *)
(* answered at most once, that our reference to a pending call is there    *)
(* when it is used, and that a handler has at most one holder.  Then,      *)
(* under conditions: no deleted handler is used, the contract is kept.     *)
(***************************************************************************)
EXTENDS AsyncCalls, TLAPS

-----------------------------------------------------------------------------
(* The inductive invariant.                                                *)

(* The main loop thread has a handler in its hands.                        *)
Busy == main.pc \in {"reply", "callback", "returning", "finish"}

(* The handler that a sending thread holds, if any.                        *)
Held(t) ==
  IF sender[t].pc \in {"sent", "failed"} THEN sender[t].call
  ELSE IF sender[t].pc = "deleteStale" THEN sender[t].stale
  ELSE None

InAList(c) ==
  \/ c \in infiniteHandlers \/ c \in mainloopTimeouts \/ c \in batch
  \/ c \in asyncHandlersToDelete \/ c \in replyQueue \/ c \in hasToBeDeleted

(* The local variables that a program point relies on are set.             *)
LocalsSet ==
  /\ \A t \in Threads :
       /\ sender[t].pc \in {"sent", "failed"} => sender[t].call \in Calls
       /\ sender[t].pc = "sent" => sender[t].pending \in Pendings
       /\ sender[t].pc = "deleteStale" => sender[t].stale \in Calls
  /\ Busy \/ main.pc = "delivered" => main.call \in Calls
  /\ main.pc = "delivered" => main.call \in batch
  /\ batch # {} => main.pc \in {"deliver", "delivered"}
  /\ scan \subseteq Keys /\ expired \subseteq Keys

(* Nothing knows a handler that has not been made.                         *)
FreshUnknown ==
  \A c \in Calls : handler[c] = "none" =>
    /\ answers[c] = 0 /\ ~InAList(c)
    /\ \A t \in Threads : Held(t) # c
    /\ \A p \in Pendings : timeoutMap[p] # c /\ notifyData[p] # c
    /\ Busy => main.call # c

(* The lists have no handler in common; only the handlers of pushed        *)
(* replies are marked for deletion and in a list.                          *)
ListsDisjoint ==
  \A c \in Calls :
    /\ c \in infiniteHandlers => c \notin mainloopTimeouts \cup batch
         \cup asyncHandlersToDelete \cup replyQueue \cup hasToBeDeleted
    /\ c \in mainloopTimeouts => c \notin batch
         \cup asyncHandlersToDelete \cup replyQueue \cup hasToBeDeleted
    /\ c \in batch => c \notin
         asyncHandlersToDelete \cup replyQueue \cup hasToBeDeleted
    /\ c \in asyncHandlersToDelete => c \notin replyQueue \cup hasToBeDeleted

(* A handler is under one key of the map, and then in no list.             *)
MapExclusive ==
  /\ \A p, q \in Keys : timeoutMap[p] = timeoutMap[q] => p = q
  /\ \A p \in Keys : ~InAList(timeoutMap[p])

(* A handler is held by one sending thread, and then in no container.      *)
SendersExclusive ==
  \A t \in Threads : Held(t) # None =>
    /\ \A u \in Threads : Held(u) = Held(t) => u = t
    /\ \A p \in Pendings : timeoutMap[p] # Held(t)
    /\ ~InAList(Held(t))

(* A handler is the notify data of one pending call.                       *)
NotifyDataInjective ==
  \A p, q \in Pendings : notifyData[p] # None /\ notifyData[p] = notifyData[q]
                           => p = q

(* A pending call in libdbus' table is ours as well, and its handler is    *)
(* not on any other way to an answer.                                      *)
AttachedPending ==
  \A p \in attached :
    /\ notifyData[p] \in Calls /\ p \in appRef /\ p # main.pending
    /\ answers[notifyData[p]] = 0
    /\ notifyData[p] \notin mainloopTimeouts \cup batch \cup replyQueue
    /\ \A t \in Threads : sender[t].pc = "failed" =>
         sender[t].call # notifyData[p]
    /\ Busy => main.call # notifyData[p]

(* Whoever has to return our reference to a pending call has the address   *)
(* of the call it means, not of one that reused the address.               *)
ReferenceClaims ==
  /\ \A p \in Keys : execution[timeoutMap[p]] # "finished" =>
       notifyData[p] = timeoutMap[p] /\ p \in appRef
  /\ \A t \in Threads :
       sender[t].pc = "sent" /\ execution[sender[t].call] # "finished" =>
         /\ notifyData[sender[t].pending] = sender[t].call
         /\ sender[t].pending \in appRef

(* The reply that the main loop thread is processing.                      *)
ReplyInProgress ==
  Busy =>
    /\ main.pending # None => notifyData[main.pending] = main.call
    /\ main.pc # "reply" => execution[main.call] # "no"
    /\ main.pending # None /\ main.pc \in {"callback", "returning"}
         => main.pending \in appRef
    /\ main.pending # None /\ main.pc = "reply"
         /\ main.call \notin timeoutOccurred => main.pending \in appRef
    /\ main.call \notin replyQueue
    /\ \A t \in Threads : sender[t].pc = "failed" => sender[t].call # main.call
    /\ main.pc = "reply" /\ main.call \in mainloopTimeouts
         => main.call \in timeoutOccurred
    /\ main.pc = "callback" => main.call \notin mainloopTimeouts

(* Whatever is on its way to an answer has had none.                       *)
Unanswered ==
  /\ \A c \in mainloopTimeouts \cup replyQueue : answers[c] = 0
  /\ \A c \in batch :
       ~(main.pc = "delivered" /\ main.call = c) => answers[c] = 0
  /\ main.pc \in {"reply", "callback"} => answers[main.call] = 0
  /\ \A p \in Keys : execution[timeoutMap[p]] = "no"
       => answers[timeoutMap[p]] = 0
  /\ \A t \in Threads :
       /\ sender[t].pc = "failed" => answers[sender[t].call] = 0
       /\ sender[t].pc = "sent" /\ execution[sender[t].call] = "no"
            => answers[sender[t].call] = 0

(* The connection is told to close before its enforcer leaves its loop and *)
(* before it is released, and once told, it stays told.                    *)
ClosingKnown ==
  /\ enforcerPc \in {"cleanup", "delete", "exited"} => enforcerThreadCancelled
  /\ disconnectPc # "idle" => isDisconnecting
  /\ disconnectPc = "joinEnforcer" => enforcerThreadCancelled
  /\ connection = "none" => enforcerThreadCancelled

(* Holders(c) # {}, by cases.                                              *)
HeldSomewhere(c) ==
  \/ \E t \in Threads : Held(t) = c
  \/ \E p \in Pendings : timeoutMap[p] = c
  \/ c \in infiniteHandlers \/ c \in mainloopTimeouts \/ c \in batch
  \/ c \in asyncHandlersToDelete \/ c \in replyQueue
  \/ Busy /\ main.call = c /\ c \in hasToBeDeleted

HandlersHeld ==
  /\ replyQueue \subseteq hasToBeDeleted
  /\ Closing \/ \A c \in Calls : handler[c] = "live" => HeldSomewhere(c)

IndInv ==
  /\ TypeOK
  /\ LocalsSet
  /\ FreshUnknown
  /\ ListsDisjoint /\ MapExclusive /\ SendersExclusive
  /\ NotifyDataInjective /\ AttachedPending
  /\ ReferenceClaims /\ ReplyInProgress
  /\ Unanswered
  /\ AnsweredAtMostOnce
  /\ ClosingKnown /\ HandlersHeld
-----------------------------------------------------------------------------
(* Types.                                                                  *)

USE CallsAssumption
USE DEF handlerVars, pendingVars, mapVars, queueVars, listVars, linkVars,
        mainVars, enforcerVars, closerVars

LEMMA StartExecutionTyped ==
  ASSUME execution \in [Calls -> {"no", "started", "finished"}], StartExecution
  PROVE  execution' \in [Calls -> {"no", "started", "finished"}]
<1>. DEFINE e == IF execution[main.call] = "finished" THEN execution[main.call]
                                                      ELSE "started"
<1>1. execution' = [execution EXCEPT ![main.call] = e]
  BY DEF StartExecution
<1>2. e \in {"no", "started", "finished"}
  OBVIOUS
<1>. HIDE DEF e
<1>. QED
  BY <1>1, <1>2

(* A step keeps every variable in its type.                                *)
LEMMA TypeStep ==
  ASSUME TypeOK, LocalsSet, [Next]_vars PROVE TypeOK'
<1>. USE DEF TypeOK
<1>1. CASE \E t \in Threads, c \in Calls : SendRefused(t, c)
  BY <1>1 DEF SendRefused
<1>2. CASE \E t \in Threads, c \in Calls : SendFailed(t, c)
  <2>1. PICK t \in Threads, c \in Calls : SendFailed(t, c)
    BY <1>2
  <2>2. sender' \in [Threads -> Sender]
    BY <2>1 DEF SendFailed, Sender, SendPcs, IdleSender
  <2>. QED
    BY <2>1, <2>2 DEF SendFailed
<1>3. CASE \E t \in Threads, c \in Calls : Send(t, c)
  <2>1. PICK t \in Threads, c \in Calls : Send(t, c)
    BY <1>3
  <2>2. PICK p \in Addresses[c] \cap Freed :
             sender' = [sender EXCEPT ![t] =
               [IdleSender EXCEPT !.pc = "sent", !.call = c, !.pending = p]]
    BY <2>1 DEF Send
  <2>3. sender' \in [Threads -> Sender]
    BY <2>2 DEF Freed, Sender, SendPcs, IdleSender
  <2>. QED
    BY <2>1, <2>3 DEF Send, Freed
<1>4. CASE \E t \in Threads, c \in Calls : PushReply(t, c)
  BY <1>4 DEF PushReply
<1>5. CASE \E t \in Threads : PushFailure(t)
  BY <1>5 DEF PushFailure, LocalsSet, Sender, SendPcs, IdleSender
<1>6. CASE \E t \in Threads : RegisterTimeout(t)
  <2>1. PICK t \in Threads : RegisterTimeout(t)
    BY <1>6
  <2>2. sender' \in [Threads -> Sender]
    BY <2>1 DEF RegisterTimeout, LocalsSet, Sender, SendPcs, IdleSender
  <2>. QED
    BY <2>1, <2>2 DEF RegisterTimeout, LocalsSet
<1>7. CASE \E t \in Threads : DeleteStale(t)
  BY <1>7 DEF DeleteStale, LocalsSet, Sender, SendPcs, IdleSender
<1>8. CASE \E t \in Threads : NotifyAfterSend(t)
  BY <1>8 DEF NotifyAfterSend, NotifyEnforcer, EnforcerThreadMutexFree,
              EnforcerPcs, Sender, SendPcs, IdleSender
<1>9. CASE \E t \in Threads : RegisterInfinite(t)
  BY <1>9 DEF RegisterInfinite, LocalsSet, Sender, SendPcs, IdleSender
<1>10. CASE IsDispatchReady
  BY <1>10 DEF IsDispatchReady, Main, MainPcs, MainAt
<1>11. CASE TakeTimeouts
  BY <1>11 DEF TakeTimeouts, Main, MainPcs, MainAt
<1>12. CASE DeliverTimeout
  BY <1>12 DEF DeliverTimeout, Main, MainPcs, MainAt
<1>13. CASE DeleteDelivered
  BY <1>13 DEF DeleteDelivered, Main, MainPcs, MainAt
<1>14. CASE BeginDispatch
  BY <1>14 DEF BeginDispatch, Main, MainPcs, MainAt
<1>15. CASE \E p \in Pendings : CompletePendingCall(p)
  BY <1>15 DEF CompletePendingCall, Main, MainPcs, MainAt
<1>16. CASE DispatchOther
  BY <1>16 DEF DispatchOther, Main, MainPcs, MainAt
<1>17. CASE StartExecution
  <2>1. main' \in Main
    <3>1. \E pc \in MainPcs : main' = [main EXCEPT !.pc = pc]
      BY <1>17 DEF StartExecution, MainPcs
    <3>. QED
      BY <3>1 DEF Main
  <2>2. execution' \in [Calls -> {"no", "started", "finished"}]
    <3>1. execution \in [Calls -> {"no", "started", "finished"}]
      OBVIOUS
    <3>. QED
      BY <1>17, <3>1, StartExecutionTyped
  <2>. QED
    BY <1>17, <2>1, <2>2 DEF StartExecution
<1>18. CASE OnDBusMessageReply
  <2>1. main' \in Main
    BY <1>18 DEF OnDBusMessageReply, Main, MainPcs
  <2>2. answers' \in [Calls -> Nat]
    BY <1>18 DEF OnDBusMessageReply, LocalsSet, Busy
  <2>. QED
    BY <1>18, <2>1, <2>2 DEF OnDBusMessageReply
<1>19. CASE FinishExecution
  BY <1>19 DEF FinishExecution, SetExecutionFinished, Main, MainPcs, MainAt
<1>20. CASE NotifyAfterReply
  BY <1>20 DEF NotifyAfterReply, NotifyEnforcer, EnforcerThreadMutexFree,
               EnforcerPcs, Main, MainPcs, MainAt
<1>21. CASE EndDispatch
  <2>1. main' \in Main
    BY <1>21 DEF EndDispatch, Main, MainPcs, MainAt
  <2>. QED
    BY <1>21, <2>1 DEF EndDispatch
<1>22. CASE PopReply
  <2>1. PICK c \in replyQueue :
             /\ replyQueue' = replyQueue \ {c}
             /\ main' = main \/ main' = [MainAt("reply") EXCEPT !.call = c]
             /\ isDispatching' = isDispatching \/ isDispatching' = TRUE
    BY <1>22 DEF PopReply
  <2>2. main' \in Main
    BY <2>1 DEF Main, MainPcs, MainAt
  <2>3. isDispatching' \in BOOLEAN /\ replyQueue' \subseteq Calls
    BY <2>1
  <2>. QED
    BY <1>22, <2>2, <2>3 DEF PopReply
<1>23. CASE PopDelete
  BY <1>23 DEF PopDelete
<1>24. CASE StopMainLoop
  BY <1>24 DEF StopMainLoop, Main, MainPcs, MainAt
<1>25. CASE EnforcerCheck
  BY <1>25 DEF EnforcerCheck, Keys, EnforcerPcs
<1>26. CASE EnforcerTimedOut
  BY <1>26 DEF EnforcerTimedOut, Keys, EnforcerPcs
<1>27. CASE EnforcerNotified
  BY <1>27 DEF EnforcerNotified, Keys, EnforcerPcs
<1>28. CASE \E p \in Pendings : ExpireUnstarted(p)
  BY <1>28 DEF ExpireUnstarted, LocalsSet, Keys, GiveUp
<1>29. CASE \E p \in Pendings : ExpireRunning(p)
  BY <1>29 DEF ExpireRunning
<1>30. CASE \E p \in Pendings : CollectFinished(p)
  BY <1>30 DEF CollectFinished, LocalsSet, Keys
<1>31. CASE \E p \in Pendings : SkipEntry(p)
  BY <1>31 DEF SkipEntry
<1>32. CASE \E p \in Pendings : CleanupEntry(p)
  BY <1>32 DEF CleanupEntry, LocalsSet, Keys
<1>33. CASE EnforceInfinite
  BY <1>33 DEF EnforceInfinite, EnforcerPcs
<1>34. CASE CleanupInfinite
  BY <1>34 DEF CleanupInfinite, EnforcerPcs
<1>35. CASE EnforcerDelete
  BY <1>35 DEF EnforcerDelete, EnforcerPcs
<1>36. CASE \E p \in Pendings : Elapse(p)
  BY <1>36 DEF Elapse, Keys
<1>37. CASE \E by \in {"app", "main"} : DisconnectBegin(by)
  BY <1>37 DEF DisconnectBegin, CloserPcs
<1>38. CASE DisconnectWait
  BY <1>38 DEF DisconnectWait, CloserPcs
<1>39. CASE DisconnectClose
  BY <1>39 DEF DisconnectClose, CloserPcs
<1>40. CASE DisconnectJoinMain
  BY <1>40 DEF DisconnectJoinMain, CloserPcs
<1>41. CASE DisconnectCancel
  BY <1>41 DEF DisconnectCancel, NotifyEnforcer, EnforcerThreadMutexFree,
               EnforcerPcs, CloserPcs
<1>42. CASE DisconnectRelease
  BY <1>42 DEF DisconnectRelease, CloserPcs
<1>43. CASE Connect
  <2>1. main' \in Main
    BY <1>43 DEF Connect, Main, MainPcs, MainAt
  <2>2. connects' \in 1 .. MaxConnects
    BY <1>43 DEF Connect
  <2>. QED
    BY <1>43, <2>1, <2>2 DEF Connect, EnforcerPcs
<1>44. CASE UNCHANGED vars
  BY <1>44 DEF vars
<1>. QED
  BY <1>1, <1>2, <1>3, <1>4, <1>5, <1>6, <1>7, <1>8, <1>9, <1>10, <1>11,
     <1>12, <1>13, <1>14, <1>15, <1>16, <1>17, <1>18, <1>19, <1>20, <1>21,
     <1>22, <1>23, <1>24, <1>25, <1>26, <1>27, <1>28, <1>29, <1>30, <1>31,
     <1>32, <1>33, <1>34, <1>35, <1>36, <1>37, <1>38, <1>39, <1>40, <1>41,
     <1>42, <1>43, <1>44
  DEF Next, SenderNext, SenderStart, SenderStep, MainNext, SingleDispatch,
      EnforcerNext, DisconnectNext

-----------------------------------------------------------------------------
(* One lemma per part of the invariant: a step preserves it.               *)

(* The locals of a program point are set on every way to it.               *)
LEMMA LocalsStep ==
  ASSUME TypeOK, LocalsSet, AttachedPending, [Next]_vars
  PROVE  LocalsSet'
<1>1. CASE \E t \in Threads, c \in Calls : SendRefused(t, c)
  BY <1>1 DEF SendRefused, LocalsSet, Busy, Keys
<1>2. CASE \E t \in Threads, c \in Calls : SendFailed(t, c)
  BY <1>2 DEF SendFailed, IdleSender, TypeOK, LocalsSet, Busy, Keys
<1>3. CASE \E t \in Threads, c \in Calls : Send(t, c)
  BY <1>3 DEF Send, Freed, IdleSender, TypeOK, LocalsSet, Busy, Keys
<1>4. CASE \E t \in Threads, c \in Calls : PushReply(t, c)
  BY <1>4 DEF PushReply, LocalsSet, Busy, Keys
<1>5. CASE \E t \in Threads : PushFailure(t)
  BY <1>5 DEF PushFailure, IdleSender, TypeOK, LocalsSet, Busy, Keys
<1>6. CASE \E t \in Threads : RegisterTimeout(t)
  BY <1>6 DEF RegisterTimeout, IdleSender, TypeOK, LocalsSet, Busy, Keys
<1>7. CASE \E t \in Threads : DeleteStale(t)
  BY <1>7 DEF DeleteStale, IdleSender, TypeOK, LocalsSet, Busy, Keys
<1>8. CASE \E t \in Threads : NotifyAfterSend(t)
  BY <1>8 DEF NotifyAfterSend, IdleSender, TypeOK, LocalsSet, Busy, Keys
<1>9. CASE \E t \in Threads : RegisterInfinite(t)
  BY <1>9 DEF RegisterInfinite, IdleSender, TypeOK, LocalsSet, Busy, Keys
<1>10. CASE IsDispatchReady
  BY <1>10 DEF IsDispatchReady, MainAt, TypeOK, LocalsSet, Busy, Keys
<1>11. CASE TakeTimeouts
  BY <1>11 DEF TakeTimeouts, MainAt, TypeOK, LocalsSet, Busy, Keys
<1>12. CASE DeliverTimeout
  BY <1>12 DEF DeliverTimeout, MainAt, TypeOK, LocalsSet, Busy, Keys
<1>13. CASE DeleteDelivered
  BY <1>13 DEF DeleteDelivered, MainAt, TypeOK, LocalsSet, Busy, Keys
<1>14. CASE BeginDispatch
  BY <1>14 DEF BeginDispatch, MainAt, TypeOK, LocalsSet, Busy, Keys
<1>15. CASE \E p \in Pendings : CompletePendingCall(p)
  BY <1>15 DEF CompletePendingCall, TypeOK, AttachedPending, LocalsSet, Busy,
               Keys
<1>16. CASE DispatchOther
  BY <1>16 DEF DispatchOther, MainAt, TypeOK, LocalsSet, Busy, Keys
<1>17. CASE StartExecution
  BY <1>17 DEF StartExecution, ProcessReply, TypeOK, LocalsSet, Busy, Keys
<1>18. CASE OnDBusMessageReply
  BY <1>18 DEF OnDBusMessageReply, TypeOK, LocalsSet, Busy, Keys
<1>19. CASE FinishExecution
  BY <1>19 DEF FinishExecution, SetExecutionFinished, MainAt, TypeOK,
               LocalsSet, Busy, Keys
<1>20. CASE NotifyAfterReply
  BY <1>20 DEF NotifyAfterReply, TypeOK, LocalsSet, Busy, Keys
<1>21. CASE EndDispatch
  BY <1>21 DEF EndDispatch, MainAt, TypeOK, LocalsSet, Busy, Keys
<1>22. CASE PopReply
  BY <1>22 DEF PopReply, MainAt, TypeOK, LocalsSet, Busy, Keys
<1>23. CASE PopDelete
  BY <1>23 DEF PopDelete, LocalsSet, Busy, Keys
<1>24. CASE StopMainLoop
  BY <1>24 DEF StopMainLoop, MainAt, TypeOK, LocalsSet, Busy, Keys
<1>25. CASE EnforcerCheck
  BY <1>25 DEF EnforcerCheck, Keys, TypeOK, LocalsSet, Busy, Keys
<1>26. CASE EnforcerTimedOut
  BY <1>26 DEF EnforcerTimedOut, Keys, TypeOK, LocalsSet, Busy, Keys
<1>27. CASE EnforcerNotified
  BY <1>27 DEF EnforcerNotified, Keys, TypeOK, LocalsSet, Busy, Keys
<1>28. CASE \E p \in Pendings : ExpireUnstarted(p)
  BY <1>28 DEF ExpireUnstarted, GiveUp, TypeOK, LocalsSet, Busy, Keys
<1>29. CASE \E p \in Pendings : ExpireRunning(p)
  BY <1>29 DEF ExpireRunning, TypeOK, LocalsSet, Busy, Keys
<1>30. CASE \E p \in Pendings : CollectFinished(p)
  BY <1>30 DEF CollectFinished, TypeOK, LocalsSet, Busy, Keys
<1>31. CASE \E p \in Pendings : SkipEntry(p)
  BY <1>31 DEF SkipEntry, TypeOK, LocalsSet, Busy, Keys
<1>32. CASE \E p \in Pendings : CleanupEntry(p)
  BY <1>32 DEF CleanupEntry, TypeOK, LocalsSet, Busy, Keys
<1>33. CASE \/ EnforceInfinite \/ CleanupInfinite \/ EnforcerDelete
  BY <1>33 DEF EnforceInfinite, CleanupInfinite, EnforcerDelete, LocalsSet,
               Busy, Keys
<1>34. CASE \E p \in Pendings : Elapse(p)
  BY <1>34 DEF Elapse, Keys, TypeOK, LocalsSet, Busy, Keys
<1>35. CASE \/ (\E by \in {"app", "main"} : DisconnectBegin(by))
            \/ DisconnectWait \/ DisconnectClose \/ DisconnectJoinMain
            \/ DisconnectCancel \/ DisconnectRelease
  BY <1>35 DEF DisconnectBegin, DisconnectWait, DisconnectClose,
               DisconnectJoinMain, DisconnectCancel, DisconnectRelease,
               LocalsSet, Busy, Keys
<1>36. CASE Connect
  BY <1>36 DEF Connect, MainAt, TypeOK, LocalsSet, Busy, Keys
<1>37. CASE UNCHANGED vars
  BY <1>37 DEF vars, LocalsSet, Busy, Keys
<1>. QED
  BY <1>1, <1>2, <1>3, <1>4, <1>5, <1>6, <1>7, <1>8, <1>9, <1>10, <1>11,
     <1>12, <1>13, <1>14, <1>15, <1>16, <1>17, <1>18, <1>19, <1>20, <1>21,
     <1>22, <1>23, <1>24, <1>25, <1>26, <1>27, <1>28, <1>29, <1>30, <1>31,
     <1>32, <1>33, <1>34, <1>35, <1>36, <1>37
  DEF Next, SenderNext, SenderStart, SenderStep, MainNext, SingleDispatch,
      EnforcerNext, DisconnectNext

(* A step makes at most one handler, and puts no unmade one anywhere.      *)
LEMMA FreshStep ==
  ASSUME TypeOK, LocalsSet, FreshUnknown, AttachedPending, [Next]_vars
  PROVE  FreshUnknown'
<1>1. CASE \E t \in Threads, c \in Calls : SendRefused(t, c)
  BY <1>1 DEF SendRefused, TypeOK, LocalsSet, FreshUnknown, InAList, Held,
              Busy
<1>2. CASE \E t \in Threads, c \in Calls : SendFailed(t, c)
  BY <1>2 DEF SendFailed, IdleSender, TypeOK, LocalsSet, FreshUnknown,
              InAList, Held, Busy
<1>3. CASE \E t \in Threads, c \in Calls : Send(t, c)
  BY <1>3 DEF Send, Freed, IdleSender, TypeOK, LocalsSet, FreshUnknown,
              InAList, Held, Busy
<1>4. CASE \E t \in Threads, c \in Calls : PushReply(t, c)
  BY <1>4 DEF PushReply, TypeOK, LocalsSet, FreshUnknown, InAList, Held, Busy
<1>5. CASE \E t \in Threads : PushFailure(t)
  BY <1>5 DEF PushFailure, IdleSender, TypeOK, LocalsSet, FreshUnknown,
              InAList, Held, Busy
<1>6. CASE \E t \in Threads : RegisterTimeout(t)
  BY <1>6 DEF RegisterTimeout, IdleSender, TypeOK, LocalsSet, FreshUnknown,
              InAList, Held, Busy
<1>7. CASE \E t \in Threads : DeleteStale(t)
  BY <1>7 DEF DeleteStale, IdleSender, TypeOK, LocalsSet, FreshUnknown,
              InAList, Held, Busy
<1>8. CASE \E t \in Threads : NotifyAfterSend(t)
  BY <1>8 DEF NotifyAfterSend, IdleSender, TypeOK, LocalsSet, FreshUnknown,
              InAList, Held, Busy
<1>9. CASE \E t \in Threads : RegisterInfinite(t)
  BY <1>9 DEF RegisterInfinite, IdleSender, TypeOK, LocalsSet, FreshUnknown,
              InAList, Held, Busy
<1>10. CASE IsDispatchReady
  BY <1>10 DEF IsDispatchReady, MainAt, TypeOK, LocalsSet, FreshUnknown,
               InAList, Held, Busy
<1>11. CASE TakeTimeouts
  BY <1>11 DEF TakeTimeouts, MainAt, TypeOK, LocalsSet, FreshUnknown, InAList,
               Held, Busy
<1>12. CASE DeliverTimeout
  BY <1>12 DEF DeliverTimeout, MainAt, TypeOK, LocalsSet, FreshUnknown,
               InAList, Held, Busy
<1>13. CASE DeleteDelivered
  BY <1>13 DEF DeleteDelivered, MainAt, TypeOK, LocalsSet, FreshUnknown,
               InAList, Held, Busy
<1>14. CASE BeginDispatch
  BY <1>14 DEF BeginDispatch, MainAt, TypeOK, LocalsSet, FreshUnknown,
               InAList, Held, Busy
<1>15. CASE \E p \in Pendings : CompletePendingCall(p)
  BY <1>15 DEF CompletePendingCall, TypeOK, LocalsSet, AttachedPending,
               FreshUnknown, InAList, Held, Busy
<1>16. CASE DispatchOther
  BY <1>16 DEF DispatchOther, MainAt, TypeOK, LocalsSet, FreshUnknown,
               InAList, Held, Busy
<1>17. CASE StartExecution
  BY <1>17 DEF StartExecution, ProcessReply, TypeOK, LocalsSet, FreshUnknown,
               InAList, Held, Busy
<1>18. CASE OnDBusMessageReply
  BY <1>18 DEF OnDBusMessageReply, TypeOK, LocalsSet, FreshUnknown, InAList,
               Held, Busy
<1>19. CASE FinishExecution
  BY <1>19 DEF FinishExecution, SetExecutionFinished, MainAt, TypeOK,
               LocalsSet, FreshUnknown, InAList, Held, Busy
<1>20. CASE NotifyAfterReply
  BY <1>20 DEF NotifyAfterReply, TypeOK, LocalsSet, FreshUnknown, InAList,
               Held, Busy
<1>21. CASE EndDispatch
  BY <1>21 DEF EndDispatch, MainAt, TypeOK, LocalsSet, FreshUnknown, InAList,
               Held, Busy
<1>22. CASE PopReply
  BY <1>22 DEF PopReply, MainAt, TypeOK, LocalsSet, FreshUnknown, InAList,
               Held, Busy
<1>23. CASE PopDelete
  BY <1>23 DEF PopDelete, TypeOK, LocalsSet, FreshUnknown, InAList, Held, Busy
<1>24. CASE StopMainLoop
  BY <1>24 DEF StopMainLoop, MainAt, TypeOK, LocalsSet, FreshUnknown, InAList,
               Held, Busy
<1>25. CASE \/ EnforcerCheck \/ EnforcerTimedOut \/ EnforcerNotified
  BY <1>25 DEF EnforcerCheck, EnforcerTimedOut, EnforcerNotified,
               FreshUnknown, InAList, Held, Busy
<1>26. CASE \E p \in Pendings : ExpireUnstarted(p)
  BY <1>26 DEF ExpireUnstarted, GiveUp, TypeOK, LocalsSet, Keys, FreshUnknown,
               InAList, Held, Busy
<1>27. CASE \E p \in Pendings : ExpireRunning(p)
  BY <1>27 DEF ExpireRunning, FreshUnknown, InAList, Held, Busy
<1>28. CASE \E p \in Pendings : CollectFinished(p)
  BY <1>28 DEF CollectFinished, TypeOK, LocalsSet, Keys, FreshUnknown,
               InAList, Held, Busy
<1>29. CASE \E p \in Pendings : SkipEntry(p)
  BY <1>29 DEF SkipEntry, FreshUnknown, InAList, Held, Busy
<1>30. CASE \E p \in Pendings : CleanupEntry(p)
  BY <1>30 DEF CleanupEntry, TypeOK, LocalsSet, Keys, FreshUnknown, InAList,
               Held, Busy
<1>31. CASE EnforceInfinite
  BY <1>31 DEF EnforceInfinite, TypeOK, LocalsSet, FreshUnknown, InAList,
               Held, Busy
<1>32. CASE CleanupInfinite
  BY <1>32 DEF CleanupInfinite, TypeOK, LocalsSet, FreshUnknown, InAList,
               Held, Busy
<1>33. CASE EnforcerDelete
  BY <1>33 DEF EnforcerDelete, TypeOK, LocalsSet, FreshUnknown, InAList, Held,
               Busy
<1>34. CASE \/ (\E p \in Pendings : Elapse(p))
            \/ (\E by \in {"app", "main"} : DisconnectBegin(by))
            \/ DisconnectWait \/ DisconnectClose \/ DisconnectJoinMain
            \/ DisconnectCancel \/ DisconnectRelease
  BY <1>34 DEF Elapse, DisconnectBegin, DisconnectWait, DisconnectClose,
               DisconnectJoinMain, DisconnectCancel, DisconnectRelease,
               FreshUnknown, InAList, Held, Busy
<1>35. CASE Connect
  BY <1>35 DEF Connect, MainAt, TypeOK, LocalsSet, FreshUnknown, InAList,
               Held, Busy
<1>36. CASE UNCHANGED vars
  BY <1>36 DEF vars, FreshUnknown, InAList, Held, Busy
<1>. QED
  BY <1>1, <1>2, <1>3, <1>4, <1>5, <1>6, <1>7, <1>8, <1>9, <1>10, <1>11,
     <1>12, <1>13, <1>14, <1>15, <1>16, <1>17, <1>18, <1>19, <1>20, <1>21,
     <1>22, <1>23, <1>24, <1>25, <1>26, <1>27, <1>28, <1>29, <1>30, <1>31,
     <1>32, <1>33, <1>34, <1>35, <1>36
  DEF Next, SenderNext, SenderStart, SenderStep, MainNext, SingleDispatch,
      EnforcerNext, DisconnectNext

(* A step that puts a handler into a container or into the hands of a      *)
(* thread takes it from its former place.                                  *)
LEMMA ExclusiveStep ==
  ASSUME TypeOK, LocalsSet, FreshUnknown, ListsDisjoint, MapExclusive,
         SendersExclusive, [Next]_vars
  PROVE  ListsDisjoint' /\ MapExclusive' /\ SendersExclusive'
<1>1. CASE \E t \in Threads, c \in Calls : SendRefused(t, c)
  BY <1>1 DEF SendRefused, ListsDisjoint, MapExclusive, SendersExclusive,
              Held, InAList, Keys
<1>2. CASE \E t \in Threads, c \in Calls : SendFailed(t, c)
  BY <1>2 DEF SendFailed, IdleSender, TypeOK, LocalsSet, FreshUnknown,
              ListsDisjoint, MapExclusive, SendersExclusive, Held, InAList,
              Keys
<1>3. CASE \E t \in Threads, c \in Calls : Send(t, c)
  BY <1>3 DEF Send, Freed, IdleSender, TypeOK, LocalsSet, FreshUnknown,
              ListsDisjoint, MapExclusive, SendersExclusive, Held, InAList,
              Keys
<1>4. CASE \E t \in Threads, c \in Calls : PushReply(t, c)
  BY <1>4 DEF PushReply, TypeOK, LocalsSet, FreshUnknown, ListsDisjoint,
              MapExclusive, SendersExclusive, Held, InAList, Keys
<1>5. CASE \E t \in Threads : PushFailure(t)
  BY <1>5 DEF PushFailure, IdleSender, TypeOK, LocalsSet, ListsDisjoint,
              MapExclusive, SendersExclusive, Held, InAList, Keys
<1>6. CASE \E t \in Threads : RegisterTimeout(t)
  BY <1>6 DEF RegisterTimeout, IdleSender, TypeOK, LocalsSet, ListsDisjoint,
              MapExclusive, SendersExclusive, Held, InAList, Keys
<1>7. CASE \E t \in Threads : DeleteStale(t)
  BY <1>7 DEF DeleteStale, IdleSender, TypeOK, LocalsSet, ListsDisjoint,
              MapExclusive, SendersExclusive, Held, InAList, Keys
<1>8. CASE \E t \in Threads : NotifyAfterSend(t)
  BY <1>8 DEF NotifyAfterSend, IdleSender, TypeOK, LocalsSet, ListsDisjoint,
              MapExclusive, SendersExclusive, Held, InAList, Keys
<1>9. CASE \E t \in Threads : RegisterInfinite(t)
  BY <1>9 DEF RegisterInfinite, IdleSender, TypeOK, LocalsSet, ListsDisjoint,
              MapExclusive, SendersExclusive, Held, InAList, Keys
<1>10. CASE IsDispatchReady
  BY <1>10 DEF IsDispatchReady, ListsDisjoint, MapExclusive, SendersExclusive,
               Held, InAList, Keys
<1>11. CASE TakeTimeouts
  BY <1>11 DEF TakeTimeouts, MainAt, TypeOK, LocalsSet, ListsDisjoint,
               MapExclusive, SendersExclusive, Held, InAList, Keys
<1>12. CASE DeliverTimeout
  BY <1>12 DEF DeliverTimeout, ListsDisjoint, MapExclusive, SendersExclusive,
               Held, InAList, Keys
<1>13. CASE DeleteDelivered
  BY <1>13 DEF DeleteDelivered, MainAt, TypeOK, LocalsSet, ListsDisjoint,
               MapExclusive, SendersExclusive, Held, InAList, Keys
<1>14. CASE \/ BeginDispatch \/ (\E p \in Pendings : CompletePendingCall(p))
            \/ DispatchOther \/ StartExecution \/ OnDBusMessageReply
            \/ FinishExecution \/ NotifyAfterReply \/ EndDispatch
  BY <1>14 DEF BeginDispatch, CompletePendingCall, DispatchOther,
               StartExecution, OnDBusMessageReply, FinishExecution,
               NotifyAfterReply, EndDispatch, ListsDisjoint, MapExclusive,
               SendersExclusive, Held, InAList, Keys
<1>15. CASE PopReply
  BY <1>15 DEF PopReply, MainAt, TypeOK, LocalsSet, ListsDisjoint,
               MapExclusive, SendersExclusive, Held, InAList, Keys
<1>16. CASE PopDelete
  BY <1>16 DEF PopDelete, TypeOK, LocalsSet, ListsDisjoint, MapExclusive,
               SendersExclusive, Held, InAList, Keys
<1>17. CASE \/ StopMainLoop \/ EnforcerCheck \/ EnforcerTimedOut
            \/ EnforcerNotified
  BY <1>17 DEF StopMainLoop, EnforcerCheck, EnforcerTimedOut,
               EnforcerNotified, ListsDisjoint, MapExclusive,
               SendersExclusive, Held, InAList, Keys
<1>18. CASE \E p \in Pendings : ExpireUnstarted(p)
  BY <1>18 DEF ExpireUnstarted, GiveUp, TypeOK, LocalsSet, ListsDisjoint,
               MapExclusive, SendersExclusive, Held, InAList, Keys
<1>19. CASE \E p \in Pendings : ExpireRunning(p)
  BY <1>19 DEF ExpireRunning, ListsDisjoint, MapExclusive, SendersExclusive,
               Held, InAList, Keys
<1>20. CASE \E p \in Pendings : CollectFinished(p)
  BY <1>20 DEF CollectFinished, TypeOK, LocalsSet, ListsDisjoint,
               MapExclusive, SendersExclusive, Held, InAList, Keys
<1>21. CASE \E p \in Pendings : SkipEntry(p)
  BY <1>21 DEF SkipEntry, ListsDisjoint, MapExclusive, SendersExclusive, Held,
               InAList, Keys
<1>22. CASE \E p \in Pendings : CleanupEntry(p)
  BY <1>22 DEF CleanupEntry, TypeOK, LocalsSet, ListsDisjoint, MapExclusive,
               SendersExclusive, Held, InAList, Keys
<1>23. CASE EnforceInfinite
  BY <1>23 DEF EnforceInfinite, TypeOK, LocalsSet, ListsDisjoint,
               MapExclusive, SendersExclusive, Held, InAList, Keys
<1>24. CASE CleanupInfinite
  BY <1>24 DEF CleanupInfinite, TypeOK, LocalsSet, ListsDisjoint,
               MapExclusive, SendersExclusive, Held, InAList, Keys
<1>25. CASE EnforcerDelete
  BY <1>25 DEF EnforcerDelete, TypeOK, LocalsSet, ListsDisjoint, MapExclusive,
               SendersExclusive, Held, InAList, Keys
<1>26. CASE \/ (\E p \in Pendings : Elapse(p))
            \/ (\E by \in {"app", "main"} : DisconnectBegin(by))
            \/ DisconnectWait \/ DisconnectClose \/ DisconnectJoinMain
            \/ DisconnectCancel \/ DisconnectRelease
  BY <1>26 DEF Elapse, DisconnectBegin, DisconnectWait, DisconnectClose,
               DisconnectJoinMain, DisconnectCancel, DisconnectRelease,
               ListsDisjoint, MapExclusive, SendersExclusive, Held, InAList,
               Keys
<1>27. CASE Connect
  BY <1>27 DEF Connect, MainAt, TypeOK, LocalsSet, ListsDisjoint,
               MapExclusive, SendersExclusive, Held, InAList, Keys
<1>28. CASE UNCHANGED vars
  BY <1>28 DEF vars, ListsDisjoint, MapExclusive, SendersExclusive, Held,
               InAList, Keys
<1>. QED
  BY <1>1, <1>2, <1>3, <1>4, <1>5, <1>6, <1>7, <1>8, <1>9, <1>10, <1>11,
     <1>12, <1>13, <1>14, <1>15, <1>16, <1>17, <1>18, <1>19, <1>20, <1>21,
     <1>22, <1>23, <1>24, <1>25, <1>26, <1>27, <1>28
  DEF Next, SenderNext, SenderStart, SenderStep, MainNext, SingleDispatch,
      EnforcerNext, DisconnectNext

(* A pending call leaves libdbus' table before its handler goes elsewhere; *)
(* a reference is returned by the one who drops the claim on it, and only  *)
(* then the address is reused; the enforcer does not give up a call whose  *)
(* callback is running.                                                    *)
LEMMA ReferencesStep ==
  ASSUME TypeOK, LocalsSet, FreshUnknown, ListsDisjoint, MapExclusive,
         SendersExclusive, NotifyDataInjective, AttachedPending,
         ReferenceClaims, ReplyInProgress, [Next]_vars
  PROVE  /\ NotifyDataInjective' /\ AttachedPending'
         /\ ReferenceClaims' /\ ReplyInProgress'
<1>1. CASE \E t \in Threads, c \in Calls : SendRefused(t, c)
  BY <1>1 DEF SendRefused, NotifyDataInjective, AttachedPending,
              ReferenceClaims, ReplyInProgress, Busy, Keys
<1>2. CASE \E t \in Threads, c \in Calls : SendFailed(t, c)
  BY <1>2 DEF SendFailed, IdleSender, TypeOK, LocalsSet, FreshUnknown, Held,
              InAList, NotifyDataInjective, AttachedPending, ReferenceClaims,
              ReplyInProgress, Busy, Keys
<1>3. CASE \E t \in Threads, c \in Calls : Send(t, c)
  BY <1>3 DEF Send, Freed, IdleSender, TypeOK, LocalsSet, FreshUnknown, Held,
              InAList, NotifyDataInjective, AttachedPending, ReferenceClaims,
              ReplyInProgress, Busy, Keys
<1>4. CASE \E t \in Threads, c \in Calls : PushReply(t, c)
  BY <1>4 DEF PushReply, TypeOK, LocalsSet, FreshUnknown, InAList,
              NotifyDataInjective, AttachedPending, ReferenceClaims,
              ReplyInProgress, Busy, Keys
<1>5. CASE \E t \in Threads : PushFailure(t)
  BY <1>5 DEF PushFailure, IdleSender, TypeOK, LocalsSet, NotifyDataInjective,
              AttachedPending, ReferenceClaims, ReplyInProgress, Busy, Keys
<1>6. CASE \E t \in Threads : RegisterTimeout(t)
  BY <1>6 DEF RegisterTimeout, IdleSender, TypeOK, LocalsSet,
              NotifyDataInjective, AttachedPending, ReferenceClaims,
              ReplyInProgress, Busy, Keys
<1>7. CASE \E t \in Threads : DeleteStale(t)
  BY <1>7 DEF DeleteStale, IdleSender, TypeOK, LocalsSet, NotifyDataInjective,
              AttachedPending, ReferenceClaims, ReplyInProgress, Busy, Keys
<1>8. CASE \E t \in Threads : NotifyAfterSend(t)
  BY <1>8 DEF NotifyAfterSend, IdleSender, TypeOK, LocalsSet,
              NotifyDataInjective, AttachedPending, ReferenceClaims,
              ReplyInProgress, Busy, Keys
<1>9. CASE \E t \in Threads : RegisterInfinite(t)
  BY <1>9 DEF RegisterInfinite, IdleSender, TypeOK, LocalsSet,
              NotifyDataInjective, AttachedPending, ReferenceClaims,
              ReplyInProgress, Busy, Keys
<1>10. CASE IsDispatchReady
  BY <1>10 DEF IsDispatchReady, MainAt, TypeOK, LocalsSet,
               NotifyDataInjective, AttachedPending, ReferenceClaims,
               ReplyInProgress, Busy, Keys
<1>11. CASE TakeTimeouts
  BY <1>11 DEF TakeTimeouts, MainAt, TypeOK, LocalsSet, NotifyDataInjective,
               AttachedPending, ReferenceClaims, ReplyInProgress, Busy, Keys
<1>12. CASE DeliverTimeout
  BY <1>12 DEF DeliverTimeout, MainAt, TypeOK, LocalsSet, NotifyDataInjective,
               AttachedPending, ReferenceClaims, ReplyInProgress, Busy, Keys
<1>13. CASE DeleteDelivered
  BY <1>13 DEF DeleteDelivered, MainAt, TypeOK, LocalsSet,
               NotifyDataInjective, AttachedPending, ReferenceClaims,
               ReplyInProgress, Busy, Keys
<1>14. CASE BeginDispatch
  BY <1>14 DEF BeginDispatch, MainAt, TypeOK, LocalsSet, NotifyDataInjective,
               AttachedPending, ReferenceClaims, ReplyInProgress, Busy, Keys
<1>15. CASE \E p \in Pendings : CompletePendingCall(p)
  BY <1>15 DEF CompletePendingCall, TypeOK, LocalsSet, NotifyDataInjective,
               AttachedPending, ReferenceClaims, ReplyInProgress, Busy, Keys
<1>16. CASE DispatchOther
  BY <1>16 DEF DispatchOther, MainAt, TypeOK, LocalsSet, NotifyDataInjective,
               AttachedPending, ReferenceClaims, ReplyInProgress, Busy, Keys
<1>17. CASE StartExecution
  BY <1>17 DEF StartExecution, ProcessReply, TypeOK, LocalsSet,
               NotifyDataInjective, AttachedPending, ReferenceClaims,
               ReplyInProgress, Busy, Keys
<1>18. CASE OnDBusMessageReply
  BY <1>18 DEF OnDBusMessageReply, TypeOK, LocalsSet, NotifyDataInjective,
               AttachedPending, ReferenceClaims, ReplyInProgress, Busy, Keys
<1>19. CASE FinishExecution
  BY <1>19 DEF FinishExecution, SetExecutionFinished, MainAt, TypeOK,
               LocalsSet, NotifyDataInjective, AttachedPending,
               ReferenceClaims, ReplyInProgress, Busy, Keys
<1>20. CASE NotifyAfterReply
  BY <1>20 DEF NotifyAfterReply, TypeOK, LocalsSet, NotifyDataInjective,
               AttachedPending, ReferenceClaims, ReplyInProgress, Busy, Keys
<1>21. CASE EndDispatch
  BY <1>21 DEF EndDispatch, MainAt, TypeOK, LocalsSet, NotifyDataInjective,
               AttachedPending, ReferenceClaims, ReplyInProgress, Busy, Keys
<1>22. CASE PopReply
  BY <1>22 DEF PopReply, MainAt, TypeOK, LocalsSet, ListsDisjoint,
               SendersExclusive, Held, InAList, NotifyDataInjective,
               AttachedPending, ReferenceClaims, ReplyInProgress, Busy, Keys
<1>23. CASE PopDelete
  BY <1>23 DEF PopDelete, NotifyDataInjective, AttachedPending,
               ReferenceClaims, ReplyInProgress, Busy, Keys
<1>24. CASE StopMainLoop
  BY <1>24 DEF StopMainLoop, MainAt, TypeOK, LocalsSet, NotifyDataInjective,
               AttachedPending, ReferenceClaims, ReplyInProgress, Busy, Keys
<1>25. CASE \/ EnforcerCheck \/ EnforcerTimedOut \/ EnforcerNotified
  BY <1>25 DEF EnforcerCheck, EnforcerTimedOut, EnforcerNotified,
               NotifyDataInjective, AttachedPending, ReferenceClaims,
               ReplyInProgress, Busy, Keys
<1>26. CASE \E p \in Pendings : ExpireUnstarted(p)
  BY <1>26 DEF ExpireUnstarted, GiveUp, TypeOK, LocalsSet, MapExclusive,
               SendersExclusive, Held, InAList, NotifyDataInjective,
               AttachedPending, ReferenceClaims, ReplyInProgress, Busy, Keys
<1>27. CASE \E p \in Pendings : ExpireRunning(p)
  BY <1>27 DEF ExpireRunning, NotifyDataInjective, AttachedPending,
               ReferenceClaims, ReplyInProgress, Busy, Keys
<1>28. CASE \E p \in Pendings : CollectFinished(p)
  BY <1>28 DEF CollectFinished, TypeOK, LocalsSet, NotifyDataInjective,
               AttachedPending, ReferenceClaims, ReplyInProgress, Busy, Keys
<1>29. CASE \E p \in Pendings : SkipEntry(p)
  BY <1>29 DEF SkipEntry, NotifyDataInjective, AttachedPending,
               ReferenceClaims, ReplyInProgress, Busy, Keys
<1>30. CASE \E p \in Pendings : CleanupEntry(p)
  BY <1>30 DEF CleanupEntry, TypeOK, LocalsSet, NotifyDataInjective,
               AttachedPending, ReferenceClaims, ReplyInProgress, Busy, Keys
<1>31. CASE \/ EnforceInfinite \/ CleanupInfinite \/ EnforcerDelete
            \/ (\E p \in Pendings : Elapse(p))
            \/ (\E by \in {"app", "main"} : DisconnectBegin(by))
            \/ DisconnectWait \/ DisconnectClose \/ DisconnectJoinMain
            \/ DisconnectCancel
  BY <1>31 DEF EnforceInfinite, CleanupInfinite, EnforcerDelete, Elapse,
               DisconnectBegin, DisconnectWait, DisconnectClose,
               DisconnectJoinMain, DisconnectCancel, NotifyDataInjective,
               AttachedPending, ReferenceClaims, ReplyInProgress, Busy, Keys
<1>32. CASE DisconnectRelease
  BY <1>32 DEF DisconnectRelease, TypeOK, LocalsSet, NotifyDataInjective,
               AttachedPending, ReferenceClaims, ReplyInProgress, Busy, Keys
<1>33. CASE Connect
  BY <1>33 DEF Connect, MainAt, TypeOK, LocalsSet, NotifyDataInjective,
               AttachedPending, ReferenceClaims, ReplyInProgress, Busy, Keys
<1>34. CASE UNCHANGED vars
  BY <1>34 DEF vars, NotifyDataInjective, AttachedPending, ReferenceClaims,
               ReplyInProgress, Busy, Keys
<1>. QED
  BY <1>1, <1>2, <1>3, <1>4, <1>5, <1>6, <1>7, <1>8, <1>9, <1>10, <1>11,
     <1>12, <1>13, <1>14, <1>15, <1>16, <1>17, <1>18, <1>19, <1>20, <1>21,
     <1>22, <1>23, <1>24, <1>25, <1>26, <1>27, <1>28, <1>29, <1>30, <1>31,
     <1>32, <1>33, <1>34
  DEF Next, SenderNext, SenderStart, SenderStep, MainNext, SingleDispatch,
      EnforcerNext, DisconnectNext

(* A callback is made for an unanswered handler only, and leaves no second *)
(* way to an answer behind.                                                *)
LEMMA UnansweredStep ==
  ASSUME TypeOK, LocalsSet, FreshUnknown, ListsDisjoint, MapExclusive,
         SendersExclusive, AttachedPending, ReferenceClaims, ReplyInProgress,
         Unanswered, AnsweredAtMostOnce, [Next]_vars
  PROVE  Unanswered' /\ AnsweredAtMostOnce'
<1>1. CASE \E t \in Threads, c \in Calls : SendRefused(t, c)
  BY <1>1 DEF SendRefused, Unanswered, AnsweredAtMostOnce, Busy, Keys
<1>2. CASE \E t \in Threads, c \in Calls : SendFailed(t, c)
  BY <1>2 DEF SendFailed, IdleSender, TypeOK, LocalsSet, FreshUnknown,
              Unanswered, AnsweredAtMostOnce, Busy, Keys
<1>3. CASE \E t \in Threads, c \in Calls : Send(t, c)
  BY <1>3 DEF Send, Freed, IdleSender, TypeOK, LocalsSet, FreshUnknown,
              Unanswered, AnsweredAtMostOnce, Busy, Keys
<1>4. CASE \E t \in Threads, c \in Calls : PushReply(t, c)
  BY <1>4 DEF PushReply, TypeOK, LocalsSet, FreshUnknown, Unanswered,
              AnsweredAtMostOnce, Busy, Keys
<1>5. CASE \E t \in Threads : PushFailure(t)
  BY <1>5 DEF PushFailure, IdleSender, TypeOK, LocalsSet, Unanswered,
              AnsweredAtMostOnce, Busy, Keys
<1>6. CASE \E t \in Threads : RegisterTimeout(t)
  BY <1>6 DEF RegisterTimeout, IdleSender, TypeOK, LocalsSet, Unanswered,
              AnsweredAtMostOnce, Busy, Keys
<1>7. CASE \E t \in Threads : DeleteStale(t)
  BY <1>7 DEF DeleteStale, IdleSender, TypeOK, LocalsSet, Unanswered,
              AnsweredAtMostOnce, Busy, Keys
<1>8. CASE \E t \in Threads : NotifyAfterSend(t)
  BY <1>8 DEF NotifyAfterSend, IdleSender, TypeOK, LocalsSet, Unanswered,
              AnsweredAtMostOnce, Busy, Keys
<1>9. CASE \E t \in Threads : RegisterInfinite(t)
  BY <1>9 DEF RegisterInfinite, IdleSender, TypeOK, LocalsSet, Unanswered,
              AnsweredAtMostOnce, Busy, Keys
<1>10. CASE IsDispatchReady
  BY <1>10 DEF IsDispatchReady, MainAt, TypeOK, LocalsSet, Unanswered,
               AnsweredAtMostOnce, Busy, Keys
<1>11. CASE TakeTimeouts
  BY <1>11 DEF TakeTimeouts, MainAt, TypeOK, LocalsSet, Unanswered,
               AnsweredAtMostOnce, Busy, Keys
<1>12. CASE DeliverTimeout
  BY <1>12 DEF DeliverTimeout, MainAt, TypeOK, LocalsSet, ListsDisjoint,
               SendersExclusive, MapExclusive, Held, InAList, Unanswered,
               AnsweredAtMostOnce, Busy, Keys
<1>13. CASE DeleteDelivered
  BY <1>13 DEF DeleteDelivered, MainAt, TypeOK, LocalsSet, Unanswered,
               AnsweredAtMostOnce, Busy, Keys
<1>14. CASE BeginDispatch
  BY <1>14 DEF BeginDispatch, MainAt, TypeOK, LocalsSet, Unanswered,
               AnsweredAtMostOnce, Busy, Keys
<1>15. CASE \E p \in Pendings : CompletePendingCall(p)
  BY <1>15 DEF CompletePendingCall, TypeOK, LocalsSet, AttachedPending,
               Unanswered, AnsweredAtMostOnce, Busy, Keys
<1>16. CASE DispatchOther
  BY <1>16 DEF DispatchOther, MainAt, TypeOK, LocalsSet, Unanswered,
               AnsweredAtMostOnce, Busy, Keys
<1>17. CASE StartExecution
  BY <1>17 DEF StartExecution, ProcessReply, TypeOK, LocalsSet, Unanswered,
               AnsweredAtMostOnce, Busy, Keys
<1>18. CASE OnDBusMessageReply
  BY <1>18 DEF OnDBusMessageReply, TypeOK, LocalsSet, ReplyInProgress,
               Unanswered, AnsweredAtMostOnce, Busy, Keys
<1>19. CASE FinishExecution
  BY <1>19 DEF FinishExecution, SetExecutionFinished, MainAt, TypeOK,
               LocalsSet, Unanswered, AnsweredAtMostOnce, Busy, Keys
<1>20. CASE NotifyAfterReply
  BY <1>20 DEF NotifyAfterReply, TypeOK, LocalsSet, Unanswered,
               AnsweredAtMostOnce, Busy, Keys
<1>21. CASE EndDispatch
  BY <1>21 DEF EndDispatch, MainAt, TypeOK, LocalsSet, Unanswered,
               AnsweredAtMostOnce, Busy, Keys
<1>22. CASE PopReply
  BY <1>22 DEF PopReply, MainAt, TypeOK, LocalsSet, Unanswered,
               AnsweredAtMostOnce, Busy, Keys
<1>23. CASE PopDelete
  BY <1>23 DEF PopDelete, Unanswered, AnsweredAtMostOnce, Busy, Keys
<1>24. CASE StopMainLoop
  BY <1>24 DEF StopMainLoop, MainAt, TypeOK, LocalsSet, Unanswered,
               AnsweredAtMostOnce, Busy, Keys
<1>25. CASE \/ EnforcerCheck \/ EnforcerTimedOut \/ EnforcerNotified
  BY <1>25 DEF EnforcerCheck, EnforcerTimedOut, EnforcerNotified, Unanswered,
               AnsweredAtMostOnce, Busy, Keys
<1>26. CASE \E p \in Pendings : ExpireUnstarted(p)
  BY <1>26 DEF ExpireUnstarted, GiveUp, TypeOK, LocalsSet, MapExclusive,
               InAList, Unanswered, AnsweredAtMostOnce, Busy, Keys
<1>27. CASE \E p \in Pendings : ExpireRunning(p)
  BY <1>27 DEF ExpireRunning, Unanswered, AnsweredAtMostOnce, Busy, Keys
<1>28. CASE \E p \in Pendings : CollectFinished(p)
  BY <1>28 DEF CollectFinished, TypeOK, LocalsSet, Unanswered,
               AnsweredAtMostOnce, Busy, Keys
<1>29. CASE \E p \in Pendings : SkipEntry(p)
  BY <1>29 DEF SkipEntry, Unanswered, AnsweredAtMostOnce, Busy, Keys
<1>30. CASE \E p \in Pendings : CleanupEntry(p)
  BY <1>30 DEF CleanupEntry, TypeOK, LocalsSet, Unanswered,
               AnsweredAtMostOnce, Busy, Keys
<1>31. CASE \/ EnforceInfinite \/ CleanupInfinite \/ EnforcerDelete
            \/ (\E p \in Pendings : Elapse(p))
            \/ (\E by \in {"app", "main"} : DisconnectBegin(by))
            \/ DisconnectWait \/ DisconnectClose \/ DisconnectJoinMain
            \/ DisconnectCancel \/ DisconnectRelease
  BY <1>31 DEF EnforceInfinite, CleanupInfinite, EnforcerDelete, Elapse,
               DisconnectBegin, DisconnectWait, DisconnectClose,
               DisconnectJoinMain, DisconnectCancel, DisconnectRelease,
               Unanswered, AnsweredAtMostOnce, Busy, Keys
<1>32. CASE Connect
  BY <1>32 DEF Connect, MainAt, TypeOK, LocalsSet, Unanswered,
               AnsweredAtMostOnce, Busy, Keys
<1>33. CASE UNCHANGED vars
  BY <1>33 DEF vars, Unanswered, AnsweredAtMostOnce, Busy, Keys
<1>. QED
  BY <1>1, <1>2, <1>3, <1>4, <1>5, <1>6, <1>7, <1>8, <1>9, <1>10, <1>11,
     <1>12, <1>13, <1>14, <1>15, <1>16, <1>17, <1>18, <1>19, <1>20, <1>21,
     <1>22, <1>23, <1>24, <1>25, <1>26, <1>27, <1>28, <1>29, <1>30, <1>31,
     <1>32, <1>33
  DEF Next, SenderNext, SenderStart, SenderStep, MainNext, SingleDispatch,
      EnforcerNext, DisconnectNext

(* A step that takes a handler from its place puts it into another one or  *)
(* deletes it, unless the connection is closing.                           *)
LEMMA HeldStep ==
  ASSUME TypeOK, LocalsSet, SendersExclusive, ClosingKnown, HandlersHeld,
         [Next]_vars
  PROVE  ClosingKnown' /\ HandlersHeld'
<1>1. CASE \E t \in Threads, c \in Calls : SendRefused(t, c)
  BY <1>1 DEF SendRefused, TypeOK, LocalsSet, ClosingKnown, HandlersHeld,
              HeldSomewhere, Held, Busy, Closing
<1>2. CASE \E t \in Threads, c \in Calls : SendFailed(t, c)
  BY <1>2 DEF SendFailed, IdleSender, TypeOK, LocalsSet, ClosingKnown,
              HandlersHeld, HeldSomewhere, Held, Busy, Closing
<1>3. CASE \E t \in Threads, c \in Calls : Send(t, c)
  BY <1>3 DEF Send, Freed, IdleSender, TypeOK, LocalsSet, ClosingKnown,
              HandlersHeld, HeldSomewhere, Held, Busy, Closing
<1>4. CASE \E t \in Threads, c \in Calls : PushReply(t, c)
  BY <1>4 DEF PushReply, TypeOK, LocalsSet, ClosingKnown, HandlersHeld,
              HeldSomewhere, Held, Busy, Closing
<1>5. CASE \E t \in Threads : PushFailure(t)
  BY <1>5 DEF PushFailure, IdleSender, TypeOK, LocalsSet, ClosingKnown,
              HandlersHeld, HeldSomewhere, Held, Busy, Closing
<1>6. CASE \E t \in Threads : RegisterTimeout(t)
  BY <1>6 DEF RegisterTimeout, IdleSender, TypeOK, LocalsSet, ClosingKnown,
              HandlersHeld, HeldSomewhere, Held, Busy, Closing
<1>7. CASE \E t \in Threads : DeleteStale(t)
  BY <1>7 DEF DeleteStale, IdleSender, TypeOK, LocalsSet, ClosingKnown,
              HandlersHeld, HeldSomewhere, Held, Busy, Closing
<1>8. CASE \E t \in Threads : NotifyAfterSend(t)
  BY <1>8 DEF NotifyAfterSend, IdleSender, TypeOK, LocalsSet, NotifyEnforcer,
              EnforcerThreadMutexFree, ClosingKnown, HandlersHeld,
              HeldSomewhere, Held, Busy, Closing
<1>9. CASE \E t \in Threads : RegisterInfinite(t)
  BY <1>9 DEF RegisterInfinite, IdleSender, TypeOK, LocalsSet, ClosingKnown,
              HandlersHeld, HeldSomewhere, Held, Busy, Closing
<1>10. CASE IsDispatchReady
  BY <1>10 DEF IsDispatchReady, MainAt, TypeOK, LocalsSet, ClosingKnown,
               HandlersHeld, HeldSomewhere, Held, Busy, Closing
<1>11. CASE TakeTimeouts
  BY <1>11 DEF TakeTimeouts, MainAt, TypeOK, LocalsSet, ClosingKnown,
               HandlersHeld, HeldSomewhere, Held, Busy, Closing
<1>12. CASE DeliverTimeout
  BY <1>12 DEF DeliverTimeout, MainAt, TypeOK, LocalsSet, ClosingKnown,
               HandlersHeld, HeldSomewhere, Held, Busy, Closing
<1>13. CASE DeleteDelivered
  BY <1>13 DEF DeleteDelivered, MainAt, TypeOK, LocalsSet, ClosingKnown,
               HandlersHeld, HeldSomewhere, Held, Busy, Closing
<1>14. CASE BeginDispatch
  BY <1>14 DEF BeginDispatch, MainAt, TypeOK, LocalsSet, ClosingKnown,
               HandlersHeld, HeldSomewhere, Held, Busy, Closing
<1>15. CASE \E p \in Pendings : CompletePendingCall(p)
  BY <1>15 DEF CompletePendingCall, TypeOK, LocalsSet, ClosingKnown,
               HandlersHeld, HeldSomewhere, Held, Busy, Closing
<1>16. CASE DispatchOther
  BY <1>16 DEF DispatchOther, MainAt, TypeOK, LocalsSet, ClosingKnown,
               HandlersHeld, HeldSomewhere, Held, Busy, Closing
<1>17. CASE StartExecution
  BY <1>17 DEF StartExecution, ProcessReply, TypeOK, LocalsSet, ClosingKnown,
               HandlersHeld, HeldSomewhere, Held, Busy, Closing
<1>18. CASE OnDBusMessageReply
  BY <1>18 DEF OnDBusMessageReply, TypeOK, LocalsSet, ClosingKnown,
               HandlersHeld, HeldSomewhere, Held, Busy, Closing
<1>19. CASE FinishExecution
  BY <1>19 DEF FinishExecution, SetExecutionFinished, MainAt, TypeOK,
               LocalsSet, ClosingKnown, HandlersHeld, HeldSomewhere, Held,
               Busy, Closing
<1>20. CASE NotifyAfterReply
  BY <1>20 DEF NotifyAfterReply, TypeOK, LocalsSet, NotifyEnforcer,
               EnforcerThreadMutexFree, ClosingKnown, HandlersHeld,
               HeldSomewhere, Held, Busy, Closing
<1>21. CASE EndDispatch
  BY <1>21 DEF EndDispatch, MainAt, TypeOK, LocalsSet, ClosingKnown,
               HandlersHeld, HeldSomewhere, Held, Busy, Closing
<1>22. CASE PopReply
  BY <1>22 DEF PopReply, MainAt, TypeOK, LocalsSet, ClosingKnown,
               HandlersHeld, HeldSomewhere, Held, Busy, Closing
<1>23. CASE PopDelete
  BY <1>23 DEF PopDelete, TypeOK, LocalsSet, ClosingKnown, HandlersHeld,
               HeldSomewhere, Held, Busy, Closing
<1>24. CASE StopMainLoop
  BY <1>24 DEF StopMainLoop, MainAt, TypeOK, LocalsSet, ClosingKnown,
               HandlersHeld, HeldSomewhere, Held, Busy, Closing
<1>25. CASE EnforcerCheck
  BY <1>25 DEF EnforcerCheck, Keys, TypeOK, LocalsSet, ClosingKnown,
               HandlersHeld, HeldSomewhere, Held, Busy, Closing
<1>26. CASE EnforcerTimedOut
  BY <1>26 DEF EnforcerTimedOut, Keys, TypeOK, LocalsSet, ClosingKnown,
               HandlersHeld, HeldSomewhere, Held, Busy, Closing
<1>27. CASE EnforcerNotified
  BY <1>27 DEF EnforcerNotified, Keys, TypeOK, LocalsSet, ClosingKnown,
               HandlersHeld, HeldSomewhere, Held, Busy, Closing
<1>28. CASE \E p \in Pendings : ExpireUnstarted(p)
  BY <1>28 DEF ExpireUnstarted, GiveUp, Keys, TypeOK, LocalsSet, ClosingKnown,
               HandlersHeld, HeldSomewhere, Held, Busy, Closing
<1>29. CASE \E p \in Pendings : ExpireRunning(p)
  BY <1>29 DEF ExpireRunning, ClosingKnown, HandlersHeld, HeldSomewhere, Held,
               Busy, Closing
<1>30. CASE \E p \in Pendings : CollectFinished(p)
  BY <1>30 DEF CollectFinished, TypeOK, LocalsSet, ClosingKnown, HandlersHeld,
               HeldSomewhere, Held, Busy, Closing
<1>31. CASE \E p \in Pendings : SkipEntry(p)
  BY <1>31 DEF SkipEntry, ClosingKnown, HandlersHeld, HeldSomewhere, Held,
               Busy, Closing
<1>32. CASE \E p \in Pendings : CleanupEntry(p)
  BY <1>32 DEF CleanupEntry, TypeOK, LocalsSet, ClosingKnown, HandlersHeld,
               HeldSomewhere, Held, Busy, Closing
<1>33. CASE EnforceInfinite
  BY <1>33 DEF EnforceInfinite, TypeOK, LocalsSet, ClosingKnown, HandlersHeld,
               HeldSomewhere, Held, Busy, Closing
<1>34. CASE CleanupInfinite
  BY <1>34 DEF CleanupInfinite, TypeOK, LocalsSet, ClosingKnown, HandlersHeld,
               HeldSomewhere, Held, Busy, Closing
<1>35. CASE EnforcerDelete
  BY <1>35 DEF EnforcerDelete, TypeOK, LocalsSet, ClosingKnown, HandlersHeld,
               HeldSomewhere, Held, Busy, Closing
<1>36. CASE \E p \in Pendings : Elapse(p)
  BY <1>36 DEF Elapse, ClosingKnown, HandlersHeld, HeldSomewhere, Held, Busy,
               Closing
<1>37. CASE \E by \in {"app", "main"} : DisconnectBegin(by)
  BY <1>37 DEF DisconnectBegin, TypeOK, LocalsSet, ClosingKnown, HandlersHeld,
               HeldSomewhere, Held, Busy, Closing
<1>38. CASE DisconnectWait
  BY <1>38 DEF DisconnectWait, TypeOK, LocalsSet, ClosingKnown, HandlersHeld,
               HeldSomewhere, Held, Busy, Closing
<1>39. CASE DisconnectClose
  BY <1>39 DEF DisconnectClose, TypeOK, LocalsSet, ClosingKnown, HandlersHeld,
               HeldSomewhere, Held, Busy, Closing
<1>40. CASE DisconnectJoinMain
  BY <1>40 DEF DisconnectJoinMain, TypeOK, LocalsSet, ClosingKnown,
               HandlersHeld, HeldSomewhere, Held, Busy, Closing
<1>41. CASE DisconnectCancel
  BY <1>41 DEF DisconnectCancel, TypeOK, LocalsSet, NotifyEnforcer,
               EnforcerThreadMutexFree, ClosingKnown, HandlersHeld,
               HeldSomewhere, Held, Busy, Closing
<1>42. CASE DisconnectRelease
  BY <1>42 DEF DisconnectRelease, TypeOK, LocalsSet, ClosingKnown,
               HandlersHeld, HeldSomewhere, Held, Busy, Closing
<1>43. CASE Connect
  BY <1>43 DEF Connect, MainAt, TypeOK, LocalsSet, ClosingKnown, HandlersHeld,
               HeldSomewhere, Held, Busy, Closing
<1>44. CASE UNCHANGED vars
  BY <1>44 DEF vars, ClosingKnown, HandlersHeld, HeldSomewhere, Held, Busy,
               Closing
<1>. QED
  BY <1>1, <1>2, <1>3, <1>4, <1>5, <1>6, <1>7, <1>8, <1>9, <1>10, <1>11,
     <1>12, <1>13, <1>14, <1>15, <1>16, <1>17, <1>18, <1>19, <1>20, <1>21,
     <1>22, <1>23, <1>24, <1>25, <1>26, <1>27, <1>28, <1>29, <1>30, <1>31,
     <1>32, <1>33, <1>34, <1>35, <1>36, <1>37, <1>38, <1>39, <1>40, <1>41,
     <1>42, <1>43, <1>44
  DEF Next, SenderNext, SenderStart, SenderStep, MainNext, SingleDispatch,
      EnforcerNext, DisconnectNext

-----------------------------------------------------------------------------
(* The theorems.                                                           *)

LEMMA InitIndInv == Init => IndInv
<1>. SUFFICES ASSUME Init PROVE IndInv
  OBVIOUS
<1>. USE DEF Init
<1>1. TypeOK
  <2>1. sender \in [Threads -> Sender] /\ main \in Main
    BY DEF Sender, Main, SendPcs, MainPcs, IdleSender, MainAt
  <2>2. connects \in 1 .. MaxConnects
    OBVIOUS
  <2>. QED
    BY <2>1, <2>2 DEF TypeOK, EnforcerPcs, CloserPcs
<1>2. LocalsSet /\ AttachedPending /\ ReferenceClaims /\ ReplyInProgress
  BY DEF LocalsSet, AttachedPending, ReferenceClaims, ReplyInProgress, Busy,
         Keys, IdleSender, MainAt
<1>3. FreshUnknown /\ ListsDisjoint /\ MapExclusive /\ SendersExclusive
      /\ NotifyDataInjective
  BY DEF FreshUnknown, ListsDisjoint, MapExclusive, SendersExclusive,
         NotifyDataInjective, Busy, Keys, Held, InAList, IdleSender, MainAt
<1>4. Unanswered /\ AnsweredAtMostOnce
  BY DEF Unanswered, AnsweredAtMostOnce, Keys, IdleSender, MainAt
<1>5. ClosingKnown /\ HandlersHeld
  BY DEF ClosingKnown, HandlersHeld
<1>. QED
  BY <1>1, <1>2, <1>3, <1>4, <1>5 DEF IndInv

(* The invariant holds in every reachable state.                           *)
THEOREM Inductive == Spec => []IndInv
<1>1. IndInv /\ [Next]_vars => IndInv'
  <2>. SUFFICES ASSUME IndInv, [Next]_vars PROVE IndInv'
    OBVIOUS
  <2>. QED
    BY TypeStep, LocalsStep, FreshStep, ExclusiveStep, ReferencesStep,
       UnansweredStep, HeldStep
    DEF IndInv
<1>. QED
  BY <1>1, InitIndInv, PTL DEF Spec

(* Every variable keeps its type: no container receives anything but the   *)
(* handler or the pending call of a call that was made.                    *)
THEOREM TypeCorrect == Spec => []TypeOK
<1>1. IndInv => TypeOK
  BY DEF IndInv
<1>. QED
  BY <1>1, Inductive, PTL

(* onDBusMessageReply runs at most once per call, however replies,         *)
(* timeouts, disconnects and reconnects interleave.                        *)
THEOREM AtMostOneAnswer == Spec => []AnsweredAtMostOnce
<1>1. IndInv => AnsweredAtMostOnce
  BY DEF IndInv
<1>. QED
  BY <1>1, Inductive, PTL

(* The enforcer, a sender or onLibdbusPendingCall never uses or returns a  *)
(* reference to a DBusPendingCall that another one has returned, although  *)
(* addresses are reused.                                                   *)
THEOREM ReferenceKept == Spec => []PendingReferenceHeld
<1>1. IndInv => PendingReferenceHeld
  BY DEF IndInv, PendingReferenceHeld, ReferenceClaims, ReplyInProgress, Busy
<1>. QED
  BY <1>1, Inductive, PTL

(* No two parties will ever delete the same handler.                       *)
THEOREM OneHolder == Spec => []SingleHolder
<1>1. IndInv => SingleHolder
  <2>. SUFFICES ASSUME IndInv, NEW c \in Calls,
                       NEW x \in Holders(c), NEW y \in Holders(c)
                PROVE  x = y
    BY DEF SingleHolder
  <2>. QED
    BY DEF IndInv, TypeOK, Sender, LocalsSet, ListsDisjoint, MapExclusive,
           SendersExclusive, ReplyInProgress, Busy, Held, InAList, Keys,
           Holders
<1>. QED
  BY <1>1, Inductive, PTL

(* Until the connection is told to close, every live handler is held by    *)
(* somebody who will answer or delete it.                                  *)
THEOREM NoneForgotten == Spec => []NoHandlerForgotten
<1>1. IndInv => NoHandlerForgotten
  <2>. SUFFICES ASSUME IndInv, ~Closing,
                       NEW c \in Calls, handler[c] = "live"
                PROVE  Holders(c) # {}
    BY DEF NoHandlerForgotten
  <2>1. HeldSomewhere(c)
    BY DEF IndInv, HandlersHeld
  <2>2. CASE \E t \in Threads : Held(t) = c
    <3>. PICK t \in Threads : Held(t) = c
      BY <2>2
    <3>1. <<"sender", t>> \in Holders(c) \/ <<"stale", t>> \in Holders(c)
      BY DEF Held, Holders
    <3>. QED
      BY <3>1
  <2>3. CASE \E p \in Pendings : timeoutMap[p] = c
    <3>. PICK p \in Pendings : timeoutMap[p] = c
      BY <2>3
    <3>1. <<"timeoutMap", p>> \in Holders(c)
      BY DEF Holders
    <3>. QED
      BY <3>1
  <2>4. CASE c \in infiniteHandlers \cup mainloopTimeouts \cup batch
    <3>1. CASE c \in infiniteHandlers
      <4>1. <<"infinite", None>> \in {<<"infinite", None>> : x \in infiniteHandlers \cap {c}}
        BY <3>1
      <4>. QED
        BY <4>1 DEF Holders
    <3>2. CASE c \in mainloopTimeouts
      <4>1. <<"mainloopTimeouts", None>>
              \in {<<"mainloopTimeouts", None>> : x \in mainloopTimeouts \cap {c}}
        BY <3>2
      <4>. QED
        BY <4>1 DEF Holders
    <3>3. CASE c \in batch
      <4>1. <<"batch", None>> \in {<<"batch", None>> : x \in batch \cap {c}}
        BY <3>3
      <4>. QED
        BY <4>1 DEF Holders
    <3>. QED
      BY <2>4, <3>1, <3>2, <3>3
  <2>5. CASE c \in asyncHandlersToDelete \cup replyQueue
    <3>1. CASE c \in asyncHandlersToDelete
      <4>1. <<"toDelete", None>>
              \in {<<"toDelete", None>> : x \in asyncHandlersToDelete \cap {c}}
        BY <3>1
      <4>. QED
        BY <4>1 DEF Holders
    <3>2. CASE c \in replyQueue
      <4>1. <<"replyQueue", None>> \in {<<"replyQueue", None>> : x \in replyQueue \cap {c}}
        BY <3>2
      <4>. QED
        BY <4>1 DEF Holders
    <3>. QED
      BY <2>5, <3>1, <3>2
  <2>6. CASE Busy /\ main.call = c /\ c \in hasToBeDeleted
    <3> DEFINE S == hasToBeDeleted \cap
          (IF main.pc \in {"reply", "callback", "returning", "finish"}
             THEN {main.call} ELSE {}) \cap {c}
    <3>1. c \in S
      BY <2>6 DEF Busy
    <3> HIDE DEF S
    <3>2. <<"main", None>> \in {<<"main", None>> : x \in S}
      BY <3>1
    <3>. QED
      BY <3>2 DEF Holders, S
  <2>. QED
    BY <2>1, <2>2, <2>3, <2>4, <2>5, <2>6 DEF HeldSomewhere
<1>. QED
  BY <1>1, Inductive, PTL

(* Both: the parties that delete handlers neither compete for one nor      *)
(* leave one behind.                                                       *)
THEOREM HandlerAlwaysOwned == Spec => []HandlerOwned
<1>1. SingleHolder /\ NoHandlerForgotten => HandlerOwned
  BY DEF HandlerOwned
<1>. QED
  BY <1>1, OneHolder, NoneForgotten, PTL

(* A handler is owned by one party, and the reference to its pending call  *)
(* is there for the one that returns it.                                   *)
THEOREM OwnershipKept == Spec => []Ownership
<1>1. HandlerOwned /\ PendingReferenceHeld => Ownership
  BY DEF Ownership
<1>. QED
  BY <1>1, HandlerAlwaysOwned, ReferenceKept, PTL

-----------------------------------------------------------------------------
(* What needs conditions: that no reachable state follows a pointer to a   *)
(* deleted handler, that an entry replaced in the map is one of a finished *)
(* call, and that the connection implements AsyncCallContract.  They hold  *)
(* for all sets of calls and threads under the conditions below.  Without  *)
(* the first, a late registration deletes the handler of a call that waits *)
(* under the same address; without the second, the enforcer that was       *)
(* cancelled by the first disconnect deletes handlers whose replies may    *)
(* still come.                                                             *)

(* The conditions.                                                         *)

(* No address is handed out twice, or one thread sends: then nobody can    *)
(* register a call under the address of another one that is waiting.       *)
NoKeyRace ==
  \/ \A c, d \in Calls : c # d => Addresses[c] \cap Addresses[d] = {}
  \/ \A t, u \in Threads : t = u

(* After a disconnect there is no second connect on the same object.       *)
ConnectedOnce == MaxConnects = 1

-----------------------------------------------------------------------------
(* The parts that are added to the inductive invariant.                    *)

(* A sender that is about to register still knows the pending call by its  *)
(* address, and the entry it replaces is one of a finished call.           *)
SentKnown ==
  \A t \in Threads :
    /\ sender[t].pc = "sent" =>
         /\ sender[t].pending \in Addresses[sender[t].call]
         /\ notifyData[sender[t].pending] = sender[t].call
    /\ sender[t].pc = "deleteStale" => execution[sender[t].stale] = "finished"

(* The execution flags follow the main loop thread, and a finished call    *)
(* was answered.                                                           *)
ExecutionKnown ==
  /\ \A c \in Calls : handler[c] = "none" => execution[c] = "no"
  /\ \A c \in Calls : execution[c] = "finished" => answers[c] = 1
  /\ \A p \in attached : execution[notifyData[p]] = "no"
  /\ \A c \in replyQueue : execution[c] = "no"
  /\ main.pc = "reply" => execution[main.call] = "no"
  /\ main.pc \in {"callback", "returning", "finish"}
       => execution[main.call] = "started"
  /\ main.pc \in {"delivered", "returning"} => answers[main.call] = 1

(* A call that was given up has left the map, and is not left to the main  *)
(* loop thread for deletion.                                               *)
GivenUp ==
  \A c \in timeoutOccurred :
    /\ handler[c] # "none"
    /\ c \notin infiniteHandlers \cup replyQueue \cup hasToBeDeleted
    /\ \A p \in Pendings : timeoutMap[p] # c
    /\ \A t \in Threads : sender[t].pc = "sent" => sender[t].call # c

(* Only the reply of such a call is dropped without a callback.            *)
DroppedGivenUp == main.pc = "finish" => main.call \in timeoutOccurred

(* Between setDispatching(true) and setDispatching(false).                 *)
Dispatching == {"dispatch", "reply", "callback", "returning", "finish",
                "notify", "endDispatch"}

(* When the enforcer is cancelled, no dispatch is under way but the one    *)
(* whose callback disconnects, and none will begin.                        *)
DispatchEnds ==
  /\ main.pc \in Dispatching => isDispatching
  /\ disconnectPc = "waitDispatch" => disconnectBy = "app"
  /\ disconnectPc \in {"close", "joinMain", "cancel"} =>
       /\ isDisconnecting
       /\ IF disconnectBy = "main" THEN InCallback ELSE ~isDispatching
  /\ enforcerThreadCancelled =>
       /\ isDisconnecting
       /\ main.pc \notin {"dispatch", "reply", "callback", "finish"}

(* What is collected for deletion was answered, unless the enforcer was    *)
(* cancelled, and is not in the hands of the main loop thread.             *)
Collected ==
  \A c \in asyncHandlersToDelete :
    /\ answers[c] = 1 \/ enforcerThreadCancelled
    /\ Busy => main.call # c

(* Whoever holds a handler, or will be given one, holds one that lives.    *)
HeldAreLive ==
  /\ \A t \in Threads : Held(t) # None => handler[Held(t)] = "live"
  /\ \A p \in Keys : handler[timeoutMap[p]] = "live"
  /\ \A c \in infiniteHandlers \cup mainloopTimeouts \cup batch
          \cup asyncHandlersToDelete \cup replyQueue : handler[c] = "live"
  /\ Busy => handler[main.call] = "live"
  /\ ~enforcerThreadCancelled =>
       \A p \in attached : handler[notifyData[p]] = "live"


(* What is added to IndInv.                                                *)
Strong ==
  SentKnown /\ ExecutionKnown /\ GivenUp /\ DroppedGivenUp /\ DispatchEnds
    /\ Collected /\ HeldAreLive

-----------------------------------------------------------------------------
USE CallsAssumption
USE DEF handlerVars, pendingVars, mapVars, queueVars, listVars, linkVars,
        mainVars, enforcerVars, closerVars

(* A step keeps what a sender knows of its pending call.                    *)
LEMMA SentStep ==
  ASSUME TypeOK, LocalsSet, FreshUnknown, SendersExclusive, ReferenceClaims,
         NoKeyRace, SentKnown, [Next]_vars
  PROVE  SentKnown'
<1>1. CASE \E t \in Threads, c \in Calls : SendFailed(t, c)
  BY <1>1 DEF SendFailed, IdleSender, TypeOK, LocalsSet, SentKnown
<1>2. CASE \E t \in Threads, c \in Calls : Send(t, c)
  BY <1>2 DEF Send, IdleSender, Freed, TypeOK, LocalsSet, FreshUnknown,
              Held, NoKeyRace, SentKnown
<1>3. CASE \E t \in Threads : PushFailure(t)
  BY <1>3 DEF PushFailure, IdleSender, TypeOK, LocalsSet, SentKnown
<1>4. CASE \E t \in Threads : RegisterTimeout(t)
  BY <1>4 DEF RegisterTimeout, IdleSender, TypeOK, LocalsSet,
              ReferenceClaims, Held, SendersExclusive, Keys, SentKnown
<1>5. CASE \E t \in Threads : DeleteStale(t)
  BY <1>5 DEF DeleteStale, IdleSender, TypeOK, LocalsSet, SentKnown
<1>6. CASE \E t \in Threads : NotifyAfterSend(t)
  BY <1>6 DEF NotifyAfterSend, NotifyEnforcer, EnforcerThreadMutexFree,
              IdleSender, TypeOK, LocalsSet, SentKnown
<1>7. CASE \E t \in Threads : RegisterInfinite(t)
  BY <1>7 DEF RegisterInfinite, IdleSender, TypeOK, LocalsSet, SentKnown
<1>8. CASE StartExecution
  BY <1>8 DEF StartExecution, ProcessReply, TypeOK, LocalsSet, SentKnown
<1>9. CASE FinishExecution
  BY <1>9 DEF FinishExecution, SetExecutionFinished, MainAt, TypeOK,
              LocalsSet, SentKnown
<1>10. CASE \/ (\E t \in Threads, c \in Calls : SendRefused(t, c))
            \/ (\E t \in Threads, c \in Calls : PushReply(t, c))
            \/ IsDispatchReady \/ TakeTimeouts \/ DeliverTimeout
            \/ DeleteDelivered \/ BeginDispatch
  BY <1>10 DEF SendRefused, PushReply, IsDispatchReady, TakeTimeouts,
               DeliverTimeout, DeleteDelivered, BeginDispatch, SentKnown
<1>11. CASE \/ (\E p \in Pendings : CompletePendingCall(p))
            \/ DispatchOther \/ OnDBusMessageReply \/ NotifyAfterReply
            \/ EndDispatch \/ PopReply \/ PopDelete
  BY <1>11 DEF CompletePendingCall, DispatchOther, OnDBusMessageReply,
               NotifyAfterReply, NotifyEnforcer, EndDispatch, PopReply,
               PopDelete, SentKnown
<1>12. CASE \/ StopMainLoop \/ EnforcerCheck \/ EnforcerTimedOut
            \/ EnforcerNotified \/ (\E p \in Pendings : ExpireUnstarted(p))
            \/ (\E p \in Pendings : ExpireRunning(p))
            \/ (\E p \in Pendings : CollectFinished(p))
  BY <1>12 DEF StopMainLoop, EnforcerCheck, EnforcerTimedOut,
               EnforcerNotified, ExpireUnstarted, GiveUp, ExpireRunning,
               CollectFinished, SentKnown
<1>13. CASE \/ (\E p \in Pendings : SkipEntry(p)) \/ EnforceInfinite
            \/ (\E p \in Pendings : CleanupEntry(p)) \/ CleanupInfinite
            \/ EnforcerDelete \/ (\E p \in Pendings : Elapse(p))
            \/ (\E by \in {"app", "main"} : DisconnectBegin(by))
  BY <1>13 DEF SkipEntry, EnforceInfinite, CleanupEntry, CleanupInfinite,
               EnforcerDelete, Elapse, DisconnectBegin, SentKnown
<1>14. CASE \/ DisconnectWait \/ DisconnectClose \/ DisconnectJoinMain
            \/ DisconnectCancel \/ DisconnectRelease \/ Connect
  BY <1>14 DEF DisconnectWait, DisconnectClose, DisconnectJoinMain,
               DisconnectCancel, NotifyEnforcer, DisconnectRelease, Connect,
               SentKnown
<1>15. CASE UNCHANGED vars
  BY <1>15 DEF vars, SentKnown
<1>. QED
  BY <1>1, <1>2, <1>3, <1>4, <1>5, <1>6, <1>7, <1>8, <1>9, <1>10, <1>11,
     <1>12, <1>13, <1>14, <1>15
  DEF Next, SenderNext, SenderStart, SenderStep, MainNext, SingleDispatch,
      EnforcerNext, DisconnectNext

(* A step keeps the flags in line with the main loop thread.               *)
LEMMA ExecutionStep ==
  ASSUME TypeOK, LocalsSet, FreshUnknown, NotifyDataInjective,
         AttachedPending, ReplyInProgress, Unanswered, AnsweredAtMostOnce,
         ExecutionKnown, [Next]_vars
  PROVE  ExecutionKnown'
<1>1. CASE \E t \in Threads, c \in Calls : SendRefused(t, c)
  BY <1>1 DEF SendRefused, TypeOK, LocalsSet, ExecutionKnown
<1>2. CASE \E t \in Threads, c \in Calls : SendFailed(t, c)
  BY <1>2 DEF SendFailed, IdleSender, TypeOK, LocalsSet, ExecutionKnown
<1>3. CASE \E t \in Threads, c \in Calls : Send(t, c)
  BY <1>3 DEF Send, IdleSender, Freed, TypeOK, LocalsSet, Busy,
              FreshUnknown, InAList, AttachedPending, ReplyInProgress,
              Unanswered, ExecutionKnown
<1>4. CASE \E t \in Threads, c \in Calls : PushReply(t, c)
  BY <1>4 DEF PushReply, TypeOK, LocalsSet, Busy, FreshUnknown, InAList,
              AttachedPending, ReplyInProgress, Unanswered, ExecutionKnown
<1>5. CASE \E t \in Threads : DeleteStale(t)
  BY <1>5 DEF DeleteStale, IdleSender, TypeOK, LocalsSet, Busy,
              FreshUnknown, InAList, AttachedPending, ReplyInProgress,
              Unanswered, ExecutionKnown
<1>6. CASE IsDispatchReady
  BY <1>6 DEF IsDispatchReady, MainAt, TypeOK, LocalsSet, ExecutionKnown
<1>7. CASE TakeTimeouts
  BY <1>7 DEF TakeTimeouts, MainAt, TypeOK, LocalsSet, ExecutionKnown
<1>8. CASE DeliverTimeout
  BY <1>8 DEF DeliverTimeout, MainAt, TypeOK, LocalsSet, Busy, FreshUnknown,
              InAList, AttachedPending, ReplyInProgress, Unanswered,
              ExecutionKnown
<1>9. CASE DeleteDelivered
  BY <1>9 DEF DeleteDelivered, MainAt, TypeOK, LocalsSet, ExecutionKnown
<1>10. CASE BeginDispatch
  BY <1>10 DEF BeginDispatch, MainAt, TypeOK, LocalsSet, ExecutionKnown
<1>11. CASE \E p \in Pendings : CompletePendingCall(p)
  BY <1>11 DEF CompletePendingCall, TypeOK, LocalsSet, Busy, FreshUnknown,
               InAList, AttachedPending, ReplyInProgress, Unanswered,
               ExecutionKnown
<1>12. CASE DispatchOther
  BY <1>12 DEF DispatchOther, MainAt, TypeOK, LocalsSet, ExecutionKnown
<1>13. CASE StartExecution
  BY <1>13 DEF StartExecution, ProcessReply, TypeOK, LocalsSet, Busy,
               FreshUnknown, InAList, AttachedPending, ReplyInProgress,
               Unanswered, ExecutionKnown
<1>14. CASE OnDBusMessageReply
  BY <1>14 DEF OnDBusMessageReply, TypeOK, LocalsSet, Busy, FreshUnknown,
               InAList, AttachedPending, ReplyInProgress, Unanswered,
               ExecutionKnown
<1>15. CASE FinishExecution
  BY <1>15 DEF FinishExecution, SetExecutionFinished, MainAt, TypeOK,
               LocalsSet, Busy, FreshUnknown, InAList, AttachedPending,
               ReplyInProgress, Unanswered, ExecutionKnown
<1>16. CASE NotifyAfterReply
  BY <1>16 DEF NotifyAfterReply, NotifyEnforcer, EnforcerThreadMutexFree,
               TypeOK, LocalsSet, ExecutionKnown
<1>17. CASE EndDispatch
  BY <1>17 DEF EndDispatch, MainAt, TypeOK, LocalsSet, ExecutionKnown
<1>18. CASE PopReply
  BY <1>18 DEF PopReply, MainAt, TypeOK, LocalsSet, Busy, FreshUnknown,
               InAList, AttachedPending, ReplyInProgress, Unanswered,
               ExecutionKnown
<1>19. CASE PopDelete
  BY <1>19 DEF PopDelete, TypeOK, LocalsSet, Busy, FreshUnknown, InAList,
               AttachedPending, ReplyInProgress, Unanswered, ExecutionKnown
<1>20. CASE StopMainLoop
  BY <1>20 DEF StopMainLoop, MainAt, TypeOK, LocalsSet, ExecutionKnown
<1>21. CASE \E p \in Pendings : ExpireUnstarted(p)
  BY <1>21 DEF ExpireUnstarted, GiveUp, TypeOK, LocalsSet, ExecutionKnown
<1>22. CASE EnforcerDelete
  BY <1>22 DEF EnforcerDelete, TypeOK, LocalsSet, Busy, FreshUnknown,
               InAList, AttachedPending, ReplyInProgress, Unanswered,
               ExecutionKnown
<1>23. CASE DisconnectRelease
  BY <1>23 DEF DisconnectRelease, TypeOK, LocalsSet, ExecutionKnown
<1>24. CASE Connect
  BY <1>24 DEF Connect, MainAt, TypeOK, LocalsSet, ExecutionKnown
<1>25. CASE \/ (\E t \in Threads : PushFailure(t))
            \/ (\E t \in Threads : RegisterTimeout(t))
            \/ (\E t \in Threads : NotifyAfterSend(t))
            \/ (\E t \in Threads : RegisterInfinite(t)) \/ EnforcerCheck
            \/ EnforcerTimedOut \/ EnforcerNotified
  BY <1>25 DEF PushFailure, RegisterTimeout, NotifyAfterSend,
               NotifyEnforcer, RegisterInfinite, EnforcerCheck,
               EnforcerTimedOut, EnforcerNotified, ExecutionKnown
<1>26. CASE \/ (\E p \in Pendings : ExpireRunning(p))
            \/ (\E p \in Pendings : CollectFinished(p))
            \/ (\E p \in Pendings : SkipEntry(p)) \/ EnforceInfinite
            \/ (\E p \in Pendings : CleanupEntry(p)) \/ CleanupInfinite
            \/ (\E p \in Pendings : Elapse(p))
  BY <1>26 DEF ExpireRunning, CollectFinished, SkipEntry, EnforceInfinite,
               CleanupEntry, CleanupInfinite, Elapse, ExecutionKnown
<1>27. CASE \/ (\E by \in {"app", "main"} : DisconnectBegin(by))
            \/ DisconnectWait \/ DisconnectClose \/ DisconnectJoinMain
            \/ DisconnectCancel
  BY <1>27 DEF DisconnectBegin, DisconnectWait, DisconnectClose,
               DisconnectJoinMain, DisconnectCancel, NotifyEnforcer,
               ExecutionKnown
<1>28. CASE UNCHANGED vars
  BY <1>28 DEF vars, ExecutionKnown
<1>. QED
  BY <1>1, <1>2, <1>3, <1>4, <1>5, <1>6, <1>7, <1>8, <1>9, <1>10, <1>11,
     <1>12, <1>13, <1>14, <1>15, <1>16, <1>17, <1>18, <1>19, <1>20, <1>21,
     <1>22, <1>23, <1>24, <1>25, <1>26, <1>27, <1>28
  DEF Next, SenderNext, SenderStart, SenderStep, MainNext, SingleDispatch,
      EnforcerNext, DisconnectNext

(* A step keeps calls that were given up out of the other containers.       *)
LEMMA GivenUpStep ==
  ASSUME TypeOK, LocalsSet, FreshUnknown, MapExclusive, SendersExclusive,
         GivenUp, [Next]_vars
  PROVE  GivenUp'
<1>1. CASE \E t \in Threads, c \in Calls : SendRefused(t, c)
  BY <1>1 DEF SendRefused, TypeOK, LocalsSet, GivenUp
<1>2. CASE \E t \in Threads, c \in Calls : SendFailed(t, c)
  BY <1>2 DEF SendFailed, IdleSender, TypeOK, LocalsSet, GivenUp
<1>3. CASE \E t \in Threads, c \in Calls : Send(t, c)
  BY <1>3 DEF Send, IdleSender, Freed, TypeOK, LocalsSet, GivenUp
<1>4. CASE \E t \in Threads, c \in Calls : PushReply(t, c)
  BY <1>4 DEF PushReply, TypeOK, LocalsSet, GivenUp
<1>5. CASE \E t \in Threads : PushFailure(t)
  BY <1>5 DEF PushFailure, IdleSender, TypeOK, LocalsSet, GivenUp
<1>6. CASE \E t \in Threads : RegisterTimeout(t)
  BY <1>6 DEF RegisterTimeout, IdleSender, TypeOK, LocalsSet, GivenUp
<1>7. CASE \E t \in Threads : DeleteStale(t)
  BY <1>7 DEF DeleteStale, IdleSender, TypeOK, LocalsSet, GivenUp
<1>8. CASE \E t \in Threads : NotifyAfterSend(t)
  BY <1>8 DEF NotifyAfterSend, NotifyEnforcer, EnforcerThreadMutexFree,
              IdleSender, TypeOK, LocalsSet, GivenUp
<1>9. CASE \E t \in Threads : RegisterInfinite(t)
  BY <1>9 DEF RegisterInfinite, IdleSender, TypeOK, LocalsSet, GivenUp
<1>10. CASE DeleteDelivered
  BY <1>10 DEF DeleteDelivered, MainAt, TypeOK, LocalsSet, GivenUp
<1>11. CASE FinishExecution
  BY <1>11 DEF FinishExecution, SetExecutionFinished, MainAt, TypeOK,
               LocalsSet, GivenUp
<1>12. CASE PopReply
  BY <1>12 DEF PopReply, MainAt, TypeOK, LocalsSet, GivenUp
<1>13. CASE PopDelete
  BY <1>13 DEF PopDelete, TypeOK, LocalsSet, GivenUp
<1>14. CASE \E p \in Pendings : ExpireUnstarted(p)
  BY <1>14 DEF ExpireUnstarted, GiveUp, TypeOK, LocalsSet, FreshUnknown,
               MapExclusive, SendersExclusive, InAList, Held, Keys, GivenUp
<1>15. CASE \E p \in Pendings : CollectFinished(p)
  BY <1>15 DEF CollectFinished, TypeOK, LocalsSet, GivenUp
<1>16. CASE EnforceInfinite
  BY <1>16 DEF EnforceInfinite, TypeOK, LocalsSet, GivenUp
<1>17. CASE \E p \in Pendings : CleanupEntry(p)
  BY <1>17 DEF CleanupEntry, TypeOK, LocalsSet, Keys, GivenUp
<1>18. CASE CleanupInfinite
  BY <1>18 DEF CleanupInfinite, TypeOK, LocalsSet, GivenUp
<1>19. CASE EnforcerDelete
  BY <1>19 DEF EnforcerDelete, TypeOK, LocalsSet, GivenUp
<1>20. CASE Connect
  BY <1>20 DEF Connect, MainAt, TypeOK, LocalsSet, GivenUp
<1>21. CASE \/ IsDispatchReady \/ TakeTimeouts \/ DeliverTimeout
            \/ BeginDispatch
            \/ (\E p \in Pendings : CompletePendingCall(p))
            \/ DispatchOther \/ StartExecution
  BY <1>21 DEF IsDispatchReady, TakeTimeouts, DeliverTimeout, BeginDispatch,
               CompletePendingCall, DispatchOther, StartExecution,
               ProcessReply, GivenUp
<1>22. CASE \/ OnDBusMessageReply \/ NotifyAfterReply \/ EndDispatch
            \/ StopMainLoop \/ EnforcerCheck \/ EnforcerTimedOut
            \/ EnforcerNotified
  BY <1>22 DEF OnDBusMessageReply, NotifyAfterReply, NotifyEnforcer,
               EndDispatch, StopMainLoop, EnforcerCheck, EnforcerTimedOut,
               EnforcerNotified, GivenUp
<1>23. CASE \/ (\E p \in Pendings : ExpireRunning(p))
            \/ (\E p \in Pendings : SkipEntry(p))
            \/ (\E p \in Pendings : Elapse(p))
            \/ (\E by \in {"app", "main"} : DisconnectBegin(by))
            \/ DisconnectWait \/ DisconnectClose \/ DisconnectJoinMain
  BY <1>23 DEF ExpireRunning, SkipEntry, Elapse, DisconnectBegin,
               DisconnectWait, DisconnectClose, DisconnectJoinMain, GivenUp
<1>24. CASE \/ DisconnectCancel \/ DisconnectRelease
  BY <1>24 DEF DisconnectCancel, NotifyEnforcer, DisconnectRelease, GivenUp
<1>25. CASE UNCHANGED vars
  BY <1>25 DEF vars, GivenUp
<1>. QED
  BY <1>1, <1>2, <1>3, <1>4, <1>5, <1>6, <1>7, <1>8, <1>9, <1>10, <1>11,
     <1>12, <1>13, <1>14, <1>15, <1>16, <1>17, <1>18, <1>19, <1>20, <1>21,
     <1>22, <1>23, <1>24, <1>25
  DEF Next, SenderNext, SenderStart, SenderStep, MainNext, SingleDispatch,
      EnforcerNext, DisconnectNext

(* A step drops only the reply of a call that was given up.                 *)
LEMMA DroppedStep ==
  ASSUME TypeOK, LocalsSet, DroppedGivenUp, [Next]_vars
  PROVE  DroppedGivenUp'
<1>1. CASE \E t \in Threads, c \in Calls : SendRefused(t, c)
  BY <1>1 DEF SendRefused, TypeOK, LocalsSet, DroppedGivenUp
<1>2. CASE \E t \in Threads, c \in Calls : SendFailed(t, c)
  BY <1>2 DEF SendFailed, IdleSender, TypeOK, LocalsSet, DroppedGivenUp
<1>3. CASE \E t \in Threads, c \in Calls : Send(t, c)
  BY <1>3 DEF Send, IdleSender, Freed, TypeOK, LocalsSet, DroppedGivenUp
<1>4. CASE \E t \in Threads, c \in Calls : PushReply(t, c)
  BY <1>4 DEF PushReply, TypeOK, LocalsSet, DroppedGivenUp
<1>5. CASE \E t \in Threads : RegisterTimeout(t)
  BY <1>5 DEF RegisterTimeout, IdleSender, TypeOK, LocalsSet, DroppedGivenUp
<1>6. CASE \E t \in Threads : DeleteStale(t)
  BY <1>6 DEF DeleteStale, IdleSender, TypeOK, LocalsSet, DroppedGivenUp
<1>7. CASE IsDispatchReady
  BY <1>7 DEF IsDispatchReady, MainAt, TypeOK, LocalsSet, DroppedGivenUp
<1>8. CASE TakeTimeouts
  BY <1>8 DEF TakeTimeouts, MainAt, TypeOK, LocalsSet, DroppedGivenUp
<1>9. CASE DeliverTimeout
  BY <1>9 DEF DeliverTimeout, MainAt, TypeOK, LocalsSet, DroppedGivenUp
<1>10. CASE DeleteDelivered
  BY <1>10 DEF DeleteDelivered, MainAt, TypeOK, LocalsSet, DroppedGivenUp
<1>11. CASE BeginDispatch
  BY <1>11 DEF BeginDispatch, MainAt, TypeOK, LocalsSet, DroppedGivenUp
<1>12. CASE \E p \in Pendings : CompletePendingCall(p)
  BY <1>12 DEF CompletePendingCall, TypeOK, LocalsSet, DroppedGivenUp
<1>13. CASE DispatchOther
  BY <1>13 DEF DispatchOther, MainAt, TypeOK, LocalsSet, DroppedGivenUp
<1>14. CASE StartExecution
  BY <1>14 DEF StartExecution, ProcessReply, TypeOK, LocalsSet,
               DroppedGivenUp
<1>15. CASE OnDBusMessageReply
  BY <1>15 DEF OnDBusMessageReply, TypeOK, LocalsSet, DroppedGivenUp
<1>16. CASE FinishExecution
  BY <1>16 DEF FinishExecution, SetExecutionFinished, MainAt, TypeOK,
               LocalsSet, DroppedGivenUp
<1>17. CASE NotifyAfterReply
  BY <1>17 DEF NotifyAfterReply, NotifyEnforcer, EnforcerThreadMutexFree,
               TypeOK, LocalsSet, DroppedGivenUp
<1>18. CASE EndDispatch
  BY <1>18 DEF EndDispatch, MainAt, TypeOK, LocalsSet, DroppedGivenUp
<1>19. CASE PopReply
  BY <1>19 DEF PopReply, MainAt, TypeOK, LocalsSet, DroppedGivenUp
<1>20. CASE StopMainLoop
  BY <1>20 DEF StopMainLoop, MainAt, TypeOK, LocalsSet, DroppedGivenUp
<1>21. CASE \E p \in Pendings : ExpireUnstarted(p)
  BY <1>21 DEF ExpireUnstarted, GiveUp, TypeOK, LocalsSet, DroppedGivenUp
<1>22. CASE Connect
  BY <1>22 DEF Connect, MainAt, TypeOK, LocalsSet, DroppedGivenUp
<1>23. CASE \/ (\E t \in Threads : PushFailure(t))
            \/ (\E t \in Threads : NotifyAfterSend(t))
            \/ (\E t \in Threads : RegisterInfinite(t)) \/ PopDelete
            \/ EnforcerCheck \/ EnforcerTimedOut \/ EnforcerNotified
  BY <1>23 DEF PushFailure, NotifyAfterSend, NotifyEnforcer,
               RegisterInfinite, PopDelete, EnforcerCheck, EnforcerTimedOut,
               EnforcerNotified, DroppedGivenUp
<1>24. CASE \/ (\E p \in Pendings : ExpireRunning(p))
            \/ (\E p \in Pendings : CollectFinished(p))
            \/ (\E p \in Pendings : SkipEntry(p)) \/ EnforceInfinite
            \/ (\E p \in Pendings : CleanupEntry(p)) \/ CleanupInfinite
            \/ EnforcerDelete
  BY <1>24 DEF ExpireRunning, CollectFinished, SkipEntry, EnforceInfinite,
               CleanupEntry, CleanupInfinite, EnforcerDelete, DroppedGivenUp
<1>25. CASE \/ (\E p \in Pendings : Elapse(p))
            \/ (\E by \in {"app", "main"} : DisconnectBegin(by))
            \/ DisconnectWait \/ DisconnectClose \/ DisconnectJoinMain
            \/ DisconnectCancel \/ DisconnectRelease
  BY <1>25 DEF Elapse, DisconnectBegin, DisconnectWait, DisconnectClose,
               DisconnectJoinMain, DisconnectCancel, NotifyEnforcer,
               DisconnectRelease, DroppedGivenUp
<1>26. CASE UNCHANGED vars
  BY <1>26 DEF vars, DroppedGivenUp
<1>. QED
  BY <1>1, <1>2, <1>3, <1>4, <1>5, <1>6, <1>7, <1>8, <1>9, <1>10, <1>11,
     <1>12, <1>13, <1>14, <1>15, <1>16, <1>17, <1>18, <1>19, <1>20, <1>21,
     <1>22, <1>23, <1>24, <1>25, <1>26
  DEF Next, SenderNext, SenderStart, SenderStep, MainNext, SingleDispatch,
      EnforcerNext, DisconnectNext

(* A step does not begin a dispatch that a disconnect has forbidden.       *)
LEMMA DispatchStep ==
  ASSUME TypeOK, LocalsSet, ClosingKnown, ConnectedOnce, DispatchEnds,
         [Next]_vars
  PROVE  DispatchEnds'
<1>1. CASE \E t \in Threads, c \in Calls : SendRefused(t, c)
  BY <1>1 DEF SendRefused, TypeOK, LocalsSet, DispatchEnds, Dispatching,
              InCallback
<1>2. CASE \E t \in Threads, c \in Calls : SendFailed(t, c)
  BY <1>2 DEF SendFailed, IdleSender, TypeOK, LocalsSet, DispatchEnds,
              Dispatching, InCallback
<1>3. CASE \E t \in Threads, c \in Calls : Send(t, c)
  BY <1>3 DEF Send, IdleSender, Freed, TypeOK, LocalsSet, DispatchEnds,
              Dispatching, InCallback
<1>4. CASE \E t \in Threads, c \in Calls : PushReply(t, c)
  BY <1>4 DEF PushReply, TypeOK, LocalsSet, DispatchEnds, Dispatching,
              InCallback
<1>5. CASE \E t \in Threads : RegisterTimeout(t)
  BY <1>5 DEF RegisterTimeout, IdleSender, TypeOK, LocalsSet, DispatchEnds,
              Dispatching, InCallback
<1>6. CASE \E t \in Threads : DeleteStale(t)
  BY <1>6 DEF DeleteStale, IdleSender, TypeOK, LocalsSet, DispatchEnds,
              Dispatching, InCallback
<1>7. CASE IsDispatchReady
  BY <1>7 DEF IsDispatchReady, MainAt, TypeOK, LocalsSet, DispatchEnds,
              Dispatching, InCallback
<1>8. CASE TakeTimeouts
  BY <1>8 DEF TakeTimeouts, MainAt, TypeOK, LocalsSet, DispatchEnds,
              Dispatching, InCallback
<1>9. CASE DeliverTimeout
  BY <1>9 DEF DeliverTimeout, MainAt, TypeOK, LocalsSet, DispatchEnds,
              Dispatching, InCallback
<1>10. CASE DeleteDelivered
  BY <1>10 DEF DeleteDelivered, MainAt, TypeOK, LocalsSet,
               MainBusyDisconnecting, DispatchEnds, Dispatching, InCallback
<1>11. CASE BeginDispatch
  BY <1>11 DEF BeginDispatch, MainAt, TypeOK, LocalsSet, DispatchEnds,
               Dispatching, InCallback
<1>12. CASE \E p \in Pendings : CompletePendingCall(p)
  BY <1>12 DEF CompletePendingCall, TypeOK, LocalsSet, DispatchEnds,
               Dispatching, InCallback
<1>13. CASE DispatchOther
  BY <1>13 DEF DispatchOther, MainAt, TypeOK, LocalsSet, DispatchEnds,
               Dispatching, InCallback
<1>14. CASE StartExecution
  BY <1>14 DEF StartExecution, ProcessReply, TypeOK, LocalsSet,
               DispatchEnds, Dispatching, InCallback
<1>15. CASE OnDBusMessageReply
  BY <1>15 DEF OnDBusMessageReply, TypeOK, LocalsSet, DispatchEnds,
               Dispatching, InCallback
<1>16. CASE FinishExecution
  BY <1>16 DEF FinishExecution, SetExecutionFinished, MainAt, TypeOK,
               LocalsSet, MainBusyDisconnecting, DispatchEnds, Dispatching,
               InCallback
<1>17. CASE NotifyAfterReply
  BY <1>17 DEF NotifyAfterReply, NotifyEnforcer, EnforcerThreadMutexFree,
               TypeOK, LocalsSet, DispatchEnds, Dispatching, InCallback
<1>18. CASE EndDispatch
  BY <1>18 DEF EndDispatch, MainAt, TypeOK, LocalsSet, DispatchEnds,
               Dispatching, InCallback
<1>19. CASE PopReply
  BY <1>19 DEF PopReply, MainAt, TypeOK, LocalsSet, DispatchEnds,
               Dispatching, InCallback
<1>20. CASE StopMainLoop
  BY <1>20 DEF StopMainLoop, MainAt, TypeOK, LocalsSet, DispatchEnds,
               Dispatching, InCallback
<1>21. CASE \E by \in {"app", "main"} : DisconnectBegin(by)
  BY <1>21 DEF DisconnectBegin, TypeOK, LocalsSet, ClosingKnown,
               DispatchEnds, Dispatching, InCallback
<1>22. CASE DisconnectWait
  BY <1>22 DEF DisconnectWait, TypeOK, LocalsSet, ClosingKnown,
               DispatchEnds, Dispatching, InCallback
<1>23. CASE DisconnectClose
  BY <1>23 DEF DisconnectClose, TypeOK, LocalsSet, ClosingKnown,
               DispatchEnds, Dispatching, InCallback
<1>24. CASE DisconnectJoinMain
  BY <1>24 DEF DisconnectJoinMain, TypeOK, LocalsSet, DispatchEnds,
               Dispatching, InCallback
<1>25. CASE DisconnectCancel
  BY <1>25 DEF DisconnectCancel, NotifyEnforcer, EnforcerThreadMutexFree,
               TypeOK, LocalsSet, DispatchEnds, Dispatching, InCallback
<1>26. CASE DisconnectRelease
  BY <1>26 DEF DisconnectRelease, TypeOK, LocalsSet, DispatchEnds,
               Dispatching, InCallback
<1>27. CASE Connect
  BY <1>27 DEF Connect, MainAt, TypeOK, LocalsSet, ConnectedOnce,
               DispatchEnds, Dispatching, InCallback
<1>28. CASE \/ (\E t \in Threads : PushFailure(t))
            \/ (\E t \in Threads : NotifyAfterSend(t))
            \/ (\E t \in Threads : RegisterInfinite(t)) \/ PopDelete
            \/ EnforcerCheck \/ EnforcerTimedOut \/ EnforcerNotified
  BY <1>28 DEF PushFailure, NotifyAfterSend, NotifyEnforcer,
               RegisterInfinite, PopDelete, EnforcerCheck, EnforcerTimedOut,
               EnforcerNotified, DispatchEnds, Dispatching, InCallback
<1>29. CASE \/ (\E p \in Pendings : ExpireUnstarted(p))
            \/ (\E p \in Pendings : ExpireRunning(p))
            \/ (\E p \in Pendings : CollectFinished(p))
            \/ (\E p \in Pendings : SkipEntry(p)) \/ EnforceInfinite
            \/ (\E p \in Pendings : CleanupEntry(p)) \/ CleanupInfinite
  BY <1>29 DEF ExpireUnstarted, GiveUp, ExpireRunning, CollectFinished,
               SkipEntry, EnforceInfinite, CleanupEntry, CleanupInfinite,
               DispatchEnds, Dispatching, InCallback
<1>30. CASE \/ EnforcerDelete \/ (\E p \in Pendings : Elapse(p))
  BY <1>30 DEF EnforcerDelete, Elapse, DispatchEnds, Dispatching, InCallback
<1>31. CASE UNCHANGED vars
  BY <1>31 DEF vars, DispatchEnds, Dispatching, InCallback
<1>. QED
  BY <1>1, <1>2, <1>3, <1>4, <1>5, <1>6, <1>7, <1>8, <1>9, <1>10, <1>11,
     <1>12, <1>13, <1>14, <1>15, <1>16, <1>17, <1>18, <1>19, <1>20, <1>21,
     <1>22, <1>23, <1>24, <1>25, <1>26, <1>27, <1>28, <1>29, <1>30, <1>31
  DEF Next, SenderNext, SenderStart, SenderStep, MainNext, SingleDispatch,
      EnforcerNext, DisconnectNext

(* A step collects only what the main loop thread is done with.            *)
LEMMA CollectedStep ==
  ASSUME TypeOK, LocalsSet, ListsDisjoint, AttachedPending, ReplyInProgress,
         MapExclusive, AnsweredAtMostOnce, ClosingKnown, ExecutionKnown,
         DispatchEnds, Collected, [Next]_vars
  PROVE  Collected'
<1>1. CASE \E t \in Threads, c \in Calls : SendRefused(t, c)
  BY <1>1 DEF SendRefused, TypeOK, LocalsSet, Collected, Busy
<1>2. CASE \E t \in Threads, c \in Calls : SendFailed(t, c)
  BY <1>2 DEF SendFailed, IdleSender, TypeOK, LocalsSet, Collected, Busy
<1>3. CASE \E t \in Threads, c \in Calls : Send(t, c)
  BY <1>3 DEF Send, IdleSender, Freed, TypeOK, LocalsSet, Collected, Busy
<1>4. CASE \E t \in Threads, c \in Calls : PushReply(t, c)
  BY <1>4 DEF PushReply, TypeOK, LocalsSet, Collected, Busy
<1>5. CASE \E t \in Threads : RegisterTimeout(t)
  BY <1>5 DEF RegisterTimeout, IdleSender, TypeOK, LocalsSet, Collected,
              Busy
<1>6. CASE \E t \in Threads : DeleteStale(t)
  BY <1>6 DEF DeleteStale, IdleSender, TypeOK, LocalsSet, Collected, Busy
<1>7. CASE IsDispatchReady
  BY <1>7 DEF IsDispatchReady, MainAt, TypeOK, LocalsSet, Collected, Busy
<1>8. CASE TakeTimeouts
  BY <1>8 DEF TakeTimeouts, MainAt, TypeOK, LocalsSet, Collected, Busy
<1>9. CASE DeliverTimeout
  BY <1>9 DEF DeliverTimeout, MainAt, TypeOK, LocalsSet, AnsweredAtMostOnce,
              ListsDisjoint, Collected, Busy
<1>10. CASE DeleteDelivered
  BY <1>10 DEF DeleteDelivered, MainAt, TypeOK, LocalsSet, Collected, Busy
<1>11. CASE BeginDispatch
  BY <1>11 DEF BeginDispatch, MainAt, TypeOK, LocalsSet, Collected, Busy
<1>12. CASE \E p \in Pendings : CompletePendingCall(p)
  BY <1>12 DEF CompletePendingCall, TypeOK, LocalsSet, AttachedPending,
               DispatchEnds, ExecutionKnown, Collected, Busy
<1>13. CASE DispatchOther
  BY <1>13 DEF DispatchOther, MainAt, TypeOK, LocalsSet, Collected, Busy
<1>14. CASE StartExecution
  BY <1>14 DEF StartExecution, ProcessReply, TypeOK, LocalsSet, Collected,
               Busy
<1>15. CASE OnDBusMessageReply
  BY <1>15 DEF OnDBusMessageReply, TypeOK, LocalsSet, DispatchEnds,
               Collected, Busy
<1>16. CASE FinishExecution
  BY <1>16 DEF FinishExecution, SetExecutionFinished, MainAt, TypeOK,
               LocalsSet, Collected, Busy
<1>17. CASE NotifyAfterReply
  BY <1>17 DEF NotifyAfterReply, NotifyEnforcer, EnforcerThreadMutexFree,
               TypeOK, LocalsSet, Collected, Busy
<1>18. CASE EndDispatch
  BY <1>18 DEF EndDispatch, MainAt, TypeOK, LocalsSet, Collected, Busy
<1>19. CASE PopReply
  BY <1>19 DEF PopReply, MainAt, TypeOK, LocalsSet, ListsDisjoint,
               Collected, Busy
<1>20. CASE PopDelete
  BY <1>20 DEF PopDelete, TypeOK, LocalsSet, Collected, Busy
<1>21. CASE StopMainLoop
  BY <1>21 DEF StopMainLoop, MainAt, TypeOK, LocalsSet, Collected, Busy
<1>22. CASE \E p \in Pendings : CollectFinished(p)
  BY <1>22 DEF CollectFinished, TypeOK, LocalsSet, ExecutionKnown, Keys,
               Collected, Busy
<1>23. CASE EnforceInfinite
  BY <1>23 DEF EnforceInfinite, TypeOK, LocalsSet, ExecutionKnown,
               Collected, Busy
<1>24. CASE \E p \in Pendings : CleanupEntry(p)
  BY <1>24 DEF CleanupEntry, TypeOK, LocalsSet, ExecutionKnown,
               DispatchEnds, ClosingKnown, Collected, Busy
<1>25. CASE CleanupInfinite
  BY <1>25 DEF CleanupInfinite, TypeOK, LocalsSet, ExecutionKnown,
               DispatchEnds, ClosingKnown, Collected, Busy
<1>26. CASE EnforcerDelete
  BY <1>26 DEF EnforcerDelete, TypeOK, LocalsSet, Collected, Busy
<1>27. CASE DisconnectCancel
  BY <1>27 DEF DisconnectCancel, NotifyEnforcer, EnforcerThreadMutexFree,
               TypeOK, LocalsSet, Collected, Busy
<1>28. CASE Connect
  BY <1>28 DEF Connect, MainAt, TypeOK, LocalsSet, Collected, Busy
<1>29. CASE \/ (\E t \in Threads : PushFailure(t))
            \/ (\E t \in Threads : NotifyAfterSend(t))
            \/ (\E t \in Threads : RegisterInfinite(t)) \/ EnforcerCheck
            \/ EnforcerTimedOut \/ EnforcerNotified
            \/ (\E p \in Pendings : ExpireUnstarted(p))
  BY <1>29 DEF PushFailure, NotifyAfterSend, NotifyEnforcer,
               RegisterInfinite, EnforcerCheck, EnforcerTimedOut,
               EnforcerNotified, ExpireUnstarted, GiveUp, Collected, Busy
<1>30. CASE \/ (\E p \in Pendings : ExpireRunning(p))
            \/ (\E p \in Pendings : SkipEntry(p))
            \/ (\E p \in Pendings : Elapse(p))
            \/ (\E by \in {"app", "main"} : DisconnectBegin(by))
            \/ DisconnectWait \/ DisconnectClose \/ DisconnectJoinMain
  BY <1>30 DEF ExpireRunning, SkipEntry, Elapse, DisconnectBegin,
               DisconnectWait, DisconnectClose, DisconnectJoinMain,
               Collected, Busy
<1>31. CASE \/ DisconnectRelease
  BY <1>31 DEF DisconnectRelease, Collected, Busy
<1>32. CASE UNCHANGED vars
  BY <1>32 DEF vars, Collected, Busy
<1>. QED
  BY <1>1, <1>2, <1>3, <1>4, <1>5, <1>6, <1>7, <1>8, <1>9, <1>10, <1>11,
     <1>12, <1>13, <1>14, <1>15, <1>16, <1>17, <1>18, <1>19, <1>20, <1>21,
     <1>22, <1>23, <1>24, <1>25, <1>26, <1>27, <1>28, <1>29, <1>30, <1>31,
     <1>32
  DEF Next, SenderNext, SenderStart, SenderStep, MainNext, SingleDispatch,
      EnforcerNext, DisconnectNext

(* A step deletes no handler that somebody holds.                          *)
LEMMA LiveStep ==
  ASSUME TypeOK, LocalsSet, FreshUnknown, ListsDisjoint, MapExclusive,
         SendersExclusive, AttachedPending, ReplyInProgress, ClosingKnown,
         SentKnown, ExecutionKnown, DispatchEnds, Collected, HeldAreLive,
         [Next]_vars
  PROVE  HeldAreLive'
<1>1. CASE \E t \in Threads, c \in Calls : SendRefused(t, c)
  BY <1>1 DEF SendRefused, TypeOK, LocalsSet, FreshUnknown, InAList,
              AttachedPending, HeldAreLive, Held, Keys, Busy
<1>2. CASE \E t \in Threads, c \in Calls : SendFailed(t, c)
  BY <1>2 DEF SendFailed, IdleSender, TypeOK, LocalsSet, FreshUnknown,
              InAList, AttachedPending, HeldAreLive, Held, Keys, Busy
<1>3. CASE \E t \in Threads, c \in Calls : Send(t, c)
  BY <1>3 DEF Send, IdleSender, Freed, TypeOK, LocalsSet, FreshUnknown,
              InAList, AttachedPending, HeldAreLive, Held, Keys, Busy
<1>4. CASE \E t \in Threads, c \in Calls : PushReply(t, c)
  BY <1>4 DEF PushReply, TypeOK, LocalsSet, FreshUnknown, InAList,
              AttachedPending, HeldAreLive, Held, Keys, Busy
<1>5. CASE \E t \in Threads : PushFailure(t)
  BY <1>5 DEF PushFailure, IdleSender, TypeOK, LocalsSet, HeldAreLive, Held,
              Keys, Busy
<1>6. CASE \E t \in Threads : RegisterTimeout(t)
  BY <1>6 DEF RegisterTimeout, IdleSender, TypeOK, LocalsSet, HeldAreLive,
              Held, Keys, Busy
<1>7. CASE \E t \in Threads : DeleteStale(t)
  BY <1>7 DEF DeleteStale, IdleSender, TypeOK, LocalsSet, SendersExclusive,
              InAList, SentKnown, ExecutionKnown, AttachedPending,
              HeldAreLive, Held, Keys, Busy
<1>8. CASE \E t \in Threads : NotifyAfterSend(t)
  BY <1>8 DEF NotifyAfterSend, NotifyEnforcer, EnforcerThreadMutexFree,
              IdleSender, TypeOK, LocalsSet, HeldAreLive, Held, Keys, Busy
<1>9. CASE \E t \in Threads : RegisterInfinite(t)
  BY <1>9 DEF RegisterInfinite, IdleSender, TypeOK, LocalsSet, HeldAreLive,
              Held, Keys, Busy
<1>10. CASE IsDispatchReady
  BY <1>10 DEF IsDispatchReady, MainAt, TypeOK, LocalsSet, HeldAreLive,
               Held, Keys, Busy
<1>11. CASE TakeTimeouts
  BY <1>11 DEF TakeTimeouts, MainAt, TypeOK, LocalsSet, HeldAreLive, Held,
               Keys, Busy
<1>12. CASE DeliverTimeout
  BY <1>12 DEF DeliverTimeout, MainAt, TypeOK, LocalsSet, HeldAreLive, Held,
               Keys, Busy
<1>13. CASE DeleteDelivered
  BY <1>13 DEF DeleteDelivered, MainAt, TypeOK, LocalsSet, SendersExclusive,
               MapExclusive, ListsDisjoint, InAList, AttachedPending,
               HeldAreLive, Held, Keys, Busy
<1>14. CASE BeginDispatch
  BY <1>14 DEF BeginDispatch, MainAt, TypeOK, LocalsSet, HeldAreLive, Held,
               Keys, Busy
<1>15. CASE \E p \in Pendings : CompletePendingCall(p)
  BY <1>15 DEF CompletePendingCall, TypeOK, LocalsSet, DispatchEnds,
               AttachedPending, HeldAreLive, Held, Keys, Busy
<1>16. CASE DispatchOther
  BY <1>16 DEF DispatchOther, MainAt, TypeOK, LocalsSet, HeldAreLive, Held,
               Keys, Busy
<1>17. CASE StartExecution
  BY <1>17 DEF StartExecution, ProcessReply, TypeOK, LocalsSet, HeldAreLive,
               Held, Keys, Busy
<1>18. CASE OnDBusMessageReply
  BY <1>18 DEF OnDBusMessageReply, TypeOK, LocalsSet, HeldAreLive, Held,
               Keys, Busy
<1>19. CASE FinishExecution
  BY <1>19 DEF FinishExecution, SetExecutionFinished, MainAt, TypeOK,
               LocalsSet, SendersExclusive, MapExclusive, ListsDisjoint,
               InAList, AttachedPending, ReplyInProgress, HeldAreLive, Held,
               Keys, Busy
<1>20. CASE NotifyAfterReply
  BY <1>20 DEF NotifyAfterReply, NotifyEnforcer, EnforcerThreadMutexFree,
               TypeOK, LocalsSet, HeldAreLive, Held, Keys, Busy
<1>21. CASE EndDispatch
  BY <1>21 DEF EndDispatch, MainAt, TypeOK, LocalsSet, HeldAreLive, Held,
               Keys, Busy
<1>22. CASE PopReply
  BY <1>22 DEF PopReply, MainAt, TypeOK, LocalsSet, HeldAreLive, Held, Keys,
               Busy
<1>23. CASE PopDelete
  BY <1>23 DEF PopDelete, TypeOK, LocalsSet, SendersExclusive, MapExclusive,
               ListsDisjoint, InAList, AttachedPending, Collected,
               HeldAreLive, Held, Keys, Busy
<1>24. CASE StopMainLoop
  BY <1>24 DEF StopMainLoop, MainAt, TypeOK, LocalsSet, HeldAreLive, Held,
               Keys, Busy
<1>25. CASE \E p \in Pendings : ExpireUnstarted(p)
  BY <1>25 DEF ExpireUnstarted, GiveUp, TypeOK, LocalsSet, HeldAreLive,
               Held, Keys, Busy
<1>26. CASE \E p \in Pendings : CollectFinished(p)
  BY <1>26 DEF CollectFinished, TypeOK, LocalsSet, HeldAreLive, Held, Keys,
               Busy
<1>27. CASE EnforceInfinite
  BY <1>27 DEF EnforceInfinite, TypeOK, LocalsSet, HeldAreLive, Held, Keys,
               Busy
<1>28. CASE \E p \in Pendings : CleanupEntry(p)
  BY <1>28 DEF CleanupEntry, TypeOK, LocalsSet, HeldAreLive, Held, Keys,
               Busy
<1>29. CASE CleanupInfinite
  BY <1>29 DEF CleanupInfinite, TypeOK, LocalsSet, HeldAreLive, Held, Keys,
               Busy
<1>30. CASE EnforcerDelete
  BY <1>30 DEF EnforcerDelete, TypeOK, LocalsSet, SendersExclusive,
               MapExclusive, ListsDisjoint, InAList, AttachedPending,
               Collected, ClosingKnown, HeldAreLive, Held, Keys, Busy
<1>31. CASE DisconnectCancel
  BY <1>31 DEF DisconnectCancel, NotifyEnforcer, EnforcerThreadMutexFree,
               TypeOK, LocalsSet, HeldAreLive, Held, Keys, Busy
<1>32. CASE DisconnectRelease
  BY <1>32 DEF DisconnectRelease, TypeOK, LocalsSet, HeldAreLive, Held,
               Keys, Busy
<1>33. CASE Connect
  BY <1>33 DEF Connect, MainAt, TypeOK, LocalsSet, HeldAreLive, Held, Keys,
               Busy
<1>34. CASE \/ EnforcerCheck \/ EnforcerTimedOut \/ EnforcerNotified
            \/ (\E p \in Pendings : ExpireRunning(p))
            \/ (\E p \in Pendings : SkipEntry(p))
            \/ (\E p \in Pendings : Elapse(p))
            \/ (\E by \in {"app", "main"} : DisconnectBegin(by))
  BY <1>34 DEF EnforcerCheck, EnforcerTimedOut, EnforcerNotified,
               ExpireRunning, SkipEntry, Elapse, DisconnectBegin,
               HeldAreLive, Held, Keys, Busy
<1>35. CASE \/ DisconnectWait \/ DisconnectClose \/ DisconnectJoinMain
  BY <1>35 DEF DisconnectWait, DisconnectClose, DisconnectJoinMain,
               HeldAreLive, Held, Keys, Busy
<1>36. CASE UNCHANGED vars
  BY <1>36 DEF vars, HeldAreLive, Held, Keys, Busy
<1>. QED
  BY <1>1, <1>2, <1>3, <1>4, <1>5, <1>6, <1>7, <1>8, <1>9, <1>10, <1>11,
     <1>12, <1>13, <1>14, <1>15, <1>16, <1>17, <1>18, <1>19, <1>20, <1>21,
     <1>22, <1>23, <1>24, <1>25, <1>26, <1>27, <1>28, <1>29, <1>30, <1>31,
     <1>32, <1>33, <1>34, <1>35, <1>36
  DEF Next, SenderNext, SenderStart, SenderStep, MainNext, SingleDispatch,
      EnforcerNext, DisconnectNext

-----------------------------------------------------------------------------
(* The theorems.                                                           *)

(* The initial state satisfies the added parts: nothing is in any place.   *)
LEMMA InitStrong == Init => Strong
<1>. SUFFICES ASSUME Init PROVE Strong
  OBVIOUS
<1>. QED
  BY DEF Init, Strong, SentKnown, ExecutionKnown, GivenUp, DroppedGivenUp,
         DispatchEnds, Dispatching, Collected, HeldAreLive, Held, Busy, Keys,
         IdleSender, MainAt

(* A step keeps the added parts.                                           *)
LEMMA StrongStep ==
  ASSUME NoKeyRace, ConnectedOnce, IndInv, Strong, [Next]_vars
  PROVE  Strong'
<1>1. SentKnown' /\ ExecutionKnown'
  BY SentStep, ExecutionStep DEF IndInv, Strong
<1>2. GivenUp' /\ DroppedGivenUp'
  BY GivenUpStep, DroppedStep DEF IndInv, Strong
<1>3. DispatchEnds'
  BY DispatchStep DEF IndInv, Strong
<1>4. Collected'
  BY CollectedStep DEF IndInv, Strong
<1>5. HeldAreLive'
  BY LiveStep DEF IndInv, Strong
<1>. QED
  BY <1>1, <1>2, <1>3, <1>4, <1>5 DEF Strong

(* With one connect and no address handed out to two threads, every        *)
(* reachable state satisfies all parts.                                    *)
THEOREM StrongInductive ==
  ASSUME NoKeyRace, ConnectedOnce
  PROVE  Spec => []Strong
<1>1. IndInv /\ Strong /\ [Next]_vars => Strong'
  BY StrongStep
<1>. QED
  BY <1>1, InitStrong, Inductive, PTL DEF Spec

(* "key has been reused": an entry that an insertion finds under its key   *)
(* is one of a finished call, when no two threads can get one address.     *)
THEOREM StaleIsFinished ==
  ASSUME NoKeyRace
  PROVE  Spec => []StaleEntryFinished
<1>1. Init => SentKnown
  BY InitStrong DEF Strong
<1>2. IndInv /\ SentKnown /\ [Next]_vars => SentKnown'
  BY SentStep DEF IndInv
<1>3. SentKnown => StaleEntryFinished
  BY DEF SentKnown, StaleEntryFinished
<1>. QED
  BY <1>1, <1>2, <1>3, Inductive, PTL DEF Spec

(* Whoever holds a handler is one of the holders named by HeldSomewhere.   *)
LEMMA HoldersHold ==
  ASSUME NEW c \in Calls, Holders(c) # {}
  PROVE  HeldSomewhere(c)
<1>. PICK x : x \in Holders(c)
  OBVIOUS
<1>1. \/ \E t \in Threads : sender[t].pc \in {"sent", "failed"} /\ sender[t].call = c
      \/ \E t \in Threads : sender[t].pc = "deleteStale" /\ sender[t].stale = c
      \/ \E p \in Pendings : timeoutMap[p] = c
      \/ c \in infiniteHandlers \/ c \in mainloopTimeouts \/ c \in batch
      \/ c \in asyncHandlersToDelete \/ c \in replyQueue
      \/ /\ main.pc \in {"reply", "callback", "returning", "finish"}
         /\ main.call = c /\ c \in hasToBeDeleted
  BY DEF Holders
<1>. QED
  BY <1>1 DEF HeldSomewhere, Held, Busy

(* Nothing that will be followed points to a deleted handler, as long as   *)
(* the connection is connected once and addresses are not handed out twice *)
(* to different threads.                                                   *)
THEOREM NothingDangles ==
  ASSUME NoKeyRace, ConnectedOnce
  PROVE  Spec => []NoDanglingHandler
<1>1. IndInv /\ Strong => NoDanglingHandler
  <2>. SUFFICES ASSUME IndInv, Strong PROVE NoDanglingHandler
    OBVIOUS
  <2>1. ASSUME NEW c \in Calls, Holders(c) # {} PROVE handler[c] = "live"
    <3>1. HeldSomewhere(c)
      BY <2>1, HoldersHold
    <3>2. c # None
      BY CallsAssumption
    <3>3. ASSUME NEW p \in Pendings, timeoutMap[p] = c
          PROVE  handler[c] = "live"
      BY <3>2, <3>3 DEF Strong, HeldAreLive, Keys
    <3>. QED
      BY <3>1, <3>2, <3>3 DEF HeldSomewhere, Strong, HeldAreLive
  <2>2. Busy => handler[main.call] = "live"
    BY DEF Strong, HeldAreLive
  <2>3. main.pc = "dispatch"
          => \A p \in attached : handler[notifyData[p]] = "live"
    BY DEF Strong, HeldAreLive, DispatchEnds
  <2>. QED
    BY <2>1, <2>2, <2>3 DEF NoDanglingHandler, Busy
<1>. QED
  BY <1>1, Inductive, StrongInductive, PTL

-----------------------------------------------------------------------------
(* The refinement.                                                         *)

(* A handler of the calls is deleted: a step of the contract.              *)
LEMMA DeletesOne ==
  ASSUME TypeOK, NEW c \in Calls, handler[c] = "live",
         answers[c] = 1 \/ Closing,
         handler' = [handler EXCEPT ![c] = "deleted"],
         answers' = answers, Closing' = Closing
  PROVE  Contract!ContractNext
<1>1. handler' = [d \in Calls |-> IF d \in {c} THEN "deleted" ELSE handler[d]]
  BY DEF TypeOK
<1>2. Contract!Delete({c})
  BY <1>1 DEF Contract!Delete
<1>. QED
  BY <1>2 DEF Contract!ContractNext

(* A step that touches neither the handlers nor the disconnect.            *)
Unseen == UNCHANGED <<handler, answers, isDisconnecting, enforcerThreadCancelled>>

(* Every step is one of the contract's or changes nothing it speaks of.    *)
LEMMA ContractStep ==
  ASSUME NoKeyRace, ConnectedOnce, IndInv, Strong, [Next]_vars
  PROVE  [Contract!ContractNext]_(Contract!contractVars)
<1>. USE DEF IndInv, Strong
<1>0. Unseen => UNCHANGED Contract!contractVars
  BY DEF Unseen, Contract!contractVars, Closing
<1>1. CASE \E t \in Threads, c \in Calls : SendRefused(t, c)
  <2>1. PICK t \in Threads, c \in Calls : SendRefused(t, c)
    BY <1>1
  <2>2. Contract!Refuse(c)
    BY <2>1 DEF Contract!Refuse, SendRefused, ClosingKnown, Closing
  <2>. QED
    BY <2>2 DEF Contract!ContractNext
<1>2. CASE \E t \in Threads, c \in Calls : SendFailed(t, c)
  <2>1. PICK t \in Threads, c \in Calls : SendFailed(t, c)
    BY <1>2
  <2>2. Contract!Accept(c)
    BY <2>1 DEF Contract!Accept, SendFailed, Closing
  <2>. QED
    BY <2>2 DEF Contract!ContractNext
<1>3. CASE \E t \in Threads, c \in Calls : Send(t, c)
  <2>1. PICK t \in Threads, c \in Calls : Send(t, c)
    BY <1>3
  <2>2. Contract!Accept(c)
    BY <2>1 DEF Contract!Accept, Send, Closing
  <2>. QED
    BY <2>2 DEF Contract!ContractNext
<1>4. CASE \E t \in Threads, c \in Calls : PushReply(t, c)
  <2>1. PICK t \in Threads, c \in Calls : PushReply(t, c)
    BY <1>4
  <2>2. Contract!Accept(c)
    BY <2>1 DEF Contract!Accept, PushReply, Closing
  <2>. QED
    BY <2>2 DEF Contract!ContractNext
<1>5. CASE \E t \in Threads : DeleteStale(t)
  <2>. PICK t \in Threads : DeleteStale(t)
    BY <1>5
  <2>. DEFINE c == sender[t].stale
  <2>1. c \in Calls /\ c # None /\ Held(t) = c
    BY CallsAssumption DEF DeleteStale, LocalsSet, Held
  <2>2. handler[c] = "live" /\ answers[c] = 1
    BY <2>1 DEF DeleteStale, HeldAreLive, SentKnown, ExecutionKnown
  <2>. QED
    BY <2>1, <2>2, DeletesOne DEF DeleteStale, Closing
<1>6. CASE DeliverTimeout
  <2>1. PICK c \in batch : /\ answers' = [answers EXCEPT ![c] = @ + 1]
                           /\ main.pc = "deliver"
    BY <1>6 DEF DeliverTimeout
  <2>2. c \in Calls /\ handler[c] = "live" /\ answers[c] = 0
    BY <2>1 DEF TypeOK, HeldAreLive, Unanswered
  <2>3. answers' = [answers EXCEPT ![c] = 1]
    BY <2>1, <2>2
  <2>4. handler' = handler /\ Closing' = Closing
    BY <1>6 DEF DeliverTimeout, Closing
  <2>5. Contract!Answer(c)
    BY <2>2, <2>3, <2>4 DEF Contract!Answer
  <2>. QED
    BY <2>2, <2>5 DEF Contract!ContractNext
<1>7. CASE DeleteDelivered
  <2>1. main.call \in Calls /\ main.call \in batch
    BY <1>7 DEF DeleteDelivered, LocalsSet
  <2>2. handler[main.call] = "live" /\ answers[main.call] = 1
    BY <1>7, <2>1 DEF DeleteDelivered, HeldAreLive, ExecutionKnown
  <2>. QED
    BY <1>7, <2>1, <2>2, DeletesOne DEF DeleteDelivered, Closing
<1>8. CASE OnDBusMessageReply
  <2>. DEFINE c == main.call
  <2>1. c \in Calls /\ handler[c] = "live" /\ answers[c] = 0
    BY <1>8 DEF OnDBusMessageReply, LocalsSet, HeldAreLive, Busy, Unanswered
  <2>2. Contract!Answer(c)
    BY <1>8, <2>1 DEF Contract!Answer, OnDBusMessageReply, TypeOK, Closing
  <2>. QED
    BY <2>1, <2>2 DEF Contract!ContractNext
<1>9. CASE FinishExecution
  <2>1. main.call \in Calls /\ handler[main.call] = "live"
    BY <1>9 DEF FinishExecution, LocalsSet, HeldAreLive, Busy
  <2>2. answers' = answers /\ Closing' = Closing
    BY <1>9 DEF FinishExecution, Closing
  <2>3. CASE main.call \in hasToBeDeleted
    <3>1. main.pc = "returning"
      BY <1>9, <2>1, <2>3 DEF FinishExecution, DroppedGivenUp, GivenUp
    <3>2. answers[main.call] = 1
      BY <3>1 DEF ExecutionKnown
    <3>3. handler' = [handler EXCEPT ![main.call] = "deleted"]
      BY <1>9, <2>3 DEF FinishExecution
    <3>. QED
      BY <2>1, <2>2, <3>2, <3>3, DeletesOne
  <2>4. CASE main.call \notin hasToBeDeleted
    BY <1>9, <2>4, <1>0 DEF FinishExecution, Unseen
  <2>. QED
    BY <2>3, <2>4
<1>10. CASE PopDelete
  <2>1. asyncHandlersToDelete \in SUBSET Calls
    BY DEF TypeOK
  <2>2. \A c \in asyncHandlersToDelete :
          handler[c] = "live" /\ (answers[c] = 1 \/ Closing)
    BY DEF Collected, HeldAreLive, Closing
  <2>3. Contract!Delete(asyncHandlersToDelete)
    BY <1>10, <2>1, <2>2 DEF Contract!Delete, PopDelete, Closing
  <2>. QED
    BY <2>1, <2>3 DEF Contract!ContractNext
<1>11. CASE EnforcerDelete
  <2>1. asyncHandlersToDelete \in SUBSET Calls
    BY DEF TypeOK
  <2>2. \A c \in asyncHandlersToDelete :
          handler[c] = "live" /\ (answers[c] = 1 \/ Closing)
    BY DEF Collected, HeldAreLive, Closing
  <2>3. Contract!Delete(asyncHandlersToDelete)
    BY <1>11, <2>1, <2>2 DEF Contract!Delete, EnforcerDelete, Closing
  <2>. QED
    BY <2>1, <2>3 DEF Contract!ContractNext
<1>12. CASE \E by \in {"app", "main"} : DisconnectBegin(by)
  <2>1. Contract!Close
    BY <1>12 DEF Contract!Close, DisconnectBegin, Closing
  <2>. QED
    BY <2>1 DEF Contract!ContractNext
<1>13. CASE DisconnectCancel
  <2>1. Contract!Close
    BY <1>13 DEF Contract!Close, DisconnectCancel, Closing
  <2>. QED
    BY <2>1 DEF Contract!ContractNext
<1>14. CASE Connect
  BY <1>14 DEF Connect, ConnectedOnce, TypeOK
<1>15. CASE \/ (\E t \in Threads : PushFailure(t))
            \/ (\E t \in Threads : RegisterTimeout(t))
            \/ (\E t \in Threads : NotifyAfterSend(t))
            \/ (\E t \in Threads : RegisterInfinite(t)) \/ IsDispatchReady
            \/ TakeTimeouts
  BY <1>0, <1>15 DEF PushFailure, RegisterTimeout, NotifyAfterSend,
               RegisterInfinite, IsDispatchReady, TakeTimeouts,
               NotifyEnforcer, Unseen
<1>16. CASE \/ BeginDispatch
            \/ (\E p \in Pendings : CompletePendingCall(p))
            \/ DispatchOther \/ StartExecution \/ NotifyAfterReply
            \/ EndDispatch
  BY <1>0, <1>16 DEF BeginDispatch, CompletePendingCall, DispatchOther,
               StartExecution, NotifyAfterReply, EndDispatch,
               NotifyEnforcer, Unseen
<1>17. CASE \/ PopReply \/ StopMainLoop \/ EnforcerCheck
            \/ EnforcerTimedOut \/ EnforcerNotified
            \/ (\E p \in Pendings : ExpireUnstarted(p))
  BY <1>0, <1>17 DEF PopReply, StopMainLoop, EnforcerCheck,
               EnforcerTimedOut, EnforcerNotified, ExpireUnstarted, GiveUp,
               Unseen
<1>18. CASE \/ (\E p \in Pendings : ExpireRunning(p))
            \/ (\E p \in Pendings : CollectFinished(p))
            \/ (\E p \in Pendings : SkipEntry(p)) \/ EnforceInfinite
            \/ (\E p \in Pendings : CleanupEntry(p)) \/ CleanupInfinite
  BY <1>0, <1>18 DEF ExpireRunning, CollectFinished, SkipEntry,
               EnforceInfinite, CleanupEntry, CleanupInfinite, Unseen
<1>19. CASE \/ (\E p \in Pendings : Elapse(p)) \/ DisconnectWait
            \/ DisconnectClose \/ DisconnectJoinMain \/ DisconnectRelease
  BY <1>0, <1>19 DEF Elapse, DisconnectWait, DisconnectClose,
               DisconnectJoinMain, DisconnectRelease, Unseen
<1>20. CASE UNCHANGED vars
  BY <1>0, <1>20 DEF vars, Unseen
<1>. QED
  BY <1>1, <1>2, <1>3, <1>4, <1>5, <1>6, <1>7, <1>8, <1>9, <1>10, <1>11,
     <1>12, <1>13, <1>14, <1>15, <1>16, <1>17, <1>18, <1>19, <1>20
  DEF Next, SenderNext, SenderStart, SenderStep, MainNext, SingleDispatch,
      EnforcerNext, DisconnectNext

(* The connection implements the contract of the interface for the         *)
(* handlers it takes over: called back at most once and while they exist,  *)
(* and deleted before that only when the connection closes.                *)
THEOREM RefinesContract ==
  ASSUME NoKeyRace, ConnectedOnce
  PROVE  Spec => ImplementsContract
<1>1. Init => Contract!ContractInit
  BY DEF Init, Contract!ContractInit, Closing
<1>2. IndInv /\ Strong /\ [Next]_vars
        => [Contract!ContractNext]_(Contract!contractVars)
  BY ContractStep
<1>. QED
  BY <1>1, <1>2, Inductive, StrongInductive, PTL
  DEF Spec, ImplementsContract, Contract!ContractSpec
=============================================================================
