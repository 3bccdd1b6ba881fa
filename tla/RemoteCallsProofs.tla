------------------------- MODULE RemoteCallsProofs -------------------------
(***************************************************************************)
(* Proofs about RemoteCalls: the state is well-formed, what a caller is    *)
(* told is what came of the call, and the observers of an attribute know   *)
(* its value, for all calls, threads, values and bounds.                   *)
(***************************************************************************)
EXTENDS RemoteCalls, SequenceTheorems, TLAPS

-----------------------------------------------------------------------------
(* The parts of the inductive invariant.                                   *)

(* The message of a call is on its way.                                    *)
Travels(c) == \E i \in 1 .. Len(wire) : wire[i] = c

(* No message is on its way twice.                                         *)
WireOnce == \A i, j \in 1 .. Len(wire) : wire[i] = wire[j] => i = j

(* A message on its way has not reached the stub and was not replied to;   *)
(* a call that was not sent has neither a message nor a reply.             *)
Progress ==
  \A c \in Calls :
    /\ Travels(c) => phase[c] \in {"waiting", "done"} /\ c \notin ran /\ sent[c] = <<>>
    /\ phase[c] \in {"new", "begun", "deferred"} =>
         c \notin ran /\ sent[c] = <<>> /\ reply[c] = None

(* Who answers a call and what is kept for it fit together.  The reply     *)
(* that is about to be sent is the first answer.                           *)
Kept ==
  /\ \A w \in Threads : job[w].pc = "answer" => job[w].call \in ran
  /\ \A c \in Calls :
    /\ c \notin ran => pending[c] = "none" /\ first[c] = None
    /\ pending[c] # "none" => request[c].kind = "method" /\ sent[c] = <<>>
    /\ pending[c] = "call" => first[c] = None /\ ~Answering(c)
    /\ pending[c] \in {"return", "error"} =>
         /\ Answering(c)
         /\ \A w \in Threads : job[w].pc = "answer" /\ job[w].call = c =>
              first[c] = Message(pending[c], job[w].value)
    /\ c \in ran /\ request[c].kind = "method" /\ c \notin contested =>
         /\ pending[c] # "stray"
         /\ pending[c] = "none" =>
              first[c] # None /\ (c \in failed \/ sent[c] = <<first[c]>>)

(* What the dispatcher is doing, and that it leaves nothing unreplied.     *)
Dispatching ==
  /\ dispatch.pc \in {"idle", "method", "confirm", "fire", "firing"}
  /\ dispatch.pc = "idle" => dispatch = Idle
  /\ dispatch.pc # "idle" => dispatch.call \in ran
  /\ dispatch.pc = "method" => request[dispatch.call].kind = "method"
  /\ dispatch.pc \in {"confirm", "fire", "firing"} =>
       request[dispatch.call].kind \in {"set", "fdSet"}
  /\ dispatch.pc = "confirm" => sent[dispatch.call] = <<>>
  /\ dispatch.pc \in {"fire", "firing"} => Len(sent[dispatch.call]) = 1

(* A call that reached the stub was replied to, or is being replied to.    *)
Replied ==
  \A c \in Calls :
    /\ Len(sent[c]) \in {0, 1}
    /\ c \in ran /\ request[c].kind \notin {"fire", "method"} /\ dispatch.call # c =>
         c \in failed \/ Len(sent[c]) = 1

(* Where the reply of a call comes from.                                   *)
Origin ==
  \A c \in Calls : reply[c] # None =>
    /\ reply[c].type = "unhandled" =>
         ~Travels(c) /\ (c \notin ran \/ c \in failed)
    /\ reply[c].type \in {"return", "error"} => c \in ran /\ sent[c] = <<reply[c]>>
    /\ reply[c].type = "error" => reply[c] = first[c]

(* What the status of a call that is over says.                            *)
Over ==
  \A c \in Calls :
    /\ phase[c] = "done" =>
         /\ status[c] = "SUCCESS" /\ request[c].how # "send" /\ ~Unnoticed(c) =>
              /\ reply[c] # None /\ reply[c].type = "return"
              /\ request[c].outs /\ request[c].kind # "fdSet" =>
                   result[c] = reply[c].value
         /\ status[c] = "NOT_AVAILABLE" => ~Travels(c) /\ (c \notin ran \/ c \in failed)
         /\ status[c] = "OUT_OF_MEMORY" => ~Travels(c) /\ c \notin ran
         /\ reply[c] # None /\ reply[c].type = "error" /\ request[c].declared => c \in told
    /\ c \in told => phase[c] = "done" /\ reply[c] # None /\ reply[c].type = "error"

(* The lock of the attribute is held by the one who signals it, and then   *)
(* nobody else changes the value.                                          *)
Locked ==
  /\ \A w \in Workers : lock = w <=> job[w].pc = "change"
  /\ job[Dispatcher].pc # "change"
  /\ lock = Dispatcher <=> dispatch.pc = "firing"
  /\ dispatch.pc = "firing" => dispatch.value = value

(* The observers know the value, unless somebody is about to tell them.    *)
Told ==
  \/ ~serviceUp \/ unfired \/ fired = value
  \/ dispatch.pc = "confirm" /\ dispatch.type = "changed"
  \/ dispatch.pc \in {"fire", "firing"}
  \/ \E w \in Workers : job[w].pc = "change"

Inv ==
  /\ TypeOK /\ WireOnce /\ Progress /\ Kept /\ Dispatching /\ Replied
  /\ Origin /\ Over /\ Locked /\ Told

-----------------------------------------------------------------------------
(* Sequences.                                                              *)

(* The message at the head is taken: it does not travel any more, and the  *)
(* others still do.                                                        *)
LEMMA TakenFromWire ==
  ASSUME wire \in Seq(Calls), wire # <<>>, WireOnce,
         NEW h, h = Head(wire), wire' = Tail(wire)
  PROVE  /\ h \in Calls /\ Travels(h)
         /\ wire' \in Seq(Calls) /\ WireOnce' /\ ~Travels(h)'
         /\ \A c : Travels(c)' => Travels(c)
<1>1. /\ Head(wire) \in Calls /\ Tail(wire) \in Seq(Calls)
      /\ Len(Tail(wire)) = Len(wire) - 1
      /\ \A i \in 1 .. Len(Tail(wire)) : Tail(wire)[i] = wire[i + 1]
  BY HeadTailProperties
<1>2. Len(wire) \in Nat \ {0} /\ Head(wire) = wire[1]
  BY EmptySeq, LenProperties
<1>3. /\ \A i \in 1 .. Len(wire') : i + 1 \in 1 .. Len(wire) /\ wire'[i] = wire[i + 1]
      /\ 1 \in 1 .. Len(wire) /\ Len(wire') \in Nat
  BY <1>1, <1>2
<1>4. WireOnce'
  <2> SUFFICES ASSUME NEW i \in 1 .. Len(wire'), NEW j \in 1 .. Len(wire'),
                      wire'[i] = wire'[j]
               PROVE  i = j
    BY DEF WireOnce
  <2>1. i + 1 = j + 1
    BY <1>3 DEF WireOnce
  <2> QED BY <2>1, <1>3
<1>5. ~Travels(h)'
  <2>1. ASSUME NEW i \in 1 .. Len(wire'), wire'[i] = h PROVE FALSE
    <3>1. i + 1 = 1
      BY <1>2, <1>3, <2>1 DEF WireOnce
    <3> QED BY <3>1, <1>3
  <2> QED BY <2>1, <1>1 DEF Travels
<1>6. \A c : Travels(c)' => Travels(c)
  BY <1>3 DEF Travels
<1> QED BY <1>1, <1>2, <1>3, <1>4, <1>5, <1>6 DEF Travels

(* A message that did not travel is sent, or gets lost at once.            *)
LEMMA PutOnTheWire ==
  ASSUME wire \in Seq(Calls), WireOnce, NEW c \in Calls, ~Travels(c), OnTheWire(c)
  PROVE  /\ wire' \in Seq(Calls) /\ WireOnce'
         /\ \A d : Travels(d)' => Travels(d) \/ d = c
<1>1. CASE wire' = Append(wire, c)
  <2>1. /\ wire' \in Seq(Calls) /\ Len(wire') = Len(wire) + 1 /\ Len(wire) \in Nat
        /\ \A i \in 1 .. Len(wire) : wire'[i] = wire[i]
        /\ wire'[Len(wire) + 1] = c
    BY <1>1, AppendProperties, LenProperties
  <2>2. \A i \in 1 .. Len(wire') : i \in 1 .. Len(wire) \/ i = Len(wire) + 1
    BY <2>1
  <2>3. WireOnce'
    <3> SUFFICES ASSUME NEW i \in 1 .. Len(wire'), NEW j \in 1 .. Len(wire'),
                        wire'[i] = wire'[j]
                 PROVE  i = j
      BY DEF WireOnce
    <3> QED BY <2>1, <2>2 DEF WireOnce, Travels
  <2> QED BY <2>1, <2>2, <2>3 DEF Travels
<1>2. CASE wire' = wire
  BY <1>2 DEF WireOnce, Travels
<1> QED BY <1>1, <1>2 DEF OnTheWire

(* The first reply that is sent.                                           *)
LEMMA FirstReply ==
  /\ \A m : Append(<<>>, m) = <<m>> /\ Len(<<m>>) = 1 /\ <<m>>[1] = m
  /\ Len(<<>>) = 0
OBVIOUS

-----------------------------------------------------------------------------
(* What the helpers of the actions do.                                     *)

(* Records that are used as messages and as what a thread is doing.        *)
LEMMA Records ==
  /\ Idle \in JobType
  /\ \A c \in Calls, pc \in {"method", "confirm", "answer", "change"},
        type \in {"return", "error", "same", "changed"}, v \in Values \cup {None} :
        At(pc, c, type, v) \in JobType
  /\ At("change", None, "return", None) \in JobType
  /\ \A type \in {"return", "error", "unhandled", "noReply"}, v \in Values \cup {None} :
        /\ Message(type, v) \in ReplyType
        /\ Message(type, v).type = type /\ Message(type, v).value = v
        /\ Message(type, v) # None
BY NoneAssumption DEF Idle, At, Message, JobType, ReplyType

(* A reply arrives: it is sent, and counts if its caller waits for one.    *)
LEMMA ArriveEffect ==
  ASSUME TypeOK, NEW c \in Calls, NEW m \in ReplyType, Arrive(c, m)
  PROVE  /\ reply' \in [Calls -> ReplyType \cup {None}]
         /\ sent' \in [Calls -> Seq(ReplyType)]
         /\ \A d \in Calls \ {c} : reply'[d] = reply[d] /\ sent'[d] = sent[d]
         /\ sent'[c] = Append(sent[c], m)
         /\ reply'[c] = reply[c] \/ (phase[c] = "waiting" /\ reply[c] = None /\ reply'[c] = m)
<1>1. Append(sent[c], m) \in Seq(ReplyType)
  BY AppendProperties DEF TypeOK
<1> QED BY <1>1 DEF TypeOK, Arrive

(* A handler replies, or its reply fails and libdbus may send another one. *)
LEMMA SendOrFailEffect ==
  ASSUME TypeOK, NEW c \in Calls, NEW m \in ReplyType, NEW ok \in Sendable,
         SendOrFail(c, m, ok)
  PROVE  /\ reply' \in [Calls -> ReplyType \cup {None}]
         /\ sent' \in [Calls -> Seq(ReplyType)]
         /\ failures' \in 0 .. MaxFailures
         /\ failed' = IF ok THEN failed ELSE failed \cup {c}
         /\ \A d \in Calls \ {c} : reply'[d] = reply[d] /\ sent'[d] = sent[d]
         /\ ok => sent'[c] = Append(sent[c], m)
         /\ sent'[c] = sent[c] \/ \E n \in ReplyType : sent'[c] = Append(sent[c], n)
         /\ \/ reply'[c] = reply[c]
            \/ /\ phase[c] = "waiting" /\ reply[c] = None
               /\ reply'[c] = IF ok THEN m ELSE Message("unhandled", None)
<1>1. ok \in BOOLEAN /\ (serviceUp /\ ~ok => failures < MaxFailures)
  BY DEF Sendable, TypeOK
<1>2. failures' \in 0 .. MaxFailures
  BY <1>1, BoundsAssumption DEF SendOrFail, Send, TypeOK
<1>3. CASE ok
  <2>1. Arrive(c, m) /\ failed' = failed
    BY <1>3 DEF SendOrFail, Send
  <2> QED BY <1>2, <1>3, <2>1, ArriveEffect
<1>4. CASE ~ok
  <2>1. failed' = failed \cup {c}
    BY <1>4 DEF SendOrFail
  <2>2. Arrive(c, Message("unhandled", None)) \/ UNCHANGED <<reply, sent>>
    BY <1>4 DEF SendOrFail, Unhandled
  <2>3. CASE Arrive(c, Message("unhandled", None))
    <3>1. Message("unhandled", None) \in ReplyType
      BY Records
    <3> QED BY <1>2, <1>4, <2>1, <2>3, <3>1, ArriveEffect
  <2>4. CASE UNCHANGED <<reply, sent>>
    BY <1>2, <1>4, <2>1, <2>4 DEF TypeOK
  <2> QED BY <2>2, <2>3, <2>4
<1> QED BY <1>1, <1>3, <1>4

-----------------------------------------------------------------------------
(* The steps, as the proofs tell them apart.                               *)

(* A call gets ahead on the client's side: it waits, is over, is sent, or  *)
(* is answered by the proxy itself.                                        *)
Issued(c) ==
  /\ phase[c] \in {"new", "begun", "deferred"}
  /\ \E p \in {"begun", "deferred", "waiting", "done"} : phase' = [phase EXCEPT ![c] = p]
  /\ \E s \in Statuses \cup {None} : status' = [status EXCEPT ![c] = s]
  /\ \E v \in Values \cup {None} : result' = [result EXCEPT ![c] = v]
  /\ guard' \in [Guards -> Calls \cup {None}]
  /\ \/ wire' = wire
     \/ /\ OnTheWire(c) /\ phase'[c] \in {"waiting", "done"}
        /\ status'[c] \notin {"NOT_AVAILABLE", "OUT_OF_MEMORY"} \/ phase'[c] = "waiting"
  /\ \/ reply' = reply
     \/ /\ wire' = wire /\ phase'[c] = "waiting"
        /\ reply' = [reply EXCEPT ![c] = Message("unhandled", None)]
  /\ phase'[c] = "done" /\ status'[c] = "SUCCESS" /\ request[c].how # "send" =>
       request[c].declared /\ ~request[c].outs /\ ~clientUp
  /\ UNCHANGED <<request, told, stubVars, attributeVars, linkVars, sent, failures, failed>>

(* A method's message is taken and kept.                                   *)
CallKept(c) == Taken(c, {"method"}) /\ KeepCall(c)

(* A message is taken and replied to, by a getter or by the adapter.       *)
RepliedAtOnce(c) ==
  /\ Taken(c, {"inline", "get", "fdGet", "fdGetAll"})
  /\ \E ok \in Sendable, v \in Values : SendOrFail(c, Message("return", v), ok)
  /\ UNCHANGED <<dispatch, pending, attributeVars>>

(* The first part of an answer.                                            *)
AnswerBegun(w, c) ==
  \E type \in {"return", "error"}, v \in Values \cup {None} : BeginAnswer(w, c, type, v)

Step ==
  \/ StatusChanges \/ ClientLost \/ ServiceLost
  \/ MethodReturns \/ ConfirmSet \/ ReadToFire \/ FireChanged
  \/ \E c \in Calls :
       \/ Issued(c) \/ Complete(c) \/ Timeout(c)
       \/ Reject(c) \/ DispatchFire(c) \/ CallKept(c) \/ RepliedAtOnce(c) \/ DispatchSet(c)
  \/ \E w \in Threads :
       \/ \E c \in Calls : AnswerBegun(w, c)
       \/ FinishAnswer(w)
       \/ \E v \in Values : BeginChange(w, v)
       \/ FinishChange(w)

(* The status of a call that is not sent.                                  *)
LEMMA FinishEffect ==
  ASSUME TypeOK, NEW c \in Calls, NEW s \in Statuses \cup {None},
         NEW v \in Values \cup {None}, Finish(c, s, v)
  PROVE  /\ phase' = [phase EXCEPT ![c] = "done"] /\ phase'[c] = "done"
         /\ status' = [status EXCEPT ![c] = s] /\ status'[c] = s
         /\ result' = [result EXCEPT ![c] = v] /\ result'[c] = v
         /\ guard' \in [Guards -> Calls \cup {None}]
         /\ UNCHANGED request
BY DEF Finish, TypeOK

(* What a call that got no message is reported as.                         *)
LEMMA StatusValues ==
  \A r, m : /\ SyncStatus(r, m) \in Statuses /\ AsyncStatus(r, m) \in Statuses
            /\ ResultOf(r, m, SyncStatus(r, m)) \in {None, r.value, m.value}
            /\ ResultOf(r, m, AsyncStatus(r, m)) \in {None, r.value, m.value}
            /\ SyncStatus(r, Nothing) = "SUCCESS" => r.declared /\ ~r.outs
            /\ m.type \in {"return", "error", "unhandled", "noReply"} =>
                 /\ SyncStatus(r, m) = "SUCCESS" \/ AsyncStatus(r, m) = "SUCCESS" => m.type = "return"
                 /\ SyncStatus(r, m) # "NOT_AVAILABLE"
                 /\ AsyncStatus(r, m) = "NOT_AVAILABLE" => m.type = "unhandled"
                 /\ SyncStatus(r, m) # "OUT_OF_MEMORY" /\ AsyncStatus(r, m) # "OUT_OF_MEMORY"
<1> TAKE r, m
<1>1. /\ SyncStatus(r, m) \in {"SUCCESS", "REMOTE_ERROR", "SERIALIZATION_ERROR"}
      /\ AsyncStatus(r, m) \in {"SUCCESS", "NOT_AVAILABLE", "REMOTE_ERROR", "SERIALIZATION_ERROR"}
  BY DEF SyncStatus, AsyncStatus, DeclaredStatus, PlainStatus, ReadArguments
<1>2. SyncStatus(r, Nothing) = "SUCCESS" => r.declared /\ ~r.outs
  BY DEF SyncStatus, DeclaredStatus, PlainStatus, ReadArguments, Nothing, Message
<1>3. ASSUME m.type \in {"return", "error", "unhandled", "noReply"}
      PROVE  /\ SyncStatus(r, m) = "SUCCESS" \/ AsyncStatus(r, m) = "SUCCESS" => m.type = "return"
             /\ AsyncStatus(r, m) = "NOT_AVAILABLE" => m.type = "unhandled"
  BY <1>3 DEF SyncStatus, AsyncStatus, DeclaredStatus, PlainStatus, ReadArguments, ErrorTypes
<1> QED BY <1>1, <1>2, <1>3 DEF ResultOf, Statuses

(* The client's actions but for Complete are such a step.                  *)
LEMMA IssuedByClient ==
  ASSUME TypeOK, NEW c \in Calls,
         \/ Begin(c) \/ IssueSend(c) \/ IssueSync(c) \/ RefuseAsync(c)
         \/ SendAsync(c) \/ Defer(c) \/ Resolve(c)
  PROVE  Issued(c)
<1>1. /\ phase \in [Calls -> {"new", "begun", "waiting", "deferred", "done"}]
      /\ guard \in [Guards -> Calls \cup {None}]
      /\ status \in [Calls -> Statuses \cup {None}]
      /\ result \in [Calls -> Values \cup {None}]
      /\ "SUCCESS" \in Statuses /\ "NOT_AVAILABLE" \in Statuses
      /\ "SERIALIZATION_ERROR" \in Statuses /\ "OUT_OF_MEMORY" \in Statuses
      /\ None \notin Statuses
  BY NoneAssumption DEF TypeOK, Statuses
<1>2. /\ phase = [phase EXCEPT ![c] = phase[c]] /\ status = [status EXCEPT ![c] = status[c]]
      /\ result = [result EXCEPT ![c] = result[c]]
      /\ phase[c] \in {"new", "begun", "waiting", "deferred", "done"}
      /\ status[c] \in Statuses \cup {None} /\ result[c] \in Values \cup {None}
  BY <1>1
<1>3. CASE Begin(c)
  BY <1>1, <1>2, <1>3 DEF Begin, Issued, stubVars, replyVars
<1>4. CASE Defer(c)
  BY <1>1, <1>2, <1>4 DEF Defer, Entered, Issued, stubVars, replyVars
<1>5. CASE IssueSend(c)
  <2>1. phase[c] = "begun" /\ request[c].how = "send"
    BY <1>5 DEF IssueSend, Entered
  <2>2. PICK s \in {"NOT_AVAILABLE", "SERIALIZATION_ERROR", "OUT_OF_MEMORY", "SUCCESS"} :
          Finish(c, s, None) /\ (wire' = wire \/ (OnTheWire(c) /\ s = "SUCCESS"))
    BY <1>5 DEF IssueSend
  <2>3. UNCHANGED <<told, stubVars, attributeVars, linkVars, replyVars>>
    BY <1>5 DEF IssueSend
  <2> QED BY <1>1, <2>1, <2>2, <2>3, FinishEffect DEF Issued, replyVars, Statuses
<1>6. CASE IssueSync(c)
  <2>1. phase[c] = "begun" /\ UNCHANGED <<told, stubVars, attributeVars, linkVars, replyVars>>
    BY <1>6 DEF IssueSync, Entered
  <2>2. \/ /\ wire' = wire
           /\ \/ Finish(c, "NOT_AVAILABLE", None) \/ Finish(c, "SERIALIZATION_ERROR", None)
              \/ ~clientUp /\ Finish(c, SyncStatus(request[c], Nothing), None)
        \/ /\ guard' = [guard EXCEPT ![Guard(request[c])] = c]
           /\ phase' = [phase EXCEPT ![c] = "waiting"] /\ OnTheWire(c)
           /\ UNCHANGED <<request, status, result>>
    BY <1>6 DEF IssueSync
  <2>3. CASE wire' = wire /\ (Finish(c, "NOT_AVAILABLE", None) \/ Finish(c, "SERIALIZATION_ERROR", None))
    BY <1>1, <2>1, <2>3, FinishEffect DEF Issued, replyVars
  <2>4. CASE wire' = wire /\ ~clientUp /\ Finish(c, SyncStatus(request[c], Nothing), None)
    BY <1>1, <2>1, <2>4, FinishEffect, StatusValues DEF Issued, replyVars
  <2>5. CASE /\ guard' = [guard EXCEPT ![Guard(request[c])] = c]
             /\ phase' = [phase EXCEPT ![c] = "waiting"] /\ OnTheWire(c)
             /\ UNCHANGED <<request, status, result>>
    BY <1>1, <1>2, <2>1, <2>5 DEF Issued, replyVars
  <2> QED BY <2>2, <2>3, <2>4, <2>5
<1>7. CASE RefuseAsync(c)
  BY <1>1, <1>7, FinishEffect DEF RefuseAsync, Entered, Issued, replyVars
<1>8. ASSUME SendWithReply(c), phase[c] \in {"begun", "deferred"},
             UNCHANGED <<told, stubVars, attributeVars, linkVars, replyVars>>
      PROVE  Issued(c)
  <2>1. CASE Finish(c, None, None) /\ wire' = wire
    BY <1>1, <1>8, <2>1, FinishEffect DEF Issued, replyVars
  <2>2. CASE /\ phase' = [phase EXCEPT ![c] = "waiting"] /\ OnTheWire(c)
             /\ UNCHANGED <<request, guard, status, result>>
    BY <1>1, <1>2, <1>8, <2>2 DEF Issued, replyVars
  <2> QED BY <1>8, <2>1, <2>2 DEF SendWithReply
<1>9. CASE SendAsync(c)
  BY <1>8, <1>9 DEF SendAsync, Entered
<1>10. CASE Resolve(c)
  <2>1. CASE available /\ SendWithReply(c) /\ UNCHANGED reply
    BY <1>8, <1>10, <2>1 DEF Resolve, replyVars
  <2>2. CASE /\ phase' = [phase EXCEPT ![c] = "waiting"]
             /\ reply' = [reply EXCEPT ![c] = Message("unhandled", None)]
             /\ UNCHANGED <<request, guard, status, result, wire>>
    BY <1>1, <1>2, <1>10, <2>2 DEF Resolve, Issued
  <2> QED BY <1>10, <2>1, <2>2 DEF Resolve
<1> QED BY <1>3, <1>4, <1>5, <1>6, <1>7, <1>9, <1>10

(* Every step of the specification is one of these.                        *)
LEMMA StepOfNext ==
  ASSUME TypeOK, Next
  PROVE  Step
<1>1. CASE Client
  BY <1>1, IssuedByClient DEF Client, Step
<1>2. CASE Bus
  BY <1>2 DEF Bus, Step
<1>3. ASSUME NEW c \in Calls,
             \/ DispatchInline(c) \/ DispatchGet(c) \/ FreedesktopGet(c) \/ FreedesktopGetAll(c)
      PROVE  RepliedAtOnce(c)
  <2>1. value \in Values
    BY DEF TypeOK
  <2> QED BY <1>3, <2>1 DEF DispatchInline, DispatchGet, FreedesktopGet,
            FreedesktopGetAll, SendValue, Taken, RepliedAtOnce
<1>4. ASSUME NEW c \in Calls, DispatchMethod(c) \/ DispatchDeclared(c) PROVE CallKept(c)
  BY <1>4 DEF DispatchMethod, DispatchDeclared, CallKept
<1>5. ASSUME NEW w \in Threads, NEW c \in Calls, BeginReply(w, c) \/ BeginError(w, c)
      PROVE  AnswerBegun(w, c)
  BY <1>5 DEF BeginReply, BeginError, AnswerBegun
<1>6. CASE Stub
  BY <1>3, <1>4, <1>5, <1>6 DEF Stub, Step, FinishReply, FinishError
<1> QED BY <1>1, <1>2, <1>6 DEF Next

-----------------------------------------------------------------------------
(* Type correctness.                                                       *)

LEMMA InitTypeOK == Init => TypeOK
<1> SUFFICES ASSUME Init PROVE TypeOK
  OBVIOUS
<1>1. <<>> \in Seq(ReplyType) /\ <<>> \in Seq(Calls)
  BY EmptySeq
<1>2. InitialValue \in Values
  BY ScenariosAssumption
<1>3. /\ changes \in 0 .. MaxStatusChanges /\ failures \in 0 .. MaxFailures
      /\ answers \in [Calls -> 0 .. MaxAnswers]
  BY BoundsAssumption DEF Init
<1>4. /\ wire \in Seq(Calls) /\ sent \in [Calls -> Seq(ReplyType)]
  BY <1>1 DEF Init
<1>5. dispatch \in JobType /\ job \in [Threads -> JobType]
  BY Records DEF Init
<1>6. /\ phase \in [Calls -> {"new", "begun", "waiting", "deferred", "done"}]
      /\ guard \in [Guards -> Calls \cup {None}]
      /\ reply \in [Calls -> ReplyType \cup {None}]
      /\ status \in [Calls -> Statuses \cup {None}]
      /\ result \in [Calls -> Values \cup {None}]
      /\ pending \in [Calls -> {"none", "call", "return", "error", "stray"}]
      /\ first \in [Calls -> ReplyType \cup {None}]
  BY DEF Init
<1> QED BY <1>2, <1>3, <1>4, <1>5, <1>6 DEF Init, TypeOK

(* Every step keeps the state well-formed.                                 *)
LEMMA StepTypeOK ==
  ASSUME TypeOK, WireOnce, Progress, Kept, Dispatching, Locked, [Next]_vars
  PROVE  TypeOK'
<1> USE DEF stubVars, attributeVars, linkVars, clientVars, replyVars
<1>1. CASE UNCHANGED vars
  BY <1>1 DEF vars, TypeOK
<1>2. CASE StatusChanges
  BY <1>2, BoundsAssumption DEF StatusChanges, TypeOK
<1>3. CASE ClientLost
  BY <1>3 DEF ClientLost, TypeOK
<1>4. CASE ServiceLost
  BY <1>4, EmptySeq DEF ServiceLost, TypeOK
<1>5. CASE MethodReturns
  BY <1>5, Records DEF MethodReturns, TypeOK
<1>6. CASE ConfirmSet
  <2>1. dispatch.call \in Calls /\ Message("return", value) \in ReplyType
    BY <1>6, Records DEF Dispatching, ConfirmSet, TypeOK
  <2>2. PICK ok \in Sendable :
          /\ SendOrFail(dispatch.call, Message("return", value), ok)
          /\ dispatch' = IF ok /\ dispatch.type = "changed"
                         THEN [dispatch EXCEPT !.pc = "fire"] ELSE Idle
          /\ unfired' = (unfired \/ (~ok /\ dispatch.type = "changed"))
    BY <1>6 DEF ConfirmSet
  <2>3. /\ reply' \in [Calls -> ReplyType \cup {None}]
        /\ sent' \in [Calls -> Seq(ReplyType)]
        /\ failures' \in 0 .. MaxFailures /\ failed' \subseteq Calls
    BY <2>1, <2>2, SendOrFailEffect DEF TypeOK
  <2>4. [dispatch EXCEPT !.pc = "fire"] \in JobType
    BY DEF TypeOK, JobType
  <2>5. dispatch' \in JobType
    BY <2>2, <2>4, Records
  <2>6. unfired' \in BOOLEAN
    BY <2>2
  <2> QED BY <1>6, <2>3, <2>5, <2>6 DEF ConfirmSet, TypeOK
<1>7. CASE ReadToFire
  <2>1. [dispatch EXCEPT !.pc = "firing", !.value = value] \in JobType
    BY DEF TypeOK, JobType
  <2> QED BY <1>7, <2>1 DEF ReadToFire, TypeOK, Threads
<1>8. CASE FireChanged
  <2>1. dispatch.value \in Values
    BY <1>8 DEF FireChanged, Locked, TypeOK
  <2> QED BY <1>8, <2>1, Records DEF FireChanged, SendSignal,
            SendPropertiesChangedSignal, TypeOK
<1>9. ASSUME NEW c \in Calls, Issued(c) PROVE TypeOK'
  <2>1. ~Travels(c)
    BY <1>9 DEF Progress, Issued
  <2>2. wire' \in Seq(Calls)
    BY <1>9, <2>1, PutOnTheWire DEF Issued, TypeOK
  <2>3. Message("unhandled", None) \in ReplyType
    BY Records
  <2>4. phase' \in [Calls -> {"new", "begun", "waiting", "deferred", "done"}]
    <3>1. PICK p \in {"begun", "deferred", "waiting", "done"} : phase' = [phase EXCEPT ![c] = p]
      BY <1>9 DEF Issued
    <3> QED BY <3>1 DEF TypeOK
  <2>5. status' \in [Calls -> Statuses \cup {None}]
    <3>1. PICK s \in Statuses \cup {None} : status' = [status EXCEPT ![c] = s]
      BY <1>9 DEF Issued
    <3> QED BY <3>1 DEF TypeOK
  <2>6. result' \in [Calls -> Values \cup {None}]
    <3>1. PICK v \in Values \cup {None} : result' = [result EXCEPT ![c] = v]
      BY <1>9 DEF Issued
    <3> QED BY <3>1 DEF TypeOK
  <2>7. reply' \in [Calls -> ReplyType \cup {None}]
    <3>1. reply' = reply \/ reply' = [reply EXCEPT ![c] = Message("unhandled", None)]
      BY <1>9 DEF Issued
    <3> QED BY <2>3, <3>1 DEF TypeOK
  <2>8. /\ guard' \in [Guards -> Calls \cup {None}]
        /\ UNCHANGED <<request, told, stubVars, attributeVars, linkVars, sent, failures, failed>>
    BY <1>9 DEF Issued
  <2> QED BY <2>2, <2>4, <2>5, <2>6, <2>7, <2>8 DEF TypeOK
<1>10. ASSUME NEW c \in Calls, Complete(c) PROVE TypeOK'
  <2> DEFINE r == request[c]
             m == reply[c]
             s == IF r.how = "sync" THEN SyncStatus(r, m) ELSE AsyncStatus(r, m)
  <2>1. r.value \in Values /\ m.value \in Values \cup {None}
    BY <1>10, ScenariosAssumption DEF Complete, TypeOK, RequestType, ReplyType
  <2>2. s \in Statuses /\ ResultOf(r, m, s) \in Values \cup {None}
    BY <2>1, StatusValues
  <2>3. Finish(c, s, ResultOf(r, m, s)) /\ told' \subseteq Calls
    BY <1>10 DEF Complete, TypeOK
  <2> HIDE DEF r, m, s
  <2>4. /\ phase' \in [Calls -> {"new", "begun", "waiting", "deferred", "done"}]
        /\ status' \in [Calls -> Statuses \cup {None}]
        /\ result' \in [Calls -> Values \cup {None}]
        /\ guard' \in [Guards -> Calls \cup {None}] /\ UNCHANGED request
    <3>1. /\ phase' = [phase EXCEPT ![c] = "done"] /\ status' = [status EXCEPT ![c] = s]
          /\ result' = [result EXCEPT ![c] = ResultOf(r, m, s)]
          /\ guard' \in [Guards -> Calls \cup {None}] /\ UNCHANGED request
      BY <2>2, <2>3, FinishEffect
    <3> QED BY <2>2, <3>1 DEF TypeOK
  <2>5. UNCHANGED <<wire, stubVars, attributeVars, linkVars, replyVars>>
    BY <1>10 DEF Complete
  <2> QED BY <2>3, <2>4, <2>5 DEF TypeOK
<1>11. ASSUME NEW c \in Calls, Timeout(c) PROVE TypeOK'
  BY <1>11, Records DEF Timeout, TypeOK
<1>12. ASSUME NEW c \in Calls, Reject(c) PROVE TypeOK'
  <2>1. wire' \in Seq(Calls)
    BY <1>12, TakenFromWire DEF Reject, Receiving, TypeOK
  <2>2. Arrive(c, Message("unhandled", None)) \/ UNCHANGED <<reply, sent>>
    BY <1>12 DEF Reject, Unhandled
  <2>3. /\ reply' \in [Calls -> ReplyType \cup {None}]
        /\ sent' \in [Calls -> Seq(ReplyType)]
    BY <2>2, Records, ArriveEffect DEF TypeOK
  <2> QED BY <1>12, <2>1, <2>3 DEF Reject, TypeOK
<1>13. ASSUME NEW c \in Calls, NEW kinds, Taken(c, kinds)
       PROVE  wire' \in Seq(Calls) /\ ran' \subseteq Calls
  BY <1>13, TakenFromWire DEF Taken, Receiving, TypeOK
<1>14. ASSUME NEW c \in Calls, DispatchFire(c) PROVE TypeOK'
  BY <1>13, <1>14 DEF DispatchFire, Taken, TypeOK
<1>15. ASSUME NEW c \in Calls, CallKept(c) PROVE TypeOK'
  BY <1>13, <1>15, Records DEF CallKept, KeepCall, Taken, TypeOK
<1>16. ASSUME NEW c \in Calls, RepliedAtOnce(c) PROVE TypeOK'
  <2>1. PICK ok \in Sendable, v \in Values : SendOrFail(c, Message("return", v), ok)
    BY <1>16 DEF RepliedAtOnce
  <2>2. Message("return", v) \in ReplyType
    BY Records
  <2>3. /\ reply' \in [Calls -> ReplyType \cup {None}]
        /\ sent' \in [Calls -> Seq(ReplyType)]
        /\ failures' \in 0 .. MaxFailures
        /\ failed' = failed \/ failed' = failed \cup {c}
    BY <2>1, <2>2, SendOrFailEffect
  <2> QED BY <1>13, <1>16, <2>3 DEF RepliedAtOnce, Taken, TypeOK
<1>17. ASSUME NEW c \in Calls, DispatchSet(c) PROVE TypeOK'
  <2>1. value' \in Values
    BY <1>17, ScenariosAssumption DEF DispatchSet, TypeOK, RequestType
  <2>2. dispatch' \in JobType
    BY <1>17, Records DEF DispatchSet
  <2> QED BY <1>13, <1>17, <2>1, <2>2 DEF DispatchSet, Taken, TypeOK
<1>18. ASSUME NEW w \in Threads, NEW c \in Calls, AnswerBegun(w, c) PROVE TypeOK'
  <2>1. PICK type \in {"return", "error"}, v \in Values \cup {None} : BeginAnswer(w, c, type, v)
    BY <1>18 DEF AnswerBegun
  <2>2. At("answer", c, type, v) \in JobType /\ Message(type, v) \in ReplyType
    BY Records
  <2>3. /\ answers' \in [Calls -> 0 .. MaxAnswers]
        /\ first' \in [Calls -> ReplyType \cup {None}]
        /\ job' \in [Threads -> JobType] /\ contested' \subseteq Calls
    BY <2>1, <2>2, BoundsAssumption DEF BeginAnswer, TypeOK
  <2>4. pending' \in [Calls -> {"none", "call", "return", "error", "stray"}]
    BY <2>1 DEF BeginAnswer, TypeOK
  <2> QED BY <2>1, <2>3, <2>4 DEF BeginAnswer, TypeOK
<1>19. ASSUME NEW w \in Threads, FinishAnswer(w) PROVE TypeOK'
  <2> DEFINE c == job[w].call
  <2>0. job[w] \in JobType /\ c \in ran /\ c \in Calls
    BY <1>19 DEF FinishAnswer, TypeOK, Kept
  <2>1. /\ job' \in [Threads -> JobType]
        /\ pending' \in [Calls -> {"none", "call", "return", "error", "stray"}]
    <3>1. /\ job' = [job EXCEPT ![w] = Idle]
          /\ pending' = pending \/ pending' = [pending EXCEPT ![c] = "none"]
      BY <1>19 DEF FinishAnswer
    <3>2. job' \in [Threads -> JobType]
      BY <3>1, Records DEF TypeOK
    <3>3. pending \in [Calls -> {"none", "call", "return", "error", "stray"}]
      BY DEF TypeOK
    <3> QED BY <3>1, <3>2, <3>3
  <2>2. CASE UNCHANGED replyVars
    BY <1>19, <2>0, <2>1, <2>2 DEF FinishAnswer, TypeOK
  <2>3. ASSUME NEW ok \in Sendable, pending[c] \notin {"none", "stray"},
               Send(c, Message(pending[c], job[w].value), ok)
        PROVE  TypeOK'
    <3>1. pending[c] \in {"return", "error"}
      BY <1>19, <2>0, <2>1, <2>3 DEF FinishAnswer, TypeOK, Kept, Answering
    <3>2. Message(pending[c], job[w].value) \in ReplyType
      BY <2>0, <3>1, Records DEF JobType
    <3>3. /\ failures' \in 0 .. MaxFailures
          /\ failed' = failed \/ failed' = failed \cup {c}
      <4>1. serviceUp /\ ~ok => failures < MaxFailures
        BY DEF Sendable, TypeOK
      <4> QED BY <2>3, <4>1, BoundsAssumption DEF Send, TypeOK
    <3>4. Arrive(c, Message(pending[c], job[w].value)) \/ UNCHANGED <<reply, sent>>
      BY <2>3 DEF Send
    <3>5. /\ reply' \in [Calls -> ReplyType \cup {None}]
          /\ sent' \in [Calls -> Seq(ReplyType)]
      BY <2>0, <3>2, <3>4, ArriveEffect DEF TypeOK
    <3> QED BY <1>19, <2>0, <2>1, <3>3, <3>5 DEF FinishAnswer, TypeOK
  <2> QED BY <1>19, <2>2, <2>3 DEF FinishAnswer
<1>20. ASSUME NEW w \in Threads, NEW v \in Values, BeginChange(w, v) PROVE TypeOK'
  BY <1>20, Records DEF BeginChange, TypeOK, Threads
<1>21. ASSUME NEW w \in Threads, FinishChange(w) PROVE TypeOK'
  BY <1>21, Records DEF FinishChange, SendSignal, TypeOK
<1> QED
  BY StepOfNext, <1>1, <1>2, <1>3, <1>4, <1>5, <1>6, <1>7, <1>8, <1>9, <1>10,
     <1>11, <1>12, <1>14, <1>15, <1>16, <1>17, <1>18, <1>19, <1>20, <1>21 DEF Step

-----------------------------------------------------------------------------
(* Messages on their way.                                                  *)

(* A message that is taken had not been taken or replied to before.        *)
LEMMA ReceivedEffect ==
  ASSUME TypeOK, WireOnce, Progress, NEW c \in Calls, Receiving(c), wire' = Tail(wire)
  PROVE  /\ Travels(c) /\ c \notin ran /\ sent[c] = <<>>
         /\ phase[c] \in {"waiting", "done"}
         /\ WireOnce' /\ ~Travels(c)' /\ \A d : Travels(d)' => Travels(d)
<1>1. /\ Travels(c) /\ WireOnce' /\ ~Travels(c)' /\ \A d : Travels(d)' => Travels(d)
  BY TakenFromWire DEF Receiving, TypeOK
<1> QED BY <1>1 DEF Progress

(* A step of a client disturbs no other call.                              *)
LEMMA IssuedEffect ==
  ASSUME TypeOK, WireOnce, Progress, NEW c \in Calls, Issued(c)
  PROVE  /\ ~Travels(c) /\ c \notin ran /\ sent[c] = <<>> /\ reply[c] = None
         /\ WireOnce' /\ \A d : Travels(d)' => Travels(d) \/ d = c
         /\ \A d \in Calls \ {c} :
              /\ phase'[d] = phase[d] /\ status'[d] = status[d]
              /\ result'[d] = result[d] /\ reply'[d] = reply[d]
<1>1. ~Travels(c) /\ c \notin ran /\ sent[c] = <<>> /\ reply[c] = None
  BY DEF Progress, Issued
<1>2. /\ WireOnce' /\ \A d : Travels(d)' => Travels(d) \/ d = c
  <2>1. CASE wire' = wire
    BY <2>1 DEF WireOnce, Travels
  <2>2. CASE OnTheWire(c)
    BY <1>1, <2>2, PutOnTheWire DEF TypeOK
  <2> QED BY <2>1, <2>2 DEF Issued
<1>3. ASSUME NEW d \in Calls \ {c}
      PROVE  /\ phase'[d] = phase[d] /\ status'[d] = status[d]
             /\ result'[d] = result[d] /\ reply'[d] = reply[d]
  BY <1>3 DEF Issued, TypeOK
<1> QED BY <1>1, <1>2, <1>3

(* A step keeps messages apart, and adds none but of a call just issued.   *)
LEMMA WireStep ==
  ASSUME TypeOK, WireOnce, Progress, [Next]_vars
  PROVE  /\ WireOnce'
         /\ \A d \in Calls : Travels(d)' => Travels(d) \/ Issued(d)
<1>1. CASE wire' = wire
  BY <1>1 DEF WireOnce, Travels
<1>2. ASSUME NEW c \in Calls, Receiving(c), wire' = Tail(wire)
      PROVE  WireOnce' /\ \A d : Travels(d)' => Travels(d)
  BY <1>2, ReceivedEffect
<1>3. CASE ServiceLost
  BY <1>3 DEF ServiceLost, WireOnce, Travels
<1>4. ASSUME NEW c \in Calls, Issued(c)
      PROVE  WireOnce' /\ \A d : Travels(d)' => Travels(d) \/ d = c
  BY <1>4, IssuedEffect
<1>5. CASE Next
  <2>1. ASSUME NEW c \in Calls,
               \/ Complete(c) \/ Timeout(c)
               \/ Reject(c) \/ DispatchFire(c) \/ CallKept(c) \/ RepliedAtOnce(c) \/ DispatchSet(c)
        PROVE  wire' = wire \/ (Receiving(c) /\ wire' = Tail(wire))
    BY <2>1 DEF Complete, Timeout, Reject, DispatchFire, CallKept, RepliedAtOnce,
         DispatchSet, Taken
  <2>2. CASE StatusChanges \/ ClientLost \/ MethodReturns \/ ConfirmSet \/ ReadToFire \/ FireChanged
    BY <1>1, <2>2 DEF StatusChanges, ClientLost, MethodReturns, ConfirmSet, ReadToFire, FireChanged
  <2>3. ASSUME NEW w \in Threads,
               \/ \E c \in Calls : AnswerBegun(w, c)
               \/ FinishAnswer(w)
               \/ \E v \in Values : BeginChange(w, v)
               \/ FinishChange(w)
        PROVE  wire' = wire
    BY <2>3 DEF AnswerBegun, BeginAnswer, FinishAnswer, BeginChange, FinishChange
  <2>4. CASE \E c \in Calls :
               \/ Complete(c) \/ Timeout(c)
               \/ Reject(c) \/ DispatchFire(c) \/ CallKept(c) \/ RepliedAtOnce(c) \/ DispatchSet(c)
    BY <1>1, <1>2, <2>1, <2>4
  <2>5. CASE \E c \in Calls : Issued(c)
    BY <1>4, <2>5
  <2> QED BY <1>1, <1>3, <1>5, <2>2, <2>3, <2>4, <2>5, StepOfNext DEF Step
<1> QED BY <1>1, <1>5 DEF vars

-----------------------------------------------------------------------------
(* Replies.                                                                *)

(* The first reply a handler sends: it is sent, or its failure is noted.   *)
LEMMA FirstReplyEffect ==
  ASSUME TypeOK, NEW c \in Calls, NEW v \in Values, NEW ok \in Sendable, sent[c] = <<>>,
         SendOrFail(c, Message("return", v), ok)
  PROVE  /\ \A d \in Calls \ {c} : reply'[d] = reply[d] /\ sent'[d] = sent[d]
         /\ Len(sent'[c]) \in {0, 1} /\ (ok => Len(sent'[c]) = 1)
         /\ \/ reply'[c] = reply[c]
            \/ /\ phase[c] = "waiting" /\ reply[c] = None
               /\ \/ /\ ok /\ reply'[c] = Message("return", v)
                     /\ sent'[c] = <<reply'[c]>>
                  \/ ~ok /\ reply'[c] = Message("unhandled", None)
         /\ failed' = IF ok THEN failed ELSE failed \cup {c}
<1>1. Message("return", v) \in ReplyType
  BY Records
<1>2. /\ \A d \in Calls \ {c} : reply'[d] = reply[d] /\ sent'[d] = sent[d]
      /\ failed' = IF ok THEN failed ELSE failed \cup {c}
      /\ ok => sent'[c] = Append(sent[c], Message("return", v))
      /\ sent'[c] = sent[c] \/ \E n \in ReplyType : sent'[c] = Append(sent[c], n)
      /\ \/ reply'[c] = reply[c]
         \/ /\ phase[c] = "waiting" /\ reply[c] = None
            /\ reply'[c] = IF ok THEN Message("return", v) ELSE Message("unhandled", None)
  BY <1>1, SendOrFailEffect
<1>3. /\ ok => sent'[c] = <<Message("return", v)>>
      /\ sent'[c] = <<>> \/ \E n \in ReplyType : sent'[c] = <<n>>
  BY <1>2, FirstReply
<1>4. Len(sent'[c]) \in {0, 1} /\ (ok => Len(sent'[c]) = 1)
  <2>1. sent'[c] = <<>> => Len(sent'[c]) = 0
    BY FirstReply
  <2>2. \A n : sent'[c] = <<n>> => Len(sent'[c]) = 1
    BY FirstReply
  <2> QED BY <1>3, <2>1, <2>2
<1> QED BY <1>2, <1>3, <1>4

(* The second part of an answer: nothing is kept any more, and the first   *)
(* answer is sent unless a second one came between.                        *)
Answered(w, c) ==
  /\ c \in ran /\ c \in Calls /\ job' = [job EXCEPT ![w] = Idle]
  /\ pending'[c] = "none" /\ \A d \in Calls \ {c} : pending'[d] = pending[d]
  /\ UNCHANGED <<clientVars, wire, dispatch, ran, first, contested>>
  /\ \A d \in Calls \ {c} : reply'[d] = reply[d] /\ sent'[d] = sent[d]
  /\ \/ pending[c] \in {"none", "stray"} /\ UNCHANGED <<reply, sent, failed>>
     \/ /\ pending[c] \in {"return", "error"} /\ sent[c] = <<>>
        /\ first[c] = Message(pending[c], job[w].value) /\ first[c] # None
        /\ first[c].type = pending[c]
        /\ \/ failed' = failed \cup {c} /\ UNCHANGED <<reply, sent>>
           \/ /\ failed' = failed /\ sent'[c] = <<first[c]>>
              /\ \/ reply'[c] = reply[c]
                 \/ phase[c] = "waiting" /\ reply[c] = None /\ reply'[c] = first[c]

LEMMA FinishAnswerEffect ==
  ASSUME TypeOK, Kept, NEW w \in Threads, FinishAnswer(w)
  PROVE  \E c : c = job[w].call /\ Answered(w, c)
<1> DEFINE c == job[w].call
<1> SUFFICES Answered(w, c)
  OBVIOUS
<1>1. c \in ran /\ c \in Calls /\ job[w].value \in Values \cup {None}
  BY DEF FinishAnswer, TypeOK, Kept, JobType
<1>2. /\ job' = [job EXCEPT ![w] = Idle]
      /\ UNCHANGED <<clientVars, wire, dispatch, ran, first, contested>>
      /\ \/ pending[c] = "none" /\ pending' = pending
         \/ pending' = [pending EXCEPT ![c] = "none"]
  BY DEF FinishAnswer
<1>3. pending'[c] = "none" /\ \A d \in Calls \ {c} : pending'[d] = pending[d]
  BY <1>1, <1>2 DEF TypeOK
<1>4. \/ pending[c] \in {"none", "stray"} /\ UNCHANGED replyVars
      \/ /\ pending[c] \notin {"none", "stray"}
         /\ \E ok \in Sendable : Send(c, Message(pending[c], job[w].value), ok)
  BY DEF FinishAnswer
<1>5. CASE pending[c] \in {"none", "stray"} /\ UNCHANGED replyVars
  BY <1>1, <1>2, <1>3, <1>5 DEF replyVars, Answered
<1>6. CASE /\ pending[c] \notin {"none", "stray"}
           /\ \E ok \in Sendable : Send(c, Message(pending[c], job[w].value), ok)
  <2>1. pending[c] \in {"return", "error"}
    BY <1>1, <1>6 DEF FinishAnswer, TypeOK, Kept, Answering
  <2>2. sent[c] = <<>> /\ first[c] = Message(pending[c], job[w].value)
    BY <1>1, <2>1 DEF FinishAnswer, Kept
  <2>3. first[c] \in ReplyType /\ first[c] # None /\ first[c].type = pending[c]
    BY <1>1, <2>1, <2>2, Records
  <2>4. PICK ok \in Sendable : Send(c, first[c], ok)
    BY <1>6, <2>2
  <2>5. CASE ok
    <3>1. Arrive(c, first[c]) /\ failed' = failed
      BY <2>4, <2>5 DEF Send
    <3>2. /\ \A d \in Calls \ {c} : reply'[d] = reply[d] /\ sent'[d] = sent[d]
          /\ sent'[c] = Append(sent[c], first[c])
          /\ reply'[c] = reply[c] \/ (phase[c] = "waiting" /\ reply[c] = None /\ reply'[c] = first[c])
      BY <1>1, <2>3, <3>1, ArriveEffect
    <3>3. sent'[c] = <<first[c]>>
      BY <2>2, <3>2, FirstReply
    <3> QED BY <1>1, <1>2, <1>3, <2>1, <2>2, <2>3, <3>1, <3>2, <3>3 DEF Answered
  <2>6. CASE ~ok
    <3>1. failed' = failed \cup {c} /\ UNCHANGED <<reply, sent>>
      BY <2>4, <2>6 DEF Send
    <3> QED BY <1>1, <1>2, <1>3, <2>1, <2>2, <2>3, <3>1 DEF Answered
  <2> QED BY <2>5, <2>6
<1> QED BY <1>4, <1>5, <1>6

-----------------------------------------------------------------------------
(* Progress of a call.                                                     *)

(* A step keeps what is known of messages on their way.                    *)
LEMMA ProgressStep ==
  ASSUME TypeOK, WireOnce, Progress, Kept, Dispatching, [Next]_vars
  PROVE  Progress'
<1>1. ASSUME UNCHANGED <<phase, wire, ran, sent, reply>> PROVE Progress'
  BY <1>1 DEF Progress, Travels
<1>2. CASE UNCHANGED vars
  BY <1>1, <1>2 DEF vars, clientVars, stubVars, replyVars
<1>3. CASE StatusChanges \/ ClientLost \/ MethodReturns \/ ReadToFire
  BY <1>1, <1>3 DEF StatusChanges, ClientLost, MethodReturns, ReadToFire, clientVars, stubVars, replyVars
<1>4. CASE FireChanged
  BY <1>1, <1>4 DEF FireChanged, clientVars, stubVars, replyVars
<1>5. ASSUME NEW w \in Threads, NEW c \in Calls, AnswerBegun(w, c) PROVE Progress'
  BY <1>1, <1>5 DEF AnswerBegun, BeginAnswer, clientVars, stubVars,
      replyVars
<1>6. ASSUME NEW w \in Threads, NEW v \in Values, BeginChange(w, v) PROVE Progress'
  BY <1>1, <1>6 DEF BeginChange, clientVars, stubVars, replyVars
<1>7. ASSUME NEW w \in Threads, FinishChange(w) PROVE Progress'
  BY <1>1, <1>7 DEF FinishChange, clientVars, stubVars, replyVars
<1>8. CASE ServiceLost
  <2>1. wire' = <<>> /\ UNCHANGED <<phase, ran, sent, reply>>
    BY <1>8 DEF ServiceLost, clientVars, stubVars, replyVars
  <2>2. \A d : ~Travels(d)'
    BY <2>1 DEF Travels
  <2> QED BY <2>1, <2>2 DEF Progress
<1>9. CASE ConfirmSet
  <2>1. dispatch.call \in ran /\ dispatch.call \in Calls /\ Message("return", value) \in ReplyType
    BY <1>9, Records DEF ConfirmSet, Dispatching, TypeOK
  <2>2. PICK ok \in Sendable : SendOrFail(dispatch.call, Message("return", value), ok)
    BY <1>9 DEF ConfirmSet
  <2>3. /\ \A d \in Calls \ {dispatch.call} : reply'[d] = reply[d] /\ sent'[d] = sent[d]
        /\ UNCHANGED <<phase, wire, ran>>
    BY <1>9, <2>1, <2>2, SendOrFailEffect DEF ConfirmSet, clientVars
  <2> QED BY <2>1, <2>3 DEF Progress, Travels
<1>10. ASSUME NEW c \in Calls, Issued(c) PROVE Progress'
  <2> SUFFICES ASSUME NEW d \in Calls
               PROVE  /\ Travels(d)' => phase'[d] \in {"waiting", "done"} /\ d \notin ran' /\ sent'[d] = <<>>
                      /\ phase'[d] \in {"new", "begun", "deferred"} =>
                           d \notin ran' /\ sent'[d] = <<>> /\ reply'[d] = None
    BY DEF Progress
  <2>1. UNCHANGED <<ran, sent>>
    BY <1>10 DEF Issued, stubVars
  <2>2. CASE d # c
    BY <1>10, <2>1, <2>2, IssuedEffect DEF Progress
  <2>3. CASE d = c
    <3>1. c \notin ran /\ sent[c] = <<>> /\ reply[c] = None /\ ~Travels(c)
      BY <1>10, IssuedEffect
    <3>2. Travels(c)' => phase'[c] \in {"waiting", "done"}
      BY <1>10, <3>1 DEF Issued, Travels
    <3>3. phase'[c] \in {"new", "begun", "deferred"} => reply'[c] = None
      BY <1>10, <3>1 DEF Issued
    <3> QED BY <2>1, <2>3, <3>1, <3>2, <3>3
  <2> QED BY <2>2, <2>3
<1>11. ASSUME NEW c \in Calls, Complete(c) PROVE Progress'
  <2>1. /\ phase' = [phase EXCEPT ![c] = "done"] /\ phase[c] = "waiting"
        /\ UNCHANGED <<wire, ran, sent, reply>>
    BY <1>11 DEF Complete, Finish, stubVars, replyVars
  <2> QED BY <2>1 DEF Progress, Travels, TypeOK
<1>12. ASSUME NEW c \in Calls, Timeout(c) PROVE Progress'
  <2>1. /\ reply' = [reply EXCEPT ![c] = Message("noReply", None)] /\ phase[c] = "waiting"
        /\ UNCHANGED <<wire, ran, sent, phase>>
    BY <1>12 DEF Timeout, stubVars, clientVars
  <2> QED BY <2>1 DEF Progress, Travels, TypeOK
<1>13. ASSUME NEW c \in Calls, Reject(c) PROVE Progress'
  <2>1. /\ ~Travels(c)' /\ \A d : Travels(d)' => Travels(d)
        /\ c \notin ran /\ phase[c] \in {"waiting", "done"}
    BY <1>13, ReceivedEffect DEF Reject
  <2>2. \A d \in Calls \ {c} : reply'[d] = reply[d] /\ sent'[d] = sent[d]
    <3>1. Arrive(c, Message("unhandled", None)) \/ UNCHANGED <<reply, sent>>
      BY <1>13 DEF Reject, Unhandled
    <3> QED BY <3>1, Records, ArriveEffect
  <2>3. UNCHANGED <<phase, ran>>
    BY <1>13 DEF Reject, clientVars, stubVars
  <2> QED BY <2>1, <2>2, <2>3 DEF Progress
<1>14. ASSUME NEW c \in Calls, DispatchFire(c) PROVE Progress'
  <2>1. /\ ~Travels(c)' /\ \A d : Travels(d)' => Travels(d)
        /\ c \notin ran /\ phase[c] \in {"waiting", "done"}
    BY <1>14, ReceivedEffect DEF DispatchFire, Taken
  <2>2. ran' = ran \cup {c} /\ UNCHANGED <<phase, reply, sent>>
    BY <1>14 DEF DispatchFire, Taken, clientVars, replyVars
  <2> QED BY <2>1, <2>2 DEF Progress
<1>15. ASSUME NEW c \in Calls, CallKept(c) PROVE Progress'
  <2>1. /\ ~Travels(c)' /\ \A d : Travels(d)' => Travels(d)
        /\ c \notin ran /\ phase[c] \in {"waiting", "done"}
    BY <1>15, ReceivedEffect DEF CallKept, Taken
  <2>2. ran' = ran \cup {c} /\ UNCHANGED <<phase, reply, sent>>
    BY <1>15 DEF CallKept, KeepCall, Taken, clientVars, replyVars
  <2> QED BY <2>1, <2>2 DEF Progress
<1>16. ASSUME NEW c \in Calls, RepliedAtOnce(c) PROVE Progress'
  <2>1. /\ ~Travels(c)' /\ \A d : Travels(d)' => Travels(d)
        /\ c \notin ran /\ phase[c] \in {"waiting", "done"}
    BY <1>16, ReceivedEffect DEF RepliedAtOnce, Taken
  <2>2. ran' = ran \cup {c} /\ UNCHANGED phase
    BY <1>16 DEF RepliedAtOnce, Taken, clientVars
  <2>3. PICK ok \in Sendable, v \in Values : SendOrFail(c, Message("return", v), ok)
    BY <1>16 DEF RepliedAtOnce
  <2>4. \A d \in Calls \ {c} : reply'[d] = reply[d] /\ sent'[d] = sent[d]
    BY <2>3, Records, SendOrFailEffect
  <2> QED BY <2>1, <2>2, <2>4 DEF Progress
<1>17. ASSUME NEW c \in Calls, DispatchSet(c) PROVE Progress'
  <2>1. /\ ~Travels(c)' /\ \A d : Travels(d)' => Travels(d)
        /\ c \notin ran /\ phase[c] \in {"waiting", "done"}
    BY <1>17, ReceivedEffect DEF DispatchSet, Taken
  <2>2. ran' = ran \cup {c} /\ UNCHANGED <<phase, reply, sent>>
    BY <1>17 DEF DispatchSet, Taken, clientVars, replyVars
  <2> QED BY <2>1, <2>2 DEF Progress
<1>18. ASSUME NEW w \in Threads, FinishAnswer(w) PROVE Progress'
  <2>0. PICK c : c = job[w].call /\ Answered(w, c)
    BY <1>18, FinishAnswerEffect
  <2>1. c \in ran /\ c \in Calls /\ UNCHANGED <<phase, wire, ran>>
    BY <2>0 DEF Answered, clientVars
  <2>2. \A d \in Calls \ {c} : reply'[d] = reply[d] /\ sent'[d] = sent[d]
    BY <2>0 DEF Answered
  <2> QED BY <2>1, <2>2 DEF Progress, Travels
<1> QED
  BY StepOfNext, <1>2, <1>3, <1>4, <1>5, <1>6, <1>7, <1>8, <1>9, <1>10,
      <1>11, <1>12, <1>13, <1>14, <1>15, <1>16, <1>17, <1>18 DEF Step

(* Answers and the messages that are kept for them.                        *)

(* A step keeps the answers in line with the messages that are kept.       *)
LEMMA KeptStep ==
  ASSUME TypeOK, WireOnce, Progress, Kept, Dispatching, [Next]_vars
  PROVE  Kept'
<1>1. ASSUME UNCHANGED <<request, ran, pending, first, sent, job, contested, failed>> PROVE Kept'
  BY <1>1 DEF Kept, Answering
<1>2. CASE UNCHANGED vars
  BY <1>1, <1>2 DEF vars, clientVars, stubVars, replyVars
<1>3. CASE StatusChanges \/ ClientLost \/ ServiceLost \/ MethodReturns
  BY <1>1, <1>3 DEF StatusChanges, ClientLost, ServiceLost, MethodReturns, clientVars, stubVars, replyVars
<1>4. CASE ReadToFire \/ FireChanged
  BY <1>1, <1>4 DEF ReadToFire, FireChanged, clientVars, stubVars, replyVars
<1>5. ASSUME NEW c \in Calls, Complete(c) PROVE Kept'
  BY <1>1, <1>5 DEF Complete, Finish, clientVars, stubVars, replyVars
<1>6. ASSUME NEW c \in Calls, Timeout(c) PROVE Kept'
  BY <1>1, <1>6 DEF Timeout, clientVars, stubVars, replyVars
<1>7. CASE ConfirmSet
  <2>1. /\ dispatch.call \in ran /\ dispatch.call \in Calls /\ value \in Values
        /\ sent[dispatch.call] = <<>> /\ request[dispatch.call].kind # "method"
    BY <1>7 DEF ConfirmSet, Dispatching, TypeOK
  <2>2. PICK ok \in Sendable : SendOrFail(dispatch.call, Message("return", value), ok)
    BY <1>7 DEF ConfirmSet
  <2>3. /\ \A d \in Calls \ {dispatch.call} : sent'[d] = sent[d]
        /\ failed \subseteq failed'
    BY <2>1, <2>2, FirstReplyEffect
  <2>4. UNCHANGED <<request, job, pending, ran, first, contested>>
    BY <1>7 DEF ConfirmSet, clientVars
  <2> QED BY <2>1, <2>3, <2>4 DEF Kept, Answering
<1>8. ASSUME NEW c \in Calls, Issued(c) PROVE Kept'
  <2>1. UNCHANGED <<request, ran, pending, first, sent, job, contested, failed>>
    BY <1>8 DEF Issued, stubVars
  <2> QED BY <1>1, <2>1
<1>9. ASSUME NEW c \in Calls, Reject(c) PROVE Kept'
  <2>1. c \notin ran /\ sent[c] = <<>>
    BY <1>9, ReceivedEffect DEF Reject
  <2>2. \A d \in Calls \ {c} : sent'[d] = sent[d]
    <3>1. Arrive(c, Message("unhandled", None)) \/ UNCHANGED <<reply, sent>>
      BY <1>9 DEF Reject, Unhandled
    <3> QED BY <3>1, Records, ArriveEffect
  <2>3. UNCHANGED <<request, job, pending, ran, first, contested, failed>>
    BY <1>9 DEF Reject, clientVars, stubVars
  <2> QED BY <2>1, <2>2, <2>3 DEF Kept, Answering
<1>10. ASSUME NEW c \in Calls, DispatchFire(c) PROVE Kept'
  <2>1. c \notin ran /\ sent[c] = <<>>
    BY <1>10, ReceivedEffect DEF DispatchFire, Taken
  <2>2. /\ ran' = ran \cup {c} /\ request[c].kind # "method"
        /\ UNCHANGED <<request, job, pending, first, contested, sent, failed>>
    BY <1>10 DEF DispatchFire, Taken, clientVars, replyVars
  <2> QED BY <2>1, <2>2 DEF Kept, Answering
<1>11. ASSUME NEW c \in Calls, CallKept(c) PROVE Kept'
  <2>1. c \notin ran /\ sent[c] = <<>>
    BY <1>11, ReceivedEffect DEF CallKept, Taken
  <2>2. /\ ran' = ran \cup {c} /\ request[c].kind = "method"
        /\ pending' = [pending EXCEPT ![c] = "call"]
        /\ UNCHANGED <<request, job, first, contested, sent, failed>>
    BY <1>11 DEF CallKept, KeepCall, Taken, clientVars, replyVars
  <2>3. pending'[c] = "call" /\ \A d \in Calls \ {c} : pending'[d] = pending[d]
    BY <2>2 DEF TypeOK
  <2> QED BY <2>1, <2>2, <2>3 DEF Kept, Answering
<1>12. ASSUME NEW c \in Calls, RepliedAtOnce(c) PROVE Kept'
  <2>1. c \notin ran /\ sent[c] = <<>>
    BY <1>12, ReceivedEffect DEF RepliedAtOnce, Taken
  <2>2. /\ ran' = ran \cup {c} /\ request[c].kind # "method"
        /\ UNCHANGED <<request, job, pending, first, contested>>
    BY <1>12 DEF RepliedAtOnce, Taken, clientVars
  <2>3. PICK ok \in Sendable, v \in Values : SendOrFail(c, Message("return", v), ok)
    BY <1>12 DEF RepliedAtOnce
  <2>4. /\ \A d \in Calls \ {c} : sent'[d] = sent[d]
        /\ failed \subseteq failed'
    BY <2>1, <2>3, FirstReplyEffect
  <2> QED BY <2>1, <2>2, <2>4 DEF Kept, Answering
<1>13. ASSUME NEW c \in Calls, DispatchSet(c) PROVE Kept'
  <2>1. c \notin ran /\ sent[c] = <<>>
    BY <1>13, ReceivedEffect DEF DispatchSet, Taken
  <2>2. /\ ran' = ran \cup {c} /\ request[c].kind # "method"
        /\ UNCHANGED <<request, job, pending, first, contested, sent, failed>>
    BY <1>13 DEF DispatchSet, Taken, clientVars, replyVars
  <2> QED BY <2>1, <2>2 DEF Kept, Answering
<1>14. ASSUME NEW w \in Threads, NEW c \in Calls, AnswerBegun(w, c) PROVE Kept'
  <2>1. PICK type \in {"return", "error"}, v \in Values \cup {None} : BeginAnswer(w, c, type, v)
    BY <1>14 DEF AnswerBegun
  <2>2. /\ job[w] = Idle /\ c \in ran /\ pending[c] # "none"
        /\ UNCHANGED <<request, ran, sent, failed>>
    BY <2>1 DEF BeginAnswer, MayAct, clientVars, replyVars
  <2>3. /\ job'[w] = At("answer", c, type, v) /\ \A u \in Threads \ {w} : job'[u] = job[u]
        /\ pending'[c] = (IF pending[c] = "call" THEN type ELSE "stray")
        /\ first'[c] = (IF first[c] = None THEN Message(type, v) ELSE first[c])
        /\ \A d \in Calls \ {c} : pending'[d] = pending[d] /\ first'[d] = first[d]
        /\ contested' = IF Answering(c) THEN contested \cup {c} ELSE contested
    BY <2>1 DEF BeginAnswer, TypeOK, Answering
  <2>4. /\ job[w].pc # "answer" /\ job'[w].pc = "answer" /\ job'[w].call = c /\ job'[w].value = v
    BY <2>2, <2>3 DEF Idle, At
  <2>5. \A d \in Calls \ {c} : Answering(d)' <=> Answering(d)
    BY <2>3, <2>4 DEF Answering
  <2>6. Answering(c)'
    BY <2>3, <2>4 DEF Answering
  <2>7. CASE pending[c] = "call"
    <3>1. /\ ~Answering(c) /\ first[c] = None /\ request[c].kind = "method" /\ sent[c] = <<>>
          /\ c \notin contested \/ contested' = contested
      BY <2>3, <2>7 DEF Kept
    <3>2. first'[c] = Message(pending'[c], v) /\ pending'[c] \in {"return", "error"}
      BY <2>3, <2>7, <3>1
    <3>3. \A u \in Threads : job'[u].pc = "answer" /\ job'[u].call = c => u = w
      BY <2>3, <3>1 DEF Answering
    <3> QED BY <2>2, <2>3, <2>4, <2>5, <2>6, <3>1, <3>2, <3>3 DEF Kept
  <2>8. CASE pending[c] # "call"
    <3>1. pending'[c] = "stray" /\ pending[c] \in {"return", "error", "stray"}
      BY <2>2, <2>3, <2>8 DEF TypeOK
    <3>2. request[c].kind = "method" /\ sent[c] = <<>> /\ c \in contested'
      BY <2>2, <2>3, <3>1 DEF Kept
    <3> QED BY <2>2, <2>3, <2>4, <2>5, <2>6, <3>1, <3>2 DEF Kept
  <2> QED BY <2>7, <2>8
<1>15. ASSUME NEW w \in Threads, FinishAnswer(w) PROVE Kept'
  <2>0. PICK c : c = job[w].call /\ Answered(w, c)
    BY <1>15, FinishAnswerEffect
  <2>1. /\ c \in ran /\ c \in Calls /\ job' = [job EXCEPT ![w] = Idle]
        /\ pending'[c] = "none" /\ \A d \in Calls \ {c} : pending'[d] = pending[d]
        /\ UNCHANGED <<clientVars, ran, first, contested>>
        /\ \A d \in Calls \ {c} : sent'[d] = sent[d]
        /\ \/ pending[c] \in {"none", "stray"} /\ UNCHANGED <<sent, failed>>
           \/ /\ pending[c] \in {"return", "error"} /\ first[c] # None
              /\ \/ failed' = failed \cup {c}
                 \/ failed' = failed /\ sent'[c] = <<first[c]>>
    BY <2>0 DEF Answered
  <2>2. job[w].pc = "answer"
    BY <1>15 DEF FinishAnswer
  <2>3. job'[w].pc # "answer" /\ \A u \in Threads \ {w} : job'[u] = job[u]
    BY <2>1 DEF TypeOK, Idle
  <2>4. \A d \in Calls \ {c} : Answering(d)' <=> Answering(d)
    BY <2>0, <2>3 DEF Answering
  <2>5. UNCHANGED request
    BY <2>1 DEF clientVars
  <2> QED BY <2>1, <2>3, <2>4, <2>5 DEF Kept
<1>16. ASSUME NEW w \in Threads, NEW v \in Values, BeginChange(w, v) PROVE Kept'
  <2>1. /\ job[w] = Idle /\ job' = [job EXCEPT ![w] = At("change", None, "return", None)]
        /\ UNCHANGED <<request, ran, pending, first, contested, sent, failed>>
    BY <1>16 DEF BeginChange, clientVars, replyVars
  <2>2. /\ job[w].pc # "answer" /\ job'[w].pc # "answer"
        /\ \A u \in Threads \ {w} : job'[u] = job[u]
    BY <2>1 DEF TypeOK, Idle, At
  <2>3. \A d \in Calls : Answering(d)' <=> Answering(d)
    BY <2>2 DEF Answering
  <2> QED BY <2>1, <2>2, <2>3 DEF Kept
<1>17. ASSUME NEW w \in Threads, FinishChange(w) PROVE Kept'
  <2>1. /\ job[w].pc = "change" /\ job' = [job EXCEPT ![w] = Idle]
        /\ UNCHANGED <<request, ran, pending, first, contested, sent, failed>>
    BY <1>17 DEF FinishChange, clientVars, replyVars
  <2>2. /\ job[w].pc # "answer" /\ job'[w].pc # "answer"
        /\ \A u \in Threads \ {w} : job'[u] = job[u]
    BY <2>1 DEF TypeOK, Idle
  <2>3. \A d \in Calls : Answering(d)' <=> Answering(d)
    BY <2>2 DEF Answering
  <2> QED BY <2>1, <2>2, <2>3 DEF Kept
<1> QED
  BY StepOfNext, <1>2, <1>3, <1>4, <1>5, <1>6, <1>7, <1>8, <1>9, <1>10,
      <1>11, <1>12, <1>13, <1>14, <1>15, <1>16, <1>17 DEF Step

(* The dispatcher and the replies.                                         *)

(* A step keeps what is known of the dispatcher.                           *)
LEMMA DispatchingStep ==
  ASSUME TypeOK, WireOnce, Progress, Kept, Dispatching, [Next]_vars
  PROVE  Dispatching'
<1>1. ASSUME UNCHANGED <<request, dispatch, ran, sent>> PROVE Dispatching'
  BY <1>1 DEF Dispatching
<1>2. CASE UNCHANGED vars
  BY <1>1, <1>2 DEF vars, clientVars, stubVars, replyVars
<1>3. CASE StatusChanges \/ ClientLost \/ ServiceLost
  BY <1>1, <1>3 DEF StatusChanges, ClientLost, ServiceLost, clientVars, stubVars, replyVars
<1>4. ASSUME NEW c \in Calls, Complete(c) PROVE Dispatching'
  BY <1>1, <1>4 DEF Complete, Finish, clientVars, stubVars, replyVars
<1>5. ASSUME NEW c \in Calls, Timeout(c) PROVE Dispatching'
  BY <1>1, <1>5 DEF Timeout, clientVars, stubVars, replyVars
<1>6. ASSUME NEW w \in Threads, NEW c \in Calls, AnswerBegun(w, c) PROVE Dispatching'
  BY <1>1, <1>6 DEF AnswerBegun, BeginAnswer, clientVars, stubVars,
      replyVars
<1>7. ASSUME NEW w \in Threads, NEW v \in Values, BeginChange(w, v) PROVE Dispatching'
  BY <1>1, <1>7 DEF BeginChange, clientVars, stubVars, replyVars
<1>8. ASSUME NEW w \in Threads, FinishChange(w) PROVE Dispatching'
  BY <1>1, <1>8 DEF FinishChange, clientVars, stubVars, replyVars
<1>9. CASE MethodReturns
  BY <1>9 DEF MethodReturns, Dispatching, Idle
<1>10. CASE ConfirmSet
  <2>1. /\ dispatch.call \in ran /\ dispatch.call \in Calls /\ value \in Values
        /\ sent[dispatch.call] = <<>> /\ request[dispatch.call].kind \in {"set", "fdSet"}
    BY <1>10 DEF ConfirmSet, Dispatching, TypeOK
  <2>2. PICK ok \in Sendable :
          /\ SendOrFail(dispatch.call, Message("return", value), ok)
          /\ dispatch' = IF ok /\ dispatch.type = "changed"
                         THEN [dispatch EXCEPT !.pc = "fire"] ELSE Idle
    BY <1>10 DEF ConfirmSet
  <2>3. ok => Len(sent'[dispatch.call]) = 1
    BY <2>1, <2>2, FirstReplyEffect
  <2>4. UNCHANGED <<request, ran>>
    BY <1>10 DEF ConfirmSet, clientVars
  <2>5. CASE dispatch' = Idle
    BY <2>5 DEF Dispatching, Idle
  <2>6. CASE ok /\ dispatch' = [dispatch EXCEPT !.pc = "fire"]
    <3>1. dispatch'.pc = "fire" /\ dispatch'.call = dispatch.call
      BY <2>6 DEF TypeOK, JobType
    <3> QED BY <2>1, <2>3, <2>4, <2>6, <3>1 DEF Dispatching
  <2> QED BY <2>2, <2>5, <2>6
<1>11. CASE ReadToFire
  <2>1. dispatch'.pc = "firing" /\ dispatch'.call = dispatch.call /\ dispatch.pc = "fire"
    BY <1>11 DEF ReadToFire, TypeOK, JobType
  <2>2. UNCHANGED <<request, ran, sent>>
    BY <1>11 DEF ReadToFire, clientVars, replyVars
  <2> QED BY <2>1, <2>2 DEF Dispatching
<1>12. CASE FireChanged
  BY <1>12 DEF FireChanged, Dispatching, Idle
<1>13. ASSUME NEW c \in Calls, Issued(c) PROVE Dispatching'
  <2>1. UNCHANGED <<request, dispatch, ran, sent>>
    BY <1>13 DEF Issued, stubVars
  <2> QED BY <1>1, <2>1
<1>14. ASSUME NEW c \in Calls, Reject(c) PROVE Dispatching'
  <2>1. dispatch' = Idle
    BY <1>14 DEF Reject, Receiving, stubVars
  <2> QED BY <2>1 DEF Dispatching, Idle
<1>15. ASSUME NEW c \in Calls, DispatchFire(c) PROVE Dispatching'
  <2>1. dispatch' = Idle
    BY <1>15 DEF DispatchFire, Taken, Receiving
  <2> QED BY <2>1 DEF Dispatching, Idle
<1>16. ASSUME NEW c \in Calls, CallKept(c) PROVE Dispatching'
  <2>1. /\ dispatch' = At("method", c, "return", None) /\ c \in ran'
        /\ request'[c].kind = "method"
    BY <1>16 DEF CallKept, KeepCall, Taken, clientVars
  <2> QED BY <2>1 DEF Dispatching, At
<1>17. ASSUME NEW c \in Calls, RepliedAtOnce(c) PROVE Dispatching'
  <2>1. dispatch' = Idle
    BY <1>17 DEF RepliedAtOnce, Taken, Receiving
  <2> QED BY <2>1 DEF Dispatching, Idle
<1>18. ASSUME NEW c \in Calls, DispatchSet(c) PROVE Dispatching'
  <2>1. c \notin ran /\ sent[c] = <<>>
    BY <1>18, ReceivedEffect DEF DispatchSet, Taken
  <2>2. PICK type \in {"same", "changed"} : dispatch' = At("confirm", c, type, None)
    BY <1>18 DEF DispatchSet
  <2>3. c \in ran' /\ request'[c].kind \in {"set", "fdSet"} /\ sent' = sent
    BY <1>18 DEF DispatchSet, Taken, clientVars, replyVars
  <2> QED BY <2>1, <2>2, <2>3 DEF Dispatching, At
<1>19. ASSUME NEW w \in Threads, FinishAnswer(w) PROVE Dispatching'
  <2>0. PICK c : c = job[w].call /\ Answered(w, c)
    BY <1>19, FinishAnswerEffect
  <2>1. /\ c \in Calls /\ UNCHANGED <<clientVars, dispatch, ran>>
        /\ \A d \in Calls \ {c} : sent'[d] = sent[d]
        /\ pending[c] \in {"return", "error"} \/ UNCHANGED sent
    BY <2>0 DEF Answered
  <2>2. CASE UNCHANGED sent
    BY <1>1, <2>1, <2>2 DEF clientVars
  <2>3. CASE pending[c] \in {"return", "error"}
    <3>1. request[c].kind = "method" /\ UNCHANGED request
      BY <2>1, <2>3 DEF Kept, clientVars
    <3>2. dispatch.pc \in {"confirm", "fire", "firing"} =>
            dispatch.call \in Calls /\ dispatch.call # c
      BY <3>1 DEF Dispatching, TypeOK
    <3> QED BY <2>1, <3>1, <3>2 DEF Dispatching
  <2> QED BY <2>1, <2>2, <2>3
<1> QED
  BY StepOfNext, <1>2, <1>3, <1>4, <1>5, <1>6, <1>7, <1>8, <1>9, <1>10,
      <1>11, <1>12, <1>13, <1>14, <1>15, <1>16, <1>17, <1>18, <1>19 DEF Step

(* A step replies once, and leaves no call behind without a reply.         *)
LEMMA RepliedStep ==
  ASSUME TypeOK, WireOnce, Progress, Kept, Dispatching, Replied, [Next]_vars
  PROVE  Replied'
<1>1. ASSUME UNCHANGED <<request, dispatch, ran, sent, failed>> PROVE Replied'
  BY <1>1 DEF Replied
<1>2. CASE UNCHANGED vars
  BY <1>1, <1>2 DEF vars, clientVars, stubVars, replyVars
<1>3. CASE StatusChanges \/ ClientLost \/ ServiceLost
  BY <1>1, <1>3 DEF StatusChanges, ClientLost, ServiceLost, clientVars, stubVars, replyVars
<1>4. ASSUME NEW c \in Calls, Complete(c) PROVE Replied'
  BY <1>1, <1>4 DEF Complete, Finish, clientVars, stubVars, replyVars
<1>5. ASSUME NEW c \in Calls, Timeout(c) PROVE Replied'
  BY <1>1, <1>5 DEF Timeout, clientVars, stubVars, replyVars
<1>6. ASSUME NEW w \in Threads, NEW c \in Calls, AnswerBegun(w, c) PROVE Replied'
  BY <1>1, <1>6 DEF AnswerBegun, BeginAnswer, clientVars, stubVars,
      replyVars
<1>7. ASSUME NEW w \in Threads, NEW v \in Values, BeginChange(w, v) PROVE Replied'
  BY <1>1, <1>7 DEF BeginChange, clientVars, stubVars, replyVars
<1>8. ASSUME NEW w \in Threads, FinishChange(w) PROVE Replied'
  BY <1>1, <1>8 DEF FinishChange, clientVars, stubVars, replyVars
<1>9. CASE MethodReturns
  <2>1. request[dispatch.call].kind = "method" /\ dispatch.call \in ran
    BY <1>9 DEF MethodReturns, Dispatching
  <2>2. UNCHANGED <<request, ran, sent, failed>>
    BY <1>9 DEF MethodReturns, clientVars, replyVars
  <2> QED BY <2>1, <2>2 DEF Replied
<1>10. CASE ConfirmSet
  <2>1. /\ dispatch.call \in ran /\ dispatch.call \in Calls /\ value \in Values
        /\ sent[dispatch.call] = <<>>
    BY <1>10 DEF ConfirmSet, Dispatching, TypeOK
  <2>2. PICK ok \in Sendable : SendOrFail(dispatch.call, Message("return", value), ok)
    BY <1>10 DEF ConfirmSet
  <2>3. /\ \A d \in Calls \ {dispatch.call} : sent'[d] = sent[d]
        /\ Len(sent'[dispatch.call]) \in {0, 1} /\ (ok => Len(sent'[dispatch.call]) = 1)
        /\ failed' = IF ok THEN failed ELSE failed \cup {dispatch.call}
    BY <2>1, <2>2, FirstReplyEffect
  <2>4. UNCHANGED <<request, ran>>
    BY <1>10 DEF ConfirmSet, clientVars
  <2> QED BY <2>1, <2>3, <2>4 DEF Replied
<1>11. CASE ReadToFire
  <2>1. dispatch'.call = dispatch.call
    BY <1>11 DEF ReadToFire, TypeOK, JobType
  <2>2. UNCHANGED <<request, ran, sent, failed>>
    BY <1>11 DEF ReadToFire, clientVars, replyVars
  <2> QED BY <2>1, <2>2 DEF Replied
<1>12. CASE FireChanged
  <2>1. Len(sent[dispatch.call]) = 1
    BY <1>12 DEF FireChanged, Dispatching
  <2>2. UNCHANGED <<request, ran, sent, failed>>
    BY <1>12 DEF FireChanged, clientVars, replyVars
  <2> QED BY <2>1, <2>2 DEF Replied
<1>13. ASSUME NEW c \in Calls, Issued(c) PROVE Replied'
  <2>1. UNCHANGED <<request, dispatch, ran, sent, failed>>
    BY <1>13 DEF Issued, stubVars
  <2> QED BY <1>1, <2>1
<1>14. ASSUME NEW c \in Calls, Reject(c) PROVE Replied'
  <2>1. c \notin ran /\ sent[c] = <<>>
    BY <1>14, ReceivedEffect DEF Reject
  <2>2. /\ \A d \in Calls \ {c} : sent'[d] = sent[d]
        /\ sent'[c] = sent[c] \/ sent'[c] = Append(sent[c], Message("unhandled", None))
    <3>1. Arrive(c, Message("unhandled", None)) \/ UNCHANGED <<reply, sent>>
      BY <1>14 DEF Reject, Unhandled
    <3> QED BY <3>1, Records, ArriveEffect
  <2>3. Len(sent'[c]) \in {0, 1}
    <3>1. sent'[c] = <<>> \/ sent'[c] = <<Message("unhandled", None)>>
      BY <2>1, <2>2, FirstReply
    <3> QED BY <3>1, FirstReply
  <2>4. UNCHANGED <<request, dispatch, ran, failed>>
    BY <1>14 DEF Reject, clientVars, stubVars
  <2> QED BY <2>1, <2>2, <2>3, <2>4 DEF Replied
<1>15. ASSUME NEW c \in Calls, DispatchFire(c) PROVE Replied'
  <2>1. /\ ran' = ran \cup {c} /\ request[c].kind = "fire"
        /\ UNCHANGED <<request, dispatch, sent, failed>>
    BY <1>15 DEF DispatchFire, Taken, clientVars, replyVars
  <2> QED BY <2>1 DEF Replied
<1>16. ASSUME NEW c \in Calls, CallKept(c) PROVE Replied'
  <2>1. /\ ran' = ran \cup {c} /\ request[c].kind = "method"
        /\ dispatch = Idle /\ UNCHANGED <<request, sent, failed>>
    BY <1>16 DEF CallKept, KeepCall, Taken, Receiving, clientVars, replyVars
  <2>2. dispatch.call \notin Calls
    BY <2>1, ScenariosAssumption DEF Idle
  <2> QED BY <2>1, <2>2 DEF Replied
<1>17. ASSUME NEW c \in Calls, RepliedAtOnce(c) PROVE Replied'
  <2>1. c \notin ran /\ sent[c] = <<>>
    BY <1>17, ReceivedEffect DEF RepliedAtOnce, Taken
  <2>2. ran' = ran \cup {c} /\ UNCHANGED <<request, dispatch>>
    BY <1>17 DEF RepliedAtOnce, Taken, clientVars
  <2>3. PICK ok \in Sendable, v \in Values : SendOrFail(c, Message("return", v), ok)
    BY <1>17 DEF RepliedAtOnce
  <2>4. /\ \A d \in Calls \ {c} : sent'[d] = sent[d]
        /\ Len(sent'[c]) \in {0, 1} /\ (ok => Len(sent'[c]) = 1)
        /\ failed' = IF ok THEN failed ELSE failed \cup {c}
    BY <2>1, <2>3, FirstReplyEffect
  <2> QED BY <2>2, <2>4 DEF Replied
<1>18. ASSUME NEW c \in Calls, DispatchSet(c) PROVE Replied'
  <2>1. c \notin ran /\ sent[c] = <<>>
    BY <1>18, ReceivedEffect DEF DispatchSet, Taken
  <2>2. PICK type \in {"same", "changed"} : dispatch' = At("confirm", c, type, None)
    BY <1>18 DEF DispatchSet
  <2>3. /\ ran' = ran \cup {c} /\ dispatch = Idle /\ UNCHANGED <<request, sent, failed>>
    BY <1>18 DEF DispatchSet, Taken, Receiving, clientVars, replyVars
  <2>4. dispatch.call \notin Calls /\ dispatch'.call = c
    BY <2>2, <2>3, ScenariosAssumption DEF Idle, At
  <2> QED BY <2>1, <2>3, <2>4 DEF Replied
<1>19. ASSUME NEW w \in Threads, FinishAnswer(w) PROVE Replied'
  <2>0. PICK c : c = job[w].call /\ Answered(w, c)
    BY <1>19, FinishAnswerEffect
  <2>1. /\ c \in Calls /\ UNCHANGED <<clientVars, dispatch, ran>>
        /\ \A d \in Calls \ {c} : sent'[d] = sent[d]
        /\ \/ UNCHANGED <<sent, failed>>
           \/ /\ pending[c] \in {"return", "error"}
              /\ failed' = failed \cup {c} \/ failed' = failed
              /\ sent' = sent \/ sent'[c] = <<first[c]>>
    BY <2>0 DEF Answered
  <2>2. CASE UNCHANGED <<sent, failed>>
    BY <1>1, <2>1, <2>2 DEF clientVars
  <2>3. CASE /\ pending[c] \in {"return", "error"}
             /\ failed' = failed \cup {c} \/ failed' = failed
             /\ sent' = sent \/ sent'[c] = <<first[c]>>
    <3>1. request[c].kind = "method" /\ UNCHANGED request
      BY <2>1, <2>3 DEF Kept, clientVars
    <3>2. Len(sent'[c]) \in {0, 1}
      <4>1. Len(<<first[c]>>) = 1
        BY FirstReply
      <4> QED BY <2>1, <2>3, <4>1 DEF Replied
    <3> QED BY <2>1, <2>3, <3>1, <3>2 DEF Replied
  <2> QED BY <2>1, <2>2, <2>3
<1> QED
  BY StepOfNext, <1>2, <1>3, <1>4, <1>5, <1>6, <1>7, <1>8, <1>9, <1>10,
      <1>11, <1>12, <1>13, <1>14, <1>15, <1>16, <1>17, <1>18, <1>19 DEF Step

(* What came back for a call that was not replied to was not its reply.    *)
LEMMA NotRepliedYet ==
  ASSUME Origin, NEW c \in Calls, sent[c] = <<>>, reply[c] # None
  PROVE  reply[c].type \notin {"return", "error"}
<1>1. \A m : <<m>> # <<>>
  BY FirstReply
<1> QED BY <1>1 DEF Origin

(* A step keeps what is known of the origin of a reply.                    *)
LEMMA OriginStep ==
  ASSUME TypeOK, WireOnce, Progress, Kept, Dispatching, Origin, [Next]_vars
  PROVE  Origin'
<1>1. ASSUME UNCHANGED <<reply, wire, ran, failed, sent, first>> PROVE Origin'
  BY <1>1 DEF Origin, Travels
<1>2. CASE UNCHANGED vars
  BY <1>1, <1>2 DEF vars, stubVars, replyVars
<1>3. CASE StatusChanges \/ ClientLost \/ MethodReturns \/ ReadToFire
  BY <1>1, <1>3 DEF StatusChanges, ClientLost, MethodReturns, ReadToFire, stubVars, replyVars
<1>4. CASE FireChanged
  BY <1>1, <1>4 DEF FireChanged, stubVars, replyVars
<1>5. ASSUME NEW c \in Calls, Complete(c) PROVE Origin'
  BY <1>1, <1>5 DEF Complete, Finish, stubVars, replyVars
<1>6. ASSUME NEW w \in Threads, NEW v \in Values, BeginChange(w, v) PROVE Origin'
  BY <1>1, <1>6 DEF BeginChange, stubVars, replyVars
<1>7. ASSUME NEW w \in Threads, FinishChange(w) PROVE Origin'
  BY <1>1, <1>7 DEF FinishChange, stubVars, replyVars
<1>8. CASE ServiceLost
  <2>1. wire' = <<>> /\ UNCHANGED <<reply, ran, failed, sent, first>>
    BY <1>8 DEF ServiceLost, stubVars, replyVars
  <2>2. \A d : ~Travels(d)'
    BY <2>1 DEF Travels
  <2> QED BY <2>1, <2>2 DEF Origin
<1>9. CASE ConfirmSet
  <2> DEFINE c == dispatch.call
  <2>1. c \in ran /\ c \in Calls /\ value \in Values /\ sent[c] = <<>>
    BY <1>9 DEF ConfirmSet, Dispatching, TypeOK
  <2>2. PICK ok \in Sendable : SendOrFail(c, Message("return", value), ok)
    BY <1>9 DEF ConfirmSet
  <2>3. /\ \A d \in Calls \ {c} : reply'[d] = reply[d] /\ sent'[d] = sent[d]
        /\ \/ reply'[c] = reply[c]
           \/ /\ ok /\ reply'[c] = Message("return", value)
              /\ sent'[c] = <<reply'[c]>>
           \/ ~ok /\ reply'[c] = Message("unhandled", None)
        /\ failed' = IF ok THEN failed ELSE failed \cup {c}
    BY <2>1, <2>2, FirstReplyEffect
  <2>4. /\ UNCHANGED <<ran, first, wire>> /\ ~Travels(c)
        /\ \A d : Travels(d)' => Travels(d)
    BY <1>9, <2>1 DEF ConfirmSet, Progress, Travels
  <2>5. reply[c] # None => reply[c].type \notin {"return", "error"}
    BY <2>1, NotRepliedYet
  <2> HIDE DEF c
  <2> QED BY <2>1, <2>3, <2>4, <2>5, Records DEF Origin
<1>10. ASSUME NEW c \in Calls, Issued(c) PROVE Origin'
  <2>1. /\ ~Travels(c) /\ c \notin ran /\ reply[c] = None
        /\ \A d : Travels(d)' => Travels(d) \/ d = c
        /\ \A d \in Calls \ {c} : reply'[d] = reply[d]
    BY <1>10, IssuedEffect
  <2>2. UNCHANGED <<ran, first, sent, failed>>
    BY <1>10 DEF Issued, stubVars
  <2>3. \/ reply'[c] = None
        \/ reply'[c] = Message("unhandled", None) /\ ~Travels(c)'
    <3>1. reply' = reply \/ (wire' = wire /\ reply' = [reply EXCEPT ![c] = Message("unhandled", None)])
      BY <1>10 DEF Issued
    <3> QED BY <2>1, <3>1 DEF Travels, TypeOK
  <2> QED BY <2>1, <2>2, <2>3, Records DEF Origin
<1>11. ASSUME NEW c \in Calls, Timeout(c) PROVE Origin'
  <2>1. /\ reply' = [reply EXCEPT ![c] = Message("noReply", None)]
        /\ UNCHANGED <<wire, ran, failed, sent, first>>
    BY <1>11 DEF Timeout, stubVars
  <2> QED BY <2>1, Records DEF Origin, Travels, TypeOK
<1>12. ASSUME NEW c \in Calls, Reject(c) PROVE Origin'
  <2>1. /\ Travels(c) /\ c \notin ran /\ sent[c] = <<>>
        /\ ~Travels(c)' /\ \A d : Travels(d)' => Travels(d)
    BY <1>12, ReceivedEffect DEF Reject
  <2>2. /\ \A d \in Calls \ {c} : reply'[d] = reply[d] /\ sent'[d] = sent[d]
        /\ reply'[c] = reply[c] \/ reply'[c] = Message("unhandled", None)
    <3>1. Arrive(c, Message("unhandled", None)) \/ UNCHANGED <<reply, sent>>
      BY <1>12 DEF Reject, Unhandled
    <3> QED BY <3>1, Records, ArriveEffect
  <2>3. UNCHANGED <<ran, failed, first>>
    BY <1>12 DEF Reject, stubVars
  <2>4. reply[c] # None => reply[c].type \notin {"return", "error", "unhandled"}
    BY <2>1, NotRepliedYet DEF Origin
  <2> QED BY <2>1, <2>2, <2>3, <2>4, Records DEF Origin
<1>13. ASSUME NEW c \in Calls, DispatchFire(c) PROVE Origin'
  <2>1. /\ Travels(c) /\ c \notin ran /\ sent[c] = <<>>
        /\ ~Travels(c)' /\ \A d : Travels(d)' => Travels(d)
    BY <1>13, ReceivedEffect DEF DispatchFire, Taken
  <2>2. ran' = ran \cup {c} /\ UNCHANGED <<reply, first, sent, failed>>
    BY <1>13 DEF DispatchFire, Taken, replyVars
  <2>3. reply[c] # None => reply[c].type \notin {"return", "error", "unhandled"}
    BY <2>1, NotRepliedYet DEF Origin
  <2> QED BY <2>1, <2>2, <2>3 DEF Origin
<1>14. ASSUME NEW c \in Calls, CallKept(c) PROVE Origin'
  <2>1. /\ Travels(c) /\ c \notin ran /\ sent[c] = <<>>
        /\ ~Travels(c)' /\ \A d : Travels(d)' => Travels(d)
    BY <1>14, ReceivedEffect DEF CallKept, KeepCall, Taken
  <2>2. ran' = ran \cup {c} /\ UNCHANGED <<reply, first, sent, failed>>
    BY <1>14 DEF CallKept, KeepCall, Taken, replyVars
  <2>3. reply[c] # None => reply[c].type \notin {"return", "error", "unhandled"}
    BY <2>1, NotRepliedYet DEF Origin
  <2> QED BY <2>1, <2>2, <2>3 DEF Origin
<1>15. ASSUME NEW c \in Calls, RepliedAtOnce(c) PROVE Origin'
  <2>1. /\ Travels(c) /\ c \notin ran /\ sent[c] = <<>>
        /\ ~Travels(c)' /\ \A d : Travels(d)' => Travels(d)
    BY <1>15, ReceivedEffect DEF RepliedAtOnce, Taken
  <2>2. ran' = ran \cup {c} /\ UNCHANGED first
    BY <1>15 DEF RepliedAtOnce, Taken
  <2>3. PICK ok \in Sendable, v \in Values : SendOrFail(c, Message("return", v), ok)
    BY <1>15 DEF RepliedAtOnce
  <2>4. /\ \A d \in Calls \ {c} : reply'[d] = reply[d] /\ sent'[d] = sent[d]
        /\ \/ reply'[c] = reply[c]
           \/ /\ ok /\ reply'[c] = Message("return", v)
              /\ sent'[c] = <<reply'[c]>>
           \/ ~ok /\ reply'[c] = Message("unhandled", None)
        /\ failed' = IF ok THEN failed ELSE failed \cup {c}
    BY <2>1, <2>3, FirstReplyEffect
  <2>5. reply[c] # None => reply[c].type \notin {"return", "error", "unhandled"}
    BY <2>1, NotRepliedYet DEF Origin
  <2> QED BY <2>1, <2>2, <2>4, <2>5, Records DEF Origin
<1>16. ASSUME NEW c \in Calls, DispatchSet(c) PROVE Origin'
  <2>1. /\ Travels(c) /\ c \notin ran /\ sent[c] = <<>>
        /\ ~Travels(c)' /\ \A d : Travels(d)' => Travels(d)
    BY <1>16, ReceivedEffect DEF DispatchSet, Taken
  <2>2. ran' = ran \cup {c} /\ UNCHANGED <<reply, first, sent, failed>>
    BY <1>16 DEF DispatchSet, Taken, replyVars
  <2>3. reply[c] # None => reply[c].type \notin {"return", "error", "unhandled"}
    BY <2>1, NotRepliedYet DEF Origin
  <2> QED BY <2>1, <2>2, <2>3 DEF Origin
<1>17. ASSUME NEW w \in Threads, NEW c \in Calls, AnswerBegun(w, c) PROVE Origin'
  <2>1. /\ UNCHANGED <<wire, ran, failed, sent, reply>>
        /\ \A d \in Calls : first[d] # None => first'[d] = first[d]
    BY <1>17 DEF AnswerBegun, BeginAnswer, replyVars, TypeOK
  <2> QED BY <2>1 DEF Origin, Travels
<1>18. ASSUME NEW w \in Threads, FinishAnswer(w) PROVE Origin'
  <2>0. PICK c : c = job[w].call /\ Answered(w, c)
    BY <1>18, FinishAnswerEffect
  <2>1. /\ c \in ran /\ c \in Calls /\ UNCHANGED <<wire, ran, first>>
        /\ \A d \in Calls \ {c} : reply'[d] = reply[d] /\ sent'[d] = sent[d]
        /\ \/ UNCHANGED <<reply, sent, failed>>
           \/ /\ sent[c] = <<>> /\ first[c].type \in {"return", "error"}
              /\ \/ failed' = failed \cup {c} /\ UNCHANGED <<reply, sent>>
                 \/ /\ failed' = failed /\ sent'[c] = <<first[c]>>
                    /\ reply'[c] = reply[c] \/ reply'[c] = first[c]
    BY <2>0 DEF Answered
  <2>2. sent[c] = <<>> /\ reply[c] # None => reply[c].type \notin {"return", "error"}
    BY <2>1, NotRepliedYet
  <2>3. ~Travels(c) /\ \A d : Travels(d)' => Travels(d)
    BY <2>1 DEF Progress, Travels
  <2> QED BY <2>1, <2>2, <2>3 DEF Origin
<1> QED
  BY StepOfNext, <1>2, <1>3, <1>4, <1>5, <1>6, <1>7, <1>8, <1>9, <1>10,
      <1>11, <1>12, <1>13, <1>14, <1>15, <1>16, <1>17, <1>18 DEF Step

-----------------------------------------------------------------------------
(* Calls that are over.                                                    *)

(* Nothing is told about a call any more once it is over.                  *)
DoneStays ==
  \A d \in Calls : phase[d] = "done" =>
    /\ phase'[d] = "done" /\ reply'[d] = reply[d]
    /\ status'[d] = status[d] /\ result'[d] = result[d]
    /\ d \in told' <=> d \in told

(* A call is over when it is reported without being sent, or completed; it *)
(* reaches the stub from the wire; and connections do not come back.       *)
Onward ==
  /\ UNCHANGED request /\ (clientUp' => clientUp) /\ failed \subseteq failed'
  /\ \A d \in Calls :
       /\ d \in ran' => d \in ran \/ Travels(d)
       /\ phase'[d] = "done" => phase[d] = "done" \/ Issued(d) \/ Complete(d)
       /\ d \in told' => d \in told \/ Complete(d)

(* A call that is over stays as it is.                                      *)
LEMMA DoneStaysStep ==
  ASSUME TypeOK, WireOnce, Progress, Kept, Dispatching, [Next]_vars
  PROVE  DoneStays
<1>1. ASSUME UNCHANGED <<phase, status, result, told, reply>> PROVE DoneStays
  BY <1>1 DEF DoneStays
<1>2. CASE UNCHANGED vars
  BY <1>1, <1>2 DEF vars, clientVars, replyVars
<1>3. CASE StatusChanges \/ ClientLost \/ ServiceLost \/ MethodReturns
  BY <1>1, <1>3 DEF StatusChanges, ClientLost, ServiceLost, MethodReturns, clientVars, replyVars
<1>4. CASE ReadToFire \/ FireChanged
  BY <1>1, <1>4 DEF ReadToFire, FireChanged, clientVars, replyVars
<1>5. ASSUME NEW c \in Calls, DispatchFire(c) PROVE DoneStays
  BY <1>1, <1>5 DEF DispatchFire, Taken, clientVars, replyVars
<1>6. ASSUME NEW c \in Calls, CallKept(c) PROVE DoneStays
  BY <1>1, <1>6 DEF CallKept, KeepCall, Taken, clientVars, replyVars
<1>7. ASSUME NEW c \in Calls, DispatchSet(c) PROVE DoneStays
  BY <1>1, <1>7 DEF DispatchSet, Taken, clientVars, replyVars
<1>8. ASSUME NEW w \in Threads, NEW c \in Calls, AnswerBegun(w, c) PROVE DoneStays
  BY <1>1, <1>8 DEF AnswerBegun, BeginAnswer, clientVars, replyVars
<1>9. ASSUME NEW w \in Threads, NEW v \in Values, BeginChange(w, v) PROVE DoneStays
  BY <1>1, <1>9 DEF BeginChange, clientVars, replyVars
<1>10. ASSUME NEW w \in Threads, FinishChange(w) PROVE DoneStays
  BY <1>1, <1>10 DEF FinishChange, clientVars, replyVars
<1>11. CASE ConfirmSet
  <2>1. /\ dispatch.call \in Calls /\ value \in Values /\ sent[dispatch.call] = <<>>
        /\ UNCHANGED <<phase, status, result, told>>
    BY <1>11 DEF ConfirmSet, Dispatching, TypeOK, clientVars
  <2>2. PICK ok \in Sendable : SendOrFail(dispatch.call, Message("return", value), ok)
    BY <1>11 DEF ConfirmSet
  <2>3. \A d \in Calls : reply'[d] = reply[d] \/ phase[d] = "waiting"
    BY <2>1, <2>2, FirstReplyEffect
  <2> QED BY <2>1, <2>3 DEF DoneStays
<1>12. ASSUME NEW c \in Calls, Issued(c) PROVE DoneStays
  <2>1. /\ phase[c] # "done" /\ UNCHANGED told
        /\ \A d \in Calls \ {c} :
             /\ phase'[d] = phase[d] /\ status'[d] = status[d]
             /\ result'[d] = result[d] /\ reply'[d] = reply[d]
    BY <1>12, IssuedEffect DEF Issued
  <2> QED BY <2>1 DEF DoneStays
<1>13. ASSUME NEW c \in Calls, Complete(c) PROVE DoneStays
  <2>1. /\ phase[c] = "waiting" /\ UNCHANGED reply
        /\ told' = told \/ told' = told \cup {c}
        /\ \A d \in Calls \ {c} :
             phase'[d] = phase[d] /\ status'[d] = status[d] /\ result'[d] = result[d]
    BY <1>13 DEF Complete, Finish, TypeOK, replyVars
  <2> QED BY <2>1 DEF DoneStays
<1>14. ASSUME NEW c \in Calls, Timeout(c) PROVE DoneStays
  <2>1. /\ phase[c] = "waiting" /\ UNCHANGED <<phase, status, result, told>>
        /\ reply' = [reply EXCEPT ![c] = Message("noReply", None)]
    BY <1>14 DEF Timeout, clientVars
  <2> QED BY <2>1 DEF DoneStays, TypeOK
<1>15. ASSUME NEW c \in Calls, Reject(c) PROVE DoneStays
  <2>1. Arrive(c, Message("unhandled", None)) \/ UNCHANGED <<reply, sent>>
    BY <1>15 DEF Reject, Unhandled
  <2>2. \A d \in Calls : reply'[d] = reply[d] \/ phase[d] = "waiting"
    BY <2>1, Records, ArriveEffect
  <2>3. UNCHANGED <<phase, status, result, told>>
    BY <1>15 DEF Reject, clientVars
  <2> QED BY <2>2, <2>3 DEF DoneStays
<1>16. ASSUME NEW c \in Calls, RepliedAtOnce(c) PROVE DoneStays
  <2>1. c \notin ran /\ sent[c] = <<>>
    BY <1>16, ReceivedEffect DEF RepliedAtOnce, Taken
  <2>2. PICK ok \in Sendable, v \in Values : SendOrFail(c, Message("return", v), ok)
    BY <1>16 DEF RepliedAtOnce
  <2>3. \A d \in Calls : reply'[d] = reply[d] \/ phase[d] = "waiting"
    BY <2>1, <2>2, FirstReplyEffect
  <2>4. UNCHANGED <<phase, status, result, told>>
    BY <1>16 DEF RepliedAtOnce, Taken, clientVars
  <2> QED BY <2>3, <2>4 DEF DoneStays
<1>17. ASSUME NEW w \in Threads, FinishAnswer(w) PROVE DoneStays
  <2>1. /\ UNCHANGED clientVars
        /\ \A d \in Calls : reply'[d] = reply[d] \/ phase[d] = "waiting"
    BY <1>17, FinishAnswerEffect DEF Answered
  <2> QED BY <2>1 DEF DoneStays, clientVars
<1> QED
  BY StepOfNext, <1>2, <1>3, <1>4, <1>5, <1>6, <1>7, <1>8, <1>9, <1>10,
      <1>11, <1>12, <1>13, <1>14, <1>15, <1>16, <1>17 DEF Step

(* A step does not undo what happened.                                      *)
LEMMA OnwardStep ==
  ASSUME TypeOK, WireOnce, Progress, Kept, Dispatching, [Next]_vars
  PROVE  Onward
<1>1. ASSUME UNCHANGED <<phase, told, request, clientUp, failed, ran>> PROVE Onward
  BY <1>1 DEF Onward
<1>2. CASE UNCHANGED vars
  BY <1>1, <1>2 DEF vars, clientVars, stubVars, linkVars, replyVars
<1>3. CASE StatusChanges \/ ServiceLost \/ MethodReturns \/ ReadToFire
  BY <1>1, <1>3 DEF StatusChanges, ServiceLost, MethodReturns, ReadToFire, clientVars, stubVars, linkVars, replyVars
<1>4. CASE FireChanged
  BY <1>1, <1>4 DEF FireChanged, clientVars, stubVars, linkVars, replyVars
<1>5. ASSUME NEW c \in Calls, Timeout(c) PROVE Onward
  BY <1>1, <1>5 DEF Timeout, clientVars, stubVars, linkVars, replyVars
<1>6. ASSUME NEW c \in Calls, Reject(c) PROVE Onward
  BY <1>1, <1>6 DEF Reject, clientVars, stubVars, linkVars, replyVars
<1>7. ASSUME NEW w \in Threads, NEW c \in Calls, AnswerBegun(w, c) PROVE Onward
  BY <1>1, <1>7 DEF AnswerBegun, BeginAnswer, clientVars, stubVars,
      linkVars, replyVars
<1>8. ASSUME NEW w \in Threads, NEW v \in Values, BeginChange(w, v) PROVE Onward
  BY <1>1, <1>8 DEF BeginChange, clientVars, stubVars, linkVars, replyVars
<1>9. ASSUME NEW w \in Threads, FinishChange(w) PROVE Onward
  BY <1>1, <1>9 DEF FinishChange, clientVars, stubVars, linkVars, replyVars
<1>10. CASE ClientLost
  BY <1>10 DEF ClientLost, clientVars, stubVars, replyVars, Onward
<1>11. CASE ConfirmSet
  <2>1. /\ dispatch.call \in Calls /\ value \in Values /\ sent[dispatch.call] = <<>>
        /\ UNCHANGED <<phase, told, request, clientUp, ran>>
    BY <1>11 DEF ConfirmSet, Dispatching, TypeOK, clientVars, linkVars
  <2>2. failed \subseteq failed'
    BY <1>11, <2>1, FirstReplyEffect DEF ConfirmSet
  <2> QED BY <2>1, <2>2 DEF Onward
<1>12. ASSUME NEW c \in Calls, Issued(c) PROVE Onward
  <2>1. /\ UNCHANGED <<told, request, clientUp, failed, ran>>
        /\ \A d \in Calls \ {c} : phase'[d] = phase[d]
    BY <1>12, IssuedEffect DEF Issued, stubVars, linkVars
  <2> QED BY <1>12, <2>1 DEF Onward
<1>13. ASSUME NEW c \in Calls, Complete(c) PROVE Onward
  <2>1. /\ UNCHANGED <<request, clientUp, failed, ran>>
        /\ told' = told \/ told' = told \cup {c}
        /\ \A d \in Calls \ {c} : phase'[d] = phase[d]
    BY <1>13 DEF Complete, Finish, TypeOK, replyVars, stubVars, linkVars
  <2> QED BY <1>13, <2>1 DEF Onward
<1>14. ASSUME NEW c \in Calls, DispatchFire(c) PROVE Onward
  <2>1. Travels(c)
    BY <1>14, ReceivedEffect DEF DispatchFire, Taken
  <2> QED BY <1>14, <2>1 DEF DispatchFire, Taken, clientVars, linkVars, replyVars, Onward
<1>15. ASSUME NEW c \in Calls, CallKept(c) PROVE Onward
  <2>1. Travels(c)
    BY <1>15, ReceivedEffect DEF CallKept, Taken
  <2> QED BY <1>15, <2>1 DEF CallKept, KeepCall, Taken, clientVars, linkVars, replyVars, Onward
<1>16. ASSUME NEW c \in Calls, RepliedAtOnce(c) PROVE Onward
  <2>1. Travels(c) /\ sent[c] = <<>>
    BY <1>16, ReceivedEffect DEF RepliedAtOnce, Taken
  <2>2. failed \subseteq failed'
    BY <1>16, <2>1, FirstReplyEffect DEF RepliedAtOnce
  <2> QED BY <1>16, <2>1, <2>2 DEF RepliedAtOnce, Taken, clientVars, linkVars, Onward
<1>17. ASSUME NEW c \in Calls, DispatchSet(c) PROVE Onward
  <2>1. Travels(c)
    BY <1>17, ReceivedEffect DEF DispatchSet, Taken
  <2> QED BY <1>17, <2>1 DEF DispatchSet, Taken, clientVars, linkVars, replyVars, Onward
<1>18. ASSUME NEW w \in Threads, FinishAnswer(w) PROVE Onward
  <2>1. UNCHANGED <<clientVars, ran>> /\ failed \subseteq failed'
    BY <1>18, FinishAnswerEffect DEF Answered
  <2> QED BY <1>18, <2>1 DEF FinishAnswer, clientVars, linkVars, Onward
<1> QED
  BY StepOfNext, <1>2, <1>3, <1>4, <1>5, <1>6, <1>7, <1>8, <1>9, <1>10,
      <1>11, <1>12, <1>13, <1>14, <1>15, <1>16, <1>17, <1>18 DEF Step

(* A step keeps what the status of a call says.                            *)
LEMMA OverStep ==
  ASSUME TypeOK, WireOnce, Progress, Kept, Dispatching, Origin, Over, [Next]_vars
  PROVE  Over'
<1>1. DoneStays /\ Onward /\ \A d \in Calls : Travels(d)' => Travels(d) \/ Issued(d)
  BY DoneStaysStep, OnwardStep, WireStep
<1> DEFINE Says(d) ==
      /\ status[d] = "SUCCESS" /\ request[d].how # "send" /\ ~Unnoticed(d) =>
           /\ reply[d] # None /\ reply[d].type = "return"
           /\ request[d].outs /\ request[d].kind # "fdSet" => result[d] = reply[d].value
      /\ status[d] = "NOT_AVAILABLE" => ~Travels(d) /\ (d \notin ran \/ d \in failed)
      /\ status[d] = "OUT_OF_MEMORY" => ~Travels(d) /\ d \notin ran
      /\ reply[d] # None /\ reply[d].type = "error" /\ request[d].declared => d \in told
<1>2. ASSUME NEW d \in Calls, phase[d] = "done"
      PROVE  Says(d)' /\ (d \in told' => reply'[d] # None /\ reply'[d].type = "error")
  <2>1. ~Issued(d)
    BY <1>2 DEF Issued
  <2>2. /\ reply'[d] = reply[d] /\ status'[d] = status[d] /\ result'[d] = result[d]
        /\ (d \in told' <=> d \in told) /\ request'[d] = request[d]
    BY <1>1, <1>2 DEF DoneStays, Onward
  <2>3. /\ Travels(d)' => Travels(d)
        /\ ~Travels(d) /\ d \notin ran => d \notin ran'
        /\ ~Travels(d) /\ (d \notin ran \/ d \in failed) => d \notin ran' \/ d \in failed'
    BY <1>1, <2>1 DEF Onward
  <2>4. Unnoticed(d) => Unnoticed(d)'
    BY <1>1, <2>2 DEF Unnoticed, Onward
  <2>5. Says(d) /\ (d \in told => reply[d] # None /\ reply[d].type = "error")
    BY <1>2 DEF Over
  <2> QED BY <2>2, <2>3, <2>4, <2>5
<1>3. ASSUME NEW d \in Calls, Issued(d), phase'[d] = "done"
      PROVE  Says(d)' /\ d \notin told'
  <2>1. /\ ~Travels(d) /\ d \notin ran /\ reply[d] = None
    BY <1>3, IssuedEffect
  <2>2. /\ UNCHANGED <<request, told, ran, clientUp>>
        /\ status'[d] \in {"NOT_AVAILABLE", "OUT_OF_MEMORY"} => wire' = wire
        /\ reply' = reply
        /\ status'[d] = "SUCCESS" /\ request[d].how # "send" =>
             request[d].declared /\ ~request[d].outs /\ ~clientUp
    BY <1>3 DEF Issued, stubVars, linkVars
  <2>3. status'[d] \in {"NOT_AVAILABLE", "OUT_OF_MEMORY"} => ~Travels(d)'
    BY <2>1, <2>2 DEF Travels
  <2>4. d \notin told
    BY <1>3 DEF Over, Issued
  <2>5. status'[d] = "SUCCESS" /\ request'[d].how # "send" => Unnoticed(d)'
    BY <2>1, <2>2 DEF Unnoticed
  <2> QED BY <2>1, <2>2, <2>3, <2>4, <2>5
<1>4. ASSUME NEW d \in Calls, Complete(d)
      PROVE  Says(d)' /\ (d \in told' => reply'[d] # None /\ reply'[d].type = "error")
  <2> DEFINE r == request[d]
             m == reply[d]
             s == IF r.how = "sync" THEN SyncStatus(r, m) ELSE AsyncStatus(r, m)
  <2>1. m # None /\ phase[d] = "waiting" /\ d \notin told
    BY <1>4 DEF Complete, Over
  <2>2. m.type \in {"return", "error", "unhandled", "noReply"}
    BY <2>1 DEF TypeOK, ReplyType
  <2>3. /\ s = "SUCCESS" => m.type = "return"
        /\ s = "NOT_AVAILABLE" => m.type = "unhandled"
        /\ s # "OUT_OF_MEMORY" /\ s \in Statuses
        /\ ResultOf(r, m, s) \in {None, r.value, m.value}
    BY <2>2, StatusValues
  <2>4. s = "SUCCESS" /\ r.outs /\ r.kind # "fdSet" => ResultOf(r, m, s) = m.value
    BY DEF ResultOf
  <2>5. /\ Finish(d, s, ResultOf(r, m, s))
        /\ told' = IF m.type = "error" /\ r.declared THEN told \cup {d} ELSE told
        /\ UNCHANGED <<wire, ran, reply, failed>>
    BY <1>4 DEF Complete, stubVars, replyVars
  <2>6. status'[d] = s /\ result'[d] = ResultOf(r, m, s) /\ UNCHANGED request
    BY <2>5 DEF Finish, TypeOK
  <2>7. Travels(d)' <=> Travels(d)
    BY <2>5 DEF Travels
  <2>8. m.type = "unhandled" => ~Travels(d) /\ (d \notin ran \/ d \in failed)
    BY <2>1 DEF Origin
  <2>9. reply'[d] = m /\ request'[d] = r
    BY <2>5, <2>6
  <2> HIDE DEF r, m, s
  <2> QED BY <2>1, <2>3, <2>4, <2>5, <2>6, <2>7, <2>8, <2>9
<1>5. ASSUME NEW d \in Calls, phase'[d] = "done" PROVE Says(d)'
  BY <1>1, <1>2, <1>3, <1>4, <1>5 DEF Onward
<1>6. ASSUME NEW d \in Calls, d \in told'
      PROVE  phase'[d] = "done" /\ reply'[d] # None /\ reply'[d].type = "error"
  <2>1. CASE d \in told
    <3>1. phase[d] = "done"
      BY <2>1 DEF Over
    <3> QED BY <1>1, <1>2, <1>6, <3>1 DEF DoneStays
  <2>2. CASE Complete(d)
    <3>1. phase'[d] = "done"
      BY <2>2 DEF Complete, Finish, TypeOK
    <3> QED BY <1>4, <1>6, <2>2, <3>1
  <2> QED BY <1>1, <1>6, <2>1, <2>2 DEF Onward
<1> QED BY <1>5, <1>6 DEF Over

-----------------------------------------------------------------------------
(* The attribute and its observers.                                        *)

(* A step keeps the lock with the one who signals the attribute.           *)
LEMMA LockedStep ==
  ASSUME TypeOK, Dispatching, Locked, [Next]_vars
  PROVE  Locked'
<1>1. ASSUME UNCHANGED <<lock, job, dispatch, value>> PROVE Locked'
  BY <1>1 DEF Locked
<1>2. CASE UNCHANGED vars
  BY <1>1, <1>2 DEF vars, stubVars, attributeVars
<1>3. CASE StatusChanges \/ ClientLost \/ ServiceLost
  BY <1>1, <1>3 DEF StatusChanges, ClientLost, ServiceLost, stubVars, attributeVars
<1>4. ASSUME NEW c \in Calls, Complete(c) PROVE Locked'
  BY <1>1, <1>4 DEF Complete, Finish, stubVars, attributeVars
<1>5. ASSUME NEW c \in Calls, Timeout(c) PROVE Locked'
  BY <1>1, <1>5 DEF Timeout, stubVars, attributeVars
<1>6. ASSUME NEW c \in Calls, Reject(c) PROVE Locked'
  BY <1>1, <1>6 DEF Reject, stubVars, attributeVars
<1>7. ASSUME NEW c \in Calls, DispatchFire(c) PROVE Locked'
  BY <1>1, <1>7 DEF DispatchFire, Taken, stubVars, attributeVars
<1>8. CASE MethodReturns
  <2>1. dispatch'.pc # "firing" /\ dispatch.pc # "firing" /\ UNCHANGED <<lock, job>>
    BY <1>8 DEF MethodReturns, Idle, At, attributeVars
  <2> QED BY <2>1 DEF Locked
<1>9. CASE ConfirmSet
  <2>1. dispatch' = Idle \/ dispatch' = [dispatch EXCEPT !.pc = "fire"]
    BY <1>9 DEF ConfirmSet
  <2>2. dispatch'.pc # "firing" /\ dispatch.pc # "firing" /\ UNCHANGED <<lock, job>>
    BY <1>9, <2>1 DEF ConfirmSet, Idle, TypeOK, JobType
  <2> QED BY <2>2 DEF Locked
<1>10. CASE ReadToFire
  <2>1. /\ dispatch'.pc = "firing" /\ dispatch'.value = value /\ lock = None
        /\ lock' = Dispatcher /\ UNCHANGED <<value, job>>
    BY <1>10 DEF ReadToFire, TypeOK, JobType
  <2> QED BY <2>1, ScenariosAssumption DEF Locked
<1>11. CASE FireChanged
  <2>1. /\ dispatch.pc = "firing" /\ dispatch'.pc # "firing"
        /\ lock' = None /\ UNCHANGED job
    BY <1>11 DEF FireChanged, Idle
  <2> QED BY <2>1, ScenariosAssumption DEF Locked
<1>12. ASSUME NEW c \in Calls, Issued(c) PROVE Locked'
  <2>1. UNCHANGED <<lock, job, dispatch, value>>
    BY <1>12 DEF Issued, stubVars, attributeVars
  <2> QED BY <1>1, <2>1
<1>13. ASSUME NEW c \in Calls, CallKept(c) PROVE Locked'
  <2>1. dispatch'.pc # "firing" /\ dispatch.pc # "firing" /\ UNCHANGED <<lock, job>>
    BY <1>13 DEF CallKept, KeepCall, Taken, Receiving, Idle, At, attributeVars
  <2> QED BY <2>1 DEF Locked
<1>14. ASSUME NEW c \in Calls, RepliedAtOnce(c) PROVE Locked'
  <2>1. UNCHANGED <<lock, job, dispatch, value>>
    BY <1>14 DEF RepliedAtOnce, Taken, attributeVars
  <2> QED BY <1>1, <2>1
<1>15. ASSUME NEW c \in Calls, DispatchSet(c) PROVE Locked'
  <2>1. dispatch = Idle /\ \E type : dispatch' = At("confirm", c, type, None)
    BY <1>15 DEF DispatchSet, Taken, Receiving
  <2>2. dispatch'.pc # "firing" /\ dispatch.pc # "firing" /\ UNCHANGED <<lock, job>>
    BY <1>15, <2>1 DEF DispatchSet, Taken, Idle, At
  <2> QED BY <2>2 DEF Locked
<1>16. ASSUME NEW w \in Threads, NEW c \in Calls, AnswerBegun(w, c) PROVE Locked'
  <2>1. PICK type, v : job' = [job EXCEPT ![w] = At("answer", c, type, v)]
    BY <1>16 DEF AnswerBegun, BeginAnswer
  <2>2. job[w] = Idle /\ UNCHANGED <<lock, dispatch, value>>
    BY <1>16 DEF AnswerBegun, BeginAnswer, MayAct, attributeVars
  <2>3. \A u \in Threads : job'[u].pc = "change" <=> job[u].pc = "change"
    BY <2>1, <2>2 DEF TypeOK, Idle, At
  <2> QED BY <2>2, <2>3 DEF Locked, Threads
<1>17. ASSUME NEW w \in Threads, FinishAnswer(w) PROVE Locked'
  <2>1. /\ job[w].pc = "answer" /\ job' = [job EXCEPT ![w] = Idle]
        /\ UNCHANGED <<lock, dispatch, value>>
    BY <1>17 DEF FinishAnswer, attributeVars
  <2>2. \A u \in Threads : job'[u].pc = "change" <=> job[u].pc = "change"
    BY <2>1 DEF TypeOK, Idle
  <2> QED BY <2>1, <2>2 DEF Locked, Threads
<1>18. ASSUME NEW w \in Threads, NEW v \in Values, BeginChange(w, v) PROVE Locked'
  <2>1. /\ w \in Workers /\ job[w] = Idle /\ lock = None /\ lock' = w
        /\ job' = [job EXCEPT ![w] = At("change", None, "return", None)]
        /\ UNCHANGED dispatch
    BY <1>18 DEF BeginChange
  <2>2. /\ job'[w].pc = "change" /\ \A u \in Threads \ {w} : job'[u] = job[u]
    BY <2>1 DEF TypeOK, At
  <2>3. w # Dispatcher /\ None \notin Workers \cup {Dispatcher}
    BY <2>1, ScenariosAssumption
  <2> QED BY <2>1, <2>2, <2>3 DEF Locked, Threads
<1>19. ASSUME NEW w \in Threads, FinishChange(w) PROVE Locked'
  <2>1. /\ job[w].pc = "change" /\ lock' = None
        /\ job' = [job EXCEPT ![w] = Idle] /\ UNCHANGED <<dispatch, value>>
    BY <1>19 DEF FinishChange
  <2>2. /\ job'[w].pc # "change" /\ \A u \in Threads \ {w} : job'[u] = job[u]
    BY <2>1 DEF TypeOK, Idle
  <2>3. w \in Workers /\ lock = w /\ w # Dispatcher /\ None \notin Workers \cup {Dispatcher}
    BY <2>1, ScenariosAssumption DEF Locked, Threads
  <2> QED BY <2>1, <2>2, <2>3 DEF Locked, Threads
<1> QED
  BY StepOfNext, <1>2, <1>3, <1>4, <1>5, <1>6, <1>7, <1>8, <1>9, <1>10,
      <1>11, <1>12, <1>13, <1>14, <1>15, <1>16, <1>17, <1>18, <1>19 DEF Step

(* A step leaves no observer behind, or somebody is about to tell it.      *)
LEMMA ToldStep ==
  ASSUME TypeOK, Dispatching, Locked, Told, [Next]_vars
  PROVE  Told'
<1>1. ASSUME UNCHANGED <<serviceUp, unfired, fired, value, dispatch, job>> PROVE Told'
  BY <1>1 DEF Told
<1>2. CASE UNCHANGED vars
  BY <1>1, <1>2 DEF vars, stubVars, attributeVars, linkVars
<1>3. CASE StatusChanges \/ ClientLost
  BY <1>1, <1>3 DEF StatusChanges, ClientLost, stubVars, attributeVars, linkVars
<1>4. ASSUME NEW c \in Calls, Complete(c) PROVE Told'
  BY <1>1, <1>4 DEF Complete, Finish, stubVars, attributeVars, linkVars
<1>5. ASSUME NEW c \in Calls, Timeout(c) PROVE Told'
  BY <1>1, <1>5 DEF Timeout, stubVars, attributeVars, linkVars
<1>6. ASSUME NEW c \in Calls, Reject(c) PROVE Told'
  BY <1>1, <1>6 DEF Reject, stubVars, attributeVars, linkVars
<1>7. ASSUME NEW c \in Calls, DispatchFire(c) PROVE Told'
  BY <1>1, <1>7 DEF DispatchFire, Taken, stubVars, attributeVars, linkVars
<1>8. CASE ServiceLost
  BY <1>8 DEF ServiceLost, Told
<1>9. CASE MethodReturns
  <2>1. dispatch.pc = "method" /\ UNCHANGED <<serviceUp, unfired, fired, value, job>>
    BY <1>9 DEF MethodReturns, attributeVars, linkVars
  <2> QED BY <2>1 DEF Told
<1>10. CASE ConfirmSet
  <2>1. PICK ok \in Sendable :
          /\ dispatch' = IF ok /\ dispatch.type = "changed"
                         THEN [dispatch EXCEPT !.pc = "fire"] ELSE Idle
          /\ unfired' = (unfired \/ (~ok /\ dispatch.type = "changed"))
    BY <1>10 DEF ConfirmSet
  <2>2. UNCHANGED <<serviceUp, fired, value, job>> /\ dispatch.pc = "confirm"
    BY <1>10 DEF ConfirmSet, linkVars
  <2>3. CASE ok /\ dispatch.type = "changed"
    <3>1. dispatch'.pc = "fire"
      BY <2>1, <2>3 DEF TypeOK, JobType
    <3> QED BY <3>1 DEF Told
  <2>4. CASE ~ok /\ dispatch.type = "changed"
    BY <2>1, <2>4 DEF Told
  <2>5. CASE dispatch.type # "changed"
    <3>1. unfired' = unfired
      BY <2>1, <2>5 DEF TypeOK
    <3> QED BY <2>2, <2>5, <3>1 DEF Told
  <2> QED BY <2>3, <2>4, <2>5
<1>11. CASE ReadToFire
  <2>1. dispatch'.pc = "firing"
    BY <1>11 DEF ReadToFire, TypeOK, JobType
  <2> QED BY <2>1 DEF Told
<1>12. CASE FireChanged
  <2>1. /\ dispatch.value = value /\ UNCHANGED <<serviceUp, value>>
        /\ fired' = IF serviceUp THEN dispatch.value ELSE fired
    BY <1>12 DEF FireChanged, SendSignal, SendPropertiesChangedSignal, linkVars, Locked
  <2> QED BY <2>1 DEF Told
<1>13. ASSUME NEW c \in Calls, Issued(c) PROVE Told'
  <2>1. UNCHANGED <<serviceUp, unfired, fired, value, dispatch, job>>
    BY <1>13 DEF Issued, stubVars, attributeVars, linkVars
  <2> QED BY <1>1, <2>1
<1>14. ASSUME NEW c \in Calls, CallKept(c) PROVE Told'
  <2>1. dispatch = Idle /\ UNCHANGED <<serviceUp, unfired, fired, value, job>>
    BY <1>14 DEF CallKept, KeepCall, Taken, Receiving, attributeVars, linkVars
  <2>2. dispatch.pc = "idle"
    BY <2>1 DEF Idle
  <2> QED BY <2>1, <2>2 DEF Told
<1>15. ASSUME NEW c \in Calls, RepliedAtOnce(c) PROVE Told'
  <2>1. UNCHANGED <<serviceUp, unfired, fired, value, dispatch, job>>
    BY <1>15 DEF RepliedAtOnce, Taken, attributeVars, linkVars
  <2> QED BY <1>1, <2>1
<1>16. ASSUME NEW c \in Calls, DispatchSet(c) PROVE Told'
  <2>1. dispatch = Idle /\ UNCHANGED <<serviceUp, unfired, fired, job>>
    BY <1>16 DEF DispatchSet, Taken, Receiving, linkVars
  <2>2. dispatch.pc = "idle"
    BY <2>1 DEF Idle
  <2>3. CASE value' = value
    BY <2>1, <2>2, <2>3 DEF Told
  <2>4. CASE value' # value
    <3>1. dispatch' = At("confirm", c, "changed", None)
      BY <1>16, <2>4 DEF DispatchSet
    <3>2. dispatch'.pc = "confirm" /\ dispatch'.type = "changed"
      BY <3>1 DEF At
    <3> QED BY <3>2 DEF Told
  <2> QED BY <2>3, <2>4
<1>17. ASSUME NEW w \in Threads, NEW c \in Calls, AnswerBegun(w, c) PROVE Told'
  <2>1. PICK type, v : job' = [job EXCEPT ![w] = At("answer", c, type, v)]
    BY <1>17 DEF AnswerBegun, BeginAnswer
  <2>2. job[w] = Idle /\ UNCHANGED <<serviceUp, unfired, fired, value, dispatch>>
    BY <1>17 DEF AnswerBegun, BeginAnswer, MayAct, attributeVars, linkVars
  <2>3. \A u \in Threads : job'[u].pc = "change" <=> job[u].pc = "change"
    BY <2>1, <2>2 DEF TypeOK, Idle, At
  <2> QED BY <2>2, <2>3 DEF Told, Threads
<1>18. ASSUME NEW w \in Threads, FinishAnswer(w) PROVE Told'
  <2>1. /\ job[w].pc = "answer" /\ job' = [job EXCEPT ![w] = Idle]
        /\ UNCHANGED <<serviceUp, unfired, fired, value, dispatch>>
    BY <1>18 DEF FinishAnswer, attributeVars, linkVars
  <2>2. \A u \in Threads : job'[u].pc = "change" <=> job[u].pc = "change"
    BY <2>1 DEF TypeOK, Idle
  <2> QED BY <2>1, <2>2 DEF Told, Threads
<1>19. ASSUME NEW w \in Threads, NEW v \in Values, BeginChange(w, v) PROVE Told'
  <2>1. w \in Workers /\ job'[w].pc = "change"
    BY <1>19 DEF BeginChange, TypeOK, At
  <2> QED BY <2>1 DEF Told
<1>20. ASSUME NEW w \in Threads, FinishChange(w) PROVE Told'
  <2>1. fired' = (IF serviceUp THEN value ELSE fired) /\ UNCHANGED <<serviceUp, value>>
    BY <1>20 DEF FinishChange, SendSignal, linkVars
  <2> QED BY <2>1 DEF Told
<1> QED
  BY StepOfNext, <1>2, <1>3, <1>4, <1>5, <1>6, <1>7, <1>8, <1>9, <1>10,
      <1>11, <1>12, <1>13, <1>14, <1>15, <1>16, <1>17, <1>18, <1>19, <1>20 DEF Step

-----------------------------------------------------------------------------
(* The inductive invariant.                                                *)

(* It holds at the start.                                                  *)
LEMMA InitInv == Init => Inv
<1> SUFFICES ASSUME Init PROVE Inv
  OBVIOUS
<1>1. TypeOK
  BY InitTypeOK
<1>2. /\ wire = <<>> /\ ran = {} /\ told = {} /\ dispatch = Idle
      /\ \A c \in Calls : /\ phase[c] = "new" /\ reply[c] = None /\ sent[c] = <<>>
                          /\ pending[c] = "none" /\ first[c] = None
      /\ \A w \in Threads : job[w] = Idle
      /\ lock = None /\ fired = value
  BY DEF Init
<1>3. /\ \A i \in 1 .. Len(wire) : FALSE
      /\ Len(<<>>) = 0
  BY <1>2
<1>4. WireOnce /\ Progress
  BY <1>2, <1>3 DEF WireOnce, Progress, Travels
<1>5. Kept /\ Dispatching
  BY <1>2 DEF Kept, Dispatching, Idle
<1>6. Replied /\ Origin /\ Over
  BY <1>2, <1>3 DEF Replied, Origin, Over
<1>7. Locked /\ Told
  <2>1. None \notin Workers \cup {Dispatcher}
    BY ScenariosAssumption
  <2> QED BY <1>2, <2>1 DEF Locked, Told, Threads, Idle
<1> QED BY <1>1, <1>4, <1>5, <1>6, <1>7 DEF Inv

(* Every step keeps it.                                                    *)
LEMMA StepInv == Inv /\ [Next]_vars => Inv'
BY StepTypeOK, WireStep, ProgressStep, KeptStep, DispatchingStep, RepliedStep,
   OriginStep, OverStep, LockedStep, ToldStep DEF Inv

(* It holds in every reachable state.                                      *)
LEMMA Invariant == Spec => []Inv
BY InitInv, StepInv, PTL DEF Spec

-----------------------------------------------------------------------------
(* What follows from it.                                                   *)

(* The state is well-formed in every reachable state.                      *)
THEOREM TypeCorrect == Spec => []TypeOK
<1>1. Inv => TypeOK
  BY DEF Inv
<1> QED BY <1>1, Invariant, PTL

(* A call gets one reply at most, a method's reply is the stub's first     *)
(* answer, and what reached the stub does not stay without a reply.        *)
LEMMA RepliesExactHolds == Inv => RepliesExact
<1> SUFFICES ASSUME Inv, NEW c \in Calls
             PROVE  /\ Len(sent[c]) <= 1
                    /\ (c \in ran /\ request[c].kind = "method" /\ c \notin contested) =>
                         /\ pending[c] = "none" =>
                               first[c] # None /\ (c \in failed \/ sent[c] = <<first[c]>>)
                         /\ pending[c] # "none" => sent[c] = <<>>
                         /\ pending[c] \in {"return", "error"} => Answering(c)
                         /\ pending[c] # "stray"
                    /\ c \in ran /\ request[c].kind \notin {"fire", "method"} /\ dispatch.call # c =>
                         c \in failed \/ Len(sent[c]) = 1
  BY DEF RepliesExact
<1>1. Len(sent[c]) \in {0, 1}
  BY DEF Inv, Replied
<1>2. \A n \in {0, 1} : n <= 1
  OBVIOUS
<1>3. Len(sent[c]) <= 1
  BY ONLY <1>1, <1>2
<1> QED BY <1>3 DEF Inv, Kept, Replied

(* A status says what happened to the call.                                *)
LEMMA StatusesTrueHold == Inv => StatusesTrue
<1> SUFFICES ASSUME Inv, NEW c \in Calls, phase[c] = "done"
             PROVE  /\ status[c] = "SUCCESS" /\ request[c].how # "send" /\ ~Unnoticed(c) =>
                         /\ c \in ran /\ Len(sent[c]) = 1 /\ sent[c][1].type = "return"
                         /\ request[c].outs /\ request[c].kind # "fdSet" => result[c] = sent[c][1].value
                    /\ status[c] = "NOT_AVAILABLE" =>
                         /\ c \notin ran \/ c \in failed
                         /\ \A i \in 1 .. Len(wire) : wire[i] # c
                    /\ status[c] = "OUT_OF_MEMORY" => c \notin ran
                    /\ c \in told => sent[c] = <<first[c]>> /\ first[c].type = "error"
                    /\ reply[c] # None /\ reply[c].type = "error" /\ request[c].declared => c \in told
  BY DEF StatusesTrue
<1>1. ASSUME reply[c] # None, reply[c].type \in {"return", "error"}
      PROVE  /\ c \in ran /\ Len(sent[c]) = 1 /\ sent[c][1] = reply[c]
             /\ sent[c] = <<reply[c]>>
             /\ reply[c].type = "error" => reply[c] = first[c]
  BY <1>1, FirstReply DEF Inv, Origin
<1> QED BY <1>1 DEF Inv, Over, Travels

(* What a caller is told is what came of the call.                         *)
THEOREM CallersToldTheTruth == Spec => []AnswersTrue
<1>1. Inv => AnswersTrue
  BY RepliesExactHolds, StatusesTrueHold DEF AnswersTrue
<1> QED BY <1>1, Invariant, PTL

(* The observers know the attribute's value when nobody is changing it.    *)
THEOREM ObserversKnowTheValue == Spec => []ObserversAgree
<1>1. Inv => ObserversAgree
  BY DEF Inv, Told, ObserversAgree, Threads
<1> QED BY <1>1, Invariant, PTL

(* What a caller has been told about a call is final: neither a late reply *)
(* nor a second answer changes the status, the result or the error event.  *)
THEOREM OutcomeFinal == Spec => [][DoneStays]_vars
<1>1. Inv /\ [Next]_vars => [DoneStays]_vars
  BY DoneStaysStep DEF Inv
<1> QED BY <1>1, Invariant, PTL DEF Spec
=============================================================================
