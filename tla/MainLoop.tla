------------------------------ MODULE MainLoop ------------------------------
(***************************************************************************)
(* DBusMainLoop and the sources and watches that connections attach to it. *)
(*                                                                         *)
(* One thread runs the loop.  Application threads attach connections, push *)
(* replies to the queue of a connection, have libdbus toggle its write     *)
(* watch, register timeouts, disconnect and drop their references; the     *)
(* callbacks of the loop do the same from inside.  What a thread still has *)
(* to do is the sequence todo[t] of elementary operations, each under one  *)
(* mutex of the loop: all interleavings of them with the loop are steps.   *)
(*                                                                         *)
(* All sources have the default priority, so that the multimaps are        *)
(* sequences in the order of registration; the sets ...ToDispatch_ are     *)
(* ordered by address, that is in any order.  No callback runs an          *)
(* iteration of its own: isExecuted_ and the membership test of the        *)
(* ...ToDispatch_ sets are FALSE whenever the loop deletes objects.        *)
(***************************************************************************)
EXTENDS Naturals, Sequences, FiniteSets

CONSTANTS Connections, Roles, Entries, Timeouts, None, Loop,
          MaxMessages,    \* bound: messages the bus sends to a connection
          MaxToggles,     \* bound: write watches libdbus enables
          MaxBegun        \* bound: operations begun by applications and bus

ASSUME MainLoopAssumption ==
  /\ Roles \subseteq {"user", "sender"}
  /\ MaxMessages \in Nat /\ MaxToggles \in Nat /\ MaxBegun \in Nat
  /\ None \notin Connections \cup Entries \cup Timeouts

VARIABLES
  registered,     \* registeredDispatchSources_, ...Watches_, ...Timeouts_
  managed,        \* managedFileDescriptors_ without the wakeup descriptor
  freed,          \* sources, watches and timeouts that were deleted
  toDispatch,     \* sourcesToDispatch_, watchesToDispatch_, timeoutsToDispatch_
  wakeFd,         \* the eventfd of wakeup() is readable
  isBroken, hasToStop,
  loop,           \* the loop thread: [pc, obj, held, entry, more, polled, ready]
  todo,           \* what each thread has still to do
  conn,           \* each connection: attached, references, dispatch flags
  socket, inbox,  \* unread data, and libdbus' queue of received messages
  writeOn,        \* the enabled write watch (0: none) and those made so far
  queue, eventFd, \* DBusQueueWatch::queue_ and its eventfd
  entry,          \* what became of each queue entry
  timeout,        \* each timeout: due, timeoutElapsed_, fired
  begun           \* how many operations were begun

listVars == <<registered, managed, freed, toDispatch>>
flagVars == <<wakeFd, isBroken, hasToStop>>
busVars == <<socket, inbox, writeOn>>
queueVars == <<queue, eventFd, entry>>
vars == <<listVars, flagVars, loop, todo, conn, busVars, queueVars, timeout, begun>>

Threads == (Connections \X Roles) \cup {Loop}
Lists == {"sources", "watches", "timeouts"}

---------------------------------------------------------------------------
(* Objects, and the programs of elementary operations made of them.        *)

QueueSource(c) == <<"queueSource", c, 0>>
BusSource(c) == <<"busSource", c, 0>>
QueueWatch(c) == <<"queueWatch", c, 0>>
ReadWatch(c) == <<"readWatch", c, 0>>
WriteWatch(c, n) == <<"writeWatch", c, n>>
TimeoutOf(t) == <<"timeout", t, 0>>

SourceObjects == {QueueSource(c) : c \in Connections} \cup {BusSource(c) : c \in Connections}
WatchObjects == {QueueWatch(c) : c \in Connections} \cup {ReadWatch(c) : c \in Connections}
                  \cup {WriteWatch(c, n) : c \in Connections, n \in 1..MaxToggles}
TimeoutObjects == {TimeoutOf(t) : t \in Timeouts}
Objects == SourceObjects \cup WatchObjects \cup TimeoutObjects

ListOf(o) == IF o \in SourceObjects THEN "sources"
             ELSE IF o \in WatchObjects THEN "watches" ELSE "timeouts"
Fd(w) == <<w[1], w[2]>>

Op(name, on) == [op |-> name, on |-> on]
RegisterWatch(w) == <<Op("manage", w), Op("register", w)>>
UnregisterWatch(w) == <<Op("wakeup", w), Op("unmanage", w), Op("unregister", w)>>

(* DBusWatch of an enabled watch of libdbus: with its descriptor and flags. *)
StartWatching(w) == RegisterWatch(w)
StopWatching(w) == UnregisterWatch(w)

(* attachMainLoopContext: dbus_connection_set_watch_functions has libdbus  *)
(* call onAddWatch for its read watch.                                     *)
Attaching(c) ==
  <<Op("register", QueueSource(c))>> \o RegisterWatch(QueueWatch(c))
    \o <<Op("register", BusSource(c))>> \o StartWatching(ReadWatch(c))
    \o <<Op("attached", c)>>

(* Wrong: the queue watch before its source.                               *)
DestroyingWatchFirst(c) ==
  <<Op("removeWatches", c)>> \o UnregisterWatch(QueueWatch(c))
    \o <<Op("unregister", QueueSource(c)), Op("unregister", BusSource(c))>>

(* ~DBusConnection: removes the watches of libdbus, unless disconnect()    *)
(* has, then the sources and the queue watch.                              *)
Destroying(c) ==
  <<Op("removeWatches", c), Op("unregister", QueueSource(c)), Op("unregister", BusSource(c))>>
    \o UnregisterWatch(QueueWatch(c))

(* Wrong: the wakeup before the flag.                                      *)
StoppingLate == <<Op("wakeup", None), Op("stop", None)>>

Stopping == <<Op("stop", None), Op("wakeup", None)>>

(* Wrong: does not wait for the dispatch to end.                           *)
DisconnectingAtOnce(c, t) ==
  <<Op("disconnect", c)>> \o (IF conn[c].ownThread THEN Stopping ELSE <<>>)
    \o <<Op("removeWatches", c), Op("closed", c)>>

(* disconnect() as far as the loop is concerned.  It waits for the end of  *)
(* a dispatch, and joins the dispatch thread, only from another thread.    *)
Disconnecting(c, t) ==
  <<Op("disconnect", c)>>
    \o (IF t = Loop THEN <<>> ELSE <<Op("awaitDispatch", c)>>)
    \o (IF conn[c].ownThread THEN Stopping ELSE <<>>)
    \o (IF conn[c].ownThread /\ t # Loop THEN <<Op("join", c)>> ELSE <<>>)
    \o <<Op("removeWatches", c), Op("closed", c)>>

Pushing(e, c) == <<Op("push", <<e, c>>), Op("signal", c)>>

---------------------------------------------------------------------------
(* The lists of the loop.                                                  *)

Deleted(o) == \E i \in 1..Len(registered[ListOf(o)]) :
                registered[ListOf(o)][i] = [obj |-> o, deleteObject |-> TRUE]
Live(list) == {o \in Objects : \E i \in 1..Len(registered[list]) :
                 registered[list][i] = [obj |-> o, deleteObject |-> FALSE]}

(* One pass of doSingleIteration over a list: an element to be deleted is  *)
(* erased, and the iterator then steps over the element that follows it.   *)
AfterReaping(s) ==
  LET rest[i \in 1..(Len(s) + 2)] ==
        IF i > Len(s) THEN <<>>
        ELSE IF s[i].deleteObject
               THEN (IF i < Len(s) THEN <<s[i + 1]>> ELSE <<>>) \o rest[i + 2]
        ELSE <<s[i]>> \o rest[i + 1]
  IN rest[1]
ObjectsIn(s) == {s[i].obj : i \in 1..Len(s)}
Reaped(s) == ObjectsIn(s) \ ObjectsIn(AfterReaping(s))

(* deleteObject_ of the first element with this object.                    *)
Unregistered(s, o) ==
  IF o \notin ObjectsIn(s) THEN s
  ELSE LET i == CHOOSE j \in 1..Len(s) :
                  /\ s[j].obj = o
                  /\ \A k \in 1..(j - 1) : s[k].obj # o
       IN [s EXCEPT ![i].deleteObject = TRUE]

---------------------------------------------------------------------------
(* Connections.  DBusDispatchSource, DBusWatch and DBusQueueWatch keep a   *)
(* weak_ptr; the dispatch thread of a connection holds a reference itself. *)

HeldByLoop(c) == \/ loop.held = c
                 \/ conn[c].ownThread /\ conn[c].attached /\ loop.pc # "stopped"
Referenced(c) == conn[c].refs # {} \/ HeldByLoop(c)

(* setDispatching(true).  Only the loop thread sets the flag.              *)
MayDispatch(c) == Referenced(c) /\ ~conn[c].disconnecting

(* isDispatchReady and emptyQueue.                                         *)
Ready(s) == IF s[1] = "busSource" THEN MayDispatch(s[2]) /\ ~conn[s[2]].closed /\ inbox[s[2]] > 0
            ELSE queue[s[2]] # <<>>

(* libdbus does not change its watches in two threads at once.             *)
Toggling(c) == \E t \in Threads : \E i \in 1..Len(todo[t]) :
                 /\ todo[t][i].op \in {"manage", "register", "unmanage", "unregister"}
                 /\ todo[t][i].on[1] = "writeWatch" /\ todo[t][i].on[2] = c

FdReady(f) == CASE f[1] = "queueWatch" -> eventFd[f[2]] > 0
                [] f[1] = "readWatch" -> socket[f[2]] > 0
                [] f[1] = "writeWatch" -> TRUE

---------------------------------------------------------------------------
At(pc) == [loop EXCEPT !.pc = pc]

Init ==
  /\ registered = [l \in Lists |-> <<>>]
  /\ managed = {} /\ freed = {}
  /\ toDispatch = [l \in Lists |-> {}]
  /\ wakeFd = FALSE /\ isBroken = FALSE /\ hasToStop = FALSE
  /\ loop = [pc |-> "reap", obj |-> None, held |-> None, entry |-> None,
             more |-> FALSE, polled |-> {}, ready |-> {}, counted |-> {}]
  /\ todo = [t \in Threads |-> <<>>]
  /\ \E own \in BOOLEAN :
       /\ own => Cardinality(Connections) = 1
       /\ conn = [c \in Connections |->
                    [attached |-> FALSE, refs |-> Roles, ownThread |-> own,
                     disconnecting |-> FALSE, dispatching |-> FALSE, closed |-> FALSE]]
  /\ socket = [c \in Connections |-> 0] /\ inbox = [c \in Connections |-> 0]
  /\ writeOn = [c \in Connections |-> [on |-> 0, made |-> 0]]
  /\ queue = [c \in Connections |-> <<>>] /\ eventFd = [c \in Connections |-> 0]
  /\ entry = [e \in Entries |-> "new"]
  /\ timeout = [t \in Timeouts |-> [due |-> FALSE, elapsed |-> FALSE, fired |-> FALSE]]
  /\ begun = 0

---------------------------------------------------------------------------
(* Elementary operations: thread t does the first thing it has to do.      *)

Doing(t, op) == todo[t] # <<>> /\ Head(todo[t]).op = op
Done(t) == todo' = [todo EXCEPT ![t] = Tail(@)]
On(t) == Head(todo[t]).on

(* registerDispatchSource, registerTimeout and the end of registerWatch.   *)
Register(t) ==
  /\ Doing(t, "register")
  /\ registered' = [registered EXCEPT ![ListOf(On(t))] =
                      Append(@, [obj |-> On(t), deleteObject |-> FALSE])]
  /\ Done(t)
  /\ UNCHANGED <<managed, freed, toDispatch, flagVars, loop, conn, busVars, queueVars, timeout, begun>>

RegisterFileDescriptor(t) ==
  /\ Doing(t, "manage")
  /\ managed' = managed \cup {Fd(On(t))}
  /\ Done(t)
  /\ UNCHANGED <<registered, freed, toDispatch, flagVars, loop, conn, busVars, queueVars, timeout, begun>>

(* unregisterFileDescriptor after its wakeup.                              *)
UnregisterFileDescriptor(t) ==
  /\ Doing(t, "unmanage")
  /\ managed' = managed \ {Fd(On(t))}
  /\ Done(t)
  /\ UNCHANGED <<registered, freed, toDispatch, flagVars, loop, conn, busVars, queueVars, timeout, begun>>

(* Wrong: deletes the object instead of leaving that to the loop.          *)
UnregisterAndDelete(t) ==
  /\ Doing(t, "unregister")
  /\ freed' = freed \cup {On(t)}
  /\ registered' = [registered EXCEPT ![ListOf(On(t))] = SelectSeq(@, LAMBDA e : e.obj # On(t))]
  /\ isBroken' = (isBroken \/ On(t) \in SourceObjects)
  /\ Done(t)
  /\ UNCHANGED <<managed, toDispatch, wakeFd, hasToStop, loop, conn, busVars, queueVars, timeout, begun>>

(* unregisterDispatchSource, unregisterTimeout, the end of unregisterWatch. *)
Unregister(t) ==
  /\ Doing(t, "unregister")
  /\ registered' = [registered EXCEPT ![ListOf(On(t))] = Unregistered(@, On(t))]
  /\ isBroken' = (isBroken \/ On(t) \in SourceObjects)
  /\ Done(t)
  /\ UNCHANGED <<managed, freed, toDispatch, wakeFd, hasToStop, loop, conn, busVars, queueVars, timeout, begun>>

Wakeup(t) ==
  /\ Doing(t, "wakeup")
  /\ wakeFd' = TRUE
  /\ Done(t)
  /\ UNCHANGED <<listVars, isBroken, hasToStop, loop, conn, busVars, queueVars, timeout, begun>>

(* DBusMainLoop::stop before its wakeup.                                   *)
Stop(t) ==
  /\ Doing(t, "stop")
  /\ hasToStop' = TRUE
  /\ Done(t)
  /\ UNCHANGED <<listVars, wakeFd, isBroken, loop, conn, busVars, queueVars, timeout, begun>>

(* DBusQueueWatch::pushQueue: into the queue, then the write to eventFd_.  *)
Push(t) ==
  /\ Doing(t, "push")
  /\ LET e == On(t)[1]  c == On(t)[2]
     IN /\ queue' = [queue EXCEPT ![c] = Append(@, e)]
        /\ entry' = [entry EXCEPT ![e] = "queued"]
  /\ Done(t)
  /\ UNCHANGED <<listVars, flagVars, loop, conn, busVars, eventFd, timeout, begun>>

Signal(t) ==
  /\ Doing(t, "signal")
  /\ eventFd' = [eventFd EXCEPT ![On(t)] = @ + 1]
  /\ Done(t)
  /\ UNCHANGED <<listVars, flagVars, loop, conn, busVars, queue, entry, timeout, begun>>

(* attachMainLoopContext has returned.                                     *)
Attached(t) ==
  /\ Doing(t, "attached")
  /\ conn' = [conn EXCEPT ![On(t)].attached = TRUE]
  /\ Done(t)
  /\ UNCHANGED <<listVars, flagVars, loop, busVars, queueVars, timeout, begun>>

(* disconnect(): isDisconnecting_ = true.                                  *)
Disconnect(t) ==
  /\ Doing(t, "disconnect")
  /\ conn' = [conn EXCEPT ![On(t)].disconnecting = TRUE]
  /\ Done(t)
  /\ UNCHANGED <<listVars, flagVars, loop, busVars, queueVars, timeout, begun>>

(* ... waits on dispatchCondition_ until isDispatching_ is FALSE ...       *)
AwaitDispatch(t) ==
  /\ Doing(t, "awaitDispatch")
  /\ ~conn[On(t)].dispatching
  /\ Done(t)
  /\ UNCHANGED <<listVars, flagVars, loop, conn, busVars, queueVars, timeout, begun>>

(* ... dispatchThread_->join() ...                                         *)
Join(t) ==
  /\ Doing(t, "join")
  /\ loop.pc = "stopped"
  /\ Done(t)
  /\ UNCHANGED <<listVars, flagVars, loop, conn, busVars, queueVars, timeout, begun>>

(* ... dbus_connection_set_watch_functions without functions: libdbus      *)
(* calls onRemoveWatch for its watches that are enabled.                   *)
RemoveWatches(t) ==
  /\ Doing(t, "removeWatches")
  /\ LET c == On(t)
     IN /\ ~Toggling(c)
        /\ todo' = [todo EXCEPT ![t] =
                      (IF conn[c].closed THEN <<>>
                       ELSE StopWatching(ReadWatch(c))
                              \o (IF writeOn[c].on = 0 THEN <<>>
                                  ELSE StopWatching(WriteWatch(c, writeOn[c].on))))
                      \o Tail(@)]
        /\ writeOn' = [writeOn EXCEPT ![c].on = 0]
  /\ UNCHANGED <<listVars, flagVars, loop, conn, socket, inbox, queueVars, timeout, begun>>

(* ... and connection_ = nullptr.                                          *)
Closed(t) ==
  /\ Doing(t, "closed")
  /\ conn' = [conn EXCEPT ![On(t)].closed = TRUE]
  /\ Done(t)
  /\ UNCHANGED <<listVars, flagVars, loop, busVars, queueVars, timeout, begun>>

Elementary(t) ==
  \/ Register(t) \/ RegisterFileDescriptor(t) \/ UnregisterFileDescriptor(t)
  \/ Unregister(t) \/ Wakeup(t) \/ Stop(t) \/ Push(t) \/ Signal(t) \/ Attached(t)
  \/ Disconnect(t) \/ AwaitDispatch(t) \/ Join(t) \/ RemoveWatches(t) \/ Closed(t)

---------------------------------------------------------------------------
(* What an application thread starts when it has nothing to do, and what a *)
(* callback of connection c starts on the loop thread.                     *)

Idle(t) == todo[t] = <<>>
Starts(t, program) == todo' = [todo EXCEPT ![t] = program]
Begins(t, program) == begun < MaxBegun /\ begun' = begun + 1 /\ Starts(t, program)

Attach(c) ==
  /\ Idle(<<c, "user">>) /\ ~conn[c].attached
  /\ Starts(<<c, "user">>, Attaching(c))
  /\ UNCHANGED <<listVars, flagVars, loop, conn, busVars, queueVars, timeout, begun>>

(* What a thread that holds a reference to c may begin.                    *)
NobodyPushes(e) == \A t \in Threads : \A i \in 1..Len(todo[t]) :
                     todo[t][i].op = "push" => todo[t][i].on[1] # e

BeginPush(c, t) == \E e \in Entries : entry[e] = "new" /\ NobodyPushes(e) /\ Begins(t, Pushing(e, c))
BeginDisconnect(c, t) == ~conn[c].disconnecting /\ Begins(t, Disconnecting(c, t))
BeginStop(t) == ~hasToStop /\ Begins(t, Stopping)

(* The user of a connection disconnects it; its sender pushes and stops.   *)
Call(c, r) ==
  /\ Idle(<<c, r>>) /\ conn[c].attached /\ r \in conn[c].refs
  /\ \/ r = "user" /\ BeginDisconnect(c, <<c, r>>)
     \/ r = "sender" /\ (BeginPush(c, <<c, r>>) \/ BeginStop(<<c, r>>))
  /\ UNCHANGED <<listVars, flagVars, loop, conn, busVars, queueVars, timeout>>

(* libdbus enables its write watch when a message could not be written at  *)
(* once, and disables it when the sender has flushed it (onToggleWatch).   *)
ToggleWrite(c) ==
  /\ Idle(<<c, "sender">>) /\ conn[c].attached /\ "sender" \in conn[c].refs
  /\ ~conn[c].closed /\ ~Toggling(c)
  /\ \A t \in Threads : \A i \in 1..Len(todo[t]) :
       todo[t][i].op = "closed" => todo[t][i].on # c
  /\ \/ /\ writeOn[c].on = 0 /\ writeOn[c].made < MaxToggles
        /\ writeOn' = [writeOn EXCEPT ![c] = [on |-> @.made + 1, made |-> @.made + 1]]
        /\ Begins(<<c, "sender">>, StartWatching(WriteWatch(c, writeOn[c].made + 1)))
     \/ /\ writeOn[c].on # 0
        /\ writeOn' = [writeOn EXCEPT ![c].on = 0]
        /\ Begins(<<c, "sender">>, StopWatching(WriteWatch(c, writeOn[c].on)))
  /\ UNCHANGED <<listVars, flagVars, loop, conn, socket, inbox, queueVars, timeout>>

(* The application registers and unregisters its own timeouts.             *)
UseTimeout(c, t) ==
  /\ Idle(<<c, "sender">>) /\ conn[c].attached /\ "sender" \in conn[c].refs
  /\ LET o == TimeoutOf(t)
     IN \/ /\ o \notin ObjectsIn(registered["timeouts"]) \cup freed
           /\ Begins(<<c, "sender">>, <<Op("register", o)>>)
        \/ o \in Live("timeouts") /\ Begins(<<c, "sender">>, <<Op("unregister", o)>>)
  /\ UNCHANGED <<listVars, flagVars, loop, conn, busVars, queueVars, timeout>>

(* A thread drops its reference; the last one runs ~DBusConnection.        *)
Release(c, r) ==
  /\ Idle(<<c, r>>) /\ r \in conn[c].refs /\ conn[c].attached
  /\ conn' = [conn EXCEPT ![c].refs = @ \ {r}]
  /\ Starts(<<c, r>>, IF conn[c].refs # {r} \/ HeldByLoop(c) THEN <<>> ELSE Destroying(c))
  /\ UNCHANGED <<listVars, flagVars, loop, busVars, queueVars, timeout, begun>>

(* The bus, and the clock.                                                 *)
Receive(c) ==
  /\ conn[c].attached /\ ~conn[c].closed /\ socket[c] + inbox[c] < MaxMessages
  /\ socket' = [socket EXCEPT ![c] = @ + 1]
  /\ begun < MaxBegun /\ begun' = begun + 1
  /\ UNCHANGED <<listVars, flagVars, loop, todo, conn, inbox, writeOn, queueVars, timeout>>

Expire(t) ==
  /\ ~timeout[t].due /\ TimeoutOf(t) \in Live("timeouts")
  /\ timeout' = [timeout EXCEPT ![t].due = TRUE]
  /\ UNCHANGED <<listVars, flagVars, loop, todo, conn, busVars, queueVars, begun>>

---------------------------------------------------------------------------
(* The loop thread.  It goes on when its callback has nothing left to do.  *)

Loops(pc) == loop.pc = pc /\ Idle(Loop)

(* run() leaves its loop; the dispatch thread drops its reference.         *)
Leave ==
  /\ Loops("reap") /\ hasToStop
  /\ loop' = At("stopped")
  /\ \E c \in {None} \cup Connections :
       /\ c = None <=> \A d \in Connections :
                         conn[d].refs # {} \/ ~conn[d].ownThread \/ ~conn[d].attached
       /\ IF c = None THEN UNCHANGED todo
          ELSE conn[c].ownThread /\ conn[c].refs = {} /\ Starts(Loop, Destroying(c))
  /\ UNCHANGED <<listVars, flagVars, conn, busVars, queueVars, timeout, begun>>

(* Wrong: ~DBusQueueWatch leaves the entries of its queue.                 *)
ReapUncleared ==
  /\ Loops("reap") /\ ~hasToStop
  /\ \A c \in Connections : conn[c].ownThread => conn[c].attached
  /\ registered' = [l \in Lists |-> AfterReaping(registered[l])]
  /\ freed' = freed \cup UNION {Reaped(registered[l]) : l \in Lists}
  /\ loop' = At("prepare")
  /\ UNCHANGED <<managed, toDispatch, flagVars, todo, conn, busVars, queueVars, timeout, begun>>

(* doSingleIteration: sources, watches and timeouts to be deleted.         *)
(* ~DBusQueueWatch clears the entries of its queue.                        *)
Reap ==
  /\ Loops("reap") /\ ~hasToStop
  /\ \A c \in Connections : conn[c].ownThread => conn[c].attached
  /\ LET gone == UNION {Reaped(registered[l]) : l \in Lists}
         cleared == {c \in Connections : QueueWatch(c) \in gone}
     IN /\ registered' = [l \in Lists |-> AfterReaping(registered[l])]
        /\ freed' = freed \cup gone
        /\ entry' = [e \in Entries |->
                       IF \E c \in cleared : \E i \in 1..Len(queue[c]) : queue[c][i] = e
                         THEN "cleared" ELSE entry[e]]
        /\ queue' = [c \in Connections |-> IF c \in cleared THEN <<>> ELSE queue[c]]
  /\ loop' = At("prepare")
  /\ UNCHANGED <<managed, toDispatch, flagVars, todo, conn, busVars, eventFd, timeout, begun>>

(* prepare(): the sources that are ready under their mutex, and then the   *)
(* timeouts that have elapsed; poll() waits for the others.                *)
Elapsing == {o \in Live("timeouts") : timeout[o[2]].due /\ ~timeout[o[2]].elapsed}
Elapse == timeout' = [t \in Timeouts |->
                        [timeout[t] EXCEPT !.elapsed = @ \/ TimeoutOf(t) \in Elapsing]]
ReadySources == {s \in Live("sources") : Ready(s)}

Prepare ==
  /\ Loops("prepare")
  /\ Elapse
  /\ toDispatch' = [toDispatch EXCEPT !["sources"] = @ \cup ReadySources,
                                      !["timeouts"] = @ \cup Elapsing]
  /\ loop' = [At(IF ReadySources \cup Elapsing # {} THEN "timeouts" ELSE "copy")
                EXCEPT !.counted = {o \in Live("timeouts") : ~timeout[o[2]].elapsed} \ Elapsing]
  /\ UNCHANGED <<registered, managed, freed, flagVars, todo, conn, busVars, queueVars, begun>>

(* poll(): copies the file descriptors ...                                 *)
CopyFileDescriptors ==
  /\ Loops("copy")
  /\ loop' = [At("poll") EXCEPT !.polled = managed]
  /\ UNCHANGED <<listVars, flagVars, todo, conn, busVars, queueVars, timeout, begun>>

(* ... waits for them, the wakeup descriptor or the next timeout ...       *)
Poll ==
  /\ Loops("poll")
  /\ LET ready == {f \in loop.polled : FdReady(f)}
     IN /\ \/ ready # {} \/ wakeFd
           \/ \E o \in loop.counted : timeout[o[2]].due
        /\ loop' = [At("update") EXCEPT !.ready = ready, !.more = wakeFd, !.polled = {}]
  /\ UNCHANGED <<listVars, flagVars, todo, conn, busVars, queueVars, timeout, begun>>

(* Wrong: a timeout that ended poll() is marked, but not dispatched.       *)
UpdateForgetsTimeouts ==
  /\ Loops("update")
  /\ loop' = [At("check") EXCEPT !.ready = @ \cap managed, !.counted = {}, !.more = FALSE]
  /\ wakeFd' = (wakeFd /\ ~loop.more)
  /\ IF loop.ready = {} /\ ~loop.more THEN Elapse ELSE UNCHANGED timeout
  /\ UNCHANGED <<registered, managed, freed, toDispatch, isBroken, hasToStop, todo, conn, busVars, queueVars, begun>>

(* ... writes revents back to those still managed, looks at the timeouts   *)
(* if nothing was ready, and empties the wakeup descriptor if it was among *)
(* the ready ones: wakeups since poll() returned are consumed as well ...  *)
UpdateFileDescriptors ==
  /\ Loops("update")
  /\ loop' = [At("check") EXCEPT !.ready = @ \cap managed, !.counted = {}, !.more = FALSE]
  /\ wakeFd' = (wakeFd /\ ~loop.more)
  /\ IF loop.ready = {} /\ ~loop.more
       THEN /\ Elapse
            /\ toDispatch' = [toDispatch EXCEPT !["timeouts"] = @ \cup Elapsing]
       ELSE UNCHANGED <<toDispatch, timeout, begun>>
  /\ UNCHANGED <<registered, managed, freed, isBroken, hasToStop, todo, conn, busVars, queueVars, begun>>

(* check(): the watches whose descriptor had events, and the sources.      *)
Check ==
  /\ Loops("check")
  /\ toDispatch' = [toDispatch EXCEPT
       !["watches"] = @ \cup {w \in Live("watches") : Fd(w) \in loop.ready \cap managed},
       !["sources"] = @ \cup ReadySources]
  /\ loop' = [At("timeouts") EXCEPT !.ready = {}]
  /\ UNCHANGED <<registered, managed, freed, flagVars, todo, conn, busVars, queueVars, timeout, begun>>

(* dispatch(): the timeouts; one that is deleted is passed over.           *)
DispatchTimeout ==
  /\ Loops("timeouts")
  /\ \E o \in toDispatch["timeouts"] :
       /\ toDispatch' = [toDispatch EXCEPT !["timeouts"] = @ \ {o}]
       /\ timeout' = [timeout EXCEPT ![o[2]].fired = @ \/ ~Deleted(o)]
  /\ UNCHANGED <<registered, managed, freed, flagVars, loop, todo, conn, busVars, queueVars, begun>>

(* ... the watches.  Another thread may unregister one between the test of *)
(* its flag and the call.                                                  *)
DispatchWatch ==
  /\ Loops("timeouts") /\ toDispatch["timeouts"] = {}
  /\ \E w \in toDispatch["watches"] :
       /\ toDispatch' = [toDispatch EXCEPT !["watches"] = @ \ {w}]
       /\ ~Deleted(w)
       /\ loop' = [At("run") EXCEPT !.obj = w]
  /\ UNCHANGED <<registered, managed, freed, flagVars, todo, conn, busVars, queueVars, timeout, begun>>

SkipWatch ==
  /\ Loops("timeouts") /\ toDispatch["timeouts"] = {}
  /\ \E w \in toDispatch["watches"] :
       /\ Deleted(w)
       /\ toDispatch' = [toDispatch EXCEPT !["watches"] = @ \ {w}]
  /\ UNCHANGED <<registered, managed, freed, flagVars, loop, todo, conn, busVars, queueVars, timeout, begun>>

(* ... the sources, until one is unregistered.                             *)
BeginSources ==
  /\ Loops("timeouts") /\ toDispatch["timeouts"] = {} /\ toDispatch["watches"] = {}
  /\ IF toDispatch["sources"] = {} THEN loop' = At("reap") /\ UNCHANGED isBroken
     ELSE loop' = At("sources") /\ isBroken' = FALSE
  /\ UNCHANGED <<listVars, wakeFd, hasToStop, todo, conn, busVars, queueVars, timeout, begun>>

DispatchSource ==
  /\ Loops("sources") /\ ~isBroken
  /\ \E s \in toDispatch["sources"] :
       /\ toDispatch' = [toDispatch EXCEPT !["sources"] = @ \ {s}]
       /\ loop' = IF Deleted(s) THEN loop ELSE [At("run") EXCEPT !.obj = s]
  /\ UNCHANGED <<registered, managed, freed, flagVars, todo, conn, busVars, queueVars, timeout, begun>>

EndSources ==
  /\ Loops("sources") /\ (isBroken \/ toDispatch["sources"] = {})
  /\ toDispatch' = [toDispatch EXCEPT !["sources"] = {}]
  /\ loop' = At("reap")
  /\ UNCHANGED <<registered, managed, freed, flagVars, todo, conn, busVars, queueVars, timeout, begun>>

---------------------------------------------------------------------------
(* DBusWatch::dispatch, DBusDispatchSource::dispatch -> singleDispatch: a  *)
(* reference to the connection and setDispatching(true), or nothing.       *)

Returned(o) == IF o \in WatchObjects THEN [At("timeouts") EXCEPT !.obj = None] ELSE At("again")

RunQueueWatch ==
  /\ Loops("run") /\ loop.obj[1] = "queueWatch"
  /\ loop' = Returned(loop.obj)
  /\ UNCHANGED <<listVars, flagVars, todo, conn, busVars, queueVars, timeout, begun>>

BeginDispatch ==
  /\ Loops("run") /\ loop.obj[1] \in {"readWatch", "writeWatch", "busSource"}
  /\ LET c == loop.obj[2]
     IN IF MayDispatch(c)
          THEN /\ conn' = [conn EXCEPT ![c].dispatching = TRUE]
               /\ loop' = [At("handle") EXCEPT !.held = c]
          ELSE /\ loop' = [Returned(loop.obj) EXCEPT !.more = FALSE]
               /\ UNCHANGED conn
  /\ UNCHANGED <<listVars, flagVars, todo, busVars, queueVars, timeout, begun>>

(* dbus_watch_handle: libdbus reads, or writes what it could not before,   *)
(* and then disables its write watch.                                      *)
HandleRead ==
  /\ Loops("handle") /\ loop.obj[1] = "readWatch"
  /\ LET c == loop.obj[2]
     IN /\ inbox' = [inbox EXCEPT ![c] = @ + socket[c]]
        /\ socket' = [socket EXCEPT ![c] = 0]
  /\ loop' = At("end")
  /\ UNCHANGED <<listVars, flagVars, todo, conn, writeOn, queueVars, timeout, begun>>

HandleWrite ==
  /\ Loops("handle") /\ loop.obj[1] = "writeWatch"
  /\ LET c == loop.obj[2]
     IN IF writeOn[c].on = loop.obj[3] /\ ~Toggling(c)
          THEN /\ writeOn' = [writeOn EXCEPT ![c].on = 0]
               /\ Starts(Loop, StopWatching(loop.obj))
          ELSE UNCHANGED <<writeOn, todo>>
  /\ loop' = At("end")
  /\ UNCHANGED <<listVars, flagVars, conn, socket, inbox, queueVars, timeout, begun>>

(* A callback of the application: nothing, or one of the programs.         *)
Callback(c) == UNCHANGED <<todo, begun>> \/ BeginPush(c, Loop) \/ BeginDisconnect(c, Loop) \/ BeginStop(Loop)

(* dbus_connection_dispatch: one message of the queue of libdbus.          *)
HandleMessage ==
  /\ Loops("handle") /\ loop.obj[1] = "busSource"
  /\ LET c == loop.obj[2]
     IN /\ inbox' = [inbox EXCEPT ![c] = IF @ > 0 THEN @ - 1 ELSE 0]
        /\ IF inbox[c] > 0 THEN Callback(c) ELSE UNCHANGED <<todo, begun>>
  /\ loop' = At("end")
  /\ UNCHANGED <<listVars, flagVars, conn, socket, writeOn, queueVars, timeout>>

(* setDispatching(false), and the reference is returned: it may have been  *)
(* the last one, and ~DBusConnection then runs here.                       *)
EndDispatch ==
  /\ Loops("end")
  /\ LET c == loop.held
     IN /\ conn' = [conn EXCEPT ![c].dispatching = FALSE]
        /\ loop' = [Returned(loop.obj) EXCEPT !.held = None, !.more = inbox[c] > 0]
        /\ IF conn[c].refs = {} /\ ~conn[c].ownThread
             THEN Starts(Loop, Destroying(c)) ELSE UNCHANGED todo
  /\ UNCHANGED <<listVars, flagVars, busVars, queueVars, timeout, begun>>

(* Wrong: takes the front without popping it; or pops without reading the  *)
(* eventfd, and reads it later.                                            *)
PopQueueKeeps ==
  /\ Loops("run") /\ loop.obj[1] = "queueSource"
  /\ LET c == loop.obj[2]
     IN IF queue[c] = <<>> \/ eventFd[c] = 0
          THEN /\ loop' = [At("again") EXCEPT !.more = FALSE]
               /\ UNCHANGED queueVars
          ELSE /\ eventFd' = [eventFd EXCEPT ![c] = @ - 1]
               /\ loop' = [At("process") EXCEPT !.entry = Head(queue[c])]
               /\ UNCHANGED <<queue, entry>>
  /\ UNCHANGED <<listVars, flagVars, todo, conn, busVars, timeout, begun>>
PopQueueUnread ==
  /\ Loops("run") /\ loop.obj[1] = "queueSource"
  /\ LET c == loop.obj[2]
     IN IF queue[c] = <<>>
          THEN /\ loop' = [At("again") EXCEPT !.more = FALSE]
               /\ UNCHANGED queueVars
          ELSE /\ eventFd' = [eventFd EXCEPT ![c] = IF @ > 0 THEN @ - 1 ELSE 255]
               /\ queue' = [queue EXCEPT ![c] = Tail(@)]
               /\ loop' = [At("process") EXCEPT !.entry = Head(queue[c])]
               /\ UNCHANGED entry
  /\ UNCHANGED <<listVars, flagVars, todo, conn, busVars, timeout, begun>>

(* DBusQueueDispatchSource::dispatch: front, then popQueue, which spins    *)
(* until the write to the eventfd has happened ...                         *)
PopQueue ==
  /\ Loops("run") /\ loop.obj[1] = "queueSource"
  /\ LET c == loop.obj[2]
     IN IF queue[c] = <<>>
          THEN /\ loop' = [At("again") EXCEPT !.more = FALSE]
               /\ UNCHANGED queueVars
          ELSE /\ eventFd[c] > 0
               /\ eventFd' = [eventFd EXCEPT ![c] = @ - 1]
               /\ queue' = [queue EXCEPT ![c] = Tail(@)]
               /\ loop' = [At("process") EXCEPT !.entry = Head(queue[c])]
               /\ UNCHANGED entry
  /\ UNCHANGED <<listVars, flagVars, todo, conn, busVars, timeout, begun>>

(* ... then processQueueEntry, which forgets the entry if the connection   *)
(* is gone; dispatchDBusMessageReply does if it is being disconnected.     *)
ProcessQueueEntry ==
  /\ Loops("process")
  /\ LET c == loop.obj[2]
     IN IF MayDispatch(c)
          THEN /\ entry' = [entry EXCEPT ![loop.entry] = "processed"]
               /\ conn' = [conn EXCEPT ![c].dispatching = TRUE]
               /\ Callback(c)
               /\ loop' = [At("end") EXCEPT !.held = c, !.entry = None]
          ELSE /\ entry' = [entry EXCEPT ![loop.entry] = "dropped"]
               /\ loop' = [At("again") EXCEPT !.entry = None]
               /\ UNCHANGED <<conn, todo, begun>>
  /\ UNCHANGED <<listVars, flagVars, busVars, queue, eventFd, timeout>>

(* while (!deleteObject_ && dispatch()).                                   *)
DispatchAgain ==
  /\ Loops("again")
  /\ LET more == IF loop.obj[1] = "queueSource" THEN queue[loop.obj[2]] # <<>> ELSE loop.more
     IN loop' = IF more /\ ~Deleted(loop.obj) THEN [At("run") EXCEPT !.more = FALSE]
                ELSE [At("sources") EXCEPT !.obj = None, !.more = FALSE]
  /\ UNCHANGED <<listVars, flagVars, todo, conn, busVars, queueVars, timeout, begun>>

(* ~DBusMainLoop: the application, or the connection whose thread it was,  *)
(* deletes the loop after the connections.  cleanup() deletes the sources  *)
(* before the watches.                                                     *)
Cleanup ==
  /\ Loops("stopped")
  /\ \A t \in Threads : Idle(t)
  /\ \A c \in Connections : ~conn[c].attached \/ ~Referenced(c)
  /\ loop' = At("destroyed")
  /\ registered' = [l \in Lists |-> <<>>]
  /\ freed' = freed \cup UNION {ObjectsIn(registered[l]) : l \in Lists}
  /\ entry' = [e \in Entries |-> IF entry[e] = "queued" THEN "cleared" ELSE entry[e]]
  /\ queue' = [c \in Connections |-> <<>>]
  /\ UNCHANGED <<managed, toDispatch, flagVars, todo, conn, busVars, eventFd, timeout, begun>>

LoopStep ==
  \/ Leave \/ Reap \/ Prepare \/ CopyFileDescriptors \/ Poll \/ UpdateFileDescriptors \/ Check
  \/ DispatchTimeout \/ DispatchWatch \/ SkipWatch \/ BeginSources
  \/ DispatchSource \/ EndSources
  \/ RunQueueWatch \/ BeginDispatch \/ HandleRead \/ HandleWrite
  \/ HandleMessage \/ EndDispatch \/ PopQueue \/ ProcessQueueEntry \/ DispatchAgain
  \/ Cleanup

Next ==
  \/ LoopStep
  \/ \E t \in Threads : Elementary(t)
  \/ \E c \in Connections : \/ Attach(c) \/ Receive(c)
                            \/ \E r \in Roles : Call(c, r) \/ Release(c, r)
                            \/ "sender" \in Roles /\ ToggleWrite(c)
                            \/ "sender" \in Roles /\ \E t \in Timeouts : UseTimeout(c, t)
  \/ \E t \in Timeouts : Expire(t)

(* Every thread goes on with what it has begun.  Nothing is said of what   *)
(* the applications, the bus and the clock begin.                          *)
Spec == Init /\ [][Next]_vars /\ WF_vars(LoopStep)
             /\ \A t \in Threads : WF_vars(Elementary(t))

---------------------------------------------------------------------------
(* Every variable keeps its type.                                          *)
TypeOK ==
  /\ registered \in [Lists -> Seq([obj : Objects, deleteObject : BOOLEAN])]
  /\ managed \subseteq {Fd(w) : w \in WatchObjects}
  /\ freed \subseteq Objects
  /\ toDispatch \in [Lists -> SUBSET Objects]
  /\ {wakeFd, isBroken, hasToStop} \subseteq BOOLEAN
  /\ loop.obj \in Objects \cup {None} /\ loop.held \in Connections \cup {None}
  /\ socket \in [Connections -> 0..MaxMessages] /\ inbox \in [Connections -> 0..MaxMessages]
  /\ eventFd \in [Connections -> 0..Cardinality(Entries)]
  /\ \A c \in Connections : queue[c] \in Seq(Entries)
  /\ entry \in [Entries -> {"new", "queued", "processed", "dropped", "cleared"}]

(* Nobody uses a source, watch or timeout that the loop has deleted: not   *)
(* the loop in what it still has to dispatch or is dispatching, not a      *)
(* thread that pushes into the queue of a watch, whatever was unregistered *)
(* by other threads or by the callbacks themselves meanwhile.              *)
NothingDangles ==
  /\ \A l \in Lists : (toDispatch[l] \cup ObjectsIn(registered[l])) \cap freed = {}
  /\ loop.obj \notin freed
  /\ \A t \in Threads : \A i \in 1..Len(todo[t]) :
       todo[t][i].op = "signal" => QueueWatch(todo[t][i].on) \notin freed

(* The destructor of a queue source uses its watch (DBusMainLoopContext    *)
(* line 58): the loop deletes the source first.                            *)
SourceFindsItsWatch ==
  \A c \in Connections :
    QueueWatch(c) \in freed => QueueSource(c) \notin ObjectsIn(registered["sources"])

(* libdbus is only asked to handle a watch that it has not removed: what   *)
(* disconnect() and the destructor remove is not being dispatched, and is  *)
(* not dispatched any more, although the loop may still have it in hand.   *)
HandledWatchExists ==
  loop.pc = "handle" /\ loop.obj[1] = "readWatch" =>
    LET c == loop.obj[2]
    IN /\ ~conn[c].closed /\ conn[c].attached
       /\ \A t \in Threads \ {Loop} : \A i \in 1..Len(todo[t]) :
            todo[t][i].op \in {"wakeup", "unmanage", "unregister"} => todo[t][i].on # loop.obj

(* An entry is in one queue while nobody has taken it, and never comes     *)
(* back: it is processed, cleared or dropped once.                         *)
EntryInOnePlace ==
  \A e \in Entries :
    Cardinality({<<c, i>> \in Connections \X (1..Cardinality(Entries)) :
                   i <= Len(queue[c]) /\ queue[c][i] = e})
      + (IF loop.entry = e THEN 1 ELSE 0) = (IF entry[e] = "queued" THEN 1 ELSE 0)

(* The loop sleeps in a poll() that it entered before the queue watch was  *)
(* added or after it was removed: neither of them wakes it up in time.  Or *)
(* it has stopped.                                                         *)
Deaf(c) == /\ loop.pc \in {"poll", "stopped"} /\ Fd(QueueWatch(c)) \notin loop.polled
           /\ QueueWatch(c) \notin freed

(* What is pushed into the queue of a connection is taken out, unless the  *)
(* loop has stopped or does not know the queue: no order of push, poll,    *)
(* acknowledgement of wakeups and skipped sources loses it.                *)
EntriesTaken ==
  \A e \in Entries : (entry[e] = "queued") ~>
    \/ entry[e] # "queued"
    \/ \E c \in Connections : Deaf(c) /\ \E i \in 1..Len(queue[c]) : queue[c][i] = e

(* stop() is obeyed, also when it comes between the test of hasToStop_ and *)
(* poll(), or from a callback.                                             *)
StopObeyed == hasToStop ~> loop.pc \in {"stopped", "destroyed"}

(* A timeout that is due fires, unless it is unregistered, or was          *)
(* registered while the loop was already polling: nothing wakes it then.   *)
TimeoutsFire ==
  \A t \in Timeouts :
    (timeout[t].due /\ TimeoutOf(t) \in Live("timeouts")) ~>
      \/ timeout[t].fired \/ TimeoutOf(t) \notin Live("timeouts")
      \/ loop.pc = "poll" /\ TimeoutOf(t) \notin loop.counted /\ ~timeout[t].elapsed
      \/ loop.pc \in {"stopped", "destroyed"}

(* What the loop and libdbus free is not used any more, by nobody, and an  *)
(* entry that is processed, cleared or dropped never comes back.           *)
NothingFreedIsUsed ==
  NothingDangles /\ SourceFindsItsWatch /\ HandledWatchExists /\ EntryInOnePlace

(* The loop responds to whatever wakes it: entries, stop() and timeouts.   *)
LoopResponds == EntriesTaken /\ StopObeyed /\ TimeoutsFire
=============================================================================
