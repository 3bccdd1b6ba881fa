--------------------------- MODULE MCRemoteCalls ---------------------------
(***************************************************************************)
(* A small instance of RemoteCalls for TLC.                                *)
(***************************************************************************)
EXTENDS RemoteCalls

CONSTANTS c1, c2, w1, d

MCCalls == {c1, c2}
MCWorkers == {w1}
MCValues == {0, 1}

Ask(kind, how, outs) ==
    [kind |-> kind, how |-> how, declared |-> FALSE, outs |-> outs,
     writable |-> TRUE, accepted |-> TRUE, readable |-> TRUE, value |-> 1]

Method == Ask("method", "async", TRUE)
Declared(r) == [r EXCEPT !.declared = TRUE]
Refused(r) == [r EXCEPT !.accepted = FALSE]
Unreadable(r) == [r EXCEPT !.readable = FALSE]
Unwritable(r) == [r EXCEPT !.writable = FALSE]
Zero(r) == [r EXCEPT !.value = 0]

(***************************************************************************)
(* Each kind of call, each of the ways to make one, and each thing that    *)
(* can be wrong with its arguments; together with a call that competes     *)
(* with it for the static mutex, the table of kept calls, or the           *)
(* attribute.                                                              *)
(***************************************************************************)
Pairs ==
    { <<Ask("method", "sync", FALSE), Unreadable(Ask("method", "sync", TRUE))>>,
      <<Declared(Ask("method", "sync", FALSE)), Ask("fire", "send", FALSE)>>,
      <<Declared(Method), Unwritable(Method)>>,
      <<Ask("set", "async", TRUE), Zero(Ask("set", "async", TRUE))>>,
      <<Ask("set", "async", TRUE), Zero(Ask("fdSet", "async", FALSE))>>,
      <<Ask("method", "sync", TRUE), Declared(Method)>>,
      <<Ask("set", "sync", TRUE), Ask("get", "sync", TRUE)>>,
      <<Ask("fdSet", "sync", FALSE), Ask("fdGetAll", "sync", TRUE)>>,
      <<Ask("inline", "async", TRUE), Ask("fdGet", "sync", TRUE)>>,
      <<Refused(Ask("inline", "async", TRUE)), Refused(Ask("fdGetAll", "sync", TRUE))>>,
      <<Unwritable(Ask("fire", "send", FALSE)), Unwritable(Ask("get", "sync", TRUE))>> }

MCScenarios == { [c \in MCCalls |-> IF c = c1 THEN p[1] ELSE p[2]] : p \in Pairs }
=============================================================================
