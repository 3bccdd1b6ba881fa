------------------------- MODULE AsyncCallContract -------------------------
(***************************************************************************)
(* What sendDBusMessageWithReplyAsync promises for the handler it takes    *)
(* over, without pending calls, threads or containers: the handler is      *)
(* called back at most once, while it exists, and unless the connection is *)
(* being closed it is not deleted before it was called back.  A call       *)
(* refused because there is no connection is the only one whose handler    *)
(* is deleted by the caller.                                               *)
(***************************************************************************)
EXTENDS Naturals

CONSTANT Calls

VARIABLES handler,  \* "none", "live" or "deleted"
          answers,  \* how often the handler was called back
          closing   \* the connection was told to disconnect

contractVars == <<handler, answers, closing>>

ContractInit ==
  /\ handler = [c \in Calls |-> "none"]
  /\ answers = [c \in Calls |-> 0]
  /\ closing = FALSE

(* The connection takes the handler over.                                  *)
Accept(c) ==
  /\ handler[c] = "none"
  /\ handler' = [handler EXCEPT ![c] = "live"]
  /\ UNCHANGED <<answers, closing>>

(* There is no connection: the handler dies with the caller's unique_ptr.  *)
Refuse(c) ==
  /\ handler[c] = "none" /\ closing
  /\ handler' = [handler EXCEPT ![c] = "deleted"]
  /\ UNCHANGED <<answers, closing>>

(* The one callback: a reply, a timeout or a failure.                      *)
Answer(c) ==
  /\ handler[c] = "live" /\ answers[c] = 0
  /\ answers' = [answers EXCEPT ![c] = 1]
  /\ UNCHANGED <<handler, closing>>

(* Handlers are deleted in groups; unanswered only while closing.          *)
Delete(group) ==
  /\ \A c \in group : handler[c] = "live" /\ (answers[c] = 1 \/ closing)
  /\ handler' = [c \in Calls |-> IF c \in group THEN "deleted" ELSE handler[c]]
  /\ UNCHANGED <<answers, closing>>

Close ==
  /\ closing' = TRUE
  /\ UNCHANGED <<handler, answers>>

ContractNext ==
  \/ \E c \in Calls : Accept(c) \/ Refuse(c) \/ Answer(c)
  \/ \E group \in SUBSET Calls : Delete(group)
  \/ Close

ContractSpec == ContractInit /\ [][ContractNext]_contractVars
=============================================================================
