------------------------ MODULE AvailabilityContract ------------------------
(* What DBusProxy::isAvailableAsync promises: a request is settled once, as *)
(* AVAILABLE while the service is, as NOT_AVAILABLE only when its time is   *)
(* over and the service is not there, and then its callback is called once, *)
(* with the status it was settled with.                                     *)
CONSTANT Requests

VARIABLES request, \* "none", "asked", "settled" or "told"
          answer,  \* the status a request was settled with
          status,  \* the availability of the service
          expired  \* the requests whose time is over

contractVars == <<request, answer, status, expired>>

ContractInit ==
  /\ request = [r \in Requests |-> "none"]
  /\ answer = [r \in Requests |-> "UNKNOWN"]
  /\ status = "UNKNOWN"
  /\ expired = {}

Ask(r) ==
  /\ request[r] = "none"
  /\ request' = [request EXCEPT ![r] = "asked"]
  /\ UNCHANGED <<answer, status, expired>>

(* The answer is decided.                                                  *)
Settle(r, s) ==
  /\ request[r] = "asked"
  /\ IF s = "AVAILABLE" THEN status = s ELSE status # "AVAILABLE" /\ r \in expired
  /\ request' = [request EXCEPT ![r] = "settled"]
  /\ answer' = [answer EXCEPT ![r] = s]
  /\ UNCHANGED <<status, expired>>

(* The promise is fulfilled and the callback called.                       *)
Tell(r) ==
  /\ request[r] = "settled"
  /\ request' = [request EXCEPT ![r] = "told"]
  /\ UNCHANGED <<answer, status, expired>>

ServiceChanges(s) ==
  /\ status' = s
  /\ UNCHANGED <<request, answer, expired>>

TimeOver(r) ==
  /\ request[r] = "asked"
  /\ expired' = expired \cup {r}
  /\ UNCHANGED <<request, answer, status>>

ContractNext ==
  \/ \E r \in Requests : Ask(r) \/ Tell(r) \/ TimeOver(r)
  \/ \E r \in Requests, s \in {"AVAILABLE", "NOT_AVAILABLE"} : Settle(r, s)
  \/ \E s \in {"AVAILABLE", "NOT_AVAILABLE"} : ServiceChanges(s)

ContractSpec == ContractInit /\ [][ContractNext]_contractVars
=============================================================================
