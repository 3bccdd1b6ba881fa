------------------------ MODULE SignalSubscriptions ------------------------
(***************************************************************************)
(* How a DBusConnection keeps its subscriptions to signals in step with    *)
(* libdbus and the bus.  Handlers of proxies are registered per signal     *)
(* (dbusSignalHandlers_), handlers of the service registry per bus name    *)
(* (dbusOMSignalHandlers_); both tables count match rules, the rules are   *)
(* added to the bus, and while there are rules a message filter has to be  *)
(* installed with libdbus.  libdbusSignalMatchRulesCount_ decides when.    *)
(*                                                                         *)
(* Each table has a mutex, so at most one operation on each is under way:  *)
(* the actors "member" and "om".  connect() and disconnect() are a third   *)
(* actor, "link", that takes neither mutex.  An action is a step between   *)
(* two calls into libdbus that block or between two accesses of the count. *)
(***************************************************************************)
EXTENDS Naturals, FiniteSets

CONSTANTS
  Paths,        \* the signals: object path, interface, member, signature
  Rules,        \* their match rules: object path, interface, member
  RuleOf,       \* the rule of a signal (the signature is not part of it)
  Selective,    \* the rules whose signals are added with justAddFilter
  Handlers,     \* the DBusSignalHandlers of proxies
  Names,        \* the bus names of which the registry observes the objects
  Entries,      \* the elements the multimap dbusOMSignalHandlers_ can have ...
  NameOf,       \* ... and their bus names
  Overlap,      \* the sets of two operations that may be under way together
  MatchFails,   \* the rules for which dbus_bus_add_match may fail
  SizeT,        \* how many values the counter has
  MaxFilters,   \* bound: filters when a subscription starts
  MaxConnects,  \* bound: how often connect() succeeds
  None

Matches == Rules \cup Names
Actors == {"member", "om", "link"}

ASSUME SubscriptionsAssumption ==
  /\ IsFiniteSet(Paths) /\ IsFiniteSet(Entries)
  /\ RuleOf \in [Paths -> Rules]
  /\ NameOf \in [Entries -> Names]
  /\ Rules \cap Names = {} /\ None \notin Matches
  /\ Selective \subseteq Rules /\ MatchFails \subseteq Matches
  /\ SizeT \in Nat \ {0} /\ MaxFilters \in Nat /\ MaxConnects \in Nat

VARIABLES
  handlers,     \* dbusSignalHandlers_
  omHandlers,   \* dbusOMSignalHandlers_
  refs,         \* the reference counts in dbusSignalMatchRulesMap_ and in
                \* dbusOMSignalMatchRulesMap_; 0: no entry
  count,        \* libdbusSignalMatchRulesCount_, a std::atomic_size_t
  connected,    \* connection_ # nullptr
  filters,      \* how often libdbus has our filter function in its list
  busMatches,   \* how often the bus has the rule
  proc,         \* what each actor is doing, and for which rule
  todo,         \* the rules that were there when connect() began its loop
  done,         \* the rules connect() has visited
  connects      \* history: how often connect() succeeded

tables == <<handlers, omHandlers, refs>>
libdbus == <<connected, filters, busMatches>>
linkVars == <<todo, done, connects>>
vars == <<tables, count, libdbus, proc, linkVars>>

Pcs == {"idle", "filter", "maybeFilter", "match", "count", "unmatch",
        "uncount", "erase", "init", "closing"}
Idle == [pc |-> "idle", rule |-> None]
At(pc, x) == [pc |-> pc, rule |-> x]

TypeOK ==
  /\ handlers \in [Paths -> SUBSET Handlers]
  /\ omHandlers \subseteq Entries
  /\ refs \in [Matches -> Nat]
  /\ count \in 0 .. SizeT - 1
  /\ connected \in BOOLEAN
  /\ filters \in Nat
  /\ busMatches \in [Matches -> Nat]
  /\ proc \in [Actors -> [pc : Pcs, rule : Matches \cup {None}]]
  /\ todo \subseteq Matches /\ done \subseteq Matches
  /\ connects \in 0 .. MaxConnects

Init ==
  /\ handlers = [p \in Paths |-> {}] /\ omHandlers = {}
  /\ refs = [x \in Matches |-> 0]
  /\ count = 0
  /\ connected = FALSE /\ filters = 0
  /\ busMatches = [x \in Matches |-> 0]
  /\ proc = [a \in Actors |-> Idle]
  /\ todo = {} /\ done = {} /\ connects = 0

-----------------------------------------------------------------------------
(* Helpers.                                                                *)

(* What an actor is doing: an operation on one of the tables, a connect()  *)
(* or a disconnect().                                                      *)
Operation(a) ==
  CASE a # "link" -> a
    [] proc[a].pc = "closing" -> "disconnect"
    [] OTHER -> "connect"

(* An operation may begin while others that it may overlap with are under  *)
(* way.                                                                    *)
MayBegin(a, operation) ==
  /\ proc[a] = Idle
  /\ \A b \in Actors \ {a} :
       proc[b] = Idle \/ {operation, Operation(b)} \in Overlap

Present == {x \in Matches : refs[x] > 0}
MapEmpty == Present \cap Rules = {}
SubscribedPaths(r) == {p \in Paths : RuleOf[p] = r /\ handlers[p] # {}}
EntriesOf(n) == {e \in omHandlers : NameOf[e] = n}

Become(a, state) == proc' = [proc EXCEPT ![a] = state]

(* The end of a removal that has to tell the bus: not when there is no     *)
(* connection, and not when the counter says that nothing was added.       *)
RemoveFrom(a, x) ==
  IF connected /\ count # 0
    THEN /\ Become(a, At("unmatch", x))
         /\ UNCHANGED refs
    ELSE /\ refs' = [refs EXCEPT ![x] = 0]
         /\ UNCHANGED proc

-----------------------------------------------------------------------------
(* Handlers of proxies, under signalHandlersGuard_.                        *)

(* Seeded fault: every handler, not only the first of its signal, counts.  *)
AddMemberEach(p, h) ==
  /\ MayBegin("member", "member")
  /\ handlers' = [handlers EXCEPT ![p] = @ \cup {h}]
  /\ refs' = [refs EXCEPT ![RuleOf[p]] = @ + 1]
  /\ UNCHANGED <<omHandlers, count, libdbus, proc, linkVars>>

(* addSignalMemberHandler: another handler of a signal, or another signal  *)
(* with a rule that is known already (handlers that are added again are    *)
(* replaced).                                                              *)
AddMember(p, h) ==
  /\ MayBegin("member", "member")
  /\ handlers[p] # {} \/ refs[RuleOf[p]] > 0
  /\ handlers' = [handlers EXCEPT ![p] = @ \cup {h}]
  /\ refs' = IF handlers[p] # {}
               THEN refs
               ELSE [refs EXCEPT ![RuleOf[p]] = @ + 1]
  /\ UNCHANGED <<omHandlers, count, libdbus, proc, linkVars>>

(* The same for a new rule: it enters the map, and when we are connected   *)
(* it goes to the bus, the first one after the filter.  (The handler table *)
(* is filled after that, still under the mutex.)                           *)
AddFirstMember(p, h) ==
  /\ MayBegin("member", "member") /\ filters < MaxFilters
  /\ handlers[p] = {} /\ refs[RuleOf[p]] = 0
  /\ handlers' = [handlers EXCEPT ![p] = {h}]
  /\ refs' = [refs EXCEPT ![RuleOf[p]] = 1]
  /\ IF connected
       THEN Become("member", At(IF MapEmpty THEN "filter" ELSE "match", RuleOf[p]))
       ELSE UNCHANGED proc
  /\ UNCHANGED <<omHandlers, count, libdbus, linkVars>>

(* dbus_connection_add_filter                                              *)
AddFilter ==
  /\ proc["member"].pc = "filter"
  /\ filters' = filters + 1
  /\ Become("member", At("match", proc["member"].rule))
  /\ UNCHANGED <<tables, count, connected, busMatches, linkVars>>

(* dbus_bus_add_match, left out for a rule added with justAddFilter; an    *)
(* error is logged and nothing else.                                       *)
AddMemberMatch ==
  /\ proc["member"].pc = "match"
  /\ LET r == proc["member"].rule IN
       \/ /\ r \notin Selective
          /\ busMatches' = [busMatches EXCEPT ![r] = @ + 1]
       \/ /\ r \in Selective \cup MatchFails
          /\ UNCHANGED busMatches
  /\ Become("member", At("count", proc["member"].rule))
  /\ UNCHANGED <<tables, count, connected, filters, linkVars>>

CountMember ==
  /\ proc["member"].pc = "count"
  /\ count' = (count + 1) % SizeT
  /\ Become("member", Idle)
  /\ UNCHANGED <<tables, libdbus, linkVars>>

(* Seeded fault: the rule is removed with a signal although other signals  *)
(* (of the same path, interface and member) have it, too.                  *)
RemoveMemberRule(p, h) ==
  /\ MayBegin("member", "member") /\ h \in handlers[p]
  /\ handlers' = [handlers EXCEPT ![p] = @ \ {h}]
  /\ IF handlers[p] # {h}
       THEN UNCHANGED <<refs, proc>>
       ELSE RemoveFrom("member", RuleOf[p])
  /\ UNCHANGED <<omHandlers, count, libdbus, linkVars>>

(* removeSignalMemberHandler; for a handler that is not registered it does *)
(* nothing.                                                                *)
RemoveMember(p, h) ==
  /\ MayBegin("member", "member") /\ h \in handlers[p]
  /\ handlers' = [handlers EXCEPT ![p] = @ \ {h}]
  /\ \/ /\ handlers[p] # {h}
        /\ UNCHANGED <<refs, proc>>
     \/ /\ handlers[p] = {h} /\ refs[RuleOf[p]] > 1
        /\ refs' = [refs EXCEPT ![RuleOf[p]] = @ - 1]
        /\ UNCHANGED proc
     \/ /\ handlers[p] = {h} /\ refs[RuleOf[p]] <= 1
        /\ RemoveFrom("member", RuleOf[p])
  /\ UNCHANGED <<omHandlers, count, libdbus, linkVars>>

-----------------------------------------------------------------------------
(* Handlers of the service registry, under dbusOMSignalHandlersGuard_.     *)

(* Seeded fault: the new reference is not counted.                         *)
AddOMUncounted(e) ==
  /\ MayBegin("om", "om") /\ e \notin omHandlers
  /\ refs[NameOf[e]] > 0 \/ ~connected
  /\ omHandlers' = omHandlers \cup {e}
  /\ refs' = [refs EXCEPT ![NameOf[e]] = IF @ = 0 THEN 1 ELSE @]
  /\ UNCHANGED <<handlers, count, libdbus, proc, linkVars>>

(* addObjectManagerSignalMemberHandler for a name with a rule, or while    *)
(* there is no connection.                                                 *)
AddOM(e) ==
  /\ MayBegin("om", "om") /\ e \notin omHandlers
  /\ refs[NameOf[e]] > 0 \/ ~connected
  /\ omHandlers' = omHandlers \cup {e}
  /\ refs' = [refs EXCEPT ![NameOf[e]] = @ + 1]
  /\ UNCHANGED <<handlers, count, libdbus, proc, linkVars>>

AddFirstOM(n) ==
  /\ MayBegin("om", "om") /\ filters < MaxFilters
  /\ refs[n] = 0 /\ connected
  /\ Become("om", At("maybeFilter", n))
  /\ UNCHANGED <<tables, count, libdbus, linkVars>>

(* addLibdbusSignalMatchRule(rule), for the registry and for connect(): it *)
(* installs the filter when the counter is zero ...                        *)
AddFilterIfNone(a) ==
  /\ proc[a].pc = "maybeFilter"
  /\ filters' = IF count = 0 THEN filters + 1 ELSE filters
  /\ Become(a, At("match", proc[a].rule))
  /\ UNCHANGED <<tables, count, connected, busMatches, linkVars>>

(* ... then adds the rule, and if that fails returns false without having  *)
(* counted it ...                                                          *)
AddMatch(a) ==
  /\ a # "member" /\ proc[a].pc = "match"
  /\ \/ /\ busMatches' = [busMatches EXCEPT ![proc[a].rule] = @ + 1]
        /\ Become(a, At("count", proc[a].rule))
     \/ /\ proc[a].rule \in MatchFails
        /\ Become(a, IF a = "link" THEN At("init", None) ELSE Idle)
        /\ UNCHANGED busMatches
  /\ UNCHANGED <<tables, count, connected, filters, linkVars>>

(* ... and counts it.  The registry's entry and its first reference follow.*)
CountOM(e) ==
  /\ proc["om"].pc = "count" /\ NameOf[e] = proc["om"].rule
  /\ count' = (count + 1) % SizeT
  /\ omHandlers' = omHandlers \cup {e}
  /\ refs' = [refs EXCEPT ![NameOf[e]] = 1]
  /\ Become("om", Idle)
  /\ UNCHANGED <<handlers, libdbus, linkVars>>

(* removeObjectManagerSignalMemberHandler                                  *)
RemoveOM(e) ==
  /\ MayBegin("om", "om") /\ e \in omHandlers
  /\ omHandlers' = omHandlers \ {e}
  /\ IF refs[NameOf[e]] > 1
       THEN /\ refs' = [refs EXCEPT ![NameOf[e]] = @ - 1]
            /\ UNCHANGED proc
       ELSE RemoveFrom("om", NameOf[e])
  /\ UNCHANGED <<handlers, count, libdbus, linkVars>>

-----------------------------------------------------------------------------
(* removeLibdbusSignalMatchRule(rule), for both tables.                    *)

RemoveMatch(a) ==
  /\ proc[a].pc = "unmatch"
  /\ LET x == proc[a].rule IN
       /\ busMatches' = [busMatches EXCEPT ![x] = IF @ = 0 THEN 0 ELSE @ - 1]
       /\ Become(a, At("uncount", x))
  /\ UNCHANGED <<tables, count, connected, filters, linkVars>>

(* Under connectionGuard_: the filter goes with the last rule.             *)
Uncount(a) ==
  /\ proc[a].pc = "uncount"
  /\ count' = (count + SizeT - 1) % SizeT
  /\ filters' = IF count' = 0 /\ filters > 0 THEN filters - 1 ELSE filters
  /\ Become(a, At("erase", proc[a].rule))
  /\ UNCHANGED <<tables, connected, busMatches, linkVars>>

EraseRule(a) ==
  /\ proc[a].pc = "erase"
  /\ refs' = [refs EXCEPT ![proc[a].rule] = 0]
  /\ Become(a, Idle)
  /\ UNCHANGED <<handlers, omHandlers, count, libdbus, linkVars>>

-----------------------------------------------------------------------------
(* connect() and disconnect().                                             *)

(* A new libdbus connection has no filter and no rules.                    *)
Connect ==
  /\ MayBegin("link", "connect") /\ ~connected /\ connects < MaxConnects
  /\ connected' = TRUE /\ filters' = 0
  /\ busMatches' = [x \in Matches |-> 0]
  /\ connects' = connects + 1
  /\ todo' = Present /\ done' = {}
  /\ Become("link", At("init", None))
  /\ UNCHANGED <<tables, count>>

(* initLibdbusSignalFilterAfterConnect walks over both maps without their  *)
(* mutexes; a rule that appears meanwhile is visited or not.               *)
InitRule(x) ==
  /\ proc["link"].pc = "init" /\ x \in Present \ done
  /\ done' = done \cup {x}
  /\ Become("link", At("maybeFilter", x))
  /\ UNCHANGED <<tables, count, libdbus, todo, connects>>

CountInit ==
  /\ proc["link"].pc = "count"
  /\ count' = (count + 1) % SizeT
  /\ Become("link", At("init", None))
  /\ UNCHANGED <<tables, libdbus, linkVars>>

(* Seeded fault: connect() does not restore the rules.                     *)
InitSkipped ==
  /\ proc["link"].pc = "init"
  /\ Become("link", Idle)
  /\ UNCHANGED <<tables, count, libdbus, linkVars>>

InitEnd ==
  /\ proc["link"].pc = "init" /\ todo \cap Present \subseteq done
  /\ Become("link", Idle)
  /\ UNCHANGED <<tables, count, libdbus, linkVars>>

(* Seeded fault: the filter is removed although there is none.             *)
DisconnectUnguarded ==
  /\ MayBegin("link", "disconnect") /\ connected
  /\ filters' = filters - 1
  /\ count' = 0
  /\ Become("link", At("closing", None))
  /\ UNCHANGED <<tables, connected, busMatches, linkVars>>

(* Seeded fault: the counter survives the connection.                      *)
DisconnectKeepsCount ==
  /\ MayBegin("link", "disconnect") /\ connected
  /\ filters' = IF count > 0 /\ filters > 0 THEN filters - 1 ELSE filters
  /\ Become("link", At("closing", None))
  /\ UNCHANGED <<tables, count, connected, busMatches, linkVars>>

(* disconnect(), under connectionGuard_: filter and counter.               *)
DisconnectBegin ==
  /\ MayBegin("link", "disconnect") /\ connected
  /\ filters' = IF count > 0 /\ filters > 0 THEN filters - 1 ELSE filters
  /\ count' = 0
  /\ Become("link", At("closing", None))
  /\ UNCHANGED <<tables, connected, busMatches, linkVars>>

(* It waits for a running dispatch, closes the connection, joins threads   *)
(* and releases the connection.                                            *)
DisconnectEnd ==
  /\ proc["link"].pc = "closing"
  /\ connected' = FALSE /\ filters' = 0
  /\ busMatches' = [x \in Matches |-> 0]
  /\ Become("link", Idle)
  /\ UNCHANGED <<tables, count, linkVars>>

-----------------------------------------------------------------------------
(* The specification.                                                      *)

MemberNext ==
  \/ \E p \in Paths, h \in Handlers :
       AddMember(p, h) \/ AddFirstMember(p, h) \/ RemoveMember(p, h)
  \/ AddFilter \/ AddMemberMatch \/ CountMember

OMNext ==
  \/ \E e \in Entries : AddOM(e) \/ RemoveOM(e) \/ CountOM(e)
  \/ \E n \in Names : AddFirstOM(n)

LibdbusNext ==
  \E a \in Actors :
    \/ AddFilterIfNone(a) \/ AddMatch(a)
    \/ RemoveMatch(a) \/ Uncount(a) \/ EraseRule(a)

LinkNext ==
  \/ Connect \/ (\E x \in Matches : InitRule(x)) \/ CountInit \/ InitEnd
  \/ DisconnectBegin \/ DisconnectEnd

Next == MemberNext \/ OMNext \/ LibdbusNext \/ LinkNext

Spec == Init /\ [][Next]_vars

-----------------------------------------------------------------------------
(* Properties.                                                             *)

AtRest == \A a \in Actors : proc[a] = Idle

(* The removal of x has begun and its entry is still in the map.           *)
Removing(x) ==
  \E a \in Actors : proc[a].rule = x /\ proc[a].pc \in {"unmatch", "uncount", "erase"}

(* The reference count of a rule is the number of signals with handlers    *)
(* that need it, whatever overlaps: the rule neither disappears under a    *)
(* handler nor outlives the last one.                                      *)
MemberReferences ==
  \A r \in Rules :
    refs[r] = IF Removing(r) THEN 1 ELSE Cardinality(SubscribedPaths(r))

(* The same for the bus names that the registry observes.                  *)
OMReferences ==
  \A n \in Names :
    refs[n] = IF Removing(n) THEN 1 ELSE Cardinality(EntriesOf(n))

(* Signals that have handlers reach them: between two operations the       *)
(* filter is installed if there is a rule, after any sequence of           *)
(* subscriptions, disconnects and connects.                                *)
FilterInstalled == AtRest /\ connected /\ Present # {} => filters > 0

(* The counter is the number of rules, so that the last removal, and no    *)
(* other, takes the filter away.                                           *)
CountExact == AtRest /\ connected => count = Cardinality(Present)

(* The bus has each rule once, and no rule that nobody needs any more.     *)
(* (Rules added with justAddFilter reach it with the next connect().)      *)
BusMatchesExact ==
  AtRest /\ connected =>
    \A x \in Matches :
      /\ x \notin Selective \cup MatchFails
           => busMatches[x] = IF x \in Present THEN 1 ELSE 0
      /\ busMatches[x] > 0 => x \in Present

(* The counts of both tables, which share the filter and its counter.      *)
References == MemberReferences /\ OMReferences

(* Filter, counter and bus agree with the two tables between operations.   *)
RulesAgree == FilterInstalled /\ CountExact /\ BusMatchesExact
=============================================================================
