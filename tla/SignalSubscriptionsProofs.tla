--------------------- MODULE SignalSubscriptionsProofs ---------------------
(***************************************************************************)
(* Proofs about SignalSubscriptions: the types, and that the reference     *)
(* counts of both maps of match rules are exact, for any numbers of        *)
(* signals, handlers and names, whatever overlaps and whatever fails; and  *)
(* that filter, counter and bus follow them, when operations come one at a *)
(* time and the bus takes every rule.                                      *)
(***************************************************************************)
EXTENDS SignalSubscriptions, FiniteSetTheorems, TLAPS

-----------------------------------------------------------------------------
(* The inductive invariant.                                                *)

RemovalPcs == {"unmatch", "uncount", "erase"}
AddingPcs  == {"maybeFilter", "match", "count"}

(* Each actor works on rules of its own kind.                              *)
ProcShape ==
  /\ proc["member"].pc \in {"idle", "filter", "match", "count"} \cup RemovalPcs
  /\ proc["member"].pc # "idle" => proc["member"].rule \in Rules
  /\ proc["om"].pc \in {"idle"} \cup AddingPcs \cup RemovalPcs
  /\ proc["om"].pc # "idle" => proc["om"].rule \in Names
  /\ proc["link"].pc \in {"idle", "init", "closing"} \cup AddingPcs
  /\ proc["link"].pc \in AddingPcs => proc["link"].rule \in Matches

RemovedBy(a, x) == proc[a].rule = x /\ proc[a].pc \in RemovalPcs
AddedBy(n) == proc["om"].rule = n /\ proc["om"].pc \in AddingPcs

(* The counts of the rules of proxies; a rule that is being removed has no *)
(* signal left.                                                            *)
MemberCounts ==
  \A r \in Rules :
    IF RemovedBy("member", r)
      THEN refs[r] = 1 /\ SubscribedPaths(r) = {}
      ELSE refs[r] = Cardinality(SubscribedPaths(r))

(* The counts of the names; a name that is being added or removed has no   *)
(* entry.                                                                  *)
OMCounts ==
  \A n \in Names :
    /\ IF RemovedBy("om", n)
         THEN refs[n] = 1 /\ EntriesOf(n) = {}
         ELSE refs[n] = Cardinality(EntriesOf(n))
    /\ AddedBy(n) => EntriesOf(n) = {}

IndInv == TypeOK /\ ProcShape /\ MemberCounts /\ OMCounts

USE SubscriptionsAssumption DEF Matches, Actors

-----------------------------------------------------------------------------
(* Lemmas about the sets that are counted.                                 *)

LEMMA CountedSets ==
  /\ \A r \in Rules : IsFiniteSet(SubscribedPaths(r))
  /\ TypeOK => \A n \in Names : IsFiniteSet(EntriesOf(n))
<1>1. \A r \in Rules : IsFiniteSet(SubscribedPaths(r))
  <2> TAKE r \in Rules
  <2>1. SubscribedPaths(r) \in SUBSET Paths
    BY DEF SubscribedPaths
  <2> QED BY <2>1, FS_Subset
<1>2. ASSUME TypeOK PROVE \A n \in Names : IsFiniteSet(EntriesOf(n))
  <2> TAKE n \in Names
  <2>1. EntriesOf(n) \in SUBSET Entries
    BY <1>2 DEF EntriesOf, TypeOK
  <2> QED BY <2>1, FS_Subset
<1> QED BY <1>1, <1>2

(* What a change of the handlers of one signal does to the number of       *)
(* signals of a rule.                                                      *)
SetHandlers(p, hs) == handlers' = [handlers EXCEPT ![p] = hs]

LEMMA SignalChanged ==
  ASSUME TypeOK, NEW p \in Paths, NEW hs \in SUBSET Handlers,
         SetHandlers(p, hs), NEW r \in Rules
  PROVE  /\ RuleOf[p] # r => SubscribedPaths(r)' = SubscribedPaths(r)
         /\ RuleOf[p] = r => Cardinality(SubscribedPaths(r)') =
              Cardinality(SubscribedPaths(r))
                + (IF hs # {} THEN 1 ELSE 0) - (IF handlers[p] # {} THEN 1 ELSE 0)
         /\ RuleOf[p] = r /\ handlers[p] # {} => Cardinality(SubscribedPaths(r)) > 0
         /\ Cardinality(SubscribedPaths(r)) \in Nat
         /\ Cardinality(SubscribedPaths(r)') \in Nat
         /\ Cardinality(SubscribedPaths(r)') = 0 => SubscribedPaths(r)' = {}
<1> DEFINE S == SubscribedPaths(r)
           T == SubscribedPaths(r)'
<1>1. /\ RuleOf[p] # r => T = S
      /\ RuleOf[p] = r /\ hs = {} => T = S \ {p}
      /\ RuleOf[p] = r /\ hs # {} => T = S \cup {p}
      /\ RuleOf[p] = r => (p \in S <=> handlers[p] # {})
  BY DEF TypeOK, SubscribedPaths, SetHandlers
<1>2. IsFiniteSet(S)
  BY CountedSets
<1> HIDE DEF S, T
<1>3. IsFiniteSet(T)
  BY <1>1, <1>2, FS_AddElement, FS_RemoveElement
<1>4. /\ Cardinality(S) \in Nat /\ Cardinality(T) \in Nat
      /\ Cardinality(S) = 0 <=> S = {}
      /\ Cardinality(T) = 0 <=> T = {}
  BY <1>2, <1>3, FS_CardinalityType, FS_EmptySet
<1>5. /\ Cardinality(S \cup {p}) =
           IF p \in S THEN Cardinality(S) ELSE Cardinality(S) + 1
      /\ Cardinality(S \ {p}) =
           IF p \in S THEN Cardinality(S) - 1 ELSE Cardinality(S)
  BY <1>2, FS_AddElement, FS_RemoveElement
<1>6. RuleOf[p] = r => Cardinality(T) =
        Cardinality(S) + (IF hs # {} THEN 1 ELSE 0)
                       - (IF handlers[p] # {} THEN 1 ELSE 0)
  <2>1. RuleOf[p] = r =>
          Cardinality(T) = IF hs = {} THEN Cardinality(S \ {p})
                                      ELSE Cardinality(S \cup {p})
    BY <1>1, Zenon
  <2> QED BY <1>1, <1>4, <1>5, <2>1
<1>7. RuleOf[p] = r /\ handlers[p] # {} => Cardinality(S) > 0
  BY <1>1, <1>4
<1> QED BY <1>1, <1>4, <1>6, <1>7 DEF S, T

(* The same for the entries of a name.                                     *)
LEMMA EntryAdded ==
  ASSUME TypeOK, NEW e \in Entries, omHandlers' = omHandlers \cup {e},
         NEW n \in Names
  PROVE  /\ NameOf[e] # n => EntriesOf(n)' = EntriesOf(n)
         /\ NameOf[e] = n => Cardinality(EntriesOf(n)') =
              Cardinality(EntriesOf(n)) + (IF e \in omHandlers THEN 0 ELSE 1)
<1> DEFINE S == EntriesOf(n)
           T == EntriesOf(n)'
<1>1. /\ NameOf[e] # n => T = S
      /\ NameOf[e] = n => T = S \cup {e}
      /\ NameOf[e] = n => (e \in S <=> e \in omHandlers)
  BY DEF TypeOK, EntriesOf
<1>2. IsFiniteSet(S)
  BY CountedSets
<1> HIDE DEF S, T
<1>3. Cardinality(S) \in Nat
  BY <1>2, FS_CardinalityType
<1>4. Cardinality(S \cup {e}) =
        IF e \in S THEN Cardinality(S) ELSE Cardinality(S) + 1
  BY <1>2, FS_AddElement
<1>5. NameOf[e] = n => Cardinality(T) =
        Cardinality(S) + (IF e \in omHandlers THEN 0 ELSE 1)
  <2>1. NameOf[e] = n => Cardinality(T) = Cardinality(S \cup {e})
    BY <1>1, Zenon
  <2> QED BY <1>1, <1>3, <1>4, <2>1
<1> QED BY <1>1, <1>5 DEF S, T

LEMMA EntryRemoved ==
  ASSUME TypeOK, NEW e \in omHandlers, omHandlers' = omHandlers \ {e},
         NEW n \in Names
  PROVE  /\ NameOf[e] # n => EntriesOf(n)' = EntriesOf(n)
         /\ NameOf[e] = n =>
              /\ Cardinality(EntriesOf(n)') = Cardinality(EntriesOf(n)) - 1
              /\ Cardinality(EntriesOf(n)) \in Nat \ {0}
              /\ Cardinality(EntriesOf(n)) = 1 => EntriesOf(n)' = {}
<1> DEFINE S == EntriesOf(n)
           T == EntriesOf(n)'
<1>1. /\ NameOf[e] # n => T = S
      /\ NameOf[e] = n => T = S \ {e} /\ e \in S
  BY DEF TypeOK, EntriesOf
<1>2. IsFiniteSet(S)
  BY CountedSets
<1> HIDE DEF S, T
<1>3. /\ Cardinality(S) \in Nat
      /\ Cardinality(S) = 0 <=> S = {}
  BY <1>2, FS_CardinalityType, FS_EmptySet
<1>4. /\ IsFiniteSet(S \ {e})
      /\ e \in S => Cardinality(S \ {e}) = Cardinality(S) - 1
  BY <1>2, FS_RemoveElement
<1>5. Cardinality(S \ {e}) = 0 => S \ {e} = {}
  BY <1>4, FS_EmptySet
<1>6. NameOf[e] = n =>
        /\ Cardinality(T) = Cardinality(S) - 1
        /\ Cardinality(S) \in Nat \ {0}
        /\ Cardinality(S) = 1 => T = {}
  <2>1. NameOf[e] = n => Cardinality(T) = Cardinality(S \ {e}) /\ e \in S
    BY <1>1, Zenon
  <2>2. NameOf[e] = n => S # {}
    BY <1>1
  <2> QED BY <1>1, <1>3, <1>4, <1>5, <2>1, <2>2
<1> QED BY <1>1, <1>6 DEF S, T

-----------------------------------------------------------------------------
(* The types and the shapes of the actors.                                 *)

LEMMA RemoveFromType ==
  ASSUME TypeOK, NEW a \in Actors, NEW x \in Matches, RemoveFrom(a, x)
  PROVE  /\ refs' \in [Matches -> Nat]
         /\ proc' \in [Actors -> [pc : Pcs, rule : Matches \cup {None}]]
  BY DEF RemoveFrom, TypeOK, Become, At, Pcs

LEMMA CountType ==
  ASSUME TypeOK
  PROVE  /\ (count + 1) % SizeT \in 0 .. SizeT - 1
         /\ (count + SizeT - 1) % SizeT \in 0 .. SizeT - 1
  BY DEF TypeOK

LEMMA TypeStep ==
  ASSUME TypeOK, ProcShape, [Next]_vars
  PROVE  TypeOK'
<1> USE DEF TypeOK, Pcs, Idle, At, Become
<1>1. CASE MemberNext
  <2>1. ASSUME NEW p \in Paths, NEW h \in Handlers, AddMember(p, h)
        PROVE  TypeOK'
    BY <2>1 DEF AddMember, libdbus, linkVars
  <2>2. ASSUME NEW p \in Paths, NEW h \in Handlers, AddFirstMember(p, h)
        PROVE  TypeOK'
    BY <2>2 DEF AddFirstMember, libdbus, linkVars
  <2>3. ASSUME NEW p \in Paths, NEW h \in Handlers, RemoveMember(p, h)
        PROVE  TypeOK'
    <3>1. RuleOf[p] \in Matches
      OBVIOUS
    <3>2. refs' \in [Matches -> Nat]
      BY <2>3, <3>1, RemoveFromType DEF RemoveMember
    <3>3. proc' \in [Actors -> [pc : Pcs, rule : Matches \cup {None}]]
      BY <2>3, <3>1, RemoveFromType DEF RemoveMember
    <3> QED BY <2>3, <3>2, <3>3 DEF RemoveMember, libdbus, linkVars
  <2>4. ASSUME AddFilter PROVE TypeOK'
    BY <2>4 DEF AddFilter, tables, linkVars
  <2>5. ASSUME AddMemberMatch PROVE TypeOK'
    BY <2>5, ProcShape DEF AddMemberMatch, tables, linkVars, ProcShape
  <2>6. ASSUME CountMember PROVE TypeOK'
    BY <2>6, CountType DEF CountMember, tables, libdbus, linkVars
  <2> QED BY <1>1, <2>1, <2>2, <2>3, <2>4, <2>5, <2>6 DEF MemberNext
<1>2. CASE OMNext
  <2>1. ASSUME NEW e \in Entries, AddOM(e) PROVE TypeOK'
    BY <2>1 DEF AddOM, libdbus, linkVars
  <2>2. ASSUME NEW e \in Entries, RemoveOM(e) PROVE TypeOK'
    <3>1. NameOf[e] \in Matches
      OBVIOUS
    <3>2. refs' \in [Matches -> Nat]
      BY <2>2, <3>1, RemoveFromType DEF RemoveOM
    <3>3. proc' \in [Actors -> [pc : Pcs, rule : Matches \cup {None}]]
      BY <2>2, <3>1, RemoveFromType DEF RemoveOM
    <3> QED BY <2>2, <3>2, <3>3 DEF RemoveOM, libdbus, linkVars
  <2>3. ASSUME NEW e \in Entries, CountOM(e) PROVE TypeOK'
    BY <2>3, CountType DEF CountOM, libdbus, linkVars
  <2>4. ASSUME NEW n \in Names, AddFirstOM(n) PROVE TypeOK'
    BY <2>4 DEF AddFirstOM, tables, libdbus, linkVars
  <2> QED BY <1>2, <2>1, <2>2, <2>3, <2>4 DEF OMNext
<1>3. CASE LibdbusNext
  <2> PICK a \in Actors :
        \/ AddFilterIfNone(a) \/ AddMatch(a)
        \/ RemoveMatch(a) \/ Uncount(a) \/ EraseRule(a)
    BY <1>3 DEF LibdbusNext
  <2>1. CASE AddFilterIfNone(a)
    BY <2>1 DEF AddFilterIfNone, tables, linkVars
  <2>2. CASE AddMatch(a)
    BY <2>2 DEF AddMatch, tables, linkVars, ProcShape, AddingPcs, RemovalPcs
  <2>3. CASE RemoveMatch(a)
    BY <2>3 DEF RemoveMatch, tables, linkVars, ProcShape, AddingPcs, RemovalPcs
  <2>4. CASE Uncount(a)
    BY <2>4, CountType DEF Uncount, tables, linkVars
  <2>5. CASE EraseRule(a)
    BY <2>5 DEF EraseRule, libdbus, linkVars
  <2> QED BY <2>1, <2>2, <2>3, <2>4, <2>5
<1>4. CASE LinkNext
  <2>1. CASE Connect
    BY <2>1 DEF Connect, tables, Present
  <2>2. ASSUME NEW x \in Matches, InitRule(x) PROVE TypeOK'
    BY <2>2 DEF InitRule, tables, libdbus
  <2>3. CASE CountInit
    BY <2>3, CountType DEF CountInit, tables, libdbus, linkVars
  <2>4. CASE InitEnd
    BY <2>4 DEF InitEnd, tables, libdbus, linkVars
  <2>5. CASE DisconnectBegin
    BY <2>5 DEF DisconnectBegin, tables, linkVars
  <2>6. CASE DisconnectEnd
    BY <2>6 DEF DisconnectEnd, tables, linkVars
  <2> QED BY <1>4, <2>1, <2>2, <2>3, <2>4, <2>5, <2>6 DEF LinkNext
<1>5. CASE UNCHANGED vars
  BY <1>5 DEF vars, tables, libdbus, linkVars
<1> QED BY <1>1, <1>2, <1>3, <1>4, <1>5 DEF Next

LEMMA ShapeStep ==
  ASSUME TypeOK, ProcShape, [Next]_vars
  PROVE  ProcShape'
<1> USE DEF TypeOK, ProcShape, Idle, At, Become, AddingPcs, RemovalPcs
<1>1. CASE MemberNext
  BY <1>1 DEF MemberNext, AddMember, AddFirstMember, RemoveMember, RemoveFrom,
     AddFilter, AddMemberMatch, CountMember
<1>2. CASE OMNext
  BY <1>2 DEF OMNext, AddOM, RemoveOM, RemoveFrom, CountOM, AddFirstOM
<1>3. CASE LibdbusNext
  BY <1>3 DEF LibdbusNext, AddFilterIfNone, AddMatch, RemoveMatch, Uncount,
     EraseRule
<1>4. CASE LinkNext
  BY <1>4 DEF LinkNext, Connect, InitRule, CountInit, InitEnd,
     DisconnectBegin, DisconnectEnd
<1>5. CASE UNCHANGED vars
  BY <1>5 DEF vars
<1> QED BY <1>1, <1>2, <1>3, <1>4, <1>5 DEF Next

-----------------------------------------------------------------------------
(* The counts of the rules of proxies.                                     *)

(* A step that changes neither the handlers of proxies nor the actor that  *)
(* works on their rules keeps the counts.                                  *)
LEMMA MemberFrame ==
  ASSUME MemberCounts, handlers' = handlers,
         \A r \in Rules :
           /\ refs'[r] = refs[r]
           /\ RemovedBy("member", r)' <=> RemovedBy("member", r)
  PROVE  MemberCounts'
<1>1. \A r \in Rules : SubscribedPaths(r)' = SubscribedPaths(r)
  BY DEF SubscribedPaths
<1> QED BY <1>1 DEF MemberCounts

LEMMA MemberStep ==
  ASSUME IndInv, [Next]_vars
  PROVE  MemberCounts'
<1>0. TypeOK /\ ProcShape /\ MemberCounts
  BY DEF IndInv
<1> USE DEF Become, At, Idle
<1>1. ASSUME NEW p \in Paths, NEW h \in Handlers,
             AddMember(p, h) \/ AddFirstMember(p, h)
      PROVE  MemberCounts'
  <2>1. /\ \A r \in Rules : ~RemovedBy("member", r) /\ ~RemovedBy("member", r)'
    BY <1>0, <1>1 DEF RemovedBy, AddMember, AddFirstMember, MayBegin, RemovalPcs,
       TypeOK
  <2>2. PICK hs \in SUBSET Handlers :
          hs # {} /\ handlers' = [handlers EXCEPT ![p] = hs]
    <3>1. handlers[p] \cup {h} \in SUBSET Handlers
      BY <1>0 DEF TypeOK
    <3> QED BY <1>1, <3>1 DEF AddMember, AddFirstMember
  <2>3. refs' = IF handlers[p] # {} THEN refs
                  ELSE [refs EXCEPT ![RuleOf[p]] = @ + 1]
    BY <1>0, <1>1 DEF AddMember, AddFirstMember, TypeOK
  <2>4. ASSUME NEW r \in Rules
        PROVE  refs'[r] = Cardinality(SubscribedPaths(r)')
    <3>1. refs[r] = Cardinality(SubscribedPaths(r)) /\ refs[r] \in Nat
      BY <1>0, <2>1 DEF MemberCounts, TypeOK
    <3>2. refs'[r] = IF RuleOf[p] = r /\ handlers[p] = {} THEN refs[r] + 1
                       ELSE refs[r]
      BY <1>0, <2>3 DEF TypeOK
    <3>3. /\ RuleOf[p] # r => SubscribedPaths(r)' = SubscribedPaths(r)
          /\ RuleOf[p] = r => Cardinality(SubscribedPaths(r)') =
               Cardinality(SubscribedPaths(r))
                 + (IF hs # {} THEN 1 ELSE 0)
                 - (IF handlers[p] # {} THEN 1 ELSE 0)
      <4>1. TypeOK /\ SetHandlers(p, hs)
        BY <1>0, <2>2 DEF SetHandlers
      <4> QED BY <4>1, SignalChanged
    <3> QED BY <2>2, <3>1, <3>2, <3>3
  <2> QED BY <2>1, <2>4 DEF MemberCounts
<1>2. ASSUME NEW p \in Paths, NEW h \in Handlers, RemoveMember(p, h)
      PROVE  MemberCounts'
  <2>1. proc["member"] = Idle
    BY <1>2 DEF RemoveMember, MayBegin
  <2>2. PICK hs \in SUBSET Handlers :
          /\ hs = {} <=> handlers[p] = {h}
          /\ handlers' = [handlers EXCEPT ![p] = hs]
    <3>1. /\ handlers[p] \ {h} \in SUBSET Handlers
          /\ handlers[p] \ {h} = {} <=> handlers[p] = {h}
      BY <1>0, <1>2 DEF TypeOK, RemoveMember
    <3> QED BY <1>2, <3>1 DEF RemoveMember
  <2> DEFINE x == RuleOf[p]
  <2>3. x \in Rules
    OBVIOUS
  <2> HIDE DEF x
  <2>4. \A r \in Rules : refs[r] = Cardinality(SubscribedPaths(r)) /\ refs[r] \in Nat
    BY <1>0, <2>1 DEF MemberCounts, RemovedBy, RemovalPcs, TypeOK
  <2>5. \A r \in Rules \ {x} : SubscribedPaths(r)' = SubscribedPaths(r)
    BY <1>0, <2>2, SignalChanged DEF x, SetHandlers
  <2>6. /\ Cardinality(SubscribedPaths(x)') =
             IF handlers[p] = {h} THEN refs[x] - 1 ELSE refs[x]
        /\ refs[x] > 0
        /\ Cardinality(SubscribedPaths(x)') = 0 => SubscribedPaths(x)' = {}
    <3>1. /\ Cardinality(SubscribedPaths(x)') =
               Cardinality(SubscribedPaths(x))
                 + (IF hs # {} THEN 1 ELSE 0)
                 - (IF handlers[p] # {} THEN 1 ELSE 0)
          /\ handlers[p] # {} => Cardinality(SubscribedPaths(x)) > 0
          /\ Cardinality(SubscribedPaths(x)') = 0 => SubscribedPaths(x)' = {}
      <4>1. TypeOK /\ SetHandlers(p, hs) /\ RuleOf[p] = x
        BY <1>0, <2>2 DEF x, SetHandlers
      <4> QED BY <2>3, <4>1, SignalChanged
    <3>2. handlers[p] # {} /\ refs[x] = Cardinality(SubscribedPaths(x)) /\ refs[x] \in Nat
      BY <1>2, <2>3, <2>4 DEF RemoveMember
    <3> QED BY <2>2, <3>1, <3>2
  <2>7. SUFFICES /\ \A r \in Rules \ {x} : refs'[r] = refs[r] /\ ~RemovedBy("member", r)'
                 /\ IF RemovedBy("member", x)'
                      THEN refs'[x] = 1 /\ SubscribedPaths(x)' = {}
                      ELSE refs'[x] = Cardinality(SubscribedPaths(x)')
    BY <2>3, <2>4, <2>5, <2>7 DEF MemberCounts
  <2>8. CASE handlers[p] # {h}
    BY <1>2, <2>1, <2>3, <2>6, <2>8 DEF RemoveMember, RemovedBy, RemovalPcs
  <2>9. CASE handlers[p] = {h} /\ refs[x] > 1
    BY <1>0, <1>2, <2>1, <2>3, <2>6, <2>9 DEF RemoveMember, RemovedBy, RemovalPcs,
       TypeOK, x
  <2>10. CASE handlers[p] = {h} /\ refs[x] <= 1
    <3>1. refs[x] = 1 /\ SubscribedPaths(x)' = {}
      BY <2>3, <2>4, <2>6, <2>10
    <3>2. RemoveFrom("member", x)
      BY <1>2, <2>3, <2>4, <2>10 DEF RemoveMember, x
    <3> QED BY <1>0, <2>1, <2>3, <2>6, <2>10, <3>1, <3>2
            DEF RemoveFrom, RemovedBy, RemovalPcs, TypeOK
  <2> QED BY <2>3, <2>4, <2>8, <2>9, <2>10
<1> USE <1>0 DEF TypeOK
<1>3. CASE AddFilter \/ AddMemberMatch \/ CountMember
  BY <1>3, MemberFrame DEF AddFilter, AddMemberMatch, CountMember, tables, RemovedBy,
     RemovalPcs
<1>4. CASE OMNext
  BY <1>4, MemberFrame DEF OMNext, AddOM, RemoveOM, RemoveFrom, CountOM,
     AddFirstOM, tables, ProcShape, RemovedBy
<1>5. ASSUME NEW a \in Actors, AddFilterIfNone(a) \/ AddMatch(a)
      PROVE  MemberCounts'
  BY <1>5, MemberFrame DEF AddFilterIfNone, AddMatch, ProcShape, RemovalPcs,
     RemovedBy, tables
<1>6. ASSUME NEW a \in Actors, RemoveMatch(a) \/ Uncount(a)
      PROVE  MemberCounts'
  BY <1>6, MemberFrame DEF RemoveMatch, Uncount, tables, RemovedBy, RemovalPcs
<1>7. ASSUME NEW a \in Actors, EraseRule(a) PROVE MemberCounts'
  <2>1. CASE a = "member"
    <3>1. /\ refs' = [refs EXCEPT ![proc["member"].rule] = 0]
          /\ proc'["member"] = Idle /\ proc["member"].pc = "erase"
          /\ handlers' = handlers /\ proc["member"].rule \in Rules
      BY <1>7, <2>1 DEF EraseRule, ProcShape
    <3>2. SubscribedPaths(proc["member"].rule) = {}
      BY <3>1 DEF MemberCounts, RemovedBy, RemovalPcs
    <3>3. \A r \in Rules : SubscribedPaths(r)' = SubscribedPaths(r)
      BY <3>1 DEF SubscribedPaths
    <3>4. ASSUME NEW r \in Rules
          PROVE  ~RemovedBy("member", r)' /\ refs'[r] = Cardinality(SubscribedPaths(r)')
      <4>1. ~RemovedBy("member", r)'
        BY <3>1 DEF RemovedBy, RemovalPcs
      <4>2. CASE r = proc["member"].rule
        BY <3>1, <3>2, <3>3, <4>1, <4>2, FS_EmptySet
      <4>3. CASE r # proc["member"].rule
        BY <3>1, <3>3, <4>1, <4>3 DEF MemberCounts, RemovedBy
      <4> QED BY <4>2, <4>3
    <3> QED BY <3>4 DEF MemberCounts
  <2>2. CASE a # "member"
    BY <1>7, <2>2, MemberFrame DEF EraseRule, ProcShape, AddingPcs, RemovalPcs,
       RemovedBy
  <2> QED BY <2>1, <2>2
<1>8. CASE LinkNext
  BY <1>8, MemberFrame DEF LinkNext, Connect, InitRule, CountInit, InitEnd,
     DisconnectBegin, DisconnectEnd, tables, RemovedBy
<1>9. CASE UNCHANGED vars
  BY <1>9, MemberFrame DEF vars, tables, RemovedBy
<1> QED BY <1>1, <1>2, <1>3, <1>4, <1>5, <1>6, <1>7, <1>8, <1>9
        DEF Next, MemberNext, LibdbusNext

-----------------------------------------------------------------------------
(* The counts of the names.                                                *)

LEMMA OMFrame ==
  ASSUME OMCounts, omHandlers' = omHandlers,
         \A n \in Names :
           /\ refs'[n] = refs[n]
           /\ RemovedBy("om", n)' <=> RemovedBy("om", n)
           /\ AddedBy(n)' => AddedBy(n)
  PROVE  OMCounts'
<1>1. \A n \in Names : EntriesOf(n)' = EntriesOf(n)
  BY DEF EntriesOf
<1> QED BY <1>1 DEF OMCounts

LEMMA OMStep ==
  ASSUME IndInv, [Next]_vars
  PROVE  OMCounts'
<1>0. TypeOK /\ ProcShape /\ OMCounts
  BY DEF IndInv
<1> USE DEF Become, At, Idle
<1>1. ASSUME NEW e \in Entries, AddOM(e) PROVE OMCounts'
  <2>1. \A n \in Names : /\ ~RemovedBy("om", n) /\ ~RemovedBy("om", n)'
                        /\ ~AddedBy(n)'
    BY <1>0, <1>1 DEF RemovedBy, AddedBy, AddOM, MayBegin, RemovalPcs, AddingPcs
  <2>2. ASSUME NEW n \in Names PROVE refs'[n] = Cardinality(EntriesOf(n)')
    <3>1. refs[n] = Cardinality(EntriesOf(n))
      BY <1>0, <2>1 DEF OMCounts
    <3>2. refs'[n] = IF NameOf[e] = n THEN refs[n] + 1 ELSE refs[n]
      BY <1>0, <1>1 DEF TypeOK, AddOM
    <3>3. omHandlers' = omHandlers \cup {e} /\ e \notin omHandlers
      BY <1>1 DEF AddOM
    <3>4. /\ NameOf[e] # n => EntriesOf(n)' = EntriesOf(n)
          /\ NameOf[e] = n => Cardinality(EntriesOf(n)') =
               Cardinality(EntriesOf(n)) + (IF e \in omHandlers THEN 0 ELSE 1)
      BY <1>0, <3>3, EntryAdded
    <3> QED BY <3>1, <3>2, <3>3, <3>4
  <2> QED BY <2>1, <2>2 DEF OMCounts
<1>2. ASSUME NEW e \in Entries, CountOM(e) PROVE OMCounts'
  <2>1. \A n \in Names : /\ ~RemovedBy("om", n) /\ ~RemovedBy("om", n)'
                        /\ ~AddedBy(n)'
    BY <1>0, <1>2 DEF RemovedBy, AddedBy, CountOM, RemovalPcs, AddingPcs, TypeOK
  <2>2. omHandlers' = omHandlers \cup {e}
    BY <1>2 DEF CountOM
  <2>3. EntriesOf(NameOf[e]) = {} /\ e \notin omHandlers
    BY <1>0, <1>2 DEF OMCounts, AddedBy, AddingPcs, CountOM, EntriesOf
  <2>4. ASSUME NEW n \in Names PROVE refs'[n] = Cardinality(EntriesOf(n)')
    <3>1. refs[n] = Cardinality(EntriesOf(n))
      BY <1>0, <2>1 DEF OMCounts
    <3>2. refs'[n] = IF NameOf[e] = n THEN 1 ELSE refs[n]
      BY <1>0, <1>2 DEF TypeOK, CountOM
    <3>3. /\ NameOf[e] # n => EntriesOf(n)' = EntriesOf(n)
          /\ NameOf[e] = n => Cardinality(EntriesOf(n)') =
               Cardinality(EntriesOf(n)) + (IF e \in omHandlers THEN 0 ELSE 1)
      BY <1>0, <2>2, EntryAdded
    <3>4. Cardinality(EntriesOf(NameOf[e])) = 0
      BY <2>3, FS_EmptySet, Zenon
    <3> QED BY <2>3, <3>1, <3>2, <3>3, <3>4
  <2> QED BY <2>1, <2>4 DEF OMCounts
<1>3. ASSUME NEW n \in Names, AddFirstOM(n) PROVE OMCounts'
  <2>1. IsFiniteSet(EntriesOf(n)) /\ refs[n] = Cardinality(EntriesOf(n))
    BY <1>0, <1>3, CountedSets
       DEF OMCounts, AddFirstOM, MayBegin, RemovedBy, RemovalPcs
  <2>2. EntriesOf(n) = {}
    BY <1>3, <2>1, FS_EmptySet DEF AddFirstOM
  <2>3. \A m \in Names : EntriesOf(m)' = EntriesOf(m)
    BY <1>3 DEF AddFirstOM, tables, EntriesOf
  <2>4. /\ refs' = refs
        /\ \A m \in Names : ~RemovedBy("om", m) /\ ~RemovedBy("om", m)'
        /\ \A m \in Names : AddedBy(m)' => m = n
    BY <1>0, <1>3 DEF AddFirstOM, MayBegin, tables, RemovedBy, RemovalPcs, AddedBy,
       TypeOK
  <2> QED BY <1>0, <2>2, <2>3, <2>4 DEF OMCounts
<1>4. ASSUME NEW e \in Entries, RemoveOM(e) PROVE OMCounts'
  <2> DEFINE x == NameOf[e]
  <2>1. x \in Names
    OBVIOUS
  <2> HIDE DEF x
  <2>2. proc["om"] = Idle /\ e \in omHandlers /\ omHandlers' = omHandlers \ {e}
    BY <1>4 DEF RemoveOM, MayBegin
  <2>3. \A n \in Names : refs[n] = Cardinality(EntriesOf(n)) /\ refs[n] \in Nat
    BY <1>0, <2>2 DEF OMCounts, RemovedBy, RemovalPcs, TypeOK
  <2>4. \A n \in Names \ {x} : EntriesOf(n)' = EntriesOf(n)
    BY <1>0, <2>2, EntryRemoved DEF x
  <2>5. /\ Cardinality(EntriesOf(x)') = refs[x] - 1
        /\ refs[x] # 0
        /\ refs[x] = 1 => EntriesOf(x)' = {}
    <3>1. /\ Cardinality(EntriesOf(x)') = Cardinality(EntriesOf(x)) - 1
          /\ Cardinality(EntriesOf(x)) \in Nat \ {0}
          /\ Cardinality(EntriesOf(x)) = 1 => EntriesOf(x)' = {}
      BY <1>0, <2>1, <2>2, EntryRemoved DEF x
    <3> QED BY <2>1, <2>3, <3>1
  <2>6. SUFFICES /\ \A n \in Names \ {x} : refs'[n] = refs[n] /\ ~RemovedBy("om", n)'
                 /\ \A n \in Names : ~AddedBy(n)'
                 /\ IF RemovedBy("om", x)'
                      THEN refs'[x] = 1 /\ EntriesOf(x)' = {}
                      ELSE refs'[x] = Cardinality(EntriesOf(x)')
    BY <2>1, <2>3, <2>4, <2>6 DEF OMCounts
  <2>7. CASE refs[x] > 1
    BY <1>0, <1>4, <2>1, <2>2, <2>3, <2>5, <2>7
       DEF RemoveOM, RemovedBy, AddedBy, RemovalPcs, AddingPcs, TypeOK, x
  <2>8. CASE ~(refs[x] > 1)
    <3>1. refs[x] = 1 /\ EntriesOf(x)' = {}
      BY <2>1, <2>3, <2>5, <2>8
    <3>2. RemoveFrom("om", x)
      BY <1>4, <2>8 DEF RemoveOM, x
    <3> QED BY <1>0, <2>1, <2>2, <2>5, <3>1, <3>2
            DEF RemoveFrom, RemovedBy, AddedBy, RemovalPcs, AddingPcs, TypeOK
  <2> QED BY <2>7, <2>8
<1> USE <1>0 DEF TypeOK
<1>5. CASE MemberNext
  BY <1>5, OMFrame DEF MemberNext, AddMember, AddFirstMember, RemoveMember,
     RemoveFrom, AddFilter, AddMemberMatch, CountMember, tables, ProcShape,
     RemovedBy, AddedBy
<1>6. ASSUME NEW a \in Actors, AddFilterIfNone(a) \/ AddMatch(a)
      PROVE  OMCounts'
  BY <1>6, OMFrame DEF AddFilterIfNone, AddMatch, ProcShape, RemovalPcs,
     AddingPcs, RemovedBy, AddedBy, tables
<1>7. ASSUME NEW a \in Actors, RemoveMatch(a) \/ Uncount(a)
      PROVE  OMCounts'
  BY <1>7, OMFrame DEF RemoveMatch, Uncount, tables, RemovedBy, AddedBy,
     RemovalPcs, AddingPcs
<1>8. ASSUME NEW a \in Actors, EraseRule(a) PROVE OMCounts'
  <2>1. CASE a = "om"
    <3>1. /\ refs' = [refs EXCEPT ![proc["om"].rule] = 0]
          /\ proc'["om"] = Idle /\ proc["om"].pc = "erase"
          /\ omHandlers' = omHandlers /\ proc["om"].rule \in Names
      BY <1>8, <2>1 DEF EraseRule, ProcShape
    <3>2. EntriesOf(proc["om"].rule) = {}
      BY <3>1 DEF OMCounts, RemovedBy, RemovalPcs
    <3>3. \A n \in Names : EntriesOf(n)' = EntriesOf(n)
      BY <3>1 DEF EntriesOf
    <3>4. Cardinality(EntriesOf(proc["om"].rule)) = 0
      BY <3>2, FS_EmptySet, Zenon
    <3>5. ASSUME NEW n \in Names
          PROVE  /\ ~RemovedBy("om", n)' /\ ~AddedBy(n)'
                 /\ refs'[n] = Cardinality(EntriesOf(n)')
      <4>1. ~RemovedBy("om", n)' /\ ~AddedBy(n)'
        BY <3>1 DEF RemovedBy, AddedBy, RemovalPcs, AddingPcs
      <4>2. CASE n = proc["om"].rule
        BY <3>1, <3>3, <3>4, <4>1, <4>2
      <4>3. CASE n # proc["om"].rule
        BY <3>1, <3>3, <4>1, <4>3 DEF OMCounts, RemovedBy
      <4> QED BY <4>2, <4>3
    <3> QED BY <3>5 DEF OMCounts
  <2>2. CASE a # "om"
    BY <1>8, <2>2, OMFrame DEF EraseRule, ProcShape, AddingPcs, RemovalPcs,
       RemovedBy, AddedBy
  <2> QED BY <2>1, <2>2
<1>9. CASE LinkNext
  BY <1>9, OMFrame DEF LinkNext, Connect, InitRule, CountInit, InitEnd,
     DisconnectBegin, DisconnectEnd, tables, RemovedBy, AddedBy
<1>10. CASE UNCHANGED vars
  BY <1>10, OMFrame DEF vars, tables, RemovedBy, AddedBy
<1> QED BY <1>1, <1>2, <1>3, <1>4, <1>5, <1>6, <1>7, <1>8, <1>9, <1>10
        DEF Next, OMNext, LibdbusNext

-----------------------------------------------------------------------------
(* The theorems.                                                           *)

LEMMA InitIndInv == Init => IndInv
<1> SUFFICES ASSUME Init PROVE IndInv
  OBVIOUS
<1>1. TypeOK /\ ProcShape
  <2>1. Idle \in [pc : Pcs, rule : Matches \cup {None}]
    BY DEF Idle, Pcs
  <2>2. TypeOK
    <3>1. /\ count \in 0 .. SizeT - 1 /\ connects \in 0 .. MaxConnects
          /\ filters \in Nat
      <4>1. SizeT \in Nat \ {0} /\ MaxConnects \in Nat
        OBVIOUS
      <4> QED BY <4>1 DEF Init
    <3>4. connected \in BOOLEAN
      BY Zenon DEF Init
    <3>2. /\ handlers \in [Paths -> SUBSET Handlers]
          /\ omHandlers \subseteq Entries
          /\ refs \in [Matches -> Nat] /\ busMatches \in [Matches -> Nat]
          /\ proc \in [Actors -> [pc : Pcs, rule : Matches \cup {None}]]
      BY <2>1 DEF Init
    <3>3. todo \subseteq Matches /\ done \subseteq Matches
      BY DEF Init
    <3> QED BY <3>1, <3>2, <3>3, <3>4 DEF TypeOK
  <2>3. ProcShape
    BY DEF Init, ProcShape, Idle, AddingPcs, RemovalPcs
  <2> QED BY <2>2, <2>3
<1>2. \A r \in Rules : SubscribedPaths(r) = {}
  BY DEF Init, SubscribedPaths
<1>3. \A n \in Names : EntriesOf(n) = {}
  BY DEF Init, EntriesOf
<1>4. Cardinality({}) = 0
  BY FS_EmptySet
<1>5. MemberCounts
  BY <1>2, <1>4 DEF Init, MemberCounts, RemovedBy, Idle, RemovalPcs
<1>6. OMCounts
  BY <1>3, <1>4 DEF Init, OMCounts, RemovedBy, AddedBy, Idle, RemovalPcs, AddingPcs
<1> QED BY <1>1, <1>5, <1>6 DEF IndInv

THEOREM Inductive == Spec => []IndInv
<1>1. IndInv /\ [Next]_vars => IndInv'
  BY TypeStep, ShapeStep, MemberStep, OMStep DEF IndInv
<1> QED BY InitIndInv, <1>1, PTL DEF Spec

(* Type correctness of the tables, the counter and the actors.             *)
THEOREM TypeCorrect == Spec => []TypeOK
<1>1. IndInv => TypeOK
  BY DEF IndInv
<1> QED BY Inductive, <1>1, PTL

(* No overlap of subscriptions, connects and disconnects, and no failure   *)
(* of libdbus, makes the reference count of a proxy's rule or of a bus     *)
(* name that the registry observes wrong.                                  *)
THEOREM ReferencesExact == Spec => []References
<1>1. IndInv => MemberReferences
  <2> SUFFICES ASSUME IndInv, NEW r \in Rules
               PROVE  refs[r] = IF Removing(r) THEN 1
                                  ELSE Cardinality(SubscribedPaths(r))
    BY DEF MemberReferences
  <2>1. Removing(r) <=> RemovedBy("member", r)
    BY DEF IndInv, ProcShape, Removing, RemovedBy, RemovalPcs, AddingPcs
  <2> QED BY <2>1 DEF IndInv, MemberCounts
<1>2. IndInv => OMReferences
  <2> SUFFICES ASSUME IndInv, NEW n \in Names
               PROVE  refs[n] = IF Removing(n) THEN 1 ELSE Cardinality(EntriesOf(n))
    BY DEF OMReferences
  <2>1. Removing(n) <=> RemovedBy("om", n)
    BY DEF IndInv, ProcShape, Removing, RemovedBy, RemovalPcs, AddingPcs
  <2> QED BY <2>1 DEF IndInv, OMCounts
<1>3. IndInv => References
  BY <1>1, <1>2 DEF References
<1> QED BY Inductive, <1>3, PTL

-----------------------------------------------------------------------------
(* One operation at a time.                                                *)

(* What filter and counter need: operations do not overlap, the bus takes  *)
(* every rule, and the counter has a value for each number of rules.       *)
Sequential ==
  /\ Overlap = {} /\ MatchFails = {}
  /\ IsFiniteSet(Matches) /\ Cardinality(Matches) < SizeT

(* One actor at most is at work, and only while there is a connection.     *)
Alone ==
  /\ \A a, b \in Actors : a # b => proc[a] = Idle \/ proc[b] = Idle
  /\ \A a \in Actors : proc[a] # Idle => connected

(* While connect() walks over the rules, the ones it has visited are the   *)
(* ones that the connection knows; otherwise these are the ones present.   *)
Restoring == proc["link"].pc \in {"init"} \cup AddingPcs
Known == IF Restoring THEN done ELSE Present
Visited ==
  Restoring =>
    /\ todo = Present /\ done \subseteq Present
    /\ proc["link"].pc \in AddingPcs => proc["link"].rule \in done

(* A new rule of a proxy is in the map at once, that of a name after it    *)
(* was counted.                                                            *)
Entered ==
  /\ proc["member"].pc # "idle" => proc["member"].rule \in Present
  /\ proc["om"].pc \in AddingPcs => proc["om"].rule \notin Present
  /\ proc["om"].pc \in RemovalPcs => proc["om"].rule \in Present

(* What is counted: all that is known but for the rule at work, before it  *)
(* is counted or after its removal was.                                    *)
Works(x, pcs) == \E a \in Actors : proc[a].rule = x /\ proc[a].pc \in pcs
Counted ==
  {x \in Known : ~Works(x, {"filter", "maybeFilter", "match", "count", "erase"})}
Unlinked == ~connected \/ proc["link"].pc = "closing"
CountFollows == count = IF Unlinked THEN 0 ELSE Cardinality(Counted)

(* What the bus was told, and what it knows of that.                       *)
Told(x) ==
  /\ x \in Known \/ Works(x, {"count"})
  /\ ~Works(x, {"filter", "maybeFilter", "match", "uncount", "erase"})
BusFollows ==
  ~Unlinked =>
    \A x \in Matches :
      /\ busMatches[x] \in {0, 1}
      /\ Told(x) /\ x \notin Selective => busMatches[x] = 1
      /\ ~Told(x) => busMatches[x] = 0

(* Whoever counts rules, or is about to, has the filter installed.         *)
FilterFollows ==
  count > 0 \/ (\E a \in Actors : proc[a].pc \in {"match", "count"}) => filters > 0

SeqInv ==
  Alone /\ Visited /\ Entered /\ CountFollows /\ BusFollows /\ FilterFollows

(* Operations begin when nobody is at work.                                *)
LEMMA Begins ==
  ASSUME Sequential, NEW a \in Actors, NEW operation, MayBegin(a, operation)
  PROVE  \A b \in Actors : proc[b] = Idle
BY DEF Sequential, MayBegin

LEMMA PresentType == Present \subseteq Matches
BY DEF Present

(* The rules that are counted are finitely many, and fewer than the        *)
(* counter has values.                                                     *)
LEMMA CountedFinite ==
  ASSUME Sequential, NEW S \in SUBSET Matches
  PROVE  /\ IsFiniteSet(S) /\ Cardinality(S) \in Nat /\ Cardinality(S) < SizeT
         /\ Cardinality(S) = 0 <=> S = {}
         /\ \A x \in S : Cardinality(S \ {x}) = Cardinality(S) - 1
         /\ \A x \in Matches \ S : Cardinality(S \cup {x}) = Cardinality(S) + 1
<1>1. IsFiniteSet(S) /\ Cardinality(S) <= Cardinality(Matches)
  BY FS_Subset DEF Sequential
<1>2. Cardinality(S) \in Nat /\ Cardinality(Matches) \in Nat
  BY <1>1, FS_CardinalityType DEF Sequential
<1>3. Cardinality(S) < SizeT
  BY <1>1, <1>2 DEF Sequential
<1> QED
  BY <1>1, <1>2, <1>3, FS_EmptySet, FS_AddElement, FS_RemoveElement

(* A step that leaves the connection, the counter and the actors alone,    *)
(* and changes the rules in the maps only while there is no connection.    *)
LEMMA QuietStep ==
  ASSUME IndInv, SeqInv, UNCHANGED <<proc, count, libdbus, linkVars>>,
         Present' = Present \/ ~connected
  PROVE  SeqInv'
<1>1. CASE Present' = Present
  <2>1. Known' = Known /\ (Restoring' <=> Restoring) /\ (Unlinked' <=> Unlinked)
    BY <1>1 DEF Known, Restoring, linkVars, libdbus, Unlinked
  <2>2. Counted' = Counted /\ \A x : Told(x)' <=> Told(x)
    BY <2>1 DEF Counted, Told, Works
  <2> QED BY <1>1, <2>1, <2>2 DEF SeqInv, Alone, Visited, Entered, CountFollows,
        BusFollows, FilterFollows, libdbus, linkVars
<1>2. CASE ~connected
  <2>1. \A a \in Actors : proc[a] = Idle
    BY <1>2 DEF SeqInv, Alone
  <2>2. Unlinked /\ Unlinked' /\ ~Restoring'
    BY <1>2, <2>1 DEF Unlinked, libdbus, Restoring, Idle, AddingPcs
  <2> QED BY <2>1, <2>2 DEF SeqInv, Alone, Visited, Entered, CountFollows,
        BusFollows, FilterFollows, libdbus, linkVars, Idle, AddingPcs, RemovalPcs
<1> QED BY <1>1, <1>2

(* A step that has one actor begin to add or to remove a rule.             *)
LEMMA BeginStep ==
  ASSUME IndInv, SeqInv, \A b \in Actors : proc[b] = Idle, connected,
         NEW a \in {"member", "om"}, NEW pc, NEW x \in Matches,
         Become(a, At(pc, x)), UNCHANGED <<count, libdbus, linkVars>>,
         a = "member" => x \in Rules, a = "om" => x \in Names,
         \/ pc = "unmatch" /\ Present' = Present /\ x \in Present
         \/ pc \in {"filter", "match"} /\ a = "member" /\ x \notin Present
              /\ Present' = Present \cup {x} /\ (pc = "match" => count > 0)
         \/ pc = "maybeFilter" /\ a = "om" /\ x \notin Present /\ Present' = Present
  PROVE  SeqInv'
<1>1. /\ proc'[a] = At(pc, x)
      /\ \A b \in Actors \ {a} : proc'[b] = Idle
  BY DEF IndInv, TypeOK, Become
<1>2. /\ ~Restoring /\ ~Restoring' /\ Known = Present /\ Known' = Present'
      /\ ~Unlinked /\ ~Unlinked'
  BY <1>1 DEF Restoring, Known, Unlinked, Idle, AddingPcs, libdbus
<1>3. Counted = Present /\ \A y \in Matches : Told(y) <=> y \in Present
  BY <1>2, PresentType DEF Counted, Told, Works, Idle
<1>4. /\ \A y, pcs : Works(y, pcs)' <=> (y = x /\ pc \in pcs) \/ (y = None /\ "idle" \in pcs)
  BY <1>1 DEF Works, Idle, At
<1>5. Counted' = Present
  BY <1>2, <1>4, PresentType DEF Counted
<1>6. \A y \in Matches : Told(y)' <=> y \in Present
  BY <1>2, <1>4, PresentType DEF Told
<1>7. Alone'
  BY <1>1 DEF Alone, libdbus
<1>8. Visited' /\ Entered'
  BY <1>1, <1>2 DEF Visited, Entered, Idle, At, AddingPcs, RemovalPcs
<1>9. CountFollows' /\ BusFollows'
  BY <1>2, <1>3, <1>5, <1>6 DEF SeqInv, CountFollows, BusFollows, libdbus
<1>10. FilterFollows'
  BY <1>1 DEF SeqInv, FilterFollows, libdbus, Idle, At
<1> QED BY <1>7, <1>8, <1>9, <1>10 DEF SeqInv

(* The removal of a rule begins, or is over at once.                       *)
LEMMA RemovalStep ==
  ASSUME IndInv, Sequential, SeqInv, \A b \in Actors : proc[b] = Idle,
         NEW a \in {"member", "om"}, NEW x \in Present,
         a = "member" => x \in Rules, a = "om" => x \in Names,
         RemoveFrom(a, x), UNCHANGED <<count, libdbus, linkVars>>
  PROVE  SeqInv'
<1>0. x \in Matches
  BY PresentType
<1>1. CASE connected
  <2>1. Known = Present /\ Counted = Present /\ ~Unlinked
    BY <1>1, PresentType DEF Known, Counted, Works, Restoring, Unlinked, Idle, AddingPcs
  <2>2. count # 0
    BY <2>1, PresentType, CountedFinite DEF SeqInv, CountFollows
  <2>3. Become(a, At("unmatch", x)) /\ Present' = Present
    BY <1>1, <2>2 DEF RemoveFrom, Present
  <2> QED BY <1>0, <1>1, <2>3, BeginStep
<1>2. CASE ~connected
  BY <1>2, QuietStep DEF RemoveFrom
<1> QED BY <1>1, <1>2

(* A step of the actor at work on rule x from one place to the next; what  *)
(* it does to the counter, the bus and the filter is left to the cases.    *)
Advances(a, pc) ==
  /\ a \in Actors /\ proc[a] # Idle
  /\ Become(a, At(pc, proc[a].rule))
  /\ UNCHANGED <<tables, connected, linkVars>>

LEMMA AdvanceStep ==
  ASSUME IndInv, SeqInv, NEW a, NEW pc, Advances(a, pc), NEW x, x = proc[a].rule,
         pc \in {"match", "count", "uncount", "erase"},
         proc[a].pc \in AddingPcs \cup RemovalPcs \cup {"filter"},
         pc \in AddingPcs <=> proc[a].pc \in AddingPcs \cup {"filter"}
  PROVE  /\ x \in Matches
         /\ Alone' /\ Visited' /\ Entered'
         /\ ~Unlinked /\ ~Unlinked'
         /\ Known' = Known /\ x \in Known \cup (IF a = "om" THEN {x} ELSE {})
         /\ \A b \in Actors \ {a} : proc[b] = Idle /\ proc'[b] = Idle
         /\ proc'[a] = At(pc, x)
         /\ \A y \in Matches : \A pcs : Works(y, pcs) <=> y = x /\ proc[a].pc \in pcs
         /\ \A y \in Matches : \A pcs : Works(y, pcs)' <=> y = x /\ pc \in pcs
<1>1. /\ proc'[a] = At(pc, x) /\ a \in Actors
      /\ \A b \in Actors \ {a} : proc[b] = Idle /\ proc'[b] = Idle
      /\ connected
  BY DEF IndInv, TypeOK, Become, Advances, SeqInv, Alone
<1>2. x \in Matches /\ (a = "link" => proc[a].pc \in AddingPcs /\ pc \in AddingPcs)
  BY <1>1 DEF IndInv, ProcShape, AddingPcs, RemovalPcs
<1>3. ~Unlinked /\ ~Unlinked' /\ (Restoring' <=> Restoring) /\ (Restoring <=> a = "link")
  BY <1>1, <1>2 DEF Unlinked, Restoring, Idle, At, AddingPcs, RemovalPcs, Advances
<1>4. Present' = Present /\ Known' = Known
  BY <1>3 DEF Present, Known, Advances, tables, linkVars
<1>5. Alone'
  BY <1>1 DEF Alone, Advances
<1>6. Visited'
  BY <1>1, <1>2, <1>3, <1>4 DEF SeqInv, Visited, Advances, linkVars, At
<1>7. Entered'
  BY <1>1, <1>4 DEF SeqInv, Entered, Idle, At, AddingPcs, RemovalPcs,
     IndInv, ProcShape
<1>8. /\ \A y \in Matches : \A pcs : Works(y, pcs) <=> y = x /\ proc[a].pc \in pcs
      /\ \A y \in Matches : \A pcs : Works(y, pcs)' <=> y = x /\ pc \in pcs
  <2>1. proc[a].rule = x /\ proc'[a].rule = x /\ proc'[a].pc = pc /\ Idle.rule = None
    BY <1>1 DEF At, Idle
  <2> QED BY <1>1, <2>1 DEF Works
<1>9. x \in Known \cup (IF a = "om" THEN {x} ELSE {})
  BY <1>1, <1>2, <1>3 DEF SeqInv, Entered, Visited, Known, AddingPcs, RemovalPcs
<1> QED BY <1>1, <1>2, <1>3, <1>4, <1>5, <1>6, <1>7, <1>8, <1>9

(* The filter is added, or is there already.                               *)
LEMMA FilterStep ==
  ASSUME IndInv, SeqInv, NEW a, Advances(a, "match"),
         proc[a].pc \in {"filter", "maybeFilter"},
         UNCHANGED <<count, busMatches>>,
         \/ filters' = filters + 1
         \/ filters' = filters /\ count # 0
  PROVE  SeqInv'
<1> DEFINE x == proc[a].rule
<1>1. /\ x \in Matches
      /\ Alone' /\ Visited' /\ Entered'
      /\ ~Unlinked /\ ~Unlinked' /\ Known' = Known
      /\ \A y \in Matches : \A pcs : Works(y, pcs) <=> y = x /\ proc[a].pc \in pcs
      /\ \A y \in Matches : \A pcs : Works(y, pcs)' <=> y = x /\ "match" \in pcs
  BY AdvanceStep DEF AddingPcs, RemovalPcs
<1>2. Known \subseteq Matches
  BY PresentType DEF Known, IndInv, TypeOK
<1>3. Counted' = Counted /\ \A y \in Matches : Told(y)' <=> Told(y)
  BY <1>1, <1>2 DEF Counted, Told
<1>4. CountFollows' /\ BusFollows'
  BY <1>1, <1>3 DEF SeqInv, CountFollows, BusFollows
<1>5. filters' > 0
  BY DEF SeqInv, FilterFollows, IndInv, TypeOK
<1> QED BY <1>1, <1>4, <1>5 DEF SeqInv, FilterFollows

(* The rule goes to the bus.                                               *)
LEMMA MatchStep ==
  ASSUME IndInv, SeqInv, NEW a, Advances(a, "count"), proc[a].pc = "match",
         UNCHANGED <<count, filters>>,
         \/ busMatches' = [busMatches EXCEPT ![proc[a].rule] = @ + 1]
         \/ proc[a].rule \in Selective /\ UNCHANGED busMatches
  PROVE  SeqInv'
<1> DEFINE x == proc[a].rule
<1>1. /\ x \in Matches
      /\ Alone' /\ Visited' /\ Entered'
      /\ ~Unlinked /\ ~Unlinked' /\ Known' = Known
      /\ \A y \in Matches : \A pcs : Works(y, pcs) <=> y = x /\ proc[a].pc \in pcs
      /\ \A y \in Matches : \A pcs : Works(y, pcs)' <=> y = x /\ "count" \in pcs
  BY AdvanceStep DEF AddingPcs, RemovalPcs
<1>2. Known \subseteq Matches
  BY PresentType DEF Known, IndInv, TypeOK
<1>3. /\ Counted' = Counted
      /\ \A y \in Matches : Told(y)' <=> Told(y) \/ y = x
      /\ ~Told(x)
  BY <1>1, <1>2 DEF Counted, Told
<1>4. CountFollows'
  BY <1>1, <1>3 DEF SeqInv, CountFollows
<1>5. BusFollows'
  BY <1>1, <1>3 DEF SeqInv, BusFollows, IndInv, TypeOK
<1>6. filters > 0
  BY DEF SeqInv, FilterFollows, Advances
<1> QED BY <1>1, <1>4, <1>5, <1>6 DEF SeqInv, FilterFollows

(* The rule is taken from the bus.                                         *)
LEMMA UnmatchStep ==
  ASSUME IndInv, SeqInv, NEW a \in Actors, RemoveMatch(a)
  PROVE  SeqInv'
<1> DEFINE x == proc[a].rule
<1>0. Advances(a, "uncount") /\ proc[a].pc = "unmatch"
  BY DEF RemoveMatch, Advances, Idle
<1>1. /\ x \in Matches
      /\ Alone' /\ Visited' /\ Entered'
      /\ ~Unlinked /\ ~Unlinked' /\ Known' = Known
      /\ \A y \in Matches : \A pcs : Works(y, pcs) <=> y = x /\ proc[a].pc \in pcs
      /\ \A y \in Matches : \A pcs : Works(y, pcs)' <=> y = x /\ "uncount" \in pcs
      /\ \A b \in Actors \ {a} : proc[b] = Idle /\ proc'[b] = Idle
      /\ proc'[a] = At("uncount", x)
  BY <1>0, AdvanceStep DEF AddingPcs, RemovalPcs
<1>2. Known \subseteq Matches
  BY PresentType DEF Known, IndInv, TypeOK
<1>3. /\ Counted' = Counted
      /\ \A y \in Matches : Told(y)' <=> Told(y) /\ y # x
  BY <1>0, <1>1, <1>2 DEF Counted, Told
<1>4. CountFollows'
  BY <1>1, <1>3 DEF SeqInv, CountFollows, RemoveMatch
<1>5. BusFollows'
  BY <1>1, <1>3 DEF SeqInv, BusFollows, IndInv, TypeOK, RemoveMatch
<1>6. FilterFollows'
  BY <1>1 DEF SeqInv, FilterFollows, RemoveMatch, Idle, At
<1> QED BY <1>1, <1>4, <1>5, <1>6 DEF SeqInv

(* The counter goes down, and the filter with it when it is zero.          *)
LEMMA UncountStep ==
  ASSUME IndInv, Sequential, SeqInv, NEW a \in Actors, Uncount(a)
  PROVE  SeqInv'
<1> DEFINE x == proc[a].rule
<1>0. Advances(a, "erase") /\ proc[a].pc = "uncount"
  BY DEF Uncount, Advances, Idle
<1>1. /\ x \in Matches
      /\ Alone' /\ Visited' /\ Entered'
      /\ ~Unlinked /\ ~Unlinked' /\ Known' = Known
      /\ \A y \in Matches : \A pcs : Works(y, pcs) <=> y = x /\ proc[a].pc \in pcs
      /\ \A y \in Matches : \A pcs : Works(y, pcs)' <=> y = x /\ "erase" \in pcs
      /\ \A b \in Actors \ {a} : proc[b] = Idle /\ proc'[b] = Idle
      /\ proc'[a] = At("erase", x)
      /\ x \in Known \cup (IF a = "om" THEN {x} ELSE {})
  BY <1>0, AdvanceStep DEF AddingPcs, RemovalPcs
<1>2. Known \subseteq Matches /\ x \in Known
  <2>1. Known \subseteq Matches
    BY PresentType DEF Known, IndInv, TypeOK
  <2>2. a = "om" => x \in Known
    BY <1>0, <1>1 DEF SeqInv, Entered, RemovalPcs, Known, Restoring, Idle, AddingPcs
  <2> QED BY <1>1, <2>1, <2>2
<1>3. /\ Counted' = Counted \ {x} /\ x \in Counted /\ Counted \subseteq Matches
      /\ \A y \in Matches : Told(y)' <=> Told(y)
  BY <1>0, <1>1, <1>2 DEF Counted, Told
<1>4. count = Cardinality(Counted) /\ Cardinality(Counted) \in Nat
        /\ Cardinality(Counted) < SizeT /\ Cardinality(Counted) # 0
        /\ Cardinality(Counted') = Cardinality(Counted) - 1
  BY <1>1, <1>3, CountedFinite DEF SeqInv, CountFollows
<1>5. count' = count - 1
  <2>1. count' = (count + SizeT - 1) % SizeT
    BY DEF Uncount
  <2>2. \A c \in 1 .. SizeT - 1 : (c + SizeT - 1) % SizeT = c - 1
    OBVIOUS
  <2> QED BY <1>4, <2>1, <2>2
<1>6. CountFollows'
  BY <1>1, <1>4, <1>5 DEF CountFollows
<1>7. BusFollows'
  BY <1>1, <1>3 DEF SeqInv, BusFollows, Uncount
<1>8. FilterFollows'
  BY <1>1, <1>4, <1>5 DEF SeqInv, FilterFollows, Uncount, Idle, At
<1> QED BY <1>1, <1>6, <1>7, <1>8 DEF SeqInv

(* What an actor at work on rule x has left when it is done: the link goes *)
(* on with its loop, the others end.                                       *)
Finishes(a) ==
  /\ a \in Actors /\ proc[a].pc \in {"count", "erase"}
  /\ Become(a, IF a = "link" THEN At("init", None) ELSE Idle)
  /\ UNCHANGED <<libdbus, linkVars>>

LEMMA FinishStep ==
  ASSUME IndInv, SeqInv, NEW a, Finishes(a), NEW x, x = proc[a].rule
  PROVE  /\ x \in Matches
         /\ Alone' /\ ~Unlinked /\ ~Unlinked'
         /\ Known = IF a = "link" THEN done ELSE Present
         /\ Known' = IF a = "link" THEN done ELSE Present'
         /\ a \in {"member", "link"} => x \in Known
         /\ a = "om" => (x \in Present <=> proc[a].pc = "erase")
         /\ \A b \in Actors \ {a} : proc[b] = Idle /\ proc'[b] = Idle
         /\ proc'[a] = IF a = "link" THEN At("init", None) ELSE Idle
         /\ \A y \in Matches : \A pcs : Works(y, pcs) <=> y = x /\ proc[a].pc \in pcs
         /\ \A y \in Matches : \A pcs : ~Works(y, pcs)'
<1>1. /\ proc'[a] = IF a = "link" THEN At("init", None) ELSE Idle
      /\ a \in Actors /\ proc[a] # Idle
      /\ \A b \in Actors \ {a} : proc[b] = Idle /\ proc'[b] = Idle
      /\ connected
  BY DEF IndInv, TypeOK, Become, Finishes, SeqInv, Alone, Idle
<1>2. x \in Matches /\ (a = "link" => proc[a].pc = "count")
  BY <1>1 DEF IndInv, ProcShape, AddingPcs, RemovalPcs, Finishes
<1>3. ~Unlinked /\ ~Unlinked' /\ (Restoring' <=> a = "link") /\ (Restoring <=> a = "link")
  BY <1>1, <1>2 DEF Unlinked, Restoring, Idle, At, AddingPcs, Finishes, libdbus
<1>4. Known = (IF a = "link" THEN done ELSE Present)
      /\ Known' = (IF a = "link" THEN done ELSE Present')
  BY <1>3 DEF Known, Finishes, linkVars
<1>5. Alone'
  BY <1>1 DEF Alone, Finishes, libdbus
<1>6. /\ \A y \in Matches : \A pcs : Works(y, pcs) <=> y = x /\ proc[a].pc \in pcs
      /\ \A y \in Matches : \A pcs : ~Works(y, pcs)'
  <2>1. proc[a].rule = x /\ proc'[a].rule = None /\ Idle.rule = None
    BY <1>1 DEF At, Idle
  <2> QED BY <1>1, <2>1 DEF Works
<1>7. /\ a \in {"member", "link"} => x \in Known
      /\ a = "om" => (x \in Present <=> proc[a].pc = "erase")
  BY <1>1, <1>2, <1>4 DEF SeqInv, Entered, Visited, Restoring, AddingPcs, RemovalPcs, Finishes
<1> QED BY <1>1, <1>2, <1>3, <1>4, <1>5, <1>6, <1>7

(* The rule is counted.                                                    *)
LEMMA CountStep ==
  ASSUME IndInv, Sequential, SeqInv, NEW a, Finishes(a), proc[a].pc = "count",
         count' = (count + 1) % SizeT,
         Present' = IF a = "om" THEN Present \cup {proc[a].rule} ELSE Present
  PROVE  SeqInv'
<1> DEFINE x == proc[a].rule
<1>1. /\ x \in Matches
      /\ Alone' /\ ~Unlinked /\ ~Unlinked'
      /\ Known = IF a = "link" THEN done ELSE Present
      /\ Known' = IF a = "link" THEN done ELSE Present'
      /\ a \in {"member", "link"} => x \in Known
      /\ a = "om" => (x \in Present <=> proc[a].pc = "erase")
      /\ \A b \in Actors \ {a} : proc[b] = Idle /\ proc'[b] = Idle
      /\ proc'[a] = IF a = "link" THEN At("init", None) ELSE Idle
      /\ \A y \in Matches : \A pcs : Works(y, pcs) <=> y = x /\ proc[a].pc \in pcs
      /\ \A y \in Matches : \A pcs : ~Works(y, pcs)'
      /\ a \in Actors
  BY FinishStep DEF Finishes
<1>2. Known \subseteq Matches
  BY PresentType DEF Known, IndInv, TypeOK
<1>3. Known' = Known \cup {x}
  BY <1>1
<1>4. Counted' = Known \cup {x} /\ Counted = Known \ {x}
  BY <1>1, <1>2, <1>3 DEF Counted
<1>5. \A y \in Matches : Told(y)' <=> Told(y)
  BY <1>1, <1>2, <1>3 DEF Told
<1>6. Counted' = Counted \cup {x} /\ x \notin Counted /\ Counted \subseteq Matches
  BY <1>2, <1>4
<1>7. /\ count = Cardinality(Counted) /\ Cardinality(Counted) \in Nat
      /\ Cardinality(Counted') = Cardinality(Counted) + 1
      /\ Cardinality(Counted') \in Nat /\ Cardinality(Counted') < SizeT
  <2>1. Counted' \subseteq Matches
    BY <1>1, <1>6
  <2> QED BY <1>1, <1>6, <2>1, CountedFinite DEF SeqInv, CountFollows
<1>8. count' = count + 1
  BY <1>7
<1>9. CountFollows'
  BY <1>1, <1>7, <1>8 DEF CountFollows
<1>10. BusFollows'
  BY <1>1, <1>5 DEF SeqInv, BusFollows, Finishes, libdbus
<1>11. FilterFollows'
  BY DEF SeqInv, FilterFollows, Finishes, libdbus
<1>12. Visited'
  BY <1>1 DEF SeqInv, Visited, Restoring, Finishes, linkVars, Idle, At, AddingPcs
<1>13. Entered'
  BY <1>1 DEF Entered, Idle, At, AddingPcs, RemovalPcs
<1> QED BY <1>1, <1>9, <1>10, <1>11, <1>12, <1>13 DEF SeqInv

(* The rule is taken out of the map.                                       *)
LEMMA EraseStep ==
  ASSUME IndInv, SeqInv, NEW a \in Actors, EraseRule(a)
  PROVE  SeqInv'
<1> DEFINE x == proc[a].rule
<1>0. Finishes(a) /\ a # "link" /\ proc[a].pc = "erase"
  BY DEF EraseRule, Finishes, IndInv, ProcShape, AddingPcs
<1>1. /\ x \in Matches
      /\ Alone' /\ ~Unlinked /\ ~Unlinked'
      /\ Known = Present /\ Known' = Present'
      /\ \A b \in Actors \ {a} : proc[b] = Idle /\ proc'[b] = Idle
      /\ proc'[a] = Idle
      /\ \A y \in Matches : \A pcs : Works(y, pcs) <=> y = x /\ proc[a].pc \in pcs
      /\ \A y \in Matches : \A pcs : ~Works(y, pcs)'
  BY <1>0, FinishStep
<1>2. Present' = Present \ {x}
  BY <1>1 DEF EraseRule, Present, IndInv, TypeOK
<1>3. Counted' = Counted /\ \A y \in Matches : Told(y)' <=> Told(y)
  BY <1>0, <1>1, <1>2, PresentType DEF Counted, Told
<1>4. CountFollows' /\ BusFollows'
  BY <1>1, <1>3 DEF SeqInv, CountFollows, BusFollows, EraseRule, libdbus
<1>5. FilterFollows'
  BY <1>1 DEF SeqInv, FilterFollows, EraseRule, libdbus, Idle
<1>6. Visited' /\ Entered'
  BY <1>1 DEF Visited, Restoring, Entered, Idle, AddingPcs, RemovalPcs
<1> QED BY <1>1, <1>4, <1>5, <1>6 DEF SeqInv

-----------------------------------------------------------------------------
(* The steps of connect() and disconnect().                                *)

LEMMA ConnectStep ==
  ASSUME IndInv, Sequential, SeqInv, Connect
  PROVE  SeqInv'
<1>1. /\ \A b \in Actors : proc[b] = Idle
      /\ ~connected /\ connected' /\ count' = count
      /\ todo' = Present /\ done' = {} /\ Present' = Present
      /\ filters' = 0 /\ busMatches' = [x \in Matches |-> 0]
      /\ proc' = [proc EXCEPT !["link"] = At("init", None)]
  BY Begins DEF Connect, Become, Present, tables
<1>2. proc'["link"] = At("init", None) /\ \A b \in Actors \ {"link"} : proc'[b] = Idle
  BY <1>1 DEF IndInv, TypeOK
<1>3. Unlinked /\ ~Unlinked' /\ Restoring' /\ Known' = {}
  BY <1>1, <1>2 DEF Unlinked, Restoring, Known, At
<1>4. \A y \in Matches : \A pcs : ~Works(y, pcs)'
  BY <1>2 DEF Works, At, Idle
<1>5. count' = 0 /\ Counted' = {} /\ \A y \in Matches : ~Told(y)'
  BY <1>1, <1>3, <1>4 DEF SeqInv, CountFollows, Counted, Told
<1>6. CountFollows'
  BY <1>3, <1>5, FS_EmptySet DEF CountFollows
<1>7. BusFollows' /\ FilterFollows'
  BY <1>1, <1>2, <1>5 DEF BusFollows, FilterFollows, At, Idle
<1>8. Alone' /\ Visited' /\ Entered'
  BY <1>1, <1>2 DEF Alone, Visited, Entered, At, Idle, AddingPcs, RemovalPcs
<1> QED BY <1>6, <1>7, <1>8 DEF SeqInv

LEMMA InitRuleStep ==
  ASSUME IndInv, SeqInv, NEW x \in Matches, InitRule(x)
  PROVE  SeqInv'
<1>1. /\ proc["link"].pc = "init" /\ proc["link"] # Idle
      /\ x \in Present \ done /\ done' = done \cup {x}
      /\ proc'["link"] = At("maybeFilter", x)
      /\ \A b \in Actors \ {"link"} : proc[b] = Idle /\ proc'[b] = Idle
      /\ connected /\ Present' = Present /\ UNCHANGED <<todo, count, libdbus>>
  BY DEF IndInv, TypeOK, InitRule, Become, SeqInv, Alone, Idle, Present, tables
<1>2. /\ ~Unlinked /\ ~Unlinked' /\ Restoring /\ Restoring'
      /\ Known = done /\ Known' = done \cup {x}
  BY <1>1 DEF Unlinked, Restoring, Known, At, AddingPcs, libdbus
<1>3. /\ \A y \in Matches : \A pcs : Works(y, pcs) => proc["link"].rule = y /\ "init" \in pcs
      /\ \A y \in Matches : \A pcs : Works(y, pcs)' <=> y = x /\ "maybeFilter" \in pcs
  BY <1>1 DEF Works, At, Idle
<1>4. done \subseteq Matches
  BY DEF IndInv, TypeOK
<1>5. Counted' = Counted /\ \A y \in Matches : Told(y)' <=> Told(y)
  BY <1>1, <1>2, <1>3, <1>4 DEF Counted, Told
<1>6. CountFollows' /\ BusFollows'
  BY <1>1, <1>2, <1>5 DEF SeqInv, CountFollows, BusFollows, libdbus
<1>7. FilterFollows'
  BY <1>1 DEF SeqInv, FilterFollows, libdbus, At, Idle
<1>8. Alone' /\ Visited' /\ Entered'
  BY <1>1, <1>2 DEF SeqInv, Alone, Visited, Entered, At, Idle, AddingPcs, RemovalPcs, libdbus
<1> QED BY <1>6, <1>7, <1>8 DEF SeqInv

LEMMA InitEndStep ==
  ASSUME IndInv, SeqInv, InitEnd
  PROVE  SeqInv'
<1>1. /\ proc["link"].pc = "init" /\ proc["link"] # Idle
      /\ todo \cap Present \subseteq done
      /\ \A b \in Actors : proc'[b] = Idle
      /\ \A b \in Actors \ {"link"} : proc[b] = Idle
      /\ connected /\ Present' = Present /\ UNCHANGED <<count, libdbus>>
  BY DEF IndInv, TypeOK, InitEnd, Become, SeqInv, Alone, Idle, Present, tables
<1>2. /\ ~Unlinked /\ ~Unlinked' /\ Restoring /\ ~Restoring'
      /\ Known = done /\ Known' = Present
  BY <1>1 DEF Unlinked, Restoring, Known, Idle, AddingPcs, libdbus
<1>3. done = Present
  BY <1>1, <1>2 DEF SeqInv, Visited
<1>4. /\ \A y \in Matches : \A pcs : Works(y, pcs) => "init" \in pcs
      /\ \A y \in Matches : \A pcs : ~Works(y, pcs)'
  BY <1>1 DEF Works, Idle
<1>5. Counted' = Counted /\ \A y \in Matches : Told(y)' <=> Told(y)
  BY <1>2, <1>3, <1>4, PresentType DEF Counted, Told
<1>6. CountFollows' /\ BusFollows'
  BY <1>1, <1>2, <1>5 DEF SeqInv, CountFollows, BusFollows, libdbus
<1>7. FilterFollows'
  BY <1>1 DEF SeqInv, FilterFollows, libdbus, Idle
<1>8. Alone' /\ Visited' /\ Entered'
  BY <1>1, <1>2 DEF Alone, Visited, Entered, Idle, AddingPcs, RemovalPcs
<1> QED BY <1>6, <1>7, <1>8 DEF SeqInv

LEMMA DisconnectStep ==
  ASSUME IndInv, Sequential, SeqInv, DisconnectBegin \/ DisconnectEnd
  PROVE  SeqInv'
<1>1. /\ \A b \in Actors \ {"link"} : proc'[b] = Idle
      /\ proc'["link"] = Idle \/ (proc'["link"].pc = "closing" /\ connected')
      /\ Unlinked' /\ count' = 0
  <2>1. CASE DisconnectBegin
    <3>1. /\ \A b \in Actors \ {"link"} : proc'[b] = Idle
          /\ proc'["link"] = At("closing", None)
      BY <2>1, Begins DEF DisconnectBegin, Become, IndInv, TypeOK
    <3>2. connected' /\ count' = 0
      BY <2>1 DEF DisconnectBegin
    <3> QED BY <3>1, <3>2 DEF Unlinked, At
  <2>2. CASE DisconnectEnd
    <3>1. proc["link"].pc = "closing" /\ ~connected' /\ count' = count
      BY <2>2 DEF DisconnectEnd
    <3>2. /\ \A b \in Actors \ {"link"} : proc[b] = Idle
          /\ proc' = [proc EXCEPT !["link"] = Idle]
      BY <2>2, <3>1 DEF DisconnectEnd, Become, SeqInv, Alone, Idle
    <3>3. \A b \in Actors : proc'[b] = Idle
      BY <3>2 DEF IndInv, TypeOK
    <3>4. Unlinked /\ Unlinked'
      BY <3>1 DEF Unlinked
    <3>5. count = 0
      BY <3>4 DEF SeqInv, CountFollows
    <3> QED BY <3>1, <3>3, <3>4, <3>5
  <2> QED BY <2>1, <2>2
<1>2. ~Restoring'
  BY <1>1 DEF Restoring, Idle, AddingPcs
<1>3. Alone' /\ Visited' /\ Entered'
  BY <1>1, <1>2 DEF Alone, Visited, Entered, Idle, AddingPcs, RemovalPcs
<1>4. CountFollows' /\ BusFollows'
  BY <1>1 DEF CountFollows, BusFollows
<1>5. FilterFollows'
  BY <1>1 DEF FilterFollows, Idle
<1> QED BY <1>3, <1>4, <1>5 DEF SeqInv

-----------------------------------------------------------------------------
(* Every step.                                                             *)

(* Subscriptions of proxies.                                               *)
LEMMA MemberSeqStep ==
  ASSUME IndInv, Sequential, SeqInv, MemberNext
  PROVE  SeqInv'
<1>0. TypeOK /\ ProcShape /\ MemberCounts
  BY DEF IndInv
<1>1. ASSUME NEW p \in Paths, NEW h \in Handlers, AddMember(p, h)
      PROVE  SeqInv'
  <2>1. \A b \in Actors : proc[b] = Idle
    BY <1>1, Begins DEF AddMember
  <2>2. refs[RuleOf[p]] > 0
    <3>1. refs[RuleOf[p]] = Cardinality(SubscribedPaths(RuleOf[p]))
      BY <1>0, <2>1 DEF MemberCounts, RemovedBy, RemovalPcs, Idle
    <3>2. handlers[p] # {} => SubscribedPaths(RuleOf[p]) # {}
      BY DEF SubscribedPaths
    <3>3. IsFiniteSet(SubscribedPaths(RuleOf[p]))
      BY CountedSets
    <3>4. Cardinality(SubscribedPaths(RuleOf[p])) \in Nat
      BY <3>3, FS_CardinalityType
    <3> QED BY <1>1, <3>1, <3>2, <3>3, <3>4, FS_EmptySet DEF AddMember
  <2>3. Present' = Present
    BY <1>0, <1>1, <2>2 DEF AddMember, Present, TypeOK
  <2> QED BY <1>1, <2>3, QuietStep DEF AddMember
<1>2. ASSUME NEW p \in Paths, NEW h \in Handlers, AddFirstMember(p, h)
      PROVE  SeqInv'
  <2> DEFINE x == RuleOf[p]
  <2>1. \A b \in Actors : proc[b] = Idle
    BY <1>2, Begins DEF AddFirstMember
  <2>2. x \notin Present /\ Present' = Present \cup {x} /\ x \in Rules
    BY <1>0, <1>2 DEF AddFirstMember, Present, TypeOK
  <2>3. CASE connected
    <3>1. PICK pc \in {"filter", "match"} :
            Become("member", At(pc, x)) /\ (pc = "match" => ~MapEmpty)
      BY <1>2, <2>3 DEF AddFirstMember
    <3>2. ~MapEmpty => count > 0
      <4>1. Known = Present /\ Counted = Present /\ ~Unlinked
        BY <2>1, <2>3, PresentType
           DEF Known, Counted, Works, Restoring, Unlinked, Idle, AddingPcs
      <4>2. count = Cardinality(Present) /\ Cardinality(Present) \in Nat
            /\ (Cardinality(Present) = 0 <=> Present = {})
        BY <4>1, PresentType, CountedFinite DEF SeqInv, CountFollows
      <4> QED BY <4>2 DEF MapEmpty
    <3> QED BY <1>2, <2>1, <2>2, <2>3, <3>1, <3>2, BeginStep DEF AddFirstMember
  <2>4. CASE ~connected
    BY <1>2, <2>4, QuietStep DEF AddFirstMember
  <2> QED BY <2>3, <2>4
<1>3. ASSUME NEW p \in Paths, NEW h \in Handlers, RemoveMember(p, h)
      PROVE  SeqInv'
  <2> DEFINE x == RuleOf[p]
  <2>1. \A b \in Actors : proc[b] = Idle
    BY <1>3, Begins DEF RemoveMember
  <2>2. x \in Present /\ x \in Rules
    <3>1. refs[x] = Cardinality(SubscribedPaths(x))
      BY <1>0, <2>1 DEF MemberCounts, RemovedBy, RemovalPcs, Idle
    <3>2. SubscribedPaths(x) # {} /\ IsFiniteSet(SubscribedPaths(x))
      BY <1>3, CountedSets DEF SubscribedPaths, RemoveMember
    <3>3. Cardinality(SubscribedPaths(x)) \in Nat /\ Cardinality(SubscribedPaths(x)) # 0
      BY <3>2, FS_CardinalityType, FS_EmptySet
    <3> QED BY <3>1, <3>3 DEF Present
  <2>3. ASSUME RemoveFrom("member", x), UNCHANGED <<count, libdbus, linkVars>>
        PROVE  SeqInv'
    BY <1>0, <2>1, <2>2, <2>3, RemovalStep
  <2>4. CASE UNCHANGED <<refs, proc>>
    BY <1>3, <2>4, QuietStep DEF RemoveMember, Present
  <2>5. CASE refs[x] > 1 /\ refs' = [refs EXCEPT ![x] = @ - 1] /\ UNCHANGED proc
    <3>1. Present' = Present
      BY <1>0, <2>5 DEF Present, TypeOK
    <3> QED BY <1>3, <2>5, <3>1, QuietStep DEF RemoveMember
  <2> QED BY <1>3, <2>3, <2>4, <2>5 DEF RemoveMember
<1>4. CASE AddFilter
  <2>1. Advances("member", "match") /\ proc["member"].pc = "filter"
    BY <1>4 DEF AddFilter, Advances, Idle
  <2> QED BY <1>4, <2>1, FilterStep DEF AddFilter
<1>5. CASE AddMemberMatch
  <2>1. Advances("member", "count") /\ proc["member"].pc = "match"
    BY <1>5 DEF AddMemberMatch, Advances, Idle
  <2> QED BY <1>5, <2>1, MatchStep DEF AddMemberMatch, Sequential
<1>6. CASE CountMember
  <2>1. Finishes("member") /\ proc["member"].pc = "count"
    BY <1>6 DEF CountMember, Finishes
  <2>2. Present' = Present
    BY <1>6 DEF CountMember, tables, Present
  <2> QED BY <1>6, <2>1, <2>2, CountStep DEF CountMember
<1> QED BY <1>1, <1>2, <1>3, <1>4, <1>5, <1>6 DEF MemberNext

(* Subscriptions of the registry.                                          *)
LEMMA OMSeqStep ==
  ASSUME IndInv, Sequential, SeqInv, OMNext
  PROVE  SeqInv'
<1>0. TypeOK /\ ProcShape /\ OMCounts
  BY DEF IndInv
<1>1. ASSUME NEW e \in Entries, AddOM(e)
      PROVE  SeqInv'
  <2>1. Present' = Present \/ ~connected
    BY <1>0, <1>1 DEF AddOM, Present, TypeOK
  <2> QED BY <1>1, <2>1, QuietStep DEF AddOM
<1>2. ASSUME NEW e \in Entries, RemoveOM(e)
      PROVE  SeqInv'
  <2> DEFINE x == NameOf[e]
  <2>1. \A b \in Actors : proc[b] = Idle
    BY <1>2, Begins DEF RemoveOM
  <2>2. x \in Present /\ x \in Names
    <3>1. refs[x] = Cardinality(EntriesOf(x))
      BY <1>0, <2>1 DEF OMCounts, RemovedBy, RemovalPcs, Idle
    <3>2. EntriesOf(x) # {} /\ IsFiniteSet(EntriesOf(x))
      BY <1>0, <1>2, CountedSets DEF EntriesOf, RemoveOM
    <3>3. Cardinality(EntriesOf(x)) \in Nat /\ Cardinality(EntriesOf(x)) # 0
      BY <3>2, FS_CardinalityType, FS_EmptySet
    <3> QED BY <3>1, <3>3 DEF Present
  <2>3. CASE refs[x] > 1
    <3>1. Present' = Present
      BY <1>0, <1>2, <2>3 DEF Present, TypeOK, RemoveOM
    <3> QED BY <1>2, <2>3, <3>1, QuietStep DEF RemoveOM
  <2>4. CASE ~(refs[x] > 1)
    <3>1. RemoveFrom("om", x) /\ UNCHANGED <<count, libdbus, linkVars>>
      BY <1>2, <2>4 DEF RemoveOM
    <3> QED BY <2>1, <2>2, <3>1, RemovalStep
  <2> QED BY <2>3, <2>4
<1>3. ASSUME NEW e \in Entries, CountOM(e)
      PROVE  SeqInv'
  <2>1. Finishes("om") /\ proc["om"].pc = "count"
    BY <1>3 DEF CountOM, Finishes
  <2>2. Present' = Present \cup {proc["om"].rule}
    BY <1>0, <1>3 DEF CountOM, Present, TypeOK
  <2> QED BY <1>3, <2>1, <2>2, CountStep DEF CountOM
<1>4. ASSUME NEW n \in Names, AddFirstOM(n)
      PROVE  SeqInv'
  <2>1. \A b \in Actors : proc[b] = Idle
    BY <1>4, Begins DEF AddFirstOM
  <2>2. n \notin Present /\ Present' = Present
    BY <1>4 DEF AddFirstOM, Present, tables
  <2> QED BY <1>4, <2>1, <2>2, BeginStep DEF AddFirstOM
<1> QED BY <1>1, <1>2, <1>3, <1>4 DEF OMNext

(* What both do with libdbus, and connect() and disconnect().              *)
LEMMA LibdbusSeqStep ==
  ASSUME IndInv, Sequential, SeqInv, LibdbusNext
  PROVE  SeqInv'
<1> PICK a \in Actors :
      \/ AddFilterIfNone(a) \/ AddMatch(a)
      \/ RemoveMatch(a) \/ Uncount(a) \/ EraseRule(a)
  BY DEF LibdbusNext
<1>1. CASE AddFilterIfNone(a)
  <2>1. Advances(a, "match") /\ proc[a].pc = "maybeFilter"
    BY <1>1 DEF AddFilterIfNone, Advances, Idle
  <2>2. UNCHANGED <<count, busMatches>>
    BY <1>1 DEF AddFilterIfNone
  <2>3. filters' = filters + 1 \/ (filters' = filters /\ count # 0)
    BY <1>1 DEF AddFilterIfNone
  <2> QED BY <2>1, <2>2, <2>3, FilterStep
<1>2. CASE AddMatch(a)
  <2>1. /\ busMatches' = [busMatches EXCEPT ![proc[a].rule] = @ + 1]
        /\ Become(a, At("count", proc[a].rule))
    <3>1. proc[a].rule \notin MatchFails
      BY DEF Sequential
    <3> QED BY <1>2, <3>1 DEF AddMatch
  <2>2. Advances(a, "count") /\ proc[a].pc = "match"
    BY <1>2, <2>1 DEF AddMatch, Advances, Idle
  <2> QED BY <1>2, <2>1, <2>2, MatchStep DEF AddMatch
<1> QED BY <1>1, <1>2, UnmatchStep, UncountStep, EraseStep

LEMMA LinkSeqStep ==
  ASSUME IndInv, Sequential, SeqInv, LinkNext
  PROVE  SeqInv'
<1>1. CASE CountInit
  <2>1. Finishes("link") /\ proc["link"].pc = "count"
    BY <1>1 DEF CountInit, Finishes
  <2>2. Present' = Present
    BY <1>1 DEF CountInit, tables, Present
  <2> QED BY <1>1, <2>1, <2>2, CountStep DEF CountInit
<1> QED BY <1>1, ConnectStep, InitRuleStep, InitEndStep, DisconnectStep DEF LinkNext

LEMMA SeqStep == Sequential /\ IndInv /\ SeqInv /\ [Next]_vars => SeqInv'
<1> SUFFICES ASSUME Sequential, IndInv, SeqInv, [Next]_vars PROVE SeqInv'
  OBVIOUS
<1>1. CASE UNCHANGED vars
  BY <1>1, QuietStep DEF vars, tables, Present
<1> QED BY <1>1, MemberSeqStep, OMSeqStep, LibdbusSeqStep, LinkSeqStep DEF Next

LEMMA InitSeqInv == Init => SeqInv
<1> SUFFICES ASSUME Init PROVE SeqInv
  OBVIOUS
<1>1. \A a \in Actors : proc[a] = Idle
  BY DEF Init
<1>2. count = 0 /\ ~connected
  BY DEF Init
<1>3. Unlinked /\ ~Restoring
  BY <1>1, <1>2 DEF Unlinked, Restoring, Idle, AddingPcs
<1>4. Alone /\ Visited /\ Entered /\ FilterFollows
  BY <1>1, <1>2, <1>3 DEF Alone, Visited, Entered, FilterFollows, Idle, AddingPcs, RemovalPcs
<1>5. CountFollows /\ BusFollows
  BY <1>2, <1>3 DEF CountFollows, BusFollows
<1> QED BY <1>4, <1>5 DEF SeqInv

(* While operations do not overlap and the bus takes every rule, the       *)
(* filter is installed when there is a rule, the counter is the number of  *)
(* rules, and the bus has each rule that is needed once and no other.      *)
THEOREM RulesAlwaysAgree ==
  ASSUME Sequential
  PROVE  Spec => []RulesAgree
<1>1. SeqInv => RulesAgree
  <2> SUFFICES ASSUME SeqInv, AtRest, connected
               PROVE  /\ Present # {} => filters > 0
                      /\ count = Cardinality(Present)
                      /\ \A x \in Matches :
                           /\ x \notin Selective \cup MatchFails
                                => busMatches[x] = IF x \in Present THEN 1 ELSE 0
                           /\ busMatches[x] > 0 => x \in Present
    BY DEF RulesAgree, FilterInstalled, CountExact, BusMatchesExact
  <2>1. /\ Known = Present /\ ~Unlinked
        /\ \A y \in Matches : \A pcs : ~Works(y, pcs)
    BY DEF AtRest, Known, Restoring, Unlinked, Works, Idle, AddingPcs
  <2>2. Counted = Present /\ \A y \in Matches : Told(y) <=> y \in Present
    BY <2>1, PresentType DEF Counted, Told
  <2>3. /\ count = Cardinality(Present) /\ Cardinality(Present) \in Nat
        /\ Cardinality(Present) = 0 <=> Present = {}
    BY <2>1, <2>2, PresentType, CountedFinite DEF SeqInv, CountFollows
  <2>4. Present # {} => filters > 0
    BY <2>3 DEF SeqInv, FilterFollows
  <2>5. ASSUME NEW x \in Matches
        PROVE  /\ x \notin Selective \cup MatchFails
                    => busMatches[x] = IF x \in Present THEN 1 ELSE 0
               /\ busMatches[x] > 0 => x \in Present
    BY <2>1, <2>2 DEF SeqInv, BusFollows
  <2> QED BY <2>3, <2>4, <2>5
<1>2. IndInv /\ SeqInv /\ [Next]_vars => SeqInv'
  BY SeqStep
<1> QED BY <1>1, <1>2, InitSeqInv, Inductive, PTL DEF Spec

=============================================================================
