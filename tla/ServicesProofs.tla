--------------------------- MODULE ServicesProofs ---------------------------
(* The invariant of the model of services: the tables of Factory, of the   *)
(* object managers, of the connections, the bus and the peers agree about  *)
(* every address that was not hit by a failure, up to what the thread that *)
(* holds servicesMutex_ does there, and every user of a connection is      *)
(* counted.  The theorems follow from it.                                  *)
EXTENDS ServicesSteps, Addresses

USE DEF Lines

-----------------------------------------------------------------------------
(* AllFit: what is known of each address.                                  *)

\* The parts of Fits.
FitLine(x) ==
  /\ Line(x) \in {"idle", "undo"} \cup LockedLines
  /\ Line(x) = "retract" => Holder(x).after = "drop" /\ services[x] \in Managed \cup {None}
  /\ Line(x) \notin {"idle", "retract", "return"} => services[x] = Holder(x).adapter
  /\ Line(x) \in {"release", "leave"} => services[x] \notin Managed
  /\ At_(x) \cap promised \subseteq {services[x]}
  /\ Line(x) # "idle" => At_(x) \cap promised = {}
TabFits(g, x) ==
  /\ Tab(g, x) \subseteq {services[x]}
  /\ Tab(g, x) # {} =>
       Line(x) \notin {"export", "enter", "undo", "erase", "release", "leave", "return"}
ListedAt(g, x) == Listed(x) /\ home[services[x]] = g
RootFits(g, x) ==
  /\ ListedAt(g, x) => AtRoot(g, x) = {services[x]}
  /\ ~ListedAt(g, x) => AtRoot(g, x) = {}
  /\ Entry(x) \in heard[g] <=> conn[g].open /\ ListedAt(g, x)
  /\ OnlyManaging(x) => (ManagerEntry(x) \in heard[g]
       <=> conn[g].open /\ ListedAt(g, x) /\ services[x] \in Managing)

\* Fits, by connection.
LEMMA FitParts ==
  ASSUME NEW x \in Addresses
  PROVE  Fits(x) <=> FitLine(x) /\ \A g \in Connections : TabFits(g, x) /\ RootFits(g, x)
<1>1. ASSUME Fits(x) PROVE FitLine(x)
  BY <1>1 DEF Fits, FitLine
<1>2. ASSUME Fits(x), NEW g \in Connections PROVE TabFits(g, x) /\ RootFits(g, x)
  BY <1>2 DEF Fits, TabFits, RootFits, ListedAt
<1>3. ASSUME FitLine(x), \A g \in Connections : TabFits(g, x) /\ RootFits(g, x) PROVE Fits(x)
  <2>1. ASSUME NEW g \in Connections
        PROVE  /\ Tab(g, x) \subseteq {services[x]}
               /\ Tab(g, x) # {} => Line(x) \notin {"export", "enter", "undo", "erase", "release",
                                                     "leave", "return"}
               /\ AtRoot(g, x) = IF Listed(x) /\ home[services[x]] = g THEN {services[x]} ELSE {}
               /\ Entry(x) \in heard[g] <=> conn[g].open /\ Listed(x) /\ home[services[x]] = g
               /\ OnlyManaging(x) => (ManagerEntry(x) \in heard[g]
                    <=> conn[g].open /\ Listed(x) /\ home[services[x]] = g
                         /\ services[x] \in Managing)
    BY <1>3 DEF TabFits, RootFits, ListedAt
  <2>2. FitLine(x)
    BY <1>3
  <2> HIDE DEF FitLine, TabFits, RootFits
  <2> QED
    BY <2>1, <2>2 DEF Fits, FitLine
<1> QED
  BY <1>1, <1>2, <1>3

\* The same after a step.
LEMMA FitPartsNext ==
  ASSUME NEW x \in Addresses, FitLine(x)',
         \A g \in Connections : TabFits(g, x)' /\ RootFits(g, x)'
  PROVE  Fits(x)'
<1>1. ASSUME NEW g \in Connections
      PROVE  /\ Tab(g, x)' \subseteq {services'[x]}
             /\ Tab(g, x)' # {} => Line(x)' \notin {"export", "enter", "undo", "erase", "release",
                                                   "leave", "return"}
             /\ AtRoot(g, x)' =
                  IF Listed(x)' /\ home'[services'[x]] = g THEN {services'[x]} ELSE {}
             /\ Entry(x) \in heard'[g] <=> conn'[g].open /\ Listed(x)' /\ home'[services'[x]] = g
             /\ OnlyManaging(x) => (ManagerEntry(x) \in heard'[g]
                  <=> conn'[g].open /\ Listed(x)' /\ home'[services'[x]] = g
                       /\ services'[x] \in Managing)
  BY DEF TabFits, RootFits, ListedAt
<1> QED
  BY <1>1 DEF Fits, FitLine

\* What peers see of an address stays right if its listing stays.
LEMMA RootStays ==
  ASSUME NEW g \in Connections, NEW x \in Addresses, RootFits(g, x), Shown(g, x),
         ListedAt(g, x)' <=> ListedAt(g, x),
         ListedAt(g, x) => services'[x] = services[x] /\ conn'[g].open = conn[g].open
  PROVE  RootFits(g, x)'
  BY DEF RootFits, Shown

\* The line of an address depends on the holder of servicesMutex_ only.
LEMMA LineStays ==
  ASSUME NEW x, Holder(x)' = Holder(x)
  PROVE  Line(x)' = Line(x) /\ (services'[x] = services[x] => Listed(x)' = Listed(x))
  BY DEF Line, Listed

\* An address that the step does not touch.
LEMMA FitsAgain ==
  ASSUME Base, NEW y \in Addresses, Fits(y), Untouched(y),
         services[y] # None => home'[services[y]] = home[services[y]],
         \A h \in Connections : \/ conn'[h].open = conn[h].open
                                \/ services[y] # None => home[services[y]] # h
  PROVE  Fits(y)'
<1>1. FitLine(y) /\ \A g \in Connections : TabFits(g, y) /\ RootFits(g, y)
  BY FitParts
<1>2. /\ services'[y] = services[y] /\ Holder(y)' = Holder(y)
      /\ At_(y) \cap promised' = At_(y) \cap promised
      /\ \A h \in Connections : Tab(h, y)' = Tab(h, y) /\ Shown(h, y)
  BY DEF Untouched
<1>3. Line(y)' = Line(y) /\ Listed(y)' = Listed(y)
  BY <1>2, LineStays
<1>4. FitLine(y)'
  BY <1>1, <1>2, <1>3 DEF FitLine, At_
<1>5. ASSUME NEW g \in Connections PROVE TabFits(g, y)' /\ RootFits(g, y)'
  <2>1. TabFits(g, y)'
    BY <1>1, <1>2, <1>3 DEF TabFits
  <2>2. /\ ListedAt(g, y)' <=> ListedAt(g, y)
        /\ ListedAt(g, y) => services'[y] = services[y] /\ conn'[g].open = conn[g].open
    <3>1. Listed(y) => services[y] # None
      BY DEF Listed
    <3> QED
      BY <1>2, <1>3, <3>1 DEF ListedAt
  <2> QED
    BY <1>1, <1>2, <2>1, <2>2, RootStays
<1> QED
  BY <1>4, <1>5, FitPartsNext

\* AllFit is kept by a step at one address if that address still fits.
LEMMA AllFitKept ==
  ASSUME Base, AllFit, NEW x, Others(x), Still, SameLives, tainted \subseteq tainted',
         x \in Addresses \ tainted' => Fits(x)'
  PROVE  AllFit'
<1>1. ASSUME NEW y \in Addresses \ tainted', y # x PROVE Fits(y)'
  BY <1>1, FitsAgain DEF AllFit, Others, Still, SameLives
<1> QED
  BY <1>1 DEF AllFit

\* AllFit is kept by a quiet step.
LEMMA FitsQuiet ==
  ASSUME Base, AllFit, Quiet, \A a \in Adapters : home[a] # 0 => home'[a] = home[a],
         \A h \in Connections : \/ conn'[h].open = conn[h].open
                                \/ ~conn[h].open /\ ~conn[h].closing
  PROVE  AllFit'
<1> SUFFICES ASSUME NEW y \in Addresses \ tainted' PROVE Fits(y)'
  BY DEF AllFit
<1>1. Fits(y)
  BY DEF AllFit, Quiet
<1>2. Untouched(y)
  BY DEF Quiet, SameTables, SameShown, SameHolder, Untouched
<1>3. services[y] # None => home'[services[y]] = home[services[y]]
  BY Registered, Numbered
<1>4. \A h \in Connections : \/ conn'[h].open = conn[h].open
                             \/ services[y] # None => home[services[y]] # h
  BY Registered, Numbered DEF Base, Placed
<1> QED
  BY <1>1, <1>2, <1>3, <1>4, FitsAgain

\* A thread that begins an operation keeps AllFit.
LEMMA FitsBegin ==
  ASSUME Base, ConnectionsFit, AllFit, NEW t \in Actors, Begin(t), Frame(t)
  PROVE  AllFit'
<1>9. ASSUME Quiet, SameUsers PROVE AllFit'
  BY <1>9, FitsQuiet DEF SameUsers, Frame
<1>10. ASSUME Quiet, NEW g \in Connections, Opens(g) PROVE AllFit'
  <2>1. \A h \in Connections : \/ conn'[h].open = conn[h].open
                               \/ ~conn[h].open /\ ~conn[h].closing
    BY <1>10 DEF Opens, ConnectionsFit
  <2> QED
    BY <1>10, <2>1, FitsQuiet DEF Frame
<1>1. ASSUME NEW a \in Adapters, RegisterStub(t, a) PROVE AllFit'
  BY <1>1, RegisterStubEffect, <1>10
<1>2. ASSUME NEW a \in Adapters, NEW b \in Adapters, RegisterManaged(t, a, b) PROVE AllFit'
  BY <1>2, RegisterManagedEffect, <1>9
<1>3. ASSUME NEW p \in Paths, NEW a \in Adapters, ExportManaged(t, p, a) PROVE AllFit'
  BY <1>3, ExportManagedEffect, <1>9
<1>4. ASSUME NEW p \in Paths, NEW a \in Adapters, UnexportManaged(t, p, a) PROVE AllFit'
  BY <1>4, UnexportManagedEffect, <1>9
<1>5. ASSUME NEW x \in Addresses, UnregisterStub(t, x) PROVE AllFit'
  BY <1>5, UnregisterStubEffect, <1>9
<1>6. ASSUME NEW a \in Adapters, UnregisterManaged(t, a) PROVE AllFit'
  BY <1>6, UnregisterManagedEffect, <1>9
<1>7. ASSUME NEW g \in Connections, CreateProxy(t, g) PROVE AllFit'
  BY <1>7, CreateProxyEffect, <1>10
<1>8. ASSUME NEW g \in Connections, DestroyProxy(t, g) PROVE AllFit'
  BY <1>8, DestroyProxyEffect, <1>9
<1> QED
  BY <1>1, <1>2, <1>3, <1>4, <1>5, <1>6, <1>7, <1>8 DEF Begin

\* A call that begins or ends in a dispatch thread keeps AllFit.
LEMMA FitsDispatch ==
  ASSUME Base, AllFit
  PROVE  /\ \A g \in Connections, x \in Addresses : Receive(g, x) => AllFit'
         /\ \A g \in Connections : Reply(g) => AllFit'
<1>9. ASSUME Quiet, SameUsers, home' = home PROVE AllFit'
  BY <1>9, FitsQuiet DEF SameUsers
<1> QED
  BY <1>9, ReceiveEffect, ReplyEffect DEF SameHomes

\* AllFit is kept when the connection is closed: the peers forget it.
LEMMA FitsClose ==
  ASSUME Base, AllFit, NEW t \in Actors, Close(t)
  PROVE  AllFit'
<1>0. proc[t] \in Process
  BY Typed DEF Base
<1> PICK c : c = proc[t].conn
  OBVIOUS
<1>1. /\ SameTables /\ SameRoot /\ services' = services /\ promised' = promised
      /\ tainted' = tainted /\ home' = home /\ SameHolder /\ c \in Connections
      /\ \A h \in Connections : heard'[h] = IF h = c THEN {} ELSE heard[h]
      /\ ~conn'[c].open /\ \A h \in Connections \ {c} : conn'[h].open = conn[h].open
  BY <1>0, CloseEffect DEF Shuts, SameHomes
<1> SUFFICES ASSUME NEW y \in Addresses \ tainted PROVE Fits(y)'
  BY <1>1 DEF AllFit
<1>2. FitLine(y) /\ \A g \in Connections : TabFits(g, y) /\ RootFits(g, y)
  BY FitParts DEF AllFit
<1>3. Line(y)' = Line(y) /\ Listed(y)' = Listed(y) /\ Holder(y)' = Holder(y)
  BY <1>1, LineStays DEF SameHolder
<1>4. FitLine(y)'
  BY <1>1, <1>2, <1>3 DEF FitLine, At_
<1>5. ASSUME NEW g \in Connections PROVE TabFits(g, y)' /\ RootFits(g, y)'
  <2>1. TabFits(g, y)'
    BY <1>1, <1>2, <1>3 DEF TabFits, SameTables
  <2>2. ListedAt(g, y)' <=> ListedAt(g, y)
    BY <1>1, <1>3 DEF ListedAt
  <2>3. AtRoot(g, y)' = AtRoot(g, y)
    BY <1>1 DEF SameRoot, AtRoot, At_
  <2>4. CASE g = c
    <3>1. heard'[g] = {}
      BY <1>1, <2>4
    <3> QED
      BY <1>1, <1>2, <2>1, <2>2, <2>3, <2>4, <3>1 DEF RootFits
  <2>5. CASE g # c
    <3>1. heard'[g] = heard[g]
      BY <1>1, <2>5
    <3> QED
      BY <1>1, <1>2, <2>1, <2>2, <2>3, <2>5, <3>1 DEF RootFits
  <2> QED
    BY <2>4, <2>5
<1> QED
  BY <1>4, <1>5, FitPartsNext

\* What the thread that holds servicesMutex_ does at an address.
LineIs(x, line, a, after) ==
  Line(x) = line /\ Holder(x).adapter = a /\ Holder(x).after = after
StageOf(pc, after) == IF pc = "retract" /\ after = "erase" THEN "undo" ELSE pc

\* The line of the address of a thread, before its step.
LEMMA LineBefore ==
  ASSUME NEW t, NEW q, NEW x, x = q.address
  PROVE  /\ Keeps(t, q) \/ Unlocks(t, q) => LineIs(x, StageOf(q.pc, q.after), q.adapter, q.after)
         /\ Takes(t, q) => Line(x) = "idle"
<1>1. Keeps(t, q) \/ Unlocks(t, q) => Holder(x) = q
  BY DEF Keeps, Unlocks, HeldBy
<1>2. Takes(t, q) => Holder(x) = Idle
  BY DEF Takes, NotHeld
<1> QED
  BY <1>1, <1>2 DEF LineIs, Line, Stage, StageOf, Idle

\* The line of the address of a thread, after its step.
LEMMA LineAfter ==
  ASSUME NEW t, NEW q, NEW x, x = q.address, NEW pc, NEW a, NEW g, NEW after,
         Becomes(t, pc, a, x, g, after)
  PROVE  /\ Keeps(t, q) \/ Takes(t, q) => LineIs(x, StageOf(pc, after), a, after)'
         /\ Unlocks(t, q) => Line(x)' = "idle"
<1>1. Keeps(t, q) \/ Takes(t, q) => Holder(x)' = proc'[t]
  BY DEF Keeps, Takes
<1>2. Unlocks(t, q) => Holder(x)' = Idle
  BY DEF Unlocks
<1>3. proc'[t].pc = pc /\ proc'[t].adapter = a /\ proc'[t].after = after
  BY DEF Becomes
<1>4. ASSUME Holder(x)' = proc'[t] PROVE LineIs(x, StageOf(pc, after), a, after)'
  <2>1. Holder(x)'.pc = pc /\ Holder(x)'.adapter = a /\ Holder(x)'.after = after
    BY <1>3, <1>4
  <2>2. Stage(Holder(x)') = StageOf(pc, after)
    BY <2>1 DEF Stage, StageOf
  <2> QED
    BY <2>1, <2>2 DEF LineIs, Line, Stage, StageOf
<1>5. ASSUME Holder(x)' = Idle PROVE Line(x)' = "idle"
  <2>1. Stage(Holder(x)') = "idle"
    BY <1>5 DEF Stage, Idle
  <2> QED
    BY <2>1 DEF Line, Stage
<1> QED
  BY <1>1, <1>2, <1>4, <1>5

\* What is known of an address that is not tainted.
LEMMA KnownAt ==
  ASSUME Base, AllFit, NEW x \in Addresses \ tainted
  PROVE  /\ FitLine(x) /\ \A g \in Connections : TabFits(g, x) /\ RootFits(g, x)
         /\ \A g \in Connections : Tab(g, x) # {} =>
              /\ Tab(g, x) = {services[x]} /\ services[x] \in Adapters
              /\ AddressOf[services[x]] = x /\ home[services[x]] = g
         /\ At_(x) \cap promised # {} => At_(x) \cap promised = {services[x]}
<1>1. FitLine(x) /\ \A g \in Connections : TabFits(g, x) /\ RootFits(g, x)
  BY FitParts DEF AllFit
<1>2. ASSUME NEW g \in Connections, Tab(g, x) # {}
      PROVE  /\ Tab(g, x) = {services[x]} /\ services[x] \in Adapters
             /\ AddressOf[services[x]] = x /\ home[services[x]] = g
  <2>1. Tab(g, x) = {services[x]}
    BY <1>1, <1>2 DEF TabFits
  <2>2. Tab(g, x) \subseteq Adapters
    BY Typed DEF Base
  <2> QED
    BY <2>1, <2>2 DEF Base, Placed
<1> QED
  BY <1>1, <1>2 DEF FitLine

\* A thread that goes on with its operation keeps AllFit.
LEMMA FitsContinue ==
  ASSUME Base, ConnectionsFit, Entering, AllFit, NEW t \in Actors, Continue(t), Frame(t)
  PROVE  AllFit'
<1>0. TypeOK /\ Shape(proc[t])
  BY DEF Base, Shapes
<1> PICK q \in Process : q = proc[t]
  BY <1>0, Typed
<1> PICK x : x = q.address
  OBVIOUS
<1> PICK b : b = services[x]
  OBVIOUS
<1> PICK g : g = home[b]
  OBVIOUS
<1> PICK c : c = q.conn
  OBVIOUS
<1>a. q.pc \in {"retract", "unlist"} => (q.after = "drop" <=> q.adapter \in Managed)
  BY <1>0 DEF Shape, Building
<1>c. q.after \in {"drop", "return", "erase"}
  BY DEF Process
<1>1. CASE Insert(t)
  <2>0. Still /\ SameLives /\ Others(x) /\ tainted \subseteq tainted' /\ x \in Addresses
    BY <1>1, InsertEffect DEF SameLives, ConnAt, ActiveAt, AtWork, Announces, TakesBack
  <2> SUFFICES ASSUME x \notin tainted' PROVE Fits(x)'
    BY <2>0, AllFitKept
  <2>1. /\ FitLine(x) /\ \A h \in Connections : TabFits(h, x) /\ RootFits(h, x)
        /\ \A h \in Connections : Tab(h, x) # {} =>
              /\ Tab(h, x) = {services[x]} /\ services[x] \in Adapters
              /\ AddressOf[services[x]] = x /\ home[services[x]] = h
    BY <2>0, KnownAt
  <2>2. /\ q.pc = "insert" /\ SameShown /\ SameTables /\ promised' = promised
             /\ promised \subseteq Adapters
        /\ services[x] = None /\ services'[x] = q.adapter
    BY <1>0, <1>1, InsertEffect DEF TypeOK
  <2>3. Line(x) = "idle"
    BY <1>1, InsertEffect, LineBefore, Held DEF Takes
  <2>4. LineIs(x, "export", q.adapter, q.after)'
    <3>1. Takes(t, q) /\ Becomes(t, "export", q.adapter, x, c, q.after)
      BY <1>0, <1>1, InsertEffect, Held
    <3> QED
      BY <3>1, LineAfter DEF StageOf
  <2>5. FitLine(x)'
    BY <2>1, <2>2, <2>3, <2>4, ServicesAssumption DEF FitLine, LineIs, LockedLines, At_
  <2>6. ASSUME NEW h \in Connections PROVE TabFits(h, x)'
    BY <2>0, <2>1, <2>2, <2>3, <2>4, <2>6, ServicesAssumption DEF TabFits, LineIs, SameTables
  <2>7. ASSUME NEW h \in Connections PROVE RootFits(h, x)'
    <3>1. /\ ListedAt(h, x)' <=> ListedAt(h, x)
          /\ ListedAt(h, x) => services'[x] = services[x]
      BY <1>c, <2>0, <2>1, <2>2, <2>3, <2>4 DEF ListedAt, Listed, LineIs, StageOf, Still, FitLine
    <3>2. Shown(h, x) /\ conn'[h].open = conn[h].open
      BY <2>0, <2>2, <2>7 DEF SameShown, SameLives
    <3> QED
      BY <2>0, <2>1, <3>1, <3>2, RootStays
  <2> QED
    BY <2>0, <2>5, <2>6, <2>7, FitPartsNext
<1>2. CASE ExportStub(t)
  <2>0. Still /\ SameLives /\ Others(x) /\ tainted \subseteq tainted' /\ x \in Addresses
    BY <1>2, ExportStubEffect DEF SameLives, ConnAt, ActiveAt, AtWork, Announces, TakesBack
  <2> SUFFICES ASSUME x \notin tainted' PROVE Fits(x)'
    BY <2>0, AllFitKept
  <2>1. /\ FitLine(x) /\ \A h \in Connections : TabFits(h, x) /\ RootFits(h, x)
        /\ \A h \in Connections : Tab(h, x) # {} =>
              /\ Tab(h, x) = {services[x]} /\ services[x] \in Adapters
              /\ AddressOf[services[x]] = x /\ home[services[x]] = h
    BY <2>0, KnownAt
  <2>2. /\ q.pc = "export" /\ SameTables /\ promised' = promised /\ services' = services
        /\ q.adapter \notin Managed /\ q.adapter \in Adapters /\ c \in Connections
             /\ home[q.adapter] = c
        /\ AddressOf[q.adapter] = x
        /\ Announces(c, q.adapter) /\ Becomes(t, "enter", q.adapter, x, c, q.after)
    BY <1>2, ExportStubEffect DEF AtWork
  <2>3. LineIs(x, StageOf(q.pc, q.after), q.adapter, q.after)
    BY <1>2, ExportStubEffect, LineBefore
  <2>4. LineIs(x, "enter", q.adapter, q.after)'
    BY <2>2, <1>2, ExportStubEffect, LineAfter DEF StageOf
  <2>5. FitLine(x)'
    BY <1>c, <2>1, <2>2, <2>3, <2>4 DEF FitLine, LineIs, StageOf, LockedLines, At_
  <2>6. ASSUME NEW h \in Connections PROVE TabFits(h, x)'
    BY <1>c, <2>0, <2>1, <2>2, <2>3, <2>4, <2>6 DEF TabFits, LineIs, StageOf, SameTables
  <2>7. ASSUME NEW h \in Connections PROVE RootFits(h, x)'
    <3>1. services[x] = q.adapter /\ ~Listed(x)
      BY <2>1, <2>2, <2>3 DEF FitLine, LineIs, StageOf, Listed
    <3>2. ListedAt(h, x)' <=> h = c
      BY <2>0, <2>2, <2>4, <3>1, ServicesAssumption DEF ListedAt, Listed, LineIs, Still
    <3>3. conn'[h].open = conn[h].open
      BY <2>0 DEF SameLives
    <3>4. RootFits(h, x) /\ ~ListedAt(h, x)
      BY <2>1, <3>1 DEF ListedAt
    <3>5. CASE h = c
      <4>1. AtRoot(h, x) = {} /\ q.adapter \notin manager[c].exported[Root]
        BY <2>2, <3>4, <3>5 DEF RootFits, AtRoot, At_
      <4>2. AtRoot(h, x)' = {q.adapter}
        BY <2>2, <3>5, <4>1 DEF Announces, AtRoot, At_
      <4>3. heard'[h] =
              IF conn[h].open THEN heard[h] \cup Interfaces(q.adapter)
                \cup PropertiesOf(q.adapter) ELSE heard[h]
        BY <2>2, <3>5, <4>1 DEF Announces
      <4>4. Entry(x) \notin heard[h] /\ (OnlyManaging(x) => ManagerEntry(x) \notin heard[h])
        BY <3>4 DEF RootFits
      <4>5. Entry(x) \in heard'[h] <=> conn[h].open
        BY <2>0, <2>2, <4>3, <4>4, InterfaceEntries
      <4>6. OnlyManaging(x) =>
              (ManagerEntry(x) \in heard'[h] <=> conn[h].open /\ q.adapter \in Managing)
        BY <2>0, <2>2, <4>3, <4>4, InterfaceEntries
      <4> QED
        BY <2>2, <3>1, <3>2, <3>3, <3>5, <4>2, <4>5, <4>6 DEF RootFits
    <3>6. CASE h # c
      <4>1. Shown(h, x)
        BY <2>0, <2>2, <3>6 DEF Announces
      <4> QED
        BY <2>0, <3>2, <3>4, <3>6, <4>1, RootStays
    <3> QED
      BY <3>5, <3>6
  <2> QED
    BY <2>0, <2>5, <2>6, <2>7, FitPartsNext
<1>3. CASE Enter(t)
  <2>0. Still /\ SameLives /\ Others(x) /\ tainted \subseteq tainted' /\ x \in Addresses
    BY <1>3, EnterEffect DEF SameLives, ConnAt, ActiveAt, AtWork, Announces, TakesBack
  <2> SUFFICES ASSUME x \notin tainted' PROVE Fits(x)'
    BY <2>0, AllFitKept
  <2>1. /\ FitLine(x) /\ \A h \in Connections : TabFits(h, x) /\ RootFits(h, x)
        /\ \A h \in Connections : Tab(h, x) # {} =>
              /\ Tab(h, x) = {services[x]} /\ services[x] \in Adapters
              /\ AddressOf[services[x]] = x /\ home[services[x]] = h
    BY <2>0, KnownAt
  <2>2. /\ q.pc = "enter" /\ SameShown /\ promised' = promised /\ services' = services
        /\ EntersAt(c, q.adapter) /\ home[q.adapter] = c /\ AddressOf[q.adapter] = x
    BY <1>3, EnterEffect DEF AtWork
  <2>3. LineIs(x, StageOf(q.pc, q.after), q.adapter, q.after)
    BY <1>3, EnterEffect, LineBefore
  <2>4. LineIs(x, "request", q.adapter, q.after)'
    BY <1>3, EnterEffect, LineAfter DEF StageOf
  <2>5. FitLine(x)'
    BY <1>c, <2>1, <2>2, <2>3, <2>4 DEF FitLine, LineIs, StageOf, LockedLines, At_
  <2>6. ASSUME NEW h \in Connections PROVE TabFits(h, x)'
    <3>1. services[x] = q.adapter
      BY <2>1, <2>2, <2>3 DEF FitLine, LineIs, StageOf
    <3> QED
      BY <2>0, <2>1, <2>2, <2>4, <2>6, <3>1 DEF TabFits, LineIs, EntersAt
  <2>7. ASSUME NEW h \in Connections PROVE RootFits(h, x)'
    <3>1. /\ ListedAt(h, x)' <=> ListedAt(h, x)
          /\ ListedAt(h, x) => services'[x] = services[x]
      BY <1>c, <2>0, <2>1, <2>2, <2>3, <2>4 DEF ListedAt, Listed, LineIs, StageOf, Still, FitLine
    <3>2. Shown(h, x) /\ conn'[h].open = conn[h].open
      BY <2>0, <2>2, <2>7 DEF SameShown, SameLives
    <3> QED
      BY <2>0, <2>1, <3>1, <3>2, RootStays
  <2> QED
    BY <2>0, <2>5, <2>6, <2>7, FitPartsNext
<1>4. CASE RequestName(t)
  <2>0. Still /\ SameLives /\ Others(x) /\ tainted \subseteq tainted' /\ x \in Addresses
    BY <1>4, RequestNameEffect DEF SameLives, ConnAt, ActiveAt, AtWork, Announces, TakesBack
  <2> SUFFICES ASSUME x \notin tainted' PROVE Fits(x)'
    BY <2>0, AllFitKept
  <2>1. /\ FitLine(x) /\ \A h \in Connections : TabFits(h, x) /\ RootFits(h, x)
        /\ \A h \in Connections : Tab(h, x) # {} =>
              /\ Tab(h, x) = {services[x]} /\ services[x] \in Adapters
              /\ AddressOf[services[x]] = x /\ home[services[x]] = h
    BY <2>0, KnownAt
  <2>2. /\ q.pc = "request" /\ SameShown /\ SameTables /\ services' = services
        /\ q.adapter \in Adapters /\ AddressOf[q.adapter] = x
    BY <1>4, RequestNameEffect DEF AtWork
  <2>3. LineIs(x, StageOf(q.pc, q.after), q.adapter, q.after)
    BY <1>4, RequestNameEffect, LineBefore
  <2>4. \/ Line(x)' = "idle" /\ promised' = promised \cup {q.adapter}
        \/ /\ promised' = promised
           /\ \/ LineIs(x, "count", q.adapter, q.after)'
                   \/ LineIs(x, "unexport", q.adapter, q.after)'
              \/ LineIs(x, "withdraw", q.adapter, q.after)' /\ q.adapter \in Managed
    <3>1. \/ Unlocks(t, q) /\ promised' = promised \cup {q.adapter}
               /\ Becomes(t, "drop", q.adapter, x, c, q.after)
          \/ /\ promised' = promised /\ Keeps(t, q)
             /\ \/ Becomes(t, "count", q.adapter, x, c, q.after)
                \/ Becomes(t, "unexport", q.adapter, x, c, q.after)
                \/ Becomes(t, "withdraw", q.adapter, x, c, q.after) /\ q.adapter \in Managed
      BY <1>4, RequestNameEffect
    <3>2. CASE Unlocks(t, q) /\ promised' = promised \cup {q.adapter}
                 /\ Becomes(t, "drop", q.adapter, x, c, q.after)
      BY <3>2, LineAfter
    <3>3. CASE promised' = promised /\ Keeps(t, q)
                 /\ Becomes(t, "count", q.adapter, x, c, q.after)
      BY <3>3, LineAfter DEF StageOf
    <3>4. CASE promised' = promised /\ Keeps(t, q)
                 /\ Becomes(t, "unexport", q.adapter, x, c, q.after)
      BY <3>4, LineAfter DEF StageOf
    <3>5. CASE promised' = promised /\ Keeps(t, q)
                 /\ Becomes(t, "withdraw", q.adapter, x, c, q.after) /\ q.adapter \in Managed
      BY <3>5, LineAfter DEF StageOf
    <3> QED
      BY <3>1, <3>2, <3>3, <3>4, <3>5
  <2>5. FitLine(x)'
    BY <1>c, <2>1, <2>2, <2>3, <2>4 DEF FitLine, LineIs, StageOf, LockedLines, At_
  <2>6. ASSUME NEW h \in Connections PROVE TabFits(h, x)'
    BY <1>c, <2>0, <2>1, <2>2, <2>3, <2>4, <2>6 DEF TabFits, LineIs, StageOf, SameTables
  <2>7. ASSUME NEW h \in Connections PROVE RootFits(h, x)'
    <3>1. /\ ListedAt(h, x)' <=> ListedAt(h, x)
          /\ ListedAt(h, x) => services'[x] = services[x]
      BY <1>c, <2>0, <2>1, <2>2, <2>3, <2>4 DEF ListedAt, Listed, LineIs, StageOf, Still, FitLine
    <3>2. Shown(h, x) /\ conn'[h].open = conn[h].open
      BY <2>0, <2>2, <2>7 DEF SameShown, SameLives
    <3> QED
      BY <2>0, <2>1, <3>1, <3>2, RootStays
  <2> QED
    BY <2>0, <2>5, <2>6, <2>7, FitPartsNext
<1>5. CASE CountManaged(t)
  <2>0. Still /\ SameLives /\ Others(x) /\ tainted \subseteq tainted' /\ x \in Addresses
    BY <1>5, CountManagedEffect DEF SameLives, ConnAt, ActiveAt, AtWork, Announces, TakesBack
  <2> SUFFICES ASSUME x \notin tainted' PROVE Fits(x)'
    BY <2>0, AllFitKept
  <2>1. /\ FitLine(x) /\ \A h \in Connections : TabFits(h, x) /\ RootFits(h, x)
        /\ \A h \in Connections : Tab(h, x) # {} =>
              /\ Tab(h, x) = {services[x]} /\ services[x] \in Adapters
              /\ AddressOf[services[x]] = x /\ home[services[x]] = h
    BY <2>0, KnownAt
  <2>2. /\ q.pc = "count" /\ SameShown /\ SameTables /\ services' = services
        /\ promised' = promised \cup {q.adapter} /\ q.adapter \in Managed
    BY <1>5, CountManagedEffect
  <2>3. LineIs(x, StageOf(q.pc, q.after), q.adapter, q.after)
    BY <1>5, CountManagedEffect, LineBefore
  <2>4. Line(x)' = "idle" 
    <3>1. Unlocks(t, q) /\ Becomes(t, "drop", q.adapter, x, c, q.after)
      BY <1>5, CountManagedEffect
    <3> QED
      BY <3>1, LineAfter
  <2>5. FitLine(x)'
    BY <1>c, <2>1, <2>2, <2>3, <2>4 DEF FitLine, LineIs, StageOf, LockedLines, At_
  <2>6. ASSUME NEW h \in Connections PROVE TabFits(h, x)'
    BY <1>c, <2>0, <2>1, <2>2, <2>3, <2>4, <2>6 DEF TabFits, LineIs, StageOf, SameTables
  <2>7. ASSUME NEW h \in Connections PROVE RootFits(h, x)'
    <3>1. /\ ListedAt(h, x)' <=> ListedAt(h, x)
          /\ ListedAt(h, x) => services'[x] = services[x]
      BY <1>c, <2>0, <2>1, <2>2, <2>3, <2>4 DEF ListedAt, Listed, LineIs, StageOf, Still, FitLine
    <3>2. Shown(h, x) /\ conn'[h].open = conn[h].open
      BY <2>0, <2>2, <2>7 DEF SameShown, SameLives
    <3> QED
      BY <2>0, <2>1, <3>1, <3>2, RootStays
  <2> QED
    BY <2>0, <2>5, <2>6, <2>7, FitPartsNext
<1>6. CASE RollbackExport(t)
  <2>0. Still /\ SameLives /\ Others(x) /\ tainted \subseteq tainted' /\ x \in Addresses
    BY <1>6, RollbackExportEffect DEF SameLives, ConnAt, ActiveAt, AtWork, Announces, TakesBack
  <2> SUFFICES ASSUME x \notin tainted' PROVE Fits(x)'
    BY <2>0, AllFitKept
  <2>1. /\ FitLine(x) /\ \A h \in Connections : TabFits(h, x) /\ RootFits(h, x)
        /\ \A h \in Connections : Tab(h, x) # {} =>
              /\ Tab(h, x) = {services[x]} /\ services[x] \in Adapters
              /\ AddressOf[services[x]] = x /\ home[services[x]] = h
    BY <2>0, KnownAt
  <2>2. /\ q.pc = "unexport" /\ SameTables /\ promised' = promised /\ services' = services
        /\ q.adapter \notin Managed /\ q.adapter \in Adapters /\ c \in Connections
             /\ home[q.adapter] = c
        /\ AddressOf[q.adapter] = x /\ Keeps(t, q)
        /\ TakesBack(c, q.adapter) \/ q.adapter \notin manager[c].exported[Root]
        /\ Becomes(t, "withdraw", q.adapter, x, c, q.after)
    BY <1>6, RollbackExportEffect DEF AtWork
  <2>3. LineIs(x, StageOf(q.pc, q.after), q.adapter, q.after)
    BY <1>6, RollbackExportEffect, LineBefore
  <2>4. LineIs(x, "withdraw", q.adapter, q.after)' /\ TakesBack(c, q.adapter)
    <3>1. services[x] = q.adapter /\ ListedAt(c, x)
      BY <2>1, <2>2, <2>3, ServicesAssumption DEF FitLine, LineIs, StageOf, ListedAt, Listed
    <3>2. q.adapter \in manager[c].exported[Root]
      BY <2>1, <2>2, <3>1 DEF RootFits, AtRoot
    <3> QED
      BY <2>2, <3>2, LineAfter DEF StageOf
  <2>5. FitLine(x)'
    BY <1>c, <2>1, <2>2, <2>3, <2>4 DEF FitLine, LineIs, StageOf, LockedLines, At_
  <2>6. ASSUME NEW h \in Connections PROVE TabFits(h, x)'
    BY <1>c, <2>0, <2>1, <2>2, <2>3, <2>4, <2>6 DEF TabFits, LineIs, StageOf, SameTables
  <2>7. ASSUME NEW h \in Connections PROVE RootFits(h, x)'
    <3>1. services[x] = q.adapter
      BY <2>1, <2>2, <2>3 DEF FitLine, LineIs, StageOf
    <3>2. ~Listed(x)'
      BY <2>2, <2>4 DEF Listed, LineIs
    <3>3. conn'[h].open = conn[h].open
      BY <2>0 DEF SameLives
    <3>4. RootFits(h, x) /\ (ListedAt(h, x) => h = c)
      BY <2>1, <2>2, <3>1 DEF ListedAt
    <3>5. CASE h = c
      <4>1. AtRoot(h, x) \subseteq {q.adapter}
        BY <3>1, <3>4 DEF RootFits
      <4>2. AtRoot(h, x)' = {}
        BY <2>2, <2>4, <3>5, <4>1 DEF TakesBack, AtRoot, At_
      <4>3. heard'[h] = IF conn[h].open THEN heard[h] \ Interfaces(q.adapter) ELSE heard[h]
        BY <2>2, <2>4, <3>5 DEF TakesBack
      <4>4. conn[h].open \/ heard[h] = {}
        BY DEF ConnectionsFit
      <4>5. Entry(x) \notin heard'[h]
        BY <2>0, <2>2, <4>3, <4>4, InterfaceEntries
      <4>6. OnlyManaging(x) => ManagerEntry(x) \notin heard'[h]
        <5>1. q.adapter \notin Managing /\ OnlyManaging(x) => ManagerEntry(x) \notin heard[h]
          BY <3>1, <3>4 DEF RootFits
        <5> QED
          BY <2>0, <2>2, <4>3, <4>4, <5>1, InterfaceEntries
      <4> QED
        BY <3>2, <4>2, <4>5, <4>6 DEF RootFits, ListedAt
    <3>6. CASE h # c
      <4>1. Shown(h, x)
        BY <2>0, <2>2, <2>4, <3>6 DEF TakesBack
      <4> QED
        BY <2>0, <3>2, <3>4, <3>6, <4>1, RootStays DEF ListedAt
    <3> QED
      BY <3>5, <3>6
  <2> QED
    BY <2>0, <2>5, <2>6, <2>7, FitPartsNext
<1>7. CASE Withdraw(t)
  <2>0. Still /\ SameLives /\ Others(x) /\ tainted \subseteq tainted' /\ x \in Addresses
    BY <1>7, WithdrawEffect DEF SameLives, ConnAt, ActiveAt, AtWork, Announces, TakesBack
  <2> SUFFICES ASSUME x \notin tainted' PROVE Fits(x)'
    BY <2>0, AllFitKept
  <2>1. /\ FitLine(x) /\ \A h \in Connections : TabFits(h, x) /\ RootFits(h, x)
        /\ \A h \in Connections : Tab(h, x) # {} =>
              /\ Tab(h, x) = {services[x]} /\ services[x] \in Adapters
              /\ AddressOf[services[x]] = x /\ home[services[x]] = h
    BY <2>0, KnownAt
  <2>2. /\ q.pc = "withdraw" /\ SameShown /\ promised' = promised /\ services' = services
        /\ LeavesAt(c, q.adapter) /\ home[q.adapter] = c /\ AddressOf[q.adapter] = x
             /\ Keeps(t, q)
        /\ \/ q.adapter \in Managed /\ Becomes(t, "erase", q.adapter, x, c, "erase")
           \/ q.adapter \notin Managed /\ Becomes(t, "retract", q.adapter, x, c, "erase")
    BY <1>7, WithdrawEffect DEF AtWork
  <2>3. LineIs(x, StageOf(q.pc, q.after), q.adapter, q.after)
    BY <1>7, WithdrawEffect, LineBefore
  <2>4. \/ LineIs(x, "erase", q.adapter, "erase")' /\ q.adapter \in Managed
        \/ LineIs(x, "undo", q.adapter, "erase")'
    BY <2>2, LineAfter DEF StageOf
  <2>5. FitLine(x)'
    BY <1>c, <2>1, <2>2, <2>3, <2>4 DEF FitLine, LineIs, StageOf, LockedLines, At_
  <2>6. ASSUME NEW h \in Connections PROVE TabFits(h, x)'
    <3>1. services[x] = q.adapter
      BY <2>1, <2>2, <2>3 DEF FitLine, LineIs, StageOf
    <3>2. Tab(h, x)' = {}
      BY <2>0, <2>1, <2>2, <2>6, <3>1 DEF LeavesAt
    <3> QED
      BY <3>2 DEF TabFits
  <2>7. ASSUME NEW h \in Connections PROVE RootFits(h, x)'
    <3>1. /\ ListedAt(h, x)' <=> ListedAt(h, x)
          /\ ListedAt(h, x) => services'[x] = services[x]
      BY <1>c, <2>0, <2>1, <2>2, <2>3, <2>4 DEF ListedAt, Listed, LineIs, StageOf, Still, FitLine
    <3>2. Shown(h, x) /\ conn'[h].open = conn[h].open
      BY <2>0, <2>2, <2>7 DEF SameShown, SameLives
    <3> QED
      BY <2>0, <2>1, <3>1, <3>2, RootStays
  <2> QED
    BY <2>0, <2>5, <2>6, <2>7, FitPartsNext
<1>8. CASE Erase(t)
  <2>0. Still /\ SameLives /\ Others(x) /\ tainted \subseteq tainted' /\ x \in Addresses
    BY <1>8, EraseEffect DEF SameLives, ConnAt, ActiveAt, AtWork, Announces, TakesBack
  <2> SUFFICES ASSUME x \notin tainted' PROVE Fits(x)'
    BY <2>0, AllFitKept
  <2>1. /\ FitLine(x) /\ \A h \in Connections : TabFits(h, x) /\ RootFits(h, x)
        /\ \A h \in Connections : Tab(h, x) # {} =>
              /\ Tab(h, x) = {services[x]} /\ services[x] \in Adapters
              /\ AddressOf[services[x]] = x /\ home[services[x]] = h
    BY <2>0, KnownAt
  <2>2. /\ q.pc = "erase" /\ SameShown /\ SameTables /\ promised' = promised
        /\ services'[x] = None
    BY <1>8, EraseEffect
  <2>3. LineIs(x, StageOf(q.pc, q.after), q.adapter, q.after)
    BY <1>8, EraseEffect, LineBefore
  <2>4. Line(x)' = "idle" 
    BY <1>8, EraseEffect, LineAfter
  <2>5. FitLine(x)'
    BY <1>c, <2>1, <2>2, <2>3, <2>4 DEF FitLine, LineIs, StageOf, LockedLines, At_
  <2>6. ASSUME NEW h \in Connections PROVE TabFits(h, x)'
    BY <2>0, <2>1, <2>2, <2>3, <2>6 DEF TabFits, LineIs, StageOf, SameTables
  <2>7. ASSUME NEW h \in Connections PROVE RootFits(h, x)'
    <3>1. /\ ListedAt(h, x)' <=> ListedAt(h, x)
          /\ ListedAt(h, x) => services'[x] = services[x]
      BY <1>c, <2>0, <2>1, <2>2, <2>3, <2>4 DEF ListedAt, Listed, LineIs, StageOf, Still, FitLine
    <3>2. Shown(h, x) /\ conn'[h].open = conn[h].open
      BY <2>0, <2>2, <2>7 DEF SameShown, SameLives
    <3> QED
      BY <2>0, <2>1, <3>1, <3>2, RootStays
  <2> QED
    BY <2>0, <2>5, <2>6, <2>7, FitPartsNext
<1>9. CASE Return(t)
  <2>0. Still /\ SameLives /\ Others(x) /\ tainted \subseteq tainted' /\ x \in Addresses
    BY <1>9, ReturnEffect DEF SameLives, ConnAt, ActiveAt, AtWork, Announces, TakesBack
  <2> SUFFICES ASSUME x \notin tainted' PROVE Fits(x)'
    BY <2>0, AllFitKept
  <2>1. /\ FitLine(x) /\ \A h \in Connections : TabFits(h, x) /\ RootFits(h, x)
        /\ \A h \in Connections : Tab(h, x) # {} =>
              /\ Tab(h, x) = {services[x]} /\ services[x] \in Adapters
              /\ AddressOf[services[x]] = x /\ home[services[x]] = h
    BY <2>0, KnownAt
  <2>2. /\ q.pc = "return" /\ SameShown /\ SameTables /\ promised' = promised
        /\ services' = services
    BY <1>9, ReturnEffect
  <2>3. LineIs(x, StageOf(q.pc, q.after), q.adapter, q.after)
    BY <1>9, ReturnEffect, LineBefore
  <2>4. Line(x)' = "idle" 
    BY <1>9, ReturnEffect, LineAfter
  <2>5. FitLine(x)'
    BY <1>c, <2>1, <2>2, <2>3, <2>4 DEF FitLine, LineIs, StageOf, LockedLines, At_
  <2>6. ASSUME NEW h \in Connections PROVE TabFits(h, x)'
    BY <1>c, <2>0, <2>1, <2>2, <2>3, <2>4, <2>6 DEF TabFits, LineIs, StageOf, SameTables
  <2>7. ASSUME NEW h \in Connections PROVE RootFits(h, x)'
    <3>1. /\ ListedAt(h, x)' <=> ListedAt(h, x)
          /\ ListedAt(h, x) => services'[x] = services[x]
      BY <1>c, <2>0, <2>1, <2>2, <2>3, <2>4 DEF ListedAt, Listed, LineIs, StageOf, Still, FitLine
    <3>2. Shown(h, x) /\ conn'[h].open = conn[h].open
      BY <2>0, <2>2, <2>7 DEF SameShown, SameLives
    <3> QED
      BY <2>0, <2>1, <3>1, <3>2, RootStays
  <2> QED
    BY <2>0, <2>5, <2>6, <2>7, FitPartsNext
<1>10. CASE Forget(t)
  <2>0. Still /\ SameLives /\ Others(x) /\ tainted \subseteq tainted' /\ x \in Addresses
    BY <1>10, ForgetEffect DEF SameLives, ConnAt, ActiveAt, AtWork, Announces, TakesBack
  <2> SUFFICES ASSUME x \notin tainted' PROVE Fits(x)'
    BY <2>0, AllFitKept
  <2>1. /\ FitLine(x) /\ \A h \in Connections : TabFits(h, x) /\ RootFits(h, x)
        /\ \A h \in Connections : Tab(h, x) # {} =>
              /\ Tab(h, x) = {services[x]} /\ services[x] \in Adapters
              /\ AddressOf[services[x]] = x /\ home[services[x]] = h
    BY <2>0, KnownAt
  <2>2. /\ q.pc = "leave" /\ SameTables /\ promised' = promised
        /\ q.adapter \in Adapters /\ c \in Connections /\ home[q.adapter] = c
        /\ AddressOf[q.adapter] = x /\ Unlocks(t, q)
        /\ \/ /\ TakesBack(c, q.adapter) /\ services'[x] = None
              /\ Becomes(t, "decrement", q.adapter, x, c, q.after)
           \/ q.adapter \notin manager[c].exported[Root]
    BY <1>10, ForgetEffect DEF AtWork
  <2>3. LineIs(x, StageOf(q.pc, q.after), q.adapter, q.after)
    BY <1>10, ForgetEffect, LineBefore
  <2>4. Line(x)' = "idle" /\ TakesBack(c, q.adapter) /\ services'[x] = None
    <3>1. services[x] = q.adapter /\ ListedAt(c, x)
      BY <2>1, <2>2, <2>3, ServicesAssumption DEF FitLine, LineIs, StageOf, ListedAt, Listed
    <3>2. q.adapter \in manager[c].exported[Root]
      BY <2>1, <2>2, <3>1 DEF RootFits, AtRoot
    <3> QED
      BY <2>2, <3>2, LineAfter
  <2>5. FitLine(x)'
    BY <2>1, <2>2, <2>3, <2>4 DEF FitLine, LineIs, StageOf, LockedLines, At_
  <2>6. ASSUME NEW h \in Connections PROVE TabFits(h, x)'
    <3>1. Tab(h, x) = {}
      BY <2>1, <2>2, <2>3 DEF TabFits, LineIs, StageOf
    <3>2. Tab(h, x)' = {}
      BY <2>0, <2>2, <3>1 DEF SameTables
    <3> QED
      BY <3>2 DEF TabFits
  <2>7. ASSUME NEW h \in Connections PROVE RootFits(h, x)'
    <3>1. services[x] = q.adapter
      BY <2>1, <2>2, <2>3 DEF FitLine, LineIs, StageOf
    <3>2. ~Listed(x)'
      BY <2>2, <2>4 DEF Listed, LineIs
    <3>3. conn'[h].open = conn[h].open
      BY <2>0 DEF SameLives
    <3>4. RootFits(h, x) /\ (ListedAt(h, x) => h = c)
      BY <2>1, <2>2, <3>1 DEF ListedAt
    <3>5. CASE h = c
      <4>1. AtRoot(h, x) \subseteq {q.adapter}
        BY <3>1, <3>4 DEF RootFits
      <4>2. AtRoot(h, x)' = {}
        BY <2>2, <2>4, <3>5, <4>1 DEF TakesBack, AtRoot, At_
      <4>3. heard'[h] = IF conn[h].open THEN heard[h] \ Interfaces(q.adapter) ELSE heard[h]
        BY <2>2, <2>4, <3>5 DEF TakesBack
      <4>4. conn[h].open \/ heard[h] = {}
        BY DEF ConnectionsFit
      <4>5. Entry(x) \notin heard'[h]
        BY <2>0, <2>2, <4>3, <4>4, InterfaceEntries
      <4>6. OnlyManaging(x) => ManagerEntry(x) \notin heard'[h]
        <5>1. q.adapter \notin Managing /\ OnlyManaging(x) => ManagerEntry(x) \notin heard[h]
          BY <3>1, <3>4 DEF RootFits
        <5> QED
          BY <2>0, <2>2, <4>3, <4>4, <5>1, InterfaceEntries
      <4> QED
        BY <3>2, <4>2, <4>5, <4>6 DEF RootFits, ListedAt
    <3>6. CASE h # c
      <4>1. Shown(h, x)
        BY <2>0, <2>2, <2>4, <3>6 DEF TakesBack
      <4> QED
        BY <2>0, <3>2, <3>4, <3>6, <4>1, RootStays DEF ListedAt
    <3> QED
      BY <3>5, <3>6
  <2> QED
    BY <2>0, <2>5, <2>6, <2>7, FitPartsNext
<1>11. CASE Retract(t)
  <2>0. Still /\ SameLives /\ Others(x) /\ tainted \subseteq tainted' /\ x \in Addresses
    BY <1>11, RetractEffect DEF SameLives, ConnAt, AtWork
  <2> SUFFICES ASSUME x \notin tainted' PROVE Fits(x)'
    BY <2>0, AllFitKept
  <2>1. /\ FitLine(x) /\ \A h \in Connections : TabFits(h, x) /\ RootFits(h, x)
        /\ \A h \in Connections : Tab(h, x) # {} =>
              /\ Tab(h, x) = {services[x]} /\ services[x] \in Adapters
              /\ AddressOf[services[x]] = x /\ home[services[x]] = h
    BY <2>0, KnownAt
  <2>2. q.pc = "retract" /\ SameShown /\ promised' = promised
    BY <1>11, RetractEffect
  <2>3. LineIs(x, StageOf(q.pc, q.after), q.adapter, q.after) /\ (Keeps(t, q) \/ Unlocks(t, q))
    BY <1>11, RetractEffect, LineBefore
  <2>a. At_(x) \cap promised = {}
    BY <2>1, <2>2, <2>3 DEF FitLine, LineIs, StageOf
  <2>b. ~Listed(x)
    BY <1>c, <2>1, <2>2, <2>3 DEF FitLine, LineIs, StageOf, Listed
  <2>c. ASSUME ~Listed(x)', NEW h \in Connections PROVE RootFits(h, x)'
    <3>1. Shown(h, x)
      BY <2>0, <2>2, <2>c DEF SameShown
    <3> QED
      BY <2>0, <2>1, <2>b, <2>c, <3>1, RootStays DEF ListedAt
  <2>8. CASE /\ b # None /\ g \in Connections /\ Leaves(manager[g], b) /\ LeavesAt(g, b)
             /\ services'[x] = None
             /\ Becomes(t, "decrement", q.adapter, x, g, q.after)
             /\ (q.after = "drop" /\ Unlocks(t, q)) \/ q.after # "drop"
    <3>1. AddressOf[b] = x
      BY <2>0, <2>8, Registered
    <3>2. Tab(g, x) # {}
      BY <1>0, <2>0, <2>8, <3>1, TableEmpty DEF Leaves
    <3>3. q.after = "drop"
      BY <1>c, <2>1, <2>2, <2>3, <2>8, <3>2 DEF TabFits, LineIs, StageOf, FitLine
    <3>4. Line(x)' = "idle"
      BY <2>8, <3>3, LineAfter
    <3>5. FitLine(x)'
      BY <2>2, <2>a, <3>4 DEF FitLine, LockedLines, At_
    <3>6. ASSUME NEW h \in Connections PROVE TabFits(h, x)'
      <4>1. Tab(h, x)' = {}
        BY <2>0, <2>1, <2>8, <3>1, <3>6 DEF LeavesAt
      <4> QED
        BY <4>1 DEF TabFits
    <3>7. ~Listed(x)'
      BY <2>8 DEF Listed
    <3> QED
      BY <2>0, <2>c, <3>5, <3>6, <3>7, FitPartsNext
  <2>9. CASE /\ services' = services
             /\ \/ b # None /\ g \in Connections /\ LeavesAt(g, b)
                \/ b = None /\ SameTables
             /\ Keeps(t, q)
             /\ Becomes(t, IF q.after = "drop" THEN "return" ELSE q.after, q.adapter, x, c,
                  q.after)
    <3>1. LineIs(x, IF q.after = "drop" THEN "return" ELSE q.after, q.adapter, q.after)'
      BY <1>c, <2>9, LineAfter DEF StageOf
    <3>2. ASSUME NEW h \in Connections PROVE Tab(h, x)' = {}
      <4>1. CASE b = None
        <5>1. Tab(h, x) = {}
          BY <2>1, <4>1, ServicesAssumption
        <5> QED
          BY <2>0, <2>9, <3>2, <4>1, <5>1 DEF SameTables
      <4>2. CASE b # None
        <5>1. AddressOf[b] = x
          BY <2>0, <4>2, Registered
        <5> QED
          BY <2>0, <2>1, <2>9, <3>2, <4>2, <5>1 DEF LeavesAt
      <4> QED
        BY <4>1, <4>2
    <3>3. FitLine(x)'
      BY <1>c, <2>1, <2>2, <2>3, <2>9, <2>a, <3>1 DEF FitLine, LockedLines, LineIs, StageOf, At_
    <3>4. ASSUME NEW h \in Connections PROVE TabFits(h, x)'
      BY <3>2 DEF TabFits
    <3>5. ~Listed(x)'
      BY <1>c, <2>1, <2>2, <2>3, <2>9, <3>1 DEF Listed, LineIs, FitLine, StageOf
    <3> QED
      BY <2>0, <2>c, <3>3, <3>4, <3>5, FitPartsNext
  <2> QED
    BY <1>11, RetractEffect, <2>8, <2>9
<1>12. CASE Release(t)
  <2>0. Still /\ SameLives /\ Others(x) /\ tainted \subseteq tainted' /\ x \in Addresses
    BY <1>12, ReleaseEffect DEF SameLives, ConnAt, ActiveAt, AtWork, Announces, TakesBack
  <2> SUFFICES ASSUME x \notin tainted' PROVE Fits(x)'
    BY <2>0, AllFitKept
  <2>1. /\ FitLine(x) /\ \A h \in Connections : TabFits(h, x) /\ RootFits(h, x)
        /\ \A h \in Connections : Tab(h, x) # {} =>
              /\ Tab(h, x) = {services[x]} /\ services[x] \in Adapters
              /\ AddressOf[services[x]] = x /\ home[services[x]] = h
    BY <2>0, KnownAt
  <2>2. /\ q.pc = "release" /\ SameShown /\ SameTables /\ promised' = promised
        /\ services' = services /\ Keeps(t, q)
        /\ Becomes(t, "leave", q.adapter, x, c, q.after)
             \/ Becomes(t, "return", q.adapter, x, c, q.after)
    BY <1>12, ReleaseEffect
  <2>3. LineIs(x, StageOf(q.pc, q.after), q.adapter, q.after)
    BY <1>12, ReleaseEffect, LineBefore
  <2>4. LineIs(x, "leave", q.adapter, q.after)' \/ LineIs(x, "return", q.adapter, q.after)'
    BY <2>2, LineAfter DEF StageOf
  <2>5. FitLine(x)'
    BY <1>c, <2>1, <2>2, <2>3, <2>4 DEF FitLine, LineIs, StageOf, LockedLines, At_
  <2>6. ASSUME NEW h \in Connections PROVE TabFits(h, x)'
    BY <1>c, <2>0, <2>1, <2>2, <2>3, <2>4, <2>6 DEF TabFits, LineIs, StageOf, SameTables
  <2>7. ASSUME NEW h \in Connections PROVE RootFits(h, x)'
    <3>1. /\ ListedAt(h, x)' <=> ListedAt(h, x)
          /\ ListedAt(h, x) => services'[x] = services[x]
      BY <1>c, <2>0, <2>1, <2>2, <2>3, <2>4 DEF ListedAt, Listed, LineIs, StageOf, Still, FitLine
    <3>2. Shown(h, x) /\ conn'[h].open = conn[h].open
      BY <2>0, <2>2, <2>7 DEF SameShown, SameLives
    <3> QED
      BY <2>0, <2>1, <3>1, <3>2, RootStays
  <2> QED
    BY <2>0, <2>5, <2>6, <2>7, FitPartsNext
<1>13. CASE Leave(t)
  <2>0. Still /\ SameLives /\ Others(x) /\ tainted \subseteq tainted' /\ x \in Addresses
    BY <1>13, LeaveEffect DEF SameLives, ConnAt
  <2> SUFFICES ASSUME x \notin tainted' PROVE Fits(x)'
    BY <2>0, AllFitKept
  <2>8. CASE b = None
    <3>1. Untouched(x)
      BY <1>13, LeaveEffect, <2>0, <2>8 DEF Untouched, SameHolder, SameTables, SameShown
    <3> QED
      BY <2>0, <3>1, FitsAgain DEF Still, SameLives, AllFit
  <2>9. CASE b # None
    <3>1. /\ FitLine(x) /\ \A h \in Connections : TabFits(h, x) /\ RootFits(h, x)
          /\ \A h \in Connections : Tab(h, x) # {} =>
                /\ Tab(h, x) = {services[x]} /\ services[x] \in Adapters
                /\ AddressOf[services[x]] = x /\ home[services[x]] = h
      BY <2>0, KnownAt
    <3>2. /\ g \in Connections /\ LeavesAt(g, b) /\ Takes(t, q) /\ SameShown
               /\ services' = services
          /\ b \notin Managed /\ At_(x) \cap promised' = {} /\ AddressOf[b] = x
          /\ Becomes(t, "release", b, x, g, "drop") \/ Becomes(t, "return", b, x, g, "drop")
      BY <1>13, LeaveEffect, <2>0, <2>9, Registered
    <3>3. Line(x) = "idle"
      BY <3>2, LineBefore
    <3>4. LineIs(x, "release", b, "drop")' \/ LineIs(x, "return", b, "drop")'
      BY <3>2, LineAfter DEF StageOf
    <3>5. FitLine(x)'
      BY <3>1, <3>2, <3>3, <3>4 DEF FitLine, LineIs, LockedLines
    <3>6. ASSUME NEW h \in Connections PROVE TabFits(h, x)'
      <4>1. Tab(h, x)' = {}
        BY <2>0, <3>1, <3>2, <3>6 DEF LeavesAt
      <4> QED
        BY <4>1 DEF TabFits
    <3>7. ASSUME NEW h \in Connections PROVE RootFits(h, x)'
      <4>1. /\ ListedAt(h, x)' <=> ListedAt(h, x)
            /\ services'[x] = services[x]
        BY <2>0, <3>2, <3>3, <3>4 DEF ListedAt, Listed, LineIs, Still
      <4>2. Shown(h, x) /\ conn'[h].open = conn[h].open
        BY <2>0, <3>2, <3>7 DEF SameShown, SameLives
      <4> QED
        BY <2>0, <3>1, <4>1, <4>2, RootStays
    <3> QED
      BY <2>0, <3>5, <3>6, <3>7, FitPartsNext
  <2> QED
    BY <2>8, <2>9
<1>14. CASE Enlist(t)
  <2>0. Still /\ SameLives /\ Others(x) /\ tainted \subseteq tainted' /\ x \in Addresses
    BY <1>14, EnlistEffect DEF SameLives, ConnAt, AtWork
  <2> SUFFICES ASSUME x \notin tainted' PROVE Fits(x)'
    BY <2>0, AllFitKept
  <2>8. CASE services' = services /\ SameHolder /\ SameTables
    <3>1. Untouched(x)
      BY <1>14, EnlistEffect, <2>0, <2>8 DEF Untouched, SameHolder, SameTables, SameShown
    <3> QED
      BY <2>0, <3>1, FitsAgain DEF Still, SameLives, AllFit
  <2>9. CASE /\ services[x] = None /\ services'[x] = q.adapter /\ Takes(t, q)
             /\ EntersAt(c, q.adapter) /\ Becomes(t, "request", q.adapter, x, c, q.after)
    <3>1. /\ FitLine(x) /\ \A h \in Connections : TabFits(h, x) /\ RootFits(h, x)
          /\ \A h \in Connections : Tab(h, x) # {} =>
                /\ Tab(h, x) = {services[x]} /\ services[x] \in Adapters
                /\ AddressOf[services[x]] = x /\ home[services[x]] = h
      BY <2>0, KnownAt
    <3>2. /\ q.adapter \in Managed /\ SameShown /\ promised' = promised
               /\ promised \subseteq Adapters
          /\ AddressOf[q.adapter] = x /\ c \in Connections
      BY <1>0, <1>14, EnlistEffect DEF AtWork, TypeOK
    <3>3. Line(x) = "idle"
      BY <2>9, LineBefore
    <3>4. LineIs(x, "request", q.adapter, q.after)'
      BY <2>9, LineAfter DEF StageOf
    <3>5. FitLine(x)'
      BY <2>9, <3>1, <3>2, <3>3, <3>4, ServicesAssumption DEF FitLine, LineIs, LockedLines, At_
    <3>6. ASSUME NEW h \in Connections PROVE TabFits(h, x)'
      <4>1. Tab(h, x) = {}
        BY <2>9, <3>1, ServicesAssumption
      <4>2. Tab(h, x)' \subseteq {q.adapter}
        BY <2>0, <2>9, <3>2, <3>6, <4>1 DEF EntersAt
      <4> QED
        BY <2>9, <3>4, <4>2 DEF TabFits, LineIs
    <3>7. ASSUME NEW h \in Connections PROVE RootFits(h, x)'
      <4>1. ~ListedAt(h, x)' /\ ~ListedAt(h, x)
        BY <2>9, <3>2 DEF ListedAt, Listed
      <4>2. Shown(h, x) /\ conn'[h].open = conn[h].open
        BY <2>0, <3>2, <3>7 DEF SameShown, SameLives
      <4> QED
        BY <2>0, <3>1, <4>1, <4>2, RootStays
    <3> QED
      BY <2>0, <3>5, <3>6, <3>7, FitPartsNext
  <2> QED
    BY <1>14, EnlistEffect, <2>8, <2>9
<1>15. CASE Unlist(t)
  <2>0. Still /\ SameLives /\ Others(x) /\ tainted \subseteq tainted' /\ x \in Addresses
    BY <1>15, UnlistEffect DEF SameLives, ConnAt, ActiveAt, AtWork, Announces, TakesBack
  <2> SUFFICES ASSUME x \notin tainted' PROVE Fits(x)'
    BY <2>0, AllFitKept
  <2>1. /\ FitLine(x) /\ \A h \in Connections : TabFits(h, x) /\ RootFits(h, x)
        /\ \A h \in Connections : Tab(h, x) # {} =>
              /\ Tab(h, x) = {services[x]} /\ services[x] \in Adapters
              /\ AddressOf[services[x]] = x /\ home[services[x]] = h
    BY <2>0, KnownAt
  <2>2. /\ q.pc = "unlist" /\ SameShown /\ SameTables /\ services' = services
        /\ promised' = promised \ {b} /\ b \in Managed \cup {None} /\ q.after = "drop" 
    BY <1>a, <1>15, UnlistEffect
  <2>3. Line(x) = "idle"
    BY <1>15, UnlistEffect, LineBefore
  <2>4. LineIs(x, "retract", q.adapter, q.after)'
    <3>1. Takes(t, q) /\ Becomes(t, "retract", q.adapter, x, c, q.after)
      BY <1>15, UnlistEffect
    <3> QED
      BY <2>2, <3>1, LineAfter DEF StageOf
  <2>5. FitLine(x)'
    <3>1. At_(x) \cap promised' = {}
      BY <2>1, <2>2 DEF FitLine
    <3> QED
      BY <2>1, <2>2, <2>3, <2>4, <3>1 DEF FitLine, LineIs, LockedLines
  <2>6. ASSUME NEW h \in Connections PROVE TabFits(h, x)'
    BY <1>c, <2>0, <2>1, <2>2, <2>3, <2>4, <2>6 DEF TabFits, LineIs, StageOf, SameTables
  <2>7. ASSUME NEW h \in Connections PROVE RootFits(h, x)'
    <3>1. /\ ListedAt(h, x)' <=> ListedAt(h, x)
          /\ ListedAt(h, x) => services'[x] = services[x]
      BY <1>c, <2>0, <2>1, <2>2, <2>3, <2>4 DEF ListedAt, Listed, LineIs, StageOf, Still, FitLine
    <3>2. Shown(h, x) /\ conn'[h].open = conn[h].open
      BY <2>0, <2>2, <2>7 DEF SameShown, SameLives
    <3> QED
      BY <2>0, <2>1, <3>1, <3>2, RootStays
  <2> QED
    BY <2>0, <2>5, <2>6, <2>7, FitPartsNext
<1>16. CASE Decrement(t)
  <2>0. /\ SameTables /\ SameRoot /\ SameShown /\ services' = services /\ promised' = promised
        /\ tainted' = tainted /\ home' = home
    BY <1>16, DecrementEffect DEF SameHomes
  <2>1. \A h \in Connections : conn'[h].open = conn[h].open
    BY <1>16, DecrementEffect DEF SameUsers, ActiveAt, Closes
  <2> SUFFICES ASSUME NEW y \in Addresses \ tainted PROVE Fits(y)'
    BY <2>0 DEF AllFit
  <2>2. Fits(y)
    BY DEF AllFit
  <2>3. Holder(y)' = Holder(y)
    <3>1. CASE SameHolder
      BY <3>1 DEF SameHolder
    <3>2. CASE Keeps(t, q)
      <4>1. q.pc = "decrement"
        BY <1>16, DecrementEffect
      <4>2. y # x
        <5>1. ASSUME y = x PROVE FALSE
          <6>1. Line(x) = "decrement"
            BY <3>2, <4>1, LineBefore DEF LineIs, StageOf
          <6>2. FitLine(x)
            BY <2>2, <5>1, FitParts
          <6> QED
            BY <6>1, <6>2 DEF FitLine, LockedLines
        <5> QED
          BY <5>1
      <4> QED
        BY <3>2, <4>2 DEF Keeps, HeldBy
    <3> QED
      BY <1>16, DecrementEffect, <3>1, <3>2
  <2>4. Untouched(y)
    BY <2>0, <2>3 DEF Untouched, SameTables, SameShown
  <2> QED
    BY <2>0, <2>1, <2>2, <2>4, FitsAgain
<1>17. CASE Close(t)
  BY <1>17, FitsClose
<1>18. CASE Drop(t)
  <2>1. Quiet /\ conn' = conn
    BY <1>18, DropEffect DEF SameUsers
  <2> QED
    BY <2>1, FitsQuiet DEF Frame
<1> QED
  BY <1>1, <1>2, <1>3, <1>4, <1>5, <1>6, <1>7, <1>8, <1>9, <1>10, <1>11, <1>12, <1>13, <1>14,
     <1>15, <1>16, <1>17, <1>18 DEF Continue

-----------------------------------------------------------------------------
(* AllComplete: entries that no thread works on.                           *)

\* AllComplete, by address.
Complete(x) == services[x] # None =>
  /\ Line(x) \in {"idle", "retract"} => Tab(home[services[x]], x) # {}
  /\ Line(x) = "idle" => services[x] \in promised
  /\ Line(x) # "return"

\* AllComplete, by address.
LEMMA CompleteParts ==
  ASSUME AllComplete
  PROVE  \A x \in Addresses : Sound(x) => Complete(x)
  BY DEF AllComplete, Complete

\* An address that is sound after a step was sound before it.
LEMMA SoundBefore ==
  ASSUME tainted \subseteq tainted', NEW x \in Addresses, Sound(x)'
  PROVE  Sound(x) /\ x \notin tainted /\ x \notin tainted'
  BY ServicesAssumption DEF Sound, PathSound, NameSound, OfPath, OfName

\* AllComplete after a step, by address.
LEMMA AllCompleteNext ==
  ASSUME \A x \in Addresses : Sound(x)' => Complete(x)'
  PROVE  AllComplete'
<1>1. ASSUME NEW x \in Addresses, Sound(x)', services'[x] # None
      PROVE  /\ Line(x)' \in {"idle", "retract"} => Tab(home[services[x]], x)' # {}
             /\ Line(x)' = "idle" => services'[x] \in promised'
             /\ Line(x)' # "return"
  BY <1>1 DEF Complete
<1> QED
  BY <1>1 DEF AllComplete

\* An untouched address stays complete.
LEMMA CompleteAgain ==
  ASSUME Base, NEW y \in Addresses, Complete(y), Untouched(y),
         services[y] # None => home'[services[y]] = home[services[y]]
  PROVE  Complete(y)'
<1>1. Line(y)' = Line(y) /\ services'[y] = services[y]
  BY LineStays DEF Untouched
<1>2. ASSUME services[y] # None
      PROVE  /\ services[y] \in Adapters /\ services[y] \in At_(y)
             /\ home[services[y]] \in Connections
  BY <1>2, Registered DEF At_
<1>3. ASSUME services[y] # None
      PROVE Tab(home[services[y]], y)' = Tab(home[services[y]], y)
  BY <1>1, <1>2, <1>3 DEF Untouched, Tab
<1>4. ASSUME services[y] # None PROVE services[y] \in promised => services[y] \in promised'
  BY <1>2, <1>4 DEF Untouched
<1> QED
  BY <1>1, <1>3, <1>4 DEF Complete

\* AllComplete is kept by a step at one address that stays complete.
LEMMA AllCompleteKept ==
  ASSUME Base, AllComplete, NEW x, Others(x), home' = home, tainted \subseteq tainted',
         x \in Addresses /\ Sound(x)' => Complete(x)'
  PROVE  AllComplete'
<1>1. ASSUME NEW y \in Addresses, Sound(y)', y # x PROVE Complete(y)'
  BY <1>1, SoundBefore, CompleteParts, CompleteAgain DEF Others
<1> QED
  BY <1>1, AllCompleteNext

\* AllComplete is kept by a step that leaves the tables alone.
LEMMA CompleteQuiet ==
  ASSUME Base, AllComplete, \A a \in Adapters : home[a] # 0 => home'[a] = home[a],
         tainted \subseteq tainted',
         \A y \in Addresses \ tainted : /\ services'[y] = services[y] /\ Holder(y)' = Holder(y)
                              /\ \A h \in Connections : Tab(h, y)' = Tab(h, y),
         promised' = promised
  PROVE  AllComplete'
<1>1. ASSUME NEW y \in Addresses, Sound(y)' PROVE Complete(y)'
  <2>1. Complete(y) /\ y \notin tainted
    BY <1>1, SoundBefore, CompleteParts
  <2>2. Line(y)' = Line(y) /\ services'[y] = services[y]
    BY <2>1, LineStays
  <2>3. ASSUME services[y] # None
        PROVE  home'[services[y]] = home[services[y]] /\ home[services[y]] \in Connections
    BY <2>3, Registered, Numbered
  <2>4. ASSUME services[y] # None
        PROVE Tab(home[services[y]], y)' = Tab(home[services[y]], y)
    BY <2>1, <2>3, <2>4 DEF Tab
  <2> QED
    BY <2>1, <2>2, <2>3, <2>4 DEF Complete, Tab
<1> QED
  BY <1>1, AllCompleteNext

\* A thread that begins an operation keeps AllComplete.
LEMMA CompleteBegin ==
  ASSUME Base, AllComplete, NEW t \in Actors, Begin(t), Frame(t)
  PROVE  AllComplete'
<1>9. ASSUME Quiet PROVE AllComplete'
  BY <1>9, CompleteQuiet DEF Quiet, SameHolder, SameTables, Frame
<1>1. ASSUME NEW a \in Adapters, RegisterStub(t, a) PROVE AllComplete'
  BY <1>1, RegisterStubEffect, <1>9
<1>2. ASSUME NEW a \in Adapters, NEW b \in Adapters, RegisterManaged(t, a, b) PROVE AllComplete'
  BY <1>2, RegisterManagedEffect, <1>9
<1>3. ASSUME NEW p \in Paths, NEW a \in Adapters, ExportManaged(t, p, a) PROVE AllComplete'
  BY <1>3, ExportManagedEffect, <1>9
<1>4. ASSUME NEW p \in Paths, NEW a \in Adapters, UnexportManaged(t, p, a) PROVE AllComplete'
  BY <1>4, UnexportManagedEffect, <1>9
<1>5. ASSUME NEW x \in Addresses, UnregisterStub(t, x) PROVE AllComplete'
  BY <1>5, UnregisterStubEffect, <1>9
<1>6. ASSUME NEW a \in Adapters, UnregisterManaged(t, a) PROVE AllComplete'
  BY <1>6, UnregisterManagedEffect, <1>9
<1>7. ASSUME NEW g \in Connections, CreateProxy(t, g) PROVE AllComplete'
  BY <1>7, CreateProxyEffect, <1>9
<1>8. ASSUME NEW g \in Connections, DestroyProxy(t, g) PROVE AllComplete'
  BY <1>8, DestroyProxyEffect, <1>9
<1> QED
  BY <1>1, <1>2, <1>3, <1>4, <1>5, <1>6, <1>7, <1>8 DEF Begin

\* A call that begins or ends in a dispatch thread keeps AllComplete.
LEMMA CompleteDispatch ==
  ASSUME Base, AllComplete
  PROVE  /\ \A g \in Connections, x \in Addresses : Receive(g, x) => AllComplete'
         /\ \A g \in Connections : Reply(g) => AllComplete'
<1>9. ASSUME Quiet, home' = home PROVE AllComplete'
  BY <1>9, CompleteQuiet DEF Quiet, SameHolder, SameTables
<1> QED
  BY <1>9, ReceiveEffect, ReplyEffect DEF SameHomes

\* Sets of addresses are finite.
LEMMA SetsOfAddresses ==
  ASSUME NEW S, S \subseteq Addresses
  PROVE  IsFiniteSet(S) /\ Cardinality(S) \in Nat /\ (S # {} => Cardinality(S) >= 1)
<1>1. IsFiniteSet(S) /\ Cardinality(S) \in Nat
  BY Finite, FS_Subset, FS_CardinalityType
<1> QED
  BY <1>1, NotEmpty

\* A service that is in the table can be taken out of it.
LEMMA CanLeave ==
  ASSUME Base, AllFit, PathsCounted, NEW x \in Addresses, Sound(x), x \notin tainted,
         services[x] # None, NEW g \in Connections, g = home[services[x]], Tab(g, x) # {}
  PROVE  Leaves(manager[g], services[x])
<1>0. TypeOK
  BY DEF Base
<1>1. manager[g].table[x] # <<>> /\ AddressOf[services[x]] = x
  BY <1>0, TableEmpty, Registered
<1>2. ASSUME services[x] \in Managing PROVE manager[g].count[PathOf[x]] > 0
  <2>1. Tab(g, x) = {services[x]}
    BY KnownAt
  <2>2. x \in EnteredManaging(g, PathOf[x])
    BY <1>2, <2>1 DEF EnteredManaging, OfPath
  <2>3. Cardinality(EnteredManaging(g, PathOf[x])) >= 1
    BY <2>2, SetsOfAddresses DEF EnteredManaging, OfPath
  <2>4. manager[g].count[PathOf[x]] = Cardinality(EnteredManaging(g, PathOf[x]))
    BY ServicesAssumption DEF PathsCounted, Sound
  <2>5. manager[g].count[PathOf[x]] \in Nat
    BY <1>0, Typed, ServicesAssumption
  <2> QED
    BY <2>3, <2>4, <2>5
<1> QED
  BY <1>1, <1>2 DEF Leaves

\* A service that is released is counted under its name.
LEMMA CanRelease ==
  ASSUME Base, AllFit, UsersCounted, NamesCounted, NEW x \in Addresses, Sound(x),
         x \notin tainted,
         services[x] # None, Line(x) = "release",
         NEW g \in Connections, g = home[services[x]]
  PROVE  conn[g].names[NameOf[x]] > 0
<1>0. TypeOK
  BY DEF Base
<1>1. ~conn[g].closing
  <2>1. x \in Entries(g)
    BY DEF Entries, Uncounted
  <2> QED
    BY <2>1 DEF UsersCounted
<1>2. x \in Named(g, NameOf[x])
  BY DEF Named, OfName
<1>3. Cardinality(Named(g, NameOf[x])) >= 1
  BY <1>2, SetsOfAddresses DEF Named, OfName
<1>4. conn[g].names[NameOf[x]] = Cardinality(Named(g, NameOf[x]))
  BY <1>1, ServicesAssumption DEF NamesCounted, Sound
<1>5. conn[g].names[NameOf[x]] \in Nat
  BY <1>0, Typed, ServicesAssumption
<1> QED
  BY <1>3, <1>4, <1>5

\* A thread that goes on with its operation keeps AllComplete.
LEMMA CompleteContinue ==
  ASSUME Base, ConnectionsFit, Entering, AllFit, AllComplete, UsersCounted, PathsCounted,
         NamesCounted, NEW t \in Actors, Continue(t), Frame(t)
  PROVE  AllComplete'
<1>0. TypeOK /\ Shape(proc[t])
  BY DEF Base, Shapes
<1> PICK q \in Process : q = proc[t]
  BY <1>0, Typed
<1> PICK x : x = q.address
  OBVIOUS
<1> PICK b : b = services[x]
  OBVIOUS
<1> PICK g : g = home[b]
  OBVIOUS
<1> PICK c : c = q.conn
  OBVIOUS
<1>a. q.pc \in {"retract", "unlist"} => (q.after = "drop" <=> q.adapter \in Managed)
  BY <1>0 DEF Shape, Building
<1>b. q.pc \in {"request", "count", "unexport", "withdraw"} => q.adapter \in Tab(c, x)
  BY DEF Entering
<1>c. q.after \in {"drop", "return", "erase"}
  BY DEF Process
<1>1. CASE Insert(t)
  <2>0. home' = home /\ Others(x) /\ tainted \subseteq tainted' /\ x \in Addresses
    BY <1>1, InsertEffect DEF Still, AtWork, Announces, TakesBack
  <2> SUFFICES ASSUME Sound(x)' PROVE Complete(x)'
    BY <2>0, AllCompleteKept
  <2>1. Sound(x) /\ x \notin tainted /\ x \notin tainted' /\ Complete(x)
    BY <2>0, SoundBefore, CompleteParts
  <2>2. FitLine(x)
    BY <2>0, <2>1, KnownAt
  <2>3. Takes(t, q) /\ (Becomes(t, "export", q.adapter, x, c, q.after))
    BY <1>0, <1>1, InsertEffect, Held
  <2>4. Line(x)' = "export" 
    <3>1. LineIs(x, "export", q.adapter, q.after)'
      BY <2>3, LineAfter DEF StageOf
    <3> QED
      BY <3>1 DEF LineIs
  <2> QED
    BY <2>4 DEF Complete
<1>2. CASE ExportStub(t)
  <2>0. home' = home /\ Others(x) /\ tainted \subseteq tainted' /\ x \in Addresses
    BY <1>2, ExportStubEffect DEF Still, AtWork, Announces, TakesBack
  <2> SUFFICES ASSUME Sound(x)' PROVE Complete(x)'
    BY <2>0, AllCompleteKept
  <2>1. Sound(x) /\ x \notin tainted /\ x \notin tainted' /\ Complete(x)
    BY <2>0, SoundBefore, CompleteParts
  <2>2. FitLine(x)
    BY <2>0, <2>1, KnownAt
  <2>3. Keeps(t, q) /\ (Becomes(t, "enter", q.adapter, x, c, q.after))
    BY <2>1, <1>2, ExportStubEffect, <1>c
  <2>4. Line(x)' = "enter" 
    <3>1. LineIs(x, "enter", q.adapter, q.after)'
      BY <2>3, LineAfter DEF StageOf
    <3> QED
      BY <3>1 DEF LineIs
  <2> QED
    BY <2>4 DEF Complete
<1>3. CASE Enter(t)
  <2>0. home' = home /\ Others(x) /\ tainted \subseteq tainted' /\ x \in Addresses
    BY <1>3, EnterEffect DEF Still, AtWork, Announces, TakesBack
  <2> SUFFICES ASSUME Sound(x)' PROVE Complete(x)'
    BY <2>0, AllCompleteKept
  <2>1. Sound(x) /\ x \notin tainted /\ x \notin tainted' /\ Complete(x)
    BY <2>0, SoundBefore, CompleteParts
  <2>2. FitLine(x)
    BY <2>0, <2>1, KnownAt
  <2>3. Keeps(t, q) /\ (Becomes(t, "request", q.adapter, x, c, q.after))
    BY <2>1, <1>3, EnterEffect, <1>c
  <2>4. Line(x)' = "request" 
    <3>1. LineIs(x, "request", q.adapter, q.after)'
      BY <2>3, LineAfter DEF StageOf
    <3> QED
      BY <3>1 DEF LineIs
  <2> QED
    BY <2>4 DEF Complete
<1>4. CASE RequestName(t)
  <2>0. home' = home /\ Others(x) /\ tainted \subseteq tainted' /\ x \in Addresses
    BY <1>4, RequestNameEffect DEF Still, AtWork, Announces, TakesBack
  <2> SUFFICES ASSUME Sound(x)' PROVE Complete(x)'
    BY <2>0, AllCompleteKept
  <2>1. Sound(x) /\ x \notin tainted /\ x \notin tainted' /\ Complete(x)
    BY <2>0, SoundBefore, CompleteParts
  <2>2. FitLine(x)
    BY <2>0, <2>1, KnownAt
  <2>3. /\ q.pc = "request" /\ services' = services /\ SameTables /\ home[q.adapter] = c
        /\ \/ Unlocks(t, q) /\ promised' = promised \cup {q.adapter}
                /\ Becomes(t, "drop", q.adapter, x, c, q.after)
           \/ Keeps(t, q)
                /\ \E pc \in {"count", "unexport", "withdraw"} :
                     Becomes(t, pc, q.adapter, x, c, q.after)
    BY <1>4, RequestNameEffect
  <2>4. CASE Keeps(t, q)
               /\ \E pc \in {"count", "unexport", "withdraw"} :
                    Becomes(t, pc, q.adapter, x, c, q.after)
    <3>1. PICK pc \in {"count", "unexport", "withdraw"} : Becomes(t, pc, q.adapter, x, c, q.after)
      BY <2>4
    <3>2. Line(x)' = pc
      <4>1. LineIs(x, StageOf(pc, q.after), q.adapter, q.after)'
        BY <2>4, <3>1, LineAfter
      <4> QED
        BY <4>1 DEF LineIs, StageOf
    <3> QED
      BY <3>1, <3>2 DEF Complete
  <2>5. CASE Unlocks(t, q) /\ promised' = promised \cup {q.adapter}
               /\ Becomes(t, "drop", q.adapter, x, c, q.after)
    <3>1. Line(x)' = "idle" /\ LineIs(x, "request", q.adapter, q.after)
      BY <2>3, <2>5, LineAfter, LineBefore DEF StageOf
    <3>2. services[x] = q.adapter
      BY <2>2, <3>1 DEF FitLine, LineIs
    <3>3. q.adapter \in Tab(c, x)
      BY <1>b, <2>3
    <3>4. q.adapter \in Range(manager'[c].table[x])
      <4>1. q.adapter \in Tab(c, x)' /\ c \in Connections
        BY <2>0, <2>3, <3>3, <1>4, RequestNameEffect DEF SameTables, AtWork
      <4> QED
        BY <4>1 DEF Tab
    <3> QED
      BY <2>0, <2>3, <2>5, <3>1, <3>2, <3>4 DEF Complete, Tab
  <2> QED
    BY <2>3, <2>4, <2>5
<1>5. CASE CountManaged(t)
  <2>0. home' = home /\ Others(x) /\ tainted \subseteq tainted' /\ x \in Addresses
    BY <1>5, CountManagedEffect DEF Still, AtWork, Announces, TakesBack
  <2> SUFFICES ASSUME Sound(x)' PROVE Complete(x)'
    BY <2>0, AllCompleteKept
  <2>1. Sound(x) /\ x \notin tainted /\ x \notin tainted' /\ Complete(x)
    BY <2>0, SoundBefore, CompleteParts
  <2>2. FitLine(x)
    BY <2>0, <2>1, KnownAt
  <2>3. /\ q.pc = "count" /\ services' = services /\ SameTables /\ home[q.adapter] = c
        /\ Unlocks(t, q) /\ promised' = promised \cup {q.adapter}
             /\ Becomes(t, "drop", q.adapter, x, c, q.after)
    BY <1>5, CountManagedEffect
  <2>5. Line(x)' = "idle" /\ LineIs(x, "count", q.adapter, q.after)
      BY <2>3, LineAfter, LineBefore DEF StageOf
  <2>6. services[x] = q.adapter
      BY <2>2, <2>5 DEF FitLine, LineIs
  <2>7. q.adapter \in Tab(c, x)
      BY <1>b, <2>3
  <2>8. q.adapter \in Range(manager'[c].table[x])
      <4>1. q.adapter \in Tab(c, x)' /\ c \in Connections
        BY <2>0, <2>3, <2>7, <1>5, CountManagedEffect DEF SameTables, AtWork
      <4> QED
        BY <4>1 DEF Tab
  <2> QED
      BY <2>0, <2>3, <2>5, <2>6, <2>8 DEF Complete, Tab
<1>6. CASE RollbackExport(t)
  <2>0. home' = home /\ Others(x) /\ tainted \subseteq tainted' /\ x \in Addresses
    BY <1>6, RollbackExportEffect DEF Still, AtWork, Announces, TakesBack
  <2> SUFFICES ASSUME Sound(x)' PROVE Complete(x)'
    BY <2>0, AllCompleteKept
  <2>1. Sound(x) /\ x \notin tainted /\ x \notin tainted' /\ Complete(x)
    BY <2>0, SoundBefore, CompleteParts
  <2>2. FitLine(x)
    BY <2>0, <2>1, KnownAt
  <2>3. Keeps(t, q) /\ (Becomes(t, "withdraw", q.adapter, x, c, q.after))
    BY <2>1, <1>6, RollbackExportEffect, <1>c
  <2>4. Line(x)' = "withdraw" 
    <3>1. LineIs(x, "withdraw", q.adapter, q.after)'
      BY <2>3, LineAfter DEF StageOf
    <3> QED
      BY <3>1 DEF LineIs
  <2> QED
    BY <2>4 DEF Complete
<1>7. CASE Withdraw(t)
  <2>0. home' = home /\ Others(x) /\ tainted \subseteq tainted' /\ x \in Addresses
    BY <1>7, WithdrawEffect DEF Still, AtWork, Announces, TakesBack
  <2> SUFFICES ASSUME Sound(x)' PROVE Complete(x)'
    BY <2>0, AllCompleteKept
  <2>1. Sound(x) /\ x \notin tainted /\ x \notin tainted' /\ Complete(x)
    BY <2>0, SoundBefore, CompleteParts
  <2>2. FitLine(x)
    BY <2>0, <2>1, KnownAt
  <2>3. Keeps(t, q)
          /\ (Becomes(t, "erase", q.adapter, x, c, "erase")
               \/ Becomes(t, "retract", q.adapter, x, c, "erase"))
    BY <2>1, <1>7, WithdrawEffect, <1>c
  <2>4. Line(x)' \in {"erase", "undo"}
    <3>1. LineIs(x, "erase", q.adapter, "erase")' \/ LineIs(x, "undo", q.adapter, "erase")'
      BY <2>3, LineAfter DEF StageOf
    <3> QED
      BY <3>1 DEF LineIs
  <2> QED
    BY <2>4 DEF Complete
<1>8. CASE Erase(t)
  <2>0. home' = home /\ Others(x) /\ tainted \subseteq tainted' /\ x \in Addresses
    BY <1>8, EraseEffect DEF Still, AtWork, Announces, TakesBack
  <2> SUFFICES ASSUME Sound(x)' PROVE Complete(x)'
    BY <2>0, AllCompleteKept
  <2>1. Sound(x) /\ x \notin tainted /\ x \notin tainted' /\ Complete(x)
    BY <2>0, SoundBefore, CompleteParts
  <2>2. FitLine(x)
    BY <2>0, <2>1, KnownAt
  <2>3. services'[x] = None
    BY <2>1, <1>8, EraseEffect
  <2> QED
    BY <2>3 DEF Complete
<1>9. CASE Return(t)
  <2>0. home' = home /\ Others(x) /\ tainted \subseteq tainted' /\ x \in Addresses
    BY <1>9, ReturnEffect DEF Still, AtWork, Announces, TakesBack
  <2> SUFFICES ASSUME Sound(x)' PROVE Complete(x)'
    BY <2>0, AllCompleteKept
  <2>1. Sound(x) /\ x \notin tainted /\ x \notin tainted' /\ Complete(x)
    BY <2>0, SoundBefore, CompleteParts
  <2>2. FitLine(x)
    BY <2>0, <2>1, KnownAt
  <2>3. q.pc = "return" /\ Unlocks(t, q) /\ services' = services
    BY <1>9, ReturnEffect
  <2>4. Line(x) = "return"
    BY <2>3, LineBefore DEF LineIs, StageOf
  <2> QED
    BY <2>1, <2>3, <2>4 DEF Complete
<1>10. CASE Forget(t)
  <2>0. home' = home /\ Others(x) /\ tainted \subseteq tainted' /\ x \in Addresses
    BY <1>10, ForgetEffect DEF Still, AtWork, Announces, TakesBack
  <2> SUFFICES ASSUME Sound(x)' PROVE Complete(x)'
    BY <2>0, AllCompleteKept
  <2>1. Sound(x) /\ x \notin tainted /\ x \notin tainted' /\ Complete(x)
    BY <2>0, SoundBefore, CompleteParts
  <2>2. FitLine(x)
    BY <2>0, <2>1, KnownAt
  <2>3. /\ q.pc = "leave" /\ c \in Connections /\ home[q.adapter] = c /\ Unlocks(t, q)
        /\ services'[x] = None \/ q.adapter \notin manager[c].exported[Root]
    BY <2>1, <1>10, ForgetEffect DEF AtWork
  <2>4. services[x] = q.adapter /\ ListedAt(c, x)
    <3>1. LineIs(x, "leave", q.adapter, q.after)
      BY <2>3, LineBefore DEF StageOf
    <3>2. q.adapter \in Adapters
      BY <1>10, ForgetEffect DEF AtWork
    <3> QED
      BY <2>2, <2>3, <3>1, <3>2, ServicesAssumption DEF FitLine, LineIs, ListedAt, Listed
  <2>5. RootFits(c, x)
    BY <2>0, <2>1, <2>3, KnownAt
  <2>6. q.adapter \in manager[c].exported[Root]
    BY <2>4, <2>5 DEF RootFits, AtRoot
  <2> QED
    BY <2>3, <2>6 DEF Complete
<1>11. CASE Retract(t)
  <2>0. home' = home /\ Others(x) /\ tainted \subseteq tainted' /\ x \in Addresses
    BY <1>11, RetractEffect DEF Still, AtWork, Announces, TakesBack
  <2> SUFFICES ASSUME Sound(x)' PROVE Complete(x)'
    BY <2>0, AllCompleteKept
  <2>1. Sound(x) /\ x \notin tainted /\ x \notin tainted' /\ Complete(x)
    BY <2>0, SoundBefore, CompleteParts
  <2>2. FitLine(x)
    BY <2>0, <2>1, KnownAt
  <2>3. /\ q.pc = "retract"
        /\ \/ services'[x] = None
           \/ /\ services' = services /\ Keeps(t, q)
              /\ b # None => g \in Connections /\ ~Leaves(manager[g], b)
              /\ Becomes(t, IF q.after = "drop" THEN "return" ELSE q.after, q.adapter, x, c,
                   q.after)
    BY <1>11, RetractEffect
  <2>4. CASE services'[x] = None
    BY <2>4 DEF Complete
  <2>5. CASE /\ services' = services /\ Keeps(t, q) /\ b # None
             /\ b # None => g \in Connections /\ ~Leaves(manager[g], b)
             /\ Becomes(t, IF q.after = "drop" THEN "return" ELSE q.after, q.adapter, x, c,
                  q.after)
    <3>1. LineIs(x, StageOf("retract", q.after), q.adapter, q.after)
      BY <2>3, <2>5, LineBefore
    <3>2. q.after = "erase"
      <4>1. CASE Line(x) = "retract"
        <5>1. Tab(g, x) # {}
          BY <2>1, <2>5, <4>1 DEF Complete
        <5> QED
          BY <2>0, <2>1, <2>5, <5>1, CanLeave
      <4>2. CASE Line(x) # "retract"
        BY <3>1, <4>2 DEF LineIs, StageOf
      <4> QED
        BY <4>1, <4>2
    <3>3. Line(x)' = "erase"
      <4>1. LineIs(x, "erase", q.adapter, q.after)'
        BY <2>5, <3>2, LineAfter DEF StageOf
      <4> QED
        BY <4>1 DEF LineIs
    <3> QED
      BY <3>3 DEF Complete
  <2> QED
    BY <2>3, <2>4, <2>5
<1>12. CASE Release(t)
  <2>0. home' = home /\ Others(x) /\ tainted \subseteq tainted' /\ x \in Addresses
    BY <1>12, ReleaseEffect DEF Still, AtWork, Announces, TakesBack
  <2> SUFFICES ASSUME Sound(x)' PROVE Complete(x)'
    BY <2>0, AllCompleteKept
  <2>1. Sound(x) /\ x \notin tainted /\ x \notin tainted' /\ Complete(x)
    BY <2>0, SoundBefore, CompleteParts
  <2>2. FitLine(x)
    BY <2>0, <2>1, KnownAt
  <2>3. /\ q.pc = "release" /\ c \in Connections /\ home[q.adapter] = c /\ Keeps(t, q)
        /\ \/ Becomes(t, "leave", q.adapter, x, c, q.after)
           \/ ~(conn[c].names[NameOf[x]] > 0)
    BY <2>1, <1>12, ReleaseEffect
  <2>4. LineIs(x, "release", q.adapter, q.after)
    BY <2>3, LineBefore DEF StageOf
  <2>5. services[x] = q.adapter /\ q.adapter # None
    <3>1. q.adapter \in Adapters
      BY <1>12, ReleaseEffect DEF AtWork
    <3> QED
      BY <2>2, <2>4, <3>1, ServicesAssumption DEF FitLine, LineIs
  <2>6. conn[c].names[NameOf[x]] > 0
    BY <2>0, <2>1, <2>3, <2>4, <2>5, CanRelease DEF LineIs
  <2>7. Line(x)' = "leave"
    <3>1. LineIs(x, "leave", q.adapter, q.after)'
      BY <2>3, <2>6, LineAfter DEF StageOf
    <3> QED
      BY <3>1 DEF LineIs
  <2> QED
    BY <2>7 DEF Complete
<1>13. CASE Leave(t)
  <2>0. home' = home /\ Others(x) /\ tainted \subseteq tainted' /\ x \in Addresses
    BY <1>13, LeaveEffect DEF Still, AtWork, Announces, TakesBack
  <2> SUFFICES ASSUME Sound(x)' PROVE Complete(x)'
    BY <2>0, AllCompleteKept
  <2>1. Sound(x) /\ x \notin tainted /\ x \notin tainted' /\ Complete(x)
    BY <2>0, SoundBefore, CompleteParts
  <2>2. FitLine(x)
    BY <2>0, <2>1, KnownAt
  <2>3. CASE b = None
    <3>1. services'[x] = None
      BY <1>13, LeaveEffect, <2>3
    <3> QED
      BY <3>1 DEF Complete
  <2>4. CASE b # None
    <3>1. /\ g \in Connections /\ Takes(t, q)
          /\ \/ Becomes(t, "release", b, x, g, "drop")
             \/ ~Leaves(manager[g], b)
      BY <1>13, LeaveEffect, <2>4
    <3>2. Line(x) = "idle"
      BY <3>1, LineBefore
    <3>3. Tab(g, x) # {}
      BY <2>1, <2>4, <3>2 DEF Complete
    <3>4. Leaves(manager[g], b)
      BY <2>0, <2>1, <2>4, <3>1, <3>3, CanLeave
    <3>5. Line(x)' = "release"
      <4>1. LineIs(x, "release", b, "drop")'
        BY <3>1, <3>4, LineAfter DEF StageOf
      <4> QED
        BY <4>1 DEF LineIs
    <3> QED
      BY <3>5 DEF Complete
  <2> QED
    BY <2>3, <2>4
<1>14. CASE Enlist(t)
  <2>0. home' = home /\ Others(x) /\ tainted \subseteq tainted' /\ x \in Addresses
    BY <1>14, EnlistEffect DEF Still, AtWork, Announces, TakesBack
  <2> SUFFICES ASSUME Sound(x)' PROVE Complete(x)'
    BY <2>0, AllCompleteKept
  <2>1. Sound(x) /\ x \notin tainted /\ x \notin tainted' /\ Complete(x)
    BY <2>0, SoundBefore, CompleteParts
  <2>2. FitLine(x)
    BY <2>0, <2>1, KnownAt
  <2>3. CASE services' = services /\ SameHolder /\ SameTables
    <3>1. Untouched(x)
      BY <1>14, EnlistEffect, <2>0, <2>3 DEF Untouched, SameHolder, SameTables, SameShown
    <3> QED
      BY <2>0, <2>1, <3>1, CompleteAgain
  <2>4. CASE Takes(t, q) /\ Becomes(t, "request", q.adapter, x, c, q.after)
    <3>1. Line(x)' = "request"
      <4>1. LineIs(x, "request", q.adapter, q.after)'
        BY <2>4, LineAfter DEF StageOf
      <4> QED
        BY <4>1 DEF LineIs
    <3> QED
      BY <3>1 DEF Complete
  <2> QED
    BY <1>14, EnlistEffect, <2>3, <2>4
<1>15. CASE Unlist(t)
  <2>0. home' = home /\ Others(x) /\ tainted \subseteq tainted' /\ x \in Addresses
    BY <1>15, UnlistEffect DEF Still, AtWork, Announces, TakesBack
  <2> SUFFICES ASSUME Sound(x)' PROVE Complete(x)'
    BY <2>0, AllCompleteKept
  <2>1. Sound(x) /\ x \notin tainted /\ x \notin tainted' /\ Complete(x)
    BY <2>0, SoundBefore, CompleteParts
  <2>2. FitLine(x)
    BY <2>0, <2>1, KnownAt
  <2>3. /\ q.pc = "unlist" /\ Takes(t, q) /\ SameTables /\ services' = services
        /\ Becomes(t, "retract", q.adapter, x, c, q.after) /\ q.adapter \in Managed
    BY <1>15, UnlistEffect
  <2>4. Line(x) = "idle" /\ Line(x)' = "retract"
    <3>1. q.after = "drop"
      BY <1>a, <2>3
    <3>2. LineIs(x, "retract", q.adapter, q.after)'
      BY <2>3, <3>1, LineAfter DEF StageOf
    <3> QED
      BY <2>3, <3>2, LineBefore DEF LineIs
  <2>5. ASSUME services[x] # None PROVE Tab(home[services[x]], x)' # {}
    <3>1. home[services[x]] \in Connections
      BY <2>0, <2>5, Registered
    <3> QED
      BY <2>0, <2>1, <2>3, <2>4, <2>5, <3>1 DEF Complete, SameTables, Tab
  <2> QED
    BY <2>0, <2>3, <2>4, <2>5 DEF Complete, Tab
<1>16. CASE Decrement(t)
  <2>1. /\ SameTables /\ services' = services /\ promised' = promised
        /\ tainted' = tainted /\ home' = home /\ q.pc = "decrement"
        /\ SameHolder \/ Keeps(t, q)
    BY <1>16, DecrementEffect DEF SameHomes
  <2>2. ASSUME NEW y \in Addresses \ tainted PROVE Holder(y)' = Holder(y)
    <3>1. CASE SameHolder
      BY <3>1 DEF SameHolder
    <3>2. CASE Keeps(t, q)
      <4>1. y # x
        <5>1. ASSUME y = x PROVE FALSE
          <6>1. Line(x) = "decrement"
            BY <2>1, <3>2, LineBefore DEF LineIs, StageOf
          <6>2. FitLine(x)
            BY <2>2, <5>1, KnownAt
          <6> QED
            BY <6>1, <6>2 DEF FitLine, LockedLines
        <5> QED
          BY <5>1
      <4> QED
        BY <3>2, <4>1 DEF Keeps, HeldBy
    <3> QED
      BY <2>1, <3>1, <3>2
  <2> QED
    BY <2>1, <2>2, CompleteQuiet DEF SameTables
<1>17. CASE Close(t)
  <2>1. /\ SameTables /\ services' = services /\ promised' = promised
        /\ tainted' = tainted /\ home' = home /\ SameHolder
    BY <1>17, CloseEffect DEF SameHomes
  <2> QED
    BY <2>1, CompleteQuiet DEF SameTables, SameHolder
<1>18. CASE Drop(t)
  <2>1. Quiet
    BY <1>18, DropEffect
  <2> QED
    BY <2>1, CompleteQuiet DEF Quiet, SameHolder, SameTables, Frame
<1> QED
  BY <1>1, <1>2, <1>3, <1>4, <1>5, <1>6, <1>7, <1>8, <1>9, <1>10, <1>11, <1>12, <1>13, <1>14,
     <1>15, <1>16, <1>17, <1>18 DEF Continue

-----------------------------------------------------------------------------
(* PathsCounted.                                                           *)

\* What is counted for one path at one connection.
PathCount(g, p) ==
  /\ conn[g].paths[p] = Cardinality(EnteredOf(g, p))
  /\ manager[g].count[p] = Cardinality(EnteredManaging(g, p))

\* PathsCounted, by connection and path.
LEMMA PathParts ==
  PathsCounted <=> \A g \in Connections, p \in Paths : PathSound(p) => PathCount(g, p)
  BY DEF PathsCounted, PathCount

\* The same after a step.
LEMMA PathsNext ==
  ASSUME \A g \in Connections, p \in Paths : PathSound(p)' => PathCount(g, p)'
  PROVE  PathsCounted'
  BY DEF PathsCounted, PathCount

\* A path that is sound after a step was sound before it.
LEMMA PathSoundBefore ==
  ASSUME tainted \subseteq tainted', NEW p \in Paths, PathSound(p)'
  PROVE  PathSound(p) /\ OfPath(p) \cap tainted' = {}
  BY DEF PathSound, OfPath

\* The count of a path stays right if its addresses stay.
LEMMA PathCountKept ==
  ASSUME NEW g \in Connections, NEW p \in Paths, PathCount(g, p),
         \A y \in OfPath(p) : Tab(g, y)' = Tab(g, y),
         conn'[g].paths[p] = conn[g].paths[p], manager'[g].count[p] = manager[g].count[p]
  PROVE  PathCount(g, p)'
<1>1. EnteredOf(g, p)' = EnteredOf(g, p) /\ EnteredManaging(g, p)' = EnteredManaging(g, p)
  BY DEF EnteredOf, EnteredManaging, OfPath
<1> QED
  BY <1>1 DEF PathCount

\* PathsCounted is kept by a step that leaves the tables and counts alone.
LEMMA PathsKept ==
  ASSUME PathsCounted, SameTables, tainted \subseteq tainted',
         \A h \in Connections, p \in Paths : conn'[h].paths[p] = conn[h].paths[p]
  PROVE  PathsCounted'
<1>1. ASSUME NEW g \in Connections, NEW p \in Paths, PathSound(p)' PROVE PathCount(g, p)'
  <2>1. PathCount(g, p)
    BY <1>1, PathSoundBefore, PathParts
  <2>2. \A y \in OfPath(p) : y \in Addresses
    BY DEF OfPath
  <2> QED
    BY <1>1, <2>1, <2>2, PathCountKept DEF SameTables
<1> QED
  BY <1>1, PathsNext

\* The addresses counted for a path are finitely many.
LEMMA SetsOfPath ==
  ASSUME NEW g, NEW p
  PROVE  /\ EnteredOf(g, p) \subseteq Addresses /\ IsFiniteSet(EnteredOf(g, p))
         /\ Cardinality(EnteredOf(g, p)) \in Nat
         /\ EnteredManaging(g, p) \subseteq Addresses /\ IsFiniteSet(EnteredManaging(g, p))
         /\ Cardinality(EnteredManaging(g, p)) \in Nat
<1>1. EnteredOf(g, p) \subseteq Addresses /\ EnteredManaging(g, p) \subseteq Addresses
  BY DEF EnteredOf, EnteredManaging, OfPath
<1> QED
  BY <1>1, SetsOfAddresses

\* An adapter enters the tables of a connection, at an address that has none.
LEMMA PathsEnter ==
  ASSUME Base, PathsCounted, tainted \subseteq tainted', NEW a \in Adapters, NEW x \in Addresses,
         x = AddressOf[a], NEW g \in Connections, EntersAt(g, a), NEW k,
         ConnAt(g, x, conn[g].paths[PathOf[x]] + 1, k),
         x \notin tainted' => Tab(g, x) = {}
  PROVE  PathsCounted'
<1> SUFFICES ASSUME NEW h \in Connections, NEW p \in Paths, PathSound(p)' PROVE PathCount(h, p)'
  BY PathsNext
<1>1. PathCount(h, p) /\ OfPath(p) \cap tainted' = {}
  BY PathSoundBefore, PathParts
<1>2. CASE h = g /\ p = PathOf[x]
  <2>1. Tab(g, x) = {}
    BY <1>1, <1>2 DEF OfPath
  <2>2. Tab(g, x)' = {a} /\ \A y \in Addresses \ {x} : Tab(g, y)' = Tab(g, y)
    BY <2>1 DEF EntersAt
  <2>3. EnteredOf(g, p)' = EnteredOf(g, p) \cup {x} /\ x \notin EnteredOf(g, p)
    BY <1>2, <2>1, <2>2 DEF EnteredOf, OfPath
  <2>4. /\ a \in Managing => EnteredManaging(g, p)' = EnteredManaging(g, p) \cup {x}
        /\ a \notin Managing => EnteredManaging(g, p)' = EnteredManaging(g, p)
        /\ x \notin EnteredManaging(g, p)
    BY <1>2, <2>1, <2>2 DEF EnteredManaging, OfPath
  <2>5. /\ Cardinality(EnteredOf(g, p) \cup {x}) = Cardinality(EnteredOf(g, p)) + 1
        /\ Cardinality(EnteredManaging(g, p) \cup {x}) = Cardinality(EnteredManaging(g, p)) + 1
    BY <2>3, <2>4, SetsOfPath, FS_AddElement
  <2>6. /\ conn'[g].paths[p] = conn[g].paths[p] + 1
        /\ a \in Managing => manager'[g].count[p] = manager[g].count[p] + 1
        /\ a \notin Managing => manager'[g].count[p] = manager[g].count[p]
    BY <1>2 DEF ConnAt, EntersAt
  <2> QED
    BY <1>1, <1>2, <2>3, <2>4, <2>5, <2>6 DEF PathCount
<1>3. CASE ~(h = g /\ p = PathOf[x])
  <2>1. \A y \in OfPath(p) : y \in Addresses /\ (h = g => y # x)
    BY <1>3 DEF OfPath
  <2>2. \A y \in OfPath(p) : Tab(h, y)' = Tab(h, y)
    BY <2>1 DEF EntersAt
  <2>3. conn'[h].paths[p] = conn[h].paths[p] /\ manager'[h].count[p] = manager[h].count[p]
    BY <1>3 DEF ConnAt, EntersAt
  <2> QED
    BY <1>1, <2>2, <2>3, PathCountKept
<1> QED
  BY <1>2, <1>3

\* An adapter leaves the tables, from an address where there is no other.
LEMMA PathsLeave ==
  ASSUME Base, PathsCounted, tainted \subseteq tainted', NEW a \in Adapters, NEW x \in Addresses,
         x = AddressOf[a], NEW g \in Connections, LeavesAt(g, a),
         \/ Leaves(manager[g], a) /\ \E k : ConnAt(g, x, Fewer(conn[g].paths[PathOf[x]]), k)
         \/ ~Leaves(manager[g], a) /\ conn' = conn,
         x \notin tainted' => Tab(g, x) \subseteq {a}
  PROVE  PathsCounted'
<1>0. TypeOK
  BY DEF Base
<1> SUFFICES ASSUME NEW h \in Connections, NEW p \in Paths, PathSound(p)' PROVE PathCount(h, p)'
  BY PathsNext
<1>1. PathCount(h, p) /\ OfPath(p) \cap tainted' = {}
  BY PathSoundBefore, PathParts
<1>2. CASE h = g /\ p = PathOf[x] /\ Tab(g, x) # {}
  <2>1. Tab(g, x) = {a}
    BY <1>1, <1>2 DEF OfPath
  <2>2. Tab(g, x)' = {} /\ \A y \in Addresses \ {x} : Tab(g, y)' = Tab(g, y)
    BY <2>1 DEF LeavesAt
  <2>3. EnteredOf(g, p)' = EnteredOf(g, p) \ {x} /\ x \in EnteredOf(g, p)
    BY <1>2, <2>1, <2>2 DEF EnteredOf, OfPath
  <2>4. /\ a \in Managing => EnteredManaging(g, p)' = EnteredManaging(g, p) \ {x}
                               /\ x \in EnteredManaging(g, p)
        /\ a \notin Managing => EnteredManaging(g, p)' = EnteredManaging(g, p)
    BY <1>2, <2>1, <2>2 DEF EnteredManaging, OfPath
  <2>5. /\ Cardinality(EnteredOf(g, p) \ {x}) = Cardinality(EnteredOf(g, p)) - 1
        /\ a \in Managing =>
             Cardinality(EnteredManaging(g, p) \ {x}) = Cardinality(EnteredManaging(g, p)) - 1
    BY <2>3, <2>4, SetsOfPath, FS_RemoveElement
  <2>6. /\ Cardinality(EnteredOf(g, p)) >= 1
        /\ a \in Managing => Cardinality(EnteredManaging(g, p)) >= 1
    BY <2>3, <2>4, SetsOfPath, NotEmpty
  <2>7. Leaves(manager[g], a)
    <3>1. manager[g].table[x] # <<>>
      BY <1>0, <2>1, TableEmpty
    <3>2. a \in Managing => manager[g].count[p] > 0
      BY <1>1, <1>2, <2>6, SetsOfPath DEF PathCount
    <3> QED
      BY <1>2, <3>1, <3>2 DEF Leaves
  <2>8. /\ conn'[g].paths[p] = Fewer(conn[g].paths[p])
        /\ a \in Managing => manager'[g].count[p] = manager[g].count[p] - 1
        /\ a \notin Managing => manager'[g].count[p] = manager[g].count[p]
    BY <1>2, <2>7 DEF ConnAt, LeavesAt
  <2>9. conn'[g].paths[p] = Cardinality(EnteredOf(g, p)')
    BY <1>1, <1>2, <2>3, <2>5, <2>6, <2>8, SetsOfPath DEF PathCount, Fewer
  <2>10. manager'[g].count[p] = Cardinality(EnteredManaging(g, p)')
    BY <1>1, <1>2, <2>4, <2>5, <2>8 DEF PathCount
  <2> QED
    BY <1>2, <2>9, <2>10 DEF PathCount
<1>3. CASE h = g /\ p = PathOf[x] /\ Tab(g, x) = {}
  <2>1. ~Leaves(manager[g], a)
    BY <1>0, <1>3, TableEmpty DEF Leaves
  <2>2. \A y \in Addresses : Tab(g, y)' = Tab(g, y)
    BY <1>3 DEF LeavesAt
  <2>3. conn'[h].paths[p] = conn[h].paths[p] /\ manager'[h].count[p] = manager[h].count[p]
    BY <1>3, <2>1 DEF LeavesAt
  <2>4. \A y \in OfPath(p) : Tab(h, y)' = Tab(h, y)
    BY <1>3, <2>2 DEF OfPath
  <2> QED
    BY <1>1, <2>3, <2>4, PathCountKept
<1>4. CASE ~(h = g /\ p = PathOf[x])
  <2>1. \A y \in OfPath(p) : y \in Addresses /\ (h = g => y # x)
    BY <1>4 DEF OfPath
  <2>2. \A y \in OfPath(p) : Tab(h, y)' = Tab(h, y)
    BY <2>1 DEF LeavesAt
  <2>3. conn'[h].paths[p] = conn[h].paths[p] /\ manager'[h].count[p] = manager[h].count[p]
    BY <1>4 DEF ConnAt, LeavesAt
  <2> QED
    BY <1>1, <2>2, <2>3, PathCountKept
<1> QED
  BY <1>2, <1>3, <1>4

\* A thread that begins an operation keeps PathsCounted.
LEMMA PathsBegin ==
  ASSUME Base, PathsCounted, NEW t \in Actors, Begin(t)
  PROVE  PathsCounted'
<1>9. ASSUME Quiet, SameUsers PROVE PathsCounted'
  BY <1>9, PathsKept DEF Quiet, SameUsers
<1>10. ASSUME Quiet, NEW g \in Connections, Opens(g) PROVE PathsCounted'
  BY <1>10, PathsKept DEF Quiet, Opens
<1>1. ASSUME NEW a \in Adapters, RegisterStub(t, a) PROVE PathsCounted'
  BY <1>1, RegisterStubEffect, <1>10
<1>2. ASSUME NEW a \in Adapters, NEW b \in Adapters, RegisterManaged(t, a, b) PROVE PathsCounted'
  BY <1>2, RegisterManagedEffect, <1>9
<1>3. ASSUME NEW p \in Paths, NEW a \in Adapters, ExportManaged(t, p, a) PROVE PathsCounted'
  BY <1>3, ExportManagedEffect, <1>9
<1>4. ASSUME NEW p \in Paths, NEW a \in Adapters, UnexportManaged(t, p, a) PROVE PathsCounted'
  BY <1>4, UnexportManagedEffect, <1>9
<1>5. ASSUME NEW x \in Addresses, UnregisterStub(t, x) PROVE PathsCounted'
  BY <1>5, UnregisterStubEffect, <1>9
<1>6. ASSUME NEW a \in Adapters, UnregisterManaged(t, a) PROVE PathsCounted'
  BY <1>6, UnregisterManagedEffect, <1>9
<1>7. ASSUME NEW g \in Connections, CreateProxy(t, g) PROVE PathsCounted'
  BY <1>7, CreateProxyEffect, <1>10
<1>8. ASSUME NEW g \in Connections, DestroyProxy(t, g) PROVE PathsCounted'
  BY <1>8, DestroyProxyEffect, <1>9
<1> QED
  BY <1>1, <1>2, <1>3, <1>4, <1>5, <1>6, <1>7, <1>8 DEF Begin

\* A call that begins or ends in a dispatch thread keeps PathsCounted.
LEMMA PathsDispatch ==
  ASSUME Base, PathsCounted
  PROVE  /\ \A g \in Connections, x \in Addresses : Receive(g, x) => PathsCounted'
         /\ \A g \in Connections : Reply(g) => PathsCounted'
<1>9. ASSUME Quiet, SameUsers PROVE PathsCounted'
  BY <1>9, PathsKept DEF Quiet, SameUsers
<1> QED
  BY <1>9, ReceiveEffect, ReplyEffect

\* A thread that goes on with its operation keeps PathsCounted.
LEMMA PathsContinue ==
  ASSUME Base, ConnectionsFit, AllFit, PathsCounted, NEW t \in Actors, Continue(t)
  PROVE  PathsCounted'
<1>0. TypeOK
  BY DEF Base
<1> PICK q \in Process : q = proc[t]
  BY <1>0, Typed
<1> PICK x : x = q.address
  OBVIOUS
<1> PICK b : b = services[x]
  OBVIOUS
<1> PICK g : g = home[b]
  OBVIOUS
<1> PICK c : c = q.conn
  OBVIOUS
<1>1. CASE Insert(t)
  <2>1. /\ SameTables /\ tainted \subseteq tainted'
        /\ \A h \in Connections, p \in Paths : conn'[h].paths[p] = conn[h].paths[p]
    BY <1>1, InsertEffect DEF ConnAt, ActiveAt, Announces, TakesBack, AtWork, Quiet, SameUsers,
       Closes, Shuts
  <2> QED
    BY <2>1, PathsKept
<1>2. CASE ExportStub(t)
  <2>1. /\ SameTables /\ tainted \subseteq tainted'
        /\ \A h \in Connections, p \in Paths : conn'[h].paths[p] = conn[h].paths[p]
    BY <1>2, ExportStubEffect DEF ConnAt, ActiveAt, Announces, TakesBack, AtWork, Quiet,
       SameUsers, Closes, Shuts
  <2> QED
    BY <2>1, PathsKept
<1>3. CASE Enter(t)
  <2>1. /\ EntersAt(c, q.adapter) /\ tainted' = tainted /\ Keeps(t, q) /\ q.pc = "enter"
        /\ ConnAt(c, x, conn[c].paths[PathOf[x]] + 1, conn[c].names[NameOf[x]])
        /\ q.adapter \in Adapters /\ x = AddressOf[q.adapter] /\ x \in Addresses
             /\ c \in Connections
    BY <1>3, EnterEffect DEF AtWork
  <2>2. ASSUME x \notin tainted' PROVE Tab(c, x) = {}
    <3>1. LineIs(x, "enter", q.adapter, q.after)
      BY <2>1, LineBefore DEF StageOf
    <3> QED
      BY <2>1, <2>2, <3>1, KnownAt DEF TabFits, LineIs
  <2> QED
    BY <2>1, <2>2, PathsEnter
<1>4. CASE RequestName(t)
  <2>1. SameTables /\ tainted \subseteq tainted' /\ x \in Addresses
    BY <1>4, RequestNameEffect DEF AtWork
  <2>2. conn' = conn \/ \E k : ConnAt(c, x, conn[c].paths[PathOf[x]], k)
    BY <1>4, RequestNameEffect
  <2>3. \A h \in Connections, p \in Paths : conn'[h].paths[p] = conn[h].paths[p]
    BY <2>2 DEF ConnAt
  <2> QED
    BY <2>1, <2>3, PathsKept
<1>5. CASE CountManaged(t)
  <2>1. /\ SameTables /\ tainted \subseteq tainted'
        /\ \A h \in Connections, p \in Paths : conn'[h].paths[p] = conn[h].paths[p]
    BY <1>5, CountManagedEffect DEF ConnAt, ActiveAt, Announces, TakesBack, AtWork, Quiet,
       SameUsers, Closes, Shuts
  <2> QED
    BY <2>1, PathsKept
<1>6. CASE RollbackExport(t)
  <2>1. /\ SameTables /\ tainted \subseteq tainted'
        /\ \A h \in Connections, p \in Paths : conn'[h].paths[p] = conn[h].paths[p]
    BY <1>6, RollbackExportEffect DEF ConnAt, ActiveAt, Announces, TakesBack, AtWork, Quiet,
       SameUsers, Closes, Shuts
  <2> QED
    BY <2>1, PathsKept
<1>7. CASE Withdraw(t)
  <2>1. /\ LeavesAt(c, q.adapter) /\ tainted' = tainted /\ Keeps(t, q) /\ q.pc = "withdraw"
        /\ \/ Leaves(manager[c], q.adapter)
              /\ \E k : ConnAt(c, x, Fewer(conn[c].paths[PathOf[x]]), k)
           \/ ~Leaves(manager[c], q.adapter) /\ conn' = conn
        /\ q.adapter \in Adapters /\ x = AddressOf[q.adapter] /\ x \in Addresses
             /\ c \in Connections
    BY <1>7, WithdrawEffect DEF AtWork
  <2>2. ASSUME x \notin tainted' PROVE Tab(c, x) \subseteq {q.adapter}
    <3>1. LineIs(x, "withdraw", q.adapter, q.after)
      BY <2>1, LineBefore DEF StageOf
    <3>2. FitLine(x) /\ TabFits(c, x)
      BY <2>1, <2>2, KnownAt
    <3>3. services[x] = q.adapter
      BY <3>1, <3>2 DEF FitLine, LineIs
    <3> QED
      BY <3>2, <3>3 DEF TabFits
  <2> QED
    BY <2>1, <2>2, PathsLeave
<1>8. CASE Erase(t)
  <2>1. /\ SameTables /\ tainted \subseteq tainted'
        /\ \A h \in Connections, p \in Paths : conn'[h].paths[p] = conn[h].paths[p]
    BY <1>8, EraseEffect DEF ConnAt, ActiveAt, Announces, TakesBack, AtWork, Quiet, SameUsers,
       Closes, Shuts
  <2> QED
    BY <2>1, PathsKept
<1>9. CASE Return(t)
  <2>1. /\ SameTables /\ tainted \subseteq tainted'
        /\ \A h \in Connections, p \in Paths : conn'[h].paths[p] = conn[h].paths[p]
    BY <1>9, ReturnEffect DEF ConnAt, ActiveAt, Announces, TakesBack, AtWork, Quiet, SameUsers,
       Closes, Shuts
  <2> QED
    BY <2>1, PathsKept
<1>10. CASE Forget(t)
  <2>1. /\ SameTables /\ tainted \subseteq tainted'
        /\ \A h \in Connections, p \in Paths : conn'[h].paths[p] = conn[h].paths[p]
    BY <1>10, ForgetEffect DEF ConnAt, ActiveAt, Announces, TakesBack, AtWork, Quiet,
       SameUsers, Closes, Shuts
  <2> QED
    BY <2>1, PathsKept
<1>11. CASE Retract(t)
  <2>1. tainted \subseteq tainted' /\ x \in Addresses
    BY <1>11, RetractEffect DEF AtWork
  <2>2. CASE b = None
    <3>1. (b # None \/ conn' = conn) /\ (b # None \/ SameTables)
      BY <1>11, RetractEffect
    <3> QED
      BY <2>1, <2>2, <3>1, PathsKept
  <2>3. CASE b # None
    <3>1. /\ g \in Connections /\ LeavesAt(g, b)
          /\ \/ Leaves(manager[g], b) /\ \E k : ConnAt(g, x, Fewer(conn[g].paths[PathOf[x]]), k)
             \/ ~Leaves(manager[g], b) /\ conn' = conn
      BY <1>11, RetractEffect, <2>3
    <3>2. b \in Adapters /\ x = AddressOf[b]
      BY <2>1, <2>3, Registered
    <3>3. ASSUME x \notin tainted' PROVE Tab(g, x) \subseteq {b}
      BY <2>1, <3>1, <3>3, KnownAt DEF TabFits
    <3> QED
      BY <2>1, <3>1, <3>2, <3>3, PathsLeave
  <2> QED
    BY <2>2, <2>3
<1>12. CASE Release(t)
  <2>1. SameTables /\ tainted \subseteq tainted' /\ x \in Addresses
    BY <1>12, ReleaseEffect DEF AtWork
  <2>2. conn' = conn \/ \E k : ConnAt(c, x, conn[c].paths[PathOf[x]], k)
    BY <1>12, ReleaseEffect
  <2>3. \A h \in Connections, p \in Paths : conn'[h].paths[p] = conn[h].paths[p]
    BY <2>2 DEF ConnAt
  <2> QED
    BY <2>1, <2>3, PathsKept
<1>13. CASE Leave(t)
  <2>1. tainted \subseteq tainted' /\ x \in Addresses
    BY <1>13, LeaveEffect
  <2>2. CASE b = None
    <3>1. (b # None \/ conn' = conn) /\ (b # None \/ SameTables)
      BY <1>13, LeaveEffect
    <3> QED
      BY <2>1, <2>2, <3>1, PathsKept
  <2>3. CASE b # None
    <3>1. /\ g \in Connections /\ LeavesAt(g, b)
          /\ \/ Leaves(manager[g], b) /\ \E k : ConnAt(g, x, Fewer(conn[g].paths[PathOf[x]]), k)
             \/ ~Leaves(manager[g], b) /\ conn' = conn
      BY <1>13, LeaveEffect, <2>3
    <3>2. b \in Adapters /\ x = AddressOf[b]
      BY <2>1, <2>3, Registered
    <3>3. ASSUME x \notin tainted' PROVE Tab(g, x) \subseteq {b}
      BY <2>1, <3>1, <3>3, KnownAt DEF TabFits
    <3> QED
      BY <2>1, <3>1, <3>2, <3>3, PathsLeave
  <2> QED
    BY <2>2, <2>3
<1>14. CASE Enlist(t)
  <2>1. CASE SameTables /\ conn' = conn
    <3>1. tainted' = tainted
      BY <1>14, EnlistEffect
    <3> QED
      BY <2>1, <3>1, PathsKept
  <2>2. CASE /\ services[x] = None /\ EntersAt(c, q.adapter)
             /\ ConnAt(c, x, conn[c].paths[PathOf[x]] + 1, conn[c].names[NameOf[x]])
    <3>1. /\ tainted' = tainted /\ q.adapter \in Adapters /\ x = AddressOf[q.adapter]
          /\ x \in Addresses /\ c \in Connections
      BY <1>14, EnlistEffect DEF AtWork
    <3>2. ASSUME x \notin tainted' PROVE Tab(c, x) = {}
      BY <2>2, <3>1, <3>2, KnownAt, ServicesAssumption DEF TabFits
    <3> QED
      BY <2>2, <3>1, <3>2, PathsEnter
  <2> QED
    BY <1>14, EnlistEffect, <2>1, <2>2
<1>15. CASE Unlist(t)
  <2>1. /\ SameTables /\ tainted \subseteq tainted'
        /\ \A h \in Connections, p \in Paths : conn'[h].paths[p] = conn[h].paths[p]
    BY <1>15, UnlistEffect
  <2> QED
    BY <2>1, PathsKept
<1>16. CASE Decrement(t)
  <2>1. /\ SameTables /\ tainted \subseteq tainted'
        /\ \A h \in Connections, p \in Paths : conn'[h].paths[p] = conn[h].paths[p]
    <3>1. /\ SameTables /\ tainted' = tainted
          /\ SameUsers \/ ActiveAt(c, conn[c].active - 1) \/ Closes(c)
      BY <1>16, DecrementEffect
    <3>2. ASSUME NEW h \in Connections, NEW p \in Paths
          PROVE  conn'[h].paths[p] = conn[h].paths[p]
      <4>1. CASE SameUsers
        BY <4>1 DEF SameUsers
      <4>2. CASE ActiveAt(c, conn[c].active - 1)
        BY <4>2 DEF ActiveAt
      <4>3. CASE Closes(c)
        BY <4>3 DEF Closes
      <4> QED
        BY <3>1, <4>1, <4>2, <4>3
    <3> QED
      BY <3>1, <3>2
  <2> QED
    BY <2>1, PathsKept
<1>17. CASE Close(t)
  <2>1. /\ SameTables /\ tainted \subseteq tainted'
        /\ \A h \in Connections, p \in Paths : conn'[h].paths[p] = conn[h].paths[p]
    BY <1>17, CloseEffect DEF ConnAt, ActiveAt, Announces, TakesBack, AtWork, Quiet, SameUsers,
       Closes, Shuts
  <2> QED
    BY <2>1, PathsKept
<1>18. CASE Drop(t)
  <2>1. /\ SameTables /\ tainted \subseteq tainted'
        /\ \A h \in Connections, p \in Paths : conn'[h].paths[p] = conn[h].paths[p]
    BY <1>18, DropEffect DEF ConnAt, ActiveAt, Announces, TakesBack, AtWork, Quiet, SameUsers,
       Closes, Shuts
  <2> QED
    BY <2>1, PathsKept
<1> QED
  BY <1>1, <1>2, <1>3, <1>4, <1>5, <1>6, <1>7, <1>8, <1>9, <1>10, <1>11, <1>12, <1>13, <1>14,
     <1>15, <1>16, <1>17, <1>18 DEF Continue

-----------------------------------------------------------------------------
(* NamesCounted.                                                           *)

\* The lines at which an entry is not counted under its name.
Unnamed == {"export", "enter", "request", "unexport", "withdraw", "undo", "erase", "leave"}
InNames(g, x) == services[x] # None /\ home[services[x]] = g /\ Line(x) \notin Unnamed
NameCount(g, n) == conn[g].names[n] = Cardinality(Named(g, n))
NameOwned(g, n) == conn[g].names[n] > 0 => owner[n] = g

\* NamesCounted, by connection and name.
LEMMA NameParts ==
  NamesCounted <=> \A g \in Connections, n \in Names : ~conn[g].closing =>
                     (NameSound(n) => NameCount(g, n)) /\ NameOwned(g, n)
  BY DEF NamesCounted, NameCount, NameOwned

\* The same after a step.
LEMMA NamesNext ==
  ASSUME \A g \in Connections, n \in Names : ~conn'[g].closing =>
           (NameSound(n)' => NameCount(g, n)') /\ NameOwned(g, n)'
  PROVE  NamesCounted'
  BY DEF NamesCounted, NameCount, NameOwned

\* The addresses counted for a name, one by one.
LEMMA NamedSet ==
  ASSUME NEW g, NEW n
  PROVE  /\ Named(g, n) = {x \in OfName(n) : InNames(g, x)}
         /\ Named(g, n) \subseteq Addresses
  BY DEF Named, InNames, OfName, Unnamed

\* The same after a step.
LEMMA NamedSetNext ==
  ASSUME NEW g, NEW n
  PROVE  Named(g, n)' = {x \in OfName(n) : InNames(g, x)'}
  BY DEF Named, InNames, OfName, Unnamed

\* A name that is sound after a step was sound before it.
LEMMA NameSoundBefore ==
  ASSUME tainted \subseteq tainted', NEW n \in Names, NameSound(n)'
  PROVE  NameSound(n) /\ OfName(n) \cap tainted' = {}
  BY DEF NameSound, OfName

\* What a step does to the names: it leaves them alone, counts address x under
\* its name, or takes it off.
SameNames(x) ==
  /\ \A h \in Connections, n \in Names :
       ~conn'[h].closing => conn'[h].names[n] = conn[h].names[n]
  /\ x \in Addresses /\ NameSound(NameOf[x])' =>
       \A h \in Connections : InNames(h, x)' <=> InNames(h, x)
NameTaken(g, x) ==
  /\ \A h \in Connections, n \in Names : conn'[h].names[n] =
       IF h = g /\ n = NameOf[x] THEN conn[h].names[n] + 1 ELSE conn[h].names[n]
  /\ NameSound(NameOf[x])' =>
       \A h \in Connections : ~InNames(h, x) /\ (InNames(h, x)' <=> h = g)
NameGiven(g, x) ==
  /\ \A h \in Connections, n \in Names : conn'[h].names[n] =
       IF h = g /\ n = NameOf[x] THEN Fewer(conn[h].names[n]) ELSE conn[h].names[n]
  /\ NameSound(NameOf[x])' =>
       \A h \in Connections : ~InNames(h, x)' /\ (InNames(h, x) <=> h = g)

\* NamesCounted is kept if the count of a name follows its addresses.
LEMMA NamesFollow ==
  ASSUME Base, NamesCounted, tainted \subseteq tainted',
         \A h \in Connections : conn[h].closing => conn'[h].closing,
         NEW x, \A y \in Addresses \ {x} : y \notin tainted' =>
                  \A h \in Connections : InNames(h, y)' <=> InNames(h, y),
         NEW g, SameNames(x) \/ (x \in Addresses /\ g \in Connections
                                 /\ (NameTaken(g, x) \/ NameGiven(g, x))),
         \A h \in Connections, n \in Names : ~conn'[h].closing => NameOwned(h, n)'
  PROVE  NamesCounted'
<1> SUFFICES ASSUME NEW h \in Connections, NEW n \in Names, ~conn'[h].closing, NameSound(n)'
             PROVE  NameCount(h, n)'
  BY NamesNext
<1>1. NameCount(h, n) /\ OfName(n) \cap tainted' = {}
  BY NameSoundBefore, NameParts
<1>2. /\ Named(h, n) = {y \in OfName(n) : InNames(h, y)}
      /\ Named(h, n)' = {y \in OfName(n) : InNames(h, y)'}
      /\ IsFiniteSet(Named(h, n)) /\ Cardinality(Named(h, n)) \in Nat
  BY NamedSet, NamedSetNext, SetsOfAddresses
<1>3. \A y \in OfName(n) \ {x} : InNames(h, y)' <=> InNames(h, y)
  BY <1>1 DEF OfName
<1>4. ASSUME conn'[h].names[n] = conn[h].names[n],
             x \in OfName(n) => (InNames(h, x)' <=> InNames(h, x))
      PROVE  NameCount(h, n)'
  <2>1. Named(h, n)' = Named(h, n)
    BY <1>2, <1>3, <1>4
  <2> QED
    BY <1>1, <1>4, <2>1 DEF NameCount
<1>5. CASE SameNames(x)
  BY <1>4, <1>5 DEF SameNames, OfName
<1>6. CASE ~SameNames(x) /\ NameTaken(g, x)
  <2>1. CASE h = g /\ n = NameOf[x]
    <3>1. ~InNames(h, x) /\ InNames(h, x)' /\ x \in OfName(n)
      BY <1>6, <2>1 DEF NameTaken, OfName
    <3>2. Named(h, n)' = Named(h, n) \cup {x} /\ x \notin Named(h, n)
      BY <1>2, <1>3, <3>1
    <3>3. Cardinality(Named(h, n) \cup {x}) = Cardinality(Named(h, n)) + 1
      BY <1>2, <3>2, FS_AddElement
    <3>4. conn'[h].names[n] = conn[h].names[n] + 1
      BY <1>6, <2>1 DEF NameTaken
    <3> QED
      BY <1>1, <3>2, <3>3, <3>4 DEF NameCount
  <2>2. CASE ~(h = g /\ n = NameOf[x])
    <3>1. conn'[h].names[n] = conn[h].names[n]
      BY <1>6, <2>2 DEF NameTaken
    <3>2. x \in OfName(n) => (InNames(h, x)' <=> InNames(h, x))
      BY <1>6, <2>2 DEF NameTaken, OfName
    <3> QED
      BY <1>4, <3>1, <3>2
  <2> QED
    BY <2>1, <2>2
<1>7. CASE ~SameNames(x) /\ NameGiven(g, x)
  <2>1. CASE h = g /\ n = NameOf[x]
    <3>1. InNames(h, x) /\ ~InNames(h, x)' /\ x \in OfName(n)
      BY <1>7, <2>1 DEF NameGiven, OfName
    <3>2. Named(h, n)' = Named(h, n) \ {x} /\ x \in Named(h, n)
      BY <1>2, <1>3, <3>1
    <3>3. /\ Cardinality(Named(h, n) \ {x}) = Cardinality(Named(h, n)) - 1
          /\ Cardinality(Named(h, n)) >= 1
      BY <1>2, <3>2, FS_RemoveElement, NotEmpty
    <3>4. conn'[h].names[n] = Fewer(conn[h].names[n])
      BY <1>7, <2>1 DEF NameGiven
    <3>5. conn[h].names[n] = Cardinality(Named(h, n))
      BY <1>1 DEF NameCount
    <3>6. conn'[h].names[n] = Cardinality(Named(h, n)) - 1
      BY <1>2, <3>3, <3>4, <3>5 DEF Fewer
    <3>7. conn'[h].names[n] = Cardinality(Named(h, n)')
      BY <3>2, <3>3, <3>6
    <3> QED
      BY <3>7 DEF NameCount
  <2>2. CASE ~(h = g /\ n = NameOf[x])
    <3>1. conn'[h].names[n] = conn[h].names[n]
      BY <1>7, <2>2 DEF NameGiven
    <3>2. x \in OfName(n) => (InNames(h, x)' <=> InNames(h, x))
      BY <1>7, <2>2 DEF NameGiven, OfName
    <3> QED
      BY <1>4, <3>1, <3>2
  <2> QED
    BY <2>1, <2>2
<1> QED
  BY <1>5, <1>6, <1>7

\* An address that is left alone stays counted, or not.
LEMMA InNamesStays ==
  ASSUME Base, NEW y \in Addresses, services'[y] = services[y], Line(y)' = Line(y),
         \A a \in Adapters : home[a] # 0 => home'[a] = home[a]
  PROVE  \A h \in Connections : InNames(h, y)' <=> InNames(h, y)
<1>1. services[y] # None => home'[services[y]] = home[services[y]]
  BY Registered, Numbered
<1> QED
  BY <1>1 DEF InNames

\* A step at one address leaves alone how the others are counted.
LEMMA OthersNamed ==
  ASSUME Base, NEW x, Others(x), home' = home
  PROVE  \A y \in Addresses \ {x} : \A h \in Connections : InNames(h, y)' <=> InNames(h, y)
  BY LineStays, InNamesStays DEF Others, Untouched

\* The bus keeps the owners of counted names.
LEMMA OwnersKept ==
  ASSUME NamesCounted, owner' = owner,
         \A h \in Connections : conn[h].closing => conn'[h].closing,
         \A h \in Connections, n \in Names : ~conn'[h].closing =>
           conn'[h].names[n] = conn[h].names[n]
  PROVE  \A h \in Connections, n \in Names : ~conn'[h].closing => NameOwned(h, n)'
  BY NameParts DEF NameOwned

\* The bus releases a name only when it is counted no more.
LEMMA OwnersReleased ==
  ASSUME TypeOK, NamesCounted, NEW g \in Connections, NEW x \in Addresses, NEW i,
         ConnAt(g, x, i, Fewer(conn[g].names[NameOf[x]])), OwnerReleased(g, NameOf[x])
  PROVE  \A h \in Connections, n \in Names : ~conn'[h].closing => NameOwned(h, n)'
<1> SUFFICES ASSUME NEW h \in Connections, NEW n \in Names, ~conn'[h].closing,
                    conn'[h].names[n] > 0
             PROVE  owner'[n] = h
  BY DEF NameOwned
<1>1. ~conn[h].closing /\ conn[h].names[n] \in Nat
  BY Typed DEF ConnAt
<1>2. conn[h].names[n] > 0 /\ (h = g /\ n = NameOf[x] => conn[h].names[n] # 1)
  BY <1>1 DEF ConnAt, Fewer
<1>3. owner[n] = h
  BY <1>1, <1>2, NameParts DEF NameOwned
<1> QED
  BY <1>2, <1>3 DEF OwnerReleased

\* NamesCounted is kept by a step that leaves the entries alone.
LEMMA NamesQuiet ==
  ASSUME Base, NamesCounted, tainted \subseteq tainted',
         \A a \in Adapters : home[a] # 0 => home'[a] = home[a],
         \A h \in Connections : conn[h].closing => conn'[h].closing,
         \A y \in Addresses \ tainted : services'[y] = services[y] /\ Holder(y)' = Holder(y),
         \A h \in Connections, n \in Names : ~conn'[h].closing =>
           conn'[h].names[n] = conn[h].names[n],
         \A n \in Names : owner'[n] # owner[n] =>
           owner[n] \in Connections /\ conn[owner[n]].closing
  PROVE  NamesCounted'
<1>1. \A y \in Addresses : y \notin tainted' =>
        \A h \in Connections : InNames(h, y)' <=> InNames(h, y)
  BY LineStays, InNamesStays
<1>2. ASSUME NEW h \in Connections, NEW n \in Names, ~conn'[h].closing PROVE NameOwned(h, n)'
  <2>1. ~conn[h].closing /\ NameOwned(h, n) /\ conn'[h].names[n] = conn[h].names[n]
    BY <1>2, NameParts
  <2> QED
    BY <1>2, <2>1 DEF NameOwned
<1>3. ASSUME NEW h \in Connections, NEW n \in Names, ~conn'[h].closing, NameSound(n)'
      PROVE  NameCount(h, n)'
  <2>1. NameCount(h, n) /\ OfName(n) \cap tainted' = {}
    BY <1>3, NameSoundBefore, NameParts
  <2>2. \A y \in OfName(n) : InNames(h, y)' <=> InNames(h, y)
    BY <1>1, <2>1 DEF OfName
  <2>3. Named(h, n)' = Named(h, n)
    BY <2>2, NamedSet, NamedSetNext
  <2>4. conn'[h].names[n] = conn[h].names[n]
    BY <1>3
  <2> QED
    BY <2>1, <2>3, <2>4 DEF NameCount
<1>4. \A g \in Connections, n \in Names : ~conn'[g].closing =>
        (NameSound(n)' => NameCount(g, n)') /\ NameOwned(g, n)'
  BY <1>2, <1>3
<1> QED
  BY <1>4, NamesNext

\* A thread that begins an operation keeps NamesCounted.
LEMMA NamesBegin ==
  ASSUME Base, NamesCounted, NEW t \in Actors, Begin(t), Frame(t)
  PROVE  NamesCounted'
<1>9. ASSUME Quiet, SameUsers PROVE NamesCounted'
  <2>1. /\ tainted \subseteq tainted' /\ services' = services /\ owner' = owner
        /\ \A y : Holder(y)' = Holder(y)
        /\ \A h \in Connections, n \in Names : conn'[h].names[n] = conn[h].names[n]
    BY <1>9 DEF Quiet, SameHolder, SameUsers
  <2>2. /\ \A a \in Adapters : home[a] # 0 => home'[a] = home[a]
        /\ \A h \in Connections : conn[h].closing => conn'[h].closing
    BY DEF Frame
  <2> QED
    BY <2>1, <2>2, NamesQuiet
<1>10. ASSUME Quiet, NEW g \in Connections, Opens(g) PROVE NamesCounted'
  <2>1. /\ tainted \subseteq tainted' /\ services' = services /\ owner' = owner
        /\ \A y : Holder(y)' = Holder(y)
    BY <1>10 DEF Quiet, SameHolder
  <2>2. \A h \in Connections, n \in Names : conn'[h].names[n] = conn[h].names[n]
    BY <1>10 DEF Opens
  <2>3. /\ \A a \in Adapters : home[a] # 0 => home'[a] = home[a]
        /\ \A h \in Connections : conn[h].closing => conn'[h].closing
    BY DEF Frame
  <2> QED
    BY <2>1, <2>2, <2>3, NamesQuiet
<1>1. ASSUME NEW a \in Adapters, RegisterStub(t, a) PROVE NamesCounted'
  BY <1>1, RegisterStubEffect, <1>10
<1>2. ASSUME NEW a \in Adapters, NEW b \in Adapters, RegisterManaged(t, a, b) PROVE NamesCounted'
  BY <1>2, RegisterManagedEffect, <1>9
<1>3. ASSUME NEW p \in Paths, NEW a \in Adapters, ExportManaged(t, p, a) PROVE NamesCounted'
  BY <1>3, ExportManagedEffect, <1>9
<1>4. ASSUME NEW p \in Paths, NEW a \in Adapters, UnexportManaged(t, p, a) PROVE NamesCounted'
  BY <1>4, UnexportManagedEffect, <1>9
<1>5. ASSUME NEW x \in Addresses, UnregisterStub(t, x) PROVE NamesCounted'
  BY <1>5, UnregisterStubEffect, <1>9
<1>6. ASSUME NEW a \in Adapters, UnregisterManaged(t, a) PROVE NamesCounted'
  BY <1>6, UnregisterManagedEffect, <1>9
<1>7. ASSUME NEW g \in Connections, CreateProxy(t, g) PROVE NamesCounted'
  BY <1>7, CreateProxyEffect, <1>10
<1>8. ASSUME NEW g \in Connections, DestroyProxy(t, g) PROVE NamesCounted'
  BY <1>8, DestroyProxyEffect, <1>9
<1> QED
  BY <1>1, <1>2, <1>3, <1>4, <1>5, <1>6, <1>7, <1>8 DEF Begin

\* A call that begins or ends in a dispatch thread keeps NamesCounted.
LEMMA NamesDispatch ==
  ASSUME Base, NamesCounted
  PROVE  /\ \A g \in Connections, x \in Addresses : Receive(g, x) => NamesCounted'
         /\ \A g \in Connections : Reply(g) => NamesCounted'
<1>9. ASSUME Quiet, SameUsers, SameHomes PROVE NamesCounted'
  BY <1>9, NamesQuiet DEF Quiet, SameUsers, SameHolder, SameHomes
<1> QED
  BY <1>9, ReceiveEffect, ReplyEffect

\* A step of a registration or unregistration that leaves the names alone.
LEMMA NamesSame ==
  ASSUME Base, NamesCounted, tainted \subseteq tainted', home' = home, NEW x \in Addresses,
         Others(x), owner' = owner,
         \A h \in Connections : conn'[h].closing = conn[h].closing,
         \A h \in Connections, n \in Names : conn'[h].names[n] = conn[h].names[n],
         NameSound(NameOf[x])' => \A h \in Connections : InNames(h, x)' <=> InNames(h, x)
  PROVE  NamesCounted'
<1>1. SameNames(x)
  BY DEF SameNames
<1>2. \A y \in Addresses \ {x} : \A h \in Connections : InNames(h, y)' <=> InNames(h, y)
  BY OthersNamed
<1>3. \A h \in Connections, n \in Names : ~conn'[h].closing => NameOwned(h, n)'
  BY OwnersKept
<1> QED
  BY <1>1, <1>2, <1>3, NamesFollow

\* An address of a sound name is not tainted.
LEMMA SoundName ==
  ASSUME tainted \subseteq tainted', NEW x \in Addresses, NameSound(NameOf[x])'
  PROVE  x \notin tainted /\ x \notin tainted'
  BY DEF NameSound, OfName

\* The bus gives the name only if no other connection of the process has it.
LEMMA NameGranted ==
  ASSUME NEW t \in Actors, NEW q, q = proc[t], RequestName(t), NEW n, n = NameOf[q.address],
         conn[q.conn].names[n] = 0, owner[n] \notin {0, q.conn}
  PROVE  conn' = conn
  BY DEF RequestName

\* A thread that goes on with its operation keeps NamesCounted.
LEMMA NamesContinue ==
  ASSUME Base, ConnectionsFit, Entering, AllFit, NamesCounted, NEW t \in Actors, Continue(t),
         Frame(t)
  PROVE  NamesCounted'
<1>0. TypeOK /\ Shape(proc[t])
  BY DEF Base, Shapes
<1> PICK q \in Process : q = proc[t]
  BY <1>0, Typed
<1> PICK x : x = q.address
  OBVIOUS
<1> PICK b : b = services[x]
  OBVIOUS
<1> PICK g : g = home[b]
  OBVIOUS
<1> PICK c : c = q.conn
  OBVIOUS
<1>a. q.pc \in {"retract", "unlist"} => (q.after = "drop" <=> q.adapter \in Managed)
  BY <1>0 DEF Shape, Building
<1>c. q.after \in {"drop", "return", "erase"}
  BY DEF Process
<1>1. CASE Insert(t)
  <2>0. /\ home' = home /\ Others(x) /\ tainted \subseteq tainted' /\ x \in Addresses
        /\ \A h \in Connections : conn'[h].closing = conn[h].closing
    BY <1>1, InsertEffect DEF Still, AtWork, Announces, TakesBack, ConnAt, ActiveAt
  <2>n. /\ owner' = owner
        /\ \A h \in Connections, n \in Names : conn'[h].names[n] = conn[h].names[n]
    BY <1>1, InsertEffect DEF ConnAt, ActiveAt
  <2> SUFFICES ASSUME NameSound(NameOf[x])'
               PROVE  \A h \in Connections : InNames(h, x)' <=> InNames(h, x)
    BY <2>0, <2>n, NamesSame
  <2>1. x \notin tainted /\ x \notin tainted' /\ FitLine(x)
    BY <2>0, SoundName, KnownAt
  <2>2. /\ Takes(t, q) /\ Becomes(t, "export", q.adapter, x, c, q.after) /\ services[x] = None
    BY <1>0, <2>1, <1>1, InsertEffect, Held
  <2>3. LineIs(x, "export", q.adapter, q.after)'
    BY <2>2, LineAfter DEF StageOf
  <2> QED
    BY <2>2, <2>3 DEF InNames, Unnamed, LineIs
<1>2. CASE ExportStub(t)
  <2>0. /\ home' = home /\ Others(x) /\ tainted \subseteq tainted' /\ x \in Addresses
        /\ \A h \in Connections : conn'[h].closing = conn[h].closing
    BY <1>2, ExportStubEffect DEF Still, AtWork, Announces, TakesBack, ConnAt, ActiveAt
  <2>n. /\ owner' = owner
        /\ \A h \in Connections, n \in Names : conn'[h].names[n] = conn[h].names[n]
    BY <1>2, ExportStubEffect DEF ConnAt, ActiveAt
  <2> SUFFICES ASSUME NameSound(NameOf[x])'
               PROVE  \A h \in Connections : InNames(h, x)' <=> InNames(h, x)
    BY <2>0, <2>n, NamesSame
  <2>1. x \notin tainted /\ x \notin tainted' /\ FitLine(x)
    BY <2>0, SoundName, KnownAt
  <2>2. Keeps(t, q) /\ Becomes(t, "enter", q.adapter, x, c, q.after) /\ q.pc = "export"
    BY <2>1, <1>2, ExportStubEffect
  <2>3. Line(x) = "export"
    <3>1. LineIs(x, "export", q.adapter, q.after)
      BY <2>2, LineBefore DEF StageOf
    <3> QED
      BY <3>1 DEF LineIs
  <2>4. Line(x)' = "enter"
    <3>1. LineIs(x, "enter", q.adapter, q.after)'
      BY <2>2, LineAfter DEF StageOf
    <3> QED
      BY <3>1 DEF LineIs
  <2> QED
    BY <2>3, <2>4 DEF InNames, Unnamed
<1>3. CASE Enter(t)
  <2>0. /\ home' = home /\ Others(x) /\ tainted \subseteq tainted' /\ x \in Addresses
        /\ \A h \in Connections : conn'[h].closing = conn[h].closing
    BY <1>3, EnterEffect DEF Still, AtWork, Announces, TakesBack, ConnAt, ActiveAt
  <2>n. /\ owner' = owner
        /\ \A h \in Connections, n \in Names : conn'[h].names[n] = conn[h].names[n]
    BY <1>3, EnterEffect DEF ConnAt, ActiveAt
  <2> SUFFICES ASSUME NameSound(NameOf[x])'
               PROVE  \A h \in Connections : InNames(h, x)' <=> InNames(h, x)
    BY <2>0, <2>n, NamesSame
  <2>1. x \notin tainted /\ x \notin tainted' /\ FitLine(x)
    BY <2>0, SoundName, KnownAt
  <2>2. Keeps(t, q) /\ Becomes(t, "request", q.adapter, x, c, q.after) /\ q.pc = "enter"
    BY <2>1, <1>3, EnterEffect
  <2>3. Line(x) = "enter"
    <3>1. LineIs(x, "enter", q.adapter, q.after)
      BY <2>2, LineBefore DEF StageOf
    <3> QED
      BY <3>1 DEF LineIs
  <2>4. Line(x)' = "request"
    <3>1. LineIs(x, "request", q.adapter, q.after)'
      BY <2>2, LineAfter DEF StageOf
    <3> QED
      BY <3>1 DEF LineIs
  <2> QED
    BY <2>3, <2>4 DEF InNames, Unnamed
<1>4. CASE RequestName(t)
  <2>0. /\ home' = home /\ Others(x) /\ tainted \subseteq tainted' /\ x \in Addresses
        /\ \A h \in Connections : conn'[h].closing = conn[h].closing
    BY <1>4, RequestNameEffect DEF Still, AtWork, Announces, TakesBack, ConnAt, ActiveAt
  <2>o. \A y \in Addresses \ {x} : \A h \in Connections : InNames(h, y)' <=> InNames(h, y)
    BY <2>0, OthersNamed
  <2>1. CASE /\ conn' = conn /\ owner' = owner
             /\ Keeps(t, q)
                  /\ \E pc \in {"unexport", "withdraw"} : Becomes(t, pc, q.adapter, x, c, q.after)
    <3> SUFFICES ASSUME NameSound(NameOf[x])'
                 PROVE  \A h \in Connections : InNames(h, x)' <=> InNames(h, x)
      BY <2>0, <2>1, NamesSame
    <3>1. PICK pc \in {"unexport", "withdraw"} : Becomes(t, pc, q.adapter, x, c, q.after)
      BY <2>1
    <3>2. LineIs(x, pc, q.adapter, q.after)'
      BY <2>1, <3>1, LineAfter DEF StageOf
    <3>3. LineIs(x, "request", q.adapter, q.after)
      BY <2>1, <1>4, RequestNameEffect, LineBefore DEF StageOf
    <3> QED
      BY <3>1, <3>2, <3>3 DEF InNames, Unnamed, LineIs
  <2>2. CASE ~(/\ conn' = conn /\ owner' = owner
               /\ Keeps(t, q)
                    /\ \E pc \in {"unexport", "withdraw"} :
                         Becomes(t, pc, q.adapter, x, c, q.after))
    <3>1. /\ q.pc = "request" /\ services' = services /\ home[q.adapter] = c /\ c \in Connections
          /\ q.adapter \in Adapters
          /\ ConnAt(c, x, conn[c].paths[PathOf[x]], conn[c].names[NameOf[x]] + 1)
          /\ \A n \in Names : owner'[n] =
               IF n = NameOf[x] /\ conn[c].names[n] = 0 THEN c ELSE owner[n]
          /\ \/ Unlocks(t, q) /\ Becomes(t, "drop", q.adapter, x, c, q.after)
             \/ Keeps(t, q) /\ Becomes(t, "count", q.adapter, x, c, q.after)
      BY <2>2, <1>4, RequestNameEffect DEF AtWork
    <3>2. NameOf[x] \in Names /\ conn[c].names[NameOf[x]] \in Nat
      BY <1>0, <2>0, <3>1, Typed, ServicesAssumption
    <3>3. conn' # conn
      BY <3>1, <3>2 DEF ConnAt
    <3>4. conn[c].names[NameOf[x]] = 0 => owner[NameOf[x]] \in {0, c}
      BY <1>4, <3>3, NameGranted
    <3>5. ASSUME NEW h \in Connections, NEW n \in Names, ~conn'[h].closing, conn'[h].names[n] > 0
          PROVE  owner'[n] = h
      <4>1. ~conn[h].closing /\ h # 0 /\ NameOwned(h, n)
        BY <2>0, <3>5, Numbered, NameParts
      <4>2. CASE h = c /\ n = NameOf[x]
        <5>1. CASE conn[c].names[n] = 0
          BY <3>1, <4>2, <5>1
        <5>2. CASE conn[c].names[n] # 0
          <6>1. conn[h].names[n] > 0
            BY <3>2, <4>2, <5>2
          <6>2. owner[n] = h
            BY <4>1, <6>1 DEF NameOwned
          <6>3. owner'[n] = owner[n]
            BY <3>1, <5>2
          <6> QED
            BY <6>2, <6>3
        <5> QED
          BY <5>1, <5>2
      <4>3. CASE ~(h = c /\ n = NameOf[x])
        <5>1. conn[h].names[n] > 0
          BY <3>1, <3>5, <4>3 DEF ConnAt
        <5>2. owner[n] = h
          BY <4>1, <5>1 DEF NameOwned
        <5> QED
          BY <3>1, <3>4, <4>1, <4>3, <5>2
      <4> QED
        BY <4>2, <4>3
    <3>6. ASSUME NameSound(NameOf[x])'
          PROVE  \A h \in Connections : ~InNames(h, x) /\ (InNames(h, x)' <=> h = c)
      <4>1. x \notin tainted /\ FitLine(x)
        BY <2>0, <3>6, SoundName, KnownAt
      <4>2. LineIs(x, "request", q.adapter, q.after)
        BY <3>1, LineBefore DEF StageOf
      <4>3. services[x] = q.adapter /\ services[x] # None
        BY <3>1, <4>1, <4>2, ServicesAssumption DEF FitLine, LineIs
      <4>4. Line(x)' \in {"idle", "count"}
        <5>1. CASE Unlocks(t, q) /\ Becomes(t, "drop", q.adapter, x, c, q.after)
          BY <5>1, LineAfter
        <5>2. CASE Keeps(t, q) /\ Becomes(t, "count", q.adapter, x, c, q.after)
          <6>1. LineIs(x, "count", q.adapter, q.after)'
            BY <5>2, LineAfter DEF StageOf
          <6> QED
            BY <6>1 DEF LineIs
        <5> QED
          BY <3>1, <5>1, <5>2
      <4> QED
        BY <2>0, <3>1, <4>2, <4>3, <4>4 DEF InNames, Unnamed, LineIs
    <3>7. NameTaken(c, x)
      BY <3>1, <3>6 DEF NameTaken, ConnAt
    <3>8. \A h \in Connections, n \in Names : ~conn'[h].closing => NameOwned(h, n)'
      BY <3>5 DEF NameOwned
    <3> QED
      BY <2>0, <2>o, <3>1, <3>7, <3>8, NamesFollow
  <2> QED
    BY <2>1, <2>2
<1>5. CASE CountManaged(t)
  <2>0. /\ home' = home /\ Others(x) /\ tainted \subseteq tainted' /\ x \in Addresses
        /\ \A h \in Connections : conn'[h].closing = conn[h].closing
    BY <1>5, CountManagedEffect DEF Still, AtWork, Announces, TakesBack, ConnAt, ActiveAt
  <2>n. /\ owner' = owner
        /\ \A h \in Connections, n \in Names : conn'[h].names[n] = conn[h].names[n]
    BY <1>5, CountManagedEffect DEF ConnAt, ActiveAt
  <2> SUFFICES ASSUME NameSound(NameOf[x])'
               PROVE  \A h \in Connections : InNames(h, x)' <=> InNames(h, x)
    BY <2>0, <2>n, NamesSame
  <2>1. x \notin tainted /\ x \notin tainted' /\ FitLine(x)
    BY <2>0, SoundName, KnownAt
  <2>2. /\ Unlocks(t, q) /\ q.pc = "count" /\ services' = services
        /\ Becomes(t, "drop", q.adapter, x, c, q.after)
    BY <1>5, CountManagedEffect
  <2>3. Line(x) \notin Unnamed /\ Line(x)' \notin Unnamed
    <3>1. LineIs(x, StageOf(q.pc, q.after), q.adapter, q.after)
      BY <2>2, LineBefore
    <3>2. Line(x)' = "idle"
      BY <2>2, LineAfter
    <3> QED
      BY <2>2, <3>1, <3>2 DEF Unnamed, LineIs, StageOf
  <2> QED
    BY <2>0, <2>2, <2>3 DEF InNames
<1>6. CASE RollbackExport(t)
  <2>0. /\ home' = home /\ Others(x) /\ tainted \subseteq tainted' /\ x \in Addresses
        /\ \A h \in Connections : conn'[h].closing = conn[h].closing
    BY <1>6, RollbackExportEffect DEF Still, AtWork, Announces, TakesBack, ConnAt, ActiveAt
  <2>n. /\ owner' = owner
        /\ \A h \in Connections, n \in Names : conn'[h].names[n] = conn[h].names[n]
    BY <1>6, RollbackExportEffect DEF ConnAt, ActiveAt
  <2> SUFFICES ASSUME NameSound(NameOf[x])'
               PROVE  \A h \in Connections : InNames(h, x)' <=> InNames(h, x)
    BY <2>0, <2>n, NamesSame
  <2>1. x \notin tainted /\ x \notin tainted' /\ FitLine(x)
    BY <2>0, SoundName, KnownAt
  <2>2. Keeps(t, q) /\ Becomes(t, "withdraw", q.adapter, x, c, q.after) /\ q.pc = "unexport"
    BY <2>1, <1>6, RollbackExportEffect
  <2>3. Line(x) = "unexport"
    <3>1. LineIs(x, "unexport", q.adapter, q.after)
      BY <2>2, LineBefore DEF StageOf
    <3> QED
      BY <3>1 DEF LineIs
  <2>4. Line(x)' = "withdraw"
    <3>1. LineIs(x, "withdraw", q.adapter, q.after)'
      BY <2>2, LineAfter DEF StageOf
    <3> QED
      BY <3>1 DEF LineIs
  <2> QED
    BY <2>3, <2>4 DEF InNames, Unnamed
<1>7. CASE Withdraw(t)
  <2>0. /\ home' = home /\ Others(x) /\ tainted \subseteq tainted' /\ x \in Addresses
        /\ \A h \in Connections : conn'[h].closing = conn[h].closing
    BY <1>7, WithdrawEffect DEF Still, AtWork, Announces, TakesBack, ConnAt, ActiveAt
  <2>n. /\ owner' = owner
        /\ \A h \in Connections, n \in Names : conn'[h].names[n] = conn[h].names[n]
    BY <1>7, WithdrawEffect DEF ConnAt, ActiveAt
  <2> SUFFICES ASSUME NameSound(NameOf[x])'
               PROVE  \A h \in Connections : InNames(h, x)' <=> InNames(h, x)
    BY <2>0, <2>n, NamesSame
  <2>1. x \notin tainted /\ x \notin tainted' /\ FitLine(x)
    BY <2>0, SoundName, KnownAt
  <2>2. /\ Keeps(t, q) /\ q.pc = "withdraw"
        /\ \/ Becomes(t, "erase", q.adapter, x, c, "erase")
           \/ Becomes(t, "retract", q.adapter, x, c, "erase")
    BY <1>7, WithdrawEffect
  <2>3. LineIs(x, "withdraw", q.adapter, q.after)
    BY <2>2, LineBefore DEF StageOf
  <2>4. LineIs(x, "erase", q.adapter, "erase")' \/ LineIs(x, "undo", q.adapter, "erase")'
    BY <2>2, LineAfter DEF StageOf
  <2> QED
    BY <2>3, <2>4 DEF InNames, Unnamed, LineIs
<1>8. CASE Erase(t)
  <2>0. /\ home' = home /\ Others(x) /\ tainted \subseteq tainted' /\ x \in Addresses
        /\ \A h \in Connections : conn'[h].closing = conn[h].closing
    BY <1>8, EraseEffect DEF Still, AtWork, Announces, TakesBack, ConnAt, ActiveAt
  <2>n. /\ owner' = owner
        /\ \A h \in Connections, n \in Names : conn'[h].names[n] = conn[h].names[n]
    BY <1>8, EraseEffect DEF ConnAt, ActiveAt
  <2> SUFFICES ASSUME NameSound(NameOf[x])'
               PROVE  \A h \in Connections : InNames(h, x)' <=> InNames(h, x)
    BY <2>0, <2>n, NamesSame
  <2>1. x \notin tainted /\ x \notin tainted' /\ FitLine(x)
    BY <2>0, SoundName, KnownAt
  <2>2. /\ Unlocks(t, q) /\ q.pc = "erase" /\ services'[x] = None
    BY <1>8, EraseEffect
  <2>3. LineIs(x, "erase", q.adapter, q.after)
    BY <2>2, LineBefore DEF StageOf
  <2> QED
    BY <2>2, <2>3 DEF InNames, Unnamed, LineIs
<1>9. CASE Return(t)
  <2>0. /\ home' = home /\ Others(x) /\ tainted \subseteq tainted' /\ x \in Addresses
        /\ \A h \in Connections : conn'[h].closing = conn[h].closing
    BY <1>9, ReturnEffect DEF Still, AtWork, Announces, TakesBack, ConnAt, ActiveAt
  <2>n. /\ owner' = owner
        /\ \A h \in Connections, n \in Names : conn'[h].names[n] = conn[h].names[n]
    BY <1>9, ReturnEffect DEF ConnAt, ActiveAt
  <2> SUFFICES ASSUME NameSound(NameOf[x])'
               PROVE  \A h \in Connections : InNames(h, x)' <=> InNames(h, x)
    BY <2>0, <2>n, NamesSame
  <2>1. x \notin tainted /\ x \notin tainted' /\ FitLine(x)
    BY <2>0, SoundName, KnownAt
  <2>2. /\ Unlocks(t, q) /\ q.pc = "return" /\ services' = services
        /\ Becomes(t, "drop", q.adapter, x, c, q.after)
    BY <1>9, ReturnEffect
  <2>3. Line(x) \notin Unnamed /\ Line(x)' \notin Unnamed
    <3>1. LineIs(x, StageOf(q.pc, q.after), q.adapter, q.after)
      BY <2>2, LineBefore
    <3>2. Line(x)' = "idle"
      BY <2>2, LineAfter
    <3> QED
      BY <2>2, <3>1, <3>2 DEF Unnamed, LineIs, StageOf
  <2> QED
    BY <2>0, <2>2, <2>3 DEF InNames
<1>10. CASE Forget(t)
  <2>0. /\ home' = home /\ Others(x) /\ tainted \subseteq tainted' /\ x \in Addresses
        /\ \A h \in Connections : conn'[h].closing = conn[h].closing
    BY <1>10, ForgetEffect DEF Still, AtWork, Announces, TakesBack, ConnAt, ActiveAt
  <2>n. /\ owner' = owner
        /\ \A h \in Connections, n \in Names : conn'[h].names[n] = conn[h].names[n]
    BY <1>10, ForgetEffect DEF ConnAt, ActiveAt
  <2> SUFFICES ASSUME NameSound(NameOf[x])'
               PROVE  \A h \in Connections : InNames(h, x)' <=> InNames(h, x)
    BY <2>0, <2>n, NamesSame
  <2>1. x \notin tainted /\ x \notin tainted' /\ FitLine(x)
    BY <2>0, SoundName, KnownAt
  <2>2. /\ Unlocks(t, q) /\ q.pc = "leave"
    BY <1>10, ForgetEffect
  <2>3. LineIs(x, "leave", q.adapter, q.after)
    BY <2>2, LineBefore DEF StageOf
  <2>4. services'[x] = None
    <3>1. /\ q.pc = "leave" /\ c \in Connections /\ home[q.adapter] = c /\ q.adapter \in Adapters
          /\ services'[x] = None \/ q.adapter \notin manager[c].exported[Root]
      BY <2>1, <1>10, ForgetEffect DEF AtWork
    <3>2. services[x] = q.adapter /\ ListedAt(c, x)
      BY <2>1, <2>3, <3>1, ServicesAssumption DEF FitLine, LineIs, ListedAt, Listed
    <3>3. RootFits(c, x)
      BY <2>0, <2>1, <3>1, KnownAt
    <3>4. q.adapter \in manager[c].exported[Root]
      BY <3>2, <3>3 DEF RootFits, AtRoot
    <3> QED
      BY <3>1, <3>4
  <2> QED
    BY <2>3, <2>4 DEF InNames, Unnamed, LineIs
<1>11. CASE Retract(t)
  <2>0. /\ home' = home /\ Others(x) /\ tainted \subseteq tainted' /\ x \in Addresses
        /\ \A h \in Connections : conn'[h].closing = conn[h].closing
    BY <1>11, RetractEffect DEF Still, AtWork, Announces, TakesBack, ConnAt, ActiveAt
  <2>o. \A y \in Addresses \ {x} : \A h \in Connections : InNames(h, y)' <=> InNames(h, y)
    BY <2>0, OthersNamed
  <2>1. q.pc = "retract"
    BY <1>11, RetractEffect
  <2>2. CASE /\ services' = services /\ conn' = conn /\ owner' = owner /\ Keeps(t, q)
             /\ Becomes(t, IF q.after = "drop" THEN "return" ELSE q.after, q.adapter, x, c,
                  q.after)
    <3> SUFFICES ASSUME NameSound(NameOf[x])'
                 PROVE  \A h \in Connections : InNames(h, x)' <=> InNames(h, x)
      BY <2>0, <2>2, NamesSame
    <3>1. x \notin tainted /\ FitLine(x)
      BY <2>0, SoundName, KnownAt
    <3>2. LineIs(x, StageOf("retract", q.after), q.adapter, q.after)
      BY <2>1, <2>2, LineBefore
    <3>3. CASE q.after = "drop"
      <4>1. LineIs(x, "return", q.adapter, q.after)'
        BY <2>2, <3>3, LineAfter DEF StageOf
      <4>2. Line(x) = "retract"
        BY <3>2, <3>3 DEF LineIs, StageOf
      <4> QED
        BY <2>0, <2>2, <4>1, <4>2 DEF InNames, Unnamed, LineIs
    <3>4. CASE q.after = "erase"
      <4>1. LineIs(x, "erase", q.adapter, q.after)'
        BY <2>2, <3>4, LineAfter DEF StageOf
      <4>2. Line(x) = "undo"
        BY <3>2, <3>4 DEF LineIs, StageOf
      <4> QED
        BY <4>1, <4>2 DEF InNames, Unnamed, LineIs
    <3>5. CASE q.after = "return"
      BY <3>1, <3>2, <3>5 DEF LineIs, StageOf, FitLine
    <3> QED
      BY <1>c, <3>3, <3>4, <3>5
  <2>3. CASE ~(/\ services' = services /\ conn' = conn /\ owner' = owner /\ Keeps(t, q)
               /\ Becomes(t, IF q.after = "drop" THEN "return" ELSE q.after, q.adapter, x, c,
                    q.after))
    <3>1. /\ b # None /\ g \in Connections /\ Leaves(manager[g], b) /\ services'[x] = None
          /\ \/ /\ ConnAt(g, x, Fewer(conn[g].paths[PathOf[x]]), Fewer(conn[g].names[NameOf[x]]))
                /\ OwnerReleased(g, NameOf[x])
             \/ /\ ConnAt(g, x, Fewer(conn[g].paths[PathOf[x]]), conn[g].names[NameOf[x]])
                /\ x \in tainted' /\ owner' = owner
          /\ Keeps(t, q) \/ Unlocks(t, q)
      BY <2>3, <1>11, RetractEffect
    <3>2. CASE /\ ConnAt(g, x, Fewer(conn[g].paths[PathOf[x]]), conn[g].names[NameOf[x]])
               /\ x \in tainted' /\ owner' = owner
      <4>1. ~(NameSound(NameOf[x])')
        BY <2>0, <3>2, SoundName
      <4>2. \A h \in Connections, n \in Names : conn'[h].names[n] = conn[h].names[n]
        BY <3>2 DEF ConnAt
      <4> QED
        BY <2>0, <3>2, <4>1, <4>2, NamesSame
    <3>3. CASE /\ ConnAt(g, x, Fewer(conn[g].paths[PathOf[x]]), Fewer(conn[g].names[NameOf[x]]))
               /\ OwnerReleased(g, NameOf[x])
      <4>1. ASSUME NameSound(NameOf[x])'
            PROVE  \A h \in Connections : ~InNames(h, x)' /\ (InNames(h, x) <=> h = g)
        <5>1. x \notin tainted /\ FitLine(x) /\ TabFits(g, x)
          BY <2>0, <3>1, <4>1, SoundName, KnownAt
        <5>2. LineIs(x, StageOf("retract", q.after), q.adapter, q.after)
          BY <2>1, <3>1, LineBefore
        <5>3. q.after # "erase"
          <6>1. Tab(g, x) # {}
            <7>1. AddressOf[b] = x
              BY <2>0, <3>1, Registered
            <7> QED
              BY <1>0, <2>0, <3>1, <7>1, TableEmpty DEF Leaves
          <6> QED
            BY <5>1, <5>2, <6>1 DEF TabFits, LineIs, StageOf
        <5>4. Line(x) = "retract"
          BY <5>2, <5>3 DEF LineIs, StageOf
        <5> QED
          BY <3>1, <5>4 DEF InNames, Unnamed
      <4>2. NameGiven(g, x)
        BY <3>3, <4>1 DEF NameGiven, ConnAt
      <4>3. \A h \in Connections, n \in Names : ~conn'[h].closing => NameOwned(h, n)'
        BY <1>0, <2>0, <3>1, <3>3, OwnersReleased
      <4> QED
        BY <2>0, <2>o, <3>1, <4>2, <4>3, NamesFollow
    <3> QED
      BY <3>1, <3>2, <3>3
  <2> QED
    BY <2>2, <2>3
<1>12. CASE Release(t)
  <2>0. /\ home' = home /\ Others(x) /\ tainted \subseteq tainted' /\ x \in Addresses
        /\ \A h \in Connections : conn'[h].closing = conn[h].closing
    BY <1>12, ReleaseEffect DEF Still, AtWork, Announces, TakesBack, ConnAt, ActiveAt
  <2>o. \A y \in Addresses \ {x} : \A h \in Connections : InNames(h, y)' <=> InNames(h, y)
    BY <2>0, OthersNamed
  <2>1. /\ q.pc = "release" /\ c \in Connections /\ home[q.adapter] = c /\ q.adapter \in Adapters
        /\ Keeps(t, q) /\ services' = services
        /\ \/ /\ ConnAt(c, x, conn[c].paths[PathOf[x]], Fewer(conn[c].names[NameOf[x]]))
              /\ OwnerReleased(c, NameOf[x]) /\ Becomes(t, "leave", q.adapter, x, c, q.after)
           \/ conn' = conn /\ owner' = owner /\ Becomes(t, "return", q.adapter, x, c, q.after)
    BY <1>12, ReleaseEffect DEF AtWork
  <2>2. LineIs(x, "release", q.adapter, q.after)
    BY <2>1, LineBefore DEF StageOf
  <2>3. CASE conn' = conn /\ owner' = owner /\ Becomes(t, "return", q.adapter, x, c, q.after)
    <3>1. LineIs(x, "return", q.adapter, q.after)'
      BY <2>1, <2>3, LineAfter DEF StageOf
    <3>2. \A h \in Connections : InNames(h, x)' <=> InNames(h, x)
      BY <2>0, <2>1, <2>2, <3>1 DEF InNames, Unnamed, LineIs
    <3> QED
      BY <2>0, <2>3, <3>2, NamesSame
  <2>4. CASE /\ ConnAt(c, x, conn[c].paths[PathOf[x]], Fewer(conn[c].names[NameOf[x]]))
             /\ OwnerReleased(c, NameOf[x]) /\ Becomes(t, "leave", q.adapter, x, c, q.after)
    <3>1. LineIs(x, "leave", q.adapter, q.after)'
      BY <2>1, <2>4, LineAfter DEF StageOf
    <3>2. ASSUME NameSound(NameOf[x])'
          PROVE  \A h \in Connections : ~InNames(h, x)' /\ (InNames(h, x) <=> h = c)
      <4>1. x \notin tainted /\ FitLine(x)
        BY <2>0, <3>2, SoundName, KnownAt
      <4>2. services[x] = q.adapter /\ services[x] # None
        BY <2>1, <2>2, <4>1, ServicesAssumption DEF FitLine, LineIs
      <4> QED
        BY <2>1, <2>2, <3>1, <4>2 DEF InNames, Unnamed, LineIs
    <3>3. NameGiven(c, x)
      BY <2>4, <3>2 DEF NameGiven, ConnAt
    <3>4. \A h \in Connections, n \in Names : ~conn'[h].closing => NameOwned(h, n)'
      BY <1>0, <2>0, <2>1, <2>4, OwnersReleased
    <3> QED
      BY <2>0, <2>o, <2>1, <3>3, <3>4, NamesFollow
  <2> QED
    BY <2>1, <2>3, <2>4
<1>13. CASE Leave(t)
  <2>0. /\ home' = home /\ Others(x) /\ tainted \subseteq tainted' /\ x \in Addresses
        /\ \A h \in Connections : conn'[h].closing = conn[h].closing
    BY <1>13, LeaveEffect DEF Still, AtWork, Announces, TakesBack, ConnAt, ActiveAt
  <2>n. /\ owner' = owner
        /\ \A h \in Connections, n \in Names : conn'[h].names[n] = conn[h].names[n]
    BY <1>13, LeaveEffect DEF ConnAt, ActiveAt
  <2> SUFFICES ASSUME NameSound(NameOf[x])'
               PROVE  \A h \in Connections : InNames(h, x)' <=> InNames(h, x)
    BY <2>0, <2>n, NamesSame
  <2>1. x \notin tainted /\ x \notin tainted' /\ FitLine(x)
    BY <2>0, SoundName, KnownAt
  <2>2. services' = services
    BY <1>13, LeaveEffect
  <2>3. CASE b = None
    BY <2>2, <2>3 DEF InNames
  <2>4. CASE b # None
    <3>1. /\ Takes(t, q) /\ \E pc \in {"release", "return"} : Becomes(t, pc, b, x, g, "drop")
      BY <1>13, LeaveEffect, <2>4
    <3>2. PICK pc \in {"release", "return"} : Becomes(t, pc, b, x, g, "drop")
      BY <3>1
    <3>3. LineIs(x, pc, b, "drop")'
      BY <3>1, <3>2, LineAfter DEF StageOf
    <3>4. Line(x) = "idle"
      BY <3>1, LineBefore
    <3> QED
      BY <2>0, <2>2, <3>2, <3>3, <3>4 DEF InNames, Unnamed, LineIs
  <2> QED
    BY <2>3, <2>4
<1>14. CASE Enlist(t)
  <2>0. /\ home' = home /\ Others(x) /\ tainted \subseteq tainted' /\ x \in Addresses
        /\ \A h \in Connections : conn'[h].closing = conn[h].closing
    BY <1>14, EnlistEffect DEF Still, AtWork, Announces, TakesBack, ConnAt, ActiveAt
  <2>n. /\ owner' = owner
        /\ \A h \in Connections, n \in Names : conn'[h].names[n] = conn[h].names[n]
    BY <1>14, EnlistEffect DEF ConnAt, ActiveAt
  <2> SUFFICES ASSUME NameSound(NameOf[x])'
               PROVE  \A h \in Connections : InNames(h, x)' <=> InNames(h, x)
    BY <2>0, <2>n, NamesSame
  <2>1. x \notin tainted /\ x \notin tainted' /\ FitLine(x)
    BY <2>0, SoundName, KnownAt
  <2>2. CASE services' = services /\ SameHolder
    BY <2>0, <2>2, LineStays, InNamesStays DEF SameHolder
  <2>3. CASE /\ services[x] = None /\ Takes(t, q)
             /\ Becomes(t, "request", q.adapter, x, c, q.after)
    <3>1. LineIs(x, "request", q.adapter, q.after)'
      BY <2>3, LineAfter DEF StageOf
    <3> QED
      BY <2>3, <3>1 DEF InNames, Unnamed, LineIs
  <2> QED
    BY <1>14, EnlistEffect, <2>2, <2>3
<1>15. CASE Unlist(t)
  <2>0. /\ home' = home /\ Others(x) /\ tainted \subseteq tainted' /\ x \in Addresses
        /\ \A h \in Connections : conn'[h].closing = conn[h].closing
    BY <1>15, UnlistEffect DEF Still, AtWork, Announces, TakesBack, ConnAt, ActiveAt
  <2>n. /\ owner' = owner
        /\ \A h \in Connections, n \in Names : conn'[h].names[n] = conn[h].names[n]
    BY <1>15, UnlistEffect DEF ConnAt, ActiveAt
  <2> SUFFICES ASSUME NameSound(NameOf[x])'
               PROVE  \A h \in Connections : InNames(h, x)' <=> InNames(h, x)
    BY <2>0, <2>n, NamesSame
  <2>1. x \notin tainted /\ x \notin tainted' /\ FitLine(x)
    BY <2>0, SoundName, KnownAt
  <2>2. /\ Takes(t, q) /\ services' = services /\ q.after = "drop"
        /\ Becomes(t, "retract", q.adapter, x, c, q.after)
    BY <1>15, UnlistEffect, <1>a
  <2>3. Line(x) \notin Unnamed /\ Line(x)' \notin Unnamed
    <3>1. LineIs(x, "retract", q.adapter, q.after)'
      BY <2>2, LineAfter DEF StageOf
    <3> QED
      BY <2>2, <3>1, LineBefore DEF Unnamed, LineIs
  <2> QED
    BY <2>0, <2>2, <2>3 DEF InNames
<1>16. CASE Decrement(t)
  <2>1. /\ services' = services /\ owner' = owner
        /\ tainted' = tainted /\ home' = home /\ q.pc = "decrement"
        /\ SameHolder \/ Keeps(t, q)
    BY <1>16, DecrementEffect DEF SameHomes
  <2>2. ASSUME NEW y \in Addresses \ tainted PROVE Holder(y)' = Holder(y)
    <3>1. CASE SameHolder
      BY <3>1 DEF SameHolder
    <3>2. CASE Keeps(t, q)
      <4>1. y # x
        <5>1. ASSUME y = x PROVE FALSE
          <6>1. Line(x) = "decrement"
            BY <2>1, <3>2, LineBefore DEF LineIs, StageOf
          <6>2. FitLine(x)
            BY <2>2, <5>1, KnownAt
          <6> QED
            BY <6>1, <6>2 DEF FitLine, LockedLines
        <5> QED
          BY <5>1
      <4> QED
        BY <3>2, <4>1 DEF Keeps, HeldBy
    <3> QED
      BY <2>1, <3>1, <3>2
  <2>3. SameUsers \/ ActiveAt(c, conn[c].active - 1) \/ Closes(c)
    BY <1>16, DecrementEffect
  <2>4. \A h \in Connections : conn[h].closing => conn'[h].closing
    BY <2>3 DEF SameUsers, ActiveAt, Closes
  <2>5. \A h \in Connections, n \in Names : ~conn'[h].closing =>
          conn'[h].names[n] = conn[h].names[n]
    BY <2>3 DEF SameUsers, ActiveAt, Closes
  <2> QED
    BY <2>1, <2>2, <2>4, <2>5, NamesQuiet
<1>17. CASE Close(t)
  <2>1. /\ services' = services /\ tainted' = tainted /\ home' = home /\ SameHolder
        /\ c \in Connections /\ \A n \in Names : owner'[n] = IF owner[n] = c THEN 0 ELSE owner[n]
        /\ q.pc = "close" /\ Shuts(c, t)
    BY <1>17, CloseEffect DEF SameHomes
  <2>2. conn[c].closing
    BY <1>0, <2>1 DEF Shape
  <2>3. /\ \A h \in Connections : conn[h].closing => conn'[h].closing
        /\ \A h \in Connections, n \in Names : conn'[h].names[n] = conn[h].names[n]
    BY <2>1 DEF Shuts
  <2> QED
    BY <2>1, <2>2, <2>3, NamesQuiet DEF SameHolder
<1>18. CASE Drop(t)
  <2>1. Quiet /\ SameUsers /\ SameHomes
    BY <1>18, DropEffect
  <2> QED
    BY <2>1, NamesQuiet DEF Quiet, SameHolder, SameUsers, SameHomes
<1> QED
  BY <1>1, <1>2, <1>3, <1>4, <1>5, <1>6, <1>7, <1>8, <1>9, <1>10, <1>11, <1>12, <1>13, <1>14,
     <1>15, <1>16, <1>17, <1>18 DEF Continue

-----------------------------------------------------------------------------
(* UsersCounted.                                                           *)

\* The users of a connection, one at a time.
EntryAt(g, x) ==
  /\ services[x] # None /\ home[services[x]] = g
  /\ ~(Holder(x).pc \in {"request", "count", "withdraw", "erase"}
         /\ Holder(x).adapter \in Managed)
Taking(g, t) == proc[t].conn = g /\ proc[t].pc \in {"insert", "decrement"}
StrayAt(g, a) ==
  /\ a \notin Managed /\ home[a] = g /\ services[AddressOf[a]] # a
  /\ \/ a \in Tab(g, AddressOf[a])
     \/ /\ Holder(AddressOf[a]).adapter = a
        /\ Holder(AddressOf[a]).pc \in {"export", "enter", "retract"}
Owes(g, x) == Holder(x).pc = "decrement" /\ Holder(x).conn = g /\ Tab(g, x) = {}
UsersAt(g) ==
  /\ conn[g].closing =>
       /\ proxies[g] = 0 /\ Entries(g) \subseteq tainted /\ Leftover(g) = {}
       /\ \A t \in Takers(g) : proc[t].pc # "insert"
  /\ ~conn[g].closing =>
       conn[g].active >= proxies[g] + Cardinality(Entries(g)) + Cardinality(Takers(g))
                            + Cardinality(Leftover(g)) + Spare(g)

\* How the line of an address follows the thread that holds servicesMutex_.
LEMMA LinePc ==
  ASSUME NEW x
  PROVE  /\ Line(x) \in {"request", "count", "withdraw", "erase"}
              <=> Holder(x).pc \in {"request", "count", "withdraw", "erase"}
         /\ Line(x) = "decrement" <=> Holder(x).pc = "decrement"
  BY DEF Line, Stage

\* The users of a connection, one by one.
LEMMA UserSets ==
  ASSUME NEW g
  PROVE  /\ Entries(g) = {x \in Addresses : EntryAt(g, x)}
         /\ Takers(g) = {t \in Actors : Taking(g, t)}
         /\ Leftover(g) = {a \in Adapters : StrayAt(g, a)}
         /\ Owing(g) <=> \E x \in Addresses : Owes(g, x)
<1>1. Entries(g) = {x \in Addresses : EntryAt(g, x)}
  BY LinePc DEF Entries, EntryAt, Uncounted
<1>2. Owing(g) <=> \E x \in Addresses : Owes(g, x)
  BY LinePc DEF Owing, Owes
<1> QED
  BY <1>1, <1>2 DEF Takers, Taking, Leftover, StrayAt

\* The same after a step.
LEMMA LinePcNext ==
  ASSUME NEW x
  PROVE  /\ Line(x)' \in {"request", "count", "withdraw", "erase"}
              <=> Holder(x)'.pc \in {"request", "count", "withdraw", "erase"}
         /\ Line(x)' = "decrement" <=> Holder(x)'.pc = "decrement"
  BY DEF Line, Stage

\* The same after a step.
LEMMA UserSetsNext ==
  ASSUME NEW g
  PROVE  /\ Entries(g)' = {x \in Addresses : EntryAt(g, x)'}
         /\ Takers(g)' = {t \in Actors : Taking(g, t)'}
         /\ Leftover(g)' = {a \in Adapters : StrayAt(g, a)'}
         /\ Owing(g)' <=> \E x \in Addresses : Owes(g, x)'
<1>1. Entries(g)' = {x \in Addresses : EntryAt(g, x)'}
  BY LinePcNext DEF Entries, EntryAt, Uncounted
<1>2. Owing(g)' <=> \E x \in Addresses : Owes(g, x)'
  BY LinePcNext DEF Owing, Owes
<1> QED
  BY <1>1, <1>2 DEF Takers, Taking, Leftover, StrayAt

\* The users of a connection after a step are finitely many.
LEMMA SetsFiniteNext ==
  ASSUME NEW g
  PROVE  /\ IsFiniteSet(Entries(g)') /\ Cardinality(Entries(g)') \in Nat
         /\ IsFiniteSet(Takers(g)') /\ Cardinality(Takers(g)') \in Nat
         /\ IsFiniteSet(Leftover(g)') /\ Cardinality(Leftover(g)') \in Nat
         /\ Spare(g)' = IF Owing(g)' THEN 1 ELSE 0
<1>1. Entries(g)' \subseteq Addresses /\ Takers(g)' \subseteq Actors
        /\ Leftover(g)' \subseteq Adapters
  BY UserSetsNext
<1>2. /\ IsFiniteSet(Entries(g)') /\ IsFiniteSet(Takers(g)') /\ IsFiniteSet(Leftover(g)')
  BY <1>1, Finite, FS_Subset
<1> QED
  BY <1>2, FS_CardinalityType DEF Spare

\* UsersCounted, by connection.
LEMMA UserParts ==
  UsersCounted <=> \A g \in Connections : UsersAt(g)
  BY DEF UsersCounted, UsersAt

\* The same after a step.
LEMMA UserPartsNext ==
  ASSUME \A g \in Connections : UsersAt(g)'
  PROVE  UsersCounted'
  BY DEF UsersCounted, UsersAt

\* How the number of elements of a set changes with one of them.
GrowsBy(S, T, i) == Cardinality(T) <= Cardinality(S) + i
\* How a finite set grows by one element.
LEMMA SetMoves ==
  ASSUME NEW S, NEW T, IsFiniteSet(S), NEW e
  PROVE  /\ T \subseteq S => GrowsBy(S, T, 0)
         /\ T \subseteq S \cup {e} => GrowsBy(S, T, 1)
         /\ T \subseteq S \ {e} /\ e \in S => GrowsBy(S, T, 0 - 1)
<1>0. Cardinality(S) \in Nat
  BY FS_CardinalityType
<1>1. ASSUME T \subseteq S PROVE Cardinality(T) <= Cardinality(S)
  BY <1>1, FS_Subset
<1>2. ASSUME T \subseteq S \cup {e} PROVE Cardinality(T) <= Cardinality(S) + 1
  <2>1. /\ IsFiniteSet(S \cup {e})
        /\ Cardinality(S \cup {e}) = IF e \in S THEN Cardinality(S) ELSE Cardinality(S) + 1
    BY FS_AddElement
  <2>2. Cardinality(T) <= Cardinality(S \cup {e}) /\ Cardinality(T) \in Nat
    BY <1>2, <2>1, FS_Subset, FS_CardinalityType
  <2> QED
    BY <1>0, <2>1, <2>2
<1>3. ASSUME T \subseteq S \ {e}, e \in S PROVE Cardinality(T) <= Cardinality(S) + (0 - 1)
  <2>1. /\ IsFiniteSet(S \ {e})
        /\ Cardinality(S \ {e}) = IF e \in S THEN Cardinality(S) - 1 ELSE Cardinality(S)
    BY FS_RemoveElement
  <2>2. Cardinality(T) <= Cardinality(S \ {e}) /\ Cardinality(T) \in Nat
    BY <1>3, <2>1, FS_Subset, FS_CardinalityType
  <2> QED
    BY <1>0, <1>3, <2>1, <2>2
<1>4. T \subseteq S => IsFiniteSet(T) /\ Cardinality(T) \in Nat
  BY FS_Subset, FS_CardinalityType
<1> QED
  BY <1>0, <1>1, <1>2, <1>3, <1>4 DEF GrowsBy

\* A step of thread t at address x, and of adapter a there.
Elsewhere(g, t, x, a) ==
  /\ \A y \in Addresses \ {x} : (EntryAt(g, y)' <=> EntryAt(g, y)) /\ (Owes(g, y)' <=> Owes(g, y))
  /\ \A u \in Actors \ {t} : proc'[u] = proc[u]
  /\ \A b \in Adapters \ {a} : StrayAt(g, b)' => StrayAt(g, b)

\* The numbers by which each kind of users grows.
Balance(g, t, x, a, e, k, l, s) ==
  /\ \/ e = 1 \/ (e = 0 /\ (x \in Addresses /\ EntryAt(g, x)' => EntryAt(g, x)))
     \/ e = 0 - 1 /\ x \in Addresses /\ EntryAt(g, x) /\ ~EntryAt(g, x)'
  /\ \/ k = 1 \/ (k = 0 /\ (Taking(g, t)' => Taking(g, t)))
     \/ k = 0 - 1 /\ Taking(g, t) /\ ~Taking(g, t)'
  /\ \/ l = 1 \/ (l = 0 /\ (a \in Adapters /\ StrayAt(g, a)' => StrayAt(g, a)))
     \/ l = 0 - 1 /\ a \in Adapters /\ StrayAt(g, a) /\ ~StrayAt(g, a)'
  /\ s = 1 \/ (s = 0 /\ (x \in Addresses /\ Owes(g, x)' => Owes(g, x)))
  /\ conn'[g].active - proxies'[g] >= conn[g].active - proxies[g] + e + k + l + s

\* The count of users covers the users if each step of it balances.
LEMMA UsersFollow ==
  ASSUME TypeOK, NEW g \in Connections, UsersAt(g), ~conn[g].closing, ~conn'[g].closing,
         NEW t \in Actors, NEW x, NEW a, Elsewhere(g, t, x, a),
         NEW e \in {0 - 1, 0, 1}, NEW k \in {0 - 1, 0, 1}, NEW l \in {0 - 1, 0, 1},
         NEW s \in {0, 1},
         Balance(g, t, x, a, e, k, l, s),
         proxies'[g] \in Nat, conn'[g].active \in Int
  PROVE  UsersAt(g)'
<1>1. GrowsBy(Entries(g), Entries(g)', e)
  <2>1. IsFiniteSet(Entries(g)) /\ Entries(g) = {y \in Addresses : EntryAt(g, y)}
        /\ Entries(g)' = {y \in Addresses : EntryAt(g, y)'}
        /\ \A y \in Addresses \ {x} : EntryAt(g, y)' <=> EntryAt(g, y)
    BY UserSets, UserSetsNext, SetsFinite DEF Elsewhere
  <2>2. Entries(g)' \subseteq Entries(g) \cup {x}
    BY <2>1
  <2>3. (x \in Addresses /\ EntryAt(g, x)' => EntryAt(g, x)) => Entries(g)' \subseteq Entries(g)
    BY <2>1
  <2>4. x \in Addresses /\ EntryAt(g, x) /\ ~EntryAt(g, x)' =>
          Entries(g)' \subseteq Entries(g) \ {x} /\ x \in Entries(g)
    BY <2>1
  <2>5. e = 1 \/ (e = 0 /\ (x \in Addresses /\ EntryAt(g, x)' => EntryAt(g, x)))
          \/ (e = 0 - 1 /\ x \in Addresses /\ EntryAt(g, x) /\ ~EntryAt(g, x)')
    BY DEF Balance
  <2>6. CASE e = 1
    BY <2>1, <2>2, <2>6, SetMoves
  <2>7. CASE e = 0 /\ (x \in Addresses /\ EntryAt(g, x)' => EntryAt(g, x))
    BY <2>1, <2>3, <2>7, SetMoves
  <2>8. CASE e = 0 - 1 /\ x \in Addresses /\ EntryAt(g, x) /\ ~EntryAt(g, x)'
    BY <2>1, <2>4, <2>8, SetMoves
  <2> QED
    BY <2>5, <2>6, <2>7, <2>8
<1>2. GrowsBy(Takers(g), Takers(g)', k)
  <2>1. IsFiniteSet(Takers(g)) /\ Takers(g) = {u \in Actors : Taking(g, u)}
        /\ Takers(g)' = {u \in Actors : Taking(g, u)'}
        /\ \A u \in Actors \ {t} : Taking(g, u)' <=> Taking(g, u)
    BY UserSets, UserSetsNext, SetsFinite DEF Elsewhere, Taking
  <2>2. Takers(g)' \subseteq Takers(g) \cup {t}
    BY <2>1
  <2>3. (Taking(g, t)' => Taking(g, t)) => Takers(g)' \subseteq Takers(g)
    BY <2>1
  <2>4. Taking(g, t) /\ ~Taking(g, t)' => Takers(g)' \subseteq Takers(g) \ {t} /\ t \in Takers(g)
    BY <2>1
  <2>5. k = 1 \/ (k = 0 /\ (Taking(g, t)' => Taking(g, t)))
          \/ (k = 0 - 1 /\ Taking(g, t) /\ ~Taking(g, t)')
    BY DEF Balance
  <2>6. CASE k = 1
    BY <2>1, <2>2, <2>6, SetMoves
  <2>7. CASE k = 0 /\ (Taking(g, t)' => Taking(g, t))
    BY <2>1, <2>3, <2>7, SetMoves
  <2>8. CASE k = 0 - 1 /\ Taking(g, t) /\ ~Taking(g, t)'
    BY <2>1, <2>4, <2>8, SetMoves
  <2> QED
    BY <2>5, <2>6, <2>7, <2>8
<1>3. GrowsBy(Leftover(g), Leftover(g)', l)
  <2>1. IsFiniteSet(Leftover(g)) /\ Leftover(g) = {b \in Adapters : StrayAt(g, b)}
        /\ Leftover(g)' = {b \in Adapters : StrayAt(g, b)'}
        /\ \A b \in Adapters \ {a} : StrayAt(g, b)' => StrayAt(g, b)
    BY UserSets, UserSetsNext, SetsFinite DEF Elsewhere
  <2>2. Leftover(g)' \subseteq Leftover(g) \cup {a}
    BY <2>1
  <2>3. (a \in Adapters /\ StrayAt(g, a)' => StrayAt(g, a)) => Leftover(g)' \subseteq Leftover(g)
    BY <2>1
  <2>4. a \in Adapters /\ StrayAt(g, a) /\ ~StrayAt(g, a)' =>
          Leftover(g)' \subseteq Leftover(g) \ {a} /\ a \in Leftover(g)
    BY <2>1
  <2>5. l = 1 \/ (l = 0 /\ (a \in Adapters /\ StrayAt(g, a)' => StrayAt(g, a)))
          \/ (l = 0 - 1 /\ a \in Adapters /\ StrayAt(g, a) /\ ~StrayAt(g, a)')
    BY DEF Balance
  <2>6. CASE l = 1
    BY <2>1, <2>2, <2>6, SetMoves
  <2>7. CASE l = 0 /\ (a \in Adapters /\ StrayAt(g, a)' => StrayAt(g, a))
    BY <2>1, <2>3, <2>7, SetMoves
  <2>8. CASE l = 0 - 1 /\ a \in Adapters /\ StrayAt(g, a) /\ ~StrayAt(g, a)'
    BY <2>1, <2>4, <2>8, SetMoves
  <2> QED
    BY <2>5, <2>6, <2>7, <2>8
<1>4. Spare(g)' <= Spare(g) + s /\ Spare(g)' \in Nat /\ Spare(g) \in Nat
  <2>1. s = 1 \/ (s = 0 /\ (Owing(g)' => Owing(g)))
    <3>1. (x \in Addresses /\ Owes(g, x)' => Owes(g, x)) => (Owing(g)' => Owing(g))
      BY UserSets, UserSetsNext DEF Elsewhere
    <3> QED
      BY <3>1 DEF Balance
  <2>2. Spare(g) \in Nat /\ (Owing(g) => Spare(g) = 1) /\ Spare(g)' = IF Owing(g)' THEN 1 ELSE 0
    BY SetsFinite, SetsFiniteNext
  <2> QED
    BY <2>1, <2>2
<1>5. conn[g].active \in Int /\ proxies[g] \in Nat
  BY Typed
<1>6. conn'[g].active >= proxies'[g] + Cardinality(Entries(g)') + Cardinality(Takers(g)')
                            + Cardinality(Leftover(g)') + Spare(g)'
  <2>1. conn[g].active >= proxies[g] + Cardinality(Entries(g)) + Cardinality(Takers(g))
                            + Cardinality(Leftover(g)) + Spare(g)
    BY DEF UsersAt
  <2>2. conn'[g].active - proxies'[g] >= conn[g].active - proxies[g] + e + k + l + s
    BY DEF Balance
  <2>3. e \in Int /\ k \in Int /\ l \in Int /\ s \in Int
    OBVIOUS
  <2> QED
    BY <1>1, <1>2, <1>3, <1>4, <1>5, <2>1, <2>2, <2>3, SetsFinite, SetsFiniteNext DEF GrowsBy
<1> QED
  BY <1>6 DEF UsersAt

\* A connection that is closing gets no user any more.
LEMMA UsersClosed ==
  ASSUME TypeOK, NEW g \in Connections, UsersAt(g), conn[g].closing, conn'[g].closing,
         NEW t \in Actors, NEW x, NEW a, Elsewhere(g, t, x, a), tainted \subseteq tainted',
         x \in Addresses /\ EntryAt(g, x)' => EntryAt(g, x) \/ x \in tainted',
         a \in Adapters /\ StrayAt(g, a)' => StrayAt(g, a),
         proxies'[g] = proxies[g], Taking(g, t)' => proc'[t].pc # "insert"
  PROVE  UsersAt(g)'
<1>1. Entries(g)' \subseteq tainted'
  BY UserSets, UserSetsNext DEF UsersAt, Elsewhere
<1>2. Leftover(g)' = {}
  BY UserSets, UserSetsNext DEF UsersAt, Elsewhere
<1>3. ASSUME NEW u \in Takers(g)' PROVE proc'[u].pc # "insert"
  <2>1. u \in Actors /\ Taking(g, u)'
    BY <1>3, UserSetsNext
  <2>2. CASE u = t
    BY <2>1, <2>2
  <2>3. CASE u # t
    <3>1. u \in Takers(g) /\ proc'[u] = proc[u]
      BY <2>1, <2>3 DEF Elsewhere, Takers, Taking
    <3> QED
      BY <3>1 DEF UsersAt
  <2> QED
    BY <2>2, <2>3
<1> QED
  BY <1>1, <1>2, <1>3 DEF UsersAt

\* The adapter in the hands of the holder of servicesMutex_ has a connection.
LEMMA HolderShape ==
  ASSUME Base, NEW y, Holder(y).pc \in {"export", "enter", "retract"}
  PROVE  Holder(y).adapter \in Adapters /\ home[Holder(y).adapter] # 0
<1>1. servicesMutex \in Actors /\ Holder(y) = proc[servicesMutex]
  BY DEF Holder, Idle, Base, TypeOK
<1> QED
  BY <1>1 DEF Base, Shapes, Shape, Building

\* What the holder of servicesMutex is and becomes.
LEMMA Holding ==
  ASSUME NEW t, NEW q, NEW x, x = q.address, NEW pc, NEW a, NEW g, NEW after,
         Becomes(t, pc, a, x, g, after)
  PROVE  /\ Keeps(t, q) \/ Unlocks(t, q) => Holder(x) = q
         /\ Takes(t, q) => Holder(x).pc = "idle" /\ Holder(x).adapter = None
         /\ Keeps(t, q) \/ Takes(t, q) =>
              Holder(x)'.pc = pc /\ Holder(x)'.adapter = a /\ Holder(x)'.conn = g
         /\ Unlocks(t, q) => Holder(x)'.pc = "idle" /\ Holder(x)'.adapter = None
<1>1. Keeps(t, q) \/ Unlocks(t, q) => Holder(x) = q
  BY DEF Keeps, Unlocks, HeldBy
<1>2. Takes(t, q) => Holder(x).pc = "idle" /\ Holder(x).adapter = None
  BY DEF Takes, NotHeld, Idle
<1>3. Unlocks(t, q) => Holder(x)'.pc = "idle" /\ Holder(x)'.adapter = None
  BY DEF Unlocks, Idle
<1>4. Keeps(t, q) \/ Takes(t, q) => Holder(x)' = proc'[t]
  BY DEF Keeps, Takes
<1> QED
  BY <1>1, <1>2, <1>3, <1>4 DEF Becomes

\* Types of the counts after a step.
LEMMA TypedNext ==
  ASSUME TypeOK'
  PROVE  \A g \in Connections : proxies'[g] \in Nat /\ conn'[g].active \in Int
                                  /\ conn'[g].closing \in BOOLEAN
<1>1. \A g \in Connections : conn'[g] \in Connection
  BY DEF TypeOK
<1> QED
  BY <1>1 DEF TypeOK, Connection

\* A step at one address leaves the users of the others alone.
LEMMA ElsewhereThen ==
  ASSUME Base, NEW g \in Connections, NEW t \in Actors,
         \A u \in Actors \ {t} : proc'[u] = proc[u],
         home' = home, NEW x, Others(x), NEW a,
         \A b \in Adapters \ {a} : AddressOf[b] = x => (StrayAt(g, b)' => StrayAt(g, b))
  PROVE  Elsewhere(g, t, x, a)
<1>1. \A y \in Addresses \ {x} : /\ services'[y] = services[y] /\ Holder(y)' = Holder(y)
                                 /\ Tab(g, y)' = Tab(g, y)
  BY DEF Others, Untouched
<1>2. \A y \in Addresses \ {x} :
        (EntryAt(g, y)' <=> EntryAt(g, y)) /\ (Owes(g, y)' <=> Owes(g, y))
  BY <1>1 DEF EntryAt, Owes
<1>3. \A b \in Adapters : AddressOf[b] \in Addresses
  BY ServicesAssumption
<1>4. \A b \in Adapters \ {a} : AddressOf[b] # x => (StrayAt(g, b)' => StrayAt(g, b))
  BY <1>1, <1>3 DEF StrayAt
<1> QED
  BY <1>2, <1>4 DEF Elsewhere

\* A step that leaves the tables and the holder of servicesMutex alone.
LEMMA ElsewhereQuiet ==
  ASSUME Base, SameTables, SameHolder, services' = services,
         NEW t \in Actors, \A u \in Actors \ {t} : proc'[u] = proc[u],
         \A b \in Adapters : home[b] # 0 => home'[b] = home[b],
         NEW g \in Connections
  PROVE  Elsewhere(g, t, None, None)
<1>1. \A y \in Addresses : /\ services'[y] = services[y] /\ Holder(y)' = Holder(y)
                           /\ Tab(g, y)' = Tab(g, y)
  BY DEF SameTables, SameHolder
<1>2. \A y \in Addresses : services[y] # None => home'[services[y]] = home[services[y]]
  <2>1. \A y \in Addresses : services[y] # None =>
          services[y] \in Adapters /\ home[services[y]] # 0
    BY Registered, Numbered
  <2> QED
    BY <2>1
<1>3. \A y \in Addresses : (EntryAt(g, y)' <=> EntryAt(g, y)) /\ (Owes(g, y)' <=> Owes(g, y))
  BY <1>1, <1>2 DEF EntryAt, Owes
<1>4. \A b \in Adapters : AddressOf[b] \in Addresses
  BY ServicesAssumption
<1>5. ASSUME NEW b \in Adapters, StrayAt(g, b)' PROVE StrayAt(g, b)
  <2>1. /\ b \notin Managed /\ home'[b] = g /\ services[AddressOf[b]] # b
        /\ \/ b \in Tab(g, AddressOf[b])
           \/ /\ Holder(AddressOf[b]).adapter = b
              /\ Holder(AddressOf[b]).pc \in {"export", "enter", "retract"}
    BY <1>1, <1>4, <1>5 DEF StrayAt
  <2>2. home[b] # 0
    <3>1. b \in Tab(g, AddressOf[b]) => home[b] = g
      BY <1>4 DEF Base, Placed
    <3> QED
      BY <2>1, <3>1, HolderShape, Numbered
  <2> QED
    BY <2>1, <2>2 DEF StrayAt
<1> QED
  BY <1>3, <1>5 DEF Elsewhere

\* A connection gets no user and loses none.
LEMMA UsersHere ==
  ASSUME Base, TypeOK', UsersCounted, NEW t \in Actors, tainted \subseteq tainted',
         NEW h \in Connections, conn'[h].active = conn[h].active,
         conn'[h].closing = conn[h].closing, proxies'[h] = proxies[h],
         NEW x, NEW a, Elsewhere(h, t, x, a),
         x \in Addresses /\ EntryAt(h, x)' => EntryAt(h, x),
         x \in Addresses /\ Owes(h, x)' => Owes(h, x),
         a \in Adapters /\ StrayAt(h, a)' => StrayAt(h, a), ~Taking(h, t)'
  PROVE  UsersAt(h)'
<1>0. TypeOK /\ UsersAt(h) /\ proxies'[h] \in Nat /\ conn'[h].active \in Int
      /\ conn[h].active \in Int /\ proxies[h] \in Nat
  BY UserParts, TypedNext, Typed DEF Base
<1>1. CASE conn[h].closing
  BY <1>0, <1>1, UsersClosed
<1>2. CASE ~conn[h].closing
  <2>1. Balance(h, t, x, a, 0, 0, 0, 0)
    <3>1. conn'[h].active - proxies'[h] >= conn[h].active - proxies[h] + 0 + 0 + 0 + 0
      BY <1>0
    <3> QED
      BY <3>1 DEF Balance
  <2> QED
    BY <1>0, <1>2, <2>1, UsersFollow
<1> QED
  BY <1>1, <1>2

\* No connection gets a user or loses one.
LEMMA UsersStay ==
  ASSUME Base, TypeOK', UsersCounted, NEW t \in Actors, tainted \subseteq tainted',
         \A h \in Connections : /\ conn'[h].active = conn[h].active
                                /\ conn'[h].closing = conn[h].closing
                                /\ proxies'[h] = proxies[h],
         NEW x, NEW a, \A h \in Connections : Elsewhere(h, t, x, a),
         \A h \in Connections : x \in Addresses /\ EntryAt(h, x)' => EntryAt(h, x),
         \A h \in Connections : x \in Addresses /\ Owes(h, x)' => Owes(h, x),
         \A h \in Connections : a \in Adapters /\ StrayAt(h, a)' => StrayAt(h, a),
         \A h \in Connections : ~Taking(h, t)'
  PROVE  UsersCounted'
<1> SUFFICES ASSUME NEW h \in Connections PROVE UsersAt(h)'
  BY UserPartsNext
<1> QED
  BY UsersHere

\* The same, for a step that unlocks servicesMutex, takes it or keeps it and
\* leaves the entry of its address alone.
LEMMA UsersSame ==
  ASSUME Base, TypeOK', UsersCounted, NEW t \in Actors, tainted \subseteq tainted',
         \A u \in Actors \ {t} : proc'[u] = proc[u], home' = home, proxies' = proxies,
         \A h \in Connections : /\ conn'[h].active = conn[h].active
                                /\ conn'[h].closing = conn[h].closing,
         NEW x \in Addresses, Others(x), services'[x] = services[x],
         \A h \in Connections : Tab(h, x)' \subseteq Tab(h, x),
         Holder(x)'.pc # "decrement",
         Holder(x).pc \in {"request", "count", "withdraw", "erase"}
           /\ Holder(x).adapter \in Managed
           => /\ Holder(x)'.pc \in {"request", "count", "withdraw", "erase"}
              /\ Holder(x)'.adapter \in Managed,
         Holder(x)'.pc \in {"export", "enter", "retract"} /\ Holder(x)'.adapter \notin Managed
           => /\ Holder(x).adapter = Holder(x)'.adapter
              /\ Holder(x).pc \in {"export", "enter", "retract"},
         proc'[t].pc \notin {"insert", "decrement"}
  PROVE  UsersCounted'
<1>1. \A h \in Connections : (EntryAt(h, x)' => EntryAt(h, x)) /\ ~Owes(h, x)'
  BY DEF EntryAt, Owes
<1>2. \A h \in Connections : \A b \in Adapters : AddressOf[b] = x =>
        (StrayAt(h, b)' => StrayAt(h, b))
  BY DEF StrayAt
<1>3. \A h \in Connections : Elsewhere(h, t, x, None)
  BY <1>2, ElsewhereThen
<1>4. None \notin Adapters /\ \A h \in Connections : ~Taking(h, t)'
  BY ServicesAssumption DEF Taking
<1> QED
  BY <1>1, <1>3, <1>4, UsersStay

\* The thread that holds servicesMutex_ gets no user it had not.
HolderGoesOn(x) ==
  /\ Holder(x)'.pc # "decrement"
  /\ Holder(x).pc \in {"request", "count", "withdraw", "erase"} /\ Holder(x).adapter \in Managed
           => /\ Holder(x)'.pc \in {"request", "count", "withdraw", "erase"}
              /\ Holder(x)'.adapter \in Managed
  /\ Holder(x)'.pc \in {"export", "enter", "retract"} /\ Holder(x)'.adapter \notin Managed
           => /\ Holder(x).adapter = Holder(x)'.adapter
              /\ Holder(x).pc \in {"export", "enter", "retract"}

\* A thread that goes on with its operation keeps UsersCounted.
LEMMA UsersContinue ==
  ASSUME Base, TypeOK', ConnectionsFit, Entering, UsersCounted, NEW t \in Actors, Continue(t),
         Frame(t)
  PROVE  UsersCounted'
<1>0. TypeOK /\ Shape(proc[t]) /\ \A u \in Actors \ {t} : proc'[u] = proc[u]
  BY DEF Base, Shapes, Frame
<1> PICK q \in Process : q = proc[t]
  BY <1>0, Typed
<1> PICK x : x = q.address
  OBVIOUS
<1> PICK b : b = services[x]
  OBVIOUS
<1> PICK g : g = home[b]
  OBVIOUS
<1> PICK c : c = q.conn
  OBVIOUS
<1>a. /\ \A h \in Connections : /\ UsersAt(h) /\ proxies[h] \in Nat /\ conn[h].active \in Int
                                /\ conn[h].closing \in BOOLEAN
      /\ None \notin Adapters /\ None \notin Addresses
  BY <1>0, Typed, UserParts, ServicesAssumption
<1>b. \A h \in Connections : proxies'[h] \in Nat /\ conn'[h].active \in Int
                                  /\ conn'[h].closing \in BOOLEAN
  BY TypedNext
<1>1. CASE Insert(t)
  <2>1. /\ home' = home /\ proxies' = proxies /\ Others(x) /\ x \in Addresses
        /\ tainted \subseteq tainted' /\ conn' = conn /\ c = home[q.adapter]
        /\ q.pc = "insert" /\ q.adapter \in Adapters \ Managed /\ AddressOf[q.adapter] = x
        /\ c \in Connections /\ Takes(t, q)
        /\ services'[x] = IF b = None THEN q.adapter ELSE b
    BY <1>0, <1>1, InsertEffect DEF Still, AtWork, Shape, Building, Takes
  <2>2. \A h \in Connections : Tab(h, x)' = Tab(h, x)
    BY <1>1, <2>1, InsertEffect DEF SameTables
  <2>3. /\ Holder(x).pc = "idle" /\ Holder(x)'.pc = "export" /\ Holder(x)'.adapter = q.adapter
        /\ proc'[t].pc = "export"
    BY <1>1, InsertEffect, <2>1, Holding DEF Becomes
  <2>4. ASSUME NEW h \in Connections PROVE Elsewhere(h, t, x, q.adapter)
    <3>1. \A d \in Adapters \ {q.adapter} : AddressOf[d] = x => (StrayAt(h, d)' => StrayAt(h, d))
      BY <1>a, <2>1, <2>2, <2>3 DEF StrayAt
    <3> QED
      BY <1>0, <2>1, <3>1, ElsewhereThen
  <2>5. ASSUME NEW h \in Connections, h # c PROVE UsersAt(h)'
    <3>1. /\ EntryAt(h, x)' => EntryAt(h, x)
          /\ ~Owes(h, x)' /\ ~StrayAt(h, q.adapter)' /\ ~Taking(h, t)'
      BY <2>1, <2>3, <2>5 DEF EntryAt, Owes, StrayAt, Taking
    <3> QED
      BY <2>1, <2>4, <3>1, UsersHere
  <2>6. UsersAt(c)'
    <3>1. Taking(c, t) /\ ~Taking(c, t)' /\ ~conn[c].closing /\ ~Owes(c, x)'
      <4>1. Taking(c, t) /\ t \in Takers(c)
        BY <2>1 DEF Taking, Takers
      <4>2. ~conn[c].closing
        BY <1>a, <2>1, <4>1 DEF UsersAt
      <4> QED
        BY <2>3, <4>1, <4>2 DEF Taking, Owes
    <3>2. CASE b = None
      <4>1. ~StrayAt(c, q.adapter)'
        BY <2>1, <3>2 DEF StrayAt
      <4>2. Balance(c, t, x, q.adapter, 1, 0 - 1, 0, 0)
        BY <1>a, <2>1, <3>1, <4>1 DEF Balance
      <4> QED
        BY <1>0, <1>a, <1>b, <2>1, <2>4, <3>1, <4>2, UsersFollow
    <3>3. CASE b # None
      <4>1. EntryAt(c, x)' => EntryAt(c, x)
        BY <2>1, <2>3, <3>3 DEF EntryAt
      <4>2. Balance(c, t, x, q.adapter, 0, 0 - 1, 1, 0)
        BY <1>a, <2>1, <3>1, <4>1 DEF Balance
      <4> QED
        BY <1>0, <1>a, <1>b, <2>1, <2>4, <3>1, <4>2, UsersFollow
    <3> QED
      BY <3>2, <3>3
  <2> QED
    BY <2>5, <2>6, UserPartsNext
<1>2. CASE ExportStub(t)
  <2>1. /\ home' = home /\ proxies' = proxies /\ Others(x) /\ x \in Addresses
        /\ tainted \subseteq tainted' /\ services' = services
        /\ \A h \in Connections : /\ conn'[h].active = conn[h].active
                                  /\ conn'[h].closing = conn[h].closing
    BY <1>2, ExportStubEffect DEF Still, AtWork, Announces, TakesBack, ConnAt
  <2>2. \A h \in Connections : Tab(h, x)' \subseteq Tab(h, x)
    BY <1>2, <2>1, ExportStubEffect DEF SameTables, Announces, TakesBack, LeavesAt
  <2>3. HolderGoesOn(x) /\ proc'[t].pc \notin {"insert", "decrement"}
    BY <1>0, <1>2, ExportStubEffect, Holding, ServicesAssumption DEF HolderGoesOn, Becomes
  <2> QED
    BY <1>0, <2>1, <2>2, <2>3, UsersSame DEF HolderGoesOn
<1>3. CASE Enter(t)
  <2>1. /\ home' = home /\ proxies' = proxies /\ Others(x) /\ x \in Addresses
        /\ tainted \subseteq tainted' /\ services' = services
        /\ \A h \in Connections : /\ conn'[h].active = conn[h].active
                                  /\ conn'[h].closing = conn[h].closing
        /\ q.pc = "enter" /\ AddressOf[q.adapter] = x /\ Keeps(t, q)
    BY <1>3, EnterEffect DEF Still, AtWork, ConnAt
  <2>2. \A h \in Connections : Tab(h, x)' \subseteq Tab(h, x) \cup {q.adapter}
    BY <1>3, <2>1, EnterEffect DEF EntersAt
  <2>3. /\ Holder(x) = q /\ Holder(x)'.pc = "request" /\ Holder(x)'.adapter = q.adapter
        /\ proc'[t].pc = "request" /\ q.adapter \notin Managed
    BY <1>3, EnterEffect, <2>1, Holding DEF Becomes
  <2>4. ASSUME NEW h \in Connections
        PROVE  /\ Elsewhere(h, t, x, None) /\ ~Owes(h, x)' /\ ~Taking(h, t)'
               /\ EntryAt(h, x)' => EntryAt(h, x)
    <3>1. \A d \in Adapters \ {None} : AddressOf[d] = x => (StrayAt(h, d)' => StrayAt(h, d))
      BY <2>1, <2>2, <2>3 DEF StrayAt
    <3>2. Elsewhere(h, t, x, None)
      BY <1>0, <2>1, <3>1, ElsewhereThen
    <3> QED
      BY <2>1, <2>3, <3>2 DEF EntryAt, Owes, Taking
  <2> QED
    BY <1>a, <2>1, <2>4, UsersStay
<1>4. CASE RequestName(t)
  <2>1. /\ home' = home /\ proxies' = proxies /\ Others(x) /\ x \in Addresses
        /\ tainted \subseteq tainted' /\ services' = services
        /\ \A h \in Connections : /\ conn'[h].active = conn[h].active
                                  /\ conn'[h].closing = conn[h].closing
    BY <1>4, RequestNameEffect DEF Still, AtWork, Announces, TakesBack, ConnAt
  <2>2. \A h \in Connections : Tab(h, x)' \subseteq Tab(h, x)
    BY <1>4, <2>1, RequestNameEffect DEF SameTables, Announces, TakesBack, LeavesAt
  <2>3. HolderGoesOn(x) /\ proc'[t].pc \notin {"insert", "decrement"}
    BY <1>0, <1>4, RequestNameEffect, Holding, ServicesAssumption DEF HolderGoesOn, Becomes
  <2> QED
    BY <1>0, <2>1, <2>2, <2>3, UsersSame DEF HolderGoesOn
<1>5. CASE CountManaged(t)
  <2>1. /\ home' = home /\ proxies' = proxies /\ Others(x) /\ x \in Addresses
        /\ tainted \subseteq tainted' /\ services' = services /\ q.pc = "count" /\ Unlocks(t, q)
        /\ c = home[q.adapter] /\ c \in Connections /\ b = q.adapter /\ q.adapter \in Adapters
    BY <1>5, CountManagedEffect DEF Still, AtWork, Entering
  <2>2. \A h \in Connections : Tab(h, x)' = Tab(h, x)
    BY <1>5, <2>1, CountManagedEffect DEF SameTables
  <2>3. Holder(x)'.pc = "idle" /\ proc'[t].pc = "drop"
    BY <1>5, CountManagedEffect, <2>1, Holding DEF Becomes
  <2>4. ASSUME NEW h \in Connections
        PROVE  Elsewhere(h, t, x, None) /\ ~Owes(h, x)' /\ ~Taking(h, t)'
    <3>1. \A d \in Adapters \ {None} : AddressOf[d] = x => (StrayAt(h, d)' => StrayAt(h, d))
      BY <2>1, <2>2, <2>3 DEF StrayAt
    <3>2. Elsewhere(h, t, x, None)
      BY <1>0, <2>1, <3>1, ElsewhereThen
    <3> QED
      BY <2>1, <2>3, <3>2 DEF Owes, Taking
  <2>5. \/ /\ current = c /\ ActiveAt(c, conn[c].active + 1)
        \/ current # c /\ conn' = conn /\ x \in tainted'
    BY <1>5, CountManagedEffect
  <2>6. ASSUME NEW h \in Connections, h # c PROVE UsersAt(h)'
    <3>1. ~EntryAt(h, x)'
      BY <2>1, <2>6 DEF EntryAt
    <3>2. conn'[h].active = conn[h].active /\ conn'[h].closing = conn[h].closing
      BY <2>5, <2>6 DEF ActiveAt
    <3> QED
      BY <1>a, <2>1, <2>4, <3>1, <3>2, UsersHere
  <2>7. CASE current = c /\ ActiveAt(c, conn[c].active + 1)
    <3>1. ~conn[c].closing /\ ~conn'[c].closing /\ conn'[c].active = conn[c].active + 1
      BY <2>1, <2>7, Numbered DEF ConnectionsFit, ActiveAt
    <3>2. Balance(c, t, x, None, 1, 0, 0, 0)
      BY <1>a, <2>1, <2>4, <3>1 DEF Balance
    <3>3. UsersAt(c)'
      BY <1>0, <1>a, <1>b, <2>1, <2>4, <3>1, <3>2, UsersFollow
    <3> QED
      BY <2>6, <3>3, UserPartsNext
  <2>8. CASE current # c /\ conn' = conn /\ x \in tainted'
    <3>1. conn[c].closing
      BY <2>1, <2>8, Numbered DEF ConnectionsFit, Base, Placed
    <3>2. UsersAt(c)'
      BY <1>0, <1>a, <2>1, <2>4, <2>8, <3>1, UsersClosed
    <3> QED
      BY <2>6, <3>2, UserPartsNext
  <2> QED
    BY <2>5, <2>7, <2>8
<1>6. CASE RollbackExport(t)
  <2>1. /\ home' = home /\ proxies' = proxies /\ Others(x) /\ x \in Addresses
        /\ tainted \subseteq tainted' /\ services' = services
        /\ \A h \in Connections : /\ conn'[h].active = conn[h].active
                                  /\ conn'[h].closing = conn[h].closing
    BY <1>6, RollbackExportEffect DEF Still, AtWork, Announces, TakesBack, ConnAt
  <2>2. \A h \in Connections : Tab(h, x)' \subseteq Tab(h, x)
    BY <1>6, <2>1, RollbackExportEffect DEF SameTables, Announces, TakesBack, LeavesAt
  <2>3. HolderGoesOn(x) /\ proc'[t].pc \notin {"insert", "decrement"}
    BY <1>0, <1>6, RollbackExportEffect, Holding, ServicesAssumption DEF HolderGoesOn, Becomes
  <2> QED
    BY <1>0, <2>1, <2>2, <2>3, UsersSame DEF HolderGoesOn
<1>7. CASE Withdraw(t)
  <2>1. /\ home' = home /\ proxies' = proxies /\ Others(x) /\ x \in Addresses
        /\ tainted \subseteq tainted' /\ services' = services
        /\ \A h \in Connections : /\ conn'[h].active = conn[h].active
                                  /\ conn'[h].closing = conn[h].closing
        /\ q.pc = "withdraw" /\ AddressOf[q.adapter] = x /\ Keeps(t, q) /\ c = home[q.adapter]
        /\ q.adapter \in Tab(c, x)
    BY <1>7, WithdrawEffect DEF Still, AtWork, ConnAt, Entering
  <2>2. \A h \in Connections : Tab(h, x)' \subseteq Tab(h, x)
    BY <1>7, <2>1, WithdrawEffect DEF LeavesAt
  <2>3. /\ Holder(x) = q /\ Holder(x)'.adapter = q.adapter
        /\ Holder(x)'.pc = IF q.adapter \in Managed THEN "erase" ELSE "retract"
        /\ proc'[t].pc \notin {"insert", "decrement"}
    BY <1>7, WithdrawEffect, <2>1, Holding DEF Becomes
  <2>4. ASSUME NEW h \in Connections
        PROVE  /\ Elsewhere(h, t, x, None) /\ ~Owes(h, x)' /\ ~Taking(h, t)'
               /\ EntryAt(h, x)' => EntryAt(h, x)
    <3>1. \A d \in Adapters \ {None} : AddressOf[d] = x => (StrayAt(h, d)' => StrayAt(h, d))
      BY <2>1, <2>2, <2>3 DEF StrayAt
    <3>2. Elsewhere(h, t, x, None)
      BY <1>0, <2>1, <3>1, ElsewhereThen
    <3> QED
      BY <2>1, <2>3, <3>2 DEF EntryAt, Owes, Taking
  <2> QED
    BY <1>a, <2>1, <2>4, UsersStay
<1>8. CASE Erase(t)
  <2>1. /\ home' = home /\ proxies' = proxies /\ Others(x) /\ x \in Addresses
        /\ tainted \subseteq tainted' /\ services'[x] = None /\ conn' = conn
        /\ q.pc = "erase" /\ Unlocks(t, q)
    BY <1>8, EraseEffect DEF Still, AtWork
  <2>2. \A h \in Connections : Tab(h, x)' = Tab(h, x)
    BY <1>8, <2>1, EraseEffect DEF SameTables
  <2>3. Holder(x)'.pc = "idle" /\ proc'[t].pc = "drop"
    BY <1>8, EraseEffect, <2>1, Holding DEF Becomes
  <2>5. b # None => b \notin Tab(g, x)
    BY <2>1 DEF Entering
  <2>4. ASSUME NEW h \in Connections
        PROVE  /\ Elsewhere(h, t, x, None) /\ ~Owes(h, x)' /\ ~Taking(h, t)' /\ ~EntryAt(h, x)'
    <3>1. \A d \in Adapters \ {None} : AddressOf[d] = x => (StrayAt(h, d)' => StrayAt(h, d))
      BY <2>1, <2>2, <2>3, <2>5 DEF StrayAt
    <3>2. Elsewhere(h, t, x, None)
      BY <1>0, <2>1, <3>1, ElsewhereThen
    <3> QED
      BY <2>1, <2>3, <3>2 DEF EntryAt, Owes, Taking
  <2> QED
    BY <1>a, <2>1, <2>4, UsersStay
<1>9. CASE Return(t)
  <2>1. /\ home' = home /\ proxies' = proxies /\ Others(x) /\ x \in Addresses
        /\ tainted \subseteq tainted' /\ services' = services
        /\ \A h \in Connections : /\ conn'[h].active = conn[h].active
                                  /\ conn'[h].closing = conn[h].closing
    BY <1>9, ReturnEffect DEF Still, AtWork, Announces, TakesBack, ConnAt
  <2>2. \A h \in Connections : Tab(h, x)' \subseteq Tab(h, x)
    BY <1>9, <2>1, ReturnEffect DEF SameTables, Announces, TakesBack, LeavesAt
  <2>3. HolderGoesOn(x) /\ proc'[t].pc \notin {"insert", "decrement"}
    BY <1>0, <1>9, ReturnEffect, Holding, ServicesAssumption DEF HolderGoesOn, Becomes
  <2> QED
    BY <1>0, <2>1, <2>2, <2>3, UsersSame DEF HolderGoesOn
<1>10. CASE Forget(t)
  <2>1. /\ home' = home /\ proxies' = proxies /\ Others(x) /\ x \in Addresses
        /\ tainted \subseteq tainted' /\ conn' = conn
        /\ q.pc = "leave" /\ Unlocks(t, q) /\ c = home[q.adapter] /\ c \in Connections
        /\ b = q.adapter /\ q.adapter \in Adapters /\ q.adapter \notin Tab(c, x)
    BY <1>0, <1>10, ForgetEffect DEF Still, AtWork, TakesBack, Entering, Shape
  <2>2. \A h \in Connections : Tab(h, x)' = Tab(h, x)
    BY <1>10, <2>1, ForgetEffect DEF SameTables
  <2>3. \/ /\ services'[x] = None /\ proc'[t].pc = "decrement" /\ proc'[t].conn = c
        \/ services' = services /\ proc'[t].pc = "drop"
    BY <1>10, ForgetEffect DEF Becomes
  <2>4. Holder(x) = q /\ Holder(x)'.pc = "idle"
    BY <2>1 DEF Unlocks, HeldBy, Idle
  <2>5. CASE services' = services /\ proc'[t].pc = "drop"
    <3>1. HolderGoesOn(x)
      BY <2>1, <2>4 DEF HolderGoesOn
    <3> QED
      BY <1>0, <2>1, <2>2, <2>5, <3>1, UsersSame DEF HolderGoesOn
  <2>6. CASE services'[x] = None /\ proc'[t].pc = "decrement" /\ proc'[t].conn = c
    <3>1. ASSUME NEW h \in Connections
          PROVE  /\ Elsewhere(h, t, x, None) /\ ~Owes(h, x)' /\ ~EntryAt(h, x)'
                 /\ h # c => ~Taking(h, t)'
      <4>1. \A d \in Adapters \ {None} : AddressOf[d] = x => (StrayAt(h, d)' => StrayAt(h, d))
        <5>1. ASSUME NEW d \in Adapters, AddressOf[d] = x, StrayAt(h, d)' PROVE StrayAt(h, d)
          <6>1. d \notin Managed /\ home[d] = h /\ d \in Tab(h, x)
            BY <2>1, <2>2, <2>4, <5>1 DEF StrayAt
          <6>2. services[x] # d
            BY <2>1, <6>1
          <6> QED
            BY <5>1, <6>1, <6>2 DEF StrayAt
        <5> QED
          BY <5>1
      <4>2. Elsewhere(h, t, x, None)
        BY <1>0, <2>1, <4>1, ElsewhereThen
      <4> QED
        BY <2>4, <2>6, <4>2 DEF EntryAt, Owes, Taking
    <3>2. ASSUME NEW h \in Connections, h # c PROVE UsersAt(h)'
      BY <1>a, <2>1, <3>1, <3>2, UsersHere
    <3>3. EntryAt(c, x)
      BY <1>a, <2>1, <2>4 DEF EntryAt
    <3>4. ASSUME conn[c].closing PROVE UsersAt(c)'
      <4>1. /\ Elsewhere(c, t, x, None) /\ ~EntryAt(c, x)' /\ proxies'[c] = proxies[c]
            /\ proc'[t].pc # "insert" /\ UsersAt(c) /\ conn'[c].closing
        BY <1>a, <2>1, <2>6, <3>1, <3>4
      <4> QED
        BY <1>0, <1>a, <2>1, <3>4, <4>1, UsersClosed
    <3>5. ASSUME ~conn[c].closing PROVE UsersAt(c)'
      <4>1. Balance(c, t, x, None, 0 - 1, 1, 0, 0)
        BY <1>a, <2>1, <3>1, <3>3 DEF Balance
      <4> QED
        BY <1>0, <1>a, <1>b, <2>1, <3>1, <3>5, <4>1, UsersFollow
    <3> QED
      BY <3>2, <3>4, <3>5, UserPartsNext
  <2> QED
    BY <2>3, <2>5, <2>6
<1>11. CASE Retract(t)
  <2>1. /\ home' = home /\ proxies' = proxies /\ Others(x) /\ x \in Addresses
        /\ tainted \subseteq tainted' /\ q.pc = "retract" /\ AddressOf[q.adapter] = x
        /\ q.adapter \in Adapters
        /\ q.after # "drop" =>
             q.adapter \notin Managed /\ q.adapter \notin Tab(home[q.adapter], x)
    BY <1>0, <1>11, RetractEffect DEF Still, AtWork, Entering, Shape
  <2>2. \/ /\ services' = services /\ conn' = conn /\ Keeps(t, q)
           /\ Becomes(t, IF q.after = "drop" THEN "return" ELSE q.after, q.adapter, x, c, q.after)
           /\ (b = None /\ SameTables) \/ LeavesAt(g, b)
        \/ /\ b # None /\ g \in Connections /\ Leaves(manager[g], b) /\ LeavesAt(g, b)
           /\ services'[x] = None /\ Becomes(t, "decrement", q.adapter, x, g, q.after)
           /\ (q.after = "drop" /\ Unlocks(t, q)) \/ (q.after # "drop" /\ Keeps(t, q))
           /\ \A h \in Connections : /\ conn'[h].active = conn[h].active
                                     /\ conn'[h].closing = conn[h].closing
    BY <1>11, RetractEffect DEF ConnAt
  <2>3. ASSUME services' = services, conn' = conn, Keeps(t, q),
               Becomes(t, IF q.after = "drop" THEN "return" ELSE q.after, q.adapter, x, c,
                 q.after),
               (b = None /\ SameTables) \/ LeavesAt(g, b)
        PROVE  UsersCounted'
    <3>1. \A h \in Connections : Tab(h, x)' \subseteq Tab(h, x)
      BY <2>1, <2>3 DEF SameTables, LeavesAt
    <3>2. Holder(x) = q /\ Holder(x)'.pc \in {"return", "erase"}
            /\ proc'[t].pc \in {"return", "erase"}
      <4>1. q.after \in {"drop", "return", "erase"}
        BY DEF Process
      <4>2. Holder(x) = q /\ Holder(x)' = proc'[t]
        BY <2>3 DEF Keeps, HeldBy
      <4> QED
        BY <2>3, <4>1, <4>2 DEF Becomes
    <3>3. HolderGoesOn(x)
      BY <2>1, <3>2 DEF HolderGoesOn
    <3> QED
      BY <1>0, <2>1, <2>3, <3>1, <3>2, <3>3, UsersSame DEF HolderGoesOn
  <2>4. ASSUME b # None, g \in Connections, Leaves(manager[g], b), LeavesAt(g, b),
               services'[x] = None, Becomes(t, "decrement", q.adapter, x, g, q.after),
               (q.after = "drop" /\ Unlocks(t, q)) \/ (q.after # "drop" /\ Keeps(t, q)),
               \A h \in Connections : /\ conn'[h].active = conn[h].active
                                      /\ conn'[h].closing = conn[h].closing
        PROVE  UsersCounted'
    <3>1. /\ Holder(x) = q /\ proc'[t].pc = "decrement" /\ proc'[t].conn = g
          /\ q.after = "drop" => Holder(x)'.pc = "idle"
          /\ q.after # "drop" => Holder(x)'.pc = "decrement" /\ Holder(x)'.conn = g
      BY <2>4 DEF Keeps, Unlocks, HeldBy, Becomes, Idle
    <3>2. AddressOf[b] = x /\ b \in Adapters
      BY <2>1, <2>4, Registered
    <3>3. /\ \A h \in Connections : Tab(h, x)' \subseteq Tab(h, x)
          /\ b \notin Tab(g, x)' /\ Tab(g, x)' = Tab(g, x) \ {b}
      BY <2>1, <2>4, <3>2 DEF LeavesAt
    <3>4. ASSUME NEW h \in Connections
          PROVE  /\ \A d \in Adapters : AddressOf[d] = x => (StrayAt(h, d)' => StrayAt(h, d))
                 /\ ~EntryAt(h, x)'
                 /\ h # g => ~Taking(h, t)' /\ ~Owes(h, x)'
      <4>1. ASSUME NEW d \in Adapters, AddressOf[d] = x, StrayAt(h, d)' PROVE StrayAt(h, d)
        <5>1. d \notin Managed /\ home[d] = h /\ d \in Tab(h, x)'
          BY <2>1, <3>1, <4>1 DEF StrayAt
        <5>2. services[x] # d /\ d \in Tab(h, x)
          BY <3>3, <5>1
        <5> QED
          BY <4>1, <5>1, <5>2 DEF StrayAt
      <4> QED
        BY <2>4, <3>1, <4>1 DEF EntryAt, Taking, Owes
    <3>5. ASSUME NEW h \in Connections, NEW a PROVE Elsewhere(h, t, x, a)
      BY <1>0, <2>1, <3>4, ElsewhereThen
    <3>6. ASSUME NEW h \in Connections, h # g PROVE UsersAt(h)'
      <4>1. Elsewhere(h, t, x, None) /\ ~EntryAt(h, x)' /\ ~Taking(h, t)' /\ ~Owes(h, x)'
        BY <3>4, <3>5, <3>6
      <4> QED
        BY <1>a, <2>1, <2>4, <4>1, UsersHere
    <3>7. EntryAt(g, x)
      BY <2>1, <2>4, <3>1 DEF EntryAt
    <3>8. ASSUME conn[g].closing PROVE UsersAt(g)'
      <4>1. /\ Elsewhere(g, t, x, None) /\ ~EntryAt(g, x)' /\ proxies'[g] = proxies[g]
            /\ proc'[t].pc # "insert" /\ UsersAt(g) /\ conn'[g].closing
        BY <1>a, <2>1, <2>4, <3>1, <3>4, <3>5, <3>8
      <4> QED
        BY <1>0, <1>a, <2>1, <2>4, <3>8, <4>1, UsersClosed
    <3>9. ASSUME ~conn[g].closing, ~Owes(g, x)' PROVE UsersAt(g)'
      <4>1. conn'[g].active - proxies'[g] >= conn[g].active - proxies[g] + (0 - 1) + 1 + 0 + 0
        BY <1>a, <2>1, <2>4
      <4>2. Balance(g, t, x, None, 0 - 1, 1, 0, 0)
        BY <1>a, <2>1, <2>4, <3>4, <3>7, <3>9, <4>1 DEF Balance
      <4> QED
        BY <1>0, <1>a, <1>b, <2>1, <2>4, <3>5, <3>9, <4>2, UsersFollow
    <3>10. ASSUME ~conn[g].closing, Owes(g, x)' PROVE UsersAt(g)'
      <4>1. q.after # "drop" /\ Tab(g, x)' = {}
        BY <3>1, <3>10 DEF Owes
      <4>2. q.adapter # b
        <5>1. ASSUME q.adapter = b PROVE FALSE
          <6>1. Tab(g, x) = {}
            BY <2>1, <3>3, <4>1, <5>1
          <6>2. manager[g].table[x] # <<>>
            BY <2>4, <3>2 DEF Leaves
          <6> QED
            BY <1>0, <2>1, <2>4, <6>1, <6>2, TableEmpty
        <5> QED
          BY <5>1
      <4>3. /\ StrayAt(home[q.adapter], q.adapter) /\ ~StrayAt(home[q.adapter], q.adapter)'
        <5>1. StrayAt(home[q.adapter], q.adapter)
          BY <2>1, <3>1, <4>1, <4>2 DEF StrayAt
        <5>2. ASSUME StrayAt(home[q.adapter], q.adapter)' PROVE FALSE
          BY <2>1, <3>1, <3>3, <4>1, <5>2, RetractEffect, <1>11 DEF StrayAt, AtWork
        <5> QED
          BY <5>1, <5>2
      <4>4. home[q.adapter] = g
        <5>1. home[q.adapter] \in Connections
          BY <1>11, RetractEffect DEF AtWork
        <5>2. q.adapter \in Leftover(home[q.adapter])
          BY <2>1, <4>3, <5>1, UserSets
        <5>3. ~conn[home[q.adapter]].closing
          BY <1>a, <5>1, <5>2 DEF UsersAt
        <5>4. conn[home[q.adapter]].open /\ conn[g].open
          BY <2>1, <2>4, <3>2, <3>10, <5>1, <5>3, Numbered DEF Base, Placed
        <5> QED
          BY <2>4, <3>10, <5>1, <5>3, <5>4 DEF ConnectionsFit
      <4>5. conn'[g].active - proxies'[g]
              >= conn[g].active - proxies[g] + (0 - 1) + 1 + (0 - 1) + 1
        BY <1>a, <2>1, <2>4
      <4>6. Balance(g, t, x, q.adapter, 0 - 1, 1, 0 - 1, 1)
        BY <1>a, <2>1, <2>4, <3>4, <3>7, <4>3, <4>4, <4>5 DEF Balance
      <4> QED
        BY <1>0, <1>a, <1>b, <2>1, <2>4, <3>5, <3>10, <4>6, UsersFollow
    <3> QED
      BY <2>4, <3>6, <3>8, <3>9, <3>10, UserPartsNext
  <2> QED
    BY <2>2, <2>3, <2>4
<1>12. CASE Release(t)
  <2>1. /\ home' = home /\ proxies' = proxies /\ Others(x) /\ x \in Addresses
        /\ tainted \subseteq tainted' /\ services' = services
        /\ \A h \in Connections : /\ conn'[h].active = conn[h].active
                                  /\ conn'[h].closing = conn[h].closing
    BY <1>12, ReleaseEffect DEF Still, AtWork, Announces, TakesBack, ConnAt
  <2>2. \A h \in Connections : Tab(h, x)' \subseteq Tab(h, x)
    BY <1>12, <2>1, ReleaseEffect DEF SameTables, Announces, TakesBack, LeavesAt
  <2>3. HolderGoesOn(x) /\ proc'[t].pc \notin {"insert", "decrement"}
    BY <1>0, <1>12, ReleaseEffect, Holding, ServicesAssumption DEF HolderGoesOn, Becomes
  <2> QED
    BY <1>0, <2>1, <2>2, <2>3, UsersSame DEF HolderGoesOn
<1>13. CASE Leave(t)
  <2>1. /\ home' = home /\ proxies' = proxies /\ Others(x) /\ x \in Addresses
        /\ tainted \subseteq tainted' /\ services' = services /\ servicesMutex = None
        /\ \A h \in Connections : /\ conn'[h].active = conn[h].active
                                  /\ conn'[h].closing = conn[h].closing
    BY <1>13, LeaveEffect DEF Still, ConnAt
  <2>2. \A h \in Connections : Tab(h, x)' \subseteq Tab(h, x)
    BY <1>13, <2>1, LeaveEffect DEF SameTables, LeavesAt
  <2>3. Holder(x).pc = "idle"
    BY <2>1 DEF Holder, Idle
  <2>4. \/ SameHolder /\ Becomes(t, "idle", None, None, 0, "drop")
        \/ Takes(t, q) /\ Becomes(t, "release", b, x, g, "drop")
        \/ Takes(t, q) /\ Becomes(t, "return", b, x, g, "drop")
    BY <1>13, LeaveEffect
  <2>5. Holder(x)'.pc \in {"idle", "release", "return"}
          /\ proc'[t].pc \in {"idle", "release", "return"}
    BY <2>3, <2>4, Holding DEF Becomes, SameHolder
  <2>6. HolderGoesOn(x)
    BY <2>3, <2>5 DEF HolderGoesOn
  <2> QED
    BY <1>0, <2>1, <2>2, <2>5, <2>6, UsersSame DEF HolderGoesOn
<1>14. CASE Enlist(t)
  <2>1. /\ home' = home /\ proxies' = proxies /\ Others(x) /\ x \in Addresses
        /\ tainted' = tainted /\ servicesMutex = None /\ AddressOf[q.adapter] = x
        /\ q.adapter \in Managed
        /\ \A h \in Connections : /\ conn'[h].active = conn[h].active
                                  /\ conn'[h].closing = conn[h].closing
    BY <1>14, EnlistEffect DEF Still, ConnAt, AtWork
  <2>2. Holder(x).pc = "idle"
    BY <2>1 DEF Holder, Idle
  <2>3. \/ /\ services[x] = None /\ services'[x] = q.adapter /\ Takes(t, q)
                /\ EntersAt(c, q.adapter)
           /\ Becomes(t, "request", q.adapter, x, c, q.after)
        \/ /\ services' = services /\ SameHolder /\ SameTables
           /\ Becomes(t, "drop", q.adapter, x, c, q.after)
    BY <1>14, EnlistEffect
  <2>4. CASE /\ services' = services /\ SameHolder /\ SameTables
             /\ Becomes(t, "drop", q.adapter, x, c, q.after)
    <3>1. Holder(x)'.pc = "idle" /\ proc'[t].pc = "drop"
      BY <2>2, <2>4 DEF SameHolder, Becomes
    <3>2. HolderGoesOn(x) /\ \A h \in Connections : Tab(h, x)' \subseteq Tab(h, x)
      BY <2>1, <2>2, <2>4, <3>1 DEF HolderGoesOn, SameTables
    <3> QED
      BY <1>0, <2>1, <2>4, <3>1, <3>2, UsersSame DEF HolderGoesOn
  <2>5. CASE /\ services[x] = None /\ services'[x] = q.adapter /\ Takes(t, q)
                  /\ EntersAt(c, q.adapter)
             /\ Becomes(t, "request", q.adapter, x, c, q.after)
    <3>1. Holder(x)'.pc = "request" /\ Holder(x)'.adapter = q.adapter /\ proc'[t].pc = "request"
      BY <2>5, Holding DEF Becomes
    <3>2. \A h \in Connections : Tab(h, x)' \subseteq Tab(h, x) \cup {q.adapter}
      BY <2>1, <2>5 DEF EntersAt
    <3>3. ASSUME NEW h \in Connections
          PROVE  Elsewhere(h, t, x, None) /\ ~Owes(h, x)' /\ ~Taking(h, t)' /\ ~EntryAt(h, x)'
      <4>1. \A d \in Adapters \ {None} : AddressOf[d] = x => (StrayAt(h, d)' => StrayAt(h, d))
        BY <1>a, <2>1, <2>5, <3>1, <3>2 DEF StrayAt
      <4>2. Elsewhere(h, t, x, None)
        BY <1>0, <2>1, <4>1, ElsewhereThen
      <4> QED
        BY <2>1, <3>1, <4>2 DEF EntryAt, Owes, Taking
    <3> QED
      BY <1>a, <2>1, <3>3, UsersStay
  <2> QED
    BY <2>3, <2>4, <2>5
<1>15. CASE Unlist(t)
  <2>1. /\ home' = home /\ proxies' = proxies /\ Others(x) /\ x \in Addresses
        /\ tainted \subseteq tainted' /\ services' = services
        /\ \A h \in Connections : /\ conn'[h].active = conn[h].active
                                  /\ conn'[h].closing = conn[h].closing
    BY <1>15, UnlistEffect DEF Still, AtWork, Announces, TakesBack, ConnAt
  <2>2. \A h \in Connections : Tab(h, x)' \subseteq Tab(h, x)
    BY <1>15, <2>1, UnlistEffect DEF SameTables, Announces, TakesBack, LeavesAt
  <2>3. HolderGoesOn(x) /\ proc'[t].pc \notin {"insert", "decrement"}
    BY <1>0, <1>15, UnlistEffect, Holding, ServicesAssumption DEF HolderGoesOn, Becomes
  <2> QED
    BY <1>0, <2>1, <2>2, <2>3, UsersSame DEF HolderGoesOn
<1>16. CASE Decrement(t)
  <2>1. /\ SameTables /\ services' = services /\ home' = home /\ proxies' = proxies
        /\ tainted' = tainted /\ q.pc = "decrement" /\ c \in Connections
        /\ SameHolder \/ Keeps(t, q)
        /\ proc'[t].pc \in {q.after, "close"}
    BY <1>16, DecrementEffect DEF SameHomes, Becomes
  <2>2. q.after \in {"drop", "return", "erase"}
    BY DEF Process
  <2>3. \A h \in Connections, y \in Addresses : Tab(h, y)' = Tab(h, y)
    BY <2>1 DEF SameTables
  <2>4. \/ SameHolder
        \/ /\ \A y \in Addresses \ {x} : Holder(y)' = Holder(y)
           /\ Holder(x).pc = "decrement" /\ Holder(x)'.pc \in {"drop", "return", "erase", "close"}
           /\ x \in Addresses => services[x] = None
    <3>1. CASE SameHolder
      BY <3>1
    <3>2. CASE Keeps(t, q)
      <4>1. /\ \A y \in Addresses \ {x} : Holder(y)' = Holder(y)
            /\ Holder(x) = q /\ Holder(x)' = proc'[t] /\ servicesMutex = t
        BY <3>2 DEF Keeps, HeldBy
      <4>2. Locked(q)
        BY <4>1 DEF Base, MutexHeld
      <4>3. services[x] = None
        BY <1>0, <2>1, <4>2 DEF Locked, LockedLines, Shape
      <4> QED
        BY <2>1, <2>2, <4>1, <4>3
    <3> QED
      BY <2>1, <3>1, <3>2
  <2>5. ASSUME NEW h \in Connections
        PROVE  /\ Elsewhere(h, t, x, None) /\ ~Taking(h, t)'
               /\ x \in Addresses /\ EntryAt(h, x)' => EntryAt(h, x)
               /\ x \in Addresses /\ Owes(h, x)' => Owes(h, x)
    <3>1. CASE SameHolder
      <4>1. /\ \A y \in Addresses :
                 (EntryAt(h, y)' <=> EntryAt(h, y)) /\ (Owes(h, y)' <=> Owes(h, y))
        BY <2>1, <2>3, <3>1 DEF EntryAt, Owes, SameHolder
      <4>2. \A d \in Adapters : StrayAt(h, d)' => StrayAt(h, d)
        BY <2>1, <2>3, <3>1, ServicesAssumption DEF StrayAt, SameHolder
      <4> QED
        BY <1>0, <2>1, <2>2, <4>1, <4>2 DEF Elsewhere, Taking
    <3>2. CASE /\ \A y \in Addresses \ {x} : Holder(y)' = Holder(y)
               /\ Holder(x).pc = "decrement"
                    /\ Holder(x)'.pc \in {"drop", "return", "erase", "close"}
               /\ x \in Addresses => services[x] = None
      <4>1. /\ \A y \in Addresses \ {x} :
                 (EntryAt(h, y)' <=> EntryAt(h, y)) /\ (Owes(h, y)' <=> Owes(h, y))
        BY <2>1, <2>3, <3>2 DEF EntryAt, Owes
      <4>2. \A d \in Adapters : StrayAt(h, d)' => StrayAt(h, d)
        BY <2>1, <2>3, <3>2, ServicesAssumption DEF StrayAt
      <4>3. x \in Addresses => ~EntryAt(h, x)' /\ ~Owes(h, x)'
        BY <2>1, <3>2 DEF EntryAt, Owes
      <4> QED
        BY <1>0, <2>1, <2>2, <4>1, <4>2, <4>3 DEF Elsewhere, Taking
    <3> QED
      BY <2>4, <3>1, <3>2
  <2>6. SameUsers \/ (current = c /\ ActiveAt(c, conn[c].active - 1))
          \/ (Closes(c) /\ conn[c].active <= 1)
    BY <1>16, DecrementEffect
  <2>7. ASSUME NEW h \in Connections, h # c \/ SameUsers PROVE UsersAt(h)'
    <3>1. conn'[h].active = conn[h].active /\ conn'[h].closing = conn[h].closing
      BY <2>6, <2>7 DEF SameUsers, ActiveAt, Closes
    <3> QED
      BY <1>a, <2>1, <2>5, <3>1, UsersHere
  <2>8. Taking(c, t) /\ t \in Takers(c)
    BY <2>1 DEF Taking, Takers
  <2>9. current = c => ~conn[c].closing
    BY <2>1, Numbered DEF ConnectionsFit
  <2>10. ASSUME current = c, ActiveAt(c, conn[c].active - 1) PROVE UsersAt(c)'
    <3>1. ~conn[c].closing /\ ~conn'[c].closing /\ conn'[c].active = conn[c].active - 1
      BY <2>1, <2>9, <2>10 DEF ActiveAt
    <3>2. conn'[c].active - proxies'[c] >= conn[c].active - proxies[c] + 0 + (0 - 1) + 0 + 0
      BY <1>a, <2>1, <3>1
    <3>3. Balance(c, t, x, None, 0, 0 - 1, 0, 0)
      BY <1>a, <2>1, <2>5, <2>8, <3>2 DEF Balance
    <3> QED
      BY <1>0, <1>a, <1>b, <2>1, <2>5, <3>1, <3>3, UsersFollow
  <2>11. ASSUME Closes(c), conn[c].active <= 1 PROVE UsersAt(c)'
    <3>1. ~conn[c].closing /\ conn'[c].closing = TRUE
      BY <2>1, <2>9, <2>11 DEF Closes
    <3>2. conn[c].active >= proxies[c] + Cardinality(Entries(c)) + Cardinality(Takers(c))
                            + Cardinality(Leftover(c)) + Spare(c)
      BY <1>a, <2>1, <3>1 DEF UsersAt
    <3>3. Cardinality(Takers(c)) >= 1
      BY <2>8, SetsFinite, NotEmpty
    <3>4. /\ proxies[c] = 0 /\ Cardinality(Entries(c)) = 0 /\ Cardinality(Takers(c)) = 1
          /\ Cardinality(Leftover(c)) = 0
      BY <1>a, <2>1, <2>11, <3>2, <3>3, SetsFinite
    <3>5. Entries(c) = {} /\ Leftover(c) = {}
      BY <3>4, SetsFinite, FS_EmptySet
    <3>6. Takers(c) \ {t} = {}
      <4>1. /\ IsFiniteSet(Takers(c) \ {t})
            /\ Cardinality(Takers(c) \ {t}) = IF t \in Takers(c) THEN Cardinality(Takers(c)) - 1
                                                               ELSE Cardinality(Takers(c))
        BY SetsFinite, FS_RemoveElement
      <4>2. Cardinality(Takers(c) \ {t}) = 0
        BY <2>8, <3>4, <4>1
      <4> QED
        BY <4>1, <4>2, FS_EmptySet
    <3>7. Entries(c)' = {} /\ Leftover(c)' = {}
      BY <1>a, <2>1, <2>5, <3>5, UserSets, UserSetsNext DEF Elsewhere
    <3>8. \A u \in Takers(c)' : proc'[u].pc # "insert"
      <4>1. ASSUME NEW u \in Takers(c)' PROVE FALSE
        <5>1. u \in Actors /\ Taking(c, u)'
          BY <4>1, UserSetsNext
        <5>2. u # t /\ proc'[u] = proc[u]
          BY <1>0, <2>1, <2>5, <5>1
        <5>3. u \in Takers(c)
          BY <5>1, <5>2 DEF Taking, Takers
        <5> QED
          BY <3>6, <5>2, <5>3
      <4> QED
        BY <4>1
    <3> QED
      BY <2>1, <3>1, <3>4, <3>7, <3>8 DEF UsersAt
  <2> QED
    BY <2>6, <2>7, <2>10, <2>11, UserPartsNext
<1>17. CASE Close(t)
  <2>1. /\ SameTables /\ SameHolder /\ services' = services /\ home' = home /\ proxies' = proxies
        /\ tainted' = tainted /\ proc'[t].pc = "drop"
        /\ \A h \in Connections : /\ conn'[h].active = conn[h].active
                                  /\ conn'[h].closing = conn[h].closing
    BY <1>17, CloseEffect DEF SameHomes, Shuts, Becomes
  <2>2. \A h \in Connections : Elsewhere(h, t, None, None)
    BY <1>0, <2>1, ElsewhereQuiet
  <2> QED
    BY <1>a, <2>1, <2>2, UsersStay DEF Taking
<1>18. CASE Drop(t)
  <2>1. /\ SameTables /\ SameHolder /\ services' = services /\ home' = home /\ proxies' = proxies
        /\ tainted' = tainted /\ proc'[t].pc \in {"idle", "destroy"} /\ conn' = conn
    BY <1>18, DropEffect DEF SameHomes, SameUsers, Quiet, Becomes
  <2>2. \A h \in Connections : Elsewhere(h, t, None, None)
    BY <1>0, <2>1, ElsewhereQuiet
  <2> QED
    BY <1>a, <2>1, <2>2, UsersStay DEF Taking
<1> QED
  BY <1>1, <1>2, <1>3, <1>4, <1>5, <1>6, <1>7, <1>8, <1>9, <1>10, <1>11, <1>12, <1>13, <1>14,
     <1>15, <1>16, <1>17, <1>18 DEF Continue

\* UsersCounted is kept by a quiet step.
LEMMA UsersQuiet ==
  ASSUME Base, TypeOK', UsersCounted, Quiet, conn' = conn, proxies' = proxies, NEW t \in Actors,
         \A u \in Actors \ {t} : proc'[u] = proc[u],
         \A a \in Adapters : home[a] # 0 => home'[a] = home[a],
         proc'[t].pc \notin {"insert", "decrement"}
  PROVE  UsersCounted'
<1>1. \A h \in Connections : Elsewhere(h, t, None, None)
  BY ElsewhereQuiet DEF Quiet
<1>2. None \notin Adapters /\ None \notin Addresses /\ tainted \subseteq tainted'
  BY ServicesAssumption DEF Quiet
<1> QED
  BY <1>1, <1>2, UsersStay DEF Taking

\* A thread that begins an operation keeps UsersCounted.
LEMMA UsersBegin ==
  ASSUME Base, TypeOK', ConnectionsFit, UsersCounted, NEW t \in Actors, Begin(t), Frame(t)
  PROVE  UsersCounted'
<1>a. /\ TypeOK /\ \A u \in Actors \ {t} : proc'[u] = proc[u]
      /\ \A a \in Adapters : home[a] # 0 => home'[a] = home[a]
      /\ \A h \in Connections : /\ UsersAt(h) /\ proxies[h] \in Nat /\ conn[h].active \in Int
                                /\ conn[h].closing \in BOOLEAN
      /\ None \notin Adapters /\ None \notin Addresses
  BY Typed, UserParts, ServicesAssumption DEF Base, Frame
<1>b. \A h \in Connections : proxies'[h] \in Nat /\ conn'[h].active \in Int
                                  /\ conn'[h].closing \in BOOLEAN
  BY TypedNext
<1>c. ASSUME Quiet, NEW h \in Connections PROVE Elsewhere(h, t, None, None)
  BY <1>a, <1>c, ElsewhereQuiet DEF Quiet
<1>d. ASSUME Quiet, NEW h \in Connections, conn'[h].active = conn[h].active,
             conn'[h].closing = conn[h].closing, proxies'[h] = proxies[h], ~Taking(h, t)'
      PROVE  UsersAt(h)'
  BY <1>a, <1>c, <1>d, UsersHere DEF Quiet
<1>1. ASSUME NEW a \in Adapters, RegisterStub(t, a) PROVE UsersCounted'
  <2>1. Quiet /\ proxies' = proxies
    BY <1>1, RegisterStubEffect
  <2>2. PICK g \in Connections : Opens(g) /\ Becomes(t, "insert", a, AddressOf[a], g, "return")
    BY <1>1, RegisterStubEffect
  <2>3. ~conn[g].closing /\ ~conn'[g].closing /\ conn'[g].active = conn[g].active + 1
    BY <2>2, Numbered DEF Opens, ConnectionsFit
  <2>4. Balance(g, t, None, None, 0, 1, 0, 0)
    BY <1>a, <2>1, <2>3 DEF Balance
  <2>5. UsersAt(g)'
    BY <1>a, <1>b, <1>c, <2>1, <2>3, <2>4, UsersFollow
  <2>6. ASSUME NEW h \in Connections, h # g PROVE UsersAt(h)'
    BY <1>d, <2>1, <2>2, <2>6 DEF Opens, Becomes, Taking
  <2> QED
    BY <2>5, <2>6, UserPartsNext
<1>2. ASSUME NEW a \in Adapters, NEW b \in Adapters, RegisterManaged(t, a, b) PROVE UsersCounted'
  BY <1>a, <1>2, RegisterManagedEffect, UsersQuiet DEF SameUsers, SameHomes, Becomes
<1>3. ASSUME NEW p \in Paths, NEW a \in Adapters, ExportManaged(t, p, a) PROVE UsersCounted'
  BY <1>a, <1>3, ExportManagedEffect, UsersQuiet DEF SameUsers, SameHomes, ExportManaged, Idle
<1>4. ASSUME NEW p \in Paths, NEW a \in Adapters, UnexportManaged(t, p, a) PROVE UsersCounted'
  BY <1>a, <1>4, UnexportManagedEffect, UsersQuiet DEF SameUsers, SameHomes, Becomes
<1>5. ASSUME NEW x \in Addresses, UnregisterStub(t, x) PROVE UsersCounted'
  BY <1>a, <1>5, UnregisterStubEffect, UsersQuiet DEF SameUsers, SameHomes, Becomes
<1>6. ASSUME NEW a \in Adapters, UnregisterManaged(t, a) PROVE UsersCounted'
  BY <1>a, <1>6, UnregisterManagedEffect, UsersQuiet DEF SameUsers, SameHomes, Becomes
<1>7. ASSUME NEW g \in Connections, CreateProxy(t, g) PROVE UsersCounted'
  <2>1. /\ Quiet /\ proc' = proc /\ Opens(g) /\ proc[t].pc = "idle"
        /\ \A h \in Connections : proxies'[h] = IF h = g THEN proxies[h] + 1 ELSE proxies[h]
    <3>1. proc[t].pc = "idle"
      BY <1>7 DEF CreateProxy, Idle
    <3> QED
      BY <1>7, CreateProxyEffect, <3>1
  <2>2. ~conn[g].closing /\ ~conn'[g].closing /\ conn'[g].active = conn[g].active + 1
    BY <2>1, Numbered DEF Opens, ConnectionsFit
  <2>3. conn'[g].active - proxies'[g] >= conn[g].active - proxies[g] + 0 + 0 + 0 + 0
    BY <1>a, <2>1, <2>2
  <2>4. Balance(g, t, None, None, 0, 0, 0, 0)
    BY <1>a, <2>1, <2>3 DEF Balance, Taking
  <2>5. UsersAt(g)'
    BY <1>a, <1>b, <1>c, <2>1, <2>2, <2>4, UsersFollow
  <2>6. ASSUME NEW h \in Connections, h # g PROVE UsersAt(h)'
    BY <1>d, <2>1, <2>6 DEF Opens, Taking
  <2> QED
    BY <2>5, <2>6, UserPartsNext
<1>8. ASSUME NEW g \in Connections, DestroyProxy(t, g) PROVE UsersCounted'
  <2>1. /\ Quiet /\ conn' = conn /\ proxies[g] > 0
        /\ \A h \in Connections : proxies'[h] = IF h = g THEN proxies[h] - 1 ELSE proxies[h]
        /\ Becomes(t, "decrement", None, None, g, "drop")
    BY <1>8, DestroyProxyEffect DEF SameUsers
  <2>2. ~conn[g].closing
    BY <1>a, <2>1 DEF UsersAt
  <2>3. conn'[g].active - proxies'[g] >= conn[g].active - proxies[g] + 0 + 1 + 0 + 0
    BY <1>a, <2>1
  <2>4. Balance(g, t, None, None, 0, 1, 0, 0)
    BY <1>a, <2>3 DEF Balance
  <2>5. UsersAt(g)'
    BY <1>a, <1>b, <1>c, <2>1, <2>2, <2>4, UsersFollow
  <2>6. ASSUME NEW h \in Connections, h # g PROVE UsersAt(h)'
    BY <1>d, <2>1, <2>6 DEF Becomes, Taking
  <2> QED
    BY <2>5, <2>6, UserPartsNext
<1> QED
  BY <1>1, <1>2, <1>3, <1>4, <1>5, <1>6, <1>7, <1>8 DEF Begin

\* A call that begins or ends in a dispatch thread keeps UsersCounted.
LEMMA UsersDispatch ==
  ASSUME Base, TypeOK', UsersCounted
  PROVE  /\ \A g \in Connections, x \in Addresses : Receive(g, x) => UsersCounted'
         /\ \A g \in Connections : Reply(g) => UsersCounted'
<1>1. ASSUME NEW g \in Connections, NEW x \in Addresses, Receive(g, x) PROVE UsersCounted'
  <2>1. DispatcherOf[g] \in Actors
    BY ServicesAssumption DEF Actors
  <2>2. /\ Quiet /\ conn' = conn /\ proxies' = proxies /\ home' = home /\ proc' = proc
        /\ proc[DispatcherOf[g]].pc = "idle"
    <3>1. proc[DispatcherOf[g]].pc = "idle"
      BY <1>1 DEF Receive, Idle
    <3> QED
      BY <1>1, <3>1, ReceiveEffect DEF SameUsers, SameHomes
  <2> QED
    BY <2>1, <2>2, UsersQuiet
<1>2. ASSUME NEW g \in Connections, Reply(g) PROVE UsersCounted'
  <2>1. /\ DispatcherOf[g] \in Actors /\ Quiet /\ conn' = conn /\ proxies' = proxies
             /\ home' = home
        /\ Becomes(DispatcherOf[g], "drop", handling[g], None, 0, "drop")
    BY <1>2, ReplyEffect DEF SameUsers, SameHomes
  <2> QED
    BY <2>1, UsersQuiet DEF Becomes
<1> QED
  BY <1>1, <1>2

-----------------------------------------------------------------------------
(* The invariant, and what follows from it.                                *)

\* The initial state has the invariant.
LEMMA InvInit ==
  ASSUME Init
  PROVE  Inv
<1>1. /\ \A t \in Actors : /\ proc[t].pc = "idle" /\ proc[t].adapter = None
                           /\ proc[t].address = None /\ proc[t].conn = 0
      /\ \A x \in Addresses : services[x] = None
      /\ \A a \in Adapters : home[a] = 0
      /\ \A g \in Connections : /\ ~conn[g].open /\ ~conn[g].closing /\ conn[g].active = 0
                                /\ proxies[g] = 0 /\ handling[g] = None /\ heard[g] = {}
                                /\ \A n \in Names : conn[g].names[n] = 0
                                /\ \A p \in Paths : conn[g].paths[p] = 0
      /\ current = 0 /\ servicesMutex = None /\ connectionsMutex = None
      /\ promised = {} /\ tainted = {} /\ None \notin Actors
  BY ServicesAssumption DEF Init, Idle, NewConnection
<1>2. /\ \A g \in Connections : manager[g].exported[Root] = {}
      /\ \A g \in Connections, p \in Paths : manager[g].count[p] = 0
      /\ \A g \in Connections, x \in Addresses : manager[g].table[x] = <<>>
  BY DEF Init, NewManager
<1>3. IsInjective(<<>>) /\ \A g \in Connections, x \in Addresses : Tab(g, x) = {}
  BY <1>2 DEF Tab, Range, IsInjective
<1>4. \A x : Holder(x) = Idle /\ Line(x) = "idle"
  BY <1>1 DEF Holder, Line, Stage, Idle
<1>5. \A x : Holder(x).pc = "idle"
  BY <1>4 DEF Idle
<1>6. TypeOK
  BY TypesInit
<1>7. MutexHeld /\ DisconnectHeld
  BY <1>1 DEF MutexHeld, DisconnectHeld, Locked, LockedLines
<1>8. Shapes
  BY <1>1 DEF Shapes, Shape, Building
<1>9. Placed
  BY <1>1, <1>2, <1>3 DEF Placed
<1>10. Entering
  BY <1>1 DEF Entering
<1>11. ConnectionsFit
  BY <1>1 DEF ConnectionsFit
<1>12. UsersCounted
  <2>1. ASSUME NEW g \in Connections
        PROVE  /\ Entries(g) = {} /\ Takers(g) = {} /\ Leftover(g) = {} /\ Spare(g) = 0
    BY <1>1, <1>3, <1>4, <1>5, <2>1, Numbered, ServicesAssumption
       DEF Entries, Takers, Leftover, Spare, Owing
  <2> QED
    BY <1>1, <2>1, FS_EmptySet DEF UsersCounted
<1>13. AllFit
  BY <1>1, <1>2, <1>3, <1>4 DEF AllFit, Fits, Listed, AtRoot
<1>14. PathsCounted
  <2>1. \A g \in Connections, p \in Paths : EnteredOf(g, p) = {} /\ EnteredManaging(g, p) = {}
    BY <1>3 DEF EnteredOf, EnteredManaging, OfPath
  <2> QED
    BY <1>1, <1>2, <2>1, FS_EmptySet DEF PathsCounted
<1>15. NamesCounted
  <2>1. \A g \in Connections, n \in Names : Named(g, n) = {}
    BY <1>1 DEF Named, OfName
  <2>2. Cardinality({}) = 0 /\ ~(0 > 0)
    BY FS_EmptySet
  <2> QED
    BY <1>1, <2>1, <2>2 DEF NamesCounted
<1>16. AllComplete
  BY <1>1 DEF AllComplete
<1>17. HeardForm /\ ExportedForm
  BY <1>1, <1>2 DEF HeardForm, ExportedForm
<1> QED
  BY <1>6, <1>7, <1>8, <1>9, <1>10, <1>11, <1>12, <1>13, <1>14, <1>15, <1>16, <1>17 DEF Inv

\* A thread that goes on with its operation keeps the invariant.
LEMMA InvContinue ==
  ASSUME Inv, NEW t \in Actors, Continue(t)
  PROVE  Inv'
<1>1. Base /\ Forms /\ ConnectionsFit /\ UsersCounted /\ Entering /\ AllFit /\ PathsCounted
      /\ NamesCounted /\ AllComplete /\ DisconnectHeld
  BY DEF Inv, Base, Forms
<1>2. Frame(t)
  BY <1>1, FrameContinue
<1>3. TypeOK'
  BY KnownToThreads, TypesContinue DEF Inv
<1>4. MutexHeld' /\ DisconnectHeld' /\ Shapes' /\ Placed'
  BY <1>1, <1>2, MutexContinue, DisconnectContinue, ShapesContinue, PlacedContinue
<1>5. Entering' /\ ConnectionsFit' /\ Forms'
  BY <1>1, <1>2, EnteringContinue, FitContinue, FormsContinue
<1>6. UsersCounted'
  BY <1>1, <1>2, <1>3, UsersContinue
<1>7. AllFit' /\ AllComplete' /\ PathsCounted' /\ NamesCounted'
  BY <1>1, <1>2, FitsContinue, CompleteContinue, PathsContinue, NamesContinue
<1> QED
  BY <1>3, <1>4, <1>5, <1>6, <1>7 DEF Inv, Forms

\* A thread that begins an operation keeps the invariant.
LEMMA InvBegin ==
  ASSUME Inv, NEW t \in Actors, Begin(t)
  PROVE  Inv'
<1>1. Base /\ Forms /\ ConnectionsFit /\ UsersCounted /\ Entering /\ AllFit /\ PathsCounted
      /\ NamesCounted /\ AllComplete /\ DisconnectHeld
  BY DEF Inv, Base, Forms
<1>2. Frame(t)
  BY <1>1, FrameBegin
<1>3. TypeOK'
  BY KnownToThreads, TypesBegin DEF Inv
<1>4. MutexHeld' /\ DisconnectHeld' /\ Shapes' /\ Placed'
  BY <1>1, <1>2, MutexBegin, DisconnectBegin, ShapesBegin, PlacedBegin
<1>5. Entering' /\ ConnectionsFit' /\ Forms'
  BY <1>1, <1>2, EnteringBegin, FitBegin, FormsBegin
<1>6. UsersCounted'
  BY <1>1, <1>2, <1>3, UsersBegin
<1>7. AllFit' /\ AllComplete' /\ PathsCounted' /\ NamesCounted'
  BY <1>1, <1>2, FitsBegin, CompleteBegin, PathsBegin, NamesBegin
<1> QED
  BY <1>3, <1>4, <1>5, <1>6, <1>7 DEF Inv, Forms

\* A call that begins or ends in a dispatch thread keeps the invariant.
LEMMA InvDispatch ==
  ASSUME Inv
  PROVE  /\ \A g \in Connections, x \in Addresses : Receive(g, x) => Inv'
         /\ \A g \in Connections : Reply(g) => Inv'
<1>1. Base /\ Forms /\ ConnectionsFit /\ UsersCounted /\ Entering /\ AllFit /\ PathsCounted
      /\ NamesCounted /\ AllComplete /\ DisconnectHeld /\ TypeOK
  BY DEF Inv, Base, Forms
<1>2. ASSUME NEW g \in Connections, NEW x \in Addresses, Receive(g, x) PROVE Inv'
  <2>1. TypeOK'
    BY <1>1, <1>2, TypesDispatch
  <2>2. MutexHeld' /\ DisconnectHeld' /\ Shapes' /\ Placed'
    BY <1>1, <1>2, MutexDispatch, DisconnectDispatch, ShapesDispatch, PlacedDispatch
  <2>3. Entering' /\ ConnectionsFit' /\ Forms' /\ UsersCounted'
    BY <1>1, <1>2, <2>1, EnteringDispatch, FitDispatch, FormsDispatch, UsersDispatch
  <2>4. AllFit' /\ AllComplete' /\ PathsCounted' /\ NamesCounted'
    BY <1>1, <1>2, FitsDispatch, CompleteDispatch, PathsDispatch, NamesDispatch
  <2> QED
    BY <2>1, <2>2, <2>3, <2>4 DEF Inv, Forms
<1>3. ASSUME NEW g \in Connections, Reply(g) PROVE Inv'
  <2>1. TypeOK'
    BY <1>1, <1>3, TypesDispatch
  <2>2. MutexHeld' /\ DisconnectHeld' /\ Shapes' /\ Placed'
    BY <1>1, <1>3, MutexDispatch, DisconnectDispatch, ShapesDispatch, PlacedDispatch
  <2>3. Entering' /\ ConnectionsFit' /\ Forms' /\ UsersCounted'
    BY <1>1, <1>3, <2>1, EnteringDispatch, FitDispatch, FormsDispatch, UsersDispatch
  <2>4. AllFit' /\ AllComplete' /\ PathsCounted' /\ NamesCounted'
    BY <1>1, <1>3, FitsDispatch, CompleteDispatch, PathsDispatch, NamesDispatch
  <2> QED
    BY <2>1, <2>2, <2>3, <2>4 DEF Inv, Forms
<1> QED
  BY <1>2, <1>3

\* A stuttering step keeps the invariant.
LEMMA InvStutters ==
  ASSUME Inv, UNCHANGED vars
  PROVE  Inv'
<1>0. /\ current' = current /\ services' = services /\ servicesMutex' = servicesMutex
      /\ connectionsMutex' = connectionsMutex /\ manager' = manager /\ conn' = conn
      /\ home' = home /\ proxies' = proxies /\ handling' = handling /\ proc' = proc
      /\ owner' = owner /\ heard' = heard /\ promised' = promised /\ tainted' = tainted
      /\ destroyed' = destroyed /\ failures' = failures
  BY DEF vars
<1>1. TypeOK'
  BY <1>0 DEF Inv, TypeOK
<1>2. MutexHeld' /\ DisconnectHeld' /\ Shapes' /\ Placed'
  BY <1>0 DEF Inv, MutexHeld, DisconnectHeld, Locked, Shapes, Shape, Placed, Tab
<1>3. Entering' /\ ConnectionsFit' /\ HeardForm' /\ ExportedForm'
  BY <1>0 DEF Inv, Entering, Tab, ConnectionsFit, HeardForm, ExportedForm
<1>8. /\ \A x : Holder(x)' = Holder(x) /\ Line(x)' = Line(x)
      /\ \A g, x : Tab(g, x)' = Tab(g, x)
  BY <1>0 DEF Holder, Line, Stage, Tab
<1>4. UsersCounted'
  <2>1. \A g : Entries(g)' = Entries(g)
    BY <1>0, <1>8 DEF Entries, Uncounted
  <2>2. \A g : Takers(g)' = Takers(g)
    BY <1>0 DEF Takers
  <2>3. \A g : Leftover(g)' = Leftover(g)
    BY <1>0, <1>8 DEF Leftover
  <2>4. \A g : Spare(g)' = Spare(g)
    BY <1>8 DEF Spare, Owing
  <2> QED
    BY <1>0, <2>1, <2>2, <2>3, <2>4 DEF Inv, UsersCounted
<1>5. AllFit'
  BY <1>0 DEF Inv, AllFit, Fits, Listed, AtRoot, Tab, Holder, Line, Stage
<1>6. PathsCounted' /\ NamesCounted'
  <2>1. \A g, p :
          EnteredOf(g, p)' = EnteredOf(g, p) /\ EnteredManaging(g, p)' = EnteredManaging(g, p)
    BY <1>8 DEF EnteredOf, EnteredManaging
  <2>2. \A g, n : Named(g, n)' = Named(g, n)
    BY <1>0, <1>8 DEF Named
  <2>3. PathsCounted'
    BY <1>0, <2>1 DEF Inv, PathsCounted, PathSound
  <2>4. NamesCounted'
    BY <1>0, <2>2 DEF Inv, NamesCounted, NameSound
  <2> QED
    BY <2>3, <2>4
<1>7. AllComplete'
  BY <1>0 DEF Inv, AllComplete, Sound, PathSound, NameSound, Tab, Holder, Line, Stage
<1> QED
  BY <1>1, <1>2, <1>3, <1>4, <1>5, <1>6, <1>7 DEF Inv

\* The invariant holds in every state.
THEOREM Inductive ==
  Spec => []Inv
<1>1. Init => Inv
  BY InvInit
<1>2. Inv /\ [Next]_vars => Inv'
  BY InvContinue, InvBegin, InvDispatch, InvStutters DEF Next
<1> QED
  BY <1>1, <1>2, PTL DEF Spec

\* Every variable keeps its type: Factory's tables, the object managers, the
\* counts of the connections, the threads and the peers.
THEOREM TypeCorrect ==
  Spec => []TypeOK
<1>1. Inv => TypeOK
  BY DEF Inv
<1> QED
  BY <1>1, Inductive, PTL

\* With the invariant no threads wait for each other in a circle.
LEMMA Circle ==
  ASSUME Inv
  PROVE  NobodyStuck
<1>0. /\ TypeOK /\ Shapes /\ None \notin Actors
      /\ \A t \in Actors : proc[t].pc = "close" <=> connectionsMutex = t
      /\ connectionsMutex # None => current = 0
      /\ \A t \in Actors : Locked(proc[t]) <=> servicesMutex = t
  BY ServicesAssumption DEF Inv, DisconnectHeld, MutexHeld
<1> SUFFICES ASSUME NEW S \in SUBSET Actors, S # {},
                    \A t \in S : WaitsFor(t) \cap S # {} /\ ~Late(t)
             PROVE  FALSE
  BY DEF NobodyStuck
<1>1. ASSUME NEW t \in S, proc[t].pc \in {"decrement", "count"} PROVE FALSE
  <2>1. connectionsMutex \in Actors
    BY <1>1 DEF WaitsFor
  <2>2. proc[t].conn # 0
    BY <1>0, <1>1 DEF Shapes, Shape, Building
  <2> QED
    BY <1>0, <1>1, <2>1, <2>2 DEF Late
<1>2. ASSUME NEW t \in S, proc[t].pc \in {"insert", "enlist", "unlist", "unregister", "destroy"}
      PROVE  FALSE
  <2>1. servicesMutex \in S
    BY <1>2 DEF WaitsFor
  <2>2. Locked(proc[servicesMutex])
    BY <1>0, <2>1
  <2>3. proc[servicesMutex].pc \in {"decrement", "count"}
    BY <2>1, <2>2 DEF Locked, LockedLines, WaitsFor
  <2> QED
    BY <1>1, <2>1, <2>3
<1>3. \A t \in S : proc[t].pc = "close"
  BY <1>1, <1>2 DEF WaitsFor
<1>4. PICK t \in S : TRUE
  OBVIOUS
<1>5. PICK u \in S : u # t
  BY DEF WaitsFor
<1> QED
  BY <1>0, <1>3, <1>4, <1>5

\* What the invariant says of a settled address.
LEMMA SettledAt ==
  ASSUME Inv, NEW x \in Addresses, Settled(x)
  PROVE  /\ x \notin tainted /\ Fits(x) /\ Sound(x)
         /\ Holder(x) = Idle /\ Line(x) = "idle"
<1>1. x \notin tainted /\ \A t \in Actors : proc[t].address # x
  BY DEF Settled
<1>2. Fits(x)
  BY <1>1 DEF Inv, AllFit
<1>3. Sound(x)
  BY DEF Settled, Sound, PathSound, NameSound, OfPath, OfName
<1>4. Holder(x) = Idle /\ Line(x) = "idle"
  BY <1>1 DEF Holder, Line, Stage, Idle, Inv, TypeOK
<1> QED
  BY <1>1, <1>2, <1>3, <1>4

\* The connection of a settled service is the one of Factory, and open.
LEMMA ConnectionAt ==
  ASSUME Inv, NEW x \in Addresses, Settled(x), services[x] # None
  PROVE  /\ services[x] \in Adapters /\ AddressOf[services[x]] = x
         /\ home[services[x]] \in Connections /\ current = home[services[x]]
         /\ conn[home[services[x]]].open /\ ~conn[home[services[x]]].closing
<1>1. /\ services[x] \in Adapters /\ AddressOf[services[x]] = x
      /\ home[services[x]] \in Connections
  BY Registered DEF Inv, Base
<1>2. PICK g \in Connections : g = home[services[x]]
  BY <1>1
<1>3. x \notin tainted /\ Holder(x).pc = "idle"
  BY SettledAt DEF Idle
<1>4. x \in Entries(g)
  BY <1>2, <1>3, UserSets DEF EntryAt
<1>5. ~conn[g].closing
  BY <1>3, <1>4, UserParts DEF UsersAt, Inv
<1>6. conn[g].open
  BY <1>1, <1>2, <1>5, Numbered DEF Inv, Placed
<1> QED
  BY <1>1, <1>2, <1>5, <1>6 DEF Inv, ConnectionsFit

\* With the invariant a connection that is used stays open.
LEMMA KeptOpen ==
  ASSUME Inv
  PROVE  ConnectionKept
<1>1. ASSUME NEW g \in Connections
      PROVE  /\ proxies[g] > 0 => current = g /\ conn[g].open /\ ~conn[g].closing
             /\ handling[g] # None /\ ~conn[g].open => conn[g].closer = DispatcherOf[g]
  BY Numbered DEF Inv, ConnectionsFit
<1>2. \A x \in Addresses : Settled(x) /\ services[x] # None =>
        LET g == home[services[x]] IN current = g /\ conn[g].open /\ ~conn[g].closing
  BY ConnectionAt
<1> QED
  BY <1>1, <1>2 DEF ConnectionKept

\* A table without repetitions, with one adapter or none.
LEMMA OneEntry ==
  ASSUME TypeOK, Placed, NEW g \in Connections, NEW x \in Addresses, NEW a,
         Tab(g, x) \subseteq {a}
  PROVE  /\ Len(manager[g].table[x]) <= 1
         /\ Tab(g, x) # {} => manager[g].table[x] = <<a>>
<1> DEFINE s == manager[g].table[x]
<1>0. /\ s \in Seq(Adapters) /\ IsInjective(s)
      /\ Tab(g, x) = Range(s) /\ (Tab(g, x) = {} <=> s = <<>>)
  <2>1. s \in Seq(Adapters)
    BY DEF TypeOK, Manager
  <2>2. IsInjective(s)
    BY DEF Placed
  <2> QED
    BY <2>1, <2>2, TableEmpty DEF Tab
<1>a. DOMAIN s = 1..Len(s) /\ Len(s) \in Nat /\ (s = <<>> <=> Len(s) = 0)
  BY <1>0, EmptySeq, LenProperties
<1> HIDE DEF s
<1>1. s \in Seq(Adapters) /\ IsInjective(s)
  BY <1>0
<1>2. \A i \in 1..Len(s) : s[i] = a
  BY <1>0, <1>a DEF Range
<1>3. Len(s) <= 1
  <2>1. ASSUME Len(s) >= 2 PROVE FALSE
    <3>1. s[1] = s[2] /\ 1 \in DOMAIN s /\ 2 \in DOMAIN s
      BY <1>1, <1>2, <2>1
    <3> QED
      BY <1>1, <3>1 DEF IsInjective
  <2>2. Len(s) \in Nat
    BY <1>1
  <2> QED
    BY <2>1, <2>2
<1>4. ASSUME Tab(g, x) # {} PROVE s = <<a>>
  <2>1. Len(s) # 0
    BY <1>0, <1>a, <1>4
  <2>2. Len(s) = 1
    BY <1>a, <1>3, <2>1
  <2>3. s[1] = a
    BY <1>2, <2>2
  <2>4. a \in Adapters
    BY <1>1, <2>2, <2>3
  <2> QED
    BY <1>1, <2>2, <2>3, <2>4
<1> QED
  BY <1>0, <1>3, <1>4 DEF s

\* With the invariant a settled address without service has left no trace.
LEMMA GoneAbsent ==
  ASSUME Inv, NEW x \in Addresses, Settled(x), services[x] = None
  PROVE  Absent(x)
<1>1. Fits(x) /\ ~Listed(x) /\ None \notin Adapters
  BY SettledAt, ServicesAssumption DEF Listed
<1>2. TypeOK
  BY DEF Inv
<1>3. At_(x) \cap promised = {}
  BY <1>1 DEF Fits, At_
<1>4. ASSUME NEW g \in Connections
      PROVE  /\ manager[g].table[x] = <<>>
             /\ manager[g].exported[Root] \cap At_(x) = {} /\ Entry(x) \notin heard[g]
  <2>1. Tab(g, x) \subseteq {None} /\ AtRoot(g, x) = {} /\ Entry(x) \notin heard[g]
    BY <1>1 DEF Fits
  <2>2. Tab(g, x) = {}
    BY <1>1, <1>2, <2>1, Typed
  <2> QED
    BY <1>2, <2>1, <2>2, TableEmpty DEF AtRoot
<1> QED
  BY <1>3, <1>4 DEF Absent

\* With the invariant a settled service is in every table.
LEMMA There ==
  ASSUME Inv, NEW x \in Addresses, Settled(x), services[x] # None
  PROVE  Offered(x)
<1>1. PICK a \in Adapters : a = services[x] /\ AddressOf[a] = x
  BY ConnectionAt
<1>2. PICK g \in Connections : g = home[a] /\ conn[g].open /\ ~conn[g].closing
  BY <1>1, ConnectionAt
<1>3. /\ TypeOK /\ Placed /\ PathOf[x] \in Paths /\ NameOf[x] \in Names
  BY ServicesAssumption DEF Inv
<1>4. Fits(x) /\ Sound(x) /\ Line(x) = "idle"
  BY SettledAt
<1>5. a \in promised /\ Tab(g, x) # {}
  BY <1>1, <1>2, <1>4 DEF Inv, AllComplete
<1>6. Tab(g, x) = {a}
  BY <1>1, <1>4, <1>5 DEF Fits
<1>7. manager[g].table[x] = <<a>> /\ manager[g].table[x] # <<>>
  <2>1. manager[g].table[x] = <<a>>
    BY <1>3, <1>6, OneEntry
  <2>2. manager[g].table[x] # <<>>
    BY <1>3, <1>5, TableEmpty
  <2> QED
    BY <2>1, <2>2
<1>8. conn[g].paths[PathOf[x]] > 0
  <2>1. conn[g].paths[PathOf[x]] = Cardinality(EnteredOf(g, PathOf[x]))
    BY <1>3, <1>4 DEF Inv, PathsCounted, Sound
  <2>2. x \in EnteredOf(g, PathOf[x])
    BY <1>5 DEF EnteredOf, OfPath
  <2> QED
    BY <2>1, <2>2, SetsOfPath, NotEmpty
<1>9. a \in Managing => manager[g].count[PathOf[x]] > 0
  <2>1. manager[g].count[PathOf[x]] = Cardinality(EnteredManaging(g, PathOf[x]))
    BY <1>3, <1>4 DEF Inv, PathsCounted, Sound
  <2>2. a \in Managing => x \in EnteredManaging(g, PathOf[x])
    BY <1>6 DEF EnteredManaging, OfPath
  <2> QED
    BY <2>1, <2>2, SetsOfPath, NotEmpty
<1>10. conn[g].names[NameOf[x]] > 0 /\ owner[NameOf[x]] = g
  <2>1. conn[g].names[NameOf[x]] = Cardinality(Named(g, NameOf[x]))
    BY <1>2, <1>3, <1>4 DEF Inv, NamesCounted, Sound
  <2>2. x \in Named(g, NameOf[x])
    BY <1>1, <1>2, <1>4, ServicesAssumption DEF Named, OfName
  <2>3. conn[g].names[NameOf[x]] > 0
    BY <2>1, <2>2, NamedSet, SetsOfAddresses, NotEmpty
  <2> QED
    BY <1>2, <1>3, <2>3 DEF Inv, NamesCounted
<1>11. a \notin Managed => a \in manager[g].exported[Root] /\ Entry(x) \in heard[g]
  <2>1. ASSUME a \notin Managed PROVE Listed(x)
    BY <1>1, <1>4, <2>1, ServicesAssumption DEF Listed
  <2>2. ASSUME a \notin Managed PROVE AtRoot(g, x) = {a} /\ Entry(x) \in heard[g]
    BY <1>1, <1>2, <1>4, <2>1, <2>2 DEF Fits
  <2> QED
    BY <2>2 DEF AtRoot
<1>12. /\ x \in Introspect(g, PathOf[x]) /\ PathOf[x] \in IntrospectRoot(g)
       /\ a \in Managing => "ObjectManager" \in Introspect(g, PathOf[x])
  <2>1. x \in Introspect(g, PathOf[x])
    BY <1>7 DEF Introspect
  <2>2. a \in Managing => "ObjectManager" \in Introspect(g, PathOf[x])
    BY <1>9 DEF Introspect
  <2> QED
    BY <1>3, <2>1, <2>2 DEF IntrospectRoot
<1> QED
  BY <1>1, <1>2, <1>5, <1>7, <1>8, <1>10, <1>11, <1>12 DEF Offered

\* Both together: the tables agree.
LEMMA Agreed ==
  ASSUME Inv
  PROVE  TablesAgree
  BY GoneAbsent, There DEF TablesAgree

\* The counts of a path whose addresses are settled are exact.
LEMMA PathsExact ==
  ASSUME Inv, NEW g \in Connections, NEW p \in Paths, \A x \in OfPath(p) : Settled(x)
  PROVE  /\ \A x \in OfPath(p) : Len(manager[g].table[x]) <= 1
         /\ conn[g].paths[p]
              = Cardinality({x \in OfPath(p) : manager[g].table[x] # <<>>})
         /\ manager[g].count[p]
              = Cardinality({x \in OfPath(p) :
                              \E i \in DOMAIN manager[g].table[x] :
                                manager[g].table[x][i] \in Managing})
         /\ conn[g].paths[p] > 0 <=> ~(Introspect(g, p) \subseteq {"Properties"})
<1>0. TypeOK /\ Placed /\ OfPath(p) \subseteq Addresses
  BY DEF Inv, OfPath
<1>1. PathSound(p) /\ \A x \in OfPath(p) : Fits(x)
  BY <1>0, SettledAt DEF PathSound
<1>2. \A x \in OfPath(p) : Len(manager[g].table[x]) <= 1
  BY <1>0, <1>1, OneEntry DEF Fits
<1>3. /\ conn[g].paths[p] = Cardinality(EnteredOf(g, p))
      /\ manager[g].count[p] = Cardinality(EnteredManaging(g, p))
  BY <1>1 DEF Inv, PathsCounted
<1>4. EnteredOf(g, p) = {x \in OfPath(p) : manager[g].table[x] # <<>>}
  BY <1>0, TableEmpty DEF EnteredOf
<1>5. EnteredManaging(g, p) = {x \in OfPath(p) : \E i \in DOMAIN manager[g].table[x] :
                                                   manager[g].table[x][i] \in Managing}
  BY DEF EnteredManaging, Tab, Range
<1>6. /\ conn[g].paths[p] > 0 <=> EnteredOf(g, p) # {}
      /\ manager[g].count[p] > 0 => EnteredOf(g, p) # {}
  <2>1. /\ IsFiniteSet(EnteredOf(g, p)) /\ IsFiniteSet(EnteredManaging(g, p))
        /\ Cardinality(EnteredOf(g, p)) \in Nat /\ Cardinality(EnteredManaging(g, p)) \in Nat
    BY SetsOfPath
  <2>2. /\ Cardinality(EnteredOf(g, p)) = 0 <=> EnteredOf(g, p) = {}
        /\ Cardinality(EnteredManaging(g, p)) = 0 <=> EnteredManaging(g, p) = {}
    BY <2>1, FS_EmptySet
  <2>3. EnteredManaging(g, p) \subseteq EnteredOf(g, p)
    BY DEF EnteredManaging, EnteredOf
  <2> QED
    BY <1>3, <2>1, <2>2, <2>3
<1>7. EnteredOf(g, p) # {} <=> ~(Introspect(g, p) \subseteq {"Properties"})
  <2>1. ASSUME NEW x \in EnteredOf(g, p) PROVE x \in Introspect(g, p) /\ x # "Properties"
    BY <1>0, <1>4, <2>1, ServicesAssumption DEF Introspect, OfPath
  <2>2. ASSUME NEW e \in Introspect(g, p), e # "Properties" PROVE EnteredOf(g, p) # {}
    BY <1>4, <1>6, <2>2 DEF Introspect, OfPath
  <2> QED
    BY <2>1, <2>2
<1> QED
  BY <1>2, <1>3, <1>4, <1>5, <1>6, <1>7

\* The counts of a name whose addresses are settled are exact.
LEMMA NamesExact ==
  ASSUME Inv, NEW g \in Connections, NEW n \in Names, ~conn[g].closing,
         NEW S, S = {x \in Addresses : NameOf[x] = n}, \A x \in S : Settled(x)
  PROVE  conn[g].names[n] = Users(g, S)
<1>1. NameSound(n)
  BY SettledAt DEF NameSound, OfName
<1>2. \A x \in S : Line(x) = "idle"
  BY SettledAt
<1>3. Named(g, n) = {x \in S : services[x] # None /\ home[services[x]] = g}
  BY <1>2 DEF Named, OfName
<1> QED
  BY <1>1, <1>3 DEF Inv, NamesCounted, Users

\* What GetManagedObjects of "/" says of a service.
LEMMA ServiceListed ==
  ASSUME Inv, NEW g \in Connections, NEW x \in Addresses, AtRoot(g, x) \subseteq {services[x]}
  PROVE  /\ Entry(x) \in GetManagedObjects(g, Root) <=> AtRoot(g, x) # {}
         /\ OnlyManaging(x) => (ManagerEntry(x) \in GetManagedObjects(g, Root)
              <=> AtRoot(g, x) # {} /\ services[x] \in Managing)
<1> DEFINE E == manager[g].exported[Root]
<1>1. /\ E \subseteq Adapters /\ TypeOK
      /\ \A a \in E : AddressOf[a] \in Addresses /\ AddressOf[a] # "ObjectManager"
      /\ \A y \in Addresses : y # "ObjectManager"
      /\ AtRoot(g, x) = {a \in E : AddressOf[a] = x}
  <2>1. E \subseteq Adapters /\ TypeOK
    BY Typed DEF Inv, Manager
  <2> QED
    BY <2>1, ServicesAssumption DEF AtRoot, At_
<1>2. ASSUME NEW a \in E
      PROVE  /\ Entry(x) \in Interfaces(a) <=> AddressOf[a] = x
             /\ ManagerEntry(x) \in Interfaces(a)
                  <=> a \in Managing /\ PathOf[AddressOf[a]] = PathOf[x]
  BY <1>1, <1>2 DEF Interfaces, Entry, ManagerEntry
<1> HIDE DEF E
<1>3. /\ Entry(x) \in GetManagedObjects(g, Root) <=> \E a \in E : Entry(x) \in Interfaces(a)
      /\ ManagerEntry(x) \in GetManagedObjects(g, Root)
           <=> \E a \in E : ManagerEntry(x) \in Interfaces(a)
  BY DEF GetManagedObjects, E
<1>4. Entry(x) \in GetManagedObjects(g, Root) <=> AtRoot(g, x) # {}
  BY <1>1, <1>2, <1>3
<1>5. ASSUME OnlyManaging(x)
      PROVE  ManagerEntry(x) \in GetManagedObjects(g, Root)
               <=> AtRoot(g, x) # {} /\ services[x] \in Managing
  <2>1. \A a \in E : a \in Managing /\ PathOf[AddressOf[a]] = PathOf[x]
                       => AddressOf[a] = x
    BY <1>1, <1>5 DEF OnlyManaging, OfPath
  <2> QED
    BY <1>1, <1>2, <1>3, <2>1
<1> QED
  BY <1>4, <1>5

\* Peers know of a service what GetManagedObjects says of it.
LEMMA ServiceFollowed ==
  ASSUME Inv, NEW g \in Connections, conn[g].open, NEW x \in Addresses \ tainted
  PROVE  /\ Entry(x) \in heard[g] <=> Entry(x) \in GetManagedObjects(g, Root)
         /\ OnlyManaging(x) =>
              (ManagerEntry(x) \in heard[g] <=> ManagerEntry(x) \in GetManagedObjects(g, Root))
<1>1. Fits(x)
  BY DEF Inv, AllFit
<1>2. /\ AtRoot(g, x) = IF Listed(x) /\ home[services[x]] = g THEN {services[x]} ELSE {}
      /\ Entry(x) \in heard[g] <=> Listed(x) /\ home[services[x]] = g
      /\ OnlyManaging(x) => (ManagerEntry(x) \in heard[g]
           <=> Listed(x) /\ home[services[x]] = g /\ services[x] \in Managing)
  BY <1>1 DEF Fits
<1> QED
  BY <1>2, ServiceListed

\* An entry that is followed is that of a service, or of the only managing one
\* of its path.
LEMMA FollowedEntry ==
  ASSUME Inv, NEW g \in Connections, NEW X, X \in {heard[g], GetManagedObjects(g, Root)},
         NEW e \in Followed(X)
  PROVE  \E x \in Addresses : \/ e = Entry(x)
                              \/ e = ManagerEntry(x) /\ OnlyManaging(x)
<1>1. /\ e \in X /\ e.interface # "Properties"
      /\ e.interface = "ObjectManager" =>
           Cardinality({AddressOf[a] : a \in Managing} \cap OfPath(e.path)) = 1
  BY DEF Followed
<1>2. e \in Interface /\ (e.interface \in Addresses => e.path = PathOf[e.interface])
  <2>1. CASE X = heard[g]
    BY <1>1, <2>1 DEF Inv, TypeOK, HeardForm
  <2>2. CASE X = GetManagedObjects(g, Root)
    <3>1. manager[g].exported[Root] \subseteq Adapters
      BY Typed DEF Inv, Manager
    <3>2. PICK a \in Adapters : e \in Interfaces(a)
      BY <1>1, <2>2, <3>1 DEF GetManagedObjects
    <3>3. /\ e = [path |-> PathOf[AddressOf[a]], interface |-> e.interface]
          /\ e.interface \in {AddressOf[a], "ObjectManager"}
      BY <3>2 DEF Interfaces
    <3>4. AddressOf[a] \in Addresses /\ PathOf[AddressOf[a]] \in Paths
          /\ "ObjectManager" \notin Addresses
      BY ServicesAssumption
    <3>5. e \in Interface
      BY <3>3, <3>4 DEF Interface
    <3> QED
      BY <3>3, <3>4, <3>5
  <2> QED
    BY <2>1, <2>2
<1>3. CASE e.interface \in Addresses
  BY <1>2, <1>3 DEF Entry, Interface
<1>4. CASE e.interface = "ObjectManager"
  <2> DEFINE S == {AddressOf[a] : a \in Managing} \cap OfPath(e.path)
  <2>1. IsFiniteSet(S) /\ S \subseteq Addresses
    BY ServicesAssumption, FS_Subset DEF OfPath
  <2>2. Cardinality(S) = 1
    BY <1>1, <1>4
  <2> HIDE DEF S
  <2>3. PICK x \in S : S = {x}
    <3>1. S # {}
      BY <2>2, FS_EmptySet
    <3>2. PICK x \in S : TRUE
      BY <3>1
    <3>3. Cardinality(S \ {x}) = 0 /\ IsFiniteSet(S \ {x})
      BY <2>1, <2>2, FS_RemoveElement
    <3>4. S \ {x} = {}
      BY <3>3, FS_EmptySet
    <3> QED
      BY <3>2, <3>4
  <2>4. x \in Addresses /\ PathOf[x] = e.path
    BY <2>3 DEF S, OfPath
  <2>5. OnlyManaging(x)
    BY <2>3, <2>4 DEF S, OnlyManaging
  <2>6. e = ManagerEntry(x)
    BY <1>2, <1>4, <2>4 DEF ManagerEntry, Interface
  <2> QED
    BY <2>4, <2>5, <2>6
<1> QED
  BY <1>1, <1>2, <1>3, <1>4 DEF Interface

\* Peers that follow the signals know what GetManagedObjects lists.
LEMMA FollowedExact ==
  ASSUME Inv, NEW g \in Connections, conn[g].open, tainted = {}
  PROVE  Followed(heard[g]) = Followed(GetManagedObjects(g, Root))
<1> DEFINE G == GetManagedObjects(g, Root)
<1>1. ASSUME NEW x \in Addresses
      PROVE  /\ Entry(x) \in heard[g] <=> Entry(x) \in G
             /\ OnlyManaging(x) => (ManagerEntry(x) \in heard[g] <=> ManagerEntry(x) \in G)
  BY ServiceFollowed
<1>2. \A e \in Followed(heard[g]) : e \in G
  BY <1>1, FollowedEntry DEF Followed
<1>3. \A e \in Followed(G) : e \in heard[g]
  BY <1>1, FollowedEntry DEF Followed
<1> QED
  BY <1>2, <1>3 DEF Followed

\* All counts are exact.
LEMMA Counted ==
  ASSUME Inv
  PROVE  CountsExact
  BY PathsExact, NamesExact, FollowedExact DEF CountsExact

\* servicesMutex_, connectionsMutex_ and the end of the dispatch are never waited
\* for in a circle, whatever threads register, unregister and disconnect.
THEOREM NobodyEverStuck ==
  Spec => []NobodyStuck
  BY Inductive, Circle, PTL

\* Registrations, unregistrations and their rollbacks leave exact tables and exact
\* counts, and the connection that they need, for any number of threads,
\* adapters and addresses.
THEOREM RegistrationsAlwaysAgree ==
  Spec => []RegistrationsAgree
<1>1. Inv => RegistrationsAgree
  BY Agreed, Counted, KeptOpen DEF RegistrationsAgree
<1> QED
  BY <1>1, Inductive, PTL

-----------------------------------------------------------------------------
(* PathOf and NameOf of a service are what DBusAddressTranslator answers   *)
(* for its address.  For any configuration and any threads, no order of    *)
(* translations, announcements and destructions gives an address the       *)
(* D-Bus address of another one.                                           *)

\* The parts of AnswersFounded.
Configured == \A a \in DOMAIN persistent \ late :
                a \in DOMAIN forwards /\ forwards[a] = persistent[a]
Founded == \A a \in DOMAIN forwards \ DOMAIN persistent :
             forwards[a] = Default(a) \/ Back(forwards[a]) = a

LEMMA DefaultUnchanged ==
  ASSUME UNCHANGED config
  PROVE  \A a : Default(a)' = Default(a)
  BY DEF Default, Compatible

\* What the two parts are kept by: the configured answers stay, and a new
\* answer is the default or reads back.
LEMMA GrowthKeeps ==
  ASSUME Configured, Founded, UNCHANGED <<config, persistent, late>>,
         DOMAIN forwards \subseteq DOMAIN forwards',
         \A k \in DOMAIN forwards : forwards'[k] = forwards[k],
         \A k \in DOMAIN forwards' \ DOMAIN forwards :
           forwards'[k] = Default(k) \/ Back(forwards'[k]) = k
  PROVE  Configured' /\ Founded'
<1>1. Configured'
  BY DEF Configured
<1>2. ASSUME NEW k \in DOMAIN forwards' \ DOMAIN persistent'
      PROVE  forwards'[k] = Default(k)' \/ Back(forwards'[k]) = k
  <2>1. Default(k)' = Default(k)
    BY DefaultUnchanged
  <2> QED
    BY <2>1 DEF Founded
<1>3. Founded'
  BY <1>2 DEF Founded
<1> QED
  BY <1>1, <1>3

LEMMA InsertKeeps ==
  ASSUME NEW a, NEW d, Configured, Founded, InsertEntry(a, d), UNCHANGED config
  PROVE  Configured' /\ Founded'
<1>1. CASE ValidDBus(d)
  <2>1. /\ DOMAIN persistent' = DOMAIN persistent \cup {a}
        /\ \A k \in DOMAIN persistent \ {a} : persistent'[k] = persistent[k]
        /\ persistent'[a] = d
    BY <1>1 DEF InsertEntry, Assign
  <2>2. /\ \/ DOMAIN forwards' = DOMAIN forwards \cup {a}
           \/ forwards' = forwards
        /\ \A k \in DOMAIN forwards : forwards'[k] = forwards[k]
        /\ late \subseteq late'
    BY <1>1 DEF InsertEntry, Extend
  <2>3. a \in late' \/ (a \in DOMAIN forwards' /\ forwards'[a] = d)
    BY <1>1 DEF InsertEntry, Extend
  <2>4. Configured'
    BY <2>1, <2>2, <2>3 DEF Configured
  <2>5. ASSUME NEW k \in DOMAIN forwards' \ DOMAIN persistent'
        PROVE  forwards'[k] = Default(k)' \/ Back(forwards'[k]) = k
    <3>1. k \in DOMAIN forwards \ DOMAIN persistent /\ forwards'[k] = forwards[k]
      BY <2>1, <2>2
    <3>2. Default(k)' = Default(k)
      BY DefaultUnchanged
    <3> QED
      BY <3>1, <3>2 DEF Founded
  <2>6. Founded'
    BY <2>5 DEF Founded
  <2> QED
    BY <2>4, <2>6
<1>2. CASE ~ValidDBus(d)
  <2>1. UNCHANGED <<persistent, forwards, late>>
    BY <1>2 DEF InsertEntry
  <2> QED
    BY <2>1, GrowthKeeps
<1> QED
  BY <1>1, <1>2

LEMMA RememberForwardKeeps ==
  ASSUME NEW a, Configured, Founded, RememberForward(a),
         UNCHANGED <<config, persistent, late>>
  PROVE  Configured' /\ Founded'
<1>1. DOMAIN forwards \subseteq DOMAIN forwards'
  BY DEF RememberForward, Extend
<1>2. \A k \in DOMAIN forwards : forwards'[k] = forwards[k]
  BY DEF RememberForward, Extend
<1>3. \A k \in DOMAIN forwards' \ DOMAIN forwards : forwards'[k] = Default(k)
  BY DEF RememberForward, Extend
<1> QED
  BY <1>1, <1>2, <1>3, GrowthKeeps

LEMMA RememberBackwardKeeps ==
  ASSUME NEW d, Configured, Founded, RememberBackward(d),
         UNCHANGED <<config, persistent, late>>
  PROVE  Configured' /\ Founded'
<1>1. DOMAIN forwards \subseteq DOMAIN forwards'
  BY DEF RememberBackward, Extend
<1>2. \A k \in DOMAIN forwards : forwards'[k] = forwards[k]
  BY DEF RememberBackward, Extend
<1>3. \A k \in DOMAIN forwards' \ DOMAIN forwards : Back(forwards'[k]) = k
  BY DEF RememberBackward, Extend
<1> QED
  BY <1>1, <1>2, <1>3, GrowthKeeps

LEMMA RemoveEntryKeeps ==
  ASSUME NEW a, Configured, Founded, RemoveEntry(a),
         UNCHANGED <<config, persistent, late>>
  PROVE  Configured' /\ Founded'
<1>1. CASE UNCHANGED forwards
  BY <1>1, GrowthKeeps
<1>2. CASE a \notin DOMAIN persistent /\ forwards' = Without(forwards, a)
  <2>1. /\ DOMAIN forwards' = DOMAIN forwards \ {a}
        /\ \A k \in DOMAIN forwards \ {a} : forwards'[k] = forwards[k]
    BY <1>2 DEF Without
  <2>2. Configured'
    BY <1>2, <2>1 DEF Configured
  <2>3. ASSUME NEW k \in DOMAIN forwards' \ DOMAIN persistent'
        PROVE  forwards'[k] = Default(k)' \/ Back(forwards'[k]) = k
    <3>1. Default(k)' = Default(k)
      BY DefaultUnchanged
    <3> QED
      BY <2>1, <3>1 DEF Founded
  <2>4. Founded'
    BY <2>3 DEF Founded
  <2> QED
    BY <2>2, <2>4
<1> QED
  BY <1>1, <1>2 DEF RemoveEntry

-----------------------------------------------------------------------------
\* Safety: whatever is built, announced and destroyed, in any order, an
\* address that the file maps keeps its mapping unless it came late, and every
\* other answer belongs to the address.
THEOREM AnswersAlwaysFounded == TranslatorSpec => []AnswersFounded
<1> DEFINE Good == Configured /\ Founded
<1>1. TranslatorInit => Good
  BY DEF TranslatorInit, Configured, Founded
<1>2. Good /\ [TranslatorNext]_translatorVars => Good'
  <2> SUFFICES ASSUME Configured, Founded, [TranslatorNext]_translatorVars
               PROVE  Configured' /\ Founded'
    OBVIOUS
  <2>0. CASE UNCHANGED <<config, persistent, forwards, late>>
    BY <2>0, GrowthKeeps
  <2>1. CASE UNCHANGED translatorVars
    BY <2>1, <2>0 DEF translatorVars, tables, ghosts
  <2>2. ASSUME NEW section \in unread, ReadSection(section)
        PROVE  Configured' /\ Founded'
    BY <2>2, <2>0, InsertKeeps DEF ReadSection
  <2>3. ASSUME NEW u \in AddressUsers, NEW a \in Wanted, Build(u, a)
        PROVE  Configured' /\ Founded'
    BY <2>3, <2>0 DEF Build, tables, ghosts
  <2>4. ASSUME NEW u \in AddressUsers, FindUnversioned(u)
        PROVE  Configured' /\ Founded'
    BY <2>4, <2>0 DEF FindUnversioned, tables, ghosts
  <2>5. ASSUME NEW u \in AddressUsers, InsertUnversioned(u)
        PROVE  Configured' /\ Founded'
    BY <2>5, <2>0, InsertKeeps DEF InsertUnversioned
  <2>6. ASSUME NEW u \in AddressUsers, Answer(u)
        PROVE  Configured' /\ Founded'
    BY <2>6, <2>0, RememberForwardKeeps DEF Answer
  <2>7. ASSUME NEW u \in AddressUsers, Construct(u)
        PROVE  Configured' /\ Founded'
    BY <2>7, RememberBackwardKeeps DEF Construct, ghosts
  <2>8. ASSUME NEW u \in AddressUsers, LetGo(u)
        PROVE  Configured' /\ Founded'
    BY <2>8, <2>0 DEF LetGo, tables, ghosts
  <2>9. ASSUME NEW u \in AddressUsers, ForgetAddress(u)
        PROVE  Configured' /\ Founded'
    BY <2>9, <2>0, RemoveEntryKeeps DEF ForgetAddress
  <2>10. ASSUME NEW u \in AddressUsers, Register(u)
         PROVE  Configured' /\ Founded'
    BY <2>10, RememberBackwardKeeps DEF Register, ghosts
  <2>11. ASSUME NEW u \in AddressUsers, Unregister(u)
         PROVE  Configured' /\ Founded'
    BY <2>11, <2>0, RememberBackwardKeeps DEF Unregister, ghosts
  <2>12. ASSUME NEW d \in Announced, Announce(d)
         PROVE  Configured' /\ Founded'
    BY <2>12, RememberBackwardKeeps DEF Announce, ghosts
  <2> QED
    BY <2>1, <2>2, <2>3, <2>4, <2>5, <2>6, <2>7, <2>8, <2>9, <2>10, <2>11,
       <2>12 DEF TranslatorNext, Create, Subscribe, Unsubscribe
<1>3. Good => AnswersFounded
  BY DEF Configured, Founded, AnswersFounded
<1> QED
  BY <1>1, <1>2, <1>3, PTL DEF TranslatorSpec

-----------------------------------------------------------------------------
\* The types, and that a user is between the locks of translate only in a
\* stage that translates a CommonAPI address.
THEOREM TypesAlwaysOK == TranslatorSpec => []TranslatorTypeOK
<1>1. TranslatorInit => TranslatorTypeOK
  BY BoundAssumption DEF TranslatorInit, TranslatorTypeOK, Stages
<1>2. TranslatorTypeOK /\ [TranslatorNext]_translatorVars => TranslatorTypeOK'
  <2> SUFFICES ASSUME TranslatorTypeOK, [TranslatorNext]_translatorVars
               PROVE  TranslatorTypeOK'
    OBVIOUS
  <2> USE DEF TranslatorTypeOK, Stages, ForwardStages, Become, Gone
  <2>1. CASE UNCHANGED translatorVars
    BY <2>1 DEF translatorVars, tables, userVars, ghosts
  <2>2. ASSUME NEW section \in unread, ReadSection(section) PROVE TranslatorTypeOK'
    BY <2>2 DEF ReadSection, userVars
  <2>3. ASSUME NEW u \in AddressUsers, NEW a \in Wanted, Build(u, a)
        PROVE  TranslatorTypeOK'
    BY <2>3, WantedAssumption, BoundAssumption DEF Build
  <2>4. ASSUME NEW u \in AddressUsers, FindUnversioned(u) PROVE TranslatorTypeOK'
    BY <2>4 DEF FindUnversioned
  <2>5. ASSUME NEW u \in AddressUsers, InsertUnversioned(u)
        PROVE  TranslatorTypeOK'
    BY <2>5 DEF InsertUnversioned
  <2>6. ASSUME NEW u \in AddressUsers, Create(u) PROVE TranslatorTypeOK'
    BY <2>6 DEF Create, Answer
  <2>7. ASSUME NEW u \in AddressUsers, Construct(u) PROVE TranslatorTypeOK'
    BY <2>7 DEF Construct, ghosts
  <2>8. ASSUME NEW u \in AddressUsers, LetGo(u) PROVE TranslatorTypeOK'
    BY <2>8 DEF LetGo
  <2>9. ASSUME NEW u \in AddressUsers, ForgetAddress(u) PROVE TranslatorTypeOK'
    BY <2>9 DEF ForgetAddress
  <2>10. ASSUME NEW u \in AddressUsers, Register(u) PROVE TranslatorTypeOK'
    BY <2>10 DEF Register
  <2>11. ASSUME NEW u \in AddressUsers, Unregister(u) PROVE TranslatorTypeOK'
    BY <2>11 DEF Unregister
  <2>12. ASSUME NEW u \in AddressUsers, Subscribe(u) PROVE TranslatorTypeOK'
    BY <2>12 DEF Subscribe, Answer
  <2>13. ASSUME NEW u \in AddressUsers, Unsubscribe(u) PROVE TranslatorTypeOK'
    BY <2>13 DEF Unsubscribe, Answer
  <2>14. ASSUME NEW d \in Announced, Announce(d) PROVE TranslatorTypeOK'
    BY <2>14 DEF Announce, userVars
  <2> QED
    BY <2>1, <2>2, <2>3, <2>4, <2>5, <2>6, <2>7, <2>8, <2>9, <2>10, <2>11,
       <2>12, <2>13, <2>14 DEF TranslatorNext
<1> QED
  BY <1>1, <1>2, PTL DEF TranslatorSpec

=============================================================================
