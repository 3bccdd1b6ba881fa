----------------------------- MODULE Addresses -----------------------------
(***************************************************************************)
(* The translation between CommonAPI addresses and D-Bus addresses         *)
(* (DBusAddressTranslator.cpp), together with the proxies, stub adapters   *)
(* and instance events that use it.  The translator remembers every answer *)
(* in two maps, and forgets an address when a proxy or a stub of it is     *)
(* destroyed: the other users of the address go on translating it.         *)
(*                                                                         *)
(* A name is the sequence of its parts, without the separators: a '.' in   *)
(* an interface, an instance or a service, a '/' in an object path, and    *)
(* the ':' before the version of a CommonAPI interface.  The domain of a   *)
(* CommonAPI address is always "local".  A service name made of an         *)
(* interface and an instance keeps the two apart (the code joins them by   *)
(* an underscore); names longer than D-Bus allows are left out.            *)
(***************************************************************************)
EXTENDS Naturals, Sequences, SequencesExt

CONSTANTS Proxies,        \* threads that build one proxy after the other
          Stubs,          \* threads that register one stub after the other
          Wanted,         \* the CommonAPI addresses they build for
          Announced,      \* D-Bus addresses that instance events come across
          Configurations, \* what the configuration file may hold
          Versions,       \* the parts that isValidVersion accepts
          DefaultVersion, \* the version CommonAPI adds to an address
          Illegal,        \* parts with a character D-Bus forbids
          Dashed,         \* parts with a '-', allowed in a service only
          MaxBuilt,       \* bound: proxies and stubs ever built
          NoAddress

\* One thread registers stubs: what unregisterStub finds is its own adapter.
ASSUME StubsAssumption == \A u, v \in Stubs : u = v
ASSUME WantedAssumption == NoAddress \notin Wanted
ASSUME BoundAssumption == MaxBuilt \in Nat

VARIABLES config,        \* isDefault_, compatibility_ and the sections
          unread,        \* sections of the file still to be read
          unversioned,   \* unversioned_
          persistent,    \* persistentAddresses_
          forwards,      \* forwards_
          backwards,     \* backwards_
          stage,         \* what each user does next
          window,        \* where it is between the two locks of translate
          asked,         \* the address it was built for
          dbus,          \* dbusAddress_
          capi,          \* address_
          at,            \* where its subscription or registration is kept
          stubServices,  \* services_ of the factory
          built,         \* how many users were built
          late,          \* configured addresses that lost their place
          disturbed      \* addresses whose translation was forgotten in use

tables == <<unversioned, persistent, forwards, backwards>>
userVars == <<stage, window, asked, dbus, capi, at, stubServices, built>>
ghosts == <<late, disturbed>>
translatorVars == <<config, unread, tables, userVars, ghosts>>

AddressUsers == Proxies \cup Stubs

-----------------------------------------------------------------------------
(* Names. *)

\* The characters of the parts; only a service may hold a '-'.
LegalParts(name, busName) ==
  \A i \in DOMAIN name : /\ name[i] # ""
                         /\ name[i] \notin Illegal
                         /\ busName \/ name[i] \notin Dashed

\* isValid for an interface, which must have a separator.
ValidInterface(name) == Len(name) > 1 /\ LegalParts(name, FALSE)
\* isValid for an object path, which starts with one; "/" alone is valid.
ValidPath(name) == LegalParts(name, FALSE)
\* isValid for a service, named after an interface and an instance.
ValidService(service) ==
  /\ Len(service.of) + Len(service.at) > 2
  /\ LegalParts(service.of, TRUE) /\ LegalParts(service.at, TRUE)

ValidDBus(d) == /\ ValidService(d.service)
                /\ ValidPath(d.path)
                /\ ValidInterface(d.interface)

\* The interface of a CommonAPI address with '.' for ':'.
Dotted(interface) ==
  interface.name \o
    (IF interface.version = NoAddress THEN <<>> ELSE <<interface.version>>)

InterfaceOf(a) == [name |-> a.name, version |-> a.version]

\* The D-Bus address of instance `a' under a dotted interface.
Own(a, interface) == [service   |-> [of |-> interface, at |-> a.instance],
                      path      |-> a.instance,
                      interface |-> interface]

Compatible(a) ==
  IF InterfaceOf(a) \in DOMAIN config.compatibility
    THEN Dotted(config.compatibility[InterfaceOf(a)])
    ELSE Dotted(InterfaceOf(a))

\* What translate makes of an address that it does not know: NoAddress if
\* the names that it checks, those before the compatibility conversion, are
\* invalid.
Default(a) ==
  IF config.isDefault /\ ValidDBus(Own(a, Dotted(InterfaceOf(a))))
    THEN Own(a, Compatible(a)) ELSE NoAddress

\* The way back: a last part that is a version is taken for one.
Back(d) ==
  IF Last(d.interface) \in Versions
    THEN [name |-> Front(d.interface), version |-> Last(d.interface),
          instance |-> d.path]
    ELSE [name |-> d.interface, version |-> NoAddress, instance |-> d.path]

BackKnown(d) == config.isDefault /\ ValidPath(d.path) /\ ValidInterface(d.interface)

\* std::map::insert leaves an entry that is there alone.
Extend(map, key, value) ==
  IF key \in DOMAIN map THEN map
  ELSE [k \in DOMAIN map \cup {key} |-> IF k = key THEN value ELSE map[k]]

\* operator[] of std::map overwrites it.
Assign(map, key, value) ==
  [k \in DOMAIN map \cup {key} |-> IF k = key THEN value ELSE map[k]]

Without(map, key) == [k \in DOMAIN map \ {key} |-> map[k]]

Look(map, key) == IF key \in DOMAIN map THEN map[key] ELSE NoAddress

\* CommonAPI adds a version to the text of an address that has none.
Reparsed(a) ==
  IF a # NoAddress /\ a.version = NoAddress
    THEN [a EXCEPT !.version = DefaultVersion] ELSE a

\* The key of unversioned_ that an address may be found under.
Bare(a) == [a EXCEPT !.version = NoAddress]

-----------------------------------------------------------------------------
(* The four operations on the tables. *)

\* insert: an address that is mapped already, either way, is not mapped again.
InsertEntry(a, d) ==
  IF ValidDBus(d)
    THEN /\ persistent' = Assign(persistent, a, d)
         /\ IF a \notin DOMAIN forwards /\ d \notin DOMAIN backwards
              THEN /\ forwards' = Extend(forwards, a, d)
                   /\ backwards' = Extend(backwards, d, a)
                   /\ UNCHANGED late
              ELSE /\ late' = IF /\ a \in DOMAIN forwards /\ forwards[a] = d
                                 /\ d \in DOMAIN backwards /\ backwards[d] = a
                                THEN late ELSE late \cup {a}
                   /\ UNCHANGED <<forwards, backwards>>
    ELSE UNCHANGED <<persistent, forwards, backwards, late>>

\* The end of translate(CommonAPI::Address): the known or the default address.
Forward(a) == IF a \in DOMAIN forwards THEN forwards[a] ELSE Default(a)

\* mutant: the way back is not remembered.
RememberForwardOnly(a) ==
  IF a \in DOMAIN forwards \/ Default(a) = NoAddress
    THEN UNCHANGED <<forwards, backwards>>
    ELSE /\ forwards' = Extend(forwards, a, Default(a))
         /\ UNCHANGED backwards

RememberForward(a) ==
  IF a \in DOMAIN forwards \/ Default(a) = NoAddress
    THEN UNCHANGED <<forwards, backwards>>
    ELSE /\ forwards' = Extend(forwards, a, Default(a))
         /\ backwards' = Extend(backwards, Default(a), a)

\* translate(DBusAddress).
Backward(d) == IF d \in DOMAIN backwards THEN backwards[d]
               ELSE IF BackKnown(d) THEN Back(d) ELSE NoAddress

RememberBackward(d) ==
  IF d \in DOMAIN backwards \/ ~BackKnown(d) \/ ~ValidService(d.service)
    THEN UNCHANGED <<forwards, backwards>>
    ELSE /\ forwards' = Extend(forwards, Back(d), d)
         /\ backwards' = Extend(backwards, d, Back(d))

\* mutant: what the file says is forgotten too.
RemoveEntryAny(a) ==
  IF a \notin DOMAIN forwards
    THEN UNCHANGED <<forwards, backwards>>
    ELSE /\ forwards' = Without(forwards, a)
         /\ backwards' = Without(backwards, forwards[a])

\* remove: what the configuration file says is kept.
RemoveEntry(a) ==
  IF a \in DOMAIN persistent \/ a \notin DOMAIN forwards
    THEN UNCHANGED <<forwards, backwards>>
    ELSE /\ forwards' = Without(forwards, a)
         /\ backwards' = Without(backwards, forwards[a])

-----------------------------------------------------------------------------
(* The file is read, section by section, before anybody translates. *)

TranslatorInit ==
  /\ config \in Configurations
  /\ unread = config.sections
  /\ unversioned = <<>> /\ persistent = <<>>
  /\ forwards = <<>> /\ backwards = <<>>
  /\ stage = [u \in AddressUsers |-> "idle"]
  /\ window = [u \in AddressUsers |-> "none"]
  /\ asked = [u \in AddressUsers |-> NoAddress]
  /\ dbus = [u \in AddressUsers |-> NoAddress]
  /\ capi = [u \in AddressUsers |-> NoAddress]
  /\ at = [u \in AddressUsers |-> NoAddress]
  /\ stubServices = <<>>
  /\ built = 0
  /\ late = {} /\ disturbed = {}

\* A title without a version waits for the version that somebody asks for.
ReadSection(section) ==
  /\ unread' = unread \ {section}
  /\ IF section.title.version = NoAddress
       THEN /\ unversioned' = Assign(unversioned, section.title, section.dbus)
            /\ UNCHANGED <<persistent, forwards, backwards, late>>
       ELSE /\ InsertEntry(section.title, section.dbus)
            /\ UNCHANGED unversioned
  /\ UNCHANGED <<config, userVars, disturbed>>

-----------------------------------------------------------------------------
(* The users.  The stages that translate a CommonAPI address may have to   *)
(* move an entry of unversioned_ first, for which translate unlocks.       *)

ForwardStages == {"create", "subscribe", "unsubscribe"}

\* The CommonAPI address that user u translates; the registry has its text.
Key(u) == IF stage[u] = "create" THEN asked[u] ELSE Reparsed(capi[u])

HasUnversioned(u) == /\ Key(u) # NoAddress
                     /\ Key(u).version # NoAddress
                     /\ Bare(Key(u)) \in DOMAIN unversioned

Become(u, s) == stage' = [stage EXCEPT ![u] = s]

Gone(u) == /\ Become(u, "idle")
           /\ asked' = [asked EXCEPT ![u] = NoAddress]
           /\ dbus' = [dbus EXCEPT ![u] = NoAddress]
           /\ capi' = [capi EXCEPT ![u] = NoAddress]

\* createProxy and registerStub.
Build(u, a) ==
  /\ unread = {} /\ stage[u] = "idle" /\ built < MaxBuilt
  /\ u \in Stubs => \A v \in Stubs : asked[v] # a
  /\ Become(u, "create")
  /\ asked' = [asked EXCEPT ![u] = a]
  /\ built' = built + 1
  /\ UNCHANGED <<config, unread, tables, window, dbus, capi, at, stubServices,
                 ghosts>>

\* translate finds an entry without a version, and unlocks.
FindUnversioned(u) ==
  /\ stage[u] \in ForwardStages /\ window[u] = "none"
  /\ HasUnversioned(u)
  /\ window' = [window EXCEPT ![u] = "insert"]
  /\ UNCHANGED <<config, unread, tables, stage, asked, dbus, capi, at,
                 stubServices, built, ghosts>>

\* It inserts what its iterator points to.  If another thread has erased the
\* entry, that is freed memory: what the entry held, or names that are invalid.
InsertUnversioned(u) ==
  /\ window[u] = "insert"
  /\ window' = [window EXCEPT ![u] = "erase"]
  /\ \/ \E section \in config.sections :
          section.title = Bare(Key(u)) /\ InsertEntry(Key(u), section.dbus)
     \/ /\ ~HasUnversioned(u)
        /\ UNCHANGED <<persistent, forwards, backwards, late>>
  /\ UNCHANGED <<config, unread, unversioned, stage, asked, dbus, capi, at,
                 stubServices, built, disturbed>>

\* What user u is told, and the rest of translate, under the lock.
Told(u) == IF Key(u) = NoAddress THEN NoAddress ELSE Forward(Key(u))

Answer(u) ==
  /\ \/ /\ window[u] = "erase"
        /\ unversioned' = Without(unversioned, Bare(Key(u)))
     \/ /\ window[u] = "none" /\ ~HasUnversioned(u)
        /\ UNCHANGED unversioned
  /\ window' = [window EXCEPT ![u] = "none"]
  /\ IF Key(u) = NoAddress THEN UNCHANGED <<forwards, backwards>>
                      ELSE RememberForward(Key(u))
  /\ UNCHANGED <<config, unread, persistent, built, late>>

\* mutant: the caller is not told that there is no address.
CreateAny(u) ==
  /\ stage[u] = "create" /\ Answer(u)
  /\ dbus' = [dbus EXCEPT ![u] = Told(u)]
  /\ Become(u, "construct")
  /\ asked' = [asked EXCEPT ![u] = IF Told(u) = NoAddress THEN NoAddress ELSE @]
  /\ UNCHANGED <<capi, at, stubServices, disturbed>>

\* The factory asks for the D-Bus address, and gives up without one.
Create(u) ==
  /\ stage[u] = "create" /\ Answer(u)
  /\ dbus' = [dbus EXCEPT ![u] = Told(u)]
  /\ Become(u, IF Told(u) = NoAddress THEN "idle" ELSE "construct")
  /\ asked' = [asked EXCEPT ![u] = IF Told(u) = NoAddress THEN NoAddress ELSE @]
  /\ UNCHANGED <<capi, at, stubServices, disturbed>>

\* The proxy and the adapter translate it back, whatever the answer.
Construct(u) ==
  /\ stage[u] = "construct"
  /\ capi' = [capi EXCEPT ![u] = Backward(dbus[u])]
  /\ RememberBackward(dbus[u])
  /\ Become(u, IF u \in Proxies THEN "subscribe" ELSE "register")
  /\ UNCHANGED <<config, unread, unversioned, persistent, window, asked, dbus,
                 at, stubServices, built, ghosts>>

\* subscribeAvailabilityListener files the listener under the translation of
\* the proxy's address, and unsubscribeAvailabilityListener looks for it there.
Subscribe(u) ==
  /\ stage[u] = "subscribe" /\ Answer(u)
  /\ at' = [at EXCEPT ![u] = Told(u)]
  /\ Become(u, "live")
  /\ UNCHANGED <<asked, dbus, capi, stubServices, disturbed>>

Unsubscribe(u) ==
  /\ stage[u] = "unsubscribe" /\ Answer(u)
  /\ at' = [at EXCEPT ![u] = IF Told(u) = @ THEN NoAddress ELSE @]
  /\ Become(u, "remove")
  /\ UNCHANGED <<asked, dbus, capi, stubServices, disturbed>>

\* registerStubAdapter files the adapter under the address translated back,
\* or gives it up.
Register(u) ==
  /\ stage[u] = "register"
  /\ RememberBackward(dbus[u])
  /\ IF Backward(dbus[u]) = NoAddress
       THEN Gone(u) /\ UNCHANGED <<at, stubServices>>
       ELSE /\ stubServices' = Extend(stubServices, Backward(dbus[u]), u)
            /\ at' = [at EXCEPT ![u] = Backward(dbus[u])]
            /\ Become(u, "live")
            /\ UNCHANGED <<asked, dbus, capi>>
  /\ UNCHANGED <<config, unread, unversioned, persistent, window, built,
                 ghosts>>

\* unregisterStub looks for the address it was registered with, and fails if
\* the adapter is not there or cannot be translated.
Unregister(u) ==
  /\ stage[u] = "unregister"
  /\ IF Look(stubServices, asked[u]) = u
       THEN /\ RememberBackward(dbus[u])
            /\ IF Backward(dbus[u]) = NoAddress
                 THEN Become(u, "live") /\ UNCHANGED <<stubServices, at>>
                 ELSE /\ stubServices' = Without(stubServices, asked[u])
                      /\ at' = [at EXCEPT ![u] = NoAddress]
                      /\ Become(u, "remove")
       ELSE Become(u, "live") /\ UNCHANGED <<forwards, backwards, stubServices, at>>
  /\ UNCHANGED <<config, unread, unversioned, persistent, window, asked, dbus,
                 capi, built, ghosts>>

\* The application lets go of its proxy, or unregisters its stub.
LetGo(u) ==
  /\ stage[u] = "live"
  /\ Become(u, IF u \in Proxies THEN "unsubscribe" ELSE "unregister")
  /\ UNCHANGED <<config, unread, tables, window, asked, dbus, capi, at,
                 stubServices, built, ghosts>>

\* The translation is forgotten, whoever else uses it.
ForgetAddress(u) ==
  /\ stage[u] = "remove"
  /\ LET a == IF u \in Proxies THEN capi[u] ELSE asked[u] IN
       /\ IF a = NoAddress THEN UNCHANGED <<forwards, backwards>> ELSE RemoveEntry(a)
       /\ disturbed' = disturbed \cup
            {x \in {a} : \E v \in AddressUsers \ {u} : asked[v] = a}
  /\ Gone(u)
  /\ UNCHANGED <<config, unread, unversioned, persistent, window, at, stubServices,
                 built, late>>

\* An instance event translates the address of an instance that comes or goes.
Announce(d) ==
  /\ unread = {}
  /\ RememberBackward(d)
  /\ UNCHANGED <<config, unread, unversioned, persistent, userVars, ghosts>>

TranslatorNext ==
  \/ \E section \in unread : ReadSection(section)
  \/ \E u \in AddressUsers, a \in Wanted : Build(u, a)
  \/ \E u \in AddressUsers :
       \/ FindUnversioned(u) \/ InsertUnversioned(u)
       \/ Create(u) \/ Construct(u) \/ LetGo(u) \/ ForgetAddress(u)
       \/ Subscribe(u) \/ Unsubscribe(u)
       \/ Register(u) \/ Unregister(u)
  \/ \E d \in Announced : Announce(d)

TranslatorSpec == TranslatorInit /\ [][TranslatorNext]_translatorVars
-----------------------------------------------------------------------------
(* Properties. *)

Stages == {"idle", "create", "construct", "subscribe", "register", "live",
           "unsubscribe", "unregister", "remove"}

\* A user is between the two locks only while it translates for a stage that
\* does, and an address is built for exactly as long as it has a user.
TranslatorTypeOK ==
  /\ config \in Configurations
  /\ unread \subseteq config.sections
  /\ stage \in [AddressUsers -> Stages]
  /\ window \in [AddressUsers -> {"none", "insert", "erase"}]
  /\ asked \in [AddressUsers -> Wanted \cup {NoAddress}]
  /\ \A u \in AddressUsers : window[u] # "none" => stage[u] \in ForwardStages
  /\ \A u \in AddressUsers : stage[u] = "idle" <=> asked[u] = NoAddress
  /\ built \in 0 .. MaxBuilt

\* What the file maps is what translate answers, whatever is built, announced
\* and destroyed, unless the mapping came late; and every other answer is the
\* default for the address or an address that reads back as it: no order of
\* the threads gives an address the translation of another one.
AnswersFounded ==
  /\ \A a \in DOMAIN persistent \ late :
       a \in DOMAIN forwards /\ forwards[a] = persistent[a]
  /\ \A a \in DOMAIN forwards \ DOMAIN persistent :
       forwards[a] = Default(a) \/ Back(forwards[a]) = a

\* The D-Bus addresses that the file and the defaults give an address.
Targets(a) == ({Default(a)} \ {NoAddress}) \cup
  {section.dbus : section \in
     {x \in config.sections : x.title \in {a, Bare(a)}}}

\* A compatibility section or two mappings give two addresses the same one.
Aliased(a) == \E b \in Wanted \ {a} : Targets(b) \cap Targets(a) # {}

\* A user knows the CommonAPI address that it was built for; a live proxy's
\* listener is filed under the D-Bus address that the proxy calls, and
\* unsubscribing now would find it there; the factory finds a live stub under
\* its address.  Not so for an address that was forgotten while somebody used
\* it, nor where two addresses share a D-Bus address.
UsersAgree ==
  \A u \in AddressUsers :
    stage[u] = "live" /\ asked[u] \notin disturbed /\ ~Aliased(asked[u]) =>
      /\ capi[u] = asked[u]
      /\ u \in Proxies => at[u] = dbus[u] /\ Forward(Key(u)) = at[u]
      /\ u \in Stubs => at[u] = asked[u] /\ Look(stubServices, asked[u]) = u
=============================================================================
