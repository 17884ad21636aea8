---------------------------- MODULE StartupProofs ----------------------------
(***************************************************************************)
(* Startup, for any enumeration, adapters, modules and driver behaviour:   *)
(* the handles of the inits, the identities of the adapters, the audits of *)
(* the inits, and the types.                                               *)
(***************************************************************************)
EXTENDS Startup, NumberSets, FiniteSetTheorems, SequenceTheorems, TLAPS

\* A collector's init leaves what it holds open and not null, and if it succeeds
\* it has what its polls need.
GoodOutcome(c, o) ==
  /\ o.open \in SUBSET HandleKinds
  /\ o.held = o.open
  /\ o.bound \in SUBSET adapters
  /\ o.ok => Needs[c] \subseteq o.open /\ (c # "host_mem" => o.bound # {})

(***************************************************************************)
(* The inductive invariant.  Handles and pointers always agree.  A flag in *)
(* ready is backed by handles until the shutdowns; a collector still to be *)
(* initialised has no flag yet, so that its init cannot take the handles   *)
(* of a flag away; and the adapters are fixed before the first flag.       *)
(***************************************************************************)
HandlesAgree ==
  /\ open \in [Collectors -> SUBSET HandleKinds]
  /\ held = open
  /\ bound \in [Collectors -> SUBSET adapters]

ReadyIsBacked ==
  pc \notin {"destructors", "end"} =>
    \A c \in ready :
      Needs[c] \subseteq open[c] /\ (c # "host_mem" => bound[c] # {})

FlagsInOrder ==
  /\ next \in 1..8
  /\ ready \subseteq Collectors
  /\ \A i \in next..7 : Order[i] \notin ready
  /\ pc \in {"enumerate", "reconciled", "header"} => ready = {}
  /\ pc = "enumerate" => \A c \in Collectors : bound[c] = {}
  /\ pc = "loop" => polled \subseteq ready

HandleInv == HandlesAgree /\ ReadyIsBacked /\ FlagsInOrder

LEMMA OrderIsInjective ==
  ASSUME NEW i \in 1..7, NEW j \in 1..7, Order[i] = Order[j]
  PROVE  i = j
  BY DEF Order

LEMMA OrderLength == Len(Order) = 7 /\ \A i \in 1..7 : Order[i] \in Collectors
<1>1. Len(Order) = 7 /\ DOMAIN Order = 1..7
  BY DEF Order
<1> QED
  BY <1>1 DEF Collectors, Range

LEMMA OutcomeFields ==
  ASSUME NEW h, NEW B
  PROVE  LET o == Outcome(h, B)
         IN  o.open = h /\ o.held = h /\ o.bound = B /\ (o.ok <=> B # {})
  BY DEF Outcome

\* An init that reports success exactly when it bound an adapter is good if a
\* bound adapter implies the handles.  What else its record says is immaterial.
LEMMA BoundIsGood ==
  ASSUME NEW c, NEW o, NEW h \in SUBSET HandleKinds, NEW B \in SUBSET adapters,
         o.open = h, o.held = h, o.bound = B, o.ok => B # {},
         B # {} => Needs[c] \subseteq h
  PROVE  GoodOutcome(c, o)
  BY DEF GoodOutcome

LEMMA FailedIsGood ==
  ASSUME NEW c, NEW h \in SUBSET HandleKinds
  PROVE  GoodOutcome(c, Outcome(h, {}))
<1>1. {} \in SUBSET adapters
  OBVIOUS
<1> QED
  BY <1>1, OutcomeFields, BoundIsGood

LEMMA D3dkmtIsGood ==
  ASSUME NEW o \in D3dkmtInits
  PROVE  GoodOutcome("d3dkmt", o)
<1>1. CASE o = Failed
  BY <1>1, FailedIsGood DEF Failed, HandleKinds
<1>2. ASSUME NEW B \in SUBSET adapters,
             o = [Outcome({"dll"} \cup With("adapters", B), B) EXCEPT
                    !.remarks = Cardinality(adapters \ B)]
      PROVE  GoodOutcome("d3dkmt", o)
  <2> DEFINE h == {"dll"} \cup With("adapters", B)
  <2>1. h \in SUBSET HandleKinds
    BY DEF With, HandleKinds
  <2>2. o.open = h /\ o.held = h /\ o.bound = B /\ (o.ok => B # {})
    BY <1>2 DEF Outcome
  <2>3. B # {} => Needs["d3dkmt"] \subseteq h
    BY DEF With, Needs, Collectors, Range, Order
  <2> HIDE DEF h
  <2> QED
    BY <2>1, <2>2, <2>3, BoundIsGood
<1> QED
  BY <1>1, <1>2 DEF D3dkmtInits
LEMMA DxgiIsGood ==
  ASSUME NEW o \in DxgiInits
  PROVE  GoodOutcome("dxgi_vmi", o)
<1>1. CASE o = Failed
  BY <1>1, FailedIsGood DEF Failed, HandleKinds
<1>2. ASSUME NEW B \in SUBSET adapters,
             o = Outcome({"factory"} \cup With("adapters", B), B)
      PROVE  GoodOutcome("dxgi_vmi", o)
  <2> DEFINE h == {"factory"} \cup With("adapters", B)
  <2>1. h \in SUBSET HandleKinds
    BY DEF With, HandleKinds
  <2>2. B # {} => Needs["dxgi_vmi"] \subseteq h
    BY DEF With, Needs, Collectors, Range, Order
  <2> HIDE DEF h
  <2> QED
    BY <1>2, <2>1, <2>2, OutcomeFields, BoundIsGood DEF h
<1> QED
  BY <1>1, <1>2 DEF DxgiInits

LEMMA VulkanIsGood ==
  ASSUME NEW o \in VulkanInits
  PROVE  GoodOutcome("vk_mem", o)
<1>1. CASE o \in {Failed, Outcome({"dll"}, {})}
  BY <1>1, FailedIsGood DEF Failed, HandleKinds
<1> DEFINE h == {"dll", "instance"}
<1>2. h \in SUBSET HandleKinds /\ Needs["vk_mem"] \subseteq h
  BY DEF HandleKinds, Needs, Collectors, Range, Order
<1>3. ASSUME NEW B \in SUBSET adapters, NEW d \in BOOLEAN,
             o = [Outcome(h, B) EXCEPT !.canDestroy = d]
      PROVE  GoodOutcome("vk_mem", o)
  <2>1. o.open = h /\ o.held = h /\ o.bound = B /\ (o.ok => B # {})
    BY <1>3 DEF Outcome
  <2> HIDE DEF h
  <2> QED
    BY <1>2, <2>1, BoundIsGood
<1>4. ASSUME NEW d \in BOOLEAN, o = [Outcome(h, {}) EXCEPT !.canDestroy = d]
      PROVE  GoodOutcome("vk_mem", o)
  <2>1. {} \in SUBSET adapters
    OBVIOUS
  <2> QED
    BY <1>3, <1>4, <2>1
<1> QED
  BY <1>1, <1>3, <1>4 DEF VulkanInits

LEMMA IgclIsGood ==
  ASSUME NEW o \in IgclInits
  PROVE  GoodOutcome("igcl", o)
<1>1. CASE o \in {Failed, Outcome({"dll"}, {})}
  BY <1>1, FailedIsGood DEF Failed, HandleKinds
<1>2. ASSUME NEW B \in SUBSET adapters,
             o = [Outcome({"dll", "api"}, B) EXCEPT !.remarks = Cardinality(B)]
      PROVE  GoodOutcome("igcl", o)
  <2> DEFINE h == {"dll", "api"}
  <2>1. h \in SUBSET HandleKinds /\ Needs["igcl"] \subseteq h
    BY DEF HandleKinds, Needs, Collectors, Range, Order
  <2>2. o.open = h /\ o.held = h /\ o.bound = B /\ (o.ok => B # {})
    BY <1>2 DEF Outcome
  <2> HIDE DEF h
  <2> QED
    BY <2>1, <2>2, BoundIsGood
<1> QED
  BY <1>1, <1>2 DEF IgclInits

LEMMA HostMemoryIsGood ==
  ASSUME NEW o \in HostMemoryInits
  PROVE  GoodOutcome("host_mem", o)
<1>1. o.open = {} /\ o.held = {} /\ o.bound = {}
  BY DEF HostMemoryInits, Failed, Outcome
<1>2. Needs["host_mem"] = {}
  BY DEF Needs, Collectors, Range, Order
<1> QED
  BY <1>1, <1>2 DEF GoodOutcome

LEMMA PdhIsGood ==
  ASSUME NEW c \in {"pdh_mem", "pdh_engine"}, NEW o \in PdhMemoryInits
  PROVE  GoodOutcome(c, o)
<1>1. CASE o = Failed
  BY <1>1, FailedIsGood DEF Failed, HandleKinds
<1>2. CASE o = Outcome({"query"}, adapters)
  <2>1. {"query"} \in SUBSET HandleKinds /\ Needs[c] \subseteq {"query"}
    BY DEF HandleKinds, Needs, Collectors, Range, Order
  <2> QED
    BY <1>2, <2>1, OutcomeFields, BoundIsGood
<1> QED
  BY <1>1, <1>2 DEF PdhMemoryInits

LEMMA InitsAreGood ==
  ASSUME NEW c \in Collectors, NEW o \in Inits(c)
  PROVE  GoodOutcome(c, o)
<1>1. c \in {"d3dkmt", "dxgi_vmi", "vk_mem", "igcl", "host_mem", "pdh_mem", "pdh_engine"}
  BY DEF Collectors, Range, Order
<1> QED
  BY <1>1, D3dkmtIsGood, DxgiIsGood, VulkanIsGood, IgclIsGood, HostMemoryIsGood, PdhIsGood
  DEF Inits, PdhEngineInits
-----------------------------------------------------------------------------
LEMMA InitHolds == Init => HandleInv
<1>1. \A i \in 1..7 : Order[i] \notin {}
  OBVIOUS
<1> QED
  BY <1>1 DEF Init, HandleInv, HandlesAgree, ReadyIsBacked, FlagsInOrder

\* The step of one init: its own handles and flag change, and no flag is up yet
\* for it or for any collector after it.
LEMMA InitNextHolds ==
  ASSUME HandleInv, InitNext
  PROVE  HandleInv'
<1> DEFINE c == Order[next]
<1>1. next \in 1..7 /\ next' = next + 1 /\ next' \in 1..8
  BY OrderLength DEF InitNext, HandleInv, FlagsInOrder
<1>2. c \in Collectors /\ c \notin ready
  BY <1>1, OrderLength DEF HandleInv, FlagsInOrder
<1>3. pc = "init" /\ pc' = "init" /\ polled' = polled /\ adapters' = adapters
  BY DEF InitNext
<1>4. PICK o \in Inits(c) :
        /\ open' = [open EXCEPT ![c] = o.open]
        /\ held' = [held EXCEPT ![c] = o.held]
        /\ bound' = [bound EXCEPT ![c] = o.bound]
        /\ ready' = IF o.ok THEN ready \cup {c} ELSE ready
  BY DEF InitNext, AuditInit
<1> HIDE DEF c
<1>5. GoodOutcome(c, o)
  BY <1>2, InitsAreGood
<1>6. HandlesAgree'
  BY <1>2, <1>3, <1>4, <1>5 DEF HandleInv, HandlesAgree, GoodOutcome
<1>7. ReadyIsBacked'
  <2> SUFFICES ASSUME NEW d \in ready'
               PROVE  Needs[d] \subseteq open'[d] /\ (d # "host_mem" => bound'[d] # {})
    BY DEF ReadyIsBacked
  <2>1. CASE d = c
    BY <2>1, <1>2, <1>4, <1>5 DEF HandleInv, HandlesAgree, GoodOutcome
  <2>2. CASE d # c
    <3>1. d \in ready
      BY <2>2, <1>4
    <3>2. open'[d] = open[d] /\ bound'[d] = bound[d]
      BY <2>2, <3>1, <1>4 DEF HandleInv, HandlesAgree, FlagsInOrder
    <3> QED
      BY <3>1, <3>2, <1>3 DEF HandleInv, ReadyIsBacked
  <2> QED
    BY <2>1, <2>2
<1>8. FlagsInOrder'
  <2>1. \A i \in next'..7 : Order[i] \notin ready'
    <3> SUFFICES ASSUME NEW i \in next'..7
                 PROVE  Order[i] \notin ready'
      OBVIOUS
    <3>1. i \in 1..7 /\ i # next /\ i \in next..7
      BY <1>1
    <3>2. Order[i] # c
      BY <3>1, <1>1, OrderIsInjective DEF c
    <3> QED
      BY <3>1, <3>2, <1>4 DEF HandleInv, FlagsInOrder
  <2>2. ready' \subseteq Collectors
    BY <1>2, <1>4 DEF HandleInv, FlagsInOrder
  <2> QED
    BY <2>1, <2>2, <1>1, <1>3 DEF FlagsInOrder
<1> QED
  BY <1>6, <1>7, <1>8 DEF HandleInv

LEMMA ShutDownHolds ==
  ASSUME HandleInv, ShutDown, adapters' = adapters, next' = next, ready' = ready,
         pc' \in {"destructors", "end"}
  PROVE  HandleInv'
<1>1. HandlesAgree'
  BY DEF HandleInv, HandlesAgree, ShutDown, Released
<1> QED
  BY <1>1 DEF HandleInv, ReadyIsBacked, FlagsInOrder

THEOREM HandlesInvariant == Spec => []HandleInv
<1>1. HandleInv /\ [Next]_vars => HandleInv'
  <2> SUFFICES ASSUME HandleInv, [Next]_vars
               PROVE  HandleInv'
    OBVIOUS
  <2> USE DEF enumVars, handleVars
  <2>1. CASE Enumerate
    <3>1. /\ pc = "enumerate" /\ pc' = "reconciled" /\ ready = {}
          /\ UNCHANGED <<next, open, held, bound, ready, polled>>
      BY <2>1 DEF Enumerate, HandleInv, FlagsInOrder
    <3>2. bound' \in [Collectors -> SUBSET adapters']
      BY <3>1 DEF HandleInv, HandlesAgree, FlagsInOrder
    <3> QED
      BY <3>1, <3>2 DEF HandleInv, HandlesAgree, ReadyIsBacked, FlagsInOrder
  <2>2. CASE Refuse
    BY <2>2 DEF Refuse, HandleInv, HandlesAgree, ReadyIsBacked, FlagsInOrder
  <2>3. CASE OpenLog
    BY <2>3 DEF OpenLog, HandleInv, HandlesAgree, ReadyIsBacked, FlagsInOrder
  <2>4. CASE PublishHeader
    BY <2>4 DEF PublishHeader, HandleInv, HandlesAgree, ReadyIsBacked, FlagsInOrder
  <2>5. CASE InitNext
    BY <2>5, InitNextHolds
  <2>10. CASE LateLoad
    BY <2>10 DEF LateLoad, HandleInv, HandlesAgree, ReadyIsBacked, FlagsInOrder
  <2>6. CASE AddCollectors
    BY <2>6 DEF AddCollectors, HandleInv, HandlesAgree, ReadyIsBacked, FlagsInOrder
  <2>7. ASSUME NEW advanced \in BOOLEAN, FinishRun(advanced)
        PROVE  HandleInv'
    BY <2>7, ShutDownHolds DEF FinishRun
  <2>8. CASE Destroy
    BY <2>8, ShutDownHolds DEF Destroy
  <2>9. CASE UNCHANGED vars
    BY <2>9 DEF vars, HandleInv, HandlesAgree, ReadyIsBacked, FlagsInOrder
  <2> QED
    BY <2>1, <2>2, <2>3, <2>4, <2>5, <2>6, <2>7, <2>8, <2>9, <2>10 DEF Next
<1> QED
  BY <1>1, InitHolds, PTL DEF Spec

(***************************************************************************)
(* Nothing is closed twice or used after it was closed.                    *)
(***************************************************************************)
THEOREM NoDanglingPointers == Spec => []PointersValid
<1>1. HandleInv => PointersValid
  BY DEF HandleInv, HandlesAgree, PointersValid
<1> QED
  BY <1>1, HandlesInvariant, PTL

(***************************************************************************)
(* Whatever failed before, a collector that is polled has what it needs.   *)
(***************************************************************************)
THEOREM PolledAreReady == Spec => []PolledIsReady
<1>1. HandleInv => PolledIsReady
  <2> SUFFICES ASSUME HandleInv, pc = "loop", NEW c \in polled
               PROVE  /\ Needs[c] \subseteq open[c]
                      /\ bound[c] \subseteq adapters
                      /\ c # "host_mem" => bound[c] # {}
    BY DEF PolledIsReady
  <2>1. c \in ready /\ c \in Collectors
    BY DEF HandleInv, FlagsInOrder
  <2> QED
    BY <2>1 DEF HandleInv, HandlesAgree, ReadyIsBacked
<1> QED
  BY <1>1, HandlesInvariant, PTL

(***************************************************************************)
(* What any init has opened, also one that failed half way, the shutdowns  *)
(* at the end close.                                                       *)
(***************************************************************************)
THEOREM EverythingIsReleased == Spec => AllReleased
<1>1. HandleInv /\ [Next]_vars =>
        [pc = "loop" /\ pc' # "loop" =>
           \A c \in Collectors :
             open'[c] \subseteq IF c = "vk_mem" /\ ~canDestroy THEN {"instance"} ELSE {}]_vars
  <2> SUFFICES ASSUME HandleInv, [Next]_vars, pc = "loop", pc' # "loop", NEW c \in Collectors
               PROVE  open'[c] \subseteq IF c = "vk_mem" /\ ~canDestroy
                                           THEN {"instance"} ELSE {}
    OBVIOUS
  <2>1. ShutDown
    BY DEF Next, vars, Enumerate, Refuse, OpenLog, PublishHeader, InitNext, LateLoad,
           AddCollectors, FinishRun, Destroy
  <2>2. held[c] = open[c]
    BY DEF HandleInv, HandlesAgree
  <2> QED
    BY <2>1, <2>2 DEF ShutDown, Released
<1> QED
  BY <1>1, HandlesInvariant, PTL DEF Spec, AllReleased

-----------------------------------------------------------------------------
(***************************************************************************)
(* The identities of the adapters.                                         *)
(***************************************************************************)
\* Match is 0 if no place holds the LUID, and the last of these places otherwise.
LEMMA MatchFinds ==
  ASSUME NEW S, NEW s \in BoundedSeq(S, MaxFound), NEW luid
  PROVE  /\ Match(s, luid) = 0 => \A i \in DOMAIN s : s[i] # luid
         /\ Match(s, luid) # 0 =>
              /\ Match(s, luid) \in DOMAIN s /\ s[Match(s, luid)] = luid
              /\ \A i \in DOMAIN s : s[i] = luid => i <= Match(s, luid)
<1> PICK n \in 0..MaxFound : DOMAIN s = 1..n
  BY BoundAssumption DEF BoundedSeq, SeqOf
<1> DEFINE M == {0} \cup {i \in DOMAIN s : s[i] = luid}
<1>1. n \in Nat /\ M \in SUBSET Nat /\ M # {} /\ \A i \in M : i <= n
  BY BoundAssumption
<1>2. Max(M) \in M /\ \A i \in M : i <= Max(M)
  BY <1>1, MaxExists
<1>3. Match(s, luid) = Max(M)
  BY DEF Match
<1>4. \A i \in DOMAIN s : s[i] = luid => i \in M /\ i # 0 /\ ~(i <= 0)
  OBVIOUS
<1> QED
  BY <1>2, <1>3, <1>4

\* No later place than Match holds the LUID.
LEMMA MatchIsLast ==
  ASSUME NEW S, NEW s \in BoundedSeq(S, MaxFound), NEW luid, Match(s, luid) # 0
  PROVE  IsLastOf(luid, Match(s, luid), s)
<1>1. DOMAIN s \subseteq Int
  BY BoundAssumption DEF BoundedSeq, SeqOf
<1>2. /\ Match(s, luid) \in DOMAIN s /\ s[Match(s, luid)] = luid
      /\ \A i \in DOMAIN s : s[i] = luid => i <= Match(s, luid)
  BY MatchFinds
<1> HIDE DEF Match
<1> QED
  BY <1>1, <1>2 DEF IsLastOf

(***************************************************************************)
(* Between the enumerations and the header the identities and the notes    *)
(* are those of what was found.                                            *)
(***************************************************************************)
FoundInv ==
  pc \in {"reconciled", "header"} =>
    /\ found.setup \in SetupResults
    /\ found.vulkan.devices \in BoundedSeq(Luids \cup {NoLuid}, MaxFound)
    /\ identities = {Identity(found, luid) : luid \in HardwareLuids(found)}
    /\ notes = Notes(found)

\* The devices of an enumeration, empty if it failed.
LEMMA VulkanDevices ==
  ASSUME NEW vulkan \in VulkanResults
  PROVE  vulkan.devices \in BoundedSeq(Luids \cup {NoLuid}, MaxFound)
<1>1. << >> \in BoundedSeq(Luids \cup {NoLuid}, MaxFound)
  <2>1. << >> \in [1..0 -> Luids \cup {NoLuid}] /\ 0 \in 0..MaxFound
    BY BoundAssumption
  <2> QED
    BY <2>1 DEF BoundedSeq, SeqOf
<1>2. vulkan = [ok |-> FALSE, devices |-> << >>]
      \/ \E s \in BoundedSeq(Luids \cup {NoLuid}, MaxFound) : vulkan = [ok |-> TRUE, devices |-> s]
  BY DEF VulkanResults, Nothing
<1>3. CASE vulkan = [ok |-> FALSE, devices |-> << >>]
  <2>1. vulkan.devices = << >>
    BY <1>3
  <2> QED
    BY <1>1, <2>1
<1>4. ASSUME NEW s \in BoundedSeq(Luids \cup {NoLuid}, MaxFound),
             vulkan = [ok |-> TRUE, devices |-> s]
      PROVE  vulkan.devices \in BoundedSeq(Luids \cup {NoLuid}, MaxFound)
  <2>1. vulkan.devices = s
    BY <1>4
  <2> QED
    BY <2>1
<1> QED
  BY <1>2, <1>3, <1>4

\* Every step keeps FoundInv.
LEMMA FoundStep == FoundInv /\ [Next]_vars => FoundInv'
<1> SUFFICES ASSUME FoundInv, [Next]_vars
             PROVE  FoundInv'
  OBVIOUS
<1> USE DEF FoundInv
<1>1. CASE Enumerate
  <2> PICK dxgi \in DxgiResults, setup \in SetupResults, vulkan \in VulkanResults :
        LET f == [dxgi |-> dxgi, setup |-> setup, vulkan |-> vulkan]
        IN  /\ found' = f
            /\ identities' = {Identity(f, luid) : luid \in HardwareLuids(f)}
            /\ notes' = Notes(f)
    BY <1>1 DEF Enumerate
  <2>1. vulkan.devices \in BoundedSeq(Luids \cup {NoLuid}, MaxFound)
    BY VulkanDevices
  <2> QED
    BY <2>1
<1>2. CASE OpenLog
  BY <1>2 DEF OpenLog, enumVars
<1>3. CASE UNCHANGED vars
  BY <1>3 DEF vars, enumVars
<1>4. CASE Refuse
  BY <1>4 DEF Refuse
<1>5. CASE PublishHeader \/ InitNext \/ LateLoad \/ AddCollectors \/ Destroy \/ \E advanced \in BOOLEAN : FinishRun(advanced)
  <2>1. pc' \notin {"reconciled", "header"}
    BY <1>5 DEF PublishHeader, InitNext, LateLoad, AddCollectors, FinishRun, Destroy
  <2> QED
    BY <2>1
<1> QED
  BY <1>1, <1>2, <1>3, <1>4, <1>5 DEF Next

(***************************************************************************)
(* Identities are bound to records with their own full LUID, what is       *)
(* missing is noted, and every Vulkan device is accounted for.             *)
(***************************************************************************)
THEOREM IdentitiesAreSound == Spec => []IdentitiesSound
<1>1. FoundInv => IdentitiesSound
  <2> SUFFICES ASSUME FoundInv, pc \in {"reconciled", "header"}
               PROVE  LET devices == found.vulkan.devices
                      IN  /\ \A id \in identities :
                               /\ IF id.devnode = 0 THEN <<"no devnode", id.luid>> \in notes
                                  ELSE IsLastOf(id.luid, id.devnode, found.setup)
                               /\ IF id.device = 0 THEN found.vulkan.ok => <<"no device", id.luid>> \in notes
                                  ELSE IsLastOf(id.luid, id.device, devices)
                          /\ \A i \in DOMAIN devices :
                               \/ \E id \in identities : id.device = i
                               \/ <<"stray device", i>> \in notes
                               \/ \E a \in Range(found.dxgi) : a.skip /\ a.luid = devices[i]
                               \/ \E j \in DOMAIN devices : j > i /\ devices[j] = devices[i]
    BY DEF IdentitiesSound
  <2> DEFINE devices == found.vulkan.devices
  <2>1. /\ found.setup \in BoundedSeq(Luids \cup {NoLuid}, MaxFound)
        /\ devices \in BoundedSeq(Luids \cup {NoLuid}, MaxFound)
        /\ identities = {Identity(found, luid) : luid \in HardwareLuids(found)}
        /\ notes = Notes(found)
    BY DEF FoundInv, SetupResults
  <2>2. ASSUME NEW luid \in HardwareLuids(found)
        PROVE  /\ IF Match(found.setup, luid) = 0 THEN <<"no devnode", luid>> \in notes
                  ELSE IsLastOf(luid, Match(found.setup, luid), found.setup)
               /\ IF Match(devices, luid) = 0 THEN found.vulkan.ok => <<"no device", luid>> \in notes
                  ELSE IsLastOf(luid, Match(devices, luid), devices)
    <3>1. Match(found.setup, luid) = 0 => <<"no devnode", luid>> \in notes
      BY <2>1 DEF Notes
    <3>2. Match(devices, luid) = 0 /\ found.vulkan.ok => <<"no device", luid>> \in notes
      BY <2>1 DEF Notes
    <3>3. /\ Match(found.setup, luid) # 0 => IsLastOf(luid, Match(found.setup, luid), found.setup)
          /\ Match(devices, luid) # 0 => IsLastOf(luid, Match(devices, luid), devices)
      BY <2>1, MatchIsLast
    <3> HIDE DEF devices
    <3> QED
      BY <3>1, <3>2, <3>3
  <2>3. ASSUME NEW luid
        PROVE  LET id == Identity(found, luid)
               IN  /\ id.luid = luid /\ id.devnode = Match(found.setup, luid)
                   /\ id.device = Match(devices, luid)
    BY DEF Identity
  <2>4. \A id \in identities :
          /\ IF id.devnode = 0 THEN <<"no devnode", id.luid>> \in notes
             ELSE IsLastOf(id.luid, id.devnode, found.setup)
          /\ IF id.device = 0 THEN found.vulkan.ok => <<"no device", id.luid>> \in notes
             ELSE IsLastOf(id.luid, id.device, devices)
    <3> TAKE id \in identities
    <3> PICK luid \in HardwareLuids(found) : id = Identity(found, luid)
      BY <2>1
    <3>1. /\ id.luid = luid /\ id.devnode = Match(found.setup, luid)
          /\ id.device = Match(devices, luid)
      BY <2>3
    <3> HIDE DEF devices
    <3> QED
      BY <2>2, <3>1
  <2>5. ASSUME NEW i \in DOMAIN devices
        PROVE  \/ \E id \in identities : id.device = i
               \/ <<"stray device", i>> \in notes
               \/ \E a \in Range(found.dxgi) : a.skip /\ a.luid = devices[i]
               \/ \E j \in DOMAIN devices : j > i /\ devices[j] = devices[i]
    <3>1. CASE \A a \in Range(found.dxgi) : a.luid # devices[i]
      <4>1. <<"stray device", i>> \in Notes(found)
        BY <3>1 DEF Notes
      <4> QED
        BY <2>1, <4>1
    <3>2. CASE \E a \in Range(found.dxgi) : a.luid = devices[i]
      <4> PICK h \in DOMAIN found.dxgi : found.dxgi[h].luid = devices[i]
        BY <3>2 DEF Range
      <4>1. CASE found.dxgi[h].skip
        BY <4>1 DEF Range
      <4>2. CASE ~found.dxgi[h].skip
        <5> DEFINE luid == devices[i]
        <5>1. luid \in HardwareLuids(found)
          BY <4>2 DEF HardwareLuids, Hardware
        <5>2. Match(devices, luid) # 0
          BY <2>1, MatchFinds
        <5>3. /\ Match(devices, luid) \in DOMAIN devices /\ devices[Match(devices, luid)] = luid
              /\ i <= Match(devices, luid)
          BY <2>1, <5>2, MatchFinds
        <5>4. DOMAIN devices \subseteq Int
          BY <2>1, BoundAssumption DEF BoundedSeq, SeqOf
        <5>5. CASE Match(devices, luid) = i
          BY <2>1, <2>3, <5>1, <5>5
        <5>6. CASE Match(devices, luid) # i
          <6>1. Match(devices, luid) > i
            BY <5>3, <5>4, <5>6
          <6> QED
            BY <5>3, <6>1
        <5> QED
          BY <5>5, <5>6
      <4> QED
        BY <4>1, <4>2
    <3> QED
      BY <3>1, <3>2
  <2> QED
    BY <2>4, <2>5
<1>2. Init => FoundInv
  BY DEF Init, FoundInv
<1> QED
  BY <1>1, <1>2, FoundStep, PTL DEF Spec
-----------------------------------------------------------------------------
(***************************************************************************)
(* The log and the modules.  A record of an audit lists what appeared      *)
(* between its two snapshots, and the second snapshot of one init is the   *)
(* first of the next.                                                      *)
(***************************************************************************)
\* A sequence is one over the set of its own elements.
LEMMA SequenceOfItsRange ==
  ASSUME NEW S, NEW s \in Seq(S), NEW R, R = Range(s)
  PROVE  s \in Seq(R)
<1>1. Len(s) \in Nat /\ DOMAIN s = 1..Len(s)
  OBVIOUS
<1>2. \A i \in 1..Len(s) : s[i] \in R
  BY <1>1 DEF Range
<1>3. s \in [1..Len(s) -> R]
  BY <1>1, <1>2
<1>4. s \in UNION {[1..m -> R] : m \in Nat}
  BY <1>1, <1>3
<1>5. Seq(R) = UNION {[1..m -> R] : m \in Nat}
  BY SeqDef
<1> QED
  BY <1>4, <1>5

\* The elements of a concatenation.
LEMMA RangeConcat ==
  ASSUME NEW S, NEW s \in Seq(S), NEW t \in Seq(S)
  PROVE  s \o t \in Seq(S) /\ Range(s \o t) = Range(s) \cup Range(t)
<1>1. s \o t \in Seq(S) /\ Len(s \o t) = Len(s) + Len(t) /\ DOMAIN (s \o t) = 1..(Len(s) + Len(t))
  OBVIOUS
<1>2. /\ Len(s) \in Nat /\ Len(t) \in Nat /\ DOMAIN s = 1..Len(s) /\ DOMAIN t = 1..Len(t)
  OBVIOUS
<1>3. \A i \in 1..Len(s) : (s \o t)[i] = s[i]
  OBVIOUS
<1>4. \A i \in 1..Len(t) : (s \o t)[Len(s) + i] = t[i]
  OBVIOUS
<1>5. \A i \in 1..Len(s) : i \in 1..(Len(s) + Len(t))
  BY <1>2
<1>6. \A i \in 1..Len(t) : Len(s) + i \in 1..(Len(s) + Len(t))
  BY <1>2
<1>7. \A i \in 1..(Len(s) + Len(t)) : i \in 1..Len(s) \/ \E j \in 1..Len(t) : i = Len(s) + j
  <2> TAKE i \in 1..(Len(s) + Len(t))
  <2>1. CASE i <= Len(s)
    BY <1>2, <2>1
  <2>2. CASE i > Len(s)
    <3>1. i - Len(s) \in 1..Len(t) /\ i = Len(s) + (i - Len(s))
      BY <1>2, <2>2
    <3> QED
      BY <3>1
  <2> QED
    BY <1>2, <2>1, <2>2
<1>8. Range(s \o t) \subseteq Range(s) \cup Range(t)
  <2> SUFFICES ASSUME NEW i \in 1..(Len(s) + Len(t))
               PROVE  (s \o t)[i] \in Range(s) \cup Range(t)
    BY <1>1 DEF Range
  <2>1. CASE i \in 1..Len(s)
    BY <1>2, <1>3, <2>1 DEF Range
  <2>2. ASSUME NEW j \in 1..Len(t), i = Len(s) + j
        PROVE  (s \o t)[i] \in Range(t)
    BY <1>2, <1>4, <2>2 DEF Range
  <2> QED
    BY <1>7, <2>1, <2>2
<1>9. Range(s) \subseteq Range(s \o t)
  BY <1>1, <1>2, <1>3, <1>5 DEF Range
<1>10. Range(t) \subseteq Range(s \o t)
  BY <1>1, <1>2, <1>4, <1>6 DEF Range
<1> QED
  BY <1>1, <1>8, <1>9, <1>10

\* A sequence over a set is one over a larger set.
LEMMA Wider == ASSUME NEW S, NEW T, S \subseteq T, NEW s \in Seq(S) PROVE s \in Seq(T)
OBVIOUS

\* The elements of copies of one record.
LEMMA RangeOfCopies ==
  ASSUME NEW filler, NEW f \in Seq({filler})
  PROVE  Range(f) \subseteq {filler}
<1>1. DOMAIN f = 1..Len(f) /\ \A i \in 1..Len(f) : f[i] = filler
  OBVIOUS
<1> QED
  BY <1>1 DEF Range

\* What is left after copies of a record and one more record were appended.
LEMMA AppendIsSequence ==
  ASSUME NEW R, NEW s \in Seq(R), NEW filler, NEW f \in Seq({filler}),
         NEW record, NEW t, t = (s \o f) \o <<record>>
  PROVE  t \in Seq(Range(t))
<1> DEFINE S == R \cup {filler, record}
<1>1. f \in Seq(S) /\ s \in Seq(S)
  BY Wider
<1>2. <<record>> \in Seq(S)
  OBVIOUS
<1>3. t \in Seq(S)
  <2> HIDE DEF S
  <2> QED
    BY <1>1, <1>2
<1> QED
  BY <1>3, SequenceOfItsRange

(***************************************************************************)
(* The enumerations are finite, so the header and the remarks are          *)
(* sequences.                                                              *)
(***************************************************************************)
LEMMA FiniteFound ==
  ASSUME NEW f, f.dxgi \in DxgiResults
  PROVE  /\ IsFiniteSet(HardwareLuids(f))
         /\ IsFiniteSet({Identity(f, luid) : luid \in HardwareLuids(f)})
<1> PICK n \in 0..MaxFound : DOMAIN f.dxgi = 1..n
  BY BoundAssumption DEF DxgiResults, BoundedSeq, SeqOf
<1> DEFINE H == Hardware(f)
           L == HardwareLuids(f)
           I == {Identity(f, luid) : luid \in L}
           luidOf == [i \in H |-> f.dxgi[i].luid]
           identityOf == [luid \in L |-> Identity(f, luid)]
<1>1. IsFiniteSet(H)
  <2>1. H \in SUBSET (1..n)
    BY DEF Hardware
  <2>2. IsFiniteSet(1..n)
    BY BoundAssumption, FS_Interval
  <2> QED
    BY <2>1, <2>2, FS_Subset
<1>2. luidOf \in Surjection(H, L)
  BY DEF Surjection, HardwareLuids
<1>3. IsFiniteSet(L)
  <2> HIDE DEF luidOf, H, L
  <2> QED
    BY <1>1, <1>2, FS_Surjection
<1>4. identityOf \in Surjection(L, I)
  BY DEF Surjection
<1>5. IsFiniteSet(I)
  <2> HIDE DEF identityOf, I, L
  <2> QED
    BY <1>3, <1>4, FS_Surjection
<1> QED
  BY <1>3, <1>5

\* An init publishes finitely many remarks.
LEMMA RemarksAreCounted ==
  ASSUME IsFiniteSet(adapters), NEW c \in Collectors, NEW o \in Inits(c)
  PROVE  o.remarks \in Nat
<1>1. \A B \in SUBSET adapters : Cardinality(B) \in Nat
  BY FS_Subset, FS_CardinalityType
<1>2. \A h, B : Outcome(h, B).remarks = 0
  BY DEF Outcome
<1>3. Failed.remarks = 0
  BY <1>2 DEF Failed
<1>4. CASE c = "d3dkmt"
  <2>1. o \in D3dkmtInits
    BY <1>4 DEF Inits
  <2>2. CASE o = Failed
    BY <1>3, <2>2
  <2>3. ASSUME NEW B \in SUBSET adapters,
               o = [Outcome({"dll"} \cup With("adapters", B), B) EXCEPT
                      !.remarks = Cardinality(adapters \ B)]
        PROVE  o.remarks \in Nat
    <3>1. o.remarks = Cardinality(adapters \ B)
      BY <2>3 DEF Outcome
    <3> QED
      BY <1>1, <3>1
  <2> QED
    BY <2>1, <2>2, <2>3 DEF D3dkmtInits
<1>5. CASE c = "igcl"
  <2>1. o \in IgclInits
    BY <1>5 DEF Inits
  <2>2. CASE o \in {Failed, Outcome({"dll"}, {})}
    BY <1>2, <1>3, <2>2
  <2>3. ASSUME NEW B \in SUBSET adapters,
               o = [Outcome({"dll", "api"}, B) EXCEPT !.remarks = Cardinality(B)]
        PROVE  o.remarks \in Nat
    <3>1. o.remarks = Cardinality(B)
      BY <2>3 DEF Outcome
    <3> QED
      BY <1>1, <3>1
  <2> QED
    BY <2>1, <2>2, <2>3 DEF IgclInits
<1>6. CASE c = "vk_mem"
  <2>1. o \in VulkanInits
    BY <1>6 DEF Inits
  <2>2. ASSUME NEW d, NEW B, o = [Outcome({"dll", "instance"}, B) EXCEPT !.canDestroy = d]
        PROVE  o.remarks = 0
    BY <2>2 DEF Outcome
  <2>3. CASE o \in {Failed, Outcome({"dll"}, {})}
    BY <1>2, <1>3, <2>3
  <2>4. CASE o \in {[Outcome({"dll", "instance"}, {}) EXCEPT !.canDestroy = d] : d \in BOOLEAN}
    <3> PICK d \in BOOLEAN : o = [Outcome({"dll", "instance"}, {}) EXCEPT !.canDestroy = d]
      BY <2>4
    <3> QED
      BY <2>2
  <2>5. CASE o \in {[Outcome({"dll", "instance"}, B) EXCEPT !.canDestroy = TRUE] : B \in SUBSET adapters}
    <3> PICK B \in SUBSET adapters : o = [Outcome({"dll", "instance"}, B) EXCEPT !.canDestroy = TRUE]
      BY <2>5
    <3> QED
      BY <2>2
  <2> QED
    BY <2>1, <2>2, <2>3, <2>4, <2>5 DEF VulkanInits
<1>7. CASE c = "host_mem"
  <2>1. o \in HostMemoryInits
    BY <1>7 DEF Inits
  <2>2. ASSUME NEW b, o = [Failed EXCEPT !.ok = b]
        PROVE  o.remarks = 0
    BY <2>2 DEF Failed, Outcome
  <2>3. o.remarks = 0
    BY <2>1, <2>2 DEF HostMemoryInits
  <2> QED
    BY <2>3
<1>8. CASE c = "dxgi_vmi"
  <2>1. o \in DxgiInits
    BY <1>8 DEF Inits
  <2>2. o.remarks = 0
    BY <1>2, <1>3, <2>1 DEF DxgiInits
  <2> QED
    BY <2>2
<1>9. CASE c \in {"pdh_mem", "pdh_engine"}
  <2>1. o \in PdhMemoryInits
    BY <1>9 DEF Inits, PdhEngineInits
  <2>2. o.remarks = 0
    BY <1>2, <1>3, <2>1 DEF PdhMemoryInits
  <2> QED
    BY <2>2
<1>10. c \in {"d3dkmt", "dxgi_vmi", "vk_mem", "igcl", "host_mem", "pdh_mem", "pdh_engine"}
  BY DEF Collectors, Range, Order
<1> QED
  BY <1>4, <1>5, <1>6, <1>7, <1>8, <1>9, <1>10

\* Only the three collectors that load a library by name hold one.
LEMMA LibraryIsKnown ==
  ASSUME NEW c \in Collectors, NEW o \in Inits(c)
  PROVE  Library(c, o) \subseteq Libraries
<1>1. CASE c \in {"d3dkmt", "vk_mem", "igcl"}
  BY <1>1 DEF Library, Libraries
<1>2. CASE c = "dxgi_vmi"
  <2>1. o \in DxgiInits
    BY <1>2 DEF Inits
  <2>2. "dll" \notin o.open
    BY <2>1 DEF DxgiInits, Failed, Outcome, With
  <2> QED
    BY <2>2 DEF Library
<1>3. CASE c = "host_mem"
  <2>1. o \in HostMemoryInits
    BY <1>3 DEF Inits
  <2>2. "dll" \notin o.open
    BY <2>1 DEF HostMemoryInits, Failed, Outcome
  <2> QED
    BY <2>2 DEF Library
<1>4. CASE c \in {"pdh_mem", "pdh_engine"}
  <2>1. o \in PdhMemoryInits
    BY <1>4 DEF Inits, PdhEngineInits
  <2>2. "dll" \notin o.open
    BY <2>1 DEF PdhMemoryInits, Failed, Outcome
  <2> QED
    BY <2>2 DEF Library
<1>5. c \in {"d3dkmt", "dxgi_vmi", "vk_mem", "igcl", "host_mem", "pdh_mem", "pdh_engine"}
  BY DEF Collectors, Range, Order
<1> QED
  BY <1>1, <1>2, <1>3, <1>4, <1>5

\* The next init and its audit, with what came into the process meanwhile.
LEMMA NextIsAudited ==
  ASSUME InitNext, next \in 1..7
  PROVE  \E o \in Inits(Order[next]), came \in SUBSET Modules, spawns \in BOOLEAN :
           AuditInit(Order[next], o, came, spawns)
<1> DEFINE c == Order[next]
           L == SUBSET (IF threads = {} THEN {} ELSE Late)
           S == IF c \in Spawners THEN BOOLEAN ELSE {FALSE}
<1>1. c \in Collectors
  BY OrderLength
<1>2. S \subseteq BOOLEAN
  OBVIOUS
<1>3. \E o \in Inits(c), dragged \in SUBSET Dragged[c], late \in L, spawns \in S :
        AuditInit(c, o, Library(c, o) \cup dragged \cup late, spawns)
  BY DEF InitNext
<1> HIDE DEF c, S
<1> PICK o \in Inits(c), dragged \in SUBSET Dragged[c], late \in L, spawns \in S :
      AuditInit(c, o, Library(c, o) \cup dragged \cup late, spawns)
  BY <1>3
<1>4. Library(c, o) \cup dragged \cup late \in SUBSET Modules
  <2>1. Library(c, o) \subseteq Libraries /\ dragged \subseteq Dragged[c] /\ late \subseteq Late
    BY <1>1, LibraryIsKnown
  <2> QED
    BY <1>1, <2>1 DEF Modules
<1>5. spawns \in BOOLEAN
  BY <1>2
<1> QED
  BY <1>4, <1>5 DEF c

(***************************************************************************)
(* The inductive invariant: until the first init nothing came.  A module   *)
(* came during one init or during none, and is then not looked at again;   *)
(* no audit and no module is of a collector still to be initialised; and   *)
(* every audit that is written says what ModulesAttributed promises.       *)
(***************************************************************************)
Own(c) == {m \in Modules : broughtBy[m] = c}

Attributed(r) ==
  \/ r.modules = Own(r.who)
  \/ r.who \in blind /\ (r.modules = {} \/ Preloaded \cup Own(r.who) \subseteq r.modules)

ModulesCame ==
  /\ Preloaded \subseteq loaded
  /\ broughtBy \in [Modules -> Collectors \cup {"nobody"}]
  /\ \A m \in Modules : broughtBy[m] # "nobody" => m \in loaded
  /\ \A i \in next..7 : Own(Order[i]) = {}

AuditsWritten ==
  /\ IsFiniteSet(adapters) /\ IsFiniteSet(identities)
  /\ log \in Seq(Range(log))
  /\ pc \in {"enumerate", "reconciled", "header"} => log = << >>
  /\ \A i \in next..7, r \in Audits : r.who # Order[i]
  /\ \A r \in Audits : r.who \in Collectors /\ Attributed(r)

AttributionInv == ModulesCame /\ AuditsWritten

LEMMA NobodyIsNoCollector == "nobody" \notin Collectors
<1>1. Collectors \subseteq {"d3dkmt", "dxgi_vmi", "vk_mem", "igcl", "host_mem", "pdh_mem", "pdh_engine"}
  BY DEF Collectors, Range, Order
<1> QED
  BY <1>1

\* What comes while a collector is initialised is its own, and what was its
\* predecessors' stays theirs.
LEMMA ModulesAreOwned ==
  ASSUME ModulesCame, NEW c, next \in 1..7, c = Order[next], next' = next + 1,
         NEW came \in SUBSET Modules, loaded' = loaded \cup came,
         broughtBy' = [m \in Modules |-> IF m \in came \ loaded THEN c ELSE broughtBy[m]]
  PROVE  /\ ModulesCame'
         /\ Own(c)' = came \ loaded
         /\ \A d \in Collectors : d # c => Own(d)' = Own(d)
<1>1. c \in Collectors /\ c # "nobody"
  BY OrderLength, NobodyIsNoCollector
<1>2. \A m \in Modules : m \in came \ loaded => broughtBy[m] = "nobody"
  BY DEF ModulesCame
<1>3. next \in next..7 /\ Own(c) = {}
  BY DEF ModulesCame
<1>4. Own(c)' = came \ loaded
  <2>1. \A m \in Modules : broughtBy[m] # c
    BY <1>3 DEF Own
  <2> QED
    BY <2>1 DEF Own
<1>5. ASSUME NEW d \in Collectors, d # c
      PROVE  Own(d)' = Own(d)
  <2>1. d # "nobody"
    BY NobodyIsNoCollector
  <2>2. \A m \in Modules : broughtBy'[m] = d <=> broughtBy[m] = d
    BY <1>2, <1>5, <2>1
  <2> QED
    BY <2>2 DEF Own
<1>6. \A i \in next'..7 : Own(Order[i])' = {}
  <2> SUFFICES ASSUME NEW i \in next'..7
               PROVE  Own(Order[i])' = {}
    OBVIOUS
  <2>1. i \in 1..7 /\ i \in next..7 /\ i # next
    OBVIOUS
  <2>2. Order[i] # c /\ Order[i] \in Collectors
    BY <2>1, OrderIsInjective, OrderLength
  <2> QED
    BY <1>5, <2>1, <2>2 DEF ModulesCame
<1>7. /\ Preloaded \subseteq loaded'
      /\ broughtBy' \in [Modules -> Collectors \cup {"nobody"}]
      /\ \A m \in Modules : broughtBy'[m] # "nobody" => m \in loaded'
  BY <1>1 DEF ModulesCame
<1> QED
  BY <1>4, <1>5, <1>6, <1>7 DEF ModulesCame

\* The record of an audit says what it should, whichever snapshots failed.
LEMMA RecordAttributes ==
  ASSUME Preloaded \subseteq loaded, NEW c, NEW came, loaded' = loaded \cup came,
         Own(c)' = came \ loaded,
         NEW before \in SnapshotsOf(Truth), NEW after \in SnapshotsOf(Truth'),
         blind' = IF before = Truth /\ after = Truth' THEN blind ELSE blind \cup {c}
  PROVE  Attributed(BuildAudit(c, before, after))'
<1> DEFINE r == BuildAudit(c, before, after)
<1>1. r.who = c /\ r.modules = after.modules \ before.modules
  BY DEF BuildAudit
<1>2. Truth.modules = loaded /\ Truth'.modules = loaded'
  BY DEF Truth, Snapshot
<1>3. before.modules \in {loaded, {}} /\ after.modules \in {loaded', {}}
  BY <1>2 DEF SnapshotsOf
<1>4. CASE before = Truth /\ after = Truth'
  <2>1. r.modules = Own(c)'
    BY <1>1, <1>2, <1>4
  <2> QED
    BY <1>1, <2>1 DEF Attributed
<1>5. CASE ~(before = Truth /\ after = Truth')
  <2>1. c \in blind'
    BY <1>5
  <2>2. r.modules \in {loaded' \ loaded, loaded', {}}
    BY <1>1, <1>3
  <2>3. loaded' \ loaded = Own(c)' /\ Preloaded \cup Own(c)' \subseteq loaded'
    OBVIOUS
  <2> QED
    BY <1>1, <2>1, <2>2, <2>3 DEF Attributed
<1> QED
  BY <1>4, <1>5

\* An init and its audit keep the invariant.
LEMMA AuditAttributes ==
  ASSUME AttributionInv, InitNext, next \in 1..7
  PROVE  AttributionInv'
<1> PICK remark : remark = [kind |-> "remark"]
  OBVIOUS
<1> PICK c : c = Order[next]
  OBVIOUS
<1>1. c \in Collectors
  BY OrderLength
<1> PICK o \in Inits(c), came \in SUBSET Modules, spawns \in BOOLEAN : AuditInit(c, o, came, spawns)
  BY NextIsAudited
<1> PICK before \in SnapshotsOf(Truth), after \in SnapshotsOf(Truth') :
      /\ blind' = IF before = Truth /\ after = Truth' THEN blind ELSE blind \cup {c}
      /\ log' = log \o [i \in 1..o.remarks |-> remark] \o <<BuildAudit(c, before, after)>>
  BY DEF AuditInit
<1>2. /\ loaded' = loaded \cup came
      /\ broughtBy' = [m \in Modules |-> IF m \in came \ loaded THEN c ELSE broughtBy[m]]
  BY DEF AuditInit
<1>3. pc = "init" /\ pc' = "init" /\ adapters' = adapters /\ identities' = identities /\ next' = next + 1
  BY DEF InitNext, enumVars
<1>4. o.remarks \in Nat
  BY <1>1, RemarksAreCounted DEF AttributionInv, AuditsWritten
<1>5. /\ ModulesCame'
      /\ Own(c)' = came \ loaded
      /\ \A d \in Collectors : d # c => Own(d)' = Own(d)
  BY <1>2, <1>3, ModulesAreOwned DEF AttributionInv
<1> PICK record : record = BuildAudit(c, before, after)
  OBVIOUS
<1>6. record.kind = "audit" /\ record.who = c /\ remark.kind # "audit"
  BY DEF BuildAudit
<1>7. Attributed(record)'
  BY <1>2, <1>5, RecordAttributes DEF AttributionInv, ModulesCame
<1>8. /\ log' \in Seq(Range(log')) /\ Range(log') \subseteq Range(log) \cup {remark, record}
      /\ Range(log) \cup {record} \subseteq Range(log')
  <2> DEFINE R == Range(log)
             f == [i \in 1..o.remarks |-> remark]
             S == R \cup {remark, record}
             g == <<record>>
             h == log \o f
  <2>1. f \in Seq({remark})
    BY <1>4
  <2>2. log' = h \o g /\ log' = (log \o f) \o <<record>>
    OBVIOUS
  <2>3. log \in Seq(R) /\ R = Range(log)
    BY DEF AttributionInv, AuditsWritten
  <2> HIDE DEF f, R
  <2>4. log' \in Seq(Range(log'))
    BY <2>1, <2>2, <2>3, AppendIsSequence
  <2>5. Range(f) \subseteq {remark}
    BY <2>1, RangeOfCopies
  <2>6. log \in Seq(S) /\ f \in Seq(S)
    BY <2>1, <2>3, Wider
  <2>7. g \in Seq(S) /\ Range(g) = {record}
    BY DEF Range
  <2> HIDE DEF S, g
  <2>8. h \in Seq(S) /\ Range(h) = Range(log) \cup Range(f)
    BY <2>6, RangeConcat
  <2> HIDE DEF h
  <2>9. Range(h \o g) = Range(h) \cup Range(g)
    BY <2>7, <2>8, RangeConcat
  <2> QED
    BY <2>2, <2>4, <2>5, <2>7, <2>8, <2>9
<1>9. Audits' = Audits \cup {record}
  BY <1>6, <1>8 DEF Audits
<1>10. \A i \in next'..7, r \in Audits' : r.who # Order[i]
  <2> SUFFICES ASSUME NEW i \in next'..7, NEW r \in Audits'
               PROVE  r.who # Order[i]
    OBVIOUS
  <2>1. i \in next..7 /\ i # next /\ i \in 1..7
    BY <1>3
  <2>2. Order[i] # c
    BY <2>1, OrderIsInjective
  <2> QED
    BY <1>6, <1>9, <2>1, <2>2 DEF AttributionInv, AuditsWritten
<1>11. ASSUME NEW r \in Audits
       PROVE  r.who \in Collectors /\ Attributed(r)'
  <2>1. r.who \in Collectors /\ Attributed(r)
    BY DEF AttributionInv, AuditsWritten
  <2>2. next \in next..7 /\ r.who # c
    BY DEF AttributionInv, AuditsWritten
  <2>3. Own(r.who)' = Own(r.who)
    BY <1>5, <2>1, <2>2
  <2>4. blind \subseteq blind'
    OBVIOUS
  <2> QED
    BY <2>1, <2>3, <2>4 DEF Attributed
<1>12. AuditsWritten'
  BY <1>1, <1>3, <1>6, <1>7, <1>8, <1>9, <1>10, <1>11 DEF AttributionInv, AuditsWritten
<1> QED
  BY <1>5, <1>12 DEF AttributionInv

\* A module that a thread brings in between two audits is nobody's.
LEMMA LateLoadAttributes ==
  ASSUME AttributionInv, LateLoad
  PROVE  AttributionInv'
<1>1. /\ loaded \subseteq loaded' /\ pc' = pc
      /\ UNCHANGED <<adapters, identities, next, broughtBy, blind, log>>
  BY DEF LateLoad, enumVars
<1>2. Audits' = Audits /\ \A c : Own(c)' = Own(c)
  BY <1>1 DEF Audits, Own
<1>3. \A r : Attributed(r)' <=> Attributed(r)
  BY <1>1, <1>2 DEF Attributed
<1> QED
  BY <1>1, <1>2, <1>3 DEF AttributionInv, ModulesCame, AuditsWritten

\* The header keeps the invariant: it holds no audit.
LEMMA HeaderAttributes ==
  ASSUME AttributionInv, PublishHeader
  PROVE  AttributionInv'
<1> DEFINE n == Cardinality(identities)
           line == [kind |-> "identity"]
           record == [kind |-> "fingerprint"]
<1>1. n \in Nat
  BY FS_CardinalityType DEF AttributionInv, AuditsWritten
<1>2. /\ log' = [i \in 1..n |-> line] \o <<record>>
      /\ pc' = "init" /\ identities' = {}
      /\ UNCHANGED <<adapters, next, loaded, broughtBy, blind>>
  BY DEF PublishHeader, processVars
<1>3. line.kind # "audit" /\ record.kind # "audit"
  OBVIOUS
<1> HIDE DEF n, line, record
<1>4. [i \in 1..n |-> line] \in Seq({line, record}) /\ <<record>> \in Seq({line, record})
  BY <1>1
<1>5. log' \in Seq({line, record})
  BY <1>2, <1>4
<1>6. log' \in Seq(Range(log')) /\ Range(log') \subseteq {line, record}
  BY <1>5, SequenceOfItsRange DEF Range
<1>7. Audits' = {}
  BY <1>3, <1>6 DEF Audits
<1>8. AuditsWritten'
  BY <1>2, <1>6, <1>7, FS_EmptySet DEF AttributionInv, AuditsWritten
<1>9. ModulesCame'
  BY <1>2 DEF AttributionInv, ModulesCame, Own
<1> QED
  BY <1>8, <1>9 DEF AttributionInv

(***************************************************************************)
(* When polling starts, an audit whose snapshots succeeded names exactly   *)
(* the modules that came while its init was running, and one with a failed *)
(* snapshot nothing, or all that was in the process and its own.           *)
(***************************************************************************)
THEOREM ModulesAreAttributed == Spec => []ModulesAttributed
<1>1. Init => AttributionInv
  <2> SUFFICES ASSUME Init
               PROVE  AttributionInv
    OBVIOUS
  <2>1. Range(<< >>) = {} /\ << >> \in Seq({})
    BY DEF Range
  <2>2. Audits = {} /\ log \in Seq(Range(log))
    BY <2>1 DEF Init, Audits
  <2>3. AuditsWritten
    BY <2>2, FS_EmptySet DEF Init, AuditsWritten
  <2>4. \A i \in next..7 : Own(Order[i]) = {}
    <3> SUFFICES ASSUME NEW i \in 1..7
                 PROVE  Own(Order[i]) = {}
      BY DEF Init
    <3>1. Order[i] # "nobody"
      BY OrderLength, NobodyIsNoCollector
    <3> QED
      BY <3>1 DEF Init, Own
  <2>5. ModulesCame
    BY <2>4 DEF Init, ModulesCame
  <2> QED
    BY <2>3, <2>5 DEF AttributionInv
<1>2. HandleInv /\ AttributionInv /\ [Next]_vars => AttributionInv'
  <2> SUFFICES ASSUME HandleInv, AttributionInv, [Next]_vars
               PROVE  AttributionInv'
    OBVIOUS
  <2>1. ASSUME UNCHANGED <<next, loaded, broughtBy, blind, log>>,
               IsFiniteSet(adapters'), IsFiniteSet(identities'),
               pc' \in {"enumerate", "reconciled", "header"} =>
                 pc \in {"enumerate", "reconciled", "header"}
        PROVE  AttributionInv'
    <3>1. Audits' = Audits /\ (\A c : Own(c)' = Own(c)) /\ \A r : Attributed(r)' <=> Attributed(r)
      BY <2>1 DEF Audits, Own, Attributed
    <3> QED
      BY <2>1, <3>1 DEF AttributionInv, ModulesCame, AuditsWritten
  <2>2. CASE Enumerate
    <3> PICK dxgi \in DxgiResults, setup \in SetupResults, vulkan \in VulkanResults :
          LET f == [dxgi |-> dxgi, setup |-> setup, vulkan |-> vulkan]
          IN  /\ identities' = {Identity(f, luid) : luid \in HardwareLuids(f)}
              /\ adapters' = HardwareLuids(f)
      BY <2>2 DEF Enumerate
    <3>1. IsFiniteSet(adapters') /\ IsFiniteSet(identities')
      BY FiniteFound
    <3>2. pc = "enumerate" /\ pc' = "reconciled" /\ UNCHANGED <<next, loaded, broughtBy, blind, log>>
      BY <2>2 DEF Enumerate, processVars
    <3> QED
      BY <2>1, <3>1, <3>2
  <2>3. CASE PublishHeader
    BY <2>3, HeaderAttributes
  <2>4. CASE InitNext
    <3>1. next \in 1..7
      BY <2>4, OrderLength DEF InitNext, HandleInv, FlagsInOrder
    <3> QED
      BY <2>4, <3>1, AuditAttributes
  <2>5. CASE LateLoad
    BY <2>5, LateLoadAttributes
  <2>6. CASE \/ Refuse \/ OpenLog \/ AddCollectors \/ Destroy \/ UNCHANGED vars
            \/ \E advanced \in BOOLEAN : FinishRun(advanced)
    <3>1. /\ UNCHANGED <<next, loaded, broughtBy, blind, log, adapters, identities>>
          /\ pc' \in {"enumerate", "reconciled", "header"} =>
               pc \in {"enumerate", "reconciled", "header"}
      BY <2>6 DEF Refuse, OpenLog, AddCollectors, Destroy, FinishRun, vars, enumVars, processVars
    <3> QED
      BY <2>1, <3>1 DEF AttributionInv, AuditsWritten
  <2> QED
    BY <2>2, <2>3, <2>4, <2>5, <2>6 DEF Next
<1>3. AttributionInv => ModulesAttributed
  BY DEF AttributionInv, AuditsWritten, ModulesAttributed, Attributed, Own
<1> QED
  BY <1>1, <1>2, <1>3, HandlesInvariant, PTL DEF Spec

-----------------------------------------------------------------------------
(***************************************************************************)
(* Types.                                                                  *)
(***************************************************************************)
\* A match is a place of the enumeration, or 0.
LEMMA MatchIsPlace ==
  ASSUME NEW S, NEW s \in BoundedSeq(S, MaxFound), NEW luid
  PROVE  Match(s, luid) \in 0..MaxFound
<1> PICK n \in 0..MaxFound : DOMAIN s = 1..n
  BY BoundAssumption DEF BoundedSeq, SeqOf
<1>1. DOMAIN s \subseteq 0..MaxFound /\ 0 \in 0..MaxFound
  BY BoundAssumption
<1>2. Match(s, luid) = 0 \/ Match(s, luid) \in DOMAIN s
  BY MatchFinds
<1> QED
  BY <1>1, <1>2

LEMMA EnumerateTypes ==
  ASSUME Enumerate
  PROVE  /\ adapters' \subseteq Luids
         /\ identities' \subseteq [id : Range(LowHalf), luid : Luids,
                                   devnode : 0..MaxFound, device : 0..MaxFound]
<1> PICK dxgi \in DxgiResults, setup \in SetupResults, vulkan \in VulkanResults :
      LET f == [dxgi |-> dxgi, setup |-> setup, vulkan |-> vulkan]
      IN  /\ identities' = {Identity(f, luid) : luid \in HardwareLuids(f)}
          /\ adapters' = HardwareLuids(f)
  BY DEF Enumerate
<1> DEFINE f == [dxgi |-> dxgi, setup |-> setup, vulkan |-> vulkan]
<1>1. f.dxgi = dxgi /\ f.setup = setup /\ f.vulkan = vulkan
  OBVIOUS
<1>2. HardwareLuids(f) \subseteq Luids
  <2>1. \A i \in DOMAIN dxgi : dxgi[i].luid \in Luids
    BY DEF DxgiResults, BoundedSeq, SeqOf
  <2> QED
    BY <1>1, <2>1 DEF HardwareLuids, Hardware
<1>3. setup \in BoundedSeq(Luids \cup {NoLuid}, MaxFound)
  BY DEF SetupResults
<1>4. vulkan.devices \in BoundedSeq(Luids \cup {NoLuid}, MaxFound)
  BY VulkanDevices
<1>5. ASSUME NEW luid \in Luids
      PROVE  Identity(f, luid) \in [id : Range(LowHalf), luid : Luids,
                                    devnode : 0..MaxFound, device : 0..MaxFound]
  <2>1. LowHalf[luid] \in Range(LowHalf)
    BY LuidAssumption DEF Range
  <2>2. Match(setup, luid) \in 0..MaxFound /\ Match(vulkan.devices, luid) \in 0..MaxFound
    BY <1>3, <1>4, MatchIsPlace
  <2> QED
    BY <1>1, <2>1, <2>2 DEF Identity
<1> HIDE DEF f
<1>6. identities' = {Identity(f, luid) : luid \in HardwareLuids(f)} /\ adapters' = HardwareLuids(f)
  BY DEF f
<1> QED
  BY <1>2, <1>5, <1>6

LEMMA AuditTypes ==
  ASSUME TypeOK, HandleInv, InitNext
  PROVE  /\ loaded' \subseteq Modules /\ canDestroy' \in BOOLEAN
         /\ threads' \subseteq Collectors /\ blind' \subseteq Collectors
         /\ broughtBy' \in [Modules -> Collectors \cup {"nobody"}]
<1> DEFINE c == Order[next]
<1>1. next \in 1..7 /\ c \in Collectors
  BY OrderLength DEF InitNext, HandleInv, FlagsInOrder
<1> PICK o \in Inits(c), came \in SUBSET Modules, spawns \in BOOLEAN : AuditInit(c, o, came, spawns)
  BY <1>1, NextIsAudited
<1> HIDE DEF c
<1>2. loaded' \subseteq Modules /\ threads' \subseteq Collectors /\ canDestroy' \in BOOLEAN
  BY <1>1 DEF AuditInit, TypeOK
<1>3. blind' \subseteq Collectors
  BY SnapshotAssumption DEF AuditInit
<1>4. broughtBy' \in [Modules -> Collectors \cup {"nobody"}]
  BY <1>1 DEF AuditInit, TypeOK
<1> QED
  BY <1>2, <1>3, <1>4

\* Every record, handle, flag and module is of its kind in every state of the
\* run around the loop (run_real, reconcile_identity, the inits, audit_init).
THEOREM StartupTypeCorrect == Spec => []TypeOK
<1>1. Init => TypeOK
  <2> SUFFICES ASSUME Init
               PROVE  TypeOK
    OBVIOUS
  <2>1. next \in 1..(Len(Order) + 1) /\ loaded \subseteq Modules /\ exit = -1
    BY OrderLength DEF Init, Modules
  <2>2. open \in [Collectors -> SUBSET HandleKinds] /\ held \in [Collectors -> SUBSET HandleKinds]
    BY DEF Init
  <2>3. bound \in [Collectors -> SUBSET Luids]
    BY DEF Init
  <2> QED
    BY <2>1, <2>2, <2>3 DEF Init, TypeOK
<1>2. TypeOK /\ HandleInv /\ HandleInv' /\ [Next]_vars => TypeOK'
  <2> SUFFICES ASSUME TypeOK, HandleInv, HandleInv', [Next]_vars
               PROVE  TypeOK'
    OBVIOUS
  <2>1. /\ open' \in [Collectors -> SUBSET HandleKinds] /\ held' \in [Collectors -> SUBSET HandleKinds]
        /\ bound' \in [Collectors -> SUBSET adapters'] /\ next' \in 1..(Len(Order) + 1)
        /\ ready' \subseteq Collectors
    BY OrderLength DEF HandleInv, HandlesAgree, FlagsInOrder
  <2>2. /\ adapters' \subseteq Luids
        /\ identities' \subseteq [id : Range(LowHalf), luid : Luids,
                                  devnode : 0..MaxFound, device : 0..MaxFound]
    <3>1. CASE Enumerate
      BY <3>1, EnumerateTypes
    <3>2. CASE ~Enumerate
      <4>1. adapters' = adapters /\ (identities' = identities \/ identities' = {})
        BY <3>2 DEF Next, vars, enumVars, Refuse, OpenLog, PublishHeader, InitNext, LateLoad,
                    AddCollectors, FinishRun, Destroy
      <4> QED
        BY <4>1 DEF TypeOK
    <3> QED
      BY <3>1, <3>2
  <2>3. /\ loaded' \subseteq Modules /\ canDestroy' \in BOOLEAN
        /\ threads' \subseteq Collectors /\ blind' \subseteq Collectors
        /\ broughtBy' \in [Modules -> Collectors \cup {"nobody"}]
    <3>1. CASE InitNext
      BY <3>1, AuditTypes
    <3>2. CASE LateLoad
      BY <3>2 DEF LateLoad, TypeOK, handleVars, Modules
    <3>3. CASE ~InitNext /\ ~LateLoad
      <4>1. UNCHANGED <<loaded, threads, broughtBy, blind>> /\ (canDestroy' = canDestroy \/ canDestroy' = FALSE)
        BY <3>3 DEF Next, vars, handleVars, processVars, Enumerate, Refuse, OpenLog, PublishHeader, LateLoad,
                    AddCollectors, FinishRun, Destroy, ShutDown
      <4> QED
        BY <4>1 DEF TypeOK
    <3> QED
      BY <3>1, <3>2, <3>3
  <2>4. polled' \subseteq Collectors /\ exit' \in {-1, 0, 1, 2, 3}
    <3>1. polled' \in {polled, ready, {}} /\ exit' \in {exit, 0, 1, 2, 3}
      BY DEF Next, vars, Enumerate, Refuse, OpenLog, PublishHeader, InitNext, LateLoad,
             AddCollectors, FinishRun, Destroy
    <3> QED
      BY <3>1 DEF TypeOK
  <2>5. pc' \in {"enumerate", "reconciled", "header", "init", "loop", "destructors", "end"}
    <3>1. pc' = pc \/ pc' \in {"reconciled", "header", "init", "loop", "destructors", "end"}
      BY DEF Next, vars, Enumerate, Refuse, OpenLog, PublishHeader, InitNext, LateLoad,
             AddCollectors, FinishRun, Destroy
    <3> QED
      BY <3>1 DEF TypeOK
  <2>6. bound' \in [Collectors -> SUBSET Luids]
    BY <2>1, <2>2
  <2> QED
    BY <2>1, <2>2, <2>3, <2>4, <2>5, <2>6 DEF TypeOK
<1> QED
  BY <1>1, <1>2, HandlesInvariant, PTL DEF Spec
=============================================================================
