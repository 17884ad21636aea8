------------------------------- MODULE Startup -------------------------------
(***************************************************************************)
(* The life of `b70tools run` around its poll loop: three enumerations are *)
(* reconciled into adapter identities, the log gets its header, every      *)
(* collector's init is audited, the collectors whose init succeeded are    *)
(* polled, and everything is shut down, by hand and again by destructors.  *)
(*                                                                         *)
(* Any call to the operating system or a driver may fail.  A failing init  *)
(* often returns with some of its resources still open: they are left to   *)
(* shutdown, which runs for every collector.                               *)
(***************************************************************************)
EXTENDS Integers, FiniteSets, FiniteSetsExt, Sequences, SequencesExt

CONSTANTS
  Luids,      \* full 64-bit LUIDs; none is 0
  LowHalf,    \* LUID -> its low 32 bits, which become the adapter_id
  NoLuid,     \* a devnode or device that reports no LUID
  MaxFound,   \* bound on the length of an enumeration
  Dragged,    \* collector -> modules its driver may pull into the process
  Spawners,   \* collectors whose init may leave a thread behind
  Late,       \* modules such a thread may bring in at any later time
  Preloaded,  \* modules in the process when the first collector is initialised
  MayFail     \* collectors whose audit may get a failed snapshot

\* In the order of their inits.
Order == <<"d3dkmt", "dxgi_vmi", "vk_mem", "igcl", "host_mem", "pdh_mem", "pdh_engine">>
Collectors == Range(Order)
DriverPassive == {"vk_mem", "igcl"}     \* declared_side_effects; the rest are TrulyPassive
HandleKinds == {"dll", "adapters", "factory", "instance", "api", "query"}
Libraries == {"gdi32", "vulkan-1", "ControlLib"}
Modules == Libraries \cup Preloaded \cup Late \cup UNION {Dragged[c] : c \in Collectors}

\* What a collector must hold, and for some adapter, to publish anything.
Needs ==
  [c \in Collectors |->
     CASE c = "d3dkmt"   -> {"dll", "adapters"}
       [] c = "dxgi_vmi" -> {"factory", "adapters"}
       [] c = "vk_mem"   -> {"dll", "instance"}
       [] c = "igcl"     -> {"dll", "api"}
       [] c = "host_mem" -> {}
       [] OTHER          -> {"query"}]

ASSUME LuidAssumption == NoLuid \notin Luids /\ DOMAIN LowHalf = Luids
ASSUME BoundAssumption == MaxFound \in Nat
ASSUME SideEffectsAssumption == DOMAIN Dragged = Collectors /\ Spawners \subseteq Collectors
ASSUME SnapshotAssumption == MayFail \subseteq Collectors

VARIABLES
  pc,          \* "enumerate", "reconciled", "header", "init", "loop", "destructors", "end"
  found,       \* the three enumerations, until the header is written
  identities,  \* rec.adapters with their bindings, until the header is written
  notes,       \* rec.notes, until the header is written
  adapters,    \* the LUIDs of rec.adapters, which is what inits look at
  next,        \* position in Order of the next collector to initialise
  open,        \* collector -> what the system holds open for it
  held,        \* collector -> its handles and pointers that are not null
  bound,       \* collector -> adapters in its bound list
  canDestroy,  \* Vulkan: vkDestroyInstance was found
  ready,       \* the ok_ flags
  loaded,      \* the modules in the process; followed until the last init
  threads,     \* collectors whose init left a thread behind
  broughtBy,   \* history variable: module -> the collector whose init was running
               \* when it came, "nobody" if none was
  blind,       \* history variable: collectors whose audit has a failed snapshot
  log,         \* records published before the loop
  polled,      \* collectors added to the loop
  exit         \* exit code, -1 while running

enumVars == <<found, identities, notes>>
handleVars == <<open, held, bound, canDestroy>>
processVars == <<loaded, threads, broughtBy, blind>>
vars == <<pc, enumVars, adapters, next, handleVars, ready, processVars, log, polled, exit>>

Nothing == [dxgi |-> << >>, setup |-> << >>, vulkan |-> [ok |-> FALSE, devices |-> << >>]]

-----------------------------------------------------------------------------
(***************************************************************************)
(* Enumeration and reconciliation.                                         *)
(***************************************************************************)
DxgiResults == BoundedSeq([luid : Luids, skip : BOOLEAN], MaxFound)
SetupResults == BoundedSeq(Luids \cup {NoLuid}, MaxFound)

\* A loader, an instance or an entry point that is missing leaves no devices.
VulkanResults ==
  {Nothing.vulkan}
    \cup {[ok |-> TRUE, devices |-> s] : s \in BoundedSeq(Luids \cup {NoLuid}, MaxFound)}

\* The adapters DXGI reports that are neither software nor remote.
Hardware(f) == {i \in DOMAIN f.dxgi : ~f.dxgi[i].skip}
HardwareLuids(f) == {f.dxgi[i].luid : i \in Hardware(f)}
Ambiguous(f) == \E i, j \in Hardware(f) : i # j /\ f.dxgi[i].luid = f.dxgi[j].luid

\* Mutant of Match: the maps are keyed by the adapter_id instead of the LUID.
MatchById(s, luid) ==
  Max({0} \cup {i \in DOMAIN s : s[i] # NoLuid /\ LowHalf[s[i]] = LowHalf[luid]})

\* Mutant of Match: the place is counted from one place too late.
MatchShifted(s, luid) == Max({0} \cup {i + 1 : i \in {j \in DOMAIN s : s[j] = luid}})

\* The place of the record bound to a LUID, 0 for none: the last one wins.
Match(s, luid) == Max({0} \cup {i \in DOMAIN s : s[i] = luid})

Identity(f, luid) ==
  [id |-> LowHalf[luid], luid |-> luid,
   devnode |-> Match(f.setup, luid), device |-> Match(f.vulkan.devices, luid)]

Notes(f) ==
  LET luids == HardwareLuids(f)
      devices == f.vulkan.devices
  IN  {<<"no devnode", l>> : l \in {m \in luids : Match(f.setup, m) = 0}}
        \cup {<<"no device", l>> : l \in {m \in luids : f.vulkan.ok /\ Match(devices, m) = 0}}
        \cup {<<"stray device", i>> : i \in {d \in DOMAIN devices :
                \A a \in Range(f.dxgi) : a.luid # devices[d]}}

Enumerate ==
  /\ pc = "enumerate"
  /\ \E dxgi \in DxgiResults, setup \in SetupResults, vulkan \in VulkanResults :
       LET f == [dxgi |-> dxgi, setup |-> setup, vulkan |-> vulkan]
       IN  /\ found' = f
           /\ identities' = {Identity(f, luid) : luid \in HardwareLuids(f)}
           /\ notes' = Notes(f)
           /\ adapters' = HardwareLuids(f)
  /\ pc' = "reconciled"
  /\ UNCHANGED <<next, handleVars, ready, processVars, log, polled, exit>>

\* No adapter, adapters that cannot be told apart, or no file to write to.
Refuse ==
  /\ pc = "reconciled"
  /\ exit' = IF adapters = {} THEN 2 ELSE IF Ambiguous(found) THEN 3 ELSE 2
  /\ pc' = "end"
  /\ UNCHANGED <<enumVars, adapters, next, handleVars, ready, processVars, log, polled>>

OpenLog ==
  /\ pc = "reconciled" /\ adapters # {} /\ ~Ambiguous(found)
  /\ pc' = "header"
  /\ UNCHANGED <<enumVars, adapters, next, handleVars, ready, processVars, log, polled, exit>>

\* The identities, then the fingerprint.  Nothing reads the enumerations again.
PublishHeader ==
  /\ pc = "header"
  /\ log' = [i \in 1..Cardinality(identities) |-> [kind |-> "identity"]]
              \o <<[kind |-> "fingerprint"]>>
  /\ found' = Nothing /\ identities' = {} /\ notes' = {}
  /\ pc' = "init"
  /\ UNCHANGED <<adapters, next, handleVars, ready, processVars, polled, exit>>

-----------------------------------------------------------------------------
(***************************************************************************)
(* audit_init: a snapshot, the init, another snapshot, and the record of   *)
(* their difference.                                                       *)
(***************************************************************************)
Snapshot(modules, count) == [modules |-> modules, threads |-> count]

\* What is true of the process: the main thread and those left behind.
Truth == Snapshot(loaded, 1 + Cardinality(threads))

\* A list that cannot be had is empty, and so is the count: 0.
SnapshotsOf(truth) == [modules : {truth.modules, {}}, threads : {truth.threads, 0}]

\* Mutant of BuildAudit: compared with the modules the process started with.
BuildAuditSinceStart(c, before, after) ==
  [kind |-> "audit", who |-> c, modules |-> after.modules \ Preloaded,
   undeclared |-> after.threads > before.threads]

\* A TrulyPassive collector may add neither thread nor module.
BuildAudit(c, before, after) ==
  LET came == after.modules \ before.modules
  IN  [kind |-> "audit", who |-> c, modules |-> came,
       undeclared |-> \/ after.threads > before.threads
                      \/ c \notin DriverPassive /\ came # {}]

\* What an init leaves behind: what is open and what is not null, the bound list,
\* the result, the records it publishes itself, and vkDestroyInstance.
Outcome(handles, devices) ==
  [open |-> handles, held |-> handles, bound |-> devices, ok |-> devices # {},
   remarks |-> 0, canDestroy |-> FALSE]

Failed == Outcome({}, {})
With(h, devices) == IF devices = {} THEN {} ELSE {h}

\* Mutant of D3dkmtInits: missing exports free the library but keep the pointer.
D3dkmtInitsDangling ==
  {[Failed EXCEPT !.held = {"dll"}]} \cup
  {Outcome({"dll"} \cup With("adapters", B), B) : B \in SUBSET adapters}

\* Without gdi32 or one of its exports nothing stays open.  An adapter that
\* cannot be opened is reported.
D3dkmtInits ==
  {Failed} \cup
  {[Outcome({"dll"} \cup With("adapters", B), B) EXCEPT
      !.remarks = Cardinality(adapters \ B)] : B \in SUBSET adapters}

DxgiInits ==
  {Failed} \cup {Outcome({"factory"} \cup With("adapters", B), B) : B \in SUBSET adapters}

\* Mutant of VulkanInits: missing instance entry points are not an error.
VulkanInitsLenient ==
  {Failed, Outcome({"dll"}, {})} \cup
  {[Outcome({"dll"}, {}) EXCEPT !.ok = TRUE]} \cup
  {[Outcome({"dll", "instance"}, B) EXCEPT !.canDestroy = TRUE] : B \in SUBSET adapters}

\* No loader; no vkCreateInstance, or it fails; entry points missing; devices bound.
VulkanInits ==
  {Failed, Outcome({"dll"}, {})} \cup
  {[Outcome({"dll", "instance"}, {}) EXCEPT !.canDestroy = d] : d \in BOOLEAN} \cup
  {[Outcome({"dll", "instance"}, B) EXCEPT !.canDestroy = TRUE] : B \in SUBSET adapters}

\* No ControlLib; exports missing or ctlInit fails; devices bound, each reported.
IgclInits ==
  {Failed, Outcome({"dll"}, {})} \cup
  {[Outcome({"dll", "api"}, B) EXCEPT !.remarks = Cardinality(B)] : B \in SUBSET adapters}

HostMemoryInits == {[Failed EXCEPT !.ok = b] : b \in BOOLEAN}

\* A query whose counters cannot be added is closed at once.
PdhMemoryInits == {Failed, Outcome({"query"}, adapters)}
PdhEngineInits == PdhMemoryInits     \* one counter instead of two

Inits(c) ==
  CASE c = "d3dkmt"   -> D3dkmtInits
    [] c = "dxgi_vmi" -> DxgiInits
    [] c = "vk_mem"   -> VulkanInits
    [] c = "igcl"     -> IgclInits
    [] c = "host_mem" -> HostMemoryInits
    [] c = "pdh_mem"  -> PdhMemoryInits
    [] OTHER          -> PdhEngineInits

\* The library a collector loads itself and has not freed again.
Library(c, o) ==
  IF "dll" \notin o.open THEN {}
  ELSE CASE c = "d3dkmt" -> {"gdi32"}
         [] c = "vk_mem" -> {"vulkan-1"}
         [] c = "igcl"   -> {"ControlLib"}

\* Snapshot, init, snapshot, record.
AuditInit(c, o, came, spawns) ==
  /\ open' = [open EXCEPT ![c] = o.open]
  /\ held' = [held EXCEPT ![c] = o.held]
  /\ bound' = [bound EXCEPT ![c] = o.bound]
  /\ canDestroy' = (canDestroy \/ o.canDestroy)
  /\ ready' = IF o.ok THEN ready \cup {c} ELSE ready
  /\ loaded' = loaded \cup came
  /\ threads' = IF spawns THEN threads \cup {c} ELSE threads
  /\ broughtBy' = [m \in Modules |-> IF m \in came \ loaded THEN c ELSE broughtBy[m]]
  /\ \E before \in SnapshotsOf(Truth), after \in SnapshotsOf(Truth') :
       /\ blind' = IF before = Truth /\ after = Truth' THEN blind ELSE blind \cup {c}
       /\ blind' \subseteq MayFail
       /\ log' = log \o [i \in 1..o.remarks |-> [kind |-> "remark"]]
                     \o <<BuildAudit(c, before, after)>>

\* Drivers may bring in more modules and start a thread, and so may the threads
\* that earlier inits have left.
InitNext ==
  /\ pc = "init" /\ next <= Len(Order)
  /\ LET c == Order[next]
     IN  \E o \in Inits(c), dragged \in SUBSET Dragged[c],
            late \in SUBSET (IF threads = {} THEN {} ELSE Late),
            spawns \in IF c \in Spawners THEN BOOLEAN ELSE {FALSE} :
              AuditInit(c, o, Library(c, o) \cup dragged \cup late, spawns)
  /\ next' = next + 1
  /\ UNCHANGED <<pc, enumVars, adapters, polled, exit>>

\* Between two audits only a thread that was left behind can bring in a module.
LateLoad ==
  /\ pc = "init" /\ threads # {}
  /\ \E m \in Late \ loaded : loaded' = loaded \cup {m}
  /\ UNCHANGED <<pc, enumVars, adapters, next, handleVars, ready, threads, broughtBy, blind,
                 log, polled, exit>>

-----------------------------------------------------------------------------
(***************************************************************************)
(* The loop and the end.                                                   *)
(***************************************************************************)
AddCollectors ==
  /\ pc = "init" /\ next > Len(Order)
  /\ polled' = ready
  /\ pc' = "loop"
  /\ UNCHANGED <<enumVars, adapters, next, handleVars, ready, processVars, log, exit>>

\* Mutant of Released: only collectors whose init succeeded are shut down.
ReleasedIfReady(c) ==
  IF c \notin ready THEN {}
  ELSE IF c = "vk_mem" /\ ~canDestroy THEN held[c] \ {"instance"} ELSE held[c]

\* Everything that is not null, except an instance nothing can destroy.
Released(c) ==
  IF c = "vk_mem" /\ ~canDestroy THEN held[c] \ {"instance"} ELSE held[c]

\* shutdown() of every collector.
ShutDown ==
  /\ open' = [c \in Collectors |-> open[c] \ Released(c)]
  /\ held' = [c \in Collectors |-> held[c] \ Released(c)]
  /\ bound' = [c \in Collectors |-> {}]
  /\ canDestroy' = FALSE

\* The loop is over.  advanced: no adapter's state is still Unknown.
FinishRun(advanced) ==
  /\ pc = "loop"
  /\ exit' = IF Cardinality(adapters) >= 2 /\ "d3dkmt" \in ready /\ advanced THEN 0 ELSE 1
  /\ ShutDown
  /\ polled' = {}
  /\ pc' = "destructors"
  /\ UNCHANGED <<enumVars, adapters, next, ready, processVars, log>>

\* Each destructor calls shutdown again.
Destroy ==
  /\ pc = "destructors"
  /\ ShutDown
  /\ pc' = "end"
  /\ UNCHANGED <<enumVars, adapters, next, ready, processVars, log, polled, exit>>

Init ==
  /\ pc = "enumerate" /\ next = 1 /\ exit = -1
  /\ found = Nothing /\ identities = {} /\ notes = {} /\ adapters = {}
  /\ open = [c \in Collectors |-> {}] /\ held = [c \in Collectors |-> {}]
  /\ bound = [c \in Collectors |-> {}] /\ canDestroy = FALSE
  /\ ready = {} /\ log = << >> /\ polled = {}
  /\ loaded = Preloaded /\ threads = {} /\ blind = {}
  /\ broughtBy = [m \in Modules |-> "nobody"]

Next ==
  \/ Enumerate
  \/ Refuse
  \/ OpenLog
  \/ PublishHeader
  \/ InitNext
  \/ LateLoad
  \/ AddCollectors
  \/ \E advanced \in BOOLEAN : FinishRun(advanced)
  \/ Destroy

Spec == Init /\ [][Next]_vars
-----------------------------------------------------------------------------
(***************************************************************************)
(* Properties.                                                             *)
(***************************************************************************)
TypeOK ==
  /\ pc \in {"enumerate", "reconciled", "header", "init", "loop", "destructors", "end"}
  /\ identities \subseteq [id : Range(LowHalf), luid : Luids,
                            devnode : 0..MaxFound, device : 0..MaxFound]
  /\ adapters \subseteq Luids
  /\ next \in 1..(Len(Order) + 1)
  /\ open \in [Collectors -> SUBSET HandleKinds]
  /\ held \in [Collectors -> SUBSET HandleKinds]
  /\ bound \in [Collectors -> SUBSET Luids]
  /\ canDestroy \in BOOLEAN
  /\ ready \subseteq Collectors /\ polled \subseteq Collectors
  /\ loaded \subseteq Modules
  /\ threads \subseteq Collectors /\ blind \subseteq Collectors
  /\ broughtBy \in [Modules -> Collectors \cup {"nobody"}]
  /\ exit \in {-1, 0, 1, 2, 3}

Audits == {r \in Range(log) : r.kind = "audit"}

IsLastOf(luid, i, s) == s[i] = luid /\ \A j \in DOMAIN s : j > i => s[j] # luid

\* An adapter is bound only to records with its own full LUID, although LUIDs may
\* share the half that becomes the adapter_id; what is missing is noted; and no
\* Vulkan device disappears: it is bound, noted, of an adapter that is left out, or
\* hidden by a later device with its LUID.  Such an ambiguity among devnodes or
\* devices is no reason to refuse: the last record wins, without a note.
\* Code: reconcile_identity.
IdentitiesSound ==
  pc \in {"reconciled", "header"} =>
    LET devices == found.vulkan.devices
    IN  /\ \A id \in identities :
             /\ IF id.devnode = 0 THEN <<"no devnode", id.luid>> \in notes
                ELSE IsLastOf(id.luid, id.devnode, found.setup)
             /\ IF id.device = 0 THEN found.vulkan.ok => <<"no device", id.luid>> \in notes
                ELSE IsLastOf(id.luid, id.device, devices)
        /\ \A i \in DOMAIN devices :
             \/ \E id \in identities : id.device = i
             \/ <<"stray device", i>> \in notes
             \/ \E a \in Range(found.dxgi) : a.skip /\ a.luid = devices[i]
             \/ \E j \in DOMAIN devices : j > i /\ devices[j] = devices[i]

\* A collector in the loop holds everything its polls use, for an adapter of
\* this run, whatever failed before: the init results decide, not the handles.
\* Code: the returns of seven inits, the ok_ flags and add_collector.
PolledIsReady ==
  pc = "loop" =>
    \A c \in polled :
      /\ Needs[c] \subseteq open[c]
      /\ bound[c] \subseteq adapters
      /\ c # "host_mem" => bound[c] # {}

\* A handle or pointer that is not null is open: no shutdown closes something
\* twice, neither after a failed init nor from the destructor.
\* Code: the failure paths of the inits, and every shutdown.
PointersValid == \A c \in Collectors : held[c] \subseteq open[c]

\* The shutdowns at the end close all that inits have opened, also those that
\* failed half way; only an instance without vkDestroyInstance remains.
\* Code: the end of run_real and every shutdown.
AllReleased ==
  [][pc = "loop" /\ pc' # "loop" =>
       \A c \in Collectors :
         open'[c] \subseteq IF c = "vk_mem" /\ ~canDestroy THEN {"instance"} ELSE {}]_vars

\* When polling starts, an audit whose snapshots succeeded names the modules that
\* came into the process while its init was running, no more and no fewer, whatever
\* earlier inits, their threads and their failed snapshots did; what a thread brought
\* in between two inits is in none of them.  An audit with a failed snapshot names
\* nothing, or all that is in the process together with its own modules.
\* Code: audit_init, take_library_snapshot and build_audit_record.
ModulesAttributed ==
  pc = "loop" =>
    \A r \in Audits :
      LET own == {m \in Modules : broughtBy[m] = r.who}
      IN  \/ r.modules = own
          \/ r.who \in blind /\ (r.modules = {} \/ Preloaded \cup own \subseteq r.modules)

\* The plan's library audit: a collector whose init had side effects it does not
\* declare is disabled for the session.  Code: audit_init records and goes on.
AuditFailureDisables ==
  \A r \in Audits : r.undeclared => r.who \notin polled
=============================================================================
