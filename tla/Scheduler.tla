------------------------------ MODULE Scheduler ------------------------------
(***************************************************************************)
(* The worker pool of the coordinator (pysrc/scheduler.py) together with   *)
(* the worker processes it launches and the coordinator glue that drives  *)
(* it.                                                                     *)
(*                                                                         *)
(* The scheduler keeps three pools of worker connections: new_workers     *)
(* (connected, not yet announced ready), active_workers (assigned a       *)
(* component) and cached_workers (idle, warm).  The two caches are        *)
(* OrderedDicts (worker_cache.LRUCache / PACache), modelled as sequences. *)
(* A component asks for a worker (get_compatible_worker_sync): a cached   *)
(* worker that passes the three-level compatibility check is reused,      *)
(* otherwise a cached worker may be evicted and a new worker process is   *)
(* launched; the component then waits until the new worker sends its     *)
(* first manifest (workerconn.on_msg -> on_worker_ready).                 *)
(*                                                                         *)
(* The C++ coordinator that calls these handlers is not part of the       *)
(* repository; its behaviour (accepting a connection, requesting a       *)
(* manifest, dispatching `execute`, handling `done`, one component at a   *)
(* time) is modelled from the spec (sections 4.G, 4.H, 5, 6).             *)
(*                                                                         *)
(* Each worker process keeps `env`: the (package, version) pairs its      *)
(* interpreter has imported.  Executing a component imports the           *)
(* component's packages, reported at the version installed for every     *)
(* worker, which need not be the version the component's manifest file    *)
(* records.  A worker's manifest is a snapshot of `env` taken when it     *)
(* answered request_manifest.                                              *)
(***************************************************************************)
EXTENDS Naturals, Sequences, SequencesExt, FiniteSets

CONSTANTS
  Workers,          \* worker ids (uuid4 in the code)
  Components,       \* library components that pipelines submit
  CompName,         \* [Components -> names]: manifest name of a component
  CompVersion,      \* [Components -> version strings]
  CompPkgs,         \* [Components -> set of <<package, version>>]: the
                    \* packages its .manifest.v2.yaml records
  Installed,        \* [package -> version]: what the workers' interpreter
                    \* (one PYTHONHOME and gramine manifest for all) has installed
  BasePkgs,         \* packages a freshly started worker has imported
  NumSlots,         \* values scheduler.default_num_slot may be given
  MaxRequests,      \* bound: number of components submitted in a behaviour
  Policy,           \* "LRU" (worker_cache.LRUCache) or "PAC" (PACache)
  CheckOnCaching,   \* scheduler.enable_compatibility_check_on_caching
  CheckOnNewWorker, \* scheduler.enable_compatibility_check_on_new_worker
  DisableL3,        \* scheduler.__debug_disable_level3_check
  SingletonWorker,  \* scheduler.__debug_singleton_worker
  NoManifest        \* model value: worker.manifest is None

ASSUME NumSlots \subseteq Nat /\ MaxRequests \in Nat \ {0}
ASSUME Policy \in {"LRU", "PAC"}
\* every launch takes a fresh uuid; enough ids for one launch per request
ASSUME MaxRequests <= Cardinality(Workers)

VARIABLES
  active,      \* Scheduler._active_workers, in OrderedDict order
  cached,      \* Scheduler._cached_workers, in OrderedDict order
  newWorkers,  \* Scheduler._new_workers
  waiting,     \* Scheduler._waiting_components (request numbers)
  manifest,    \* [Workers -> manifest record or NoManifest]: conn.manifest
  proc,        \* [Workers -> life cycle of the worker process]
  env,         \* [Workers -> packages imported by the worker interpreter]
  inbox,       \* [Workers -> Seq(command)]: coordinator -> worker channel
  outbox,      \* [Workers -> Seq(message)]: worker -> coordinator channel
  reqs,        \* Seq of submitted components and how each was served
  closed,      \* Scheduler.close() has run
  numSlot,     \* Scheduler.num_slot, read from the configuration in __init__
  monitor      \* TaskMonitor: [active |-> pipeline, finished |-> Seq(pipeline)]

vars == <<active, cached, newWorkers, waiting, manifest, proc, env,
          inbox, outbox, reqs, closed, numSlot, monitor>>

-----------------------------------------------------------------------------
(* Values.                                                                 *)

DummyName   == "DUMMY"        \* Manifest.DEFAULT_VALUES["name"]
ZeroVersion == "master.0.0"   \* SemanticVersion.build_zero_version()

PkgVer == BasePkgs \cup UNION {CompPkgs[c] : c \in Components}
          \cup {<<p, Installed[p]>> : p \in DOMAIN Installed}
Names  == {CompName[c] : c \in Components} \cup {DummyName}
Versions == {CompVersion[c] : c \in Components} \cup {ZeroVersion}
Requests == 1..MaxRequests

(* A SemanticVersion object.  The class defines no __eq__, so `==`        *)
(* compares objects by identity: `owner` names the object that created   *)
(* it, and two version objects are equal only if they are the same one.   *)
VersionObj(owner, str) == [owner |-> owner, str |-> str]

ManifestRec == [name: Names,
                version: [owner: Workers \cup Requests, str: Versions],
                pkgs: SUBSET PkgVer]

Execute(n, c)   == [cmd |-> "execute", req |-> n, comp |-> c]
RequestManifest == [cmd |-> "request_manifest", req |-> 0, comp |-> DummyName]
Exit            == [cmd |-> "exit", req |-> 0, comp |-> DummyName]
Commands == {RequestManifest, Exit} \cup
            {Execute(n, c) : n \in Requests, c \in Components}

ManifestMsg(pk) == [cmd |-> "response_manifest", pkgs |-> pk, req |-> 0]
DoneMsg(n)      == [cmd |-> "done", pkgs |-> {}, req |-> n]
Messages == {ManifestMsg(pk) : pk \in SUBSET PkgVer} \cup
            {DoneMsg(n) : n \in Requests}

(* TaskMonitor.get_dummy_pipeline: Pipeline("DUMMY", "DUMMY", []), made  *)
(* once and handed out again; the repository constructs no other         *)
(* Pipeline (the active_pipeline setter is only for the C++ side).        *)
DummyPipeline == [name |-> "DUMMY", version |-> "DUMMY", components |-> <<>>, done |-> FALSE]

Request == [c: Components, pkgs: SUBSET PkgVer, how: {"reuse", "launch", "poolfull"},
            state: {"waiting", "running", "done", "failed"}]

-----------------------------------------------------------------------------
(* Manifests and the compatibility check.                                  *)

(* A variant that records imported modules without their versions (as 0). *)
LoadModulesOnly(e, pk) == e \cup {<<pv[1], 0>> : pv \in pk}

(* execute_component imports the component's code, and with it the      *)
(* packages it uses; get_active_packages reports an imported package at   *)
(* the version installed in the worker's environment (working_set), not *)
(* at the version the component's manifest names.                        *)
Load(e, pk) == e \cup {<<pv[1], Installed[pv[1]]>> : pv \in pk}

(* Component.get_manifest returns the manifest the path setter loaded    *)
(* from the component's .manifest.v2.yaml; it is captured again only     *)
(* when none was loaded, so the packages are those the file records.     *)
CapturedPkgs(c) == CompPkgs[c]

(* The manifest of component c for request n, with packages pk; its      *)
(* version object is parsed by the component object's own Manifest.load, *)
(* so it belongs to request n.                                            *)
CompManifest(c, n, pk) ==
  [name |-> CompName[c], version |-> VersionObj(n, CompVersion[c]), pkgs |-> pk]

(* Manifest.packages_hash: sha256 of the sorted-key JSON of the packages *)
(* salted with the name; it tells two manifests apart exactly when their *)
(* packages or names differ.                                              *)
PackagesHash(m) == <<m.pkgs, m.name>>

(* A variant of is_compatible whose L3 compares package names only.      *)
IsCompatibleByName(m, c, n, pk) ==
  LET cm == CompManifest(c, n, pk)
  IN /\ m # NoManifest
     /\ \/ m.name = cm.name /\ m.version = cm.version
        \/ PackagesHash(m) = PackagesHash(cm)
        \/ ~DisableL3 /\ \A pv \in cm.pkgs : \E q \in m.pkgs : q[1] = pv[1]

(* Scheduler.is_compatible.  L1 compares names and version objects, L2   *)
(* the package hashes, L3 requires every package of the component to be  *)
(* in the worker's manifest at the same version.                          *)
IsCompatible(m, c, n, pk) ==
  LET cm == CompManifest(c, n, pk)
  IN /\ m # NoManifest
     /\ \/ m.name = cm.name /\ m.version = cm.version
        \/ PackagesHash(m) = PackagesHash(cm)
        \/ ~DisableL3 /\ cm.pkgs \subseteq m.pkgs

(* Scheduler._record_last_executed_component: only an existing manifest   *)
(* is stamped; its packages are left as they are.                          *)
RecordLastExecuted(m, w, c) ==
  IF m = NoManifest THEN m
  ELSE [m EXCEPT !.name = CompName[c], !.version = VersionObj(w, CompVersion[c])]

(* BaseWorkerConnection.on_msg("response_manifest"): the JSON is the     *)
(* worker's Manifest.capture_current_env() (name DUMMY, zero version);   *)
(* a worker that already had a manifest keeps its last name and version. *)
OnManifest(w, pk) ==
  IF manifest[w] = NoManifest
  THEN [name |-> DummyName, version |-> VersionObj(w, ZeroVersion), pkgs |-> pk]
  ELSE [name |-> manifest[w].name,
        version |-> VersionObj(w, manifest[w].version.str), pkgs |-> pk]


-----------------------------------------------------------------------------
(* Pool helpers.                                                           *)

(* A variant of is_worker_set_full that compares with `>`.               *)
IsWorkerSetFullStrict == Len(active) + Len(cached) > numSlot

(* get_compatible_worker_sync raises WorkerPoolFull unless an active slot *)
(* is free.                                                               *)
HasFreeSlot == Len(active) < numSlot

IsWorkerSetFull == Len(active) + Len(cached) >= numSlot

(* LRUCache.remove_end: popitem(last=False).                               *)
LRURemoveEnd == Head(cached)

(* PACache.remove_end: the first cached worker whose manifest names the  *)
(* requesting component ("submit locality"), else the oldest one.         *)
PACRemoveEnd(c) ==
  LET same == SelectSeq(cached, LAMBDA w : manifest[w] # NoManifest
                                           /\ manifest[w].name = CompName[c])
  IN IF same # <<>> THEN Head(same) ELSE Head(cached)

RemoveEnd(c) == IF Policy = "LRU" THEN LRURemoveEnd ELSE PACRemoveEnd(c)

(* LRUCache.put, which add calls: the OrderedDict entry is assigned and   *)
(* moved to the end, so the worker is last and there once.                *)
LRUPut(s, w) == Append(Remove(s, w), w)

(* LRUCache.remove: pop by the worker's id.                                *)
LRURemove(s, w) == Remove(s, w)

(* PACache.put (add calls it) and PACache.remove: the same OrderedDict    *)
(* assignment, move_to_end and pop.                                       *)
PACPut(s, w) == Append(Remove(s, w), w)
PACRemove(s, w) == Remove(s, w)

(* The add and remove of the pools' cache class.                          *)
CachePut(s, w) == IF Policy = "LRU" THEN LRUPut(s, w) ELSE PACPut(s, w)
CacheRemove(s, w) == IF Policy = "LRU" THEN LRURemove(s, w) ELSE PACRemove(s, w)

(* Scheduler.activate_worker and Scheduler.cache_worker.                 *)
ActivateWorker(w) ==
  /\ active' = CachePut(active, w)
  /\ cached' = CacheRemove(cached, w)

CacheWorker(w) ==
  /\ active' = CacheRemove(active, w)
  /\ cached' = CachePut(cached, w)

(* _execute_new_worker_command: a fresh uuid4 names the new worker.       *)
NewWorkerId == CHOOSE v \in Workers : proc[v] = "none"

Send(ch, w, m) == [ch EXCEPT ![w] = Append(@, m)]

Idle == \A n \in DOMAIN reqs : reqs[n].state \in {"done", "failed"}

-----------------------------------------------------------------------------
(* get_compatible_worker_sync(component): the coordinator asks for a      *)
(* worker for the next component c of the running pipeline.              *)

(* The cached workers the loop would take, in order.                      *)
Candidates(c, n, pk) ==
  IF SingletonWorker THEN cached
  ELSE IF CheckOnCaching
       THEN SelectSeq(cached, LAMBDA w : IsCompatible(manifest[w], c, n, pk))
       ELSE <<>>

(* A cached worker is activated, stamped, and sent the command.           *)
Reuse(w, n, c, pk) ==
  /\ ActivateWorker(w)
  /\ manifest' = [manifest EXCEPT ![w] = RecordLastExecuted(@, w, c)]
  /\ inbox' = Send(inbox, w, Execute(n, c))
  /\ reqs' = Append(reqs, [c |-> c, pkgs |-> pk, how |-> "reuse", state |-> "running"])
  /\ UNCHANGED <<monitor, numSlot, newWorkers, waiting, proc, env, outbox>>

(* A variant in which WorkerPoolFull is swallowed and the component is   *)
(* left waiting for a worker.                                             *)
PoolFullSwallowed(c, pk) ==
  /\ ~HasFreeSlot
  /\ reqs' = Append(reqs, [c |-> c, pkgs |-> pk, how |-> "poolfull", state |-> "waiting"])
  /\ UNCHANGED <<monitor, numSlot, active, cached, newWorkers, waiting, manifest, proc, env,
                 inbox, outbox>>

(* No worker reused and every slot active: WorkerPoolFull aborts it.     *)
PoolFull(c, pk) ==
  /\ ~HasFreeSlot
  /\ reqs' = Append(reqs, [c |-> c, pkgs |-> pk, how |-> "poolfull", state |-> "failed"])
  /\ UNCHANGED <<monitor, numSlot, active, cached, newWorkers, waiting, manifest, proc, env,
                 inbox, outbox>>

(* A variant of Launch that sends the victim `exit` but leaves it cached. *)
LaunchKeepVictim(n, c, pk) ==
  /\ HasFreeSlot
  /\ proc' = [proc EXCEPT ![NewWorkerId] = "launched"]
  /\ IF IsWorkerSetFull
     THEN /\ inbox' = Send(inbox, RemoveEnd(c), Exit)
          /\ UNCHANGED cached
     ELSE UNCHANGED <<cached, inbox>>
  /\ waiting' = waiting \cup {n}
  /\ reqs' = Append(reqs, [c |-> c, pkgs |-> pk, how |-> "launch", state |-> "waiting"])
  /\ UNCHANGED <<monitor, numSlot, active, newWorkers, manifest, env, outbox>>

(* Evict a cached worker if the worker set is full (on_cache_full makes   *)
(* the coordinator send it `exit`), launch a new worker process under a  *)
(* fresh id (_execute_new_worker_command), and wait for it.              *)
Launch(n, c, pk) ==
  /\ HasFreeSlot
  /\ proc' = [proc EXCEPT ![NewWorkerId] = "launched"]
  /\ IF IsWorkerSetFull
     THEN LET victim == RemoveEnd(c)
          IN /\ cached' = Remove(cached, victim)
             /\ inbox' = Send(inbox, victim, Exit)
     ELSE UNCHANGED <<cached, inbox>>
  /\ waiting' = waiting \cup {n}
  /\ reqs' = Append(reqs, [c |-> c, pkgs |-> pk, how |-> "launch", state |-> "waiting"])
  /\ UNCHANGED <<monitor, numSlot, active, newWorkers, manifest, env, outbox>>

GetWorker(c) ==
  /\ Idle /\ ~closed
  /\ Len(reqs) < MaxRequests
  /\ LET n == Len(reqs) + 1
         pk == CapturedPkgs(c)
         cands == Candidates(c, n, pk)
     IN /\ \/ cands # <<>> /\ Reuse(Head(cands), n, c, pk)
           \/ cands = <<>> /\ PoolFull(c, pk)
           \/ cands = <<>> /\ Launch(n, c, pk)
  /\ UNCHANGED closed

-----------------------------------------------------------------------------
(* The worker side and the coordinator's message handling.                 *)

(* The coordinator accepts the connection of a launched worker, registers *)
(* it with add_new_worker and asks for its manifest.                      *)
Accept(w) ==
  /\ proc[w] = "launched"
  /\ proc' = [proc EXCEPT ![w] = "connected"]
  /\ newWorkers' = Append(newWorkers, w)
  /\ inbox' = Send(inbox, w, RequestManifest)
  /\ UNCHANGED <<monitor, numSlot, active, cached, waiting, manifest, env, outbox, reqs, closed>>

(* The worker answers request_manifest with a snapshot of its imports.    *)
WorkerReplyManifest(w) ==
  /\ proc[w] = "connected"
  /\ inbox[w] # <<>> /\ Head(inbox[w]) = RequestManifest
  /\ inbox' = [inbox EXCEPT ![w] = Tail(@)]
  /\ outbox' = Send(outbox, w, ManifestMsg(env[w]))
  /\ UNCHANGED <<monitor, numSlot, active, cached, newWorkers, waiting, manifest, proc, env,
                 reqs, closed>>

(* execute_component: the component's code is imported and run, then the *)
(* worker reports `done` for the component id.                            *)
WorkerExecute(w) ==
  /\ proc[w] = "connected"
  /\ inbox[w] # <<>> /\ Head(inbox[w]).cmd = "execute"
  /\ LET m == Head(inbox[w])
     IN /\ env' = [env EXCEPT ![w] = Load(@, CompPkgs[m.comp])]
        /\ outbox' = Send(outbox, w, DoneMsg(m.req))
  /\ inbox' = [inbox EXCEPT ![w] = Tail(@)]
  /\ UNCHANGED <<monitor, numSlot, active, cached, newWorkers, waiting, manifest, proc,
                 reqs, closed>>

(* The worker terminates on `exit`; what was still queued for it is lost. *)
WorkerExit(w) ==
  /\ proc[w] = "connected"
  /\ inbox[w] # <<>> /\ Head(inbox[w]) = Exit
  /\ proc' = [proc EXCEPT ![w] = "exited"]
  /\ inbox' = [inbox EXCEPT ![w] = <<>>]
  /\ UNCHANGED <<monitor, numSlot, active, cached, newWorkers, waiting, manifest, env, outbox,
                 reqs, closed>>

(* A variant of on_worker_ready that leaves the worker in new_workers.   *)
OnWorkerReadyKeepNew(w, m) ==
  LET matches == {n \in waiting : ~CheckOnNewWorker \/ IsCompatible(m, reqs[n].c, n, reqs[n].pkgs)}
  IN IF matches = {}
     THEN /\ manifest' = [manifest EXCEPT ![w] = m]
          /\ cached' = CachePut(cached, w)
          /\ UNCHANGED <<active, newWorkers, waiting, inbox, reqs>>
     ELSE \E n \in matches :
        /\ waiting' = waiting \ {n}
        /\ active' = CachePut(active, w)
        /\ manifest' = [manifest EXCEPT ![w] = RecordLastExecuted(m, w, reqs[n].c)]
        /\ inbox' = Send(inbox, w, Execute(n, reqs[n].c))
        /\ reqs' = [reqs EXCEPT ![n].state = "running"]
        /\ UNCHANGED <<cached, newWorkers>>

(* Scheduler.on_worker_ready for a worker whose manifest is now m: the    *)
(* worker joins the cache; the first waiting component it suits (any one *)
(* if the check on new workers is off) takes it.  _waiting_components is *)
(* a set, so which waiting component comes first is not determined.       *)
OnWorkerReady(w, m) ==
  LET suits(n) == ~CheckOnNewWorker \/ IsCompatible(m, reqs[n].c, n, reqs[n].pkgs)
      matches  == {n \in waiting : suits(n)}
  IN IF matches = {}
     THEN /\ manifest' = [manifest EXCEPT ![w] = m]
          /\ cached' = CachePut(cached, w)
          /\ UNCHANGED <<active, newWorkers, waiting, inbox, reqs>>
     ELSE \E n \in matches :
        /\ waiting' = waiting \ {n}
        /\ newWorkers' = Remove(newWorkers, w)
        /\ active' = CachePut(active, w)
        /\ cached' = cached
        /\ manifest' = [manifest EXCEPT ![w] = RecordLastExecuted(m, w, reqs[n].c)]
        /\ inbox' = Send(inbox, w, Execute(n, reqs[n].c))
        /\ reqs' = [reqs EXCEPT ![n].state = "running"]

(* workerconn.on_msg("response_manifest") and, when it reports a new     *)
(* worker, on_worker_ready.                                               *)
HandleManifest(w) ==
  /\ outbox[w] # <<>> /\ Head(outbox[w]).cmd = "response_manifest"
  /\ outbox' = [outbox EXCEPT ![w] = Tail(@)]
  /\ LET m == OnManifest(w, Head(outbox[w]).pkgs)
     IN IF manifest[w] = NoManifest
        THEN OnWorkerReady(w, m)
        ELSE /\ manifest' = [manifest EXCEPT ![w] = m]
             /\ UNCHANGED <<active, cached, newWorkers, waiting, inbox, reqs>>
  /\ UNCHANGED <<monitor, numSlot, proc, env, closed>>

(* A variant of the `done` handling that caches the worker but never    *)
(* calls record_component_done.                                           *)
HandleDoneNoRecord(w) ==
  /\ outbox[w] # <<>> /\ Head(outbox[w]).cmd = "done"
  /\ outbox' = [outbox EXCEPT ![w] = Tail(@)]
  /\ CacheWorker(w)
  /\ UNCHANGED <<monitor, numSlot, newWorkers, waiting, manifest, proc, env, inbox, closed, reqs>>

(* DAGNode: _children starts empty and nothing appends to it.             *)
NodeChildren(n) == <<>>

(* DAGNode.is_end_of_sequence: a node without children.                   *)
IsEndOfSequence(n) == NodeChildren(n) = <<>>

(* TaskMonitor._on_pipeline_done: the active pipeline joins the finished  *)
(* ones and the dummy becomes active.                                     *)
OnPipelineDone ==
  monitor' = [active |-> DummyPipeline, finished |-> Append(monitor.finished, monitor.active)]

(* TaskMonitor.record_component_done: the component is marked done, the  *)
(* pipeline is closed if the component ends its sequence, and its lock is *)
(* released, so on_new_component returns to the pipeline.                *)
RecordComponentDone(n) ==
  /\ reqs' = [reqs EXCEPT ![n].state = "done"]
  /\ IF IsEndOfSequence(n) THEN OnPipelineDone ELSE UNCHANGED monitor

(* The worker's `done` (workerconn.on_msg): Scheduler.cache_worker moves *)
(* it back to the cache, then record_component_done releases the        *)
(* pipeline.                                                              *)
HandleDone(w) ==
  /\ outbox[w] # <<>> /\ Head(outbox[w]).cmd = "done"
  /\ outbox' = [outbox EXCEPT ![w] = Tail(@)]
  /\ CacheWorker(w)
  /\ RecordComponentDone(Head(outbox[w]).req)
  /\ UNCHANGED <<numSlot, newWorkers, waiting, manifest, proc, env, inbox, closed>>

(* Between components the coordinator may ask a cached worker for a      *)
(* fresh manifest (request_manifest "registers/updates" it).             *)
RefreshManifest(w) ==
  /\ ~closed
  /\ proc[w] = "connected" /\ Contains(cached, w)
  /\ inbox[w] = <<>> /\ outbox[w] = <<>>
  /\ inbox' = Send(inbox, w, RequestManifest)
  /\ UNCHANGED <<monitor, numSlot, active, cached, newWorkers, waiting, manifest, proc, env,
                 outbox, reqs, closed>>

(* Scheduler.close: `exit` to every cached, then every active worker.    *)
Close ==
  /\ Idle /\ ~closed
  /\ closed' = TRUE
  /\ inbox' = [w \in Workers |->
                 IF Contains(cached, w) \/ Contains(active, w)
                 THEN Append(inbox[w], Exit) ELSE inbox[w]]
  /\ UNCHANGED <<monitor, numSlot, active, cached, newWorkers, waiting, manifest, proc, env,
                 outbox, reqs>>

-----------------------------------------------------------------------------

Init ==
  /\ active = <<>> /\ cached = <<>> /\ newWorkers = <<>>
  /\ waiting = {}
  /\ manifest = [w \in Workers |-> NoManifest]
  /\ proc = [w \in Workers |-> "none"]
  /\ env = [w \in Workers |-> BasePkgs]
  /\ inbox = [w \in Workers |-> <<>>]
  /\ outbox = [w \in Workers |-> <<>>]
  /\ reqs = <<>>
  /\ closed = FALSE
  /\ numSlot \in NumSlots
  /\ monitor = [active |-> DummyPipeline, finished |-> <<>>]

Next ==
  \/ \E c \in Components : GetWorker(c)
  \/ \E w \in Workers :
       \/ Accept(w) \/ WorkerReplyManifest(w) \/ WorkerExecute(w)
       \/ WorkerExit(w) \/ HandleManifest(w) \/ HandleDone(w)
       \/ RefreshManifest(w)
  \/ Close

(* The worker processes and the coordinator's message loop keep running; *)
(* submitting, refreshing and closing are the user's choice.              *)
Fairness ==
  \A w \in Workers :
    /\ WF_vars(Accept(w)) /\ WF_vars(WorkerReplyManifest(w))
    /\ WF_vars(WorkerExecute(w)) /\ WF_vars(WorkerExit(w))
    /\ WF_vars(HandleManifest(w)) /\ WF_vars(HandleDone(w))

Spec == Init /\ [][Next]_vars /\ Fairness

-----------------------------------------------------------------------------
(* Properties.                                                             *)

Pools == newWorkers \o active \o cached

TypeOK ==
  /\ active \in Seq(Workers) /\ cached \in Seq(Workers)
  /\ newWorkers \in Seq(Workers)
  /\ waiting \subseteq Requests
  /\ manifest \in [Workers -> ManifestRec \cup {NoManifest}]
  /\ proc \in [Workers -> {"none", "launched", "connected", "exited"}]
  /\ env \in [Workers -> SUBSET PkgVer]
  /\ inbox \in [Workers -> Seq(Commands)]
  /\ outbox \in [Workers -> Seq(Messages)]
  /\ reqs \in Seq(Request) /\ Len(reqs) <= MaxRequests
  /\ closed \in BOOLEAN
  /\ numSlot \in NumSlots
  /\ monitor.active = DummyPipeline
  /\ monitor.finished \in Seq({DummyPipeline}) /\ Len(monitor.finished) <= MaxRequests

(* Admission (is_worker_set_full before every launch, eviction through   *)
(* remove_end): active plus cached workers never exceed num_slot.         *)
WorkerSetBound == Len(active) + Len(cached) <= numSlot

(* Every connected worker is in exactly one of new_workers, active and   *)
(* cached (spec 5): on_worker_ready, activate_worker and cache_worker    *)
(* each move it out of one pool into another.                             *)
DisjointPools == IsInjective(Pools)

(* A worker that was told to exit (eviction through on_cache_full) or   *)
(* has exited is out of every pool while the scheduler is open: it is    *)
(* never handed a component again.                                        *)
ExitedOutOfPool ==
  ~closed =>
    \A w \in Workers :
      (proc[w] = "exited" \/ Exit \in ToSet(inbox[w])) => ~Contains(Pools, w)

(* A cached worker that get_compatible_worker_sync reuses has already    *)
(* imported every package the component's manifest lists, at the listed  *)
(* version: the worker manifest the check relies on may be old (it is    *)
(* only refreshed on request_manifest), but never claims a package the   *)
(* worker does not have.                                                  *)
ReuseMatchesManifest ==
  [][\A w \in Workers :
       (Len(reqs') > Len(reqs) /\ Contains(cached, w) /\ Contains(active', w))
         => Last(reqs').pkgs \subseteq env[w]]_vars

(* Every component that asked for a worker eventually finishes (or fails *)
(* with WorkerPoolFull): a launched worker always ends up running it.    *)
RequestsTerminate == ~Idle ~> Idle

(* Spec 4.G L1 and scenario 1: a component whose name and version are    *)
(* those of the component a cached worker last executed is compatible    *)
(* with that worker, so submitting it again reuses the worker.           *)
IdenticalComponentReused ==
  [][\A w \in Workers :
       (/\ Len(reqs') > Len(reqs) /\ Contains(cached, w)
        /\ manifest[w] # NoManifest
        /\ manifest[w].name = CompName[Last(reqs').c]
        /\ manifest[w].version.str = CompVersion[Last(reqs').c])
         => Last(reqs').how = "reuse"]_vars
====
