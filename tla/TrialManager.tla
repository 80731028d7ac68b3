---------------------------- MODULE TrialManager ----------------------------
(***************************************************************************)
(* The experiment driver (exp_runner.start), the trial manager's           *)
(* commit_workspace over a TrialTree, and the semantic store it commits    *)
(* into, on the file-system storage provider.                              *)
(*                                                                         *)
(* A create_pipeline task builds a workspace whose pipeline is a dataset   *)
(* followed by libraries, each at the version the task names, on one       *)
(* branch.  commit_workspace reads the branch head, builds a trial tree    *)
(* over the previous workspace and the new one, finds the new pipeline's   *)
(* path, skips the leading nodes the previous workspace already trained,   *)
(* runs the rest (each on a worker; the run itself is abstracted), saves   *)
(* the outputs of the runs, and puts the new workspace meta: first into    *)
(* the Entity column, then its hash into the VersionMapping column.        *)
(*                                                                         *)
(* Every put of the file-system provider writes PARENTS (the branch head   *)
(* before it) and then moves @HEAD to a fresh, time-salted hash.  The      *)
(* content of an output archive is abstracted to what determines it: the   *)
(* keys of the pipeline prefix whose runs produced it.                     *)
(*                                                                         *)
(* Any exception ends the experiment (start() does not catch); an          *)
(* operator may then run the same experiment manifest again, against the  *)
(* same store.  The process may also die between two puts.                 *)
(***************************************************************************)
EXTENDS Naturals, Sequences, SequencesExt, FiniteSets, Functions

CONSTANTS
  L,          \* len(conf["pipeline"]): stage 1 is the dataset
  Branches,   \* branches the tasks name (task["branch"])
  StageVers,  \* [1..L -> SUBSET (Nat \X Nat)]: versions a task may give a stage
  NumTasks,   \* number of tasks in the experiment manifest
  MaxRuns,    \* bound: number of times the experiment is started
  NoCommit,   \* model value: no commit in progress
  NoEntry     \* model value: no version mapping entry

ASSUME L >= 2 /\ NumTasks >= 1 /\ MaxRuns >= 1

Stages == 1..L
DatasetBranch == "not-schema-hashable"

(* make_pipeline_and_commit: the key of stage i at version v; a dataset   *)
(* key carries the not-schema-hashable branch, a library key the task's.   *)
(* MetaKey compares keys by value (__eq__, __hash__).                      *)
Key(i, b, v) == [pos |-> i, br |-> IF i = 1 THEN DatasetBranch ELSE b,
                 api |-> v[1], inc |-> v[2]]
IsDataset(k) == k.pos = 1

VersionChoices == {vs \in [Stages -> UNION {StageVers[i] : i \in Stages}] :
                     \A i \in Stages : vs[i] \in StageVers[i]}
PipelineOf(b, vs) == [i \in Stages |-> Key(i, b, vs[i])]

Tasks == {[act |-> "create", br |-> b, from |-> b, vers |-> vs] :
            b \in Branches, vs \in VersionChoices}
         \cup {[act |-> "merge", br |-> b, from |-> c, vers |-> CHOOSE vs \in VersionChoices : TRUE] :
                 b, c \in Branches}

(* Store keys: the workspace's Entity key, its VersionMapping key for a   *)
(* semantic version, and the runtime output key of a stage (the runtime   *)
(* key names the workspace and the component, not their versions).        *)
WsVersions == {0} \X (0..(MaxRuns * NumTasks))
EntityKey     == [col |-> "Entity", pos |-> 0, ver |-> <<0, 0>>]
VersionKey(v) == [col |-> "VersionMapping", pos |-> 0, ver |-> v]
OutputKey(i)  == [col |-> "output", pos |-> i, ver |-> <<0, 0>>]
StoreKeys == {EntityKey} \cup {VersionKey(v) : v \in WsVersions}
             \cup {OutputKey(i) : i \in Stages}

VARIABLES
  tasks,      \* conf["tasks"]: the experiment manifest
  next,       \* index of the task start() is at
  runs,       \* number of times start() has been invoked
  pc,         \* "idle", "save" (outputs being put), "vm" (meta put, mapping not yet), "aborted"
  cur,        \* the commit_workspace call in progress
  heads,      \* [StoreKeys \X Branches -> hash]: @HEAD files, 0 when absent
  wsBlobs,    \* Entity column: workspace meta files
  vmBlobs,    \* VersionMapping column: hash strings
  outBlobs,   \* WorkspaceRuntime output column: output archives
  clock       \* time.time() that salts the next hash

vars == <<tasks, next, runs, pc, cur, heads, wsBlobs, vmBlobs, outBlobs, clock>>

-----------------------------------------------------------------------------
(* A variant whose hash is the clock before it advances.                  *)
NewBlobStale(sk, b, v) == [key |-> sk, br |-> b, h |-> clock, val |-> v,
                           par |-> heads[<<sk, b>>]]

(* FileSystemStorage.put: PARENTS gets the current head ("<null>", 0, if  *)
(* none), then @HEAD moves to the new time-salted hash.                    *)
NewBlob(sk, b, v) == [key |-> sk, br |-> b, h |-> clock + 1, val |-> v,
                      par |-> heads[<<sk, b>>]]

(* A variant that moves @HEAD before reading it for PARENTS.               *)
FSPutHeadFirst(sk, b, v) ==
  [blob |-> [NewBlob(sk, b, v) EXCEPT !.par = clock + 1],
   heads |-> [heads EXCEPT ![<<sk, b>>] = clock + 1]]

FSPut(sk, b, v) ==
  [blob |-> NewBlob(sk, b, v), heads |-> [heads EXCEPT ![<<sk, b>>] = clock + 1]]

(* The blob of a column with hash h (get with hversion scans branches).  *)
BlobWith(col, h) == CHOOSE bl \in col : bl.h = h

HasHead(b) == heads[<<EntityKey, b>>] # 0
HeadWs(b)  == BlobWith(wsBlobs, heads[<<EntityKey, b>>]).val

-----------------------------------------------------------------------------
(* TrialTree over a list of workspaces wss.                                *)

Trained(w) == DOMAIN w.outputs # {}

Depth(wss) == Max({Len(wss[i].pipeline) : i \in DOMAIN wss})

(* _init_stage_dict                                                        *)
Stage(wss, i) == {wss[j].pipeline[i] : j \in {j \in DOMAIN wss : Len(wss[j].pipeline) >= i}}

(* _init_compatibility_dict2: for each stage i, the keys at i of the      *)
(* workspaces grouped by api version, times their keys at i + 1.          *)
Compatibility(wss) ==
  UNION {{<<wss[j1].pipeline[i], wss[j2].pipeline[i + 1]>> :
            j1 \in {j \in DOMAIN wss : wss[j].pipeline[i].api = wss[j2].pipeline[i].api}} :
           i \in 1..(Len(wss[1].pipeline) - 1), j2 \in DOMAIN wss}

(* Tree.add_nodes gives every node of level i a child per key of stage i, *)
(* so the root-to-leaf paths are the sequences of one key per stage.      *)
TreePaths(wss) ==
  {p \in [1..Depth(wss) -> UNION {Stage(wss, i) : i \in 1..Depth(wss)}] :
     \A i \in 1..Depth(wss) : p[i] \in Stage(wss, i)}

(* Tree.add_nodes: the node at path p (the root is <<>>, TreeNode.is_root) *)
(* has a child per key of the next stage, down to the tree depth.         *)
IsRoot(p) == p = <<>>
Children(wss, p) ==
  IF Len(p) < Depth(wss) THEN {Append(p, k) : k \in Stage(wss, Len(p) + 1)} ELSE {}

(* _dfs_prune: a child is pruned when its key does not follow its         *)
(* parent's in the compatibility set, unless the parent is the root.      *)
PrunedEdge(wss, p, c) == ~IsRoot(p) /\ <<Last(p), Last(c)>> \notin Compatibility(wss)

(* The nodes _dfs_prune visits (it recurses into every child it keeps)    *)
(* and the lists it appends at the leaves (the walking list: the path     *)
(* without the root).                                                      *)
RECURSIVE DfsPruneVisits(_, _)
DfsPruneVisits(wss, p) ==
  {p} \cup UNION {DfsPruneVisits(wss, c) : c \in {c \in Children(wss, p) : ~PrunedEdge(wss, p, c)}}
RECURSIVE DfsPrune(_, _)
DfsPrune(wss, p) ==
  IF Children(wss, p) = {} THEN {p}
  ELSE UNION {DfsPrune(wss, c) : c \in {c \in Children(wss, p) : ~PrunedEdge(wss, p, c)}}

(* child.pruned: set on the children of visited nodes whose edge fails.  *)
PrunedFlags(wss) ==
  {c \in UNION {Children(wss, p) : p \in DfsPruneVisits(wss, <<>>)} : PrunedEdge(wss, Front(c), c)}

(* TrialTree.__init__: stage dict, compatibility set, add_nodes, then    *)
(* _dfs_prune from the root, marking, and _dfs_prune again; the second    *)
(* walk prunes on compatibility alone, so both walk the same lists and    *)
(* set the same flags.                                                     *)
TrialTreeInit(wss) == [lists |-> DfsPrune(wss, <<>>), pruned |-> PrunedFlags(wss)]

(* candidate_node_lists: the lists the second _dfs_prune walked.          *)
CandidateNodeLists(wss) == TrialTreeInit(wss).lists

(* A variant of dfs_train that descends into pruned children too.        *)
RECURSIVE DfsTrainAll(_, _)
DfsTrainAll(wss, p) ==
  IF Children(wss, p) = {} THEN {p}
  ELSE UNION {DfsTrainAll(wss, c) : c \in Children(wss, p)}

(* dfs_train: descends into every child whose pruned flag __init__ left  *)
(* unset and hands the walking list at each leaf to the train function.  *)
RECURSIVE DfsTrain(_, _)
DfsTrain(wss, p) ==
  IF Children(wss, p) = {} THEN {p}
  ELSE UNION {DfsTrain(wss, c) : c \in Children(wss, p) \ TrialTreeInit(wss).pruned}

(* _mark_trained_routine walks each trained workspace's exact path; the   *)
(* node at path prefix `path` is marked by the last workspace that walks  *)
(* through it.                                                             *)
Markers(wss, path) == {j \in DOMAIN wss : Trained(wss[j]) /\ IsPrefix(path, wss[j].pipeline)}

NodeTrained(wss, path) == IsDataset(Last(path)) \/ Markers(wss, path) # {}

(* node.output: the marking workspace's output hash for a library, "" (0) *)
(* for a dataset or an unmarked node.                                      *)
NodeOutput(wss, path) ==
  IF ~IsDataset(Last(path)) /\ Markers(wss, path) # {}
  THEN wss[Max(Markers(wss, path))].outputs[Last(path)]
  ELSE 0

(* The routine reads workspace.outputs[key] of every library it walks:   *)
(* a KeyError if the workspace has no output for one of its libraries.    *)
MarkRaises(wss) ==
  \E j \in DOMAIN wss :
    Trained(wss[j]) /\ \E k \in ToSet(wss[j].pipeline) : ~IsDataset(k) /\ k \notin DOMAIN wss[j].outputs

(* MetaKey ==: type_name_equal_to (a key's stage stands for its type and *)
(* name) and SemanticVersion.equals (branch, api and inc version).        *)
TypeNameEqualTo(k1, k2) == k1.pos = k2.pos
VersionEquals(k1, k2) == k1.br = k2.br /\ k1.api = k2.api /\ k1.inc = k2.inc
KeyEquals(k1, k2) == TypeNameEqualTo(k1, k2) /\ VersionEquals(k1, k2)

(* A variant of equal that compares component names only.               *)
EqualByName(nl, p) == \A i \in 1..Min({Len(nl), Len(p)}) : nl[i].pos = p[i].pos

(* commit_workspace.equal: zip stops at the shorter of the two lists.     *)
Equal(nl, p) == \A i \in 1..Min({Len(nl), Len(p)}) : KeyEquals(nl[i], p[i])

-----------------------------------------------------------------------------
(* commit_workspace, up to the first put.                                  *)

CurTask == tasks[next]

(* make_pipeline_and_commit: the proposed workspace, version 0.0, no     *)
(* outputs.                                                                *)
Proposed(t) == [pipeline |-> PipelineOf(t.br, t.vers), br |-> t.br,
                ver |-> <<0, 0>>, outputs |-> <<>>]

(* The try block: get_branch_head raises KeyError on a branch never      *)
(* written; so does TrialTree([previous, ws]) when marking reads a       *)
(* missing output.  Both fall back to version 0.0 and TrialTree([ws]).    *)
UsesHead(ws) == HasHead(ws.br) /\ ~MarkRaises(<<HeadWs(ws.br), ws>>)
TreeWss(ws)  == IF UsesHead(ws) THEN <<HeadWs(ws.br), ws>> ELSE <<ws>>
(* A variant that keeps the head's inc version.                          *)
ProposedVersionNoBump(ws) ==
  IF UsesHead(ws) THEN HeadWs(ws.br).ver ELSE <<0, 0>>
ProposedVersion(ws) ==
  IF UsesHead(ws) THEN <<HeadWs(ws.br).ver[1], HeadWs(ws.br).ver[2] + 1>> ELSE <<0, 0>>

(* first(candidate_node_lists, equal): the candidates are listed in set   *)
(* iteration order, so any match may come first.                          *)
Matches(ws) == {p \in CandidateNodeLists(TreeWss(ws)) : Equal(p, ws.pipeline)}

(* _build_venvs skips the leading trained nodes; the first node that is   *)
(* not trained, and every node after it, runs.                            *)
Untrained(wss, nodes) == {j \in 1..Len(nodes) : ~NodeTrained(wss, SubSeq(nodes, 1, j))}

(* The input of the first run: the dataset archive, or the stored output  *)
(* of the node before it, fetched by hash from the output column.  At    *)
(* stage 1 prev_node is the node itself.                                  *)
PrevNode(nodes, f) == IF f = 1 THEN f ELSE f - 1
InputHash(wss, nodes, f) == NodeOutput(wss, SubSeq(nodes, 1, PrevNode(nodes, f)))
InputFound(wss, nodes, f) ==
  \/ IsDataset(nodes[PrevNode(nodes, f)])
  \/ /\ f > 1
     /\ \E bl \in outBlobs : bl.h = InputHash(wss, nodes, f) /\ bl.key = OutputKey(nodes[f - 1].pos)
Input(wss, nodes, f) ==
  IF IsDataset(nodes[PrevNode(nodes, f)]) THEN <<nodes[PrevNode(nodes, f)]>>
  ELSE BlobWith(outBlobs, InputHash(wss, nodes, f)).val

(* A run's output is determined by its input and the components run on   *)
(* it since.                                                               *)
Produced(c, j) == c.input \o SubSeq(c.nodes, c.first, j)

(* skipped["output"]: the nodes before the first run keep node.output.    *)
SkippedOutputs(wss, nodes, f) ==
  [k \in {nodes[j] : j \in 1..(f - 1)} |->
     NodeOutput(wss, SubSeq(nodes, 1, CHOOSE j \in 1..(f - 1) : nodes[j] = k))]

(* commit_workspace up to _save_pipeline_state: trial tree, candidate    *)
(* path, _build_venvs and _train_node_list.  Every exception it can      *)
(* raise ends the experiment: nodes is None (TypeError), no node runs     *)
(* (exec_nodes[-1], IndexError), a library first with nothing before it   *)
(* (ws_key None), a stored input that is missing.                         *)
CommitBegin ==
  /\ pc = "idle" /\ next <= NumTasks /\ CurTask.act = "create"
  /\ LET ws == Proposed(CurTask)
         wss == TreeWss(ws)
     IN IF Matches(ws) = {}
        THEN pc' = "aborted" /\ UNCHANGED cur
        ELSE \E nodes \in Matches(ws) :
               LET f == Min(Untrained(wss, nodes))
               IN IF Untrained(wss, nodes) = {} \/ ~InputFound(wss, nodes, f)
                  THEN pc' = "aborted" /\ UNCHANGED cur
                  ELSE /\ pc' = "save"
                       /\ cur' = [ws |-> ws, ver |-> ProposedVersion(ws), nodes |-> nodes,
                                  first |-> f, save |-> f, input |-> Input(wss, nodes, f),
                                  outs |-> SkippedOutputs(wss, nodes, f)]
  /\ UNCHANGED <<tasks, next, runs, heads, wsBlobs, vmBlobs, outBlobs, clock>>

(* _save_pipeline_state puts the output archive of one run (the params   *)
(* archives are put before, the same way, and are not modelled).          *)
SaveOutput ==
  /\ pc = "save" /\ cur.save <= Len(cur.nodes)
  /\ LET k == cur.nodes[cur.save]
         put == FSPut(OutputKey(k.pos), cur.ws.br, Produced(cur, cur.save))
     IN /\ outBlobs' = outBlobs \cup {put.blob}
        /\ heads' = put.heads
        /\ cur' = [cur EXCEPT !.save = @ + 1, !.outs = (k :> clock + 1) @@ @]
  /\ clock' = clock + 1
  /\ UNCHANGED <<tasks, next, runs, pc, wsBlobs, vmBlobs>>

(* The workspace meta, with out_map and the proposed version, is put to  *)
(* the Entity column (SemanticFileStorage.put, first half).               *)
PutMeta ==
  /\ pc = "save" /\ cur.save > Len(cur.nodes)
  /\ LET put == FSPut(EntityKey, cur.ws.br,
                      [cur.ws EXCEPT !.ver = cur.ver, !.outputs = cur.outs])
     IN /\ wsBlobs' = wsBlobs \cup {put.blob}
        /\ heads' = put.heads
  /\ clock' = clock + 1
  /\ pc' = "vm"
  /\ UNCHANGED <<tasks, next, runs, cur, vmBlobs, outBlobs>>

(* The hash the Entity put returned is put to the VersionMapping column  *)
(* under the fully versioned key (second half); the task is done.         *)
PutVersionMapping ==
  /\ pc = "vm"
  /\ LET put == FSPut(VersionKey(cur.ver), cur.ws.br, heads[<<EntityKey, cur.ws.br>>])
     IN /\ vmBlobs' = vmBlobs \cup {put.blob}
        /\ heads' = put.heads
  /\ clock' = clock + 1
  /\ pc' = "idle" /\ next' = next + 1
  /\ UNCHANGED <<tasks, runs, cur, wsBlobs, outBlobs>>

(* merge_branch: merge_workspace_branches reads both heads (KeyError if  *)
(* one is missing) and their lineages; the file-system provider's meta   *)
(* returns nothing, and dfs_train calls _train_node_list without         *)
(* candidate_ids: the task always raises before writing anything.         *)
MergeBranches ==
  /\ pc = "idle" /\ next <= NumTasks /\ CurTask.act = "merge"
  /\ pc' = "aborted"
  /\ UNCHANGED <<tasks, next, runs, cur, heads, wsBlobs, vmBlobs, outBlobs, clock>>

(* The process dies between two puts.                                      *)
Crash ==
  /\ pc \in {"save", "vm"}
  /\ pc' = "aborted"
  /\ UNCHANGED <<tasks, next, runs, cur, heads, wsBlobs, vmBlobs, outBlobs, clock>>

(* start(manifest) is invoked again after the experiment ended.           *)
Start ==
  /\ \/ pc = "aborted"
     \/ pc = "idle" /\ next > NumTasks
  /\ runs < MaxRuns
  /\ runs' = runs + 1 /\ next' = 1 /\ pc' = "idle"
  /\ UNCHANGED <<tasks, cur, heads, wsBlobs, vmBlobs, outBlobs, clock>>

Init ==
  /\ tasks \in [1..NumTasks -> Tasks]
  /\ next = 1 /\ runs = 1 /\ pc = "idle" /\ cur = NoCommit
  /\ heads = [x \in StoreKeys \X Branches |-> 0]
  /\ wsBlobs = {} /\ vmBlobs = {} /\ outBlobs = {}
  /\ clock = 0

Next ==
  \/ CommitBegin \/ SaveOutput \/ PutMeta \/ PutVersionMapping
  \/ MergeBranches \/ Crash \/ Start

Spec == Init /\ [][Next]_vars

-----------------------------------------------------------------------------
(* TrialTree.py's own driver: five workspaces over a dataset (branch "A") *)
(* and three libraries, all on master; each workspace's outputs name      *)
(* every key of its pipeline.  The pipeline is written to the meta when   *)
(* the workspace is generated, so the bumps the loop makes after each     *)
(* append reach only the later workspaces.                                 *)
GenerateWorkspaceMeta(api, inc, pipeline, outputs) ==
  [pipeline |-> pipeline, br |-> "master", ver |-> <<api, inc>>, outputs |-> outputs]

DriverKey(i, b, v) == [pos |-> i, br |-> b, api |-> v[1], inc |-> v[2]]

(* The (api, inc) increments of the three libraries after append i.      *)
DriverBump(i) ==
  CASE i = 0 -> <<<<0, 1>>, <<0, 1>>, <<0, 0>>>>
    [] i = 1 -> <<<<0, 0>>, <<1, 0>>, <<0, 1>>>>
    [] i = 2 -> <<<<0, 0>>, <<0, 0>>, <<0, 1>>>>
    [] i = 3 -> <<<<0, 1>>, <<0, 0>>, <<0, 1>>>>
    [] i = 4 -> <<<<0, 1>>, <<0, 1>>, <<0, 1>>>>

(* The libraries' versions when workspace i is generated.                *)
RECURSIVE DriverLibVers(_)
DriverLibVers(i) ==
  IF i = 0 THEN <<<<0, 0>>, <<0, 0>>, <<0, 0>>>>
  ELSE [l \in 1..3 |-> <<DriverLibVers(i - 1)[l][1] + DriverBump(i - 1)[l][1],
                         DriverLibVers(i - 1)[l][2] + DriverBump(i - 1)[l][2]>>]

DriverPipeline(i) ==
  <<DriverKey(1, "A", <<0, 0>>)>> \o [l \in 1..3 |-> DriverKey(l + 1, "master", DriverLibVers(i)[l])]

DriverWss ==
  [j \in 1..5 |-> GenerateWorkspaceMeta(0, j - 1, DriverPipeline(j - 1),
                                        [k \in ToSet(DriverPipeline(j - 1)) |-> j - 1])]

-----------------------------------------------------------------------------
(* Properties.                                                             *)

Keys == {Key(i, b, v) : i \in Stages, b \in Branches \cup {DatasetBranch},
                        v \in UNION {StageVers[j] : j \in Stages}}
Hashes == 0..(MaxRuns * NumTasks * (L + 1))

TypeOK ==
  /\ tasks \in [1..NumTasks -> Tasks]
  /\ next \in 1..(NumTasks + 1) /\ runs \in 1..MaxRuns
  /\ pc \in {"idle", "save", "vm", "aborted"}
  /\ pc \in {"save", "vm"} => cur.save \in 1..(L + 1) /\ cur.ver \in WsVersions
  /\ heads \in [StoreKeys \X Branches -> Hashes]
  /\ \A bl \in wsBlobs \cup vmBlobs \cup outBlobs :
       bl.key \in StoreKeys /\ bl.br \in Branches /\ bl.h \in Hashes \ {0} /\ bl.par \in Hashes
  /\ \A bl \in wsBlobs : DOMAIN bl.val.outputs \subseteq Keys /\ bl.val.ver \in WsVersions
  /\ \A bl \in outBlobs : bl.val \in Seq(Keys)
  /\ clock \in Hashes

(* The lineage of branch b, oldest first: PARENTS pointers followed from  *)
(* @HEAD of the workspace Entity key (the walk traverse_branch intends).   *)
RECURSIVE Walk(_, _)
Walk(h, n) ==
  IF h = 0 \/ n = 0 THEN <<>>
  ELSE Append(Walk(BlobWith(wsBlobs, h).par, n - 1), BlobWith(wsBlobs, h).val)

Lineage(b) == Walk(heads[<<EntityKey, b>>], Cardinality(wsBlobs))

(* get_semantic_version: the VersionMapping head of (v, b) holds a hash   *)
(* of the Entity column.                                                   *)
Mapped(v, b) ==
  IF heads[<<VersionKey(v), b>>] = 0 THEN NoEntry
  ELSE BlobWith(wsBlobs, BlobWith(vmBlobs, heads[<<VersionKey(v), b>>]).val).val

(* The store, read through lineage and get_semantic_version, behaves as  *)
(* the semantic VCS of spec 4.C: each branch's lineage only grows by one  *)
(* commit at its head, every version names the head it was put with, and *)
(* a crash between the Entity and VersionMapping puts loses nothing       *)
(* already committed.                                                      *)
VCS == INSTANCE VCSAbstract WITH
         lineage <- [b \in Branches |-> Lineage(b)],
         vmap <- [vb \in WsVersions \X Branches |-> Mapped(vb[1], vb[2])],
         SemVers <- WsVersions, Absent <- NoEntry, VerOf <- LAMBDA w : w.ver

CarriedOutputsMatchUpstream ==
  \A bl \in wsBlobs :
    \A j \in 2..L :
      LET w == bl.val
          k == w.pipeline[j]
      IN /\ k \in DOMAIN w.outputs
         /\ \E ob \in outBlobs : ob.h = w.outputs[k] /\ ob.val = SubSeq(w.pipeline, 1, j)

(* commit_workspace proposes the head's version with inc + 1, 0.0 on a    *)
(* new branch: the i-th workspace of a branch's lineage has version       *)
(* 0.(i-1), so no two commits of a branch share a VersionMapping key.     *)
VersionsFollowLineage ==
  \A b \in Branches :
    \A i \in 1..Len(Lineage(b)) : Lineage(b)[i].ver = <<0, i - 1>>

(* The root-to-leaf paths of the tree whose consecutive keys are all     *)
(* compatible (spec 4.D step 4).                                           *)
CompatiblePaths(wss) ==
  {p \in TreePaths(wss) :
     \A i \in 1..(Depth(wss) - 1) : <<p[i], p[i + 1]>> \in Compatibility(wss)}

TreeWalksAgree(wss) ==
  /\ CandidateNodeLists(wss) = CompatiblePaths(wss)
  /\ DfsTrain(wss, <<>>) = CandidateNodeLists(wss)
  /\ \A j \in DOMAIN wss : wss[j].pipeline \in CandidateNodeLists(wss)
  /\ Len(wss) = 1 => CandidateNodeLists(wss) = {wss[1].pipeline}

DriverTreeWalksAgree == TreeWalksAgree(DriverWss)

(* The trees commit_workspace builds: over a proposed workspace of a task, *)
(* alone or after the head of its branch, a workspace an earlier task      *)
(* committed there.                                                         *)
CommitTreesWalkAgree ==
  \A b \in Branches, v1, v2 \in VersionChoices :
    LET w1 == [pipeline |-> PipelineOf(b, v1)]
        w2 == [pipeline |-> PipelineOf(b, v2)]
    IN TreeWalksAgree(<<w1>>) /\ TreeWalksAgree(<<w1, w2>>)

(* The trial tree's two walks keep what spec 4.D promises: the lists     *)
(* _dfs_prune leaves as candidate_node_lists are exactly the root-to-leaf *)
(* paths of pairwise compatible keys (invariant 6), dfs_train, reading    *)
(* the pruned flags _dfs_prune left on the tree, hands exactly those      *)
(* lists to its train function, every input workspace's own pipeline is  *)
(* among them (so commit_workspace's first() finds its path, spec 4.H     *)
(* step 3), and a tree over one workspace has that one path.  Checked on  *)
(* TrialTree.py's driver and on every tree commit_workspace can build:    *)
(* over any proposed pipeline, alone or after any committed one, each     *)
(* committed workspace in the store being over a pipeline a task names.   *)
TrialTreeWalks ==
  /\ DriverTreeWalksAgree
  /\ CommitTreesWalkAgree
  /\ \A bl \in wsBlobs : \E v \in VersionChoices : bl.val.pipeline = PipelineOf(bl.br, v)

(* Spec 8 scenario 4: committing a pipeline identical to the branch head  *)
(* runs nothing and commits a new version whose outputs are carried over: *)
(* a create_pipeline task that re-commits the head's pipeline never ends *)
(* the experiment.                                                         *)
RecommitCommits ==
  [][ (/\ pc = "idle" /\ next <= NumTasks /\ CurTask.act = "create"
       /\ HasHead(CurTask.br)
       /\ HeadWs(CurTask.br).pipeline = Proposed(CurTask).pipeline)
      => pc' # "aborted" ]_vars

====
