----------------------------- MODULE SemanticVCS -----------------------------
(***************************************************************************)
(* The semantic VCS layer (pipeman/storage.py, SemanticFileStorage and the *)
(* StringStorage / FileStorage columns under it) as the component managers *)
(* drive it: LibraryManager, DatasetManager, WorkspaceManager,             *)
(* SolutionManager, the trial manager's workspace commit, and the merge of *)
(* storage.py's own driver.                                                 *)
(*                                                                         *)
(* Every call is one step of the model made of the provider writes it      *)
(* issues, in the code's order.  The process may die after any prefix of  *)
(* them; no manager keeps state between calls, so what survives a crash   *)
(* is exactly the store.  Entity column keys are <<prefix, name>>,         *)
(* VersionMapping keys <<prefix, name, version>>, versions <<b, api, inc>>. *)
(***************************************************************************)
EXTENDS Naturals, Sequences, SequencesExt, FiniteSets

CONSTANTS
  Branches,   \* branch names, "master" among them
  MaxApi,     \* largest api version a commit may propose
  MaxInc,     \* largest inc version a commit may propose
  MaxOps,     \* number of manager calls explored
  Folders,    \* source folders a create may archive: sequences of [name, data]
  ReadSizes,  \* sizes of iterate_binary's reads, in fields of the archive
  KeyNames,   \* component names, as strings of characters
  KeyBranches, \* branch names, as strings of characters
  KeyNums,    \* api and inc versions written into key strings
  BranchText, \* the characters of each branch of Branches
  DsBranchText, \* the schema-hash string each branch of Branches stands for as a dataset branch
  DsCreateFolders \* the dataset folders a dataset create reads

ASSUME "master" \in Branches /\ MaxOps \in Nat
ASSUME ReadSizes \subseteq Nat \ {0}

VARIABLES
  store,      \* [heads, ents, vm, clock, last]: the physical store
  ops         \* manager calls made so far

vars == <<store, ops>>

(* SemanticVersion.DEFAULT_BRANCH                                          *)
DefaultBranch == "master"

Versions == Branches \X (0..MaxApi) \X (0..MaxInc)

(* MetaStorage, LibraryStorage and DatasetStorage prefixes; the meta      *)
(* column holds every component type, the archive columns one each.       *)
EntityKeys == {<<"MetaStorage", n>> : n \in {"lib", "ds", "ws", "sln"}}
              \cup {<<"LibraryStorage", "lib">>, <<"DatasetStorage", "ds">>}
VMKeys == {<<ek[1], ek[2], v>> : ek \in EntityKeys, v \in Versions}

(* A committed file: the version written into it and the call that wrote *)
(* it (the archive and meta of one create share the call).                *)
Payload(v) == [ver |-> v, id |-> ops + 1]

(* The archive archive_local_folder writes (stream_zip over the folder).   *)
SU == INSTANCE StreamUnzip

(* The string forms of versions and keys.                                  *)
KC == INSTANCE KeyCodec

(* The meta files the managers write (pipeman/meta.py).                   *)
MF == INSTANCE MetaFile

ArchivePayload(v, folder) == [ver |-> v, id |-> ops + 1, folder |-> folder, zip |-> SU!StreamZip(folder)]

-----------------------------------------------------------------------------
(* The provider (spec 4.B): put advances the branch head and records the  *)
(* old head as the only parent; a fork points a new branch at an existing *)
(* hash; merge records both heads as parents and advances the head branch. *)

ParentsOf(h) == IF h = 0 THEN <<>> ELSE <<h>>

BlobOf(h) == CHOOSE bl \in store.ents : bl.h = h

(* Mutant: a put that does not advance the hash clock.                     *)
ApplyNoClock(st, s) ==
  CASE s.op = "eput" ->
         [st EXCEPT !.ents = @ \cup {[ck |-> s.ck, h |-> st.clock + 1, val |-> s.val,
                                      par |-> ParentsOf(st.heads[<<s.ck, s.br>>])]},
                    !.heads[<<s.ck, s.br>>] = st.clock + 1, !.last = st.clock + 1]
    [] s.op = "emerge" ->
         [st EXCEPT !.ents = @ \cup {[ck |-> s.ck, h |-> st.clock + 1, val |-> s.val,
                                      par |-> <<st.heads[<<s.ck, s.br>>], st.heads[<<s.ck, s.mb>>]>>]},
                    !.heads[<<s.ck, s.br>>] = st.clock + 1,
                    !.clock = @ + 1, !.last = st.clock + 1]
    [] s.op = "fork" -> [st EXCEPT !.heads[<<s.ck, s.br>>] = s.ref]
    [] s.op = "vput" -> [st EXCEPT !.vm[<<s.vk, s.br>>] = s.val]
    [] s.op = "vputret" -> [st EXCEPT !.vm[<<s.vk, s.br>>] = st.last]

(* Apply one write to store st.  "vput" stores a hash string in the      *)
(* VersionMapping column; "vputret" stores the hash the preceding Entity  *)
(* write returned.                                                         *)
Apply(st, s) ==
  CASE s.op = "eput" ->
         [st EXCEPT !.ents = @ \cup {[ck |-> s.ck, h |-> st.clock + 1, val |-> s.val,
                                      par |-> ParentsOf(st.heads[<<s.ck, s.br>>])]},
                    !.heads[<<s.ck, s.br>>] = st.clock + 1,
                    !.clock = @ + 1, !.last = st.clock + 1]
    [] s.op = "emerge" ->
         [st EXCEPT !.ents = @ \cup {[ck |-> s.ck, h |-> st.clock + 1, val |-> s.val,
                                      par |-> <<st.heads[<<s.ck, s.br>>], st.heads[<<s.ck, s.mb>>]>>]},
                    !.heads[<<s.ck, s.br>>] = st.clock + 1,
                    !.clock = @ + 1, !.last = st.clock + 1]
    [] s.op = "fork" -> [st EXCEPT !.heads[<<s.ck, s.br>>] = s.ref]
    [] s.op = "vput" -> [st EXCEPT !.vm[<<s.vk, s.br>>] = s.val]
    [] s.op = "vputret" -> [st EXCEPT !.vm[<<s.vk, s.br>>] = st.last]

HeadOf(ek, b) == store.heads[<<ek, b>>]

(* PBranch succeeds only on a branch that does not exist yet.             *)
ForkOK(ek, nb) == HeadOf(ek, nb) = 0

-----------------------------------------------------------------------------
(* The two columns under SemanticFileStorage.  FileStorage (Entity) and    *)
(* StringStorage (VersionMapping) forward each write to the provider with *)
(* their dtype and return the provider's "Version", the new hash.          *)

(* FileStorage.put / merge / branch.                                        *)
FilePut(ek, b, val) == [op |-> "eput", ck |-> ek, br |-> b, val |-> val]

FileMerge(ek, hb, mb, val) == [op |-> "emerge", ck |-> ek, br |-> hb, mb |-> mb, val |-> val]

FileBranch(ek, nb, ref) == [op |-> "fork", ck |-> ek, br |-> nb, ref |-> ref]

(* StringStorage.put of a hash string; of the hash the preceding Entity   *)
(* write returned.                                                          *)
StringPut(vk, b, h) == [op |-> "vput", vk |-> vk, br |-> b, val |-> h]

StringPutReturned(vk, b) == [op |-> "vputret", vk |-> vk, br |-> b]

-----------------------------------------------------------------------------
(* SemanticFileStorage, each method as the writes it issues.               *)

(* StringStorage.get_branch_head on the VersionMapping key: the hash, or  *)
(* 0 where the code raises KeyError.                                       *)
VMHead(ek, v) == store.vm[<<<<ek[1], ek[2], v>>, v[1]>>]

(* put: the file to Entity on the key's branch, then the returned hash   *)
(* to VersionMapping under the fully versioned key.                        *)
SFPut(ek, v, val) ==
  <<FilePut(ek, v[1], val), StringPutReturned(<<ek[1], ek[2], v>>, v[1])>>

(* Mutant: the merge advances merge_head's branch instead of head's.       *)
SFMergeIntoMergeHead(ek, hv, mv, nv, val) ==
  <<FileMerge(ek, mv[1], hv[1], val), StringPutReturned(<<ek[1], ek[2], nv>>, nv[1])>>

(* merge: provider merge of merge_head's branch into head's branch, then  *)
(* the new hash under new_head_key.                                        *)
SFMerge(ek, hv, mv, nv, val) ==
  <<FileMerge(ek, hv[1], mv[1], val), StringPutReturned(<<ek[1], ek[2], nv>>, nv[1])>>

(* branch_on_branch_head: read the head hash, fork new_branch off the     *)
(* key's branch (the result is not checked), then map the key's version   *)
(* to that hash on the key's branch.                                       *)
SFBranchOnBranchHead(ek, v, nb) ==
  (IF ForkOK(ek, nb) THEN <<FileBranch(ek, nb, HeadOf(ek, v[1]))>> ELSE <<>>)
  \o <<StringPut(<<ek[1], ek[2], v>>, v[1], HeadOf(ek, v[1]))>>

(* branch_on_semantic_version: resolve the version's hash (KeyError if    *)
(* unmapped), fork new_branch at it, and on success map the version       *)
(* renamed to new_branch -- on the default branch.                         *)
SFBranchOnSemVer(ek, v, nb) ==
  IF ForkOK(ek, nb)
  THEN <<FileBranch(ek, nb, VMHead(ek, v)),
         StringPut(<<ek[1], ek[2], <<nb, v[2], v[3]>>>>, DefaultBranch, VMHead(ek, v))>>
  ELSE <<>>

(* The version written in the branch head's meta file (MetaConfig.version *)
(* parses it back from its version string), or none if the branch has no  *)
(* head: get_branch_head raises KeyError.                                  *)
HeadVersion(n, b) ==
  IF HeadOf(<<"MetaStorage", n>>, b) = 0 THEN <<>>
  ELSE BlobOf(HeadOf(<<"MetaStorage", n>>, b)).val.ver

-----------------------------------------------------------------------------
(* The read side: the columns' get_version and get_parents_by_*, and       *)
(* traverse_branch over them.  Parents <<>> stand for the provider's None, *)
(* the "<null>" parents of a branch's first commit.                        *)

(* FileStorage.get_version: the file of hash h in column ek, else KeyError. *)
EntityGetVersion(ek, h) ==
  IF \E bl \in store.ents : bl.ck = ek /\ bl.h = h
  THEN [ok |-> TRUE, val |-> BlobOf(h).val]
  ELSE [ok |-> FALSE, err |-> "KeyError"]

(* FileStorage.get_parents_by_version: the provider's meta of hash h.      *)
ParentsByVersion(ek, h) == BlobOf(h).par

(* get_parents_of_branch_head, through get_parents_by_branch_head.        *)
ParentsOfBranchHead(ek, b) == ParentsByVersion(ek, HeadOf(ek, b))

(* traverse_branch's loop: follow single parents until a None; a node      *)
(* with two parents (a merge) raises NotImplementedError.                  *)
RECURSIVE WalkParents(_, _)
WalkParents(ek, lineage) ==
  LET node == Last(lineage)
  IN IF Len(node) # 1 THEN [ok |-> FALSE, err |-> "NotImplementedError"]
     ELSE IF ParentsByVersion(ek, node[1]) = <<>> THEN [ok |-> TRUE, lineage |-> lineage]
     ELSE WalkParents(ek, Append(lineage, ParentsByVersion(ek, node[1])))

(* traverse_branch: the lineage starts at the head's parents, so the head  *)
(* itself is not listed; a head without parents makes len(None) raise      *)
(* TypeError; a branch without a head fails in the provider.  The result   *)
(* is get_version of each node's first hash, newest first.                 *)
TraverseBranch(ek, b) ==
  IF HeadOf(ek, b) = 0 THEN [ok |-> FALSE, err |-> "not found"]
  ELSE IF ParentsOfBranchHead(ek, b) = <<>> THEN [ok |-> FALSE, err |-> "TypeError"]
  ELSE LET w == WalkParents(ek, <<ParentsOfBranchHead(ek, b)>>)
       IN IF ~w.ok THEN w
          ELSE [ok |-> TRUE,
                paths |-> [i \in DOMAIN w.lineage |-> EntityGetVersion(ek, w.lineage[i][1]).val]]

(* MetaStorage.get_lineage: traverse_branch, each file read as a meta.     *)
GetLineage(n, b) == TraverseBranch(<<"MetaStorage", n>>, b)

-----------------------------------------------------------------------------
(* The managers.  A call whose code raises issues the writes before the    *)
(* raise and no more.                                                       *)

(* LibraryManager.create: propose from the meta head (api + 1, inc 0 when *)
(* the manifest says api-version-updated, else inc + 1; 0.0 on KeyError), *)
(* put the archive, then the meta file.                                    *)
(* Mutant: an api bump that forgets the + 1.                              *)
ProposedLibVersionNoApiInc(b, apiUpdated) ==
  LET hv == HeadVersion("lib", b)
  IN IF hv = <<>> THEN <<b, 0, 0>>
     ELSE IF apiUpdated THEN <<b, hv[2], 0>> ELSE <<b, hv[2], hv[3] + 1>>

ProposedLibVersion(b, apiUpdated) ==
  LET hv == HeadVersion("lib", b)
  IN IF hv = <<>> THEN <<b, 0, 0>>
     ELSE IF apiUpdated THEN <<b, hv[2] + 1, 0>> ELSE <<b, hv[2], hv[3] + 1>>

(* The library's manifest, as open_local_config reads it: its             *)
(* api-version-updated option, when it has one (flag = <<text>>).         *)
LibManifest(flag) ==
  [identifier |-> MF!NoOptions,
   configuration |-> IF flag = <<>> THEN MF!NoOptions ELSE "api-version-updated" :> flag[1]]

(* The manifest is read for api_updated only when the branch has a head;  *)
(* a missing or unreadable flag then raises before any write.            *)
LibRaises(b, mf) == HeadVersion("lib", b) # <<>> /\ ~MF!GetApiUpdated(mf).ok
LibApiUpdated(mf) == MF!GetApiUpdated(mf).ok /\ MF!GetApiUpdated(mf).val

(* Mutants: a meta file that keeps the manifest's own version; the meta   *)
(* committed before the archive.                                          *)
LibCreateManifestVersion(b, mf, folder) ==
  LET v == ProposedLibVersion(b, LibApiUpdated(mf))
  IN IF LibRaises(b, mf) THEN <<>> ELSE SFPut(<<"LibraryStorage", "lib">>, v, ArchivePayload(v, folder)) \o SFPut(<<"MetaStorage", "lib">>, v, Payload(<<b, 0, 0>>))

LibCreateMetaFirst(b, mf, folder) ==
  LET v == ProposedLibVersion(b, LibApiUpdated(mf))
  IN IF LibRaises(b, mf) THEN <<>> ELSE SFPut(<<"MetaStorage", "lib">>, v, Payload(v)) \o SFPut(<<"LibraryStorage", "lib">>, v, ArchivePayload(v, folder))

LibCreate(b, mf, folder) ==
  LET v == ProposedLibVersion(b, LibApiUpdated(mf))
  IN IF LibRaises(b, mf) THEN <<>> ELSE SFPut(<<"LibraryStorage", "lib">>, v, ArchivePayload(v, folder)) \o SFPut(<<"MetaStorage", "lib">>, v, Payload(v))

(* DatasetManager.create: the branch is the schema hash; no api bump.     *)
(* Dataset folders for DatasetManager.create: a manifest named "d" at      *)
(* master.0.0 whose files list two csv files x and y and "all" in a few   *)
(* orders ("x, all" lists " all", a file), with or without a schema-hash,  *)
(* and the header row of each file (or an empty file), the names made of   *)
(* letters in both cases and spaces.                                        *)
DsX == <<"x">>
DsY == <<"y">>
DsFileLists == {<<DsX>>, <<DsX, DsY>>, <<DsY, DsX>>, <<DsX, MF!AllFiles>>, <<MF!AllFiles, DsY>>,
                <<DsX, <<" ">> \o MF!AllFiles>>}
CsvRows == {<<<<"a">>, <<"b">>>>, <<<<"B">>, <<"A">>>>, <<<<"a", " ", "b">>>>, <<<<"A">>, <<"A">>>>}
DsManifest(fl, hashed) ==
  ("identifier" :> (("name" :> <<"d">>) @@ ("version" :> KC!VersionStr(KC!ZeroVersion))))
  @@ ("configuration" :> (("files" :> MF!JoinWith(<<",">>, fl))
                          @@ (IF hashed THEN "schema-hash" :> <<"h">> ELSE MF!NoOptions)))
DsFolders == {[files |-> fl, hashed |-> hs, hdrs |-> hd] :
                fl \in DsFileLists, hs \in BOOLEAN,
                hd \in [{DsX, DsY} -> {<<>>} \cup {<<r>> : r \in CsvRows}]}
DsBranchOf == [f \in DsFolders |-> MF!DsCreateBranch(DsManifest(f.files, f.hashed), f.hdrs)]

ListsAll(f) == \E i \in DOMAIN f.files : f.files[i] = MF!AllFiles
(* The column names of the files a folder lists, as a bag.                *)
DsColumns(f) == FlattenSeq([i \in DOMAIN f.files |-> f.hdrs[f.files[i]][1]])
ColumnBag(f) ==
  LET cs == [i \in DOMAIN DsColumns(f) |-> MF!NormalHeader(DsColumns(f)[i])]
  IN [n \in ToSet(cs) |-> Cardinality({i \in DOMAIN cs : cs[i] = n})]

ProposedDsVersion(b) ==
  LET hv == HeadVersion("ds", b)
  IN IF hv = <<>> THEN <<b, 0, 0>> ELSE <<b, hv[2], hv[3] + 1>>

(* The meta file also records the dataset folder df it describes.        *)
DsCreate(b, folder, df) ==
  LET v == ProposedDsVersion(b)
  IN SFPut(<<"DatasetStorage", "ds">>, v, ArchivePayload(v, folder))
     \o SFPut(<<"MetaStorage", "ds">>, v, Payload(v) @@ [df |-> df])

(* Library/DatasetManager.branch_on_semantic_version: the meta column,    *)
(* then the archive column; a version the meta column has not mapped     *)
(* raises KeyError before anything is written.                             *)
ArchiveOf(n) == IF n = "lib" THEN <<"LibraryStorage", "lib">> ELSE <<"DatasetStorage", "ds">>

ComponentBranchOnSemVer(n, v, nb) ==
  IF VMHead(<<"MetaStorage", n>>, v) = 0 THEN <<>>
  ELSE SFBranchOnSemVer(<<"MetaStorage", n>>, v, nb)
       \o (IF VMHead(ArchiveOf(n), v) = 0 THEN <<>> ELSE SFBranchOnSemVer(ArchiveOf(n), v, nb))

(* Library/DatasetManager.branch_on_branch_head: the version of the meta  *)
(* head of branch b, branched on as above.                                 *)
ComponentBranchOnBranchHead(n, b, nb) ==
  IF HeadVersion(n, b) = <<>> THEN <<>>
  ELSE ComponentBranchOnSemVer(n, HeadVersion(n, b), nb)

(* Mutant: a workspace commit that forgets the + 1.                        *)
WsCommitNoBump(b) ==
  LET hv == HeadVersion("ws", b)
      v == IF hv = <<>> THEN <<b, 0, 0>> ELSE <<b, hv[2], hv[3]>>
  IN SFPut(<<"MetaStorage", "ws">>, v, Payload(v))

(* commit_workspace's meta put: the head's version with inc + 1, 0.0 on  *)
(* a new branch.                                                           *)
WsCommit(b) ==
  LET hv == HeadVersion("ws", b)
      v == IF hv = <<>> THEN <<b, 0, 0>> ELSE <<b, hv[2], hv[3] + 1>>
  IN SFPut(<<"MetaStorage", "ws">>, v, Payload(v))

(* WorkspaceManager.create: get_branch_head raises KeyError on a branch   *)
(* with no head (the `is None` test never holds); otherwise api 0 and    *)
(* the head's inc + 1.                                                     *)
WsCreate(b) ==
  LET hv == HeadVersion("ws", b)
  IN IF hv = <<>> THEN <<>>
     ELSE SFPut(<<"MetaStorage", "ws">>, <<b, 0, hv[3] + 1>>, Payload(<<b, 0, hv[3] + 1>>))

(* WorkspaceManager.branch_on_branch_head with the key of the head's own  *)
(* version; head() of a missing branch fails and the call raises.         *)
WsBranchOnBranchHead(b, nb) ==
  IF HeadVersion("ws", b) = <<>> THEN <<>>
  ELSE SFBranchOnBranchHead(<<"MetaStorage", "ws">>, HeadVersion("ws", b), nb)

(* WorkspaceManager.branch_on_semantic_version.                            *)
WsBranchOnSemVer(v, nb) ==
  IF VMHead(<<"MetaStorage", "ws">>, v) = 0 THEN <<>>
  ELSE SFBranchOnSemVer(<<"MetaStorage", "ws">>, v, nb)

(* SemanticFileStorage.merge as storage.py's driver calls it: head_key and *)
(* merge_head_key name the heads of hb and mb, new_head_key is head_key   *)
(* with inc + 1.                                                           *)
(* A branch with no head makes the provider fail and the call raise.     *)
WsMerge(hb, mb) ==
  IF HeadVersion("ws", hb) = <<>> \/ HeadVersion("ws", mb) = <<>> THEN <<>>
  ELSE LET hv == HeadVersion("ws", hb)
           mv == HeadVersion("ws", mb)
           nv == <<hb, hv[2], hv[3] + 1>>
       IN SFMerge(<<"MetaStorage", "ws">>, <<hb, hv[2], hv[3]>>, <<mb, mv[2], mv[3]>>, nv, Payload(nv))

(* SolutionManager.create: builds its meta before any write, at the zero *)
(* version master.0.0; the meta's second identifier section raises, so    *)
(* the call never reaches the put.                                         *)
SlnCreate ==
  IF ~MF!SolutionCreateMeta(<<"s">>, <<>>, <<"1">>).ok THEN <<>>
  ELSE SFPut(<<"MetaStorage", "sln">>, <<DefaultBranch, 0, 0>>, Payload(<<DefaultBranch, 0, 0>>))

-----------------------------------------------------------------------------
(* A manager call: its writes in order, of which any prefix reaches the    *)
(* store (the process may be killed between two provider calls).          *)
DoOp(steps) ==
  /\ ops < MaxOps
  /\ \E k \in 0..Len(steps) : store' = FoldLeft(Apply, store, SubSeq(steps, 1, k))
  /\ ops' = ops + 1

(* The next inc version on b stays within MaxInc.                          *)
IncBelowBound(n, b) == IF HeadVersion(n, b) = <<>> THEN TRUE ELSE HeadVersion(n, b)[3] < MaxInc

(* New branches are feature branches: branching into the default branch   *)
(* would make branch_on_semantic_version's renamed mapping, which it       *)
(* writes on the default branch, readable there (a hazard of its own).    *)
NewBranches == Branches \ {DefaultBranch}

(* Manifests saying "True" or "no", or without the flag.                  *)
LibManifests == {LibManifest(<<<<"T", "r", "u", "e">>>>), LibManifest(<<<<"n", "o">>>>), LibManifest(<<>>)}

CreateLibrary ==
  \E b \in Branches, mf \in LibManifests, folder \in Folders :
    /\ IF LibRaises(b, mf) THEN TRUE ELSE ProposedLibVersion(b, LibApiUpdated(mf)) \in Versions
    /\ DoOp(LibCreate(b, mf, folder))

(* The branch is the one named by the schema hash of the dataset folder's *)
(* csv headers; a create that raises there writes nothing.                *)
CreateDataset ==
  \E df \in DsCreateFolders, b \in Branches, folder \in Folders :
    /\ DsBranchOf[df].ok
    /\ DsBranchText[b] = DsBranchOf[df].val
    /\ ProposedDsVersion(b) \in Versions
    /\ DoOp(DsCreate(b, folder, df))

BranchComponentOnSemVer ==
  \E n \in {"lib", "ds"}, v \in Versions, nb \in NewBranches :
    DoOp(ComponentBranchOnSemVer(n, v, nb))

BranchComponentOnBranchHead ==
  \E n \in {"lib", "ds"}, b \in Branches, nb \in NewBranches :
    DoOp(ComponentBranchOnBranchHead(n, b, nb))

CommitWorkspace ==
  \E b \in Branches :
    /\ IncBelowBound("ws", b)
    /\ DoOp(WsCommit(b))

CreateWorkspace ==
  \E b \in Branches :
    /\ IncBelowBound("ws", b)
    /\ DoOp(WsCreate(b))

(* The caller's key is the version of b's own head, as storage.py's        *)
(* driver calls it.                                                         *)
BranchWorkspaceOnBranchHead ==
  \E b \in Branches, nb \in NewBranches :
    /\ HeadVersion("ws", b) # <<>> => HeadVersion("ws", b)[1] = b
    /\ DoOp(WsBranchOnBranchHead(b, nb))

BranchWorkspaceOnSemVer ==
  \E v \in Versions, nb \in NewBranches : DoOp(WsBranchOnSemVer(v, nb))

MergeWorkspace ==
  \E hb, mb \in Branches :
    /\ hb # mb
    /\ IncBelowBound("ws", hb)
    /\ DoOp(WsMerge(hb, mb))

CreateSolution == DoOp(SlnCreate)

Init ==
  /\ store = [heads |-> [ek \in EntityKeys \X Branches |-> 0],
              ents |-> {},
              vm |-> [vk \in VMKeys \X Branches |-> 0],
              clock |-> 0, last |-> 0]
  /\ ops = 0

Next ==
  \/ CreateLibrary \/ CreateDataset
  \/ BranchComponentOnSemVer \/ BranchComponentOnBranchHead
  \/ CommitWorkspace \/ CreateWorkspace
  \/ BranchWorkspaceOnBranchHead \/ BranchWorkspaceOnSemVer \/ MergeWorkspace
  \/ CreateSolution

Spec == Init /\ [][Next]_vars

-----------------------------------------------------------------------------
(* Properties                                                               *)

TypeOK ==
  /\ store.heads \in [EntityKeys \X Branches -> 0..store.clock]
  /\ store.vm \in [VMKeys \X Branches -> 0..store.clock]
  /\ \A bl \in store.ents : bl.ck \in EntityKeys /\ bl.h \in 1..store.clock
  /\ ops \in 0..MaxOps

(* get_semantic_version(k) reads the VersionMapping of k on k's branch.    *)
Readable(vk) == store.vm[<<vk, vk[3][1]>>] # 0

MappedHash(vk) == store.vm[<<vk, vk[3][1]>>]

(* LibraryManager.get_meta and DatasetManager.get_meta: the meta file       *)
(* get_semantic_version resolves; its KeyError comes first, so the None    *)
(* check after it in LibraryManager is never reached.                       *)
LibGetMeta(v) ==
  LET vk == <<"MetaStorage", "lib", v>>
  IN IF Readable(vk) THEN [ok |-> TRUE, val |-> BlobOf(MappedHash(vk)).val]
     ELSE [ok |-> FALSE, err |-> "KeyError"]
DsGetMeta(v) ==
  LET vk == <<"MetaStorage", "ds", v>>
  IN IF Readable(vk) THEN [ok |-> TRUE, val |-> BlobOf(MappedHash(vk)).val]
     ELSE [ok |-> FALSE, err |-> "KeyError"]

(* A variant that lists every branch the provider knows of any key.       *)
ListOfBranchesAnyKey(ek) == {b \in Branches : \E other \in EntityKeys : HeadOf(other, b) # 0}

(* SemanticFileStorage.get_list_of_branches: the provider's list_branches *)
(* of the Entity key, the branches that have a head.                       *)
ListOfBranches(ek) == {b \in Branches : HeadOf(ek, b) # 0}

(* LibraryManager.list_of_branch (the dataset and workspace managers'     *)
(* list_of_branch and list_branches are the same call).                   *)
ListOfBranch(n) == ListOfBranches(<<"MetaStorage", n>>)

(* get_branch_head of the meta column: the head's meta file, or KeyError *)
(* from FileStorage.get_branch_head on a branch with no head.            *)
MetaOnBranchHead(n, b) ==
  IF HeadOf(<<"MetaStorage", n>>, b) = 0 THEN [ok |-> FALSE, err |-> "KeyError"]
  ELSE [ok |-> TRUE, val |-> BlobOf(HeadOf(<<"MetaStorage", n>>, b)).val]

(* LibraryManager.get_meta_on_branch_head, DatasetManager's and           *)
(* WorkspaceManager.get: the KeyError comes first, so the None checks     *)
(* after it (KeyError, RuntimeError) are never reached.                   *)
LibGetMetaOnBranchHead(b) == MetaOnBranchHead("lib", b)
DsGetMetaOnBranchHead(b) == MetaOnBranchHead("ds", b)
WsGet(b) == MetaOnBranchHead("ws", b)

(* get_semantic_version of the meta column of a workspace.               *)
WsGetSemanticVersion(v) ==
  LET vk == <<"MetaStorage", "ws", v>>
  IN IF Readable(vk) THEN [ok |-> TRUE, val |-> BlobOf(MappedHash(vk)).val]
     ELSE [ok |-> FALSE, err |-> "KeyError"]

(* The provider's list_keys (spec 4.B): every key written on some branch, *)
(* as <<prefix, column, name>> for Entity keys and <<prefix, column, name, *)
(* version>> for VersionMapping keys.  The key strings join these with    *)
(* "::"; no two names of the model are prefixes of one another, so a     *)
(* string prefix ending in a name is a prefix of these tuples.            *)
ProviderKeys ==
  {<<ek[1], "Entity", ek[2]>> : ek \in {k \in EntityKeys : \E b \in Branches : HeadOf(k, b) # 0}}
  \cup {<<vk[1], "VersionMapping", vk[2], vk[3]>> :
          vk \in {k \in VMKeys : \E b \in Branches : store.vm[<<k, b>>] # 0}}

(* StringStorage / FileStorage.get_list_with_str_prefix: the keys that     *)
(* start with the prefix.                                                  *)
ListWithStrPrefix(prefix) == {k \in ProviderKeys : IsPrefix(prefix, k)}

(* A variant that scans the Entity column for versions.                    *)
ListOfComponentVersionsInEntity(n) == ListWithStrPrefix(<<"MetaStorage", "Entity", n>>)

(* SemanticFileStorage.get_list_of_components: every Entity key under the *)
(* storage's prefix, whatever its component type.                          *)
ListOfComponents == ListWithStrPrefix(<<"MetaStorage", "Entity">>)

(* get_list_of_component_versions: the VersionMapping keys of the name.   *)
ListOfComponentVersions(n) == ListWithStrPrefix(<<"MetaStorage", "VersionMapping", n>>)

(* Library/DatasetManager.list_of_components and list_of_component_versions *)
(* go to the shared meta storage.                                           *)
LibListOfComponents == ListOfComponents
LibListOfComponentVersions == ListOfComponentVersions("lib")
DsListOfComponents == ListOfComponents
DsListOfComponentVersions == ListOfComponentVersions("ds")

RECURSIVE HistoryUpTo(_, _)
HistoryUpTo(S, n) ==
  IF n = 0 THEN S
  ELSE HistoryUpTo(S \cup {p \in 1..store.clock :
                             \E bl \in store.ents : bl.h \in S /\ \E i \in DOMAIN bl.par : bl.par[i] = p},
                   n - 1)

(* The hashes a branch head descends from, itself included.                *)
History(h) == IF h = 0 THEN {} ELSE HistoryUpTo({h}, store.clock)

(* The two ways a manager reads a component agree: the branches          *)
(* list_of_branch lists are exactly those whose get_meta_on_branch_head   *)
(* (WorkspaceManager.get) returns a meta, and the version that meta names *)
(* reads back, through get_meta (get_semantic_version), the same meta     *)
(* file, when it reads at all -- across forks, merges and crashes between *)
(* a manager's writes, which can leave a head whose version was never     *)
(* mapped.                                                                 *)
BranchReadersAgree ==
  \A n \in {"lib", "ds", "ws"} :
    LET head(b) == CASE n = "lib" -> LibGetMetaOnBranchHead(b)
                     [] n = "ds" -> DsGetMetaOnBranchHead(b)
                     [] n = "ws" -> WsGet(b)
        byVersion(v) == CASE n = "lib" -> LibGetMeta(v)
                          [] n = "ds" -> DsGetMeta(v)
                          [] n = "ws" -> WsGetSemanticVersion(v)
    IN /\ ListOfBranch(n) = {b \in Branches : head(b).ok}
       /\ \A b \in ListOfBranch(n) :
            byVersion(head(b).val.ver).ok => byVersion(head(b).val.ver).val = head(b).val

(* Spec 4.C: a semantic version readable on its branch names a commit of   *)
(* that branch's history -- put, merge and branch_on_branch_head map a     *)
(* version only to a hash of the branch they advanced or read.             *)
VersionMappingReachable ==
  \A vk \in VMKeys :
    Readable(vk) => MappedHash(vk) \in History(HeadOf(<<vk[1], vk[2]>>, vk[3][1]))

(* A readable version resolves to a file of its own column whose content   *)
(* (the meta's version, written by the manager before the put) is that     *)
(* version.                                                                 *)
MappedVersionMatches ==
  \A vk \in VMKeys :
    Readable(vk) =>
      /\ BlobOf(MappedHash(vk)).ck = <<vk[1], vk[2]>>
      /\ BlobOf(MappedHash(vk)).val.ver = vk[3]

(* A library or dataset version whose meta is readable has its archive     *)
(* readable too, from the same create call: create puts the archive        *)
(* before the meta, so a crash in between leaves no meta for the version.  *)
ArchiveMatchesMeta ==
  \A n \in {"lib", "ds"}, v \in Versions :
    LET gm == IF n = "lib" THEN LibGetMeta(v) ELSE DsGetMeta(v)
        ak == <<ArchiveOf(n)[1], n, v>>
    IN gm.ok =>
         /\ Readable(ak)
         /\ BlobOf(MappedHash(ak)).val.id = gm.val.id

(* A library, dataset or workspace version, once readable, is never        *)
(* re-mapped: creates propose a version past the branch head, and a crash  *)
(* or a retry never reuses one already mapped.  (SolutionManager.create    *)
(* re-maps master.0.0 by design and is left out.)                          *)
VersionImmutable ==
  [][\A vk \in VMKeys :
       vk[1] = "MetaStorage" /\ vk[2] # "sln" /\ Readable(vk)
         => store'.vm[<<vk, vk[3][1]>>] = MappedHash(vk)]_vars

(* Spec 4.C list_components / list_versions: a library or dataset version *)
(* that get_meta reads is listed by the manager's                         *)
(* list_of_component_versions, and its component by list_of_components --  *)
(* the Entity write of put, merge and branch_on_* comes before the        *)
(* mapping, so a crash between them never leaves a readable version whose *)
(* component has no Entity key.                                            *)
ReadableVersionsListed ==
  \A n \in {"lib", "ds"}, v \in Versions :
    LET gm == IF n = "lib" THEN LibGetMeta(v) ELSE DsGetMeta(v)
        versions == IF n = "lib" THEN LibListOfComponentVersions ELSE DsListOfComponentVersions
        components == IF n = "lib" THEN LibListOfComponents ELSE DsListOfComponents
    IN gm.ok =>
         /\ <<"MetaStorage", "VersionMapping", n, v>> \in versions
         /\ <<"MetaStorage", "Entity", n>> \in components

(* A folder, or the files an extraction wrote, as a directory: each name  *)
(* holds the data of its last entry (open(name, "wb") replaces a file).    *)
DirOf(files) ==
  [nm \in {files[i].name : i \in DOMAIN files} |->
     files[CHOOSE i \in DOMAIN files :
             files[i].name = nm /\ \A j \in DOMAIN files : files[j].name = nm => j <= i].data]

(* FileUtils.extract_archive_to: stream_unzip over iterate_binary's reads  *)
(* of the archive, with chunk_size left at its default, 65536 bytes, the   *)
(* size of iterate_binary's reads (so chunk_size is the read size); each   *)
(* file it yields is written whole under its name.  An error raises after  *)
(* the files before it were written.                                       *)
ExtractArchiveTo(zip, rs) ==
  LET r == SU!StreamUnzip(SU!IterateBinary(zip, rs), rs)
  IN [ok |-> r.ok, dir |-> DirOf(r.files)]

(* LibraryManager.get_archive and DatasetManager.get_archive: the archive  *)
(* file get_semantic_version resolves (a KeyError when it is not mapped),  *)
(* which extract_archive_to then extracts.                                  *)
LibArchiveOf(v) ==
  LET ak == <<"LibraryStorage", "lib", v>>
  IN IF Readable(ak) THEN [ok |-> TRUE, val |-> BlobOf(MappedHash(ak)).val]
     ELSE [ok |-> FALSE, err |-> "KeyError"]
DsArchiveOf(v) ==
  LET ak == <<"DatasetStorage", "ds", v>>
  IN IF Readable(ak) THEN [ok |-> TRUE, val |-> BlobOf(MappedHash(ak)).val]
     ELSE [ok |-> FALSE, err |-> "KeyError"]

(* Every archive archive_local_folder can write, of a folder of Folders,  *)
(* extracts back to that folder at every read size.                        *)
ArchivesExtract ==
  \A f \in Folders, rs \in ReadSizes :
    ExtractArchiveTo(SU!StreamZip(f), rs) = [ok |-> TRUE, dir |-> DirOf(f)]

(* get_archive of a readable library or dataset version rebuilds the      *)
(* folder that create archived, file by file and byte for byte (spec 7:   *)
(* stream_unzip(stream_zip(dir)) reconstructs dir), wherever               *)
(* iterate_binary's reads cut the archive: the archive it resolves is one  *)
(* archive_local_folder wrote of a folder of Folders, and every such       *)
(* archive extracts back to its folder.                                    *)
ArchiveExtracts ==
  /\ ArchivesExtract
  /\ \A n \in {"lib", "ds"}, v \in Versions :
       LET ga == IF n = "lib" THEN LibArchiveOf(v) ELSE DsArchiveOf(v)
       IN ga.ok => ga.val.folder \in Folders /\ ga.val.zip = SU!StreamZip(ga.val.folder)

(* The MetaKey strings of the keys the build_generic_*_key builders make  *)
(* of names from KeyNames, on branches of KeyBranches, with api and inc   *)
(* versions from KeyNums.                                                   *)
KeyStringsRoundTrip ==
  \A k \in KC!GenericKeys(KeyNames, {KC!SemVer(b, a, i) : b \in KeyBranches, a, i \in KeyNums}) :
    /\ KC!FromVersionStr(KC!VersionStr(k.ver)) = [ok |-> TRUE, v |-> k.ver]
    /\ KC!BuildFromString(KC!ToString(k, TRUE), TRUE) = [ok |-> TRUE, key |-> k]
    /\ KC!BuildFromString(KC!ToString(k, FALSE), FALSE)
         = [ok |-> TRUE, key |-> KC!MetaKey(k.type, k.name, KC!ZeroVersion)]
    /\ KC!BuildFromString(KC!ExpRunnerKeyString(k.type, k.name, k.ver.branch, k.ver.api, k.ver.inc), TRUE)
         = [ok |-> TRUE, key |-> k]

(* Keys and versions survive their string forms: every meta file in the    *)
(* store gives back, through MetaConfig.version's from_version_str, the     *)
(* version create or commit wrote into it with version_str; and            *)
(* build_from_string gives back the key to_string wrote, with or without   *)
(* its version, and the component key make_pipeline_and_commit formats.    *)
(* Names and branches are free of whitespace and of "::" but may hold     *)
(* ":", "." and digits, so "b.1.0.12" needs the greedy groups to split     *)
(* right.                                                                   *)
KeyRoundTrip ==
  /\ KeyStringsRoundTrip
  /\ \A bl \in store.ents :
       bl.ck[1] = "MetaStorage" =>
         LET v == KC!SemVer(BranchText[bl.val.ver[1]], bl.val.ver[2], bl.val.ver[3])
         IN KC!FromVersionStr(KC!VersionStr(v)) = [ok |-> TRUE, v |-> v]

(* Older(v, w): v's (api, inc) comes before w's.                           *)
Older(v, w) == v[2] < w[2] \/ (v[2] = w[2] /\ v[3] < w[3])

(* Spec 4.C lineage: MetaStorage.get_lineage of a library, dataset or      *)
(* workspace branch, when traverse_branch returns, lists meta files whose  *)
(* versions go strictly back in (api, inc) from the branch head's own      *)
(* version: creates, commits and merges propose from the head they extend, *)
(* forks start a branch at an existing commit, and a crash between a      *)
(* manager's writes never lets a later commit reuse an older version.      *)
LineageVersionsDecrease ==
  \A n \in {"lib", "ds", "ws"}, b \in Branches :
    LET l == GetLineage(n, b)
    IN l.ok =>
         LET vs == <<HeadVersion(n, b)>> \o [i \in DOMAIN l.paths |-> l.paths[i].ver]
         IN \A i \in 1..(Len(vs) - 1) : Older(vs[i + 1], vs[i])

(* WorkspaceMeta as make_pipeline_and_commit builds it with                *)
(* generate_workspace_meta for workspace n at b.a.i, over a pipeline of a *)
(* dataset and a library whose names, branches and versions come from the *)
(* same sets, the dataset also set for training, and a base path that may  *)
(* hold a "%"; then commit_workspace's rewrite at version v and the trip   *)
(* through write_local_config and MetaStorage.__parse_path.                *)
WsPipeline(n, b, a, i) ==
  <<KC!MetaKey(KC!DatasetType, n, KC!SemVer(b, a, i)), KC!MetaKey(KC!LibraryType, n, KC!SemVer(b, i, a))>>
WsPaths(base, b) == [w \in MF!PathEnum |-> IF w = "base" THEN <<base>> ELSE <<b>>]
WsDatasets(n, b, a, i) == [w \in {"train", "validation"} |-> IF w = "train" THEN <<WsPipeline(n, b, a, i)[1]>> ELSE <<>>]
WsGenerated(n, b, a, i, base) ==
  MF!GenerateWorkspaceMeta(n, b, a, i, WsDatasets(n, b, a, i), WsPaths(base, b), WsPipeline(n, b, a, i),
                           <<"1", ".", "5">>, <<>>, <<>>)

(* The output and the params commit_workspace records for the library.   *)
WsOutputs(n, b, a, i) == <<<<KC!ToString(WsPipeline(n, b, a, i)[2], TRUE), <<"h">>>>>>
WsParams(n, b, a, i) == <<<<KC!ToString(WsPipeline(n, b, a, i)[2], TRUE), <<"p">>>>>>

WsMetaReadsBack(n, b, a, i, base, v) ==
  LET g == MF!CommitWorkspaceMeta(WsGenerated(n, b, a, i, base), WsOutputs(n, b, a, i),
                                  WsParams(n, b, a, i), v, <<"2">>)
      icp == MF!ParsePath(g.icp)
      env == MF!PrepareEnv(WsGenerated(n, b, a, i, base).icp)
      libKey == KC!ToString(MF!GetPipeline(icp).val[2], TRUE)
  IN g.ok =>
       /\ env.ok => env.temp_dir = MF!JoinPath(base, b)
       /\ MF!GetKey(icp) = [ok |-> TRUE, key |-> KC!MetaKey(KC!WorkspaceType, n, v)]
       /\ MF!GetPipeline(icp) = [ok |-> TRUE, val |-> WsPipeline(n, b, a, i)]
       /\ MF!GetOutputs(icp).ok /\ MF!GetOutputs(icp).val[libKey] = <<"h">>
       /\ MF!GetParams(icp).ok /\ MF!GetParams(icp).val[libKey] = <<"p">>
       /\ MF!GetDatasets(icp) = [w \in MF!DatasetEnum |->
                                   IF w = "train" THEN <<KC!MetaKey(KC!DatasetType, n, KC!ZeroVersion)>> ELSE <<>>]
       /\ \A w \in MF!PathEnum : MF!GetPaths(icp)[w] \in {<<>>, WsPaths(base, b)[w]}
       /\ MF!GetWorkspaceType(icp) = [ok |-> TRUE, val |-> MF!Production]

WsBases(b) == {b, <<"9", "%">> \o b}

WorkspaceMetaCodec ==
  \A n \in KeyNames, b \in KeyBranches, a \in KeyNums, i \in KeyNums :
    \A base \in WsBases(b) : WsMetaReadsBack(n, b, a, i, base, KC!SemVer(b, a, i))

(* The same trip for workspace "w" committed at each version of Versions. *)
WsVersionsReadBack ==
  \A v \in Versions :
    LET b == BranchText[v[1]]
    IN WsMetaReadsBack(<<"w">>, b, 0, 0, b, KC!SemVer(b, v[2], v[3]))

(* A workspace meta file survives its own format: the WorkspaceMeta read  *)
(* back from the file commit_workspace writes has the key it was committed *)
(* under (so workspace.key, which names the put, is the proposed version), *)
(* the exact versioned pipeline (a JSON list of key strings), outputs and  *)
(* params (JSON dicts) in which _mark_trained_routine finds the library's *)
(* entry under the to_string of its key read back, the training           *)
(* dataset at the zero version (set_dataset drops versions), every path    *)
(* as given or, when set_path swallowed the set's error, missing, and the  *)
(* production type; and commit_workspace's _prepare_env, when the base    *)
(* path is there to read, puts the temp directory, where pipeline state  *)
(* is saved, under the base path given.  Checked for the inputs above and *)
(* for every version a workspace in the store can hold.                   *)
WorkspaceMetaRoundTrip ==
  /\ WorkspaceMetaCodec
  /\ WsVersionsReadBack
  /\ \A bl \in store.ents : bl.ck = <<"MetaStorage", "ws">> => bl.val.ver \in Versions

(* The folders above: the branch create gives them, as (column bag,       *)
(* branch) pairs, one to one.                                              *)
DsBagBranches ==
  {<<ColumnBag(f), DsBranchOf[f].val>> : f \in {g \in DsFolders : DsBranchOf[g].ok /\ ~ListsAll(g)}}
DsSchemasAgree ==
  /\ \A f \in DsFolders : DsBranchOf[f].ok => ((DsBranchOf[f].val = MF!NotSchemaHashable) = ListsAll(f))
  /\ DsBagBranches # {}
  /\ Cardinality({p[1] : p \in DsBagBranches}) = Cardinality(DsBagBranches)
  /\ Cardinality({p[2] : p \in DsBagBranches}) = Cardinality(DsBagBranches)

(* DatasetManager.create files a dataset on a branch that names its       *)
(* schema: a folder whose files list "all" goes to not-schema-hashable,   *)
(* and two folders that list their files get the same branch exactly when  *)
(* their csv headers hold the same column names, counted with repeats, in *)
(* any order of files and columns and up to letter case and spaces.       *)
(* Checked for every pair of the folders above that create accepts, and   *)
(* for the dataset metas the creates in the store wrote: those of folders *)
(* with the same column bag carry the same branch in their version.        *)
DatasetSchemaBranch ==
  /\ DsSchemasAgree
  /\ \A bl1, bl2 \in {bl \in store.ents : bl.ck = <<"MetaStorage", "ds">>} :
       /\ ListsAll(bl1.val.df) = ListsAll(bl2.val.df)
       /\ ~ListsAll(bl1.val.df) => ColumnBag(bl1.val.df) = ColumnBag(bl2.val.df)
       => bl1.val.ver[1] = bl2.val.ver[1]

====
