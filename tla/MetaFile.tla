------------------------------ MODULE MetaFile ------------------------------
(***************************************************************************)
(* Meta files (pipeman/meta.py): MetaConfig and its WorkspaceMeta and     *)
(* SolutionMeta subclasses are views of a configparser.ConfigParser, each  *)
(* property a get or set of one option.  Workspace pipelines are kept as  *)
(* a JSON list of versioned key strings, solution preprocess lists as one  *)
(* unversioned key string per line.                                        *)
(*                                                                         *)
(* A parser (icp) is a function from section names to functions from       *)
(* option names to values; a value is a string, a sequence of one-        *)
(* character strings.  Every step returns [ok |-> TRUE, icp] or             *)
(* [ok |-> FALSE, err], and a step on a failed result passes it on, the    *)
(* way an exception leaves the rest of a method undone.                    *)
(***************************************************************************)
EXTENDS Naturals, Sequences, SequencesExt, TLC

KC == INSTANCE KeyCodec

Res(icp) == [ok |-> TRUE, icp |-> icp]
Err(e) == [ok |-> FALSE, err |-> e]

-----------------------------------------------------------------------------
(* The standard library's ConfigParser, with its BasicInterpolation.       *)
NoOptions == [o \in {} |-> <<>>]
EmptyIcp == [s \in {} |-> NoOptions]

(* before_set: a "%" left once every "%%" is taken out is a ValueError.    *)
RECURSIVE BadPercent(_)
BadPercent(v) ==
  IF v = <<>> THEN FALSE
  ELSE IF v[1] # "%" THEN BadPercent(Tail(v))
  ELSE IF Len(v) = 1 THEN TRUE
  ELSE IF v[2] # "%" THEN TRUE
  ELSE BadPercent(SubSeq(v, 3, Len(v)))

(* before_get: "%%" reads as "%".                                          *)
RECURSIVE Unpercent(_)
Unpercent(v) ==
  IF Len(v) < 2 THEN v
  ELSE IF v[1] = "%" /\ v[2] = "%" THEN <<"%">> \o Unpercent(SubSeq(v, 3, Len(v)))
  ELSE <<v[1]>> \o Unpercent(Tail(v))

AddSection(r, s) ==
  IF ~r.ok THEN r
  ELSE IF s \in DOMAIN r.icp THEN Err("DuplicateSectionError")
  ELSE Res((s :> NoOptions) @@ r.icp)

IcpSet(r, s, o, v) ==
  IF ~r.ok THEN r
  ELSE IF BadPercent(v) THEN Err("ValueError")
  ELSE IF s \notin DOMAIN r.icp THEN Err("NoSectionError")
  ELSE Res([r.icp EXCEPT ![s] = (o :> v) @@ @])

IcpGet(icp, s, o) ==
  IF s \notin DOMAIN icp THEN Err("NoSectionError")
  ELSE IF o \notin DOMAIN icp[s] THEN Err("NoOptionError")
  ELSE [ok |-> TRUE, val |-> Unpercent(icp[s][o])]

(* A value written by ConfigParser.write and read back by ConfigParser.read: *)
(* its lines come back stripped, a continuation line that starts with a   *)
(* comment prefix is dropped, and trailing blank lines are lost.          *)
IniWs == {" ", "\t", "\r"}
RECURSIVE LStrip(_), RStrip(_)
LStrip(v) == IF v # <<>> /\ Head(v) \in IniWs \cup {"\n"} THEN LStrip(Tail(v)) ELSE v
RStrip(v) == IF v # <<>> /\ v[Len(v)] \in IniWs \cup {"\n"} THEN RStrip(Front(v)) ELSE v
Strip(v) == LStrip(RStrip(v))

RECURSIVE SplitOn(_, _)
SplitOn(c, v) ==
  IF \A i \in DOMAIN v : v[i] # c THEN <<v>>
  ELSE LET i == CHOOSE i \in DOMAIN v : v[i] = c /\ \A j \in 1..(i - 1) : v[j] # c
       IN <<SubSeq(v, 1, i - 1)>> \o SplitOn(c, SubSeq(v, i + 1, Len(v)))

JoinWith(sep, vs) ==
  IF vs = <<>> THEN <<>>
  ELSE FlattenSeq([i \in DOMAIN vs |-> IF i = 1 THEN vs[i] ELSE sep \o vs[i]])

IsComment(l) == Strip(l) # <<>> /\ Head(Strip(l)) \in {"#", ";"}

ReadBack(v) ==
  LET ls == SplitOn("\n", v)
      kept == <<ls[1]>> \o SelectSeq(Tail(ls), LAMBDA l : ~IsComment(l))
  IN RStrip(JoinWith(<<"\n">>, [i \in DOMAIN kept |-> Strip(kept[i])]))

(* FileUtils.write_local_config then MetaStorage.__parse_path.             *)
ParsePath(icp) == [s \in DOMAIN icp |-> [o \in DOMAIN icp[s] |-> ReadBack(icp[s][o])]]

-----------------------------------------------------------------------------
(* json.dumps of a list of strings, or of a dict of strings given as a     *)
(* sequence of <<key, value>> pairs, and json.loads of a list of strings.  *)
JsonEsc(c) == IF c = "\"" THEN <<"\\", "\"">> ELSE IF c = "\\" THEN <<"\\", "\\">>
              ELSE IF c = "\n" THEN <<"\\", "n">> ELSE IF c = "\t" THEN <<"\\", "t">>
              ELSE <<c>>
Quote(s) == <<"\"">> \o FlattenSeq([i \in DOMAIN s |-> JsonEsc(s[i])]) \o <<"\"">>

JsonDumpsList(l) ==
  <<"[">> \o JoinWith(<<",", " ">>, [i \in DOMAIN l |-> Quote(l[i])]) \o <<"]">>

JsonDumpsDict(ps) ==
  <<"{">> \o JoinWith(<<",", " ">>, [i \in DOMAIN ps |-> Quote(ps[i][1]) \o <<":", " ">> \o Quote(ps[i][2])])
          \o <<"}">>

JsonWs == {" ", "\t", "\n", "\r"}
JsonUnesc == ("\"" :> "\"") @@ ("\\" :> "\\") @@ ("/" :> "/") @@ ("n" :> "\n") @@ ("t" :> "\t")
JsonFail == Err("JSONDecodeError")

RECURSIVE SkipWs(_, _)
SkipWs(t, p) == IF p <= Len(t) /\ t[p] \in JsonWs THEN SkipWs(t, p + 1) ELSE p

(* The string whose opening quote is just before p: its text and the      *)
(* position after its closing quote.                                       *)
RECURSIVE ScanStr(_, _, _)
ScanStr(t, p, acc) ==
  IF p > Len(t) THEN JsonFail
  ELSE IF t[p] = "\"" THEN [ok |-> TRUE, s |-> acc, p |-> p + 1]
  ELSE IF t[p] # "\\" THEN ScanStr(t, p + 1, Append(acc, t[p]))
  ELSE IF p = Len(t) THEN JsonFail
  ELSE IF t[p + 1] \notin DOMAIN JsonUnesc THEN JsonFail
  ELSE ScanStr(t, p + 2, Append(acc, JsonUnesc[t[p + 1]]))

JsonEnd(t, p, l) == IF SkipWs(t, p) > Len(t) THEN [ok |-> TRUE, val |-> l] ELSE JsonFail

RECURSIVE JsonItems(_, _, _)
JsonItems(t, p, acc) ==
  IF p > Len(t) THEN JsonFail
  ELSE IF t[p] # "\"" THEN JsonFail
  ELSE LET r == ScanStr(t, p + 1, <<>>)
           q == IF r.ok THEN SkipWs(t, r.p) ELSE 0
       IN IF ~r.ok THEN r
          ELSE IF q > Len(t) THEN JsonFail
          ELSE IF t[q] = "," THEN JsonItems(t, SkipWs(t, q + 1), Append(acc, r.s))
          ELSE IF t[q] = "]" THEN JsonEnd(t, q + 1, Append(acc, r.s))
          ELSE JsonFail

JsonLoadsList(t) ==
  LET p == SkipWs(t, 1)
      q == SkipWs(t, p + 1)
  IN IF p > Len(t) THEN JsonFail
     ELSE IF t[p] # "[" THEN JsonFail
     ELSE IF q <= Len(t) /\ t[q] = "]" THEN JsonEnd(t, q + 1, <<>>)
     ELSE JsonItems(t, q, <<>>)

(* json.loads of a dict of strings: a function from keys to values, a    *)
(* repeated key keeping its last value.                                    *)
RECURSIVE JsonPairs(_, _, _)
JsonPairs(t, p, acc) ==
  IF p > Len(t) THEN JsonFail
  ELSE IF t[p] # "\"" THEN JsonFail
  ELSE LET k == ScanStr(t, p + 1, <<>>)
           c == IF k.ok THEN SkipWs(t, k.p) ELSE Len(t) + 1
           d == SkipWs(t, c + 1)
           v == IF c <= Len(t) /\ t[c] = ":" /\ d <= Len(t) /\ t[d] = "\"" THEN ScanStr(t, d + 1, <<>>)
                ELSE JsonFail
           q == IF v.ok THEN SkipWs(t, v.p) ELSE 0
           acc2 == (k.s :> v.s) @@ acc
       IN IF ~k.ok THEN k
          ELSE IF ~v.ok THEN v
          ELSE IF q > Len(t) THEN JsonFail
          ELSE IF t[q] = "," THEN JsonPairs(t, SkipWs(t, q + 1), acc2)
          ELSE IF t[q] = "}" THEN JsonEnd(t, q + 1, acc2)
          ELSE JsonFail

JsonLoadsDict(t) ==
  LET p == SkipWs(t, 1)
      q == SkipWs(t, p + 1)
  IN IF p > Len(t) THEN JsonFail
     ELSE IF t[p] # "{" THEN JsonFail
     ELSE IF q <= Len(t) /\ t[q] = "}" THEN JsonEnd(t, q + 1, NoOptions)
     ELSE JsonPairs(t, q, NoOptions)

-----------------------------------------------------------------------------
(* MetaConfig: the identifier section, added by the constructor when the   *)
(* parser lacks it, holds name, version (version_str) and type.            *)
NewMetaConfig(icp) ==
  IF "identifier" \in DOMAIN icp THEN icp ELSE ("identifier" :> NoOptions) @@ icp

SetName(r, n) == IcpSet(r, "identifier", "name", n)
SetMetaType(r, t) == IcpSet(r, "identifier", "type", t)
SetVersion(r, v) == IcpSet(r, "identifier", "version", KC!VersionStr(v))
SetCreatedTimestamp(r, ts) == IcpSet(r, "identifier", "created-timestamp", ts)

GetName(icp) == IcpGet(icp, "identifier", "name")
GetMetaType(icp) == IcpGet(icp, "identifier", "type")
GetVersion(icp) ==
  LET g == IcpGet(icp, "identifier", "version")
  IN IF ~g.ok THEN g ELSE KC!FromVersionStr(g.val)

(* MetaConfig.key                                                          *)
GetKey(icp) ==
  LET t == GetMetaType(icp)
      n == GetName(icp)
      v == GetVersion(icp)
  IN IF ~t.ok THEN t ELSE IF ~n.ok THEN n ELSE IF ~v.ok THEN v
     ELSE [ok |-> TRUE, key |-> KC!MetaKey(t.val, n.val, v.v)]

-----------------------------------------------------------------------------
(* WorkspaceMeta                                                           *)
DatasetEnum == {"train", "validation", "inference"}
PathEnum == {"base", "output", "temp", "venv"}
(* The two workspace-type values, abbreviated.                            *)
Production == <<"p", "r", "o", "d">>
Retrospective == <<"r", "e", "t", "r", "o">>
WorkspaceTypes == {Production, Retrospective}

WsInitSections(r) ==
  AddSection(AddSection(AddSection(AddSection(AddSection(r, "datasets"), "solution"),
                                   "paths"), "configuration"), "reference")

SetDescription(r, d) == IcpSet(r, "configuration", "description", d)

SetWorkspaceType(r, t) ==
  IF ~r.ok THEN r
  ELSE IF t \notin WorkspaceTypes THEN Err("ValueError")
  ELSE IcpSet(r, "configuration", "workspace-type", t)

GetWorkspaceType(icp) == IcpGet(icp, "configuration", "workspace-type")

(* params and outputs: json.loads and json.dumps of the dict.              *)
GetParams(icp) ==
  LET g == IcpGet(icp, "reference", "params") IN IF ~g.ok THEN g ELSE JsonLoadsDict(g.val)
GetOutputs(icp) ==
  LET g == IcpGet(icp, "reference", "output") IN IF ~g.ok THEN g ELSE JsonLoadsDict(g.val)
SetParams(r, ps) == IcpSet(r, "reference", "params", JsonDumpsDict(ps))
SetOutputs(r, ps) == IcpSet(r, "reference", "output", JsonDumpsDict(ps))

(* Mutant: the pipeline setter writing keys without their versions.       *)
SetPipelineUnversioned(r, pl) ==
  IcpSet(r, "reference", "pipeline", JsonDumpsList([i \in DOMAIN pl |-> KC!ToString(pl[i], FALSE)]))

(* The pipeline setter: the JSON list of to_string(with_version=True).     *)
SetPipeline(r, pl) ==
  IcpSet(r, "reference", "pipeline", JsonDumpsList([i \in DOMAIN pl |-> KC!ToString(pl[i], TRUE)]))

(* The pipeline getter: json.loads, then build_from_string(with_version=  *)
(* True) of each string, whose ValueError the getter lets through.        *)
GetPipeline(icp) ==
  LET g == IcpGet(icp, "reference", "pipeline")
      j == IF g.ok THEN JsonLoadsList(g.val) ELSE g
      ks == IF j.ok THEN [i \in DOMAIN j.val |-> KC!BuildFromString(j.val[i], TRUE)] ELSE <<>>
  IN IF ~j.ok THEN j
     ELSE IF \E i \in DOMAIN ks : ~ks[i].ok THEN Err("ValueError")
     ELSE [ok |-> TRUE, val |-> [i \in DOMAIN ks |-> ks[i].key]]

(* get_dataset and set_dataset: one role's key, without its version.      *)
GetDataset(icp, w) ==
  LET g == IcpGet(icp, "datasets", w)
  IN IF ~g.ok THEN g ELSE KC!BuildFromString(g.val, FALSE)

SetDataset(r, w, k) == IcpSet(r, "datasets", w, KC!ToString(k, FALSE))

(* The datasets setter: set_dataset for each role the dict                *)
(* gives a key (dd: a function from some roles to <<key>>, or to <<>> for *)
(* None).                                                                  *)
SetDatasets(r, dd) ==
  LET RECURSIVE SetEach(_, _)
      SetEach(q, ws) ==
        IF ws = {} THEN q
        ELSE LET w == CHOOSE w \in ws : TRUE
             IN SetEach(SetDataset(q, w, dd[w][1]), ws \ {w})
  IN SetEach(r, {w \in DOMAIN dd \cap DatasetEnum : dd[w] # <<>>})

(* The datasets getter: get_dataset of each role, None (<<>>) for any     *)
(* exception; build_from_string without version gives the zero version.   *)
GetDatasets(icp) ==
  [w \in DatasetEnum |->
     IF GetDataset(icp, w).ok THEN <<GetDataset(icp, w).key>> ELSE <<>>]

(* get_path, and set_path, which swallows any exception of its set.      *)
GetPath(icp, w) == IcpGet(icp, "paths", w)

SetPath(r, w, v) == IF IcpSet(r, "paths", w, v).ok THEN IcpSet(r, "paths", w, v) ELSE r

(* The paths setter: pdict[w] (<<path>>, or <<>> for None) for every path *)
(* role, a KeyError when one is missing.                                   *)
SetPaths(r, pd) ==
  LET RECURSIVE SetEach(_, _)
      SetEach(q, ws) ==
        IF ws = {} THEN q
        ELSE LET w == CHOOSE w \in ws : TRUE
             IN SetEach(IF pd[w] = <<>> THEN q ELSE SetPath(q, w, pd[w][1]), ws \ {w})
  IN IF ~r.ok THEN r
     ELSE IF ~(PathEnum \subseteq DOMAIN pd) THEN Err("KeyError")
     ELSE SetEach(r, PathEnum)

GetPaths(icp) == [w \in PathEnum |-> IF GetPath(icp, w).ok THEN <<GetPath(icp, w).val>> ELSE <<>>]

(* os.path.join of two paths: an absolute second path replaces the first. *)
JoinPath(a, b) ==
  IF b # <<>> /\ Head(b) = "/" THEN b
  ELSE IF a = <<>> \/ a[Len(a)] = "/" THEN a \o b
  ELSE a \o <<"/">> \o b

(* TrialManager._prepare_env: the base path and the venv, temp and output *)
(* paths joined to it, each read with get_path; the directories it makes  *)
(* are left out.                                                          *)
PrepareEnv(icp) ==
  LET g == [w \in PathEnum |-> GetPath(icp, w)]
      bad == {w \in PathEnum : ~g[w].ok}
  IN IF bad # {} THEN g[CHOOSE w \in bad : TRUE]
     ELSE [ok |-> TRUE, base_dir |-> g["base"].val,
           venv_dir |-> JoinPath(g["base"].val, g["venv"].val),
           temp_dir |-> JoinPath(g["base"].val, g["temp"].val),
           output_dir |-> JoinPath(g["base"].val, g["output"].val)]

(* The solution getter and setter: the solution key without its version. *)
GetSolution(icp) ==
  LET g == IcpGet(icp, "solution", "solution-key")
  IN IF ~g.ok THEN g ELSE KC!BuildFromString(g.val, FALSE)

SetSolution(r, k) == IcpSet(r, "solution", "solution-key", KC!ToString(k, FALSE))

(* The description generate_workspace_meta formats, "{} {} {} {}".       *)
DescriptionOf(n, b, a, i) ==
  JoinWith(<<" ">>, <<n, b, KC!DecStr(a), KC!DecStr(i)>>)

(* exp_runner.generate_workspace_meta: a fresh parser, its sections, then *)
(* the setters in the code's order; outputs and params default to {}.     *)
(* The result is the meta a later write_local_config puts in a file.     *)
GenerateWorkspaceMeta(n, b, a, i, dd, pd, pl, ts, outs, prms) ==
  LET r0 == WsInitSections(Res(NewMetaConfig(EmptyIcp)))
      r1 == SetWorkspaceType(SetMetaType(r0, KC!WorkspaceType), Production)
      r2 == SetVersion(SetName(r1, n), KC!SemVer(b, a, i))
      r3 == SetPaths(SetDatasets(r2, dd), pd)
      r4 == SetPipeline(SetCreatedTimestamp(SetDescription(r3, DescriptionOf(n, b, a, i)), ts), pl)
  IN SetParams(SetOutputs(r4, outs), prms)

(* The part of TrialManager.commit_workspace that rewrites the meta before *)
(* writing it: outputs, params, the proposed version and a new timestamp. *)
CommitWorkspaceMeta(r, outs, prms, v, ts) ==
  SetCreatedTimestamp(SetVersion(SetParams(SetOutputs(r, outs), prms), v), ts)

-----------------------------------------------------------------------------
(* DatasetMeta: files is the option split at ","; schema_hash a plain get  *)
(* and set.                                                                 *)
DsFiles(icp) ==
  LET g == IcpGet(icp, "configuration", "files")
  IN IF ~g.ok THEN g ELSE [ok |-> TRUE, val |-> SplitOn(",", g.val)]

DsSchemaHash(icp) == IcpGet(icp, "configuration", "schema-hash")
DsSetSchemaHash(r, v) == IcpSet(r, "configuration", "schema-hash", v)

(* DatasetManager._cal_dataset_schema_hash over the header rows of the     *)
(* listed csv files (<<row>>, or <<>> for an empty file, whose None        *)
(* headers.extend rejects with a TypeError): every name upper-cased with   *)
(* its spaces removed, sorted by code point, joined with ";" and hashed.   *)
(* The letters and separators the names are made of, with their code      *)
(* points; md5(...).hexdigest() is stood in for by an injective mark on   *)
(* its input (a hex digest holds no "%" and no lower-case word).           *)
LowerToUpper == ("a" :> "A") @@ ("b" :> "B")
CodePoint == (" " :> 32) @@ (";" :> 59) @@ ("A" :> 65) @@ ("B" :> 66) @@ ("a" :> 97) @@ ("b" :> 98)
Upper(c) == IF c \in DOMAIN LowerToUpper THEN LowerToUpper[c] ELSE c

RECURSIVE StrLess(_, _)
StrLess(s, t) ==
  IF s = <<>> THEN t # <<>>
  ELSE IF t = <<>> THEN FALSE
  ELSE IF Head(s) = Head(t) THEN StrLess(Tail(s), Tail(t))
  ELSE CodePoint[Head(s)] < CodePoint[Head(t)]

NormalHeader(h) == SelectSeq([i \in DOMAIN h |-> Upper(h[i])], LAMBDA c : c # " ")
Md5Hex(s) == <<"#">> \o s

(* Mutant: the normalised names joined in file order, unsorted.          *)
CalSchemaHashUnsorted(hs) ==
  LET cols == FlattenSeq([i \in DOMAIN hs |-> hs[i][1]])
  IN IF \E i \in DOMAIN hs : hs[i] = <<>> THEN Err("TypeError")
     ELSE [ok |-> TRUE, val |-> Md5Hex(JoinWith(<<";">>, [i \in DOMAIN cols |-> NormalHeader(cols[i])]))]

CalSchemaHash(hs) ==
  LET cols == FlattenSeq([i \in DOMAIN hs |-> hs[i][1]])
  IN IF \E i \in DOMAIN hs : hs[i] = <<>> THEN Err("TypeError")
     ELSE [ok |-> TRUE, val |-> Md5Hex(JoinWith(<<";">>, SortSeq([i \in DOMAIN cols |-> NormalHeader(cols[i])], StrLess)))]

(* The files entry that stands for the whole folder, and the branch such  *)
(* a dataset gets (abbreviated).                                           *)
AllFiles == <<"a", "l", "l">>
NotSchemaHashable == <<"n", "s", "h">>

(* DatasetManager.create up to the dataset key: a files entry "all" sets   *)
(* schema-hash to not-schema-hashable and ends the scan, the files before  *)
(* it being collected; a schema-hash other than that one is replaced by    *)
(* the hash of the collected files, which must exist (hdrs: file name to  *)
(* header row); the version is read after either set and the name last.   *)
(* The branch is the schema hash, or the error raised.                    *)
DsCreateBranch(mf, hdrs) ==
  LET fs == DsFiles(mf)
      at == IF fs.ok THEN {i \in DOMAIN fs.val : fs.val[i] = AllFiles} ELSE {}
      listed == IF at = {} THEN fs.val ELSE SubSeq(fs.val, 1, Min(at) - 1)
      r1 == IF at = {} THEN Res(mf) ELSE DsSetSchemaHash(Res(mf), NotSchemaHashable)
      h == DsSchemaHash(r1.icp)
      missing == {i \in DOMAIN listed : listed[i] \notin DOMAIN hdrs}
      c == CalSchemaHash([i \in DOMAIN listed |-> hdrs[listed[i]]])
      r2 == DsSetSchemaHash(r1, c.val)
  IN IF ~fs.ok THEN fs
     ELSE IF ~r1.ok THEN r1
     ELSE IF at # {} /\ ~GetVersion(r1.icp).ok THEN GetVersion(r1.icp)
     ELSE IF ~h.ok THEN h
     ELSE IF h.val = NotSchemaHashable
          THEN IF ~GetName(r1.icp).ok THEN GetName(r1.icp) ELSE [ok |-> TRUE, val |-> h.val]
     ELSE IF missing # {} THEN Err("FileNotFoundError")
     ELSE IF ~c.ok THEN c
     ELSE IF ~r2.ok THEN r2
     ELSE IF ~GetVersion(r2.icp).ok THEN GetVersion(r2.icp)
     ELSE IF ~GetName(r2.icp).ok THEN GetName(r2.icp)
     ELSE [ok |-> TRUE, val |-> c.val]

-----------------------------------------------------------------------------
(* LibraryMeta.api_updated: ConfigParser.getboolean of the manifest's     *)
(* api-version-updated, which takes 1/yes/true/on and 0/no/false/off in   *)
(* any case and raises ValueError on anything else.                        *)
UpperToLower == ("T" :> "t") @@ ("R" :> "r") @@ ("U" :> "u") @@ ("E" :> "e") @@ ("Y" :> "y")
                @@ ("S" :> "s") @@ ("N" :> "n") @@ ("O" :> "o") @@ ("F" :> "f") @@ ("A" :> "a") @@ ("L" :> "l")
Lower(c) == IF c \in DOMAIN UpperToLower THEN UpperToLower[c] ELSE c
TrueStates == {<<"1">>, <<"y", "e", "s">>, <<"t", "r", "u", "e">>, <<"o", "n">>}
FalseStates == {<<"0">>, <<"n", "o">>, <<"f", "a", "l", "s", "e">>, <<"o", "f", "f">>}

GetApiUpdated(icp) ==
  LET g == IcpGet(icp, "configuration", "api-version-updated")
      v == IF g.ok THEN [i \in DOMAIN g.val |-> Lower(g.val[i])] ELSE <<>>
  IN IF ~g.ok THEN g
     ELSE IF v \in TrueStates THEN [ok |-> TRUE, val |-> TRUE]
     ELSE IF v \in FalseStates THEN [ok |-> TRUE, val |-> FALSE]
     ELSE Err("ValueError")

-----------------------------------------------------------------------------
(* SolutionMeta: the preprocess list is one unversioned key string per    *)
(* line; the getter skips blank lines and builds keys without versions,   *)
(* so they come back at the zero version.                                  *)
SlnInitSections(r) == AddSection(AddSection(r, "identifier"), "configuration")

SetPreprocess(r, l) ==
  IcpSet(r, "configuration", "preprocess-list",
         JoinWith(<<"\n">>, [i \in DOMAIN l |-> KC!ToString(l[i], FALSE)]))

GetPreprocess(icp) ==
  LET g == IcpGet(icp, "configuration", "preprocess-list")
      ls == IF g.ok THEN SelectSeq([i \in DOMAIN SplitOn("\n", g.val) |-> Strip(SplitOn("\n", g.val)[i])],
                                   LAMBDA y : y # <<>>)
            ELSE <<>>
      ks == [i \in DOMAIN ls |-> KC!BuildFromString(ls[i], FALSE)]
  IN IF ~g.ok THEN g
     ELSE IF \E i \in DOMAIN ks : ~ks[i].ok THEN Err("ValueError")
     ELSE [ok |-> TRUE, val |-> [i \in DOMAIN ks |-> ks[i].key]]

(* append_preprocess and remove_preprocess: read the list, change it, set *)
(* it back; list.remove raises ValueError when no element equals the key. *)
AppendPreprocess(r, k) ==
  LET g == IF r.ok THEN GetPreprocess(r.icp) ELSE r
  IN IF ~g.ok THEN g ELSE SetPreprocess(r, Append(g.val, k))

RemovePreprocess(r, k) ==
  LET g == IF r.ok THEN GetPreprocess(r.icp) ELSE r
      at == IF g.ok THEN {i \in DOMAIN g.val : g.val[i] = k} ELSE {}
  IN IF ~g.ok THEN g
     ELSE IF at = {} THEN Err("ValueError")
     ELSE LET i == CHOOSE i \in at : \A j \in at : i <= j
          IN SetPreprocess(r, SubSeq(g.val, 1, i - 1) \o SubSeq(g.val, i + 1, Len(g.val)))

SetModel(r, k) == IcpSet(r, "configuration", "model", KC!ToString(k, FALSE))

GetModel(icp) ==
  LET g == IcpGet(icp, "configuration", "model")
  IN IF ~g.ok THEN g ELSE KC!BuildFromString(g.val, FALSE)

(* SolutionManager.create: the constructor has already added the          *)
(* identifier section that init_sections adds again.                       *)
SolutionCreateMeta(n, pre, ts) ==
  LET r0 == SlnInitSections(Res(NewMetaConfig(EmptyIcp)))
  IN SetCreatedTimestamp(SetPreprocess(SetName(r0, n), pre), ts)

====
