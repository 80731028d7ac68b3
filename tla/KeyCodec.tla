------------------------------- MODULE KeyCodec -------------------------------
(***************************************************************************)
(* The string forms of SemanticVersion and MetaKey (pipeman/version.py,    *)
(* pipeman/meta.py) and the storage keys built from them                  *)
(* (pipeman/storage.py).  A meta file keeps its version as version_str     *)
(* and MetaConfig.version parses it back with from_version_str; the        *)
(* experiment runner builds "type::name::branch.api.inc" and parses it     *)
(* with MetaKey.build_from_string; workspace metas keep their pipeline as  *)
(* to_string(with_version=True) strings.                                   *)
(*                                                                         *)
(* A string is a sequence of one-character strings.  A regular expression  *)
(* is a sequence of literals and one-or-more groups over a class, matched  *)
(* the way Python's re.match does: anchored at the start only, each group  *)
(* trying its longest (greedy) or shortest (lazy) length first and         *)
(* backtracking into the groups before it.                                 *)
(***************************************************************************)
EXTENDS Naturals, Sequences

DigitChars == {"0", "1", "2", "3", "4", "5", "6", "7", "8", "9"}
DigitOf == [d \in 0..9 |-> <<"0", "1", "2", "3", "4", "5", "6", "7", "8", "9">>[d + 1]]
WhitespaceChars == {" ", "\t", "\n"}

(* str(n) for n >= 0 and int(s) for a string of digits.                    *)
RECURSIVE DecStr(_)
DecStr(n) == IF n < 10 THEN <<DigitOf[n]>> ELSE DecStr(n \div 10) \o <<DigitOf[n % 10]>>

RECURSIVE ParseInt(_)
ParseInt(s) == IF s = <<>> THEN 0
               ELSE 10 * ParseInt(SubSeq(s, 1, Len(s) - 1))
                    + CHOOSE d \in 0..9 : DigitOf[d] = s[Len(s)]

Sep == <<":", ":">>
Dot == <<".">>

(* SemanticVersion.DEFAULT_BRANCH and the MetaKey.GENERIC_*_KEY types.    *)
Master == <<"m", "a", "s", "t", "e", "r">>
DatasetType == <<"d", "a", "t", "a", "s", "e", "t">>
LibraryType == <<"l", "i", "b", "r", "a", "r", "y">>
WorkspaceType == <<"w", "o", "r", "k", "s", "p", "a", "c", "e">>
SolutionType == <<"s", "o", "l", "u", "t", "i", "o", "n">>
GenericTypes == {DatasetType, LibraryType, WorkspaceType, SolutionType}

-----------------------------------------------------------------------------
(* The regular-expression fragment the key and version patterns use:      *)
(* \S+ and \d+ groups, greedy unless marked lazy, and literal text.       *)
Lit(t) == [lit |-> TRUE, text |-> t]
Grp(cls, greedy) == [lit |-> FALSE, cls |-> cls, greedy |-> greedy]

InClass(c, cls) == IF cls = "d" THEN c \in DigitChars ELSE c \notin WhitespaceChars

(* How many characters of class cls follow position pos.                  *)
RECURSIVE RunLen(_, _, _)
RunLen(s, pos, cls) ==
  IF pos < Len(s) /\ InClass(s[pos + 1], cls) THEN 1 + RunLen(s, pos + 1, cls) ELSE 0

(* re.match of pattern pat against s from pos: [ok, caps], caps the group *)
(* texts in order.  TryLen tries a group's lengths from n towards stop.   *)
RECURSIVE MatchFrom(_, _, _)
RECURSIVE TryLen(_, _, _, _, _)
MatchFrom(s, pos, pat) ==
  IF pat = <<>> THEN [ok |-> TRUE, caps |-> <<>>]
  ELSE IF Head(pat).lit
  THEN LET t == Head(pat).text
       IN IF pos + Len(t) > Len(s) THEN [ok |-> FALSE, caps |-> <<>>]
          ELSE IF SubSeq(s, pos + 1, pos + Len(t)) = t THEN MatchFrom(s, pos + Len(t), Tail(pat))
          ELSE [ok |-> FALSE, caps |-> <<>>]
  ELSE LET m == RunLen(s, pos, Head(pat).cls)
       IN IF m = 0 THEN [ok |-> FALSE, caps |-> <<>>]
          ELSE IF Head(pat).greedy THEN TryLen(s, pos, pat, m, 1)
          ELSE TryLen(s, pos, pat, 1, m)
TryLen(s, pos, pat, n, stop) ==
  LET rest == MatchFrom(s, pos + n, Tail(pat))
  IN IF rest.ok THEN [ok |-> TRUE, caps |-> <<SubSeq(s, pos + 1, pos + n)>> \o rest.caps]
     ELSE IF n = stop THEN [ok |-> FALSE, caps |-> <<>>]
     ELSE TryLen(s, pos, pat, IF n < stop THEN n + 1 ELSE n - 1, stop)

ReMatch(pat, s) == MatchFrom(s, 0, pat)

-----------------------------------------------------------------------------
(* SemanticVersion: version_str and from_version_str, whose failure is a   *)
(* RuntimeError.                                                           *)
SemVer(b, a, i) == [branch |-> b, api |-> a, inc |-> i]

VersionStr(v) == v.branch \o Dot \o DecStr(v.api) \o Dot \o DecStr(v.inc)

RegexVersionStr == <<Grp("S", TRUE), Lit(Dot), Grp("d", TRUE), Lit(Dot), Grp("d", TRUE)>>

FromVersionStr(s) ==
  LET r == ReMatch(RegexVersionStr, s)
  IN IF r.ok THEN [ok |-> TRUE, v |-> SemVer(r.caps[1], ParseInt(r.caps[2]), ParseInt(r.caps[3]))]
     ELSE [ok |-> FALSE, err |-> "RuntimeError"]

(* build_zero_version                                                      *)
ZeroVersion == SemVer(Master, 0, 0)

(* MetaKey: to_string, and build_from_string with its two patterns; a     *)
(* key built without a version gets build_zero_version.                   *)
MetaKey(t, n, v) == [type |-> t, name |-> n, ver |-> v]

(* The build_generic_*_key class methods: a key of the generic type.      *)
BuildGenericDatasetKey(n, sv) == MetaKey(DatasetType, n, sv)
BuildGenericLibraryKey(n, sv) == MetaKey(LibraryType, n, sv)
BuildGenericSolutionKey(n, sv) == MetaKey(SolutionType, n, sv)
BuildGenericWorkspaceKey(n, sv) == MetaKey(WorkspaceType, n, sv)

(* The keys those builders make from the given names and versions.        *)
GenericKeys(names, svs) ==
  UNION {{BuildGenericDatasetKey(n, sv), BuildGenericLibraryKey(n, sv),
          BuildGenericSolutionKey(n, sv), BuildGenericWorkspaceKey(n, sv)} :
           n \in names, sv \in svs}

ToString(k, withVersion) ==
  IF withVersion THEN k.type \o Sep \o k.name \o Sep \o VersionStr(k.ver)
  ELSE k.type \o Sep \o k.name

(* Mutant: the branch group of the versioned pattern made lazy.           *)
VersionKeyPatternLazy == <<Grp("S", TRUE), Lit(Sep), Grp("S", TRUE), Lit(Sep),
                           Grp("S", FALSE), Lit(Dot), Grp("d", TRUE), Lit(Dot), Grp("d", TRUE)>>

VersionKeyPattern == <<Grp("S", TRUE), Lit(Sep), Grp("S", TRUE), Lit(Sep),
                       Grp("S", TRUE), Lit(Dot), Grp("d", TRUE), Lit(Dot), Grp("d", TRUE)>>

KeyPattern == <<Grp("S", TRUE), Lit(Sep), Grp("S", TRUE)>>

BuildFromString(s, withVersion) ==
  LET r == ReMatch(IF withVersion THEN VersionKeyPattern ELSE KeyPattern, s)
  IN IF ~r.ok THEN [ok |-> FALSE, err |-> "ValueError"]
     ELSE IF withVersion
     THEN [ok |-> TRUE, key |-> MetaKey(r.caps[1], r.caps[2],
                                        SemVer(r.caps[3], ParseInt(r.caps[4]), ParseInt(r.caps[5])))]
     ELSE [ok |-> TRUE, key |-> MetaKey(r.caps[1], r.caps[2], ZeroVersion)]

(* The string make_pipeline_and_commit formats for a pipeline component   *)
(* before parsing it; datasets take the branch "not-schema-hashable".     *)
ExpRunnerKeyString(t, n, b, a, i) ==
  t \o Sep \o n \o Sep \o b \o Dot \o DecStr(a) \o Dot \o DecStr(i)

====
