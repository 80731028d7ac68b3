--------------------------- MODULE MC_SemanticVCS ---------------------------
(* Two branches, api and inc versions up to 1 and 2, three manager calls.  *)
(* The archived folder holds an empty file and a two-byte file; archives  *)
(* are read in blocks of 1 to 3 fields, so reads end inside the header,   *)
(* the name, the extra and the data, and on every field boundary.         *)
EXTENDS SemanticVCS

MCBranches == {"master", "dev"}

(* branch_on_semantic_version and branch_on_branch_head may also be asked *)
(* to branch into the default branch (it is free for a dataset, whose     *)
(* versions live on schema-hash branches, or for a component only on dev). *)
MCNewBranchesWithDefault == MCBranches

MCFolders == {<<[name |-> <<7>>, data |-> <<>>], [name |-> <<8>>, data |-> <<1, 2>>]>>}

MCReadSizes == 1..3
(* Names with a colon, with a dot, with a quote that JSON escapes and    *)
(* with a "%" the meta files' interpolation refuses; master, a dotted     *)
(* branch that ends like a version, and a physical_branch-like           *)
(* "schema-id"; a two-digit version number.                               *)
MCKeyNames == {<<"\"", "n">>, <<"a", ":", "b">>, <<"r", ".", "1">>, <<"%", "x">>}

MCKeyBranches == {<<"m", "a", "s", "t", "e", "r">>, <<"b", ".", "1">>, <<"h", "-", "x">>}

MCKeyNums == {0, 12}

(* "dev" is spelt like a version, "b.1".                                   *)
MCBranchText == [b \in MCBranches |-> IF b = "master" THEN <<"m", "a", "s", "t", "e", "r">>
                                       ELSE <<"b", ".", "1">>]

(* Dataset folders a create reads: x with the columns a, b; x with the    *)
(* columns B, A, the same schema in another order and case; and x with     *)
(* "all".                                                                   *)
(* As dataset branches, master stands for not-schema-hashable and dev for  *)
(* the schema hash of the columns A and B.                                 *)
MCDsCreateFolders ==
  {[files |-> <<DsX>>, hashed |-> TRUE, hdrs |-> (DsX :> <<<<<<"a">>, <<"b">>>>>>) @@ (DsY :> <<>>)],
   [files |-> <<DsX>>, hashed |-> TRUE, hdrs |-> (DsX :> <<<<<<"B">>, <<"A">>>>>>) @@ (DsY :> <<>>)],
   [files |-> <<DsX, MF!AllFiles>>, hashed |-> TRUE,
    hdrs |-> (DsX :> <<>>) @@ (DsY :> <<>>)]}

MCDsBranchText == [b \in MCBranches |-> IF b = "master" THEN MF!NotSchemaHashable
                                        ELSE <<"#", "A", ";", "B">>]
====
