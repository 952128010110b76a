---------------------------- MODULE MCVaultGroups ----------------------------
(***************************************************************************)
(* Small instances of VaultGroups for TLC: two vaults, two groups and one  *)
(* group a hand has named.                                                 *)
(***************************************************************************)
EXTENDS VaultGroups, TLC

CONSTANTS v1, v2, g1, g2, odd, t1, t2

G(id, hidden, members) ==
    [id |-> id, hidden |-> hidden, look |-> "plain", members |-> members]

\* No file, one that does not parse, a hidden and a visible group, a vault in two
\* groups, a group whose id no write accepts, and two groups of one id.
SomeFiles ==
    { [is |-> "absent", groups |-> <<>>],
      [is |-> "corrupt", groups |-> <<>>],
      Valid(<<G(g1, TRUE, <<v1>>), G(g2, FALSE, <<v2>>)>>),
      Valid(<<G(g1, FALSE, <<v1, v2>>), G(g2, TRUE, <<v2>>)>>),
      Valid(<<G(odd, FALSE, <<v1>>), G(g2, TRUE, <<v2>>)>>),
      Valid(<<G(g1, FALSE, <<v1>>), G(g1, TRUE, <<v2>>)>>) }

\* No toml.bak yet, or one of an earlier repair.
NoneOrOne == {{}, {Valid(<<G(g2, FALSE, <<v1>>)>>)}}

OneFile == {Valid(<<G(g1, FALSE, <<v1>>)>>)}

Cfg(is, hidden) == [is |-> is, hidden |-> hidden, note |-> 0]

Disk(c, d) == [v \in Vaults |-> IF v = v1 THEN c ELSE d]

\* Two ordinary vaults, one hidden by itself; one with a bad mount path, one gone.
SomeFolders ==
    { Disk(Cfg("good", FALSE), Cfg("good", TRUE)), Disk(Cfg("badmount", TRUE), Gone) }

OneFolder == {Disk(Cfg("good", FALSE), Cfg("good", FALSE))}

Updates ==
    [kind : {"update"}, id : {g1, g2}, members : {None, <<>>, <<v2, v1>>},
     hidden : {TRUE, FALSE, None}, look : {None}]

SomeRequests ==
    Updates
      \cup [kind : {"create"}, id : {g2}, members : {<<>>, <<v1, v2>>}, hidden : BOOLEAN]
      \cup [kind : {"update"}, id : {g1}, members : {None}, hidden : {None}, look : {"changed"}]
      \cup [kind : {"delete"}, id : {g1, odd}]
      \cup [kind : {"reorder"}, ids : {{g1, g2}}]
      \cup [kind : {"permute"}, id : {g1}, members : {<<v2, v1>>}]
      \cup [kind : {"repair"}]
      \cup [kind : {"save"}, vault : {v1}, hidden : BOOLEAN]
      \cup [kind : {"new"}, vault : {v1}, hidden : {FALSE}]

HideAndSave ==
    [kind : {"update"}, id : {g1}, members : {None}, hidden : {TRUE}, look : {None}]
      \cup [kind : {"save"}, vault : {v1}, hidden : BOOLEAN]

ThreadSymmetry == Permutations(Threads)
=============================================================================
