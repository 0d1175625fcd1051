----------------------------- MODULE MCFileOpen -----------------------------
(***************************************************************************)
(* Instances of FileOpen: files with headers that agree, that differ in    *)
(* the page size, that leave values to the backup header or are bad, and   *)
(* with every part that can be unreadable.                                 *)
(***************************************************************************)
EXTENDS FileOpen

HeaderOf(version, revision, size) == [version |-> version, revision |-> revision, size |-> size]

Healthy == HeaderOf("620", "new", 2)

File(primary, backup) ==
  [primary |-> primary, backup |-> backup, type |-> "database", readable |-> PartNames]

Good == File(Healthy, Healthy)

Bad ==
  {File(BadHeader, Healthy), File(Healthy, BadHeader),
   File(HeaderOf("620", "new", 0), Healthy), File(HeaderOf("other", "new", 2), Healthy),
   File(HeaderOf("620", "old", 2), HeaderOf("620", "old", 2)),
   File(HeaderOf("620", "new", 4), Healthy)}

Accepted ==
  {Good, File(HeaderOf("none", "none", 2), Healthy), File(HeaderOf("620", "old", 4), HeaderOf("620", "new", 4)),
   [Good EXCEPT !.type = "streaming", !.readable = {Parts[1], Parts[2]}]}

Unreadable == {[Good EXCEPT !.readable = @ \ {part}] : part \in PartNames}

SomeContents == Accepted \union Bad \union Unreadable
=============================================================================
