------------------------------- MODULE MCDLQ -------------------------------
(***************************************************************************)
(* Small instances of DLQ for TLC.                                         *)
(***************************************************************************)
EXTENDS DLQ, TLC

KindOf(site, name, file, password) ==
    [site |-> site, name |-> name, file |-> file, password |-> password]

File == NameOf(1, "plain")
Zip  == NameOf(2, "archive")
Part(num) == [stem |-> 3, form |-> "part", num |-> num, width |-> 2]

Http        == KindOf("http", "null", File, "null")
Webshare    == KindOf("webshare", "null", File, "null")
MegaFile    == KindOf("mega", "null", File, "null")
MegaArchive == KindOf("mega", "null", Zip, "null")
LockedMega  == KindOf("mega", "null", Zip, "set")
NamedZip    == KindOf("http", "set", Zip, "set")
UnnamedZip  == KindOf("http", "null", Zip, "null")
LockedUnnamed == KindOf("http", "null", Zip, "set")
NamedPart1  == KindOf("webshare", "set", Part(1), "null")
UnnamedPart2 == KindOf("http", "null", Part(2), "null")
MegaPart(num) == KindOf("mega", "null", Part(num), "null")

HttpKinds == {Http}
WebshareKinds == {Webshare}
LinkKinds == {Http, Webshare}
UnnamedZipKinds == {UnnamedZip}
MegaKinds == {MegaFile, MegaArchive, LockedMega}
MegaPartKinds == {MegaPart(1), MegaPart(2)}
PartKinds == {NamedPart1, UnnamedPart2}
AllKinds == {Http, Webshare, MegaFile, LockedMega, NamedZip, LockedUnnamed}

Symmetry == Permutations(Gids) \cup Permutations(Workers)
=============================================================================
