---------------------------- MODULE ArchiveNames ----------------------------
(***************************************************************************)
(* File names as internal/queue/archive_decryptor.go takes them apart.  A  *)
(* name in one download directory is a stem and a form:                    *)
(*   "part"     <stem>.part<num>.rar, num written with width digits        *)
(*   "rvol"     <stem>.r<num>, two digits                                  *)
(*   "rar"      <stem>.rar                                                 *)
(*   "archive"  <stem>.zip and the other extensions of isArchiveFile       *)
(*   "plain"    anything else                                              *)
(***************************************************************************)
EXTENDS Integers

Form == {"part", "rvol", "rar", "archive", "plain"}

Name == [stem : Nat, form : Form, num : Nat, width : Nat]

(* Forms without a number have num = width = 0.                            *)
NameOf(stem, form) == [stem |-> stem, form |-> form, num |-> 0, width |-> 0]

(* isArchiveFile: the volumes .r00, .r01, ... are not recognised.          *)
IsArchiveFile(n) == n.form \in {"part", "rar", "archive"}

(* Mutant: the number of the first volume is not padded.                   *)
MultipartArchiveFirstVolumeUnpadded(n) ==
    CASE n.form = "part" /\ n.num > 1 -> [n EXCEPT !.num = 1, !.width = 1]
      [] n.form = "rvol"              -> NameOf(n.stem, "rar")
      [] OTHER                        -> n

(* multipartArchiveFirstVolume: .part07.rar becomes .part01.rar and .r03   *)
(* becomes .rar.                                                           *)
MultipartArchiveFirstVolume(n) ==
    CASE n.form = "part" /\ n.num > 1 -> [n EXCEPT !.num = 1]
      [] n.form = "rvol"              -> NameOf(n.stem, "rar")
      [] OTHER                        -> n

(* multipartArchiveGroupKey: NoGroup, "" in the code, for names that       *)
(* belong to no set.                                                       *)
NoGroup == [style |-> "none", stem |-> 0]

MultipartArchiveGroupKey(n) ==
    CASE n.form = "part"            -> [style |-> "partrar", stem |-> n.stem]
      [] n.form \in {"rvol", "rar"} -> [style |-> "rstyle", stem |-> n.stem]
      [] OTHER                      -> NoGroup

(* Two names are volumes of one set.                                       *)
SameSet(n, m) ==
    /\ MultipartArchiveGroupKey(n) # NoGroup
    /\ MultipartArchiveGroupKey(n) = MultipartArchiveGroupKey(m)
=============================================================================
