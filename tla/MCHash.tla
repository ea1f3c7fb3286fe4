------------------------------ MODULE MCHash ------------------------------
(* Instances of Hash with four keys.  Key 1 is in its secondary bucket 2 and *)
(* key 2 in its primary bucket 0; key 3 pushes both on, to 1 and to 2.       *)
EXTENDS Hash

FourKeys == 1 .. 4
PrimOf == <<1, 0, 0, 0>>
SigOf == <<3, 2, 1, 1>>
TwoKeys == [b \in {0, 2} |-> IF b = 0 THEN 2 ELSE 1]
ThreeKeys == [b \in 0 .. 2 |-> <<3, 1, 2>>[b + 1]]

FirstWriter == CHOOSE w \in HWriters : TRUE

Use(ext, multi, bulk, loaded, adds, n1, n2, r) ==
  [ext_table_support |-> ext, use_local_cache |-> multi, bulk |-> bulk, loaded |-> loaded, adds |-> adds,
   writes |-> [w \in HWriters |-> IF w = FirstWriter THEN n1 ELSE n2],
   reads |-> [x \in HReaders |-> r]]

\* All writers add all keys, or each has keys of its own.
Same == [w \in HWriters |-> HKeys]
Apart == [w \in HWriters |-> IF w = FirstWriter THEN {3, 4} ELSE {1, 2}]

\* One writer, with lookups one by one or in bulk, or until all positions or
\* extendable buckets are used up; two writers without lookups, which add the
\* same keys once each or with extendable buckets keys of their own.
UsesRight ==
  {Use(TRUE, FALSE, bulk, TwoKeys, Same, 3, 0, 1) : bulk \in BOOLEAN}
  \cup {Use(TRUE, FALSE, FALSE, ThreeKeys, Same, 4, 0, 0),
        Use(TRUE, TRUE, FALSE, ThreeKeys, Same, 1, 1, 0),
        Use(TRUE, TRUE, FALSE, ThreeKeys, Apart, 2, 2, 0),
        Use(FALSE, TRUE, FALSE, TwoKeys, Same, 2, 1, 0)}

\* Two writers and a lookup.
UsesTwo == {Use(FALSE, TRUE, FALSE, TwoKeys, Same, 1, 1, 1)}

\* Two writers that both may add key 4 to a full table with an extendable bucket.
UsesExt == {Use(TRUE, TRUE, FALSE, ThreeKeys, Same, 1, 2, 0)}

\* All calls have been made.
HashFinished ==
  /\ \A w \in HWriters : wr[w].at = "idle" /\ writes[w] = 0
  /\ \A r \in HReaders : rd[r].at = "idle" /\ reads[r] = 0
  /\ UNCHANGED hashvars

MCHashSpec == HashInit /\ [][HashNext \/ HashFinished]_hashvars
=============================================================================
