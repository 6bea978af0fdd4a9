----------------------------- MODULE MCLakehouse -----------------------------
(***************************************************************************)
(* Two REST runs of a trade date and five attempts, the last three on the  *)
(* next day, at most one of them killed.  Four stream sessions: the second *)
(* begins between the clocks, the third after the last one and the fourth  *)
(* after the last outcome, both with index values; the first three         *)
(* together are not certified.  Three archive days with an event repeated  *)
(* on the next day, a tie in time, and a late day of older events.  A PDF  *)
(* of one page, then of two, read differently by the model's runs: the     *)
(* second output is published though its elements are more than arXiv Lens *)
(* reads; of the last four, the CLI refuses the one whose pages are large, *)
(* the worker the others.                                                  *)
(***************************************************************************)
EXTENDS Lakehouse, TLC

CONSTANTS s1, s2, s3, s4, ann, bob, g1, g2, l1, l2, c1, c2

MCDayOf == <<1, 1, 2, 2, 2>>
MCStarts == s1 :> 1 @@ s2 :> 2 @@ s3 :> 3 @@ s4 :> 4
MCSelects == [f \in SUBSET Sessions |-> IF s1 \notin f \/ {s1, s2, s3} \subseteq f THEN {} ELSE f]
E(id, actor, at) == [id |-> id, actor |-> actor, at |-> at]
MCArchive ==
    << <<{E(1, ann, 1)}, {E(2, ann, 2), E(3, bob, 2)}>>,
       <<{E(3, bob, 2), E(4, ann, 3)}, {E(5, ann, 3)}>>,
       <<{E(6, ann, 2)}, {E(7, bob, 1)}>> >>

Day(gaps, a, b) ==
    [gaps |-> gaps,
     selections |-> {[id |-> i, target |-> g1, net |-> a[i]] : i \in DOMAIN a}
                    \cup {[id |-> i, target |-> g2, net |-> b[i]] : i \in DOMAIN b}]
Good == Day(0, <<3, 4>>, <<4, 1, -1>>)
Weak == Day(0, <<-4>>, <<2, 0>>)
Gappy == Day(1, <<None>>, <<2>>)
\* Only days 4 and 5 can be in a holdout.
MCEvidence == [d \in 1..5 |-> CASE d = 4 -> {Good, Weak} [] d = 5 -> {Good, Gappy} [] OTHER -> {Good}]
MCGate == [selected |-> 2, coverage |-> 9, positive |-> 6, average |-> 0, worst |-> -1, gaps |-> 0]
MCConfigurations == {[d \in 1..6 |-> l1], [d \in 1..6 |-> IF d \in {1, 6} THEN l2 ELSE l1]}

Sdk(id, pages, blocks, images, size, elements, text) ==
    [id |-> id, pages |-> pages, blocks |-> blocks, images |-> images, size |-> size,
     read |-> [elements |-> elements, layout_vis |-> 1, manifest |-> 1, pages |-> text]]
MCSdkOutputs == {Sdk(1, 1, 1, 1, 1, 2, 1), Sdk(2, 1, 1, 1, 2, 3, 1), Sdk(3, 2, 1, 2, 2, 1, 1),
                 Sdk(4, 1, 0, 1, 1, 0, 1), Sdk(5, 2, 1, 1, 1, 1, 1), Sdk(6, 2, 1, 2, 3, 1, 1),
                 Sdk(7, 2, 1, 2, 2, 1, 3)}
MCLensLimits == [elements |-> 2, layout_vis |-> 1, manifest |-> 1, pages |-> 1]
MCPageCounts == <<1, 2>>
=============================================================================
