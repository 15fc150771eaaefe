----------------------------- MODULE MCCutover ------------------------------
(* Instances of Cutover for TLC.                                           *)
EXTENDS Cutover

CONSTANTS o1, o2

TwoOperators == {o1, o2}
Symmetry == Permutations(TwoOperators)

(* Two jobs were imported from the same line, one from another.            *)
ThreeJobs == <<"a", "b", "c">>
Origins   == [a |-> "x", b |-> "x", c |-> "y"]
Sayings   == {"", "marker", "note", "x", "y"}
Tabs      == {<<Entry("x"), Hashed(1, "note"), Entry("y")>>,
              <<Entry("x"), Hashed(1, "y"), Entry("x")>>}
Additions == {Entry("x")}
=============================================================================
