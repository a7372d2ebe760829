------------------------------ MODULE MCCaStore ------------------------------
EXTENDS CaStore, TLC

CONSTANTS o1, o2, o3

TwoOpeners   == {o1, o2}
ThreeOpeners == {o1, o2, o3}

OpenerSymmetry == Permutations(Openers)

=============================================================================
