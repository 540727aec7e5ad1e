-------------------------- MODULE MCSquadRegistry --------------------------
\* Two groups with one player in common.
EXTENDS SquadRegistry, TLC

MCGroup == {{"Ann.1", "Bob.2", "Cat.3"}, {"Cat.3", "Dan.4"}}
Symmetry == Permutations(Session) \cup Permutations(ClusterId)
=============================================================================
