------------------------------- MODULE MCRooms -------------------------------
(* Instances of Rooms for TLC. *)
EXTENDS Rooms, TLC

\* The global Namespace and another; a room of each, under the same name.
TwoEndpoints == {<<>>, <<"/chat">>}
OneRoom      == {<<"main">>}

Symmetry == Permutations(Sessions)

=============================================================================
