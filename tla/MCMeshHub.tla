----------------------------- MODULE MCMeshHub -----------------------------
(* One message to one chat, a prompt of its parent or a note, whose engine *)
(* runs at most twice.                                                     *)
EXTENDS MeshHub

CONSTANT m1

MCMail == {m1}
MCAge == [m \in MCMail |-> 0]
=============================================================================
