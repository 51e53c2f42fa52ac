--------------------------- MODULE MCProjectWrites ---------------------------
(* One existing project, one that may be created, and three users: an editor, *)
(* one who also tries to delete without permission, and an administrator.     *)
EXTENDS ProjectWrites

CONSTANTS k1, k2, k3

Sets(f, v) == [op |-> "update", field |-> f, to |-> v]
Deletes == [op |-> "delete", field |-> "none", to |-> "x"]
Creates(f, v) == [op |-> "create", field |-> f, to |-> v]

MCWants == [k \in Keys |->
              CASE k = k1 -> {Sets("f", "y")}
                [] k = k2 -> {Sets("f", "x"), Deletes}
                [] k = k3 -> {Sets("g", "y"), Deletes, Creates("g", "y")}]
=============================================================================
