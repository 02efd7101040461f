---------------------------- MODULE MCActiveApply ---------------------------
\* ActiveApply with a patch of three files, one for each operation.
EXTENDS ActiveApply

MCFiles == <<"created", "updated", "deleted">>
MCOperation ==
  [p \in PatchPaths |->
     CASE p = "created" -> "Create" [] p = "updated" -> "Update"
       [] p = "deleted" -> "Delete"]
=============================================================================
