-------------------------- MODULE PatchObservation --------------------------
(***************************************************************************)
(* What the patcher's checkout becomes once its turn is over (patcher.rs): *)
(* the request's scopes, the trees captured before and after, the observed *)
(* patch and its comparison with the declared one.  Pure definitions.      *)
(*                                                                         *)
(* A path is a sequence of components; a tree maps paths to entries        *)
(* [kind, digest, bytes, text], where text says that the bytes are UTF-8   *)
(* without NUL.                                                            *)
(***************************************************************************)
EXTENDS Integers, Sequences, FiniteSets, FiniteSetsExt

CONSTANTS
  MaxPatchFiles,   \* MAX_PATCH_FILES
  MaxDiffBytes,    \* MAX_PATCH_DIFF_BYTES, before and after together
  MaxFinalBytes,   \* MAX_PATCH_FINAL_BYTES, after
  MaxAllowedPaths  \* MAX_ALLOWED_PATHS

ProtectedComponents ==
  {".git", ".needle", ".codegraph", ".cache", "target", "node_modules", "dist", "build"}

IsProtected(path) == \E n \in DOMAIN path : path[n] \in ProtectedComponents

\* safe_relative_path: the components of a path that may be written at all.
IsSafe(path) == path # <<>> /\ \A n \in DOMAIN path : path[n] \notin {"..", "/", "."}

\* validate_change_request: scopes are safe, unprotected and not repeated.
AcceptsScopes(allowed) ==
  /\ Len(allowed) \in 1..MaxAllowedPaths
  /\ \A n \in DOMAIN allowed : IsSafe(allowed[n].path) /\ ~IsProtected(allowed[n].path)
  /\ \A m, n \in DOMAIN allowed : allowed[m].path = allowed[n].path => m = n

IsWithin(path, scope) ==
  \/ path = scope.path
  \/ /\ scope.subtree
     /\ Len(path) > Len(scope.path)
     /\ SubSeq(path, 1, Len(scope.path)) = scope.path

\* Fault: a subtree scope takes in the scopes beside it.
InSomeScopeByParent(path, allowed) ==
  \E n \in DOMAIN allowed :
    IsWithin(path, allowed[n]) \/ (allowed[n].subtree /\ path[1] = allowed[n].path[1])

InSomeScope(path, allowed) == \E n \in DOMAIN allowed : IsWithin(path, allowed[n])

\* An absent path reads as NoEntry.
NoEntry == [kind |-> "absent", digest |-> 0, bytes |-> 0, text |-> TRUE]
Entry(tree, path) == IF path \in DOMAIN tree THEN tree[path] ELSE NoEntry

ChangedPaths(before, after) ==
  {p \in DOMAIN before \cup DOMAIN after : Entry(before, p) # Entry(after, p)}

Operation(before, after, path) ==
  CASE path \notin DOMAIN before -> "create"
    [] path \notin DOMAIN after -> "delete"
    [] OTHER -> "update"

TotalBytes(tree, paths) == MapThenSumSet(LAMBDA p : Entry(tree, p).bytes, paths)

\* preserve_baseline_blobs: what can be read back as the text before.
HasBaseline(before, allowed, path) ==
  before[path].kind = "file" /\ InSomeScope(path, allowed) /\ before[path].bytes <= MaxDiffBytes

IsRename(before, after, paths) ==
  \E p, q \in paths :
    /\ Operation(before, after, p) = "delete"
    /\ Operation(before, after, q) = "create"
    /\ before[p].digest = after[q].digest

\* observe_patch accepts the difference of the trees.
Observable(allowed, before, after) ==
  LET changed == ChangedPaths(before, after) IN
  /\ changed # {}
  /\ Cardinality(changed) <= MaxPatchFiles
  /\ \A p \in changed :
       /\ ~IsProtected(p)
       /\ InSomeScope(p, allowed)
       /\ Entry(before, p).kind # "symlink" /\ Entry(after, p).kind # "symlink"
       /\ p \in DOMAIN before => HasBaseline(before, allowed, p) /\ before[p].text
       /\ Entry(after, p).text
  /\ TotalBytes(before, changed) + TotalBytes(after, changed) <= MaxDiffBytes
  /\ TotalBytes(after, changed) <= MaxFinalBytes
  /\ ~IsRename(before, after, changed)

\* The observed files, each with its bytes before and after.
ObservedFiles(before, after) ==
  {[path |-> p, operation |-> Operation(before, after, p),
    before |-> Entry(before, p), after |-> Entry(after, p)] :
      p \in ChangedPaths(before, after)}

\* declared_discrepancies: recorded with the patch, never a reason to refuse it.
Discrepancies(declared, files) ==
  LET observed == {<<f.path, f.operation>> : f \in files} IN
  (declared \ observed) \cup (observed \ declared)

\* What prepare_in_sandbox stores, or nothing.
ObservePatch(allowed, before, after, declared) ==
  IF AcceptsScopes(allowed) /\ Observable(allowed, before, after)
  THEN [files |-> ObservedFiles(before, after),
        discrepancies |-> Discrepancies(declared, ObservedFiles(before, after))]
  ELSE [files |-> {}, discrepancies |-> {}]

\* Writing the stored files over a tree, as repair, verify and apply do
\* (materialize_patch_artifact), and writing the stored bytes before back.
WriteFiles(tree, files, side) ==
  LET content(p) == LET f == CHOOSE f \in files : f.path = p IN
                    IF side = "after" THEN f.after ELSE f.before
      written == {f.path : f \in files}
      kept == {p \in DOMAIN tree \cup written :
                 IF p \in written THEN content(p) # NoEntry ELSE TRUE} IN
  [p \in kept |-> IF p \in written THEN content(p) ELSE tree[p]]

\* A stored patch leads from the tree before to the tree after and back, and
\* changes nothing that no scope of the request covers nor anything protected.
PatchIsFaithful(allowed, before, after, patch) ==
  patch.files # {} =>
    /\ WriteFiles(before, patch.files, "after") = after
    /\ WriteFiles(after, patch.files, "before") = before
    /\ \A f \in patch.files :
         /\ ~IsProtected(f.path)
         /\ \E n \in DOMAIN allowed :
              LET scope == allowed[n] IN
              \/ f.path = scope.path
              \/ scope.subtree /\ \E k \in 1..(Len(f.path) - 1) :
                                    SubSeq(f.path, 1, k) = scope.path
         /\ f.before.kind # "symlink" /\ f.after.kind # "symlink"

=============================================================================
