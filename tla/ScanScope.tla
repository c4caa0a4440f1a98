------------------------------ MODULE ScanScope ------------------------------
(***************************************************************************)
(* Which files a scan of a folder is about.  The code says it twice: the   *)
(* walk of scanner.inventory_media leaves out the folders below its depth, *)
(* and worker_support.path_in_scan_scope computes from the path alone      *)
(* whether an inventory row that the walk did not meet is to be removed.   *)
(* If the second said yes where the first does not look, a custom scan     *)
(* would forget files that are on the disk.                                *)
(*                                                                         *)
(* A path is the sequence of its parts below the media root; a scan has a  *)
(* target folder, a flag and a depth.                                      *)
(***************************************************************************)
EXTENDS Naturals, Sequences

IsUnder(folder, path) ==
    /\ Len(folder) <= Len(path)
    /\ \A i \in 1 .. Len(folder) : path[i] = folder[i]

Parent(path) == [i \in 1 .. Len(path) - 1 |-> path[i]]

(* A depth of 1 is dovi_convert's word for the folder alone.               *)
MaxDepth(recursive, depth) ==
    IF recursive /\ depth # 1 THEN depth ELSE 0

(* os.walk goes from a folder into its subfolders unless the list of them  *)
(* was cleared: a folder is entered when none of the folders from the      *)
(* target down to its parent is as deep as the limit.                      *)
Entered(folder, target, recursive, depth) ==
    /\ IsUnder(target, folder)
    /\ \A n \in Len(target) .. Len(folder) - 1 :
          n - Len(target) < MaxDepth(recursive, depth)

Walked(file, target, recursive, depth) ==
    Len(file) > 0 /\ Entered(Parent(file), target, recursive, depth)

DepthOneIsOneLevel(file, target, recursive, depth) ==   \* mutant: 1 taken at its word
    /\ IsUnder(target, file)
    /\ Len(file) > Len(target)
    /\ Len(file) - Len(target) - 1 <= IF recursive THEN depth ELSE 0

PathInScanScope(file, target, recursive, depth) ==
    /\ IsUnder(target, file)
    /\ Len(file) > Len(target)
    /\ Len(file) - Len(target) - 1 <= MaxDepth(recursive, depth)

=============================================================================
