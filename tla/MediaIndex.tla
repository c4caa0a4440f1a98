----------------------------- MODULE MediaIndex -----------------------------
(***************************************************************************)
(* What the scans promise to whoever reads inventory and candidates, the   *)
(* pages, the approvals and the automation: the two tables are written     *)
(* together, one root at a time, only by a scan that was asked for; and    *)
(* where nobody touched the files since it began, they say what is on the  *)
(* disk.  How a scan finds out does not show: it may end at any time, and  *)
(* a root it has not written yet is then as it was.                        *)
(***************************************************************************)
CONSTANTS
    Paths,
    Roots,
    RootOf,
    Unclear       \* files whose name dovi_convert shortens to one that fits another

VARIABLES
    disk,         \* the file at each path
    inventory,    \* per path the scanned file and its verdict
    candidates,   \* per path [active, file]
    phase,        \* whether a scan is asked for or running
    scope,        \* the paths it is about
    due,          \* the roots it has not written yet
    narrow,       \* it writes nothing outside its scope
    touched,      \* paths whose file changed since it began
    misjudged     \* paths whose row holds a wrong verdict

tables == <<inventory, candidates>>
job == <<phase, scope, due, narrow>>
vars == <<disk, tables, job, touched, misjudged>>

TruthAbout(p) ==
    /\ inventory[p].file = disk[p]
    /\ candidates[p].active <=> disk[p].form = "mel"
    /\ candidates[p].active => candidates[p].file = disk[p]

Follows(p) == candidates[p].active => inventory[p] = [file |-> candidates[p].file, mel |-> TRUE]

Init ==
    /\ \A p \in Paths : TruthAbout(p)
    /\ phase = "none"
    /\ scope = {}
    /\ due = {}
    /\ narrow = FALSE
    /\ touched = {}
    /\ misjudged = {}

(* A conversion that replaces a file may take its candidate off the list.  *)
(* Its row may be wrong about a file that comes back with the fingerprint  *)
(* in the row.                                                             *)
Change(p) ==
    /\ disk' = [disk EXCEPT ![p] = disk'[p]]
    /\ inventory' = inventory
    /\ \/ candidates' = candidates
       \/ phase # "running" /\ candidates' = [candidates EXCEPT ![p].active = FALSE]
    /\ touched' = IF phase = "running" THEN touched \cup {p} ELSE touched
    /\ \/ misjudged' = misjudged
       \/ disk'[p] = inventory[p].file /\ misjudged' = misjudged \cup {p}
    /\ UNCHANGED job

Ask ==
    /\ phase = "none"
    /\ phase' = "asked"
    /\ scope' \in SUBSET Paths
    /\ due' \in SUBSET Roots
    /\ \A p \in scope' : RootOf[p] \in due'
    /\ narrow' \in BOOLEAN
    /\ UNCHANGED <<disk, tables, touched, misjudged>>

Start ==
    /\ phase = "asked"
    /\ phase' = "running"
    /\ touched' = {}
    /\ UNCHANGED <<disk, tables, scope, due, narrow, misjudged>>

(* What it writes is wrong only about a file that changed meanwhile, or    *)
(* one whose name is unclear; such a file goes without a row of its own at *)
(* most if it is not MEL.                                                  *)
WriteRoot(r) ==
    /\ phase = "running"
    /\ r \in due
    /\ due' = due \ {r}
    /\ misjudged' \subseteq misjudged \cup touched \cup Unclear
    /\ \A p \in Paths :
          /\ RootOf[p] # r \/ (narrow /\ p \notin scope)
                => inventory'[p] = inventory[p] /\ candidates'[p] = candidates[p]
          /\ RootOf[p] = r /\ p \in scope \ (touched \cup misjudged')
                => TruthAbout(p)' \/ (p \in Unclear /\ disk[p].form # "mel")
          /\ Follows(p)'
    /\ UNCHANGED <<disk, phase, scope, narrow, touched>>

End ==
    /\ phase = "running"
    /\ phase' = "none"
    /\ scope' = {}
    /\ due' = {}
    /\ narrow' = FALSE
    /\ touched' = {}
    /\ UNCHANGED <<disk, tables, misjudged>>

Next ==
    \/ \E p \in Paths : Change(p)
    \/ Ask
    \/ Start
    \/ \E r \in Roots : WriteRoot(r)
    \/ End

Spec == Init /\ [][Next]_vars

=============================================================================
