--------------------------- MODULE AtomicProjection -------------------------
(***************************************************************************)
(* What the projection store promises: host files and the ledger that      *)
(* accounts for them change together or not at all, whatever a crash cuts  *)
(* short, and a projection takes nothing that is not its own - the bytes   *)
(* of others stay, and a file goes only when nobody claims it.             *)
(***************************************************************************)
CONSTANTS Resources, Absent, None

VARIABLES
    files,      \* host files
    entries     \* the ledger's entry of each

Changed == {r \in Resources : files'[r] # files[r]}

Foreign(file) == file # Absent /\ file.foreign

\* One transaction: what it writes and what it accounts for are the same.
Commit ==
    /\ \A r \in Resources :
          files'[r] # files[r] \/ entries'[r] # entries[r] =>
              entries'[r] # None /\ entries'[r].current = files'[r]
    /\ \A r \in Changed :
          /\ Foreign(files[r]) => Foreign(files'[r])
          /\ files'[r] = Absent => entries'[r].claimants = {}

\* Somebody who is not Pactile changes a file.
Edit == (\A r, q \in Changed : r = q) /\ UNCHANGED entries
=============================================================================
