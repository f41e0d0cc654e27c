----------------------------- MODULE RuntimeIds -----------------------------
(* The identifiers shared by the store, the registry and the Runtime. *)
CONSTANTS
  Sessions,    \* session ids
  Runs,        \* run ids, from uuid4: never issued twice
  Nil          \* SQL NULL, Python None, and the row that is not there
=============================================================================
