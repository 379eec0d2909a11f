----------------------------- MODULE Handover -----------------------------
(***************************************************************************)
(* What the migration of legacy files comes to: what is in the files when  *)
(* it happens moves into the database in one transaction, and before it    *)
(* nothing leaves the files.  It happens once: what is put beside a        *)
(* database that was migrated into is thrown away unread, and that is less *)
(* than README.md:148 promises.                                            *)
(***************************************************************************)
CONSTANT Contents

VARIABLES
  left, \* the files whose contents the database does not hold
  taken \* the files that were migrated into the database

hvars == <<left, taken>>

Init == left \subseteq Contents /\ taken = {}

\* All that is left is taken in one step, once.
Take ==
  /\ taken = {}
  /\ left # {}
  /\ taken' = left
  /\ left' = {}

\* The operator puts old files beside the database.
Place ==
  /\ left' \in (SUBSET Contents) \ {{}}
  /\ left \subseteq left'
  /\ UNCHANGED taken

\* A later start removes what it never read.
Discard ==
  /\ taken # {}
  /\ left' \subseteq left
  /\ UNCHANGED taken

Next == Take \/ Place \/ Discard

Spec == Init /\ [][Next]_hvars
=============================================================================
