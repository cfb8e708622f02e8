---------------------------- MODULE AtomicWrite ----------------------------
(***************************************************************************)
(* What the repository write promises its caller (the header and the error *)
(* variants of crates/io/src/txn.rs): the write returns once; it returns   *)
(* with every file written, or with every file as it was, or it says that  *)
(* the restore of some originals failed and then the original of each of   *)
(* those files is still on disk, in a backup that the error names.         *)
(***************************************************************************)

CONSTANTS
    Files,          \* the files that the patch writes
    Before,         \* [Files -> contents] before the write
    After           \* [Files -> contents] that the patch asks for

VARIABLES
    outcome,        \* "pending" until the write returns
    content,        \* what the caller finds in each file at the return
    rescue          \* the files whose original is only in a named backup

vars == <<outcome, content, rescue>>

Init ==
    /\ outcome = "pending"
    /\ content = Before
    /\ rescue = {}

\* Every file is written.
Commit ==
    /\ outcome = "pending"
    /\ outcome' = "all"
    /\ content' = After
    /\ UNCHANGED rescue

\* No file is written: the tree is as it was.
Abort ==
    /\ outcome = "pending"
    /\ outcome' = "none"
    /\ UNCHANGED <<content, rescue>>

\* Some originals could not be put back: exactly those files may differ.
PartlyApply ==
    /\ outcome = "pending"
    /\ outcome' = "partly"
    /\ \E lost \in (SUBSET Files) \ {{}} :
          /\ rescue' = lost
          /\ \A f \in Files \ lost : content'[f] = Before[f]
          /\ DOMAIN content' = Files

Next == Commit \/ Abort \/ PartlyApply

Spec == Init /\ [][Next]_vars
=============================================================================
