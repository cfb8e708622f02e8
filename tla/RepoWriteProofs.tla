-------------------------- MODULE RepoWriteProofs --------------------------
(***************************************************************************)
(* The repository write loses no original and a failed write restores the  *)
(* tree, for every number of paths and for every way the paths resolve to  *)
(* files, also when several paths resolve to one file.                     *)
(*                                                                         *)
(* The inductive invariant says where the original of each file is.  The   *)
(* first path, in path order, that resolves to a file moves its original   *)
(* into its backup; the later ones move what an earlier path wrote.  The   *)
(* rollback goes from the last completed path to the first, so the move of *)
(* the first path's backup is the last one over the file.                  *)
(***************************************************************************)
EXTENDS RepoWrite, TLAPS

Untouched == tree = [f \in Files |-> Original(f)]

\* Position i is the first path that resolves to f.
First(i, f) == Target[i] = f /\ \A j \in 1 .. i - 1 : Target[j] # f

\* The paths 1 .. k have their backups: the original of a file that one of
\* them resolves to is in the backup of its first path; every other original
\* is in its file or in a retained backup.
Located(k) ==
    \A f \in Files :
        IF \E j \in 1 .. k : Target[j] = f
        THEN \E i \in 1 .. k : First(i, f) /\ backup[i] = Original(f)
        ELSE \/ tree[f] = Original(f)
             \/ \E i \in retained : Target[i] = f /\ backup[i] = Original(f)

Unwritten == completed = 0 /\ retained = {} /\ Untouched

InvBegin == phase \in {"start", "stage", "reserve"} =>
    pos \in Position /\ error = "none" /\ Unwritten

InvMove == phase \in {"out", "in"} =>
    /\ pos \in Position /\ error = "none" /\ retained = {}
    /\ completed = IF phase = "out" THEN pos - 1 ELSE pos
    /\ phase = "in" => tree[Target[pos]] = Missing
    /\ \A i \in 1 .. pos - 1 : staging[i] = Missing
    /\ Located(completed)

InvRollback == phase = "rollback" =>
    /\ pos \in 1 .. completed /\ error = "replace" /\ failed \in Position
    /\ retained \subseteq pos + 1 .. completed
    /\ Located(pos)

InvCleanup == phase \in {"drop_staged", "drop_backups", "returned"} =>
    /\ error \in {"watch", "stage", "reserve"} => Unwritten
    /\ error = "replace" => /\ failed \in Position
                            /\ retained \subseteq 1 .. completed
                            /\ Located(0)
                            /\ phase = "drop_backups" => pos > completed
    /\ error = "none" => phase # "drop_staged" /\ Committed

InvDead == phase = "dead" => OriginalsSurvive

Placed == InvBegin /\ InvMove /\ InvRollback /\ InvCleanup /\ InvDead

Inv == TypeOK /\ Placed

-----------------------------------------------------------------------------
(* Lemmas.                                                                 *)

\* The constants and the sets of the type invariant, unfolded once.
USE NAssumption, TargetAssumption DEF Position

\* The contents that the steps write.
LEMMA ContentsHold ==
    /\ Missing \in Contents /\ Empty \in Contents
    /\ \A f \in Files : Original(f) \in Contents
    /\ \A i \in Position : New(i) \in Contents
  BY DEF Contents

\* Where every original is located, none is lost.
LEMMA LocatedSurvive ==
    ASSUME NEW k \in 0 .. N, Located(k), retained \subseteq Position
    PROVE  OriginalsSurvive
  BY DEF Located, First, OriginalsSurvive

\* A tree that was not touched has every original.
LEMMA UntouchedSurvive == Untouched => OriginalsSurvive
  BY DEF Untouched, OriginalsSurvive

\* Before the first move every original is in its file.
LEMMA UntouchedLocated == Untouched => Located(0)
  BY DEF Untouched, Located

\* With every backup back or retained, the files with no retained backup are
\* as they were.
LEMMA RestoredUntouched ==
    ASSUME TypeOK, Located(0), retained = {}
    PROVE  Untouched
  <1>1. \A f \in Files : tree[f] = Original(f)
    BY DEF Located
  <1>2. tree \in [Files -> Contents]
    BY DEF TypeOK
  <1> QED
    BY <1>1, <1>2 DEF Untouched

\* In every state of the invariant no original is lost.
LEMMA InvSurvive == Inv => OriginalsSurvive
  <1> SUFFICES ASSUME Inv PROVE OriginalsSurvive
    OBVIOUS
  <1>1. phase \in Phases /\ completed \in 0 .. N /\ pos \in 1 .. N + 1
        /\ error \in Errors /\ retained \subseteq Position
    BY DEF Inv, TypeOK
  <1>2. CASE phase \in {"start", "stage", "reserve"}
    BY <1>2, UntouchedSurvive DEF Inv, Placed, InvBegin, Unwritten
  <1>3. CASE phase \in {"out", "in"}
    BY <1>1, <1>3, LocatedSurvive DEF Inv, Placed, InvMove
  <1>4. CASE phase = "rollback"
    <2>1. pos \in 0 .. N /\ Located(pos)
      BY <1>1, <1>4 DEF Inv, Placed, InvRollback
    <2> QED
      BY <1>1, <2>1, LocatedSurvive
  <1>5. CASE phase \in {"drop_staged", "drop_backups", "returned"}
    <2>1. CASE error \in {"watch", "stage", "reserve"}
      BY <1>5, <2>1, UntouchedSurvive DEF Inv, Placed, InvCleanup, Unwritten
    <2>2. CASE error = "replace"
      <3>1. Located(0) /\ 0 \in 0 .. N
        BY <1>5, <2>2 DEF Inv, Placed, InvCleanup
      <3> QED
        BY <1>1, <3>1, LocatedSurvive
    <2>3. CASE error = "none"
      BY <1>5, <2>3 DEF Inv, Placed, InvCleanup, OriginalsSurvive
    <2> QED
      BY <1>1, <2>1, <2>2, <2>3 DEF Errors
  <1>6. CASE phase = "dead"
    BY <1>6 DEF Inv, Placed, InvDead
  <1> QED
    BY <1>1, <1>2, <1>3, <1>4, <1>5, <1>6 DEF Phases

-----------------------------------------------------------------------------
(* The invariant is inductive.                                             *)

\* The initial state has every original in its file.
LEMMA InitInv == Init => Inv
  <1> SUFFICES ASSUME Init PROVE Inv
    OBVIOUS
  <1>1. TypeOK
    <2>1. /\ phase \in Phases /\ error \in Errors
          /\ pos \in 1 .. N + 1 /\ failed \in 0 .. N /\ completed \in 0 .. N
      BY DEF Init, Phases, Errors
    <2>2. tree \in [Files -> Contents]
      BY ContentsHold DEF Init
    <2>3. staging \in [Position -> Contents] /\ backup \in [Position -> Contents]
      BY ContentsHold DEF Init
    <2> QED
      BY <2>1, <2>2, <2>3 DEF Init, TypeOK
  <1>2. phase = "start" /\ pos \in Position /\ error = "none" /\ Unwritten
    BY DEF Init, Unwritten, Untouched
  <1> QED
    BY <1>1, <1>2 DEF Inv, Placed, InvBegin, InvMove, InvRollback, InvCleanup, InvDead

\* The types fall into the control, the files on disk and the rest.
TypeControl == /\ phase \in Phases /\ error \in Errors
               /\ pos \in 1 .. N + 1 /\ failed \in 0 .. N /\ completed \in 0 .. N
TypeDisk == /\ tree \in [Files -> Contents]
            /\ staging \in [Position -> Contents] /\ backup \in [Position -> Contents]
TypeRest == /\ retained \subseteq Position /\ leftovers \subseteq Sibling
            /\ held \in BOOLEAN /\ interrupted \in BOOLEAN

\* The three parts are the type invariant.
LEMMA TypeParts == TypeOK <=> TypeControl /\ TypeDisk /\ TypeRest
  BY DEF TypeOK, TypeControl, TypeDisk, TypeRest

\* Where a step uses the position, the invariant bounds it.
LEMMA StepBounds ==
    ASSUME Inv
    PROVE  /\ phase \in {"stage", "reserve", "out", "in", "rollback"} =>
                  pos \in Position /\ Target[pos] \in Files
           /\ phase = "rollback" => failed \in Position
  <1>1. completed \in 0 .. N
    BY DEF Inv, TypeOK
  <1> QED
    BY <1>1 DEF Inv, Placed, InvBegin, InvMove, InvRollback

\* Every step keeps the types of the control.
LEMMA ControlStep == Inv /\ [Next]_vars => TypeControl'
  <1> SUFFICES ASSUME Inv, [Next]_vars PROVE TypeControl'
    OBVIOUS
  <1> USE DEF TypeControl, disk, signal
  <1>1. TypeControl /\ TypeDisk /\ TypeRest
    BY TypeParts DEF Inv
  <1>2. CASE write_held
    BY <1>1, <1>2, StepBounds DEF write_held, Phases, Errors
  <1>3. CASE stage_one
    BY <1>1, <1>3, StepBounds DEF stage_one, Phases, Errors
  <1>4. CASE reserve_one
    BY <1>1, <1>4, StepBounds DEF reserve_one, Phases, Errors
  <1>5. CASE move_out
    BY <1>1, <1>5, StepBounds DEF move_out, undo_from, Phases, Errors
  <1>6. CASE move_in
    BY <1>1, <1>6, StepBounds DEF move_in, undo_from, Phases, Errors
  <1>7. CASE roll_back
    BY <1>1, <1>7, StepBounds DEF roll_back, Phases, Errors
  <1>8. CASE discard_staged
    BY <1>1, <1>8, StepBounds DEF discard_staged, StagedToDrop, remove, Phases, Errors
  <1>9. CASE discard
    BY <1>1, <1>9, StepBounds DEF discard, BackupsToDrop, remove, Phases, Errors
  <1>10. CASE sigint
    BY <1>1, <1>10, StepBounds DEF sigint, Phases, Errors
  <1>11. CASE kill
    BY <1>1, <1>11, StepBounds DEF kill, Phases, Errors
  <1>12. CASE UNCHANGED vars
    BY <1>1, <1>12 DEF vars
  <1> QED
    BY <1>2, <1>3, <1>4, <1>5, <1>6, <1>7, <1>8, <1>9, <1>10, <1>11, <1>12 DEF Next, Step

\* Every step keeps the types of the files.
LEMMA DiskStep == Inv /\ [Next]_vars => TypeDisk'
  <1> SUFFICES ASSUME Inv, [Next]_vars PROVE TypeDisk'
    OBVIOUS
  <1> USE DEF TypeDisk, disk, signal
  <1>1. TypeControl /\ TypeDisk /\ TypeRest
    BY TypeParts DEF Inv
  <1>2. CASE write_held
    BY <1>1, <1>2, StepBounds, ContentsHold DEF write_held
  <1>3. CASE stage_one
    BY <1>1, <1>3, StepBounds, ContentsHold DEF stage_one
  <1>4. CASE reserve_one
    BY <1>1, <1>4, StepBounds, ContentsHold DEF reserve_one
  <1>5. CASE move_out
    BY <1>1, <1>5, StepBounds, ContentsHold DEF move_out, undo_from
  <1>6. CASE move_in
    BY <1>1, <1>6, StepBounds, ContentsHold DEF move_in, undo_from
  <1>7. CASE roll_back
    BY <1>1, <1>7, StepBounds, ContentsHold DEF roll_back
  <1>8. CASE discard_staged
    BY <1>1, <1>8, StepBounds, ContentsHold DEF discard_staged, StagedToDrop, remove
  <1>9. CASE discard
    BY <1>1, <1>9, StepBounds, ContentsHold DEF discard, BackupsToDrop, remove
  <1>10. CASE sigint
    BY <1>1, <1>10, StepBounds, ContentsHold DEF sigint
  <1>11. CASE kill
    BY <1>1, <1>11, StepBounds, ContentsHold DEF kill
  <1>12. CASE UNCHANGED vars
    BY <1>1, <1>12 DEF vars
  <1> QED
    BY <1>2, <1>3, <1>4, <1>5, <1>6, <1>7, <1>8, <1>9, <1>10, <1>11, <1>12 DEF Next, Step

\* Every step keeps the types of the lists and of the signal state.
LEMMA RestStep == Inv /\ [Next]_vars => TypeRest'
  <1> SUFFICES ASSUME Inv, [Next]_vars PROVE TypeRest'
    OBVIOUS
  <1> USE DEF TypeRest, disk, signal
  <1>1. TypeControl /\ TypeDisk /\ TypeRest
    BY TypeParts DEF Inv
  <1>2. CASE write_held
    BY <1>1, <1>2, StepBounds DEF write_held, Sibling
  <1>3. CASE stage_one
    BY <1>1, <1>3, StepBounds DEF stage_one, Sibling
  <1>4. CASE reserve_one
    BY <1>1, <1>4, StepBounds DEF reserve_one, Sibling
  <1>5. CASE move_out
    BY <1>1, <1>5, StepBounds DEF move_out, undo_from, Sibling
  <1>6. CASE move_in
    BY <1>1, <1>6, StepBounds DEF move_in, undo_from, Sibling
  <1>7. CASE roll_back
    BY <1>1, <1>7, StepBounds DEF roll_back, Sibling
  <1>8. CASE discard_staged
    <2>1. pos \in StagedToDrop => <<"staging", pos>> \in Sibling
      BY <1>1 DEF StagedToDrop, TypeControl, Sibling
    <2>2. retained' \subseteq Position /\ leftovers' \subseteq Sibling
      BY <1>1, <1>8, <2>1 DEF discard_staged, remove
    <2>3. held' \in BOOLEAN /\ interrupted' \in BOOLEAN
      BY <1>1, <1>8 DEF discard_staged
    <2> QED
      BY <2>2, <2>3
  <1>9. CASE discard
    <2>1. pos \in BackupsToDrop => <<"backup", pos>> \in Sibling
      BY <1>1 DEF BackupsToDrop, TypeControl, Sibling
    <2>2. retained' \subseteq Position /\ leftovers' \subseteq Sibling
      BY <1>1, <1>9, <2>1 DEF discard, remove
    <2>3. held' \in BOOLEAN /\ interrupted' \in BOOLEAN
      BY <1>1, <1>9 DEF discard
    <2> QED
      BY <2>2, <2>3
  <1>10. CASE sigint
    BY <1>1, <1>10, StepBounds DEF sigint, Sibling
  <1>11. CASE kill
    BY <1>1, <1>11, StepBounds DEF kill, Sibling
  <1>12. CASE UNCHANGED vars
    BY <1>1, <1>12 DEF vars
  <1> QED
    BY <1>2, <1>3, <1>4, <1>5, <1>6, <1>7, <1>8, <1>9, <1>10, <1>11, <1>12 DEF Next, Step

-----------------------------------------------------------------------------
(* Each action keeps the originals where the invariant says they are.      *)

\* Up to the reservation of the last backup no file is touched; the first
\* move finds every original in its file.
LEMMA BeginStep ==
    ASSUME Inv, write_held \/ stage_one \/ reserve_one
    PROVE  Placed'
  <1> USE DEF disk, signal, Unwritten, Untouched
  <1>1. phase \in {"start", "stage", "reserve"} /\ pos \in Position
        /\ error = "none" /\ Unwritten
    BY DEF Inv, Placed, InvBegin, write_held, stage_one, reserve_one
  <1>2. Unwritten'
    BY <1>1 DEF write_held, stage_one, reserve_one
  <1>3. Located(0)'
    BY <1>2 DEF Located
  <1>4. CASE write_held
    BY <1>1, <1>2, <1>4 DEF write_held, Placed, InvBegin, InvMove, InvRollback,
                            InvCleanup, InvDead
  <1>5. CASE stage_one
    BY <1>1, <1>2, <1>5 DEF stage_one, Placed, InvBegin, InvMove, InvRollback,
                            InvCleanup, InvDead
  <1>6. CASE reserve_one
    <2>1. CASE phase' = "out"
      BY <1>1, <1>2, <1>3, <1>6, <2>1 DEF reserve_one, Placed, InvBegin, InvMove,
                                          InvRollback, InvCleanup, InvDead
    <2>2. CASE phase' # "out"
      BY <1>1, <1>2, <1>6, <2>2 DEF reserve_one, Placed, InvBegin, InvMove,
                                    InvRollback, InvCleanup, InvDead
    <2> QED
      BY <2>1, <2>2
  <1> QED
    BY <1>4, <1>5, <1>6

\* The undo starts with every completed path located.
LEMMA UndoStep ==
    ASSUME TypeOK, pos \in Position, completed \in 0 .. N, Located(completed),
           retained = {}, undo_from(completed),
           UNCHANGED <<completed, tree, backup, retained>>
    PROVE  Placed'
  <1>1. Located(completed)'
    BY DEF Located
  <1>2. failed' \in Position /\ error' = "replace" /\ retained' = {}
    BY DEF undo_from
  <1>3. CASE completed = 0
    BY <1>1, <1>2, <1>3 DEF undo_from, Placed, InvBegin, InvMove, InvRollback,
                            InvCleanup, InvDead
  <1>4. CASE completed # 0
    BY <1>1, <1>2, <1>4 DEF undo_from, Placed, InvBegin, InvMove, InvRollback,
                            InvCleanup, InvDead
  <1> QED
    BY <1>3, <1>4

\* The move of a target to its backup: the first path of a file takes the
\* original with it, a later one leaves it where it is.
LEMMA MoveOutStep == Inv /\ move_out => Placed'
  <1> SUFFICES ASSUME Inv, move_out PROVE Placed'
    OBVIOUS
  <1>1. /\ pos \in Position /\ error = "none" /\ retained = {}
        /\ completed = pos - 1 /\ Located(completed) /\ Target[pos] \in Files
        /\ \A i \in 1 .. pos - 1 : staging[i] = Missing
    BY DEF Inv, Placed, InvMove, move_out
  <1>2. TypeOK
    BY DEF Inv
  <1>3. CASE undo_from(completed) /\ UNCHANGED <<backup, tree, completed>>
    BY <1>1, <1>2, <1>3, UndoStep DEF move_out
  <1>4. CASE phase' = "in"
    <2>1. /\ backup' = [backup EXCEPT ![pos] = tree[Target[pos]]]
          /\ tree' = [tree EXCEPT ![Target[pos]] = Missing]
          /\ completed' = pos /\ UNCHANGED <<pos, error, retained, staging>>
      BY <1>1, <1>4 DEF move_out, undo_from
    <2>2. backup \in [Position -> Contents] /\ tree \in [Files -> Contents]
      BY <1>2 DEF TypeOK
    <2>3. Located(pos)'
      <3> SUFFICES ASSUME NEW f \in Files
                   PROVE  IF \E j \in 1 .. pos : Target[j] = f
                          THEN \E i \in 1 .. pos : First(i, f) /\ backup'[i] = Original(f)
                          ELSE tree'[f] = Original(f)
        BY <1>1, <2>1 DEF Located, First
      <3>1. CASE \E j \in 1 .. pos - 1 : Target[j] = f
        <4>1. PICK i \in 1 .. pos - 1 : First(i, f) /\ backup[i] = Original(f)
          BY <1>1, <3>1 DEF Located
        <4>2. backup'[i] = Original(f)
          BY <1>1, <2>1, <2>2, <4>1
        <4> QED
          BY <1>1, <3>1, <4>1, <4>2
      <3>2. CASE (\A j \in 1 .. pos - 1 : Target[j] # f) /\ Target[pos] = f
        <4>1. tree[f] = Original(f)
          BY <1>1, <3>2 DEF Located
        <4>2. First(pos, f) /\ backup'[pos] = Original(f)
          BY <1>1, <2>1, <2>2, <3>2, <4>1 DEF First
        <4> QED
          BY <1>1, <3>2, <4>2
      <3>3. CASE \A j \in 1 .. pos : Target[j] # f
        BY <1>1, <2>1, <2>2, <3>3 DEF Located
      <3> QED
        BY <1>1, <3>1, <3>2, <3>3
    <2>4. tree'[Target'[pos']] = Missing
      BY <1>1, <2>1, <2>2
    <2> QED
      BY <1>1, <1>4, <2>1, <2>3, <2>4 DEF Placed, InvBegin, InvMove, InvRollback,
                                          InvCleanup, InvDead
  <1> QED
    BY <1>3, <1>4 DEF move_out

\* The move of a staged file into its target disturbs no backup; the file's
\* first path is among the completed ones, so its original is in a backup.
LEMMA MoveInStep == Inv /\ move_in => Placed'
  <1> SUFFICES ASSUME Inv, move_in PROVE Placed'
    OBVIOUS
  <1>1. /\ pos \in Position /\ error = "none" /\ retained = {}
        /\ completed = pos /\ Located(completed) /\ Target[pos] \in Files
        /\ \A i \in 1 .. pos - 1 : staging[i] = Missing
    BY DEF Inv, Placed, InvMove, move_in
  <1>2. TypeOK
    BY DEF Inv
  <1>3. CASE undo_from(completed) /\ UNCHANGED <<tree, staging>>
    BY <1>1, <1>2, <1>3, UndoStep DEF move_in
  <1>4. CASE phase' \in {"out", "drop_backups"}
    <2>1. /\ tree' = [tree EXCEPT ![Target[pos]] = staging[pos]]
          /\ staging' = [staging EXCEPT ![pos] = Missing]
          /\ IF pos = N THEN phase' = "drop_backups" /\ pos' = 1
                        ELSE phase' = "out" /\ pos' = pos + 1
          /\ UNCHANGED <<error, completed, backup, retained>>
      BY <1>1, <1>4 DEF move_in, undo_from
    <2>2. staging \in [Position -> Contents] /\ tree \in [Files -> Contents]
      BY <1>2 DEF TypeOK
    <2>3. Located(completed)'
      BY <1>1, <2>1, <2>2 DEF Located, First
    <2>4. \A i \in 1 .. pos : staging'[i] = Missing
      BY <1>1, <2>1, <2>2
    <2>5. CASE pos = N
      <3>1. staging' = [i \in Position |-> Missing]
        BY <2>1, <2>2, <2>4, <2>5
      <3> QED
        BY <1>1, <2>1, <2>5, <3>1 DEF Placed, InvBegin, InvMove, InvRollback,
                                      InvCleanup, InvDead, Committed
    <2>6. CASE pos # N
      BY <1>1, <2>1, <2>3, <2>4, <2>6 DEF Placed, InvBegin, InvMove, InvRollback,
                                          InvCleanup, InvDead
    <2> QED
      BY <2>5, <2>6
  <1> QED
    BY <1>3, <1>4 DEF move_in

\* The move of a backup back to its target: what it overwrites is either not
\* the original, or the original that it brings back itself.
LEMMA RollBackStep == Inv /\ roll_back => Placed'
  <1> SUFFICES ASSUME Inv, roll_back PROVE Placed'
    OBVIOUS
  <1>1. /\ pos \in 1 .. completed /\ error = "replace" /\ failed \in Position
        /\ retained \subseteq pos + 1 .. completed /\ Located(pos)
    BY DEF Inv, Placed, InvRollback, roll_back
  <1>2. /\ backup \in [Position -> Contents] /\ tree \in [Files -> Contents]
        /\ completed \in 0 .. N /\ pos \in Position /\ Target[pos] \in Files
    BY <1>1 DEF Inv, TypeOK
  <1>k. PICK k \in 0 .. N : k = pos - 1
    BY <1>2
  <1>3. Located(k)'
    <2> SUFFICES ASSUME NEW f \in Files
                 PROVE  IF \E j \in 1 .. pos - 1 : Target[j] = f
                        THEN \E i \in 1 .. pos - 1 : First(i, f) /\ backup'[i] = Original(f)
                        ELSE \/ tree'[f] = Original(f)
                             \/ \E i \in retained' : Target[i] = f /\ backup'[i] = Original(f)
      <3>1. \A f \in Files :
                IF \E j \in 1 .. pos - 1 : Target[j] = f
                THEN \E i \in 1 .. pos - 1 : First(i, f) /\ backup'[i] = Original(f)
                ELSE \/ tree'[f] = Original(f)
                     \/ \E i \in retained' : Target[i] = f /\ backup'[i] = Original(f)
        OBVIOUS
      <3> QED
        BY <1>k, <3>1 DEF Located, First
    <2>0. \/ /\ tree' = [tree EXCEPT ![Target[pos]] = backup[pos]]
             /\ backup' = [backup EXCEPT ![pos] = Missing] /\ retained' = retained
          \/ retained' = retained \cup {pos} /\ tree' = tree /\ backup' = backup
      BY DEF roll_back
    <2>1. CASE \E j \in 1 .. pos - 1 : Target[j] = f
      <3>1. PICK i \in 1 .. pos : First(i, f) /\ backup[i] = Original(f)
        BY <1>2, <1>1, <2>1 DEF Located
      <3>2. i \in 1 .. pos - 1
        BY <1>2, <2>1, <3>1 DEF First
      <3>3. backup'[i] = Original(f)
        BY <1>2, <2>0, <3>1, <3>2
      <3> QED
        BY <2>1, <3>1, <3>2, <3>3
    <2>2. CASE (\A j \in 1 .. pos - 1 : Target[j] # f) /\ Target[pos] = f
      <3>1. PICK i \in 1 .. pos : First(i, f) /\ backup[i] = Original(f)
        BY <1>2, <1>1, <2>2 DEF Located
      <3>2. i = pos
        BY <1>2, <2>2, <3>1 DEF First
      <3>3. backup[pos] = Original(f)
        BY <3>1, <3>2
      <3>4. tree'[f] = Original(f) \/ (pos \in retained' /\ backup'[pos] = Original(f))
        BY <1>2, <2>0, <2>2, <3>3
      <3> QED
        BY <2>2, <3>4
    <2>3. CASE \A j \in 1 .. pos : Target[j] # f
      <3>1. tree[f] = Original(f) \/ \E i \in retained : Target[i] = f /\ backup[i] = Original(f)
        BY <1>1, <1>2, <2>3 DEF Located
      <3>2. tree'[f] = tree[f]
        BY <1>2, <2>0, <2>3
      <3>3. \A i \in retained : i \in retained' /\ backup'[i] = backup[i]
        BY <1>1, <1>2, <2>0
      <3> QED
        BY <1>2, <2>3, <3>1, <3>2, <3>3
    <2> QED
      BY <1>2, <2>1, <2>2, <2>3
  <1>4. retained' \subseteq pos .. completed
    <2>1. retained' = retained \/ retained' = retained \cup {pos}
      BY DEF roll_back
    <2>2. ASSUME NEW i \in retained PROVE i \in pos .. completed
      <3>1. i \in pos + 1 .. completed
        BY <1>1
      <3> QED
        BY <1>2, <3>1
    <2>3. pos \in pos .. completed
      BY <1>1, <1>2
    <2> QED
      BY <2>1, <2>2, <2>3
  <1>5. CASE pos = 1
    BY <1>1, <1>2, <1>k, <1>3, <1>4, <1>5 DEF roll_back, Placed, InvBegin, InvMove, InvRollback,
                                        InvCleanup, InvDead
  <1>6. CASE pos # 1
    BY <1>1, <1>2, <1>k, <1>3, <1>4, <1>6 DEF roll_back, Placed, InvBegin, InvMove, InvRollback,
                                        InvCleanup, InvDead
  <1> QED
    BY <1>5, <1>6

\* The removal of staged files touches no file and no backup, and leads to
\* the backups that no target moved to.
LEMMA DiscardStagedStep == Inv /\ discard_staged => Placed'
  <1> SUFFICES ASSUME Inv, discard_staged PROVE Placed'
    OBVIOUS
  <1>1. /\ error \in {"watch", "stage", "reserve"} => Unwritten
        /\ error = "replace" => /\ failed \in Position
                                /\ retained \subseteq 1 .. completed
                                /\ Located(0)
        /\ error # "none" /\ error \in Errors /\ completed \in 0 .. N
    BY DEF Inv, TypeOK, Placed, InvCleanup, discard_staged
  <1>2. /\ UNCHANGED <<failed, error, completed, tree, backup, retained>>
        /\ phase' \in {"drop_staged", "drop_backups"}
        /\ phase' = "drop_backups" /\ error = "replace" => pos' = completed + 1
    BY DEF discard_staged
  <1>3. CASE error = "replace"
    <2>1. Located(0)'
      BY <1>1, <1>2, <1>3 DEF Located, First
    <2>2. phase' = "drop_backups" => pos' > completed'
      BY <1>1, <1>2, <1>3
    <2> QED
      BY <1>1, <1>2, <1>3, <2>1, <2>2 DEF Placed, InvBegin, InvMove, InvRollback,
                                          InvCleanup, InvDead
  <1>4. CASE error \in {"watch", "stage", "reserve"}
    BY <1>1, <1>2, <1>4 DEF Placed, InvBegin, InvMove, InvRollback, InvCleanup,
                            InvDead, Unwritten, Untouched
  <1> QED
    BY <1>1, <1>3, <1>4 DEF Errors

\* After a failed rename only the backups past the completed ones are
\* removed, and no original is in one of those.
LEMMA DiscardStep == Inv /\ discard => Placed'
  <1> SUFFICES ASSUME Inv, discard PROVE Placed'
    OBVIOUS
  <1>1. phase = "drop_backups" /\ phase' \in {"drop_backups", "returned"}
        /\ UNCHANGED <<failed, error, completed, tree, staging, retained>>
        /\ \/ phase' = phase /\ remove("backup", backup) /\ pos' = pos + 1
           \/ phase' = "returned" /\ UNCHANGED backup
    BY DEF discard
  <1>2. /\ error \in Errors /\ completed \in 0 .. N /\ pos \in 1 .. N + 1
        /\ backup \in [Position -> Contents]
    BY DEF Inv, TypeOK
  <1>3. CASE error \in {"watch", "stage", "reserve"}
    <2>1. Unwritten
      BY <1>1, <1>3 DEF Inv, Placed, InvCleanup
    <2> QED
      BY <1>1, <1>3, <2>1 DEF Placed, InvBegin, InvMove, InvRollback, InvCleanup,
                              InvDead, Unwritten, Untouched
  <1>4. CASE error = "none"
    <2>1. Committed
      BY <1>1, <1>4 DEF Inv, Placed, InvCleanup
    <2>2. Committed'
      BY <1>1, <2>1 DEF Committed
    <2> QED
      BY <1>1, <1>4, <2>2 DEF Placed, InvBegin, InvMove, InvRollback, InvCleanup, InvDead
  <1>5. CASE error = "replace"
    <2>1. /\ failed \in Position /\ retained \subseteq 1 .. completed
          /\ Located(0) /\ pos > completed
      BY <1>1, <1>5 DEF Inv, Placed, InvCleanup
    <2>2. ASSUME NEW i \in retained PROVE backup'[i] = backup[i]
      <3>1. i \in Position /\ i # pos
        BY <1>2, <2>1
      <3> QED
        BY <1>1, <1>2, <3>1 DEF remove
    <2>3. Located(0)'
      BY <1>1, <2>1, <2>2 DEF Located
    <2>4. phase' = "drop_backups" => pos' > completed'
      BY <1>1, <1>2, <2>1
    <2> QED
      BY <1>1, <1>5, <2>1, <2>3, <2>4 DEF Placed, InvBegin, InvMove, InvRollback,
                                          InvCleanup, InvDead
  <1> QED
    BY <1>2, <1>3, <1>4, <1>5 DEF Errors

\* A step that leaves the write and the disk alone keeps the invariant.
LEMMA StutterStep ==
    ASSUME Placed, UNCHANGED <<phase, pos, failed, error, completed, disk, retained>>
    PROVE  Placed'
  BY DEF Placed, InvBegin, InvMove, InvRollback, InvCleanup, InvDead, Unwritten,
         Untouched, Located, First, Committed, OriginalsSurvive, disk

\* A process that ends leaves the disk as the invariant found it.
LEMMA EndStep ==
    ASSUME Inv, phase' = "dead",
           UNCHANGED <<pos, failed, error, completed, disk, retained>>
    PROVE  Placed'
  <1>1. OriginalsSurvive
    BY InvSurvive
  <1>2. Committed => Committed'
    BY DEF Committed, disk
  <1>3. OriginalsSurvive'
    BY <1>1, <1>2 DEF OriginalsSurvive, disk
  <1> QED
    BY <1>3 DEF Placed, InvBegin, InvMove, InvRollback, InvCleanup, InvDead

-----------------------------------------------------------------------------
(* The invariant is inductive.                                             *)

\* Every step of the write, of SIGINT and of a kill preserves the invariant.
LEMMA InvStep == Inv /\ [Next]_vars => Inv'
  <1> SUFFICES ASSUME Inv, [Next]_vars PROVE Inv'
    OBVIOUS
  <1>1. TypeOK'
    <2>1. TypeControl' /\ TypeDisk' /\ TypeRest'
      BY ControlStep, DiskStep, RestStep
    <2> QED
      BY <2>1 DEF TypeOK, TypeControl, TypeDisk, TypeRest
  <1>2. CASE write_held \/ stage_one \/ reserve_one
    BY <1>1, <1>2, BeginStep DEF Inv
  <1>3. CASE move_out
    BY <1>1, <1>3, MoveOutStep DEF Inv
  <1>4. CASE move_in
    BY <1>1, <1>4, MoveInStep DEF Inv
  <1>5. CASE roll_back
    BY <1>1, <1>5, RollBackStep DEF Inv
  <1>6. CASE discard_staged
    BY <1>1, <1>6, DiscardStagedStep DEF Inv
  <1>7. CASE discard
    BY <1>1, <1>7, DiscardStep DEF Inv
  <1>8. CASE sigint
    BY <1>1, <1>8, StutterStep, EndStep DEF Inv, sigint
  <1>9. CASE kill
    BY <1>1, <1>9, EndStep DEF Inv, kill
  <1>10. CASE UNCHANGED vars
    BY <1>1, <1>10, StutterStep DEF Inv, vars, disk
  <1> QED
    BY <1>2, <1>3, <1>4, <1>5, <1>6, <1>7, <1>8, <1>9, <1>10 DEF Next, Step

\* The invariant holds throughout every write.
LEMMA InvAlways == Spec => []Inv
  BY InitInv, InvStep, PTL DEF Spec

-----------------------------------------------------------------------------
(* The theorems.                                                           *)

\* Every state of the write is well typed: the positions that the cleanup of
\* undo and discard computes stay within the write's paths.
THEOREM TypeCorrect == Spec => []TypeOK
  <1>1. Inv => TypeOK
    BY DEF Inv
  <1> QED
    BY <1>1, InvAlways, PTL

\* No failed call, SIGINT or kill loses an original before the write is past
\* its last rename (replace_all and undo).
THEOREM NoOriginalLost == Spec => []OriginalsSurvive
  BY InvAlways, InvSurvive, PTL

\* A write that returns an error other than PartlyApplied has left every file
\* as it was (the error paths of write_with).
THEOREM FailureRestores == Spec => []FailureRestoresTree
  <1>1. Inv => FailureRestoresTree
    <2> SUFFICES ASSUME Inv, outcome \in {"watch", "stage", "reserve", "restored"}
                 PROVE  Untouched
      BY DEF FailureRestoresTree, Untouched
    <2>1. phase = "returned" /\ error \in Errors
      BY DEF Inv, TypeOK, outcome
    <2>2. CASE error \in {"watch", "stage", "reserve"}
      BY <2>1, <2>2 DEF Inv, Placed, InvCleanup, Unwritten
    <2>3. CASE error = "replace" /\ retained = {}
      BY <2>1, <2>3, RestoredUntouched DEF Inv, Placed, InvCleanup
    <2>4. error # "none"
      BY <2>1 DEF outcome
    <2>5. ~(error = "replace" /\ retained # {})
      BY <2>1 DEF outcome
    <2> QED
      BY <2>1, <2>2, <2>3, <2>4, <2>5 DEF Errors
  <1> QED
    BY <1>1, InvAlways, PTL
=============================================================================
