------------------------------ MODULE FactsDb ------------------------------
(***************************************************************************)
(* One repository's agentless.db: the index runs that write it             *)
(* (crates/store/src/writer.rs and plan.rs, driven by                      *)
(* crates/app/src/index.rs), the sessions that read it                     *)
(* (crates/store/src/reader.rs, freshness.rs and source.rs, driven by      *)
(* crates/app/src/tags.rs), and the discard of a refused database          *)
(* (crates/store/src/discard.rs).                                          *)
(*                                                                         *)
(* Every process belongs to a build of the program, which fixes the schema *)
(* version and the analysis.  Files are edited at any time.  A version of  *)
(* the database is its meta row and its rows; SQLite keeps the primary     *)
(* file and, until a checkpoint, the newer committed version in the -wal   *)
(* sidecar.  remove_database unlinks the sidecars first and the primary    *)
(* last, so a process can stop, or another can open, between the two.      *)
(* The lock file is never removed, and a dead process releases its lock.   *)
(***************************************************************************)
EXTENDS Integers, FiniteSets

CONSTANTS
    Paths,          \* the files of the repository
    Texts,          \* the contents that a file can have
    Unparsable,     \* those of them that no build can parse
    Indexers,       \* the processes that run index
    Readers,        \* the processes that open a session
    Builds,         \* assignments [process -> [schema: Nat \ {0}, analysis]]
    None            \* no text, no row, no file, no holder

Procs == Indexers \cup Readers

VARIABLES
    build,          \* [process -> the build that it runs], fixed at the start
    files,          \* [Paths -> Texts or None], the working tree
    main,           \* the version in the primary file, or None, or damage
    wal,            \* the version in the -wal sidecar, or None
    lock,           \* the process that holds agentless.lock, or None
    pc,             \* [Procs -> control state]
    local,          \* [Indexers -> the run's previous rows and its reads]
    session,        \* [Readers -> what the open found]
    served          \* [Readers -> the last answer from a file, or None]

vars == <<build, files, main, wal, lock, pc, local, session, served>>

database == <<main, wal>>

-----------------------------------------------------------------------------
(* The database versions.                                                  *)

\* What a build extracts from a text: the facts depend on both.
Facts(text, analysis) == <<text, analysis>>

Row(text, analysis) == [digest |-> text, facts |-> Facts(text, analysis)]

NoRows == [p \in Paths |-> None]

\* The tables exist and hold no meta row.
Created == [schema |-> 0, analysis |-> None, rows |-> NoRows]

\* A file that is not a database, and a database whose tables do not read.
NotADatabase == [schema |-> -1, analysis |-> None, rows |-> NoRows]
Malformed == [schema |-> -2, analysis |-> None, rows |-> NoRows]

Visible == IF wal # None THEN wal ELSE main

\* Variant: the analysis of the database is not compared.
admission_any_analysis(version, own) ==
    CASE version \in {NotADatabase, Malformed}    -> "corrupt"
      [] version.schema = 0                       -> "no_index"
      [] version.schema \in 1 .. own.schema - 1   -> "schema"
      [] version.schema > own.schema              -> "newer_schema"
      [] OTHER                                    -> "usable"

\* The refusal of an existing database, in the order of the checks of the
\* open, or "usable".
admission(version, own) ==
    CASE version \in {NotADatabase, Malformed}    -> "corrupt"
      [] version.schema = 0                       -> "no_index"
      [] version.schema \in 1 .. own.schema - 1   -> "schema"
      [] version.schema > own.schema              -> "newer_schema"
      [] version.schema = own.schema /\ version.analysis # own.analysis -> "other_analysis"
      [] OTHER                                    -> "usable"

discards(refusal) == refusal \in {"corrupt", "no_index", "schema"}

-----------------------------------------------------------------------------
(* The index plan.  A read is a text, "unread" (oversize or unreadable) or *)
(* None (no such file).                                                    *)

Reads == Texts \cup {"unread", None}

\* The paths whose row still describes the text, which are not parsed.
reused(previous, read, own, force) ==
    {p \in Paths : /\ ~force /\ previous.analysis = own.analysis
                   /\ read[p] \in Texts
                   /\ previous.rows[p] # None
                   /\ previous.rows[p].digest = read[p]}

\* Variant: a file that does not parse stays in the seen set.
settle_keeps_unparsable(previous, read, own, force) ==
    LET seen == {p \in Paths : read[p] \in Texts}
        rows == {p \in seen \ reused(previous, read, own, force) :
                    read[p] \notin Unparsable}
    IN  [rows   |-> rows,
         delete |-> {p \in Paths : /\ previous.rows[p] # None
                                   /\ p \notin seen \/ p \in rows}]

\* The rows to write and the paths to delete: a file that does not parse
\* leaves the seen set, and a recorded path goes when it was not read whole
\* or when its row is written again.
settle(previous, read, own, force) ==
    LET extract == {p \in Paths : read[p] \in Texts}
                      \ reused(previous, read, own, force)
        rows    == {p \in extract : read[p] \notin Unparsable}
        seen    == {p \in Paths : read[p] \in Texts} \ (extract \ rows)
    IN  [rows   |-> rows,
         delete |-> {p \in Paths : /\ previous.rows[p] # None
                                   /\ p \notin seen \/ p \in rows}]

\* What a run over an empty database would write.
Rebuilt(read, own) ==
    [p \in Paths |-> IF read[p] \in Texts \ Unparsable
                     THEN Row(read[p], own.analysis) ELSE None]

-----------------------------------------------------------------------------
Idle == [previous |-> Created, read |-> NoRows, force |-> FALSE]
Closed == [found |-> "none", version |-> Created]

Init ==
    /\ build \in Builds
    /\ files \in [Paths -> Texts \cup {None}]
    /\ main \in {None, NotADatabase, Malformed}
    /\ wal = None
    /\ lock = None
    /\ pc = [x \in Procs |-> "idle"]
    /\ local = [i \in Indexers |-> Idle]
    /\ session = [r \in Readers |-> Closed]
    /\ served = [r \in Readers |-> None]

goto(x, label) == pc' = [pc EXCEPT ![x] = label]

\* An index run ends: the connection closes, then the lock is released.
ends(i) ==
    /\ goto(i, "idle")
    /\ lock' = IF lock = i THEN None ELSE lock
    /\ local' = [local EXCEPT ![i] = Idle]

-----------------------------------------------------------------------------
(* The index run.                                                          *)

\* Writer::open takes the lock without waiting; a held lock, and a file
\* system that cannot lock, end the run.
locked(i) ==
    /\ pc[i] = "idle"
    /\ lock = None
    /\ lock' = i
    /\ goto(i, "locked")
    /\ UNCHANGED <<build, files, database, local, session, served>>

\* connect_rw creates a missing file; a file that is not a database fails
\* the connect.
connect_rw(i) ==
    /\ pc[i] = "locked"
    /\ IF Visible = NotADatabase
       THEN ends(i) /\ UNCHANGED database
       ELSE /\ main' = IF main = None THEN Created ELSE main
            /\ goto(i, "connected")
            /\ UNCHANGED <<wal, lock, local>>
    /\ UNCHANGED <<build, files, session, served>>


\* refuse_newer and ensure_schema: a newer layout is refused, an older one is
\* dropped and created again in one transaction, one that does not read is
\* rebuilt; then load_previous reads the rows.
ensure_schema(i) ==
    /\ pc[i] = "connected"
    /\ \/ /\ Visible # Malformed /\ Visible.schema > build[i].schema
          /\ ends(i) /\ UNCHANGED database
       \/ /\ Visible = Malformed
          /\ goto(i, "rebuild_sidecars")
          /\ UNCHANGED <<database, lock, local>>
       \/ /\ Visible # Malformed /\ Visible.schema \in {0, build[i].schema}
          /\ local' = [local EXCEPT ![i].previous = Visible]
          /\ goto(i, "ready")
          /\ UNCHANGED <<database, lock>>
       \/ /\ Visible # Malformed /\ Visible.schema \in 1 .. build[i].schema - 1
          /\ wal' = Created
          /\ local' = [local EXCEPT ![i].previous = Created]
          /\ goto(i, "ready")
          /\ UNCHANGED <<main, lock>>
    /\ UNCHANGED <<build, files, session, served>>

\* remove_database in rebuilt: the sidecars, then the primary, which a new
\* connect creates again with its tables.
rebuilt(i) ==
    /\ \/ /\ pc[i] = "rebuild_sidecars"
          /\ wal' = None /\ goto(i, "rebuild_primary")
          /\ UNCHANGED <<main, local>>
       \/ /\ pc[i] = "rebuild_primary"
          /\ main' = Created /\ goto(i, "ready")
          /\ local' = [local EXCEPT ![i].previous = Created]
          /\ UNCHANGED wal
    /\ UNCHANGED <<build, files, lock, session, served>>

\* The walk reads each file; any read can fail.
observed(i) ==
    /\ pc[i] = "ready"
    /\ \E unreadable \in SUBSET Paths, force \in BOOLEAN :
          local' = [local EXCEPT
              ![i].read = [p \in Paths |-> IF files[p] # None /\ p \in unreadable
                                           THEN "unread" ELSE files[p]],
              ![i].force = force]
    /\ goto(i, "observed")
    /\ UNCHANGED <<build, files, database, lock, session, served>>

\* The one transaction: the deletes, the rows, the meta row.  A row whose
\* path is still there breaks the UNIQUE constraint, and any statement can
\* fail; then nothing is written.
write(i) ==
    LET plan == settle(local[i].previous, local[i].read, build[i], local[i].force)
        kept == [p \in Paths |-> IF p \in plan.delete THEN None ELSE Visible.rows[p]]
    IN  /\ pc[i] = "observed"
        /\ \/ /\ Visible # None
              /\ \A p \in plan.rows : kept[p] = None
              /\ wal' = [schema   |-> build[i].schema,
                         analysis |-> build[i].analysis,
                         rows     |-> [p \in Paths |->
                             IF p \in plan.rows THEN Row(local[i].read[p], build[i].analysis)
                                                ELSE kept[p]]]
              /\ goto(i, "written")
              /\ UNCHANGED main
           \/ goto(i, "failed") /\ UNCHANGED database
        /\ lock' = None
        /\ local' = [local EXCEPT ![i] = Idle]
        /\ UNCHANGED <<build, files, session, served>>

\* The report of the run; the sweep that follows a write is in CacheSweep.
reported(i) ==
    /\ pc[i] \in {"written", "failed"}
    /\ ends(i)
    /\ UNCHANGED <<build, files, database, session, served>>

\* SQLite moves the committed version into the primary file.
checkpoint ==
    /\ wal # None
    /\ main # None
    /\ main' = wal /\ wal' = None
    /\ UNCHANGED <<build, files, lock, pc, local, session, served>>

-----------------------------------------------------------------------------
(* The session.                                                            *)

\* One read transaction pins the version that the admission saw.  A read
\* failure of the environment refuses the database and leaves it in place.
open_facts(r) ==
    /\ pc[r] = "idle"
    /\ \/ /\ main = None
          /\ session' = [session EXCEPT ![r] = [found |-> "absent", version |-> Created]]
          /\ goto(r, "serving")
       \/ /\ main # None
          /\ \E found \in {admission(Visible, build[r]), "unreadable"} :
                /\ session' = [session EXCEPT ![r] =
                       [found   |-> found,
                        version |-> IF found = "usable" THEN Visible ELSE Created]]
                /\ goto(r, IF discards(found) THEN "refused" ELSE "serving")
    /\ UNCHANGED <<build, files, database, lock, local, served>>

\* discard_facts: a held lock, or one that the file system refuses, leaves
\* the database in place.
discard_locked(r) ==
    /\ pc[r] = "refused"
    /\ \/ lock = None /\ lock' = r /\ goto(r, "discard_sidecars")
       \/ goto(r, "serving") /\ UNCHANGED lock
    /\ UNCHANGED <<build, files, database, local, session, served>>

\* remove_database: an unlink that fails ends the discard where it is.
remove_database(r) ==
    /\ \/ /\ pc[r] = "discard_sidecars"
          /\ \/ wal' = None /\ goto(r, "discard_primary") /\ UNCHANGED lock
             \/ lock' = None /\ goto(r, "serving") /\ UNCHANGED wal
          /\ UNCHANGED main
       \/ /\ pc[r] = "discard_primary"
          /\ main' \in {main, None}
          /\ lock' = None /\ goto(r, "serving")
          /\ UNCHANGED wal
    /\ UNCHANGED <<build, files, local, session, served>>

\* Variant: a row answers for its path whatever its digest.
serve_any_digest(r) ==
    /\ pc[r] = "serving"
    /\ \E p \in Paths :
          LET row == session[r].version.rows[p]
          IN  /\ files[p] \in Texts \ Unparsable /\ row # None
              /\ served' = [served EXCEPT ![r] = [text |-> files[p], facts |-> row.facts]]
    /\ UNCHANGED <<build, files, database, lock, pc, local, session>>

\* A file is read, and answered from its row when the row describes the text
\* and decodes, else from a parse by this build.
serve(r) ==
    /\ pc[r] = "serving"
    /\ \E p \in Paths :
          LET text == files[p]
              row  == session[r].version.rows[p]
              parsed == [text |-> text, facts |-> Facts(text, build[r].analysis)]
              stored == [text |-> text, facts |-> row.facts]
          IN  /\ text \in Texts \ Unparsable
              /\ \E answer \in IF row # None /\ row.digest = text
                               THEN {stored, parsed} ELSE {parsed} :
                    served' = [served EXCEPT ![r] = answer]
    /\ UNCHANGED <<build, files, database, lock, pc, local, session>>

close(r) ==
    /\ pc[r] = "serving"
    /\ goto(r, "idle")
    /\ session' = [session EXCEPT ![r] = Closed]
    /\ served' = [served EXCEPT ![r] = None]
    /\ UNCHANGED <<build, files, database, lock, local>>

-----------------------------------------------------------------------------
(* The environment.                                                        *)

edit ==
    /\ \E p \in Paths, text \in Texts \cup {None} :
          text # files[p] /\ files' = [files EXCEPT ![p] = text]
    /\ UNCHANGED <<build, database, lock, pc, local, session, served>>

\* A process dies between two steps: the operating system releases its lock.
crash ==
    /\ \E x \in Procs :
          /\ pc[x] # "idle"
          /\ goto(x, "idle")
          /\ lock' = IF lock = x THEN None ELSE lock
          /\ local' = [i \in Indexers |-> IF i = x THEN Idle ELSE local[i]]
          /\ session' = [r \in Readers |-> IF r = x THEN Closed ELSE session[r]]
          /\ served' = [r \in Readers |-> IF r = x THEN None ELSE served[r]]
    /\ UNCHANGED <<build, files, database>>

IndexStep(i) == \/ locked(i) \/ connect_rw(i) \/ ensure_schema(i) \/ rebuilt(i)
                \/ observed(i) \/ write(i) \/ reported(i)

SessionStep(r) == \/ open_facts(r) \/ discard_locked(r) \/ remove_database(r)
                  \/ serve(r) \/ close(r)

Next == \/ \E i \in Indexers : IndexStep(i)
        \/ \E r \in Readers : SessionStep(r)
        \/ checkpoint \/ edit \/ crash

Spec == Init /\ [][Next]_vars

-----------------------------------------------------------------------------
(* The properties.                                                         *)

Schemas == {build[x].schema : x \in Procs}
Analyses == {build[x].analysis : x \in Procs}

Rows == {Row(text, analysis) : text \in Texts, analysis \in Analyses}
Versions == [schema : Schemas \cup {0, -1, -2}, analysis : Analyses \cup {None},
             rows : [Paths -> Rows \cup {None}]]

TypeOK ==
    /\ files \in [Paths -> Texts \cup {None}]
    /\ main \in Versions \cup {None}
    /\ wal \in Versions \cup {None}
    /\ lock \in Procs \cup {None}
    /\ local \in [Indexers -> [previous : Versions, read : [Paths -> Reads], force : BOOLEAN]]
    /\ \A r \in Readers : session[r].version \in Versions
    /\ DOMAIN pc = Procs

\* An answer is what the reader's own build extracts from the text that it
\* read, whatever index runs, edits, migrations, removals and crashes there
\* were between the write of the row and the answer.
ServedAsParsed ==
    \A r \in Readers : served[r] # None =>
        served[r].facts = Facts(served[r].text, build[r].analysis)

\* The transaction of an incremental run leaves exactly the rows that a run
\* over an empty database would write for the same reads.
IncrementalIsFull ==
    [][\A i \in Indexers : pc[i] = "observed" /\ pc'[i] = "written" =>
           Visible'.rows = Rebuilt(local[i].read, build[i])]_vars


\* A discard removes a database that the discarding build cannot use.
DiscardRemovesOnlyRefused ==
    \A r \in Readers : pc[r] = "discard_sidecars" /\ Visible # None =>
        discards(admission(Visible, build[r]))
=============================================================================
