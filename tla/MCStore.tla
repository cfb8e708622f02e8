------------------------------ MODULE MCStore ------------------------------
(***************************************************************************)
(* The stores that processes share, one at a time: the cache root with     *)
(* three databases, of which two overflow the ceiling, and two index runs  *)
(* that sweep it (CacheSweep); and the database of one repository with two *)
(* index runs and a reader (FactsDb).  The part that a behaviour is not    *)
(* about stays as it began.                                                *)
(***************************************************************************)
EXTENDS CacheSweep, TLC

CONSTANTS r1, r2, d1, d2, d3, i1, i2, s1, p1, t1, t2, bad

ThreeDatabases == <<d1, d2, d3>>
Sizes == d1 :> 2 @@ d2 :> 2 @@ d3 :> 1
OwnDatabases == r1 :> d1 @@ r2 :> d2

\* Two builds of one layout with different analyses share the database, or a
\* build of an older layout and one of a newer layout do.
BuildsOf(schema, analysis) ==
    i1 :> [schema |-> 1, analysis |-> "a"] @@ i2 :> [schema |-> schema, analysis |-> analysis]
      @@ s1 :> [schema |-> 1, analysis |-> "a"]

VARIABLES part, build, files, main, wal, held, pc, local, opened, served

F == INSTANCE FactsDb WITH
        Paths <- {p1}, Texts <- {t1, t2, bad}, Unparsable <- {bad}, Indexers <- {i1, i2},
        Readers <- {s1}, Builds <- {BuildsOf(1, "b"), BuildsOf(2, "a")},
        lock <- held, session <- opened

facts == <<build, files, main, wal, held, pc, local, opened, served>>

\* The files and the builds vary only where the database is what is looked at.
MCInit ==
    /\ part \in {"sweep", "facts"}
    /\ Init /\ F!Init
    /\ part = "sweep" => /\ files = [p \in {p1} |-> t1] /\ main = None
                         /\ build = BuildsOf(1, "b")
    /\ part = "facts" => mtime = [d \in Databases |-> Gone]

Sweep(A) == part = "sweep" /\ A /\ UNCHANGED <<part, facts>>
Shared(A) == part = "facts" /\ A /\ UNCHANGED <<part, vars>>

MCNext ==
    \/ \E r \in Runs :
          \/ Sweep(index_open(r)) \/ Sweep(written(r)) \/ Sweep(enforce_cache_limit(r))
          \/ Sweep(evicted_locked(r)) \/ Sweep(evicted(r)) \/ Sweep(evict_victim(r))
          \/ Sweep(remove_database(r))
    \/ \E d \in Databases : Sweep(open_facts(d)) \/ Sweep(touch(d))
    \/ Sweep(tick)
    \/ \E i \in {i1, i2} :
          \/ Shared(F!locked(i)) \/ Shared(F!connect_rw(i)) \/ Shared(F!ensure_schema(i))
          \/ Shared(F!rebuilt(i)) \/ Shared(F!observed(i)) \/ Shared(F!write(i))
          \/ Shared(F!reported(i))
    \/ \/ Shared(F!open_facts(s1)) \/ Shared(F!discard_locked(s1)) \/ Shared(F!remove_database(s1))
       \/ Shared(F!serve(s1)) \/ Shared(F!close(s1))
    \/ Shared(F!checkpoint) \/ Shared(F!edit) \/ Shared(F!crash)

MCSpec == MCInit /\ [][MCNext]_<<part, vars, facts>>

-----------------------------------------------------------------------------
\* An answer is what the reader's own build would extract (FactsDb.tla).
ServedAsParsed == F!ServedAsParsed

\* An incremental index run leaves the rows that a full one would write
\* (FactsDb.tla).
IncrementalIsFull == F!IncrementalIsFull

=============================================================================
