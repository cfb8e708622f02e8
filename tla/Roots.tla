------------------------------- MODULE Roots -------------------------------
(***************************************************************************)
(* The repositories that a server may serve (crates/mcp/src/roots.rs): the *)
(* --root flags and the lines of a --roots-from file, which is read again  *)
(* when its (mtime, size) changes, and the choice of one call's root.      *)
(*                                                                         *)
(* Calls run on several threads; the state of the file is behind a mutex.  *)
(* An operator rewrites or removes the file at any moment.  Every write    *)
(* changes the key: two writes of one size within one tick of the file     *)
(* system's clock are not told apart by the code either.                   *)
(***************************************************************************)
EXTENDS Integers, FiniteSets

CONSTANTS
    Callers,        \* the threads with a call
    Names,          \* roots as a line or a call writes them
    Resolve,        \* [Names -> Dirs], what a name resolves to
    Lists,          \* the sets of names that the operator writes
    Flags,          \* the set of roots of the flags
    Holding,        \* the roots that hold the launch directory
    MaxKey,         \* how often the file changes
    None

Dirs == {Resolve[n] : n \in Names}

\* The text of the file: the names on its lines, or what cannot be decoded or
\* resolved.
Garbled == "not UTF-8"
NoPath == "a line that names no path"
Listings == [lines : Lists]
Texts == Listings \cup {[bad |-> Garbled], [bad |-> NoPath]}
Gone == [gone |-> TRUE]

VARIABLES
    text, key,      \* the file: its text, or Gone, and its (mtime, size)
    listed,         \* the roots when last read, and the key they were read at
    mutex,          \* the caller inside `current`, or None
    asker,          \* [Callers -> where the call is, and its local values]
    during          \* [Callers -> the texts the file had while the call ran]

vars == <<text, key, listed, mutex, asker, during>>

Idle == [at |-> "idle", requested |-> None, key |-> 0, allowed |-> {}, answer |-> None]

roots_of(body) == {Resolve[n] : n \in body.lines}

Init ==
    /\ text \in Listings /\ key = 0
    /\ listed = [roots |-> roots_of(text), key |-> 0]
    /\ mutex = None
    /\ asker = [c \in Callers |-> Idle]
    /\ during = [c \in Callers |-> {}]

Goes(c, place) == asker' = [asker EXCEPT ![c].at = place]

\* The call ends with the root it reads, a refusal or an unplanned failure.
Answers(c, answer) ==
    asker' = [asker EXCEPT ![c] = [Idle EXCEPT !.at = "answered", !.answer = answer,
                                               !.requested = asker[c].requested]]

begin(c) ==
    /\ asker[c].at \in {"idle", "answered"}
    /\ \E name \in Names \cup {None} :
          asker' = [asker EXCEPT ![c] = [Idle EXCEPT !.at = "lock", !.requested = name]]
    /\ during' = [during EXCEPT ![c] = {text}]
    /\ UNCHANGED <<text, key, listed, mutex>>

lock(c) ==
    /\ asker[c].at = "lock" /\ mutex = None
    /\ mutex' = c /\ Goes(c, "stat")
    /\ UNCHANGED <<text, key, listed, during>>

\* The roots as of now: the same list while the key holds.
current(c) ==
    /\ asker[c].at = "stat"
    /\ CASE text = Gone -> mutex' = None /\ Answers(c, "refused")
         [] text # Gone /\ key = listed.key ->
               /\ mutex' = None
               /\ asker' = [asker EXCEPT ![c].at = "select", ![c].allowed = listed.roots]
         [] OTHER -> UNCHANGED mutex /\ Goes(c, "list")
    /\ UNCHANGED <<text, key, listed, during>>

\* A text that cannot be used leaves the list as it was.
read(c, at_key) ==
    /\ mutex' = None
    /\ CASE text = Gone \/ text = [bad |-> Garbled] -> Answers(c, "refused") /\ UNCHANGED listed
         [] text = [bad |-> NoPath] -> Answers(c, "unplanned") /\ UNCHANGED listed
         [] OTHER -> /\ listed' = [roots |-> roots_of(text), key |-> at_key]
                     /\ asker' = [asker EXCEPT ![c].at = "select", ![c].allowed = roots_of(text)]

\* Variant: the file is read before its key.
listed_late(c) ==
    /\ \/ /\ asker[c].at = "list"
          /\ IF text = Gone \/ "bad" \in DOMAIN text THEN mutex' = None /\ Answers(c, "refused")
             ELSE /\ asker' = [asker EXCEPT ![c].at = "key", ![c].allowed = roots_of(text)]
                  /\ UNCHANGED mutex
          /\ UNCHANGED listed
       \/ /\ asker[c].at = "key"
          /\ mutex' = None /\ Goes(c, "select")
          /\ listed' = [roots |-> asker[c].allowed, key |-> key]
    /\ UNCHANGED <<text, key, during>>

\* The stat comes before the read, so a write between the two costs one more
\* read, never a stale list.
listed_again(c) ==
    /\ \/ /\ asker[c].at = "list"
          /\ IF text = Gone THEN mutex' = None /\ Answers(c, "refused")
             ELSE asker' = [asker EXCEPT ![c].at = "read", ![c].key = key] /\ UNCHANGED mutex
          /\ UNCHANGED listed
       \/ asker[c].at = "read" /\ read(c, asker[c].key)
    /\ UNCHANGED <<text, key, during>>

-----------------------------------------------------------------------------
\* The only root, or the one root that holds the launch directory.
sole_root(allowed) ==
    IF Cardinality(allowed) = 1 THEN allowed
    ELSE IF Cardinality(allowed \cap Holding) = 1 THEN allowed \cap Holding ELSE {}

\* The root that a call reads: the one it names, if that is allowed, or the
\* one that is left.
selected(allowed, requested) ==
    LET wanted == IF requested = None THEN sole_root(allowed) ELSE {Resolve[requested]}
    IN  IF wanted = {} \/ ~(wanted \subseteq allowed) THEN "refused"
        ELSE CHOOSE root \in wanted : TRUE

select(c) ==
    /\ asker[c].at = "select"
    /\ Answers(c, selected(Flags \cup asker[c].allowed, asker[c].requested))
    /\ UNCHANGED <<text, key, listed, mutex, during>>

\* The operator.
write ==
    /\ key < MaxKey /\ key' = key + 1
    /\ text' \in Texts \cup {Gone}
    /\ during' = [c \in Callers |-> IF asker[c].at \in {"idle", "answered"} THEN during[c]
                                   ELSE during[c] \cup {text'}]
    /\ UNCHANGED <<listed, mutex, asker>>

Caller(c) == begin(c) \/ lock(c) \/ current(c) \/ listed_again(c) \/ select(c)
Next == (\E c \in Callers : Caller(c)) \/ write

-----------------------------------------------------------------------------
\* A call reads only a root that the flags name or that the file named at some
\* moment of this call, however the file is rewritten while calls read it; and
\* a call that names no root reads one only when there was no choice.
ServesListedRoots ==
    \A c \in Callers :
        asker[c].at = "answered" /\ asker[c].answer \in Dirs =>
            \E body \in during[c] \cap Listings :
                LET allowed == Flags \cup roots_of(body)
                    root == asker[c].answer
                IN  /\ root \in allowed
                    /\ IF asker[c].requested # None THEN root = Resolve[asker[c].requested]
                       ELSE \/ allowed = {root}
                            \/ {d \in allowed : d \in Holding} = {root}
=============================================================================
