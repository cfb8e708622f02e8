----------------------------- MODULE UnitMatch ------------------------------
(***************************************************************************)
(* The matching of the units (functions) of a change and the checks that   *)
(* read it: complexity_delta (crates/checks/src/matching.rs, complexity.rs)*)
(* and contract_drift (contract.rs).                                       *)
(*                                                                         *)
(* A unit is [file, index, name, body, cc]: its file in the run, its place *)
(* in one side of it, its qualname, the key of its body and its complexity.*)
(* A file is [old, new], the units of its two sides in source order.  A    *)
(* match is [old, new, via], where old holds one unit or none.             *)
(***************************************************************************)
EXTENDS Integers, FiniteSets, SequencesExt, TLC

without(units, gone) == SelectSeq(units, LAMBDA u : u \notin gone)
With(units, field, value) == SelectSeq(units, LAMBDA u : u[field] = value)
Values(units, field) == {units[i][field] : i \in DOMAIN units}

zip(news, olds) == {<<news[i], olds[i]>> : i \in DOMAIN news \cap DOMAIN olds}
News(pairs) == {p[1] : p \in pairs}
Olds(pairs) == {p[2] : p \in pairs}

\* Of the units of one body, those that keep their name pair first.
named_first(olds, news) ==
    UNION {zip(With(news, "name", n), With(olds, "name", n)) : n \in Values(news, "name")}
rest_of(olds, news, same) == zip(without(news, News(same)), without(olds, Olds(same)))
body_group(olds, news) ==
    named_first(olds, news) \cup rest_of(olds, news, named_first(olds, news))

body_pass(olds, news) ==
    UNION {body_group(With(olds, "body", b), With(news, "body", b)) : b \in Values(news, "body")}

\* The units of one name that no body pairs: one of each side is the same unit
\* rewritten; else the most complex ones pair first.
ranked(units) ==
    SortSeq(units, LAMBDA u, v : u.cc > v.cc \/ (u.cc = v.cc /\ u.index < v.index))
named(olds, news) ==
    IF Len(olds) = 1 /\ Len(news) = 1
    THEN {[old |-> {olds[1]}, new |-> news[1], via |-> "name"]}
    ELSE {[old |-> {p[2]}, new |-> p[1], via |-> "collision"] :
             p \in zip(ranked(news), ranked(olds))}
name_and_collision_passes(olds, news) ==
    UNION {named(With(olds, "name", n), With(news, "name", n)) : n \in Values(news, "name")}

AllOf(files, side) == FlattenSeq([i \in DOMAIN files |-> files[i][side]])

\* The last passes, over what the bodies left in each file.
rest_run(olds, news, files) ==
    UNION {name_and_collision_passes(With(olds, "file", i), With(news, "file", i)) :
              i \in DOMAIN files}
with_new(news, paired) ==
    paired \cup {[old |-> {}, new |-> u, via |-> "new"] :
                    u \in ToSet(news) \ {p.new : p \in paired}}
after_moves(files, pairs) ==
    {[old |-> {p[2]}, new |-> p[1], via |-> "body"] : p \in pairs}
        \cup with_new(without(AllOf(files, "new"), News(pairs)),
                      rest_run(without(AllOf(files, "old"), Olds(pairs)),
                               without(AllOf(files, "new"), News(pairs)), files))
\* Bodies pair in each file, and then across the files, as moves.
moved(files, kept) ==
    body_pass(without(AllOf(files, "old"), Olds(kept)), without(AllOf(files, "new"), News(kept)))
in_files(files) == UNION {body_pass(files[i].old, files[i].new) : i \in DOMAIN files}
with_moves(files, kept) == after_moves(files, kept \cup moved(files, kept))
match_run(files) == with_moves(files, in_files(files))

-----------------------------------------------------------------------------
\* complexity_delta: the matches whose unit rose over the threshold.
rise(p, threshold) ==
    /\ p.new.cc > threshold
    /\ \A u \in p.old : (u.cc > threshold /\ p.new.cc > u.cc) \/ u.cc <= threshold

complexity_delta(matches, threshold) == {p \in matches : rise(p, threshold)}

\* What observed.units_changed lists.
changed(matches) == {p \in matches : p.via # "body"}

-----------------------------------------------------------------------------
\* contract_drift: hits is a sequence of [unit, file, capture] for each side, in
\* file order, where unit holds the innermost unit around the hit or none.  The
\* key of an old hit names its unit as it was; the key of a new hit names the
\* old unit that its unit is matched with.
hit_key(hit, owner) ==
    IF hit.unit = {} THEN <<"module", hit.file, hit.capture>>
    ELSE <<owner.name, owner.file, hit.capture>>
TheOne(set) == CHOOSE x \in set : TRUE
identity(matches, u) ==
    LET p == TheOne({p \in matches : p.new = u}) IN IF p.old = {} THEN u ELSE TheOne(p.old)
old_key(hit) == hit_key(hit, IF hit.unit = {} THEN [name |-> ""] ELSE TheOne(hit.unit))
new_key(matches, hit) ==
    hit_key(hit, IF hit.unit = {} THEN [name |-> ""] ELSE identity(matches, TheOne(hit.unit)))

carried(olds, key) == Cardinality({i \in DOMAIN olds : old_key(olds[i]) = key})
\* The hits that find no carried hit left under their key, in order.
fresh(olds, keys) ==
    {i \in DOMAIN keys :
        Cardinality({j \in 1..i : keys[j] = keys[i]}) > carried(olds, keys[i])}
new_hits(olds, news, matches) ==
    fresh(olds, [i \in DOMAIN news |-> new_key(matches, news[i])])
=============================================================================
