--------------------------- MODULE TrackedChanges ---------------------------
(***************************************************************************)
(* The pending tracked changes of one text file, as track.rs keeps them in *)
(* the shared document (its browser twin is track-changes.js).             *)
(*                                                                         *)
(* A peer's copy d of the document is a record:                            *)
(*   order    every character ever inserted, in the order the replicated   *)
(*            text gives them; a character is a number and d.glyph[c] what *)
(*            it shows (a deleted character that is put back is a new      *)
(*            character with the old glyph);                               *)
(*   seen     the characters this peer knows, and dead the ones it knows   *)
(*            to be deleted;                                               *)
(*   changes  the change records: author, cursors on the first and on the  *)
(*            last inserted character;                                     *)
(*   frags    the fragment records: owner, text, cursor on the character   *)
(*            after it, rank among the fragments at that point;            *)
(*   gone     the records deleted.                                         *)
(* A key of a record is <<value, stamp>>: the replicated map keeps the     *)
(* value with the greater stamp.                                           *)
(***************************************************************************)
EXTENDS Integers, Sequences, FiniteSets, SequencesExt

CONSTANTS
    Peers,                         \* who may hold a copy of the file
    Authors,                       \* who may edit with tracking on
    LengthAlone, LengthShared,     \* characters of the file at the start, when one
                                   \* peer holds it and when two do
    MaxEditsAlone, MaxEditsShared, \* edits explored
    Unit                           \* the ranks' step of one, so that midpoints are integers

ASSUME TrackAssumption ==
    /\ {LengthAlone, LengthShared, MaxEditsAlone, MaxEditsShared} \subseteq Nat
    /\ Unit \in Nat /\ Unit > 1

VARIABLES
    peers,   \* those who do hold one
    doc,     \* each peer's copy, without what all of them share
    order, glyph,
    minted,  \* the last record id handed out
    clock,   \* the stamp of the next write; stands while one peer holds the file
    edits,   \* edits made so far
    twice,   \* glyphs that two changes of one author have claimed
    fate,    \* what the history of each glyph says it is now (one peer)
    owed     \* original glyphs nobody removed for good

vars == <<peers, doc, order, glyph, minted, clock, edits, twice, fate, owed>>

None == 0
Untracked == "untracked"
\* Cursors that name no character: at the start of an empty text, at the end
\* of any other, and the null of a change without a span.
AtStart == -1
AtEnd == 0
Null == -2

-----------------------------------------------------------------------------
(* The replicated text (Loro), as track.rs uses it.                        *)

Live(d) == SelectSeq(d.order, LAMBDA c : c \in d.seen /\ c \notin d.dead)

Place(d, c) == CHOOSE i \in DOMAIN d.order : d.order[i] = c

\* The live characters before position i of the order.
LiveBefore(d, i) ==
    Cardinality({j \in 1 .. i - 1 : d.order[j] \in d.seen /\ d.order[j] \notin d.dead})

cursor_pos(d, cursor) ==
    CASE cursor = AtStart -> 0
      [] cursor = AtEnd -> Len(d.text)
      [] OTHER -> LiveBefore(d, Place(d, cursor))

Stale(d, cursor) == cursor \in d.dead

get_cursor(d, at) ==
    IF d.text = <<>> THEN AtStart ELSE IF at >= Len(d.text) THEN AtEnd ELSE d.text[at + 1]

\* New characters go right behind the live character before them.
PutChars(d, at, i, new, glyphs) ==
    [d EXCEPT !.order = SubSeq(@, 1, i) \o new \o SubSeq(@, i + 1, Len(@)),
              !.text = SubSeq(@, 1, at) \o new \o SubSeq(@, at + 1, Len(@)),
              !.glyph = @ \o glyphs,
              !.seen = @ \union Range(new)]

Insert(d, at, glyphs) ==
    PutChars(d, at, IF at = 0 THEN 0 ELSE Place(d, d.text[at]),
             [k \in DOMAIN glyphs |-> Len(d.glyph) + k], glyphs)

Delete(d, from, to) ==
    [d EXCEPT !.text = SubSeq(@, 1, from) \o SubSeq(@, to + 1, Len(@)),
              !.dead = @ \union Range(SubSeq(d.text, from + 1, to))]

\* A write of one key: nothing when it holds the value already.
Put(d, key, value) == IF key[1] = value THEN key ELSE <<value, d.now>>

-----------------------------------------------------------------------------
(* Reading the records                                                     *)

\* The span of a change record, as offsets [from, to). A live end sits on the
\* last inserted character; a replaced one is the exclusive end already.
resolved_span(d, m) ==
    IF m.start[1] = Null THEN [from |-> 0, to |-> 0]
    ELSE LET from == cursor_pos(d, m.start[1])
             to == cursor_pos(d, m.end[1]) + IF Stale(d, m.end[1]) THEN 0 ELSE 1
         IN  [from |-> from, to |-> IF to > from THEN to ELSE from]

has_span(c) == c.to > c.from

\* A fragment whose change record is gone is a change of its own.
OwnerOf(d, f) ==
    IF d.frags[f].change[1] \in DOMAIN d.changes THEN d.frags[f].change[1] ELSE f

Before(f, g) == f.rank < g.rank \/ (f.rank = g.rank /\ f.id < g.id)

FragmentsOf(gaps, id) == {p \in DOMAIN gaps : \E f \in Range(gaps[p]) : f.change = id}

Spans(d) == [id \in DOMAIN d.changes |-> resolved_span(d, d.changes[id])]

\* Where a fragment sits: at its cursor, or at the start of a span that its
\* cursor is strictly inside of.
PointOf(spans, p) ==
    LET around == {id \in DOMAIN spans : spans[id].from < p /\ p < spans[id].to}
    IN  IF around = {} THEN p ELSE spans[CHOOSE id \in around : TRUE].from

Points(d, spans) ==
    [f \in DOMAIN d.frags |-> PointOf(spans, cursor_pos(d, d.frags[f].start[1]))]

\* For every point that holds fragments, the fragments in their order.
Gaps(d, point) ==
    LET row(f) == [id |-> f, change |-> OwnerOf(d, f), text |-> d.frags[f].text[1],
                   rank |-> d.frags[f].rank[1]]
    IN  [p \in Range(point) |->
            SetToSortSeq({row(f) : f \in {g \in DOMAIN point : point[g] = p}}, Before)]

\* A change without a span sits at its first fragment; one without a fragment
\* either is left out.
Placed(d, spans, gaps) ==
    LET change(id, who, from, to, orphan) ==
            [id |-> id, who |-> who, from |-> from, to |-> to, orphan |-> orphan]
        bare(id, who, orphan) ==
            {change(id, who, Min(at), Min(at), orphan) : at \in {FragmentsOf(gaps, id)} \ {{}}}
    IN  UNION {IF has_span(spans[id])
               THEN {change(id, d.changes[id].who, spans[id].from, spans[id].to, FALSE)}
               ELSE bare(id, d.changes[id].who, FALSE) : id \in DOMAIN spans}
        \union UNION {bare(f, d.frags[f].who, TRUE) : f \in {f \in DOMAIN d.frags : OwnerOf(d, f) = f}}

Resolved(d, spans, gaps) == [changes |-> Placed(d, spans, gaps), gaps |-> gaps]

\* The changes of the file with their offsets, and its gaps.
resolve_file(d) == Resolved(d, Spans(d), Gaps(d, Points(d, Spans(d))))

Holds(gaps, p) == IF p \in DOMAIN gaps THEN gaps[p] ELSE <<>>

InSpan(changes, p) == \E c \in changes : c.from <= p /\ p < c.to

\* The text with every pending change undone.
Undone(d, file) ==
    LET piece(p) == FlattenSeq([k \in DOMAIN Holds(file.gaps, p) |-> Holds(file.gaps, p)[k].text])
                    \o IF p = Len(d.text) \/ InSpan(file.changes, p) THEN <<>>
                       ELSE <<d.glyph[d.text[p + 1]]>>
    IN  FlattenSeq([i \in 1 .. Len(d.text) + 1 |-> piece(i - 1)])

unsuggested(d) == Undone(d, resolve_file(d))

-----------------------------------------------------------------------------
(* Planning one edit                                                       *)

\* Fault: a new piece is added to the text of a stored fragment.
FaultyJoin(list, f) ==
    IF list # <<>> /\ Last(list).change = f.change /\ f.id = None
    THEN [list EXCEPT ![Len(list)].text = @ \o f.text]
    ELSE Append(list, f)

\* Adjacent pieces of one change join while neither is stored.
push_fragment(list, f) ==
    IF list # <<>> /\ Last(list).change = f.change /\ Last(list).id = None /\ f.id = None
    THEN [list EXCEPT ![Len(list)].text = @ \o f.text]
    ELSE Append(list, f)

Joined(list) == FoldLeft(push_fragment, <<>>, list)

\* An edit e puts e.len characters by e.who in place of [e.from, e.to).
Shift(e, p) == p + e.len - (e.to - e.from)

InsertEnd(e) == e.from + e.len

\* It makes a record when it removes original text or inserts any.
Records(file, e) ==
    /\ e.who # Untracked
    /\ e.len > 0 \/ \E p \in e.from .. e.to - 1 : ~InSpan(file.changes, p)

\* The author's changes it joins: the first of its spans that touches the
\* range, then its deletions with a fragment in a swallowed gap.
Owned(file, e) ==
    LET mine == {c \in file.changes : c.who = e.who /\ ~c.orphan}
        spans == {c \in mine : has_span(c) /\ c.from <= e.to /\ c.to >= e.from}
        first == {c \in spans : \A o \in spans : c.from < o.from \/ (c.from = o.from /\ c.id <= o.id)}
        swallowed == FlattenSeq([i \in 1 .. e.to - e.from + 1 |-> Holds(file.gaps, e.from + i - 1)])
    IN  SetToSeq({c.id : c \in first})
            \o SelectSeq([k \in DOMAIN swallowed |-> swallowed[k].change],
                         LAMBDA id : \E c \in mine : c.id = id /\ ~has_span(c))

Change(file, id) == CHOOSE c \in file.changes : c.id = id

\* The change the edit writes: the first of the joined ones by position, or a
\* new one, its span widened over theirs.
Mine(file, e, owned, fresh) ==
    LET from(k) == Change(file, owned[k]).from
        spans == {c \in file.changes : c.id \in Range(owned) /\ has_span(c)}
    IN  [id |-> IF owned = <<>> THEN fresh
                ELSE owned[Min({k \in DOMAIN owned : \A j \in DOMAIN owned : from(k) <= from(j)})],
         who |-> e.who, orphan |-> FALSE, set |-> TRUE, emptied |-> FALSE,
         from |-> Min({e.from} \union {c.from : c \in spans}),
         to |-> Max({InsertEnd(e)} \union {Shift(e, c.to) : c \in {c \in spans : c.to > e.to}})]

\* A record whose text the edit took: kept as it is, for prune to settle.
Emptied(c, e) ==
    [c EXCEPT !.from = InsertEnd(e), !.to = InsertEnd(e)] @@ [set |-> FALSE, emptied |-> TRUE]

\* Fault: a span that inserted text cuts in two keeps both parts and the text.
FaultyMoved(c, e, fresh) ==
    LET from == IF c.from < e.from THEN c.from ELSE InsertEnd(e)
        to == IF c.to > e.to THEN Shift(e, c.to)
              ELSE IF c.from < e.from THEN e.from ELSE InsertEnd(e)
    IN  IF c.to <= e.from THEN {c @@ [set |-> FALSE, emptied |-> FALSE]}
        ELSE {[c EXCEPT !.from = from, !.to = to] @@ [set |-> TRUE, emptied |-> FALSE]}

\* What becomes of a span that is not joined to the edit: it stays, moves,
\* shrinks, or is cut in two by inserted text (the right part is a new
\* change). One that the edit empties stays in the plan, unwritten.
Moved(c, e, fresh) ==
    LET as(from, to, set) ==
            {[c EXCEPT !.from = from, !.to = to] @@ [set |-> set, emptied |-> FALSE]}
        from == IF c.from < e.from THEN c.from ELSE InsertEnd(e)
        to == IF c.to > e.to THEN Shift(e, c.to)
              ELSE IF c.from < e.from THEN e.from ELSE InsertEnd(e)
    IN  IF ~has_span(c) THEN as(c.from, c.to, FALSE)
        ELSE IF c.to <= e.from THEN as(c.from, c.to, e.len > 0 /\ c.to = e.from)
        ELSE IF c.from >= e.to
             THEN as(Shift(e, c.from), Shift(e, c.to), e.len > 0 /\ c.from = e.to)
        ELSE IF c.from < e.from /\ c.to > e.to /\ e.len > 0
             THEN as(c.from, e.from, TRUE)
                  \union {[r EXCEPT !.id = fresh] : r \in as(InsertEnd(e), Shift(e, c.to), TRUE)}
        ELSE IF to > from THEN as(from, to, TRUE)
        ELSE {Emptied(c, e)}

\* The text at e.to stays apart, after inserted text, unless the author's own
\* deletion or span is what sits there.
Apart(file, e, joins) ==
    /\ e.len > 0
    /\ \A c \in file.changes : ~(c.id \in joins /\ has_span(c) /\ c.from = e.to)
    /\ \A f \in Range(Holds(file.gaps, e.to)) : f.change \notin joins

Relabel(list, joins, id) ==
    [k \in DOMAIN list |->
        IF list[k].change \in joins THEN [list[k] EXCEPT !.change = id] ELSE list[k]]

\* The walk over [e.from, e.to]: the gap at a point, then the original
\* character there, which the edit turns into a fragment.
MergedFragments(d, file, e, records, apart, id) ==
    LET char(p) == IF records /\ p < e.to /\ ~InSpan(file.changes, p)
                   THEN <<[id |-> None, change |-> id, text |-> <<d.glyph[d.text[p + 1]]>>, rank |-> 0]>>
                   ELSE <<>>
        held(p) == IF p = e.to /\ apart THEN <<>> ELSE Holds(file.gaps, p)
    IN  FlattenSeq([i \in 1 .. e.to - e.from + 1 |-> held(e.from + i - 1) \o char(e.from + i - 1)])

\* The gaps after the edit: those before it and those after it, and what the
\* walk merged at pos, behind what was there.
PlannedGaps(file, e, pos, merged, after) ==
    LET was(p) == IF p < e.from THEN Holds(file.gaps, p)
                  ELSE IF p > InsertEnd(e) THEN Holds(file.gaps, p - e.len + (e.to - e.from))
                  ELSE <<>>
        points == {p \in DOMAIN file.gaps : p < e.from}
                  \union {Shift(e, p) : p \in {p \in DOMAIN file.gaps : p > e.to}}
                  \union {p \in {pos} : merged # <<>>} \union {p \in {InsertEnd(e)} : after # <<>>}
        here(p) == was(p) \o (IF p = pos THEN merged ELSE <<>>)
                   \o (IF p = InsertEnd(e) THEN after ELSE <<>>)
    IN  [p \in points |-> [was |-> was(p), now |-> here(p)]]

PlannedChanges(d, file, e, records, joins, mine) ==
    LET fresh(c) == d.minted + 1 + Cardinality({o \in file.changes : o.id <= c.id})
    IN  UNION {Moved(c, e, fresh(c)) : c \in {c \in file.changes : c.id \notin joins}}
        \union {Emptied(c, e) : c \in {c \in file.changes : c.id \in joins \ {mine.id}}}
        \union {m \in {mine} : records}

\* The plan: the records in the coordinates of the text after the edit, and
\* the gaps to be written. A change with neither span nor fragment is gone,
\* unless this edit emptied it.
Plan(d, changes, gaps, set) ==
    [changes |-> {c \in changes : has_span(c) \/ c.emptied \/ FragmentsOf(gaps, c.id) # {}},
     gaps |-> gaps, set |-> set,
     minted |-> Max({d.minted} \union {c.id : c \in changes})]

PlanGaps(d, changes, joins, id, gaps) ==
    LET now(p) == Joined(Relabel(gaps[p].now, joins, id))
    IN  Plan(d, changes, [p \in DOMAIN gaps |-> now(p)], {p \in DOMAIN gaps : now(p) # gaps[p].was})

PlanJoined(d, file, e, records, joins, mine, apart) ==
    PlanGaps(d, PlannedChanges(d, file, e, records, joins, mine), joins, mine.id,
             PlannedGaps(file, e, IF records THEN mine.from ELSE e.from,
                         MergedFragments(d, file, e, records, apart, mine.id),
                         IF apart THEN Holds(file.gaps, e.to) ELSE <<>>))

PlanOwned(d, file, e, records, owned) ==
    PlanJoined(d, file, e, records, IF records THEN Range(owned) ELSE {},
               Mine(file, e, owned, d.minted + 1),
               Apart(file, e, Range(owned)))

plan_one(d, file, e) ==
    PlanOwned(d, file, e, Records(file, e), IF e.who = Untracked THEN <<>> ELSE Owned(file, e))

-----------------------------------------------------------------------------
(* Writing the records                                                     *)

\* Ranks for the fragments of one gap: a longest run of stored ranks that
\* rises keeps its values, the others go between their neighbours, one past
\* the last or one before the first.
rank_gap(list) ==
    LET stored == {k \in DOMAIN list : list[k].id # None}
        rising == {K \in SUBSET stored : \A j, k \in K : j < k => list[j].rank < list[k].rank}
        keep == CHOOSE K \in rising : \A L \in rising : Cardinality(L) <= Cardinality(K)
        rank[k \in DOMAIN list] ==
            LET later == {j \in keep : j > k}
                hi == list[Min(later)].rank
            IN  IF k \in keep THEN list[k].rank
                ELSE IF k = 1 THEN IF later = {} THEN 0 ELSE hi - Unit
                ELSE IF later = {} THEN rank[k - 1] + Unit
                ELSE (rank[k - 1] + hi) \div 2
    IN  rank

\* One fragment record: a new one carries its owner's author; of a stored one
\* only the keys that change are written, and its cursor only when it would
\* resolve elsewhere (with heal: also when its character is gone).
write_fragment(d, id, f, at, rank, who, heal) ==
    LET start == get_cursor(d, at)
        m == d.frags[id]
        moves == cursor_pos(d, m.start[1]) # at \/ (heal /\ Stale(d, m.start[1]))
        written == IF id \in DOMAIN d.frags
                   THEN [m EXCEPT !.change = IF f.change = id THEN @ ELSE Put(d, @, f.change),
                                  !.text = Put(d, @, f.text),
                                  !.start = IF moves THEN Put(d, @, start) ELSE @,
                                  !.rank = Put(d, @, rank)]
                   ELSE [who |-> who, change |-> <<f.change, d.now>>, text |-> <<f.text, d.now>>,
                         start |-> <<start, d.now>>, rank |-> <<rank, d.now>>]
    IN  [d EXCEPT !.frags = (id :> written) @@ @, !.minted = Max({@, id})]

write_gap(d, at, list, owners, heal) ==
    LET ranks == rank_gap(list)
        write(e, k) ==
            LET f == list[k]
            IN  write_fragment(e, IF f.id = None THEN e.minted + 1 ELSE f.id, f, at, ranks[k],
                               IF f.id = None THEN owners[f.change] ELSE "", heal)
    IN  FoldLeft(write, d, [k \in DOMAIN list |-> k])

\* One change record: a cursor is written only when that end of the span would
\* resolve elsewhere, and never over with null.
write_change(d, c, heal) ==
    LET m == IF c.id \in DOMAIN d.changes THEN d.changes[c.id]
             ELSE [who |-> c.who, start |-> <<Null, 0>>, end |-> <<Null, 0>>]
        have == resolved_span(d, m)
        moves(key, at, to) == m[key][1] = Null \/ at # to \/ (heal /\ Stale(d, m[key][1]))
        put(key, at, to, p) == IF has_span(c) /\ moves(key, at, to)
                               THEN Put(d, m[key], get_cursor(d, p)) ELSE m[key]
    IN  [d EXCEPT !.changes =
            (c.id :> [who |-> m.who, start |-> put("start", have.from, c.from, c.from),
                      end |-> put("end", have.to, c.to, c.to - 1)]) @@ @]

Drop(d, ids) ==
    [d EXCEPT !.changes = [id \in DOMAIN @ \ ids |-> @[id]],
              !.frags = [f \in DOMAIN @ \ ids |-> @[f]],
              !.gone = @ \union ids]

write_planned(d, was, plan) ==
    LET owners == [id \in {c.id : c \in plan.changes} |->
                    (CHOOSE c \in plan.changes : c.id = id).who]
        gaps == SetToSortSeq(plan.set, LAMBDA p, q : p < q)
        written == FoldLeft(LAMBDA e, p : write_gap(e, p, plan.gaps[p], owners, FALSE),
                            [d EXCEPT !.minted = plan.minted], gaps)
        set == SetToSeq({c \in plan.changes : c.set /\ ~c.orphan})
        left == was \ {c.id : c \in plan.changes}
    IN  Drop(FoldLeft(LAMBDA e, c : write_change(e, c, FALSE), written, set), left)

\* The edit itself, then the records planned from the text before it.
apply_planned(d, file, e, glyphs) ==
    write_planned(Insert(Delete(d, e.from, e.to), e.from, glyphs), {c.id : c \in file.changes},
                  plan_one(d, file, e))

-----------------------------------------------------------------------------
(* Decisions                                                               *)

FragmentsNaming(d, id) == {f \in DOMAIN d.frags : d.frags[f].change[1] = id}

accept(d, id) == Drop(d, FragmentsNaming(d, id) \union {id})

\* A run of fragments that are not put back, anchored on the character at `at`.
flush(d, at, run) ==
    FoldLeft(LAMBDA e, f : write_fragment(e, f.id, f, at, f.rank, "", FALSE), d, run)

\* Fault: gaps that collapse onto one point keep the ranks they had.
FaultyRaised(gaps) == FlattenSeq(gaps)

\* The fragments of gaps that collapse onto one point, in order: a later gap's
\* ranks are raised above the earlier ones'.
Raised(gaps) ==
    LET raise(list, gap) ==
            LET low == Min({gap[k].rank : k \in DOMAIN gap})
                floor == Max({f.rank : f \in Range(list)})
                by == IF list # <<>> /\ low <= floor THEN floor - low + Unit ELSE 0
            IN  list \o [k \in DOMAIN gap |-> [gap[k] EXCEPT !.rank = @ + by]]
    IN  FoldLeft(raise, <<>>, gaps)

\* The walk over the fragments of one point: the rejected change's text goes
\* in where the walk stands and each run of others is anchored on what follows
\* it. Spans with an end at that place are pinned again.
Restored(w, id, f) ==
    LET n == Len(f.text)
        edges == {c \in resolve_file(w.d).changes :
                    c.id # id /\ has_span(c) /\ (c.to = w.pos \/ c.from = w.pos)}
        pinned == {IF c.to = w.pos THEN c ELSE [c EXCEPT !.from = @ + n, !.to = @ + n] : c \in edges}
        pin == FoldLeft(LAMBDA e, c : write_change(e, c, FALSE),
                        Insert(w.d, w.pos, f.text), SetToSeq(pinned))
    IN  IF f.change # id THEN [w EXCEPT !.run = Append(@, f)]
        ELSE [d |-> Drop(flush(pin, w.pos, w.run), {f.id}), pos |-> w.pos + n, run |-> <<>>]

FlushRest(w) == flush(w.d, w.pos, w.run)

restore_group(d, id, at, gaps) ==
    FlushRest(FoldLeft(LAMBDA w, f : Restored(w, id, f),
                       [d |-> d, pos |-> at, run |-> <<>>], Raised(gaps)))

\* The gaps beyond the change's span come back first, then the span goes, then
\* the gaps from its start to the character after it, collapsed onto its start.
RestoreAll(d, file, c) ==
    LET attached == {p \in DOMAIN file.gaps : has_span(c) /\ c.from <= p /\ p <= c.to}
        away == FragmentsOf(file.gaps, c.id) \ attached
        beyond == {p \in away : ~has_span(c) \/ p > c.to}
        falling(S) == SetToSortSeq(S, LAMBDA p, q : p > q)
        apiece(e, S) == FoldLeft(LAMBDA x, p : restore_group(x, c.id, p, <<file.gaps[p]>>), e, falling(S))
        collapsed == Reverse([k \in DOMAIN falling(attached) |-> file.gaps[falling(attached)[k]]])
    IN  apiece(restore_group(Delete(apiece(d, beyond), c.from, c.to), c.id, c.from, collapsed),
               away \ beyond)

restore_change(d, file, id) ==
    FoldLeft(LAMBDA e, c : RestoreAll(e, file, c), d, SetToSeq({c \in file.changes : c.id = id}))

\* The text comes back, and then the record and what is left of its fragments
\* go, as for an accepted change.
reject(d, file, id) == accept(restore_change(d, file, id), id)

\* Two prunes with the rest between them: empty records go, and a stale
\* cursor moves to the live character at its place.
prune(d, file) ==
    LET live == {c.id : c \in file.changes}
        stale(list) == \E f \in Range(list) : Stale(d, d.frags[f.id].start[1])
        gaps == SetToSeq({p \in DOMAIN file.gaps : stale(file.gaps[p])})
        spans == SetToSeq({c \in file.changes : has_span(c) /\
                    (Stale(d, d.changes[c.id].start[1]) \/ Stale(d, d.changes[c.id].end[1]))})
        mended == FoldLeft(LAMBDA e, p : write_gap(e, p, file.gaps[p], <<>>, TRUE),
                           Drop(d, DOMAIN d.changes \ live), gaps)
    IN  FoldLeft(LAMBDA e, c : write_change(e, c, TRUE), mended, spans)

-----------------------------------------------------------------------------
(* The peers                                                               *)

Alone == Cardinality(peers) = 1

BaseLength == IF Alone THEN LengthAlone ELSE LengthShared
MaxEdits == IF Alone THEN MaxEditsAlone ELSE MaxEditsShared

Copy(d) == d @@ [text |-> Live(d)]

View(r) == Copy(doc[r] @@ [order |-> order, glyph |-> glyph, minted |-> minted, now |-> clock])

Commit(r, d) ==
    /\ doc' = [doc EXCEPT ![r] = [k \in DOMAIN @ |-> d[k]]]
    /\ order' = d.order /\ glyph' = d.glyph /\ minted' = d.minted
    /\ clock' = IF Alone THEN clock ELSE clock + 1
    /\ UNCHANGED peers

GlyphsIn(d, from, to) == {d.glyph[c] : c \in Range(SubSeq(d.text, from + 1, to))}

\* The glyphs inside the spans of two changes.
Doubled(d, changes) ==
    UNION {GlyphsIn(d, c.from, c.to) \intersect GlyphsIn(d, o.from, o.to) :
            <<c, o>> \in {pair \in changes \X changes : pair[1].id < pair[2].id}}

Glyphs == 1 .. BaseLength + MaxEdits

Plain == <<"plain", None>>
Gone == <<"gone", None>>

\* The history of a glyph is followed where one peer orders it.
Judge(verdict) == fate' = IF Alone THEN verdict ELSE fate

\* A typed, pasted or patched edit of one range, with tracking on (by an
\* author) or off, planned against the records.
EditCommits(r, e, x, hit, d) ==
    LET struck(g) == IF fate[g] = Plain /\ e.who # Untracked THEN <<"deleted", e.who>> ELSE Gone
    IN  /\ Commit(r, d)
        /\ edits' = edits + 1
        /\ twice' = IF Alone THEN twice \union Doubled(d, resolve_file(d).changes) ELSE twice
        /\ Judge([g \in Glyphs |->
                    IF g = x /\ e.len > 0
                    THEN IF e.who = Untracked THEN Plain ELSE <<"inserted", e.who>>
                    ELSE IF g \in hit THEN struck(g) ELSE fate[g]])
        /\ owed' = IF e.who = Untracked THEN owed \ hit ELSE owed

PlannedEdit(r, d, file, x) ==
    /\ edits < MaxEdits
    /\ \E to \in 0 .. Len(d.text), len \in {0, 1}, who \in Authors \union {Untracked} :
          \E from \in 0 .. to :
              LET e == [from |-> from, to |-> to, len |-> len, who |-> who]
              IN  /\ from < to \/ len > 0
                  /\ EditCommits(r, e, x, GlyphsIn(d, from, to),
                                 apply_planned(d, file, e, SubSeq(<<x>>, 1, len)))

Edit(r) == PlannedEdit(r, View(r), resolve_file(View(r)), BaseLength + edits + 1)

\* What the reviewer sees of a change, and what each verdict makes of it.
Row(d, c) ==
    [inserted |-> GlyphsIn(d, c.from, c.to),
     deleted |-> UNION {Range(d.frags[f].text[1]) : f \in {f \in DOMAIN d.frags : OwnerOf(d, f) = c.id}}]

Accept(r) ==
    LET d == View(r)
    IN  \E c \in resolve_file(d).changes :
          LET row == Row(d, c)
          IN  /\ Commit(r, accept(d, c.id))
              /\ Judge([g \in Glyphs |-> IF g \in row.inserted THEN Plain
                                         ELSE IF g \in row.deleted THEN Gone ELSE fate[g]])
              /\ owed' = owed \ row.deleted
              /\ UNCHANGED <<edits, twice>>

Reject(r) ==
    LET d == View(r)
        file == resolve_file(d)
    IN  \E c \in file.changes :
          LET row == Row(d, c)
          IN  /\ Commit(r, reject(d, file, c.id))
              /\ Judge([g \in Glyphs |-> IF g \in row.inserted THEN Gone
                                         ELSE IF g \in row.deleted THEN Plain ELSE fate[g]])
              /\ UNCHANGED <<edits, twice, owed>>

PruneCommits(r, d, after) == after # d /\ Commit(r, after) /\ UNCHANGED <<edits, twice, fate, owed>>

Prune(r) == LET d == View(r) IN PruneCommits(r, d, prune(d, resolve_file(d)))

\* Of two values of one key, the later write.
Newer(a, b) == IF a[2] >= b[2] THEN a ELSE b

Merged(a, b, gone, keys) ==
    LET both == DOMAIN a \intersect DOMAIN b
        one(id) == [k \in DOMAIN a[id] |-> IF k \in keys THEN Newer(a[id][k], b[id][k]) ELSE a[id][k]]
        all == (DOMAIN a \union DOMAIN b) \ gone
    IN  [id \in all |-> IF id \in both THEN one(id) ELSE IF id \in DOMAIN a THEN a[id] ELSE b[id]]

\* Peer r takes in everything peer s has done.
Import(r, s) ==
    LET gone == doc[r].gone \union doc[s].gone
        new == [seen |-> doc[r].seen \union doc[s].seen,
                dead |-> doc[r].dead \union doc[s].dead,
                changes |-> Merged(doc[r].changes, doc[s].changes, gone, {"start", "end"}),
                frags |-> Merged(doc[r].frags, doc[s].frags, gone, {"change", "text", "start", "rank"}),
                gone |-> gone]
    IN  /\ new # doc[r]
        /\ doc' = [doc EXCEPT ![r] = new]
        /\ UNCHANGED <<peers, order, glyph, minted, clock, edits, twice, fate, owed>>

Base == [k \in 1 .. BaseLength |-> k]

Init ==
    /\ peers \in (SUBSET Peers) \ {{}}
    /\ doc = [r \in peers |-> [seen |-> Range(Base), dead |-> {}, changes |-> <<>>,
                               frags |-> <<>>, gone |-> {}]]
    /\ order = Base /\ glyph = Base
    /\ minted = 0 /\ clock = 0 /\ edits = 0 /\ twice = {}
    /\ fate = [g \in Glyphs |-> IF g <= BaseLength THEN Plain ELSE Gone]
    /\ owed = Range(Base)

Next ==
    \/ \E r \in peers : Edit(r)
    \/ \E r \in peers : Accept(r)
    \/ \E r \in peers : Reject(r)
    \/ \E r \in peers : Prune(r)
    \/ \E r, s \in peers : Import(r, s)

Spec == Init /\ [][Next]_vars

-----------------------------------------------------------------------------
(* What holds                                                              *)

\* A reviewer can trust what is shown: after any sequence of tracked and
\* untracked edits, decisions and prunes by one peer, every character is where
\* its history says. Settled text stands once, in nobody's span; a pending
\* insertion stands once, in a span of its author; a pending deletion is kept
\* once, by the first author who deleted it; and nothing else is left of the
\* rest. So a verdict on one author's change neither takes nor keeps anything
\* of another's. Characters that plan_one let two changes of one author claim
\* are left out: it writes the joined span into the record of an own deletion
\* that starts before it and leaves the span's own record as it was.
Attributed ==
    Alone =>
    \A r \in peers :
    LET d == View(r)
        file == resolve_file(d)
        standing(g) == {p \in DOMAIN d.text : d.glyph[d.text[p]] = g}
        pieces == {<<f, k>> \in (DOMAIN d.frags) \X Glyphs : k <= Len(d.frags[f].text[1])}
        stored(g) == {piece \in pieces : d.frags[piece[1]].text[1][piece[2]] = g}
        spanned(p) == {c \in file.changes : c.from < p /\ p <= c.to}
    IN  \A g \in Glyphs \ twice :
          /\ Cardinality(standing(g)) = IF fate[g][1] \in {"plain", "inserted"} THEN 1 ELSE 0
          /\ Cardinality(stored(g)) = IF fate[g][1] = "deleted" THEN 1 ELSE 0
          /\ \A p \in standing(g) :
                {c.who : c \in spanned(p)} = IF fate[g] = Plain THEN {} ELSE {fate[g][2]}
          /\ \A piece \in stored(g) : Change(file, OwnerOf(d, piece[1])).who = fate[g][2]

\* With every pending change undone the original characters that are left
\* stand in the order they had, whatever was deleted around them, collapsed
\* onto one point, put back, and in whatever order it was decided.
OrderKept ==
    Alone =>
    \A r \in peers :
    LET kept == SelectSeq(unsuggested(View(r)), LAMBDA g : g <= BaseLength)
    IN  \A i, j \in DOMAIN kept : i < j => kept[i] < kept[j]

\* Two peers who edit, decide and prune at the same moment, anywhere, and
\* take in each other's work at any time, lose no original text: what nobody
\* deleted untracked and no accepted change showed as deleted comes back on
\* every copy when its pending changes are undone.
NothingLost ==
    ~Alone =>
    \A r \in peers : owed \subseteq Range(unsuggested(View(r)))
=============================================================================
