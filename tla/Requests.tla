------------------------------ MODULE Requests ------------------------------
(***************************************************************************)
(* The MIB store (src/mib.rs) and the request handlers (transport/         *)
(* request.rs), as a manager sees them that walks the MIB with GETNEXT and *)
(* GETBULK requests while the application inserts objects: one handler     *)
(* sees one store, but a walk sees as many stores as it sends requests.    *)
(***************************************************************************)
EXTENDS WireSizes, Sequences, FiniteSets, SequencesExt

CONSTANTS
    OidSpace,             \* the object identifiers: sequences of arcs
    ValueSpace,           \* the values: [kind, len, content] with content in bytes
    Starts,               \* the columns a walk may start from: sequences of OIDs
    MaxRepetitionFields,  \* max-repetitions on the wire
    NonRepeaterFields,    \* non-repeaters on the wire
    MaxSizes,             \* msgMaxSize of a request, as the header decoder admits it
    MAX_BULK_REPETITIONS,
    MAX_FRAME_SIZE,
    MaxSteps              \* bound: requests of one walk

IsOid(o) == o \in Seq(Nat) /\ Len(o) >= 2

\* A value is one of the variants of enum Value, which has no exceptions, and
\* the encoder writes it in at most the bytes its kind takes.
ASSUME RequestsAssumption ==
    /\ \A o \in OidSpace : IsOid(o)
    /\ \A v \in ValueSpace :
          /\ v.kind \in ValueKinds \ {"EndOfMibView", "NoSuchObject"} /\ v.len \in Nat
          /\ v.content \in Nat /\ v.content <= ValueContentUpperBound(v.kind, v.len)
    /\ \A s \in Starts : s \in Seq(Seq(Nat)) \ {<<>>} /\ \A i \in DOMAIN s : IsOid(s[i])
    /\ MaxRepetitionFields \subseteq Int /\ NonRepeaterFields \subseteq Int
    /\ \A s \in MaxSizes : s \in Nat /\ s >= 484
    /\ MAX_BULK_REPETITIONS \in Nat /\ MaxSteps \in Nat
    /\ MAX_FRAME_SIZE \in Nat /\ MAX_FRAME_SIZE >= 484

VARIABLES
    store,    \* the MIB: OID -> value
    start,    \* the columns the walk started from, <<>> while there is no walk
    base,     \* the OIDs in the store when the walk started
    position, \* per column, the last OID the manager got
    seen,     \* per column, the OIDs the manager got, in order
    ended,    \* per column, whether the manager got endOfMibView
    steps     \* requests of this walk

walkVars == <<start, base, position, seen, ended, steps>>
vars == <<store, start, base, position, seen, ended, steps>>

-----------------------------------------------------------------------------
(* mib.rs *)

\* The order of Vec<u32>, which Oid derives.
Before(a, b) ==
    \/ \E i \in DOMAIN a \cap DOMAIN b : a[i] < b[i] /\ \A j \in 1..(i - 1) : a[j] = b[j]
    \/ Len(a) < Len(b) /\ \A j \in DOMAIN a : a[j] = b[j]

Exception(kind) == [kind |-> kind, len |-> 0, content |-> 0]
Varbind(oid, value) == [oid |-> oid, value |-> value]
IsException(vb) == vb.value.kind \in {"EndOfMibView", "NoSuchObject"}

Successors(mib, oid) == {o \in DOMAIN mib : Before(oid, o)}

\* Faulty variant: an unordered map.
Least_Any(S) == CHOOSE o \in S : TRUE

\* The first of a range of the BTreeMap.
Least(S) == CHOOSE o \in S : \A p \in S \ {o} : Before(o, p)

\* Faulty variant: the bound is included.
StoreNext_Included(mib, oid) == Successors(mib, oid) \cup (DOMAIN mib \cap {oid})

\* Store::next: the candidates for the smallest key after `oid'.
StoreNext(mib, oid) == Successors(mib, oid)

StoreSet(mib, oid, value) ==
    [o \in DOMAIN mib \cup {oid} |-> IF o = oid THEN value ELSE mib[o]]

-----------------------------------------------------------------------------
(* request.rs *)

HandleGet(mib, oids) ==
    [i \in DOMAIN oids |->
        Varbind(oids[i], IF oids[i] \in DOMAIN mib THEN mib[oids[i]] ELSE Exception("NoSuchObject"))]

\* resolve_get_next_varbind
ResolveGetNext(mib, oid) ==
    LET next == StoreNext(mib, oid)
    IN  IF next # {} THEN Varbind(Least(next), mib[Least(next)])
        ELSE Varbind(oid, Exception("EndOfMibView"))

HandleGetNext(mib, oids) == [i \in DOMAIN oids |-> ResolveGetNext(mib, oids[i])]

VarbindEstimate(vb) == EstimatedVarbind(Len(vb.oid), vb.value.kind, vb.value.len)
Total(sizes) ==
    LET sum[n \in 0..Len(sizes)] == IF n = 0 THEN 0 ELSE sum[n - 1] + sizes[n]
    IN  sum[Len(sizes)]
Estimate(varbinds) == Total([i \in DOMAIN varbinds |-> VarbindEstimate(varbinds[i])])

\* build_repeating_row
RepeatingRow(mib, current) == [i \in DOMAIN current |-> ResolveGetNext(mib, current[i])]
AllEndOfMib(row) == \A i \in DOMAIN row : IsException(row[i])

\* current_oids after a row: only columns that got a value move.
Advance(current, row) ==
    [i \in DOMAIN current |-> IF IsException(row[i]) THEN current[i] ELSE row[i].oid]

\* Faulty variant: the budget is checked per varbind, inside the row.
Repetition_Ragged(mib, budget, bulk) ==
    LET row == RepeatingRow(mib, bulk.current)
        fit == {n \in 0..Len(row) : bulk.size + Estimate(SubSeq(row, 1, n)) <= budget}
        cut == IF fit = {} THEN <<>>
               ELSE SubSeq(row, 1, CHOOSE n \in fit : \A m \in fit : m <= n)
    IN  IF bulk.stop THEN bulk
        ELSE [varbinds |-> bulk.varbinds \o cut,
              size     |-> bulk.size + Estimate(cut),
              current  |-> Advance(bulk.current, row),
              stop     |-> Len(cut) < Len(row) \/ AllEndOfMib(row)]

\* One iteration of the `for _ in 0..max_repetitions' loop.
Repetition(mib, budget, bulk) ==
    LET row == RepeatingRow(mib, bulk.current)
        fits == bulk.size + Estimate(row) <= budget
    IN  IF bulk.stop THEN bulk
        ELSE [varbinds |-> IF fits THEN bulk.varbinds \o row ELSE bulk.varbinds,
              size     |-> IF fits THEN bulk.size + Estimate(row) ELSE bulk.size,
              current  |-> Advance(bulk.current, row),
              stop     |-> ~fits \/ AllEndOfMib(row)]

Lesser(a, b) == IF a < b THEN a ELSE b

\* decoded_pdu_to_inbound: a negative field counts as 0.
Clamp(field) == IF field < 0 THEN 0 ELSE field

\* handle_get_bulk
HandleGetBulk(mib, oids, nonRepeatersField, maxRepetitionsField, maxSize) ==
    LET nonRepeaters == Lesser(Clamp(nonRepeatersField), Len(oids))
        maxRepetitions == Lesser(Clamp(maxRepetitionsField), MAX_BULK_REPETITIONS)
        budget == IF maxSize < V3_ENVELOPE_OVERHEAD THEN 0 ELSE maxSize - V3_ENVELOPE_OVERHEAD
        fixed == HandleGetNext(mib, SubSeq(oids, 1, nonRepeaters))
        repeating == SubSeq(oids, nonRepeaters + 1, Len(oids))
        init == [varbinds |-> fixed, size |-> Estimate(fixed), current |-> repeating,
                 stop |-> repeating = <<>>]
        bulk[k \in 0..maxRepetitions] ==
            IF k = 0 THEN init ELSE Repetition(mib, budget, bulk[k - 1])
    IN  bulk[maxRepetitions].varbinds

\* dispatch_pdu_and_encode_response bounds GETBULK by both sides' limits.
EffectiveMaxSize(msgMaxSize) == Lesser(msgMaxSize, MAX_FRAME_SIZE)

-----------------------------------------------------------------------------
(* The application and the manager *)

Init ==
    /\ store = [o \in {} |-> {}]
    /\ start = <<>>
    /\ base = {}
    /\ position = <<>>
    /\ seen = <<>>
    /\ ended = <<>>
    /\ steps = 0

\* drain_commands applies a set, between two requests.
ApplicationSet(oid, value) ==
    /\ store' = StoreSet(store, oid, value)
    /\ UNCHANGED walkVars

StartWalk(columns) ==
    /\ start = <<>>
    /\ start' = columns
    /\ base' = DOMAIN store
    /\ position' = columns
    /\ seen' = [i \in DOMAIN columns |-> <<>>]
    /\ ended' = [i \in DOMAIN columns |-> FALSE]
    /\ steps' = 0
    /\ UNCHANGED store

Walking == start # <<>> /\ steps < MaxSteps /\ \E i \in DOMAIN ended : ~ended[i]

\* The manager reads a response of k whole rows: it follows each column up to
\* its first endOfMibView.
Cell(response, row, i) == response[(row - 1) * Len(start) + i]
Receive(response) ==
    LET rows == Len(response) \div Len(start)
        live(i) == {r \in 1..rows : \A q \in 1..r : ~IsException(Cell(response, q, i))}
        count(i) == IF ended[i] THEN 0 ELSE Cardinality(live(i))
    IN  /\ seen' = [i \in DOMAIN start |->
               seen[i] \o [r \in 1..count(i) |-> Cell(response, r, i).oid]]
        /\ position' = [i \in DOMAIN start |->
               IF count(i) = 0 THEN position[i] ELSE Cell(response, count(i), i).oid]
        /\ ended' = [i \in DOMAIN start |-> ended[i] \/ count(i) < rows]
        /\ steps' = steps + 1
        /\ UNCHANGED <<store, start, base>>

WalkNext ==
    /\ Walking
    /\ Receive(HandleGetNext(store, position))

WalkBulk(maxRepetitions, msgMaxSize) ==
    /\ Walking
    /\ Receive(HandleGetBulk(store, position, 0, maxRepetitions, EffectiveMaxSize(msgMaxSize)))

\* The manager is done, or gives up.
EndWalk ==
    /\ start # <<>>
    /\ ~Walking
    /\ start' = <<>> /\ base' = {} /\ position' = <<>> /\ seen' = <<>> /\ ended' = <<>>
    /\ steps' = 0
    /\ UNCHANGED store

Next ==
    \/ \E o \in OidSpace, v \in ValueSpace : ApplicationSet(o, v)
    \/ \E columns \in Starts : StartWalk(columns)
    \/ WalkNext
    \/ \E n \in MaxRepetitionFields, s \in MaxSizes : WalkBulk(n, s)
    \/ EndWalk

Spec == Init /\ [][Next]_vars

-----------------------------------------------------------------------------
(* Properties *)

\* A walk never goes in circles: in each column the OIDs grow, whatever is
\* inserted behind or ahead of it, so it ends (Store::next excludes its bound).
WalkAdvances ==
    \A i \in DOMAIN start :
        /\ IsSorted(seen[i], Before)
        /\ \A k \in DOMAIN seen[i] : Before(start[i], seen[i][k])

\* A walk misses nothing: what was in the store when it started, and lies in
\* the part a column has covered, was returned to it, however the column was
\* fetched and whatever was inserted meanwhile; and what a walk has returned, a
\* GET still finds (entries are permanent once inserted, mib.rs:72).
WalkComplete ==
    \A i \in DOMAIN start :
        /\ \A o \in base : Before(start[i], o) /\ (ended[i] \/ ~Before(position[i], o)) =>
              Contains(seen[i], o)
        /\ \A k \in DOMAIN seen[i] : ~IsException(HandleGet(store, <<seen[i][k]>>)[1])

\* The n-th OID of the store after o, counted instead of iterated.
IsNthAfter(o, n, p) ==
    p \in Successors(store, o) /\ Cardinality({q \in Successors(store, o) : ~Before(p, q)}) = n

\* What RFC 3416 says repetition n of a column answers (REQ-0026).
ExpectedCell(o, n) ==
    IF Cardinality(Successors(store, o)) >= n
    THEN LET p == CHOOSE q \in OidSpace : IsNthAfter(o, n, q) IN Varbind(p, store[p])
    ELSE LET reached == {q \in Successors(store, o) : \A r \in Successors(store, o) : ~Before(q, r)}
         IN  Varbind(IF reached = {} THEN o ELSE CHOOSE q \in reached : TRUE,
                     Exception("EndOfMibView"))

Bulk(columns, nr, n, s) == HandleGetBulk(store, columns, nr, n, EffectiveMaxSize(s))
NonRepeaters(columns, nr) == Lesser(Clamp(nr), Len(columns))

\* A GETBULK response is the non-repeaters and then whole rows (REQ-0134), each
\* cell the one RFC 3416 asks for; it stops before the requested number of
\* repetitions only after a row of endOfMibView or before a row over budget.
\* Negative fields count as 0 (REQ-0028), because decode.rs clamps them before
\* handle_get_bulk, whose own comment has such requests rejected instead.
BulkFollowsRfc ==
    start = <<>> => \A columns \in Starts, nr \in NonRepeaterFields, n \in MaxRepetitionFields, s \in MaxSizes :
        LET response == Bulk(columns, nr, n, s)
            fixed == NonRepeaters(columns, nr)
            width == Len(columns) - fixed
            rows == IF width = 0 THEN 0 ELSE (Len(response) - fixed) \div width
            row(r) == [c \in 1..width |-> ExpectedCell(columns[fixed + c], r)]
        IN  /\ Len(response) = fixed + rows * width
            /\ \A c \in 1..fixed : response[c] = ExpectedCell(columns[c], 1)
            /\ \A r \in 1..rows : SubSeq(response, fixed + (r - 1) * width + 1, fixed + r * width) = row(r)
            /\ rows <= Clamp(n) /\ rows <= MAX_BULK_REPETITIONS
            /\ width > 0 /\ rows < Lesser(Clamp(n), MAX_BULK_REPETITIONS) =>
                  \/ rows > 0 /\ AllEndOfMib(row(rows))
                  \/ Estimate(response \o row(rows + 1)) + V3_ENVELOPE_OVERHEAD > EffectiveMaxSize(s)

\* The bytes the encoder writes for the varbinds of a response.
OidContent(o) ==
    Base128(40 * o[1] + o[2]) + Total([i \in 1..(Len(o) - 2) |-> Base128(o[i + 2])])
WireSize(varbinds) ==
    Total([i \in DOMAIN varbinds |->
              EncodedVarbind(OidContent(varbinds[i].oid), varbinds[i].value.content)])
LargestMessage(varbinds) == ResponseMessage(32, 32, 48, TRUE, WireSize(varbinds))

\* A GETBULK response without non-repeaters fits the requester's and the
\* agent's message size (REQ-0133), in the largest envelope, for all that the
\* estimate does not look at the encoded bytes.
RepeatersFit ==
    start = <<>> => \A columns \in Starts, n \in MaxRepetitionFields, s \in MaxSizes :
        LargestMessage(Bulk(columns, 0, n, s)) <= EffectiveMaxSize(s)

\* "The response is bounded to `max_response_size` bytes" (request.rs:118):
\* the same with non-repeaters.
BulkFits ==
    \A columns \in Starts, nr \in NonRepeaterFields, n \in MaxRepetitionFields, s \in MaxSizes :
        LargestMessage(Bulk(columns, nr, n, s)) <= EffectiveMaxSize(s)
=============================================================================
