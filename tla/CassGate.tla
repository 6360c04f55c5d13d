------------------------------ MODULE CassGate ------------------------------
(***************************************************************************)
(* The five-leg gate of the nightly backup (infra/backup/cass/              *)
(* cass_backup_gate.py): every night a snapshot of the database is judged   *)
(* by itself and against the sidecars of the newest published backup; if it *)
(* passes, its own sidecars become the next baseline. A person may ask for  *)
(* a rebaseline, which drops the comparison and nothing else. Between two   *)
(* nights the database may become anything, and the baseline on the NAS may *)
(* lose a part.                                                             *)
(*                                                                         *)
(* A snapshot is a record                                                   *)
(*   rows    per table a function from row ids to rows; the domain of rows  *)
(*           is the set of tables. A row is [key, tail]                     *)
(*   torn    the tables that raise when they are read                       *)
(*   split   the rowid tables whose scan and seek disagree                  *)
(*   plan    whether the query plan certifies itself                        *)
(*   schema  what sqlite_master says                                        *)
(*   marks   per watermark key a number, Malformed, or Absent               *)
(*   check   what integrity_check prints: [out, err, code]                  *)
(***************************************************************************)
EXTENDS Integers, FiniteSets, SequencesExt

CONSTANTS
    Snapshots,      \* the databases that may be met
    Chains,         \* TABLES_FOR_LEG4
    Mutable,        \* those of which only the key columns are hashed
    Required,       \* REQUIRED_LEG3_OBJECTS
    RowidTables,    \* neither virtual nor WITHOUT ROWID
    Exempt,         \* LEG3_EXEMPT_TABLE
    Keys,           \* REQUIRED_LEG4_WATERMARK_KEYS
    Absent, Malformed, ReadFailed

ASSUME GateAssumption ==
    /\ Mutable \subseteq Chains
    /\ Chains \subseteq Required
    /\ Exempt \notin Required
    /\ {Absent, Malformed, ReadFailed} \intersect Int = {}

VARIABLES
    tip,     \* sidecars of the newest published backup, Absent if there is none
    asked,   \* whether the last run was asked to rebaseline
    rc,      \* its exit status
    last     \* history: the snapshot behind the tip

gateVars == <<tip, asked, rc, last>>

Tables(d) == DOMAIN d.rows
Readable(d, t) == t \in Tables(d) /\ t \notin d.torn
Count(d, t) == Cardinality(DOMAIN d.rows[t])
MaxId(d, t) == IF DOMAIN d.rows[t] = {} THEN 0 ELSE Max(DOMAIN d.rows[t])

-----------------------------------------------------------------------------
\* Leg 0: an empty database passes every comparison with nothing.
leg0(d) == \A t \in {"messages", "conversations"} : Readable(d, t) /\ Count(d, t) > 0

\* Leg 1: exactly ok, or the known abort after nothing but benign lines. Benign
\* lines without the abort are not: they may be the pages of a lost table.
classify_integrity(c) ==
    IF c.out = <<"ok">> /\ c.err = "" /\ c.code = 0 THEN "A"
    ELSE IF c.out # << >> /\ ToSet(c.out) = {"benign"} /\ c.err = "malformed" THEN "B"
    ELSE "FAIL"

leg1(d) == classify_integrity(d.check) # "FAIL"

\* Leg 2: every rowid table, by a plan that shows it really scans and seeks.
leg2(d) == \A t \in Tables(d) \intersect RowidTables :
               Readable(d, t) /\ d.plan /\ t \notin d.split

\* Leg 3. The census says ReadFailed of what cannot be counted.
leg3_census(d) ==
    [t \in Tables(d) |-> IF t = Exempt THEN "EXEMPT"
                         ELSE IF t \in d.torn THEN ReadFailed ELSE Count(d, t)]

leg3_compare(census, prev) ==
    \A t \in DOMAIN prev \ {Exempt} :
        /\ prev[t] \in Nat
        /\ t \in DOMAIN census
        /\ census[t] \in Nat
        /\ census[t] >= prev[t]

\* A rebaseline asks for the required tables only.
leg3_ReadFailurePasses(d, prev) ==
    /\ \A t \in Required : Readable(d, t)
    /\ prev # Absent => /\ leg3_compare(leg3_census(d), prev.census)
                        /\ d.schema = prev.fingerprint

\* prev is Absent on a first night and in a rebaseline.
leg3(d, prev) ==
    /\ \A t \in Required : Readable(d, t)
    /\ \A t \in DOMAIN leg3_census(d) : leg3_census(d)[t] # ReadFailed
    /\ prev # Absent => /\ leg3_compare(leg3_census(d), prev.census)
                        /\ d.schema = prev.fingerprint

\* Leg 4. What is hashed of the rows up to an id, in the order of the ids.
prefix_digest(d, t, max) ==
    LET ids == {i \in DOMAIN d.rows[t] : i <= max}
    IN  [i \in ids |-> IF t \in Mutable THEN d.rows[t][i].key ELSE d.rows[t][i]]

leg4_table(d, t) ==
    [max_id |-> MaxId(d, t), count |-> Count(d, t),
     prefix_digest |-> prefix_digest(d, t, MaxId(d, t))]

leg4_marks(d) == [k \in Keys |-> IF Readable(d, "meta") THEN d.marks[k] ELSE Absent]

leg4_compare(d, prev) ==
    /\ \A t \in Chains :
        LET p == prev.tables[t]
        IN  /\ MaxId(d, t) >= p.max_id
            /\ Count(d, t) >= p.count
            /\ prefix_digest(d, t, p.max_id) = p.prefix_digest
    /\ \A k \in Keys : prev.marks[k] \in Nat /\ leg4_marks(d)[k] >= prev.marks[k]

leg4(d, prev) ==
    /\ \A t \in Chains : Readable(d, t) /\ Count(d, t) = MaxId(d, t)
    /\ \A k \in Keys : leg4_marks(d)[k] \in Nat
    /\ prev # Absent => leg4_compare(d, prev)

-----------------------------------------------------------------------------
\* Only what the baseline still has is compared.
validate_baseline_Lenient(p) == p.fingerprint # Absent

\* The baseline is whole or it is refused: a comparison that goes by what the
\* baseline has would pass over what it has lost.
validate_baseline(p) ==
    /\ p.census = p.census_sha
    /\ p.fingerprint # Absent
    /\ \A t \in Chains : p.tables[t] # Absent
    /\ \A k \in Keys : p.marks[k] # Absent

\* latest_published(strict) raised.
TipUnreadable == tip # Absent /\ tip.torn

baseline_error(rebaseline) ==
    \/ TipUnreadable
    \/ tip # Absent /\ ~rebaseline /\ ~validate_baseline(tip)

\* A part the baseline has lost is passed over.
Lenient(prev) ==
    [prev EXCEPT
        !.tables = [t \in Chains |-> IF @[t] # Absent THEN @[t] ELSE
                       [max_id |-> 0, count |-> 0, prefix_digest |-> [i \in {} |-> 0]]],
        !.marks = [k \in Keys |-> IF @[k] = Absent THEN 0 ELSE @[k]]]

\* What legs 3 and 4 compare with.
prev_of(rebaseline) ==
    IF tip = Absent \/ rebaseline \/ baseline_error(rebaseline) THEN Absent ELSE Lenient(tip)

\* gate: 2 for a rebaseline that does not name the tip, else whether all legs
\* passed and the baseline was in order. No leg cuts the others short.
gate(d, rebaseline, named) ==
    IF rebaseline /\ ~TipUnreadable /\ (tip = Absent \/ ~named) THEN 2
    ELSE LET prev == prev_of(rebaseline)
         IN  IF /\ leg0(d) /\ leg1(d) /\ leg2(d) /\ leg3(d, prev) /\ leg4(d, prev)
                /\ ~baseline_error(rebaseline)
             THEN 0 ELSE 1

\* census.tsv and gate.json, which go into the digest of a published backup.
Sidecars(d) ==
    [census |-> leg3_census(d), census_sha |-> leg3_census(d), fingerprint |-> d.schema,
     tables |-> [t \in Chains |-> leg4_table(d, t)], marks |-> leg4_marks(d),
     torn |-> FALSE]

-----------------------------------------------------------------------------
GateInit == tip = Absent /\ asked = FALSE /\ rc = 0 /\ last = Absent

\* A night: the gate, and if it passes the backup is published.
Night(d) ==
    \E rebaseline, named \in BOOLEAN :
        /\ named => rebaseline
        /\ asked' = rebaseline
        /\ rc' = gate(d, rebaseline, named)
        /\ IF rc' = 0 THEN tip' = Sidecars(d) /\ last' = d
                      ELSE UNCHANGED <<tip, last>>

\* The NAS loses one part of a baseline (bound: one): a line of census.tsv, a
\* field of digest.json, digest.json itself.
Losses(p) ==
    {[p EXCEPT !.census = [s \in DOMAIN p.census \ {t} |-> p.census[s]]] : t \in DOMAIN p.census}
    \union {[p EXCEPT !.tables[t] = Absent] : t \in Chains}
    \union {[p EXCEPT !.marks[k] = m] : k \in Keys, m \in {Absent, Malformed}}
    \union {[p EXCEPT !.fingerprint = Absent], [p EXCEPT !.torn = TRUE]}

Tear ==
    /\ tip # Absent
    /\ tip = Sidecars(last)
    /\ tip' \in Losses(tip)
    /\ UNCHANGED <<asked, rc, last>>

\* Row ids count from 1; a sidecar, whole or not, is not mistaken for none.
ASSUME SnapshotsAssumption ==
    \A d \in Snapshots :
        /\ d.split \subseteq Tables(d) \intersect RowidTables
        /\ \A t \in Tables(d) : IsFiniteSet(DOMAIN d.rows[t]) /\ DOMAIN d.rows[t] \subseteq Nat \ {0}
        /\ d # Absent /\ d.schema # Absent
        /\ Chains \subseteq Tables(d) => /\ Absent \notin {Sidecars(d)} \union Losses(Sidecars(d))
                                        /\ \A t \in Chains : leg4_table(d, t) # Absent

GateNext == Tear \/ \E d \in Snapshots : Night(d)

GateSpec == GateInit /\ [][GateNext]_gateVars
-----------------------------------------------------------------------------
\* d continues c: no table lost, none with fewer rows, every message and the
\* identity of every conversation as it was, same schema, no watermark back.
ContinuesOf(c, d) ==
    /\ c.schema = d.schema
    /\ \A t \in Tables(c) \ {Exempt} : t \in Tables(d) /\ Count(d, t) >= Count(c, t)
    /\ \A t \in Chains : \A i \in DOMAIN c.rows[t] :
        /\ i \in DOMAIN d.rows[t]
        /\ d.rows[t][i].key = c.rows[t][i].key
        /\ t \notin Mutable => d.rows[t][i] = c.rows[t][i]
    /\ \A k \in Keys : d.marks[k] >= c.marks[k]

\* Every database that is published continues the one published before it,
\* unless a person asked to rebaseline; losing parts of the baseline between
\* the two does not let a loss pass (gate and _validate_baseline: all or
\* nothing). The databases are compared, not their sidecars.
PublishedContinues ==
    [][rc' = 0 /\ ~asked' /\ last # Absent => ContinuesOf(last, last')]_gateVars

\* What is published can be the next night's baseline, after a first night and
\* after a rebaseline too, which switches off the comparison and no more: the
\* same database passes again, and it has its required tables, no gap in its
\* chains, usable watermarks and an integrity check that is known. (A
\* ReadFailed in a census would be refused ever after.)
PublishedIsABaseline ==
    last # Absent =>
        /\ tip = Sidecars(last) => gate(last, FALSE, FALSE) = 0
        /\ \A t \in Required : Readable(last, t)
        /\ \A t \in Chains : DOMAIN last.rows[t] = 1..Count(last, t)
        /\ \A k \in Keys : last.marks[k] \in Nat
        /\ last.split = {}
        /\ last.check.out = <<"ok">> \/ last.check.err = "malformed"
=============================================================================
