-------------------------- MODULE CategoryMigration --------------------------
(***************************************************************************)
(* The migration that replaces the ids of categories by canonical codes.   *)
(* The tables it meets were written by several versions of the program:    *)
(* rows of the master table have legacy codes, canonical ones or none, and *)
(* issues and preferences refer to an id, a code or both.  All statements  *)
(* are one transaction: the migration is one step, which raises an error   *)
(* or leaves the tables that the statements, read in order, produce.       *)
(*                                                                         *)
(* A column that is absent reads as nulls.  Display names and orders are   *)
(* only left out after the step, where they are those of the catalog.      *)
(***************************************************************************)
EXTENDS Integers, FiniteSets, FiniteSetsExt

CONSTANTS
    Canonical,           \* codes of _newtine_category_catalog
    CodeMap,             \* _newtine_category_code_map
    NameMap,             \* display names of legacy rows, and their codes
    OldCode, OldName,    \* what the master table may hold
    RowCode,             \* the codes of other rows
    MasterId, PrefId,    \* ids, that are ordered
    Labelled, Owner,     \* issues and users
    Absent

ASSUME MigrationAssumption ==
    /\ \A c \in Canonical : c \in DOMAIN CodeMap /\ CodeMap[c] = c
    /\ \A c \in DOMAIN CodeMap : CodeMap[c] \in Canonical
    /\ \A n \in DOMAIN NameMap : NameMap[n] \in Canonical
    /\ Absent \notin Canonical \cup DOMAIN CodeMap \cup DOMAIN NameMap
    /\ MasterId \subseteq Nat /\ PrefId \subseteq Nat /\ Absent \notin Nat
    /\ IsFiniteSet(Canonical) /\ IsFiniteSet(PrefId)

VARIABLES
    db,         \* the tables
    legacyDb,   \* history: as they were
    outcome     \* of the migration

migrationVars == <<db, legacyDb, outcome>>

-----------------------------------------------------------------------------
(* The master table.                                                       *)

\* The insert into _newtine_category_legacy: by the code, else by the name.
CanonOf(m) ==
    IF m.code \in DOMAIN CodeMap THEN CodeMap[m.code]
    ELSE IF m.name \in DOMAIN NameMap THEN NameMap[m.name] ELSE Absent

\* Without ids the codes must be canonical already.
MasterApproved(d) ==
    \A m \in d.master : IF d.hasId THEN CanonOf(m) # Absent ELSE m.code \in Canonical

\* order by (legacy_code = canonical_code) desc, legacy_id: the comparison with
\* a null code is null, which sorts first.
Place(m) == IF m.code = Absent THEN 0 ELSE IF m.code = CanonOf(m) THEN 1 ELSE 2
StaysBefore(m, n) == Place(m) < Place(n) \/ (Place(m) = Place(n) /\ m.id < n.id)
KeptMaster(d) ==
    {m \in d.master : ~ \E n \in d.master : CanonOf(n) = CanonOf(m) /\ StaysBefore(n, m)}

\* The rows that stay, with their creation times, and the seeds that are missing.
Recoded(d) ==
    IF d.hasId THEN {[id |-> Absent, code |-> CanonOf(m), since |-> m.since] : m \in KeptMaster(d)}
               ELSE {[id |-> Absent, code |-> m.code, since |-> m.since] : m \in d.master}
Seeded(rows) ==
    rows \cup {[id |-> Absent, code |-> c, since |-> Absent] :
                  c \in Canonical \ {m.code : m \in rows}}

-----------------------------------------------------------------------------
(* Rows that refer to a category: issues and preferences.                  *)

MapCode(code) == IF code \in DOMAIN CodeMap THEN CodeMap[code] ELSE code
MapId(d, id) ==
    IF d.hasId /\ \E m \in d.master : m.id = id
    THEN CanonOf(CHOOSE m \in d.master : m.id = id) ELSE Absent

\* The updates map_code and map_id of issues.
Moved(d, row) ==
    LET byId == MapId(d, row.cat) IN
    [row EXCEPT !.cat = Absent, !.code = IF byId # Absent THEN byId ELSE MapCode(row.code)]

\* The count conflict, made between the two updates, and the count check.
Consistent(d, row) ==
    LET code == MapCode(row.code)  byId == MapId(d, row.cat) IN
    /\ code # Absent /\ byId # Absent => code = byId
    /\ Moved(d, row).code \in Canonical

\* The same statements for preferences.
PreferencesMoved(d) == {Moved(d, p) : p \in d.prefs}
PreferencesConsistent(d) == \A p \in d.prefs : Consistent(d, p)

Alike(p, prefs) == {q \in prefs : q.user = p.user /\ q.code = p.code}
Firsts(prefs) == {p \in prefs : \A q \in Alike(p, prefs) : p.id <= q.id}

\* Faulty variant: the first row keeps its own weight.
MergedByDeletion(prefs) == Firsts(prefs)

\* Duplicates of a user and a code: the first row gets all the weight.
Merged(prefs) ==
    {[p EXCEPT !.weight = MapThenSumSet(LAMBDA q : q.weight, Alike(p, prefs))] :
        p \in Firsts(prefs)}

-----------------------------------------------------------------------------
(* The migration.                                                          *)

\* Foreign keys to the id are dropped for the two tables that are converted;
\* one of another table is an error.
Accepted(d) ==
    /\ MasterApproved(d)
    /\ \A a \in Labelled : Consistent(d, d.issues[a])
    /\ PreferencesConsistent(d)
    /\ d.hasId => ~d.otherTable

Converted(d) ==
    [hasId |-> FALSE, otherTable |-> d.otherTable,
     master |-> Seeded(Recoded(d)),
     issues |-> [a \in Labelled |-> Moved(d, d.issues[a])],
     prefs |-> Merged(PreferencesMoved(d))]

\* The primary key, the foreign keys and the unique constraint that are added.
ConstraintsHold(d) ==
    LET codes == {m.code : m \in d.master} IN
    /\ Cardinality(codes) = Cardinality(d.master) /\ Absent \notin codes
    /\ \A a \in Labelled : d.issues[a].code \in codes
    /\ \A p \in d.prefs : p.code \in codes /\ Cardinality(Alike(p, d.prefs)) = 1

\* What earlier versions can have left: ids are keys and are referred to with
\* foreign keys; a user has a category once.  The weight of a preference is
\* told by its id.
Reference(d) == {Absent} \cup (IF d.hasId THEN {m.id : m \in d.master} ELSE {})

MigrationInit ==
    /\ \E hasId, otherTable \in BOOLEAN, present \in SUBSET MasterId :
       \E codes \in [present -> OldCode \cup {Absent}], names \in [present -> OldName] :
       LET rows == {[id |-> k, code |-> codes[k], name |-> names[k], since |-> k] : k \in present}
           d == [hasId |-> hasId, master |-> rows]
       IN
       /\ ~hasId => \A m, n \in rows : m.code # Absent /\ (m.code = n.code => m = n)
       /\ \E used \in SUBSET PrefId :
          \E issues \in [Labelled -> [cat : Reference(d), code : RowCode \cup {Absent}]],
             rowOf \in [used -> [user : Owner, cat : Reference(d), code : RowCode \cup {Absent}]] :
          /\ \A p, q \in used :
               p # q /\ rowOf[p].user = rowOf[q].user =>
                 \/ rowOf[p].cat # rowOf[q].cat
                 \/ rowOf[p].cat = Absent /\ rowOf[p].code # rowOf[q].code
          /\ db = [hasId |-> hasId, otherTable |-> otherTable, master |-> rows,
                   issues |-> issues,
                   prefs |-> {[id |-> p, user |-> rowOf[p].user, cat |-> rowOf[p].cat,
                               code |-> rowOf[p].code, weight |-> p] : p \in used}]
    /\ legacyDb = db
    /\ outcome = "none"

\* up; down only throws.
MigrateUp ==
    /\ outcome = "none"
    /\ IF Accepted(db) /\ ConstraintsHold(Converted(db))
       THEN db' = Converted(db) /\ outcome' = "done"
       ELSE db' = db /\ outcome' = "refused"
    /\ UNCHANGED legacyDb

MigrationSpec == MigrationInit /\ [][MigrateUp]_migrationVars

-----------------------------------------------------------------------------
(* Properties.                                                             *)

\* What a row says its category is, by its code and by its id.
Meanings(d, row) ==
    ({CanonOf(m) : m \in {n \in d.master : d.hasId /\ n.id = row.cat}}
       \cup {MapCode(row.code)}) \ {Absent}
Meaning(d, row) == CHOOSE c \in Meanings(d, row) : TRUE
WeightOf(prefs) == MapThenSumSet(LAMBDA p : p.weight, prefs)

\* Every issue keeps its category, every user the weight of each category, once
\* in one row; the catalog is complete; and a second migration changes nothing.
NothingLost ==
    outcome = "done" =>
        /\ \A a \in Labelled : {db.issues[a].code} = Meanings(legacyDb, legacyDb.issues[a])
        /\ \A u \in Owner, c \in Canonical :
             LET now == {p \in db.prefs : p.user = u /\ p.code = c}
                 was == {p \in legacyDb.prefs : p.user = u /\ Meaning(legacyDb, p) = c}
             IN  /\ WeightOf(now) = WeightOf(was)
                 /\ Cardinality(now) = IF was = {} THEN 0 ELSE 1
        /\ {m.code : m \in db.master} = Canonical
        /\ \A m \in db.master : m.since # Absent =>
             \E n \in legacyDb.master : n.since = m.since /\ CanonOf(n) = m.code
        /\ Accepted(db) /\ Converted(db) = db

\* It is refused, leaving all as it was, only when some row has no category or
\* contradicts itself: the constraints that are added never fail.
RefusedForAReason ==
    outcome = "refused" =>
        /\ db = legacyDb
        /\ \/ \E row \in db.prefs \cup {db.issues[a] : a \in Labelled} :
                ~ (Cardinality(Meanings(db, row)) = 1 /\ Meanings(db, row) \subseteq Canonical)
           \/ \E m \in db.master : CanonOf(m) = Absent \/ (~db.hasId /\ m.code \notin Canonical)
           \/ db.otherTable

MigrationHolds == NothingLost /\ RefusedForAReason
=============================================================================
