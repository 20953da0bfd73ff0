----------------------------- MODULE AuditQueries ----------------------------
(***************************************************************************)
(* The review queries of app/audit/queries.py and the fetch() of both      *)
(* backends (app/audit/backends.py) that they are made of.                 *)
(*                                                                         *)
(* A row is found by its seq, its place in the table.  Its time is an ISO  *)
(* string for SQLite, which compares it character by character, and an     *)
(* instant for PostgreSQL.  An instant is an hour and a fraction of it;    *)
(* isoformat() leaves the fraction out when it is zero.                    *)
(***************************************************************************)
EXTENDS Integers, Sequences, FiniteSets, Functions

CONSTANTS
    Decisions, Users, Rules,   \* values of the columns
    LastHour,                  \* bound: the hours are 0..LastHour
    Fractions,                 \* bound: fractions of an hour, below 10
    None,                      \* a filter that is not given
    MaxAudited                 \* bound: rows in the table

VARIABLE rows

Instants == [hour : 0..LastHour, fraction : Fractions]
Rows == [decision : Decisions, user_id : Users, rule_triggered : Rules, ts : Instants]

Init == rows = <<>>

Insert(row) == Len(rows) < MaxAudited /\ rows' = Append(rows, row)

Finished == Len(rows) = MaxAudited /\ UNCHANGED rows

Next == (\E row \in Rows : Insert(row)) \/ Finished

Spec == Init /\ [][Next]_rows

-----------------------------------------------------------------------------
(* fetch.                                                                   *)

Digit(n) == 48 + n
Plus == 43
Point == 46
Zulu == 90

\* Faulty variant of Iso: the offset is written Z.
IsoZulu(t) ==
    IF t.fraction = 0 THEN <<Digit(t.hour), Zulu>>
                      ELSE <<Digit(t.hour), Point, Digit(t.fraction), Zulu>>

\* isoformat(), from the hour on: "+00:00" follows, which ends every string.
Iso(t) ==
    IF t.fraction = 0 THEN <<Digit(t.hour), Plus>>
                      ELSE <<Digit(t.hour), Point, Digit(t.fraction), Plus>>

\* Strings compare by the first character in which they differ.
TextAtLeast(s, t) ==
    s = t \/ \E i \in DOMAIN s \cap DOMAIN t :
                SubSeq(s, 1, i - 1) = SubSeq(t, 1, i - 1) /\ s[i] > t[i]

IsBefore(t, u) == t.hour < u.hour \/ (t.hour = u.hour /\ t.fraction < u.fraction)

\* ts >= ? of SQLite, ts >= $n::timestamptz of PostgreSQL.
IsSince(kind, t, since) ==
    IF kind = "sqlite" THEN TextAtLeast(Iso(t), Iso(since)) ELSE ~IsBefore(t, since)

\* The filters that are given are joined by AND.
Matches(kind, row, f) ==
    /\ f.decision \in {None, row.decision}
    /\ f.user_id \in {None, row.user_id}
    /\ f.rule_triggered \in {None, row.rule_triggered}
    /\ f.since_ts = None \/ IsSince(kind, row.ts, f.since_ts)

\* ORDER BY seq DESC.
Newest(kind, f) ==
    LET upTo[i \in 0..Len(rows)] ==
          IF i = 0 THEN <<>>
          ELSE IF Matches(kind, rows[i], f) THEN <<i>> \o upTo[i - 1]
          ELSE upTo[i - 1]
    IN  upTo[Len(rows)]

\* LIMIT n.
Fetch(kind, f) ==
    IF f.limit = None THEN Newest(kind, f) ELSE SubSeq(Newest(kind, f), 1, f.limit)

-----------------------------------------------------------------------------
(* The queries.                                                             *)

NoFilter == [decision |-> None, user_id |-> None, rule_triggered |-> None,
             since_ts |-> None, limit |-> None]

HoursAgo(now, n) == [now EXCEPT !.hour = @ - n]

ByDecision(kind, d) == Fetch(kind, [NoFilter EXCEPT !.decision = d])
Escalations(kind) == ByDecision(kind, "ESCALATE")
ForUser(kind, u) == Fetch(kind, [NoFilter EXCEPT !.user_id = u])
StopsLastHour(kind, now) ==
    Fetch(kind, [NoFilter EXCEPT !.decision = "STOP", !.since_ts = HoursAgo(now, 1)])

\* A dictionary of the decisions that occur.
DecisionCounts(kind) ==
    LET all == Fetch(kind, NoFilter)
    IN  [d \in {rows[all[i]].decision : i \in DOMAIN all} |->
            Cardinality({i \in DOMAIN all : rows[all[i]].decision = d})]

-----------------------------------------------------------------------------
(* Properties                                                               *)

Kinds == {"sqlite", "postgres"}

\* "The STOPs of the last hour" are those: every one whose record is not more
\* than an hour old, on the boundary and with or without a fraction of a
\* second in either time, on both backends, the latest row first.  SQLite
\* gets this from comparing strings of different lengths.
LastHourIsExact ==
    \A kind \in Kinds : \A now \in {t \in Instants : t.hour >= 1} :
        LET found == StopsLastHour(kind, now)
        IN  /\ Range(found) = {i \in DOMAIN rows : rows[i].decision = "STOP"
                                            /\ ~IsBefore(rows[i].ts, HoursAgo(now, 1))}
            /\ \A i, j \in DOMAIN found : i < j => found[i] > found[j]

\* The reports that are read side by side agree: every count is the number of
\* rows that the query for its decision lists, those of all users make up the
\* table, and a limited query lists the latest rows of the unlimited one.
ReportsAgree ==
    \A kind \in Kinds :
        /\ \A d \in Decisions :
            LET counts == DecisionCounts(kind)
            IN  Len(ByDecision(kind, d)) = IF d \in DOMAIN counts THEN counts[d] ELSE 0
        /\ UNION {Range(ForUser(kind, u)) : u \in Users} = DOMAIN rows
        /\ \A d \in Decisions : \A i \in Range(ByDecision(kind, d)) :
            i \in Range(Fetch(kind, [NoFilter EXCEPT !.decision = d, !.limit = 1]))
              <=> \A j \in Range(ByDecision(kind, d)) : j <= i

\* What a reviewer reads is exact, on either backend.
QueriesAreExact == LastHourIsExact /\ ReportsAgree
=============================================================================
