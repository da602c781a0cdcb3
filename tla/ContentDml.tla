----------------------------- MODULE ContentDml -----------------------------
(***************************************************************************)
(* What the console answers to one request on a table: lib/dml.ts behind   *)
(* /api/content/rows, /peek and /row, under the masking policy of          *)
(* packages/admin/src/server/masking.ts.  An answer is a function of the   *)
(* table's rows, so that it can be asked what it gives away.               *)
(***************************************************************************)
EXTENDS Naturals, Sequences, FiniteSets

CONSTANTS
  DmlColumns,   \* the table's columns, in order
  Sensitive,    \* names the pattern matches
  Structural,   \* BUILTIN_EXEMPT
  Namey,        \* NAMEY: names one knows a row by, in order
  Flags,        \* its enums and booleans, in order
  Bulky,        \* its texts, json and arrays
  PeekLimit,    \* 6, less for a small table
  DmlIds,       \* its rows, by position
  DmlValues     \* what their columns hold: numbers, in order

ASSUME DmlAssumption ==
  /\ PeekLimit \in Nat /\ 0 \in DmlValues
  /\ DmlColumns \in Seq({DmlColumns[i] : i \in DOMAIN DmlColumns})

VARIABLES
  policy,   \* the columns extra and exempt name, and how the table is made
  dmlRows,  \* the table
  asked     \* the request being answered, at most one

dmlVars == <<policy, dmlRows, asked>>

-----------------------------------------------------------------------------
NameSet == {DmlColumns[i] : i \in DOMAIN DmlColumns}
Unknown == "unknown"
Contents == [DmlIds -> [NameSet -> DmlValues]]
Policies == [extra : SUBSET Sensitive, exempt : SUBSET Sensitive, pk : {""} \cup NameSet,
             required : {{}, Sensitive}]  \* NOT NULL without a default

\* exempt, then extra, then the names built in, then the pattern.
isMasked(c) ==
  /\ c \notin policy.exempt
  /\ c \in policy.extra \/ (c \notin Structural /\ c \in Sensitive)

Visible == {c \in NameSet : ~isMasked(c)}
maskedInsertBlockers == {c \in policy.required : isMasked(c)}

Refusal == [refused |-> TRUE]

-----------------------------------------------------------------------------
\* A filter tests one column; buildWhere refuses one it may not name.
Filterable(f) == f.col \in Visible
Passes(table, f) == {i \in DmlIds : f.on => table[i][f.col] = f.val}

Positions == {i \in DOMAIN DmlColumns : DmlColumns[i] \in Visible}
FirstVisible == DmlColumns[CHOOSE i \in Positions : \A j \in Positions : i <= j]

\* Mutation: the primary key sorts even when it is masked.
sortColByKey(sort) ==
  IF sort \in Visible THEN sort
  ELSE IF policy.pk # "" THEN policy.pk
  ELSE FirstVisible

\* The sort asked for, else the primary key, else the first column one can see.
sortCol(sort) ==
  IF sort \in Visible THEN sort
  ELSE IF policy.pk \in Visible THEN policy.pk
  ELSE FirstVisible

OnWire(row, cols) == [c \in cols |-> row[c]]

\* The first row of the page (any of those that tie) and the total.
selectRows(table, r) ==
  IF (r.on /\ ~Filterable(r)) \/ Visible = {} THEN Refusal
  ELSE LET hits == Passes(table, r)
           s == sortCol(r.sort)
       IN [first |-> {OnWire(table[i], Visible) : i \in
                       {i \in hits : \A j \in hits : table[j][s] <= table[i][s]}},
           total |-> Cardinality(hits)]

\* The column referred to, the name-like ones, the flags, the rest but for bulk: of
\* those the first, up to the limit.
Ranking(ref) == <<ref>> \o Namey \o Flags \o DmlColumns
Rank(ref, c) ==
  CHOOSE i \in DOMAIN Ranking(ref) :
    Ranking(ref)[i] = c /\ \A j \in 1..(i - 1) : Ranking(ref)[j] # c

peekColumns(ref) ==
  LET Wanted == {c \in Visible : c \notin Bulky \/ \E i \in 1..(1 + Len(Namey) + Len(Flags)) :
                                                    Ranking(ref)[i] = c}
  IN {c \in Wanted :
        Cardinality({d \in Wanted : Rank(ref, d) < Rank(ref, c)}) < PeekLimit}

peekRow(table, r) ==
  IF r.col \notin Visible THEN Refusal
  ELSE [found |-> {OnWire(table[i], peekColumns(r.col)) : i \in
                     {i \in DmlIds : table[i][r.col] = r.val}}]

-----------------------------------------------------------------------------
Editable(values) == DOMAIN values \subseteq Visible /\ DOMAIN values # {}
Addressable == policy.pk \in Visible
At(table, id) == {i \in DmlIds : table[i][policy.pk] = id}
Edited(row, values) == [c \in NameSet |-> IF c \in DOMAIN values THEN values[c] ELSE row[c]]

insertRow(r) ==
  IF maskedInsertBlockers # {} \/ ~Editable(r.values) THEN Refusal
  ELSE [row |-> OnWire(r.values, DOMAIN r.values \cap Visible)]

updateRow(table, r) ==
  IF ~Editable(r.values) \/ ~Addressable \/ At(table, r.id) = {} THEN Refusal
  ELSE [rows |-> {OnWire(Edited(table[i], r.values), Visible) : i \in At(table, r.id)}]

deleteRow(table, r) ==
  IF ~Addressable \/ At(table, r.id) = {} THEN Refusal
  ELSE [deleted |-> TRUE]

-----------------------------------------------------------------------------
Answer(table, r) ==
  CASE r.kind = "select" -> selectRows(table, r)
    [] r.kind = "peek" -> peekRow(table, r)
    [] r.kind = "insert" -> insertRow(r)
    [] r.kind = "update" -> updateRow(table, r)
    [] r.kind = "delete" -> deleteRow(table, r)

\* What the table holds after the request: inserts are left out.
After(table, r) ==
  IF r.kind \notin {"update", "delete"} \/ Answer(table, r) = Refusal THEN table
  ELSE IF r.kind = "delete" THEN [i \in DmlIds \ At(table, r.id) |-> table[i]]
  ELSE [i \in DmlIds |-> IF i \in At(table, r.id) THEN Edited(table[i], r.values) ELSE table[i]]

Names == NameSet \cup {Unknown}
ValueSets == UNION {[cs -> DmlValues] : cs \in {s \in SUBSET Names : Cardinality(s) <= 2}}

Asked ==
       [kind : {"select"}, on : {TRUE}, col : Names, val : DmlValues, sort : Names]
  \cup [kind : {"select"}, on : {FALSE}, sort : Names]
  \cup [kind : {"peek"}, col : Names, val : DmlValues]
  \cup [kind : {"insert"}, values : ValueSets]
  \cup [kind : {"update"}, id : DmlValues, values : ValueSets]
  \cup [kind : {"delete"}, id : DmlValues]

DmlInit == policy \in Policies /\ dmlRows \in Contents /\ asked = {}

DmlNext == asked = {} /\ \E r \in Asked : asked' = {r} /\ UNCHANGED <<policy, dmlRows>>

DmlSpec == DmlInit /\ [][DmlNext]_dmlVars

-----------------------------------------------------------------------------
\* What the tables and the policies are made of.
DmlTypeOK == policy \in Policies /\ dmlRows \in Contents /\ asked \subseteq Asked

\* "masked columns are never selected, never editable, never filterable, never
\* sortable, and never on the wire" (lib/masking.ts:5): an answer is the same
\* whatever the masked columns hold, and no request changes what they hold.
Blanked(table) == [i \in DOMAIN table |->
  [c \in NameSet |-> IF isMasked(c) THEN 0 ELSE table[i][c]]]

SecretsStaySecret ==
  \A r \in asked :
    /\ Answer(dmlRows, r) = Answer(Blanked(dmlRows), r)
    /\ LET after == After(dmlRows, r)
       IN \A i \in DOMAIN after, c \in NameSet : isMasked(c) => after[i][c] = dmlRows[i][c]
=============================================================================
