----------------------------- MODULE TypeFields -----------------------------
(***************************************************************************)
(* typeFields and dominantField of json/encode.go: which struct fields,    *)
(* of the struct and of the structs embedded in it, are members of its     *)
(* JSON object, for Marshal and for Unmarshal alike.  The code searches    *)
(* the embedded structs breadth first, each type once, counts how often a  *)
(* type is queued on a level, and then removes the fields hidden by the    *)
(* embedding rules.                                                        *)
(*                                                                         *)
(* A struct type is the sequence of its fields.  A field has a Go name, a  *)
(* JSON tag ("" for none, "-" for an ignored field), the type it embeds    *)
(* ("" if it is not anonymous, Basic if that is no struct), and whether it *)
(* is exported.  A pointer to an embedded struct is followed like the      *)
(* struct.                                                                 *)
(***************************************************************************)
EXTENDS Integers, Sequences, FiniteSets
LOCAL INSTANCE SequencesExt

CONSTANTS
    Types,      \* struct types
    Root,       \* the type that typeFields is called with
    Programs    \* the type declarations to look at: functions on Types

VARIABLES
    decl,       \* the declarations
    current, next, count, nextCount, visited, fields,
    pc          \* "idle", "loop", "level" or "done"

fieldVars == <<decl, current, next, count, nextCount, visited, fields, pc>>

SF(name, tag, embeds, exported) ==
    [name |-> name, tag |-> tag, embeds |-> embeds, exported |-> exported]
Entry(index, typ) == [index |-> index, typ |-> typ]
Found(name, tagged, index) == [name |-> name, tag |-> tagged, index |-> index]

Basic == "basic"
Anonymous(sf) == sf.embeds # ""

NoCount == [t \in Types |-> 0]

(* Unexported fields are ignored unless embedded; so is the tag "-".       *)
Ignored(sf) == (~sf.exported /\ ~Anonymous(sf)) \/ sf.tag = "-"
(* An embedded struct without a name of its own is explored, any other     *)
(* field is recorded.                                                      *)
Explored(sf) == ~Ignored(sf) /\ Anonymous(sf) /\ sf.embeds # Basic /\ sf.tag = ""
JsonName(sf) == IF sf.tag # "" THEN sf.tag ELSE sf.name

FieldsInit ==
    /\ decl \in Programs
    /\ current = <<>>
    /\ next = <<Entry(<<>>, Root)>>
    /\ count = NoCount /\ nextCount = NoCount
    /\ visited = {} /\ fields = <<>> /\ pc = "loop"

(* No call of typeFields is under way.                                     *)
NotCalled ==
    /\ decl = <<>> /\ current = <<>> /\ next = <<>>
    /\ count = NoCount /\ nextCount = NoCount
    /\ visited = {} /\ fields = <<>> /\ pc = "idle"

(* for len(next) > 0 { current, next = next, current[:0] ...               *)
NextLevel ==
    /\ pc = "loop" /\ next # <<>>
    /\ current' = next /\ next' = <<>>
    /\ count' = nextCount /\ nextCount' = NoCount
    /\ pc' = "level"
    /\ UNCHANGED <<decl, visited, fields>>

EndLevel ==
    /\ pc = "level" /\ current = <<>>
    /\ pc' = "loop"
    /\ UNCHANGED <<decl, current, next, count, nextCount, visited, fields>>

(* The field i of f.typ as it is recorded: twice when the type is there    *)
(* more than once on this level.                                           *)
Record(f, i, n) ==
    LET sf == decl[f.typ][i]
        fd == <<Found(JsonName(sf), sf.tag # "", Append(f.index, i))>>
    IN  IF n > 1 THEN fd \o fd ELSE fd

(* The scan of the fields of f.typ, in order.                              *)
RECURSIVE Recorded(_, _, _)
Recorded(f, i, n) ==
    IF i > Len(decl[f.typ]) THEN <<>>
    ELSE (IF Ignored(decl[f.typ][i]) \/ Explored(decl[f.typ][i]) THEN <<>> ELSE Record(f, i, n))
         \o Recorded(f, i + 1, n)

Embeds(f) == {i \in DOMAIN decl[f.typ] : Explored(decl[f.typ][i])}
Times(f, t) == Cardinality({i \in Embeds(f) : decl[f.typ][i].embeds = t})
(* nextCount[ft]++; a type is queued when it is met first on the level.    *)
Queued(f) ==
    LET new == {i \in Embeds(f) :
                   /\ nextCount[decl[f.typ][i].embeds] = 0
                   /\ \A j \in Embeds(f) : j < i => decl[f.typ][j].embeds # decl[f.typ][i].embeds}
        order == SetToSortSeq(new, <)
    IN  [k \in DOMAIN order |-> Entry(Append(f.index, order[k]), decl[f.typ][order[k]].embeds)]

(* for _, f := range current { ... }                                       *)
Visit ==
    /\ pc = "level" /\ current # <<>>
    /\ current' = Tail(current)
    /\ LET f == Head(current) IN
       \/ f.typ \in visited /\ UNCHANGED <<visited, fields, next, nextCount>>
       \/ /\ f.typ \notin visited
          /\ visited' = visited \cup {f.typ}
          /\ fields' = fields \o Recorded(f, 1, count[f.typ])
          /\ next' = next \o Queued(f)
          /\ nextCount' = [t \in Types |-> nextCount[t] + Times(f, t)]
    /\ UNCHANGED <<decl, count, pc>>

-----------------------------------------------------------------------------
(* Sorting and the removal of hidden fields.                               *)

ByIndex(x, y) ==
    \/ \E k \in DOMAIN x.index :
         /\ k <= Len(y.index) /\ x.index[k] < y.index[k]
         /\ \A j \in 1 .. k - 1 : x.index[j] = y.index[j]
    \/ /\ Len(x.index) < Len(y.index)
       /\ \A j \in DOMAIN x.index : x.index[j] = y.index[j]

(* byName, within the fields of one name.                                  *)
Less(x, y) ==
    IF Len(x.index) # Len(y.index) THEN Len(x.index) < Len(y.index)
    ELSE IF x.tag # y.tag THEN x.tag
    ELSE ByIndex(x, y)

DominantTagAnywhere(fs) ==
    LET tagged == SelectSeq(fs, LAMBDA f : f.tag)
        level == SelectSeq(fs, LAMBDA f : Len(f.index) = Len(fs[1].index))
    IN  IF Len(tagged) = 1 THEN tagged
        ELSE IF tagged # <<>> \/ Len(level) > 1 THEN <<>> ELSE level

(* dominantField: the result, as a sequence of at most one field.          *)
DominantField(fs) ==
    LET level == SelectSeq(fs, LAMBDA f : Len(f.index) = Len(fs[1].index))
        tagged == SelectSeq(level, LAMBDA f : f.tag)
    IN  IF tagged # <<>> THEN (IF Len(tagged) > 1 THEN <<>> ELSE tagged)
        ELSE IF Len(level) > 1 THEN <<>> ELSE level

OutFor(name) ==
    LET fs == SortSeq(SelectSeq(fields, LAMBDA f : f.name = name), Less)
    IN  IF Len(fs) = 1 THEN fs ELSE DominantField(fs)

FoundNames == {fields[i].name : i \in DOMAIN fields}

FieldsOut ==
    /\ pc = "loop" /\ next = <<>>
    /\ fields' = SortSeq(FlattenSeq(SetToSeq({OutFor(n) : n \in FoundNames})), ByIndex)
    /\ pc' = "done"
    /\ UNCHANGED <<decl, current, next, count, nextCount, visited>>

(* The call has returned.                                                  *)
FieldsReturned ==
    /\ decl' = <<>> /\ current' = <<>> /\ next' = <<>>
    /\ count' = NoCount /\ nextCount' = NoCount
    /\ visited' = {} /\ fields' = <<>> /\ pc' = "idle"

FieldsNext == NextLevel \/ EndLevel \/ Visit \/ FieldsOut

-----------------------------------------------------------------------------
(* What the comment on Marshal promises (json/encode.go:96-113), read off  *)
(* the declarations: all the fields that can be reached through embedded   *)
(* structs, however often a type is met.  A path that meets a type twice   *)
(* is longer than the one that does not, so paths stop there.              *)

RECURSIVE Reached(_, _, _)
Reached(t, index, seen) ==
    {Found(JsonName(decl[t][i]), decl[t][i].tag # "", Append(index, i)) :
        i \in {j \in DOMAIN decl[t] : ~Ignored(decl[t][j]) /\ ~Explored(decl[t][j])}}
    \cup UNION {Reached(decl[t][i].embeds, Append(index, i), seen \cup {t}) :
        i \in {j \in DOMAIN decl[t] : Explored(decl[t][j]) /\ decl[t][j].embeds \notin seen \cup {t}}}

AllFields == Reached(Root, <<>>, {})

Shallowest(name) ==
    {f \in AllFields : f.name = name
        /\ \A g \in AllFields : g.name = name => Len(f.index) <= Len(g.index)}
Considered(name) ==
    LET tagged == {f \in Shallowest(name) : f.tag}
    IN  IF tagged # {} THEN tagged ELSE Shallowest(name)
(* The fields selected by the rules 1) to 3) of the comment.               *)
Selected ==
    {f \in AllFields : Considered(f.name) = {f}}

Out == {fields[i] : i \in DOMAIN fields}

(* The paths from the root to an embedded struct type.                     *)
RECURSIVE PathsTo(_, _)
PathsTo(t, k) ==
    IF k = 0 THEN (IF t = Root THEN {<<>>} ELSE {})
    ELSE UNION {{Append(p, i) : p \in PathsTo(u, k - 1), i \in {j \in DOMAIN decl[u] :
                     Explored(decl[u][j]) /\ decl[u][j].embeds = t}} : u \in Types}
(* The struct type at the first k steps of a path is met there repeatedly. *)
RepeatedAt(index, k) ==
    \E t \in Types : SubSeq(index, 1, k) \in PathsTo(t, k) /\ Cardinality(PathsTo(t, k)) > 1

(* The breadth-first search, which looks at every type once, finds every   *)
(* field that the rules select among all paths, and whatever it selects is *)
(* at the least nested level that has the name.  It selects a field        *)
(* against rule 3), which the count of typeFields is there for, only when  *)
(* its struct is itself embedded in one that is met repeatedly.            *)
RulesFollowed ==
    pc = "done" => /\ Selected \subseteq Out
                   /\ \A f \in Out : f \in Considered(f.name)
                   /\ \A f \in Out \ Selected :
                         \E k \in 1 .. Len(f.index) - 2 : RepeatedAt(f.index, k)
=============================================================================
