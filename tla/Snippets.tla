------------------------------ MODULE Snippets ------------------------------
(***************************************************************************)
(* The items of a snippet and the lists of a configuration: how they are     *)
(* written into them (the route /api/gallery/apply), and which existing       *)
(* entity an entity of a snippet stands for (utils/gallery-matching.ts).      *)
(* An item has an id; a list is a sequence of items.  Values are those of the *)
(* parameters and the templates of a snippet, tagged with what they are.      *)
(***************************************************************************)
EXTENDS Integers, Sequences, FiniteSets
LOCAL INSTANCE SequencesExt
LOCAL INSTANCE FiniteSetsExt
LOCAL INSTANCE Functions

Ids(list)         == {list[i].id : i \in DOMAIN list}
PlaceOf(list, id) == CHOOSE i \in DOMAIN list : list[i].id = id /\ \A j \in 1 .. i - 1 : list[j].id # id

\* An item under another id.
Under(item, id) == [item EXCEPT !.id = id]

\* One item of a snippet: `chosen` is the id the user chose for it, or <<>>.
\* AppendNew looks for the id it gives, but only when it is a chosen one.
AppendNew(list, item, chosen) ==
    IF chosen = <<>> THEN Append(list, item)
    ELSE IF chosen \in Ids(list) THEN list ELSE Append(list, Under(item, chosen))

\* Automations and scripts: written over the one of their id unless told else.
AppliedItem(list, item, resolution, chosen) ==
    IF item.id \notin Ids(list) THEN AppendNew(list, item, chosen)
    ELSE CASE resolution = "skip" -> list
           [] resolution = "rename" -> IF chosen = <<>> THEN list ELSE AppendNew(list, item, chosen)
           [] resolution = "overwrite" -> [list EXCEPT ![PlaceOf(list, item.id)] = item]

\* Variant with a fault: an entity written over the chosen one keeps its own id.
AppliedUnderOwnId(list, item, resolution, chosen) ==
    CASE resolution = "skip" -> list
      [] /\ resolution = "overwrite" /\ item.id \notin Ids(list) /\ chosen \in Ids(list) ->
            [list EXCEPT ![PlaceOf(list, chosen)] = item]
      [] OTHER -> AppliedItem(list, item, resolution, chosen)

\* Entities: skipped even when new, and may be written over the chosen one.
AppliedEntity(list, item, resolution, chosen) ==
    CASE resolution = "skip" -> list
      [] /\ resolution = "overwrite" /\ item.id \notin Ids(list) /\ chosen \in Ids(list) ->
            [list EXCEPT ![PlaceOf(list, chosen)] = Under(item, chosen)]
      [] OTHER -> AppliedItem(list, item, resolution, chosen)

-----------------------------------------------------------------------------
(* Values.  A part of a text is a number or names a variable and, when that is  *)
(* an object, one of its fields.                                            *)

None       == [is |-> "none"]
Throws     == [is |-> "throws"]
Null       == [is |-> "null"]
Number(n)  == [is |-> "integer", n |-> n]
Numeral(n) == [is |-> "numeral", n |-> n]          \* a text that reads as a number
Word       == [is |-> "word"]
List(s)    == [is |-> "list", of |-> s]
Object(f)  == [is |-> "object", of |-> f]

Threw(S) == \E v \in S : v = Throws

Literal(n)      == [var |-> "", field |-> "", n |-> n]
Variable(v)     == [var |-> v, field |-> "", n |-> 0]
Field(v, field) == [var |-> v, field |-> field, n |-> 0]

-----------------------------------------------------------------------------
(* Signatures.  A schema is a function from its fields to sequences of bytes, *)
(* a signature the schemas of the states and of the commands.  Similarities   *)
(* are parts of Whole, of which the lengths and numbers of fields that occur  *)
(* are divisors.                                                           *)

Whole == 720
High  == 576                                      \* 80 %

\* calculateValueSimilarity of two arrays: the places where they agree.
ValueSimilarity(a, b) ==
    LET longest  == Max({Len(a), Len(b)})
        shortest == Min({Len(a), Len(b)})
    IN IF longest = 0 THEN Whole
       ELSE (Cardinality({i \in 1 .. shortest : a[i] = b[i]}) * Whole) \div longest

\* ... and of two objects: the average over the fields of either; a field only
\* one of them has counts 0.
ObjectSimilarity(a, b, Similarity(_, _)) ==
    LET fields == DOMAIN a \cup DOMAIN b
        parts  == [f \in fields |-> IF f \in DOMAIN a \cap DOMAIN b
                                    THEN Similarity(a[f], b[f]) ELSE 0]
    IN IF fields = {} THEN Whole
       ELSE FoldFunction(+, 0, parts) \div Cardinality(fields)

SchemaSimilarity(a, b) == ObjectSimilarity(a, b, ValueSimilarity)

\* calculateSignatureSimilarity: states and commands count one half each.
SignatureSimilarity(a, b) ==
    (ObjectSimilarity(a.state, b.state, SchemaSimilarity)
       + ObjectSimilarity(a.commands, b.commands, SchemaSimilarity)) \div 2

\* buildEntitySignatureObject: nothing to compare.
Unsigned(e) == DOMAIN e.state = {} /\ DOMAIN e.commands = {}

\* findAllSignatureMatches with the threshold 0: the most similar first.
Ranked(known, sim) ==
    LET order == SetToSortSeq(DOMAIN known,
                    LAMBDA i, j : sim[i] > sim[j] \/ (sim[i] = sim[j] /\ i < j))
    IN [k \in DOMAIN known |-> [id |-> known[order[k]].id, similarity |-> sim[order[k]]]]

Compared(entity, known) ==
    Ranked(known, [i \in DOMAIN known |-> SignatureSimilarity(entity, known[i])])

Candidates(entity, list) ==
    IF Unsigned(entity) THEN <<>> ELSE Compared(entity, SelectSeq(list, LAMBDA e : ~Unsigned(e)))
=============================================================================
