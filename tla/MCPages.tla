------------------------------- MODULE MCPages -------------------------------
(***************************************************************************)
(* The pages of the web UI (UiPages) in one run, with what the service makes of *)
(* a snippet of the gallery: how its templates are expanded                   *)
(* (utils/gallery-template.ts) and what the packets of a port tell of its       *)
(* devices (services/discovery.service.ts).  Both are recursive or work on      *)
(* bits, and so stand here.                                                 *)
(***************************************************************************)
EXTENDS UiPages, Snippets, TLC
LOCAL INSTANCE SequencesExt
LOCAL INSTANCE FiniteSetsExt
LOCAL INSTANCE Bitwise

CONSTANTS SeenPackets, Schemas, MaxSeen

VARIABLE seen      \* the packets that the port has seen

allVars == <<uiVars, seen>>

PagesInit == UiInit /\ seen = <<>>
UiStep    == UiNext /\ UNCHANGED seen
\* A packet for the dictionary that the gallery looks through.
SeenStep  == /\ part = "seen" /\ Len(seen) < MaxSeen
             /\ \E p \in SeenPackets : seen' = Append(seen, p)
             /\ UNCHANGED uiVars

PagesNext == UiStep \/ SeenStep
PagesSpec == PagesInit /\ [][PagesNext]_allVars

-----------------------------------------------------------------------------
(* Parameters.                                                             *)

\* coerceInteger
Coerced(v) == IF v.is \in {"integer", "numeral"} THEN Number(v.n) ELSE Throws

\* validateParameterValue: min and max concern integers only; an object gets
\* the defaults of its schema for the fields it lacks.
Validated(d, v) ==
    CASE d.type = "integer" ->
           IF Coerced(v) # Throws /\ v.n \in d.min .. d.max THEN Coerced(v) ELSE Throws
      [] d.type = "string" ->
           IF v.is \in {"word", "numeral"} THEN v
           ELSE IF v.is = "integer" THEN Numeral(v.n) ELSE Throws
      [] d.type = "integer[]" ->
           IF v.is # "list" \/ Threw({Coerced(v.of[i]) : i \in DOMAIN v.of}) THEN Throws
           ELSE List([i \in DOMAIN v.of |-> Coerced(v.of[i])])
      [] d.type = "object[]" ->
           IF v.is # "list" \/ \E i \in DOMAIN v.of : v.of[i].is # "object" THEN Throws
           ELSE List([i \in DOMAIN v.of |-> Object(v.of[i].of @@ d.defaults)])

\* resolveParameterValues: the context of the expansion.
Context(definitions, provided) ==
    LET Given(d) == IF d.name \in DOMAIN provided THEN provided[d.name] ELSE d.default
        Resolved(d) == IF Given(d) = None THEN Throws ELSE Validated(d, Given(d))
        all == {<<d.name, Resolved(d)>> : d \in ToSet(definitions)}
    IN IF Threw({a[2] : a \in all}) THEN Throws
       ELSE [name \in {a[1] : a \in all} |-> (CHOOSE a \in all : a[1] = name)[2]]

-----------------------------------------------------------------------------
(* Expressions.                                                            *)

\* evaluateExpression: what is not defined throws.
Evaluated(p, context) ==
    IF p.var = "" THEN Number(p.n)
    ELSE IF p.var \notin DOMAIN context THEN Throws
    ELSE IF p.field = "" THEN context[p.var]
    ELSE IF context[p.var].is = "object" /\ p.field \in DOMAIN context[p.var].of
         THEN context[p.var].of[p.field] ELSE Throws

\* resolveTemplateValue of a text: its expressions are replaced one by one.
Filled(parts, context) ==
    LET values == [i \in DOMAIN parts |-> Evaluated(parts[i], context)]
    IN IF Threw(ToSet(values)) THEN Throws
       ELSE [is |-> "text", of |-> [i \in DOMAIN parts |-> Coerced(values[i]).n]]

\* The truth of a $if.  A text that is one expression has the value of that
\* expression; a text with more around it stays a text, and is true.
Condition(c, context) ==
    LET v == Evaluated(c.part, context)
    IN IF v = Throws THEN Throws
       ELSE [is |-> "boolean", holds |-> ~c.whole \/ v.n >= c.least]

-----------------------------------------------------------------------------
(* Nodes.                                                                  *)

\* Variant with a fault: a count starts at 0 when no start is given.
IterationsFromZero(node, context) ==
    IF node.over # ""
    THEN IF node.over \in DOMAIN context THEN context[node.over] ELSE Throws
    ELSE LET count == Evaluated(node.count, context)
         IN IF count = Throws THEN Throws
            ELSE List([i \in 1 .. count.n |->
                         Number(IF node.start = 1 THEN i - 1 ELSE node.start + i - 1)])

\* What a $repeat goes over.
Iterations(node, context) ==
    IF node.over # ""
    THEN IF node.over \in DOMAIN context THEN context[node.over] ELSE Throws
    ELSE LET count == Evaluated(node.count, context)
         IN IF count = Throws THEN Throws
            ELSE List([i \in 1 .. count.n |-> Number(node.start + i - 1)])

ExpandedItem(node, context) ==
    LET id      == Filled(node.id, context)
        state   == Filled(node.state, context)
        command == Filled(node.command, context)
    IN IF Threw({id, state, command}) THEN Throws
       ELSE [is |-> "item", id |-> id.of,
             state |-> ("state" :> ("data" :> state.of)),
             commands |-> ("command_on" :> ("data" :> command.of))]

\* expandNode and expandRepeatBlock: an item, a list, Null for a $if that is
\* false.  A list leaves out its nodes that are Null, a $repeat keeps them.
RECURSIVE Expand(_, _)
Expand(node, context) ==
    LET Gather(results, Keep(_)) ==
            IF Threw(ToSet(results)) THEN Throws
            ELSE List(FlattenSeq([i \in DOMAIN results |->
                    IF results[i].is = "list" THEN results[i].of
                    ELSE IF Keep(results[i]) THEN <<results[i]>> ELSE <<>>]))
    IN CASE node.node = "item" -> ExpandedItem(node, context)
         [] node.node = "list" ->
              Gather([i \in DOMAIN node.of |-> Expand(node.of[i], context)],
                     LAMBDA r : r # Null)
         [] node.node = "if" ->
              LET c == Condition(node.when, context)
              IN IF c = Throws THEN Throws
                 ELSE IF c.holds THEN Expand(node.of, context) ELSE Null
         [] node.node = "repeat" ->
              LET turns == Iterations(node, context)
              IN IF turns.is # "list" THEN Throws
                 ELSE Gather([i \in DOMAIN turns.of |->
                                Expand(node.of, (node.as :> turns.of[i]) @@ context)],
                             LAMBDA r : TRUE)

\* validateGalleryEntityIds: an entry that is no object has no id.
MissingIds(items) == \E i \in DOMAIN items : items[i] = Null \/ items[i].id = <<>>

\* The items of a snippet under the given values; Throws when it is refused.
ExpandGalleryTemplate(nodes, definitions, provided) ==
    LET context == Context(definitions, provided)
        result  == IF context = Throws THEN Throws
                   ELSE Expand([node |-> "list", of |-> nodes], context)
    IN IF result = Throws THEN Throws
       ELSE IF MissingIds(result.of) THEN Throws ELSE result

-----------------------------------------------------------------------------
(* What docs/GALLERY.md says a snippet stands for: an item for every turn of   *)
(* the $repeat blocks around it in which every $if around it holds.         *)

RECURSIVE Meant(_, _)
Meant(node, context) ==
    CASE node.node = "item" -> {ExpandedItem(node, context)}
      [] node.node = "list" -> UNION {Meant(node.of[i], context) : i \in DOMAIN node.of}
      [] node.node = "if"   -> IF Evaluated(node.when.part, context).n >= node.when.least
                               THEN Meant(node.of, context) ELSE {}
      [] node.node = "repeat" ->
           LET first == node.start
               turns == IF node.over # "" THEN ToSet(context[node.over].of)
                        ELSE {Number(n) : n \in first .. first + Evaluated(node.count, context).n - 1}
           IN UNION {Meant(node.of, (node.as :> turn) @@ context) : turn \in turns}
-----------------------------------------------------------------------------
(* What the gallery finds out about the devices of a port from the packets    *)
(* seen there: services/discovery.service.ts.  A packet is a sequence of      *)
(* bytes; a condition compares bytes under a mask at an offset; a dimension   *)
(* is a masked byte of the packets that match.                              *)

\* matchesCondition: shorter packets do not match.
MatchesCondition(packet, match) ==
    /\ Len(packet) >= match.offset + Len(match.data)
    /\ \A i \in DOMAIN match.data :
          (packet[match.offset + i] & match.mask[i]) = (match.data[i] & match.mask[i])

\* matchesPacket: one condition, or any of several.
MatchesPacket(packet, conditions) == \E m \in conditions : MatchesCondition(packet, m)

\* extractDimensionValue: nothing when the packet is too short.
Bits(n) == LET f[m \in 0 .. n] == IF m = 0 THEN 0 ELSE (m % 2) + f[m \div 2] IN f[n]
Has(packet, d) == Len(packet) > d.offset
Value(packet, d) ==
    LET v == packet[d.offset + 1] & d.mask IN IF d.activeBits THEN Bits(v) ELSE v

\* The packets of the dictionary and those that match no entity are looked at as
\* one list; a packet may occur in both.
Matched(packets, conditions) == SelectSeq(packets, LAMBDA p : MatchesPacket(p, conditions))

Values(found, d) == {Value(p, d) : p \in {q \in ToSet(found) : Has(q, d)}}

\* A tuple has the dimensions its packet is long enough for.
Tuple(packet, dimensions) ==
    LET present == {d \in dimensions : Has(packet, d)}
    IN [name \in {d.parameter : d \in present} |->
            Value(packet, CHOOSE d \in present : d.parameter = name)]

\* The strategies.
Largest(found, dimensions) ==
    LET known == {d \in dimensions : Values(found, d) # {}}
    IN [name \in {d.parameter : d \in known} |->
            Max(Values(found, CHOOSE d \in known : d.parameter = name))]

Counts(found, dimensions) ==
    [name \in {d.parameter : d \in dimensions} |->
        Cardinality(Values(found, CHOOSE d \in dimensions : d.parameter = name))]

Tuples(found, dimensions) == {Tuple(p, dimensions) : p \in ToSet(found)}

\* Values of the second dimension for each value of the first.
Grouped(found, first, second) ==
    LET pairs == {<<Value(p, first), Value(p, second)>> :
                     p \in {q \in ToSet(found) : Has(q, first) /\ Has(q, second)}}
    IN [k \in {x[1] : x \in pairs} |-> Cardinality({x \in pairs : x[1] = k})]

\* evaluateDiscovery, for the strategies max, count, unique_tuples and grouped;
\* `order` is the sequence of the dimensions.
EvaluateDiscovery(schema, packets) ==
    LET found == Matched(packets, schema.matches)
        dimensions == ToSet(schema.order)
    IN IF found = <<>> THEN [matched |-> FALSE]
       ELSE [matched |-> TRUE, count |-> Len(found),
             values |->
                CASE schema.strategy = "max" -> Largest(found, dimensions)
                  [] schema.strategy = "count" -> Counts(found, dimensions)
                  [] schema.strategy = "unique_tuples" -> Tuples(found, dimensions)
                  [] schema.strategy = "grouped" ->
                       IF Cardinality(dimensions) < 2 THEN <<>>
                       ELSE Grouped(found, schema.order[1], schema.order[2])]

-----------------------------------------------------------------------------
(***************************************************************************)
(* The strategies agree about the devices behind the packets: the groups      *)
(* count each pair of values once, as the tuples that have both do; a count    *)
(* is the number of values in the tuples, and a maximum one of them.         *)
(***************************************************************************)
StrategiesAgree(schema, packets) ==
    LET By(strategy) == EvaluateDiscovery([schema EXCEPT !.strategy = strategy], packets)
        first  == schema.order[1].parameter
        second == schema.order[2].parameter
    IN By("max").matched =>
        LET tuples  == By("unique_tuples").values
            whole   == {t \in tuples : DOMAIN t = {first, second}}
            grouped == By("grouped").values
        IN /\ MapThenSumSet(LAMBDA k : grouped[k], DOMAIN grouped) = Cardinality(whole)
           /\ \A name \in {first, second} :
                LET values == {t[name] : t \in {u \in tuples : name \in DOMAIN u}}
                IN /\ By("count").values[name] = Cardinality(values)
                   /\ name \in DOMAIN By("max").values => By("max").values[name] \in values
           /\ DOMAIN grouped = {t[first] : t \in whole}

(***************************************************************************)
(* What docs/GALLERY.md says of templates: the items of a snippet are those   *)
(* of the turns of its $repeat blocks in which every $if holds, and only     *)
(* those (gallery-template.ts).  The ways of counting devices agree.        *)
(***************************************************************************)
SnippetIsMeant ==
    /\ part = "preview" /\ step = "open" /\ Preview!Expansion # Throws =>
         ToSet(Preview!Expansion.of) = Meant([node |-> "list", of |-> snippet.lights],
                                             Context(snippet.parameters, inputs))
    /\ part = "seen" => \A s \in Schemas : StrategiesAgree(s, seen)

-----------------------------------------------------------------------------
(* The gallery: lights of rooms under two $repeat blocks, one under a $if, an  *)
(* outlet under a count, an automation; two lights exist.                    *)

Light(id, s, c) == [is |-> "item", id |-> id, state |-> ("state" :> ("data" :> s)),
                    commands |-> ("command_on" :> ("data" :> c))]
Automation(id, body) == [id |-> id, body |-> body]

MCConfiguration ==
    [light |-> <<Light(<<1, 1>>, <<1, 1, 0, 0>>, <<1, 1, 1, 1>>),
                 Light(<<9>>, <<1, 1, 2, 0>>, <<1, 1, 2, 1>>)>>,
     automation |-> <<Automation(<<7>>, 0)>>]

Room(n, count) == Object([idx |-> Number(n), lights |-> Number(count)])
Rooms == [name |-> "rooms", type |-> "object[]", default |-> List(<<Room(1, 2)>>),
          min |-> 0, max |-> 0, defaults |-> [lights |-> Number(1)]]
Count == [name |-> "n", type |-> "integer", default |-> Number(1), min |-> 1, max |-> 3,
          defaults |-> <<>>]

RoomField(f) == Field("room", f)
Var(v)       == Variable(v)
Lit(n)       == Literal(n)

InEveryRoom(node) == [node |-> "repeat", over |-> "rooms", as |-> "room", of |-> node]
Counted(count, start, node) ==
    [node |-> "repeat", over |-> "", count |-> count, start |-> start, as |-> "i", of |-> node]
Item(id, state, command) == [node |-> "item", id |-> id, state |-> state, command |-> command]
RoomLight(n) == Item(<<RoomField("idx"), n>>, <<Lit(1), RoomField("idx"), n, Lit(0)>>,
                     <<Lit(1), RoomField("idx"), n, Lit(1)>>)
SecondLight(whole) ==
    [node |-> "if", when |-> [part |-> RoomField("lights"), least |-> 2, whole |-> whole],
     of |-> RoomLight(Lit(2))]

Nested ==
    [parameters |-> <<Rooms>>,
     lights |-> <<InEveryRoom(Counted(RoomField("lights"), 1, RoomLight(Var("i"))))>>,
     automation |-> <<Automation(<<7>>, 1)>>,
     requirements |-> [baud |-> [serial |-> TRUE, expected |-> [is |-> "range", min |-> 1, max |-> 2]]],
     discovered |-> <<>>]

\* `whole`: the text of the $if is one expression.
Conditional(whole) ==
    [parameters |-> <<Count, Rooms>>,
     lights |-> <<InEveryRoom([node |-> "list", of |-> <<RoomLight(Lit(1)), SecondLight(whole)>>]),
                  Counted(Var("n"), 2, Item(<<Lit(5), Var("i")>>, <<>>, <<Var("i")>>))>>,
     automation |-> <<>>, requirements |-> <<>>,
     discovered |-> [n |-> Number(2)]]

MCSnippets       == {Nested, Conditional(TRUE)}
MCPartlyTemplate == {Conditional(FALSE)}
MCTyped ==
    {None, Word, Number(2),
     List(<<Object([idx |-> Number(1)]), Room(2, 2)>>)}
MCNewIds   == {<<1, 1>>, <<8>>}
MCOtherIds == {<<9>>, <<8>>}
MCSerialSettings == [baud |-> Number(3)]

(* Packets with a room and a light in them, short ones and other ones.        *)

MCSeenPackets == {<<1, 1, 1>>, <<1, 1, 2>>, <<1, 2, 3>>, <<1, 1>>, <<2, 1, 1>>, <<17, 3, 1>>}
MCSchemas ==
    {[matches |-> {[offset |-> 0, data |-> <<1>>, mask |-> <<mask>>]}, strategy |-> "max",
      order |-> <<[parameter |-> "room", offset |-> 1, mask |-> 255, activeBits |-> FALSE],
                  [parameter |-> "light", offset |-> 2, mask |-> 3, activeBits |-> bits]>>]
        : mask \in {15, 255}, bits \in BOOLEAN}

(* The wizard: two examples that share a type; one port runs.                *)

MCExampleEntities == [e1 |-> [light |-> {1, 2}, fan |-> {3}], e2 |-> [light |-> {2, 4}]]
MCPortOf          == [e1 |-> "main", e2 |-> "main"]
MCLoadedPorts     == {[path |-> "p2", port |-> "main"]}

(* The page of an entity: two ports with the same id, an automation.          *)

MCDevices     == {<<"a", 1>>, <<"a", 2>>, <<"b", 1>>}
MCAutomations == {<<"m", 1>>, <<"m", 2>>}
MCCommanded   == {<<"a", 1>>}
MCReporting   == {<<"b", 1>>, <<"a", 2>>}
=============================================================================
