---------------------------- MODULE TeachingNode ----------------------------
(***************************************************************************)
(* An interactive node as its seed file has it (pkg/dua): a grid of        *)
(* buttons by one of five schemas, a tree of subtopics, buttons of its own *)
(* and the media all of these show.  When it may be registered, what the   *)
(* page offers of it, what a touch of an offer teaches, and how far a      *)
(* student is through the tree.                                            *)
(*                                                                         *)
(* Ids are values; labels, addresses and texts are there or not: an option *)
(* or a button is "complete" if it has what its kind requires.  A delta or *)
(* a vector is a sequence of numbers, <<>> if there is none.               *)
(***************************************************************************)
EXTENDS Integers, FiniteSets, SequencesExt

CONSTANTS
    Places,             \* places in a tree, numbered from the top down
    Express, Core       \* ids of the two depths a depth schema must have

ASSUME TeachingNodeConstants ==
    IsFiniteSet(Places) /\ Places = 1..Cardinality(Places)

NoSchema == [kind |-> "none", options |-> <<>>]
NoTree == [roots |-> <<>>]

-----------------------------------------------------------------------------
(* The grid of buttons: [kind, options, depths, formats, cells]; the flat   *)
(* buttons are the options of a flat schema.                                *)

PreferenceKind == {"depth", "cognitive", "emergency"}

OptionIds(schema) == {schema.options[i].id : i \in DOMAIN schema.options}

OptionsAreComplete(schema) == \A i \in DOMAIN schema.options : schema.options[i].complete

\* CombinedCell.Validate: a cell lies on the axes, which need not be filled.
CellsAreOnAxes(schema) ==
    \A c \in ToSet(schema.cells) :
      /\ c.complete /\ c.format # ""
      /\ c.depth \in schema.depths /\ c.format \in schema.formats

\* DUANodeBotonera.Validate; ids may be repeated.
IsValidSchema(schema) ==
    CASE schema.kind \in {"flat", "cognitive", "emergency"} ->
           schema.options # <<>> /\ OptionsAreComplete(schema)
      [] schema.kind = "depth" ->
           /\ Len(schema.options) >= 2 /\ OptionsAreComplete(schema)
           /\ OptionIds(schema) \cap Express # {} /\ OptionIds(schema) \cap Core # {}
      [] schema.kind = "combined" ->
           /\ schema.depths # {} /\ schema.formats # {} /\ schema.cells # <<>>
           /\ CellsAreOnAxes(schema)
      [] OTHER -> FALSE

ResolvesCombined(schema, d, f) == \E c \in ToSet(schema.cells) : c.depth = d /\ c.format = f

HasSchemaVariant(schema, v, f) ==
    \/ schema.kind \in PreferenceKind \cup {"flat"} /\ v \in OptionIds(schema)
    \/ schema.kind = "combined" /\ f # "" /\ ResolvesCombined(schema, v, f)

\* HasBotoneraVariant: in the schema, or a button of the node's own.
HasVariant(node, v, f) ==
    HasSchemaVariant(node.schema, v, f) \/ \E b \in ToSet(node.own) : b.id = v

\* ResolveBotoneraDelta: the client's, else the first option's of that id; a
\* flat button has none of the student's space.
BotoneraDelta(node, v, client) ==
    LET options == node.schema.options
        first == {i \in DOMAIN options : /\ options[i].id = v
                                         /\ \A j \in 1..(i - 1) : options[j].id # v} IN
    IF client # <<>> THEN client
    ELSE IF node.schema.kind \in PreferenceKind /\ first # {}
           THEN options[CHOOSE i \in first : TRUE].delta ELSE <<>>

\* The buttons whose delta is of the content space, and not of the student's.
ContentButtons(node) ==
    ToSet(node.own) \cup IF node.schema.kind = "flat" THEN ToSet(node.schema.options) ELSE {}

-----------------------------------------------------------------------------
(* What the page is sent.                                                   *)

\* schemaKindToProto: a kind that it does not know becomes flat.
KindToProto(kind) == IF kind \in PreferenceKind \cup {"combined"} THEN kind ELSE "flat"

\* botoneraSchemaToProto: of a cell goes what the page finds it by, and no delta.
SchemaToProto(schema) ==
    [kind |-> KindToProto(schema.kind), options |-> schema.options,
     depths |-> schema.depths, formats |-> schema.formats, cells |-> schema.cells]

ToProto(node) ==
    [schema |-> IF node.schema = NoSchema THEN NoSchema ELSE SchemaToProto(node.schema),
     tree |-> node.tree, own |-> node.own]

-----------------------------------------------------------------------------
(* What the page offers, and sends when it is touched: the delta it was     *)
(* told of an option, the vector of a flat button.                          *)

Offer(v, f, client) == [variant |-> v, format |-> f, client |-> client]

ShownButtons(buttons) ==
    {Offer(b.id, "", b.delta) : b \in {c \in ToSet(buttons) : ~ c.asks}}

\* renderSchemaTabs, renderCombinedMatrix or renderLegacyButtons.
SchemaOffers(schema) ==
    IF schema.kind = "combined"
      THEN {Offer(p[1], p[2], <<>>) : p \in {q \in schema.depths \X schema.formats :
                                               ResolvesCombined(schema, q[1], q[2])}}
    ELSE IF schema.kind \in PreferenceKind
      THEN {Offer(o.id, "", o.delta) : o \in ToSet(schema.options)}
    ELSE ShownButtons(schema.options)

\* renderRail, of the node that was sent.
Offers(node) ==
    LET shown == ToProto(node)
    IN SchemaOffers(shown.schema) \cup ShownButtons(shown.own)

-----------------------------------------------------------------------------
(* The tree of subtopics: [roots, kids, id, media].                         *)

\* What a file may hold: subtopics within subtopics, to some depth.
IsTree(tree) ==
    /\ tree.roots \in Seq(Places)
    /\ tree.kids \in [Places -> Seq(Places)]
    /\ \A p \in Places : \A kid \in ToSet(tree.kids[p]) : p < kid

\* The places of a tree in pre-order, from p down.
Below(tree, p) ==
    LET below[q \in Places] ==
          <<q>> \o FlattenSeq([i \in DOMAIN tree.kids[q] |-> below[tree.kids[q][i]]])
    IN below[p]

PreOrder(tree) == FlattenSeq([i \in DOMAIN tree.roots |-> Below(tree, tree.roots[i])])

Level(tree, p) ==
    LET order == PreOrder(tree)
    IN Cardinality({i \in DOMAIN order : p \in ToSet(Below(tree, order[i]))})

DefaultMaxHierarchyDepth == 3

\* Mutant of IdsAreUnique: only the subtopics of one parent are compared.
IdsAreUniqueAmongSiblings(tree) ==
    \A p \in Places : \A i, j \in DOMAIN tree.kids[p] :
      tree.id[tree.kids[p][i]] = tree.id[tree.kids[p][j]] => i = j

IdsAreUnique(tree) ==
    LET order == PreOrder(tree)
    IN \A i, j \in DOMAIN order : tree.id[order[i]] = tree.id[order[j]] => i = j

\* DUAHierarchicalTree.Validate.
IsValidTree(tree) ==
    /\ tree.roots # <<>>
    /\ \A p \in ToSet(PreOrder(tree)) :
         /\ Level(tree, p) <= DefaultMaxHierarchyDepth
         /\ p \in tree.media \/ tree.kids[p] # <<>>
    /\ IdsAreUnique(tree)

\* FindByID.
Finds(tree, id) == \E p \in ToSet(PreOrder(tree)) : tree.id[p] = id

ProgressState(count) ==
    CASE count.total > 0 /\ count.opened = count.total -> "visited"
      [] count.opened # count.total /\ count.opened > 0 -> "partial"
      [] OTHER -> "unvisited"

Added(c, d) == [total |-> c.total + d.total, opened |-> c.opened + d.opened]

\* A subtopic alone.
Own(tree, ids, p) == [total |-> 1, opened |-> IF tree.id[p] \in ids THEN 1 ELSE 0]

\* progressInSubtree.
Progress(tree, ids, p) ==
    LET count[q \in Places] ==
          FoldLeft(Added, Own(tree, ids, q),
                   [i \in DOMAIN tree.kids[q] |-> count[tree.kids[q][i]]])
    IN count[p]

\* markSubtopicOpened, on the page: what it shows for place q once the student
\* opened that of p, from the progress it was told.  It asks again only when
\* the node is loaded again.
Reflected(tree, ids, p, q) ==
    LET told == Progress(tree, ids, q)
    IN IF tree.id[p] \in ids \/ p \notin ToSet(Below(tree, q)) THEN ProgressState(told)
       ELSE IF told.opened + 1 >= told.total THEN "visited" ELSE "partial"

-----------------------------------------------------------------------------
(* Whether it may be registered.  A medium is [of, format, url, told,       *)
(* described]: the part that shows it, a "clip", another address or "none", *)
(* a transcript or captions, and a text for it.                             *)

\* needsAVAccessibility.
NeedsAlternative(m) ==
    CASE m.format \in {"video", "audio_debate", "diagram"} -> m.url # "none"
      [] m.format \in {"text_hint", "live_code", "interactive_canvas"} -> FALSE
      [] OTHER -> m.url = "clip"

\* collectMediaGap.
IsGap(m) == NeedsAlternative(m) /\ ~ (m.described /\ (m.format = "diagram" \/ m.told))

\* AccessibilityReport: buttons and the medium above a tree are not looked at.
ReportedParts == {"stage", "option", "cell", "subtopic"}

HasGaps(node) == \E m \in node.media : m.of \in ReportedParts /\ IsGap(m)

ButtonsAreValid(buttons) ==
    /\ \A i \in DOMAIN buttons : buttons[i].complete
    /\ \A i, j \in DOMAIN buttons : buttons[i].id = buttons[j].id => i = j

\* InteractiveVideoNode.Validate.
IsValid(node) ==
    /\ node.named
    /\ node.schema # NoSchema => IsValidSchema(node.schema)
    /\ node.tree # NoTree => IsValidTree(node.tree)
    /\ node.own # <<>> \/ node.schema # NoSchema \/ node.tree # NoTree
    /\ ButtonsAreValid(node.own)

\* Registry.Put, with AVLP_REQUIRE_MEDIA_A11Y or without it.
MayBePut(node, a11y) == IsValid(node) /\ ~ (a11y /\ HasGaps(node))

=============================================================================
