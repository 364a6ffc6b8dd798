------------------------------- MODULE Answers -------------------------------
(***************************************************************************)
(* What JSON schemas do to a document's data: the schema the caller sends, *)
(* the ones cut from it for the chunks and the summary, the strict form of *)
(* each that constrains the model, the validation of its answers, the      *)
(* object put together from them and the values rewritten at the end.      *)
(*                                                                         *)
(* A schema is a table of nodes: a node says what its keywords say, and    *)
(* names the nodes below it by their place in the table, before its own;   *)
(* the last node is the schema's root.  A value is a record of its type    *)
(* and content.  Strings and numbers are atoms; "raw" is one that a hint   *)
(* rewrites, to "clean".  jsonschema and json_repair are external, and how *)
(* often an answer is asked for is ChunkedParse's.                         *)
(***************************************************************************)
EXTENDS Integers, Sequences, FiniteSets

CONSTANTS
    Schemas,    \* the schemas a caller may send
    Values,     \* the values a model may answer with
    Names,      \* the names of properties
    Atoms,      \* strings, numbers and truth values, "raw" and "clean" among them
    Depth       \* how deep the values are nested

-------------------------------------------------------------------------------
(* Values and schemas.                                                      *)

Null == [t |-> "null", atom |-> "null", fields |-> <<>>, items |-> <<>>]

Leaves == {Null} \union [t : {"string", "number", "boolean"}, atom : Atoms,
                         fields : {<<>>}, items : {<<>>}]

Arrays(J) == [t : {"array"}, atom : {"none"}, fields : {<<>>}, items : Seq(J)]

\* What an object holds for a name that it does not have.
Absent == [Null EXCEPT !.t = "absent"]

Objects(J) == [t : {"object"}, atom : {"none"},
               fields : [Names -> J \union {Absent}], items : {<<>>}]

\* The values nested at most d deep.
Nested[d \in 0..Depth] ==
    IF d = 0 THEN Leaves ELSE Leaves \union Arrays(Nested[d - 1]) \union Objects(Nested[d - 1])

Json == Nested[Depth]

\* The names that object v has.
Has(v) == {name \in Names : v.fields[name] # Absent}

Types == {"null", "string", "number", "boolean", "array", "object"}

\* list: the type is given as a list of names; hasProps: there are properties;
\* props, items: the nodes for the properties and the elements, 0 for none;
\* kw: the combinator of the alternatives.
Nodes == [types : SUBSET Types, list : BOOLEAN, hasProps : BOOLEAN,
          props : [Names -> Nat], required : SUBSET Names,
          closed : BOOLEAN, items : Nat, kw : {"none", "anyOf", "oneOf", "allOf"},
          alts : Seq(Nat), enum : SUBSET Atoms, hint : BOOLEAN]

\* No keyword at all.
Anything == [types |-> {}, list |-> FALSE, hasProps |-> FALSE,
             props |-> [name \in Names |-> 0], required |-> {}, closed |-> FALSE, items |-> 0,
             kw |-> "none", alts |-> <<>>, enum |-> {}, hint |-> FALSE]

\* The properties that node s declares.
Declared(s) == {name \in Names : s.props[name] # 0}

\* The nodes that node s names come before the n-th.
Before(s, n) ==
    /\ \A name \in Names : s.props[name] \in 0..n - 1
    /\ s.items \in 0..n - 1
    /\ \A i \in 1..Len(s.alts) : s.alts[i] \in 1..n - 1

IsTable(table) ==
    /\ table \in Seq(Nodes) /\ table # <<>>
    /\ \A n \in 1..Len(table) :
          /\ Before(table[n], n)
          /\ ~table[n].hasProps => Declared(table[n]) = {}

\* An object with rows is two deep.
ASSUME DepthAssumption == Depth \in Nat \ {0, 1}
ASSUME AtomsAssumption == {"raw", "clean"} \subseteq Atoms
ASSUME SchemasAssumption == \A table \in Schemas : IsTable(table)
ASSUME ValuesAssumption == Values \subseteq Json

\* The type, given as a name.
IsType(s, name) == ~s.list /\ s.types = {name}

VARIABLES
    schema,     \* the caller's schema
    long,       \* the document has a table of chunk_row_threshold rows
    pc,
    accepted,   \* the answers accepted so far, one per completion; Null: given up
    last,       \* the answer that came last
    rejected,   \* it was rejected
    data        \* ParsedDocument.data

vars == <<schema, long, pc, accepted, last, rejected, data>>

-------------------------------------------------------------------------------
(* The strict form of a schema.                                             *)

\* A node as the caller gave it, as the model is given it, without or with
\* null, and as the properties below take it, without or with null.
Views == {"given", "strict", "strictOrNull", "relaxed", "relaxedOrNull"}

\* _with_null()
WithNull(s, view) ==
    IF view \in {"strictOrNull", "relaxedOrNull"} /\ s.types # {}
    THEN [s EXCEPT !.types = @ \union {"null"}] ELSE s

\* Faulty: properties that may be null need not be there.
StrictUnrequired(s, view) ==
    CASE s.hasProps ->
             [WithNull([s EXCEPT !.types = {"object"}], view) EXCEPT
                !.closed = TRUE, !.required = {}]
      [] ~s.hasProps /\ IsType(s, "object") -> s
      [] OTHER -> WithNull(s, view)

\* What normalize_for_model() does to a node: objects are closed and their
\* properties all required; what the node says besides its type stays.
Strict(s, view) ==
    CASE s.hasProps ->
             [WithNull([s EXCEPT !.types = {"object"}], view) EXCEPT
                !.closed = TRUE, !.required = Declared(s)]
      [] ~s.hasProps /\ IsType(s, "object") -> s
      [] OTHER -> WithNull(s, view)

\* Where it goes on from a node.
Reached(s) ==
    CASE s.hasProps -> "props"
      [] ~s.hasProps /\ IsType(s, "object") -> "nothing"
      [] ~s.hasProps /\ IsType(s, "array") -> "items"
      [] OTHER -> "alts"

\* A node that asks for no more than an object that may keep to the strict
\* form: its properties may be null, several alternatives of a oneOf may hold,
\* and what it requires without declaring it need not be there, nor need the
\* type that it names besides its properties be the value's.
Relaxed(s, view) ==
    [WithNull(s, view) EXCEPT
        !.types = IF s.hasProps /\ s.types # {} THEN @ \union {"object"} ELSE @,
        !.required = IF s.hasProps THEN @ \intersect Declared(s) ELSE @,
        !.kw = IF @ = "oneOf" THEN "anyOf" ELSE @]

Seen(s, view) ==
    CASE view = "given" -> s
      [] view \in {"strict", "strictOrNull"} -> Strict(s, view)
      [] view \in {"relaxed", "relaxedOrNull"} -> Relaxed(s, view)

\* How the nodes below s are seen: the properties, the items or the
\* alternatives, whichever part it is.
Below(s, view, part) ==
    CASE view = "given" -> "given"
      [] view \in {"strict", "strictOrNull"} ->
             IF part # Reached(s) THEN "given"
             ELSE IF part = "props" THEN "strictOrNull" ELSE "strict"
      [] view \in {"relaxed", "relaxedOrNull"} ->
             IF part = "props" THEN "relaxedOrNull" ELSE "relaxed"

\* Draft202012Validator, for the keywords above: v is valid against node s
\* in this view, if valid[n][w] are the values valid against the n-th node in
\* view w.
Admits(s, view, valid, v) ==
    LET node == Seen(s, view)
        fits(w, n, part) == w \in valid[n][Below(s, view, part)]
        fitting == {i \in 1..Len(node.alts) : fits(v, node.alts[i], "alts")}
    IN  /\ node.types = {} \/ v.t \in node.types
        /\ node.enum = {} \/ v.atom \in node.enum
        /\ v.t = "object" =>
              /\ node.required \subseteq Has(v)
              /\ node.closed => Has(v) \subseteq Declared(node)
              /\ \A name \in Has(v) \intersect Declared(node) :
                    fits(v.fields[name], node.props[name], "props")
        /\ v.t = "array" /\ node.items # 0 =>
              \A i \in 1..Len(v.items) : fits(v.items[i], node.items, "items")
        /\ node.kw = "anyOf" => fitting # {}
        /\ node.kw = "oneOf" => \E i \in fitting : fitting = {i}
        /\ node.kw = "allOf" => fitting = 1..Len(node.alts)

\* The values valid against each node of a table, in each view.
Admitted(table) ==
    LET valid[n \in 1..Len(table)] ==
            [view \in Views |-> {v \in Json : Admits(table[n], view, valid, v)}]
    IN  valid

-------------------------------------------------------------------------------
(* The schemas of a request.                                                *)

Root == Len(schema)
Props == schema[Root].props

\* locate_row_array(): the properties that are arrays of objects.
RowArrays ==
    {name \in Declared(schema[Root]) :
        /\ IsType(schema[Props[name]], "array") /\ schema[Props[name]].items # 0
        /\ LET item == schema[schema[Props[name]].items]
           IN  IsType(item, "object") \/ item.hasProps}

Chunked == long /\ \E name \in RowArrays : RowArrays = {name}

RowArray == CHOOSE name \in RowArrays : TRUE

Closed(props) ==
    [Anything EXCEPT !.types = {"object"}, !.hasProps = TRUE, !.props = props,
                !.required = {name \in Names : props[name] # 0}, !.closed = TRUE]

\* Faulty: rows may be anything.
RowsUntyped == [Anything EXCEPT !.types = {"array"}]

\* The chunks' schema: the row array as its type and items, nothing else ...
Rows == [Anything EXCEPT !.types = {"array"}, !.items = schema[Props[RowArray]].items]
ChunkSchema == Closed([name \in Names |-> IF name = RowArray THEN Root + 1 ELSE 0])

\* ... and the summary's: the other properties, all of them required.
Others == Declared(schema[Root]) \ {RowArray}
SummarySchema == Closed([Props EXCEPT ![RowArray] = 0])

\* The caller's schema, with those cut from it.
Table == IF Chunked THEN schema \o <<Rows, ChunkSchema, SummarySchema>> ELSE schema

\* The root of the schema of each completion: two chunks stand for any number.
Parts ==
    CASE ~Chunked                 -> <<Root>>
      [] Chunked /\ Others = {}   -> <<Root + 2, Root + 2>>
      [] Chunked /\ Others # {}   -> <<Root + 2, Root + 2, Root + 3>>

Part == Parts[Len(accepted) + 1]

IsValid(v, n) == v \in Admitted(Table)[n]["given"]

-------------------------------------------------------------------------------
(* Answers.                                                                 *)

Init ==
    /\ schema \in Schemas /\ long \in BOOLEAN
    /\ pc = "ask"
    /\ accepted = <<>> /\ last = Null /\ rejected = FALSE
    /\ data = Null

Asking == pc = "ask" /\ Len(accepted) < Len(Parts)

\* _repair_and_validate(): an answer is held against the schema as it was
\* before it was made strict, and must be an object.
Answer ==
    /\ Asking
    /\ \E v \in Values :
          /\ last' = v
          /\ IF v.t = "object" /\ IsValid(v, Part)
             THEN accepted' = Append(accepted, v) /\ rejected' = FALSE
             ELSE rejected' = TRUE /\ UNCHANGED accepted
    /\ UNCHANGED <<schema, long, pc, data>>

\* No more retries: a chunk is left out, if partial results are allowed, and
\* without any other answer there is no response.
GiveUp ==
    /\ Asking /\ rejected
    /\ rejected' = FALSE
    /\ \/ pc' = "failed" /\ UNCHANGED accepted
       \/ Chunked /\ Len(accepted) < 2 /\ accepted' = Append(accepted, Null) /\ UNCHANGED pc
    /\ UNCHANGED <<schema, long, last, data>>

RowsOf(i) == IF accepted[i] = Null THEN <<>> ELSE accepted[i].fields[RowArray].items

MergedRows ==
    IF RowsOf(1) # <<>> /\ RowsOf(2) # <<>> /\ RowsOf(1)[Len(RowsOf(1))] = RowsOf(2)[1]
    THEN RowsOf(1) \o Tail(RowsOf(2))
    ELSE RowsOf(1) \o RowsOf(2)

\* assemble_result(): the summary's properties and the merged rows.
Assembled ==
    LET rows    == [Null EXCEPT !.t = "array", !.atom = "none", !.items = MergedRows]
        summary == IF Len(accepted) = 3 THEN accepted[3].fields ELSE [name \in Names |-> Absent]
    IN  [Null EXCEPT !.t = "object", !.atom = "none", !.fields = [summary EXCEPT ![RowArray] = rows]]

\* normalize_values(): strings with a hint are rewritten, wherever properties
\* and items lead; clean[n] is what the n-th node makes of a value.
Rewrite(s, clean, v) ==
    CASE v.t = "object" ->
             [v EXCEPT !.fields = [name \in Names |->
                 IF name \in Has(v) \intersect Declared(s)
                 THEN clean[s.props[name]][v.fields[name]] ELSE v.fields[name]]]
      [] v.t = "array" /\ s.items # 0 ->
             [v EXCEPT !.items = [i \in 1..Len(v.items) |-> clean[s.items][v.items[i]]]]
      [] v.t = "string" /\ s.hint /\ v.atom = "raw" -> [v EXCEPT !.atom = "clean"]
      [] OTHER -> v

Rewritten(table) ==
    LET clean[n \in 1..Len(table)] == [v \in Json |-> Rewrite(table[n], clean, v)]
    IN  clean

\* The one answer, or the object made of several if it is valid as a whole.
Finish ==
    /\ pc = "ask" /\ Len(accepted) = Len(Parts)
    /\ LET whole == IF Chunked THEN Assembled ELSE accepted[1]
       IN  IF Chunked /\ ~IsValid(whole, Root)
           THEN pc' = "misfit" /\ UNCHANGED data
           ELSE pc' = "returned" /\ data' = Rewritten(schema)[Root][whole]
    /\ UNCHANGED <<schema, long, accepted, last, rejected>>

Next == Answer \/ GiveUp \/ Finish

Spec == Init /\ [][Next]_vars

-------------------------------------------------------------------------------
(* Properties.                                                              *)

\* A model that keeps to the strict schema it is given has its answer
\* rejected for a null the caller does not allow, for a oneOf whose
\* alternatives exclude each other only in strict form, for a type that the
\* caller names besides properties, or for a property the caller requires and
\* does not declare: for nothing else.
StrictAnswersFit ==
    rejected /\ last.t = "object" /\ last \in Admitted(Table)[Part]["strict"] =>
        last \in Admitted(Table)[Part]["relaxed"]

\* The caller's schema says more than its properties say one by one.
SaysMore ==
    LET s == schema[Root]
        rows == schema[s.props[RowArray]]
    IN  \/ ~(s.required \subseteq Declared(s))
        \/ s.kw # "none" \/ s.enum # {}
        \/ s.types # {} /\ "object" \notin s.types
        \/ rows.kw # "none" \/ rows.enum # {}

\* Answers that fit the schemas of chunks and summary make an object that
\* fits the caller's schema, also with chunks left out: what is paid for is
\* thrown away at the end only if that schema says more than its properties.
PartsFitTogether == pc = "misfit" => SaysMore

\* A claim of the response schema that the code does not keep.

\* "Extracted document data, shaped according to the provided schema."
DataIsShaped == pc = "returned" => IsValid(data, Root)
===============================================================================
