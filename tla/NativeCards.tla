----------------------------- MODULE NativeCards ------------------------------
(***************************************************************************)
(* A native card, from the document a model answers with to the card that  *)
(* runs on the desktop.  NativeValidator, in the service, accepts or       *)
(* rejects the document against its initialState; the desktop interprets   *)
(* it with an evaluator and a controller of its own, whose state moves on: *)
(* presses of buttons, input controls, timers, answers of capabilities,    *)
(* and an update to the next version of the card over the old state.       *)
(*                                                                         *)
(* A document has one bound property, one input control and one event.     *)
(* What the validator checks of each field's form (unknown fields, ids,    *)
(* names, sizes, the nesting of nodes and data, literals outside an        *)
(* enumeration) is left out: documents are built well-formed.  Of the      *)
(* catalog's operations one is kept for each signature.  Left out of       *)
(* expressions: the wrapper {"expr": ...}, one level to both sides; null,  *)
(* infinities and NaN; that eq compares lists and objects by identity.     *)
(*                                                                         *)
(* A JSON value is a map from the paths in it to what is there, as the     *)
(* validator indexes it: <<>> is the value itself, and a path leads        *)
(* through objects.  A list is its kind and its length: elements of a kind *)
(* are equal, and an array, whose kinds are mixed, stays one.              *)
(*                                                                         *)
(* The variants with a plausible slip belong to no specification.          *)
(***************************************************************************)
EXTENDS Integers, Sequences, SequencesExt

CONSTANTS Documents,            \* documents the model may answer with
          Expressions,          \* the expressions in them, arguments included
          MaxExpressionDepth,   \* limit of the catalog, and of the evaluator
          AllowedCapabilities,  \* what the requirement lets the card call
          CallResults,          \* values a capability may answer with
          MaxNumber             \* bound of numbers and lengths of lists

VARIABLES document,  \* the version of the card that runs
          state,     \* NativeCardController._state
          timers,    \* running timers: path -> configuration
          call,      \* the capability call a press awaits, with the actions after it
          failure    \* how the last press, tick or answer ended

cardVars == <<document, state, timers, call, failure>>

Path == Seq(STRING)

Node(type, n)  == [type |-> type, n |-> n]
Value(type, n) == [p \in {<<>>} |-> Node(type, n)]

Number(n)     == Value("number", n)
Flag(b)       == Value("boolean", IF b THEN 1 ELSE 0)
Text          == Value("string", 0)
List(type, n) == Value(IF n = 0 THEN "emptyList" ELSE type, n)

Object(fields) ==
  [p \in {<<>>} \cup UNION {{<<key>> \o q : q \in DOMAIN fields[key]} : key \in DOMAIN fields} |->
     IF p = <<>> THEN Node("object", 0) ELSE fields[Head(p)][Tail(p)]]

TypeOf(v)   == v[<<>>].type
NumberOf(v) == v[<<>>].n

\* What the evaluator's exceptions come to: a missing path or a value of the
\* wrong kind; a division by zero or a negative duration.
TypeError   == Value("typeError", 0)
DomainError == Value("domainError", 0)
Errors      == {"typeError", "domainError"}
Failed(v)   == TypeOf(v) \in Errors

\* What is at a path, or nothing.
Read(v, path) == IF path \in DOMAIN v THEN v[path] ELSE Node("typeError", 0)

ListTypes == {"emptyList", "numberList", "stringList", "array"}
ValueTypes == {"number", "boolean", "string", "object"} \cup ListTypes

\* A path's parents are there, and are objects.
WellFormed(v) ==
  /\ <<>> \in DOMAIN v /\ DOMAIN v \subseteq Path
  /\ \A p \in DOMAIN v :
       /\ v[p] \in [type : ValueTypes, n : Int]
       /\ \A k \in 0..(Len(p) - 1) :
            SubSeq(p, 1, k) \in DOMAIN v /\ v[SubSeq(p, 1, k)].type = "object"

\* The value at a path.
Part(v, path) ==
  [q \in {SubSeq(p, Len(path) + 1, Len(p)) : p \in {p \in DOMAIN v : IsPrefix(path, p)}} |->
     v[path \o q]]

\* The catalog's operations, by signature: add stands for subtract and multiply
\* too, gt for the other comparisons, not for and and or.  Bound: an arity without
\* a maximum ends at two.
Operations ==
  [add            |-> [arity |-> 1..2, args |-> "number",  result |-> "number",  constraint |-> "none"],
   divide         |-> [arity |-> {2},  args |-> "number",  result |-> "number",  constraint |-> "nonZeroDivisor"],
   eq             |-> [arity |-> {2},  args |-> "any",     result |-> "boolean", constraint |-> "none"],
   gt             |-> [arity |-> {2},  args |-> "number",  result |-> "boolean", constraint |-> "none"],
   not            |-> [arity |-> {1},  args |-> "boolean", result |-> "boolean", constraint |-> "none"],
   concat         |-> [arity |-> 0..2, args |-> "any",     result |-> "string",  constraint |-> "none"],
   formatDuration |-> [arity |-> {1},  args |-> "number",  result |-> "string",  constraint |-> "nonNegative"]]

\* The methods' capabilities, and whether a native card may call them.
Methods ==
  [m \in {"clipboard.read", "storage.get"} |->
     IF m = "clipboard.read" THEN [capability |-> m, native |-> TRUE]
                             ELSE [capability |-> "storage", native |-> FALSE]]

Literal(v)   == [shape |-> "literal", value |-> v]
PathTo(p)    == [shape |-> "path", path |-> p]
Op(op, args) == [shape |-> "expression", op |-> op, args |-> args]

\* An expression where its depth leaves so many levels.
Nested == (0..(MaxExpressionDepth + 1)) \X Expressions

\* The form that the fields of a document have.
ExpressionsWellFormed ==
  \A x \in Expressions :
    \/ x.shape = "literal" /\ WellFormed(x.value)
    \/ x.shape = "path" /\ x.path \in Path \ {<<>>}
    \/ x.shape = "expression" /\ x.op \in DOMAIN Operations /\ x.args \in Seq(Expressions)

ActionWellFormed(action) ==
  /\ action.type \in {"set", "increment", "toggle", "append", "remove", "startTimer",
                      "stopTimer", "capability.invoke"}
  /\ action.path \in Path
  /\ IF action.type = "capability.invoke" THEN action.method \in DOMAIN Methods
                                          ELSE action.path # <<>>
  /\ action.type \in {"set", "increment", "append", "remove"} => action.value \in Expressions
  /\ action.type = "startTimer" => action.timer.intervalMs \in Int

DocumentWellFormed(d) ==
  /\ WellFormed(d.initialState)
  /\ d.prop.value \in Expressions
  /\ d.control.writes # "nothing" => d.control.path \in Path \ {<<>>}
  /\ d.onPressed \in Seq({d.onPressed[i] : i \in 1..Len(d.onPressed)})
  /\ \A i \in 1..Len(d.onPressed) : ActionWellFormed(d.onPressed[i])

ASSUME NativeCardsAssumption ==
  /\ MaxExpressionDepth \in Nat
  /\ ExpressionsWellFormed
  /\ \A d \in Documents : DocumentWellFormed(d)

-------------------------------------------------------------------------------
(* The service: NativeValidator. *)

CompatibleValueType(actual, expected) ==
  \/ expected = "any" \/ actual = expected
  \/ actual = "emptyList" /\ expected \in {"numberList", "stringList"}

\* A number known without evaluating: a literal, or initialState's value.
StaticNumber(initialState, e) ==
  CASE e.shape = "literal" -> e.value[<<>>]
    [] e.shape = "path"    -> Read(initialState, e.path)
    [] OTHER               -> Node("typeError", 0)

UncheckedExpressionType(initialState, e) ==
  CASE e.shape = "literal" -> TypeOf(e.value)
    [] e.shape = "path"    -> Read(initialState, e.path).type
    [] OTHER               -> Operations[e.op].result

\* The type of an operation's result, given its arguments' types; "typeError" or
\* "domainError" if it is rejected.
OperationType(initialState, e, types) ==
  LET rule == Operations[e.op]
      last == StaticNumber(initialState, e.args[Len(e.args)])
  IN  IF \/ Len(e.args) \notin rule.arity
         \/ \E i \in 1..Len(e.args) :
               types[i] \in Errors \/ (rule.args # "any" /\ types[i] # rule.args)
      THEN "typeError"
      ELSE IF \/ rule.constraint = "nonNegative" /\ last.type = "number" /\ last.n < 0
              \/ rule.constraint = "nonZeroDivisor" /\ last = Node("number", 0)
      THEN "domainError"
      ELSE rule.result

\* A value's type where its depth leaves so many levels.  The depth is counted
\* from one, and a literal has none.
ExpressionType(initialState, e) ==
  LET type[at \in Nested] ==
        LET left == at[1]
            x    == at[2]
        IN  CASE x.shape = "literal" -> TypeOf(x.value)
              [] x.shape # "literal" /\ left = 0 -> "typeError"
              [] x.shape = "path" /\ left # 0 -> Read(initialState, x.path).type
              [] OTHER -> OperationType(initialState, x,
                            [i \in 1..Len(x.args) |-> type[<<left - 1, x.args[i]>>]])
  IN  type[<<MaxExpressionDepth, e>>]

ValidateLiteralValue(v, expected) ==
  CASE expected = "any" -> TRUE
    [] expected \in {"numberList", "stringList"} -> TypeOf(v) \in {expected, "emptyList"}
    [] OTHER -> TypeOf(v) = expected

ValidateValue(initialState, e, type) ==
  LET actual == ExpressionType(initialState, e)
  IN  IF e.shape = "literal" THEN ValidateLiteralValue(e.value, type)
      ELSE actual \notin Errors /\ CompatibleValueType(actual, type)

ValidateTimerConfiguration(timer) == timer.intervalMs > 0

\* A new key may be written into an object that initialState has.
WritableStatePath(initialState, path) ==
  Len(path) = 1 \/ Read(initialState, Front(path)).type = "object"

AnyExistingTarget(initialState, type, path) ==
  \/ type \in {"set", "stopTimer"}
  \/ Read(initialState, path).type # "typeError"

ValidateActionTarget(initialState, type, path) ==
  LET target == Read(initialState, path).type
  IN  CASE type = "set" -> WritableStatePath(initialState, path)
        [] type = "stopTimer" -> TRUE
        [] type \in {"increment", "startTimer"} -> target = "number"
        [] type = "toggle" -> target = "boolean"
        [] type \in {"append", "remove"} -> target \in ListTypes

\* An action's value, its target and, for a call, its method and the path of
\* the result.
ValidateAction(initialState, action) ==
  IF action.type = "capability.invoke"
  THEN LET method == Methods[action.method]
       IN  /\ method.native /\ method.capability \in AllowedCapabilities
           /\ action.path # <<>> => WritableStatePath(initialState, action.path)
  ELSE /\ action.type \in {"set", "append", "remove"} =>
            ValidateValue(initialState, action.value, "any")
       /\ action.type = "increment" => ValidateValue(initialState, action.value, "number")
       /\ action.type = "startTimer" => ValidateTimerConfiguration(action.timer)
       /\ ValidateActionTarget(initialState, action.type, action.path)

\* A control's path only has to exist: what the control writes is not compared
\* with what is there.
ValidateNode(d) ==
  /\ ValidateValue(d.initialState, d.prop.value, d.prop.type)
  /\ d.control.writes # "nothing" =>
       Read(d.initialState, d.control.path).type # "typeError"
  /\ \A i \in 1..Len(d.onPressed) : ValidateAction(d.initialState, d.onPressed[i])

Validate(d) == TypeOf(d.initialState) = "object" /\ ValidateNode(d)

-------------------------------------------------------------------------------
(* The desktop: NativeExpressionEvaluator. *)

ResolvePath(s, path) ==
  IF path \in DOMAIN s THEN Part(s, path) ELSE TypeError

\* A quotient is told apart by its sign.
Quotient(a, b) == Number(IF a = 0 THEN 0 ELSE IF (a < 0) = (b < 0) THEN 1 ELSE -1)

Computed(op, args) ==
  LET last == NumberOf(args[Len(args)])
  IN  CASE op = "add"    -> Number(IF Len(args) = 1 THEN last ELSE NumberOf(args[1]) + last)
        [] op = "divide" -> IF last = 0 THEN DomainError ELSE Quotient(NumberOf(args[1]), last)
        [] op = "eq"     -> Flag(args[1] = args[2])
        [] op = "gt"     -> Flag(NumberOf(args[1]) > last)
        [] op = "not"    -> Flag(last = 0)
        [] op = "concat" -> Text
        [] op = "formatDuration" -> IF last < 0 THEN DomainError ELSE Text

\* _numbers and _booleans: the type an operation takes.
Takes(op) ==
  CASE op \in {"add", "divide", "gt", "formatDuration"} -> "number"
    [] op = "not" -> "boolean"
    [] op \in {"eq", "concat"} -> "any"

\* The first argument that throws ends the evaluation of all.
FirstFailed(args) ==
  args[CHOOSE i \in 1..Len(args) : Failed(args[i]) /\ \A j \in 1..(i - 1) : ~Failed(args[j])]

ApplyOperation(op, args) ==
  IF Len(args) \notin Operations[op].arity THEN TypeError
  ELSE IF \E i \in 1..Len(args) : Failed(args[i]) THEN FirstFailed(args)
  ELSE IF Takes(op) # "any" /\ \E i \in 1..Len(args) : TypeOf(args[i]) # Takes(op) THEN TypeError
  ELSE Computed(op, args)

\* The value of an expression where its depth leaves so many levels.  Here the
\* depth is counted from zero, and a literal has one.
Evaluate(e, s) ==
  LET value[at \in Nested] ==
        LET left == at[1]
            x    == at[2]
        IN  CASE left = 0 -> TypeError
              [] left # 0 /\ x.shape = "literal" -> x.value
              [] left # 0 /\ x.shape = "path" -> ResolvePath(s, x.path)
              [] OTHER -> ApplyOperation(x.op, [i \in 1..Len(x.args) |-> value[<<left - 1, x.args[i]>>]])
  IN  value[<<MaxExpressionDepth + 1, e>>]

-------------------------------------------------------------------------------
(* The desktop: NativeCardController.  A press runs its actions one after    *)
(* the other; it ends with the first that throws, or awaits a capability.    *)

\* The state with a value at a path: what was below the path is gone.
Written(s, path, v) ==
  [p \in {p \in DOMAIN s : ~IsPrefix(path, p)} \cup {path \o q : q \in DOMAIN v} |->
     IF IsPrefix(path, p) THEN v[SubSeq(p, Len(path) + 1, Len(p))] ELSE s[p]]

\* A path can be written if its parent is an object.
Writable(s, path) ==
  Len(path) = 1 \/ (Front(path) \in DOMAIN s /\ s[Front(path)].type = "object")

\* A run of actions: the controller's state, how it ends, and what is left of it.
Write(run, path, v) ==
  IF Failed(v) THEN [run EXCEPT !.ends = TypeOf(v)]
  ELSE IF ~Writable(run.state, path) THEN [run EXCEPT !.ends = "typeError"]
  ELSE [run EXCEPT !.state = Written(@, path, v)]

Appended(list, v) ==
  List(IF list.type \in {"emptyList", "numberList"} /\ TypeOf(v) = "number" THEN "numberList"
       ELSE IF list.type \in {"emptyList", "stringList"} /\ TypeOf(v) = "string" THEN "stringList"
       ELSE "array", list.n + 1)

Removed(list, v) ==
  IF <<list.type, TypeOf(v)>> \in {<<"numberList", "number">>, <<"stringList", "string">>}
  THEN List(list.type, list.n - 1) ELSE Value(list.type, list.n)

\* What an action writes at its path, or the exception it throws.
NewValue(type, current, value) ==
  CASE type = "set" -> value
    [] type = "increment" ->
         IF current.type # "typeError" /\ Failed(value) THEN value
         ELSE IF current.type = "number" /\ TypeOf(value) = "number"
              THEN Number(current.n + NumberOf(value))
         ELSE TypeError
    [] type = "toggle" ->
         IF current.type = "boolean" THEN Flag(current.n = 0) ELSE TypeError
    [] type \in {"append", "remove"} ->
         IF current.type \notin ListTypes THEN TypeError
         ELSE IF Failed(value) THEN value
         ELSE IF type = "append" THEN Appended(current, value) ELSE Removed(current, value)

Started(ts, path, timer) == [p \in DOMAIN ts \cup {path} |-> IF p = path THEN timer ELSE ts[p]]
Stopped(ts, path) == [p \in DOMAIN ts \ {path} |-> ts[p]]

ApplyAction(run, action) ==
  LET current == Read(run.state, action.path)
  IN  CASE action.type = "startTimer" ->
             IF action.timer.intervalMs <= 0 \/ current.type # "number"
             THEN [run EXCEPT !.ends = "typeError"]
             ELSE [run EXCEPT !.timers = Started(@, action.path, action.timer)]
        [] action.type = "stopTimer" -> [run EXCEPT !.timers = Stopped(@, action.path)]
        [] OTHER ->
             Write(run, action.path,
                   NewValue(action.type, current, Evaluate(action.value, run.state)))

NoCall == [path |-> <<>>, rest |-> <<>>, waits |-> FALSE]

\* After an exception nothing more is run, and behind a call the rest waits.
ApplyActionAsync(run, action) ==
  CASE run.ends # "done" -> run
    [] run.ends = "done" /\ run.call.waits -> [run EXCEPT !.call.rest = Append(@, action)]
    [] run.ends = "done" /\ ~run.call.waits /\ action.type = "capability.invoke" ->
         [run EXCEPT !.call = [path |-> action.path, rest |-> <<>>, waits |-> TRUE]]
    [] OTHER -> ApplyAction(run, action)

ApplyActionsAsync(s, ts, actions) ==
  LET run[k \in 0..Len(actions)] ==
        IF k = 0 THEN [state |-> s, timers |-> ts, call |-> NoCall, ends |-> "done"]
                 ELSE ApplyActionAsync(run[k - 1], actions[k])
  IN  run[Len(actions)]

InBounds(v) == \A p \in DOMAIN v : v[p].n \in -MaxNumber..MaxNumber

\* What a run leaves behind, an error included: it undoes nothing.
Ran(run) ==
  /\ InBounds(run.state)
  /\ state' = run.state
  /\ timers' = run.timers
  /\ call' = run.call
  /\ failure' = run.ends

\* Bound: a press while another awaits its call is left out.
Press ==
  /\ ~call.waits /\ document.onPressed # <<>>
  /\ Ran(ApplyActionsAsync(state, timers, document.onPressed))
  /\ UNCHANGED document

ErrorKey == "_capabilityError"

WithError(s) == Written(s, <<ErrorKey>>, Object(<<>>))

WithoutError(s) == [p \in {p \in DOMAIN s : ~IsPrefix(<<ErrorKey>>, p)} |-> s[p]]

\* A result whose path cannot be written any more is reported as an error of
\* the bridge.  The actions after the call run in either case.
ApplyCapability(v) ==
  LET cleared == WithoutError(state)
      s       == IF call.path = <<>> THEN cleared
                 ELSE IF Writable(cleared, call.path) THEN Written(cleared, call.path, v)
                 ELSE WithError(cleared)
  IN  /\ call.waits
      /\ Ran(ApplyActionsAsync(s, timers, call.rest))
      /\ UNCHANGED document

SetCapabilityError ==
  /\ call.waits
  /\ Ran(ApplyActionsAsync(WithError(state), timers, call.rest))
  /\ UNCHANGED document

\* A text input, a selection, a checkbox or a slider: a set action.
Control ==
  /\ document.control.writes # "nothing"
  /\ \E v \in {Text, Flag(TRUE), Flag(FALSE), Number(0), Number(1)} :
       /\ TypeOf(v) = document.control.writes
       /\ Ran(Write([state |-> state, timers |-> timers, call |-> call, ends |-> "done"],
                    document.control.path, v))
  /\ UNCHANGED document

\* A timer whose path is gone throws and goes on; one whose path is no number stops.
Tick(path) ==
  LET current == Read(state, path)
      timer   == timers[path]
      next    == current.n + timer.delta
      ended   == timer.stops /\ ((timer.delta < 0 /\ next <= 0) \/ (timer.delta > 0 /\ next >= 0))
  IN  /\ \/ /\ current.type = "typeError"
            /\ failure' = "typeError"
            /\ UNCHANGED <<state, timers>>
         \/ /\ current.type \notin {"typeError", "number"}
            /\ failure' = "done"
            /\ timers' = Stopped(timers, path)
            /\ UNCHANGED state
         \/ /\ current.type = "number"
            /\ failure' = "done"
            /\ timers' = IF ended THEN Stopped(timers, path) ELSE timers
            /\ state' = Written(state, path, Number(IF ended THEN 0 ELSE next))
            /\ InBounds(state')
      /\ UNCHANGED <<document, call>>

\* What a view starts with: the document's fields under those of the kept state.
Merged(initialState, kept) ==
  [p \in DOMAIN kept \cup {p \in DOMAIN initialState \ {<<>>} : <<Head(p)>> \notin DOMAIN kept} |->
     IF p \in DOMAIN kept THEN kept[p] ELSE initialState[p]]

InitialStates == {d.initialState : d \in Documents}

\* The next version of the card, with the same schema, takes over the state.  The
\* controller and its timers are new; an answer for the old one is lost.  Bound:
\* the versions differ in their initialState.
Update(initialState) ==
  /\ [document EXCEPT !.initialState = initialState] \in Documents
  /\ Validate([document EXCEPT !.initialState = initialState])
  /\ document' = [document EXCEPT !.initialState = initialState]
  /\ state' = Merged(initialState, state)
  /\ timers' = <<>>
  /\ call' = NoCall
  /\ failure' = "done"

NativeInit ==
  /\ document \in {d \in Documents : Validate(d)}
  /\ state = document.initialState
  /\ timers = <<>>
  /\ call = NoCall
  /\ failure = "done"

NativeNext ==
  \/ Press \/ SetCapabilityError \/ Control
  \/ \E v \in CallResults : ApplyCapability(v)
  \/ \E path \in DOMAIN timers : Tick(path)
  \/ \E initialState \in InitialStates : Update(initialState)

NativeSpec == NativeInit /\ [][NativeNext]_cardVars

-------------------------------------------------------------------------------
Kind(type) == IF type \in ListTypes THEN "array" ELSE type

\* Every path of initialState is there, with a value of its kind.
Fits(initialState, s) ==
  \A p \in DOMAIN initialState :
    p \in DOMAIN s /\ Kind(s[p].type) = Kind(initialState[p].type)

\* The bound property evaluates to what it takes. A division by zero or a
\* negative duration may come of a later state, and in initialState of an
\* argument that is itself computed.
ShowsItsType(shown) ==
  \/ Kind(TypeOf(shown)) = Kind(document.prop.type)
  \/ document.prop.type = "any" /\ TypeOf(shown) # "typeError"
  \/ /\ shown = DomainError
     /\ \/ state # document.initialState
        \/ \E i \in 1..Len(document.prop.value.args) :
              document.prop.value.args[i].shape = "expression"

\* The desktop keeps what the service promised for initialState: as long as
\* every path has a value of its kind, whatever has happened in between, an
\* accepted card shows its bound property and its control, and no timer breaks.
RunsAsValidated ==
  Fits(document.initialState, state) =>
    /\ ShowsItsType(Evaluate(document.prop.value, state))
    /\ document.control.writes # "nothing" => document.control.path \in DOMAIN state
    /\ \A path \in DOMAIN timers : Read(state, path).type = "number"

\* An accepted card's press, timer or answer ends with an exception only if the
\* path it needs has lost its kind: to a set action, a control, a capability's
\* result or the state of an earlier version, the only writers of another kind.
FailuresAreExplained ==
  failure = "typeError" => ~Fits(document.initialState, state)

===============================================================================
