---------------------------- MODULE MCDesktopCards ----------------------------
(* The cards of the desktop in one run of two parts: the versions of an      *)
(* installed card (CardVersions) and what a native card computes             *)
(* (NativeCards). A behaviour keeps to the part it starts with.              *)
EXTENDS MCCardVersions, NativeCards

VARIABLE part

Paths == {<<"n">>, <<"o">>, <<"o", "x">>}

MCInitialStates ==
  {Object([n |-> n, o |-> o]) :
     n \in {Number(0), Number(-1), Flag(TRUE), List("numberList", 0)},
     o \in {Object(<<>>), Object([x |-> Number(1)])}}

Atoms == {PathTo(p) : p \in Paths} \cup {Literal(v) : v \in {Number(0), Text}}

Operation1 == {Op(op, <<a>>) : op \in {"not", "formatDuration", "add", "divide"}, a \in Atoms}
Operation2 == {Op(op, <<a, b>>) : op \in {"add", "divide", "gt", "concat"}, a \in Atoms, b \in Atoms}

\* An operation of one operation: a duration, a divisor and a condition that are computed.
Composed ==
  {Op("formatDuration", <<Op("add", <<a, Literal(Number(-1))>>)>>) : a \in Atoms}
    \cup {Op("divide", <<Literal(Number(1)), Op("add", <<a, Literal(Number(-1))>>)>>) : a \in Atoms}
    \cup {Op("not", <<Op("eq", <<a, Literal(Number(0))>>)>>) : a \in Atoms}

\* The deepest expressions there may be: a literal may be one level below, a path
\* may not, and neither may another operation.
Deep == {Op("formatDuration", <<Op("add", <<Op("add", <<a>>)>>)>>) : a \in Atoms}
TooDeep == {Op("concat", <<e>>) : e \in Deep}

Props ==
  [type : {"any"}, value : Composed \cup Deep \cup TooDeep]
    \cup [type : {"string", "number", "numberList"}, value : Atoms \cup Operation1 \cup Operation2 \cup Composed]

NoControl == [writes |-> "nothing", path |-> <<>>]
Controls == {NoControl} \cup [writes : {"string", "boolean", "number"}, path : {<<"n">>, <<"o">>}]

Valued(types, values) == [type : types, path : Paths, value : values]

Timers ==
  [intervalMs : {1}, delta : {-1, 1}, stops : BOOLEAN]
    \cup {[intervalMs |-> 1, delta |-> 0, stops |-> TRUE], [intervalMs |-> 0, delta |-> 1, stops |-> FALSE]}

Actions ==
  {[type |-> "set", path |-> <<"n", "y">>, value |-> Literal(Text)]}
    \cup Valued({"set"}, {Literal(Number(1)), Literal(Text), Literal(Object(<<>>)), PathTo(<<"o", "x">>)})
    \cup Valued({"increment"}, {Literal(Number(1)), PathTo(<<"n">>)})
    \cup Valued({"append"}, {Literal(Number(1)), Literal(Text)})
    \cup Valued({"remove"}, {Literal(Number(1))})
    \cup [type : {"toggle", "stopTimer"}, path : Paths]
    \cup [type : {"startTimer"}, path : Paths, timer : Timers]
    \cup [type : {"capability.invoke"}, path : Paths \cup {<<>>}, method : {"clipboard.read", "storage.get"}]

\* Single actions, and each after one that may leave it another state or time.
Events ==
  {<<a>> : a \in Actions}
    \cup ({a \in Actions : a.type \in {"set", "remove", "capability.invoke"}} \X Actions)

MCDocuments ==
  [initialState : MCInitialStates, prop : Props, control : {NoControl}, onPressed : {<<>>}]
    \cup [initialState : MCInitialStates, prop : {p \in Props : p.value \in Operation1 \cup Composed},
          control : Controls, onPressed : {<<>>}]
    \cup [initialState : MCInitialStates, prop : {[type |-> "any", value |-> Literal(Text)]},
          control : {NoControl}, onPressed : Events]

\* The values in documents and what they are made of.
MCExpressions ==
  LET values == {p.value : p \in Props} \cup {a.value : a \in {a \in Actions : a.type \in
                                               {"set", "increment", "append", "remove"}}}
      Arguments(es) == UNION {{e.args[i] : i \in 1..Len(e.args)} :
                                e \in {e \in es : e.shape = "expression"}}
      deeper == values \cup Arguments(values)
      deepest == deeper \cup Arguments(deeper)
  IN  deepest \cup Arguments(deepest)

MCCallResults == {Text, Number(1)}

\* The part that does not run has one state only.
IdleDocument ==
  [initialState |-> Object([n |-> Number(0), o |-> Object(<<>>)]),
   prop |-> [type |-> "number", value |-> PathTo(<<"n">>)], control |-> NoControl, onPressed |-> <<>>]

CardsInit ==
  \/ part = "versions" /\ document = IdleDocument /\ Init /\ NativeInit
  \/ part = "native" /\ Init /\ card.version = 1 /\ NativeInit

CardsNext ==
  \/ part = "versions" /\ Next /\ UNCHANGED <<cardVars, part>>
  \/ part = "native" /\ NativeNext /\ UNCHANGED <<vars, part>>

CardsSpec == CardsInit /\ [][CardsNext]_<<vars, cardVars, part>>

===============================================================================
