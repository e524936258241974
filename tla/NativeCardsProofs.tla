--------------------------- MODULE NativeCardsProofs ---------------------------
(***************************************************************************)
(* The validator of the service is sound for the interpreter of the        *)
(* desktop, for any documents, any expressions and any limit on their      *)
(* depth: an accepted card shows and runs what it was accepted for as long *)
(* as the paths of its initialState have values of their kinds.            *)
(*                                                                         *)
(* The argument has four layers.  The recursive functions exist, so their  *)
(* defining equations hold (TypeEquation, ValueEquation, RunEquation).     *)
(* Type soundness is by induction over the levels of an expression         *)
(* (LevelsSound), each level by cases on the operation (OperationSound).   *)
(* A run of actions keeps RunOK: it has no type error where the state      *)
(* fits.  NativeInv is what a card remembers between the steps: timers     *)
(* count on numbers of initialState, and what waits behind a call are      *)
(* accepted actions.                                                       *)
(***************************************************************************)
EXTENDS NativeCards, WellFoundedInduction, SequenceTheorems, TLAPS

\* Induction over the natural numbers, for a set of them.
LEMMA Induction ==
  ASSUME NEW S, 0 \in S, \A n \in Nat : n \in S => n + 1 \in S
  PROVE  \A n \in Nat : n \in S
<1> DEFINE T == Nat \ S
<1> DEFINE R == {ss \in Nat \X Nat : ss[1] < ss[2]}
<1>1. IsWellFoundedOn(R, Nat)
  BY NatLessThanWellFounded DEF OpToRel
<1>2. SUFFICES ASSUME T # {} PROVE FALSE
  OBVIOUS
<1>3. \E x \in T : \A y \in T : ~(<<y, x>> \in R)
  <2>1. T \subseteq Nat
    OBVIOUS
  <2> HIDE DEF T, R
  <2> QED BY <1>1, <1>2, <2>1, WFMin, Zenon
<1>4. PICK x \in T : \A y \in T : ~(<<y, x>> \in R)
  BY <1>3, Zenon
<1>5. x \in Nat /\ x \notin S
  OBVIOUS
<1>6. x - 1 \in Nat /\ (x - 1) + 1 = x
  BY <1>5
<1>7. x - 1 \in T
  BY <1>5, <1>6
<1>8. <<x - 1, x>> \in R
  BY <1>5, <1>6
<1> QED BY <1>4, <1>7, <1>8

-------------------------------------------------------------------------------
(* The recursive functions. *)

\* The types of the validator, one level of expressions after the other.
TypeStep(initialState, type, at) ==
  LET left == at[1]
      x    == at[2]
  IN  CASE x.shape = "literal" -> TypeOf(x.value)
        [] x.shape # "literal" /\ left = 0 -> "typeError"
        [] x.shape = "path" /\ left # 0 -> Read(initialState, x.path).type
        [] OTHER -> OperationType(initialState, x,
                      [i \in 1..Len(x.args) |-> type[<<left - 1, x.args[i]>>]])

ValueStep(s, value, at) ==
  LET left == at[1]
      x    == at[2]
  IN  CASE left = 0 -> TypeError
        [] left # 0 /\ x.shape = "literal" -> x.value
        [] left # 0 /\ x.shape = "path" -> ResolvePath(s, x.path)
        [] OTHER -> ApplyOperation(x.op, [i \in 1..Len(x.args) |-> value[<<left - 1, x.args[i]>>]])

\* The type of an expression is taken from a table of all levels.
LEMMA TypeChosen ==
  ASSUME NEW initialState, NEW e
  PROVE  ExpressionType(initialState, e) =
           (CHOOSE type : type = [at \in Nested |-> TypeStep(initialState, type, at)])[<<MaxExpressionDepth, e>>]
BY Zenon DEF ExpressionType, TypeStep

\* Its value is taken from a table of all levels too.
LEMMA ValueChosen ==
  ASSUME NEW s, NEW e
  PROVE  Evaluate(e, s) =
           (CHOOSE value : value = [at \in Nested |-> ValueStep(s, value, at)])[<<MaxExpressionDepth + 1, e>>]
BY Zenon DEF Evaluate, ValueStep

\* An expression has one of three shapes; the arguments of an operation are expressions.
LEMMA Shapes ==
  ASSUME NEW x \in Expressions
  PROVE  \/ x.shape = "literal" /\ WellFormed(x.value)
         \/ x.shape = "path" /\ x.path \in Path \ {<<>>}
         \/ /\ x.shape = "expression" /\ x.op \in DOMAIN Operations
            /\ x.args \in Seq(Expressions) /\ Len(x.args) \in Nat
            /\ \A i \in 1..Len(x.args) : x.args[i] \in Expressions
<1>1. \/ x.shape = "literal" /\ WellFormed(x.value)
      \/ x.shape = "path" /\ x.path \in Path \ {<<>>}
      \/ x.shape = "expression" /\ x.op \in DOMAIN Operations /\ x.args \in Seq(Expressions)
  BY NativeCardsAssumption, Zenon DEF NativeCardsAssumption, ExpressionsWellFormed
<1>2. x.args \in Seq(Expressions) =>
        Len(x.args) \in Nat /\ \A i \in 1..Len(x.args) : x.args[i] \in Expressions
  OBVIOUS
<1> QED BY <1>1, <1>2, Zenon

\* A step looks one level below, no further.
LEMMA TypeStepLocal ==
  ASSUME NEW initialState, NEW f, NEW h, NEW left \in Nat, NEW x \in Expressions,
         left # 0 => \A e \in Expressions : f[<<left - 1, e>>] = h[<<left - 1, e>>]
  PROVE  TypeStep(initialState, f, <<left, x>>) = TypeStep(initialState, h, <<left, x>>)
<1>1. CASE left # 0 /\ x.shape = "expression"
  <2>1. [i \in 1..Len(x.args) |-> f[<<left - 1, x.args[i]>>]] =
        [i \in 1..Len(x.args) |-> h[<<left - 1, x.args[i]>>]]
    BY <1>1, Shapes
  <2> QED BY <1>1, <2>1 DEF TypeStep
<1>2. CASE ~(left # 0 /\ x.shape = "expression")
  BY <1>2, Shapes DEF TypeStep
<1> QED BY <1>1, <1>2

\* The same of the evaluator.
LEMMA ValueStepLocal ==
  ASSUME NEW s, NEW f, NEW h, NEW left \in Nat, NEW x \in Expressions,
         left # 0 => \A e \in Expressions : f[<<left - 1, e>>] = h[<<left - 1, e>>]
  PROVE  ValueStep(s, f, <<left, x>>) = ValueStep(s, h, <<left, x>>)
<1>1. CASE left # 0 /\ x.shape = "expression"
  <2>1. [i \in 1..Len(x.args) |-> f[<<left - 1, x.args[i]>>]] =
        [i \in 1..Len(x.args) |-> h[<<left - 1, x.args[i]>>]]
    BY <1>1, Shapes
  <2> QED BY <1>1, <2>1 DEF ValueStep
<1>2. CASE ~(left # 0 /\ x.shape = "expression")
  BY <1>2, Shapes DEF ValueStep
<1> QED BY <1>1, <1>2

\* The validator's function of the first n levels.
TypeTable(initialState, n, f) ==
  f = [at \in (0..n) \X Expressions |-> TypeStep(initialState, f, at)]

ValueTable(s, n, f) ==
  f = [at \in (0..n) \X Expressions |-> ValueStep(s, f, at)]

\* There is a table for any number of levels.
LEMMA TypeTableExists ==
  ASSUME NEW initialState
  PROVE  \A n \in Nat : \E f : TypeTable(initialState, n, f)
<1> DEFINE S == {n \in Nat : \E f : TypeTable(initialState, n, f)}
<1>1. 0 \in S
  <2> DEFINE h == [at \in (0..0) \X Expressions |-> TypeStep(initialState, <<>>, at)]
  <2>1. ASSUME NEW at \in (0..0) \X Expressions
        PROVE  TypeStep(initialState, <<>>, at) = TypeStep(initialState, h, at)
    <3> HIDE DEF h
    <3>1. at[1] = 0 /\ at[2] \in Expressions /\ at = <<0, at[2]>>
      BY <2>1
    <3>2. TypeStep(initialState, <<>>, <<0, at[2]>>) = TypeStep(initialState, h, <<0, at[2]>>)
      BY <3>1, TypeStepLocal
    <3> QED BY <3>1, <3>2, Zenon
  <2>2. h = [at \in (0..0) \X Expressions |-> TypeStep(initialState, h, at)]
    <3>1. h = [at \in (0..0) \X Expressions |-> TypeStep(initialState, <<>>, at)]
      BY Zenon
    <3> HIDE DEF h
    <3> QED BY <2>1, <3>1, Zenon
  <2>3. TypeTable(initialState, 0, h)
    <3> HIDE DEF h
    <3> QED BY <2>2, Zenon DEF TypeTable
  <2> QED BY <2>3, Zenon
<1>2. ASSUME NEW n \in Nat, n \in S PROVE n + 1 \in S
  <2>1. PICK f : TypeTable(initialState, n, f)
    BY <1>2, Zenon
  <2> DEFINE h == [at \in (0..(n + 1)) \X Expressions |-> TypeStep(initialState, f, at)]
  <2>2. ASSUME NEW at \in (0..n) \X Expressions PROVE f[at] = h[at]
    <3>1. f[at] = TypeStep(initialState, f, at)
      BY <2>1, <2>2, Zenon DEF TypeTable
    <3>2. at \in (0..(n + 1)) \X Expressions
      BY <2>2
    <3> QED BY <3>1, <3>2, Zenon
  <2>3. ASSUME NEW at \in (0..(n + 1)) \X Expressions
        PROVE  TypeStep(initialState, f, at) = TypeStep(initialState, h, at)
    <3> HIDE DEF h
    <3>1. at[1] \in Nat /\ at[2] \in Expressions /\ at = <<at[1], at[2]>>
      BY <2>3
    <3>2. at[1] # 0 => \A e \in Expressions : f[<<at[1] - 1, e>>] = h[<<at[1] - 1, e>>]
      <4> SUFFICES ASSUME at[1] # 0, NEW e \in Expressions
                   PROVE  f[<<at[1] - 1, e>>] = h[<<at[1] - 1, e>>]
        OBVIOUS
      <4>1. <<at[1] - 1, e>> \in (0..n) \X Expressions
        BY <2>3
      <4> QED BY <4>1, <2>2, Zenon
    <3>3. TypeStep(initialState, f, <<at[1], at[2]>>) = TypeStep(initialState, h, <<at[1], at[2]>>)
      BY <3>1, <3>2, TypeStepLocal
    <3> QED BY <3>1, <3>3, Zenon
  <2>4. h = [at \in (0..(n + 1)) \X Expressions |-> TypeStep(initialState, h, at)]
    <3>1. h = [at \in (0..(n + 1)) \X Expressions |-> TypeStep(initialState, f, at)]
      BY Zenon
    <3> HIDE DEF h
    <3> QED BY <2>3, <3>1, Zenon
  <2>5. TypeTable(initialState, n + 1, h)
    <3> HIDE DEF h
    <3> QED BY <2>4, Zenon DEF TypeTable
  <2>6. n + 1 \in Nat
    OBVIOUS
  <2> QED BY <2>5, <2>6, Zenon
<1>3. \A n \in Nat : n \in S
  <2> HIDE DEF S
  <2> QED BY <1>1, <1>2, Induction, Zenon
<1> QED BY <1>3, Zenon

\* So the validator's table is one.
LEMMA TypeEquation ==
  ASSUME NEW initialState
  PROVE  \E f : /\ TypeTable(initialState, MaxExpressionDepth + 1, f)
                /\ \A e : ExpressionType(initialState, e) = f[<<MaxExpressionDepth, e>>]
<1> DEFINE F == CHOOSE type : type = [at \in Nested |-> TypeStep(initialState, type, at)]
<1>1. \E f : f = [at \in Nested |-> TypeStep(initialState, f, at)]
  BY TypeTableExists, NativeCardsAssumption, MaxExpressionDepth + 1 \in Nat
     DEF TypeTable, Nested, NativeCardsAssumption
<1>2. F = [at \in Nested |-> TypeStep(initialState, F, at)]
  BY <1>1, Zenon
<1>3. \A e : ExpressionType(initialState, e) = F[<<MaxExpressionDepth, e>>]
  BY TypeChosen, Zenon
<1>4. TypeTable(initialState, MaxExpressionDepth + 1, F)
  <2> HIDE DEF F
  <2> QED BY <1>2, Zenon DEF TypeTable, Nested
<1> QED BY <1>3, <1>4, Zenon

\* The same of the evaluator.
LEMMA ValueTableExists ==
  ASSUME NEW s
  PROVE  \A n \in Nat : \E f : ValueTable(s, n, f)
<1> DEFINE S == {n \in Nat : \E f : ValueTable(s, n, f)}
<1>1. 0 \in S
  <2> DEFINE h == [at \in (0..0) \X Expressions |-> ValueStep(s, <<>>, at)]
  <2>1. ASSUME NEW at \in (0..0) \X Expressions
        PROVE  ValueStep(s, <<>>, at) = ValueStep(s, h, at)
    <3> HIDE DEF h
    <3>1. at[1] = 0 /\ at[2] \in Expressions /\ at = <<0, at[2]>>
      BY <2>1
    <3>2. ValueStep(s, <<>>, <<0, at[2]>>) = ValueStep(s, h, <<0, at[2]>>)
      BY <3>1, ValueStepLocal
    <3> QED BY <3>1, <3>2, Zenon
  <2>2. h = [at \in (0..0) \X Expressions |-> ValueStep(s, h, at)]
    <3>1. h = [at \in (0..0) \X Expressions |-> ValueStep(s, <<>>, at)]
      BY Zenon
    <3> HIDE DEF h
    <3> QED BY <2>1, <3>1, Zenon
  <2>3. ValueTable(s, 0, h)
    <3> HIDE DEF h
    <3> QED BY <2>2, Zenon DEF ValueTable
  <2> QED BY <2>3, Zenon
<1>2. ASSUME NEW n \in Nat, n \in S PROVE n + 1 \in S
  <2>1. PICK f : ValueTable(s, n, f)
    BY <1>2, Zenon
  <2> DEFINE h == [at \in (0..(n + 1)) \X Expressions |-> ValueStep(s, f, at)]
  <2>2. ASSUME NEW at \in (0..n) \X Expressions PROVE f[at] = h[at]
    <3>1. f[at] = ValueStep(s, f, at)
      BY <2>1, <2>2, Zenon DEF ValueTable
    <3>2. at \in (0..(n + 1)) \X Expressions
      BY <2>2
    <3> QED BY <3>1, <3>2, Zenon
  <2>3. ASSUME NEW at \in (0..(n + 1)) \X Expressions
        PROVE  ValueStep(s, f, at) = ValueStep(s, h, at)
    <3> HIDE DEF h
    <3>1. at[1] \in Nat /\ at[2] \in Expressions /\ at = <<at[1], at[2]>>
      BY <2>3
    <3>2. at[1] # 0 => \A e \in Expressions : f[<<at[1] - 1, e>>] = h[<<at[1] - 1, e>>]
      <4> SUFFICES ASSUME at[1] # 0, NEW e \in Expressions
                   PROVE  f[<<at[1] - 1, e>>] = h[<<at[1] - 1, e>>]
        OBVIOUS
      <4>1. <<at[1] - 1, e>> \in (0..n) \X Expressions
        BY <2>3
      <4> QED BY <4>1, <2>2, Zenon
    <3>3. ValueStep(s, f, <<at[1], at[2]>>) = ValueStep(s, h, <<at[1], at[2]>>)
      BY <3>1, <3>2, ValueStepLocal
    <3> QED BY <3>1, <3>3, Zenon
  <2>4. h = [at \in (0..(n + 1)) \X Expressions |-> ValueStep(s, h, at)]
    <3>1. h = [at \in (0..(n + 1)) \X Expressions |-> ValueStep(s, f, at)]
      BY Zenon
    <3> HIDE DEF h
    <3> QED BY <2>3, <3>1, Zenon
  <2>5. ValueTable(s, n + 1, h)
    <3> HIDE DEF h
    <3> QED BY <2>4, Zenon DEF ValueTable
  <2>6. n + 1 \in Nat
    OBVIOUS
  <2> QED BY <2>5, <2>6, Zenon
<1>3. \A n \in Nat : n \in S
  <2> HIDE DEF S
  <2> QED BY <1>1, <1>2, Induction, Zenon
<1> QED BY <1>3, Zenon

\* So the evaluator's table is one.
LEMMA ValueEquation ==
  ASSUME NEW s
  PROVE  \E f : /\ ValueTable(s, MaxExpressionDepth + 1, f)
                /\ \A e : Evaluate(e, s) = f[<<MaxExpressionDepth + 1, e>>]
<1> DEFINE F == CHOOSE value : value = [at \in Nested |-> ValueStep(s, value, at)]
<1>1. \E f : f = [at \in Nested |-> ValueStep(s, f, at)]
  BY ValueTableExists, NativeCardsAssumption, MaxExpressionDepth + 1 \in Nat
     DEF ValueTable, Nested, NativeCardsAssumption
<1>2. F = [at \in Nested |-> ValueStep(s, F, at)]
  BY <1>1, Zenon
<1>3. \A e : Evaluate(e, s) = F[<<MaxExpressionDepth + 1, e>>]
  BY ValueChosen, Zenon
<1>4. ValueTable(s, MaxExpressionDepth + 1, F)
  <2> HIDE DEF F
  <2> QED BY <1>2, Zenon DEF ValueTable, Nested
<1> QED BY <1>3, <1>4, Zenon

-------------------------------------------------------------------------------
(* A run of actions. *)

StartOfRun(s, ts) == [state |-> s, timers |-> ts, call |-> NoCall, ends |-> "done"]

RunStep(s, ts, actions, run, k) ==
  IF k = 0 THEN StartOfRun(s, ts) ELSE ApplyActionAsync(run[k - 1], actions[k])

RunTable(s, ts, actions, n, f) ==
  f = [k \in 0..n |-> RunStep(s, ts, actions, f, k)]

\* A run of actions is taken from a table of its prefixes.
LEMMA RunChosen ==
  ASSUME NEW s, NEW ts, NEW actions
  PROVE  ApplyActionsAsync(s, ts, actions) =
           (CHOOSE run : run = [k \in 0..Len(actions) |-> RunStep(s, ts, actions, run, k)])[Len(actions)]
BY Zenon DEF ApplyActionsAsync, RunStep, StartOfRun

\* There is a table for any actions.
LEMMA RunTableExists ==
  ASSUME NEW s, NEW ts, NEW actions
  PROVE  \A n \in Nat : \E f : RunTable(s, ts, actions, n, f)
<1> DEFINE S == {n \in Nat : \E f : RunTable(s, ts, actions, n, f)}
<1>1. 0 \in S
  <2> DEFINE h == [k \in 0..0 |-> StartOfRun(s, ts)]
  <2>1. h = [k \in 0..0 |-> RunStep(s, ts, actions, h, k)]
    BY DEF RunStep
  <2>2. RunTable(s, ts, actions, 0, h)
    <3> HIDE DEF h
    <3> QED BY <2>1, Zenon DEF RunTable
  <2> QED BY <2>2, Zenon
<1>2. ASSUME NEW n \in Nat, n \in S PROVE n + 1 \in S
  <2>1. PICK f : RunTable(s, ts, actions, n, f)
    BY <1>2, Zenon
  <2> DEFINE h == [k \in 0..(n + 1) |-> RunStep(s, ts, actions, f, k)]
  <2>2. ASSUME NEW k \in 0..n PROVE f[k] = h[k]
    <3>1. f[k] = RunStep(s, ts, actions, f, k)
      BY <2>1, <2>2, Zenon DEF RunTable
    <3>2. k \in 0..(n + 1)
      BY <2>2
    <3> QED BY <3>1, <3>2, Zenon
  <2>3. ASSUME NEW k \in 0..(n + 1)
        PROVE  RunStep(s, ts, actions, f, k) = RunStep(s, ts, actions, h, k)
    <3> HIDE DEF h
    <3>1. k # 0 => k - 1 \in 0..n
      BY <2>3
    <3>2. k # 0 => f[k - 1] = h[k - 1]
      BY <2>2, <3>1, Zenon
    <3> QED BY <3>2, Zenon DEF RunStep
  <2>4. h = [k \in 0..(n + 1) |-> RunStep(s, ts, actions, h, k)]
    <3>1. h = [k \in 0..(n + 1) |-> RunStep(s, ts, actions, f, k)]
      BY Zenon
    <3> HIDE DEF h
    <3> QED BY <2>3, <3>1, Zenon
  <2>5. RunTable(s, ts, actions, n + 1, h)
    <3> HIDE DEF h
    <3> QED BY <2>4, Zenon DEF RunTable
  <2>6. n + 1 \in Nat
    OBVIOUS
  <2> QED BY <2>5, <2>6, Zenon
<1>3. \A n \in Nat : n \in S
  <2> HIDE DEF S
  <2> QED BY <1>1, <1>2, Induction, Zenon
<1> QED BY <1>3, Zenon

\* The run of k actions is the run of the actions before, and the last.
RunEquations(s, ts, actions, f) ==
  /\ ApplyActionsAsync(s, ts, actions) = f[Len(actions)]
  /\ f[0] = StartOfRun(s, ts)
  /\ \A k \in 1..Len(actions) : f[k] = ApplyActionAsync(f[k - 1], actions[k])

\* So a run is the run before its last action, and that action.
LEMMA RunEquation ==
  ASSUME NEW s, NEW ts, NEW actions, Len(actions) \in Nat
  PROVE  \E f : RunEquations(s, ts, actions, f)
<1> DEFINE F == CHOOSE run : run = [k \in 0..Len(actions) |-> RunStep(s, ts, actions, run, k)]
<1>1. Len(actions) \in Nat
  OBVIOUS
<1>2. \E f : f = [k \in 0..Len(actions) |-> RunStep(s, ts, actions, f, k)]
  <2>1. PICK f : RunTable(s, ts, actions, Len(actions), f)
    BY <1>1, RunTableExists, Zenon
  <2> QED BY <2>1, Zenon DEF RunTable
<1>3. F = [k \in 0..Len(actions) |-> RunStep(s, ts, actions, F, k)]
  BY <1>2, Zenon
<1>4. ApplyActionsAsync(s, ts, actions) = F[Len(actions)]
  BY RunChosen, Zenon
<1> HIDE DEF F
<1>5. \A k \in 0..Len(actions) : F[k] = RunStep(s, ts, actions, F, k)
  BY <1>3, Zenon
<1>6. F[0] = StartOfRun(s, ts)
  BY <1>1, <1>5 DEF RunStep
<1>7. \A k \in 1..Len(actions) : F[k] = ApplyActionAsync(F[k - 1], actions[k])
  BY <1>1, <1>5 DEF RunStep
<1> QED BY <1>4, <1>6, <1>7, Zenon DEF RunEquations

-------------------------------------------------------------------------------
(* The validator's types are the evaluator's. *)

\* A kind that is no list's is a type.
LEMMA KindOfScalar ==
  ASSUME NEW t, NEW u, Kind(t) = Kind(u)
  PROVE  /\ u \in ListTypes <=> t \in ListTypes
         /\ u \in {"number", "boolean", "string", "object", "typeError", "domainError"} => t = u
BY DEF Kind, ListTypes

\* The part of a value at a path has the type and the number that are there.
LEMMA PartAtRoot ==
  ASSUME NEW s, NEW path \in DOMAIN s, path \in Path
  PROVE  TypeOf(Part(s, path)) = s[path].type /\ NumberOf(Part(s, path)) = s[path].n
<1>1. IsPrefix(path, path) /\ SubSeq(path, Len(path) + 1, Len(path)) = <<>> /\ path \o <<>> = path
  BY DEF Path, IsPrefix
<1>2. <<>> \in {SubSeq(p, Len(path) + 1, Len(p)) : p \in {p \in DOMAIN s : IsPrefix(path, p)}}
  BY <1>1, Zenon
<1>3. Part(s, path)[<<>>] = s[path]
  BY <1>1, <1>2, Zenon DEF Part
<1> QED BY <1>3, Zenon DEF TypeOf, NumberOf

\* What the evaluator computes is the catalog's result, or no value.
LEMMA ComputedType ==
  ASSUME NEW op \in DOMAIN Operations, NEW args
  PROVE  \/ Computed(op, args) = DomainError
         \/ /\ TypeOf(Computed(op, args)) = Operations[op].result
            /\ ~Failed(Computed(op, args))
<1>1. \A type, n : TypeOf(Value(type, n)) = type
  BY DEF TypeOf, Value, Node
<1>2. CASE op = "add"
  BY <1>1, <1>2 DEF Computed, Operations, Number, Failed, Errors
<1>3. CASE op = "divide"
  BY <1>1, <1>3 DEF Computed, Operations, Quotient, Number, Failed, Errors
<1>4. CASE op = "eq"
  BY <1>1, <1>4 DEF Computed, Operations, Flag, Failed, Errors
<1>5. CASE op = "gt"
  BY <1>1, <1>5 DEF Computed, Operations, Flag, Failed, Errors
<1>6. CASE op = "not"
  BY <1>1, <1>6 DEF Computed, Operations, Flag, Failed, Errors
<1>7. CASE op = "concat"
  BY <1>1, <1>7 DEF Computed, Operations, Text, Failed, Errors
<1>8. CASE op = "formatDuration"
  BY <1>1, <1>8 DEF Computed, Operations, Text, Failed, Errors
<1> QED BY <1>2, <1>3, <1>4, <1>5, <1>6, <1>7, <1>8 DEF Operations

\* The evaluator takes what the catalog lets the validator accept.
LEMMA OperationRules ==
  ASSUME NEW op \in DOMAIN Operations
  PROVE  /\ Takes(op) = Operations[op].args
         /\ Operations[op].arity \subseteq 0..2
         /\ Operations[op].result \in {"number", "boolean", "string"}
         /\ Operations[op].args \in {"number", "boolean", "any"}
BY DEF Operations, Takes

\* A value where the validator has a type: one of its kind, or none for a reason
\* that lies in its numbers.
Sound(type, value) ==
  type \notin Errors =>
    \/ value = DomainError
    \/ ~Failed(value) /\ Kind(TypeOf(value)) = Kind(type)

\* Arguments that are sound fail with a division by zero or a negative duration only.
LEMMA FirstFailedIsDomainError ==
  ASSUME NEW args, Len(args) \in 0..2,
         \A i \in 1..Len(args) : Failed(args[i]) => args[i] = DomainError,
         \E i \in 1..Len(args) : Failed(args[i])
  PROVE  FirstFailed(args) = DomainError
<1> DEFINE First(i) == Failed(args[i]) /\ \A j \in 1..(i - 1) : ~Failed(args[j])
<1>1. \E i \in 1..Len(args) : First(i)
  <2>1. CASE Failed(args[1]) /\ 1 \in 1..Len(args)
    BY <2>1
  <2>2. CASE ~(Failed(args[1]) /\ 1 \in 1..Len(args))
    BY <2>2
  <2> QED BY <2>1, <2>2, Zenon
<1>2. FirstFailed(args) = args[CHOOSE i \in 1..Len(args) : First(i)]
  BY Zenon DEF FirstFailed
<1>3. \E i \in 1..Len(args) : First(i) /\ FirstFailed(args) = args[i]
  <2> HIDE DEF First
  <2> QED BY <1>1, <1>2, Zenon
<1> QED BY <1>3

\* An operation the validator accepts, of sound arguments, is sound.
LEMMA OperationSound ==
  ASSUME NEW initialState, NEW x \in Expressions, x.shape = "expression",
         NEW types, NEW values, Len(values) = Len(x.args),
         \A i \in 1..Len(x.args) : Sound(types[i], values[i])
  PROVE  Sound(OperationType(initialState, x, types), ApplyOperation(x.op, values))
<1> DEFINE rule == Operations[x.op]
<1> DEFINE n == Len(x.args)
<1>1. x.op \in DOMAIN Operations /\ n \in Nat
  BY Shapes
<1>2. SUFFICES ASSUME OperationType(initialState, x, types) \notin Errors
               PROVE  LET value == ApplyOperation(x.op, values)
                      IN  \/ value = DomainError
                          \/ /\ ~Failed(value)
                             /\ Kind(TypeOf(value)) = Kind(OperationType(initialState, x, types))
  BY Zenon DEF Sound
<1>3. /\ n \in rule.arity
      /\ \A i \in 1..n : types[i] \notin Errors /\ (rule.args # "any" => types[i] = rule.args)
      /\ OperationType(initialState, x, types) = rule.result
  BY <1>2 DEF OperationType, Errors
<1>4. \A i \in 1..n : \/ values[i] = DomainError
                      \/ ~Failed(values[i]) /\ Kind(TypeOf(values[i])) = Kind(types[i])
  BY <1>3, Zenon DEF Sound
<1>5. CASE \E i \in 1..n : Failed(values[i])
  <2>1. Len(values) \in 0..2
    BY <1>1, <1>3, OperationRules
  <2>2. FirstFailed(values) = DomainError
    BY <1>4, <1>5, <2>1, FirstFailedIsDomainError, Zenon
  <2>3. ApplyOperation(x.op, values) = FirstFailed(values)
    BY <1>3, <1>5 DEF ApplyOperation
  <2> QED BY <2>2, <2>3, Zenon
<1>6. CASE \A i \in 1..n : ~Failed(values[i])
  <2>1. ASSUME NEW i \in 1..n, Takes(x.op) # "any" PROVE TypeOf(values[i]) = Takes(x.op)
    <3>1. Kind(TypeOf(values[i])) = Kind(types[i])
      <4>1. Failed(DomainError)
        BY DEF Failed, DomainError, Value, Node, TypeOf, Errors
      <4>2. values[i] # DomainError
        BY <1>6, <2>1, <4>1, Zenon
      <4> QED BY <1>4, <2>1, <4>2, Zenon
    <3>2. types[i] \in {"number", "boolean"} /\ types[i] = Takes(x.op)
      BY <1>1, <1>3, <2>1, OperationRules
    <3> QED BY <3>1, <3>2, KindOfScalar
  <2>2. ApplyOperation(x.op, values) = Computed(x.op, values)
    BY <1>3, <1>6, <2>1 DEF ApplyOperation
  <2> QED BY <1>1, <1>3, <2>2, ComputedType, Zenon
<1> QED BY <1>5, <1>6, Zenon

\* What an accepted path leads to has the kind the validator saw there.
LEMMA PathSound ==
  ASSUME NEW initialState, WellFormed(initialState), NEW s, Fits(initialState, s),
         NEW path \in Path
  PROVE  Sound(Read(initialState, path).type, ResolvePath(s, path))
<1>1. CASE path \in DOMAIN initialState
  <2>1. path \in DOMAIN s /\ Kind(s[path].type) = Kind(initialState[path].type)
    BY <1>1, Zenon DEF Fits
  <2>2. TypeOf(ResolvePath(s, path)) = s[path].type
    BY <2>1, PartAtRoot, Zenon DEF ResolvePath
  <2>3. initialState[path].type \in ValueTypes
    BY <1>1 DEF WellFormed
  <2>4. s[path].type \notin Errors
    BY <2>1, <2>3 DEF Kind, ListTypes, ValueTypes, Errors
  <2>5. Read(initialState, path) = initialState[path]
    BY <1>1, Zenon DEF Read
  <2> QED BY <2>1, <2>2, <2>4, <2>5, Zenon DEF Sound, Failed
<1>2. CASE path \notin DOMAIN initialState
  BY <1>2 DEF Read, Node, Sound, Errors
<1> QED BY <1>1, <1>2, Zenon

\* A literal is what the validator takes it for.
LEMMA LiteralSound ==
  ASSUME NEW v, WellFormed(v)
  PROVE  Sound(TypeOf(v), v) /\ TypeOf(v) \in ValueTypes /\ ~Failed(v)
<1>1. v[<<>>].type \in ValueTypes
  BY DEF WellFormed
<1> QED BY <1>1 DEF Sound, Failed, TypeOf, ValueTypes, ListTypes, Errors

\* The depth is counted from one by the validator, and a literal has none; from
\* zero by the evaluator, where a literal has one.  So the limits agree.
LEMMA LevelsSound ==
  ASSUME NEW initialState, WellFormed(initialState), NEW s, Fits(initialState, s),
         NEW m \in Nat, NEW f, NEW g,
         TypeTable(initialState, m + 1, f), ValueTable(s, m + 1, g)
  PROVE  \A left \in 0..m : \A x \in Expressions : Sound(f[<<left, x>>], g[<<left + 1, x>>])
<1> DEFINE Level(left) == \A x \in Expressions : Sound(f[<<left, x>>], g[<<left + 1, x>>])
<1> DEFINE S == {left \in Nat : left <= m => Level(left)}
<1>1. ASSUME NEW left \in 0..m, NEW x \in Expressions
      PROVE  /\ f[<<left, x>>] = TypeStep(initialState, f, <<left, x>>)
             /\ g[<<left + 1, x>>] = ValueStep(s, g, <<left + 1, x>>)
  <2>1. <<left, x>> \in (0..(m + 1)) \X Expressions /\ <<left + 1, x>> \in (0..(m + 1)) \X Expressions
    BY <1>1
  <2> QED BY <2>1, Zenon DEF TypeTable, ValueTable
<1>2. ASSUME NEW left \in 0..m, NEW x \in Expressions, left # 0 => Level(left - 1)
      PROVE  Sound(f[<<left, x>>], g[<<left + 1, x>>])
  <2>1. CASE x.shape = "literal"
    <3>1. f[<<left, x>>] = TypeOf(x.value)
      BY <1>1, <1>2, <2>1 DEF TypeStep
    <3>2. ValueStep(s, g, <<left + 1, x>>) = x.value
      BY <2>1, left + 1 # 0 DEF ValueStep
    <3>3. WellFormed(x.value)
      BY <2>1, Shapes
    <3> QED BY <1>1, <3>1, <3>2, <3>3, LiteralSound, Zenon
  <2>2. CASE x.shape # "literal" /\ left = 0
    <3>1. f[<<left, x>>] = "typeError"
      BY <1>1, <1>2, <2>2 DEF TypeStep
    <3> QED BY <3>1 DEF Sound, Errors
  <2>3. CASE x.shape = "path" /\ left # 0
    <3>1. f[<<left, x>>] = Read(initialState, x.path).type
      BY <1>1, <1>2, <2>3 DEF TypeStep
    <3>2. ValueStep(s, g, <<left + 1, x>>) = ResolvePath(s, x.path)
      BY <2>3, left + 1 # 0 DEF ValueStep
    <3>3. x.path \in Path
      BY <2>3, Shapes
    <3> QED BY <1>1, <3>1, <3>2, <3>3, PathSound, Zenon
  <2>4. CASE x.shape = "expression" /\ left # 0
    <3> DEFINE types == [i \in 1..Len(x.args) |-> f[<<left - 1, x.args[i]>>]]
    <3> DEFINE values == [i \in 1..Len(x.args) |-> g[<<left, x.args[i]>>]]
    <3>1. f[<<left, x>>] = OperationType(initialState, x, types)
      BY <1>1, <1>2, <2>4 DEF TypeStep
    <3>2. g[<<left + 1, x>>] = ApplyOperation(x.op, values)
      <4>1. left + 1 # 0 /\ (left + 1) - 1 = left
        BY <1>2
      <4>2. ValueStep(s, g, <<left + 1, x>>) =
              ApplyOperation(x.op, [i \in 1..Len(x.args) |-> g[<<(left + 1) - 1, x.args[i]>>]])
        BY <2>4, <4>1 DEF ValueStep
      <4> QED BY <1>1, <1>2, <4>1, <4>2, Zenon
    <3>3. Len(values) = Len(x.args)
      BY <2>4, Shapes
    <3>4. ASSUME NEW i \in 1..Len(x.args) PROVE Sound(types[i], values[i])
      <4>1. x.args[i] \in Expressions
        BY <2>4, <3>4, Shapes, Zenon
      <4>2. (left - 1) + 1 = left
        BY <1>2
      <4>3. Sound(f[<<left - 1, x.args[i]>>], g[<<(left - 1) + 1, x.args[i]>>])
        BY <1>2, <2>4, <4>1, Zenon
      <4> QED BY <3>4, <4>2, <4>3, Zenon
    <3> HIDE DEF types, values
    <3> QED BY <2>4, <3>1, <3>2, <3>3, <3>4, OperationSound
  <2> QED BY <2>1, <2>2, <2>3, <2>4, Shapes, Zenon
<1>3. 0 \in S
  BY <1>2
<1>4. ASSUME NEW n \in Nat, n \in S PROVE n + 1 \in S
  <2>1. n + 1 \in Nat /\ (n + 1) - 1 = n /\ n + 1 # 0
    OBVIOUS
  <2>2. ASSUME n + 1 <= m PROVE Level(n + 1)
    <3>1. n <= m /\ n + 1 \in 0..m
      BY <2>2
    <3>2. Level((n + 1) - 1)
      BY <1>4, <2>1, <3>1, Zenon
    <3> QED BY <1>2, <3>1, <3>2, Zenon
  <2> QED BY <2>1, <2>2, Zenon
<1>5. \A n \in Nat : n \in S
  <2> HIDE DEF S
  <2> QED BY <1>3, <1>4, Induction, Zenon
<1>6. ASSUME NEW left \in 0..m PROVE Level(left)
  <2>1. left \in Nat /\ left <= m
    BY <1>6
  <2> QED BY <1>5, <2>1, Zenon
<1> QED BY <1>6, Zenon

\* Type soundness: an expression that the validator gives a type evaluates, in
\* every state that fits, to a value of its kind, or has none for its numbers.
LEMMA ExpressionSound ==
  ASSUME NEW initialState, WellFormed(initialState), NEW s, Fits(initialState, s),
         NEW e \in Expressions
  PROVE  Sound(ExpressionType(initialState, e), Evaluate(e, s))
<1>1. PICK f : /\ TypeTable(initialState, MaxExpressionDepth + 1, f)
               /\ \A x : ExpressionType(initialState, x) = f[<<MaxExpressionDepth, x>>]
  BY TypeEquation, Zenon
<1>2. PICK g : /\ ValueTable(s, MaxExpressionDepth + 1, g)
               /\ \A x : Evaluate(x, s) = g[<<MaxExpressionDepth + 1, x>>]
  BY ValueEquation, Zenon
<1>3. MaxExpressionDepth \in Nat
  BY NativeCardsAssumption DEF NativeCardsAssumption
<1>4. MaxExpressionDepth \in 0..MaxExpressionDepth
  BY <1>3
<1>5. Sound(f[<<MaxExpressionDepth, e>>], g[<<MaxExpressionDepth + 1, e>>])
  BY <1>1, <1>2, <1>3, <1>4, LevelsSound, Zenon
<1> QED BY <1>1, <1>2, <1>5, Zenon

\* What an expression that is a literal or a path evaluates to.
AtomValue(s, x) == IF x.shape = "literal" THEN x.value ELSE ResolvePath(s, x.path)

\* In initialState an atom has the number that the validator takes for it.
LEMMA StaticNumberIsEvaluated ==
  ASSUME NEW s, WellFormed(s), NEW x \in Expressions, x.shape # "expression",
         StaticNumber(s, x).type # "typeError"
  PROVE  /\ StaticNumber(s, x) \in [type : ValueTypes, n : Int]
         /\ TypeOf(AtomValue(s, x)) = StaticNumber(s, x).type
         /\ NumberOf(AtomValue(s, x)) = StaticNumber(s, x).n
<1>1. CASE x.shape = "literal"
  <2>1. StaticNumber(s, x) = x.value[<<>>] /\ AtomValue(s, x) = x.value
    BY <1>1 DEF StaticNumber, AtomValue
  <2>2. WellFormed(x.value)
    BY <1>1, Shapes
  <2> QED BY <2>1, <2>2 DEF WellFormed, TypeOf, NumberOf
<1>2. CASE x.shape = "path"
  <2>1. StaticNumber(s, x) = Read(s, x.path) /\ AtomValue(s, x) = ResolvePath(s, x.path)
    BY <1>2 DEF StaticNumber, AtomValue
  <2>2. x.path \in DOMAIN s /\ Read(s, x.path) = s[x.path]
    BY <2>1 DEF Read, Node
  <2>3. x.path \in Path
    BY <1>2, Shapes
  <2>4. s[x.path] \in [type : ValueTypes, n : Int]
    BY <2>2 DEF WellFormed
  <2>5. AtomValue(s, x) = Part(s, x.path)
    BY <2>1, <2>2 DEF ResolvePath
  <2> QED BY <2>1, <2>2, <2>3, <2>4, <2>5, PartAtRoot
<1> QED BY <1>1, <1>2, Shapes

\* So the constraints that the validator checks of literals and of initialState
\* hold: an accepted operation of atoms has a value there.
LEMMA StaticConstraint ==
  ASSUME NEW s, WellFormed(s), NEW x \in Expressions, x.shape = "expression",
         NEW types, NEW values, Len(values) = Len(x.args),
         \A i \in 1..Len(x.args) :
           /\ x.args[i].shape # "expression"
           /\ types[i] \in {StaticNumber(s, x.args[i]).type, "typeError"}
           /\ values[i] = AtomValue(s, x.args[i]),
         OperationType(s, x, types) \notin Errors
  PROVE  ApplyOperation(x.op, values) # DomainError
<1> DEFINE rule == Operations[x.op]
<1> DEFINE n == Len(x.args)
<1> DEFINE last == StaticNumber(s, x.args[n])
<1>1. x.op \in DOMAIN Operations /\ n \in Nat /\ \A i \in 1..n : x.args[i] \in Expressions
  BY Shapes
<1>2. /\ n \in rule.arity
      /\ \A i \in 1..n : types[i] \notin Errors /\ (rule.args # "any" => types[i] = rule.args)
      /\ ~(rule.constraint = "nonNegative" /\ last.type = "number" /\ last.n < 0)
      /\ ~(rule.constraint = "nonZeroDivisor" /\ last = Node("number", 0))
  BY DEF OperationType, Errors
<1>3. ASSUME NEW i \in 1..n
      PROVE  /\ StaticNumber(s, x.args[i]) \in [type : ValueTypes, n : Int]
             /\ types[i] = StaticNumber(s, x.args[i]).type
             /\ TypeOf(values[i]) = StaticNumber(s, x.args[i]).type
             /\ NumberOf(values[i]) = StaticNumber(s, x.args[i]).n
             /\ ~Failed(values[i])
  <2>1. types[i] = StaticNumber(s, x.args[i]).type /\ types[i] \notin Errors
    BY <1>2, <1>3 DEF Errors
  <2>2. StaticNumber(s, x.args[i]).type # "typeError"
    BY <2>1 DEF Errors
  <2>3. x.args[i] \in Expressions /\ x.args[i].shape # "expression" /\ values[i] = AtomValue(s, x.args[i])
    BY <1>1, <1>3, Zenon
  <2>4. /\ StaticNumber(s, x.args[i]) \in [type : ValueTypes, n : Int]
        /\ TypeOf(values[i]) = StaticNumber(s, x.args[i]).type
        /\ NumberOf(values[i]) = StaticNumber(s, x.args[i]).n
    BY <2>2, <2>3, StaticNumberIsEvaluated
  <2>5. ~Failed(values[i])
    BY <2>1, <2>4, Zenon DEF Failed
  <2> QED BY <2>1, <2>4, <2>5, Zenon
<1>4. \A op, m : Value(op, m)[<<>>].type = op
  BY DEF Value, Node
<1>5. CASE x.op = "divide"
  <2>1. n = 2 /\ rule.args = "number" /\ rule.constraint = "nonZeroDivisor"
    <3>1. rule = [arity |-> {2}, args |-> "number", result |-> "number", constraint |-> "nonZeroDivisor"]
      BY <1>5 DEF Operations
    <3> HIDE DEF rule
    <3> QED BY <1>2, <3>1
  <2>2. last # Node("number", 0) /\ last \in [type : ValueTypes, n : Int] /\ last.type = "number"
    <3>1. n \in 1..n /\ types[n] = "number"
      BY <1>2, <2>1
    <3> QED BY <1>2, <1>3, <2>1, <3>1, Zenon
  <2>3. NumberOf(values[n]) # 0
    BY <1>3, <2>1, <2>2 DEF Node
  <2>4. Computed(x.op, values) # DomainError
    BY <1>4, <1>5, <2>3 DEF Computed, DomainError, Quotient, Number
  <2> QED BY <1>2, <1>3, <1>4, <2>4 DEF ApplyOperation, TypeError, DomainError
<1>6. CASE x.op = "formatDuration"
  <2>1. n = 1 /\ rule.args = "number" /\ rule.constraint = "nonNegative"
    <3>1. rule = [arity |-> {1}, args |-> "number", result |-> "string", constraint |-> "nonNegative"]
      BY <1>6 DEF Operations
    <3> HIDE DEF rule
    <3> QED BY <1>2, <3>1
  <2>2. last \in [type : ValueTypes, n : Int] /\ last.type = "number" /\ ~(last.n < 0)
    <3>1. n \in 1..n /\ types[n] = "number"
      BY <1>2, <2>1
    <3> QED BY <1>2, <1>3, <2>1, <3>1, Zenon
  <2>3. ~(NumberOf(values[n]) < 0)
    BY <1>3, <2>1, <2>2
  <2>4. Computed(x.op, values) # DomainError
    BY <1>4, <1>6, <2>3 DEF Computed, DomainError, Text
  <2> QED BY <1>2, <1>3, <1>4, <2>4 DEF ApplyOperation, TypeError, DomainError
<1>7. CASE x.op \notin {"divide", "formatDuration"}
  <2>1. Computed(x.op, values) # DomainError
    BY <1>1, <1>4, <1>7 DEF Computed, DomainError, Text, Flag, Number, Operations
  <2> QED BY <1>2, <1>3, <1>4, <2>1 DEF ApplyOperation, TypeError, DomainError
<1> QED BY <1>5, <1>6, <1>7, Zenon

\* The state a card starts with fits.
LEMMA FitsItself ==
  ASSUME NEW s
  PROVE  Fits(s, s)
BY Zenon DEF Fits

\* In initialState itself an accepted expression has no value only for an argument
\* that is computed.
LEMMA StartSound ==
  ASSUME NEW s, WellFormed(s), NEW e \in Expressions,
         ExpressionType(s, e) \notin Errors, Evaluate(e, s) = DomainError
  PROVE  /\ e.shape = "expression"
         /\ \E i \in 1..Len(e.args) : e.args[i].shape = "expression"
<1> DEFINE limit == MaxExpressionDepth
<1>1. PICK f : /\ TypeTable(s, limit + 1, f)
               /\ \A x : ExpressionType(s, x) = f[<<limit, x>>]
  BY TypeEquation, Zenon
<1>2. PICK g : /\ ValueTable(s, limit + 1, g)
               /\ \A x : Evaluate(x, s) = g[<<limit + 1, x>>]
  BY ValueEquation, Zenon
<1>3. limit \in Nat
  BY NativeCardsAssumption DEF NativeCardsAssumption
<1>4. ASSUME NEW left \in 0..(limit + 1), NEW x \in Expressions
      PROVE  /\ f[<<left, x>>] = TypeStep(s, f, <<left, x>>)
             /\ g[<<left, x>>] = ValueStep(s, g, <<left, x>>)
  <2>1. <<left, x>> \in (0..(limit + 1)) \X Expressions
    BY <1>4
  <2> QED BY <1>1, <1>2, <2>1, Zenon DEF TypeTable, ValueTable
<1>5. ExpressionType(s, e) = TypeStep(s, f, <<limit, e>>) /\ Evaluate(e, s) = ValueStep(s, g, <<limit + 1, e>>)
  <2>1. limit \in 0..(limit + 1) /\ limit + 1 \in 0..(limit + 1)
    BY <1>3
  <2> QED BY <1>1, <1>2, <1>4, <2>1, Zenon
<1>6. Failed(DomainError)
  BY DEF Failed, DomainError, Value, Node, TypeOf, Errors
<1>7. CASE e.shape = "literal"
  <2>1. Evaluate(e, s) = e.value
    BY <1>3, <1>5, <1>7 DEF ValueStep
  <2>2. WellFormed(e.value)
    BY <1>7, Shapes
  <2> QED BY <1>6, <2>1, <2>2, LiteralSound
<1>8. CASE e.shape = "path"
  <2>1. Evaluate(e, s) = ResolvePath(s, e.path)
    BY <1>3, <1>5, <1>8 DEF ValueStep
  <2>2. limit # 0
    BY <1>3, <1>5, <1>8 DEF TypeStep, Errors
  <2>3. Read(s, e.path).type \notin Errors
    BY <1>3, <1>5, <1>8, <2>2 DEF TypeStep
  <2>4. e.path \in Path
    BY <1>8, Shapes
  <2>5. e.path \in DOMAIN s /\ s[e.path].type \notin Errors
    BY <2>3 DEF Read, Node, Errors
  <2>6. ~Failed(ResolvePath(s, e.path))
    BY <2>4, <2>5, PartAtRoot DEF ResolvePath, Failed
  <2> QED BY <1>6, <2>1, <2>6, Zenon
<1>9. CASE e.shape = "expression"
  <2> SUFFICES ASSUME \A i \in 1..Len(e.args) : e.args[i].shape # "expression"
               PROVE  FALSE
    BY <1>9
  <2>1. limit # 0
    BY <1>3, <1>5, <1>9 DEF TypeStep, Errors
  <2> DEFINE types == [i \in 1..Len(e.args) |-> f[<<limit - 1, e.args[i]>>]]
  <2> DEFINE values == [i \in 1..Len(e.args) |-> g[<<limit, e.args[i]>>]]
  <2>2. ExpressionType(s, e) = OperationType(s, e, types)
    BY <1>3, <1>5, <1>9, <2>1 DEF TypeStep
  <2>3. Evaluate(e, s) = ApplyOperation(e.op, values)
    <3>1. limit + 1 # 0 /\ (limit + 1) - 1 = limit
      BY <1>3
    <3>2. ValueStep(s, g, <<limit + 1, e>>) =
            ApplyOperation(e.op, [i \in 1..Len(e.args) |-> g[<<(limit + 1) - 1, e.args[i]>>]])
      BY <1>9, <3>1 DEF ValueStep
    <3> QED BY <1>5, <3>1, <3>2, Zenon
  <2>4. Len(values) = Len(e.args)
    BY <1>9, Shapes
  <2>5. ASSUME NEW i \in 1..Len(e.args)
        PROVE  /\ e.args[i].shape # "expression"
               /\ types[i] \in {StaticNumber(s, e.args[i]).type, "typeError"}
               /\ values[i] = AtomValue(s, e.args[i])
    <3> DEFINE x == e.args[i]
    <3>1. x \in Expressions /\ x.shape \in {"literal", "path"}
      BY <1>9, <2>5, Shapes
    <3>2. limit - 1 \in 0..(limit + 1) /\ limit \in 0..(limit + 1) /\ limit - 1 \in Nat
      BY <1>3, <2>1
    <3>3. types[i] = TypeStep(s, f, <<limit - 1, x>>) /\ values[i] = ValueStep(s, g, <<limit, x>>)
      BY <1>4, <2>5, <3>1, <3>2, Zenon
    <3> HIDE DEF x
    <3>4. TypeStep(s, f, <<limit - 1, x>>) \in {StaticNumber(s, x).type, "typeError"}
      BY <3>1, <3>2 DEF TypeStep, StaticNumber, TypeOf
    <3>5. ValueStep(s, g, <<limit, x>>) = AtomValue(s, x)
      BY <2>1, <3>1 DEF ValueStep, AtomValue
    <3> QED BY <2>5, <3>3, <3>4, <3>5, Zenon DEF x
  <2> HIDE DEF types, values
  <2>6. ApplyOperation(e.op, values) # DomainError
    BY <1>9, <2>2, <2>4, <2>5, StaticConstraint, Zenon
  <2> QED BY <2>3, <2>6, Zenon
<1> QED BY <1>7, <1>8, <1>9, Shapes, Zenon

-------------------------------------------------------------------------------
(* The controller. *)

EventActions(d) == {d.onPressed[i] : i \in 1..Len(d.onPressed)}

\* What is known of a document that the validator has accepted.
LEMMA Accepted ==
  ASSUME NEW d \in Documents, Validate(d)
  PROVE  /\ WellFormed(d.initialState)
         /\ d.prop.value \in Expressions
         /\ ValidateValue(d.initialState, d.prop.value, d.prop.type)
         /\ d.control.writes # "nothing" =>
              /\ d.control.path \in Path \ {<<>>}
              /\ d.control.path \in DOMAIN d.initialState
         /\ d.onPressed \in Seq(EventActions(d))
         /\ \A a \in EventActions(d) : ActionWellFormed(a) /\ ValidateAction(d.initialState, a)
<1>1. DocumentWellFormed(d)
  BY NativeCardsAssumption DEF NativeCardsAssumption
<1>2. ValidateNode(d)
  BY Zenon DEF Validate
<1>3. \A a \in EventActions(d) : ActionWellFormed(a) /\ ValidateAction(d.initialState, a)
  BY <1>1, <1>2, Zenon DEF DocumentWellFormed, ValidateNode, EventActions
<1>4. d.onPressed \in Seq(EventActions(d))
  BY <1>1, Zenon DEF DocumentWellFormed, EventActions
<1>5. ASSUME d.control.writes # "nothing" PROVE d.control.path \in DOMAIN d.initialState
  <2>1. Read(d.initialState, d.control.path).type # "typeError"
    BY <1>2, <1>5, Zenon DEF ValidateNode
  <2> QED BY <2>1 DEF Read, Node
<1> QED BY <1>1, <1>2, <1>3, <1>4, <1>5, Zenon DEF DocumentWellFormed, ValidateNode

\* A value that the validator accepts has a type, one that its place takes.
LEMMA ValueAccepted ==
  ASSUME NEW initialState, NEW e \in Expressions, NEW type, ValidateValue(initialState, e, type)
  PROVE  /\ ExpressionType(initialState, e) \notin Errors
         /\ type = "any" \/ Kind(ExpressionType(initialState, e)) = Kind(type)
<1>1. CASE e.shape = "literal"
  <2>1. PICK f : /\ TypeTable(initialState, MaxExpressionDepth + 1, f)
                 /\ \A x : ExpressionType(initialState, x) = f[<<MaxExpressionDepth, x>>]
    BY TypeEquation, Zenon
  <2>2. <<MaxExpressionDepth, e>> \in (0..(MaxExpressionDepth + 1)) \X Expressions
    BY NativeCardsAssumption DEF NativeCardsAssumption
  <2>3. ExpressionType(initialState, e) = TypeStep(initialState, f, <<MaxExpressionDepth, e>>)
    BY <2>1, <2>2, Zenon DEF TypeTable
  <2>4. ExpressionType(initialState, e) = TypeOf(e.value)
    BY <1>1, <2>3 DEF TypeStep
  <2>5. TypeOf(e.value) \in ValueTypes
    BY <1>1, Shapes, LiteralSound
  <2>6. ValidateLiteralValue(e.value, type)
    BY <1>1 DEF ValidateValue
  <2> QED BY <2>4, <2>5, <2>6 DEF ValidateLiteralValue, Kind, ValueTypes, ListTypes, Errors
<1>2. CASE e.shape # "literal"
  <2>1. /\ ExpressionType(initialState, e) \notin Errors
        /\ CompatibleValueType(ExpressionType(initialState, e), type)
    BY <1>2 DEF ValidateValue
  <2> QED BY <2>1 DEF CompatibleValueType, Kind, ListTypes
<1> QED BY <1>1, <1>2

\* What a value of one node is.
LEMMA TypeOfValue ==
  /\ \A type, n : TypeOf(Value(type, n)) = type /\ NumberOf(Value(type, n)) = n
  /\ TypeOf(DomainError) = "domainError" /\ TypeOf(TypeError) = "typeError"
BY DEF TypeOf, NumberOf, Value, Node, DomainError, TypeError

\* An accepted value is one, unless the reason lies in its numbers.
LEMMA ValueSound ==
  ASSUME NEW initialState, WellFormed(initialState), NEW s, Fits(initialState, s),
         NEW e \in Expressions, NEW type, ValidateValue(initialState, e, type)
  PROVE  \/ Evaluate(e, s) = DomainError
         \/ /\ ~Failed(Evaluate(e, s))
            /\ type = "any" \/ Kind(TypeOf(Evaluate(e, s))) = Kind(type)
<1>1. Sound(ExpressionType(initialState, e), Evaluate(e, s))
  BY ExpressionSound, Zenon
<1>2. /\ ExpressionType(initialState, e) \notin Errors
      /\ type = "any" \/ Kind(ExpressionType(initialState, e)) = Kind(type)
  BY ValueAccepted, Zenon
<1> QED BY <1>1, <1>2, Zenon DEF Sound

\* What an accepted action makes of a state that fits is no type error.
LEMMA NewValueSound ==
  ASSUME NEW initialState, WellFormed(initialState), NEW s, Fits(initialState, s),
         NEW a, ActionWellFormed(a), ValidateAction(initialState, a),
         a.type \in {"set", "increment", "toggle", "append", "remove"}
  PROVE  TypeOf(NewValue(a.type, Read(s, a.path), Evaluate(a.value, s))) # "typeError"
<1> DEFINE current == Read(s, a.path)
<1> DEFINE value == Evaluate(a.value, s)
<1>1. /\ a.type \in {"set", "append", "remove"} => ValidateValue(initialState, a.value, "any")
      /\ a.type = "increment" => ValidateValue(initialState, a.value, "number")
      /\ ValidateActionTarget(initialState, a.type, a.path)
  BY DEF ValidateAction
<1>2. a.type # "toggle" => a.value \in Expressions
  BY DEF ActionWellFormed
<1>3. a.type # "toggle" => value = DomainError \/ ~Failed(value)
  BY <1>1, <1>2, ValueSound
<1>4. ASSUME a.path \in DOMAIN initialState
      PROVE  Kind(current.type) = Kind(Read(initialState, a.path).type)
  BY <1>4, Zenon DEF Fits, Read
<1>5. CASE a.type = "set"
  <2>1. NewValue(a.type, current, value) = value
    BY <1>5 DEF NewValue
  <2> QED BY <1>3, <1>5, <2>1, TypeOfValue DEF Failed, Errors
<1>6. CASE a.type = "increment"
  <2>1. Read(initialState, a.path).type = "number"
    BY <1>1, <1>6 DEF ValidateActionTarget
  <2>2. current.type = "number"
    <3>1. a.path \in DOMAIN initialState
      BY <2>1 DEF Read, Node
    <3>2. Kind(current.type) = Kind(Read(initialState, a.path).type)
      BY <1>4, <3>1, Zenon
    <3> HIDE DEF current
    <3> QED BY <2>1, <3>2 DEF Kind, ListTypes
  <2>3. value = DomainError \/ (~Failed(value) /\ Kind(TypeOf(value)) = Kind("number"))
    BY <1>1, <1>2, <1>6, ValueSound
  <2>4. value = DomainError \/ TypeOf(value) = "number"
    BY <2>3, KindOfScalar
  <2> HIDE DEF current, value
  <2>5. NewValue(a.type, current, value) =
          IF Failed(value) THEN value
          ELSE IF TypeOf(value) = "number" THEN Number(current.n + NumberOf(value)) ELSE TypeError
    BY <1>6, <2>2 DEF NewValue
  <2>6. TypeOf(NewValue(a.type, current, value)) # "typeError"
    BY <2>4, <2>5, TypeOfValue DEF Number, Failed, Errors
  <2> QED BY <2>6, Zenon DEF current, value
<1>7. CASE a.type = "toggle"
  <2>1. Read(initialState, a.path).type = "boolean"
    BY <1>1, <1>7 DEF ValidateActionTarget
  <2>2. current.type = "boolean"
    <3>1. a.path \in DOMAIN initialState
      BY <2>1 DEF Read, Node
    <3>2. Kind(current.type) = Kind(Read(initialState, a.path).type)
      BY <1>4, <3>1, Zenon
    <3> HIDE DEF current
    <3> QED BY <2>1, <3>2 DEF Kind, ListTypes
  <2> HIDE DEF current, value
  <2>3. NewValue(a.type, current, value) = Flag(current.n = 0)
    BY <1>7, <2>2 DEF NewValue
  <2>4. TypeOf(NewValue(a.type, current, value)) # "typeError"
    BY <2>3, TypeOfValue DEF Flag
  <2> QED BY <2>4, Zenon DEF current, value
<1>8. CASE a.type \in {"append", "remove"}
  <2>1. Read(initialState, a.path).type \in ListTypes
    BY <1>1, <1>8 DEF ValidateActionTarget
  <2>2. current.type \in ListTypes
    <3>1. a.path \in DOMAIN initialState
      BY <2>1 DEF Read, Node, ListTypes
    <3>2. Kind(current.type) = Kind(Read(initialState, a.path).type)
      BY <1>4, <3>1, Zenon
    <3> HIDE DEF current
    <3> QED BY <2>1, <3>2 DEF Kind, ListTypes
  <2> HIDE DEF current, value
  <2>3. NewValue(a.type, current, value) =
          IF Failed(value) THEN value
          ELSE IF a.type = "append" THEN Appended(current, value) ELSE Removed(current, value)
    BY <1>8, <2>2 DEF NewValue
  <2>4. \A type, n : type # "typeError" => TypeOf(List(type, n)) # "typeError"
    BY TypeOfValue DEF List
  <2>5. TypeOf(Appended(current, value)) # "typeError"
    BY <2>4 DEF Appended
  <2>6. TypeOf(Removed(current, value)) # "typeError"
    BY <2>2, <2>4, TypeOfValue DEF Removed, ListTypes
  <2>7. value = DomainError \/ ~Failed(value)
    BY <1>3, <1>8, Zenon DEF value
  <2>8. TypeOf(NewValue(a.type, current, value)) # "typeError"
    BY <2>3, <2>5, <2>6, <2>7, TypeOfValue DEF Failed, Errors
  <2> QED BY <2>8, Zenon DEF current, value
<1> QED BY <1>5, <1>6, <1>7, <1>8

\* A timer counts at a path where initialState has a number.
TimersFit(d, ts) ==
  \A path \in DOMAIN ts :
    path \in DOMAIN d.initialState /\ d.initialState[path].type = "number"

\* What may wait behind a call is of the event.
CallOf(d) == [path : Path, rest : Seq(EventActions(d)), waits : BOOLEAN]

\* A run of an accepted document's actions: it breaks off only where the state
\* does not fit.
RunOK(d, run) ==
  /\ run = [state |-> run.state, timers |-> run.timers, call |-> run.call, ends |-> run.ends]
  /\ TimersFit(d, run.timers)
  /\ run.call \in CallOf(d)
  /\ run.ends = "typeError" => ~Fits(d.initialState, run.state)

\* A path with a parent that initialState has can be written as long as the
\* state fits.
LEMMA WritableWhereItFits ==
  ASSUME NEW initialState, NEW s, Fits(initialState, s), NEW path,
         WritableStatePath(initialState, path)
  PROVE  Writable(s, path)
<1>1. CASE Len(path) = 1
  BY <1>1 DEF Writable
<1>2. CASE Read(initialState, Front(path)).type = "object"
  <2> DEFINE parent == Front(path)
  <2>1. parent \in DOMAIN initialState /\ initialState[parent].type = "object"
    BY <1>2 DEF Read, Node
  <2>2. parent \in DOMAIN s /\ Kind(s[parent].type) = Kind(initialState[parent].type)
    BY <2>1, Zenon DEF Fits
  <2>3. s[parent].type = "object"
    BY <2>1, <2>2 DEF Kind, ListTypes
  <2> QED BY <2>2, <2>3, Zenon DEF Writable
<1> QED BY <1>1, <1>2, Zenon DEF WritableStatePath

\* Every path of initialState has its parent there.
LEMMA ExistingPathIsWritable ==
  ASSUME NEW initialState, WellFormed(initialState),
         NEW path \in DOMAIN initialState, path # <<>>
  PROVE  WritableStatePath(initialState, path)
<1>1. path \in Seq(STRING) /\ Len(path) \in Nat /\ Len(path) # 0
  BY DEF WellFormed, Path
<1>2. Len(path) - 1 \in 0..(Len(path) - 1)
  BY <1>1
<1>3. Front(path) \in DOMAIN initialState /\ initialState[Front(path)].type = "object"
  BY <1>2, Zenon DEF WellFormed, Front
<1> QED BY <1>3 DEF WritableStatePath, Read

\* An accepted target can be written as long as the state fits.
LEMMA TargetIsWritable ==
  ASSUME NEW initialState, WellFormed(initialState), NEW a, ActionWellFormed(a),
         ValidateAction(initialState, a),
         a.type \in {"set", "increment", "toggle", "append", "remove"}
  PROVE  WritableStatePath(initialState, a.path)
<1>1. ValidateActionTarget(initialState, a.type, a.path) /\ a.path # <<>>
  BY DEF ValidateAction, ActionWellFormed
<1>2. CASE a.type = "set"
  BY <1>1, <1>2 DEF ValidateActionTarget
<1>3. CASE a.type \in {"increment", "toggle", "append", "remove"}
  <2>1. Read(initialState, a.path).type # "typeError"
    BY <1>1, <1>3 DEF ValidateActionTarget, ListTypes
  <2>2. a.path \in DOMAIN initialState
    BY <2>1 DEF Read, Node
  <2> QED BY <1>1, <2>2, ExistingPathIsWritable
<1> QED BY <1>2, <1>3

\* Writing an accepted value to an accepted target is no type error.
LEMMA WriteOK ==
  ASSUME NEW d, NEW run, RunOK(d, run), run.ends = "done", NEW path,
         WritableStatePath(d.initialState, path), NEW v,
         TypeOf(v) = "typeError" => ~Fits(d.initialState, run.state)
  PROVE  RunOK(d, Write(run, path, v))
<1>1. CASE Failed(v)
  <2>1. Write(run, path, v) = [run EXCEPT !.ends = TypeOf(v)]
    BY <1>1 DEF Write
  <2> QED BY <2>1 DEF RunOK
<1>2. CASE ~Failed(v) /\ ~Writable(run.state, path)
  <2>1. Write(run, path, v) = [run EXCEPT !.ends = "typeError"]
    BY <1>2 DEF Write
  <2>2. ~Fits(d.initialState, run.state)
    BY <1>2, WritableWhereItFits
  <2> QED BY <2>1, <2>2 DEF RunOK
<1>3. CASE ~Failed(v) /\ Writable(run.state, path)
  <2> DEFINE s == Written(run.state, path, v)
  <2>1. Write(run, path, v) = [run EXCEPT !.state = s]
    BY <1>3 DEF Write
  <2> HIDE DEF s
  <2> QED BY <2>1 DEF RunOK
<1> QED BY <1>1, <1>2, <1>3

\* Nor is an accepted action, in a state that fits.
LEMMA ApplyActionOK ==
  ASSUME NEW d \in Documents, Validate(d), NEW run, RunOK(d, run), run.ends = "done",
         NEW a \in EventActions(d), a.type # "capability.invoke"
  PROVE  RunOK(d, ApplyAction(run, a))
<1>1. WellFormed(d.initialState) /\ ActionWellFormed(a) /\ ValidateAction(d.initialState, a)
  BY Accepted
<1>2. CASE a.type = "startTimer"
  <2>1. a.timer.intervalMs \in Int /\ a.timer.intervalMs > 0
    BY <1>1, <1>2 DEF ActionWellFormed, ValidateAction, ValidateTimerConfiguration
  <2>2. Read(d.initialState, a.path).type = "number"
    BY <1>1, <1>2 DEF ValidateAction, ValidateActionTarget
  <2>3. a.path \in DOMAIN d.initialState /\ d.initialState[a.path].type = "number"
    BY <2>2 DEF Read, Node
  <2>4. CASE Read(run.state, a.path).type = "number"
    <3>1. ApplyAction(run, a) = [run EXCEPT !.timers = Started(run.timers, a.path, a.timer)]
      BY <1>2, <2>1, <2>4 DEF ApplyAction
    <3>2. TimersFit(d, Started(run.timers, a.path, a.timer))
      BY <2>3 DEF RunOK, TimersFit, Started
    <3> DEFINE ts == Started(run.timers, a.path, a.timer)
    <3> HIDE DEF ts
    <3>3. ApplyAction(run, a) = [run EXCEPT !.timers = ts] /\ TimersFit(d, ts)
      BY <3>1, <3>2, Zenon DEF ts
    <3> QED BY <3>3 DEF RunOK
  <2>5. CASE Read(run.state, a.path).type # "number"
    <3>1. ApplyAction(run, a) = [run EXCEPT !.ends = "typeError"]
      BY <1>2, <2>1, <2>5 DEF ApplyAction
    <3>2. ~Fits(d.initialState, run.state)
      BY <2>3, <2>5 DEF Fits, Read, Kind, ListTypes
    <3> QED BY <3>1, <3>2 DEF RunOK
  <2> QED BY <2>4, <2>5
<1>3. CASE a.type = "stopTimer"
  <2> DEFINE ts == Stopped(run.timers, a.path)
  <2>1. ApplyAction(run, a) = [run EXCEPT !.timers = ts]
    BY <1>3 DEF ApplyAction
  <2>2. TimersFit(d, ts)
    BY DEF RunOK, TimersFit, Stopped
  <2> HIDE DEF ts
  <2> QED BY <2>1, <2>2 DEF RunOK
<1>4. CASE a.type \in {"set", "increment", "toggle", "append", "remove"}
  <2> DEFINE v == NewValue(a.type, Read(run.state, a.path), Evaluate(a.value, run.state))
  <2>1. ApplyAction(run, a) = Write(run, a.path, v)
    BY <1>4 DEF ApplyAction
  <2>2. TypeOf(v) = "typeError" => ~Fits(d.initialState, run.state)
    BY <1>1, <1>4, NewValueSound, Zenon
  <2>3. WritableStatePath(d.initialState, a.path)
    BY <1>1, <1>4, TargetIsWritable, Zenon
  <2> HIDE DEF v
  <2> QED BY <2>1, <2>2, <2>3, WriteOK, Zenon
<1> QED BY <1>1, <1>2, <1>3, <1>4 DEF ActionWellFormed

\* Nor is it when it waits behind a call.
LEMMA ApplyActionAsyncOK ==
  ASSUME NEW d \in Documents, Validate(d), NEW run, RunOK(d, run), NEW a \in EventActions(d)
  PROVE  RunOK(d, ApplyActionAsync(run, a))
<1>1. CASE run.ends # "done"
  BY <1>1 DEF ApplyActionAsync
<1>2. CASE run.ends = "done" /\ run.call.waits
  <2> DEFINE c == [run.call EXCEPT !.rest = Append(run.call.rest, a)]
  <2>1. ApplyActionAsync(run, a) = [run EXCEPT !.call = c]
    BY <1>2 DEF ApplyActionAsync
  <2>2. c \in CallOf(d)
    BY DEF RunOK, CallOf
  <2> HIDE DEF c
  <2> QED BY <2>1, <2>2 DEF RunOK
<1>3. CASE run.ends = "done" /\ ~run.call.waits /\ a.type = "capability.invoke"
  <2> DEFINE c == [path |-> a.path, rest |-> <<>>, waits |-> TRUE]
  <2>1. ApplyActionAsync(run, a) = [run EXCEPT !.call = c]
    BY <1>3 DEF ApplyActionAsync
  <2>2. a.path \in Path
    BY Accepted DEF ActionWellFormed
  <2>3. c \in CallOf(d)
    BY <2>2 DEF CallOf
  <2> HIDE DEF c
  <2> QED BY <2>1, <2>3 DEF RunOK
<1>4. CASE run.ends = "done" /\ ~run.call.waits /\ a.type # "capability.invoke"
  <2>1. ApplyActionAsync(run, a) = ApplyAction(run, a)
    BY <1>4 DEF ApplyActionAsync
  <2> QED BY <1>4, <2>1, ApplyActionOK, Zenon
<1>5. run.call.waits \in BOOLEAN
  BY DEF RunOK, CallOf
<1> QED BY <1>1, <1>2, <1>3, <1>4

\* Nor is a run of accepted actions, as long as the state it leaves fits.
LEMMA ApplyActionsAsyncOK ==
  ASSUME NEW d \in Documents, Validate(d), NEW s, NEW ts, TimersFit(d, ts),
         NEW actions \in Seq(EventActions(d))
  PROVE  RunOK(d, ApplyActionsAsync(s, ts, actions))
<1>1. PICK f : RunEquations(s, ts, actions, f)
  <2>1. Len(actions) \in Nat
    OBVIOUS
  <2> QED BY <2>1, RunEquation, Zenon
<1> DEFINE S == {k \in Nat : k <= Len(actions) => RunOK(d, f[k])}
<1>2. 0 \in S
  <2>1. NoCall \in CallOf(d)
    BY DEF NoCall, CallOf, Path
  <2>2. RunOK(d, StartOfRun(s, ts))
    BY <2>1 DEF RunOK, StartOfRun
  <2>3. 0 \in Nat
    OBVIOUS
  <2> QED BY <1>1, <2>2, <2>3, Zenon DEF RunEquations
<1>3. ASSUME NEW n \in Nat, n \in S PROVE n + 1 \in S
  <2>1. n + 1 \in Nat /\ (n + 1) - 1 = n
    OBVIOUS
  <2>2. ASSUME n + 1 <= Len(actions) PROVE RunOK(d, f[n + 1])
    <3>1. n <= Len(actions) /\ n + 1 \in 1..Len(actions) /\ actions[n + 1] \in EventActions(d)
      BY <2>2
    <3>2. RunOK(d, f[n])
      BY <1>3, <3>1, Zenon
    <3>3. f[n + 1] = ApplyActionAsync(f[n], actions[n + 1])
      BY <1>1, <2>1, <3>1, Zenon DEF RunEquations
    <3> QED BY <3>1, <3>2, <3>3, ApplyActionAsyncOK, Zenon
  <2> QED BY <2>1, <2>2, Zenon
<1>4. \A n \in Nat : n \in S
  <2> HIDE DEF S
  <2> QED BY <1>2, <1>3, Induction, Zenon
<1>5. Len(actions) \in Nat /\ Len(actions) <= Len(actions)
  OBVIOUS
<1> QED BY <1>1, <1>4, <1>5, Zenon DEF RunEquations

-------------------------------------------------------------------------------
(* The specification. *)

\* What every step keeps.
NativeInv ==
  /\ document \in Documents /\ Validate(document)
  /\ TimersFit(document, timers)
  /\ call \in CallOf(document)
  /\ FailuresAreExplained

\* A new controller has no timers.
LEMMA NoTimers ==
  ASSUME NEW d
  PROVE  TimersFit(d, <<>>)
<1>1. DOMAIN <<>> = {}
  OBVIOUS
<1> QED BY <1>1 DEF TimersFit

\* It awaits no call.
LEMMA NoCallIsTyped ==
  ASSUME NEW d
  PROVE  NoCall \in CallOf(d)
BY DEF NoCall, CallOf, Path

\* An accepted card starts with the invariant.
LEMMA NativeInitInv == NativeInit => NativeInv
BY NoTimers, NoCallIsTyped DEF NativeInit, NativeInv, FailuresAreExplained

\* A run of accepted actions keeps the invariant.
LEMMA RanInv ==
  ASSUME NativeInv, NEW run, RunOK(document, run), Ran(run), UNCHANGED document
  PROVE  NativeInv'
<1>1. document' = document
  OBVIOUS
<1>2. state' = run.state /\ timers' = run.timers /\ call' = run.call /\ failure' = run.ends
  BY Zenon DEF Ran
<1>3. TimersFit(document, run.timers) /\ run.call \in CallOf(document)
      /\ (run.ends = "typeError" => ~Fits(document.initialState, run.state))
  BY Zenon DEF RunOK
<1>4. TimersFit(document, timers)'
  BY <1>1, <1>2, <1>3 DEF TimersFit
<1>5. (call \in CallOf(document))'
  BY <1>1, <1>2, <1>3, Zenon
<1>6. FailuresAreExplained'
  BY <1>1, <1>2, <1>3, Zenon DEF FailuresAreExplained
<1>7. (document \in Documents /\ Validate(document))'
  BY <1>1, Zenon DEF NativeInv
<1> QED BY <1>4, <1>5, <1>6, <1>7, Zenon DEF NativeInv

\* Every step keeps the invariant.
LEMMA NativeStepInv == NativeInv /\ [NativeNext]_cardVars => NativeInv'
<1> SUFFICES ASSUME NativeInv, [NativeNext]_cardVars PROVE NativeInv'
  OBVIOUS
<1> DEFINE i == document.initialState
<1>1. /\ document \in Documents /\ Validate(document) /\ WellFormed(i)
      /\ TimersFit(document, timers) /\ call \in CallOf(document)
      /\ document.onPressed \in Seq(EventActions(document))
  BY Accepted, Zenon DEF NativeInv
<1>2. CASE Press
  <2>1. RunOK(document, ApplyActionsAsync(state, timers, document.onPressed))
    BY <1>1, ApplyActionsAsyncOK, Zenon
  <2> QED BY <1>2, <2>1, RanInv, Zenon DEF Press
<1>3. call.rest \in Seq(EventActions(document))
  BY <1>1 DEF CallOf
<1>4. CASE SetCapabilityError
  <2>1. RunOK(document, ApplyActionsAsync(WithError(state), timers, call.rest))
    BY <1>1, <1>3, ApplyActionsAsyncOK, Zenon
  <2> QED BY <1>4, <2>1, RanInv, Zenon DEF SetCapabilityError
<1>5. ASSUME NEW v \in CallResults, ApplyCapability(v) PROVE NativeInv'
  <2>1. PICK s : Ran(ApplyActionsAsync(s, timers, call.rest)) /\ UNCHANGED document
    BY <1>5, Zenon DEF ApplyCapability
  <2>2. RunOK(document, ApplyActionsAsync(s, timers, call.rest))
    BY <1>1, <1>3, ApplyActionsAsyncOK, Zenon
  <2> QED BY <2>1, <2>2, RanInv, Zenon
<1>6. CASE Control
  <2> DEFINE run == [state |-> state, timers |-> timers, call |-> call, ends |-> "done"]
  <2> DEFINE path == document.control.path
  <2>1. PICK v \in {Text, Flag(TRUE), Flag(FALSE), Number(0), Number(1)} :
          Ran(Write(run, path, v))
    BY <1>6, Zenon DEF Control
  <2>2. path \in DOMAIN i /\ path # <<>>
    BY <1>1, <1>6, Accepted DEF Control
  <2>3. WritableStatePath(i, path)
    BY <1>1, <2>2, ExistingPathIsWritable, Zenon
  <2>4. TypeOf(v) # "typeError"
    BY <2>1, TypeOfValue DEF Text, Flag, Number
  <2>5. RunOK(document, run) /\ run.ends = "done"
    BY <1>1 DEF RunOK
  <2>6. document' = document
    BY <1>6, Zenon DEF Control
  <2> HIDE DEF run, path
  <2>7. RunOK(document, Write(run, path, v))
    BY <2>3, <2>4, <2>5, WriteOK, Zenon
  <2> QED BY <2>1, <2>6, <2>7, RanInv, Zenon
<1>7. ASSUME NEW path \in DOMAIN timers, Tick(path) PROVE NativeInv'
  <2>1. document' = document /\ call' = call
    BY <1>7 DEF Tick
  <2>2. path \in DOMAIN i /\ i[path].type = "number"
    BY <1>1, <1>7, Zenon DEF TimersFit
  <2>3. TimersFit(document, Stopped(timers, path))
    BY <1>1 DEF TimersFit, Stopped
  <2>4. timers' \in {timers, Stopped(timers, path)}
    BY <1>7 DEF Tick
  <2>5. TimersFit(document, timers)'
    BY <1>1, <2>1, <2>3, <2>4 DEF TimersFit
  <2>6. FailuresAreExplained'
    <3>1. failure' = "typeError" => Read(state, path).type = "typeError" /\ state' = state
      BY <1>7 DEF Tick
    <3>2. Read(state, path).type = "typeError" => ~Fits(i, state)
      BY <2>2 DEF Fits, Read, Kind, ListTypes
    <3> QED BY <2>1, <3>1, <3>2, Zenon DEF FailuresAreExplained
  <2> QED BY <1>1, <2>1, <2>5, <2>6, Zenon DEF NativeInv
<1>8. ASSUME NEW initialState \in InitialStates, Update(initialState) PROVE NativeInv'
  <2>1. /\ document' \in Documents /\ Validate(document')
        /\ timers' = <<>> /\ call' = NoCall /\ failure' = "done"
    BY <1>8, Zenon DEF Update
  <2>2. Validate(document)'
    BY <2>1, Zenon
  <2>3. TimersFit(document, timers)'
    BY <2>1, NoTimers DEF TimersFit
  <2>4. (call \in CallOf(document))'
    BY <2>1, NoCallIsTyped, Zenon
  <2>5. FailuresAreExplained'
    BY <2>1 DEF FailuresAreExplained
  <2> QED BY <2>1, <2>2, <2>3, <2>4, <2>5, Zenon DEF NativeInv
<1>9. CASE UNCHANGED cardVars
  BY <1>9 DEF cardVars, NativeInv, FailuresAreExplained, TimersFit, CallOf, EventActions,
              Validate, ValidateNode, Fits
<1> QED BY <1>2, <1>4, <1>5, <1>6, <1>7, <1>8, <1>9 DEF NativeNext

\* The invariant makes a card show what it was accepted for.
LEMMA NativeInvShows == NativeInv => RunsAsValidated
<1> DEFINE i == document.initialState
<1> DEFINE e == document.prop.value
<1> DEFINE shown == Evaluate(e, state)
<1> SUFFICES ASSUME NativeInv, Fits(i, state)
             PROVE  /\ ShowsItsType(shown)
                    /\ document.control.writes # "nothing" => document.control.path \in DOMAIN state
                    /\ \A path \in DOMAIN timers : Read(state, path).type = "number"
  BY Zenon DEF RunsAsValidated
<1>1. document \in Documents /\ Validate(document) /\ TimersFit(document, timers)
  BY Zenon DEF NativeInv
<1>2. /\ WellFormed(i) /\ e \in Expressions /\ ValidateValue(i, e, document.prop.type)
      /\ document.control.writes # "nothing" => document.control.path \in DOMAIN i
  BY <1>1, Accepted, Zenon
<1>3. document.control.writes # "nothing" => document.control.path \in DOMAIN state
  BY <1>2, Zenon DEF Fits
<1>4. ASSUME NEW path \in DOMAIN timers PROVE Read(state, path).type = "number"
  BY <1>1, <1>4 DEF TimersFit, Fits, Read, Kind, ListTypes
<1>5. ShowsItsType(shown)
  <2>1. ExpressionType(i, e) \notin Errors
    BY <1>2, ValueAccepted, Zenon
  <2>2. CASE shown = DomainError
    <3>1. state = i => /\ e.shape = "expression"
                       /\ \E k \in 1..Len(e.args) : e.args[k].shape = "expression"
      BY <1>2, <2>1, <2>2, StartSound, Zenon
    <3> QED BY <2>2, <3>1, Zenon DEF ShowsItsType
  <2>3. CASE shown # DomainError
    <3>1. ~Failed(shown) /\ (document.prop.type = "any" \/ Kind(TypeOf(shown)) = Kind(document.prop.type))
      BY <1>2, <2>3, ValueSound, Zenon
    <3>2. TypeOf(shown) # "typeError"
      BY <3>1 DEF Failed, Errors
    <3> QED BY <3>1, <3>2, Zenon DEF ShowsItsType
  <2> QED BY <2>2, <2>3, Zenon
<1> QED BY <1>3, <1>4, <1>5, Zenon

\* An accepted card shows and runs what it was accepted for in every state whose
\* paths have kept their kinds, whatever the expressions, the actions and the
\* bound on their depth: the validator's types are sound for the evaluator.
THEOREM CardsRunAsValidated == NativeSpec => []RunsAsValidated
<1>1. NativeInit => NativeInv
  BY NativeInitInv
<1>2. NativeInv /\ [NativeNext]_cardVars => NativeInv'
  BY NativeStepInv
<1>3. NativeInv => RunsAsValidated
  BY NativeInvShows
<1> QED BY <1>1, <1>2, <1>3, PTL DEF NativeSpec

\* No press, timer or answer of an accepted card ends with an exception while its
\* state fits, also after presses that broke off half-way and calls whose rest ran
\* over a state that had moved on.
THEOREM CardFailuresAreExplained == NativeSpec => []FailuresAreExplained
<1>1. NativeInit => NativeInv
  BY NativeInitInv
<1>2. NativeInv /\ [NativeNext]_cardVars => NativeInv'
  BY NativeStepInv
<1>3. NativeInv => FailuresAreExplained
  BY Zenon DEF NativeInv
<1> QED BY <1>1, <1>2, <1>3, PTL DEF NativeSpec

-------------------------------------------------------------------------------
(* What breaks the state's kinds. *)

\* A set action, the answer of a capability or its error, a control, an update.
ForeignWrite ==
  \/ Press /\ \E a \in EventActions(document) : a.type = "set"
  \/ SetCapabilityError \/ Control
  \/ \E v \in CallResults : ApplyCapability(v)
  \/ \E initialState \in InitialStates : Update(initialState)

\* A value without paths below it, of the kind that initialState has at its path.
SameKind(initialState, path, v) ==
  /\ path \in DOMAIN initialState /\ initialState[path].type # "object"
  /\ DOMAIN v = {<<>>}
  /\ Kind(TypeOf(v)) = Kind(initialState[path].type)

\* Nothing of initialState lies below such a path.
LEMMA WrittenFits ==
  ASSUME NEW initialState, WellFormed(initialState), NEW s, Fits(initialState, s),
         NEW path, NEW v, SameKind(initialState, path, v)
  PROVE  Fits(initialState, Written(s, path, v))
<1> SUFFICES ASSUME NEW p \in DOMAIN initialState
             PROVE  /\ p \in DOMAIN Written(s, path, v)
                    /\ Kind(Written(s, path, v)[p].type) = Kind(initialState[p].type)
  BY Zenon DEF Fits
<1>1. p \in Seq(STRING) /\ path \in Seq(STRING) /\ path \in DOMAIN initialState
  BY DEF WellFormed, Path, SameKind
<1>2. p \in DOMAIN s /\ Kind(s[p].type) = Kind(initialState[p].type)
  BY Zenon DEF Fits
<1>3. CASE ~IsPrefix(path, p)
  BY <1>2, <1>3, Zenon DEF Written
<1>4. CASE IsPrefix(path, p) /\ Len(p) > Len(path)
  <2>1. SubSeq(p, 1, Len(path)) = path /\ Len(path) \in 0..(Len(p) - 1)
    BY <1>1, <1>4 DEF IsPrefix
  <2>2. initialState[SubSeq(p, 1, Len(path))].type = "object"
    BY <2>1, Zenon DEF WellFormed
  <2> QED BY <2>1, <2>2 DEF SameKind
<1>5. CASE IsPrefix(path, p) /\ ~(Len(p) > Len(path))
  <2>1. p = path
    BY <1>1, <1>5 DEF IsPrefix
  <2>2. path = path \o <<>> /\ SubSeq(path, Len(path) + 1, Len(path)) = <<>> /\ <<>> \in DOMAIN v
    BY <1>1 DEF SameKind
  <2>3. path \in {path \o q : q \in DOMAIN v}
    BY <2>2, Zenon
  <2>4. path \in DOMAIN Written(s, path, v) /\ Written(s, path, v)[path] = v[<<>>]
    BY <1>5, <2>1, <2>2, <2>3, Zenon DEF Written
  <2> QED BY <2>1, <2>4, Zenon DEF SameKind, TypeOf
<1> QED BY <1>3, <1>4, <1>5

\* What increments, toggles, appends and removes write has the kind that is there.
LEMMA NewValueKind ==
  ASSUME NEW initialState, WellFormed(initialState), NEW s, Fits(initialState, s),
         NEW a, ActionWellFormed(a), ValidateAction(initialState, a),
         a.type \in {"increment", "toggle", "append", "remove"},
         NEW value, ~Failed(NewValue(a.type, Read(s, a.path), value))
  PROVE  SameKind(initialState, a.path, NewValue(a.type, Read(s, a.path), value))
<1> DEFINE current == Read(s, a.path)
<1>1. ValidateActionTarget(initialState, a.type, a.path)
  BY DEF ValidateAction
<1>2. Read(initialState, a.path).type \in
        IF a.type = "increment" THEN {"number"} ELSE IF a.type = "toggle" THEN {"boolean"} ELSE ListTypes
  BY <1>1 DEF ValidateActionTarget
<1>3. /\ a.path \in DOMAIN initialState /\ Read(initialState, a.path) = initialState[a.path]
      /\ initialState[a.path].type # "object"
  BY <1>2 DEF Read, Node, ListTypes
<1>4. Kind(current.type) = Kind(initialState[a.path].type)
  BY <1>3, Zenon DEF Fits, Read
<1>5. \A type, n : DOMAIN Value(type, n) = {<<>>}
  BY DEF Value
<1>6. Failed(TypeError)
  BY TypeOfValue DEF Failed, Errors
<1>7. \A type, n : type \in ListTypes =>
        TypeOf(List(type, n)) \in ListTypes /\ DOMAIN List(type, n) = {<<>>}
  BY <1>5, TypeOfValue DEF List, ListTypes
<1> HIDE DEF current
<1>8. CASE a.type = "increment"
  <2>1. NewValue(a.type, current, value) = Number(current.n + NumberOf(value))
    <3>1. initialState[a.path].type = "number"
      BY <1>2, <1>3, <1>8
    <3>2. current.type = "number"
      BY <1>4, <3>1 DEF Kind, ListTypes
    <3>3. ~Failed(NewValue(a.type, current, value))
      BY Zenon DEF current
    <3> QED BY <1>6, <1>8, <3>2, <3>3 DEF NewValue
  <2>2. SameKind(initialState, a.path, NewValue(a.type, current, value))
    BY <1>2, <1>3, <1>5, <1>8, <2>1, TypeOfValue DEF SameKind, Number
  <2> QED BY <2>2, Zenon DEF current
<1>9. CASE a.type = "toggle"
  <2>1. NewValue(a.type, current, value) = Flag(current.n = 0)
    <3>1. initialState[a.path].type = "boolean"
      BY <1>2, <1>3, <1>9
    <3>2. current.type = "boolean"
      BY <1>4, <3>1 DEF Kind, ListTypes
    <3> QED BY <1>9, <3>2 DEF NewValue
  <2>2. SameKind(initialState, a.path, NewValue(a.type, current, value))
    BY <1>2, <1>3, <1>5, <1>9, <2>1, TypeOfValue DEF SameKind, Flag
  <2> QED BY <2>2, Zenon DEF current
<1>10. CASE a.type \in {"append", "remove"}
  <2>1. initialState[a.path].type \in ListTypes
    BY <1>2, <1>3, <1>10
  <2>2. current.type \in ListTypes
    BY <1>4, <2>1 DEF Kind, ListTypes
  <2>3. ~Failed(NewValue(a.type, current, value))
    BY Zenon DEF current
  <2>4. NewValue(a.type, current, value) =
          IF a.type = "append" THEN Appended(current, value) ELSE Removed(current, value)
    BY <1>10, <2>2, <2>3 DEF NewValue
  <2>5. TypeOf(Appended(current, value)) \in ListTypes /\ DOMAIN Appended(current, value) = {<<>>}
    BY <1>7 DEF Appended, ListTypes
  <2>6. TypeOf(Removed(current, value)) \in ListTypes /\ DOMAIN Removed(current, value) = {<<>>}
    BY <1>5, <1>7, <2>2, TypeOfValue DEF Removed
  <2>7. SameKind(initialState, a.path, NewValue(a.type, current, value))
    BY <1>3, <2>1, <2>4, <2>5, <2>6 DEF SameKind, Kind
  <2> QED BY <2>7, Zenon DEF current
<1> QED BY <1>8, <1>9, <1>10

\* An accepted action that sets nothing keeps the state fit.
LEMMA ActionFits ==
  ASSUME NEW d \in Documents, Validate(d), NEW run, RunOK(d, run), Fits(d.initialState, run.state),
         NEW a \in EventActions(d), a.type # "set"
  PROVE  Fits(d.initialState, ApplyActionAsync(run, a).state)
<1>1. WellFormed(d.initialState) /\ ActionWellFormed(a) /\ ValidateAction(d.initialState, a)
  BY Accepted
<1>2. CASE run.ends # "done" \/ run.call.waits \/ a.type = "capability.invoke"
  <2>1. ApplyActionAsync(run, a).state = run.state
    BY <1>2 DEF ApplyActionAsync, RunOK, CallOf
  <2> QED BY <2>1, Zenon
<1>3. CASE run.ends = "done" /\ ~run.call.waits /\ a.type # "capability.invoke"
  <2>1. ApplyActionAsync(run, a) = ApplyAction(run, a)
    BY <1>3 DEF ApplyActionAsync
  <2>2. CASE a.type \in {"startTimer", "stopTimer"}
    <3>1. ApplyAction(run, a).state = run.state
      BY <2>2 DEF ApplyAction, RunOK
    <3> QED BY <2>1, <3>1, Zenon
  <2>3. CASE a.type \in {"increment", "toggle", "append", "remove"}
    <3> DEFINE v == NewValue(a.type, Read(run.state, a.path), Evaluate(a.value, run.state))
    <3>1. ApplyAction(run, a) = Write(run, a.path, v)
      BY <2>3 DEF ApplyAction
    <3>2. ~Failed(v) => SameKind(d.initialState, a.path, v)
      BY <1>1, <2>3, NewValueKind, Zenon
    <3> HIDE DEF v
    <3>3. ~Failed(v) => Fits(d.initialState, Written(run.state, a.path, v))
      BY <1>1, <3>2, WrittenFits, Zenon
    <3>4. Write(run, a.path, v).state = run.state
            \/ (~Failed(v) /\ Write(run, a.path, v).state = Written(run.state, a.path, v))
      BY DEF Write, RunOK
    <3> QED BY <2>1, <3>1, <3>3, <3>4, Zenon
  <2> QED BY <1>1, <1>3, <2>2, <2>3 DEF ActionWellFormed
<1>4. run.call.waits \in BOOLEAN
  BY DEF RunOK, CallOf
<1> QED BY <1>2, <1>3, <1>4

\* A run of accepted actions that set nothing keeps the state fit too.
LEMMA RunFits ==
  ASSUME NEW d \in Documents, Validate(d), NEW s, Fits(d.initialState, s),
         NEW ts, TimersFit(d, ts), NEW actions \in Seq(EventActions(d)),
         \A k \in 1..Len(actions) : actions[k].type # "set"
  PROVE  Fits(d.initialState, ApplyActionsAsync(s, ts, actions).state)
<1>1. PICK f : RunEquations(s, ts, actions, f)
  <2>1. Len(actions) \in Nat
    OBVIOUS
  <2> QED BY <2>1, RunEquation, Zenon
<1> DEFINE S == {k \in Nat : k <= Len(actions) => RunOK(d, f[k]) /\ Fits(d.initialState, f[k].state)}
<1>2. 0 \in S
  <2>1. RunOK(d, StartOfRun(s, ts)) /\ StartOfRun(s, ts).state = s
    BY NoCallIsTyped DEF RunOK, StartOfRun
  <2>2. 0 \in Nat
    OBVIOUS
  <2> QED BY <1>1, <2>1, <2>2, Zenon DEF RunEquations
<1>3. ASSUME NEW n \in Nat, n \in S PROVE n + 1 \in S
  <2>1. n + 1 \in Nat /\ (n + 1) - 1 = n
    OBVIOUS
  <2>2. ASSUME n + 1 <= Len(actions) PROVE RunOK(d, f[n + 1]) /\ Fits(d.initialState, f[n + 1].state)
    <3>1. n <= Len(actions) /\ n + 1 \in 1..Len(actions) /\ actions[n + 1] \in EventActions(d)
      BY <2>2
    <3>2. RunOK(d, f[n]) /\ Fits(d.initialState, f[n].state) /\ actions[n + 1].type # "set"
      BY <1>3, <3>1, Zenon
    <3>3. f[n + 1] = ApplyActionAsync(f[n], actions[n + 1])
      BY <1>1, <2>1, <3>1, Zenon DEF RunEquations
    <3> QED BY <3>1, <3>2, <3>3, ApplyActionAsyncOK, ActionFits, Zenon
  <2> QED BY <2>1, <2>2, Zenon
<1>4. \A n \in Nat : n \in S
  <2> HIDE DEF S
  <2> QED BY <1>2, <1>3, Induction, Zenon
<1>5. Len(actions) \in Nat /\ Len(actions) <= Len(actions)
  OBVIOUS
<1> QED BY <1>1, <1>4, <1>5, Zenon DEF RunEquations

\* A step that writes nothing foreign keeps the state fit.
LEMMA NativeStepFits ==
  ASSUME NativeInv, [NativeNext]_cardVars, Fits(document.initialState, state), ~ForeignWrite
  PROVE  Fits(document.initialState, state)'
<1> DEFINE i == document.initialState
<1>1. /\ document \in Documents /\ Validate(document) /\ WellFormed(i)
      /\ TimersFit(document, timers)
      /\ document.onPressed \in Seq(EventActions(document))
  BY Accepted, Zenon DEF NativeInv
<1>2. CASE Press
  <2>1. ASSUME NEW k \in 1..Len(document.onPressed) PROVE document.onPressed[k].type # "set"
    BY <1>2, Zenon DEF ForeignWrite, EventActions
  <2>2. Fits(i, ApplyActionsAsync(state, timers, document.onPressed).state)
    BY <1>1, <2>1, RunFits, Zenon
  <2>3. document' = document /\ state' = ApplyActionsAsync(state, timers, document.onPressed).state
    BY <1>2, Zenon DEF Press, Ran
  <2> QED BY <2>2, <2>3, Zenon
<1>3. ASSUME NEW path \in DOMAIN timers, Tick(path) PROVE Fits(i, state)'
  <2>1. document' = document
    BY <1>3 DEF Tick
  <2>2. path \in DOMAIN i /\ i[path].type = "number"
    BY <1>1, <1>3, Zenon DEF TimersFit
  <2>3. state' = state \/ \E n : state' = Written(state, path, Number(n))
    BY <1>3, Zenon DEF Tick
  <2>4. ASSUME NEW n PROVE SameKind(i, path, Number(n))
    BY <2>2, TypeOfValue DEF SameKind, Number, Value
  <2>5. Fits(i, state')
    BY <1>1, <2>3, <2>4, WrittenFits, Zenon
  <2> QED BY <2>1, <2>5, Zenon
<1>4. CASE UNCHANGED cardVars
  BY <1>4, Zenon DEF cardVars
<1>5. ~SetCapabilityError /\ \A v \in CallResults : ~ApplyCapability(v)
  BY Zenon DEF ForeignWrite
<1> QED BY <1>2, <1>3, <1>4, <1>5, Zenon DEF NativeNext, ForeignWrite

\* A card's own arithmetic never leaves a path another kind of value: increments,
\* toggles, changes of lists and the ticks of timers keep a state fit that fits, so
\* only a write from outside can bring about the exceptions above.
THEOREM OnlyForeignWritesBreakKinds ==
  NativeSpec =>
    [][Fits(document.initialState, state) /\ ~ForeignWrite
         => Fits(document.initialState, state)']_cardVars
<1>1. NativeInv /\ [NativeNext]_cardVars =>
        [Fits(document.initialState, state) /\ ~ForeignWrite
           => Fits(document.initialState, state)']_cardVars
  BY NativeStepFits
<1>2. NativeInit => NativeInv
  BY NativeInitInv
<1>3. NativeInv /\ [NativeNext]_cardVars => NativeInv'
  BY NativeStepInv
<1> QED BY <1>1, <1>2, <1>3, PTL DEF NativeSpec

===============================================================================
