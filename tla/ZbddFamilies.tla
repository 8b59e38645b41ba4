---------------------------- MODULE ZbddFamilies ----------------------------
(***************************************************************************)
(* What the ZBDD objects of a program promise: each stands for a family of *)
(* sets of variables, an operation gives its result to one object and      *)
(* changes no other, and the result is the right family or, "if not enough *)
(* memory" (SAPPOROBDD/bddc.c), bddnull.                                   *)
(***************************************************************************)
EXTENDS Integers

CONSTANTS
    NumVars,  \* the variables are 1..NumVars
    Handles,  \* the ZBDD objects
    Ops       \* the operations the program uses

VARIABLES
    family,   \* what each object stands for
    call      \* the operation under way

vars == <<family, call>>

NullFamily == {{0}}   \* bddnull: no variable is 0
NoCall == [op |-> "none", to |-> 0, a |-> 0, g |-> 0]

BinaryOps == {"INTERSEC", "UNION", "SUBTRACT"}
UnaryOps == {"OFFSET", "ONSET", "CHANGE"}

\* For a binary operation G is a family, for a unary one a variable.
Meant(op, F, G) ==
    CASE op = "INTERSEC" -> F \cap G
      [] op = "UNION" -> F \cup G
      [] op = "SUBTRACT" -> F \ G
      [] op = "OFFSET" -> {s \in F : G \notin s}
      [] op = "ONSET" -> {s \ {G} : s \in {x \in F : G \in x}}
      [] op = "CHANGE" -> {IF G \in s THEN s \ {G} ELSE s \cup {G} : s \in F}

Init ==
    /\ family = [h \in Handles |-> {}]
    /\ call = NoCall

Assign(h, F) ==
    /\ call = NoCall
    /\ family' = [family EXCEPT ![h] = F]
    /\ UNCHANGED call

Call(op, h, a, g) ==
    /\ call = NoCall
    /\ call' = [op |-> op, to |-> h, a |-> a, g |-> g]
    /\ UNCHANGED family

Operand == IF call.op \in BinaryOps THEN family[call.g] ELSE call.g

NullOperand ==
    \/ family[call.a] = NullFamily
    \/ call.op \in BinaryOps /\ family[call.g] = NullFamily

Results ==
    IF NullOperand THEN {NullFamily}
    ELSE {Meant(call.op, family[call.a], Operand), NullFamily}

Finish ==
    /\ call # NoCall
    /\ \E F \in Results : family' = [family EXCEPT ![call.to] = F]
    /\ call' = NoCall

Next ==
    \/ \E h \in Handles, F \in {{}, {{}}} : Assign(h, F)
    \/ \E h, g \in Handles : Assign(h, family[g])
    \/ \E op \in BinaryOps \cap Ops, h, a, g \in Handles : Call(op, h, a, g)
    \/ \E op \in UnaryOps \cap Ops, h, a \in Handles, v \in 1..NumVars : Call(op, h, a, v)
    \/ Finish

Spec == Init /\ [][Next]_vars
=============================================================================
