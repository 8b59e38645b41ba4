-------------------------- MODULE MCSapporoNodes --------------------------
(***************************************************************************)
(* Small node tables: a few nodes, so that tables fill up, grow and are    *)
(* collected all the time.                                                 *)
(***************************************************************************)
EXTENDS SapporoNodes, TLC

\* A hash function that mixes the operation and both operands.
MCCacheKey(op, f, g) == (IF op \in BinaryOps THEN 0 ELSE 1) + (f \div 2) + g

Objects == Permutations(Handles)

\* Families are built up: Change only adds a variable to sets that do not
\* have it, and h += g and the like combine families.  Where the result of an
\* operation goes has no part in the operation.
BuiltUp == \/ Idle
           \/ /\ call.to = call.a
              /\ \/ call.op # "CHANGE"
                 \/ call.g \notin UNION FamilyOf(handle[call.a])
=============================================================================
