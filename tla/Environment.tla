---------------------------- MODULE Environment -----------------------------
(***************************************************************************)
(* What block structure means for the names of a program, whatever tables  *)
(* an implementation keeps: a stack of scopes, each of which binds some    *)
(* names; a name means what the innermost scope that binds it says.        *)
(***************************************************************************)
EXTENDS Naturals, Sequences

CONSTANTS
  Names,
  Types      \* the types a name can be declared with

VARIABLES
  env,       \* the stack: for each name a binding, or Unbound
  answer     \* what the last declaration or use was told

Unbound == [type |-> "none", initialized |-> FALSE]
Bindings == [type : Types, initialized : BOOLEAN]

Told(what, b) == [told |-> what, binding |-> b]

Levels(n) == {k \in DOMAIN env : env[k][n] # Unbound}
Innermost(n) == CHOOSE k \in Levels(n) : \A j \in Levels(n) : j <= k

Init ==
  /\ env = <<[n \in Names |-> Unbound]>>
  /\ answer = Told("nothing", Unbound)

Enter ==
  /\ UNCHANGED answer
  /\ env' = Append(env, [n \in Names |-> Unbound])

Leave ==
  /\ UNCHANGED answer
  /\ Len(env) > 1
  /\ env' = SubSeq(env, 1, Len(env) - 1)

(* A second declaration in the same scope is an error; its initialiser     *)
(* counts for the first one. *)
Declare(n, b) ==
  LET top == Len(env)
      old == env[top][n]
  IN IF old = Unbound
     THEN /\ answer' = Told("declared", Unbound)
          /\ env' = [env EXCEPT ![top][n] = b]
     ELSE /\ answer' = Told("duplicate", Unbound)
          /\ env' = [env EXCEPT ![top][n].initialized = @ \/ b.initialized]

Use(n) ==
  /\ answer' = IF Levels(n) = {} THEN Told("undefined", Unbound)
               ELSE Told("found", env[Innermost(n)][n])
  /\ UNCHANGED env

Assign(n) ==
  IF Levels(n) = {}
  THEN answer' = Told("undefined", Unbound) /\ UNCHANGED env
  ELSE /\ answer' = Told("found", env'[Innermost(n)][n])
       /\ env' = [env EXCEPT ![Innermost(n)][n].initialized = TRUE]

Next ==
  \/ Enter \/ Leave
  \/ \E n \in Names : Use(n) \/ Assign(n) \/ \E b \in Bindings : Declare(n, b)

Spec == Init /\ [][Next]_<<env, answer>>
=============================================================================
