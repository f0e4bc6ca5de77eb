------------------------------- MODULE Scopes -------------------------------
(***************************************************************************)
(* Names and declarations: symtab.c and the scopes of tree.c, on top of    *)
(* the string table (StrTab) and of a memory pool (Pool).                  *)
(*                                                                         *)
(* A symbol has a chain of declarations, the innermost first; decls lists  *)
(* the symbols declared in all open scopes in the order of their           *)
(* declarations, and scopes says where in it each scope begins.  There is  *)
(* no other table: leaving a scope takes the first declaration off the     *)
(* chain of each symbol listed for it.                                     *)
(*                                                                         *)
(* The parser adds every name of the program before the checker declares   *)
(* and uses them; as add_sym touches nothing the checker reads except the  *)
(* new symbol, adding a name just before it is used comes to the same.     *)
(***************************************************************************)
EXTENDS Pool, StrTab

CONSTANTS
  VarTypes,    \* the types of variables
  FuncType,    \* the type of a function
  MAX_SCOPES,
  DeclsSize,   \* the elements decls has at first
  PtrSize,     \* the bytes of an element of decls
  MaxDecls     \* a bound of the model on the declarations in force

ASSUME ScopesAssumption ==
  /\ FuncType \notin VarTypes /\ MAX_SCOPES \in Nat \ {0}
  /\ "none" \notin VarTypes \cup {FuncType}   \* what a name without a declaration has
  /\ DeclsSize \in Nat \ {0} /\ PtrSize \in Nat \ {0} /\ MaxDecls \in Nat

VARIABLES
  decl,        \* sym->decl for each symbol: a cell of decl_pool, or NoDecl
  heap,        \* the decl_t in each cell in use
  decls,       \* the symbols declared
  decls_size,  \* the elements the code believes decls has
  room,        \* the elements it has
  scopes,      \* the index of the first declaration of each open scope
  where,       \* the part of the program that is read
  ident,       \* the identifier just read
  popped,      \* pop_scope's counter
  answer       \* what the last declaration or use was told

declVars == <<decl, heap, decls, decls_size, room>>
vars == <<poolVars, strtab, declVars, scopes, where, ident, popped, answer>>

Types == VarTypes \cup {FuncType}
NoDecl == <<0, 0>>
NoIdent == [name |-> NoString, sym |-> 0]
NoBinding == [type |-> "none", initialized |-> FALSE]
Told(what, b) == [told |-> what, binding |-> b]
cur_scope == Len(scopes) - 1
Stopped == where \in {"aborted", "undefined"}
-----------------------------------------------------------------------------
(* add_sym: the symbol of a name that is new has no declaration. *)
AddSym(n) ==
  /\ ~Stopped /\ where \notin {"popping"} /\ ident = NoIdent
  /\ IF Dangles(strtab, n)
     THEN where' = "undefined" /\ UNCHANGED <<strtab, decl, ident>>
     ELSE /\ strtab' \in Added(strtab, n)
          /\ decl' = IF strtab'.syms > strtab.syms THEN Append(decl, NoDecl) ELSE decl
          /\ ident' = [name |-> n,
                       sym |-> IF strtab'.syms > strtab.syms THEN strtab'.syms
                               ELSE SymbolOf(strtab, n)]
          /\ UNCHANGED where
  /\ UNCHANGED <<poolVars, heap, decls, decls_size, room, scopes, popped, answer>>

(* A variant that compares the scopes wrongly and allows a second one. *)
DeclaredTwice(s) == decl[s] # NoDecl /\ heap[decl[s]].scope > cur_scope
(* The test at the head of declare. *)
DeclaredHere(s) == decl[s] # NoDecl /\ heap[decl[s]].scope = cur_scope

(* A variant that keeps no pointer to the outer declaration. *)
NewDeclAlone(s, type, init) ==
  [type |-> type, scope |-> cur_scope, initialized |-> init, prev |-> NoDecl]
NewDecl(s, type, init) ==
  [type |-> type, scope |-> cur_scope, initialized |-> init, prev |-> decl[s]]

(* The tail of declare: decls is enlarged by the number of its elements    *)
(* doubled, taken for a number of bytes. *)
ListDecl(s) ==
  /\ decls' = Append(decls, s)
  /\ IF Len(decls) = decls_size
     THEN decls_size' = 2 * decls_size /\ room' = (2 * decls_size) \div PtrSize
     ELSE UNCHANGED <<decls_size, room>>
  /\ where' = IF Len(decls') > room' THEN "undefined" ELSE where

(* declare, and the mark its callers put on a declaration with a value. *)
Declare(type, init) ==
  LET s == ident.sym IN
  /\ ident # NoIdent
  /\ IF DeclaredHere(s)
     THEN /\ heap' = [heap EXCEPT ![decl[s]].initialized = @ \/ init]
          /\ answer' = Told("duplicate", NoBinding)
          /\ UNCHANGED <<poolVars, decl, decls, decls_size, room, where>>
     ELSE /\ Len(decls) < MaxDecls
          /\ \E x \in {first_free} \X node_free[first_free] :
               /\ Palloc(x)
               /\ heap' = [y \in used' |-> IF y = x THEN NewDecl(s, type, init) ELSE heap[y]]
               /\ decl' = [decl EXCEPT ![s] = x]
          /\ ListDecl(s)
          /\ answer' = Told("declared", NoBinding)
  /\ ident' = NoIdent
  /\ UNCHANGED <<strtab, scopes, popped>>

(* new_node for a function, while the program is parsed. *)
DeclareFunc == where = "parse" /\ Declare(FuncType, FALSE)
DeclareArg == where = "args" /\ \E type \in VarTypes : Declare(type, TRUE)
DeclareVar == where = "body" /\ \E type \in VarTypes, init \in BOOLEAN : Declare(type, init)

(* The last function has been parsed. *)
CheckProgram ==
  /\ where = "parse" /\ ident = NoIdent
  /\ where' = "global"
  /\ UNCHANGED <<poolVars, strtab, declVars, scopes, ident, popped, answer>>

(* do_type_check for an identifier or a call. *)
Use ==
  /\ where = "body" /\ ident # NoIdent
  /\ LET d == decl[ident.sym] IN
     answer' = IF d = NoDecl THEN Told("undefined", NoBinding)
               ELSE Told("found", [type |-> heap[d].type, initialized |-> heap[d].initialized])
  /\ ident' = NoIdent
  /\ UNCHANGED <<poolVars, strtab, declVars, scopes, where, popped>>

(* check_lvalue. *)
Assign ==
  /\ where = "body" /\ ident # NoIdent
  /\ LET d == decl[ident.sym] IN
     IF d = NoDecl
     THEN answer' = Told("undefined", NoBinding) /\ UNCHANGED heap
     ELSE /\ heap' = [heap EXCEPT ![d].initialized = TRUE]
          /\ answer' = Told("found", [type |-> heap[d].type, initialized |-> TRUE])
  /\ ident' = NoIdent
  /\ UNCHANGED <<poolVars, strtab, decl, decls, decls_size, room, scopes, where, popped>>
-----------------------------------------------------------------------------
PushScope ==
  /\ where \in {"global", "args", "body"} /\ ident = NoIdent
  /\ IF cur_scope + 1 >= MAX_SCOPES
     THEN where' = "aborted" /\ UNCHANGED scopes
     ELSE /\ scopes' = Append(scopes, Len(decls))
          /\ where' = IF where = "global" THEN "args" ELSE "body"
  /\ UNCHANGED <<poolVars, strtab, declVars, ident, popped, answer>>

PopScope ==
  /\ where = "body" /\ ident = NoIdent
  /\ where' = "popping"
  /\ popped' = scopes[Len(scopes)]
  /\ UNCHANGED <<poolVars, strtab, declVars, scopes, ident, answer>>

(* An iteration of pop_scope's loop. *)
PopDecl ==
  /\ where = "popping" /\ popped < Len(decls)
  /\ LET s == decls[popped + 1]
         x == decl[s]
     IN /\ decl' = [decl EXCEPT ![s] = heap[x].prev]
        /\ Pfree(x)
        /\ heap' = [y \in used' |-> heap[y]]
  /\ popped' = popped + 1
  /\ UNCHANGED <<strtab, decls, decls_size, room, scopes, where, ident, answer>>

(* The end of pop_scope; behind the body of a function the scope of its    *)
(* arguments is left, too. *)
PopDone ==
  /\ where = "popping" /\ popped = Len(decls)
  /\ decls' = SubSeq(decls, 1, scopes[Len(scopes)])
  /\ scopes' = SubSeq(scopes, 1, Len(scopes) - 1)
  /\ IF cur_scope = 2
     THEN popped' = scopes[2] /\ UNCHANGED where
     ELSE popped' = 0 /\ where' = IF cur_scope = 1 THEN "global" ELSE "body"
  /\ UNCHANGED <<poolVars, strtab, decl, heap, decls_size, room, ident, answer>>

Init ==
  /\ PoolInit
  /\ strtab = NewStrtab
  /\ decl = <<>> /\ heap = [x \in {} |-> 0] /\ decls = <<>>
  /\ decls_size = DeclsSize /\ room = DeclsSize
  /\ scopes = <<0>> /\ where = "parse" /\ ident = NoIdent /\ popped = 0
  /\ answer = Told("nothing", NoBinding)

Next ==
  \/ \E n \in Strings : AddSym(n)
  \/ DeclareFunc \/ CheckProgram \/ DeclareArg \/ DeclareVar \/ Use \/ Assign
  \/ PushScope \/ PopScope \/ PopDecl \/ PopDone

Spec == Init /\ [][Next]_vars
-----------------------------------------------------------------------------
(* symtab.h: "Adds str to symbol table if it doesn't exist; if it is       *)
(* already there just returns the associated symbol structure."  A name    *)
(* that is in the table is found there, with its symbol, however many      *)
(* names were chained to its bucket since and however often the table was  *)
(* enlarged: provided that it is enlarged where it is and no name hashes   *)
(* to 0 (Moves, Hash), without which it does not hold.                     *)
OneSymbol ==
  \A i \in DOMAIN strtab.hashtab :
    LET node == strtab.hashtab[i] IN
    node.str # NoString => SymbolOf(strtab, node.str) = node.sym

(* No step takes the symbol of a name away or gives the name another one,  *)
(* because its declarations hang on the symbol: not the adding of other    *)
(* names to its chain, nor the enlarging of the table in the middle of     *)
(* that.  Provided as above.                                               *)
SymbolsKept ==
  [][\A s \in Strings :
       SymbolOf(strtab, s) # 0 => SymbolOf(strtab', s) = SymbolOf(strtab, s)]_vars

(* The declaration of a symbol that is in force in scope k, if any. *)
InScope(s, k) ==
  LET from[x \in used] ==
        IF heap[x].scope = k THEN x
        ELSE IF heap[x].prev = NoDecl THEN NoDecl ELSE from[heap[x].prev]
  IN IF decl[s] = NoDecl THEN NoDecl ELSE from[decl[s]]

(* The chains of the symbols and the list of declarations, which pop_scope *)
(* trusts, say the same: outside pop_scope, each cell of the pool in use   *)
(* is the declaration of one symbol in one open scope, and decls lists     *)
(* exactly those symbols in that scope's part. *)
DeclsListed ==
  LET scopeOf(i) == CHOOSE k \in 0..cur_scope :
                      scopes[k + 1] < i /\ \A j \in (k + 1)..cur_scope : scopes[j + 1] >= i
      inForce == {sk \in (DOMAIN decl) \X (0..cur_scope) : InScope(sk[1], sk[2]) # NoDecl}
  IN where \in {"parse", "global", "args", "body"} =>
       /\ inForce = {<<decls[i], scopeOf(i)>> : i \in DOMAIN decls}
       /\ Cardinality(inForce) = Len(decls)
       /\ used = {InScope(sk[1], sk[2]) : sk \in inForce}

(* tree.c: decls is "storage for all currently declared symbols". *)
DeclsStored == Len(decls) <= room
-----------------------------------------------------------------------------
(* The stack of scopes these tables stand for, and the two promises.       *)
(* While a scope is left it is already gone. *)
Binding(n, k) ==
  LET s == SymbolOf(strtab, n)
      x == InScope(s, k)
  IN IF s = 0 \/ x = NoDecl THEN NoBinding
     ELSE [type |-> heap[x].type, initialized |-> heap[x].initialized]

Env == [k \in 1..(IF where = "popping" THEN Len(scopes) - 1 ELSE Len(scopes)) |->
          [n \in Strings |-> Binding(n, k - 1)]]

Environment == INSTANCE Environment WITH Names <- Strings, env <- Env

(* The declarations in force; pop_scope's loop has undone some of a scope. *)
InForce == IF where = "popping" THEN scopes[Len(scopes)] + (Len(decls) - popped) ELSE Len(decls)
Heap == INSTANCE Allocator WITH holders <- InForce

(* Through hash chains, declaration chains and scopes, a name always means *)
(* its innermost declaration in force, and a declaration is refused        *)
(* exactly if its own scope has the name already. *)
MeansInnermost == Environment!Spec

(* Each declaration in force has a cell of the pool that no other one has. *)
CellsOwned == Heap!Spec
=============================================================================
