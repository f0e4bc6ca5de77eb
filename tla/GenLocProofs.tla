---------------------------- MODULE GenLocProofs ----------------------------
(***************************************************************************)
(* Proofs about the location tracker, for any sets of variables, registers *)
(* and stack elements.  The operators of GenLoc that produce new tables    *)
(* come first: each keeps the two tables consistent (Good), keeps every    *)
(* recorded location true of the generated code (Sound), and leaves        *)
(* untouched the variables that it is not about.                           *)
(***************************************************************************)
EXTENDS GenLoc, FiniteSetTheorems, TLAPS

USE GenLocAssumption

(* Every recorded place has the variable in its list. *)
Listed(d) == \A v \in Vars : \A p \in d.loc[v] \cap Places : v \in d.list[p]
Good(d) == d \in Machines /\ Listed(d)

(* Every recorded location holds the variable's value. *)
Sound(d) == \A v \in Vars : \A l \in d.loc[v] : v \in d.holds[l]

(* The tracker knows nothing of v: a temporary not yet assigned. *)
Fresh(d, v) == d.loc[v] = {} /\ \A p \in Places : v \notin d.list[p]

(* v is alone in each of its locations, which are places. *)
Alone(d, v) == d.loc[v] \subseteq Places /\ \A p \in d.loc[v] : d.list[p] = {v}

LEMMA PlacesInLocs == /\ Places \subseteq Locs /\ Regs \subseteq Places /\ Slots \subseteq Places
                      /\ Consts \subseteq Locs /\ Places \cap Consts = {}
  BY DEF Places, Locs
-----------------------------------------------------------------------------
(* Copying variables into places. *)
LEMMA CopiesGood ==
  ASSUME NEW d, Good(d), NEW S \in SUBSET Vars,
         NEW f \in [S -> Places], NEW src \in [S -> Locs]
  PROVE  Good(Copies(d, f, src))
<1> DEFINE e == Copies(d, f, src)
<1>1. e.loc \in [Vars -> SUBSET Locs]
  BY PlacesInLocs DEF Good, Machines, Copies
<1>2. e.list \in [Places -> SUBSET Vars]
  BY DEF Good, Machines, Copies
<1>3. e.holds \in [Locs -> SUBSET Vars]
  BY DEF Good, Machines, Copies
<1>4. e \in Machines
  BY <1>1, <1>2, <1>3 DEF Machines, Copies
<1>5. Listed(e)
  BY DEF Good, Machines, Listed, Copies
<1> QED BY <1>4, <1>5 DEF Good

LEMMA SavedFacts ==
  ASSUME NEW d, Good(d), NEW S \in SUBSET Vars, NEW P \in SUBSET Places,
         NEW e \in Saved(d, S, P)
  PROVE  \E f \in [S -> P], src \in [S -> Locs] :
           /\ e = Copies(d, f, src)
           /\ \A u, v \in S : f[u] = f[v] => u = v
           /\ \A v \in S : src[v] \in d.loc[v]
<1>1. PICK f \in Injection(S, P), src \in Sources(d, S) : e = Copies(d, f, src)
  BY DEF Saved
<1>2. f \in [S -> P] /\ \A u, v \in S : f[u] = f[v] => u = v
  BY DEF Injection, IsInjective
<1>3. src \in [S -> Locs] /\ \A v \in S : src[v] \in d.loc[v]
  BY DEF Sources, BestSrc, Good, Machines
<1> QED BY <1>1, <1>2, <1>3

LEMMA SavedGood ==
  ASSUME NEW d, Good(d), NEW S \in SUBSET Vars, NEW P \in SUBSET Places,
         NEW e \in Saved(d, S, P)
  PROVE  Good(e)
<1>1. PICK f \in [S -> P], src \in [S -> Locs] : e = Copies(d, f, src)
  BY SavedFacts
<1>2. f \in [S -> Places]
  OBVIOUS
<1> QED BY <1>1, <1>2, CopiesGood

(* Free places hold nothing that is recorded, so overwriting them is safe. *)
LEMMA SavedSound ==
  ASSUME NEW d, Good(d), Sound(d), NEW S \in SUBSET Vars, NEW P \in SUBSET Places,
         \A p \in P : d.list[p] = {},
         NEW e \in Saved(d, S, P)
  PROVE  Sound(e)
<1>1. PICK f \in [S -> P], src \in [S -> Locs] :
           /\ e = Copies(d, f, src)
           /\ \A u, v \in S : f[u] = f[v] => u = v
           /\ \A v \in S : src[v] \in d.loc[v]
  BY SavedFacts
<1>2. SUFFICES ASSUME NEW v \in Vars, NEW l \in e.loc[v]
               PROVE  v \in e.holds[l]
  BY DEF Sound
<1>3. d.loc[v] \subseteq Locs /\ l \in Locs
  BY <1>1, PlacesInLocs DEF Good, Machines, Copies
<1>4. CASE v \in S /\ f[v] = l
  <2>1. v \in d.holds[src[v]]
    BY <1>1, <1>4 DEF Sound
  <2>2. e.holds[l] = UNION {d.holds[src[w]] : w \in {u \in S : f[u] = l}}
    BY <1>1, <1>3, <1>4 DEF Copies
  <2> QED BY <2>1, <2>2, <1>4
<1>5. CASE ~(v \in S /\ f[v] = l)
  <2>1. l \in d.loc[v]
    BY <1>1, <1>5 DEF Copies
  <2>2. \A u \in S : f[u] # l
    BY <1>1, <2>1 DEF Good, Listed
  <2>3. e.holds[l] = d.holds[l]
    BY <1>1, <1>3, <2>2 DEF Copies
  <2> QED BY <2>1, <2>3 DEF Sound
<1> QED BY <1>4, <1>5

(* What saving leaves alone. *)
LEMMA SavedFrame ==
  ASSUME NEW d, Good(d), NEW S \in SUBSET Vars, NEW P \in SUBSET Places,
         NEW e \in Saved(d, S, P)
  PROVE  /\ \A v \in Vars \ S : e.loc[v] = d.loc[v]
         /\ \A p \in Places \ P : e.list[p] = d.list[p]
         /\ \A p \in Places : e.list[p] \subseteq d.list[p] \cup S
<1>1. PICK f \in [S -> P], src \in [S -> Locs] :
           /\ e = Copies(d, f, src)
           /\ \A u, v \in S : f[u] = f[v] => u = v
           /\ \A v \in S : src[v] \in d.loc[v]
  BY SavedFacts
<1>2. /\ e.loc = [v \in Vars |-> d.loc[v] \cup {p \in Places : v \in S /\ f[v] = p}]
      /\ e.list = [p \in Places |-> d.list[p] \cup {v \in S : f[v] = p}]
  BY <1>1 DEF Copies
<1>4. \A v \in Vars \ S : e.loc[v] = d.loc[v]
  BY <1>2 DEF Good, Machines
<1>5. \A p \in Places \ P : e.list[p] = d.list[p]
  BY <1>2 DEF Good, Machines
<1>6. \A p \in Places : e.list[p] \subseteq d.list[p] \cup S
  BY <1>2
<1> QED BY <1>4, <1>5, <1>6

LEMMA SavedPlaced ==
  ASSUME NEW d, Good(d), NEW S \in SUBSET Vars, NEW P \in SUBSET Places,
         NEW e \in Saved(d, S, P)
  PROVE  /\ \A v \in S : d.loc[v] \subseteq e.loc[v] /\ e.loc[v] \subseteq d.loc[v] \cup P
         /\ \A v \in S : e.loc[v] \cap P # {}
<1>1. PICK f \in [S -> P], src \in [S -> Locs] :
           /\ e = Copies(d, f, src)
           /\ \A u, v \in S : f[u] = f[v] => u = v
           /\ \A v \in S : src[v] \in d.loc[v]
  BY SavedFacts
<1>2. /\ e.loc = [v \in Vars |-> d.loc[v] \cup {p \in Places : v \in S /\ f[v] = p}]
      /\ e.list = [p \in Places |-> d.list[p] \cup {v \in S : f[v] = p}]
  BY <1>1 DEF Copies
<1>4. \A v \in S : d.loc[v] \subseteq e.loc[v] /\ e.loc[v] \subseteq d.loc[v] \cup P
  BY <1>2
<1>5. \A v \in S : e.loc[v] \cap P # {}
  BY <1>2
<1> QED BY <1>4, <1>5

LEMMA SavedFresh ==
  ASSUME NEW d, Good(d), NEW S \in SUBSET Vars, NEW P \in SUBSET Places,
         NEW e \in Saved(d, S, P), NEW u \in Vars \ S, Fresh(d, u)
  PROVE  Fresh(e, u)
<1>1. /\ \A v \in Vars \ S : e.loc[v] = d.loc[v]
      /\ \A p \in Places \ P : e.list[p] = d.list[p]
      /\ \A p \in Places : e.list[p] \subseteq d.list[p] \cup S
  BY SavedFrame
<1> QED BY <1>1 DEF Fresh

(* Emptying a place. *)
LEMMA EraseGood ==
  ASSUME NEW d, Good(d), NEW p \in Places
  PROVE  /\ Good(Erase(d, p))
         /\ Sound(d) => Sound(Erase(d, p))
         /\ Erase(d, p).list = [d.list EXCEPT ![p] = {}]
         /\ Erase(d, p).loc = [v \in Vars |-> d.loc[v] \ (IF v \in d.list[p] THEN {p} ELSE {})]
         /\ Erase(d, p).holds = d.holds
<1> DEFINE e == Erase(d, p)
<1>1. e.loc = [v \in Vars |-> d.loc[v] \ (IF v \in d.list[p] THEN {p} ELSE {})]
  BY DEF Good, Machines, Erase
<1>2. e.list = [d.list EXCEPT ![p] = {}] /\ e.holds = d.holds
  BY DEF Good, Machines, Erase
<1>3. e \in Machines
  BY <1>1, <1>2 DEF Good, Machines, Erase
<1>4. Listed(e)
  BY <1>1, <1>2 DEF Good, Machines, Listed
<1>5. Sound(d) => Sound(e)
  BY <1>1, <1>2 DEF Sound
<1> QED BY <1>1, <1>2, <1>3, <1>4, <1>5 DEF Good
-----------------------------------------------------------------------------
(* Freeing and allocating registers. *)
LEMMA FreeRegFacts ==
  ASSUME NEW d, Good(d), NEW r \in Regs, NEW alive \in SUBSET Vars,
         NEW e \in FreeReg(d, r, alive)
  PROVE  /\ Good(e)
         /\ Sound(d) => Sound(e)
         /\ e.list[r] = {}
         /\ \A v \in Vars : Fresh(d, v) => Fresh(e, v)
         /\ \A v \in Vars \ alive : e.loc[v] \subseteq d.loc[v]
<1> DEFINE S == {v \in d.list[r] : ShouldSave(d, v, r, alive)}
           P == FreeRegs(d) \cup FreeSlots(d)
<1>1. PICK k \in Saved(d, S, P) : e = Erase(k, r)
  BY DEF FreeReg
<1>2. /\ S \in SUBSET Vars /\ S \subseteq alive /\ P \in SUBSET Places
      /\ \A p \in P : d.list[p] = {}
      /\ r \in Places
  BY PlacesInLocs DEF Good, Machines, ShouldSave, FreeRegs, FreeSlots
<1> HIDE DEF S, P
<1>3. Good(k)
  BY <1>2, SavedGood
<1>4. Sound(d) => Sound(k)
  BY <1>2, SavedSound
<1>5. /\ Good(e) /\ (Sound(k) => Sound(e))
      /\ e.list = [k.list EXCEPT ![r] = {}]
      /\ e.loc = [v \in Vars |-> k.loc[v] \ (IF v \in k.list[r] THEN {r} ELSE {})]
  BY <1>1, <1>2, <1>3, EraseGood, ZenonT(60)
<1>6. /\ \A v \in Vars : e.loc[v] \subseteq k.loc[v]
      /\ \A p \in Places : e.list[p] \subseteq k.list[p]
      /\ e.list[r] = {}
  BY <1>2, <1>3, <1>5 DEF Good, Machines
<1>7. /\ \A v \in Vars \ S : k.loc[v] = d.loc[v]
      /\ \A p \in Places : k.list[p] \subseteq d.list[p] \cup S
  BY <1>2, SavedFrame
<1>8. \A v \in Vars : Fresh(d, v) => v \notin S
  BY <1>2 DEF Fresh, S
<1>9. \A v \in Vars : Fresh(d, v) => Fresh(e, v)
  BY <1>6, <1>7, <1>8 DEF Fresh
<1>10. \A v \in Vars \ alive : e.loc[v] \subseteq d.loc[v]
  BY <1>2, <1>6, <1>7
<1> QED BY <1>4, <1>5, <1>6, <1>9, <1>10

LEMMA AllocRegFacts ==
  ASSUME NEW d, Good(d), NEW alive \in SUBSET Vars, NEW used,
         NEW re \in AllocReg(d, alive, used)
  PROVE  /\ re[1] \in Regs
         /\ Good(re[2])
         /\ Sound(d) => Sound(re[2])
         /\ re[2].list[re[1]] = {}
         /\ \A v \in Vars : Fresh(d, v) => Fresh(re[2], v)
<1>1. PICK r \in Victims(d) : re \in {<<r, e>> : e \in FreeReg(d, r, alive)}
  BY DEF AllocReg
<1>2. PICK e \in FreeReg(d, r, alive) : re = <<r, e>>
  BY <1>1
<1>3. r \in Regs
  BY DEF Victims, FreeRegs
<1>4. re[1] = r /\ re[2] = e
  BY <1>2
<1> QED BY <1>3, <1>4, FreeRegFacts

LEMMA MoveToRegFacts ==
  ASSUME NEW d, Good(d), NEW v \in Vars, NEW alive \in SUBSET Vars, NEW used,
         NEW e \in MoveToReg(d, v, alive, used)
  PROVE  /\ Good(e)
         /\ Sound(d) => Sound(e)
         /\ \A u \in Vars : Fresh(d, u) => Fresh(e, u)
<1>1. PICK re \in AllocReg(d, alive, used) : e \in Saved(re[2], {v}, {re[1]})
  BY DEF MoveToReg
<1>2. /\ re[1] \in Regs /\ Good(re[2]) /\ (Sound(d) => Sound(re[2]))
      /\ re[2].list[re[1]] = {}
      /\ \A u \in Vars : Fresh(d, u) => Fresh(re[2], u)
  BY AllocRegFacts
<1>3. {v} \in SUBSET Vars /\ {re[1]} \in SUBSET Places
  BY <1>2, PlacesInLocs
<1>4. Good(e)
  BY <1>1, <1>2, <1>3, SavedGood
<1>5. Sound(re[2]) => Sound(e)
  BY <1>1, <1>2, <1>3, SavedSound
<1>6. re[2].loc[v] # {}
  <2>1. PICK src \in [{v} -> Locs] : src[v] \in re[2].loc[v]
    BY <1>1, <1>2, <1>3, SavedFacts, SMTT(30)
  <2> QED BY <2>1
<1>7. \A u \in Vars : Fresh(re[2], u) => Fresh(e, u)
  <2> SUFFICES ASSUME NEW u \in Vars, Fresh(re[2], u) PROVE Fresh(e, u)
    OBVIOUS
  <2>1. u \notin {v}
    BY <1>6 DEF Fresh
  <2> QED BY <1>1, <1>2, <1>3, <2>1, SavedFresh
<1> QED BY <1>2, <1>4, <1>5, <1>7
-----------------------------------------------------------------------------
(* Forgetting and setting locations. *)
LEMMA DiscardFacts ==
  ASSUME NEW d, Good(d), NEW D \in SUBSET Vars
  PROVE  /\ Good(Discard(d, D))
         /\ Sound(d) => Sound(Discard(d, D))
         /\ Discard(d, D).holds = d.holds
         /\ Discard(d, D).loc = [v \in Vars |-> IF v \in D THEN {} ELSE d.loc[v]]
         /\ Discard(d, D).list = [p \in Places |-> {v \in d.list[p] : v \in D => p \notin d.loc[v]}]
<1> DEFINE e == Discard(d, D)
<1>1. e.loc = [v \in Vars |-> IF v \in D THEN {} ELSE d.loc[v]]
  BY DEF Good, Machines, Discard
<1>2. e.list = [p \in Places |-> {v \in d.list[p] : v \in D => p \notin d.loc[v]}]
  BY DEF Good, Machines, Discard
<1>3. e.holds = d.holds
  BY DEF Good, Machines, Discard
<1>4. e \in Machines
  BY <1>1, <1>2, <1>3 DEF Good, Machines, Discard
<1>5. Listed(e)
  BY <1>1, <1>2 DEF Good, Machines, Listed
<1>6. Sound(d) => Sound(e)
  BY <1>1, <1>3 DEF Sound
<1> QED BY <1>1, <1>2, <1>3, <1>4, <1>5, <1>6 DEF Good

LEMMA SetToFacts ==
  ASSUME NEW d, Good(d), NEW v \in Vars, NEW p \in Places
  PROVE  /\ Good(SetTo(d, v, p))
         /\ SetTo(d, v, p).holds = d.holds
         /\ SetTo(d, v, p).loc = [d.loc EXCEPT ![v] = @ \cup {p}]
         /\ SetTo(d, v, p).list = [d.list EXCEPT ![p] = @ \cup {v}]
<1> DEFINE e == SetTo(d, v, p)
<1>1. e.loc = [d.loc EXCEPT ![v] = @ \cup {p}]
  BY DEF Good, Machines, SetTo
<1>2. e.list = [d.list EXCEPT ![p] = @ \cup {v}]
  BY DEF Good, Machines, SetTo
<1>3. e.holds = d.holds
  BY DEF Good, Machines, SetTo
<1>4. e \in Machines
  BY <1>1, <1>2, <1>3, PlacesInLocs DEF Good, Machines, SetTo
<1>5. Listed(e)
  BY <1>1, <1>2 DEF Good, Machines, Listed
<1> QED BY <1>1, <1>2, <1>3, <1>4, <1>5 DEF Good

LEMMA StoreFacts ==
  ASSUME NEW d, Good(d), NEW v \in Vars, NEW p \in Places
  PROVE  /\ Good(Store(d, v, p))
         /\ Store(d, v, p).loc = d.loc /\ Store(d, v, p).list = d.list
         /\ Store(d, v, p).holds = [l \in Locs |-> IF l = p THEN {v} ELSE d.holds[l] \ {v}]
<1> DEFINE e == Store(d, v, p)
<1>1. e.loc = d.loc /\ e.list = d.list
  BY DEF Good, Machines, Store
<1>2. e.holds = [l \in Locs |-> IF l = p THEN {v} ELSE d.holds[l] \ {v}]
  BY ZenonT(60) DEF Good, Machines, Store
<1>3. e \in Machines
  BY <1>1, <1>2 DEF Good, Machines, Store
<1> QED BY <1>1, <1>2, <1>3 DEF Good, Listed

LEMMA SettleFacts ==
  ASSUME NEW d, Good(d)
  PROVE  /\ Good(Settle(d))
         /\ Sound(d) => Sound(Settle(d))
         /\ Settle(d).loc = d.loc /\ Settle(d).list = d.list
<1> DEFINE e == Settle(d)
<1>1. e.loc = d.loc /\ e.list = d.list
  BY DEF Good, Machines, Settle
<1>2. e.holds = [l \in Locs |-> {v \in d.holds[l] : l \in d.loc[v]}]
  BY DEF Good, Machines, Settle
<1>3. e \in Machines
  BY <1>1, <1>2 DEF Good, Machines, Settle
<1>4. Sound(d) => Sound(e)
  BY <1>1, <1>2 DEF Good, Machines, Sound
<1> QED BY <1>1, <1>3, <1>4 DEF Good, Listed

LEMMA AliasedFacts ==
  ASSUME NEW d, Good(d), NEW x \in Vars, NEW w \in Vars, x # w, d.loc[x] = {}
  PROVE  /\ Good(Aliased(d, x, w))
         /\ Sound(d) => Sound(Aliased(d, x, w))
<1> DEFINE e == Aliased(d, x, w)
<1>1. e \in Machines
  BY DEF Good, Machines, Aliased
<1>2. Listed(e)
  BY DEF Good, Machines, Listed, Aliased
<1>3. Sound(d) => Sound(e)
  BY DEF Good, Machines, Sound, Aliased
<1> QED BY <1>1, <1>2, <1>3 DEF Good

LEMMA FreeAllFacts ==
  ASSUME NEW d, Good(d), NEW alive \in SUBSET Vars, NEW e \in FreeAll(d, alive)
  PROVE  /\ Good(e)
         /\ Sound(d) => Sound(e)
         /\ \A v \in Vars : e.loc[v] \cap Regs = {}
         /\ \A r \in Regs : e.list[r] = {}
         /\ \A v \in Vars : Fresh(d, v) => Fresh(e, v)
<1> DEFINE S == {v \in alive : d.loc[v] # {} /\ d.loc[v] \subseteq Regs}
           drop(k) == [k EXCEPT !.loc = [v \in Vars |-> k.loc[v] \ Regs],
                                !.list = [p \in Places |-> IF p \in Regs THEN {} ELSE k.list[p]]]
<1>1. PICK k \in Saved(d, S, FreeSlots(d)) : e = drop(k)
  BY DEF FreeAll
<1>2. /\ S \in SUBSET Vars /\ FreeSlots(d) \in SUBSET Places
      /\ \A p \in FreeSlots(d) : d.list[p] = {}
  BY PlacesInLocs DEF FreeSlots
<1>2a. \A v \in Vars : Fresh(d, v) => v \notin S
  BY DEF Fresh
<1> HIDE DEF S
<1>3. Good(k) /\ (Sound(d) => Sound(k))
  BY <1>2, SavedGood, SavedSound
<1>4. /\ e.loc = [v \in Vars |-> k.loc[v] \ Regs]
      /\ e.list = [p \in Places |-> IF p \in Regs THEN {} ELSE k.list[p]]
      /\ e.holds = k.holds
  BY <1>1, <1>3 DEF Good, Machines
<1>5. e \in Machines
  BY <1>1, <1>3, <1>4 DEF Good, Machines
<1>6. Listed(e)
  BY <1>3, <1>4 DEF Good, Machines, Listed
<1>7. Sound(k) => Sound(e)
  BY <1>4 DEF Sound
<1>8. \A v \in Vars : Fresh(d, v) => Fresh(e, v)
  <2>1. /\ \A v \in Vars \ S : k.loc[v] = d.loc[v]
        /\ \A p \in Places : k.list[p] \subseteq d.list[p] \cup S
    BY <1>2, SavedFrame
  <2> QED BY <1>2a, <1>4, <2>1 DEF Fresh
<1> QED BY <1>3, <1>4, <1>5, <1>6, <1>7, <1>8, PlacesInLocs DEF Good
-----------------------------------------------------------------------------
(* The end of a block.  Done(d, v): v is somewhere, and alone there. *)
Done(d, v) == d.loc[v] # {} /\ Alone(d, v)

LEMMA KeepOwnFacts ==
  ASSUME NEW d, Good(d), NEW v \in Vars, OwnLocs(d, v) # {}
  PROVE  LET e == KeepOwn(d, v)
         IN /\ Good(e)
            /\ Sound(d) => Sound(e)
            /\ e.loc[v] # {}
            /\ \A p \in e.loc[v] \cap Places : e.list[p] = {v}
            /\ \A u \in Vars \ {v} : Done(d, u) => Done(e, u) /\ e.loc[u] = d.loc[u]
<1> DEFINE e == KeepOwn(d, v)
           O == OwnLocs(d, v)
<1>1. /\ O \subseteq d.loc[v] /\ O # {}
      /\ \A p \in O \cap Places : Cardinality(d.list[p]) = 1
  BY PlacesInLocs DEF OwnLocs, Refs
<1>2. /\ e.loc = [d.loc EXCEPT ![v] = O]
      /\ e.list = [p \in Places |-> IF p \in d.loc[v] \ O THEN d.list[p] \ {v} ELSE d.list[p]]
      /\ e.holds = d.holds
  BY DEF KeepOwn, Good, Machines
<1>3. \A p \in O \cap Places : d.list[p] = {v}
  <2> SUFFICES ASSUME NEW p \in O \cap Places PROVE d.list[p] = {v}
    OBVIOUS
  <2>1. v \in d.list[p] /\ Cardinality(d.list[p]) = 1
    BY <1>1 DEF Good, Listed
  <2>2. IsFiniteSet(d.list[p])
    BY FS_Subset DEF Good, Machines, GenLocAssumption
  <2> QED BY <2>1, <2>2, FS_Singleton
<1> HIDE DEF O
<1>4. e \in Machines
  BY <1>1, <1>2 DEF Good, Machines, KeepOwn
<1>5. Listed(e)
  BY <1>1, <1>2 DEF Good, Machines, Listed
<1>6. Sound(d) => Sound(e)
  BY <1>1, <1>2 DEF Good, Machines, Sound
<1>7. e.loc[v] = O
  BY <1>2 DEF Good, Machines
<1>8. \A p \in e.loc[v] \cap Places : e.list[p] = {v}
  BY <1>2, <1>3, <1>7
<1>9. \A u \in Vars \ {v} : Done(d, u) => Done(e, u) /\ e.loc[u] = d.loc[u]
  <2> SUFFICES ASSUME NEW u \in Vars \ {v}, Done(d, u)
               PROVE  Done(e, u) /\ e.loc[u] = d.loc[u]
    OBVIOUS
  <2>1. e.loc[u] = d.loc[u]
    BY <1>2 DEF Good, Machines
  <2>2. \A p \in d.loc[u] : p \in Places /\ d.list[p] = {u} /\ p \notin d.loc[v]
    BY DEF Done, Alone, Good, Listed
  <2>3. \A p \in d.loc[u] : e.list[p] = {u}
    BY <1>2, <2>2
  <2> QED BY <2>1, <2>2, <2>3 DEF Done, Alone
<1> QED BY <1>1, <1>4, <1>5, <1>6, <1>7, <1>8, <1>9 DEF Good

LEMMA TakeOverFacts ==
  ASSUME NEW d, Good(d), NEW v \in Vars, NEW l \in d.loc[v] \cap Places,
         NEW alive \in SUBSET Vars, NEW g \in TakeOver(d, v, l, alive)
  PROVE  /\ Good(g)
         /\ Sound(d) => Sound(g)
         /\ g.loc[v] = {l}
         /\ g.list[l] = {v}
         /\ \A u \in Vars \ {v} : Done(d, u) => Done(g, u) /\ g.loc[u] = d.loc[u]
<1> DEFINE e == [d EXCEPT !.loc[v] = {l}]
           others == {u \in d.list[l] \ {v} : ShouldSave(d, u, l, alive)}
<1>0. PICK S \in SUBSET others, P \in SUBSET (FreeRegs(d) \cup FreeSlots(d)) :
        \E f \in Saved(e, S, P) : g = [Erase(f, l) EXCEPT !.loc[v] = {l}, !.list[l] = {v}]
  <2>1. CASE l \in Regs
    <3>1. PICK f \in Saved(e, others, FreeRegs(d) \cup FreeSlots(d)) :
            g = [Erase(f, l) EXCEPT !.loc[v] = {l}, !.list[l] = {v}]
      BY <2>1 DEF TakeOver
    <3> HIDE DEF e, others
    <3> QED BY <3>1
  <2>2. CASE l \notin Regs
    <3>0. PICK f \in UNION {Saved(e, S, FreeRegs(d)) : S \in SUBSET others} :
            g = [Erase(f, l) EXCEPT !.loc[v] = {l}, !.list[l] = {v}]
      BY <2>2 DEF TakeOver
    <3>1. PICK S \in SUBSET others : f \in Saved(e, S, FreeRegs(d))
      OBVIOUS
    <3>2. FreeRegs(d) \in SUBSET (FreeRegs(d) \cup FreeSlots(d))
      OBVIOUS
    <3> HIDE DEF e, others
    <3> QED BY <3>0, <3>1, <3>2
  <2> QED BY <2>1, <2>2
<1>1. PICK f \in Saved(e, S, P) : g = [Erase(f, l) EXCEPT !.loc[v] = {l}, !.list[l] = {v}]
  BY <1>0
<1>2. l \in Locs /\ l \in Places
  BY PlacesInLocs
<1>3. /\ e.loc = [d.loc EXCEPT ![v] = {l}] /\ e.list = d.list /\ e.holds = d.holds
      /\ e \in Machines
  BY <1>2 DEF Good, Machines
<1>4. Good(e) /\ (Sound(d) => Sound(e))
  BY <1>3 DEF Good, Machines, Listed, Sound
<1>5. /\ P \in SUBSET Places /\ \A p \in P : e.list[p] = {} /\ d.list[p] = {}
      /\ S \in SUBSET Vars
      /\ \A u \in S : u # v /\ d.loc[u] \subseteq {l} /\ u \in d.list[l]
  BY <1>3, PlacesInLocs DEF FreeRegs, FreeSlots, ShouldSave, Good, Machines
<1>6. l \notin P
  BY <1>5 DEF Good, Listed
<1> HIDE DEF e, others
<1>7. Good(f) /\ (Sound(e) => Sound(f))
  BY <1>4, <1>5, SavedGood, SavedSound
<1>8. /\ \A u \in Vars \ S : f.loc[u] = e.loc[u]
      /\ \A p \in Places \ P : f.list[p] = e.list[p]
      /\ \A p \in Places : f.list[p] \subseteq e.list[p] \cup S
  BY <1>4, <1>5, SavedFrame
<1> DEFINE k == Erase(f, l)
<1>9. /\ Good(k) /\ (Sound(f) => Sound(k))
      /\ k.list = [f.list EXCEPT ![l] = {}]
      /\ k.loc = [u \in Vars |-> f.loc[u] \ (IF u \in f.list[l] THEN {l} ELSE {})]
      /\ k.holds = f.holds
  BY <1>2, <1>7, EraseGood
<1> HIDE DEF k
<1>10. g = [k EXCEPT !.loc[v] = {l}, !.list[l] = {v}]
  BY <1>1 DEF k
<1>11. /\ g.loc = [k.loc EXCEPT ![v] = {l}]
       /\ g.list = [k.list EXCEPT ![l] = {v}]
       /\ g.holds = k.holds
       /\ g \in Machines
  <2>1. k \in Machines
    BY <1>9 DEF Good
  <2>2. g.loc = [k.loc EXCEPT ![v] = {l}]
    BY <1>10, <2>1 DEF Machines
  <2>3. g.list = [k.list EXCEPT ![l] = {v}]
    BY <1>10, <2>1 DEF Machines
  <2>4. g.holds = k.holds /\ DOMAIN g = DOMAIN k
    BY <1>10, <2>1 DEF Machines
  <2>5. g \in Machines
    BY <1>2, <1>10, <2>1, <2>2, <2>3, <2>4 DEF Machines
  <2> QED BY <2>2, <2>3, <2>4, <2>5
<1>12. /\ g.loc[v] = {l} /\ g.list[l] = {v}
       /\ \A u \in Vars \ {v} : g.loc[u] = k.loc[u]
       /\ \A p \in Places \ {l} : g.list[p] = f.list[p]
  BY <1>2, <1>7, <1>9, <1>11 DEF Good, Machines
<1>13. \A u \in Vars : l \in f.loc[u] => l \notin k.loc[u]
  BY <1>2, <1>7, <1>9 DEF Good, Listed
<1>14. \A u \in Vars : k.loc[u] = f.loc[u] \ {l}
  BY <1>9, <1>13
<1>15. Listed(g)
  BY <1>2, <1>7, <1>12, <1>14 DEF Good, Listed
<1>16. f.loc[v] = {l}
  BY <1>3, <1>5, <1>8 DEF Good, Machines
<1>17. Sound(d) => Sound(g)
  BY <1>4, <1>7, <1>9, <1>11, <1>12, <1>14, <1>16 DEF Sound
<1>18. \A u \in Vars \ {v} : Done(d, u) => Done(g, u) /\ g.loc[u] = d.loc[u]
  <2> SUFFICES ASSUME NEW u \in Vars \ {v}, Done(d, u)
               PROVE  Done(g, u) /\ g.loc[u] = d.loc[u]
    OBVIOUS
  <2>1. \A p \in d.loc[u] : p \in Places /\ d.list[p] = {u} /\ p # l /\ p \notin P
    BY <1>5 DEF Done, Alone, Good, Listed
  <2>2. d.loc[u] # {} /\ u \notin S
    BY <1>5, <2>1 DEF Done
  <2>3. f.loc[u] = e.loc[u] /\ e.loc[u] = d.loc[u]
    BY <1>3, <1>8, <2>2 DEF Good, Machines
  <2>4. g.loc[u] = d.loc[u]
    <3>1. g.loc[u] = f.loc[u] \ {l}
      BY <1>12, <1>14
    <3>2. l \notin d.loc[u]
      BY <2>1
    <3> QED BY <2>3, <3>1, <3>2
  <2>5. \A p \in d.loc[u] : g.list[p] = {u}
    BY <1>3, <1>8, <1>12, <2>1
  <2> QED BY <2>1, <2>2, <2>4, <2>5 DEF Done, Alone
<1> QED BY <1>11, <1>12, <1>15, <1>17, <1>18 DEF Good

LEMMA PlacedFacts ==
  ASSUME NEW d, Good(d), NEW v \in Vars, d.loc[v] # {},
         \A p \in d.loc[v] \cap Places : d.list[p] = {v},
         NEW g \in Placed(d, v)
  PROVE  /\ Good(g)
         /\ Sound(d) => Sound(g)
         /\ Done(g, v)
         /\ \A u \in Vars \ {v} : Done(d, u) => Done(g, u) /\ g.loc[u] = d.loc[u]
<1> DEFINE F == FreeRegs(d) \cup FreeSlots(d)
           T == {v}
<1>1. PICK k \in (IF d.loc[v] \subseteq Consts THEN Saved(d, T, F) ELSE {d}) :
        g = [k EXCEPT !.loc[v] = @ \ Consts]
  BY DEF Placed
<1>2. /\ F \in SUBSET Places /\ \A p \in F : d.list[p] = {}
      /\ T \in SUBSET Vars /\ v \in T /\ \A u \in Vars \ {v} : u \notin T
  BY PlacesInLocs DEF FreeRegs, FreeSlots
<1> HIDE DEF F, T
<1>3. /\ Good(k) /\ (Sound(d) => Sound(k))
      /\ k.loc[v] \ Consts # {}
      /\ \A p \in k.loc[v] \cap Places : k.list[p] = {v}
      /\ \A u \in Vars \ {v} : k.loc[u] = d.loc[u]
      /\ \A p \in Places : d.list[p] # {} => k.list[p] = d.list[p]
  <2>1. CASE ~(d.loc[v] \subseteq Consts)
    BY <1>1, <2>1
  <2>2. CASE d.loc[v] \subseteq Consts
    <3>1. k \in Saved(d, T, F)
      BY <1>1, <2>2
    <3>2. Good(k) /\ (Sound(d) => Sound(k))
      BY <1>2, <3>1, SavedGood, SavedSound
    <3>3. /\ \A u \in Vars \ T : k.loc[u] = d.loc[u]
          /\ \A p \in Places \ F : k.list[p] = d.list[p]
          /\ \A p \in Places : k.list[p] \subseteq d.list[p] \cup T
      BY <1>2, <3>1, SavedFrame
    <3>4. /\ \A u \in T : d.loc[u] \subseteq k.loc[u] /\ k.loc[u] \subseteq d.loc[u] \cup F
          /\ \A u \in T : k.loc[u] \cap F # {}
      BY <1>2, <3>1, SavedPlaced, ZenonT(60)
    <3>5. PICK p \in F : p \in k.loc[v]
      BY <1>2, <3>4
    <3>6. k.loc[v] \ Consts # {}
      BY <1>2, <3>5, PlacesInLocs
    <3>7. \A q \in k.loc[v] \cap Places : k.list[q] = {v}
      <4> SUFFICES ASSUME NEW q \in k.loc[v] \cap Places PROVE k.list[q] = {v}
        OBVIOUS
      <4>1. q \in F
        BY <1>2, <2>2, <3>4, PlacesInLocs
      <4>2. k.list[q] \subseteq T /\ v \in k.list[q]
        BY <1>2, <3>2, <3>3, <4>1 DEF Good, Listed
      <4> QED BY <4>2 DEF T
    <3>8. \A u \in Vars \ {v} : k.loc[u] = d.loc[u]
      BY <1>2, <3>3
    <3>9. \A q \in Places : d.list[q] # {} => k.list[q] = d.list[q]
      BY <1>2, <3>3
    <3> QED BY <3>2, <3>6, <3>7, <3>8, <3>9
  <2> QED BY <2>1, <2>2
<1>4. k \in Machines
  BY <1>3 DEF Good
<1>5. /\ g.loc = [k.loc EXCEPT ![v] = @ \ Consts]
      /\ g.list = k.list /\ g.holds = k.holds
  BY <1>1, <1>4 DEF Machines
<1>6. g \in Machines
  BY <1>1, <1>4, <1>5 DEF Machines
<1>7. /\ g.loc[v] = k.loc[v] \ Consts
      /\ \A u \in Vars \ {v} : g.loc[u] = k.loc[u]
      /\ \A u \in Vars : g.loc[u] \subseteq k.loc[u]
  BY <1>4, <1>5 DEF Machines
<1>8. Listed(g)
  BY <1>3, <1>5, <1>7 DEF Good, Listed
<1>9. Sound(d) => Sound(g)
  BY <1>3, <1>5, <1>7 DEF Sound
<1>10. Done(g, v)
  <2>1. g.loc[v] \subseteq Places
    BY <1>4, <1>7 DEF Machines, Locs
  <2> QED BY <1>3, <1>5, <1>7, <2>1 DEF Done, Alone
<1>11. \A u \in Vars \ {v} : Done(d, u) => Done(g, u) /\ g.loc[u] = d.loc[u]
  <2> SUFFICES ASSUME NEW u \in Vars \ {v}, Done(d, u)
               PROVE  Done(g, u) /\ g.loc[u] = d.loc[u]
    OBVIOUS
  <2>1. g.loc[u] = d.loc[u]
    BY <1>3, <1>7
  <2>2. \A p \in d.loc[u] : p \in Places /\ d.list[p] = {u}
    BY DEF Done, Alone
  <2>3. \A p \in d.loc[u] : g.list[p] = {u}
    BY <1>3, <1>5, <2>2
  <2> QED BY <2>1, <2>2, <2>3 DEF Done, Alone
<1> QED BY <1>6, <1>8, <1>9, <1>10, <1>11 DEF Good

LEMMA EnsureUniqueFacts ==
  ASSUME NEW d, Good(d), NEW v \in Vars, d.loc[v] # {},
         NEW alive \in SUBSET Vars, NEW e \in EnsureUnique(d, v, alive)
  PROVE  /\ Good(e)
         /\ Sound(d) => Sound(e)
         /\ e.loc[v] # {}
         /\ \A p \in e.loc[v] \cap Places : e.list[p] = {v}
         /\ \A u \in Vars \ {v} : Done(d, u) => Done(e, u) /\ e.loc[u] = d.loc[u]
<1>1. CASE OwnLocs(d, v) # {}
  <2>1. e = KeepOwn(d, v)
    BY <1>1 DEF EnsureUnique
  <2> QED BY <1>1, <2>1, KeepOwnFacts
<1>2. CASE OwnLocs(d, v) = {}
  <2>1. PICK l \in LeastShared(d, v) : e \in TakeOver(d, v, l, alive)
    BY <1>2 DEF EnsureUnique
  <2>2. l \in d.loc[v]
    BY DEF LeastShared
  <2>3. l \in Places
    BY <1>2, <2>2 DEF OwnLocs, Refs, Good, Machines, Locs
  <2>4. /\ Good(e)
        /\ Sound(d) => Sound(e)
        /\ e.loc[v] = {l}
        /\ e.list[l] = {v}
        /\ \A u \in Vars \ {v} : Done(d, u) => Done(e, u) /\ e.loc[u] = d.loc[u]
    BY <2>1, <2>2, <2>3, TakeOverFacts
  <2> QED BY <2>4
<1> QED BY <1>1, <1>2
-----------------------------------------------------------------------------
(* The inductive invariant of the tables: besides being well formed and    *)
(* listed, what the handler's local variables say about the quadruple, and *)
(* that each variable save_live has visited stays alone in the locations   *)
(* recorded for the child.                                                 *)
Shape ==
  /\ pc \in {"update", "emit"} => cur.op = "arith"
  /\ pc = "call" => cur.op = "call"
  /\ cur.op \in {"arith", "read"} => cur.res \in Vars
  /\ cur.op = "read" => cur.args = {}
  /\ pc = "load" /\ cur.op = "if" => pending = cur.after

Kept == pc = "save" => \A v \in cur.after \ pending : entry[v] = m.loc[v] /\ Done(m, v)

TableInv == TypeOK /\ Listed(m) /\ Shape /\ Kept

LEMMA NoQuadrType == NoQuadr \in Quadrs
  BY PlacesInLocs DEF NoQuadr, Quadrs, Handlers

LEMMA BeginFacts ==
  ASSUME NEW op \in Handlers, NEW res \in Vars \cup {NoVar}, NEW args \in SUBSET Vars,
         NEW A \in SUBSET Vars, NEW step, Begin(op, res, args, A, step)
  PROVE  /\ cur' \in Quadrs
         /\ pc = "quadr"
         /\ pc' = step
         /\ step # "quadr" => cur'.op = op /\ cur'.res = res /\ cur'.args = args /\ cur'.after = A
         /\ step = "quadr" => cur'.op = "goto" /\ cur' = NoQuadr
<1>1. CASE step = "quadr"
  BY <1>1, NoQuadrType DEF Begin, NoQuadr
<1>2. CASE step # "quadr"
  <2>1. cur' = [NoQuadr EXCEPT !.op = op, !.res = res, !.args = args, !.after = A, !.todo = args]
    BY <1>2 DEF Begin
  <2>2. cur' \in Quadrs
    BY <2>1, NoQuadrType DEF Quadrs
  <2>3. cur'.op = op /\ cur'.res = res /\ cur'.args = args /\ cur'.after = A
    BY <2>1 DEF NoQuadr
  <2> QED BY <1>2, <2>2, <2>3 DEF Begin
<1> QED BY <1>1, <1>2

LEMMA AliveType == TypeOK => AliveDuringLoad \in SUBSET Vars
  BY DEF TypeOK, Quadrs, AliveDuringLoad

LEMMA TableInit == Init => TableInv
<1> SUFFICES ASSUME Init PROVE TableInv
  OBVIOUS
<1>0. PICK P \in SUBSET Vars : \E f \in Injection(P, Slots) :
        /\ live = P
        /\ m = [loc   |-> [v \in Vars |-> {s \in Slots : v \in P /\ f[v] = s}],
                list  |-> [p \in Places |-> {v \in P : f[v] = p}],
                holds |-> [l \in Locs |-> {v \in P : f[v] = l}]]
  BY DEF Init
<1>1. PICK f \in Injection(P, Slots) :
        /\ live = P
        /\ m = [loc   |-> [v \in Vars |-> {s \in Slots : v \in P /\ f[v] = s}],
                list  |-> [p \in Places |-> {v \in P : f[v] = p}],
                holds |-> [l \in Locs |-> {v \in P : f[v] = l}]]
  BY <1>0
<1>2. m \in Machines
  BY <1>1, PlacesInLocs DEF Machines
<1>3. Listed(m)
  BY <1>1, PlacesInLocs DEF Listed
<1>4. TypeOK
  BY <1>1, <1>2, NoQuadrType DEF Init, TypeOK, Steps
<1>5. Shape /\ Kept
  BY DEF Init, Shape, Kept, NoQuadr
<1> QED BY <1>3, <1>4, <1>5 DEF TableInv

(* A quadruple is begun: tables that are still good suffice. *)
LEMMA BeginInv ==
  ASSUME TableInv,
         NEW op \in Handlers, NEW res \in Vars \cup {NoVar}, NEW args \in SUBSET Vars,
         NEW A \in SUBSET Vars,
         NEW step \in {"quadr", "load", "result", "call", "save", "abort"},
         Begin(op, res, args, A, step),
         Good(m'), live' \in SUBSET Vars, entry' = entry,
         pending' = pending \/ pending' = A,
         step = "save" => pending' = A,
         step = "load" /\ op = "if" => pending' = A,
         step = "call" => op = "call",
         op \in {"arith", "read"} => res \in Vars,
         op = "read" => args = {}
  PROVE  TableInv'
<1>1. /\ cur' \in Quadrs
      /\ pc = "quadr"
      /\ pc' = step
      /\ step # "quadr" => cur'.op = op /\ cur'.res = res /\ cur'.args = args /\ cur'.after = A
      /\ step = "quadr" => cur'.op = "goto" /\ cur' = NoQuadr
  BY BeginFacts
<1>2. TypeOK'
  BY <1>1 DEF TableInv, TypeOK, Good, Steps
<1>3. Shape'
  BY <1>1 DEF Shape
<1>4. Kept'
  BY <1>1 DEF Kept
<1> QED BY <1>2, <1>3, <1>4 DEF TableInv, Good

LEMMA ResultRegsFacts ==
  ASSUME TypeOK, Listed(m), NEW re \in ResultRegs
  PROVE  /\ re[1] \in Regs
         /\ Good(re[2])
         /\ Sound(m) => Sound(re[2])
         /\ \A v \in Vars : Fresh(m, v) => Fresh(re[2], v)
<1>1. Good(m) /\ AliveDuringLoad \in SUBSET Vars
  BY AliveType DEF TypeOK, Good
<1>2. CASE re \in {<<r, m>> : r \in Regs \cap UNION {m.loc[v] : v \in ResultOwners}}
  BY <1>1, <1>2
<1>3. CASE re \in AllocReg(m, AliveDuringLoad, Used)
  BY <1>1, <1>3, AllocRegFacts
<1> QED BY <1>2, <1>3 DEF ResultRegs

(* Quadruples that are begun or, like copies, translated in one step. *)
LEMMA TableStart ==
  ASSUME TableInv, StartQuadr
  PROVE  TableInv'
<1>1. /\ Good(m) /\ m \in Machines /\ live \in SUBSET Vars
  BY DEF TableInv, TypeOK, Good
<1>2. \A D \in SUBSET Vars : Good(Discard(m, D))
  BY <1>1, DiscardFacts
<1>3. ASSUME NEW x \in Vars, NEW A \in SUBSET Vars, NEW w \in Vars, CopyVar(x, w, A)
      PROVE  TableInv'
  <2> DEFINE d == Discard(m, {x})
             e == IF x = w THEN d ELSE Aliased(d, x, w)
  <2>0. d.loc[x] = {}
    BY <1>1 DEF Discard, Machines
  <2>1. Good(d) /\ d.loc[x] = {}
    BY <1>2, <2>0
  <2>2. Good(e)
    BY <2>1, AliasedFacts
  <2>3. m' = Settle(Discard(e, {w} \ A))
    BY <1>3 DEF CopyVar
  <2> HIDE DEF e
  <2>4. Good(m')
    BY <2>2, <2>3, DiscardFacts, SettleFacts
  <2>5. PICK step \in {"quadr", "abort"} : Begin("copy", x, {w}, A, step)
    BY <1>3 DEF CopyVar
  <2> QED BY <1>3, <2>4, <2>5, BeginInv DEF CopyVar, Handlers
<1>4. ASSUME NEW x \in Vars, NEW A \in SUBSET Vars, NEW c \in Consts, CopyConst(x, c, A)
      PROVE  TableInv'
  <2> DEFINE d == Discard(m, {x})
             e == [d EXCEPT !.loc[x] = {c},
                            !.holds = [l \in Locs |->
                                (d.holds[l] \ {x}) \cup (IF l = c THEN {x} ELSE {})]]
  <2>1. Good(d)
    BY <1>2
  <2>2. m' = Settle(e)
    BY <1>4 DEF CopyConst
  <2> HIDE DEF d
  <2>3. Good(e)
    BY <2>1, PlacesInLocs, ZenonT(60) DEF Good, Machines, Listed
  <2> HIDE DEF e
  <2>4. Good(m')
    BY <2>2, <2>3, SettleFacts
  <2> QED BY <1>4, <2>4, BeginInv DEF CopyConst, Handlers
<1>5. ASSUME NEW x \in Vars, NEW A \in SUBSET Vars, NEW args \in SUBSET Vars, DeadResult(x, args, A)
      PROVE  TableInv'
  <2>1. m' = Settle(Discard(m, {x} \cup (args \ A)))
    BY <1>5 DEF DeadResult
  <2>2. Good(m')
    BY <1>1, <2>1, DiscardFacts, SettleFacts, ZenonT(60)
  <2> QED BY <1>5, <2>2, BeginInv DEF DeadResult, Handlers
<1>6. ASSUME NEW x \in Vars, NEW A \in SUBSET Vars, NEW args \in SUBSET Vars, StartArith(x, args, A)
      PROVE  TableInv'
  BY <1>1, <1>6, BeginInv DEF StartArith, Handlers
<1>7. ASSUME NEW A \in SUBSET Vars, NEW args \in SUBSET Vars, StartIf(args, A)
      PROVE  TableInv'
  BY <1>1, <1>7, BeginInv DEF StartIf, Handlers
<1>8. ASSUME StartGoto
      PROVE  TableInv'
  BY <1>1, <1>8, BeginInv DEF StartGoto, Handlers
<1>9. ASSUME NEW x \in Vars \cup {NoVar}, NEW A \in SUBSET Vars, NEW args \in SUBSET Vars,
             StartCall(x, args, A)
      PROVE  TableInv'
  <2>1. PICK step \in {"call", "load"} : Begin("call", x, args, A, step)
    BY <1>9 DEF StartCall
  <2> QED BY <1>1, <1>9, <2>1, BeginInv DEF StartCall, Handlers
<1>10. ASSUME NEW v \in Vars, NEW A \in SUBSET Vars, StartPrint(v, A)
       PROVE  TableInv'
  BY <1>1, <1>10, BeginInv DEF StartPrint, Handlers
<1>11. ASSUME NEW v \in Vars, NEW A \in SUBSET Vars, StartRead(v, A)
       PROVE  TableInv'
  BY <1>1, <1>11, BeginInv DEF StartRead, Handlers
<1>12. ASSUME NEW v \in Vars, StartReturn(v)
       PROVE  TableInv'
  BY <1>1, <1>12, BeginInv DEF StartReturn, Handlers
<1>13. \A a, b \in Vars : {a, b} \in SUBSET Vars
  OBVIOUS
<1> QED BY <1>3, <1>4, <1>5, <1>6, <1>7, <1>8, <1>9, <1>10, <1>11, <1>12, <1>13 DEF StartQuadr

LEMMA TableStep == TableInv /\ [Next]_vars => TableInv'
<1> SUFFICES ASSUME TableInv, [Next]_vars PROVE TableInv'
  OBVIOUS
<1>1. /\ Good(m) /\ m \in Machines /\ cur \in Quadrs /\ TypeOK /\ Listed(m) /\ Shape /\ Kept
      /\ cur.args \in SUBSET Vars /\ cur.after \in SUBSET Vars /\ cur.res \in Vars \cup {NoVar}
      /\ AliveDuringLoad \in SUBSET Vars
  BY AliveType DEF TableInv, TypeOK, Good, Quadrs
<1>2. CASE StartQuadr
  BY <1>2, TableStart
<1>3. ASSUME NEW v \in Vars, Prefetch(v)
      PROVE  TableInv'
  <2>1. Good(m')
    BY <1>1, <1>3, MoveToRegFacts DEF Prefetch
  <2> QED BY <1>1, <1>3, <2>1 DEF Prefetch, TableInv, TypeOK, Good, Shape, Kept
<1>4. ASSUME NEW v \in Vars, LoadArg(v)
      PROVE  TableInv'
  <2>1. Good(m')
    BY <1>1, <1>4, MoveToRegFacts DEF LoadArg
  <2>2. /\ cur' \in Quadrs
        /\ cur'.op = cur.op /\ cur'.res = cur.res /\ cur'.args = cur.args /\ cur'.after = cur.after
    BY <1>1, <1>4 DEF LoadArg, Quadrs
  <2>3. pc' \in {"load", AfterLoad} /\ pc = "load"
    BY <1>4 DEF LoadArg
  <2>4. TypeOK'
    BY <1>1, <1>4, <2>1, <2>2, <2>3 DEF LoadArg, TypeOK, Good, AfterLoad, Steps
  <2>5. Shape'
    BY <1>1, <1>4, <2>2, <2>3 DEF LoadArg, Shape, AfterLoad
  <2>6. Kept'
    BY <1>1, <1>4, <2>2, <2>3 DEF LoadArg, Shape, Kept, AfterLoad
  <2> QED BY <2>1, <2>4, <2>5, <2>6 DEF TableInv, Good
<1>5. ASSUME NEW v \in Vars, LoadLostArg(v)
      PROVE  TableInv'
  BY <1>1, <1>5 DEF LoadLostArg, TableInv, TypeOK, Steps, Shape, Kept
<1>6. CASE AllocAbort
  BY <1>1, <1>6 DEF AllocAbort, TableInv, TypeOK, Steps, Shape, Kept
<1>7. CASE ChooseResult
  <2>1. PICK re \in ResultRegs :
          /\ m' = re[2]
          /\ \E src \in Sources(re[2], cur.args) :
               cur' = [cur EXCEPT !.dst = re[1],
                                  !.opnd = [v \in Vars |-> IF v \in cur.args THEN src[v] ELSE RetReg]]
    BY <1>7 DEF ChooseResult
  <2>2. Good(m') /\ re[1] \in Regs
    BY <1>1, <2>1, ResultRegsFacts
  <2>3. PICK src \in Sources(re[2], cur.args) :
          cur' = [cur EXCEPT !.dst = re[1],
                             !.opnd = [v \in Vars |-> IF v \in cur.args THEN src[v] ELSE RetReg]]
    BY <2>1
  <2>4. \A v \in cur.args : src[v] \in Locs
    BY <1>1, <2>1, <2>2 DEF Sources, BestSrc, Good, Machines
  <2>5. /\ cur' \in Quadrs
        /\ cur'.op = cur.op /\ cur'.res = cur.res /\ cur'.args = cur.args /\ cur'.after = cur.after
    BY <1>1, <2>2, <2>3, <2>4, PlacesInLocs DEF Quadrs
  <2> QED BY <1>1, <1>7, <2>2, <2>5 DEF ChooseResult, TableInv, TypeOK, Steps, Shape, Kept, Good
<1>8. CASE UpdateLocations
  <2>1. PICK e \in FreeReg(Discard(m, {cur.res} \cup Dying), cur.dst, cur.after \ {cur.res}) :
          m' = SetTo(e, cur.res, cur.dst)
    BY <1>8 DEF UpdateLocations
  <2>2. cur.res \in Vars /\ cur.dst \in Regs
    BY <1>1, <1>8 DEF UpdateLocations, Shape, Quadrs
  <2>3. {cur.res} \cup Dying \in SUBSET Vars
    BY <1>1, <2>2 DEF Dying
  <2>4. Good(Discard(m, {cur.res} \cup Dying))
    BY <1>1, <2>3, DiscardFacts
  <2>5. Good(e)
    BY <1>1, <2>1, <2>2, <2>4, FreeRegFacts
  <2>6. Good(m')
    BY <2>1, <2>2, <2>5, PlacesInLocs, SetToFacts
  <2> QED BY <1>1, <1>8, <2>6 DEF UpdateLocations, TableInv, TypeOK, Steps, Shape, Kept, Good
<1>9. CASE Emit
  <2>1. cur.res \in Vars /\ cur.dst \in Places
    BY <1>1, <1>9, PlacesInLocs DEF Emit, Shape, Quadrs
  <2>2. Good(m')
    BY <1>1, <1>9, <2>1, StoreFacts, SettleFacts DEF Emit
  <2> QED BY <1>1, <1>9, <2>2, NoQuadrType
          DEF Emit, TableInv, TypeOK, Steps, Shape, Kept, Good, NoQuadr
<1>10. CASE DoCall
  <2>1. PICK e \in FreeAll(m, cur.after) :
          LET d == [e EXCEPT !.holds = [l \in Locs |-> IF l \in Regs THEN {} ELSE e.holds[l]]]
          IN m' = Settle(IF cur.res = NoVar THEN d
                         ELSE SetTo(Store(d, cur.res, RetReg), cur.res, RetReg))
    BY <1>10 DEF DoCall
  <2> DEFINE d == [e EXCEPT !.holds = [l \in Locs |-> IF l \in Regs THEN {} ELSE e.holds[l]]]
  <2>2. Good(e)
    BY <1>1, <2>1, FreeAllFacts
  <2>3. Good(d)
    BY <2>2 DEF Good, Machines, Listed
  <2>4. m' = Settle(IF cur.res = NoVar THEN d ELSE SetTo(Store(d, cur.res, RetReg), cur.res, RetReg))
    BY <2>1
  <2> HIDE DEF d
  <2>5. RetReg \in Places
    BY PlacesInLocs
  <2>6. Good(m')
    <3>1. CASE cur.res = NoVar
      BY <2>3, <2>4, <3>1, SettleFacts
    <3>2. CASE cur.res \in Vars
      <4>1. Good(SetTo(Store(d, cur.res, RetReg), cur.res, RetReg))
        BY <2>3, <2>5, <3>2, StoreFacts, SetToFacts
      <4> QED BY <2>4, <3>2, <4>1, SettleFacts
    <3> QED BY <1>1, <3>1, <3>2
  <2> QED BY <1>1, <1>10, <2>6, NoQuadrType
          DEF DoCall, TableInv, TypeOK, Steps, Shape, Kept, Good, NoQuadr
<1>11. CASE PrintValue
  <2>1. Dying \in SUBSET Vars
    BY <1>1 DEF Dying
  <2>2. Good(m')
    BY <1>1, <1>11, <2>1, DiscardFacts, SettleFacts DEF PrintValue
  <2> QED BY <1>1, <1>11, <2>2, NoQuadrType
          DEF PrintValue, TableInv, TypeOK, Steps, Shape, Kept, Good, NoQuadr
<1>12. CASE ReadValue
  <2>1. PICK re \in ResultRegs :
          m' = Settle(Store(SetTo(Discard(re[2], {cur.res}), cur.res, re[1]), cur.res, re[1]))
    BY <1>12 DEF ReadValue
  <2>2. cur.res \in Vars /\ Good(re[2]) /\ re[1] \in Places
    BY <1>1, <1>12, ResultRegsFacts, PlacesInLocs DEF ReadValue, Shape
  <2>3. Good(Discard(re[2], {cur.res}))
    BY <2>2, DiscardFacts
  <2>4. Good(SetTo(Discard(re[2], {cur.res}), cur.res, re[1]))
    BY <2>2, <2>3, SetToFacts
  <2>5. Good(m')
    BY <2>1, <2>2, <2>4, StoreFacts, SettleFacts
  <2> QED BY <1>1, <1>12, <2>5, NoQuadrType
          DEF ReadValue, TableInv, TypeOK, Steps, Shape, Kept, Good, NoQuadr
<1>13. CASE ReturnValue
  <2>1. PICK v \in cur.args :
          IF v \in m.list[RetReg] THEN m' = m
          ELSE \E e \in FreeReg(m, RetReg, cur.args) : m' \in Saved(e, {v}, {RetReg})
    BY <1>13 DEF ReturnValue
  <2>2. CASE v \in m.list[RetReg]
    BY <1>1, <1>13, <2>1, <2>2 DEF ReturnValue, TableInv, TypeOK, Steps, Shape, Kept, Good
  <2>3. CASE v \notin m.list[RetReg]
    <3>1. PICK e \in FreeReg(m, RetReg, cur.args) : m' \in Saved(e, {v}, {RetReg})
      BY <2>1, <2>3
    <3>2. {v} \in SUBSET Vars /\ {RetReg} \in SUBSET Places
      BY <1>1, PlacesInLocs
    <3>3. Good(e)
      BY <1>1, FreeRegFacts
    <3>4. Good(m')
      BY <3>1, <3>2, <3>3, SavedGood
    <3> QED BY <1>1, <1>13, <3>4 DEF ReturnValue, TableInv, TypeOK, Steps, Shape, Kept, Good
  <2> QED BY <2>2, <2>3
<1>14. ASSUME NEW v \in Vars, SaveVarAtBlockEnd(v)
       PROVE  TableInv'
  <2>1. PICK e \in EnsureUnique(m, v, cur.after \cup cur.args) : \E f \in Placed(e, v) :
          m' = f /\ entry' = [entry EXCEPT ![v] = f.loc[v]]
    BY <1>14 DEF SaveVarAtBlockEnd
  <2>2. m' \in Placed(e, v) /\ entry' = [entry EXCEPT ![v] = m'.loc[v]]
    BY <2>1
  <2>3. m.loc[v] # {} /\ cur.after \cup cur.args \in SUBSET Vars
    BY <1>1, <1>14 DEF SaveVarAtBlockEnd
  <2>4. /\ Good(e)
        /\ Sound(m) => Sound(e)
        /\ e.loc[v] # {}
        /\ \A p \in e.loc[v] \cap Places : e.list[p] = {v}
        /\ \A u \in Vars \ {v} : Done(m, u) => Done(e, u) /\ e.loc[u] = m.loc[u]
    BY <1>1, <2>1, <2>3, EnsureUniqueFacts
  <2>5. /\ Good(m')
        /\ Sound(e) => Sound(m')
        /\ Done(m', v)
        /\ \A u \in Vars \ {v} : Done(e, u) => Done(m', u) /\ m'.loc[u] = e.loc[u]
    BY <2>2, <2>4, PlacedFacts
  <2>6. /\ pc = "save" /\ pc' = pc /\ cur' = cur /\ live' = live /\ pending' = pending \ {v}
    BY <1>14 DEF SaveVarAtBlockEnd
  <2>7. TypeOK'
    BY <1>1, <2>2, <2>5, <2>6 DEF TypeOK, Good, Done, Alone
  <2>8. Shape'
    BY <1>1, <2>6 DEF Shape
  <2>9. Kept'
    <3> SUFFICES ASSUME NEW u \in cur.after \ pending'
                 PROVE  entry'[u] = m'.loc[u] /\ Done(m', u)
      BY <2>6 DEF Kept
    <3>1. CASE u = v
      BY <1>1, <2>2, <2>5, <3>1 DEF TypeOK
    <3>2. CASE u # v
      <4>1. entry[u] = m.loc[u] /\ Done(m, u)
        BY <1>1, <2>6, <3>2 DEF Kept
      <4>2. u \in Vars \ {v}
        BY <1>1, <3>2
      <4>3. Done(m', u) /\ m'.loc[u] = m.loc[u]
        BY <2>4, <2>5, <4>1, <4>2
      <4>4. entry'[u] = entry[u]
        BY <1>1, <2>2, <4>2 DEF TypeOK
      <4> QED BY <4>1, <4>3, <4>4
    <3> QED BY <3>1, <3>2
  <2> QED BY <2>5, <2>7, <2>8, <2>9 DEF TableInv, Good
<1>15. ASSUME NEW v \in Vars, SaveLostVar(v)
       PROVE  TableInv'
  BY <1>1, <1>15 DEF SaveLostVar, TableInv, TypeOK, Steps, Shape, Kept
<1>16. CASE Branch
  <2>1. cur.after \cup cur.args \in SUBSET Vars
    BY <1>1
  <2>2. Good(m')
    BY <1>1, <1>16, <2>1, DiscardFacts DEF Branch
  <2> QED BY <1>1, <1>16, <2>2 DEF Branch, TableInv, TypeOK, Steps, Shape, Kept, Good
<1>17. CASE BranchLostArg
  BY <1>1, <1>17 DEF BranchLostArg, TableInv, TypeOK, Steps, Shape, Kept
<1>18. ASSUME NEW L \in SUBSET Vars, NextBlock(L)
       PROVE  TableInv'
  <2> DEFINE d == [m EXCEPT !.loc = [v \in Vars |-> IF v \in L THEN entry[v] ELSE m.loc[v]],
                            !.list = [p \in Places |-> m.list[p] \cup {v \in L : p \in entry[v]}]]
  <2>1. m' = Settle(d)
    BY <1>18 DEF NextBlock
  <2>2. Good(d)
    BY <1>1, PlacesInLocs DEF TypeOK, Good, Machines, Listed
  <2> HIDE DEF d
  <2>3. Good(m')
    BY <2>1, <2>2, SettleFacts
  <2> QED BY <1>1, <1>18, <2>3, NoQuadrType
          DEF NextBlock, TableInv, TypeOK, Steps, Shape, Kept, Good, NoQuadr
<1>19. CASE UNCHANGED vars
  BY <1>1, <1>19 DEF vars, TableInv, TypeOK, Shape, Kept
<1>20. CASE Halted
  BY <1>19, <1>20 DEF Halted
<1> QED BY <1>2, <1>3, <1>4, <1>5, <1>6, <1>7, <1>8, <1>9, <1>10, <1>11, <1>12, <1>13, <1>14,
           <1>15, <1>16, <1>17, <1>18, <1>19, <1>20 DEF Next
-----------------------------------------------------------------------------
(* The invariant of the values.  When a call may not write into a variable *)
(* that has locations (~CallInPlace), the recorded locations are true      *)
(* except, between update_var_loc and the instruction, that of the result: *)
(* it is on its way to the one place recorded for it, where it is alone.   *)
(* The result of a call is a temporary the tracker does not know yet.      *)
OnItsWay ==
  /\ m.loc[cur.res] = {cur.dst}
  /\ m.list[cur.dst] = {cur.res}
  /\ \A v \in Vars \ {cur.res} : \A l \in m.loc[v] : v \in m.holds[l]

FreshResult ==
  (cur.op \in {"call", "read"} /\ pc \in {"load", "call", "result"} /\ cur.res # NoVar)
    => Fresh(m, cur.res)

ValueInv ==
  /\ pc # "emit" => Sound(m)
  /\ pc = "emit" => OnItsWay
  /\ FreshResult
  /\ EntryAgrees

LEMMA ValueInit == Init => ValueInv
<1> SUFFICES ASSUME Init PROVE ValueInv
  OBVIOUS
<1>1. \E P \in SUBSET Vars : \E f \in Injection(P, Slots) :
        m = [loc   |-> [v \in Vars |-> {s \in Slots : v \in P /\ f[v] = s}],
             list  |-> [p \in Places |-> {v \in P : f[v] = p}],
             holds |-> [l \in Locs |-> {v \in P : f[v] = l}]]
  BY DEF Init
<1>2. Sound(m)
  BY <1>1, PlacesInLocs DEF Sound
<1>3. FreshResult /\ EntryAgrees
  BY DEF Init, FreshResult, EntryAgrees, NoQuadr
<1> QED BY <1>2, <1>3 DEF Init, ValueInv

LEMMA BeginValue ==
  ASSUME NEW op \in Handlers, NEW res \in Vars \cup {NoVar}, NEW args \in SUBSET Vars,
         NEW A \in SUBSET Vars,
         NEW step \in {"quadr", "load", "result", "call", "save", "abort"},
         Begin(op, res, args, A, step),
         Sound(m'),
         op \in {"call", "read"} /\ res # NoVar => Fresh(m', res)
  PROVE  ValueInv'
<1>1. /\ pc' = step
      /\ step # "quadr" => cur'.op = op /\ cur'.res = res
      /\ step = "quadr" => cur'.op = "goto"
  BY BeginFacts
<1> QED BY <1>1 DEF ValueInv, FreshResult, EntryAgrees

LEMMA ValueStart ==
  ASSUME ~CallInPlace, TableInv, ValueInv, StartQuadr
  PROVE  ValueInv'
<1>1. Good(m) /\ m \in Machines
  BY DEF TableInv, TypeOK, Good
<1>2. pc = "quadr" => Sound(m)
  BY DEF ValueInv
<1>3. \A D \in SUBSET Vars : Good(Discard(m, D)) /\ (Sound(m) => Sound(Discard(m, D)))
  BY <1>1, DiscardFacts
<1>4. ASSUME NEW x \in Vars, NEW A \in SUBSET Vars, NEW w \in Vars, CopyVar(x, w, A)
      PROVE  ValueInv'
  <2> DEFINE d == Discard(m, {x})
             e == IF x = w THEN d ELSE Aliased(d, x, w)
  <2>1. d.loc[x] = {}
    BY <1>1 DEF Discard, Machines
  <2>2. Good(d) /\ Sound(d)
    BY <1>2, <1>3, <1>4 DEF CopyVar, Begin
  <2>3. Good(e) /\ Sound(e)
    BY <2>1, <2>2, AliasedFacts
  <2>4. m' = Settle(Discard(e, {w} \ A))
    BY <1>4 DEF CopyVar
  <2> HIDE DEF e
  <2>5. Sound(m')
    BY <2>3, <2>4, DiscardFacts, SettleFacts
  <2>6. PICK step \in {"quadr", "abort"} : Begin("copy", x, {w}, A, step)
    BY <1>4 DEF CopyVar
  <2> QED BY <2>5, <2>6, BeginValue DEF Handlers
<1>5. ASSUME NEW x \in Vars, NEW A \in SUBSET Vars, NEW c \in Consts, CopyConst(x, c, A)
      PROVE  ValueInv'
  <2> DEFINE d == Discard(m, {x})
             e == [d EXCEPT !.loc[x] = {c},
                            !.holds = [l \in Locs |->
                                (d.holds[l] \ {x}) \cup (IF l = c THEN {x} ELSE {})]]
  <2>1. Good(d) /\ Sound(d)
    BY <1>2, <1>3, <1>5 DEF CopyConst, Begin
  <2>2. m' = Settle(e)
    BY <1>5 DEF CopyConst
  <2> HIDE DEF d
  <2>3. Good(e)
    BY <2>1, PlacesInLocs, ZenonT(60) DEF Good, Machines, Listed
  <2>4. Sound(e)
    BY <2>1, PlacesInLocs DEF Good, Machines, Sound
  <2> HIDE DEF e
  <2>5. Sound(m')
    BY <2>2, <2>3, <2>4, SettleFacts
  <2> QED BY <1>5, <2>5, BeginValue DEF CopyConst, Handlers
<1>6. ASSUME NEW x \in Vars, NEW A \in SUBSET Vars, NEW args \in SUBSET Vars, DeadResult(x, args, A)
      PROVE  ValueInv'
  <2>1. m' = Settle(Discard(m, {x} \cup (args \ A)))
    BY <1>6 DEF DeadResult
  <2>2. Sound(m)
    BY <1>2, <1>6 DEF DeadResult, Begin
  <2>3. Sound(m')
    BY <1>1, <2>1, <2>2, DiscardFacts, SettleFacts, ZenonT(60)
  <2> QED BY <1>6, <2>3, BeginValue DEF DeadResult, Handlers
<1>7. ASSUME NEW op \in Handlers, NEW res \in Vars \cup {NoVar}, NEW args \in SUBSET Vars,
             NEW A \in SUBSET Vars, NEW step \in {"load", "result", "call", "save"},
             Begin(op, res, args, A, step), m' = m,
             op \in {"call", "read"} => MayReceiveCall(res)
      PROVE  ValueInv'
  <2>1. Sound(m')
    BY <1>2, <1>7 DEF Begin
  <2>2. op \in {"call", "read"} /\ res # NoVar => Fresh(m', res)
    BY <1>7 DEF MayReceiveCall, Fresh
  <2> QED BY <1>7, <2>1, <2>2, BeginValue
<1>8. ASSUME NEW x \in Vars, NEW A \in SUBSET Vars, NEW args \in SUBSET Vars, StartArith(x, args, A)
      PROVE  ValueInv'
  BY <1>7, <1>8 DEF StartArith, Handlers
<1>9. ASSUME NEW A \in SUBSET Vars, NEW args \in SUBSET Vars, StartIf(args, A)
      PROVE  ValueInv'
  BY <1>7, <1>9 DEF StartIf, Handlers
<1>10. ASSUME StartGoto
       PROVE  ValueInv'
  BY <1>7, <1>10 DEF StartGoto, Handlers, TableInv, TypeOK
<1>11. ASSUME NEW x \in Vars \cup {NoVar}, NEW A \in SUBSET Vars, NEW args \in SUBSET Vars,
              StartCall(x, args, A)
       PROVE  ValueInv'
  <2>1. PICK step \in {"call", "load"} : Begin("call", x, args, A, step)
    BY <1>11 DEF StartCall
  <2> QED BY <1>7, <1>11, <2>1 DEF StartCall, Handlers
<1>12. ASSUME NEW v \in Vars, NEW A \in SUBSET Vars, StartPrint(v, A)
       PROVE  ValueInv'
  BY <1>7, <1>12 DEF StartPrint, Handlers
<1>13. ASSUME NEW v \in Vars, NEW A \in SUBSET Vars, StartRead(v, A)
       PROVE  ValueInv'
  BY <1>7, <1>13 DEF StartRead, Handlers
<1>14. ASSUME NEW v \in Vars, StartReturn(v)
       PROVE  ValueInv'
  BY <1>7, <1>14 DEF StartReturn, Handlers
<1>15. \A a, b \in Vars : {a, b} \in SUBSET Vars
  OBVIOUS
<1> QED BY <1>4, <1>5, <1>6, <1>8, <1>9, <1>10, <1>11, <1>12, <1>13, <1>14, <1>15 DEF StartQuadr

(* update_locations: the result is recorded alone in its register. *)
LEMMA UpdateValue ==
  ASSUME TableInv, ValueInv, UpdateLocations
  PROVE  OnItsWay'
<1> DEFINE D == {cur.res} \cup Dying
           d == Discard(m, D)
           alive == cur.after \ {cur.res}
<1>1. PICK e \in FreeReg(d, cur.dst, alive) : m' = SetTo(e, cur.res, cur.dst)
  BY DEF UpdateLocations
<1>2. /\ cur.res \in Vars /\ cur.dst \in Regs /\ cur' = cur
      /\ D \in SUBSET Vars /\ alive \in SUBSET Vars /\ cur.res \in D
  BY DEF TableInv, TypeOK, Shape, UpdateLocations, Quadrs, Dying
<1>3. Good(m) /\ Sound(m)
  BY DEF TableInv, TypeOK, Good, ValueInv, UpdateLocations
<1> HIDE DEF D
<1>4. /\ Good(d) /\ Sound(d)
      /\ d.loc = [v \in Vars |-> IF v \in D THEN {} ELSE m.loc[v]]
  BY <1>2, <1>3, DiscardFacts
<1> HIDE DEF d
<1>5. cur.res \in Vars \ alive
  BY <1>2
<1> HIDE DEF alive
<1>6. /\ Good(e) /\ (Sound(d) => Sound(e))
      /\ e.list[cur.dst] = {}
      /\ \A v \in Vars : Fresh(d, v) => Fresh(e, v)
      /\ \A v \in Vars \ alive : e.loc[v] \subseteq d.loc[v]
  BY <1>1, <1>2, <1>4, FreeRegFacts
<1>7. e.loc[cur.res] = {}
  BY <1>2, <1>4, <1>5, <1>6
<1>8. /\ m'.holds = e.holds
      /\ m'.loc = [e.loc EXCEPT ![cur.res] = @ \cup {cur.dst}]
      /\ m'.list = [e.list EXCEPT ![cur.dst] = @ \cup {cur.res}]
  <2>1. Good(e) /\ cur.res \in Vars /\ cur.dst \in Places
    BY <1>2, <1>6, PlacesInLocs
  <2>2. /\ SetTo(e, cur.res, cur.dst).holds = e.holds
        /\ SetTo(e, cur.res, cur.dst).loc = [e.loc EXCEPT ![cur.res] = @ \cup {cur.dst}]
        /\ SetTo(e, cur.res, cur.dst).list = [e.list EXCEPT ![cur.dst] = @ \cup {cur.res}]
    BY ONLY <2>1, SMTT(20) DEF Good, Machines, SetTo
  <2> QED BY <1>1, <2>2, Zenon
<1>9. /\ m'.loc[cur.res] = {cur.dst} /\ m'.list[cur.dst] = {cur.res}
      /\ \A v \in Vars \ {cur.res} : m'.loc[v] = e.loc[v]
  BY <1>2, <1>6, <1>7, <1>8, PlacesInLocs DEF Good, Machines
<1> QED BY <1>2, <1>4, <1>6, <1>8, <1>9 DEF OnItsWay, Sound

(* The result arrives where nothing else is recorded: no old value of it   *)
(* and no other variable is left there. *)
LEMMA StoreSound ==
  ASSUME NEW d, Good(d), NEW v \in Vars, NEW p \in Places,
         d.loc[v] \subseteq {p}, d.list[p] \subseteq {v},
         \A u \in Vars \ {v} : \A l \in d.loc[u] : u \in d.holds[l]
  PROVE  Sound(Store(d, v, p))
<1>1. /\ Store(d, v, p).loc = d.loc
      /\ Store(d, v, p).holds = [l \in Locs |-> IF l = p THEN {v} ELSE d.holds[l] \ {v}]
  BY StoreFacts
<1>2. \A u \in Vars \ {v} : p \notin d.loc[u]
  BY DEF Good, Listed
<1>3. \A u \in Vars : d.loc[u] \subseteq Locs
  BY DEF Good, Machines
<1> QED BY <1>1, <1>2, <1>3 DEF Sound

LEMMA ArrivalSound ==
  ASSUME NEW d, Good(d), Sound(d), NEW v \in Vars, NEW p \in Places,
         d.loc[v] = {}, d.list[p] = {}
  PROVE  /\ Good(SetTo(Store(d, v, p), v, p)) /\ Sound(SetTo(Store(d, v, p), v, p))
         /\ Good(Store(SetTo(d, v, p), v, p)) /\ Sound(Store(SetTo(d, v, p), v, p))
<1> DEFINE g == SetTo(d, v, p)
<1>0. PICK k : k = Store(d, v, p)
  OBVIOUS
<1> DEFINE a == SetTo(k, v, p)
<1>1. /\ Good(k) /\ k.loc = d.loc /\ k.list = d.list
      /\ k.holds = [l \in Locs |-> IF l = p THEN {v} ELSE d.holds[l] \ {v}]
  BY <1>0, StoreFacts
<1>2. Good(k) /\ Sound(k)
  BY <1>0, <1>1, StoreSound DEF Sound
<1>3. /\ Good(a) /\ a.holds = k.holds
      /\ a.loc = [k.loc EXCEPT ![v] = @ \cup {p}]
      /\ a.list = [k.list EXCEPT ![p] = @ \cup {v}]
  BY <1>2, SetToFacts, SMTT(30)
<1>4. /\ Good(g) /\ g.holds = d.holds
      /\ g.loc = [d.loc EXCEPT ![v] = @ \cup {p}]
      /\ g.list = [d.list EXCEPT ![p] = @ \cup {v}]
  BY SetToFacts
<1> HIDE DEF a, g
<1>5. v \in k.holds[p]
  BY <1>1, PlacesInLocs
<1>6. Sound(a)
  <2>1. a.loc[v] = k.loc[v] \cup {p} /\ \A u \in Vars \ {v} : a.loc[u] = k.loc[u]
    BY <1>1, <1>3 DEF Good, Machines
  <2> QED BY <1>2, <1>3, <1>5, <2>1 DEF Sound
<1>7. /\ g.loc[v] = {p} /\ g.list[p] = {v}
      /\ \A u \in Vars \ {v} : g.loc[u] = d.loc[u]
  BY <1>4 DEF Good, Machines
<1>8. \A u \in Vars \ {v} : \A l \in g.loc[u] : u \in g.holds[l]
  BY <1>4, <1>7 DEF Sound
<1>9. Sound(Store(g, v, p)) /\ Good(Store(g, v, p))
  BY <1>4, <1>7, <1>8, StoreSound, StoreFacts
<1> QED BY <1>0, <1>3, <1>6, <1>9 DEF a, g

(* The call: what is left is on the stack, and the result was unknown. *)
LEMMA CallValue ==
  ASSUME TableInv, ValueInv, DoCall
  PROVE  Sound(m')
<1>1. PICK e \in FreeAll(m, cur.after) :
        LET d == [e EXCEPT !.holds = [l \in Locs |-> IF l \in Regs THEN {} ELSE e.holds[l]]]
        IN m' = Settle(IF cur.res = NoVar THEN d
                       ELSE SetTo(Store(d, cur.res, RetReg), cur.res, RetReg))
  BY DEF DoCall
<1> DEFINE d == [e EXCEPT !.holds = [l \in Locs |-> IF l \in Regs THEN {} ELSE e.holds[l]]]
<1>2. /\ Good(m) /\ Sound(m) /\ cur.after \in SUBSET Vars /\ cur.res \in Vars \cup {NoVar}
      /\ cur.res # NoVar => Fresh(m, cur.res)
  BY DEF TableInv, TypeOK, Good, Shape, ValueInv, FreshResult, DoCall, Quadrs
<1>3. /\ Good(e)
      /\ Sound(m) => Sound(e)
      /\ \A v \in Vars : e.loc[v] \cap Regs = {}
      /\ \A r \in Regs : e.list[r] = {}
      /\ \A v \in Vars : Fresh(m, v) => Fresh(e, v)
  BY <1>2, FreeAllFacts
<1>4. /\ d.loc = e.loc /\ d.list = e.list
      /\ d.holds = [l \in Locs |-> IF l \in Regs THEN {} ELSE e.holds[l]]
      /\ d \in Machines
  BY <1>3 DEF Good, Machines
<1>5. m' = Settle(IF cur.res = NoVar THEN d ELSE SetTo(Store(d, cur.res, RetReg), cur.res, RetReg))
  BY <1>1
<1> HIDE DEF d
<1>6. Good(d)
  BY <1>3, <1>4 DEF Good, Listed
<1>7. \A u \in Vars : \A l \in d.loc[u] : l \in Locs /\ u \in d.holds[l]
  BY <1>2, <1>3, <1>4 DEF Sound, Good, Machines
<1>8. CASE cur.res = NoVar
  BY <1>5, <1>6, <1>7, <1>8, SettleFacts DEF Sound
<1>9. CASE cur.res \in Vars
  <2>1. RetReg \in Places /\ d.loc[cur.res] = {} /\ d.list[RetReg] = {}
    BY <1>2, <1>3, <1>4, <1>9, PlacesInLocs DEF Fresh
  <2>2. Sound(d)
    BY <1>7 DEF Sound
  <2> DEFINE g == SetTo(Store(d, cur.res, RetReg), cur.res, RetReg)
  <2>3. Good(g) /\ Sound(g)
    BY <1>6, <1>9, <2>1, <2>2, ArrivalSound
  <2>4. m' = Settle(g)
    BY <1>5, <1>9
  <2> HIDE DEF g
  <2> QED BY <2>3, <2>4, SettleFacts
<1> QED BY <1>2, <1>8, <1>9

(* readInt: the result was unknown, so that its register is a new one. *)
LEMMA ReadValueSound ==
  ASSUME TableInv, ValueInv, ReadValue
  PROVE  Sound(m')
<1>1. PICK re \in ResultRegs :
        m' = Settle(Store(SetTo(Discard(re[2], {cur.res}), cur.res, re[1]), cur.res, re[1]))
  BY DEF ReadValue
<1>2. /\ Good(m) /\ Sound(m) /\ cur.res \in Vars /\ Fresh(m, cur.res) /\ cur.args = {}
      /\ AliveDuringLoad \in SUBSET Vars /\ TypeOK /\ Listed(m)
  BY AliveType DEF TableInv, TypeOK, Good, Shape, ValueInv, FreshResult, ReadValue, GenLocAssumption
<1>3. re \in AllocReg(m, AliveDuringLoad, Used)
  BY <1>2 DEF ResultRegs, ResultOwners, Dying, Fresh
<1>4. /\ re[1] \in Regs
      /\ Good(re[2])
      /\ Sound(m) => Sound(re[2])
      /\ re[2].list[re[1]] = {}
      /\ \A v \in Vars : Fresh(m, v) => Fresh(re[2], v)
  BY <1>2, <1>3, AllocRegFacts
<1> DEFINE k == re[2]
           r == re[1]
           d == Discard(k, {cur.res})
           g == Store(SetTo(d, cur.res, r), cur.res, r)
<1>5. /\ r \in Places /\ Good(k) /\ Sound(k) /\ k.list[r] = {} /\ {cur.res} \in SUBSET Vars
  BY <1>2, <1>4, PlacesInLocs
<1>6. m' = Settle(g)
  BY <1>1
<1> HIDE DEF k, r
<1>7. /\ Good(d) /\ Sound(d)
      /\ d.loc = [v \in Vars |-> IF v \in {cur.res} THEN {} ELSE k.loc[v]]
      /\ d.list = [p \in Places |-> {v \in k.list[p] : v \in {cur.res} => p \notin k.loc[v]}]
  BY <1>5, DiscardFacts
<1> HIDE DEF d
<1>8. d.loc[cur.res] = {} /\ d.list[r] = {}
  BY <1>2, <1>5, <1>7
<1>9. Good(g) /\ Sound(g)
  BY <1>2, <1>5, <1>7, <1>8, ArrivalSound
<1> HIDE DEF g
<1> QED BY <1>6, <1>9, SettleFacts

LEMMA ValueStep ==
  ASSUME ~CallInPlace, TableInv, ValueInv, [Next]_vars
  PROVE  ValueInv'
<1>1. /\ Good(m) /\ m \in Machines /\ cur \in Quadrs /\ TypeOK /\ Listed(m) /\ Shape /\ Kept
      /\ cur.args \in SUBSET Vars /\ cur.after \in SUBSET Vars /\ cur.res \in Vars \cup {NoVar}
      /\ AliveDuringLoad \in SUBSET Vars
  BY AliveType DEF TableInv, TypeOK, Good, Quadrs
<1>2. /\ pc # "emit" => Sound(m)
      /\ pc = "emit" => OnItsWay
      /\ FreshResult /\ EntryAgrees
  BY DEF ValueInv
<1>3. CASE StartQuadr
  BY <1>3, ValueStart
<1>4. ASSUME NEW v \in Vars, Prefetch(v)
      PROVE  ValueInv'
  <2>1. /\ Sound(m) => Sound(m')
        /\ \A u \in Vars : Fresh(m, u) => Fresh(m', u)
    BY <1>1, <1>4, MoveToRegFacts DEF Prefetch
  <2> QED BY <1>1, <1>2, <1>4, <2>1 DEF Prefetch, ValueInv, FreshResult, EntryAgrees
<1>5. ASSUME NEW v \in Vars, LoadArg(v)
      PROVE  ValueInv'
  <2>1. /\ Sound(m) => Sound(m')
        /\ \A u \in Vars : Fresh(m, u) => Fresh(m', u)
    BY <1>1, <1>5, MoveToRegFacts DEF LoadArg
  <2>2. /\ pc = "load" /\ pc' \in {"load", "save", "call", "result"}
        /\ cur'.op = cur.op /\ cur'.res = cur.res
    BY <1>1, <1>5 DEF LoadArg, AfterLoad, Quadrs
  <2> QED BY <1>1, <1>2, <2>1, <2>2 DEF ValueInv, FreshResult, EntryAgrees
<1>6. ASSUME NEW v \in Vars, LoadLostArg(v)
      PROVE  ValueInv'
  BY <1>2, <1>6 DEF LoadLostArg, ValueInv, FreshResult, EntryAgrees
<1>7. CASE AllocAbort
  BY <1>2, <1>7 DEF AllocAbort, ValueInv, FreshResult, EntryAgrees
<1>8. CASE ChooseResult
  <2>1. PICK re \in ResultRegs : m' = re[2]
    BY <1>8 DEF ChooseResult
  <2>2. Sound(m) => Sound(m')
    BY <1>1, <2>1, ResultRegsFacts
  <2> QED BY <1>2, <1>8, <2>2 DEF ChooseResult, ValueInv, FreshResult, EntryAgrees
<1>9. CASE UpdateLocations
  <2>1. OnItsWay'
    BY <1>9, UpdateValue
  <2> QED BY <1>9, <2>1 DEF UpdateLocations, ValueInv, FreshResult, EntryAgrees
<1>10. CASE Emit
  <2>1. cur.res \in Vars /\ cur.dst \in Places /\ OnItsWay
    BY <1>1, <1>2, <1>10, PlacesInLocs DEF Emit, Shape, Quadrs
  <2>2. Good(Store(m, cur.res, cur.dst)) /\ Sound(Store(m, cur.res, cur.dst))
    BY <1>1, <2>1, StoreFacts, StoreSound DEF OnItsWay
  <2>3. Sound(m')
    BY <1>10, <2>2, SettleFacts DEF Emit
  <2> QED BY <1>10, <2>3 DEF Emit, ValueInv, FreshResult, EntryAgrees
<1>11. CASE DoCall
  <2>1. Sound(m')
    BY <1>11, CallValue
  <2> QED BY <1>11, <2>1 DEF DoCall, ValueInv, FreshResult, EntryAgrees
<1>12. CASE PrintValue
  <2>1. Dying \in SUBSET Vars
    BY <1>1 DEF Dying
  <2>2. Sound(m')
    BY <1>1, <1>2, <1>12, <2>1, DiscardFacts, SettleFacts DEF PrintValue
  <2> QED BY <1>12, <2>2 DEF PrintValue, ValueInv, FreshResult, EntryAgrees
<1>13. CASE ReadValue
  <2>1. Sound(m')
    BY <1>13, ReadValueSound
  <2> QED BY <1>13, <2>1 DEF ReadValue, ValueInv, FreshResult, EntryAgrees
<1>14. CASE ReturnValue
  <2>1. PICK v \in cur.args :
          IF v \in m.list[RetReg] THEN m' = m
          ELSE \E e \in FreeReg(m, RetReg, cur.args) : m' \in Saved(e, {v}, {RetReg})
    BY <1>14 DEF ReturnValue
  <2>2. Sound(m')
    <3>1. CASE v \in m.list[RetReg]
      BY <1>2, <1>14, <2>1, <3>1 DEF ReturnValue
    <3>2. CASE v \notin m.list[RetReg]
      <4>1. PICK e \in FreeReg(m, RetReg, cur.args) : m' \in Saved(e, {v}, {RetReg})
        BY <2>1, <3>2
      <4>2. {v} \in SUBSET Vars /\ {RetReg} \in SUBSET Places
        BY <1>1, PlacesInLocs
      <4>3. Good(e) /\ Sound(e) /\ e.list[RetReg] = {}
        BY <1>1, <1>2, <1>14, FreeRegFacts DEF ReturnValue
      <4> QED BY <4>1, <4>2, <4>3, SavedSound
    <3> QED BY <3>1, <3>2
  <2> QED BY <1>14, <2>2 DEF ReturnValue, ValueInv, FreshResult, EntryAgrees
<1>15. ASSUME NEW v \in Vars, SaveVarAtBlockEnd(v)
       PROVE  ValueInv'
  <2>1. PICK e \in EnsureUnique(m, v, cur.after \cup cur.args) : m' \in Placed(e, v)
    BY <1>15 DEF SaveVarAtBlockEnd
  <2>2. /\ m.loc[v] # {} /\ cur.after \cup cur.args \in SUBSET Vars /\ Sound(m)
        /\ pc' = "save"
    BY <1>1, <1>2, <1>15 DEF SaveVarAtBlockEnd
  <2>3. /\ Good(e)
        /\ Sound(m) => Sound(e)
        /\ e.loc[v] # {}
        /\ \A p \in e.loc[v] \cap Places : e.list[p] = {v}
        /\ \A u \in Vars \ {v} : Done(m, u) => Done(e, u) /\ e.loc[u] = m.loc[u]
    BY <1>1, <2>1, <2>2, EnsureUniqueFacts
  <2>4. Sound(m')
    BY <2>1, <2>2, <2>3, PlacedFacts
  <2> QED BY <2>2, <2>4 DEF ValueInv, FreshResult, EntryAgrees
<1>16. ASSUME NEW v \in Vars, SaveLostVar(v)
       PROVE  ValueInv'
  BY <1>2, <1>16 DEF SaveLostVar, ValueInv, FreshResult, EntryAgrees
<1>17. CASE Branch
  <2>1. /\ pc = "save" /\ pending = {} /\ pc' = "leave" /\ cur' = cur /\ entry' = entry
        /\ m' = Discard(m, cur.after \cup cur.args)
        /\ cur.after \cup cur.args \in SUBSET Vars
    BY <1>1, <1>17 DEF Branch
  <2>2. Sound(m') /\ m'.holds = m.holds
    BY <1>1, <1>2, <2>1, DiscardFacts
  <2>3. EntryAgrees'
    <3> SUFFICES ASSUME NEW v \in cur.after
                 PROVE  entry[v] # {} /\ \A l \in entry[v] : v \in m'.holds[l]
      BY <2>1 DEF EntryAgrees
    <3>1. entry[v] = m.loc[v] /\ m.loc[v] # {} /\ v \in Vars
      BY <1>1, <2>1 DEF Kept, Done
    <3> QED BY <1>2, <2>1, <2>2, <3>1 DEF Sound
  <2> QED BY <2>1, <2>2, <2>3 DEF ValueInv, FreshResult
<1>18. CASE BranchLostArg
  BY <1>2, <1>18 DEF BranchLostArg, ValueInv, FreshResult, EntryAgrees
<1>19. ASSUME NEW L \in SUBSET Vars, NextBlock(L)
       PROVE  ValueInv'
  <2> DEFINE d == [m EXCEPT !.loc = [v \in Vars |-> IF v \in L THEN entry[v] ELSE m.loc[v]],
                            !.list = [p \in Places |-> m.list[p] \cup {v \in L : p \in entry[v]}]]
  <2>1. m' = Settle(d) /\ pc = "leave" /\ L \subseteq cur.after
    BY <1>19 DEF NextBlock
  <2>2. Good(d)
    BY <1>1, PlacesInLocs DEF TypeOK, Good, Machines, Listed
  <2>3. Sound(d)
    BY <1>1, <1>2, <2>1 DEF Sound, EntryAgrees, Machines
  <2> HIDE DEF d
  <2>4. Sound(m')
    BY <2>1, <2>2, <2>3, SettleFacts
  <2> QED BY <1>19, <2>4 DEF NextBlock, ValueInv, FreshResult, EntryAgrees
<1>20. CASE UNCHANGED vars
  BY <1>2, <1>20 DEF vars, ValueInv, OnItsWay, FreshResult, EntryAgrees
<1>21. CASE Halted
  BY <1>20, <1>21 DEF Halted
<1> QED BY <1>3, <1>4, <1>5, <1>6, <1>7, <1>8, <1>9, <1>10, <1>11, <1>12, <1>13, <1>14, <1>15,
           <1>16, <1>17, <1>18, <1>19, <1>20, <1>21 DEF Next
-----------------------------------------------------------------------------
LEMMA TableInvariant == Spec => []TableInv
<1> QED BY TableInit, TableStep, PTL DEF Spec

(* The state of the tracker is well formed, whatever the quadruples, the   *)
(* numbers of variables, registers and stack elements and the choices of   *)
(* the allocator are. *)
THEOREM TypeCorrect == Spec => []TypeOK
<1>1. TableInv => TypeOK
  BY DEF TableInv
<1> QED BY <1>1, TableInvariant, PTL

(* gencode_invariant, which gencode.c asserts around its operations, can   *)
(* never fail: a location of a variable always has the variable in its     *)
(* list. *)
THEOREM GencodeInvariant == Spec => []LocListed
<1>1. TableInv => LocListed
  BY DEF TableInv, Listed, LocListed
<1> QED BY <1>1, TableInvariant, PTL

(* When save_live is finished each variable live at the end of the block   *)
(* is alone in each of its locations: making one variable unique never     *)
(* undoes what was done for another. *)
THEOREM SavedUnique == Spec => []UniqueAtEnd
<1>1. TableInv => UniqueAtEnd
  BY DEF TableInv, Kept, UniqueAtEnd, Done, Alone
<1> QED BY <1>1, TableInvariant, PTL

LEMMA ValueInvariant ==
  ASSUME ~CallInPlace
  PROVE  Spec => []ValueInv
<1>1. TableInv /\ ValueInv /\ [Next]_vars => ValueInv'
  BY ValueStep
<1> QED BY <1>1, TableInvariant, ValueInit, PTL DEF Spec

(* The recorded locations never lie, provided that a call does not write   *)
(* its result into a variable that already has locations.  Without that    *)
(* assumption the run GenLocInPlace violates the property. *)
THEOREM DescriptorsSound ==
  ASSUME ~CallInPlace
  PROVE  Spec => []DescSound
<1>1. ValueInv => DescSound
  BY DEF ValueInv, Sound, OnItsWay, DescSound
<1> QED BY <1>1, ValueInvariant, PTL

(* What is recorded for the child block when a variable is saved is still  *)
(* true when the jump is written. *)
THEOREM EntryCorrect ==
  ASSUME ~CallInPlace
  PROVE  Spec => []EntryAgrees
<1>1. ValueInv => EntryAgrees
  BY DEF ValueInv
<1> QED BY <1>1, ValueInvariant, PTL

-----------------------------------------------------------------------------
(* The location tracker loses no live variable, a known constant has no    *)
(* other location, and RETURN finds the value it leaves behind.  The       *)
(* operators that produce new tables come first again: each keeps every    *)
(* variable it is told is live somewhere (the Keeps lemmas), gives a       *)
(* variable known to be a constant no place (the Pure lemmas), and keeps   *)
(* the lists of registers exact (the Tidy lemmas).                         *)
HIDE GenLocAssumption

Located(d, v) == d.loc[v] # {}

LEMMA SavedLoc ==
  ASSUME NEW d, Good(d), NEW S \in SUBSET Vars, NEW P \in SUBSET Places,
         NEW e \in Saved(d, S, P)
  PROVE  \A v \in Vars : d.loc[v] \subseteq e.loc[v] /\ e.loc[v] \subseteq d.loc[v] \cup P
<1>1. \A v \in Vars \ S : e.loc[v] = d.loc[v]
  BY SavedFrame, ZenonT(60)
<1>2. \A v \in S : d.loc[v] \subseteq e.loc[v] /\ e.loc[v] \subseteq d.loc[v] \cup P
  BY SavedPlaced
<1> QED BY <1>1, <1>2

(* A variable that is only in the register freed is copied elsewhere       *)
(* first: no free place is the register itself.                            *)
LEMMA FreeRegKeeps ==
  ASSUME NEW d, Good(d), NEW r \in Regs, NEW alive \in SUBSET Vars,
         NEW e \in FreeReg(d, r, alive), NEW v \in alive, Located(d, v)
  PROVE  Located(e, v)
<1> DEFINE S == {u \in d.list[r] : ShouldSave(d, u, r, alive)}
           P == FreeRegs(d) \cup FreeSlots(d)
<1>1. PICK k \in Saved(d, S, P) : e = Erase(k, r)
  BY DEF FreeReg
<1>2. /\ S \in SUBSET Vars /\ P \in SUBSET Places /\ r \in Places
      /\ \A p \in P : d.list[p] = {}
      /\ v \in S => d.list[r] # {}
      /\ v \in d.list[r] \ S => ~(d.loc[v] \subseteq {r})
  BY PlacesInLocs DEF Good, Machines, ShouldSave, FreeRegs, FreeSlots
<1> HIDE DEF S, P
<1>3. Good(k)
  BY <1>2, SavedGood
<1>4. \A u \in Vars \ S : k.loc[u] = d.loc[u]
  BY <1>2, SavedFrame, ZenonT(60)
<1>5. \A u \in S : k.loc[u] \cap P # {}
  BY <1>2, SavedPlaced
<1>6. e.loc[v] = k.loc[v] \ (IF v \in k.list[r] THEN {r} ELSE {})
  <2>1. Erase(k, r).loc = [u \in Vars |-> k.loc[u] \ (IF u \in k.list[r] THEN {r} ELSE {})]
    BY <1>2, <1>3, EraseGood, ZenonT(60)
  <2> QED BY <1>1, <2>1
<1>7. CASE v \in S
  <2>1. r \notin P
    BY <1>2, <1>7
  <2> QED BY <1>5, <1>6, <1>7, <2>1 DEF Located
<1>8. CASE v \in d.list[r] \ S
  BY <1>2, <1>4, <1>6, <1>8 DEF Located
<1>9. CASE v \notin d.list[r]
  <2>1. v \notin S /\ r \notin d.loc[v]
    BY <1>2, <1>9 DEF Good, Listed, S
  <2> QED BY <1>4, <1>6, <2>1 DEF Located
<1> QED BY <1>7, <1>8, <1>9

LEMMA AllocRegKeeps ==
  ASSUME NEW d, Good(d), NEW alive \in SUBSET Vars, NEW used,
         NEW re \in AllocReg(d, alive, used), NEW v \in alive, Located(d, v)
  PROVE  Located(re[2], v)
<1>1. PICK r \in Victims(d) : re \in {<<r, e>> : e \in FreeReg(d, r, alive)}
  BY DEF AllocReg
<1>2. PICK e \in FreeReg(d, r, alive) : re = <<r, e>>
  BY <1>1
<1>3. r \in Regs /\ re[2] = e
  BY <1>2 DEF Victims, FreeRegs
<1> QED BY <1>3, FreeRegKeeps

LEMMA MoveToRegKeeps ==
  ASSUME NEW d, Good(d), NEW v \in Vars, NEW alive \in SUBSET Vars, NEW used,
         NEW e \in MoveToReg(d, v, alive, used), NEW u \in alive, Located(d, u)
  PROVE  Located(e, u)
<1>1. PICK re \in AllocReg(d, alive, used) : e \in Saved(re[2], {v}, {re[1]})
  BY DEF MoveToReg
<1>2. Good(re[2]) /\ re[1] \in Regs
  BY AllocRegFacts
<1>3. Located(re[2], u)
  BY AllocRegKeeps
<1>4. {v} \in SUBSET Vars /\ {re[1]} \in SUBSET Places
  BY <1>2, PlacesInLocs
<1>5. re[2].loc[u] \subseteq e.loc[u]
  <2> DEFINE k == re[2]
             P == {re[1]}
             S == {v}
  <2>1. e \in Saved(k, S, P) /\ Good(k) /\ S \in SUBSET Vars /\ P \in SUBSET Places
    BY <1>1, <1>2, <1>4
  <2> HIDE DEF k, P, S
  <2>2. k.loc[u] \subseteq e.loc[u]
    BY <2>1, SavedLoc
  <2> QED BY <2>2 DEF k
<1> QED BY <1>3, <1>5 DEF Located

(* free_all: a live variable that is only in registers goes to the stack.  *)
LEMMA FreeAllKeeps ==
  ASSUME NEW d, Good(d), NEW alive \in SUBSET Vars, NEW e \in FreeAll(d, alive),
         NEW v \in alive, Located(d, v)
  PROVE  Located(e, v)
<1> DEFINE S == {u \in alive : d.loc[u] # {} /\ d.loc[u] \subseteq Regs}
           P == FreeSlots(d)
           drop(k) == [k EXCEPT !.loc = [u \in Vars |-> k.loc[u] \ Regs],
                                !.list = [p \in Places |-> IF p \in Regs THEN {} ELSE k.list[p]]]
<1>1. PICK k \in Saved(d, S, P) : e = drop(k)
  BY DEF FreeAll
<1>2. S \in SUBSET Vars /\ P \in SUBSET Places
  BY PlacesInLocs DEF FreeSlots
<1>3. v \notin S => ~(d.loc[v] \subseteq Regs)
  BY DEF Located
<1>4. P \cap Regs = {}
  BY GenLocAssumption DEF FreeSlots
<1> HIDE DEF S, P
<1>5. Good(k)
  BY <1>2, SavedGood
<1>6. \A u \in Vars : d.loc[u] \subseteq k.loc[u]
  BY <1>2, SavedLoc
<1>7. \A u \in S : k.loc[u] \cap P # {}
  BY <1>2, SavedPlaced
<1>8. e.loc = [u \in Vars |-> k.loc[u] \ Regs]
  BY <1>1, <1>5 DEF Good, Machines
<1> QED BY <1>3, <1>4, <1>6, <1>7, <1>8 DEF Located

LEMMA DiscardLoc ==
  ASSUME NEW d, Good(d), NEW D \in SUBSET Vars
  PROVE  Good(Discard(d, D)) /\ Discard(d, D).loc = [v \in Vars |-> IF v \in D THEN {} ELSE d.loc[v]]
BY DiscardFacts, ZenonT(60)

LEMMA SetToLoc ==
  ASSUME NEW d, Good(d), NEW v \in Vars, NEW p \in Places
  PROVE  /\ Good(SetTo(d, v, p))
         /\ p \in SetTo(d, v, p).loc[v]
         /\ SetTo(d, v, p).loc[v] \subseteq d.loc[v] \cup {p}
         /\ \A u \in Vars \ {v} : SetTo(d, v, p).loc[u] = d.loc[u]
<1>1. Good(SetTo(d, v, p))
  BY SetToFacts
<1>2. SetTo(d, v, p).loc = [d.loc EXCEPT ![v] = @ \cup {p}]
  BY DEF Good, Machines, SetTo
<1> QED BY <1>1, <1>2 DEF Good, Machines

LEMMA StoreLoc ==
  ASSUME NEW d, Good(d), NEW v \in Vars, NEW p \in Places
  PROVE  Good(Store(d, v, p)) /\ Store(d, v, p).loc = d.loc
BY StoreFacts

LEMMA SettleLoc ==
  ASSUME NEW d
  PROVE  Settle(d).loc = d.loc
BY DEF Settle

LEMMA ResultRegsKeeps ==
  ASSUME TypeOK, Listed(m), NEW re \in ResultRegs, NEW v \in AliveDuringLoad, Located(m, v)
  PROVE  Located(re[2], v)
<1>1. Good(m) /\ AliveDuringLoad \in SUBSET Vars
  BY AliveType DEF TypeOK, Good
<1>2. CASE re \in {<<r, m>> : r \in Regs \cap UNION {m.loc[u] : u \in ResultOwners}}
  BY <1>2
<1>3. CASE re \in AllocReg(m, AliveDuringLoad, Used)
  BY <1>1, <1>3, AllocRegKeeps
<1> QED BY <1>2, <1>3 DEF ResultRegs
-----------------------------------------------------------------------------
(* The inductive invariant.  Between the steps LiveLocated speaks of, the  *)
(* handler of an arithmetic quadruple has chosen the register of the       *)
(* result, and at the end of a block what is live is where it is recorded  *)
(* for the child. *)
LocatedInv ==
  /\ LiveLocated
  /\ pc = "update" => \A v \in cur.after \ {cur.res} : Located(m, v)
  /\ pc = "leave" => \A v \in cur.after : entry[v] # {}
  /\ cur.op = "print" => cur.res = NoVar

LEMMA MustBeAlive ==
  ASSUME pc \in {"load", "call", "result"}
  PROVE  /\ MustBeLocated \subseteq AliveDuringLoad
         /\ cur.after \ {cur.res} \subseteq MustBeLocated
  BY DEF MustBeLocated, AliveDuringLoad

LEMMA LocatedInit == Init => LocatedInv
<1> SUFFICES ASSUME Init PROVE LocatedInv
  OBVIOUS
<1>1. PICK P \in SUBSET Vars : \E f \in Injection(P, Slots) :
        /\ live = P
        /\ m = [loc   |-> [v \in Vars |-> {s \in Slots : v \in P /\ f[v] = s}],
                list  |-> [p \in Places |-> {v \in P : f[v] = p}],
                holds |-> [l \in Locs |-> {v \in P : f[v] = l}]]
  BY DEF Init
<1>2. PICK f \in Injection(P, Slots) :
        /\ live = P
        /\ m = [loc   |-> [v \in Vars |-> {s \in Slots : v \in P /\ f[v] = s}],
                list  |-> [p \in Places |-> {v \in P : f[v] = p}],
                holds |-> [l \in Locs |-> {v \in P : f[v] = l}]]
  BY <1>1
<1>3. \A v \in P : f[v] \in Slots
  BY DEF Injection, IsInjective
<1>4. \A v \in live : m.loc[v] # {}
  BY <1>2, <1>3
<1> QED BY <1>4 DEF Init, LocatedInv, LiveLocated, MustBeLocated, NoQuadr

(* A quadruple that is only begun: what it needs was live. *)
LEMMA BeginLocated ==
  ASSUME LocatedInv,
         NEW op \in Handlers, NEW res \in Vars \cup {NoVar}, NEW args \in SUBSET Vars,
         NEW A \in SUBSET Vars, NEW step \in {"load", "result", "call", "save"},
         Begin(op, res, args, A, step), m' = m, op = "print" => res = NoVar
  PROVE  LocatedInv'
<1>1. /\ pc = "quadr" /\ pc' = step
      /\ cur'.op = op /\ cur'.res = res /\ cur'.args = args /\ cur'.after = A
  BY BeginFacts
<1>2. (A \ {res}) \cup args = live
  BY DEF Begin, Afters
<1>3. \A v \in live : m.loc[v] # {}
  BY <1>1 DEF LocatedInv, LiveLocated, MustBeLocated
<1>4. LiveLocated'
  BY <1>1, <1>2, <1>3 DEF LiveLocated, MustBeLocated
<1> QED BY <1>1, <1>4 DEF LocatedInv

(* A quadruple that is translated in one step. *)
LEMMA CopiedLocated ==
  ASSUME NEW op \in Handlers, NEW res \in Vars \cup {NoVar}, NEW args \in SUBSET Vars,
         NEW A \in SUBSET Vars, NEW step \in {"quadr", "abort"},
         Begin(op, res, args, A, step), op # "print", live' = A,
         \A v \in A : m'.loc[v] # {}
  PROVE  LocatedInv'
<1>1. pc' = step /\ (step # "quadr" => cur'.op = op) /\ (step = "quadr" => cur'.op = "goto")
  BY BeginFacts
<1>2. LiveLocated'
  BY <1>1 DEF LiveLocated, MustBeLocated
<1> QED BY <1>1, <1>2 DEF LocatedInv

LEMMA LocatedStart ==
  ASSUME ~SelfCopy, TableInv, LocatedInv, StartQuadr
  PROVE  LocatedInv'
<1>1. Good(m) /\ m \in Machines /\ live \in SUBSET Vars
  BY DEF TableInv, TypeOK, Good
<1>2. pc = "quadr" => \A v \in live : m.loc[v] # {}
  BY DEF LocatedInv, LiveLocated, MustBeLocated
<1>3. ASSUME NEW x \in Vars, NEW A \in SUBSET Vars, NEW w \in Vars, CopyVar(x, w, A)
      PROVE  LocatedInv'
  <2> DEFINE d == Discard(m, {x})
             e == Aliased(d, x, w)
             g == Discard(e, {w} \ A)
  <2>1. PICK step \in {"quadr", "abort"} : Begin("copy", x, {w}, A, step)
    BY <1>3 DEF CopyVar
  <2>2. x # w /\ m' = Settle(g) /\ live' = A
    BY <1>3 DEF CopyVar
  <2>3. (A \ {x}) \cup {w} = live /\ pc = "quadr"
    BY <2>1 DEF Begin, Afters
  <2>4. Good(d) /\ d.loc = [v \in Vars |-> IF v \in {x} THEN {} ELSE m.loc[v]]
    <3>1. {x} \in SUBSET Vars
      OBVIOUS
    <3> QED BY <1>1, <3>1, DiscardLoc
  <2> HIDE DEF d
  <2>5. Good(e) /\ e.loc = [d.loc EXCEPT ![x] = d.loc[w]]
    BY <2>2, <2>4, AliasedFacts DEF Aliased
  <2> HIDE DEF e
  <2>6. Good(g) /\ g.loc = [v \in Vars |-> IF v \in {w} \ A THEN {} ELSE e.loc[v]]
    <3>1. {w} \ A \in SUBSET Vars
      OBVIOUS
    <3> QED BY <2>5, <3>1, DiscardLoc, ZenonT(60)
  <2> HIDE DEF g
  <2>7. m'.loc = g.loc
    BY <2>2, <2>6, SettleFacts
  <2>8. \A v \in A : m'.loc[v] # {}
    BY <1>2, <2>2, <2>3, <2>4, <2>5, <2>6, <2>7, SMTT(30)
  <2> QED BY <2>1, <2>2, <2>8, CopiedLocated DEF Handlers
<1>4. ASSUME NEW x \in Vars, NEW A \in SUBSET Vars, NEW c \in Consts, CopyConst(x, c, A)
      PROVE  LocatedInv'
  <2> DEFINE d == Discard(m, {x})
             e == [d EXCEPT !.loc[x] = {c},
                            !.holds = [l \in Locs |->
                                (d.holds[l] \ {x}) \cup (IF l = c THEN {x} ELSE {})]]
  <2>1. Good(d) /\ d.loc = [v \in Vars |-> IF v \in {x} THEN {} ELSE m.loc[v]]
    <3>1. {x} \in SUBSET Vars
      OBVIOUS
    <3> QED BY <1>1, <3>1, DiscardLoc
  <2>2. m' = Settle(e) /\ Begin("copy", x, {}, A, "quadr") /\ live' = A
    BY <1>4 DEF CopyConst
  <2> HIDE DEF d
  <2>3. Good(e) /\ e.loc = [d.loc EXCEPT ![x] = {c}]
    <3>1. e.loc = [d.loc EXCEPT ![x] = {c}]
      BY <2>1 DEF Good, Machines
    <3>2. Good(e)
      <4>1. Good(d)
        BY <2>1
      <4> QED BY ONLY <4>1, PlacesInLocs DEF Good, Machines, Listed
    <3> QED BY <3>1, <3>2
  <2> HIDE DEF e
  <2>4. m'.loc = e.loc
    BY <2>2, <2>3, SettleFacts
  <2>5. \A v \in A : m'.loc[v] # {}
    BY <1>2, <2>1, <2>2, <2>3, <2>4 DEF Begin, Afters
  <2> QED BY <2>2, <2>5, CopiedLocated DEF Handlers
<1>5. ASSUME NEW x \in Vars, NEW A \in SUBSET Vars, NEW args \in SUBSET Vars, DeadResult(x, args, A)
      PROVE  LocatedInv'
  <2> DEFINE D == {x} \cup (args \ A)
             d == Discard(m, D)
  <2>1. /\ m' = Settle(d) /\ Begin("copy", x, args, A, "quadr") /\ live' = A
        /\ x \notin A /\ D \in SUBSET Vars /\ \A v \in A : v \notin D
    BY <1>5 DEF DeadResult
  <2> HIDE DEF D
  <2>2. Good(d) /\ d.loc = [v \in Vars |-> IF v \in D THEN {} ELSE m.loc[v]]
    <3>1. Good(m) /\ D \in SUBSET Vars
      BY <1>1, <2>1
    <3> QED BY ONLY <3>1, DiscardLoc, ZenonT(60)
  <2> HIDE DEF d
  <2>3. m'.loc = d.loc
    BY <2>1, <2>2, SettleFacts
  <2>4. \A v \in A : m'.loc[v] # {}
    BY <1>2, <2>1, <2>2, <2>3 DEF Begin, Afters
  <2> QED BY <2>1, <2>4, CopiedLocated DEF Handlers
<1>6. ASSUME NEW x \in Vars, NEW A \in SUBSET Vars, NEW args \in SUBSET Vars, StartArith(x, args, A)
      PROVE  LocatedInv'
  BY <1>6, BeginLocated DEF StartArith, Handlers
<1>7. ASSUME NEW A \in SUBSET Vars, NEW args \in SUBSET Vars, StartIf(args, A)
      PROVE  LocatedInv'
  BY <1>7, BeginLocated DEF StartIf, Handlers
<1>8. ASSUME StartGoto
      PROVE  LocatedInv'
  BY <1>1, <1>8, BeginLocated DEF StartGoto, Handlers
<1>9. ASSUME NEW x \in Vars \cup {NoVar}, NEW A \in SUBSET Vars, NEW args \in SUBSET Vars,
             StartCall(x, args, A)
      PROVE  LocatedInv'
  <2>1. PICK step \in {"call", "load"} : Begin("call", x, args, A, step)
    BY <1>9 DEF StartCall
  <2> QED BY <1>9, <2>1, BeginLocated DEF StartCall, Handlers
<1>10. ASSUME NEW v \in Vars, NEW A \in SUBSET Vars, StartPrint(v, A)
       PROVE  LocatedInv'
  BY <1>10, BeginLocated DEF StartPrint, Handlers
<1>11. ASSUME NEW v \in Vars, NEW A \in SUBSET Vars, StartRead(v, A)
       PROVE  LocatedInv'
  BY <1>11, BeginLocated DEF StartRead, Handlers
<1>12. ASSUME NEW v \in Vars, StartReturn(v)
       PROVE  LocatedInv'
  BY <1>12, BeginLocated DEF StartReturn, Handlers
<1>13. \A a, b \in Vars : {a, b} \in SUBSET Vars
  OBVIOUS
<1> QED BY <1>3, <1>4, <1>5, <1>6, <1>7, <1>8, <1>9, <1>10, <1>11, <1>12, <1>13 DEF StartQuadr

LEMMA LocatedStep ==
  ASSUME ~SelfCopy, TableInv, LocatedInv, [Next]_vars
  PROVE  LocatedInv'
<1>1. /\ Good(m) /\ m \in Machines /\ cur \in Quadrs /\ TypeOK /\ Listed(m) /\ Shape /\ Kept
      /\ cur.args \in SUBSET Vars /\ cur.after \in SUBSET Vars /\ cur.res \in Vars \cup {NoVar}
      /\ AliveDuringLoad \in SUBSET Vars
  BY AliveType DEF TableInv, TypeOK, Good, Quadrs
<1>2. /\ \A v \in MustBeLocated : Located(m, v)
      /\ cur.op = "print" => cur.res = NoVar
  BY DEF LocatedInv, LiveLocated, Located
<1>3. CASE StartQuadr
  BY <1>3, LocatedStart
<1>4. ASSUME NEW v \in Vars, Prefetch(v)
      PROVE  LocatedInv'
  <2>1. MustBeLocated \subseteq AliveDuringLoad /\ MustBeLocated' = MustBeLocated
    BY <1>4, MustBeAlive DEF Prefetch, MustBeLocated
  <2>2. \A u \in MustBeLocated : Located(m', u)
    BY <1>1, <1>2, <1>4, <2>1, MoveToRegKeeps DEF Prefetch
  <2> QED BY <1>2, <1>4, <2>1, <2>2 DEF Prefetch, LocatedInv, LiveLocated, Located
<1>5. ASSUME NEW v \in Vars, LoadArg(v)
      PROVE  LocatedInv'
  <2>1. MustBeLocated \subseteq AliveDuringLoad
    BY <1>5, MustBeAlive DEF LoadArg
  <2>2. /\ cur'.op = cur.op /\ cur'.res = cur.res /\ cur'.args = cur.args /\ cur'.after = cur.after
        /\ pc = "load" /\ pc' \in {"load", "save", "call", "result"}
    BY <1>1, <1>5 DEF LoadArg, AfterLoad, Quadrs
  <2>3. MustBeLocated' \subseteq MustBeLocated
    BY <2>2 DEF MustBeLocated
  <2>4. \A u \in MustBeLocated : Located(m', u)
    BY <1>1, <1>2, <1>5, <2>1, MoveToRegKeeps DEF LoadArg
  <2> QED BY <1>2, <2>2, <2>3, <2>4 DEF LocatedInv, LiveLocated, Located
<1>6. ASSUME NEW v \in Vars, LoadLostArg(v)
      PROVE  LocatedInv'
  BY <1>2, <1>6 DEF LoadLostArg, LocatedInv, LiveLocated, MustBeLocated
<1>7. CASE AllocAbort
  BY <1>2, <1>7 DEF AllocAbort, LocatedInv, LiveLocated, MustBeLocated
<1>8. CASE ChooseResult
  <2>1. PICK re \in ResultRegs :
          /\ m' = re[2]
          /\ \E src \in Sources(re[2], cur.args) :
               cur' = [cur EXCEPT !.dst = re[1],
                                  !.opnd = [v \in Vars |-> IF v \in cur.args THEN src[v] ELSE RetReg]]
    BY <1>8 DEF ChooseResult
  <2>2. MustBeLocated \subseteq AliveDuringLoad /\ cur.after \ {cur.res} \subseteq MustBeLocated
    BY <1>8, MustBeAlive DEF ChooseResult
  <2>3. /\ cur'.op = cur.op /\ cur'.res = cur.res /\ cur'.after = cur.after
        /\ pc' = "update"
    BY <1>1, <1>8, <2>1 DEF ChooseResult, Quadrs
  <2>4. \A u \in cur.after \ {cur.res} : Located(m', u)
    BY <1>1, <1>2, <2>1, <2>2, ResultRegsKeeps
  <2> QED BY <1>2, <2>3, <2>4 DEF LocatedInv, LiveLocated, MustBeLocated
<1>9. CASE UpdateLocations
  <2> DEFINE D == {cur.res} \cup Dying
             d == Discard(m, D)
             alive == cur.after \ {cur.res}
  <2>1. PICK e \in FreeReg(d, cur.dst, alive) : m' = SetTo(e, cur.res, cur.dst)
    BY <1>9 DEF UpdateLocations
  <2>2. /\ cur.res \in Vars /\ cur.dst \in Regs /\ cur.dst \in Places
        /\ cur' = cur /\ pc' = "emit"
        /\ D \in SUBSET Vars /\ alive \in SUBSET Vars
        /\ \A v \in alive : v \notin D /\ m.loc[v] # {}
        /\ cur.after \subseteq alive \cup {cur.res}
    BY <1>1, <1>9, PlacesInLocs DEF UpdateLocations, Shape, Quadrs, Dying, LocatedInv, Located
  <2> HIDE DEF D, alive
  <2>3. Good(d) /\ d.loc = [v \in Vars |-> IF v \in D THEN {} ELSE m.loc[v]]
    BY <1>1, <2>2, DiscardLoc
  <2> HIDE DEF d
  <2>4. Good(e) /\ \A v \in alive : Located(e, v)
    BY <2>1, <2>2, <2>3, FreeRegFacts, FreeRegKeeps DEF Located
  <2>5. cur.dst \in m'.loc[cur.res] /\ \A v \in Vars \ {cur.res} : m'.loc[v] = e.loc[v]
    BY <2>1, <2>2, <2>4, SetToLoc
  <2>6. \A v \in cur.after : m'.loc[v] # {}
    BY <1>1, <2>2, <2>4, <2>5 DEF Located
  <2> QED BY <1>2, <2>2, <2>6 DEF LocatedInv, LiveLocated, MustBeLocated
<1>10. CASE Emit
  <2>1. cur.res \in Vars /\ cur.dst \in Places
    BY <1>1, <1>10, PlacesInLocs DEF Emit, Shape, Quadrs
  <2>2. m'.loc = m.loc
    BY <1>1, <1>10, <2>1, StoreLoc, SettleLoc DEF Emit
  <2> QED BY <1>2, <1>10, <2>2 DEF Emit, LocatedInv, LiveLocated, MustBeLocated, Located, NoQuadr
<1>11. CASE DoCall
  <2>1. PICK e \in FreeAll(m, cur.after) :
          LET d == [e EXCEPT !.holds = [l \in Locs |-> IF l \in Regs THEN {} ELSE e.holds[l]]]
          IN m' = Settle(IF cur.res = NoVar THEN d
                         ELSE SetTo(Store(d, cur.res, RetReg), cur.res, RetReg))
    BY <1>11 DEF DoCall
  <2> DEFINE d == [e EXCEPT !.holds = [l \in Locs |-> IF l \in Regs THEN {} ELSE e.holds[l]]]
             k == Store(d, cur.res, RetReg)
             g == SetTo(k, cur.res, RetReg)
  <2>2. Good(e) /\ \A v \in cur.after : Located(m, v) => Located(e, v)
    BY <1>1, FreeAllFacts, FreeAllKeeps
  <2>3. Good(d) /\ d.loc = e.loc
    BY <2>2 DEF Good, Machines, Listed
  <2>4. m' = Settle(IF cur.res = NoVar THEN d ELSE g)
    BY <2>1
  <2> HIDE DEF d
  <2>5. \A v \in cur.after : v # cur.res => d.loc[v] # {}
    BY <1>2, <1>11, <2>2, <2>3 DEF DoCall, MustBeLocated, Located
  <2>6. \A v \in cur.after : m'.loc[v] # {}
    <3>1. CASE cur.res = NoVar
      <4>1. NoVar \notin cur.after
        BY <1>1, GenLocAssumption
      <4>2. m'.loc = d.loc
        BY <2>4, <3>1, SettleLoc
      <4> QED BY <2>5, <3>1, <4>1, <4>2
    <3>2. CASE cur.res \in Vars
      <4>1. RetReg \in Places /\ cur.res # NoVar
        BY <3>2, GenLocAssumption, PlacesInLocs
      <4>2. Good(k) /\ k.loc = d.loc
        BY <2>3, <3>2, <4>1, StoreLoc
      <4> HIDE DEF k
      <4>3. RetReg \in g.loc[cur.res] /\ \A v \in Vars \ {cur.res} : g.loc[v] = k.loc[v]
        BY <3>2, <4>1, <4>2, SetToLoc
      <4> HIDE DEF g
      <4>4. m'.loc = g.loc
        BY <2>4, <4>1, SettleLoc
      <4> QED BY <1>1, <2>5, <4>2, <4>3, <4>4
    <3> QED BY <1>1, <3>1, <3>2
  <2> QED BY <1>11, <2>6 DEF DoCall, LocatedInv, LiveLocated, MustBeLocated, NoQuadr
<1>12. CASE PrintValue
  <2>1. Dying \in SUBSET Vars /\ \A v \in cur.after : v \notin Dying
    BY <1>1 DEF Dying
  <2>2. m'.loc = [v \in Vars |-> IF v \in Dying THEN {} ELSE m.loc[v]]
    BY <1>1, <1>12, <2>1, DiscardLoc, SettleFacts DEF PrintValue
  <2>3. \A v \in cur.after : m.loc[v] # {}
    BY <1>1, <1>2, <1>12, GenLocAssumption DEF PrintValue, MustBeLocated, Located
  <2> QED BY <1>1, <1>12, <2>1, <2>2, <2>3
          DEF PrintValue, LocatedInv, LiveLocated, MustBeLocated, NoQuadr
<1>13. CASE ReadValue
  <2>1. PICK re \in ResultRegs :
          m' = Settle(Store(SetTo(Discard(re[2], {cur.res}), cur.res, re[1]), cur.res, re[1]))
    BY <1>13 DEF ReadValue
  <2> DEFINE k == re[2]
             r == re[1]
             D == {cur.res}
             d == Discard(k, D)
             g == SetTo(d, cur.res, r)
             h == Store(g, cur.res, r)
  <2>2. cur.res \in Vars /\ Good(k) /\ r \in Places /\ D \in SUBSET Vars
    BY <1>1, <1>13, <2>1, ResultRegsFacts, PlacesInLocs DEF ReadValue, Shape
  <2>3. \A v \in cur.after \ {cur.res} : k.loc[v] # {}
    BY <1>1, <1>2, <1>13, <2>1, MustBeAlive, ResultRegsKeeps DEF ReadValue, Located
  <2>4. m' = Settle(h)
    BY <2>1
  <2> HIDE DEF k, r
  <2>5. Good(d) /\ d.loc = [v \in Vars |-> IF v \in D THEN {} ELSE k.loc[v]]
    BY <2>2, DiscardLoc
  <2> HIDE DEF d
  <2>6. /\ Good(g) /\ r \in g.loc[cur.res]
        /\ \A v \in Vars \ {cur.res} : g.loc[v] = d.loc[v]
    BY <2>2, <2>5, SetToLoc
  <2> HIDE DEF g
  <2>7. h.loc = g.loc
    BY <2>2, <2>6, StoreLoc
  <2> HIDE DEF h
  <2>8. m'.loc = g.loc
    BY <2>4, <2>7, SettleLoc
  <2>9. \A v \in cur.after : m'.loc[v] # {}
    BY <1>1, <2>2, <2>3, <2>5, <2>6, <2>8
  <2> QED BY <1>13, <2>9 DEF ReadValue, LocatedInv, LiveLocated, MustBeLocated, NoQuadr
<1>14. CASE ReturnValue
  BY <1>2, <1>14 DEF ReturnValue, LocatedInv, LiveLocated, MustBeLocated
<1>15. ASSUME NEW v \in Vars, SaveVarAtBlockEnd(v)
       PROVE  LocatedInv'
  BY <1>2, <1>15 DEF SaveVarAtBlockEnd, LocatedInv, LiveLocated, MustBeLocated
<1>16. ASSUME NEW v \in Vars, SaveLostVar(v)
       PROVE  LocatedInv'
  BY <1>2, <1>16 DEF SaveLostVar, LocatedInv, LiveLocated, MustBeLocated
<1>17. CASE Branch
  <2>1. \A v \in cur.after : entry[v] # {}
    BY <1>1, <1>17 DEF Branch, Kept, Done
  <2> QED BY <1>2, <1>17, <2>1 DEF Branch, LocatedInv, LiveLocated, MustBeLocated
<1>18. CASE BranchLostArg
  BY <1>2, <1>18 DEF BranchLostArg, LocatedInv, LiveLocated, MustBeLocated
<1>19. ASSUME NEW L \in SUBSET Vars, NextBlock(L)
       PROVE  LocatedInv'
  <2> DEFINE d == [m EXCEPT !.loc = [v \in Vars |-> IF v \in L THEN entry[v] ELSE m.loc[v]],
                            !.list = [p \in Places |-> m.list[p] \cup {v \in L : p \in entry[v]}]]
  <2>1. m' = Settle(d) /\ L \subseteq cur.after /\ \A v \in cur.after : entry[v] # {}
    BY <1>19 DEF NextBlock, LocatedInv
  <2>2. d.loc = [v \in Vars |-> IF v \in L THEN entry[v] ELSE m.loc[v]]
    BY <1>1 DEF Machines
  <2>3. m'.loc = d.loc
    BY <2>1 DEF Settle
  <2>4. \A v \in L : m'.loc[v] # {}
    BY <2>1, <2>2, <2>3
  <2> QED BY <1>19, <2>4 DEF NextBlock, LocatedInv, LiveLocated, MustBeLocated, NoQuadr
<1>20. CASE UNCHANGED vars
  BY <1>20 DEF vars, LocatedInv, LiveLocated, MustBeLocated, Located
<1>21. CASE Halted
  BY <1>20, <1>21 DEF Halted
<1> QED BY <1>3, <1>4, <1>5, <1>6, <1>7, <1>8, <1>9, <1>10, <1>11, <1>12, <1>13, <1>14, <1>15,
           <1>16, <1>17, <1>18, <1>19, <1>20, <1>21 DEF Next

(* No live variable is ever left without a location while quadruples are   *)
(* translated, whatever is evicted, flushed or saved, provided that no     *)
(* copy of a variable to itself is in the code.  Without that assumption   *)
(* copy_to_var empties the one list it then copies.                        *)
THEOREM LiveNeverLost ==
  ASSUME ~SelfCopy
  PROVE  Spec => []LiveLocated
<1>1. TableInv /\ LocatedInv /\ [Next]_vars => LocatedInv'
  BY LocatedStep
<1>2. LocatedInv => LiveLocated
  BY DEF LocatedInv
<1> QED BY <1>1, <1>2, TableInvariant, LocatedInit, PTL DEF Spec
-----------------------------------------------------------------------------
(* Constants.  Pure(d): a variable known to be a constant has no place.    *)
Pure(d) == \A v \in Vars : d.loc[v] \cap Consts # {} => d.loc[v] \subseteq Consts

(* Losing locations, and copying what is no constant, are harmless. *)
LEMMA FewerPure ==
  ASSUME NEW d, NEW e, Pure(d), \A v \in Vars : e.loc[v] \subseteq d.loc[v]
  PROVE  Pure(e)
BY DEF Pure

LEMMA SavedPure ==
  ASSUME NEW d, Good(d), Pure(d), NEW S \in SUBSET Vars, NEW P \in SUBSET Places,
         \A v \in S : d.loc[v] \cap Consts = {},
         NEW e \in Saved(d, S, P)
  PROVE  Pure(e)
<1>1. \A v \in Vars \ S : e.loc[v] = d.loc[v]
  BY SavedFrame, SMTT(30)
<1>2. \A v \in S : e.loc[v] \subseteq d.loc[v] \cup P
  BY SavedPlaced
<1>3. P \cap Consts = {}
  BY PlacesInLocs
<1> QED BY <1>1, <1>2, <1>3 DEF Pure

LEMMA FreeRegPure ==
  ASSUME NEW d, Good(d), Pure(d), NEW r \in Regs, NEW alive \in SUBSET Vars,
         NEW e \in FreeReg(d, r, alive)
  PROVE  Pure(e) /\ \A v \in Vars : e.loc[v] \subseteq d.loc[v] \cup Places
<1> DEFINE S == {u \in d.list[r] : ShouldSave(d, u, r, alive)}
           P == FreeRegs(d) \cup FreeSlots(d)
<1>1. PICK k \in Saved(d, S, P) : e = Erase(k, r)
  BY DEF FreeReg
<1>2. /\ S \in SUBSET Vars /\ P \in SUBSET Places /\ r \in Places
      /\ \A v \in S : d.loc[v] \subseteq {r}
  BY PlacesInLocs DEF Good, Machines, ShouldSave, FreeRegs, FreeSlots
<1>3. \A v \in S : d.loc[v] \cap Consts = {}
  BY <1>2, PlacesInLocs
<1> HIDE DEF S, P
<1>4. Good(k)
  BY <1>2, SavedGood
<1>5. Pure(k)
  BY <1>2, <1>3, SavedPure
<1>6. \A v \in Vars : k.loc[v] \subseteq d.loc[v] \cup P
  BY <1>2, SavedLoc
<1>7. \A v \in Vars : e.loc[v] \subseteq k.loc[v]
  <2>1. Erase(k, r).loc = [u \in Vars |-> k.loc[u] \ (IF u \in k.list[r] THEN {r} ELSE {})]
    BY <1>2, <1>4, EraseGood
  <2> QED BY <1>1, <2>1
<1>8. Pure(e)
  BY <1>5, <1>7, FewerPure
<1> QED BY <1>2, <1>6, <1>7, <1>8

LEMMA AllocRegPure ==
  ASSUME NEW d, Good(d), Pure(d), NEW alive \in SUBSET Vars, NEW used,
         NEW re \in AllocReg(d, alive, used)
  PROVE  Pure(re[2]) /\ \A v \in Vars : re[2].loc[v] \subseteq d.loc[v] \cup Places
<1>1. PICK r \in Victims(d) : re \in {<<r, e>> : e \in FreeReg(d, r, alive)}
  BY DEF AllocReg
<1>2. PICK e \in FreeReg(d, r, alive) : re = <<r, e>>
  BY <1>1
<1>3. r \in Regs /\ re[2] = e
  BY <1>2 DEF Victims, FreeRegs
<1> QED BY <1>3, FreeRegPure

LEMMA MoveToRegPure ==
  ASSUME NEW d, Good(d), Pure(d), NEW v \in Vars, d.loc[v] \subseteq Slots,
         NEW alive \in SUBSET Vars, NEW used, NEW e \in MoveToReg(d, v, alive, used)
  PROVE  Pure(e)
<1>1. PICK re \in AllocReg(d, alive, used) : e \in Saved(re[2], {v}, {re[1]})
  BY DEF MoveToReg
<1>2. Good(re[2]) /\ re[1] \in Regs
  BY AllocRegFacts
<1>3. Pure(re[2]) /\ re[2].loc[v] \subseteq d.loc[v] \cup Places
  BY AllocRegPure
<1> DEFINE k == re[2]
           P == {re[1]}
           S == {v}
<1>4. /\ e \in Saved(k, S, P) /\ Good(k) /\ Pure(k) /\ S \in SUBSET Vars /\ P \in SUBSET Places
      /\ \A u \in S : k.loc[u] \cap Consts = {}
  BY <1>1, <1>2, <1>3, PlacesInLocs
<1> HIDE DEF k, P, S
<1> QED BY <1>4, SavedPure

LEMMA FreeAllPure ==
  ASSUME NEW d, Good(d), Pure(d), NEW alive \in SUBSET Vars, NEW e \in FreeAll(d, alive)
  PROVE  Pure(e)
<1> DEFINE S == {u \in alive : d.loc[u] # {} /\ d.loc[u] \subseteq Regs}
           P == FreeSlots(d)
           drop(k) == [k EXCEPT !.loc = [u \in Vars |-> k.loc[u] \ Regs],
                                !.list = [p \in Places |-> IF p \in Regs THEN {} ELSE k.list[p]]]
<1>1. PICK k \in Saved(d, S, P) : e = drop(k)
  BY DEF FreeAll
<1>2. S \in SUBSET Vars /\ P \in SUBSET Places
  BY PlacesInLocs DEF FreeSlots
<1>3. \A v \in S : d.loc[v] \cap Consts = {}
  BY PlacesInLocs
<1> HIDE DEF S, P
<1>4. Good(k)
  BY <1>2, SavedGood
<1>5. Pure(k)
  BY <1>2, <1>3, SavedPure
<1>6. e.loc = [u \in Vars |-> k.loc[u] \ Regs]
  BY <1>1, <1>4 DEF Good, Machines
<1>7. \A v \in Vars : e.loc[v] \subseteq k.loc[v]
  BY <1>6
<1> QED BY <1>5, <1>7, FewerPure

LEMMA ResultRegsPure ==
  ASSUME TypeOK, Listed(m), Pure(m), NEW re \in ResultRegs
  PROVE  Pure(re[2])
<1>1. Good(m) /\ AliveDuringLoad \in SUBSET Vars
  BY AliveType DEF TypeOK, Good
<1>2. CASE re \in {<<r, m>> : r \in Regs \cap UNION {m.loc[u] : u \in ResultOwners}}
  BY <1>2
<1>3. CASE re \in AllocReg(m, AliveDuringLoad, Used)
  BY <1>1, <1>3, AllocRegPure
<1> QED BY <1>2, <1>3 DEF ResultRegs

(* A variable written into a place had no location. *)
LEMMA SetToPure ==
  ASSUME NEW d, Good(d), Pure(d), NEW v \in Vars, NEW p \in Places, d.loc[v] = {}
  PROVE  Pure(SetTo(d, v, p))
<1>1. /\ SetTo(d, v, p).loc[v] \subseteq {p}
      /\ \A u \in Vars \ {v} : SetTo(d, v, p).loc[u] = d.loc[u]
  BY SetToLoc
<1> QED BY <1>1, PlacesInLocs DEF Pure

(* ensure_unique saves only variables that have no location but the one    *)
(* taken over.                                                             *)
LEMMA EnsureUniquePure ==
  ASSUME NEW d, Good(d), Pure(d), NEW v \in Vars,
         NEW alive \in SUBSET Vars, NEW g \in EnsureUnique(d, v, alive)
  PROVE  Pure(g)
<1>1. CASE OwnLocs(d, v) # {}
  <2>1. g = KeepOwn(d, v)
    BY <1>1 DEF EnsureUnique
  <2>2. g.loc = [d.loc EXCEPT ![v] = OwnLocs(d, v)]
    BY <2>1 DEF KeepOwn, Good, Machines
  <2>3. \A u \in Vars : g.loc[u] \subseteq d.loc[u]
    BY <2>2 DEF OwnLocs, Good, Machines
  <2> QED BY <2>3, FewerPure
<1>2. CASE OwnLocs(d, v) = {}
  <2>1. PICK l \in LeastShared(d, v) : g \in TakeOver(d, v, l, alive)
    BY <1>2 DEF EnsureUnique
  <2>2. l \in d.loc[v] /\ l \in Places
    BY <1>2 DEF LeastShared, OwnLocs, Refs, Good, Machines, Locs
  <2> DEFINE e == [d EXCEPT !.loc[v] = {l}]
             others == {u \in d.list[l] \ {v} : ShouldSave(d, u, l, alive)}
  <2>3. PICK S \in SUBSET others, P \in SUBSET (FreeRegs(d) \cup FreeSlots(d)) :
          \E f \in Saved(e, S, P) : g = [Erase(f, l) EXCEPT !.loc[v] = {l}, !.list[l] = {v}]
    <3>1. CASE l \in Regs
      <4>1. PICK f \in Saved(e, others, FreeRegs(d) \cup FreeSlots(d)) :
              g = [Erase(f, l) EXCEPT !.loc[v] = {l}, !.list[l] = {v}]
        BY <2>1, <3>1 DEF TakeOver
      <4> HIDE DEF e, others
      <4> QED BY <4>1
    <3>2. CASE l \notin Regs
      <4>1. PICK f \in UNION {Saved(e, S, FreeRegs(d)) : S \in SUBSET others} :
              g = [Erase(f, l) EXCEPT !.loc[v] = {l}, !.list[l] = {v}]
        BY <2>1, <3>2 DEF TakeOver
      <4>2. PICK S \in SUBSET others : f \in Saved(e, S, FreeRegs(d))
        OBVIOUS
      <4>3. FreeRegs(d) \in SUBSET (FreeRegs(d) \cup FreeSlots(d))
        OBVIOUS
      <4> HIDE DEF e, others
      <4> QED BY <4>1, <4>2, <4>3
    <3> QED BY <3>1, <3>2
  <2>4. PICK f \in Saved(e, S, P) : g = [Erase(f, l) EXCEPT !.loc[v] = {l}, !.list[l] = {v}]
    BY <2>3
  <2>5. /\ e.loc = [d.loc EXCEPT ![v] = {l}] /\ e.list = d.list
        /\ e \in Machines
    BY <2>2, PlacesInLocs DEF Good, Machines
  <2>6. Good(e) /\ Pure(e)
    BY <2>2, <2>5, PlacesInLocs DEF Good, Machines, Listed, Pure
  <2>7. /\ P \in SUBSET Places /\ S \in SUBSET Vars
        /\ \A u \in S : u # v /\ d.loc[u] \subseteq {l}
    BY PlacesInLocs DEF FreeRegs, FreeSlots, ShouldSave, Good, Machines
  <2>8. \A u \in S : e.loc[u] \cap Consts = {}
    BY <2>2, <2>5, <2>7, PlacesInLocs DEF Good, Machines
  <2> HIDE DEF e, others
  <2>9. Good(f)
    BY <2>6, <2>7, SavedGood
  <2>10. Pure(f)
    BY <2>6, <2>7, <2>8, SavedPure
  <2> DEFINE k == Erase(f, l)
  <2>11. Good(k) /\ k.loc = [u \in Vars |-> f.loc[u] \ (IF u \in f.list[l] THEN {l} ELSE {})]
    BY <2>2, <2>9, EraseGood
  <2>12. g = [k EXCEPT !.loc[v] = {l}, !.list[l] = {v}]
    BY <2>4
  <2> HIDE DEF k
  <2>13. g.loc = [k.loc EXCEPT ![v] = {l}]
    BY <2>11, <2>12 DEF Good, Machines
  <2>14. \A u \in Vars : g.loc[u] \subseteq f.loc[u] \/ g.loc[u] = {l}
    BY <2>11, <2>13 DEF Good, Machines
  <2> QED BY <2>2, <2>10, <2>14, PlacesInLocs DEF Pure
<1> QED BY <1>1, <1>2

(* update_child_vars puts a constant into a place and forgets it. *)
LEMMA PlacedPure ==
  ASSUME NEW d, Good(d), Pure(d), NEW v \in Vars, NEW g \in Placed(d, v)
  PROVE  Pure(g)
<1> DEFINE F == FreeRegs(d) \cup FreeSlots(d)
           T == {v}
<1>1. PICK k \in (IF d.loc[v] \subseteq Consts THEN Saved(d, T, F) ELSE {d}) :
        g = [k EXCEPT !.loc[v] = @ \ Consts]
  BY DEF Placed
<1>2. F \in SUBSET Places /\ T \in SUBSET Vars /\ \A u \in Vars \ {v} : u \notin T
  BY PlacesInLocs DEF FreeRegs, FreeSlots
<1> HIDE DEF F, T
<1>3. Good(k) /\ \A u \in Vars \ {v} : k.loc[u] = d.loc[u]
  <2>1. CASE ~(d.loc[v] \subseteq Consts)
    BY <1>1, <2>1
  <2>2. CASE d.loc[v] \subseteq Consts
    <3>1. k \in Saved(d, T, F)
      BY <1>1, <2>2
    <3>2. Good(k)
      BY <1>2, <3>1, SavedGood
    <3>3. \A u \in Vars \ T : k.loc[u] = d.loc[u]
      BY <1>2, <3>1, SavedFrame, SMTT(30)
    <3> QED BY <1>2, <3>2, <3>3
  <2> QED BY <2>1, <2>2
<1>4. g.loc = [k.loc EXCEPT ![v] = @ \ Consts]
  BY <1>1, <1>3 DEF Good, Machines
<1>5. g.loc[v] \cap Consts = {} /\ \A u \in Vars \ {v} : g.loc[u] = d.loc[u]
  BY <1>3, <1>4 DEF Good, Machines
<1> QED BY <1>5 DEF Pure

(* The value of a new location arrives in a variable that had none: for    *)
(* the result of a call this is FreshResult of ValueInv, and the result of *)
(* an arithmetic quadruple was discarded before. *)
PureInv == pc # "returned" => Pure(m)

LEMMA SettlePure ==
  ASSUME NEW d, Pure(d)
  PROVE  Pure(Settle(d))
BY SettleLoc DEF Pure

LEMMA DiscardPure ==
  ASSUME NEW d, Good(d), Pure(d), NEW D \in SUBSET Vars
  PROVE  Pure(Discard(d, D))
<1>1. Discard(d, D).loc = [v \in Vars |-> IF v \in D THEN {} ELSE d.loc[v]]
  BY DiscardLoc
<1>2. \A v \in Vars : Discard(d, D).loc[v] \subseteq d.loc[v]
  BY <1>1
<1> QED BY <1>2, FewerPure

LEMMA PureInit == Init => PureInv
<1> SUFFICES ASSUME Init PROVE PureInv
  OBVIOUS
<1>1. \E P \in SUBSET Vars : \E f \in Injection(P, Slots) :
        m = [loc   |-> [v \in Vars |-> {s \in Slots : v \in P /\ f[v] = s}],
             list  |-> [p \in Places |-> {v \in P : f[v] = p}],
             holds |-> [l \in Locs |-> {v \in P : f[v] = l}]]
  BY DEF Init
<1>2. \A v \in Vars : m.loc[v] \subseteq Slots
  BY <1>1
<1> QED BY <1>2, PlacesInLocs DEF PureInv, Pure

LEMMA PureStart ==
  ASSUME TableInv, PureInv, StartQuadr
  PROVE  PureInv'
<1>1. Good(m) /\ m \in Machines
  BY DEF TableInv, TypeOK, Good
<1>2. pc = "quadr" => Pure(m)
  BY DEF PureInv
<1>3. ASSUME NEW x \in Vars, NEW A \in SUBSET Vars, NEW w \in Vars, CopyVar(x, w, A)
      PROVE  PureInv'
  <2> DEFINE D == {x}
             d == Discard(m, D)
             e == Aliased(d, x, w)
             W == {w} \ A
             g == Discard(IF x = w THEN d ELSE e, W)
  <2>1. m' = Settle(g) /\ Pure(m) /\ D \in SUBSET Vars /\ W \in SUBSET Vars
    BY <1>2, <1>3 DEF CopyVar, Begin
  <2>2. Good(d) /\ Pure(d) /\ d.loc[x] = {}
    <3>1. d.loc = [v \in Vars |-> IF v \in D THEN {} ELSE m.loc[v]]
      BY <1>1, <2>1, DiscardLoc
    <3>2. d.loc[x] = {}
      BY <3>1
    <3> HIDE DEF D
    <3> QED BY <1>1, <2>1, <3>2, DiscardLoc, DiscardPure
  <2> HIDE DEF D, d, W
  <2>3. x # w => Good(e) /\ Pure(e)
    <3> SUFFICES ASSUME x # w PROVE Good(e) /\ Pure(e)
      OBVIOUS
    <3>1. e.loc = [d.loc EXCEPT ![x] = d.loc[w]]
      BY DEF Aliased
    <3>2. Good(e)
      BY <2>2, AliasedFacts
    <3> QED BY <2>2, <3>1, <3>2 DEF Pure, Good, Machines
  <2> HIDE DEF e
  <2>4. Pure(g)
    BY <2>1, <2>2, <2>3, DiscardPure
  <2> HIDE DEF g
  <2> QED BY <2>1, <2>4, SettlePure DEF PureInv
<1>4. ASSUME NEW x \in Vars, NEW A \in SUBSET Vars, NEW c \in Consts, CopyConst(x, c, A)
      PROVE  PureInv'
  <2> DEFINE D == {x}
             d == Discard(m, D)
             e == [d EXCEPT !.loc[x] = {c},
                            !.holds = [l \in Locs |->
                                (d.holds[l] \ {x}) \cup (IF l = c THEN {x} ELSE {})]]
  <2>1. m' = Settle(e) /\ Pure(m) /\ D \in SUBSET Vars
    BY <1>2, <1>4 DEF CopyConst, Begin
  <2>2. Good(d) /\ Pure(d)
    BY <1>1, <2>1, DiscardLoc, DiscardPure
  <2> HIDE DEF d
  <2>3. e.loc = [d.loc EXCEPT ![x] = {c}]
    BY <2>2 DEF Good, Machines
  <2> HIDE DEF e
  <2>4. Pure(e)
    BY <2>2, <2>3, PlacesInLocs DEF Pure, Good, Machines
  <2> QED BY <2>1, <2>4, SettlePure DEF PureInv
<1>5. ASSUME NEW x \in Vars, NEW A \in SUBSET Vars, NEW args \in SUBSET Vars, DeadResult(x, args, A)
      PROVE  PureInv'
  <2> DEFINE D == {x} \cup (args \ A)
  <2>1. m' = Settle(Discard(m, D)) /\ Pure(m) /\ D \in SUBSET Vars
    BY <1>2, <1>5 DEF DeadResult, Begin
  <2> HIDE DEF D
  <2> QED BY <1>1, <2>1, DiscardPure, SettlePure DEF PureInv
<1>6. ASSUME m' = m, pc = "quadr"
      PROVE  PureInv'
  BY <1>2, <1>6 DEF PureInv
<1> QED BY <1>3, <1>4, <1>5, <1>6
        DEF StartQuadr, StartArith, StartIf, StartGoto, StartCall, StartPrint, StartRead,
            StartReturn, Begin

LEMMA PureStep ==
  ASSUME TableInv, ValueInv, PureInv, [Next]_vars
  PROVE  PureInv'
<1>1. /\ Good(m) /\ m \in Machines /\ cur \in Quadrs /\ TypeOK /\ Listed(m) /\ Shape
      /\ cur.args \in SUBSET Vars /\ cur.after \in SUBSET Vars /\ cur.res \in Vars \cup {NoVar}
      /\ AliveDuringLoad \in SUBSET Vars
  BY AliveType DEF TableInv, TypeOK, Good, Quadrs
<1>2. pc # "returned" => Pure(m)
  BY DEF PureInv
<1>3. CASE StartQuadr
  BY <1>3, PureStart
<1>4. ASSUME NEW v \in Vars, Prefetch(v) \/ LoadArg(v)
      PROVE  PureInv'
  <2>1. Pure(m)
    BY <1>2, <1>4 DEF Prefetch, LoadArg
  <2>2. Pure(m')
    BY <1>1, <1>4, <2>1, MoveToRegPure DEF Prefetch, LoadArg
  <2> QED BY <2>2 DEF PureInv
<1>5. CASE ChooseResult
  <2>1. PICK re \in ResultRegs : m' = re[2]
    BY <1>5 DEF ChooseResult
  <2>2. Pure(m)
    BY <1>2, <1>5 DEF ChooseResult
  <2> QED BY <1>1, <2>1, <2>2, ResultRegsPure DEF PureInv
<1>6. CASE UpdateLocations
  <2> DEFINE D == {cur.res} \cup Dying
             d == Discard(m, D)
             alive == cur.after \ {cur.res}
  <2>1. PICK e \in FreeReg(d, cur.dst, alive) : m' = SetTo(e, cur.res, cur.dst)
    BY <1>6 DEF UpdateLocations
  <2>2. /\ cur.res \in Vars /\ cur.dst \in Regs /\ cur.dst \in Places
        /\ D \in SUBSET Vars /\ alive \in SUBSET Vars
        /\ cur.res \in D /\ cur.res \notin alive /\ Pure(m)
    BY <1>1, <1>2, <1>6, PlacesInLocs DEF UpdateLocations, Shape, Quadrs, Dying
  <2> HIDE DEF D, alive
  <2>3. /\ Good(d) /\ Pure(d)
        /\ d.loc = [v \in Vars |-> IF v \in D THEN {} ELSE m.loc[v]]
    BY <1>1, <2>2, DiscardLoc, DiscardPure
  <2>4. d.loc[cur.res] = {}
    BY <2>2, <2>3
  <2> HIDE DEF d
  <2>5. Good(e) /\ \A v \in Vars \ alive : e.loc[v] \subseteq d.loc[v]
    BY <2>1, <2>2, <2>3, FreeRegFacts
  <2>6. Pure(e)
    BY <2>1, <2>2, <2>3, FreeRegPure
  <2> QED BY <2>1, <2>2, <2>4, <2>5, <2>6, SetToPure DEF PureInv
<1>7. CASE Emit
  <2>1. cur.res \in Vars /\ cur.dst \in Places /\ Pure(m)
    BY <1>1, <1>2, <1>7, PlacesInLocs DEF Emit, Shape, Quadrs
  <2>2. m'.loc = m.loc
    BY <1>1, <1>7, <2>1, StoreLoc, SettleLoc DEF Emit
  <2> QED BY <2>1, <2>2 DEF PureInv, Pure
<1>8. CASE DoCall
  <2>1. PICK e \in FreeAll(m, cur.after) :
          LET d == [e EXCEPT !.holds = [l \in Locs |-> IF l \in Regs THEN {} ELSE e.holds[l]]]
          IN m' = Settle(IF cur.res = NoVar THEN d
                         ELSE SetTo(Store(d, cur.res, RetReg), cur.res, RetReg))
    BY <1>8 DEF DoCall
  <2> DEFINE d == [e EXCEPT !.holds = [l \in Locs |-> IF l \in Regs THEN {} ELSE e.holds[l]]]
             k == Store(d, cur.res, RetReg)
  <2>2. Pure(m) /\ (cur.res # NoVar => Fresh(m, cur.res))
    BY <1>2, <1>1, <1>8 DEF DoCall, ValueInv, FreshResult, Shape
  <2>3. Good(e) /\ \A v \in Vars : Fresh(m, v) => Fresh(e, v)
    BY <1>1, FreeAllFacts
  <2>4. Pure(e)
    BY <1>1, <2>2, FreeAllPure
  <2>5. Good(d) /\ d.loc = e.loc
    BY <2>3 DEF Good, Machines, Listed
  <2>6. m' = Settle(IF cur.res = NoVar THEN d ELSE SetTo(k, cur.res, RetReg))
    BY <2>1
  <2> HIDE DEF d
  <2>7. Pure(d)
    BY <2>4, <2>5 DEF Pure
  <2>8. cur.res # NoVar => Pure(SetTo(k, cur.res, RetReg))
    <3> SUFFICES ASSUME cur.res # NoVar PROVE Pure(SetTo(k, cur.res, RetReg))
      OBVIOUS
    <3>1. cur.res \in Vars /\ RetReg \in Places
      BY <1>1, GenLocAssumption, PlacesInLocs
    <3>2. Good(k) /\ k.loc = d.loc
      BY <2>5, <3>1, StoreLoc
    <3> HIDE DEF k
    <3>3. Pure(k) /\ k.loc[cur.res] = {}
      BY <2>2, <2>3, <2>5, <2>7, <3>1, <3>2 DEF Pure, Fresh
    <3> QED BY <3>1, <3>2, <3>3, SetToPure
  <2> QED BY <2>6, <2>7, <2>8, SettlePure DEF PureInv
<1>9. CASE PrintValue
  <2>1. Dying \in SUBSET Vars /\ Pure(m)
    BY <1>1, <1>2, <1>9 DEF Dying, PrintValue
  <2> QED BY <1>1, <1>9, <2>1, DiscardPure, SettlePure DEF PrintValue, PureInv
<1>10. CASE ReadValue
  <2>1. PICK re \in ResultRegs :
          m' = Settle(Store(SetTo(Discard(re[2], {cur.res}), cur.res, re[1]), cur.res, re[1]))
    BY <1>10 DEF ReadValue
  <2> DEFINE k == re[2]
             r == re[1]
             D == {cur.res}
             d == Discard(k, D)
             g == SetTo(d, cur.res, r)
             h == Store(g, cur.res, r)
  <2>2. cur.res \in Vars /\ Good(k) /\ r \in Places /\ D \in SUBSET Vars /\ Pure(m)
    BY <1>1, <1>2, <1>10, <2>1, ResultRegsFacts, PlacesInLocs DEF ReadValue, Shape
  <2>3. Pure(k)
    BY <1>1, <2>2, ResultRegsPure
  <2>4. m' = Settle(h)
    BY <2>1
  <2> HIDE DEF k, r
  <2>5. Good(d) /\ d.loc = [v \in Vars |-> IF v \in D THEN {} ELSE k.loc[v]]
    BY <2>2, DiscardLoc
  <2>6. d.loc[cur.res] = {}
    BY <2>2, <2>5
  <2> HIDE DEF D
  <2>7. Pure(d)
    BY <2>2, <2>3, DiscardPure
  <2> HIDE DEF d
  <2>8. Good(g) /\ Pure(g)
    BY <2>2, <2>5, <2>6, <2>7, SetToLoc, SetToPure
  <2> HIDE DEF g
  <2>9. h.loc = g.loc
    BY <2>2, <2>8, StoreLoc
  <2>10. Pure(h)
    BY <2>8, <2>9 DEF Pure
  <2> QED BY <2>4, <2>10, SettlePure DEF PureInv
<1>11. CASE ReturnValue
  BY <1>11 DEF ReturnValue, PureInv
<1>12. ASSUME NEW v \in Vars, SaveVarAtBlockEnd(v)
       PROVE  PureInv'
  <2>1. PICK e \in EnsureUnique(m, v, cur.after \cup cur.args) : m' \in Placed(e, v)
    BY <1>12 DEF SaveVarAtBlockEnd
  <2>2. m.loc[v] # {} /\ cur.after \cup cur.args \in SUBSET Vars /\ Pure(m)
    BY <1>1, <1>2, <1>12 DEF SaveVarAtBlockEnd
  <2>3. Good(e)
    BY <1>1, <2>1, <2>2, EnsureUniqueFacts
  <2>4. Pure(e)
    BY <1>1, <2>1, <2>2, EnsureUniquePure
  <2> QED BY <2>1, <2>3, <2>4, PlacedPure DEF PureInv
<1>13. CASE Branch
  <2>1. cur.after \cup cur.args \in SUBSET Vars /\ Pure(m)
    BY <1>1, <1>2, <1>13 DEF Branch
  <2> QED BY <1>1, <1>13, <2>1, DiscardPure DEF Branch, PureInv
<1>14. ASSUME NEW L \in SUBSET Vars, NextBlock(L)
       PROVE  PureInv'
  <2> DEFINE d == [m EXCEPT !.loc = [v \in Vars |-> IF v \in L THEN entry[v] ELSE m.loc[v]],
                            !.list = [p \in Places |-> m.list[p] \cup {v \in L : p \in entry[v]}]]
  <2>1. m' = Settle(d) /\ Pure(m)
    BY <1>2, <1>14 DEF NextBlock
  <2>2. d.loc = [v \in Vars |-> IF v \in L THEN entry[v] ELSE m.loc[v]]
    BY <1>1 DEF Machines
  <2>3. \A v \in Vars : entry[v] \subseteq Places
    BY <1>1 DEF TypeOK
  <2> HIDE DEF d
  <2>4. Pure(d)
    BY <2>1, <2>2, <2>3, PlacesInLocs DEF Pure
  <2> QED BY <2>1, <2>4, SettlePure DEF PureInv
<1>15. ASSUME m' = m, pc # "returned"
       PROVE  PureInv'
  BY <1>2, <1>15 DEF PureInv
<1>16. ASSUME NEW v \in Vars, LoadLostArg(v) \/ SaveLostVar(v)
       PROVE  PureInv'
  BY <1>15, <1>16 DEF LoadLostArg, SaveLostVar
<1>17. CASE AllocAbort \/ BranchLostArg
  BY <1>15, <1>17 DEF AllocAbort, BranchLostArg
<1>18. CASE UNCHANGED vars
  BY <1>18 DEF vars, PureInv
<1>19. CASE Halted
  BY <1>18, <1>19 DEF Halted
<1> QED BY <1>3, <1>4, <1>5, <1>6, <1>7, <1>8, <1>9, <1>10, <1>11, <1>12, <1>13, <1>14,
           <1>16, <1>17, <1>18, <1>19 DEF Next

(* A variable known to be a constant has no other location, so that        *)
(* discard_const never reads its pointer before it is set, provided that   *)
(* no call writes its result into a variable that already has locations.   *)
THEOREM ConstantsAlone ==
  ASSUME ~CallInPlace
  PROVE  Spec => []ConstAlone
<1>1. TableInv /\ ValueInv /\ PureInv /\ [Next]_vars => PureInv'
  BY PureStep
<1>2. PureInv => ConstAlone
  BY DEF PureInv, Pure, ConstAlone
<1> QED BY <1>1, <1>2, TableInvariant, ValueInvariant, PureInit, PTL DEF Spec
-----------------------------------------------------------------------------
(***************************************************************************)
(* RETURN leaves the value in the register the caller reads.               *)
(*                                                                         *)
(* save_var_to_loc does nothing for a variable that is in the list of the  *)
(* return register.  gencode_invariant says that a location is in a list,  *)
(* not the converse, and ensure_unique_for_var indeed leaves entries in    *)
(* lists behind.  The lists of registers are exact all the same, because   *)
(* ensure_unique takes a register of the variable if it has one, and it    *)
(* has at most one; and it takes the register because variables that share *)
(* a register share all their stack elements too.                          *)
(***************************************************************************)
(* The list of a register names only variables that are there. *)
Exact(d) == \A r \in Regs : \A v \in d.list[r] : r \in d.loc[v]
OneReg(d) == \A v \in Vars : \A r, q \in d.loc[v] \cap Regs : r = q
Alike(d) == \A u, v \in Vars : \A r \in Regs :
              r \in d.loc[u] \cap d.loc[v] => d.loc[u] \cap Slots = d.loc[v] \cap Slots
Tidy(d) == Exact(d) /\ OneReg(d) /\ Alike(d)

(* e is d with each v of S copied into the place f[v], one in each. *)
CopiedTo(d, e, S, f) ==
  /\ \A u, v \in S : f[u] = f[v] => u = v
  /\ \A v \in S : e.loc[v] = d.loc[v] \cup {f[v]}
  /\ \A v \in Vars \ S : e.loc[v] = d.loc[v]
  /\ \A p \in Places : e.list[p] = d.list[p] \cup {v \in S : f[v] = p}

LEMMA SavedShape ==
  ASSUME NEW d, Good(d), NEW S \in SUBSET Vars, NEW P \in SUBSET Places,
         NEW e \in Saved(d, S, P)
  PROVE  \E f \in [S -> P] : CopiedTo(d, e, S, f)
<1>1. PICK f \in [S -> P], src \in [S -> Locs] :
           /\ e = Copies(d, f, src)
           /\ \A u, v \in S : f[u] = f[v] => u = v
           /\ \A v \in S : src[v] \in d.loc[v]
  BY SavedFacts
<1>2. /\ e.loc = [v \in Vars |-> d.loc[v] \cup {p \in Places : v \in S /\ f[v] = p}]
      /\ e.list = [p \in Places |-> d.list[p] \cup {v \in S : f[v] = p}]
  BY <1>1 DEF Copies
<1>3. \A v \in S : e.loc[v] = d.loc[v] \cup {f[v]}
  BY <1>2
<1>4. \A v \in Vars \ S : e.loc[v] = d.loc[v]
  BY <1>2 DEF Good, Machines
<1>5. \A p \in Places : e.list[p] = d.list[p] \cup {v \in S : f[v] = p}
  BY <1>2
<1>6. CopiedTo(d, e, S, f)
  BY <1>1, <1>3, <1>4, <1>5 DEF CopiedTo
<1> QED BY <1>6

(* Variables that are in no register are saved into free places. *)
LEMMA SavedTidy ==
  ASSUME NEW d, Good(d), Tidy(d), NEW S \in SUBSET Vars, NEW P \in SUBSET Places,
         \A p \in P : d.list[p] = {},
         \A v \in S : d.loc[v] \cap Regs = {},
         NEW e \in Saved(d, S, P)
  PROVE  Tidy(e)
<1>0. PICK f \in [S -> P] : CopiedTo(d, e, S, f)
  BY SavedShape
<1>1. /\ \A u, v \in S : f[u] = f[v] => u = v
      /\ \A v \in S : e.loc[v] = d.loc[v] \cup {f[v]}
      /\ \A v \in Vars \ S : e.loc[v] = d.loc[v]
      /\ \A p \in Places : e.list[p] = d.list[p] \cup {v \in S : f[v] = p}
  BY <1>0 DEF CopiedTo
<1>2. Exact(e)
  <2> SUFFICES ASSUME NEW r \in Regs, NEW v \in e.list[r] PROVE r \in e.loc[v]
    BY DEF Exact
  <2>1. r \in Places
    BY PlacesInLocs
  <2>2. CASE v \in S /\ f[v] = r
    BY <1>1, <2>2
  <2>3. CASE v \in d.list[r]
    <3>1. r \in d.loc[v] /\ v \in Vars
      BY <2>1, <2>3 DEF Tidy, Exact, Good, Machines
    <3> QED BY <1>1, <3>1
  <2> QED BY <1>1, <2>1, <2>2, <2>3
<1>3. OneReg(e)
  BY <1>1 DEF Tidy, OneReg
<1>4. Alike(e)
  <2> SUFFICES ASSUME NEW u \in Vars, NEW v \in Vars, NEW r \in Regs,
                      r \in e.loc[u] \cap e.loc[v], u # v
               PROVE  e.loc[u] \cap Slots = e.loc[v] \cap Slots
    BY DEF Alike
  <2>1. r \in P => \A w \in Vars : r \notin d.loc[w]
    BY PlacesInLocs DEF Good, Listed
  <2>2. r \in P => u \in S /\ v \in S /\ f[u] = r /\ f[v] = r
    BY <1>1, <2>1
  <2>3. r \notin P
    BY <1>1, <2>2
  <2>4. r \in d.loc[u] /\ r \in d.loc[v]
    BY <1>1, <2>3
  <2>5. u \notin S /\ v \notin S
    BY <2>4
  <2> QED BY <1>1, <2>4, <2>5 DEF Tidy, Alike
<1> QED BY <1>2, <1>3, <1>4 DEF Tidy

(* Variables that are only in the register r are saved, and r is emptied. *)
LEMMA SavedErasedTidy ==
  ASSUME NEW d, Good(d), Tidy(d), NEW r \in Regs,
         NEW S \in SUBSET Vars, NEW P \in SUBSET Places,
         \A p \in P : d.list[p] = {},
         \A v \in S : d.loc[v] \subseteq {r},
         NEW e \in Saved(d, S, P)
  PROVE  Tidy(Erase(e, r))
<1> DEFINE k == Erase(e, r)
<1>0. PICK f \in [S -> P] : CopiedTo(d, e, S, f)
  BY SavedShape
<1>1. /\ \A u, v \in S : f[u] = f[v] => u = v
      /\ \A v \in S : e.loc[v] = d.loc[v] \cup {f[v]}
      /\ \A v \in Vars \ S : e.loc[v] = d.loc[v]
      /\ \A p \in Places : e.list[p] = d.list[p] \cup {v \in S : f[v] = p}
  BY <1>0 DEF CopiedTo
<1>2. Good(e) /\ r \in Places
  BY SavedGood, PlacesInLocs
<1>3. /\ k.list = [e.list EXCEPT ![r] = {}]
      /\ k.loc = [v \in Vars |-> e.loc[v] \ (IF v \in e.list[r] THEN {r} ELSE {})]
  BY <1>2, EraseGood
<1> HIDE DEF k
<1>4. \A v \in Vars : k.loc[v] = e.loc[v] \ {r}
  BY <1>2, <1>3 DEF Good, Listed
<1>5. k.list[r] = {} /\ \A p \in Places \ {r} : k.list[p] = e.list[p]
  BY <1>2, <1>3 DEF Good, Machines
<1>6. \A v \in S : k.loc[v] \subseteq {f[v]}
  BY <1>1, <1>4
<1>7. \A v \in Vars \ S : k.loc[v] = d.loc[v] \ {r}
  BY <1>1, <1>4
<1>8. Exact(k)
  <2> SUFFICES ASSUME NEW q \in Regs, NEW v \in k.list[q] PROVE q \in k.loc[v]
    BY DEF Exact
  <2>1. q \in Places /\ q # r /\ v \in e.list[q]
    BY <1>5, PlacesInLocs
  <2>2. CASE v \in S /\ f[v] = q
    BY <1>1, <1>4, <2>1, <2>2
  <2>3. CASE v \in d.list[q]
    <3>1. q \in d.loc[v] /\ v \in Vars
      BY <2>1, <2>3 DEF Tidy, Exact, Good, Machines
    <3> QED BY <1>7, <2>1, <3>1
  <2> QED BY <1>1, <2>1, <2>2, <2>3
<1>9. OneReg(k)
  <2> SUFFICES ASSUME NEW v \in Vars, NEW q \in k.loc[v] \cap Regs, NEW t \in k.loc[v] \cap Regs
               PROVE  q = t
    BY DEF OneReg
  <2> QED BY <1>6, <1>7 DEF Tidy, OneReg
<1>10. Alike(k)
  <2> SUFFICES ASSUME NEW u \in Vars, NEW v \in Vars, NEW q \in Regs,
                      q \in k.loc[u] \cap k.loc[v], u # v
               PROVE  k.loc[u] \cap Slots = k.loc[v] \cap Slots
    BY DEF Alike
  <2>1. q \in P => \A w \in Vars : q \notin d.loc[w]
    BY PlacesInLocs DEF Good, Listed
  <2>2. q \in P => u \in S /\ v \in S /\ f[u] = q /\ f[v] = q
    BY <1>6, <1>7, <2>1
  <2>3. q \notin P
    BY <1>1, <2>2
  <2>4. u \notin S /\ v \notin S
    BY <1>6, <2>3
  <2> QED BY <1>7, <2>4 DEF Tidy, Alike
<1> QED BY <1>8, <1>9, <1>10 DEF Tidy, k

LEMMA FreeRegTidy ==
  ASSUME NEW d, Good(d), Tidy(d), NEW r \in Regs, NEW alive \in SUBSET Vars,
         NEW e \in FreeReg(d, r, alive)
  PROVE  Tidy(e) /\ \A v \in Vars : d.loc[v] \subseteq Slots => e.loc[v] \cap Regs = {}
<1> DEFINE S == {v \in d.list[r] : ShouldSave(d, v, r, alive)}
           P == FreeRegs(d) \cup FreeSlots(d)
<1>1. PICK k \in Saved(d, S, P) : e = Erase(k, r)
  BY DEF FreeReg
<1>2. /\ S \in SUBSET Vars /\ P \in SUBSET Places /\ r \in Places
      /\ \A p \in P : d.list[p] = {}
      /\ \A v \in S : d.loc[v] \subseteq {r} /\ v \in d.list[r]
  BY PlacesInLocs DEF Good, Machines, ShouldSave, FreeRegs, FreeSlots
<1> HIDE DEF S, P
<1>3. Tidy(e)
  BY <1>1, <1>2, SavedErasedTidy
<1>4. ASSUME NEW v \in Vars, d.loc[v] \subseteq Slots
      PROVE  e.loc[v] \cap Regs = {}
  <2>1. v \notin S
    BY <1>2, <1>4, GenLocAssumption DEF Tidy, Exact
  <2>2. k.loc[v] = d.loc[v]
    <3>1. \A u \in Vars \ S : k.loc[u] = d.loc[u]
      BY <1>2, SavedFrame
    <3> QED BY <2>1, <3>1
  <2>3. Good(k)
    BY <1>2, SavedGood
  <2>4. Erase(k, r).loc = [u \in Vars |-> k.loc[u] \ (IF u \in k.list[r] THEN {r} ELSE {})]
    BY <1>2, <2>3, EraseGood, ZenonT(60)
  <2>5. e.loc[v] \subseteq d.loc[v]
    BY <1>1, <2>2, <2>4
  <2> QED BY <1>4, <2>5, GenLocAssumption
<1> QED BY <1>3, <1>4

LEMMA AllocRegTidy ==
  ASSUME NEW d, Good(d), Tidy(d), NEW alive \in SUBSET Vars, NEW used,
         NEW re \in AllocReg(d, alive, used)
  PROVE  Tidy(re[2]) /\ \A v \in Vars : d.loc[v] \subseteq Slots => re[2].loc[v] \cap Regs = {}
<1>1. PICK r \in Victims(d) : re \in {<<r, e>> : e \in FreeReg(d, r, alive)}
  BY DEF AllocReg
<1>2. PICK e \in FreeReg(d, r, alive) : re = <<r, e>>
  BY <1>1
<1>3. r \in Regs /\ re[2] = e
  BY <1>2 DEF Victims, FreeRegs
<1> QED BY <1>3, FreeRegTidy

LEMMA MoveToRegTidy ==
  ASSUME NEW d, Good(d), Tidy(d), NEW v \in Vars, d.loc[v] \subseteq Slots,
         NEW alive \in SUBSET Vars, NEW used, NEW e \in MoveToReg(d, v, alive, used)
  PROVE  Tidy(e)
<1>1. PICK re \in AllocReg(d, alive, used) : e \in Saved(re[2], {v}, {re[1]})
  BY DEF MoveToReg
<1>2. Good(re[2]) /\ re[1] \in Regs /\ re[2].list[re[1]] = {}
  BY AllocRegFacts
<1>3. Tidy(re[2]) /\ re[2].loc[v] \cap Regs = {}
  BY AllocRegTidy
<1> DEFINE k == re[2]
           P == {re[1]}
           S == {v}
<1>4. /\ e \in Saved(k, S, P) /\ Good(k) /\ Tidy(k) /\ S \in SUBSET Vars /\ P \in SUBSET Places
      /\ \A u \in S : k.loc[u] \cap Regs = {}
      /\ \A p \in P : k.list[p] = {}
  BY <1>1, <1>2, <1>3, PlacesInLocs
<1> HIDE DEF k, P, S
<1> QED BY <1>4, SavedTidy

LEMMA ResultRegsTidy ==
  ASSUME TypeOK, Listed(m), Tidy(m), NEW re \in ResultRegs
  PROVE  Tidy(re[2])
<1>1. Good(m) /\ AliveDuringLoad \in SUBSET Vars
  BY AliveType DEF TypeOK, Good
<1>2. CASE re \in {<<r, m>> : r \in Regs \cap UNION {m.loc[u] : u \in ResultOwners}}
  BY <1>2
<1>3. CASE re \in AllocReg(m, AliveDuringLoad, Used)
  BY <1>1, <1>3, AllocRegTidy
<1> QED BY <1>2, <1>3 DEF ResultRegs

(* After free_all the registers are empty. *)
LEMMA EmptyRegsTidy ==
  ASSUME NEW d, \A v \in Vars : d.loc[v] \cap Regs = {}, \A r \in Regs : d.list[r] = {}
  PROVE  Tidy(d)
BY DEF Tidy, Exact, OneReg, Alike

LEMMA DiscardTidy ==
  ASSUME NEW d, Good(d), Tidy(d), NEW D \in SUBSET Vars
  PROVE  Tidy(Discard(d, D))
<1> DEFINE e == Discard(d, D)
<1>1. /\ e.loc = [v \in Vars |-> IF v \in D THEN {} ELSE d.loc[v]]
      /\ e.list = [p \in Places |-> {v \in d.list[p] : v \in D => p \notin d.loc[v]}]
  BY DEF Good, Machines, Discard
<1> HIDE DEF e
<1>2. Exact(e)
  <2> SUFFICES ASSUME NEW r \in Regs, NEW v \in e.list[r] PROVE r \in e.loc[v]
    BY DEF Exact
  <2>1. v \in d.list[r] /\ v \in Vars /\ (v \in D => r \notin d.loc[v])
    BY <1>1, PlacesInLocs DEF Good, Machines
  <2> QED BY <1>1, <2>1 DEF Tidy, Exact
<1>3. OneReg(e) /\ Alike(e)
  BY <1>1 DEF Tidy, OneReg, Alike
<1> QED BY <1>2, <1>3 DEF Tidy, e

LEMMA SetToTidy ==
  ASSUME NEW d, Good(d), Tidy(d), NEW v \in Vars, NEW p \in Places,
         d.loc[v] = {}, d.list[p] = {}
  PROVE  Tidy(SetTo(d, v, p))
<1> DEFINE e == SetTo(d, v, p)
<1>1. e.loc[v] = {p} /\ \A u \in Vars \ {v} : e.loc[u] = d.loc[u]
  BY SetToLoc
<1>2. e.list[p] = {v} /\ \A q \in Places \ {p} : e.list[q] = d.list[q]
  BY DEF Good, Machines, SetTo
<1> HIDE DEF e
<1>3. \A u \in Vars : p \notin d.loc[u]
  BY DEF Good, Listed
<1>4. Exact(e)
  <2> SUFFICES ASSUME NEW r \in Regs, NEW u \in e.list[r] PROVE r \in e.loc[u]
    BY DEF Exact
  <2>1. CASE r = p
    BY <1>1, <1>2, <2>1
  <2>2. CASE r # p
    <3>1. u \in d.list[r] /\ u \in Vars
      BY <1>2, <2>2, PlacesInLocs DEF Good, Machines
    <3>2. r \in d.loc[u]
      BY <3>1 DEF Tidy, Exact
    <3> QED BY <1>1, <3>1, <3>2
  <2> QED BY <2>1, <2>2
<1>5. OneReg(e)
  BY <1>1 DEF Tidy, OneReg
<1>6. Alike(e)
  BY <1>1, <1>3 DEF Tidy, Alike
<1> QED BY <1>4, <1>5, <1>6 DEF Tidy, e

LEMMA AliasedTidy ==
  ASSUME NEW d, Good(d), Tidy(d), NEW x \in Vars, NEW w \in Vars, x # w, d.loc[x] = {}
  PROVE  Tidy(Aliased(d, x, w))
<1> DEFINE e == Aliased(d, x, w)
<1>1. e.loc[x] = d.loc[w] /\ \A v \in Vars \ {x} : e.loc[v] = d.loc[v]
  BY DEF Aliased, Good, Machines
<1>2. \A p \in Places : e.list[p] = d.list[p] \cup (IF p \in d.loc[w] THEN {x} ELSE {})
  BY DEF Aliased
<1> HIDE DEF e
<1>3. Exact(e)
  <2> SUFFICES ASSUME NEW r \in Regs, NEW v \in e.list[r] PROVE r \in e.loc[v]
    BY DEF Exact
  <2>1. v \in d.list[r] \/ (v = x /\ r \in d.loc[w])
    BY <1>2, PlacesInLocs
  <2>2. v \in d.list[r] => r \in d.loc[v] /\ v \in Vars
    BY PlacesInLocs DEF Tidy, Exact, Good, Machines
  <2> QED BY <1>1, <2>1, <2>2
<1>4. OneReg(e)
  BY <1>1 DEF Tidy, OneReg
<1>5. Alike(e)
  BY <1>1 DEF Tidy, Alike
<1> QED BY <1>3, <1>4, <1>5 DEF Tidy, e

LEMMA SameTidy ==
  ASSUME NEW d, NEW e, Tidy(d), e.loc = d.loc, e.list = d.list
  PROVE  Tidy(e)
BY DEF Tidy, Exact, OneReg, Alike

LEMMA SettleTidy ==
  ASSUME NEW d, Tidy(d)
  PROVE  Tidy(Settle(d))
<1>1. Settle(d).loc = d.loc /\ Settle(d).list = d.list
  BY DEF Settle
<1> QED BY <1>1, SameTidy
-----------------------------------------------------------------------------
(* The end of a block. *)
LEMMA KeepOwnTidy ==
  ASSUME NEW d, Good(d), Tidy(d), NEW v \in Vars
  PROVE  Tidy(KeepOwn(d, v))
<1> DEFINE e == KeepOwn(d, v)
           O == OwnLocs(d, v)
<1>1. O \subseteq d.loc[v] /\ \A p \in O \cap Places : Cardinality(d.list[p]) = 1
  BY PlacesInLocs DEF OwnLocs, Refs
<1>2. /\ e.loc = [d.loc EXCEPT ![v] = O]
      /\ e.list = [p \in Places |-> IF p \in d.loc[v] \ O THEN d.list[p] \ {v} ELSE d.list[p]]
  BY DEF KeepOwn, Good, Machines
<1>3. \A p \in O \cap Places : d.list[p] = {v}
  <2> SUFFICES ASSUME NEW p \in O \cap Places PROVE d.list[p] = {v}
    OBVIOUS
  <2>1. v \in d.list[p] /\ Cardinality(d.list[p]) = 1
    BY <1>1 DEF Good, Listed
  <2>2. IsFiniteSet(d.list[p])
    BY FS_Subset, GenLocAssumption DEF Good, Machines
  <2> QED BY <2>1, <2>2, FS_Singleton
<1> HIDE DEF O, e
<1>4. e.loc[v] = O /\ \A u \in Vars \ {v} : e.loc[u] = d.loc[u]
  BY <1>2 DEF Good, Machines
<1>5. Exact(e)
  <2> SUFFICES ASSUME NEW r \in Regs, NEW u \in e.list[r] PROVE r \in e.loc[u]
    BY DEF Exact
  <2>1. u \in d.list[r] /\ u \in Vars /\ (r \in d.loc[v] \ O => u # v)
    BY <1>2, PlacesInLocs DEF Good, Machines
  <2>2. r \in d.loc[u]
    BY <2>1 DEF Tidy, Exact
  <2> QED BY <1>4, <2>1, <2>2
<1>6. OneReg(e)
  BY <1>1, <1>4 DEF Tidy, OneReg
<1>7. Alike(e)
  <2> SUFFICES ASSUME NEW u \in Vars, NEW w \in Vars, NEW r \in Regs,
                      r \in e.loc[u] \cap e.loc[w], u # w
               PROVE  e.loc[u] \cap Slots = e.loc[w] \cap Slots
    BY DEF Alike
  <2>1. r \in d.loc[u] /\ r \in d.loc[w] /\ u \in d.list[r] /\ w \in d.list[r]
    BY <1>1, <1>4, PlacesInLocs DEF Good, Listed
  <2>2. r \notin O
    BY <1>3, <2>1, PlacesInLocs
  <2>3. u # v /\ w # v
    BY <1>4, <2>2
  <2> QED BY <1>4, <2>1, <2>3 DEF Tidy, Alike
<1> QED BY <1>5, <1>6, <1>7 DEF Tidy, e

(* The place ensure_unique chooses: no register of the variable is left    *)
(* out, for its one register is in the lists of fewer variables than any   *)
(* of its stack elements.                                                  *)
LEMMA RegisterTaken ==
  ASSUME NEW d, Good(d), Tidy(d), NEW v \in Vars, OwnLocs(d, v) = {},
         NEW l \in LeastShared(d, v)
  PROVE  l \in d.loc[v] /\ l \in Places /\ d.loc[v] \cap Regs \subseteq {l}
<1>1. l \in d.loc[v]
  BY DEF LeastShared
<1>2. d.loc[v] \subseteq Places
  BY DEF OwnLocs, Refs, Good, Machines, Locs
<1>3. CASE l \in Regs
  BY <1>1, <1>2, <1>3 DEF Tidy, OneReg
<1>4. CASE l \notin Regs
  <2> SUFFICES ASSUME NEW r \in d.loc[v] \cap Regs PROVE FALSE
    BY <1>1, <1>2
  <2>1. \A p \in Places : IsFiniteSet(d.list[p]) /\ Cardinality(d.list[p]) \in Nat
    <3> SUFFICES ASSUME NEW p \in Places
                 PROVE  IsFiniteSet(d.list[p]) /\ Cardinality(d.list[p]) \in Nat
      OBVIOUS
    <3>1. d.list[p] \subseteq Vars
      BY DEF Good, Machines
    <3> QED BY <3>1, FS_Subset, FS_CardinalityType, GenLocAssumption
  <2>2. \A k \in d.loc[v] : Refs(d, k) = Cardinality(d.list[k])
    BY <1>2, PlacesInLocs DEF Refs
  <2>3. \A k \in d.loc[v] : Refs(d, r) <= Refs(d, k)
    <3> SUFFICES ASSUME NEW k \in d.loc[v] PROVE Refs(d, r) <= Refs(d, k)
      OBVIOUS
    <3>1. CASE k \in Regs
      <4>1. k = r
        BY <3>1 DEF Tidy, OneReg
      <4> QED BY <1>2, <2>1, <2>2, <4>1
    <3>2. CASE k \in Slots
      <4>1. d.list[r] \subseteq d.list[k]
        <5> SUFFICES ASSUME NEW u \in d.list[r] PROVE u \in d.list[k]
          OBVIOUS
        <5>1. u \in Vars /\ r \in d.loc[u]
          BY PlacesInLocs DEF Tidy, Exact, Good, Machines
        <5>2. d.loc[u] \cap Slots = d.loc[v] \cap Slots
          BY <5>1 DEF Tidy, Alike
        <5>3. k \in d.loc[u] \cap Places
          BY <3>2, <5>2, PlacesInLocs
        <5> QED BY <5>1, <5>3 DEF Good, Listed
      <4>2. Cardinality(d.list[r]) <= Cardinality(d.list[k])
        BY <1>2, <2>1, <4>1, FS_Subset
      <4> QED BY <2>2, <4>2
    <3> QED BY <1>2, <3>1, <3>2 DEF Places
  <2> QED BY <1>4, <2>3 DEF LeastShared
<1> QED BY <1>1, <1>2, <1>3, <1>4

LEMMA TakeOverTidy ==
  ASSUME NEW d, Good(d), Tidy(d), NEW v \in Vars, NEW l \in d.loc[v], l \in Places,
         d.loc[v] \cap Regs \subseteq {l},
         NEW alive \in SUBSET Vars, NEW g \in TakeOver(d, v, l, alive)
  PROVE  Tidy(g)
<1> DEFINE e == [d EXCEPT !.loc[v] = {l}]
           others == {u \in d.list[l] \ {v} : ShouldSave(d, u, l, alive)}
<1>0. PICK S \in SUBSET others, P \in SUBSET (FreeRegs(d) \cup FreeSlots(d)) :
        \E f \in Saved(e, S, P) : g = [Erase(f, l) EXCEPT !.loc[v] = {l}, !.list[l] = {v}]
  <2>1. CASE l \in Regs
    <3>1. PICK f \in Saved(e, others, FreeRegs(d) \cup FreeSlots(d)) :
            g = [Erase(f, l) EXCEPT !.loc[v] = {l}, !.list[l] = {v}]
      BY <2>1 DEF TakeOver
    <3> HIDE DEF e, others
    <3> QED BY <3>1
  <2>2. CASE l \notin Regs
    <3>1. PICK f \in UNION {Saved(e, S, FreeRegs(d)) : S \in SUBSET others} :
            g = [Erase(f, l) EXCEPT !.loc[v] = {l}, !.list[l] = {v}]
      BY <2>2 DEF TakeOver
    <3>2. PICK S \in SUBSET others : f \in Saved(e, S, FreeRegs(d))
      OBVIOUS
    <3>3. FreeRegs(d) \in SUBSET (FreeRegs(d) \cup FreeSlots(d))
      OBVIOUS
    <3> HIDE DEF e, others
    <3> QED BY <3>1, <3>2, <3>3
  <2> QED BY <2>1, <2>2
<1>1. PICK f \in Saved(e, S, P) : g = [Erase(f, l) EXCEPT !.loc[v] = {l}, !.list[l] = {v}]
  BY <1>0
<1>2. /\ e.loc = [d.loc EXCEPT ![v] = {l}] /\ e.list = d.list
      /\ e \in Machines
  BY PlacesInLocs DEF Good, Machines
<1>3. Good(e) /\ \A u \in Vars \ {v} : e.loc[u] = d.loc[u]
  BY <1>2 DEF Good, Machines, Listed
<1>4. /\ P \in SUBSET Places /\ \A p \in P : e.list[p] = {} /\ d.list[p] = {}
      /\ S \in SUBSET Vars
      /\ \A u \in S : u # v /\ d.loc[u] \subseteq {l}
  BY <1>2, PlacesInLocs DEF FreeRegs, FreeSlots, ShouldSave, Good, Machines
<1> HIDE DEF e, others
<1>5. PICK c \in [S -> P] : CopiedTo(e, f, S, c)
  BY <1>3, <1>4, SavedShape
<1>6. Good(f)
  BY <1>3, <1>4, SavedGood
<1> DEFINE k == Erase(f, l)
<1>7. /\ Good(k)
      /\ k.list = [f.list EXCEPT ![l] = {}]
      /\ k.loc = [u \in Vars |-> f.loc[u] \ (IF u \in f.list[l] THEN {l} ELSE {})]
  BY <1>6, EraseGood
<1>8. g = [k EXCEPT !.loc[v] = {l}, !.list[l] = {v}]
  BY <1>1
<1> HIDE DEF k
<1>9. /\ g.loc = [k.loc EXCEPT ![v] = {l}]
      /\ g.list = [k.list EXCEPT ![l] = {v}]
  BY <1>7, <1>8 DEF Good, Machines
<1>10. \A u \in Vars : k.loc[u] = f.loc[u] \ {l}
  BY <1>6, <1>7 DEF Good, Listed
<1>11. g.loc[v] = {l} /\ \A u \in Vars \ {v} : g.loc[u] = f.loc[u] \ {l}
  BY <1>7, <1>9, <1>10 DEF Good, Machines
<1>12. g.list[l] = {v} /\ \A p \in Places \ {l} : g.list[p] = f.list[p]
  BY <1>6, <1>7, <1>9 DEF Good, Machines
<1>13. /\ \A u \in S : g.loc[u] \subseteq {c[u]} /\ u # v
       /\ \A u \in Vars \ (S \cup {v}) : g.loc[u] = d.loc[u] \ {l}
  BY <1>3, <1>4, <1>5, <1>11 DEF CopiedTo
<1>14. Exact(g)
  <2> SUFFICES ASSUME NEW q \in Regs, NEW u \in g.list[q] PROVE q \in g.loc[u]
    BY DEF Exact
  <2>1. CASE q = l
    BY <1>11, <1>12, <2>1
  <2>2. CASE q # l
    <3>1. u \in f.list[q] /\ q \in Places
      BY <1>12, <2>2, PlacesInLocs
    <3>2. u \in d.list[q] \/ (u \in S /\ c[u] = q)
      BY <1>2, <1>5, <3>1 DEF CopiedTo
    <3>3. CASE u \in S /\ c[u] = q
      BY <1>4, <1>5, <1>11, <2>2, <3>3 DEF CopiedTo
    <3>4. CASE u \in d.list[q]
      <4>1. q \in d.loc[u] /\ u \in Vars
        BY <3>1, <3>4 DEF Tidy, Exact, Good, Machines
      <4>2. u # v
        BY <2>2, <4>1
      <4>3. u \notin S
        BY <1>4, <2>2, <4>1
      <4> QED BY <1>13, <2>2, <4>1, <4>2, <4>3
    <3> QED BY <3>2, <3>3, <3>4
  <2> QED BY <2>1, <2>2
<1>15. OneReg(g)
  <2> SUFFICES ASSUME NEW u \in Vars, NEW q \in g.loc[u] \cap Regs, NEW t \in g.loc[u] \cap Regs
               PROVE  q = t
    BY DEF OneReg
  <2> QED BY <1>11, <1>13 DEF Tidy, OneReg
<1>16. Alike(g)
  <2> SUFFICES ASSUME NEW u \in Vars, NEW w \in Vars, NEW q \in Regs,
                      q \in g.loc[u] \cap g.loc[w], u # w
               PROVE  g.loc[u] \cap Slots = g.loc[w] \cap Slots
    BY DEF Alike
  <2>1. q # l /\ u # v /\ w # v
    BY <1>11
  <2>2. q \in P => \A y \in Vars : q \notin d.loc[y]
    BY <1>4, PlacesInLocs DEF Good, Listed
  <2>3. q \in P => u \in S /\ w \in S /\ c[u] = q /\ c[w] = q
    BY <1>13, <2>1, <2>2
  <2>4. q \notin P
    BY <1>5, <2>3 DEF CopiedTo
  <2>5. u \notin S /\ w \notin S
    BY <1>13, <2>4
  <2> QED BY <1>13, <2>1, <2>5 DEF Tidy, Alike
<1> QED BY <1>14, <1>15, <1>16 DEF Tidy

LEMMA EnsureUniqueTidy ==
  ASSUME NEW d, Good(d), Tidy(d), NEW v \in Vars,
         NEW alive \in SUBSET Vars, NEW g \in EnsureUnique(d, v, alive)
  PROVE  Tidy(g)
<1>1. CASE OwnLocs(d, v) # {}
  BY <1>1, KeepOwnTidy DEF EnsureUnique
<1>2. CASE OwnLocs(d, v) = {}
  <2>1. PICK l \in LeastShared(d, v) : g \in TakeOver(d, v, l, alive)
    BY <1>2 DEF EnsureUnique
  <2>2. l \in d.loc[v] /\ l \in Places /\ d.loc[v] \cap Regs \subseteq {l}
    BY <1>2, RegisterTaken
  <2> QED BY <2>1, <2>2, TakeOverTidy
<1> QED BY <1>1, <1>2

LEMMA PlacedTidy ==
  ASSUME NEW d, Good(d), Tidy(d), NEW v \in Vars, NEW g \in Placed(d, v)
  PROVE  Tidy(g)
<1> DEFINE F == FreeRegs(d) \cup FreeSlots(d)
           T == {v}
<1>1. PICK k \in (IF d.loc[v] \subseteq Consts THEN Saved(d, T, F) ELSE {d}) :
        g = [k EXCEPT !.loc[v] = @ \ Consts]
  BY DEF Placed
<1>2. /\ F \in SUBSET Places /\ T \in SUBSET Vars
      /\ \A p \in F : d.list[p] = {}
      /\ d.loc[v] \subseteq Consts => \A u \in T : d.loc[u] \cap Regs = {}
  BY PlacesInLocs DEF FreeRegs, FreeSlots
<1> HIDE DEF F, T
<1>3. Good(k) /\ Tidy(k)
  <2>1. CASE ~(d.loc[v] \subseteq Consts)
    BY <1>1, <2>1
  <2>2. CASE d.loc[v] \subseteq Consts
    <3>1. k \in Saved(d, T, F)
      BY <1>1, <2>2
    <3>2. Good(k)
      BY <1>2, <3>1, SavedGood
    <3> QED BY <1>2, <2>2, <3>1, <3>2, SavedTidy
  <2> QED BY <2>1, <2>2
<1>4. g.loc = [k.loc EXCEPT ![v] = @ \ Consts] /\ g.list = k.list
  BY <1>1, <1>3 DEF Good, Machines
<1>5. \A u \in Vars : g.loc[u] \cap Places = k.loc[u] \cap Places
  BY <1>3, <1>4, PlacesInLocs DEF Good, Machines
<1>6. Exact(g)
  <2> SUFFICES ASSUME NEW r \in Regs, NEW u \in g.list[r] PROVE r \in g.loc[u]
    BY DEF Exact
  <2>1. r \in k.loc[u] /\ r \in Places /\ u \in Vars
    BY <1>3, <1>4, PlacesInLocs DEF Tidy, Exact, Good, Machines
  <2> QED BY <1>5, <2>1
<1>7. OneReg(g)
  BY <1>3, <1>5, PlacesInLocs DEF Tidy, OneReg
<1>8. Alike(g)
  <2> SUFFICES ASSUME NEW u \in Vars, NEW w \in Vars, NEW r \in Regs,
                      r \in g.loc[u] \cap g.loc[w]
               PROVE  g.loc[u] \cap Slots = g.loc[w] \cap Slots
    BY DEF Alike
  <2>1. r \in k.loc[u] \cap k.loc[w]
    BY <1>5, PlacesInLocs
  <2>2. k.loc[u] \cap Slots = k.loc[w] \cap Slots
    BY <1>3, <2>1 DEF Tidy, Alike
  <2>3. \A y \in Vars : g.loc[y] \cap Slots = k.loc[y] \cap Slots
    BY <1>5, PlacesInLocs
  <2> QED BY <2>2, <2>3
<1> QED BY <1>6, <1>7, <1>8 DEF Tidy
-----------------------------------------------------------------------------
(* The inductive invariant: the tables are tidy until the function         *)
(* returns, and the locations recorded for a child block are free of       *)
(* everything else when the child is entered.                              *)
Cleared ==
  /\ \A v \in cur.after : m.loc[v] = {} /\ \A p \in entry[v] : m.list[p] = {}
  /\ \A u, v \in cur.after : entry[u] \cap entry[v] # {} => u = v
  /\ \A v \in cur.after : \A r, q \in entry[v] \cap Regs : r = q

ReturnInv ==
  /\ pc # "returned" => Tidy(m)
  /\ pc = "leave" => Cleared
  /\ cur.op = "return" => \E v \in Vars : cur.args = {v}
  /\ ReturnedInPlace

LEMMA ReturnInit == Init => ReturnInv
<1> SUFFICES ASSUME Init PROVE ReturnInv
  OBVIOUS
<1>1. PICK P \in SUBSET Vars : \E f \in Injection(P, Slots) :
        m = [loc   |-> [v \in Vars |-> {s \in Slots : v \in P /\ f[v] = s}],
             list  |-> [p \in Places |-> {v \in P : f[v] = p}],
             holds |-> [l \in Locs |-> {v \in P : f[v] = l}]]
  BY DEF Init
<1>2. PICK f \in Injection(P, Slots) :
        m = [loc   |-> [v \in Vars |-> {s \in Slots : v \in P /\ f[v] = s}],
             list  |-> [p \in Places |-> {v \in P : f[v] = p}],
             holds |-> [l \in Locs |-> {v \in P : f[v] = l}]]
  BY <1>1
<1>3. \A v \in P : f[v] \in Slots
  BY DEF Injection, IsInjective
<1>4. \A v \in Vars : m.loc[v] \cap Regs = {}
  BY <1>2, GenLocAssumption
<1>5. \A r \in Regs : m.list[r] = {}
  BY <1>2, <1>3, GenLocAssumption, PlacesInLocs
<1> QED BY <1>4, <1>5, EmptyRegsTidy DEF Init, ReturnInv, NoQuadr, ReturnedInPlace

LEMMA ReturnStart ==
  ASSUME TableInv, ReturnInv, StartQuadr
  PROVE  ReturnInv'
<1>1. Good(m) /\ m \in Machines
  BY DEF TableInv, TypeOK, Good
<1>2. pc = "quadr" => Tidy(m)
  BY DEF ReturnInv
<1>3. ASSUME NEW op \in Handlers, NEW res \in Vars \cup {NoVar}, NEW args \in SUBSET Vars,
             NEW A \in SUBSET Vars,
             NEW step \in {"quadr", "load", "result", "call", "save", "abort"},
             Begin(op, res, args, A, step), Tidy(m'),
             op = "return" => \E v \in Vars : args = {v}
      PROVE  ReturnInv'
  <2>1. /\ pc' = step
        /\ step # "quadr" => cur'.op = op /\ cur'.args = args
        /\ step = "quadr" => cur'.op = "goto"
    BY <1>3, BeginFacts
  <2> QED BY <1>3, <2>1 DEF ReturnInv, ReturnedInPlace
<1>4. ASSUME NEW x \in Vars, NEW A \in SUBSET Vars, NEW w \in Vars, CopyVar(x, w, A)
      PROVE  ReturnInv'
  <2> DEFINE D == {x}
             d == Discard(m, D)
             e == Aliased(d, x, w)
             W == {w} \ A
             g == Discard(IF x = w THEN d ELSE e, W)
  <2>1. m' = Settle(g) /\ Tidy(m) /\ D \in SUBSET Vars /\ W \in SUBSET Vars
    BY <1>2, <1>4 DEF CopyVar, Begin
  <2>2. Good(d) /\ Tidy(d) /\ d.loc[x] = {}
    <3>1. d.loc = [v \in Vars |-> IF v \in D THEN {} ELSE m.loc[v]]
      BY <1>1, <2>1, DiscardLoc
    <3>2. d.loc[x] = {}
      BY <3>1
    <3> HIDE DEF D
    <3> QED BY <1>1, <2>1, <3>2, DiscardLoc, DiscardTidy
  <2> HIDE DEF D, d, W
  <2>3. x # w => Good(e) /\ Tidy(e)
    BY <2>2, AliasedFacts, AliasedTidy
  <2> HIDE DEF e
  <2>4. Tidy(g)
    BY <2>1, <2>2, <2>3, DiscardTidy
  <2> HIDE DEF g
  <2>5. Tidy(m')
    BY <2>1, <2>4, SettleTidy
  <2>6. PICK step \in {"quadr", "abort"} : Begin("copy", x, {w}, A, step)
    BY <1>4 DEF CopyVar
  <2> QED BY <1>3, <2>5, <2>6 DEF Handlers
<1>5. ASSUME NEW x \in Vars, NEW A \in SUBSET Vars, NEW c \in Consts, CopyConst(x, c, A)
      PROVE  ReturnInv'
  <2> DEFINE D == {x}
             d == Discard(m, D)
             e == [d EXCEPT !.loc[x] = {c},
                            !.holds = [l \in Locs |->
                                (d.holds[l] \ {x}) \cup (IF l = c THEN {x} ELSE {})]]
  <2>1. m' = Settle(e) /\ Tidy(m) /\ D \in SUBSET Vars /\ Begin("copy", x, {}, A, "quadr")
    BY <1>2, <1>5 DEF CopyConst, Begin
  <2>2. Good(d) /\ Tidy(d)
    BY <1>1, <2>1, DiscardLoc, DiscardTidy
  <2>3. d.loc[x] = {}
    <3>1. d.loc = [v \in Vars |-> IF v \in D THEN {} ELSE m.loc[v]]
      BY <1>1, <2>1, DiscardLoc
    <3> QED BY <3>1
  <2> HIDE DEF d
  <2>4. e.loc = [d.loc EXCEPT ![x] = {c}] /\ e.list = d.list
    BY <2>2 DEF Good, Machines
  <2> HIDE DEF e
  <2>5. e.loc[x] = {c} /\ \A v \in Vars \ {x} : e.loc[v] = d.loc[v]
    BY <2>2, <2>4 DEF Good, Machines
  <2>6. Exact(e)
    <3> SUFFICES ASSUME NEW r \in Regs, NEW v \in e.list[r] PROVE r \in e.loc[v]
      BY DEF Exact
    <3>1. v \in Vars /\ r \in d.loc[v]
      BY <2>2, <2>4, PlacesInLocs DEF Tidy, Exact, Good, Machines
    <3> QED BY <2>3, <2>5, <3>1
  <2>7. OneReg(e) /\ Alike(e)
    BY <2>2, <2>5, GenLocAssumption DEF Tidy, OneReg, Alike
  <2>8. Tidy(m')
    BY <2>1, <2>6, <2>7, SettleTidy DEF Tidy
  <2> QED BY <1>3, <2>1, <2>8 DEF Handlers
<1>6. ASSUME NEW x \in Vars, NEW A \in SUBSET Vars, NEW args \in SUBSET Vars, DeadResult(x, args, A)
      PROVE  ReturnInv'
  <2> DEFINE D == {x} \cup (args \ A)
  <2>1. /\ m' = Settle(Discard(m, D)) /\ Tidy(m) /\ D \in SUBSET Vars
        /\ Begin("copy", x, args, A, "quadr")
    BY <1>2, <1>6 DEF DeadResult, Begin
  <2> HIDE DEF D
  <2>2. Tidy(m')
    BY <1>1, <2>1, DiscardTidy, SettleTidy
  <2> QED BY <1>3, <2>1, <2>2 DEF Handlers
<1>7. ASSUME NEW op \in Handlers, NEW res \in Vars \cup {NoVar}, NEW args \in SUBSET Vars,
             NEW A \in SUBSET Vars, NEW step \in {"load", "result", "call", "save"},
             Begin(op, res, args, A, step), m' = m,
             op = "return" => \E v \in Vars : args = {v}
      PROVE  ReturnInv'
  <2>1. Tidy(m')
    BY <1>2, <1>7 DEF Begin
  <2> QED BY <1>3, <1>7, <2>1
<1>8. ASSUME NEW x \in Vars, NEW A \in SUBSET Vars, NEW args \in SUBSET Vars, StartArith(x, args, A)
      PROVE  ReturnInv'
  BY <1>7, <1>8 DEF StartArith, Handlers
<1>9. ASSUME NEW A \in SUBSET Vars, NEW args \in SUBSET Vars, StartIf(args, A)
      PROVE  ReturnInv'
  BY <1>7, <1>9 DEF StartIf, Handlers
<1>10. ASSUME StartGoto
       PROVE  ReturnInv'
  BY <1>7, <1>10 DEF StartGoto, Handlers, TableInv, TypeOK
<1>11. ASSUME NEW x \in Vars \cup {NoVar}, NEW A \in SUBSET Vars, NEW args \in SUBSET Vars,
              StartCall(x, args, A)
       PROVE  ReturnInv'
  <2>1. PICK step \in {"call", "load"} : Begin("call", x, args, A, step)
    BY <1>11 DEF StartCall
  <2> QED BY <1>7, <1>11, <2>1 DEF StartCall, Handlers
<1>12. ASSUME NEW v \in Vars, NEW A \in SUBSET Vars, StartPrint(v, A)
       PROVE  ReturnInv'
  BY <1>7, <1>12 DEF StartPrint, Handlers
<1>13. ASSUME NEW v \in Vars, NEW A \in SUBSET Vars, StartRead(v, A)
       PROVE  ReturnInv'
  BY <1>7, <1>13 DEF StartRead, Handlers
<1>14. ASSUME NEW v \in Vars, StartReturn(v)
       PROVE  ReturnInv'
  BY <1>7, <1>14 DEF StartReturn, Handlers
<1>15. \A a, b \in Vars : {a, b} \in SUBSET Vars
  OBVIOUS
<1> QED BY <1>4, <1>5, <1>6, <1>8, <1>9, <1>10, <1>11, <1>12, <1>13, <1>14, <1>15 DEF StartQuadr

(* The child block starts with what was recorded, each variable in places  *)
(* nothing else is in.                                                     *)
LEMMA EntryTidy ==
  ASSUME TableInv, Tidy(m), Cleared, NEW L \in SUBSET cur.after,
         NEW d, d.loc = [v \in Vars |-> IF v \in L THEN entry[v] ELSE m.loc[v]],
         d.list = [p \in Places |-> m.list[p] \cup {v \in L : p \in entry[v]}]
  PROVE  Tidy(d)
<1>1. Good(m) /\ L \in SUBSET Vars /\ \A v \in Vars : entry[v] \subseteq Places
  BY DEF TableInv, TypeOK, Good, Quadrs
<1>2. Exact(d)
  <2> SUFFICES ASSUME NEW r \in Regs, NEW v \in d.list[r] PROVE r \in d.loc[v]
    BY DEF Exact
  <2>1. r \in Places /\ (v \in m.list[r] \/ (v \in L /\ r \in entry[v]))
    BY PlacesInLocs
  <2>2. CASE v \in L /\ r \in entry[v]
    BY <1>1, <2>2
  <2>3. CASE v \in m.list[r]
    <3>1. r \in m.loc[v] /\ v \in Vars
      BY <1>1, <2>1, <2>3 DEF Tidy, Exact, Good, Machines
    <3>2. v \notin L
      BY <3>1 DEF Cleared
    <3> QED BY <3>1, <3>2
  <2> QED BY <2>1, <2>2, <2>3
<1>3. OneReg(d)
  <2> SUFFICES ASSUME NEW v \in Vars, NEW r \in d.loc[v] \cap Regs, NEW q \in d.loc[v] \cap Regs
               PROVE  r = q
    BY DEF OneReg
  <2>1. CASE v \in L
    BY <1>1, <2>1 DEF Cleared
  <2>2. CASE v \notin L
    BY <2>2 DEF Tidy, OneReg
  <2> QED BY <2>1, <2>2
<1>4. Alike(d)
  <2> SUFFICES ASSUME NEW u \in Vars, NEW v \in Vars, NEW r \in Regs,
                      r \in d.loc[u] \cap d.loc[v], u # v
               PROVE  d.loc[u] \cap Slots = d.loc[v] \cap Slots
    BY DEF Alike
  <2>1. \A w \in L : r \in entry[w] => \A y \in Vars : r \notin m.loc[y]
    BY <1>1, PlacesInLocs DEF Cleared, Good, Listed
  <2>2. \A w, y \in L : r \in entry[w] \cap entry[y] => w = y
    BY DEF Cleared
  <2>3. u \notin L /\ v \notin L
    BY <1>1, <2>1, <2>2
  <2>4. d.loc[u] = m.loc[u] /\ d.loc[v] = m.loc[v]
    BY <2>3
  <2> QED BY <2>4 DEF Tidy, Alike
<1> QED BY <1>2, <1>3, <1>4 DEF Tidy

(* save_live is finished: each variable live at the end is alone where it  *)
(* is recorded, and is then discarded.                                     *)
LEMMA BranchCleared ==
  ASSUME TableInv, Tidy(m), Branch
  PROVE  Cleared'
<1> DEFINE D == cur.after \cup cur.args
<1>1. /\ Good(m) /\ Kept /\ pc = "save" /\ pending = {}
      /\ cur.after \in SUBSET Vars /\ D \in SUBSET Vars /\ cur.after \subseteq D
      /\ cur' = cur /\ entry' = entry /\ m' = Discard(m, D)
  BY DEF TableInv, TypeOK, Good, Quadrs, Branch
<1> HIDE DEF D
<1>2. \A v \in cur.after : entry[v] = m.loc[v] /\ Alone(m, v)
  BY <1>1 DEF Kept, Done
<1>3. /\ m'.loc = [v \in Vars |-> IF v \in D THEN {} ELSE m.loc[v]]
      /\ m'.list = [p \in Places |-> {v \in m.list[p] : v \in D => p \notin m.loc[v]}]
  BY <1>1 DEF Good, Machines, Discard
<1>4. \A v \in cur.after : m'.loc[v] = {} /\ \A p \in entry[v] : m'.list[p] = {}
  BY <1>1, <1>2, <1>3 DEF Alone
<1>5. \A u, v \in cur.after : entry[u] \cap entry[v] # {} => u = v
  BY <1>2 DEF Alone
<1>6. \A v \in cur.after : \A r, q \in entry[v] \cap Regs : r = q
  BY <1>1, <1>2 DEF Tidy, OneReg
<1> QED BY <1>1, <1>4, <1>5, <1>6 DEF Cleared

LEMMA SavedThere ==
  ASSUME NEW d, Good(d), NEW v \in Vars, NEW p \in Places, NEW e \in Saved(d, {v}, {p})
  PROVE  p \in e.loc[v]
<1> DEFINE S == {v}
           P == {p}
<1>1. S \in SUBSET Vars /\ P \in SUBSET Places /\ v \in S /\ e \in Saved(d, S, P)
  OBVIOUS
<1>2. \A q \in P : q = p
  OBVIOUS
<1> HIDE DEF S, P
<1>3. PICK f \in [S -> P] : CopiedTo(d, e, S, f)
  BY <1>1, SavedShape
<1> QED BY <1>1, <1>2, <1>3 DEF CopiedTo

(* save_var_to_loc: either the register's list, which is exact, names the  *)
(* variable, or the value is copied there.                                 *)
LEMMA ReturnedThere ==
  ASSUME TableInv, Sound(m), Tidy(m), ReturnValue, \E u \in Vars : cur.args = {u}
  PROVE  \A u \in cur.args : u \in m'.holds[RetReg]
<1>1. PICK v \in cur.args :
        IF v \in m.list[RetReg] THEN m' = m
        ELSE \E e \in FreeReg(m, RetReg, cur.args) : m' \in Saved(e, {v}, {RetReg})
  BY DEF ReturnValue
<1>2. cur.args = {v} /\ v \in Vars /\ Good(m) /\ cur.args \in SUBSET Vars
  BY DEF TableInv, TypeOK, Good
<1>3. CASE v \in m.list[RetReg]
  <2>1. RetReg \in m.loc[v]
    BY <1>3, GenLocAssumption DEF Tidy, Exact
  <2> QED BY <1>1, <1>2, <1>3, <2>1 DEF Sound
<1>4. CASE v \notin m.list[RetReg]
  <2>1. PICK e \in FreeReg(m, RetReg, cur.args) : m' \in Saved(e, {v}, {RetReg})
    BY <1>1, <1>4
  <2> DEFINE S == {v}
             P == {RetReg}
  <2>2. S \in SUBSET Vars /\ P \in SUBSET Places /\ v \in S
    BY <1>2, GenLocAssumption, PlacesInLocs
  <2>3. Good(e) /\ Sound(e) /\ e.list[RetReg] = {}
    BY <1>2, GenLocAssumption, FreeRegFacts
  <2>4. m' \in Saved(e, S, P) /\ \A p \in P : e.list[p] = {}
    BY <2>1, <2>3
  <2>5. RetReg \in m'.loc[v]
    BY <1>2, <2>1, <2>2, <2>3, SavedThere
  <2> HIDE DEF S, P
  <2>6. Sound(m')
    BY <2>2, <2>3, <2>4, SavedSound
  <2> QED BY <1>2, <2>5, <2>6 DEF Sound
<1> QED BY <1>3, <1>4

LEMMA ReturnStep ==
  ASSUME TableInv, ValueInv, ReturnInv, [Next]_vars
  PROVE  ReturnInv'
<1>1. /\ Good(m) /\ m \in Machines /\ cur \in Quadrs /\ TypeOK /\ Listed(m) /\ Shape
      /\ cur.args \in SUBSET Vars /\ cur.after \in SUBSET Vars /\ cur.res \in Vars \cup {NoVar}
      /\ AliveDuringLoad \in SUBSET Vars
  BY AliveType DEF TableInv, TypeOK, Good, Quadrs
<1>2. /\ pc # "returned" => Tidy(m)
      /\ cur.op = "return" => \E v \in Vars : cur.args = {v}
  BY DEF ReturnInv
<1>3. CASE StartQuadr
  BY <1>3, ReturnStart
<1>4. ASSUME NEW v \in Vars, Prefetch(v) \/ LoadArg(v)
      PROVE  ReturnInv'
  <2>1. Tidy(m) /\ pc = "load"
    BY <1>2, <1>4 DEF Prefetch, LoadArg
  <2>2. Tidy(m')
    BY <1>1, <1>4, <2>1, MoveToRegTidy DEF Prefetch, LoadArg
  <2>3. cur'.op = cur.op /\ cur'.args = cur.args /\ pc' \in {"load", "save", "call", "result"}
    BY <1>1, <1>4, <2>1 DEF Prefetch, LoadArg, AfterLoad, Quadrs
  <2> QED BY <1>2, <2>2, <2>3 DEF ReturnInv, ReturnedInPlace
<1>5. CASE ChooseResult
  <2>1. PICK re \in ResultRegs :
          /\ m' = re[2]
          /\ \E src \in Sources(re[2], cur.args) :
               cur' = [cur EXCEPT !.dst = re[1],
                                  !.opnd = [v \in Vars |-> IF v \in cur.args THEN src[v] ELSE RetReg]]
    BY <1>5 DEF ChooseResult
  <2>2. Tidy(m')
    BY <1>1, <1>2, <1>5, <2>1, ResultRegsTidy DEF ChooseResult
  <2>3. cur'.op = cur.op /\ cur'.args = cur.args /\ pc' = "update"
    BY <1>1, <1>5, <2>1 DEF ChooseResult, Quadrs
  <2> QED BY <1>2, <2>2, <2>3 DEF ReturnInv, ReturnedInPlace
<1>6. CASE UpdateLocations
  <2> DEFINE D == {cur.res} \cup Dying
             d == Discard(m, D)
             alive == cur.after \ {cur.res}
  <2>1. PICK e \in FreeReg(d, cur.dst, alive) : m' = SetTo(e, cur.res, cur.dst)
    BY <1>6 DEF UpdateLocations
  <2>2. /\ cur.res \in Vars /\ cur.dst \in Regs /\ cur.dst \in Places
        /\ D \in SUBSET Vars /\ alive \in SUBSET Vars
        /\ cur.res \in D /\ cur.res \notin alive /\ Tidy(m)
    BY <1>1, <1>2, <1>6, PlacesInLocs DEF UpdateLocations, Shape, Quadrs, Dying
  <2> HIDE DEF D, alive
  <2>3. /\ Good(d) /\ Tidy(d)
        /\ d.loc = [v \in Vars |-> IF v \in D THEN {} ELSE m.loc[v]]
    BY <1>1, <2>2, DiscardLoc, DiscardTidy
  <2>4. d.loc[cur.res] = {}
    BY <2>2, <2>3
  <2> HIDE DEF d
  <2>5. Good(e) /\ e.list[cur.dst] = {} /\ \A v \in Vars \ alive : e.loc[v] \subseteq d.loc[v]
    BY <2>1, <2>2, <2>3, FreeRegFacts
  <2>6. Tidy(e)
    BY <2>1, <2>2, <2>3, FreeRegTidy
  <2>7. Tidy(m')
    BY <2>1, <2>2, <2>4, <2>5, <2>6, SetToTidy
  <2> QED BY <1>2, <1>6, <2>7 DEF UpdateLocations, ReturnInv, ReturnedInPlace
<1>7. CASE Emit
  <2>1. cur.res \in Vars /\ cur.dst \in Places /\ Tidy(m)
    BY <1>1, <1>2, <1>7, PlacesInLocs DEF Emit, Shape, Quadrs
  <2>2. Store(m, cur.res, cur.dst).loc = m.loc /\ Store(m, cur.res, cur.dst).list = m.list
    BY DEF Store
  <2>3. Tidy(m')
    BY <1>7, <2>1, <2>2, SameTidy, SettleTidy DEF Emit
  <2> QED BY <1>7, <2>3 DEF Emit, ReturnInv, ReturnedInPlace, NoQuadr
<1>8. CASE DoCall
  <2>1. PICK e \in FreeAll(m, cur.after) :
          LET d == [e EXCEPT !.holds = [l \in Locs |-> IF l \in Regs THEN {} ELSE e.holds[l]]]
          IN m' = Settle(IF cur.res = NoVar THEN d
                         ELSE SetTo(Store(d, cur.res, RetReg), cur.res, RetReg))
    BY <1>8 DEF DoCall
  <2> DEFINE d == [e EXCEPT !.holds = [l \in Locs |-> IF l \in Regs THEN {} ELSE e.holds[l]]]
             k == Store(d, cur.res, RetReg)
  <2>2. cur.res # NoVar => Fresh(m, cur.res)
    BY <1>1, <1>8 DEF DoCall, ValueInv, FreshResult, Shape
  <2>3. /\ Good(e)
        /\ \A v \in Vars : e.loc[v] \cap Regs = {}
        /\ \A r \in Regs : e.list[r] = {}
        /\ \A v \in Vars : Fresh(m, v) => Fresh(e, v)
    BY <1>1, FreeAllFacts
  <2>4. Good(d) /\ d.loc = e.loc /\ d.list = e.list
    BY <2>3 DEF Good, Machines, Listed
  <2>5. m' = Settle(IF cur.res = NoVar THEN d ELSE SetTo(k, cur.res, RetReg))
    BY <2>1
  <2> HIDE DEF d
  <2>6. Tidy(d)
    BY <2>3, <2>4, EmptyRegsTidy
  <2>7. cur.res # NoVar => Tidy(SetTo(k, cur.res, RetReg))
    <3> SUFFICES ASSUME cur.res # NoVar PROVE Tidy(SetTo(k, cur.res, RetReg))
      OBVIOUS
    <3>1. cur.res \in Vars /\ RetReg \in Places
      BY <1>1, GenLocAssumption, PlacesInLocs
    <3>2. Good(k) /\ k.loc = d.loc
      BY <2>4, <3>1, StoreLoc
    <3>3. k.list = d.list
      BY DEF Store
    <3> HIDE DEF k
    <3>4. Tidy(k) /\ k.loc[cur.res] = {} /\ k.list[RetReg] = {}
      BY <2>2, <2>3, <2>4, <2>6, <3>1, <3>2, <3>3, SameTidy, GenLocAssumption DEF Fresh
    <3> QED BY <3>1, <3>2, <3>4, SetToTidy
  <2>8. Tidy(m')
    BY <2>5, <2>6, <2>7, SettleTidy
  <2> QED BY <1>8, <2>8 DEF DoCall, ReturnInv, ReturnedInPlace, NoQuadr
<1>9. CASE PrintValue
  <2>1. Dying \in SUBSET Vars /\ Tidy(m)
    BY <1>1, <1>2, <1>9 DEF Dying, PrintValue
  <2>2. Tidy(m')
    BY <1>1, <1>9, <2>1, DiscardTidy, SettleTidy DEF PrintValue
  <2> QED BY <1>9, <2>2 DEF PrintValue, ReturnInv, ReturnedInPlace, NoQuadr
<1>10. CASE ReadValue
  <2>1. PICK re \in ResultRegs :
          m' = Settle(Store(SetTo(Discard(re[2], {cur.res}), cur.res, re[1]), cur.res, re[1]))
    BY <1>10 DEF ReadValue
  <2> DEFINE k == re[2]
             r == re[1]
             D == {cur.res}
             d == Discard(k, D)
             g == SetTo(d, cur.res, r)
             h == Store(g, cur.res, r)
  <2>2. cur.res \in Vars /\ Fresh(m, cur.res) /\ Tidy(m) /\ cur.args = {}
    BY <1>1, <1>2, <1>10, GenLocAssumption DEF ReadValue, Shape, ValueInv, FreshResult
  <2>3. re \in AllocReg(m, AliveDuringLoad, Used)
    BY <1>1, <2>2 DEF ResultRegs, ResultOwners, Dying, Fresh
  <2>4. re[1] \in Regs /\ Good(re[2]) /\ re[2].list[re[1]] = {}
    BY <1>1, <2>3, AllocRegFacts
  <2>5. Good(k) /\ r \in Places /\ D \in SUBSET Vars /\ k.list[r] = {}
    BY <2>2, <2>4, PlacesInLocs
  <2>6. Tidy(k)
    BY <1>1, <2>2, ResultRegsTidy
  <2>7. m' = Settle(h)
    BY <2>1
  <2> HIDE DEF k, r
  <2>8. /\ Good(d)
        /\ d.loc = [v \in Vars |-> IF v \in D THEN {} ELSE k.loc[v]]
        /\ d.list = [p \in Places |-> {v \in k.list[p] : v \in D => p \notin k.loc[v]}]
    BY <2>5, DiscardFacts
  <2>9. d.loc[cur.res] = {} /\ d.list[r] = {}
    BY <2>2, <2>5, <2>8
  <2> HIDE DEF D
  <2>10. Tidy(d)
    BY <2>5, <2>6, DiscardTidy
  <2> HIDE DEF d
  <2>11. Tidy(g)
    BY <2>2, <2>5, <2>8, <2>9, <2>10, SetToTidy
  <2>12. h.loc = g.loc /\ h.list = g.list
    BY DEF Store
  <2> HIDE DEF g, h
  <2>13. Tidy(m')
    BY <2>7, <2>11, <2>12, SameTidy, SettleTidy
  <2> QED BY <1>10, <2>13 DEF ReadValue, ReturnInv, ReturnedInPlace, NoQuadr
<1>11. CASE ReturnValue
  <2>1. Tidy(m) /\ Sound(m) /\ \E v \in Vars : cur.args = {v}
    BY <1>2, <1>11 DEF ReturnValue, ValueInv
  <2>2. \A v \in cur.args : v \in m'.holds[RetReg]
    BY <1>11, <2>1, ReturnedThere
  <2> QED BY <1>2, <1>11, <2>2 DEF ReturnValue, ReturnInv, ReturnedInPlace
<1>12. ASSUME NEW v \in Vars, SaveVarAtBlockEnd(v)
       PROVE  ReturnInv'
  <2>1. PICK e \in EnsureUnique(m, v, cur.after \cup cur.args) : m' \in Placed(e, v)
    BY <1>12 DEF SaveVarAtBlockEnd
  <2>2. m.loc[v] # {} /\ cur.after \cup cur.args \in SUBSET Vars /\ Tidy(m)
    BY <1>1, <1>2, <1>12 DEF SaveVarAtBlockEnd
  <2>3. Good(e)
    BY <1>1, <2>1, <2>2, EnsureUniqueFacts
  <2>4. Tidy(e)
    BY <1>1, <2>1, <2>2, EnsureUniqueTidy
  <2>5. Tidy(m')
    BY <2>1, <2>3, <2>4, PlacedTidy
  <2> QED BY <1>2, <1>12, <2>5 DEF SaveVarAtBlockEnd, ReturnInv, ReturnedInPlace
<1>13. CASE Branch
  <2>1. cur.after \cup cur.args \in SUBSET Vars /\ Tidy(m)
    BY <1>1, <1>2, <1>13 DEF Branch
  <2>2. Tidy(m')
    BY <1>1, <1>13, <2>1, DiscardTidy DEF Branch
  <2>3. Cleared'
    BY <1>13, <2>1, BranchCleared
  <2> QED BY <1>2, <1>13, <2>2, <2>3 DEF Branch, ReturnInv, ReturnedInPlace
<1>14. ASSUME NEW L \in SUBSET Vars, NextBlock(L)
       PROVE  ReturnInv'
  <2> DEFINE d == [m EXCEPT !.loc = [v \in Vars |-> IF v \in L THEN entry[v] ELSE m.loc[v]],
                            !.list = [p \in Places |-> m.list[p] \cup {v \in L : p \in entry[v]}]]
  <2>1. m' = Settle(d) /\ Tidy(m) /\ Cleared /\ L \in SUBSET cur.after
    BY <1>2, <1>14 DEF NextBlock, ReturnInv
  <2>2. /\ d.loc = [v \in Vars |-> IF v \in L THEN entry[v] ELSE m.loc[v]]
        /\ d.list = [p \in Places |-> m.list[p] \cup {v \in L : p \in entry[v]}]
    BY <1>1 DEF Machines
  <2> HIDE DEF d
  <2>3. Tidy(d)
    BY <2>1, <2>2, EntryTidy
  <2>4. Tidy(m')
    BY <2>1, <2>3, SettleTidy
  <2> QED BY <1>14, <2>4 DEF NextBlock, ReturnInv, ReturnedInPlace, NoQuadr
<1>15. ASSUME m' = m, cur' = cur, pc # "returned", pc' \notin {"returned", "leave"}
       PROVE  ReturnInv'
  BY <1>2, <1>15 DEF ReturnInv, ReturnedInPlace
<1>16. ASSUME NEW v \in Vars, LoadLostArg(v) \/ SaveLostVar(v)
       PROVE  ReturnInv'
  BY <1>15, <1>16 DEF LoadLostArg, SaveLostVar
<1>17. CASE AllocAbort \/ BranchLostArg
  BY <1>15, <1>17 DEF AllocAbort, BranchLostArg
<1>18. CASE UNCHANGED vars
  BY <1>18 DEF vars, ReturnInv, ReturnedInPlace, Cleared
<1>19. CASE Halted
  BY <1>18, <1>19 DEF Halted
<1> QED BY <1>3, <1>4, <1>5, <1>6, <1>7, <1>8, <1>9, <1>10, <1>11, <1>12, <1>13, <1>14,
           <1>16, <1>17, <1>18, <1>19 DEF Next

(* RETURN: the register the caller reads holds the value, provided that no *)
(* call writes its result into a variable that already has locations.      *)
THEOREM ReturnCorrect ==
  ASSUME ~CallInPlace
  PROVE  Spec => []ReturnedInPlace
<1>1. TableInv /\ ValueInv /\ ReturnInv /\ [Next]_vars => ReturnInv'
  BY ReturnStep
<1>2. ReturnInv => ReturnedInPlace
  BY DEF ReturnInv
<1> QED BY <1>1, <1>2, TableInvariant, ValueInvariant, ReturnInit, PTL DEF Spec
=============================================================================
