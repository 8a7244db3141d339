----------------------------- MODULE EdgeStore ------------------------------
(***************************************************************************)
(* What the link layer promises of an edge store, whatever the backend.    *)
(* A live edge has a weight and the tick of its last activation; one       *)
(* sokm::tick acts on every edge independently of every other: decay,      *)
(* strengthen if both ends were activated, keep iff still heavy enough and *)
(* active within the last P1 ticks.                                        *)
(***************************************************************************)
EXTENDS Sokm

CONSTANT MaxTick  \* bound: the last tick the caller's clock reaches

VARIABLES
  edges,  \* Key -> [w, last], defined on the live edges
  now     \* the caller's clock: the latest tick passed to the store

vars == <<edges, now>>

Time == 0 .. MaxTick
Edge == [w : Weight \ {0}, last : Nat]

TypeOK ==
  /\ DOMAIN edges \subseteq Key
  /\ edges \in [DOMAIN edges -> Edge]
  /\ now \in Time

NoEdges == [k \in {} |-> [w |-> 1, last |-> 0]]

(***************************************************************************)
(* One cycle on the value e of the store.                                  *)
(***************************************************************************)
WeightOf(e, k) == IF k \in DOMAIN e THEN e[k].w ELSE 0

Decay(e) == [k \in DOMAIN e |-> [w |-> Decayed[e[k].w], last |-> e[k].last]]

Strengthen(e, act, t) ==
  LET pairs == Pairs(act)
  IN  [k \in DOMAIN e \cup pairs |->
         IF k \in pairs
         THEN [w    |-> NewWeight(WeightOf(e, k), Delta * act[k[1]] * act[k[2]]),
               last |-> t]
         ELSE e[k]]

Survives(edge, t) == edge.w >= MinWeight /\ Elapsed(t, edge.last) <= P1

Prune(e, t) == Restrict(e, {k \in DOMAIN e : Survives(e[k], t)})

TickEdges(e, act, t, mode) ==
  Prune(Strengthen(IF mode = "Skip" THEN e ELSE Decay(e), act, t), t)

-----------------------------------------------------------------------------
Init == edges = NoEdges /\ now = 0

Tick(act, t, mode) ==
  /\ t \in now .. MaxTick
  /\ edges' = TickEdges(edges, act, t, mode)
  /\ now' = t

\* A new edge starts with the tick 0 of an edge never activated, or with that
\* of an earlier activation of the same pair: the backends differ here.
SetWeight(k, w) ==
  /\ \/ w = 0 /\ edges' = Without(edges, {k})
     \/ /\ w > 0
        /\ \E l \in IF k \in DOMAIN edges THEN {edges[k].last} ELSE 0 .. now :
             edges' = Put(edges, {k}, [w |-> w, last |-> l])
  /\ UNCHANGED now

\* Recording an activation of a pair that has no edge creates none.
Touch(k, t) ==
  /\ t \in now .. MaxTick
  /\ edges' = IF k \in DOMAIN edges
              THEN [edges EXCEPT ![k].last = t]
              ELSE edges
  /\ now' = t

ReindexForCompact(f) ==
  /\ edges' = Rekey(f, edges)
  /\ UNCHANGED now

Next ==
  \/ \E act \in Activation, t \in Time, mode \in DecayMode : Tick(act, t, mode)
  \/ \E k \in Key, w \in Weight : SetWeight(k, w)
  \/ \E k \in Key, t \in Time : Touch(k, t)
  \/ \E f \in IndexMaps : ReindexForCompact(f)

Spec == Init /\ [][Next]_vars
=============================================================================
