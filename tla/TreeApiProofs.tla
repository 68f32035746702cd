---------------------------- MODULE TreeApiProofs ----------------------------
(***************************************************************************)
(* The builders keep the trees trees and the books straight, for every     *)
(* number of nodes, keys and threads and every C array; and a lookup finds *)
(* what is there.                                                          *)
(***************************************************************************)
EXTENDS TreeApiProps, Facts

(***************************************************************************)
(* Forests: every node hangs where it says, no collection holds more than  *)
(* it has room for, and nothing but what hangs off the roots is there.     *)
(***************************************************************************)
Types   == {"obj", "arr", "int", "str", "nostr", "null"}
Allocs  == {"malloc", "custom"}
NodeSet(D) == [type : Types, alloc : Allocs, up : D \cup {NULL}, key : Keys \cup {NoKey},
               kids : Seq(D), cap : Nat]

Linked(f, R) ==
  /\ f \in [DOMAIN f -> NodeSet(DOMAIN f)]
  /\ NULL \notin DOMAIN f
  /\ R \subseteq DOMAIN f
  /\ \A n \in DOMAIN f : f[n].up = NULL <=> n \in R
  /\ \A n \in DOMAIN f : \A x \in KidSet(f, n) : f[x].up = n
  /\ \A n \in DOMAIN f : f[n].up # NULL => n \in KidSet(f, f[n].up)
Roomy(f) ==
  \A n \in DOMAIN f :
    /\ IsInjective(f[n].kids)
    /\ Len(f[n].kids) <= f[n].cap
    /\ f[n].type = "obj" => \A x, y \in KidSet(f, n) : x # y => f[x].key # f[y].key
    /\ f[n].kids # <<>> => f[n].type \in {"obj", "arr"}
Grounded(f, R) == \A S \in SUBSET DOMAIN f : R \subseteq S /\ Closed(f, S) => S = DOMAIN f
Forest(f, R)   == Linked(f, R) /\ Roomy(f) /\ Grounded(f, R)

LEMMA SeqOver ==
  ASSUME NEW S, NEW T, S \subseteq T, NEW ks \in Seq(S)
  PROVE  ks \in Seq(T)
OBVIOUS

LEMMA LinkFacts ==
  ASSUME NEW f, NEW R, Linked(f, R)
  PROVE  /\ \A n \in DOMAIN f : KidSet(f, n) \subseteq DOMAIN f
         /\ \A n \in DOMAIN f : f[n].up \in DOMAIN f \cup {NULL}
         /\ \A n \in DOMAIN f : Len(f[n].kids) \in Nat /\ DOMAIN f[n].kids = 1..Len(f[n].kids)
         /\ \A n \in DOMAIN f : f[n] \in NodeSet(DOMAIN f)
<1>1. \A n \in DOMAIN f : f[n] \in NodeSet(DOMAIN f)
  BY DEF Linked
<1>2. ASSUME NEW n \in DOMAIN f
      PROVE  /\ f[n].kids \in Seq(DOMAIN f) /\ f[n].up \in DOMAIN f \cup {NULL}
  BY <1>1 DEF NodeSet
<1>3. ASSUME NEW n \in DOMAIN f
      PROVE  /\ KidSet(f, n) \subseteq DOMAIN f
             /\ Len(f[n].kids) \in Nat /\ DOMAIN f[n].kids = 1..Len(f[n].kids)
  <2>1. f[n].kids \in Seq(DOMAIN f)
    BY <1>2
  <2> QED BY <2>1, SeqElements DEF KidSet, Range
<1> QED BY <1>1, <1>2, <1>3

(***************************************************************************)
(* Subtrees.                                                               *)
(***************************************************************************)
LEMMA SubtreeFacts ==
  ASSUME NEW f, \A n \in DOMAIN f : KidSet(f, n) \subseteq DOMAIN f, NEW n \in DOMAIN f
  PROVE  /\ Subtree(f, n) \subseteq DOMAIN f
         /\ n \in Subtree(f, n)
         /\ Closed(f, Subtree(f, n))
         /\ \A S \in SUBSET DOMAIN f : n \in S /\ Closed(f, S) => Subtree(f, n) \subseteq S
<1> DEFINE Around == {S \in SUBSET DOMAIN f : n \in S /\ Closed(f, S)}
           T == Subtree(f, n)
<1>1. T = {x \in DOMAIN f : \A S \in Around : x \in S}
  BY DEF Subtree
<1>2. T \subseteq DOMAIN f /\ n \in T
  BY <1>1
<1>3. ASSUME NEW x \in T, NEW y \in KidSet(f, x) PROVE y \in T
  <2>1. x \in DOMAIN f /\ y \in DOMAIN f
    BY <1>2
  <2>2. ASSUME NEW S \in Around PROVE y \in S
    <3>1. x \in S /\ Closed(f, S)
      BY <1>1
    <3> QED BY <3>1 DEF Closed
  <2> QED BY <1>1, <2>1, <2>2
<1>4. Closed(f, T)
  BY <1>3 DEF Closed
<1>5. ASSUME NEW S \in SUBSET DOMAIN f, n \in S, Closed(f, S) PROVE T \subseteq S
  BY <1>1, <1>5
<1> QED BY <1>2, <1>4, <1>5

LEMMA SubtreeBelow ==
  ASSUME NEW f, \A n \in DOMAIN f : KidSet(f, n) \subseteq DOMAIN f, NEW n \in DOMAIN f,
         NEW x \in Subtree(f, n)
  PROVE  Subtree(f, x) \subseteq Subtree(f, n)
<1>1. /\ Subtree(f, n) \in SUBSET DOMAIN f /\ Closed(f, Subtree(f, n))
      /\ x \in DOMAIN f
  BY SubtreeFacts
<1> QED BY <1>1, SubtreeFacts

(* What is below n, but for n, hangs off something that is. *)
LEMMA SubtreeUp ==
  ASSUME NEW f, NEW R, Linked(f, R), NEW n \in DOMAIN f,
         NEW x \in Subtree(f, n), x # n
  PROVE  f[x].up \in Subtree(f, n) /\ f[x].up # NULL /\ f[x].up \in DOMAIN f
<1> DEFINE T == Subtree(f, n)
           S == T \ {x}
<1>1. \A z \in DOMAIN f : KidSet(f, z) \subseteq DOMAIN f
  BY LinkFacts
<1>2. /\ T \subseteq DOMAIN f /\ n \in T /\ Closed(f, T)
      /\ \A Z \in SUBSET DOMAIN f : n \in Z /\ Closed(f, Z) => T \subseteq Z
  BY <1>1, SubtreeFacts
<1> HIDE DEF T
<1>3. S \in SUBSET DOMAIN f /\ n \in S /\ ~ (T \subseteq S)
  BY <1>2 DEF T
<1>4. ~ Closed(f, S)
  BY <1>2, <1>3
<1>5. PICK z \in S : ~ (KidSet(f, z) \subseteq S)
  BY <1>4 DEF Closed
<1>6. PICK y \in KidSet(f, z) : y \notin S
  BY <1>5
<1>7. z \in T /\ y \in T /\ z \in DOMAIN f
  BY <1>2, <1>5, <1>6 DEF Closed
<1>8. y = x
  BY <1>6, <1>7
<1>9. f[x].up = z
  BY <1>6, <1>7, <1>8 DEF Linked
<1>10. z # NULL
  BY <1>7 DEF Linked
<1> QED BY <1>7, <1>9, <1>10 DEF T

(* No node is below its own kid. *)
LEMMA NoCycle ==
  ASSUME NEW f, NEW R, Linked(f, R), Grounded(f, R),
         NEW o \in DOMAIN f, NEW e \in KidSet(f, o)
  PROVE  o \notin Subtree(f, e) /\ e \in DOMAIN f
<1>1. \A z \in DOMAIN f : KidSet(f, z) \subseteq DOMAIN f
  BY LinkFacts
<1>2. e \in DOMAIN f /\ f[e].up = o
  BY <1>1 DEF Linked
<1> SUFFICES ASSUME o \in Subtree(f, e) PROVE FALSE
  BY <1>2
<1> DEFINE S == DOMAIN f \ Subtree(f, e)
<1>3. Subtree(f, e) \subseteq DOMAIN f /\ e \in Subtree(f, e)
  BY <1>1, <1>2, SubtreeFacts
<1>4. R \subseteq S
  <2> SUFFICES ASSUME NEW r \in R, r \in Subtree(f, e) PROVE FALSE
    BY DEF Linked
  <2>1. r \in DOMAIN f /\ f[r].up = NULL
    BY DEF Linked
  <2>2. r # e
    BY <1>2, <2>1 DEF Linked
  <2> QED BY <1>2, <2>1, <2>2, SubtreeUp
<1>5. Closed(f, S)
  <2> SUFFICES ASSUME NEW x \in S, NEW y \in KidSet(f, x) PROVE y \in S
    BY DEF Closed
  <2>1. y \in DOMAIN f /\ f[y].up = x
    BY <1>1 DEF Linked
  <2>2. CASE y = e
    BY <1>2, <2>1, <2>2
  <2>3. CASE y # e /\ y \in Subtree(f, e)
    BY <1>2, <2>1, <2>3, SubtreeUp
  <2> QED BY <2>1, <2>2, <2>3
<1>6. S = DOMAIN f
  BY <1>4, <1>5 DEF Grounded
<1> QED BY <1>3, <1>6

LEMMA Above ==
  ASSUME NEW f, NEW R, Linked(f, R), Grounded(f, R),
         NEW s \in DOMAIN f, NEW x \in Subtree(f, s), s \in Subtree(f, x)
  PROVE  x = s
<1>1. \A z \in DOMAIN f : KidSet(f, z) \subseteq DOMAIN f
  BY LinkFacts
<1>2. x \in DOMAIN f /\ Subtree(f, s) \subseteq Subtree(f, x)
  BY <1>1, SubtreeFacts, SubtreeBelow
<1> SUFFICES ASSUME x # s PROVE FALSE
  OBVIOUS
<1>3. f[x].up \in Subtree(f, s) /\ f[x].up # NULL /\ f[x].up \in DOMAIN f
  BY SubtreeUp
<1>4. x \in KidSet(f, f[x].up)
  BY <1>2, <1>3 DEF Linked
<1>5. f[x].up \notin Subtree(f, x)
  BY <1>3, <1>4, NoCycle
<1> QED BY <1>2, <1>3, <1>5

(* The trees of two roots have nothing in common. *)
LEMMA RootsApart ==
  ASSUME NEW f, NEW R, Linked(f, R), Grounded(f, R), NEW r \in R, NEW s \in R,
         NEW x \in Subtree(f, r), x \in Subtree(f, s)
  PROVE  r = s
<1> SUFFICES ASSUME r # s PROVE FALSE
  OBVIOUS
<1>1. \A z \in DOMAIN f : KidSet(f, z) \subseteq DOMAIN f
  BY LinkFacts
<1>2. r \in DOMAIN f /\ s \in DOMAIN f /\ f[r].up = NULL /\ f[s].up = NULL
  BY DEF Linked
<1> DEFINE X == Subtree(f, r) \cap Subtree(f, s)
           S == DOMAIN f \ X
<1>3. ASSUME NEW y \in X
      PROVE  y # r /\ y # s /\ f[y].up \in X
  <2>1. y # r
    <3> SUFFICES ASSUME y = r PROVE FALSE
      OBVIOUS
    <3> QED BY <1>2, SubtreeUp
  <2>2. y # s
    <3> SUFFICES ASSUME y = s PROVE FALSE
      OBVIOUS
    <3> QED BY <1>2, SubtreeUp
  <2> QED BY <1>2, <2>1, <2>2, SubtreeUp
<1>4. R \subseteq S
  <2> SUFFICES ASSUME NEW q \in R, q \in X PROVE FALSE
    BY DEF Linked
  <2>1. q \in DOMAIN f /\ f[q].up = NULL
    BY DEF Linked
  <2>2. q # r /\ q \in Subtree(f, r)
    BY <1>3
  <2> QED BY <1>2, <2>1, <2>2, SubtreeUp
<1>5. Closed(f, S)
  <2> SUFFICES ASSUME NEW z \in S, NEW y \in KidSet(f, z) PROVE y \in S
    BY DEF Closed
  <2>1. y \in DOMAIN f /\ f[y].up = z
    BY <1>1 DEF Linked
  <2>2. CASE y \in X
    BY <1>3, <2>1, <2>2
  <2> QED BY <2>1, <2>2
<1>6. S = DOMAIN f
  BY <1>4, <1>5 DEF Grounded
<1>7. x \in X /\ x \in DOMAIN f
  BY <1>1, <1>2, SubtreeFacts
<1> QED BY <1>6, <1>7

(* Everything hangs off a root. *)
LEMMA AllHeld ==
  ASSUME NEW f, NEW R, Linked(f, R), Grounded(f, R)
  PROVE  UNION {Subtree(f, r) : r \in R} = DOMAIN f
<1> DEFINE H == UNION {Subtree(f, r) : r \in R}
<1>1. \A z \in DOMAIN f : KidSet(f, z) \subseteq DOMAIN f
  BY LinkFacts
<1>2. \A r \in R : r \in DOMAIN f
  BY DEF Linked
<1>3. H \subseteq DOMAIN f /\ R \subseteq H
  BY <1>1, <1>2, SubtreeFacts
<1>4. Closed(f, H)
  <2> SUFFICES ASSUME NEW r \in R, NEW x \in Subtree(f, r), NEW y \in KidSet(f, x)
               PROVE y \in Subtree(f, r)
    BY DEF Closed
  <2> QED BY <1>1, <1>2, SubtreeFacts DEF Closed
<1> QED BY <1>3, <1>4 DEF Grounded

(***************************************************************************)
(* A forest g with the root u is hung on node o of f, in the place of the  *)
(* kid whose subtree X is, or of none.  The kids of o are then ks.         *)
(***************************************************************************)
CutAt(f, o, X) == X = {} \/ \E e \in KidSet(f, o) : X = Subtree(f, e)
Renewed(x, ks, c) == [x EXCEPT !.kids = ks, !.cap = c]
Placed(x, o, k)   == [x EXCEPT !.up = o, !.key = k]
GraftDomain(f, g, X) == (DOMAIN f \ X) \cup DOMAIN g
Grafted(f, R, g, h, o, u, k, X, ks, c) ==
  /\ Linked(f, R) /\ Grounded(f, R)
  /\ Linked(g, {u}) /\ Grounded(g, {u})
  /\ h = [x \in GraftDomain(f, g, X) |->
            CASE x = u                        -> Placed(g[u], o, k)
              [] x \in DOMAIN g /\ x # u      -> g[x]
              [] x = o                        -> Renewed(f[o], ks, c)
              [] x \notin DOMAIN g \cup {o}   -> f[x]]
  /\ DOMAIN f \cap DOMAIN g = {}
  /\ o \in DOMAIN f /\ u \in DOMAIN g /\ k \in Keys \cup {NoKey}
  /\ CutAt(f, o, X)
  /\ ks \in Seq((KidSet(f, o) \ X) \cup {u})
  /\ Range(ks) = (KidSet(f, o) \ X) \cup {u}
  /\ c \in Nat

LEMMA CutFacts ==
  ASSUME NEW f, NEW R, Linked(f, R), Grounded(f, R), NEW o \in DOMAIN f, NEW X, CutAt(f, o, X)
  PROVE  /\ X \subseteq DOMAIN f /\ o \notin X /\ Closed(f, X) /\ X \cap R = {}
         /\ \A x \in DOMAIN f \ X : x # o => KidSet(f, x) \cap X = {}
<1>0. CASE X = {}
  BY <1>0 DEF Closed
<1>1. \A z \in DOMAIN f : KidSet(f, z) \subseteq DOMAIN f
  BY LinkFacts
<1>2. CASE \E e \in KidSet(f, o) : X = Subtree(f, e)
  <2>1. PICK e \in KidSet(f, o) : X = Subtree(f, e)
    BY <1>2
  <2>2. e \in DOMAIN f /\ o \notin X /\ f[e].up = o /\ o # NULL
    BY <2>1, NoCycle DEF Linked
  <2>3. X \subseteq DOMAIN f /\ Closed(f, X)
    BY <1>1, <2>1, <2>2, SubtreeFacts
  <2>4. ASSUME NEW x \in X PROVE f[x].up \in X \cup {o} /\ f[x].up # NULL
    <3>1. CASE x = e
      BY <2>2, <3>1
    <3>2. CASE x # e
      BY <2>1, <2>2, <3>2, SubtreeUp
    <3> QED BY <3>1, <3>2
  <2>5. X \cap R = {}
    BY <2>3, <2>4 DEF Linked
  <2>6. ASSUME NEW x \in DOMAIN f \ X, x # o, NEW y \in KidSet(f, x), y \in X PROVE FALSE
    <3>1. f[y].up = x
      BY DEF Linked
    <3> QED BY <2>4, <2>6, <3>1
  <2> QED BY <2>2, <2>3, <2>5, <2>6
<1> QED BY <1>0, <1>2 DEF CutAt

(* What o has left besides X is not below X. *)
LEMMA GraftShape ==
  ASSUME NEW f, NEW R, NEW g, NEW h, NEW o, NEW u, NEW k, NEW X, NEW ks, NEW c,
         Grafted(f, R, g, h, o, u, k, X, ks, c)
  PROVE  /\ DOMAIN h = GraftDomain(f, g, X)
         /\ o \in DOMAIN h /\ o \notin DOMAIN g /\ u # o
         /\ \A x \in DOMAIN f \ X : x # o => h[x] = f[x]
         /\ \A x \in DOMAIN g : x # u => h[x] = g[x]
         /\ h[o] = Renewed(f[o], ks, c) /\ h[u] = Placed(g[u], o, k)
<1>0. Linked(f, R) /\ Grounded(f, R) /\ Linked(g, {u}) /\ Grounded(g, {u})
  BY DEF Grafted
<1>1. o \in DOMAIN f /\ o \notin X /\ o \notin DOMAIN g /\ u \in DOMAIN g
  BY <1>0, CutFacts DEF Grafted
<1>2. DOMAIN h = GraftDomain(f, g, X)
  BY DEF Grafted
<1>3. ASSUME NEW x \in DOMAIN f \ X, x # o PROVE h[x] = f[x]
  <2>1. x \notin DOMAIN g /\ x # u
    BY <1>1 DEF Grafted
  <2> QED BY <1>3, <2>1 DEF Grafted, GraftDomain
<1>4. ASSUME NEW x \in DOMAIN g, x # u PROVE h[x] = g[x]
  <2>1. x # o
    BY <1>1
  <2> QED BY <1>1, <1>4, <2>1 DEF Grafted, GraftDomain
<1>5. h[o] = Renewed(f[o], ks, c)
  BY <1>1 DEF Grafted, GraftDomain
<1>6. h[u] = Placed(g[u], o, k)
  BY <1>1 DEF Grafted, GraftDomain
<1>7. o \in DOMAIN h /\ o \notin DOMAIN g /\ u # o
  BY <1>1, <1>2 DEF GraftDomain
<1> QED BY <1>2, <1>3, <1>4, <1>5, <1>6, <1>7

LEMMA RenewedFacts ==
  ASSUME NEW D, NEW x \in NodeSet(D), NEW ks, NEW c
  PROVE  /\ Renewed(x, ks, c).type = x.type /\ Renewed(x, ks, c).alloc = x.alloc
         /\ Renewed(x, ks, c).up = x.up /\ Renewed(x, ks, c).key = x.key
         /\ Renewed(x, ks, c).kids = ks /\ Renewed(x, ks, c).cap = c
         /\ \A E : x.up \in E \cup {NULL} /\ ks \in Seq(E) /\ c \in Nat => Renewed(x, ks, c) \in NodeSet(E)
BY DEF Renewed, NodeSet

LEMMA PlacedFacts ==
  ASSUME NEW D, NEW x \in NodeSet(D), NEW o, NEW k
  PROVE  /\ Placed(x, o, k).type = x.type /\ Placed(x, o, k).alloc = x.alloc
         /\ Placed(x, o, k).up = o /\ Placed(x, o, k).key = k
         /\ Placed(x, o, k).kids = x.kids /\ Placed(x, o, k).cap = x.cap
         /\ \A E : o \in E /\ k \in Keys \cup {NoKey} /\ x.kids \in Seq(E) => Placed(x, o, k) \in NodeSet(E)
BY DEF Placed, NodeSet

LEMMA GraftKids ==
  ASSUME NEW f, NEW R, NEW g, NEW h, NEW o, NEW u, NEW k, NEW X, NEW ks, NEW c,
         Grafted(f, R, g, h, o, u, k, X, ks, c)
  PROVE  /\ \A x \in DOMAIN f \ X : x # o => KidSet(h, x) = KidSet(f, x)
         /\ \A x \in DOMAIN g : KidSet(h, x) = KidSet(g, x)
         /\ KidSet(h, o) = (KidSet(f, o) \ X) \cup {u}
<1>0. Linked(f, R) /\ Grounded(f, R) /\ Linked(g, {u}) /\ Grounded(g, {u})
  BY DEF Grafted
<1>1. /\ \A x \in DOMAIN f \ X : x # o => h[x] = f[x]
      /\ \A x \in DOMAIN g : x # u => h[x] = g[x]
      /\ h[o] = Renewed(f[o], ks, c) /\ h[u] = Placed(g[u], o, k)
  BY GraftShape
<1>2. o \in DOMAIN f /\ u \in DOMAIN g /\ Range(ks) = (KidSet(f, o) \ X) \cup {u}
  BY DEF Grafted
<1>3. f[o] \in NodeSet(DOMAIN f) /\ g[u] \in NodeSet(DOMAIN g)
  BY <1>0, <1>2, LinkFacts
<1>4. h[o].kids = ks /\ h[u].kids = g[u].kids
  BY <1>1, <1>3, RenewedFacts, PlacedFacts
<1> QED BY <1>1, <1>2, <1>4 DEF KidSet

LEMMA GraftGrounded ==
  ASSUME NEW f, NEW R, NEW g, NEW h, NEW o, NEW u, NEW k, NEW X, NEW ks, NEW c,
         Grafted(f, R, g, h, o, u, k, X, ks, c)
  PROVE  Grounded(h, R)
<1>0. Linked(f, R) /\ Grounded(f, R) /\ Linked(g, {u}) /\ Grounded(g, {u})
  BY DEF Grafted
<1> SUFFICES ASSUME NEW S \in SUBSET DOMAIN h, R \subseteq S, Closed(h, S)
             PROVE  DOMAIN h \subseteq S
  BY DEF Grounded
<1>1. DOMAIN h = (DOMAIN f \ X) \cup DOMAIN g
  <2>1. DOMAIN h = GraftDomain(f, g, X)
    BY GraftShape
  <2> QED BY <2>1 DEF GraftDomain
<1>2. /\ \A x \in DOMAIN f \ X : x # o => KidSet(h, x) = KidSet(f, x)
      /\ \A x \in DOMAIN g : KidSet(h, x) = KidSet(g, x)
      /\ KidSet(h, o) = (KidSet(f, o) \ X) \cup {u}
  BY GraftKids
<1>3. o \in DOMAIN f /\ u \in DOMAIN g /\ DOMAIN f \cap DOMAIN g = {} /\ CutAt(f, o, X)
  BY DEF Grafted
<1>4. X \subseteq DOMAIN f /\ o \notin X /\ Closed(f, X) /\ X \cap R = {}
  BY <1>0, <1>3, CutFacts
<1>5. /\ \A x \in DOMAIN f : KidSet(f, x) \subseteq DOMAIN f
      /\ \A x \in DOMAIN g : KidSet(g, x) \subseteq DOMAIN g
      /\ R \subseteq DOMAIN f
  BY <1>0, LinkFacts DEF Linked
<1> DEFINE A == (S \cap DOMAIN f) \cup X
           B == S \cap DOMAIN g
<1>6. Closed(f, A)
  <2> SUFFICES ASSUME NEW x \in A, NEW y \in KidSet(f, x) PROVE y \in A
    BY DEF Closed
  <2>1. y \in DOMAIN f
    BY <1>4, <1>5
  <2>2. CASE x \in X
    BY <1>4, <2>2 DEF Closed
  <2>3. CASE x \notin X /\ x # o
    <3>1. x \in S /\ y \in KidSet(h, x)
      BY <1>2, <2>3
    <3> QED BY <2>1, <3>1 DEF Closed
  <2>4. CASE x = o /\ y \notin X
    <3>1. x \in S /\ y \in KidSet(h, o)
      BY <1>2, <1>4, <2>4
    <3> QED BY <2>1, <2>4, <3>1 DEF Closed
  <2> QED BY <2>2, <2>3, <2>4
<1>7. A = DOMAIN f
  BY <1>0, <1>4, <1>5, <1>6 DEF Grounded
<1>8. o \in S /\ DOMAIN f \ X \subseteq S
  BY <1>3, <1>4, <1>7
<1>9. u \in S
  BY <1>2, <1>8 DEF Closed
<1>10. Closed(g, B)
  <2> SUFFICES ASSUME NEW x \in B, NEW y \in KidSet(g, x) PROVE y \in B
    BY DEF Closed
  <2> QED BY <1>2, <1>5 DEF Closed
<1>11. B = DOMAIN g
  BY <1>0, <1>3, <1>9, <1>10 DEF Grounded
<1> QED BY <1>1, <1>8, <1>11

LEMMA GraftLinked ==
  ASSUME NEW f, NEW R, NEW g, NEW h, NEW o, NEW u, NEW k, NEW X, NEW ks, NEW c,
         Grafted(f, R, g, h, o, u, k, X, ks, c)
  PROVE  Linked(h, R)
<1>0. Linked(f, R) /\ Grounded(f, R) /\ Linked(g, {u}) /\ Grounded(g, {u})
  BY DEF Grafted
<1> DEFINE D == DOMAIN f
           G == DOMAIN g
           H == DOMAIN h
<1>a. DOMAIN h = GraftDomain(f, g, X)
  BY GraftShape
<1>1. /\ H = (D \ X) \cup G /\ o \in H /\ o \notin G /\ u # o
      /\ \A x \in D \ X : x # o => h[x] = f[x]
      /\ \A x \in G : x # u => h[x] = g[x]
      /\ h[o] = Renewed(f[o], ks, c) /\ h[u] = Placed(g[u], o, k)
  <2>1. H = (D \ X) \cup G
    BY <1>a DEF GraftDomain
  <2> QED BY <2>1, GraftShape
<1>2. /\ \A x \in D \ X : x # o => KidSet(h, x) = KidSet(f, x)
      /\ \A x \in G : KidSet(h, x) = KidSet(g, x)
      /\ KidSet(h, o) = (KidSet(f, o) \ X) \cup {u}
  BY GraftKids
<1>3. /\ o \in D /\ u \in G /\ D \cap G = {} /\ CutAt(f, o, X)
      /\ k \in Keys \cup {NoKey} /\ c \in Nat /\ ks \in Seq((KidSet(f, o) \ X) \cup {u})
  BY DEF Grafted
<1>4. /\ X \subseteq D /\ o \notin X /\ Closed(f, X) /\ X \cap R = {}
      /\ \A x \in D \ X : x # o => KidSet(f, x) \cap X = {}
  BY <1>0, <1>3, CutFacts
<1>5. /\ \A x \in D : KidSet(f, x) \subseteq D /\ f[x] \in NodeSet(D)
      /\ \A x \in G : KidSet(g, x) \subseteq G /\ g[x] \in NodeSet(G)
      /\ R \subseteq D
  BY <1>0, LinkFacts DEF Linked
<1>6. /\ h[o].type = f[o].type /\ h[o].alloc = f[o].alloc /\ h[o].up = f[o].up /\ h[o].key = f[o].key
      /\ h[o].kids = ks /\ h[o].cap = c
  BY <1>1, <1>3, <1>5, RenewedFacts
<1>7. h[u].up = o
  BY <1>1, <1>3, <1>5, PlacedFacts
<1>8. /\ \A n \in D : f[n].up = NULL <=> n \in R
      /\ \A n \in D : \A x \in KidSet(f, n) : f[x].up = n
      /\ \A n \in D : f[n].up # NULL => n \in KidSet(f, f[n].up)
      /\ \A n \in G : g[n].up = NULL <=> n = u
      /\ \A n \in G : \A x \in KidSet(g, n) : g[x].up = n
      /\ \A n \in G : g[n].up # NULL => n \in KidSet(g, g[n].up)
      /\ NULL \notin D /\ NULL \notin G
  BY <1>0 DEF Linked
<1>9. \A x \in D : f[x].up \in D \cup {NULL}
  BY <1>0, LinkFacts
<1>10. \A x \in G : g[x].up \in G \cup {NULL}
  BY <1>0, LinkFacts
(* No node but o has a kid in X, so that what stays hangs off what stays. *)
<1>11. ASSUME NEW n \in D \ X, f[n].up # NULL
       PROVE  f[n].up \in D \ X
  <2>1. f[n].up \in D /\ n \in KidSet(f, f[n].up)
    BY <1>8, <1>9, <1>11
  <2>2. CASE f[n].up \in X
    BY <1>4, <2>1, <2>2 DEF Closed
  <2> QED BY <2>1, <2>2
<1>12. ASSUME NEW n \in H
       PROVE  /\ h[n] \in NodeSet(H)
              /\ h[n].up = NULL <=> n \in R
              /\ \A x \in KidSet(h, n) : h[x].up = n
              /\ h[n].up # NULL => n \in KidSet(h, h[n].up)
  <2>1. CASE n \in D \ X /\ n # o
    <3>1. h[n] = f[n] /\ KidSet(h, n) = KidSet(f, n) /\ f[n] \in NodeSet(D)
      BY <1>1, <1>2, <1>5, <2>1
    <3>2. KidSet(f, n) \subseteq D \ X
      BY <1>4, <1>5, <2>1
    <3>3. h[n] \in NodeSet(H)
      <4>1. f[n].kids \in Seq(D) /\ \A i \in DOMAIN f[n].kids : f[n].kids[i] \in H
        BY <1>1, <3>1, <3>2 DEF NodeSet, KidSet, Range
      <4>2. f[n].kids \in Seq(H)
        BY <4>1
      <4>3. f[n].up \in H \cup {NULL}
        BY <1>1, <1>11, <2>1
      <4> QED BY <3>1, <4>2, <4>3 DEF NodeSet
    <3>4. ASSUME NEW x \in KidSet(h, n) PROVE h[x].up = n
      <4>1. x \in D \ X /\ f[x].up = n
        BY <1>8, <2>1, <3>1, <3>2
      <4> QED BY <1>1, <1>6, <4>1
    <3>5. ASSUME h[n].up # NULL PROVE n \in KidSet(h, h[n].up)
      <4>1. f[n].up \in D \ X /\ n \in KidSet(f, f[n].up) /\ h[n].up = f[n].up
        BY <1>8, <1>11, <2>1, <3>1, <3>5
      <4> QED BY <1>2, <2>1, <4>1
    <3> QED BY <1>8, <2>1, <3>1, <3>3, <3>4, <3>5
  <2>2. CASE n = o
    <3>1. (KidSet(f, o) \ X) \cup {u} \subseteq H
      BY <1>1, <1>3, <1>5
    <3>2. ks \in Seq(H)
      BY <1>3, <3>1, SeqOver
    <3>3. f[o].up \in H \cup {NULL}
      BY <1>1, <1>3, <1>4, <1>11
    <3>4. h[n] \in NodeSet(H)
      <4>1. f[o] \in NodeSet(D)
        BY <1>3, <1>5
      <4> QED BY <1>1, <1>3, <2>2, <3>2, <3>3, <4>1, RenewedFacts
    <3>5. ASSUME NEW x \in KidSet(h, n) PROVE h[x].up = n
      <4>1. CASE x = u
        BY <1>7, <2>2, <4>1
      <4>2. CASE x # u
        <5>1. x \in KidSet(f, o) /\ x \in D \ X /\ f[x].up = o
          BY <1>2, <1>3, <1>5, <1>8, <2>2, <4>2
        <5> QED BY <1>1, <1>6, <2>2, <5>1
      <4> QED BY <4>1, <4>2
    <3>6. ASSUME h[n].up # NULL PROVE n \in KidSet(h, h[n].up)
      <4>1. f[o].up \in D \ X /\ o \in KidSet(f, f[o].up) /\ h[n].up = f[o].up
        BY <1>3, <1>4, <1>6, <1>8, <1>11, <2>2, <3>6
      <4>2. f[o].up # o
        <5> SUFFICES ASSUME f[o].up = o PROVE FALSE
          OBVIOUS
        <5>1. o \in KidSet(f, o)
          BY <4>1
        <5>2. o \notin Subtree(f, o)
          BY <1>0, <1>3, <5>1, NoCycle
        <5> QED BY <1>3, <1>5, <5>2, SubtreeFacts
      <4> QED BY <1>2, <2>2, <4>1, <4>2
    <3> QED BY <1>3, <1>6, <1>8, <2>2, <3>4, <3>5, <3>6
  <2>3. CASE n \in G
    <3>1. g[n] \in NodeSet(G) /\ KidSet(g, n) \subseteq G
      BY <1>5, <2>3
    <3>2. g[n].kids \in Seq(H)
      <4>1. g[n].kids \in Seq(G) /\ G \subseteq H
        BY <1>1, <3>1 DEF NodeSet
      <4> QED BY <4>1
    <3>3. n \notin R
      BY <1>3, <1>5, <2>3
    <3>4. ASSUME NEW x \in KidSet(h, n) PROVE h[x].up = n
      <4>1. x \in G /\ g[x].up = n /\ n # NULL
        BY <1>2, <1>8, <2>3, <3>1
      <4>2. x # u
        BY <1>8, <4>1
      <4> QED BY <1>1, <4>1, <4>2
    <3>5. CASE n = u
      <4>1. h[n] \in NodeSet(H)
        <5>2. o \in H \cup {NULL} /\ g[u].kids \in Seq(H)
          BY <1>1, <3>2, <3>5
        <5> QED BY <1>1, <1>3, <3>1, <3>5, <5>2, PlacedFacts
      <4>2. o # NULL /\ n \in KidSet(h, o)
        BY <1>2, <1>3, <1>8, <3>5
      <4> QED BY <1>7, <3>3, <3>4, <3>5, <4>1, <4>2
    <3>6. CASE n # u
      <4>1. h[n] = g[n] /\ g[n].up \in G /\ g[n].up # NULL /\ n \in KidSet(g, g[n].up)
        BY <1>1, <1>8, <1>10, <2>3, <3>6
      <4>2. h[n] \in NodeSet(H)
        <5>1. g[n].up \in H
          BY <1>1, <4>1
        <5> QED BY <3>1, <3>2, <4>1, <5>1 DEF NodeSet
      <4>3. n \in KidSet(h, h[n].up)
        BY <1>2, <4>1
      <4> QED BY <3>3, <3>4, <4>1, <4>2, <4>3
    <3> QED BY <3>5, <3>6
  <2> QED BY <1>1, <2>1, <2>2, <2>3
<1>13. h \in [H -> NodeSet(H)]
  <2>1. h = [x \in H |-> h[x]]
    BY DEF Grafted
  <2> QED BY <1>12, <2>1
<1>14. NULL \notin H /\ R \subseteq H
  BY <1>1, <1>4, <1>5, <1>8
<1> QED BY <1>12, <1>13, <1>14 DEF Linked

LEMMA GraftRoomy ==
  ASSUME NEW f, NEW R, NEW g, NEW h, NEW o, NEW u, NEW k, NEW X, NEW ks, NEW c,
         Grafted(f, R, g, h, o, u, k, X, ks, c),
         Roomy(f), Roomy(g), IsInjective(ks), Len(ks) <= c, f[o].type \in {"obj", "arr"},
         f[o].type = "obj" => \A x \in KidSet(f, o) \ X : f[x].key # k
  PROVE  Roomy(h)
<1>0. Linked(f, R) /\ Grounded(f, R) /\ Linked(g, {u}) /\ Grounded(g, {u})
  BY DEF Grafted
<1>a. DOMAIN h = GraftDomain(f, g, X)
  BY GraftShape
<1>1. /\ DOMAIN h = (DOMAIN f \ X) \cup DOMAIN g /\ o \notin DOMAIN g
      /\ \A x \in DOMAIN f \ X : x # o => h[x] = f[x]
      /\ \A x \in DOMAIN g : x # u => h[x] = g[x]
      /\ h[o] = Renewed(f[o], ks, c) /\ h[u] = Placed(g[u], o, k)
  <2>1. DOMAIN h = (DOMAIN f \ X) \cup DOMAIN g
    BY <1>a DEF GraftDomain
  <2> QED BY <2>1, GraftShape
<1>2. /\ \A x \in DOMAIN f \ X : x # o => KidSet(h, x) = KidSet(f, x)
      /\ \A x \in DOMAIN g : KidSet(h, x) = KidSet(g, x)
      /\ KidSet(h, o) = (KidSet(f, o) \ X) \cup {u}
  BY GraftKids
<1>3. /\ o \in DOMAIN f /\ u \in DOMAIN g /\ DOMAIN f \cap DOMAIN g = {} /\ CutAt(f, o, X)
  BY DEF Grafted
<1>4. /\ \A x \in DOMAIN f : KidSet(f, x) \subseteq DOMAIN f /\ f[x] \in NodeSet(DOMAIN f)
      /\ \A x \in DOMAIN g : KidSet(g, x) \subseteq DOMAIN g /\ g[x] \in NodeSet(DOMAIN g)
  BY <1>0, LinkFacts
<1>5. \A x \in DOMAIN f \ X : x # o => KidSet(f, x) \cap X = {}
  BY <1>0, <1>3, CutFacts
<1>6. h[o].type = f[o].type /\ h[o].key = f[o].key /\ h[o].kids = ks /\ h[o].cap = c
  BY <1>1, <1>3, <1>4, RenewedFacts
<1>7. /\ h[u].type = g[u].type /\ h[u].key = k /\ h[u].kids = g[u].kids /\ h[u].cap = g[u].cap
  BY <1>1, <1>3, <1>4, PlacedFacts
<1>8. \A x \in DOMAIN f \ X : h[x].key = f[x].key
  BY <1>1, <1>6
<1> SUFFICES ASSUME NEW n \in DOMAIN h
             PROVE  /\ IsInjective(h[n].kids)
                    /\ Len(h[n].kids) <= h[n].cap
                    /\ h[n].type = "obj" => \A x, y \in KidSet(h, n) : x # y => h[x].key # h[y].key
                    /\ h[n].kids # <<>> => h[n].type \in {"obj", "arr"}
  BY DEF Roomy
<1>9. CASE n \in DOMAIN f \ X /\ n # o
  <2>1. /\ IsInjective(f[n].kids)
        /\ Len(f[n].kids) <= f[n].cap
        /\ f[n].type = "obj" => \A x, y \in KidSet(f, n) : x # y => f[x].key # f[y].key
        /\ f[n].kids # <<>> => f[n].type \in {"obj", "arr"}
    BY <1>9 DEF Roomy
  <2>2. h[n] = f[n] /\ KidSet(h, n) = KidSet(f, n) /\ KidSet(f, n) \subseteq DOMAIN f \ X
    BY <1>1, <1>2, <1>4, <1>5, <1>9
  <2>3. \A x \in KidSet(h, n) : h[x].key = f[x].key
    BY <1>8, <2>2
  <2> QED BY <2>1, <2>2, <2>3
<1>10. CASE n = o
  <2>1. ASSUME f[o].type = "obj", NEW x \in KidSet(h, o), NEW y \in KidSet(h, o), x # y
        PROVE  h[x].key # h[y].key
    <3>1. \A z \in KidSet(f, o) \ X : h[z].key = f[z].key /\ f[z].key # k
      BY <1>3, <1>4, <1>8, <2>1
    <3>2. CASE x = u
      BY <1>2, <1>7, <2>1, <3>1, <3>2
    <3>3. CASE y = u
      BY <1>2, <1>7, <2>1, <3>1, <3>3
    <3>4. CASE x # u /\ y # u
      <4>1. x \in KidSet(f, o) \ X /\ y \in KidSet(f, o) \ X
        BY <1>2, <3>4
      <4>2. f[x].key # f[y].key
        BY <1>3, <2>1, <4>1 DEF Roomy
      <4> QED BY <3>1, <4>1, <4>2
    <3> QED BY <3>2, <3>3, <3>4
  <2> QED BY <1>6, <1>10, <2>1
<1>11. CASE n \in DOMAIN g
  <2>1. /\ IsInjective(g[n].kids)
        /\ Len(g[n].kids) <= g[n].cap
        /\ g[n].type = "obj" => \A x, y \in KidSet(g, n) : x # y => g[x].key # g[y].key
        /\ g[n].kids # <<>> => g[n].type \in {"obj", "arr"}
    BY <1>11 DEF Roomy
  <2>2. /\ h[n].type = g[n].type /\ h[n].kids = g[n].kids /\ h[n].cap = g[n].cap
        /\ KidSet(h, n) = KidSet(g, n)
    BY <1>1, <1>2, <1>7, <1>11
  <2>3. ASSUME NEW x \in KidSet(h, n) PROVE h[x].key = g[x].key
    <3>1. x \in DOMAIN g /\ g[x].up = n /\ n # NULL
      BY <1>0, <1>4, <1>11, <2>2 DEF Linked
    <3>2. x # u
      BY <1>0, <3>1 DEF Linked
    <3> QED BY <1>1, <3>1, <3>2
  <2> QED BY <2>1, <2>2, <2>3
<1> QED BY <1>1, <1>9, <1>10, <1>11

LEMMA GraftForest ==
  ASSUME NEW f, NEW R, NEW g, NEW h, NEW o, NEW u, NEW k, NEW X, NEW ks, NEW c,
         Grafted(f, R, g, h, o, u, k, X, ks, c),
         Roomy(f), Roomy(g), IsInjective(ks), Len(ks) <= c, f[o].type \in {"obj", "arr"},
         f[o].type = "obj" => \A x \in KidSet(f, o) \ X : f[x].key # k
  PROVE  Forest(h, R)
BY GraftLinked, GraftGrounded, GraftRoomy DEF Forest

(***************************************************************************)
(* The blocks of a node are its own.                                       *)
(***************************************************************************)
Owed(f, x)  == Content(f, x) \cup PlaceOf(f, x)
AllOwed(f)  == UNION {Owed(f, x) : x \in DOMAIN f}

LEMMA OwnBlocks ==
  ASSUME NEW f, NEW x
  PROVE  \A b \in Owed(f, x) : b.node = x
<1>1. \A b \in Content(f, x) : \E kind : b = Block(x, kind, f[x].alloc)
  BY DEF Content
<1>2. \A b \in PlaceOf(f, x) : \E kind, a : b = Block(x, kind, a)
  BY DEF PlaceOf
<1>3. \A kind, a : Block(x, kind, a).node = x
  BY DEF Block
<1> QED BY <1>1, <1>2, <1>3 DEF Owed

LEMMA ContentSame ==
  ASSUME NEW f, NEW h, NEW x, f[x].type = h[x].type, f[x].alloc = h[x].alloc,
         f[x].cap > 0 <=> h[x].cap > 0
  PROVE  Content(f, x) = Content(h, x)
BY DEF Content

LEMMA PlaceSame ==
  ASSUME NEW f, NEW h, NEW x, f[x].up = h[x].up, f[x].alloc = h[x].alloc,
         f[x].up # NULL => /\ f[f[x].up].type = h[f[x].up].type
                           /\ f[f[x].up].alloc = h[f[x].up].alloc
  PROVE  PlaceOf(f, x) = PlaceOf(h, x)
BY DEF PlaceOf

LEMMA ContentsAre ==
  ASSUME NEW f, \A n \in DOMAIN f : KidSet(f, n) \subseteq DOMAIN f, NEW n \in DOMAIN f
  PROVE  Contents(f, n) \cup PlaceOf(f, n) = UNION {Owed(f, x) : x \in Subtree(f, n)}
<1>1. n \in Subtree(f, n)
  BY SubtreeFacts
<1> QED BY <1>1 DEF Contents, Owed

LEMMA AllOwedIs ==
  ASSUME NEW f, NEW R, Linked(f, R), Grounded(f, R)
  PROVE  UNION {Contents(f, r) \cup PlaceOf(f, r) : r \in R} = AllOwed(f)
<1>1. \A n \in DOMAIN f : KidSet(f, n) \subseteq DOMAIN f
  BY LinkFacts
<1>2. UNION {Subtree(f, r) : r \in R} = DOMAIN f /\ R \subseteq DOMAIN f
  BY AllHeld DEF Linked
<1>3. \A r \in R : Contents(f, r) \cup PlaceOf(f, r) = UNION {Owed(f, x) : x \in Subtree(f, r)}
  BY <1>1, <1>2, ContentsAre
<1>4. ASSUME NEW b, NEW r \in R, b \in Contents(f, r) \cup PlaceOf(f, r) PROVE b \in AllOwed(f)
  <2>1. PICK x \in Subtree(f, r) : b \in Owed(f, x)
    BY <1>3, <1>4
  <2>2. x \in DOMAIN f
    BY <1>2
  <2> QED BY <2>1, <2>2 DEF AllOwed
<1>5. ASSUME NEW b \in AllOwed(f) PROVE \E r \in R : b \in Contents(f, r) \cup PlaceOf(f, r)
  <2>1. PICK x \in DOMAIN f : b \in Owed(f, x)
    BY DEF AllOwed
  <2>2. PICK r \in R : x \in Subtree(f, r)
    BY <1>2
  <2>3. b \in UNION {Owed(f, y) : y \in Subtree(f, r)}
    BY <2>1, <2>2
  <2> QED BY <1>3, <2>3
<1> QED BY <1>4, <1>5

(* What a node keeps when something is hung on o. *)
LEMMA GraftFields ==
  ASSUME NEW f, NEW R, NEW g, NEW h, NEW o, NEW u, NEW k, NEW X, NEW ks, NEW c,
         Grafted(f, R, g, h, o, u, k, X, ks, c)
  PROVE  /\ \A x \in DOMAIN f \ X : /\ h[x].type = f[x].type /\ h[x].alloc = f[x].alloc
                                    /\ h[x].up = f[x].up
         /\ \A x \in DOMAIN g : /\ h[x].type = g[x].type /\ h[x].alloc = g[x].alloc
                                /\ h[x].cap = g[x].cap
         /\ \A x \in DOMAIN g \ {u} : h[x].up = g[x].up
         /\ h[u].up = o /\ h[o].cap = c
         /\ \A x \in DOMAIN f \ X : f[x].up # NULL => f[x].up \in DOMAIN f \ X
         /\ \A x \in DOMAIN g \ {u} : g[x].up # NULL /\ g[x].up \in DOMAIN g
<1>0. Linked(f, R) /\ Grounded(f, R) /\ Linked(g, {u}) /\ Grounded(g, {u})
  BY DEF Grafted
<1>1. /\ \A x \in DOMAIN f \ X : x # o => h[x] = f[x]
      /\ \A x \in DOMAIN g : x # u => h[x] = g[x]
      /\ h[o] = Renewed(f[o], ks, c) /\ h[u] = Placed(g[u], o, k)
  BY GraftShape
<1>2. o \in DOMAIN f /\ u \in DOMAIN g /\ CutAt(f, o, X)
  BY DEF Grafted
<1>3. f[o] \in NodeSet(DOMAIN f) /\ g[u] \in NodeSet(DOMAIN g)
  BY <1>0, <1>2, LinkFacts
<1>4. /\ h[o].type = f[o].type /\ h[o].alloc = f[o].alloc /\ h[o].up = f[o].up /\ h[o].cap = c
      /\ h[u].type = g[u].type /\ h[u].alloc = g[u].alloc /\ h[u].cap = g[u].cap /\ h[u].up = o
  BY <1>1, <1>3, RenewedFacts, PlacedFacts
<1>5. ASSUME NEW n \in DOMAIN f \ X, f[n].up # NULL
      PROVE  f[n].up \in DOMAIN f \ X
  <2>1. f[n].up \in DOMAIN f /\ n \in KidSet(f, f[n].up)
    BY <1>0, <1>5, LinkFacts DEF Linked
  <2>2. Closed(f, X)
    BY <1>0, <1>2, CutFacts
  <2>3. CASE f[n].up \in X
    BY <2>1, <2>2, <2>3 DEF Closed
  <2> QED BY <2>1, <2>3
<1>6. ASSUME NEW n \in DOMAIN g \ {u}
      PROVE  g[n].up # NULL /\ g[n].up \in DOMAIN g
  <2>1. g[n].up # NULL
    BY <1>0 DEF Linked
  <2> QED BY <1>0, <2>1, LinkFacts
<1> QED BY <1>1, <1>4, <1>5, <1>6

LEMMA WholeTree ==
  ASSUME NEW g, NEW u, Linked(g, {u}), Grounded(g, {u})
  PROVE  Subtree(g, u) = DOMAIN g /\ u \in DOMAIN g
<1>1. UNION {Subtree(g, r) : r \in {u}} = DOMAIN g
  BY AllHeld
<1>2. UNION {Subtree(g, r) : r \in {u}} = Subtree(g, u)
  OBVIOUS
<1>3. u \in DOMAIN g
  BY DEF Linked
<1> QED BY <1>1, <1>2, <1>3

(* The books: what hangs in the place of X is new, the rest as it was. *)
NewPlace(f, o, u) == IF f[o].type = "obj" THEN {Block(u, "key", f[o].alloc)} ELSE {}
OwedBut(f, X)     == UNION {Owed(f, x) : x \in DOMAIN f \ X}

LEMMA GraftOwed ==
  ASSUME NEW f, NEW R, NEW g, NEW h, NEW o, NEW u, NEW k, NEW X, NEW ks, NEW c,
         Grafted(f, R, g, h, o, u, k, X, ks, c), c > 0, f[o].cap > 0
  PROVE  AllOwed(h) = OwedBut(f, X) \cup Contents(g, u) \cup NewPlace(f, o, u)
<1>0. Linked(f, R) /\ Grounded(f, R) /\ Linked(g, {u}) /\ Grounded(g, {u})
  BY DEF Grafted
<1> DEFINE D == DOMAIN f \ X
           G == DOMAIN g
<1>a. DOMAIN h = GraftDomain(f, g, X)
  BY GraftShape
<1>1. /\ DOMAIN h = D \cup G /\ o \notin G /\ u # o /\ \A x \in D : x # o => h[x] = f[x]
  <2>1. DOMAIN h = D \cup G
    BY <1>a DEF GraftDomain
  <2> QED BY <2>1, GraftShape
<1>2. /\ \A x \in D : h[x].type = f[x].type /\ h[x].alloc = f[x].alloc /\ h[x].up = f[x].up
      /\ \A x \in G : h[x].type = g[x].type /\ h[x].alloc = g[x].alloc /\ h[x].cap = g[x].cap
      /\ \A x \in G \ {u} : h[x].up = g[x].up
      /\ h[u].up = o /\ h[o].cap = c
      /\ \A x \in D : f[x].up # NULL => f[x].up \in D
      /\ \A x \in G \ {u} : g[x].up # NULL /\ g[x].up \in G
  BY GraftFields
<1>3. o \in D /\ u \in G /\ NULL # o
  BY <1>0, CutFacts DEF Grafted, Linked
<1>4. ASSUME NEW x \in D PROVE Owed(h, x) = Owed(f, x)
  <2>1. f[x].cap > 0 <=> h[x].cap > 0
    BY <1>1, <1>2
  <2>2. Content(f, x) = Content(h, x)
    BY <1>2, <2>1, ContentSame
  <2>3. PlaceOf(f, x) = PlaceOf(h, x)
    <3>1. f[x].up = h[x].up /\ f[x].alloc = h[x].alloc
      BY <1>2
    <3>2. f[x].up # NULL => f[f[x].up].type = h[f[x].up].type /\ f[f[x].up].alloc = h[f[x].up].alloc
      BY <1>2
    <3> QED BY <3>1, <3>2, PlaceSame
  <2> QED BY <2>2, <2>3 DEF Owed
<1>5. ASSUME NEW x \in G PROVE Content(h, x) = Content(g, x)
  BY <1>2, ContentSame
<1>6. ASSUME NEW x \in G \ {u} PROVE PlaceOf(h, x) = PlaceOf(g, x)
  BY <1>2, PlaceSame
<1>7. PlaceOf(h, u) = NewPlace(f, o, u)
  <2>1. h[u].up = o /\ h[o].type = f[o].type /\ h[o].alloc = f[o].alloc
    BY <1>2, <1>3
  <2> QED BY <1>3, <2>1 DEF PlaceOf, NewPlace
<1>8. Subtree(g, u) = G
  BY <1>0, WholeTree
<1>9. Contents(g, u) = (UNION {Content(g, x) : x \in G}) \cup UNION {PlaceOf(g, x) : x \in G \ {u}}
  BY <1>8 DEF Contents
<1>10. AllOwed(h) = (UNION {Owed(h, x) : x \in D}) \cup UNION {Owed(h, x) : x \in G}
  BY <1>1 DEF AllOwed
<1>11. UNION {Owed(h, x) : x \in D} = OwedBut(f, X)
  BY <1>4 DEF OwedBut
<1>12. UNION {Owed(h, x) : x \in G} = Contents(g, u) \cup NewPlace(f, o, u)
  <2>1. ASSUME NEW b, NEW x \in G, b \in Owed(h, x)
        PROVE  b \in Contents(g, u) \cup NewPlace(f, o, u)
    <3>1. CASE b \in Content(h, x)
      BY <1>5, <1>9, <3>1
    <3>2. CASE b \in PlaceOf(h, x)
      BY <1>6, <1>7, <1>9, <3>2
    <3> QED BY <2>1, <3>1, <3>2 DEF Owed
  <2>2. ASSUME NEW b \in Contents(g, u)
        PROVE  \E x \in G : b \in Owed(h, x)
    <3>1. CASE \E x \in G : b \in Content(g, x)
      BY <1>5, <3>1 DEF Owed
    <3>2. CASE \E x \in G \ {u} : b \in PlaceOf(g, x)
      BY <1>6, <3>2 DEF Owed
    <3> QED BY <1>9, <3>1, <3>2
  <2>3. NewPlace(f, o, u) \subseteq Owed(h, u)
    BY <1>7 DEF Owed
  <2> QED BY <1>3, <2>1, <2>2, <2>3
<1> QED BY <1>10, <1>11, <1>12

(***************************************************************************)
(* Storage that is there, and allocators that go with each other: NULL     *)
(* under a client's allocator has none (map_insert, _da_push).             *)
(***************************************************************************)
Stocked(f) == \A n \in DOMAIN f : f[n].type \in {"arr", "obj"} => f[n].cap > 0
Suits(alloc, x) == alloc = "custom" => x.alloc = "custom" \/ x.type = "null"
Unmixed(f) == \A n \in DOMAIN f : \A x \in KidSet(f, n) : Suits(f[n].alloc, f[x])

LEMMA GraftStocked ==
  ASSUME NEW f, NEW R, NEW g, NEW h, NEW o, NEW u, NEW k, NEW X, NEW ks, NEW c,
         Grafted(f, R, g, h, o, u, k, X, ks, c), c > 0, Stocked(f), Stocked(g)
  PROVE  Stocked(h)
<1>a. DOMAIN h = GraftDomain(f, g, X)
  BY GraftShape
<1>1. DOMAIN h = (DOMAIN f \ X) \cup DOMAIN g
  BY <1>a DEF GraftDomain
<1>2. \A x \in DOMAIN f \ X : x # o => h[x] = f[x]
  BY GraftShape
<1>3. h[o].cap = c /\ \A x \in DOMAIN g : h[x].type = g[x].type /\ h[x].cap = g[x].cap
  BY GraftFields
<1> QED BY <1>1, <1>2, <1>3 DEF Stocked

LEMMA GraftUnmixed ==
  ASSUME NEW f, NEW R, NEW g, NEW h, NEW o, NEW u, NEW k, NEW X, NEW ks, NEW c,
         Grafted(f, R, g, h, o, u, k, X, ks, c), Unmixed(f), Unmixed(g),
         Suits(f[o].alloc, g[u])
  PROVE  Unmixed(h)
<1>0. Linked(f, R) /\ Grounded(f, R) /\ Linked(g, {u}) /\ o \in DOMAIN f /\ u \in DOMAIN g
      /\ CutAt(f, o, X)
  BY DEF Grafted
<1>a. DOMAIN h = GraftDomain(f, g, X)
  BY GraftShape
<1>1. DOMAIN h = (DOMAIN f \ X) \cup DOMAIN g
  BY <1>a DEF GraftDomain
<1>2. /\ \A x \in DOMAIN f \ X : h[x].type = f[x].type /\ h[x].alloc = f[x].alloc
      /\ \A x \in DOMAIN g : h[x].type = g[x].type /\ h[x].alloc = g[x].alloc
  BY GraftFields
<1>3. /\ \A x \in DOMAIN f \ X : x # o => KidSet(h, x) = KidSet(f, x)
      /\ \A x \in DOMAIN g : KidSet(h, x) = KidSet(g, x)
      /\ KidSet(h, o) = (KidSet(f, o) \ X) \cup {u}
  BY GraftKids
<1>4. /\ \A x \in DOMAIN f : KidSet(f, x) \subseteq DOMAIN f
      /\ \A x \in DOMAIN g : KidSet(g, x) \subseteq DOMAIN g
  BY <1>0, LinkFacts
<1>5. o \notin X /\ \A x \in DOMAIN f \ X : x # o => KidSet(f, x) \cap X = {}
  BY <1>0, CutFacts
<1> SUFFICES ASSUME NEW n \in DOMAIN h, NEW x \in KidSet(h, n) PROVE Suits(h[n].alloc, h[x])
  BY DEF Unmixed
<1>6. CASE n \in DOMAIN g
  <2>1. x \in KidSet(g, n) /\ x \in DOMAIN g
    BY <1>3, <1>4, <1>6
  <2>2. Suits(g[n].alloc, g[x])
    BY <1>6, <2>1 DEF Unmixed
  <2> QED BY <1>2, <1>6, <2>1, <2>2 DEF Suits
<1>7. CASE n \in DOMAIN f \ X /\ x # u
  <2>1. x \in KidSet(f, n) /\ x \in DOMAIN f \ X
    BY <1>3, <1>4, <1>5, <1>7
  <2>2. Suits(f[n].alloc, f[x])
    BY <1>7, <2>1 DEF Unmixed
  <2> QED BY <1>2, <1>7, <2>1, <2>2 DEF Suits
<1>8. CASE n \in DOMAIN f \ X /\ x = u
  <2>1. n = o
    <3> SUFFICES ASSUME n # o PROVE FALSE
      OBVIOUS
    <3>1. u \in DOMAIN f
      BY <1>3, <1>4, <1>8
    <3> QED BY <1>0, <3>1 DEF Grafted
  <2> QED BY <1>0, <1>2, <1>8, <2>1 DEF Suits
<1> QED BY <1>1, <1>6, <1>7, <1>8

(***************************************************************************)
(* Trees that come and go: a forest g with the root u beside f, f without  *)
(* the tree of n, and f with more room in o.                               *)
(***************************************************************************)
LEMMA BesideFacts ==
  ASSUME NEW f, NEW R, NEW g, NEW u, Forest(f, R), Forest(g, {u}), DOMAIN f \cap DOMAIN g = {}
  PROVE  /\ DOMAIN Beside(g, f) = DOMAIN f \cup DOMAIN g
         /\ \A x \in DOMAIN f : Beside(g, f)[x] = f[x]
         /\ \A x \in DOMAIN g : Beside(g, f)[x] = g[x]
         /\ \A x \in DOMAIN f : KidSet(Beside(g, f), x) = KidSet(f, x) /\ KidSet(f, x) \subseteq DOMAIN f
         /\ \A x \in DOMAIN g : KidSet(Beside(g, f), x) = KidSet(g, x) /\ KidSet(g, x) \subseteq DOMAIN g
         /\ \A x \in DOMAIN f : f[x].up \in DOMAIN f \cup {NULL}
         /\ \A x \in DOMAIN g : g[x].up \in DOMAIN g \cup {NULL}
<1>1. DOMAIN Beside(g, f) = DOMAIN f \cup DOMAIN g
  BY DEF Beside
<1>2. ASSUME NEW x \in DOMAIN f PROVE Beside(g, f)[x] = f[x]
  BY DEF Beside
<1>3. ASSUME NEW x \in DOMAIN g PROVE Beside(g, f)[x] = g[x]
  BY DEF Beside
<1> QED BY <1>1, <1>2, <1>3, LinkFacts DEF Forest, KidSet

LEMMA BesideForest ==
  ASSUME NEW f, NEW R, NEW g, NEW u, Forest(f, R), Forest(g, {u}), DOMAIN f \cap DOMAIN g = {}
  PROVE  Forest(Beside(g, f), R \cup {u})
<1> DEFINE h == Beside(g, f)
           H == DOMAIN f \cup DOMAIN g
<1>1. /\ DOMAIN h = H
      /\ \A x \in DOMAIN f : h[x] = f[x]
      /\ \A x \in DOMAIN g : h[x] = g[x]
      /\ \A x \in DOMAIN f : KidSet(h, x) = KidSet(f, x) /\ KidSet(f, x) \subseteq DOMAIN f
      /\ \A x \in DOMAIN g : KidSet(h, x) = KidSet(g, x) /\ KidSet(g, x) \subseteq DOMAIN g
      /\ \A x \in DOMAIN f : f[x].up \in DOMAIN f \cup {NULL}
      /\ \A x \in DOMAIN g : g[x].up \in DOMAIN g \cup {NULL}
  BY BesideFacts
<1>2. h = [x \in H |-> h[x]]
  BY DEF Beside
<1> HIDE DEF h
<1>3. /\ Linked(f, R) /\ Grounded(f, R) /\ Roomy(f)
      /\ Linked(g, {u}) /\ Grounded(g, {u}) /\ Roomy(g)
  BY DEF Forest
<1>4. /\ \A n \in DOMAIN f : f[n] \in NodeSet(DOMAIN f)
      /\ \A n \in DOMAIN g : g[n] \in NodeSet(DOMAIN g)
  BY <1>3, LinkFacts
<1>5. R \subseteq DOMAIN f /\ u \in DOMAIN g
  BY <1>3 DEF Linked
<1>6. \A n \in H : h[n] \in NodeSet(H)
  <2>1. ASSUME NEW D, D \subseteq H, NEW z \in NodeSet(D) PROVE z \in NodeSet(H)
    <3>1. z.kids \in Seq(H)
      <4>1. z.kids \in Seq(D)
        BY DEF NodeSet
      <4> QED BY <2>1, <4>1
    <3> QED BY <2>1, <3>1 DEF NodeSet
  <2> QED BY <1>1, <1>4, <2>1
<1>7. ASSUME NEW n \in H
      PROVE  /\ h[n].up = NULL <=> n \in R \cup {u}
             /\ \A x \in KidSet(h, n) : h[x].up = n
             /\ h[n].up # NULL => n \in KidSet(h, h[n].up)
  <2>1. CASE n \in DOMAIN f
    BY <1>1, <1>3, <1>5, <2>1 DEF Linked
  <2>2. CASE n \in DOMAIN g
    BY <1>1, <1>3, <1>5, <2>2 DEF Linked
  <2> QED BY <2>1, <2>2
<1>8. Linked(h, R \cup {u})
  <2>1. h \in [H -> NodeSet(H)]
    BY <1>2, <1>6
  <2>2. NULL \notin H /\ R \cup {u} \subseteq H
    BY <1>3, <1>5 DEF Linked
  <2> QED BY <1>1, <1>7, <2>1, <2>2 DEF Linked
<1>9. Roomy(h)
  <2> SUFFICES ASSUME NEW n \in H
               PROVE  /\ IsInjective(h[n].kids)
                      /\ Len(h[n].kids) <= h[n].cap
                      /\ h[n].type = "obj" => \A x, y \in KidSet(h, n) : x # y => h[x].key # h[y].key
                      /\ h[n].kids # <<>> => h[n].type \in {"obj", "arr"}
    BY <1>1 DEF Roomy
  <2>1. CASE n \in DOMAIN f
    <3>1. h[n] = f[n] /\ \A x \in KidSet(h, n) : x \in KidSet(f, n) /\ h[x] = f[x]
      BY <1>1, <2>1
    <3> QED BY <1>3, <2>1, <3>1 DEF Roomy
  <2>2. CASE n \in DOMAIN g
    <3>1. h[n] = g[n] /\ \A x \in KidSet(h, n) : x \in KidSet(g, n) /\ h[x] = g[x]
      BY <1>1, <2>2
    <3> QED BY <1>3, <2>2, <3>1 DEF Roomy
  <2> QED BY <2>1, <2>2
<1>10. Grounded(h, R \cup {u})
  <2> SUFFICES ASSUME NEW S \in SUBSET H, R \cup {u} \subseteq S, Closed(h, S) PROVE S = H
    BY <1>1 DEF Grounded
  <2>1. Closed(f, S \cap DOMAIN f) /\ Closed(g, S \cap DOMAIN g)
    BY <1>1 DEF Closed
  <2>2. S \cap DOMAIN f = DOMAIN f
    BY <1>3, <1>5, <2>1 DEF Grounded
  <2>3. S \cap DOMAIN g = DOMAIN g
    BY <1>3, <1>5, <2>1 DEF Grounded
  <2> QED BY <2>2, <2>3
<1> QED BY <1>8, <1>9, <1>10 DEF Forest, h

LEMMA BesideOwed ==
  ASSUME NEW f, NEW R, NEW g, NEW u, Forest(f, R), Forest(g, {u}), DOMAIN f \cap DOMAIN g = {}
  PROVE  /\ AllOwed(Beside(g, f)) = AllOwed(f) \cup AllOwed(g)
         /\ Stocked(f) /\ Stocked(g) => Stocked(Beside(g, f))
         /\ Unmixed(f) /\ Unmixed(g) => Unmixed(Beside(g, f))
<1> DEFINE h == Beside(g, f)
<1>1. /\ DOMAIN h = DOMAIN f \cup DOMAIN g
      /\ \A x \in DOMAIN f : h[x] = f[x]
      /\ \A x \in DOMAIN g : h[x] = g[x]
      /\ \A x \in DOMAIN f : KidSet(h, x) = KidSet(f, x) /\ KidSet(f, x) \subseteq DOMAIN f
      /\ \A x \in DOMAIN g : KidSet(h, x) = KidSet(g, x) /\ KidSet(g, x) \subseteq DOMAIN g
      /\ \A x \in DOMAIN f : f[x].up \in DOMAIN f \cup {NULL}
      /\ \A x \in DOMAIN g : g[x].up \in DOMAIN g \cup {NULL}
  BY BesideFacts
<1> HIDE DEF h
<1>2. ASSUME NEW x \in DOMAIN f PROVE Owed(h, x) = Owed(f, x)
  <2>1. h[x] = f[x] /\ (f[x].up # NULL => h[f[x].up] = f[f[x].up])
    BY <1>1
  <2>2. Content(f, x) = Content(h, x)
    BY <2>1, ContentSame
  <2>3. PlaceOf(f, x) = PlaceOf(h, x)
    BY <2>1, PlaceSame
  <2> QED BY <2>2, <2>3 DEF Owed
<1>3. ASSUME NEW x \in DOMAIN g PROVE Owed(h, x) = Owed(g, x)
  <2>1. h[x] = g[x] /\ (g[x].up # NULL => h[g[x].up] = g[g[x].up])
    BY <1>1
  <2>2. Content(g, x) = Content(h, x)
    BY <2>1, ContentSame
  <2>3. PlaceOf(g, x) = PlaceOf(h, x)
    BY <2>1, PlaceSame
  <2> QED BY <2>2, <2>3 DEF Owed
<1>4. AllOwed(h) = (UNION {Owed(h, x) : x \in DOMAIN f}) \cup UNION {Owed(h, x) : x \in DOMAIN g}
  BY <1>1 DEF AllOwed
<1>5. UNION {Owed(h, x) : x \in DOMAIN f} = AllOwed(f)
  BY <1>2 DEF AllOwed
<1>6. UNION {Owed(h, x) : x \in DOMAIN g} = AllOwed(g)
  BY <1>3 DEF AllOwed
<1>7. Stocked(f) /\ Stocked(g) => Stocked(h)
  BY <1>1 DEF Stocked
<1>8. Unmixed(f) /\ Unmixed(g) => Unmixed(h)
  <2> SUFFICES ASSUME Unmixed(f), Unmixed(g), NEW n \in DOMAIN h, NEW x \in KidSet(h, n)
               PROVE  Suits(h[n].alloc, h[x])
    BY DEF Unmixed
  <2>1. CASE n \in DOMAIN f
    <3>1. h[n] = f[n] /\ x \in KidSet(f, n) /\ h[x] = f[x]
      BY <1>1, <2>1
    <3> QED BY <2>1, <3>1 DEF Unmixed
  <2>2. CASE n \in DOMAIN g
    <3>1. h[n] = g[n] /\ x \in KidSet(g, n) /\ h[x] = g[x]
      BY <1>1, <2>2
    <3> QED BY <2>2, <3>1 DEF Unmixed
  <2> QED BY <1>1, <2>1, <2>2
<1> QED BY <1>4, <1>5, <1>6, <1>7, <1>8 DEF h

Less(f, n)       == [x \in DOMAIN f \ Subtree(f, n) |-> f[x]]
Roomier(f, o, c) == [f EXCEPT ![o].cap = c]

LEMMA LessForest ==
  ASSUME NEW f, NEW R, Forest(f, R), NEW n \in R
  PROVE  /\ Forest(Less(f, n), R \ {n})
         /\ AllOwed(Less(f, n)) = OwedBut(f, Subtree(f, n))
         /\ Stocked(f) => Stocked(Less(f, n))
         /\ Unmixed(f) => Unmixed(Less(f, n))
<1> DEFINE T == Subtree(f, n)
           H == DOMAIN f \ T
           h == Less(f, n)
<1>1. /\ DOMAIN h = H
      /\ \A x \in H : h[x] = f[x]
      /\ \A x \in H : KidSet(h, x) = KidSet(f, x)
  BY DEF KidSet, Less
<1>2. h = [x \in H |-> h[x]]
  BY DEF Less
<1> HIDE DEF h
<1>3. Linked(f, R) /\ Grounded(f, R) /\ Roomy(f)
  BY DEF Forest
<1>4. /\ \A x \in DOMAIN f : KidSet(f, x) \subseteq DOMAIN f /\ f[x].up \in DOMAIN f \cup {NULL}
                             /\ f[x] \in NodeSet(DOMAIN f)
      /\ n \in DOMAIN f /\ f[n].up = NULL
  BY <1>3, LinkFacts DEF Linked
<1>5. T \subseteq DOMAIN f /\ n \in T /\ Closed(f, T)
  BY <1>4, SubtreeFacts
<1>6. ASSUME NEW x \in T PROVE x = n \/ (f[x].up \in T /\ f[x].up # NULL)
  BY <1>3, <1>4, SubtreeUp
<1> HIDE DEF T
<1>7. ASSUME NEW x \in H, f[x].up # NULL PROVE f[x].up \in H
  <2>1. f[x].up \in DOMAIN f /\ x \in KidSet(f, f[x].up)
    BY <1>3, <1>4, <1>7 DEF Linked
  <2> QED BY <1>5, <2>1 DEF Closed
<1>8. ASSUME NEW x \in H, NEW y \in KidSet(f, x) PROVE y \in H /\ f[y].up = x
  <2>1. y \in DOMAIN f /\ f[y].up = x /\ x # NULL
    BY <1>3, <1>4 DEF Linked
  <2>2. CASE y \in T
    BY <1>4, <1>6, <2>1, <2>2
  <2> QED BY <2>1, <2>2
<1>9. R \ {n} \subseteq H
  <2> SUFFICES ASSUME NEW r \in R, r # n, r \in T PROVE FALSE
    BY <1>3 DEF Linked
  <2>1. f[r].up = NULL
    BY <1>3 DEF Linked
  <2> QED BY <1>6, <2>1
<1>10. Linked(h, R \ {n})
  <2>1. ASSUME NEW x \in H PROVE h[x] \in NodeSet(H)
    <3>1. f[x].kids \in Seq(DOMAIN f) /\ \A i \in DOMAIN f[x].kids : f[x].kids[i] \in H
      BY <1>4, <1>8 DEF NodeSet, KidSet, Range
    <3>2. f[x].kids \in Seq(H)
      BY <3>1
    <3>3. f[x].up \in H \cup {NULL}
      BY <1>7
    <3> QED BY <1>1, <1>4, <3>2, <3>3 DEF NodeSet
  <2>2. h \in [H -> NodeSet(H)]
    BY <1>2, <2>1
  <2>3. ASSUME NEW x \in H PROVE h[x].up = NULL <=> x \in R \ {n}
    BY <1>1, <1>3, <1>5 DEF Linked
  <2>4. ASSUME NEW x \in H, NEW y \in KidSet(h, x) PROVE h[y].up = x
    BY <1>1, <1>8
  <2>5. ASSUME NEW x \in H, h[x].up # NULL PROVE x \in KidSet(h, h[x].up)
    <3>1. f[x].up \in H /\ x \in KidSet(f, f[x].up) /\ h[x].up = f[x].up
      BY <1>1, <1>3, <1>7, <2>5 DEF Linked
    <3> QED BY <1>1, <3>1
  <2>6. NULL \notin H
    BY <1>3 DEF Linked
  <2> QED BY <1>1, <1>9, <2>2, <2>3, <2>4, <2>5, <2>6 DEF Linked
<1>11. Roomy(h)
  <2> SUFFICES ASSUME NEW x \in H
               PROVE  /\ IsInjective(h[x].kids)
                      /\ Len(h[x].kids) <= h[x].cap
                      /\ h[x].type = "obj" => \A y, z \in KidSet(h, x) : y # z => h[y].key # h[z].key
                      /\ h[x].kids # <<>> => h[x].type \in {"obj", "arr"}
    BY <1>1 DEF Roomy
  <2>1. h[x] = f[x] /\ x \in DOMAIN f /\ \A y \in KidSet(h, x) : y \in KidSet(f, x) /\ h[y] = f[y]
    BY <1>1, <1>8
  <2>2. h[x].type = "obj" => \A y, z \in KidSet(h, x) : y # z => h[y].key # h[z].key
    BY <1>3, <2>1 DEF Roomy
  <2> QED BY <1>3, <2>1, <2>2 DEF Roomy
<1>12. Grounded(h, R \ {n})
  <2> SUFFICES ASSUME NEW S \in SUBSET H, R \ {n} \subseteq S, Closed(h, S) PROVE S = H
    BY <1>1 DEF Grounded
  <2>1. Closed(f, S \cup T)
    BY <1>1, <1>5 DEF Closed
  <2>2. S \cup T = DOMAIN f
    BY <1>3, <1>5, <2>1 DEF Grounded
  <2> QED BY <2>2
<1>13. ASSUME NEW x \in H PROVE Owed(h, x) = Owed(f, x)
  <2>1. h[x] = f[x] /\ (f[x].up # NULL => h[f[x].up] = f[f[x].up])
    BY <1>1, <1>7
  <2>2. Content(f, x) = Content(h, x)
    BY <2>1, ContentSame
  <2>3. PlaceOf(f, x) = PlaceOf(h, x)
    BY <2>1, PlaceSame
  <2> QED BY <2>2, <2>3 DEF Owed
<1>14. AllOwed(h) = OwedBut(f, T)
  BY <1>1, <1>13 DEF AllOwed, OwedBut
<1>15. Stocked(f) => Stocked(h)
  BY <1>1 DEF Stocked
<1>16. Unmixed(f) => Unmixed(h)
  BY <1>1, <1>8 DEF Unmixed
<1> QED BY <1>10, <1>11, <1>12, <1>14, <1>15, <1>16 DEF Forest, T, h

LEMMA RoomierForest ==
  ASSUME NEW f, NEW R, Forest(f, R), NEW o \in DOMAIN f, NEW c \in Nat, f[o].cap > 0, f[o].cap <= c
  PROVE  /\ Forest(Roomier(f, o, c), R)
         /\ DOMAIN Roomier(f, o, c) = DOMAIN f
         /\ AllOwed(Roomier(f, o, c)) = AllOwed(f)
         /\ Stocked(f) => Stocked(Roomier(f, o, c))
         /\ Unmixed(f) => Unmixed(Roomier(f, o, c))
<1> DEFINE h == Roomier(f, o, c)
<1>1. Linked(f, R) /\ Grounded(f, R) /\ Roomy(f) /\ f[o] \in NodeSet(DOMAIN f)
  BY LinkFacts DEF Forest
<1>2. /\ DOMAIN h = DOMAIN f
      /\ \A x \in DOMAIN f : x # o => h[x] = f[x]
      /\ h[o] = [f[o] EXCEPT !.cap = c]
  BY <1>1 DEF Linked, Roomier
<1>b. h = [x \in DOMAIN f |-> h[x]]
  BY <1>1 DEF Linked, Roomier
<1> HIDE DEF h
<1>3. /\ h[o].type = f[o].type /\ h[o].alloc = f[o].alloc /\ h[o].up = f[o].up
      /\ h[o].key = f[o].key /\ h[o].kids = f[o].kids /\ h[o].cap = c
      /\ h[o] \in NodeSet(DOMAIN f)
  BY <1>1, <1>2 DEF NodeSet
<1>a. c > 0
  <2>1. f[o].cap \in Nat
    BY <1>1 DEF NodeSet
  <2> QED BY <2>1
<1>4. \A x \in DOMAIN f : /\ h[x].type = f[x].type /\ h[x].alloc = f[x].alloc /\ h[x].up = f[x].up
                          /\ h[x].key = f[x].key /\ h[x].kids = f[x].kids /\ (f[x].cap > 0 <=> h[x].cap > 0)
                          /\ KidSet(h, x) = KidSet(f, x)
  BY <1>2, <1>3, <1>a DEF KidSet
<1>5. Linked(h, R)
  <2>1. h \in [DOMAIN f -> NodeSet(DOMAIN f)]
    BY <1>1, <1>2, <1>3, <1>b DEF Linked
  <2>2. \A n \in DOMAIN f : KidSet(f, n) \subseteq DOMAIN f /\ f[n].up \in DOMAIN f \cup {NULL}
    BY <1>1, LinkFacts
  <2>3. ASSUME NEW n \in DOMAIN f
        PROVE  /\ h[n].up = NULL <=> n \in R
               /\ \A x \in KidSet(h, n) : h[x].up = n
               /\ h[n].up # NULL => n \in KidSet(h, h[n].up)
    BY <1>1, <1>4, <2>2 DEF Linked
  <2> QED BY <1>1, <1>2, <2>1, <2>3 DEF Linked
<1>6. Grounded(h, R)
  BY <1>1, <1>2, <1>4 DEF Grounded, Closed
<1>7. Roomy(h)
  <2>1. \A x \in DOMAIN f : KidSet(f, x) \subseteq DOMAIN f /\ Len(f[x].kids) \in Nat
    BY <1>1, LinkFacts
  <2>2. ASSUME NEW x \in DOMAIN f PROVE Len(h[x].kids) <= h[x].cap
    <3>1. CASE x = o
      <4>1. Len(f[o].kids) <= f[o].cap /\ f[o].cap \in Nat
        BY <1>1 DEF Roomy, NodeSet
      <4> QED BY <1>3, <2>1, <3>1, <4>1
    <3>2. CASE x # o
      BY <1>1, <1>2, <3>2 DEF Roomy
    <3> QED BY <3>1, <3>2
  <2>3. ASSUME NEW x \in DOMAIN f
        PROVE  /\ IsInjective(h[x].kids)
               /\ h[x].type = "obj" => \A y, z \in KidSet(h, x) : y # z => h[y].key # h[z].key
               /\ h[x].kids # <<>> => h[x].type \in {"obj", "arr"}
    BY <1>1, <1>4, <2>1 DEF Roomy
  <2> QED BY <1>2, <2>2, <2>3 DEF Roomy
<1>8. ASSUME NEW x \in DOMAIN f PROVE Owed(h, x) = Owed(f, x)
  <2>1. Content(f, x) = Content(h, x)
    BY <1>4, ContentSame
  <2>2. f[x].up \in DOMAIN f \cup {NULL}
    BY <1>1, LinkFacts
  <2>3. PlaceOf(f, x) = PlaceOf(h, x)
    <3>1. f[x].up # NULL => f[f[x].up].type = h[f[x].up].type /\ f[f[x].up].alloc = h[f[x].up].alloc
      BY <1>4, <2>2
    <3> QED BY <1>4, <3>1, PlaceSame
  <2> QED BY <2>1, <2>3 DEF Owed
<1>9. AllOwed(h) = AllOwed(f)
  BY <1>2, <1>8 DEF AllOwed
<1>10. Stocked(f) => Stocked(h)
  BY <1>2, <1>4 DEF Stocked
<1>11. Unmixed(f) => Unmixed(h)
  <2>1. \A x \in DOMAIN f : KidSet(f, x) \subseteq DOMAIN f
    BY <1>1, LinkFacts
  <2> QED BY <1>2, <1>4, <2>1 DEF Unmixed, Suits
<1> QED BY <1>2, <1>5, <1>6, <1>7, <1>9, <1>10, <1>11 DEF Forest, h

(***************************************************************************)
(* A tree looks the same when its nodes and its blocks are the same.       *)
(***************************************************************************)
LEMMA SubtreeSame ==
  ASSUME NEW f, NEW h, NEW s \in DOMAIN f,
         \A x \in DOMAIN f : KidSet(f, x) \subseteq DOMAIN f,
         \A x \in DOMAIN h : KidSet(h, x) \subseteq DOMAIN h,
         \A x \in Subtree(f, s) : x \in DOMAIN h /\ h[x] = f[x]
  PROVE  Subtree(h, s) = Subtree(f, s)
<1> DEFINE T == Subtree(f, s)
<1>1. /\ T \subseteq DOMAIN f /\ s \in T /\ Closed(f, T)
      /\ \A S \in SUBSET DOMAIN f : s \in S /\ Closed(f, S) => T \subseteq S
  BY SubtreeFacts
<1>2. s \in DOMAIN h
  BY <1>1
<1>3. /\ s \in Subtree(h, s) /\ Closed(h, Subtree(h, s))
      /\ \A S \in SUBSET DOMAIN h : s \in S /\ Closed(h, S) => Subtree(h, s) \subseteq S
  BY <1>2, SubtreeFacts
<1>4. T \subseteq DOMAIN h /\ \A x \in T : KidSet(h, x) = KidSet(f, x)
  BY DEF KidSet
<1> HIDE DEF T
<1>5. Closed(h, T)
  BY <1>1, <1>4 DEF Closed
<1>6. Subtree(h, s) \subseteq T
  BY <1>1, <1>3, <1>4, <1>5
<1>7. Closed(f, Subtree(h, s))
  BY <1>3, <1>4, <1>6 DEF Closed
<1>8. T \subseteq Subtree(h, s)
  BY <1>1, <1>3, <1>6, <1>7
<1> QED BY <1>6, <1>8 DEF T

ShownIn(f, l, r) == [tree |-> Restrict(f, Subtree(f, r)), sound |-> Contents(f, r) \subseteq l]

LEMMA ShownSame ==
  ASSUME NEW f, NEW R, Linked(f, R), NEW h, NEW s \in DOMAIN f, NEW l, NEW m,
         \A x \in DOMAIN h : KidSet(h, x) \subseteq DOMAIN h,
         \A x \in Subtree(f, s) : x \in DOMAIN h /\ h[x] = f[x],
         \A b : b.node \in Subtree(f, s) => (b \in l <=> b \in m)
  PROVE  ShownIn(h, m, s) = ShownIn(f, l, s)
<1> DEFINE T == Subtree(f, s)
<1>1. \A x \in DOMAIN f : KidSet(f, x) \subseteq DOMAIN f
  BY LinkFacts
<1>2. Subtree(h, s) = T
  BY <1>1, SubtreeSame
<1>3. Restrict(h, T) = Restrict(f, T)
  BY DEF Restrict
<1>4. \A x \in T : Content(h, x) = Content(f, x)
  BY ContentSame
<1>5. ASSUME NEW x \in T \ {s} PROVE PlaceOf(h, x) = PlaceOf(f, x)
  <2>1. f[x].up \in T
    BY SubtreeUp
  <2> QED BY <2>1, PlaceSame
<1>6. Contents(h, s) = (UNION {Content(h, x) : x \in T}) \cup UNION {PlaceOf(h, x) : x \in T \ {s}}
  BY <1>2 DEF Contents
<1>7. Contents(f, s) = (UNION {Content(f, x) : x \in T}) \cup UNION {PlaceOf(f, x) : x \in T \ {s}}
  BY DEF Contents
<1>8. Contents(h, s) = Contents(f, s)
  <2>1. UNION {Content(h, x) : x \in T} = UNION {Content(f, x) : x \in T}
    BY <1>4
  <2>2. UNION {PlaceOf(h, x) : x \in T \ {s}} = UNION {PlaceOf(f, x) : x \in T \ {s}}
    BY <1>5
  <2> QED BY <1>6, <1>7, <2>1, <2>2
<1>9. ASSUME NEW b \in Contents(f, s) PROVE b.node \in T
  <2>1. PICK x \in T : b \in Owed(f, x)
    BY <1>7 DEF Owed
  <2>2. b.node = x
    BY <2>1, OwnBlocks
  <2> QED BY <2>2
<1>10. Contents(h, s) \subseteq m <=> Contents(f, s) \subseteq l
  BY <1>8, <1>9
<1> QED BY <1>2, <1>3, <1>10 DEF ShownIn

(* What a step on the tree of r0 leaves alone. *)
OneTree(f, R, h, l, m) ==
  \E r0 : \A s \in R : s # r0 /\ s \in DOMAIN h => ShownIn(h, m, s) = ShownIn(f, l, s)

LEMMA OthersStay ==
  ASSUME NEW f, NEW R, Linked(f, R), Grounded(f, R), NEW h, NEW l, NEW m, NEW n \in DOMAIN f,
         \A x \in DOMAIN h : KidSet(h, x) \subseteq DOMAIN h,
         \A r \in R : n \in Subtree(f, r) =>
            /\ \A x \in DOMAIN f \ Subtree(f, r) : x \in DOMAIN h /\ h[x] = f[x]
            /\ \A b : b.node \in DOMAIN f \ Subtree(f, r) => (b \in l <=> b \in m)
  PROVE  OneTree(f, R, h, l, m)
<1>1. UNION {Subtree(f, r) : r \in R} = DOMAIN f /\ R \subseteq DOMAIN f
  BY AllHeld DEF Linked
<1>2. PICK r \in R : n \in Subtree(f, r)
  BY <1>1
<1>3. /\ \A x \in DOMAIN f \ Subtree(f, r) : x \in DOMAIN h /\ h[x] = f[x]
      /\ \A b : b.node \in DOMAIN f \ Subtree(f, r) => (b \in l <=> b \in m)
  BY <1>2
<1>4. ASSUME NEW s \in R, s # r PROVE ShownIn(h, m, s) = ShownIn(f, l, s)
  <2>1. s \in DOMAIN f /\ \A x \in Subtree(f, s) : x \in DOMAIN f
    BY <1>1
  <2>2. \A x \in Subtree(f, s) : x \in DOMAIN f \ Subtree(f, r)
    BY <1>4, <2>1, RootsApart
  <2>3. \A x \in Subtree(f, s) : x \in DOMAIN h /\ h[x] = f[x]
    BY <1>3, <2>2
  <2>4. \A b : b.node \in Subtree(f, s) => (b \in l <=> b \in m)
    BY <1>3, <2>2
  <2> QED BY <2>1, <2>3, <2>4, ShownSame
<1> QED BY <1>4 DEF OneTree

(***************************************************************************)
(* The books: R the roots of f, l the blocks taken, why what has failed.   *)
(***************************************************************************)
Books(f, R, l, why) ==
  /\ Forest(f, R) /\ DOMAIN f \subseteq Ids /\ Unmixed(f)
  /\ why = "none" => Stocked(f) /\ l = AllOwed(f)
  /\ why # "grow" => AllOwed(f) \subseteq l
Kept == Books(nodes, roots, live, failed)
Misplaced(f) == \E n \in DOMAIN f : /\ f[n].up # NULL /\ f[n].alloc = "custom"
                                    /\ f[f[n].up].alloc = "malloc"

(* A new value that is about to be stored in a node with the allocator.    *)
WellBuilt(w, alloc) ==
  /\ w.failed # "none" => failed = "none"
  /\ w.fatal => w.failed # "none" \/ failed # "none" \/ Misplaced(nodes)
  /\ ~ w.fatal =>
       /\ DOMAIN w.forest \subseteq Free /\ Forest(w.forest, {w.root}) /\ Unmixed(w.forest)
       /\ Suits(alloc, w.forest[w.root])
       /\ Contents(w.forest, w.root) \subseteq w.blocks
       /\ \A b \in w.blocks : b.node \in Free
       /\ w.failed = "none" => w.blocks = Contents(w.forest, w.root)
       /\ w.failed = "none" /\ failed = "none" => Stocked(w.forest)

LEMMA OwedSplit ==
  ASSUME NEW f, NEW X, X \subseteq DOMAIN f
  PROVE  /\ AllOwed(f) \ UNION {Owed(f, x) : x \in X} = OwedBut(f, X)
         /\ OwedBut(f, X) \subseteq AllOwed(f)
         /\ \A b \in OwedBut(f, X) : b.node \in DOMAIN f \ X
         /\ \A b \in AllOwed(f) : b.node \in DOMAIN f
<1>1. \A x \in DOMAIN f : \A b \in Owed(f, x) : b.node = x
  BY OwnBlocks
<1> QED BY <1>1 DEF AllOwed, OwedBut

LEMMA ContentsOwed ==
  ASSUME NEW f, \A n \in DOMAIN f : KidSet(f, n) \subseteq DOMAIN f, NEW n \in DOMAIN f
  PROVE  /\ Contents(f, n) \subseteq AllOwed(f)
         /\ Content(f, n) \subseteq AllOwed(f)
         /\ \A b \in Contents(f, n) : b.node \in Subtree(f, n)
<1>1. /\ Contents(f, n) \cup PlaceOf(f, n) = UNION {Owed(f, x) : x \in Subtree(f, n)}
      /\ Subtree(f, n) \subseteq DOMAIN f
  BY ContentsAre, SubtreeFacts
<1>2. ASSUME NEW b \in Contents(f, n) PROVE b \in AllOwed(f) /\ b.node \in Subtree(f, n)
  <2>1. PICK x \in Subtree(f, n) : b \in Owed(f, x)
    BY <1>1
  <2>2. b.node = x /\ x \in DOMAIN f
    BY <1>1, <2>1, OwnBlocks
  <2> QED BY <2>1, <2>2 DEF AllOwed
<1>3. Content(f, n) \subseteq AllOwed(f)
  BY DEF AllOwed, Owed
<1> QED BY <1>2, <1>3

(* As long as nothing has failed, nothing a builder reads is missing. *)
LEMMA NothingMissing ==
  ASSUME Kept, failed = "none", NEW n \in DOMAIN nodes
  PROVE  /\ Sound(n) /\ Content(nodes, n) \subseteq live
         /\ ~ NoStorage(n, {"arr"}) /\ ~ NoStorage(n, {"arr", "obj"})
         /\ nodes[n].type \in {"arr", "obj"} => nodes[n].cap # 0
<1>1. /\ Linked(nodes, roots) /\ Stocked(nodes) /\ live = AllOwed(nodes)
  BY DEF Kept, Books, Forest
<1>2. /\ \A x \in DOMAIN nodes : KidSet(nodes, x) \subseteq DOMAIN nodes
      /\ \A x \in DOMAIN nodes : nodes[x].up \in DOMAIN nodes \cup {NULL}
  BY <1>1, LinkFacts
<1>3. Contents(nodes, n) \subseteq live /\ \A x \in DOMAIN nodes : Content(nodes, x) \subseteq live
  BY <1>1, <1>2, ContentsOwed
<1>4. Sound(n)
  BY <1>2, <1>3 DEF Sound
<1>5. Subtree(nodes, n) \subseteq DOMAIN nodes
  BY <1>2, SubtreeFacts
<1>6. \A x \in DOMAIN nodes : nodes[x].type \in {"arr", "obj"} => nodes[x].cap > 0
  BY <1>1 DEF Stocked
<1>7. ~ NoStorage(n, {"arr"}) /\ ~ NoStorage(n, {"arr", "obj"})
  BY <1>5, <1>6 DEF NoStorage
<1> QED BY <1>3, <1>4, <1>6, <1>7

(* The kids of o outside a kid's tree are its other kids. *)
LEMMA OtherKids ==
  ASSUME NEW f, NEW R, Linked(f, R), Grounded(f, R), NEW o \in DOMAIN f, NEW e \in KidSet(f, o)
  PROVE  KidSet(f, o) \ Subtree(f, e) = KidSet(f, o) \ {e}
<1>1. o \notin Subtree(f, e) /\ e \in DOMAIN f
  BY NoCycle
<1>2. e \in Subtree(f, e)
  BY <1>1, LinkFacts, SubtreeFacts
<1>3. ASSUME NEW y \in KidSet(f, o), y # e PROVE y \notin Subtree(f, e)
  <2>1. f[y].up = o
    BY DEF Linked
  <2> QED BY <1>1, <1>3, <2>1, SubtreeUp
<1> QED BY <1>2, <1>3

(* What map_insert and _da_push make of the trees, said in two ways. *)
BesideForm(f, g, o, u, k, X, ks, c) ==
  Beside([g EXCEPT ![u].up = o, ![u].key = k],
         [[x \in DOMAIN f \ X |-> f[x]] EXCEPT ![o].kids = ks, ![o].cap = c])
GraftForm(f, g, o, u, k, X, ks, c) ==
  [x \in GraftDomain(f, g, X) |->
     CASE x = u                        -> Placed(g[u], o, k)
       [] x \in DOMAIN g /\ x # u      -> g[x]
       [] x = o                        -> Renewed(f[o], ks, c)
       [] x \notin DOMAIN g \cup {o}   -> f[x]]

LEMMA StoredIs ==
  ASSUME NEW f, NEW R, Linked(f, R), NEW g, NEW u, Linked(g, {u}), DOMAIN f \cap DOMAIN g = {},
         NEW o, NEW X, o \in DOMAIN f \ X, NEW k, NEW ks, NEW c
  PROVE  BesideForm(f, g, o, u, k, X, ks, c) = GraftForm(f, g, o, u, k, X, ks, c)
<1> DEFINE G == [g EXCEPT ![u].up = o, ![u].key = k]
           E == [[x \in DOMAIN f \ X |-> f[x]] EXCEPT ![o].kids = ks, ![o].cap = c]
<1>1. u \in DOMAIN g
  BY DEF Linked
<1>2. DOMAIN G = DOMAIN g /\ G[u] = Placed(g[u], o, k) /\ \A x \in DOMAIN g : x # u => G[x] = g[x]
  BY <1>1 DEF Placed, Linked
<1>3. DOMAIN E = DOMAIN f \ X /\ E[o] = Renewed(f[o], ks, c) /\ \A x \in DOMAIN f \ X : x # o => E[x] = f[x]
  BY DEF Renewed
<1> HIDE DEF G, E
<1>4. Beside(G, E) = [x \in (DOMAIN E) \cup (DOMAIN G) |-> IF x \in DOMAIN G THEN G[x] ELSE E[x]]
  BY DEF Beside
<1>5. (DOMAIN E) \cup (DOMAIN G) = GraftDomain(f, g, X)
  BY <1>2, <1>3 DEF GraftDomain
<1>6. ASSUME NEW x \in GraftDomain(f, g, X)
      PROVE  (IF x \in DOMAIN G THEN G[x] ELSE E[x])
             = CASE x = u                        -> Placed(g[u], o, k)
                 [] x \in DOMAIN g /\ x # u      -> g[x]
                 [] x = o                        -> Renewed(f[o], ks, c)
                 [] x \notin DOMAIN g \cup {o}   -> f[x]
  BY <1>1, <1>2, <1>3 DEF GraftDomain
<1>7. Beside(G, E) = [x \in GraftDomain(f, g, X) |->
             CASE x = u                        -> Placed(g[u], o, k)
               [] x \in DOMAIN g /\ x # u      -> g[x]
               [] x = o                        -> Renewed(f[o], ks, c)
               [] x \notin DOMAIN g \cup {o}   -> f[x]]
  BY <1>4, <1>5, <1>6
<1> QED BY <1>7 DEF G, E, BesideForm, GraftForm

(* A value is hung on o in the place of X: the books stay straight, and no *)
(* other tree changes.                                                     *)
Hung(w, o, k, X, ks, c, h, m, why) ==
  /\ o \in DOMAIN nodes /\ nodes[o].type \in {"obj", "arr"} /\ nodes[o].cap # 0
  /\ k \in Keys \cup {NoKey} /\ CutAt(nodes, o, X)
  /\ ks \in Seq((KidSet(nodes, o) \ X) \cup {w.root})
  /\ Range(ks) = (KidSet(nodes, o) \ X) \cup {w.root}
  /\ IsInjective(ks) /\ c \in Nat /\ c > 0 /\ Len(ks) <= c
  /\ nodes[o].type = "obj" => \A x \in KidSet(nodes, o) \ X : nodes[x].key # k
  /\ h = Beside(Stored(w, o, k), [[x \in DOMAIN nodes \ X |-> nodes[x]] EXCEPT ![o].kids = ks, ![o].cap = c])
  /\ m = ((live \ UNION {Owed(nodes, x) : x \in X}) \cup w.blocks) \cup NewPlace(nodes, o, w.root)
  /\ why = IF failed = "none" THEN w.failed ELSE failed

LEMMA HungIs ==
  ASSUME Kept, NEW w, NEW o, NEW k, NEW X, NEW ks, NEW c, NEW h, NEW m, NEW why,
         Hung(w, o, k, X, ks, c, h, m, why), WellBuilt(w, nodes[o].alloc), ~ w.fatal
  PROVE  Grafted(nodes, roots, w.forest, h, o, w.root, k, X, ks, c)
<1> DEFINE g == w.forest
           u == w.root
<1>1. /\ Linked(nodes, roots) /\ Grounded(nodes, roots)
      /\ Linked(g, {u}) /\ Grounded(g, {u})
      /\ DOMAIN g \subseteq Free
  BY DEF Kept, Books, Forest, WellBuilt
<1>2. DOMAIN nodes \cap DOMAIN g = {} /\ u \in DOMAIN g
  BY <1>1 DEF Free, Linked
<1>3. /\ o \in DOMAIN nodes /\ k \in Keys \cup {NoKey} /\ CutAt(nodes, o, X)
      /\ ks \in Seq((KidSet(nodes, o) \ X) \cup {u})
      /\ Range(ks) = (KidSet(nodes, o) \ X) \cup {u}
      /\ c \in Nat
  BY DEF Hung
<1>4. o \in DOMAIN nodes \ X
  BY <1>1, <1>3, CutFacts
<1>5. h = BesideForm(nodes, g, o, u, k, X, ks, c)
  BY DEF Hung, Stored, BesideForm
<1> HIDE DEF g, u
<1>6. h = GraftForm(nodes, g, o, u, k, X, ks, c)
  BY <1>1, <1>2, <1>4, <1>5, StoredIs
<1>7. Grafted(nodes, roots, g, h, o, u, k, X, ks, c)
  BY <1>1, <1>2, <1>3, <1>6 DEF Grafted, GraftForm
<1> QED BY <1>7 DEF g, u

LEMMA HungBooks ==
  ASSUME Kept, NEW w, NEW o, NEW k, NEW X, NEW ks, NEW c, NEW h, NEW m, NEW why,
         Hung(w, o, k, X, ks, c, h, m, why), WellBuilt(w, nodes[o].alloc), ~ w.fatal
  PROVE  Books(h, roots, m, why)
<1> DEFINE g == w.forest
           u == w.root
           new == Contents(g, u) \cup NewPlace(nodes, o, u)
<1>1. /\ Forest(nodes, roots) /\ DOMAIN nodes \subseteq Ids /\ Unmixed(nodes)
      /\ failed = "none" => Stocked(nodes) /\ live = AllOwed(nodes)
      /\ failed # "grow" => AllOwed(nodes) \subseteq live
  BY DEF Kept, Books
<1>2. /\ DOMAIN g \subseteq Free /\ Forest(g, {u}) /\ Unmixed(g)
      /\ Suits(nodes[o].alloc, g[u])
      /\ Contents(g, u) \subseteq w.blocks
      /\ \A b \in w.blocks : b.node \in Free
      /\ w.failed = "none" => w.blocks = Contents(g, u)
      /\ w.failed = "none" /\ failed = "none" => Stocked(g)
      /\ w.failed # "none" => failed = "none"
  BY DEF WellBuilt
<1>3. Grafted(nodes, roots, g, h, o, u, k, X, ks, c)
  BY HungIs
<1>4. /\ o \in DOMAIN nodes /\ nodes[o].type \in {"obj", "arr"} /\ nodes[o].cap # 0
      /\ IsInjective(ks) /\ c \in Nat /\ c > 0 /\ Len(ks) <= c /\ CutAt(nodes, o, X)
      /\ nodes[o].type = "obj" => \A x \in KidSet(nodes, o) \ X : nodes[x].key # k
      /\ m = ((live \ UNION {Owed(nodes, x) : x \in X}) \cup w.blocks) \cup NewPlace(nodes, o, u)
      /\ why = IF failed = "none" THEN w.failed ELSE failed
  BY DEF Hung
<1> HIDE DEF g, u
<1>5. Linked(nodes, roots) /\ Grounded(nodes, roots) /\ Roomy(nodes) /\ Roomy(g)
  BY <1>1, <1>2 DEF Forest
<1>6. nodes[o].cap > 0
  <2>1. nodes[o].cap \in Nat
    BY <1>4, <1>5, LinkFacts DEF NodeSet
  <2> QED BY <1>4, <2>1
<1>7. X \subseteq DOMAIN nodes
  BY <1>4, <1>5, CutFacts
<1>8. Forest(h, roots)
  BY <1>3, <1>4, <1>5, GraftForest
<1>9. DOMAIN h \subseteq Ids
  <2>1. DOMAIN h = GraftDomain(nodes, g, X)
    BY <1>3, GraftShape
  <2> QED BY <1>1, <1>2, <2>1 DEF GraftDomain, Free
<1>10. Unmixed(h)
  BY <1>1, <1>2, <1>3, GraftUnmixed
<1>11. AllOwed(h) = OwedBut(nodes, X) \cup Contents(g, u) \cup NewPlace(nodes, o, u)
  BY <1>3, <1>4, <1>6, GraftOwed
<1>12. AllOwed(nodes) \ UNION {Owed(nodes, x) : x \in X} = OwedBut(nodes, X)
  BY <1>7, OwedSplit
<1>13. why = "none" => Stocked(h) /\ m = AllOwed(h)
  <2> SUFFICES ASSUME why = "none" PROVE Stocked(h) /\ m = AllOwed(h)
    OBVIOUS
  <2>1. w.failed = "none" /\ failed = "none"
    BY <1>4
  <2>2. Stocked(h)
    BY <1>1, <1>2, <1>3, <1>4, <2>1, GraftStocked
  <2>3. m = AllOwed(h)
    BY <1>1, <1>2, <1>4, <1>11, <1>12, <2>1
  <2> QED BY <2>2, <2>3
<1>14. why # "grow" => AllOwed(h) \subseteq m
  <2> SUFFICES ASSUME why # "grow" PROVE AllOwed(h) \subseteq m
    OBVIOUS
  <2>1. failed # "grow"
    BY <1>2, <1>4
  <2> QED BY <1>1, <1>2, <1>4, <1>11, <1>12, <2>1
<1> QED BY <1>8, <1>9, <1>10, <1>13, <1>14 DEF Books

LEMMA HungAlone ==
  ASSUME Kept, NEW w, NEW o, NEW k, NEW X, NEW ks, NEW c, NEW h, NEW m, NEW why,
         Hung(w, o, k, X, ks, c, h, m, why), WellBuilt(w, nodes[o].alloc), ~ w.fatal
  PROVE  OneTree(nodes, roots, h, live, m)
<1> DEFINE g == w.forest
           u == w.root
<1>1. /\ Linked(nodes, roots) /\ Grounded(nodes, roots) /\ Linked(g, {u})
      /\ DOMAIN g \subseteq Free
      /\ \A b \in w.blocks : b.node \in Free
  BY DEF Kept, Books, Forest, WellBuilt
<1>2. Grafted(nodes, roots, g, h, o, u, k, X, ks, c)
  BY HungIs
<1>3. /\ o \in DOMAIN nodes /\ CutAt(nodes, o, X)
      /\ m = ((live \ UNION {Owed(nodes, x) : x \in X}) \cup w.blocks) \cup NewPlace(nodes, o, u)
  BY DEF Hung
<1> HIDE DEF g, u
<1>4. Linked(h, roots)
  BY <1>2, GraftLinked
<1>5. /\ \A x \in DOMAIN h : KidSet(h, x) \subseteq DOMAIN h
      /\ \A x \in DOMAIN nodes : KidSet(nodes, x) \subseteq DOMAIN nodes
  BY <1>1, <1>4, LinkFacts
<1>6. DOMAIN h = GraftDomain(nodes, g, X)
  BY <1>2, GraftShape
<1>7. \A x \in DOMAIN nodes \ X : x # o => x \in DOMAIN h /\ h[x] = nodes[x]
  <2>1. DOMAIN nodes \ X \subseteq DOMAIN h
    BY <1>6 DEF GraftDomain
  <2>2. \A x \in DOMAIN nodes \ X : x # o => h[x] = nodes[x]
    BY <1>2, GraftShape
  <2> QED BY <2>1, <2>2
<1>8. u \in Free /\ Free \cap DOMAIN nodes = {}
  BY <1>1 DEF Linked, Free
<1>9. \A b \in NewPlace(nodes, o, u) : b.node = u
  BY DEF NewPlace, Block
<1>10. \A x \in DOMAIN nodes : \A b \in Owed(nodes, x) : b.node = x
  BY OwnBlocks
<1>11. X \subseteq DOMAIN nodes
  BY <1>1, <1>3, CutFacts
<1>12. ASSUME NEW r \in roots, o \in Subtree(nodes, r)
       PROVE  /\ \A x \in DOMAIN nodes \ Subtree(nodes, r) : x \in DOMAIN h /\ h[x] = nodes[x]
              /\ \A b : b.node \in DOMAIN nodes \ Subtree(nodes, r) => (b \in live <=> b \in m)
  <2>1. r \in DOMAIN nodes
    BY <1>1 DEF Linked
  <2>2. X \subseteq Subtree(nodes, r)
    <3>1. CASE X = {}
      BY <3>1
    <3>2. CASE \E e \in KidSet(nodes, o) : X = Subtree(nodes, e)
      <4>1. PICK e \in KidSet(nodes, o) : X = Subtree(nodes, e)
        BY <3>2
      <4>2. e \in Subtree(nodes, r)
        BY <1>5, <1>12, <2>1, SubtreeFacts DEF Closed
      <4> QED BY <1>5, <2>1, <4>1, <4>2, SubtreeBelow
    <3> QED BY <1>3, <3>1, <3>2 DEF CutAt
  <2>3. \A x \in DOMAIN nodes \ Subtree(nodes, r) : x \in DOMAIN h /\ h[x] = nodes[x]
    BY <1>7, <1>12, <2>2
  <2>4. ASSUME NEW b, b.node \in DOMAIN nodes \ Subtree(nodes, r) PROVE b \in live <=> b \in m
    <3>1. b \notin w.blocks /\ b \notin NewPlace(nodes, o, u)
      BY <1>1, <1>8, <1>9, <2>4
    <3>2. b \notin UNION {Owed(nodes, x) : x \in X}
      BY <1>10, <1>11, <2>2, <2>4
    <3> QED BY <1>3, <3>1, <3>2
  <2> QED BY <2>3, <2>4
<1> QED BY <1>1, <1>3, <1>5, <1>12, OthersStay

(***************************************************************************)
(* What every builder does: the books stay straight, one tree changes at   *)
(* most, and the process goes down only for a reason.                      *)
(***************************************************************************)
Stepped ==
  /\ Kept'
  /\ OneTree(nodes, roots, nodes', live, live')
  /\ UNCHANGED threads /\ pc' \in {"build", "crashed"}
  /\ pc' = "crashed" => failed' # "none" \/ Misplaced(nodes')

LEMMA CrashStep ==
  ASSUME Kept, NEW why, Crash(why),
         why # "none" \/ failed # "none" \/ Misplaced(nodes)
  PROVE  Stepped
<1>1. /\ pc' = "crashed" /\ failed' = IF failed = "none" THEN why ELSE failed
      /\ nodes' = nodes /\ live' = live /\ roots' = roots /\ UNCHANGED threads
  BY DEF Crash, After, tree
<1>2. /\ Forest(nodes, roots) /\ DOMAIN nodes \subseteq Ids /\ Unmixed(nodes)
      /\ failed = "none" => Stocked(nodes) /\ live = AllOwed(nodes)
      /\ failed # "grow" => AllOwed(nodes) \subseteq live
  BY DEF Kept, Books
<1>3. failed' = "none" => failed = "none"
  BY <1>1
<1>4. failed' # "grow" => AllOwed(nodes) \subseteq live
  BY <1>1, <1>2
<1>5. Books(nodes, roots, live, failed')
  BY <1>2, <1>3, <1>4 DEF Books
<1>6. Kept'
  BY <1>1, <1>5 DEF Kept
<1>7. OneTree(nodes, roots, nodes', live, live')
  BY <1>1 DEF OneTree
<1>8. failed' # "none" \/ Misplaced(nodes')
  BY <1>1
<1> QED BY <1>1, <1>6, <1>7, <1>8 DEF Stepped

LEMMA HungStep ==
  ASSUME Kept, pc = "build", NEW w, NEW o, NEW k, NEW X, NEW ks, NEW c,
         Hung(w, o, k, X, ks, c, nodes', live', failed'),
         WellBuilt(w, nodes[o].alloc), ~ w.fatal, UNCHANGED <<roots, threads, pc>>
  PROVE  Stepped
<1>1. Books(nodes', roots, live', failed')
  BY HungBooks
<1>2. Kept'
  BY <1>1 DEF Kept
<1>3. OneTree(nodes, roots, nodes', live, live')
  BY HungAlone
<1> QED BY <1>2, <1>3 DEF Stepped

(* hm_set fails, and the value stays where it is or was not there. *)
LEMMA CannotSetStep ==
  ASSUME Kept, pc = "build", NEW w, NEW o \in DOMAIN nodes, NEW k,
         WellBuilt(w, nodes[o].alloc), ~ w.fatal, nodes[o].cap # 0,
         CannotSet(o, k, w)
  PROVE  Stepped
<1>1. /\ Forest(nodes, roots) /\ DOMAIN nodes \subseteq Ids /\ Unmixed(nodes)
      /\ failed = "none" => Stocked(nodes) /\ live = AllOwed(nodes)
      /\ Linked(nodes, roots) /\ Grounded(nodes, roots)
  BY DEF Kept, Books, Forest
<1>2. failed = "none" /\ live' = (live \ OldContents(o, k)) \cup w.blocks
  BY DEF CannotSet, MayFail
<1>3. \A b \in w.blocks : b.node \in Free
  BY DEF WellBuilt
<1>4. \A x \in DOMAIN nodes : KidSet(nodes, x) \subseteq DOMAIN nodes
  BY <1>1, LinkFacts
<1>5. \A b \in OldContents(o, k) : \E e \in KidSet(nodes, o) : b.node \in Subtree(nodes, e)
  <2> SUFFICES ASSUME NEW e \in KidAt(nodes, o, k), NEW b \in Contents(nodes, e)
               PROVE  e \in KidSet(nodes, o) /\ b.node \in Subtree(nodes, e)
    BY DEF OldContents
  <2>1. e \in KidSet(nodes, o) /\ e \in DOMAIN nodes
    BY <1>4 DEF KidAt
  <2> QED BY <1>4, <2>1, ContentsOwed
(* Blocks of other trees are not touched. *)
<1>6. ASSUME NEW r \in roots, o \in Subtree(nodes, r),
             NEW b, b.node \in DOMAIN nodes \ Subtree(nodes, r)
      PROVE  b \in live <=> b \in live'
  <2>1. b \notin w.blocks
    BY <1>3, <1>6 DEF Free
  <2>2. b \notin OldContents(o, k)
    <3> SUFFICES ASSUME NEW e \in KidSet(nodes, o), b.node \in Subtree(nodes, e) PROVE FALSE
      BY <1>5
    <3>1. r \in DOMAIN nodes
      BY <1>1 DEF Linked
    <3>2. e \in Subtree(nodes, r)
      BY <1>4, <1>6, <3>1, SubtreeFacts DEF Closed
    <3>3. Subtree(nodes, e) \subseteq Subtree(nodes, r)
      BY <1>4, <3>1, <3>2, SubtreeBelow
    <3> QED BY <1>6, <3>3
  <2> QED BY <1>2, <2>1, <2>2
<1>7. CASE UNCHANGED nodes /\ Settle("grow")
  <2>1. /\ nodes' = nodes /\ roots' = roots /\ failed' = "grow" /\ UNCHANGED <<threads, pc>>
    BY <1>2, <1>7 DEF Settle, After
  <2>2. Books(nodes, roots, live', failed')
    BY <1>1, <2>1 DEF Books
  <2>3. Kept'
    BY <2>1, <2>2 DEF Kept
  <2>4. OneTree(nodes, roots, nodes', live, live')
    BY <1>1, <1>4, <1>6, <2>1, OthersStay
  <2> QED BY <2>1, <2>3, <2>4 DEF Stepped
<1>8. CASE /\ KidAt(nodes, o, k) = {}
           /\ nodes' = [nodes EXCEPT ![o].cap = GrownCap(o)]
           /\ Settle("key")
  <2>1. /\ roots' = roots /\ failed' = "key" /\ UNCHANGED <<threads, pc>>
    BY <1>2, <1>8 DEF Settle, After
  <2>2. nodes' = Roomier(nodes, o, GrownCap(o))
    BY <1>8 DEF Roomier
  <2>3. GrownCap(o) \in Nat /\ nodes[o].cap > 0 /\ nodes[o].cap <= GrownCap(o)
    <3>1. nodes[o].cap \in Nat
      BY <1>1, LinkFacts DEF NodeSet
    <3> QED BY <3>1 DEF GrownCap
  <2>4. /\ Forest(nodes', roots) /\ DOMAIN nodes' = DOMAIN nodes
        /\ AllOwed(nodes') = AllOwed(nodes) /\ Unmixed(nodes')
    BY <1>1, <2>2, <2>3, RoomierForest
  <2>5. OldContents(o, k) = {}
    BY <1>8 DEF OldContents
  <2>6. AllOwed(nodes') \subseteq live'
    BY <1>1, <1>2, <2>4, <2>5
  <2>7. Books(nodes', roots, live', failed')
    BY <1>1, <2>1, <2>4, <2>6 DEF Books
  <2>8. Kept'
    BY <2>1, <2>7 DEF Kept
  <2>9. \A x \in DOMAIN nodes' : KidSet(nodes', x) \subseteq DOMAIN nodes'
    BY <2>4, LinkFacts DEF Forest
  <2>10. \A x \in DOMAIN nodes : x # o => x \in DOMAIN nodes' /\ nodes'[x] = nodes[x]
    BY <1>8, <2>4
  <2>11. OneTree(nodes, roots, nodes', live, live')
    BY <1>1, <1>6, <2>9, <2>10, OthersStay
  <2> QED BY <2>1, <2>8, <2>11 DEF Stepped
<1> QED BY <1>7, <1>8 DEF CannotSet

(* Room for one more in a table and in an array. *)
LEMMA GrownRoom ==
  ASSUME Kept, NEW o \in DOMAIN nodes, nodes[o].cap # 0
  PROVE  /\ GrownCap(o) \in Nat /\ GrownCap(o) > 0 /\ Len(nodes[o].kids) + 1 <= GrownCap(o)
         /\ StoreCap(o) \in Nat /\ StoreCap(o) > 0 /\ Len(nodes[o].kids) + 1 <= StoreCap(o)
         /\ Len(nodes[o].kids) <= GrownCap(o)
         /\ nodes[o].kids \in Seq(KidSet(nodes, o)) /\ IsInjective(nodes[o].kids)
<1>1. Linked(nodes, roots) /\ Roomy(nodes)
  BY DEF Kept, Books, Forest
<1>2. nodes[o].cap \in Nat /\ Len(nodes[o].kids) \in Nat /\ Len(nodes[o].kids) <= nodes[o].cap
  BY <1>1, LinkFacts DEF NodeSet, Roomy
<1>3. /\ GrownCap(o) \in Nat /\ GrownCap(o) > 0 /\ Len(nodes[o].kids) + 1 <= GrownCap(o)
      /\ Len(nodes[o].kids) <= GrownCap(o)
  BY <1>2 DEF GrownCap, Full
<1>4. /\ StoreCap(o) \in Nat /\ StoreCap(o) > 0 /\ Len(nodes[o].kids) + 1 <= StoreCap(o)
  BY <1>2 DEF StoreCap, FullStore
<1>5. nodes[o].kids \in Seq(DOMAIN nodes) /\ IsInjective(nodes[o].kids)
  BY <1>1, LinkFacts DEF NodeSet, Roomy
<1>6. nodes[o].kids \in Seq(KidSet(nodes, o))
  BY <1>5 DEF KidSet, Range
<1> QED BY <1>3, <1>4, <1>5, <1>6

LEMMA KidAtFacts ==
  ASSUME Kept, NEW o \in DOMAIN nodes, nodes[o].type = "obj", NEW k, NEW e \in KidAt(nodes, o, k)
  PROVE  /\ KidAt(nodes, o, k) = {e} /\ e \in KidSet(nodes, o) /\ e \in DOMAIN nodes
         /\ \A x \in KidSet(nodes, o) \ {e} : nodes[x].key # k
<1>1. Linked(nodes, roots) /\ Roomy(nodes)
  BY DEF Kept, Books, Forest
<1>2. e \in KidSet(nodes, o) /\ nodes[e].key = k
  BY DEF KidAt
<1>3. e \in DOMAIN nodes
  BY <1>1, <1>2, LinkFacts
<1>4. \A x \in KidSet(nodes, o) \ {e} : nodes[x].key # k
  BY <1>1, <1>2 DEF Roomy
<1>5. KidAt(nodes, o, k) = {e}
  BY <1>2, <1>4 DEF KidAt
<1> QED BY <1>2, <1>3, <1>4, <1>5

(* The kids with one of them replaced, or with one more. *)
SwapSet(S, e, u)  == (S \ {e}) \cup {u}
Swapped(ks, e, u) == [i \in DOMAIN ks |-> IF ks[i] = e THEN u ELSE ks[i]]

LEMMA SwappedFacts ==
  ASSUME NEW S, NEW ks \in Seq(S), Range(ks) = S, IsInjective(ks), NEW e \in S, NEW u, u \notin S
  PROVE  /\ Swapped(ks, e, u) \in Seq(SwapSet(S, e, u))
         /\ Range(Swapped(ks, e, u)) = SwapSet(S, e, u)
         /\ IsInjective(Swapped(ks, e, u))
         /\ Len(Swapped(ks, e, u)) = Len(ks)
<1> DEFINE t == Swapped(ks, e, u)
           Q == SwapSet(S, e, u)
<1>a. Q = (S \ {e}) \cup {u}
  BY DEF SwapSet
<1>1. Len(ks) \in Nat /\ DOMAIN ks = 1..Len(ks) /\ \A i \in 1..Len(ks) : ks[i] \in S
  BY SeqElements
<1>2. DOMAIN t = 1..Len(ks) /\ \A i \in 1..Len(ks) : t[i] = IF ks[i] = e THEN u ELSE ks[i]
  BY <1>1 DEF Swapped
<1>3. t \in [1..Len(ks) -> Q]
  BY <1>1, <1>a DEF Swapped
<1> HIDE DEF t, Q
<1>4. t \in Seq(Q) /\ Len(t) = Len(ks)
  BY <1>1, <1>3
<1>5. Range(t) = Q
  <2>1. ASSUME NEW y \in S PROVE \E i \in 1..Len(ks) : ks[i] = y
    BY <1>1 DEF Range
  <2>2. ASSUME NEW y \in Q PROVE \E i \in 1..Len(ks) : t[i] = y
    <3>1. CASE y = u
      BY <1>2, <1>a, <2>1, <3>1
    <3>2. CASE y \in S \ {e}
      BY <1>2, <1>a, <2>1, <3>2
    <3> QED BY <1>a, <2>2, <3>1, <3>2
  <2> QED BY <1>2, <1>3, <2>2 DEF Range
<1>6. IsInjective(t)
  <2>1. \A i, j \in 1..Len(ks) : ks[i] = ks[j] => i = j
    BY <1>1 DEF IsInjective
  <2> QED BY <1>1, <1>2, <2>1 DEF IsInjective
<1> QED BY <1>4, <1>5, <1>6 DEF t, Q

LEMMA AppendFacts ==
  ASSUME NEW S, NEW ks \in Seq(S), Range(ks) = S, IsInjective(ks), NEW u, u \notin S
  PROVE  /\ Append(ks, u) \in Seq(S \cup {u})
         /\ Range(Append(ks, u)) = S \cup {u}
         /\ IsInjective(Append(ks, u))
         /\ Len(Append(ks, u)) = Len(ks) + 1
<1> DEFINE t == Append(ks, u)
<1>1. Len(ks) \in Nat /\ DOMAIN ks = 1..Len(ks) /\ \A i \in 1..Len(ks) : ks[i] \in S
  BY SeqElements
<1>2. /\ t \in Seq(S \cup {u}) /\ Len(t) = Len(ks) + 1 /\ DOMAIN t = 1..Len(ks) + 1
      /\ \A i \in 1..Len(ks) : t[i] = ks[i]
      /\ t[Len(ks) + 1] = u
  BY <1>1
<1> HIDE DEF t
<1>3. Range(t) = S \cup {u}
  <2>1. ASSUME NEW y \in S PROVE \E i \in 1..Len(ks) : ks[i] = y
    BY <1>1 DEF Range
  <2>2. ASSUME NEW y \in S \cup {u} PROVE \E i \in 1..Len(ks) + 1 : t[i] = y
    <3>1. CASE y = u
      BY <1>1, <1>2, <3>1
    <3>2. CASE y \in S
      BY <1>1, <1>2, <2>1, <3>2
    <3> QED BY <3>1, <3>2
  <2>3. ASSUME NEW i \in 1..Len(ks) + 1 PROVE t[i] \in S \cup {u}
    BY <1>1, <1>2
  <2>4. DOMAIN t = 1..Len(ks) + 1
    BY <1>2
  <2> DEFINE D == 1..Len(ks) + 1
             Z == S \cup {u}
  <2>5. (\A y \in Z : \E i \in D : t[i] = y) /\ (\A i \in D : t[i] \in Z) /\ DOMAIN t = D
    BY <2>2, <2>3, <2>4
  <2> HIDE DEF D, Z
  <2>6. Range(t) = Z
    BY <2>5 DEF Range
  <2> QED BY <2>6 DEF Z
<1>4. IsInjective(t)
  <2>1. \A i, j \in 1..Len(ks) : ks[i] = ks[j] => i = j
    BY <1>1 DEF IsInjective
  <2>2. ASSUME NEW i \in 1..Len(ks) + 1, NEW j \in 1..Len(ks) + 1, t[i] = t[j] PROVE i = j
    <3>1. CASE i \in 1..Len(ks) /\ j \in 1..Len(ks)
      BY <1>2, <2>1, <2>2, <3>1
    <3>2. CASE i \in 1..Len(ks) /\ j = Len(ks) + 1
      BY <1>1, <1>2, <2>2, <3>2
    <3>3. CASE i = Len(ks) + 1 /\ j \in 1..Len(ks)
      BY <1>1, <1>2, <2>2, <3>3
    <3> QED BY <1>1, <3>1, <3>2, <3>3
  <2> QED BY <1>2, <2>2 DEF IsInjective
<1> QED BY <1>2, <1>3, <1>4 DEF t

LEMMA OverwriteStep ==
  ASSUME Kept, pc = "build", NEW w, NEW o \in DOMAIN nodes, NEW k \in Keys, nodes[o].type = "obj",
         WellBuilt(w, nodes[o].alloc), ~ w.fatal, nodes[o].cap # 0,
         NEW e \in KidAt(nodes, o, k), Overwrite(o, k, w, e)
  PROVE  Stepped
<1> DEFINE X  == Subtree(nodes, e)
           ks == Swapped(nodes[o].kids, e, w.root)
           c  == GrownCap(o)
           Q  == SwapSet(KidSet(nodes, o), e, w.root)
<1>1. /\ Linked(nodes, roots) /\ Grounded(nodes, roots)
      /\ DOMAIN w.forest \subseteq Free /\ w.root \in DOMAIN w.forest
  BY DEF Kept, Books, Forest, WellBuilt, Linked
<1>2. \A x \in DOMAIN nodes : KidSet(nodes, x) \subseteq DOMAIN nodes
  BY <1>1, LinkFacts
<1>3. /\ KidAt(nodes, o, k) = {e} /\ e \in KidSet(nodes, o) /\ e \in DOMAIN nodes
      /\ \A x \in KidSet(nodes, o) \ {e} : nodes[x].key # k
  BY KidAtFacts
<1>4. KidSet(nodes, o) \ X = KidSet(nodes, o) \ {e}
  BY <1>1, <1>3, OtherKids
<1>5. /\ c \in Nat /\ c > 0 /\ Len(nodes[o].kids) <= c
      /\ nodes[o].kids \in Seq(KidSet(nodes, o)) /\ IsInjective(nodes[o].kids)
  BY GrownRoom
<1>6. w.root \notin KidSet(nodes, o)
  BY <1>1, <1>2 DEF Free
<1>7. Range(nodes[o].kids) = KidSet(nodes, o)
  BY DEF KidSet
<1>a. Q = (KidSet(nodes, o) \ {e}) \cup {w.root}
  BY DEF SwapSet
<1>8. /\ ks \in Seq(Q) /\ Range(ks) = Q /\ IsInjective(ks) /\ Len(ks) = Len(nodes[o].kids)
  BY <1>3, <1>5, <1>6, <1>7, SwappedFacts
<1> HIDE DEF Q
<1>9. CutAt(nodes, o, X)
  BY <1>3 DEF CutAt
<1>10. nodes' = Beside(Stored(w, o, k),
                       [[x \in DOMAIN nodes \ X |-> nodes[x]] EXCEPT ![o].kids = ks, ![o].cap = c])
  <2>1. Restrict(nodes, DOMAIN nodes \ X) = [x \in DOMAIN nodes \ X |-> nodes[x]]
    BY DEF Restrict
  <2> QED BY <2>1 DEF Overwrite, Swapped
<1>11. OldContents(o, k) \cup PlaceOf(nodes, e) = UNION {Owed(nodes, x) : x \in X}
  <2>1. OldContents(o, k) = Contents(nodes, e)
    BY <1>3 DEF OldContents
  <2> QED BY <1>2, <1>3, <2>1, ContentsAre
<1>12. KeyBlock(o, w) = NewPlace(nodes, o, w.root)
  BY DEF KeyBlock, NewPlace
<1>13. live' = ((live \ UNION {Owed(nodes, x) : x \in X}) \cup w.blocks) \cup NewPlace(nodes, o, w.root)
  <2>1. live' = ((live \ (OldContents(o, k) \cup PlaceOf(nodes, e))) \cup w.blocks) \cup KeyBlock(o, w)
    BY DEF Overwrite
  <2> QED BY <1>11, <1>12, <2>1
<1>14. failed' = (IF failed = "none" THEN w.failed ELSE failed) /\ UNCHANGED <<roots, threads, pc>>
  BY DEF Overwrite, Settle, After
<1> HIDE DEF X, ks, c
<1>15. Hung(w, o, k, X, ks, c, nodes', live', failed')
  <2>1. k \in Keys \cup {NoKey} /\ nodes[o].type \in {"obj", "arr"} /\ Len(ks) <= c
    BY <1>5, <1>8
  <2>2. /\ ks \in Seq((KidSet(nodes, o) \ X) \cup {w.root})
        /\ Range(ks) = (KidSet(nodes, o) \ X) \cup {w.root}
        /\ \A x \in KidSet(nodes, o) \ X : nodes[x].key # k
    BY <1>3, <1>4, <1>8, <1>a
  <2> QED BY <1>5, <1>8, <1>9, <1>10, <1>13, <1>14, <2>1, <2>2 DEF Hung
<1> QED BY <1>14, <1>15, HungStep

(* One more, in a table or in an array. *)
LEMMA OneMore ==
  ASSUME Kept, pc = "build", NEW w, NEW o \in DOMAIN nodes, NEW k \in Keys \cup {NoKey}, NEW c \in Nat,
         WellBuilt(w, nodes[o].alloc), ~ w.fatal, nodes[o].cap # 0, nodes[o].type \in {"obj", "arr"},
         nodes[o].type = "obj" => KidAt(nodes, o, k) = {},
         Len(nodes[o].kids) + 1 <= c, c > 0,
         nodes' = Beside(Stored(w, o, k), [nodes EXCEPT ![o].kids = Append(@, w.root), ![o].cap = c]),
         live' = live \cup w.blocks \cup NewPlace(nodes, o, w.root),
         Settle(w.failed)
  PROVE  Stepped
<1> DEFINE ks == Append(nodes[o].kids, w.root)
<1>1. /\ Linked(nodes, roots) /\ Grounded(nodes, roots)
      /\ DOMAIN w.forest \subseteq Free /\ w.root \in DOMAIN w.forest
  BY DEF Kept, Books, Forest, WellBuilt, Linked
<1>2. \A x \in DOMAIN nodes : KidSet(nodes, x) \subseteq DOMAIN nodes
  BY <1>1, LinkFacts
<1>3. nodes[o].kids \in Seq(KidSet(nodes, o)) /\ IsInjective(nodes[o].kids)
  BY GrownRoom
<1>4. w.root \notin KidSet(nodes, o)
  BY <1>1, <1>2 DEF Free
<1>5. Range(nodes[o].kids) = KidSet(nodes, o)
  BY DEF KidSet
<1>6. /\ ks \in Seq(KidSet(nodes, o) \cup {w.root})
      /\ Range(ks) = KidSet(nodes, o) \cup {w.root}
      /\ IsInjective(ks) /\ Len(ks) = Len(nodes[o].kids) + 1
  BY <1>3, <1>4, <1>5, AppendFacts
<1> DEFINE F == [x \in DOMAIN nodes \ {} |-> nodes[x]]
<1>7. F = nodes
  BY <1>1 DEF Linked
<1> HIDE DEF F
<1>8. nodes' = Beside(Stored(w, o, k), [F EXCEPT ![o].kids = ks, ![o].cap = c])
  BY <1>7
<1>9. live' = ((live \ UNION {Owed(nodes, x) : x \in {}}) \cup w.blocks) \cup NewPlace(nodes, o, w.root)
  OBVIOUS
<1>10. failed' = (IF failed = "none" THEN w.failed ELSE failed) /\ UNCHANGED <<roots, threads, pc>>
  BY DEF Settle, After
<1> HIDE DEF ks
<1>11. Hung(w, o, k, {}, ks, c, nodes', live', failed')
  <2>1. CutAt(nodes, o, {}) /\ Len(ks) <= c
    BY <1>6 DEF CutAt
  <2>2. /\ ks \in Seq((KidSet(nodes, o) \ {}) \cup {w.root})
        /\ Range(ks) = (KidSet(nodes, o) \ {}) \cup {w.root}
    BY <1>6
  <2>3. nodes[o].type = "obj" => \A x \in KidSet(nodes, o) \ {} : nodes[x].key # k
    BY DEF KidAt
  <2> QED BY <1>6, <1>8, <1>9, <1>10, <2>1, <2>2, <2>3 DEF Hung, F
<1> QED BY <1>10, <1>11, HungStep

LEMMA MapInsertStep ==
  ASSUME Kept, pc = "build", NEW w, NEW o \in DOMAIN nodes, NEW k \in Keys, nodes[o].type = "obj",
         WellBuilt(w, nodes[o].alloc), map_insert(o, k, w)
  PROVE  Stepped
<1>1. CASE w.fatal \/ nodes[o].cap = 0 \/ ~(Content(nodes, o) \subseteq live)
           \/ \E e \in KidAt(nodes, o, k) : ~Sound(e) \/ NoStorage(e, {"arr"})
  <2>1. Crash(w.failed)
    BY <1>1 DEF map_insert
  <2>2. w.failed # "none" \/ failed # "none" \/ Misplaced(nodes)
    <3>1. CASE w.fatal
      BY <3>1 DEF WellBuilt
    <3>2. CASE ~ w.fatal /\ failed = "none"
      <4>1. /\ nodes[o].cap # 0 /\ Content(nodes, o) \subseteq live
        BY <3>2, NothingMissing
      <4>2. PICK e \in KidAt(nodes, o, k) : ~Sound(e) \/ NoStorage(e, {"arr"})
        BY <1>1, <3>2, <4>1
      <4>3. e \in DOMAIN nodes
        BY KidAtFacts
      <4> QED BY <3>2, <4>2, <4>3, NothingMissing
    <3> QED BY <3>1, <3>2
  <2> QED BY <2>1, <2>2, CrashStep
<1>2. CASE ~ w.fatal /\ nodes[o].cap # 0 /\ \E e \in KidAt(nodes, o, k) : Overwrite(o, k, w, e)
  BY <1>2, OverwriteStep
<1>3. CASE ~ w.fatal /\ nodes[o].cap # 0 /\ KidAt(nodes, o, k) = {} /\ NewPair(o, k, w)
  <2>1. /\ nodes' = Beside(Stored(w, o, k), [nodes EXCEPT ![o].kids = Append(@, w.root), ![o].cap = GrownCap(o)])
        /\ live' = live \cup w.blocks \cup KeyBlock(o, w)
        /\ Settle(w.failed)
    BY <1>3 DEF NewPair
  <2>2. KeyBlock(o, w) = NewPlace(nodes, o, w.root)
    BY DEF KeyBlock, NewPlace
  <2>3. GrownCap(o) \in Nat /\ GrownCap(o) > 0 /\ Len(nodes[o].kids) + 1 <= GrownCap(o)
    BY <1>3, GrownRoom
  <2>4. k \in Keys \cup {NoKey} /\ nodes[o].type \in {"obj", "arr"}
    OBVIOUS
  <2> QED BY <1>3, <2>1, <2>2, <2>3, <2>4, OneMore
<1>4. CASE ~ w.fatal /\ nodes[o].cap # 0 /\ CannotSet(o, k, w)
  BY <1>4, CannotSetStep
<1> QED BY <1>1, <1>2, <1>3, <1>4 DEF map_insert

LEMMA ArrPushStep ==
  ASSUME Kept, pc = "build", NEW w, NEW a \in DOMAIN nodes, nodes[a].type = "arr",
         WellBuilt(w, nodes[a].alloc), da_push(a, w)
  PROVE  Stepped
<1>1. CASE w.fatal \/ nodes[a].cap = 0 \/ ~(Content(nodes, a) \subseteq live)
  <2>1. Crash(w.failed)
    BY <1>1 DEF da_push
  <2>2. w.failed # "none" \/ failed # "none" \/ Misplaced(nodes)
    <3>1. CASE w.fatal
      BY <3>1 DEF WellBuilt
    <3>2. CASE ~ w.fatal /\ failed = "none"
      BY <1>1, <3>2, NothingMissing
    <3> QED BY <3>1, <3>2
  <2> QED BY <2>1, <2>2, CrashStep
<1>2. CASE Crash("moved")
  BY <1>2, CrashStep
<1>3. CASE /\ ~ w.fatal /\ nodes[a].cap # 0
           /\ live' = live \cup w.blocks
           /\ nodes' = Beside(Stored(w, a, NoKey),
                              [nodes EXCEPT ![a].kids = Append(@, w.root), ![a].cap = StoreCap(a)])
           /\ Settle(w.failed)
  <2>1. live' = live \cup w.blocks \cup NewPlace(nodes, a, w.root)
    BY <1>3 DEF NewPlace
  <2>2. StoreCap(a) \in Nat /\ StoreCap(a) > 0 /\ Len(nodes[a].kids) + 1 <= StoreCap(a)
    BY <1>3, GrownRoom
  <2>3. NoKey \in Keys \cup {NoKey} /\ nodes[a].type \in {"obj", "arr"} /\ nodes[a].type # "obj"
    OBVIOUS
  <2> QED BY <1>3, <2>1, <2>2, <2>3, OneMore
(* The value is lost, its contents with it. *)
<1>4. CASE /\ ~ w.fatal /\ live' = live \cup w.blocks
           /\ w.failed = "none" /\ MayFail /\ UNCHANGED nodes /\ Settle("push")
  <2>1. /\ failed = "none" /\ failed' = "push" /\ UNCHANGED <<nodes, roots, threads, pc>>
    BY <1>4 DEF MayFail, Settle, After
  <2>2. /\ Forest(nodes, roots) /\ DOMAIN nodes \subseteq Ids /\ Unmixed(nodes) /\ live = AllOwed(nodes)
        /\ Linked(nodes, roots) /\ Grounded(nodes, roots)
    BY <2>1 DEF Kept, Books, Forest
  <2>3. AllOwed(nodes) \subseteq live'
    BY <1>4, <2>2
  <2>4. Books(nodes, roots, live', failed')
    BY <2>1, <2>2, <2>3 DEF Books
  <2>5. Kept'
    BY <2>1, <2>4 DEF Kept
  <2>6. \A b \in w.blocks : b.node \in Free
    BY <1>4 DEF WellBuilt
  <2>7. \A b : b.node \in DOMAIN nodes => (b \in live <=> b \in live')
    BY <1>4, <2>6 DEF Free
  <2>8. \A x \in DOMAIN nodes : KidSet(nodes, x) \subseteq DOMAIN nodes
    BY <2>2, LinkFacts
  <2>9. OneTree(nodes, roots, nodes', live, live')
    BY <2>1, <2>2, <2>7, <2>8, OthersStay
  <2> QED BY <2>1, <2>5, <2>9 DEF Stepped
<1> QED BY <1>1, <1>2, <1>3, <1>4 DEF da_push

(***************************************************************************)
(* New trees of one node.                                                  *)
(***************************************************************************)
Alone(n, x) == [i \in {n} |-> x]

LEMMA OneNode ==
  ASSUME NEW n, n # NULL, NEW t \in Types, NEW alloc \in Allocs, NEW cap \in Nat
  PROVE  /\ Forest(Alone(n, Node(t, alloc, cap)), {n})
         /\ Unmixed(Alone(n, Node(t, alloc, cap)))
         /\ cap > 0 \/ t \notin {"arr", "obj"} => Stocked(Alone(n, Node(t, alloc, cap)))
         /\ Node(t, alloc, cap).type = t /\ Node(t, alloc, cap).alloc = alloc
<1> DEFINE x == Node(t, alloc, cap)
           f == Alone(n, x)
<1>1. /\ x.type = t /\ x.alloc = alloc /\ x.up = NULL /\ x.key = NoKey /\ x.kids = <<>> /\ x.cap = cap
  BY DEF Node
<1>2. x \in NodeSet({n})
  BY DEF Node, NodeSet
<1>3. DOMAIN f = {n} /\ f[n] = x /\ f \in [{n} -> NodeSet({n})]
  BY <1>2 DEF Alone
<1> HIDE DEF x, f
<1>4. KidSet(f, n) = {}
  BY <1>1, <1>3 DEF KidSet, Range
<1>5. Linked(f, {n})
  BY <1>1, <1>3, <1>4 DEF Linked
<1>6. Roomy(f)
  <2>1. IsInjective(x.kids) /\ Len(x.kids) <= x.cap
    BY <1>1 DEF IsInjective
  <2> QED BY <1>1, <1>3, <1>4, <2>1 DEF Roomy
<1>7. Grounded(f, {n})
  BY <1>3 DEF Grounded
<1>8. Unmixed(f)
  BY <1>3, <1>4 DEF Unmixed
<1>9. cap > 0 \/ t \notin {"arr", "obj"} => Stocked(f)
  BY <1>1, <1>3 DEF Stocked
<1> QED BY <1>1, <1>3, <1>5, <1>6, <1>7, <1>8, <1>9 DEF Forest, f, x

LEMMA FreshIsFree ==
  ASSUME Free # {}
  PROVE  Fresh \in Free /\ Fresh # NULL /\ Fresh \in Ids /\ Fresh \notin DOMAIN nodes
BY IdsAssumption DEF Fresh, Free, NULL

LEMMA CreateStep ==
  ASSUME Kept, pc = "build", Free # {}, NEW t \in {"obj", "arr"}, NEW alloc \in Allocs, Create(t, alloc)
  PROVE  Stepped
<1> DEFINE n == Fresh
           cap == IF t = "arr" THEN ArrCap ELSE MapCap
           f == [i \in {n} |-> Node(t, alloc, cap)]
<1>1. /\ Forest(nodes, roots) /\ DOMAIN nodes \subseteq Ids /\ Unmixed(nodes)
      /\ failed = "none" => Stocked(nodes) /\ live = AllOwed(nodes)
      /\ failed # "grow" => AllOwed(nodes) \subseteq live
      /\ Linked(nodes, roots)
  BY DEF Kept, Books, Forest
<1>2. CASE /\ nodes' = Beside(f, nodes)
           /\ live' = live \cup Contents(f, n) \cup PlaceOf(f, n)
           /\ roots' = roots \cup {n}
           /\ UNCHANGED <<failed, threads, pc>>
  <2>1. n \in Free /\ n # NULL /\ n \in Ids /\ n \notin DOMAIN nodes
    BY FreshIsFree
  <2>2. cap \in Nat /\ cap > 0 /\ t \in Types
    BY CapsAssumption DEF Types
  <2>a. DOMAIN f = {n}
    OBVIOUS
  <2>b. f = Alone(n, Node(t, alloc, cap))
    BY DEF Alone
  <2> HIDE DEF n, cap, f
  <2>3. Forest(f, {n}) /\ Unmixed(f) /\ Stocked(f)
    BY <2>1, <2>2, <2>b, OneNode
  <2>4. DOMAIN nodes \cap DOMAIN f = {}
    BY <2>1, <2>a
  <2>5. Forest(nodes', roots')
    BY <1>1, <1>2, <2>3, <2>4, BesideForest
  <2>6. /\ AllOwed(nodes') = AllOwed(nodes) \cup AllOwed(f)
        /\ failed = "none" => Stocked(nodes')
        /\ Unmixed(nodes')
    BY <1>1, <1>2, <2>3, <2>4, BesideOwed
  <2>7. AllOwed(f) = Contents(f, n) \cup PlaceOf(f, n)
    <3>1. \A x \in DOMAIN f : KidSet(f, x) \subseteq DOMAIN f
      BY <2>3, LinkFacts DEF Forest
    <3>2. Subtree(f, n) = DOMAIN f /\ n \in DOMAIN f
      BY <2>3, WholeTree DEF Forest
    <3> QED BY <3>1, <3>2, ContentsAre DEF AllOwed
  <2>8. /\ DOMAIN nodes' = DOMAIN nodes \cup DOMAIN f
        /\ \A x \in DOMAIN nodes : nodes'[x] = nodes[x]
    <3>1. /\ DOMAIN Beside(f, nodes) = DOMAIN nodes \cup DOMAIN f
          /\ \A x \in DOMAIN nodes : Beside(f, nodes)[x] = nodes[x]
      BY <1>1, <2>3, <2>4, BesideFacts
    <3> QED BY <1>2, <3>1
  <2>9. DOMAIN nodes' \subseteq Ids
    BY <1>1, <2>1, <2>8, <2>a
  <2>10. live' = live \cup AllOwed(f)
    BY <1>2, <2>7
  <2>11. Books(nodes', roots', live', failed')
    BY <1>1, <1>2, <2>5, <2>6, <2>9, <2>10 DEF Books
  <2>12. Kept'
    BY <2>11 DEF Kept
  <2>13. \A b \in AllOwed(f) : b.node \notin DOMAIN nodes
    BY <2>1, <2>a, OwedSplit
  <2>14. \A x \in DOMAIN nodes' : KidSet(nodes', x) \subseteq DOMAIN nodes'
    BY <2>5, LinkFacts DEF Forest
  <2>15. ASSUME NEW s \in roots PROVE ShownIn(nodes', live', s) = ShownIn(nodes, live, s)
    <3>1. s \in DOMAIN nodes
      BY <1>1 DEF Linked
    <3>2. Subtree(nodes, s) \subseteq DOMAIN nodes
      BY <1>1, <3>1, LinkFacts, SubtreeFacts
    <3>3. \A x \in Subtree(nodes, s) : x \in DOMAIN nodes' /\ nodes'[x] = nodes[x]
      BY <2>8, <3>2
    <3>4. \A b : b.node \in Subtree(nodes, s) => (b \in live <=> b \in live')
      BY <2>10, <2>13, <3>2
    <3> QED BY <1>1, <2>14, <3>1, <3>3, <3>4, ShownSame
  <2>16. OneTree(nodes, roots, nodes', live, live')
    BY <2>15 DEF OneTree
  <2> QED BY <1>2, <2>12, <2>16 DEF Stepped
<1>3. CASE MayFail /\ failed' = "create" /\ UNCHANGED <<tree, threads, pc>>
  <2>1. /\ failed = "none" /\ nodes' = nodes /\ live' = live /\ roots' = roots
        /\ UNCHANGED <<threads, pc>>
    BY <1>3 DEF MayFail, tree
  <2>2. Books(nodes, roots, live, failed')
    BY <1>1, <1>3, <2>1 DEF Books
  <2>3. Kept'
    BY <2>1, <2>2 DEF Kept
  <2>4. OneTree(nodes, roots, nodes', live, live')
    BY <2>1 DEF OneTree
  <2> QED BY <2>1, <2>3, <2>4 DEF Stepped
<1> QED BY <1>2, <1>3 DEF Create

LEMMA DestroyStep ==
  ASSUME Kept, pc = "build", NEW n \in roots, Destroy(n)
  PROVE  Stepped
<1>1. /\ Forest(nodes, roots) /\ DOMAIN nodes \subseteq Ids /\ Unmixed(nodes)
      /\ failed = "none" => Stocked(nodes) /\ live = AllOwed(nodes)
      /\ failed # "grow" => AllOwed(nodes) \subseteq live
      /\ Linked(nodes, roots) /\ Grounded(nodes, roots) /\ n \in DOMAIN nodes
  BY DEF Kept, Books, Forest, Linked
<1>2. CASE ~Sound(n) \/ NoStorage(n, {"arr"})
  <2>1. Crash("none")
    BY <1>2 DEF Destroy
  <2>2. failed # "none"
    BY <1>1, <1>2, NothingMissing
  <2> QED BY <2>1, <2>2, CrashStep
<1>3. CASE /\ nodes' = Restrict(nodes, DOMAIN nodes \ Subtree(nodes, n))
           /\ live' = live \ (Contents(nodes, n) \cup PlaceOf(nodes, n))
           /\ roots' = roots \ {n}
           /\ UNCHANGED <<failed, threads, pc>>
  <2> DEFINE T == Subtree(nodes, n)
  <2>1. nodes' = Less(nodes, n)
    BY <1>3 DEF Less, Restrict
  <2>2. \A x \in DOMAIN nodes : KidSet(nodes, x) \subseteq DOMAIN nodes
    BY <1>1, LinkFacts
  <2>3. T \subseteq DOMAIN nodes
    BY <1>1, <2>2, SubtreeFacts
  <2>4. /\ Forest(nodes', roots') /\ AllOwed(nodes') = OwedBut(nodes, T)
        /\ failed = "none" => Stocked(nodes')
        /\ Unmixed(nodes')
    BY <1>1, <1>3, <2>1, LessForest
  <2>5. live' = live \ UNION {Owed(nodes, x) : x \in T}
    BY <1>1, <1>3, <2>2, ContentsAre
  <2>6. DOMAIN nodes' = DOMAIN nodes \ T /\ \A x \in DOMAIN nodes \ T : nodes'[x] = nodes[x]
    BY <2>1 DEF Less
  <2> HIDE DEF T
  <2>7. AllOwed(nodes) \ UNION {Owed(nodes, x) : x \in T} = OwedBut(nodes, T)
    BY <2>3, OwedSplit
  <2>8. Books(nodes', roots', live', failed')
    BY <1>1, <1>3, <2>4, <2>5, <2>6, <2>7 DEF Books
  <2>9. Kept'
    BY <2>8 DEF Kept
  <2>10. \A x \in DOMAIN nodes' : KidSet(nodes', x) \subseteq DOMAIN nodes'
    BY <2>4, LinkFacts DEF Forest
  <2>11. \A x \in DOMAIN nodes : \A b \in Owed(nodes, x) : b.node = x
    BY OwnBlocks
  <2>12. ASSUME NEW r \in roots, n \in Subtree(nodes, r)
         PROVE  /\ \A x \in DOMAIN nodes \ Subtree(nodes, r) : x \in DOMAIN nodes' /\ nodes'[x] = nodes[x]
                /\ \A b : b.node \in DOMAIN nodes \ Subtree(nodes, r) => (b \in live <=> b \in live')
    <3>1. r \in DOMAIN nodes
      BY <1>1 DEF Linked
    <3>2. T \subseteq Subtree(nodes, r)
      BY <2>2, <2>12, <3>1, SubtreeBelow DEF T
    <3>3. \A b : b.node \in DOMAIN nodes \ Subtree(nodes, r) => (b \in live <=> b \in live')
      BY <2>3, <2>5, <2>11, <3>2
    <3> QED BY <2>6, <3>2, <3>3
  <2>13. OneTree(nodes, roots, nodes', live, live')
    BY <1>1, <2>10, <2>12, OthersStay
  <2> QED BY <1>3, <2>9, <2>13 DEF Stepped
<1> QED BY <1>2, <1>3 DEF Destroy

(***************************************************************************)
(* The values that the builders make.                                      *)
(***************************************************************************)
Sprout(f, u, failure, alloc) ==
  /\ Forest(f, {u}) /\ Unmixed(f) /\ DOMAIN f \subseteq Free /\ Suits(alloc, f[u])
  /\ failure # "none" => failed = "none"
  /\ failure = "none" /\ failed = "none" => Stocked(f)

LEMMA ValueBuilt ==
  ASSUME NEW f, NEW u, NEW failure, NEW alloc, Sprout(f, u, failure, alloc)
  PROVE  WellBuilt(Value(f, u, failure), alloc)
<1>0. /\ Forest(f, {u}) /\ Unmixed(f) /\ DOMAIN f \subseteq Free /\ Suits(alloc, f[u])
      /\ failure # "none" => failed = "none"
      /\ failure = "none" /\ failed = "none" => Stocked(f)
  BY DEF Sprout
<1> DEFINE w == Value(f, u, failure)
<1>1. /\ w.forest = f /\ w.root = u /\ w.failed = failure /\ w.fatal = FALSE
      /\ w.blocks = Contents(f, u)
  BY DEF Value
<1> HIDE DEF w
<1>2. \A x \in DOMAIN f : KidSet(f, x) \subseteq DOMAIN f
  BY <1>0, LinkFacts DEF Forest
<1>3. u \in DOMAIN f
  BY <1>0 DEF Forest, Linked
<1>4. \A b \in Contents(f, u) : b.node \in Free
  BY <1>0, <1>2, <1>3, ContentsOwed, SubtreeFacts
<1>5. WellBuilt(w, alloc)
  BY <1>0, <1>1, <1>4 DEF WellBuilt
<1> QED BY <1>5 DEF w

LEMMA SingleBuilt ==
  ASSUME Free # {}, NEW t \in Types, NEW a \in Allocs, NEW cap \in Nat, NEW failure, NEW alloc,
         a = alloc \/ t = "null" \/ alloc # "custom", t \notin {"arr", "obj"} \/ failure # "none" \/ cap > 0,
         failure # "none" => failed = "none"
  PROVE  WellBuilt(Single(Node(t, a, cap), failure), alloc)
<1> DEFINE n == Fresh
           x == Node(t, a, cap)
           f == Alone(n, x)
<1>1. n \in Free /\ n # NULL
  BY FreshIsFree
<1>2. Single(x, failure) = Value(f, n, failure)
  BY DEF Single, Alone
<1>3. DOMAIN f = {n} /\ f[n] = x
  BY DEF Alone
<1>a. f = Alone(n, Node(t, a, cap)) /\ x = Node(t, a, cap)
  OBVIOUS
<1> HIDE DEF n, x, f
<1>b. Forest(f, {n}) /\ Unmixed(f)
  BY <1>1, <1>a, OneNode
<1>c. x.type = t /\ x.alloc = a
  BY <1>a DEF Node
<1>d. cap > 0 \/ t \notin {"arr", "obj"} => Stocked(f)
  BY <1>1, <1>a, OneNode
<1>4. /\ Forest(f, {n}) /\ Unmixed(f) /\ x.type = t /\ x.alloc = a
      /\ cap > 0 \/ t \notin {"arr", "obj"} => Stocked(f)
  BY <1>b, <1>c, <1>d
<1>5. Suits(alloc, f[n])
  BY <1>3, <1>4 DEF Suits
<1>6. failure = "none" => Stocked(f)
  BY <1>4
<1>7. DOMAIN f \subseteq Free
  BY <1>1, <1>3
<1>8. WellBuilt(Value(f, n, failure), alloc)
  BY <1>4, <1>5, <1>6, <1>7, ValueBuilt DEF Sprout
<1> QED BY <1>2, <1>8 DEF x

LEMMA ScalarsBuilt ==
  ASSUME Free # {}, NEW alloc \in Allocs, NEW w \in NewScalars(alloc)
  PROVE  WellBuilt(w, alloc)
<1>1. CASE \E t \in {"int", "str"} : w = Single(Node(t, alloc, 0), "none")
  BY <1>1, SingleBuilt DEF Types
<1>2. CASE MayFail /\ w = Single(Node("nostr", alloc, 0), "str")
  BY <1>2, SingleBuilt DEF Types, MayFail
<1> QED BY <1>1, <1>2 DEF NewScalars

LEMMA NullBuilt ==
  ASSUME Free # {}, NEW alloc, NEW failure, failure # "none" => failed = "none"
  PROVE  WellBuilt(NodeNull(failure), alloc)
BY SingleBuilt DEF NodeNull, Types, Allocs

LEMMA CrashedBuilt ==
  ASSUME NEW alloc, NEW failure, failure # "none" => failed = "none",
         failure # "none" \/ failed # "none" \/ Misplaced(nodes)
  PROVE  WellBuilt(Crashed(failure), alloc)
<1>1. Crashed(failure).failed = failure /\ Crashed(failure).fatal = TRUE
  BY DEF Crashed, Single, Value
<1> QED BY <1>1 DEF WellBuilt

LEMMA NamedFacts ==
  ASSUME NEW S, Fits(S)
  PROVE  /\ Named(S) \in [S -> Free] /\ IsInjective(Named(S))
         /\ \A x \in S : Named(S)[x] \in Free /\ Named(S)[x] # NULL /\ Named(S)[x] \in Ids
         /\ \A x, y \in S : Named(S)[x] = Named(S)[y] => x = y
<1>1. Named(S) \in [S -> Free] /\ IsInjective(Named(S))
  BY DEF Fits, Named
<1>2. \A x \in Free : x # NULL /\ x \in Ids
  BY IdsAssumption DEF Free, NULL
<1>3. \A x, y \in S : Named(S)[x] = Named(S)[y] => x = y
  BY <1>1 DEF IsInjective
<1> QED BY <1>1, <1>2, <1>3

(* A C array: one node with all the others below it. *)
Fan(f, id, len, arr, alloc) ==
  /\ DOMAIN f = Range(id) /\ f = [n \in DOMAIN f |-> f[n]]
  /\ f[id[0]] = arr
  /\ arr.type = "arr" /\ arr.alloc = alloc /\ arr.up = NULL /\ arr.key = NoKey
  /\ arr.kids = [i \in 1..len |-> id[i]] /\ arr.cap \in Nat /\ len <= arr.cap
  /\ arr \in [type : Types, alloc : Allocs, up : {NULL}, key : {NoKey}, kids : Seq(Range(id)), cap : Nat]
  /\ \A i \in 1..len : /\ f[id[i]] \in NodeSet(Range(id))
                       /\ f[id[i]].type \in {"int", "str", "nostr"} /\ f[id[i]].alloc = alloc
                       /\ f[id[i]].up = id[0] /\ f[id[i]].key = NoKey
                       /\ f[id[i]].kids = <<>> /\ f[id[i]].cap = 0

LEMMA FanForest ==
  ASSUME NEW len \in Nat, NEW id, id \in [0..len -> Free], IsInjective(id),
         NEW f, NEW arr, NEW alloc \in Allocs, Fan(f, id, len, arr, alloc)
  PROVE  /\ Forest(f, {id[0]}) /\ Unmixed(f) /\ DOMAIN f \subseteq Free
         /\ f[id[0]].alloc = alloc
         /\ arr.cap > 0 => Stocked(f)
<1>1. DOMAIN f = {id[i] : i \in 0..len} /\ DOMAIN f \subseteq Free
  BY DEF Fan, Range
<1>2. /\ \A i, j \in 0..len : id[i] = id[j] => i = j
      /\ id[0] \in DOMAIN f /\ NULL \notin DOMAIN f
      /\ \A i \in 1..len : i \in 0..len /\ i # 0
  BY <1>1, IdsAssumption DEF IsInjective, Free, NULL
<1>3. ASSUME NEW n \in DOMAIN f PROVE n = id[0] \/ \E i \in 1..len : n = id[i]
  BY <1>1
<1>4. /\ f[id[0]] = arr /\ arr.type = "arr" /\ arr.alloc = alloc /\ arr.up = NULL /\ arr.key = NoKey
      /\ arr.kids = [i \in 1..len |-> id[i]] /\ arr.cap \in Nat /\ len <= arr.cap
      /\ arr \in NodeSet(DOMAIN f)
  <2>1. arr \in NodeSet(DOMAIN f)
    BY DEF Fan, NodeSet
  <2> QED BY <2>1 DEF Fan
<1>5. \A i \in 1..len : /\ f[id[i]] \in NodeSet(DOMAIN f)
                        /\ f[id[i]].type \in {"int", "str", "nostr"} /\ f[id[i]].alloc = alloc
                        /\ f[id[i]].up = id[0] /\ f[id[i]].key = NoKey
                        /\ f[id[i]].kids = <<>> /\ f[id[i]].cap = 0
  BY DEF Fan
<1>6. KidSet(f, id[0]) = {id[i] : i \in 1..len}
  <2>1. DOMAIN arr.kids = 1..len /\ \A i \in 1..len : arr.kids[i] = id[i]
    BY <1>4
  <2> QED BY <1>4, <2>1 DEF KidSet, Range
<1>7. \A i \in 1..len : KidSet(f, id[i]) = {}
  BY <1>5 DEF KidSet, Range
<1>8. Linked(f, {id[0]})
  <2>1. f \in [DOMAIN f -> NodeSet(DOMAIN f)]
    <3>1. \A n \in DOMAIN f : f[n] \in NodeSet(DOMAIN f)
      BY <1>3, <1>4, <1>5
    <3>2. f = [n \in DOMAIN f |-> f[n]]
      BY DEF Fan
    <3> QED BY <3>1, <3>2
  <2>2. ASSUME NEW n \in DOMAIN f
        PROVE  /\ f[n].up = NULL <=> n = id[0]
               /\ \A x \in KidSet(f, n) : f[x].up = n
               /\ f[n].up # NULL => n \in KidSet(f, f[n].up)
    <3>1. CASE n = id[0]
      BY <1>4, <1>5, <1>6, <3>1
    <3>2. CASE \E i \in 1..len : n = id[i]
      <4>1. PICK i \in 1..len : n = id[i]
        BY <3>2
      <4>a. i \in 0..len /\ 0 \in 0..len /\ i # 0
        BY <1>2
      <4>b. id[i] # id[0] /\ id[0] # NULL
        BY <1>2, <4>a
      <4>2. n # id[0] /\ id[0] # NULL /\ f[n].up = id[0] /\ KidSet(f, n) = {}
        BY <1>5, <1>7, <4>1, <4>b
      <4> QED BY <1>6, <4>1, <4>2
    <3> QED BY <1>3, <3>1, <3>2
  <2> QED BY <1>2, <2>1, <2>2 DEF Linked
<1>9. Roomy(f)
  <2> SUFFICES ASSUME NEW n \in DOMAIN f
               PROVE  /\ IsInjective(f[n].kids)
                      /\ Len(f[n].kids) <= f[n].cap
                      /\ f[n].type # "obj"
                      /\ f[n].kids # <<>> => f[n].type \in {"obj", "arr"}
    BY DEF Roomy
  <2>1. CASE n = id[0]
    <3>1. IsInjective(arr.kids)
      BY <1>2, <1>4 DEF IsInjective
    <3>2. Len(arr.kids) = len
      BY <1>4
    <3> QED BY <1>4, <2>1, <3>1, <3>2
  <2>2. CASE \E i \in 1..len : n = id[i]
    <3>1. f[n].kids = <<>> /\ f[n].cap = 0 /\ f[n].type \in {"int", "str", "nostr"}
      BY <1>5, <2>2
    <3>2. IsInjective(f[n].kids) /\ Len(f[n].kids) <= f[n].cap
      BY <3>1 DEF IsInjective
    <3> QED BY <3>1, <3>2
  <2> QED BY <1>3, <2>1, <2>2
<1>10. Grounded(f, {id[0]})
  <2> SUFFICES ASSUME NEW S \in SUBSET DOMAIN f, id[0] \in S, Closed(f, S)
               PROVE  DOMAIN f \subseteq S
    BY DEF Grounded
  <2>1. \A i \in 1..len : id[i] \in S
    BY <1>6 DEF Closed
  <2> QED BY <1>3, <2>1
<1>11. \A n \in DOMAIN f : f[n].alloc = alloc
  BY <1>3, <1>4, <1>5
<1>12. Unmixed(f)
  <2>1. \A n \in DOMAIN f : KidSet(f, n) \subseteq DOMAIN f
    BY <1>8, LinkFacts
  <2> QED BY <1>11, <2>1 DEF Unmixed, Suits
<1>13. arr.cap > 0 => Stocked(f)
  BY <1>3, <1>4, <1>5 DEF Stocked
<1> QED BY <1>1, <1>2, <1>8, <1>9, <1>10, <1>11, <1>12, <1>13 DEF Forest

LEMMA ArrayBuilt ==
  ASSUME NEW alloc \in Allocs, NEW t \in {"int", "str"}, NEW len \in ArrayLens, Fits(0..len), NEW failure,
         failure # "none" => failed = "none", failure = "store" => len = 0
  PROVE  WellBuilt(NewArray(alloc, t, len, failure), alloc)
<1> DEFINE id == Named(0..len)
           bare(i) == failure = "str" /\ i = 1
           elem(i) == [Node(IF bare(i) THEN "nostr" ELSE t, alloc, 0) EXCEPT !.up = id[0]]
           arr == [Node("arr", alloc, IF failure = "store" THEN 0 ELSE AtLeastOne(len))
                     EXCEPT !.kids = [i \in 1..len |-> id[i]]]
           f == [n \in Range(id) |-> IF n = id[0] THEN arr ELSE elem(CHOOSE i \in 1..len : id[i] = n)]
<1>1. NewArray(alloc, t, len, failure) = Value(f, id[0], failure)
  BY DEF NewArray
<1>2. len \in Nat
  BY LensAssumption
<1>3. /\ id \in [0..len -> Free] /\ IsInjective(id)
      /\ \A x, y \in 0..len : id[x] = id[y] => x = y
  BY NamedFacts
<1>4. \A i \in 1..len : i \in 0..len /\ id[i] # id[0]
  <2> SUFFICES ASSUME NEW i \in 1..len PROVE i \in 0..len /\ id[i] # id[0]
    OBVIOUS
  <2>1. i \in 0..len /\ 0 \in 0..len /\ i # 0
    BY <1>2
  <2> QED BY <1>3, <2>1
<1>5. 0 \in 0..len
  BY <1>2
<1> HIDE DEF id
<1>6. Range(id) = {id[i] : i \in 0..len}
  BY <1>3 DEF Range
<1>7. \A i \in 1..len : elem(i).type \in {"int", "str", "nostr"} /\ elem(i).alloc = alloc
                        /\ elem(i).up = id[0] /\ elem(i).key = NoKey
                        /\ elem(i).kids = <<>> /\ elem(i).cap = 0
                        /\ elem(i) \in NodeSet(Range(id))
  <2> SUFFICES ASSUME NEW i \in 1..len
               PROVE  /\ elem(i).type \in {"int", "str", "nostr"} /\ elem(i).alloc = alloc
                      /\ elem(i).up = id[0] /\ elem(i).key = NoKey
                      /\ elem(i).kids = <<>> /\ elem(i).cap = 0
                      /\ elem(i) \in NodeSet(Range(id))
    OBVIOUS
  <2> DEFINE tt == IF bare(i) THEN "nostr" ELSE t
  <2>1. tt \in {"int", "str", "nostr"} /\ tt \in Types
    BY DEF Types
  <2> HIDE DEF tt
  <2>2. elem(i) = [Node(tt, alloc, 0) EXCEPT !.up = id[0]]
    BY DEF tt
  <2>3. id[0] \in Range(id)
    BY <1>5, <1>6
  <2> HIDE DEF elem
  <2>4. /\ elem(i).type = tt /\ elem(i).alloc = alloc /\ elem(i).up = id[0] /\ elem(i).key = NoKey
        /\ elem(i).kids = <<>> /\ elem(i).cap = 0
    BY <2>2 DEF Node
  <2>a. elem(i) = [type |-> tt, alloc |-> alloc, up |-> id[0], key |-> NoKey, kids |-> <<>>, cap |-> 0]
    BY <2>2 DEF Node
  <2>b. <<>> \in Seq(Range(id)) /\ id[0] \in Range(id) \cup {NULL} /\ NoKey \in Keys \cup {NoKey} /\ 0 \in Nat
    BY <2>3
  <2>5. elem(i) \in NodeSet(Range(id))
    BY <2>1, <2>a, <2>b DEF NodeSet
  <2> QED BY <2>1, <2>4, <2>5
<1> DEFINE cap == IF failure = "store" THEN 0 ELSE AtLeastOne(len)
<1>8. failure = "none" => cap > 0
  BY <1>2 DEF AtLeastOne
<1>a. cap \in Nat /\ len <= cap
  BY <1>2 DEF AtLeastOne
<1> HIDE DEF cap
<1>9. /\ arr.type = "arr" /\ arr.alloc = alloc /\ arr.up = NULL /\ arr.key = NoKey
      /\ arr.kids = [i \in 1..len |-> id[i]] /\ arr.cap = cap
  BY DEF Node, cap
<1>10. arr \in [type : Types, alloc : Allocs, up : {NULL}, key : {NoKey}, kids : Seq(Range(id)), cap : Nat]
  <2> DEFINE ks == [i \in 1..len |-> id[i]]
  <2>1. ks \in Seq(Range(id))
    <3>1. \A i \in 1..len : id[i] \in Range(id)
      BY <1>4, <1>6
    <3> QED BY <1>2, <3>1
  <2> HIDE DEF ks
  <2>2. arr = [Node("arr", alloc, cap) EXCEPT !.kids = ks]
    BY DEF ks, cap
  <2>3. "arr" \in Types
    BY DEF Types
  <2> QED BY <1>a, <2>1, <2>2, <2>3 DEF Node
<1> HIDE DEF arr, elem
<1>11. f[id[0]] = arr
  BY <1>5, <1>6
<1>12. \A i \in 1..len : f[id[i]] = elem(i)
  <2> SUFFICES ASSUME NEW i \in 1..len PROVE f[id[i]] = elem(i)
    OBVIOUS
  <2>1. id[i] \in Range(id) /\ id[i] # id[0]
    BY <1>4, <1>6
  <2>2. (CHOOSE j \in 1..len : id[j] = id[i]) = i
    <3>1. \A j \in 1..len : id[j] = id[i] => j = i
      BY <1>3, <1>4
    <3> QED BY <3>1
  <2> QED BY <2>1, <2>2
<1>13. DOMAIN f = Range(id) /\ f = [n \in DOMAIN f |-> f[n]]
  OBVIOUS
<1> HIDE DEF f
<1>14. Fan(f, id, len, arr, alloc)
  BY <1>a, <1>7, <1>9, <1>10, <1>11, <1>12, <1>13 DEF Fan
<1>15. /\ Forest(f, {id[0]}) /\ Unmixed(f) /\ DOMAIN f \subseteq Free
       /\ f[id[0]].alloc = alloc
       /\ arr.cap > 0 => Stocked(f)
  BY <1>2, <1>3, <1>14, FanForest
<1>16. Suits(alloc, f[id[0]])
  BY <1>15 DEF Suits
<1>17. failure = "none" => Stocked(f)
  BY <1>8, <1>a, <1>9, <1>15
<1> DEFINE u == id[0]
<1>b. /\ Forest(f, {u}) /\ Unmixed(f) /\ DOMAIN f \subseteq Free /\ Suits(alloc, f[u])
  BY <1>15, <1>16
<1> HIDE DEF u
<1>c. Sprout(f, u, failure, alloc)
  BY <1>b, <1>17 DEF Sprout
<1>18. WellBuilt(Value(f, u, failure), alloc)
  BY <1>c, ValueBuilt
<1> QED BY <1>1, <1>18 DEF u

LEMMA ArraysBuilt ==
  ASSUME Free # {}, NEW alloc \in Allocs, NEW w \in NewArrays(alloc)
  PROVE  WellBuilt(w, alloc)
<1>1. CASE \E t \in {"int", "str"}, len \in ArrayLens : Fits(0..len) /\ w = NewArray(alloc, t, len, "none")
  BY <1>1, ArrayBuilt
<1>2. CASE MayFail /\ w = Crashed("store")
  BY <1>2, CrashedBuilt DEF MayFail
<1>3. CASE MayFail /\ \E len \in ArrayLens : len = 0 /\ Fits(0..len) /\ w = NewArray(alloc, "int", len, "store")
  BY <1>3, ArrayBuilt DEF MayFail
<1>4. CASE MayFail /\ \E len \in ArrayLens : Fits(0..len) /\ w = NewArray(alloc, "str", len, "str")
  BY <1>4, ArrayBuilt DEF MayFail
<1> QED BY <1>1, <1>2, <1>3, <1>4 DEF NewArrays

(***************************************************************************)
(* Deep copies.  What is copied of the tree of s is all of it, but for the *)
(* subtree of one element that is left out.                                *)
(***************************************************************************)
Pruned(f, s, T, bad, gone) ==
  T = Subtree(f, s) /\ bad \in T /\ (gone = {} \/ (bad # s /\ gone = Subtree(f, bad)))

LEMMA GoneFacts ==
  ASSUME NEW f, NEW R, Forest(f, R), NEW s \in DOMAIN f, NEW T, NEW bad, NEW gone, Pruned(f, s, T, bad, gone)
  PROVE  /\ T \subseteq DOMAIN f /\ s \in T \ gone
         /\ \A x \in T : KidSet(f, x) \subseteq T
         /\ \A x \in T \ gone : x # s => f[x].up \in T \ gone /\ f[x].up # NULL /\ x \in KidSet(f, f[x].up)
         /\ \A x \in T \ gone : KidSet(f, x) \cap gone \subseteq {bad}
         /\ \A x \in T : \A y \in KidSet(f, x) : y # s /\ f[y].up = x
         /\ Closed(f, gone) /\ gone \subseteq T
         /\ \A S \in SUBSET DOMAIN f : s \in S /\ Closed(f, S) => T \subseteq S
<1>1. Linked(f, R) /\ Grounded(f, R)
  BY DEF Forest
<1>p. T = Subtree(f, s) /\ bad \in T /\ (gone = {} \/ (bad # s /\ gone = Subtree(f, bad)))
  BY DEF Pruned
<1>2. \A z \in DOMAIN f : KidSet(f, z) \subseteq DOMAIN f
  BY <1>1, LinkFacts
<1>3. /\ T \subseteq DOMAIN f /\ s \in T /\ Closed(f, T)
      /\ \A S \in SUBSET DOMAIN f : s \in S /\ Closed(f, S) => T \subseteq S
  BY <1>2, <1>p, SubtreeFacts
<1>4. \A x \in T : KidSet(f, x) \subseteq T
  BY <1>3 DEF Closed
<1>5. Closed(f, gone) /\ gone \subseteq T
  <2>1. CASE gone = {}
    BY <2>1 DEF Closed
  <2>2. CASE gone = Subtree(f, bad)
    BY <1>2, <1>3, <1>p, <2>2, SubtreeFacts, SubtreeBelow
  <2> QED BY <1>p, <2>1, <2>2
<1>6. s \notin gone
  <2>1. CASE gone # {}
    <3>1. bad # s /\ gone = Subtree(f, bad)
      BY <1>p, <2>1
    <3> QED BY <1>1, <1>p, <3>1, Above
  <2> QED BY <2>1
<1>7. ASSUME NEW x \in T \ gone, x # s
      PROVE  f[x].up \in T \ gone /\ f[x].up # NULL /\ x \in KidSet(f, f[x].up)
  <2>1. f[x].up \in T /\ f[x].up # NULL
    BY <1>1, <1>7, <1>p, SubtreeUp
  <2>2. x \in KidSet(f, f[x].up)
    BY <1>1, <1>3, <2>1 DEF Linked
  <2> QED BY <1>5, <2>1, <2>2 DEF Closed
<1>8. ASSUME NEW x \in T \ gone, NEW y \in KidSet(f, x) \cap gone PROVE y = bad
  <2> SUFFICES ASSUME y # bad PROVE FALSE
    OBVIOUS
  <2>1. gone = Subtree(f, bad) /\ f[y].up = x /\ bad \in DOMAIN f
    BY <1>1, <1>3, <1>p DEF Linked
  <2>2. x \in gone
    BY <1>1, <2>1, SubtreeUp
  <2> QED BY <2>2
<1>9. ASSUME NEW x \in T, NEW y \in KidSet(f, x) PROVE y # s /\ f[y].up = x
  <2>1. f[y].up = x /\ x \in DOMAIN f
    BY <1>1, <1>3 DEF Linked
  <2>2. CASE y = s
    <3>1. x \notin Subtree(f, s)
      BY <1>1, <2>1, <2>2, NoCycle
    <3> QED BY <1>p, <3>1
  <2> QED BY <2>1, <2>2
<1> QED BY <1>3, <1>4, <1>5, <1>6, <1>7, <1>8, <1>9

(* g is a copy of what is in T but not gone, that of x at at[x].           *)
Image(g, f, s, target, T, gone, at) ==
  /\ DOMAIN g = {at[x] : x \in T \ gone} /\ g = [n \in DOMAIN g |-> g[n]]
  /\ \A x \in T \ gone :
       LET y == g[at[x]]
       IN /\ y \in NodeSet(DOMAIN g)
          /\ (y.type = f[x].type \/ (f[x].type = "str" /\ y.type = "nostr"))
          /\ y.alloc = CopyAlloc(s, target, x)
          /\ y.up = IF x = s THEN NULL ELSE at[f[x].up]
          /\ x # s => y.key = f[x].key
          /\ KidSet(g, at[x]) = {at[z] : z \in KidSet(f, x) \ gone}
          /\ IsInjective(y.kids) /\ Len(y.kids) <= y.cap
          /\ f[x].kids = <<>> => y.kids = <<>>

LEMMA ImageForest ==
  ASSUME NEW f, NEW R, Forest(f, R), NEW s \in DOMAIN f, NEW T, T = Subtree(f, s), NEW bad \in T, NEW gone,
         gone = {} \/ (bad # s /\ gone = Subtree(f, bad)),
         NEW at, \A x \in T : at[x] \in Free /\ at[x] # NULL,
         \A x, y \in T : at[x] = at[y] => x = y,
         NEW g, NEW target, Image(g, f, s, target, T, gone, at)
  PROVE  Forest(g, {at[s]}) /\ DOMAIN g \subseteq Free
<1>1. Linked(f, R) /\ Grounded(f, R) /\ Roomy(f)
  BY DEF Forest
<1>2. /\ T \subseteq DOMAIN f /\ s \in T \ gone
      /\ \A x \in T : KidSet(f, x) \subseteq T
      /\ \A x \in T \ gone : x # s => f[x].up \in T \ gone /\ f[x].up # NULL /\ x \in KidSet(f, f[x].up)
      /\ \A x \in T : \A y \in KidSet(f, x) : y # s /\ f[y].up = x
      /\ Closed(f, gone) /\ gone \subseteq T
      /\ \A S \in SUBSET DOMAIN f : s \in S /\ Closed(f, S) => T \subseteq S
  <2>1. Pruned(f, s, T, bad, gone)
    BY DEF Pruned
  <2> QED BY <2>1, GoneFacts
<1>3. DOMAIN g = {at[x] : x \in T \ gone} /\ g = [n \in DOMAIN g |-> g[n]]
  BY DEF Image
<1>4. DOMAIN g \subseteq Free /\ NULL \notin DOMAIN g /\ at[s] \in DOMAIN g
  BY <1>2, <1>3
<1>5. ASSUME NEW x \in T \ gone
      PROVE  /\ at[x] \in DOMAIN g
             /\ g[at[x]] \in NodeSet(DOMAIN g)
             /\ (g[at[x]].type = f[x].type \/ (f[x].type = "str" /\ g[at[x]].type = "nostr"))
             /\ g[at[x]].up = IF x = s THEN NULL ELSE at[f[x].up]
             /\ x # s => g[at[x]].key = f[x].key
             /\ KidSet(g, at[x]) = {at[z] : z \in KidSet(f, x) \ gone}
             /\ IsInjective(g[at[x]].kids) /\ Len(g[at[x]].kids) <= g[at[x]].cap
             /\ f[x].kids = <<>> => g[at[x]].kids = <<>>
  BY <1>3, ZenonT(60) DEF Image
<1>6. Linked(g, {at[s]})
  <2>1. \A n \in DOMAIN g : g[n] \in NodeSet(DOMAIN g)
    BY <1>3, <1>5
  <2>2. g \in [DOMAIN g -> NodeSet(DOMAIN g)]
    BY <1>3, <2>1
  <2>3. ASSUME NEW x \in T \ gone
        PROVE  /\ g[at[x]].up = NULL <=> at[x] = at[s]
               /\ \A m \in KidSet(g, at[x]) : g[m].up = at[x]
               /\ g[at[x]].up # NULL => at[x] \in KidSet(g, g[at[x]].up)
    <3>1. CASE x = s
      <4>1. g[at[x]].up = NULL
        BY <1>5, <3>1
      <4>2. ASSUME NEW z \in KidSet(f, x) \ gone PROVE g[at[z]].up = at[x]
        <5>1. z \in T \ gone /\ z # s /\ f[z].up = x
          BY <1>2
        <5> QED BY <1>5, <5>1
      <4> QED BY <1>5, <3>1, <4>1, <4>2
    <3>2. CASE x # s
      <4>1. /\ g[at[x]].up = at[f[x].up] /\ f[x].up \in T \ gone /\ x \in KidSet(f, f[x].up) \ gone
        BY <1>2, <1>5, <3>2
      <4>a. f[x].up \in T /\ s \in T /\ x \in T
        BY <1>2, <4>1
      <4>2. at[f[x].up] # NULL /\ at[x] # at[s]
        BY <3>2, <4>a
      <4>3. at[x] \in KidSet(g, at[f[x].up])
        BY <1>5, <4>1
      <4>4. ASSUME NEW z \in KidSet(f, x) \ gone PROVE g[at[z]].up = at[x]
        <5>1. z \in T \ gone /\ z # s /\ f[z].up = x
          BY <1>2
        <5> QED BY <1>5, <5>1
      <4> QED BY <1>5, <4>1, <4>2, <4>3, <4>4
    <3> QED BY <3>1, <3>2
  <2>4. \A n \in DOMAIN g : /\ g[n].up = NULL <=> n \in {at[s]}
                            /\ \A m \in KidSet(g, n) : g[m].up = n
                            /\ g[n].up # NULL => n \in KidSet(g, g[n].up)
    BY <1>3, <2>3
  <2> QED BY <1>4, <2>2, <2>4 DEF Linked
<1>7. Roomy(g)
  <2>1. ASSUME NEW x \in T \ gone
        PROVE  /\ IsInjective(g[at[x]].kids)
               /\ Len(g[at[x]].kids) <= g[at[x]].cap
               /\ g[at[x]].kids # <<>> => g[at[x]].type \in {"obj", "arr"}
    <3>1. /\ f[x].kids # <<>> => f[x].type \in {"obj", "arr"}
      BY <1>1, <1>2 DEF Roomy
    <3> QED BY <1>5, <3>1
  <2>2. ASSUME NEW x \in T \ gone, g[at[x]].type = "obj", NEW m \in KidSet(g, at[x]),
               NEW n \in KidSet(g, at[x]), m # n
        PROVE  g[m].key # g[n].key
    <3>1. PICK y \in KidSet(f, x) \ gone : m = at[y]
      BY <1>5
    <3>2. PICK z \in KidSet(f, x) \ gone : n = at[z]
      BY <1>5
    <3>3. /\ y \in T \ gone /\ y # s /\ z \in T \ gone /\ z # s /\ y # z
      BY <1>2, <2>2, <3>1, <3>2
    <3>4. f[x].type = "obj"
      BY <1>5, <2>2
    <3>5. f[y].key # f[z].key
      BY <1>1, <1>2, <3>3, <3>4 DEF Roomy
    <3> QED BY <1>5, <3>1, <3>2, <3>3, <3>5
  <2>3. ASSUME NEW q \in DOMAIN g
        PROVE  /\ IsInjective(g[q].kids)
               /\ Len(g[q].kids) <= g[q].cap
               /\ g[q].type = "obj" => \A m, n \in KidSet(g, q) : m # n => g[m].key # g[n].key
               /\ g[q].kids # <<>> => g[q].type \in {"obj", "arr"}
    <3>1. PICK x \in T \ gone : q = at[x]
      BY <1>3
    <3> QED BY <2>1, <2>2, <3>1
  <2> QED BY <2>3 DEF Roomy
<1>8. Grounded(g, {at[s]})
  <2> SUFFICES ASSUME NEW S \in SUBSET DOMAIN g, at[s] \in S, Closed(g, S)
               PROVE  DOMAIN g \subseteq S
    BY DEF Grounded
  <2> DEFINE A == {x \in T \ gone : at[x] \in S} \cup gone
  <2>1. A \subseteq DOMAIN f /\ s \in A
    BY <1>2
  <2>2. Closed(f, A)
    <3> SUFFICES ASSUME NEW x \in A, NEW y \in KidSet(f, x), y \notin gone PROVE y \in T /\ at[y] \in S
      BY DEF Closed
    <3>1. x \in T \ gone /\ at[x] \in S
      BY <1>2 DEF Closed
    <3>a. KidSet(g, at[x]) = {at[z] : z \in KidSet(f, x) \ gone}
      BY <1>5, <3>1
    <3>b. y \in KidSet(f, x) \ gone /\ y \in T
      BY <1>2, <3>1
    <3>2. y \in T /\ at[y] \in KidSet(g, at[x])
      BY <3>a, <3>b
    <3> QED BY <3>1, <3>2 DEF Closed
  <2>3. T \subseteq A
    BY <1>2, <2>1, <2>2
  <2> QED BY <1>3, <2>3
<1> QED BY <1>4, <1>6, <1>7, <1>8 DEF Forest

LEMMA ImageUnmixed ==
  ASSUME Kept, NEW s \in DOMAIN nodes, NEW T, T = Subtree(nodes, s), NEW gone,
         NEW at, NEW g, NEW target, Image(g, nodes, s, target, T, gone, at)
  PROVE  Unmixed(g)
<1>1. \A z \in DOMAIN nodes : KidSet(nodes, z) \subseteq DOMAIN nodes
  BY LinkFacts DEF Kept, Books, Forest
<1>2. T \subseteq DOMAIN nodes /\ Closed(nodes, T)
  BY <1>1, SubtreeFacts
<1>3. DOMAIN g = {at[x] : x \in T \ gone}
  BY DEF Image
<1>4. \A x \in T \ gone : /\ g[at[x]].alloc = CopyAlloc(s, target, x)
                          /\ KidSet(g, at[x]) = {at[z] : z \in KidSet(nodes, x) \ gone}
  BY DEF Image
<1> SUFFICES ASSUME NEW n \in DOMAIN g, NEW m \in KidSet(g, n) PROVE Suits(g[n].alloc, g[m])
  BY DEF Unmixed
<1>5. PICK x \in T \ gone : n = at[x]
  BY <1>3
<1>6. PICK z \in KidSet(nodes, x) \ gone : m = at[z]
  BY <1>4, <1>5
<1>7. z \in T \ gone
  BY <1>2, <1>6 DEF Closed
<1>8. CopyAlloc(s, target, x) = "custom" => CopyAlloc(s, target, z) = "custom"
  <2>1. ASSUME NEW y \in Subtree(nodes, s), x \in Subtree(nodes, y) PROVE z \in Subtree(nodes, y)
    <3>1. y \in DOMAIN nodes
      BY <1>2
    <3>2. Closed(nodes, Subtree(nodes, y))
      BY <1>1, <3>1, SubtreeFacts
    <3> QED BY <1>6, <2>1, <3>2 DEF Closed
  <2> QED BY <2>1 DEF CopyAlloc
<1> QED BY <1>4, <1>5, <1>6, <1>7, <1>8 DEF Suits

(* The kids without one of them. *)
LEMMA WithoutFacts ==
  ASSUME NEW S, NEW ks \in Seq(S), IsInjective(ks), NEW y
  PROVE  /\ Without(ks, y) \in Seq(S) /\ IsInjective(Without(ks, y))
         /\ Range(Without(ks, y)) = Range(ks) \ {y}
         /\ Len(Without(ks, y)) <= Len(ks)
<1>1. Len(ks) \in Nat /\ DOMAIN ks = 1..Len(ks) /\ \A i \in 1..Len(ks) : ks[i] \in S
  BY SeqElements
<1>2. CASE y \notin Range(ks)
  BY <1>1, <1>2 DEF Without
<1>3. CASE y \in Range(ks)
  <2> DEFINE j == CHOOSE j \in DOMAIN ks : ks[j] = y
             t == [i \in 1..Len(ks) - 1 |-> ks[IF i < j THEN i ELSE i + 1]]
  <2>1. j \in 1..Len(ks) /\ ks[j] = y
    BY <1>1, <1>3 DEF Range
  <2>2. Without(ks, y) = t
    BY <1>3 DEF Without
  <2> HIDE DEF j
  <2>3. Len(ks) - 1 \in Nat /\ \A i \in 1..Len(ks) - 1 : (IF i < j THEN i ELSE i + 1) \in 1..Len(ks)
    BY <1>1, <2>1
  <2>4. t \in [1..Len(ks) - 1 -> S]
    BY <1>1, <2>3
  <2>5. t \in Seq(S) /\ Len(t) = Len(ks) - 1 /\ DOMAIN t = 1..Len(ks) - 1
    BY <2>3, <2>4
  <2>6. \A a, b \in 1..Len(ks) : ks[a] = ks[b] => a = b
    BY <1>1 DEF IsInjective
  <2>7. \A i \in 1..Len(ks) - 1 : t[i] = ks[IF i < j THEN i ELSE i + 1]
    OBVIOUS
  <2> HIDE DEF t
  <2>8. IsInjective(t)
    <3>1. ASSUME NEW a \in 1..Len(ks) - 1, NEW b \in 1..Len(ks) - 1, t[a] = t[b] PROVE a = b
      <4> DEFINE aa == IF a < j THEN a ELSE a + 1
                 bb == IF b < j THEN b ELSE b + 1
      <4>1. aa \in 1..Len(ks) /\ bb \in 1..Len(ks) /\ ks[aa] = ks[bb]
        BY <2>3, <2>7, <3>1
      <4>2. aa = bb
        BY <2>6, <4>1
      <4> QED BY <2>1, <4>2
    <3> QED BY <2>5, <3>1 DEF IsInjective
  <2>9. Range(t) = Range(ks) \ {y}
    <3>1. ASSUME NEW i \in 1..Len(ks) - 1 PROVE t[i] \in Range(ks) /\ t[i] # y
      <4> DEFINE aa == IF i < j THEN i ELSE i + 1
      <4>1. aa \in 1..Len(ks) /\ t[i] = ks[aa] /\ aa # j
        BY <2>1, <2>3, <2>7
      <4> HIDE DEF aa
      <4> QED BY <1>1, <2>1, <2>6, <4>1 DEF Range
    <3>2. ASSUME NEW a \in 1..Len(ks), ks[a] # y PROVE \E i \in 1..Len(ks) - 1 : t[i] = ks[a]
      <4>1. a # j
        BY <2>1, <3>2
      <4>2. CASE a < j
        <5>1. a \in 1..Len(ks) - 1
          BY <1>1, <2>1, <4>2
        <5>2. t[a] = ks[a]
          BY <2>7, <4>2, <5>1
        <5> QED BY <5>1, <5>2
      <4>3. CASE a > j
        <5>1. a - 1 \in 1..Len(ks) - 1 /\ ~ (a - 1 < j) /\ (a - 1) + 1 = a
          BY <1>1, <2>1, <4>3
        <5>2. t[a - 1] = ks[a]
          BY <2>7, <5>1
        <5> QED BY <5>1, <5>2
      <4> QED BY <1>1, <2>1, <4>1, <4>2, <4>3
    <3>3. ASSUME NEW z \in Range(ks) \ {y} PROVE z \in Range(t)
      <4>1. PICK a \in 1..Len(ks) : z = ks[a]
        BY <1>1 DEF Range
      <4>2. PICK i \in 1..Len(ks) - 1 : t[i] = ks[a]
        BY <3>2, <4>1
      <4> QED BY <2>5, <4>1, <4>2 DEF Range
    <3>4. Range(t) \subseteq Range(ks) \ {y}
      BY <2>5, <3>1 DEF Range
    <3> QED BY <3>3, <3>4
  <2>10. Len(t) <= Len(ks)
    BY <1>1, <2>5
  <2> QED BY <2>2, <2>5, <2>8, <2>9, <2>10
<1> QED BY <1>2, <1>3

Mapped(ks, at) == [i \in DOMAIN ks |-> at[ks[i]]]

LEMMA MappedFacts ==
  ASSUME NEW S, NEW ks \in Seq(S), IsInjective(ks), NEW at, NEW Q, \A x \in S : at[x] \in Q,
         \A x, y \in S : at[x] = at[y] => x = y
  PROVE  /\ Mapped(ks, at) \in Seq(Q) /\ IsInjective(Mapped(ks, at))
         /\ Len(Mapped(ks, at)) = Len(ks)
         /\ Range(Mapped(ks, at)) = {at[z] : z \in Range(ks)}
<1> DEFINE t == Mapped(ks, at)
<1>1. Len(ks) \in Nat /\ DOMAIN ks = 1..Len(ks) /\ \A i \in 1..Len(ks) : ks[i] \in S
  BY SeqElements
<1>2. t \in [1..Len(ks) -> Q] /\ \A i \in 1..Len(ks) : t[i] = at[ks[i]]
  BY <1>1 DEF Mapped
<1> HIDE DEF t
<1>3. t \in Seq(Q) /\ Len(t) = Len(ks) /\ DOMAIN t = 1..Len(ks)
  BY <1>1, <1>2
<1>4. IsInjective(t)
  <2>1. \A i, j \in 1..Len(ks) : ks[i] = ks[j] => i = j
    BY <1>1 DEF IsInjective
  <2> QED BY <1>1, <1>2, <1>3, <2>1 DEF IsInjective
<1>5. Range(t) = {at[z] : z \in Range(ks)}
  BY <1>1, <1>2, <1>3 DEF Range
<1> QED BY <1>3, <1>4, <1>5 DEF t

LEMMA BlocksInside ==
  ASSUME NEW f, NEW n
  PROVE  \A b \in Contents(f, n) : b.node \in DOMAIN f
<1> SUFFICES ASSUME NEW b \in Contents(f, n) PROVE b.node \in DOMAIN f
  OBVIOUS
<1>1. PICK x \in Subtree(f, n) : b \in Owed(f, x)
  BY DEF Contents, Owed
<1>2. x \in DOMAIN f
  BY DEF Subtree
<1> QED BY <1>1, <1>2, OwnBlocks

(* What the copies that _yml_mk_node returns leave out, if anything. *)
CopyCase(s, what, bad) ==
  /\ bad \in Subtree(nodes, s)
  /\ what \in {"shell", "key"} => bad # s
  /\ what = "str" => nodes[bad].type = "str"
  /\ what \in {"store", "table"} => nodes[bad].kids = <<>>

LEMMA CopyBuilt ==
  ASSUME Kept, NEW s \in DOMAIN nodes, Fits(Subtree(nodes, s)), NEW target \in Allocs, NEW what, NEW bad,
         CopyCase(s, what, bad), what # "none" => failed = "none", ~ NoStorage(s, {"arr", "obj"})
  PROVE  WellBuilt(Copy(s, target, what, bad), target)
<1> DEFINE T     == Subtree(nodes, s)
           gone  == IF what \in {"shell", "key"} THEN Subtree(nodes, bad) ELSE {}
           at    == Named(T)
           kids(x) == IF bad \in gone THEN Without(nodes[x].kids, bad) ELSE nodes[x].kids
           room(x) == IF nodes[x].type = "arr" THEN AtLeastOne(Len(nodes[x].kids)) ELSE nodes[x].cap
           cap(x)  == IF what \in {"store", "table"} /\ bad = x THEN 0 ELSE room(x)
           copy(x, ks) ==
             [type  |-> IF what = "str" /\ bad = x THEN "nostr" ELSE nodes[x].type,
              alloc |-> CopyAlloc(s, target, x),
              up    |-> IF x = s THEN NULL ELSE at[nodes[x].up],
              key   |-> IF x = s THEN NoKey ELSE nodes[x].key,
              kids  |-> [i \in DOMAIN ks |-> at[ks[i]]],
              cap   |-> cap(x)]
           original(n) == CHOOSE x \in T : at[x] = n
           kept  == [n \in {at[x] : x \in T \ gone} |-> copy(original(n), kids(original(n)))]
           whole == [n \in Range(at) |-> copy(original(n), nodes[original(n)].kids)]
           lost  == IF what = "key" THEN Contents(whole, at[bad]) ELSE {}
<1>1. Copy(s, target, what, bad) = [Value(kept, at[s], what) EXCEPT !.blocks = @ \cup lost]
  BY DEF Copy
<1>2. Forest(nodes, roots) /\ Linked(nodes, roots) /\ Roomy(nodes)
  BY DEF Kept, Books, Forest
<1>3. /\ at \in [T -> Free]
      /\ \A x \in T : at[x] \in Free /\ at[x] # NULL
      /\ \A x, y \in T : at[x] = at[y] => x = y
  BY NamedFacts
<1>4. bad \in T /\ (gone = {} \/ (bad # s /\ gone = Subtree(nodes, bad)))
  BY DEF CopyCase
<1>5. T \subseteq DOMAIN nodes
  BY <1>2, LinkFacts, SubtreeFacts
<1>6. bad \notin gone => gone = {}
  BY <1>2, <1>4, <1>5, LinkFacts, SubtreeFacts
<1>7. DOMAIN whole = Range(at)
  OBVIOUS
<1> HIDE DEF T, at, whole
<1>a. T = Subtree(nodes, s)
  BY DEF T
<1> HIDE DEF gone
<1>8. /\ s \in T \ gone
      /\ \A x \in T : KidSet(nodes, x) \subseteq T
      /\ \A x \in T \ gone : x # s => nodes[x].up \in T \ gone /\ nodes[x].up # NULL
      /\ \A x \in T \ gone : KidSet(nodes, x) \cap gone \subseteq {bad}
  <2>1. Pruned(nodes, s, T, bad, gone)
    BY <1>4, <1>a DEF Pruned
  <2> QED BY <1>2, <2>1, GoneFacts
<1>9. DOMAIN kept = {at[x] : x \in T \ gone} /\ kept = [n \in DOMAIN kept |-> kept[n]]
  OBVIOUS
<1>10. ASSUME NEW x \in T \ gone PROVE kept[at[x]] = copy(x, kids(x))
  <2>1. original(at[x]) = x
    BY <1>3
  <2>2. at[x] \in {at[z] : z \in T \ gone}
    OBVIOUS
  <2> HIDE DEF original, copy, kids
  <2> QED BY <2>1, <2>2
<1> HIDE DEF kept, original
(* The kids that are copied, and the room for them. *)
<1>11. ASSUME NEW x \in T \ gone
       PROVE  /\ kids(x) \in Seq(KidSet(nodes, x) \ gone) /\ IsInjective(kids(x))
              /\ Range(kids(x)) = KidSet(nodes, x) \ gone
              /\ Len(kids(x)) \in Nat /\ Len(kids(x)) <= Len(nodes[x].kids)
              /\ nodes[x].kids = <<>> => kids(x) = <<>>
  <2>1. x \in DOMAIN nodes
    BY <1>5
  <2>2. /\ nodes[x].kids \in Seq(KidSet(nodes, x)) /\ IsInjective(nodes[x].kids)
        /\ Range(nodes[x].kids) = KidSet(nodes, x) /\ Len(nodes[x].kids) \in Nat
    <3>1. nodes[x].kids \in Seq(DOMAIN nodes) /\ IsInjective(nodes[x].kids)
      BY <1>2, <2>1, LinkFacts DEF NodeSet, Roomy
    <3> QED BY <3>1 DEF KidSet, Range
  <2>3. CASE bad \in gone
    <3>1. kids(x) = Without(nodes[x].kids, bad)
      BY <2>3
    <3>2. /\ kids(x) \in Seq(KidSet(nodes, x)) /\ IsInjective(kids(x))
          /\ Range(kids(x)) = KidSet(nodes, x) \ {bad} /\ Len(kids(x)) <= Len(nodes[x].kids)
      BY <2>2, <3>1, WithoutFacts
    <3>3. KidSet(nodes, x) \ gone = KidSet(nodes, x) \ {bad}
      BY <1>8, <2>3
    <3> HIDE DEF kids
    <3>4. kids(x) \in Seq(KidSet(nodes, x) \ gone) /\ Len(kids(x)) \in Nat
      BY <3>2, <3>3 DEF Range
    <3>5. nodes[x].kids = <<>> => kids(x) = <<>>
      BY <2>2, <3>2, <3>4
    <3> QED BY <3>2, <3>3, <3>4, <3>5
  <2>4. CASE bad \notin gone
    <3>1. gone = {} /\ kids(x) = nodes[x].kids
      BY <1>6, <2>4
    <3> QED BY <2>2, <3>1
  <2> QED BY <2>3, <2>4
<1>12. ASSUME NEW x \in T \ gone
       PROVE  cap(x) \in Nat /\ Len(kids(x)) <= cap(x)
  <2>1. /\ nodes[x].cap \in Nat /\ Len(nodes[x].kids) \in Nat /\ Len(nodes[x].kids) <= nodes[x].cap
    BY <1>2, <1>5, LinkFacts DEF NodeSet, Roomy
  <2>2. what \in {"store", "table"} /\ bad = x => Len(nodes[x].kids) = 0
    <3>1. what \in {"store", "table"} /\ bad = x => nodes[x].kids = <<>>
      BY DEF CopyCase
    <3> QED BY <3>1
  <2>3. room(x) \in Nat /\ Len(nodes[x].kids) <= room(x)
    BY <2>1 DEF AtLeastOne
  <2> HIDE DEF room
  <2>4. cap(x) \in Nat /\ Len(nodes[x].kids) <= cap(x)
    BY <2>1, <2>2, <2>3
  <2> HIDE DEF cap, kids
  <2>5. Len(kids(x)) \in Nat /\ Len(kids(x)) <= Len(nodes[x].kids)
    BY <1>11
  <2>6. PICK a, b \in Nat : a = Len(kids(x)) /\ b = Len(nodes[x].kids)
    BY <2>1, <2>5
  <2>7. PICK c \in Nat : c = cap(x)
    BY <2>4
  <2>8. a <= b /\ b <= c
    BY <2>4, <2>5, <2>6, <2>7
  <2>9. a <= c
    BY <2>8
  <2> QED BY <2>6, <2>7, <2>9
<1> HIDE DEF kids
<1>13. ASSUME NEW x \in T \ gone
       PROVE  LET y == kept[at[x]]
              IN /\ y \in NodeSet(DOMAIN kept)
                 /\ (y.type = nodes[x].type \/ (nodes[x].type = "str" /\ y.type = "nostr"))
                 /\ y.alloc = CopyAlloc(s, target, x)
                 /\ y.up = IF x = s THEN NULL ELSE at[nodes[x].up]
                 /\ x # s => y.key = nodes[x].key
                 /\ KidSet(kept, at[x]) = {at[z] : z \in KidSet(nodes, x) \ gone}
                 /\ IsInjective(y.kids) /\ Len(y.kids) <= y.cap
                 /\ nodes[x].kids = <<>> => y.kids = <<>>
                 /\ y.cap = cap(x)
  <2> DEFINE y == kept[at[x]]
             ks == Mapped(kids(x), at)
             S == KidSet(nodes, x) \ gone
  <2>1. y = copy(x, kids(x))
    BY <1>10
  <2>2. S \subseteq T \ gone
    BY <1>8
  <2>3. \A z \in S : at[z] \in DOMAIN kept
    BY <1>9, <2>2
  <2>4. \A a, b \in S : at[a] = at[b] => a = b
    BY <1>3, <2>2
  <2>5. /\ kids(x) \in Seq(S) /\ IsInjective(kids(x)) /\ Range(kids(x)) = S
        /\ Len(kids(x)) \in Nat /\ nodes[x].kids = <<>> => kids(x) = <<>>
    BY <1>11
  <2> HIDE DEF S
  <2>6. /\ ks \in Seq(DOMAIN kept) /\ IsInjective(ks) /\ Len(ks) = Len(kids(x))
        /\ Range(ks) = {at[z] : z \in S}
    BY <2>3, <2>4, <2>5, MappedFacts
  <2> DEFINE tt == IF what = "str" /\ bad = x THEN "nostr" ELSE nodes[x].type
             aa == CopyAlloc(s, target, x)
             uu == IF x = s THEN NULL ELSE at[nodes[x].up]
             kk == IF x = s THEN NoKey ELSE nodes[x].key
             cc == cap(x)
  <2>7. y = [type |-> tt, alloc |-> aa, up |-> uu, key |-> kk, kids |-> ks, cap |-> cc]
    BY <2>1 DEF Mapped
  <2>8. /\ tt \in Types /\ (tt = nodes[x].type \/ (nodes[x].type = "str" /\ tt = "nostr"))
    <3>1. nodes[x].type \in Types
      BY <1>2, <1>5, LinkFacts DEF NodeSet
    <3>2. what = "str" /\ bad = x => nodes[x].type = "str"
      BY DEF CopyCase
    <3> QED BY <3>1, <3>2 DEF Types
  <2>9. aa \in Allocs
    BY DEF CopyAlloc, Allocs
  <2>10. uu \in (DOMAIN kept) \cup {NULL}
    BY <1>8, <1>9
  <2>11. kk \in Keys \cup {NoKey}
    BY <1>2, <1>5, LinkFacts DEF NodeSet
  <2>12. cc \in Nat /\ Len(ks) <= cc
    BY <1>12, <2>6
  <2>13. ks = <<>> <=> kids(x) = <<>>
    BY <2>5, <2>6
  <2>14. x # s => kk = nodes[x].key
    OBVIOUS
  <2>15. /\ aa = CopyAlloc(s, target, x) /\ uu = IF x = s THEN NULL ELSE at[nodes[x].up]
         /\ cc = cap(x)
    OBVIOUS
  <2> HIDE DEF y, ks, tt, aa, uu, kk, cc, cap
  <2>16. y \in NodeSet(DOMAIN kept)
    BY <2>6, <2>7, <2>8, <2>9, <2>10, <2>11, <2>12 DEF NodeSet
  <2>17. /\ y.type = tt /\ y.alloc = aa /\ y.up = uu /\ y.key = kk /\ y.kids = ks /\ y.cap = cc
    BY <2>7
  <2>18. KidSet(kept, at[x]) = {at[z] : z \in S}
    BY <2>6, <2>17 DEF KidSet, y
  <2> QED BY <2>5, <2>6, <2>8, <2>12, <2>13, <2>14, <2>15, <2>16, <2>17, <2>18 DEF y, S
<1> HIDE DEF copy
<1>14. Image(kept, nodes, s, target, T, gone, at)
  BY <1>9, <1>13 DEF Image
<1>15. Forest(kept, {at[s]}) /\ DOMAIN kept \subseteq Free
  BY <1>2, <1>3, <1>4, <1>14, <1>a, ImageForest
<1>16. Unmixed(kept)
  BY <1>14, <1>a, ImageUnmixed
<1>17. Suits(target, kept[at[s]])
  BY <1>8, <1>13 DEF Suits, CopyAlloc
<1>18. what = "none" => Stocked(kept)
  <2> SUFFICES ASSUME what = "none", NEW n \in DOMAIN kept, kept[n].type \in {"arr", "obj"}
               PROVE  kept[n].cap > 0
    BY DEF Stocked
  <2>1. PICK x \in T \ gone : n = at[x]
    BY <1>9
  <2>2. kept[n].cap = cap(x) /\ nodes[x].type \in {"arr", "obj"}
    BY <1>13, <2>1
  <2>3. nodes[x].cap \in Nat /\ nodes[x].cap # 0 /\ Len(nodes[x].kids) \in Nat
    BY <1>2, <1>5, <1>a, <2>2, LinkFacts DEF NodeSet, NoStorage
  <2> QED BY <2>2, <2>3 DEF AtLeastOne
<1> DEFINE u == at[s]
           w == Copy(s, target, what, bad)
<1>19. /\ w.forest = kept /\ w.root = u /\ w.failed = what /\ w.fatal = FALSE
       /\ w.blocks = Contents(kept, u) \cup lost
  BY <1>1 DEF Value
<1>20. \A b \in Contents(kept, u) \cup lost : b.node \in Free
  <2>1. \A b \in Contents(kept, u) : b.node \in Free
    BY <1>15, BlocksInside
  <2>2. \A b \in lost : b.node \in Free
    <3>1. \A b \in Contents(whole, at[bad]) : b.node \in Range(at)
      BY <1>7, BlocksInside
    <3>2. Range(at) \subseteq Free
      BY <1>3 DEF Range
    <3> QED BY <3>1, <3>2
  <2> QED BY <2>1, <2>2
<1>21. what = "none" => lost = {}
  OBVIOUS
<1> HIDE DEF u, w, lost
<1>22. Forest(kept, {u}) /\ Suits(target, kept[u])
  BY <1>15, <1>17 DEF u
<1>23. WellBuilt(w, target)
  BY <1>15, <1>16, <1>18, <1>19, <1>20, <1>21, <1>22 DEF WellBuilt
<1> QED BY <1>23 DEF w

(* A shell that would go to the wrong allocator: its node is misplaced. *)
LEMMA ShellMisplaced ==
  ASSUME Kept, NEW s \in DOMAIN nodes, NEW target, NEW x \in Subtree(nodes, s),
         ShellFreedBy(s, target, x) # CopyAlloc(s, target, x)
  PROVE  Misplaced(nodes)
<1>1. Linked(nodes, roots)
  BY DEF Kept, Books, Forest
<1>2. \A z \in DOMAIN nodes : KidSet(nodes, z) \subseteq DOMAIN nodes
  BY <1>1, LinkFacts
<1>3. /\ Subtree(nodes, s) \subseteq DOMAIN nodes
      /\ \A y \in DOMAIN nodes : y \in Subtree(nodes, y) /\ Closed(nodes, Subtree(nodes, y))
  BY <1>2, SubtreeFacts
<1>4. x # s /\ ShellFreedBy(s, target, x) = CopyAlloc(s, target, nodes[x].up)
  BY DEF ShellFreedBy
<1> DEFINE p == nodes[x].up
<1>5. p \in Subtree(nodes, s) /\ p # NULL /\ p \in DOMAIN nodes /\ x \in DOMAIN nodes
  BY <1>1, <1>3, <1>4, SubtreeUp
<1>6. x \in KidSet(nodes, p)
  BY <1>1, <1>5 DEF Linked
<1> HIDE DEF p
<1>7. CopyAlloc(s, target, p) # CopyAlloc(s, target, x)
  BY <1>4 DEF p
<1>8. ASSUME NEW y \in Subtree(nodes, s), p \in Subtree(nodes, y) PROVE x \in Subtree(nodes, y)
  <2>1. y \in DOMAIN nodes /\ Closed(nodes, Subtree(nodes, y))
    BY <1>3
  <2> QED BY <1>6, <1>8, <2>1 DEF Closed
<1>9. /\ ~ \E y \in Subtree(nodes, s) : nodes[y].alloc = "custom" /\ p \in Subtree(nodes, y)
      /\ \E y \in Subtree(nodes, s) : nodes[y].alloc = "custom" /\ x \in Subtree(nodes, y)
  BY <1>7, <1>8 DEF CopyAlloc
<1>10. PICK y \in Subtree(nodes, s) : nodes[y].alloc = "custom" /\ x \in Subtree(nodes, y)
  BY <1>9
<1>11. y = x
  <2> SUFFICES ASSUME y # x PROVE FALSE
    OBVIOUS
  <2>1. p \in Subtree(nodes, y)
    BY <1>1, <1>3, <1>10, SubtreeUp DEF p
  <2> QED BY <1>9, <1>10, <2>1
<1>12. nodes[p].alloc # "custom"
  BY <1>3, <1>5, <1>9
<1>13. nodes[p].alloc \in Allocs
  BY <1>1, <1>5, LinkFacts DEF NodeSet
<1>14. nodes[p].alloc = "malloc"
  BY <1>12, <1>13 DEF Allocs
<1> QED BY <1>5, <1>10, <1>11, <1>14 DEF Misplaced, p

LEMMA CopiesBuilt ==
  ASSUME Kept, Free # {}, NEW s \in DOMAIN nodes, Fits(Subtree(nodes, s)), NEW target \in Allocs,
         NEW w \in Copies(s, target)
  PROVE  WellBuilt(w, target)
<1> DEFINE T == Subtree(nodes, s)
<1>1. Linked(nodes, roots)
  BY DEF Kept, Books, Forest
<1>2. s \in T /\ T \subseteq DOMAIN nodes
  BY <1>1, LinkFacts, SubtreeFacts
<1>3. CASE ~Sound(s) \/ NoStorage(s, {"arr", "obj"})
           \/ \E x \in T : ShellFreedBy(s, target, x) # CopyAlloc(s, target, x)
  <2>1. w = Crashed("none")
    BY <1>3 DEF Copies
  <2>2. failed # "none" \/ Misplaced(nodes)
    BY <1>3, NothingMissing, ShellMisplaced
  <2> QED BY <2>1, <2>2, CrashedBuilt
<1>4. CASE ~ (~Sound(s) \/ NoStorage(s, {"arr", "obj"})
              \/ \E x \in T : ShellFreedBy(s, target, x) # CopyAlloc(s, target, x))
  <2>1. \/ w = Copy(s, target, "none", s)
        \/ \E x \in T : /\ MayFail
                        /\ \E what \in Needs(s, x) :
                             w = CASE x = s /\ what = "shell" -> NodeNull("shell")
                                   [] what \in {"store", "table"} /\ nodes[x].kids # <<>> -> Crashed(what)
                                   [] OTHER -> Copy(s, target, what, x)
    BY <1>4 DEF Copies
  <2>2. ~ NoStorage(s, {"arr", "obj"})
    BY <1>4
  <2>3. CASE w = Copy(s, target, "none", s)
    <3>1. CopyCase(s, "none", s)
      BY <1>2 DEF CopyCase
    <3>2. \E what, bad : CopyCase(s, what, bad) /\ what = "none" /\ bad = s
      BY <3>1
    <3>3. PICK what, bad : CopyCase(s, what, bad) /\ what = "none" /\ bad = s
      BY <3>2
    <3>4. WellBuilt(Copy(s, target, what, bad), target)
      BY <2>2, <3>3, CopyBuilt
    <3> QED BY <2>3, <3>3, <3>4
  <2>4. ASSUME NEW x \in T, MayFail, NEW what \in Needs(s, x),
               w = CASE x = s /\ what = "shell" -> NodeNull("shell")
                     [] what \in {"store", "table"} /\ nodes[x].kids # <<>> -> Crashed(what)
                     [] OTHER -> Copy(s, target, what, x)
        PROVE  WellBuilt(w, target)
    <3>1. failed = "none"
      BY <2>4 DEF MayFail
    <3>2. CASE x = s /\ what = "shell"
      <4>1. w = NodeNull("shell")
        BY <2>4, <3>2
      <4> QED BY <3>1, <4>1, NullBuilt
    <3>3. CASE what \in {"store", "table"} /\ nodes[x].kids # <<>>
      <4>1. w = Crashed(what) /\ what # "none"
        BY <2>4, <3>3
      <4> QED BY <3>1, <4>1, CrashedBuilt
    <3>4. CASE ~ (x = s /\ what = "shell") /\ ~ (what \in {"store", "table"} /\ nodes[x].kids # <<>>)
      <4>1. w = Copy(s, target, what, x)
        BY <2>4, <3>4
      <4>2. what = "key" => x # s
        BY <2>4 DEF Needs
      <4>3. what = "str" => nodes[x].type = "str"
        BY <2>4 DEF Needs
      <4>4. CopyCase(s, what, x)
        BY <3>4, <4>2, <4>3 DEF CopyCase
      <4> QED BY <2>2, <3>1, <4>1, <4>4, CopyBuilt
    <3> QED BY <3>2, <3>3, <3>4
  <2> QED BY <2>1, <2>3, <2>4
<1> QED BY <1>3, <1>4

LEMMA BuildingStep ==
  ASSUME Kept, Building
  PROVE  Stepped /\ pc = "build"
<1>1. Linked(nodes, roots) /\ pc = "build"
  BY DEF Building, Kept, Books, Forest
<1>2. \A n \in DOMAIN nodes : nodes[n].alloc \in Allocs
  BY <1>1, LinkFacts DEF NodeSet
<1>3. ASSUME Free # {}, NEW alloc \in Allocs, NEW w \in CopiesOf(alloc) \cup {NodeNull("none")}
      PROVE  WellBuilt(w, alloc)
  <2>1. CASE w = NodeNull("none")
    BY <1>3, <2>1, NullBuilt
  <2>2. CASE w \in CopiesOf(alloc)
    <3>1. PICK s \in DOMAIN nodes : Fits(Subtree(nodes, s)) /\ w \in Copies(s, alloc)
      BY <2>2 DEF CopiesOf
    <3> QED BY <1>3, <3>1, CopiesBuilt
  <2> QED BY <1>3, <2>1, <2>2
<1>4. ASSUME Free # {}, NEW t \in {"obj", "arr"}, NEW alloc \in {"malloc", "custom"}, Create(t, alloc)
      PROVE  Stepped
  BY <1>1, <1>4, CreateStep DEF Allocs
<1>5. ASSUME Free # {}, NEW o \in Collections("obj"), NEW k \in Keys,
             MapAdd(o, k) \/ MapAddNode(o, k) \/ MapAddArr(o, k)
      PROVE  Stepped
  <2>1. o \in DOMAIN nodes /\ nodes[o].type = "obj" /\ nodes[o].alloc \in Allocs
    BY <1>2 DEF Collections
  <2>2. PICK w : WellBuilt(w, nodes[o].alloc) /\ map_insert(o, k, w)
    <3>1. CASE MapAdd(o, k)
      BY <1>5, <2>1, <3>1, ScalarsBuilt DEF MapAdd
    <3>2. CASE MapAddNode(o, k)
      BY <1>3, <1>5, <2>1, <3>2 DEF MapAddNode
    <3>3. CASE MapAddArr(o, k)
      BY <1>5, <2>1, <3>3, ArraysBuilt DEF MapAddArr
    <3> QED BY <1>5, <3>1, <3>2, <3>3
  <2> QED BY <1>1, <2>1, <2>2, MapInsertStep
<1>6. ASSUME Free # {}, NEW a \in Collections("arr"), ArrPush(a) \/ ArrPushNode(a) \/ ArrPushArr(a)
      PROVE  Stepped
  <2>1. a \in DOMAIN nodes /\ nodes[a].type = "arr" /\ nodes[a].alloc \in Allocs
    BY <1>2 DEF Collections
  <2>2. PICK w : WellBuilt(w, nodes[a].alloc) /\ da_push(a, w)
    <3>1. CASE ArrPush(a)
      BY <1>6, <2>1, <3>1, ScalarsBuilt DEF ArrPush
    <3>2. CASE ArrPushNode(a)
      BY <1>3, <1>6, <2>1, <3>2 DEF ArrPushNode
    <3>3. CASE ArrPushArr(a)
      BY <1>6, <2>1, <3>3, ArraysBuilt DEF ArrPushArr
    <3> QED BY <1>6, <3>1, <3>2, <3>3
  <2> QED BY <1>1, <2>1, <2>2, ArrPushStep
<1>7. ASSUME NEW n \in roots, Destroy(n) PROVE Stepped
  BY <1>1, <1>7, DestroyStep
<1> QED BY <1>1, <1>4, <1>5, <1>6, <1>7 DEF Building

(***************************************************************************)
(* Lookups.  What a walk comes to, in a forest f.                          *)
(***************************************************************************)
UnderIn(f, n, k) ==
  IF n # NULL /\ f[n].type = "obj" /\ KidAt(f, n, k) # {}
  THEN CHOOSE x \in KidAt(f, n, k) : TRUE ELSE NULL
TrailIn(f, n, path) ==
  LET at[i \in 0..Len(path)] == IF i = 0 THEN n ELSE UnderIn(f, at[i - 1], path[i])
  IN at
TypeIn(f, v) == IF f[v].type = "nostr" THEN "str" ELSE f[v].type

Answer(f, c) == TrailIn(f, c.root, c.query.path)[Len(c.query.path)]
Fitting(f, c) == Answer(f, c) # NULL /\ c.query.type \in {"any", TypeIn(f, Answer(f, c))}
Stuck(f, c) ==
  \E i \in 1..(Len(c.query.path) - 1) :
     LET v == TrailIn(f, c.root, c.query.path)[i] IN v # NULL /\ f[v].type # "obj"

LEMMA UnderFacts ==
  ASSUME NEW f, NEW R, Forest(f, R), NEW n \in DOMAIN f \cup {NULL}, NEW k
  PROVE  /\ UnderIn(f, n, k) \in DOMAIN f \cup {NULL}
         /\ n = NULL => UnderIn(f, n, k) = NULL
         /\ n # NULL => /\ f[n].type # "obj" => UnderIn(f, n, k) = NULL
                        /\ KidAt(f, n, k) = {} => UnderIn(f, n, k) = NULL
                        /\ f[n].type = "obj" => \A v \in KidAt(f, n, k) : v = UnderIn(f, n, k) /\ v \in DOMAIN f
<1>1. Linked(f, R) /\ Roomy(f)
  BY DEF Forest
<1>2. n # NULL => KidAt(f, n, k) \subseteq DOMAIN f
  BY <1>1, LinkFacts DEF KidAt
<1>3. ASSUME n # NULL, f[n].type = "obj", NEW v \in KidAt(f, n, k), NEW w \in KidAt(f, n, k) PROVE v = w
  BY <1>1, <1>3 DEF KidAt, Roomy
<1>4. KidAt(f, n, k) # {} => (CHOOSE x \in KidAt(f, n, k) : TRUE) \in KidAt(f, n, k)
  OBVIOUS
<1> QED BY <1>2, <1>3, <1>4 DEF UnderIn

LEMMA TrailFacts ==
  ASSUME NEW f, NEW R, Forest(f, R), NEW n \in DOMAIN f \cup {NULL}, NEW p \in Seq(Keys)
  PROVE  /\ Len(p) \in Nat
         /\ TrailIn(f, n, p)[0] = n
         /\ \A i \in 0..Len(p) : TrailIn(f, n, p)[i] \in DOMAIN f \cup {NULL}
         /\ \A i \in 1..Len(p) : TrailIn(f, n, p)[i] = UnderIn(f, TrailIn(f, n, p)[i - 1], p[i])
<1> DEFINE D == DOMAIN f \cup {NULL}
           L == Len(p)
           Right(e, i) == e[i] = UnderIn(f, e[i - 1], p[i])
           Upto(m) == \E e \in [0..L -> D] : e[0] = n /\ \A i \in 1..L : i <= m => Right(e, i)
           S == {m \in Nat : m <= L => Upto(m)}
<1>1. L \in Nat
  OBVIOUS
<1>2. \A x \in D : \A k : UnderIn(f, x, k) \in D
  BY UnderFacts
<1> HIDE DEF L, D
<1>3. Upto(0)
  <2>1. [i \in 0..L |-> n] \in [0..L -> D] /\ 0 \in 0..L
    BY <1>1 DEF D
  <2>2. \A i \in 1..L : ~ (i <= 0)
    BY <1>1
  <2> QED BY <2>1, <2>2
<1>4. ASSUME NEW m \in Nat, Upto(m), m + 1 <= L PROVE Upto(m + 1)
  <2>1. PICK e \in [0..L -> D] : e[0] = n /\ \A i \in 1..L : i <= m => Right(e, i)
    BY <1>4
  <2>2. m \in 0..L /\ m + 1 \in 0..L /\ m + 1 \in 1..L /\ 0 \in 0..L /\ m # m + 1
    BY <1>1, <1>4
  <2> DEFINE y == UnderIn(f, e[m], p[m + 1])
             u == [e EXCEPT ![m + 1] = y]
  <2>3. y \in D
    BY <1>2, <2>2
  <2> HIDE DEF y
  <2>4. u \in [0..L -> D] /\ u[m + 1] = y /\ \A i \in 0..L : i # m + 1 => u[i] = e[i]
    BY <2>2, <2>3
  <2> HIDE DEF u
  <2>5. u[0] = n
    BY <2>1, <2>2, <2>4
  <2>6. ASSUME NEW i \in 1..L, i <= m + 1 PROVE Right(u, i)
    <3>1. CASE i = m + 1
      <4>1. i - 1 = m /\ u[m] = e[m]
        BY <1>4, <2>2, <2>4, <3>1
      <4> QED BY <2>4, <3>1, <4>1 DEF y
    <3>2. CASE i # m + 1
      <4>1. i <= m /\ i \in 0..L /\ i - 1 \in 0..L /\ i - 1 # m + 1
        BY <1>1, <1>4, <2>6, <3>2
      <4>2. u[i] = e[i] /\ u[i - 1] = e[i - 1]
        BY <2>4, <3>2, <4>1
      <4> QED BY <2>1, <4>1, <4>2
    <3> QED BY <3>1, <3>2
  <2> QED BY <2>4, <2>5, <2>6
<1>5. Upto(L)
  <2> HIDE DEF Upto
  <2>1. S \in SUBSET Nat /\ 0 \in S /\ \A m \in S : m + 1 \in S
    <3>1. ASSUME NEW m \in S PROVE m + 1 \in S
      <4>1. m \in Nat /\ m + 1 \in Nat /\ (m + 1 <= L => m <= L)
        BY <1>1
      <4> QED BY <1>4, <4>1
    <3> QED BY <1>3, <3>1
  <2>2. S = Nat
    <3> HIDE DEF S
    <3> QED BY <2>1, SetInduction
  <2> QED BY <1>1, <2>2
<1>6. PICK e \in [0..L -> D] : e[0] = n /\ \A i \in 1..L : Right(e, i)
  <2>1. PICK e \in [0..L -> D] : e[0] = n /\ \A i \in 1..L : i <= L => Right(e, i)
    BY <1>5
  <2>2. \A i \in 1..L : i <= L
    BY <1>1
  <2> HIDE DEF Right
  <2> QED BY <2>1, <2>2
<1>7. e = [i \in 0..L |-> IF i = 0 THEN n ELSE UnderIn(f, e[i - 1], p[i])]
  <2>1. \A i \in 0..L : i = 0 \/ i \in 1..L
    BY <1>1
  <2> QED BY <1>6, <2>1
<1> DEFINE t == TrailIn(f, n, p)
<1>8. t = [i \in 0..L |-> IF i = 0 THEN n ELSE UnderIn(f, t[i - 1], p[i])]
  BY <1>7 DEF TrailIn, L
<1> HIDE DEF t
<1>9. 0 \in 0..L /\ \A i \in 1..L : i \in 0..L /\ i # 0 /\ i - 1 \in 0..L
  BY <1>1
<1>10. t[0] = n /\ \A i \in 1..L : t[i] = UnderIn(f, t[i - 1], p[i])
  BY <1>8, <1>9
<1>11. \A i \in 0..L : t[i] \in D
  <2> DEFINE V == {m \in Nat : m <= L => t[m] \in D}
  <2>1. 0 \in V
    BY <1>10 DEF D
  <2>2. ASSUME NEW m \in V PROVE m + 1 \in V
    <3>1. CASE m + 1 <= L
      <4>1. m \in Nat /\ m <= L /\ m + 1 \in 1..L /\ (m + 1) - 1 = m
        BY <1>1, <3>1
      <4>2. t[m + 1] = UnderIn(f, t[m], p[m + 1])
        BY <1>10, <4>1
      <4> QED BY <1>2, <4>1, <4>2
    <3> QED BY <3>1
  <2>3. V = Nat
    <3>1. V \in SUBSET Nat /\ \A m \in V : m + 1 \in V
      BY <2>2
    <3> HIDE DEF V
    <3> QED BY <2>1, <3>1, SetInduction
  <2> QED BY <1>1, <2>3
<1> QED BY <1>1, <1>10, <1>11 DEF t, L, D

(* A walk that has come to nothing ends there. *)
LEMMA TrailEnds ==
  ASSUME NEW f, NEW R, Forest(f, R), NEW n \in DOMAIN f \cup {NULL}, NEW p \in Seq(Keys),
         NEW i \in 0..Len(p), TrailIn(f, n, p)[i] = NULL
  PROVE  TrailIn(f, n, p)[Len(p)] = NULL
<1> DEFINE t == TrailIn(f, n, p)
           L == Len(p)
           V == {m \in Nat : i + m <= L => t[i + m] = NULL}
<1>1. /\ L \in Nat
      /\ \A j \in 1..L : t[j] = UnderIn(f, t[j - 1], p[j])
  BY TrailFacts
<1>2. \A k : UnderIn(f, NULL, k) = NULL
  BY DEF UnderIn
<1>a. t[i] = NULL /\ i \in 0..L
  OBVIOUS
<1> HIDE DEF t, L
<1>3. 0 \in V
  BY <1>1, <1>a
<1>4. ASSUME NEW m \in V PROVE m + 1 \in V
  <2>1. CASE i + (m + 1) <= L
    <3>1. m \in Nat /\ i + m <= L /\ i + (m + 1) \in 1..L /\ (i + (m + 1)) - 1 = i + m
      BY <1>1, <1>a, <2>1
    <3>2. t[i + (m + 1)] = UnderIn(f, t[i + m], p[i + (m + 1)])
      BY <1>1, <3>1
    <3>3. t[i + m] = NULL
      BY <3>1
    <3> QED BY <1>2, <3>1, <3>2, <3>3
  <2> QED BY <2>1
<1>5. V = Nat
  <2>1. V \in SUBSET Nat /\ \A m \in V : m + 1 \in V
    BY <1>4
  <2> HIDE DEF V
  <2> QED BY <1>3, <2>1, SetInduction
<1>6. L - i \in Nat /\ i + (L - i) = L
  BY <1>1, <1>a
<1>7. L - i \in V
  BY <1>5, <1>6
<1> QED BY <1>6, <1>7 DEF t, L

(***************************************************************************)
(* What each call of _YMLMapGet has come to: ok is the error state of its  *)
(* thread, why what has failed.  On its way it has the rest of the path    *)
(* left; where it found nothing a walk would not either.                   *)
(***************************************************************************)
Calls(f) == [lc : {"idle", "walk", "return", "found", "done"}, query : Queries \cup {[path |-> <<>>]},
             root : DOMAIN f \cup {NULL}, node : DOMAIN f \cup {NULL}, left : Seq(Keys), buf : BOOLEAN,
             ok : 0..2, found : DOMAIN f \cup {NULL}]

OnTheWay(f, c) ==
  \E i \in 0..(Len(c.query.path) - 1) :
    /\ c.node = TrailIn(f, c.root, c.query.path)[i] /\ c.node \in DOMAIN f /\ f[c.node].type = "obj"
    /\ Len(c.left) = Len(c.query.path) - i
    /\ \A j \in 1..(Len(c.query.path) - i) : c.left[j] = c.query.path[i + j]
Coded(f, c, ok, why) ==
  /\ ok = 1 => Answer(f, c) = NULL
  /\ ok = 2 => why = "buf" \/ (Answer(f, c) # NULL /\ ~ Fitting(f, c))

Good(f, c, ok, why) ==
  /\ c.lc # "idle" => c.query \in Queries /\ c.root \in DOMAIN f
  /\ c.lc = "walk" => ok = 0 /\ OnTheWay(f, c)
  /\ c.lc = "found" => ok = 0 /\ c.node = Answer(f, c) /\ Fitting(f, c) /\ c.buf = FALSE
  /\ c.lc = "return" => /\ ok \in {1, 2} /\ c.node = NULL /\ Coded(f, c, ok, why)
                        /\ c.buf = TRUE => Stuck(f, c)
  /\ c.lc = "done" => /\ c.ok = ok
                      /\ c.buf = TRUE => Stuck(f, c)
                      /\ ok = 0 => c.found = Answer(f, c) /\ Fitting(f, c)
                      /\ ok # 0 => c.found = NULL /\ Coded(f, c, ok, why)

Lookups ==
  /\ lookup \in [Threads -> Calls(nodes)] /\ g_ok \in [Threads -> 0..2]
  /\ \A t \in Threads : Good(nodes, lookup[t], g_ok[t], failed)
  /\ pc \in {"build", "crashed"} => \A t \in Threads : lookup[t] = NoLookup

LEMMA PathFacts ==
  ASSUME NEW c, c.query \in Queries
  PROVE  c.query.path \in Seq(Keys) /\ Len(c.query.path) \in Nat \ {0}
<1>1. c.query.path \in Seq(Keys) /\ c.query.path # <<>>
  BY QueriesAssumption
<1> QED BY <1>1

(* Two calls that ask the same of the same tree have the same answer. *)
LEMMA SameAnswer ==
  ASSUME NEW f, NEW c, NEW d, d.query = c.query, d.root = c.root
  PROVE  /\ Answer(f, d) = Answer(f, c) /\ (Fitting(f, d) <=> Fitting(f, c))
         /\ (Stuck(f, d) <=> Stuck(f, c))
BY DEF Answer, Fitting, Stuck

(* One call goes on, the others wait. *)
Moved(t, d, k) ==
  /\ lookup' = [lookup EXCEPT ![t] = d] /\ g_ok' = [g_ok EXCEPT ![t] = k]
  /\ nodes' = nodes /\ pc' = pc /\ pc \notin {"build", "crashed"}
  /\ failed' = failed \/ failed' = "buf"
  /\ d \in Calls(nodes) /\ k \in 0..2 /\ Good(nodes, d, k, failed')

LEMMA OneCall ==
  ASSUME Lookups, NEW t \in Threads, NEW d, NEW k, Moved(t, d, k)
  PROVE  Lookups'
<1>m. /\ lookup' = [lookup EXCEPT ![t] = d] /\ g_ok' = [g_ok EXCEPT ![t] = k]
      /\ nodes' = nodes /\ pc' = pc /\ pc \notin {"build", "crashed"}
      /\ failed' = failed \/ failed' = "buf"
      /\ d \in Calls(nodes) /\ k \in 0..2 /\ Good(nodes, d, k, failed')
  BY DEF Moved
<1>1. lookup' \in [Threads -> Calls(nodes')] /\ g_ok' \in [Threads -> 0..2]
  BY <1>m DEF Lookups
<1>2. ASSUME NEW u \in Threads PROVE Good(nodes', lookup'[u], g_ok'[u], failed')
  <2>1. CASE u = t
    <3>1. lookup'[u] = d /\ g_ok'[u] = k
      BY <1>m, <2>1 DEF Lookups
    <3> QED BY <1>m, <3>1
  <2>2. CASE u # t
    <3>1. lookup'[u] = lookup[u] /\ g_ok'[u] = g_ok[u] /\ Good(nodes, lookup[u], g_ok[u], failed)
      BY <1>m, <2>2 DEF Lookups
    <3>2. Good(nodes, lookup[u], g_ok[u], failed')
      <4>1. CASE failed' = failed
        BY <3>1, <4>1
      <4>2. CASE failed' = "buf"
        <5>1. Coded(nodes, lookup[u], g_ok[u], failed) => Coded(nodes, lookup[u], g_ok[u], failed')
          BY <4>2 DEF Coded
        <5> QED BY <3>1, <5>1 DEF Good
      <4> QED BY <1>m, <4>1, <4>2
    <3> QED BY <1>m, <3>1, <3>2
  <2> QED BY <2>1, <2>2
<1> QED BY <1>1, <1>2, <1>m DEF Lookups

LEMMA CallStep ==
  ASSUME Kept, Lookups, NEW t \in Threads, NEW q \in Queries, NEW n \in roots, GetCall(t, q, n)
  PROVE  Lookups'
<1>1. Forest(nodes, roots) /\ n \in DOMAIN nodes
  BY DEF Kept, Books, Forest, Linked
<1>2. q.path \in Seq(Keys) /\ Len(q.path) \in Nat \ {0} /\ q.split \in BOOLEAN
  BY QueriesAssumption
<1>3. pc = "read" /\ nodes[n].type = "obj" /\ nodes' = nodes /\ pc' = pc /\ lookup \in [Threads -> Calls(nodes)]
  BY DEF GetCall, Lookups, tree
<1>4. CASE /\ lookup' = [lookup EXCEPT ![t] = Call("walk", q, n, n, q.path, q.split)]
           /\ SetOk(t, 0) /\ UNCHANGED failed
  <2> DEFINE d == Call("walk", q, n, n, q.path, q.split)
  <2>1. /\ d \in Calls(nodes) /\ d.lc = "walk" /\ d.query = q /\ d.root = n /\ d.node = n
        /\ d.left = q.path
    BY <1>1, <1>2 DEF Call, Calls
  <2>2. lookup' = [lookup EXCEPT ![t] = d] /\ g_ok' = [g_ok EXCEPT ![t] = 0]
    BY <1>4 DEF SetOk
  <2> HIDE DEF d
  <2>3. OnTheWay(nodes, d)
    <3>1. TrailIn(nodes, n, q.path)[0] = n
      BY <1>1, <1>2, TrailFacts
    <3>2. 0 \in 0..(Len(q.path) - 1) /\ Len(q.path) - 0 = Len(q.path)
      BY <1>2
    <3>3. \A j \in 1..(Len(q.path) - 0) : q.path[j] = q.path[0 + j]
      BY <1>2
    <3> QED BY <1>1, <1>3, <2>1, <3>1, <3>2, <3>3 DEF OnTheWay
  <2>4. Good(nodes, d, 0, failed')
    BY <1>1, <2>1, <2>3 DEF Good
  <2>a. 0 \in 0..2 /\ pc \notin {"build", "crashed"}
    BY <1>3
  <2>5. Moved(t, d, 0)
    BY <2>a, <1>3, <1>4, <2>1, <2>2, <2>4 DEF Moved
  <2> QED BY <2>5, OneCall
<1>5. CASE /\ q.split /\ MayFail /\ failed' = "buf"
           /\ lookup' = [lookup EXCEPT ![t] = Call("return", q, n, NULL, <<>>, FALSE)]
           /\ SetOk(t, 2)
  <2> DEFINE d == Call("return", q, n, NULL, <<>>, FALSE)
  <2>1. /\ d \in Calls(nodes) /\ d.lc = "return" /\ d.query = q /\ d.root = n /\ d.node = NULL
        /\ d.buf = FALSE
    BY <1>1 DEF Call, Calls
  <2>2. lookup' = [lookup EXCEPT ![t] = d] /\ g_ok' = [g_ok EXCEPT ![t] = 2]
    BY <1>5 DEF SetOk
  <2> HIDE DEF d
  <2>3. Good(nodes, d, 2, failed')
    BY <1>1, <1>5, <2>1 DEF Good, Coded
  <2>a. 2 \in 0..2 /\ pc \notin {"build", "crashed"}
    BY <1>3
  <2>4. Moved(t, d, 2)
    BY <2>a, <1>3, <1>5, <2>1, <2>2, <2>3 DEF Moved
  <2> QED BY <2>4, OneCall
<1> QED BY <1>4, <1>5 DEF GetCall

LEMMA SegmentStep ==
  ASSUME Kept, Lookups, NEW t \in Threads, GetSegment(t)
  PROVE  Lookups'
<1> DEFINE c == lookup[t]
           p == c.query.path
           T == TrailIn(nodes, c.root, p)
           L == Len(p)
           hit == KidAt(nodes, c.node, Head(c.left))
           last == Len(c.left) = 1
<1>1. Forest(nodes, roots) /\ NULL \notin DOMAIN nodes
  BY DEF Kept, Books, Forest, Linked
<1>2. /\ c.lc = "walk" /\ c \in Calls(nodes) /\ Good(nodes, c, g_ok[t], failed)
      /\ nodes' = nodes /\ failed' = failed /\ pc' = pc
      /\ lookup \in [Threads -> Calls(nodes)] /\ g_ok \in [Threads -> 0..2]
  BY DEF GetSegment, Lookups, tree
<1>3. pc \notin {"build", "crashed"}
  <2>1. NoLookup.lc # "walk"
    BY DEF NoLookup, Call
  <2> QED BY <1>2, <2>1 DEF Lookups
<1>4. /\ c.query \in Queries /\ c.root \in DOMAIN nodes /\ g_ok[t] = 0 /\ OnTheWay(nodes, c)
  BY <1>2 DEF Good
<1>5. p \in Seq(Keys) /\ L \in Nat \ {0}
  BY <1>4, PathFacts
<1>6. PICK i \in 0..(L - 1) :
        /\ c.node = T[i] /\ c.node \in DOMAIN nodes /\ nodes[c.node].type = "obj"
        /\ Len(c.left) = L - i /\ \A j \in 1..(L - i) : c.left[j] = p[i + j]
  BY <1>4 DEF OnTheWay
<1>7. /\ i + 1 \in 1..L /\ i + 1 \in 0..L /\ (i + 1) - 1 = i /\ c.left \in Seq(Keys)
      /\ last <=> i + 1 = L
  BY <1>2, <1>5, <1>6 DEF Calls
<1>8. Head(c.left) = p[i + 1]
  <2>1. 1 \in 1..(L - i) /\ c.left # <<>>
    BY <1>5, <1>6, <1>7
  <2>2. Head(c.left) = c.left[1]
    BY <1>7, <2>1
  <2> QED BY <1>6, <2>1, <2>2
<1>9. /\ T[i + 1] = UnderIn(nodes, c.node, p[i + 1])
      /\ \A j \in 0..L : T[j] = NULL => T[L] = NULL
      /\ \A j \in 1..L : T[j] = UnderIn(nodes, T[j - 1], p[j])
  <2>1. \A j \in 1..L : T[j] = UnderIn(nodes, T[j - 1], p[j])
    BY <1>1, <1>4, <1>5, TrailFacts
  <2>2. \A j \in 0..L : T[j] = NULL => T[L] = NULL
    BY <1>1, <1>4, <1>5, TrailEnds
  <2>3. T[i + 1] = UnderIn(nodes, T[(i + 1) - 1], p[i + 1])
    BY <1>7, <2>1
  <2> QED BY <1>6, <1>7, <2>1, <2>2, <2>3
<1>10. c.node # NULL
  BY <1>1, <1>6
<1> HIDE DEF T, L, p, hit, last
<1>11. /\ hit = {} => T[i + 1] = NULL
       /\ \A v \in hit : v = T[i + 1] /\ v \in DOMAIN nodes
  <2>1. hit = KidAt(nodes, c.node, p[i + 1])
    BY <1>8 DEF hit
  <2> QED BY <1>1, <1>6, <1>9, <1>10, <2>1, UnderFacts
<1>12. Answer(nodes, c) = T[L]
  BY DEF Answer, T, L, p
(* The three ways to fail. *)
<1>13. ASSUME NEW code \in {1, 2}, NEW buf \in BOOLEAN, Fail(t, code, buf),
              buf = TRUE => Stuck(nodes, c), Coded(nodes, c, code, failed)
       PROVE  Lookups'
  <2> DEFINE d == [c EXCEPT !.lc = "return", !.buf = buf, !.node = NULL]
  <2>1. lookup' = [lookup EXCEPT ![t].lc = "return", ![t].buf = buf, ![t].node = NULL]
        /\ g_ok' = [g_ok EXCEPT ![t] = code]
    BY <1>13 DEF Fail, SetOk
  <2>2. lookup' = [lookup EXCEPT ![t] = d]
    BY <1>2, <2>1
  <2>3. /\ d.lc = "return" /\ d.query = c.query /\ d.root = c.root /\ d.node = NULL /\ d.buf = buf
        /\ d \in Calls(nodes)
    BY <1>2 DEF Calls
  <2> HIDE DEF d, c
  <2>4. /\ Answer(nodes, d) = Answer(nodes, c) /\ (Fitting(nodes, d) <=> Fitting(nodes, c))
        /\ (Stuck(nodes, d) <=> Stuck(nodes, c))
    BY <2>3, SameAnswer
  <2>5. Coded(nodes, d, code, failed)
    BY <1>13, <2>4 DEF Coded
  <2>6. Good(nodes, d, code, failed')
    BY <1>2, <1>4, <1>13, <2>3, <2>4, <2>5 DEF Good
  <2>7. code \in 0..2
    OBVIOUS
  <2>8. Moved(t, d, code)
    BY <1>2, <1>3, <2>1, <2>2, <2>3, <2>6, <2>7 DEF Moved
  <2> QED BY <2>8, OneCall
<1>14. CASE hit = {} /\ Fail(t, 1, BufferKept(c, "missing"))
  <2>1. T[L] = NULL
    BY <1>7, <1>9, <1>11, <1>14
  <2>2. Coded(nodes, c, 1, failed)
    BY <1>12, <2>1 DEF Coded
  <2>3. BufferKept(c, "missing") = FALSE
    BY DEF BufferKept
  <2> QED BY <1>13, <1>14, <2>2, <2>3
<1>15. ASSUME NEW v \in hit, last, c.query.type \notin {"any", TypeOf(v)},
              Fail(t, 2, BufferKept(c, "type"))
       PROVE  Lookups'
  <2>1. T[L] = v /\ v \in DOMAIN nodes
    BY <1>7, <1>11, <1>15
  <2>2. Coded(nodes, c, 2, failed)
    BY <1>1, <1>12, <1>15, <2>1 DEF Coded, Fitting, TypeOf, TypeIn
  <2>3. BufferKept(c, "type") = FALSE
    BY DEF BufferKept
  <2> QED BY <1>13, <1>15, <2>2, <2>3
<1>16. ASSUME NEW v \in hit, last, c.query.type \in {"any", TypeOf(v)},
              lookup' = [lookup EXCEPT ![t].lc = "found", ![t].node = v, ![t].buf = BufferKept(c, "found")],
              UNCHANGED g_ok
       PROVE  Lookups'
  <2>1. T[L] = v /\ v \in DOMAIN nodes
    BY <1>7, <1>11, <1>16
  <2>2. Fitting(nodes, c)
    BY <1>1, <1>12, <1>16, <2>1 DEF Fitting, TypeOf, TypeIn
  <2>3. BufferKept(c, "found") = FALSE
    BY DEF BufferKept
  <2> DEFINE d == [c EXCEPT !.lc = "found", !.node = v, !.buf = FALSE]
  <2>4. lookup' = [lookup EXCEPT ![t] = d]
    BY <1>2, <1>16, <2>3
  <2>5. g_ok' = [g_ok EXCEPT ![t] = 0]
    BY <1>2, <1>4, <1>16
  <2>6. /\ d.lc = "found" /\ d.query = c.query /\ d.root = c.root /\ d.node = v /\ d.buf = FALSE
        /\ d \in Calls(nodes)
    BY <1>2, <2>1 DEF Calls
  <2> HIDE DEF d, c
  <2>7. Answer(nodes, d) = Answer(nodes, c) /\ (Fitting(nodes, d) <=> Fitting(nodes, c))
    BY <2>6, SameAnswer
  <2>8. Good(nodes, d, 0, failed')
    BY <1>4, <1>12, <2>1, <2>2, <2>6, <2>7 DEF Good
  <2>9. 0 \in 0..2
    OBVIOUS
  <2>10. Moved(t, d, 0)
    BY <1>2, <1>3, <2>4, <2>5, <2>6, <2>8, <2>9 DEF Moved
  <2> QED BY <2>10, OneCall
<1>17. ASSUME NEW v \in hit, ~ last, TypeOf(v) # "obj", Fail(t, 1, BufferKept(c, "not an object"))
       PROVE  Lookups'
  <2>1. v = T[i + 1] /\ v \in DOMAIN nodes /\ v # NULL /\ nodes[v].type # "obj"
    BY <1>1, <1>11, <1>17 DEF TypeOf
  <2>2. /\ i + 1 \in 1..(L - 1) /\ i + 2 \in 1..L /\ i + 2 \in 0..L /\ (i + 2) - 1 = i + 1
    <3>1. i \in Nat /\ i + 1 <= L
      BY <1>5, <1>7
    <3>2. i + 1 # L
      BY <1>7, <1>17 DEF last
    <3>3. i + 2 <= L
      BY <1>5, <3>1, <3>2
    <3> QED BY <1>5, <3>1, <3>3
  <2>3. T[i + 2] = UnderIn(nodes, v, p[i + 2])
    BY <1>9, <2>1, <2>2
  <2>4. UnderIn(nodes, v, p[i + 2]) = NULL
    BY <2>1 DEF UnderIn
  <2>5. T[L] = NULL
    BY <1>9, <2>2, <2>3, <2>4
  <2>6. Coded(nodes, c, 1, failed)
    BY <1>12, <2>5 DEF Coded
  <2>7. Stuck(nodes, c)
    BY <2>1, <2>2 DEF Stuck, T, L, p
  <2>8. BufferKept(c, "not an object") \in BOOLEAN
    BY DEF BufferKept
  <2> QED BY <1>13, <1>17, <2>6, <2>7, <2>8
<1>18. ASSUME NEW v \in hit, ~ last, TypeOf(v) = "obj",
              lookup' = [lookup EXCEPT ![t].node = v, ![t].left = Tail(@)], UNCHANGED g_ok
       PROVE  Lookups'
  <2>1. v = T[i + 1] /\ v \in DOMAIN nodes /\ v # NULL /\ nodes[v].type = "obj"
    BY <1>1, <1>11, <1>18 DEF TypeOf
  <2>2. i + 1 \in 0..(L - 1) /\ L - i \in Nat \ {0} /\ L - (i + 1) \in Nat /\ L - (i + 1) = (L - i) - 1
    BY <1>5, <1>7, <1>18
  <2> DEFINE d == [c EXCEPT !.node = v, !.left = Tail(c.left)]
  <2>3. lookup' = [lookup EXCEPT ![t] = d]
    BY <1>2, <1>18
  <2>4. g_ok' = [g_ok EXCEPT ![t] = 0]
    BY <1>2, <1>4, <1>18
  <2>5. /\ c.left # <<>> /\ Tail(c.left) \in Seq(Keys) /\ Len(Tail(c.left)) = L - (i + 1)
        /\ \A j \in 1..(L - (i + 1)) : Tail(c.left)[j] = c.left[j + 1]
    BY <1>6, <1>7, <2>2
  <2>6. /\ d.lc = "walk" /\ d.query = c.query /\ d.root = c.root /\ d.node = v /\ d.left = Tail(c.left)
        /\ d \in Calls(nodes)
    BY <1>2, <2>1, <2>5 DEF Calls
  <2> HIDE DEF d, c
  <2>7. ASSUME NEW j \in 1..(L - (i + 1)) PROVE d.left[j] = p[(i + 1) + j]
    <3>1. j + 1 \in 1..(L - i) /\ i + (j + 1) = (i + 1) + j
      BY <1>5, <2>2
    <3> QED BY <1>6, <2>5, <2>6, <3>1
  <2>8. OnTheWay(nodes, d)
    <3>1. d.query.path = p /\ TrailIn(nodes, d.root, p) = T
      BY <2>6 DEF p, T
    <3>2. Len(d.left) = L - (i + 1)
      BY <2>5, <2>6
    <3> QED BY <2>1, <2>2, <2>6, <2>7, <3>1, <3>2 DEF OnTheWay, L
  <2>9. Good(nodes, d, 0, failed')
    BY <1>4, <2>6, <2>8 DEF Good
  <2>10. 0 \in 0..2
    OBVIOUS
  <2>11. Moved(t, d, 0)
    BY <1>2, <1>3, <2>3, <2>4, <2>6, <2>9, <2>10 DEF Moved
  <2> QED BY <2>11, OneCall
<1> QED BY <1>14, <1>15, <1>16, <1>17, <1>18 DEF GetSegment, hit, last, c

LEMMA ReturnStep ==
  ASSUME Lookups, NEW t \in Threads, GetReturn(t)
  PROVE  Lookups'
<1> DEFINE c == lookup[t]
           k == IF c.lc = "found" THEN 0 ELSE g_ok[t]
           d == [c EXCEPT !.lc = "done", !.found = c.node, !.left = <<>>, !.ok = k]
<1>1. /\ c.lc \in {"return", "found"} /\ c \in Calls(nodes) /\ Good(nodes, c, g_ok[t], failed)
      /\ nodes' = nodes /\ failed' = failed /\ pc' = pc /\ g_ok' = g_ok
      /\ lookup \in [Threads -> Calls(nodes)] /\ g_ok \in [Threads -> 0..2]
  BY DEF GetReturn, Lookups, tree
<1>2. pc \notin {"build", "crashed"}
  <2>1. NoLookup.lc = "idle"
    BY DEF NoLookup, Call
  <2> QED BY <1>1, <2>1 DEF Lookups
<1>3. lookup' = [lookup EXCEPT ![t].lc = "done", ![t].found = lookup[t].node, ![t].left = <<>>,
                               ![t].ok = k]
  BY DEF GetReturn
<1>4. k = g_ok[t] /\ k \in 0..2
  BY <1>1 DEF Good
<1> HIDE DEF k
<1>5. lookup' = [lookup EXCEPT ![t] = d]
  BY <1>1, <1>3
<1>6. g_ok' = [g_ok EXCEPT ![t] = k]
  BY <1>1, <1>4
<1>7. /\ d.lc = "done" /\ d.query = c.query /\ d.root = c.root /\ d.found = c.node /\ d.buf = c.buf
      /\ d.ok = k /\ d \in Calls(nodes)
  <2>1. c.node \in DOMAIN nodes \cup {NULL} /\ <<>> \in Seq(Keys)
    BY <1>1 DEF Calls
  <2> DEFINE e == [c EXCEPT !.lc = "done", !.found = c.node]
  <2>2. /\ e \in Calls(nodes) /\ e.lc = "done" /\ e.found = c.node /\ e.query = c.query
        /\ e.root = c.root /\ e.buf = c.buf
    BY <1>1, <2>1 DEF Calls
  <2>3. d = [e EXCEPT !.left = <<>>, !.ok = k]
    OBVIOUS
  <2> HIDE DEF e, d
  <2> QED BY <1>4, <2>1, <2>2, <2>3 DEF Calls
<1> HIDE DEF c, d
<1>8. /\ Answer(nodes, d) = Answer(nodes, c) /\ (Fitting(nodes, d) <=> Fitting(nodes, c))
      /\ (Stuck(nodes, d) <=> Stuck(nodes, c))
  BY <1>7, SameAnswer
<1>9. Coded(nodes, c, k, failed) => Coded(nodes, d, k, failed)
  BY <1>8 DEF Coded
<1>10. Good(nodes, d, k, failed')
  BY <1>1, <1>4, <1>7, <1>8, <1>9 DEF Good
<1>11. Moved(t, d, k)
  BY <1>1, <1>2, <1>4, <1>5, <1>6, <1>7, <1>10 DEF Moved
<1> QED BY <1>11, OneCall

(***************************************************************************)
(* The inductive invariant.                                                *)
(***************************************************************************)
IInv ==
  /\ Kept /\ Lookups
  /\ pc \in {"build", "read", "end", "crashed"}
  /\ pc = "crashed" => failed # "none" \/ Misplaced(nodes)

LEMMA InitInv == Init => IInv
<1> SUFFICES ASSUME Init PROVE IInv
  OBVIOUS
<1>1. /\ nodes = <<>> /\ live = {} /\ roots = {} /\ failed = "none" /\ pc = "build"
      /\ lookup = [t \in Threads |-> NoLookup] /\ g_ok = [t \in Threads |-> 0]
  BY DEF Init
<1>2. DOMAIN nodes = {}
  BY <1>1
<1>3. nodes \in [DOMAIN nodes -> NodeSet(DOMAIN nodes)]
  BY <1>1, <1>2
<1>4. Linked(nodes, roots)
  BY <1>1, <1>2, <1>3 DEF Linked
<1>5. Roomy(nodes) /\ Grounded(nodes, roots) /\ Unmixed(nodes) /\ Stocked(nodes)
  BY <1>1, <1>2 DEF Roomy, Grounded, Unmixed, Stocked
<1>6. AllOwed(nodes) = {}
  BY <1>2 DEF AllOwed
<1>7. Kept
  BY <1>1, <1>2, <1>4, <1>5, <1>6 DEF Kept, Books, Forest
<1>8. NoLookup \in Calls(nodes) /\ NoLookup.lc = "idle"
  BY DEF NoLookup, Call, Calls
<1>9. Good(nodes, NoLookup, 0, failed)
  BY <1>8 DEF Good
<1>10. Lookups
  BY <1>1, <1>8, <1>9 DEF Lookups
<1> QED BY <1>1, <1>7, <1>10 DEF IInv

LEMMA ReadingKept ==
  ASSUME Kept, UNCHANGED tree, failed' = failed \/ (failed = "none" /\ failed' = "buf")
  PROVE  Kept'
<1>1. nodes' = nodes /\ live' = live /\ roots' = roots
  BY DEF tree
<1>2. Books(nodes, roots, live, failed')
  BY DEF Kept, Books
<1> QED BY <1>1, <1>2 DEF Kept

LEMMA NextInv == IInv /\ [Next]_vars => IInv'
<1> SUFFICES ASSUME IInv, [Next]_vars PROVE IInv'
  OBVIOUS
<1>1. Kept /\ Lookups /\ pc \in {"build", "read", "end", "crashed"}
      /\ (pc = "crashed" => failed # "none" \/ Misplaced(nodes))
  BY DEF IInv
<1>2. CASE UNCHANGED vars
  <2>1. /\ nodes' = nodes /\ live' = live /\ roots' = roots /\ failed' = failed /\ pc' = pc
        /\ lookup' = lookup /\ g_ok' = g_ok
    BY <1>2 DEF vars
  <2>2. Kept' /\ Lookups'
    BY <1>1, <2>1 DEF Kept, Lookups
  <2> QED BY <1>1, <2>1, <2>2 DEF IInv
<1>3. CASE Building
  <2>1. Stepped /\ pc = "build"
    BY <1>1, <1>3, BuildingStep
  <2>2. /\ Kept' /\ lookup' = lookup /\ g_ok' = g_ok /\ pc' \in {"build", "crashed"}
        /\ (pc' = "crashed" => failed' # "none" \/ Misplaced(nodes'))
    BY <2>1 DEF Stepped, threads
  <2>3. \A t \in Threads : lookup'[t] = NoLookup
    BY <1>1, <2>1, <2>2 DEF Lookups
  <2>4. NoLookup \in Calls(nodes') /\ NoLookup.lc = "idle"
    BY DEF NoLookup, Call, Calls
  <2>5. lookup' \in [Threads -> Calls(nodes')] /\ g_ok' \in [Threads -> 0..2]
    <3>1. lookup \in [Threads -> Calls(nodes)] /\ g_ok \in [Threads -> 0..2]
      BY <1>1 DEF Lookups
    <3> QED BY <2>2, <2>3, <2>4, <3>1
  <2>6. \A t \in Threads : Good(nodes', lookup'[t], g_ok'[t], failed')
    BY <2>3, <2>4 DEF Good
  <2>7. Lookups'
    BY <2>3, <2>5, <2>6 DEF Lookups
  <2> QED BY <2>2, <2>7 DEF IInv
<1>4. ASSUME NEW t \in Threads, NEW q \in Queries, NEW n \in roots, GetCall(t, q, n) PROVE IInv'
  <2>1. /\ UNCHANGED tree /\ pc' = pc /\ pc = "read"
        /\ failed' = failed \/ (failed = "none" /\ failed' = "buf")
    BY <1>4 DEF GetCall, MayFail
  <2>2. Kept' /\ Lookups'
    BY <1>1, <1>4, <2>1, ReadingKept, CallStep
  <2> QED BY <2>1, <2>2 DEF IInv
<1>5. ASSUME NEW t \in Threads, GetSegment(t) \/ GetReturn(t) PROVE IInv'
  <2>1. UNCHANGED tree /\ pc' = pc /\ failed' = failed
    BY <1>5 DEF GetSegment, GetReturn
  <2>2. Kept' /\ Lookups'
    BY <1>1, <1>5, <2>1, ReadingKept, SegmentStep, ReturnStep
  <2>3. nodes' = nodes
    BY <2>1 DEF tree
  <2> QED BY <1>1, <2>1, <2>2, <2>3 DEF IInv
<1>6. CASE Share \/ Join
  <2>1. /\ UNCHANGED tree /\ failed' = failed /\ lookup' = lookup /\ g_ok' = g_ok
        /\ pc' \in {"read", "end"}
    BY <1>6 DEF Share, Join, threads
  <2>2. Kept' /\ nodes' = nodes
    BY <1>1, <2>1, ReadingKept DEF tree
  <2>3. Lookups'
    BY <1>1, <2>1, <2>2 DEF Lookups
  <2> QED BY <2>1, <2>2, <2>3 DEF IInv
<1> QED BY <1>2, <1>3, <1>4, <1>5, <1>6 DEF Next, Reading

THEOREM InductiveInvariant == Spec => []IInv
BY InitInv, NextInv, PTL DEF Spec

(***************************************************************************)
(* What follows from it.                                                   *)
(***************************************************************************)
LEMMA HeldAll ==
  ASSUME IInv
  PROVE  /\ Held = DOMAIN nodes /\ Reachable = AllOwed(nodes)
         /\ Forest(nodes, roots) /\ Linked(nodes, roots) /\ Roomy(nodes) /\ Grounded(nodes, roots)
<1>1. Forest(nodes, roots) /\ Linked(nodes, roots) /\ Roomy(nodes) /\ Grounded(nodes, roots)
  BY DEF IInv, Kept, Books, Forest
<1> QED BY <1>1, AllHeld, AllOwedIs DEF Held, Reachable

(* The trees stay a forest that hangs off the client's roots, whatever the *)
(* builders of YMLWriter.c and YMLDestroy do to it, and every call of      *)
(* _YMLMapGet points into it.                                              *)
THEOREM TypeCorrect == Spec => []TypeOK
<1>1. ASSUME IInv PROVE TypeOK
  <2>1. /\ Held = DOMAIN nodes
        /\ Forest(nodes, roots) /\ Linked(nodes, roots) /\ Roomy(nodes) /\ Grounded(nodes, roots)
    BY <1>1, HeldAll
  <2>2. DOMAIN nodes \subseteq Ids /\ roots \subseteq DOMAIN nodes
    BY <1>1, <2>1 DEF IInv, Kept, Books, Linked
  <2>3. \A n \in DOMAIN nodes :
          /\ nodes[n].up = NULL <=> n \in roots
          /\ \A x \in KidSet(nodes, n) : nodes[x].up = n
    BY <2>1 DEF Linked
  <2>4. \A n \in DOMAIN nodes :
          /\ IsInjective(nodes[n].kids)
          /\ Len(nodes[n].kids) <= nodes[n].cap
          /\ nodes[n].type = "obj" => \A x, y \in KidSet(nodes, n) : x # y => nodes[x].key # nodes[y].key
    BY <2>1 DEF Roomy
  <2>5. \A t \in Threads : lookup[t] \in Calls(nodes) /\ g_ok[t] \in 0..2
    BY <1>1 DEF IInv, Lookups
  <2>6. \A t \in Threads : lookup[t].node \in Held \cup {NULL} /\ lookup[t].ok \in 0..2
    BY <2>1, <2>5 DEF Calls
  <2> QED BY <1>1, <2>1, <2>2, <2>3, <2>4, <2>5, <2>6 DEF TypeOK, IInv
<1> QED BY <1>1, InductiveInvariant, PTL

(* Overwriting, copying and destroying give back what they take out, so    *)
(* that without a failed allocation nothing is lost (map_insert,           *)
(* _yml_mk_node, yml_value_free_impl).                                     *)
THEOREM LedgerBalances == Spec => []Ledger
<1>1. ASSUME IInv PROVE Ledger
  <2>1. Reachable = AllOwed(nodes)
    BY <1>1, HeldAll
  <2> QED BY <1>1, <2>1 DEF Ledger, IInv, Kept, Books
<1> QED BY <1>1, InductiveInvariant, PTL

(* Whatever else fails, no tree is left with memory that was freed, unless *)
(* it was the growth of a table that failed (hm_set in map_insert).        *)
THEOREM NothingIsDangling == Spec => []NothingDangles
<1>1. ASSUME IInv PROVE NothingDangles
  <2>1. Reachable = AllOwed(nodes)
    BY <1>1, HeldAll
  <2> QED BY <1>1, <2>1 DEF NothingDangles, IInv, Kept, Books
<1> QED BY <1>1, InductiveInvariant, PTL

(* What is added to a node with a client's allocator is made with that     *)
(* allocator, at every depth (map_insert and da_push copy for it).         *)
THEOREM OneAllocatorBelow == Spec => []OneAllocator
<1>1. ASSUME IInv PROVE OneAllocator
  <2>1. /\ Held = DOMAIN nodes /\ Linked(nodes, roots) /\ Roomy(nodes) /\ Unmixed(nodes)
    BY <1>1, HeldAll DEF IInv, Kept, Books
  <2>2. \A x \in DOMAIN nodes : KidSet(nodes, x) \subseteq DOMAIN nodes
    BY <2>1, LinkFacts
  <2> SUFFICES ASSUME NEW n \in DOMAIN nodes, nodes[n].alloc = "custom",
                      NEW b \in Contents(nodes, n)
               PROVE  b.alloc = "custom"
    BY <2>1 DEF OneAllocator
  <2> DEFINE T == Subtree(nodes, n)
             S == {x \in T : nodes[x].alloc = "custom" \/ nodes[x].type = "null"}
  <2>3. /\ T \subseteq DOMAIN nodes /\ n \in T /\ Closed(nodes, T)
        /\ \A Z \in SUBSET DOMAIN nodes : n \in Z /\ Closed(nodes, Z) => T \subseteq Z
    BY <2>2, SubtreeFacts
  <2> HIDE DEF T
(* NULL has nothing below it. *)
  <2>4. ASSUME NEW x \in DOMAIN nodes, NEW y \in KidSet(nodes, x) PROVE nodes[x].type # "null"
    <3>1. nodes[x].kids # <<>>
      <4>1. DOMAIN <<>> = {}
        OBVIOUS
      <4> QED BY <2>4, <4>1 DEF KidSet, Range
    <3> QED BY <2>1, <3>1 DEF Roomy
  <2>5. Closed(nodes, S)
    <3> SUFFICES ASSUME NEW x \in S, NEW y \in KidSet(nodes, x) PROVE y \in S
      BY DEF Closed
    <3>1. x \in DOMAIN nodes /\ y \in T
      BY <2>3 DEF Closed
    <3>2. nodes[x].alloc = "custom"
      BY <2>4, <3>1
    <3>3. nodes[y].alloc = "custom" \/ nodes[y].type = "null"
      BY <2>1, <3>1, <3>2 DEF Unmixed, Suits
    <3> QED BY <3>1, <3>3
  <2>6. T \subseteq S
    BY <2>3, <2>5
  <2>7. PICK x \in T : b \in Content(nodes, x) \/ (x # n /\ b \in PlaceOf(nodes, x))
    BY DEF Contents, T
  <2>8. CASE b \in Content(nodes, x)
    <3>1. nodes[x].type # "null" /\ b.alloc = nodes[x].alloc
      BY <2>8 DEF Content, Block
    <3> QED BY <2>6, <3>1
  <2>9. CASE x # n /\ b \in PlaceOf(nodes, x)
    <3> DEFINE p == nodes[x].up
    <3>1. p \in T /\ p # NULL /\ p \in DOMAIN nodes
      BY <2>1, <2>9, SubtreeUp DEF T
    <3>2. x \in KidSet(nodes, p)
      BY <2>1, <2>3, <3>1 DEF Linked
    <3>3. nodes[p].alloc = "custom"
      BY <2>4, <2>6, <3>1, <3>2
    <3>4. b.alloc = nodes[p].alloc
      BY <2>9, <3>1 DEF PlaceOf, Block
    <3> QED BY <3>3, <3>4
  <2> QED BY <2>7, <2>8, <2>9
<1> QED BY <1>1, InductiveInvariant, PTL

(* The builders bring the process down for the three reasons that          *)
(* CrashHasCause names only: no NULL dereference, no double free and no    *)
(* free by the wrong allocator otherwise.                                  *)
THEOREM CrashesHaveCauses == Spec => []CrashHasCause
<1>1. ASSUME IInv PROVE CrashHasCause
  <2>1. Held = DOMAIN nodes
    BY <1>1, HeldAll
  <2> QED BY <1>1, <2>1 DEF CrashHasCause, IInv, Misplaced
<1> QED BY <1>1, InductiveInvariant, PTL

LEMMA TrailIs ==
  ASSUME NEW n, NEW path
  PROVE  Trail(n, path) = TrailIn(nodes, n, path)
BY DEF Trail, TrailIn, Under, UnderIn

(* What _YMLMapGet returns, and the code it leaves in g_ok, are those of   *)
(* an undisturbed walk, for any number of threads and any paths.           *)
THEOREM LookupsAreRight == Spec => []LookupsAnswer
<1>1. ASSUME IInv PROVE LookupsAnswer
  <2> SUFFICES ASSUME NEW t \in Threads, lookup[t].lc = "done"
               PROVE  LET c == lookup[t]
                          v == Walk(c.root, c.query.path)
                          fits == v # NULL /\ c.query.type \in {"any", TypeOf(v)}
                      IN /\ g_ok[t] = c.ok
                         /\ CASE c.ok = 0 -> c.found = v /\ fits
                              [] c.ok = 1 -> c.found = NULL /\ v = NULL
                              [] c.ok = 2 -> c.found = NULL /\ (failed = "buf" \/ (v # NULL /\ ~fits))
    BY DEF LookupsAnswer
  <2> DEFINE c == lookup[t]
             v == Walk(c.root, c.query.path)
             fits == v # NULL /\ c.query.type \in {"any", TypeOf(v)}
  <2>1. Good(nodes, c, g_ok[t], failed) /\ c.lc = "done" /\ g_ok[t] \in 0..2
    BY <1>1 DEF IInv, Lookups
  <2>2. v = Answer(nodes, c)
    BY TrailIs DEF Walk, Answer
  <2>3. fits <=> Fitting(nodes, c)
    BY <2>2 DEF Fitting, TypeOf, TypeIn
  <2> HIDE DEF c, v
  <2>4. /\ c.ok = g_ok[t]
        /\ g_ok[t] = 0 => c.found = v /\ Fitting(nodes, c)
        /\ g_ok[t] # 0 => c.found = NULL /\ Coded(nodes, c, g_ok[t], failed)
    BY <2>1, <2>2 DEF Good
  <2>5. c.ok = 0 \/ c.ok = 1 \/ c.ok = 2
    BY <2>1, <2>4
  <2>6. c.ok = 0 => c.found = v /\ fits
    BY <2>3, <2>4
  <2>7. c.ok = 1 => c.found = NULL /\ v = NULL
    BY <2>2, <2>4 DEF Coded
  <2>8. c.ok = 2 => c.found = NULL /\ (failed = "buf" \/ (v # NULL /\ ~fits))
    BY <2>2, <2>3, <2>4 DEF Coded
  <2> QED BY <2>4, <2>5, <2>6, <2>7, <2>8 DEF c, v
<1> QED BY <1>1, InductiveInvariant, PTL

(* _YMLMapGet keeps its copy of the path on one of its ways out only.      *)
THEOREM BuffersComeBack == Spec => []BuffersReturned
<1>1. ASSUME IInv PROVE BuffersReturned
  <2> SUFFICES ASSUME NEW t \in Threads, lookup[t].lc = "done", lookup[t].buf
               PROVE  ThroughNoObject(lookup[t])
    BY DEF BuffersReturned
  <2>1. lookup[t] \in Calls(nodes) /\ Good(nodes, lookup[t], g_ok[t], failed)
    BY <1>1 DEF IInv, Lookups
  <2>2. lookup[t].buf = TRUE
    BY <2>1 DEF Calls
  <2>3. Stuck(nodes, lookup[t])
    BY <2>1, <2>2 DEF Good
  <2> QED BY <2>3, TrailIs DEF Stuck, ThroughNoObject
<1> QED BY <1>1, InductiveInvariant, PTL

(* A builder or a destructor shows in one of the client's trees at most:   *)
(* _yml_mk_node adds copies, and nothing is shared between trees.          *)
THEOREM TreesStayApart == Spec => CopiesStayApart
<1>1. ASSUME IInv, IInv', [Next]_vars
      PROVE  [\A r, s \in roots \cap roots' :
                Shown(r)' # Shown(r) /\ Shown(s)' # Shown(s) => r = s]_vars
  <2>1. \A r : Shown(r) = ShownIn(nodes, live, r) /\ Shown(r)' = ShownIn(nodes', live', r)
    BY DEF Shown, ShownIn
  <2>2. OneTree(nodes, roots, nodes', live, live')
    <3>1. CASE Building
      BY <1>1, <3>1, BuildingStep DEF IInv, Stepped
    <3>2. CASE ~ Building
      <4>1. UNCHANGED tree
        BY <1>1, <3>2 DEF Next, Reading, GetCall, GetSegment, GetReturn, Share, Join, vars, tree
      <4> QED BY <4>1 DEF OneTree, tree
    <3> QED BY <3>1, <3>2
  <2>3. \A r \in roots' : r \in DOMAIN nodes'
    BY <1>1 DEF IInv, Kept, Books, Forest, Linked
  <2> QED BY <2>1, <2>2, <2>3 DEF OneTree
<1> QED BY <1>1, InductiveInvariant, PTL DEF Spec, CopiesStayApart
=============================================================================
