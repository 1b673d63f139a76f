------------------------- MODULE InterworkingProofs -------------------------
(***************************************************************************)
(* Theorems about Interworking, for any neighbours, associations, routes,  *)
(* batches and capacity.                                                   *)
(***************************************************************************)
EXTENDS Interworking, RelayEngineProofs, FiniteSetTheorems, WellFoundedInduction

-----------------------------------------------------------------------------
(* Induction over a set of naturals, and what it says of folds.            *)

LEMMA SetInduction ==
    ASSUME NEW G, 0 \in G, \A i \in Nat : i \in G => i + 1 \in G
    PROVE  Nat \subseteq G
<1> SUFFICES ASSUME Nat \ G # {} PROVE FALSE
  OBVIOUS
<1>1. PICK x \in Nat \ G : \A y \in Nat \ G : ~(<<y, x>> \in OpToRel(<, Nat))
  BY NatLessThanWellFounded, WFMin
<1>2. x # 0 /\ x - 1 \in Nat
  OBVIOUS
<1>3. x - 1 \in G
  <2>1. x - 1 < x
    BY <1>2
  <2> QED BY <1>1, <1>2, <2>1 DEF OpToRel
<1> QED BY <1>2, <1>3

LEMMA Indices ==
    ASSUME NEW m \in Nat
    PROVE  /\ 1..0 = {}
           /\ m + 1 \in 1..m + 1
           /\ (1..m + 1) \ {m + 1} = 1..m
           /\ 1..m \subseteq 1..m + 1
           /\ \A t \in SUBSET (1..m + 1) : t \ {m + 1} \in SUBSET (1..m)
<1>1. \A x : x \in 1..m <=> x \in 1..m + 1 /\ x # m + 1
  OBVIOUS
<1>2. 1..0 = {} /\ m + 1 \in 1..m + 1
  OBVIOUS
<1> QED BY <1>1, <1>2

(* A set of naturals within bounds has a largest element. *)
LEMMA MaxOfIndices ==
    ASSUME NEW n \in Nat, NEW s \in SUBSET (1..n), s # {}
    PROVE  Max(s) \in s /\ \A y \in s : y <= Max(s)
<1> DEFINE G == {m \in Nat : \A t \in SUBSET (1..m) : t # {} => \E x \in t : \A y \in t : x >= y}
<1>1. 0 \in G
  BY Indices
<1>2. ASSUME NEW m \in Nat, m \in G PROVE m + 1 \in G
  <2> SUFFICES ASSUME NEW t \in SUBSET (1..m + 1), t # {}
               PROVE  \E x \in t : \A y \in t : x >= y
    OBVIOUS
  <2>1. CASE m + 1 \in t
    BY <2>1
  <2>2. CASE m + 1 \notin t
    <3>1. t \in SUBSET (1..m)
      BY <2>2, Indices
    <3> QED BY <1>2, <3>1
  <2> QED BY <2>1, <2>2
<1>3. Nat \subseteq G
  <2> HIDE DEF G
  <2> QED BY <1>1, <1>2, SetInduction
<1>4. \E x \in s : \A y \in s : x >= y
  BY <1>3
<1> QED BY <1>4 DEF Max

LEMMA LastIndexIsMax ==
    ASSUME NEW m \in Nat, NEW s \in SUBSET (1..m + 1), m + 1 \in s
    PROVE  Max(s) = m + 1
<1>1. m + 1 \in Nat
  OBVIOUS
<1>2. Max(s) \in s /\ m + 1 <= Max(s)
  BY <1>1, MaxOfIndices
<1>3. Max(s) \in 1..m + 1
  BY <1>2
<1> QED BY <1>2, <1>3

(* A fold over the indices 1..n, the last one outermost, where F[i] is the *)
(* step at index i.  If every step stays in D, the fold exists ...         *)
FoldEquation(f, d, F, s) == f[s] = IF s = {} THEN d ELSE F[Max(s)][f[s \ {Max(s)}]]

LEMMA FoldExists ==
    ASSUME NEW D, NEW d \in D, NEW n \in Nat, NEW F \in [1..n -> [D -> D]]
    PROVE  \E f \in [SUBSET (1..n) -> D] : \A s \in SUBSET (1..n) : FoldEquation(f, d, F, s)
<1> DEFINE Folds(m) == {f \in [SUBSET (1..m) -> D] : \A s \in SUBSET (1..m) : FoldEquation(f, d, F, s)}
           G == {m \in Nat : m <= n => Folds(m) # {}}
<1>1. 0 \in G
  <2> DEFINE g == [s \in SUBSET (1..0) |-> d]
  <2>1. g \in [SUBSET (1..0) -> D] /\ \A s \in SUBSET (1..0) : s = {} /\ g[s] = d
    BY Indices
  <2> HIDE DEF g
  <2>2. g \in Folds(0)
    BY <2>1 DEF FoldEquation
  <2> HIDE DEF Folds
  <2> QED BY <2>2
<1>2. ASSUME NEW m \in Nat, m \in G PROVE m + 1 \in G
  <2> HIDE DEF Folds
  <2> SUFFICES ASSUME m + 1 <= n
               PROVE  Folds(m + 1) # {}
    OBVIOUS
  <2>0. Folds(m) # {}
    BY <1>2
  <2> USE DEF Folds
  <2>1. PICK f \in [SUBSET (1..m) -> D] : \A s \in SUBSET (1..m) : FoldEquation(f, d, F, s)
    BY <2>0
  <2> DEFINE g == [s \in SUBSET (1..m + 1) |->
                      IF m + 1 \in s THEN F[m + 1][f[s \ {m + 1}]] ELSE f[s]]
  <2> HIDE DEF G
  <2>2. ASSUME NEW s \in SUBSET (1..m + 1)
        PROVE  g[s] \in D /\ FoldEquation(g, d, F, s)
    <3>1. CASE m + 1 \in s
      <4>1. Max(s) = m + 1
        BY <3>1, LastIndexIsMax
      <4>2. s \ {m + 1} \in SUBSET (1..m) /\ s \ {m + 1} \in SUBSET (1..m + 1)
        BY Indices
      <4>3. g[s \ {m + 1}] = f[s \ {m + 1}] /\ f[s \ {m + 1}] \in D
        BY <4>2
      <4>4. g[s] = F[m + 1][f[s \ {m + 1}]] /\ F[m + 1] \in [D -> D]
        BY <3>1
      <4> QED BY <3>1, <4>1, <4>3, <4>4 DEF FoldEquation
    <3>2. CASE m + 1 \notin s
      <4>1. s \in SUBSET (1..m) /\ g[s] = f[s] /\ g[s] \in D
        BY <3>2, <2>1, Indices
      <4>2. s # {} => s \ {Max(s)} \in SUBSET (1..m) /\ s \ {Max(s)} \in SUBSET (1..m + 1)
        BY <4>1
      <4>3. s # {} => g[s \ {Max(s)}] = f[s \ {Max(s)}]
        BY <3>2, <4>2
      <4>4. FoldEquation(f, d, F, s)
        BY <2>1, <4>1
      <4> QED BY <4>1, <4>3, <4>4 DEF FoldEquation
    <3> QED BY <3>1, <3>2
  <2>3. g \in [SUBSET (1..m + 1) -> D]
    BY <2>2
  <2> HIDE DEF g
  <2>4. g \in Folds(m + 1)
    BY <2>2, <2>3
  <2> HIDE DEF Folds
  <2> QED BY <2>4
<1>3. Folds(n) # {}
  <2>1. n \in G
    <3> HIDE DEF G
    <3> QED BY <1>1, <1>2, SetInduction
  <2> HIDE DEF Folds
  <2> QED BY <2>1
<1> QED BY <1>3

(* ... and whatever obeys its equation as long as it stays in D passes     *)
(* from C[0] to C[1], ..., to C[n] if each step does.                      *)
Obeys(f, D, F, n) ==
    \A s \in SUBSET (1..n) :
        s # {} /\ f[s \ {Max(s)}] \in D => f[s] = F[Max(s)][f[s \ {Max(s)}]]

Passes(F, C, n) == \A i \in 1..n : \A e \in C[i - 1] : F[i][e] \in C[i]

LEMMA FoldEnds ==
    ASSUME NEW D, NEW n \in Nat, NEW F \in [1..n -> [D -> D]], NEW C \in [0..n -> SUBSET D],
           Passes(F, C, n), NEW f, f[{}] \in C[0], Obeys(f, D, F, n)
    PROVE  f[1..n] \in C[n]
<1> DEFINE G == {m \in Nat : m <= n => f[1..m] \in C[m]}
<1>1. 0 \in G
  <2>1. 1..0 = {}
    BY Indices
  <2> QED BY <2>1
<1>2. ASSUME NEW m \in Nat, m \in G PROVE m + 1 \in G
  <2> SUFFICES ASSUME m + 1 <= n
               PROVE  f[1..m + 1] \in C[m + 1]
    OBVIOUS
  <2>1. f[1..m] \in C[m]
    BY <1>2
  <2> HIDE DEF G
  <2>2. f[1..m] \in D
    <3>1. m \in 0..n
      OBVIOUS
    <3> QED BY <2>1, <3>1
  <2>3. 1..m + 1 \in SUBSET (1..n) /\ 1..m + 1 # {} /\ m + 1 \in 1..n /\ (m + 1) - 1 = m
    <3>1. ASSUME NEW x \in 1..m + 1 PROVE x \in 1..n
      OBVIOUS
    <3>2. m + 1 \in 1..n /\ (m + 1) - 1 = m /\ m + 1 \in 1..m + 1
      OBVIOUS
    <3> QED BY <3>1, <3>2
  <2>4. Max(1..m + 1) = m + 1 /\ (1..m + 1) \ {m + 1} = 1..m
    BY Indices, LastIndexIsMax
  <2>5. f[1..m + 1] = F[m + 1][f[1..m]]
    BY <2>2, <2>3, <2>4 DEF Obeys
  <2> QED BY <2>1, <2>3, <2>5 DEF Passes
<1>3. n \in G
  <2> HIDE DEF G
  <2> QED BY <1>1, <1>2, SetInduction
<1> QED BY <1>3

-----------------------------------------------------------------------------
(* The route of a new key: it never leads back to the sender, and starts   *)
(* at the cursor unless the sender is itself one of the hops.              *)

LEMMA HopsOf ==
    ASSUME NEW x \in DOMAIN Route, NEW start \in DOMAIN Route[x], NEW sender
    PROVE  /\ Hops(x, start, sender) \in Seq(Node)
           /\ sender \notin ToSet(Hops(x, start, sender))
           /\ sender \notin ToSet(Route[x]) =>
                 Hops(x, start, sender) # << >> /\ Hops(x, start, sender)[1] = Route[x][start]
<1> DEFINE n == Len(Route[x])
           rotated == [i \in 1..n |-> Route[x][((start + i - 2) % n) + 1]]
           Step(h, p) == IF p = sender THEN h ELSE Append(h, p)
           D == Seq(Node)
           F == [i \in 1..n |-> [h \in D |-> Step(h, rotated[i])]]
           Good(h, i) == /\ sender \notin ToSet(h)
                         /\ sender \notin ToSet(Route[x]) => Len(h) = i /\ (i > 0 => h[1] = rotated[1])
           C == [i \in 0..n |-> {h \in D : Good(h, i)}]
           eqn(f) == f = [s \in SUBSET DOMAIN rotated |->
                             IF s = {} THEN << >> ELSE Step(f[s \ {Max(s)}], rotated[Max(s)])]
           fold == CHOOSE f : eqn(f)
<1>1. Route[x] \in Seq(Node) /\ n \in Nat /\ n > 0 /\ DOMAIN Route[x] = 1..n
  BY RoutingAssumption
<1>2. /\ rotated \in [1..n -> ToSet(Route[x])] /\ DOMAIN rotated = 1..n
      /\ ToSet(Route[x]) \subseteq Node /\ rotated[1] = Route[x][start]
  <2>1. ASSUME NEW i \in 1..n
        PROVE  ((start + i - 2) % n) + 1 \in 1..n
    <3>1. start + i - 2 \in Nat
      BY <1>1
    <3>2. \A a \in Nat : a % n \in 0..(n - 1)
      BY <1>1
    <3> QED BY <1>1, <3>1, <3>2
  <2>2. ((start + 1 - 2) % n) + 1 = start
    <3>1. start \in 1..n /\ start - 1 \in 0..(n - 1) /\ start + 1 - 2 = start - 1
      BY <1>1
    <3>2. \A a \in 0..(n - 1) : a % n = a
      BY <1>1
    <3>3. (start - 1) % n = start - 1
      BY <3>1, <3>2
    <3> HIDE DEF n
    <3> QED BY <3>1, <3>3
  <2>3. ToSet(Route[x]) = {Route[x][i] : i \in 1..n}
    BY <1>1 DEF ToSet
  <2>4. ToSet(Route[x]) \subseteq Node
    BY <1>1, <2>3
  <2>5. 1 \in 1..n
    BY <1>1
  <2> HIDE DEF n
  <2> QED BY <2>1, <2>2, <2>3, <2>4, <2>5
<1>3. Hops(x, start, sender) = fold[DOMAIN rotated]
  BY DEF Hops, FoldLeft, MapThenFoldSet
<1> HIDE DEF n, rotated
<1>4. F \in [1..n -> [D -> D]]
  BY <1>2
<1>5. \E f : eqn(f)
  <2> HIDE DEF D
  <2>1. << >> \in D
    BY DEF D
  <2>2. PICK f \in [SUBSET (1..n) -> D] : \A s \in SUBSET (1..n) : FoldEquation(f, << >>, F, s)
    BY <1>1, <1>4, <2>1, FoldExists
  <2>3. ASSUME NEW s \in SUBSET (1..n)
        PROVE  f[s] = IF s = {} THEN << >> ELSE Step(f[s \ {Max(s)}], rotated[Max(s)])
    <3>1. s # {} => Max(s) \in 1..n
      BY <1>1, MaxOfIndices
    <3>2. f[s \ {Max(s)}] \in D
      OBVIOUS
    <3> QED BY <2>2, <3>1, <3>2 DEF FoldEquation
  <2> HIDE DEF Step
  <2>4. f = [s \in SUBSET (1..n) |-> IF s = {} THEN << >> ELSE Step(f[s \ {Max(s)}], rotated[Max(s)])]
    BY <2>3
  <2>5. eqn(f)
    BY <1>2, <2>4
  <2> HIDE DEF eqn
  <2> QED BY <2>5
<1>6. eqn(fold)
  BY <1>5
<1> HIDE DEF fold
<1>7. fold[1..n] \in C[n]
  <2>1. ASSUME NEW i \in 1..n, NEW h \in C[i - 1]
        PROVE  F[i][h] \in C[i]
    <3>1. h \in D /\ Good(h, i - 1) /\ F[i][h] = Step(h, rotated[i]) /\ rotated[i] \in ToSet(Route[x]) /\ rotated[i] \in Node
      BY <1>1, <1>2
    <3>2. Step(h, rotated[i]) \in D
      BY <3>1
    <3>3. Good(Step(h, rotated[i]), i)
      <4>1. CASE rotated[i] = sender
        BY <3>1, <4>1
      <4>2. CASE rotated[i] # sender
        <5> DEFINE g == Append(h, rotated[i])
        <5>1. /\ Len(g) = Len(h) + 1 /\ g[Len(h) + 1] = rotated[i]
              /\ \A j \in 1..Len(h) : g[j] = h[j]
              /\ DOMAIN g = 1..Len(h) + 1 /\ DOMAIN h = 1..Len(h) /\ Len(h) \in Nat
          BY <3>1
        <5>2. Step(h, rotated[i]) = g
          BY <4>2
        <5> HIDE DEF g, Step, C, F
        <5>3. sender \notin ToSet(g)
          BY <3>1, <4>2, <5>1 DEF ToSet
        <5>4. ASSUME sender \notin ToSet(Route[x])
              PROVE  Len(g) = i /\ g[1] = rotated[1]
          <6>1. Len(h) = i - 1 /\ (i - 1 > 0 => h[1] = rotated[1])
            BY <3>1, <5>4
          <6>2. CASE i = 1
            BY <5>1, <6>1, <6>2
          <6>3. CASE i > 1
            BY <5>1, <6>1, <6>3
          <6> QED BY <5>1, <6>1, <6>2, <6>3
        <5> QED BY <5>2, <5>3, <5>4
      <4> QED BY <4>1, <4>2
    <3>4. C[i] = {g \in D : Good(g, i)}
      OBVIOUS
    <3> HIDE DEF C, Good, F, Step
    <3> QED BY <3>1, <3>2, <3>3, <3>4
  <2>2. C \in [0..n -> SUBSET D] /\ << >> \in C[0]
    BY <1>1 DEF ToSet
  <2>3. fold[{}] = << >>
    BY <1>6
  <2>4. Obeys(fold, D, F, n)
    <3> SUFFICES ASSUME NEW s \in SUBSET (1..n), s # {}, fold[s \ {Max(s)}] \in D
                 PROVE  fold[s] = F[Max(s)][fold[s \ {Max(s)}]]
      BY DEF Obeys
    <3>1. Max(s) \in 1..n
      BY <1>1, MaxOfIndices
    <3>2. fold[s] = Step(fold[s \ {Max(s)}], rotated[Max(s)])
      BY <1>2, <1>6
    <3> QED BY <3>1, <3>2
  <2> HIDE DEF C, D, F
  <2>5. fold[{}] \in C[0]
    BY <2>2, <2>3
  <2>6. Passes(F, C, n)
    BY <2>1 DEF Passes
  <2>7. n \in Nat /\ C \in [0..n -> SUBSET D]
    BY <1>1, <2>2
  <2> QED BY <1>4, <2>4, <2>5, <2>6, <2>7, FoldEnds
<1> DEFINE hops == Hops(x, start, sender)
<1>8. hops \in D /\ Good(hops, n)
  <2>1. n \in 0..n
    BY <1>1
  <2>2. hops = fold[1..n]
    BY <1>2, <1>3
  <2> HIDE DEF Good, hops, D
  <2>3. C[n] = {h \in D : Good(h, n)}
    BY <2>1
  <2> QED BY <1>7, <2>2, <2>3
<1> HIDE DEF hops
<1>9. hops = << >> => Len(hops) = 0
  OBVIOUS
<1>10. sender \notin ToSet(Route[x]) => hops # << >> /\ hops[1] = Route[x][start]
  BY <1>1, <1>2, <1>8, <1>9
<1> QED BY <1>8, <1>10 DEF hops

-----------------------------------------------------------------------------
(* The outbox after a closure: at most one result per key and peer, and    *)
(* for each key whose void is under way either nothing has changed, or its *)
(* results are the verdict of the record and every requester has one as    *)
(* soon as no neighbour is left to wait for.                               *)

Single(s) == \A i, j \in s.acks : i.peer = j.peer /\ i.key = j.key => i = j

ResultsFor(s, k) == {j \in s.acks : j.key = k}

Result(s, p, k) == [peer |-> p, key |-> k, status |-> Verdict(s.keys[k])]

Squared(s, k) ==
    /\ \A j \in ResultsFor(s, k) : j.status = Verdict(s.keys[k])
    /\ s.keys[k].voidPending = {} => \A p \in s.keys[k].voidRequests : Result(s, p, k) \in s.acks

SameResults(s, t, k) ==
    /\ ResultsFor(t, k) = ResultsFor(s, k)
    /\ Verdict(t.keys[k]) = Verdict(s.keys[k])
    /\ t.keys[k].voiding = s.keys[k].voiding
    /\ t.keys[k].voidPending = s.keys[k].voidPending
    /\ t.keys[k].voidRequests = s.keys[k].voidRequests

Renewed(s, t, k) == ~t.keys[k].voiding \/ Squared(t, k) \/ SameResults(s, t, k)

Upholds(s, t) == Single(t) /\ \A k \in Key : Renewed(s, t, k)

(* The change from s to t is about key k alone. *)
Apart(s, t, k) ==
    \A x \in Key \ {k} : t.keys[x] = s.keys[x] /\ ResultsFor(t, x) = ResultsFor(s, x)

LEMMA UpholdsReflexive == ASSUME NEW s, Single(s) PROVE Upholds(s, s)
BY DEF Upholds, Renewed, SameResults

LEMMA SquaredLasts ==
    ASSUME NEW s, NEW t, NEW k, Renewed(s, t, k), t.keys[k].voiding, Squared(s, k)
    PROVE  Squared(t, k)
<1> SUFFICES ASSUME SameResults(s, t, k) PROVE Squared(t, k)
  BY DEF Renewed
<1>1. \A p : Result(s, p, k) = Result(t, p, k)
  BY DEF SameResults, Result
<1>2. \A p : Result(s, p, k) \in s.acks => Result(s, p, k) \in t.acks
  BY DEF SameResults, ResultsFor, Result
<1> QED BY <1>1, <1>2 DEF SameResults, Squared

LEMMA UpholdsTransitive ==
    ASSUME NEW s, NEW t, NEW u, Upholds(s, t), Upholds(t, u)
    PROVE  Upholds(s, u)
<1> SUFFICES ASSUME NEW k \in Key PROVE Renewed(s, u, k)
  BY DEF Upholds
<1>1. Renewed(s, t, k) /\ Renewed(t, u, k)
  BY DEF Upholds
<1>2. u.keys[k].voiding /\ Squared(t, k) => Squared(u, k)
  BY <1>1, SquaredLasts
<1> QED BY <1>1, <1>2 DEF Renewed, SameResults

LEMMA ApartUpholds ==
    ASSUME NEW s, NEW t, NEW k, Single(t), Apart(s, t, k), k \in Key => Renewed(s, t, k)
    PROVE  Upholds(s, t)
BY DEF Upholds, Apart, Renewed, SameResults

LEMMA ApartTransitive ==
    ASSUME NEW s, NEW t, NEW u, NEW k, Apart(s, t, k), Apart(t, u, k)
    PROVE  Apart(s, u, k)
BY DEF Apart

LEMMA ApartReflexive == ASSUME NEW s, NEW k PROVE Apart(s, s, k)
BY DEF Apart

LEMMA EnqueueApart ==
    ASSUME NEW s, s = [keys |-> s.keys, acks |-> s.acks], NEW k, NEW peers, NEW status
    PROVE  LET t == Enqueue(s, k, peers, status) IN
           /\ t.keys = s.keys /\ Apart(s, t, k) /\ (Single(s) => Single(t))
           /\ \A p \in peers : [peer |-> p, key |-> k, status |-> status] \in t.acks
           /\ \A j \in ResultsFor(t, k) : j.status = status \/ (j \in s.acks /\ j.peer \notin peers)
<1> DEFINE new == {[peer |-> p, key |-> k, status |-> status] : p \in peers}
           acks == {j \in s.acks : ~(j.key = k /\ j.peer \in peers)} \cup new
           t == Enqueue(s, k, peers, status)
<1>1. t.keys = s.keys /\ t.acks = acks
  BY DEF Enqueue
<1>2. \A j \in new : j.key = k /\ j.peer \in peers /\ j = [peer |-> j.peer, key |-> k, status |-> status]
  OBVIOUS
<1>3. \A p \in peers : [peer |-> p, key |-> k, status |-> status] \in new
  OBVIOUS
<1> HIDE DEF t, new
<1>4. Single(s) => Single(t)
  BY <1>1, <1>2 DEF Single
<1>5. Apart(s, t, k)
  BY <1>1, <1>2 DEF Apart, ResultsFor
<1>6. \A j \in ResultsFor(t, k) : j.status = status \/ (j \in s.acks /\ j.peer \notin peers)
  BY <1>1, <1>2 DEF ResultsFor, new
<1>7. \A p \in peers : [peer |-> p, key |-> k, status |-> status] \in t.acks
  BY <1>1, <1>3
<1> QED BY <1>1, <1>4, <1>5, <1>6, <1>7 DEF t

LEMMA OneRecordApart ==
    ASSUME NEW s \in EngineState, NEW k \in Key, NEW r
    PROVE  LET t == [keys |-> [s.keys EXCEPT ![k] = r], acks |-> s.acks] IN
           t.keys[k] = r /\ t.acks = s.acks /\ Apart(s, t, k) /\ (Single(s) => Single(t))
BY DEF EngineState, Apart, ResultsFor, Single

LEMMA StartVoidApart ==
    ASSUME NEW s, Tidy(s), NEW k \in Key, NEW R
    PROVE  /\ Apart(s, StartVoid(s, k, R), k)
           /\ Single(s) => Single(StartVoid(s, k, R))
           /\ StartVoid(s, k, R) = [keys |-> StartVoid(s, k, R).keys, acks |-> StartVoid(s, k, R).acks]
BY DEF Apart, ResultsFor, Single, StartVoid, Tidy, EngineState

(* finishVoid settles the accounts of the key. *)
LEMMA FinishVoidSquares ==
    ASSUME NEW s, Tidy(s), NEW k \in Key, s.keys[k].voiding
    PROVE  /\ Apart(s, FinishVoid(s, k), k) /\ Squared(FinishVoid(s, k), k)
           /\ Single(s) => Single(FinishVoid(s, k))
<1> DEFINE r == s.keys[k]
           t == Enqueue(s, k, r.voidRequests, Verdict(r))
<1>1. FinishVoid(s, k) = IF r.voidPending # {} THEN s ELSE t
  BY DEF FinishVoid, Verdict
<1>2. \A j \in ResultsFor(s, k) : r.voidPending = {} /\ j.peer \in r.voidRequests
  BY DEF Tidy, Truthful, Owes, Fit, ResultsFor
<1>3. /\ t.keys = s.keys /\ Apart(s, t, k) /\ (Single(s) => Single(t))
      /\ \A p \in r.voidRequests : [peer |-> p, key |-> k, status |-> Verdict(r)] \in t.acks
      /\ \A j \in ResultsFor(t, k) : j.status = Verdict(r) \/ (j \in s.acks /\ j.peer \notin r.voidRequests)
  <2> HIDE DEF r
  <2> QED BY TidyShape, EnqueueApart
<1> HIDE DEF t
<1>4. Squared(t, k)
  BY <1>2, <1>3 DEF Squared, Result, ResultsFor
<1>5. r.voidPending # {} => Squared(s, k)
  BY <1>2 DEF Squared
<1> QED BY <1>1, <1>3, <1>4, <1>5, ApartReflexive

LEMMA VoidKeySquares ==
    ASSUME NEW s, Tidy(s), NEW L, NEW k \in Key, k \in L.touch, Known(s, k),
           NEW R \in SUBSET Node, \A p \in R : <<p, k>> \in L.ask
    PROVE  /\ Apart(s, VoidKey(s, k, R), k) /\ Squared(VoidKey(s, k, R), k)
           /\ Single(s) => Single(VoidKey(s, k, R))
<1>1. Tidy(StartVoid(s, k, R)) /\ StartVoid(s, k, R).keys[k].voiding
  BY StartVoidMoves DEF Moves
<1>2. Apart(s, StartVoid(s, k, R), k) /\ (Single(s) => Single(StartVoid(s, k, R)))
  BY StartVoidApart
<1> QED BY <1>1, <1>2, FinishVoidSquares, ApartTransitive DEF VoidKey

(* The handlers, one by one. *)
LEMMA VoidedUpholds ==
    ASSUME NEW s, Tidy(s), Single(s), NEW L, NEW k \in Key, NEW p \in Node, NEW local,
           k \in L.touch, <<p, k>> \in L.ask
    PROVE  Upholds(s, Voided(s, p, k, local)) /\ Squared(Voided(s, p, k, local), k)
<1>1. CASE Known(s, k)
  BY <1>1, VoidKeySquares, ApartUpholds DEF Voided, WithTombstone, Renewed
<1>2. CASE ~Known(s, k)
  <2> DEFINE r == [Absent EXCEPT !.role    = IF local THEN "target" ELSE "relay",
                                 !.sender  = p,
                                 !.unknown = TRUE]
             u == [keys |-> [s.keys EXCEPT ![k] = r], acks |-> s.acks]
             w == Requested(VoidBegun(r), {p})
             t == StartVoid(u, k, {p})
  <2>1. r \in Record /\ ~r.voiding
    BY DEF Absent, Record, RecordFields, Role
  <2>2. WithTombstone(s, p, k, local) = u
    BY <1>2, StateShape DEF WithTombstone, Tidy
  <2>3. u.keys[k] = r /\ u.acks = s.acks /\ Apart(s, u, k) /\ Single(u) /\ DOMAIN u.keys = Key
    <3> HIDE DEF r
    <3> QED BY OneRecordApart DEF Tidy, EngineState
  <2>4. /\ t.keys[k] = w /\ ResultsFor(t, k) = {} /\ Apart(u, t, k) /\ Single(t)
        /\ t = [keys |-> t.keys, acks |-> t.acks]
    <3> HIDE DEF r, u
    <3> QED BY <2>1, <2>3 DEF StartVoid, ResultsFor, Apart, Single
  <2>5. Voided(s, p, k, local) = FinishVoid(t, k)
    BY <2>2 DEF Voided, VoidKey
  <2>6. FinishVoid(t, k) = IF w.voidPending # {} THEN t ELSE Enqueue(t, k, w.voidRequests, Verdict(w))
    BY <2>4 DEF FinishVoid, Verdict
  <2> HIDE DEF r, u, t, w
  <2> DEFINE v == Enqueue(t, k, w.voidRequests, Verdict(w))
  <2>7. /\ v.keys = t.keys /\ Apart(t, v, k) /\ Single(v)
        /\ \A q \in w.voidRequests : [peer |-> q, key |-> k, status |-> Verdict(w)] \in v.acks
        /\ \A j \in ResultsFor(v, k) : j.status = Verdict(w) \/ j \in t.acks
    BY <2>4, EnqueueApart
  <2> HIDE DEF v
  <2>8. Squared(v, k)
    BY <2>4, <2>7 DEF Squared, Result, ResultsFor
  <2>9. w.voidPending # {} => Squared(t, k)
    BY <2>4 DEF Squared
  <2>10. Apart(s, t, k) /\ Apart(s, v, k)
    BY <2>3, <2>4, <2>7, ApartTransitive
  <2>11. Upholds(s, t) \/ w.voidPending = {}
    BY <2>4, <2>9, <2>10, ApartUpholds DEF Renewed
  <2>12. Upholds(s, v)
    BY <2>7, <2>8, <2>10, ApartUpholds DEF Renewed
  <2> QED BY <2>5, <2>6, <2>8, <2>9, <2>11, <2>12 DEF v
<1> QED BY <1>1, <1>2

(* A record whose void is not under way, changed or new. *)
LEMMA LiveUpholds ==
    ASSUME NEW s, Tidy(s), Single(s), NEW k \in Key, NEW r, ~r.voiding, NEW t,
           t = [keys |-> [s.keys EXCEPT ![k] = r], acks |-> s.acks]
    PROVE  /\ Upholds(s, t)
           /\ \A peers, status : Upholds(s, Enqueue(t, k, peers, status))
<1>1. t.keys[k] = r /\ t.acks = s.acks /\ Apart(s, t, k) /\ Single(t)
  BY OneRecordApart DEF Tidy
<1>2. Upholds(s, t)
  BY <1>1, ApartUpholds DEF Renewed
<1>3. ASSUME NEW peers, NEW status PROVE Upholds(s, Enqueue(t, k, peers, status))
  <2> DEFINE u == Enqueue(t, k, peers, status)
  <2>1. u.keys = t.keys /\ Apart(t, u, k) /\ Single(u)
    BY <1>1, EnqueueApart
  <2> HIDE DEF u
  <2>2. Apart(s, u, k)
    BY <1>1, <2>1, ApartTransitive
  <2>3. Upholds(s, u)
    BY <1>1, <2>1, <2>2, ApartUpholds DEF Renewed
  <2> QED BY <2>3 DEF u
<1> QED BY <1>2, <1>3

LEMMA StoredUpholds ==
    ASSUME NEW s, Tidy(s), Single(s), NEW k \in Key
    PROVE  Upholds(s, Stored(s, k))
<1> DEFINE r == [Absent EXCEPT !.role = "source", !.material = TRUE]
<1>1. Stored(s, k) = [keys |-> [s.keys EXCEPT ![k] = r], acks |-> s.acks]
  BY StateShape DEF Stored, Tidy
<1>2. ~r.voiding
  BY DEF Absent
<1> HIDE DEF r
<1> QED BY <1>1, <1>2, LiveUpholds

LEMMA PinnedUpholds ==
    ASSUME NEW s, Tidy(s), Single(s), NEW k \in Key, NEW p, ~s.keys[k].voiding
    PROVE  Upholds(s, Pinned(s, k, p))
<1> DEFINE r == [s.keys[k] EXCEPT !.next = p, !.sent = TRUE]
<1>1. Pinned(s, k, p) = [keys |-> [s.keys EXCEPT ![k] = r], acks |-> s.acks]
  BY DEF Pinned, Tidy, EngineState
<1>2. s.keys[k] \in Record
  BY DEF Tidy, EngineState
<1>3. ~r.voiding
  BY <1>2 DEF Record, RecordFields
<1> HIDE DEF r
<1> QED BY <1>1, <1>3, LiveUpholds

LEMMA MadeReadyUpholds ==
    ASSUME NEW s, Tidy(s), Single(s), NEW k \in Key, ~s.keys[k].voiding
    PROVE  Upholds(s, MadeReady(s, k))
<1> DEFINE r == [s.keys[k] EXCEPT !.ready    = TRUE,
                                  !.material = @ /\ s.keys[k].role # "relay"]
           u == [s EXCEPT !.keys[k] = r]
<1>1. s.keys[k] \in Record
  BY DEF Tidy, EngineState
<1>2. ~r.voiding
  BY <1>1 DEF Record, RecordFields
<1>3. u = [keys |-> [s.keys EXCEPT ![k] = r], acks |-> s.acks]
  BY StateShape DEF Tidy
<1>4. MadeReady(s, k) = Enqueue(u, k, Peers(r.sender), "relayed")
  BY DEF MadeReady
<1> HIDE DEF r, u
<1> QED BY <1>2, <1>3, <1>4, LiveUpholds

LEMMA AcceptedUpholds ==
    ASSUME NEW s, Tidy(s), Single(s), NEW L, NEW k \in Key, NEW p \in Node, NEW local \in BOOLEAN, NEW lap,
           k \in L.touch, <<p, k>> \in L.ask
    PROVE  Upholds(s, Accepted(s, p, k, local, lap))
<1>1. CASE Known(s, k)
  <2> DEFINE v == IF lap /\ ~s.keys[k].voiding THEN StartVoid(s, k, {p}) ELSE s
             t == AcceptedAgain(s, p, k, lap)
  <2>1. Tidy(v) /\ Apart(s, v, k) /\ Single(v)
    BY <1>1, StartVoidMoves, StartVoidApart, ApartReflexive DEF Moves
  <2>2. t = IF v.keys[k].voiding THEN FinishVoid(v, k)
            ELSE IF v.keys[k].ready THEN Enqueue(v, k, {p}, "relayed") ELSE v
    BY DEF AcceptedAgain
  <2> HIDE DEF v, t
  <2>3. CASE v.keys[k].voiding
    BY <1>1, <2>1, <2>2, <2>3, FinishVoidSquares, ApartTransitive, ApartUpholds DEF Accepted, Renewed, t
  <2>4. CASE ~v.keys[k].voiding
    <3>1. /\ Enqueue(v, k, {p}, "relayed").keys = v.keys
          /\ Apart(v, Enqueue(v, k, {p}, "relayed"), k) /\ Single(Enqueue(v, k, {p}, "relayed"))
      BY <2>1, TidyShape, EnqueueApart
    <3>2. t.keys = v.keys /\ Apart(v, t, k) /\ Single(t)
      BY <2>1, <2>2, <2>4, <3>1, ApartReflexive
    <3> QED BY <1>1, <2>1, <2>4, <3>2, ApartTransitive, ApartUpholds DEF Accepted, Renewed, t
  <2> QED BY <2>3, <2>4
<1>2. CASE ~Known(s, k)
  <2> DEFINE r == [Absent EXCEPT !.role     = IF local THEN "target" ELSE "relay",
                                 !.sender   = p,
                                 !.material = TRUE,
                                 !.ready    = local]
             t == [s EXCEPT !.keys[k] = r]
  <2>1. ~r.voiding
    BY DEF Absent
  <2>2. t = [keys |-> [s.keys EXCEPT ![k] = r], acks |-> s.acks]
    BY StateShape DEF Tidy
  <2>3. AcceptedNew(s, p, k, local) = IF local THEN Enqueue(t, k, {p}, "relayed") ELSE t
    BY DEF AcceptedNew
  <2> HIDE DEF r, t
  <2> QED BY <1>2, <2>1, <2>2, <2>3, LiveUpholds DEF Accepted
<1> QED BY <1>1, <1>2

LEMMA ConfirmedUpholds ==
    ASSUME NEW s, Tidy(s), Single(s), NEW k \in Key, NEW p, NEW status, s.keys[k].voiding
    PROVE  \/ Confirmed(s, p, k, status) = s
           \/ /\ Apart(s, Confirmed(s, p, k, status), k) /\ Squared(Confirmed(s, p, k, status), k)
              /\ Single(Confirmed(s, p, k, status))
<1> DEFINE r == [s.keys[k] EXCEPT !.voidPending = @ \ {p},
                                  !.voidFailed  = @ \/ status = "failed to void"]
           t == [s EXCEPT !.keys[k] = r]
<1>1. s.keys[k] \in Record /\ Fit(s.keys[k]) /\ s \in EngineState
  BY DEF Tidy, EngineState
<1>2. /\ r \in Record /\ r.role = s.keys[k].role /\ r.sender = s.keys[k].sender
      /\ r.next = s.keys[k].next /\ r.sent = s.keys[k].sent /\ r.ready = s.keys[k].ready
      /\ r.delivered = s.keys[k].delivered /\ r.unknown = s.keys[k].unknown
      /\ r.voiding /\ r.voidRequests = s.keys[k].voidRequests
      /\ r.voidPending = s.keys[k].voidPending \ {p}
      /\ r.voidFailed <=> s.keys[k].voidFailed \/ status = "failed to void"
  BY <1>1 DEF Record, RecordFields
<1>3. t = [keys |-> [s.keys EXCEPT ![k] = r], acks |-> s.acks]
  BY StateShape DEF Tidy
<1>4. Confirmed(s, p, k, status) = IF status \notin VoidStatus THEN s ELSE FinishVoid(t, k)
  BY DEF Confirmed
<1> HIDE DEF r, t
<1>5. t.keys[k] = r /\ t.acks = s.acks /\ Apart(s, t, k) /\ Single(t)
  BY <1>1, <1>3, OneRecordApart
<1>6. Tidy(t)
  <2>1. t \in EngineState
    BY <1>1, <1>2, <1>3 DEF EngineState
  <2>2. Fit(r)
    BY <1>1, <1>2 DEF Fit, Neighbours
  <2>3. \A x \in Key : t.keys[x] = r \/ t.keys[x] = s.keys[x]
    BY <1>5 DEF Apart
  <2>4. \A x \in Key : Fit(t.keys[x])
    BY <2>2, <2>3 DEF Tidy
  <2>5. \A j \in t.acks : j.key \in Key /\ Owes(s.keys[j.key], j.peer, j.status)
    BY <1>1, <1>5 DEF EngineState, Job, Tidy, Truthful
  <2>6. \A j \in t.acks : t.keys[j.key] = s.keys[j.key] \/ (j.key = k /\ t.keys[j.key] = r)
    BY <1>5, <2>5 DEF Apart
  <2>7. \A j \in t.acks : Owes(t.keys[j.key], j.peer, j.status)
    BY <1>2, <2>5, <2>6 DEF Owes
  <2> QED BY <2>1, <2>4, <2>7 DEF Tidy, Truthful
<1> QED BY <1>2, <1>4, <1>5, <1>6, FinishVoidSquares, ApartTransitive

LEMMA AcknowledgedUpholds ==
    ASSUME NEW s, Tidy(s), Single(s), NEW L, NEW k \in Key, NEW p, NEW status, NEW lap,
           Known(s, k), k \in L.touch
    PROVE  Upholds(s, Acknowledged(s, p, k, status, lap))
<1> DEFINE v == IF lap /\ ~s.keys[k].voiding THEN StartVoid(s, k, {}) ELSE s
           t == Acknowledged(s, p, k, status, lap)
<1>1. Tidy(v) /\ Apart(s, v, k) /\ Single(v) /\ Known(v, k)
  BY StartVoidMoves, StartVoidApart, ApartReflexive DEF Moves, Evolves, Known
<1>2. v = s \/ Squared(v, k)
  <2>1. s.keys[k] \in Record /\ s.keys \in [Key -> Record]
    BY DEF Tidy, EngineState
  <2>2. ~s.keys[k].voiding => Requested(VoidBegun(s.keys[k]), {}).voidRequests = {}
    BY <2>1 DEF VoidBegun, Requested, Record, RecordFields
  <2>3. ~s.keys[k].voiding => Squared(StartVoid(s, k, {}), k)
    BY <2>1, <2>2 DEF StartVoid, Squared, ResultsFor
  <2> QED BY <2>3
<1>3. t = IF v.keys[k].voiding THEN Confirmed(v, p, k, status)
          ELSE IF status = "relayed" THEN MadeReady(v, k)
          ELSE VoidKey(v, k, {})
  BY DEF Acknowledged
<1> HIDE DEF v, t
<1>4. Upholds(s, v)
  BY <1>1, <1>2, ApartUpholds, UpholdsReflexive DEF Renewed
<1>5. CASE v.keys[k].voiding
  <2>1. Upholds(v, t)
    BY <1>1, <1>3, <1>5, ConfirmedUpholds, ApartUpholds, UpholdsReflexive DEF Renewed
  <2> QED BY <1>4, <2>1, UpholdsTransitive DEF t
<1>6. CASE ~v.keys[k].voiding /\ status = "relayed"
  BY <1>1, <1>3, <1>4, <1>6, MadeReadyUpholds, UpholdsTransitive DEF t
<1>7. CASE ~v.keys[k].voiding /\ status # "relayed"
  <2>1. Apart(v, VoidKey(v, k, {}), k) /\ Squared(VoidKey(v, k, {}), k) /\ Single(VoidKey(v, k, {}))
    BY <1>1, VoidKeySquares
  <2>2. Upholds(v, t)
    BY <1>3, <1>7, <2>1, ApartUpholds DEF Renewed
  <2> QED BY <1>4, <2>2, UpholdsTransitive DEF t
<1> QED BY <1>5, <1>6, <1>7

LEMMA DeliveredUpholds ==
    ASSUME NEW s, Tidy(s), Single(s), NEW B
    PROVE  Upholds(s, Delivered(s, B))
<1> DEFINE u == Delivered(s, B)
           q(k) == IF k \notin B THEN s.keys[k] ELSE
                   [s.keys[k] EXCEPT !.delivered = TRUE, !.token = NoToken, !.material = FALSE]
<1>1. u.acks = s.acks /\ u.keys = [k \in Key |-> q(k)]
  BY DEF Delivered, Tidy, EngineState
<1>2. \A k \in Key : s.keys[k] \in Record
  BY DEF Tidy, EngineState
<1>3. \A k \in Key : /\ q(k).voidPending = s.keys[k].voidPending /\ q(k).voidRequests = s.keys[k].voidRequests
                     /\ q(k).voiding = s.keys[k].voiding /\ q(k).voidFailed = s.keys[k].voidFailed
                     /\ q(k).unknown = s.keys[k].unknown
  BY <1>2 DEF Record, RecordFields
<1> HIDE DEF u, q
<1>4. \A k \in Key : SameResults(s, u, k)
  BY <1>1, <1>3 DEF SameResults, ResultsFor, Verdict
<1> QED BY <1>1, <1>4 DEF Upholds, Renewed, Single, u

LEMMA SweptUpholds ==
    ASSUME NEW s, Tidy(s), Single(s), NEW D, D \subseteq Key
    PROVE  Upholds(s, Swept(s, D))
<1> DEFINE due == {k \in D : Known(s, k) /\ ~s.keys[k].voiding}
           u == Swept(s, D)
<1>1. /\ u.keys = [k \in Key |-> IF k \in due THEN VoidBegun(s.keys[k]) ELSE s.keys[k]]
      /\ u.acks = {j \in s.acks : j.key \notin due}
  BY DEF Swept
<1> HIDE DEF u
<1>2. ASSUME NEW k \in Key PROVE Renewed(s, u, k)
  <2>1. CASE k \in due
    <3>1. s.keys[k] \in Record /\ ~s.keys[k].voiding
      BY <2>1 DEF Tidy, EngineState
    <3>2. VoidBegun(s.keys[k]).voidRequests = {}
      BY <3>1 DEF VoidBegun, Record, RecordFields
    <3>3. u.keys[k] = VoidBegun(s.keys[k]) /\ ResultsFor(u, k) = {}
      BY <1>1, <2>1 DEF ResultsFor
    <3> QED BY <3>2, <3>3 DEF Renewed, Squared
  <2>2. CASE k \notin due
    BY <1>1, <2>2 DEF Renewed, SameResults, ResultsFor
  <2> QED BY <2>1, <2>2
<1>3. Single(u)
  BY <1>1 DEF Single
<1> QED BY <1>2, <1>3 DEF Upholds, u

-----------------------------------------------------------------------------
(* The copy that change() hands out, at any stage of a batch.              *)

Detail == [pair : Association \cup {NoAssociation}, content : Content \cup {NoContent}, hops : Seq(Node)]

Stage == [st : EngineState, info : [Key -> Detail], cursor : [DOMAIN Route -> Nat]]

(* A record has its details, and no route back to its sender.              *)
Detailed(e) ==
    \A k \in Key :
        IF Known(e.st, k) THEN
            e.info[k].pair \in Association /\ e.st.keys[k].sender \notin ToSet(e.info[k].hops)
        ELSE e.info[k] = NoInfo

(* The hops before the cursor have had one key more than the others.       *)
StartsAt(f, x, p) == {k \in Key : f[k].hops # << >> /\ f[k].pair.slave = x /\ f[k].hops[1] = p}

Dealt(f, c, x, q) ==
    \A i \in DOMAIN Route[x] :
        /\ IsFiniteSet(StartsAt(f, x, Route[x][i]))
        /\ Cardinality(StartsAt(f, x, Route[x][i])) = IF i < c THEN q + 1 ELSE q

Spread(e) ==
    \A x \in DOMAIN Route :
        /\ e.cursor[x] \in DOMAIN Route[x]
        /\ Incoming \cap ToSet(Route[x]) = {} => \E q \in Nat : Dealt(e.info, e.cursor[x], x, q)

Sane(e) == e \in Stage /\ Tidy(e.st) /\ Single(e.st) /\ Detailed(e) /\ Spread(e)

(* From f to g the key k is given the details d.                           *)
Dealing(f, g, k, d) ==
    \A x, p :
        /\ k \notin StartsAt(f, x, p)
        /\ StartsAt(g, x, p) = IF d.hops # << >> /\ d.pair.slave = x /\ d.hops[1] = p
                               THEN StartsAt(f, x, p) \cup {k} ELSE StartsAt(f, x, p)

LEMMA ChoiceAdded ==
    ASSUME NEW f \in [Key -> Detail], NEW k \in Key, f[k] = NoInfo, NEW d \in Detail,
           NEW g, g = [f EXCEPT ![k] = d]
    PROVE  Dealing(f, g, k, d)
<1>1. f[k].hops = << >>
  BY DEF NoInfo
<1> QED BY <1>1 DEF StartsAt, Dealing

(* The cursor moves on by one hop with every key. *)
LEMMA DealtNext ==
    ASSUME NEW f \in [Key -> Detail], NEW k \in Key, f[k] = NoInfo, NEW d \in Detail,
           NEW x \in DOMAIN Route, NEW c \in DOMAIN Route[x], NEW q \in Nat, Dealt(f, c, x, q),
           d.hops # << >>, d.pair.slave = x, d.hops[1] = Route[x][c], NEW g, g = [f EXCEPT ![k] = d],
           NEW next, next = (c % Len(Route[x])) + 1
    PROVE  \E r \in Nat : Dealt(g, next, x, r)
<1> DEFINE n == Len(Route[x])
           hop(i) == Route[x][i]
<1>1. /\ DOMAIN Route[x] = 1..n /\ n \in Nat /\ n > 0 /\ c \in 1..n
      /\ \A i, j \in 1..n : hop(i) = hop(j) => i = j
  BY RoutingAssumption DEF IsInjective
<1>2. ASSUME NEW i \in 1..n
      PROVE  /\ IsFiniteSet(StartsAt(f, x, hop(i)))
             /\ Cardinality(StartsAt(f, x, hop(i))) = IF i < c THEN q + 1 ELSE q
  BY <1>1 DEF Dealt
<1>a. \A p : /\ k \notin StartsAt(f, x, p)
             /\ StartsAt(g, x, p) = IF p = Route[x][c] THEN StartsAt(f, x, p) \cup {k} ELSE StartsAt(f, x, p)
  <2>1. Dealing(f, g, k, d)
    BY ChoiceAdded
  <2> QED BY <2>1 DEF Dealing
<1>3. ASSUME NEW i \in 1..n
      PROVE  /\ IsFiniteSet(StartsAt(g, x, hop(i)))
             /\ Cardinality(StartsAt(g, x, hop(i))) = IF i < c + 1 THEN q + 1 ELSE q
  <2>1. CASE i = c
    <3>1. StartsAt(g, x, hop(i)) = StartsAt(f, x, hop(i)) \cup {k} /\ k \notin StartsAt(f, x, hop(i))
      BY <1>a, <2>1
    <3>2. IsFiniteSet(StartsAt(g, x, hop(i))) /\ Cardinality(StartsAt(g, x, hop(i))) = q + 1
      <4> HIDE DEF hop
      <4>1. IsFiniteSet(StartsAt(f, x, hop(i))) /\ Cardinality(StartsAt(f, x, hop(i))) = q
        BY <1>1, <1>2, <2>1
      <4>2. IsFiniteSet(StartsAt(f, x, hop(i)) \cup {k})
            /\ Cardinality(StartsAt(f, x, hop(i)) \cup {k}) = q + 1
        BY <3>1, <4>1, FS_AddElement
      <4> QED BY <3>1, <4>2, Zenon
    <3> QED BY <1>1, <2>1, <3>2
  <2>2. CASE i # c
    <3>1. hop(i) # Route[x][c]
      BY <1>1, <2>2
    <3>2. StartsAt(g, x, hop(i)) = StartsAt(f, x, hop(i))
      BY <1>a, <3>1
    <3> HIDE DEF hop
    <3> QED BY <1>1, <1>2, <2>2, <3>2
  <2> QED BY <2>1, <2>2
<1>4. CASE c < n
  <2>1. next = c + 1
    BY <1>1, <1>4
  <2>2. Dealt(g, c + 1, x, q)
    BY <1>1, <1>3 DEF Dealt
  <2> QED BY <2>1, <2>2, Zenon
<1>5. CASE c = n
  <2>1. next = 1
    BY <1>1, <1>5
  <2>2. ASSUME NEW i \in 1..n
        PROVE  /\ IsFiniteSet(StartsAt(g, x, hop(i)))
               /\ Cardinality(StartsAt(g, x, hop(i))) = IF i < 1 THEN (q + 1) + 1 ELSE q + 1
    <3>1. i < c + 1 /\ ~(i < 1)
      BY <1>1, <1>5
    <3> QED BY <1>3, <3>1
  <2>3. Dealt(g, 1, x, q + 1)
    BY <1>1, <2>2 DEF Dealt
  <2>4. q + 1 \in Nat
    OBVIOUS
  <2> QED BY <2>1, <2>3, <2>4, Zenon
<1>6. c < n \/ c = n
  BY <1>1
<1> QED BY <1>4, <1>5, <1>6

(* New records may only come from N; nothing else is restricted. *)
Licence(N) == [touch |-> Key, new |-> N, ready |-> Key, give |-> Key,
               ask |-> Node \X Key, heard |-> Node \X Key, failed |-> {}]

LEMMA LicenceFields ==
    ASSUME NEW N
    PROVE  LET L == Licence(N) IN
           /\ L.touch = Key /\ L.new = N /\ L.ready = Key /\ L.give = Key
           /\ L.ask = Node \X Key /\ L.heard = Node \X Key /\ L.failed = {}
BY DEF Licence

(* The later stage e continues the earlier stage d. *)
Extends(d, e, N) ==
    /\ Moves(d.st, e.st, Licence(N))
    /\ Upholds(d.st, e.st)
    /\ \A k \in Key : Known(d.st, k) => e.info[k] = d.info[k]

LEMMA ExtendsReflexive ==
    ASSUME NEW e, Sane(e), NEW N
    PROVE  Extends(e, e, N)
BY MovesReflexive, UpholdsReflexive DEF Extends, Sane

LEMMA ExtendsTransitive ==
    ASSUME NEW d, NEW e, NEW g, NEW N, Extends(d, e, N), Extends(e, g, N)
    PROVE  Extends(d, g, N)
<1>1. Moves(d.st, g.st, Licence(N)) /\ Upholds(d.st, g.st)
  BY MovesTransitive, UpholdsTransitive DEF Extends
<1>2. \A k \in Key : Known(d.st, k) => Known(e.st, k)
  BY DEF Extends, Moves, Evolves, Known
<1> QED BY <1>1, <1>2 DEF Extends

(* A stage follows from another by a change of the engine that gives the   *)
(* new records their details.                                              *)
LEMMA SaneStep ==
    ASSUME NEW e, Sane(e), NEW s, NEW N, Moves(e.st, s, Licence(N)), Upholds(e.st, s),
           NEW f \in [Key -> Detail], NEW c \in [DOMAIN Route -> Nat],
           \A k \in Key : IF Known(e.st, k) \/ ~Known(s, k) THEN f[k] = e.info[k]
                          ELSE f[k].pair \in Association /\ s.keys[k].sender \notin ToSet(f[k].hops),
           NEW g, g = [st |-> s, info |-> f, cursor |-> c], Spread(g)
    PROVE  Sane(g) /\ Extends(e, g, N)
<1>1. g.st = s /\ g.info = f /\ g.cursor = c
  OBVIOUS
<1>2. Tidy(s) /\ Single(s)
  BY DEF Moves, Upholds
<1>3. g \in Stage
  BY <1>2 DEF Stage, Tidy
<1>4. Detailed(g)
  <2> SUFFICES ASSUME NEW k \in Key
               PROVE  IF Known(s, k) THEN f[k].pair \in Association /\ s.keys[k].sender \notin ToSet(f[k].hops)
                      ELSE f[k] = NoInfo
    BY <1>1 DEF Detailed
  <2>1. Known(e.st, k) => Known(s, k) /\ s.keys[k].sender = e.st.keys[k].sender
    BY DEF Moves, Evolves, Known
  <2>2. IF Known(e.st, k) THEN e.info[k].pair \in Association /\ e.st.keys[k].sender \notin ToSet(e.info[k].hops)
        ELSE e.info[k] = NoInfo
    BY DEF Sane, Detailed
  <2> QED BY <2>1, <2>2
<1> QED BY <1>1, <1>2, <1>3, <1>4 DEF Sane, Extends

LEMMA EmptyDetail ==
    ASSUME NEW a \in Association
    PROVE  LET d == [NoInfo EXCEPT !.pair = a] IN
           d \in Detail /\ d.pair = a /\ d.hops = << >> /\ \A p : p \notin ToSet(d.hops)
<1> DEFINE n == NoInfo
           d == [n EXCEPT !.pair = a]
<1>1. n = [pair |-> NoAssociation, content |-> NoContent, hops |-> << >>]
  BY DEF NoInfo
<1> HIDE DEF n
<1>2. d = [pair |-> a, content |-> NoContent, hops |-> << >>]
  BY <1>1
<1> HIDE DEF d
<1>3. d \in Detail /\ d.pair = a /\ d.hops = << >>
  BY <1>2 DEF Detail
<1>4. \A p : p \notin ToSet(d.hops)
  BY <1>3 DEF ToSet
<1> QED BY <1>3, <1>4 DEF d, n

(* Details without hops leave the shares of the hops as they are. *)
LEMMA DealtAgain ==
    ASSUME NEW f \in [Key -> Detail], NEW k \in Key, f[k] = NoInfo, NEW d \in Detail,
           NEW g, g = [f EXCEPT ![k] = d], NEW x, d.hops = << >> \/ d.pair.slave # x,
           NEW c, NEW q, Dealt(f, c, x, q)
    PROVE  Dealt(g, c, x, q)
<1>1. Dealing(f, g, k, d)
  BY ChoiceAdded
<1>2. \A p : StartsAt(g, x, p) = StartsAt(f, x, p)
  BY <1>1 DEF Dealing
<1> QED BY <1>2, Zenon DEF Dealt

LEMMA SpreadAgain ==
    ASSUME NEW e, Sane(e), NEW k \in Key, e.info[k] = NoInfo, NEW d \in Detail, d.hops = << >>,
           NEW f, f = [e.info EXCEPT ![k] = d], NEW g, g.info = f, g.cursor = e.cursor
    PROVE  Spread(g)
<1>1. g.info = f /\ g.cursor = e.cursor /\ e.info \in [Key -> Detail]
  BY DEF Sane, Stage
<1>2. \A x, c, q : Dealt(e.info, c, x, q) => Dealt(f, c, x, q)
  BY <1>1, DealtAgain
<1> QED BY <1>1, <1>2 DEF Sane, Spread

LEMMA AdvancedStays ==
    ASSUME NEW c \in [DOMAIN Route -> Nat], NEW x \in DOMAIN Route, c[x] \in DOMAIN Route[x]
    PROVE  /\ Advanced(c, x) \in [DOMAIN Route -> Nat]
           /\ Advanced(c, x)[x] = (c[x] % Len(Route[x])) + 1
           /\ Advanced(c, x)[x] \in DOMAIN Route[x]
           /\ \A y \in DOMAIN Route \ {x} : Advanced(c, x)[y] = c[y]
<1> DEFINE n == Len(Route[x])
           m == (c[x] % n) + 1
<1>1. DOMAIN Route[x] = 1..n /\ n \in Nat /\ n > 0 /\ c[x] \in Nat
  BY RoutingAssumption
<1>2. Advanced(c, x) = [c EXCEPT ![x] = m]
  BY DEF Advanced
<1>3. m \in Nat /\ m \in DOMAIN Route[x]
  <2>1. \A i \in Nat : i % n \in 0..(n - 1)
    BY <1>1
  <2> HIDE DEF n
  <2> QED BY <1>1, <2>1
<1> HIDE DEF m
<1> QED BY <1>2, <1>3 DEF m

(* A key for a remote SAE takes the hops from the cursor on, and moves it. *)
LEMMA SpreadNext ==
    ASSUME NEW e, Sane(e), NEW k \in Key, e.info[k] = NoInfo, NEW d \in Detail,
           NEW x \in DOMAIN Route, d.pair.slave = x, NEW sender \in Incoming \cup {NoNode},
           d.hops = Hops(x, e.cursor[x], sender),
           NEW f, f = [e.info EXCEPT ![k] = d], NEW g, g.info = f, g.cursor = Advanced(e.cursor, x)
    PROVE  Spread(g)
<1> DEFINE c == Advanced(e.cursor, x)
<1>1. g.info = f /\ g.cursor = c /\ e.info \in [Key -> Detail] /\ e.cursor \in [DOMAIN Route -> Nat]
  BY DEF Sane, Stage
<1>2. e.cursor[x] \in DOMAIN Route[x] /\ ToSet(Route[x]) \subseteq Node
  BY RoutingAssumption DEF Sane, Spread, ToSet
<1>3. /\ c[x] = (e.cursor[x] % Len(Route[x])) + 1 /\ c[x] \in DOMAIN Route[x]
      /\ \A y \in DOMAIN Route \ {x} : c[y] = e.cursor[y]
  BY <1>1, <1>2, AdvancedStays
<1> HIDE DEF c
<1>6. \A y \in DOMAIN Route : c[y] \in DOMAIN Route[y]
  BY <1>3 DEF Sane, Spread
<1>7. ASSUME Incoming \cap ToSet(Route[x]) = {}
      PROVE  \E q \in Nat : Dealt(f, c[x], x, q)
  <2>1. sender \notin ToSet(Route[x])
    BY <1>2, <1>7, NameAssumption
  <2>2. d.hops # << >> /\ d.hops[1] = Route[x][e.cursor[x]]
    BY <1>2, <2>1, HopsOf
  <2>3. PICK q \in Nat : Dealt(e.info, e.cursor[x], x, q)
    BY <1>7 DEF Sane, Spread
  <2> QED BY <1>1, <1>2, <1>3, <2>2, <2>3, DealtNext
<1>8. ASSUME NEW y, y # x, NEW i, NEW q, Dealt(e.info, i, y, q) PROVE Dealt(f, i, y, q)
  <2>1. d.pair.slave # y
    BY <1>8
  <2> QED BY <1>1, <1>8, <2>1, DealtAgain, Zenon
<1>9. ASSUME NEW y \in DOMAIN Route, Incoming \cap ToSet(Route[y]) = {}
      PROVE  \E q \in Nat : Dealt(f, c[y], y, q)
  BY <1>3, <1>7, <1>8, <1>9 DEF Sane, Spread
<1> QED BY <1>1, <1>6, <1>9 DEF Spread

LEMMA WithInfoFits ==
    ASSUME NEW e, Sane(e), NEW k \in Key, ~Known(e.st, k), NEW s, Known(s, k), NEW N,
           Moves(e.st, s, Licence(N)), Upholds(e.st, s), Apart(e.st, s, k),
           NEW a \in Association, NEW c \in Content, NEW sender \in Incoming \cup {NoNode},
           s.keys[k].sender = sender, ~Local(a.slave) => a.slave \in DOMAIN Route,
           NEW t, t = [st |-> s, info |-> e.info, cursor |-> e.cursor], NEW g, g = WithInfo(t, k, a, c, sender)
    PROVE  /\ Sane(g) /\ Extends(e, g, N) /\ g.st = s /\ g.info[k].content = c
           /\ \A x \in Key \ {k} : g.info[x] = e.info[x]
<1> DEFINE remote == ~Local(a.slave)
           hops == IF remote THEN Hops(a.slave, e.cursor[a.slave], sender) ELSE << >>
           d == [pair |-> a, content |-> c, hops |-> hops]
           f == [e.info EXCEPT ![k] = d]
           cur == IF remote THEN Advanced(e.cursor, a.slave) ELSE e.cursor
<1>1. /\ e.info \in [Key -> Detail] /\ e.cursor \in [DOMAIN Route -> Nat] /\ e.info[k] = NoInfo
  BY DEF Sane, Stage, Detailed
<1>2. g = [st |-> s, info |-> f, cursor |-> cur]
  BY <1>1 DEF WithInfo
<1>3. hops \in Seq(Node) /\ sender \notin ToSet(hops)
  <2>1. CASE remote
    BY <2>1, HopsOf DEF Sane, Spread
  <2>2. CASE ~remote
    BY <2>2 DEF ToSet
  <2> QED BY <2>1, <2>2
<1> HIDE DEF hops
<1>4. d \in Detail /\ d.pair = a /\ d.content = c /\ d.hops = hops
  BY <1>3 DEF Detail
<1> HIDE DEF d
<1>5. f \in [Key -> Detail] /\ f[k] = d /\ \A y \in Key \ {k} : f[y] = e.info[y]
  BY <1>1, <1>4
<1>6. Spread(g) /\ cur \in [DOMAIN Route -> Nat]
  <2>1. CASE remote
    <3>1. /\ hops = Hops(a.slave, e.cursor[a.slave], sender) /\ cur = Advanced(e.cursor, a.slave)
          /\ a.slave \in DOMAIN Route
      BY <1>4, <2>1 DEF hops
    <3>2. f = [e.info EXCEPT ![k] = d] /\ g.info = f /\ g.cursor = Advanced(e.cursor, a.slave)
      BY <1>2, <3>1
    <3> HIDE DEF cur, f
    <3>3. Spread(g)
      <4> DEFINE x == a.slave
      <4>1. /\ x \in DOMAIN Route /\ d.pair.slave = x /\ d.hops = Hops(x, e.cursor[x], sender)
            /\ g.cursor = Advanced(e.cursor, x) /\ f = [e.info EXCEPT ![k] = d] /\ g.info = f
            /\ d \in Detail /\ e.info[k] = NoInfo
        BY <1>1, <1>4, <3>1, <3>2
      <4> HIDE DEF x
      <4> QED BY ONLY Sane(e), k \in Key, sender \in Incoming \cup {NoNode}, <4>1, SpreadNext
    <3>4. cur \in [DOMAIN Route -> Nat]
      BY <1>1, <3>1, AdvancedStays DEF Sane, Spread
    <3> QED BY <3>3, <3>4
  <2>2. CASE ~remote
    <3>1. d.hops = << >> /\ cur = e.cursor
      BY <1>4, <2>2 DEF hops
    <3>2. f = [e.info EXCEPT ![k] = d] /\ g.info = f /\ g.cursor = e.cursor
      BY <1>2, <3>1
    <3> HIDE DEF cur, f
    <3>3. Spread(g)
      BY <1>1, <1>4, <3>1, <3>2, SpreadAgain
    <3> QED BY <1>1, <3>1, <3>3
  <2> QED BY <2>1, <2>2
<1> HIDE DEF f, cur
<1>7. \A y \in Key : IF Known(e.st, y) \/ ~Known(s, y) THEN f[y] = e.info[y]
                     ELSE f[y].pair \in Association /\ s.keys[y].sender \notin ToSet(f[y].hops)
  <2>1. \A y \in Key \ {k} : Known(s, y) => Known(e.st, y)
    BY DEF Apart, Known
  <2> QED BY <1>3, <1>4, <1>5, <2>1
<1>8. Sane(g) /\ Extends(e, g, N)
  BY <1>2, <1>5, <1>6, <1>7, SaneStep
<1> QED BY <1>2, <1>4, <1>5, <1>8

-----------------------------------------------------------------------------
(* One key of a transfer.                                                  *)

LEMMA AcceptedRecord ==
    ASSUME NEW s \in EngineState, NEW k \in Key, ~Known(s, k), NEW p, NEW local, NEW lap,
           NEW t, t = Accepted(s, p, k, local, lap)
    PROVE  Known(t, k) /\ t.keys[k].sender = p /\ ~t.keys[k].unknown /\ Apart(s, t, k)
<1> DEFINE r == [Absent EXCEPT !.role     = IF local THEN "target" ELSE "relay",
                               !.sender   = p,
                               !.material = TRUE,
                               !.ready    = local]
           u == [s EXCEPT !.keys[k] = r]
<1>1. u = [keys |-> [s.keys EXCEPT ![k] = r], acks |-> s.acks]
  BY StateShape
<1>2. r.sender = p /\ ~r.unknown /\ r.role # "none"
  BY DEF Absent
<1>3. t = IF local THEN Enqueue(u, k, {p}, "relayed") ELSE u
  BY DEF Accepted, AcceptedNew
<1> HIDE DEF r, u
<1>4. u.keys[k] = r /\ Apart(s, u, k)
  BY <1>1, OneRecordApart
<1>5. u = [keys |-> u.keys, acks |-> u.acks]
  BY <1>1
<1>6. t.keys = u.keys /\ Apart(u, t, k)
  BY <1>3, <1>5, EnqueueApart, ApartReflexive
<1> QED BY <1>2, <1>4, <1>6, ApartTransitive DEF Known

LEMMA AcceptOneFits ==
    ASSUME NEW e, Sane(e), NEW p \in Incoming, NEW a \in Association, NEW k \in Key, NEW c, c[k] \in Content,
           NEW N, <<p, k>> \in N, Known(e.st, k) => e.st.keys[k].sender = p,
           ~Known(e.st, k) /\ ~Local(a.slave) => a.slave \in DOMAIN Route, NEW g, g = AcceptOne(e, p, a, c, k)
    PROVE  /\ Sane(g) /\ Extends(e, g, N) /\ Known(g.st, k)
           /\ \A x \in Key : Known(g.st, x) /\ ~Known(e.st, x) =>
                 g.info[x].content = c[x] /\ ~g.st.keys[x].unknown
<1> DEFINE s == Accepted(e.st, p, k, Local(a.slave), k \in lapsed)
           t == [st |-> s, info |-> e.info, cursor |-> e.cursor]
           L == Licence(N)
<1>1. p \in Node /\ Local(a.slave) \in BOOLEAN
  BY RoutingAssumption DEF Local
<1>2. Tidy(e.st) /\ Single(e.st) /\ e.st \in EngineState
  BY DEF Sane, Tidy
<1>3. L.touch = Key /\ L.new = N /\ L.ready = Key /\ <<p, k>> \in L.ask
  BY <1>1, LicenceFields
<1> HIDE DEF L
<1>4. Moves(e.st, s, L)
  BY <1>1, <1>2, <1>3, AcceptedMoves
<1>5. Upholds(e.st, s)
  BY <1>1, <1>2, <1>3, AcceptedUpholds
<1>6. e = [st |-> e.st, info |-> e.info, cursor |-> e.cursor]
  BY DEF Sane, Stage
<1>7. [e EXCEPT !.st = Accepted(@, p, k, Local(a.slave), k \in lapsed)] = t
  BY <1>6
<1>8. g = IF Known(e.st, k) THEN t ELSE WithInfo(t, k, a, c[k], p)
  BY <1>7 DEF AcceptOne
<1> HIDE DEF s
<1>9. CASE Known(e.st, k)
  <2>1. \A x \in Key : Known(s, x) => Known(e.st, x)
    <3> DEFINE M == Licence({})
    <3>1. M.touch = Key /\ M.new = {} /\ M.ready = Key /\ <<p, k>> \in M.ask
      BY <1>1, LicenceFields
    <3> HIDE DEF M
    <3>2. Moves(e.st, s, M)
      BY <1>1, <1>2, <1>9, <3>1, AcceptedMoves DEF s
    <3> QED BY <3>1, <3>2 DEF Moves, Covered, Known
  <2>2. g = [st |-> s, info |-> e.info, cursor |-> e.cursor] /\ g.st = s
    BY <1>8, <1>9
  <2>3. e.info \in [Key -> Detail] /\ e.cursor \in [DOMAIN Route -> Nat] /\ Spread(g)
    BY <2>2 DEF Sane, Stage, Spread
  <2>4. Sane(g) /\ Extends(e, g, N)
    BY <1>4, <1>5, <2>1, <2>2, <2>3, SaneStep DEF L
  <2>5. Known(s, k)
    BY <1>4, <1>9 DEF Moves, Evolves, Known
  <2> QED BY <2>1, <2>2, <2>4, <2>5
<1>10. CASE ~Known(e.st, k)
  <2>1. Known(s, k) /\ s.keys[k].sender = p /\ ~s.keys[k].unknown /\ Apart(e.st, s, k)
    BY <1>2, <1>10, AcceptedRecord DEF s
  <2>2. /\ Sane(g) /\ Extends(e, g, N) /\ g.st = s /\ g.info[k].content = c[k]
        /\ \A x \in Key \ {k} : g.info[x] = e.info[x]
    BY <1>4, <1>5, <1>8, <1>10, <2>1, WithInfoFits DEF L
  <2>3. \A x \in Key \ {k} : Known(s, x) => Known(e.st, x)
    BY <2>1 DEF Apart, Known
  <2> QED BY <2>1, <2>2, <2>3
<1> QED BY <1>9, <1>10

-----------------------------------------------------------------------------
(* A whole transfer.                                                       *)

(* Every record that e has and d had not holds what the transfer says. *)
Fresh(d, e, c) ==
    \A x \in Key : Known(e.st, x) /\ ~Known(d.st, x) =>
        e.info[x].content = c[x] /\ ~e.st.keys[x].unknown

LEMMA FreshReflexive == ASSUME NEW e, NEW c PROVE Fresh(e, e, c)
BY DEF Fresh

LEMMA FreshTransitive ==
    ASSUME NEW d, NEW e, NEW g, NEW c, NEW N, Fresh(d, e, c), Fresh(e, g, c), Extends(e, g, N)
    PROVE  Fresh(d, g, c)
BY DEF Fresh, Extends, Moves, Evolves, Known

(* A record of the batch belongs to p, whether it is old or new. *)
OfPeer(N, p) == \A w \in N : w[1] = p

LEMMA SenderKept ==
    ASSUME NEW d, NEW e, NEW p, NEW N, OfPeer(N, p), Extends(d, e, N), NEW k \in Key,
           Known(d.st, k) => d.st.keys[k].sender = p, Known(e.st, k)
    PROVE  e.st.keys[k].sender = p
<1>1. Known(d.st, k) => e.st.keys[k].sender = d.st.keys[k].sender
  BY DEF Extends, Moves, Evolves, Known
<1>2. ~Known(d.st, k) => <<e.st.keys[k].sender, k>> \in N
  BY LicenceFields DEF Extends, Moves, Covered, Known
<1> QED BY <1>1, <1>2 DEF OfPeer

LEMMA AcceptEachFits ==
    ASSUME NEW d, Sane(d), NEW p \in Incoming, NEW a \in Association, NEW batch \in Seq(Key),
           NEW c \in [ToSet(batch) -> Content],
           \A k \in ToSet(batch) : Known(d.st, k) => d.st.keys[k].sender = p,
           (\E k \in ToSet(batch) : ~Known(d.st, k)) /\ ~Local(a.slave) => a.slave \in DOMAIN Route,
           NEW g, g = AcceptEach(d, p, a, c, batch)
    PROVE  /\ Sane(g) /\ Extends(d, g, {p} \X ToSet(batch)) /\ Fresh(d, g, c)
           /\ \A k \in ToSet(batch) : Known(g.st, k)
<1> DEFINE n == Len(batch)
           K == ToSet(batch)
           N == {p} \X K
           Step(e, k) == AcceptOne(e, p, a, c, k)
           D == {e \in Stage : Sane(e) /\ Extends(d, e, N) /\ Fresh(d, e, c)}
           F == [i \in 1..n |-> [e \in D |-> Step(e, batch[i])]]
           Good(e, i) == \A j \in 1..i : Known(e.st, batch[j])
           C == [i \in 0..n |-> {e \in D : Good(e, i)}]
           eqn(f) == f = [s \in SUBSET DOMAIN batch |->
                             IF s = {} THEN d ELSE Step(f[s \ {Max(s)}], batch[Max(s)])]
           fold == CHOOSE f : eqn(f)
<1>1. n \in Nat /\ DOMAIN batch = 1..n /\ K = {batch[i] : i \in 1..n} /\ K \subseteq Key
  BY DEF ToSet
<1>2. g = fold[DOMAIN batch]
  BY DEF AcceptEach, FoldLeft, MapThenFoldSet
<1> HIDE DEF n, K
<1>3. ASSUME NEW e \in D, NEW k \in K
      PROVE  Step(e, k) \in D /\ Extends(e, Step(e, k), N) /\ Known(Step(e, k).st, k)
  <2>1. Sane(e) /\ Extends(d, e, N) /\ Fresh(d, e, c) /\ k \in Key /\ c[k] \in Content /\ <<p, k>> \in N
    BY <1>1, <1>3 DEF K
  <2>2. Known(e.st, k) => e.st.keys[k].sender = p
    <3>1. OfPeer(N, p)
      BY DEF OfPeer
    <3>2. Known(d.st, k) => d.st.keys[k].sender = p
      BY DEF K
    <3> HIDE DEF N, D
    <3> QED BY <2>1, <3>1, <3>2, SenderKept
  <2>3. ~Known(e.st, k) => ~Known(d.st, k)
    BY <2>1 DEF Extends, Moves, Evolves, Known
  <2>4. ~Known(e.st, k) /\ ~Local(a.slave) => a.slave \in DOMAIN Route
    BY <2>3 DEF K
  <2> DEFINE h == Step(e, k)
  <2> HIDE DEF N
  <2>5. Sane(h) /\ Extends(e, h, N) /\ Known(h.st, k) /\ Fresh(e, h, c)
    BY <2>1, <2>2, <2>4, AcceptOneFits DEF Fresh
  <2> HIDE DEF h
  <2>6. Extends(d, h, N) /\ Fresh(d, h, c) /\ h \in Stage
    BY <2>1, <2>5, ExtendsTransitive, FreshTransitive DEF Sane
  <2> QED BY <2>5, <2>6 DEF h
<1>4. d \in D
  BY ExtendsReflexive, FreshReflexive DEF Sane
<1> HIDE DEF Step, D, N
<1>5. F \in [1..n -> [D -> D]]
  BY <1>1, <1>3
<1>6. eqn(fold)
  <2>1. PICK f \in [SUBSET (1..n) -> D] : \A s \in SUBSET (1..n) : FoldEquation(f, d, F, s)
    BY <1>1, <1>4, <1>5, FoldExists
  <2>2. ASSUME NEW s \in SUBSET (1..n)
        PROVE  f[s] = IF s = {} THEN d ELSE Step(f[s \ {Max(s)}], batch[Max(s)])
    <3>1. s # {} => Max(s) \in 1..n
      BY <1>1, MaxOfIndices
    <3>2. f[s \ {Max(s)}] \in D
      OBVIOUS
    <3> QED BY <2>1, <3>1, <3>2 DEF FoldEquation
  <2>3. f = [s \in SUBSET (1..n) |-> IF s = {} THEN d ELSE Step(f[s \ {Max(s)}], batch[Max(s)])]
    BY <2>2
  <2>4. eqn(f)
    BY <1>1, <2>3
  <2> HIDE DEF eqn
  <2> QED BY <2>4
<1> HIDE DEF fold
<1>7. C \in [0..n -> SUBSET D] /\ d \in C[0] /\ C[n] = {e \in D : Good(e, n)}
  BY <1>1, <1>4
<1>8. Passes(F, C, n)
  <2> SUFFICES ASSUME NEW i \in 1..n, NEW e \in C[i - 1]
               PROVE  F[i][e] \in C[i]
    BY DEF Passes
  <2> DEFINE h == Step(e, batch[i])
  <2>1. e \in D /\ Good(e, i - 1) /\ F[i][e] = h /\ batch[i] \in K /\ C[i] = {x \in D : Good(x, i)}
    BY <1>1
  <2>2. h \in D /\ Extends(e, h, N) /\ Known(h.st, batch[i])
    BY <1>3, <2>1
  <2> HIDE DEF h
  <2>3. \A k \in Key : Known(e.st, k) => Known(h.st, k)
    BY <2>2 DEF Extends, Moves, Evolves, Known
  <2>4. Good(h, i)
    <3> SUFFICES ASSUME NEW j \in 1..i PROVE Known(h.st, batch[j])
      OBVIOUS
    <3>1. CASE j = i
      BY <2>2, <3>1
    <3>2. CASE j # i
      BY <1>1, <2>1, <2>3, <3>2
    <3> QED BY <3>1, <3>2
  <2> HIDE DEF Good, C, F
  <2> QED BY <2>1, <2>2, <2>4
<1>9. fold[{}] = d /\ Obeys(fold, D, F, n)
  <2> SUFFICES ASSUME NEW s \in SUBSET (1..n), s # {}, fold[s \ {Max(s)}] \in D
               PROVE  fold[s] = F[Max(s)][fold[s \ {Max(s)}]]
    BY <1>1, <1>6 DEF Obeys
  <2>1. Max(s) \in 1..n
    BY <1>1, MaxOfIndices
  <2>2. fold[s] = Step(fold[s \ {Max(s)}], batch[Max(s)])
    BY <1>1, <1>6
  <2> QED BY <2>1, <2>2
<1>10. fold[1..n] \in C[n]
  <2> HIDE DEF C, F
  <2> QED BY <1>1, <1>5, <1>7, <1>8, <1>9, FoldEnds
<1>11. g \in D /\ Good(g, n)
  <2> HIDE DEF Good, C
  <2> QED BY <1>1, <1>2, <1>7, <1>10
<1> QED BY <1>1, <1>11 DEF D, N, K

-----------------------------------------------------------------------------
(* One key of a void.                                                      *)

(* The key is being discarded for p, whose result has been made out unless *)
(* this node waits for another neighbour.                                  *)
Discarding(e, p, k) ==
    /\ Known(e.st, k) /\ e.st.keys[k].voiding /\ p \in e.st.keys[k].voidRequests
    /\ Squared(e.st, k)

LEMMA DiscardingLasts ==
    ASSUME NEW d, NEW e, NEW N, Extends(d, e, N), NEW p, NEW k \in Key, Discarding(d, p, k)
    PROVE  Discarding(e, p, k)
<1>1. Known(e.st, k) /\ e.st.keys[k].voiding /\ p \in e.st.keys[k].voidRequests
  BY DEF Extends, Moves, Evolves, Known, Discarding
<1>2. Renewed(d.st, e.st, k)
  BY DEF Extends, Upholds
<1> QED BY <1>1, <1>2, SquaredLasts DEF Discarding

LEMMA VoidedAsks ==
    ASSUME NEW s \in EngineState, NEW k \in Key, NEW p \in Node, NEW local,
           NEW v, v = Voided(s, p, k, local)
    PROVE  Known(v, k) /\ v.keys[k].voiding /\ p \in v.keys[k].voidRequests
<1> DEFINE r == [Absent EXCEPT !.role    = IF local THEN "target" ELSE "relay",
                               !.sender  = p,
                               !.unknown = TRUE]
           t == WithTombstone(s, p, k, local)
           w == Requested(VoidBegun(t.keys[k]), {p})
           u == StartVoid(t, k, {p})
<1>1. r \in Record /\ r.role # "none"
  BY DEF Absent, Record, RecordFields, Role
<1>2. t = IF Known(s, k) THEN s ELSE [keys |-> [s.keys EXCEPT ![k] = r], acks |-> s.acks]
  BY StateShape DEF WithTombstone
<1> HIDE DEF r
<1>3. t.keys \in [Key -> Record] /\ t.keys[k].role # "none"
  BY <1>1, <1>2 DEF Known, EngineState
<1> HIDE DEF t
<1>4. w.voiding /\ p \in w.voidRequests /\ w.role # "none"
  <2>1. t.keys[k] \in Record
    BY <1>3
  <2> DEFINE q == VoidBegun(t.keys[k])
  <2>2. q \in Record /\ q.voiding /\ q.role = t.keys[k].role
    BY <2>1, VoidBegunContinues DEF VoidBegun, Record, RecordFields
  <2> HIDE DEF q
  <2> QED BY <1>3, <2>2 DEF Requested, Record, RecordFields, q
<1>5. u.keys[k] = w /\ u = [keys |-> u.keys, acks |-> u.acks]
  BY <1>3 DEF StartVoid
<1>6. v = FinishVoid(u, k)
  BY DEF Voided, VoidKey, t
<1> HIDE DEF u, w
<1>7. v.keys = u.keys
  BY <1>5, <1>6, FinishVoidSettles
<1> QED BY <1>4, <1>5, <1>7 DEF Known

LEMMA VoidOneFits ==
    ASSUME NEW e, Sane(e), NEW p \in Node, NEW a \in Association, NEW k \in Key,
           NEW N, <<p, k>> \in N, NEW g, g = VoidOne(e, p, a, k)
    PROVE  /\ Sane(g) /\ Extends(e, g, N)
           /\ Discarding(g, p, k)
<1> DEFINE s == Voided(e.st, p, k, Local(a.slave))
           t == [st |-> s, info |-> e.info, cursor |-> e.cursor]
           d == [NoInfo EXCEPT !.pair = a]
           f == IF Known(e.st, k) THEN e.info ELSE [e.info EXCEPT ![k] = d]
           L == Licence(N)
           M == Licence({<<p, k>>})
<1>1. Tidy(e.st) /\ Single(e.st) /\ e.st \in EngineState
  BY DEF Sane, Tidy
<1>2. L.touch = Key /\ L.new = N /\ <<p, k>> \in L.ask /\ M.touch = Key /\ M.new = {<<p, k>>} /\ <<p, k>> \in M.ask
  BY LicenceFields
<1> HIDE DEF L, M
<1>3. Moves(e.st, s, L) /\ Moves(e.st, s, M)
  BY <1>1, <1>2, VoidedMoves
<1>4. Upholds(e.st, s) /\ Squared(s, k)
  BY <1>1, <1>2, VoidedUpholds
<1>5. Known(s, k) /\ s.keys[k].voiding /\ p \in s.keys[k].voidRequests
  BY <1>1, VoidedAsks
<1>6. \A x \in Key \ {k} : Known(s, x) => Known(e.st, x)
  BY <1>2, <1>3 DEF Moves, Covered, Known
<1>7. ~Known(e.st, k) => s.keys[k].sender = p
  BY <1>2, <1>3, <1>5 DEF Moves, Covered, Known
<1>8. /\ e = [st |-> e.st, info |-> e.info, cursor |-> e.cursor]
      /\ e.info \in [Key -> Detail] /\ e.cursor \in [DOMAIN Route -> Nat]
      /\ ~Known(e.st, k) => e.info[k] = NoInfo
  BY DEF Sane, Stage, Detailed
<1>9. [e EXCEPT !.st = Voided(@, p, k, Local(a.slave))] = t
  BY <1>8
<1> HIDE DEF s
<1>10. d \in Detail /\ d.pair = a /\ d.hops = << >> /\ s.keys[k].sender \notin ToSet(d.hops)
  BY EmptyDetail
<1> HIDE DEF d
<1>11. [t EXCEPT !.info[k] = d] = [st |-> s, info |-> [e.info EXCEPT ![k] = d], cursor |-> e.cursor]
  BY <1>8
<1>12. g = [st |-> s, info |-> f, cursor |-> e.cursor]
  BY <1>9, <1>11 DEF VoidOne, d
<1>13. f \in [Key -> Detail] /\ (\A x \in Key \ {k} : f[x] = e.info[x]) /\ (~Known(e.st, k) => f[k] = d)
       /\ (Known(e.st, k) => f = e.info)
  BY <1>8, <1>10
<1>14. Spread(g)
  <2>1. g.info = f /\ g.cursor = e.cursor
    BY <1>12
  <2>2. CASE Known(e.st, k)
    BY <1>13, <2>1, <2>2 DEF Sane, Spread
  <2>3. CASE ~Known(e.st, k)
    <3>1. f = [e.info EXCEPT ![k] = d]
      BY <2>3
    <3> HIDE DEF f
    <3> QED BY <1>8, <1>10, <2>1, <2>3, <3>1, SpreadAgain
  <2> QED BY <2>2, <2>3
<1> HIDE DEF f
<1>15. \A x \in Key : IF Known(e.st, x) \/ ~Known(s, x) THEN f[x] = e.info[x]
                      ELSE f[x].pair \in Association /\ s.keys[x].sender \notin ToSet(f[x].hops)
  BY <1>5, <1>6, <1>10, <1>13
<1>16. Sane(g) /\ Extends(e, g, N)
  BY <1>3, <1>4, <1>8, <1>12, <1>13, <1>14, <1>15, SaneStep DEF L
<1> QED BY <1>4, <1>5, <1>12, <1>16 DEF Discarding

-----------------------------------------------------------------------------
(* A whole void.                                                           *)

LEMMA VoidEachFits ==
    ASSUME NEW d, Sane(d), NEW p \in Node, NEW a \in Association, NEW batch \in Seq(Key),
           NEW g, g = VoidEach(d, p, a, batch)
    PROVE  /\ Sane(g) /\ Extends(d, g, {p} \X ToSet(batch))
           /\ \A k \in ToSet(batch) : Discarding(g, p, k)
<1> DEFINE n == Len(batch)
           K == ToSet(batch)
           N == {p} \X K
           Step(e, k) == VoidOne(e, p, a, k)
           D == {e \in Stage : Sane(e) /\ Extends(d, e, N)}
           F == [i \in 1..n |-> [e \in D |-> Step(e, batch[i])]]
           Good(e, i) == \A j \in 1..i : Discarding(e, p, batch[j])
           C == [i \in 0..n |-> {e \in D : Good(e, i)}]
           eqn(f) == f = [s \in SUBSET DOMAIN batch |->
                             IF s = {} THEN d ELSE Step(f[s \ {Max(s)}], batch[Max(s)])]
           fold == CHOOSE f : eqn(f)
<1>1. n \in Nat /\ DOMAIN batch = 1..n /\ K = {batch[i] : i \in 1..n} /\ K \subseteq Key
  BY DEF ToSet
<1>2. g = fold[DOMAIN batch]
  BY DEF VoidEach, FoldLeft, MapThenFoldSet
<1> HIDE DEF n, K
<1>3. ASSUME NEW e \in D, NEW k \in K
      PROVE  Step(e, k) \in D /\ Extends(e, Step(e, k), N) /\ Discarding(Step(e, k), p, k)
  <2> DEFINE h == Step(e, k)
  <2>1. Sane(e) /\ Extends(d, e, N) /\ k \in Key /\ <<p, k>> \in N
    BY <1>1, <1>3 DEF K
  <2> HIDE DEF N
  <2>2. Sane(h) /\ Extends(e, h, N) /\ Discarding(h, p, k)
    BY <2>1, VoidOneFits
  <2> HIDE DEF h
  <2>3. Extends(d, h, N) /\ h \in Stage
    BY <2>1, <2>2, ExtendsTransitive DEF Sane
  <2> QED BY <2>2, <2>3 DEF h
<1>4. d \in D
  BY ExtendsReflexive DEF Sane
<1> HIDE DEF Step, D, N
<1>5. F \in [1..n -> [D -> D]]
  BY <1>1, <1>3
<1>6. eqn(fold)
  <2>1. PICK f \in [SUBSET (1..n) -> D] : \A s \in SUBSET (1..n) : FoldEquation(f, d, F, s)
    BY <1>1, <1>4, <1>5, FoldExists
  <2>2. ASSUME NEW s \in SUBSET (1..n)
        PROVE  f[s] = IF s = {} THEN d ELSE Step(f[s \ {Max(s)}], batch[Max(s)])
    <3>1. s # {} => Max(s) \in 1..n
      BY <1>1, MaxOfIndices
    <3>2. f[s \ {Max(s)}] \in D
      OBVIOUS
    <3> QED BY <2>1, <3>1, <3>2 DEF FoldEquation
  <2>3. f = [s \in SUBSET (1..n) |-> IF s = {} THEN d ELSE Step(f[s \ {Max(s)}], batch[Max(s)])]
    BY <2>2
  <2>4. eqn(f)
    BY <1>1, <2>3
  <2> HIDE DEF eqn
  <2> QED BY <2>4
<1> HIDE DEF fold
<1>7. C \in [0..n -> SUBSET D] /\ d \in C[0] /\ C[n] = {e \in D : Good(e, n)}
  BY <1>1, <1>4
<1>8. Passes(F, C, n)
  <2> SUFFICES ASSUME NEW i \in 1..n, NEW e \in C[i - 1]
               PROVE  F[i][e] \in C[i]
    BY DEF Passes
  <2> DEFINE h == Step(e, batch[i])
  <2>1. e \in D /\ Good(e, i - 1) /\ F[i][e] = h /\ batch[i] \in K /\ C[i] = {x \in D : Good(x, i)}
    BY <1>1
  <2>2. h \in D /\ Extends(e, h, N) /\ Discarding(h, p, batch[i])
    BY <1>3, <2>1
  <2> HIDE DEF h
  <2>3. \A k \in Key : Discarding(e, p, k) => Discarding(h, p, k)
    BY <2>2, DiscardingLasts
  <2>4. Good(h, i)
    <3> SUFFICES ASSUME NEW j \in 1..i PROVE Discarding(h, p, batch[j])
      OBVIOUS
    <3>1. CASE j = i
      BY <2>2, <3>1
    <3>2. CASE j # i
      BY <1>1, <2>1, <2>3, <3>2
    <3> QED BY <3>1, <3>2
  <2> HIDE DEF Good, C, F
  <2> QED BY <2>1, <2>2, <2>4
<1>9. fold[{}] = d /\ Obeys(fold, D, F, n)
  <2> SUFFICES ASSUME NEW s \in SUBSET (1..n), s # {}, fold[s \ {Max(s)}] \in D
               PROVE  fold[s] = F[Max(s)][fold[s \ {Max(s)}]]
    BY <1>1, <1>6 DEF Obeys
  <2>1. Max(s) \in 1..n
    BY <1>1, MaxOfIndices
  <2>2. fold[s] = Step(fold[s \ {Max(s)}], batch[Max(s)])
    BY <1>1, <1>6
  <2> QED BY <2>1, <2>2
<1>10. fold[1..n] \in C[n]
  <2> HIDE DEF C, F
  <2> QED BY <1>1, <1>5, <1>7, <1>8, <1>9, FoldEnds
<1>11. g \in D /\ Good(g, n)
  <2> HIDE DEF Good, C
  <2> QED BY <1>1, <1>2, <1>7, <1>10
<1> QED BY <1>1, <1>11 DEF D, N, K


-----------------------------------------------------------------------------
(* A whole report.                                                         *)

LEMMA AcknowledgeEachFits ==
    ASSUME NEW d, Tidy(d), Single(d), NEW p \in Node, NEW batch \in Seq(Key), NEW status,
           \A k \in ToSet(batch) : Known(d, k), NEW g, g = AcknowledgeEach(d, p, status, batch)
    PROVE  Moves(d, g, Licence({})) /\ Upholds(d, g)
<1> DEFINE n == Len(batch)
           K == ToSet(batch)
           L == Licence({})
           Step(e, k) == Acknowledged(e, p, k, status[k], k \in lapsed)
           D == {e \in EngineState : Moves(d, e, L) /\ Upholds(d, e)}
           F == [i \in 1..n |-> [e \in D |-> Step(e, batch[i])]]
           C == [i \in 0..n |-> D]
           eqn(f) == f = [s \in SUBSET DOMAIN batch |->
                             IF s = {} THEN d ELSE Step(f[s \ {Max(s)}], batch[Max(s)])]
           fold == CHOOSE f : eqn(f)
<1>1. n \in Nat /\ DOMAIN batch = 1..n /\ K = {batch[i] : i \in 1..n} /\ K \subseteq Key
  BY DEF ToSet
<1>2. g = fold[DOMAIN batch]
  BY DEF AcknowledgeEach, FoldLeft, MapThenFoldSet
<1> HIDE DEF n, K
<1>3. ASSUME NEW e \in D, NEW k \in K
      PROVE  Step(e, k) \in D
  <2> DEFINE h == Step(e, k)
  <2>1. L.touch = Key /\ L.ready = Key /\ L.heard = Node \X Key /\ L.failed = {}
    BY LicenceFields
  <2> HIDE DEF L
  <2>2. Moves(d, e, L) /\ Upholds(d, e) /\ Tidy(e) /\ Single(e) /\ k \in Key /\ Known(d, k)
    BY <1>1 DEF K, Moves, Upholds
  <2>3. Known(e, k)
    BY <2>2 DEF Moves, Evolves, Known
  <2>4. Moves(e, h, L) /\ Upholds(e, h)
    BY <2>1, <2>2, <2>3, AcknowledgedMoves, AcknowledgedUpholds
  <2> HIDE DEF h
  <2>5. Moves(d, h, L) /\ Upholds(d, h) /\ h \in EngineState
    BY <2>2, <2>4, MovesTransitive, UpholdsTransitive DEF Moves, Tidy
  <2> QED BY <2>5 DEF h
<1>4. d \in D
  BY MovesReflexive, UpholdsReflexive DEF Tidy
<1> HIDE DEF Step, D, L
<1>5. F \in [1..n -> [D -> D]]
  BY <1>1, <1>3
<1>6. eqn(fold)
  <2>1. PICK f \in [SUBSET (1..n) -> D] : \A s \in SUBSET (1..n) : FoldEquation(f, d, F, s)
    BY <1>1, <1>4, <1>5, FoldExists
  <2>2. ASSUME NEW s \in SUBSET (1..n)
        PROVE  f[s] = IF s = {} THEN d ELSE Step(f[s \ {Max(s)}], batch[Max(s)])
    <3>1. s # {} => Max(s) \in 1..n
      BY <1>1, MaxOfIndices
    <3>2. f[s \ {Max(s)}] \in D
      OBVIOUS
    <3> QED BY <2>1, <3>1, <3>2 DEF FoldEquation
  <2>3. f = [s \in SUBSET (1..n) |-> IF s = {} THEN d ELSE Step(f[s \ {Max(s)}], batch[Max(s)])]
    BY <2>2
  <2>4. eqn(f)
    BY <1>1, <2>3
  <2> HIDE DEF eqn
  <2> QED BY <2>4
<1> HIDE DEF fold
<1>7. C \in [0..n -> SUBSET D] /\ d \in C[0] /\ C[n] = D
  BY <1>1, <1>4
<1>8. Passes(F, C, n)
  <2> SUFFICES ASSUME NEW i \in 1..n, NEW e \in C[i - 1]
               PROVE  F[i][e] \in C[i]
    BY DEF Passes
  <2>1. e \in D /\ F[i][e] = Step(e, batch[i]) /\ batch[i] \in K /\ C[i] = D
    BY <1>1
  <2> QED BY <1>3, <2>1
<1>9. fold[{}] = d /\ Obeys(fold, D, F, n)
  <2> SUFFICES ASSUME NEW s \in SUBSET (1..n), s # {}, fold[s \ {Max(s)}] \in D
               PROVE  fold[s] = F[Max(s)][fold[s \ {Max(s)}]]
    BY <1>1, <1>6 DEF Obeys
  <2>1. Max(s) \in 1..n
    BY <1>1, MaxOfIndices
  <2>2. fold[s] = Step(fold[s \ {Max(s)}], batch[Max(s)])
    BY <1>1, <1>6
  <2> QED BY <2>1, <2>2
<1>10. fold[1..n] \in C[n]
  <2> HIDE DEF C, F
  <2> QED BY <1>1, <1>5, <1>7, <1>8, <1>9, FoldEnds
<1>11. g \in D
  <2> HIDE DEF C
  <2> QED BY <1>1, <1>2, <1>7, <1>10
<1> QED BY <1>11 DEF D, L

-----------------------------------------------------------------------------
(* The list of a finite set, and the set of a list.                        *)

LEMMA SetListed ==
    ASSUME NEW S, IsFiniteSet(S)
    PROVE  SetToSeq(S) \in Seq(S)
<1>1. Cardinality(S) \in Nat /\ ExistsBijection(1..Cardinality(S), S)
  BY FS_CardinalityType
<1>2. PICK f \in [1..Cardinality(S) -> S] : IsInjective(f)
  BY <1>1 DEF ExistsBijection, Bijection, Injection
<1>3. SetToSeq(S) \in [1..Cardinality(S) -> S]
  BY <1>2 DEF SetToSeq
<1> QED BY <1>1, <1>3

LEMMA ListFinite ==
    ASSUME NEW S, NEW batch \in Seq(S)
    PROVE  IsFiniteSet(ToSet(batch)) /\ ToSet(batch) \subseteq S
<1> DEFINE n == Len(batch)
<1>1. n \in Nat /\ batch \in [1..n -> S] /\ ToSet(batch) = {batch[i] : i \in 1..n}
  BY DEF ToSet
<1>2. IsFiniteSet(1..n)
  <2> HIDE DEF n
  <2> QED BY <1>1, FS_Interval
<1>3. batch \in Surjection(1..n, ToSet(batch))
  <2> HIDE DEF n
  <2> QED BY <1>1 DEF Surjection
<1>4. IsFiniteSet(ToSet(batch))
  <2> HIDE DEF n
  <2> QED BY <1>2, <1>3, FS_Surjection
<1> QED BY <1>1, <1>4

-----------------------------------------------------------------------------
(* The invariant.                                                          *)

KnownKeys == {k \in Key : Known(st, k)}

Counted == IsFiniteSet(KnownKeys) /\ Cardinality(KnownKeys) <= Capacity

Typed ==
    /\ empties \subseteq Node \X Association
    /\ jobs \subseteq Job
    /\ lapsed \subseteq Key
    /\ asked \subseteq Node \X Key
    /\ told \in [Node -> [Key -> Status \cup {"nothing"}]]

(* The worker's snapshot has at most one result per key and peer.          *)
SnapshotSingle == \A i, j \in jobs : i.peer = j.peer /\ i.key = j.key => i = j

(* A queued result of a discarded key is the verdict on it.                *)
Exact == \A k \in Key : Rec(k).voiding => \A j \in ResultsFor(st, k) : j.status = Verdict(Rec(k))

(* A requester has its result queued, or took it, and then no other one    *)
(* for the key is on its way.                                              *)
Answer(p, k) ==
    \/ Result(st, p, k) \in st.acks
    \/ /\ told[p][k] = Verdict(Rec(k))
       /\ \A j \in jobs : j.peer = p /\ j.key = k => j.status = Verdict(Rec(k))

Entitled(p, k) ==
    /\ Known(st, k) /\ Rec(k).voiding /\ p \in Rec(k).voidRequests
    /\ Rec(k).voidPending = {} => Answer(p, k)

Answered == \A p \in Node, k \in Key : <<p, k>> \in asked => Entitled(p, k)

(* What was agreed on is what the record holds.                            *)
Agreed ==
    /\ agreed \in [Key -> SUBSET Content]
    /\ \A k \in Key : \/ agreed[k] = {}
                      \/ Known(st, k) /\ ~Rec(k).unknown /\ agreed[k] = {info[k].content}

Inv ==
    /\ Sane(Draft)
    /\ Counted
    /\ Typed
    /\ SnapshotSingle
    /\ Exact
    /\ Answered
    /\ Agreed

LEMMA InvInit == Init => Inv
<1> SUFFICES ASSUME Init PROVE Inv
  OBVIOUS
<1>1. /\ st = [keys |-> [k \in Key |-> Absent], acks |-> {}] /\ \A k \in Key : st.keys[k] = Absent
      /\ Absent \in Record /\ Absent.role = "none" /\ ~Absent.voiding /\ Fit(Absent)
  BY DEF Init, EmptyEngine, Absent, Record, RecordFields, Role, Fit
<1>2. Tidy(st) /\ Single(st) /\ \A k \in Key : ~Known(st, k)
  BY <1>1 DEF Tidy, EngineState, Truthful, Single, Known
<1>3. \A k \in Key : info[k] = NoInfo
  BY DEF Init
<1>4. NoInfo \in Detail /\ NoInfo.hops = << >>
  BY DEF NoInfo, Detail
<1>5. info \in [Key -> Detail] /\ cursor \in [DOMAIN Route -> Nat]
  BY <1>4 DEF Init
<1>6. Draft \in Stage /\ Draft.st = st /\ Draft.info = info /\ Draft.cursor = cursor
  BY <1>2, <1>5 DEF Draft, Stage, Tidy
<1>7. Spread(Draft)
  <2>1. ASSUME NEW x \in DOMAIN Route
        PROVE  cursor[x] = 1 /\ 1 \in DOMAIN Route[x] /\ Dealt(info, 1, x, 0)
    <3>1. cursor[x] = 1 /\ DOMAIN Route[x] \subseteq Nat \ {0} /\ 1 \in DOMAIN Route[x]
      BY RoutingAssumption DEF Init
    <3>2. \A p : StartsAt(info, x, p) = {}
      BY <1>3, <1>4 DEF StartsAt
    <3>3. \A i \in DOMAIN Route[x] : ~(i < 1)
      BY <3>1
    <3> QED BY <3>1, <3>2, <3>3, FS_EmptySet DEF Dealt
  <2> QED BY <1>6, <2>1 DEF Spread
<1>8. Sane(Draft)
  BY <1>2, <1>3, <1>6, <1>7 DEF Sane, Detailed
<1>9. Counted
  <2>1. KnownKeys = {}
    BY <1>2 DEF KnownKeys
  <2> QED BY <2>1, FS_EmptySet, LimitAssumption DEF Counted
<1>10. Typed
  BY DEF Init, Typed
<1>11. SnapshotSingle /\ Answered /\ Agreed
  <2>1. jobs = {} /\ asked = {} /\ agreed = [k \in Key |-> {}]
    BY DEF Init
  <2> QED BY <2>1 DEF SnapshotSingle, Answered, Agreed
<1>12. Exact
  BY <1>1 DEF Exact, Rec
<1> QED BY <1>8, <1>9, <1>10, <1>11, <1>12 DEF Inv

-----------------------------------------------------------------------------
(* What every change of the engine keeps of it.                            *)

LEMMA DraftFields == Draft.st = st /\ Draft.info = info /\ Draft.cursor = cursor
BY DEF Draft

LEMMA ExactKept ==
    ASSUME Exact, NEW N, Extends(Draft, Draft', N)
    PROVE  Exact'
<1> SUFFICES ASSUME NEW k \in Key, Rec(k)'.voiding, NEW j \in ResultsFor(st', k)
             PROVE  j.status = Verdict(Rec(k)')
  BY DEF Exact
<1>1. Renewed(st, st', k)
  BY DEF Extends, Upholds, Draft
<1>2. Rec(k) = st.keys[k] /\ Rec(k)' = st'.keys[k]
  BY DEF Rec
<1>3. CASE Squared(st', k)
  BY <1>2, <1>3 DEF Squared
<1>4. CASE SameResults(st, st', k)
  BY <1>2, <1>4 DEF SameResults, Exact
<1> QED BY <1>1, <1>2, <1>3, <1>4 DEF Renewed

LEMMA EntitledKept ==
    ASSUME NEW N, Extends(Draft, Draft', N), told' = told, jobs' = jobs,
           NEW p, NEW k \in Key, Entitled(p, k)
    PROVE  Entitled(p, k)'
<1>1. Renewed(st, st', k)
  BY DEF Extends, Upholds, Draft
<1>2. Rec(k) = st.keys[k] /\ Rec(k)' = st'.keys[k] /\ Result(st, p, k)' = Result(st', p, k)
  BY DEF Rec, Result
<1>3. Known(st', k) /\ Rec(k)'.voiding /\ p \in Rec(k)'.voidRequests
  BY <1>2 DEF Extends, Moves, Evolves, Known, Draft, Entitled
<1>4. CASE Squared(st', k)
  BY <1>2, <1>3, <1>4 DEF Squared, Entitled, Answer
<1>5. CASE SameResults(st, st', k)
  <2>1. Result(st', p, k) = Result(st, p, k) /\ Verdict(Rec(k)') = Verdict(Rec(k))
    BY <1>2, <1>5 DEF SameResults, Result
  <2>2. Result(st, p, k) \in st.acks => Result(st, p, k) \in st'.acks
    BY <1>5 DEF SameResults, ResultsFor, Result
  <2>3. Answer(p, k) => Answer(p, k)'
    BY <1>2, <2>1, <2>2 DEF Answer
  <2> QED BY <1>2, <1>3, <1>5, <2>3 DEF SameResults, Entitled
<1> QED BY <1>1, <1>2, <1>3, <1>4, <1>5 DEF Renewed

LEMMA AgreedKept ==
    ASSUME NEW N, Extends(Draft, Draft', N), NEW k \in Key,
           Known(st, k) /\ ~Rec(k).unknown /\ agreed[k] = {info[k].content}
    PROVE  Known(st', k) /\ ~Rec(k)'.unknown /\ agreed[k] = {info'[k].content}
<1>1. Evolves(st.keys[k], st'.keys[k]) /\ info'[k] = info[k]
  BY DEF Extends, Moves, Draft
<1> QED BY <1>1 DEF Evolves, Known, Rec

(* New records come from the request, and are within its allowance. *)
LEMMA CountedKept ==
    ASSUME Counted, NEW N, Extends(Draft, Draft', N), NEW K \in SUBSET Key, IsFiniteSet(K),
           \A w \in N : w[2] \in K, Room(st, {k \in K : ~Known(st, k)}, Capacity)
    PROVE  Counted'
<1> DEFINE new == {k \in K : ~Known(st, k)}
           all == KnownKeys \cup new
<1>1. KnownKeys' \subseteq all
  <2> SUFFICES ASSUME NEW k \in Key, Known(st', k), ~Known(st, k) PROVE k \in K
    BY DEF KnownKeys
  <2>1. <<st'.keys[k].sender, k>> \in N
    BY LicenceFields DEF Extends, Moves, Covered, Known, Draft
  <2> QED BY <2>1
<1>2. IsFiniteSet(all) /\ Cardinality(all) <= Capacity
  <2>1. IsFiniteSet(new)
    BY FS_Subset
  <2>2. IsFiniteSet(KnownKeys)
    BY DEF Counted
  <2>3. Cardinality(all) <= Capacity
    BY DEF Room, KnownKeys
  <2> HIDE DEF new
  <2> QED BY <2>1, <2>2, <2>3, FS_Union
<1> HIDE DEF all
<1>3. IsFiniteSet(KnownKeys') /\ Cardinality(KnownKeys') <= Cardinality(all)
  BY <1>1, <1>2, FS_Subset
<1>4. Cardinality(KnownKeys') \in Nat /\ Cardinality(all) \in Nat
  BY <1>2, <1>3, FS_CardinalityType
<1> QED BY <1>2, <1>3, <1>4, LimitAssumption DEF Counted

(* A change of the engine that concerns neither the worker nor the history *)
(* but for what is asked and agreed.                                       *)
LEMMA Continued ==
    ASSUME Inv, NEW N, Sane(Draft)', Extends(Draft, Draft', N), NEW K \in SUBSET Key, IsFiniteSet(K),
           \A w \in N : w[2] \in K, Room(st, {k \in K : ~Known(st, k)}, Capacity), UNCHANGED <<jobs, told>>,
           Typed', Agreed', \A p \in Node, k \in Key : <<p, k>> \in asked' \ asked => Entitled(p, k)'
    PROVE  Inv'
<1>1. Exact' /\ Counted' /\ SnapshotSingle'
  BY ExactKept, CountedKept DEF Inv, SnapshotSingle
<1>2. Answered'
  BY EntitledKept DEF Inv, Answered
<1> QED BY <1>1, <1>2 DEF Inv

(* A change that creates no record.                                        *)
LEMMA NoneNew ==
    ASSUME Inv, Moves(st, st', Licence({})), Upholds(st, st'),
           UNCHANGED <<info, cursor, jobs, told, asked, agreed>>, Typed'
    PROVE  Inv'
<1>1. Draft' = [st |-> st', info |-> info, cursor |-> cursor] /\ Draft'.cursor = cursor /\ Draft'.info = info
  BY DEF Draft
<1>2. info \in [Key -> Detail] /\ cursor \in [DOMAIN Route -> Nat] /\ Spread(Draft')
  <2>1. Sane(Draft)
    BY DEF Inv
  <2>2. Spread(Draft')
    BY <1>1, <2>1, DraftFields DEF Sane, Spread
  <2> QED BY <2>1, <2>2, DraftFields DEF Sane, Stage
<1>3. \A k \in Key : Known(st', k) => Known(st, k)
  <2> DEFINE L == Licence({})
  <2>1. L.new = {}
    BY LicenceFields
  <2> HIDE DEF L
  <2>2. Moves(st, st', L)
    BY DEF L
  <2> QED BY <2>1, <2>2 DEF Moves, Covered, Known
<1>4. Sane(Draft)' /\ Extends(Draft, Draft', {})
  BY <1>1, <1>2, <1>3, SaneStep, DraftFields DEF Inv
<1>5. Agreed'
  BY <1>4, AgreedKept DEF Inv, Agreed
<1>6. IsFiniteSet({}) /\ {} \in SUBSET Key /\ Room(st, {k \in {} : ~Known(st, k)}, Capacity)
  <2>1. KnownKeys \cup {k \in {} : ~Known(st, k)} = KnownKeys
    OBVIOUS
  <2> QED BY <2>1, FS_EmptySet DEF Inv, Counted, Room, KnownKeys
<1> QED BY <1>4, <1>5, <1>6, Continued

-----------------------------------------------------------------------------
(* The steps.                                                              *)

LEMMA Facts ==
    ASSUME Inv
    PROVE  /\ Sane(Draft) /\ Tidy(st) /\ Single(st) /\ st \in EngineState
           /\ info \in [Key -> Detail] /\ cursor \in [DOMAIN Route -> Nat]
           /\ Draft = [st |-> st, info |-> info, cursor |-> cursor]
           /\ \A k \in Key : IF Known(st, k) THEN info[k].pair \in Association /\ Rec(k).sender \notin ToSet(info[k].hops)
                             ELSE info[k] = NoInfo
<1>1. Sane(Draft)
  BY DEF Inv
<1> QED BY <1>1, DraftFields DEF Sane, Tidy, Stage, Detailed, Draft, Rec

(* Every key, and no particular one, may be touched. *)
LEMMA AnyKey ==
    ASSUME NEW L, L = Licence({})
    PROVE  /\ L.touch = Key /\ L.ready = Key /\ L.give = Key /\ L.failed = {}
           /\ L.ask = Node \X Key /\ L.heard = Node \X Key
BY LicenceFields

LEMMA ConsumeInv ==
    ASSUME Inv, NEW a \in Association, NEW B \in SUBSET Key, ConsumePeerKeys(a, B)
    PROVE  Inv'
<1> DEFINE L == Licence({})
<1>1. \A k \in B : Known(st, k) /\ ~st.keys[k].voiding
  BY DEF ConsumePeerKeys, Usable
<1>2. Moves(st, st', L) /\ Upholds(st, st')
  <2>1. L.touch = Key /\ L.give = Key
    BY AnyKey
  <2> HIDE DEF L
  <2> QED BY <1>1, <2>1, Facts, DeliveredMoves, DeliveredUpholds DEF ConsumePeerKeys
<1> QED BY <1>2, NoneNew DEF ConsumePeerKeys, history, Inv, Typed

LEMMA LapseInv ==
    ASSUME Inv, NEW k \in Key, Lapse(k)
    PROVE  Inv'
<1>1. UNCHANGED <<st, info, cursor, empties, jobs, told, asked, agreed>> /\ lapsed' = lapsed \cup {k}
  BY DEF Lapse, engine, history
<1>2. Moves(st, st', Licence({})) /\ Upholds(st, st')
  BY <1>1, Facts, MovesReflexive, UpholdsReflexive
<1>3. Typed'
  BY <1>1 DEF Inv, Typed
<1> QED BY <1>1, <1>2, <1>3, NoneNew

LEMMA SweepInv == ASSUME Inv, Sweep PROVE Inv'
<1> DEFINE L == Licence({})
<1>1. lapsed \in SUBSET Key
  BY DEF Inv, Typed
<1>2. Moves(st, st', L) /\ Upholds(st, st')
  <2>1. L.touch = Key
    BY AnyKey
  <2> HIDE DEF L
  <2> QED BY <1>1, <2>1, Facts, SweptMoves, SweptUpholds DEF Sweep
<1> QED BY <1>2, NoneNew DEF Sweep, history, Inv, Typed

LEMMA TransmitInv ==
    ASSUME Inv, NEW k \in Key, NEW p \in Node, Transmit(k, p)
    PROVE  Inv'
<1> DEFINE L == Licence({})
           hops == ToSet(info[k].hops)
<1>1. /\ Unsettled(st, k, k \in lapsed) /\ p \in NextHops(st, k, hops) /\ st' = Pinned(st, k, p)
      /\ UNCHANGED <<info, cursor, empties, jobs, lapsed, told, asked, agreed>>
  BY DEF Transmit, history
<1>2. ~st.keys[k].voiding /\ Known(st, k)
  BY <1>1 DEF Unsettled, Known
<1>3. st.keys[k].sender \notin hops
  BY <1>2, Facts DEF Rec
<1> HIDE DEF hops
<1>4. Moves(st, st', L) /\ Upholds(st, st')
  <2>1. L.touch = Key
    BY AnyKey
  <2> HIDE DEF L
  <2> QED BY <1>1, <1>2, <1>3, <2>1, Facts, PinnedMoves, PinnedUpholds
<1>5. Typed'
  BY <1>1 DEF Inv, Typed
<1> QED BY <1>1, <1>4, <1>5, NoneNew

LEMMA AcknowledgeInv ==
    ASSUME Inv, NEW p \in Node, NEW a, NEW batch \in Seq(Key), NEW status, Acknowledge(p, a, status, batch)
    PROVE  Inv'
<1>1. \A k \in ToSet(batch) : Known(st, k)
  BY DEF Acknowledge, CanAcknowledge
<1>2. st' = AcknowledgeEach(st, p, status, batch)
      /\ UNCHANGED <<info, cursor, empties, jobs, lapsed, told, asked, agreed>>
  BY DEF Acknowledge, history
<1>3. Moves(st, st', Licence({})) /\ Upholds(st, st')
  BY <1>1, <1>2, Facts, AcknowledgeEachFits
<1>4. Typed'
  BY <1>2 DEF Inv, Typed
<1> QED BY <1>2, <1>3, <1>4, NoneNew

(* The worker's own steps. *)
LEMMA NothingInv ==
    ASSUME Inv, UNCHANGED <<st, info, cursor, lapsed, history, jobs>>, empties' \subseteq Node \X Association
    PROVE  Inv'
<1>1. UNCHANGED <<st, info, cursor, jobs, lapsed, told, asked, agreed>>
  BY DEF history
<1>2. Moves(st, st', Licence({})) /\ Upholds(st, st')
  BY <1>1, Facts, MovesReflexive, UpholdsReflexive
<1>3. Typed'
  BY <1>1 DEF Inv, Typed
<1> QED BY <1>1, <1>2, <1>3, NoneNew

(* What the worker knows changes; the engine does not.                     *)
LEMMA SnapshotInv ==
    ASSUME Inv, UNCHANGED <<st, info, cursor, empties, lapsed, agreed, asked, told>>,
           jobs' = {} \/ jobs' = st.acks
    PROVE  Inv'
<1>1. Draft' = Draft /\ Sane(Draft)'
  BY DEF Draft, Inv
<1>2. Counted' /\ Exact' /\ Agreed'
  BY DEF Inv, Counted, KnownKeys, Exact, Rec, Agreed
<1>3. jobs' \subseteq st.acks /\ Typed' /\ SnapshotSingle'
  BY Facts DEF Inv, Typed, EngineState, SnapshotSingle, Single
<1>4. ASSUME NEW p \in Node, NEW k \in Key, <<p, k>> \in asked
      PROVE  Entitled(p, k)'
  <2>1. Entitled(p, k)
    BY <1>4 DEF Inv, Answered
  <2>2. Answer(p, k) => Answer(p, k)'
    <3>1. \A j \in jobs' : j.key = k => j.status = Verdict(Rec(k))
      BY <1>3, <2>1 DEF Entitled, Inv, Exact, ResultsFor
    <3> QED BY <3>1 DEF Answer, Rec, Result
  <2> QED BY <2>1, <2>2 DEF Entitled, Rec
<1> QED BY <1>1, <1>2, <1>3, <1>4 DEF Inv, Answered

(* A result leaves the outbox only if its peer took it.                    *)
LEMMA DeliverInv ==
    ASSUME Inv, NEW j \in jobs, NEW taken \in BOOLEAN, NEW ok \in BOOLEAN, Deliver(j, taken, ok)
    PROVE  Inv'
<1>1. /\ st'.keys = st.keys /\ st'.acks = IF ok THEN st.acks \ {j} ELSE st.acks
      /\ Tidy(st')
  <2>1. CASE ok
    <3>1. st' = [st EXCEPT !.acks = @ \ {j}]
      BY <2>1 DEF Deliver
    <3>2. Tidy(st')
      BY <3>1, Facts, FewerResultsMove DEF Moves
    <3> QED BY <2>1, <3>1, <3>2, Facts DEF EngineState
  <2>2. CASE ~ok
    BY <2>2, Facts DEF Deliver
  <2> QED BY <2>1, <2>2
<1>2. /\ UNCHANGED <<info, cursor, empties, lapsed, agreed, asked>> /\ jobs' = jobs \ {j}
      /\ told' = IF taken THEN [told EXCEPT ![j.peer][j.key] = j.status] ELSE told
      /\ ok => taken
  BY DEF Deliver
<1>3. j \in Job /\ j.peer \in Node /\ j.key \in Key /\ j.status \in Status
  BY DEF Inv, Typed, Job
<1>4. Sane(Draft)'
  <2>1. Draft' = [st |-> st', info |-> info, cursor |-> cursor]
    BY <1>2 DEF Draft
  <2>2. Draft'.st = st' /\ Draft'.info = info /\ Draft'.cursor = cursor /\ Draft' \in Stage
    BY <1>1, <2>1, Facts DEF Stage, Tidy
  <2>3. Detailed(Draft')
    BY <1>1, <2>2, Facts DEF Detailed, Known, Rec
  <2>4. Spread(Draft')
    BY <2>2, Facts, DraftFields DEF Sane, Spread
  <2>5. Single(st')
    BY <1>1, Facts DEF Single
  <2> QED BY <1>1, <2>2, <2>3, <2>4, <2>5 DEF Sane
<1>5. Counted' /\ Agreed'
  BY <1>1, <1>2 DEF Inv, Counted, KnownKeys, Known, Agreed, Rec
<1>6. Typed'
  BY <1>2, <1>3 DEF Inv, Typed
<1>7. SnapshotSingle' /\ Exact'
  BY <1>1, <1>2 DEF Inv, SnapshotSingle, Exact, Rec, ResultsFor
<1>8. ASSUME NEW p \in Node, NEW k \in Key, <<p, k>> \in asked
      PROVE  Entitled(p, k)'
  <2>1. Entitled(p, k) /\ Rec(k)' = Rec(k)
    BY <1>1, <1>8 DEF Inv, Answered, Rec
  <2>2. Result(st', p, k) = Result(st, p, k) /\ Result(st, p, k) = [peer |-> p, key |-> k, status |-> Verdict(Rec(k))]
    BY <1>1 DEF Result, Rec
  <2>3. ASSUME Answer(p, k) PROVE Answer(p, k)'
    <3>1. CASE j.peer # p \/ j.key # k
      <4>1. told'[p][k] = told[p][k]
        BY <1>2, <1>3, <3>1 DEF Inv, Typed
      <4>2. j # Result(st, p, k)
        BY <2>2, <3>1
      <4> QED BY <1>1, <1>2, <2>1, <2>2, <2>3, <4>1, <4>2 DEF Answer, Result
    <3>2. CASE j.peer = p /\ j.key = k
      <4>1. taken => told'[p][k] = j.status
        BY <1>2, <1>3, <3>2 DEF Inv, Typed
      <4>2. \A i \in jobs' : ~(i.peer = p /\ i.key = k)
        BY <1>2, <3>2 DEF Inv, SnapshotSingle
      <4>3. CASE ok /\ j.status = Verdict(Rec(k))
        BY <1>2, <2>1, <4>1, <4>2, <4>3 DEF Answer
      <4>4. CASE ~ok \/ j.status # Verdict(Rec(k))
        <5>1. Result(st, p, k) \in st.acks => Result(st', p, k) \in st'.acks
          BY <1>1, <2>2, <4>4
        <5>2. ASSUME told[p][k] = Verdict(Rec(k)), \A i \in jobs : i.peer = p /\ i.key = k => i.status = Verdict(Rec(k))
              PROVE  told'[p][k] = Verdict(Rec(k))
          BY <1>2, <3>2, <4>1, <5>2
        <5> QED BY <2>1, <2>3, <4>2, <5>1, <5>2 DEF Answer, Result, Rec
      <4> QED BY <4>3, <4>4
    <3> QED BY <3>1, <3>2
  <2> QED BY <1>1, <2>1, <2>3 DEF Entitled, Known
<1>9. Answered'
  BY <1>2, <1>8 DEF Answered
<1> QED BY <1>4, <1>5, <1>6, <1>7, <1>9 DEF Inv

LEMMA StoreInv ==
    ASSUME Inv, NEW a \in Association, NEW k \in Key, NEW c \in Content, StoreKey(k, a, c)
    PROVE  Inv'
<1> DEFINE N == {<<NoNode, k>>}
           s == Stored(st, k)
           t == [st |-> s, info |-> Draft.info, cursor |-> Draft.cursor]
           g == WithInfo(t, k, a, c, NoNode)
<1>1. ~Known(st, k) /\ Room(st, {k}, Capacity) /\ (~Local(a.slave) => a.slave \in DOMAIN Route)
  BY DEF StoreKey
<1>2. [Draft EXCEPT !.st = Stored(st, k)] = t
  BY Facts, DraftFields
<1>3. st' = g.st /\ info' = g.info /\ cursor' = g.cursor
      /\ UNCHANGED <<empties, jobs, lapsed, told, asked, agreed>>
  BY <1>2 DEF StoreKey, Commit, history
<1>4. Known(s, k) /\ s.keys[k].sender = NoNode /\ Apart(st, s, k)
  <2> DEFINE r == [Absent EXCEPT !.role = "source", !.material = TRUE]
  <2>1. s = [keys |-> [st.keys EXCEPT ![k] = r], acks |-> st.acks]
    BY StateShape, Facts DEF Stored
  <2>2. r.role # "none" /\ r.sender = NoNode
    BY DEF Absent
  <2>3. st \in EngineState
    BY Facts
  <2> HIDE DEF r, s
  <2> QED BY <2>1, <2>2, <2>3, OneRecordApart DEF Known
<1>5. Moves(st, s, Licence(N)) /\ Upholds(st, s)
  <2> DEFINE L == Licence(N)
  <2>1. L.touch = Key /\ <<NoNode, k>> \in L.new
    BY LicenceFields
  <2> HIDE DEF L, N
  <2> QED BY <1>1, <2>1, Facts, StoredMoves, StoredUpholds DEF L
<1> HIDE DEF s
<1>6. Sane(g) /\ Extends(Draft, g, N) /\ g.st = s
  <2> HIDE DEF N, t
  <2> HIDE DEF g
  <2>1. t = [st |-> s, info |-> Draft.info, cursor |-> Draft.cursor] /\ g = WithInfo(t, k, a, c, NoNode)
    BY DEF t, g
  <2>2. Draft.st = st /\ Sane(Draft)
    BY Facts, DraftFields
  <2> QED BY <1>1, <1>4, <1>5, <2>1, <2>2, WithInfoFits
<1>7. Draft' = g
  <2>1. g = [st |-> g.st, info |-> g.info, cursor |-> g.cursor]
    BY <1>6 DEF Sane, Stage
  <2> HIDE DEF g
  <2> QED BY <1>3, <2>1 DEF Draft
<1> HIDE DEF g
<1>8. Sane(Draft)' /\ Extends(Draft, Draft', N)
  BY <1>6, <1>7
<1>9. Typed' /\ Agreed'
  BY <1>3, <1>8, AgreedKept DEF Inv, Typed, Agreed
<1>10. /\ IsFiniteSet({k}) /\ {k} \in SUBSET Key /\ \A w \in N : w[2] \in {k}
       /\ Room(st, {x \in {k} : ~Known(st, x)}, Capacity)
  <2>1. {x \in {k} : ~Known(st, x)} = {k}
    BY <1>1
  <2>2. Room(st, {x \in {k} : ~Known(st, x)}, Capacity)
    BY <1>1, <2>1
  <2>3. IsFiniteSet({k})
    BY FS_Singleton
  <2>4. \A w \in N : w[2] \in {k}
    OBVIOUS
  <2> QED BY <2>2, <2>3, <2>4
<1> QED BY <1>3, <1>8, <1>9, <1>10, Continued

(* The new keys of a batch have room. *)
LEMMA BatchRoom ==
    ASSUME NEW batch \in Seq(Key), NEW p, NEW N, N = {p} \X ToSet(batch)
    PROVE  /\ ToSet(batch) \in SUBSET Key /\ IsFiniteSet(ToSet(batch))
           /\ \A w \in N : w[2] \in ToSet(batch)
<1>1. ToSet(batch) \in SUBSET Key /\ IsFiniteSet(ToSet(batch))
  BY ListFinite
<1> QED BY <1>1

LEMMA AcceptInv ==
    ASSUME Inv, NEW p \in Node, NEW a \in Association, NEW batch \in Seq(Key),
           NEW c \in [ToSet(batch) -> Content], Accept(p, a, c, batch)
    PROVE  Inv'
<1> DEFINE K == ToSet(batch)
           N == {p} \X K
           new == {k \in K : ~Known(st, k)}
           g == AcceptEach(Draft, p, a, c, batch)
<1>1. /\ p \in Incoming /\ Room(st, new, Capacity)
      /\ \A k \in K \ new : Rec(k).sender = p /\ (Rec(k).unknown \/ info[k].content = c[k])
      /\ new # {} /\ ~Local(a.slave) => a.slave \in DOMAIN Route
  BY DEF Accept, BatchAcceptable
<1>2. st' = g.st /\ info' = g.info /\ cursor' = g.cursor
      /\ UNCHANGED <<empties, jobs, lapsed, told, asked>>
      /\ agreed' = [k \in Key |-> IF k \in K /\ ~Rec(k).unknown THEN agreed[k] \cup {c[k]} ELSE agreed[k]]
  BY DEF Accept, Commit
<1>3. K \in SUBSET Key /\ IsFiniteSet(K) /\ \A w \in N : w[2] \in K
  <2> HIDE DEF N, K
  <2> QED BY BatchRoom DEF N, K
<1>4. Sane(g) /\ Extends(Draft, g, N) /\ Fresh(Draft, g, c) /\ \A k \in K : Known(g.st, k)
  <2>1. \A k \in K : Known(Draft.st, k) => Draft.st.keys[k].sender = p
    BY <1>1, DraftFields DEF Rec
  <2>2. (\E k \in K : ~Known(Draft.st, k)) /\ ~Local(a.slave) => a.slave \in DOMAIN Route
    BY <1>1, DraftFields
  <2>3. Sane(Draft)
    BY Facts
  <2> HIDE DEF g
  <2> QED BY <1>1, <2>1, <2>2, <2>3, AcceptEachFits DEF g
<1>5. Draft' = g
  <2>1. g = [st |-> g.st, info |-> g.info, cursor |-> g.cursor]
    BY <1>4 DEF Sane, Stage
  <2> HIDE DEF g
  <2> QED BY <1>2, <2>1 DEF Draft
<1> HIDE DEF g, N
<1>6. Sane(Draft)' /\ Extends(Draft, Draft', N)
  BY <1>4, <1>5
<1>7. Typed'
  BY <1>2 DEF Inv, Typed
<1>8. ASSUME NEW k \in Key
      PROVE  agreed'[k] \subseteq Content /\ \/ agreed'[k] = {}
                                             \/ Known(st', k) /\ ~Rec(k)'.unknown /\ agreed'[k] = {info'[k].content}
  <2>1. /\ agreed[k] \subseteq Content
        /\ agreed[k] = {} \/ (Known(st, k) /\ ~Rec(k).unknown /\ agreed[k] = {info[k].content})
    BY DEF Inv, Agreed
  <2>2. Known(st, k) => Known(st', k) /\ info'[k] = info[k] /\ Rec(k)'.unknown = Rec(k).unknown
    BY <1>6 DEF Extends, Moves, Evolves, Known, Draft, Rec
  <2>3. CASE k \in K /\ ~Rec(k).unknown
    <3>1. agreed'[k] = agreed[k] \cup {c[k]} /\ c[k] \in Content
      BY <1>2, <2>3
    <3>2. CASE Known(st, k)
      BY <1>1, <2>1, <2>2, <2>3, <3>1, <3>2
    <3>3. CASE ~Known(st, k)
      <4>1. Known(st', k) /\ info'[k].content = c[k] /\ ~Rec(k)'.unknown
        BY <1>2, <1>4, <2>3, <3>3, DraftFields DEF Fresh, Rec
      <4> QED BY <2>1, <3>1, <3>3, <4>1
    <3> QED BY <3>2, <3>3
  <2>4. CASE ~(k \in K /\ ~Rec(k).unknown)
    <3>1. agreed'[k] = agreed[k]
      BY <1>2, <2>4
    <3> QED BY <2>1, <2>2, <3>1
  <2> QED BY <2>3, <2>4
<1>9. Agreed'
  <2>1. agreed' \in [Key -> SUBSET Content]
    BY <1>2, <1>8
  <2> QED BY <1>8, <2>1 DEF Agreed
<1> HIDE DEF K
<1> QED BY <1>1, <1>2, <1>3, <1>6, <1>7, <1>9, Continued

LEMMA DiscardInv ==
    ASSUME Inv, NEW p \in Node, NEW a \in Association, NEW batch \in Seq(Key), Discard(p, a, batch)
    PROVE  Inv'
<1> DEFINE K == ToSet(batch)
           N == {p} \X K
           new == {k \in K : ~Known(st, k)}
           g == VoidEach(Draft, p, a, batch)
<1>1. Room(st, new, Capacity) /\ asked' = asked \cup N
      /\ st' = g.st /\ info' = g.info /\ cursor' = g.cursor
      /\ UNCHANGED <<empties, jobs, lapsed, told, agreed>>
  BY DEF Discard, Commit
<1>2. K \in SUBSET Key /\ IsFiniteSet(K) /\ \A w \in N : w[2] \in K
  <2> HIDE DEF N, K
  <2> QED BY BatchRoom DEF N, K
<1>3. Sane(g) /\ Extends(Draft, g, N) /\ \A k \in K : Discarding(g, p, k)
  <2> HIDE DEF g
  <2> QED BY Facts, VoidEachFits DEF g
<1>4. Draft' = g
  <2>1. g = [st |-> g.st, info |-> g.info, cursor |-> g.cursor]
    BY <1>3 DEF Sane, Stage
  <2> HIDE DEF g
  <2> QED BY <1>1, <2>1 DEF Draft
<1> HIDE DEF g
<1>5. Typed'
  BY <1>1, <1>2 DEF Inv, Typed
<1>6. ASSUME NEW q \in Node, NEW k \in Key, <<q, k>> \in asked' \ asked
      PROVE  Entitled(q, k)'
  <2>1. q = p /\ k \in K
    BY <1>1, <1>6
  <2>2. Discarding(g, p, k)
    BY <1>3, <2>1
  <2>3. Result(st, p, k)' = Result(st', p, k)
    BY DEF Result
  <2> QED BY <1>1, <2>1, <2>2, <2>3 DEF Discarding, Squared, Entitled, Answer, Rec
<1> HIDE DEF N
<1>7. Sane(Draft)' /\ Extends(Draft, Draft', N)
  BY <1>3, <1>4
<1>8. Agreed'
  BY <1>1, <1>7, AgreedKept DEF Inv, Agreed
<1> HIDE DEF K
<1> QED BY <1>1, <1>2, <1>5, <1>6, <1>7, <1>8, Continued

LEMMA VoidAllInv ==
    ASSUME Inv, NEW p \in Node, NEW a \in Association, VoidAll(p, a)
    PROVE  Inv'
<1> DEFINE S == Shared(p, a)
<1>1. IsFiniteSet(S) /\ S \subseteq Key
  <2>1. S \subseteq KnownKeys
    BY DEF Shared, KnownKeys
  <2> HIDE DEF S
  <2> QED BY <2>1, FS_Subset DEF Inv, Counted, KnownKeys
<1>2. SetToSeq(S) \in Seq(Key)
  <2> HIDE DEF S
  <2> QED BY <1>1, SetListed
<1> QED BY <1>2, DiscardInv DEF VoidAll

LEMMA BatchIsList == ASSUME NEW K \in SUBSET Key, NEW batch \in Batches(K) PROVE batch \in Seq(Key)
<1>1. PICK m \in 0..MaxBatch : batch \in [1..m -> K]
  BY DEF Batches, BoundedSeq, SeqOf
<1>2. m \in Nat /\ batch \in [1..m -> Key]
  BY <1>1, LimitAssumption
<1> QED BY <1>2

LEMMA Invariance == Spec => []Inv
<1>1. ASSUME Inv, [Next]_vars PROVE Inv'
  <2>1. CASE Next
    <3>1. ASSUME NEW a \in Association, NEW k \in Key, NEW c \in Content, StoreKey(k, a, c) PROVE Inv'
      BY <1>1, <3>1, StoreInv
    <3>2. ASSUME NEW a \in Association, NEW B \in SUBSET Key, ConsumePeerKeys(a, B) PROVE Inv'
      BY <1>1, <3>2, ConsumeInv
    <3>3. ASSUME NEW a \in Association, NEW p \in Node, NEW batch \in Batches(Key),
                 NEW c \in [ToSet(batch) -> Content], Accept(p, a, c, batch)
          PROVE  Inv'
      BY <1>1, <3>3, AcceptInv, BatchIsList
    <3>4. ASSUME NEW a \in Association, NEW p \in Node, NEW batch \in Batches(MaySettle),
                 NEW status \in [ToSet(batch) -> PeerStatus], Acknowledge(p, a, status, batch)
          PROVE  Inv'
      BY <1>1, <3>4, AcknowledgeInv, BatchIsList, LimitAssumption
    <3>5. ASSUME NEW a \in Association, NEW p \in Node, NEW batch \in Batches(MaySettle), VoidKeys(p, a, batch)
          PROVE  Inv'
      BY <1>1, <3>5, DiscardInv, BatchIsList, LimitAssumption DEF VoidKeys
    <3>6. ASSUME NEW w \in MayVoidAll, VoidAll(w[1], w[2]) \/ VoidNothing(w[1], w[2]) PROVE Inv'
      <4>1. w[1] \in Node /\ w[2] \in Association
        BY LimitAssumption
      <4>2. CASE VoidAll(w[1], w[2])
        BY <1>1, <4>1, <4>2, VoidAllInv
      <4>3. CASE VoidNothing(w[1], w[2])
        <5>1. empties' \subseteq Node \X Association
          BY <1>1, <4>1, <4>3 DEF VoidNothing, Inv, Typed
        <5> QED BY <1>1, <4>3, <5>1, NothingInv DEF VoidNothing
      <4> QED BY <3>6, <4>2, <4>3
    <3>7. ASSUME NEW k \in Key, Lapse(k) PROVE Inv'
      BY <1>1, <3>7, LapseInv
    <3>8. CASE Sweep
      BY <1>1, <3>8, SweepInv
    <3>9. CASE TakeJobs
      BY <1>1, <3>9, SnapshotInv DEF TakeJobs, engine, history
    <3>10. ASSUME NEW j \in jobs, NEW taken \in BOOLEAN, NEW ok \in BOOLEAN, Deliver(j, taken, ok) PROVE Inv'
      BY <1>1, <3>10, DeliverInv
    <3>11. ASSUME NEW w \in empties, AnswerNothing(w) PROVE Inv'
      <4>1. empties' \subseteq Node \X Association
        BY <1>1, <3>11 DEF AnswerNothing, Inv, Typed
      <4> QED BY <1>1, <3>11, <4>1, NothingInv DEF AnswerNothing
    <3>12. ASSUME NEW k \in Key, NEW p \in Node, Transmit(k, p) PROVE Inv'
      BY <1>1, <3>12, TransmitInv
    <3>13. CASE Restart
      BY <1>1, <3>13, SnapshotInv DEF Restart, engine, history
    <3> QED BY <2>1, <3>1, <3>2, <3>3, <3>4, <3>5, <3>6, <3>7, <3>8, <3>9, <3>10, <3>11, <3>12, <3>13 DEF Next
  <2>2. CASE UNCHANGED vars
    <3>1. UNCHANGED <<st, info, cursor, lapsed, history, jobs, empties>>
      BY <2>2 DEF vars, engine
    <3> QED BY <1>1, <3>1, NothingInv DEF Inv, Typed
  <2> QED BY <1>1, <2>1, <2>2
<1> QED BY InvInit, <1>1, PTL DEF Spec

-----------------------------------------------------------------------------
(* What follows.                                                           *)

(* Every variable stays in its type, and however requests of one or many   *)
(* keys, voids of unknown keys and repetitions are mixed, the records      *)
(* never outgrow the engine's lifetime capacity (Accept, Void, StoreKey).  *)
THEOREM TypeCorrect == Spec => []TypeOK
<1>1. Inv => TypeOK
  <2> SUFFICES ASSUME Inv PROVE TypeOK
    OBVIOUS
  <2>1. \A k \in Key : IF Known(st, k) THEN /\ info[k].pair \in Association
                                            /\ info[k].content \in Content \cup {NoContent}
                                            /\ ToSet(info[k].hops) \subseteq Node
                       ELSE info[k] = NoInfo
    BY Facts DEF Detail, ToSet
  <2>2. \A x \in DOMAIN Route : cursor[x] \in DOMAIN Route[x]
    BY Facts, DraftFields DEF Sane, Spread
  <2> QED BY <2>1, <2>2, Facts DEF Inv, Typed, Counted, KnownKeys, TypeOK
<1> QED BY <1>1, Invariance, PTL

(* Every queued result says what its record says now, and no peer is owed  *)
(* two results for one key: whatever was overtaken by a void, an expiry or *)
(* a late report of failure has left the outbox (enqueue, finishVoid).     *)
THEOREM OutboxTruth == Spec => []OutboxTruthful
<1>1. Inv => OutboxTruthful
  <2> SUFFICES ASSUME Inv PROVE OutboxTruthful
    OBVIOUS
  <2>1. ASSUME NEW j \in st.acks
        PROVE  IF j.status = "relayed" THEN Rec(j.key).ready /\ Rec(j.key).sender = j.peer
               ELSE /\ Rec(j.key).voiding /\ Rec(j.key).voidPending = {}
                    /\ j.peer \in Rec(j.key).voidRequests
                    /\ j.status = Verdict(Rec(j.key))
    <3>1. Owes(Rec(j.key), j.peer, j.status) /\ j.key \in Key
      BY Facts DEF Tidy, Truthful, Rec, EngineState, Job
    <3>2. Rec(j.key).voiding => j.status = Verdict(Rec(j.key))
      BY <3>1 DEF Inv, Exact, ResultsFor
    <3> QED BY <3>1, <3>2 DEF Owes
  <2> QED BY <2>1, Facts DEF OutboxTruthful, Single
<1> QED BY <1>1, Invariance, PTL

(* Every void that was answered 202, of one key, of a batch or of a whole  *)
(* association, has its result queued or taken, unless this node still     *)
(* waits for another neighbour (Void, finishVoid, enqueue, sendAck).       *)
THEOREM VoidAnswers == Spec => []VoidsAnswered
<1>1. Inv => VoidsAnswered
  <2> SUFFICES ASSUME Inv, NEW w \in asked
               PROVE  /\ Rec(w[2]).voiding
                      /\ \/ Rec(w[2]).voidPending # {}
                         \/ [peer |-> w[1], key |-> w[2], status |-> Verdict(Rec(w[2]))] \in st.acks
                         \/ told[w[1]][w[2]] = Verdict(Rec(w[2]))
    BY DEF VoidsAnswered
  <2>1. w[1] \in Node /\ w[2] \in Key /\ w = <<w[1], w[2]>>
    BY DEF Inv, Typed
  <2>2. Entitled(w[1], w[2])
    BY <2>1 DEF Inv, Answered
  <2> QED BY <2>2 DEF Entitled, Answer, Result, Rec
<1> QED BY <1>1, Invariance, PTL

(* A key identifier stands for one content: only the first one is ever     *)
(* accepted, however often, in whatever batch and by whomever the          *)
(* identifier is offered again (Accept).                                   *)
THEOREM OneContentEach == Spec => []OneContent
<1>1. Inv => OneContent
  <2> SUFFICES ASSUME Inv, NEW k \in Key PROVE Cardinality(agreed[k]) <= 1
    BY DEF OneContent
  <2>1. agreed[k] = {} \/ agreed[k] = {info[k].content}
    BY DEF Inv, Agreed
  <2>2. CASE agreed[k] = {}
    BY <2>2, FS_EmptySet
  <2>3. CASE agreed[k] = {info[k].content}
    <3>1. Cardinality({info[k].content}) = 1
      BY FS_Singleton
    <3> QED BY <2>3, <3>1
  <2> QED BY <2>1, <2>2, <2>3
<1> QED BY <1>1, Invariance, PTL

(* The keys of a slave SAE are spread over its next hops as evenly as      *)
(* their number allows, in whatever batches they come (candidates), as     *)
(* long as no peer that sends transfers is itself one of the hops.         *)
THEOREM SplitEven == Spec => []EvenSplit
<1>1. Inv => EvenSplit
  <2> SUFFICES ASSUME Inv, NEW x \in DOMAIN Route, Incoming \cap ToSet(Route[x]) = {},
                      NEW p \in ToSet(Route[x]), NEW q \in ToSet(Route[x])
               PROVE  Cardinality(FirstChoices(x, p)) <= Cardinality(FirstChoices(x, q)) + 1
    BY DEF EvenSplit
  <2>1. \A h : FirstChoices(x, h) = StartsAt(info, x, h)
    BY DEF FirstChoices, StartsAt
  <2>2. PICK n \in Nat : Dealt(info, cursor[x], x, n)
    BY Facts, DraftFields DEF Sane, Spread
  <2>3. \A h \in ToSet(Route[x]) : Cardinality(StartsAt(info, x, h)) \in {n, n + 1}
    BY <2>2, RoutingAssumption DEF Dealt, ToSet
  <2>4. Cardinality(StartsAt(info, x, p)) \in {n, n + 1} /\ Cardinality(StartsAt(info, x, q)) \in {n, n + 1}
    BY <2>3
  <2> QED BY <2>1, <2>4
<1> QED BY <1>1, Invariance, PTL
=============================================================================
